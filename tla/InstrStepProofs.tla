--------------------------- MODULE InstrStepProofs --------------------------
(***************************************************************************)
(* Proofs about one instruction in the two processors: how its operand is  *)
(* addressed and what it does, cycle by cycle in P6502CC.cpp and at once   *)
(* in P6502IC.cpp.                                                         *)
(*                                                                         *)
(* A path leads the cycle-accurate processor from one cycle to another;    *)
(* the memory and the reads and writes on the way are those of the bus.  A *)
(* lemma for each addressing mode and each kind of instruction says what   *)
(* the path leaves and that the other processor's functions leave the      *)
(* same.                                                                   *)
(***************************************************************************)
EXTENDS InstrProperties, TLAPS

-----------------------------------------------------------------------------
(* The records.                                                            *)

IsByte(n) == n \in Nat /\ n < 256
IsWord(n) == n \in Nat /\ n < 65536

\* The address after n.
Past(n) == (n + 1) % 65536

\* The address n, wrapped.
Address(n) == n % 65536

\* The page of the address n.
Page(n) == n \div 256

\* The fields of both processors, and those of each of them.
Registers(s) ==
  /\ "a" \in DOMAIN s /\ "x" \in DOMAIN s /\ "y" \in DOMAIN s /\ "sp" \in DOMAIN s
  /\ "sr" \in DOMAIN s /\ "pc" \in DOMAIN s /\ "rv" \in DOMAIN s /\ "opAdr" \in DOMAIN s
  /\ "op16" \in DOMAIN s /\ "cycles" \in DOMAIN s /\ "code" \in DOMAIN s
  /\ "ram" \in DOMAIN s /\ "reads" \in DOMAIN s /\ "writes" \in DOMAIN s
  /\ "b1" \in DOMAIN s /\ "b2" \in DOMAIN s /\ "seed" \in DOMAIN s

Micro(s) ==
  /\ Registers(s)
  /\ "exec" \in DOMAIN s /\ "op" \in DOMAIN s /\ "ex" \in DOMAIN s /\ "inter" \in DOMAIN s
  /\ "data" \in DOMAIN s /\ "rw" \in DOMAIN s /\ "adr" \in DOMAIN s /\ "look" \in DOMAIN s
  /\ "eff" \in DOMAIN s /\ "calc" \in DOMAIN s /\ "tmp" \in DOMAIN s

Whole(q) == Registers(q) /\ "opcodePC" \in DOMAIN q

\* What addressing leaves alone.
Agree(s, t) ==
  /\ s.a = t.a /\ s.x = t.x /\ s.y = t.y /\ s.sp = t.sp /\ s.sr = t.sr
  /\ s.ram = t.ram /\ s.writes = t.writes /\ s.b1 = t.b1 /\ s.b2 = t.b2 /\ s.seed = t.seed

TypedMemory(s) ==
  /\ IsByte(s.b1) /\ IsByte(s.b2) /\ s.seed \in Nat
  /\ \A adr \in DOMAIN s.ram : IsByte(s.ram[adr])

Typed(s) ==
  /\ IsByte(s.a) /\ IsByte(s.x) /\ IsByte(s.y) /\ IsByte(s.sp) /\ IsByte(s.sr)
  /\ IsWord(s.pc) /\ s.cycles \in Nat
  /\ TypedMemory(s)

\* Addresses at which a read is seen by a device.
Device(r) == r >= 512 /\ r \notin CodeStart .. CodeStart + 3
Seen(f, g) == \A r : Device(r) => (r \in f <=> r \in g)

-----------------------------------------------------------------------------
(* Paths.                                                                  *)

Going(s) == s.exec \in {"FETCH_OPERAND", "EXECUTE_DIRECTLY", "EXECUTE"}
Continued(s) == step(s, s.code, "none")

\* Micro cycles lead from s to e.
Leads(s, e) ==
  \E n, p :
    /\ n \in Nat
    /\ p[0] = s /\ p[n] = e
    /\ \A i \in 0 .. n - 1 : Going(p[i]) /\ p[i + 1] = Continued(p[i])

\* The empty path.
LEMMA LeadsNowhere ==
  ASSUME NEW s PROVE Leads(s, s)
<1> DEFINE p == [i \in {0} |-> s]
<1>1. p[0] = s /\ \A i \in 0 .. 0 - 1 : Going(p[i]) /\ p[i + 1] = Continued(p[i])
  OBVIOUS
<1> QED  BY <1>1 DEF Leads

\* A path with one cycle more in front of it.
LEMMA LeadsOn ==
  ASSUME NEW s, NEW e, Going(s), Leads(Continued(s), e)
  PROVE  Leads(s, e)
<1>1. PICK n, p : /\ n \in Nat
                  /\ p[0] = Continued(s) /\ p[n] = e
                  /\ \A i \in 0 .. n - 1 : Going(p[i]) /\ p[i + 1] = Continued(p[i])
  BY DEF Leads
<1> DEFINE o == [i \in 0 .. n + 1 |-> IF i = 0 THEN s ELSE p[i - 1]]
<1>2. o[0] = s /\ o[n + 1] = e
  BY <1>1
<1>3. ASSUME NEW i \in 0 .. n PROVE Going(o[i]) /\ o[i + 1] = Continued(o[i])
  <2>1. CASE i = 0
    <3>1. o[0] = s /\ o[0 + 1] = p[0]
      BY <1>1
    <3> QED  BY <2>1, <3>1, <1>1
  <2>2. CASE i # 0
    <3>1. i - 1 \in 0 .. n - 1 /\ o[i] = p[i - 1] /\ o[i + 1] = p[(i - 1) + 1]
      BY <1>1, <2>2
    <3>2. Going(p[i - 1]) /\ p[(i - 1) + 1] = Continued(p[i - 1])
      BY <1>1, <3>1
    <3> QED  BY <3>1, <3>2
  <2> QED  BY <2>1, <2>2
<1> HIDE DEF o
<1>4. n + 1 \in Nat /\ (n + 1) - 1 = n
  BY <1>1
<1> QED  BY <1>2, <1>3, <1>4 DEF Leads

\* Two paths, one after the other.
LEMMA LeadsVia ==
  ASSUME NEW s, NEW t, NEW e, Leads(s, t), Leads(t, e)
  PROVE  Leads(s, e)
<1>1. PICK n, p : /\ n \in Nat
                  /\ p[0] = s /\ p[n] = t
                  /\ \A i \in 0 .. n - 1 : Going(p[i]) /\ p[i + 1] = Continued(p[i])
  BY DEF Leads
<1>2. PICK m, r : /\ m \in Nat
                  /\ r[0] = t /\ r[m] = e
                  /\ \A i \in 0 .. m - 1 : Going(r[i]) /\ r[i + 1] = Continued(r[i])
  BY DEF Leads
<1> DEFINE o == [i \in 0 .. n + m |-> IF i < n THEN p[i] ELSE r[i - n]]
<1>3. o[0] = s /\ o[n + m] = e
  BY <1>1, <1>2
<1>4. ASSUME NEW i \in 0 .. (n + m) - 1 PROVE Going(o[i]) /\ o[i + 1] = Continued(o[i])
  <2>1. CASE i < n
    <3>1. i \in 0 .. n - 1 /\ o[i] = p[i]
      BY <1>1, <1>2, <2>1
    <3>2. o[i + 1] = p[i + 1]
      BY <2>1, <1>1, <1>2
    <3> QED  BY <3>1, <3>2, <1>1
  <2>2. CASE i >= n
    <3>1. i - n \in 0 .. m - 1 /\ o[i] = r[i - n] /\ o[i + 1] = r[(i - n) + 1]
      BY <1>1, <1>2, <2>2
    <3>2. Going(r[i - n]) /\ r[(i - n) + 1] = Continued(r[i - n])
      BY <1>2, <3>1
    <3> QED  BY <3>1, <3>2
  <2> QED  BY <1>1, <2>1, <2>2
<1> HIDE DEF o
<1>5. n + m \in Nat
  BY <1>1, <1>2
<1> QED  BY <1>3, <1>4, <1>5 DEF Leads

\* A micro cycle of what has not ended yet is on the way.
LEMMA LeadsStill ==
  ASSUME NEW s, NEW e, Leads(s, e), Going(s), ~ Going(e)
  PROVE  Leads(Continued(s), e)
<1>1. PICK n, p : /\ n \in Nat
                  /\ p[0] = s /\ p[n] = e
                  /\ \A i \in 0 .. n - 1 : Going(p[i]) /\ p[i + 1] = Continued(p[i])
  BY DEF Leads
<1>2. n # 0
  BY <1>1
<1> DEFINE o == [i \in 0 .. n - 1 |-> p[i + 1]]
<1>3. o[0] = Continued(s) /\ o[n - 1] = e
  BY <1>1, <1>2
<1>4. ASSUME NEW i \in 0 .. (n - 1) - 1 PROVE Going(o[i]) /\ o[i + 1] = Continued(o[i])
  <2>1. o[i] = p[i + 1] /\ o[i + 1] = p[(i + 1) + 1] /\ i + 1 \in 0 .. n - 1
    BY <1>1, <1>2
  <2> QED  BY <2>1, <1>1
<1> HIDE DEF o
<1>5. n - 1 \in Nat
  BY <1>1, <1>2
<1> QED  BY <1>3, <1>4, <1>5 DEF Leads

-----------------------------------------------------------------------------
(* The bus.                                                                *)

\* The content of memory depends on what was written and on the test's bytes alone.
LEMMA ContentSame ==
  ASSUME NEW s, NEW t, s.ram = t.ram, s.b1 = t.b1, s.b2 = t.b2, s.seed = t.seed
  PROVE  \A adr : Content(s, adr) = Content(t, adr)
BY DEF Content

\* The remainder of a division.
LEMMA Remainder ==
  ASSUME NEW n \in Int, NEW d \in Nat \ {0}
  PROVE  n % d \in Nat /\ n % d < d /\ (n \in Nat /\ n < d => n % d = n)
<1>1. n % d \in 0 .. d - 1
  OBVIOUS
<1>2. n \in Nat /\ n < d => n % d = n
  OBVIOUS
<1> QED  BY <1>1, <1>2

\* What is cut to eight or sixteen bits is a byte or a word, and what was one is unchanged.
LEMMA Wrapped ==
  ASSUME NEW n \in Int
  PROVE  /\ IsByte(n % 256) /\ IsWord(n % 65536) /\ IsByte(Byte(n))
         /\ IsWord(n) => n % 65536 = n
         /\ IsByte(n) => IsWord(n) /\ n % 256 = n /\ Byte(n) = n /\ n % 65536 = n
<1>1. IsByte(n % 256) /\ (IsByte(n) => n % 256 = n)
  BY Remainder DEF IsByte
<1>2. IsWord(n % 65536) /\ (IsWord(n) => n % 65536 = n)
  BY Remainder DEF IsWord
<1>3. IsByte(n) => IsWord(n)
  BY DEF IsByte, IsWord
<1> QED  BY <1>1, <1>2, <1>3 DEF Byte

\* Memory holds bytes.
LEMMA ContentIsByte ==
  ASSUME NEW s, TypedMemory(s), NEW adr \in Int
  PROVE  IsByte(Content(s, adr))
<1>1. CASE adr \in DOMAIN s.ram
  BY <1>1 DEF Content, TypedMemory
<1>2. CASE adr \notin DOMAIN s.ram /\ adr \in {CodeStart + 1, CodeStart + 2}
  BY <1>2 DEF Content, TypedMemory, CodeStart
<1>3. CASE adr \notin DOMAIN s.ram /\ adr \notin {CodeStart + 1, CodeStart + 2}
  <2>1. Content(s, adr) = Byte(s.seed + 127 * adr + 128 * (adr \div 256))
    BY <1>3 DEF Content
  <2>2. s.seed + 127 * adr + 128 * (adr \div 256) \in Int
    <3>1. adr \div 256 \in Int /\ s.seed \in Int
      BY DEF TypedMemory
    <3> QED  BY <3>1
  <2> QED  BY <2>1, <2>2, Wrapped
<1> QED  BY <1>1, <1>2, <1>3

\* The instruction-accurate processor computes with the same operators.
LEMMA SharedMemory ==
  /\ \A s, adr : ICPU!Content(s, adr) = Content(s, adr)
  /\ \A o : ICPU!ReadsMem(o) = ReadsMem(o)
  /\ \A o : ICPU!WritesMem(o) = WritesMem(o)
  /\ \A o : ICPU!AddCycleAtPageBoundary(o) = AddCycleAtPageBoundary(o)
  /\ \A n : ICPU!Byte(n) = Byte(n)
  /\ \A b : ICPU!Signed(b) = Signed(b)
  /\ \A h, l : ICPU!Word(h, l) = Word(h, l)
  /\ \A b, c : ICPU!PageBoundaryCrossed(b, c) = PageBoundaryCrossed(b, c)
  /\ \A b, c : ICPU!SamePage(b, c) = SamePage(b, c)
<1>1. \A n : ICPU!Byte(n) = Byte(n)
  BY DEF ICPU!Byte, Byte
<1>2. \A s, adr : ICPU!Content(s, adr) = Content(s, adr)
  BY <1>1 DEF ICPU!Content, Content, ICPU!CodeStart, CodeStart
<1>3. \A o : ICPU!ReadsMem(o) = ReadsMem(o)
  BY DEF ICPU!ReadsMem, ReadsMem, ICPU!NoMemory, NoMemory, ICPU!Stores, Stores
<1>4. \A o : ICPU!WritesMem(o) = WritesMem(o)
  BY DEF ICPU!WritesMem, WritesMem, ICPU!NoMemory, NoMemory, ICPU!Stores, Stores,
     ICPU!Shifts, Shifts, ICPU!Counts, Counts, ICPU!Combined, Combined
<1>5. \A o : ICPU!AddCycleAtPageBoundary(o) = AddCycleAtPageBoundary(o)
  BY <1>3, <1>4 DEF ICPU!AddCycleAtPageBoundary, AddCycleAtPageBoundary, ICPU!Indexed, Indexed
<1>6. /\ \A b : ICPU!Signed(b) = Signed(b)
      /\ \A h, l : ICPU!Word(h, l) = Word(h, l)
      /\ \A b, c : ICPU!PageBoundaryCrossed(b, c) = PageBoundaryCrossed(b, c)
      /\ \A b, c : ICPU!SamePage(b, c) = SamePage(b, c)
  BY DEF ICPU!Signed, Signed, ICPU!Word, Word, ICPU!PageBoundaryCrossed, PageBoundaryCrossed,
     ICPU!SamePage, SamePage
<1> QED  BY <1>1, <1>2, <1>3, <1>4, <1>5, <1>6

-----------------------------------------------------------------------------
(* Addressing.                                                             *)

\* The opcode has been read: q is what the other processor holds then.
Kept(s, q) == Agree(s, q) /\ s.code = q.code /\ s.cycles = q.cycles

Addressing(s, q, op) ==
  /\ Micro(s) /\ Kept(s, q)
  /\ s.exec = "FETCH_OPERAND" /\ s.op = op /\ s.ex = 0 /\ s.inter = "none" /\ s.rw = "read"

Fetched(s, q) ==
  /\ Addressing(s, q, 0) /\ s.pc = q.pc /\ Seen(s.reads, q.reads)
  /\ Whole(q) /\ Typed(q)

\* A micro cycle of addressing begins with the byte that the one before it asked for.
Given(t, q, op, v) == Addressing(t, q, op) /\ t.data = v /\ t.rv = v

\* A cycle of FETCH_OPERAND reads a byte and calls the addressing handler.
LEMMA OperandCycle ==
  ASSUME NEW s, NEW q, NEW op, Addressing(s, q, op)
  PROVE  /\ Going(s) /\ Continued(s) = AddrHdlr(Access(s))
         /\ LET t == Access(s)
            IN  /\ Given(t, q, op, Content(q, s.adr))
                /\ t.reads = s.reads \cup {s.adr} /\ t.pc = s.pc /\ t.adr = s.adr
                /\ t.opAdr = s.opAdr /\ t.op16 = s.op16 /\ t.look = s.look /\ t.eff = s.eff
<1>1. Going(s) /\ Continued(s) = AddrHdlr(Access(s))
  BY DEF Addressing, Going, Continued, step, Taken
<1>2. Content(s, s.adr) = Content(q, s.adr)
  BY ContentSame DEF Addressing, Kept, Agree
<1>3. LET t == Access(s)
      IN  /\ Given(t, q, op, Content(q, s.adr))
          /\ t.reads = s.reads \cup {s.adr} /\ t.pc = s.pc /\ t.adr = s.adr
          /\ t.opAdr = s.opAdr /\ t.op16 = s.op16 /\ t.look = s.look /\ t.eff = s.eff
  BY <1>2 DEF Access, Given, Addressing, Micro, Registers, Kept, Agree
<1> QED  BY <1>1, <1>3

\* What the instruction is executed on, once its operand has been addressed.
Prepared(s) ==
  IF s.exec = "EXECUTE_DIRECTLY" THEN [Access(s) EXCEPT !.exec = "EXECUTE", !.op = @ - 1]
  ELSE Access(s)

Addressed(e, q, op, v) ==
  /\ Micro(e) /\ Kept(e, q)
  /\ e.exec = "EXECUTE" /\ e.op = op /\ e.ex = 0 /\ e.inter = "none" /\ e.rw = "read"
  /\ e.data = v /\ e.rv = v

\* A micro cycle t of addressing is reached from s; the byte v has been read at t.adr.
Reached(s, t, q, op, v, pc, reads) ==
  /\ Given(t, q, op, v) /\ t.pc = pc /\ t.reads = reads /\ t.adr \in reads
  /\ v = Content(q, t.adr)
  /\ \A e : Leads(AddrHdlr(t), e) => Leads(s, e)

\* n is t, with the cycle counted and scratch registers changed.
Counted(n, t) ==
  /\ Micro(n) /\ Agree(n, t) /\ n.code = t.code /\ n.cycles = t.cycles
  /\ n.exec = t.exec /\ n.op = t.op + 1 /\ n.ex = t.ex /\ n.inter = t.inter
  /\ n.rw = t.rw /\ n.adr = t.adr /\ n.reads = t.reads

\* A path that has reached a read of the operand's goes on with the byte that is read.
LEMMA ReachesRead ==
  ASSUME NEW s, NEW r, NEW q, NEW op, Addressing(r, q, op), \A e : Leads(r, e) => Leads(s, e)
  PROVE  LET t == Access(r)
         IN  /\ Reached(s, t, q, op, Content(q, r.adr), r.pc, r.reads \cup {r.adr})
             /\ t.adr = r.adr
             /\ t.opAdr = r.opAdr /\ t.op16 = r.op16 /\ t.look = r.look /\ t.eff = r.eff
<1> DEFINE t == Access(r)
<1>1. /\ Going(r) /\ Continued(r) = AddrHdlr(t)
      /\ Given(t, q, op, Content(q, r.adr))
      /\ t.reads = r.reads \cup {r.adr} /\ t.pc = r.pc /\ t.adr = r.adr
      /\ t.opAdr = r.opAdr /\ t.op16 = r.op16 /\ t.look = r.look /\ t.eff = r.eff
  BY OperandCycle
<1> HIDE DEF t
<1>2. ASSUME NEW e, Leads(AddrHdlr(t), e) PROVE Leads(s, e)
  BY <1>1, <1>2, LeadsOn
<1> QED  BY <1>1, <1>2 DEF Reached, t

\* The next byte of the instruction is read in the next cycle, ...
LEMMA ReadsOperand ==
  ASSUME NEW s, NEW t, NEW q, NEW op \in Nat, NEW v, NEW pc, NEW reads,
         Reached(s, t, q, op, v, pc, reads), IsWord(pc),
         NEW n, Counted(n, t), n.pc = t.pc, AddrHdlr(t) = initOperandByteRead(n)
  PROVE  LET u == Access(AddrHdlr(t))
         IN  /\ Reached(s, u, q, op + 1, Content(q, pc), Past(pc), reads \cup {pc})
             /\ u.adr = pc
             /\ u.opAdr = n.opAdr /\ u.op16 = n.op16 /\ u.look = n.look /\ u.eff = n.eff
<1>1. pc % 65536 = pc /\ n.pc = pc /\ n.reads = reads
  BY Wrapped DEF IsWord, Reached, Counted
<1> DEFINE r == initOperandByteRead(n)
<1>2. /\ Addressing(r, q, op + 1) /\ r.adr = pc /\ r.pc = Past(pc) /\ r.reads = reads
      /\ r.opAdr = n.opAdr /\ r.op16 = n.op16 /\ r.look = n.look /\ r.eff = n.eff
  BY <1>1 DEF Reached, Given, Counted, Addressing, Micro, Registers, Kept, Agree,
     initOperandByteRead, prepMemRead, Past
<1> HIDE DEF r
<1>3. \A e : Leads(r, e) => Leads(s, e)
  BY DEF Reached, r
<1>4. LET u == Access(r)
      IN  /\ Reached(s, u, q, op + 1, Content(q, r.adr), r.pc, r.reads \cup {r.adr})
          /\ u.adr = r.adr
          /\ u.opAdr = r.opAdr /\ u.op16 = r.op16 /\ u.look = r.look /\ u.eff = r.eff
  BY <1>2, <1>3, ReachesRead
<1>5. AddrHdlr(t) = r
  BY DEF r
<1> QED  BY <1>2, <1>4, <1>5

\* ... or a byte at another address.
LEMMA ReadsAt ==
  ASSUME NEW s, NEW t, NEW q, NEW op \in Nat, NEW v, NEW pc, NEW reads,
         Reached(s, t, q, op, v, pc, reads), NEW adr, IsWord(adr),
         NEW n, Counted(n, t), n.pc = t.pc, AddrHdlr(t) = prepMemRead(n, adr)
  PROVE  LET u == Access(AddrHdlr(t))
         IN  /\ Reached(s, u, q, op + 1, Content(q, adr), pc, reads \cup {adr})
             /\ u.adr = adr
             /\ u.opAdr = n.opAdr /\ u.op16 = n.op16 /\ u.look = n.look /\ u.eff = n.eff
<1>1. adr % 65536 = adr /\ n.pc = pc /\ n.reads = reads
  BY Wrapped DEF IsWord, Reached, Counted
<1> DEFINE r == prepMemRead(n, adr)
<1>2. /\ Addressing(r, q, op + 1) /\ r.adr = adr /\ r.pc = pc /\ r.reads = reads
      /\ r.opAdr = n.opAdr /\ r.op16 = n.op16 /\ r.look = n.look /\ r.eff = n.eff
  BY <1>1 DEF Reached, Given, Counted, Addressing, Micro, Registers, Kept, Agree, prepMemRead
<1> HIDE DEF r
<1>3. \A e : Leads(r, e) => Leads(s, e)
  BY DEF Reached, r
<1>4. LET u == Access(r)
      IN  /\ Reached(s, u, q, op + 1, Content(q, adr), pc, reads \cup {adr})
          /\ u.adr = adr
          /\ u.opAdr = n.opAdr /\ u.op16 = n.op16 /\ u.look = n.look /\ u.eff = n.eff
  BY <1>2, <1>3, ReachesRead
<1>5. AddrHdlr(t) = r
  BY DEF r
<1> QED  BY <1>4, <1>5

\* The instruction s is executed on after addressing: with operation cycles op, the operand at
\* opAdr in page, the value v read last, the program counter pc and the reads made.
Arrives(s, q, op, opAdr, v, pc, reads, page) ==
  \E t :
    /\ Leads(s, t) /\ t.exec \in {"EXECUTE", "EXECUTE_DIRECTLY"}
    /\ Addressed(Prepared(t), q, op, v)
    /\ Prepared(t).opAdr = opAdr /\ Prepared(t).pc = pc /\ Prepared(t).reads = reads
    /\ q.code[2] \in Indexed => Page(Prepared(t).op16) = page

\* The direct transition makes the last access again.
LEMMA HandsOver ==
  ASSUME NEW s, NEW t, NEW q, NEW op \in Nat, NEW v, NEW pc, NEW reads,
         Reached(s, t, q, op, v, pc, reads), NEW page, q.code[2] \in Indexed => Page(t.op16) = page,
         NEW n, Counted(n, t), n.pc = t.pc, n.op16 = t.op16,
         AddrHdlr(t) \in {Directly(n), HandOver(n)}
  PROVE  Arrives(s, q, op, n.opAdr, v, pc, reads, page)
<1> DEFINE r == AddrHdlr(t)
           e == Prepared(r)
<1>9. r \in {Directly(n), HandOver(n)}
  OBVIOUS
<1> HIDE DEF r
<1>0. /\ Micro(n) /\ Kept(n, q) /\ n.op = op + 1 /\ n.ex = 0 /\ n.inter = "none" /\ n.rw = "read"
      /\ n.adr = t.adr /\ n.reads = reads /\ n.op16 = t.op16 /\ n.pc = pc
  BY DEF Reached, Given, Counted, Addressing, Kept, Agree
<1>1. /\ Micro(r) /\ Kept(r, q) /\ r.exec = "EXECUTE_DIRECTLY" /\ r.op = op + 1 /\ r.ex = 0
      /\ r.inter = "none" /\ r.rw = "read" /\ r.adr = t.adr /\ r.reads = reads
      /\ r.opAdr = n.opAdr /\ r.op16 = t.op16 /\ r.pc = pc
  <2>1. CASE r = Directly(n)
    BY <1>0, <2>1 DEF Micro, Registers, Kept, Agree, Directly
  <2>2. CASE r = HandOver(n)
    BY <1>0, <2>2 DEF Micro, Registers, Kept, Agree, Directly, HandOver
  <2> QED  BY <1>9, <2>1, <2>2
<1>2. Leads(s, r)
  BY LeadsNowhere DEF Reached, r
<1>3. Content(r, r.adr) = v
  BY <1>1, ContentSame DEF Kept, Agree, Reached
<1>4. r.reads \cup {r.adr} = reads
  BY <1>1 DEF Reached
<1>5. op + 1 - 1 = op
  OBVIOUS
<1>6. Addressed(e, q, op, v) /\ e.opAdr = n.opAdr /\ e.op16 = t.op16 /\ e.pc = pc /\ e.reads = reads
  BY <1>1, <1>3, <1>4, <1>5 DEF Prepared, Access, Addressed, Micro, Registers, Kept, Agree
<1>7. r.exec \in {"EXECUTE", "EXECUTE_DIRECTLY"}
  BY <1>1
<1> QED  BY <1>2, <1>6, <1>7 DEF Arrives

\* The first cycle, in which the byte after the opcode is asked for.
LEMMA FirstByte ==
  ASSUME NEW s, NEW q, Fetched(s, q), AddrHdlr(s) = initOperandByteRead(NextOp(s))
  PROVE  LET t == Access(AddrHdlr(s))
         IN  /\ Reached(AddrHdlr(s), t, q, 1, Content(q, q.pc), Past(q.pc), s.reads \cup {q.pc})
             /\ t.adr = q.pc
<1> DEFINE r == AddrHdlr(s)
<1>1. q.pc % 65536 = q.pc
  BY Wrapped DEF Fetched, Typed, IsWord
<1>2. Addressing(r, q, 1) /\ r.adr = q.pc /\ r.pc = Past(q.pc) /\ r.reads = s.reads
  BY <1>1 DEF Fetched, Addressing, Micro, Registers, Kept, Agree, initOperandByteRead, prepMemRead,
     NextOp, Past
<1> HIDE DEF r
<1>3. \A e : Leads(r, e) => Leads(r, e)
  OBVIOUS
<1>4. LET t == Access(r)
      IN  /\ Reached(r, t, q, 1, Content(q, r.adr), r.pc, r.reads \cup {r.adr})
          /\ t.adr = r.adr
  BY <1>2, <1>3, ReachesRead
<1> QED  BY <1>2, <1>4 DEF r

\* The program of each addressing mode.
LEMMA Selects ==
  ASSUME NEW t, NEW q, Agree(t, q), t.code = q.code, q.code[1] # "JSR"
  PROVE  /\ q.code[2] = "Implied" => AddrHdlr(t) = impliedAdrHdlr(t)
         /\ q.code[2] = "Accumulator" => AddrHdlr(t) = impliedAdrHdlr(t)
         /\ q.code[2] = "Immediate" => AddrHdlr(t) = immediateAdrHdlr(t)
         /\ q.code[2] = "Relative" => AddrHdlr(t) = relativeAdrHdlr(t)
         /\ q.code[2] = "ZeroPage" => AddrHdlr(t) = zeroPageAdrHdlr(t)
         /\ q.code[2] = "ZeroPage_X" => AddrHdlr(t) = ZeroPageIndexed(t, q.x)
         /\ q.code[2] = "ZeroPage_Y" => AddrHdlr(t) = ZeroPageIndexed(t, q.y)
         /\ q.code[2] = "Absolute" => AddrHdlr(t) = absoluteAdrHdlr(t)
         /\ q.code[2] = "Absolute_X" => AddrHdlr(t) = AbsoluteIndexed(t, q.x)
         /\ q.code[2] = "Absolute_Y" => AddrHdlr(t) = AbsoluteIndexed(t, q.y)
         /\ q.code[2] = "Indirect" => AddrHdlr(t) = indirectAdrHdlr(t)
         /\ q.code[2] = "PreInd_X" => AddrHdlr(t) = preIndXAdrHdlr(t)
         /\ q.code[2] = "PostInd_Y" => AddrHdlr(t) = postIndYAdrHdlr(t)
  BY DEF AddrHdlr, accAdrHdlr, zeroPageXAdrHdlr, zeroPageYAdrHdlr, absoluteXAdrHdlr,
     absoluteYAdrHdlr, Agree

\* The modes in the cycle-accurate processor.
LEMMA ZeroPageMode ==
  ASSUME NEW s, NEW q, Fetched(s, q), q.code[1] # "JSR", q.code[2] = "ZeroPage"
  PROVE  LET o == Content(q, q.pc)
             reads == s.reads \cup {q.pc}
         IN  IF ReadsMem(q.code)
             THEN Arrives(AddrHdlr(s), q, 2, o, Content(q, o), Past(q.pc), reads \cup {o}, 0)
             ELSE Arrives(AddrHdlr(s), q, 1, o, o, Past(q.pc), reads, 0)
<1> DEFINE o == Content(q, q.pc)
           pc == Past(q.pc)
           reads == s.reads \cup {q.pc}
           s1 == AddrHdlr(s)
           t1 == Access(s1)
           n1 == [NextOp(t1) EXCEPT !.opAdr = o]
           t2 == Access(AddrHdlr(t1))
           n2 == NextOp(t2)
<1>1. IsWord(o)
  BY ContentIsByte, Wrapped DEF Fetched, Typed, IsWord, IsByte
<1>2. AddrHdlr(s) = zeroPageAdrHdlr(s) /\ s.op = 0
  BY Selects DEF Fetched, Addressing, Kept
<1>3. Reached(s1, t1, q, 1, o, pc, reads)
  <2>1. AddrHdlr(s) = initOperandByteRead(NextOp(s))
    BY <1>2 DEF zeroPageAdrHdlr
  <2> QED  BY <2>1, FirstByte
<1>4. "ZeroPage" \notin Indexed
  BY DEF Indexed
<1> HIDE DEF o, pc, reads, s1, t1, t2
<1>5. AddrHdlr(t1) = zeroPageAdrHdlr(t1)
  BY <1>3, Selects DEF Reached, Given, Addressing, Kept
<1>6. Counted(n1, t1) /\ n1.pc = t1.pc /\ n1.opAdr = o /\ n1.op16 = t1.op16
  BY <1>3 DEF Reached, Given, Addressing, Counted, Micro, Registers, Agree, NextOp
<1>7. CASE ReadsMem(q.code)
  <2>1. AddrHdlr(t1) = prepMemRead(n1, o)
    BY <1>3, <1>5, <1>6, <1>7 DEF Reached, Given, Addressing, Kept, Counted, zeroPageAdrHdlr,
       ReadOrWrite
  <2> HIDE DEF n1
  <2>2. Reached(s1, t2, q, 2, Content(q, o), pc, reads \cup {o}) /\ t2.opAdr = o
    BY <1>1, <1>3, <1>6, <2>1, ReadsAt DEF t2
  <2>3. AddrHdlr(t2) = zeroPageAdrHdlr(t2) /\ t2.op = 2
    BY <2>2, Selects DEF Reached, Given, Addressing, Kept
  <2>4. AddrHdlr(t2) = HandOver(n2)
    BY <2>3 DEF zeroPageAdrHdlr
  <2>5. Counted(n2, t2) /\ n2.pc = t2.pc /\ n2.opAdr = o /\ n2.op16 = t2.op16
    BY <2>2 DEF Reached, Given, Addressing, Counted, Micro, Registers, Agree, NextOp
  <2> HIDE DEF n2
  <2>6. Arrives(s1, q, 2, o, Content(q, o), pc, reads \cup {o}, 0)
    BY <1>4, <2>2, <2>4, <2>5, HandsOver
  <2> QED  BY <1>7, <2>6 DEF o, pc, reads, s1
<1>8. CASE ~ ReadsMem(q.code)
  <2>1. AddrHdlr(t1) = Directly(n1)
    BY <1>3, <1>5, <1>6, <1>8 DEF Reached, Given, Addressing, Kept, Counted, zeroPageAdrHdlr,
       ReadOrWrite
  <2> HIDE DEF n1
  <2>2. Arrives(s1, q, 1, o, o, pc, reads, 0)
    BY <1>3, <1>4, <1>6, <2>1, HandsOver
  <2> QED  BY <1>8, <2>2 DEF o, pc, reads, s1
<1> QED  BY <1>7, <1>8

\* P6502CC, zero page indexed: the base is read before the address.
LEMMA ZeroPageIndexedMode ==
  ASSUME NEW s, NEW q, Fetched(s, q), q.code[1] # "JSR",
         NEW index, IsByte(index),
         \/ q.code[2] = "ZeroPage_X" /\ index = q.x
         \/ q.code[2] = "ZeroPage_Y" /\ index = q.y
  PROVE  LET o == Content(q, q.pc)
             adr == Byte(o + index)
             reads == (s.reads \cup {q.pc}) \cup {o}
         IN  IF ReadsMem(q.code)
             THEN Arrives(AddrHdlr(s), q, 3, adr, Content(q, adr), Past(q.pc), reads \cup {adr}, 0)
             ELSE Arrives(AddrHdlr(s), q, 2, adr, Content(q, o), Past(q.pc), reads, 0)
<1> DEFINE o == Content(q, q.pc)
           adr == Byte(o + index)
           pc == Past(q.pc)
           reads1 == s.reads \cup {q.pc}
           reads2 == reads1 \cup {o}
           s1 == AddrHdlr(s)
           t1 == Access(s1)
           n1 == [NextOp(t1) EXCEPT !.opAdr = o]
           t2 == Access(AddrHdlr(t1))
           n2 == [NextOp(t2) EXCEPT !.opAdr = adr]
           t3 == Access(AddrHdlr(t2))
           n3 == NextOp(t3)
<1>1. IsWord(o) /\ IsWord(adr)
  BY ContentIsByte, Wrapped DEF Fetched, Typed, IsWord, IsByte
<1>2. AddrHdlr(s) = ZeroPageIndexed(s, index) /\ s.op = 0
  BY Selects DEF Fetched, Addressing, Kept
<1>3. Reached(s1, t1, q, 1, o, pc, reads1)
  <2>1. AddrHdlr(s) = initOperandByteRead(NextOp(s))
    BY <1>2 DEF ZeroPageIndexed
  <2> QED  BY <2>1, FirstByte
<1>4. q.code[2] \notin Indexed
  BY DEF Indexed
<1> HIDE DEF o, adr, pc, reads1, reads2, s1, t1, t2, t3
<1>5. AddrHdlr(t1) = ZeroPageIndexed(t1, index) /\ t1.op = 1 /\ t1.data = o
  BY <1>3, Selects DEF Reached, Given, Addressing, Kept
<1>6. Counted(n1, t1) /\ n1.pc = t1.pc /\ n1.opAdr = o
  BY <1>3 DEF Reached, Given, Addressing, Counted, Micro, Registers, Agree, NextOp
<1>7. AddrHdlr(t1) = prepMemRead(n1, o)
  BY <1>5 DEF ZeroPageIndexed
<1> HIDE DEF n1
<1>8. Reached(s1, t2, q, 2, Content(q, o), pc, reads2) /\ t2.opAdr = o
  BY <1>1, <1>3, <1>6, <1>7, ReadsAt DEF t2, reads2
<1>9. AddrHdlr(t2) = ZeroPageIndexed(t2, index) /\ t2.op = 2
  BY <1>8, Selects DEF Reached, Given, Addressing, Kept
<1>10. Counted(n2, t2) /\ n2.pc = t2.pc /\ n2.opAdr = adr /\ n2.op16 = t2.op16 /\ n2.code = q.code
  BY <1>8 DEF Reached, Given, Addressing, Kept, Counted, Micro, Registers, Agree, NextOp
<1>11. AddrHdlr(t2) = ReadOrWrite(n2)
  <2>1. [NextOp(t2) EXCEPT !.opAdr = Byte(@ + index)] = n2
    BY <1>8 DEF Reached, Given, Addressing, Micro, Registers, NextOp, adr
  <2> QED  BY <1>9, <2>1 DEF ZeroPageIndexed
<1> HIDE DEF n2
<1>12. CASE ReadsMem(q.code)
  <2>1. AddrHdlr(t2) = prepMemRead(n2, adr)
    BY <1>10, <1>11, <1>12 DEF ReadOrWrite
  <2>2. Reached(s1, t3, q, 3, Content(q, adr), pc, reads2 \cup {adr}) /\ t3.opAdr = adr
    BY <1>1, <1>8, <1>10, <2>1, ReadsAt DEF t3
  <2>3. AddrHdlr(t3) = ZeroPageIndexed(t3, index) /\ t3.op = 3
    BY <2>2, Selects DEF Reached, Given, Addressing, Kept
  <2>4. AddrHdlr(t3) = HandOver(n3)
    BY <2>3 DEF ZeroPageIndexed
  <2>5. Counted(n3, t3) /\ n3.pc = t3.pc /\ n3.opAdr = adr /\ n3.op16 = t3.op16
    BY <2>2 DEF Reached, Given, Addressing, Counted, Micro, Registers, Agree, NextOp
  <2> HIDE DEF n3
  <2>6. Arrives(s1, q, 3, adr, Content(q, adr), pc, reads2 \cup {adr}, 0)
    BY <1>4, <2>2, <2>4, <2>5, HandsOver
  <2> QED  BY <1>12, <2>6 DEF o, adr, pc, reads1, reads2, s1
<1>13. CASE ~ ReadsMem(q.code)
  <2>1. AddrHdlr(t2) = Directly(n2)
    BY <1>10, <1>11, <1>13 DEF ReadOrWrite
  <2>2. Arrives(s1, q, 2, adr, Content(q, o), pc, reads2, 0)
    BY <1>4, <1>8, <1>10, <2>1, HandsOver
  <2> QED  BY <1>13, <2>2 DEF o, adr, pc, reads1, reads2, s1
<1> QED  BY <1>12, <1>13

\* P6502CC, implied and accumulator: the byte after the opcode is read and not used.
LEMMA ImpliedMode ==
  ASSUME NEW s, NEW q, Fetched(s, q), q.code[1] # "JSR", q.code[2] \in {"Implied", "Accumulator"}
  PROVE  Arrives(AddrHdlr(s), q, 1, s.opAdr, Content(q, q.pc), q.pc, s.reads \cup {q.pc}, 0)
<1> DEFINE r == AddrHdlr(s)
           e == Prepared(r)
<1>1. r = impliedAdrHdlr(s) /\ s.op = 0
  BY Selects DEF Fetched, Addressing, Kept
<1>2. q.pc % 65536 = q.pc
  BY Wrapped DEF Fetched, Typed, IsWord
<1>3. /\ Micro(r) /\ Kept(r, q) /\ r.exec = "EXECUTE" /\ r.op = 1 /\ r.ex = 0 /\ r.inter = "none"
      /\ r.rw = "read" /\ r.adr = q.pc /\ r.pc = q.pc /\ r.reads = s.reads /\ r.opAdr = s.opAdr
  BY <1>1, <1>2 DEF Fetched, Addressing, Micro, Registers, Kept, Agree, impliedAdrHdlr,
     initDummyOperandRead, prepMemRead, NextOp
<1> HIDE DEF r
<1>4. Content(r, q.pc) = Content(q, q.pc)
  BY <1>3, ContentSame DEF Kept, Agree
<1>5. /\ Addressed(e, q, 1, Content(q, q.pc))
      /\ e.opAdr = s.opAdr /\ e.pc = q.pc /\ e.reads = s.reads \cup {q.pc}
  BY <1>3, <1>4 DEF Prepared, Access, Addressed, Micro, Registers, Kept, Agree
<1>6. q.code[2] \notin Indexed
  BY DEF Indexed
<1>7. Leads(r, r)
  BY LeadsNowhere
<1> HIDE DEF e
<1> QED  BY <1>3, <1>5, <1>6, <1>7 DEF Arrives, r, e

\* P6502CC, immediate.
LEMMA ImmediateMode ==
  ASSUME NEW s, NEW q, Fetched(s, q), q.code[1] # "JSR", q.code[2] = "Immediate"
  PROVE  Arrives(AddrHdlr(s), q, 1, s.opAdr, Content(q, q.pc), Past(q.pc), s.reads \cup {q.pc}, 0)
<1> DEFINE r == AddrHdlr(s)
           e == Prepared(r)
<1>1. r = immediateAdrHdlr(s) /\ s.op = 0
  BY Selects DEF Fetched, Addressing, Kept
<1>2. q.pc % 65536 = q.pc
  BY Wrapped DEF Fetched, Typed, IsWord
<1>3. /\ Micro(r) /\ Kept(r, q) /\ r.exec = "EXECUTE" /\ r.op = 1 /\ r.ex = 0 /\ r.inter = "none"
      /\ r.rw = "read" /\ r.adr = q.pc /\ r.pc = Past(q.pc) /\ r.reads = s.reads
      /\ r.opAdr = s.opAdr
  BY <1>1, <1>2 DEF Fetched, Addressing, Micro, Registers, Kept, Agree, immediateAdrHdlr,
     initOperandByteRead, prepMemRead, NextOp, Past
<1> HIDE DEF r
<1>4. Content(r, q.pc) = Content(q, q.pc)
  BY <1>3, ContentSame DEF Kept, Agree
<1>5. /\ Addressed(e, q, 1, Content(q, q.pc))
      /\ e.opAdr = s.opAdr /\ e.pc = Past(q.pc) /\ e.reads = s.reads \cup {q.pc}
  BY <1>3, <1>4 DEF Prepared, Access, Addressed, Micro, Registers, Kept, Agree
<1>6. q.code[2] \notin Indexed
  BY DEF Indexed
<1>7. Leads(r, r)
  BY LeadsNowhere
<1> HIDE DEF e
<1> QED  BY <1>3, <1>5, <1>6, <1>7 DEF Arrives, r, e

\* P6502CC, relative: the target is counted from the next instruction.
LEMMA RelativeMode ==
  ASSUME NEW s, NEW q, Fetched(s, q), q.code[1] # "JSR", q.code[2] = "Relative"
  PROVE  LET o == Content(q, q.pc)
         IN  Arrives(AddrHdlr(s), q, 1, Address(Signed(o) + Past(q.pc)), o, Past(q.pc),
                     s.reads \cup {q.pc}, 0)
<1> DEFINE o == Content(q, q.pc)
           pc == Past(q.pc)
           reads == s.reads \cup {q.pc}
           s1 == AddrHdlr(s)
           t1 == Access(s1)
           n1 == [NextOp(t1) EXCEPT !.rv = t1.data, !.opAdr = Address(Signed(o) + pc)]
<1>1. AddrHdlr(s) = relativeAdrHdlr(s) /\ s.op = 0
  BY Selects DEF Fetched, Addressing, Kept
<1>2. Reached(s1, t1, q, 1, o, pc, reads)
  <2>1. AddrHdlr(s) = initOperandByteRead(NextOp(s))
    BY <1>1 DEF relativeAdrHdlr
  <2> QED  BY <2>1, FirstByte
<1>3. q.code[2] \notin Indexed
  BY DEF Indexed
<1> HIDE DEF o, pc, reads, s1, t1
<1>4. AddrHdlr(t1) = relativeAdrHdlr(t1) /\ t1.op = 1 /\ t1.data = o /\ t1.pc = pc
  BY <1>2, Selects DEF Reached, Given, Addressing, Kept
<1>5. Counted(n1, t1) /\ n1.pc = t1.pc /\ n1.opAdr = Address(Signed(o) + pc) /\ n1.op16 = t1.op16
  BY <1>2 DEF Reached, Given, Addressing, Counted, Micro, Registers, Agree, NextOp
<1>6. AddrHdlr(t1) = Directly(n1)
  <2>1. relativeAdrHdlr(t1) = [HandOver(NextOp(t1)) EXCEPT !.opAdr = Address(Signed(o) + pc)]
    BY <1>4 DEF relativeAdrHdlr, Address
  <2> QED  BY <1>2, <1>4, <2>1 DEF HandOver, Directly, NextOp, Reached, Given, Addressing, Micro,
     Registers
<1> HIDE DEF n1
<1>7. Arrives(s1, q, 1, Address(Signed(o) + pc), o, pc, reads, 0)
  BY <1>2, <1>3, <1>5, <1>6, HandsOver
<1> QED  BY <1>7 DEF o, pc, reads, s1

\* Two bytes make a word.
LEMMA WordOfBytes ==
  ASSUME NEW h, NEW l, IsByte(h), IsByte(l)
  PROVE  /\ IsWord(Word(h, l)) /\ IsWord(h) /\ IsWord(l)
BY DEF IsByte, IsWord, Word

\* The address after a word is a word.
LEMMA PastIsWord ==
  ASSUME NEW n, IsWord(n) PROVE IsWord(Past(n))
BY Wrapped DEF Past, IsWord

\* P6502CC, absolute.
LEMMA AbsoluteMode ==
  ASSUME NEW s, NEW q, Fetched(s, q), q.code[1] # "JSR", q.code[2] = "Absolute"
  PROVE  LET o == Content(q, q.pc)
             h == Content(q, Past(q.pc))
             pc == Past(Past(q.pc))
             adr == Word(h, o)
             reads == (s.reads \cup {q.pc}) \cup {Past(q.pc)}
         IN  IF ReadsMem(q.code)
             THEN Arrives(AddrHdlr(s), q, 3, adr, Content(q, adr), pc, reads \cup {adr}, 0)
             ELSE Arrives(AddrHdlr(s), q, 2, adr, h, pc, reads, 0)
<1> DEFINE pc1 == Past(q.pc)
           pc == Past(pc1)
           o == Content(q, q.pc)
           h == Content(q, pc1)
           adr == Word(h, o)
           reads1 == s.reads \cup {q.pc}
           reads2 == reads1 \cup {pc1}
           s1 == AddrHdlr(s)
           t1 == Access(s1)
           n1 == [NextOp(t1) EXCEPT !.opAdr = o]
           t2 == Access(AddrHdlr(t1))
           n2 == [NextOp(t2) EXCEPT !.opAdr = adr]
           t3 == Access(AddrHdlr(t2))
           n3 == NextOp(t3)
<1>1. IsWord(pc1) /\ IsWord(adr)
  <2>1. IsWord(q.pc) /\ IsWord(pc1)
    BY PastIsWord DEF Fetched, Typed
  <2>2. IsByte(o) /\ IsByte(h)
    BY <2>1, ContentIsByte DEF IsWord, Fetched, Typed
  <2> QED  BY <2>1, <2>2, WordOfBytes
<1>2. AddrHdlr(s) = absoluteAdrHdlr(s) /\ s.op = 0
  BY Selects DEF Fetched, Addressing, Kept
<1>3. Reached(s1, t1, q, 1, o, pc1, reads1)
  <2>1. AddrHdlr(s) = initOperandByteRead(NextOp(s))
    BY <1>2 DEF absoluteAdrHdlr
  <2> QED  BY <2>1, FirstByte
<1>4. q.code[2] \notin Indexed
  BY DEF Indexed
<1> HIDE DEF o, h, adr, pc1, pc, reads1, reads2, s1, t1, t2, t3
<1>5. AddrHdlr(t1) = absoluteAdrHdlr(t1) /\ t1.op = 1 /\ t1.data = o
  BY <1>3, Selects DEF Reached, Given, Addressing, Kept
<1>6. Counted(n1, t1) /\ n1.pc = t1.pc /\ n1.opAdr = o
  BY <1>3 DEF Reached, Given, Addressing, Counted, Micro, Registers, Agree, NextOp
<1>7. AddrHdlr(t1) = initOperandByteRead(n1)
  BY <1>5 DEF absoluteAdrHdlr
<1> HIDE DEF n1
<1>8. Reached(s1, t2, q, 2, h, pc, reads2) /\ t2.opAdr = o
  BY <1>1, <1>3, <1>6, <1>7, ReadsOperand DEF t2, reads2, h, pc
<1>9. AddrHdlr(t2) = absoluteAdrHdlr(t2) /\ t2.op = 2 /\ t2.data = h
  BY <1>8, Selects DEF Reached, Given, Addressing, Kept
<1>10. Counted(n2, t2) /\ n2.pc = t2.pc /\ n2.opAdr = adr /\ n2.op16 = t2.op16 /\ n2.code = q.code
  BY <1>8 DEF Reached, Given, Addressing, Kept, Counted, Micro, Registers, Agree, NextOp
<1>11. AddrHdlr(t2) = ReadOrWrite(n2)
  <2>1. [NextOp(t2) EXCEPT !.opAdr = Word(t2.data, @)] = n2
    BY <1>8, <1>9 DEF Reached, Given, Addressing, Micro, Registers, NextOp, adr
  <2> QED  BY <1>9, <2>1 DEF absoluteAdrHdlr
<1> HIDE DEF n2
<1>12. CASE ReadsMem(q.code)
  <2>1. AddrHdlr(t2) = prepMemRead(n2, adr)
    BY <1>10, <1>11, <1>12 DEF ReadOrWrite
  <2>2. Reached(s1, t3, q, 3, Content(q, adr), pc, reads2 \cup {adr}) /\ t3.opAdr = adr
    BY <1>1, <1>8, <1>10, <2>1, ReadsAt DEF t3
  <2>3. AddrHdlr(t3) = absoluteAdrHdlr(t3) /\ t3.op = 3
    BY <2>2, Selects DEF Reached, Given, Addressing, Kept
  <2>4. AddrHdlr(t3) = HandOver(n3)
    BY <2>3 DEF absoluteAdrHdlr
  <2>5. Counted(n3, t3) /\ n3.pc = t3.pc /\ n3.opAdr = adr /\ n3.op16 = t3.op16
    BY <2>2 DEF Reached, Given, Addressing, Counted, Micro, Registers, Agree, NextOp
  <2> HIDE DEF n3
  <2>6. Arrives(s1, q, 3, adr, Content(q, adr), pc, reads2 \cup {adr}, 0)
    BY <1>4, <2>2, <2>4, <2>5, HandsOver
  <2> QED  BY <1>12, <2>6 DEF o, h, adr, pc1, pc, reads1, reads2, s1
<1>13. CASE ~ ReadsMem(q.code)
  <2>1. AddrHdlr(t2) = Directly(n2)
    BY <1>10, <1>11, <1>13 DEF ReadOrWrite
  <2>2. Arrives(s1, q, 2, adr, h, pc, reads2, 0)
    BY <1>4, <1>8, <1>10, <2>1, HandsOver
  <2> QED  BY <1>13, <2>2 DEF o, h, adr, pc1, pc, reads1, reads2, s1
<1> QED  BY <1>12, <1>13

\* The quotient and the remainder of a division.
LEMMA Quotient ==
  ASSUME NEW n \in Int, NEW d \in Nat \ {0}
  PROVE  n \div d \in Int /\ n = d * (n \div d) + (n % d) /\ n % d \in Nat /\ n % d < d
<1>1. n % d \in 0 .. d - 1
  OBVIOUS
<1> QED  BY <1>1

\* An address is its page and the place in the page.
LEMMA PageAndPlace ==
  ASSUME NEW n, IsWord(n)
  PROVE  IsByte(n \div 256) /\ IsByte(n % 256) /\ n = Word(n \div 256, n % 256)
<1>1. n \in Nat /\ n < 65536
  BY DEF IsWord
<1>2. n \div 256 \in Int /\ n = 256 * (n \div 256) + (n % 256) /\ n % 256 \in Nat /\ n % 256 < 256
  BY <1>1, Quotient
<1> QED  BY <1>1, <1>2 DEF IsByte, Word

\* An address kept in its page is a word.
LEMMA SamePageIsWord ==
  ASSUME NEW base, IsWord(base), NEW adr \in Int
  PROVE  IsWord(SamePage(base, adr))
<1>1. IsByte(base \div 256) /\ IsByte(adr % 256)
  BY PageAndPlace, Wrapped
<1>2. SamePage(base, adr) = Word(base \div 256, adr % 256)
  BY DEF SamePage, Word
<1> QED  BY <1>1, <1>2, WordOfBytes

\* What is cut to sixteen bits is a word, and a word is unchanged.
LEMMA AddressIsWord ==
  ASSUME NEW n \in Int PROVE IsWord(Address(n)) /\ (IsWord(n) => Address(n) = n)
BY Wrapped DEF Address

\* The last cycle of indexed addressing is left out, ...
Only(o, adr, base) == ReadsMem(o) /\ ~ WritesMem(o) /\ ~ PageBoundaryCrossed(adr, base)
OnlyWrites(o) == ~ ReadsMem(o) /\ WritesMem(o)

\* P6502CC, absolute indexed: the read before the carry into the high byte, and the read after
\* it.
LEMMA AbsoluteIndexedMode ==
  ASSUME NEW s, NEW q, Fetched(s, q), q.code[1] # "JSR",
         NEW index, IsByte(index),
         \/ q.code[2] = "Absolute_X" /\ index = q.x
         \/ q.code[2] = "Absolute_Y" /\ index = q.y
  PROVE  LET base == Word(Content(q, Past(q.pc)), Content(q, q.pc))
             pc == Past(Past(q.pc))
             adr == Address(base + index)
             same == SamePage(base, adr)
             reads == ((s.reads \cup {q.pc}) \cup {Past(q.pc)}) \cup {same}
         IN  IF Only(q.code, adr, base) \/ OnlyWrites(q.code)
             THEN Arrives(AddrHdlr(s), q, 3, adr, Content(q, same), pc, reads, Page(base))
             ELSE Arrives(AddrHdlr(s), q, 4, adr, Content(q, adr), pc, reads \cup {adr}, Page(base))
<1> DEFINE pc1 == Past(q.pc)
           pc == Past(pc1)
           o == Content(q, q.pc)
           h == Content(q, pc1)
           base == Word(h, o)
           adr == Address(base + index)
           same == SamePage(base, adr)
           reads1 == s.reads \cup {q.pc}
           reads2 == reads1 \cup {pc1}
           reads3 == reads2 \cup {same}
           s1 == AddrHdlr(s)
           t1 == Access(s1)
           n1 == [NextOp(t1) EXCEPT !.opAdr = o]
           t2 == Access(AddrHdlr(t1))
           n2 == [NextOp(t2) EXCEPT !.op16 = base, !.opAdr = adr]
           t3 == Access(AddrHdlr(t2))
           n3 == NextOp(t3)
           t4 == Access(AddrHdlr(t3))
           n4 == NextOp(t4)
<1>1. IsWord(pc1) /\ IsWord(adr) /\ IsWord(same)
  <2>1. IsWord(q.pc) /\ IsWord(pc1)
    BY PastIsWord DEF Fetched, Typed
  <2>2. IsByte(o) /\ IsByte(h)
    BY <2>1, ContentIsByte DEF IsWord, Fetched, Typed
  <2>3. IsWord(base)
    BY <2>2, WordOfBytes
  <2> HIDE DEF base
  <2>4. base + index \in Int
    BY <2>3 DEF IsWord, IsByte
  <2>5. IsWord(adr)
    BY <2>4, AddressIsWord
  <2>6. adr \in Int
    BY <2>5 DEF IsWord
  <2> QED  BY <2>1, <2>3, <2>5, <2>6, SamePageIsWord
<1>2. AddrHdlr(s) = AbsoluteIndexed(s, index) /\ s.op = 0
  BY Selects DEF Fetched, Addressing, Kept
<1>3. Reached(s1, t1, q, 1, o, pc1, reads1)
  <2>1. AddrHdlr(s) = initOperandByteRead(NextOp(s))
    BY <1>2 DEF AbsoluteIndexed
  <2> QED  BY <2>1, FirstByte
<1> HIDE DEF o, h, base, adr, same, pc1, pc, reads1, reads2, reads3, s1, t1, t2, t3, t4
<1>5. AddrHdlr(t1) = AbsoluteIndexed(t1, index) /\ t1.op = 1 /\ t1.data = o
  BY <1>3, Selects DEF Reached, Given, Addressing, Kept
<1>6. Counted(n1, t1) /\ n1.pc = t1.pc /\ n1.opAdr = o
  BY <1>3 DEF Reached, Given, Addressing, Counted, Micro, Registers, Agree, NextOp
<1>7. AddrHdlr(t1) = initOperandByteRead(n1)
  BY <1>5 DEF AbsoluteIndexed
<1> HIDE DEF n1
<1>8. Reached(s1, t2, q, 2, h, pc, reads2) /\ t2.opAdr = o
  BY <1>1, <1>3, <1>6, <1>7, ReadsOperand DEF t2, reads2, h, pc
<1>9. AddrHdlr(t2) = AbsoluteIndexed(t2, index) /\ t2.op = 2 /\ t2.data = h
  BY <1>8, Selects DEF Reached, Given, Addressing, Kept
<1>10. Counted(n2, t2) /\ n2.pc = t2.pc /\ n2.opAdr = adr /\ n2.op16 = base
  BY <1>8 DEF Reached, Given, Addressing, Counted, Micro, Registers, Agree, NextOp
<1>11. AddrHdlr(t2) = prepMemRead(n2, same)
  BY <1>8, <1>9 DEF AbsoluteIndexed, base, adr, same, Address
<1> HIDE DEF n2
<1>12. Reached(s1, t3, q, 3, Content(q, same), pc, reads3) /\ t3.opAdr = adr /\ t3.op16 = base
  <2>0. Reached(s1, t2, q, 2, h, pc, reads2) /\ IsWord(same) /\ Counted(n2, t2) /\ n2.pc = t2.pc
    BY <1>1, <1>8, <1>10
  <2>1. /\ Reached(s1, t3, q, 2 + 1, Content(q, same), pc, reads2 \cup {same})
        /\ t3.opAdr = n2.opAdr /\ t3.op16 = n2.op16
    BY <1>11, <2>0, ReadsAt DEF t3
  <2> QED  BY <1>10, <2>1 DEF reads3
<1>13. AddrHdlr(t3) = AbsoluteIndexed(t3, index) /\ t3.op = 3 /\ t3.code = q.code
  BY <1>12, Selects DEF Reached, Given, Addressing, Kept
<1>14. Counted(n3, t3) /\ n3.pc = t3.pc /\ n3.opAdr = adr /\ n3.op16 = t3.op16
  BY <1>12 DEF Reached, Given, Addressing, Counted, Micro, Registers, Agree, NextOp
<1>15. AddrHdlr(t3) = IF Only(q.code, adr, base) \/ OnlyWrites(q.code)
                      THEN HandOver(n3) ELSE prepMemRead(n3, adr)
  BY <1>12, <1>13 DEF AbsoluteIndexed, Only, OnlyWrites
<1> HIDE DEF n3
<1>16. CASE Only(q.code, adr, base) \/ OnlyWrites(q.code)
  <2>1. Arrives(s1, q, 3, adr, Content(q, same), pc, reads3, Page(base))
    BY <1>12, <1>14, <1>15, <1>16, HandsOver
  <2> QED  BY <1>16, <2>1 DEF o, h, base, adr, same, pc1, pc, reads1, reads2, reads3, s1
<1>17. CASE ~ (Only(q.code, adr, base) \/ OnlyWrites(q.code))
  <2>1. AddrHdlr(t3) = prepMemRead(n3, adr)
    BY <1>15, <1>17
  <2>2. /\ Reached(s1, t4, q, 4, Content(q, adr), pc, reads3 \cup {adr})
        /\ t4.opAdr = adr /\ t4.op16 = base
    BY <1>1, <1>12, <1>14, <2>1, ReadsAt DEF t4
  <2>3. AddrHdlr(t4) = AbsoluteIndexed(t4, index) /\ t4.op = 4
    BY <2>2, Selects DEF Reached, Given, Addressing, Kept
  <2>4. AddrHdlr(t4) = HandOver(n4)
    BY <2>3 DEF AbsoluteIndexed
  <2>5. Counted(n4, t4) /\ n4.pc = t4.pc /\ n4.opAdr = adr /\ n4.op16 = t4.op16
    BY <2>2 DEF Reached, Given, Addressing, Counted, Micro, Registers, Agree, NextOp
  <2> HIDE DEF n4
  <2>6. Arrives(s1, q, 4, adr, Content(q, adr), pc, reads3 \cup {adr}, Page(base))
    BY <2>2, <2>4, <2>5, HandsOver
  <2> QED  BY <1>17, <2>6 DEF o, h, base, adr, same, pc1, pc, reads1, reads2, reads3, s1
<1> QED  BY <1>16, <1>17

\* P6502CC, indirect: the high byte of the target is read in the page of the low byte.
LEMMA IndirectMode ==
  ASSUME NEW s, NEW q, Fetched(s, q), q.code[1] # "JSR", q.code[2] = "Indirect"
  PROVE  LET at == Word(Content(q, Past(q.pc)), Content(q, q.pc))
             next == SamePage(at, at + 1)
             adr == Word(Content(q, next), Content(q, at))
             reads == (((s.reads \cup {q.pc}) \cup {Past(q.pc)}) \cup {at}) \cup {next}
         IN  Arrives(AddrHdlr(s), q, 4, adr, Content(q, next), Past(Past(q.pc)), reads, 0)
<1> DEFINE pc1 == Past(q.pc)
           pc == Past(pc1)
           o == Content(q, q.pc)
           h == Content(q, pc1)
           at == Word(h, o)
           next == SamePage(at, at + 1)
           low == Content(q, at)
           high == Content(q, next)
           adr == Word(high, low)
           reads1 == s.reads \cup {q.pc}
           reads2 == reads1 \cup {pc1}
           reads3 == reads2 \cup {at}
           reads4 == reads3 \cup {next}
           s1 == AddrHdlr(s)
           t1 == Access(s1)
           n1 == [NextOp(t1) EXCEPT !.opAdr = o]
           t2 == Access(AddrHdlr(t1))
           n2 == [NextOp(t2) EXCEPT !.opAdr = at]
           t3 == Access(AddrHdlr(t2))
           n3 == [NextOp(t3) EXCEPT !.opAdr = low]
           t4 == Access(AddrHdlr(t3))
           n4 == [NextOp(t4) EXCEPT !.opAdr = adr]
<1>1. IsWord(pc1) /\ IsWord(at) /\ IsWord(next)
  <2>1. IsWord(q.pc) /\ IsWord(pc1)
    BY PastIsWord DEF Fetched, Typed
  <2>2. IsByte(o) /\ IsByte(h)
    BY <2>1, ContentIsByte DEF IsWord, Fetched, Typed
  <2>3. IsWord(at)
    BY <2>2, WordOfBytes
  <2> HIDE DEF at
  <2>4. at + 1 \in Int
    BY <2>3 DEF IsWord
  <2> QED  BY <2>1, <2>3, <2>4, SamePageIsWord
<1>2. AddrHdlr(s) = indirectAdrHdlr(s) /\ s.op = 0
  BY Selects DEF Fetched, Addressing, Kept
<1>3. Reached(s1, t1, q, 1, o, pc1, reads1)
  <2>1. AddrHdlr(s) = initOperandByteRead(NextOp(s))
    BY <1>2 DEF indirectAdrHdlr
  <2> QED  BY <2>1, FirstByte
<1>4. q.code[2] \notin Indexed
  BY DEF Indexed
<1> HIDE DEF o, h, at, next, low, high, adr, pc1, pc, reads1, reads2, reads3, reads4, s1, t1, t2,
       t3, t4
<1>5. AddrHdlr(t1) = indirectAdrHdlr(t1) /\ t1.op = 1 /\ t1.data = o
  BY <1>3, Selects DEF Reached, Given, Addressing, Kept
<1>6. Counted(n1, t1) /\ n1.pc = t1.pc /\ n1.opAdr = o
  BY <1>3 DEF Reached, Given, Addressing, Counted, Micro, Registers, Agree, NextOp
<1>7. AddrHdlr(t1) = initOperandByteRead(n1)
  BY <1>5 DEF indirectAdrHdlr
<1> HIDE DEF n1
<1>8. Reached(s1, t2, q, 2, h, pc, reads2) /\ t2.opAdr = o
  BY <1>1, <1>3, <1>6, <1>7, ReadsOperand DEF t2, reads2, h, pc
<1>9. AddrHdlr(t2) = indirectAdrHdlr(t2) /\ t2.op = 2 /\ t2.data = h
  BY <1>8, Selects DEF Reached, Given, Addressing, Kept
<1>10. Counted(n2, t2) /\ n2.pc = t2.pc /\ n2.opAdr = at
  BY <1>8 DEF Reached, Given, Addressing, Counted, Micro, Registers, Agree, NextOp
<1>11. AddrHdlr(t2) = prepMemRead(n2, at)
  <2>1. [NextOp(t2) EXCEPT !.opAdr = Word(t2.data, @)] = n2
    BY <1>8, <1>9 DEF Reached, Given, Addressing, Micro, Registers, NextOp, at
  <2> QED  BY <1>8, <1>9, <2>1 DEF indirectAdrHdlr, at
<1> HIDE DEF n2
<1>12. Reached(s1, t3, q, 3, low, pc, reads3) /\ t3.opAdr = at
  <2>0. Reached(s1, t2, q, 2, h, pc, reads2) /\ IsWord(at) /\ Counted(n2, t2) /\ n2.pc = t2.pc
    BY <1>1, <1>8, <1>10
  <2>1. Reached(s1, t3, q, 2 + 1, Content(q, at), pc, reads2 \cup {at}) /\ t3.opAdr = n2.opAdr
    BY <1>11, <2>0, ReadsAt DEF t3
  <2> QED  BY <1>10, <2>1 DEF reads3, low
<1>13. AddrHdlr(t3) = indirectAdrHdlr(t3) /\ t3.op = 3 /\ t3.data = low
  BY <1>12, Selects DEF Reached, Given, Addressing, Kept
<1>14. Counted(n3, t3) /\ n3.pc = t3.pc /\ n3.opAdr = low
  BY <1>12 DEF Reached, Given, Addressing, Counted, Micro, Registers, Agree, NextOp
<1>15. AddrHdlr(t3) = prepMemRead(n3, next)
  BY <1>12, <1>13 DEF indirectAdrHdlr, next
<1> HIDE DEF n3
<1>16. Reached(s1, t4, q, 4, high, pc, reads4) /\ t4.opAdr = low
  <2>0. Reached(s1, t3, q, 3, low, pc, reads3) /\ IsWord(next) /\ Counted(n3, t3) /\ n3.pc = t3.pc
    BY <1>1, <1>12, <1>14
  <2>1. Reached(s1, t4, q, 3 + 1, Content(q, next), pc, reads3 \cup {next}) /\ t4.opAdr = n3.opAdr
    BY <1>15, <2>0, ReadsAt DEF t4
  <2> QED  BY <1>14, <2>1 DEF reads4, high
<1>17. AddrHdlr(t4) = indirectAdrHdlr(t4) /\ t4.op = 4 /\ t4.data = high
  BY <1>16, Selects DEF Reached, Given, Addressing, Kept
<1>18. Counted(n4, t4) /\ n4.pc = t4.pc /\ n4.opAdr = adr /\ n4.op16 = t4.op16
  BY <1>16 DEF Reached, Given, Addressing, Counted, Micro, Registers, Agree, NextOp
<1>19. AddrHdlr(t4) = Directly(n4)
  <2>1. [NextOp(t4) EXCEPT !.opAdr = Word(t4.data, @)] = n4
    BY <1>16, <1>17 DEF Reached, Given, Addressing, Micro, Registers, NextOp, adr
  <2> QED  BY <1>17, <2>1 DEF indirectAdrHdlr
<1> HIDE DEF n4
<1>20. Arrives(s1, q, 4, adr, high, pc, reads4, 0)
  BY <1>4, <1>16, <1>18, <1>19, HandsOver
<1> QED  BY <1>20 DEF o, h, at, next, low, high, adr, pc1, pc, reads1, reads2, reads3, reads4, s1

\* P6502CC, indexed indirect.
LEMMA PreIndXMode ==
  ASSUME NEW s, NEW q, Fetched(s, q), q.code[1] # "JSR", q.code[2] = "PreInd_X"
  PROVE  LET o == Content(q, q.pc)
             look == Byte(o + q.x)
             next == Byte(look + 1)
             adr == Word(Content(q, next), Content(q, look))
             reads == (((s.reads \cup {q.pc}) \cup {o}) \cup {look}) \cup {next}
         IN  IF ReadsMem(q.code)
             THEN Arrives(AddrHdlr(s), q, 5, adr, Content(q, adr), Past(q.pc), reads \cup {adr}, 0)
             ELSE Arrives(AddrHdlr(s), q, 4, adr, Content(q, next), Past(q.pc), reads, 0)
<1> DEFINE pc == Past(q.pc)
           o == Content(q, q.pc)
           look == Byte(o + q.x)
           next == Byte(look + 1)
           low == Content(q, look)
           high == Content(q, next)
           adr == Word(high, low)
           reads1 == s.reads \cup {q.pc}
           reads2 == reads1 \cup {o}
           reads3 == reads2 \cup {look}
           reads4 == reads3 \cup {next}
           s1 == AddrHdlr(s)
           t1 == Access(s1)
           n1 == [NextOp(t1) EXCEPT !.look = o]
           t2 == Access(AddrHdlr(t1))
           n2 == [NextOp(t2) EXCEPT !.look = look]
           t3 == Access(AddrHdlr(t2))
           n3 == [NextOp(t3) EXCEPT !.eff = low]
           t4 == Access(AddrHdlr(t3))
           n4 == [NextOp(t4) EXCEPT !.opAdr = adr]
           t5 == Access(AddrHdlr(t4))
           n5 == NextOp(t5)
<1>1. IsWord(o) /\ IsWord(look) /\ IsWord(next) /\ IsWord(adr)
  <2>1. IsByte(o)
    BY ContentIsByte DEF IsWord, Fetched, Typed
  <2>2. IsByte(look)
    BY <2>1, Wrapped DEF IsByte, Fetched, Typed
  <2> HIDE DEF look
  <2>3. IsByte(next)
    BY <2>2, Wrapped DEF IsByte
  <2> HIDE DEF next
  <2>4. IsByte(low) /\ IsByte(high)
    BY <2>2, <2>3, ContentIsByte DEF IsByte, Fetched, Typed
  <2> QED  BY <2>1, <2>2, <2>3, <2>4, WordOfBytes
<1>2. AddrHdlr(s) = preIndXAdrHdlr(s) /\ s.op = 0
  BY Selects DEF Fetched, Addressing, Kept
<1>3. Reached(s1, t1, q, 1, o, pc, reads1)
  <2>1. AddrHdlr(s) = initOperandByteRead(NextOp(s))
    BY <1>2 DEF preIndXAdrHdlr
  <2> QED  BY <2>1, FirstByte
<1>4. q.code[2] \notin Indexed
  BY DEF Indexed
<1> HIDE DEF o, look, next, low, high, adr, pc, reads1, reads2, reads3, reads4, s1, t1, t2, t3,
       t4, t5
<1>5. AddrHdlr(t1) = preIndXAdrHdlr(t1) /\ t1.op = 1 /\ t1.data = o
  BY <1>3, Selects DEF Reached, Given, Addressing, Kept
<1>6. Counted(n1, t1) /\ n1.pc = t1.pc /\ n1.look = o
  BY <1>3 DEF Reached, Given, Addressing, Counted, Micro, Registers, Agree, NextOp
<1>7. AddrHdlr(t1) = prepMemRead(n1, o)
  BY <1>5 DEF preIndXAdrHdlr
<1> HIDE DEF n1
<1>8. Reached(s1, t2, q, 2, Content(q, o), pc, reads2) /\ t2.look = o
  BY <1>1, <1>3, <1>6, <1>7, ReadsAt DEF t2, reads2
<1>9. AddrHdlr(t2) = preIndXAdrHdlr(t2) /\ t2.op = 2 /\ t2.x = q.x
  BY <1>8, Selects DEF Reached, Given, Addressing, Kept, Agree
<1>10. Counted(n2, t2) /\ n2.pc = t2.pc /\ n2.look = look
  BY <1>8 DEF Reached, Given, Addressing, Counted, Micro, Registers, Agree, NextOp
<1>11. AddrHdlr(t2) = prepMemRead(n2, look)
  <2>1. [NextOp(t2) EXCEPT !.look = Byte(@ + t2.x)] = n2
    BY <1>8, <1>9 DEF Reached, Given, Addressing, Micro, Registers, NextOp, look
  <2> QED  BY <1>8, <1>9, <2>1 DEF preIndXAdrHdlr, look
<1> HIDE DEF n2
<1>12. Reached(s1, t3, q, 3, low, pc, reads3) /\ t3.look = look
  BY <1>1, <1>8, <1>10, <1>11, ReadsAt DEF t3, reads3, low
<1>13. AddrHdlr(t3) = preIndXAdrHdlr(t3) /\ t3.op = 3 /\ t3.data = low
  BY <1>12, Selects DEF Reached, Given, Addressing, Kept
<1>14. Counted(n3, t3) /\ n3.pc = t3.pc /\ n3.eff = low
  BY <1>12 DEF Reached, Given, Addressing, Counted, Micro, Registers, Agree, NextOp
<1>15. AddrHdlr(t3) = prepMemRead(n3, next)
  BY <1>12, <1>13 DEF preIndXAdrHdlr, next
<1> HIDE DEF n3
<1>16. Reached(s1, t4, q, 4, high, pc, reads4) /\ t4.eff = low
  BY <1>1, <1>12, <1>14, <1>15, ReadsAt DEF t4, reads4, high
<1>17. AddrHdlr(t4) = preIndXAdrHdlr(t4) /\ t4.op = 4 /\ t4.data = high
  BY <1>16, Selects DEF Reached, Given, Addressing, Kept
<1>18. Counted(n4, t4) /\ n4.pc = t4.pc /\ n4.opAdr = adr /\ n4.op16 = t4.op16 /\ n4.code = q.code
  BY <1>16 DEF Reached, Given, Addressing, Kept, Counted, Micro, Registers, Agree, NextOp
<1>19. AddrHdlr(t4) = ReadOrWrite(n4)
  BY <1>16, <1>17 DEF preIndXAdrHdlr, adr
<1> HIDE DEF n4
<1>20. CASE ReadsMem(q.code)
  <2>1. AddrHdlr(t4) = prepMemRead(n4, adr)
    BY <1>18, <1>19, <1>20 DEF ReadOrWrite
  <2>2. Reached(s1, t5, q, 5, Content(q, adr), pc, reads4 \cup {adr}) /\ t5.opAdr = adr
    BY <1>1, <1>16, <1>18, <2>1, ReadsAt DEF t5
  <2>3. AddrHdlr(t5) = preIndXAdrHdlr(t5) /\ t5.op = 5
    BY <2>2, Selects DEF Reached, Given, Addressing, Kept
  <2>4. AddrHdlr(t5) = HandOver(n5)
    BY <2>3 DEF preIndXAdrHdlr
  <2>5. Counted(n5, t5) /\ n5.pc = t5.pc /\ n5.opAdr = adr /\ n5.op16 = t5.op16
    BY <2>2 DEF Reached, Given, Addressing, Counted, Micro, Registers, Agree, NextOp
  <2> HIDE DEF n5
  <2>6. Arrives(s1, q, 5, adr, Content(q, adr), pc, reads4 \cup {adr}, 0)
    BY <1>4, <2>2, <2>4, <2>5, HandsOver
  <2> QED  BY <1>20, <2>6
           DEF o, look, next, low, high, adr, pc, reads1, reads2, reads3, reads4, s1
<1>21. CASE ~ ReadsMem(q.code)
  <2>1. AddrHdlr(t4) = Directly(n4)
    BY <1>18, <1>19, <1>21 DEF ReadOrWrite
  <2>2. Arrives(s1, q, 4, adr, high, pc, reads4, 0)
    BY <1>4, <1>16, <1>18, <2>1, HandsOver
  <2> QED  BY <1>21, <2>2
           DEF o, look, next, low, high, adr, pc, reads1, reads2, reads3, reads4, s1
<1> QED  BY <1>20, <1>21

\* ... and that of indexing through a pointer.
Again(o, adr, same) == ReadsMem(o) /\ (WritesMem(o) \/ PageBoundaryCrossed(adr, same))

\* P6502CC, indirect indexed: the reads before and after the carry into the high byte.
LEMMA PostIndYMode ==
  ASSUME NEW s, NEW q, Fetched(s, q), q.code[1] # "JSR", q.code[2] = "PostInd_Y"
  PROVE  LET o == Content(q, q.pc)
             next == Byte(o + 1)
             base == Word(Content(q, next), Content(q, o))
             adr == Address(base + q.y)
             same == SamePage(base, base + q.y)
             reads == (((s.reads \cup {q.pc}) \cup {o}) \cup {next}) \cup {same}
         IN  IF Again(q.code, adr, same)
             THEN Arrives(AddrHdlr(s), q, 5, adr, Content(q, adr), Past(q.pc), reads \cup {adr},
                          Page(same))
             ELSE Arrives(AddrHdlr(s), q, 4, adr, Content(q, same), Past(q.pc), reads, Page(same))
<1> DEFINE pc == Past(q.pc)
           o == Content(q, q.pc)
           next == Byte(o + 1)
           low == Content(q, o)
           high == Content(q, next)
           base == Word(high, low)
           adr == Address(base + q.y)
           same == SamePage(base, base + q.y)
           reads1 == s.reads \cup {q.pc}
           reads2 == reads1 \cup {o}
           reads3 == reads2 \cup {next}
           reads4 == reads3 \cup {same}
           s1 == AddrHdlr(s)
           t1 == Access(s1)
           n1 == [NextOp(t1) EXCEPT !.look = o]
           t2 == Access(AddrHdlr(t1))
           n2 == [NextOp(t2) EXCEPT !.eff = low]
           t3 == Access(AddrHdlr(t2))
           n3 == [NextOp(t3) EXCEPT !.opAdr = adr, !.op16 = same]
           t4 == Access(AddrHdlr(t3))
           n4 == NextOp(t4)
           t5 == Access(AddrHdlr(t4))
           n5 == NextOp(t5)
<1>1. IsWord(o) /\ IsWord(next) /\ IsWord(adr) /\ IsWord(same)
  <2>1. IsByte(o)
    BY ContentIsByte DEF IsWord, Fetched, Typed
  <2>3. IsByte(next)
    BY <2>1, Wrapped DEF IsByte
  <2> HIDE DEF next
  <2>4. IsByte(low) /\ IsByte(high)
    BY <2>1, <2>3, ContentIsByte DEF IsByte, Fetched, Typed
  <2>5. IsWord(base)
    BY <2>4, WordOfBytes
  <2> HIDE DEF base
  <2>6. base + q.y \in Int
    BY <2>5 DEF IsWord, IsByte, Fetched, Typed
  <2> QED  BY <2>1, <2>3, <2>5, <2>6, WordOfBytes, AddressIsWord, SamePageIsWord
<1>2. AddrHdlr(s) = postIndYAdrHdlr(s) /\ s.op = 0
  BY Selects DEF Fetched, Addressing, Kept
<1>3. Reached(s1, t1, q, 1, o, pc, reads1)
  <2>1. AddrHdlr(s) = initOperandByteRead(NextOp(s))
    BY <1>2 DEF postIndYAdrHdlr
  <2> QED  BY <2>1, FirstByte
<1> HIDE DEF o, next, low, high, base, adr, same, pc, reads1, reads2, reads3, reads4, s1,
             t1, t2, t3, t4, t5
<1>5. AddrHdlr(t1) = postIndYAdrHdlr(t1) /\ t1.op = 1 /\ t1.data = o
  BY <1>3, Selects DEF Reached, Given, Addressing, Kept
<1>6. Counted(n1, t1) /\ n1.pc = t1.pc /\ n1.look = o
  BY <1>3 DEF Reached, Given, Addressing, Counted, Micro, Registers, Agree, NextOp
<1>7. AddrHdlr(t1) = prepMemRead(n1, o)
  BY <1>5 DEF postIndYAdrHdlr
<1> HIDE DEF n1
<1>8. Reached(s1, t2, q, 2, low, pc, reads2) /\ t2.look = o
  BY <1>1, <1>3, <1>6, <1>7, ReadsAt DEF t2, reads2, low
<1>9. AddrHdlr(t2) = postIndYAdrHdlr(t2) /\ t2.op = 2 /\ t2.data = low
  BY <1>8, Selects DEF Reached, Given, Addressing, Kept
<1>10. Counted(n2, t2) /\ n2.pc = t2.pc /\ n2.eff = low
  BY <1>8 DEF Reached, Given, Addressing, Counted, Micro, Registers, Agree, NextOp
<1>11. AddrHdlr(t2) = prepMemRead(n2, next)
  BY <1>8, <1>9 DEF postIndYAdrHdlr, next
<1> HIDE DEF n2
<1>12. Reached(s1, t3, q, 3, high, pc, reads3) /\ t3.eff = low
  <2>0. Reached(s1, t2, q, 2, low, pc, reads2) /\ IsWord(next) /\ Counted(n2, t2) /\ n2.pc = t2.pc
    BY <1>1, <1>8, <1>10
  <2>1. Reached(s1, t3, q, 2 + 1, Content(q, next), pc, reads2 \cup {next}) /\ t3.eff = n2.eff
    BY <1>11, <2>0, ReadsAt DEF t3
  <2> QED  BY <1>10, <2>1 DEF reads3, high
<1>13. AddrHdlr(t3) = postIndYAdrHdlr(t3) /\ t3.op = 3 /\ t3.data = high /\ t3.y = q.y
  BY <1>12, Selects DEF Reached, Given, Addressing, Kept, Agree
<1>14. Counted(n3, t3) /\ n3.pc = t3.pc /\ n3.opAdr = adr /\ n3.op16 = same
  BY <1>12 DEF Reached, Given, Addressing, Counted, Micro, Registers, Agree, NextOp
<1>15. AddrHdlr(t3) = prepMemRead(n3, same)
  BY <1>12, <1>13 DEF postIndYAdrHdlr, base, adr, same, Address
<1> HIDE DEF n3
<1>16. Reached(s1, t4, q, 4, Content(q, same), pc, reads4) /\ t4.opAdr = adr /\ t4.op16 = same
  <2>0. Reached(s1, t3, q, 3, high, pc, reads3) /\ IsWord(same) /\ Counted(n3, t3) /\ n3.pc = t3.pc
    BY <1>1, <1>12, <1>14
  <2>1. /\ Reached(s1, t4, q, 3 + 1, Content(q, same), pc, reads3 \cup {same})
        /\ t4.opAdr = n3.opAdr /\ t4.op16 = n3.op16
    BY <1>15, <2>0, ReadsAt DEF t4
  <2> QED  BY <1>14, <2>1 DEF reads4
<1>17. AddrHdlr(t4) = postIndYAdrHdlr(t4) /\ t4.op = 4 /\ t4.code = q.code
  BY <1>16, Selects DEF Reached, Given, Addressing, Kept
<1>18. Counted(n4, t4) /\ n4.pc = t4.pc /\ n4.opAdr = adr /\ n4.op16 = t4.op16
  BY <1>16 DEF Reached, Given, Addressing, Counted, Micro, Registers, Agree, NextOp
<1>19. AddrHdlr(t4) = IF Again(q.code, adr, same) THEN prepMemRead(n4, adr) ELSE HandOver(n4)
  BY <1>16, <1>17 DEF postIndYAdrHdlr, Again
<1> HIDE DEF n4
<1>20. CASE Again(q.code, adr, same)
  <2>1. AddrHdlr(t4) = prepMemRead(n4, adr)
    BY <1>19, <1>20
  <2>2. /\ Reached(s1, t5, q, 5, Content(q, adr), pc, reads4 \cup {adr})
        /\ t5.opAdr = adr /\ t5.op16 = same
    <3>0. /\ Reached(s1, t4, q, 4, Content(q, same), pc, reads4) /\ IsWord(adr)
          /\ Counted(n4, t4) /\ n4.pc = t4.pc
      BY <1>1, <1>16, <1>18
    <3>1. /\ Reached(s1, t5, q, 4 + 1, Content(q, adr), pc, reads4 \cup {adr})
          /\ t5.opAdr = n4.opAdr /\ t5.op16 = n4.op16
      BY <2>1, <3>0, ReadsAt, SMTT(30) DEF t5
    <3> QED  BY <1>16, <1>18, <3>1
  <2>3. AddrHdlr(t5) = postIndYAdrHdlr(t5) /\ t5.op = 5
    BY <2>2, Selects DEF Reached, Given, Addressing, Kept
  <2>4. AddrHdlr(t5) = HandOver(n5)
    BY <2>3 DEF postIndYAdrHdlr
  <2>5. Counted(n5, t5) /\ n5.pc = t5.pc /\ n5.opAdr = adr /\ n5.op16 = t5.op16
    BY <2>2 DEF Reached, Given, Addressing, Counted, Micro, Registers, Agree, NextOp
  <2> HIDE DEF n5
  <2>6. Arrives(s1, q, 5, adr, Content(q, adr), pc, reads4 \cup {adr}, Page(same))
    BY <2>2, <2>4, <2>5, HandsOver
  <2> QED  BY <1>20, <2>6
           DEF o, next, low, high, base, adr, same, pc, reads1, reads2, reads3, reads4, s1
<1>21. CASE ~ Again(q.code, adr, same)
  <2>2. Arrives(s1, q, 4, adr, Content(q, same), pc, reads4, Page(same))
    BY <1>16, <1>18, <1>19, <1>21, HandsOver
  <2> QED  BY <1>21, <2>2
           DEF o, next, low, high, base, adr, same, pc, reads1, reads2, reads3, reads4, s1
<1> QED  BY <1>20, <1>21

-----------------------------------------------------------------------------
(* Addressing in the instruction-accurate processor.                       *)

Carried(t, q) == Whole(t) /\ Agree(t, q) /\ t.code = q.code /\ t.opcodePC = q.opcodePC

Result(r, q, opAdr, pc, reads, ticks) ==
  /\ Carried(r, q)
  /\ r.opAdr = opAdr /\ r.pc = pc /\ r.reads = reads /\ r.cycles = q.cycles + ticks

\* P6502IC: a read that is not used.
LEMMA TouchesOne ==
  ASSUME NEW q, NEW t, Carried(t, q), NEW adr, IsWord(adr)
  PROVE  LET u == ICPU!Touch(t, adr)
         IN  /\ Carried(u, q) /\ u.reads = t.reads \cup {adr}
             /\ u.pc = t.pc /\ u.cycles = t.cycles /\ u.opAdr = t.opAdr /\ u.op16 = t.op16
             /\ u.rv = t.rv
<1>1. adr % 65536 = adr
  BY Wrapped DEF IsWord
<1> QED  BY <1>1 DEF ICPU!Touch, Carried, Whole, Registers, Agree

\* P6502IC: a read of an operand.
LEMMA LoadsOne ==
  ASSUME NEW q, NEW t, Carried(t, q), NEW adr, IsWord(adr)
  PROVE  LET u == ICPU!Load(t, adr)
         IN  /\ Carried(u, q) /\ u.reads = t.reads \cup {adr} /\ u.rv = Content(q, adr)
             /\ u.pc = t.pc /\ u.cycles = t.cycles /\ u.opAdr = t.opAdr /\ u.op16 = t.op16
<1>1. adr % 65536 = adr
  BY Wrapped DEF IsWord
<1>2. ICPU!Content(t, adr) = Content(q, adr)
  BY ContentSame, SharedMemory DEF Carried, Agree
<1> QED  BY <1>1, <1>2 DEF ICPU!Load, ICPU!Touch, Carried, Whole, Registers, Agree

\* P6502IC: a read of an operand byte.
LEMMA ReadsByte ==
  ASSUME NEW q, NEW t, Carried(t, q), IsWord(t.pc)
  PROVE  LET u == ICPU!PastByte(t)
         IN  /\ Carried(u, q) /\ u.reads = t.reads \cup {t.pc} /\ u.pc = Past(t.pc)
             /\ u.cycles = t.cycles /\ u.opAdr = t.opAdr /\ u.op16 = t.op16 /\ u.rv = t.rv
             /\ ICPU!NextByte(t) = Content(q, t.pc)
<1>1. t.pc % 65536 = t.pc
  BY Wrapped DEF IsWord
<1>2. ICPU!NextByte(t) = Content(q, t.pc)
  BY ContentSame, SharedMemory DEF ICPU!NextByte, Carried, Agree
<1> QED  BY <1>1, <1>2 DEF ICPU!PastByte, ICPU!Touch, Carried, Whole, Registers, Agree, Past

\* P6502IC: the operand is only read by an instruction that reads.
LEMMA ReadsIf ==
  ASSUME NEW q, NEW t, Carried(t, q), IsWord(t.opAdr)
  PROVE  LET u == ICPU!ReadIfRead(t)
         IN  /\ Carried(u, q) /\ u.pc = t.pc /\ u.cycles = t.cycles /\ u.opAdr = t.opAdr
             /\ u.reads = IF ReadsMem(q.code) THEN t.reads \cup {t.opAdr} ELSE t.reads
             /\ ReadsMem(q.code) => u.rv = Content(q, t.opAdr)
<1>1. CASE ReadsMem(q.code)
  <2>1. ICPU!ReadIfRead(t) = ICPU!Load(t, t.opAdr)
    BY <1>1, SharedMemory DEF Carried, ICPU!ReadIfRead
  <2> QED  BY <1>1, <2>1, LoadsOne
<1>2. CASE ~ ReadsMem(q.code)
  <2>1. ICPU!ReadIfRead(t) = t
    BY <1>2, SharedMemory DEF Carried, ICPU!ReadIfRead
  <2> QED  BY <1>2, <2>1
<1> QED  BY <1>1, <1>2

\* Nothing has been changed yet.
LEMMA CarriedItself ==
  ASSUME NEW q, Whole(q) PROVE Carried(q, q)
BY DEF Carried, Agree

\* P6502IC, implied.
LEMMA ImpliedResult ==
  ASSUME NEW q, Whole(q), Typed(q)
  PROVE  Result(ICPU!impliedAdrHdlr(q), q, q.opAdr, q.pc, q.reads \cup {q.pc}, 0)
<1>1. q.cycles + 0 = q.cycles /\ IsWord(q.pc)
  BY DEF Typed
<1> QED  BY <1>1, CarriedItself, TouchesOne DEF Result, ICPU!impliedAdrHdlr

\* P6502IC, accumulator.
LEMMA AccumulatorResult ==
  ASSUME NEW q, Whole(q), Typed(q)
  PROVE  LET r == ICPU!accAdrHdlr(q)
         IN  Result(r, q, q.opAdr, q.pc, q.reads, 0) /\ r.rv = q.a
<1>1. q.cycles + 0 = q.cycles
  BY DEF Typed
<1> QED  BY <1>1 DEF Result, Carried, Whole, Registers, Agree, ICPU!accAdrHdlr

\* P6502IC, immediate.
LEMMA ImmediateResult ==
  ASSUME NEW q, Whole(q), Typed(q)
  PROVE  LET r == ICPU!immediateAdrHdlr(q)
         IN  /\ Result(r, q, q.opAdr, Past(q.pc), q.reads \cup {q.pc}, 0)
             /\ r.rv = Content(q, q.pc)
<1> DEFINE t == ICPU!PastByte(q)
           o == Content(q, q.pc)
<1>1. q.cycles + 0 = q.cycles /\ IsWord(q.pc)
  BY DEF Typed
<1>2. /\ Carried(t, q) /\ t.reads = q.reads \cup {q.pc} /\ t.pc = Past(q.pc)
      /\ t.cycles = q.cycles /\ t.opAdr = q.opAdr /\ ICPU!NextByte(q) = o
  BY <1>1, CarriedItself, ReadsByte
<1> HIDE DEF t, o
<1>3. ICPU!immediateAdrHdlr(q) = [t EXCEPT !.rv = o, !.op16 = o]
  BY <1>2 DEF ICPU!immediateAdrHdlr, t
<1>4. LET r == [t EXCEPT !.rv = o, !.op16 = o]
      IN  Result(r, q, q.opAdr, Past(q.pc), q.reads \cup {q.pc}, 0) /\ r.rv = o
  BY <1>1, <1>2 DEF Result, Carried, Whole, Registers, Agree
<1> QED  BY <1>3, <1>4 DEF o

\* P6502IC, relative.
LEMMA RelativeResult ==
  ASSUME NEW q, Whole(q), Typed(q)
  PROVE  LET r == ICPU!relativeAdrHdlr(q)
             offset == Signed(Content(q, q.pc))
         IN  /\ Result(r, q, Address(offset + q.pc + 1), Past(q.pc), q.reads \cup {q.pc}, 0)
             /\ r.op16 = offset
<1> DEFINE t == ICPU!PastByte(q)
           offset == Signed(Content(q, q.pc))
           adr == Address(offset + q.pc + 1)
<1>1. q.cycles + 0 = q.cycles /\ IsWord(q.pc)
  BY DEF Typed
<1>2. /\ Carried(t, q) /\ t.reads = q.reads \cup {q.pc} /\ t.pc = Past(q.pc)
      /\ t.cycles = q.cycles /\ t.opAdr = q.opAdr /\ ICPU!NextByte(q) = Content(q, q.pc)
  BY <1>1, CarriedItself, ReadsByte
<1>3. ICPU!relativeAdrHdlr(q) = [t EXCEPT !.op16 = offset, !.opAdr = adr]
  <2>1. ICPU!Signed(ICPU!NextByte(q)) = offset
    BY <1>2, SharedMemory
  <2> QED  BY <2>1 DEF ICPU!relativeAdrHdlr, Address
<1> HIDE DEF t, offset, adr
<1> DEFINE r == [t EXCEPT !.op16 = offset, !.opAdr = adr]
<1>4. Result(r, q, adr, Past(q.pc), q.reads \cup {q.pc}, 0) /\ r.op16 = offset
  BY <1>1, <1>2 DEF Result, Carried, Whole, Registers, Agree
<1> QED  BY <1>3, <1>4 DEF offset, adr, t

\* P6502IC, zero page, with an index or without.
LEMMA ZeroPageIndexedResult ==
  ASSUME NEW q, Whole(q), Typed(q), NEW index, IsByte(index)
  PROVE  LET r == ICPU!ZeroPageIndexed(q, index)
             o == Content(q, q.pc)
             adr == Byte(o + index)
             reads == (q.reads \cup {q.pc}) \cup {o}
         IN  /\ Result(r, q, adr, Past(q.pc),
                       IF ReadsMem(q.code) THEN reads \cup {adr} ELSE reads, 0)
             /\ ReadsMem(q.code) => r.rv = Content(q, adr)
<1> DEFINE o == Content(q, q.pc)
           adr == Byte(o + index)
           reads == (q.reads \cup {q.pc}) \cup {o}
           t == ICPU!PastByte(q)
           u == ICPU!Touch(t, o)
           v == [u EXCEPT !.op16 = o, !.opAdr = adr]
           r == ICPU!ReadIfRead(v)
<1>1. q.cycles + 0 = q.cycles /\ IsWord(q.pc)
  BY DEF Typed
<1>2. IsWord(o) /\ IsWord(adr)
  BY ContentIsByte, Wrapped DEF Typed, IsWord, IsByte
<1>3. /\ Carried(t, q) /\ t.reads = q.reads \cup {q.pc} /\ t.pc = Past(q.pc)
      /\ t.cycles = q.cycles /\ ICPU!NextByte(q) = o
  BY <1>1, CarriedItself, ReadsByte
<1>4. ICPU!ZeroPageIndexed(q, index) = r
  BY <1>3, SharedMemory DEF ICPU!ZeroPageIndexed
<1> HIDE DEF o, adr, t
<1>5. Carried(u, q) /\ u.reads = t.reads \cup {o} /\ u.pc = t.pc /\ u.cycles = t.cycles
  BY <1>2, <1>3, TouchesOne
<1> HIDE DEF u
<1>6. Carried(v, q) /\ v.opAdr = adr /\ v.pc = u.pc /\ v.cycles = u.cycles /\ v.reads = u.reads
  BY <1>5 DEF Carried, Whole, Registers, Agree
<1> HIDE DEF v
<1>7. /\ Carried(r, q) /\ r.pc = v.pc /\ r.cycles = v.cycles /\ r.opAdr = v.opAdr
      /\ r.reads = IF ReadsMem(q.code) THEN v.reads \cup {v.opAdr} ELSE v.reads
      /\ ReadsMem(q.code) => r.rv = Content(q, v.opAdr)
  BY <1>2, <1>6, ReadsIf
<1> HIDE DEF r
<1>8. /\ Result(r, q, adr, Past(q.pc),
                IF ReadsMem(q.code) THEN reads \cup {adr} ELSE reads, 0)
      /\ ReadsMem(q.code) => r.rv = Content(q, adr)
  BY <1>1, <1>3, <1>5, <1>6, <1>7 DEF Result
<1> QED  BY <1>4, <1>8 DEF o, adr

\* P6502IC: the two operand bytes of an absolute mode.
LEMMA Operand16Result ==
  ASSUME NEW q, Whole(q), Typed(q)
  PROVE  LET t == ICPU!Operand16(q)
         IN  /\ Carried(t, q) /\ t.op16 = Word(Content(q, Past(q.pc)), Content(q, q.pc))
             /\ t.pc = Past(Past(q.pc)) /\ t.reads = (q.reads \cup {q.pc}) \cup {Past(q.pc)}
             /\ t.cycles = q.cycles
<1> DEFINE u == ICPU!PastByte(q)
           v == ICPU!PastByte(u)
           w == Word(Content(q, Past(q.pc)), Content(q, q.pc))
<1>1. /\ Carried(u, q) /\ u.reads = q.reads \cup {q.pc} /\ u.pc = Past(q.pc)
      /\ u.cycles = q.cycles /\ ICPU!NextByte(q) = Content(q, q.pc)
  BY CarriedItself, ReadsByte DEF Typed
<1> HIDE DEF u
<1>2. IsWord(u.pc)
  BY <1>1, PastIsWord DEF Typed
<1>3. /\ Carried(v, q) /\ v.reads = u.reads \cup {u.pc} /\ v.pc = Past(u.pc)
      /\ v.cycles = u.cycles /\ ICPU!NextByte(u) = Content(q, u.pc)
  BY <1>1, <1>2, ReadsByte
<1> HIDE DEF v
<1>4. ICPU!Word(ICPU!NextByte(u), ICPU!NextByte(q)) = w
  BY <1>1, <1>3, SharedMemory
<1>5. ICPU!Operand16(q) = [v EXCEPT !.op16 = w]
  BY <1>4 DEF ICPU!Operand16, u, v
<1> HIDE DEF w
<1>6. LET t == [v EXCEPT !.op16 = w]
      IN  /\ Carried(t, q) /\ t.op16 = w /\ t.pc = v.pc /\ t.reads = v.reads /\ t.cycles = v.cycles
  BY <1>3 DEF Carried, Whole, Registers, Agree
<1> QED  BY <1>1, <1>3, <1>5, <1>6 DEF w

\* P6502IC, absolute.
LEMMA AbsoluteResult ==
  ASSUME NEW q, Whole(q), Typed(q)
  PROVE  LET r == ICPU!absoluteAdrHdlr(q)
             adr == Word(Content(q, Past(q.pc)), Content(q, q.pc))
             reads == (q.reads \cup {q.pc}) \cup {Past(q.pc)}
         IN  /\ Result(r, q, adr, Past(Past(q.pc)),
                       IF ReadsMem(q.code) THEN reads \cup {adr} ELSE reads, 0)
             /\ ReadsMem(q.code) => r.rv = Content(q, adr)
<1> DEFINE adr == Word(Content(q, Past(q.pc)), Content(q, q.pc))
           reads == (q.reads \cup {q.pc}) \cup {Past(q.pc)}
           t == ICPU!Operand16(q)
           v == [t EXCEPT !.opAdr = t.op16]
           r == ICPU!ReadIfRead(v)
<1>1. q.cycles + 0 = q.cycles
  BY DEF Typed
<1>2. /\ Carried(t, q) /\ t.op16 = adr /\ t.pc = Past(Past(q.pc)) /\ t.reads = reads
      /\ t.cycles = q.cycles
  BY Operand16Result
<1>3. IsWord(adr)
  <2>1. IsByte(Content(q, q.pc)) /\ IsByte(Content(q, Past(q.pc)))
    BY PastIsWord, ContentIsByte DEF Typed, IsWord
  <2> QED  BY <2>1, WordOfBytes
<1>4. ICPU!absoluteAdrHdlr(q) = r
  BY DEF ICPU!absoluteAdrHdlr
<1> HIDE DEF adr, t, reads
<1>5. Carried(v, q) /\ v.opAdr = adr /\ v.pc = t.pc /\ v.cycles = t.cycles /\ v.reads = t.reads
  BY <1>2 DEF Carried, Whole, Registers, Agree
<1> HIDE DEF v
<1>6. /\ Carried(r, q) /\ r.pc = v.pc /\ r.cycles = v.cycles /\ r.opAdr = v.opAdr
      /\ r.reads = IF ReadsMem(q.code) THEN v.reads \cup {v.opAdr} ELSE v.reads
      /\ ReadsMem(q.code) => r.rv = Content(q, v.opAdr)
  BY <1>3, <1>5, ReadsIf
<1> HIDE DEF r
<1>7. /\ Result(r, q, adr, Past(Past(q.pc)),
                IF ReadsMem(q.code) THEN reads \cup {adr} ELSE reads, 0)
      /\ ReadsMem(q.code) => r.rv = Content(q, adr)
  BY <1>1, <1>2, <1>5, <1>6 DEF Result
<1> QED  BY <1>4, <1>7 DEF adr, reads

\* One cycle more, and the second read.
Carries(o, base, adr) == AddCycleAtPageBoundary(o) /\ PageBoundaryCrossed(base, adr)

\* Where indexing leads to, before and after the carry into the high byte.
Places(base, index, adr, same) == adr = Address(base + index) /\ same = SamePage(base, base + index)

\* P6502IC: the read before the carry, and the one after it when the table gives it a cycle.
LEMMA Indexed16Result ==
  ASSUME NEW q, NEW t, Carried(t, q), t.cycles = q.cycles, q.cycles \in Nat,
         NEW base, IsWord(base), NEW index, IsByte(index),
         NEW adr, NEW same, Places(base, index, adr, same)
  PROVE  LET r == ICPU!Indexed16(t, base, index)
         IN  IF Carries(q.code, base, adr)
             THEN /\ Result(r, q, adr, t.pc, (t.reads \cup {same}) \cup {adr}, 1)
                  /\ r.rv = Content(q, adr)
             ELSE Result(r, q, adr, t.pc, t.reads \cup {same}, 0) /\ r.rv = Content(q, same)
<1> DEFINE u == ICPU!Load(t, same)
           v == [u EXCEPT !.opAdr = adr]
           w == ICPU!Load(v, adr)
           r == ICPU!Indexed16(t, base, index)
<1>1. IsWord(adr) /\ IsWord(same)
  <2>1. base + index \in Int
    BY DEF IsWord, IsByte
  <2> QED  BY <2>1, AddressIsWord, SamePageIsWord DEF Places
<1>2. ICPU!SamePage(base, base + index) = same
  BY SharedMemory DEF Places
<1>3. r = LET x == [ICPU!Load(t, same) EXCEPT !.opAdr = adr]
          IN  IF ICPU!AddCycleAtPageBoundary(t.code) /\ ICPU!PageBoundaryCrossed(base, x.opAdr)
              THEN ICPU!tick(ICPU!Load(x, x.opAdr), 1) ELSE x
  BY <1>2 DEF ICPU!Indexed16, Address, Places
<1> HIDE DEF r
<1>4. /\ Carried(u, q) /\ u.reads = t.reads \cup {same} /\ u.rv = Content(q, same)
      /\ u.pc = t.pc /\ u.cycles = t.cycles
  BY <1>1, LoadsOne
<1>5. r = IF Carries(q.code, base, v.opAdr) THEN ICPU!tick(ICPU!Load(v, v.opAdr), 1) ELSE v
  <2>1. /\ ICPU!AddCycleAtPageBoundary(t.code) = AddCycleAtPageBoundary(q.code)
        /\ ICPU!PageBoundaryCrossed(base, v.opAdr) = PageBoundaryCrossed(base, v.opAdr)
    BY SharedMemory DEF Carried
  <2> QED  BY <1>3, <2>1 DEF Carries
<1> HIDE DEF u
<1>6. /\ Carried(v, q) /\ v.opAdr = adr /\ v.reads = u.reads /\ v.rv = u.rv
      /\ v.pc = u.pc /\ v.cycles = u.cycles
  BY <1>4 DEF Carried, Whole, Registers, Agree
<1> HIDE DEF v
<1>7. q.cycles + 0 = q.cycles
  OBVIOUS
<1>8. CASE Carries(q.code, base, adr)
  <2>1. /\ Carried(w, q) /\ w.reads = v.reads \cup {adr} /\ w.rv = Content(q, adr)
        /\ w.pc = v.pc /\ w.cycles = v.cycles /\ w.opAdr = v.opAdr
    BY <1>1, <1>6, LoadsOne, SMTT(30)
  <2> HIDE DEF w
  <2>2. r = ICPU!tick(w, 1)
    BY <1>5, <1>6, <1>8 DEF w
  <2>3. /\ Carried(r, q) /\ r.reads = w.reads /\ r.rv = w.rv /\ r.pc = w.pc /\ r.opAdr = w.opAdr
        /\ r.cycles = w.cycles + 1
    BY <2>1, <2>2 DEF ICPU!tick, Carried, Whole, Registers, Agree
  <2>4. /\ Result(r, q, adr, t.pc, (t.reads \cup {same}) \cup {adr}, 1) /\ r.rv = Content(q, adr)
    BY <1>4, <1>6, <2>1, <2>3 DEF Result
  <2> QED  BY <1>8, <2>4 DEF r
<1>9. CASE ~ Carries(q.code, base, adr)
  <2>1. r = v
    BY <1>5, <1>6, <1>9
  <2>2. Result(r, q, adr, t.pc, t.reads \cup {same}, 0) /\ r.rv = Content(q, same)
    BY <1>4, <1>6, <1>7, <2>1 DEF Result
  <2> QED  BY <1>9, <2>2 DEF r
<1> QED  BY <1>8, <1>9

\* P6502IC, absolute indexed.
LEMMA AbsoluteIndexedResult ==
  ASSUME NEW q, Whole(q), Typed(q), NEW index, IsByte(index)
  PROVE  LET t == ICPU!Operand16(q)
             r == ICPU!Indexed16(t, t.op16, index)
             base == Word(Content(q, Past(q.pc)), Content(q, q.pc))
             adr == Address(base + index)
             same == SamePage(base, base + index)
             pc == Past(Past(q.pc))
             reads == ((q.reads \cup {q.pc}) \cup {Past(q.pc)}) \cup {same}
         IN  IF Carries(q.code, base, adr)
             THEN Result(r, q, adr, pc, reads \cup {adr}, 1) /\ r.rv = Content(q, adr)
             ELSE Result(r, q, adr, pc, reads, 0) /\ r.rv = Content(q, same)
<1> DEFINE base == Word(Content(q, Past(q.pc)), Content(q, q.pc))
           adr == Address(base + index)
           same == SamePage(base, base + index)
           t == ICPU!Operand16(q)
<1>1. IsWord(base)
  <2>1. IsByte(Content(q, q.pc)) /\ IsByte(Content(q, Past(q.pc)))
    BY PastIsWord, ContentIsByte DEF Typed, IsWord
  <2> QED  BY <2>1, WordOfBytes
<1>2. /\ Carried(t, q) /\ t.op16 = base /\ t.pc = Past(Past(q.pc)) /\ t.cycles = q.cycles
      /\ t.reads = (q.reads \cup {q.pc}) \cup {Past(q.pc)}
  BY Operand16Result
<1>3. q.cycles \in Nat
  BY DEF Typed
<1>5. Places(base, index, adr, same)
  BY DEF Places
<1> HIDE DEF base, adr, same, t
<1>6. Carried(t, q) /\ t.cycles = q.cycles
  BY <1>2
<1>4. LET r == ICPU!Indexed16(t, base, index)
      IN  IF Carries(q.code, base, adr)
          THEN /\ Result(r, q, adr, t.pc, (t.reads \cup {same}) \cup {adr}, 1)
               /\ r.rv = Content(q, adr)
          ELSE Result(r, q, adr, t.pc, t.reads \cup {same}, 0) /\ r.rv = Content(q, same)
  BY <1>1, <1>3, <1>5, <1>6, Indexed16Result
<1> QED  BY <1>2, <1>4 DEF base, adr, same, t

\* P6502IC, indirect.
LEMMA IndirectResult ==
  ASSUME NEW q, Whole(q), Typed(q)
  PROVE  LET at == Word(Content(q, Past(q.pc)), Content(q, q.pc))
             next == SamePage(at, at + 1)
             adr == Word(Content(q, next), Content(q, at))
             reads == (((q.reads \cup {q.pc}) \cup {Past(q.pc)}) \cup {at}) \cup {next}
         IN  Result(ICPU!indirectAdrHdlr(q), q, adr, Past(Past(q.pc)), reads, 0)
<1> DEFINE at == Word(Content(q, Past(q.pc)), Content(q, q.pc))
           next == SamePage(at, at + 1)
           adr == Word(Content(q, next), Content(q, at))
           t == ICPU!Operand16(q)
           u == ICPU!Touch(t, at)
           v == ICPU!Touch(u, next)
           r == [v EXCEPT !.opAdr = adr]
<1>1. q.cycles + 0 = q.cycles
  BY DEF Typed
<1>2. /\ Carried(t, q) /\ t.op16 = at /\ t.pc = Past(Past(q.pc)) /\ t.cycles = q.cycles
      /\ t.reads = (q.reads \cup {q.pc}) \cup {Past(q.pc)}
  BY Operand16Result
<1>3. IsWord(at) /\ IsWord(next)
  <2>1. IsByte(Content(q, q.pc)) /\ IsByte(Content(q, Past(q.pc)))
    BY PastIsWord, ContentIsByte DEF Typed, IsWord
  <2>2. IsWord(at)
    BY <2>1, WordOfBytes
  <2> HIDE DEF at
  <2>3. at + 1 \in Int
    BY <2>2 DEF IsWord
  <2> QED  BY <2>2, <2>3, SamePageIsWord
<1>4. ICPU!SamePage(at, at + 1) = next
  BY SharedMemory
<1>5. /\ ICPU!Content(t, next) = Content(q, next) /\ ICPU!Content(t, at) = Content(q, at)
  BY <1>2, ContentSame, SharedMemory DEF Carried, Agree
<1>6. ICPU!Word(ICPU!Content(t, next), ICPU!Content(t, at)) = adr
  BY <1>5, SharedMemory
<1>7. ICPU!indirectAdrHdlr(q) = r
  BY <1>2, <1>4, <1>6 DEF ICPU!indirectAdrHdlr
<1> HIDE DEF at, next, adr, t
<1>8. Carried(u, q) /\ u.reads = t.reads \cup {at} /\ u.pc = t.pc /\ u.cycles = t.cycles
  BY <1>2, <1>3, TouchesOne
<1> HIDE DEF u
<1>9. Carried(v, q) /\ v.reads = u.reads \cup {next} /\ v.pc = u.pc /\ v.cycles = u.cycles
  BY <1>3, <1>8, TouchesOne
<1> HIDE DEF v
<1>10. /\ Carried(r, q) /\ r.opAdr = adr /\ r.pc = v.pc /\ r.reads = v.reads
       /\ r.cycles = v.cycles
  BY <1>9 DEF Carried, Whole, Registers, Agree
<1> HIDE DEF r
<1> QED  BY <1>1, <1>2, <1>7, <1>8, <1>9, <1>10 DEF Result, at, next, adr

\* P6502IC, indexed indirect.
LEMMA PreIndXResult ==
  ASSUME NEW q, Whole(q), Typed(q)
  PROVE  LET r == ICPU!preIndXAdrHdlr(q)
             o == Content(q, q.pc)
             look == Byte(o + q.x)
             next == Byte(look + 1)
             adr == Word(Content(q, next), Content(q, look))
             reads == (((q.reads \cup {q.pc}) \cup {o}) \cup {look}) \cup {next}
         IN  /\ Result(r, q, adr, Past(q.pc),
                       IF ReadsMem(q.code) THEN reads \cup {adr} ELSE reads, 0)
             /\ ReadsMem(q.code) => r.rv = Content(q, adr)
<1> DEFINE o == Content(q, q.pc)
           look == Byte(o + q.x)
           next == Byte(look + 1)
           adr == Word(Content(q, next), Content(q, look))
           reads == (((q.reads \cup {q.pc}) \cup {o}) \cup {look}) \cup {next}
           t == ICPU!PastByte(q)
           t1 == ICPU!Touch(t, o)
           t2 == ICPU!Touch(t1, look)
           t3 == ICPU!Touch(t2, next)
           v == [t3 EXCEPT !.op16 = o, !.opAdr = adr]
           r == ICPU!ReadIfRead(v)
<1>1. q.cycles + 0 = q.cycles /\ IsWord(q.pc)
  BY DEF Typed
<1>2. IsWord(o) /\ IsWord(look) /\ IsWord(next) /\ IsWord(adr)
  <2>1. IsByte(o)
    BY ContentIsByte DEF IsWord, Typed
  <2>2. IsByte(look)
    BY <2>1, Wrapped DEF IsByte, Typed
  <2> HIDE DEF look
  <2>3. IsByte(next)
    BY <2>2, Wrapped DEF IsByte
  <2> HIDE DEF next
  <2>4. IsByte(Content(q, next)) /\ IsByte(Content(q, look))
    BY <2>2, <2>3, ContentIsByte DEF IsByte, Typed
  <2> QED  BY <2>1, <2>2, <2>3, <2>4, WordOfBytes
<1>3. /\ Carried(t, q) /\ t.reads = q.reads \cup {q.pc} /\ t.pc = Past(q.pc)
      /\ t.cycles = q.cycles /\ ICPU!NextByte(q) = o
  BY <1>1, CarriedItself, ReadsByte
<1>4. ICPU!Byte(o + q.x) = look /\ ICPU!Byte(look + 1) = next
  BY SharedMemory
<1>5. ICPU!Word(ICPU!Content(q, next), ICPU!Content(q, look)) = adr
  BY SharedMemory
<1>6. ICPU!preIndXAdrHdlr(q) = r
  BY <1>3, <1>4, <1>5 DEF ICPU!preIndXAdrHdlr
<1> HIDE DEF o, look, next, adr, t
<1>7. Carried(t1, q) /\ t1.reads = t.reads \cup {o} /\ t1.pc = t.pc /\ t1.cycles = t.cycles
  <2>1. IsWord(o) /\ Carried(t, q)
    BY <1>2, <1>3
  <2> QED  BY <2>1, TouchesOne
<1> HIDE DEF t1
<1>8. Carried(t2, q) /\ t2.reads = t1.reads \cup {look} /\ t2.pc = t1.pc /\ t2.cycles = t1.cycles
  <2>1. IsWord(look) /\ Carried(t1, q)
    BY <1>2, <1>7
  <2> QED  BY <2>1, TouchesOne
<1> HIDE DEF t2
<1>9. Carried(t3, q) /\ t3.reads = t2.reads \cup {next} /\ t3.pc = t2.pc /\ t3.cycles = t2.cycles
  <2>1. IsWord(next) /\ Carried(t2, q)
    BY <1>2, <1>8
  <2> QED  BY <2>1, TouchesOne
<1> HIDE DEF t3
<1>10. Carried(v, q) /\ v.opAdr = adr /\ v.pc = t3.pc /\ v.cycles = t3.cycles /\ v.reads = t3.reads
  BY <1>9 DEF Carried, Whole, Registers, Agree
<1> HIDE DEF v
<1>11. /\ Carried(r, q) /\ r.pc = v.pc /\ r.cycles = v.cycles /\ r.opAdr = v.opAdr
       /\ r.reads = IF ReadsMem(q.code) THEN v.reads \cup {v.opAdr} ELSE v.reads
       /\ ReadsMem(q.code) => r.rv = Content(q, v.opAdr)
  BY <1>2, <1>10, ReadsIf
<1> HIDE DEF r
<1>12. /\ Result(r, q, adr, Past(q.pc),
                 IF ReadsMem(q.code) THEN reads \cup {adr} ELSE reads, 0)
       /\ ReadsMem(q.code) => r.rv = Content(q, adr)
  BY <1>1, <1>3, <1>7, <1>8, <1>9, <1>10, <1>11 DEF Result
<1> QED  BY <1>6, <1>12 DEF o, look, next, adr

\* P6502IC, indirect indexed.
LEMMA PostIndYResult ==
  ASSUME NEW q, Whole(q), Typed(q)
  PROVE  LET r == ICPU!postIndYAdrHdlr(q)
             o == Content(q, q.pc)
             next == Byte(o + 1)
             base == Word(Content(q, next), Content(q, o))
             adr == Address(base + q.y)
             same == SamePage(base, base + q.y)
             reads == (((q.reads \cup {q.pc}) \cup {o}) \cup {next}) \cup {same}
         IN  IF Carries(q.code, base, adr)
             THEN Result(r, q, adr, Past(q.pc), reads \cup {adr}, 1) /\ r.rv = Content(q, adr)
             ELSE Result(r, q, adr, Past(q.pc), reads, 0) /\ r.rv = Content(q, same)
<1> DEFINE o == Content(q, q.pc)
           next == Byte(o + 1)
           base == Word(Content(q, next), Content(q, o))
           adr == Address(base + q.y)
           same == SamePage(base, base + q.y)
           t == ICPU!PastByte(q)
           t1 == ICPU!Touch(t, o)
           t2 == ICPU!Touch(t1, next)
           v == [t2 EXCEPT !.op16 = o]
<1>1. IsWord(q.pc) /\ q.cycles \in Nat /\ IsByte(q.y)
  BY DEF Typed
<1>2. IsWord(o) /\ IsWord(next) /\ IsWord(base)
  <2>1. IsByte(o)
    BY ContentIsByte DEF IsWord, Typed
  <2>2. IsByte(next)
    BY <2>1, Wrapped DEF IsByte
  <2> HIDE DEF next
  <2>3. IsByte(Content(q, next)) /\ IsByte(Content(q, o))
    BY <2>1, <2>2, ContentIsByte DEF IsByte, Typed
  <2> QED  BY <2>1, <2>2, <2>3, WordOfBytes
<1>3. /\ Carried(t, q) /\ t.reads = q.reads \cup {q.pc} /\ t.pc = Past(q.pc)
      /\ t.cycles = q.cycles /\ ICPU!NextByte(q) = o
  BY <1>1, CarriedItself, ReadsByte
<1>4. ICPU!Byte(o + 1) = next
  BY SharedMemory
<1>5. ICPU!Word(ICPU!Content(q, next), ICPU!Content(q, o)) = base
  BY SharedMemory
<1>6. ICPU!postIndYAdrHdlr(q) = ICPU!Indexed16(v, base, q.y)
  BY <1>3, <1>4, <1>5 DEF ICPU!postIndYAdrHdlr
<1>7. Places(base, q.y, adr, same)
  BY DEF Places
<1> HIDE DEF o, next, base, adr, same, t
<1>8. Carried(t1, q) /\ t1.reads = t.reads \cup {o} /\ t1.pc = t.pc /\ t1.cycles = t.cycles
  BY <1>2, <1>3, TouchesOne
<1> HIDE DEF t1
<1>9. Carried(t2, q) /\ t2.reads = t1.reads \cup {next} /\ t2.pc = t1.pc /\ t2.cycles = t1.cycles
  BY <1>2, <1>8, TouchesOne
<1> HIDE DEF t2
<1>10. Carried(v, q) /\ v.pc = t2.pc /\ v.cycles = t2.cycles /\ v.reads = t2.reads
  BY <1>9 DEF Carried, Whole, Registers, Agree
<1> HIDE DEF v
<1>11. Carried(v, q) /\ v.cycles = q.cycles
  BY <1>3, <1>8, <1>9, <1>10
<1>12. LET r == ICPU!Indexed16(v, base, q.y)
       IN  IF Carries(q.code, base, adr)
           THEN /\ Result(r, q, adr, v.pc, (v.reads \cup {same}) \cup {adr}, 1)
                /\ r.rv = Content(q, adr)
           ELSE Result(r, q, adr, v.pc, v.reads \cup {same}, 0) /\ r.rv = Content(q, same)
  BY <1>1, <1>2, <1>7, <1>11, Indexed16Result
<1>13. v.pc = Past(q.pc) /\ v.reads = ((q.reads \cup {q.pc}) \cup {o}) \cup {next}
  BY <1>3, <1>8, <1>9, <1>10
<1> QED  BY <1>6, <1>12, <1>13 DEF o, next, base, adr, same

-----------------------------------------------------------------------------
(* The table.                                                              *)

MarkedWell(o) == o \in Opcodes /\ o[1] \notin {"SAX", "SLO", "SRE"}
Modifies(o) == WritesMem(o) /\ o[1] \notin Stores

\* The cycles an instruction is executed in, when nothing is added.
Steps(o) ==
  CASE o[2] = "Implied" -> OneByteCycles(o[1]) - 1
    [] o[2] # "Implied" /\ Modifies(o) -> 3
    [] o[2] # "Implied" /\ WritesMem(o) /\ ~ Modifies(o) -> 2
    [] OTHER -> 1

\* An opcode of the table is an instruction with one of its modes.
LEMMA Opcode ==
  ASSUME NEW o \in Opcodes
  PROVE  o[1] \in Instructions /\ o[2] \in ModesOf(o[1]) /\ o = <<o[1], o[2]>>
BY DEF Opcodes

\* In the modes without memory nothing is read, written or modified.
LEMMA NoMemoryKinds ==
  ASSUME NEW o, MarkedWell(o), o[2] \in NoMemory
  PROVE  ~ ReadsMem(o) /\ ~ WritesMem(o) /\ ~ Modifies(o)
BY DEF ReadsMem, WritesMem, Modifies

\* The table's cycles of implied instructions.
LEMMA ImpliedCycles ==
  ASSUME NEW o, MarkedWell(o), o[2] = "Implied"
  PROVE  1 + Steps(o) = Cycles(o) /\ o[1] \in OneByte
<1>1. o[1] \in OneByte
  <2>1. o[1] \in Instructions /\ "Implied" \in ModesOf(o[1])
    BY Opcode DEF MarkedWell
  <2> QED  BY <2>1 DEF ModesOf, Instructions, FullModes, Stores
<1>2. OneByteCycles(o[1]) \in Nat
  BY <1>1 DEF OneByteCycles, OneByte
<1> QED  BY <1>1, <1>2 DEF Steps, Cycles, NoMemory, Stores, Shifts, Counts, Combined, OneByte

\* The table's cycles of immediate, accumulator and relative instructions.
LEMMA ShortCycles ==
  ASSUME NEW o, MarkedWell(o), o[2] \in {"Immediate", "Accumulator", "Relative"}
  PROVE  1 + Steps(o) = Cycles(o)
<1>1. ~ WritesMem(o) /\ ~ Modifies(o)
  BY NoMemoryKinds DEF NoMemory
<1> QED  BY <1>1 DEF Steps, Cycles, NoMemory, Stores, Shifts, Counts, Combined, OneByte

\* The table's cycles of JMP.
LEMMA JumpCycles ==
  ASSUME NEW o, MarkedWell(o), o[1] = "JMP"
  PROVE  /\ ~ ReadsMem(o) /\ ~ WritesMem(o)
         /\ o[2] = "Absolute" => 2 + Steps(o) = Cycles(o)
         /\ o[2] = "Indirect" => 4 + Steps(o) = Cycles(o)
<1>1. ~ ReadsMem(o) /\ ~ WritesMem(o)
  BY DEF ReadsMem, WritesMem, Stores, Shifts, Counts, Combined
<1>2. o = <<o[1], o[2]>>
  BY Opcode DEF MarkedWell
<1> QED  BY <1>1, <1>2 DEF Steps, Cycles, Modifies, NoMemory, Stores, Shifts, Counts, Combined

\* The instructions that work on memory: they read, write or modify it.
LEMMA MemoryKinds ==
  ASSUME NEW o, MarkedWell(o), o[2] \notin NoMemory, o[1] \notin {"JMP", "JSR"}
  PROVE  /\ o[2] \in FullModes \cup {"ZeroPage_Y"}
         /\ \/ ReadsMem(o) /\ ~ WritesMem(o) /\ ~ Modifies(o)
            \/ ReadsMem(o) /\ WritesMem(o) /\ Modifies(o)
            \/ ~ ReadsMem(o) /\ WritesMem(o) /\ ~ Modifies(o)
<1>1. o[2] \in FullModes \cup {"ZeroPage_Y"}
  <2>1. o[1] \in Instructions /\ o[2] \in ModesOf(o[1])
    BY Opcode DEF MarkedWell
  <2> QED  BY <2>1 DEF ModesOf, Instructions, FullModes, NoMemory, Reads, Combined, Shifts,
     Counts, Branches, ByteImmediates, OneByte, Stores
<1>2. \/ ReadsMem(o) /\ ~ WritesMem(o) /\ ~ Modifies(o)
      \/ ReadsMem(o) /\ WritesMem(o) /\ Modifies(o)
      \/ ~ ReadsMem(o) /\ WritesMem(o) /\ ~ Modifies(o)
  BY DEF MarkedWell, ReadsMem, WritesMem, Modifies, Stores, Shifts, Counts, Combined
<1> QED  BY <1>1, <1>2

\* The table's cycles of an instruction that works on memory.
LEMMA MemoryCycles ==
  ASSUME NEW o, MarkedWell(o), o[2] \notin NoMemory, o[1] \notin {"JMP", "JSR"}
  PROVE  Cycles(o) = ReadCycles[o[2]]
                     + (IF Modifies(o) THEN IF o[2] \in Indexed THEN 3 ELSE 2
                        ELSE IF WritesMem(o) /\ o[2] \in Indexed THEN 1 ELSE 0)
<1>1. ReadCycles[o[2]] \in Nat
  BY MemoryKinds DEF ReadCycles, FullModes
<1>2. o[2] \notin {"Implied", "Immediate", "Accumulator", "Relative", "Indirect"}
  BY DEF NoMemory
<1>3. o # <<"JMP", "Absolute">>
  OBVIOUS
<1>4. Modifies(o) => o[1] \in Shifts \cup Counts \cup Combined /\ o[1] \notin Stores
  BY DEF Modifies, WritesMem
<1>5. ~ Modifies(o) => o[1] \notin Shifts \cup Counts \cup Combined /\ (WritesMem(o) <=> o[1] \in Stores)
  BY DEF Modifies, WritesMem, Stores, Shifts, Counts, Combined
<1> QED  BY <1>1, <1>2, <1>3, <1>4, <1>5 DEF Cycles

-----------------------------------------------------------------------------
(* The operand is addressed in both.                                       *)

Uses(o) == ReadsMem(o) \/ o[2] = "Immediate"

\* The operand is modified where one of the processors does not read or write it.
Apart(o, opAdr, page) ==
  Modifies(o) /\ ((o[2] \in Indexed /\ page # Page(opAdr)) \/ ~ Writable(opAdr))
Elsewhere(e) == Apart(e.code, e.opAdr, Page(e.op16))

\* What addresses nothing.
Plain(o) == o[2] \in {"Implied", "Accumulator", "Immediate"}

\* Only one of them reads after the opcode of a shift of A.
Unread(o, pc) == o[2] = "Accumulator" /\ Device(pc)

Aligned(q) == q.code[1] \in Branches \cup {"BRK"} => q.pc = Past(q.opcodePC) /\ IsWord(q.opcodePC)

\* e is the cycle-accurate processor, r the other one, c its cycles before the instruction.
Ready(e, r, c) ==
  /\ Micro(e) /\ Whole(r) /\ Agree(e, r) /\ e.code = r.code /\ e.pc = r.pc /\ Typed(r)
  /\ e.exec = "EXECUTE" /\ e.ex = 0 /\ e.inter = "none" /\ e.rw = "read"
  /\ e.op \in Nat /\ e.cycles \in Nat /\ c \in Nat
  /\ e.data = e.rv /\ IsByte(e.rv) /\ e.adr \in e.reads
  /\ e.cycles + e.op + Steps(e.code) = r.cycles + Cycles(e.code)
  /\ \/ r.cycles = c
     \/ r.cycles = c + 1 /\ AddCycleAtPageBoundary(e.code) /\ e.code[2] \in Indexed
  /\ Plain(e.code) \/ (e.opAdr = r.opAdr /\ IsWord(r.opAdr))
  /\ Elsewhere(e) \/ (Uses(e.code) => r.rv = e.rv)
  /\ Elsewhere(e) \/ Unread(e.code, e.pc) \/ Seen(e.reads, r.reads)
  /\ e.code[2] = "Accumulator" => r.rv = r.a
  /\ e.code[2] = "Relative" => Address(r.opcodePC + 2 + r.op16) = r.opAdr
  /\ e.code[1] = "BRK" => r.pc = Past(r.opcodePC) /\ IsWord(r.opcodePC)

Readied(s, q) ==
  \E t : /\ Leads(AddrHdlr(s), t) /\ t.exec \in {"EXECUTE", "EXECUTE_DIRECTLY"}
         /\ Ready(Prepared(t), ICPU!AddrHdlr(q), q.cycles)

\* The time is that of the table, and one cycle more only where the table allows it.
Timed(o, op, ticks) ==
  /\ ticks \in {0, 1} /\ op + Steps(o) = Cycles(o) + ticks
  /\ ticks = 1 => AddCycleAtPageBoundary(o) /\ o[2] \in Indexed

\* The numbers of cycles are numbers.
LEMMA StepsAndCycles ==
  ASSUME NEW o, MarkedWell(o), o[1] # "JSR"
  PROVE  Steps(o) \in Nat /\ Cycles(o) \in Int
<1>1. Steps(o) \in Nat
  <2>1. CASE o[2] = "Implied"
    <3>1. o[1] \in OneByte
      BY <2>1, ImpliedCycles
    <3>2. OneByteCycles(o[1]) \in Nat /\ OneByteCycles(o[1]) >= 2
      BY <3>1 DEF OneByteCycles, OneByte
    <3> QED  BY <2>1, <3>2 DEF Steps
  <2>2. CASE o[2] # "Implied"
    BY <2>2 DEF Steps, Modifies
  <2> QED  BY <2>1, <2>2
<1>2. CASE o[2] \in {"Implied", "Immediate", "Accumulator", "Relative"}
  BY <1>1, <1>2, ImpliedCycles, ShortCycles
<1>3. CASE o[1] = "JMP"
  <2>1. o[2] \in {"Absolute", "Indirect"}
    <3>1. o[2] \in ModesOf("JMP")
      BY <1>3, Opcode DEF MarkedWell
    <3> QED  BY <3>1 DEF ModesOf, Reads, Combined, Shifts, Counts, Branches, ByteImmediates, OneByte
  <2> QED  BY <1>1, <1>3, <2>1, JumpCycles
<1>4. CASE o[2] \notin NoMemory /\ o[1] # "JMP"
  <2>1. o[2] \in FullModes \cup {"ZeroPage_Y"}
    BY <1>4, MemoryKinds
  <2>2. ReadCycles[o[2]] \in Nat
    BY <2>1 DEF ReadCycles, FullModes
  <2> QED  BY <1>1, <1>4, <2>2, MemoryCycles
<1>5. o[2] = "Indirect" => o[1] = "JMP"
  <2>1. o[1] \in Instructions /\ o[2] \in ModesOf(o[1])
    BY Opcode DEF MarkedWell
  <2> QED  BY <2>1 DEF ModesOf, Instructions, FullModes, Stores
<1> QED  BY <1>1, <1>2, <1>3, <1>4, <1>5 DEF NoMemory

\* Where both processors have the operand: what a path of P6502CC has reached and what
\* P6502IC's handler gave are ready for the same instruction.
LEMMA Joins ==
  ASSUME NEW s, NEW q, Fetched(s, q), MarkedWell(q.code), q.code[1] # "JSR", Aligned(q),
         NEW op \in Nat, NEW opAdr, NEW v, NEW pc, NEW reads, NEW page,
         Arrives(AddrHdlr(s), q, op, opAdr, v, pc, reads, page),
         NEW adr, NEW seen, NEW ticks,
         Result(ICPU!AddrHdlr(q), q, adr, pc, seen, ticks), IsWord(pc), IsByte(v),
         Timed(q.code, op, ticks),
         Plain(q.code) \/ (opAdr = adr /\ IsWord(adr)),
         Apart(q.code, opAdr, page) \/ (Uses(q.code) => ICPU!AddrHdlr(q).rv = v),
         Apart(q.code, opAdr, page) \/ Unread(q.code, pc) \/ Seen(reads, seen),
         q.code[2] = "Accumulator" => ICPU!AddrHdlr(q).rv = q.a,
         q.code[2] = "Relative" => Address(q.opcodePC + 2 + ICPU!AddrHdlr(q).op16) = adr,
         q.code[1] = "BRK" => pc = q.pc
  PROVE  Readied(s, q)
<1> DEFINE r == ICPU!AddrHdlr(q)
<1>1. PICK t : /\ Leads(AddrHdlr(s), t) /\ t.exec \in {"EXECUTE", "EXECUTE_DIRECTLY"}
               /\ Addressed(Prepared(t), q, op, v)
               /\ Prepared(t).opAdr = opAdr /\ Prepared(t).pc = pc /\ Prepared(t).reads = reads
               /\ q.code[2] \in Indexed => Page(Prepared(t).op16) = page
  BY DEF Arrives
<1> DEFINE e == Prepared(t)
<1> HIDE DEF e, r
<1>2. /\ Addressed(e, q, op, v) /\ e.opAdr = opAdr /\ e.pc = pc /\ e.reads = reads
      /\ q.code[2] \in Indexed => Page(e.op16) = page
  BY <1>1 DEF e
<1>3. Result(r, q, adr, pc, seen, ticks)
  BY DEF r
<1>4. /\ Micro(e) /\ Whole(r) /\ Agree(e, r) /\ e.code = r.code /\ e.pc = r.pc
      /\ e.exec = "EXECUTE" /\ e.ex = 0 /\ e.inter = "none" /\ e.rw = "read"
      /\ e.data = e.rv /\ IsByte(e.rv)
  BY <1>2, <1>3 DEF Addressed, Result, Kept, Carried, Agree
<1>4a. e.adr \in e.reads
  <2>1. Micro(e) /\ e.rw = "read"
    BY <1>4
  <2>2. CASE t.rw = "write"
    <3>1. e.rw = "write"
      BY <2>1, <2>2 DEF e, Prepared, Access, Stored, Micro
    <3> QED  BY <2>1, <3>1
  <2>3. CASE t.rw # "write"
    BY <2>1, <2>3 DEF e, Prepared, Access, Micro, Registers
  <2> QED  BY <2>2, <2>3
<1>5. /\ e.op = op /\ e.cycles = q.cycles /\ e.code = q.code /\ q.cycles \in Nat
      /\ r.cycles = q.cycles + ticks
  BY <1>2, <1>3 DEF Addressed, Result, Kept, Fetched, Typed
<1>6. Typed(r)
  <2>1. Agree(r, q) /\ Typed(q) /\ r.pc = pc /\ r.cycles \in Nat
    BY <1>3, <1>5 DEF Result, Carried, Fetched, Timed
  <2> QED  BY <2>1 DEF Typed, TypedMemory, Agree
<1>7. e.op \in Nat /\ e.cycles \in Nat /\ q.cycles \in Nat
  BY <1>5
<1>8. e.cycles + e.op + Steps(e.code) = r.cycles + Cycles(e.code)
  BY <1>5, StepsAndCycles DEF Timed
<1>9. \/ r.cycles = q.cycles
      \/ r.cycles = q.cycles + 1 /\ AddCycleAtPageBoundary(e.code) /\ e.code[2] \in Indexed
  BY <1>5 DEF Timed
<1>10. Elsewhere(e) <=> Apart(q.code, opAdr, page)
  BY <1>2, <1>5 DEF Elsewhere, Apart
<1>11. /\ Plain(e.code) \/ (e.opAdr = r.opAdr /\ IsWord(r.opAdr))
       /\ e.code[2] = "Accumulator" => r.rv = r.a
       /\ e.code[2] = "Relative" => Address(r.opcodePC + 2 + r.op16) = r.opAdr
       /\ e.code[1] = "BRK" => r.pc = Past(r.opcodePC) /\ IsWord(r.opcodePC)
  BY <1>2, <1>3, <1>5 DEF Result, Carried, Agree, Aligned, r
<1>12. /\ Elsewhere(e) \/ (Uses(e.code) => r.rv = e.rv)
       /\ Elsewhere(e) \/ Unread(e.code, e.pc) \/ Seen(e.reads, r.reads)
  BY <1>2, <1>3, <1>5, <1>10 DEF Result, Addressed, r
<1>13. Ready(e, r, q.cycles)
  BY <1>4, <1>4a, <1>6, <1>7, <1>8, <1>9, <1>11, <1>12 DEF Ready
<1> QED  BY <1>1, <1>13 DEF Readied, e, r

\* Sums may be cut to sixteen bits before or after.
LEMMA Wraps ==
  ASSUME NEW a \in Int, NEW b \in Int
  PROVE  Address(a + Address(b)) = Address(a + b)
<1>1. (a + (b % 65536)) % 65536 = (a + b) % 65536
  OBVIOUS
<1> QED  BY <1>1 DEF Address

\* Counting on is adding and cutting.
LEMMA PastPast ==
  ASSUME NEW n \in Int PROVE Past(Past(n)) = Address(n + 2) /\ Past(n) = Address(n + 1)
<1>1. Past(n) = Address(n + 1) /\ \A m : Past(m) = Address(m + 1)
  BY DEF Past, Address
<1>2. Address(n + 1) \in Int
  BY AddressIsWord DEF IsWord
<1>3. Address(1 + Address(n + 1)) = Address(1 + (n + 1))
  BY Wraps
<1>4. 1 + (n + 1) = n + 2 /\ 1 + Address(n + 1) = Address(n + 1) + 1
  BY <1>2
<1> QED  BY <1>1, <1>3, <1>4

\* An offset may be added before or after counting on.
LEMMA WrapsPast ==
  ASSUME NEW a \in Int, NEW n \in Int
  PROVE  /\ Address(a + Past(n)) = Address(a + (n + 1))
         /\ Address(a + Past(Past(n))) = Address(a + (n + 2))
<1>1. n + 1 \in Int /\ n + 2 \in Int
  OBVIOUS
<1>2. Address(a + Address(n + 1)) = Address(a + (n + 1))
  BY <1>1, Wraps
<1>3. Address(a + Address(n + 2)) = Address(a + (n + 2))
  BY <1>1, Wraps
<1>4. Past(Past(n)) = Address(n + 2) /\ Past(n) = Address(n + 1)
  BY PastPast
<1> QED  BY <1>2, <1>3, <1>4

\* An address kept in a page, and one that is in it already.
LEMMA SamePages ==
  ASSUME NEW base, IsWord(base), NEW n \in Int
  PROVE  /\ SamePage(base, Address(n)) = SamePage(base, n)
         /\ Page(SamePage(base, n)) = Page(base)
         /\ IsWord(n) /\ Page(n) = Page(base) => SamePage(base, n) = n
<1>1. SamePage(base, Address(n)) = SamePage(base, n)
  <2>1. (n % 65536) % 256 = n % 256
    OBVIOUS
  <2> QED  BY <2>1 DEF SamePage, Address
<1>2. Page(SamePage(base, n)) = Page(base)
  <2>1. \A h \in Int : \A l \in Nat : l < 256 => (256 * h + l) \div 256 = h
    OBVIOUS
  <2>2. n % 256 \in Nat /\ n % 256 < 256
    BY Remainder
  <2>3. base \div 256 \in Int
    BY PageAndPlace DEF IsByte
  <2> QED  BY <2>1, <2>2, <2>3 DEF SamePage, Page
<1>3. IsWord(n) /\ Page(n) = Page(base) => SamePage(base, n) = n
  <2>1. SamePage(base, n) = Word(Page(base), n % 256)
    BY DEF SamePage, Page, Word
  <2>2. IsWord(n) => n = Word(Page(n), n % 256)
    BY PageAndPlace DEF Page
  <2> QED  BY <2>1, <2>2
<1> QED  BY <1>1, <1>2, <1>3

\* The page boundary is crossed when the pages differ.
LEMMA Crossed ==
  ASSUME NEW a, NEW b PROVE PageBoundaryCrossed(a, b) <=> Page(a) # Page(b)
BY DEF PageBoundaryCrossed, Page

\* A signed byte is a number.
LEMMA SignedIsInt ==
  ASSUME NEW b, IsByte(b) PROVE Signed(b) \in Int
BY DEF IsByte, Signed

\* The mode of the other processor.
LEMMA ICSelects ==
  ASSUME NEW q
  PROVE  /\ q.code[2] = "Implied" => ICPU!AddrHdlr(q) = ICPU!impliedAdrHdlr(q)
         /\ q.code[2] = "Accumulator" => ICPU!AddrHdlr(q) = ICPU!accAdrHdlr(q)
         /\ q.code[2] = "Immediate" => ICPU!AddrHdlr(q) = ICPU!immediateAdrHdlr(q)
         /\ q.code[2] = "Relative" => ICPU!AddrHdlr(q) = ICPU!relativeAdrHdlr(q)
         /\ q.code[2] = "ZeroPage" => ICPU!AddrHdlr(q) = ICPU!ZeroPageIndexed(q, 0)
         /\ q.code[2] = "ZeroPage_X" => ICPU!AddrHdlr(q) = ICPU!ZeroPageIndexed(q, q.x)
         /\ q.code[2] = "ZeroPage_Y" => ICPU!AddrHdlr(q) = ICPU!ZeroPageIndexed(q, q.y)
         /\ q.code[2] = "Absolute" => ICPU!AddrHdlr(q) = ICPU!absoluteAdrHdlr(q)
         /\ q.code[2] = "Absolute_X" => ICPU!AddrHdlr(q) = ICPU!absoluteXAdrHdlr(q)
         /\ q.code[2] = "Absolute_Y" => ICPU!AddrHdlr(q) = ICPU!absoluteYAdrHdlr(q)
         /\ q.code[2] = "Indirect" => ICPU!AddrHdlr(q) = ICPU!indirectAdrHdlr(q)
         /\ q.code[2] = "PreInd_X" => ICPU!AddrHdlr(q) = ICPU!preIndXAdrHdlr(q)
         /\ q.code[2] = "PostInd_Y" => ICPU!AddrHdlr(q) = ICPU!postIndYAdrHdlr(q)
  BY DEF ICPU!AddrHdlr, ICPU!zeroPageAdrHdlr, ICPU!zeroPageXAdrHdlr, ICPU!zeroPageYAdrHdlr

\* What both read as well.
LEMMA SeenAlso ==
  ASSUME NEW f, NEW g, Seen(f, g), NEW h PROVE Seen(f \cup h, g \cup h)
BY DEF Seen

\* Implied and accumulator: both are ready for the instruction.
LEMMA ImpliedReadied ==
  ASSUME NEW s, NEW q, Fetched(s, q), MarkedWell(q.code), q.code[1] # "JSR", Aligned(q),
         q.code[2] \in {"Implied", "Accumulator"}
  PROVE  Readied(s, q)
<1> DEFINE v == Content(q, q.pc)
           reads == s.reads \cup {q.pc}
<1>1. Whole(q) /\ Typed(q) /\ IsWord(q.pc) /\ IsByte(v) /\ Seen(s.reads, q.reads)
  BY ContentIsByte DEF Fetched, Typed, IsWord
<1>2. Arrives(AddrHdlr(s), q, 1, s.opAdr, v, q.pc, reads, 0)
  BY ImpliedMode
<1>3. ~ ReadsMem(q.code) /\ ~ Modifies(q.code) /\ Plain(q.code)
  BY NoMemoryKinds DEF NoMemory, Plain
<1>4. Timed(q.code, 1, 0)
  <2>1. 1 + Steps(q.code) = Cycles(q.code) /\ Cycles(q.code) \in Int
    BY ImpliedCycles, ShortCycles, StepsAndCycles
  <2> QED  BY <2>1 DEF Timed
<1>5. ~ Uses(q.code)
  BY <1>3 DEF Uses
<1> HIDE DEF v
<1>6. CASE q.code[2] = "Implied"
  <2>1. Result(ICPU!AddrHdlr(q), q, q.opAdr, q.pc, q.reads \cup {q.pc}, 0)
    BY <1>1, <1>6, ImpliedResult, ICSelects
  <2>2. Seen(reads, q.reads \cup {q.pc})
    BY <1>1, SeenAlso
  <2> HIDE DEF reads
  <2> QED  BY <1>1, <1>2, <1>3, <1>4, <1>5, <1>6, <2>1, <2>2, Joins
<1>7. CASE q.code[2] = "Accumulator"
  <2>1. Result(ICPU!AddrHdlr(q), q, q.opAdr, q.pc, q.reads, 0) /\ ICPU!AddrHdlr(q).rv = q.a
    BY <1>1, <1>7, AccumulatorResult, ICSelects
  <2>2. Unread(q.code, q.pc) \/ Seen(reads, q.reads)
    BY <1>1, <1>7 DEF Seen, Unread
  <2>3. q.code[1] # "BRK"
    BY <1>7, Opcode DEF MarkedWell, ModesOf, FullModes, Reads, Combined, Shifts, Counts, Branches,
       ByteImmediates, OneByte
  <2> HIDE DEF reads
  <2> QED  BY <1>1, <1>2, <1>3, <1>4, <1>5, <1>7, <2>1, <2>2, <2>3, Joins
<1> QED  BY <1>6, <1>7

\* Immediate: both are ready for the instruction.
LEMMA ImmediateReadied ==
  ASSUME NEW s, NEW q, Fetched(s, q), MarkedWell(q.code), q.code[1] # "JSR", Aligned(q),
         q.code[2] = "Immediate"
  PROVE  Readied(s, q)
<1> DEFINE v == Content(q, q.pc)
           reads == s.reads \cup {q.pc}
           pc == Past(q.pc)
<1>1. Whole(q) /\ Typed(q) /\ IsWord(pc) /\ IsByte(v) /\ Seen(s.reads, q.reads)
  BY ContentIsByte, PastIsWord DEF Fetched, Typed, IsWord
<1>2. Arrives(AddrHdlr(s), q, 1, s.opAdr, v, pc, reads, 0)
  BY ImmediateMode
<1>3. Timed(q.code, 1, 0)
  <2>1. 1 + Steps(q.code) = Cycles(q.code) /\ Cycles(q.code) \in Int
    BY ShortCycles, StepsAndCycles
  <2> QED  BY <2>1 DEF Timed
<1>4. Result(ICPU!AddrHdlr(q), q, q.opAdr, pc, q.reads \cup {q.pc}, 0) /\ ICPU!AddrHdlr(q).rv = v
  BY <1>1, ImmediateResult, ICSelects
<1>5. Seen(reads, q.reads \cup {q.pc})
  BY <1>1, SeenAlso
<1>6. Plain(q.code) /\ q.code[1] # "BRK"
  BY Opcode DEF MarkedWell, Plain, ModesOf, FullModes, Reads, Combined, Shifts, Counts, Branches,
     ByteImmediates, OneByte
<1> HIDE DEF v, reads, pc
<1> QED  BY <1>1, <1>2, <1>3, <1>4, <1>5, <1>6, Joins

\* Relative: both are ready for the branch.
LEMMA RelativeReadied ==
  ASSUME NEW s, NEW q, Fetched(s, q), MarkedWell(q.code), q.code[1] # "JSR", Aligned(q),
         q.code[2] = "Relative"
  PROVE  Readied(s, q)
<1> DEFINE v == Content(q, q.pc)
           reads == s.reads \cup {q.pc}
           pc == Past(q.pc)
           opAdr == Address(Signed(v) + pc)
           r == ICPU!AddrHdlr(q)
<1>1. Whole(q) /\ Typed(q) /\ IsWord(pc) /\ IsByte(v) /\ Seen(s.reads, q.reads) /\ IsWord(q.pc)
  BY ContentIsByte, PastIsWord DEF Fetched, Typed, IsWord
<1>2. Arrives(AddrHdlr(s), q, 1, opAdr, v, pc, reads, 0)
  BY RelativeMode
<1>3. Timed(q.code, 1, 0)
  <2>1. 1 + Steps(q.code) = Cycles(q.code) /\ Cycles(q.code) \in Int
    BY ShortCycles, StepsAndCycles
  <2> QED  BY <2>1 DEF Timed
<1>4. Seen(reads, q.reads \cup {q.pc})
  BY <1>1, SeenAlso
<1>5. q.code[1] \in Branches
  <2>1. q.code[1] \in Instructions /\ "Relative" \in ModesOf(q.code[1])
    BY Opcode DEF MarkedWell
  <2> QED  BY <2>1 DEF ModesOf, Instructions, FullModes, Stores
<1>6. q.code[1] # "BRK" /\ ~ Uses(q.code) /\ IsWord(q.opcodePC) /\ q.pc = Past(q.opcodePC)
  BY <1>5, NoMemoryKinds DEF Branches, NoMemory, Uses, Aligned
<1>7. Signed(v) \in Int /\ q.pc \in Int /\ q.opcodePC \in Int
  BY <1>1, <1>6, SignedIsInt DEF IsWord
<1>8. /\ Address(Signed(v) + q.pc + 1) = opAdr
      /\ Address(q.opcodePC + 2 + Signed(v)) = opAdr
  <2>1. opAdr = Address(Signed(v) + (q.pc + 1))
    BY <1>7, WrapsPast
  <2>2. opAdr = Address(Signed(v) + (q.opcodePC + 2))
    BY <1>6, <1>7, WrapsPast
  <2>3. /\ Signed(v) + (q.pc + 1) = Signed(v) + q.pc + 1
        /\ Signed(v) + (q.opcodePC + 2) = q.opcodePC + 2 + Signed(v)
    BY <1>7
  <2> QED  BY <2>1, <2>2, <2>3
<1>9. /\ Result(r, q, opAdr, pc, q.reads \cup {q.pc}, 0)
      /\ Address(q.opcodePC + 2 + r.op16) = opAdr
  BY <1>1, <1>8, RelativeResult, ICSelects
<1>10. IsWord(opAdr)
  <2>1. Signed(v) + pc \in Int
    BY <1>1, <1>7 DEF IsWord
  <2> QED  BY <2>1, AddressIsWord
<1> HIDE DEF v, reads, pc, opAdr
<1> QED  BY <1>1, <1>2, <1>3, <1>4, <1>6, <1>9, <1>10, Joins

\* The table, for what works on memory.
LEMMA MemoryTimed ==
  ASSUME NEW o, MarkedWell(o), o[2] \notin NoMemory, o[1] \notin {"JMP", "JSR"}
  PROVE  /\ o[2] = "ZeroPage" => Timed(o, IF ReadsMem(o) THEN 2 ELSE 1, 0)
         /\ o[2] \in {"ZeroPage_X", "ZeroPage_Y", "Absolute"} =>
              Timed(o, IF ReadsMem(o) THEN 3 ELSE 2, 0)
         /\ o[2] = "PreInd_X" => Timed(o, IF ReadsMem(o) THEN 5 ELSE 4, 0)
         /\ o[2] \in {"Absolute_X", "Absolute_Y"} =>
              /\ Timed(o, IF Modifies(o) THEN 4 ELSE 3, 0)
              /\ ~ WritesMem(o) => Timed(o, 4, 1)
         /\ o[2] = "PostInd_Y" =>
              /\ Timed(o, IF Modifies(o) THEN 5 ELSE 4, 0)
              /\ ~ WritesMem(o) => Timed(o, 5, 1)
<1>1. \/ ReadsMem(o) /\ ~ WritesMem(o) /\ ~ Modifies(o)
      \/ ReadsMem(o) /\ WritesMem(o) /\ Modifies(o)
      \/ ~ ReadsMem(o) /\ WritesMem(o) /\ ~ Modifies(o)
  BY MemoryKinds
<1>2. Cycles(o) = ReadCycles[o[2]] + (IF Modifies(o) THEN IF o[2] \in Indexed THEN 3 ELSE 2
                                      ELSE IF WritesMem(o) /\ o[2] \in Indexed THEN 1 ELSE 0)
  BY MemoryCycles
<1>3. Steps(o) = IF Modifies(o) THEN 3 ELSE IF WritesMem(o) THEN 2 ELSE 1
  BY DEF Steps, NoMemory
<1>4. o[2] \in Indexed /\ ~ WritesMem(o) => AddCycleAtPageBoundary(o)
  BY <1>1 DEF AddCycleAtPageBoundary
<1>5. /\ ReadCycles["ZeroPage"] = 3 /\ ReadCycles["ZeroPage_X"] = 4 /\ ReadCycles["ZeroPage_Y"] = 4
      /\ ReadCycles["Absolute"] = 4 /\ ReadCycles["Absolute_X"] = 4 /\ ReadCycles["Absolute_Y"] = 4
      /\ ReadCycles["PreInd_X"] = 6 /\ ReadCycles["PostInd_Y"] = 5
  BY DEF ReadCycles, FullModes
<1> QED  BY <1>1, <1>2, <1>3, <1>4, <1>5 DEF Timed, Indexed

\* Zero page: both are ready for the instruction.
LEMMA ZeroPageReadied ==
  ASSUME NEW s, NEW q, Fetched(s, q), MarkedWell(q.code), q.code[1] # "JSR", Aligned(q),
         q.code[2] = "ZeroPage"
  PROVE  Readied(s, q)
<1> DEFINE o == Content(q, q.pc)
           pc == Past(q.pc)
           readsCC == s.reads \cup {q.pc}
           readsIC == (q.reads \cup {q.pc}) \cup {o}
           r == ICPU!AddrHdlr(q)
<1>1. /\ Whole(q) /\ Typed(q) /\ IsWord(pc) /\ IsByte(o) /\ Seen(s.reads, q.reads)
      /\ IsWord(q.pc) /\ IsByte(0)
  BY ContentIsByte, PastIsWord DEF Fetched, Typed, IsWord, IsByte
<1>2. IsWord(o) /\ IsByte(Content(q, o)) /\ Byte(o + 0) = o
  BY <1>1, ContentIsByte, Wrapped DEF Typed, IsByte
<1>3. q.code[1] \notin {"JMP", "BRK"} /\ q.code[2] \notin NoMemory
  BY Opcode DEF MarkedWell, ModesOf, FullModes, Reads, Combined, Shifts, Counts, Branches,
     ByteImmediates, OneByte, Stores, NoMemory
<1>4. /\ Result(r, q, o, pc, IF ReadsMem(q.code) THEN readsIC \cup {o} ELSE readsIC, 0)
      /\ ReadsMem(q.code) => r.rv = Content(q, o)
  <2>1. LET a == Byte(o + 0)
        IN  /\ Result(r, q, a, pc, IF ReadsMem(q.code) THEN readsIC \cup {a} ELSE readsIC, 0)
            /\ ReadsMem(q.code) => r.rv = Content(q, a)
    BY <1>1, ZeroPageIndexedResult, ICSelects
  <2> QED  BY <1>2, <2>1
<1>5. ~ Device(o)
  BY <1>1 DEF Device, IsByte
<1>6. Seen(readsCC, readsIC) /\ Seen(readsCC \cup {o}, readsIC \cup {o})
  BY <1>1, <1>5 DEF Seen
<1>7. CASE ReadsMem(q.code)
  <2>1. Arrives(AddrHdlr(s), q, 2, o, Content(q, o), pc, readsCC \cup {o}, 0)
    BY <1>7, ZeroPageMode
  <2>2. Timed(q.code, 2, 0)
    BY <1>3, <1>7, MemoryTimed
  <2>3. Result(r, q, o, pc, readsIC \cup {o}, 0)
    BY <1>4, <1>7
  <2> HIDE DEF o, pc, readsCC, readsIC
  <2> QED  BY <1>1, <1>2, <1>3, <1>4, <1>6, <1>7, <2>1, <2>2, <2>3, Joins
<1>8. CASE ~ ReadsMem(q.code)
  <2>1. Arrives(AddrHdlr(s), q, 1, o, o, pc, readsCC, 0)
    BY <1>8, ZeroPageMode
  <2>2. Timed(q.code, 1, 0)
    BY <1>3, <1>8, MemoryTimed
  <2>3. Result(r, q, o, pc, readsIC, 0)
    BY <1>4, <1>8
  <2>4. ~ Uses(q.code)
    BY <1>8 DEF Uses
  <2> HIDE DEF o, pc, readsCC, readsIC
  <2> QED  BY <1>1, <1>2, <1>3, <1>6, <2>1, <2>2, <2>3, <2>4, Joins
<1> QED  BY <1>7, <1>8

\* Zero page indexed: both are ready for the instruction.
LEMMA ZeroPageIndexedReadied ==
  ASSUME NEW s, NEW q, Fetched(s, q), MarkedWell(q.code), q.code[1] # "JSR", Aligned(q),
         NEW index, IsByte(index),
         \/ q.code[2] = "ZeroPage_X" /\ index = q.x
         \/ q.code[2] = "ZeroPage_Y" /\ index = q.y
  PROVE  Readied(s, q)
<1> DEFINE o == Content(q, q.pc)
           adr == Byte(o + index)
           pc == Past(q.pc)
           readsCC == (s.reads \cup {q.pc}) \cup {o}
           readsIC == (q.reads \cup {q.pc}) \cup {o}
           r == ICPU!AddrHdlr(q)
<1>1. /\ Whole(q) /\ Typed(q) /\ IsWord(pc) /\ IsByte(o) /\ Seen(s.reads, q.reads) /\ IsWord(q.pc)
  BY ContentIsByte, PastIsWord DEF Fetched, Typed, IsWord, IsByte
<1>2. IsByte(adr)
  BY <1>1, Wrapped DEF IsByte
<1>3. q.code[1] \notin {"JMP", "BRK"} /\ q.code[2] \notin NoMemory
  BY Opcode DEF MarkedWell, ModesOf, FullModes, Reads, Combined, Shifts, Counts, Branches,
     ByteImmediates, OneByte, Stores, NoMemory
<1>4. /\ Result(r, q, adr, pc, IF ReadsMem(q.code) THEN readsIC \cup {adr} ELSE readsIC, 0)
      /\ ReadsMem(q.code) => r.rv = Content(q, adr)
  BY <1>1, ZeroPageIndexedResult, ICSelects
<1>5. Seen(readsCC, readsIC) /\ Seen(readsCC \cup {adr}, readsIC \cup {adr})
  BY <1>1, SeenAlso
<1> HIDE DEF adr
<1>6. IsWord(adr) /\ IsByte(Content(q, adr)) /\ IsByte(Content(q, o))
  BY <1>1, <1>2, ContentIsByte, Wrapped DEF Typed, IsByte
<1>7. CASE ReadsMem(q.code)
  <2>1. Arrives(AddrHdlr(s), q, 3, adr, Content(q, adr), pc, readsCC \cup {adr}, 0)
    BY <1>7, ZeroPageIndexedMode DEF adr
  <2>2. Timed(q.code, 3, 0)
    BY <1>3, <1>7, MemoryTimed
  <2>3. Result(r, q, adr, pc, readsIC \cup {adr}, 0)
    BY <1>4, <1>7
  <2> HIDE DEF o, pc, readsCC, readsIC
  <2> QED  BY <1>1, <1>3, <1>4, <1>5, <1>6, <1>7, <2>1, <2>2, <2>3, Joins
<1>8. CASE ~ ReadsMem(q.code)
  <2>1. Arrives(AddrHdlr(s), q, 2, adr, Content(q, o), pc, readsCC, 0)
    BY <1>8, ZeroPageIndexedMode DEF adr
  <2>2. Timed(q.code, 2, 0)
    BY <1>3, <1>8, MemoryTimed
  <2>3. Result(r, q, adr, pc, readsIC, 0)
    BY <1>4, <1>8
  <2>4. ~ Uses(q.code)
    BY <1>8 DEF Uses
  <2> HIDE DEF o, pc, readsCC, readsIC
  <2> QED  BY <1>1, <1>3, <1>5, <1>6, <2>1, <2>2, <2>3, <2>4, Joins
<1> QED  BY <1>7, <1>8

\* Absolute: both are ready for the instruction.
LEMMA AbsoluteReadied ==
  ASSUME NEW s, NEW q, Fetched(s, q), MarkedWell(q.code), q.code[1] # "JSR", Aligned(q),
         q.code[2] = "Absolute"
  PROVE  Readied(s, q)
<1> DEFINE h == Content(q, Past(q.pc))
           adr == Word(h, Content(q, q.pc))
           pc == Past(Past(q.pc))
           readsCC == (s.reads \cup {q.pc}) \cup {Past(q.pc)}
           readsIC == (q.reads \cup {q.pc}) \cup {Past(q.pc)}
           r == ICPU!AddrHdlr(q)
<1>1. /\ Whole(q) /\ Typed(q) /\ IsWord(pc) /\ IsWord(Past(q.pc)) /\ Seen(s.reads, q.reads)
      /\ IsWord(q.pc)
  BY PastIsWord DEF Fetched, Typed
<1>2. IsByte(h) /\ IsByte(Content(q, q.pc))
  BY <1>1, ContentIsByte DEF Typed, IsWord
<1>3. q.code[1] # "BRK" /\ q.code[2] \notin NoMemory
  BY Opcode DEF MarkedWell, ModesOf, FullModes, Reads, Combined, Shifts, Counts, Branches,
     ByteImmediates, OneByte, Stores, NoMemory
<1>4. /\ Result(r, q, adr, pc, IF ReadsMem(q.code) THEN readsIC \cup {adr} ELSE readsIC, 0)
      /\ ReadsMem(q.code) => r.rv = Content(q, adr)
  BY <1>1, AbsoluteResult, ICSelects
<1>5. Seen(readsCC, readsIC) /\ Seen(readsCC \cup {adr}, readsIC \cup {adr})
  BY <1>1, SeenAlso
<1>6. IsWord(adr)
  BY <1>2, WordOfBytes
<1> HIDE DEF adr
<1>7. CASE ReadsMem(q.code)
  <2>1. Arrives(AddrHdlr(s), q, 3, adr, Content(q, adr), pc, readsCC \cup {adr}, 0)
    BY <1>7, AbsoluteMode DEF adr
  <2>2. Timed(q.code, 3, 0)
    <3>1. q.code[1] # "JMP"
      BY <1>7 DEF ReadsMem
    <3> QED  BY <1>3, <1>7, <3>1, MemoryTimed
  <2>3. Result(r, q, adr, pc, readsIC \cup {adr}, 0)
    BY <1>4, <1>7
  <2>4. IsByte(Content(q, adr))
    BY <1>1, <1>6, ContentIsByte DEF Typed, IsWord
  <2> HIDE DEF h, pc, readsCC, readsIC
  <2> QED  BY <1>1, <1>3, <1>4, <1>5, <1>6, <1>7, <2>1, <2>2, <2>3, <2>4, Joins
<1>8. CASE ~ ReadsMem(q.code)
  <2>1. Arrives(AddrHdlr(s), q, 2, adr, h, pc, readsCC, 0)
    BY <1>8, AbsoluteMode DEF adr
  <2>2. Timed(q.code, 2, 0)
    <3>1. CASE q.code[1] = "JMP"
      <4>1. 2 + Steps(q.code) = Cycles(q.code) /\ Cycles(q.code) \in Int
        BY <3>1, JumpCycles, StepsAndCycles
      <4> QED  BY <4>1 DEF Timed
    <3>2. CASE q.code[1] # "JMP"
      BY <1>3, <1>8, <3>2, MemoryTimed
    <3> QED  BY <3>1, <3>2
  <2>3. Result(r, q, adr, pc, readsIC, 0)
    BY <1>4, <1>8
  <2>4. ~ Uses(q.code)
    BY <1>8 DEF Uses
  <2> HIDE DEF h, pc, readsCC, readsIC
  <2> QED  BY <1>1, <1>2, <1>3, <1>5, <1>6, <2>1, <2>2, <2>3, <2>4, Joins
<1> QED  BY <1>7, <1>8

\* Indirect: both are ready for JMP.
LEMMA IndirectReadied ==
  ASSUME NEW s, NEW q, Fetched(s, q), MarkedWell(q.code), q.code[1] # "JSR", Aligned(q),
         q.code[2] = "Indirect"
  PROVE  Readied(s, q)
<1> DEFINE at == Word(Content(q, Past(q.pc)), Content(q, q.pc))
           next == SamePage(at, at + 1)
           adr == Word(Content(q, next), Content(q, at))
           pc == Past(Past(q.pc))
           readsCC == (((s.reads \cup {q.pc}) \cup {Past(q.pc)}) \cup {at}) \cup {next}
           readsIC == (((q.reads \cup {q.pc}) \cup {Past(q.pc)}) \cup {at}) \cup {next}
           r == ICPU!AddrHdlr(q)
<1>1. /\ Whole(q) /\ Typed(q) /\ IsWord(pc) /\ IsWord(Past(q.pc)) /\ Seen(s.reads, q.reads)
      /\ IsWord(q.pc)
  BY PastIsWord DEF Fetched, Typed
<1>2. IsWord(adr) /\ IsByte(Content(q, next))
  <2>1. IsByte(Content(q, Past(q.pc))) /\ IsByte(Content(q, q.pc))
    BY <1>1, ContentIsByte DEF Typed, IsWord
  <2>2. IsWord(at)
    BY <2>1, WordOfBytes
  <2> HIDE DEF at
  <2>3. at + 1 \in Int
    BY <2>2 DEF IsWord
  <2>4. IsWord(next)
    BY <2>2, <2>3, SamePageIsWord
  <2> HIDE DEF next
  <2>5. IsByte(Content(q, next)) /\ IsByte(Content(q, at))
    BY <1>1, <2>2, <2>4, ContentIsByte DEF Typed, IsWord
  <2> QED  BY <2>5, WordOfBytes
<1>3. q.code[1] = "JMP"
  <2>1. q.code[1] \in Instructions /\ "Indirect" \in ModesOf(q.code[1])
    BY Opcode DEF MarkedWell
  <2> QED  BY <2>1 DEF ModesOf, Instructions, FullModes, Stores
<1>4. Result(r, q, adr, pc, readsIC, 0)
  BY <1>1, IndirectResult, ICSelects
<1>5. Seen(readsCC, readsIC)
  BY <1>1, SeenAlso
<1>6. Arrives(AddrHdlr(s), q, 4, adr, Content(q, next), pc, readsCC, 0)
  BY IndirectMode
<1>7. Timed(q.code, 4, 0)
  <2>1. 4 + Steps(q.code) = Cycles(q.code) /\ Cycles(q.code) \in Int
    BY <1>3, JumpCycles, StepsAndCycles
  <2> QED  BY <2>1 DEF Timed
<1>8. ~ Uses(q.code)
  BY <1>3, JumpCycles DEF Uses
<1> HIDE DEF at, next, adr, pc, readsCC, readsIC
<1> QED  BY <1>1, <1>2, <1>3, <1>4, <1>5, <1>6, <1>7, <1>8, Joins

\* Indexed indirect: both are ready for the instruction.
LEMMA PreIndXReadied ==
  ASSUME NEW s, NEW q, Fetched(s, q), MarkedWell(q.code), q.code[1] # "JSR", Aligned(q),
         q.code[2] = "PreInd_X"
  PROVE  Readied(s, q)
<1> DEFINE o == Content(q, q.pc)
           look == Byte(o + q.x)
           next == Byte(look + 1)
           adr == Word(Content(q, next), Content(q, look))
           pc == Past(q.pc)
           readsCC == (((s.reads \cup {q.pc}) \cup {o}) \cup {look}) \cup {next}
           readsIC == (((q.reads \cup {q.pc}) \cup {o}) \cup {look}) \cup {next}
           r == ICPU!AddrHdlr(q)
<1>1. /\ Whole(q) /\ Typed(q) /\ IsWord(pc) /\ Seen(s.reads, q.reads) /\ IsWord(q.pc)
  BY PastIsWord DEF Fetched, Typed
<1>2. IsByte(Content(q, next)) /\ IsWord(adr)
  <2>1. IsByte(o)
    BY <1>1, ContentIsByte DEF IsWord, Typed
  <2>2. IsByte(look)
    BY <1>1, <2>1, Wrapped DEF IsByte, Typed
  <2> HIDE DEF look
  <2>3. IsByte(next)
    BY <2>2, Wrapped DEF IsByte
  <2> HIDE DEF next
  <2>4. IsByte(Content(q, next)) /\ IsByte(Content(q, look))
    BY <1>1, <2>2, <2>3, ContentIsByte DEF IsByte, Typed
  <2> QED  BY <2>4, WordOfBytes
<1>3. q.code[1] \notin {"JMP", "BRK"} /\ q.code[2] \notin NoMemory
  BY Opcode DEF MarkedWell, ModesOf, FullModes, Reads, Combined, Shifts, Counts, Branches,
     ByteImmediates, OneByte, Stores, NoMemory
<1>4. /\ Result(r, q, adr, pc, IF ReadsMem(q.code) THEN readsIC \cup {adr} ELSE readsIC, 0)
      /\ ReadsMem(q.code) => r.rv = Content(q, adr)
  BY <1>1, PreIndXResult, ICSelects
<1>5. Seen(readsCC, readsIC) /\ Seen(readsCC \cup {adr}, readsIC \cup {adr})
  BY <1>1, SeenAlso
<1>6. /\ ReadsMem(q.code) => Arrives(AddrHdlr(s), q, 5, adr, Content(q, adr), pc, readsCC \cup {adr}, 0)
      /\ ~ ReadsMem(q.code) => Arrives(AddrHdlr(s), q, 4, adr, Content(q, next), pc, readsCC, 0)
  BY PreIndXMode
<1> HIDE DEF o, look, next, adr, pc, readsCC, readsIC
<1>7. CASE ReadsMem(q.code)
  <2>2. Timed(q.code, 5, 0)
    BY <1>3, <1>7, MemoryTimed
  <2>3. Result(r, q, adr, pc, readsIC \cup {adr}, 0)
    BY <1>4, <1>7
  <2>4. IsByte(Content(q, adr))
    BY <1>1, <1>2, ContentIsByte DEF Typed, IsWord
  <2> QED  BY <1>1, <1>2, <1>3, <1>4, <1>5, <1>6, <1>7, <2>2, <2>3, <2>4, Joins
<1>8. CASE ~ ReadsMem(q.code)
  <2>2. Timed(q.code, 4, 0)
    BY <1>3, <1>8, MemoryTimed
  <2>3. Result(r, q, adr, pc, readsIC, 0)
    BY <1>4, <1>8
  <2>4. ~ Uses(q.code)
    BY <1>8 DEF Uses
  <2> QED  BY <1>1, <1>2, <1>3, <1>5, <1>6, <1>8, <2>2, <2>3, <2>4, Joins
<1> QED  BY <1>7, <1>8

\* An indexed mode with a carry: both have made the same reads of devices and are charged the
\* same, or the operand is one they modify in different places.
LEMMA IndexedReadied ==
  ASSUME NEW s, NEW q, Fetched(s, q), MarkedWell(q.code), q.code[1] # "JSR", Aligned(q),
         q.code[2] \in Indexed,
         NEW op \in Nat, NEW base, IsWord(base), NEW adr, IsWord(adr),
         NEW same, IsWord(same), same = SamePage(base, adr),
         NEW pc, IsWord(pc), NEW readsCC, NEW readsIC, Seen(readsCC, readsIC), same \in readsIC,
         IF ReadsMem(q.code) /\ (WritesMem(q.code) \/ Page(adr) # Page(base))
         THEN Arrives(AddrHdlr(s), q, op + 1, adr, Content(q, adr), pc, readsCC \cup {adr}, Page(base))
         ELSE Arrives(AddrHdlr(s), q, op, adr, Content(q, same), pc, readsCC, Page(base)),
         LET r == ICPU!AddrHdlr(q)
         IN  IF Carries(q.code, base, adr)
             THEN Result(r, q, adr, pc, readsIC \cup {adr}, 1) /\ r.rv = Content(q, adr)
             ELSE Result(r, q, adr, pc, readsIC, 0) /\ r.rv = Content(q, same),
         Timed(q.code, IF Modifies(q.code) THEN op + 1 ELSE op, 0),
         ~ WritesMem(q.code) => Timed(q.code, op + 1, 1)
  PROVE  Readied(s, q)
<1> DEFINE r == ICPU!AddrHdlr(q)
<1>1. q.code[1] \notin {"JMP", "BRK"} /\ q.code[2] \notin NoMemory /\ q.code[2] # "Relative"
      /\ q.code[2] # "Accumulator"
  BY Opcode DEF MarkedWell, ModesOf, FullModes, Reads, Combined, Shifts, Counts, Branches,
     ByteImmediates, OneByte, Stores, NoMemory, Indexed
<1>2. \/ ReadsMem(q.code) /\ ~ WritesMem(q.code) /\ ~ Modifies(q.code)
      \/ ReadsMem(q.code) /\ WritesMem(q.code) /\ Modifies(q.code)
      \/ ~ ReadsMem(q.code) /\ WritesMem(q.code) /\ ~ Modifies(q.code)
  BY <1>1, MemoryKinds
<1>3. Carries(q.code, base, adr) <=>
        ReadsMem(q.code) /\ ~ WritesMem(q.code) /\ Page(adr) # Page(base)
  BY <1>1, Crossed DEF Carries, AddCycleAtPageBoundary, NoMemory
<1>4. IsByte(Content(q, adr)) /\ IsByte(Content(q, same))
  BY ContentIsByte DEF Fetched, Typed, IsWord
<1>5. op + 1 \in Nat
  OBVIOUS
<1>6. Seen(readsCC \cup {adr}, readsIC \cup {adr})
  BY SeenAlso
<1> HIDE DEF r
<1>7. CASE ReadsMem(q.code) /\ ~ WritesMem(q.code) /\ ~ Modifies(q.code)
  <2>1. CASE Page(adr) # Page(base)
    <3>1. /\ Result(r, q, adr, pc, readsIC \cup {adr}, 1) /\ r.rv = Content(q, adr)
          /\ Timed(q.code, op + 1, 1)
          /\ Arrives(AddrHdlr(s), q, op + 1, adr, Content(q, adr), pc, readsCC \cup {adr}, Page(base))
      BY <1>3, <1>7, <2>1 DEF r
    <3> QED  BY <1>1, <1>4, <1>5, <1>6, <3>1, Joins DEF r
  <2>2. CASE Page(adr) = Page(base)
    <3>1. /\ Result(r, q, adr, pc, readsIC, 0) /\ r.rv = Content(q, same)
          /\ Timed(q.code, op, 0)
          /\ Arrives(AddrHdlr(s), q, op, adr, Content(q, same), pc, readsCC, Page(base))
      BY <1>3, <1>7, <2>2 DEF r
    <3> QED  BY <1>1, <1>4, <3>1, Joins DEF r
  <2> QED  BY <2>1, <2>2
<1>8. CASE ReadsMem(q.code) /\ WritesMem(q.code) /\ Modifies(q.code)
  <2>1. /\ Result(r, q, adr, pc, readsIC, 0) /\ r.rv = Content(q, same)
        /\ Timed(q.code, op + 1, 0)
        /\ Arrives(AddrHdlr(s), q, op + 1, adr, Content(q, adr), pc, readsCC \cup {adr}, Page(base))
    BY <1>3, <1>8 DEF r
  <2>2. CASE Page(adr) # Page(base)
    <3>1. Apart(q.code, adr, Page(base))
      BY <1>8, <2>2 DEF Apart
    <3> QED  BY <1>1, <1>4, <1>5, <2>1, <3>1, Joins DEF r
  <2>3. CASE Page(adr) = Page(base)
    <3>1. same = adr
      BY <2>3, SamePages DEF IsWord
    <3>2. readsIC = readsIC \cup {adr}
      BY <3>1
    <3>3. Seen(readsCC \cup {adr}, readsIC)
      BY <1>6, <3>2
    <3> QED  BY <1>1, <1>4, <1>5, <2>1, <3>1, <3>3, Joins DEF r
  <2> QED  BY <2>2, <2>3
<1>9. CASE ~ ReadsMem(q.code) /\ WritesMem(q.code) /\ ~ Modifies(q.code)
  <2>1. /\ Result(r, q, adr, pc, readsIC, 0)
        /\ Timed(q.code, op, 0)
        /\ Arrives(AddrHdlr(s), q, op, adr, Content(q, same), pc, readsCC, Page(base))
    BY <1>3, <1>9 DEF r
  <2>2. ~ Uses(q.code)
    BY <1>1, <1>9 DEF Uses, NoMemory
  <2> QED  BY <1>1, <1>4, <2>1, <2>2, Joins DEF r
<1> QED  BY <1>2, <1>7, <1>8, <1>9

\* Absolute indexed: both are ready for the instruction.
LEMMA AbsoluteIndexedReadied ==
  ASSUME NEW s, NEW q, Fetched(s, q), MarkedWell(q.code), q.code[1] # "JSR", Aligned(q),
         NEW index, IsByte(index),
         \/ q.code[2] = "Absolute_X" /\ index = q.x
         \/ q.code[2] = "Absolute_Y" /\ index = q.y
  PROVE  Readied(s, q)
<1> DEFINE base == Word(Content(q, Past(q.pc)), Content(q, q.pc))
           pc == Past(Past(q.pc))
           adr == Address(base + index)
           same == SamePage(base, adr)
           readsCC == ((s.reads \cup {q.pc}) \cup {Past(q.pc)}) \cup {same}
           readsIC == ((q.reads \cup {q.pc}) \cup {Past(q.pc)}) \cup {same}
           r == ICPU!AddrHdlr(q)
<1>1. /\ Whole(q) /\ Typed(q) /\ IsWord(pc) /\ IsWord(Past(q.pc)) /\ Seen(s.reads, q.reads)
      /\ IsWord(q.pc)
  BY PastIsWord DEF Fetched, Typed
<1>2. IsWord(base) /\ IsWord(adr) /\ IsWord(same) /\ same = SamePage(base, base + index)
  <2>1. IsByte(Content(q, Past(q.pc))) /\ IsByte(Content(q, q.pc))
    BY <1>1, ContentIsByte DEF Typed, IsWord
  <2>2. IsWord(base)
    BY <2>1, WordOfBytes
  <2> HIDE DEF base
  <2>3. base + index \in Int
    BY <2>2 DEF IsWord, IsByte
  <2>4. IsWord(adr)
    BY <2>3, AddressIsWord
  <2>5. same = SamePage(base, base + index)
    BY <2>2, <2>3, SamePages
  <2> QED  BY <2>2, <2>3, <2>4, <2>5, SamePageIsWord
<1>3. q.code[1] \notin {"JMP"} /\ q.code[2] \notin NoMemory /\ q.code[2] \in Indexed
  BY Opcode DEF MarkedWell, ModesOf, FullModes, Reads, Combined, Shifts, Counts, Branches,
     ByteImmediates, OneByte, Stores, NoMemory, Indexed
<1>4. IF Carries(q.code, base, adr)
      THEN Result(r, q, adr, pc, readsIC \cup {adr}, 1) /\ r.rv = Content(q, adr)
      ELSE Result(r, q, adr, pc, readsIC, 0) /\ r.rv = Content(q, same)
  <2>1. r = LET t == ICPU!Operand16(q) IN ICPU!Indexed16(t, t.op16, index)
    <3>1. CASE q.code[2] = "Absolute_X" /\ index = q.x
      <4>1. ICPU!Operand16(q).x = q.x
        BY <1>1, Operand16Result DEF Carried, Agree
      <4> QED  BY <3>1, <4>1, ICSelects DEF ICPU!absoluteXAdrHdlr
    <3>2. CASE q.code[2] = "Absolute_Y" /\ index = q.y
      <4>1. ICPU!Operand16(q).y = q.y
        BY <1>1, Operand16Result DEF Carried, Agree
      <4> QED  BY <3>2, <4>1, ICSelects DEF ICPU!absoluteYAdrHdlr
    <3> QED  BY <3>1, <3>2
  <2> QED  BY <1>1, <1>2, <2>1, AbsoluteIndexedResult
<1>5. Seen(readsCC, readsIC) /\ same \in readsIC
  BY <1>1, SeenAlso
<1>6. \/ ReadsMem(q.code) /\ ~ WritesMem(q.code) /\ ~ Modifies(q.code)
      \/ ReadsMem(q.code) /\ WritesMem(q.code) /\ Modifies(q.code)
      \/ ~ ReadsMem(q.code) /\ WritesMem(q.code) /\ ~ Modifies(q.code)
  BY <1>3, MemoryKinds
<1>7. IF Only(q.code, adr, base) \/ OnlyWrites(q.code)
      THEN Arrives(AddrHdlr(s), q, 3, adr, Content(q, same), pc, readsCC, Page(base))
      ELSE Arrives(AddrHdlr(s), q, 4, adr, Content(q, adr), pc, readsCC \cup {adr}, Page(base))
  BY AbsoluteIndexedMode
<1>8. /\ Timed(q.code, IF Modifies(q.code) THEN 3 + 1 ELSE 3, 0)
      /\ ~ WritesMem(q.code) => Timed(q.code, 3 + 1, 1)
  BY <1>3, MemoryTimed
<1> HIDE DEF base, pc, adr, same, readsCC, readsIC
<1>9. IF ReadsMem(q.code) /\ (WritesMem(q.code) \/ Page(adr) # Page(base))
      THEN Arrives(AddrHdlr(s), q, 3 + 1, adr, Content(q, adr), pc, readsCC \cup {adr}, Page(base))
      ELSE Arrives(AddrHdlr(s), q, 3, adr, Content(q, same), pc, readsCC, Page(base))
  BY <1>6, <1>7, Crossed DEF Only, OnlyWrites
<1>10. same = SamePage(base, adr)
  BY DEF same
<1> QED  BY <1>1, <1>2, <1>3, <1>4, <1>5, <1>8, <1>9, <1>10, IndexedReadied

\* Indirect indexed: both are ready for the instruction.
LEMMA PostIndYReadied ==
  ASSUME NEW s, NEW q, Fetched(s, q), MarkedWell(q.code), q.code[1] # "JSR", Aligned(q),
         q.code[2] = "PostInd_Y"
  PROVE  Readied(s, q)
<1> DEFINE o == Content(q, q.pc)
           next == Byte(o + 1)
           base == Word(Content(q, next), Content(q, o))
           pc == Past(q.pc)
           adr == Address(base + q.y)
           same == SamePage(base, base + q.y)
           readsCC == (((s.reads \cup {q.pc}) \cup {o}) \cup {next}) \cup {same}
           readsIC == (((q.reads \cup {q.pc}) \cup {o}) \cup {next}) \cup {same}
           r == ICPU!AddrHdlr(q)
<1>1. /\ Whole(q) /\ Typed(q) /\ IsWord(pc) /\ Seen(s.reads, q.reads) /\ IsWord(q.pc)
      /\ IsByte(q.y)
  BY PastIsWord DEF Fetched, Typed
<1>2. /\ IsWord(base) /\ IsWord(adr) /\ IsWord(same) /\ same = SamePage(base, adr)
      /\ Page(same) = Page(base)
  <2>1. IsByte(o)
    BY <1>1, ContentIsByte DEF IsWord, Typed
  <2>2. IsByte(next)
    BY <2>1, Wrapped DEF IsByte
  <2> HIDE DEF next
  <2>3. IsByte(Content(q, next)) /\ IsByte(Content(q, o))
    BY <1>1, <2>1, <2>2, ContentIsByte DEF IsByte, Typed
  <2>4. IsWord(base)
    BY <2>3, WordOfBytes
  <2> HIDE DEF base
  <2>5. base + q.y \in Int
    BY <1>1, <2>4 DEF IsWord, IsByte
  <2>6. IsWord(adr)
    BY <2>5, AddressIsWord
  <2>7. same = SamePage(base, adr) /\ Page(same) = Page(base)
    BY <2>4, <2>5, SamePages
  <2> QED  BY <2>4, <2>5, <2>6, <2>7, SamePageIsWord
<1>3. q.code[1] \notin {"JMP"} /\ q.code[2] \notin NoMemory /\ q.code[2] \in Indexed
  BY Opcode DEF MarkedWell, ModesOf, FullModes, Reads, Combined, Shifts, Counts, Branches,
     ByteImmediates, OneByte, Stores, NoMemory, Indexed
<1>4. IF Carries(q.code, base, adr)
      THEN Result(r, q, adr, pc, readsIC \cup {adr}, 1) /\ r.rv = Content(q, adr)
      ELSE Result(r, q, adr, pc, readsIC, 0) /\ r.rv = Content(q, same)
  BY <1>1, PostIndYResult, ICSelects
<1>5. Seen(readsCC, readsIC) /\ same \in readsIC
  BY <1>1, SeenAlso
<1>7. IF Again(q.code, adr, same)
      THEN Arrives(AddrHdlr(s), q, 5, adr, Content(q, adr), pc, readsCC \cup {adr}, Page(same))
      ELSE Arrives(AddrHdlr(s), q, 4, adr, Content(q, same), pc, readsCC, Page(same))
  BY PostIndYMode
<1>8. /\ Timed(q.code, IF Modifies(q.code) THEN 4 + 1 ELSE 4, 0)
      /\ ~ WritesMem(q.code) => Timed(q.code, 4 + 1, 1)
  BY <1>3, MemoryTimed
<1> HIDE DEF o, next, base, pc, adr, same, readsCC, readsIC
<1>9. IF ReadsMem(q.code) /\ (WritesMem(q.code) \/ Page(adr) # Page(base))
      THEN Arrives(AddrHdlr(s), q, 4 + 1, adr, Content(q, adr), pc, readsCC \cup {adr}, Page(base))
      ELSE Arrives(AddrHdlr(s), q, 4, adr, Content(q, same), pc, readsCC, Page(base))
  BY <1>2, <1>7, Crossed DEF Again
<1> QED  BY <1>1, <1>2, <1>3, <1>4, <1>5, <1>8, <1>9, IndexedReadied

\* Every instruction but JSR, which reads its operand itself.
LEMMA ModeReadied ==
  ASSUME NEW s, NEW q, Fetched(s, q), MarkedWell(q.code), q.code[1] # "JSR", Aligned(q)
  PROVE  Readied(s, q)
<1>1. q.code[2] \in {"Implied", "Accumulator", "Immediate", "Relative", "Indirect"}
        \cup FullModes \cup {"ZeroPage_Y"}
  BY MemoryKinds, Opcode DEF MarkedWell, NoMemory, ModesOf, FullModes
<1>2. IsByte(q.x) /\ IsByte(q.y)
  BY DEF Fetched, Typed
<1> QED  BY <1>1, <1>2, ImpliedReadied, ImmediateReadied, RelativeReadied, IndirectReadied,
            ZeroPageReadied, ZeroPageIndexedReadied, AbsoluteReadied, AbsoluteIndexedReadied,
            PreIndXReadied, PostIndYReadied DEF FullModes

-----------------------------------------------------------------------------
\* The status sr with the flag of the mask set to the bit x.
With(sr, mask, x) == sr + mask * (x - Bit(sr, mask))
AsBit(b) == IF b THEN 1 ELSE 0

\* A status register with a flag set or cleared is a byte.
LEMMA WithIsByte ==
  ASSUME NEW sr, IsByte(sr), NEW x \in {0, 1}
  PROVE  /\ IsByte(With(sr, N, x)) /\ IsByte(With(sr, V, x)) /\ IsByte(With(sr, D, x))
         /\ IsByte(With(sr, I, x)) /\ IsByte(With(sr, Z, x)) /\ IsByte(With(sr, C, x))
<1>1. ASSUME NEW m \in {1, 2, 4, 8, 64, 128} PROVE IsByte(With(sr, m, x))
  <2>1. CASE m = 128
    BY <2>1 DEF IsByte, With, Bit
  <2>2. CASE m = 64
    BY <2>2 DEF IsByte, With, Bit
  <2>3. CASE m = 8
    BY <2>3 DEF IsByte, With, Bit
  <2>4. CASE m = 4
    BY <2>4 DEF IsByte, With, Bit
  <2>5. CASE m = 2
    BY <2>5 DEF IsByte, With, Bit
  <2>6. CASE m = 1
    BY <2>6 DEF IsByte, With, Bit
  <2> QED  BY <2>1, <2>2, <2>3, <2>4, <2>5, <2>6
<1> QED  BY <1>1 DEF N, V, D, I, Z, C

\* What no instruction changes but those that write.
Rest(t, s) ==
  /\ t.ram = s.ram /\ t.writes = s.writes /\ t.b1 = s.b1 /\ t.b2 = s.b2 /\ t.seed = s.seed
  /\ t.code = s.code /\ t.cycles = s.cycles /\ t.reads = s.reads
  /\ t.opAdr = s.opAdr /\ t.op16 = s.op16

Both(e, r) ==
  Micro(e) /\ Whole(r) /\ Agree(e, r) /\ e.code = r.code /\ e.pc = r.pc /\ Typed(r)

\* t is what e, and u what r, becomes when the registers are set alike.
Worked(t, u, e, r) ==
  /\ Micro(t) /\ Rest(t, e) /\ t.op = e.op /\ t.ex = e.ex /\ t.inter = e.inter
  /\ Whole(u) /\ Rest(u, r)
  /\ t.a = u.a /\ t.x = u.x /\ t.y = u.y /\ t.sp = u.sp /\ t.sr = u.sr /\ t.pc = u.pc
  /\ IsByte(u.a) /\ IsByte(u.x) /\ IsByte(u.y) /\ IsByte(u.sp) /\ IsByte(u.sr) /\ IsWord(u.pc)

Sets(t, s, a, x, y, sp, sr, pc) ==
  /\ Rest(t, s)
  /\ t.a = a /\ t.x = x /\ t.y = y /\ t.sp = sp /\ t.sr = sr /\ t.pc = pc
SetsMicro(t, e, a, x, y, sp, sr, pc) ==
  Micro(t) /\ t.op = e.op /\ t.ex = e.ex /\ t.inter = e.inter /\ Sets(t, e, a, x, y, sp, sr, pc)
SetsWhole(u, r, a, x, y, sp, sr, pc) == Whole(u) /\ Sets(u, r, a, x, y, sp, sr, pc)

\* Registers set alike in both leave them alike.
LEMMA SetsBoth ==
  ASSUME NEW e, NEW r, NEW t, NEW u, NEW a, NEW x, NEW y, NEW sp, NEW sr, NEW pc,
         SetsMicro(t, e, a, x, y, sp, sr, pc), SetsWhole(u, r, a, x, y, sp, sr, pc),
         IsByte(a), IsByte(x), IsByte(y), IsByte(sp), IsByte(sr), IsWord(pc)
  PROVE  Worked(t, u, e, r)
BY DEF SetsMicro, SetsWhole, Sets, Worked

NZ(sr, v) == With(With(sr, N, AsBit(v >= 128)), Z, AsBit(v = 0))

\* N and Z set in a status register.
LEMMA NZIsByte ==
  ASSUME NEW sr, IsByte(sr), NEW v PROVE IsByte(NZ(sr, v))
<1>1. AsBit(v >= 128) \in {0, 1} /\ AsBit(v = 0) \in {0, 1}
  BY DEF AsBit
<1>2. IsByte(With(sr, N, AsBit(v >= 128)))
  BY <1>1, WithIsByte
<1> QED  BY <1>1, <1>2, WithIsByte DEF NZ

\* The two modules' operators on bits are the same.
LEMMA SharedBits ==
  /\ \A x, y : ICPU!And(x, y) = And(x, y)
  /\ \A x, y : ICPU!Or(x, y) = Or(x, y)
  /\ \A x, y : ICPU!Xor(x, y) = Xor(x, y)
  /\ \A sr, v : ICPU!Restored(sr, v) = Restored(sr, v)
<1>1. /\ \A x, y : ICPU!And(x, y) = And(x, y)
      /\ \A x, y : ICPU!Or(x, y) = Or(x, y)
      /\ \A x, y : ICPU!Xor(x, y) = Xor(x, y)
  BY DEF ICPU!And, And, ICPU!Or, Or, ICPU!Xor, Xor, ICPU!Bitwise, Bitwise, ICPU!Flag, Flag,
     ICPU!Bit, Bit
<1>2. \A sr, v : ICPU!Restored(sr, v) = Restored(sr, v)
  BY <1>1 DEF ICPU!Restored, Restored, ICPU!B5, B5
<1> QED  BY <1>1, <1>2

\* And, Or and Xor give bytes.
LEMMA BitsAreBytes ==
  ASSUME NEW x, NEW y
  PROVE  IsByte(And(x, y)) /\ IsByte(Or(x, y)) /\ IsByte(Xor(x, y))
<1>1. IsByte(And(x, y))
  BY DEF And, Bitwise, IsByte
<1>2. IsByte(Or(x, y))
  BY DEF Or, Bitwise, IsByte
<1>3. IsByte(Xor(x, y))
  BY DEF Xor, Bitwise, IsByte
<1> QED  BY <1>1, <1>2, <1>3

\* The flags N, Z, V and C from their bits.
Flags(sr, n, z, v, c) == With(With(With(With(sr, N, n), Z, z), V, v), C, c)
NZC(sr, v, c) == With(NZ(sr, v), C, c)

\* N, Z, V and C set in a status register.
LEMMA FlagsIsByte ==
  ASSUME NEW sr, IsByte(sr), NEW n \in {0, 1}, NEW z \in {0, 1}, NEW v \in {0, 1}, NEW c \in {0, 1}
  PROVE  IsByte(Flags(sr, n, z, v, c))
<1>1. IsByte(With(sr, N, n))
  BY WithIsByte
<1>2. IsByte(With(With(sr, N, n), Z, z))
  BY <1>1, WithIsByte
<1>3. IsByte(With(With(With(sr, N, n), Z, z), V, v))
  BY <1>2, WithIsByte
<1> QED  BY <1>3, WithIsByte DEF Flags

\* N, Z and C set in a status register.
LEMMA NZCIsByte ==
  ASSUME NEW sr, IsByte(sr), NEW v, NEW c \in {0, 1} PROVE IsByte(NZC(sr, v, c))
BY NZIsByte, WithIsByte DEF NZC

\* Nothing is set yet.
LEMMA SetsNothing ==
  ASSUME NEW s
  PROVE  /\ Micro(s) => SetsMicro(s, s, s.a, s.x, s.y, s.sp, s.sr, s.pc)
         /\ Whole(s) => SetsWhole(s, s, s.a, s.x, s.y, s.sp, s.sr, s.pc)
BY DEF SetsMicro, SetsWhole, Sets, Rest

\* P6502CC: one register more is set.
LEMMA SetsOne ==
  ASSUME NEW t, NEW s, NEW a, NEW x, NEW y, NEW sp, NEW sr, NEW pc, NEW v,
         SetsMicro(t, s, a, x, y, sp, sr, pc)
  PROVE  /\ SetsMicro([t EXCEPT !.a = v], s, v, x, y, sp, sr, pc)
         /\ SetsMicro([t EXCEPT !.x = v], s, a, v, y, sp, sr, pc)
         /\ SetsMicro([t EXCEPT !.y = v], s, a, x, v, sp, sr, pc)
         /\ SetsMicro([t EXCEPT !.sp = v], s, a, x, y, v, sr, pc)
         /\ SetsMicro([t EXCEPT !.sr = v], s, a, x, y, sp, v, pc)
         /\ SetsMicro([t EXCEPT !.pc = v], s, a, x, y, sp, sr, v)
BY DEF SetsMicro, Sets, Rest, Micro, Registers

\* P6502IC: one register more is set.
LEMMA SetsOneWhole ==
  ASSUME NEW t, NEW s, NEW a, NEW x, NEW y, NEW sp, NEW sr, NEW pc, NEW v,
         SetsWhole(t, s, a, x, y, sp, sr, pc)
  PROVE  /\ SetsWhole([t EXCEPT !.a = v], s, v, x, y, sp, sr, pc)
         /\ SetsWhole([t EXCEPT !.x = v], s, a, v, y, sp, sr, pc)
         /\ SetsWhole([t EXCEPT !.y = v], s, a, x, v, sp, sr, pc)
         /\ SetsWhole([t EXCEPT !.sp = v], s, a, x, y, v, sr, pc)
         /\ SetsWhole([t EXCEPT !.sr = v], s, a, x, y, sp, v, pc)
         /\ SetsWhole([t EXCEPT !.pc = v], s, a, x, y, sp, sr, v)
BY DEF SetsWhole, Sets, Rest, Whole, Registers

\* What both hold before an instruction is executed.
LEMMA BothHold ==
  ASSUME NEW e, NEW r, Both(e, r)
  PROVE  /\ SetsMicro(e, e, r.a, r.x, r.y, r.sp, r.sr, r.pc)
         /\ SetsWhole(r, r, r.a, r.x, r.y, r.sp, r.sr, r.pc)
         /\ IsByte(r.a) /\ IsByte(r.x) /\ IsByte(r.y) /\ IsByte(r.sp) /\ IsByte(r.sr)
         /\ IsWord(r.pc)
BY SetsNothing DEF Both, Agree, Typed

\* The flags as each of the processors sets them.
LEMMA FlagsSet ==
  ASSUME NEW s, Registers(s), NEW v, NEW c
  PROVE  /\ setNZflags(s, v) = [s EXCEPT !.sr = NZ(s.sr, v)]
         /\ ICPU!setNZflags(s, v) = [s EXCEPT !.sr = NZ(s.sr, v)]
BY DEF Registers, setNZflags, SetFlag, NZ, With, AsBit, ICPU!setNZflags, ICPU!SetFlag,
   ICPU!Bit, ICPU!N, ICPU!Z, Bit, N, Z

Status(s, sr) == [s EXCEPT !.sr = sr]

\* setNZCflags() of both processors.
LEMMA CarrySet ==
  ASSUME NEW s, Registers(s), NEW v, NEW c
  PROVE  /\ setNZCflags(s, v, c) = Status(Status(s, NZ(s.sr, v)), NZC(s.sr, v, AsBit(c)))
         /\ ICPU!setNZCflags(s, v, c) = Status(Status(s, NZ(s.sr, v)), NZC(s.sr, v, AsBit(c)))
<1> DEFINE t == Status(s, NZ(s.sr, v))
<1>1. setNZflags(s, v) = t /\ ICPU!setNZflags(s, v) = t /\ t.sr = NZ(s.sr, v)
  BY FlagsSet DEF Registers, Status
<1> HIDE DEF t
<1>2. /\ setNZCflags(s, v, c) = Status(t, NZC(s.sr, v, AsBit(c)))
      /\ ICPU!setNZCflags(s, v, c) = Status(t, NZC(s.sr, v, AsBit(c)))
  BY <1>1 DEF setNZCflags, SetFlag, NZC, With, AsBit, ICPU!setNZCflags, ICPU!SetFlag,
     ICPU!Bit, ICPU!C, Bit, C, Status
<1> QED  BY <1>2 DEF t

\* What is left of an instruction once t is to be followed by the next opcode.
Closes(t, u, e, r, ticks) ==
  /\ Micro(t) /\ Whole(u) /\ Agree(t, u) /\ Typed(u) /\ t.pc = u.pc /\ t.inter = "none"
  /\ t.code = e.code /\ u.code = r.code
  /\ t.op = e.op /\ t.cycles = e.cycles /\ u.cycles = r.cycles + ticks
  /\ t.ex \in Nat /\ t.ex + 1 = Steps(e.code) + ticks
  /\ ticks \in 0 .. 2 /\ (ticks # 0 => e.code[2] = "Relative")
  /\ Unread(e.code, u.pc) \/ Seen(t.reads, u.reads)

\* The next opcode is to be read; u has not charged the cycles of the table yet.
Finished(f, u, c, o) ==
  /\ f.exec = "FETCH_OPCODE" /\ f.code = o
  /\ \/ Elsewhere(f)
     \/ /\ Micro(f) /\ Whole(u) /\ Agree(f, u) /\ Typed(u)
        /\ f.inter = "none" /\ f.rw = "read" /\ f.adr = u.pc /\ f.pc = Past(u.pc)
        /\ f.cycles \in Nat /\ f.cycles = u.cycles + Cycles(f.code)
        /\ u.cycles - c \in IF AddCycleAtPageBoundary(f.code) THEN 0 .. 2 ELSE {0}
        /\ Unread(f.code, u.pc) \/ Seen(f.reads, u.reads)

\* An instruction that ends alike in both has finished alike.
LEMMA Closing ==
  ASSUME NEW e, NEW r, NEW c, NEW t, NEW u, NEW ticks,
         Ready(e, r, c), MarkedWell(e.code), e.code[1] # "JSR", Closes(t, u, e, r, ticks)
  PROVE  Finished(Done(t), u, c, e.code)
<1> DEFINE f == Done(t)
<1>1. /\ Micro(f) /\ f.exec = "FETCH_OPCODE" /\ f.code = t.code /\ f.inter = t.inter
      /\ f.rw = "read" /\ f.adr = Address(t.pc) /\ f.pc = Past(t.pc)
      /\ f.reads = t.reads /\ f.cycles = t.cycles + t.op + (t.ex + 1)
  BY DEF Closes, Micro, Registers, Done, NextEx, initFetch, prepMemRead, Past, Address
<1>2. Agree(f, t)
  BY DEF Closes, Micro, Registers, Done, NextEx, initFetch, prepMemRead, Agree
<1> HIDE DEF f
<1>3. Address(t.pc) = u.pc
  <2>1. IsWord(u.pc) /\ t.pc = u.pc
    BY DEF Closes, Typed
  <2>2. u.pc \in Int
    BY <2>1 DEF IsWord
  <2> QED  BY <2>1, <2>2, Wrapped DEF Address
<1>4. /\ e.op \in Nat /\ e.cycles \in Nat /\ c \in Nat /\ Steps(e.code) \in Nat
      /\ Cycles(e.code) \in Int
      /\ t.ex \in Nat /\ ticks \in 0 .. 2
      /\ e.cycles + e.op + Steps(e.code) = r.cycles + Cycles(e.code)
      /\ t.ex + 1 = Steps(e.code) + ticks /\ t.op = e.op /\ t.cycles = e.cycles
      /\ u.cycles = r.cycles + ticks /\ u.cycles \in Nat
      /\ r.cycles \in Nat
  BY StepsAndCycles DEF Ready, Closes, Typed
<1>5. f.cycles \in Nat /\ f.cycles = u.cycles + Cycles(e.code)
  BY <1>1, <1>4
<1>6. u.cycles - c \in IF AddCycleAtPageBoundary(e.code) THEN 0 .. 2 ELSE {0}
  <2>1. e.code[2] = "Relative" => AddCycleAtPageBoundary(e.code) /\ e.code[2] \notin Indexed
    BY DEF AddCycleAtPageBoundary, Indexed
  <2>2. /\ ticks # 0 => e.code[2] = "Relative"
        /\ \/ r.cycles = c
           \/ r.cycles = c + 1 /\ AddCycleAtPageBoundary(e.code) /\ e.code[2] \in Indexed
    BY DEF Closes, Ready
  <2> QED  BY <1>4, <2>1, <2>2
<1>7. /\ t.code = e.code /\ u.code = e.code /\ t.pc = u.pc /\ t.inter = "none"
      /\ Whole(u) /\ Agree(t, u) /\ Typed(u)
      /\ Unread(e.code, u.pc) \/ Seen(t.reads, u.reads)
  BY DEF Closes, Ready
<1>8. Agree(f, u)
  BY <1>2, <1>7 DEF Agree
<1> QED  BY <1>1, <1>3, <1>5, <1>6, <1>7, <1>8 DEF Finished, f

Executed(e, r, c) == \E f : Leads(ExecHdlr(e), f) /\ Finished(f, ICPU!ExecHdlr(r), c, e.code)

\* An instruction that ends in its first execution cycle.
LEMMA EndsAtOnce ==
  ASSUME NEW e, NEW r, NEW c, NEW t, NEW u,
         Ready(e, r, c), MarkedWell(e.code), e.code[1] # "JSR", Steps(e.code) = 1,
         ~ Modifies(e.code),
         Worked(t, u, e, r), u.pc = r.pc \/ e.code[2] # "Accumulator",
         ExecHdlr(e) = Done(t), ICPU!ExecHdlr(r) = u
  PROVE  Executed(e, r, c)
<1>1. Agree(t, u)
  BY DEF Worked, Ready, Agree, Rest
<1>2. Typed(u)
  BY DEF Worked, Ready, Typed, TypedMemory, Rest
<1>3. Unread(e.code, u.pc) \/ Seen(t.reads, u.reads)
  <2>1. ~ Elsewhere(e)
    BY DEF Elsewhere, Apart
  <2>2. Unread(e.code, e.pc) \/ Seen(t.reads, u.reads)
    BY <2>1 DEF Ready, Worked, Rest
  <2>3. Unread(e.code, e.pc) => u.pc = e.pc
    BY DEF Unread, Ready
  <2> QED  BY <2>2, <2>3
<1>4. r.cycles + 0 = r.cycles
  BY DEF Ready, Typed
<1>5. /\ e.ex = 0 /\ e.inter = "none" /\ 0 + 1 = Steps(e.code) + 0
  BY DEF Ready
<1>6. Closes(t, u, e, r, 0)
  <2>1. /\ Micro(t) /\ Whole(u) /\ t.pc = u.pc /\ t.inter = "none" /\ t.code = e.code
        /\ u.code = r.code
        /\ t.op = e.op /\ t.cycles = e.cycles /\ t.ex = 0
    BY <1>5 DEF Worked, Rest
  <2>2. u.cycles = r.cycles + 0 /\ t.ex \in Nat /\ t.ex + 1 = Steps(e.code) + 0
    BY <1>4, <2>1 DEF Worked, Rest
  <2> QED  BY <1>1, <1>2, <1>3, <2>1, <2>2 DEF Closes
<1>7. Finished(Done(t), u, c, e.code)
  BY <1>6, Closing
<1> QED  BY <1>7, LeadsNowhere DEF Executed

\* Both execute the instruction at once, and alike.
Alike(e, r) == \E t : Worked(t, ICPU!ExecHdlr(r), e, r) /\ ExecHdlr(e) = Done(t)

\* What is left but for the flags, t0 in one and u0 in the other, is alike.
Set(t0, u0, e, r, sr) ==
  \E a, x, y, sp, pc :
    /\ SetsMicro(t0, e, a, x, y, sp, sr, pc) /\ SetsWhole(u0, r, a, x, y, sp, sr, pc)
    /\ IsByte(a) /\ IsByte(x) /\ IsByte(y) /\ IsByte(sp) /\ IsByte(sr) /\ IsWord(pc)

\* What has been set alike is alike.
LEMMA SetWorked ==
  ASSUME NEW e, NEW r, NEW t, NEW u, NEW sr, Set(t, u, e, r, sr)
  PROVE  Worked(t, u, e, r) /\ Registers(t) /\ Registers(u) /\ t.sr = sr /\ u.sr = sr /\ IsByte(sr)
<1>1. PICK a, x, y, sp, pc :
        /\ SetsMicro(t, e, a, x, y, sp, sr, pc) /\ SetsWhole(u, r, a, x, y, sp, sr, pc)
        /\ IsByte(a) /\ IsByte(x) /\ IsByte(y) /\ IsByte(sp) /\ IsByte(sr) /\ IsWord(pc)
  BY DEF Set
<1>2. Worked(t, u, e, r)
  BY <1>1, SetsBoth
<1> QED  BY <1>1, <1>2 DEF SetsMicro, SetsWhole, Sets, Micro, Whole

\* A status register set alike.
LEMMA SetFlags ==
  ASSUME NEW e, NEW r, NEW t, NEW u, NEW old, Set(t, u, e, r, old), NEW sr, IsByte(sr)
  PROVE  Set([t EXCEPT !.sr = sr], [u EXCEPT !.sr = sr], e, r, sr)
<1>1. PICK a, x, y, sp, pc :
        /\ SetsMicro(t, e, a, x, y, sp, old, pc) /\ SetsWhole(u, r, a, x, y, sp, old, pc)
        /\ IsByte(a) /\ IsByte(x) /\ IsByte(y) /\ IsByte(sp) /\ IsWord(pc)
  BY DEF Set
<1>2. /\ SetsMicro([t EXCEPT !.sr = sr], e, a, x, y, sp, sr, pc)
      /\ SetsWhole([u EXCEPT !.sr = sr], r, a, x, y, sp, sr, pc)
  BY <1>1, SetsOne, SetsOneWhole
<1> QED  BY <1>1, <1>2 DEF Set

\* A register set alike.
LEMMA SetRegister ==
  ASSUME NEW e, NEW r, NEW t, NEW u, NEW sr, Set(t, u, e, r, sr), NEW v
  PROVE  /\ IsByte(v) => /\ Set([t EXCEPT !.a = v], [u EXCEPT !.a = v], e, r, sr)
                         /\ Set([t EXCEPT !.x = v], [u EXCEPT !.x = v], e, r, sr)
                         /\ Set([t EXCEPT !.y = v], [u EXCEPT !.y = v], e, r, sr)
                         /\ Set([t EXCEPT !.sp = v], [u EXCEPT !.sp = v], e, r, sr)
         /\ IsWord(v) => Set([t EXCEPT !.pc = v], [u EXCEPT !.pc = v], e, r, sr)
<1>1. PICK a, x, y, sp, pc :
        /\ SetsMicro(t, e, a, x, y, sp, sr, pc) /\ SetsWhole(u, r, a, x, y, sp, sr, pc)
        /\ IsByte(a) /\ IsByte(x) /\ IsByte(y) /\ IsByte(sp) /\ IsByte(sr) /\ IsWord(pc)
  BY DEF Set
<1>2. /\ SetsMicro([t EXCEPT !.a = v], e, v, x, y, sp, sr, pc)
      /\ SetsMicro([t EXCEPT !.x = v], e, a, v, y, sp, sr, pc)
      /\ SetsMicro([t EXCEPT !.y = v], e, a, x, v, sp, sr, pc)
      /\ SetsMicro([t EXCEPT !.sp = v], e, a, x, y, v, sr, pc)
      /\ SetsMicro([t EXCEPT !.pc = v], e, a, x, y, sp, sr, v)
  BY <1>1, SetsOne
<1>3. /\ SetsWhole([u EXCEPT !.a = v], r, v, x, y, sp, sr, pc)
      /\ SetsWhole([u EXCEPT !.x = v], r, a, v, y, sp, sr, pc)
      /\ SetsWhole([u EXCEPT !.y = v], r, a, x, v, sp, sr, pc)
      /\ SetsWhole([u EXCEPT !.sp = v], r, a, x, y, v, sr, pc)
      /\ SetsWhole([u EXCEPT !.pc = v], r, a, x, y, sp, sr, v)
  BY <1>1, SetsOneWhole
<1> QED  BY <1>1, <1>2, <1>3 DEF Set

\* Before anything is set the two are alike.
LEMMA SetItself ==
  ASSUME NEW e, NEW r, Both(e, r) PROVE Set(e, r, e, r, r.sr)
BY BothHold DEF Set

\* Instructions that set N and Z last.
LEMMA NZAlike ==
  ASSUME NEW e, NEW r, Both(e, r), NEW t, NEW u, Set(t, u, e, r, r.sr), NEW v,
         ExecHdlr(e) = Done(setNZflags(t, v)), ICPU!ExecHdlr(r) = ICPU!setNZflags(u, v)
  PROVE  Alike(e, r)
<1> DEFINE sr == NZ(r.sr, v)
<1>1. /\ Registers(t) /\ Registers(u) /\ t.sr = r.sr /\ u.sr = r.sr
      /\ IsByte(sr)
  BY SetWorked, NZIsByte
<1>2. setNZflags(t, v) = [t EXCEPT !.sr = sr] /\ ICPU!setNZflags(u, v) = [u EXCEPT !.sr = sr]
  BY <1>1, FlagsSet
<1> HIDE DEF sr
<1>3. Set([t EXCEPT !.sr = sr], [u EXCEPT !.sr = sr], e, r, sr)
  BY <1>1, SetFlags
<1>4. Worked([t EXCEPT !.sr = sr], [u EXCEPT !.sr = sr], e, r)
  BY <1>3, SetWorked
<1> QED  BY <1>2, <1>4 DEF Alike

\* Instructions that set N, Z and C last.
LEMMA CarryAlike ==
  ASSUME NEW e, NEW r, Both(e, r), NEW t, NEW u, Set(t, u, e, r, r.sr), NEW v, NEW c,
         ExecHdlr(e) = Done(setNZCflags(t, v, c)), ICPU!ExecHdlr(r) = ICPU!setNZCflags(u, v, c)
  PROVE  Alike(e, r)
<1> DEFINE nz == NZ(r.sr, v)
           sr == NZC(r.sr, v, AsBit(c))
<1>1. Registers(t) /\ Registers(u) /\ t.sr = r.sr /\ u.sr = r.sr /\ IsByte(nz) /\ IsByte(sr)
  <2>1. Registers(t) /\ Registers(u) /\ t.sr = r.sr /\ u.sr = r.sr /\ IsByte(r.sr)
    BY SetWorked
  <2>2. AsBit(c) \in {0, 1}
    BY DEF AsBit
  <2> QED  BY <2>1, <2>2, NZIsByte, NZCIsByte
<1>2. /\ setNZCflags(t, v, c) = Status(Status(t, nz), sr)
      /\ ICPU!setNZCflags(u, v, c) = Status(Status(u, nz), sr)
  BY <1>1, CarrySet
<1> HIDE DEF nz, sr
<1>3. Set(Status(t, nz), Status(u, nz), e, r, nz)
  BY <1>1, SetFlags DEF Status
<1>4. Set(Status(Status(t, nz), sr), Status(Status(u, nz), sr), e, r, sr)
  <2> DEFINE t1 == Status(t, nz)
             u1 == Status(u, nz)
  <2> HIDE DEF t1, u1
  <2>1. Set(t1, u1, e, r, nz)
    BY <1>3 DEF t1, u1
  <2>2. Set(Status(t1, sr), Status(u1, sr), e, r, sr)
    BY <1>1, <2>1, SetFlags DEF Status
  <2> QED  BY <2>2 DEF t1, u1
<1>5. Worked(Status(Status(t, nz), sr), Status(Status(u, nz), sr), e, r)
  BY <1>4, SetWorked
<1> QED  BY <1>2, <1>5 DEF Alike

\* Instructions that load a register.
LEMMA LoadAlike ==
  ASSUME NEW e, NEW r, Both(e, r), NEW v, IsByte(v),
         \/ ExecHdlr(e) = LoadA(e, v) /\ ICPU!ExecHdlr(r) = ICPU!LoadA(r, v)
         \/ ExecHdlr(e) = LoadX(e, v) /\ ICPU!ExecHdlr(r) = ICPU!LoadX(r, v)
         \/ ExecHdlr(e) = LoadY(e, v) /\ ICPU!ExecHdlr(r) = ICPU!LoadY(r, v)
  PROVE  Alike(e, r)
<1>1. Set(e, r, e, r, r.sr)
  BY SetItself
<1>2. /\ Set([e EXCEPT !.a = v], [r EXCEPT !.a = v], e, r, r.sr)
      /\ Set([e EXCEPT !.x = v], [r EXCEPT !.x = v], e, r, r.sr)
      /\ Set([e EXCEPT !.y = v], [r EXCEPT !.y = v], e, r, r.sr)
  BY <1>1, SetRegister
<1>3. CASE ExecHdlr(e) = LoadA(e, v) /\ ICPU!ExecHdlr(r) = ICPU!LoadA(r, v)
  BY <1>2, <1>3, NZAlike DEF LoadA, ICPU!LoadA
<1>4. CASE ExecHdlr(e) = LoadX(e, v) /\ ICPU!ExecHdlr(r) = ICPU!LoadX(r, v)
  BY <1>2, <1>4, NZAlike DEF LoadX, ICPU!LoadX
<1>5. CASE ExecHdlr(e) = LoadY(e, v) /\ ICPU!ExecHdlr(r) = ICPU!LoadY(r, v)
  BY <1>2, <1>5, NZAlike DEF LoadY, ICPU!LoadY
<1> QED  BY <1>3, <1>4, <1>5

\* LDA, LDX, LDY, AND, EOR and ORA.
LEMMA LoadsAlike ==
  ASSUME NEW e, NEW r, Both(e, r), NEW i, e.code[1] = i, e.rv = r.rv, IsByte(r.rv),
         i \in {"LDA", "LDX", "LDY", "AND", "EOR", "ORA"}
  PROVE  Alike(e, r)
<1>0. r.code[1] = i /\ e.a = r.a /\ e.x = r.x /\ e.y = r.y /\ e.sp = r.sp
  BY DEF Both, Agree
<1>1. /\ i = "LDA" => ExecHdlr(e) = LDAExecHdlr(e)
      /\ i = "LDX" => ExecHdlr(e) = LDXExecHdlr(e)
      /\ i = "LDY" => ExecHdlr(e) = LDYExecHdlr(e)
      /\ i = "AND" => ExecHdlr(e) = ANDExecHdlr(e)
      /\ i = "EOR" => ExecHdlr(e) = EORExecHdlr(e)
      /\ i = "ORA" => ExecHdlr(e) = ORAExecHdlr(e)
  BY ZenonT(30) DEF ExecHdlr
<1>2. /\ i = "LDA" => ICPU!ExecHdlr(r) = ICPU!LDAExecHdlr(r)
      /\ i = "LDX" => ICPU!ExecHdlr(r) = ICPU!LDXExecHdlr(r)
      /\ i = "LDY" => ICPU!ExecHdlr(r) = ICPU!LDYExecHdlr(r)
      /\ i = "AND" => ICPU!ExecHdlr(r) = ICPU!ANDExecHdlr(r)
      /\ i = "EOR" => ICPU!ExecHdlr(r) = ICPU!EORExecHdlr(r)
      /\ i = "ORA" => ICPU!ExecHdlr(r) = ICPU!ORAExecHdlr(r)
  BY <1>0, ZenonT(30) DEF ICPU!ExecHdlr
<1>3. /\ LDAExecHdlr(e) = LoadA(e, r.rv)
      /\ LDXExecHdlr(e) = LoadX(e, r.rv)
      /\ LDYExecHdlr(e) = LoadY(e, r.rv)
      /\ ANDExecHdlr(e) = LoadA(e, And(r.a, r.rv))
      /\ EORExecHdlr(e) = LoadA(e, Xor(r.a, r.rv))
      /\ ORAExecHdlr(e) = LoadA(e, Or(r.a, r.rv))
  BY <1>0 DEF LDAExecHdlr, LDXExecHdlr, LDYExecHdlr, ANDExecHdlr, EORExecHdlr, ORAExecHdlr
<1>4. /\ ICPU!LDAExecHdlr(r) = ICPU!LoadA(r, r.rv)
      /\ ICPU!LDXExecHdlr(r) = ICPU!LoadX(r, r.rv)
      /\ ICPU!LDYExecHdlr(r) = ICPU!LoadY(r, r.rv)
      /\ ICPU!ANDExecHdlr(r) = ICPU!LoadA(r, And(r.a, r.rv))
      /\ ICPU!EORExecHdlr(r) = ICPU!LoadA(r, Xor(r.a, r.rv))
      /\ ICPU!ORAExecHdlr(r) = ICPU!LoadA(r, Or(r.a, r.rv))
  BY SharedBits, SharedMemory DEF ICPU!LDAExecHdlr, ICPU!LDXExecHdlr, ICPU!LDYExecHdlr,
     ICPU!ANDExecHdlr, ICPU!EORExecHdlr, ICPU!ORAExecHdlr
<1>5. IsByte(And(r.a, r.rv)) /\ IsByte(Or(r.a, r.rv)) /\ IsByte(Xor(r.a, r.rv)) /\ IsByte(r.rv)
  BY BitsAreBytes DEF Both, Typed, IsByte
<1>6. CASE i = "LDA"
  <2>1. ExecHdlr(e) = LoadA(e, r.rv) /\ ICPU!ExecHdlr(r) = ICPU!LoadA(r, r.rv)
    BY <1>1, <1>2, <1>3, <1>4, <1>6
  <2> QED  BY <1>5, <2>1, LoadAlike
<1>7. CASE i = "LDX"
  <2>1. ExecHdlr(e) = LoadX(e, r.rv) /\ ICPU!ExecHdlr(r) = ICPU!LoadX(r, r.rv)
    BY <1>1, <1>2, <1>3, <1>4, <1>7
  <2> QED  BY <1>5, <2>1, LoadAlike
<1>8. CASE i = "LDY"
  <2>1. ExecHdlr(e) = LoadY(e, r.rv) /\ ICPU!ExecHdlr(r) = ICPU!LoadY(r, r.rv)
    BY <1>1, <1>2, <1>3, <1>4, <1>8
  <2> QED  BY <1>5, <2>1, LoadAlike
<1>9. CASE i = "AND"
  <2>1. ExecHdlr(e) = LoadA(e, And(r.a, r.rv)) /\ ICPU!ExecHdlr(r) = ICPU!LoadA(r, And(r.a, r.rv))
    BY <1>1, <1>2, <1>3, <1>4, <1>9
  <2> QED  BY <1>5, <2>1, LoadAlike
<1>10. CASE i = "EOR"
  <2>1. ExecHdlr(e) = LoadA(e, Xor(r.a, r.rv)) /\ ICPU!ExecHdlr(r) = ICPU!LoadA(r, Xor(r.a, r.rv))
    BY <1>1, <1>2, <1>3, <1>4, <1>10
  <2> QED  BY <1>5, <2>1, LoadAlike
<1>11. CASE i = "ORA"
  <2>1. ExecHdlr(e) = LoadA(e, Or(r.a, r.rv)) /\ ICPU!ExecHdlr(r) = ICPU!LoadA(r, Or(r.a, r.rv))
    BY <1>1, <1>2, <1>3, <1>4, <1>11
  <2> QED  BY <1>5, <2>1, LoadAlike
<1> QED  BY <1>6, <1>7, <1>8, <1>9, <1>10, <1>11

\* The transfers and counts of registers.
LEMMA MovesAlike ==
  ASSUME NEW e, NEW r, Both(e, r), NEW i, e.code[1] = i,
         i \in {"TAX", "TAY", "TSX", "TXA", "TYA", "DEX", "DEY", "INX", "INY"}
  PROVE  Alike(e, r)
<1>0. r.code[1] = i /\ e.a = r.a /\ e.x = r.x /\ e.y = r.y /\ e.sp = r.sp
  BY DEF Both, Agree
<1>1. /\ i = "TAX" => ExecHdlr(e) = TAXExecHdlr(e)
      /\ i = "TAY" => ExecHdlr(e) = TAYExecHdlr(e)
      /\ i = "TSX" => ExecHdlr(e) = TSXExecHdlr(e)
      /\ i = "TXA" => ExecHdlr(e) = TXAExecHdlr(e)
      /\ i = "TYA" => ExecHdlr(e) = TYAExecHdlr(e)
      /\ i = "DEX" => ExecHdlr(e) = DEXExecHdlr(e)
      /\ i = "DEY" => ExecHdlr(e) = DEYExecHdlr(e)
      /\ i = "INX" => ExecHdlr(e) = INXExecHdlr(e)
      /\ i = "INY" => ExecHdlr(e) = INYExecHdlr(e)
  BY ZenonT(30) DEF ExecHdlr
<1>2. /\ i = "TAX" => ICPU!ExecHdlr(r) = ICPU!TAXExecHdlr(r)
      /\ i = "TAY" => ICPU!ExecHdlr(r) = ICPU!TAYExecHdlr(r)
      /\ i = "TSX" => ICPU!ExecHdlr(r) = ICPU!TSXExecHdlr(r)
      /\ i = "TXA" => ICPU!ExecHdlr(r) = ICPU!TXAExecHdlr(r)
      /\ i = "TYA" => ICPU!ExecHdlr(r) = ICPU!TYAExecHdlr(r)
      /\ i = "DEX" => ICPU!ExecHdlr(r) = ICPU!DEXExecHdlr(r)
      /\ i = "DEY" => ICPU!ExecHdlr(r) = ICPU!DEYExecHdlr(r)
      /\ i = "INX" => ICPU!ExecHdlr(r) = ICPU!INXExecHdlr(r)
      /\ i = "INY" => ICPU!ExecHdlr(r) = ICPU!INYExecHdlr(r)
  BY <1>0, ZenonT(30) DEF ICPU!ExecHdlr
<1>3. /\ TAXExecHdlr(e) = LoadX(e, r.a)
      /\ TAYExecHdlr(e) = LoadY(e, r.a)
      /\ TSXExecHdlr(e) = LoadX(e, r.sp)
      /\ TXAExecHdlr(e) = LoadA(e, r.x)
      /\ TYAExecHdlr(e) = LoadA(e, r.y)
      /\ DEXExecHdlr(e) = LoadX(e, Byte(r.x - 1))
      /\ DEYExecHdlr(e) = LoadY(e, Byte(r.y - 1))
      /\ INXExecHdlr(e) = LoadX(e, Byte(r.x + 1))
      /\ INYExecHdlr(e) = LoadY(e, Byte(r.y + 1))
  BY <1>0 DEF TAXExecHdlr, TAYExecHdlr, TSXExecHdlr, TXAExecHdlr, TYAExecHdlr, DEXExecHdlr,
     DEYExecHdlr, INXExecHdlr, INYExecHdlr
<1>4. /\ ICPU!TAXExecHdlr(r) = ICPU!LoadX(r, r.a)
      /\ ICPU!TAYExecHdlr(r) = ICPU!LoadY(r, r.a)
      /\ ICPU!TSXExecHdlr(r) = ICPU!LoadX(r, r.sp)
      /\ ICPU!TXAExecHdlr(r) = ICPU!LoadA(r, r.x)
      /\ ICPU!TYAExecHdlr(r) = ICPU!LoadA(r, r.y)
      /\ ICPU!DEXExecHdlr(r) = ICPU!LoadX(r, Byte(r.x - 1))
      /\ ICPU!DEYExecHdlr(r) = ICPU!LoadY(r, Byte(r.y - 1))
      /\ ICPU!INXExecHdlr(r) = ICPU!LoadX(r, Byte(r.x + 1))
      /\ ICPU!INYExecHdlr(r) = ICPU!LoadY(r, Byte(r.y + 1))
  BY SharedBits, SharedMemory DEF ICPU!TAXExecHdlr, ICPU!TAYExecHdlr, ICPU!TSXExecHdlr,
     ICPU!TXAExecHdlr, ICPU!TYAExecHdlr, ICPU!DEXExecHdlr, ICPU!DEYExecHdlr, ICPU!INXExecHdlr, ICPU!INYExecHdlr
<1>5. /\ IsByte(Byte(r.x + 1)) /\ IsByte(Byte(r.x - 1)) /\ IsByte(Byte(r.y + 1))
      /\ IsByte(Byte(r.y - 1)) /\ IsByte(r.a) /\ IsByte(r.sp) /\ IsByte(r.x) /\ IsByte(r.y)
  BY Wrapped DEF Both, Typed, IsByte
<1>6. CASE i = "TAX"
  <2>1. ExecHdlr(e) = LoadX(e, r.a) /\ ICPU!ExecHdlr(r) = ICPU!LoadX(r, r.a)
    BY <1>1, <1>2, <1>3, <1>4, <1>6
  <2> QED  BY <1>5, <2>1, LoadAlike
<1>7. CASE i = "TAY"
  <2>1. ExecHdlr(e) = LoadY(e, r.a) /\ ICPU!ExecHdlr(r) = ICPU!LoadY(r, r.a)
    BY <1>1, <1>2, <1>3, <1>4, <1>7
  <2> QED  BY <1>5, <2>1, LoadAlike
<1>8. CASE i = "TSX"
  <2>1. ExecHdlr(e) = LoadX(e, r.sp) /\ ICPU!ExecHdlr(r) = ICPU!LoadX(r, r.sp)
    BY <1>1, <1>2, <1>3, <1>4, <1>8
  <2> QED  BY <1>5, <2>1, LoadAlike
<1>9. CASE i = "TXA"
  <2>1. ExecHdlr(e) = LoadA(e, r.x) /\ ICPU!ExecHdlr(r) = ICPU!LoadA(r, r.x)
    BY <1>1, <1>2, <1>3, <1>4, <1>9
  <2> QED  BY <1>5, <2>1, LoadAlike
<1>10. CASE i = "TYA"
  <2>1. ExecHdlr(e) = LoadA(e, r.y) /\ ICPU!ExecHdlr(r) = ICPU!LoadA(r, r.y)
    BY <1>1, <1>2, <1>3, <1>4, <1>10
  <2> QED  BY <1>5, <2>1, LoadAlike
<1>11. CASE i = "DEX"
  <2>1. ExecHdlr(e) = LoadX(e, Byte(r.x - 1)) /\ ICPU!ExecHdlr(r) = ICPU!LoadX(r, Byte(r.x - 1))
    BY <1>1, <1>2, <1>3, <1>4, <1>11
  <2> QED  BY <1>5, <2>1, LoadAlike
<1>12. CASE i = "DEY"
  <2>1. ExecHdlr(e) = LoadY(e, Byte(r.y - 1)) /\ ICPU!ExecHdlr(r) = ICPU!LoadY(r, Byte(r.y - 1))
    BY <1>1, <1>2, <1>3, <1>4, <1>12
  <2> QED  BY <1>5, <2>1, LoadAlike
<1>13. CASE i = "INX"
  <2>1. ExecHdlr(e) = LoadX(e, Byte(r.x + 1)) /\ ICPU!ExecHdlr(r) = ICPU!LoadX(r, Byte(r.x + 1))
    BY <1>1, <1>2, <1>3, <1>4, <1>13
  <2> QED  BY <1>5, <2>1, LoadAlike
<1>14. CASE i = "INY"
  <2>1. ExecHdlr(e) = LoadY(e, Byte(r.y + 1)) /\ ICPU!ExecHdlr(r) = ICPU!LoadY(r, Byte(r.y + 1))
    BY <1>1, <1>2, <1>3, <1>4, <1>14
  <2> QED  BY <1>5, <2>1, LoadAlike
<1> QED  BY <1>6, <1>7, <1>8, <1>9, <1>10, <1>11, <1>12, <1>13, <1>14

\* The instructions that set or clear a flag.
LEMMA FlagsAlike ==
  ASSUME NEW e, NEW r, Both(e, r), NEW i, e.code[1] = i,
         i \in {"CLC", "CLD", "CLI", "CLV", "SEC", "SED", "SEI"}
  PROVE  Alike(e, r)
<1>0. r.code[1] = i /\ e.sr = r.sr /\ Registers(e) /\ Registers(r)
  BY DEF Both, Agree, Micro, Whole
<1>1. /\ i = "CLC" => ExecHdlr(e) = CLCExecHdlr(e)
      /\ i = "CLD" => ExecHdlr(e) = CLDExecHdlr(e)
      /\ i = "CLI" => ExecHdlr(e) = CLIExecHdlr(e)
      /\ i = "CLV" => ExecHdlr(e) = CLVExecHdlr(e)
      /\ i = "SEC" => ExecHdlr(e) = SECExecHdlr(e)
      /\ i = "SED" => ExecHdlr(e) = SEDExecHdlr(e)
      /\ i = "SEI" => ExecHdlr(e) = SEIExecHdlr(e)
  BY ZenonT(30) DEF ExecHdlr
<1>2. /\ i = "CLC" => ICPU!ExecHdlr(r) = ICPU!CLCExecHdlr(r)
      /\ i = "CLD" => ICPU!ExecHdlr(r) = ICPU!CLDExecHdlr(r)
      /\ i = "CLI" => ICPU!ExecHdlr(r) = ICPU!CLIExecHdlr(r)
      /\ i = "CLV" => ICPU!ExecHdlr(r) = ICPU!CLVExecHdlr(r)
      /\ i = "SEC" => ICPU!ExecHdlr(r) = ICPU!SECExecHdlr(r)
      /\ i = "SED" => ICPU!ExecHdlr(r) = ICPU!SEDExecHdlr(r)
      /\ i = "SEI" => ICPU!ExecHdlr(r) = ICPU!SEIExecHdlr(r)
  BY <1>0, ZenonT(30) DEF ICPU!ExecHdlr
<1>3. /\ CLCExecHdlr(e) = Done([e EXCEPT !.sr = With(r.sr, C, 0)])
      /\ CLDExecHdlr(e) = Done([e EXCEPT !.sr = With(r.sr, D, 0)])
      /\ CLIExecHdlr(e) = Done([e EXCEPT !.sr = With(r.sr, I, 0)])
      /\ CLVExecHdlr(e) = Done([e EXCEPT !.sr = With(r.sr, V, 0)])
      /\ SECExecHdlr(e) = Done([e EXCEPT !.sr = With(r.sr, C, 1)])
      /\ SEDExecHdlr(e) = Done([e EXCEPT !.sr = With(r.sr, D, 1)])
      /\ SEIExecHdlr(e) = Done([e EXCEPT !.sr = With(r.sr, I, 1)])
  BY <1>0 DEF Registers, SetFlag, With, CLCExecHdlr, CLDExecHdlr, CLIExecHdlr, CLVExecHdlr,
     SECExecHdlr, SEDExecHdlr, SEIExecHdlr
<1>4. /\ ICPU!CLCExecHdlr(r) = [r EXCEPT !.sr = With(r.sr, C, 0)]
      /\ ICPU!CLDExecHdlr(r) = [r EXCEPT !.sr = With(r.sr, D, 0)]
      /\ ICPU!CLIExecHdlr(r) = [r EXCEPT !.sr = With(r.sr, I, 0)]
      /\ ICPU!CLVExecHdlr(r) = [r EXCEPT !.sr = With(r.sr, V, 0)]
      /\ ICPU!SECExecHdlr(r) = [r EXCEPT !.sr = With(r.sr, C, 1)]
      /\ ICPU!SEDExecHdlr(r) = [r EXCEPT !.sr = With(r.sr, D, 1)]
      /\ ICPU!SEIExecHdlr(r) = [r EXCEPT !.sr = With(r.sr, I, 1)]
  BY <1>0 DEF Registers, ICPU!SetFlag, ICPU!Bit, Bit, With, ICPU!C, ICPU!D, ICPU!I, ICPU!V, C,
     D, I, V, ICPU!CLCExecHdlr, ICPU!CLDExecHdlr, ICPU!CLIExecHdlr, ICPU!CLVExecHdlr,
     ICPU!SECExecHdlr, ICPU!SEDExecHdlr, ICPU!SEIExecHdlr
<1>5. ASSUME NEW sr, IsByte(sr),
             ExecHdlr(e) = Done([e EXCEPT !.sr = sr]), ICPU!ExecHdlr(r) = [r EXCEPT !.sr = sr]
      PROVE  Alike(e, r)
  <2>1. /\ SetsMicro(e, e, r.a, r.x, r.y, r.sp, r.sr, r.pc)
        /\ SetsWhole(r, r, r.a, r.x, r.y, r.sp, r.sr, r.pc)
        /\ IsByte(r.a) /\ IsByte(r.x) /\ IsByte(r.y) /\ IsByte(r.sp) /\ IsWord(r.pc)
    BY BothHold
  <2>2. /\ SetsMicro([e EXCEPT !.sr = sr], e, r.a, r.x, r.y, r.sp, sr, r.pc)
        /\ SetsWhole([r EXCEPT !.sr = sr], r, r.a, r.x, r.y, r.sp, sr, r.pc)
    BY <2>1, SetsOne, SetsOneWhole
  <2>3. Worked([e EXCEPT !.sr = sr], [r EXCEPT !.sr = sr], e, r)
    BY <1>5, <2>1, <2>2, SetsBoth
  <2> QED  BY <1>5, <2>3 DEF Alike
<1>6. \A x \in {0, 1} : /\ IsByte(With(r.sr, C, x)) /\ IsByte(With(r.sr, D, x))
                        /\ IsByte(With(r.sr, I, x)) /\ IsByte(With(r.sr, V, x))
  BY WithIsByte DEF Both, Typed
<1>7. CASE i = "CLC"
  <2>1. /\ ExecHdlr(e) = Done([e EXCEPT !.sr = With(r.sr, C, 0)])
        /\ ICPU!ExecHdlr(r) = [r EXCEPT !.sr = With(r.sr, C, 0)]
    BY <1>1, <1>2, <1>3, <1>4, <1>7
  <2>2. IsByte(With(r.sr, C, 0))
    BY <1>6
  <2> QED  BY <1>5, <2>1, <2>2
<1>8. CASE i = "CLD"
  <2>1. /\ ExecHdlr(e) = Done([e EXCEPT !.sr = With(r.sr, D, 0)])
        /\ ICPU!ExecHdlr(r) = [r EXCEPT !.sr = With(r.sr, D, 0)]
    BY <1>1, <1>2, <1>3, <1>4, <1>8
  <2>2. IsByte(With(r.sr, D, 0))
    BY <1>6
  <2> QED  BY <1>5, <2>1, <2>2
<1>9. CASE i = "CLI"
  <2>1. /\ ExecHdlr(e) = Done([e EXCEPT !.sr = With(r.sr, I, 0)])
        /\ ICPU!ExecHdlr(r) = [r EXCEPT !.sr = With(r.sr, I, 0)]
    BY <1>1, <1>2, <1>3, <1>4, <1>9
  <2>2. IsByte(With(r.sr, I, 0))
    BY <1>6
  <2> QED  BY <1>5, <2>1, <2>2
<1>10. CASE i = "CLV"
  <2>1. /\ ExecHdlr(e) = Done([e EXCEPT !.sr = With(r.sr, V, 0)])
        /\ ICPU!ExecHdlr(r) = [r EXCEPT !.sr = With(r.sr, V, 0)]
    BY <1>1, <1>2, <1>3, <1>4, <1>10
  <2>2. IsByte(With(r.sr, V, 0))
    BY <1>6
  <2> QED  BY <1>5, <2>1, <2>2
<1>11. CASE i = "SEC"
  <2>1. /\ ExecHdlr(e) = Done([e EXCEPT !.sr = With(r.sr, C, 1)])
        /\ ICPU!ExecHdlr(r) = [r EXCEPT !.sr = With(r.sr, C, 1)]
    BY <1>1, <1>2, <1>3, <1>4, <1>11
  <2>2. IsByte(With(r.sr, C, 1))
    BY <1>6
  <2> QED  BY <1>5, <2>1, <2>2
<1>12. CASE i = "SED"
  <2>1. /\ ExecHdlr(e) = Done([e EXCEPT !.sr = With(r.sr, D, 1)])
        /\ ICPU!ExecHdlr(r) = [r EXCEPT !.sr = With(r.sr, D, 1)]
    BY <1>1, <1>2, <1>3, <1>4, <1>12
  <2>2. IsByte(With(r.sr, D, 1))
    BY <1>6
  <2> QED  BY <1>5, <2>1, <2>2
<1>13. CASE i = "SEI"
  <2>1. /\ ExecHdlr(e) = Done([e EXCEPT !.sr = With(r.sr, I, 1)])
        /\ ICPU!ExecHdlr(r) = [r EXCEPT !.sr = With(r.sr, I, 1)]
    BY <1>1, <1>2, <1>3, <1>4, <1>13
  <2>2. IsByte(With(r.sr, I, 1))
    BY <1>6
  <2> QED  BY <1>5, <2>1, <2>2
<1> QED  BY <1>7, <1>8, <1>9, <1>10, <1>11, <1>12, <1>13

\* NOP, TXS and JMP.
LEMMA OthersAlike ==
  ASSUME NEW e, NEW r, Both(e, r), NEW i, e.code[1] = i, i \in {"NOP", "TXS", "JMP"},
         i = "JMP" => e.opAdr = r.opAdr /\ IsWord(r.opAdr)
  PROVE  Alike(e, r)
<1>0. r.code[1] = i /\ e.x = r.x
  BY DEF Both, Agree
<1>1. /\ i = "NOP" => ExecHdlr(e) = NOPExecHdlr(e)
      /\ i = "TXS" => ExecHdlr(e) = TXSExecHdlr(e)
      /\ i = "JMP" => ExecHdlr(e) = JMPExecHdlr(e)
  BY ZenonT(30) DEF ExecHdlr
<1>2. /\ i = "NOP" => ICPU!ExecHdlr(r) = ICPU!NOPExecHdlr(r)
      /\ i = "TXS" => ICPU!ExecHdlr(r) = ICPU!TXSExecHdlr(r)
      /\ i = "JMP" => ICPU!ExecHdlr(r) = ICPU!JMPExecHdlr(r)
  BY <1>0, ZenonT(30) DEF ICPU!ExecHdlr
<1>3. /\ SetsMicro(e, e, r.a, r.x, r.y, r.sp, r.sr, r.pc)
      /\ SetsWhole(r, r, r.a, r.x, r.y, r.sp, r.sr, r.pc)
      /\ IsByte(r.a) /\ IsByte(r.x) /\ IsByte(r.y) /\ IsByte(r.sp) /\ IsByte(r.sr) /\ IsWord(r.pc)
  BY BothHold
<1>4. CASE i = "NOP"
  <2>1. ExecHdlr(e) = Done(e) /\ ICPU!ExecHdlr(r) = r
    BY <1>1, <1>2, <1>4 DEF NOPExecHdlr, ICPU!NOPExecHdlr
  <2> QED  BY <1>3, <2>1, SetsBoth DEF Alike
<1>5. CASE i = "TXS"
  <2>1. ExecHdlr(e) = Done([e EXCEPT !.sp = r.x]) /\ ICPU!ExecHdlr(r) = [r EXCEPT !.sp = r.x]
    BY <1>0, <1>1, <1>2, <1>5 DEF TXSExecHdlr, ICPU!TXSExecHdlr
  <2>2. /\ SetsMicro([e EXCEPT !.sp = r.x], e, r.a, r.x, r.y, r.x, r.sr, r.pc)
        /\ SetsWhole([r EXCEPT !.sp = r.x], r, r.a, r.x, r.y, r.x, r.sr, r.pc)
    BY <1>3, SetsOne, SetsOneWhole
  <2> QED  BY <1>3, <2>1, <2>2, SetsBoth DEF Alike
<1>6. CASE i = "JMP"
  <2>1. /\ ExecHdlr(e) = Done([e EXCEPT !.pc = r.opAdr])
        /\ ICPU!ExecHdlr(r) = [r EXCEPT !.pc = r.opAdr]
    BY <1>0, <1>1, <1>2, <1>6 DEF JMPExecHdlr, ICPU!JMPExecHdlr
  <2>2. /\ SetsMicro([e EXCEPT !.pc = r.opAdr], e, r.a, r.x, r.y, r.sp, r.sr, r.opAdr)
        /\ SetsWhole([r EXCEPT !.pc = r.opAdr], r, r.a, r.x, r.y, r.sp, r.sr, r.opAdr)
    BY <1>3, SetsOne, SetsOneWhole
  <2> QED  BY <1>3, <1>6, <2>1, <2>2, SetsBoth DEF Alike
<1> QED  BY <1>4, <1>5, <1>6

\* CMP, CPX and CPY.
LEMMA ComparesAlike ==
  ASSUME NEW e, NEW r, Both(e, r), NEW i, e.code[1] = i, e.rv = r.rv, IsByte(r.rv),
         i \in {"CMP", "CPX", "CPY"}
  PROVE  Alike(e, r)
<1>0. r.code[1] = i /\ e.a = r.a /\ e.x = r.x /\ e.y = r.y
  BY DEF Both, Agree
<1>1. /\ i = "CMP" => ExecHdlr(e) = CMPExecHdlr(e)
      /\ i = "CPX" => ExecHdlr(e) = CPXExecHdlr(e)
      /\ i = "CPY" => ExecHdlr(e) = CPYExecHdlr(e)
  BY ZenonT(30) DEF ExecHdlr
<1>2. /\ i = "CMP" => ICPU!ExecHdlr(r) = ICPU!CMPExecHdlr(r)
      /\ i = "CPX" => ICPU!ExecHdlr(r) = ICPU!CPXExecHdlr(r)
      /\ i = "CPY" => ICPU!ExecHdlr(r) = ICPU!CPYExecHdlr(r)
  BY <1>0, ZenonT(30) DEF ICPU!ExecHdlr
<1>3. Set(e, r, e, r, r.sr)
  BY SetItself
<1>4. CASE i = "CMP"
  <2> DEFINE v == Byte(r.a - r.rv)
             c == r.a >= r.rv
  <2>1. ExecHdlr(e) = Done(setNZCflags(e, v, c))
    BY <1>0, <1>1, <1>4 DEF CMPExecHdlr, Compare
  <2>2. ICPU!ExecHdlr(r) = ICPU!setNZCflags(r, v, c)
    BY <1>2, <1>4, SharedMemory DEF ICPU!CMPExecHdlr
  <2> HIDE DEF v, c
  <2> QED  BY <1>3, <2>1, <2>2, CarryAlike
<1>5. CASE i = "CPX"
  <2> DEFINE v == Byte(r.x - r.rv)
             c == r.x >= r.rv
  <2>1. ExecHdlr(e) = Done(setNZCflags(e, v, c))
    BY <1>0, <1>1, <1>5 DEF CPXExecHdlr, Compare
  <2>2. ICPU!ExecHdlr(r) = ICPU!setNZCflags(r, v, c)
    BY <1>2, <1>5, SharedMemory DEF ICPU!CPXExecHdlr
  <2> HIDE DEF v, c
  <2> QED  BY <1>3, <2>1, <2>2, CarryAlike
<1>6. CASE i = "CPY"
  <2> DEFINE v == Byte(r.y - r.rv)
             c == r.y >= r.rv
  <2>1. ExecHdlr(e) = Done(setNZCflags(e, v, c))
    BY <1>0, <1>1, <1>6 DEF CPYExecHdlr, Compare
  <2>2. ICPU!ExecHdlr(r) = ICPU!setNZCflags(r, v, c)
    BY <1>2, <1>6, SharedMemory DEF ICPU!CPYExecHdlr
  <2> HIDE DEF v, c
  <2> QED  BY <1>3, <2>1, <2>2, CarryAlike
<1> QED  BY <1>4, <1>5, <1>6

\* The undocumented instructions that work on registers.
LEMMA UnofficialAlike ==
  ASSUME NEW e, NEW r, Both(e, r), NEW i, e.code[1] = i, e.rv = r.rv, IsByte(r.rv),
         i \in {"ALR", "ARR", "ANC", "ANC2", "LAS", "LAX", "SBX"}
  PROVE  Alike(e, r)
<1>0. r.code[1] = i /\ e.a = r.a /\ e.x = r.x /\ e.sp = r.sp /\ e.sr = r.sr
  BY DEF Both, Agree
<1>1. /\ i = "ALR" => ExecHdlr(e) = ALRExecHdlr(e)
      /\ i = "ARR" => ExecHdlr(e) = ARRExecHdlr(e)
      /\ i = "ANC" => ExecHdlr(e) = ANCExecHdlr(e)
      /\ i = "ANC2" => ExecHdlr(e) = ANC2ExecHdlr(e)
      /\ i = "LAS" => ExecHdlr(e) = LASExecHdlr(e)
      /\ i = "LAX" => ExecHdlr(e) = LAXExecHdlr(e)
      /\ i = "SBX" => ExecHdlr(e) = SBXExecHdlr(e)
  BY ZenonT(30) DEF ExecHdlr
<1>2. /\ i = "ALR" => ICPU!ExecHdlr(r) = ICPU!ALRExecHdlr(r)
      /\ i = "ARR" => ICPU!ExecHdlr(r) = ICPU!ARRExecHdlr(r)
      /\ i = "ANC" => ICPU!ExecHdlr(r) = ICPU!ANCExecHdlr(r)
      /\ i = "ANC2" => ICPU!ExecHdlr(r) = ICPU!ANC2ExecHdlr(r)
      /\ i = "LAS" => ICPU!ExecHdlr(r) = ICPU!LASExecHdlr(r)
      /\ i = "LAX" => ICPU!ExecHdlr(r) = ICPU!LAXExecHdlr(r)
      /\ i = "SBX" => ICPU!ExecHdlr(r) = ICPU!SBXExecHdlr(r)
  BY <1>0, ZenonT(30) DEF ICPU!ExecHdlr
<1>3. Set(e, r, e, r, r.sr)
  BY SetItself
<1> DEFINE v == And(r.a, r.rv)
<1>4. IsByte(v) /\ ICPU!And(r.a, r.rv) = v
  BY BitsAreBytes, SharedBits
<1>5. Bit(r.sr, C) \in {0, 1} /\ ICPU!Bit(r.sr, ICPU!C) = Bit(r.sr, C)
  BY DEF Both, Typed, IsByte, Bit, C, ICPU!Bit, ICPU!C
<1>6. ICPU!Flag(r.sr, ICPU!C) <=> Flag(r.sr, C)
  BY <1>5 DEF Flag, ICPU!Flag
<1>7. CASE i = "ALR"
  <2> DEFINE a == v \div 2
             c == v % 2 = 1
  <2>1. ExecHdlr(e) = Done(setNZCflags([e EXCEPT !.a = a], v, c))
    BY <1>0, <1>1, <1>7 DEF ALRExecHdlr
  <2>2. ICPU!ExecHdlr(r) = ICPU!setNZCflags([r EXCEPT !.a = a], v, c)
    BY <1>2, <1>4, <1>7 DEF ICPU!ALRExecHdlr
  <2>3. IsByte(a)
    BY <1>4 DEF IsByte
  <2> HIDE DEF v, a, c
  <2>4. Set([e EXCEPT !.a = a], [r EXCEPT !.a = a], e, r, r.sr)
    BY <1>3, <2>3, SetRegister
  <2> QED  BY <2>1, <2>2, <2>4, CarryAlike
<1>8. CASE i = "ARR"
  <2> DEFINE a == v \div 2 + 128 * Bit(r.sr, C)
             c == v % 2 = 1
  <2>1. ExecHdlr(e) = Done(setNZCflags([e EXCEPT !.a = a], v, c))
    BY <1>0, <1>1, <1>8 DEF ARRExecHdlr
  <2>2. ICPU!ExecHdlr(r) = ICPU!setNZCflags([r EXCEPT !.a = a], v, c)
    BY <1>2, <1>4, <1>5, <1>8 DEF ICPU!ARRExecHdlr
  <2>3. IsByte(a)
    BY <1>4, <1>5 DEF IsByte
  <2> HIDE DEF v, a, c
  <2>4. Set([e EXCEPT !.a = a], [r EXCEPT !.a = a], e, r, r.sr)
    BY <1>3, <2>3, SetRegister
  <2> QED  BY <2>1, <2>2, <2>4, CarryAlike
<1>9. CASE i \in {"ANC", "ANC2"}
  <2> DEFINE c == Flag(r.sr, C) /\ v >= 128
  <2>1. ExecHdlr(e) = Done(setNZCflags([e EXCEPT !.a = v], v, c))
    BY <1>0, <1>1, <1>9 DEF ANCExecHdlr, ANC2ExecHdlr
  <2>2. ICPU!ExecHdlr(r) = ICPU!setNZCflags([r EXCEPT !.a = v], v, c)
    BY <1>2, <1>4, <1>6, <1>9 DEF ICPU!ANCExecHdlr, ICPU!ANC2ExecHdlr
  <2> HIDE DEF v, c
  <2>3. Set([e EXCEPT !.a = v], [r EXCEPT !.a = v], e, r, r.sr)
    BY <1>3, <1>4, SetRegister
  <2> QED  BY <2>1, <2>2, <2>3, CarryAlike
<1>10. CASE i = "LAS"
  <2> DEFINE w == And(r.rv, r.sp)
             t0 == [e EXCEPT !.x = w]
             u0 == [r EXCEPT !.x = w]
             t1 == [t0 EXCEPT !.sp = w]
             u1 == [u0 EXCEPT !.sp = w]
  <2>1. ICPU!And(r.rv, r.sp) = w /\ IsByte(w)
    BY SharedBits, BitsAreBytes
  <2>2. ExecHdlr(e) = Done(setNZflags([t1 EXCEPT !.a = w], w))
    BY <1>0, <1>1, <1>10 DEF LASExecHdlr, LoadA
  <2>3. ICPU!ExecHdlr(r) = ICPU!setNZflags([u1 EXCEPT !.a = w], w)
    BY <1>2, <1>10, <2>1 DEF ICPU!LASExecHdlr, ICPU!LoadA
  <2> HIDE DEF w
  <2>4. Set(t0, u0, e, r, r.sr)
    BY <1>3, <2>1, SetRegister
  <2> HIDE DEF t0, u0
  <2>5. Set(t1, u1, e, r, r.sr)
    BY <2>1, <2>4, SetRegister
  <2> HIDE DEF t1, u1
  <2>6. Set([t1 EXCEPT !.a = w], [u1 EXCEPT !.a = w], e, r, r.sr)
    BY <2>1, <2>5, SetRegister
  <2> QED  BY <2>2, <2>3, <2>6, NZAlike
<1>11. CASE i = "LAX"
  <2> DEFINE t0 == [e EXCEPT !.x = r.rv]
             u0 == [r EXCEPT !.x = r.rv]
  <2>2. ExecHdlr(e) = Done(setNZflags([t0 EXCEPT !.a = r.rv], r.rv))
    BY <1>0, <1>1, <1>11 DEF LAXExecHdlr, LoadA
  <2>3. ICPU!ExecHdlr(r) = ICPU!setNZflags([u0 EXCEPT !.a = r.rv], r.rv)
    BY <1>2, <1>11 DEF ICPU!LAXExecHdlr, ICPU!LoadA
  <2>4. Set(t0, u0, e, r, r.sr)
    BY <1>3, SetRegister
  <2> HIDE DEF t0, u0
  <2>5. Set([t0 EXCEPT !.a = r.rv], [u0 EXCEPT !.a = r.rv], e, r, r.sr)
    BY <2>4, SetRegister
  <2> QED  BY <2>2, <2>3, <2>5, NZAlike
<1>12. CASE i = "SBX"
  <2> DEFINE w == Byte(And(r.a, r.x) - r.rv)
             c == w >= r.rv
  <2>1. ICPU!And(r.a, r.x) = And(r.a, r.x) /\ IsByte(And(r.a, r.x))
    BY SharedBits, BitsAreBytes
  <2>2. IsByte(w)
    BY <2>1, Wrapped DEF IsByte
  <2>3. ExecHdlr(e) = Done(setNZCflags([e EXCEPT !.x = w], w, c))
    BY <1>0, <1>1, <1>12 DEF SBXExecHdlr
  <2>4. ICPU!ExecHdlr(r) = ICPU!setNZCflags([r EXCEPT !.x = w], w, c)
    BY <1>2, <1>12, <2>1, SharedMemory DEF ICPU!SBXExecHdlr
  <2> HIDE DEF w, c
  <2>5. Set([e EXCEPT !.x = w], [r EXCEPT !.x = w], e, r, r.sr)
    BY <1>3, <2>2, SetRegister
  <2> QED  BY <2>3, <2>4, <2>5, CarryAlike
<1> QED  BY <1>7, <1>8, <1>9, <1>10, <1>11, <1>12

NZV(sr, n, z, v) == With(With(With(sr, N, AsBit(n)), Z, AsBit(z)), V, AsBit(v))
NZCV(sr, n, z, c, v) == With(NZV(sr, n, z, v), C, AsBit(c))

\* setNZVflags() and setNZCVflags() of both processors.
LEMMA OverflowSet ==
  ASSUME NEW s, Registers(s), NEW n, NEW z, NEW c, NEW v
  PROVE  /\ setNZVflags(s, n, z, v) = Status(s, NZV(s.sr, n, z, v))
         /\ ICPU!setNZVflags(s, n, z, v) = Status(s, NZV(s.sr, n, z, v))
         /\ setNZCVflags(s, n, z, c, v)
               = Status(Status(s, NZV(s.sr, n, z, v)), NZCV(s.sr, n, z, c, v))
         /\ ICPU!setNZCVflags(s, n, z, c, v)
               = Status(Status(s, NZV(s.sr, n, z, v)), NZCV(s.sr, n, z, c, v))
<1> DEFINE t == Status(s, NZV(s.sr, n, z, v))
<1>1. setNZVflags(s, n, z, v) = t /\ ICPU!setNZVflags(s, n, z, v) = t
  BY DEF Registers, Status, setNZVflags, SetFlag, NZV, With, AsBit, ICPU!setNZVflags, ICPU!SetFlag,
     ICPU!Bit, ICPU!N, ICPU!Z, ICPU!V, Bit, N, Z, V
<1>2. t.sr = NZV(s.sr, n, z, v)
  BY DEF Registers, Status
<1> HIDE DEF t
<1>3. /\ setNZCVflags(s, n, z, c, v) = Status(t, NZCV(s.sr, n, z, c, v))
      /\ ICPU!setNZCVflags(s, n, z, c, v) = Status(t, NZCV(s.sr, n, z, c, v))
  BY <1>1, <1>2 DEF setNZCVflags, SetFlag, NZCV, With, AsBit, ICPU!setNZCVflags, ICPU!SetFlag,
     ICPU!Bit, ICPU!C, Bit, C, Status
<1> QED  BY <1>1, <1>3 DEF t

\* N, Z, C and V set in a status register.
LEMMA OverflowIsByte ==
  ASSUME NEW sr, IsByte(sr), NEW n, NEW z, NEW c, NEW v
  PROVE  IsByte(NZV(sr, n, z, v)) /\ IsByte(NZCV(sr, n, z, c, v))
<1>1. AsBit(n) \in {0, 1} /\ AsBit(z) \in {0, 1} /\ AsBit(c) \in {0, 1} /\ AsBit(v) \in {0, 1}
  BY DEF AsBit
<1>2. IsByte(With(sr, N, AsBit(n)))
  BY <1>1, WithIsByte
<1>3. IsByte(With(With(sr, N, AsBit(n)), Z, AsBit(z)))
  BY <1>1, <1>2, WithIsByte
<1>4. IsByte(NZV(sr, n, z, v))
  BY <1>1, <1>3, WithIsByte DEF NZV
<1> QED  BY <1>1, <1>4, WithIsByte DEF NZCV

\* The flags of a sum or a difference are set alike.
LEMMA SetOverflow ==
  ASSUME NEW e, NEW r, NEW t, NEW u, NEW sr, Set(t, u, e, r, sr), NEW n, NEW z, NEW c, NEW v
  PROVE  /\ \E new : Set(setNZVflags(t, n, z, v), ICPU!setNZVflags(u, n, z, v), e, r, new)
         /\ \E new : Set(setNZCVflags(t, n, z, c, v), ICPU!setNZCVflags(u, n, z, c, v), e, r, new)
<1> DEFINE nzv == NZV(sr, n, z, v)
           new == NZCV(sr, n, z, c, v)
<1>1. /\ Registers(t) /\ Registers(u) /\ t.sr = sr /\ u.sr = sr /\ IsByte(sr)
  BY SetWorked
<1>2. IsByte(nzv) /\ IsByte(new)
  BY <1>1, OverflowIsByte
<1>3. /\ setNZVflags(t, n, z, v) = Status(t, nzv)
      /\ ICPU!setNZVflags(u, n, z, v) = Status(u, nzv)
      /\ setNZCVflags(t, n, z, c, v) = Status(Status(t, nzv), new)
      /\ ICPU!setNZCVflags(u, n, z, c, v) = Status(Status(u, nzv), new)
  BY <1>1, OverflowSet
<1> HIDE DEF nzv, new
<1> DEFINE t1 == Status(t, nzv)
           u1 == Status(u, nzv)
<1>4. Set(t1, u1, e, r, nzv)
  BY <1>2, SetFlags DEF Status
<1> HIDE DEF t1, u1
<1>5. Set(Status(t1, new), Status(u1, new), e, r, new)
  BY <1>2, <1>4, SetFlags DEF Status
<1> QED  BY <1>3, <1>4, <1>5 DEF t1, u1

\* Binary addition and subtraction give the same.
LEMMA AddSet ==
  ASSUME NEW e, NEW r, NEW t, NEW u, NEW sr, Set(t, u, e, r, sr), NEW v, IsByte(v)
  PROVE  /\ \E new : Set(Add(t, v), ICPU!Add(u, v), e, r, new)
         /\ \E new : Set(Subtract(t, v), ICPU!Subtract(u, v), e, r, new)
<1>1. /\ Registers(t) /\ Registers(u) /\ t.sr = sr /\ u.sr = sr /\ IsByte(sr)
      /\ t.a = u.a /\ IsByte(u.a)
  BY SetWorked DEF Worked
<1>2. ICPU!Bit(sr, ICPU!C) = Bit(sr, C) /\ Bit(sr, C) \in {0, 1}
  BY <1>1 DEF ICPU!Bit, Bit, ICPU!C, C, IsByte
<1>3. \A n : ICPU!OutOfRange(n) <=> OutOfRange(n)
  BY DEF ICPU!OutOfRange, OutOfRange
<1>4. \E new : Set(Add(t, v), ICPU!Add(u, v), e, r, new)
  <2> DEFINE unsigned == u.a + v + Bit(sr, C)
             signed == Signed(u.a) + Signed(v) + Bit(sr, C)
             a == Byte(unsigned)
             n == a >= 128
             z == a = 0
             c == unsigned > 255
             over == OutOfRange(signed)
  <2>1. Add(t, v) = setNZCVflags([t EXCEPT !.a = a], n, z, c, over)
    BY <1>1 DEF Add
  <2>2. ICPU!Add(u, v) = ICPU!setNZCVflags([u EXCEPT !.a = a], n, z, c, over)
    BY <1>1, <1>2, <1>3, SharedMemory DEF ICPU!Add
  <2>3. IsByte(a)
    BY <1>1, <1>2, Wrapped DEF IsByte
  <2> HIDE DEF a, n, z, c, over
  <2>4. Set([t EXCEPT !.a = a], [u EXCEPT !.a = a], e, r, sr)
    BY <2>3, SetRegister
  <2> QED  BY <2>1, <2>2, <2>4, SetOverflow
<1>5. \E new : Set(Subtract(t, v), ICPU!Subtract(u, v), e, r, new)
  <2> DEFINE unsigned == u.a - v - (1 - Bit(sr, C))
             signed == Signed(u.a) - Signed(v) - (1 - Bit(sr, C))
             a == Byte(unsigned)
             n == a >= 128
             z == a = 0
             c == unsigned >= 0
             over == OutOfRange(signed)
  <2>1. Subtract(t, v) = setNZCVflags([t EXCEPT !.a = a], n, z, c, over)
    BY <1>1 DEF Subtract
  <2>2. ICPU!Subtract(u, v) = ICPU!setNZCVflags([u EXCEPT !.a = a], n, z, c, over)
    BY <1>1, <1>2, <1>3, SharedMemory DEF ICPU!Subtract
  <2>3. IsByte(a)
    BY <1>1, <1>2, Wrapped DEF IsByte
  <2> HIDE DEF a, n, z, c, over
  <2>4. Set([t EXCEPT !.a = a], [u EXCEPT !.a = a], e, r, sr)
    BY <2>3, SetRegister
  <2> QED  BY <2>1, <2>2, <2>4, SetOverflow
<1> QED  BY <1>4, <1>5

\* A high digit and a low one make a byte.
LEMMA DecimalByte ==
  ASSUME NEW n \in Int, NEW d \in Nat, d < 16 PROVE IsByte(Byte(High(n)) + d)
<1>1. \E k \in Int : High(n) = 16 * k
  <2>1. n \div 16 \in Int
    OBVIOUS
  <2> QED  BY <2>1 DEF High
<1>2. PICK k \in Int : High(n) = 16 * k
  BY <1>1
<1> QED  BY <1>2 DEF IsByte, Byte

\* Decimal addition and subtraction give the same, whatever the operands.
LEMMA DecimalSet ==
  ASSUME NEW e, NEW r, Both(e, r), e.rv = r.rv, IsByte(r.rv)
  PROVE  /\ \E new : Set(ADCDecimal(e), ICPU!ADCDecimal(r), e, r, new)
         /\ \E new : Set(SBCDecimal(e), ICPU!SBCDecimal(r), e, r, new)
<1>1. Set(e, r, e, r, r.sr) /\ e.a = r.a /\ e.sr = r.sr /\ IsByte(r.a) /\ IsByte(r.sr)
  BY SetItself DEF Both, Agree, Typed
<1>2. ICPU!Bit(r.sr, ICPU!C) = Bit(r.sr, C) /\ Bit(r.sr, C) \in {0, 1}
  BY <1>1 DEF ICPU!Bit, Bit, ICPU!C, C, IsByte
<1>3. /\ \A n : ICPU!OutOfRange(n) <=> OutOfRange(n)
      /\ \A n : ICPU!High(n) = High(n)
  BY DEF ICPU!OutOfRange, OutOfRange, ICPU!High, High
<1>4. \E new : Set(ADCDecimal(e), ICPU!ADCDecimal(r), e, r, new)
  <2> DEFINE low == (r.a % 16) + (r.rv % 16) + Bit(r.sr, C)
             carry == IF low >= 10 THEN 16 ELSE 0
             digit == IF low >= 10 THEN (low + 6) % 16 ELSE low
             signed == Signed(High(r.a)) + Signed(High(r.rv)) + carry + digit
             high == High(r.a) + High(r.rv) + carry
             adjusted == IF high >= 160 THEN high + 96 ELSE high
             a == Byte(High(adjusted)) + digit
             n == Byte(signed) >= 128
             z == Byte(r.a + r.rv + Bit(r.sr, C)) = 0
             c == high >= 160
             over == OutOfRange(signed)
  <2>1. ADCDecimal(e) = setNZCVflags([e EXCEPT !.a = a], n, z, c, over)
    BY <1>1 DEF ADCDecimal
  <2>2. ICPU!ADCDecimal(r) = ICPU!setNZCVflags([r EXCEPT !.a = a], n, z, c, over)
    BY DEF ICPU!ADCDecimal, ICPU!Bit, Bit, ICPU!C, C, ICPU!High, High,
       ICPU!Byte, Byte, ICPU!Signed, Signed, ICPU!OutOfRange, OutOfRange
  <2>3. low \in Nat /\ low < 32
    BY <1>1, <1>2 DEF IsByte
  <2>4. carry \in Int
    OBVIOUS
  <2>5. digit \in Nat /\ digit < 16
    <3> HIDE DEF low
    <3>1. CASE low >= 10
      BY <2>3, <3>1
    <3>2. CASE ~ (low >= 10)
      BY <2>3, <3>2
    <3> QED  BY <3>1, <3>2
  <2> HIDE DEF low, carry, digit
  <2>6. adjusted \in Int
    BY <1>1, <2>4 DEF High, IsByte
  <2>7. IsByte(a)
    BY <2>5, <2>6, DecimalByte
  <2> HIDE DEF signed, high, adjusted, a, n, z, c, over
  <2>8. Set([e EXCEPT !.a = a], [r EXCEPT !.a = a], e, r, r.sr)
    BY <1>1, <2>7, SetRegister
  <2> QED  BY <2>1, <2>2, <2>8, SetOverflow
<1>5. \E new : Set(SBCDecimal(e), ICPU!SBCDecimal(r), e, r, new)
  <2> DEFINE borrowIn == 1 - Bit(r.sr, C)
             signed == Signed(r.a) - Signed(r.rv) - borrowIn
             low == (r.a % 16) - (r.rv % 16) - borrowIn
             borrow == IF low < 0 THEN 16 ELSE 0
             digit == (IF low < 0 THEN low + 10 ELSE low) % 16
             high == High(r.a) - High(r.rv) - borrow
             adjusted == IF high < 0 THEN high + 160 ELSE high
             a == Byte(adjusted + digit)
             n == Byte(signed) >= 128
             z == Byte(signed) = 0
             c == high >= 0
             over == OutOfRange(signed)
             t == setNZVflags(e, n, z, over)
             u == ICPU!setNZVflags(r, n, z, over)
  <2>1. SBCDecimal(e) = [[t EXCEPT !.a = a] EXCEPT !.sr = SetFlag(t.sr, C, c)]
    BY <1>1 DEF SBCDecimal
  <2>2. ICPU!SBCDecimal(r) = [[u EXCEPT !.a = a] EXCEPT !.sr = SetFlag(u.sr, C, c)]
    BY DEF ICPU!SBCDecimal, ICPU!SetFlag, SetFlag, ICPU!Bit, Bit, ICPU!C, C, ICPU!High, High,
       ICPU!Byte, Byte, ICPU!Signed, Signed, ICPU!OutOfRange, OutOfRange
  <2>3. IsByte(a)
    <3>1. adjusted + digit \in Int
      BY <1>1, <1>2 DEF High, IsByte
    <3> QED  BY <3>1, Wrapped
  <2> HIDE DEF signed, borrowIn, low, borrow, digit, high, adjusted, a, n, z, over
  <2>4. PICK sr : Set(t, u, e, r, sr)
    BY <1>1, SetOverflow
  <2> HIDE DEF t, u
  <2>5. t.sr = sr /\ u.sr = sr /\ IsByte(sr)
    BY <2>4, SetWorked
  <2> DEFINE new == With(sr, C, AsBit(c))
  <2>6. SetFlag(sr, C, c) = new
    BY DEF SetFlag, With, AsBit
  <2>7. IsByte(new)
    <3>1. AsBit(c) \in {0, 1}
      BY DEF AsBit
    <3> QED  BY <2>5, <3>1, WithIsByte
  <2> HIDE DEF c, new
  <2> DEFINE t1 == [t EXCEPT !.a = a]
             u1 == [u EXCEPT !.a = a]
  <2>8. Set(t1, u1, e, r, sr)
    BY <2>3, <2>4, SetRegister
  <2>9. SBCDecimal(e) = [t1 EXCEPT !.sr = new] /\ ICPU!SBCDecimal(r) = [u1 EXCEPT !.sr = new]
    BY <2>1, <2>2, <2>5, <2>6
  <2> HIDE DEF t1, u1
  <2> QED  BY <2>7, <2>8, <2>9, SetFlags
<1> QED  BY <1>4, <1>5

\* ADC, SBC and BIT.
LEMMA ArithmeticAlike ==
  ASSUME NEW e, NEW r, Both(e, r), NEW i, e.code[1] = i, e.rv = r.rv, IsByte(r.rv),
         i \in {"ADC", "SBC", "BIT"}
  PROVE  Alike(e, r)
<1>0. r.code[1] = i /\ e.a = r.a /\ e.sr = r.sr
  BY DEF Both, Agree
<1>1. /\ i = "ADC" => ExecHdlr(e) = ADCExecHdlr(e)
      /\ i = "SBC" => ExecHdlr(e) = SBCExecHdlr(e)
      /\ i = "BIT" => ExecHdlr(e) = BITExecHdlr(e)
  BY ZenonT(30) DEF ExecHdlr
<1>2. /\ i = "ADC" => ICPU!ExecHdlr(r) = ICPU!ADCExecHdlr(r)
      /\ i = "SBC" => ICPU!ExecHdlr(r) = ICPU!SBCExecHdlr(r)
      /\ i = "BIT" => ICPU!ExecHdlr(r) = ICPU!BITExecHdlr(r)
  BY <1>0, ZenonT(30) DEF ICPU!ExecHdlr
<1>3. Set(e, r, e, r, r.sr)
  BY SetItself
<1>4. \A sr, m : ICPU!Flag(sr, m) <=> Flag(sr, m)
  BY DEF ICPU!Flag, Flag, ICPU!Bit, Bit
<1>5. ICPU!D = D /\ ICPU!N = N /\ ICPU!V = V
  BY DEF ICPU!D, D, ICPU!N, N, ICPU!V, V
<1>6. ASSUME NEW t, NEW u, NEW new, Set(t, u, e, r, new), ExecHdlr(e) = Done(t), ICPU!ExecHdlr(r) = u
      PROVE  Alike(e, r)
  BY <1>6, SetWorked DEF Alike
<1>7. CASE i = "ADC"
  <2>1. CASE Flag(r.sr, D)
    <3>1. ExecHdlr(e) = Done(ADCDecimal(e)) /\ ICPU!ExecHdlr(r) = ICPU!ADCDecimal(r)
      BY <1>0, <1>1, <1>2, <1>4, <1>5, <1>7, <2>1 DEF ADCExecHdlr, ADCCalc, ICPU!ADCExecHdlr,
         ICPU!ADCCalc
    <3> QED  BY <1>6, <3>1, DecimalSet
  <2>2. CASE ~ Flag(r.sr, D)
    <3>1. ExecHdlr(e) = Done(Add(e, r.rv)) /\ ICPU!ExecHdlr(r) = ICPU!Add(r, r.rv)
      BY <1>0, <1>1, <1>2, <1>4, <1>5, <1>7, <2>2 DEF ADCExecHdlr, ADCCalc, ICPU!ADCExecHdlr,
         ICPU!ADCCalc
    <3> QED  BY <1>3, <1>6, <3>1, AddSet
  <2> QED  BY <2>1, <2>2
<1>8. CASE i = "SBC"
  <2>1. CASE Flag(r.sr, D)
    <3>1. ExecHdlr(e) = Done(SBCDecimal(e)) /\ ICPU!ExecHdlr(r) = ICPU!SBCDecimal(r)
      BY <1>0, <1>1, <1>2, <1>4, <1>5, <1>8, <2>1 DEF SBCExecHdlr, SBCCalc, ICPU!SBCExecHdlr,
         ICPU!SBCCalc
    <3> QED  BY <1>6, <3>1, DecimalSet
  <2>2. CASE ~ Flag(r.sr, D)
    <3>1. ExecHdlr(e) = Done(Subtract(e, r.rv)) /\ ICPU!ExecHdlr(r) = ICPU!Subtract(r, r.rv)
      BY <1>0, <1>1, <1>2, <1>4, <1>5, <1>8, <2>2 DEF SBCExecHdlr, SBCCalc, ICPU!SBCExecHdlr,
         ICPU!SBCCalc
    <3> QED  BY <1>3, <1>6, <3>1, AddSet
  <2> QED  BY <2>1, <2>2
<1>9. CASE i = "BIT"
  <2> DEFINE n == Flag(r.rv, N)
             z == And(r.a, r.rv) = 0
             v == Flag(r.rv, V)
  <2>1. ExecHdlr(e) = Done(setNZVflags(e, n, z, v))
    BY <1>0, <1>1, <1>9 DEF BITExecHdlr
  <2>2. ICPU!ExecHdlr(r) = ICPU!setNZVflags(r, n, z, v)
    BY <1>2, <1>4, <1>5, <1>9, SharedBits DEF ICPU!BITExecHdlr
  <2> HIDE DEF n, z, v
  <2> QED  BY <1>3, <1>6, <2>1, <2>2, SetOverflow
<1> QED  BY <1>7, <1>8, <1>9

-----------------------------------------------------------------------------
(* Execution in several cycles.                                            *)

\* The micro cycle after s, when it is one of execution.
LEMMA ExecutesOn ==
  ASSUME NEW e, NEW s, NEW f, ExecHdlr(e) = s, s.exec = "EXECUTE", Leads(ExecHdlr(Access(s)), f)
  PROVE  Leads(ExecHdlr(e), f)
<1>1. Going(s) /\ Continued(s) = ExecHdlr(Access(s))
  BY DEF Going, Continued, step, Taken
<1> QED  BY <1>1, LeadsOn

\* s is e some cycles later, in which only registers were set.
Later(s, e, ex, reads) ==
  /\ Micro(s) /\ Agree(s, e) /\ s.code = e.code /\ s.pc = e.pc /\ s.opAdr = e.opAdr
  /\ s.op16 = e.op16
  /\ s.op = e.op /\ s.cycles = e.cycles /\ s.inter = "none" /\ s.exec = "EXECUTE" /\ s.ex = ex
  /\ s.rw = "read" /\ s.reads = reads

\* A cycle that only reads.
LEMMA ReadsLater ==
  ASSUME NEW s, NEW e, NEW ex, NEW reads, Later(s, e, ex, reads)
  PROVE  Later(Access(s), e, ex, reads \cup {s.adr}) /\ Access(s).adr = s.adr
BY DEF Later, Access, Micro, Registers, Agree

\* Whether a branch is taken.
Takes(i, sr) ==
  \/ i = "BCC" /\ ~ Flag(sr, C)
  \/ i = "BCS" /\ Flag(sr, C)
  \/ i = "BEQ" /\ Flag(sr, Z)
  \/ i = "BMI" /\ Flag(sr, N)
  \/ i = "BNE" /\ ~ Flag(sr, Z)
  \/ i = "BPL" /\ ~ Flag(sr, N)
  \/ i = "BVC" /\ ~ Flag(sr, V)
  \/ i = "BVS" /\ Flag(sr, V)

\* P6502CC: the cycles of a branch, taken or not, within a page or across.
LEMMA BranchCycles ==
  ASSUME NEW s, s.code[1] \in Branches
  PROVE  /\ ~ Takes(s.code[1], s.sr) => ExecHdlr(s) = Done(s)
         /\ Takes(s.code[1], s.sr) /\ s.ex = 0 => ExecHdlr(s) = NextEx(s)
         /\ Takes(s.code[1], s.sr) /\ s.ex = 1 /\ PageBoundaryCrossed(s.pc, s.opAdr) =>
              ExecHdlr(s) = initDummyOperandRead(NextEx(s))
         /\ Takes(s.code[1], s.sr) /\ (s.ex = 2 \/ (s.ex = 1 /\ ~ PageBoundaryCrossed(s.pc, s.opAdr))) =>
              ExecHdlr(s) = Done([s EXCEPT !.pc = s.opAdr])
<1> DEFINE i == s.code[1]
<1>1. /\ i = "BCC" => ExecHdlr(s) = BCCExecHdlr(s)
      /\ i = "BCS" => ExecHdlr(s) = BCSExecHdlr(s)
      /\ i = "BEQ" => ExecHdlr(s) = BEQExecHdlr(s)
      /\ i = "BMI" => ExecHdlr(s) = BMIExecHdlr(s)
      /\ i = "BNE" => ExecHdlr(s) = BNEExecHdlr(s)
      /\ i = "BPL" => ExecHdlr(s) = BPLExecHdlr(s)
      /\ i = "BVC" => ExecHdlr(s) = BVCExecHdlr(s)
      /\ i = "BVS" => ExecHdlr(s) = BVSExecHdlr(s)
  BY ZenonT(30) DEF ExecHdlr
<1>2. i \in Branches
  OBVIOUS
<1> HIDE DEF i
<1> DEFINE Right(taken) ==
      /\ ~ taken => ExecHdlr(s) = Done(s)
      /\ taken /\ s.ex = 0 => ExecHdlr(s) = NextEx(s)
      /\ taken /\ s.ex = 1 /\ PageBoundaryCrossed(s.pc, s.opAdr) =>
           ExecHdlr(s) = initDummyOperandRead(NextEx(s))
      /\ taken /\ (s.ex = 2 \/ (s.ex = 1 /\ ~ PageBoundaryCrossed(s.pc, s.opAdr))) =>
           ExecHdlr(s) = Done([s EXCEPT !.pc = s.opAdr])
<1>3. CASE i = "BCC"
  <2>1. Right(~ Flag(s.sr, C))
    BY <1>1, <1>3 DEF BCCExecHdlr, Branch
  <2> QED  BY <1>3, <2>1 DEF Takes, i
<1>4. CASE i = "BCS"
  <2>1. Right(Flag(s.sr, C))
    BY <1>1, <1>4 DEF BCSExecHdlr, Branch
  <2> QED  BY <1>4, <2>1 DEF Takes, i
<1>5. CASE i = "BEQ"
  <2>1. Right(Flag(s.sr, Z))
    BY <1>1, <1>5 DEF BEQExecHdlr, Branch
  <2> QED  BY <1>5, <2>1 DEF Takes, i
<1>6. CASE i = "BMI"
  <2>1. Right(Flag(s.sr, N))
    BY <1>1, <1>6 DEF BMIExecHdlr, Branch
  <2> QED  BY <1>6, <2>1 DEF Takes, i
<1>7. CASE i = "BNE"
  <2>1. Right(~ Flag(s.sr, Z))
    BY <1>1, <1>7 DEF BNEExecHdlr, Branch
  <2> QED  BY <1>7, <2>1 DEF Takes, i
<1>8. CASE i = "BPL"
  <2>1. Right(~ Flag(s.sr, N))
    BY <1>1, <1>8 DEF BPLExecHdlr, Branch
  <2> QED  BY <1>8, <2>1 DEF Takes, i
<1>9. CASE i = "BVC"
  <2>1. Right(~ Flag(s.sr, V))
    BY <1>1, <1>9 DEF BVCExecHdlr, Branch
  <2> QED  BY <1>9, <2>1 DEF Takes, i
<1>10. CASE i = "BVS"
  <2>1. Right(Flag(s.sr, V))
    BY <1>1, <1>10 DEF BVSExecHdlr, Branch
  <2> QED  BY <1>10, <2>1 DEF Takes, i
<1> QED  BY <1>2, <1>3, <1>4, <1>5, <1>6, <1>7, <1>8, <1>9, <1>10 DEF Branches

\* P6502IC: a branch, taken or not.
LEMMA ICBranch ==
  ASSUME NEW r, r.code[1] \in Branches
  PROVE  /\ ~ Takes(r.code[1], r.sr) => ICPU!ExecHdlr(r) = r
         /\ Takes(r.code[1], r.sr) =>
              ICPU!ExecHdlr(r) = [ICPU!addBranchTakenCycles(r) EXCEPT
                                    !.pc = Address(r.opcodePC + 2 + r.op16)]
<1> DEFINE i == r.code[1]
<1>1. /\ i = "BCC" => ICPU!ExecHdlr(r) = ICPU!BCCExecHdlr(r)
      /\ i = "BCS" => ICPU!ExecHdlr(r) = ICPU!BCSExecHdlr(r)
      /\ i = "BEQ" => ICPU!ExecHdlr(r) = ICPU!BEQExecHdlr(r)
      /\ i = "BMI" => ICPU!ExecHdlr(r) = ICPU!BMIExecHdlr(r)
      /\ i = "BNE" => ICPU!ExecHdlr(r) = ICPU!BNEExecHdlr(r)
      /\ i = "BPL" => ICPU!ExecHdlr(r) = ICPU!BPLExecHdlr(r)
      /\ i = "BVC" => ICPU!ExecHdlr(r) = ICPU!BVCExecHdlr(r)
      /\ i = "BVS" => ICPU!ExecHdlr(r) = ICPU!BVSExecHdlr(r)
  BY Zenon DEF ICPU!ExecHdlr
<1>2. i \in Branches
  OBVIOUS
<1> HIDE DEF i
<1>0. \A sr, m : ICPU!Flag(sr, m) <=> Flag(sr, m)
  BY DEF ICPU!Flag, Flag, ICPU!Bit, Bit
<1> DEFINE Right(taken) ==
      /\ ~ taken => ICPU!ExecHdlr(r) = r
      /\ taken => ICPU!ExecHdlr(r) = [ICPU!addBranchTakenCycles(r) EXCEPT
                                        !.pc = Address(r.opcodePC + 2 + r.op16)]
<1>3. CASE i = "BCC"
  <2>1. Right(~ Flag(r.sr, C))
    BY <1>0, <1>1, <1>3 DEF ICPU!BCCExecHdlr, ICPU!Branch, ICPU!C, C, Address
  <2> QED  BY <1>3, <2>1 DEF Takes, i
<1>4. CASE i = "BCS"
  <2>1. Right(Flag(r.sr, C))
    BY <1>0, <1>1, <1>4 DEF ICPU!BCSExecHdlr, ICPU!Branch, ICPU!C, C, Address
  <2> QED  BY <1>4, <2>1 DEF Takes, i
<1>5. CASE i = "BEQ"
  <2>1. Right(Flag(r.sr, Z))
    BY <1>0, <1>1, <1>5 DEF ICPU!BEQExecHdlr, ICPU!Branch, ICPU!Z, Z, Address
  <2> QED  BY <1>5, <2>1 DEF Takes, i
<1>6. CASE i = "BMI"
  <2>1. Right(Flag(r.sr, N))
    BY <1>0, <1>1, <1>6 DEF ICPU!BMIExecHdlr, ICPU!Branch, ICPU!N, N, Address
  <2> QED  BY <1>6, <2>1 DEF Takes, i
<1>7. CASE i = "BNE"
  <2>1. Right(~ Flag(r.sr, Z))
    BY <1>0, <1>1, <1>7 DEF ICPU!BNEExecHdlr, ICPU!Branch, ICPU!Z, Z, Address
  <2> QED  BY <1>7, <2>1 DEF Takes, i
<1>8. CASE i = "BPL"
  <2>1. Right(~ Flag(r.sr, N))
    BY <1>0, <1>1, <1>8 DEF ICPU!BPLExecHdlr, ICPU!Branch, ICPU!N, N, Address
  <2> QED  BY <1>8, <2>1 DEF Takes, i
<1>9. CASE i = "BVC"
  <2>1. Right(~ Flag(r.sr, V))
    BY <1>0, <1>1, <1>9 DEF ICPU!BVCExecHdlr, ICPU!Branch, ICPU!V, V, Address
  <2> QED  BY <1>9, <2>1 DEF Takes, i
<1>10. CASE i = "BVS"
  <2>1. Right(Flag(r.sr, V))
    BY <1>0, <1>1, <1>10 DEF ICPU!BVSExecHdlr, ICPU!Branch, ICPU!V, V, Address
  <2> QED  BY <1>10, <2>1 DEF Takes, i
<1> QED  BY <1>2, <1>3, <1>4, <1>5, <1>6, <1>7, <1>8, <1>9, <1>10 DEF Branches

\* What the table says of branches.
LEMMA BranchKind ==
  ASSUME NEW o, MarkedWell(o), o[1] \in Branches
  PROVE  /\ o[2] = "Relative" /\ Steps(o) = 1 /\ AddCycleAtPageBoundary(o) /\ ~ Modifies(o)
         /\ o[1] # "JSR"
<1>1. o[2] = "Relative"
  <2>1. o[2] \in ModesOf(o[1])
    BY Opcode DEF MarkedWell
  <2> QED  BY <2>1 DEF ModesOf, Branches, Reads, Combined, Stores, Shifts, Counts, FullModes,
       ByteImmediates, OneByte
<1>2. ~ WritesMem(o) /\ ~ Modifies(o)
  BY <1>1, NoMemoryKinds DEF NoMemory
<1> QED  BY <1>1, <1>2 DEF Steps, AddCycleAtPageBoundary, Branches

\* The branches: the same target, reads and time.
LEMMA BranchExecuted ==
  ASSUME NEW e, NEW r, NEW c, Ready(e, r, c), MarkedWell(e.code), e.code[1] \in Branches
  PROVE  Executed(e, r, c)
<1>1. /\ e.code[2] = "Relative" /\ Steps(e.code) = 1 /\ AddCycleAtPageBoundary(e.code)
      /\ ~ Modifies(e.code) /\ e.code[1] # "JSR"
  BY BranchKind
<1>2. /\ Micro(e) /\ Whole(r) /\ Agree(e, r) /\ Typed(r) /\ e.pc = r.pc /\ r.code = e.code
      /\ e.ex = 0 /\ e.inter = "none" /\ e.exec = "EXECUTE" /\ e.rw = "read" /\ e.adr \in e.reads
      /\ e.opAdr = r.opAdr /\ IsWord(r.opAdr) /\ Address(r.opcodePC + 2 + r.op16) = r.opAdr
      /\ r.cycles \in Nat /\ IsWord(r.pc) /\ r.sr = e.sr
  BY <1>1 DEF Ready, Plain, Typed, Agree
<1>3. Seen(e.reads, r.reads)
  <2>1. ~ Elsewhere(e) /\ ~ Unread(e.code, e.pc)
    BY <1>1 DEF Elsewhere, Apart, Unread
  <2> QED  BY <2>1 DEF Ready
<1> DEFINE taken == Takes(e.code[1], e.sr)
           crossed == PageBoundaryCrossed(e.pc, e.opAdr)
           u == ICPU!ExecHdlr(r)
<1>4. CASE ~ taken
  <2>1. ExecHdlr(e) = Done(e) /\ u = r
    BY <1>2, <1>4, BranchCycles, ICBranch
  <2>2. r.cycles + 0 = r.cycles /\ 0 + 1 = Steps(e.code) + 0
    BY <1>1, <1>2
  <2>3. Closes(e, r, e, r, 0)
    BY <1>2, <1>3, <2>2 DEF Closes
  <2>4. Finished(Done(e), r, c, e.code)
    BY <1>1, <2>3, Closing
  <2> QED  BY <2>1, <2>4, LeadsNowhere DEF Executed
<1>5. CASE taken
  <2> DEFINE s0 == NextEx(e)
             e1 == Access(s0)
  <2>1. ExecHdlr(e) = s0
    BY <1>2, <1>5, BranchCycles
  <2>2. Later(s0, e, 1, e.reads) /\ s0.adr = e.adr
    BY <1>2 DEF NextEx, Later, Micro, Registers, Agree
  <2> HIDE DEF s0
  <2>3. Later(e1, e, 1, e.reads)
    <3>1. e.reads \cup {e.adr} = e.reads
      BY <1>2
    <3> QED  BY <2>2, <3>1, ReadsLater
  <2>4. s0.exec = "EXECUTE"
    BY <2>2 DEF Later
  <2> HIDE DEF e1
  <2>5. u = [ICPU!addBranchTakenCycles(r) EXCEPT !.pc = r.opAdr]
    BY <1>2, <1>5, ICBranch
  <2>6. /\ e1.code[1] \in Branches /\ Takes(e1.code[1], e1.sr) /\ e1.ex = 1
        /\ PageBoundaryCrossed(e1.pc, e1.opAdr) <=> crossed
    BY <1>5, <2>3 DEF Later, Agree
  <2>7. ICPU!PageBoundaryCrossed(r.pc, r.opAdr) <=> crossed
    BY <1>2 DEF ICPU!PageBoundaryCrossed, PageBoundaryCrossed
  <2>8. ICPU!AddCycleAtPageBoundary(r.code)
    BY <1>1, <1>2, SharedMemory
  <2> HIDE DEF u, taken, crossed
  <2>9. CASE ~ crossed
    <3> DEFINE t == [e1 EXCEPT !.pc = e1.opAdr]
    <3>1. ExecHdlr(e1) = Done(t)
      BY <2>6, <2>9, BranchCycles
    <3>2. u = [[r EXCEPT !.cycles = r.cycles + 1] EXCEPT !.pc = r.opAdr]
      BY <2>5, <2>7, <2>8, <2>9 DEF ICPU!addBranchTakenCycles, ICPU!tick
    <3>3. /\ Micro(t) /\ Agree(t, e) /\ t.pc = r.opAdr /\ t.inter = "none" /\ t.code = e.code
          /\ t.op = e.op /\ t.cycles = e.cycles /\ t.ex = 1 /\ t.reads = e.reads
      BY <1>2, <2>3 DEF Later, Micro, Registers, Agree
    <3>4. /\ Whole(u) /\ Agree(u, r) /\ u.pc = r.opAdr /\ u.code = r.code /\ u.reads = r.reads
          /\ u.cycles = r.cycles + 1
      BY <1>2, <3>2 DEF Whole, Registers, Agree
    <3> HIDE DEF t
    <3>5. Agree(t, u) /\ Typed(u)
      <4>1. u.cycles \in Nat
        BY <1>2, <3>4
      <4> QED  BY <1>2, <3>3, <3>4, <4>1 DEF Agree, Typed, TypedMemory
    <3>6. 1 + 1 = Steps(e.code) + 1 /\ 1 \in 0 .. 2
      BY <1>1
    <3>7. Closes(t, u, e, r, 1)
      BY <1>1, <1>2, <1>3, <3>3, <3>4, <3>5, <3>6 DEF Closes
    <3>8. Finished(Done(t), u, c, e.code)
      BY <1>1, <3>7, Closing
    <3>9. Leads(ExecHdlr(e1), Done(t))
      BY <3>1, LeadsNowhere
    <3> QED  BY <2>1, <2>4, <3>8, <3>9, ExecutesOn DEF Executed, u, e1
  <2>10. CASE crossed
    <3> DEFINE s1 == initDummyOperandRead(NextEx(e1))
               e2 == Access(s1)
    <3>1. ExecHdlr(e1) = s1
      BY <2>6, <2>10, BranchCycles
    <3>2. Address(r.pc) = r.pc
      <4>1. r.pc \in Int
        BY <1>2 DEF IsWord
      <4> QED  BY <1>2, <4>1, Wrapped DEF Address
    <3>3. Later(s1, e, 2, e.reads) /\ s1.adr = r.pc
      <4>1. e1.pc % 65536 = r.pc
        BY <1>2, <2>3, <3>2 DEF Later, Address
      <4> QED  BY <2>3, <4>1 DEF initDummyOperandRead, prepMemRead, NextEx, Later, Micro,
         Registers, Agree
    <3> HIDE DEF s1
    <3>4. Later(e2, e, 2, e.reads \cup {r.pc})
      BY <3>3, ReadsLater
    <3> HIDE DEF e2
    <3> DEFINE t == [e2 EXCEPT !.pc = e2.opAdr]
    <3>5. ExecHdlr(e2) = Done(t)
      <4>1. e2.code[1] \in Branches /\ Takes(e2.code[1], e2.sr) /\ e2.ex = 2
        BY <1>5, <3>4 DEF Later, Agree, taken
      <4> QED  BY <4>1, BranchCycles
    <3> DEFINE v == ICPU!Touch(r, r.pc)
    <3>6. u = [[v EXCEPT !.cycles = v.cycles + 2] EXCEPT !.pc = r.opAdr]
      BY <2>5, <2>7, <2>8, <2>10 DEF ICPU!addBranchTakenCycles, ICPU!tick
    <3>7. Carried(v, r) /\ v.reads = r.reads \cup {r.pc} /\ v.cycles = r.cycles
      BY <1>2, CarriedItself, TouchesOne
    <3> HIDE DEF v
    <3>8. /\ Micro(t) /\ Agree(t, e) /\ t.pc = r.opAdr /\ t.inter = "none" /\ t.code = e.code
          /\ t.op = e.op /\ t.cycles = e.cycles /\ t.ex = 2 /\ t.reads = e.reads \cup {r.pc}
      BY <1>2, <3>4 DEF Later, Micro, Registers, Agree
    <3>9. /\ Whole(u) /\ Agree(u, r) /\ u.pc = r.opAdr /\ u.code = r.code
          /\ u.reads = r.reads \cup {r.pc} /\ u.cycles = r.cycles + 2
      BY <1>2, <3>6, <3>7 DEF Carried, Whole, Registers, Agree
    <3> HIDE DEF t
    <3>10. Agree(t, u) /\ Typed(u)
      <4>1. u.cycles \in Nat
        BY <1>2, <3>9
      <4> QED  BY <1>2, <3>8, <3>9, <4>1 DEF Agree, Typed, TypedMemory
    <3>11. 2 + 1 = Steps(e.code) + 2 /\ 2 \in 0 .. 2
      BY <1>1
    <3>12. Seen(t.reads, u.reads)
      <4>1. Seen(e.reads \cup {r.pc}, r.reads \cup {r.pc})
        BY <1>3, SeenAlso
      <4>2. t.reads = e.reads \cup {r.pc} /\ u.reads = r.reads \cup {r.pc}
        BY <3>8, <3>9
      <4> QED  BY <4>1, <4>2
    <3>13. Closes(t, u, e, r, 2)
      BY <1>1, <1>2, <3>8, <3>9, <3>10, <3>11, <3>12 DEF Closes
    <3>14. Finished(Done(t), u, c, e.code)
      BY <1>1, <3>13, Closing
    <3>15. Leads(ExecHdlr(e1), Done(t))
      <4>1. s1.exec = "EXECUTE"
        BY <3>3 DEF Later
      <4> QED  BY <3>1, <3>5, <4>1, LeadsNowhere, ExecutesOn DEF e2
    <3> QED  BY <2>1, <2>4, <3>14, <3>15, ExecutesOn DEF Executed, u, e1
  <2> QED  BY <2>9, <2>10
<1> QED  BY <1>4, <1>5

\* What works on the operand that has been read.
Users == {"LDA", "LDX", "LDY", "AND", "EOR", "ORA", "CMP", "CPX", "CPY", "ALR", "ARR", "ANC", "ANC2",
          "LAS", "LAX", "SBX", "ADC", "SBC", "BIT"}
\* What works on registers alone, in one cycle.
Inner == {"TAX", "TAY", "TSX", "TXA", "TYA", "DEX", "DEY", "INX", "INY",
          "CLC", "CLD", "CLI", "CLV", "SEC", "SED", "SEI", "NOP", "TXS"}

\* What the table says of instructions that work on an operand and a register.
LEMMA UserKind ==
  ASSUME NEW o, MarkedWell(o), o[1] \in Users
  PROVE  Uses(o) /\ Steps(o) = 1 /\ ~ Modifies(o) /\ o[2] # "Accumulator" /\ o[1] # "JSR"
<1>1. o[2] \in FullModes \cup {"Immediate", "ZeroPage_Y"}
  <2>1. o[2] \in ModesOf(o[1])
    BY Opcode DEF MarkedWell
  <2> QED  BY <2>1 DEF Users, ModesOf, Branches, Reads, Combined, Stores, Shifts, Counts, FullModes,
       ByteImmediates, OneByte
<1>2. ~ WritesMem(o) /\ ~ Modifies(o)
  BY DEF Users, WritesMem, Modifies, Stores, Shifts, Counts, Combined
<1>3. Uses(o)
  BY <1>1 DEF Uses, ReadsMem, NoMemory, FullModes, Users, Stores
<1>4. o[2] # "Accumulator" /\ o[2] # "Implied" /\ o[1] # "JSR"
  BY <1>1 DEF FullModes, Users
<1> QED  BY <1>2, <1>3, <1>4 DEF Steps

\* What the table says of instructions that work on registers alone.
LEMMA InnerKind ==
  ASSUME NEW o, MarkedWell(o), o[1] \in Inner
  PROVE  Steps(o) = 1 /\ ~ Modifies(o) /\ o[2] = "Implied" /\ o[1] # "JSR"
<1>1. o[2] = "Implied"
  <2>1. o[2] \in ModesOf(o[1])
    BY Opcode DEF MarkedWell
  <2> QED  BY <2>1 DEF Inner, ModesOf, Branches, Reads, Combined, Stores, Shifts, Counts, FullModes,
       ByteImmediates, OneByte
<1>2. ~ Modifies(o)
  BY <1>1, NoMemoryKinds DEF NoMemory
<1>3. Steps(o) = 1
  BY <1>1 DEF Inner, Steps, OneByteCycles
<1> QED  BY <1>1, <1>2, <1>3 DEF Inner

\* What the table says of JMP.
LEMMA JumpKind ==
  ASSUME NEW o, MarkedWell(o), o[1] = "JMP"
  PROVE  Steps(o) = 1 /\ ~ Modifies(o) /\ o[2] # "Accumulator" /\ ~ Plain(o)
<1>1. o[2] \in {"Absolute", "Indirect"}
  <2>1. o[2] \in ModesOf(o[1])
    BY Opcode DEF MarkedWell
  <2> QED  BY <2>1 DEF ModesOf, Branches, Reads, Combined, Stores, Shifts, Counts, FullModes,
       ByteImmediates, OneByte
<1>2. ~ WritesMem(o) /\ ~ Modifies(o)
  BY JumpCycles DEF Modifies
<1> QED  BY <1>1, <1>2 DEF Steps, Plain

\* The instructions that P6502CC executes in one cycle.
LEMMA AtOnceExecuted ==
  ASSUME NEW e, NEW r, NEW c, Ready(e, r, c), MarkedWell(e.code),
         e.code[1] \in Users \cup Inner \cup {"JMP"}
  PROVE  Executed(e, r, c)
<1> DEFINE i == e.code[1]
<1>1. Both(e, r)
  BY DEF Ready, Both
<1>2. Steps(e.code) = 1 /\ ~ Modifies(e.code) /\ i # "JSR"
  BY UserKind, InnerKind, JumpKind
<1>3. ASSUME Alike(e, r), e.code[2] # "Accumulator" PROVE Executed(e, r, c)
  <2>1. PICK t : Worked(t, ICPU!ExecHdlr(r), e, r) /\ ExecHdlr(e) = Done(t)
    BY <1>3 DEF Alike
  <2> QED  BY <1>2, <1>3, <2>1, EndsAtOnce
<1>4. CASE i \in Users
  <2>1. Uses(e.code) /\ e.code[2] # "Accumulator"
    BY <1>4, UserKind
  <2>2. e.rv = r.rv /\ IsByte(r.rv)
    BY <1>2, <2>1 DEF Ready, Elsewhere, Apart
  <2>3. Alike(e, r)
    BY <1>1, <1>4, <2>2, LoadsAlike, ComparesAlike, UnofficialAlike, ArithmeticAlike DEF Users
  <2> QED  BY <1>3, <2>1, <2>3
<1>5. CASE i \in Inner
  <2>1. e.code[2] # "Accumulator"
    BY <1>5, InnerKind
  <2>2. Alike(e, r)
    BY <1>1, <1>5, MovesAlike, FlagsAlike, OthersAlike DEF Inner
  <2> QED  BY <1>3, <2>1, <2>2
<1>6. CASE i = "JMP"
  <2>1. e.code[2] # "Accumulator" /\ ~ Plain(e.code)
    BY <1>6, JumpKind
  <2>2. e.opAdr = r.opAdr /\ IsWord(r.opAdr)
    BY <2>1 DEF Ready
  <2>3. Alike(e, r)
    BY <1>1, <1>6, <2>2, OthersAlike
  <2> QED  BY <1>3, <2>1, <2>3
<1> QED  BY <1>4, <1>5, <1>6

-----------------------------------------------------------------------------
(* Instructions that write.                                                *)

\* q has written v, and changed nothing else.
Wrote(u, q, adr, v) ==
  /\ u.ram = Stored(q, adr, v).ram /\ u.writes = Stored(q, adr, v).writes
  /\ u.a = q.a /\ u.x = q.x /\ u.y = q.y /\ u.sp = q.sp /\ u.sr = q.sr /\ u.pc = q.pc
  /\ u.b1 = q.b1 /\ u.b2 = q.b2 /\ u.seed = q.seed /\ u.rv = q.rv
  /\ u.code = q.code /\ u.cycles = q.cycles /\ u.reads = q.reads
  /\ u.opAdr = q.opAdr /\ u.op16 = q.op16

\* What a write changes, in the record of either processor.
LEMMA Writes ==
  ASSUME NEW q, Registers(q), NEW adr, NEW v
  PROVE  /\ Wrote(Stored(q, adr, v), q, adr, v) /\ Registers(Stored(q, adr, v))
         /\ Micro(q) => /\ Micro(Stored(q, adr, v))
                        /\ \A f \in {"exec", "op", "ex", "inter", "data", "rw", "adr", "calc", "tmp"} :
                             Stored(q, adr, v)[f] = q[f]
         /\ Whole(q) => /\ Whole(Stored(q, adr, v)) /\ Stored(q, adr, v).opcodePC = q.opcodePC
         /\ ICPU!Stored(q, adr, v) = Stored(q, adr, v)
<1>1. Wrote(Stored(q, adr, v), q, adr, v) /\ Registers(Stored(q, adr, v))
  BY DEF Wrote, Stored, Registers
<1>2. Micro(q) => /\ Micro(Stored(q, adr, v))
                  /\ \A f \in {"exec", "op", "ex", "inter", "data", "rw", "adr", "calc", "tmp"} :
                       Stored(q, adr, v)[f] = q[f]
  BY DEF Stored, Micro, Registers
<1>3. Whole(q) => Whole(Stored(q, adr, v)) /\ Stored(q, adr, v).opcodePC = q.opcodePC
  BY DEF Stored, Whole, Registers
<1>4. ICPU!Stored(q, adr, v) = Stored(q, adr, v)
  BY DEF ICPU!Stored, Stored, ICPU!Writable, Writable, ICPU!RomStart, RomStart
<1> QED  BY <1>1, <1>2, <1>3, <1>4

\* A write made by both leaves them alike.
LEMMA WritesAlike ==
  ASSUME NEW s, Registers(s), NEW q, Registers(q), Agree(s, q), NEW adr, NEW v, IsByte(v),
         TypedMemory(q)
  PROVE  Agree(Stored(s, adr, v), Stored(q, adr, v)) /\ TypedMemory(Stored(q, adr, v))
<1>1. Agree(Stored(s, adr, v), Stored(q, adr, v))
  BY DEF Stored, Agree, Registers
<1> DEFINE u == Stored(q, adr, v)
<1>2. u.b1 = q.b1 /\ u.b2 = q.b2 /\ u.seed = q.seed
  BY DEF Stored, Registers
<1>3. ASSUME NEW n \in DOMAIN u.ram PROVE IsByte(u.ram[n])
  <2>1. CASE Writable(adr)
    <3>1. u.ram = [x \in {adr} \cup DOMAIN q.ram |-> IF x \in {adr} THEN v ELSE q.ram[x]]
      BY <2>1 DEF Stored, Registers
    <3> HIDE DEF u
    <3> QED  BY <1>3, <3>1 DEF TypedMemory
  <2>2. CASE ~ Writable(adr)
    <3>1. u.ram = q.ram
      BY <2>2 DEF Stored, Registers
    <3> HIDE DEF u
    <3> QED  BY <1>3, <3>1 DEF TypedMemory
  <2> QED  BY <2>1, <2>2
<1> HIDE DEF u
<1>4. TypedMemory(u)
  BY <1>2, <1>3 DEF TypedMemory
<1> QED  BY <1>1, <1>4 DEF u

\* s is the cycle-accurate processor ex cycles after e, and q the other one when it has
\* done as much of the instruction that starts at r.
Beside(s, q, e, r, ex) ==
  /\ Micro(s) /\ Whole(q) /\ Agree(s, q) /\ s.pc = q.pc /\ Typed(q) /\ Seen(s.reads, q.reads)
  /\ s.code = e.code /\ q.code = r.code /\ s.opAdr = e.opAdr /\ s.op16 = e.op16
  /\ s.op = e.op /\ s.cycles = e.cycles /\ q.cycles = r.cycles /\ q.opAdr = r.opAdr
  /\ s.inter = e.inter /\ s.exec = e.exec /\ s.ex = ex

\* A cycle of P6502CC that writes is a write of P6502IC.
LEMMA WriteCycle ==
  ASSUME NEW s, NEW q, NEW e, NEW r, NEW ex \in Nat, Beside(s, q, e, r, ex),
         NEW adr, IsWord(adr), NEW v, IsByte(v)
  PROVE  LET p == prepMemWrite(NextEx(s), adr, v)
             t == Access(p)
         IN  /\ p.exec = e.exec /\ Beside(t, Stored(q, adr, v), e, r, ex + 1)
             /\ t.rv = s.rv /\ t.calc = s.calc /\ t.tmp = s.tmp /\ t.data = v
<1> DEFINE p == prepMemWrite(NextEx(s), adr, v)
           t == Access(p)
           u == Stored(q, adr, v)
<1>1. Address(adr) = adr
  BY Wrapped DEF Address, IsWord
<1>2. /\ Micro(p) /\ p.rw = "write" /\ p.adr = Address(adr) /\ p.data = v /\ p.ex = s.ex + 1
      /\ p.exec = s.exec /\ p.op = s.op /\ p.inter = s.inter /\ p.calc = s.calc /\ p.tmp = s.tmp
      /\ p.rv = s.rv /\ p.code = s.code /\ p.cycles = s.cycles /\ p.pc = s.pc /\ p.opAdr = s.opAdr
      /\ p.op16 = s.op16 /\ p.reads = s.reads /\ Agree(p, s)
  BY DEF Beside, prepMemWrite, NextEx, Micro, Registers, Agree, Address
<1> HIDE DEF p
<1>3. t = Stored(p, adr, v)
  BY <1>1, <1>2 DEF Access
<1>4. Agree(p, q) /\ TypedMemory(q) /\ Registers(p) /\ Registers(q) /\ Whole(q)
  BY <1>2 DEF Beside, Typed, Agree, Micro, Whole
<1> HIDE DEF t, u
<1>5. Agree(t, u) /\ TypedMemory(u)
  BY <1>3, <1>4, WritesAlike DEF u
<1>6. /\ Micro(t) /\ Wrote(t, p, adr, v)
      /\ \A f \in {"exec", "op", "ex", "inter", "data", "rw", "adr", "calc", "tmp"} : t[f] = p[f]
  BY <1>2, <1>3, <1>4, Writes
<1>7. Whole(u) /\ Wrote(u, q, adr, v)
  BY <1>4, Writes DEF u
<1>8. Typed(u)
  BY <1>5, <1>7 DEF Beside, Typed, Wrote
<1>9. /\ t.exec = p.exec /\ t.op = p.op /\ t.ex = p.ex /\ t.inter = p.inter /\ t.data = p.data
      /\ t.calc = p.calc /\ t.tmp = p.tmp
  BY <1>6
<1>10. Beside(t, u, e, r, ex + 1)
  BY <1>2, <1>5, <1>6, <1>7, <1>8, <1>9 DEF Beside, Wrote
<1> QED  BY <1>2, <1>6, <1>9, <1>10 DEF p, t, u, Beside, Wrote

\* The last cycle of an instruction of several.
LEMMA EndsLater ==
  ASSUME NEW e, NEW r, NEW c, NEW s, NEW q, NEW ex \in Nat, NEW t, NEW u,
         Ready(e, r, c), MarkedWell(e.code), e.code[1] # "JSR",
         Beside(s, q, e, r, ex), ex + 1 = Steps(e.code), Worked(t, u, s, q)
  PROVE  Finished(Done(t), u, c, e.code)
<1>1. Agree(t, u) /\ Typed(u)
  BY DEF Worked, Beside, Agree, Rest, Typed, TypedMemory
<1>2. Seen(t.reads, u.reads)
  BY DEF Worked, Beside, Rest
<1>3. /\ r.cycles \in Nat /\ r.cycles + 0 = r.cycles /\ ex + 1 = Steps(e.code) + 0 /\ ex \in Nat
      /\ e.inter = "none"
  BY DEF Ready, Typed
<1>4. Closes(t, u, e, r, 0)
  BY <1>1, <1>2, <1>3 DEF Closes, Worked, Rest, Beside
<1> QED  BY <1>4, Closing

\* It starts beside itself.
LEMMA BesideItself ==
  ASSUME NEW e, NEW r, NEW c, Ready(e, r, c), Seen(e.reads, r.reads)
  PROVE  Beside(e, r, e, r, 0)
BY DEF Ready, Beside

\* Processors side by side are ready alike.
LEMMA BesideBoth ==
  ASSUME NEW s, NEW q, NEW e, NEW r, NEW ex, e.code = r.code, Beside(s, q, e, r, ex)
  PROVE  Both(s, q)
BY DEF Beside, Both

\* What the table says of the stores.
LEMMA StoreKind ==
  ASSUME NEW o, MarkedWell(o), o[1] \in Stores
  PROVE  Steps(o) = 2 /\ ~ Modifies(o) /\ o[1] # "JSR" /\ ~ Plain(o) /\ o[2] # "Accumulator"
<1>1. o[2] \in FullModes \cup {"ZeroPage_Y"}
  <2>1. o[2] \in ModesOf(o[1])
    BY Opcode DEF MarkedWell
  <2> QED  BY <2>1 DEF ModesOf, Branches, Reads, Combined, Stores, Shifts, Counts, FullModes,
       ByteImmediates, OneByte
<1>2. WritesMem(o) /\ ~ Modifies(o)
  BY <1>1 DEF WritesMem, Modifies, FullModes, NoMemory, Stores
<1> QED  BY <1>1, <1>2 DEF Steps, FullModes, Plain, Stores

\* STA, STX and STY.
LEMMA StoreExecuted ==
  ASSUME NEW e, NEW r, NEW c, Ready(e, r, c), MarkedWell(e.code), e.code[1] \in Stores
  PROVE  Executed(e, r, c)
<1> DEFINE i == e.code[1]
           v == IF i = "STA" THEN r.a ELSE IF i = "STX" THEN r.x ELSE r.y
<1>1. /\ Steps(e.code) = 2 /\ ~ Modifies(e.code) /\ i # "JSR" /\ ~ Plain(e.code)
      /\ e.code[2] # "Accumulator"
  BY StoreKind
<1>2. /\ e.a = r.a /\ e.x = r.x /\ e.y = r.y /\ r.code = e.code /\ e.opAdr = r.opAdr
      /\ IsWord(r.opAdr)
      /\ IsByte(r.a) /\ IsByte(r.x) /\ IsByte(r.y) /\ e.ex = 0 /\ e.exec = "EXECUTE"
  BY <1>1 DEF Ready, Agree, Typed
<1>3. Seen(e.reads, r.reads)
  BY <1>1 DEF Ready, Elsewhere, Apart, Unread
<1>4. ICPU!ExecHdlr(r) = Stored(r, r.opAdr, v)
  <2>1. /\ i = "STA" => ICPU!ExecHdlr(r) = ICPU!STAExecHdlr(r)
        /\ i = "STX" => ICPU!ExecHdlr(r) = ICPU!STXExecHdlr(r)
        /\ i = "STY" => ICPU!ExecHdlr(r) = ICPU!STYExecHdlr(r)
    BY <1>2, Zenon DEF ICPU!ExecHdlr
  <2>2. \A w : ICPU!Stored(r, r.opAdr, w) = Stored(r, r.opAdr, w)
    BY Writes DEF Ready, Whole
  <2>3. CASE i = "STA"
    BY <2>1, <2>2, <2>3 DEF ICPU!STAExecHdlr
  <2>4. CASE i = "STX"
    BY <2>1, <2>2, <2>4 DEF ICPU!STXExecHdlr
  <2>5. CASE i = "STY"
    BY <2>1, <2>2, <2>5 DEF ICPU!STYExecHdlr
  <2> QED  BY <2>3, <2>4, <2>5 DEF Stores
<1>5. ASSUME NEW s, s.code = e.code
      PROVE  ExecHdlr(s) = Write(s, IF i = "STA" THEN s.a ELSE IF i = "STX" THEN s.x ELSE s.y)
  <2>1. /\ i = "STA" => ExecHdlr(s) = STAExecHdlr(s)
        /\ i = "STX" => ExecHdlr(s) = STXExecHdlr(s)
        /\ i = "STY" => ExecHdlr(s) = STYExecHdlr(s)
    BY <1>5, Zenon DEF ExecHdlr
  <2> QED  BY <2>1 DEF STAExecHdlr, STXExecHdlr, STYExecHdlr, Stores
<1> DEFINE p == prepMemWrite(NextEx(e), r.opAdr, v)
           t == Access(p)
           u == Stored(r, r.opAdr, v)
<1>6. ExecHdlr(e) = p
  BY <1>2, <1>5 DEF Write
<1>7. Beside(e, r, e, r, 0) /\ IsByte(v)
  BY <1>2, <1>3, BesideItself
<1> HIDE DEF v
<1>8. p.exec = "EXECUTE" /\ Beside(t, u, e, r, 0 + 1)
  BY <1>2, <1>7, WriteCycle
<1> HIDE DEF p, t, u
<1>9. ExecHdlr(t) = Done(t)
  <2>1. t.code = e.code /\ t.ex = 1
    BY <1>8 DEF Beside
  <2> QED  BY <1>5, <2>1 DEF Write
<1>10. Worked(t, u, t, u)
  <2>1. Both(t, u)
    BY <1>2, <1>8, BesideBoth
  <2> QED  BY <2>1, SetItself, SetWorked
<1>11. Finished(Done(t), u, c, e.code)
  BY <1>1, <1>8, <1>10, EndsLater
<1>12. Leads(ExecHdlr(t), Done(t))
  BY <1>9, LeadsNowhere
<1>13. Leads(ExecHdlr(e), Done(t))
  BY <1>6, <1>8, <1>12, ExecutesOn DEF t
<1> QED  BY <1>4, <1>11, <1>13 DEF Executed, u

-----------------------------------------------------------------------------
(* The stack.                                                              *)

\* What an instruction goes on with, besides its registers.
Holds(t, s) == t.rv = s.rv /\ t.calc = s.calc /\ t.tmp = s.tmp

\* The stack is in memory and no device's register.
LEMMA StackPlace ==
  ASSUME NEW sp, IsByte(sp)
  PROVE  IsWord(256 + sp) /\ Address(256 + sp) = 256 + sp /\ ~ Device(256 + sp)
<1>1. IsWord(256 + sp) /\ 256 + sp \in Int /\ ~ (256 + sp >= 512)
  BY DEF IsByte, IsWord
<1> QED  BY <1>1, Wrapped DEF Address, Device

\* A cycle of P6502CC that pushes is a push() of P6502IC.
LEMMA PushCycle ==
  ASSUME NEW s, NEW q, NEW e, NEW r, NEW ex \in Nat, Beside(s, q, e, r, ex), NEW v, IsByte(v)
  PROVE  LET p == Push(NextEx(s), v)
             t == Access(p)
             u == ICPU!push(q, v)
         IN  /\ p.exec = e.exec /\ Beside(t, u, e, r, ex + 1) /\ Holds(t, s)
             /\ u.sp = Byte(q.sp - 1) /\ u.pc = q.pc /\ u.sr = q.sr /\ u.opcodePC = q.opcodePC
<1> DEFINE adr == 256 + q.sp
           p == Push(NextEx(s), v)
           t == Access(p)
           q1 == [q EXCEPT !.sp = Byte(q.sp - 1)]
           w == Stored(q1, adr, v)
           u == ICPU!push(q, v)
<1>1. IsByte(q.sp) /\ Address(adr) = adr /\ s.sp = q.sp /\ IsByte(Byte(q.sp - 1))
  <2>1. IsByte(q.sp) /\ s.sp = q.sp
    BY DEF Beside, Typed, Agree
  <2>2. q.sp - 1 \in Int
    BY <2>1 DEF IsByte
  <2> QED  BY <2>1, <2>2, StackPlace, Wrapped
<1>2. /\ Micro(p) /\ p.rw = "write" /\ p.adr = Address(256 + s.sp) /\ p.data = v /\ p.ex = s.ex + 1
      /\ p.exec = s.exec /\ p.op = s.op /\ p.inter = s.inter /\ p.calc = s.calc /\ p.tmp = s.tmp
      /\ p.rv = s.rv /\ p.code = s.code /\ p.cycles = s.cycles /\ p.pc = s.pc /\ p.opAdr = s.opAdr
      /\ p.op16 = s.op16 /\ p.reads = s.reads /\ p.sp = Byte(s.sp - 1)
  BY DEF Beside, Push, prepMemWrite, NextEx, Micro, Registers, Address
<1>3. /\ p.a = s.a /\ p.x = s.x /\ p.y = s.y /\ p.sr = s.sr /\ p.ram = s.ram /\ p.writes = s.writes
      /\ p.b1 = s.b1 /\ p.b2 = s.b2 /\ p.seed = s.seed
  BY DEF Beside, Push, prepMemWrite, NextEx, Micro, Registers
<1> HIDE DEF p
<1>4. t = Stored(p, adr, v)
  BY <1>1, <1>2 DEF Access
<1>5. /\ Whole(q1) /\ Agree(p, q1) /\ q1.sp = Byte(q.sp - 1) /\ q1.pc = q.pc /\ q1.sr = q.sr
      /\ q1.opcodePC = q.opcodePC /\ q1.reads = q.reads /\ q1.code = q.code /\ q1.opAdr = q.opAdr
      /\ q1.cycles = q.cycles /\ Typed(q1)
  BY <1>1, <1>2, <1>3 DEF Beside, Whole, Registers, Agree, Typed, TypedMemory
<1>6. Whole(q)
  BY DEF Beside
<1>7. Whole(u) /\ Agree(u, w) /\ u.sp = Byte(q.sp - 1)
      /\ u.pc = q.pc /\ u.sr = q.sr /\ u.opcodePC = q.opcodePC /\ u.reads = q.reads
      /\ u.code = q.code
      /\ u.opAdr = q.opAdr /\ u.cycles = q.cycles
  <2>1. u = [Stored(q, adr, v) EXCEPT !.sp = Byte(q.sp - 1)]
    <3>1. ICPU!Stored(q, adr, v) = Stored(q, adr, v) /\ Stored(q, adr, v).sp = q.sp
      BY <1>6, Writes DEF Whole, Wrote
    <3> QED  BY <3>1, SharedMemory DEF ICPU!push
  <2> HIDE DEF u
  <2> QED  BY <1>6, <2>1 DEF Whole, Registers, Stored, Agree
<1> HIDE DEF t, u, q1, w, adr
<1>8. Agree(t, w) /\ TypedMemory(w)
  <2>1. Registers(p) /\ Registers(q1) /\ TypedMemory(q1)
    BY <1>2, <1>5 DEF Micro, Whole, Typed
  <2> QED  BY <1>4, <1>5, <2>1, WritesAlike DEF w
<1>9. /\ Micro(t) /\ Wrote(t, p, adr, v)
      /\ t.exec = p.exec /\ t.op = p.op /\ t.ex = p.ex /\ t.inter = p.inter
      /\ t.calc = p.calc /\ t.tmp = p.tmp
  <2>1. /\ Micro(t) /\ Wrote(t, p, adr, v)
        /\ \A f \in {"exec", "op", "ex", "inter", "data", "rw", "adr", "calc", "tmp"} : t[f] = p[f]
    BY <1>2, <1>4, Writes DEF Micro
  <2> QED  BY <2>1
<1>10. Agree(t, u)
  BY <1>7, <1>8 DEF Agree
<1>11. Typed(u)
  <2>1. IsByte(u.a) /\ IsByte(u.x) /\ IsByte(u.y) /\ IsByte(u.sr) /\ IsByte(u.sp)
    BY <1>1, <1>3, <1>7, <1>9, <1>10 DEF Agree, Wrote, Beside, Typed
  <2> QED  BY <1>7, <1>8, <2>1 DEF Agree, Typed, TypedMemory, Beside
<1>12. Beside(t, u, e, r, ex + 1)
  BY <1>2, <1>7, <1>9, <1>10, <1>11 DEF Beside, Wrote
<1>13. p.exec = e.exec /\ Holds(t, s)
  BY <1>2, <1>9 DEF Beside, Holds, Wrote
<1> QED  BY <1>7, <1>12, <1>13 DEF t, u, p

\* What the table says of the instructions that use the stack.
LEMMA StackKind ==
  ASSUME NEW o, MarkedWell(o), o[1] \in {"PHA", "PHP", "PLA", "PLP", "RTS", "RTI", "BRK"}
  PROVE  /\ o[2] = "Implied" /\ ~ Modifies(o) /\ o[1] # "JSR" /\ o[2] # "Accumulator"
         /\ o[1] \in {"PHA", "PHP"} => Steps(o) = 2
         /\ o[1] \in {"PLA", "PLP"} => Steps(o) = 3
         /\ o[1] \in {"RTS", "RTI"} => Steps(o) = 5
         /\ o[1] = "BRK" => Steps(o) = 6
<1>1. o[2] = "Implied"
  <2>1. o[2] \in ModesOf(o[1])
    BY Opcode DEF MarkedWell
  <2> QED  BY <2>1 DEF ModesOf, Branches, Reads, Combined, Stores, Shifts, Counts, FullModes,
       ByteImmediates, OneByte
<1>2. ~ Modifies(o)
  BY <1>1, NoMemoryKinds DEF NoMemory
<1> QED  BY <1>1, <1>2 DEF Steps, OneByteCycles

\* PHA and PHP.
LEMMA PushExecuted ==
  ASSUME NEW e, NEW r, NEW c, Ready(e, r, c), MarkedWell(e.code), e.code[1] \in {"PHA", "PHP"}
  PROVE  Executed(e, r, c)
<1> DEFINE i == e.code[1]
           v == IF i = "PHA" THEN r.a ELSE Or(r.sr, Or(B, B5))
<1>1. /\ Steps(e.code) = 2 /\ ~ Modifies(e.code) /\ i # "JSR" /\ e.code[2] # "Accumulator"
  BY StackKind
<1>2. /\ e.a = r.a /\ e.sr = r.sr /\ r.code = e.code /\ IsByte(r.a) /\ e.ex = 0
      /\ e.exec = "EXECUTE"
  BY <1>1 DEF Ready, Agree, Typed
<1>3. Seen(e.reads, r.reads)
  BY <1>1 DEF Ready, Elsewhere, Apart, Unread
<1>4. ICPU!ExecHdlr(r) = ICPU!push(r, v)
  <2>1. /\ i = "PHA" => ICPU!ExecHdlr(r) = ICPU!PHAExecHdlr(r)
        /\ i = "PHP" => ICPU!ExecHdlr(r) = ICPU!PHPExecHdlr(r)
    BY <1>2, Zenon DEF ICPU!ExecHdlr
  <2>2. ICPU!B = B /\ ICPU!B5 = B5
    BY DEF ICPU!B, B, ICPU!B5, B5
  <2> QED  BY <2>1, <2>2, SharedBits DEF ICPU!PHAExecHdlr, ICPU!PHPExecHdlr
<1>5. ASSUME NEW s, s.code = e.code
      PROVE  ExecHdlr(s) = IF s.ex = 0
                           THEN Push(NextEx(s), IF i = "PHA" THEN s.a ELSE Or(s.sr, Or(B, B5)))
                           ELSE Done(s)
  <2>1. /\ i = "PHA" => ExecHdlr(s) = PHAExecHdlr(s)
        /\ i = "PHP" => ExecHdlr(s) = PHPExecHdlr(s)
    BY <1>5, Zenon DEF ExecHdlr
  <2> QED  BY <2>1 DEF PHAExecHdlr, PHPExecHdlr
<1> DEFINE p == Push(NextEx(e), v)
           t == Access(p)
           u == ICPU!push(r, v)
<1>6. ExecHdlr(e) = p
  BY <1>2, <1>5
<1>7. Beside(e, r, e, r, 0) /\ IsByte(v)
  BY <1>2, <1>3, BesideItself, BitsAreBytes
<1> HIDE DEF v
<1>8. p.exec = "EXECUTE" /\ Beside(t, u, e, r, 0 + 1)
  BY <1>2, <1>7, PushCycle
<1> HIDE DEF p, t, u
<1>9. ExecHdlr(t) = Done(t)
  <2>1. t.code = e.code /\ t.ex = 1
    BY <1>8 DEF Beside
  <2> QED  BY <1>5, <2>1
<1>10. Worked(t, u, t, u)
  <2>1. Both(t, u)
    BY <1>2, <1>8, BesideBoth
  <2> QED  BY <2>1, SetItself, SetWorked
<1>11. Finished(Done(t), u, c, e.code)
  BY <1>1, <1>8, <1>10, EndsLater
<1>12. Leads(ExecHdlr(t), Done(t))
  BY <1>9, LeadsNowhere
<1>13. Leads(ExecHdlr(e), Done(t))
  BY <1>6, <1>8, <1>12, ExecutesOn DEF t
<1> QED  BY <1>4, <1>11, <1>13 DEF Executed, u

\* The stack pointer k places up.
Popped(q, k) == [q EXCEPT !.sp = Byte(q.sp + k)]

\* A sum may be cut to eight bits before or after.
LEMMA ByteOfByte ==
  ASSUME NEW m \in Int, NEW n \in Int PROVE Byte(Byte(m) + n) = Byte(m + n)
<1>1. ((m % 256) + n) % 256 = (m + n) % 256
  OBVIOUS
<1> QED  BY <1>1 DEF Byte

\* Counting the cycle leaves the processors side by side.
LEMMA BesideNext ==
  ASSUME NEW s, NEW q, NEW e, NEW r, NEW ex \in Nat, Beside(s, q, e, r, ex)
  PROVE  /\ Beside(NextEx(s), q, e, r, ex + 1)
         /\ NextEx(s).data = s.data /\ NextEx(s).tmp = s.tmp /\ NextEx(s).rw = s.rw
         /\ NextEx(s).adr = s.adr
BY DEF Beside, NextEx, Micro, Registers, Agree

\* What is kept between the cycles that pull.
LEMMA BesideSet ==
  ASSUME NEW s, NEW q, NEW e, NEW r, NEW ex, Beside(s, q, e, r, ex), NEW v
  PROVE  /\ Beside([s EXCEPT !.tmp = v], q, e, r, ex) /\ [s EXCEPT !.tmp = v].tmp = v
         /\ IsByte(v) => Beside([s EXCEPT !.sr = v], [q EXCEPT !.sr = v], e, r, ex)
         /\ IsWord(v) => Beside([s EXCEPT !.pc = v], [q EXCEPT !.pc = v], e, r, ex)
<1>1. /\ Beside([s EXCEPT !.tmp = v], q, e, r, ex) /\ [s EXCEPT !.tmp = v].tmp = v
  BY DEF Beside, Micro, Registers, Agree
<1>2. IsByte(v) => Beside([s EXCEPT !.sr = v], [q EXCEPT !.sr = v], e, r, ex)
  BY DEF Beside, Micro, Whole, Registers, Agree, Typed, TypedMemory
<1>3. IsWord(v) => Beside([s EXCEPT !.pc = v], [q EXCEPT !.pc = v], e, r, ex)
  BY DEF Beside, Micro, Whole, Registers, Agree, Typed, TypedMemory
<1> QED  BY <1>1, <1>2, <1>3

\* The other processor in another record that says the same.
Same(u, q) ==
  /\ Whole(u) /\ Agree(u, q) /\ u.pc = q.pc /\ u.code = q.code /\ u.cycles = q.cycles
  /\ u.opAdr = q.opAdr /\ Seen(q.reads, u.reads)

\* So does what P6502IC keeps to itself.
LEMMA BesideSame ==
  ASSUME NEW s, NEW q, NEW e, NEW r, NEW ex, Beside(s, q, e, r, ex), NEW u, Same(u, q)
  PROVE  Beside(s, u, e, r, ex)
<1>1. Agree(s, u) /\ Typed(u)
  BY DEF Beside, Same, Agree, Typed, TypedMemory
<1>2. Seen(s.reads, u.reads)
  BY DEF Beside, Same, Seen
<1> QED  BY <1>1, <1>2 DEF Beside, Same

\* A cycle that reads where no device is.
LEMMA QuietRead ==
  ASSUME NEW n, NEW q, NEW e, NEW r, NEW ex, Beside(n, q, e, r, ex),
         NEW p, Beside(p, q, e, r, ex), p.rw = "read", ~ Device(p.adr)
  PROVE  LET t == Access(p)
         IN  /\ p.exec = e.exec /\ Beside(t, q, e, r, ex)
             /\ t.data = Content(q, p.adr) /\ t.tmp = p.tmp
<1> DEFINE t == Access(p)
<1>1. /\ Micro(t) /\ Agree(t, p) /\ t.data = Content(p, p.adr) /\ t.tmp = p.tmp
      /\ t.reads = p.reads \cup {p.adr} /\ t.pc = p.pc /\ t.code = p.code /\ t.opAdr = p.opAdr
      /\ t.op16 = p.op16 /\ t.op = p.op /\ t.cycles = p.cycles /\ t.inter = p.inter
      /\ t.exec = p.exec /\ t.ex = p.ex
  BY DEF Beside, Access, Micro, Registers, Agree
<1> HIDE DEF t
<1>2. Content(p, p.adr) = Content(q, p.adr)
  BY ContentSame DEF Beside, Agree
<1>3. Seen(t.reads, q.reads)
  BY <1>1 DEF Beside, Seen
<1>4. Agree(t, q)
  BY <1>1 DEF Beside, Agree
<1>5. Beside(t, q, e, r, ex)
  BY <1>1, <1>3, <1>4 DEF Beside
<1>6. p.exec = e.exec
  BY DEF Beside
<1> QED  BY <1>1, <1>2, <1>5, <1>6 DEF t

\* A read of the stack that is prepared.
LEMMA StackRead ==
  ASSUME NEW n, NEW q, NEW e, NEW r, NEW ex, Beside(n, q, e, r, ex)
  PROVE  LET p == ReadStack(n)
         IN  /\ Beside(p, q, e, r, ex) /\ p.rw = "read" /\ p.adr = 256 + q.sp
             /\ ~ Device(p.adr) /\ p.tmp = n.tmp /\ p.sp = q.sp
<1> DEFINE p == ReadStack(n)
<1>1. IsByte(q.sp) /\ n.sp = q.sp
  BY DEF Beside, Typed, Agree
<1>2. Address(256 + q.sp) = 256 + q.sp /\ ~ Device(256 + q.sp)
  BY <1>1, StackPlace
<1>3. /\ Beside(p, q, e, r, ex) /\ p.rw = "read" /\ p.adr = Address(256 + n.sp) /\ p.tmp = n.tmp
      /\ p.sp = n.sp
  BY DEF Beside, ReadStack, prepMemRead, Micro, Registers, Agree, Address
<1> QED  BY <1>1, <1>2, <1>3

\* A read of the stack where the stack pointer is.
LEMMA ReadStackCycle ==
  ASSUME NEW n, NEW q, NEW e, NEW r, NEW ex, Beside(n, q, e, r, ex)
  PROVE  LET p == ReadStack(n)
             t == Access(p)
         IN  /\ p.exec = e.exec /\ Beside(t, q, e, r, ex)
             /\ t.data = Content(q, 256 + q.sp) /\ t.tmp = n.tmp
<1> DEFINE p == ReadStack(n)
<1>1. /\ Beside(p, q, e, r, ex) /\ p.rw = "read" /\ p.adr = 256 + q.sp
      /\ ~ Device(p.adr) /\ p.tmp = n.tmp
  BY StackRead
<1> HIDE DEF p
<1>2. /\ p.exec = e.exec /\ Beside(Access(p), q, e, r, ex)
      /\ Access(p).data = Content(q, p.adr) /\ Access(p).tmp = p.tmp
  BY <1>1, QuietRead
<1> QED  BY <1>1, <1>2 DEF p

\* A cycle of P6502CC that pulls is a byte more of P6502IC's pull().
LEMMA PullCycle ==
  ASSUME NEW n, NEW q, NEW e, NEW r, NEW ex, Whole(q), IsByte(q.sp), NEW k \in Nat,
         Beside(n, Popped(q, k), e, r, ex)
  PROVE  LET p == Pull(n)
             t == Access(p)
         IN  /\ p.exec = e.exec /\ Beside(t, Popped(q, k + 1), e, r, ex)
             /\ t.data = Content(q, 256 + Byte(q.sp + k)) /\ t.tmp = n.tmp
<1> DEFINE w == Popped(q, k)
           u == Popped(q, k + 1)
           p == Pull(n)
           p0 == ReadStack(n)
<1>1. /\ Beside(p0, w, e, r, ex) /\ p0.rw = "read" /\ p0.adr = 256 + w.sp
      /\ ~ Device(p0.adr) /\ p0.tmp = n.tmp /\ p0.sp = w.sp
  BY StackRead
<1>2. w.sp = Byte(q.sp + k) /\ Byte(w.sp + 1) = Byte(q.sp + (k + 1)) /\ IsByte(Byte(w.sp + 1))
  <2>1. q.sp \in Int /\ q.sp + k \in Int /\ (q.sp + k) + 1 = q.sp + (k + 1)
    BY DEF IsByte
  <2>2. w.sp = Byte(q.sp + k)
    BY DEF Popped, Whole, Registers
  <2>3. Byte(Byte(q.sp + k) + 1) = Byte((q.sp + k) + 1)
    <3> DEFINE m == q.sp + k
    <3>1. m \in Int /\ 1 \in Int
      BY <2>1
    <3> HIDE DEF m
    <3>2. Byte(Byte(m) + 1) = Byte(m + 1)
      BY <3>1, ByteOfByte
    <3> QED  BY <3>2 DEF m
  <2>4. IsByte(Byte(q.sp + (k + 1)))
    <3>1. q.sp + (k + 1) \in Int
      BY <2>1
    <3> QED  BY <3>1, Wrapped
  <2> QED  BY <2>1, <2>2, <2>3, <2>4
<1>3. u = [w EXCEPT !.sp = Byte(w.sp + 1)]
  BY <1>2 DEF Popped, Whole, Registers
<1>4. p = [p0 EXCEPT !.sp = Byte(w.sp + 1)]
  BY <1>1 DEF Pull
<1>5. Content(u, 256 + w.sp) = Content(q, 256 + Byte(q.sp + k))
  <2>1. u.ram = q.ram /\ u.b1 = q.b1 /\ u.b2 = q.b2 /\ u.seed = q.seed
    BY DEF Popped, Whole, Registers
  <2> HIDE DEF u, w
  <2> QED  BY <1>2, <2>1, ContentSame
<1> HIDE DEF p, p0, u, w
<1>6. Beside(p, u, e, r, ex) /\ p.rw = "read" /\ p.adr = p0.adr /\ p.tmp = p0.tmp
  BY <1>1, <1>2, <1>3, <1>4 DEF Beside, Micro, Whole, Registers, Agree, Typed, TypedMemory
<1>7. /\ p.exec = e.exec /\ Beside(Access(p), u, e, r, ex)
      /\ Access(p).data = Content(u, p.adr) /\ Access(p).tmp = p.tmp
  BY <1>1, <1>6, QuietRead
<1> QED  BY <1>1, <1>5, <1>6, <1>7 DEF p, u

\* Nothing is pulled yet.
LEMMA PoppedNone ==
  ASSUME NEW s, NEW q, NEW e, NEW r, NEW ex, Beside(s, q, e, r, ex)
  PROVE  Beside(s, Popped(q, 0), e, r, ex)
<1>1. q.sp \in Int /\ q.sp + 0 = q.sp /\ Byte(q.sp) = q.sp
  <2>1. IsByte(q.sp)
    BY DEF Beside, Typed
  <2>2. q.sp \in Int
    BY <2>1 DEF IsByte
  <2> QED  BY <2>1, <2>2, Wrapped
<1>2. Byte(q.sp + 0) = q.sp
  BY <1>1
<1>3. Same(Popped(q, 0), q)
  BY <1>2 DEF Beside, Same, Popped, Whole, Registers, Agree, Seen
<1> QED  BY <1>3, BesideSame

\* The n bytes on top of the stack have been pulled.
LEMMA PulledSame ==
  ASSUME NEW q, Whole(q), IsByte(q.sp), NEW n \in Nat
  PROVE  /\ Same(ICPU!pull(q, n), Popped(q, n))
         /\ \A k : ICPU!Top(q, k) = Content(q, 256 + Byte(q.sp + k))
<1> DEFINE u == ICPU!pull(q, n)
<1>1. \A k : ICPU!Top(q, k) = Content(q, 256 + Byte(q.sp + k))
  BY SharedMemory DEF ICPU!Top
<1>2. /\ Whole(u) /\ Agree(u, Popped(q, n)) /\ u.pc = q.pc /\ u.code = q.code /\ u.cycles = q.cycles
      /\ u.opAdr = q.opAdr /\ u.reads = q.reads \cup {256 + Byte(q.sp + k) : k \in 1 .. n}
      /\ Popped(q, n).pc = q.pc /\ Popped(q, n).code = q.code /\ Popped(q, n).cycles = q.cycles
      /\ Popped(q, n).opAdr = q.opAdr /\ Popped(q, n).reads = q.reads
  BY SharedMemory DEF ICPU!pull, Popped, Whole, Registers, Agree
<1> HIDE DEF u
<1>3. ASSUME NEW k \in 1 .. n PROVE ~ Device(256 + Byte(q.sp + k))
  <2>1. q.sp + k \in Int
    BY DEF IsByte
  <2>2. IsByte(Byte(q.sp + k))
    BY <2>1, Wrapped
  <2> QED  BY <2>2, StackPlace
<1>4. Seen(Popped(q, n).reads, u.reads)
  BY <1>2, <1>3 DEF Seen
<1> QED  BY <1>1, <1>2, <1>4 DEF Same, u

\* A status register that has been pulled is a byte.
LEMMA RestoredIsByte ==
  ASSUME NEW sr, NEW v PROVE IsByte(Restored(sr, v))
<1>1. And(sr, B5) \in Nat /\ And(sr, B5) <= 48
  <2>1. /\ ~ Flag(B5, 128) /\ ~ Flag(B5, 64) /\ ~ Flag(B5, 8) /\ ~ Flag(B5, 4) /\ ~ Flag(B5, 2)
        /\ ~ Flag(B5, 1)
    BY DEF Flag, Bit, B5
  <2> QED  BY <2>1 DEF And, Bitwise
<1>2. And(v, 255 - B5) \in Nat /\ And(v, 255 - B5) <= 207
  <2>1. ~ Flag(255 - B5, 32) /\ ~ Flag(255 - B5, 16)
    BY DEF Flag, Bit, B5
  <2> QED  BY <2>1 DEF And, Bitwise
<1> HIDE DEF And
<1>3. Restored(sr, v) = And(sr, B5) + And(v, 255 - B5)
  BY DEF Restored
<1> QED  BY <1>1, <1>2, <1>3 DEF IsByte

\* The stack pointer has been raised twice, or once, by the cycles that begin an
\* instruction that pulls.
LEMMA FirstPull ==
  ASSUME NEW e, NEW r, NEW c, Ready(e, r, c), Seen(e.reads, r.reads)
  PROVE  LET p == Pull(NextEx(e))
             t == Access(p)
         IN  p.exec = "EXECUTE" /\ Beside(t, Popped(r, 1), e, r, 1)
<1>1. Beside(e, Popped(r, 0), e, r, 0)
  BY BesideItself, PoppedNone
<1>2. Beside(NextEx(e), Popped(r, 0), e, r, 0 + 1)
  BY <1>1, BesideNext
<1> DEFINE n == NextEx(e)
<1> HIDE DEF n
<1>3. Whole(r) /\ IsByte(r.sp) /\ e.exec = "EXECUTE"
  BY DEF Ready, Typed
<1>4. Pull(n).exec = e.exec /\ Beside(Access(Pull(n)), Popped(r, 0 + 1), e, r, 0 + 1)
  BY <1>2, <1>3, PullCycle DEF n
<1> QED  BY <1>3, <1>4 DEF n

\* N and Z are set alike at the end.
LEMMA NZWorked ==
  ASSUME NEW s, NEW q, Both(s, q), NEW t, NEW u, Set(t, u, s, q, q.sr), NEW v
  PROVE  Worked(setNZflags(t, v), ICPU!setNZflags(u, v), s, q)
<1> DEFINE sr == NZ(q.sr, v)
<1>1. /\ Registers(t) /\ Registers(u) /\ t.sr = q.sr /\ u.sr = q.sr
      /\ IsByte(sr)
  BY SetWorked, NZIsByte
<1>2. setNZflags(t, v) = [t EXCEPT !.sr = sr] /\ ICPU!setNZflags(u, v) = [u EXCEPT !.sr = sr]
  BY <1>1, FlagsSet
<1> HIDE DEF sr
<1>3. Set([t EXCEPT !.sr = sr], [u EXCEPT !.sr = sr], s, q, sr)
  BY <1>1, SetFlags
<1> QED  BY <1>2, <1>3, SetWorked

\* PLA and PLP.
LEMMA PullExecuted ==
  ASSUME NEW e, NEW r, NEW c, Ready(e, r, c), MarkedWell(e.code), e.code[1] \in {"PLA", "PLP"}
  PROVE  Executed(e, r, c)
<1> DEFINE i == e.code[1]
           v == Content(r, 256 + Byte(r.sp + 1))
<1>1. /\ Steps(e.code) = 3 /\ ~ Modifies(e.code) /\ i # "JSR" /\ e.code[2] # "Accumulator"
  BY StackKind
<1>2. /\ r.code = e.code /\ e.ex = 0 /\ e.exec = "EXECUTE" /\ Whole(r) /\ IsByte(r.sp)
      /\ TypedMemory(r)
  BY <1>1 DEF Ready, Agree, Typed
<1>3. Seen(e.reads, r.reads)
  BY <1>1 DEF Ready, Elsewhere, Apart, Unread
<1> DEFINE u == ICPU!pull(r, 1)
<1>4. ICPU!ExecHdlr(r) = IF i = "PLA" THEN ICPU!LoadA(u, v) ELSE [u EXCEPT !.sr = Restored(u.sr, v)]
  <2>1. /\ i = "PLA" => ICPU!ExecHdlr(r) = ICPU!PLAExecHdlr(r)
        /\ i = "PLP" => ICPU!ExecHdlr(r) = ICPU!PLPExecHdlr(r)
    BY <1>2, Zenon DEF ICPU!ExecHdlr
  <2>2. ICPU!Top(r, 1) = v
    BY <1>2, PulledSame
  <2> QED  BY <2>1, <2>2, SharedBits DEF ICPU!PLAExecHdlr, ICPU!PLPExecHdlr
<1>5. ASSUME NEW s, s.code = e.code
      PROVE  /\ s.ex = 0 => ExecHdlr(s) = Pull(NextEx(s))
             /\ s.ex = 1 => ExecHdlr(s) = ReadStack(NextEx(s))
             /\ s.ex = 2 => ExecHdlr(s) = IF i = "PLA" THEN LoadA(s, s.data)
                                          ELSE Done([s EXCEPT !.sr = Restored(s.sr, s.data)])
  <2>1. /\ i = "PLA" => ExecHdlr(s) = PLAExecHdlr(s)
        /\ i = "PLP" => ExecHdlr(s) = PLPExecHdlr(s)
    BY <1>5, Zenon DEF ExecHdlr
  <2>2. CASE s.ex = 0
    BY <2>1, <2>2 DEF PLAExecHdlr, PLPExecHdlr
  <2>3. CASE s.ex = 1
    BY <2>1, <2>3 DEF PLAExecHdlr, PLPExecHdlr
  <2>4. CASE s.ex = 2
    BY <2>1, <2>4 DEF PLAExecHdlr, PLPExecHdlr
  <2> QED  BY <2>2, <2>3, <2>4
<1> DEFINE p1 == Pull(NextEx(e))
           t1 == Access(p1)
           n1 == NextEx(t1)
           p2 == ReadStack(n1)
           t2 == Access(p2)
           q == Popped(r, 1)
<1>6. ExecHdlr(e) = p1
  BY <1>2, <1>5
<1>7. p1.exec = "EXECUTE" /\ Beside(t1, q, e, r, 1)
  BY <1>3, FirstPull
<1> HIDE DEF p1, t1
<1>8. ExecHdlr(t1) = p2
  BY <1>5, <1>7 DEF Beside
<1>9. Beside(n1, q, e, r, 1 + 1)
  BY <1>7, BesideNext
<1> HIDE DEF n1
<1>10. p2.exec = e.exec /\ Beside(t2, q, e, r, 1 + 1) /\ t2.data = Content(q, 256 + q.sp)
  BY <1>9, ReadStackCycle
<1> HIDE DEF p2, t2
<1>11. Content(q, 256 + q.sp) = v /\ IsByte(v)
  <2>1. q.sp = Byte(r.sp + 1) /\ q.ram = r.ram /\ q.b1 = r.b1 /\ q.b2 = r.b2 /\ q.seed = r.seed
    BY <1>2 DEF Popped, Whole, Registers
  <2>2. 256 + Byte(r.sp + 1) \in Int
    <3>1. r.sp + 1 \in Int
      BY <1>2 DEF IsByte
    <3>2. IsByte(Byte(r.sp + 1))
      BY <3>1, Wrapped
    <3> QED  BY <3>2 DEF IsByte
  <2> HIDE DEF q
  <2>3. IsByte(v)
    BY <1>2, <2>2, ContentIsByte
  <2> QED  BY <2>1, <2>3, ContentSame
<1>12. Beside(t2, u, e, r, 2) /\ Both(t2, u)
  <2>1. Same(u, q)
    BY <1>2, PulledSame
  <2>2. Beside(t2, u, e, r, 2)
    BY <1>10, <2>1, BesideSame
  <2> QED  BY <1>2, <2>2, BesideBoth
<1> HIDE DEF u, q, v
<1>13. Set(t2, u, t2, u, u.sr) /\ t2.sr = u.sr
  BY <1>12, SetItself DEF Both, Agree
<1>14. ASSUME NEW t, Worked(t, ICPU!ExecHdlr(r), t2, u), ExecHdlr(t2) = Done(t)
       PROVE  Executed(e, r, c)
  <2>1. Finished(Done(t), ICPU!ExecHdlr(r), c, e.code)
    BY <1>1, <1>12, <1>14, EndsLater
  <2>2. Leads(ExecHdlr(t2), Done(t))
    BY <1>14, LeadsNowhere
  <2>3. Leads(ExecHdlr(t1), Done(t))
    BY <1>2, <1>8, <1>10, <2>2, ExecutesOn DEF t2
  <2>4. Leads(ExecHdlr(e), Done(t))
    BY <1>6, <1>7, <2>3, ExecutesOn DEF t1
  <2> QED  BY <2>1, <2>4 DEF Executed
<1>15. t2.code = e.code /\ t2.ex = 2 /\ t2.data = v
  BY <1>10, <1>11 DEF Beside
<1>16. CASE i = "PLA"
  <2> DEFINE t == [t2 EXCEPT !.a = v]
             w == [u EXCEPT !.a = v]
  <2>1. ExecHdlr(t2) = Done(setNZflags(t, v)) /\ ICPU!ExecHdlr(r) = ICPU!setNZflags(w, v)
    BY <1>4, <1>5, <1>15, <1>16 DEF LoadA, ICPU!LoadA
  <2>2. Set(t, w, t2, u, u.sr)
    <3> DEFINE old == u.sr
    <3>1. Set(t2, u, t2, u, old) /\ IsByte(v)
      BY <1>11, <1>13
    <3> HIDE DEF old
    <3>2. Set([t2 EXCEPT !.a = v], [u EXCEPT !.a = v], t2, u, old)
      BY <3>1, SetRegister
    <3> QED  BY <3>2 DEF old
  <2> HIDE DEF t, w
  <2>3. Worked(setNZflags(t, v), ICPU!setNZflags(w, v), t2, u)
    BY <1>12, <2>2, NZWorked
  <2> QED  BY <1>14, <2>1, <2>3
<1>17. CASE i = "PLP"
  <2> DEFINE sr == Restored(u.sr, v)
  <2>1. ExecHdlr(t2) = Done([t2 EXCEPT !.sr = sr]) /\ ICPU!ExecHdlr(r) = [u EXCEPT !.sr = sr]
    BY <1>4, <1>5, <1>13, <1>15, <1>17
  <2>2. IsByte(sr)
    BY RestoredIsByte
  <2> HIDE DEF sr
  <2>3. Worked([t2 EXCEPT !.sr = sr], [u EXCEPT !.sr = sr], t2, u)
    BY <1>13, <2>2, SetFlags, SetWorked
  <2> QED  BY <1>14, <2>1, <2>3
<1> QED  BY <1>16, <1>17

-----------------------------------------------------------------------------
(* Returning.                                                              *)

\* Same is transitive.
LEMMA SameOfSame ==
  ASSUME NEW u, NEW w, NEW q, Same(u, w), Same(w, q) PROVE Same(u, q)
BY DEF Same, Agree, Seen

\* A read that both make.
LEMMA ReadCycle ==
  ASSUME NEW n, NEW q, NEW e, NEW r, NEW ex, Beside(n, q, e, r, ex), NEW adr, IsWord(adr)
  PROVE  LET p == prepMemRead(n, adr)
             t == Access(p)
         IN  /\ p.exec = e.exec /\ Beside(t, ICPU!Touch(q, adr), e, r, ex)
             /\ t.data = Content(q, adr) /\ t.tmp = n.tmp
<1> DEFINE p == prepMemRead(n, adr)
           t == Access(p)
           u == ICPU!Touch(q, adr)
<1>1. Address(adr) = adr
  BY Wrapped DEF Address, IsWord
<1>2. /\ Micro(p) /\ Agree(p, n) /\ p.rw = "read" /\ p.adr = adr /\ p.tmp = n.tmp
      /\ p.reads = n.reads
      /\ p.pc = n.pc /\ p.code = n.code /\ p.opAdr = n.opAdr /\ p.op16 = n.op16 /\ p.op = n.op
      /\ p.cycles = n.cycles /\ p.inter = n.inter /\ p.exec = n.exec /\ p.ex = n.ex
  BY <1>1 DEF Beside, prepMemRead, Micro, Registers, Agree, Address
<1> HIDE DEF p
<1>3. /\ Micro(t) /\ Agree(t, p) /\ t.data = Content(p, p.adr) /\ t.tmp = p.tmp
      /\ t.reads = p.reads \cup {p.adr} /\ t.pc = p.pc /\ t.code = p.code /\ t.opAdr = p.opAdr
      /\ t.op16 = p.op16 /\ t.op = p.op /\ t.cycles = p.cycles /\ t.inter = p.inter
      /\ t.exec = p.exec /\ t.ex = p.ex
  BY <1>2 DEF Access, Micro, Registers, Agree
<1>4. /\ Whole(u) /\ Agree(u, q) /\ u.pc = q.pc /\ u.code = q.code /\ u.cycles = q.cycles
      /\ u.opAdr = q.opAdr /\ u.reads = q.reads \cup {adr}
  BY <1>1 DEF ICPU!Touch, Beside, Whole, Registers, Agree, Address
<1> HIDE DEF t, u
<1>5. Content(p, adr) = Content(q, adr)
  BY <1>2, ContentSame DEF Beside, Agree
<1>6. Seen(t.reads, u.reads)
  BY <1>2, <1>3, <1>4 DEF Beside, Seen
<1>7. Agree(t, u) /\ Typed(u)
  BY <1>2, <1>3, <1>4 DEF Beside, Agree, Typed, TypedMemory
<1>8. Beside(t, u, e, r, ex)
  BY <1>2, <1>3, <1>4, <1>6, <1>7 DEF Beside
<1>9. p.exec = e.exec
  BY <1>2 DEF Beside
<1> QED  BY <1>2, <1>3, <1>5, <1>8, <1>9 DEF p, t, u

\* The byte at the program counter, which goes on.
LEMMA ByteCycle ==
  ASSUME NEW n, NEW q, NEW e, NEW r, NEW ex, Beside(n, q, e, r, ex)
  PROVE  LET p == initOperandByteRead(n)
             t == Access(p)
         IN  /\ p.exec = e.exec /\ Beside(t, ICPU!PastByte(q), e, r, ex)
             /\ t.data = Content(q, q.pc) /\ t.tmp = n.tmp
<1> DEFINE p0 == prepMemRead(n, q.pc)
           t0 == Access(p0)
           u0 == ICPU!Touch(q, q.pc)
           p == initOperandByteRead(n)
           t == Access(p)
           u == ICPU!PastByte(q)
           v == Past(q.pc)
<1>1. IsWord(q.pc) /\ n.pc = q.pc /\ IsWord(v)
  BY PastIsWord DEF Beside, Typed
<1>2. /\ p0.exec = e.exec /\ Beside(t0, u0, e, r, ex)
      /\ t0.data = Content(q, q.pc) /\ t0.tmp = n.tmp
  BY <1>1, ReadCycle
<1>3. p = [p0 EXCEPT !.pc = v] /\ u = [u0 EXCEPT !.pc = v]
  <2>1. /\ "pc" \in DOMAIN n /\ "rw" \in DOMAIN n /\ "adr" \in DOMAIN n /\ "pc" \in DOMAIN q
        /\ "reads" \in DOMAIN q
    BY DEF Beside, Micro, Registers, Whole
  <2>2. p0.pc = n.pc /\ u0.pc = q.pc
    BY <2>1 DEF prepMemRead, ICPU!Touch
  <2>3. p = [p0 EXCEPT !.pc = v]
    BY <1>1, <2>2 DEF initOperandByteRead, Past
  <2>4. u = [u0 EXCEPT !.pc = v]
    BY <2>2 DEF ICPU!PastByte, Past
  <2> QED  BY <2>3, <2>4
<1>4. p.exec = p0.exec /\ Registers(p0) /\ Micro(p0)
  BY <1>3 DEF prepMemRead, Beside, Micro, Registers
<1> HIDE DEF v
<1>5. t = [t0 EXCEPT !.pc = v]
  <2>1. p0.rw = "read" /\ p.rw = "read" /\ p.adr = p0.adr /\ p.exec = p0.exec
    BY <1>3 DEF prepMemRead, Beside, Micro, Registers
  <2>2. Content(p, p.adr) = Content(p0, p0.adr)
    <3>1. p.ram = p0.ram /\ p.b1 = p0.b1 /\ p.b2 = p0.b2 /\ p.seed = p0.seed
      BY <1>3, <1>4 DEF Registers
    <3> QED  BY <2>1, <3>1, ContentSame
  <2> HIDE DEF p0
  <2> QED  BY <1>3, <1>4, <2>1, <2>2 DEF Access, Micro, Registers
<1> HIDE DEF p0, t0, u0, p, t, u
<1>6. Beside(t, u, e, r, ex)
  BY <1>1, <1>2, <1>3, <1>5, BesideSet
<1>7. t.data = t0.data /\ t.tmp = t0.tmp
  BY <1>5, <1>2 DEF Beside, Micro, Registers
<1> QED  BY <1>2, <1>4, <1>6, <1>7 DEF p, t, u

\* What lies k places up the stack.
Pulled(q, k) == Content(q, 256 + Byte(q.sp + k))

\* What is pulled is a byte.
LEMMA PulledIsByte ==
  ASSUME NEW q, Typed(q), NEW k \in Nat PROVE IsByte(Pulled(q, k))
<1>1. q.sp + k \in Int /\ TypedMemory(q)
  BY DEF Typed, IsByte
<1>2. IsByte(Byte(q.sp + k))
  BY <1>1, Wrapped
<1>3. 256 + Byte(q.sp + k) \in Int
  BY <1>2 DEF IsByte
<1> QED  BY <1>1, <1>3, ContentIsByte DEF Pulled

\* The second byte that RTS and RTI pull.
LEMMA SecondPull ==
  ASSUME NEW e, NEW r, NEW c, Ready(e, r, c), NEW t, Beside(t, Popped(r, 1), e, r, 1)
  PROVE  LET p == Pull(NextEx(t))
             u == Access(p)
         IN  p.exec = "EXECUTE" /\ Beside(u, Popped(r, 2), e, r, 2) /\ u.data = Pulled(r, 1)
<1> DEFINE n == NextEx(t)
<1>1. Beside(n, Popped(r, 1), e, r, 1 + 1)
  BY BesideNext
<1> HIDE DEF n
<1>2. Whole(r) /\ IsByte(r.sp) /\ e.exec = "EXECUTE"
  BY DEF Ready, Typed
<1>3. LET p == Pull(n)
          u == Access(p)
      IN  /\ p.exec = e.exec /\ Beside(u, Popped(r, 1 + 1), e, r, 1 + 1)
          /\ u.data = Content(r, 256 + Byte(r.sp + 1))
  BY <1>1, <1>2, PullCycle
<1> QED  BY <1>2, <1>3 DEF n, Pulled

\* The other processor reads the stack once more before it pulls.
LEMMA TouchedPulled ==
  ASSUME NEW r, Whole(r), IsByte(r.sp), NEW n \in Nat
  PROVE  Same(ICPU!pull(ICPU!Touch(r, r.sp), n), Popped(r, n))
<1> DEFINE w == ICPU!Touch(r, r.sp)
<1>1. IsByte(r.sp) /\ r.sp \in Int /\ r.sp % 65536 = r.sp /\ ~ Device(r.sp)
  <2>1. r.sp \in Int /\ ~ Device(r.sp)
    BY DEF IsByte, Device
  <2> QED  BY <2>1, Wrapped
<1>2. /\ Whole(w) /\ Agree(w, r) /\ w.pc = r.pc /\ w.code = r.code /\ w.cycles = r.cycles
      /\ w.opAdr = r.opAdr /\ w.reads = r.reads \cup {r.sp}
  BY <1>1 DEF ICPU!Touch, Whole, Registers, Agree
<1> HIDE DEF w
<1>3. w.sp = r.sp
  BY <1>2 DEF Agree
<1>4. Same(ICPU!pull(w, n), Popped(w, n))
  BY <1>2, <1>3, PulledSame
<1>5. Seen(r.reads, w.reads)
  BY <1>1, <1>2 DEF Seen
<1>6. Same(Popped(w, n), Popped(r, n))
  <2>1. /\ Whole(Popped(w, n)) /\ Agree(Popped(w, n), Popped(r, n))
    BY <1>2, <1>3 DEF Popped, Whole, Registers, Agree
  <2>2. /\ Popped(w, n).pc = w.pc /\ Popped(w, n).code = w.code /\ Popped(w, n).cycles = w.cycles
        /\ Popped(w, n).opAdr = w.opAdr /\ Popped(w, n).reads = w.reads
        /\ Popped(r, n).pc = r.pc /\ Popped(r, n).code = r.code /\ Popped(r, n).cycles = r.cycles
        /\ Popped(r, n).opAdr = r.opAdr /\ Popped(r, n).reads = r.reads
    BY <1>2 DEF Popped, Whole, Registers
  <2> QED  BY <1>2, <1>5, <2>1, <2>2 DEF Same
<1>7. Same(ICPU!pull(w, n), Popped(r, n))
  BY <1>4, <1>6, SameOfSame
<1> QED  BY <1>7 DEF w

\* The last cycle, when nothing is left to be done in it.
LEMMA EndsIdly ==
  ASSUME NEW e, NEW r, NEW c, NEW s, NEW q, NEW ex \in Nat,
         Ready(e, r, c), MarkedWell(e.code), e.code[1] # "JSR",
         Beside(s, q, e, r, ex), ex + 1 = Steps(e.code)
  PROVE  Finished(Done(s), q, c, e.code)
<1>1. Worked(s, q, s, q)
  <2>1. Both(s, q)
    BY BesideBoth DEF Ready
  <2> QED  BY <2>1, SetItself, SetWorked
<1> QED  BY <1>1, EndsLater

\* What decides which cycle is next.
LEMMA BesideAt ==
  ASSUME NEW s, NEW q, NEW e, NEW r, NEW ex \in Nat, Beside(s, q, e, r, ex), NEW k, k = ex
  PROVE  s.code = e.code /\ s.ex = k /\ s.exec = e.exec /\ Beside(s, q, e, r, k)
BY DEF Beside

\* What is kept for the next cycle, or set in it.
LEMMA BesideKept ==
  ASSUME NEW s, NEW q, NEW e, NEW r, NEW ex \in Nat, Beside(s, q, e, r, ex), NEW v
  PROVE  /\ Beside([NextEx(s) EXCEPT !.tmp = v], q, e, r, ex + 1)
         /\ [NextEx(s) EXCEPT !.tmp = v].tmp = v
         /\ IsWord(v) => Beside([NextEx(s) EXCEPT !.pc = v], [q EXCEPT !.pc = v], e, r, ex + 1)
         /\ IsByte(v) => Beside([NextEx(s) EXCEPT !.sr = v], [q EXCEPT !.sr = v], e, r, ex + 1)
<1> DEFINE n == NextEx(s)
           k == ex + 1
<1>1. Beside(n, q, e, r, k)
  BY BesideNext
<1> HIDE DEF n, k
<1>2. /\ Beside([n EXCEPT !.tmp = v], q, e, r, k)
      /\ [n EXCEPT !.tmp = v].tmp = v
      /\ IsWord(v) => Beside([n EXCEPT !.pc = v], [q EXCEPT !.pc = v], e, r, k)
      /\ IsByte(v) => Beside([n EXCEPT !.sr = v], [q EXCEPT !.sr = v], e, r, k)
  BY <1>1, BesideSet
<1> QED  BY <1>2 DEF n, k

\* RTS: the same stack pointer, return address and reads.
LEMMA RTSExecuted ==
  ASSUME NEW e, NEW r, NEW c, Ready(e, r, c), MarkedWell(e.code), e.code[1] = "RTS"
  PROVE  Executed(e, r, c)
<1>1. Steps(e.code) = 5 /\ ~ Modifies(e.code) /\ e.code[2] # "Accumulator"
  BY StackKind
<1>2. /\ r.code = e.code /\ e.ex = 0 /\ e.exec = "EXECUTE" /\ Whole(r) /\ IsByte(r.sp) /\ Typed(r)
  BY <1>1 DEF Ready, Agree, Typed
<1>3. Seen(e.reads, r.reads)
  BY <1>1 DEF Ready, Elsewhere, Apart, Unread
<1> DEFINE w == ICPU!pull(ICPU!Touch(r, r.sp), 2)
           pc == Word(Pulled(r, 2), Pulled(r, 1))
           u == ICPU!PastByte([w EXCEPT !.pc = pc])
<1>4. ICPU!ExecHdlr(r) = u
  <2>1. ICPU!ExecHdlr(r) = ICPU!RTSExecHdlr(r)
    BY <1>2, Zenon DEF ICPU!ExecHdlr
  <2>2. ICPU!Top(r, 1) = Pulled(r, 1) /\ ICPU!Top(r, 2) = Pulled(r, 2)
    BY <1>2, PulledSame DEF Pulled
  <2> QED  BY <2>1, <2>2, SharedMemory DEF ICPU!RTSExecHdlr
<1>5. ASSUME NEW s, s.code = e.code
      PROVE  /\ s.ex \in {0, 1} => ExecHdlr(s) = Pull(NextEx(s))
             /\ s.ex = 2 => ExecHdlr(s) = ReadStack([NextEx(s) EXCEPT !.tmp = s.data])
             /\ s.ex = 3 => ExecHdlr(s) = initOperandByteRead([NextEx(s) EXCEPT !.pc = Word(s.data, s.tmp)])
             /\ s.ex = 4 => ExecHdlr(s) = Done(s)
  <2>1. ExecHdlr(s) = RTSExecHdlr(s)
    BY <1>5, Zenon DEF ExecHdlr
  <2> QED  BY <2>1 DEF RTSExecHdlr
<1> DEFINE p1 == Pull(NextEx(e))
           t1 == Access(p1)
           p2 == Pull(NextEx(t1))
           t2 == Access(p2)
           n3 == [NextEx(t2) EXCEPT !.tmp = Pulled(r, 1)]
           p3 == ReadStack(n3)
           t3 == Access(p3)
           n4 == [NextEx(t3) EXCEPT !.pc = pc]
           p4 == initOperandByteRead(n4)
           t4 == Access(p4)
           q == Popped(r, 2)
<1>6. ExecHdlr(e) = p1
  BY <1>2, <1>5
<1>7. p1.exec = "EXECUTE" /\ Beside(t1, Popped(r, 1), e, r, 1)
  BY <1>3, FirstPull
<1> HIDE DEF p1, t1
<1>8. ExecHdlr(t1) = p2
  BY <1>5, <1>7 DEF Beside
<1>9. p2.exec = "EXECUTE" /\ Beside(t2, q, e, r, 2) /\ t2.data = Pulled(r, 1)
  BY <1>7, SecondPull
<1>10. /\ Content(q, 256 + q.sp) = Pulled(r, 2)
       /\ IsWord(pc)
  <2>1. IsByte(Pulled(r, 1)) /\ IsByte(Pulled(r, 2))
    BY <1>2, PulledIsByte
  <2>2. q.sp = Byte(r.sp + 2) /\ q.ram = r.ram /\ q.b1 = r.b1 /\ q.b2 = r.b2 /\ q.seed = r.seed
    BY <1>2 DEF Popped, Whole, Registers
  <2> HIDE DEF q
  <2> QED  BY <2>1, <2>2, ContentSame, WordOfBytes DEF Pulled
<1>11. Same(w, q)
  BY <1>2, TouchedPulled
<1> HIDE DEF p2, t2, q, pc, w
<1>12. ExecHdlr(t2) = p3
  BY <1>5, <1>9 DEF Beside
<1>13. Beside(n3, q, e, r, 2 + 1) /\ n3.tmp = Pulled(r, 1)
  BY <1>9, BesideKept
<1> HIDE DEF n3
<1>14. /\ p3.exec = e.exec /\ Beside(t3, q, e, r, 2 + 1)
       /\ t3.data = Content(q, 256 + q.sp) /\ t3.tmp = n3.tmp
  BY <1>13, ReadStackCycle
<1> HIDE DEF p3, t3
<1>15. ExecHdlr(t3) = p4
  <2>1. t3.code = e.code /\ t3.ex = 3
    BY <1>14, BesideAt
  <2> QED  BY <1>5, <1>10, <1>13, <1>14, <2>1, ZenonT(30) DEF pc
<1>16. Beside(t3, w, e, r, 3)
  BY <1>11, <1>14, BesideSame
<1>18. Beside(n4, [w EXCEPT !.pc = pc], e, r, 3 + 1)
  BY <1>10, <1>16, BesideKept
<1> HIDE DEF n4
<1>19. p4.exec = e.exec /\ Beside(t4, u, e, r, 3 + 1)
  <2> DEFINE q4 == [w EXCEPT !.pc = pc]
  <2>1. Beside(n4, q4, e, r, 3 + 1)
    BY <1>18
  <2> HIDE DEF q4
  <2>2. p4.exec = e.exec /\ Beside(t4, ICPU!PastByte(q4), e, r, 3 + 1)
    BY <2>1, ByteCycle
  <2> QED  BY <2>2 DEF q4
<1> HIDE DEF p4, t4, u
<1>20. ExecHdlr(t4) = Done(t4)
  <2>1. t4.code = e.code /\ t4.ex = 4
    BY <1>19, BesideAt
  <2> QED  BY <1>5, <2>1
<1>21. Finished(Done(t4), u, c, e.code)
  BY <1>1, <1>19, EndsIdly
<1>22. Leads(ExecHdlr(t4), Done(t4))
  BY <1>20, LeadsNowhere
<1>23. Leads(ExecHdlr(t3), Done(t4))
  BY <1>2, <1>15, <1>19, <1>22, ExecutesOn DEF t4
<1>24. Leads(ExecHdlr(t2), Done(t4))
  BY <1>2, <1>12, <1>14, <1>23, ExecutesOn DEF t3
<1>25. Leads(ExecHdlr(t1), Done(t4))
  BY <1>8, <1>9, <1>24, ExecutesOn DEF t2
<1>26. Leads(ExecHdlr(e), Done(t4))
  BY <1>6, <1>7, <1>25, ExecutesOn DEF t1
<1> QED  BY <1>4, <1>21, <1>26 DEF Executed

\* The status is restored before or after the stack pointer moves.
LEMMA PoppedStatus ==
  ASSUME NEW r, Whole(r), NEW n, NEW v, NEW w, Same(w, Popped(r, n))
  PROVE  /\ Same([w EXCEPT !.sr = v], Popped([r EXCEPT !.sr = v], n))
         /\ Same(Popped([r EXCEPT !.sr = v], n), [Popped(r, n) EXCEPT !.sr = v])
<1>1. /\ Whole(Popped(r, n)) /\ Popped(r, n).sp = Byte(r.sp + n) /\ Popped(r, n).a = r.a
      /\ Popped(r, n).x = r.x /\ Popped(r, n).y = r.y /\ Popped(r, n).ram = r.ram
      /\ Popped(r, n).writes = r.writes /\ Popped(r, n).b1 = r.b1 /\ Popped(r, n).b2 = r.b2
      /\ Popped(r, n).seed = r.seed /\ Popped(r, n).pc = r.pc /\ Popped(r, n).code = r.code
      /\ Popped(r, n).cycles = r.cycles /\ Popped(r, n).opAdr = r.opAdr
      /\ Popped(r, n).reads = r.reads
  BY DEF Popped, Whole, Registers
<1> DEFINE k == Popped([r EXCEPT !.sr = v], n)
<1>2. /\ Whole(k) /\ k.sp = Byte(r.sp + n) /\ k.a = r.a /\ k.x = r.x /\ k.y = r.y /\ k.ram = r.ram
      /\ k.writes = r.writes /\ k.b1 = r.b1 /\ k.b2 = r.b2 /\ k.seed = r.seed /\ k.pc = r.pc
      /\ k.code = r.code /\ k.cycles = r.cycles /\ k.opAdr = r.opAdr /\ k.reads = r.reads
      /\ k.sr = v
  BY DEF Popped, Whole, Registers
<1> DEFINE p == Popped(r, n)
<1> HIDE DEF k, p
<1>3. Same([w EXCEPT !.sr = v], k)
  BY <1>1, <1>2 DEF Same, Whole, Registers, Agree
<1>4. Same(k, [p EXCEPT !.sr = v])
  BY <1>1, <1>2 DEF Same, Whole, Registers, Agree, Seen, p
<1> QED  BY <1>3, <1>4 DEF k, p

\* RTI: the same stack pointer, status register and return address.
LEMMA RTIExecuted ==
  ASSUME NEW e, NEW r, NEW c, Ready(e, r, c), MarkedWell(e.code), e.code[1] = "RTI"
  PROVE  Executed(e, r, c)
<1>1. Steps(e.code) = 5 /\ ~ Modifies(e.code) /\ e.code[2] # "Accumulator"
  BY StackKind
<1>2. /\ r.code = e.code /\ e.ex = 0 /\ e.exec = "EXECUTE" /\ Whole(r) /\ IsByte(r.sp) /\ Typed(r)
  BY <1>1 DEF Ready, Agree, Typed
<1>3. Seen(e.reads, r.reads)
  BY <1>1 DEF Ready, Elsewhere, Apart, Unread
<1> DEFINE w == ICPU!pull(ICPU!Touch(r, r.sp), 3)
           pc == Word(Pulled(r, 3), Pulled(r, 2))
           v == Restored(r.sr, Pulled(r, 1))
           w1 == [w EXCEPT !.sr = v]
           u == [w1 EXCEPT !.pc = pc]
           r1 == [r EXCEPT !.sr = v]
<1>4. Same(w, Popped(r, 3))
  BY <1>2, TouchedPulled
<1>5. ICPU!ExecHdlr(r) = u
  <2>1. ICPU!ExecHdlr(r) = ICPU!RTIExecHdlr(r)
    BY <1>2, Zenon DEF ICPU!ExecHdlr
  <2>2. /\ ICPU!Top(r, 1) = Pulled(r, 1) /\ ICPU!Top(r, 2) = Pulled(r, 2)
        /\ ICPU!Top(r, 3) = Pulled(r, 3)
    BY <1>2, PulledSame DEF Pulled
  <2>3. w.sr = r.sr
    BY <1>2, <1>4 DEF Same, Agree, Popped, Whole, Registers
  <2> HIDE DEF w
  <2>4. ICPU!RTIExecHdlr(r) = [w EXCEPT !.sr = Restored(@, Pulled(r, 1)), !.pc = pc]
    BY <2>2, SharedMemory, SharedBits DEF ICPU!RTIExecHdlr, w
  <2> QED  BY <2>1, <2>3, <2>4
<1>6. ASSUME NEW s, s.code = e.code
      PROVE  /\ s.ex \in {0, 1} => ExecHdlr(s) = Pull(NextEx(s))
             /\ s.ex = 2 => ExecHdlr(s) = Pull([NextEx(s) EXCEPT !.sr = Restored(@, s.data)])
             /\ s.ex = 3 => ExecHdlr(s) = ReadStack([NextEx(s) EXCEPT !.tmp = s.data])
             /\ s.ex = 4 => ExecHdlr(s) = Done([s EXCEPT !.pc = Word(s.data, s.tmp)])
  <2>1. ExecHdlr(s) = RTIExecHdlr(s)
    BY <1>6, Zenon DEF ExecHdlr
  <2> QED  BY <2>1 DEF RTIExecHdlr
<1> DEFINE p1 == Pull(NextEx(e))
           t1 == Access(p1)
           p2 == Pull(NextEx(t1))
           t2 == Access(p2)
           n3 == [NextEx(t2) EXCEPT !.sr = v]
           p3 == Pull(n3)
           t3 == Access(p3)
           n4 == [NextEx(t3) EXCEPT !.tmp = Pulled(r, 2)]
           p4 == ReadStack(n4)
           t4 == Access(p4)
           f4 == [t4 EXCEPT !.pc = pc]
           q == Popped(r1, 3)
<1>7. ExecHdlr(e) = p1
  BY <1>2, <1>6
<1>8. p1.exec = "EXECUTE" /\ Beside(t1, Popped(r, 1), e, r, 1)
  BY <1>3, FirstPull
<1> HIDE DEF p1, t1
<1>9. ExecHdlr(t1) = p2
  BY <1>6, <1>8 DEF Beside
<1>10. p2.exec = "EXECUTE" /\ Beside(t2, Popped(r, 2), e, r, 2) /\ t2.data = Pulled(r, 1)
  BY <1>8, SecondPull
<1> HIDE DEF p2, t2
<1>11. IsByte(v) /\ IsWord(pc)
  <2>1. IsByte(Pulled(r, 2)) /\ IsByte(Pulled(r, 3))
    BY <1>2, PulledIsByte
  <2> QED  BY <2>1, WordOfBytes, RestoredIsByte
<1>12. /\ Whole(r1) /\ r1.sp = r.sp /\ r1.ram = r.ram /\ r1.b1 = r.b1 /\ r1.b2 = r.b2
       /\ r1.seed = r.seed
  BY <1>2 DEF Whole, Registers
<1>13. /\ Content(q, 256 + q.sp) = Pulled(r, 3)
       /\ Content(r1, 256 + Byte(r1.sp + 2)) = Pulled(r, 2)
  <2>1. q.sp = Byte(r.sp + 3) /\ q.ram = r.ram /\ q.b1 = r.b1 /\ q.b2 = r.b2 /\ q.seed = r.seed
    BY <1>12 DEF Popped, Whole, Registers
  <2> HIDE DEF q, r1
  <2> QED  BY <1>12, <2>1, ContentSame DEF Pulled
<1>14. Same(w1, q) /\ Same(Popped(r1, 2), [Popped(r, 2) EXCEPT !.sr = v])
  <2>1. Same(Popped(r, 2), Popped(r, 2))
    BY <1>2 DEF Same, Popped, Whole, Registers, Agree, Seen
  <2> QED  BY <1>2, <1>4, <2>1, PoppedStatus
<1>15. ExecHdlr(t2) = p3
  <2>1. t2.code = e.code /\ t2.ex = 2 /\ NextEx(t2).sr = r.sr
    BY <1>2, <1>10 DEF Beside, NextEx, Micro, Registers, Agree, Popped, Whole
  <2> QED  BY <1>6, <1>10, <2>1
<1>16. Beside(n3, Popped(r1, 2), e, r, 3)
  <2>1. 2 + 1 = 3
    OBVIOUS
  <2> DEFINE k == Popped(r, 2)
             x == v
  <2>2. Beside(t2, k, e, r, 2) /\ IsByte(x)
    BY <1>10, <1>11
  <2> HIDE DEF k, x, r1
  <2>3. Beside([NextEx(t2) EXCEPT !.sr = x], [k EXCEPT !.sr = x], e, r, 2 + 1)
    BY <2>2, BesideKept
  <2>4. Beside(n3, [k EXCEPT !.sr = v], e, r, 3)
    BY <2>1, <2>3 DEF x
  <2>5. Same(Popped(r1, 2), [k EXCEPT !.sr = v])
    BY <1>14 DEF k
  <2> HIDE DEF n3
  <2> QED  BY <2>4, <2>5, BesideSame
<1> HIDE DEF n3, q, w, w1, v, pc, r1
<1>17. p3.exec = e.exec /\ Beside(t3, q, e, r, 3) /\ t3.data = Pulled(r, 2)
  <2>1. IsByte(r1.sp) /\ 2 + 1 = 3
    BY <1>2, <1>12
  <2>2. p3.exec = e.exec /\ Beside(t3, Popped(r1, 2 + 1), e, r, 3)
        /\ t3.data = Content(r1, 256 + Byte(r1.sp + 2))
    BY <1>12, <1>16, <2>1, PullCycle
  <2> QED  BY <1>13, <2>1, <2>2 DEF q
<1> HIDE DEF p3, t3
<1>18. ExecHdlr(t3) = p4
  <2>1. t3.code = e.code /\ t3.ex = 3
    BY <1>17, BesideAt
  <2> QED  BY <1>6, <1>17, <2>1
<1>19. Beside(n4, q, e, r, 3 + 1) /\ n4.tmp = Pulled(r, 2)
  BY <1>17, BesideKept
<1> HIDE DEF n4
<1>20. /\ p4.exec = e.exec /\ Beside(t4, q, e, r, 3 + 1)
       /\ t4.data = Content(q, 256 + q.sp) /\ t4.tmp = n4.tmp
  BY <1>19, ReadStackCycle
<1> HIDE DEF p4, t4
<1>21. t4.code = e.code /\ t4.ex = 4 /\ Beside(t4, q, e, r, 4)
  BY <1>20, BesideAt
<1>22. ExecHdlr(t4) = Done(f4)
  BY <1>6, <1>13, <1>19, <1>20, <1>21, ZenonT(30) DEF pc
<1>23. Beside(t4, w1, e, r, 4)
  BY <1>14, <1>21, BesideSame
<1>24. Beside(f4, u, e, r, 4)
  BY <1>11, <1>23, BesideSet
<1> HIDE DEF f4, u
<1>25. Finished(Done(f4), u, c, e.code)
  BY <1>1, <1>24, EndsIdly
<1>26. Leads(ExecHdlr(t4), Done(f4))
  BY <1>22, LeadsNowhere
<1>27. Leads(ExecHdlr(t3), Done(f4))
  BY <1>2, <1>18, <1>20, <1>26, ExecutesOn DEF t4
<1>28. Leads(ExecHdlr(t2), Done(f4))
  BY <1>2, <1>15, <1>17, <1>27, ExecutesOn DEF t3
<1>29. Leads(ExecHdlr(t1), Done(f4))
  BY <1>9, <1>10, <1>28, ExecutesOn DEF t2
<1>30. Leads(ExecHdlr(e), Done(f4))
  BY <1>7, <1>8, <1>29, ExecutesOn DEF t1
<1> QED  BY <1>5, <1>25, <1>30 DEF Executed

=============================================================================
