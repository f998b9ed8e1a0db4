----------------------------- MODULE PortProofs -----------------------------
(***************************************************************************)
(* Proofs about the wiring: the state stays well typed, and an arbitrated  *)
(* input is at every moment the AND of its sources' requests, whatever the *)
(* ports, the connections and the handlers are.                            *)
(***************************************************************************)
EXTENDS PortProperties, TLAPS

\* Replacing the innermost call of a non-empty stack leaves a stack of calls.
LEMMA TopReplaced ==
  ASSUME NEW s \in Seq(Frame), s # <<>>, NEW f \in Frame
  PROVE  [s EXCEPT ![1] = f] \in Seq(Frame)
OBVIOUS

\* Moving a call on and opening or closing its handler leaves it a call.
LEMMA FrameMoved ==
  ASSUME NEW f \in Frame, NEW n \in Nat, NEW S \in SUBSET Ports
  PROVE  [f EXCEPT !.next = n, !.reacting = S] \in Frame
BY DEF Frame

(***************************************************************************)
(* The state of the wiring stays well typed: updatePort, the nested calls  *)
(* of its handlers and the power-on sequence never leave the declared sets.*)
(***************************************************************************)
THEOREM TypeCorrect == Spec => []TypeOK
<1> USE WidthAssumption, PortAssumption, RouteAssumption
<1>1. Init => TypeOK
  BY DEF Init, TypeOK, Outputs, Inputs
<1>2. TypeOK /\ [Next]_vars => TypeOK'
  <2> SUFFICES ASSUME TypeOK, [Next]_vars PROVE TypeOK'
    OBVIOUS
  <2> USE DEF TypeOK
  <2>1. ASSUME NEW p \in Outputs, NEW v \in Levels(p), NEW force \in BOOLEAN,
               NEW base \in Seq(Frame), UpdatePort(p, v, force, base)
        PROVE  /\ stack' \in Seq(Frame)
               /\ valOut' \in [Ports -> SUBSET PortBits]
    <3>1. p \in Ports /\ v \in SUBSET PortBits
      BY DEF Outputs, Levels
    <3>2. [src |-> p, val |-> v, next |-> 1, reacting |-> {}] \in Frame
      BY <3>1 DEF Frame
    <3>3. <<[src |-> p, val |-> v, next |-> 1, reacting |-> {}]>> \o base \in Seq(Frame)
      BY <3>2
    <3> QED  BY <2>1, <3>1, <3>3 DEF UpdatePort
  <2>2. ASSUME NEW r \in Routes, Connect(r)  PROVE TypeOK'
    <3>1. Arbitrates(conns', r.dst) \in BOOLEAN
      BY DEF Arbitrates
    <3>2. r.dst \in Ports
      BY DEF RouteType
    <3> QED  BY <2>2, <3>1, <3>2 DEF Connect
  <2>3. ASSUME PowerOn  PROVE TypeOK'
    BY <2>3 DEF PowerOn
  <2>4. ASSUME NEW p \in Outputs, NEW v \in Levels(p), ForceOut(p, v)  PROVE TypeOK'
    BY <2>1, <2>4 DEF ForceOut, UpdatePort
  <2>5. ASSUME NEW p \in Outputs, NEW v \in Levels(p), Drive(p, v)  PROVE TypeOK'
    BY <2>1, <2>5 DEF Drive, UpdatePort
  <2>6. ASSUME NEW q \in Outputs, NEW v \in Levels(q), React(q, v)  PROVE TypeOK'
    <3>1. [stack EXCEPT ![1].reacting = @ \ {q}] \in Seq(Frame)
      <4>1. stack[1] \in Frame
        BY <2>6 DEF React
      <4>2. [stack[1] EXCEPT !.reacting = @ \ {q}] \in Frame
        BY <4>1 DEF Frame
      <4> QED  BY <2>6, <4>2, TopReplaced DEF React
    <3> QED  BY <2>1, <2>6, <3>1 DEF React, UpdatePort
  <2>7. ASSUME Started  PROVE TypeOK'
    BY <2>7 DEF Started
  <2>8. ASSUME Deliver  PROVE TypeOK'
    <3>1. PICK j \in InputsLeft(stack[1]) : DeliverTo(j, conns[j])
      BY <2>8 DEF Deliver
    <3> DEFINE r == conns[j]
               nval == Merged(r, stack[1].val)
    <3>2. j \in Nat /\ r \in Routes /\ r.dst \in Ports
      BY DEF InputsLeft, RouteType
    <3>3. nval \in SUBSET PortBits
      BY <3>2 DEF Merged
    <3>4. dstVal' \in [Routes -> SUBSET PortBits]
      BY <3>1, <3>2, <3>3 DEF DeliverTo, Recorded
    <3>5. WiredAnd(r.dst, dstVal') \in SUBSET PortBits
      BY <3>2 DEF WiredAnd
    <3>6. valIn' \in [Ports -> SUBSET PortBits]
      BY <3>1, <3>2, <3>3, <3>5 DEF DeliverTo
    <3>7. stack' \in Seq(Frame)
      <4>1. stack[1] \in Frame
        BY <2>8 DEF Deliver
      <4> DEFINE react == IF valIn[r.dst] # nval /\ Processed(r) THEN Reacts[r.dst] ELSE {}
                 top == [stack[1] EXCEPT !.next = j + 1, !.reacting = react]
      <4>2. react \in SUBSET Ports
        BY <3>2
      <4>3. stack' = [stack EXCEPT ![1] = top]
        BY <3>1 DEF DeliverTo
      <4>4. top \in Frame
        <5>1. j + 1 \in Nat
          BY <3>2
        <5> HIDE DEF react
        <5> QED  BY <4>1, <4>2, <5>1, FrameMoved
      <4> HIDE DEF top
      <4> QED  BY <2>8, <4>3, <4>4, TopReplaced DEF Deliver
    <3> QED  BY <2>8, <3>1, <3>2, <3>4, <3>6, <3>7 DEF Deliver, DeliverTo
  <2>9. ASSUME HandlerDone  PROVE TypeOK'
    <3>1. [stack EXCEPT ![1].reacting = {}] \in Seq(Frame)
      <4>1. stack[1] \in Frame
        BY <2>9 DEF HandlerDone
      <4>2. [stack[1] EXCEPT !.reacting = {}] \in Frame
        BY <4>1 DEF Frame
      <4> QED  BY <2>9, <4>2, TopReplaced DEF HandlerDone
    <3> QED  BY <2>9, <3>1 DEF HandlerDone
  <2>10. ASSUME Return  PROVE TypeOK'
    BY <2>10 DEF Return
  <2>11. CASE UNCHANGED vars
    BY <2>11 DEF vars
  <2> QED
    BY <2>2, <2>3, <2>4, <2>5, <2>6, <2>7, <2>8, <2>9, <2>10, <2>11 DEF Next, Call
<1> QED  BY <1>1, <1>2, PTL DEF Spec

-----------------------------------------------------------------------------
(* An arbitrated input is the AND of the requests made to it.              *)

\* Under UniqueRoutes the record that is updated is the connection's own.
LEMMA FirstRefIsOwn ==
  ASSUME UniqueRoutes, TypeOK, RequestsInv, NEW j \in DOMAIN conns
  PROVE  FirstRef(conns[j]) = conns[j]
<1> DEFINE same == {k \in DOMAIN conns : conns[k].src = conns[j].src /\ conns[k].dst = conns[j].dst}
<1>1. \A k \in DOMAIN conns : conns[k] \in Routes
  BY DEF TypeOK
<1>2. same = {j}
  BY <1>1 DEF UniqueRoutes, RequestsInv
<1>3. DOMAIN conns \subseteq Nat
  BY DEF TypeOK
<1>4. (CHOOSE i \in same : \A k \in same : i <= k) = j
  <2> HIDE DEF same
  <2> QED  BY <1>2, <1>3
<1> QED  BY <1>4 DEF FirstRef

\* One delivery to an arbitrated input, with early exit or without.
LEMMA DeliverKeepsAnd ==
  ASSUME UniqueRoutes, TypeOK, TypeOK', RequestsInv, Deliver
  PROVE  RequestsInv'
<1> USE RouteAssumption
<1>1. PICK j \in DOMAIN conns : DeliverTo(j, conns[j])
  BY DEF Deliver, InputsLeft
<1> DEFINE r == conns[j]
           d == r.dst
           nval == Merged(r, stack[1].val)
<1>2. r \in Routes /\ d \in Ports /\ Connected(r)
  BY DEF TypeOK, RouteType, Connected
<1>3. FirstRef(r) = r
  BY FirstRefIsOwn
<1>4. /\ dstVal' = IF arbitration[d] THEN [dstVal EXCEPT ![r] = nval] ELSE dstVal
      /\ valIn' = IF valIn[d] # nval
                  THEN [valIn EXCEPT ![d] = IF arbitration[d] THEN WiredAnd(d, dstVal') ELSE nval]
                  ELSE valIn
      /\ fed' = fed \cup {r}
      /\ UNCHANGED <<phase, conns, arbitration>>
  BY <1>1, <1>3 DEF Deliver, DeliverTo, Recorded
<1>5. \A q \in Routes : Connected(q)' <=> Connected(q)
  BY <1>4 DEF Connected
<1>6. phase # "config"
  BY DEF Deliver, RequestsInv
<1>7. \A q \in Routes \ fed' : dstVal'[q] = PortBits
  <2> HIDE DEF nval
  <2> QED  BY <1>2, <1>4 DEF RequestsInv, TypeOK
<1>8. \A q \in fed' : Connected(q)'
  BY <1>2, <1>4, <1>5 DEF RequestsInv, TypeOK
<1>9. ASSUME NEW q \in fed', arbitration'[q.dst], NEW b \in q.mask
      PROVE  b \in valIn'[q.dst] <=>
               \A x \in Routes : (Connected(x)' /\ x.dst = q.dst /\ b \in x.mask)
                                 => b \in dstVal'[x]
  <2>0. q \in Routes /\ b \in Mask[q.dst] /\ b \in PortBits /\ q.dst \in Ports
    BY <1>2, <1>4, <1>9, PortAssumption DEF TypeOK, RouteType
  <2>1. CASE q.dst # d
    <3>1. valIn'[q.dst] = valIn[q.dst] /\ q \in fed
      BY <1>2, <1>4, <1>9, <2>0, <2>1 DEF TypeOK
    <3>2. \A x \in Routes : x.dst = q.dst => dstVal'[x] = dstVal[x]
      BY <1>2, <1>4, <2>1 DEF TypeOK
    <3>3. b \in valIn[q.dst] <=>
            \A x \in Routes : (Connected(x) /\ x.dst = q.dst /\ b \in x.mask) => b \in dstVal[x]
      BY <1>4, <1>9, <3>1 DEF RequestsInv, ArbitratedIsAnd
    <3> QED  BY <1>5, <3>1, <3>2, <3>3
  <2>2. CASE q.dst = d /\ valIn[d] # nval
    <3>1. valIn'[d] = WiredAnd(d, dstVal')
      BY <1>2, <1>4, <1>9, <2>2 DEF TypeOK
    <3>2. \A x \in Routes : Connected(x) <=> \E k \in DOMAIN conns : conns[k] = x
      BY DEF Connected
    <3>3. \A k \in DOMAIN conns : conns[k] \in Routes
      BY DEF TypeOK
    <3> QED  BY <1>5, <2>0, <2>2, <3>1, <3>2, <3>3 DEF WiredAnd
  <2>3. CASE q.dst = d /\ valIn[d] = nval
    <3>1. valIn'[d] = valIn[d]
      BY <1>4, <2>3
    <3>2. /\ dstVal'[r] = valIn[d]
          /\ \A x \in Routes : x # r => dstVal'[x] = dstVal[x]
      BY <1>2, <1>4, <1>9, <2>3 DEF TypeOK
    <3>3. CASE q \in fed
      <4>1. b \in valIn[d] <=>
              \A x \in Routes : (Connected(x) /\ x.dst = d /\ b \in x.mask) => b \in dstVal[x]
        BY <1>4, <1>9, <2>3, <3>3 DEF RequestsInv, ArbitratedIsAnd
      <4> HIDE DEF nval, r, d
      <4> QED  BY <1>2, <1>5, <2>3, <3>1, <3>2, <4>1
    <3>4. CASE q = r /\ b \notin valIn[d]
      BY <1>2, <1>5, <3>1, <3>2, <3>4
    <3>5. CASE q = r /\ b \in valIn[d]
      <4>1. ASSUME NEW x \in Routes, Connected(x), x.dst = d, b \in x.mask
            PROVE  b \in dstVal'[x]
        <5>1. CASE x = r
          BY <3>2, <3>5, <5>1
        <5>2. CASE x # r /\ x \in fed
          BY <1>4, <1>9, <2>3, <3>2, <3>5, <4>1, <5>2 DEF RequestsInv, ArbitratedIsAnd
        <5>3. CASE x # r /\ x \notin fed
          BY <2>0, <3>2, <5>3 DEF RequestsInv
        <5> QED  BY <5>1, <5>2, <5>3
      <4> QED  BY <1>5, <2>3, <3>1, <3>5, <4>1
    <3> QED  BY <1>4, <1>9, <3>3, <3>4, <3>5
  <2> QED  BY <2>1, <2>2, <2>3
<1>10. ArbitratedIsAnd'
  BY <1>9 DEF ArbitratedIsAnd
<1> QED  BY <1>4, <1>6, <1>7, <1>8, <1>10 DEF RequestsInv

\* Each step keeps the requests and what they come to.
LEMMA RequestsKept ==
  ASSUME UniqueRoutes
  PROVE  Spec => []RequestsInv
<1> USE RouteAssumption
<1>1. Init => RequestsInv
  BY DEF Init, RequestsInv, ArbitratedIsAnd
<1>2. TypeOK /\ TypeOK' /\ RequestsInv /\ [Next]_vars => RequestsInv'
  <2> SUFFICES ASSUME TypeOK, TypeOK', RequestsInv, [Next]_vars PROVE RequestsInv'
    OBVIOUS
  <2>1. ASSUME NEW r \in Routes, Connect(r)  PROVE RequestsInv'
    <3>1. fed = {} /\ fed' = {} /\ stack' = <<>> /\ UNCHANGED <<phase, dstVal>>
      BY <2>1 DEF Connect, RequestsInv
    <3>2. \A i, j \in DOMAIN conns' : conns'[i] = conns'[j] => i = j
      BY <2>1 DEF Connect, RequestsInv, TypeOK
    <3> QED  BY <3>1, <3>2 DEF RequestsInv, ArbitratedIsAnd
  <2>2. ASSUME UNCHANGED <<conns, arbitration, dstVal, valIn, fed>>,
               phase' = "config" => phase = "config" /\ stack' = <<>>
        PROVE  RequestsInv'
    BY <2>2 DEF RequestsInv, ArbitratedIsAnd, Connected
  <2>3. CASE PowerOn \/ Started \/ HandlerDone \/ Return
    BY <2>2, <2>3 DEF PowerOn, Started, HandlerDone, Return, RequestsInv
  <2>4. ASSUME NEW p \in Outputs, NEW v \in Levels(p),
               ForceOut(p, v) \/ Drive(p, v) \/ React(p, v)
        PROVE  RequestsInv'
    BY <2>2, <2>4 DEF ForceOut, Drive, React, UpdatePort, RequestsInv
  <2>5. CASE Deliver
    BY <2>5, DeliverKeepsAnd
  <2>6. CASE UNCHANGED vars
    BY <2>2, <2>6 DEF vars, RequestsInv
  <2> QED  BY <2>1, <2>3, <2>4, <2>5, <2>6 DEF Next, Call
<1> QED  BY <1>1, <1>2, TypeCorrect, PTL DEF Spec


(***************************************************************************)
(* Whatever outputs, handlers and connections there are, from the first    *)
(* delivery on each bit of an arbitrated input is the AND of the requests  *)
(* of the sources connected to it: IRQ stays low while one device asks.    *)
(***************************************************************************)
THEOREM ArbitrationCorrect ==
  ASSUME UniqueRoutes
  PROVE  Spec => []ArbitratedIsAnd
<1>1. RequestsInv => ArbitratedIsAnd
  BY DEF RequestsInv
<1> QED  BY <1>1, RequestsKept, PTL

-----------------------------------------------------------------------------
(* The flags of the destinations.                                          *)

\* A new connection changes the sources of its destination only.
LEMMA ConnectKeepsFlags ==
  ASSUME TypeOK, TypeOK', ArbitrationInv, NEW r \in Routes, Connect(r)
  PROVE  ArbitrationInv'
<1>1. /\ DOMAIN conns' = DOMAIN conns \cup {Len(conns) + 1} /\ conns'[Len(conns) + 1] = r
      /\ \A j \in DOMAIN conns : conns'[j] = conns[j]
      /\ Len(conns) + 1 \notin DOMAIN conns
  BY DEF Connect, TypeOK
<1>2. \A j \in DOMAIN conns' : Acceptable(conns'[j])
  BY <1>1 DEF Connect, ArbitrationInv
<1>3. ASSUME NEW d \in Ports  PROVE arbitration'[d] <=> Arbitrates(conns', d)
  <2>1. CASE d = r.dst
    BY <2>1 DEF Connect, TypeOK, Arbitrates
  <2>2. CASE d # r.dst
    <3>1. arbitration'[d] = arbitration[d]
      BY <2>2 DEF Connect, TypeOK
    <3>2. \A j \in DOMAIN conns : IsSource(conns', j, d) <=> IsSource(conns, j, d)
      BY <1>1 DEF IsSource
    <3>3. ~ IsSource(conns', Len(conns) + 1, d)
      BY <1>1, <2>2 DEF IsSource
    <3>4. (\E i, j \in DOMAIN conns' : i # j /\ IsSource(conns', i, d) /\ IsSource(conns', j, d))
            <=> (\E i, j \in DOMAIN conns : i # j /\ IsSource(conns, i, d) /\ IsSource(conns, j, d))
      BY <1>1, <3>2, <3>3
    <3>5. ASSUME NEW b \in PortBits
          PROVE  (\A j \in DOMAIN conns' : IsSource(conns', j, d) => b \in conns'[j].mask)
                   <=> (\A j \in DOMAIN conns : IsSource(conns, j, d) => b \in conns[j].mask)
      BY <1>1, <3>2, <3>3
    <3>6. Arbitrates(conns', d) <=> Arbitrates(conns, d)
      BY <3>4, <3>5 DEF Arbitrates
    <3> QED  BY <3>1, <3>6 DEF ArbitrationInv
  <2> QED  BY <2>1, <2>2
<1>4. phase' = "config"
  BY DEF Connect
<1> QED  BY <1>2, <1>3, <1>4 DEF ArbitrationInv

\* What else happens leaves the connections alone.
LEMMA FlagsKept ==
  ASSUME TypeOK, TypeOK', ArbitrationInv, [Next]_vars
  PROVE  ArbitrationInv'
<1>1. ASSUME UNCHANGED <<conns, arbitration>>, phase' # "config" => phase # "config"  PROVE ArbitrationInv'
  BY <1>1 DEF ArbitrationInv, Connected
<1>2. CASE \E r \in Routes : Connect(r)
  BY <1>2, ConnectKeepsFlags
<1>3. CASE PowerOn
  BY <1>3 DEF PowerOn, ArbitrationInv, Connected
<1>4. CASE \E p \in Outputs : \E v \in Levels(p) : ForceOut(p, v) \/ Drive(p, v) \/ React(p, v)
  BY <1>1, <1>4 DEF ForceOut, Drive, React, UpdatePort
<1>5. CASE Started \/ Call \/ UNCHANGED vars
  BY <1>1, <1>5 DEF Started, Call, Deliver, DeliverTo, HandlerDone, Return, vars
<1> QED  BY <1>2, <1>3, <1>4, <1>5 DEF Next

\* After power on the flags are those of all the CONNECT lines.
LEMMA FlagsComplete ==
  ASSUME TypeOK, RequestsInv, ArbitrationInv, phase # "config", NEW d \in Ports
  PROVE  arbitration[d] <=> ArbitratedInput(d)
<1>1. \A j \in DOMAIN conns : conns[j] \in Routes /\ Acceptable(conns[j])
  BY DEF TypeOK, ArbitrationInv
<1>2. \A r \in PureSources(d) : \E j \in DOMAIN conns : conns[j] = r
  BY DEF PureSources, ArbitrationInv, Connected
<1>3. \A j \in DOMAIN conns : IsSource(conns, j, d) <=> conns[j] \in PureSources(d)
  BY <1>1 DEF IsSource, PureSources
<1>4. \A i, j \in DOMAIN conns : i # j <=> conns[i] # conns[j]
  BY DEF RequestsInv
<1>5. (\E i, j \in DOMAIN conns : i # j /\ IsSource(conns, i, d) /\ IsSource(conns, j, d))
        <=> \E r, q \in PureSources(d) : r # q
  BY <1>2, <1>3, <1>4
<1>6. \A b \in PortBits : (\A j \in DOMAIN conns : IsSource(conns, j, d) => b \in conns[j].mask)
                            <=> \A r \in PureSources(d) : b \in r.mask
  BY <1>2, <1>3
<1>7. arbitration[d] <=> Arbitrates(conns, d)
  BY DEF ArbitrationInv
<1> QED  BY <1>5, <1>6, <1>7 DEF Arbitrates, ArbitratedInput

-----------------------------------------------------------------------------
(* The calls in progress and what they have delivered.                     *)

\* s is the chain of calls, but that handlers may have fewer updates left to make.
SameCalls(s) ==
  /\ s \in Seq(Frame) /\ Len(s) = Len(stack)
  /\ \A i \in DOMAIN stack : /\ s[i].src = stack[i].src /\ s[i].val = stack[i].val
                             /\ s[i].next = stack[i].next /\ s[i].reacting \subseteq stack[i].reacting

\* The calls on the stack are updates of ports.
LEMMA CallsTyped ==
  ASSUME TypeOK
  PROVE  \A i \in DOMAIN stack : stack[i] \in Frame /\ stack[i].src \in Ports
<1> SUFFICES ASSUME NEW i \in DOMAIN stack PROVE stack[i] \in Frame /\ stack[i].src \in Ports
  OBVIOUS
<1>1. stack[i] \in Frame
  BY DEF TypeOK
<1> QED  BY <1>1 DEF Frame

\* A handler that has made an update or has returned leaves the chain as it is.
LEMMA HandlerMoves ==
  ASSUME TypeOK, stack # <<>>, NEW S \in SUBSET stack[1].reacting
  PROVE  SameCalls([stack EXCEPT ![1].reacting = S])
<1>1. stack \in Seq(Frame) /\ stack[1] \in Frame /\ S \in SUBSET Ports
  <2>1. stack \in Seq(Frame) /\ stack[1] \in Frame
    BY DEF TypeOK
  <2> QED  BY <2>1 DEF Frame
<1> DEFINE f == [stack[1] EXCEPT !.reacting = S]
<1>2. /\ f \in Frame /\ f.src = stack[1].src /\ f.val = stack[1].val
      /\ f.next = stack[1].next /\ f.reacting = S
  BY <1>1 DEF Frame
<1>3. [stack EXCEPT ![1].reacting = S] = [stack EXCEPT ![1] = f]
  OBVIOUS
<1> HIDE DEF f
<1>4. [stack EXCEPT ![1] = f] \in Seq(Frame)
  BY <1>1, <1>2, TopReplaced
<1> QED  BY <1>1, <1>2, <1>3, <1>4 DEF SameCalls

\* The chain is the same, and what changes is no port that is connected or in a call.
LEMMA CallsUnmoved ==
  ASSUME TypeOK, CallsInv, DeliveryInv, SettledInv, phase # "config", SameCalls(stack'),
         UNCHANGED <<phase, conns, arbitration, dstVal, valIn, fed>>, todo' \subseteq todo,
         \A j \in DOMAIN conns : /\ valOut'[conns[j].src] = valOut[conns[j].src]
                                 /\ conns[j].src \in todo => conns[j].src \in todo',
         \A i \in DOMAIN stack : valOut'[stack[i].src] = valOut[stack[i].src]
  PROVE  DeliveryInv' /\ CallsInv' /\ SettledInv'
<1>1. DOMAIN stack' = DOMAIN stack
  BY DEF SameCalls, TypeOK
<1>2. \A i \in DOMAIN stack : /\ stack'[i].src = stack[i].src /\ stack'[i].val = stack[i].val
                              /\ stack'[i].next = stack[i].next
                              /\ stack'[i].reacting \subseteq stack[i].reacting
  BY DEF SameCalls
<1>3. CallsInv'
  BY <1>1, <1>2 DEF CallsInv
<1>4. \A j \in DOMAIN conns : Pending(j)' <=> Pending(j)
  BY <1>1, <1>2 DEF Pending, Calling
<1>5. DeliveryInv'
  BY <1>4 DEF DeliveryInv
<1>6. SettledInv'
  <2>1. ASSUME NEW j \in DOMAIN conns, ~ Pending(j)
        PROVE  Seen(conns[j])' = Driven(conns[j], valOut'[conns[j].src])
    <3>1. Seen(conns[j])' = Seen(conns[j])
      BY DEF Seen
    <3>2. Seen(conns[j]) = Driven(conns[j], valOut[conns[j].src])
      BY <2>1 DEF SettledInv
    <3> QED  BY <3>1, <3>2
  <2> QED  BY <1>4, <2>1 DEF SettledInv
<1> QED  BY <1>3, <1>5, <1>6

\* A new call of updatePort for a port of higher rank than those in progress.
LEMMA CallOpens ==
  ASSUME TypeOK, TypeOK', RankedCalls, CallsInv, DeliveryInv, SettledInv, phase # "config",
         NEW p \in Ports, NEW v \in SUBSET PortBits, NEW base, SameCalls(base),
         \A i \in DOMAIN stack : Rank[p] > Rank[stack[i].src],
         stack' = <<[src |-> p, val |-> v, next |-> 1, reacting |-> {}]>> \o base,
         valOut' = [valOut EXCEPT ![p] = v], todo' \subseteq todo, todo \subseteq todo' \cup {p},
         UNCHANGED <<phase, conns, arbitration, dstVal, valIn, fed>>
  PROVE  DeliveryInv' /\ CallsInv' /\ SettledInv'
<1> DEFINE f == [src |-> p, val |-> v, next |-> 1, reacting |-> {}]
<1>1. f.src = p /\ f.val = v /\ f.next = 1 /\ f.reacting = {} /\ f \in Frame
  BY DEF Frame
<1>2. stack' = <<f>> \o base
  OBVIOUS
<1> HIDE DEF f
<1>3. /\ DOMAIN stack' = 1 .. Len(stack) + 1 /\ DOMAIN stack = 1 .. Len(stack) /\ Len(stack) \in Nat
      /\ stack'[1] = f
      /\ \A i \in DOMAIN stack : stack'[i + 1] = base[i]
  BY <1>1, <1>2 DEF SameCalls, TypeOK
<1>4. \A i \in DOMAIN stack : /\ stack'[i + 1].src = stack[i].src /\ stack'[i + 1].val = stack[i].val
                              /\ stack'[i + 1].next = stack[i].next
                              /\ stack'[i + 1].reacting \subseteq stack[i].reacting
  BY <1>3 DEF SameCalls
<1>5. \A i \in DOMAIN stack : stack[i].src \in Ports /\ stack[i].src # p
  <2> SUFFICES ASSUME NEW i \in DOMAIN stack PROVE stack[i].src \in Ports /\ stack[i].src # p
    OBVIOUS
  <2>2. stack[i].src \in Ports
    BY CallsTyped
  <2>3. Rank[p] \in Nat /\ Rank[p] > Rank[stack[i].src]
    BY DEF RankedCalls
  <2> QED  BY <2>2, <2>3
<1>6. \A k \in DOMAIN stack' : k = 1 \/ \E i \in DOMAIN stack : k = i + 1
  <2> SUFFICES ASSUME NEW k \in DOMAIN stack', k # 1 PROVE \E i \in DOMAIN stack : k = i + 1
    OBVIOUS
  <2>1. k - 1 \in DOMAIN stack /\ k = (k - 1) + 1
    BY <1>3
  <2> QED  BY <2>1
<1>7. valOut'[p] = v /\ \A q \in Ports : q # p => valOut'[q] = valOut[q]
  BY DEF TypeOK
<1>8. CallsInv'
  <2>1. ASSUME NEW k \in DOMAIN stack'
        PROVE  /\ stack'[k].val = valOut'[stack'[k].src]
               /\ \A q \in stack'[k].reacting : Rank[q] > Rank[stack'[k].src]
    <3>1. CASE k = 1
      BY <1>1, <1>3, <1>7, <3>1
    <3>2. ASSUME NEW i \in DOMAIN stack, k = i + 1
          PROVE  /\ stack'[k].val = valOut'[stack'[k].src]
                 /\ \A q \in stack'[k].reacting : Rank[q] > Rank[stack'[k].src]
      BY <1>4, <1>5, <1>7, <3>2 DEF CallsInv
    <3> QED  BY <1>6, <3>1, <3>2
  <2>2. ASSUME NEW k \in DOMAIN stack', NEW l \in DOMAIN stack', k < l
        PROVE  Rank[stack'[k].src] > Rank[stack'[l].src]
    <3>1. PICK j \in DOMAIN stack : l = j + 1
      BY <1>3, <1>6, <2>2
    <3>2. CASE k = 1
      BY <1>1, <1>3, <1>4, <3>1, <3>2
    <3>3. ASSUME NEW i \in DOMAIN stack, k = i + 1  PROVE Rank[stack'[k].src] > Rank[stack'[l].src]
      <4>1. i < j
        BY <1>3, <2>2, <3>1, <3>3
      <4> QED  BY <1>4, <3>1, <3>3, <4>1 DEF CallsInv
    <3> QED  BY <1>6, <3>2, <3>3
  <2> QED  BY <2>1, <2>2 DEF CallsInv
<1>9. \A j \in DOMAIN conns : conns[j].src = p => Pending(j)'
  <2> SUFFICES ASSUME NEW j \in DOMAIN conns, conns[j].src = p PROVE Calling(stack, j)'
    BY DEF Pending
  <2>1. 1 \in DOMAIN stack' /\ stack'[1].src = conns'[j].src /\ stack'[1].next <= j
    BY <1>1, <1>3 DEF TypeOK
  <2> QED  BY <2>1 DEF Calling
<1>10. \A j \in DOMAIN conns : Pending(j) => Pending(j)'
  <2> SUFFICES ASSUME NEW j \in DOMAIN conns, conns[j].src # p, Pending(j) PROVE Pending(j)'
    BY <1>9
  <2>1. CASE conns[j].src \in todo
    BY <2>1 DEF Pending
  <2>2. CASE Calling(stack, j)
    <3>1. PICK i \in DOMAIN stack : stack[i].src = conns[j].src /\ stack[i].next <= j
      BY <2>2 DEF Calling
    <3>2. i + 1 \in DOMAIN stack' /\ stack'[i + 1].src = conns'[j].src /\ stack'[i + 1].next <= j
      BY <1>3, <1>4, <3>1
    <3> QED  BY <3>2 DEF Pending, Calling
  <2> QED  BY <2>1, <2>2 DEF Pending
<1>11. DeliveryInv'
  BY <1>10 DEF DeliveryInv
<1>12. SettledInv'
  <2>1. ASSUME NEW j \in DOMAIN conns, ~ Pending(j)'
        PROVE  Seen(conns[j])' = Driven(conns[j], valOut'[conns[j].src])
    <3>1. Seen(conns[j])' = Seen(conns[j])
      BY DEF Seen
    <3>2. conns[j].src # p /\ ~ Pending(j)
      BY <1>9, <1>10, <2>1
    <3>3. conns[j].src \in Ports
      BY RouteAssumption DEF TypeOK, RouteType
    <3>4. Seen(conns[j]) = Driven(conns[j], valOut[conns[j].src])
      BY <3>2 DEF SettledInv
    <3> QED  BY <1>7, <3>1, <3>2, <3>3, <3>4
  <2> QED  BY <2>1 DEF SettledInv
<1> QED  BY <1>8, <1>11, <1>12

\* updatePort returns when no input is left.
LEMMA CallEnds ==
  ASSUME TypeOK, TypeOK', CallsInv, DeliveryInv, SettledInv, phase # "config", Return
  PROVE  DeliveryInv' /\ CallsInv' /\ SettledInv'
<1>1. /\ stack # <<>> /\ InputsLeft(stack[1]) = {} /\ stack' = Tail(stack)
      /\ UNCHANGED <<phase, conns, arbitration, dstVal, valOut, valIn, todo, fed>>
  BY DEF Return
<1>2. /\ Len(stack) \in Nat \ {0} /\ DOMAIN stack = 1 .. Len(stack) /\ DOMAIN stack' = 1 .. Len(stack) - 1
      /\ \A i \in DOMAIN stack' : stack'[i] = stack[i + 1]
  BY <1>1 DEF TypeOK
<1>3. CallsInv'
  <2>1. \A i \in DOMAIN stack' : i + 1 \in DOMAIN stack
    BY <1>2
  <2>2. \A i, k \in DOMAIN stack' : i < k => i + 1 < k + 1
    BY <1>2
  <2> QED  BY <1>1, <1>2, <2>1, <2>2 DEF CallsInv
<1>4. ASSUME NEW j \in DOMAIN conns, Pending(j)  PROVE Pending(j)'
  <2>1. CASE conns[j].src \in todo
    BY <1>1, <2>1 DEF Pending
  <2>2. CASE Calling(stack, j)
    <3>1. PICK i \in DOMAIN stack : stack[i].src = conns[j].src /\ stack[i].next <= j
      BY <2>2 DEF Calling
    <3>2. i # 1
      BY <1>1, <3>1 DEF InputsLeft
    <3>3. i - 1 \in DOMAIN stack' /\ stack'[i - 1] = stack[i]
      BY <1>2, <3>2
    <3> QED  BY <1>1, <3>1, <3>3 DEF Pending, Calling
  <2> QED  BY <1>4, <2>1, <2>2 DEF Pending
<1>5. DeliveryInv'
  BY <1>1, <1>4 DEF DeliveryInv
<1>6. SettledInv'
  <2>1. ASSUME NEW j \in DOMAIN conns  PROVE Seen(conns[j])' = Seen(conns[j])
    BY <1>1 DEF Seen
  <2> QED  BY <1>1, <1>4, <2>1 DEF SettledInv
<1> QED  BY <1>3, <1>5, <1>6

\* The j-th connection delivers what the innermost call has to say.
LEMMA CallMoves ==
  ASSUME UniqueRoutes, RankedCalls, SharedBitsArbitrated, TypeOK, TypeOK', IInv, Deliver
  PROVE  DeliveryInv' /\ CallsInv' /\ SettledInv'
<1> USE RouteAssumption, PortAssumption
<1>1. PICK j \in InputsLeft(stack[1]) :
             (\A k \in InputsLeft(stack[1]) : j <= k) /\ DeliverTo(j, conns[j])
  BY DEF Deliver
<1>2. /\ stack # <<>> /\ stack[1].reacting = {}
      /\ UNCHANGED <<phase, conns, arbitration, valOut, todo>>
  BY DEF Deliver
<1> DEFINE r == conns[j]
           d == r.dst
           nval == Merged(r, stack[1].val)
<1>3. /\ j \in DOMAIN conns /\ j \in Nat /\ stack[1].next <= j /\ r.src = stack[1].src
      /\ r \in Routes /\ Acceptable(r) /\ d \in Ports /\ r.src \in Ports /\ r.mask \subseteq Mask[d]
      /\ stack[1] \in Frame /\ 1 \in DOMAIN stack
  BY <1>1, <1>2 DEF InputsLeft, TypeOK, IInv, ArbitrationInv, RouteType
<1>4. phase # "config"
  BY <1>2 DEF IInv, RequestsInv
<1>5. FirstRef(r) = r
  BY <1>3, FirstRefIsOwn DEF IInv
<1>6. /\ dstVal' = IF arbitration[d] THEN [dstVal EXCEPT ![r] = nval] ELSE dstVal
      /\ valIn' = IF valIn[d] # nval
                  THEN [valIn EXCEPT ![d] = IF arbitration[d] THEN WiredAnd(d, dstVal') ELSE nval]
                  ELSE valIn
      /\ fed' = fed \cup {r}
  BY <1>1, <1>5 DEF DeliverTo, Recorded
<1> DEFINE react == IF valIn[d] # nval /\ Processed(r) THEN Reacts[d] ELSE {}
           top == [stack[1] EXCEPT !.next = j + 1, !.reacting = react]
<1>7. stack' = [stack EXCEPT ![1] = top]
  BY <1>1 DEF DeliverTo
<1>8. react \in SUBSET Ports /\ \A q \in react : Rank[q] > Rank[stack[1].src]
  BY <1>3 DEF RankedCalls
<1>9. /\ top.src = stack[1].src /\ top.val = stack[1].val
      /\ top.next = j + 1 /\ top.reacting = react
  <2> HIDE DEF react
  <2> QED  BY <1>3 DEF Frame
<1>10. nval \cap r.mask = Driven(r, stack[1].val) /\ nval \in SUBSET PortBits
       /\ \A m : m \cap r.mask = {} /\ m \subseteq Mask[d] => nval \cap m = valIn[d] \cap m
  BY <1>3 DEF Merged, Driven
<1> HIDE DEF top, react, nval
<1>11. /\ DOMAIN stack' = DOMAIN stack /\ stack'[1] = top
       /\ \A i \in DOMAIN stack : i # 1 => stack'[i] = stack[i]
  BY <1>3, <1>7 DEF TypeOK
<1>12. \A i \in DOMAIN stack : /\ stack'[i].src = stack[i].src /\ stack'[i].val = stack[i].val
  BY <1>9, <1>11
<1>13. CallsInv'
  <2>1. \A i \in DOMAIN stack : \A q \in stack'[i].reacting : Rank[q] > Rank[stack[i].src]
    BY <1>8, <1>9, <1>11 DEF IInv, CallsInv
  <2> QED  BY <1>2, <1>11, <1>12, <2>1 DEF IInv, CallsInv
<1>14. ASSUME NEW k \in DOMAIN conns, k # j, Pending(k)  PROVE Pending(k)'
  <2>1. CASE conns[k].src \in todo
    BY <1>2, <2>1 DEF Pending
  <2>2. CASE Calling(stack, k)
    <3>1. PICK i \in DOMAIN stack : stack[i].src = conns[k].src /\ stack[i].next <= k
      BY <2>2 DEF Calling
    <3>2. CASE i # 1
      BY <1>2, <1>11, <3>1, <3>2 DEF Pending, Calling
    <3>3. CASE i = 1
      <4>1. k \in InputsLeft(stack[1]) /\ k \in Nat
        BY <3>1, <3>3 DEF InputsLeft, TypeOK
      <4>2. j + 1 <= k
        BY <1>1, <1>3, <1>14, <4>1
      <4>3. stack'[1].src = conns'[k].src /\ stack'[1].next <= k
        BY <1>2, <1>9, <1>11, <3>1, <3>3, <4>2
      <4> QED  BY <1>3, <1>11, <4>3 DEF Pending, Calling
    <3> QED  BY <3>2, <3>3
  <2> QED  BY <1>14, <2>1, <2>2 DEF Pending
<1>15. DeliveryInv'
  <2>1. ASSUME NEW k \in DOMAIN conns  PROVE conns[k] \in fed' \/ Pending(k)'
    BY <1>4, <1>6, <1>14 DEF IInv, DeliveryInv
  <2>2. phase = "run" => todo = {} /\ \A k \in DOMAIN conns : conns[k] \in fed'
    BY <1>6 DEF IInv, DeliveryInv
  <2> QED  BY <1>2, <2>1, <2>2 DEF DeliveryInv
<1>16. Seen(r)' = Driven(r, valOut[r.src])
  <2>1. stack[1].val = valOut[r.src]
    BY <1>3 DEF IInv, CallsInv
  <2>2. CASE arbitration[d]
    <3>1. dstVal'[r] = nval
      BY <1>3, <1>6, <2>2 DEF TypeOK
    <3> QED  BY <1>2, <1>10, <2>1, <2>2, <3>1 DEF Seen
  <2>3. CASE ~ arbitration[d]
    <3>1. valIn'[d] = nval
      BY <1>3, <1>6, <2>3 DEF TypeOK
    <3> QED  BY <1>2, <1>10, <2>1, <2>3, <3>1 DEF Seen
  <2> QED  BY <2>2, <2>3
<1>17. ASSUME NEW k \in DOMAIN conns, conns[k] # r  PROVE Seen(conns[k])' = Seen(conns[k])
  <2> DEFINE q == conns[k]
  <2>1. q \in Routes /\ q # r /\ q.dst \in Ports /\ q.mask \subseteq Mask[q.dst] /\ Acceptable(q)
    BY <1>17 DEF TypeOK, RouteType, IInv, ArbitrationInv
  <2> HIDE DEF q
  <2>2. CASE arbitration[q.dst]
    <3>1. dstVal'[q] = dstVal[q]
      BY <1>3, <1>6, <2>1 DEF TypeOK
    <3> QED  BY <1>2, <2>2, <3>1 DEF Seen, q
  <2>3. CASE ~ arbitration[q.dst] /\ q.dst # d
    <3>1. valIn'[q.dst] = valIn[q.dst]
      BY <1>3, <1>6, <2>1, <2>3 DEF TypeOK
    <3> QED  BY <1>2, <2>3, <3>1 DEF Seen, q
  <2>4. CASE ~ arbitration[q.dst] /\ q.dst = d
    <3>1. ~ ArbitratedInput(d)
      BY <1>3, <1>4, <2>4, FlagsComplete DEF IInv
    <3>2. q.mask \cap r.mask = {}
      BY <1>3, <2>1, <2>4, <3>1 DEF SharedBitsArbitrated
    <3>3. valIn'[d] = nval
      BY <1>3, <1>6, <2>4 DEF TypeOK
    <3>4. q.mask \cap valIn'[d] = q.mask \cap valIn[d]
      BY <1>10, <2>1, <2>4, <3>2, <3>3
    <3> QED  BY <1>2, <2>4, <3>4 DEF Seen, q
  <2> QED  BY <2>2, <2>3, <2>4
<1>18. SettledInv'
  <2>1. ASSUME NEW k \in DOMAIN conns, ~ Pending(k)'
        PROVE  Seen(conns[k])' = Driven(conns[k], valOut[conns[k].src])
    <3>1. CASE conns[k] = r
      BY <1>2, <1>16, <3>1
    <3>2. CASE conns[k] # r
      <4>1. ~ Pending(k)
        BY <1>14, <2>1, <3>2
      <4> QED  BY <1>4, <1>17, <3>2, <4>1 DEF IInv, SettledInv
    <3> QED  BY <3>1, <3>2
  <2> QED  BY <1>2, <2>1 DEF SettledInv
<1> QED  BY <1>13, <1>15, <1>18

-----------------------------------------------------------------------------
(* The invariant, for every wiring that keeps the rules.                   *)

\* Each step keeps what the calls in progress and the connections agree on.
LEMMA CallsKept ==
  ASSUME UniqueRoutes, RankedCalls, SharedBitsArbitrated, TypeOK, TypeOK', IInv, [Next]_vars
  PROVE  DeliveryInv' /\ CallsInv' /\ SettledInv'
<1> USE RouteAssumption, PortAssumption
<1>1. ASSUME NEW p \in Outputs, NEW v \in Levels(p), NEW base, SameCalls(base),
             \A i \in DOMAIN stack : Rank[p] > Rank[stack[i].src], phase # "config",
             UNCHANGED todo, UpdatePort(p, v, FALSE, base)
      PROVE  DeliveryInv' /\ CallsInv' /\ SettledInv'
  <2>1. p \in Ports /\ v \in SUBSET PortBits
    BY DEF Outputs, Levels
  <2>2. CASE HasFanOut(p) /\ valOut[p] # v
    BY <1>1, <2>1, <2>2, CallOpens DEF UpdatePort, IInv
  <2>3. CASE ~ (HasFanOut(p) /\ valOut[p] # v)
    <3>1. /\ stack' = base /\ valOut' = [valOut EXCEPT ![p] = v]
          /\ UNCHANGED <<phase, conns, arbitration, dstVal, valIn, fed>>
      BY <1>1, <2>3 DEF UpdatePort
    <3>2. \A i \in DOMAIN stack : stack[i].src # p
      BY <1>1, <2>1 DEF RankedCalls
    <3>3. \A q \in Ports : q # p => valOut'[q] = valOut[q]
      BY <3>1 DEF TypeOK
    <3>4. \A i \in DOMAIN stack : stack[i].src \in Ports
      BY CallsTyped
    <3>5. \A j \in DOMAIN conns : conns[j].src \in Ports
      BY DEF TypeOK, RouteType
    <3>6. \A j \in DOMAIN conns : valOut'[conns[j].src] = valOut[conns[j].src]
      <4>1. CASE valOut[p] = v
        BY <2>1, <3>1, <3>5, <4>1 DEF TypeOK
      <4>2. CASE ~ HasFanOut(p)
        BY <3>3, <3>5, <4>2 DEF HasFanOut
      <4> QED  BY <2>3, <4>1, <4>2
    <3>7. SameCalls(stack')
      BY <1>1, <3>1
    <3> QED  BY <1>1, <3>1, <3>2, <3>3, <3>4, <3>6, <3>7, CallsUnmoved DEF IInv
  <2> QED  BY <2>2, <2>3
<1>2. SameCalls(stack)
  BY DEF SameCalls, TypeOK
<1>3. ASSUME NEW p \in Outputs, NEW v \in Levels(p), Drive(p, v)
      PROVE  DeliveryInv' /\ CallsInv' /\ SettledInv'
  <2> DEFINE base == stack
  <2>1. phase # "config" /\ stack = <<>> /\ UNCHANGED todo
    BY <1>3 DEF Drive
  <2>2. SameCalls(base) /\ UpdatePort(p, v, FALSE, base)
    BY <1>2, <1>3 DEF Drive
  <2>3. \A i \in DOMAIN stack : Rank[p] > Rank[stack[i].src]
    BY <2>1
  <2> HIDE DEF base
  <2> QED  BY <1>1, <2>1, <2>2, <2>3
<1>4. ASSUME NEW p \in Outputs, NEW v \in Levels(p), React(p, v)
      PROVE  DeliveryInv' /\ CallsInv' /\ SettledInv'
  <2> DEFINE base == [stack EXCEPT ![1].reacting = stack[1].reacting \ {p}]
  <2>1. /\ UpdatePort(p, v, FALSE, base) /\ stack # <<>> /\ p \in stack[1].reacting /\ UNCHANGED todo
    BY <1>4 DEF React
  <2>2. phase # "config"
    BY <2>1 DEF IInv, RequestsInv
  <2>3. SameCalls(base)
    BY <2>1, HandlerMoves
  <2>4. \A i \in DOMAIN stack : Rank[p] > Rank[stack[i].src]
    <3>1. 1 \in DOMAIN stack /\ DOMAIN stack \subseteq Nat \ {0}
      BY <2>1 DEF TypeOK
    <3>2. \A i \in DOMAIN stack : stack[i].src \in Ports
      BY CallsTyped
    <3>3. \A i \in DOMAIN stack : Rank[stack[i].src] \in Nat
      BY <3>2 DEF RankedCalls
    <3>4. Rank[p] > Rank[stack[1].src] /\ Rank[p] \in Nat
      BY <2>1, <3>1 DEF IInv, CallsInv, RankedCalls, Outputs
    <3>5. \A i \in DOMAIN stack : i # 1 => Rank[stack[1].src] > Rank[stack[i].src]
      BY <3>1 DEF IInv, CallsInv
    <3> QED  BY <3>1, <3>3, <3>4, <3>5
  <2> HIDE DEF base
  <2> QED  BY <1>1, <2>1, <2>2, <2>3, <2>4
<1>5. ASSUME NEW p \in Outputs, NEW v \in Levels(p), ForceOut(p, v)
      PROVE  DeliveryInv' /\ CallsInv' /\ SettledInv'
  <2>1. /\ UpdatePort(p, v, TRUE, stack) /\ phase = "power" /\ stack = <<>> /\ todo' = todo \ {p}
        /\ p \in Ports /\ v \in SUBSET PortBits
    BY <1>5 DEF ForceOut, Outputs, Levels
  <2>2. \A i \in DOMAIN stack : Rank[p] > Rank[stack[i].src]
    BY <2>1
  <2>3. CASE HasFanOut(p)
    BY <1>2, <2>1, <2>2, <2>3, CallOpens DEF UpdatePort, IInv
  <2>4. CASE ~ HasFanOut(p)
    <3>1. /\ stack' = stack /\ valOut' = [valOut EXCEPT ![p] = v]
          /\ UNCHANGED <<phase, conns, arbitration, dstVal, valIn, fed>>
      BY <2>1, <2>4 DEF UpdatePort
    <3>2. \A j \in DOMAIN conns : conns[j].src \in Ports /\ conns[j].src # p
      BY <2>4 DEF TypeOK, RouteType, HasFanOut
    <3>3. \A j \in DOMAIN conns : /\ valOut'[conns[j].src] = valOut[conns[j].src]
                                  /\ conns[j].src \in todo => conns[j].src \in todo'
      BY <2>1, <3>1, <3>2 DEF TypeOK
    <3> QED  BY <1>2, <2>1, <3>1, <3>3, CallsUnmoved DEF IInv
  <2> QED  BY <2>3, <2>4
<1>6. ASSUME HandlerDone  PROVE DeliveryInv' /\ CallsInv' /\ SettledInv'
  <2>1. /\ stack # <<>> /\ stack' = [stack EXCEPT ![1].reacting = {}]
        /\ UNCHANGED <<phase, conns, arbitration, dstVal, valOut, valIn, todo, fed>>
    BY <1>6 DEF HandlerDone
  <2>2. phase # "config"
    BY <2>1 DEF IInv, RequestsInv
  <2>3. SameCalls([stack EXCEPT ![1].reacting = {}])
    BY <2>1, HandlerMoves
  <2> QED  BY <2>1, <2>2, <2>3, CallsUnmoved DEF IInv
<1>7. ASSUME Return  PROVE DeliveryInv' /\ CallsInv' /\ SettledInv'
  <2>1. phase # "config"
    BY <1>7 DEF IInv, RequestsInv, Return
  <2> QED  BY <1>7, <2>1, CallEnds DEF IInv
<1>8. ASSUME Deliver  PROVE DeliveryInv' /\ CallsInv' /\ SettledInv'
  BY <1>8, CallMoves
<1>9. ASSUME NEW r \in Routes, Connect(r)  PROVE DeliveryInv' /\ CallsInv' /\ SettledInv'
  BY <1>9 DEF Connect, DeliveryInv, CallsInv, SettledInv, IInv, RequestsInv
<1>10. ASSUME PowerOn  PROVE DeliveryInv' /\ CallsInv' /\ SettledInv'
  <2>1. \A j \in DOMAIN conns : Pending(j)'
    BY <1>10 DEF PowerOn, Pending, IInv, ArbitrationInv, Acceptable, Outputs, TypeOK, RouteType
  <2> QED  BY <1>10, <2>1 DEF PowerOn, DeliveryInv, CallsInv, SettledInv, IInv, RequestsInv
<1>11. ASSUME Started \/ UNCHANGED vars, phase # "config"  PROVE DeliveryInv' /\ CallsInv' /\ SettledInv'
  <2>1. /\ UNCHANGED <<conns, arbitration, dstVal, valOut, valIn, stack, todo, fed>>
        /\ phase' # "config"
        /\ phase' = "run" => todo = {} /\ \A j \in DOMAIN conns : conns[j] \in fed
    BY <1>11 DEF Started, vars, IInv, DeliveryInv, Pending, Calling
  <2>2. \A j \in DOMAIN conns : /\ Pending(j)' <=> Pending(j)
                                /\ Seen(conns[j])' = Seen(conns[j])
    BY <2>1 DEF Pending, Calling, Seen
  <2>3. DeliveryInv' /\ SettledInv'
    BY <1>11, <2>1, <2>2 DEF IInv, DeliveryInv, SettledInv
  <2> QED  BY <2>1, <2>3 DEF IInv, CallsInv
<1>12. ASSUME UNCHANGED vars, phase = "config"  PROVE DeliveryInv' /\ CallsInv' /\ SettledInv'
  BY <1>12 DEF vars, IInv, DeliveryInv, CallsInv, SettledInv
<1>13. Started => phase # "config"
  BY DEF Started
<1> QED
  BY <1>3, <1>4, <1>5, <1>6, <1>7, <1>8, <1>9, <1>10, <1>11, <1>12, <1>13 DEF Next, Call

\* The hypotheses of what follows: the rules the memory map keeps, for some ranks.
Wiring == UniqueRoutes /\ RankedCalls /\ SharedBitsArbitrated

(***************************************************************************)
(* In every reachable state, in the middle of nested updates and of power  *)
(* on as well, the flags, the requests and the inputs agree with the       *)
(* outputs but for what the calls in progress have yet to deliver.         *)
(***************************************************************************)
THEOREM CallsCorrect ==
  ASSUME Wiring
  PROVE  Spec => []IInv
<1>1. Init => IInv
  <2> SUFFICES ASSUME Init PROVE IInv
    OBVIOUS
  <2>1. RequestsInv
    BY DEF Init, RequestsInv, ArbitratedIsAnd
  <2>2. ArbitrationInv
    BY DEF Init, ArbitrationInv, Arbitrates
  <2> QED  BY <2>1, <2>2 DEF Init, IInv, DeliveryInv, CallsInv, SettledInv
<1>2. TypeOK /\ TypeOK' /\ RequestsInv' /\ IInv /\ [Next]_vars => IInv'
  BY FlagsKept, CallsKept DEF IInv, Wiring
<1>3. Spec => []RequestsInv
  BY RequestsKept DEF Wiring
<1> QED  BY <1>1, <1>2, <1>3, TypeCorrect, PTL DEF Spec

(***************************************************************************)
(* Once the system runs and no update is in progress, each connected bit   *)
(* of each input is the AND of what its sources drive: neither the early   *)
(* exits of updatePort nor an update made by a handler loses a value.      *)
(***************************************************************************)
THEOREM SettledCorrect ==
  ASSUME Wiring
  PROVE  Spec => []LinesSettled
<1> USE RouteAssumption
<1>1. TypeOK /\ IInv => LinesSettled
  <2> SUFFICES ASSUME TypeOK, IInv, phase = "run", stack = <<>>,
                      NEW r \in Routes, Connected(r), NEW b \in r.mask
               PROVE  b \in valIn[r.dst] <=>
                        \A q \in Routes : (Connected(q) /\ q.dst = r.dst /\ b \in q.mask)
                                            => b \in Driven(q, valOut[q.src])
    BY DEF LinesSettled
  <2>1. \A j \in DOMAIN conns : ~ Pending(j)
    BY DEF IInv, DeliveryInv, Pending, Calling
  <2>2. \A q \in Routes : Connected(q) => q \in fed /\ Acceptable(q) /\ Seen(q) = Driven(q, valOut[q.src])
    BY <2>1 DEF Connected, IInv, DeliveryInv, SettledInv, ArbitrationInv
  <2>3. CASE arbitration[r.dst]
    <3>1. b \in valIn[r.dst] <=>
            \A q \in Routes : (Connected(q) /\ q.dst = r.dst /\ b \in q.mask) => b \in dstVal[q]
      BY <2>2, <2>3 DEF IInv, RequestsInv, ArbitratedIsAnd
    <3>2. ASSUME NEW q \in Routes, Connected(q), q.dst = r.dst, b \in q.mask
          PROVE  b \in dstVal[q] <=> b \in Driven(q, valOut[q.src])
      BY <2>2, <2>3, <3>2 DEF Seen
    <3> QED  BY <3>1, <3>2
  <2>4. CASE ~ arbitration[r.dst]
    <3>1. r.dst \in Ports
      BY DEF RouteType
    <3>2. ~ ArbitratedInput(r.dst)
      BY <2>4, <3>1, FlagsComplete DEF IInv
    <3>3. \A q \in Routes : (Connected(q) /\ q.dst = r.dst /\ b \in q.mask) => q = r
      BY <2>2, <3>2 DEF Wiring, SharedBitsArbitrated
    <3>4. b \in valIn[r.dst] <=> b \in Driven(r, valOut[r.src])
      BY <2>2, <2>4 DEF Seen
    <3> QED  BY <3>3, <3>4
  <2> QED  BY <2>3, <2>4
<1> QED  BY <1>1, TypeCorrect, CallsCorrect, PTL

-----------------------------------------------------------------------------
(* An arbitrated input implements a wired-AND line.                        *)

\* The line is the AND of the requests once each source has made one.
LEMMA LineIsAnd ==
  ASSUME TypeOK, IInv, LineArbitrated, phase # "config", LineSources \subseteq fed
  PROVE  LineLevel = WA!And(LineRequests)
<1>1. Line \in Ports
  BY RouteAssumption DEF LineArbitrated, ArbitratedInput, PureSources, RouteType
<1>2. arbitration[Line]
  BY <1>1, FlagsComplete DEF IInv, LineArbitrated
<1>3. \A r \in LineSources : r \in Routes /\ r.dst = Line /\ Connected(r)
  BY DEF LineSources, LineArbitrated, IInv, ArbitrationInv
<1>4. ASSUME NEW r \in LineSources, NEW b \in r.mask
      PROVE  b \in valIn[Line] <=> \A s \in LineSources : b \in s.mask => b \in dstVal[s] \cap s.mask
  <2>1. b \in valIn[r.dst] <=>
          \A q \in Routes : (Connected(q) /\ q.dst = r.dst /\ b \in q.mask) => b \in dstVal[q]
    BY <1>2, <1>3 DEF IInv, RequestsInv, ArbitratedIsAnd
  <2>2. \A q \in Routes : q.dst = Line => q \in LineSources
    BY DEF LineSources
  <2> QED  BY <1>3, <2>1, <2>2
<1>5. WA!And(LineRequests)
        = {b \in LineBits : \A s \in LineSources : b \in s.mask => b \in dstVal[s] \cap s.mask}
  BY DEF WA!And, LineRequests
<1>6. \A b \in LineBits : b \in valIn[Line] <=>
                           \A s \in LineSources : b \in s.mask => b \in dstVal[s] \cap s.mask
  BY <1>4 DEF LineBits
<1> QED  BY <1>5, <1>6 DEF LineLevel

\* The line is right as long as the system runs.
LineInv == phase = "run" => LineLevel = WA!And(LineRequests)

\* While the system runs the line is the wired AND of the requests.
LEMMA LineHeld ==
  ASSUME Wiring, LineArbitrated
  PROVE  Spec => []LineInv
<1>1. TypeOK /\ IInv => LineInv
  <2> SUFFICES ASSUME TypeOK, IInv, phase = "run" PROVE LineLevel = WA!And(LineRequests)
    BY DEF LineInv
  <2>1. LineSources \subseteq fed
    BY DEF IInv, DeliveryInv, LineSources, LineArbitrated, ArbitrationInv, Connected
  <2> QED  BY <2>1, LineIsAnd
<1> QED  BY <1>1, TypeCorrect, CallsCorrect, PTL

\* A delivery to the line is the presentation of a request; one to another input is none.
LEMMA DeliveryPresents ==
  ASSUME UniqueRoutes, LineArbitrated, TypeOK, TypeOK', IInv, LineInv', Deliver
  PROVE  \/ UNCHANGED <<phase = "run", LineRequests, LineLevel>>
         \/ \E s \in LineSources : \E level \in SUBSET s.mask : WA!Present(s, level)
<1> USE RouteAssumption
<1>1. PICK j \in DOMAIN conns : DeliverTo(j, conns[j])
  BY DEF Deliver, InputsLeft
<1> DEFINE r == conns[j]
           nval == Merged(r, stack[1].val)
<1>2. r \in Routes /\ FirstRef(r) = r
  BY FirstRefIsOwn DEF TypeOK, IInv
<1>3. /\ dstVal' = IF arbitration[r.dst] THEN [dstVal EXCEPT ![r] = nval] ELSE dstVal
      /\ \A d \in Ports : d # r.dst => valIn'[d] = valIn[d]
      /\ UNCHANGED <<phase, conns, todo>>
  BY <1>1, <1>2 DEF Deliver, DeliverTo, Recorded, TypeOK
<1> HIDE DEF nval
<1>4. \A q \in Routes : q # r => dstVal'[q] = dstVal[q]
  BY <1>2, <1>3 DEF TypeOK
<1>5. Line \in Ports /\ \A s \in LineSources : s \in Routes /\ s.dst = Line
  BY DEF LineArbitrated, ArbitratedInput, PureSources, RouteType, LineSources
<1>6. CASE r.dst # Line
  <2>1. \A s \in LineSources : dstVal'[s] = dstVal[s]
    BY <1>4, <1>5, <1>6
  <2>2. UNCHANGED LineRequests
    BY <2>1 DEF LineRequests
  <2>3. UNCHANGED LineLevel
    BY <1>3, <1>5, <1>6 DEF LineLevel
  <2> QED  BY <1>3, <2>2, <2>3
<1>7. CASE r.dst = Line
  <2> DEFINE level == dstVal'[r] \cap r.mask
  <2>1. r \in LineSources /\ level \in SUBSET r.mask
    BY <1>2, <1>7 DEF LineSources
  <2>2. LineRequests' = [LineRequests EXCEPT ![r] = level]
    BY <1>4, <1>5 DEF LineRequests
  <2>3. LineLevel' \in SUBSET LineBits
    BY DEF LineLevel, LineBits
  <2>4. phase = "run" => LineLevel' = WA!And(LineRequests')
    BY <1>3 DEF LineInv
  <2> HIDE DEF level
  <2>5. WA!Present(r, level)
    BY <1>3, <2>2, <2>3, <2>4 DEF WA!Present
  <2> QED  BY <2>1, <2>5
<1> QED  BY <1>6, <1>7

\* The end of power on finds the line as it is asked for.
LEMMA StartPowersUp ==
  ASSUME LineArbitrated, TypeOK, IInv, Started
  PROVE  WA!PowerUp
<1>1. /\ phase = "power" /\ stack = <<>> /\ todo = {} /\ phase' = "run"
      /\ UNCHANGED <<dstVal, valIn>>
  BY DEF Started
<1>2. \A j \in DOMAIN conns : conns[j] \in fed
  BY <1>1 DEF IInv, DeliveryInv, Pending, Calling
<1>3. LineSources \subseteq fed
  BY <1>1, <1>2 DEF LineSources, LineArbitrated, IInv, ArbitrationInv, Connected
<1>4. LineLevel = WA!And(LineRequests)
  BY <1>1, <1>3, LineIsAnd
<1>5. UNCHANGED <<LineRequests, LineLevel>>
  BY <1>1 DEF LineRequests, LineLevel
<1> QED  BY <1>1, <1>4, <1>5 DEF WA!PowerUp

(***************************************************************************)
(* The wiring implements the wired-AND line: whatever devices, handlers    *)
(* and other connections there are, the input Line moves only when one of  *)
(* its sources presents a request, and is then the AND of all requests.    *)
(***************************************************************************)
THEOREM LineCorrect ==
  ASSUME Wiring, LineArbitrated
  PROVE  Spec => LineIsWiredAnd
<1>1. Init => WA!Init
  BY DEF Init, WA!Init, LineRequests, LineLevel, LineBits
<1>2. TypeOK /\ TypeOK' /\ IInv /\ LineInv' /\ [Next]_vars
        => [WA!Next]_<<phase = "run", LineRequests, LineLevel>>
  <2> SUFFICES ASSUME TypeOK, TypeOK', IInv, LineInv', [Next]_vars
               PROVE  WA!Next \/ UNCHANGED <<phase = "run", LineRequests, LineLevel>>
    OBVIOUS
  <2>1. CASE Started
    BY <2>1, StartPowersUp DEF WA!Next
  <2>2. CASE Deliver
    <3>1. \A s \in LineSources : [r \in LineSources |-> r.mask][s] = s.mask
      OBVIOUS
    <3> QED  BY <2>2, <3>1, DeliveryPresents DEF WA!Next, Wiring
  <2>3. CASE ~ Started /\ ~ Deliver
    <3>1. UNCHANGED <<dstVal, valIn>> /\ (phase' = "run" <=> phase = "run")
      BY <2>3 DEF Next, vars, Call, Connect, PowerOn, ForceOut, Drive, React, UpdatePort, HandlerDone, Return
    <3>2. UNCHANGED <<LineRequests, LineLevel>>
      BY <3>1 DEF LineRequests, LineLevel
    <3> QED  BY <3>1, <3>2
  <2> QED  BY <2>1, <2>2, <2>3
<1> QED  BY <1>1, <1>2, TypeCorrect, CallsCorrect, LineHeld, PTL DEF Spec, LineIsWiredAnd, WA!Spec
=============================================================================
