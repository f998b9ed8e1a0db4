------------------------------- MODULE MCInstr -------------------------------
(***************************************************************************)
(* Instances of the two 6502 processors: every opcode with a few register  *)
(* files at the edges (wrapping indices and stack, every flag), operands   *)
(* on both sides of a page boundary and in ROM, with and without an        *)
(* interrupt; decimal and binary ADC and SBC over the edges of the digits. *)
(***************************************************************************)
EXTENDS InstrProperties, TLC

File(a, x, y, sp, sr) == [a |-> a, x |-> x, y |-> y, sp |-> sp, sr |-> sr]

Files == {File(0, 0, 1, 0, 0), File(128, 255, 2, 1, 203), File(127, 1, 255, 255, 5), File(255, 128, 127, 253, 192)}

\* Operand bytes <<low, high>>: a zero page pointer, a page edge, a far branch, and ROM.
OperandBytes == {<<0, 2>>, <<255, 2>>, <<128, 6>>, <<255, 223>>}

Plain ==
  {[code |-> o, request |-> "none", b1 |-> b[1], b2 |-> b[2], seed |-> s] @@ f :
     o \in Opcodes, b \in OperandBytes, s \in {0, 77}, f \in Files}

Requested ==
  {[code |-> o, request |-> r, b1 |-> 1, b2 |-> 2, seed |-> 3] @@ f :
     o \in {<<"NOP", "Implied">>, <<"JSR", "Absolute">>, <<"LDA", "Absolute">>, <<"BNE", "Relative">>, <<"RTI", "Implied">>},
     r \in {"IRQ", "NMI"}, f \in Files}

Digits == {0, 1, 4, 5, 8, 9}
Numbers == {16 * h + l : h \in Digits, l \in Digits} \cup {127, 128, 255, 15}

Arithmetic ==
  {[code |-> <<i, "Immediate">>, request |-> "none", b1 |-> n, b2 |-> 0, seed |-> 0] @@ File(m, 0, 0, 255, sr) :
     i \in {"ADC", "SBC"}, n \in Numbers, m \in Numbers, sr \in {0, 1, 8, 9}}

AllTests == Plain \cup Requested \cup Arithmetic

Pairs ==
  {<<<<"JSR", "Absolute">>, <<"RTS", "Implied">>>>, <<<<"BRK", "Implied">>, <<"RTI", "Implied">>>>,
   <<<<"PHA", "Implied">>, <<"PLA", "Implied">>>>, <<<<"PHP", "Implied">>, <<"PLP", "Implied">>>>,
   <<<<"NOP", "Implied">>, <<"RTI", "Implied">>>>}

\* For the run in which a processor does not do what is written about it.
HandlerTests == {t \in Requested : t.code[1] \in {"JSR", "NOP"}}

=============================================================================
