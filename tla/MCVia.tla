------------------------------- MODULE MCVia -------------------------------
(***************************************************************************)
(* Instances of the VIA, one setup per function.  Bytes have two values    *)
(* where the timers matter, so that the counters run from 0 to 3, and one  *)
(* value elsewhere; the shift register has two bits.                     *)
(***************************************************************************)
EXTENDS VIAProperties

W(r, d) == [reg |-> r, data |-> d]
Acr(t1, t2, sr) == W("ACR", [t1 |-> t1, t2 |-> t2, sr |-> sr, latchA |-> FALSE, latchB |-> FALSE])
Pcr(c1, c2) == W("PCR", [l \in ControlLines |-> IF l \in {"CA1", "CB1"} THEN c1 ELSE c2])
Enable(set, f) == W("IER", [set |-> set, flags |-> {f}])
Bits == {[i \in 1 .. Width |-> FALSE], [i \in 1 .. Width |-> i = 1]}

Setup(w, r, l) == [writes |-> w, reads |-> r, lines |-> l, responsive |-> FALSE]

\* T1 in its four modes, with PB7 driven by the port as well.
Timer1Setup ==
  Setup({W(r, d) : r \in {"T1CL", "T1CH", "T1LL", "T1LH"}, d \in Bytes}
          \cup {Acr(m, 0, 0) : m \in 0 .. 3} \cup {Enable(TRUE, "T1"), Enable(FALSE, "T1")}
          \cup {W("DDRB", {"PB7"}), W("ORB", {"PB7"}), W("ORB", {}), W("IFR", {"T1"})},
        {"T1CL", "other"}, {})

\* T2 in both modes, counting the pulses of PB6.
Timer2Setup ==
  Setup({W(r, d) : r \in {"T2CL", "T2CH"}, d \in Bytes} \cup {W("IFR", {"T2"})}
          \cup {Acr(0, m, 0) : m \in 0 .. 1},
        {"T2CL"}, {"PB6"})

TimerSetups == {Timer1Setup, Timer2Setup}

\* The control lines of both ports in every mode.
ControlSetup ==
  Setup({Pcr(c1, c2) : c1 \in 0 .. 1, c2 \in {0, 1, 2, 4}}
          \cup {Enable(TRUE, "CA1"), Enable(TRUE, "CB2")}
          \cup {W("ORB", {}), W("IFR", {"CA1"})},
        {"IRA", "IRB"}, {"CA1", "CB1", "CB2"})

\* Latching of port A.
LatchSetup ==
  Setup({W("ACR", [t1 |-> 0, t2 |-> 0, sr |-> 0, latchA |-> l, latchB |-> ~l]) : l \in BOOLEAN}
          \cup {Pcr(c1, 0) : c1 \in 0 .. 1} \cup {W("IFR", {"CA1"})},
        {"IRA", "IRB"}, {"CA1", "CB1", "PA0"})

\* The shift register; the device answers on CB2.
ShiftSetup ==
  [Setup({Acr(0, 0, m) : m \in {0, 2, 3, 6, 7}} \cup {W("SR", b) : b \in Bits} \cup {Enable(TRUE, "SR")},
         {}, {"CB2"}) EXCEPT !.responsive = TRUE]

LineSetups == {ControlSetup, LatchSetup, ShiftSetup}

=============================================================================
