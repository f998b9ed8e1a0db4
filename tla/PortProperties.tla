--------------------------- MODULE PortProperties ---------------------------
(***************************************************************************)
(* What the wiring promises.                                               *)
(***************************************************************************)
EXTENDS PortNetwork

Connected(r) == \E j \in DOMAIN conns : conns[j] = r

TypeOK ==
  /\ phase \in {"config", "power", "run"}
  /\ conns \in Seq(Routes)
  /\ arbitration \in [Ports -> BOOLEAN]
  /\ dstVal \in [Routes -> SUBSET PortBits]
  /\ valOut \in [Ports -> SUBSET PortBits]
  /\ valIn \in [Ports -> SUBSET PortBits]
  /\ stack \in Seq(Frame)
  /\ todo \subseteq Outputs
  /\ fed \subseteq Routes

\* The comparison of updateDstPortValue with a value that replaces only one
\* source's bits, followed by the AND over ALL the sources' last requests, is
\* enough: from the first delivery on, every bit of an arbitrated input is the AND
\* of the requests its sources made ("IRQ shall remain low as long as at least one
\* device requests the line to be low"), in the middle of nested calls too.
ArbitratedIsAnd ==
  \A r \in fed : arbitration[r.dst] =>
    \A b \in r.mask :
      b \in valIn[r.dst] <=>
        \A q \in Routes : (Connected(q) /\ q.dst = r.dst /\ b \in q.mask) => b \in dstVal[q]

\* Between two calls of updatePort, once the system runs, every connected bit
\* of every input is the AND of what its sources drive NOW, inverted and shifted:
\* no delivery is lost to the early exits (value unchanged, arbitrated value
\* unchanged), to the masks and shifts of a neighbouring slice, or to updates nested in
\* a handler.  (Of wirings as RankedCalls and SharedBitsArbitrated have them.)
LinesSettled ==
  (phase = "run" /\ stack = <<>>) =>
    \A r \in Routes : Connected(r) =>
      \A b \in r.mask :
        b \in valIn[r.dst] <=>
          \A q \in Routes : (Connected(q) /\ q.dst = r.dst /\ b \in q.mask)
                              => b \in Driven(q, valOut[q.src])

-----------------------------------------------------------------------------
(* Why it does.                                                            *)

\* The inductive strengthening of ArbitratedIsAnd: a connection is made once and
\* delivers only after the wiring is complete, and a source that has not been
\* heard of yet requests nothing.
RequestsInv ==
  /\ \A i, j \in DOMAIN conns : conns[i] = conns[j] => i = j
  /\ phase = "config" => fed = {} /\ stack = <<>>
  /\ \A r \in Routes \ fed : dstVal[r] = PortBits
  /\ \A r \in fed : Connected(r)
  /\ ArbitratedIsAnd

\* The flags are those of the connections made so far; power on comes after the last.
ArbitrationInv ==
  /\ \A j \in DOMAIN conns : Acceptable(conns[j])
  /\ \A d \in Ports : arbitration[d] <=> Arbitrates(conns, d)
  /\ phase # "config" => \A r \in Routes : Acceptable(r) => Connected(r)

\* A call in s has yet to come to the j-th connection.
Calling(s, j) == \E i \in DOMAIN s : s[i].src = conns[j].src /\ s[i].next <= j

\* The j-th connection is to deliver a value yet: its source has not been forced
\* out, or an update of it is in progress.
Pending(j) == conns[j].src \in todo \/ Calling(stack, j)

\* From power on, each connection has delivered or is about to; once the system runs,
\* all have.
DeliveryInv ==
  /\ phase # "config" => \A j \in DOMAIN conns : conns[j] \in fed \/ Pending(j)
  /\ phase = "run" => todo = {} /\ \A j \in DOMAIN conns : conns[j] \in fed

CONSTANT Rank   \* how deep a port is updated: Rank[p] is 0 for what no handler updates

\* A nested update is of a port of higher rank, so that none is in progress twice, and
\* each delivers the present value of its port.
CallsInv ==
  /\ \A i \in DOMAIN stack :
       /\ stack[i].val = valOut[stack[i].src]
       /\ \A q \in stack[i].reacting : Rank[q] > Rank[stack[i].src]
  /\ \A i, k \in DOMAIN stack : i < k => Rank[stack[i].src] > Rank[stack[k].src]

\* What the destination of r has of it: the request, or without arbitration the input.
Seen(r) == r.mask \cap (IF arbitration[r.dst] THEN dstVal[r] ELSE valIn[r.dst])

\* A connection that is not about to deliver has delivered what its source drives.
SettledInv ==
  phase # "config" =>
    \A j \in DOMAIN conns : Pending(j) \/ Seen(conns[j]) = Driven(conns[j], valOut[conns[j].src])

IInv == RequestsInv /\ ArbitrationInv /\ DeliveryInv /\ CallsInv /\ SettledInv

-----------------------------------------------------------------------------
(* The abstract view of one arbitrated input d: a wired-AND line.          *)

CONSTANT Line   \* the destination port that is viewed as a wired-AND line

LineSources == {r \in Routes : r.dst = Line}
LineBits     == UNION {r.mask : r \in LineSources}
LineRequests == [r \in LineSources |-> dstVal[r] \cap r.mask]
LineLevel    == valIn[Line] \cap LineBits

WA == INSTANCE WiredAndLine WITH
        Bits    <- LineBits,
        Sources <- LineSources,
        Wires   <- [r \in LineSources |-> r.mask],
        powered <- phase = "run",
        request <- LineRequests,
        line    <- LineLevel

\* The arbitrated input Line is a wired-AND line: every delivery to it presents one
\* source's new request and recomputes the line, and nothing else moves it.
LineIsWiredAnd == WA!Spec

-----------------------------------------------------------------------------
(* What the memory map has to see to.                                      *)

\* No output is connected twice to an input: the search of updateDstPortValue would
\* record every request at the first of the connections.
UniqueRoutes == \A r, q \in Routes : (r.src = q.src /\ r.dst = q.dst) => r = q

\* An update made by the handler of an update does not come back to the port that is
\* being updated, by any number of handlers.
RankedCalls ==
  /\ Rank \in [Ports -> Nat]
  /\ \A r \in Routes : Processed(r) => \A q \in Reacts[r.dst] : Rank[q] > Rank[r.src]

\* All the CONNECT lines together make d an arbitrated input.
PureSources(d) == {r \in Routes : Acceptable(r) /\ r.dst = d /\ Dir[r.src] = "OUT"}
ArbitratedInput(d) ==
  /\ \E r, q \in PureSources(d) : r # q
  /\ \E b \in PortBits : \A r \in PureSources(d) : b \in r.mask

\* Where two connections share a bit of an input, the input is arbitrated.
SharedBitsArbitrated ==
  \A r, q \in Routes :
    (Acceptable(r) /\ Acceptable(q) /\ r # q /\ r.dst = q.dst /\ r.mask \cap q.mask # {})
      => ArbitratedInput(r.dst)

\* The viewed line is an arbitrated input, and its CONNECT lines are accepted.
LineArbitrated == ArbitratedInput(Line) /\ \A r \in LineSources : Acceptable(r)

=============================================================================
