------------------------------ MODULE LossyFifo ------------------------------
(***************************************************************************)
(* What a bounded drop-oldest buffer promises its readers: messages come   *)
(* out in the order they went in, each at most once, some not at all.      *)
(***************************************************************************)
EXTENDS Integers, Sequences

CONSTANT Message

VARIABLES
  inFlight,   \* accepted, neither delivered nor lost
  delivered   \* everything delivered so far

vars == <<inFlight, delivered>>

Init == inFlight = << >> /\ delivered = << >>

Accept(m) ==
  /\ inFlight' = Append(inFlight, m)
  /\ UNCHANGED delivered

(* Any message in flight may be lost; the rest keep their order. *)
Lose ==
  \E i \in 1..Len(inFlight) :
    /\ inFlight' = SubSeq(inFlight, 1, i - 1)
                     \o SubSeq(inFlight, i + 1, Len(inFlight))
    /\ UNCHANGED delivered

Deliver ==
  /\ inFlight # << >>
  /\ delivered' = Append(delivered, Head(inFlight))
  /\ inFlight' = Tail(inFlight)

Next == (\E m \in Message : Accept(m)) \/ Lose \/ Deliver

Spec == Init /\ [][Next]_vars
=============================================================================
