------------------------------ MODULE AtMostOnce ------------------------------
(***************************************************************************)
(* What the pipeline promises of an intent, whoever approved it and however *)
(* often: it is executed after it was offered, and once at most in the     *)
(* life of the executing process.  An offered intent may also never be     *)
(* executed.                                                               *)
(***************************************************************************)
EXTENDS Sequences, SequencesExt

CONSTANT Intents

VARIABLES
  offered,    \* intents that were approved, or need no approval
  executed    \* intents whose execution has begun in this life, in that order

Init == offered = {} /\ executed = << >>

Offer(i) ==
  /\ offered' = offered \cup {i}
  /\ UNCHANGED executed

Execute(i) ==
  /\ i \in offered
  /\ ~Contains(executed, i)
  /\ executed' = Append(executed, i)
  /\ UNCHANGED offered

\* The executing process starts again, and remembers nothing.
Restart ==
  /\ executed' = << >>
  /\ UNCHANGED offered

Next == Restart \/ \E i \in Intents : Offer(i) \/ Execute(i)

Spec == Init /\ [][Next]_<<offered, executed>>
=============================================================================
