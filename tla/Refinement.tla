----------------------------- MODULE Refinement -----------------------------
(* The view controller implements Rounds.                                  *)
EXTENDS ViewController

\* A result waits in the main queue.
Queued(q, s) == \E i \in 1..Len(q) : q[i].what = "result" /\ q[i].slot = s

\* It does, or has yet to be posted: the round is decided but not shown.
Unshown(s) == phase[s] = "drawPosted" \/ Queued(mainQueue, s)

Decided(s) == phase[s] \in {"drawPosted", "resultPosted", "posted"}

Round(s) ==
  CASE phase[s] = "free" -> "idle"
    [] phase[s] = "recording" -> "recording"
    [] Decided(s) -> IF Unshown(s) THEN "answered" ELSE "shown"
    [] OTHER -> "working"

Answer(s) ==
  IF Decided(s) THEN [scores |-> cmp[s].returned, answer |-> cmp[s].index]
  ELSE [scores |-> [f \in File |-> -1], answer |-> -1]

round == [s \in Slot |-> Round(s)]

decision == [s \in Slot |-> Answer(s)]

screen == IF lbResult = Blank THEN <<>> ELSE <<lbResult.slot, lbResult.file>>

Promise == INSTANCE Rounds WITH round <- round, decision <- decision, screen <- screen

\* Seen through the mapping, every step of touches, workers and main-queue
\* blocks is a step of Rounds or none: a round is answered in one step, with the
\* first best of the scores _comparePath collected, its answer does not change
\* before it is shown, and nothing else is ever shown.
ImplementsRounds == Promise!Spec
=============================================================================
