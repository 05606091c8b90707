------------------------------- MODULE Rounds -------------------------------
(***************************************************************************)
(* What the app promises, told without threads, queues or matrices: a      *)
(* round is recorded, compared, answered once with the first best of its   *)
(* scores, shown, and over.  Rounds are independent but for the one        *)
(* microphone and the one result label.  Refinement.tla shows that         *)
(* ViewController implements this.                                         *)
(***************************************************************************)
EXTENDS Integers

CONSTANTS
  Slot,      \* the rounds that can be outstanding at a time
  NumFiles,  \* how many sounds a recording is compared with
  MaxScore   \* scores are abstracted to the ranks 0..MaxScore

File == 0..NumFiles-1

VARIABLES
  round,     \* how far each round has come
  decision,  \* the scores of each answered round, and the file they name
  screen     \* the round and file the result label tells of, if any

vars == <<round, decision, screen>>

Scores == [File -> -1..MaxScore]

Undecided == [scores |-> [f \in File |-> -1], answer |-> -1]

Blank == <<>>

\* f is the first file with the best score, or the first of all when no score
\* is positive.
FirstBest(scores, f) ==
  \/ /\ scores[f] > 0
     /\ \A g \in File : scores[g] <= scores[f]
     /\ \A g \in 0..f-1 : scores[g] < scores[f]
  \/ f = 0 /\ \A g \in File : scores[g] <= 0

Init ==
  /\ round = [s \in Slot |-> "idle"]
  /\ decision = [s \in Slot |-> Undecided]
  /\ screen = Blank

\* A touch clears the label, whether or not it begins a recording.
Touch ==
  /\ screen' = Blank
  /\ UNCHANGED <<round, decision>>

Record(s) ==
  /\ round[s] = "idle"
  /\ \A t \in Slot : round[t] # "recording"
  /\ round' = [round EXCEPT ![s] = "recording"]
  /\ screen' = Blank
  /\ UNCHANGED decision

Stop(s) ==
  /\ round[s] = "recording"
  /\ round' = [round EXCEPT ![s] = "working"]
  /\ UNCHANGED <<decision, screen>>

Decide(s) ==
  /\ round[s] = "working"
  /\ round' = [round EXCEPT ![s] = "answered"]
  /\ \E scores \in Scores, f \in File :
       /\ FirstBest(scores, f)
       /\ decision' = [decision EXCEPT ![s] = [scores |-> scores, answer |-> f]]
  /\ UNCHANGED screen

Show(s) ==
  /\ round[s] = "answered"
  /\ round' = [round EXCEPT ![s] = "shown"]
  /\ screen' = <<s, decision[s].answer>>
  /\ UNCHANGED decision

Finish(s) ==
  /\ round[s] = "shown"
  /\ round' = [round EXCEPT ![s] = "idle"]
  /\ decision' = [decision EXCEPT ![s] = Undecided]
  /\ UNCHANGED screen

\* The app ends; nothing is kept.
End ==
  /\ round' = [s \in Slot |-> "idle"]
  /\ decision' = [s \in Slot |-> Undecided]
  /\ screen' = Blank

Next ==
  \/ Touch
  \/ \E s \in Slot : Record(s) \/ Stop(s) \/ Decide(s) \/ Show(s) \/ Finish(s)
  \/ End

Spec == Init /\ [][Next]_vars
=============================================================================
