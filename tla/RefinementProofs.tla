-------------------------- MODULE RefinementProofs --------------------------
(* The proof that ViewController implements Rounds, for every number of     *)
(* slots, sounds, scores and pending blocks, and any user.                  *)
EXTENDS Refinement, ViewControllerProofs

USE SlotAssumption

(* The results in a queue when a block is posted, a block is taken, or a    *)
(* phase moves on.                                                          *)

\* Posting queues a result only if it is one.
LEMMA QueuedAppend ==
  ASSUME NEW q \in Seq(Blocks), NEW b \in Blocks, NEW s
  PROVE  Queued(Append(q, b), s) <=> Queued(q, s) \/ (b.what = "result" /\ b.slot = s)
  <1>1. /\ Len(Append(q, b)) = Len(q) + 1 /\ Len(q) \in Nat
        /\ \A i \in 1..Len(q)+1 : Append(q, b)[i] = IF i = Len(q) + 1 THEN b ELSE q[i]
    OBVIOUS
  <1> QED
    BY <1>1 DEF Queued

\* Taking a block that is no result of a round leaves those of the round.
LEMMA QueuedTail ==
  ASSUME NEW q \in Seq(Blocks), q # <<>>, NEW s, Head(q).what # "result" \/ Head(q).slot # s
  PROVE  Queued(Tail(q), s) <=> Queued(q, s)
  <1>1. /\ Len(Tail(q)) = Len(q) - 1 /\ Len(q) \in Nat /\ Len(q) > 0 /\ Head(q) = q[1]
        /\ \A i \in 1..Len(q)-1 : Tail(q)[i] = q[i+1]
    OBVIOUS
  <1>2. ASSUME Queued(q, s) PROVE Queued(Tail(q), s)
    <2>1. PICK i \in 1..Len(q) : q[i].what = "result" /\ q[i].slot = s
      BY <1>2 DEF Queued
    <2>2. i # 1 /\ i - 1 \in 1..Len(q)-1 /\ Tail(q)[i-1] = q[i]
      BY <1>1, <2>1
    <2> QED
      BY <1>1, <2>1, <2>2 DEF Queued
  <1>3. ASSUME Queued(Tail(q), s) PROVE Queued(q, s)
    <2>1. PICK i \in 1..Len(q)-1 : Tail(q)[i].what = "result" /\ Tail(q)[i].slot = s
      BY <1>1, <1>3 DEF Queued
    <2>2. i + 1 \in 1..Len(q) /\ Tail(q)[i] = q[i+1]
      BY <1>1, <2>1
    <2> QED
      BY <2>1, <2>2 DEF Queued
  <1> QED
    BY <1>2, <1>3

\* A round has one result in the queue at most, and none before it posts it.
Single(q, p) ==
  /\ \A i \in 1..Len(q) : q[i].what = "result" => p[q[i].slot] # "drawPosted"
  /\ \A i, j \in 1..Len(q) :
       q[i].what = "result" /\ q[j].what = "result" /\ q[i].slot = q[j].slot => i = j

\* The first result of a round may be posted, and any other block.
LEMMA SingleAppend ==
  ASSUME NEW q \in Seq(Blocks), NEW b \in Blocks, NEW p, Single(q, p),
         b.what = "result" => p[b.slot] # "drawPosted" /\ ~Queued(q, b.slot)
  PROVE  Single(Append(q, b), p)
  <1>1. /\ Len(Append(q, b)) = Len(q) + 1 /\ Len(q) \in Nat
        /\ \A i \in 1..Len(q)+1 : Append(q, b)[i] = IF i = Len(q) + 1 THEN b ELSE q[i]
    OBVIOUS
  <1> QED
    BY <1>1 DEF Single, Queued

\* Any block may be taken,
LEMMA SingleTail ==
  ASSUME NEW q \in Seq(Blocks), NEW p, q # <<>>, Single(q, p)
  PROVE  /\ Single(Tail(q), p)
         /\ Head(q).what = "result" => ~Queued(Tail(q), Head(q).slot) /\ p[Head(q).slot] # "drawPosted"
  <1>1. /\ Len(Tail(q)) = Len(q) - 1 /\ Len(q) \in Nat /\ Len(q) > 0 /\ Head(q) = q[1]
        /\ \A i \in 1..Len(q)-1 : Tail(q)[i] = q[i+1]
    OBVIOUS
  <1>2. \A i \in 1..Len(q)-1 : i + 1 \in 1..Len(q) /\ i + 1 # 1 /\ 1 \in 1..Len(q)
    BY <1>1
  <1>3. Single(Tail(q), p)
    BY <1>1, <1>2 DEF Single
  <1>4. Head(q).what = "result" => ~Queued(Tail(q), Head(q).slot)
    BY <1>1, <1>2 DEF Single, Queued
  <1>5. Head(q).what = "result" => p[Head(q).slot] # "drawPosted"
    BY <1>1 DEF Single
  <1> QED
    BY <1>3, <1>4, <1>5

\* and a round moved anywhere, but not back before its result.
LEMMA SingleMove ==
  ASSUME NEW q \in Seq(Blocks), NEW p \in [Slot -> Phases], NEW s \in Slot, NEW to \in Phases,
         Single(q, p), to # "drawPosted" \/ ~Queued(q, s)
  PROVE  Single(q, [p EXCEPT ![s] = to])
  <1>1. ASSUME NEW i \in 1..Len(q), q[i].what = "result"
        PROVE  [p EXCEPT ![s] = to][q[i].slot] # "drawPosted"
    <2>1. q[i] \in Blocks
      OBVIOUS
    <2>2. q[i].slot \in Slot
      BY <1>1, <2>1 DEF Blocks, StatusText
    <2>3. p[q[i].slot] # "drawPosted"
      BY <1>1 DEF Single
    <2>4. q[i].slot = s => Queued(q, s)
      BY <1>1 DEF Queued
    <2> QED
      BY <2>2, <2>3, <2>4
  <1> QED
    BY <1>1 DEF Single

\* While a round is not posting, none of its results is queued.
LEMMA NotQueued ==
  ASSUME RoundInv, NEW s, phase[s] \notin Posting
  PROVE  ~Queued(mainQueue, s)
  BY DEF RoundInv, Phased, RoundBlocks, Queued

\* Every step keeps the results single.
LEMMA NextSingle ==
  IInv /\ Single(mainQueue, phase) /\ [Next]_vars => Single(mainQueue', phase')
  <1> SUFFICES ASSUME IInv, Single(mainQueue, phase), [Next]_vars
               PROVE  Single(mainQueue', phase')
    OBVIOUS
  <1>0. phase \in [Slot -> Phases] /\ mainQueue \in Seq(Blocks) /\ RoundInv
    BY DEF IInv, TypeOK
  <1>a. CASE Abort
    BY <1>a DEF Abort, Single
  <1>b. CASE UNCHANGED <<mainQueue, phase>>
    BY <1>b
  <1>c. ASSUME NEW b \in Blocks, b.what # "result", mainQueue' = Append(mainQueue, b)
        PROVE  Single(mainQueue', phase) /\ mainQueue' \in Seq(Blocks)
    BY <1>0, <1>c, SingleAppend
  <1>d. \A t \in StatusText \ {"Finished"}, s \in Slot \cup {NoSlot} :
          Status(t, s) \in Blocks /\ Status(t, s).what # "result"
    BY BlankTyped DEF Status, Block, StatusText
  <1>e. ASSUME NEW s \in Slot, NEW to \in Phases, to # "drawPosted",
               phase' = [phase EXCEPT ![s] = to], UNCHANGED mainQueue
        PROVE  Single(mainQueue', phase')
    BY <1>0, <1>e, SingleMove
  <1>1. CASE UNCHANGED vars \/ Launch
    BY <1>1, <1>b DEF vars, Launch
  <1>2. CASE User
    <2>1. CASE PressWhileRecording
      BY <1>0, <1>c, <1>d, <2>1 DEF PressWhileRecording, StatusText, IInv, TypeOK
    <2>2. ASSUME NEW s \in Slot, StartRecording(s) PROVE Single(mainQueue', phase')
      <3>1. Single(mainQueue', phase) /\ mainQueue' \in Seq(Blocks)
        BY <1>c, <1>d, <2>2 DEF StartRecording, StatusText
      <3>2. phase' = [phase EXCEPT ![s] = "recording"]
        BY <2>2 DEF StartRecording
      <3> QED
        BY <1>0, <3>1, <3>2, SingleMove DEF Phases
    <2>3. CASE StartRecordingFails
      <3> DEFINE a == Status("Recording", NoSlot)
                 b == Status("Error", NoSlot)
      <3>1. a \in Blocks /\ a.what # "result" /\ b \in Blocks /\ b.what # "result"
        BY <1>d DEF StatusText
      <3>2. mainQueue' = Append(Append(mainQueue, a), b) /\ phase' = phase
        BY <1>0, <2>3 DEF StartRecordingFails
      <3> HIDE DEF a, b
      <3>3. Single(Append(mainQueue, a), phase) /\ Append(mainQueue, a) \in Seq(Blocks)
        BY <1>0, <3>1, SingleAppend
      <3> QED
        BY <3>1, <3>2, <3>3, SingleAppend
    <2>4. CASE ReleaseWithoutRecorder
      BY <1>c, <1>d, <2>4 DEF ReleaseWithoutRecorder, Release, StatusText
    <2>5. CASE StopRecording
      <3>1. recorder \in Slot
        BY <2>5 DEF StopRecording, IInv, TypeOK
      <3>2. Single(mainQueue', phase) /\ mainQueue' \in Seq(Blocks)
        BY <1>c, <1>d, <2>5, <3>1 DEF StopRecording, Release, StatusText
      <3>3. phase' = [phase EXCEPT ![recorder] = "queued"]
        BY <2>5 DEF StopRecording
      <3> QED
        BY <1>0, <3>1, <3>2, <3>3, SingleMove DEF Phases
    <2>6. CASE CancelTouch
      BY <1>b, <2>6 DEF CancelTouch
    <2> QED
      BY <1>2, <2>1, <2>2, <2>3, <2>4, <2>5, <2>6 DEF User
  <1>3. ASSUME NEW a \in Agent, Computes(a)
        PROVE  Single(mainQueue', phase')
    BY <1>3, <1>a, <1>b
       DEF Computes, ExtractFile, TimesAbort, SizeMatrix, FillMatrix, MatrixAborts
  <1>4. ASSUME NEW s \in Slot, Worker(s) PROVE Single(mainQueue', phase')
    <2>1. CASE Preprocess(s)
      BY <2>1, <1>e DEF Preprocess, Phases
    <2>2. CASE ExtractFeatures(s)
      BY <2>2, <1>e DEF ExtractFeatures, Phases
    <2>10. CASE StoreInfo(s)
      BY <2>10, <1>e DEF StoreInfo, Phases
    <2>3. CASE ReadFails(s)
      BY <2>3, <1>a DEF ReadFails
    <2>4. CASE ScoreEmpty(s) \/ BeginScoring(s) \/ ScoreFile(s)
      BY <2>4, <1>b DEF ScoreEmpty, BeginScoring, ScoreFile
    <2>5. cmp[s].index \in File
      BY DEF IInv, TypeOK, Comparisons
    <2>6. CASE PostDraw(s)
      <3>1. Block("draw", s, cmp[s].index) \in Blocks /\ Block("draw", s, cmp[s].index).what = "draw"
        BY <2>5, BlockTyped DEF Block
      <3>2. /\ mainQueue' = Append(mainQueue, Block("draw", s, cmp[s].index))
            /\ phase[s] = "comparing" /\ phase' = [phase EXCEPT ![s] = "drawPosted"]
        BY <2>6 DEF PostDraw, Post
      <3>3. Single(mainQueue, phase')
        BY <1>0, <3>2, NotQueued, SingleMove DEF Posting, Phases
      <3> QED
        BY <1>0, <3>1, <3>2, <3>3, SingleAppend
    <2>7. CASE PostResult(s)
      <3> DEFINE b == Block("result", s, cmp[s].index)
      <3>1. b \in Blocks /\ b.what = "result" /\ b.slot = s
        BY <2>5, BlockTyped DEF Block
      <3>2. /\ mainQueue' = Append(mainQueue, b)
            /\ phase[s] = "drawPosted" /\ phase' = [phase EXCEPT ![s] = "resultPosted"]
        BY <2>7 DEF PostResult, Post
      <3>3. ~Queued(mainQueue, s)
        BY <3>2 DEF Single, Queued
      <3>4. Single(mainQueue, phase') /\ phase'[s] # "drawPosted"
        BY <1>0, <3>2, SingleMove DEF Phases
      <3> HIDE DEF b
      <3> QED
        BY <1>0, <3>1, <3>2, <3>3, <3>4, SingleAppend
    <2>8. CASE PostFinished(s)
      <3>1. Status("Finished", s) \in Blocks /\ Status("Finished", s).what # "result"
        BY BlankTyped DEF Status, Block, StatusText
      <3>2. /\ mainQueue' = Append(mainQueue, Status("Finished", s))
            /\ phase' = [phase EXCEPT ![s] = "posted"]
        BY <2>8 DEF PostFinished, Post
      <3>3. Single(mainQueue', phase) /\ mainQueue' \in Seq(Blocks)
        BY <1>c, <3>1, <3>2
      <3> QED
        BY <1>0, <3>2, <3>3, SingleMove DEF Phases
    <2> QED
      BY <1>3, <1>4, <2>1, <2>2, <2>3, <2>4, <2>6, <2>7, <2>8, <2>10 DEF Worker, Computes, Agent
  <1>5. CASE MainThread
    <2>0. mainQueue # <<>> => Single(Tail(mainQueue), phase)
      BY <1>0, SingleTail
    <2>1. CASE RunStatus
      <3>1. mainQueue # <<>> /\ mainQueue' = Tail(mainQueue)
        BY <2>1 DEF RunStatus, RunBlock
      <3>2. \A t \in Slot : phase'[t] \in {phase[t], "free"}
        BY <2>1 DEF RunStatus
      <3>3. \A i \in 1..Len(mainQueue') : mainQueue'[i].what = "result" => mainQueue'[i].slot \in Slot
        <4>1. mainQueue' \in Seq(Blocks)
          BY <1>0, <3>1, HeadTyped
        <4>2. ASSUME NEW i \in 1..Len(mainQueue'), mainQueue'[i].what = "result"
              PROVE  mainQueue'[i].slot \in Slot
          <5>1. mainQueue'[i] \in Blocks
            BY <4>1
          <5> QED
            BY <4>2, <5>1 DEF Blocks, StatusText
        <4> QED
          BY <4>2
      <3> QED
        BY <2>0, <3>1, <3>2, <3>3 DEF Single
    <2>2. CASE RunResult \/ RunDraw
      BY <2>0, <2>2 DEF RunResult, RunDraw, RunBlock
    <2>3. CASE DrawAborts
      BY <2>3, <1>a DEF DrawAborts
    <2>4. CASE FinishDraw
      BY <2>4, <1>b DEF FinishDraw
    <2> QED
      BY <1>3, <1>5, <2>1, <2>2, <2>3, <2>4 DEF MainThread, Computes, Agent
  <1> QED
    BY <1>1, <1>2, <1>4, <1>5 DEF Next, Running

-----------------------------------------------------------------------------
(* What a step does to the mapped state.                                    *)

\* Nothing, if it leaves phases, answers, results and the label.
LEMMA NoRound ==
  ASSUME UNCHANGED phase,
         \A t \in Slot : Decided(t) => cmp'[t] = cmp[t],
         \A t \in Slot : Queued(mainQueue', t) <=> Queued(mainQueue, t)
  PROVE  UNCHANGED round /\ UNCHANGED decision
  <1>1. \A t \in Slot : Decided(t)' <=> Decided(t)
    BY DEF Decided
  <1>2. \A t \in Slot : Unshown(t)' <=> Unshown(t)
    BY DEF Unshown
  <1>3. \A t \in Slot : Round(t)' = Round(t)
    BY <1>1, <1>2 DEF Round
  <1>4. \A t \in Slot : Answer(t)' = Answer(t)
    BY <1>1 DEF Answer
  <1> QED
    BY <1>3, <1>4 DEF round, decision

\* It changes one round, if it leaves those of the others.
LEMMA OneRound ==
  ASSUME NEW s \in Slot,
         \A t \in Slot \ {s} : phase'[t] = phase[t],
         \A t \in Slot \ {s} : Decided(t) => cmp'[t] = cmp[t],
         \A t \in Slot \ {s} : Queued(mainQueue', t) <=> Queued(mainQueue, t)
  PROVE  /\ round' = [round EXCEPT ![s] = Round(s)']
         /\ decision' = [decision EXCEPT ![s] = Answer(s)']
         /\ round[s] = Round(s) /\ decision[s] = Answer(s)
  <1>1. \A t \in Slot \ {s} : Decided(t)' <=> Decided(t)
    BY DEF Decided
  <1>2. \A t \in Slot \ {s} : Unshown(t)' <=> Unshown(t)
    BY DEF Unshown
  <1>3. \A t \in Slot \ {s} : Round(t)' = Round(t)
    BY <1>1, <1>2 DEF Round
  <1>4. \A t \in Slot \ {s} : Answer(t)' = Answer(t)
    BY <1>1 DEF Answer
  <1> QED
    BY <1>3, <1>4 DEF round, decision

\* The mapped state begins where that of Rounds does.
LEMMA InitMaps == Init => Promise!Init
  <1> SUFFICES ASSUME Init PROVE Promise!Init
    OBVIOUS
  <1>1. \A s \in Slot : Round(s) = "idle" /\ Answer(s) = [scores |-> [f \in File |-> -1], answer |-> -1]
    BY DEF Init, Round, Answer, Decided
  <1>2. round = [s \in Slot |-> "idle"]
    BY <1>1 DEF round
  <1>3. decision = [s \in Slot |-> Promise!Undecided]
    BY <1>1 DEF decision, Promise!Undecided, File, Promise!File
  <1>4. screen = <<>>
    BY DEF Init, screen
  <1> QED
    BY <1>2, <1>3, <1>4 DEF Promise!Init, Promise!Blank

\* The end of the app is the end of the rounds.
LEMMA AbortMaps == Abort => Promise!End
  <1> SUFFICES ASSUME Abort PROVE Promise!End
    OBVIOUS
  <1>1. \A s \in Slot : Round(s)' = "idle" /\ Answer(s)' = [scores |-> [f \in File |-> -1], answer |-> -1]
    BY DEF Abort, Round, Answer, Decided
  <1>2. round' = [s \in Slot |-> "idle"]
    BY <1>1 DEF round
  <1>3. decision' = [s \in Slot |-> Promise!Undecided]
    BY <1>1 DEF decision, Promise!Undecided, File, Promise!File
  <1>4. screen' = <<>>
    BY DEF Abort, screen
  <1> QED
    BY <1>2, <1>3, <1>4 DEF Promise!End, Promise!Blank

\* A comparison that has scored every file answers with the first best.
LEMMA AnswerIsFirstBest ==
  ASSUME IInv, NEW s \in Slot, cmp[s].next = NumFiles
  PROVE  /\ cmp[s].returned \in Promise!Scores /\ cmp[s].index \in Promise!File
         /\ Promise!FirstBest(cmp[s].returned, cmp[s].index)
  <1>1. /\ cmp[s].returned \in [File -> -1..MaxScore] /\ cmp[s].index \in File
        /\ cmp[s].score \in 0..MaxScore
    BY DEF IInv, TypeOK, Comparisons
  <1>2. Best(cmp[s])
    BY DEF IInv, BestInv
  <1>3. cmp[s].returned \in Promise!Scores /\ cmp[s].index \in Promise!File
    BY <1>1 DEF Promise!Scores, Promise!File, File
  <1>4. CASE cmp[s].score = 0
    <2>1. cmp[s].index = 0 /\ \A g \in File : cmp[s].returned[g] <= 0
      BY <1>1, <1>2, <1>4 DEF Best
    <2> QED
      BY <1>3, <2>1 DEF Promise!FirstBest, Promise!File, File
  <1>5. CASE cmp[s].score > 0
    BY <1>1, <1>2, <1>3, <1>5 DEF Best, Promise!FirstBest, Promise!File, File
  <1> QED
    BY <1>1, <1>3, <1>4, <1>5, FilesCounted

\* Every step of the app is a step of Rounds or none.
LEMMA NextMaps ==
  IInv /\ Single(mainQueue, phase) /\ [Next]_vars => [Promise!Next]_(Promise!vars)
  <1> SUFFICES ASSUME IInv, Single(mainQueue, phase), [Next]_vars
               PROVE  Promise!Next \/ UNCHANGED <<round, decision, screen>>
    BY DEF Promise!vars
  <1>0. /\ phase \in [Slot -> Phases] /\ mainQueue \in Seq(Blocks) /\ RoundInv
        /\ cmp \in [Slot -> Comparisons]
    BY DEF IInv, TypeOK
  <1>a. CASE Abort
    BY <1>a, AbortMaps DEF Promise!Next
  <1>b. ASSUME UNCHANGED phase, \A t \in Slot : Decided(t) => cmp'[t] = cmp[t],
               \A t \in Slot : Queued(mainQueue', t) <=> Queued(mainQueue, t),
               lbResult' \in {lbResult, Blank}
        PROVE  Promise!Next \/ UNCHANGED <<round, decision, screen>>
    <2>1. UNCHANGED round /\ UNCHANGED decision
      BY <1>b, NoRound
    <2>2. screen' \in {screen, <<>>}
      BY <1>b DEF screen
    <2> QED
      BY <2>1, <2>2 DEF Promise!Next, Promise!Touch, Promise!Blank
  <1>c. ASSUME NEW b \in Blocks, b.what # "result", mainQueue' = Append(mainQueue, b)
        PROVE  \A t \in Slot : Queued(mainQueue', t) <=> Queued(mainQueue, t)
    BY <1>0, <1>c, QueuedAppend
  <1>d. \A t \in StatusText \ {"Finished"}, s \in Slot \cup {NoSlot} :
          Status(t, s) \in Blocks /\ Status(t, s).what # "result"
    BY BlankTyped DEF Status, Block, StatusText
  <1>e. ASSUME NEW s \in Slot, NEW from, NEW to, from = Round(s), to = Round(s)',
               Answer(s)' = Answer(s), UNCHANGED lbResult,
               \A t \in Slot \ {s} : phase'[t] = phase[t],
               \A t \in Slot \ {s} : Decided(t) => cmp'[t] = cmp[t],
               \A t \in Slot \ {s} : Queued(mainQueue', t) <=> Queued(mainQueue, t)
        PROVE  /\ round[s] = from /\ round' = [round EXCEPT ![s] = to]
               /\ UNCHANGED <<decision, screen>>
    <2>1. /\ round' = [round EXCEPT ![s] = Round(s)'] /\ round[s] = Round(s)
          /\ decision' = [decision EXCEPT ![s] = Answer(s)'] /\ decision[s] = Answer(s)
      BY <1>e, OneRound
    <2>2. decision' = decision
      BY <1>e, <2>1 DEF decision
    <2>3. screen' = screen
      BY <1>e DEF screen
    <2> QED
      BY <1>e, <2>1, <2>2, <2>3
  <1>1. CASE UNCHANGED vars \/ Launch
    BY <1>1, <1>b DEF vars, Launch
  <1>2. CASE User
    <2>1. CASE PressWhileRecording
      <3>1. recorder \in Slot
        BY <2>1 DEF PressWhileRecording, IInv, TypeOK
      <3>2. \A t \in Slot : Queued(mainQueue', t) <=> Queued(mainQueue, t)
        BY <1>c, <1>d, <2>1, <3>1 DEF PressWhileRecording, StatusText
      <3> QED
        BY <1>b, <2>1, <3>2 DEF PressWhileRecording, Press
    <2>2. ASSUME NEW s \in Slot, StartRecording(s) PROVE Promise!Next
      <3>1. /\ phase[s] = "free" /\ phase' = [phase EXCEPT ![s] = "recording"] /\ cmp' = cmp
            /\ lbResult' = Blank /\ recorder = NoSlot
        BY <2>2 DEF StartRecording, Press
      <3>2. \A t \in Slot : Queued(mainQueue', t) <=> Queued(mainQueue, t)
        BY <1>c, <1>d, <2>2 DEF StartRecording, StatusText
      <3>3. Round(s) = "idle" /\ Round(s)' = "recording" /\ ~Decided(s) /\ ~Decided(s)'
        BY <1>0, <3>1 DEF Round, Decided
      <3>4. /\ round' = [round EXCEPT ![s] = Round(s)'] /\ round[s] = Round(s)
            /\ decision' = [decision EXCEPT ![s] = Answer(s)'] /\ decision[s] = Answer(s)
        BY <1>0, <3>1, <3>2, OneRound
      <3>5. Answer(s)' = Answer(s)
        BY <3>3 DEF Answer
      <3>6. decision' = decision
        BY <3>4, <3>5 DEF decision
      <3>7. \A t \in Slot : round[t] # "recording"
        <4>1. \A t \in Slot : phase[t] # "recording"
          BY <3>1 DEF IInv, OneWriter
        <4> QED
          BY <4>1 DEF round, Round
      <3>8. screen' = <<>>
        BY <3>1 DEF screen
      <3> QED
        BY <3>3, <3>4, <3>6, <3>7, <3>8 DEF Promise!Next, Promise!Record, Promise!Blank
    <2>3. CASE StartRecordingFails
      <3> DEFINE a == Status("Recording", NoSlot)
                 b == Status("Error", NoSlot)
      <3>1. a \in Blocks /\ a.what # "result" /\ b \in Blocks /\ b.what # "result"
        BY <1>d DEF StatusText
      <3>2. mainQueue' = Append(Append(mainQueue, a), b)
        BY <1>0, <2>3 DEF StartRecordingFails
      <3> HIDE DEF a, b
      <3>3. Append(mainQueue, a) \in Seq(Blocks)
        BY <1>0, <3>1
      <3>4. \A t \in Slot : Queued(mainQueue', t) <=> Queued(mainQueue, t)
        BY <1>0, <3>1, <3>2, <3>3, QueuedAppend
      <3> QED
        BY <1>b, <2>3, <3>4 DEF StartRecordingFails, Press
    <2>4. CASE ReleaseWithoutRecorder
      <3>1. \A t \in Slot : Queued(mainQueue', t) <=> Queued(mainQueue, t)
        BY <1>c, <1>d, <2>4 DEF ReleaseWithoutRecorder, Release, StatusText
      <3> QED
        BY <1>b, <2>4, <3>1 DEF ReleaseWithoutRecorder
    <2>5. CASE StopRecording
      <3>1. /\ recorder \in Slot /\ phase[recorder] = "recording" /\ cmp' = cmp /\ lbResult' = lbResult
            /\ phase' = [phase EXCEPT ![recorder] = "queued"]
        BY <2>5 DEF StopRecording, IInv, OneWriter, TypeOK
      <3>2. \A t \in Slot : Queued(mainQueue', t) <=> Queued(mainQueue, t)
        BY <1>c, <1>d, <2>5, <3>1 DEF StopRecording, Release, StatusText
      <3>3. /\ Round(recorder) = "recording" /\ ~Decided(recorder)
            /\ phase'[recorder] = "queued"
        BY <1>0, <3>1 DEF Round, Decided
      <3>4. PICK r \in Slot : r = recorder
        BY <3>1
      <3>5. Round(r) = "recording" /\ Round(r)' = "working" /\ Answer(r)' = Answer(r)
        BY <3>3, <3>4 DEF Round, Answer, Decided
      <3>6. /\ round[r] = "recording" /\ round' = [round EXCEPT ![r] = "working"]
            /\ UNCHANGED <<decision, screen>>
        BY <1>0, <1>e, <3>1, <3>2, <3>4, <3>5
      <3> QED
        BY <3>6 DEF Promise!Next, Promise!Stop
    <2>6. CASE CancelTouch
      BY <1>b, <2>6 DEF CancelTouch
    <2> QED
      BY <1>2, <2>1, <2>2, <2>3, <2>4, <2>5, <2>6 DEF User
  <1>3. ASSUME NEW a \in Agent, Computes(a)
        PROVE  Promise!Next \/ UNCHANGED <<round, decision, screen>>
    BY <1>3, <1>a, <1>b
       DEF Computes, ExtractFile, TimesAbort, SizeMatrix, FillMatrix, MatrixAborts
  <1>4. ASSUME NEW s \in Slot, Worker(s) PROVE Promise!Next \/ UNCHANGED <<round, decision, screen>>
    <2>1. CASE Preprocess(s) \/ StoreInfo(s) \/ ExtractFeatures(s)
      <3>1. /\ phase[s] \in {"queued", "preprocessed", "stored"} /\ UNCHANGED <<mainQueue, lbResult>>
            /\ \A t \in Slot \ {s} : phase'[t] = phase[t] /\ cmp'[t] = cmp[t]
            /\ phase'[s] \in {"preprocessed", "stored", "comparing"}
        BY <1>0, <2>1 DEF Preprocess, StoreInfo, ExtractFeatures
      <3>2. Round(s) = "working" /\ Round(s)' = "working" /\ Answer(s)' = Answer(s)
        BY <3>1 DEF Round, Answer, Decided
      <3>3. /\ round[s] = "working" /\ round' = [round EXCEPT ![s] = "working"]
            /\ UNCHANGED <<decision, screen>>
        BY <1>e, <3>1, <3>2
      <3> QED
        BY <3>3 DEF round
    <2>2. CASE ReadFails(s)
      BY <2>2, <1>a DEF ReadFails
    <2>3. CASE ScoreEmpty(s) \/ ScoreFile(s)
      <3>1. phase[s] = "comparing"
        <4>1. CASE ScoreEmpty(s)
          BY <4>1 DEF ScoreEmpty
        <4>2. CASE ScoreFile(s)
          BY <4>2 DEF ScoreFile, IInv, WorkerInv
        <4> QED
          BY <2>3, <4>1, <4>2
      <3>2. \A t \in Slot : Decided(t) => cmp'[t] = cmp[t]
        BY <1>0, <2>3, <3>1 DEF ScoreEmpty, ScoreFile, Returned, Decided
      <3> QED
        BY <1>b, <2>3, <3>2 DEF ScoreEmpty, ScoreFile
    <2>4. CASE BeginScoring(s)
      BY <1>b, <2>4 DEF BeginScoring
    <2>5. cmp[s].index \in File
      BY <1>0 DEF Comparisons
    <2>6. CASE PostDraw(s)
      <3> DEFINE b == Block("draw", s, cmp[s].index)
      <3>1. b \in Blocks /\ b.what = "draw"
        BY <2>5, BlockTyped DEF Block
      <3>2. /\ mainQueue' = Append(mainQueue, b) /\ cmp[s].next = NumFiles
            /\ UNCHANGED <<cmp, lbResult>>
            /\ phase[s] = "comparing" /\ phase' = [phase EXCEPT ![s] = "drawPosted"]
        BY <2>6 DEF PostDraw, Post
      <3> HIDE DEF b
      <3>3. \A t \in Slot : Queued(mainQueue', t) <=> Queued(mainQueue, t)
        BY <1>c, <3>1, <3>2
      <3>4. Round(s) = "working" /\ phase'[s] = "drawPosted"
        BY <1>0, <3>2 DEF Round, Decided
      <3>5. Round(s)' = "answered" /\ Answer(s)' = [scores |-> cmp[s].returned, answer |-> cmp[s].index]
        BY <3>2, <3>4 DEF Round, Answer, Decided, Unshown
      <3>6. /\ round' = [round EXCEPT ![s] = Round(s)'] /\ round[s] = Round(s)
            /\ decision' = [decision EXCEPT ![s] = Answer(s)']
        BY <1>0, <3>2, <3>3, OneRound
      <3>7. screen' = screen
        BY <3>2 DEF screen
      <3> QED
        BY <3>2, <3>4, <3>5, <3>6, <3>7, AnswerIsFirstBest DEF Promise!Next, Promise!Decide
    <2>7. CASE PostResult(s)
      <3> DEFINE b == Block("result", s, cmp[s].index)
      <3>1. b \in Blocks /\ b.what = "result" /\ b.slot = s
        BY <2>5, BlockTyped DEF Block
      <3>2. /\ mainQueue' = Append(mainQueue, b) /\ UNCHANGED <<cmp, lbResult>>
            /\ phase[s] = "drawPosted" /\ phase' = [phase EXCEPT ![s] = "resultPosted"]
        BY <2>7 DEF PostResult, Post
      <3> HIDE DEF b
      <3>3. \A t \in Slot : Queued(mainQueue', t) <=> Queued(mainQueue, t) \/ t = s
        BY <1>0, <3>1, <3>2, QueuedAppend
      <3>4. Round(s) = "answered" /\ phase'[s] = "resultPosted"
        BY <1>0, <3>2 DEF Round, Decided, Unshown
      <3>5. Round(s)' = "answered" /\ Answer(s)' = Answer(s)
        BY <3>2, <3>3, <3>4 DEF Round, Answer, Decided, Unshown
      <3>6. /\ round[s] = "answered" /\ round' = [round EXCEPT ![s] = "answered"]
            /\ UNCHANGED <<decision, screen>>
        BY <1>0, <1>e, <3>2, <3>3, <3>4, <3>5
      <3> QED
        BY <3>6 DEF round
    <2>8. CASE PostFinished(s)
      <3> DEFINE b == Status("Finished", s)
      <3>1. b \in Blocks /\ b.what # "result"
        BY BlankTyped DEF Status, Block, StatusText
      <3>2. /\ mainQueue' = Append(mainQueue, b) /\ UNCHANGED <<cmp, lbResult>>
            /\ phase[s] = "resultPosted" /\ phase' = [phase EXCEPT ![s] = "posted"]
        BY <2>8 DEF PostFinished, Post
      <3> HIDE DEF b
      <3>3. \A t \in Slot : Queued(mainQueue', t) <=> Queued(mainQueue, t)
        BY <1>c, <3>1, <3>2
      <3>4. phase'[s] = "posted"
        BY <1>0, <3>2
      <3>5. Round(s)' = Round(s) /\ Answer(s)' = Answer(s)
        BY <3>2, <3>3, <3>4 DEF Round, Answer, Decided, Unshown
      <3>6. /\ round[s] = Round(s) /\ round' = [round EXCEPT ![s] = Round(s)]
            /\ UNCHANGED <<decision, screen>>
        BY <1>0, <1>e, <3>2, <3>3, <3>5
      <3> QED
        BY <3>6 DEF round
    <2> QED
      BY <1>3, <1>4, <2>1, <2>2, <2>3, <2>4, <2>6, <2>7, <2>8 DEF Worker, Computes, Agent
  <1>5. CASE MainThread
    <2> DEFINE h == Head(mainQueue)
    <2>0. ASSUME mainQueue # <<>>, h.what # "result"
          PROVE  \A t \in Slot : Queued(Tail(mainQueue), t) <=> Queued(mainQueue, t)
      BY <1>0, <2>0, QueuedTail
    <2>1. CASE RunStatus
      <3>1. /\ mainQueue # <<>> /\ mainQueue' = Tail(mainQueue) /\ h.what \in StatusText
            /\ UNCHANGED <<cmp, lbResult>>
        BY <2>1 DEF RunStatus, RunBlock
      <3>2. \A t \in Slot : Queued(mainQueue', t) <=> Queued(mainQueue, t)
        BY <2>0, <3>1 DEF StatusText
      <3>3. CASE \E s \in Slot : h = Status("Finished", s)
        <4>1. PICK s \in Slot : h = Status("Finished", s)
          BY <3>3
        <4>2. h.what = "Finished" /\ h.slot = s
          BY <4>1 DEF Status, Block
        <4>3. phase[s] = "posted" /\ phase'[s] = "free"
          <5>1. TypeOK
            BY DEF IInv
          <5> QED
            BY <1>0, <2>1, <4>1, <5>1, RunStatusFrees
        <4>4. \A t \in Slot \ {s} : phase'[t] = phase[t]
          <5>1. \A t \in Slot \ {s} : h # Status("Finished", t)
            BY <4>2 DEF Status, Block
          <5> QED
            BY <2>1, <5>1 DEF RunStatus
        <4>5. ~Queued(mainQueue', s)
          <5>1. \A i \in 1..Len(Tail(mainQueue)) :
                  Tail(mainQueue)[i].what \in RoundBlocks => Tail(mainQueue)[i].slot # s
            BY <1>0, <3>1, <4>2, TakeBlock DEF RoundInv
          <5> QED
            BY <3>1, <5>1 DEF Queued, RoundBlocks
        <4>6. Round(s) = "shown" /\ Round(s)' = "idle"
          BY <3>2, <4>3, <4>5 DEF Round, Decided, Unshown
        <4>7. Answer(s)' = [scores |-> [f \in File |-> -1], answer |-> -1]
          BY <4>3 DEF Answer, Decided
        <4>8. /\ round' = [round EXCEPT ![s] = Round(s)'] /\ round[s] = Round(s)
              /\ decision' = [decision EXCEPT ![s] = Answer(s)']
          BY <3>1, <3>2, <4>4, OneRound
        <4>9. screen' = screen
          BY <3>1 DEF screen
        <4> QED
          BY <4>6, <4>7, <4>8, <4>9
          DEF Promise!Next, Promise!Finish, Promise!Undecided, Promise!File, File
      <3>4. CASE ~\E s \in Slot : h = Status("Finished", s)
        <4>1. phase' = phase
          BY <1>0, <2>1, <3>4 DEF RunStatus
        <4> QED
          BY <1>b, <3>1, <3>2, <4>1
      <3> QED
        BY <3>3, <3>4
    <2>2. CASE RunResult
      <3>1. /\ mainQueue # <<>> /\ mainQueue' = Tail(mainQueue) /\ h.what = "result"
            /\ UNCHANGED <<phase, cmp>> /\ lbResult' = h
        BY <2>2 DEF RunResult, RunBlock
      <3>2. h \in Blocks /\ h.slot \in Slot
        BY <1>0, <3>1, HeadTyped
      <3>3. PICK s \in Slot : s = h.slot
        BY <3>2
      <3>4. 1 \in 1..Len(mainQueue) /\ mainQueue[1] = h
        BY <1>0, <3>1
      <3>5. phase[s] \in Posting /\ h.file = cmp[s].index /\ Queued(mainQueue, s)
        BY <1>0, <3>1, <3>3, <3>4 DEF RoundInv, Phased, RoundBlocks, IInv, BestInv, Queued
      <3>6. ~Queued(mainQueue', s) /\ phase[s] # "drawPosted"
        BY <1>0, <3>1, <3>3, SingleTail
      <3>7. \A t \in Slot \ {s} : Queued(mainQueue', t) <=> Queued(mainQueue, t)
        BY <1>0, <3>1, <3>3, QueuedTail
      <3>8. Round(s) = "answered" /\ Round(s)' = "shown"
        BY <3>1, <3>5, <3>6 DEF Round, Decided, Unshown, Posting
      <3>9. Answer(s) = [scores |-> cmp[s].returned, answer |-> cmp[s].index] /\ Answer(s)' = Answer(s)
        BY <3>1, <3>5 DEF Answer, Decided, Posting
      <3>10. /\ round' = [round EXCEPT ![s] = Round(s)'] /\ round[s] = Round(s)
             /\ decision' = [decision EXCEPT ![s] = Answer(s)'] /\ decision[s] = Answer(s)
        BY <3>1, <3>7, OneRound
      <3>11. decision' = decision
        BY <3>9, <3>10 DEF decision
      <3>12. decision[s].answer = h.file
        BY <3>5, <3>9, <3>10
      <3>13. screen' = <<s, h.file>>
        <4>1. lbResult' # Blank
          BY <3>1 DEF Blank, Block
        <4> QED
          BY <3>1, <3>3, <4>1 DEF screen
      <3> QED
        BY <3>8, <3>10, <3>11, <3>12, <3>13 DEF Promise!Next, Promise!Show
    <2>3. CASE RunDraw
      <3>1. /\ mainQueue # <<>> /\ mainQueue' = Tail(mainQueue) /\ h.what = "draw"
            /\ UNCHANGED <<phase, cmp, lbResult>>
        BY <2>3 DEF RunDraw, RunBlock
      <3> QED
        BY <1>b, <2>0, <3>1
    <2>4. CASE DrawAborts
      BY <2>4, <1>a DEF DrawAborts
    <2>5. CASE FinishDraw
      BY <2>5, <1>b DEF FinishDraw
    <2> QED
      BY <1>3, <1>5, <2>1, <2>2, <2>3, <2>4, <2>5 DEF MainThread, Computes, Agent
  <1> QED
    BY <1>1, <1>2, <1>4, <1>5 DEF Next, Running

\* The inductive invariant the refinement rests on.
RInv == IInv /\ Single(mainQueue, phase)

\* It holds in every state of the app.
LEMMA SingleInvariance == Spec => []RInv
  <1>1. Init => RInv
    BY InitInv DEF Init, Single, RInv
  <1>2. RInv /\ [Next]_vars => RInv'
    BY NextInv, NextSingle DEF RInv
  <1> QED
    BY <1>1, <1>2, PTL DEF Spec

\* Whatever the user does and however the threads interleave, the app as a whole
\* behaves as Rounds promises: each round is answered with its first best, shown
\* once, and over.
THEOREM RoundsImplemented == Spec => ImplementsRounds
  <1>1. RInv /\ [Next]_vars => [Promise!Next]_(Promise!vars)
    BY NextMaps DEF RInv
  <1> QED
    BY <1>1, InitMaps, SingleInvariance, PTL DEF Spec, ImplementsRounds, Promise!Spec
=============================================================================
