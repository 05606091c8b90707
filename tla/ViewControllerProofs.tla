------------------------ MODULE ViewControllerProofs ------------------------
(* Proofs about ViewController, for every number of slots, sounds, frames,  *)
(* scores and pending blocks.                                               *)
EXTENDS ViewController, TLAPS, SequenceTheorems

USE SlotAssumption

\* What the proofs need of the sizes.
LEMMA FilesCounted == NumFiles \in Nat /\ NumFiles > 0 /\ MaxScore \in Nat
  BY DataAssumption

\* There is a first sound.
LEMMA ZeroIsFile == 0 \in File
  BY FilesCounted DEF File

\* Frames are counted.
LEMMA FramesCounted == \A n \in UserLen \cup {0} : n \in Nat
  BY DataAssumption

LEMMA SoundsCounted == \A f, g \in File : DbLen[<<f, g>>] \in Nat
  BY DataAssumption

\* The loop index of a turn is a file, and its successor at most their number.
LEMMA NextIsFile ==
  ASSUME NEW n \in 0..NumFiles, n < NumFiles
  PROVE  n \in File /\ n + 1 \in 0..NumFiles
  BY FilesCounted DEF File

\* The blocks that set a label have their type.
LEMMA BlankTyped ==
  /\ Blank \in Blocks
  /\ \A t \in StatusText \ {"Finished"}, s \in Slot \cup {NoSlot} : Status(t, s) \in Blocks
  /\ \A s \in Slot : Status("Finished", s) \in Blocks
  BY ZeroIsFile DEF Blank, Blocks, Block, Status, StatusText

\* So do the locals of a comparison that has not begun,
LEMMA NotComparedTyped == NotCompared \in Comparisons
  BY ZeroIsFile, FilesCounted DEF NotCompared, Comparisons

\* a thread outside the matrices, an unsized matrix, and no recording.
LEMMA IdleTyped == Idle \in Works /\ NoMatrix \in Matrices /\ NoRecording \in Recordings
  BY ZeroIsFile DEF Idle, NoMatrix, NoRecording, Agent, Works, Matrices, Recordings

\* So does a queue with no blocks.
LEMMA EmptyQueue == <<>> \in Seq(Blocks)
  OBVIOUS

\* The app starts well typed.
LEMMA InitTyped == Init => TypeOK
  <1> SUFFICES ASSUME Init PROVE TypeOK
    OBVIOUS
  <1> USE BlankTyped, NotComparedTyped, IdleTyped, EmptyQueue DEF Init
  <1>1. phase \in [Slot -> Phases] /\ cmp \in [Slot -> Comparisons] /\ work \in [Agent -> Works]
    BY DEF Phases
  <1>2. /\ recorder \in Slot \cup {NoSlot} /\ finger \in {"up", "down"} /\ aborted \in BOOLEAN
        /\ userInfo \in Slot \cup {NoSlot} /\ fileInfo \in File
    BY ZeroIsFile
  <1> QED
    BY <1>1, <1>2 DEF TypeOK

\* What an abort leaves is well typed.
LEMMA AbortTyped == Abort => TypeOK'
  <1> SUFFICES ASSUME Abort PROVE TypeOK'
    OBVIOUS
  <1> USE BlankTyped, NotComparedTyped, IdleTyped, EmptyQueue DEF Abort
  <1>1. phase' \in [Slot -> Phases] /\ cmp' \in [Slot -> Comparisons] /\ work' \in [Agent -> Works]
    BY DEF Phases
  <1>2. /\ recorder' \in Slot \cup {NoSlot} /\ finger' \in {"up", "down"} /\ aborted' \in BOOLEAN
        /\ userInfo' \in Slot \cup {NoSlot} /\ fileInfo' \in File
    BY ZeroIsFile
  <1> QED
    BY <1>1, <1>2 DEF TypeOK

\* One turn of the loop keeps a comparison well formed.
LEMMA ReturnedTyped ==
  ASSUME TypeOK, NEW s \in Slot, NEW result \in -1..MaxScore,
         cmp[s].next < NumFiles, Returned(s, result)
  PROVE  cmp' \in [Slot -> Comparisons]
  <1> DEFINE f == cmp[s].next
  <1>1. cmp \in [Slot -> Comparisons] /\ cmp[s] \in Comparisons
    BY DEF TypeOK
  <1>2. /\ cmp[s].frames \in UserLen \cup {0} /\ cmp[s].source \in Slot \cup {NoSlot}
        /\ f \in 0..NumFiles /\ cmp[s].score \in 0..MaxScore /\ cmp[s].index \in File
        /\ cmp[s].returned \in [File -> -1..MaxScore]
    BY <1>1 DEF Comparisons
  <1>3. f \in File /\ f + 1 \in 0..NumFiles
    BY <1>2, NextIsFile
  <1>4. [cmp[s].returned EXCEPT ![f] = result] \in [File -> -1..MaxScore]
    BY <1>2, <1>3
  <1>5. (IF result > cmp[s].score THEN result ELSE cmp[s].score) \in 0..MaxScore
    BY <1>2, FilesCounted
  <1>6. (IF result > cmp[s].score THEN f ELSE cmp[s].index) \in File
    BY <1>2, <1>3
  <1> DEFINE new == [frames |-> cmp[s].frames, source |-> cmp[s].source, next |-> f + 1,
                     score |-> IF result > cmp[s].score THEN result ELSE cmp[s].score,
                     index |-> IF result > cmp[s].score THEN f ELSE cmp[s].index,
                     returned |-> [cmp[s].returned EXCEPT ![f] = result]]
  <1>7. new \in Comparisons
    BY <1>2, <1>3, <1>4, <1>5, <1>6 DEF Comparisons
  <1>8. cmp' = [cmp EXCEPT ![s] = new]
    BY <1>1 DEF Returned
  <1> HIDE DEF new
  <1> QED
    BY <1>1, <1>7, <1>8

\* The block types.
LEMMA BlockTyped ==
  ASSUME NEW w \in {"draw", "result"}, NEW s \in Slot, NEW f \in File
  PROVE  Block(w, s, f) \in Blocks
  BY DEF Block, Blocks

\* What the main queue runs next has its type.
LEMMA HeadTyped ==
  ASSUME NEW q \in Seq(Blocks), q # <<>>
  PROVE  /\ Head(q) \in Blocks /\ Tail(q) \in Seq(Blocks)
         /\ Head(q).slot \in Slot \cup {NoSlot} /\ Head(q).file \in File
         /\ Head(q).what \in {"draw", "result"} => Head(q).slot \in Slot
  <1>1. Head(q) \in Blocks /\ Tail(q) \in Seq(Blocks)
    OBVIOUS
  <1> QED
    BY <1>1 DEF Blocks, StatusText

\* A step of the computation that scoring and drawing have in common.
Computes(a) ==
  ExtractFile(a) \/ TimesAbort(a) \/ SizeMatrix(a) \/ FillMatrix(a) \/ MatrixAborts(a)

\* The features of a recording are counted.
LEMMA RecordingCounted ==
  ASSUME TypeOK, NEW s \in Slot
  PROVE  cmp[s].frames \in Nat
  <1>1. cmp[s] \in Comparisons
    BY DEF TypeOK
  <1>2. cmp[s].frames \in UserLen \cup {0}
    BY <1>1 DEF Comparisons
  <1> QED
    BY <1>2, FramesCounted, Zenon

\* A computation has a round, a sound and times.
LEMMA ComputationOf ==
  ASSUME NEW w \in Works, w.pc # "idle"
  PROVE  w.slot \in Slot /\ w.file \in File /\ w.cut \in File
  BY DEF Works, Idle

\* A worker inside the matrices is comparing, and scores its next file.
WorkerInv ==
  \A s \in Slot : work[s].pc # "idle" =>
    phase[s] = "comparing" /\ work[s].slot = s /\ work[s].file = cmp[s].next

\* What is queued of a round is in the order it is posted in.
Ordered(q) ==
  \A i, j \in 1..Len(q) :
    i < j /\ q[i].slot = q[j].slot /\ q[i].what \in RoundBlocks /\ q[j].what \in RoundBlocks
      => Ahead(q[i].what, q[j].what)

\* A block of a round is in the queue only once the round has posted it.
Phased(q, p) ==
  \A i \in 1..Len(q) :
    /\ q[i].what \in RoundBlocks => p[q[i].slot] \in Posting
    /\ q[i].what = "result" => p[q[i].slot] # "drawPosted"
    /\ q[i].what = "Finished" => p[q[i].slot] = "posted"

RoundInv ==
  /\ Ordered(mainQueue)
  /\ Phased(mainQueue, phase)
  /\ work[Main].pc # "idle" => phase[work[Main].slot] \in Posting

\* What the loop over the files has found so far.
Best(c) ==
  /\ \A g \in File : c.returned[g] <= c.score
  /\ c.score = 0 => c.index = 0
  /\ c.score > 0 => /\ c.returned[c.index] = c.score
                    /\ c.index < c.next
                    /\ \A g \in 0..c.index-1 : c.returned[g] < c.score

BestInv ==
  /\ \A s \in Slot : Best(cmp[s])
  /\ \A s \in Slot : phase[s] \in Posting => cmp[s].next = NumFiles
  /\ \A i \in 1..Len(mainQueue) :
       mainQueue[i].what \in {"draw", "result"} => mainQueue[i].file = cmp[mainQueue[i].slot].index

\* The inductive invariant, for any user.
IInv == TypeOK /\ OneWriter /\ WorkerInv /\ RoundInv /\ BestInv

\* The "Finished" of a round frees it, and nothing else changes a phase then.
LEMMA RunStatusFrees ==
  ASSUME TypeOK, RoundInv, RunStatus, NEW t \in Slot
  PROVE  \/ phase'[t] = phase[t] /\ Head(mainQueue) # Status("Finished", t)
         \/ /\ phase[t] = "posted" /\ phase'[t] = "free"
            /\ Head(mainQueue) = Status("Finished", t)
  <1>1. mainQueue \in Seq(Blocks) /\ mainQueue # <<>>
    BY DEF TypeOK, RunStatus, RunBlock
  <1>2. 1 \in 1..Len(mainQueue) /\ Head(mainQueue) = mainQueue[1]
    BY <1>1
  <1>3. ASSUME Head(mainQueue) = Status("Finished", t) PROVE phase[t] = "posted"
    BY <1>2, <1>3 DEF RoundInv, Phased, Status, Block
  <1>4. phase'[t] = IF Head(mainQueue) = Status("Finished", t) THEN "free" ELSE phase[t]
    BY DEF RunStatus
  <1> QED
    BY <1>3, <1>4

\* Every step keeps the types.
LEMMA NextTyped == TypeOK /\ WorkerInv /\ [Next]_vars => TypeOK'
  <1> SUFFICES ASSUME TypeOK, WorkerInv, [Next]_vars PROVE TypeOK'
    OBVIOUS
  <1> USE DEF TypeOK
  <1>1. CASE UNCHANGED vars
    BY <1>1 DEF vars
  <1>2. CASE Launch
    BY <1>2 DEF Launch
  <1>3. CASE User
    <2> USE BlankTyped, IdleTyped DEF Press, Release, Phases
    <2>1. CASE PressWhileRecording
      BY <2>1 DEF PressWhileRecording, StatusText
    <2>2. ASSUME NEW s \in Slot, StartRecording(s) PROVE TypeOK'
      BY <2>2 DEF StartRecording, StatusText, Recordings
    <2>3. CASE StartRecordingFails
      <3>1. Status("Recording", NoSlot) \in Blocks /\ Status("Error", NoSlot) \in Blocks
        BY DEF StatusText
      <3>2. mainQueue' \in Seq(Blocks)
        BY <2>3, <3>1 DEF StartRecordingFails
      <3> QED
        BY <2>3, <3>2 DEF StartRecordingFails
    <2>4. CASE ReleaseWithoutRecorder
      BY <2>4 DEF ReleaseWithoutRecorder, StatusText
    <2>5. CASE StopRecording
      <3>1. wav' \in Recordings
        BY <2>5 DEF StopRecording, Recordings
      <3>2. phase' \in [Slot -> Phases] /\ recorder' \in Slot \cup {NoSlot}
        BY <2>5 DEF StopRecording
      <3>3. mainQueue' \in Seq(Blocks)
        BY <2>5 DEF StopRecording, StatusText
      <3> QED
        BY <2>5, <3>1, <3>2, <3>3 DEF StopRecording
    <2>6. CASE CancelTouch
      BY <2>6 DEF CancelTouch
    <2> QED
      BY <1>3, <2>1, <2>2, <2>3, <2>4, <2>5, <2>6 DEF User
  <1>4. ASSUME NEW a \in Agent, Computes(a) PROVE TypeOK'
    <2>1. work[a] \in Works
      OBVIOUS
    <2>2. CASE SizeMatrix(a)
      <3>1. work[a].slot \in Slot /\ work[a].file \in File /\ work[a].cut \in File
        BY <2>1, <2>2 DEF SizeMatrix, Works, Idle
      <3>2. [work[a] EXCEPT !.pc = "fill"] \in Works
        BY <2>1, <2>2 DEF SizeMatrix, Works, Idle
      <3>3. work' \in [Agent -> Works]
        BY <2>2, <3>2 DEF SizeMatrix
      <3>4. Cols(a) \in Nat /\ Rows(a) \in Nat
        <4>1. Cols(a) \in Nat
          BY <3>1, SoundsCounted DEF Cols
        <4>2. cmp[work[a].slot].frames \in Nat
          BY <3>1, RecordingCounted
        <4> QED
          BY <4>1, <4>2 DEF Rows, TargetLength
      <3>5. similarity' \in Matrices
        BY <2>2, <3>4 DEF SizeMatrix, Matrices
      <3> QED
        BY <2>2, <3>3, <3>5 DEF SizeMatrix
    <2>3. CASE FillMatrix(a)
      <3>1. work[a].slot \in Slot /\ work[a].file \in File
        BY <2>1, <2>3 DEF FillMatrix, Works, Idle
      <3>2. [work[a] EXCEPT !.pc = "score"] \in Works
        BY <2>1, <2>3 DEF FillMatrix, Works, Idle
      <3>3. work' \in [Agent -> Works]
        BY <2>3, <3>2 DEF FillMatrix
      <3>4. By(a) \in Agent \X (Slot \cup {NoSlot}) \X File
        BY <3>1 DEF By
      <3>5. similarity' \in Matrices
        BY <2>3, <3>4 DEF FillMatrix, Matrices
      <3> QED
        BY <2>3, <3>3, <3>5 DEF FillMatrix
    <2>4. CASE MatrixAborts(a) \/ TimesAbort(a)
      BY <2>4, AbortTyped DEF MatrixAborts, TimesAbort
    <2>5. CASE ExtractFile(a)
      <3>1. [pc |-> "size", slot |-> work[a].slot, file |-> work[a].file, cut |-> fileInfo] \in Works
        BY <2>1, <2>5, ComputationOf DEF ExtractFile, Works
      <3>2. work' \in [Agent -> Works]
        BY <2>5, <3>1 DEF ExtractFile
      <3>3. fileInfo' \in File
        BY <2>5, ZeroIsFile DEF ExtractFile, ReadBack
      <3> QED
        BY <2>5, <3>2, <3>3 DEF ExtractFile
    <2> QED
      BY <1>4, <2>2, <2>3, <2>4, <2>5 DEF Computes
  <1>5. ASSUME NEW s \in Slot, Worker(s) PROVE TypeOK'
    <2>0. s \in Agent /\ cmp[s] \in Comparisons
      BY DEF Agent
    <2>r. Read(s) \in Slot \cup {NoSlot}
      BY DEF Read, Recordings
    <2>1. CASE Preprocess(s)
      <3>1. [NotCompared EXCEPT !.source = Read(s)] \in Comparisons
        BY <2>r, NotComparedTyped DEF Comparisons
      <3>2. cmp' \in [Slot -> Comparisons] /\ phase' \in [Slot -> Phases]
        BY <2>1, <3>1 DEF Preprocess, Phases
      <3> QED
        BY <2>1, <3>2 DEF Preprocess
    <2>11. CASE StoreInfo(s)
      <3>1. phase' \in [Slot -> Phases] /\ userInfo' \in Slot \cup {NoSlot}
        BY <2>0, <2>11 DEF StoreInfo, Phases, Comparisons
      <3> QED
        BY <2>11, <3>1 DEF StoreInfo
    <2>2. CASE ExtractFeatures(s)
      <3>1. ASSUME NEW n \in UserLen
            PROVE  [NotCompared EXCEPT !.frames = n, !.source = Read(s)] \in Comparisons
        BY <2>r, NotComparedTyped DEF Comparisons
      <3>2. cmp' \in [Slot -> Comparisons] /\ phase' \in [Slot -> Phases]
        BY <2>2, <3>1 DEF ExtractFeatures, Phases
      <3>3. userInfo' \in Slot \cup {NoSlot}
        BY <2>2 DEF ExtractFeatures, ReadBack
      <3> QED
        BY <2>2, <3>2, <3>3 DEF ExtractFeatures
    <2>3. CASE ReadFails(s)
      BY <2>3, AbortTyped DEF ReadFails
    <2>4. CASE ScoreEmpty(s)
      <3>1. cmp' \in [Slot -> Comparisons]
        BY <2>4, ReturnedTyped, FilesCounted DEF ScoreEmpty
      <3> QED
        BY <2>4, <3>1 DEF ScoreEmpty
    <2>5. CASE BeginScoring(s)
      <3>1. cmp[s].next \in File
        BY <2>0, <2>5, NextIsFile DEF BeginScoring, Comparisons
      <3>2. ReadTimes(s, cmp[s].next) \in Works
        BY <3>1 DEF ReadTimes, Works
      <3>3. work' \in [Agent -> Works] /\ fileInfo' \in File
        BY <2>0, <2>5, <3>1, <3>2 DEF BeginScoring
      <3> QED
        BY <2>5, <3>3 DEF BeginScoring
    <2>6. CASE ScoreFile(s)
      <3>1. cmp[s].next < NumFiles
        <4>1. work[s] # Idle /\ work[s].file = cmp[s].next
          BY <2>6 DEF ScoreFile, WorkerInv, Idle
        <4>2. cmp[s].next \in File
          BY <2>0, <4>1 DEF Works
        <4> QED
          BY <4>2, FilesCounted DEF File
      <3>2. cmp' \in [Slot -> Comparisons]
        BY <2>6, <3>1, ReturnedTyped, FilesCounted DEF ScoreFile
      <3>3. work' \in [Agent -> Works]
        BY <2>0, <2>6, IdleTyped DEF ScoreFile
      <3> QED
        BY <2>6, <3>2, <3>3 DEF ScoreFile
    <2>7. ASSUME NEW from, NEW to \in Phases, NEW b \in Blocks, Post(s, from, to, b) PROVE TypeOK'
      BY <2>7 DEF Post
    <2>8. CASE PostDraw(s)
      BY <2>7, <2>8, <2>0, BlockTyped DEF PostDraw, Phases, Comparisons
    <2>9. CASE PostResult(s)
      BY <2>7, <2>9, <2>0, BlockTyped DEF PostResult, Phases, Comparisons
    <2>10. CASE PostFinished(s)
      BY <2>7, <2>10, BlankTyped DEF PostFinished, Phases, StatusText
    <2> QED
      BY <1>4, <1>5, <2>0, <2>1, <2>2, <2>3, <2>4, <2>5, <2>6, <2>8, <2>9, <2>10, <2>11 DEF Worker, Computes
  <1>6. CASE MainThread
    <2>0. Main \in Agent
      BY DEF Agent
    <2>1. CASE RunStatus
      <3>1. phase' \in [Slot -> Phases]
        BY <2>1 DEF RunStatus, Phases
      <3> QED
        BY <2>1, <3>1, HeadTyped DEF RunStatus, RunBlock
    <2>2. CASE RunResult
      BY <2>2, HeadTyped DEF RunResult, RunBlock
    <2>3. CASE RunDraw
      <3>1. Head(mainQueue).slot \in Slot /\ Head(mainQueue).file \in File
        BY <2>3, HeadTyped DEF RunDraw, RunBlock
      <3>2. ReadTimes(Head(mainQueue).slot, Head(mainQueue).file) \in Works
        BY <3>1 DEF ReadTimes, Works
      <3> QED
        BY <2>3, <3>1, <3>2, HeadTyped DEF RunDraw, RunBlock
    <2>4. CASE DrawAborts
      BY <2>4, AbortTyped DEF DrawAborts
    <2>5. CASE FinishDraw
      BY <2>5, IdleTyped DEF FinishDraw
    <2> QED
      BY <1>4, <1>6, <2>0, <2>1, <2>2, <2>3, <2>4, <2>5 DEF MainThread, Computes
  <1> QED
    BY <1>1, <1>2, <1>3, <1>5, <1>6 DEF Next, Running

\* A worker stays inside the matrices for its own round and its next file.
LEMMA NextWorker == IInv /\ [Next]_vars => WorkerInv'
  <1> SUFFICES ASSUME IInv, [Next]_vars,
                      NEW t \in Slot, work'[t].pc # "idle"
               PROVE  phase'[t] = "comparing" /\ work'[t].slot = t /\ work'[t].file = cmp'[t].next
    BY DEF WorkerInv
  <1>0. /\ work[t].pc # "idle" =>
             phase[t] = "comparing" /\ work[t].slot = t /\ work[t].file = cmp[t].next
        /\ t # Main /\ t \in Agent /\ Main \in Agent
        /\ phase \in [Slot -> Phases] /\ cmp \in [Slot -> Comparisons] /\ work \in [Agent -> Works]
        /\ recorder \in Slot \cup {NoSlot}
    BY SlotAssumption DEF IInv, WorkerInv, TypeOK, Agent
  <1>a. ~Abort
    BY <1>0 DEF Abort, Idle
  <1>1. CASE UNCHANGED vars \/ Launch
    BY <1>0, <1>1 DEF vars, Launch
  <1>2. CASE User
    <2>1. CASE StopRecording
      BY <1>0, <2>1 DEF IInv, OneWriter, StopRecording
    <2>2. ASSUME NEW s \in Slot, StartRecording(s)
          PROVE  phase'[t] = "comparing" /\ work'[t].slot = t /\ work'[t].file = cmp'[t].next
      BY <1>0, <2>2 DEF StartRecording
    <2> QED
      BY <1>0, <1>2, <2>1, <2>2
         DEF User, PressWhileRecording, StartRecordingFails, ReleaseWithoutRecorder, CancelTouch
  <1>3. ASSUME NEW a \in Agent, Computes(a)
        PROVE  phase'[t] = "comparing" /\ work'[t].slot = t /\ work'[t].file = cmp'[t].next
    <2>1. work[t].pc # "idle" /\ phase' = phase /\ cmp' = cmp
          /\ work'[t].slot = work[t].slot /\ work'[t].file = work[t].file
      <3>0. work[t] \in Works
        BY <1>0
      <3>1. CASE ExtractFile(a)
        <4>1. work'[t] = IF t = a THEN
                    [pc |-> "size", slot |-> work[t].slot, file |-> work[t].file, cut |-> fileInfo]
                  ELSE work[t]
          BY <1>0, <3>1 DEF ExtractFile
        <4> QED
          BY <3>0, <3>1, <4>1 DEF ExtractFile
      <3>2. CASE ~ExtractFile(a)
        <4>1. PICK p \in {"fill", "score"} :
                 /\ work' = [work EXCEPT ![a] = [@ EXCEPT !.pc = p]] /\ phase' = phase /\ cmp' = cmp
                 /\ work[a].pc # "idle"
          BY <1>3, <1>a, <3>2 DEF Computes, SizeMatrix, FillMatrix, MatrixAborts, TimesAbort
        <4>2. work'[t] = IF t = a THEN [work[t] EXCEPT !.pc = p] ELSE work[t]
          BY <1>0, <4>1
        <4> QED
          BY <3>0, <4>1, <4>2 DEF Works, Idle
      <3> QED
        BY <3>1, <3>2
    <2> QED
      BY <1>0, <2>1
  <1>4. ASSUME NEW s \in Slot, Worker(s)
        PROVE  phase'[t] = "comparing" /\ work'[t].slot = t /\ work'[t].file = cmp'[t].next
    <2>0. s \in Agent
      BY DEF Agent
    <2>1. CASE Preprocess(s)
      BY <1>0, <2>1 DEF Preprocess
    <2>8. CASE StoreInfo(s)
      BY <1>0, <2>8 DEF StoreInfo
    <2>2. CASE ExtractFeatures(s)
      BY <1>0, <2>2 DEF ExtractFeatures
    <2>3. CASE ReadFails(s)
      BY <1>a, <2>3 DEF ReadFails
    <2>4. CASE ScoreEmpty(s)
      BY <1>0, <2>4 DEF ScoreEmpty, Returned
    <2>5. CASE BeginScoring(s)
      BY <1>0, <2>0, <2>5 DEF BeginScoring, ReadTimes
    <2>6. CASE ScoreFile(s)
      BY <1>0, <2>0, <2>6 DEF ScoreFile, Returned, Idle
    <2>7. CASE PostDraw(s) \/ PostResult(s) \/ PostFinished(s)
      BY <1>0, <2>7 DEF PostDraw, PostResult, PostFinished, Post
    <2> QED
      BY <1>3, <1>4, <2>0, <2>1, <2>2, <2>3, <2>4, <2>5, <2>6, <2>7, <2>8 DEF Worker, Computes
  <1>5. CASE MainThread
    <2>1. CASE RunStatus
      BY <1>0, <2>1, RunStatusFrees DEF IInv, RunStatus
    <2>2. CASE RunResult \/ RunDraw \/ FinishDraw \/ DrawAborts
      BY <1>0, <1>a, <2>2 DEF RunResult, RunDraw, FinishDraw, DrawAborts
    <2> QED
      BY <1>0, <1>3, <1>5, <2>1, <2>2 DEF MainThread, Computes
  <1> QED
    BY <1>1, <1>2, <1>4, <1>5 DEF Next, Running

\* No worker starts inside the matrices.
LEMMA InitWorker == Init => WorkerInv
  BY DEF Init, WorkerInv, Agent, Idle

\* Every step keeps r.wav open exactly for the recorder of the screen.
LEMMA NextOneWriter == IInv /\ [Next]_vars => OneWriter'
  <1> SUFFICES ASSUME IInv, [Next]_vars PROVE OneWriter'
    OBVIOUS
  <1>0. /\ phase \in [Slot -> Phases] /\ recorder \in Slot \cup {NoSlot} /\ wav \in Recordings
        /\ wav.closed <=> recorder = NoSlot
        /\ recorder # NoSlot => wav.owner = recorder
        /\ \A t \in Slot : phase[t] = "recording" <=> recorder = t
        /\ NoSlot \notin Slot
    BY SlotAssumption DEF IInv, OneWriter, TypeOK
  <1>a. CASE Abort
    BY <1>0, <1>a DEF Abort, OneWriter, NoRecording
  <1>b. ASSUME UNCHANGED <<recorder, wav, phase>> PROVE OneWriter'
    BY <1>0, <1>b DEF OneWriter
  <1>c. ASSUME NEW s \in Slot, NEW from \in Phases \ {"recording"}, NEW to \in Phases \ {"recording"},
               phase[s] = from, phase' = [phase EXCEPT ![s] = to], UNCHANGED <<recorder, wav>>
        PROVE  OneWriter'
    BY <1>0, <1>c DEF OneWriter
  <1>1. CASE UNCHANGED vars \/ Launch
    BY <1>1, <1>b DEF vars, Launch
  <1>2. CASE User
    <2>1. ASSUME NEW s \in Slot, StartRecording(s) PROVE OneWriter'
      BY <1>0, <2>1 DEF StartRecording, OneWriter
    <2>2. CASE StartRecordingFails
      BY <1>0, <2>2 DEF StartRecordingFails, OneWriter, NoRecording
    <2>3. CASE StopRecording
      BY <1>0, <2>3 DEF StopRecording, OneWriter, Recordings
    <2>4. CASE PressWhileRecording \/ ReleaseWithoutRecorder \/ CancelTouch
      BY <2>4, <1>b DEF PressWhileRecording, ReleaseWithoutRecorder, CancelTouch
    <2> QED
      BY <1>2, <2>1, <2>2, <2>3, <2>4 DEF User
  <1>3. ASSUME NEW a \in Agent, Computes(a) PROVE OneWriter'
    BY <1>3, <1>a, <1>b
       DEF Computes, ExtractFile, TimesAbort, SizeMatrix, FillMatrix, MatrixAborts
  <1>4. ASSUME NEW s \in Slot, Worker(s) PROVE OneWriter'
    <2>1. CASE Preprocess(s)
      BY <2>1, <1>c DEF Preprocess, Phases
    <2>8. CASE StoreInfo(s)
      BY <2>8, <1>c DEF StoreInfo, Phases
    <2>2. CASE ExtractFeatures(s)
      BY <2>2, <1>c DEF ExtractFeatures, Phases
    <2>3. CASE ReadFails(s)
      BY <2>3, <1>a DEF ReadFails
    <2>4. CASE ScoreEmpty(s) \/ BeginScoring(s) \/ ScoreFile(s)
      BY <2>4, <1>b DEF ScoreEmpty, BeginScoring, ScoreFile
    <2>5. CASE PostDraw(s)
      BY <2>5, <1>c DEF PostDraw, Post, Phases
    <2>6. CASE PostResult(s)
      BY <2>6, <1>c DEF PostResult, Post, Phases
    <2>7. CASE PostFinished(s)
      BY <2>7, <1>c DEF PostFinished, Post, Phases
    <2> QED
      BY <1>3, <1>4, <2>1, <2>2, <2>3, <2>4, <2>5, <2>6, <2>7, <2>8 DEF Worker, Computes, Agent
  <1>5. CASE MainThread
    <2>1. CASE RunStatus
      <3>1. \A t \in Slot : phase'[t] = "recording" <=> phase[t] = "recording"
        BY <2>1, RunStatusFrees DEF IInv
      <3> QED
        BY <1>0, <2>1, <3>1 DEF RunStatus, OneWriter
    <2>2. CASE RunResult \/ RunDraw \/ FinishDraw
      BY <2>2, <1>b DEF RunResult, RunDraw, FinishDraw
    <2>3. CASE DrawAborts
      BY <2>3, <1>a DEF DrawAborts
    <2> QED
      BY <1>3, <1>5, <2>1, <2>2, <2>3 DEF MainThread, Computes, Agent
  <1> QED
    BY <1>1, <1>2, <1>4, <1>5 DEF Next, Running

(* The order of a queue, and the phases of its rounds, when a block is      *)
(* posted, a block is taken, or a phase moves on.                           *)

\* Posting a block of no round keeps the order of the rounds.
LEMMA PostForeign ==
  ASSUME NEW q \in Seq(Blocks), NEW b \in Blocks, NEW p, b.what \notin RoundBlocks,
         Ordered(q), Phased(q, p)
  PROVE  Ordered(Append(q, b)) /\ Phased(Append(q, b), p)
  <1>1. /\ Len(Append(q, b)) = Len(q) + 1 /\ Len(q) \in Nat
        /\ \A i \in 1..Len(q)+1 : Append(q, b)[i] = IF i = Len(q) + 1 THEN b ELSE q[i]
    OBVIOUS
  <1>2. Ordered(Append(q, b))
    BY <1>1 DEF Ordered, RoundBlocks
  <1>3. Phased(Append(q, b), p)
    BY <1>1 DEF Phased, RoundBlocks
  <1> QED
    BY <1>2, <1>3

\* What a round posts next: its drawing first, then its result, then "Finished".
Posts(from, what, to) ==
  \/ from \notin Posting /\ what = "draw" /\ to = "drawPosted"
  \/ from = "drawPosted" /\ what = "result" /\ to = "resultPosted"
  \/ from = "resultPosted" /\ what = "Finished" /\ to = "posted"

\* Posting that keeps the order.
LEMMA PostOfRound ==
  ASSUME NEW q \in Seq(Blocks), NEW b \in Blocks, NEW p, NEW to,
         Ordered(q), Phased(q, p), Posts(p[b.slot], b.what, to)
  PROVE  Ordered(Append(q, b))
  <1>1. /\ Len(Append(q, b)) = Len(q) + 1 /\ Len(q) \in Nat
        /\ \A i \in 1..Len(q)+1 : Append(q, b)[i] = IF i = Len(q) + 1 THEN b ELSE q[i]
    OBVIOUS
  <1>2. \A i \in 1..Len(q) :
          q[i].slot = b.slot /\ q[i].what \in RoundBlocks => Ahead(q[i].what, b.what)
    BY DEF Phased, Posts, Posting, RoundBlocks, Ahead
  <1> QED
    BY <1>1, <1>2 DEF Ordered

\* Taking the first block keeps it.
LEMMA TakeBlock ==
  ASSUME NEW q \in Seq(Blocks), NEW p, q # <<>>, Ordered(q), Phased(q, p)
  PROVE  /\ Ordered(Tail(q)) /\ Phased(Tail(q), p)
         /\ Head(q).what \in RoundBlocks => p[Head(q).slot] \in Posting
         /\ Head(q).what = "Finished" =>
              \A i \in 1..Len(Tail(q)) :
                Tail(q)[i].what \in RoundBlocks => Tail(q)[i].slot # Head(q).slot
  <1>1. /\ Len(Tail(q)) = Len(q) - 1 /\ Len(q) \in Nat /\ Len(q) > 0 /\ Head(q) = q[1]
        /\ \A i \in 1..Len(q)-1 : Tail(q)[i] = q[i+1]
    OBVIOUS
  <1>2. Ordered(Tail(q))
    BY <1>1 DEF Ordered
  <1>3. Phased(Tail(q), p)
    BY <1>1 DEF Phased
  <1>4. Head(q).what \in RoundBlocks => p[Head(q).slot] \in Posting
    BY <1>1 DEF Phased
  <1>5. ASSUME Head(q).what = "Finished", NEW i \in 1..Len(Tail(q)), Tail(q)[i].what \in RoundBlocks
        PROVE  Tail(q)[i].slot # Head(q).slot
    BY <1>1, <1>5 DEF Ordered, Ahead, RoundBlocks
  <1> QED
    BY <1>2, <1>3, <1>4, <1>5

\* So does moving a round that has no block queued, or moving it on while it posts.
LEMMA MovePhase ==
  ASSUME NEW q \in Seq(Blocks), NEW p \in [Slot -> Phases], Phased(q, p),
         NEW s \in Slot, NEW to \in Phases,
         p[s] \notin Posting \/ \E what : Posts(p[s], what, to)
  PROVE  Phased(q, [p EXCEPT ![s] = to])
  BY DEF Phased, Posts, Posting, RoundBlocks

\* Every step keeps the rounds in order on the main queue.
LEMMA NextRound == IInv /\ [Next]_vars => RoundInv'
  <1> SUFFICES ASSUME IInv, [Next]_vars PROVE RoundInv'
    OBVIOUS
  <1>0. /\ phase \in [Slot -> Phases] /\ mainQueue \in Seq(Blocks) /\ work \in [Agent -> Works]
        /\ Ordered(mainQueue) /\ Phased(mainQueue, phase)
        /\ work[Main].pc # "idle" => phase[work[Main].slot] \in Posting
        /\ work[Main].pc # "idle" => work[Main].slot \in Slot
        /\ Main \in Agent /\ Main \notin Slot
    BY SlotAssumption DEF IInv, RoundInv, TypeOK, Agent, Works, Idle
  <1>a. CASE Abort
    BY <1>0, <1>a DEF Abort, RoundInv, Ordered, Phased, Idle
  <1>b. ASSUME UNCHANGED <<mainQueue, phase>>, UNCHANGED work[Main] PROVE RoundInv'
    BY <1>0, <1>b DEF RoundInv
  <1>c. ASSUME NEW b \in Blocks, b.what \notin RoundBlocks, mainQueue' = Append(mainQueue, b),
               UNCHANGED <<phase, work>>
        PROVE  RoundInv'
    <2>1. Ordered(mainQueue') /\ Phased(mainQueue', phase)
      BY <1>0, <1>c, PostForeign
    <2> QED
      BY <1>0, <1>c, <2>1 DEF RoundInv
  <1>d. ASSUME NEW s \in Slot, NEW to \in Phases, phase[s] \notin Posting,
               phase' = [phase EXCEPT ![s] = to], UNCHANGED <<mainQueue, work>>
        PROVE  RoundInv'
    <2>1. Phased(mainQueue, phase')
      BY <1>0, <1>d, MovePhase
    <2> QED
      BY <1>0, <1>d, <2>1 DEF RoundInv
  <1>1. CASE UNCHANGED vars \/ Launch
    BY <1>1, <1>b DEF vars, Launch
  <1>2. CASE User
    <2>0. \A t \in StatusText \ {"Finished"}, s \in Slot \cup {NoSlot} :
            Status(t, s) \in Blocks /\ Status(t, s).what \notin RoundBlocks
      BY BlankTyped DEF Status, Block, RoundBlocks, StatusText
    <2>1. CASE PressWhileRecording
      BY <1>0, <1>c, <2>0, <2>1 DEF PressWhileRecording, StatusText, IInv, TypeOK
    <2>2. ASSUME NEW s \in Slot, StartRecording(s) PROVE RoundInv'
      <3> DEFINE b == Status("Recording", s)
      <3>1. b \in Blocks /\ b.what \notin RoundBlocks
        BY <2>0 DEF StatusText
      <3>2. Ordered(mainQueue') /\ Phased(mainQueue', phase)
        BY <1>0, <2>2, <3>1, PostForeign DEF StartRecording
      <3>3. mainQueue' \in Seq(Blocks) /\ phase[s] \notin Posting
        BY <1>0, <2>2, <3>1 DEF StartRecording, Posting
      <3>4. phase' = [phase EXCEPT ![s] = "recording"]
        BY <2>2 DEF StartRecording
      <3>5. Phased(mainQueue', phase')
        BY <1>0, <3>2, <3>3, <3>4, MovePhase DEF Phases
      <3> QED
        BY <1>0, <2>2, <3>2, <3>3, <3>4, <3>5 DEF StartRecording, RoundInv
    <2>3. CASE StartRecordingFails
      <3> DEFINE q == Append(mainQueue, Status("Recording", NoSlot))
      <3>1. mainQueue' = Append(q, Status("Error", NoSlot))
        BY <1>0, <2>3 DEF StartRecordingFails
      <3>2. Status("Recording", NoSlot) \in Blocks /\ Status("Recording", NoSlot).what \notin RoundBlocks
        BY <2>0 DEF StatusText
      <3>3. Status("Error", NoSlot) \in Blocks /\ Status("Error", NoSlot).what \notin RoundBlocks
        BY <2>0 DEF StatusText
      <3>4. q \in Seq(Blocks) /\ Ordered(q) /\ Phased(q, phase)
        BY <1>0, <3>2, PostForeign
      <3>5. Ordered(mainQueue') /\ Phased(mainQueue', phase)
        BY <3>1, <3>3, <3>4, PostForeign
      <3> QED
        BY <1>0, <2>3, <3>5 DEF StartRecordingFails, RoundInv
    <2>4. CASE ReleaseWithoutRecorder
      BY <1>c, <2>0, <2>4 DEF ReleaseWithoutRecorder, Release, StatusText
    <2>5. CASE StopRecording
      <3>1. recorder \in Slot /\ phase[recorder] = "recording"
        BY <2>5 DEF StopRecording, IInv, OneWriter, TypeOK
      <3>2. Status("Calculating", recorder) \in Blocks /\ Status("Calculating", recorder).what \notin RoundBlocks
        BY <2>0, <3>1 DEF StatusText
      <3>3. mainQueue' \in Seq(Blocks) /\ Ordered(mainQueue') /\ Phased(mainQueue', phase)
        BY <1>0, <2>5, <3>2, PostForeign DEF StopRecording, Release
      <3>4. Phased(mainQueue', [phase EXCEPT ![recorder] = "queued"])
        BY <1>0, <3>1, <3>3, MovePhase DEF Posting, Phases
      <3> QED
        BY <1>0, <2>5, <3>1, <3>3, <3>4 DEF StopRecording, RoundInv, Posting
    <2>6. CASE CancelTouch
      BY <1>b, <2>6 DEF CancelTouch
    <2> QED
      BY <1>2, <2>1, <2>2, <2>3, <2>4, <2>5, <2>6 DEF User
  <1>3. ASSUME NEW a \in Agent, Computes(a) PROVE RoundInv'
    <2>1. CASE MatrixAborts(a) \/ TimesAbort(a)
      BY <1>a, <2>1 DEF MatrixAborts, TimesAbort
    <2>2. ASSUME NEW p \in {"fill", "score"}, work[a].pc # "idle",
                 work' = [work EXCEPT ![a] = [@ EXCEPT !.pc = p]], UNCHANGED <<mainQueue, phase>>
          PROVE  RoundInv'
      <3>1. work'[Main].slot = work[Main].slot /\ (work'[Main].pc # "idle" => work[Main].pc # "idle")
        BY <1>0, <2>2 DEF Works, Idle
      <3> QED
        BY <1>0, <2>2, <3>1 DEF RoundInv
    <2>3. CASE ExtractFile(a)
      <3>1. work'[Main].slot = work[Main].slot /\ (work'[Main].pc # "idle" => work[Main].pc # "idle")
        <4>1. work'[Main] = IF Main = a THEN
                    [pc |-> "size", slot |-> work[a].slot, file |-> work[a].file, cut |-> fileInfo]
                  ELSE work[Main]
          BY <1>0, <2>3 DEF ExtractFile
        <4> QED
          BY <1>0, <2>3, <4>1 DEF ExtractFile
      <3> QED
        BY <1>0, <2>3, <3>1 DEF ExtractFile, RoundInv
    <2> QED
      BY <1>3, <2>1, <2>2, <2>3 DEF Computes, SizeMatrix, FillMatrix
  <1>4. ASSUME NEW s \in Slot, Worker(s) PROVE RoundInv'
    <2>0. s # Main
      BY <1>0
    <2>1. CASE Preprocess(s)
      BY <2>1, <1>d DEF Preprocess, Phases, Posting
    <2>10. CASE StoreInfo(s)
      BY <2>10, <1>d DEF StoreInfo, Phases, Posting
    <2>2. CASE ExtractFeatures(s)
      BY <2>2, <1>d DEF ExtractFeatures, Phases, Posting
    <2>3. CASE ReadFails(s)
      BY <2>3, <1>a DEF ReadFails
    <2>4. CASE ScoreEmpty(s) \/ BeginScoring(s) \/ ScoreFile(s)
      BY <1>0, <2>0, <2>4, <1>b DEF ScoreEmpty, BeginScoring, ScoreFile
    <2>5. ASSUME NEW b \in Blocks, NEW from, NEW to,
                 b.slot = s, Posts(from, b.what, to), Post(s, from, to, b)
          PROVE  RoundInv'
      <3>1. phase[s] = from /\ phase' = [phase EXCEPT ![s] = to] /\ mainQueue' = Append(mainQueue, b)
            /\ work' = work
        BY <2>5 DEF Post
      <3>2. Ordered(mainQueue')
        BY <1>0, <2>5, <3>1, PostOfRound
      <3>3. Phased(mainQueue, phase')
        <4>1. to \in Phases
          BY <2>5 DEF Posts, Phases
        <4>2. \E what : Posts(phase[s], what, to)
          BY <2>5, <3>1
        <4> QED
          BY <1>0, <3>1, <4>1, <4>2, MovePhase
      <3>4. Phased(mainQueue', phase')
        <4>1. /\ Len(mainQueue') = Len(mainQueue) + 1 /\ Len(mainQueue) \in Nat
              /\ \A i \in 1..Len(mainQueue)+1 :
                   mainQueue'[i] = IF i = Len(mainQueue) + 1 THEN b ELSE mainQueue[i]
          BY <1>0, <2>5, <3>1
        <4>2. phase'[s] = to
          BY <1>0, <3>1
        <4> QED
          BY <2>5, <3>3, <4>1, <4>2 DEF Phased, Posts, Posting
      <3>5. work[Main].pc # "idle" => phase'[work[Main].slot] \in Posting
        BY <1>0, <2>5, <3>1 DEF Posts, Posting
      <3> QED
        BY <3>1, <3>2, <3>4, <3>5 DEF RoundInv
    <2>6. cmp[s].index \in File
      BY DEF IInv, TypeOK, Comparisons
    <2>7. CASE PostDraw(s)
      <3>1. Block("draw", s, cmp[s].index) \in Blocks /\ Block("draw", s, cmp[s].index).slot = s
            /\ Block("draw", s, cmp[s].index).what = "draw"
        BY <2>6, BlockTyped DEF Block
      <3> QED
        BY <2>5, <2>7, <3>1 DEF PostDraw, Posts, Posting
    <2>8. CASE PostResult(s)
      <3>1. Block("result", s, cmp[s].index) \in Blocks /\ Block("result", s, cmp[s].index).slot = s
            /\ Block("result", s, cmp[s].index).what = "result"
        BY <2>6, BlockTyped DEF Block
      <3> QED
        BY <2>5, <2>8, <3>1 DEF PostResult, Posts, Posting
    <2>9. CASE PostFinished(s)
      <3>1. Status("Finished", s) \in Blocks /\ Status("Finished", s).slot = s
            /\ Status("Finished", s).what = "Finished"
        BY BlankTyped DEF Status, Block, StatusText
      <3> QED
        BY <2>5, <2>9, <3>1 DEF PostFinished, Posts, Posting
    <2> QED
      BY <1>3, <1>4, <2>1, <2>2, <2>3, <2>4, <2>7, <2>8, <2>9, <2>10 DEF Worker, Computes, Agent
  <1>5. CASE MainThread
    <2>0. ASSUME mainQueue # <<>>
          PROVE  /\ Ordered(Tail(mainQueue)) /\ Phased(Tail(mainQueue), phase)
                 /\ Head(mainQueue).what \in RoundBlocks => phase[Head(mainQueue).slot] \in Posting
      BY <1>0, <2>0, TakeBlock
    <2>1. CASE RunStatus
      <3>1. mainQueue # <<>> /\ mainQueue' = Tail(mainQueue) /\ work' = work /\ work[Main].pc = "idle"
        BY <2>1 DEF RunStatus, RunBlock
      <3>2. ASSUME NEW i \in 1..Len(mainQueue'), mainQueue'[i].what \in RoundBlocks
            PROVE  phase'[mainQueue'[i].slot] = phase[mainQueue'[i].slot]
        <4> DEFINE t == mainQueue'[i].slot
        <4>1. mainQueue'[i] \in Blocks /\ phase[t] \in Posting
          <5>1. mainQueue' \in Seq(Blocks) /\ Phased(mainQueue', phase)
            BY <1>0, <3>1, <2>0, HeadTyped
          <5> QED
            BY <3>2, <5>1 DEF Phased
        <4>2. Head(mainQueue).what = "Finished" => t # Head(mainQueue).slot
          BY <1>0, <3>1, <3>2, TakeBlock
        <4>3. Head(mainQueue) # Status("Finished", t)
          BY <4>2 DEF Status, Block
        <4>4. t \in Slot
          BY <3>2, <4>1 DEF Blocks, RoundBlocks, StatusText
        <4> QED
          BY <2>1, <4>3, <4>4 DEF RunStatus
      <3> QED
        BY <3>1, <3>2, <2>0 DEF RoundInv, Phased, RoundBlocks
    <2>2. CASE RunResult
      BY <1>0, <2>0, <2>2 DEF RunResult, RunBlock, RoundInv
    <2>3. CASE RunDraw
      <3>1. work'[Main].slot = Head(mainQueue).slot /\ phase[Head(mainQueue).slot] \in Posting
        BY <1>0, <2>0, <2>3 DEF RunDraw, RunBlock, RoundBlocks, ReadTimes
      <3> QED
        BY <2>0, <2>3, <3>1 DEF RunDraw, RunBlock, RoundInv
    <2>4. CASE DrawAborts
      BY <2>4, <1>a DEF DrawAborts
    <2>5. CASE FinishDraw
      BY <1>0, <2>5 DEF FinishDraw, RoundInv, Idle
    <2> QED
      BY <1>0, <1>3, <1>5, <2>1, <2>2, <2>3, <2>4, <2>5 DEF MainThread, Computes
  <1> QED
    BY <1>1, <1>2, <1>4, <1>5 DEF Next, Running

(* The loop over the files.                                                 *)

\* Before its first turn the loop has found nothing.
LEMMA NotComparedBest == Best(NotCompared)
  BY FilesCounted, ZeroIsFile DEF Best, NotCompared

\* One turn of the loop keeps what it has found the first best so far.
LEMMA ReturnedBest ==
  ASSUME TypeOK, NEW s \in Slot, NEW result \in -1..MaxScore,
         cmp[s].next < NumFiles, Best(cmp[s]), Returned(s, result)
  PROVE  /\ Best(cmp'[s])
         /\ \A t \in Slot \ {s} : cmp'[t] = cmp[t]
  <1> DEFINE c == cmp[s]
             f == c.next
             d == cmp'[s]
  <1>1. cmp \in [Slot -> Comparisons] /\ c \in Comparisons
    BY DEF TypeOK
  <1>2. /\ f \in File /\ f \in Nat /\ c.score \in Nat /\ c.index \in File /\ c.index \in Nat
        /\ c.returned \in [File -> -1..MaxScore] /\ \A g \in File : c.returned[g] \in Int
    BY <1>1, NextIsFile, FilesCounted DEF Comparisons, File
  <1>3. /\ d.next = f + 1
        /\ d.score = IF result > c.score THEN result ELSE c.score
        /\ d.index = IF result > c.score THEN f ELSE c.index
        /\ d.returned = [c.returned EXCEPT ![f] = result]
    BY <1>1 DEF Returned
  <1>4. \A g \in File : d.returned[g] = IF g = f THEN result ELSE c.returned[g]
    BY <1>2, <1>3
  <1>5. result \in Int /\ \A n \in File : \A g \in 0..n-1 : g \in File
    BY FilesCounted DEF File
  <1> HIDE DEF c, f, d
  <1>6. /\ \A g \in File : c.returned[g] <= c.score
        /\ c.score = 0 => c.index = 0
        /\ c.score > 0 => /\ c.returned[c.index] = c.score /\ c.index < f
                          /\ \A g \in 0..c.index-1 : c.returned[g] < c.score
    BY DEF Best, c, f
  <1>7. Best(d)
    <2>1. CASE result > c.score
      <3>1. d.index = f /\ d.score = result /\ d.score > 0
        BY <1>2, <1>3, <1>5, <2>1
      <3>2. \A g \in File : d.returned[g] <= d.score
        <4> SUFFICES ASSUME NEW g \in File PROVE d.returned[g] <= d.score
          OBVIOUS
        <4>1. c.returned[g] \in Int /\ c.returned[g] <= c.score
          BY <1>2, <1>6
        <4>2. d.score = result
          BY <1>3, <2>1
        <4>3. d.returned[g] = result \/ d.returned[g] = c.returned[g]
          BY <1>4
        <4>4. c.score \in Int /\ result \in Int
          BY <1>2, <1>5
        <4> QED
          BY <2>1, <4>1, <4>2, <4>3, <4>4
      <3>3. \A g \in 0..d.index-1 : d.returned[g] < d.score
        <4> SUFFICES ASSUME NEW g \in 0..f-1 PROVE d.returned[g] < d.score
          BY <3>1
        <4>1. g \in File /\ g # f
          BY <1>2, <1>5
        <4>2. d.returned[g] = c.returned[g] /\ c.returned[g] \in Int /\ c.returned[g] <= c.score
          BY <1>2, <1>4, <1>6, <4>1
        <4>3. c.score \in Int /\ result \in Int
          BY <1>2, <1>5
        <4> QED
          BY <2>1, <3>1, <4>2, <4>3
      <3> QED
        BY <1>2, <1>3, <1>4, <3>1, <3>2, <3>3 DEF Best
    <2>2. CASE ~(result > c.score)
      <3>1. d.index = c.index /\ d.score = c.score
        BY <1>3, <2>2
      <3>2. \A g \in File : d.returned[g] <= d.score
        <4> SUFFICES ASSUME NEW g \in File PROVE d.returned[g] <= d.score
          OBVIOUS
        <4>1. c.returned[g] \in Int /\ c.returned[g] <= c.score
          BY <1>2, <1>6
        <4>2. d.returned[g] = result \/ d.returned[g] = c.returned[g]
          BY <1>4
        <4>3. c.score \in Int /\ result \in Int
          BY <1>2, <1>5
        <4> QED
          BY <2>2, <3>1, <4>1, <4>2, <4>3
      <3>3. ASSUME d.score > 0
            PROVE  /\ d.returned[d.index] = d.score /\ d.index < d.next
                   /\ \A g \in 0..d.index-1 : d.returned[g] < d.score
        BY <1>2, <1>3, <1>4, <1>5, <1>6, <3>1, <3>3
      <3>4. d.score = 0 => d.index = 0
        BY <1>6, <3>1
      <3> QED
        BY <3>2, <3>3, <3>4 DEF Best
    <2> QED
      BY <2>1, <2>2
  <1>8. \A t \in Slot \ {s} : cmp'[t] = cmp[t]
    BY <1>1 DEF Returned
  <1> QED
    BY <1>7, <1>8 DEF d

\* Every step keeps the loops right, and the posted blocks true to them.
LEMMA NextBest == IInv /\ [Next]_vars => BestInv'
  <1> SUFFICES ASSUME IInv, [Next]_vars PROVE BestInv'
    OBVIOUS
  <1> DEFINE Names(q, c) == \A i \in 1..Len(q) :
               q[i].what \in {"draw", "result"} => q[i].file = c[q[i].slot].index
  <1>0. /\ TypeOK /\ phase \in [Slot -> Phases] /\ mainQueue \in Seq(Blocks)
        /\ cmp \in [Slot -> Comparisons] /\ Phased(mainQueue, phase)
        /\ \A s \in Slot : Best(cmp[s])
        /\ \A s \in Slot : phase[s] \in Posting => cmp[s].next = NumFiles
        /\ Names(mainQueue, cmp)
    BY DEF IInv, BestInv, RoundInv, TypeOK
  <1>a. CASE Abort
    BY <1>a, NotComparedBest DEF Abort, BestInv, Posting
  <1>b. ASSUME UNCHANGED <<mainQueue, phase, cmp>> PROVE BestInv'
    BY <1>0, <1>b DEF BestInv
  <1>c. ASSUME NEW b \in Blocks, b.what \notin {"draw", "result"}, mainQueue' = Append(mainQueue, b),
               UNCHANGED cmp, \A t \in Slot : phase'[t] \in Posting => phase[t] \in Posting
        PROVE  BestInv'
    <2>1. /\ Len(mainQueue') = Len(mainQueue) + 1 /\ Len(mainQueue) \in Nat
          /\ \A i \in 1..Len(mainQueue)+1 :
               mainQueue'[i] = IF i = Len(mainQueue) + 1 THEN b ELSE mainQueue[i]
      BY <1>0, <1>c
    <2>2. Names(mainQueue', cmp)
      BY <1>0, <1>c, <2>1
    <2> QED
      BY <1>0, <1>c, <2>2 DEF BestInv
  <1>d. ASSUME NEW s \in Slot, phase[s] \notin Posting, phase'[s] \notin Posting, Best(cmp'[s]),
               \A t \in Slot \ {s} : cmp'[t] = cmp[t] /\ phase'[t] = phase[t], mainQueue' = mainQueue
        PROVE  BestInv'
    <2>1. \A i \in 1..Len(mainQueue) : mainQueue[i].what \in {"draw", "result"} =>
            mainQueue[i].slot \in Slot \ {s}
      <3> SUFFICES ASSUME NEW i \in 1..Len(mainQueue), mainQueue[i].what \in {"draw", "result"}
                   PROVE  mainQueue[i].slot \in Slot \ {s}
        OBVIOUS
      <3>1. phase[mainQueue[i].slot] \in Posting
        BY <1>0 DEF Phased, RoundBlocks
      <3>2. mainQueue[i] \in Blocks
        BY <1>0
      <3>3. mainQueue[i].slot \in Slot
        BY <3>2 DEF Blocks, StatusText
      <3> QED
        BY <1>d, <3>1, <3>3
    <2>2. Names(mainQueue', cmp')
      BY <1>0, <1>d, <2>1
    <2>3. \A t \in Slot : Best(cmp'[t])
      BY <1>0, <1>d
    <2>4. \A t \in Slot : phase'[t] \in Posting => cmp'[t].next = NumFiles
      BY <1>0, <1>d
    <2> QED
      BY <2>2, <2>3, <2>4 DEF BestInv
  <1>1. CASE UNCHANGED vars \/ Launch
    BY <1>1, <1>b DEF vars, Launch
  <1>2. CASE User
    <2>0. \A t \in StatusText \ {"Finished"}, s \in Slot \cup {NoSlot} :
            Status(t, s) \in Blocks /\ Status(t, s).what \notin {"draw", "result"}
      BY BlankTyped DEF Status, Block, StatusText
    <2>1. CASE PressWhileRecording
      BY <1>0, <1>c, <2>0, <2>1 DEF PressWhileRecording, StatusText, TypeOK
    <2>2. ASSUME NEW s \in Slot, StartRecording(s) PROVE BestInv'
      <3>1. \A t \in Slot : phase'[t] \in Posting => phase[t] \in Posting
        BY <1>0, <2>2 DEF StartRecording, Posting
      <3> QED
        BY <1>c, <2>0, <2>2, <3>1 DEF StartRecording, StatusText
    <2>3. CASE StartRecordingFails
      <3> DEFINE b1 == Status("Recording", NoSlot)
                 b2 == Status("Error", NoSlot)
      <3>1. b1 \in Blocks /\ b2 \in Blocks /\ b1.what \notin {"draw", "result"}
            /\ b2.what \notin {"draw", "result"}
        BY <2>0 DEF StatusText
      <3> HIDE DEF b1, b2
      <3>2. mainQueue' = mainQueue \o <<b1, b2>> /\ cmp' = cmp /\ phase' = phase
        BY <2>3 DEF StartRecordingFails, b1, b2
      <3>3. /\ Len(mainQueue') = Len(mainQueue) + 2 /\ Len(mainQueue) \in Nat
            /\ \A i \in 1..Len(mainQueue') :
                 mainQueue'[i] = IF i <= Len(mainQueue) THEN mainQueue[i]
                                 ELSE <<b1, b2>>[i - Len(mainQueue)]
        BY <1>0, <3>1, <3>2
      <3>4. \A i \in 1..Len(mainQueue') : i > Len(mainQueue) => mainQueue'[i] \in {b1, b2}
        BY <3>3
      <3>5. Names(mainQueue', cmp)
        BY <1>0, <3>1, <3>3, <3>4
      <3> QED
        BY <1>0, <3>2, <3>5 DEF BestInv
    <2>4. CASE ReleaseWithoutRecorder
      BY <1>c, <2>0, <2>4 DEF ReleaseWithoutRecorder, Release, StatusText
    <2>5. CASE StopRecording
      <3>1. recorder \in Slot
        BY <2>5 DEF StopRecording, IInv, TypeOK
      <3>2. \A t \in Slot : phase'[t] \in Posting => phase[t] \in Posting
        BY <1>0, <2>5, <3>1 DEF StopRecording, Posting
      <3> QED
        BY <1>c, <2>0, <2>5, <3>1, <3>2 DEF StopRecording, Release, StatusText
    <2>6. CASE CancelTouch
      BY <1>b, <2>6 DEF CancelTouch
    <2> QED
      BY <1>2, <2>1, <2>2, <2>3, <2>4, <2>5, <2>6 DEF User
  <1>3. ASSUME NEW a \in Agent, Computes(a) PROVE BestInv'
    BY <1>3, <1>a, <1>b
       DEF Computes, ExtractFile, TimesAbort, SizeMatrix, FillMatrix, MatrixAborts
  <1>4. ASSUME NEW s \in Slot, Worker(s) PROVE BestInv'
    <2>1. CASE Preprocess(s)
      <3>1. Best([NotCompared EXCEPT !.source = Read(s)])
        BY NotComparedBest DEF Best, NotCompared
      <3> QED
        BY <1>0, <1>d, <2>1, <3>1 DEF Preprocess, Posting
    <2>12. CASE StoreInfo(s)
      BY <1>0, <1>d, <2>12 DEF StoreInfo, Posting
    <2>2. CASE ExtractFeatures(s)
      <3>1. ASSUME NEW n \in UserLen
            PROVE  Best([NotCompared EXCEPT !.frames = n, !.source = Read(s)])
        BY NotComparedBest DEF Best, NotCompared
      <3> QED
        BY <1>0, <1>d, <2>2, <3>1 DEF ExtractFeatures, Posting
    <2>3. CASE ReadFails(s)
      BY <2>3, <1>a DEF ReadFails
    <2>4. CASE ScoreEmpty(s)
      <3>1. Best(cmp'[s]) /\ \A t \in Slot \ {s} : cmp'[t] = cmp[t]
        BY <1>0, <2>4, ReturnedBest, FilesCounted DEF ScoreEmpty
      <3> QED
        BY <1>d, <2>4, <3>1 DEF ScoreEmpty, Posting
    <2>5. CASE BeginScoring(s)
      BY <2>5, <1>b DEF BeginScoring
    <2>6. CASE ScoreFile(s)
      <3>1. work[s] # Idle /\ work[s].file = cmp[s].next /\ phase[s] = "comparing"
        BY <2>6 DEF ScoreFile, IInv, WorkerInv, Idle
      <3>2. work[s] \in Works
        BY <1>0 DEF TypeOK, Agent
      <3>3. cmp[s].next < NumFiles
        BY <3>1, <3>2, FilesCounted DEF Works, File
      <3>4. Best(cmp'[s]) /\ \A t \in Slot \ {s} : cmp'[t] = cmp[t]
        BY <1>0, <2>6, <3>3, ReturnedBest, FilesCounted DEF ScoreFile
      <3> QED
        BY <1>d, <2>6, <3>1, <3>4 DEF ScoreFile, Posting
    <2>7. ASSUME NEW b \in Blocks, b.slot = s, b.file = cmp[s].index, mainQueue' = Append(mainQueue, b),
                 UNCHANGED cmp, cmp[s].next = NumFiles, \A t \in Slot \ {s} : phase'[t] = phase[t]
          PROVE  BestInv'
      <3>1. /\ Len(mainQueue') = Len(mainQueue) + 1 /\ Len(mainQueue) \in Nat
            /\ \A i \in 1..Len(mainQueue)+1 :
                 mainQueue'[i] = IF i = Len(mainQueue) + 1 THEN b ELSE mainQueue[i]
        BY <1>0, <2>7
      <3>2. Names(mainQueue', cmp)
        BY <1>0, <2>7, <3>1
      <3> QED
        BY <1>0, <2>7, <3>2 DEF BestInv
    <2>8. cmp[s].index \in File
      BY <1>0 DEF Comparisons
    <2>9. CASE PostDraw(s)
      <3> DEFINE b == Block("draw", s, cmp[s].index)
      <3>1. b \in Blocks /\ b.slot = s /\ b.file = cmp[s].index
        BY <2>8, BlockTyped DEF Block
      <3> QED
        BY <1>0, <2>7, <2>9, <3>1 DEF PostDraw, Post
    <2>10. CASE PostResult(s)
      <3> DEFINE b == Block("result", s, cmp[s].index)
      <3>1. b \in Blocks /\ b.slot = s /\ b.file = cmp[s].index
        BY <2>8, BlockTyped DEF Block
      <3>2. cmp[s].next = NumFiles
        BY <1>0, <2>10 DEF PostResult, Post, Posting
      <3> QED
        BY <1>0, <2>7, <2>10, <3>1, <3>2 DEF PostResult, Post
    <2>11. CASE PostFinished(s)
      <3>1. Status("Finished", s) \in Blocks /\ Status("Finished", s).what = "Finished"
        BY BlankTyped DEF Status, Block
      <3>2. phase[s] = "resultPosted" /\ phase' = [phase EXCEPT ![s] = "posted"]
        BY <2>11 DEF PostFinished, Post
      <3>3. \A t \in Slot : phase'[t] \in Posting => phase[t] \in Posting
        BY <1>0, <3>2 DEF Posting
      <3> QED
        BY <1>c, <2>11, <3>1, <3>3 DEF PostFinished, Post
    <2> QED
      BY <1>3, <1>4, <2>1, <2>2, <2>3, <2>4, <2>5, <2>6, <2>9, <2>10, <2>11, <2>12 DEF Worker, Computes, Agent
  <1>5. CASE MainThread
    <2>0. ASSUME mainQueue # <<>> PROVE Names(Tail(mainQueue), cmp)
      <3>1. /\ Len(Tail(mainQueue)) = Len(mainQueue) - 1 /\ Len(mainQueue) \in Nat
            /\ \A i \in 1..Len(mainQueue)-1 : Tail(mainQueue)[i] = mainQueue[i+1]
        BY <1>0, <2>0
      <3> QED
        BY <1>0, <3>1
    <2>1. CASE RunStatus
      <3>1. \A t \in Slot : phase'[t] \in Posting => phase[t] \in Posting
        BY <2>1, RunStatusFrees DEF IInv, Posting
      <3> QED
        BY <1>0, <2>0, <2>1, <3>1 DEF RunStatus, RunBlock, BestInv
    <2>2. CASE RunResult
      BY <1>0, <2>0, <2>2 DEF RunResult, RunBlock, BestInv
    <2>3. CASE RunDraw
      BY <1>0, <2>0, <2>3 DEF RunDraw, RunBlock, BestInv
    <2>4. CASE DrawAborts
      BY <2>4, <1>a DEF DrawAborts
    <2>5. CASE FinishDraw
      BY <2>5, <1>b DEF FinishDraw
    <2> QED
      BY <1>3, <1>5, <2>1, <2>2, <2>3, <2>4, <2>5 DEF MainThread, Computes, Agent
  <1> QED
    BY <1>1, <1>2, <1>4, <1>5 DEF Next, Running

-----------------------------------------------------------------------------
\* The inductive invariant holds at the start,
LEMMA InitInv == Init => IInv
  <1> SUFFICES ASSUME Init PROVE IInv
    OBVIOUS
  <1>1. OneWriter
    BY DEF Init, OneWriter, NoRecording
  <1>2. RoundInv
    BY DEF Init, RoundInv, Ordered, Phased, Idle, Agent
  <1>3. BestInv
    BY NotComparedBest DEF Init, BestInv, Posting
  <1> QED
    BY <1>1, <1>2, <1>3, InitTyped, InitWorker DEF IInv

\* every step keeps it,
LEMMA NextInv == IInv /\ [Next]_vars => IInv'
  BY NextTyped, NextWorker, NextOneWriter, NextRound, NextBest DEF IInv

\* and so it always holds.
LEMMA Invariance == Spec => []IInv
  BY InitInv, NextInv, PTL DEF Spec

\* Every reachable state has the types TypeOK gives: the indices of the loop
\* over the files stay inside the list, and each computation names its round.
THEOREM TypeCorrect == Spec => []TypeOK
  <1>1. IInv => TypeOK
    BY DEF IInv
  <1> QED
    BY <1>1, Invariance, PTL

\* r.wav is open for writing exactly while its owner is the recorder of the
\* screen, however the touches and the comparisons interleave.
THEOREM WriterIsUnique == Spec => []OneWriter
  <1>1. IInv => OneWriter
    BY DEF IInv
  <1> QED
    BY <1>1, Invariance, PTL

\* The blocks of each round run in the order _comparePath posts them, and
\* none is left when its slot is free, whatever other rounds post between.
THEOREM RoundsInOrder == Spec => []RoundOrder
  <1>1. IInv => RoundOrder
    BY DEF IInv, RoundInv, Ordered, Phased, RoundOrder
  <1> QED
    BY <1>1, Invariance, PTL

\* What a comparison posts names the first best of all the scores it got, for
\* any number of sounds and any scores.
THEOREM ResultCorrect == Spec => []ResultIsFirstBest
  <1>1. ASSUME IInv, NEW i \in 1..Len(mainQueue), mainQueue[i].what \in {"draw", "result"}
        PROVE  LET c == cmp[mainQueue[i].slot]
               IN  c.next = NumFiles /\ FirstBest(c.returned, mainQueue[i].file)
    <2> DEFINE s == mainQueue[i].slot
               c == cmp[s]
    <2>1. mainQueue[i] \in Blocks
      BY <1>1 DEF IInv, TypeOK
    <2>2. s \in Slot
      BY <1>1, <2>1 DEF Blocks, StatusText
    <2>3. Best(c) /\ c.next = NumFiles /\ mainQueue[i].file = c.index
      BY <1>1, <2>2 DEF IInv, BestInv, RoundInv, Phased, RoundBlocks
    <2>4. c.score \in 0..MaxScore /\ c.index \in File
      BY <1>1, <2>2 DEF IInv, TypeOK, Comparisons
    <2> HIDE DEF c
    <2>5. FirstBest(c.returned, c.index)
      BY <2>3, <2>4, FilesCounted DEF Best, FirstBest
    <2> QED
      BY <2>3, <2>5 DEF c
  <1>2. IInv => ResultIsFirstBest
    BY <1>1 DEF ResultIsFirstBest
  <1> QED
    BY <1>2, Invariance, PTL
=============================================================================
