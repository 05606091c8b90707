--------------------------- MODULE PatientProofs ---------------------------
(* What a user who waits for "Finished" may rely on, proved for every       *)
(* instance of ViewController with Patient = TRUE.  The argument: then at   *)
(* most one round is outstanding (SoleRound), so at most one thread is ever *)
(* inside the matrices, and no recording starts while one is compared.      *)
EXTENDS ViewControllerProofs

\* At most one slot is in use.
SoleRound == \A s, t \in Slot : phase[s] # "free" /\ phase[t] # "free" => s = t

\* r.wav keeps the recording of a comparison that has still to read it, and the
\* times stored for it stay until it has.
OwnFile ==
  \A s \in Slot :
    /\ phase[s] \in {"queued", "preprocessed", "stored"} => wav.owner = s /\ wav.closed
    /\ phase[s] = "stored" => userInfo = s

\* The times a thread has stored for a sound stay until it reads them back.
OwnCut ==
  /\ OwnTimes
  /\ \A a \in Agent : work[a].pc = "extract" => fileInfo = work[a].file

\* What the steps do to the rounds of a patient user.
PInv == IInv /\ SoleRound /\ OwnFile /\ OwnRecording /\ OwnMatrix /\ OwnCut

\* A patient user starts a recording only when no slot is in use.
LEMMA PressFindsAllFree ==
  ASSUME Patient, IInv, Press, recorder = NoSlot
  PROVE  \A s \in Slot : phase[s] = "free"
  <1> SUFFICES ASSUME NEW s \in Slot PROVE phase[s] = "free"
    OBVIOUS
  <1>1. ~Outstanding(s)
    BY DEF Press
  <1>2. phase[s] # "recording"
    BY SlotAssumption DEF IInv, OneWriter
  <1> QED
    BY <1>1, <1>2 DEF Outstanding

\* What an abort leaves is what the app starts from.
LEMMA AbortPatient ==
  Abort => SoleRound' /\ OwnFile' /\ OwnRecording' /\ OwnMatrix' /\ OwnCut'
  BY DEF Abort, SoleRound, OwnFile, OwnRecording, OwnMatrix, OwnCut, OwnTimes, Idle, Posting

\* Two threads inside the matrices work for two rounds, or for one round that
\* would be both comparing and posting.
LEMMA SoleThread ==
  ASSUME IInv, SoleRound
  PROVE  MatrixExclusive
  <1> SUFFICES ASSUME NEW a \in Agent, NEW b \in Agent, work[a].pc # "idle", work[b].pc # "idle"
               PROVE  a = b
    BY DEF MatrixExclusive
  <1>1. ASSUME NEW s \in Slot, work[s].pc # "idle"
        PROVE  phase[s] = "comparing"
    BY <1>1 DEF IInv, WorkerInv
  <1>2. ASSUME work[Main].pc # "idle"
        PROVE  work[Main].slot \in Slot /\ phase[work[Main].slot] \in Posting
    <2>1. work[Main] \in Works /\ work[Main] # Idle
      BY <1>2 DEF IInv, TypeOK, Agent, Idle
    <2> QED
      BY <1>2, <2>1 DEF Works, IInv, RoundInv
  <1>3. a \in Slot /\ b \in Slot => a = b
    BY <1>1 DEF SoleRound
  <1>4. ~(work[Main].pc # "idle" /\ \E s \in Slot : work[s].pc # "idle")
    BY <1>1, <1>2 DEF SoleRound, Posting
  <1> QED
    BY <1>3, <1>4 DEF Agent

\* The types, and what one round at most means for the queue and the main thread.
LEMMA OneRound ==
  ASSUME PInv
  PROVE  /\ phase \in [Slot -> Phases] /\ mainQueue \in Seq(Blocks) /\ cmp \in [Slot -> Comparisons]
         /\ work \in [Agent -> Works] /\ Main \in Agent /\ Main \notin Slot
         /\ \A i \in 1..Len(mainQueue) : mainQueue[i].what \in RoundBlocks =>
              mainQueue[i].slot \in Slot /\ phase[mainQueue[i].slot] \in Posting
         /\ work[Main].pc # "idle" => work[Main].slot \in Slot /\ phase[work[Main].slot] \in Posting
         /\ \A s, t \in Slot : phase[s] # "free" /\ phase[t] # "free" => s = t
  <1>1. /\ phase \in [Slot -> Phases] /\ mainQueue \in Seq(Blocks) /\ cmp \in [Slot -> Comparisons]
        /\ work \in [Agent -> Works] /\ Main \in Agent /\ Main \notin Slot
        /\ Phased(mainQueue, phase) /\ (work[Main].pc # "idle" => phase[work[Main].slot] \in Posting)
        /\ SoleRound
    BY SlotAssumption DEF PInv, IInv, TypeOK, RoundInv, Agent
  <1>2. \A i \in 1..Len(mainQueue) : mainQueue[i].what \in RoundBlocks => mainQueue[i].slot \in Slot
    <2>1. \A b \in Blocks : b.what \in RoundBlocks => b.slot \in Slot
      BY DEF Blocks, RoundBlocks, StatusText
    <2> QED
      BY <1>1, <2>1
  <1>3. work[Main].pc # "idle" => work[Main].slot \in Slot
    BY <1>1 DEF Works, Idle
  <1> QED
    BY <1>1, <1>2, <1>3 DEF Phased, SoleRound

\* A thread about to begin a computation finds every other outside the matrices.
LEMMA FoundIdle ==
  ASSUME NEW a \in Agent, NEW s \in Slot, PInv, work[a].pc = "idle",
         (a = s /\ phase[s] = "comparing") \/ (a = Main /\ phase[s] \in Posting)
  PROVE  \A b \in Agent : work[b].pc = "idle"
  <1>1. \A t \in Slot : work[t].pc # "idle" => t = s /\ phase[s] = "comparing"
    BY DEF PInv, SoleRound, IInv, WorkerInv, Posting
  <1>2. work[Main].pc # "idle" => phase[s] \in Posting
    BY OneRound DEF Posting
  <1> QED
    BY <1>1, <1>2 DEF Posting, Agent

\* No step of a patient user brings a second slot into use.
LEMMA NextSole ==
  ASSUME Patient, PInv, [Next]_vars
  PROVE  SoleRound'
  <1>0. SoleRound /\ phase \in [Slot -> Phases]
    BY DEF PInv, IInv, TypeOK
  <1>1. ASSUME \A t \in Slot : phase'[t] # "free" => phase[t] # "free"
        PROVE  SoleRound'
    BY <1>0, <1>1 DEF SoleRound
  <1>2. CASE UNCHANGED vars \/ Launch
    BY <1>1, <1>2 DEF vars, Launch
  <1>3. CASE User
    <2>1. ASSUME NEW s \in Slot, StartRecording(s) PROVE SoleRound'
      <3>1. \A t \in Slot : phase[t] = "free"
        BY <2>1, PressFindsAllFree DEF StartRecording, PInv
      <3> QED
        BY <1>0, <2>1, <3>1 DEF StartRecording, SoleRound
    <2>2. CASE StopRecording
      <3>1. recorder \in Slot /\ phase[recorder] = "recording"
        BY <2>2 DEF StopRecording, PInv, IInv, TypeOK, OneWriter
      <3> QED
        BY <1>0, <1>1, <2>2, <3>1 DEF StopRecording
    <2>3. CASE PressWhileRecording \/ StartRecordingFails \/ ReleaseWithoutRecorder \/ CancelTouch
      BY <1>1, <2>3 DEF PressWhileRecording, StartRecordingFails, ReleaseWithoutRecorder, CancelTouch
    <2> QED
      BY <1>3, <2>1, <2>2, <2>3 DEF User
  <1>4. ASSUME NEW a \in Agent, Computes(a) PROVE SoleRound'
    BY <1>1, <1>4, AbortPatient
       DEF Computes, ExtractFile, TimesAbort, SizeMatrix, FillMatrix, MatrixAborts
  <1>5. ASSUME NEW s \in Slot, Worker(s) PROVE SoleRound'
    <2>1. CASE Preprocess(s) \/ StoreInfo(s) \/ ExtractFeatures(s)
      BY <1>0, <1>1, <2>1 DEF Preprocess, StoreInfo, ExtractFeatures
    <2>4. CASE PostDraw(s) \/ PostResult(s) \/ PostFinished(s)
      BY <1>0, <1>1, <2>4 DEF PostDraw, PostResult, PostFinished, Post
    <2>2. CASE ScoreEmpty(s) \/ BeginScoring(s) \/ ScoreFile(s)
      BY <1>1, <2>2 DEF ScoreEmpty, BeginScoring, ScoreFile
    <2>3. CASE ReadFails(s)
      BY <2>3, AbortPatient DEF ReadFails
    <2> QED
      BY <1>4, <1>5, <2>1, <2>2, <2>3, <2>4 DEF Worker, Computes, Agent
  <1>6. CASE MainThread
    <2>1. CASE RunStatus
      BY <1>0, <1>1, <2>1 DEF RunStatus
    <2>2. CASE RunResult \/ RunDraw \/ FinishDraw
      BY <1>1, <2>2 DEF RunResult, RunDraw, FinishDraw
    <2>3. CASE DrawAborts
      BY <2>3, AbortPatient DEF DrawAborts
    <2> QED
      BY <1>4, <1>6, <2>1, <2>2, <2>3 DEF MainThread, Computes, Agent
  <1> QED
    BY <1>2, <1>3, <1>5, <1>6 DEF Next, Running

\* No step of a patient user touches r.wav under a comparison that reads it.
LEMMA NextOwn ==
  ASSUME Patient, PInv, [Next]_vars
  PROVE  OwnFile' /\ OwnRecording'
  <1>0. /\ OwnFile /\ OwnRecording /\ phase \in [Slot -> Phases] /\ cmp \in [Slot -> Comparisons]
        /\ wav \in Recordings
    BY DEF PInv, IInv, TypeOK
  <1> DEFINE Extracted == {"comparing"} \cup Posting
  <1>1. ASSUME UNCHANGED <<phase, wav, cmp, userInfo>> PROVE OwnFile' /\ OwnRecording'
    BY <1>0, <1>1 DEF OwnFile, OwnRecording
  <1>2. CASE UNCHANGED vars \/ Launch
    BY <1>1, <1>2 DEF vars, Launch
  <1>3. CASE User
    <2>1. ASSUME NEW s \in Slot, StartRecording(s) PROVE OwnFile' /\ OwnRecording'
      <3>1. \A t \in Slot : phase[t] = "free"
        BY <2>1, PressFindsAllFree DEF StartRecording, PInv
      <3> QED
        BY <1>0, <2>1, <3>1 DEF StartRecording, OwnFile, OwnRecording, Posting
    <2>2. CASE StartRecordingFails
      <3>1. \A t \in Slot : phase[t] = "free"
        BY <2>2, PressFindsAllFree DEF StartRecordingFails, PInv
      <3> QED
        BY <1>0, <2>2, <3>1 DEF StartRecordingFails, OwnFile, OwnRecording, Posting
    <2>3. CASE StopRecording
      <3>1. recorder \in Slot /\ phase[recorder] = "recording" /\ wav.owner = recorder
        BY <2>3 DEF StopRecording, PInv, IInv, TypeOK, OneWriter
      <3>2. wav'.owner = recorder /\ wav'.closed
        BY <1>0, <2>3, <3>1 DEF StopRecording, Recordings
      <3>3. \A t \in Slot : phase[t] # "free" => t = recorder
        BY <3>1 DEF PInv, SoleRound
      <3>4. /\ \A t \in Slot : t # recorder => phase'[t] = "free"
            /\ phase'[recorder] = "queued" /\ cmp' = cmp
        BY <1>0, <2>3, <3>1, <3>3 DEF StopRecording
      <3> QED
        BY <3>2, <3>4 DEF OwnFile, OwnRecording, Posting
    <2>4. CASE PressWhileRecording \/ ReleaseWithoutRecorder \/ CancelTouch
      BY <1>1, <2>4 DEF PressWhileRecording, ReleaseWithoutRecorder, CancelTouch
    <2> QED
      BY <1>3, <2>1, <2>2, <2>3, <2>4 DEF User
  <1>4. ASSUME NEW a \in Agent, Computes(a) PROVE OwnFile' /\ OwnRecording'
    BY <1>1, <1>4, AbortPatient
       DEF Computes, ExtractFile, TimesAbort, SizeMatrix, FillMatrix, MatrixAborts
  <1>5. ASSUME NEW s \in Slot, Worker(s) PROVE OwnFile' /\ OwnRecording'
    <2>a. phase[s] \in {"queued", "stored"} => Read(s) = s
      BY <1>0, SlotAssumption DEF OwnFile, Disturbed, Read
    <2>b. ASSUME NEW to \in Extracted, phase[s] \in Extracted, phase' = [phase EXCEPT ![s] = to],
                 UNCHANGED <<cmp, wav, userInfo>>
          PROVE  OwnFile' /\ OwnRecording'
      BY <1>0, <2>b DEF OwnFile, OwnRecording, Posting
    <2>c. ASSUME phase[s] = "comparing", \A t \in Slot : cmp'[t].source = cmp[t].source,
                 UNCHANGED <<phase, wav, userInfo>>
          PROVE  OwnFile' /\ OwnRecording'
      BY <1>0, <2>c DEF OwnFile, OwnRecording
    <2>d. \A t \in Slot \ {s} : phase[s] # "free" => phase[t] = "free"
      BY DEF PInv, SoleRound
    <2>1. CASE Preprocess(s)
      <3>1. cmp'[s].source = s /\ \A t \in Slot \ {s} : cmp'[t] = cmp[t]
        BY <1>0, <2>a, <2>1 DEF Preprocess, NotCompared
      <3> QED
        BY <1>0, <2>1, <3>1 DEF Preprocess, OwnFile, OwnRecording
    <2>2. CASE ExtractFeatures(s)
      <3>1. cmp'[s].source = s
        BY <1>0, <2>a, <2>2 DEF ExtractFeatures, NotCompared
      <3>2. phase[s] = "stored" /\ phase' = [phase EXCEPT ![s] = "comparing"]
        BY <2>2 DEF ExtractFeatures
      <3>3. phase'[s] = "comparing" /\ \A t \in Slot \ {s} : phase'[t] = "free"
        BY <1>0, <2>d, <3>2
      <3> QED
        BY <3>1, <3>3 DEF OwnFile, OwnRecording, Posting
    <2>10. CASE StoreInfo(s)
      <3>1. cmp[s].source = s
        BY <2>10, <1>0 DEF StoreInfo, OwnRecording
      <3>2. phase[s] = "preprocessed" /\ phase' = [phase EXCEPT ![s] = "stored"]
            /\ wav' = wav /\ cmp' = cmp /\ userInfo' = s
        BY <2>10, <3>1 DEF StoreInfo
      <3>3. phase'[s] = "stored" /\ \A t \in Slot \ {s} : phase'[t] = "free"
        BY <1>0, <2>d, <3>2
      <3>4. wav.owner = s /\ wav.closed
        BY <1>0, <3>2 DEF OwnFile
      <3> QED
        BY <3>1, <3>2, <3>3, <3>4 DEF OwnFile, OwnRecording, Posting
    <2>3. CASE PostDraw(s)
      BY <2>b, <2>3 DEF PostDraw, Post, Posting
    <2>4. CASE PostResult(s)
      BY <2>b, <2>4 DEF PostResult, Post, Posting
    <2>5. CASE PostFinished(s)
      BY <2>b, <2>5 DEF PostFinished, Post, Posting
    <2>6. CASE ScoreEmpty(s)
      <3>1. \A t \in Slot : cmp'[t].source = cmp[t].source
        BY <1>0, <2>6 DEF ScoreEmpty, Returned
      <3> QED
        BY <2>c, <2>6, <3>1 DEF ScoreEmpty
    <2>7. CASE ScoreFile(s)
      <3>1. \A t \in Slot : cmp'[t].source = cmp[t].source
        BY <1>0, <2>7 DEF ScoreFile, Returned
      <3>2. phase[s] = "comparing"
        BY <2>7 DEF ScoreFile, PInv, IInv, WorkerInv
      <3> QED
        BY <2>c, <2>7, <3>1, <3>2 DEF ScoreFile
    <2>8. CASE BeginScoring(s)
      BY <1>1, <2>8 DEF BeginScoring
    <2>9. CASE ReadFails(s)
      BY <2>9, AbortPatient DEF ReadFails
    <2> QED
      BY <1>4, <1>5, <2>1, <2>2, <2>3, <2>4, <2>5, <2>6, <2>7, <2>8, <2>9, <2>10
         DEF Worker, Computes, Agent
  <1>6. CASE MainThread
    <2>1. CASE RunStatus
      <3>1. \A t \in Slot : phase'[t] \in {"free", phase[t]}
        BY <2>1 DEF RunStatus
      <3> QED
        BY <1>0, <2>1, <3>1 DEF RunStatus, OwnFile, OwnRecording, Posting
    <2>2. CASE RunResult \/ RunDraw \/ FinishDraw
      BY <1>1, <2>2 DEF RunResult, RunDraw, FinishDraw
    <2>3. CASE DrawAborts
      BY <2>3, AbortPatient DEF DrawAborts
    <2> QED
      BY <1>4, <1>6, <2>1, <2>2, <2>3 DEF MainThread, Computes, Agent
  <1> QED
    BY <1>2, <1>3, <1>5, <1>6 DEF Next, Running

\* The computation a thread is in keeps its size while the thread goes on.
LEMMA NextMatrix ==
  ASSUME PInv, [Next]_vars
  PROVE  OwnMatrix'
  <1>0. /\ OwnMatrix /\ MatrixExclusive /\ work \in [Agent -> Works] /\ similarity \in Matrices
        /\ cmp \in [Slot -> Comparisons] /\ Main \in Agent /\ Slot \subseteq Agent
    BY SoleThread DEF PInv, IInv, TypeOK, Agent
  <1>1. ASSUME \A a \in Agent : work'[a].pc \notin {"fill", "score"} PROVE OwnMatrix'
    BY <1>1 DEF OwnMatrix
  \* A step that keeps the threads inside the matrices, and what they compare.
  <1>2. ASSUME similarity' = similarity,
               \A a \in Agent : work'[a].pc \in {"fill", "score"} =>
                 work'[a] = work[a] /\ cmp'[work[a].slot].frames = cmp[work[a].slot].frames
        PROVE  OwnMatrix'
    <2> SUFFICES ASSUME NEW a \in Agent, work'[a].pc \in {"fill", "score"}
                 PROVE  SizeAsserted(a)' /\ (work'[a].pc = "score" => similarity'.by = By(a)')
      BY DEF OwnMatrix
    <2>1. work'[a] = work[a] /\ cmp'[work[a].slot].frames = cmp[work[a].slot].frames
      BY <1>2
    <2>2. Rows(a)' = Rows(a) /\ Cols(a)' = Cols(a) /\ By(a)' = By(a)
      BY <2>1 DEF Rows, TargetLength, Cols, By
    <2>3. /\ work[a].pc = "fill" => SizeAsserted(a)
          /\ work[a].pc = "score" => SizeAsserted(a) /\ similarity.by = By(a)
      BY <1>0 DEF OwnMatrix
    <2> QED
      BY <1>2, <2>1, <2>2, <2>3 DEF SizeAsserted
  <1>3. ASSUME UNCHANGED <<work, similarity, cmp>> PROVE OwnMatrix'
    BY <1>2, <1>3
  \* A thread inside the matrices is the only one.
  <1>4. ASSUME NEW a \in Agent, work[a].pc # "idle"
        PROVE  \A b \in Agent \ {a} : work[b].pc = "idle"
    BY <1>0, <1>4 DEF MatrixExclusive
  <1>a. CASE Abort
    BY <1>a, AbortPatient
  <1>5. CASE UNCHANGED vars \/ Launch
    BY <1>3, <1>5 DEF vars, Launch
  <1>6. CASE User
    BY <1>3, <1>6 DEF User, PressWhileRecording, StartRecording, StartRecordingFails,
                      ReleaseWithoutRecorder, StopRecording, CancelTouch
  <1>7. ASSUME NEW a \in Agent, SizeMatrix(a) PROVE OwnMatrix'
    <2>1. /\ similarity'.rows = Rows(a) /\ similarity'.cols = Cols(a)
          /\ work' = [work EXCEPT ![a].pc = "fill"] /\ cmp' = cmp
      BY <1>0, <1>7 DEF SizeMatrix, Matrices
    <2>2. \A b \in Agent \ {a} : work'[b].pc = "idle"
      BY <1>0, <1>4, <1>7, <2>1 DEF SizeMatrix
    <2>3. /\ work'[a].pc = "fill" /\ work'[a].slot = work[a].slot /\ work'[a].file = work[a].file
          /\ work'[a].cut = work[a].cut
      BY <1>0, <1>7, <2>1 DEF SizeMatrix, Works, Idle
    <2>4. Rows(a)' = Rows(a) /\ Cols(a)' = Cols(a)
      BY <2>1, <2>3 DEF Rows, TargetLength, Cols
    <2> QED
      BY <2>1, <2>2, <2>3, <2>4 DEF OwnMatrix, SizeAsserted
  <1>8. ASSUME NEW a \in Agent, FillMatrix(a) PROVE OwnMatrix'
    <2>1. /\ similarity'.rows = similarity.rows /\ similarity'.cols = similarity.cols
          /\ similarity'.by = By(a) /\ work' = [work EXCEPT ![a].pc = "score"] /\ cmp' = cmp
          /\ SizeAsserted(a)
      BY <1>0, <1>8 DEF FillMatrix, Matrices
    <2>2. \A b \in Agent \ {a} : work'[b].pc = "idle"
      BY <1>0, <1>4, <1>8, <2>1 DEF FillMatrix
    <2>3. /\ work'[a].pc = "score" /\ work'[a].slot = work[a].slot /\ work'[a].file = work[a].file
          /\ work'[a].cut = work[a].cut
      BY <1>0, <1>8, <2>1 DEF FillMatrix, Works, Idle
    <2>4. Rows(a)' = Rows(a) /\ Cols(a)' = Cols(a) /\ By(a)' = By(a)
      BY <2>1, <2>3 DEF Rows, TargetLength, Cols, By
    <2> QED
      BY <2>1, <2>2, <2>3, <2>4 DEF OwnMatrix, SizeAsserted
  <1>9. ASSUME NEW a \in Agent, MatrixAborts(a) \/ TimesAbort(a) PROVE OwnMatrix'
    BY <1>9, <1>a DEF MatrixAborts, TimesAbort
  \* The features of a sound are extracted before its matrix is sized.
  <1>10. ASSUME NEW a \in Agent, ExtractFile(a) PROVE OwnMatrix'
    <2>1. /\ work[a].pc = "extract"
          /\ work' = [work EXCEPT ![a] =
               [pc |-> "size", slot |-> work[a].slot, file |-> work[a].file, cut |-> fileInfo]]
      BY <1>0, <1>10 DEF ExtractFile
    <2>2. work'[a].pc = "size" /\ \A b \in Agent \ {a} : work'[b].pc = "idle"
      BY <1>0, <1>4, <2>1
    <2> QED
      BY <1>1, <2>2
  \* Reading the features of a round disturbs no computation.
  <1>11. ASSUME NEW s \in Slot, phase[s] \in {"queued", "preprocessed", "stored"}, NEW a \in Agent,
                work[a].pc # "idle"
         PROVE  work[a].slot # s
    BY <1>0, <1>11 DEF PInv, IInv, WorkerInv, RoundInv, Posting, Agent
  <1>12. ASSUME NEW s \in Slot, Worker(s) PROVE OwnMatrix'
    <2>1. CASE Preprocess(s) \/ ExtractFeatures(s)
      <3>1. /\ \A t \in Slot : t # s => cmp'[t] = cmp[t]
            /\ work' = work /\ similarity' = similarity /\ phase[s] \in {"queued", "stored"}
        BY <1>0, <2>1 DEF Preprocess, ExtractFeatures
      <3>2. \A a \in Agent : work[a].pc # "idle" => work[a].slot # s /\ work[a].slot \in Slot
        BY <1>0, <1>11, <3>1 DEF Works, Idle
      <3> QED
        BY <1>2, <3>1, <3>2
    <2>2. CASE ScoreEmpty(s)
      <3>1. work' = work /\ work[s].pc = "idle" /\ phase[s] = "comparing"
        BY <2>2 DEF ScoreEmpty
      <3>2. \A a \in Agent : work[a].pc = "idle"
        BY <1>0, <3>1, FoundIdle
      <3> QED
        BY <1>1, <3>1, <3>2
    <2>3. CASE BeginScoring(s)
      <3>1. /\ work' = [work EXCEPT ![s] = ReadTimes(s, cmp[s].next)]
            /\ work[s].pc = "idle" /\ phase[s] = "comparing"
        BY <2>3 DEF BeginScoring
      <3>2. \A a \in Agent : work[a].pc = "idle"
        BY <1>0, <3>1, FoundIdle
      <3>3. \A a \in Agent : work'[a].pc \in {"idle", "extract"}
        BY <1>0, <3>1, <3>2 DEF ReadTimes
      <3> QED
        BY <1>1, <3>3
    <2>4. CASE ScoreFile(s)
      <3>1. work' = [work EXCEPT ![s] = Idle] /\ work[s].pc = "score"
        BY <2>4 DEF ScoreFile
      <3>2. \A a \in Agent : work'[a].pc = "idle"
        BY <1>0, <1>4, <3>1 DEF Idle
      <3> QED
        BY <1>1, <3>2
    <2>5. CASE StoreInfo(s) \/ PostDraw(s) \/ PostResult(s) \/ PostFinished(s)
      BY <1>3, <2>5 DEF StoreInfo, PostDraw, PostResult, PostFinished, Post
    <2>6. CASE ReadFails(s)
      BY <2>6, <1>a DEF ReadFails
    <2> QED
      BY <1>0, <1>7, <1>8, <1>9, <1>10, <1>12, <2>1, <2>2, <2>3, <2>4, <2>5, <2>6 DEF Worker
  <1>13. CASE MainThread
    <2>1. CASE RunStatus \/ RunResult
      BY <1>3, <2>1 DEF RunStatus, RunResult
    <2>2. CASE RunDraw
      <3>1. /\ work' = [work EXCEPT ![Main] = ReadTimes(Head(mainQueue).slot, Head(mainQueue).file)]
            /\ similarity' = similarity /\ cmp' = cmp
        BY <2>2 DEF RunDraw
      <3>2. work'[Main].pc = "extract" /\ \A a \in Agent : a # Main => work'[a] = work[a]
        BY <1>0, <3>1 DEF ReadTimes
      <3> QED
        BY <1>2, <3>1, <3>2
    <2>3. CASE FinishDraw
      <3>1. work'[Main].pc = "idle" /\ \A a \in Agent : a # Main => work'[a] = work[a]
        BY <1>0, <2>3 DEF FinishDraw, Idle
      <3> QED
        BY <1>2, <2>3, <3>1 DEF FinishDraw
    <2>4. CASE DrawAborts
      BY <2>4, <1>a DEF DrawAborts
    <2> QED
      BY <1>0, <1>7, <1>8, <1>9, <1>10, <1>13, <2>1, <2>2, <2>3, <2>4 DEF MainThread
  <1> QED
    BY <1>5, <1>6, <1>12, <1>13 DEF Next, Running

\* A thread that has stored the times of a sound reads back those.
LEMMA NextTimes ==
  ASSUME PInv, [Next]_vars
  PROVE  OwnCut'
  <1>0. /\ OwnCut /\ MatrixExclusive /\ work \in [Agent -> Works]
        /\ Main \in Agent /\ Slot \subseteq Agent /\ mainQueue \in Seq(Blocks)
    BY SoleThread DEF PInv, IInv, TypeOK, Agent
  <1>1. ASSUME UNCHANGED <<work, fileInfo>> PROVE OwnCut'
    BY <1>0, <1>1 DEF OwnCut, OwnTimes
  <1>2. ASSUME NEW a \in Agent, work[a].pc # "extract", work'[a].pc # "extract",
               work'[a].cut = work[a].cut, work'[a].file = work[a].file,
               \A b \in Agent \ {a} : work'[b] = work[b], fileInfo' = fileInfo
        PROVE  OwnCut'
    BY <1>0, <1>2 DEF OwnCut, OwnTimes
  <1>3. ASSUME NEW a \in Agent, work[a].pc # "extract",
               work' = [work EXCEPT ![a] = Idle], fileInfo' = fileInfo
        PROVE  OwnCut'
    BY <1>0, <1>3 DEF OwnCut, OwnTimes, Idle
  \* A thread about to read the times of a sound finds no other about to.
  <1>4. ASSUME NEW a \in Agent, NEW s, NEW f, \A b \in Agent : work[b].pc = "idle",
               work' = [work EXCEPT ![a] = ReadTimes(s, f)], fileInfo' = f
        PROVE  OwnCut'
    <2>1. work'[a].pc = "extract" /\ work'[a].file = f
      BY <1>0, <1>4 DEF ReadTimes
    <2>2. \A b \in Agent \ {a} : work'[b] = work[b] /\ work[b].pc = "idle"
      BY <1>0, <1>4
    <2> QED
      BY <1>0, <1>4, <2>1, <2>2 DEF OwnCut, OwnTimes
  <1>a. CASE Abort
    BY <1>a, AbortPatient
  <1>5. CASE UNCHANGED vars \/ Launch
    BY <1>1, <1>5 DEF vars, Launch
  <1>6. CASE User
    BY <1>1, <1>6 DEF User, PressWhileRecording, StartRecording, StartRecordingFails,
                      ReleaseWithoutRecorder, StopRecording, CancelTouch
  <1>7. ASSUME NEW a \in Agent, Computes(a) PROVE OwnCut'
    <2>1. CASE ExtractFile(a)
      <3>1. /\ work[a].pc = "extract" /\ fileInfo = work[a].file
            /\ work' = [work EXCEPT ![a] =
                 [pc |-> "size", slot |-> work[a].slot, file |-> work[a].file, cut |-> fileInfo]]
        BY <1>0, <2>1 DEF ExtractFile, OwnCut
      <3>2. /\ work'[a].pc = "size" /\ work'[a].cut = work'[a].file
            /\ \A b \in Agent \ {a} : work'[b] = work[b]
        BY <1>0, <3>1
      <3>3. \A b \in Agent \ {a} : work[b].pc = "idle"
        BY <1>0, <3>1 DEF MatrixExclusive
      <3> QED
        BY <1>0, <3>2, <3>3 DEF OwnCut, OwnTimes
    <2>2. CASE SizeMatrix(a)
      BY <1>0, <1>2, <2>2 DEF SizeMatrix, Works, Idle
    <2>3. CASE FillMatrix(a)
      BY <1>0, <1>2, <2>3 DEF FillMatrix, Works, Idle
    <2>4. CASE MatrixAborts(a) \/ TimesAbort(a)
      BY <1>a, <2>4 DEF MatrixAborts, TimesAbort
    <2> QED
      BY <1>7, <2>1, <2>2, <2>3, <2>4 DEF Computes
  <1>8. ASSUME NEW s \in Slot, Worker(s) PROVE OwnCut'
    <2>1. CASE Preprocess(s) \/ StoreInfo(s) \/ ExtractFeatures(s) \/ ScoreEmpty(s)
      BY <1>1, <2>1 DEF Preprocess, StoreInfo, ExtractFeatures, ScoreEmpty
    <2>2. CASE BeginScoring(s)
      <3>1. /\ work' = [work EXCEPT ![s] = ReadTimes(s, cmp[s].next)] /\ fileInfo' = cmp[s].next
            /\ work[s].pc = "idle" /\ phase[s] = "comparing"
        BY <2>2 DEF BeginScoring
      <3>2. \A a \in Agent : work[a].pc = "idle"
        BY <1>0, <3>1, FoundIdle
      <3> QED
        BY <1>0, <1>4, <3>1, <3>2
    <2>3. CASE ScoreFile(s)
      BY <1>0, <1>3, <2>3 DEF ScoreFile
    <2>4. CASE PostDraw(s) \/ PostResult(s) \/ PostFinished(s)
      BY <1>1, <2>4 DEF PostDraw, PostResult, PostFinished, Post
    <2>5. CASE ReadFails(s)
      BY <1>a, <2>5 DEF ReadFails
    <2> QED
      BY <1>0, <1>7, <1>8, <2>1, <2>2, <2>3, <2>4, <2>5 DEF Worker, Computes
  <1>9. CASE MainThread
    <2>1. CASE RunStatus \/ RunResult
      BY <1>1, <2>1 DEF RunStatus, RunResult
    <2>2. CASE RunDraw
      <3>1. /\ work[Main].pc = "idle" /\ mainQueue # <<>> /\ Head(mainQueue).what = "draw"
            /\ work' = [work EXCEPT ![Main] = ReadTimes(Head(mainQueue).slot, Head(mainQueue).file)]
            /\ fileInfo' = Head(mainQueue).file
        BY <2>2 DEF RunDraw, RunBlock
      <3>2. Head(mainQueue) = mainQueue[1] /\ 1 \in 1..Len(mainQueue)
        BY <1>0, <3>1
      <3>3. Head(mainQueue).slot \in Slot /\ phase[Head(mainQueue).slot] \in Posting
        BY <3>1, <3>2, OneRound DEF RoundBlocks
      <3>4. \A a \in Agent : work[a].pc = "idle"
        BY <1>0, <3>1, <3>3, FoundIdle
      <3> QED
        BY <1>0, <1>4, <3>1, <3>4
    <2>3. CASE FinishDraw
      BY <1>0, <1>3, <2>3 DEF FinishDraw
    <2>4. CASE DrawAborts
      BY <1>a, <2>4 DEF DrawAborts
    <2> QED
      BY <1>0, <1>7, <1>9, <2>1, <2>2, <2>3, <2>4 DEF MainThread, Computes
  <1> QED
    BY <1>5, <1>6, <1>8, <1>9 DEF Next, Running

-----------------------------------------------------------------------------
\* The strengthened invariant holds at the start,
LEMMA InitPatient == Init => PInv
  <1> SUFFICES ASSUME Init PROVE PInv
    OBVIOUS
  <1>1. SoleRound /\ OwnFile /\ OwnRecording /\ OwnMatrix /\ OwnCut
    BY DEF Init, SoleRound, OwnFile, OwnRecording, OwnMatrix, OwnCut, OwnTimes, Idle, Posting
  <1> QED
    BY <1>1, InitInv DEF PInv

\* every step of a patient user keeps it,
LEMMA NextPatient == Patient /\ PInv /\ [Next]_vars => PInv'
  BY NextInv, NextSole, NextOwn, NextMatrix, NextTimes DEF PInv

\* and so it always holds for such a user.
LEMMA PatientInvariance == ASSUME Patient PROVE Spec => []PInv
  <1>1. PInv /\ [Next]_vars => PInv'
    BY NextPatient
  <1> QED
    BY <1>1, InitPatient, PTL DEF Spec

\* With a user who waits for "Finished", no two threads are ever inside
\* similarityMatrix and nearLineMatrix at once, though nothing locks them.
THEOREM PatientExclusive == ASSUME Patient PROVE Spec => []MatrixExclusive
  <1>1. PInv => MatrixExclusive
    BY SoleThread DEF PInv
  <1> QED
    BY <1>1, PatientInvariance, PTL

\* With such a user genSimilarityMatrix's size assertions hold, and each score
\* is read off the matrix its own computation filled.
THEOREM PatientMatrix == ASSUME Patient PROVE Spec => []OwnMatrix
  <1>1. PInv => OwnMatrix
    BY DEF PInv
  <1> QED
    BY <1>1, PatientInvariance, PTL

\* With such a user a comparison scores the features of its own recording,
\* though every recording is written to the same r.wav.
THEOREM PatientRecording == ASSUME Patient PROVE Spec => []OwnRecording
  <1>1. PInv => OwnRecording
    BY DEF PInv
  <1> QED
    BY <1>1, PatientInvariance, PTL

\* With such a user the features of a sound are cut by its own times, though every
\* thread stores the times it found in the same _databaseVoiceFileInfo.
THEOREM PatientTimes == ASSUME Patient PROVE Spec => []OwnTimes
  <1>1. PInv => OwnTimes
    BY DEF PInv, OwnCut
  <1> QED
    BY <1>1, PatientInvariance, PTL
-----------------------------------------------------------------------------
(* What the labels and the views show: that "Calculating..." is true for    *)
(* any user, and that the parts of the screen agree for one who waits.      *)

\* A block that shows the "Calculating..." of a round.
Calculates(block, s) == block.what = "Calculating" /\ block.slot = s

Finishes(block, s) == block.what = "Finished" /\ block.slot = s

\* A round is outstanding while its "Calculating..." is queued, and its
\* "Finished" is not queued ahead of it.
CalcQueued ==
  \A i \in 1..Len(mainQueue) : \A s \in Slot :
    Calculates(mainQueue[i], s) =>
      Outstanding(s) /\ \A j \in 1..(i-1) : ~Finishes(mainQueue[j], s)

CalcShown == \A s \in Slot : Calculates(lbStatus, s) => Outstanding(s)

CalcInv == CalcQueued /\ CalcShown

\* A step that lets no outstanding round go, and neither queues nor shows.
LEMMA CalcKept ==
  ASSUME CalcInv, UNCHANGED <<mainQueue, lbStatus>>,
         \A s \in Slot : Outstanding(s) => Outstanding(s)'
  PROVE  CalcInv'
  BY DEF CalcInv, CalcQueued, CalcShown, Calculates, Finishes

\* A block that is posted, while no outstanding round is let go.
LEMMA CalcPosted ==
  ASSUME CalcInv, mainQueue \in Seq(Blocks), NEW b \in Blocks, mainQueue' = Append(mainQueue, b),
         UNCHANGED lbStatus, \A s \in Slot : Outstanding(s) => Outstanding(s)',
         \A s \in Slot : Calculates(b, s) =>
           Outstanding(s)' /\ \A j \in 1..Len(mainQueue) : ~Finishes(mainQueue[j], s)
  PROVE  CalcInv'
  <1>1. /\ Len(mainQueue') = Len(mainQueue) + 1 /\ Len(mainQueue) \in Nat
        /\ \A i \in 1..Len(mainQueue)+1 :
             mainQueue'[i] = IF i = Len(mainQueue) + 1 THEN b ELSE mainQueue[i]
    OBVIOUS
  <1>2. CalcShown'
    BY DEF CalcInv, CalcShown, Calculates
  <1>3. CalcQueued'
    <2> SUFFICES ASSUME NEW i \in 1..Len(mainQueue'), NEW s \in Slot, Calculates(mainQueue'[i], s)
                 PROVE  Outstanding(s)' /\ \A j \in 1..(i-1) : ~Finishes(mainQueue'[j], s)
      BY DEF CalcQueued, Calculates, Finishes
    <2>1. \A j \in 1..(i-1) : j \in 1..Len(mainQueue) /\ mainQueue'[j] = mainQueue[j]
      BY <1>1
    <2>2. CASE i \in 1..Len(mainQueue)
      <3>1. mainQueue'[i] = mainQueue[i]
        BY <1>1, <2>2
      <3>2. Calculates(mainQueue[i], s)
        BY <3>1
      <3>3. Outstanding(s) /\ \A j \in 1..(i-1) : ~Finishes(mainQueue[j], s)
        BY <2>2, <3>2 DEF CalcInv, CalcQueued
      <3> QED
        BY <2>1, <3>3
    <2>3. CASE i = Len(mainQueue) + 1
      <3>1. Calculates(b, s)
        BY <1>1, <2>3
      <3> QED
        BY <2>1, <3>1
    <2> QED
      BY <1>1, <2>2, <2>3
  <1> QED
    BY <1>2, <1>3 DEF CalcInv

\* A block that is run leaves those behind it.
LEMMA CalcTaken ==
  ASSUME CalcInv, mainQueue \in Seq(Blocks), mainQueue # <<>>, mainQueue' = Tail(mainQueue)
  PROVE  /\ \A i \in 1..Len(mainQueue') : \A s \in Slot :
              Calculates(mainQueue'[i], s) =>
                /\ Outstanding(s) /\ ~Finishes(Head(mainQueue), s)
                /\ \A j \in 1..(i-1) : ~Finishes(mainQueue'[j], s)
         /\ \A s \in Slot : Calculates(Head(mainQueue), s) => Outstanding(s)
  <1>1. /\ Len(mainQueue') = Len(mainQueue) - 1 /\ Len(mainQueue) \in Nat /\ Len(mainQueue) > 0
        /\ Head(mainQueue) = mainQueue[1]
        /\ \A i \in 1..Len(mainQueue)-1 : mainQueue'[i] = mainQueue[i+1]
    OBVIOUS
  <1>2. ASSUME NEW i \in 1..Len(mainQueue'), NEW s \in Slot, Calculates(mainQueue'[i], s)
        PROVE  /\ Outstanding(s) /\ ~Finishes(Head(mainQueue), s)
               /\ \A j \in 1..(i-1) : ~Finishes(mainQueue'[j], s)
    <2>1. i + 1 \in 1..Len(mainQueue) /\ mainQueue'[i] = mainQueue[i+1] /\ (i + 1) - 1 = i /\ 1 \in 1..i
      BY <1>1
    <2>2. Calculates(mainQueue[i+1], s)
      BY <1>2, <2>1
    <2>3. Outstanding(s) /\ \A j \in 1..i : ~Finishes(mainQueue[j], s)
      BY <2>1, <2>2 DEF CalcInv, CalcQueued
    <2>4. \A j \in 1..(i-1) : j + 1 \in 1..i /\ mainQueue'[j] = mainQueue[j+1]
      BY <1>1
    <2> QED
      BY <1>1, <2>1, <2>3, <2>4
  <1>3. \A s \in Slot : Calculates(Head(mainQueue), s) => Outstanding(s)
    BY <1>1 DEF CalcInv, CalcQueued
  <1> QED
    BY <1>2, <1>3

\* Every step of any user keeps it.
LEMMA NextCalc == IInv /\ CalcInv /\ [Next]_vars => CalcInv'
  <1> SUFFICES ASSUME IInv, CalcInv, [Next]_vars PROVE CalcInv'
    OBVIOUS
  <1>0. /\ phase \in [Slot -> Phases] /\ mainQueue \in Seq(Blocks) /\ cmp \in [Slot -> Comparisons]
        /\ Phased(mainQueue, phase)
    BY DEF IInv, TypeOK, RoundInv
  <1>a. CASE Abort
    <2>1. Len(mainQueue') = 0 /\ lbStatus'.what = "Blank"
      BY <1>a DEF Abort, Blank, Block
    <2> QED
      BY <2>1 DEF CalcInv, CalcQueued, CalcShown, Calculates
  <1>b. ASSUME UNCHANGED <<mainQueue, phase, lbStatus>> PROVE CalcInv'
    BY <1>b, CalcKept DEF Outstanding
  <1>c. ASSUME NEW s \in Slot, NEW to, phase' = [phase EXCEPT ![s] = to], to \notin {"free", "recording"},
               UNCHANGED <<mainQueue, lbStatus>>
        PROVE  CalcInv'
    BY <1>0, <1>c, CalcKept DEF Outstanding
  <1>d. ASSUME NEW b \in Blocks, \A s \in Slot : ~Calculates(b, s), mainQueue' = Append(mainQueue, b),
               UNCHANGED <<phase, lbStatus>>
        PROVE  CalcInv'
    BY <1>0, <1>d, CalcPosted DEF Outstanding
  <1>1. CASE UNCHANGED vars \/ Launch
    BY <1>1, <1>b DEF vars, Launch
  <1>2. CASE User
    <2>0. \A t \in StatusText \ {"Finished"}, s \in Slot \cup {NoSlot} :
            /\ Status(t, s) \in Blocks
            /\ \A q \in Slot : Calculates(Status(t, s), q) <=> t = "Calculating" /\ s = q
      BY BlankTyped DEF Status, Block, Calculates
    <2>1. CASE PressWhileRecording
      BY <1>0, <1>d, <2>0, <2>1 DEF PressWhileRecording, StatusText, IInv, TypeOK
    <2>2. ASSUME NEW s \in Slot, StartRecording(s) PROVE CalcInv'
      <3>1. Status("Recording", s) \in Blocks /\ \A q \in Slot : ~Calculates(Status("Recording", s), q)
        BY <2>0 DEF StatusText
      <3>2. /\ mainQueue' = Append(mainQueue, Status("Recording", s)) /\ lbStatus' = lbStatus
            /\ phase[s] = "free" /\ phase' = [phase EXCEPT ![s] = "recording"]
        BY <2>2 DEF StartRecording
      <3>3. \A q \in Slot : Outstanding(q) => Outstanding(q)'
        BY <1>0, <3>2 DEF Outstanding
      <3> QED
        BY <1>0, <3>1, <3>2, <3>3, CalcPosted
    <2>3. CASE StartRecordingFails
      <3> DEFINE q == Append(mainQueue, Status("Recording", NoSlot))
      <3>1. mainQueue' = Append(q, Status("Error", NoSlot)) /\ UNCHANGED <<phase, lbStatus>>
        BY <1>0, <2>3 DEF StartRecordingFails
      <3>2. /\ Status("Recording", NoSlot) \in Blocks /\ Status("Error", NoSlot) \in Blocks
            /\ \A s \in Slot : /\ ~Calculates(Status("Recording", NoSlot), s)
                               /\ ~Calculates(Status("Error", NoSlot), s)
        BY <2>0 DEF StatusText
      <3> HIDE DEF q
      <3>3. /\ Len(mainQueue') = Len(mainQueue) + 2 /\ Len(mainQueue) \in Nat
            /\ \A i \in 1..Len(mainQueue) : mainQueue'[i] = mainQueue[i]
            /\ mainQueue'[Len(mainQueue) + 1] = Status("Recording", NoSlot)
            /\ mainQueue'[Len(mainQueue) + 2] = Status("Error", NoSlot)
        BY <1>0, <3>1, <3>2 DEF q
      <3>4. \A i \in 1..Len(mainQueue'), s \in Slot :
              Calculates(mainQueue'[i], s) => i \in 1..Len(mainQueue)
        <4>1. \A i \in 1..Len(mainQueue') :
                i \in 1..Len(mainQueue) \/ i = Len(mainQueue) + 1 \/ i = Len(mainQueue) + 2
          BY <3>3
        <4> QED
          BY <3>2, <3>3, <4>1
      <3>5. \A s \in Slot : Outstanding(s)' <=> Outstanding(s)
        BY <3>1 DEF Outstanding
      <3>6. CalcQueued'
        <4> SUFFICES ASSUME NEW i \in 1..Len(mainQueue'), NEW s \in Slot, Calculates(mainQueue'[i], s)
                     PROVE  Outstanding(s)' /\ \A j \in 1..(i-1) : ~Finishes(mainQueue'[j], s)
          BY DEF CalcQueued, Calculates, Finishes
        <4>1. i \in 1..Len(mainQueue) /\ mainQueue'[i] = mainQueue[i]
          BY <3>3, <3>4
        <4>2. \A j \in 1..(i-1) : j \in 1..Len(mainQueue) /\ mainQueue'[j] = mainQueue[j]
          BY <3>3, <4>1
        <4>3. Outstanding(s) /\ \A j \in 1..(i-1) : ~Finishes(mainQueue[j], s)
          BY <4>1 DEF CalcInv, CalcQueued
        <4> QED
          BY <3>5, <4>2, <4>3
      <3>7. CalcShown'
        BY <3>1, <3>5 DEF CalcInv, CalcShown, Calculates
      <3> QED
        BY <3>6, <3>7 DEF CalcInv
    <2>4. CASE ReleaseWithoutRecorder
      <3>1. Status("Calculating", NoSlot) \in Blocks
            /\ \A s \in Slot : ~Calculates(Status("Calculating", NoSlot), s)
        BY <2>0, SlotAssumption DEF StatusText
      <3> QED
        BY <1>d, <2>4, <3>1 DEF ReleaseWithoutRecorder, Release
    <2>5. CASE StopRecording
      <3>1. recorder \in Slot /\ phase[recorder] = "recording"
        BY <2>5 DEF StopRecording, IInv, OneWriter, TypeOK
      <3>2. /\ Status("Calculating", recorder) \in Blocks
            /\ \A s \in Slot : Calculates(Status("Calculating", recorder), s) => s = recorder
        BY <2>0, <3>1 DEF StatusText
      <3>3. /\ mainQueue' = Append(mainQueue, Status("Calculating", recorder)) /\ lbStatus' = lbStatus
            /\ phase' = [phase EXCEPT ![recorder] = "queued"]
        BY <2>5 DEF StopRecording, Release
      <3>4. \A s \in Slot : Outstanding(s) => Outstanding(s)'
        BY <1>0, <3>1, <3>3 DEF Outstanding
      <3>5. \A s \in Slot : s = recorder => Outstanding(s)'
        BY <1>0, <3>3 DEF Outstanding
      <3>6. \A j \in 1..Len(mainQueue) : ~Finishes(mainQueue[j], recorder)
        BY <1>0, <3>1 DEF Phased, Finishes
      <3> QED
        BY <1>0, <3>2, <3>3, <3>4, <3>5, <3>6, CalcPosted
    <2>6. CASE CancelTouch
      BY <1>b, <2>6 DEF CancelTouch
    <2> QED
      BY <1>2, <2>1, <2>2, <2>3, <2>4, <2>5, <2>6 DEF User
  <1>3. ASSUME NEW a \in Agent, Computes(a) PROVE CalcInv'
    BY <1>a, <1>b, <1>3
       DEF Computes, ExtractFile, TimesAbort, SizeMatrix, FillMatrix, MatrixAborts
  <1>4. ASSUME NEW s \in Slot, Worker(s) PROVE CalcInv'
    <2>1. CASE Preprocess(s)
      <3>1. phase' = [phase EXCEPT ![s] = "preprocessed"] /\ UNCHANGED <<mainQueue, lbStatus>>
        BY <2>1 DEF Preprocess
      <3> QED
        BY <1>c, <3>1
    <2>2. CASE ExtractFeatures(s)
      <3>1. phase' = [phase EXCEPT ![s] = "comparing"] /\ UNCHANGED <<mainQueue, lbStatus>>
        BY <2>2 DEF ExtractFeatures
      <3> QED
        BY <1>c, <3>1
    <2>10. CASE StoreInfo(s)
      <3>1. phase' = [phase EXCEPT ![s] = "stored"] /\ UNCHANGED <<mainQueue, lbStatus>>
        BY <2>10 DEF StoreInfo
      <3> QED
        BY <1>c, <3>1
    <2>3. CASE ReadFails(s)
      BY <2>3, <1>a DEF ReadFails
    <2>4. CASE ScoreEmpty(s) \/ BeginScoring(s) \/ ScoreFile(s)
      BY <2>4, <1>b DEF ScoreEmpty, BeginScoring, ScoreFile
    <2>5. ASSUME NEW b \in Blocks, b.what # "Calculating", NEW from, NEW to \in Posting, Post(s, from, to, b)
          PROVE  CalcInv'
      <3>1. mainQueue' = Append(mainQueue, b) /\ lbStatus' = lbStatus /\ phase' = [phase EXCEPT ![s] = to]
        BY <2>5 DEF Post
      <3>2. \A q \in Slot : Outstanding(q) => Outstanding(q)'
        BY <1>0, <2>5, <3>1 DEF Outstanding, Posting
      <3> QED
        BY <1>0, <2>5, <3>1, <3>2, CalcPosted DEF Calculates
    <2>6. cmp[s].index \in File
      BY <1>0 DEF Comparisons
    <2>7. CASE PostDraw(s)
      BY <2>5, <2>6, <2>7, BlockTyped DEF PostDraw, Posting, Block
    <2>8. CASE PostResult(s)
      BY <2>5, <2>6, <2>8, BlockTyped DEF PostResult, Posting, Block
    <2>9. CASE PostFinished(s)
      BY <2>5, <2>9, BlankTyped DEF PostFinished, Posting, Status, Block
    <2> QED
      BY <1>3, <1>4, <2>1, <2>2, <2>3, <2>4, <2>7, <2>8, <2>9, <2>10 DEF Worker, Computes, Agent
  <1>5. CASE MainThread
    <2>1. ASSUME RunStatus \/ RunResult \/ RunDraw
          PROVE  /\ mainQueue # <<>> /\ mainQueue' = Tail(mainQueue)
                 /\ \A i \in 1..Len(mainQueue') : \A s \in Slot :
                      Calculates(mainQueue'[i], s) =>
                        /\ Outstanding(s) /\ ~Finishes(Head(mainQueue), s)
                        /\ \A j \in 1..(i-1) : ~Finishes(mainQueue'[j], s)
                 /\ \A s \in Slot : Calculates(Head(mainQueue), s) => Outstanding(s)
      <3>1. mainQueue # <<>> /\ mainQueue' = Tail(mainQueue)
        BY <2>1 DEF RunStatus, RunResult, RunDraw, RunBlock
      <3> QED
        BY <1>0, <3>1, CalcTaken
    <2>2. CASE RunResult \/ RunDraw
      <3>1. UNCHANGED <<phase, lbStatus>>
        BY <2>2 DEF RunResult, RunDraw
      <3>2. \A s \in Slot : Outstanding(s)' <=> Outstanding(s)
        BY <3>1 DEF Outstanding
      <3>3. CalcQueued'
        BY <2>1, <2>2, <3>2 DEF CalcQueued, Calculates, Finishes
      <3>4. CalcShown'
        BY <3>1, <3>2 DEF CalcInv, CalcShown, Calculates
      <3> QED
        BY <3>3, <3>4 DEF CalcInv
    <2>3. CASE RunStatus
      <3>1. \A s \in Slot : ~Finishes(Head(mainQueue), s) => phase'[s] = phase[s]
        BY <2>3 DEF RunStatus, Finishes, Status, Block
      <3>2. \A s \in Slot : Outstanding(s) /\ ~Finishes(Head(mainQueue), s) => Outstanding(s)'
        BY <3>1 DEF Outstanding
      <3>3. CalcQueued'
        BY <2>1, <2>3, <3>2 DEF CalcQueued, Calculates, Finishes
      <3>4. CalcShown'
        <4>1. \A s \in Slot : Calculates(Head(mainQueue), s) => ~Finishes(Head(mainQueue), s)
          BY DEF Calculates, Finishes
        <4>2. lbStatus' = Head(mainQueue)
          BY <2>3 DEF RunStatus
        <4>3. \A s \in Slot : Calculates(Head(mainQueue), s) => Outstanding(s)'
          BY <2>1, <2>3, <3>2, <4>1
        <4> QED
          BY <4>2, <4>3 DEF CalcShown, Calculates
      <3> QED
        BY <3>3, <3>4 DEF CalcInv
    <2>4. CASE DrawAborts
      BY <2>4, <1>a DEF DrawAborts
    <2>5. CASE FinishDraw
      BY <1>b, <2>5 DEF FinishDraw
    <2> QED
      BY <1>3, <1>5, <2>2, <2>3, <2>4, <2>5 DEF MainThread, Computes, Agent
  <1> QED
    BY <1>1, <1>2, <1>4, <1>5 DEF Next, Running

\* While the label shows the "Calculating..." of a round, that round is still at
\* work, however the rounds overlap: its "Finished" is queued behind.
THEOREM CalculatingIsTrue == Spec => []CalculatingMeansWorking
  <1>1. Init => CalcInv
    <2>1. Init => Len(mainQueue) = 0 /\ lbStatus.what = "Blank"
      BY DEF Init, Blank, Block
    <2> QED
      BY <2>1 DEF CalcInv, CalcQueued, CalcShown, Calculates
  <1>2. IInv /\ CalcInv => CalculatingMeansWorking
    <2>1. IInv => lbStatus.slot \in Slot \cup {NoSlot}
      <3>1. \A b \in Blocks : b.slot \in Slot \cup {NoSlot}
        BY DEF Blocks
      <3> QED
        BY <3>1 DEF IInv, TypeOK
    <2> QED
      BY <2>1 DEF CalcInv, CalcShown, Calculates, CalculatingMeansWorking
  <1> QED
    BY <1>1, <1>2, Invariance, NextCalc, PTL DEF Spec

-----------------------------------------------------------------------------
(* For a user who waits for "Finished".  There is one round at most, and the *)
(* screen is followed through it: its matrices are drawn before its result   *)
(* is shown, and its result before its "Finished".                           *)

\* No drawing is queued behind a result.
DrawnFirst ==
  \A i, k \in 1..Len(mainQueue) :
    mainQueue[i].what = "result" /\ i < k => mainQueue[k].what # "draw"

\* The round that has posted its drawing will be drawn, is being drawn, or is
\* what the views show.
Drawn(s) ==
  \/ \E i \in 1..Len(mainQueue) : mainQueue[i].what = "draw"
  \/ work[Main].pc \in {"extract", "size", "fill"}
  \/ similarity.by = <<Main, s, cmp[s].index>>

DrawnBy ==
  /\ \A s \in Slot : phase[s] \in Posting => Drawn(s)
  /\ work[Main].pc # "idle" => work[Main].file = cmp[work[Main].slot].index

\* While a result is shown nothing draws but the round it is of.
OnScreen ==
  lbResult # Blank =>
    /\ similarity.by = <<Main, lbResult.slot, lbResult.file>>
    /\ work[Main].pc = "idle"
    /\ \A i \in 1..Len(mainQueue) : mainQueue[i].what # "draw"
    /\ \A s \in Slot : phase[s] # "free" => s = lbResult.slot /\ phase[s] \in Posting
    /\ lbStatus.what = "Finished" => lbStatus.slot = lbResult.slot

\* The "Finished" of the round before goes before anything of this one is run.
Replacing ==
  \E j \in 1..Len(mainQueue) :
    mainQueue[j].what = "Recording" /\ \A i \in 1..j : mainQueue[i].what \notin RoundBlocks

NewRound == lbStatus.what = "Finished" /\ (\E s \in Slot : phase[s] # "free") => Replacing

\* A "Finished" is of a round, and of no file.
Plain == \A i \in 1..Len(mainQueue) : mainQueue[i].what = "Finished" => mainQueue[i].file = 0

Screen == DrawnFirst /\ DrawnBy /\ OnScreen /\ NewRound /\ Plain

\* A step that neither queues nor runs a block, nor takes a round in or out of its
\* posting, and does not touch the matrices unless nothing of them is shown or due.
LEMMA ScreenKept ==
  ASSUME PInv, Screen, UNCHANGED <<mainQueue, lbStatus, lbResult>>, UNCHANGED work[Main],
         \/ UNCHANGED similarity
         \/ lbResult = Blank /\ \A s \in Slot : phase[s] \notin Posting,
         \A s \in Slot : /\ phase'[s] \in Posting <=> phase[s] \in Posting
                         /\ phase'[s] # "free" <=> phase[s] # "free",
         \A s \in Slot : phase[s] \in Posting => cmp'[s].index = cmp[s].index
  PROVE  Screen'
  <1>1. DrawnFirst' /\ Plain'
    BY DEF Screen, DrawnFirst, Plain
  <1>2. NewRound'
    <2>1. Replacing' <=> Replacing
      BY DEF Replacing
    <2> QED
      BY <2>1 DEF Screen, NewRound
  <1>3. DrawnBy'
    <2>1. ASSUME NEW s \in Slot, phase'[s] \in Posting
          PROVE  Drawn(s)'
      <3>1. phase[s] \in Posting /\ cmp'[s].index = cmp[s].index
        BY <2>1
      <3>2. Drawn(s) /\ similarity' = similarity
        BY <3>1 DEF Screen, DrawnBy
      <3> QED
        BY <3>1, <3>2 DEF Drawn
    <2>2. ASSUME work'[Main].pc # "idle"
          PROVE  work'[Main].file = cmp'[work'[Main].slot].index
      <3>1. work'[Main] = work[Main] /\ work[Main].pc # "idle"
        BY <2>2
      <3>2. work[Main].slot \in Slot /\ phase[work[Main].slot] \in Posting
        BY <3>1, OneRound
      <3> QED
        BY <3>1, <3>2 DEF Screen, DrawnBy
    <2> QED
      BY <2>1, <2>2 DEF DrawnBy
  <1>4. OnScreen'
    <2> SUFFICES ASSUME lbResult # Blank PROVE OnScreen'
      BY DEF OnScreen
    <2>1. UNCHANGED <<mainQueue, lbStatus, lbResult, similarity>> /\ work'[Main] = work[Main]
      OBVIOUS
    <2>2. \A s \in Slot : phase'[s] # "free" => s = lbResult.slot /\ phase'[s] \in Posting
      BY DEF Screen, OnScreen
    <2> QED
      BY <2>1, <2>2 DEF Screen, OnScreen
  <1> QED
    BY <1>1, <1>2, <1>3, <1>4 DEF Screen

\* Blocks that are no drawings are queued behind the others.
Extended(queue, longer) ==
  /\ Len(longer) \in Nat /\ Len(queue) <= Len(longer)
  /\ \A i \in 1..Len(queue) : longer[i] = queue[i]
  /\ \A i \in 1..Len(longer) : i > Len(queue) =>
       longer[i].what # "draw" /\ (longer[i].what = "Finished" => longer[i].file = 0)

LEMMA ExtendedByOne ==
  ASSUME NEW q \in Seq(Blocks), NEW b \in Blocks, b.what # "draw",
         b.what = "Finished" => b.file = 0
  PROVE  Extended(q, Append(q, b)) /\ Append(q, b) \in Seq(Blocks)
  BY DEF Extended

LEMMA ScreenPosted ==
  ASSUME PInv, Screen, Extended(mainQueue, mainQueue'), UNCHANGED <<cmp, work, similarity, lbStatus>>,
         lbResult' \in {lbResult, Blank},
         \A s \in Slot : phase'[s] \in Posting => phase[s] \in Posting,
         lbResult' # Blank => \A s \in Slot :
           phase'[s] # "free" => phase[s] # "free" /\ (phase'[s] \in Posting \/ phase'[s] = phase[s]),
         (\E s \in Slot : phase'[s] # "free") => Replacing' \/ \E s \in Slot : phase[s] # "free"
  PROVE  Screen'
  <1>0. Len(mainQueue) \in Nat
    BY OneRound
  <1>1. DrawnFirst' /\ Plain'
    <2>1. DrawnFirst'
      BY <1>0 DEF Screen, DrawnFirst, Extended
    <2>2. Plain'
      BY <1>0 DEF Screen, Plain, Extended
    <2> QED
      BY <2>1, <2>2
  <1>2. DrawnBy'
    <2>1. \A s \in Slot : Drawn(s) => Drawn(s)'
      <3>1. \A i \in 1..Len(mainQueue) : i \in 1..Len(mainQueue') /\ mainQueue'[i] = mainQueue[i]
        BY <1>0 DEF Extended
      <3> QED
        BY <3>1 DEF Drawn
    <2> QED
      BY <2>1 DEF Screen, DrawnBy
  <1>3. OnScreen'
    <2> SUFFICES ASSUME lbResult' # Blank PROVE OnScreen'
      BY DEF OnScreen
    <2>1. lbResult' = lbResult /\ lbResult # Blank
      OBVIOUS
    <2>2. \A i \in 1..Len(mainQueue') : mainQueue'[i].what # "draw"
      BY <1>0, <2>1 DEF Screen, OnScreen, Extended
    <2> QED
      BY <2>1, <2>2 DEF Screen, OnScreen
  <1>4. NewRound'
    <2>1. Replacing => Replacing'
      <3> SUFFICES ASSUME Replacing PROVE Replacing'
        OBVIOUS
      <3>1. PICK j \in 1..Len(mainQueue) :
              mainQueue[j].what = "Recording" /\ \A i \in 1..j : mainQueue[i].what \notin RoundBlocks
        BY DEF Replacing
      <3>2. j \in 1..Len(mainQueue') /\ \A i \in 1..j : mainQueue'[i] = mainQueue[i]
        BY <1>0 DEF Extended
      <3> QED
        BY <3>1, <3>2 DEF Replacing
    <2> QED
      BY <2>1 DEF Screen, NewRound
  <1> QED
    BY <1>1, <1>2, <1>3, <1>4 DEF Screen

\* The block that is run was first; the others keep their order.
LEMMA Run ==
  ASSUME NEW q \in Seq(Blocks), q # <<>>, NEW rest, rest = Tail(q)
  PROVE  /\ Head(q) = q[1] /\ 1 \in 1..Len(q) /\ Head(q) \in Blocks
         /\ \A i \in 1..Len(rest) : i + 1 \in 1..Len(q) /\ rest[i] = q[i+1]
         /\ \A i \in 1..Len(q) : i > 1 => i - 1 \in 1..Len(rest) /\ rest[i-1] = q[i]
  OBVIOUS

\* A status block: the "Finished" of the round ends it, any other replaces the
\* one before.
LEMMA StatusScreen == PInv /\ Screen /\ RunStatus => Screen'
  <1> SUFFICES ASSUME PInv, Screen, RunStatus PROVE Screen'
    OBVIOUS
  <1>1. /\ mainQueue # <<>> /\ mainQueue' = Tail(mainQueue) /\ lbStatus' = Head(mainQueue)
        /\ Head(mainQueue).what \in StatusText /\ work[Main].pc = "idle"
        /\ UNCHANGED <<cmp, work, similarity, lbResult>>
    BY DEF RunStatus, RunBlock
  <1>2. /\ Head(mainQueue) = mainQueue[1] /\ 1 \in 1..Len(mainQueue)
        /\ \A i \in 1..Len(mainQueue') : i + 1 \in 1..Len(mainQueue) /\ mainQueue'[i] = mainQueue[i+1]
        /\ \A i \in 1..Len(mainQueue) : i > 1 => i - 1 \in 1..Len(mainQueue') /\ mainQueue'[i-1] = mainQueue[i]
    BY <1>1, OneRound, Run
  <1>3. \A t \in Slot : \/ phase'[t] = phase[t] /\ Head(mainQueue) # Status("Finished", t)
                        \/ /\ phase[t] = "posted" /\ phase'[t] = "free"
                           /\ Head(mainQueue) = Status("Finished", t)
    BY RunStatusFrees DEF PInv, IInv
  <1>4. DrawnFirst' /\ Plain'
    <2>1. \A i \in 1..Len(mainQueue') : i + 1 \in 1..Len(mainQueue) /\ mainQueue'[i] = mainQueue[i+1]
      BY <1>2
    <2>2. DrawnFirst'
      BY <2>1 DEF Screen, DrawnFirst
    <2>3. Plain'
      BY <2>1 DEF Screen, Plain
    <2> QED
      BY <2>2, <2>3
  <1>5. DrawnBy'
    <2>1. ASSUME NEW s \in Slot, Drawn(s) PROVE Drawn(s)'
      <3>1. CASE \E i \in 1..Len(mainQueue) : mainQueue[i].what = "draw"
        <4>1. PICK i \in 1..Len(mainQueue) : mainQueue[i].what = "draw"
          BY <3>1
        <4>2. i # 1
          BY <1>1, <1>2, <4>1 DEF StatusText
        <4>3. i - 1 \in 1..Len(mainQueue') /\ mainQueue'[i-1].what = "draw"
          BY <1>2, <4>1, <4>2
        <4> QED
          BY <4>3 DEF Drawn
      <3>2. CASE similarity.by = <<Main, s, cmp[s].index>>
        BY <1>1, <3>2 DEF Drawn
      <3> QED
        BY <1>1, <2>1, <3>1, <3>2 DEF Drawn
    <2>2. \A s \in Slot : phase'[s] \in Posting => phase[s] \in Posting
      BY <1>3 DEF Posting
    <2> QED
      BY <1>1, <2>1, <2>2 DEF Screen, DrawnBy
  <1>6. CASE \E t \in Slot : Head(mainQueue) = Status("Finished", t)
    <2>1. PICK t \in Slot : Head(mainQueue) = Status("Finished", t)
      BY <1>6
    <2>2. phase[t] = "posted" /\ phase'[t] = "free"
      BY <1>3, <2>1
    <2>3. \A s \in Slot : phase'[s] = "free"
      BY <1>3, <2>2, OneRound
    <2>4. NewRound'
      BY <2>3 DEF NewRound
    <2>5. lbStatus'.slot = t
      BY <1>1, <2>1 DEF Status, Block
    <2>6. OnScreen'
      <3> SUFFICES ASSUME lbResult # Blank PROVE OnScreen'
        BY <1>1 DEF OnScreen
      <3>1. t = lbResult.slot
        BY <2>2 DEF Screen, OnScreen
      <3>2. \A i \in 1..Len(mainQueue') : mainQueue'[i].what # "draw"
        BY <1>2 DEF Screen, OnScreen
      <3> QED
        BY <1>1, <2>3, <2>5, <3>1, <3>2 DEF Screen, OnScreen
    <2> QED
      BY <1>4, <1>5, <2>4, <2>6 DEF Screen
  <1>7. CASE \A t \in Slot : Head(mainQueue) # Status("Finished", t)
    <2>1. \A t \in Slot : phase'[t] = phase[t]
      BY <1>3, <1>7
    <2>2. lbStatus'.what # "Finished"
      <3>1. \A b \in Blocks : b.what = "Finished" => b.slot \in Slot
        BY DEF Blocks, StatusText
      <3>2. ASSUME lbStatus'.what = "Finished" PROVE FALSE
        <4>1. Head(mainQueue) \in Blocks /\ Head(mainQueue).what = "Finished"
          BY <1>1, <3>2, OneRound, Run
        <4>2. Head(mainQueue).slot \in Slot
          BY <3>1, <4>1
        <4>3. Head(mainQueue).file = 0
          BY <1>2, <4>1 DEF Screen, Plain
        <4> QED
          BY <1>7, <4>1, <4>2, <4>3 DEF Blocks, Status, Block
      <3> QED
        BY <3>2
    <2>3. OnScreen'
      <3> SUFFICES ASSUME lbResult # Blank PROVE OnScreen'
        BY <1>1 DEF OnScreen
      <3>1. \A i \in 1..Len(mainQueue') : mainQueue'[i].what # "draw"
        BY <1>2 DEF Screen, OnScreen
      <3> QED
        BY <1>1, <2>1, <2>2, <3>1 DEF Screen, OnScreen
    <2> QED
      BY <1>4, <1>5, <2>2, <2>3 DEF Screen, NewRound
  <1> QED
    BY <1>6, <1>7

\* A drawing begins: nothing is shown yet, and the drawing is of the best file.
LEMMA DrawScreen == PInv /\ Screen /\ RunDraw => Screen'
  <1> SUFFICES ASSUME PInv, Screen, RunDraw PROVE Screen'
    OBVIOUS
  <1>1. /\ mainQueue # <<>> /\ mainQueue' = Tail(mainQueue) /\ Head(mainQueue).what = "draw"
        /\ work' = [work EXCEPT ![Main] = ReadTimes(Head(mainQueue).slot, Head(mainQueue).file)]
        /\ UNCHANGED <<phase, cmp, similarity, lbStatus, lbResult>>
    BY DEF RunDraw, RunBlock
  <1>2. /\ Head(mainQueue) = mainQueue[1] /\ 1 \in 1..Len(mainQueue)
        /\ \A i \in 1..Len(mainQueue') : i + 1 \in 1..Len(mainQueue) /\ mainQueue'[i] = mainQueue[i+1]
    BY <1>1, OneRound, Run
  <1>3. DrawnFirst' /\ Plain'
    <2>1. \A i \in 1..Len(mainQueue') : i + 1 \in 1..Len(mainQueue) /\ mainQueue'[i] = mainQueue[i+1]
      BY <1>2
    <2>2. DrawnFirst'
      BY <2>1 DEF Screen, DrawnFirst
    <2>3. Plain'
      BY <2>1 DEF Screen, Plain
    <2> QED
      BY <2>2, <2>3
  <1>4. /\ work'[Main].pc = "extract" /\ work'[Main].slot = Head(mainQueue).slot
        /\ work'[Main].file = cmp[Head(mainQueue).slot].index
    <2>1. Head(mainQueue).file = cmp[Head(mainQueue).slot].index
      BY <1>1, <1>2 DEF PInv, IInv, BestInv
    <2> QED
      BY <1>1, <2>1, OneRound DEF ReadTimes
  <1>5. DrawnBy'
    BY <1>1, <1>4 DEF DrawnBy, Drawn
  <1>6. lbResult' = Blank
    BY <1>1, <1>2 DEF Screen, OnScreen
  <1>7. NewRound'
    <2>1. Head(mainQueue).slot \in Slot /\ phase[Head(mainQueue).slot] # "free"
      BY <1>1, <1>2, OneRound DEF RoundBlocks, Posting
    <2>2. ~Replacing
      <3>1. \A j \in 1..Len(mainQueue) : 1 \in 1..j
        OBVIOUS
      <3> QED
        BY <1>1, <1>2, <3>1 DEF Replacing, RoundBlocks
    <2>3. lbStatus.what # "Finished"
      BY <2>1, <2>2 DEF Screen, NewRound
    <2> QED
      BY <1>1, <2>3 DEF NewRound
  <1> QED
    BY <1>3, <1>5, <1>6, <1>7 DEF Screen, OnScreen

\* A result is shown when its drawing is done, of the same file, and in place of
\* any status of the round before.
LEMMA ResultScreen == PInv /\ Screen /\ RunResult => Screen'
  <1> SUFFICES ASSUME PInv, Screen, RunResult PROVE Screen'
    OBVIOUS
  <1> DEFINE s == Head(mainQueue).slot
  <1>1. /\ mainQueue # <<>> /\ mainQueue' = Tail(mainQueue) /\ Head(mainQueue).what = "result"
        /\ lbResult' = Head(mainQueue) /\ work[Main].pc = "idle"
        /\ UNCHANGED <<phase, cmp, work, similarity, lbStatus>>
    BY DEF RunResult, RunBlock
  <1>2. /\ Head(mainQueue) = mainQueue[1] /\ 1 \in 1..Len(mainQueue)
        /\ \A i \in 1..Len(mainQueue') : i + 1 \in 1..Len(mainQueue) /\ mainQueue'[i] = mainQueue[i+1]
        /\ \A i \in 1..Len(mainQueue) : i > 1 => i - 1 \in 1..Len(mainQueue') /\ mainQueue'[i-1] = mainQueue[i]
    BY <1>1, OneRound, Run
  <1>3. DrawnFirst' /\ Plain'
    <2>1. \A i \in 1..Len(mainQueue') : i + 1 \in 1..Len(mainQueue) /\ mainQueue'[i] = mainQueue[i+1]
      BY <1>2
    <2>2. DrawnFirst'
      BY <2>1 DEF Screen, DrawnFirst
    <2>3. Plain'
      BY <2>1 DEF Screen, Plain
    <2> QED
      BY <2>2, <2>3
  <1>4. \A i \in 1..Len(mainQueue) : mainQueue[i].what # "draw"
    <2> SUFFICES ASSUME NEW i \in 1..Len(mainQueue), mainQueue[i].what = "draw" PROVE FALSE
      OBVIOUS
    <2>1. i # 1
      BY <1>1, <1>2
    <2> QED
      BY <1>1, <1>2, <2>1 DEF Screen, DrawnFirst
  <1>5. \A i \in 1..Len(mainQueue') : mainQueue'[i].what # "draw"
    BY <1>2, <1>4
  <1>6. s \in Slot /\ phase[s] \in Posting
    BY <1>1, <1>2, OneRound DEF RoundBlocks
  <1>7. similarity.by = <<Main, s, cmp[s].index>>
    BY <1>1, <1>4, <1>6 DEF Screen, DrawnBy, Drawn
  <1>8. Head(mainQueue).file = cmp[s].index
    BY <1>1, <1>2 DEF PInv, IInv, BestInv
  <1>9. lbStatus.what # "Finished"
    <2>1. ~Replacing
      <3>1. \A j \in 1..Len(mainQueue) : 1 \in 1..j
        OBVIOUS
      <3> QED
        BY <1>1, <1>2, <3>1 DEF Replacing, RoundBlocks
    <2>2. phase[s] # "free"
      BY <1>6 DEF Posting
    <2> QED
      BY <1>6, <2>1, <2>2 DEF Screen, NewRound
  <1>10. \A t \in Slot : phase[t] # "free" => t = s
    BY <1>6, OneRound DEF Posting
  <1>11. DrawnBy'
    <2>1. \A t \in Slot : phase[t] \in Posting => t = s
      BY <1>10 DEF Posting
    <2> QED
      BY <1>1, <1>7, <2>1 DEF DrawnBy, Drawn
  <1>12. OnScreen'
    BY <1>1, <1>5, <1>6, <1>7, <1>8, <1>9, <1>10 DEF OnScreen
  <1>13. NewRound'
    BY <1>1, <1>9 DEF NewRound
  <1> QED
    BY <1>3, <1>11, <1>12, <1>13 DEF Screen

\* A drawing is posted by the round that is not posting yet, so by none.
LEMMA PostDrawScreen ==
  ASSUME PInv, Screen, NEW s \in Slot, PostDraw(s)
  PROVE  Screen'
  <1> DEFINE b == Block("draw", s, cmp[s].index)
  <1>1. /\ phase[s] = "comparing" /\ phase' = [phase EXCEPT ![s] = "drawPosted"]
        /\ mainQueue' = Append(mainQueue, b) /\ UNCHANGED <<cmp, work, similarity, lbStatus, lbResult>>
    BY DEF PostDraw, Post
  <1>2. b \in Blocks /\ b.what = "draw"
    <2>1. cmp[s].index \in File
      BY OneRound DEF Comparisons
    <2> QED
      BY <2>1, BlockTyped DEF Block
  <1> HIDE DEF b
  <1>3. /\ Len(mainQueue') = Len(mainQueue) + 1 /\ Len(mainQueue) \in Nat
        /\ \A i \in 1..Len(mainQueue) : mainQueue'[i] = mainQueue[i]
        /\ mainQueue'[Len(mainQueue) + 1] = b
    BY <1>1, <1>2, OneRound
  <1>4. \A t \in Slot : phase[t] \notin Posting
    BY <1>1, OneRound DEF Posting
  <1>5. \A i \in 1..Len(mainQueue) : mainQueue[i].what \notin RoundBlocks
    BY <1>4, OneRound
  <1>6. lbResult = Blank
    BY <1>1 DEF Screen, OnScreen, Posting
  <1>7. DrawnFirst'
    BY <1>2, <1>3, <1>5 DEF DrawnFirst, RoundBlocks
  <1>8. Plain'
    BY <1>2, <1>3, <1>5 DEF Plain, RoundBlocks
  <1>9. DrawnBy'
    <2>1. \E i \in 1..Len(mainQueue') : mainQueue'[i].what = "draw"
      BY <1>2, <1>3
    <2>2. work[Main].pc = "idle"
      BY <1>4, OneRound
    <2> QED
      BY <1>1, <2>1, <2>2 DEF DrawnBy, Drawn
  <1>10. NewRound'
    <2>1. Replacing => Replacing'
      BY <1>3 DEF Replacing
    <2>2. phase[s] # "free"
      BY <1>1
    <2> QED
      BY <1>1, <2>1, <2>2 DEF Screen, NewRound
  <1> QED
    BY <1>1, <1>6, <1>7, <1>8, <1>9, <1>10 DEF Screen, OnScreen

\* The main thread's drawing goes on, and what it fills is what it was asked for.
LEMMA DrawingScreen ==
  ASSUME PInv, Screen, ExtractFile(Main) \/ SizeMatrix(Main) \/ FillMatrix(Main) \/ FinishDraw
  PROVE  Screen'
  <1>1. /\ work[Main].pc # "idle" /\ UNCHANGED <<phase, cmp, mainQueue, lbStatus, lbResult>>
    BY DEF ExtractFile, SizeMatrix, FillMatrix, FinishDraw
  <1>2. work[Main].slot \in Slot /\ phase[work[Main].slot] \in Posting
        /\ work[Main].file = cmp[work[Main].slot].index
    BY <1>1, OneRound DEF Screen, DrawnBy
  <1>3. lbResult = Blank
    BY <1>1 DEF Screen, OnScreen
  <1>4. \A t \in Slot : phase[t] \in Posting => t = work[Main].slot
    BY <1>2, OneRound DEF Posting
  <1>5. DrawnFirst' /\ Plain' /\ OnScreen'
    BY <1>1, <1>3 DEF Screen, DrawnFirst, Plain, OnScreen
  <1>6. NewRound'
    <2>1. Replacing' <=> Replacing
      BY <1>1 DEF Replacing
    <2> QED
      BY <1>1, <2>1 DEF Screen, NewRound
  <1>7. DrawnBy'
    <2>1. CASE SizeMatrix(Main)
      <3>1. work'[Main].pc = "fill" /\ work'[Main].slot = work[Main].slot /\ work'[Main].file = work[Main].file
        BY <2>1, OneRound DEF SizeMatrix, Works, Idle
      <3> QED
        BY <1>1, <1>2, <3>1 DEF DrawnBy, Drawn
    <2>2. CASE FillMatrix(Main)
      <3>1. /\ work'[Main].slot = work[Main].slot /\ work'[Main].file = work[Main].file
            /\ similarity' = [similarity EXCEPT !.by = <<Main, work[Main].slot, work[Main].file>>]
        BY <2>2, OneRound DEF FillMatrix, By, Works, Idle
      <3>2. similarity'.by = <<Main, work[Main].slot, work[Main].file>>
        <4>1. similarity \in Matrices
          BY DEF PInv, IInv, TypeOK
        <4> QED
          BY <3>1, <4>1 DEF Matrices
      <3>3. \A t \in Slot : phase[t] \in Posting => similarity'.by = <<Main, t, cmp[t].index>>
        BY <1>2, <1>4, <3>2
      <3> QED
        BY <1>1, <1>2, <3>1, <3>3 DEF DrawnBy, Drawn
    <2>3. CASE FinishDraw
      <3>1. work[Main].pc = "score" /\ work'[Main].pc = "idle" /\ similarity' = similarity
        BY <2>3, OneRound DEF FinishDraw, Idle
      <3>2. \A t \in Slot : Drawn(t) => Drawn(t)'
        BY <1>1, <3>1 DEF Drawn
      <3> QED
        BY <1>1, <3>1, <3>2 DEF Screen, DrawnBy
    <2>4. CASE ExtractFile(Main)
      <3>1. work' = [work EXCEPT ![Main] = [pc |-> "size", slot |-> work[Main].slot,
                                            file |-> work[Main].file, cut |-> fileInfo]]
        BY <2>4, OneRound DEF ExtractFile
      <3>2. work'[Main].pc = "size" /\ work'[Main].slot = work[Main].slot /\ work'[Main].file = work[Main].file
        BY <3>1, OneRound
      <3> QED
        BY <1>1, <1>2, <3>2 DEF DrawnBy, Drawn
    <2> QED
      BY <2>1, <2>2, <2>3, <2>4
  <1> QED
    BY <1>5, <1>6, <1>7 DEF Screen

\* A touch: a new round, if any, is announced, and the old result is gone.
LEMMA TouchScreen == Patient /\ PInv /\ Screen /\ User => Screen'
  <1> SUFFICES ASSUME Patient, PInv, Screen, User PROVE Screen'
    OBVIOUS
  <1>0. \A t \in StatusText \ {"Finished"}, s \in Slot \cup {NoSlot} :
          /\ Status(t, s) \in Blocks /\ Status(t, s).what = t
          /\ Status(t, s).what # "draw" /\ Status(t, s).what # "Finished"
    BY BlankTyped DEF Status, Block, StatusText
  <1>1. UNCHANGED <<cmp, work, similarity, lbStatus>> /\ mainQueue \in Seq(Blocks) /\ phase \in [Slot -> Phases]
    BY OneRound DEF User, PressWhileRecording, StartRecording, StartRecordingFails,
                    ReleaseWithoutRecorder, StopRecording, CancelTouch
  <1>a. ASSUME NEW t \in StatusText \ {"Finished"}, NEW s \in Slot \cup {NoSlot},
               mainQueue' = Append(mainQueue, Status(t, s))
        PROVE  Extended(mainQueue, mainQueue')
    BY <1>0, <1>1, <1>a, ExtendedByOne
  <1>2. CASE PressWhileRecording
    <2>1. Extended(mainQueue, mainQueue')
      BY <1>a, <1>2 DEF PressWhileRecording, StatusText, PInv, IInv, TypeOK
    <2> QED
      BY <1>1, <1>2, <2>1, ScreenPosted DEF PressWhileRecording, Press
  <1>3. ASSUME NEW s \in Slot, StartRecording(s) PROVE Screen'
    <2>1. /\ phase' = [phase EXCEPT ![s] = "recording"] /\ lbResult' = Blank
          /\ mainQueue' = Append(mainQueue, Status("Recording", s))
      BY <1>3 DEF StartRecording, Press
    <2>2. Extended(mainQueue, mainQueue')
      BY <1>a, <2>1 DEF StatusText
    <2>3. \A t \in Slot : phase[t] = "free"
      BY <1>3, PressFindsAllFree DEF StartRecording, PInv
    <2>4. Replacing'
      <3>1. \A i \in 1..Len(mainQueue) : mainQueue[i].what \notin RoundBlocks
        BY <2>3, OneRound DEF Posting
      <3>2. Status("Recording", s) \in Blocks /\ Status("Recording", s).what = "Recording"
        BY <1>0 DEF StatusText
      <3>3. /\ Len(mainQueue') = Len(mainQueue) + 1 /\ Len(mainQueue) \in Nat
            /\ \A i \in 1..Len(mainQueue) : mainQueue'[i] = mainQueue[i]
            /\ mainQueue'[Len(mainQueue) + 1] = Status("Recording", s)
        BY <1>1, <2>1, <3>2
      <3>4. \A i \in 1..(Len(mainQueue) + 1) : mainQueue'[i].what \notin RoundBlocks
        BY <3>1, <3>2, <3>3 DEF RoundBlocks
      <3> QED
        BY <3>2, <3>3, <3>4 DEF Replacing
    <2>5. \A t \in Slot : phase'[t] \notin Posting
      BY <1>1, <2>1, <2>3 DEF Posting
    <2> QED
      BY <1>1, <2>1, <2>2, <2>4, <2>5, ScreenPosted
  <1>4. CASE StartRecordingFails
    <2> DEFINE q == Append(mainQueue, Status("Recording", NoSlot))
    <2>1. /\ mainQueue' = Append(q, Status("Error", NoSlot)) /\ lbResult' = Blank /\ phase' = phase
      BY <1>1, <1>4 DEF StartRecordingFails, Press
    <2>2. Extended(mainQueue, q) /\ q \in Seq(Blocks)
      BY <1>0, <1>1, ExtendedByOne DEF StatusText
    <2>3. Extended(q, mainQueue')
      <3>1. Status("Error", NoSlot) \in Blocks /\ Status("Error", NoSlot).what = "Error"
        BY <1>0 DEF StatusText
      <3> QED
        BY <2>1, <2>2, <3>1, ExtendedByOne
    <2> HIDE DEF q
    <2>4. Extended(mainQueue, mainQueue')
      <3>1. Len(mainQueue) \in Nat /\ Len(q) \in Nat
        BY <1>1, <2>2
      <3> QED
        BY <2>2, <2>3, <3>1 DEF Extended
    <2> QED
      BY <1>1, <2>1, <2>4, ScreenPosted
  <1>5. CASE ReleaseWithoutRecorder
    <2>1. Extended(mainQueue, mainQueue')
      BY <1>a, <1>5 DEF ReleaseWithoutRecorder, Release, StatusText, PInv, IInv, TypeOK
    <2> QED
      BY <1>1, <1>5, <2>1, ScreenPosted DEF ReleaseWithoutRecorder, Release
  <1>6. CASE StopRecording
    <2>1. recorder \in Slot /\ phase[recorder] = "recording"
      BY <1>6 DEF StopRecording, PInv, IInv, TypeOK, OneWriter
    <2>2. /\ phase' = [phase EXCEPT ![recorder] = "queued"] /\ lbResult' = lbResult
          /\ mainQueue' = Append(mainQueue, Status("Calculating", recorder))
      BY <1>6 DEF StopRecording, Release
    <2>3. Extended(mainQueue, mainQueue')
      BY <1>a, <2>1, <2>2 DEF StatusText
    <2>4. lbResult = Blank
      BY <2>1 DEF Screen, OnScreen, Posting
    <2>5. \A s \in Slot : phase'[s] \in Posting => phase[s] \in Posting
      BY <1>1, <2>2 DEF Posting
    <2>6. \E s \in Slot : phase[s] # "free"
      BY <2>1
    <2> QED
      BY <1>1, <2>2, <2>3, <2>4, <2>5, <2>6, ScreenPosted
  <1>7. CASE CancelTouch
    BY <1>1, <1>7, ScreenKept DEF CancelTouch
  <1> QED
    BY <1>2, <1>3, <1>4, <1>5, <1>6, <1>7 DEF User

\* What an abort leaves shows nothing.
LEMMA AbortScreen == Abort => Screen'
  <1> SUFFICES ASSUME Abort PROVE Screen'
    OBVIOUS
  <1>1. /\ Len(mainQueue') = 0 /\ lbResult' = Blank /\ work'[Main].pc = "idle"
        /\ \A s \in Slot : phase'[s] = "free"
    BY DEF Abort, Idle, Agent
  <1> QED
    BY <1>1 DEF Screen, DrawnFirst, DrawnBy, OnScreen, NewRound, Plain, Posting

LEMMA NextScreen == Patient /\ PInv /\ Screen /\ [Next]_vars => Screen'
  <1> SUFFICES ASSUME Patient, PInv, Screen, [Next]_vars PROVE Screen'
    OBVIOUS
  <1>1. CASE UNCHANGED vars \/ Launch
    BY <1>1, ScreenKept DEF vars, Launch
  <1>2. CASE User
    BY <1>2, TouchScreen
  <1>3. ASSUME NEW s \in Slot, Worker(s) PROVE Screen'
    <2>0. s # Main /\ s \in Agent
      BY OneRound DEF Agent
    <2>1. CASE ReadFails(s) \/ MatrixAborts(s) \/ TimesAbort(s)
      BY <2>1, AbortScreen DEF ReadFails, MatrixAborts, TimesAbort
    <2>2. CASE Preprocess(s) \/ StoreInfo(s) \/ ExtractFeatures(s)
      <3>1. /\ UNCHANGED <<mainQueue, lbStatus, lbResult, work, similarity>>
            /\ phase[s] \in {"queued", "preprocessed", "stored"}
            /\ \E to \in {"preprocessed", "stored", "comparing"} : phase' = [phase EXCEPT ![s] = to]
            /\ \A t \in Slot : t # s => cmp'[t] = cmp[t]
        BY <2>2, OneRound DEF Preprocess, StoreInfo, ExtractFeatures
      <3>2. \A t \in Slot : /\ phase'[t] \in Posting <=> phase[t] \in Posting
                            /\ phase'[t] # "free" <=> phase[t] # "free"
        BY <3>1, OneRound DEF Posting
      <3>3. \A t \in Slot : phase[t] \in Posting => cmp'[t].index = cmp[t].index
        BY <3>1 DEF Posting
      <3> QED
        BY <3>1, <3>2, <3>3, ScreenKept
    <2>3. CASE ScoreEmpty(s) \/ BeginScoring(s) \/ ScoreFile(s)
      <3>1. /\ UNCHANGED <<mainQueue, lbStatus, lbResult, phase, similarity>> /\ work'[Main] = work[Main]
            /\ \A t \in Slot : t # s => cmp'[t] = cmp[t]
        BY <2>0, <2>3, OneRound DEF ScoreEmpty, BeginScoring, ScoreFile, Returned
      <3>2. phase[s] = "comparing"
        BY <2>3 DEF ScoreEmpty, BeginScoring, ScoreFile, PInv, IInv, WorkerInv
      <3>3. \A t \in Slot : phase[t] \in Posting => cmp'[t].index = cmp[t].index
        BY <3>1, <3>2 DEF Posting
      <3> QED
        BY <3>1, <3>3, ScreenKept
    <2>4. CASE ExtractFile(s) \/ SizeMatrix(s) \/ FillMatrix(s)
      <3>1. UNCHANGED <<mainQueue, lbStatus, lbResult, phase, cmp>> /\ work'[Main] = work[Main]
        BY <2>0, <2>4, OneRound DEF ExtractFile, SizeMatrix, FillMatrix
      <3>2. phase[s] = "comparing"
        BY <2>4 DEF ExtractFile, SizeMatrix, FillMatrix, PInv, IInv, WorkerInv
      <3>3. lbResult = Blank /\ \A t \in Slot : phase[t] \notin Posting
        BY <3>2, OneRound DEF Screen, OnScreen, Posting
      <3> QED
        BY <3>1, <3>3, ScreenKept
    <2>5. CASE PostDraw(s)
      BY <2>5, PostDrawScreen
    <2>6. ASSUME NEW b \in Blocks, b.what # "draw", b.what = "Finished" => b.file = 0,
                 NEW from \in Posting, NEW to \in Posting, Post(s, from, to, b)
          PROVE  Screen'
      <3>1. /\ phase[s] = from /\ phase' = [phase EXCEPT ![s] = to]
            /\ mainQueue' = Append(mainQueue, b) /\ UNCHANGED <<cmp, work, similarity, lbStatus, lbResult>>
        BY <2>6 DEF Post
      <3>2. Extended(mainQueue, mainQueue')
        BY <2>6, <3>1, OneRound, ExtendedByOne
      <3>3. /\ \A t \in Slot : phase'[t] \in Posting => phase[t] \in Posting
            /\ \A t \in Slot : phase'[t] # "free" =>
                 phase[t] # "free" /\ (phase'[t] \in Posting \/ phase'[t] = phase[t])
            /\ \E t \in Slot : phase[t] # "free"
        BY <3>1, <2>6, OneRound DEF Posting
      <3> QED
        BY <3>1, <3>2, <3>3, ScreenPosted
    <2>7. cmp[s].index \in File
      BY OneRound DEF Comparisons
    <2>8. CASE PostResult(s)
      <3>1. Block("result", s, cmp[s].index) \in Blocks /\ Block("result", s, cmp[s].index).what = "result"
        BY <2>7, BlockTyped DEF Block
      <3> QED
        BY <2>6, <2>8, <3>1 DEF PostResult, Posting
    <2>9. CASE PostFinished(s)
      <3>1. /\ Status("Finished", s) \in Blocks /\ Status("Finished", s).what = "Finished"
            /\ Status("Finished", s).file = 0
        BY BlankTyped DEF Status, Block, StatusText
      <3> QED
        BY <2>6, <2>9, <3>1 DEF PostFinished, Posting
    <2> QED
      BY <1>3, <2>1, <2>2, <2>3, <2>4, <2>5, <2>8, <2>9 DEF Worker
  <1>4. CASE MainThread
    <2>1. CASE RunStatus \/ RunResult \/ RunDraw
      BY <2>1, StatusScreen, ResultScreen, DrawScreen
    <2>2. CASE ExtractFile(Main) \/ SizeMatrix(Main) \/ FillMatrix(Main) \/ FinishDraw
      BY <2>2, DrawingScreen
    <2>3. CASE DrawAborts \/ MatrixAborts(Main) \/ TimesAbort(Main)
      BY <2>3, AbortScreen DEF DrawAborts, MatrixAborts, TimesAbort
    <2> QED
      BY <1>4, <2>1, <2>2, <2>3 DEF MainThread
  <1> QED
    BY <1>1, <1>2, <1>3, <1>4 DEF Next, Running

\* A user who waits for "Finished" sees a screen that agrees with itself: when
\* it says so and a result is shown, the name and the matrices are of that round.
THEOREM PatientScreen == ASSUME Patient PROVE Spec => []ScreenAgrees
  <1>1. Init => Screen
    <2> SUFFICES ASSUME Init PROVE Screen
      OBVIOUS
    <2>1. /\ Len(mainQueue) = 0 /\ lbResult = Blank /\ work[Main].pc = "idle"
          /\ \A s \in Slot : phase[s] = "free"
      BY DEF Init, Idle, Agent
    <2> QED
      BY <2>1 DEF Screen, DrawnFirst, DrawnBy, OnScreen, NewRound, Plain, Posting
  <1>2. PInv /\ Screen /\ [Next]_vars => Screen'
    BY NextScreen
  <1>3. Screen => ScreenAgrees
    <2> SUFFICES ASSUME Screen, lbStatus.what = "Finished", lbResult # Blank
                 PROVE  /\ lbResult.slot = lbStatus.slot
                        /\ similarity.by = <<Main, lbStatus.slot, lbResult.file>>
      BY DEF ScreenAgrees
    <2> QED
      BY DEF Screen, OnScreen
  <1> QED
    BY <1>1, <1>2, <1>3, PatientInvariance, PTL DEF Spec
=============================================================================
