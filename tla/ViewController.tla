--------------------------- MODULE ViewController ---------------------------
(***************************************************************************)
(* The screen of the app: the record button, the recording it makes, the   *)
(* comparison of the recording with every bundled sound on the global      *)
(* queue, and the blocks the comparison posts back to the main queue.      *)
(*                                                                         *)
(* Three kinds of threads act here: the main thread (touches and the       *)
(* blocks of the main queue), one global-queue worker per comparison, and  *)
(* they share r.wav, the times read off it and off each sound, and the     *)
(* matrices similarityMatrix and nearLineMatrix, with no lock.             *)
(*                                                                         *)
(* A slot is one round: the AERecorder a press creates and the comparison  *)
(* its release starts.  It is free again when the label shows the          *)
(* "Finished" of that comparison, so the number of slots bounds the        *)
(* recordings whose comparison is outstanding, and nothing else.           *)
(***************************************************************************)
EXTENDS Integers, Sequences

CONSTANTS
  Slot,        \* the rounds that can be outstanding at a time
  NoSlot,      \* nil
  Main,        \* the main thread
  NumFiles,    \* how many sounds DataManager lists
  DbLen,       \* the frames of features of each of them, cut by the times of any
  UserLen,     \* the numbers of frames a recording may have
  MaxScore,    \* scores are abstracted to the ranks 0..MaxScore
  MaxPending,  \* bound: a touch is handled only with fewer blocks pending
  Patient      \* TRUE: the user waits for "Finished" before pressing again

File == 0..NumFiles-1

Agent == Slot \cup {Main}

ASSUME SlotAssumption == NoSlot \notin Slot /\ Main \notin Slot /\ NoSlot # Main

ASSUME DataAssumption ==
  /\ NumFiles \in Nat \ {0}
  /\ DbLen \in [File \X File -> Nat]
  /\ \A f \in File : DbLen[<<f, f>>] > 0
  /\ UserLen \in SUBSET Nat
  /\ MaxScore \in Nat
  /\ MaxPending \in Nat
  /\ Patient \in BOOLEAN

VARIABLES
  finger,      \* is the button touched?
  recorder,    \* _recorder
  wav,         \* r.wav: whose recording it holds, and whether it is closed
  phase,       \* how far each slot's round has come
  cmp,         \* the locals of _comparePath, for each slot
  userInfo,    \* _userVoiceFileInfo: the recording whose times it holds
  fileInfo,    \* _databaseVoiceFileInfo: the sound whose times it holds
  work,        \* the matrix computation each thread is in, if any
  similarity,  \* similarityMatrix: its size, and the computation that filled it
  mainQueue,   \* the blocks of the main queue
  lbStatus,    \* the status label: the block that set it
  lbResult,    \* the result label: the block that set it
  aborted      \* an assertion or an uncaught exception ended the app

vars == <<finger, recorder, wav, phase, cmp, userInfo, fileInfo, work, similarity,
          mainQueue, lbStatus, lbResult, aborted>>

StatusText == {"Recording", "Calculating", "Finished", "Error"}

Block(what, s, f) == [what |-> what, slot |-> s, file |-> f]

Status(text, s) == Block(text, s, 0)

Blank == Block("Blank", NoSlot, 0)

Idle == [pc |-> "idle", slot |-> NoSlot, file |-> 0, cut |-> 0]

NotCompared == [frames |-> 0, source |-> NoSlot, next |-> 0, score |-> 0,
                index |-> 0, returned |-> [f \in File |-> -1]]

NoRecording == [owner |-> NoSlot, closed |-> TRUE]

NoMatrix == [rows |-> 0, cols |-> 0, by |-> <<Main, NoSlot, 0>>]

Init ==
  /\ finger = "up"
  /\ recorder = NoSlot
  /\ wav = NoRecording
  /\ phase = [s \in Slot |-> "free"]
  /\ cmp = [s \in Slot |-> NotCompared]
  /\ userInfo = NoSlot
  /\ fileInfo = 0
  /\ work = [a \in Agent |-> Idle]
  /\ similarity = NoMatrix
  /\ mainQueue = <<>>
  /\ lbStatus = Blank
  /\ lbResult = Blank
  /\ aborted = FALSE

\* The process ends and nothing of its state is left.
Abort ==
  /\ finger' = "up"
  /\ recorder' = NoSlot
  /\ wav' = NoRecording
  /\ phase' = [s \in Slot |-> "free"]
  /\ cmp' = [s \in Slot |-> NotCompared]
  /\ userInfo' = NoSlot
  /\ fileInfo' = 0
  /\ work' = [a \in Agent |-> Idle]
  /\ similarity' = NoMatrix
  /\ mainQueue' = <<>>
  /\ lbStatus' = Blank
  /\ lbResult' = Blank
  /\ aborted' = TRUE

-----------------------------------------------------------------------------
(* Touches.  The main thread handles one when it is not inside a block.    *)

Outstanding(s) == phase[s] \notin {"free", "recording"}

MainReady ==
  /\ work[Main].pc = "idle"
  /\ Len(mainQueue) < MaxPending

\* touchDown.  A patient user has seen every comparison finish.
Press ==
  /\ MainReady
  /\ finger = "up"
  /\ Patient => \A s \in Slot : ~Outstanding(s)
  /\ finger' = "down"
  /\ lbResult' = Blank

\* startRecording: with a recorder it only changes the labels.
PressWhileRecording ==
  /\ Press
  /\ recorder # NoSlot
  /\ mainQueue' = Append(mainQueue, Status("Recording", recorder))
  /\ UNCHANGED <<recorder, wav, phase, cmp, userInfo, fileInfo, work, similarity,
                 lbStatus, aborted>>

\* Mutant: without `if ( _recorder ) return`.
StartRecordingTwice(s) ==
  /\ Press
  /\ phase[s] = "free"
  /\ recorder' = s
  /\ phase' = [phase EXCEPT ![s] = "recording"]
  /\ wav' = [owner |-> s, closed |-> FALSE]
  /\ mainQueue' = Append(mainQueue, Status("Recording", s))
  /\ UNCHANGED <<cmp, userInfo, fileInfo, work, similarity, lbStatus, aborted>>

\* startRecording: beginRecording erases r.wav and opens it for writing.
StartRecording(s) ==
  /\ Press
  /\ recorder = NoSlot
  /\ phase[s] = "free"
  /\ recorder' = s
  /\ phase' = [phase EXCEPT ![s] = "recording"]
  /\ wav' = [owner |-> s, closed |-> FALSE]
  /\ mainQueue' = Append(mainQueue, Status("Recording", s))
  /\ UNCHANGED <<cmp, userInfo, fileInfo, work, similarity, lbStatus, aborted>>

\* startRecording: beginRecording fails, with r.wav already erased or not.
StartRecordingFails ==
  /\ Press
  /\ recorder = NoSlot
  /\ wav' \in {wav, NoRecording}
  /\ mainQueue' = mainQueue \o <<Status("Recording", NoSlot), Status("Error", NoSlot)>>
  /\ UNCHANGED <<recorder, phase, cmp, userInfo, fileInfo, work, similarity,
                 lbStatus, aborted>>

\* touchUpInside and touchUpOutside.
Release ==
  /\ MainReady
  /\ finger = "down"
  /\ finger' = "up"
  /\ mainQueue' = Append(mainQueue, Status("Calculating", recorder))

\* stopRecording: with no recorder it only changes the status.
ReleaseWithoutRecorder ==
  /\ Release
  /\ recorder = NoSlot
  /\ UNCHANGED <<recorder, wav, phase, cmp, userInfo, fileInfo, work, similarity,
                 lbStatus, lbResult, aborted>>

\* Mutant: without finishRecording.
StopWithoutFinishing ==
  /\ Release
  /\ recorder # NoSlot
  /\ phase' = [phase EXCEPT ![recorder] = "queued"]
  /\ recorder' = NoSlot
  /\ UNCHANGED <<wav, cmp, userInfo, fileInfo, work, similarity, lbStatus,
                 lbResult, aborted>>

\* stopRecording: closes r.wav and dispatches _comparePath.
StopRecording ==
  /\ Release
  /\ recorder # NoSlot
  /\ wav' = [wav EXCEPT !.closed = TRUE]
  /\ phase' = [phase EXCEPT ![recorder] = "queued"]
  /\ recorder' = NoSlot
  /\ UNCHANGED <<cmp, userInfo, fileInfo, work, similarity, lbStatus, lbResult,
                 aborted>>

\* touchCancel has no handler: the recording goes on.
CancelTouch ==
  /\ MainReady
  /\ finger = "down"
  /\ finger' = "up"
  /\ UNCHANGED <<recorder, wav, phase, cmp, userInfo, fileInfo, work, similarity,
                 mainQueue, lbStatus, lbResult, aborted>>

-----------------------------------------------------------------------------
(* _comparePath, on a worker of the global queue.                          *)

\* A reader of r.wav finds a recorder writing it, or no recording, or it uses
\* the times of another recording.
Disturbed(s) ==
  \/ ~wav.closed
  \/ wav.owner = NoSlot
  \/ phase[s] = "stored" /\ userInfo # wav.owner

Read(s) == IF Disturbed(s) THEN NoSlot ELSE wav.owner

\* _getPreProcessInfo: the first reader looks for the times of the recording.
Preprocess(s) ==
  /\ phase[s] = "queued"
  /\ phase' = [phase EXCEPT ![s] = "preprocessed"]
  /\ cmp' = [cmp EXCEPT ![s] = [NotCompared EXCEPT !.source = Read(s)]]
  /\ UNCHANGED <<finger, recorder, wav, userInfo, fileInfo, work, similarity,
                 mainQueue, lbStatus, lbResult, aborted>>

\* _getPreProcessInfo: the times are stored where every round stores them.
StoreInfo(s) ==
  /\ phase[s] = "preprocessed"
  /\ phase' = [phase EXCEPT ![s] = "stored"]
  /\ userInfo' = cmp[s].source
  /\ UNCHANGED <<finger, recorder, wav, cmp, fileInfo, work, similarity,
                 mainQueue, lbStatus, lbResult, aborted>>

\* Times that no other thread will read back are forgotten: each stores its own
\* before it reads any, so that the value left in the variable matters to nobody.
ReadBack(info, others, none) == IF others THEN info ELSE none

\* _getPreProcessInfo: the second reader extracts the features, between the
\* times now stored.
ExtractFeatures(s) ==
  /\ phase[s] = "stored"
  /\ phase' = [phase EXCEPT ![s] = "comparing"]
  /\ \E n \in UserLen :
       cmp' = [cmp EXCEPT ![s] = [NotCompared EXCEPT !.frames = n, !.source = Read(s)]]
  /\ userInfo' = ReadBack(userInfo, \E t \in Slot \ {s} : phase[t] = "stored", NoSlot)
  /\ UNCHANGED <<finger, recorder, wav, fileInfo, work, similarity,
                 mainQueue, lbStatus, lbResult, aborted>>

\* Opening, or seeking in, a file that is being written, is gone, or is shorter
\* than the times say may fail: the exception, or assert(success), ends the app.
ReadFails(s) ==
  /\ phase[s] \in {"queued", "stored"}
  /\ Disturbed(s)
  /\ Abort

\* Mutant: `s >= score`.
ReturnedLastBest(s, result) ==
  LET f == cmp[s].next
      better == result >= cmp[s].score
  IN  cmp' = [cmp EXCEPT ![s] =
        [frames |-> @.frames, source |-> @.source, next |-> f + 1,
         score |-> IF better THEN result ELSE @.score,
         index |-> IF better THEN f ELSE @.index,
         returned |-> [@.returned EXCEPT ![f] = result]]]

\* Mutant: the index counts from one.
ReturnedFromOne(s, result) ==
  LET f == cmp[s].next
      better == result > cmp[s].score
  IN  cmp' = [cmp EXCEPT ![s] =
        [frames |-> @.frames, source |-> @.source, next |-> f + 1,
         score |-> IF better THEN result ELSE @.score,
         index |-> IF better THEN f + 1 ELSE @.index,
         returned |-> [@.returned EXCEPT ![f] = result]]]

\* One turn of the loop over the files, given what _scoring returned.
Returned(s, result) ==
  LET f == cmp[s].next
      better == result > cmp[s].score
  IN  cmp' = [cmp EXCEPT ![s] =
        [frames |-> @.frames, source |-> @.source, next |-> f + 1,
         score |-> IF better THEN result ELSE @.score,
         index |-> IF better THEN f ELSE @.index,
         returned |-> [@.returned EXCEPT ![f] = result]]]

\* _scoring returns at once when the recording has no features.
ScoreEmpty(s) ==
  /\ phase[s] = "comparing"
  /\ work[s].pc = "idle"
  /\ cmp[s].next < NumFiles
  /\ cmp[s].frames = 0
  /\ Returned(s, -1)
  /\ UNCHANGED <<finger, recorder, wav, phase, userInfo, fileInfo, work,
                 similarity, mainQueue, lbStatus, lbResult, aborted>>

\* _getPreProcessInfo of a sound, by _scoring or _draw: its times are found.
ReadTimes(s, f) == [pc |-> "extract", slot |-> s, file |-> f, cut |-> f]

\* _scoring finds the times of the next file, and stores them where every round
\* and every drawing does.
BeginScoring(s) ==
  /\ phase[s] = "comparing"
  /\ work[s].pc = "idle"
  /\ cmp[s].next < NumFiles
  /\ cmp[s].frames > 0
  /\ work' = [work EXCEPT ![s] = ReadTimes(s, cmp[s].next)]
  /\ fileInfo' = cmp[s].next
  /\ UNCHANGED <<finger, recorder, wav, phase, cmp, userInfo, similarity,
                 mainQueue, lbStatus, lbResult, aborted>>

\* Mutant: a posted block goes ahead of those already waiting.
PostAhead(s, from, to, block) ==
  /\ phase[s] = from
  /\ work[s].pc = "idle"
  /\ phase' = [phase EXCEPT ![s] = to]
  /\ mainQueue' = <<block>> \o mainQueue
  /\ UNCHANGED <<finger, recorder, wav, cmp, userInfo, fileInfo, work, similarity,
                 lbStatus, lbResult, aborted>>

\* The three dispatch_asyncs at the end of _comparePath.
Post(s, from, to, block) ==
  /\ phase[s] = from
  /\ work[s].pc = "idle"
  /\ phase' = [phase EXCEPT ![s] = to]
  /\ mainQueue' = Append(mainQueue, block)
  /\ UNCHANGED <<finger, recorder, wav, cmp, userInfo, fileInfo, work, similarity,
                 lbStatus, lbResult, aborted>>

PostDraw(s) ==
  /\ cmp[s].next = NumFiles
  /\ Post(s, "comparing", "drawPosted", Block("draw", s, cmp[s].index))

PostResult(s) == Post(s, "drawPosted", "resultPosted", Block("result", s, cmp[s].index))

\* Mutant: a round that no sound matches ends without telling.
PostFinishedOnMatch(s) ==
  cmp[s].score > 0 /\ Post(s, "resultPosted", "posted", Status("Finished", s))

PostFinished(s) == Post(s, "resultPosted", "posted", Status("Finished", s))

-----------------------------------------------------------------------------
(* The computation _scoring and _draw have in common.  It extracts the     *)
(* features of a sound, between the times now stored, and its other three  *)
(* steps work on the shared matrices: sizing them, filling them, and       *)
(* reading the best region off them.                                       *)

ExtractFile(a) ==
  /\ work[a].pc = "extract"
  /\ work' = [work EXCEPT ![a] =
                [pc |-> "size", slot |-> @.slot, file |-> @.file, cut |-> fileInfo]]
  /\ fileInfo' = ReadBack(fileInfo, \E b \in Agent \ {a} : work[b].pc = "extract", 0)
  /\ UNCHANGED <<finger, recorder, wav, phase, cmp, userInfo, similarity,
                 mainQueue, lbStatus, lbResult, aborted>>

\* The times of another sound lie beyond the end: read_floats fails, and
\* get_mfcc_features asserts that it does not.
TimesAbort(a) ==
  /\ work[a].pc = "extract"
  /\ fileInfo # work[a].file
  /\ Abort

Cols(a) == DbLen[<<work[a].file, work[a].cut>>]

\* _scoring: with no features the last index wraps around, and length is one.
TargetLength(a) == IF Cols(a) = 0 THEN 1 ELSE Cols(a)

\* A recording shorter than the sound is padded to its length.
Rows(a) ==
  LET frames == cmp[work[a].slot].frames
  IN  IF frames < TargetLength(a) THEN TargetLength(a) ELSE frames

By(a) == <<a, work[a].slot, work[a].file>>

SizeMatrix(a) ==
  /\ work[a].pc = "size"
  /\ similarity' = [similarity EXCEPT !.rows = Rows(a), !.cols = Cols(a)]
  /\ work' = [work EXCEPT ![a].pc = "fill"]
  /\ UNCHANGED <<finger, recorder, wav, phase, cmp, userInfo, fileInfo, mainQueue,
                 lbStatus, lbResult, aborted>>

\* The assertions of genSimilarityMatrix.
SizeAsserted(a) == similarity.rows = Rows(a) /\ similarity.cols = Cols(a)

\* genSimilarityMatrix and normaliseMatrix.
FillMatrix(a) ==
  /\ work[a].pc = "fill"
  /\ SizeAsserted(a)
  /\ similarity' = [similarity EXCEPT !.by = By(a)]
  /\ work' = [work EXCEPT ![a].pc = "score"]
  /\ UNCHANGED <<finger, recorder, wav, phase, cmp, userInfo, fileInfo, mainQueue,
                 lbStatus, lbResult, aborted>>

\* The assertions of bestMatchLocation.
RegionAsserted(a) == 0 < Cols(a) /\ Cols(a) <= similarity.cols /\ Cols(a) <= similarity.rows

\* bestMatchLocation, nearLineMatrix and matchScoreSingleRegion, for _scoring.
ScoreFile(s) ==
  /\ work[s].pc = "score"
  /\ RegionAsserted(s)
  /\ \E result \in 0..MaxScore : Returned(s, result)
  /\ work' = [work EXCEPT ![s] = Idle]
  /\ UNCHANGED <<finger, recorder, wav, phase, userInfo, fileInfo, similarity,
                 mainQueue, lbStatus, lbResult, aborted>>

\* The same, for _draw, which then hands both matrices to the views.
FinishDraw ==
  /\ work[Main].pc = "score"
  /\ RegionAsserted(Main)
  /\ work' = [work EXCEPT ![Main] = Idle]
  /\ UNCHANGED <<finger, recorder, wav, phase, cmp, userInfo, fileInfo, similarity,
                 mainQueue, lbStatus, lbResult, aborted>>

\* A size assertion fails; or no region scores, startRow is read
\* uninitialised, and the rows it names are outside the matrix.
MatrixAborts(a) ==
  /\ \/ work[a].pc = "fill" /\ ~SizeAsserted(a)
     \/ work[a].pc = "score"
  /\ Abort

-----------------------------------------------------------------------------
(* The blocks of the main queue, one at a time and in order.               *)

RunBlock(what) ==
  /\ work[Main].pc = "idle"
  /\ mainQueue # <<>>
  /\ Head(mainQueue).what \in what
  /\ mainQueue' = Tail(mainQueue)

\* _setStatus.  The "Finished" of a comparison ends its round.
RunStatus ==
  /\ RunBlock(StatusText)
  /\ lbStatus' = Head(mainQueue)
  /\ phase' = [s \in Slot |-> IF Head(mainQueue) = Status("Finished", s)
                              THEN "free" ELSE phase[s]]
  /\ UNCHANGED <<finger, recorder, wav, cmp, userInfo, fileInfo, work, similarity,
                 lbResult, aborted>>

RunResult ==
  /\ RunBlock({"result"})
  /\ lbResult' = Head(mainQueue)
  /\ UNCHANGED <<finger, recorder, wav, phase, cmp, userInfo, fileInfo, work,
                 similarity, lbStatus, aborted>>

\* _draw, up to the extraction of the features of the sound.
RunDraw ==
  /\ RunBlock({"draw"})
  /\ work' = [work EXCEPT ![Main] = ReadTimes(Head(mainQueue).slot, Head(mainQueue).file)]
  /\ fileInfo' = Head(mainQueue).file
  /\ UNCHANGED <<finger, recorder, wav, phase, cmp, userInfo, similarity, lbStatus,
                 lbResult, aborted>>

\* _draw pads with userVoiceFeatures.back() even when there are no features.
DrawAborts ==
  /\ work[Main].pc = "idle"
  /\ mainQueue # <<>>
  /\ Head(mainQueue).what = "draw"
  /\ cmp[Head(mainQueue).slot].frames = 0
  /\ Abort

-----------------------------------------------------------------------------
User ==
  \/ PressWhileRecording
  \/ \E s \in Slot : StartRecording(s)
  \/ StartRecordingFails
  \/ ReleaseWithoutRecorder
  \/ StopRecording
  \/ CancelTouch

Worker(s) ==
  \/ Preprocess(s)
  \/ StoreInfo(s)
  \/ ExtractFeatures(s)
  \/ ReadFails(s)
  \/ ScoreEmpty(s)
  \/ BeginScoring(s)
  \/ ExtractFile(s)
  \/ TimesAbort(s)
  \/ SizeMatrix(s)
  \/ FillMatrix(s)
  \/ ScoreFile(s)
  \/ MatrixAborts(s)
  \/ PostDraw(s)
  \/ PostResult(s)
  \/ PostFinished(s)

MainThread ==
  \/ RunStatus
  \/ RunResult
  \/ RunDraw
  \/ DrawAborts
  \/ ExtractFile(Main)
  \/ TimesAbort(Main)
  \/ SizeMatrix(Main)
  \/ FillMatrix(Main)
  \/ FinishDraw
  \/ MatrixAborts(Main)

Running == ~aborted /\ (User \/ (\E s \in Slot : Worker(s)) \/ MainThread)

\* viewDidLoad of a new launch.  Every recording erases r.wav, so a file an
\* earlier run left behind is never read.
Launch ==
  /\ aborted
  /\ aborted' = FALSE
  /\ UNCHANGED <<finger, recorder, wav, phase, cmp, userInfo, fileInfo, work,
                 similarity, mainQueue, lbStatus, lbResult>>

Next == Running \/ Launch

Spec == Init /\ [][Next]_vars

\* The global queue runs every block it is given and the run loop drains the
\* main queue; nothing makes the user touch anything.
Fairness ==
  /\ WF_vars(~aborted /\ MainThread)
  /\ \A s \in Slot : WF_vars(~aborted /\ Worker(s))

FairSpec == Spec /\ Fairness
-----------------------------------------------------------------------------
Phases == {"free", "recording", "queued", "preprocessed", "stored", "comparing",
           "drawPosted", "resultPosted", "posted"}

Blocks == [what : (StatusText \ {"Finished"}) \cup {"Blank"}, slot : Slot \cup {NoSlot}, file : File]
            \cup [what : {"draw", "result", "Finished"}, slot : Slot, file : File]

Comparisons == [frames : UserLen \cup {0}, source : Slot \cup {NoSlot}, next : 0..NumFiles,
                score : 0..MaxScore, index : File, returned : [File -> -1..MaxScore]]

Recordings == [owner : Slot \cup {NoSlot}, closed : BOOLEAN]

Works == {Idle} \cup
         [pc : {"extract", "size", "fill", "score"}, slot : Slot, file : File, cut : File]

Matrices == [rows : Nat, cols : Nat, by : Agent \X (Slot \cup {NoSlot}) \X File]

\* Every variable has its type; a computation in progress, and a block that
\* draws, names a match or finishes, is of some round.
TypeOK ==
  /\ finger \in {"up", "down"}
  /\ recorder \in Slot \cup {NoSlot}
  /\ wav \in Recordings
  /\ phase \in [Slot -> Phases]
  /\ cmp \in [Slot -> Comparisons]
  /\ userInfo \in Slot \cup {NoSlot}
  /\ fileInfo \in File
  /\ work \in [Agent -> Works]
  /\ similarity \in Matrices
  /\ mainQueue \in Seq(Blocks)
  /\ lbStatus \in Blocks
  /\ lbResult \in Blocks
  /\ aborted \in BOOLEAN

\* r.wav is open for writing exactly while its owner is the recorder of the
\* screen: no press leaves a second writer behind (the `if ( _recorder ) return`
\* of startRecording and the order of the statements of stopRecording).
OneWriter ==
  /\ wav.closed <=> recorder = NoSlot
  /\ recorder # NoSlot => wav.owner = recorder
  /\ \A s \in Slot : phase[s] = "recording" <=> recorder = s

\* The blocks of the main queue that a comparison posts, and their order.
RoundBlocks == {"draw", "result", "Finished"}

Ahead(a, b) == a # b /\ (a = "draw" \/ b = "Finished")

\* The phases of a round that has posted its drawing.
Posting == {"drawPosted", "resultPosted", "posted"}

\* f is the first file with the best score, or the first of all when no score
\* is positive: what the loop of _comparePath is to find.
FirstBest(returned, f) ==
  \/ /\ returned[f] > 0
     /\ \A g \in File : returned[g] <= returned[f]
     /\ \A g \in 0..f-1 : returned[g] < returned[f]
  \/ f = 0 /\ \A g \in File : returned[g] <= 0

\* A block that draws or names a match was posted by a comparison that has
\* scored every file, and the file it names is the first best of the scores
\* that comparison still holds, whatever the other rounds do meanwhile.
ResultIsFirstBest ==
  \A i \in 1..Len(mainQueue) :
    mainQueue[i].what \in {"draw", "result"} =>
      LET c == cmp[mainQueue[i].slot]
      IN  c.next = NumFiles /\ FirstBest(c.returned, mainQueue[i].file)

\* The main queue shows a round in order: its drawing is ahead of its result,
\* both are ahead of its "Finished", each is there at most once, and a free
\* slot has nothing left to run or being drawn.
RoundOrder ==
  /\ \A i, j \in 1..Len(mainQueue) :
       /\ i < j
       /\ mainQueue[i].slot = mainQueue[j].slot
       /\ mainQueue[i].what \in RoundBlocks
       /\ mainQueue[j].what \in RoundBlocks
       => Ahead(mainQueue[i].what, mainQueue[j].what)
  /\ \A i \in 1..Len(mainQueue) :
       mainQueue[i].what \in RoundBlocks => phase[mainQueue[i].slot] \in Posting
  /\ work[Main].pc # "idle" => phase[work[Main].slot] \in Posting

\* While the status label shows the "Calculating..." of a round, that round is
\* still outstanding: its own "Finished" cannot have been shown before.
CalculatingMeansWorking ==
  lbStatus.what = "Calculating" /\ lbStatus.slot # NoSlot => Outstanding(lbStatus.slot)

\* Every recording that is stopped is compared and its "Finished" shown, unless
\* the app ends.
RoundCompletes ==
  \A s \in Slot : phase[s] = "queued" ~> (phase[s] = "free" \/ aborted)

(* What a patient user may rely on, and nobody else.                       *)

\* No two threads are inside the shared matrices at the same time.
MatrixExclusive ==
  \A a, b \in Agent : work[a].pc # "idle" /\ work[b].pc # "idle" => a = b

\* genSimilarityMatrix finds the sizes it asserts, and the scores are read off
\* the matrix the same computation filled.
OwnMatrix ==
  \A a \in Agent :
    /\ work[a].pc = "fill" => SizeAsserted(a)
    /\ work[a].pc = "score" => SizeAsserted(a) /\ similarity.by = By(a)

\* The features a comparison scores are those of its own recording.
OwnRecording ==
  \A s \in Slot :
    phase[s] \in {"preprocessed", "stored", "comparing"} \cup Posting => cmp[s].source = s

\* The features of a sound are cut by its own times: what a thread stored in
\* _databaseVoiceFileInfo is still there when it reads it back.
OwnTimes == \A a \in Agent : work[a].pc # "extract" => work[a].cut = work[a].file

\* When the label says "Finished" and a result is shown, the name and the
\* matrices on the screen are those of that round.
ScreenAgrees ==
  lbStatus.what = "Finished" /\ lbResult # Blank =>
    /\ lbResult.slot = lbStatus.slot
    /\ similarity.by = <<Main, lbStatus.slot, lbResult.file>>

(* What the comments and assertions of the code say, and the code breaks.  *)

\* genSimilarityMatrix is called with a matrix of the size of its arguments
\* (SUTDMFCCHelperFunctions.cpp:43-44), however the user presses.
MatrixSizesAgree == \A a \in Agent : work[a].pc = "fill" => SizeAsserted(a)
=============================================================================
