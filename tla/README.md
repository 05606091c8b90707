# A verification project for Compare

Compare is an iOS app: it records a word while a button is held, compares the
recording with every bundled sound by the similarity of their MFCC features, and
names and draws the most similar one. This directory holds TLA+ modules that
model it, TLC configurations that check them on small instances, and proofs,
checked by TLAPS, of what holds for every value of the constants.

Paths below are relative to `src/Compare/Compare/`; `TAAE` is
`src/Compare/Pods/TheAmazingAudioEngine/`.

## 1. The system

| component | state it keeps | operations | interacts with |
|---|---|---|---|
| `ViewController.mm` | `_recorder`, `r.wav`, `similarityMatrix`, `nearLineMatrix`, `_userVoiceFileInfo`, `_databaseVoiceFileInfo`, the labels | `startRecording:`, `stopRecording:`, `_comparePath:`, `_scoring:`, `_draw:`, `_setStatus:` | touches on the main thread; one block of the global queue per comparison; blocks posted to the main queue |
| `DataManager.mm` | the list of bundled sounds | `shared`, `_generateDB` | asked by every comparison, on its thread |
| `SUTDMFCCHelperFunctions.cpp` | none; works on the controller's matrix | `genSimilarityMatrix`, `normaliseMatrix`, `bestMatchLocation`, `matchScoreSingleRegion`, `matchScoreSplitRegion` | called by `_scoring` and `_draw` |
| `WordMatch/WordMatchSession.cpp` | expected and stored features, `overlap_buffer`, the border sample, samples read | create, feed, reset, destroy, is-completed | a capture callback feeds it sample buffers; `MFCCProcessor` |
| `TAAE/Modules/AERecorder.m`, `AEAudioFileWriter.m` | `_recording`, the `ExtAudioFile` | begin, finish, `audioCallback`, `reportError` | main thread begins and finishes; audio thread calls back |
| `TAAE AEAudioController.m` | the input table, the callbacks of the top channel | add and remove receivers; a render | main thread and audio thread |
| `TAAE AEMessageQueue.m` | two ring buffers | asynchronous and synchronous exchanges, messages to the main thread | carries blocks between the two threads |
| `WordMatch/AudioFileReader.cpp` | the reading position of a file | `read_floats`, `preprocess`, `reset` | every comparison reads `r.wav` and each sound |
| `WordMatch/MFCCUtils.cpp`, `MFCCProcessor.cpp`, `MelFilterBank.cpp`, `TriangleFilter.cpp` | windows, filters | `get_mfcc_features`, `process` | between the reader and the features |
| `WordMatch/dtw.hpp`, `WordMatch.cpp`, `benchmark.cpp` | the DTW tables; the benchmark's feature cache | distance, path; benchmark table | the C interface and the benchmark, not the app's screen |
| `MatrixOuput.mm`, `MatrixController.mm`, `AppDelegate.m`, `NSFileManager+SUTD.m`, `NSDictionary+ES.m`, `DebugUtils.cpp` | nothing that matters here | drawing, helpers | |
| `boost_ext/`, `CAPublicUtility/`, the rest of TAAE | | | vendored |

What is hard in it:

- **Concurrency without locks.** Nothing stops the user from recording again while
  the last recording is being compared, so comparisons overlap; each, and each
  drawing on the main thread, resizes, fills and reads the one `similarityMatrix`,
  reads the one `r.wav` a new recording overwrites, and keeps the times it found in a
  file in an instance variable that any other may overwrite before it reads them back.
- **Ordering.** What a comparison says reaches the screen as separate blocks of
  the main queue, interleaved with those of other rounds.
- **A real-time thread that holds no references.** The recorder and the tables it
  is found in are freed by response blocks that have been to the audio thread and
  back; messages are dropped when a buffer is full; an error report carries a bare
  address.
- **Boundaries in unsigned arithmetic.** Windows knitted from two sample buffers,
  padding, regions of a matrix, the edges of a filter, all in `size_t` or less.
- **Files read in packets.** Where a sound begins and ends is pieced together from
  positions in a packet, in the packet before and in the file, and the last packet is short.
- **Numbers that are no numbers.** A distance of features that hold a NaN compares with
  nothing and reaches an `int`; a sum of floats is cut to an integer at every step.
- **Failure half way.** A failed read, a file without features, an exception between two
  insertions into a cache that outlives the call.

Each place where this bites is a hazard of `PROJECT.json`, with the property that
speaks of it or the reason why none does.

What makes each component correct: the controller - one writer, own matrices, own
recording, the first best result, ordered messages, every round finishes; the
scoring - the first best region is found, a start row is always set, padding resembles
nothing; the session - windows half a window apart without
stale samples, bounded carry, no overflow, progress; the recorder - nothing freed is
used, nothing is written to a closed file, everything is released; the reader - a sound
begins at its first loud sample and is trimmed inside its file; the features - no window is
missing or cut short; the filters - every weight written once, beyond the magnitudes
only one of the Nyquist bin; the warping - the least distance over all paths; the benchmark - every file
extracted once (and which pairs are compared, which is not all of them).

## 2. The modules

### ViewController

One screen, with `Slot` rounds outstanding at a time. A round is what one press
starts: its recorder, then its comparison. `phase[s]` is how far it has come, and
the slot is free again when the main thread runs the block that shows "Finished".
The number of slots bounds outstanding rounds and nothing else.

| code | model |
|---|---|
| touchDown / touchUp, connected in `Main.storyboard` | `Press`, `Release`; `CancelTouch` is a touch the system cancels, for which nothing is connected |
| `startRecording:` | `StartRecording`, `PressWhileRecording` (the early return), `StartRecordingFails` |
| `stopRecording:` | `StopRecording`, `ReleaseWithoutRecorder` (the label is set all the same) |
| `_comparePath:` up to the loop | `Preprocess`, `StoreInfo`, `ExtractFeatures`, `ReadFails`: the two reads of `r.wav`, apart, and the times stored in `_userVoiceFileInfo` between them |
| one turn of the loop | `BeginScoring` (the times stored in `_databaseVoiceFileInfo`), `ExtractFile` (read back), `SizeMatrix`, `FillMatrix`, `ScoreFile`, or `ScoreEmpty` for a recording without features |
| its `dispatch_async` calls | `Post`: draw, result, "Finished", one at a time |
| the blocks of the main queue | `RunStatus`, `RunResult`, `RunDraw`; the last runs the same extraction and matrix computation on the main thread |
| a failed assertion, an uncaught exception, undefined behaviour that ends the app | `ReadFails`, `TimesAbort`, `MatrixAborts`, `DrawAborts`, `Abort`; `Launch` starts the app again |

`_getPreProcessInfo:` finds the times of a file, stores them where every round and every
drawing stores them, and extracts the features between the times it reads back. Of the
times only whose they are is kept: `userInfo` a recording, `fileInfo` a sound, `cut` the sound
whose times cut the features (`DbLen` says how many frames that leaves). A value that no
other thread will read back is forgotten (`ReadBack`), for each thread stores before it reads; a
recording read with another's times counts as nobody's (`Disturbed`). `ReadFails` is possible whenever `r.wav`
is being written, is gone, or is read with another's times.

The matrix computation is three steps (sizes, fill, score), for those are the points
at which another thread's resize matters; `nearLineMatrix` is sized, filled and
read with `similarityMatrix` and folded into it. Scores are ranks. `by` is a
history variable: which computation last wrote the matrices.

### Scoring

One call of `_scoring`, for every short recording and every short sound: a feature
is a number, and distances are exact where the code has floats. It follows the
code through `Pad` (the last feature becomes `MAXFLOAT` *before* it is copied),
`FillMatrix` (distances, then one minus distance over the threshold, cut at 0), the search
row by row (`TryRow`) with the single-region or the split-region score, and
`ScoreRegion`. `assert(height = width)` is modelled as the assignment it is; the assert
fails when the width is 0. A start row that no region set is any number.
Sharing is `ViewController`'s; here there is one thread.

### WordMatchSession

A sample is known by its position in the stream, a feature by the window it was made
from and the neighbour left of it. So the model tells apart what a mistake in
the indices would confuse, and the numerics of `MFCCProcessor` stay out. `Feed` is one
call: `Knitted` is `overlap_buffer` after the new samples were copied behind those
carried, `KnitFeatures` the one or two windows taken from it, `DirectFeatures` the
windows taken from the buffer itself, `Consume` what is carried on. `size_t`
wraps at `SizeMod`. Failing paths are actions of their own: `FeedRefused`, `FeedSkipped`,
`FeedUnusable` (read, counted, not used), `FeedImpossible` (the error the code calls
impossible), `FeedCrashes` (reads beyond the buffer or writes beyond `overlap_buffer`).
`CreateFails` covers the invalid arguments and the allocation that throws when the
expected number wraps around.

### Recorder

What `ViewController` has as two steps - begin and finish - opened up: the main
thread is inside `startRecording:` or `stopRecording:` (`main` says where), the audio
thread inside a render (`audio` says where), and the two exchange blocks through
buffers of `QueueLen` messages that drop what does not fit. A message stands for its
block and its response. References are sets of holders; `Alive(r)` is "somebody
retains it", queued blocks included. A callback is two steps, looking at `_recording`
and writing, since the main thread may close the file in between. The receivers of
a table are called in any order, which allows all that the code's order does.
`BeginFails` follows `beginRecordingToFileAtPath:` in setting `_recording` though it failed.
`AddOutput` is refused when the channel has `kMaximumCallbacksPerSource` callbacks; it does not
see those that are still to be added, so the array may be overrun (`CallbackCrashes`).
The response to `AddInput` runs `updateInputDeviceStatus`: it waits for the audio thread to leave its
messages, holds their processing, and queues more messages (`UpdateInputDeviceStatus`), which take
room in both buffers and whose responses may ask for the next update. What they change of formats and
converters is left out, so how many there are is any number that fits.

### AudioFile, FilterBank, FeatureExtraction

From a file to its features, in three modules. A file is a sequence of integers, of which
the sign and the size relative to the peak matter; a time is a position; a threshold in decibels
is how often it goes into the peak. A feature is told by where its window was read and which
sample was taken for its left neighbour.

| code | model |
|---|---|
| `AudioFileReader::preprocess`, first pass | `ReadPeak`, one packet at a time |
| its second pass | `BeginPacket` (the onset), `PassPacket`, `EndPacket` (the end, or none when the file is shorter than a packet); `process` keeps the tail of an older packet behind a short one |
| a read that fails in either pass | `ReadFails` |
| the last maximum, looked up from the back and used from the front | `Offset`, `EndLocation` |
| `MelFilterBank`, `TriangleFilter` constructors | `CheckArguments`, `AddFilter`, `TriangleFilter`; `size_` keeps its width (`SizeMod`); a falling side without length leaves the height, or a NaN, in its last element (`RightSide`) |
| the checks of `MFCCProcessor` | `Build` |
| `get_mfcc_features` | `ConstructProcessor`, `CountPackets`, `ReadWindow`, `SkipFailedRead`, `AssertFails`, `Finish` |

Two kinds of rounding are kept. The interval may be half a sample (`HopTwice`), so that the time
of a window and the sample it is read at differ; a position that falls between two samples
is read at either (`Seek`). A negative number of packets converted to `size_t` is undefined: it
becomes none or `Many`. `FilterBank` takes the edges as they come from the mel scale, any that
ascend.

### DTW and Benchmark

`DTW` is a pure module: `Warp` is the constructor with `minimum_distance` and `minimal_path`, written
as recursive functions on the cells, with NaN and infinity as distances of their own. Numbers are
counted in units, `Scale` of which are one, for any precision a float may have. A feature has
`feature_number` components; the distance of two is the square root of a sum cut to an
integer at each step, as `std::accumulate` from the `int` 0 does. `Warpings` and `Cost` are the reference
definition it is checked and proved against: all warping paths, and what each costs.

`Benchmark` fills the table cell by cell (`SameUtterance`, `LeaveOut`, `Compare`), with the static
cache of features in between. `ReadFails` and a file without features end a table by an exception -
before, between or after the insertions - and `calculate_benchmark_table` may begin the next with the
cache that is left.

### Rounds, and that ViewController implements it

`Rounds` is what the app promises, without threads, queues or matrices: a round is recorded,
stopped, decided in one step - with the first best of its scores -, shown once and over. Rounds
overlap, and have only the microphone and the result label in common. `Refinement` maps
`ViewController` to it: a round is "working" until its comparison posts, "answered" until the
main thread has run the block of its result, "shown" until its "Finished". `ImplementsRounds` says that
every step of `ViewController` is a step of `Rounds` or none; it holds for an impatient user too,
for what the shared matrices spoil is which scores there are and never which answer is given for
them.

### How they compose

`Refinement` puts `ViewController` under `Rounds`. `FeatureExtraction` extends `AudioFile` and `FilterBank` and
is their composition: the two modules have actions and invariants but no specification of their
own. `Benchmark` extends `DTW`. The others meet as steps: `ViewController`'s `StartRecording` is `Recorder`'s `Begin`, its
`StopRecording` is `FinishRecording` and `FinishWriting`; its `SizeMatrix`, `FillMatrix`, `ScoreFile` are `Scoring`'s whole
run, and its `Preprocess` and `ExtractFeatures` are `FeatureExtraction`'s. `WordMatchSession` is used by the streaming
interface only.

## 3. The runs

| run | instance | shows |
|---|---|---|
| `vc_any` | 2 slots, 2 sounds of 1 and 2 frames, recordings of 2, no score above 0, touches when no block is pending, any user, fairness | one writer; drawing, result and "Finished" of a round in this order; the first sound named when none matches; a "Calculating..." that follows a stop is true; every stopped recording gets its "Finished", or the app ends |
| `vc_patient` | the same sounds, recordings of 0 to 3, scores 0 to 2, up to 3 blocks pending, a user who waits for "Finished" | types, the first best result named; matrices never shared, own recording, own times, the screen agrees with itself; and that `Rounds` is implemented |
| `vc_matrix_assert` (violated) | as `vc_any`, with scores and more pending blocks | two rounds resize the matrix under each other; the assertion of `genSimilarityMatrix` fails |
| `sc_scoring` | every recording of 0 to 4 and sound of 0 to 3 features out of three values, either way of scoring | the first best region is scored; a word that occurs is found with full score; a throw only when no feature that is compared, after padding, is similar |
| `sc_start_row` (violated) | the same | the start row left unset, by a recording that resembles nothing or loses its only similar feature to the padding |
| `wm_session` | windows of 6, sessions of 1, 3 and 5 features, buffers of 6, 7, 8, 9 and 16, up to 36 samples | windows chained and in order, bounded carry, no overflow, every feed progresses |
| `wm_rest` (violated) | the same | a sample of every buffer is lost |
| `re_safe` | 2 recordings, buffers of 3 messages, one callback for a channel, fairness | no use after free of recorder, table or reported address; one open file; no callback begins to write to a closed one; every stopped recorder is released unless a buffer fills |
| `features` | files of up to 7 samples and some of 10, packets and windows of 3, a window every 1.5 samples, two pairs of thresholds; small banks of two filters | the onset found, the trim inside the file, every filter filled, and beyond the magnitudes nothing weighed but the Nyquist bin, exactly by a filter between the last magnitude and it; windows at their times |
| `fe_end` (violated) | the same | the end of a sound put before its last maximum |
| `fe_border` (violated) | the same | at an interval of 1.5 samples the memorized element is not the left neighbour |
| `benchmark` | all pairs of sequences of 1 to 3 features out of three, some of 4 and 5, with NaN and empty ones, corridors of 1 and 2; tables of 2 speakers with 2 samples each, two tables | each file extracted once, the least distance and its path, and when there is none |

Bounds. Two slots give every race of two comparisons and a recording; the races
are between two threads each time, and the proofs need no bound on slots. `MaxPending`
only delays touches while blocks are pending. `vc_any` has no positive score, so that its liveness
graph stays small: which sound is the first best does not depend on the user, and is checked
with scores and ties in `vc_patient` and proved for any user (`ResultCorrect`). Two sounds are enough for a best one to come
first or second and for the matrix to change its size. A window of 6 is the smallest even
window in which one, two or none begin in what was carried, and the buffers meet each
side of every comparison in `Feed`. Matrices of up to 4 by 3 have regions of odd and even size
and several rows to try. `QueueLen` is 3 in `re_safe` so that messages are lost (a real
buffer holds hundreds), and `Released` speaks of the runs in which none is (`Room`): a lost removal
is one the code never repeats. Packets of 3 have a first, a middle and a last sample, and
files of 7 two full packets and a short one, or three; the files of 10 go on after a quiet
packet. With a window every 1.5 samples every other one falls between two samples. Sequences of
3 have every step and corner of the corridor that longer ones have; those of 4 and 5 against 1
leave it. The app's corridor of 20 changes which lengths those are, not what happens. Two tables suffice for one to
meet what an exception left of the other.

Deadlock is off where the program really stops: a call of `_scoring` or of `get_mfcc_features` returns, the
benchmark ends after `MaxTables`, and in `Recorder` the app may crash.

Fairness. `ViewController!FairSpec` has weak fairness of the main thread and of each
worker: the run loop drains the main queue, and the global queue runs every block it
is given. `Recorder!FairSpec` has weak fairness of the main and the audio thread:
the engine renders and TAAE polls its queue. Neither has any for the user, who need not
release, nor for crashes and launches.

Where the code and what is said of it part, the run is expected to fail and
`findings` in `PROJECT.json` quotes both sides. Other things the models have, and no
run is spent on:

- a recording shorter than a sound is padded after its last feature was overwritten
  (`Pad`; `ViewController.mm:222`): the copies are not those of "its last element" that the comment (218)
  speaks of, and that element is lost;
- a session that is completed by the first of two windows in the carried samples gets the error of
  "an impossible state" (`WordMatchSession.cpp:453`; `FeedImpossible`), where line 439 says that there are
  always some samples left: the offset of line 409 wraps around;
- a session that completes early in a long buffer copies the whole rest of it into
  `overlap_buffer`, whatever its size (`FeedCrashes`); `CarryBounded` is about the sessions
  that go on;
- a region of odd size is not split into four: its parts are not all square, and the
  assignment in the assert makes `matchScoreSingleRegion` read cells twice and others never
  (the app never scores this way);
- a recording without features is drawn, and `back()` taken of its empty vector
  (`DrawAborts`);
- a press clears the result while "Finished" of the round before still shows (`ViewController.mm:100`), so
  "Finished" alone does not say that a result is on the screen (`ScreenAgrees` speaks of a shown one);
- a callback that had seen `_recording` set may write to the file that `finishRecording`
  has closed meanwhile (`CallbackCrashes`);
- a file that is loud to its end and ends in a short packet breaks "previous slice always has to
  be a full packet" (`AudioFileReader.cpp:387`): the end is looked up in what two packets left in
  the buffer;
- the app's thresholds are -200 dB (`ViewController.mm:27-28`), so nothing but digital silence or the
  end of the file ends a sound; the second pair of thresholds of the run is of this kind;
- the duration is tested for being positive before a window is taken off it, so a negative one
  is converted to `size_t` (`MFCCUtils.cpp:97`; `CountPackets`);
- a failed read with few samples is left out like a short one before the assertion would see it
  (`MFCCUtils.cpp:122`; `SkipFailedRead`), and the windows after it have a neighbour from further back;
- a NaN is converted to an `int` (`dtw.hpp:194`), which is undefined: either outcome, `nan`, is tried; and
  distances are truncated there, so features less than one apart are the same;
- the table leaves out pairs whose "samples have already been compared" (`benchmark.cpp:140`). Of the
  crossed ones - one speaker earlier, the other with the earlier sample - the mirror is left out too, so they are
  never compared, and the comment is untrue of them; for every other pair it is true. Instead of a run with
  one counterexample, `CrossedNeverCompared` proves both for every corpus;
- the corridor is measured along the first sequence only, so whether there is any path depends on the
  order of the arguments (`FiniteWithinRatio`).

## 4. The proofs

All are checked by `tlapm`, for every value of the constants that the `ASSUME`s allow.
None rests on an axiom. The modules with proofs extend those they speak of and change nothing in them.

**ViewControllerProofs** - `TypeCorrect`, `WriterIsUnique`, `RoundsInOrder`, `ResultCorrect`:
any number of slots, sounds and pending blocks, any user. `RoundOrder` says that drawing, result and
"Finished" of a round are queued in this order, each at most once. The invariant is
`IInv == TypeOK /\ OneWriter /\ WorkerInv /\ RoundInv /\ BestInv`. `OneWriter` is
inductive with the types. `RoundOrder` is not: it needs that what is in the queue of a round
agrees with how far the round has come (`Phased`), which makes sure that a slot is not reused
while a block of its last round is queued. `ResultIsFirstBest` needs what the loop
has found after each file (`Best`) and that a worker scores the file its loop is at (`WorkerInv`).

**PatientProofs** - `PatientExclusive`, `PatientMatrix`, `PatientRecording`, `PatientTimes`: under
`Patient`, four properties an impatient user breaks. The extra invariant is
that at most one slot is in use (`SoleRound`): a press of a patient user finds every slot
free, and the rest - one thread in the matrices, one recording in the file, nobody else's times - follows.

Its second part, what is on the screen: `CalculatingIsTrue` for any user, `PatientScreen` under `Patient`. The first rests on
`CalcInv`: no "Finished" of a round is queued ahead of a "Calculating..." of it, for the stop posts
the one before the comparison begins, and a slot is not reused before its "Finished" was run. The second
rests on `Screen`: the drawing of a round is run before its result is (`DrawnFirst`), what it drew stays
until the result is shown (`DrawnBy`), and from then on nothing draws (`OnScreen`), for a patient user's
next round begins by clearing the result, and its "Recording..." replaces the "Finished" before anything
of it is drawn (`NewRound`).

**RefinementProofs** - `RoundsImplemented`: for any number of slots, sounds and scores and any
user, every step of `ViewController` maps to a step of `Rounds` or a stutter. The invariant is
`RInv == IInv /\ Single`: a round has at most one result in the queue. Then the block that is run is the
only one, and showing it moves the round from "answered" to "shown"; that the answer is the
first best of the scores is `ViewControllerProofs`' `BestInv`.

**WordMatchSessionProofs** - `TypeCorrect`, `CarryIsBounded`, `FeedsAdvance`, `FeaturesAreChained`,
`WindowsAreInOrder`: any even window, any buffers. `IInv == TypeOK /\ Gone /\ CarryBounded`. The type invariant is where the
bounds of the arrays are - no more features than expected - and is inductive only
with the bound on what is carried between two feeds, which says that two windows at most begin
there. That a sum does not wrap is from the assumption that `SizeMod` exceeds any
buffer by a window. For the last two theorems the carried samples and the incoming buffer are
taken as one stretch of the stream (`Stream`), and every feature of a feed is shown to be a window of that
stretch, the next half a window after the one before, whether it was knitted or read from the buffer
(`KnitPlaced`, `DirectPlaced`); `StreamInv` adds to the two properties that what is carried is in stream
order (`Streamed`) and begins where the last feature's first half ends (`Following`).

**RecorderProofs** - `TypeCorrect`, `FileOpenOnce`, `TableIsInUse`, `ClosedStaysSilent`: any number of
recordings, any size of buffer, so whichever messages are lost.
`IInv == TypeOK /\ OneOpenFile /\ CallOrder /\ MessagesThere /\ Replaced /\ Reading`.
`TableInUse` is not inductive: it needs that only replaced tables are in messages (`Replaced`), and
that while the audio thread reads a table, no answer that frees that table is under way
(`Reading`) - which holds as all messages are processed before the table is read.
`ClosedIsSilent` rests on `Stopped`: a file is closed only after its callbacks were stopped, and a
recorder that was not made has none.

Its second part, that nothing freed is used: `CallbacksAreAlive`, `ReportsAreAlive`, for the same instances. `Living` says who retains what
while which messages are under way: a recorder in the input table or among the callbacks keeps its retain
until the removal is answered (`InTable`, `InOutputs`, `Adding`), the audio thread calls only those it took
from there (`Calling`), and an error report is followed, never preceded, by an answer that releases its
recorder (`Reported`). Losing messages only keeps recorders alive longer. The messages of an input update
stand in for no recorder and no table, so queueing any number of them disturbs none of it (`StatusTold`, `StatusLiving`).

**FeatureExtractionProofs** - `TypeCorrect`, `SoundStartsAtOnset`, `TrimStaysInFile`, `FiltersAreFilled`,
`FiltersWeighMagnitudes`, `WindowsInSound`, `BordersNear`: any file, thresholds, packet size, filter
bank, window and interval that `InputsAssumption` and `WindowAssumption` allow.
`IInv == Given /\ ReaderInv /\ BankInv /\ ExtractInv`, one part for each module. `ReaderInv` adds that no loud sample was
passed while the beginning is sought (`Quiet`), so the packet in which the onset is found holds the
first; `ExtractInv` that the packets counted end before the sound does (`Counted`) and that the border
is the end of the interval of the window before (`Placed`). From it follows what remains of the comment that `fe_border`
refutes (`BordersNear`): the element taken is at most one sample off, and the neighbour if the interval is a whole number
of samples. `FiltersWeighMagnitudes` is an equivalence: a filter weighs the value beyond the magnitudes exactly if it begins
at the last magnitude, for then its falling side has no length. That a finite set of naturals has a least
and a greatest member, which `Min` and `Max` need, is from the well-foundedness of the order of the naturals. What
is said of a filter is said of one whose size fits `unsigned short` (`Fits`).

**ScoringProofs** - `TypeCorrect`, `FirstBestIsScored`, `ThrowsWhenUnlike`, `SpokenWord`, `RegionsInMatrix`:
any features, threshold, lengths of recording and file, either way of scoring.
`Inv == TypeOK /\ Padded /\ Searched /\ Found`, along the steps of the call: what is compared is the recording itself,
unless it had to be padded, and the matrix is filled from it (`Padded`); the row kept is the first that has the
best score so far, and none is kept only while that is zero (`Searched`); what is returned is the score of some row, and of
a row that was never set only if the matrix has it (`Found`). `FirstBestRow` is not inductive without `Searched`.
`ThrowsWhenUnlike` speaks of what is compared, the padded recording: one that resembles the file only by its last
feature may throw, when it is shorter than the file (`ViewController.mm:222`).
The lemmas before are about sums: the fold that a score is has a value on every finite set
(`SumExists`), any member of which may be added first (`SumOfMember`), and the same value for an image of the
set (`SumOfImage`). From the last follows that a region's score depends on its own cells only and not on where it is
(`RegionShifted`), by quarters too: that is why a word is found wherever it was spoken.
`RegionsInMatrix` speaks of reads, of which no run states a property (TLC stops at one beyond the matrix, and
never does): neither the quarters of an odd region, which overlap, nor the rows an assert assigned leave
it (`QuartersInside`).

**BenchmarkProofs** - `TypeCorrect`, `ExtractedAtMostOnce`, `CrossedNeverCompared`, `LeastOfAllPaths`, `PathOfLeast`,
`FiniteIffWithinRatio`: any number of speakers and samples, any sequences of features of any dimension, any corridor,
and whatever a NaN becomes. Most of it is about the operators of `DTW`:

- `RecursionDefines`: an equation that defines a function on cells by those of a lower rank has a solution. So `Global`,
  `Warpings`, `Cost` and `minimal_path` are what their definitions say at every cell (`GlobalEquation`, `WaysEquation`,
  `CostEquation`, `PathsAre`).
- `LeastDistance`: by induction on the rank of a cell, it has the least cost of the warping paths to it, and infinity
  if there are none (`Right`). The step into a cell costs what the path that is longer by it costs more (`StepBefore`,
  `LongerWay`), and the first cell, which the border lets start from the corner only, four times its
  distance (`StepFirst`). Of the distance of two features it uses that it is a natural number of units.
- `LeastPath`: by the same induction, the steps followed back from a cell end such a path (`Traced`), and no
  step is the one that was not found (`CellsType`).
- `FiniteRatio`: the corridor always holds the last cell, and the first exactly if the ratio is kept
  (`CorridorEnds`); if it holds the first, then one before each of its cells (`CorridorConnects`), so all of them
  are reached.
- `Digits`, `Numbered`: the number of a cell of the table and its two samples determine each other, by division with
  remainder. `Crossed`: neither order of a pair is compared exactly if the product of the differences is
  negative.

The invariant of the table itself is `Inv`: `TypeOK`, `ExtractedOnce`, that the cells left out so far are those
not compared (`Filled`), that a complete table is full (`Completed`), and that the last distance is one of two
files of the corpus that have features (`OfFiles`), to which the lemmas apply. `OnceUnlessCrossed`, which `CrossedNeverCompared` states, is not
inductive without `Filled`, and the three properties of the warping say nothing of a `dtw` that
did not come from `Warp`.

The prover cannot use the library's induction theorems, which take an operator; both modules prove
induction over a set of numbers, or of cells by their rank, from the well-foundedness of the naturals
(`NaturalInduction`, `RankInduction`) and apply it to the set of those for which the claim holds.

**Only model-checked**: liveness (`RoundCompletes`, `Released`), which TLAPS does not prove
under fairness. What the five violated runs show are single behaviours, which need no proof. `OwnMatrix`, proved for a
patient user, includes the `MatrixSizesAgree` that an impatient one breaks. Every other property of a run is
stated by a theorem.

## 5. Not modelled

- The Fourier transform, cepstra, the mel scale and `apply` of a filter: numerics. Floats are exact
  otherwise: rounding is modelled only where a time meets a sample, and the packet count and the corridor are those
  of exact quotients.
- Drawing and layout, logging, printing, `writeToAudioFile` (never called), `analyze_benchmark_table` (sums
  over a finished table).
- `WordMatch.cpp`: wrappers without state that turn exceptions into `false`.
- `DataManager`'s file list, but as a constant: every comparison asks for it, on its own thread, and the
  list is made once.
- Of TAAE, what the app does not use: channels, filters, groups, players, the scheduler,
  Audiobus, route changes and interruptions, what an input update changes of formats, timeouts of
  synchronous exchanges, automatic processing on another thread.
- Windows of 2 samples, excluded by `WindowAssumption`; several sessions at a time, which
  share nothing.
- `boost_ext/`, `CAPublicUtility/`, test data and tests: most of the lines of the repository, and none of the
  program's own logic.

## 6. Plan

Done: the controller and its promise (`ViewController`, `Rounds`), the streaming session, the scoring, the
recorder, the way from a file to its features, the warping and the benchmark; all safety
properties that a run checks are proved.

Left, in this order:

1. `MessageQueue`: both kinds of exchange, the processing thread, the reply that is meant for
   a waiting thread (`AEMessageQueue.m:189`'s comparison can never be true), and `Recorder`'s use
   of it as a refinement.
2. `Capture`: `Recorder` under `ViewController`, and that begin and finish map to its steps.
3. `DataManager`'s shared instance, asked for by several threads first.
4. Proofs: what `Pad` does to the score of a short recording; of the violated claims about the reader
   and the session, for which inputs they hold.
