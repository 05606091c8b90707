------------------------------ MODULE Recorder ------------------------------
(***************************************************************************)
(* The life of an AERecorder between two threads: the main thread begins   *)
(* and finishes a recording, puts the recorder in the audio controller's   *)
(* tables and takes it out again; the audio thread calls back every        *)
(* recorder it finds there, which writes to the file.  They talk through   *)
(* AEMessageQueue: the main thread's blocks run on the audio thread at the *)
(* start of a render, their response blocks on the main thread again.      *)
(*                                                                         *)
(* ViewController has the recorder's begin and finish as single steps.     *)
(***************************************************************************)
EXTENDS Integers, Sequences, FiniteSets

CONSTANTS
  MaxStarts,   \* bound: how often a recording is begun
  QueueLen,    \* how many messages a buffer of AEMessageQueue holds
  kMaximumCallbacksPerSource   \* how many receivers a channel takes

ASSUME RecorderAssumption ==
  MaxStarts \in Nat /\ QueueLen \in Nat /\ kMaximumCallbacksPerSource \in Nat

Recorders == 1..MaxStarts
None == 0

VARIABLES
  recorder,    \* _recorder of the ViewController
  started,     \* how many recorders were made
  main,        \* where the main thread is in startRecording:, in stopRecording:
               \* or in a response
  recording,   \* _recording of each recorder
  file,        \* _audioFile of each: "none", "open" (_writing) or "closed"
  retained,    \* who retains each
  inputTable,  \* _inputTable: its address, and the recorders in it
  freed,       \* the addresses of the input tables that were freed
  outputs,     \* the recorders in the callbacks of the top channel
  toAudio,     \* _realtimeThreadMessageBuffer
  toMain,      \* _mainThreadMessageBuffer
  audio,       \* where the audio thread is in a render: see Render
  crashed      \* the app is gone

mainVars == <<recorder, started, main>>
audioVars == <<outputs, audio>>
recorderVars == <<recording, file, retained>>
tableVars == <<inputTable, freed>>
queueVars == <<toAudio, toMain>>
vars == <<mainVars, audioVars, recorderVars, tableVars, queueVars, crashed>>

\* The audio thread: its part of the render, the receivers yet to be called (it
\* calls them in the order they were added; here, in any), the input table it
\* reads, the messages it will process, and the receiver that was found to be
\* recording and is about to write.
Render(at, todo, table, messages) ==
  [at |-> at, todo |-> todo, table |-> table, messages |-> messages, writing |-> None]

Idle == Render("idle", {}, None, 0)

Init ==
  /\ recorder = None
  /\ started = 0
  /\ main = "idle"
  /\ recording = [r \in Recorders |-> FALSE]
  /\ file = [r \in Recorders |-> "none"]
  /\ retained = [r \in Recorders |-> {}]
  /\ inputTable = [address |-> 1, members |-> {}]
  /\ freed = {}
  /\ outputs = {}
  /\ toAudio = <<>>
  /\ toMain = <<>>
  /\ audio = Idle
  /\ crashed = FALSE

\* A message is a block for the audio thread and its response, named together,
\* with the recorder and the table they are about.  The response to a
\* "removeOutput" that found the recorder is "removedOutput".  The messages of
\* updateInputDeviceStatus, whose blocks change formats and converters, are all
\* "status" ones.
Message(kind, r, table) == [kind |-> kind, recorder |-> r, table |-> table]

StatusMessage == Message("status", None, None)
StatusMessages(n) == [i \in 1..n |-> StatusMessage]

\* A response block retains the receiver it will release.
Captures(message, r) ==
  message.kind \in {"removeOutput", "removedOutput", "removeInput"} /\ message.recorder = r

Alive(r) ==
  \/ retained[r] # {}
  \/ \E i \in DOMAIN toAudio : Captures(toAudio[i], r)
  \/ \E i \in DOMAIN toMain : Captures(toMain[i], r)

\* Mutant: the room is not checked.
PerformAlways(message) == toAudio' = Append(toAudio, message)

\* performAsynchronousMessageExchangeWithBlock: gives a message up when the
\* buffer is full.
Perform(message) ==
  toAudio' = IF Len(toAudio) < QueueLen THEN Append(toAudio, message) ELSE toAudio

\* A message for the main thread is given up, too.
Reply(message) ==
  toMain' = IF Len(toMain) < QueueLen THEN Append(toMain, message) ELSE toMain

-----------------------------------------------------------------------------
(* The main thread: startRecording:                                        *)

\* beginRecordingToFileAtPath: succeeds.
Begin ==
  /\ main = "idle" /\ recorder = None /\ started < MaxStarts
  /\ LET r == started + 1
     IN  /\ started' = r
         /\ recorder' = r
         /\ file' = [file EXCEPT ![r] = "open"]
         /\ recording' = [recording EXCEPT ![r] = TRUE]
         /\ retained' = [retained EXCEPT ![r] = {"view"}]
  /\ main' = "addOutput"
  /\ UNCHANGED <<audioVars, tableVars, queueVars, crashed>>

\* It fails: _recording is set nevertheless, but nobody keeps the recorder.
BeginFails ==
  /\ main = "idle" /\ recorder = None /\ started < MaxStarts
  /\ started' = started + 1
  /\ recording' = [recording EXCEPT ![started + 1] = TRUE]
  /\ UNCHANGED <<recorder, main, file, retained, audioVars, tableVars, queueVars, crashed>>

\* addOutputReceiver: the audio thread will add it, unless the channel has its
\* callbacks; it is retained at once, whether or not the message was queued.
\* (The response lays out the graph again, which is left out.)
AddOutput ==
  /\ main = "addOutput"
  /\ IF Cardinality(outputs) = kMaximumCallbacksPerSource
     THEN UNCHANGED <<retained, toAudio>>
     ELSE /\ Perform(Message("addOutput", recorder, None))
          /\ retained' = [retained EXCEPT ![recorder] = @ \cup {"output"}]
  /\ main' = "addInput"
  /\ UNCHANGED <<recorder, started, recording, file, audioVars, tableVars, toMain, crashed>>

\* addInputReceiver: a copy of the table takes the place of the table, which is
\* freed once the audio thread has answered.  Without a list of channels the
\* number of callbacks is not looked at.
AddInput ==
  /\ main = "addInput"
  /\ inputTable' = [address |-> inputTable.address + 1,
                    members |-> inputTable.members \cup {recorder}]
  /\ Perform(Message("addInput", recorder, inputTable.address))
  /\ retained' = [retained EXCEPT ![recorder] = @ \cup {"input"}]
  /\ main' = "idle"
  /\ UNCHANGED <<recorder, started, recording, file, audioVars, freed, toMain, crashed>>

-----------------------------------------------------------------------------
(* The main thread: stopRecording:                                         *)

\* Mutant: finishRecording forgets to close the file.
FinishRecordingOnly ==
  /\ main = "idle" /\ recorder # None
  /\ recording' = [recording EXCEPT ![recorder] = FALSE]
  /\ main' = "removeOutput"
  /\ UNCHANGED <<recorder, started, file, retained, audioVars, tableVars, queueVars, crashed>>

\* Mutant: finishRecording closes the file while callbacks may start writing.
FinishRecordingLate ==
  /\ main = "idle" /\ recorder # None
  /\ main' = "finishWriting"
  /\ UNCHANGED <<recorder, started, recorderVars, audioVars, tableVars, queueVars, crashed>>

\* finishRecording stops the callbacks to come,
FinishRecording ==
  /\ main = "idle" /\ recorder # None
  /\ recording' = [recording EXCEPT ![recorder] = FALSE]
  /\ main' = "finishWriting"
  /\ UNCHANGED <<recorder, started, file, retained, audioVars, tableVars, queueVars, crashed>>

Closed(r) == IF file[r] = "open" THEN [file EXCEPT ![r] = "closed"] ELSE file

\* and closes the file, unless an error had it closed.
FinishWriting ==
  /\ main = "finishWriting"
  /\ file' = Closed(recorder)
  /\ main' = "removeOutput"
  /\ UNCHANGED <<recorder, started, recording, retained, audioVars, tableVars, queueVars, crashed>>

RemoveOutput ==
  /\ main = "removeOutput"
  /\ Perform(Message("removeOutput", recorder, None))
  /\ main' = "removeInput"
  /\ UNCHANGED <<recorder, started, recorderVars, audioVars, tableVars, toMain, crashed>>

\* Mutant: the recorder and the table go at once.
RemoveInputAtOnce ==
  /\ main = "removeInput"
  /\ inputTable' = [address |-> inputTable.address + 1,
                    members |-> inputTable.members \ {recorder}]
  /\ freed' = freed \cup {inputTable.address}
  /\ retained' = [retained EXCEPT ![recorder] = @ \ {"input"}]
  /\ main' = "forget"
  /\ UNCHANGED <<recorder, started, recording, file, audioVars, queueVars, crashed>>

\* removeInputReceiver: of a recorder that is in the table.
RemoveInput ==
  /\ main = "removeInput"
  /\ inputTable' = [address |-> inputTable.address + 1,
                    members |-> inputTable.members \ {recorder}]
  /\ Perform(Message("removeInput", recorder, inputTable.address))
  /\ main' = "forget"
  /\ UNCHANGED <<recorder, started, recorderVars, audioVars, freed, toMain, crashed>>

\* self.recorder = nil, and the comparison is dispatched.
Forget ==
  /\ main = "forget"
  /\ retained' = [retained EXCEPT ![recorder] = @ \ {"view"}]
  /\ recorder' = None
  /\ main' = "idle"
  /\ UNCHANGED <<started, recording, file, audioVars, tableVars, queueVars, crashed>>

-----------------------------------------------------------------------------
(* The main thread: processMainThreadMessages, between other work.         *)

\* The response of an exchange.  That of addInputReceiver updates the status of
\* the input; so does a status response, if the update was put off.
Respond(message) ==
  /\ main' \in CASE message.kind = "addInput" -> {"update"}
                 [] message.kind = "status" -> {"idle", "update"}
                 [] OTHER -> {"idle"}
  /\ freed' = IF message.table # None THEN freed \cup {message.table} ELSE freed
  /\ retained' = CASE message.kind = "removeInput" ->
                        [retained EXCEPT ![message.recorder] = @ \ {"input"}]
                   [] message.kind = "removedOutput" ->
                        [retained EXCEPT ![message.recorder] = @ \ {"output"}]
                   [] OTHER -> retained
  /\ UNCHANGED <<recording, file, crashed>>

\* reportError: the audio thread gave the recorder's address, and no reference.
ReportError(r) ==
  /\ IF Alive(r)
     THEN /\ recording' = [recording EXCEPT ![r] = FALSE]
          /\ file' = Closed(r)
          /\ UNCHANGED crashed
     ELSE crashed' = TRUE /\ UNCHANGED <<recording, file>>
  /\ UNCHANGED <<main, freed, retained>>

\* Mutant: the newest message is served first.
ProcessNewest ==
  /\ main = "idle" /\ toMain # <<>>
  /\ toMain' = SubSeq(toMain, 1, Len(toMain) - 1)
  /\ LET last == toMain[Len(toMain)]
     IN  IF last.kind = "error" THEN ReportError(last.recorder) ELSE Respond(last)
  /\ UNCHANGED <<recorder, started, audioVars, inputTable, toAudio>>

ProcessMainThreadMessage ==
  /\ main = "idle" /\ toMain # <<>>
  /\ toMain' = Tail(toMain)
  /\ IF Head(toMain).kind = "error" THEN ReportError(Head(toMain).recorder) ELSE Respond(Head(toMain))
  /\ UNCHANGED <<recorder, started, audioVars, inputTable, toAudio>>

\* What the update queues: none, one or several messages, as far as they fit.
WithStatus(queue) == {queue \o StatusMessages(n) : n \in 0..(QueueLen - Len(queue))}

\* updateInputDeviceStatus: once the audio thread is through with the messages,
\* it holds their processing and queues what the change takes.
UpdateInputDeviceStatus ==
  /\ main = "update" /\ audio.messages = 0
  /\ toAudio' \in WithStatus(toAudio)
  /\ main' = "idle"
  /\ UNCHANGED <<recorder, started, audioVars, recorderVars, tableVars, toMain, crashed>>

-----------------------------------------------------------------------------
(* The audio thread: a render.                                             *)

\* Before the render, the messages that are there now will be processed, if their
\* processing is not held.
PreRender ==
  /\ audio.at = "idle"
  /\ \E n \in {Len(toAudio)} \cup (IF main = "update" THEN {0} ELSE {}) :
       audio' = Render("messages", {}, None, n)
  /\ UNCHANGED <<mainVars, outputs, recorderVars, tableVars, queueVars, crashed>>

\* Mutant: the response is not told that the recorder was found.
AnswerNotFound(message) == message

\* The block of a message, and what its response is.
Answer(message) ==
  IF message.kind = "removeOutput" /\ message.recorder \in outputs
  THEN [message EXCEPT !.kind = "removedOutput"] ELSE message

\* AEMessageQueueProcessMessagesOnRealtimeThread, one message.  It gives up when
\* there is no room for the response.
ProcessMessage ==
  /\ audio.at = "messages" /\ audio.messages > 0
  /\ LET message == Head(toAudio)
     IN  /\ outputs' = CASE message.kind = "addOutput" -> outputs \cup {message.recorder}
                         [] message.kind = "removeOutput" -> outputs \ {message.recorder}
                         [] OTHER -> outputs
         /\ Reply(Answer(message))
  /\ toAudio' = Tail(toAudio)
  /\ audio' = [audio EXCEPT !.messages = IF Len(toMain) < QueueLen THEN @ - 1 ELSE 0]
  /\ UNCHANGED <<mainVars, recorderVars, tableVars, crashed>>

\* serviceAudioInput reads _inputTable once; without input it calls nobody.
ServiceAudioInput ==
  /\ audio.at = "messages" /\ audio.messages = 0
  /\ \E todo \in {{}, inputTable.members} :
       audio' = Render("input", todo, inputTable.address, 0)
  /\ UNCHANGED <<mainVars, outputs, recorderVars, tableVars, queueVars, crashed>>

\* The rest of the render: handleCallbacksForChannel of the top channel.
HandleOutputCallbacks ==
  /\ audio.at = "input" /\ audio.todo = {}
  /\ audio' = Render("output", outputs, None, 0)
  /\ UNCHANGED <<mainVars, outputs, recorderVars, tableVars, queueVars, crashed>>

EndRender ==
  /\ audio.at = "output" /\ audio.todo = {}
  /\ audio' = Idle
  /\ UNCHANGED <<mainVars, outputs, recorderVars, tableVars, queueVars, crashed>>

\* audioCallback of the next receiver looks whether it is recording,
CheckRecording ==
  /\ audio.writing = None
  /\ \E r \in audio.todo :
       audio' = IF recording[r] THEN [audio EXCEPT !.writing = r] ELSE [audio EXCEPT !.todo = @ \ {r}]
  /\ UNCHANGED <<mainVars, outputs, recorderVars, tableVars, queueVars, crashed>>

\* and later writes what the mixer gives it, if anything, to the file.  A write
\* that fails stops the recording and is reported to the main thread.
WriteAudio ==
  /\ audio.writing # None
  /\ audio' = [audio EXCEPT !.writing = None, !.todo = @ \ {audio.writing}]
  /\ \/ UNCHANGED <<recording, toMain>>
     \/ /\ recording' = [recording EXCEPT ![audio.writing] = FALSE]
        /\ Reply(Message("error", audio.writing, None))
  /\ UNCHANGED <<mainVars, outputs, file, retained, tableVars, toAudio, crashed>>

\* What the callback does to a recorder that is gone, or a file that was closed
\* in between, may end the app, and so may callbacks beyond the channel's array:
\* AddOutput counts none that are still to be added.
CallbackCrashes ==
  /\ \/ \E r \in audio.todo : ~Alive(r)
     \/ audio.writing # None /\ file[audio.writing] # "open"
     \/ Cardinality(outputs) > kMaximumCallbacksPerSource
  /\ crashed' = TRUE
  /\ UNCHANGED <<mainVars, audioVars, recorderVars, tableVars, queueVars>>

-----------------------------------------------------------------------------
MainThread ==
  AddOutput \/ AddInput \/ FinishWriting \/ RemoveOutput \/ RemoveInput \/ Forget
  \/ ProcessMainThreadMessage \/ UpdateInputDeviceStatus

AudioThread ==
  PreRender \/ ProcessMessage \/ ServiceAudioInput \/ HandleOutputCallbacks \/ EndRender
  \/ CheckRecording \/ WriteAudio

Next ==
  /\ ~crashed
  /\ Begin \/ BeginFails \/ FinishRecording \/ MainThread \/ AudioThread \/ CallbackCrashes

Spec == Init /\ [][Next]_vars

\* The audio engine runs, and the main thread's run loop does.  Nobody has to
\* press or release the button.
FairSpec == Spec /\ WF_vars(~crashed /\ MainThread) /\ WF_vars(~crashed /\ AudioThread)
-----------------------------------------------------------------------------
Kinds == {"addOutput", "addInput", "removeOutput", "removedOutput", "removeInput", "error"}

Messages == [kind : Kinds, recorder : Recorders, table : Nat] \cup {StatusMessage}

TypeOK ==
  /\ recorder \in Recorders \cup {None}
  /\ started \in 0..MaxStarts
  /\ main \in {"idle", "addOutput", "addInput", "finishWriting", "removeOutput", "removeInput",
              "forget", "update"}
  /\ recording \in [Recorders -> BOOLEAN]
  /\ file \in [Recorders -> {"none", "open", "closed"}]
  /\ retained \in [Recorders -> SUBSET {"view", "output", "input"}]
  /\ inputTable \in [address : Nat, members : SUBSET Recorders]
  /\ freed \subseteq Nat
  /\ outputs \subseteq Recorders
  /\ toAudio \in Seq(Messages) /\ Len(toAudio) <= QueueLen
  /\ toMain \in Seq(Messages) /\ Len(toMain) <= QueueLen
  /\ audio \in [at : {"idle", "messages", "input", "output"}, todo : SUBSET Recorders,
                table : Nat, messages : 0..QueueLen, writing : Recorders \cup {None}]
  /\ crashed \in BOOLEAN

\* The audio thread never calls back a recorder nobody retains, in whatever
\* order the tables change and the messages pass, and though it holds no
\* reference itself: neither now nor later in the same render.
CallbackAlive == \A r \in audio.todo : Alive(r)

\* Nor does it read an input table that was freed.
TableInUse == audio.at = "input" => audio.table \notin freed

\* The address in an error report is that of a recorder that still is there when
\* the main thread handles the report, however late: its release is queued behind.
ReportAlive ==
  \A i \in DOMAIN toMain : toMain[i].kind = "error" => Alive(toMain[i].recorder)

\* r.wav is never open in two recorders, and a recorder the view has let go has
\* closed it.
OneOpenFile == \A r \in Recorders : file[r] = "open" => recorder = r

\* Once a recorder's file is closed, by finishRecording or after an error, no
\* callback begins to write to it: only one that had looked at _recording before
\* may still do so.
ClosedIsSilent == \A r \in Recorders : file[r] = "closed" => ~recording[r]

\* A recorder that was stopped is released in the end, in every run in which the
\* buffers keep room: no message of its removal is lost otherwise.
Room == Len(toAudio) < QueueLen /\ Len(toMain) < QueueLen

Released ==
  []Room => \A r \in Recorders : (started >= r /\ recorder # r) ~> (~Alive(r) \/ crashed)
=============================================================================
