--------------------------- MODULE RecorderProofs ---------------------------
(* Proofs about Recorder, for any number of recordings and any length of   *)
(* the message buffers.                                                    *)
EXTENDS Recorder, SequenceTheorems, TLAPS

\* What the proofs need of the constants.
LEMMA Counted == MaxStarts \in Nat /\ QueueLen \in Nat /\ None \notin Recorders /\ Recorders \subseteq Nat
  BY RecorderAssumption DEF Recorders, None

\* Every message is about a recorder, but those of the input's status.
LEMMA Told ==
  ASSUME NEW m \in Messages
  PROVE  /\ m.table \in Nat
         /\ m.kind # "status" => m.recorder \in Recorders /\ m.kind \in Kinds
         /\ m.kind = "status" => m = StatusMessage
         /\ m.kind \in Kinds \cup {"status"}
  BY DEF Messages, StatusMessage, Message, None, Kinds

\* Those are the same, and about no table.
LEMMA StatusTold == StatusMessage \in Messages /\ StatusMessage.kind = "status" /\ StatusMessage.table = 0
  BY DEF Messages, StatusMessage, Message, None

\* The main thread is in the middle of a call only with a recorder, whose file is
\* closed before it is taken out of the tables.
CallOrder ==
  /\ main \notin {"idle", "update"} => recorder # None
  /\ main \in {"removeOutput", "removeInput", "forget"} => file[recorder] # "open"

\* The audio thread processes only messages that are there.
MessagesThere == audio.at = "messages" => audio.messages <= Len(toAudio)

\* Only tables that were replaced are given to a message to be freed.
Below(queue) == \A i \in 1..Len(queue) : queue[i].table < inputTable.address

Replaced ==
  /\ inputTable.address > 0
  /\ Below(toAudio) /\ Below(toMain)
  /\ \A table \in freed : table < inputTable.address

\* While the audio thread reads a table, no answer that frees it is under way.
Reading ==
  audio.at = "input" =>
    /\ audio.table > 0
    /\ audio.table \notin freed
    /\ \A i \in 1..Len(toMain) : toMain[i].table # audio.table

IInv == TypeOK /\ OneOpenFile /\ CallOrder /\ MessagesThere /\ Replaced /\ Reading

\* The state when the app has launched.
LEMMA InitInv == Init => IInv
  <1> SUFFICES ASSUME Init PROVE IInv
    OBVIOUS
  <1>1. <<>> \in Seq(Messages) /\ Len(<<>>) = 0
    OBVIOUS
  <1>2. Idle \in [at : {"idle", "messages", "input", "output"}, todo : SUBSET Recorders,
                  table : Nat, messages : 0..QueueLen, writing : Recorders \cup {None}]
    BY Counted DEF Idle, Render, None
  <1>3. TypeOK
    <2>1. /\ recorder \in Recorders \cup {None} /\ started \in 0..MaxStarts
          /\ inputTable \in [address : Nat, members : SUBSET Recorders]
          /\ freed \subseteq Nat /\ outputs \subseteq Recorders
          /\ retained \in [Recorders -> SUBSET {"view", "output", "input"}]
          /\ recording \in [Recorders -> BOOLEAN]
          /\ file \in [Recorders -> {"none", "open", "closed"}]
      BY Counted DEF Init
    <2>2. toAudio \in Seq(Messages) /\ toMain \in Seq(Messages)
      BY <1>1, Zenon DEF Init
    <2>3. Len(toAudio) <= QueueLen /\ Len(toMain) <= QueueLen
      BY Counted DEF Init
    <2>4. crashed \in BOOLEAN /\ main \in {"idle"} /\ audio = Idle
      BY Zenon DEF Init
    <2> QED
      BY <1>2, <2>1, <2>2, <2>3, <2>4, Zenon DEF TypeOK
  <1>4. OneOpenFile /\ CallOrder
    BY DEF Init, OneOpenFile, CallOrder
  <1>5. MessagesThere /\ Reading
    BY DEF Init, MessagesThere, Reading, Idle, Render
  <1>6. Replaced
    BY DEF Init, Replaced, Below
  <1> QED
    BY <1>3, <1>4, <1>5, <1>6 DEF IInv

\* A message sent by either thread: the buffer keeps its type and its bound,
\* loses nothing, and gains at most this message.
LEMMA Sent ==
  ASSUME NEW queue \in Seq(Messages), NEW message \in Messages, Len(queue) <= QueueLen,
         NEW next, next = IF Len(queue) < QueueLen THEN Append(queue, message) ELSE queue
  PROVE  /\ next \in Seq(Messages) /\ Len(next) <= QueueLen /\ Len(next) >= Len(queue)
         /\ \A i \in 1..Len(next) : next[i] = message \/ (i \in 1..Len(queue) /\ next[i] = queue[i])
  <1> QED
    BY Counted

\* A message taken.
LEMMA Taken ==
  ASSUME NEW queue \in Seq(Messages), queue # <<>>
  PROVE  /\ Head(queue) \in Messages /\ Head(queue) = queue[1] /\ 1 \in 1..Len(queue)
         /\ Tail(queue) \in Seq(Messages) /\ Len(Tail(queue)) = Len(queue) - 1
         /\ \A i \in 1..Len(Tail(queue)) : i + 1 \in 1..Len(queue) /\ Tail(queue)[i] = queue[i+1]
  OBVIOUS

\* A message about the current recorder is one.
LEMMA Made ==
  ASSUME NEW kind \in Kinds, NEW r \in Recorders, NEW table \in Nat
  PROVE  Message(kind, r, table) \in Messages /\ Message(kind, r, table).table = table
  BY DEF Message, Messages

\* A message may carry the address of the table it replaces.
LEMMA QueuedReplaced ==
  ASSUME TypeOK, Replaced, NEW message \in Messages,
         message.table <= inputTable.address,
         \/ message.table = 0 /\ inputTable' = inputTable
         \/ inputTable'.address = inputTable.address + 1,
         \A i \in 1..Len(toAudio') : \/ toAudio'[i] = message
                                     \/ i \in 1..Len(toAudio) /\ toAudio'[i] = toAudio[i],
         UNCHANGED <<freed, toMain>>
  PROVE  Replaced'
  <1>1. /\ inputTable.address \in Nat /\ inputTable'.address \in Nat
        /\ \A i \in 1..Len(toAudio) : toAudio[i].table \in Nat
        /\ \A i \in 1..Len(toMain) : toMain[i].table \in Nat
        /\ freed \subseteq Nat
    <2>1. \A m \in Messages : m.table \in Nat
      BY Told
    <2>2. toAudio \in Seq(Messages) /\ toMain \in Seq(Messages) /\ freed \subseteq Nat
          /\ inputTable.address \in Nat
      BY DEF TypeOK
    <2>3. /\ \A i \in 1..Len(toAudio) : toAudio[i] \in Messages
          /\ \A i \in 1..Len(toMain) : toMain[i] \in Messages
      BY <2>2
    <2>4. inputTable'.address \in Nat
      BY <2>2
    <2> QED
      BY <2>1, <2>2, <2>3, <2>4
  <1>2. /\ inputTable.address > 0
        /\ \A i \in 1..Len(toAudio) : toAudio[i].table < inputTable.address
        /\ \A i \in 1..Len(toMain) : toMain[i].table < inputTable.address
        /\ \A table \in freed : table < inputTable.address
    BY DEF Replaced, Below
  <1>3. message.table \in Nat
    BY Told
  <1>4. inputTable'.address >= inputTable.address /\ message.table < inputTable'.address
    BY <1>1, <1>2, <1>3
  <1>5. \A i \in 1..Len(toAudio') : toAudio'[i].table < inputTable'.address
    BY <1>1, <1>2, <1>4
  <1>6. \A i \in 1..Len(toMain') : toMain'[i].table < inputTable'.address
    BY <1>1, <1>2, <1>4
  <1>7. \A table \in freed' : table < inputTable'.address
    <2>1. freed' = freed
      OBVIOUS
    <2> SUFFICES ASSUME NEW table \in freed PROVE table < inputTable'.address
      BY <2>1
    <2>2. table \in Nat
      BY <1>1, Zenon
    <2>3. table < inputTable.address
      BY <1>2
    <2> QED
      BY <1>1, <1>4, <2>2, <2>3
  <1> QED
    BY <1>1, <1>2, <1>4, <1>5, <1>6, <1>7 DEF Replaced, Below

\* startRecording: keeps the invariant,
LEMMA StartInv == IInv /\ (Begin \/ BeginFails \/ AddOutput \/ AddInput) => IInv'
  <1> SUFFICES ASSUME IInv, Begin \/ BeginFails \/ AddOutput \/ AddInput PROVE IInv'
    OBVIOUS
  <1>0. TypeOK /\ OneOpenFile /\ CallOrder /\ MessagesThere /\ Replaced /\ Reading
    BY DEF IInv
  <1>1. CASE Begin \/ BeginFails
    <2>a. started \in 0..MaxStarts /\ started < MaxStarts /\ recorder = None
      BY <1>0, <1>1 DEF Begin, BeginFails, TypeOK
    <2>b. started + 1 \in Recorders /\ started + 1 \in 0..MaxStarts
      BY <2>a, Counted DEF Recorders
    <2>c. UNCHANGED <<outputs, audio, inputTable, freed, toAudio, toMain, crashed>>
      BY <1>1 DEF Begin, BeginFails, audioVars, tableVars, queueVars
    <2>1. /\ recorder = None /\ started + 1 \in Recorders /\ started' \in 0..MaxStarts
          /\ UNCHANGED <<outputs, audio, inputTable, freed, toAudio, toMain, crashed>>
      BY <1>1, <2>a, <2>b, <2>c DEF Begin, BeginFails
    <2>d. /\ recorder' \in Recorders \cup {None} /\ main' \in {"idle", "addOutput"}
          /\ file' \in [Recorders -> {"none", "open", "closed"}]
          /\ retained' \in [Recorders -> SUBSET {"view", "output", "input"}]
      <3>1. /\ file \in [Recorders -> {"none", "open", "closed"}]
            /\ retained \in [Recorders -> SUBSET {"view", "output", "input"}]
        BY <1>0 DEF TypeOK
      <3>2. CASE Begin
        <4>1. /\ file' = [file EXCEPT ![started + 1] = "open"] /\ recorder' = started + 1
              /\ retained' = [retained EXCEPT ![started + 1] = {"view"}] /\ main' = "addOutput"
          BY <3>2 DEF Begin
        <4> QED
          BY <2>1, <3>1, <4>1
      <3>3. CASE BeginFails
        <4>1. UNCHANGED <<recorder, main, file, retained>> /\ main = "idle"
          BY <3>3 DEF BeginFails
        <4> QED
          BY <2>1, <3>1, <4>1
      <3> QED
        BY <1>1, <3>2, <3>3
    <2>e. recording' \in [Recorders -> BOOLEAN]
      <3>1. recording \in [Recorders -> BOOLEAN] /\ recording' = [recording EXCEPT ![started + 1] = TRUE]
        BY <1>0, <1>1 DEF Begin, BeginFails, TypeOK
      <3> QED
        BY <3>1
    <2>2. TypeOK'
      BY <1>0, <2>1, <2>d, <2>e DEF TypeOK
    <2>3. OneOpenFile' /\ CallOrder'
      BY <1>0, <1>1, <2>1, Counted DEF Begin, BeginFails, TypeOK, OneOpenFile, CallOrder
    <2>4. MessagesThere' /\ Replaced' /\ Reading'
      BY <1>0, <2>1 DEF MessagesThere, Replaced, Reading, Below
    <2> QED
      BY <2>2, <2>3, <2>4 DEF IInv
  <1>2. CASE AddOutput \/ AddInput
    <2> DEFINE message == IF AddOutput THEN Message("addOutput", recorder, None)
                          ELSE Message("addInput", recorder, inputTable.address)
    <2>1. recorder \in Recorders
      BY <1>0, <1>2 DEF AddOutput, AddInput, TypeOK, CallOrder
    <2>2. message \in Messages /\ message.table <= inputTable.address
      BY <1>0, <2>1, Made, Counted DEF TypeOK, Kinds, None, Replaced
    <2>3. AddOutput => message.table = 0
      BY <2>1, Made, Counted DEF Kinds, None
    <2>4. \/ toAudio' = toAudio
          \/ toAudio' = IF Len(toAudio) < QueueLen THEN Append(toAudio, message) ELSE toAudio
      BY <1>2 DEF AddOutput, AddInput, Perform
    <2> HIDE DEF message
    <2>5. /\ toAudio' \in Seq(Messages) /\ Len(toAudio') <= QueueLen /\ Len(toAudio') >= Len(toAudio)
          /\ \A i \in 1..Len(toAudio') : toAudio'[i] = message
                                          \/ (i \in 1..Len(toAudio) /\ toAudio'[i] = toAudio[i])
      <3>1. toAudio \in Seq(Messages) /\ Len(toAudio) <= QueueLen
        BY <1>0 DEF TypeOK
      <3>2. CASE toAudio' = toAudio
        BY <3>1, <3>2
      <3>3. CASE toAudio' = IF Len(toAudio) < QueueLen THEN Append(toAudio, message) ELSE toAudio
        BY <2>2, <3>1, <3>3, Sent
      <3> QED
        BY <2>4, <3>2, <3>3
    <2>6. /\ inputTable' \in [address : Nat, members : SUBSET Recorders]
          /\ AddOutput => inputTable' = inputTable
          /\ ~AddOutput => inputTable'.address = inputTable.address + 1
      BY <1>0, <1>2, <2>1 DEF AddOutput, AddInput, TypeOK, tableVars
    <2>7. /\ UNCHANGED <<recorder, started, recording, file, outputs, audio, freed, toMain, crashed>>
          /\ main' \in {"addInput", "idle"}
          /\ retained' \in [Recorders -> SUBSET {"view", "output", "input"}]
      <3>1. retained \in [Recorders -> SUBSET {"view", "output", "input"}]
        BY <1>0 DEF TypeOK
      <3>2. \/ retained' = retained
            \/ retained' = [retained EXCEPT ![recorder] = @ \cup {"output"}]
            \/ retained' = [retained EXCEPT ![recorder] = @ \cup {"input"}]
        BY <1>2 DEF AddOutput, AddInput
      <3>3. retained' \in [Recorders -> SUBSET {"view", "output", "input"}]
        BY <2>1, <3>1, <3>2
      <3> QED
        BY <1>2, <3>3 DEF AddOutput, AddInput, audioVars, tableVars
    <2>8. TypeOK'
      BY <1>0, <2>5, <2>6, <2>7 DEF TypeOK
    <2>9. OneOpenFile' /\ CallOrder'
      BY <2>1, <1>0, <2>7, Counted DEF OneOpenFile, CallOrder
    <2>10. MessagesThere' /\ Reading'
      BY <1>0, <2>5, <2>7 DEF MessagesThere, Reading, TypeOK
    <2>11. Replaced'
      BY <1>0, <2>2, <2>3, <2>5, <2>6, <2>7, QueuedReplaced
    <2> QED
      BY <2>8, <2>9, <2>10, <2>11 DEF IInv
  <1> QED
    BY <1>1, <1>2

\* and so does stopRecording:
LEMMA StopInv ==
  IInv /\ (FinishRecording \/ FinishWriting \/ RemoveOutput \/ RemoveInput \/ Forget) => IInv'
  <1> SUFFICES ASSUME IInv, FinishRecording \/ FinishWriting \/ RemoveOutput \/ RemoveInput \/ Forget
               PROVE  IInv'
    OBVIOUS
  <1>0. TypeOK /\ OneOpenFile /\ CallOrder /\ MessagesThere /\ Replaced /\ Reading
    BY DEF IInv
  <1>a. recorder \in Recorders
    BY <1>0 DEF FinishRecording, FinishWriting, RemoveOutput, RemoveInput, Forget, TypeOK, CallOrder
  <1>1. CASE FinishRecording
    <2>1. /\ UNCHANGED <<recorder, started, file, retained, audio, outputs, inputTable, freed,
                         toAudio, toMain, crashed>>
          /\ main' = "finishWriting" /\ recording' = [recording EXCEPT ![recorder] = FALSE]
      BY <1>1 DEF FinishRecording, audioVars, tableVars, queueVars
    <2>2. recording' \in [Recorders -> BOOLEAN]
      BY <1>0, <2>1 DEF TypeOK
    <2>3. TypeOK'
      BY <1>0, <2>1, <2>2 DEF TypeOK
    <2>4. OneOpenFile' /\ CallOrder'
      BY <1>0, <1>a, <2>1, Counted DEF OneOpenFile, CallOrder
    <2>5. MessagesThere' /\ Replaced' /\ Reading'
      BY <1>0, <2>1 DEF MessagesThere, Replaced, Reading, Below
    <2> QED
      BY <2>3, <2>4, <2>5 DEF IInv
  <1>2. CASE FinishWriting
    <2>1. /\ UNCHANGED <<recorder, started, recording, retained, audio, outputs, inputTable, freed,
                         toAudio, toMain, crashed>>
          /\ main' = "removeOutput" /\ file' = Closed(recorder)
      BY <1>2 DEF FinishWriting, audioVars, tableVars, queueVars
    <2>2. /\ file' \in [Recorders -> {"none", "open", "closed"}]
          /\ file'[recorder] # "open"
          /\ \A r \in Recorders : file'[r] = "open" => file[r] = "open"
      BY <1>0, <1>a, <2>1 DEF TypeOK, Closed
    <2>3. TypeOK'
      BY <1>0, <2>1, <2>2 DEF TypeOK
    <2>4. OneOpenFile' /\ CallOrder'
      BY <1>0, <1>a, <2>1, <2>2, Counted DEF OneOpenFile, CallOrder
    <2>5. MessagesThere' /\ Replaced' /\ Reading'
      BY <1>0, <2>1 DEF MessagesThere, Replaced, Reading, Below
    <2> QED
      BY <2>3, <2>4, <2>5 DEF IInv
  <1>3. CASE RemoveOutput \/ RemoveInput
    <2> DEFINE message == IF RemoveOutput THEN Message("removeOutput", recorder, None)
                          ELSE Message("removeInput", recorder, inputTable.address)
    <2>2. message \in Messages /\ message.table <= inputTable.address
      BY <1>0, <1>a, Made, Counted DEF TypeOK, Kinds, None, Replaced
    <2>3. RemoveOutput => message.table = 0
      BY <1>a, Made, Counted DEF Kinds, None
    <2>4. toAudio' = IF Len(toAudio) < QueueLen THEN Append(toAudio, message) ELSE toAudio
      BY <1>3 DEF RemoveOutput, RemoveInput, Perform
    <2> HIDE DEF message
    <2>5. /\ toAudio' \in Seq(Messages) /\ Len(toAudio') <= QueueLen /\ Len(toAudio') >= Len(toAudio)
          /\ \A i \in 1..Len(toAudio') : toAudio'[i] = message
                                          \/ (i \in 1..Len(toAudio) /\ toAudio'[i] = toAudio[i])
      BY <1>0, <2>2, <2>4, Sent DEF TypeOK
    <2>6. /\ inputTable' \in [address : Nat, members : SUBSET Recorders]
          /\ RemoveOutput => inputTable' = inputTable
          /\ ~RemoveOutput => inputTable'.address = inputTable.address + 1
      BY <1>0, <1>3 DEF RemoveOutput, RemoveInput, TypeOK, tableVars
    <2>7. /\ UNCHANGED <<recorder, started, recording, file, retained, outputs, audio, freed, toMain, crashed>>
          /\ main \in {"removeOutput", "removeInput"} /\ main' \in {"removeInput", "forget"}
      BY <1>3 DEF RemoveOutput, RemoveInput, audioVars, tableVars, recorderVars
    <2>8. TypeOK'
      BY <1>0, <2>5, <2>6, <2>7 DEF TypeOK
    <2>9. OneOpenFile' /\ CallOrder'
      BY <1>a, <1>0, <2>7, Counted DEF OneOpenFile, CallOrder
    <2>10. MessagesThere' /\ Reading'
      BY <1>0, <2>5, <2>7 DEF MessagesThere, Reading, TypeOK
    <2>11. Replaced'
      BY <1>0, <2>2, <2>3, <2>5, <2>6, <2>7, QueuedReplaced
    <2> QED
      BY <2>8, <2>9, <2>10, <2>11 DEF IInv
  <1>4. CASE Forget
    <2>1. /\ UNCHANGED <<started, recording, file, audio, outputs, inputTable, freed,
                         toAudio, toMain, crashed>>
          /\ main = "forget" /\ main' = "idle" /\ recorder' = None
          /\ retained' = [retained EXCEPT ![recorder] = @ \ {"view"}]
      BY <1>4 DEF Forget, audioVars, tableVars, queueVars
    <2>2. retained' \in [Recorders -> SUBSET {"view", "output", "input"}]
      BY <1>0, <1>a, <2>1 DEF TypeOK
    <2>3. TypeOK'
      BY <1>0, <2>1, <2>2 DEF TypeOK
    <2>4. OneOpenFile' /\ CallOrder'
      BY <1>0, <1>a, <2>1, Counted DEF OneOpenFile, CallOrder
    <2>5. MessagesThere' /\ Replaced' /\ Reading'
      BY <1>0, <2>1 DEF MessagesThere, Replaced, Reading, Below
    <2> QED
      BY <2>3, <2>4, <2>5 DEF IInv
  <1> QED
    BY <1>1, <1>2, <1>3, <1>4

\* The main thread's answer to a message: a table that is freed is none the audio
\* thread reads.
LEMMA ResponseInv == IInv /\ ProcessMainThreadMessage => IInv'
  <1> SUFFICES ASSUME IInv, ProcessMainThreadMessage PROVE IInv'
    OBVIOUS
  <1>0. TypeOK /\ OneOpenFile /\ CallOrder /\ MessagesThere /\ Replaced /\ Reading
    BY DEF IInv
  <1> DEFINE message == Head(toMain)
  <1>1. /\ main = "idle" /\ toMain # <<>> /\ toMain \in Seq(Messages) /\ toMain' = Tail(toMain)
        /\ UNCHANGED <<recorder, started, audio, outputs, inputTable, toAudio>>
    BY <1>0 DEF ProcessMainThreadMessage, TypeOK, mainVars, audioVars
  <1>2. /\ message \in Messages /\ message = toMain[1] /\ 1 \in 1..Len(toMain)
        /\ toMain' \in Seq(Messages) /\ Len(toMain') = Len(toMain) - 1
        /\ \A i \in 1..Len(toMain') : i + 1 \in 1..Len(toMain) /\ toMain'[i] = toMain[i+1]
    BY <1>1, Taken
  <1>3. /\ message.table \in Nat
        /\ message.kind # "status" => message.recorder \in Recorders
    BY <1>2, Told
  <1>4. \/ message.kind = "error" /\ ReportError(message.recorder)
        \/ message.kind # "error" /\ Respond(message)
    BY DEF ProcessMainThreadMessage
  <1>b. main' \in {"idle", "update"}
    BY <1>1, <1>4 DEF ReportError, Respond
  <1> HIDE DEF message
  <1>5. freed' \subseteq freed \cup {message.table} /\ (freed' = freed \/ message.table # 0)
    BY <1>4 DEF ReportError, Respond, None
  <1>6. recording' \in [Recorders -> BOOLEAN]
    <2>1. recording \in [Recorders -> BOOLEAN]
      BY <1>0 DEF TypeOK
    <2>2. \/ recording' = recording
          \/ message.kind = "error" /\ recording' = [recording EXCEPT ![message.recorder] = FALSE]
      BY <1>4 DEF ReportError, Respond
    <2> QED
      BY <1>3, <2>1, <2>2
  <1>7. /\ file' \in [Recorders -> {"none", "open", "closed"}]
        /\ \A r \in Recorders : file'[r] = "open" => file[r] = "open"
    <2>1. file \in [Recorders -> {"none", "open", "closed"}]
      BY <1>0 DEF TypeOK
    <2>2. \/ file' = file
          \/ message.kind = "error" /\ file' = Closed(message.recorder)
      BY <1>4 DEF ReportError, Respond
    <2> QED
      BY <1>3, <2>1, <2>2 DEF Closed
  <1>8. retained' \in [Recorders -> SUBSET {"view", "output", "input"}]
    <2>1. retained \in [Recorders -> SUBSET {"view", "output", "input"}]
      BY <1>0 DEF TypeOK
    <2>2. \/ retained' = retained
          \/ /\ message.kind = "removeInput"
             /\ retained' = [retained EXCEPT ![message.recorder] = @ \ {"input"}]
          \/ /\ message.kind = "removedOutput"
             /\ retained' = [retained EXCEPT ![message.recorder] = @ \ {"output"}]
      BY <1>4 DEF ReportError, Respond
    <2> QED
      BY <1>3, <2>1, <2>2
  <1>9. crashed' \in BOOLEAN
    <2>1. crashed \in BOOLEAN
      BY <1>0 DEF TypeOK
    <2>2. crashed' = crashed \/ crashed' = TRUE
      BY <1>4 DEF ReportError, Respond
    <2> QED
      BY <2>1, <2>2, Zenon
  <1>10. freed' \subseteq Nat /\ Len(toMain') <= QueueLen
    BY <1>0, <1>1, <1>2, <1>3, <1>5, Counted DEF TypeOK
  <1>11. TypeOK'
    BY <1>0, <1>1, <1>2, <1>b, <1>6, <1>7, <1>8, <1>9, <1>10 DEF TypeOK
  <1>12. OneOpenFile' /\ CallOrder' /\ MessagesThere'
    BY <1>0, <1>1, <1>b, <1>7 DEF OneOpenFile, CallOrder, MessagesThere
  <1>13. Replaced'
    BY <1>0, <1>1, <1>2, <1>3, <1>5 DEF Replaced, Below
  <1>14. Reading'
    BY <1>0, <1>1, <1>2, <1>5 DEF Reading
  <1> QED
    BY <1>11, <1>12, <1>13, <1>14 DEF IInv

\* What updateInputDeviceStatus queues follows what is there.
LEMMA Queued ==
  ASSUME NEW queue \in Seq(Messages), Len(queue) <= QueueLen,
         NEW next \in WithStatus(queue)
  PROVE  /\ next \in Seq(Messages) /\ Len(next) <= QueueLen /\ Len(next) >= Len(queue)
         /\ \A i \in 1..Len(queue) : i \in 1..Len(next) /\ next[i] = queue[i]
         /\ \A i \in 1..Len(next) : (i \in 1..Len(queue) /\ next[i] = queue[i])
                                      \/ (i > Len(queue) /\ next[i] = StatusMessage)
  <1>0. PICK n \in 0..(QueueLen - Len(queue)) : next = queue \o StatusMessages(n)
    BY Zenon DEF WithStatus
  <1> DEFINE status == StatusMessages(n)
  <1>1. n \in Nat /\ Len(queue) \in Nat /\ Len(queue) + n <= QueueLen
    BY Counted
  <1>2. status \in Seq(Messages) /\ Len(status) = n /\ \A i \in 1..n : status[i] = StatusMessage
    BY <1>1, StatusTold DEF StatusMessages
  <1> HIDE DEF status
  <1>3. next = queue \o status
    BY <1>0, Zenon DEF status
  <1>4. next \in Seq(Messages) /\ Len(next) = Len(queue) + n
    BY <1>2, <1>3, ConcatProperties
  <1>5. \A i \in 1..Len(next) : next[i] = IF i <= Len(queue) THEN queue[i] ELSE status[i - Len(queue)]
    BY <1>2, <1>3, <1>4, ConcatProperties
  <1>6. \A i \in 1..Len(next) : i > Len(queue) => i - Len(queue) \in 1..n
    BY <1>1, <1>4
  <1>7. \A i \in 1..Len(queue) : i \in 1..Len(next) /\ next[i] = queue[i]
    BY <1>1, <1>4, <1>5
  <1>8. \A i \in 1..Len(next) : (i \in 1..Len(queue) /\ next[i] = queue[i])
                                 \/ (i > Len(queue) /\ next[i] = StatusMessage)
    <2> SUFFICES ASSUME NEW i \in 1..Len(next)
                 PROVE  (i \in 1..Len(queue) /\ next[i] = queue[i])
                        \/ (i > Len(queue) /\ next[i] = StatusMessage)
      OBVIOUS
    <2>1. CASE i \in 1..Len(queue)
      BY <1>7, <2>1
    <2>2. CASE i \notin 1..Len(queue)
      <3>1. i > Len(queue) /\ ~(i <= Len(queue))
        BY <1>1, <1>4, <2>2
      <3>2. next[i] = status[i - Len(queue)] /\ i - Len(queue) \in 1..n
        BY <1>5, <1>6, <3>1
      <3> QED
        BY <1>2, <3>1, <3>2
    <2> QED
      BY <2>1, <2>2
  <1> QED
    BY <1>1, <1>4, <1>7, <1>8

\* The update of the input's status keeps the invariant: it frees no table.
LEMMA StatusInv == IInv /\ UpdateInputDeviceStatus => IInv'
  <1> SUFFICES ASSUME IInv, UpdateInputDeviceStatus PROVE IInv'
    OBVIOUS
  <1>0. TypeOK /\ OneOpenFile /\ CallOrder /\ MessagesThere /\ Replaced /\ Reading
    BY DEF IInv
  <1>1. /\ main = "update" /\ main' = "idle"
        /\ UNCHANGED <<recorder, started, recording, file, retained, inputTable, freed, outputs, audio,
                      toMain, crashed>>
    BY DEF UpdateInputDeviceStatus, audioVars, recorderVars, tableVars
  <1>2. toAudio \in Seq(Messages) /\ Len(toAudio) <= QueueLen
    BY <1>0 DEF TypeOK
  <1>3. /\ toAudio' \in Seq(Messages) /\ Len(toAudio') <= QueueLen /\ Len(toAudio') >= Len(toAudio)
        /\ \A i \in 1..Len(toAudio') :
             \/ toAudio'[i] = StatusMessage
             \/ i \in 1..Len(toAudio) /\ toAudio'[i] = toAudio[i]
    <2>1. toAudio' \in WithStatus(toAudio)
      BY DEF UpdateInputDeviceStatus
    <2>2. /\ toAudio' \in Seq(Messages) /\ Len(toAudio') <= QueueLen /\ Len(toAudio') >= Len(toAudio)
          /\ \A i \in 1..Len(toAudio) : i \in 1..Len(toAudio') /\ toAudio'[i] = toAudio[i]
          /\ \A i \in 1..Len(toAudio') : (i \in 1..Len(toAudio) /\ toAudio'[i] = toAudio[i])
                                          \/ (i > Len(toAudio) /\ toAudio'[i] = StatusMessage)
      BY <1>2, <2>1, Queued, Zenon
    <2> QED
      BY <2>2
  <1>4. TypeOK'
    BY <1>0, <1>1, <1>3 DEF TypeOK
  <1>5. OneOpenFile' /\ CallOrder'
    BY <1>0, <1>1 DEF OneOpenFile, CallOrder
  <1>6. MessagesThere' /\ Reading'
    BY <1>0, <1>1, <1>2, <1>3 DEF MessagesThere, Reading, TypeOK
  <1>7. Replaced'
    BY <1>0, <1>1, <1>3, StatusTold DEF Replaced, Below
  <1> QED
    BY <1>4, <1>5, <1>6, <1>7 DEF IInv

\* What a step of the audio thread leaves alone.
LEMMA AudioType ==
  ASSUME IInv, UNCHANGED <<recorder, started, main, file, retained, inputTable, freed>>,
         recording' \in [Recorders -> BOOLEAN], outputs' \subseteq Recorders, crashed' \in BOOLEAN,
         toAudio' \in Seq(Messages), Len(toAudio') <= QueueLen,
         toMain' \in Seq(Messages), Len(toMain') <= QueueLen,
         audio' \in [at : {"idle", "messages", "input", "output"}, todo : SUBSET Recorders,
                     table : Nat, messages : 0..QueueLen, writing : Recorders \cup {None}]
  PROVE  TypeOK' /\ OneOpenFile' /\ CallOrder'
  <1>1. TypeOK /\ OneOpenFile /\ CallOrder
    BY DEF IInv
  <1>2. TypeOK'
    BY <1>1 DEF TypeOK
  <1> QED
    BY <1>1, <1>2 DEF OneOpenFile, CallOrder

\* A step that only moves the audio thread on.
LEMMA MovesOn ==
  ASSUME IInv,
         UNCHANGED <<recorder, started, main, recording, file, retained, inputTable, freed,
                     outputs, toAudio, toMain, crashed>>,
         audio' \in [at : {"idle", "messages", "input", "output"}, todo : SUBSET Recorders,
                     table : Nat, messages : 0..QueueLen, writing : Recorders \cup {None}],
         audio'.at = "messages" => audio'.messages <= Len(toAudio),
         audio'.at = "input" => \/ audio'.table = inputTable.address
                                \/ audio.at = "input" /\ audio'.table = audio.table
  PROVE  IInv'
  <1>0. TypeOK /\ Replaced /\ Reading
    BY DEF IInv
  <1>1. /\ recording' \in [Recorders -> BOOLEAN] /\ outputs' \subseteq Recorders /\ crashed' \in BOOLEAN
        /\ toAudio' \in Seq(Messages) /\ Len(toAudio') <= QueueLen
        /\ toMain' \in Seq(Messages) /\ Len(toMain') <= QueueLen
    BY <1>0 DEF TypeOK
  <1>2. TypeOK' /\ OneOpenFile' /\ CallOrder'
    BY <1>1, AudioType
  <1>3. MessagesThere' /\ Replaced'
    BY <1>0 DEF MessagesThere, Replaced, Below
  <1>4. inputTable.address \in Nat /\ inputTable.address > 0
        /\ (\A table \in freed : table < inputTable.address)
        /\ (\A i \in 1..Len(toMain) : toMain[i].table < inputTable.address)
    BY <1>0 DEF TypeOK, Replaced, Below
  <1>5. Reading'
    BY <1>0, <1>4 DEF Reading
  <1> QED
    BY <1>2, <1>3, <1>5 DEF IInv

\* The states of the audio thread.
Renders == [at : {"idle", "messages", "input", "output"}, todo : SUBSET Recorders,
            table : Nat, messages : 0..QueueLen, writing : Recorders \cup {None}]

\* A render, up to where it calls the receivers back, and from there on.
LEMMA RenderInv ==
  IInv /\ (PreRender \/ ServiceAudioInput \/ HandleOutputCallbacks \/ EndRender \/ CheckRecording)
    => IInv'
  <1> SUFFICES ASSUME IInv,
                      PreRender \/ ServiceAudioInput \/ HandleOutputCallbacks \/ EndRender \/ CheckRecording
               PROVE  IInv'
    OBVIOUS
  <1>0. /\ audio \in Renders /\ inputTable \in [address : Nat, members : SUBSET Recorders]
        /\ outputs \subseteq Recorders /\ toAudio \in Seq(Messages) /\ Len(toAudio) <= QueueLen
        /\ MessagesThere
    BY DEF IInv, TypeOK, Renders
  <1>1. UNCHANGED <<recorder, started, main, recording, file, retained, inputTable, freed,
                    outputs, toAudio, toMain, crashed>>
    BY DEF PreRender, ServiceAudioInput, HandleOutputCallbacks, EndRender, CheckRecording,
           mainVars, recorderVars, tableVars, queueVars
  <1>2. \A todo \in SUBSET Recorders, table \in Nat, n \in 0..QueueLen,
           at \in {"idle", "messages", "input", "output"} :
          LET a == Render(at, todo, table, n)
          IN  a \in Renders /\ a.at = at /\ a.messages = n /\ a.table = table
    BY DEF Render, Renders
  <1>3. 0 \in 0..QueueLen /\ Len(toAudio) \in 0..QueueLen /\ None \in Nat
    BY <1>0, Counted DEF None
  <1>4. /\ audio' \in Renders
        /\ audio'.at = "messages" => audio'.messages <= Len(toAudio)
        /\ audio'.at = "input" => \/ audio'.table = inputTable.address
                                  \/ audio.at = "input" /\ audio'.table = audio.table
    <2>1. CASE PreRender
      <3>1. PICK n \in {0, Len(toAudio)} : audio' = Render("messages", {}, None, n)
        BY <2>1 DEF PreRender
      <3>2. n \in 0..QueueLen /\ n <= Len(toAudio)
        BY <1>0, <1>3
      <3>3. audio' \in Renders /\ audio'.at = "messages" /\ audio'.messages <= Len(toAudio)
        BY <1>2, <1>3, <3>1, <3>2
      <3> QED
        BY <1>0, <3>3
    <2>2. CASE ServiceAudioInput
      <3>1. PICK todo \in {{}, inputTable.members} : audio' = Render("input", todo, inputTable.address, 0)
        BY <2>2 DEF ServiceAudioInput
      <3>2. todo \in SUBSET Recorders /\ inputTable.address \in Nat
        BY <1>0
      <3>3. /\ Render("input", todo, inputTable.address, 0) \in Renders
            /\ Render("input", todo, inputTable.address, 0).at = "input"
            /\ Render("input", todo, inputTable.address, 0).table = inputTable.address
        BY <1>2, <1>3, <3>2
      <3>4. audio' \in Renders /\ audio'.at = "input" /\ audio'.table = inputTable.address
        BY <3>1, <3>3, Zenon
      <3> QED
        BY <3>4
    <2>3. CASE HandleOutputCallbacks
      <3>1. audio' = Render("output", outputs, None, 0)
        BY <2>3 DEF HandleOutputCallbacks
      <3>2. audio' \in Renders /\ audio'.at = "output"
        BY <1>0, <1>2, <1>3, <3>1
      <3> QED
        BY <3>2
    <2>4. CASE EndRender
      <3>1. audio' = Render("idle", {}, None, 0)
        BY <2>4 DEF EndRender, Idle
      <3>2. audio' \in Renders /\ audio'.at = "idle"
        BY <1>2, <1>3, <3>1
      <3> QED
        BY <3>2
    <2>5. CASE CheckRecording
      <3>1. PICK r \in audio.todo : \/ audio' = [audio EXCEPT !.writing = r]
                                    \/ audio' = [audio EXCEPT !.todo = @ \ {r}]
        BY <2>5 DEF CheckRecording
      <3>2. r \in Recorders /\ audio.todo \ {r} \in SUBSET Recorders
        BY <1>0 DEF Renders
      <3>3. audio' \in Renders
        BY <1>0, <3>1, <3>2 DEF Renders
      <3>4. audio'.at = audio.at /\ audio'.messages = audio.messages /\ audio'.table = audio.table
        BY <1>0, <3>1 DEF Renders
      <3> QED
        BY <1>0, <3>3, <3>4 DEF MessagesThere
    <2> QED
      BY <2>1, <2>2, <2>3, <2>4, <2>5
  <1> QED
    BY <1>1, <1>4, MovesOn DEF Renders

\* The response of a message is about the same recorder and the same table.
LEMMA Answered ==
  ASSUME NEW message \in Messages
  PROVE  /\ Answer(message) \in Messages /\ Answer(message).table = message.table
         /\ Answer(message).recorder = message.recorder
         /\ Answer(message).kind = IF message.kind = "removeOutput" /\ message.recorder \in outputs
                                   THEN "removedOutput" ELSE message.kind
         /\ message.kind # "status" => message.recorder \in Recorders
  <1>1. CASE message.kind = "status"
    <2>1. Answer(message) = message
      BY <1>1 DEF Answer
    <2> QED
      BY <1>1, <2>1
  <1>2. CASE message.kind # "status"
    <2>1. message \in [kind : Kinds, recorder : Recorders, table : Nat]
      BY <1>2, StatusTold DEF Messages
    <2>2. \/ Answer(message) = message
          \/ Answer(message) = [message EXCEPT !.kind = "removedOutput"]
      BY DEF Answer
    <2>3. Answer(message) \in [kind : Kinds, recorder : Recorders, table : Nat]
      BY <2>1, <2>2 DEF Kinds
    <2> QED
      BY <2>1, <2>3 DEF Answer, Messages
  <1> QED
    BY <1>1, <1>2

\* A message processed: its answer is about the same table.
LEMMA MessageInv == IInv /\ ProcessMessage => IInv'
  <1> SUFFICES ASSUME IInv, ProcessMessage PROVE IInv'
    OBVIOUS
  <1>0. /\ audio \in Renders /\ outputs \subseteq Recorders /\ crashed \in BOOLEAN
        /\ toAudio \in Seq(Messages) /\ Len(toAudio) <= QueueLen
        /\ toMain \in Seq(Messages) /\ Len(toMain) <= QueueLen
        /\ recording \in [Recorders -> BOOLEAN]
        /\ MessagesThere /\ Replaced
    BY DEF IInv, TypeOK, Renders
  <1> DEFINE message == Head(toAudio)
             answer == Answer(message)
  <1>1. /\ audio.at = "messages" /\ audio.messages \in 1..QueueLen /\ audio.messages <= Len(toAudio)
        /\ toAudio' = Tail(toAudio)
        /\ UNCHANGED <<recorder, started, main, recording, file, retained, inputTable, freed, crashed>>
    BY <1>0 DEF ProcessMessage, MessagesThere, Renders, mainVars, recorderVars, tableVars
  <1>2. /\ toMain' = IF Len(toMain) < QueueLen THEN Append(toMain, answer) ELSE toMain
        /\ \/ outputs' = outputs
           \/ message.kind = "addOutput" /\ outputs' = outputs \cup {message.recorder}
           \/ outputs' = outputs \ {message.recorder}
        /\ audio' = [audio EXCEPT !.messages = IF Len(toMain) < QueueLen THEN @ - 1 ELSE 0]
    BY DEF ProcessMessage, Reply
  <1>3. toAudio # <<>>
    BY <1>0, <1>1
  <1>4. /\ message \in Messages /\ message = toAudio[1] /\ 1 \in 1..Len(toAudio)
        /\ toAudio' \in Seq(Messages) /\ Len(toAudio') = Len(toAudio) - 1
        /\ \A i \in 1..Len(toAudio') : i + 1 \in 1..Len(toAudio) /\ toAudio'[i] = toAudio[i+1]
    BY <1>0, <1>1, <1>3, Taken
  <1>5. /\ answer \in Messages /\ answer.table = message.table
        /\ message.kind # "status" => message.recorder \in Recorders
    BY <1>4, Answered
  <1> HIDE DEF message, answer
  <1>6. /\ toMain' \in Seq(Messages) /\ Len(toMain') <= QueueLen
        /\ \A i \in 1..Len(toMain') : toMain'[i] = answer \/ (i \in 1..Len(toMain) /\ toMain'[i] = toMain[i])
    BY <1>0, <1>2, <1>5, Sent
  <1>7. /\ audio' \in Renders /\ audio'.at = "messages"
        /\ audio'.messages <= Len(toAudio')
    <2>1. Len(toAudio') \in Nat /\ Len(toAudio') = Len(toAudio) - 1 /\ Len(toAudio) \in Nat
      BY <1>0, <1>4
    <2>2. audio.messages - 1 \in 0..QueueLen /\ audio.messages - 1 <= Len(toAudio') /\ 0 \in 0..QueueLen
      BY <1>1, <2>1, Counted
    <2>3. audio'.at = "messages" /\ audio' = [audio EXCEPT !.messages = audio'.messages]
          /\ audio'.messages \in 0..QueueLen /\ audio'.messages <= Len(toAudio')
      <3>1. CASE Len(toMain) < QueueLen
        <4>1. audio' = [audio EXCEPT !.messages = audio.messages - 1]
          BY <1>2, <3>1
        <4> QED
          BY <1>0, <1>1, <2>2, <4>1 DEF Renders
      <3>2. CASE ~(Len(toMain) < QueueLen)
        <4>1. audio' = [audio EXCEPT !.messages = 0]
          BY <1>2, <3>2
        <4> QED
          BY <1>0, <1>1, <2>1, <2>2, <4>1 DEF Renders
      <3> QED
        BY <3>1, <3>2
    <2>4. audio' \in Renders
      BY <1>0, <2>3 DEF Renders
    <2> QED
      BY <2>3, <2>4
  <1>8. outputs' \subseteq Recorders /\ Len(toAudio') <= QueueLen
    BY <1>0, <1>2, <1>4, <1>5, Counted
  <1>9. crashed' \in BOOLEAN /\ recording' \in [Recorders -> BOOLEAN]
    <2>1. crashed' = crashed /\ recording' = recording
      BY <1>1
    <2> QED
      BY <1>0, <2>1, Zenon
  <1>10. TypeOK' /\ OneOpenFile' /\ CallOrder'
    BY <1>1, <1>4, <1>6, <1>7, <1>8, <1>9, AudioType DEF Renders
  <1>11. MessagesThere' /\ Reading'
    BY <1>7 DEF MessagesThere, Reading
  <1>12. Replaced'
    <2>1. message.table < inputTable.address /\ answer.table < inputTable.address
      BY <1>0, <1>4, <1>5 DEF Replaced, Below
    <2>2. \A i \in 1..Len(toMain') : toMain'[i].table < inputTable.address
      BY <1>0, <1>6, <2>1 DEF Replaced, Below
    <2>3. \A i \in 1..Len(toAudio') : toAudio'[i].table < inputTable.address
      BY <1>0, <1>4 DEF Replaced, Below
    <2> QED
      BY <1>0, <1>1, <2>2, <2>3 DEF Replaced, Below
  <1> QED
    BY <1>10, <1>11, <1>12 DEF IInv

\* A callback that writes, and reports an error, which is about no table.
LEMMA WriteInv == IInv /\ (WriteAudio \/ CallbackCrashes) => IInv'
  <1> SUFFICES ASSUME IInv, WriteAudio \/ CallbackCrashes PROVE IInv'
    OBVIOUS
  <1>0. /\ audio \in Renders /\ outputs \subseteq Recorders /\ crashed \in BOOLEAN
        /\ toAudio \in Seq(Messages) /\ Len(toAudio) <= QueueLen
        /\ toMain \in Seq(Messages) /\ Len(toMain) <= QueueLen
        /\ recording \in [Recorders -> BOOLEAN]
        /\ MessagesThere /\ Replaced /\ Reading
    BY DEF IInv, TypeOK, Renders
  <1>1. CASE WriteAudio
    <2> DEFINE message == Message("error", audio.writing, None)
    <2>1. /\ audio.writing \in Recorders
          /\ UNCHANGED <<recorder, started, main, file, retained, inputTable, freed, toAudio, outputs, crashed>>
          /\ audio' = [audio EXCEPT !.writing = None, !.todo = @ \ {audio.writing}]
      BY <1>0, <1>1 DEF WriteAudio, Renders, mainVars, tableVars
    <2>2. message \in Messages /\ message.table = 0
      BY <2>1, Made, Counted DEF Kinds, None
    <2>3. \/ UNCHANGED <<recording, toMain>>
          \/ /\ recording' = [recording EXCEPT ![audio.writing] = FALSE]
             /\ toMain' = IF Len(toMain) < QueueLen THEN Append(toMain, message) ELSE toMain
      BY <1>1 DEF WriteAudio, Reply
    <2> HIDE DEF message
    <2>4. recording' \in [Recorders -> BOOLEAN]
      BY <1>0, <2>1, <2>3
    <2>5. /\ toMain' \in Seq(Messages) /\ Len(toMain') <= QueueLen
          /\ \A i \in 1..Len(toMain') : toMain'[i] = message \/ (i \in 1..Len(toMain) /\ toMain'[i] = toMain[i])
      <3>1. CASE toMain' = toMain
        BY <1>0, <3>1
      <3>2. CASE toMain' = IF Len(toMain) < QueueLen THEN Append(toMain, message) ELSE toMain
        BY <1>0, <2>2, <3>2, Sent
      <3> QED
        BY <2>3, <3>1, <3>2
    <2>6. /\ audio' \in Renders /\ audio'.at = audio.at /\ audio'.messages = audio.messages
          /\ audio'.table = audio.table
      BY <1>0, <2>1 DEF Renders
    <2>7. crashed' \in BOOLEAN
      BY <1>0, <2>1, Zenon
    <2>8. TypeOK' /\ OneOpenFile' /\ CallOrder'
      BY <1>0, <2>1, <2>4, <2>5, <2>6, <2>7, AudioType DEF Renders
    <2>9. MessagesThere'
      BY <1>0, <2>1, <2>6 DEF MessagesThere
    <2>10. Replaced'
      BY <1>0, <2>1, <2>2, <2>5 DEF Replaced, Below
    <2>11. Reading'
      BY <1>0, <2>1, <2>2, <2>5, <2>6 DEF Reading
    <2> QED
      BY <2>8, <2>9, <2>10, <2>11 DEF IInv
  <1>2. CASE CallbackCrashes
    <2>1. /\ UNCHANGED <<recorder, started, main, recording, file, retained, inputTable, freed,
                         toAudio, toMain, outputs, audio>>
          /\ crashed' = TRUE
      BY <1>2 DEF CallbackCrashes, mainVars, audioVars, recorderVars, tableVars, queueVars
    <2>2. crashed' \in BOOLEAN
      BY <2>1, Zenon
    <2>3. TypeOK' /\ OneOpenFile' /\ CallOrder'
      BY <1>0, <2>1, <2>2, AudioType DEF Renders
    <2>4. MessagesThere' /\ Replaced' /\ Reading'
      BY <1>0, <2>1 DEF MessagesThere, Replaced, Reading, Below
    <2> QED
      BY <2>3, <2>4 DEF IInv
  <1> QED
    BY <1>1, <1>2

LEMMA NextInv == IInv /\ [Next]_vars => IInv'
  <1> SUFFICES ASSUME IInv, [Next]_vars PROVE IInv'
    OBVIOUS
  <1>1. CASE Next
    <2>1. \/ Begin \/ BeginFails \/ AddOutput \/ AddInput
          \/ FinishRecording \/ FinishWriting \/ RemoveOutput \/ RemoveInput \/ Forget
          \/ ProcessMainThreadMessage \/ UpdateInputDeviceStatus
          \/ PreRender \/ ServiceAudioInput \/ HandleOutputCallbacks \/ EndRender \/ CheckRecording
          \/ ProcessMessage
          \/ WriteAudio \/ CallbackCrashes
      BY <1>1 DEF Next, MainThread, AudioThread
    <2> QED
      BY <2>1, StartInv, StopInv, ResponseInv, StatusInv, RenderInv, MessageInv, WriteInv
  <1>2. CASE UNCHANGED vars
    <2>1. UNCHANGED <<recorder, started, main, recording, file, retained, inputTable, freed,
                      outputs, audio, toAudio, toMain, crashed>>
      BY <1>2 DEF vars, mainVars, audioVars, recorderVars, tableVars, queueVars
    <2> QED
      BY <2>1 DEF IInv, TypeOK, OneOpenFile, CallOrder, MessagesThere, Replaced, Reading, Below
  <1> QED
    BY <1>1, <1>2

LEMMA Invariance == Spec => []IInv
  BY InitInv, NextInv, PTL DEF Spec

\* The buffers of AEMessageQueue keep their bounds, and every recorder its parts.
THEOREM TypeCorrect == Spec => []TypeOK
  <1>1. IInv => TypeOK
    BY DEF IInv
  <1> QED
    BY <1>1, Invariance, PTL

\* r.wav is open in no recorder but the one the view holds: begin is refused while
\* there is one, and finishRecording closes the file before it is let go.
THEOREM FileOpenOnce == Spec => []OneOpenFile
  <1>1. IInv => OneOpenFile
    BY DEF IInv
  <1> QED
    BY <1>1, Invariance, PTL

\* The audio thread never reads an input table that was freed: the response that
\* frees it is sent when the audio thread has passed the message, before it takes
\* the address of the table that replaced it.
THEOREM TableIsInUse == Spec => []TableInUse
  <1>1. IInv => TableInUse
    BY DEF IInv, Reading, TableInUse
  <1> QED
    BY <1>1, Invariance, PTL

\* A recorder that was not made has no file, and the file of the one that is
\* being finished is closed after its callbacks were stopped.
Stopped ==
  /\ ClosedIsSilent
  /\ main = "finishWriting" => ~recording[recorder]
  /\ \A r \in Recorders : r > started => file[r] = "none"

LEMMA StoppedNext == IInv /\ Stopped /\ [Next]_vars => Stopped'
  <1> SUFFICES ASSUME IInv, Stopped, [Next]_vars PROVE Stopped'
    OBVIOUS
  <1>0. /\ recording \in [Recorders -> BOOLEAN] /\ file \in [Recorders -> {"none", "open", "closed"}]
        /\ recorder \in Recorders \cup {None} /\ started \in Nat /\ started <= MaxStarts
        /\ main \notin {"idle", "update"} => recorder \in Recorders
        /\ toMain \in Seq(Messages) /\ audio \in Renders
    BY Counted DEF IInv, TypeOK, CallOrder, Renders
  <1>1. CASE Begin \/ BeginFails
    <2>1. /\ started' = started + 1 /\ started + 1 \in Recorders
          /\ recording' = [recording EXCEPT ![started + 1] = TRUE]
          /\ file' = file \/ file' = [file EXCEPT ![started + 1] = "open"]
          /\ main' # "finishWriting"
      BY <1>0, <1>1, Counted DEF Begin, BeginFails, Recorders
    <2>2. file[started + 1] = "none"
      BY <1>0, <2>1 DEF Stopped
    <2> QED
      BY <1>0, <2>1, <2>2, Counted DEF Stopped, ClosedIsSilent
  <1>2. CASE FinishRecording
    <2>1. /\ recorder \in Recorders /\ UNCHANGED <<recorder, started, file>>
          /\ recording' = [recording EXCEPT ![recorder] = FALSE]
      BY <1>0, <1>2 DEF FinishRecording
    <2> QED
      BY <1>0, <2>1 DEF Stopped, ClosedIsSilent
  <1>3. CASE FinishWriting
    <2>1. /\ recorder \in Recorders /\ UNCHANGED <<recorder, started, recording>>
          /\ file' = Closed(recorder) /\ ~recording[recorder] /\ main' # "finishWriting"
      BY <1>0, <1>3 DEF FinishWriting, Stopped
    <2> QED
      BY <1>0, <2>1 DEF Stopped, ClosedIsSilent, Closed
  <1>4. CASE ProcessMainThreadMessage
    <2> DEFINE r == Head(toMain).recorder
    <2>1. Head(toMain) \in Messages
      BY <1>0, <1>4, Taken DEF ProcessMainThreadMessage
    <2>2. Head(toMain).kind = "error" => r \in Recorders
      BY <2>1, Told
    <2>3. UNCHANGED <<recorder, started>> /\ main' # "finishWriting"
      BY <1>4 DEF ProcessMainThreadMessage, ReportError, Respond
    <2>4. \/ UNCHANGED <<recording, file>>
          \/ r \in Recorders /\ recording' = [recording EXCEPT ![r] = FALSE] /\ file' = Closed(r)
      BY <1>4, <2>2 DEF ProcessMainThreadMessage, ReportError, Respond
    <2> HIDE DEF r
    <2> QED
      BY <1>0, <2>3, <2>4 DEF Stopped, ClosedIsSilent, Closed
  <1>5. CASE WriteAudio
    <2>1. audio.writing \in Recorders /\ UNCHANGED <<recorder, started, main, file>>
      BY <1>0, <1>5 DEF WriteAudio, Renders, mainVars
    <2>2. recording' = recording \/ recording' = [recording EXCEPT ![audio.writing] = FALSE]
      BY <1>5 DEF WriteAudio
    <2> QED
      BY <1>0, <2>1, <2>2 DEF Stopped, ClosedIsSilent
  <1>6. CASE AddOutput \/ AddInput \/ RemoveOutput \/ RemoveInput \/ Forget \/ UpdateInputDeviceStatus
    <2>1. UNCHANGED <<started, recording, file>> /\ main' # "finishWriting"
      BY <1>6 DEF AddOutput, AddInput, RemoveOutput, RemoveInput, Forget, UpdateInputDeviceStatus,
                  recorderVars
    <2> QED
      BY <2>1 DEF Stopped, ClosedIsSilent
  <1>7. CASE \/ PreRender \/ ProcessMessage \/ ServiceAudioInput \/ HandleOutputCallbacks \/ EndRender
             \/ CheckRecording \/ CallbackCrashes \/ UNCHANGED vars
    <2>1. UNCHANGED <<recorder, started, main, recording, file>>
      BY <1>7 DEF PreRender, ProcessMessage, ServiceAudioInput, HandleOutputCallbacks, EndRender,
                  CheckRecording, CallbackCrashes, vars, mainVars, recorderVars
    <2> QED
      BY <2>1 DEF Stopped, ClosedIsSilent
  <1> QED
    BY <1>1, <1>2, <1>3, <1>4, <1>5, <1>6, <1>7 DEF Next, MainThread, AudioThread

\* No callback begins to write to a file that was closed: finishRecording clears
\* _recording before it closes the file, and so does the report of an error.
THEOREM ClosedStaysSilent == Spec => []ClosedIsSilent
  <1>1. Init => Stopped
    BY DEF Init, Stopped, ClosedIsSilent
  <1>2. Stopped => ClosedIsSilent
    BY DEF Stopped
  <1> QED
    BY <1>1, <1>2, Invariance, StoppedNext, PTL DEF Spec
-----------------------------------------------------------------------------
(* The audio thread, which retains nothing, meets only recorders somebody  *)
(* retains, whichever messages are lost.                                   *)

\* A queue holds no message of this kind about this recorder.
Absent(queue, kind, r) ==
  \A i \in 1..Len(queue) : ~(queue[i].kind = kind /\ queue[i].recorder = r)

\* The controller retains the recorder for its table, and no answer under way
\* will release it.
Kept(holder, removal, r) == holder \in retained[r] /\ Absent(toMain, removal, r)

\* A recorder that was not made is nobody's.
Known ==
  /\ recorder <= started
  /\ \A r \in Recorders : r > started => retained[r] = {}

\* Only stopRecording: sends removals, each once for a recorder.
Removing(queue) ==
  \A i \in 1..Len(queue) : \A r \in Recorders :
    Captures(queue[i], r) =>
      /\ r <= started
      /\ r = recorder => \/ main = "forget"
                         \/ main = "removeInput" /\ queue[i].kind # "removeInput"

FromMain == \A i \in 1..Len(toAudio) : toAudio[i].kind \notin {"error", "removedOutput"}

\* A recorder in the input table was not removed; one the audio thread has in its
\* callbacks, or is told to add, was not found by a removal.
InTable ==
  \A r \in inputTable.members :
    Kept("input", "removeInput", r) /\ Absent(toAudio, "removeInput", r)

InOutputs == \A r \in outputs : Kept("output", "removedOutput", r)

Adding ==
  \A i \in 1..Len(toAudio) : \A r \in Recorders :
    toAudio[i].kind = "addOutput" /\ toAudio[i].recorder = r =>
      /\ Kept("output", "removedOutput", r)
      /\ \A j \in 1..(i-1) : ~(toAudio[j].kind = "removeOutput" /\ toAudio[j].recorder = r)

\* What the audio thread is about to call was in the table when it took it, and
\* no removal is answered before the next render.
Calling ==
  /\ audio.at \in {"idle", "messages"} => audio.todo = {}
  /\ audio.at = "input" => \A r \in audio.todo : Kept("input", "removeInput", r)
  /\ audio.at = "output" => audio.todo \subseteq outputs
  /\ audio.writing # None => audio.writing \in audio.todo

\* The recorder of the i-th message is retained until that message is reached.
KeptUntil(holder, removal, i) ==
  /\ holder \in retained[toMain[i].recorder]
  /\ \A j \in 1..(i-1) : ~(toMain[j].kind = removal /\ toMain[j].recorder = toMain[i].recorder)

Reported ==
  \A i \in 1..Len(toMain) : toMain[i].kind = "error" =>
    KeptUntil("input", "removeInput", i) \/ KeptUntil("output", "removedOutput", i)

Living ==
  /\ Known /\ Removing(toAudio) /\ Removing(toMain) /\ FromMain
  /\ InTable /\ InOutputs /\ Adding /\ Calling /\ Reported

LEMMA InitLiving == Init => Living
  <1> SUFFICES ASSUME Init PROVE Living
    OBVIOUS
  <1>1. Len(toAudio) = 0 /\ Len(toMain) = 0 /\ 1..0 = {}
    BY DEF Init
  <1>2. Known
    BY Counted DEF Init, Known, None
  <1>3. Calling
    BY DEF Init, Calling, Idle, Render
  <1>4. InTable /\ InOutputs
    BY DEF Init, InTable, InOutputs
  <1> QED
    BY <1>1, <1>2, <1>3, <1>4 DEF Living, Removing, FromMain, Adding, Reported

-----------------------------------------------------------------------------
\* Where a message that was sent is.
LEMMA SentLast ==
  ASSUME NEW queue \in Seq(Messages), NEW message \in Messages,
         NEW next, next = IF Len(queue) < QueueLen THEN Append(queue, message) ELSE queue
  PROVE  \A i \in 1..Len(next) : \/ i \in 1..Len(queue) /\ next[i] = queue[i]
                                 \/ i = Len(queue) + 1 /\ next[i] = message
  BY Counted

\* The types the steps below need.
LEMMA Types ==
  ASSUME IInv
  PROVE  /\ recorder \in Recorders \cup {None} /\ recorder \in Nat /\ started \in Nat
         /\ main \notin {"idle", "update"} => recorder \in Recorders
         /\ retained \in [Recorders -> SUBSET {"view", "output", "input"}]
         /\ inputTable \in [address : Nat, members : SUBSET Recorders] /\ outputs \subseteq Recorders
         /\ toAudio \in Seq(Messages) /\ toMain \in Seq(Messages)
         /\ \A i \in 1..Len(toAudio) :
              toAudio[i] \in Messages /\ (toAudio[i].kind # "status" => toAudio[i].recorder \in Recorders)
         /\ \A i \in 1..Len(toMain) :
              toMain[i] \in Messages /\ (toMain[i].kind # "status" => toMain[i].recorder \in Recorders)
         /\ audio \in Renders
  <1>1. TypeOK /\ CallOrder
    BY DEF IInv
  <1>2. toAudio \in Seq(Messages) /\ toMain \in Seq(Messages)
    BY <1>1 DEF TypeOK
  <1>3. /\ \A i \in 1..Len(toAudio) : toAudio[i] \in Messages
        /\ \A i \in 1..Len(toMain) : toMain[i] \in Messages
    BY <1>2
  <1>4. \A m \in Messages : m.kind # "status" => m.recorder \in Recorders
    BY Told
  <1>5. recorder \in Nat /\ started \in Nat
    BY <1>1, Counted DEF TypeOK, None
  <1> QED
    BY <1>1, <1>2, <1>3, <1>4, <1>5 DEF TypeOK, CallOrder, Renders

\* A step of the main thread that neither takes a message nor releases a recorder
\* from a table changes nothing for the audio thread.
LEMMA Undisturbed ==
  ASSUME IInv, Living, UNCHANGED <<outputs, audio, toMain>>,
         \A r \in Recorders, h \in {"input", "output"} : h \in retained[r] => h \in retained'[r]
  PROVE  /\ InOutputs' /\ Calling' /\ Reported'
         /\ \A r \in Recorders :
              /\ Kept("input", "removeInput", r) => Kept("input", "removeInput", r)'
              /\ Kept("output", "removedOutput", r) => Kept("output", "removedOutput", r)'
  <1>1. \A r \in Recorders :
          /\ Kept("input", "removeInput", r) => Kept("input", "removeInput", r)'
          /\ Kept("output", "removedOutput", r) => Kept("output", "removedOutput", r)'
    BY DEF Kept, Absent
  <1>2. InOutputs'
    BY <1>1, Types DEF Living, InOutputs
  <1>3. Calling'
    <2>1. audio.todo \subseteq Recorders
      BY Types DEF Renders
    <2> QED
      BY <1>1, <2>1 DEF Living, Calling
  <1>4. Reported'
    BY Types DEF Living, Reported, KeptUntil
  <1> QED
    BY <1>1, <1>2, <1>3, <1>4

\* startRecording: what is queued is about earlier recorders, so the new one is
\* retained and nothing under way releases it.
LEMMA StartLiving == IInv /\ Living /\ (Begin \/ BeginFails \/ AddOutput \/ AddInput) => Living'
  <1> SUFFICES ASSUME IInv, Living, Begin \/ BeginFails \/ AddOutput \/ AddInput PROVE Living'
    OBVIOUS
  <1>1. CASE Begin \/ BeginFails
    <2>1. /\ UNCHANGED <<outputs, audio, toMain, toAudio, inputTable>>
          /\ started' = started + 1 /\ started + 1 \in Recorders
          /\ recorder' \in {recorder, started + 1} /\ recorder = None
          /\ \/ retained' = retained
             \/ retained' = [retained EXCEPT ![started + 1] = {"view"}]
      <3>1. started \in Nat /\ started < MaxStarts /\ recorder = None
        BY <1>1, Types DEF Begin, BeginFails
      <3>2. started + 1 \in Recorders
        BY <3>1, Counted DEF Recorders
      <3> QED
        BY <1>1, <3>1, <3>2 DEF Begin, BeginFails, audioVars, tableVars, queueVars
    <2>2. retained[started + 1] = {}
      BY <2>1, Types DEF Living, Known
    <2>3. /\ \A r \in Recorders, h \in {"input", "output"} : h \in retained[r] => h \in retained'[r]
          /\ \A r \in Recorders : r # started + 1 => retained'[r] = retained[r]
      BY <2>1, <2>2, Types
    <2>4. /\ InOutputs' /\ Calling' /\ Reported'
          /\ \A r \in Recorders :
               /\ Kept("input", "removeInput", r) => Kept("input", "removeInput", r)'
               /\ Kept("output", "removedOutput", r) => Kept("output", "removedOutput", r)'
      BY <2>1, <2>3, Undisturbed
    <2>5. Known'
      <3>1. started \in Nat /\ \A r \in Recorders : r \in Nat
        BY Types, Counted
      <3> QED
        BY <2>1, <2>3, <3>1 DEF Living, Known, None
    <2>6. Removing(toAudio)' /\ Removing(toMain)'
      <3>1. \A r \in Recorders : r <= started => r <= started' /\ r # recorder'
        BY <2>1, Types, Counted DEF None
      <3> QED
        BY <2>1, <3>1 DEF Living, Removing, Captures
    <2>7. FromMain' /\ InTable' /\ Adding'
      <3>1. \A r \in inputTable.members : r \in Recorders
        BY Types
      <3>2. FromMain' /\ InTable'
        BY <2>1, <2>4, <3>1 DEF Living, FromMain, InTable, Absent
      <3>3. Adding'
        BY <2>1, <2>4 DEF Living, Adding
      <3> QED
        BY <3>2, <3>3
    <2> QED
      BY <2>4, <2>5, <2>6, <2>7 DEF Living
  <1>a. CASE AddOutput /\ Cardinality(outputs) = kMaximumCallbacksPerSource
    <2>1. /\ UNCHANGED <<recorder, started, retained, outputs, audio, inputTable, toAudio, toMain>>
          /\ main = "addOutput"
      BY <1>a DEF AddOutput, audioVars, tableVars
    <2>2. Removing(toAudio)' /\ Removing(toMain)'
      BY <2>1 DEF Living, Removing, Captures
    <2> QED
      BY <2>1, <2>2 DEF Living, Known, FromMain, InTable, InOutputs, Adding, Calling, Reported, Kept,
                        KeptUntil, Absent
  <1>2. CASE (AddOutput /\ Cardinality(outputs) # kMaximumCallbacksPerSource) \/ AddInput
    <2> DEFINE message == IF AddOutput THEN Message("addOutput", recorder, None)
                          ELSE Message("addInput", recorder, inputTable.address)
    <2>1. /\ recorder \in Recorders /\ UNCHANGED <<recorder, started, outputs, audio, toMain>>
          /\ main \in {"addOutput", "addInput"}
      BY <1>2, Types DEF AddOutput, AddInput, audioVars
    <2>2. /\ message \in Messages /\ message.recorder = recorder
          /\ message.kind = IF AddOutput THEN "addOutput" ELSE "addInput"
      <3>1. inputTable.address \in Nat /\ None \in Nat
        BY Types DEF None
      <3> QED
        BY <2>1, <3>1 DEF Message, Messages, Kinds
    <2>3. toAudio' = IF Len(toAudio) < QueueLen THEN Append(toAudio, message) ELSE toAudio
      BY <1>2 DEF AddOutput, AddInput, Perform
    <2> HIDE DEF message
    <2>4. \A i \in 1..Len(toAudio') : \/ i \in 1..Len(toAudio) /\ toAudio'[i] = toAudio[i]
                                      \/ i = Len(toAudio) + 1 /\ toAudio'[i] = message
      BY <2>2, <2>3, SentLast, Types
    <2>5. retained' = [retained EXCEPT ![recorder] = @ \cup {IF AddOutput THEN "output" ELSE "input"}]
      <3>1. AddOutput => main = "addOutput"
        BY DEF AddOutput
      <3> QED
        BY <1>2, <3>1 DEF AddOutput, AddInput
    <2>6. /\ \A r \in Recorders, h \in {"input", "output"} : h \in retained[r] => h \in retained'[r]
          /\ \A r \in Recorders : r # recorder => retained'[r] = retained[r]
          /\ (IF AddOutput THEN "output" ELSE "input") \in retained'[recorder]
      BY <2>1, <2>5, Types
    <2>7. /\ InOutputs' /\ Calling' /\ Reported'
          /\ \A r \in Recorders :
               /\ Kept("input", "removeInput", r) => Kept("input", "removeInput", r)'
               /\ Kept("output", "removedOutput", r) => Kept("output", "removedOutput", r)'
      BY <2>1, <2>6, Undisturbed
    <2>8. Known'
      BY <2>1, <2>6, Types DEF Living, Known
    <2>9. /\ Absent(toMain, "removeInput", recorder) /\ Absent(toMain, "removedOutput", recorder)
          /\ Absent(toAudio, "removeInput", recorder) /\ Absent(toAudio, "removeOutput", recorder)
      BY <2>1 DEF Living, Removing, Captures, Absent
    <2>10. Removing(toAudio)' /\ Removing(toMain)'
      <3>1. \A r \in Recorders : ~Captures(message, r)
        BY <2>2 DEF Captures
      <3>2. \A i \in 1..Len(toAudio), r \in Recorders : Captures(toAudio[i], r) => r <= started /\ r # recorder
        BY <2>1 DEF Living, Removing
      <3>3. \A i \in 1..Len(toMain), r \in Recorders : Captures(toMain[i], r) => r <= started /\ r # recorder
        BY <2>1 DEF Living, Removing
      <3> QED
        BY <2>1, <2>4, <3>1, <3>2, <3>3 DEF Removing, Captures
    <2>11. FromMain'
      BY <2>2, <2>4 DEF Living, FromMain
    <2>12. InTable'
      <3>1. \A r \in Recorders : Absent(toAudio, "removeInput", r) => Absent(toAudio', "removeInput", r)
        BY <2>2, <2>4 DEF Absent
      <3>2. \/ AddOutput /\ inputTable'.members = inputTable.members
            \/ ~AddOutput /\ inputTable'.members = inputTable.members \cup {recorder}
        BY <1>2 DEF AddOutput, AddInput, tableVars
      <3>3. ~AddOutput => Kept("input", "removeInput", recorder)' /\ Absent(toAudio, "removeInput", recorder)
        BY <2>1, <2>6, <2>9 DEF Kept
      <3> SUFFICES ASSUME NEW r \in inputTable'.members
                   PROVE  Kept("input", "removeInput", r)' /\ Absent(toAudio', "removeInput", r)
        BY DEF InTable
      <3>4. CASE r \in inputTable.members
        <4>1. r \in Recorders /\ Kept("input", "removeInput", r) /\ Absent(toAudio, "removeInput", r)
          BY <3>4, Types DEF Living, InTable
        <4> QED
          BY <2>7, <3>1, <4>1
      <3>5. CASE r = recorder /\ ~AddOutput
        BY <2>1, <3>1, <3>3, <3>5
      <3> QED
        BY <3>2, <3>4, <3>5
    <2>13. Adding'
      <3>1. AddOutput => Kept("output", "removedOutput", recorder)'
        BY <2>1, <2>6, <2>9 DEF Kept
      <3>2. ASSUME NEW i \in 1..Len(toAudio'), NEW r \in Recorders,
                   toAudio'[i].kind = "addOutput", toAudio'[i].recorder = r
            PROVE  /\ Kept("output", "removedOutput", r)'
                   /\ \A j \in 1..(i-1) : ~(toAudio'[j].kind = "removeOutput" /\ toAudio'[j].recorder = r)
        <4>1. CASE i \in 1..Len(toAudio) /\ toAudio'[i] = toAudio[i]
          <5>1. \A j \in 1..(i-1) : j \in 1..Len(toAudio') /\ j # Len(toAudio) + 1
            BY <4>1
          <5>2. \A j \in 1..(i-1) : toAudio'[j] = toAudio[j]
            BY <2>4, <5>1
          <5>3. /\ Kept("output", "removedOutput", r)
                /\ \A j \in 1..(i-1) : ~(toAudio[j].kind = "removeOutput" /\ toAudio[j].recorder = r)
            BY <3>2, <4>1 DEF Living, Adding
          <5> QED
            BY <2>7, <5>2, <5>3
        <4>2. CASE i = Len(toAudio) + 1 /\ toAudio'[i] = message
          <5>1. AddOutput /\ r = recorder
            BY <2>2, <3>2, <4>2
          <5>2. \A j \in 1..(i-1) : j \in 1..Len(toAudio) /\ toAudio'[j] = toAudio[j]
            BY <2>4, <4>2, Types
          <5>3. Kept("output", "removedOutput", r)'
            BY <2>1, <3>1, <5>1 DEF Kept
          <5> QED
            BY <2>9, <5>1, <5>2, <5>3 DEF Absent
        <4> QED
          BY <2>4, <4>1, <4>2
      <3> QED
        BY <3>2 DEF Adding
    <2> QED
      BY <2>7, <2>8, <2>10, <2>11, <2>12, <2>13 DEF Living
  <1> QED
    BY <1>1, <1>a, <1>2

\* The update of the input's status, whose messages are about no recorder.
LEMMA StatusLiving == IInv /\ Living /\ UpdateInputDeviceStatus => Living'
  <1> SUFFICES ASSUME IInv, Living, UpdateInputDeviceStatus PROVE Living'
    OBVIOUS
  <1>1. /\ UNCHANGED <<recorder, started, retained, outputs, audio, inputTable, toMain>>
        /\ main = "update"
    BY DEF UpdateInputDeviceStatus, audioVars, recorderVars, tableVars
  <1>2. /\ \A i \in 1..Len(toAudio) : i \in 1..Len(toAudio') /\ toAudio'[i] = toAudio[i]
        /\ \A i \in 1..Len(toAudio') :
             \/ i \in 1..Len(toAudio) /\ toAudio'[i] = toAudio[i]
             \/ i > Len(toAudio) /\ toAudio'[i].kind = "status"
    <2>1. toAudio \in Seq(Messages) /\ Len(toAudio) <= QueueLen
      BY DEF IInv, TypeOK
    <2>2. toAudio' \in WithStatus(toAudio)
      BY DEF UpdateInputDeviceStatus
    <2>3. /\ toAudio' \in Seq(Messages) /\ Len(toAudio') <= QueueLen /\ Len(toAudio') >= Len(toAudio)
          /\ \A i \in 1..Len(toAudio) : i \in 1..Len(toAudio') /\ toAudio'[i] = toAudio[i]
          /\ \A i \in 1..Len(toAudio') : (i \in 1..Len(toAudio) /\ toAudio'[i] = toAudio[i])
                                          \/ (i > Len(toAudio) /\ toAudio'[i] = StatusMessage)
      BY <2>1, <2>2, Queued, Zenon
    <2> QED
      BY <2>3, StatusTold
  <1>3. /\ InOutputs' /\ Calling' /\ Reported'
        /\ \A r \in Recorders :
             /\ Kept("input", "removeInput", r) => Kept("input", "removeInput", r)'
             /\ Kept("output", "removedOutput", r) => Kept("output", "removedOutput", r)'
    BY <1>1, Undisturbed
  <1>4. Known' /\ FromMain' /\ Removing(toMain)'
    BY <1>1, <1>2 DEF Living, Known, FromMain, Removing, Captures
  <1>5. Removing(toAudio)'
    BY <1>1, <1>2 DEF Living, Removing, Captures
  <1>6. InTable'
    BY <1>1, <1>2, <1>3, Types DEF Living, InTable, Absent
  <1>7. Adding'
    <2> SUFFICES ASSUME NEW i \in 1..Len(toAudio'), NEW r \in Recorders,
                        toAudio'[i].kind = "addOutput", toAudio'[i].recorder = r
                 PROVE  /\ Kept("output", "removedOutput", r)'
                        /\ \A j \in 1..(i-1) : ~(toAudio'[j].kind = "removeOutput" /\ toAudio'[j].recorder = r)
      BY DEF Adding
    <2>1. i \in 1..Len(toAudio) /\ toAudio'[i] = toAudio[i]
      BY <1>2
    <2>2. \A j \in 1..(i-1) : j \in 1..Len(toAudio)
      BY <2>1, Types
    <2>3. \A j \in 1..(i-1) : toAudio'[j] = toAudio[j]
      BY <1>2, <2>2
    <2>4. /\ Kept("output", "removedOutput", r)
          /\ \A j \in 1..(i-1) : ~(toAudio[j].kind = "removeOutput" /\ toAudio[j].recorder = r)
      BY <2>1 DEF Living, Adding
    <2> QED
      BY <1>3, <2>3, <2>4
  <1> QED
    BY <1>3, <1>4, <1>5, <1>6, <1>7 DEF Living

\* stopRecording: a removal is sent once, while the recorder is the view's.
LEMMA StopLiving ==
  IInv /\ Living /\ (FinishRecording \/ FinishWriting \/ RemoveOutput \/ RemoveInput \/ Forget) => Living'
  <1> SUFFICES ASSUME IInv, Living,
                      FinishRecording \/ FinishWriting \/ RemoveOutput \/ RemoveInput \/ Forget
               PROVE  Living'
    OBVIOUS
  <1>0. UNCHANGED <<started, outputs, audio, toMain>>
    BY DEF FinishRecording, FinishWriting, RemoveOutput, RemoveInput, Forget, audioVars, queueVars
  <1>1. /\ \A r \in Recorders, h \in {"input", "output"} : h \in retained[r] => h \in retained'[r]
        /\ \A r \in Recorders : retained'[r] \subseteq retained[r]
    <2>1. retained' = retained \/ retained' = [retained EXCEPT ![recorder] = @ \ {"view"}]
      BY DEF FinishRecording, FinishWriting, RemoveOutput, RemoveInput, Forget, recorderVars
    <2> QED
      BY <2>1, Types
  <1>2. /\ InOutputs' /\ Calling' /\ Reported'
        /\ \A r \in Recorders :
             /\ Kept("input", "removeInput", r) => Kept("input", "removeInput", r)'
             /\ Kept("output", "removedOutput", r) => Kept("output", "removedOutput", r)'
    BY <1>0, <1>1, Undisturbed
  <1>3. recorder' \in {recorder, None} /\ recorder \in Recorders
    BY Types, Counted DEF FinishRecording, FinishWriting, RemoveOutput, RemoveInput, Forget, None
  <1>4. Known'
    BY <1>0, <1>1, <1>3, Types DEF Living, Known, None
  <1>5. CASE FinishRecording \/ FinishWriting \/ Forget
    <2>1. UNCHANGED <<toAudio, inputTable>>
      BY <1>5 DEF FinishRecording, FinishWriting, Forget, tableVars, queueVars
    <2>2. Removing(toAudio)' /\ Removing(toMain)'
      <3>1. CASE Forget
        <4>1. \A r \in Recorders : r # recorder'
          BY <3>1, Counted DEF Forget
        <4> QED
          BY <1>0, <2>1, <4>1 DEF Living, Removing, Captures
      <3>2. CASE FinishRecording \/ FinishWriting
        <4>1. recorder' = recorder /\ main \in {"idle", "finishWriting"}
          BY <3>2 DEF FinishRecording, FinishWriting
        <4> QED
          BY <1>0, <2>1, <4>1 DEF Living, Removing, Captures
      <3> QED
        BY <1>5, <3>1, <3>2
    <2>3. FromMain' /\ InTable' /\ Adding'
      BY <1>2, <2>1, Types DEF Living, FromMain, InTable, Adding, Absent
    <2> QED
      BY <1>2, <1>4, <2>2, <2>3 DEF Living
  <1>6. CASE RemoveOutput \/ RemoveInput
    <2> DEFINE message == IF RemoveOutput THEN Message("removeOutput", recorder, None)
                          ELSE Message("removeInput", recorder, inputTable.address)
    <2>1. /\ recorder' = recorder
          /\ RemoveOutput => main = "removeOutput" /\ main' = "removeInput"
          /\ ~RemoveOutput => main = "removeInput" /\ main' = "forget"
      BY <1>6 DEF RemoveOutput, RemoveInput
    <2>2. /\ message \in Messages /\ message.recorder = recorder
          /\ message.kind = IF RemoveOutput THEN "removeOutput" ELSE "removeInput"
      <3>1. inputTable.address \in Nat /\ None \in Nat
        BY Types DEF None
      <3> QED
        BY <1>3, <3>1 DEF Message, Messages, Kinds
    <2>3. toAudio' = IF Len(toAudio) < QueueLen THEN Append(toAudio, message) ELSE toAudio
      BY <1>6 DEF RemoveOutput, RemoveInput, Perform
    <2> HIDE DEF message
    <2>4. \A i \in 1..Len(toAudio') : \/ i \in 1..Len(toAudio) /\ toAudio'[i] = toAudio[i]
                                      \/ i = Len(toAudio) + 1 /\ toAudio'[i] = message
      BY <2>2, <2>3, SentLast, Types
    <2>5. Removing(toMain)'
      BY <1>0, <2>1 DEF Living, Removing, Captures
    <2>6. Removing(toAudio)'
      <3>1. \A r \in Recorders : Captures(message, r) => r = recorder
        BY <2>2 DEF Captures
      <3>2. recorder <= started
        BY DEF Living, Known
      <3>3. SUFFICES ASSUME NEW i \in 1..Len(toAudio'), NEW r \in Recorders, Captures(toAudio'[i], r)
                     PROVE  /\ r <= started'
                            /\ r = recorder' => \/ main' = "forget"
                                                \/ main' = "removeInput" /\ toAudio'[i].kind # "removeInput"
        BY DEF Removing, Captures
      <3>4. CASE i \in 1..Len(toAudio) /\ toAudio'[i] = toAudio[i]
        <4>1. Captures(toAudio[i], r)
          BY <3>3, <3>4
        <4> QED
          BY <1>0, <2>1, <3>4, <4>1 DEF Living, Removing
      <3>5. CASE toAudio'[i] = message
        <4>1. r = recorder
          BY <3>1, <3>3, <3>5
        <4> QED
          BY <1>0, <2>1, <2>2, <3>2, <3>5, <4>1
      <3> QED
        BY <2>4, <3>4, <3>5
    <2>7. FromMain'
      BY <2>2, <2>4 DEF Living, FromMain
    <2>8. InTable'
      <3>1. \/ RemoveOutput /\ inputTable' = inputTable
            \/ ~RemoveOutput /\ inputTable'.members = inputTable.members \ {recorder}
        BY <1>6 DEF RemoveOutput, RemoveInput, tableVars
      <3> SUFFICES ASSUME NEW r \in inputTable'.members
                   PROVE  Kept("input", "removeInput", r)' /\ Absent(toAudio', "removeInput", r)
        BY DEF InTable
      <3>2. r \in Recorders /\ Kept("input", "removeInput", r) /\ Absent(toAudio, "removeInput", r)
        BY <3>1, Types DEF Living, InTable
      <3>3. ~(message.kind = "removeInput" /\ message.recorder = r)
        BY <2>2, <3>1
      <3>4. Absent(toAudio', "removeInput", r)
        BY <2>4, <3>2, <3>3 DEF Absent
      <3> QED
        BY <1>2, <3>2, <3>4
    <2>9. Adding'
      <3> SUFFICES ASSUME NEW i \in 1..Len(toAudio'), NEW r \in Recorders,
                          toAudio'[i].kind = "addOutput", toAudio'[i].recorder = r
                   PROVE  /\ Kept("output", "removedOutput", r)'
                          /\ \A j \in 1..(i-1) : ~(toAudio'[j].kind = "removeOutput" /\ toAudio'[j].recorder = r)
        BY DEF Adding
      <3>1. i \in 1..Len(toAudio) /\ toAudio'[i] = toAudio[i]
        BY <2>2, <2>4
      <3>2. \A j \in 1..(i-1) : j \in 1..Len(toAudio') /\ j # Len(toAudio) + 1
        BY <3>1
      <3>3. \A j \in 1..(i-1) : toAudio'[j] = toAudio[j]
        BY <2>4, <3>2
      <3>4. /\ Kept("output", "removedOutput", r)
            /\ \A j \in 1..(i-1) : ~(toAudio[j].kind = "removeOutput" /\ toAudio[j].recorder = r)
        BY <3>1 DEF Living, Adding
      <3> QED
        BY <1>2, <3>3, <3>4
    <2> QED
      BY <1>2, <1>4, <2>5, <2>6, <2>7, <2>8, <2>9 DEF Living
  <1> QED
    BY <1>5, <1>6

-----------------------------------------------------------------------------
\* A step that leaves everything but the audio thread's place alone.
LEMMA MovesOnLiving ==
  ASSUME Living, Calling',
         UNCHANGED <<recorder, started, main, retained, inputTable, outputs, toAudio, toMain>>
  PROVE  Living'
  BY DEF Living, Known, Removing, FromMain, InTable, InOutputs, Adding, Reported, Kept, KeptUntil,
         Absent, Captures

\* The receivers are taken from a table whose recorders are kept.
LEMMA RenderLiving ==
  IInv /\ Living
  /\ \/ PreRender \/ ServiceAudioInput \/ HandleOutputCallbacks \/ EndRender \/ CheckRecording
     \/ CallbackCrashes \/ UNCHANGED vars
    => Living'
  <1> SUFFICES ASSUME IInv, Living,
                      \/ PreRender \/ ServiceAudioInput \/ HandleOutputCallbacks \/ EndRender
                      \/ CheckRecording \/ CallbackCrashes \/ UNCHANGED vars
               PROVE  Living'
    OBVIOUS
  <1>1. UNCHANGED <<recorder, started, main, retained, inputTable, outputs, toAudio, toMain>>
    BY DEF PreRender, ServiceAudioInput, HandleOutputCallbacks, EndRender, CheckRecording,
           CallbackCrashes, vars, mainVars, audioVars, recorderVars, tableVars, queueVars
  <1>2. \A r : Kept("input", "removeInput", r)' <=> Kept("input", "removeInput", r)
    BY <1>1 DEF Kept, Absent
  <1>3. CASE PreRender \/ EndRender
    <2>1. audio'.at \in {"idle", "messages"} /\ audio'.todo = {} /\ audio'.writing = None
      BY <1>3 DEF PreRender, EndRender, Idle, Render
    <2> QED
      BY <1>1, <2>1, MovesOnLiving DEF Calling
  <1>4. CASE ServiceAudioInput
    <2>1. audio'.at = "input" /\ audio'.todo \in {{}, inputTable.members} /\ audio'.writing = None
      BY <1>4 DEF ServiceAudioInput, Render
    <2>2. \A r \in audio'.todo : Kept("input", "removeInput", r)'
      BY <1>2, <2>1 DEF Living, InTable
    <2> QED
      BY <1>1, <2>1, <2>2, MovesOnLiving DEF Calling
  <1>5. CASE HandleOutputCallbacks
    <2>1. audio'.at = "output" /\ audio'.todo = outputs /\ audio'.writing = None
      BY <1>5 DEF HandleOutputCallbacks, Render
    <2> QED
      BY <1>1, <2>1, MovesOnLiving DEF Calling
  <1>6. CASE CheckRecording
    <2>1. PICK r \in audio.todo : \/ audio' = [audio EXCEPT !.writing = r]
                                  \/ audio' = [audio EXCEPT !.todo = @ \ {r}]
      BY <1>6 DEF CheckRecording
    <2>2. audio.writing = None /\ audio \in Renders
      BY <1>6, Types DEF CheckRecording
    <2>3. /\ audio'.at = audio.at /\ audio'.todo \subseteq audio.todo
          /\ audio'.writing # None => audio'.writing \in audio'.todo
      BY <2>1, <2>2 DEF Renders
    <2>4. Calling
      BY DEF Living
    <2>5. Calling'
      BY <1>1, <1>2, <2>3, <2>4 DEF Calling
    <2> QED
      BY <1>1, <2>5, MovesOnLiving
  <1>7. CASE CallbackCrashes \/ UNCHANGED vars
    <2>1. audio' = audio
      BY <1>7 DEF CallbackCrashes, vars, audioVars
    <2>2. Calling
      BY DEF Living
    <2>3. Calling'
      BY <1>1, <1>2, <2>1, <2>2 DEF Calling
    <2> QED
      BY <1>1, <2>3, MovesOnLiving
  <1> QED
    BY <1>3, <1>4, <1>5, <1>6, <1>7

\* A message at the end of the queue to the main thread leaves those before it,
\* and what is kept until they are reached.
LEMMA ReportsStay ==
  ASSUME IInv, Living, NEW message \in Messages, UNCHANGED <<retained>>,
         toMain' = IF Len(toMain) < QueueLen THEN Append(toMain, message) ELSE toMain,
         message.kind = "error" => \/ Kept("input", "removeInput", message.recorder)
                                   \/ Kept("output", "removedOutput", message.recorder)
  PROVE  /\ Reported'
         /\ \A r \in Recorders, kind \in Kinds :
              Absent(toMain, kind, r) /\ ~(message.kind = kind /\ message.recorder = r)
                => Absent(toMain', kind, r)
  <1>1. \A i \in 1..Len(toMain') : \/ i \in 1..Len(toMain) /\ toMain'[i] = toMain[i]
                                   \/ i = Len(toMain) + 1 /\ toMain'[i] = message
    <2>1. toMain \in Seq(Messages)
      BY Types
    <2> QED
      BY <2>1, SentLast
  <1>2. \A i \in 1..Len(toMain') : \A j \in 1..(i-1) : j \in 1..Len(toMain) /\ toMain'[j] = toMain[j]
    <2> SUFFICES ASSUME NEW i \in 1..Len(toMain'), NEW j \in 1..(i-1)
                 PROVE  j \in 1..Len(toMain) /\ toMain'[j] = toMain[j]
      OBVIOUS
    <2>1. Len(toMain) \in Nat /\ i <= Len(toMain) + 1
      BY <1>1, Types
    <2>2. j \in 1..Len(toMain) /\ j \in 1..Len(toMain') /\ j # Len(toMain) + 1
      BY <2>1
    <2> QED
      BY <1>1, <2>2
  <1>3. Reported'
    <2> SUFFICES ASSUME NEW i \in 1..Len(toMain'), toMain'[i].kind = "error"
                 PROVE  \/ KeptUntil("input", "removeInput", i)'
                        \/ KeptUntil("output", "removedOutput", i)'
      BY DEF Reported
    <2>1. CASE i \in 1..Len(toMain) /\ toMain'[i] = toMain[i]
      <3>1. KeptUntil("input", "removeInput", i) \/ KeptUntil("output", "removedOutput", i)
        BY <2>1 DEF Living, Reported
      <3> QED
        BY <1>2, <2>1, <3>1 DEF KeptUntil
    <2>2. CASE i = Len(toMain) + 1 /\ toMain'[i] = message
      <3>1. message.kind = "error"
        BY <2>2
      <3>2. \A j \in 1..(i-1) : j \in 1..Len(toMain) /\ toMain'[j] = toMain[j]
        BY <1>2
      <3>3. CASE Kept("input", "removeInput", message.recorder)
        BY <2>2, <3>2, <3>3 DEF KeptUntil, Kept, Absent
      <3>4. CASE Kept("output", "removedOutput", message.recorder)
        BY <2>2, <3>2, <3>4 DEF KeptUntil, Kept, Absent
      <3> QED
        BY <3>1, <3>3, <3>4
    <2> QED
      BY <1>1, <2>1, <2>2
  <1>4. ASSUME NEW r \in Recorders, NEW kind \in Kinds, Absent(toMain, kind, r),
               ~(message.kind = kind /\ message.recorder = r)
        PROVE  Absent(toMain', kind, r)
    BY <1>1, <1>4 DEF Absent
  <1> QED
    BY <1>3, <1>4

\* A write that fails is reported: the recorder is one that is kept.
LEMMA WriteLiving == IInv /\ Living /\ WriteAudio => Living'
  <1> SUFFICES ASSUME IInv, Living, WriteAudio PROVE Living'
    OBVIOUS
  <1> DEFINE r == audio.writing
             message == Message("error", r, None)
  <1>1. /\ UNCHANGED <<recorder, started, main, retained, inputTable, outputs, toAudio>>
        /\ r # None /\ audio' = [audio EXCEPT !.writing = None, !.todo = @ \ {r}]
        /\ \/ toMain' = toMain
           \/ toMain' = IF Len(toMain) < QueueLen THEN Append(toMain, message) ELSE toMain
    BY DEF WriteAudio, Reply, mainVars, tableVars
  <1>2. /\ r \in Recorders /\ r \in audio.todo
        /\ audio.at = "input" \/ audio.at = "output"
    BY <1>1, Types DEF Living, Calling, Renders
  <1>3. Kept("input", "removeInput", r) \/ Kept("output", "removedOutput", r)
    BY <1>2 DEF Living, Calling, InOutputs
  <1>4. message \in Messages /\ message.recorder = r /\ message.kind = "error"
    BY <1>2 DEF Message, Messages, Kinds, None
  <1> HIDE DEF message
  <1>5. /\ Reported'
        /\ \A q \in Recorders, kind \in {"removeInput", "removedOutput"} :
             Absent(toMain, kind, q) => Absent(toMain', kind, q)
    <2>1. CASE toMain' = toMain
      BY <1>1, <2>1 DEF Living, Reported, KeptUntil
    <2>2. CASE toMain' = IF Len(toMain) < QueueLen THEN Append(toMain, message) ELSE toMain
      <3>1. \A kind \in {"removeInput", "removedOutput"} : kind \in Kinds /\ kind # "error"
        BY DEF Kinds
      <3> QED
        BY <1>1, <1>3, <1>4, <2>2, <3>1, ReportsStay
    <2> QED
      BY <1>1, <2>1, <2>2
  <1>6. \A q \in Recorders :
          /\ Kept("input", "removeInput", q) => Kept("input", "removeInput", q)'
          /\ Kept("output", "removedOutput", q) => Kept("output", "removedOutput", q)'
    BY <1>1, <1>5 DEF Kept
  <1>7. Removing(toMain)'
    <2>1. CASE toMain' = toMain
      BY <1>1, <2>1 DEF Living, Removing, Captures
    <2>2. CASE toMain' = IF Len(toMain) < QueueLen THEN Append(toMain, message) ELSE toMain
      <3>1. \A i \in 1..Len(toMain') : \/ i \in 1..Len(toMain) /\ toMain'[i] = toMain[i]
                                       \/ i = Len(toMain) + 1 /\ toMain'[i] = message
        <4>1. toMain \in Seq(Messages)
          BY Types
        <4> QED
          BY <1>4, <2>2, <4>1, SentLast
      <3>2. \A q \in Recorders : ~Captures(message, q)
        BY <1>4 DEF Captures
      <3> QED
        BY <1>1, <3>1, <3>2 DEF Living, Removing, Captures
    <2> QED
      BY <1>1, <2>1, <2>2
  <1>8. Known' /\ Removing(toAudio)' /\ FromMain'
    BY <1>1 DEF Living, Known, Removing, FromMain, Captures
  <1>9. InTable' /\ InOutputs' /\ Adding'
    BY <1>1, <1>6, Types DEF Living, InTable, InOutputs, Adding, Absent
  <1>10. Calling'
    <2>1. audio'.at = audio.at /\ audio'.todo = audio.todo \ {r} /\ audio'.writing = None
      BY <1>1, Types DEF Renders
    <2>2. audio.todo \subseteq Recorders
      BY Types DEF Renders
    <2> QED
      BY <1>1, <1>6, <2>1, <2>2 DEF Living, Calling
  <1> QED
    BY <1>5, <1>7, <1>8, <1>9, <1>10 DEF Living

\* A message processed on the audio thread: an answer that releases a recorder is
\* sent when it is in no table and no message adds it.
LEMMA MessageLiving == IInv /\ Living /\ ProcessMessage => Living'
  <1> SUFFICES ASSUME IInv, Living, ProcessMessage PROVE Living'
    OBVIOUS
  <1> DEFINE message == Head(toAudio)
             answer == Answer(message)
  <1>0. /\ audio.at = "messages" /\ audio.messages > 0 /\ audio.messages <= Len(toAudio)
        /\ toAudio' = Tail(toAudio)
        /\ UNCHANGED <<recorder, started, main, retained, inputTable>>
    BY DEF ProcessMessage, IInv, MessagesThere, mainVars, recorderVars, tableVars
  <1>1. toAudio # <<>>
    BY <1>0, Types DEF Renders
  <1>2. /\ message \in Messages /\ message = toAudio[1] /\ 1 \in 1..Len(toAudio)
        /\ \A i \in 1..Len(toAudio') : i + 1 \in 1..Len(toAudio) /\ toAudio'[i] = toAudio[i+1]
    BY <1>0, <1>1, Taken, Types
  <1>3. /\ outputs' = CASE message.kind = "addOutput" -> outputs \cup {message.recorder}
                        [] message.kind = "removeOutput" -> outputs \ {message.recorder}
                        [] OTHER -> outputs
        /\ toMain' = IF Len(toMain) < QueueLen THEN Append(toMain, answer) ELSE toMain
        /\ audio' = [audio EXCEPT !.messages = IF Len(toMain) < QueueLen THEN @ - 1 ELSE 0]
    BY DEF ProcessMessage, Reply
  <1>4. message.kind \notin {"error", "removedOutput"}
    BY <1>2 DEF Living, FromMain
  <1>5. /\ answer \in Messages /\ answer.recorder = message.recorder
        /\ message.kind # "status" => message.recorder \in Recorders
        /\ answer.kind = IF message.kind = "removeOutput" /\ message.recorder \in outputs
                         THEN "removedOutput" ELSE message.kind
    BY <1>2, Answered
  <1> HIDE DEF message, answer
  <1>6. answer.kind # "error"
    BY <1>4, <1>5
  <1>7. /\ Reported'
        /\ \A r \in Recorders, kind \in Kinds :
             Absent(toMain, kind, r) /\ ~(answer.kind = kind /\ answer.recorder = r)
               => Absent(toMain', kind, r)
    BY <1>0, <1>3, <1>5, <1>6, ReportsStay
  <1>8. \A r \in Recorders :
          Absent(toAudio, "removeInput", r) /\ Kept("input", "removeInput", r)
            => Kept("input", "removeInput", r)'
    <2> SUFFICES ASSUME NEW r \in Recorders, Absent(toAudio, "removeInput", r),
                        Kept("input", "removeInput", r)
                 PROVE  Kept("input", "removeInput", r)'
      OBVIOUS
    <2>1. ~(message.kind = "removeInput" /\ message.recorder = r)
      BY <1>2 DEF Absent
    <2>2. ~(answer.kind = "removeInput" /\ answer.recorder = r) /\ "removeInput" \in Kinds
      BY <1>5, <2>1 DEF Kinds
    <2> QED
      BY <1>0, <1>7, <2>2 DEF Kept
  <1>9. \A r \in Recorders :
          Kept("output", "removedOutput", r) /\ ~(answer.kind = "removedOutput" /\ answer.recorder = r)
            => Kept("output", "removedOutput", r)'
    BY <1>0, <1>7 DEF Kept, Kinds
  <1>10. Known' /\ FromMain'
    BY <1>0, <1>2 DEF Living, Known, FromMain
  <1>11. Removing(toAudio)'
    BY <1>0, <1>2 DEF Living, Removing, Captures
  <1>12. Removing(toMain)'
    <2>1. \A i \in 1..Len(toMain') : \/ i \in 1..Len(toMain) /\ toMain'[i] = toMain[i]
                                     \/ i = Len(toMain) + 1 /\ toMain'[i] = answer
      <3>1. toMain \in Seq(Messages)
        BY Types
      <3> QED
        BY <1>3, <1>5, <3>1, SentLast
    <2>2. \A r \in Recorders : Captures(answer, r) =>
            /\ r <= started
            /\ r = recorder => \/ main = "forget"
                               \/ main = "removeInput" /\ answer.kind # "removeInput"
      <3>1. \A r \in Recorders : Captures(answer, r) => Captures(message, r)
        BY <1>5 DEF Captures
      <3>2. answer.kind = "removeInput" => message.kind = "removeInput"
        BY <1>5
      <3> QED
        BY <1>2, <1>5, <3>1, <3>2 DEF Living, Removing
    <2> QED
      BY <1>0, <2>1, <2>2 DEF Living, Removing, Captures
  <1>13. InTable'
    <2> SUFFICES ASSUME NEW r \in inputTable.members
                 PROVE  Kept("input", "removeInput", r)' /\ Absent(toAudio', "removeInput", r)
      BY <1>0 DEF InTable
    <2>1. r \in Recorders /\ Kept("input", "removeInput", r) /\ Absent(toAudio, "removeInput", r)
      BY Types DEF Living, InTable
    <2> QED
      BY <1>2, <1>8, <2>1 DEF Absent
  <1>14. InOutputs'
    <2> SUFFICES ASSUME NEW r \in outputs' PROVE Kept("output", "removedOutput", r)'
      BY DEF InOutputs
    <2>1. CASE r \in outputs
      <3>1. r \in Recorders /\ Kept("output", "removedOutput", r)
        BY <2>1, Types DEF Living, InOutputs
      <3>2. ~(answer.kind = "removedOutput" /\ answer.recorder = r)
        BY <1>3, <1>4, <1>5, <2>1
      <3> QED
        BY <1>9, <3>1, <3>2
    <2>2. CASE r \notin outputs
      <3>1. message.kind = "addOutput" /\ r = message.recorder
        BY <1>3, <2>2
      <3>2. Kept("output", "removedOutput", r)
        BY <1>2, <1>5, <3>1 DEF Living, Adding
      <3> QED
        BY <1>5, <1>9, <3>1, <3>2
    <2> QED
      BY <2>1, <2>2
  <1>15. Adding'
    <2> SUFFICES ASSUME NEW i \in 1..Len(toAudio'), NEW r \in Recorders,
                        toAudio'[i].kind = "addOutput", toAudio'[i].recorder = r
                 PROVE  /\ Kept("output", "removedOutput", r)'
                        /\ \A j \in 1..(i-1) : ~(toAudio'[j].kind = "removeOutput" /\ toAudio'[j].recorder = r)
      BY DEF Adding
    <2>1. i + 1 \in 1..Len(toAudio) /\ toAudio[i+1].kind = "addOutput" /\ toAudio[i+1].recorder = r
      BY <1>2
    <2>2. /\ Kept("output", "removedOutput", r)
          /\ \A j \in 1..i : ~(toAudio[j].kind = "removeOutput" /\ toAudio[j].recorder = r)
      <3>1. (i + 1) - 1 = i
        OBVIOUS
      <3> QED
        BY <2>1, <3>1 DEF Living, Adding
    <2>3. ~(answer.kind = "removedOutput" /\ answer.recorder = r)
      <3>1. 1 \in 1..i
        OBVIOUS
      <3>2. ~(message.kind = "removeOutput" /\ message.recorder = r)
        BY <1>2, <2>2, <3>1
      <3> QED
        BY <1>4, <1>5, <3>2
    <2>4. \A j \in 1..(i-1) : j + 1 \in 1..i /\ j \in 1..Len(toAudio')
      OBVIOUS
    <2>5. \A j \in 1..(i-1) : toAudio'[j] = toAudio[j+1]
      BY <1>2, <2>4
    <2> QED
      BY <1>9, <2>2, <2>3, <2>4, <2>5
  <1>16. Calling'
    <2>1. audio'.at = "messages" /\ audio'.todo = audio.todo /\ audio'.writing = audio.writing
      BY <1>0, <1>3, Types DEF Renders
    <2> QED
      BY <1>0, <2>1 DEF Living, Calling
  <1> QED
    BY <1>7, <1>10, <1>11, <1>12, <1>13, <1>14, <1>15, <1>16 DEF Living

\* A message answered on the main thread: the recorder it releases is in no table,
\* is not being called, and is in no report behind it that relies on that table.
LEMMA ResponseLiving == IInv /\ Living /\ ProcessMainThreadMessage => Living'
  <1> SUFFICES ASSUME IInv, Living, ProcessMainThreadMessage PROVE Living'
    OBVIOUS
  <1> DEFINE message == Head(toMain)
  <1>1. /\ toMain # <<>> /\ toMain' = Tail(toMain)
        /\ UNCHANGED <<recorder, started, audio, outputs, inputTable, toAudio>> /\ main = "idle"
    BY DEF ProcessMainThreadMessage, audioVars
  <1>2. /\ message \in Messages /\ message = toMain[1] /\ 1 \in 1..Len(toMain)
        /\ \A i \in 1..Len(toMain') : i + 1 \in 1..Len(toMain) /\ toMain'[i] = toMain[i+1]
    BY <1>1, Taken, Types
  <1>3. \/ retained' = retained
        \/ message.kind = "removeInput" /\ retained' = [retained EXCEPT ![message.recorder] = @ \ {"input"}]
        \/ message.kind = "removedOutput" /\ retained' = [retained EXCEPT ![message.recorder] = @ \ {"output"}]
    BY DEF ProcessMainThreadMessage, ReportError, Respond
  <1>4. message.kind # "status" => message.recorder \in Recorders
    BY <1>2, Told
  <1> HIDE DEF message
  <1>5. /\ \A r \in Recorders : retained'[r] \subseteq retained[r]
        /\ \A r \in Recorders : ~(message.kind = "removeInput" /\ message.recorder = r) =>
             ("input" \in retained[r] => "input" \in retained'[r])
        /\ \A r \in Recorders : ~(message.kind = "removedOutput" /\ message.recorder = r) =>
             ("output" \in retained[r] => "output" \in retained'[r])
    BY <1>3, <1>4, Types
  <1>6. \A r \in Recorders :
          /\ Kept("input", "removeInput", r) => Kept("input", "removeInput", r)'
          /\ Kept("output", "removedOutput", r) => Kept("output", "removedOutput", r)'
    <2> SUFFICES ASSUME NEW r \in Recorders
                 PROVE  /\ Kept("input", "removeInput", r) => Kept("input", "removeInput", r)'
                        /\ Kept("output", "removedOutput", r) => Kept("output", "removedOutput", r)'
      OBVIOUS
    <2>1. CASE Kept("input", "removeInput", r)
      BY <1>2, <1>5, <2>1 DEF Kept, Absent
    <2>2. CASE Kept("output", "removedOutput", r)
      BY <1>2, <1>5, <2>2 DEF Kept, Absent
    <2>a. Kept("input", "removeInput", r) => Kept("input", "removeInput", r)'
      BY <2>1
    <2>b. Kept("output", "removedOutput", r) => Kept("output", "removedOutput", r)'
      BY <2>2
    <2> QED
      BY <2>a, <2>b
  <1>7. Known'
    BY <1>1, <1>5, Types DEF Living, Known
  <1>8. Removing(toAudio)' /\ Removing(toMain)' /\ FromMain'
    BY <1>1, <1>2 DEF Living, Removing, FromMain, Captures
  <1>9. InTable' /\ InOutputs' /\ Adding'
    BY <1>1, <1>6, Types DEF Living, InTable, InOutputs, Adding, Absent
  <1>10. Calling'
    <2>1. audio.todo \subseteq Recorders
      BY Types DEF Renders
    <2> QED
      BY <1>1, <1>6, <2>1 DEF Living, Calling
  <1>11. Reported'
    <2> SUFFICES ASSUME NEW i \in 1..Len(toMain'), toMain'[i].kind = "error"
                 PROVE  \/ KeptUntil("input", "removeInput", i)'
                        \/ KeptUntil("output", "removedOutput", i)'
      BY DEF Reported
    <2> DEFINE r == toMain[i+1].recorder
    <2>1. /\ i + 1 \in 1..Len(toMain) /\ toMain'[i] = toMain[i+1] /\ r \in Recorders
          /\ (i + 1) - 1 = i /\ 1 \in 1..i
      BY <1>2, Types
    <2>2. \/ /\ "input" \in retained[r]
             /\ \A j \in 1..i : ~(toMain[j].kind = "removeInput" /\ toMain[j].recorder = r)
          \/ /\ "output" \in retained[r]
             /\ \A j \in 1..i : ~(toMain[j].kind = "removedOutput" /\ toMain[j].recorder = r)
      BY <2>1 DEF Living, Reported, KeptUntil
    <2>3. toMain'[i].recorder = r
      BY <2>1
    <2> HIDE DEF r
    <2>4. \A j \in 1..(i-1) : j + 1 \in 1..i /\ j \in 1..Len(toMain')
      OBVIOUS
    <2>5. \A j \in 1..(i-1) : toMain'[j] = toMain[j+1]
      BY <1>2, <2>4
    <2>6. CASE /\ "input" \in retained[r]
               /\ \A j \in 1..i : ~(toMain[j].kind = "removeInput" /\ toMain[j].recorder = r)
      <3>1. "input" \in retained'[r]
        BY <1>2, <1>5, <2>1, <2>6
      <3> QED
        BY <2>3, <2>4, <2>5, <2>6, <3>1 DEF KeptUntil
    <2>7. CASE /\ "output" \in retained[r]
               /\ \A j \in 1..i : ~(toMain[j].kind = "removedOutput" /\ toMain[j].recorder = r)
      <3>1. "output" \in retained'[r]
        BY <1>2, <1>5, <2>1, <2>7
      <3> QED
        BY <2>3, <2>4, <2>5, <2>7, <3>1 DEF KeptUntil
    <2> QED
      BY <2>2, <2>6, <2>7
  <1> QED
    BY <1>7, <1>8, <1>9, <1>10, <1>11 DEF Living

LEMMA NextLiving == IInv /\ Living /\ [Next]_vars => Living'
  BY StartLiving, StopLiving, RenderLiving, WriteLiving, MessageLiving, ResponseLiving,
     StatusLiving
     DEF Next, MainThread, AudioThread

LEMMA AlwaysLiving == Spec => [](IInv /\ Living)
  BY Invariance, InitLiving, NextLiving, PTL DEF Spec

-----------------------------------------------------------------------------
\* The audio thread calls back only recorders the controller retains: those of a
\* table it took keep their retain until after the render, for a removal is
\* answered between renders and by then the next table is without them.
THEOREM CallbacksAreAlive == Spec => []CallbackAlive
  <1>1. IInv /\ Living => CallbackAlive
    <2> SUFFICES ASSUME IInv, Living, NEW r \in audio.todo PROVE retained[r] # {}
      BY DEF CallbackAlive, Alive
    <2>1. audio.at = "input" \/ audio.at = "output"
      BY Types DEF Living, Calling, Renders
    <2>2. Kept("input", "removeInput", r) \/ Kept("output", "removedOutput", r)
      BY <2>1 DEF Living, Calling, InOutputs
    <2> QED
      BY <2>2 DEF Kept
  <1> QED
    BY <1>1, AlwaysLiving, PTL

\* The address in an error report is still that of a recorder when the main thread
\* reaches the report: the answer that releases it is queued behind.
THEOREM ReportsAreAlive == Spec => []ReportAlive
  <1>1. IInv /\ Living => ReportAlive
    <2> SUFFICES ASSUME IInv, Living, NEW i \in DOMAIN toMain, toMain[i].kind = "error"
                 PROVE  retained[toMain[i].recorder] # {}
      BY DEF ReportAlive, Alive
    <2>1. i \in 1..Len(toMain)
      BY Types
    <2> QED
      BY <2>1 DEF Living, Reported, KeptUntil
  <1> QED
    BY <1>1, AlwaysLiving, PTL
=============================================================================
