------------------------ MODULE TransferEngineProofs ------------------------
(***************************************************************************)
(* Theorems about TransferEngine, for every number of transfers, workers,   *)
(* commands, connections and servers, every pool size and every file size.  *)
(***************************************************************************)
EXTENDS TransferEngine, FiniteSetTheorems, SequenceTheorems, TLAPS

USE EngineAssumption

----------------------------------------------------------------------------
(* Files *)

LEMMA SetLenType ==
  ASSUME NEW f \in FileType, NEW n \in Nat
  PROVE  SetLen(f, n) \in Seq(Chunk)
<1>1. FileLen(f) \in Nat /\ \A i \in 1 .. n : i <= FileLen(f) => f[i] \in Chunk
  BY DEF FileType, FileLen
<1>2. SetLen(f, n) \in [1 .. n -> Chunk]
  BY <1>1 DEF SetLen, Chunk
<1>. QED  BY <1>2, SeqDef

LEMMA WriteAtType ==
  ASSUME NEW f \in FileType, NEW off \in Nat, NEW c \in Chunk
  PROVE  WriteAt(f, off, c) \in Seq(Chunk)
  BY SetLenType, AppendProperties DEF WriteAt

LEMMA FileConstants ==
  /\ Whole \in Seq(Chunk)
  /\ OldFile \in Seq(Chunk)
  /\ <<>> \in Seq(Chunk)
<1>1. Whole \in [1 .. Size -> Chunk] /\ OldFile \in [1 .. Size + 1 -> Chunk]
  BY DEF Whole, OldFile, Chunk
<1>. QED  BY <1>1, SeqDef

----------------------------------------------------------------------------
(* Type correctness *)

\* A worker past its claim and a command in flight each have a transfer.
WellFormed ==
  /\ \A w \in Workers : task[w].pc # "idle" => task[w].id \in Ids
  /\ \A c \in Clients : client[c].pc # "idle" => client[c].id \in Ids

Typed == TypeOK /\ WellFormed

LEMMA PCNames ==
  {"idle", "dropping", "claimed", "waiting", "ready", "opening", "clamped", "streaming",
   "finishing", "cleanup", "backoff", "completed", "paused", "canceled", "failed",
   "exiting"} \subseteq WorkerPC
  BY DEF WorkerPC, PrePermit, Holding

LEMMA SetStatusType ==
  ASSUME row \in [Ids -> RowType], NEW id \in Ids, NEW s \in Status
  PROVE  SetStatus(id, s) \in [Ids -> RowType]
  BY DEF SetStatus, RowType

LEMMA SetBytesType ==
  ASSUME row \in [Ids -> RowType], NEW id \in Ids, NEW n \in Nat
  PROVE  SetBytes(id, n) \in [Ids -> RowType]
  BY DEF SetBytes, RowType

LEMMA RemovedType ==
  ASSUME row \in [Ids -> RowType], NEW id \in Ids
  PROVE  Removed(id) \in RowType
  BY DEF Removed, RowType

LEMMA TaskFields ==
  ASSUME NEW t \in [Workers -> TaskType], NEW w \in Workers
  PROVE  /\ \A pc \in WorkerPC : [t EXCEPT ![w].pc = pc] \in [Workers -> TaskType]
         /\ \A n \in Nat : [t EXCEPT ![w].off = n] \in [Workers -> TaskType]
         /\ \A n \in 0 .. MaxRetries : [t EXCEPT ![w].tries = n] \in [Workers -> TaskType]
         /\ \A s \in Servers \cup {NoServer} : [t EXCEPT ![w].srv = s] \in [Workers -> TaskType]
         /\ \A b \in BOOLEAN : [t EXCEPT ![w].linked = b] \in [Workers -> TaskType]
<1>1. \A pc \in WorkerPC : [t EXCEPT ![w].pc = pc] \in [Workers -> TaskType]
  BY DEF TaskType
<1>2. \A n \in Nat : [t EXCEPT ![w].off = n] \in [Workers -> TaskType]
  BY DEF TaskType
<1>3. \A n \in 0 .. MaxRetries : [t EXCEPT ![w].tries = n] \in [Workers -> TaskType]
  BY DEF TaskType
<1>4. \A s \in Servers \cup {NoServer} : [t EXCEPT ![w].srv = s] \in [Workers -> TaskType]
  BY DEF TaskType
<1>5. \A b \in BOOLEAN : [t EXCEPT ![w].linked = b] \in [Workers -> TaskType]
  BY DEF TaskType
<1>. QED  BY <1>1, <1>2, <1>3, <1>4, <1>5

LEMMA LeaveType ==
  ASSUME NEW t \in [Workers -> TaskType], NEW w \in Workers, NEW pc \in WorkerPC
  PROVE  Leave(t, w, pc) \in [Workers -> TaskType]
  BY DEF Leave, TaskType

LEMMA UnlinkType ==
  ASSUME NEW t \in [Workers -> TaskType], NEW id
  PROVE  Unlink(t, id) \in [Workers -> TaskType]
  BY DEF Unlink, TaskType

LEMMA SignalType ==
  ASSUME Typed, NEW id \in Ids, controls[id] # NoWorker, NEW f \in Flag, Signal(id, f)
  PROVE  task' \in [Workers -> TaskType]
<1>1. controls[id] \in Workers
  BY DEF Typed, TypeOK
<1>. QED  BY <1>1 DEF Typed, TypeOK, Signal, TaskType

LEMMA IdleTypes ==
  NoRow \in RowType /\ IdleTask \in TaskType /\ IdleClient \in ClientType
  BY DEF NoRow, RowType, ConnIds, NoConn, IdleTask, TaskType, WorkerPC, Flag, IdleClient, ClientType

LEMMA TypedInit == Init => Typed
<1> SUFFICES ASSUME Init PROVE Typed
  OBVIOUS
<1>1. TypeOK
  BY IdleTypes DEF Init, TypeOK, FileType, ConnIds
<1>2. WellFormed
  BY DEF Init, WellFormed, IdleTask, IdleClient
<1>. QED  BY <1>1, <1>2 DEF Typed

\* The type of each variable an action changes, then the two conjuncts.
LEMMA FailType ==
  ASSUME Typed, NEW w \in Workers, task[w].pc # "idle", NEW retryable \in BOOLEAN,
         Fail(w, retryable)
  PROVE  task' \in [Workers -> TaskType] /\ row' \in [Ids -> RowType]
<1>1. task[w].id \in Ids
  BY DEF Typed, WellFormed
<1>2. [task EXCEPT ![w].tries = @ + 1] \in [Workers -> TaskType]
      \/ ~(task[w].tries < MaxRetries)
  BY DEF Typed, TypeOK, TaskType
<1>3. "backoff" \in WorkerPC /\ "failed" \in WorkerPC
  BY DEF WorkerPC, Holding
<1>4. task' \in [Workers -> TaskType]
  BY <1>2, <1>3, LeaveType DEF Typed, TypeOK, Fail
<1>5. row' \in [Ids -> RowType]
  BY <1>1, SetBytesType DEF Typed, TypeOK, Fail
<1>. QED  BY <1>4, <1>5

LEMMA TypedWorker ==
  ASSUME Typed, NEW w \in Workers, WorkerStep(w) \/ Acquire(w) PROVE TypeOK'
<1>t. task \in [Workers -> TaskType]
  BY DEF Typed, TypeOK
<1>r. row \in [Ids -> RowType]
  BY DEF Typed, TypeOK
<1>a. artifact \in [Ids -> FileType]
  BY DEF Typed, TypeOK
<1>1. ASSUME Register(w) PROVE TypeOK'
  <2>0. task[w].id \in Ids /\ task[w].pc # "idle"
    BY <1>1 DEF Typed, WellFormed, Register
  <2>1. task' \in [Workers -> TaskType]
    BY <1>1, <2>0, PCNames, <1>t DEF Register, Goto, TaskType
  <2>2. row' \in [Ids -> RowType]
    BY <1>1, <2>0, SetStatusType, <1>r, <1>t DEF Register, Status
  <2>3. controls' \in [Ids -> Workers \cup {NoWorker}]
    BY <1>1, <2>0 DEF Typed, TypeOK, Register
  <2>. QED  BY <1>1, <2>1, <2>2, <2>3 DEF Typed, TypeOK, Register, engine
<1>2. ASSUME Acquire(w) PROVE TypeOK'
  <2>0. task[w].id \in Ids /\ task[w].pc # "idle"
    BY <1>2 DEF Typed, WellFormed, Acquire
  <2>1. task' \in [Workers -> TaskType]
    BY <1>2, <2>0, PCNames, <1>t DEF Acquire, Goto, TaskType
  <2>2. permits' \in Nat
    BY <1>2, <2>0 DEF Typed, TypeOK, Acquire
  <2>. QED  BY <1>2, <2>1, <2>2 DEF Typed, TypeOK, Acquire, engine
<1>3. ASSUME Release(w) PROVE TypeOK'
  <2>0. task[w].id \in Ids /\ task[w].pc # "idle"
    BY <1>3 DEF Typed, WellFormed, Release
  <2>1. task' \in [Workers -> TaskType]
    BY <1>3, <2>0, PCNames, <1>t DEF Release, Goto, TaskType
  <2>2. permits' \in Nat
    BY <1>3, <2>0 DEF Typed, TypeOK, Release
  <2>3. inflight' \subseteq Ids
    BY <1>3, <2>0 DEF Typed, TypeOK, Release
  <2>. QED  BY <1>3, <2>1, <2>2, <2>3 DEF Typed, TypeOK, Release, engine
<1>4. ASSUME DropControl(w) PROVE TypeOK'
  <2>0. task[w].id \in Ids /\ task[w].pc # "idle"
    BY <1>4 DEF Typed, WellFormed, DropControl
  <2>1. task' \in [Workers -> TaskType]
    BY <1>4, <2>0, PCNames, <1>t DEF DropControl, IdleTask, TaskType, Flag
  <2>2. controls' \in [Ids -> Workers \cup {NoWorker}]
    BY <1>4, <2>0 DEF Typed, TypeOK, DropControl
  <2>. QED  BY <1>4, <2>1, <2>2 DEF Typed, TypeOK, DropControl, engine
<1>5. ASSUME Begin(w) PROVE TypeOK'
  <2>0. task[w].id \in Ids /\ task[w].pc # "idle"
    BY <1>5 DEF Typed, WellFormed, Begin
  <2>1. task' \in [Workers -> TaskType]
    BY <1>5, <2>0, PCNames, <1>t DEF Begin, Goto, Resolve, TaskType, RowType
  <2>2. row' \in [Ids -> RowType]
    BY <1>5, <2>0, SetStatusType, <1>r, <1>t DEF Begin, Status
  <2>. QED  BY <1>5, <2>1, <2>2 DEF Typed, TypeOK, Begin, engine
<1>6. ASSUME WakeUp(w) PROVE TypeOK'
  <2>0. task[w].id \in Ids /\ task[w].pc # "idle"
    BY <1>6 DEF Typed, WellFormed, WakeUp
  <2>1. task' \in [Workers -> TaskType]
    BY <1>6, <2>0, PCNames, <1>t DEF WakeUp, Goto, TaskType
  <2>. QED  BY <1>6, <2>1 DEF Typed, TypeOK, WakeUp, engine
<1>7. ASSUME Cleanup(w) PROVE TypeOK'
  <2>0. task[w].id \in Ids /\ task[w].pc # "idle"
    BY <1>7 DEF Typed, WellFormed, Cleanup
  <2>1. task' \in [Workers -> TaskType]
    BY <1>7, <2>0, PCNames, <1>t DEF Cleanup, Goto, TaskType
  <2>2. artifact' \in [Ids -> FileType]
    BY <1>7, <2>0, <1>a, <1>t, <1>r DEF Cleanup, FileType
  <2>. QED  BY <1>7, <2>1, <2>2 DEF Typed, TypeOK, Cleanup, engine
<1>8. ASSUME RecordOutcome(w) PROVE TypeOK'
  <2>0. task[w].id \in Ids /\ task[w].pc # "idle"
    BY <1>8 DEF Typed, WellFormed, RecordOutcome
  <2>1. task' \in [Workers -> TaskType]
    <3>1. task' = [task EXCEPT ![w].pc = "exiting", ![w].srv = NoServer, ![w].tries = 0]
      BY <1>8 DEF RecordOutcome
    <3>2. "exiting" \in WorkerPC /\ 0 \in 0 .. MaxRetries
      BY PCNames
    <3>3. [task EXCEPT ![w].pc = "exiting"] \in [Workers -> TaskType]
      BY <3>2, <1>t, TaskFields
    <3>4. [task EXCEPT ![w].pc = "exiting", ![w].srv = NoServer] \in [Workers -> TaskType]
      BY <3>3, TaskFields
    <3>. QED  BY <3>1, <3>2, <3>4, TaskFields
  <2>2. row' \in [Ids -> RowType]
    BY <1>8, <2>0, SetStatusType, <1>r, <1>t DEF RecordOutcome, Status
  <2>. QED  BY <1>8, <2>1, <2>2 DEF Typed, TypeOK, RecordOutcome, engine
<1>9. ASSUME ClampOffset(w) PROVE TypeOK'
  <2>0. task[w].id \in Ids /\ task[w].pc # "idle"
    BY <1>9 DEF Typed, WellFormed, ClampOffset
  <2>1. task' \in [Workers -> TaskType]
    <3>0. task[w].off \in Nat /\ FileLen(artifact[task[w].id]) \in Nat
      BY <2>0, <1>t, <1>a DEF FileLen, FileType, TaskType
    <3>1. PICK off \in Nat : task' = [task EXCEPT ![w].pc = "clamped", ![w].off = off]
      BY <1>9, <3>0 DEF ClampOffset, Lower
    <3>2. [task EXCEPT ![w].pc = "clamped"] \in [Workers -> TaskType]
      BY <1>t, PCNames, TaskFields
    <3>3. [task EXCEPT ![w].pc = "clamped", ![w].off = off] \in [Workers -> TaskType]
      BY <3>2, TaskFields
    <3>. QED  BY <3>1, <3>3
  <2>2. row' \in [Ids -> RowType]
    BY <1>9, <2>0, SetBytesType, <1>r, <1>t DEF ClampOffset, Lower, FileLen, FileType, TaskType
  <2>. QED  BY <1>9, <2>1, <2>2 DEF Typed, TypeOK, ClampOffset, engine
<1>10. ASSUME OpenDownload(w) PROVE TypeOK'
  <2>0. task[w].id \in Ids /\ task[w].pc # "idle"
    BY <1>10 DEF Typed, WellFormed, OpenDownload
  <2>1. task' \in [Workers -> TaskType]
    BY <1>10, <2>0, PCNames, <1>t DEF OpenDownload, TaskType
  <2>2. artifact' \in [Ids -> FileType]
    BY <1>10, <2>0, SetLenType, <1>a, <1>t, <1>r DEF OpenDownload, FileType, TaskType
  <2>. QED  BY <1>10, <2>1, <2>2 DEF Typed, TypeOK, OpenDownload, engine
<1>11. ASSUME DownloadChunk(w) PROVE TypeOK'
  <2>0. task[w].id \in Ids /\ task[w].pc # "idle"
    BY <1>11 DEF Typed, WellFormed, DownloadChunk, Streams
  <2>1. task' \in [Workers -> TaskType]
    BY <1>11, <2>0, PCNames, <1>t DEF DownloadChunk, TaskType
  <2>2. row' \in [Ids -> RowType]
    <3>1. task[w].off + 1 \in Nat
      BY <1>t DEF TaskType
    <3>. QED  BY <1>11, <2>0, <3>1, <1>r, SetBytesType DEF DownloadChunk
  <2>3. artifact' \in [Ids -> FileType]
    BY <1>11, <2>0, WriteAtType, <1>a, <1>t, <1>r DEF DownloadChunk, Delivered, Chunk, FileType, TaskType
  <2>. QED  BY <1>11, <2>1, <2>2, <2>3 DEF Typed, TypeOK, DownloadChunk, engine
<1>12. ASSUME DownloadEnd(w) PROVE TypeOK'
  <2>0. task[w].id \in Ids /\ task[w].pc # "idle"
    BY <1>12 DEF Typed, WellFormed, DownloadEnd, Streams
  <2>1. task' \in [Workers -> TaskType]
    BY <1>12, <2>0, LeaveType, PCNames, <1>t DEF DownloadEnd
  <2>2. row' \in [Ids -> RowType]
    BY <1>12, <2>0, SetBytesType, <1>r, <1>t DEF DownloadEnd, TaskType
  <2>. QED  BY <1>12, <2>1, <2>2 DEF Typed, TypeOK, DownloadEnd, engine
<1>13. ASSUME OpenUpload(w) PROVE TypeOK'
  <2>0. task[w].id \in Ids /\ task[w].pc # "idle"
    BY <1>13 DEF Typed, WellFormed, OpenUpload
  <2>1. task' \in [Workers -> TaskType]
    <3>1. task' = [task EXCEPT ![w].pc = "streaming", ![w].off = 0, ![w].linked = TRUE]
      BY <1>13 DEF OpenUpload
    <3>2. [task EXCEPT ![w].pc = "streaming"] \in [Workers -> TaskType]
      BY <1>t, PCNames, TaskFields
    <3>3. [task EXCEPT ![w].pc = "streaming", ![w].off = 0] \in [Workers -> TaskType]
      BY <3>2, TaskFields
    <3>. QED  BY <3>1, <3>3, TaskFields
  <2>2. artifact' \in [Ids -> FileType]
    BY <1>13, <2>0, FileConstants, <1>a, <1>t, <1>r DEF OpenUpload, FileType
  <2>. QED  BY <1>13, <2>1, <2>2 DEF Typed, TypeOK, OpenUpload, engine
<1>14. ASSUME UploadChunk(w) PROVE TypeOK'
  <2>0. task[w].id \in Ids /\ task[w].pc # "idle"
    BY <1>14 DEF Typed, WellFormed, UploadChunk, Streams
  <2>1. task' \in [Workers -> TaskType]
    BY <1>14, <2>0, PCNames, <1>t DEF UploadChunk, TaskType
  <2>2. row' \in [Ids -> RowType]
    <3>1. task[w].off + 1 \in Nat
      BY <1>t DEF TaskType
    <3>. QED  BY <1>14, <2>0, <3>1, <1>r, SetBytesType DEF UploadChunk
  <2>3. artifact' \in [Ids -> FileType]
    BY <1>14, <2>0, WriteAtType, <1>a, <1>t, <1>r DEF UploadChunk, Chunk, FileType, TaskType
  <2>. QED  BY <1>14, <2>1, <2>2, <2>3 DEF Typed, TypeOK, UploadChunk, engine
<1>15. ASSUME UploadEnd(w) PROVE TypeOK'
  <2>0. task[w].id \in Ids /\ task[w].pc # "idle"
    BY <1>15 DEF Typed, WellFormed, UploadEnd, Streams
  <2>1. task' \in [Workers -> TaskType]
    BY <1>15, <2>0, PCNames, <1>t DEF UploadEnd, Goto, TaskType
  <2>. QED  BY <1>15, <2>1 DEF Typed, TypeOK, UploadEnd, engine
<1>16. ASSUME Shutdown(w) PROVE TypeOK'
  <2>0. task[w].id \in Ids /\ task[w].pc # "idle"
    BY <1>16 DEF Typed, WellFormed, Shutdown
  <2>1. task' \in [Workers -> TaskType]
    BY <1>16, <2>0, LeaveType, PCNames, <1>t DEF Shutdown
  <2>2. row' \in [Ids -> RowType]
    BY <1>16, <2>0, SetBytesType, <1>r, <1>t DEF Shutdown, TaskType
  <2>3. artifact' \in [Ids -> FileType]
    BY <1>16, <2>0, FileConstants, <1>a, <1>t, <1>r DEF Shutdown, Published, FileType
  <2>. QED  BY <1>16, <2>1, <2>2, <2>3 DEF Typed, TypeOK, Shutdown, engine
<1>17. ASSUME Observe(w) PROVE TypeOK'
  <2>0. task[w].id \in Ids /\ task[w].pc # "idle"
    BY <1>17 DEF Typed, WellFormed, Observe
  <2>1. task' \in [Workers -> TaskType]
    BY <1>17, <2>0, LeaveType, PCNames, <1>t DEF Observe
  <2>. QED  BY <1>17, <2>1 DEF Typed, TypeOK, Observe, engine
<1>18. ASSUME OpenFails(w) PROVE TypeOK'
  <2>0. task[w].id \in Ids /\ task[w].pc # "idle"
    BY <1>18 DEF Typed, WellFormed, OpenFails
  <2>1. task' \in [Workers -> TaskType]
    BY <1>18, <2>0, FailType, <1>t DEF OpenFails
  <2>2. row' \in [Ids -> RowType]
    BY <1>18, <2>0, FailType, <1>r, <1>t DEF OpenFails
  <2>. QED  BY <1>18, <2>1, <2>2 DEF Typed, TypeOK, OpenFails, engine
<1>19. ASSUME StreamFails(w) PROVE TypeOK'
  <2>0. task[w].id \in Ids /\ task[w].pc # "idle"
    BY <1>19 DEF Typed, WellFormed, StreamFails
  <2>1. task' \in [Workers -> TaskType]
    BY <1>19, <2>0, FailType, <1>t DEF StreamFails
  <2>2. row' \in [Ids -> RowType]
    BY <1>19, <2>0, FailType, <1>r, <1>t DEF StreamFails
  <2>. QED  BY <1>19, <2>1, <2>2 DEF Typed, TypeOK, StreamFails, engine
<1>20. ASSUME ShutdownFails(w) PROVE TypeOK'
  <2>0. task[w].id \in Ids /\ task[w].pc # "idle"
    BY <1>20 DEF Typed, WellFormed, ShutdownFails
  <2>1. task' \in [Workers -> TaskType]
    BY <1>20, <2>0, FailType, <1>t DEF ShutdownFails
  <2>2. row' \in [Ids -> RowType]
    BY <1>20, <2>0, FailType, <1>r, <1>t DEF ShutdownFails
  <2>3. artifact' \in [Ids -> FileType]
    BY <1>20, <2>0, FileConstants, <1>a, <1>t, <1>r DEF ShutdownFails, Published, FileType
  <2>. QED  BY <1>20, <2>1, <2>2, <2>3 DEF Typed, TypeOK, ShutdownFails, engine
<1>. QED  BY <1>1, <1>2, <1>3, <1>4, <1>5, <1>6, <1>7, <1>8, <1>9, <1>10, <1>11, <1>12, <1>13, <1>14, <1>15, <1>16, <1>17, <1>18, <1>19, <1>20 DEF WorkerStep

LEMMA TypedCommand ==
  ASSUME Typed, NEW c \in Clients, CommandStep(c) PROVE TypeOK'
<1>t. task \in [Workers -> TaskType]
  BY DEF Typed, TypeOK
<1>r. row \in [Ids -> RowType]
  BY DEF Typed, TypeOK
<1>a. artifact \in [Ids -> FileType]
  BY DEF Typed, TypeOK
<1>c. client \in [Clients -> ClientType]
  BY DEF Typed, TypeOK
<1>1. ASSUME PauseSignal(c) PROVE TypeOK'
  <2>0. client[c].id \in Ids /\ client[c].pc # "idle"
    BY <1>1 DEF Typed, WellFormed, PauseSignal
  <2>1. task' \in [Workers -> TaskType]
    BY <1>1, <2>0, SignalType, <1>t DEF PauseSignal, Flag
  <2>2. client' \in [Clients -> ClientType]
    BY <1>1, <2>0, <1>c, <1>r DEF PauseSignal, Return, IdleClient, ClientType, NoConn
  <2>. QED  BY <1>1, <2>1, <2>2 DEF Typed, TypeOK, PauseSignal, engine
<1>2. ASSUME PauseMark(c) PROVE TypeOK'
  <2>0. client[c].id \in Ids /\ client[c].pc # "idle"
    BY <1>2 DEF Typed, WellFormed, PauseMark
  <2>1. row' \in [Ids -> RowType]
    BY <1>2, <2>0, SetStatusType, <1>r, <1>t DEF PauseMark, Status
  <2>2. client' \in [Clients -> ClientType]
    BY <1>2, <2>0, <1>c, <1>r DEF PauseMark, Return, IdleClient, ClientType, NoConn
  <2>. QED  BY <1>2, <2>1, <2>2 DEF Typed, TypeOK, PauseMark, engine
<1>3. ASSUME ResumeCheck(c) PROVE TypeOK'
  <2>0. client[c].id \in Ids /\ client[c].pc # "idle"
    BY <1>3 DEF Typed, WellFormed, ResumeCheck
  <2>1. client' \in [Clients -> ClientType]
    BY <1>3, <2>0, <1>c, <1>r DEF ResumeCheck, Return, IdleClient, ClientType, NoConn
  <2>. QED  BY <1>3, <2>1 DEF Typed, TypeOK, ResumeCheck, engine
<1>4. ASSUME ResumeGo(c) PROVE TypeOK'
  <2>0. client[c].id \in Ids /\ client[c].pc # "idle"
    BY <1>4 DEF Typed, WellFormed, ResumeGo
  <2>1. row' \in [Ids -> RowType]
    <3>1. \/ row' = row
          \/ \E k \in ConnIds \cup {NoConn}, n \in Nat :
               row' = [row EXCEPT ![client[c].id].conn = k, ![client[c].id].bytes = n]
      BY <1>4, <2>0, <1>r, <1>c DEF ResumeGo, RowType, ClientType
    <3>2. ASSUME NEW k \in ConnIds \cup {NoConn}, NEW n \in Nat,
                 row' = [row EXCEPT ![client[c].id].conn = k, ![client[c].id].bytes = n]
          PROVE  row' \in [Ids -> RowType]
      <4>1. [row EXCEPT ![client[c].id].conn = k] \in [Ids -> RowType]
        BY <2>0, <1>r DEF RowType
      <4>2. \A f \in [Ids -> RowType] : [f EXCEPT ![client[c].id].bytes = n] \in [Ids -> RowType]
        BY <2>0 DEF RowType
      <4>3. [row EXCEPT ![client[c].id].conn = k, ![client[c].id].bytes = n] \in [Ids -> RowType]
        BY <4>1, <4>2
      <4>. QED  BY <3>2, <4>3
    <3>. QED  BY <3>1, <3>2, <1>r
  <2>2. spawned' \in [Ids -> Nat]
    BY <1>4, <2>0 DEF Typed, TypeOK, ResumeGo
  <2>3. client' \in [Clients -> ClientType]
    BY <1>4, <2>0, <1>c, <1>r DEF ResumeGo, Return, IdleClient, ClientType, NoConn
  <2>. QED  BY <1>4, <2>1, <2>2, <2>3 DEF Typed, TypeOK, ResumeGo, engine
<1>5. ASSUME CancelSignal(c) PROVE TypeOK'
  <2>0. client[c].id \in Ids /\ client[c].pc # "idle"
    BY <1>5 DEF Typed, WellFormed, CancelSignal
  <2>1. task' \in [Workers -> TaskType]
    BY <1>5, <2>0, SignalType, <1>t DEF CancelSignal, Flag
  <2>2. client' \in [Clients -> ClientType]
    BY <1>5, <2>0, <1>c, <1>r DEF CancelSignal, IdleClient, ClientType, RowType, NoConn
  <2>. QED  BY <1>5, <2>1, <2>2 DEF Typed, TypeOK, CancelSignal, engine
<1>6. ASSUME CancelMark(c) PROVE TypeOK'
  <2>0. client[c].id \in Ids /\ client[c].pc # "idle"
    BY <1>6 DEF Typed, WellFormed, CancelMark
  <2>1. row' \in [Ids -> RowType]
    BY <1>6, <2>0, SetStatusType, <1>r, <1>t DEF CancelMark, Status
  <2>2. client' \in [Clients -> ClientType]
    BY <1>6, <2>0, <1>c, <1>r DEF CancelMark, ClientType
  <2>. QED  BY <1>6, <2>1, <2>2 DEF Typed, TypeOK, CancelMark, engine
<1>7. ASSUME CancelClean(c) PROVE TypeOK'
  <2>0. client[c].id \in Ids /\ client[c].pc # "idle"
    BY <1>7 DEF Typed, WellFormed, CancelClean
  <2>1. task' \in [Workers -> TaskType]
    BY <1>7, <2>0, UnlinkType, <1>t DEF CancelClean
  <2>2. artifact' \in [Ids -> FileType]
    BY <1>7, <2>0, <1>a, <1>t, <1>r DEF CancelClean, FileType
  <2>3. client' \in [Clients -> ClientType]
    BY <1>7, <2>0, <1>c, <1>r DEF CancelClean, Return, IdleClient, ClientType, NoConn
  <2>. QED  BY <1>7, <2>1, <2>2, <2>3 DEF Typed, TypeOK, CancelClean, engine
<1>8. ASSUME ClearOne(c) PROVE TypeOK'
  <2>0. client[c].id \in Ids /\ client[c].pc # "idle"
    BY <1>8 DEF Typed, WellFormed, ClearOne
  <2>1. row' \in [Ids -> RowType]
    BY <1>8, <2>0, <1>r, RemovedType DEF ClearOne
  <2>2. client' \in [Clients -> ClientType]
    BY <1>8, <2>0, <1>c, <1>r DEF ClearOne, Return, IdleClient, ClientType, NoConn
  <2>. QED  BY <1>8, <2>1, <2>2 DEF Typed, TypeOK, ClearOne, engine
<1>. QED  BY <1>1, <1>2, <1>3, <1>4, <1>5, <1>6, <1>7, <1>8 DEF CommandStep

----------------------------------------------------------------------------
(* How a step moves the workers. The invariants of the pool follow from the  *)
(* move alone, whatever the step does to rows and files.                     *)

Past == PrePermit \cup Holding

\* Every worker keeps its transfer, and every worker but w its pc.
Keeps(w) ==
  \A v \in Workers : task'[v].id = task[v].id /\ (v # w => task'[v].pc = task[v].pc)

Quiet == \A v \in Workers : task'[v].id = task[v].id /\ task'[v].pc = task[v].pc

KeepsStatus == \A id \in Ids : row'[id].st = row[id].st

\* A step of a worker that holds a permit and does not end its transfer.
Plain(w) ==
  /\ Keeps(w)
  /\ task[w].pc \in Holding \ {"exiting"} /\ task'[w].pc \in Holding \ {"exiting"}
  /\ KeepsStatus
  /\ UNCHANGED <<spawned, inflight, permits>>

LEMMA LeaveShape ==
  ASSUME NEW t \in [Workers -> TaskType], NEW w \in Workers, NEW pc
  PROVE  /\ Leave(t, w, pc)[w].pc = pc
         /\ \A v \in Workers : Leave(t, w, pc)[v].id = t[v].id
         /\ \A v \in Workers : v # w => Leave(t, w, pc)[v].pc = t[v].pc
  BY DEF Leave, TaskType

LEMMA SetBytesStatus ==
  ASSUME row \in [Ids -> RowType], NEW id \in Ids, NEW n
  PROVE  \A i \in Ids : SetBytes(id, n)[i].st = row[i].st
  BY DEF SetBytes, RowType

LEMMA SetStatusStatus ==
  ASSUME row \in [Ids -> RowType], NEW id \in Ids, NEW s
  PROVE  \A i \in Ids :
           SetStatus(id, s)[i].st = IF i = id /\ row[i].st \in Status THEN s ELSE row[i].st
  BY DEF SetStatus, RowType, Present

LEMMA FailShape ==
  ASSUME Typed, NEW w \in Workers, task[w].pc # "idle", NEW retryable, Fail(w, retryable)
  PROVE  Keeps(w) /\ task'[w].pc \in {"backoff", "failed"} /\ KeepsStatus
<1>1. task \in [Workers -> TaskType] /\ row \in [Ids -> RowType] /\ task[w].id \in Ids
  BY DEF Typed, TypeOK, WellFormed
<1>2. CASE retryable /\ task[w].tries < MaxRetries
  <2>1. task[w].tries + 1 \in 0 .. MaxRetries
    BY <1>1, <1>2 DEF TaskType
  <2> DEFINE t == [task EXCEPT ![w].tries = @ + 1]
  <2>2. t \in [Workers -> TaskType] /\ \A v \in Workers : t[v].id = task[v].id /\ t[v].pc = task[v].pc
    BY <1>1, <2>1 DEF TaskType
  <2>3. task' = Leave(t, w, "backoff")
    BY <1>2 DEF Fail
  <2>4. KeepsStatus
    BY <1>1, <1>2, SetBytesStatus DEF Fail, KeepsStatus
  <2> HIDE DEF t
  <2>. QED  BY <2>2, <2>3, <2>4, LeaveShape DEF Keeps
<1>3. CASE ~(retryable /\ task[w].tries < MaxRetries)
  BY <1>1, <1>3, LeaveShape DEF Fail, Keeps, KeepsStatus
<1>. QED  BY <1>2, <1>3

LEMMA PlainStep ==
  ASSUME Typed, NEW w \in Workers,
         \/ WakeUp(w) \/ Cleanup(w) \/ ClampOffset(w) \/ OpenDownload(w) \/ DownloadChunk(w)
         \/ DownloadEnd(w) \/ OpenUpload(w) \/ UploadChunk(w) \/ UploadEnd(w) \/ Shutdown(w)
         \/ Observe(w) \/ OpenFails(w) \/ StreamFails(w) \/ ShutdownFails(w)
  PROVE  Plain(w)
<1>t. task \in [Workers -> TaskType]
  BY DEF Typed, TypeOK
<1>r. row \in [Ids -> RowType]
  BY DEF Typed, TypeOK
<1>i. task[w].pc # "idle" => task[w].id \in Ids
  BY DEF Typed, WellFormed
<1>1. ASSUME WakeUp(w) PROVE Plain(w)
  <2>1. Keeps(w) /\ task[w].pc \in Holding \ {"exiting"} /\ task'[w].pc \in Holding \ {"exiting"}
    BY <1>1, <1>t DEF WakeUp, Goto, Keeps, Holding, TaskType
  <2>2. KeepsStatus
    BY <1>1, <1>r, <1>i DEF WakeUp, Goto, KeepsStatus
  <2>. QED  BY <1>1, <2>1, <2>2 DEF Plain, WakeUp
<1>2. ASSUME Cleanup(w) PROVE Plain(w)
  <2>1. Keeps(w) /\ task[w].pc \in Holding \ {"exiting"} /\ task'[w].pc \in Holding \ {"exiting"}
    BY <1>2, <1>t DEF Cleanup, Goto, Keeps, Holding, TaskType
  <2>2. KeepsStatus
    BY <1>2, <1>r, <1>i DEF Cleanup, Goto, KeepsStatus
  <2>. QED  BY <1>2, <2>1, <2>2 DEF Plain, Cleanup
<1>3. ASSUME ClampOffset(w) PROVE Plain(w)
  <2>1. Keeps(w) /\ task[w].pc \in Holding \ {"exiting"} /\ task'[w].pc \in Holding \ {"exiting"}
    BY <1>3, <1>t DEF ClampOffset, Keeps, Holding, TaskType
  <2>2. KeepsStatus
    BY <1>3, <1>r, <1>i, SetBytesStatus DEF ClampOffset, KeepsStatus
  <2>. QED  BY <1>3, <2>1, <2>2 DEF Plain, ClampOffset
<1>4. ASSUME OpenDownload(w) PROVE Plain(w)
  <2>1. Keeps(w) /\ task[w].pc \in Holding \ {"exiting"} /\ task'[w].pc \in Holding \ {"exiting"}
    BY <1>4, <1>t DEF OpenDownload, Keeps, Holding, TaskType
  <2>2. KeepsStatus
    BY <1>4, <1>r, <1>i DEF OpenDownload, KeepsStatus
  <2>. QED  BY <1>4, <2>1, <2>2 DEF Plain, OpenDownload
<1>5. ASSUME DownloadChunk(w) PROVE Plain(w)
  <2>1. Keeps(w) /\ task[w].pc \in Holding \ {"exiting"} /\ task'[w].pc \in Holding \ {"exiting"}
    BY <1>5, <1>t DEF DownloadChunk, Streams, Keeps, Holding, TaskType
  <2>2. KeepsStatus
    BY <1>5, <1>r, <1>i, SetBytesStatus DEF DownloadChunk, Streams, KeepsStatus
  <2>. QED  BY <1>5, <2>1, <2>2 DEF Plain, DownloadChunk
<1>6. ASSUME DownloadEnd(w) PROVE Plain(w)
  <2>1. Keeps(w) /\ task[w].pc \in Holding \ {"exiting"} /\ task'[w].pc \in Holding \ {"exiting"}
    BY <1>6, <1>t, LeaveShape DEF DownloadEnd, Streams, Keeps, Holding
  <2>2. KeepsStatus
    BY <1>6, <1>r, <1>i, SetBytesStatus DEF DownloadEnd, Streams, KeepsStatus
  <2>. QED  BY <1>6, <2>1, <2>2 DEF Plain, DownloadEnd
<1>7. ASSUME OpenUpload(w) PROVE Plain(w)
  <2>1. Keeps(w) /\ task[w].pc \in Holding \ {"exiting"} /\ task'[w].pc \in Holding \ {"exiting"}
    BY <1>7, <1>t DEF OpenUpload, Keeps, Holding, TaskType
  <2>2. KeepsStatus
    BY <1>7, <1>r, <1>i DEF OpenUpload, KeepsStatus
  <2>. QED  BY <1>7, <2>1, <2>2 DEF Plain, OpenUpload
<1>8. ASSUME UploadChunk(w) PROVE Plain(w)
  <2>1. Keeps(w) /\ task[w].pc \in Holding \ {"exiting"} /\ task'[w].pc \in Holding \ {"exiting"}
    BY <1>8, <1>t DEF UploadChunk, Streams, Keeps, Holding, TaskType
  <2>2. KeepsStatus
    BY <1>8, <1>r, <1>i, SetBytesStatus DEF UploadChunk, Streams, KeepsStatus
  <2>. QED  BY <1>8, <2>1, <2>2 DEF Plain, UploadChunk
<1>9. ASSUME UploadEnd(w) PROVE Plain(w)
  <2>1. Keeps(w) /\ task[w].pc \in Holding \ {"exiting"} /\ task'[w].pc \in Holding \ {"exiting"}
    BY <1>9, <1>t DEF UploadEnd, Streams, Goto, Keeps, Holding, TaskType
  <2>2. KeepsStatus
    BY <1>9, <1>r, <1>i DEF UploadEnd, Streams, Goto, KeepsStatus
  <2>. QED  BY <1>9, <2>1, <2>2 DEF Plain, UploadEnd
<1>10. ASSUME Shutdown(w) PROVE Plain(w)
  <2>1. Keeps(w) /\ task[w].pc \in Holding \ {"exiting"} /\ task'[w].pc \in Holding \ {"exiting"}
    BY <1>10, <1>t, LeaveShape DEF Shutdown, Keeps, Holding
  <2>2. KeepsStatus
    BY <1>10, <1>r, <1>i, SetBytesStatus DEF Shutdown, KeepsStatus
  <2>. QED  BY <1>10, <2>1, <2>2 DEF Plain, Shutdown
<1>11. ASSUME Observe(w) PROVE Plain(w)
  <2>1. Keeps(w) /\ task[w].pc \in Holding \ {"exiting"} /\ task'[w].pc \in Holding \ {"exiting"}
    BY <1>11, <1>t, LeaveShape DEF Observe, Keeps, Holding
  <2>2. KeepsStatus
    BY <1>11, <1>r, <1>i DEF Observe, KeepsStatus
  <2>. QED  BY <1>11, <2>1, <2>2 DEF Plain, Observe
<1>12. ASSUME OpenFails(w) PROVE Plain(w)
  <2>1. task[w].pc \in Holding \ {"exiting"} /\ task[w].pc # "idle"
    BY <1>12 DEF OpenFails, Holding
  <2>2. Keeps(w) /\ task'[w].pc \in {"backoff", "failed"} /\ KeepsStatus
    BY <1>12, <2>1, FailShape DEF OpenFails
  <2>. QED  BY <1>12, <2>1, <2>2 DEF Plain, OpenFails, Holding
<1>13. ASSUME StreamFails(w) PROVE Plain(w)
  <2>1. task[w].pc \in Holding \ {"exiting"} /\ task[w].pc # "idle"
    BY <1>13 DEF StreamFails, Holding
  <2>2. Keeps(w) /\ task'[w].pc \in {"backoff", "failed"} /\ KeepsStatus
    BY <1>13, <2>1, FailShape DEF StreamFails
  <2>. QED  BY <1>13, <2>1, <2>2 DEF Plain, StreamFails, Holding
<1>14. ASSUME ShutdownFails(w) PROVE Plain(w)
  <2>1. task[w].pc \in Holding \ {"exiting"} /\ task[w].pc # "idle"
    BY <1>14 DEF ShutdownFails, Holding
  <2>2. Keeps(w) /\ task'[w].pc \in {"backoff", "failed"} /\ KeepsStatus
    BY <1>14, <2>1, FailShape DEF ShutdownFails
  <2>. QED  BY <1>14, <2>1, <2>2 DEF Plain, ShutdownFails, Holding
<1>. QED  BY <1>1, <1>2, <1>3, <1>4, <1>5, <1>6, <1>7, <1>8, <1>9, <1>10, <1>11, <1>12, <1>13, <1>14

\* The steps of a worker outside the streams, and of a task it starts from.
LEMMA RegisterMove ==
  ASSUME Typed, NEW w \in Workers, Register(w)
  PROVE  /\ Keeps(w) /\ task[w].pc = "claimed" /\ task'[w].pc = "waiting"
         /\ UNCHANGED <<spawned, inflight, permits>>
  BY DEF Typed, TypeOK, Register, Goto, Keeps, TaskType

LEMMA AcquireMove ==
  ASSUME Typed, NEW w \in Workers, Acquire(w)
  PROVE  /\ Keeps(w) /\ task[w].pc = "waiting" /\ task'[w].pc = "ready"
         /\ permits > 0 /\ permits' = permits - 1
         /\ UNCHANGED <<row, spawned, inflight>>
  BY DEF Typed, TypeOK, Acquire, Goto, Keeps, TaskType

LEMMA ReleaseMove ==
  ASSUME Typed, NEW w \in Workers, Release(w)
  PROVE  /\ Keeps(w) /\ task[w].pc = "exiting" /\ task'[w].pc = "dropping"
         /\ permits' = permits + 1 /\ inflight' = inflight \ {task[w].id}
         /\ UNCHANGED <<row, spawned>>
  BY DEF Typed, TypeOK, Release, Goto, Keeps, TaskType

LEMMA DropMove ==
  ASSUME Typed, NEW w \in Workers, DropControl(w)
  PROVE  /\ task[w].pc = "dropping" /\ task'[w].pc = "idle"
         /\ \A v \in Workers \ {w} : task'[v] = task[v]
         /\ UNCHANGED <<row, spawned, inflight, permits>>
  BY DEF Typed, TypeOK, DropControl, IdleTask, TaskType

LEMMA BeginMove ==
  ASSUME Typed, NEW w \in Workers, Begin(w)
  PROVE  /\ Keeps(w) /\ task[w].pc = "ready" /\ task'[w].pc \in {"opening", "exiting"}
         /\ UNCHANGED <<spawned, inflight, permits>>
<1>t. task \in [Workers -> TaskType]
  BY DEF Typed, TypeOK
<1>1. UNCHANGED <<spawned, inflight, permits>> /\ task[w].pc = "ready"
  BY DEF Begin
<1>2. CASE Goto(w, "exiting")
  BY <1>t, <1>1, <1>2 DEF Goto, Keeps, TaskType
<1>3. CASE \E srv, n : task' = [task EXCEPT ![w].pc = "opening", ![w].srv = srv, ![w].off = n]
  BY <1>t, <1>1, <1>3 DEF Keeps, TaskType
<1>. QED  BY <1>2, <1>3 DEF Begin

LEMMA RecordMove ==
  ASSUME Typed, NEW w \in Workers, RecordOutcome(w)
  PROVE  /\ Keeps(w) /\ task'[w].pc = "exiting"
         /\ task[w].pc \in {"completed", "paused", "canceled", "failed"}
         /\ row' = SetStatus(task[w].id, task[w].pc)
         /\ UNCHANGED <<spawned, inflight, permits>>
  BY DEF Typed, TypeOK, RecordOutcome, Keeps, TaskType

LEMMA ClaimMove ==
  ASSUME Typed, NEW id \in Ids, Claim(id)
  PROVE  \E w \in Workers :
           /\ task[w].pc = "idle" /\ task'[w].pc = "claimed" /\ task'[w].id = id
           /\ task' = [task EXCEPT ![w] = task'[w]] /\ task'[w] \in TaskType
           /\ id \notin inflight /\ inflight' = inflight \cup {id}
           /\ spawned[id] > 0 /\ spawned' = [spawned EXCEPT ![id] = @ - 1]
           /\ UNCHANGED <<row, permits>>
<1>t. task \in [Workers -> TaskType]
  BY DEF Typed, TypeOK
<1>1. PICK w \in Workers :
        /\ task[w].pc = "idle"
        /\ task' = [task EXCEPT ![w] = [IdleTask EXCEPT !.pc = "claimed", !.id = id]]
  BY DEF Claim
<1>2. task'[w] = [IdleTask EXCEPT !.pc = "claimed", !.id = id]
  BY <1>t, <1>1
<1>3. [IdleTask EXCEPT !.pc = "claimed", !.id = id] \in TaskType
  <2>1. [IdleTask EXCEPT !.pc = "claimed"] \in TaskType
    BY IdleTypes, PCNames DEF TaskType
  <2>2. \A r \in TaskType : [r EXCEPT !.id = id] \in TaskType
    BY DEF TaskType
  <2>. QED  BY <2>1, <2>2
<1>4. task'[w].pc = "claimed" /\ task'[w].id = id
  BY <1>2 DEF IdleTask
<1>. QED  BY <1>1, <1>2, <1>3, <1>4 DEF Claim

\* Signals and unlinked handles leave every worker where it is.
LEMMA CommandMove ==
  ASSUME Typed, NEW c \in Clients, CommandStep(c)
  PROVE  Quiet /\ UNCHANGED <<inflight, permits>>
<1>t. task \in [Workers -> TaskType]
  BY DEF Typed, TypeOK
<1>1. ASSUME NEW id, controls[id] \in Workers, NEW f, Signal(id, f) PROVE Quiet
  BY <1>1, <1>t DEF Signal, Quiet, TaskType
<1>2. \A id \in Ids : controls[id] # NoWorker => controls[id] \in Workers
  BY DEF Typed, TypeOK
<1>3. task' = task => Quiet
  BY DEF Quiet
<1>4. ASSUME NEW id, task' = Unlink(task, id) PROVE Quiet
  BY <1>4, <1>t DEF Unlink, Quiet, TaskType
<1>5. client[c].pc # "idle" => client[c].id \in Ids
  BY DEF Typed, WellFormed
<1>6. CASE PauseSignal(c)
  BY <1>1, <1>2, <1>3, <1>5, <1>6 DEF PauseSignal
<1>7. CASE CancelSignal(c)
  BY <1>1, <1>2, <1>3, <1>5, <1>7 DEF CancelSignal
<1>8. CASE CancelClean(c)
  BY <1>3, <1>4, <1>8 DEF CancelClean
<1>9. CASE PauseMark(c) \/ ResumeCheck(c) \/ ResumeGo(c) \/ CancelMark(c) \/ ClearOne(c)
  BY <1>3, <1>9 DEF PauseMark, ResumeCheck, ResumeGo, CancelMark, ClearOne, engine
<1>. QED  BY <1>6, <1>7, <1>8, <1>9 DEF CommandStep

\* A command keeps its transfer until it returns.
LEMMA CommandKeepsId ==
  ASSUME Typed, NEW c \in Clients, CommandStep(c)
  PROVE  \A d \in Clients : client'[d].pc # "idle" =>
           client[d].pc # "idle" /\ client'[d].id = client[d].id
<1>c. client \in [Clients -> ClientType]
  BY DEF Typed, TypeOK
<1>1. CASE Return(c)
  BY <1>c, <1>1 DEF Return, IdleClient
<1>2. ASSUME NEW pc, client[c].pc # "idle", client' = [client EXCEPT ![c].pc = pc]
      PROVE  \A d \in Clients : client'[d].pc # "idle" =>
               client[d].pc # "idle" /\ client'[d].id = client[d].id
  BY <1>c, <1>2 DEF ClientType
<1>3. CASE CancelSignal(c)
  BY <1>c, <1>3 DEF CancelSignal, IdleClient
<1>4. CASE PauseSignal(c) \/ ResumeCheck(c) \/ CancelMark(c)
  BY <1>1, <1>2, <1>4 DEF PauseSignal, ResumeCheck, CancelMark
<1>5. CASE PauseMark(c) \/ ResumeGo(c) \/ CancelClean(c) \/ ClearOne(c)
  BY <1>1, <1>5 DEF PauseMark, ResumeGo, CancelClean, ClearOne
<1>. QED  BY <1>3, <1>4, <1>5 DEF CommandStep

----------------------------------------------------------------------------
(* Type correctness *)

LEMMA TypedOthers ==
  ASSUME Typed,
         \/ \E id \in Ids : Claim(id) \/ Redundant(id) \/ Tamper(id)
         \/ \E id \in Ids, dir \in {"down", "up"}, k \in LiveConns, before \in {NoFile, OldFile} :
              Enqueue(id, dir, k, before)
         \/ \E c \in Clients, id \in Ids, op \in {"pause", "resume", "cancel", "clear"} :
              Click(c, id, op)
         \/ ClearCompleted
         \/ \E s \in Servers : Connect(s)
         \/ \E k \in ConnIds : Disconnect(k)
         \/ Restart
  PROVE  Typed'
<1>r. row \in [Ids -> RowType]
  BY DEF Typed, TypeOK
<1>a. artifact \in [Ids -> FileType]
  BY DEF Typed, TypeOK
<1>c. client \in [Clients -> ClientType]
  BY DEF Typed, TypeOK
<1>1. ASSUME NEW id \in Ids, Claim(id) PROVE Typed'
  <2>1. PICK w \in Workers :
          /\ task[w].pc = "idle" /\ task'[w].id = id
          /\ task' = [task EXCEPT ![w] = task'[w]] /\ task'[w] \in TaskType
          /\ inflight' = inflight \cup {id}
          /\ spawned[id] > 0 /\ spawned' = [spawned EXCEPT ![id] = @ - 1]
    BY <1>1, ClaimMove
  <2>2. task' \in [Workers -> TaskType] /\ spawned' \in [Ids -> Nat] /\ inflight' \subseteq Ids
    BY <2>1 DEF Typed, TypeOK
  <2>3. \A v \in Workers : v # w => task'[v] = task[v]
    BY <2>1 DEF Typed, TypeOK
  <2>4. TypeOK'
    BY <1>1, <2>2 DEF Typed, TypeOK, Claim
  <2>5. WellFormed'
    BY <1>1, <2>1, <2>3 DEF Typed, WellFormed, Claim
  <2>. QED  BY <2>4, <2>5 DEF Typed
<1>2. ASSUME NEW id \in Ids, Redundant(id) PROVE Typed'
  <2>1. spawned' \in [Ids -> Nat]
    BY <1>2 DEF Redundant, Typed, TypeOK
  <2>2. TypeOK'
    BY <1>2, <2>1 DEF Typed, TypeOK, Redundant
  <2>3. WellFormed'
    BY <1>2 DEF Typed, WellFormed, Redundant
  <2>. QED  BY <2>2, <2>3 DEF Typed
<1>3. ASSUME NEW id \in Ids, Tamper(id) PROVE Typed'
  <2>0. \A n \in Nat : SetLen(artifact[id], n) \in Seq(Chunk)
    BY <1>a, SetLenType
  <2>1. \A n \in 0 .. FileLen(artifact[id]) - 1 : SetLen(artifact[id], n) \in FileType
    BY <2>0 DEF FileType
  <2>2. artifact' \in [Ids -> FileType]
    BY <1>a, <1>3, <2>1 DEF Tamper, FileType
  <2>. QED  BY <1>3, <2>2 DEF Typed, TypeOK, WellFormed, Tamper, engine
<1>4. ASSUME NEW id \in Ids, NEW dir \in {"down", "up"}, NEW k \in LiveConns,
             NEW before \in {NoFile, OldFile}, Enqueue(id, dir, k, before)
      PROVE  Typed'
  <2>1. k \in ConnIds /\ conns[k] \in Servers \cup {NoServer}
    BY DEF LiveConns, Typed, TypeOK
  <2>2. [st |-> "queued", dir |-> dir, conn |-> k, home |-> conns[k], bytes |-> 0] \in RowType
    BY <2>1 DEF RowType, Status
  <2>3. row' \in [Ids -> RowType]
    BY <1>r, <1>4, <2>2 DEF Enqueue
  <2>4. artifact' \in [Ids -> FileType]
    BY <1>a, <1>4, FileConstants DEF Enqueue, FileType
  <2>5. spawned' \in [Ids -> Nat]
    BY <1>4 DEF Enqueue, Typed, TypeOK
  <2>. QED  BY <1>4, <2>3, <2>4, <2>5 DEF Typed, TypeOK, WellFormed, Enqueue
<1>5. ASSUME NEW c \in Clients, NEW id \in Ids, NEW op \in {"pause", "resume", "cancel", "clear"},
             Click(c, id, op)
      PROVE  Typed'
  <2>1. PICK k \in ConnIds \cup {NoConn} :
          client' = [client EXCEPT ![c] = [pc |-> op, id |-> id, conn |-> k]]
    BY <1>5 DEF Click, LiveConns
  <2>2. [pc |-> op, id |-> id, conn |-> k] \in ClientType
    BY DEF ClientType
  <2>3. client' \in [Clients -> ClientType]
    BY <1>c, <2>1, <2>2
  <2>4. \A d \in Clients : client'[d].pc # "idle" => client'[d].id \in Ids
    BY <1>c, <2>1 DEF Typed, WellFormed
  <2>. QED  BY <1>5, <2>3, <2>4 DEF Typed, TypeOK, WellFormed, Click, engine
<1>6. CASE ClearCompleted
  <2>1. row' \in [Ids -> RowType]
    BY <1>r, <1>6, RemovedType DEF ClearCompleted
  <2>. QED  BY <1>6, <2>1 DEF Typed, TypeOK, WellFormed, ClearCompleted, engine
<1>7. ASSUME NEW s \in Servers, Connect(s) PROVE Typed'
  <2>1. conns' \in [ConnIds -> Servers \cup {NoServer}] /\ nextConn' \in 0 .. MaxConns
    BY <1>7 DEF Connect, Typed, TypeOK, ConnIds
  <2>. QED  BY <1>7, <2>1 DEF Typed, TypeOK, WellFormed, Connect, engine
<1>8. ASSUME NEW k \in ConnIds, Disconnect(k) PROVE Typed'
  <2>1. conns' \in [ConnIds -> Servers \cup {NoServer}]
    BY <1>8 DEF Disconnect, Typed, TypeOK
  <2>. QED  BY <1>8, <2>1 DEF Typed, TypeOK, WellFormed, Disconnect, engine
<1>9. CASE Restart
  <2>1. \A id \in Ids : Recovered(id) \in RowType
    BY <1>r DEF Recovered, RowType, Status
  <2>2. row' \in [Ids -> RowType]
    BY <1>9, <2>1 DEF Restart
  <2>3. \A id \in Ids : FileLen(artifact[id]) > 0 =>
          SetLen(artifact[id], Len(artifact[id]) - 1) \in FileType
    BY <1>a, SetLenType DEF FileType, FileLen
  <2>4. artifact' \in [Ids -> FileType]
    BY <1>a, <1>9, <2>3 DEF Restart
  <2>5. TypeOK'
    BY <1>9, <2>2, <2>4, IdleTypes DEF Restart, Typed, TypeOK
  <2>6. WellFormed'
    BY <1>9 DEF Restart, WellFormed, IdleTask, IdleClient
  <2>. QED  BY <2>5, <2>6 DEF Typed
<1>. QED  BY <1>1, <1>2, <1>3, <1>4, <1>5, <1>6, <1>7, <1>8, <1>9

LEMMA TypedStep == Typed /\ [Next]_vars => Typed'
<1> SUFFICES ASSUME Typed, [Next]_vars PROVE Typed'
  OBVIOUS
<1>1. ASSUME NEW w \in Workers, WorkerStep(w) \/ Acquire(w) PROVE Typed'
  <2>1. TypeOK'
    BY <1>1, TypedWorker
  <2>2. \A v \in Workers : task'[v].pc # "idle" => task[v].pc # "idle" /\ task'[v].id = task[v].id
    <3>1. CASE Register(w) \/ Acquire(w) \/ Release(w) \/ Begin(w) \/ RecordOutcome(w)
      BY <3>1, RegisterMove, AcquireMove, ReleaseMove, BeginMove, RecordMove DEF Keeps
    <3>2. CASE DropControl(w)
      BY <3>2, DropMove
    <3>3. CASE ~(Register(w) \/ Acquire(w) \/ Release(w) \/ Begin(w) \/ RecordOutcome(w)
                 \/ DropControl(w))
      BY <1>1, <3>3, PlainStep DEF WorkerStep, Plain, Keeps, Holding
    <3>. QED  BY <3>1, <3>2, <3>3
  <2>3. UNCHANGED client
    BY <1>1 DEF WorkerStep, Register, Acquire, Release, DropControl, Begin, WakeUp, Cleanup,
       RecordOutcome, ClampOffset, OpenDownload, DownloadChunk, DownloadEnd, OpenUpload,
       UploadChunk, UploadEnd, Shutdown, Observe, OpenFails, StreamFails, ShutdownFails
  <2>. QED  BY <2>1, <2>2, <2>3 DEF Typed, WellFormed
<1>2. ASSUME NEW c \in Clients, CommandStep(c) PROVE Typed'
  BY <1>2, TypedCommand, CommandMove, CommandKeepsId DEF Typed, WellFormed, Quiet
<1>3. CASE UNCHANGED vars
  BY <1>3 DEF Typed, TypeOK, WellFormed, vars, engine
<1>. QED  BY <1>1, <1>2, <1>3, TypedOthers DEF Next

LEMMA TypedAlways == SafetySpec => []Typed
  BY TypedInit, TypedStep, PTL DEF SafetySpec

\* Every step of the program keeps every variable in its type: no worker ends
\* up with a transfer, a flag or a retry count the code has no name for.
THEOREM TypeCorrect == SafetySpec => []TypeOK
  BY TypedAlways, PTL DEF Typed

----------------------------------------------------------------------------
(* The pool. Of every step only this matters to its invariants: how it moves *)
(* workers between waiting for a permit, holding one, and neither.           *)

\* The transfers and the standing of the workers other than w do not change.
OthersStay(w) ==
  /\ \A v \in Workers : v # w => task'[v].id = task[v].id
  /\ Waiters' \ {w} = Waiters \ {w}
  /\ Holders' \ {w} = Holders \ {w}

Rests ==
  /\ \A v \in Workers : task'[v].id = task[v].id
  /\ Waiters' = Waiters /\ Holders' = Holders
  /\ UNCHANGED <<inflight, permits>>

Enters(w) ==
  /\ OthersStay(w)
  /\ w \notin Owners /\ w \in Waiters' /\ w \notin Holders'
  /\ task'[w].id \in Ids \ inflight
  /\ inflight' = inflight \cup {task'[w].id} /\ permits' = permits

Takes(w) ==
  /\ OthersStay(w) /\ task'[w].id = task[w].id
  /\ w \in Waiters /\ w \notin Holders /\ w \notin Waiters' /\ w \in Holders'
  /\ permits > 0 /\ permits' = permits - 1 /\ inflight' = inflight

Gives(w) ==
  /\ OthersStay(w) /\ task'[w].id = task[w].id
  /\ w \in Holders /\ w \notin Waiters /\ w \notin Owners'
  /\ permits' = permits + 1 /\ inflight' = inflight \ {task[w].id}

Forgets(w) ==
  /\ OthersStay(w)
  /\ w \notin Owners /\ w \notin Owners'
  /\ UNCHANGED <<inflight, permits>>

Empties == Waiters' = {} /\ Holders' = {} /\ inflight' = {} /\ permits' = MaxWorkers

LEMMA OwnersSplit == Owners = Waiters \cup Holders /\ Waiters \cap Holders = {}
  BY DEF Owners, Waiters, Holders, PrePermit, Holding

LEMMA KeepsOthers == \A w \in Workers : Keeps(w) => OthersStay(w)
  BY DEF Keeps, OthersStay, Waiters, Holders

LEMMA QuietRests == Quiet /\ UNCHANGED <<inflight, permits>> => Rests
  BY DEF Quiet, Rests, Waiters, Holders

LEMMA InsideRests ==
  ASSUME NEW w \in Workers, Keeps(w), UNCHANGED <<inflight, permits>>,
         \/ task[w].pc \in PrePermit /\ task'[w].pc \in PrePermit
         \/ task[w].pc \in Holding /\ task'[w].pc \in Holding
  PROVE  Rests
<1>1. task[w].pc \in PrePermit <=> task'[w].pc \in PrePermit
  BY DEF PrePermit, Holding
<1>2. task[w].pc \in Holding <=> task'[w].pc \in Holding
  BY DEF PrePermit, Holding
<1>. QED  BY <1>1, <1>2 DEF Rests, Keeps, Waiters, Holders

LEMMA PoolMove ==
  ASSUME Typed, [Next]_vars
  PROVE  \/ Rests
         \/ \E w \in Workers : Enters(w) \/ Takes(w) \/ Gives(w) \/ Forgets(w)
         \/ Empties
<1>1. ASSUME NEW id \in Ids, Claim(id) PROVE \E w \in Workers : Enters(w)
  <2>1. PICK w \in Workers :
          /\ task[w].pc = "idle" /\ task'[w].pc = "claimed" /\ task'[w].id = id
          /\ task' = [task EXCEPT ![w] = task'[w]]
          /\ id \notin inflight /\ inflight' = inflight \cup {id}
          /\ permits' = permits
    BY <1>1, ClaimMove
  <2>2. \A v \in Workers : v # w => task'[v] = task[v]
    BY <2>1 DEF Typed, TypeOK
  <2>3. OthersStay(w)
    BY <2>2 DEF OthersStay, Waiters, Holders
  <2>4. w \notin Owners /\ w \in Waiters' /\ w \notin Holders'
    BY <2>1 DEF Owners, Waiters, Holders, PrePermit, Holding
  <2>. QED  BY <2>1, <2>3, <2>4 DEF Enters
<1>2. ASSUME NEW w \in Workers, Acquire(w) PROVE Takes(w)
  BY <1>2, AcquireMove, KeepsOthers DEF Takes, Keeps, Waiters, Holders, PrePermit, Holding
<1>3. ASSUME NEW w \in Workers, Release(w) PROVE Gives(w)
  BY <1>3, ReleaseMove, KeepsOthers DEF Gives, Keeps, Owners, Waiters, Holders, PrePermit, Holding
<1>4. ASSUME NEW w \in Workers, DropControl(w) PROVE Forgets(w)
  <2>1. OthersStay(w)
    BY <1>4, DropMove DEF OthersStay, Waiters, Holders
  <2>. QED  BY <1>4, <2>1, DropMove DEF Forgets, Owners, PrePermit, Holding
<1>5. ASSUME NEW w \in Workers, Register(w) PROVE Rests
  BY <1>5, RegisterMove, InsideRests DEF PrePermit
<1>6. ASSUME NEW w \in Workers, Begin(w) \/ RecordOutcome(w) PROVE Rests
  BY <1>6, BeginMove, RecordMove, InsideRests DEF Holding
<1>7. ASSUME NEW w \in Workers, WorkerStep(w),
             ~(Register(w) \/ Release(w) \/ DropControl(w) \/ Begin(w) \/ RecordOutcome(w))
      PROVE  Rests
  <2>1. Plain(w)
    BY <1>7, PlainStep DEF WorkerStep
  <2>. QED  BY <2>1, InsideRests DEF Plain
<1>8. ASSUME NEW c \in Clients, CommandStep(c) PROVE Rests
  BY <1>8, CommandMove, QuietRests
<1>9. CASE Restart
  BY <1>9 DEF Restart, Empties, IdleTask, Waiters, Holders, PrePermit, Holding
<1>10. ASSUME UNCHANGED <<task, inflight, permits>> PROVE Rests
  BY <1>10 DEF Rests, Waiters, Holders
<1>11. CASE UNCHANGED vars
  BY <1>10, <1>11 DEF vars, engine
<1>12. CASE \E id \in Ids : Redundant(id) \/ Tamper(id)
  BY <1>10, <1>12 DEF Redundant, Tamper, engine
<1>13. CASE \E id \in Ids, dir \in {"down", "up"}, k \in LiveConns, before \in {NoFile, OldFile} :
              Enqueue(id, dir, k, before)
  BY <1>10, <1>13 DEF Enqueue
<1>14. CASE \E c \in Clients, id \in Ids, op \in {"pause", "resume", "cancel", "clear"} :
              Click(c, id, op)
  BY <1>10, <1>14 DEF Click, engine
<1>15. CASE ClearCompleted \/ (\E s \in Servers : Connect(s)) \/ (\E k \in ConnIds : Disconnect(k))
  BY <1>10, <1>15 DEF ClearCompleted, Connect, Disconnect, engine
<1>. QED
  BY <1>1, <1>2, <1>3, <1>4, <1>5, <1>6, <1>7, <1>8, <1>9, <1>11, <1>12, <1>13, <1>14, <1>15
  DEF Next

\* The two guarantees of the in-flight guard are inductive only together: a
\* second worker is kept out because the slot of the first is still taken.
GuardInv == OneWorkerPerTransfer /\ InflightIsExact

LEMMA GuardInit == Init => GuardInv
  BY DEF Init, GuardInv, OneWorkerPerTransfer, InflightIsExact, Owners, IdleTask, PrePermit, Holding

LEMMA GuardStep == Typed /\ GuardInv /\ [Next]_vars => GuardInv'
<1> SUFFICES ASSUME Typed, GuardInv, [Next]_vars PROVE GuardInv'
  OBVIOUS
<1>o. Owners = Waiters \cup Holders /\ Owners' = Waiters' \cup Holders'
  BY DEF Owners, Waiters, Holders
<1>s. Owners \subseteq Workers /\ Owners' \subseteq Workers
  BY DEF Owners
<1>1. CASE Rests
  <2>1. Owners' = Owners
    BY <1>o, <1>1 DEF Rests
  <2>. QED  BY <1>1, <1>s, <2>1 DEF Rests, GuardInv, OneWorkerPerTransfer, InflightIsExact
<1>2. ASSUME NEW w \in Workers, Enters(w) PROVE GuardInv'
  <2>1. Owners' = Owners \cup {w} /\ w \notin Owners
    BY <1>o, <1>2 DEF Enters, OthersStay
  <2>2. \A v \in Owners : task'[v].id = task[v].id /\ task[v].id # task'[w].id
    BY <1>2, <1>s, <2>1 DEF Enters, OthersStay, GuardInv, InflightIsExact
  <2>3. OneWorkerPerTransfer'
    BY <1>s, <2>1, <2>2 DEF GuardInv, OneWorkerPerTransfer
  <2>4. InflightIsExact'
    BY <1>2, <2>1, <2>2 DEF Enters, GuardInv, InflightIsExact
  <2>. QED  BY <2>3, <2>4 DEF GuardInv
<1>3. ASSUME NEW w \in Workers, Takes(w) PROVE GuardInv'
  <2>1. Owners' = Owners
    BY <1>o, <1>3 DEF Takes, OthersStay
  <2>2. \A v \in Owners : task'[v].id = task[v].id
    BY <1>3, <1>s DEF Takes, OthersStay
  <2>. QED  BY <1>3, <2>1, <2>2 DEF Takes, GuardInv, OneWorkerPerTransfer, InflightIsExact
<1>4. ASSUME NEW w \in Workers, Gives(w) PROVE GuardInv'
  <2>1. Owners' = Owners \ {w} /\ w \in Owners
    BY <1>o, <1>4 DEF Gives, OthersStay
  <2>2. \A v \in Owners' : task'[v].id = task[v].id /\ task[v].id # task[w].id
    BY <1>4, <1>s, <2>1 DEF Gives, OthersStay, GuardInv, OneWorkerPerTransfer
  <2>3. OneWorkerPerTransfer'
    BY <2>1, <2>2 DEF GuardInv, OneWorkerPerTransfer
  <2>4. InflightIsExact'
    BY <1>4, <2>1, <2>2 DEF Gives, GuardInv, InflightIsExact
  <2>. QED  BY <2>3, <2>4 DEF GuardInv
<1>5. ASSUME NEW w \in Workers, Forgets(w) PROVE GuardInv'
  <2>1. Owners' = Owners
    BY <1>o, <1>5 DEF Forgets, OthersStay
  <2>2. \A v \in Owners : task'[v].id = task[v].id
    BY <1>5, <1>s DEF Forgets, OthersStay
  <2>. QED  BY <1>5, <2>1, <2>2 DEF Forgets, GuardInv, OneWorkerPerTransfer, InflightIsExact
<1>6. CASE Empties
  BY <1>o, <1>6 DEF Empties, GuardInv, OneWorkerPerTransfer, InflightIsExact
<1>. QED  BY <1>1, <1>2, <1>3, <1>4, <1>5, <1>6, PoolMove

LEMMA GuardAlways == SafetySpec => []GuardInv
  BY TypedAlways, GuardInit, GuardStep, PTL DEF SafetySpec

\* InflightGuard keeps its promise for any number of workers, transfers and
\* commands: no file is ever written by two streams of one transfer.
THEOREM NoTwoWorkers == SafetySpec => []OneWorkerPerTransfer
  BY GuardAlways, PTL DEF GuardInv

\* The guard's Drop runs on every way out: the in-flight set names exactly the
\* transfers a worker has in hand, so that a resume is refused only for those.
THEOREM InflightExact == SafetySpec => []InflightIsExact
  BY GuardAlways, PTL DEF GuardInv

LEMMA PermitsInit == Init => PermitsConserved
<1> SUFFICES ASSUME Init PROVE PermitsConserved
  OBVIOUS
<1>1. Holders = {}
  BY DEF Init, Holders, IdleTask, Holding
<1>. QED  BY <1>1, FS_EmptySet DEF Init, PermitsConserved

LEMMA PermitsStep == Typed /\ PermitsConserved /\ [Next]_vars => PermitsConserved'
<1> SUFFICES ASSUME Typed, PermitsConserved, [Next]_vars PROVE PermitsConserved'
  OBVIOUS
<1>f. IsFiniteSet(Holders) /\ Cardinality(Holders) \in Nat /\ permits \in Nat
      /\ permits + Cardinality(Holders) = MaxWorkers
  BY FS_CardinalityType DEF PermitsConserved, Typed, TypeOK
<1>1. CASE Rests
  BY <1>1 DEF Rests, PermitsConserved
<1>2. ASSUME NEW w \in Workers, Enters(w) PROVE PermitsConserved'
  <2>1. Holders' = Holders
    BY <1>2, OwnersSplit DEF Enters, OthersStay
  <2>. QED  BY <1>2, <2>1 DEF Enters, PermitsConserved
<1>3. ASSUME NEW w \in Workers, Takes(w) PROVE PermitsConserved'
  <2>1. Holders' = Holders \cup {w} /\ w \notin Holders /\ permits' = permits - 1
    BY <1>3 DEF Takes, OthersStay
  <2>2. IsFiniteSet(Holders') /\ Cardinality(Holders') = Cardinality(Holders) + 1
    BY <1>f, <2>1, FS_AddElement
  <2>. QED  BY <1>f, <2>1, <2>2 DEF PermitsConserved
<1>4. ASSUME NEW w \in Workers, Gives(w) PROVE PermitsConserved'
  <2>1. Holders' = Holders \ {w} /\ w \in Holders /\ permits' = permits + 1
    BY <1>4 DEF Gives, OthersStay, Owners, Holders
  <2>2. IsFiniteSet(Holders') /\ Cardinality(Holders') = Cardinality(Holders) - 1
    BY <1>f, <2>1, FS_RemoveElement
  <2>. QED  BY <1>f, <2>1, <2>2 DEF PermitsConserved
<1>5. ASSUME NEW w \in Workers, Forgets(w) PROVE PermitsConserved'
  <2>1. Holders' = Holders
    BY <1>5 DEF Forgets, OthersStay, Owners, Holders
  <2>. QED  BY <1>5, <2>1 DEF Forgets, PermitsConserved
<1>6. CASE Empties
  BY <1>6, FS_EmptySet DEF Empties, PermitsConserved
<1>. QED  BY <1>1, <1>2, <1>3, <1>4, <1>5, <1>6, PoolMove

\* At most max_workers transfers stream, back off or clean up, and no way out
\* of a worker leaks a permit or returns one twice: the count is exact always.
THEOREM PermitsExact == SafetySpec => []PermitsConserved
  BY TypedAlways, PermitsInit, PermitsStep, PTL DEF SafetySpec

----------------------------------------------------------------------------
(* No orphaned rows *)

Active == {"queued", "running"}

\* What makes ActiveRowIsAttended inductive: nothing runs for a row that was
\* never created, and a worker on its way out has left its row settled.
Attended ==
  /\ \A id \in Ids : row[id].st = "none" => spawned[id] = 0 /\ \A w \in Owners : task[w].id # id
  /\ \A w \in Owners : task[w].pc = "exiting" => row[task[w].id].st \notin Active
  /\ ActiveRowIsAttended

\* A step that neither ends a worker's transfer, nor sets a row moving, nor
\* takes a task away that was still to be polled.
SameOwners ==
  /\ Owners' = Owners
  /\ \A w \in Owners : /\ task'[w].id = task[w].id
                       /\ task'[w].pc = "exiting" <=> task[w].pc = "exiting"
Calm ==
  \A id \in Ids : row'[id].st # row[id].st =>
    row[id].st # "none" /\ row'[id].st \notin Active \cup {"none"}
SpawnsKnown ==
  \A id \in Ids : /\ spawned[id] > 0 => spawned'[id] > 0
                  /\ row[id].st = "none" /\ spawned[id] = 0 => spawned'[id] = 0

LEMMA CalmStep ==
  ASSUME Typed, Attended, SameOwners, Calm, SpawnsKnown PROVE Attended'
<1>1. \A w \in Owners : w \in Workers /\ task[w].id \in Ids
  BY DEF Typed, WellFormed, Owners, PrePermit, Holding
<1>2. ASSUME NEW id \in Ids, row'[id].st = "none"
      PROVE  spawned'[id] = 0 /\ \A w \in Owners' : task'[w].id # id
  BY <1>2 DEF Attended, SameOwners, Calm, SpawnsKnown
<1>3. ASSUME NEW w \in Owners', task'[w].pc = "exiting" PROVE row'[task'[w].id].st \notin Active
  BY <1>1, <1>3 DEF Attended, SameOwners, Calm
<1>4. ASSUME NEW id \in Ids, row'[id].st \in Active
      PROVE  spawned'[id] > 0 \/ \E w \in Owners' : task'[w].id = id /\ task'[w].pc # "exiting"
  <2>1. row[id].st \in Active
    BY <1>4 DEF Calm
  <2>2. spawned[id] > 0 \/ \E w \in Owners : task[w].id = id /\ task[w].pc # "exiting"
    BY <2>1 DEF Attended, ActiveRowIsAttended, OwnersOf, Active
  <2>. QED  BY <2>2 DEF SameOwners, SpawnsKnown
<1>. QED  BY <1>2, <1>3, <1>4 DEF Attended, ActiveRowIsAttended, OwnersOf, Active

LEMMA AttendedInit == Init => Attended
  BY DEF Init, Attended, ActiveRowIsAttended, Owners, NoRow, IdleTask, PrePermit, Holding, Active

\* The commands, the panel, the connections and a streaming worker are calm.
LEMMA CalmRows ==
  ASSUME Typed,
         \/ \E c \in Clients : CommandStep(c)
         \/ ClearCompleted
  PROVE  Calm /\ SpawnsKnown
<1>r. row \in [Ids -> RowType]
  BY DEF Typed, TypeOK
<1>s. spawned \in [Ids -> Nat]
  BY DEF Typed, TypeOK
<1>1. UNCHANGED row => Calm
  BY DEF Calm
<1>2. UNCHANGED spawned => SpawnsKnown
  BY DEF SpawnsKnown
<1>3. ASSUME NEW id \in Ids, NEW s \in Status \ Active, row' = SetStatus(id, s) PROVE Calm
  BY <1>r, <1>3, SetStatusStatus DEF Calm, Status, Active
<1>4. ASSUME NEW c \in Clients, CommandStep(c) PROVE Calm /\ SpawnsKnown
  <2>1. client[c].pc # "idle" => client[c].id \in Ids
    BY DEF Typed, WellFormed
  <2>2. CASE PauseSignal(c) \/ ResumeCheck(c) \/ CancelSignal(c) \/ CancelClean(c)
    BY <1>1, <1>2, <2>2 DEF PauseSignal, ResumeCheck, CancelSignal, CancelClean, engine
  <2>3. CASE PauseMark(c) \/ CancelMark(c)
    BY <1>2, <1>3, <2>1, <2>3 DEF PauseMark, CancelMark, engine, Status, Active
  <2>4. CASE ResumeGo(c)
    <3>1. \A id \in Ids : row'[id].st = row[id].st
      BY <1>r, <2>1, <2>4 DEF ResumeGo, RowType
    <3>2. SpawnsKnown
      BY <1>s, <2>1, <2>4 DEF ResumeGo, SpawnsKnown, Present, Status
    <3>. QED  BY <3>1, <3>2 DEF Calm
  <2>5. CASE ClearOne(c)
    <3>1. row' = IF Present(client[c].id)
                   THEN [row EXCEPT ![client[c].id] = Removed(client[c].id)] ELSE row
      BY <2>5 DEF ClearOne
    <3>2. \/ row[client[c].id].st # "none" /\ Removed(client[c].id).st = "cleared"
          \/ ~Present(client[c].id)
      BY <1>r, <2>1, <2>5 DEF ClearOne, Present, Status, Removed, RowType
    <3>3. Calm
      BY <1>r, <2>1, <2>5, <3>1, <3>2 DEF Calm, Active, ClearOne
    <3>. QED  BY <1>2, <2>5, <3>3 DEF ClearOne, engine
  <2>. QED  BY <1>4, <2>2, <2>3, <2>4, <2>5 DEF CommandStep
<1>5. CASE ClearCompleted
  <2>1. \A id \in Ids : Removed(id).st = "cleared"
    BY <1>r DEF Removed, RowType
  <2>. QED  BY <1>2, <1>5, <2>1 DEF ClearCompleted, Calm, engine, Active, Terminal
<1>. QED  BY <1>4, <1>5

LEMMA AttendedStep == Typed /\ GuardInv /\ Attended /\ [Next]_vars => Attended'
<1> SUFFICES ASSUME Typed, GuardInv, Attended, [Next]_vars PROVE Attended'
  OBVIOUS
<1>r. row \in [Ids -> RowType]
  BY DEF Typed, TypeOK
<1>s. spawned \in [Ids -> Nat]
  BY DEF Typed, TypeOK
<1>i. \A w \in Owners : w \in Workers /\ task[w].id \in Ids
  BY DEF Typed, WellFormed, Owners, PrePermit, Holding
<1>q. Quiet => SameOwners
  BY DEF Quiet, SameOwners, Owners
<1>1. ASSUME UNCHANGED <<row, spawned, task>> PROVE Attended'
  BY <1>1, <1>q, CalmStep DEF Quiet, Calm, SpawnsKnown
<1>2. CASE \/ UNCHANGED vars
           \/ \E id \in Ids : Tamper(id)
           \/ \E c \in Clients, id \in Ids, op \in {"pause", "resume", "cancel", "clear"} :
                Click(c, id, op)
           \/ \E s \in Servers : Connect(s)
           \/ \E k \in ConnIds : Disconnect(k)
  BY <1>1, <1>2 DEF vars, engine, Tamper, Click, Connect, Disconnect
<1>3. CASE (\E c \in Clients : CommandStep(c)) \/ ClearCompleted
  <2>1. Quiet
    BY <1>3, CommandMove DEF ClearCompleted, engine, Quiet
  <2>. QED  BY <1>3, <1>q, <2>1, CalmRows, CalmStep
<1>4. ASSUME NEW w \in Workers, Plain(w) PROVE Attended'
  <2>1. SameOwners
    BY <1>4 DEF Plain, Keeps, SameOwners, Owners
  <2>. QED  BY <1>4, <2>1, CalmStep DEF Plain, KeepsStatus, Calm, SpawnsKnown
<1>5. ASSUME NEW w \in Workers, Acquire(w) PROVE Attended'
  <2>1. SameOwners
    BY <1>5, AcquireMove DEF Keeps, SameOwners, Owners, PrePermit, Holding
  <2>. QED  BY <1>5, <2>1, AcquireMove, CalmStep DEF Calm, SpawnsKnown
<1>6. ASSUME NEW w \in Workers, DropControl(w) PROVE Attended'
  <2>1. SameOwners
    BY <1>6, DropMove DEF SameOwners, Owners, PrePermit, Holding
  <2>. QED  BY <1>6, <2>1, DropMove, CalmStep DEF Calm, SpawnsKnown
<1>7. ASSUME NEW w \in Workers, Release(w) PROVE Attended'
  <2>1. w \in Owners /\ Owners' = Owners \ {w} /\ task[w].pc = "exiting"
        /\ \A v \in Owners' : task'[v].id = task[v].id /\ task'[v].pc = task[v].pc
    BY <1>7, ReleaseMove DEF Keeps, Owners, PrePermit, Holding
  <2>2. UNCHANGED <<row, spawned>>
    BY <1>7, ReleaseMove
  <2>3. row[task[w].id].st \notin Active
    BY <2>1 DEF Attended
  <2>4. ASSUME NEW id \in Ids, row[id].st \in Active
        PROVE  spawned[id] > 0 \/ \E v \in Owners' : task'[v].id = id /\ task'[v].pc # "exiting"
    BY <2>1, <2>3, <2>4 DEF Attended, ActiveRowIsAttended, OwnersOf, Active
  <2>. QED  BY <2>1, <2>2, <2>4 DEF Attended, ActiveRowIsAttended, OwnersOf, Active
<1>8. ASSUME NEW w \in Workers, Keeps(w), w \in Owners, w \in Owners', UNCHANGED spawned,
             NEW s \in Status, row' = SetStatus(task[w].id, s),
             task[w].pc # "exiting",
             task'[w].pc = "exiting" => s \notin Active
      PROVE  Attended'
  <2>1. Owners' = Owners /\ \A v \in Owners : task'[v].id = task[v].id
                                              /\ (v # w => task'[v].pc = task[v].pc)
    BY <1>8 DEF Keeps, Owners
  <2>2. \A id \in Ids : row'[id].st = IF id = task[w].id /\ row[id].st \in Status
                                        THEN s ELSE row[id].st
    BY <1>8, <1>i, <1>r, SetStatusStatus
  <2>3. \A v \in Owners : v # w => task[v].id # task[w].id
    BY <1>8 DEF GuardInv, OneWorkerPerTransfer
  <2>4. ASSUME NEW v \in Owners, task'[v].pc = "exiting" PROVE row'[task'[v].id].st \notin Active
    BY <1>8, <1>i, <2>1, <2>2, <2>3, <2>4 DEF Attended, Status, Active
  <2>5. ASSUME NEW id \in Ids, row'[id].st = "none"
        PROVE  spawned'[id] = 0 /\ \A v \in Owners' : task'[v].id # id
    BY <1>8, <2>1, <2>2, <2>5 DEF Attended, Status
  <2>6. ASSUME NEW id \in Ids, row'[id].st \in Active
        PROVE  spawned'[id] > 0 \/ \E v \in Owners' : task'[v].id = id /\ task'[v].pc # "exiting"
    <3>1. CASE id = task[w].id
      <4>1. task'[w].pc # "exiting"
        BY <1>8, <2>1, <2>4, <2>6, <3>1
      <4>. QED  BY <1>8, <2>1, <3>1, <4>1
    <3>2. CASE id # task[w].id
      <4>1. row[id].st \in Active
        BY <2>2, <2>6, <3>2
      <4>2. spawned[id] > 0 \/ \E v \in Owners : task[v].id = id /\ task[v].pc # "exiting"
        BY <4>1 DEF Attended, ActiveRowIsAttended, OwnersOf, Active
      <4>. QED  BY <1>8, <2>1, <3>2, <4>2
    <3>. QED  BY <3>1, <3>2
  <2>. QED  BY <2>1, <2>4, <2>5, <2>6 DEF Attended, ActiveRowIsAttended, OwnersOf, Active
<1>9. ASSUME NEW w \in Workers, Register(w) PROVE Attended'
  <2>1. row' = SetStatus(task[w].id, "queued")
    BY <1>9 DEF Register
  <2>2. w \in Owners /\ w \in Owners'
    BY <1>9, RegisterMove DEF Owners, PrePermit
  <2>. QED  BY <1>8, <1>9, <2>1, <2>2, RegisterMove DEF Status
<1>10. ASSUME NEW w \in Workers, RecordOutcome(w) PROVE Attended'
  <2>1. w \in Owners /\ w \in Owners'
    BY <1>10, RecordMove DEF Owners, Holding
  <2>2. task[w].pc \in Status \ Active /\ task[w].pc # "exiting"
    BY <1>10, RecordMove DEF Status, Active
  <2>. QED  BY <1>8, <1>10, <2>1, <2>2, RecordMove
<1>11. ASSUME NEW w \in Workers, Begin(w) PROVE Attended'
  <2>1. w \in Owners /\ w \in Owners' /\ Keeps(w) /\ UNCHANGED spawned /\ task[w].pc = "ready"
    BY <1>11, BeginMove DEF Owners, Holding
  <2>2. task \in [Workers -> TaskType]
    BY DEF Typed, TypeOK
  <2>3. CASE ~Present(task[w].id)
    <3>1. row' = SetStatus(task[w].id, "paused")
      BY <1>11, <1>i, <1>r, <2>1, <2>3 DEF Begin, SetStatus, RowType
    <3>. QED  BY <1>8, <2>1, <3>1 DEF Status, Active
  <2>4. CASE Present(task[w].id) /\ Resolve(row[task[w].id].conn) = NoServer
    <3>1. row' = SetStatus(task[w].id, "paused")
      BY <1>11, <2>4 DEF Begin
    <3>. QED  BY <1>8, <2>1, <3>1 DEF Status, Active
  <2>5. CASE Present(task[w].id) /\ Resolve(row[task[w].id].conn) # NoServer
    <3>1. row' = SetStatus(task[w].id, "running") /\ task'[w].pc = "opening"
      BY <1>11, <2>2, <2>5 DEF Begin, TaskType
    <3>. QED  BY <1>8, <2>1, <3>1 DEF Status, Active
  <2>. QED  BY <2>3, <2>4, <2>5
<1>12. ASSUME NEW id \in Ids, Claim(id) PROVE Attended'
  <2>1. PICK w \in Workers :
          /\ task[w].pc = "idle" /\ task'[w].pc = "claimed" /\ task'[w].id = id
          /\ task' = [task EXCEPT ![w] = task'[w]]
          /\ spawned[id] > 0 /\ spawned' = [spawned EXCEPT ![id] = @ - 1]
          /\ UNCHANGED row
    BY <1>12, ClaimMove
  <2>2. \A v \in Workers : v # w => task'[v] = task[v]
    BY <2>1 DEF Typed, TypeOK
  <2>3. Owners' = Owners \cup {w} /\ w \notin Owners
    BY <2>1, <2>2 DEF Owners, PrePermit, Holding
  <2>4. \A i \in Ids : i # id => spawned'[i] = spawned[i]
    BY <1>s, <2>1
  <2>5. row[id].st # "none"
    BY <2>1 DEF Attended
  <2>6. \A v \in Owners : task'[v] = task[v]
    BY <1>i, <2>2, <2>3
  <2>7. ASSUME NEW i \in Ids, row[i].st \in Active
        PROVE  spawned'[i] > 0 \/ \E v \in Owners' : task'[v].id = i /\ task'[v].pc # "exiting"
    <3>1. CASE i = id
      BY <2>1, <2>3, <3>1
    <3>2. CASE i # id
      BY <2>3, <2>4, <2>6, <2>7, <3>2 DEF Attended, ActiveRowIsAttended, OwnersOf, Active
    <3>. QED  BY <3>1, <3>2
  <2>8. ASSUME NEW i \in Ids, row[i].st = "none"
        PROVE  spawned'[i] = 0 /\ \A v \in Owners' : task'[v].id # i
    BY <2>1, <2>3, <2>4, <2>5, <2>6, <2>8 DEF Attended
  <2>9. \A v \in Owners' : task'[v].pc = "exiting" => row[task'[v].id].st \notin Active
    BY <2>1, <2>3, <2>6 DEF Attended
  <2>. QED  BY <2>1, <2>7, <2>8, <2>9 DEF Attended, ActiveRowIsAttended, OwnersOf, Active
<1>13. ASSUME NEW id \in Ids, Redundant(id) PROVE Attended'
  <2>1. id \in inflight /\ spawned[id] > 0 /\ spawned' = [spawned EXCEPT ![id] = @ - 1]
        /\ UNCHANGED <<row, task>>
    BY <1>13 DEF Redundant
  <2>2. PICK w \in Owners : task[w].id = id
    BY <2>1 DEF GuardInv, InflightIsExact
  <2>3. Owners' = Owners
    BY <2>1 DEF Owners
  <2>4. \A i \in Ids : i # id => spawned'[i] = spawned[i]
    BY <1>s, <2>1
  <2>5. ASSUME NEW i \in Ids, row[i].st \in Active
        PROVE  spawned'[i] > 0 \/ \E v \in Owners : task[v].id = i /\ task[v].pc # "exiting"
    <3>1. CASE i = id
      BY <2>2, <2>5, <3>1 DEF Attended
    <3>2. CASE i # id
      BY <2>4, <2>5, <3>2 DEF Attended, ActiveRowIsAttended, OwnersOf, Active
    <3>. QED  BY <3>1, <3>2
  <2>6. \A i \in Ids : row[i].st = "none" => spawned'[i] = 0
    BY <2>1, <2>4 DEF Attended
  <2>. QED  BY <2>1, <2>3, <2>5, <2>6 DEF Attended, ActiveRowIsAttended, OwnersOf, Active
<1>14. ASSUME NEW id \in Ids, NEW dir \in {"down", "up"}, NEW k \in LiveConns,
              NEW before \in {NoFile, OldFile}, Enqueue(id, dir, k, before)
       PROVE  Attended'
  <2>1. row[id].st = "none" /\ UNCHANGED task /\ spawned' = [spawned EXCEPT ![id] = @ + 1]
    BY <1>14 DEF Enqueue
  <2>2. row'[id].st = "queued" /\ \A i \in Ids : i # id => row'[i] = row[i]
    BY <1>14, <1>r DEF Enqueue
  <2>3. spawned'[id] > 0 /\ \A i \in Ids : i # id => spawned'[i] = spawned[i]
    BY <1>s, <2>1
  <2>4. Owners' = Owners /\ \A w \in Owners : task[w].id # id
    BY <2>1 DEF Owners, Attended
  <2>5. ASSUME NEW i \in Ids, row'[i].st \in Active
        PROVE  spawned'[i] > 0 \/ \E v \in Owners : task[v].id = i /\ task[v].pc # "exiting"
    BY <2>2, <2>3, <2>5 DEF Attended, ActiveRowIsAttended, OwnersOf, Active
  <2>6. \A w \in Owners : task[w].pc = "exiting" => row'[task[w].id].st \notin Active
    BY <1>i, <2>2, <2>4 DEF Attended
  <2>7. \A i \in Ids : row'[i].st = "none" => spawned'[i] = 0 /\ \A w \in Owners : task[w].id # i
    BY <2>2, <2>3 DEF Attended
  <2>. QED  BY <2>1, <2>4, <2>5, <2>6, <2>7 DEF Attended, ActiveRowIsAttended, OwnersOf, Active
<1>15. CASE Restart
  <2>1. Owners' = {} /\ spawned' = [id \in Ids |-> 0] /\ row' = [id \in Ids |-> Recovered(id)]
    BY <1>15 DEF Restart, Owners, IdleTask, PrePermit, Holding
  <2>2. \A id \in Ids : Recovered(id).st \notin Active
    BY <1>r DEF Recovered, RowType, Active
  <2>. QED  BY <2>1, <2>2 DEF Attended, ActiveRowIsAttended, Active
<1>16. ASSUME NEW w \in Workers, WorkerStep(w) PROVE Attended'
  BY <1>4, <1>6, <1>7, <1>9, <1>10, <1>11, <1>16, PlainStep DEF WorkerStep
<1>. QED
  BY <1>2, <1>3, <1>5, <1>12, <1>13, <1>14, <1>15, <1>16 DEF Next

LEMMA AttendedAlways == SafetySpec => []Attended
  BY TypedAlways, GuardAlways, AttendedInit, AttendedStep, PTL DEF SafetySpec

\* A row that says it is queued or running is never orphaned, whatever the order
\* of commands, redundant resumes, exits of workers and restarts.
THEOREM NoOrphanedRow == SafetySpec => []ActiveRowIsAttended
  BY AttendedAlways, PTL DEF Attended

----------------------------------------------------------------------------
(* The workers implement the bounded pool of TransferPool *)

waitingIds == {task[w].id : w \in Waiters}
activeIds == {task[w].id : w \in Holders}

LEMMA PoolInit == Init => Pool!Init
  BY DEF Init, Pool!Init, Waiters, Holders, IdleTask, PrePermit, Holding

LEMMA FewerActive ==
  ASSUME PermitsConserved, Typed, permits > 0
  PROVE  Cardinality(activeIds) < MaxWorkers
<1>1. IsFiniteSet(Holders) /\ permits + Cardinality(Holders) = MaxWorkers
  BY DEF PermitsConserved
<1>2. IsFiniteSet(activeIds) /\ Cardinality(activeIds) <= Cardinality(Holders)
  <2>1. [w \in Holders |-> task[w].id] \in Surjection(Holders, activeIds)
    BY DEF Surjection, activeIds
  <2>. QED  BY <1>1, <2>1, FS_Surjection
<1>3. Cardinality(activeIds) \in Nat /\ Cardinality(Holders) \in Nat /\ permits \in Nat
  BY <1>1, <1>2, FS_CardinalityType DEF Typed, TypeOK
<1>. QED  BY <1>1, <1>2, <1>3

LEMMA PoolStep ==
  ASSUME Typed, GuardInv, PermitsConserved, [Next]_vars
  PROVE  [Pool!Next]_(Pool!poolVars)
<1>o. Owners = Waiters \cup Holders
  BY OwnersSplit
<1>w. Waiters \subseteq Workers /\ Holders \subseteq Workers
      /\ Waiters' \subseteq Workers /\ Holders' \subseteq Workers
  BY DEF Waiters, Holders
<1>i. \A w \in Owners : task[w].id \in Ids
  BY DEF Typed, WellFormed, Owners, PrePermit, Holding
<1>u. \A v, w \in Owners : task[v].id = task[w].id => v = w
  BY DEF GuardInv, OneWorkerPerTransfer
<1>x. inflight = waitingIds \cup activeIds
  BY <1>o DEF GuardInv, InflightIsExact, waitingIds, activeIds
<1>1. ASSUME waitingIds' = waitingIds, activeIds' = activeIds PROVE UNCHANGED Pool!poolVars
  BY <1>1 DEF Pool!poolVars, waitingIds, activeIds
<1>2. CASE Rests
  <2>1. waitingIds' = waitingIds /\ activeIds' = activeIds
    BY <1>2, <1>w DEF Rests, waitingIds, activeIds
  <2>. QED  BY <1>1, <2>1
<1>3. ASSUME NEW w \in Workers, Enters(w) PROVE \E id \in Ids : Pool!Admit(id)
  <2>1. Waiters' = Waiters \cup {w} /\ Holders' = Holders /\ w \notin Waiters /\ w \notin Holders
    BY <1>3, <1>o DEF Enters, OthersStay
  <2>2. waitingIds' = waitingIds \cup {task'[w].id} /\ activeIds' = activeIds
    BY <1>3, <1>w, <2>1 DEF Enters, OthersStay, waitingIds, activeIds
  <2>3. task'[w].id \in Ids /\ task'[w].id \notin waitingIds \cup activeIds
    BY <1>3, <1>x DEF Enters
  <2>. QED  BY <2>2, <2>3 DEF Pool!Admit, waitingIds, activeIds
<1>4. ASSUME NEW w \in Workers, Takes(w) PROVE \E id \in Ids : Pool!Serve(id)
  <2>1. Waiters' = Waiters \ {w} /\ Holders' = Holders \cup {w} /\ w \in Waiters /\ w \notin Holders
    BY <1>4 DEF Takes, OthersStay
  <2>2. waitingIds' = waitingIds \ {task[w].id}
    BY <1>4, <1>w, <1>o, <1>u, <2>1 DEF Takes, OthersStay, waitingIds
  <2>3. activeIds' = activeIds \cup {task[w].id}
    BY <1>4, <1>w, <2>1 DEF Takes, OthersStay, activeIds
  <2>4. task[w].id \in waitingIds /\ task[w].id \in Ids
    BY <1>i, <1>o, <2>1 DEF waitingIds
  <2>5. Cardinality(activeIds) < MaxWorkers
    BY <1>4, FewerActive DEF Takes
  <2>6. Pool!Cardinality(activeIds) = Cardinality(activeIds)
    BY DEF Pool!Cardinality, Cardinality
  <2>. QED  BY <2>2, <2>3, <2>4, <2>5, <2>6 DEF Pool!Serve, waitingIds, activeIds
<1>5. ASSUME NEW w \in Workers, Gives(w) PROVE \E id \in Ids : Pool!Finish(id)
  <2>1. Waiters' = Waiters /\ Holders' = Holders \ {w} /\ w \in Holders /\ w \notin Waiters
    BY <1>5 DEF Gives, OthersStay, Owners, Waiters, Holders
  <2>2. waitingIds' = waitingIds
    BY <1>5, <1>w, <2>1 DEF Gives, OthersStay, waitingIds
  <2>3. activeIds' = activeIds \ {task[w].id}
    BY <1>5, <1>w, <1>o, <1>u, <2>1 DEF Gives, OthersStay, activeIds
  <2>4. task[w].id \in activeIds /\ task[w].id \in Ids
    BY <1>i, <1>o, <2>1 DEF activeIds
  <2>. QED  BY <2>2, <2>3, <2>4 DEF Pool!Finish, waitingIds, activeIds
<1>6. ASSUME NEW w \in Workers, Forgets(w) PROVE UNCHANGED Pool!poolVars
  <2>1. Waiters' = Waiters /\ Holders' = Holders /\ w \notin Waiters /\ w \notin Holders
    BY <1>6 DEF Forgets, OthersStay, Owners, Waiters, Holders
  <2>2. waitingIds' = waitingIds /\ activeIds' = activeIds
    BY <1>6, <1>w, <2>1 DEF Forgets, OthersStay, waitingIds, activeIds
  <2>. QED  BY <1>1, <2>2
<1>7. CASE Empties
  BY <1>7 DEF Empties, Pool!Next, Pool!Restart
<1>. QED  BY <1>2, <1>3, <1>4, <1>5, <1>6, <1>7, PoolMove DEF Pool!Next

\* Whatever commands, failures and crashes come, the tasks behave as a pool that
\* admits a transfer once and serves at most max_workers at a time.
THEOREM ImplementsPool == SafetySpec => Pool!SafetySpec
  BY TypedAlways, GuardAlways, PermitsExact, PoolInit, PoolStep, PTL
  DEF SafetySpec, Pool!SafetySpec

----------------------------------------------------------------------------
(* What a transfer has in its file. The first chunks of the right file, as    *)
(* many as its worker has counted, or what was there before it began.         *)

Prefix(n) == [i \in 1 .. n |-> "data"]

LEMMA FunctionLength ==
  ASSUME NEW S, NEW n \in Nat, NEW f \in [1 .. n -> S]
  PROVE  f \in Seq(S) /\ Len(f) = n
<1>1. f \in Seq(S)
  BY SeqDef
<1>2. Len(f) \in Nat /\ DOMAIN f = 1 .. Len(f) /\ DOMAIN f = 1 .. n
  BY <1>1, LenProperties
<1>. QED  BY <1>1, <1>2

LEMMA PrefixFacts ==
  ASSUME NEW n \in Nat
  PROVE  /\ Prefix(n) \in Seq(Chunk) /\ Len(Prefix(n)) = n /\ Prefix(n) # NoFile
         /\ FileLen(Prefix(n)) = n
         /\ \A i \in 1 .. n : Prefix(n)[i] = "data"
<1>1. Prefix(n) \in [1 .. n -> Chunk]
  BY DEF Prefix, Chunk
<1>2. Prefix(n) \in Seq(Chunk) /\ Len(Prefix(n)) = n
  BY <1>1, FunctionLength
<1>3. \A i \in 1 .. n : Prefix(n)[i] = "data"
  BY DEF Prefix
<1>. QED  BY <1>2, <1>3, FileAssumption DEF FileLen

LEMMA OldFacts ==
  /\ OldFile \in Seq(Chunk) /\ OldFile # NoFile /\ FileLen(OldFile) = Size + 1
  /\ \A n \in 0 .. Size : OldFile # Prefix(n)
<1>1. OldFile \in [1 .. Size + 1 -> Chunk]
  BY DEF OldFile, Chunk
<1>2. OldFile \in Seq(Chunk) /\ Len(OldFile) = Size + 1
  <2>1. Size + 1 \in Nat
    OBVIOUS
  <2>. QED  BY <1>1, <2>1, FunctionLength
<1>3. ASSUME NEW n \in 0 .. Size PROVE OldFile # Prefix(n)
  <2>1. Len(Prefix(n)) = n
    BY PrefixFacts
  <2>2. Size + 1 # n
    BY <1>3
  <2>. QED  BY <1>2, <2>1, <2>2
<1>. QED  BY <1>2, <1>3, FileAssumption DEF FileLen

\* The files a transfer nobody cancels may have.
Fine(f) == f \in {NoFile, OldFile} \cup {Prefix(n) : n \in 0 .. Size}

LEMMA CutToData ==
  ASSUME NEW f, NEW m \in Nat, \A i \in 1 .. m : i <= FileLen(f) /\ f[i] = "data"
  PROVE  SetLen(f, m) = Prefix(m)
<1>1. \A i \in 1 .. m : (IF i <= FileLen(f) THEN f[i] ELSE "zero") = "data"
  OBVIOUS
<1>. QED  BY <1>1 DEF SetLen, Prefix

LEMMA CutFile ==
  ASSUME NEW f, Fine(f), NEW m \in Nat, m <= FileLen(f), f = OldFile => m = 0
  PROVE  SetLen(f, m) = Prefix(m) /\ m <= Size
<1>1. CASE m = 0
  <2>1. \A i \in 1 .. m : i <= FileLen(f) /\ f[i] = "data"
    BY <1>1
  <2>. QED  BY <1>1, <2>1, CutToData
<1>2. CASE f = NoFile
  <2>1. m = 0
    BY <1>2 DEF FileLen
  <2>. QED  BY <1>1, <2>1
<1>3. ASSUME NEW n \in 0 .. Size, f = Prefix(n) PROVE SetLen(f, m) = Prefix(m) /\ m <= Size
  <2>1. FileLen(f) = n /\ \A i \in 1 .. n : f[i] = "data"
    BY <1>3, PrefixFacts
  <2>2. m <= n
    BY <2>1
  <2>3. \A i \in 1 .. m : i <= FileLen(f) /\ f[i] = "data"
    BY <2>1, <2>2
  <2>4. SetLen(f, m) = Prefix(m)
    BY <2>3, CutToData
  <2>. QED  BY <2>2, <2>4
<1>. QED  BY <1>1, <1>2, <1>3 DEF Fine

LEMMA NextChunk ==
  ASSUME NEW n \in Nat
  PROVE  WriteAt(Prefix(n), n, "data") = Prefix(n + 1)
<1>1. FileLen(Prefix(n)) = n /\ \A i \in 1 .. n : Prefix(n)[i] = "data"
  BY PrefixFacts
<1>2. SetLen(Prefix(n), n) = Prefix(n)
  BY <1>1, CutToData
<1>3. Prefix(n) \in Seq(Chunk) /\ Len(Prefix(n)) = n /\ Prefix(n + 1) \in Seq(Chunk)
      /\ Len(Prefix(n + 1)) = n + 1 /\ \A i \in 1 .. n + 1 : Prefix(n + 1)[i] = "data"
  BY PrefixFacts
<1>4. Append(Prefix(n), "data") \in Seq(Chunk) /\ Len(Append(Prefix(n), "data")) = n + 1
      /\ \A i \in 1 .. n + 1 : Append(Prefix(n), "data")[i] = "data"
  BY <1>1, <1>3, AppendProperties DEF Chunk
<1>5. Append(Prefix(n), "data") = Prefix(n + 1)
  BY <1>3, <1>4, SeqEqual
<1>. QED  BY <1>2, <1>5 DEF WriteAt

LEMMA EdgeFiles == Prefix(0) = <<>> /\ Prefix(Size) = Whole
<1>1. Prefix(0) \in Seq(Chunk) /\ Len(Prefix(0)) = 0
  BY PrefixFacts
<1>. QED  BY <1>1 DEF Prefix, Whole

----------------------------------------------------------------------------
(* Only a transfer the user asked to cancel is cancelled. *)

Cancelling == {"cancel", "cancelMark", "cancelClean"}

\* A registered flag is one of a worker of that transfer, or of the worker that
\* will drop it next; an idle slot has none.
Asked ==
  /\ \A c \in Clients : client[c].pc \in Cancelling => client[c].id \in cancelAsked
  /\ \A w \in Workers :
       /\ task[w].flag = "cancel" \/ task[w].pc \in {"cleanup", "canceled"}
            => task[w].id \in cancelAsked
       /\ task[w].pc = "idle" => task[w] = IdleTask
  /\ \A id \in Ids : controls[id] # NoWorker => task[controls[id]].id = id

\* A step of worker w in its transfer: it keeps its flag, writes no other file
\* and no other row, and turns to cancelling only when told to.
Within(w) ==
  /\ \A v \in Workers \ {w} : task'[v] = task[v]
  /\ task'[w].id = task[w].id /\ task'[w].flag = task[w].flag
  /\ task[w].pc # "idle" /\ task'[w].pc # "idle"
  /\ task'[w].pc \in {"cleanup", "canceled"} => task[w].pc = "cleanup" \/ task[w].flag = "cancel"
  /\ \A id \in Ids : row'[id].dir = row[id].dir /\ row'[id].home = row[id].home
  /\ \A id \in Ids \ {task[w].id} : artifact'[id] = artifact[id] /\ row'[id] = row[id]
  /\ UNCHANGED <<client, cancelAsked>>

\* The row and the worker of a step, with the fields it may change.
RowWithin(id) ==
  /\ \A i \in Ids : row'[i].dir = row[i].dir /\ row'[i].home = row[i].home
  /\ \A i \in Ids \ {id} : row'[i] = row[i]
TaskWithin(w) ==
  /\ \A v \in Workers \ {w} : task'[v] = task[v]
  /\ task'[w].id = task[w].id /\ task'[w].flag = task[w].flag

LEMMA SetBytesWithin ==
  ASSUME row \in [Ids -> RowType], NEW id \in Ids, NEW n, row' = SetBytes(id, n)
  PROVE  RowWithin(id) /\ row'[id].bytes \in {row[id].bytes, n} /\ row'[id].st = row[id].st
  BY DEF SetBytes, RowType, RowWithin

LEMMA SetStatusWithin ==
  ASSUME row \in [Ids -> RowType], NEW id \in Ids, NEW s, row' = SetStatus(id, s)
  PROVE  RowWithin(id) /\ \A i \in Ids : row'[i].bytes = row[i].bytes
  BY DEF SetStatus, RowType, RowWithin

LEMMA RowUnchanged == ASSUME NEW id, UNCHANGED row PROVE RowWithin(id)
  BY DEF RowWithin

LEMMA GotoWithin ==
  ASSUME task \in [Workers -> TaskType], NEW w \in Workers, NEW pc, Goto(w, pc)
  PROVE  /\ TaskWithin(w) /\ task'[w].pc = pc /\ task'[w].off = task[w].off
         /\ task'[w].srv = task[w].srv /\ task'[w].linked = task[w].linked
  BY DEF Goto, TaskType, TaskWithin

LEMMA LeaveWithin ==
  ASSUME NEW t \in [Workers -> TaskType], NEW w \in Workers, NEW pc,
         \A v \in Workers : t[v].id = task[v].id /\ t[v].flag = task[v].flag,
         \A v \in Workers \ {w} : t[v] = task[v],
         task' = Leave(t, w, pc)
  PROVE  TaskWithin(w) /\ task'[w].pc = pc
  BY DEF Leave, TaskType, TaskWithin

LEMMA FailWithin ==
  ASSUME Typed, NEW w \in Workers, task[w].pc # "idle", NEW retryable, Fail(w, retryable)
  PROVE  /\ TaskWithin(w) /\ RowWithin(task[w].id) /\ task'[w].pc \in {"backoff", "failed"}
         /\ \/ row' = row
            \/ row[task[w].id].dir = "up"
<1>1. task \in [Workers -> TaskType] /\ row \in [Ids -> RowType] /\ task[w].id \in Ids
  BY DEF Typed, TypeOK, WellFormed
<1>2. CASE retryable /\ task[w].tries < MaxRetries
  <2>1. task[w].tries + 1 \in 0 .. MaxRetries
    BY <1>1, <1>2 DEF TaskType
  <2> DEFINE t == [task EXCEPT ![w].tries = @ + 1]
  <2>2. /\ t \in [Workers -> TaskType]
        /\ \A v \in Workers : t[v].id = task[v].id /\ t[v].flag = task[v].flag
        /\ \A v \in Workers \ {w} : t[v] = task[v]
    BY <1>1, <2>1 DEF TaskType
  <2>3. task' = Leave(t, w, "backoff")
    BY <1>2 DEF Fail
  <2>4. \/ row' = row
        \/ row[task[w].id].dir = "up" /\ row' = SetBytes(task[w].id, 0)
    BY <1>2 DEF Fail
  <2>5. RowWithin(task[w].id)
    BY <1>1, <2>4, SetBytesWithin, RowUnchanged
  <2> HIDE DEF t
  <2>6. TaskWithin(w) /\ task'[w].pc = "backoff"
    BY <2>2, <2>3, LeaveWithin
  <2>. QED  BY <2>4, <2>5, <2>6
<1>3. CASE ~(retryable /\ task[w].tries < MaxRetries)
  <2>1. task' = Leave(task, w, "failed") /\ row' = row
    BY <1>3 DEF Fail
  <2>2. TaskWithin(w) /\ task'[w].pc = "failed"
    BY <1>1, <2>1, LeaveWithin
  <2>. QED  BY <2>1, <2>2, RowUnchanged
<1>. QED  BY <1>2, <1>3

----------------------------------------------------------------------------
(* What its worker has done of a transfer nobody asked to cancel *)

Trusted == Ids \ cancelAsked

\* The file of a transfer, given its row: only one that was not begun still has
\* what was there before.
Sound(f, r) == Fine(f) /\ (r.dir = "down" /\ f = OldFile => r.bytes = 0)

\* A worker of task t has counted the chunks that are in the file. A staged upload
\* leaves the file as it is until it is shut down.
Carries(t, f, r) ==
  /\ t.pc \in {"opening", "clamped"} /\ r.dir = "down" /\ f = OldFile => t.off = 0
  /\ t.pc = "clamped" => r.dir = "down" /\ t.off <= FileLen(f)
  /\ t.pc = "streaming" =>
       /\ t.linked /\ t.off <= Size
       /\ r.dir = "down" \/ (t.srv \in InPlace /\ t.srv = r.home) => f = Prefix(t.off)
  /\ t.pc = "finishing" =>
       /\ r.dir = "up" /\ t.srv = r.home
       /\ t.srv \in InPlace => f = Whole
  /\ t.pc = "completed" => f = Whole

Content ==
  /\ \A id \in Trusted : Sound(artifact[id], row[id])
  /\ \A w \in Workers : task[w].id \in Trusted =>
       Carries(task[w], artifact[task[w].id], row[task[w].id])

LEMMA Ashore ==
  ASSUME NEW t, NEW f, NEW r,
         t.pc \notin {"opening", "clamped", "streaming", "finishing", "completed"}
  PROVE  Carries(t, f, r)
  BY DEF Carries

LEMMA SameCargo ==
  ASSUME NEW t, NEW u, NEW f, NEW r, NEW q, Carries(t, f, r),
         u.pc = t.pc, u.off = t.off, u.linked = t.linked, u.srv = t.srv,
         q.dir = r.dir, q.home = r.home
  PROVE  Carries(u, f, q)
  BY DEF Carries

LEMMA SameSound ==
  ASSUME NEW f, NEW r, NEW q, Sound(f, r), q.dir = r.dir, q.bytes \in {r.bytes, 0}
  PROVE  Sound(f, q)
  BY DEF Sound

LEMMA PrefixSound ==
  ASSUME NEW n \in 0 .. Size, NEW r
  PROVE  Sound(Prefix(n), r)
  BY OldFacts DEF Sound, Fine

LEMMA WholeSound == ASSUME NEW r PROVE Sound(Whole, r)
<1>1. Size \in 0 .. Size
  OBVIOUS
<1>. QED  BY <1>1, PrefixSound, EdgeFiles

\* A step in one transfer leaves the others what they have: no other worker past
\* the guard has it.
LEMMA WithinContent ==
  ASSUME Typed, GuardInv, Content, NEW w \in Owners, Within(w),
         task[w].id \in Trusted =>
           /\ Sound(artifact'[task[w].id], row'[task[w].id])
           /\ Carries(task'[w], artifact'[task[w].id], row'[task[w].id])
  PROVE  Content'
<1> DEFINE id == task[w].id
<1>1. w \in Workers /\ id \in Ids /\ Trusted' = Trusted
  BY DEF Owners, Within, Trusted, Typed, WellFormed, PrePermit, Holding
<1>2. ASSUME NEW i \in Trusted PROVE Sound(artifact'[i], row'[i])
  <2>1. CASE i = id
    BY <1>2, <2>1
  <2>2. CASE i # id
    <3>1. artifact'[i] = artifact[i] /\ row'[i] = row[i]
      BY <1>2, <2>2 DEF Within, Trusted
    <3>. QED  BY <1>2, <3>1 DEF Content
  <2>. QED  BY <2>1, <2>2
<1>3. ASSUME NEW v \in Workers, task'[v].id \in Trusted
      PROVE  Carries(task'[v], artifact'[task'[v].id], row'[task'[v].id])
  <2>1. CASE v = w
    BY <1>3, <2>1 DEF Within
  <2>2. CASE v # w /\ task[v].id = id
    <3>1. v \notin Owners
      BY <2>2 DEF GuardInv, OneWorkerPerTransfer
    <3>2. task[v].pc \notin PrePermit \cup Holding
      BY <3>1, <1>3 DEF Owners
    <3>3. task'[v] = task[v]
      BY <2>2 DEF Within
    <3>. QED  BY <3>2, <3>3, Ashore DEF Holding
  <2>3. CASE v # w /\ task[v].id # id
    <3>1. task'[v] = task[v]
      BY <2>3 DEF Within
    <3>2. task[v].id \in Ids \ {id} /\ task[v].id \in Trusted
      BY <1>3, <2>3, <3>1 DEF Trusted
    <3>3. artifact'[task[v].id] = artifact[task[v].id] /\ row'[task[v].id] = row[task[v].id]
      BY <3>2 DEF Within
    <3>4. Carries(task[v], artifact[task[v].id], row[task[v].id])
      BY <3>2 DEF Content
    <3>. QED  BY <3>1, <3>3, <3>4
  <2>. QED  BY <2>1, <2>2, <2>3
<1>. QED  BY <1>1, <1>2, <1>3 DEF Content

LEMMA WithinAsked ==
  ASSUME Typed, Asked, NEW w \in Workers, Within(w),
         controls' = controls \/ controls' = [controls EXCEPT ![task[w].id] = w]
  PROVE  Asked'
<1>1. \A c \in Clients : client'[c].pc \in Cancelling => client'[c].id \in cancelAsked'
  BY DEF Asked, Within
<1>2. ASSUME NEW v \in Workers
      PROVE  /\ task'[v].flag = "cancel" \/ task'[v].pc \in {"cleanup", "canceled"}
                  => task'[v].id \in cancelAsked'
             /\ task'[v].pc = "idle" => task'[v] = IdleTask
  <2>1. CASE v = w
    BY <2>1 DEF Asked, Within
  <2>2. CASE v # w
    BY <2>2 DEF Asked, Within
  <2>. QED  BY <2>1, <2>2
<1>3. \A v \in Workers : task'[v].id = task[v].id
  BY DEF Within
<1>4. \A id \in Ids : controls[id] \in Workers \cup {NoWorker}
  BY DEF Typed, TypeOK
<1>5. ASSUME NEW id \in Ids, controls'[id] # NoWorker PROVE task'[controls'[id]].id = id
  <2>1. CASE controls'[id] = controls[id]
    BY <1>3, <1>4, <1>5, <2>1 DEF Asked
  <2>2. CASE controls' = [controls EXCEPT ![task[w].id] = w] /\ controls'[id] # controls[id]
    <3>1. controls'[id] = w /\ task[w].id = id
      BY <2>2 DEF Typed, TypeOK
    <3>. QED  BY <1>3, <3>1
  <2>. QED  BY <2>1, <2>2
<1>. QED  BY <1>1, <1>2, <1>5 DEF Asked

----------------------------------------------------------------------------
(* The steps of a worker *)

\* Everything known before a step.
Before == Typed /\ GuardInv /\ Asked /\ Content

LEMMA InHand ==
  ASSUME Before, NEW w \in Workers
  PROVE  /\ task \in [Workers -> TaskType] /\ row \in [Ids -> RowType]
         /\ artifact \in [Ids -> FileType]
         /\ task[w].off \in Nat /\ task[w].linked \in BOOLEAN /\ task[w].flag \in Flag
         /\ task[w].pc # "idle" => task[w].id \in Ids
         /\ task[w].pc \in PrePermit \cup Holding => w \in Owners
         /\ task[w].id \in Trusted =>
              /\ Sound(artifact[task[w].id], row[task[w].id])
              /\ Carries(task[w], artifact[task[w].id], row[task[w].id])
  BY DEF Before, Typed, TypeOK, WellFormed, TaskType, Owners, Content

\* A worker that is not at the file after its step, and left the file alone.
LEMMA IdleHands ==
  ASSUME Before, NEW w \in Owners, Within(w), artifact' = artifact,
         controls' = controls \/ controls' = [controls EXCEPT ![task[w].id] = w],
         task'[w].pc \notin {"opening", "clamped", "streaming", "finishing", "completed"},
         \/ row'[task[w].id].bytes = row[task[w].id].bytes
         \/ row[task[w].id].dir = "up"
  PROVE  Asked' /\ Content'
<1>1. w \in Workers /\ task[w].id \in Ids
  BY DEF Owners, Before, Typed, WellFormed, PrePermit, Holding
<1>2. task[w].id \in Trusted => Sound(artifact'[task[w].id], row'[task[w].id])
  BY <1>1, InHand DEF Sound, Within
<1>3. Carries(task'[w], artifact'[task[w].id], row'[task[w].id])
  BY Ashore
<1>. QED  BY <1>1, <1>2, <1>3, WithinContent, WithinAsked DEF Before

LEMMA RegisterWhole ==
  ASSUME Before, NEW w \in Workers, Register(w) PROVE Asked' /\ Content'
<1>1. task \in [Workers -> TaskType] /\ row \in [Ids -> RowType] /\ task[w].id \in Ids
      /\ w \in Owners /\ task[w].pc = "claimed"
  BY InHand DEF Register, PrePermit
<1>2. TaskWithin(w) /\ task'[w].pc = "waiting"
  BY <1>1, GotoWithin DEF Register
<1>3. RowWithin(task[w].id) /\ row'[task[w].id].bytes = row[task[w].id].bytes
  BY <1>1, SetStatusWithin DEF Register
<1>4. Within(w)
  BY <1>1, <1>2, <1>3 DEF Within, TaskWithin, RowWithin, Register
<1>. QED  BY <1>1, <1>2, <1>3, <1>4, IdleHands DEF Register

LEMMA StepsAside ==
  ASSUME Before, NEW w \in Workers, Acquire(w) \/ WakeUp(w) \/ Release(w)
  PROVE  Asked' /\ Content'
<1>1. task \in [Workers -> TaskType] /\ row \in [Ids -> RowType] /\ task[w].id \in Ids
      /\ w \in Owners /\ task[w].pc # "idle"
  BY InHand DEF Acquire, WakeUp, Release, PrePermit, Holding
<1>2. TaskWithin(w) /\ task'[w].pc \in {"ready", "dropping"}
  BY <1>1, GotoWithin DEF Acquire, WakeUp, Release
<1>3. UNCHANGED <<row, artifact, controls, client, cancelAsked>>
  BY DEF Acquire, WakeUp, Release
<1>4. Within(w)
  BY <1>1, <1>2, <1>3, RowUnchanged DEF Within, TaskWithin, RowWithin
<1>. QED  BY <1>1, <1>2, <1>3, <1>4, IdleHands

LEMMA DropWhole ==
  ASSUME Before, NEW w \in Workers, DropControl(w) PROVE Asked' /\ Content'
<1>1. task \in [Workers -> TaskType] /\ row \in [Ids -> RowType] /\ task[w].id \in Ids
      /\ task[w].pc = "dropping" /\ controls \in [Ids -> Workers \cup {NoWorker}]
  BY InHand DEF DropControl, Before, Typed, TypeOK
<1>2. task'[w] = IdleTask /\ \A v \in Workers \ {w} : task'[v] = task[v]
  BY <1>1 DEF DropControl
<1>3. controls' = [controls EXCEPT ![task[w].id] = NoWorker]
  BY DEF DropControl
<1>4. UNCHANGED <<row, artifact, client, cancelAsked>>
  BY DEF DropControl
<1>5. IdleTask.flag = "run" /\ IdleTask.pc = "idle" /\ IdleTask.id = NoId
  BY DEF IdleTask
<1>6. \A c \in Clients : client'[c].pc \in Cancelling => client'[c].id \in cancelAsked'
  BY <1>4 DEF Before, Asked
<1>7. ASSUME NEW v \in Workers
      PROVE  /\ task'[v].flag = "cancel" \/ task'[v].pc \in {"cleanup", "canceled"}
                  => task'[v].id \in cancelAsked'
             /\ task'[v].pc = "idle" => task'[v] = IdleTask
  <2>1. CASE v = w
    BY <1>2, <1>5, <2>1
  <2>2. CASE v # w
    BY <1>2, <1>4, <2>2 DEF Before, Asked
  <2>. QED  BY <2>1, <2>2
<1>8. ASSUME NEW id \in Ids, controls'[id] # NoWorker PROVE task'[controls'[id]].id = id
  <2>1. controls'[id] = controls[id] /\ id # task[w].id
    BY <1>1, <1>3, <1>8
  <2>2. task[controls[id]].id = id /\ controls[id] \in Workers
    BY <1>1, <1>8, <2>1 DEF Before, Asked
  <2>3. controls[id] # w
    BY <2>1, <2>2
  <2>. QED  BY <1>2, <2>1, <2>2, <2>3
<1>9. Asked'
  BY <1>6, <1>7, <1>8 DEF Asked
<1>10. Trusted' = Trusted /\ \A id \in Trusted : Sound(artifact'[id], row'[id])
  BY <1>4 DEF Before, Content, Trusted
<1>11. ASSUME NEW v \in Workers, task'[v].id \in Trusted
       PROVE  Carries(task'[v], artifact'[task'[v].id], row'[task'[v].id])
  <2>1. v # w
    BY <1>2, <1>5, <1>11 DEF Trusted
  <2>. QED  BY <1>2, <1>4, <1>11, <2>1 DEF Before, Content
<1>. QED  BY <1>9, <1>10, <1>11 DEF Content

LEMMA BeginWhole ==
  ASSUME Before, NEW w \in Workers, Begin(w) PROVE Asked' /\ Content'
<1>1. task \in [Workers -> TaskType] /\ row \in [Ids -> RowType] /\ task[w].id \in Ids
      /\ w \in Owners /\ task[w].pc = "ready"
  BY InHand DEF Begin, Holding
<1>2. UNCHANGED <<artifact, controls, client, cancelAsked>>
  BY DEF Begin
<1>3. ASSUME Goto(w, "exiting"), row' = row \/ row' = SetStatus(task[w].id, "paused")
      PROVE  Asked' /\ Content'
  <2>1. TaskWithin(w) /\ task'[w].pc = "exiting"
    BY <1>1, <1>3, GotoWithin
  <2>2. RowWithin(task[w].id) /\ row'[task[w].id].bytes = row[task[w].id].bytes
    BY <1>1, <1>3, SetStatusWithin, RowUnchanged
  <2>3. Within(w)
    BY <1>1, <1>2, <2>1, <2>2 DEF Within, TaskWithin, RowWithin
  <2>. QED  BY <1>1, <1>2, <2>1, <2>2, <2>3, IdleHands
<1>4. ASSUME NEW srv, row' = SetStatus(task[w].id, "running"),
             task' = [task EXCEPT ![w].pc = "opening", ![w].srv = srv,
                                  ![w].off = row[task[w].id].bytes]
      PROVE  Asked' /\ Content'
  <2>1. TaskWithin(w) /\ task'[w].pc = "opening" /\ task'[w].off = row[task[w].id].bytes
    BY <1>1, <1>4 DEF TaskWithin, TaskType
  <2>2. RowWithin(task[w].id) /\ row'[task[w].id].bytes = row[task[w].id].bytes
    BY <1>1, <1>4, SetStatusWithin
  <2>3. Within(w)
    BY <1>1, <1>2, <2>1, <2>2 DEF Within, TaskWithin, RowWithin
  <2>4. ASSUME task[w].id \in Trusted
        PROVE  /\ Sound(artifact'[task[w].id], row'[task[w].id])
               /\ Carries(task'[w], artifact'[task[w].id], row'[task[w].id])
    <3>1. Sound(artifact[task[w].id], row[task[w].id])
      BY <2>4, InHand
    <3>2. row'[task[w].id].dir = row[task[w].id].dir
      BY <1>1, <2>2 DEF RowWithin
    <3>. QED  BY <1>2, <2>1, <2>2, <3>1, <3>2 DEF Sound, Carries
  <2>. QED  BY <1>1, <1>2, <2>3, <2>4, WithinContent, WithinAsked DEF Before
<1>. QED  BY <1>3, <1>4 DEF Begin

LEMMA CleanupWhole ==
  ASSUME Before, NEW w \in Workers, Cleanup(w) PROVE Asked' /\ Content'
<1>1. task \in [Workers -> TaskType] /\ task[w].id \in Ids /\ artifact \in [Ids -> FileType]
      /\ w \in Owners /\ task[w].pc = "cleanup"
  BY InHand DEF Cleanup, Holding
<1>2. TaskWithin(w) /\ task'[w].pc = "canceled"
  BY <1>1, GotoWithin DEF Cleanup
<1>3. UNCHANGED <<row, controls, client, cancelAsked>>
  BY DEF Cleanup
<1>4. \A id \in Ids \ {task[w].id} : artifact'[id] = artifact[id]
  BY <1>1 DEF Cleanup
<1>5. Within(w)
  BY <1>1, <1>2, <1>3, <1>4 DEF Within, TaskWithin
<1>6. task[w].id \notin Trusted
  BY <1>1 DEF Before, Asked, Trusted
<1>. QED  BY <1>1, <1>3, <1>5, <1>6, WithinContent, WithinAsked DEF Before

LEMMA RecordWhole ==
  ASSUME Before, NEW w \in Workers, RecordOutcome(w) PROVE Asked' /\ Content'
<1>1. task \in [Workers -> TaskType] /\ row \in [Ids -> RowType] /\ task[w].id \in Ids
      /\ w \in Owners /\ task[w].pc # "idle"
  BY InHand DEF RecordOutcome, Holding
<1>2. TaskWithin(w) /\ task'[w].pc = "exiting"
  BY <1>1 DEF RecordOutcome, TaskWithin, TaskType
<1>3. RowWithin(task[w].id) /\ row'[task[w].id].bytes = row[task[w].id].bytes
  BY <1>1, SetStatusWithin DEF RecordOutcome
<1>4. Within(w)
  BY <1>1, <1>2, <1>3 DEF Within, TaskWithin, RowWithin, RecordOutcome
<1>. QED  BY <1>1, <1>2, <1>3, <1>4, IdleHands DEF RecordOutcome

LEMMA ClampWhole ==
  ASSUME Before, NEW w \in Workers, ClampOffset(w) PROVE Asked' /\ Content'
<1> DEFINE id == task[w].id
           f == artifact[id]
           off == Lower(task[w].off, FileLen(f))
<1>1. task \in [Workers -> TaskType] /\ row \in [Ids -> RowType] /\ id \in Ids
      /\ w \in Owners /\ task[w].pc = "opening" /\ task[w].off \in Nat
  BY InHand DEF ClampOffset, Holding
<1>2. f \in FileType /\ FileLen(f) \in Nat
  BY <1>1, InHand DEF FileType, FileLen
<1>3. off \in Nat /\ off <= task[w].off /\ off <= FileLen(f)
  BY <1>1, <1>2 DEF Lower
<1>4. TaskWithin(w) /\ task'[w].pc = "clamped" /\ task'[w].off = off
  BY <1>1, <1>3 DEF ClampOffset, TaskWithin, TaskType
<1>5. row[id].dir = "down" /\ UNCHANGED <<artifact, controls, client, cancelAsked>>
  BY DEF ClampOffset
<1>6. /\ RowWithin(id)
      /\ row'[id].bytes = row[id].bytes \/ off # task[w].off
  BY <1>1, SetBytesWithin, RowUnchanged DEF ClampOffset
<1>7. Within(w)
  BY <1>1, <1>4, <1>5, <1>6 DEF Within, TaskWithin, RowWithin
<1>8. ASSUME id \in Trusted
      PROVE  Sound(artifact'[id], row'[id]) /\ Carries(task'[w], artifact'[id], row'[id])
  <2>1. Sound(f, row[id]) /\ Carries(task[w], f, row[id])
    BY <1>8, InHand
  <2>2. f = OldFile => task[w].off = 0
    BY <1>1, <1>5, <2>1 DEF Carries
  <2>3. f = OldFile => off = 0 /\ row'[id].bytes = 0
    BY <1>1, <1>3, <1>5, <1>6, <2>1, <2>2 DEF Sound
  <2>4. row'[id].dir = "down"
    BY <1>1, <1>5, <1>6 DEF RowWithin
  <2>. QED  BY <1>3, <1>4, <1>5, <2>1, <2>3, <2>4 DEF Sound, Carries
<1>. QED  BY <1>1, <1>5, <1>7, <1>8, WithinContent, WithinAsked DEF Before

LEMMA OpenDownloadWhole ==
  ASSUME Before, NEW w \in Workers, OpenDownload(w) PROVE Asked' /\ Content'
<1> DEFINE id == task[w].id
           f == artifact[id]
           off == task[w].off
<1>1. task \in [Workers -> TaskType] /\ id \in Ids /\ artifact \in [Ids -> FileType]
      /\ w \in Owners /\ task[w].pc = "clamped" /\ off \in Nat
  BY InHand DEF OpenDownload, Holding
<1>2. TaskWithin(w) /\ task'[w].pc = "streaming" /\ task'[w].off = off /\ task'[w].linked = TRUE
  BY <1>1 DEF OpenDownload, TaskWithin, TaskType
<1>3. UNCHANGED <<row, controls, client, cancelAsked>>
  BY DEF OpenDownload
<1>4. artifact'[id] = SetLen(f, off) /\ \A i \in Ids \ {id} : artifact'[i] = artifact[i]
  BY <1>1 DEF OpenDownload
<1>5. Within(w)
  BY <1>1, <1>2, <1>3, <1>4 DEF Within, TaskWithin
<1>6. ASSUME id \in Trusted
      PROVE  Sound(artifact'[id], row'[id]) /\ Carries(task'[w], artifact'[id], row'[id])
  <2>1. Sound(f, row[id]) /\ Carries(task[w], f, row[id])
    BY <1>6, InHand
  <2>2. Fine(f) /\ off <= FileLen(f) /\ (f = OldFile => off = 0)
    BY <1>1, <2>1 DEF Sound, Carries
  <2>3. artifact'[id] = Prefix(off) /\ off \in 0 .. Size
    BY <1>1, <1>4, <2>2, CutFile
  <2>4. Sound(artifact'[id], row'[id])
    BY <2>3, PrefixSound
  <2>. QED  BY <1>2, <2>3, <2>4 DEF Carries
<1>. QED  BY <1>1, <1>3, <1>5, <1>6, WithinContent, WithinAsked DEF Before

LEMMA DownloadChunkWhole ==
  ASSUME Before, StreamsAtHome, NEW w \in Workers, DownloadChunk(w) PROVE Asked' /\ Content'
<1> DEFINE id == task[w].id
           f == artifact[id]
           off == task[w].off
<1>1. task \in [Workers -> TaskType] /\ row \in [Ids -> RowType] /\ artifact \in [Ids -> FileType]
      /\ id \in Ids /\ w \in Owners /\ off \in Nat
  BY InHand DEF DownloadChunk, Streams, Holding
<1>2. task[w].pc = "streaming" /\ off < Size
  BY DEF DownloadChunk, Streams
<1>3. TaskWithin(w) /\ task'[w].pc = "streaming" /\ task'[w].off = off + 1
      /\ task'[w].linked = task[w].linked
  BY <1>1, <1>2 DEF DownloadChunk, TaskWithin, TaskType
<1>4. UNCHANGED <<controls, client, cancelAsked>>
  BY DEF DownloadChunk
<1>5. /\ \A i \in Ids \ {id} : artifact'[i] = artifact[i]
      /\ task[w].linked => artifact'[id] = WriteAt(f, off, Delivered(w))
  BY <1>1 DEF DownloadChunk
<1>6. RowWithin(id)
  BY <1>1, SetBytesWithin, RowUnchanged DEF DownloadChunk
<1>7. Within(w)
  BY <1>1, <1>2, <1>3, <1>4, <1>5, <1>6 DEF Within, TaskWithin, RowWithin
<1>8. Delivered(w) = "data" /\ row[id].dir = "down"
  BY <1>2 DEF StreamsAtHome, Delivered, DownloadChunk, Streams
<1>9. ASSUME id \in Trusted
      PROVE  Sound(artifact'[id], row'[id]) /\ Carries(task'[w], artifact'[id], row'[id])
  <2>1. Carries(task[w], f, row[id])
    BY <1>9, InHand
  <2>2. task[w].linked /\ f = Prefix(off)
    BY <1>2, <1>8, <2>1 DEF Carries
  <2>3. artifact'[id] = Prefix(off + 1) /\ off + 1 \in 0 .. Size
    BY <1>1, <1>2, <1>5, <1>8, <2>2, NextChunk
  <2>4. Sound(artifact'[id], row'[id])
    BY <2>3, PrefixSound
  <2>. QED  BY <1>3, <2>2, <2>3, <2>4 DEF Carries
<1>. QED  BY <1>1, <1>4, <1>7, <1>9, WithinContent, WithinAsked DEF Before

LEMMA DownloadEndWhole ==
  ASSUME Before, NEW w \in Workers, DownloadEnd(w) PROVE Asked' /\ Content'
<1> DEFINE id == task[w].id
           f == artifact[id]
           off == task[w].off
<1>1. task \in [Workers -> TaskType] /\ row \in [Ids -> RowType]
      /\ id \in Ids /\ w \in Owners /\ off \in Nat
  BY InHand DEF DownloadEnd, Streams, Holding
<1>2. task[w].pc = "streaming" /\ off >= Size /\ row[id].dir = "down"
  BY DEF DownloadEnd, Streams
<1>3. TaskWithin(w) /\ task'[w].pc = "completed"
  BY <1>1, LeaveWithin DEF DownloadEnd
<1>4. UNCHANGED <<artifact, controls, client, cancelAsked>>
  BY DEF DownloadEnd
<1>5. RowWithin(id)
  BY <1>1, SetBytesWithin DEF DownloadEnd
<1>6. Within(w)
  BY <1>1, <1>2, <1>3, <1>4, <1>5 DEF Within, TaskWithin, RowWithin
<1>7. ASSUME id \in Trusted
      PROVE  Sound(artifact'[id], row'[id]) /\ Carries(task'[w], artifact'[id], row'[id])
  <2>1. Carries(task[w], f, row[id])
    BY <1>7, InHand
  <2>2. f = Prefix(off) /\ off <= Size
    BY <1>2, <2>1 DEF Carries
  <2>3. off = Size
    BY <1>1, <1>2, <2>2
  <2>4. artifact'[id] = Whole
    BY <1>4, <2>2, <2>3, EdgeFiles
  <2>. QED  BY <1>3, <2>4, WholeSound DEF Carries
<1>. QED  BY <1>1, <1>4, <1>6, <1>7, WithinContent, WithinAsked DEF Before

LEMMA OpenUploadWhole ==
  ASSUME Before, NEW w \in Workers, OpenUpload(w) PROVE Asked' /\ Content'
<1> DEFINE id == task[w].id
           f == artifact[id]
<1>1. task \in [Workers -> TaskType] /\ row \in [Ids -> RowType] /\ artifact \in [Ids -> FileType]
      /\ id \in Ids /\ w \in Owners /\ task[w].pc = "opening"
  BY InHand DEF OpenUpload, Holding
<1>2. TaskWithin(w) /\ task'[w].pc = "streaming" /\ task'[w].off = 0 /\ task'[w].linked = TRUE
      /\ task'[w].srv = task[w].srv
  BY <1>1 DEF OpenUpload, TaskWithin, TaskType
<1>3. UNCHANGED <<row, controls, client, cancelAsked>> /\ row[id].dir = "up"
  BY DEF OpenUpload
<1>4. /\ \A i \in Ids \ {id} : artifact'[i] = artifact[i]
      /\ artifact'[id] = IF WritesThrough(w) THEN <<>> ELSE f
  BY <1>1 DEF OpenUpload
<1>5. Within(w)
  BY <1>1, <1>2, <1>3, <1>4 DEF Within, TaskWithin
<1>6. ASSUME id \in Trusted
      PROVE  Sound(artifact'[id], row'[id]) /\ Carries(task'[w], artifact'[id], row'[id])
  <2>1. Sound(f, row[id])
    BY <1>6, InHand
  <2>2. Sound(Prefix(0), row[id])
    BY PrefixSound
  <2>3. Sound(artifact'[id], row'[id])
    BY <1>3, <1>4, <2>1, <2>2, EdgeFiles
  <2>4. WritesThrough(w) => artifact'[id] = Prefix(0)
    BY <1>4, EdgeFiles
  <2>. QED  BY <1>2, <1>3, <2>3, <2>4 DEF Carries, WritesThrough
<1>. QED  BY <1>1, <1>3, <1>5, <1>6, WithinContent, WithinAsked DEF Before

LEMMA UploadChunkWhole ==
  ASSUME Before, NEW w \in Workers, UploadChunk(w) PROVE Asked' /\ Content'
<1> DEFINE id == task[w].id
           f == artifact[id]
           off == task[w].off
<1>1. task \in [Workers -> TaskType] /\ row \in [Ids -> RowType] /\ artifact \in [Ids -> FileType]
      /\ id \in Ids /\ w \in Owners /\ off \in Nat
  BY InHand DEF UploadChunk, Streams, Holding
<1>2. task[w].pc = "streaming" /\ off < Size /\ row[id].dir = "up"
  BY DEF UploadChunk, Streams
<1>3. TaskWithin(w) /\ task'[w].pc = "streaming" /\ task'[w].off = off + 1
      /\ task'[w].linked = task[w].linked /\ task'[w].srv = task[w].srv
  BY <1>1, <1>2 DEF UploadChunk, TaskWithin, TaskType
<1>4. UNCHANGED <<controls, client, cancelAsked>>
  BY DEF UploadChunk
<1>5. /\ \A i \in Ids \ {id} : artifact'[i] = artifact[i]
      /\ artifact'[id] = IF WritesThrough(w) /\ task[w].linked THEN WriteAt(f, off, "data") ELSE f
  BY <1>1 DEF UploadChunk
<1>6. RowWithin(id)
  BY <1>1, SetBytesWithin, RowUnchanged DEF UploadChunk
<1>7. Within(w)
  BY <1>1, <1>2, <1>3, <1>4, <1>5, <1>6 DEF Within, TaskWithin, RowWithin
<1>8. row'[id].dir = "up" /\ row'[id].home = row[id].home
  BY <1>1, <1>2, <1>6 DEF RowWithin
<1>9. ASSUME id \in Trusted
      PROVE  Sound(artifact'[id], row'[id]) /\ Carries(task'[w], artifact'[id], row'[id])
  <2>1. Sound(f, row[id]) /\ Carries(task[w], f, row[id])
    BY <1>9, InHand
  <2>2. task[w].linked /\ (WritesThrough(w) => f = Prefix(off))
    BY <1>2, <2>1 DEF Carries, WritesThrough
  <2>3. off + 1 \in 0 .. Size
    BY <1>1, <1>2
  <2>4. CASE WritesThrough(w)
    <3>1. artifact'[id] = Prefix(off + 1)
      BY <1>1, <1>5, <2>2, <2>4, NextChunk
    <3>2. Sound(artifact'[id], row'[id])
      BY <2>3, <3>1, PrefixSound
    <3>. QED  BY <1>3, <2>2, <2>3, <3>1, <3>2 DEF Carries
  <2>5. CASE ~WritesThrough(w)
    <3>1. artifact'[id] = f
      BY <1>5, <2>5
    <3>2. Sound(artifact'[id], row'[id])
      BY <1>8, <2>1, <3>1 DEF Sound
    <3>3. ~(task'[w].srv \in InPlace /\ task'[w].srv = row'[id].home)
      BY <1>3, <1>8, <2>5 DEF WritesThrough
    <3>. QED  BY <1>3, <1>8, <2>2, <2>3, <3>2, <3>3 DEF Carries
  <2>. QED  BY <2>4, <2>5
<1>. QED  BY <1>1, <1>4, <1>7, <1>9, WithinContent, WithinAsked DEF Before

LEMMA UploadEndWhole ==
  ASSUME Before, StreamsAtHome, NEW w \in Workers, UploadEnd(w) PROVE Asked' /\ Content'
<1> DEFINE id == task[w].id
           f == artifact[id]
           off == task[w].off
<1>1. task \in [Workers -> TaskType] /\ id \in Ids /\ w \in Owners /\ off \in Nat
  BY InHand DEF UploadEnd, Streams, Holding
<1>2. task[w].pc = "streaming" /\ off >= Size /\ row[id].dir = "up"
  BY DEF UploadEnd, Streams
<1>3. TaskWithin(w) /\ task'[w].pc = "finishing" /\ task'[w].srv = task[w].srv
  BY <1>1, GotoWithin DEF UploadEnd
<1>4. UNCHANGED <<row, artifact, controls, client, cancelAsked>>
  BY DEF UploadEnd
<1>5. Within(w)
  BY <1>1, <1>2, <1>3, <1>4 DEF Within, TaskWithin
<1>6. task[w].srv = row[id].home
  BY <1>2 DEF StreamsAtHome
<1>7. ASSUME id \in Trusted
      PROVE  Sound(artifact'[id], row'[id]) /\ Carries(task'[w], artifact'[id], row'[id])
  <2>1. Sound(f, row[id]) /\ Carries(task[w], f, row[id])
    BY <1>7, InHand
  <2>2. off <= Size /\ (task[w].srv \in InPlace => f = Prefix(off))
    BY <1>2, <1>6, <2>1 DEF Carries
  <2>3. off = Size
    BY <1>1, <1>2, <2>2
  <2>4. task'[w].srv \in InPlace => f = Whole
    BY <1>3, <2>2, <2>3, EdgeFiles
  <2>. QED  BY <1>2, <1>3, <1>4, <1>6, <2>1, <2>4 DEF Carries
<1>. QED  BY <1>1, <1>4, <1>5, <1>7, WithinContent, WithinAsked DEF Before

\* A shutdown of an upload at home leaves the whole file there, staged or not.
LEMMA PublishedWhole ==
  ASSUME Before, NEW w \in Workers, task[w].pc = "finishing"
  PROVE  /\ w \in Owners /\ task[w].id \in Ids
         /\ \A i \in Ids \ {task[w].id} : Published(w)[i] = artifact[i]
         /\ task[w].id \in Trusted => Published(w)[task[w].id] = Whole
<1>1. task[w].id \in Ids /\ artifact \in [Ids -> FileType] /\ w \in Owners
  BY InHand DEF Holding
<1>2. \A i \in Ids \ {task[w].id} : Published(w)[i] = artifact[i]
  BY <1>1 DEF Published
<1>3. ASSUME task[w].id \in Trusted PROVE Published(w)[task[w].id] = Whole
  <2>1. /\ task[w].srv = row[task[w].id].home
        /\ task[w].srv \in InPlace => artifact[task[w].id] = Whole
    BY <1>3, InHand DEF Carries
  <2>2. CASE WritesThrough(w)
    BY <2>1, <2>2 DEF Published, WritesThrough
  <2>3. CASE ~WritesThrough(w)
    <3>1. Published(w) = [artifact EXCEPT ![task[w].id] = Whole]
      BY <2>1, <2>3 DEF Published
    <3>. QED  BY <1>1, <3>1
  <2>. QED  BY <2>2, <2>3
<1>. QED  BY <1>1, <1>2, <1>3

LEMMA ShutdownWhole ==
  ASSUME Before, NEW w \in Workers, Shutdown(w) PROVE Asked' /\ Content'
<1> DEFINE id == task[w].id
<1>1. task \in [Workers -> TaskType] /\ row \in [Ids -> RowType] /\ task[w].pc = "finishing"
  BY InHand DEF Shutdown
<1>2. /\ w \in Owners /\ id \in Ids
      /\ \A i \in Ids \ {id} : Published(w)[i] = artifact[i]
      /\ id \in Trusted => Published(w)[id] = Whole
  BY <1>1, PublishedWhole
<1>3. TaskWithin(w) /\ task'[w].pc = "completed"
  BY <1>1, LeaveWithin DEF Shutdown
<1>4. UNCHANGED <<controls, client, cancelAsked>> /\ artifact' = Published(w)
  BY DEF Shutdown
<1>5. RowWithin(id)
  BY <1>1, <1>2, SetBytesWithin DEF Shutdown
<1>6. Within(w)
  BY <1>1, <1>2, <1>3, <1>4, <1>5 DEF Within, TaskWithin, RowWithin
<1>7. ASSUME id \in Trusted
      PROVE  Sound(artifact'[id], row'[id]) /\ Carries(task'[w], artifact'[id], row'[id])
  <2>1. artifact'[id] = Whole
    BY <1>2, <1>4, <1>7
  <2>. QED  BY <1>3, <2>1, WholeSound DEF Carries
<1>. QED  BY <1>2, <1>4, <1>6, <1>7, WithinContent, WithinAsked DEF Before

LEMMA ObserveWhole ==
  ASSUME Before, NEW w \in Workers, Observe(w) PROVE Asked' /\ Content'
<1>1. task \in [Workers -> TaskType] /\ task[w].id \in Ids /\ w \in Owners
      /\ task[w].pc = "streaming" /\ task[w].flag \in {"pause", "cancel"}
  BY InHand DEF Observe, Holding, Flag
<1>2. /\ TaskWithin(w)
      /\ task'[w].pc = IF task[w].flag = "pause" THEN "paused" ELSE "cleanup"
  BY <1>1, LeaveWithin DEF Observe
<1>3. UNCHANGED <<row, artifact, controls, client, cancelAsked>>
  BY DEF Observe
<1>4. Within(w)
  BY <1>1, <1>2, <1>3 DEF Within, TaskWithin
<1>. QED  BY <1>1, <1>2, <1>3, <1>4, IdleHands

\* A retry starts again from what the row says, an upload from nothing.
LEMMA FailsWhole ==
  ASSUME Before, NEW w \in Workers, OpenFails(w) \/ StreamFails(w) PROVE Asked' /\ Content'
<1>1. task[w].id \in Ids /\ w \in Owners /\ task[w].pc # "idle"
  BY InHand DEF OpenFails, StreamFails, Holding
<1>2. PICK retryable \in BOOLEAN : Fail(w, retryable)
  BY DEF OpenFails, StreamFails
<1>3. /\ TaskWithin(w) /\ RowWithin(task[w].id) /\ task'[w].pc \in {"backoff", "failed"}
      /\ row' = row \/ row[task[w].id].dir = "up"
  BY <1>1, <1>2, FailWithin DEF Before
<1>4. UNCHANGED <<artifact, controls, client, cancelAsked>>
  BY DEF OpenFails, StreamFails
<1>5. Within(w)
  BY <1>1, <1>3, <1>4 DEF Within, TaskWithin, RowWithin
<1>. QED  BY <1>1, <1>3, <1>4, <1>5, IdleHands

LEMMA ShutdownFailsWhole ==
  ASSUME Before, NEW w \in Workers, ShutdownFails(w) PROVE Asked' /\ Content'
<1> DEFINE id == task[w].id
<1>1. task[w].pc = "finishing"
  BY DEF ShutdownFails
<1>2. /\ w \in Owners /\ id \in Ids
      /\ \A i \in Ids \ {id} : Published(w)[i] = artifact[i]
      /\ id \in Trusted => Published(w)[id] = Whole
  BY <1>1, PublishedWhole
<1>3. /\ TaskWithin(w) /\ RowWithin(id) /\ task'[w].pc \in {"backoff", "failed"}
      /\ row' = row \/ row[id].dir = "up"
  BY <1>1, FailWithin DEF Before, ShutdownFails
<1>4. UNCHANGED <<controls, client, cancelAsked>> /\ artifact' \in {artifact, Published(w)}
  BY DEF ShutdownFails
<1>5. Within(w)
  BY <1>1, <1>2, <1>3, <1>4 DEF Within, TaskWithin, RowWithin
<1>6. ASSUME id \in Trusted
      PROVE  Sound(artifact'[id], row'[id]) /\ Carries(task'[w], artifact'[id], row'[id])
  <2>1. Sound(artifact[id], row[id]) /\ row[id].dir = "up"
    BY <1>1, <1>6, InHand DEF Carries
  <2>2. row'[id].dir = "up"
    BY <1>2, <1>3, <2>1 DEF RowWithin
  <2>3. artifact'[id] = artifact[id] \/ artifact'[id] = Whole
    BY <1>2, <1>4, <1>6
  <2>4. Sound(artifact'[id], row'[id])
    BY <2>1, <2>2, <2>3, WholeSound DEF Sound
  <2>. QED  BY <1>3, <2>4, Ashore
<1>. QED  BY <1>2, <1>4, <1>5, <1>6, WithinContent, WithinAsked DEF Before

LEMMA WorkerWhole ==
  ASSUME Before, StreamsAtHome, NEW w \in Workers, WorkerStep(w) \/ Acquire(w)
  PROVE  Asked' /\ Content'
<1>1. CASE Register(w) \/ Release(w) \/ DropControl(w) \/ Begin(w) \/ WakeUp(w) \/ Acquire(w)
  BY <1>1, RegisterWhole, StepsAside, DropWhole, BeginWhole
<1>2. CASE Cleanup(w) \/ RecordOutcome(w) \/ ClampOffset(w) \/ OpenDownload(w)
           \/ DownloadChunk(w) \/ DownloadEnd(w)
  BY <1>2, CleanupWhole, RecordWhole, ClampWhole, OpenDownloadWhole, DownloadChunkWhole,
     DownloadEndWhole
<1>3. CASE OpenUpload(w) \/ UploadChunk(w) \/ UploadEnd(w) \/ Shutdown(w)
           \/ Observe(w) \/ OpenFails(w) \/ StreamFails(w) \/ ShutdownFails(w)
  BY <1>3, OpenUploadWhole, UploadChunkWhole, UploadEndWhole, ShutdownWhole, ObserveWhole,
     FailsWhole, ShutdownFailsWhole
<1>. QED  BY <1>1, <1>2, <1>3 DEF WorkerStep

----------------------------------------------------------------------------
(* The commands, and everything else *)

\* A step that leaves the files and workers of the transfers nobody cancels; it
\* may rewind a row.
Untouched ==
  /\ cancelAsked \subseteq cancelAsked'
  /\ \A id \in Trusted' :
       /\ artifact'[id] = artifact[id]
       /\ row'[id].dir = row[id].dir /\ row'[id].home = row[id].home
       /\ row'[id].bytes \in {row[id].bytes, 0}
  /\ \A w \in Workers :
       /\ task'[w].id = task[w].id
       /\ task'[w].id \in Trusted' =>
            /\ task'[w].pc = task[w].pc /\ task'[w].off = task[w].off
            /\ task'[w].linked = task[w].linked /\ task'[w].srv = task[w].srv

LEMMA UntouchedContent == ASSUME Content, Untouched PROVE Content'
<1>1. Trusted' \subseteq Trusted
  BY DEF Untouched, Trusted
<1>2. ASSUME NEW id \in Trusted' PROVE Sound(artifact'[id], row'[id])
  <2>1. Sound(artifact[id], row[id])
    BY <1>1 DEF Content
  <2>. QED  BY <2>1, SameSound DEF Untouched
<1>3. ASSUME NEW w \in Workers, task'[w].id \in Trusted'
      PROVE  Carries(task'[w], artifact'[task'[w].id], row'[task'[w].id])
  <2>1. task'[w].id = task[w].id /\ task[w].id \in Trusted
    BY <1>1, <1>3 DEF Untouched
  <2>2. Carries(task[w], artifact[task[w].id], row[task[w].id])
    BY <2>1 DEF Content
  <2>3. Carries(task'[w], artifact[task[w].id], row'[task[w].id])
    BY <1>3, <2>1, <2>2, SameCargo DEF Untouched
  <2>. QED  BY <1>3, <2>1, <2>3 DEF Untouched
<1>. QED  BY <1>2, <1>3 DEF Content

\* Rows that only change status, or are rewound or removed.
RowsKept ==
  \A id \in Ids :
    /\ row'[id].dir = row[id].dir /\ row'[id].home = row[id].home
    /\ row'[id].bytes \in {row[id].bytes, 0}

LEMMA RowsAlone ==
  ASSUME RowsKept, UNCHANGED <<artifact, task, controls>>, cancelAsked \subseteq cancelAsked'
  PROVE  Untouched
  BY DEF RowsKept, Untouched, Trusted

LEMMA AskedAlone ==
  ASSUME Asked, UNCHANGED <<task, controls>>, cancelAsked \subseteq cancelAsked',
         \A c \in Clients : client'[c].pc \in Cancelling => client'[c].id \in cancelAsked'
  PROVE  Asked'
  BY DEF Asked

\* A command that cancels was sent to.
LEMMA CommandCancels ==
  ASSUME Before, NEW c \in Clients, CommandStep(c)
  PROVE  /\ \A d \in Clients : client'[d].pc \in Cancelling =>
              client[d].pc \in Cancelling /\ client'[d].id = client[d].id
         /\ UNCHANGED <<controls, cancelAsked>>
<1>c. client \in [Clients -> ClientType]
  BY DEF Before, Typed, TypeOK
<1>1. UNCHANGED <<controls, cancelAsked>>
  BY DEF CommandStep, PauseSignal, PauseMark, ResumeCheck, ResumeGo, CancelSignal, CancelMark,
     CancelClean, ClearOne, engine
<1>2. CASE Return(c)
  BY <1>c, <1>1, <1>2 DEF Return, IdleClient, Cancelling
<1>3. ASSUME NEW pc, client' = [client EXCEPT ![c].pc = pc],
             pc \notin Cancelling \/ client[c].pc \in Cancelling
      PROVE  \A d \in Clients : client'[d].pc \in Cancelling =>
               client[d].pc \in Cancelling /\ client'[d].id = client[d].id
  BY <1>c, <1>3 DEF ClientType
<1>4. CASE CancelSignal(c)
  BY <1>c, <1>4 DEF CancelSignal, IdleClient, Cancelling
<1>5. CASE PauseSignal(c)
  BY <1>1, <1>2, <1>3, <1>5 DEF PauseSignal, Cancelling
<1>6. CASE ResumeCheck(c)
  BY <1>1, <1>2, <1>3, <1>6 DEF ResumeCheck, Cancelling
<1>7. CASE CancelMark(c)
  BY <1>1, <1>3, <1>7 DEF CancelMark, Cancelling
<1>8. CASE PauseMark(c) \/ ResumeGo(c) \/ CancelClean(c) \/ ClearOne(c)
  BY <1>1, <1>2, <1>8 DEF PauseMark, ResumeGo, CancelClean, ClearOne
<1>. QED  BY <1>1, <1>4, <1>5, <1>6, <1>7, <1>8 DEF CommandStep

\* What a command does to the workers: it sets the flag of one with the transfer,
\* or takes the file from those that have it.
LEMMA SignalAsked ==
  ASSUME Before, NEW id \in Ids, controls[id] # NoWorker, NEW f \in Flag, Signal(id, f),
         f = "cancel" => id \in cancelAsked
  PROVE  \A w \in Workers :
           /\ task'[w].id = task[w].id /\ task'[w].pc = task[w].pc /\ task'[w].off = task[w].off
           /\ task'[w].linked = task[w].linked /\ task'[w].srv = task[w].srv
           /\ task'[w].flag = "cancel" => task[w].id \in cancelAsked
           /\ task[w].pc = "idle" => task'[w] = IdleTask
<1>1. task \in [Workers -> TaskType] /\ controls[id] \in Workers /\ task[controls[id]].id = id
  BY DEF Before, Typed, TypeOK, Asked
<1>2. \A w \in Workers \ {controls[id]} : task'[w] = task[w]
  BY <1>1 DEF Signal
<1>3. IdleTask.id \notin Ids
  BY DEF IdleTask
<1>4. \A w \in Workers : task[w].pc = "idle" => task[w] = IdleTask
  BY DEF Before, Asked
<1>5. task[controls[id]].pc # "idle"
  BY <1>1, <1>3, <1>4
<1>6. task'[controls[id]] = [task[controls[id]] EXCEPT !.flag = f]
  BY <1>1 DEF Signal
<1>7. ASSUME NEW w \in Workers
      PROVE  /\ task'[w].id = task[w].id /\ task'[w].pc = task[w].pc
             /\ task'[w].off = task[w].off /\ task'[w].linked = task[w].linked
             /\ task'[w].srv = task[w].srv
             /\ task'[w].flag = task[w].flag \/ (w = controls[id] /\ task'[w].flag = f)
  BY <1>1, <1>2, <1>6 DEF TaskType
<1>8. \A w \in Workers : task[w].flag = "cancel" => task[w].id \in cancelAsked
  BY DEF Before, Asked
<1>. QED  BY <1>1, <1>2, <1>4, <1>5, <1>7, <1>8

LEMMA RemovedKeeps ==
  ASSUME row \in [Ids -> RowType], NEW id \in Ids
  PROVE  Removed(id).dir = row[id].dir /\ Removed(id).home = row[id].home /\ Removed(id).bytes = 0
  BY DEF Removed, RowType

LEMMA CommandRows ==
  ASSUME Before, NEW c \in Clients,
         PauseMark(c) \/ ResumeCheck(c) \/ ResumeGo(c) \/ CancelMark(c) \/ ClearOne(c)
  PROVE  RowsKept /\ UNCHANGED <<artifact, task, controls>>
<1>r. row \in [Ids -> RowType] /\ (client[c].pc # "idle" => client[c].id \in Ids)
  BY DEF Before, Typed, TypeOK, WellFormed
<1>1. UNCHANGED <<artifact, task, controls>>
  BY DEF PauseMark, ResumeCheck, ResumeGo, CancelMark, ClearOne, engine
<1>2. UNCHANGED row => RowsKept
  BY DEF RowsKept
<1>3. ASSUME NEW id \in Ids, NEW s, row' = SetStatus(id, s) PROVE RowsKept
  BY <1>r, <1>3, SetStatusWithin DEF RowsKept, RowWithin
<1>4. CASE PauseMark(c) \/ CancelMark(c)
  BY <1>1, <1>r, <1>3, <1>4 DEF PauseMark, CancelMark
<1>5. CASE ResumeCheck(c)
  BY <1>1, <1>2, <1>5 DEF ResumeCheck
<1>6. CASE ResumeGo(c)
  <2> DEFINE id == client[c].id
  <2>1. id \in Ids
    BY <1>r, <1>6 DEF ResumeGo
  <2>2. ASSUME NEW conn, NEW bytes, bytes \in {row[id].bytes, 0},
               row' = [row EXCEPT ![id].conn = conn, ![id].bytes = bytes]
        PROVE  RowsKept
    BY <1>r, <2>1, <2>2 DEF RowsKept, RowType
  <2>3. CASE Present(id)
    <3>1. row' = [row EXCEPT ![id].conn = IF client[c].conn = NoConn THEN row[id].conn ELSE client[c].conn,
                             ![id].bytes = IF row[id].dir = "up" THEN 0 ELSE row[id].bytes]
      BY <1>6, <1>r, <2>1, <2>3 DEF ResumeGo
    <3>2. (IF row[id].dir = "up" THEN 0 ELSE row[id].bytes) \in {row[id].bytes, 0}
      OBVIOUS
    <3>. QED  BY <1>1, <2>2, <3>1, <3>2
  <2>4. CASE ~Present(id)
    BY <1>1, <1>2, <1>6, <2>4 DEF ResumeGo
  <2>. QED  BY <2>3, <2>4
<1>7. CASE ClearOne(c)
  <2>1. \/ row' = row
        \/ row' = [row EXCEPT ![client[c].id] = Removed(client[c].id)]
    BY <1>7 DEF ClearOne
  <2>2. client[c].id \in Ids
    BY <1>r, <1>7 DEF ClearOne
  <2>3. ASSUME row' = [row EXCEPT ![client[c].id] = Removed(client[c].id)] PROVE RowsKept
    <3>1. \A id \in Ids : row'[id] = IF id = client[c].id THEN Removed(id) ELSE row[id]
      BY <1>r, <2>2, <2>3
    <3>. QED  BY <1>r, <3>1, RemovedKeeps DEF RowsKept
  <2>. QED  BY <1>1, <1>2, <2>1, <2>3
<1>. QED  BY <1>1, <1>4, <1>5, <1>6, <1>7

LEMMA CommandWhole ==
  ASSUME Before, NEW c \in Clients, CommandStep(c) PROVE Asked' /\ Content'
<1>i. client[c].pc # "idle" => client[c].id \in Ids
  BY DEF Before, Typed, WellFormed
<1>1. \A d \in Clients : client'[d].pc \in Cancelling => client'[d].id \in cancelAsked
  BY CommandCancels DEF Before, Asked
<1>2. UNCHANGED <<controls, cancelAsked>> /\ Trusted' = Trusted
  BY CommandCancels DEF Trusted
<1>3. CASE PauseMark(c) \/ ResumeCheck(c) \/ ResumeGo(c) \/ CancelMark(c) \/ ClearOne(c)
  <2>1. RowsKept /\ UNCHANGED <<artifact, task, controls>>
    BY <1>3, CommandRows
  <2>. QED  BY <1>1, <1>2, <2>1, RowsAlone, UntouchedContent, AskedAlone DEF Before
<1>4. ASSUME \A w \in Workers :
               /\ task'[w].id = task[w].id /\ task'[w].pc = task[w].pc /\ task'[w].off = task[w].off
               /\ task'[w].linked = task[w].linked \/ task[w].id \in cancelAsked
               /\ task'[w].srv = task[w].srv
               /\ task'[w].flag = "cancel" => task[w].id \in cancelAsked
               /\ task[w].pc = "idle" => task'[w] = IdleTask,
             \A id \in Trusted : artifact'[id] = artifact[id],
             UNCHANGED row
      PROVE  Asked' /\ Content'
  <2>1. Untouched
    BY <1>2, <1>4 DEF Untouched, Trusted
  <2>2. \A w \in Workers :
          /\ task'[w].flag = "cancel" \/ task'[w].pc \in {"cleanup", "canceled"}
               => task'[w].id \in cancelAsked
          /\ task'[w].pc = "idle" => task'[w] = IdleTask
    BY <1>4 DEF Before, Asked
  <2>3. ASSUME NEW id \in Ids, controls[id] # NoWorker PROVE task'[controls[id]].id = id
    BY <1>4, <2>3 DEF Before, Asked, Typed, TypeOK
  <2>4. Asked'
    BY <1>1, <1>2, <2>2, <2>3 DEF Asked
  <2>. QED  BY <2>1, <2>4, UntouchedContent DEF Before
<1>5. ASSUME UNCHANGED <<task, row, artifact>> PROVE Asked' /\ Content'
  BY <1>4, <1>5 DEF Before, Asked
<1>6. ASSUME NEW f \in Flag, Signal(client[c].id, f), UNCHANGED <<row, artifact>>,
             controls[client[c].id] # NoWorker, client[c].id \in Ids,
             f = "cancel" => client[c].id \in cancelAsked
      PROVE  Asked' /\ Content'
  BY <1>4, <1>6, SignalAsked
<1>7. CASE PauseSignal(c)
  BY <1>i, <1>5, <1>6, <1>7 DEF PauseSignal, Flag
<1>8. CASE CancelSignal(c)
  <2>1. client[c].id \in cancelAsked /\ UNCHANGED <<row, artifact>>
    BY <1>8 DEF CancelSignal, Before, Asked, Cancelling
  <2>. QED  BY <1>i, <1>5, <1>6, <1>8, <2>1 DEF CancelSignal, Flag
<1>9. CASE CancelClean(c)
  <2> DEFINE id == client[c].id
  <2>1. id \in Ids /\ id \in cancelAsked /\ UNCHANGED row
    BY <1>i, <1>9 DEF CancelClean, Before, Asked, Cancelling
  <2>2. CASE UNCHANGED <<artifact, task>>
    BY <1>5, <2>1, <2>2
  <2>3. CASE artifact' = [artifact EXCEPT ![id] = NoFile] /\ task' = Unlink(task, id)
    <3>1. task \in [Workers -> TaskType] /\ artifact \in [Ids -> FileType]
      BY DEF Before, Typed, TypeOK
    <3>2. \A w \in Workers :
            task'[w] = IF task[w].id = id THEN [task[w] EXCEPT !.linked = FALSE] ELSE task[w]
      BY <2>3 DEF Unlink
    <3>3. \A w \in Workers : task[w].pc = "idle" => task[w] = IdleTask /\ task[w].id # id
      <4>1. IdleTask.id # id
        BY <2>1 DEF IdleTask
      <4>. QED  BY <4>1 DEF Before, Asked
    <3>4. \A i \in Trusted : artifact'[i] = artifact[i]
      BY <2>1, <2>3, <3>1 DEF Trusted
    <3>5. ASSUME NEW w \in Workers
          PROVE  /\ task'[w].id = task[w].id /\ task'[w].pc = task[w].pc
                 /\ task'[w].off = task[w].off /\ task'[w].srv = task[w].srv
                 /\ task'[w].flag = task[w].flag
                 /\ task'[w].linked = task[w].linked \/ task[w].id = id
                 /\ task[w].pc = "idle" => task'[w] = IdleTask
      BY <3>1, <3>2, <3>3 DEF TaskType
    <3>6. \A w \in Workers : task[w].flag = "cancel" => task[w].id \in cancelAsked
      BY DEF Before, Asked
    <3>. QED  BY <1>4, <2>1, <3>4, <3>5, <3>6
  <2>. QED  BY <1>9, <2>2, <2>3 DEF CancelClean
<1>. QED  BY <1>3, <1>7, <1>8, <1>9 DEF CommandStep

LEMMA ClaimWhole ==
  ASSUME Before, NEW id \in Ids, Claim(id) PROVE Asked' /\ Content'
<1>1. PICK w \in Workers :
        /\ task[w].pc = "idle"
        /\ task' = [task EXCEPT ![w] = [IdleTask EXCEPT !.pc = "claimed", !.id = id]]
  BY DEF Claim
<1>2. task \in [Workers -> TaskType] /\ controls \in [Ids -> Workers \cup {NoWorker}]
  BY DEF Before, Typed, TypeOK
<1>3. UNCHANGED <<row, artifact, controls, client, cancelAsked>> /\ Trusted' = Trusted
  BY DEF Claim, Trusted
<1>4. task'[w] = [IdleTask EXCEPT !.pc = "claimed", !.id = id]
      /\ \A v \in Workers \ {w} : task'[v] = task[v]
  BY <1>1, <1>2
<1>5. task'[w].pc = "claimed" /\ task'[w].id = id /\ task'[w].flag = "run"
  BY <1>4 DEF IdleTask
<1>6. task[w].id = NoId
  BY <1>1 DEF Before, Asked, IdleTask
<1>7. ASSUME NEW v \in Workers
      PROVE  /\ task'[v].flag = "cancel" \/ task'[v].pc \in {"cleanup", "canceled"}
                  => task'[v].id \in cancelAsked
             /\ task'[v].pc = "idle" => task'[v] = IdleTask
  <2>1. CASE v = w
    BY <1>5, <2>1
  <2>2. CASE v # w
    BY <1>4, <2>2 DEF Before, Asked
  <2>. QED  BY <2>1, <2>2
<1>8. ASSUME NEW i \in Ids, controls[i] # NoWorker PROVE task'[controls[i]].id = i
  <2>1. controls[i] \in Workers /\ task[controls[i]].id = i
    BY <1>2, <1>8 DEF Before, Asked
  <2>2. controls[i] # w
    BY <1>6, <2>1
  <2>. QED  BY <1>4, <2>1, <2>2
<1>9. \A c \in Clients : client'[c].pc \in Cancelling => client'[c].id \in cancelAsked'
  BY <1>3 DEF Before, Asked
<1>10. Asked'
  BY <1>3, <1>7, <1>8, <1>9 DEF Asked
<1>11. ASSUME NEW v \in Workers, task'[v].id \in Trusted
       PROVE  Carries(task'[v], artifact[task'[v].id], row[task'[v].id])
  <2>1. CASE v = w
    BY <1>5, <2>1, Ashore
  <2>2. CASE v # w
    BY <1>4, <1>11, <2>2 DEF Before, Content
  <2>. QED  BY <2>1, <2>2
<1>12. Content'
  BY <1>3, <1>11 DEF Before, Content
<1>. QED  BY <1>10, <1>12

LEMMA FileStep ==
  ASSUME Before, NEW id \in Ids, UNCHANGED <<task, controls, client, cancelAsked>>,
         \A w \in Owners : task[w].id # id,
         \A i \in Ids \ {id} : artifact'[i] = artifact[i] /\ row'[i] = row[i],
         id \in Trusted => Sound(artifact'[id], row'[id])
  PROVE  Asked' /\ Content'
<1>1. Asked'
  BY AskedAlone DEF Before, Asked
<1>2. Trusted' = Trusted
  BY DEF Trusted
<1>3. ASSUME NEW i \in Trusted PROVE Sound(artifact'[i], row'[i])
  <2>1. CASE i = id
    BY <1>3, <2>1
  <2>2. CASE i # id
    <3>1. artifact'[i] = artifact[i] /\ row'[i] = row[i]
      BY <2>2 DEF Trusted
    <3>. QED  BY <3>1 DEF Before, Content
  <2>. QED  BY <2>1, <2>2
<1>4. ASSUME NEW w \in Workers, task[w].id \in Trusted
      PROVE  Carries(task[w], artifact'[task[w].id], row'[task[w].id])
  <2>1. CASE task[w].id = id
    <3>1. task[w].pc \notin PrePermit \cup Holding
      BY <2>1 DEF Owners
    <3>. QED  BY <3>1, Ashore DEF Holding
  <2>2. CASE task[w].id # id
    <3>1. artifact'[task[w].id] = artifact[task[w].id] /\ row'[task[w].id] = row[task[w].id]
      BY <1>4, <2>2 DEF Trusted
    <3>2. Carries(task[w], artifact[task[w].id], row[task[w].id])
      BY <1>4 DEF Before, Content
    <3>. QED  BY <3>1, <3>2
  <2>. QED  BY <2>1, <2>2
<1>. QED  BY <1>1, <1>2, <1>3, <1>4 DEF Content

LEMMA TamperWhole ==
  ASSUME Before, NEW id \in Ids, Tamper(id) PROVE Asked' /\ Content'
<1>1. artifact \in [Ids -> FileType]
  BY DEF Before, Typed, TypeOK
<1>2. UNCHANGED <<row, task, controls, client, cancelAsked>>
      /\ \A w \in Owners : task[w].id # id
  BY DEF Tamper, engine, OwnersOf
<1>3. \A i \in Ids \ {id} : artifact'[i] = artifact[i]
  BY <1>1 DEF Tamper
<1>4. ASSUME id \in Trusted PROVE Sound(artifact'[id], row[id])
  <2>1. Fine(artifact[id]) /\ artifact[id] # OldFile
    BY <1>4 DEF Before, Content, Sound, Tamper
  <2>2. CASE artifact' = [artifact EXCEPT ![id] = NoFile]
    <3>1. artifact'[id] = NoFile
      BY <1>1, <2>2
    <3>. QED  BY <3>1, OldFacts DEF Sound, Fine
  <2>3. ASSUME NEW n \in 0 .. FileLen(artifact[id]) - 1,
               artifact' = [artifact EXCEPT ![id] = SetLen(@, n)]
        PROVE  Sound(artifact'[id], row[id])
    <3>1. artifact'[id] = SetLen(artifact[id], n)
      BY <1>1, <2>3
    <3>2. FileLen(artifact[id]) \in Nat
      BY <1>1 DEF FileType, FileLen
    <3>3. n \in Nat /\ n <= FileLen(artifact[id])
      BY <2>3, <3>2
    <3>4. artifact'[id] = Prefix(n) /\ n \in 0 .. Size
      BY <2>1, <3>1, <3>3, CutFile
    <3>. QED  BY <3>4, PrefixSound
  <2>. QED  BY <2>2, <2>3 DEF Tamper
<1>. QED  BY <1>2, <1>3, <1>4, FileStep

LEMMA EnqueueWhole ==
  ASSUME Before, Attended, NEW id \in Ids, NEW dir \in {"down", "up"}, NEW k \in LiveConns,
         NEW before \in {NoFile, OldFile}, Enqueue(id, dir, k, before)
  PROVE  Asked' /\ Content'
<1>1. artifact \in [Ids -> FileType] /\ row \in [Ids -> RowType]
  BY DEF Before, Typed, TypeOK
<1>2. UNCHANGED <<task, controls, client, cancelAsked>> /\ \A w \in Owners : task[w].id # id
  BY DEF Enqueue, Attended
<1>3. /\ \A i \in Ids \ {id} : artifact'[i] = artifact[i] /\ row'[i] = row[i]
      /\ artifact'[id] = before /\ row'[id].bytes = 0
  BY <1>1 DEF Enqueue
<1>4. Sound(artifact'[id], row'[id])
  BY <1>3 DEF Sound, Fine
<1>. QED  BY <1>2, <1>3, <1>4, FileStep

LEMMA PanelWhole ==
  ASSUME Before,
         \/ UNCHANGED vars \/ ClearCompleted
         \/ \E id \in Ids : Redundant(id)
         \/ \E c \in Clients, id \in Ids, op \in {"pause", "resume", "cancel", "clear"} :
              Click(c, id, op)
         \/ \E s \in Servers : Connect(s)
         \/ \E k \in ConnIds : Disconnect(k)
  PROVE  Asked' /\ Content'
<1>1. UNCHANGED <<artifact, task, controls>> /\ cancelAsked \subseteq cancelAsked'
  BY DEF vars, engine, ClearCompleted, Redundant, Click, Connect, Disconnect
<1>r. row \in [Ids -> RowType] /\ client \in [Clients -> ClientType]
  BY DEF Before, Typed, TypeOK
<1>2. RowsKept
  <2>1. UNCHANGED row => RowsKept
    BY DEF RowsKept
  <2>2. CASE ClearCompleted
    <3>1. \A id \in Ids : row'[id] \in {Removed(id), row[id]}
      BY <2>2 DEF ClearCompleted
    <3>. QED  BY <1>r, <3>1, RemovedKeeps DEF RowsKept
  <2>. QED  BY <2>1, <2>2 DEF vars, Redundant, Click, Connect, Disconnect
<1>3. \A c \in Clients : client[c].pc \in Cancelling => client[c].id \in cancelAsked
  BY DEF Before, Asked
<1>4. \A c \in Clients : client'[c].pc \in Cancelling => client'[c].id \in cancelAsked'
  <2>1. CASE UNCHANGED client
    BY <1>1, <1>3, <2>1
  <2>2. ASSUME NEW c \in Clients, NEW id \in Ids, NEW op \in {"pause", "resume", "cancel", "clear"},
               Click(c, id, op)
        PROVE  \A d \in Clients : client'[d].pc \in Cancelling => client'[d].id \in cancelAsked'
    <3>1. PICK k : client' = [client EXCEPT ![c] = [pc |-> op, id |-> id, conn |-> k]]
      BY <2>2 DEF Click
    <3>2. op = "cancel" => id \in cancelAsked'
      BY <2>2 DEF Click
    <3>. QED  BY <1>1, <1>3, <1>r, <3>1, <3>2 DEF Cancelling
  <2>. QED  BY <2>1, <2>2 DEF vars, ClearCompleted, Redundant, Connect, Disconnect
<1>. QED  BY <1>1, <1>2, <1>4, RowsAlone, UntouchedContent, AskedAlone DEF Before

\* A file that loses its last chunk in a crash is still the beginning of the whole.
LEMMA RestartWhole == ASSUME Before, Restart PROVE Asked' /\ Content'
<1>1. row \in [Ids -> RowType] /\ artifact \in [Ids -> FileType]
  BY DEF Before, Typed, TypeOK
<1>2. /\ task' = [w \in Workers |-> IdleTask] /\ client' = [c \in Clients |-> IdleClient]
      /\ controls' = [id \in Ids |-> NoWorker] /\ row' = [id \in Ids |-> Recovered(id)]
      /\ UNCHANGED cancelAsked
  BY DEF Restart
<1>3. IdleTask.flag = "run" /\ IdleTask.pc = "idle" /\ IdleTask.id \notin Ids
      /\ IdleClient.pc = "idle"
  BY DEF IdleTask, IdleClient
<1>4. Asked'
  BY <1>2, <1>3 DEF Asked, Cancelling
<1>5. PICK torn \in SUBSET {id \in Ids : row[id].dir = "down" /\ FileLen(artifact[id]) > 0
                              /\ \E w \in OwnersOf(id) : task[w].pc = "streaming"} :
        artifact' = [id \in Ids |->
          IF id \in torn THEN SetLen(artifact[id], Len(artifact[id]) - 1) ELSE artifact[id]]
  BY DEF Restart
<1>6. \A id \in Ids : row'[id].dir = row[id].dir /\ row'[id].bytes = row[id].bytes
  BY <1>1, <1>2 DEF Recovered, RowType
<1>7. ASSUME NEW id \in Trusted PROVE Sound(artifact'[id], row'[id])
  <2>1. id \in Ids /\ Sound(artifact[id], row[id])
    BY DEF Before, Content, Trusted
  <2>2. CASE id \notin torn
    <3>1. artifact'[id] = artifact[id]
      BY <1>5, <2>1, <2>2
    <3>. QED  BY <1>6, <2>1, <3>1 DEF Sound
  <2>3. CASE id \in torn
    <3>1. row[id].dir = "down" /\ FileLen(artifact[id]) > 0
      BY <1>5, <2>3
    <3>2. PICK w \in Workers : task[w].id = id /\ task[w].pc = "streaming"
      BY <1>5, <2>3 DEF OwnersOf, Owners
    <3>3. artifact[id] = Prefix(task[w].off) /\ task[w].off <= Size /\ task[w].off \in Nat
      BY <3>1, <3>2, InHand DEF Carries
    <3>4. Len(artifact[id]) = task[w].off /\ FileLen(artifact[id]) = task[w].off
      BY <3>3, PrefixFacts
    <3> DEFINE m == task[w].off - 1
    <3>5. m \in Nat /\ m <= FileLen(artifact[id]) /\ m \in 0 .. Size
      BY <3>1, <3>3, <3>4
    <3>6. artifact[id] # OldFile
      BY <3>3, OldFacts
    <3>7. SetLen(artifact[id], m) = Prefix(m)
      BY <2>1, <3>5, <3>6, CutFile DEF Sound
    <3>8. artifact'[id] = Prefix(m)
      BY <1>5, <2>1, <2>3, <3>4, <3>7
    <3>. QED  BY <3>5, <3>8, PrefixSound
  <2>. QED  BY <2>2, <2>3
<1>8. Trusted' = Trusted /\ \A w \in Workers : task'[w].id \notin Trusted
  BY <1>2, <1>3 DEF Trusted
<1>. QED  BY <1>4, <1>7, <1>8 DEF Content

LEMMA WholeInit == Init => Asked /\ Content
<1> SUFFICES ASSUME Init PROVE Asked /\ Content
  OBVIOUS
<1>1. IdleTask.flag = "run" /\ IdleTask.pc = "idle" /\ IdleTask.id \notin Ids
      /\ IdleClient.pc = "idle" /\ NoRow.bytes = 0
  BY DEF IdleTask, IdleClient, NoRow
<1>2. Asked
  BY <1>1 DEF Init, Asked, Cancelling
<1>3. \A id \in Ids : Sound(NoFile, NoRow)
  BY <1>1, OldFacts DEF Sound, Fine
<1>4. Content
  BY <1>1, <1>3 DEF Init, Content, Trusted
<1>. QED  BY <1>2, <1>4

LEMMA WholeStep ==
  Before /\ Attended /\ StreamsAtHome /\ [Next]_vars => Asked' /\ Content'
<1> SUFFICES ASSUME Before, Attended, StreamsAtHome, [Next]_vars PROVE Asked' /\ Content'
  OBVIOUS
<1>1. ASSUME NEW id \in Ids, Claim(id) \/ Tamper(id) PROVE Asked' /\ Content'
  BY <1>1, ClaimWhole, TamperWhole
<1>2. ASSUME NEW w \in Workers, WorkerStep(w) \/ Acquire(w) PROVE Asked' /\ Content'
  BY <1>2, WorkerWhole
<1>3. ASSUME NEW id \in Ids, NEW dir \in {"down", "up"}, NEW k \in LiveConns,
             NEW before \in {NoFile, OldFile}, Enqueue(id, dir, k, before)
      PROVE  Asked' /\ Content'
  BY <1>3, EnqueueWhole
<1>4. ASSUME NEW c \in Clients, CommandStep(c) PROVE Asked' /\ Content'
  BY <1>4, CommandWhole
<1>5. CASE Restart
  BY <1>5, RestartWhole
<1>6. CASE \/ UNCHANGED vars \/ ClearCompleted
           \/ \E id \in Ids : Redundant(id)
           \/ \E c \in Clients, id \in Ids, op \in {"pause", "resume", "cancel", "clear"} :
                Click(c, id, op)
           \/ \E s \in Servers : Connect(s)
           \/ \E k \in ConnIds : Disconnect(k)
  BY <1>6, PanelWhole
<1>. QED  BY <1>1, <1>2, <1>3, <1>4, <1>5, <1>6 DEF Next

\* The one step that marks a row completed.
LEMMA OnlyRecorded ==
  ASSUME Typed, [Next]_vars, NEW id \in Ids, row[id].st # "completed", row'[id].st = "completed"
  PROVE  \E w \in Workers : RecordOutcome(w) /\ task[w].pc = "completed" /\ task[w].id = id
<1>r. row \in [Ids -> RowType]
  BY DEF Typed, TypeOK
<1>1. ASSUME NEW s, NEW i \in Ids, row' = SetStatus(i, s) PROVE s = "completed" /\ i = id
  BY <1>r, <1>1, SetStatusStatus
<1>2. row' # row
  OBVIOUS
<1>i. \A w \in Workers : task[w].pc # "idle" => task[w].id \in Ids
  BY DEF Typed, WellFormed
<1>3. ASSUME NEW w \in Workers, WorkerStep(w) \/ Acquire(w)
      PROVE  RecordOutcome(w) /\ task[w].pc = "completed" /\ task[w].id = id
  <2>1. ~Plain(w)
    BY DEF Plain, KeepsStatus
  <2>2. ~Register(w)
    <3>1. Register(w) => row' = SetStatus(task[w].id, "queued") /\ task[w].id \in Ids
      BY <1>i DEF Register
    <3>. QED  BY <1>1, <3>1
  <2>3. ~Release(w) /\ ~DropControl(w) /\ ~Acquire(w)
    BY <1>2 DEF Release, DropControl, Acquire
  <2>4. ~Begin(w)
    <3>1. Begin(w) => /\ task[w].id \in Ids
                      /\ row' = row \/ row' = SetStatus(task[w].id, "paused")
                                   \/ row' = SetStatus(task[w].id, "running")
      BY <1>i DEF Begin
    <3>. QED  BY <1>1, <1>2, <3>1
  <2>5. RecordOutcome(w)
    BY <1>3, <2>1, <2>2, <2>3, <2>4, PlainStep DEF WorkerStep
  <2>6. row' = SetStatus(task[w].id, task[w].pc) /\ task[w].id \in Ids
    BY <1>i, <2>5 DEF RecordOutcome
  <2>. QED  BY <1>1, <2>5, <2>6
<1>4. ~\E c \in Clients : CommandStep(c)
  <2> SUFFICES ASSUME NEW c \in Clients, CommandStep(c) PROVE FALSE
    OBVIOUS
  <2>1. client[c].pc # "idle" => client[c].id \in Ids
    BY DEF Typed, WellFormed
  <2>2. ~PauseSignal(c) /\ ~ResumeCheck(c) /\ ~CancelSignal(c) /\ ~CancelClean(c)
    BY <1>2 DEF PauseSignal, ResumeCheck, CancelSignal, CancelClean
  <2>3. ~PauseMark(c) /\ ~CancelMark(c)
    <3>1. PauseMark(c) \/ CancelMark(c) =>
            /\ client[c].id \in Ids
            /\ row' = SetStatus(client[c].id, "paused") \/ row' = SetStatus(client[c].id, "canceled")
      BY <2>1 DEF PauseMark, CancelMark
    <3>. QED  BY <1>1, <3>1
  <2>4. ~ResumeGo(c)
    <3>1. ResumeGo(c) => \A i \in Ids : row'[i].st = row[i].st
      BY <1>r, <2>1 DEF ResumeGo, RowType
    <3>. QED  BY <3>1
  <2>5. ~ClearOne(c)
    <3>1. ClearOne(c) => client[c].id \in Ids
            /\ (row' = row \/ row' = [row EXCEPT ![client[c].id] = Removed(client[c].id)])
      BY <2>1 DEF ClearOne
    <3>2. \A i \in Ids : Removed(i).st = "cleared"
      BY <1>r DEF Removed, RowType
    <3>. QED  BY <1>r, <1>2, <3>1, <3>2
  <2>. QED  BY <2>2, <2>3, <2>4, <2>5 DEF CommandStep
<1>5. ~ClearCompleted
  <2>1. \A i \in Ids : Removed(i).st = "cleared"
    BY <1>r DEF Removed, RowType
  <2>. QED  BY <2>1 DEF ClearCompleted
<1>6. ~\E i \in Ids, dir \in {"down", "up"}, k \in LiveConns, before \in {NoFile, OldFile} :
        Enqueue(i, dir, k, before)
  BY <1>r DEF Enqueue
<1>7. ~Restart
  <2>1. \A i \in Ids : Recovered(i).st = "completed" => row[i].st = "completed"
    BY <1>r DEF Recovered, RowType
  <2>. QED  BY <2>1 DEF Restart
<1>8. /\ ~\E i \in Ids : Claim(i) \/ Redundant(i) \/ Tamper(i)
      /\ ~\E c \in Clients, i \in Ids, op \in {"pause", "resume", "cancel", "clear"} :
            Click(c, i, op)
      /\ ~\E s \in Servers : Connect(s)
      /\ ~\E k \in ConnIds : Disconnect(k)
      /\ ~UNCHANGED vars
  BY <1>2 DEF Claim, Redundant, Tamper, Click, Connect, Disconnect, vars
<1>. QED  BY <1>3, <1>4, <1>5, <1>6, <1>7, <1>8 DEF Next

WholeInv == Asked /\ Content

LEMMA WholeAlways == SafetySpec /\ []StreamsAtHome => []WholeInv
<1>1. Init => WholeInv
  BY WholeInit DEF WholeInv
<1>2. Typed /\ GuardInv /\ Attended /\ StreamsAtHome /\ WholeInv /\ [Next]_vars => WholeInv'
  BY WholeStep DEF WholeInv, Before
<1>. QED  BY <1>1, <1>2, TypedAlways, GuardAlways, AttendedAlways, PTL DEF SafetySpec

\* What the worker finished is what the row then says is completed.
LEMMA RecordedWhole ==
  Typed /\ WholeInv /\ [Next]_vars =>
    [\A id \in Ids :
       row[id].st # "completed" /\ row'[id].st = "completed" /\ id \notin cancelAsked
         => artifact'[id] = Whole]_vars
<1> SUFFICES ASSUME Typed, WholeInv, [Next]_vars, NEW id \in Ids, row[id].st # "completed",
                    row'[id].st = "completed", id \notin cancelAsked
             PROVE  artifact'[id] = Whole
  OBVIOUS
<1>1. PICK w \in Workers : RecordOutcome(w) /\ task[w].pc = "completed" /\ task[w].id = id
  BY OnlyRecorded
<1>2. Carries(task[w], artifact[id], row[id])
  BY <1>1 DEF WholeInv, Content, Trusted
<1>. QED  BY <1>1, <1>2 DEF Carries, RecordOutcome

\* While every stream runs at the server its transfer was queued for, no order of
\* pauses, retries, resumes, restarts and truncated partials completes a transfer
\* with anything but the whole file: no hole, no leftover, no chunk twice.
THEOREM CompletedIsWhole == SafetySpec /\ []StreamsAtHome => CompletesWhole
  BY TypedAlways, WholeAlways, RecordedWhole, PTL DEF SafetySpec, CompletesWhole

----------------------------------------------------------------------------
(* With one server there is no other for a stream to run at. *)

AtWork == {"opening", "clamped", "streaming"}

\* Rows that are there, and workers at a file, have a server.
Served ==
  /\ \A id \in Ids : row[id].st # "none" => row[id].home \in Servers
  /\ \A w \in Workers : task[w].pc \in AtWork => task[w].srv \in Servers

\* No row is new, no worker begins.
Settled ==
  /\ \A id \in Ids : row'[id].home = row[id].home /\ (row'[id].st # "none" => row[id].st # "none")
  /\ \A w \in Workers : task'[w].pc \in AtWork =>
       task[w].pc \in AtWork /\ task'[w].srv = task[w].srv

LEMMA SettledServed == ASSUME Served, Settled PROVE Served'
  BY DEF Served, Settled

LEMMA ServedInit == Init => Served
  BY DEF Init, Served, NoRow, IdleTask, AtWork

SameHomes == \A id \in Ids : row'[id].home = row[id].home /\ (row'[id].st # "none" => row[id].st # "none")

LEMMA HomesKept ==
  ASSUME row \in [Ids -> RowType]
  PROVE  /\ UNCHANGED row => SameHomes
         /\ \A id \in Ids : \A s : row' = SetStatus(id, s) => SameHomes
         /\ \A id \in Ids : \A n : row' = SetBytes(id, n) => SameHomes
<1>1. UNCHANGED row => SameHomes
  BY DEF SameHomes
<1>2. ASSUME NEW id \in Ids, NEW s, row' = SetStatus(id, s) PROVE SameHomes
  BY <1>2, SetStatusStatus, SetStatusWithin DEF SameHomes, RowWithin, Status
<1>3. ASSUME NEW id \in Ids, NEW n, row' = SetBytes(id, n) PROVE SameHomes
  BY <1>3, SetBytesStatus, SetBytesWithin DEF SameHomes, RowWithin
<1>. QED  BY <1>1, <1>2, <1>3

LEMMA TaskSettled ==
  ASSUME NEW w \in Workers, \A v \in Workers \ {w} : task'[v] = task[v],
         task'[w].pc \in AtWork => task[w].pc \in AtWork /\ task'[w].srv = task[w].srv,
         SameHomes
  PROVE  Settled
  BY DEF Settled, SameHomes

LEMMA WorkerSettled ==
  ASSUME Typed, NEW w \in Workers, WorkerStep(w) \/ Acquire(w), ~Begin(w)
  PROVE  Settled
<1>t. task \in [Workers -> TaskType] /\ row \in [Ids -> RowType]
      /\ (task[w].pc # "idle" => task[w].id \in Ids)
  BY DEF Typed, TypeOK, WellFormed
<1>1. CASE Acquire(w) \/ WakeUp(w) \/ Release(w) \/ Cleanup(w) \/ UploadEnd(w)
  <2>1. \E pc : pc \notin AtWork /\ Goto(w, pc)
    BY <1>1 DEF Acquire, WakeUp, Release, Cleanup, UploadEnd, AtWork
  <2>2. TaskWithin(w) /\ task'[w].pc \notin AtWork
    BY <1>t, <2>1, GotoWithin
  <2>3. SameHomes
    BY <1>t, <1>1, HomesKept DEF Acquire, WakeUp, Release, Cleanup, UploadEnd
  <2>. QED  BY <2>2, <2>3, TaskSettled DEF TaskWithin
<1>2. CASE Register(w)
  <2>1. TaskWithin(w) /\ task'[w].pc = "waiting"
    BY <1>t, <1>2, GotoWithin DEF Register
  <2>2. SameHomes
    BY <1>t, <1>2, HomesKept DEF Register
  <2>. QED  BY <2>1, <2>2, TaskSettled DEF TaskWithin, AtWork
<1>3. CASE DropControl(w)
  <2>1. task' = [task EXCEPT ![w] = IdleTask] /\ UNCHANGED row
    BY <1>3 DEF DropControl
  <2>2. task'[w].pc = "idle" /\ \A v \in Workers \ {w} : task'[v] = task[v]
    BY <1>t, <2>1 DEF IdleTask
  <2>. QED  BY <1>t, <2>1, <2>2, HomesKept, TaskSettled DEF AtWork
<1>4. CASE RecordOutcome(w)
  <2>1. TaskWithin(w) /\ task'[w].pc = "exiting"
    BY <1>t, <1>4 DEF RecordOutcome, TaskWithin, TaskType
  <2>2. SameHomes
    BY <1>t, <1>4, HomesKept DEF RecordOutcome
  <2>. QED  BY <2>1, <2>2, TaskSettled DEF TaskWithin, AtWork
<1>5. CASE ClampOffset(w) \/ OpenDownload(w) \/ DownloadChunk(w) \/ OpenUpload(w) \/ UploadChunk(w)
  <2>1. task[w].pc \in AtWork
    BY <1>5 DEF ClampOffset, OpenDownload, DownloadChunk, OpenUpload, UploadChunk, Streams, AtWork
  <2>2. /\ \A v \in Workers \ {w} : task'[v] = task[v]
        /\ task'[w].srv = task[w].srv
    BY <1>t, <1>5 DEF ClampOffset, OpenDownload, DownloadChunk, OpenUpload, UploadChunk, TaskType
  <2>3. task[w].id \in Ids
    BY <1>t, <2>1 DEF AtWork
  <2>4. UNCHANGED row \/ \E n : row' = SetBytes(task[w].id, n)
    BY <1>5 DEF ClampOffset, OpenDownload, DownloadChunk, OpenUpload, UploadChunk
  <2>5. SameHomes
    BY <1>t, <2>3, <2>4, HomesKept
  <2>. QED  BY <2>1, <2>2, <2>5, TaskSettled
<1>6. CASE DownloadEnd(w) \/ Shutdown(w) \/ Observe(w)
  <2>1. \E pc : pc \notin AtWork /\ task' = Leave(task, w, pc)
    BY <1>6 DEF DownloadEnd, Shutdown, Observe, AtWork
  <2>2. TaskWithin(w) /\ task'[w].pc \notin AtWork
    BY <1>t, <2>1, LeaveWithin
  <2>3. task[w].id \in Ids
    BY <1>t, <1>6 DEF DownloadEnd, Shutdown, Observe, Streams
  <2>4. UNCHANGED row \/ \E n : row' = SetBytes(task[w].id, n)
    BY <1>6 DEF DownloadEnd, Shutdown, Observe
  <2>5. SameHomes
    BY <1>t, <2>3, <2>4, HomesKept
  <2>. QED  BY <2>2, <2>5, TaskSettled DEF TaskWithin
<1>7. CASE OpenFails(w) \/ StreamFails(w) \/ ShutdownFails(w)
  <2>1. PICK retryable \in BOOLEAN : Fail(w, retryable) /\ task[w].pc # "idle"
    BY <1>7 DEF OpenFails, StreamFails, ShutdownFails
  <2>2. TaskWithin(w) /\ task'[w].pc \in {"backoff", "failed"}
    BY <2>1, FailWithin
  <2>3. UNCHANGED row \/ \E n : row' = SetBytes(task[w].id, n)
    BY <2>1 DEF Fail
  <2>4. SameHomes
    BY <1>t, <2>1, <2>3, HomesKept
  <2>. QED  BY <2>2, <2>4, TaskSettled DEF TaskWithin, AtWork
<1>. QED  BY <1>1, <1>2, <1>3, <1>4, <1>5, <1>6, <1>7 DEF WorkerStep

LEMMA BeginServed ==
  ASSUME Typed, Served, NEW w \in Workers, Begin(w) PROVE Served'
<1>t. task \in [Workers -> TaskType] /\ row \in [Ids -> RowType]
      /\ (task[w].pc # "idle" => task[w].id \in Ids)
  BY DEF Typed, TypeOK, WellFormed
<1>1. SameHomes /\ task[w].id \in Ids
  BY <1>t, HomesKept DEF Begin
<1>2. CASE Goto(w, "exiting")
  <2>1. TaskWithin(w) /\ task'[w].pc = "exiting"
    BY <1>t, <1>2, GotoWithin
  <2>. QED  BY <1>1, <2>1, TaskSettled, SettledServed DEF TaskWithin, AtWork
<1>3. ASSUME NEW srv, NEW n, srv = Resolve(row[task[w].id].conn), srv # NoServer,
             task' = [task EXCEPT ![w].pc = "opening", ![w].srv = srv, ![w].off = n]
      PROVE  Served'
  <2>1. srv \in Servers
    BY <1>3 DEF Resolve, Typed, TypeOK
  <2>2. task'[w].srv = srv /\ \A v \in Workers \ {w} : task'[v] = task[v]
    BY <1>t, <1>3 DEF TaskType
  <2>. QED  BY <1>1, <2>1, <2>2 DEF Served, SameHomes
<1>. QED  BY <1>2, <1>3 DEF Begin

LEMMA CommandSettled ==
  ASSUME Typed, NEW c \in Clients, CommandStep(c) PROVE Settled
<1>t. task \in [Workers -> TaskType] /\ row \in [Ids -> RowType]
      /\ (client[c].pc # "idle" => client[c].id \in Ids)
  BY DEF Typed, TypeOK, WellFormed
<1>1. \A w \in Workers : task'[w].pc = task[w].pc /\ task'[w].srv = task[w].srv
  <2>1. ASSUME NEW id, NEW f, Signal(id, f), controls[id] \in Workers
        PROVE  \A w \in Workers : task'[w].pc = task[w].pc /\ task'[w].srv = task[w].srv
    BY <1>t, <2>1 DEF Signal, TaskType
  <2>2. ASSUME NEW id, task' = Unlink(task, id)
        PROVE  \A w \in Workers : task'[w].pc = task[w].pc /\ task'[w].srv = task[w].srv
    BY <1>t, <2>2 DEF Unlink, TaskType
  <2>3. \A id \in Ids : controls[id] # NoWorker => controls[id] \in Workers
    BY DEF Typed, TypeOK
  <2>4. CASE PauseSignal(c)
    BY <1>t, <2>1, <2>3, <2>4 DEF PauseSignal
  <2>5. CASE CancelSignal(c)
    BY <1>t, <2>1, <2>3, <2>5 DEF CancelSignal
  <2>6. CASE CancelClean(c)
    BY <2>2, <2>6 DEF CancelClean
  <2>7. CASE PauseMark(c) \/ ResumeCheck(c) \/ ResumeGo(c) \/ CancelMark(c) \/ ClearOne(c)
    BY <2>7 DEF PauseMark, ResumeCheck, ResumeGo, CancelMark, ClearOne, engine
  <2>. QED  BY <2>4, <2>5, <2>6, <2>7 DEF CommandStep
<1>2. SameHomes
  <2>1. CASE PauseSignal(c) \/ ResumeCheck(c) \/ CancelSignal(c) \/ CancelClean(c)
    BY <1>t, <2>1, HomesKept DEF PauseSignal, ResumeCheck, CancelSignal, CancelClean
  <2>2. CASE PauseMark(c) \/ CancelMark(c)
    BY <1>t, <2>2, HomesKept DEF PauseMark, CancelMark
  <2>3. CASE ResumeGo(c)
    BY <1>t, <2>3 DEF ResumeGo, SameHomes, RowType
  <2>4. CASE ClearOne(c)
    <3>1. client[c].id \in Ids
      BY <1>t, <2>4 DEF ClearOne
    <3>2. \/ UNCHANGED row
          \/ /\ Present(client[c].id)
             /\ row' = [row EXCEPT ![client[c].id] = Removed(client[c].id)]
      BY <2>4 DEF ClearOne
    <3>. QED  BY <1>t, <3>1, <3>2, HomesKept, RemovedKeeps DEF SameHomes, Present, Status
  <2>. QED  BY <2>1, <2>2, <2>3, <2>4 DEF CommandStep
<1>. QED  BY <1>1, <1>2 DEF Settled, SameHomes

LEMMA ServedStep == Typed /\ Served /\ [Next]_vars => Served'
<1> SUFFICES ASSUME Typed, Served, [Next]_vars PROVE Served'
  OBVIOUS
<1>t. task \in [Workers -> TaskType] /\ row \in [Ids -> RowType]
  BY DEF Typed, TypeOK
<1>1. ASSUME NEW w \in Workers, WorkerStep(w) \/ Acquire(w) PROVE Served'
  BY <1>1, WorkerSettled, BeginServed, SettledServed
<1>2. ASSUME NEW c \in Clients, CommandStep(c) PROVE Served'
  BY <1>2, CommandSettled, SettledServed
<1>3. ASSUME NEW id \in Ids, Claim(id) PROVE Served'
  <2>1. PICK w \in Workers :
          task'[w].pc = "claimed" /\ task' = [task EXCEPT ![w] = task'[w]] /\ UNCHANGED row
    BY <1>3, ClaimMove
  <2>2. \A v \in Workers \ {w} : task'[v] = task[v]
    BY <1>t, <2>1
  <2>. QED  BY <1>t, <2>1, <2>2, HomesKept, TaskSettled, SettledServed DEF AtWork
<1>4. ASSUME NEW id \in Ids, NEW dir \in {"down", "up"}, NEW k \in LiveConns,
             NEW before \in {NoFile, OldFile}, Enqueue(id, dir, k, before)
      PROVE  Served'
  <2>1. conns[k] \in Servers
    BY DEF LiveConns, Typed, TypeOK
  <2>2. row'[id].home = conns[k] /\ \A i \in Ids \ {id} : row'[i] = row[i]
    BY <1>t, <1>4 DEF Enqueue
  <2>. QED  BY <1>4, <2>1, <2>2 DEF Served, Enqueue
<1>5. CASE Restart
  <2>1. \A id \in Ids : Recovered(id).home = row[id].home
                        /\ (Recovered(id).st # "none" => row[id].st # "none")
    BY <1>t DEF Recovered, RowType
  <2>. QED  BY <1>5, <2>1 DEF Restart, Served, IdleTask, AtWork
<1>6. CASE ClearCompleted
  <2>1. \A id \in Ids : row'[id] = IF row[id].st \in Terminal THEN Removed(id) ELSE row[id]
    BY <1>6 DEF ClearCompleted
  <2>2. SameHomes
    BY <1>t, <2>1, RemovedKeeps DEF SameHomes, Terminal
  <2>. QED  BY <1>6, <2>2, SettledServed DEF ClearCompleted, engine, Settled, SameHomes
<1>7. ASSUME UNCHANGED <<row, task>> PROVE Served'
  BY <1>7 DEF Served
<1>8. CASE \/ UNCHANGED vars
           \/ \E id \in Ids : Redundant(id) \/ Tamper(id)
           \/ \E c \in Clients, id \in Ids, op \in {"pause", "resume", "cancel", "clear"} :
                Click(c, id, op)
           \/ \E s \in Servers : Connect(s)
           \/ \E k \in ConnIds : Disconnect(k)
  BY <1>7, <1>8 DEF vars, engine, Redundant, Tamper, Click, Connect, Disconnect
<1>. QED  BY <1>1, <1>2, <1>3, <1>4, <1>5, <1>6, <1>8 DEF Next

LEMMA OneHome ==
  ASSUME \A s, t \in Servers : s = t
  PROVE  Typed /\ Attended /\ Served => StreamsAtHome
<1> SUFFICES ASSUME Typed, Attended, Served, NEW w \in Workers, task[w].pc = "streaming"
             PROVE  task[w].srv = row[task[w].id].home
  BY DEF StreamsAtHome
<1>1. w \in Owners /\ task[w].id \in Ids
  BY DEF Typed, WellFormed, Owners, Holding
<1>2. row[task[w].id].st # "none"
  BY <1>1 DEF Attended
<1>3. task[w].srv \in Servers /\ row[task[w].id].home \in Servers
  BY <1>1, <1>2 DEF Served, AtWork
<1>. QED  BY <1>3

\* Where there is but one server, nothing more is needed.
THEOREM CompletedIsWholeAlone ==
  ASSUME \A s, t \in Servers : s = t
  PROVE  SafetySpec => CompletesWhole
<1>1. SafetySpec => []Served
  BY TypedAlways, ServedInit, ServedStep, PTL DEF SafetySpec
<1>2. Typed /\ Attended /\ Served => StreamsAtHome
  BY OneHome
<1>3. SafetySpec => []StreamsAtHome
  BY <1>1, <1>2, TypedAlways, AttendedAlways, PTL
<1>. QED  BY <1>3, CompletedIsWhole, PTL

============================================================================
