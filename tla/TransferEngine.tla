--------------------------- MODULE TransferEngine ---------------------------
(***************************************************************************)
(* The persistent transfer queue (wonderblob-core, transfer/engine.rs) with *)
(* its SQLite store, the tokio tasks that move the bytes, the commands the  *)
(* Transfers panel sends, connections that come and go, and a crash of the  *)
(* process between any two steps.                                           *)
(*                                                                          *)
(* One step is what the code does under one lock or one store call; steps   *)
(* that touch nothing another process can change between them are merged,   *)
(* and each merge is named where it is made.                                *)
(***************************************************************************)
EXTENDS Integers, FiniteSets, Sequences

CONSTANTS
  Ids,            \* transfer rows that can ever be created
  Workers,        \* slots for the tokio tasks that hold, or just held, an id
  Clients,        \* command invocations that can be in flight together
  Servers,        \* the machines a connection can lead to
  InPlace,        \* the servers whose write() truncates the object (SFTP)
  MaxConns,       \* connections one run of the program can open
  MaxWorkers,     \* EngineConfig.max_workers
  MaxRetries,     \* EngineConfig.max_retries
  Size,           \* length of every transferred file, in chunks
  MaxSpawned,     \* bound on tasks of one id that have not started yet
  NoServer, NoFile, NoWorker, NoId

ConnIds == 0 .. MaxConns - 1
NoConn == -1

ASSUME EngineAssumption ==
  /\ MaxWorkers \in Nat \ {0}
  /\ MaxRetries \in Nat
  /\ MaxConns \in Nat
  /\ Size \in Nat
  /\ MaxSpawned \in Nat
  /\ InPlace \subseteq Servers
  /\ NoServer \notin Servers
  /\ NoWorker \notin Workers
  /\ NoId \notin Ids

VARIABLES
  row,        \* the transfers table: status, direction, connection, offset
  artifact,   \* the file each transfer writes: local if down, remote if up
  conns,      \* AppState: which server each open connection id leads to
  nextConn,   \* AppState.next_id, back at 0 in every run of the program
  spawned,    \* tasks tokio::spawn has created and not yet polled
  task,       \* the worker tasks that got past the in-flight guard
  inflight,   \* TransferEngine.inflight
  controls,   \* TransferEngine.controls: whose flag is registered for an id
  permits,    \* free permits of the semaphore
  client,     \* the commands in flight
  cancelAsked \* history: the ids the user has asked to cancel

engine == <<spawned, task, inflight, controls, permits>>
vars == <<row, artifact, conns, nextConn, engine, client, cancelAsked>>

----------------------------------------------------------------------------
(* Data. A file is the sequence of its chunks: "data" is the chunk the       *)
(* transfer is meant to carry, "old" what a file held before the transfer,   *)
(* "zero" a hole left by extending a file, "alien" another server's bytes.   *)

Status == {"queued", "running", "paused", "completed", "failed", "canceled"}
Terminal == {"completed", "failed", "canceled"}
Chunk == {"data", "old", "zero", "alien"}
Flag == {"run", "pause", "cancel"}

ASSUME FileAssumption == NoFile \notin Seq(Chunk)

Whole == [i \in 1 .. Size |-> "data"]
OldFile == [i \in 1 .. Size + 1 |-> "old"]

FileLen(f) == IF f = NoFile THEN 0 ELSE Len(f)

\* File::set_len: cut, or extend with zeros.
SetLen(f, n) == [i \in 1 .. n |-> IF i <= FileLen(f) THEN f[i] ELSE "zero"]

\* A write at position off of a file that holds at most off chunks.
WriteAt(f, off, c) == Append(SetLen(f, off), c)

Lower(m, n) == IF m < n THEN m ELSE n

NoRow == [st |-> "none", dir |-> "down", conn |-> NoConn, home |-> NoServer, bytes |-> 0]
IdleTask == [pc |-> "idle", id |-> NoId, flag |-> "run", off |-> 0,
             tries |-> 0, srv |-> NoServer, linked |-> FALSE]
IdleClient == [pc |-> "idle", id |-> NoId, conn |-> NoConn]

\* A row the table still holds: neither unborn nor deleted.
Present(id) == row[id].st \in Status

\* TransferStore::set_status and update_progress: an UPDATE of a row that is gone changes nothing.
SetStatus(id, s) == [row EXCEPT ![id].st = IF Present(id) THEN s ELSE @]
SetBytes(id, n) == [row EXCEPT ![id].bytes = IF Present(id) THEN n ELSE @]

\* BackendResolver::resolve.
Resolve(k) == IF k \in ConnIds THEN conns[k] ELSE NoServer

\* Worker pcs, in the order a worker meets them.
PrePermit == {"claimed", "waiting"}
Holding == {"ready", "opening", "clamped", "streaming", "finishing", "cleanup",
            "backoff", "completed", "paused", "canceled", "failed", "exiting"}
WorkerPC == {"idle", "dropping"} \cup PrePermit \cup Holding

\* The workers that wait for a permit, that have one, and that own an id.
Waiters == {w \in Workers : task[w].pc \in PrePermit}
Holders == {w \in Workers : task[w].pc \in Holding}
Owners == {w \in Workers : task[w].pc \in PrePermit \cup Holding}
OwnersOf(id) == {w \in Owners : task[w].id = id}

Goto(w, pc) == task' = [task EXCEPT ![w].pc = pc]

\* The worker returns from a stream: its offset and its handle go out of scope.
Leave(t, w, pc) ==
  [t EXCEPT ![w].pc = pc, ![w].off = 0, ![w].linked = FALSE]

\* Unlinking the artifact leaves an open handle writing to a file with no name.
Unlink(t, id) ==
  [w \in Workers |-> IF t[w].id = id THEN [t[w] EXCEPT !.linked = FALSE] ELSE t[w]]

----------------------------------------------------------------------------
Init ==
  /\ row = [id \in Ids |-> NoRow]
  /\ artifact = [id \in Ids |-> NoFile]
  /\ conns = [k \in ConnIds |-> NoServer]
  /\ nextConn = 0
  /\ spawned = [id \in Ids |-> 0]
  /\ task = [w \in Workers |-> IdleTask]
  /\ inflight = {}
  /\ controls = [id \in Ids |-> NoWorker]
  /\ permits = MaxWorkers
  /\ client = [c \in Clients |-> IdleClient]
  /\ cancelAsked = {}

----------------------------------------------------------------------------
(* TransferEngine::spawn *)

\* Mutant: the in-flight set is not consulted.
ClaimUnguarded(id) ==
  /\ spawned[id] > 0
  /\ \E w \in Workers :
       /\ task[w].pc = "idle"
       /\ task' = [task EXCEPT ![w] = [IdleTask EXCEPT !.pc = "claimed", !.id = id]]
  /\ inflight' = inflight \cup {id}
  /\ spawned' = [spawned EXCEPT ![id] = @ - 1]
  /\ UNCHANGED <<row, artifact, conns, nextConn, controls, permits, client, cancelAsked>>

\* A polled task wins the in-flight slot.
Claim(id) ==
  /\ spawned[id] > 0
  /\ id \notin inflight
  /\ \E w \in Workers :
       /\ task[w].pc = "idle"
       /\ task' = [task EXCEPT ![w] = [IdleTask EXCEPT !.pc = "claimed", !.id = id]]
  /\ inflight' = inflight \cup {id}
  /\ spawned' = [spawned EXCEPT ![id] = @ - 1]
  /\ UNCHANGED <<row, artifact, conns, nextConn, controls, permits, client, cancelAsked>>

\* A polled task finds the slot taken and ends.
Redundant(id) ==
  /\ spawned[id] > 0
  /\ id \in inflight
  /\ spawned' = [spawned EXCEPT ![id] = @ - 1]
  /\ UNCHANGED <<row, artifact, conns, nextConn, task, inflight, controls, permits,
                 client, cancelAsked>>

\* Insert the control flag, then mark the row queued: a command that comes
\* between the two finds the flag, as it does after both.
Register(w) ==
  /\ task[w].pc = "claimed"
  /\ controls' = [controls EXCEPT ![task[w].id] = w]
  /\ row' = SetStatus(task[w].id, "queued")
  /\ Goto(w, "waiting")
  /\ UNCHANGED <<artifact, conns, nextConn, spawned, inflight, permits, client, cancelAsked>>

\* Mutant: a worker that goes on without a permit.
AcquireUncapped(w) ==
  /\ task[w].pc = "waiting"
  /\ permits' = IF permits > 0 THEN permits - 1 ELSE 0
  /\ Goto(w, "ready")
  /\ UNCHANGED <<row, artifact, conns, nextConn, spawned, inflight, controls, client,
                 cancelAsked>>

Acquire(w) ==
  /\ task[w].pc = "waiting"
  /\ permits > 0
  /\ permits' = permits - 1
  /\ Goto(w, "ready")
  /\ UNCHANGED <<row, artifact, conns, nextConn, spawned, inflight, controls, client,
                 cancelAsked>>

\* Mutant: the guard leaves the in-flight slot taken.
ReleaseKeepsSlot(w) ==
  /\ task[w].pc = "exiting"
  /\ permits' = permits + 1
  /\ Goto(w, "dropping")
  /\ UNCHANGED <<row, artifact, conns, nextConn, spawned, inflight, controls, client,
                 cancelAsked>>

\* Mutant: the permit is forgotten when the row had already been removed.
ReleaseLeaksPermit(w) ==
  /\ task[w].pc = "exiting"
  /\ permits' = IF Present(task[w].id) THEN permits + 1 ELSE permits
  /\ inflight' = inflight \ {task[w].id}
  /\ Goto(w, "dropping")
  /\ UNCHANGED <<row, artifact, conns, nextConn, spawned, controls, client, cancelAsked>>

\* The permit is dropped at the end of the task's body; then the guard's drop
\* runs and first gives up the in-flight slot.
Release(w) ==
  /\ task[w].pc = "exiting"
  /\ permits' = permits + 1
  /\ inflight' = inflight \ {task[w].id}
  /\ Goto(w, "dropping")
  /\ UNCHANGED <<row, artifact, conns, nextConn, spawned, controls, client, cancelAsked>>

\* The guard's second lock: it removes whatever flag the id has by then.
DropControl(w) ==
  /\ task[w].pc = "dropping"
  /\ controls' = [controls EXCEPT ![task[w].id] = NoWorker]
  /\ task' = [task EXCEPT ![w] = IdleTask]
  /\ UNCHANGED <<row, artifact, conns, nextConn, spawned, inflight, permits, client,
                 cancelAsked>>

----------------------------------------------------------------------------
(* TransferEngine::run_transfer *)

\* Read the row, resolve its connection, and write what that decides. The row
\* the worker goes on with is this copy: here, its offset and its backend.
Begin(w) ==
  LET id  == task[w].id
      srv == Resolve(row[id].conn)
  IN
  /\ task[w].pc = "ready"
  /\ \/ /\ ~Present(id)
        /\ Goto(w, "exiting")
        /\ UNCHANGED row
     \/ /\ Present(id)
        /\ srv = NoServer
        /\ row' = SetStatus(id, "paused")
        /\ Goto(w, "exiting")
     \/ /\ Present(id)
        /\ srv # NoServer
        /\ row' = SetStatus(id, "running")
        /\ task' = [task EXCEPT ![w].pc = "opening", ![w].srv = srv, ![w].off = row[id].bytes]
  /\ UNCHANGED <<artifact, conns, nextConn, spawned, inflight, controls, permits, client,
                 cancelAsked>>

\* Mutant: retryable errors are retried without end.
FailRetriesForever(w, retryable) ==
  LET id == task[w].id IN
  /\ task' = IF retryable THEN Leave([task EXCEPT ![w].tries = @ + 1], w, "backoff")
                           ELSE Leave(task, w, "failed")
  /\ row' = IF retryable /\ row[id].dir = "up" THEN SetBytes(id, 0) ELSE row

\* Mutant: the attempt is not counted.
FailUncounted(w, retryable) ==
  LET id    == task[w].id
      retry == retryable /\ task[w].tries < MaxRetries
  IN
  /\ task' = Leave(task, w, IF retry THEN "backoff" ELSE "failed")
  /\ row' = IF retry /\ row[id].dir = "up" THEN SetBytes(id, 0) ELSE row

\* An error of a stream. It is retried while attempts are left, an upload from
\* its beginning; the control flag is not looked at.
Fail(w, retryable) ==
  LET id    == task[w].id
      retry == retryable /\ task[w].tries < MaxRetries
  IN
  /\ task' = IF retry THEN Leave([task EXCEPT ![w].tries = @ + 1], w, "backoff")
                       ELSE Leave(task, w, "failed")
  /\ row' = IF retry /\ row[id].dir = "up" THEN SetBytes(id, 0) ELSE row

WakeUp(w) ==
  /\ task[w].pc = "backoff"
  /\ Goto(w, "ready")
  /\ UNCHANGED <<row, artifact, conns, nextConn, spawned, inflight, controls, permits,
                 client, cancelAsked>>

\* What a canceled worker does before it records the outcome.
Cleanup(w) ==
  LET id == task[w].id IN
  /\ task[w].pc = "cleanup"
  /\ IF row[id].dir = "down" \/ task[w].srv = row[id].home
       THEN artifact' = [artifact EXCEPT ![id] = NoFile]
       ELSE UNCHANGED artifact
  /\ Goto(w, "canceled")
  /\ UNCHANGED <<row, conns, nextConn, spawned, inflight, controls, permits, client,
                 cancelAsked>>

\* An outcome carries the name of the status it ends in.
RecordOutcome(w) ==
  /\ task[w].pc \in {"completed", "paused", "canceled", "failed"}
  /\ row' = SetStatus(task[w].id, task[w].pc)
  /\ task' = [task EXCEPT ![w].pc = "exiting", ![w].srv = NoServer, ![w].tries = 0]
  /\ UNCHANGED <<artifact, conns, nextConn, spawned, inflight, controls, permits, client,
                 cancelAsked>>

----------------------------------------------------------------------------
(* TransferEngine::stream_download *)

\* What the worker's connection delivers: its own server's bytes or another's.
Delivered(w) == IF task[w].srv = row[task[w].id].home THEN "data" ELSE "alien"

\* Mutant: the persisted offset is trusted.
ClampNothing(w) ==
  /\ task[w].pc = "opening"
  /\ row[task[w].id].dir = "down"
  /\ Goto(w, "clamped")
  /\ UNCHANGED <<row, artifact, conns, nextConn, spawned, inflight, controls, permits,
                 client, cancelAsked>>

\* Clamp the persisted offset to the partial file's length, and persist that.
ClampOffset(w) ==
  LET id  == task[w].id
      off == Lower(task[w].off, FileLen(artifact[id]))
  IN
  /\ task[w].pc = "opening"
  /\ row[id].dir = "down"
  /\ task' = [task EXCEPT ![w].pc = "clamped", ![w].off = off]
  /\ row' = IF off # task[w].off THEN SetBytes(id, off) ELSE row
  /\ UNCHANGED <<artifact, conns, nextConn, spawned, inflight, controls, permits, client,
                 cancelAsked>>

\* The backend's answer to read() comes in between; then the file is opened and
\* cut to the offset chosen before.
OpenDownload(w) ==
  LET id == task[w].id IN
  /\ task[w].pc = "clamped"
  /\ artifact' = [artifact EXCEPT ![id] = SetLen(@, task[w].off)]
  /\ task' = [task EXCEPT ![w].pc = "streaming", ![w].linked = TRUE]
  /\ UNCHANGED <<row, conns, nextConn, spawned, inflight, controls, permits, client,
                 cancelAsked>>

\* Between two chunks both streams look at the flag; "run" lets them go on. The
\* look and the chunk are one step: a flag set in between acts as one set after.
Streams(w, dir) ==
  /\ task[w].pc = "streaming"
  /\ task[w].flag = "run"
  /\ row[task[w].id].dir = dir

\* One chunk read and written; its progress is persisted or skipped (throttled).
DownloadChunk(w) ==
  LET id  == task[w].id
      off == task[w].off
  IN
  /\ Streams(w, "down")
  /\ off < Size
  /\ artifact' = IF task[w].linked
                   THEN [artifact EXCEPT ![id] = WriteAt(@, off, Delivered(w))]
                   ELSE artifact
  /\ task' = [task EXCEPT ![w].off = off + 1]
  /\ row' \in {row, SetBytes(id, off + 1)}
  /\ UNCHANGED <<conns, nextConn, spawned, inflight, controls, permits, client, cancelAsked>>

\* End of the remote file: flush and persist the final offset.
DownloadEnd(w) ==
  /\ Streams(w, "down")
  /\ task[w].off >= Size
  /\ row' = SetBytes(task[w].id, task[w].off)
  /\ task' = Leave(task, w, "completed")
  /\ UNCHANGED <<artifact, conns, nextConn, spawned, inflight, controls, permits, client,
                 cancelAsked>>

----------------------------------------------------------------------------
(* TransferEngine::stream_upload *)

\* The bytes of w's upload land in the object itself, at the right server.
WritesThrough(w) == task[w].srv \in InPlace /\ task[w].srv = row[task[w].id].home

OpenUpload(w) ==
  LET id == task[w].id IN
  /\ task[w].pc = "opening"
  /\ row[id].dir = "up"
  /\ artifact' = IF WritesThrough(w) THEN [artifact EXCEPT ![id] = <<>>] ELSE artifact
  /\ task' = [task EXCEPT ![w].pc = "streaming", ![w].off = 0, ![w].linked = TRUE]
  /\ UNCHANGED <<row, conns, nextConn, spawned, inflight, controls, permits, client,
                 cancelAsked>>

UploadChunk(w) ==
  LET id  == task[w].id
      off == task[w].off
  IN
  /\ Streams(w, "up")
  /\ off < Size
  /\ artifact' = IF WritesThrough(w) /\ task[w].linked
                   THEN [artifact EXCEPT ![id] = WriteAt(@, off, "data")]
                   ELSE artifact
  /\ task' = [task EXCEPT ![w].off = off + 1]
  /\ row' \in {row, SetBytes(id, off + 1)}
  /\ UNCHANGED <<conns, nextConn, spawned, inflight, controls, permits, client, cancelAsked>>

UploadEnd(w) ==
  /\ Streams(w, "up")
  /\ task[w].off >= Size
  /\ Goto(w, "finishing")
  /\ UNCHANGED <<row, artifact, conns, nextConn, spawned, inflight, controls, permits,
                 client, cancelAsked>>

\* shutdown() of a staged upload replaces the object as a whole.
Published(w) ==
  IF WritesThrough(w) \/ task[w].srv # row[task[w].id].home
    THEN artifact
    ELSE [artifact EXCEPT ![task[w].id] = Whole]

Shutdown(w) ==
  /\ task[w].pc = "finishing"
  /\ artifact' = Published(w)
  /\ row' = SetBytes(task[w].id, task[w].off)
  /\ task' = Leave(task, w, "completed")
  /\ UNCHANGED <<conns, nextConn, spawned, inflight, controls, permits, client, cancelAsked>>

----------------------------------------------------------------------------
(* Both streams *)

\* The flag is seen at a chunk boundary. Nothing is persisted; the handle or
\* the writer is dropped.
Observe(w) ==
  /\ task[w].pc = "streaming"
  /\ task[w].flag # "run"
  /\ task' = Leave(task, w, IF task[w].flag = "pause" THEN "paused" ELSE "cleanup")
  /\ UNCHANGED <<row, artifact, conns, nextConn, spawned, inflight, controls, permits,
                 client, cancelAsked>>

\* Opening the reader, the writer or the file fails, retryably or not.
OpenFails(w) ==
  /\ \/ task[w].pc = "clamped"
     \/ task[w].pc = "opening" /\ row[task[w].id].dir = "up"
  /\ \E retryable \in BOOLEAN : Fail(w, retryable)
  /\ UNCHANGED <<artifact, conns, nextConn, spawned, inflight, controls, permits, client,
                 cancelAsked>>

\* One side of a stream fails: the network retryably, the local disk for good.
StreamFails(w) ==
  /\ task[w].pc = "streaming"
  /\ task[w].flag = "run"
  /\ \E retryable \in BOOLEAN : Fail(w, retryable)
  /\ UNCHANGED <<artifact, conns, nextConn, spawned, inflight, controls, permits, client,
                 cancelAsked>>

\* shutdown() fails; the server may have published the object all the same.
ShutdownFails(w) ==
  /\ task[w].pc = "finishing"
  /\ Fail(w, TRUE)
  /\ artifact' \in {artifact, Published(w)}
  /\ UNCHANGED <<conns, nextConn, spawned, inflight, controls, permits, client, cancelAsked>>

WorkerStep(w) ==
  \/ Register(w) \/ Release(w) \/ DropControl(w)
  \/ Begin(w) \/ WakeUp(w) \/ Cleanup(w) \/ RecordOutcome(w)
  \/ ClampOffset(w) \/ OpenDownload(w) \/ DownloadChunk(w) \/ DownloadEnd(w)
  \/ OpenUpload(w) \/ UploadChunk(w) \/ UploadEnd(w) \/ Shutdown(w)
  \/ Observe(w) \/ OpenFails(w) \/ StreamFails(w) \/ ShutdownFails(w)

----------------------------------------------------------------------------
(* Commands. enqueue runs as one step: the id is not known to anyone before   *)
(* the row is there, and a task not yet created is as good as one not polled. *)

LiveConns == {k \in ConnIds : conns[k] # NoServer}

\* A transfer of a new row, onto nothing or onto a file that is already there.
Enqueue(id, dir, k, before) ==
  /\ row[id].st = "none"
  /\ conns[k] # NoServer
  /\ row' = [row EXCEPT ![id] = [st |-> "queued", dir |-> dir, conn |-> k,
                                 home |-> conns[k], bytes |-> 0]]
  /\ artifact' = [artifact EXCEPT ![id] = before]
  /\ spawned' = [spawned EXCEPT ![id] = @ + 1]
  /\ UNCHANGED <<conns, nextConn, task, inflight, controls, permits, client, cancelAsked>>

\* The commands the panel offers on a row it shows in status st.
Offered(st) ==
  CASE st = "running"   -> {"pause", "cancel"}
    [] st = "paused"    -> {"resume", "cancel"}
    [] st = "queued"    -> {"cancel"}
    [] st = "failed"    -> {"resume", "clear"}
    [] st \in {"completed", "canceled"} -> {"clear"}
    [] OTHER            -> {}

\* The user presses a button; the command itself runs later. Resume names the
\* connection active in the panel, if there is one.
Click(c, id, op) ==
  /\ client[c].pc = "idle"
  /\ op \in Offered(row[id].st)
  /\ \E k \in IF op = "resume" /\ LiveConns # {} THEN LiveConns ELSE {NoConn} :
       client' = [client EXCEPT ![c] = [pc |-> op, id |-> id, conn |-> k]]
  /\ cancelAsked' = IF op = "cancel" THEN cancelAsked \cup {id} ELSE cancelAsked
  /\ UNCHANGED <<row, artifact, conns, nextConn, engine>>

Return(c) == client' = [client EXCEPT ![c] = IdleClient]

\* Under the controls lock: signal the registered flag, if the id has one.
Signal(id, f) == task' = [task EXCEPT ![controls[id]].flag = f]

PauseSignal(c) ==
  LET id == client[c].id IN
  /\ client[c].pc = "pause"
  /\ IF controls[id] # NoWorker
       THEN Signal(id, "pause") /\ Return(c)
       ELSE client' = [client EXCEPT ![c].pc = "pauseMark"] /\ UNCHANGED task
  /\ UNCHANGED <<row, artifact, conns, nextConn, spawned, inflight, controls, permits,
                 cancelAsked>>

PauseMark(c) ==
  /\ client[c].pc = "pauseMark"
  /\ row' = SetStatus(client[c].id, "paused")
  /\ Return(c)
  /\ UNCHANGED <<artifact, conns, nextConn, engine, cancelAsked>>

ResumeCheck(c) ==
  /\ client[c].pc = "resume"
  /\ IF client[c].id \in inflight
       THEN Return(c)
       ELSE client' = [client EXCEPT ![c].pc = "resumeGo"]
  /\ UNCHANGED <<row, artifact, conns, nextConn, engine, cancelAsked>>

\* Rebind, read the row, rewind an upload, spawn.
ResumeGo(c) ==
  LET id == client[c].id
      k  == client[c].conn
  IN
  /\ client[c].pc = "resumeGo"
  /\ IF Present(id)
       THEN /\ spawned[id] < MaxSpawned
            /\ row' = [row EXCEPT ![id].conn = IF k = NoConn THEN @ ELSE k,
                                  ![id].bytes = IF row[id].dir = "up" THEN 0 ELSE @]
            /\ spawned' = [spawned EXCEPT ![id] = @ + 1]
       ELSE UNCHANGED <<row, spawned>>
  /\ Return(c)
  /\ UNCHANGED <<artifact, conns, nextConn, task, inflight, controls, permits, cancelAsked>>

\* Signal the flag if there is one, and read the row.
CancelSignal(c) ==
  LET id      == client[c].id
      running == controls[id] # NoWorker
  IN
  /\ client[c].pc = "cancel"
  /\ IF running THEN Signal(id, "cancel") ELSE UNCHANGED task
  /\ client' = [client EXCEPT ![c] =
       IF ~Present(id) THEN IdleClient
       ELSE [pc |-> IF running THEN "cancelClean" ELSE "cancelMark",
             id |-> id, conn |-> row[id].conn]]
  /\ UNCHANGED <<row, artifact, conns, nextConn, spawned, inflight, controls, permits,
                 cancelAsked>>

\* It was not running: record that it is canceled.
CancelMark(c) ==
  /\ client[c].pc = "cancelMark"
  /\ row' = SetStatus(client[c].id, "canceled")
  /\ client' = [client EXCEPT ![c].pc = "cancelClean"]
  /\ UNCHANGED <<artifact, conns, nextConn, engine, cancelAsked>>

\* Delete the partial local file, or the object through the row's connection.
CancelClean(c) ==
  LET id == client[c].id IN
  /\ client[c].pc = "cancelClean"
  /\ IF row[id].dir = "down" \/ Resolve(client[c].conn) = row[id].home
       THEN /\ artifact' = [artifact EXCEPT ![id] = NoFile]
            /\ task' = Unlink(task, id)
       ELSE UNCHANGED <<artifact, task>>
  /\ Return(c)
  /\ UNCHANGED <<row, conns, nextConn, spawned, inflight, controls, permits, cancelAsked>>

Removed(id) == [row[id] EXCEPT !.st = "cleared", !.bytes = 0, !.conn = NoConn]

\* clear_one removes the row whatever its status is by now.
ClearOne(c) ==
  LET id == client[c].id IN
  /\ client[c].pc = "clear"
  /\ row' = IF Present(id) THEN [row EXCEPT ![id] = Removed(id)] ELSE row
  /\ Return(c)
  /\ UNCHANGED <<artifact, conns, nextConn, engine, cancelAsked>>

\* "Clear finished": one DELETE over the terminal rows.
ClearCompleted ==
  /\ \E id \in Ids : row[id].st \in Terminal
  /\ row' = [id \in Ids |-> IF row[id].st \in Terminal THEN Removed(id) ELSE row[id]]
  /\ UNCHANGED <<artifact, conns, nextConn, engine, client, cancelAsked>>

CommandStep(c) ==
  \/ PauseSignal(c) \/ PauseMark(c)
  \/ ResumeCheck(c) \/ ResumeGo(c)
  \/ CancelSignal(c) \/ CancelMark(c) \/ CancelClean(c)
  \/ ClearOne(c)

----------------------------------------------------------------------------
(* AppState, the user's hands on the disk, and the process itself *)

\* AppState::insert: ids count up from 0 in every run of the program.
Connect(s) ==
  /\ nextConn < MaxConns
  /\ conns' = [conns EXCEPT ![nextConn] = s]
  /\ nextConn' = nextConn + 1
  /\ UNCHANGED <<row, artifact, engine, client, cancelAsked>>

Disconnect(k) ==
  /\ conns[k] # NoServer
  /\ conns' = [conns EXCEPT ![k] = NoServer]
  /\ UNCHANGED <<row, artifact, nextConn, engine, client, cancelAsked>>

\* The user deletes or truncates a partial download that no worker has in hand.
Tamper(id) ==
  /\ row[id].dir = "down"
  /\ artifact[id] \notin {NoFile, OldFile}
  /\ OwnersOf(id) = {}
  /\ \/ artifact' = [artifact EXCEPT ![id] = NoFile]
     \/ \E n \in 0 .. FileLen(artifact[id]) - 1 :
          artifact' = [artifact EXCEPT ![id] = SetLen(@, n)]
  /\ UNCHANGED <<row, conns, nextConn, engine, client, cancelAsked>>

\* Mutant: only rows that were running are parked.
RecoveredIfRunning(id) ==
  IF row[id].st = "running" THEN [row[id] EXCEPT !.st = "paused"] ELSE row[id]

\* The process dies and starts again: recover_on_start parks every row that
\* claimed to be queued or running. tokio's File acknowledges a write before
\* the disk has it, so a streaming download may lose its last chunk.
Recovered(id) ==
  IF row[id].st \in {"queued", "running"} THEN [row[id] EXCEPT !.st = "paused"] ELSE row[id]

Restart ==
  /\ row' = [id \in Ids |-> Recovered(id)]
  /\ \E torn \in SUBSET {id \in Ids : row[id].dir = "down" /\ FileLen(artifact[id]) > 0
                           /\ \E w \in OwnersOf(id) : task[w].pc = "streaming"} :
       artifact' = [id \in Ids |->
         IF id \in torn THEN SetLen(artifact[id], Len(artifact[id]) - 1) ELSE artifact[id]]
  /\ conns' = [k \in ConnIds |-> NoServer]
  /\ nextConn' = 0
  /\ spawned' = [id \in Ids |-> 0]
  /\ task' = [w \in Workers |-> IdleTask]
  /\ inflight' = {}
  /\ controls' = [id \in Ids |-> NoWorker]
  /\ permits' = MaxWorkers
  /\ client' = [c \in Clients |-> IdleClient]
  /\ UNCHANGED cancelAsked

----------------------------------------------------------------------------
Next ==
  \/ \E id \in Ids : Claim(id) \/ Redundant(id) \/ Tamper(id)
  \/ \E w \in Workers : WorkerStep(w) \/ Acquire(w)
  \/ \E id \in Ids, dir \in {"down", "up"}, k \in LiveConns, before \in {NoFile, OldFile} :
       Enqueue(id, dir, k, before)
  \/ \E c \in Clients, id \in Ids, op \in {"pause", "resume", "cancel", "clear"} :
       Click(c, id, op)
  \/ \E c \in Clients : CommandStep(c)
  \/ ClearCompleted
  \/ \E s \in Servers : Connect(s)
  \/ \E k \in ConnIds : Disconnect(k)
  \/ Restart

\* tokio polls every task it was given (a slot of the model that is taken for
\* now must not starve it) and the semaphore is first come, first served;
\* network and disk answer or fail in the end.
Fairness ==
  /\ \A id \in Ids : SF_vars(Claim(id) \/ Redundant(id))
  /\ \A w \in Workers : WF_vars(WorkerStep(w)) /\ SF_vars(Acquire(w))
  /\ \A c \in Clients : WF_vars(CommandStep(c))

SafetySpec == Init /\ [][Next]_vars
Spec == SafetySpec /\ Fairness

----------------------------------------------------------------------------
(* Properties *)

RowType ==
  [st : Status \cup {"none", "cleared"}, dir : {"down", "up"}, conn : ConnIds \cup {NoConn},
   home : Servers \cup {NoServer}, bytes : Nat]
TaskType ==
  [pc : WorkerPC, id : Ids \cup {NoId}, flag : Flag, off : Nat, tries : 0 .. MaxRetries,
   srv : Servers \cup {NoServer}, linked : BOOLEAN]
ClientType ==
  [pc : {"idle", "pause", "pauseMark", "resume", "resumeGo", "cancel", "cancelMark",
         "cancelClean", "clear"},
   id : Ids \cup {NoId}, conn : ConnIds \cup {NoConn}]
FileType == Seq(Chunk) \cup {NoFile}

\* Every variable keeps its type: no row, worker, flag or connection is in a
\* state the code has no name for, and no retry count passes its limit.
TypeOK ==
  /\ row \in [Ids -> RowType]
  /\ artifact \in [Ids -> FileType]
  /\ conns \in [ConnIds -> Servers \cup {NoServer}]
  /\ nextConn \in 0 .. MaxConns
  /\ spawned \in [Ids -> Nat]
  /\ task \in [Workers -> TaskType]
  /\ inflight \subseteq Ids
  /\ controls \in [Ids -> Workers \cup {NoWorker}]
  /\ permits \in Nat
  /\ client \in [Clients -> ClientType]
  /\ cancelAsked \subseteq Ids

\* InflightGuard's promise: whatever the order of enqueues, resumes and drops,
\* no two workers of one transfer are past the guard, so that no file is
\* written by two streams.
OneWorkerPerTransfer ==
  \A v, w \in Owners : task[v].id = task[w].id => v = w

\* The guard clears the slot on every exit path: an id is in flight exactly
\* while a worker owns it, so a resume is never refused for ever.
InflightIsExact == inflight = {task[w].id : w \in Owners}

\* The semaphore caps the workers that stream, back off or clean up at
\* max_workers, and no exit path leaks a permit or returns one twice.
PermitsConserved ==
  IsFiniteSet(Holders) /\ permits + Cardinality(Holders) = MaxWorkers

\* A row that says queued or running is attended to: a task is still to be
\* polled, or a worker of its own has not yet recorded an outcome. No order of
\* commands, exits and restarts leaves a row that claims to move and never will.
ActiveRowIsAttended ==
  \A id \in Ids : row[id].st \in {"queued", "running"} =>
    \/ spawned[id] > 0
    \/ \E w \in OwnersOf(id) : task[w].pc # "exiting"

\* A transfer nobody asked to cancel completes only with the whole file in
\* place: no hole, no leftover of an older file, no chunk missing or doubled,
\* over any pauses, retries, resumes, restarts and user-truncated partials.
CompletesWhole ==
  [][\A id \in Ids :
       row[id].st # "completed" /\ row'[id].st = "completed" /\ id \notin cancelAsked
         => artifact'[id] = Whole]_vars

\* A queued or running transfer does not stay so for ever: every worker ends in
\* an outcome, and every worker waiting for a permit gets one.
Settles ==
  \A id \in Ids : row[id].st \in {"queued", "running"} ~> row[id].st \notin {"queued", "running"}

\* The workers are a bounded pool in the sense of TransferPool: its specification
\* holds, fairness included, of the ids that wait for a permit and that hold one.
Pool == INSTANCE TransferPool WITH
  waiting <- {task[w].id : w \in Waiters},
  active  <- {task[w].id : w \in Holders}

PoolSpec == Pool!Spec

\* engine.rs: a restart-loaded transfer resumes "once the matching bookmark
\* reconnects": its bytes move only to and from the server it was queued for.
StreamsAtHome ==
  \A w \in Workers : task[w].pc = "streaming" => task[w].srv = row[task[w].id].home

\* engine.rs: a canceled upload's "delete is harmless" - it never takes away an
\* object the upload has not touched.
CancelSparesTheOldObject ==
  [][\A id \in Ids : row[id].dir = "up" /\ artifact[id] = OldFile => artifact'[id] # NoFile]_vars

============================================================================
