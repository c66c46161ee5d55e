# A verification project for Wonderblob

Wonderblob is a desktop browser for remote storage (SFTP, S3, Azure Blob,
OneDrive): a Rust core crate with one backend per protocol behind the trait
`StorageBackend`, a Tauri shell that holds connections, transfers and edit
sessions, and a Svelte front end. This directory holds TLA+ models of the parts
whose correctness depends on order: what tasks, commands, connections, the
user's editor and a crash may do between two steps of one another. It says what
is modelled, what TLC checks on small instances and what TLAPS proves for all.

Paths below are relative to the repository root; `core/` stands for
`crates/wonderblob-core/src/`, `app/` for `src-tauri/src/`, `ui/` for `src/lib/`.

## 1. The system

| Component | State it keeps | Operations | Talks to |
|---|---|---|---|
| TransferEngine, `core/transfer/engine.rs` | in-flight set, control flags, permits, one tokio task per transfer | enqueue, spawn, run_transfer with retries, stream_download, stream_upload, pause, resume_with, cancel, clear, recover_on_start | store, resolver, backends, event sink |
| TransferStore, `core/transfer/store.rs` | SQLite table `transfers` | insert, get, set_status, update_progress, rebind, reset offset, clear | engine |
| Connection registry, `app/state.rs`, `app/transfers.rs` | map from connection id to backend, id counter | insert, get, remove, resolve | everything that touches a remote |
| Transfer commands and panel, `app/commands.rs`, `ui/components/TransfersPanel.svelte` | none, and the rows shown | one command per button | engine |
| EditSession, `core/edit.rs`, `app/edit.rs`, `ui/components/ConflictModal.svelte`, `EditSessions.svelte` | session map; per session baseline, last-synced mtime, conflict flag, watcher, debounce task; temp files | open, register, debounce, attempt_save, force_save, discard, save as copy, close, close_connection, flush_all, init | backends, file system, editor |
| S3, Azure, OneDrive writers, `core/s3.rs`, `azblob.rs`, `onedrive.rs` | buffer, parts or blocks or a spill file, a future in flight | poll_write, poll_flush, poll_shutdown, drop | the service |
| Tree operations of the backends, `core/s3.rs`, `azblob.rs`, `onedrive.rs`, `sftp.rs`, `objstore.rs` | none; files, markers and folders at the service | list, stat, delete, rename, mkdir | the service |
| Token provider and sign-in, `core/onedrive.rs`, `app/onedrive_auth.rs` | refresh token, cached access token, deep-link broadcast | access_token, interactive_login | token endpoint, keychain, browser |
| Host keys, `core/hostkey.rs`, `core/sftp.rs` | known_hosts | connect, classify, remember | server, file system, the user |
| Bookmarks and secrets, `app/bookmarks.rs`, `app/commands.rs` | bookmarks.json, keychain | save, delete, connect_bookmark | file system, host keys, sign-in |
| UI transfer store, `ui/stores/transfers.ts` | map from id to row | initial list, events, clear | engine's events |
| SSH agent socket, share links, preview, drop files, views, packaging | - | one request per call, or pure functions | - |

What is hard to test here:

* **Races between commands and workers.** Tauri runs every command on a thread
  pool; the engine looks under one lock, and acts under another or in a store
  call. Each of pause, resume and cancel has a look and a later act.
* **Two locks for one fact.** In-flight set and control flags are separate maps,
  taken and given up at different moments.
* **Crashes and stale persistent state.** Offsets run ahead of the disk, rows say
  "running", connection ids start again at 0.
* **No conditional writes.** A save looks at the remote, uploads, and looks
  again; others may write in between.
* **An independent writer on the same file.** The user's editor saves whenever it
  likes, into the middle of an upload, a download or a close.
* **Aborted and half-failed operations.** A task is aborted between two awaits, an
  upload succeeds whose answer, or the stat after it, is lost.
* **One operation, several requests.** An upload is parts and a completion, a rename
  a copy and a delete, a deletion a look and a delete: each request can fail, arrive
  late, or meet another operation's.
* **Files and keychains with no lock.** bookmarks.json, known_hosts and the keychain
  are read and written by commands that run side by side, the keychain also by tasks
  nobody waits for.
* **Two attempts with the user in between.** A host key is shown, then trusted; a page
  is opened in the browser, then comes back. Much can change meanwhile.

What makes each component correct:

* engine: one worker per transfer; the in-flight set is exact; permits are
  conserved and cap the workers; a row that claims to move has someone to move
  it; completion means the whole file; everything settles;
* edit sessions: no foreign change is overwritten unprompted; no save of the
  editor's is forgotten; closing deletes nothing unsaved; every edit arrives or
  is reported;
* writers: `Ok` from shutdown means the object is there, whole, and a failed or
  dropped upload leaves the old object;
* tree operations: nothing is lost that nobody asked to lose, `Ok` is true, what is
  stored can be browsed to;
* host keys: only a key the user approved is trusted or pinned, and it is never
  joined by another of its kind;
* bookmarks and secrets: the file can be parsed, a command changes its own bookmark
  only, a secret is used only for the method it was typed for;
* sign-in and tokens: a sign-in takes the code of its own page and always ends, a
  provider goes only forward, and the newest token is the one stored.

`PROJECT.json` lists each hazard at the line where it bites.

## 2. Modules

| Module | Models | Checked in |
|---|---|---|
| `TransferEngine` | engine, store, connection registry, commands, panel, crash | `MCTransferEngine` |
| `TransferPool` | abstract: a bounded pool that admits nothing twice | as a property of `TransferEngine` |
| `TransferEngineProofs` | theorems about `TransferEngine`, refinement of `TransferPool` | TLAPS |
| `EditSession` | sessions, debounce loops, commands, editor, foreign writers, restart | `MCEditSession` |
| `EditSessionProofs` | theorems about `EditSession` | TLAPS |
| `UploadWriter` | the writers of S3, Azure and OneDrive, the service behind them, crash | `MCUploadWriter` |
| `StagedWrite` | abstract: an object replaced as a whole by uploads | as a property of `UploadWriter` |
| `UploadWriterProofs` | theorems about `UploadWriter`, refinement of `StagedWrite` | TLAPS |
| `ObjectTree` | list, stat, delete, rename, mkdir of the four backends, other writers | `MCObjectTree` |
| `ObjectTreeProofs` | theorems about `ObjectTree` | TLAPS |
| `HostKeys` | known_hosts, the two attempts of an SFTP connection, the user's answer | with the next two |
| `Bookmarks` | bookmark_save and bookmark_delete, file, temporary file, keychain, crash | with the next |
| `SavedConnections` | connect_bookmark; composes `HostKeys` and `Bookmarks` | `MCSavedConnections` |
| `HostKeysProofs`, `BookmarksProofs` | invariants of the two parts, and how each keeps them, as lemmas | TLAPS, with the next |
| `SavedConnectionsProofs` | theorems about `SavedConnections` | TLAPS |
| `SignIn` | sign-ins, deep-link router, token provider, keychain writes, crash | `MCSignIn` |
| `SignInProofs` | theorems about `SignIn` | TLAPS |

How they meet: `TransferEngine` and `EditSession` take from the backends only whether
a write is in place or staged; that a staged one replaces the object as a whole, or
leaves it, is what `UploadWriter` shows by implementing `StagedWrite`. `ObjectTree`
has such uploads as one step. `SavedConnections` ends where a connection is
registered, which is where `Connect` of `TransferEngine` begins.

Operators named as a mutant ("Mutant: ...") are variants of the definition that
follows them, each with a bug one could make there. No specification uses them;
they show that each property notices such a bug.

### TransferEngine

`row` is the table; `artifact[id]` the file the transfer writes, as a sequence of
chunks that remember where they come from; `conns` and `nextConn` are `AppState`;
`spawned`, `task`, `inflight`, `controls`, `permits` the engine's memory; `client`
the commands in flight. `task[w].pc` follows a worker through `spawn`
(claimed, waiting), `run_transfer` (ready, backoff, cleanup, the outcomes,
exiting, dropping) and the streams (opening, clamped, streaming, finishing). A
worker slot is freed when its guard has been dropped.

* A step is what the code does under one lock or in one store call. Merged steps
  are named at the action: inserting the flag and marking the row queued; the
  look at the flag and the chunk after it; reading the row and resolving its
  connection; enqueue.
* A command is sent by `Click`, from the buttons the panel shows for the row's
  status, and runs later in its own steps: `PauseSignal` looks the flag up under
  the lock, `PauseMark` writes the row. So stale buttons are in the model.
* The persisted offset may or may not follow each chunk (the code persists at
  intervals). `Restart` may cut the last chunk of a streaming download, which
  tokio's `File` had accepted and not written.
* An SFTP upload writes in place; S3, Azure and OneDrive publish at shutdown. Any
  open, read or write may fail, retryably or not, and a shutdown that fails may
  have published.
* Every file is `Size` chunks long and does not change remotely during a transfer.

### EditSession

`temp[p]` and `remote[p]` say what the two files hold; `sess` is the session map;
`act` is where each debounce loop and each command is. All that run
`attempt_save` - loops, close, disconnect, quit - share its steps: look at the
remote file (`Ask`), note the mtime (`GoAhead`), open the writer (`Write`), read
the temp file (`Send`), shut down (`Publish`), look again (`Stat`), record
(`Record`). Any of them may fail (`Fails`). `Resumed` is what the caller does next.

* The code compares stats and mtimes for equality with the present one only (an
  mtime noted from a file is never newer than the file). Both are represented by
  whether they still are the present ones: a write makes every recorded one
  stale. This takes every write to give a new stat and mtime; a coarse clock, or
  a backend that reports only sizes, is outside the model. In return nothing is
  counted and the state space is finite with no bound on edits, saves or changes.
* An edit is "tracked" when a session is open on its file and no command on it
  is running; else "raced". A foreign change is "theirs", or "raced" when it falls
  between a look at the remote and the stat that ends the operation. The
  properties speak of tracked edits and of "theirs": they say exactly outside
  which windows the code keeps its promises, and the model keeps what happens
  inside them (a masked edit, an overwritten change), unclaimed.
* An abort takes effect where the loop is: between two of its steps is an await.
* One connection is enough: temp files and sessions of two connections share
  nothing. After a disconnect only a restart goes on.

### UploadWriter

`wr[w]` is a writer with the one future it has in flight: bytes given (`sent`), cut
into parts (`cut`, `n`), the request (`op`) and its answer (`ans`); `staged` is what
the service holds of parts or blocks, `object` what readers see. Bytes are counted in
units and a part is an interval of them with its author, so that a part missing,
doubled or of another upload shows in the object. Writer steps (`S3...`, `Az...`,
`Graph...`) are what one poll does between two waits; service steps (`StorePart`,
`Complete`, ...) answer, refuse, or act and lose the answer. A caller stops polling at
the first error and drops the writer, as `stream_upload` and `save_back` do; what is
in flight then may still arrive, and S3's abort is a spawned task that may be late or
lost. Azure's blocks have the same names for every writer of a blob (`Slot`).

### ObjectTree

`store[p]` is what lies at a path: on S3 and Azure a file key and a marker key, maybe
both; on SFTP and OneDrive one entry. Contents and directories are numbers given once,
so a copy can be told from a replacement. `op[o]` is a command between two requests,
one step each, in the order of the code; the listing operators return what the backend
would return in that state. `asked` and `raced` record what someone deleted or
overwrote by name, and what reached the source of a rename after its copy: they make
the exceptions of `NothingLostUnasked` exact. Facts a reader may not expect, all in the
model: S3 and Azure overwrite the target of a rename without asking, SFTP and OneDrive
refuse; only an empty directory can be deleted or renamed on S3, Azure and (by the
server) SFTP, while OneDrive deletes a folder with all that is in it.

### HostKeys, Bookmarks, SavedConnections

In `SavedConnections` each actor has one task: a save, a delete, or a connection. A
connection reads the file (`LoadMark`), then the keychain (`GetSecret`), and dials with
what it read; `Verify` classifies the key the host shows, the dialog keeps it
(`Approve`), and the second attempt does it all again with that key to trust. `NewKey`
changes the host's key at any point. A save reads the file (`Existing`), sets or drops
the secret, reads the file again, and writes it through one temporary file (`Create`,
`Fill`, `Rename`), which another writer may have open too: then the renamed file may be
half of one and half of the other. A bookmark is its method of signing in, a secret the
method it was typed for, which is what the properties are about.

`torn`, `late`, `marred`, `crossed` and `alone` are histories that make exceptions
exact. The code has no lock, so lost updates, torn files and doubly pinned keys happen
when commands overlap; the properties say that they happen only then. Two things the
code does that its comments do not say are among them: an edit with a new secret that
then cannot be saved keeps the new secret under the old method (`commands.rs:650-656`),
and a change from one cloud protocol to another with nothing typed keeps the old
protocol's secret (`commands.rs:638-641`). Text typed into the password field before
the agent is chosen is saved, and never used.

### SignIn

One bookmark; a session is a sign-in or a connection with the saved token, and goes on
as the token provider it ends with. `sent` is the broadcast channel with a reading
position per sign-in; a reader that falls behind its capacity is failed. Pages come
back once, in any order, even after their sign-in has ended, or never. Refresh tokens
are numbers: the server issues the next one at a rotation and goes on accepting the
others. `writes` are the keychain writes `on_rotate` spawns: they land in any order, or
not at all. An error link has no state the code looks at, so it ends every sign-in that
waits, whichever page it came from.

## 3. Runs

| Run | Instance | Shows |
|---|---|---|
| `engine_safety` | 1 transfer, 2 workers, 2 commands at a time, 1 SFTP server, 1 retry, 2 chunks | `TypeOK`, `OneWorkerPerTransfer`, `InflightIsExact`, `ActiveRowIsAttended`, `CompletesWhole` |
| `engine_live` | 2 transfers, 1 permit, 1 retry, no commands | `PermitsConserved`, `Settles`, refinement of `TransferPool!Spec` with fairness |
| `edit_safety` | 1 file, 1 session, any 2 commands at a time, in-place backend | `TypeOK`, `NoBlindOverwrite`, `TrackedEditIsAttended`, `CloseSparesEdits` |
| `edit_live` | 1 file opened twice at once, 2 sessions, staged backend | `NoBlindOverwrite`, `TrackedEditIsAttended`, `EditsArrive` |
| `uploads` | 2 uploads of one name on each of 3 services, 0, 2 or 5 units in parts of 2, at most 2 parts | `TypeOK`, `OnlyWholeObjects`, `OkMeansPublished`, `OldSurvivesFailure`, `DanglingIsExplained`, `WritersEnd`, refinement of `StagedWrite` |
| `objects` | 2 commands, 4 paths in 2 levels, on each of 4 backends, up to 5 contents or directories | `TypeOK`, `NothingLostUnasked`, `OkMeansDone`, `BrowsableExactly`, `RenamesWhatItSaw` |
| `connections` | 2 tasks, 2 bookmarks, 3 host keys of 2 algorithms | `TypeOK`, `OnlyApprovedKeys`, `OnePin`, `FileParses`, `SecretsFit`, `RightSecret`, `OthersStay` |
| `signin` | 2 sessions of one bookmark, 2 callers, 3 tokens, 1 stray link, 1 delete | `TypeOK`, `OwnCode`, `TimedOutUnanswered`, `NewestStored`, `NeverOlder`, `LoginsEnd` |

Bounds. `Workers` bounds the tasks that hold, or have just given up, an id: two
let an old worker drop its guard while a new one starts, which is where the races
are. One id suffices for what concerns a single transfer; the two ids of
`engine_live` compete for one permit. Two chunks give a beginning and an end to
be lost or to come from another attempt, and `OldFile` is one longer than the new file, so that a leftover
tail would show. `MaxSpawned` caps the tasks
not yet polled: one is enough for a task that finds a worker of its transfer at work
and is redundant, and the runs that look for violations allow two. `MaxConns` caps
the connections opened in one run. Restarts, commands, edits and foreign changes are not bounded. `Commands` limits
the kinds of commands in an instance of `EditSession`: only `edit_live` uses it, to
open a file twice and nothing else. The engine may be idle
for ever, yet neither system can deadlock: a restart is always possible.

In `uploads`, lengths 0, 2 and 5 against parts of 2 give an empty object, one full
part, and more parts than the store allows (`MaxParts` stands for S3's 10000), and
cross OneDrive's border between one PUT and a session; two writers are an upload and
its retry, or two that overlap. In `objects` a rename has a source and a target with
something in, beside or below each, and a second command or an upload between any two
of its requests. In `connections` two tasks are enough for each race of two; `Saved`
limits how the bookmarks there at the start sign in, saves choose from all methods.
In `signin` three links pass the router's capacity of 2 (16 in the code), and three
tokens let two rotations overtake one another.

Fairness. tokio polls every spawned task, so a claim or its refusal happens
(strong, because the model's worker slots are finite where tokio's are not); the
semaphore is first come, first served, so a waiting worker is not passed over for
ever (strong); a worker's own steps go on because network and disk answer or fail
(weak), and so do a command's. For edits: loops and commands go on (weak), the
editor pauses for the debounce window again and again, and now and then for the
length of an upload (strong: the debounce promises no more to someone who never
stops saving). Callers poll the writer they have, requests are answered or fail and
spawned aborts run (weak). A sign-in that waits reads the links that come and its timer
runs out (weak); nothing is assumed there of the user, the server or the keychain.
Nobody is forced to click, save, connect or restart. `CHECK_DEADLOCK` is off where each
task happens once: there the system is done.

Disagreements between the code and what its comments say, each a run that TLC
ends with a counterexample:

| Run | What the code does |
|---|---|
| `engine_old_object` | cancelling an upload deletes its target even if the upload never touched it (`engine.rs:235-236`, `466-469`) |
| `engine_servers` | connection ids restart at 0 and are persisted: a transfer resumes on another server (`engine.rs:419-420`, `state.rs:22`) |
| `edit_abort` | a close in the middle of a save meets its own half-written file, calls it a conflict and saves nothing (`edit.rs:345-347`) |
| `edit_kept` | a disconnect deletes the temp file an earlier close preserved (`edit.rs:379-380`) |

Two more are in `TransferEngine` and have no run: cancel and pause write the row after
they looked for a flag, so that a worker that registers in between or has finished
overwrites a terminal status, or has its own overwritten (`model.rs:30-31` says that
terminal states stay); and a guard frees its slot, then removes the flag by id, which
may be the next worker's, who then can be neither paused nor cancelled
(`engine.rs:103-104`).

## 4. What is proved

Every safety invariant and every action property of the passing runs is also a theorem,
for any sets of transfers, tasks, sessions, paths, keys and names, and any limits.
The theorems assume nothing of the constants but the named assumptions of the modules,
which TLC evaluates in the runs:

* `EngineAssumption`: limits are naturals, `MaxWorkers` positive, the "none" values
  outside their sets; `FileAssumption`: `NoFile` is not a sequence of chunks.
* `EditAssumption`: the "none" values are outside their sets, and the loops of sessions
  are not commands.
* `UploadAssumption`: the services are the three modelled, lengths are naturals, part
  sizes and limits are positive.
* `TreeAssumption`: finitely many names, and as many numbers for new files as paths.
* `KeyAssumption`, `SavedAssumption`, `ActorAssumption`: no key is of two algorithms,
  sign-in methods are among those modelled, and the tasks of the two parts are the same.
* `SizeAssumption`: the router's capacity is positive, and a token can be issued.

| Module | Theorem | Statement |
|---|---|---|
| `TransferEngineProofs` | `TypeCorrect` | `SafetySpec => []TypeOK` |
| | `NoTwoWorkers` | `SafetySpec => []OneWorkerPerTransfer` |
| | `InflightExact` | `SafetySpec => []InflightIsExact` |
| | `PermitsExact` | `SafetySpec => []PermitsConserved` |
| | `NoOrphanedRow` | `SafetySpec => []ActiveRowIsAttended` |
| | `ImplementsPool` | `SafetySpec => Pool!SafetySpec` |
| | `CompletedIsWhole` | `SafetySpec /\ []StreamsAtHome => CompletesWhole` |
| | `CompletedIsWholeAlone` | with one server, `SafetySpec => CompletesWhole` |
| `EditSessionProofs` | `SessionsTyped` | `[]TypeOK` |
| | `NeverBlind` | `[]NoBlindOverwrite` |
| | `SavesAttended` | `[]TrackedEditIsAttended` |
| | `CloseSpares` | `CloseSparesEdits` |
| `UploadWriterProofs` | `WritersTyped` | `[]TypeOK` |
| | `WholeOrNothing` | `[]OnlyWholeObjects` |
| | `OkIsPublished` | `[]OkMeansPublished` |
| | `FailuresSpare` | `[]OldSurvivesFailure` |
| | `OpenIsExplained` | `[]DanglingIsExplained` |
| | `WritersImplement` | `StoreSpec`, the refinement of `StagedWrite` |
| `ObjectTreeProofs` | `TreesTyped` | `[]TypeOK` |
| | `NothingIsLost` | `[]NothingLostUnasked` |
| | `OkIsDone` | `[]OkMeansDone` |
| | `AlwaysBrowsable` | `[]BrowsableExactly` |
| | `RenamesOnlyTheSeen` | `RenamesWhatItSaw` |
| `SavedConnectionsProofs` | `ConnectionsTyped` | `[]TypeOK` |
| | `ApprovedKeysOnly`, `OneKeyPinned` | `[]OnlyApprovedKeys`, `[]OnePin` |
| | `FileAlwaysParses` | `[]FileParses` |
| | `SecretsAlwaysFit`, `SecretIsRight` | `[]SecretsFit`, `[]RightSecret` |
| | `OtherBookmarksStay` | `OthersStay` |
| `SignInProofs` | `TypeCorrect` | `[]TypeOK` |
| | `CodeIsOwn` | `[]OwnCode` |
| | `TimeoutUnanswered` | `[]TimedOutUnanswered` |
| | `NewestIsStored` | `[]NewestStored` |
| | `TokensOnlyNewer` | `NeverOlder` |

None of these invariants is inductive alone. What each needs, and why:

**TransferEngine**, in layers:

1. *Types.* `TypeOK` is not inductive alone: a step that looks up `row[task[w].id]`
   needs a real id. `Typed` adds `WellFormed`: a worker past its claim and a command
   in flight each have a transfer.
2. *Moves.* Of a step, only its effect on who waits for a permit and who holds one
   matters to the pool. `PoolMove` shows that every step of `Next` is one of six
   moves: everyone rests; or a worker enters with a fresh transfer (`Claim`), takes a
   permit (`Acquire`), gives it back with its slot in the in-flight set (`Release`) or
   forgets what it worked on (`DropControl`); or all is emptied (`Restart`). The
   invariants are proved over the moves, not over the actions.
3. *The guard.* `GuardInv` is `OneWorkerPerTransfer` with `InflightIsExact`: neither
   is inductive without the other, since a claim looks only at the in-flight set.
4. *Permits.* `PermitsConserved` counts the holders: a set that gains or loses
   one element, and the empty set after a restart.
5. *Rows.* `ActiveRowIsAttended` needs `Attended`: a row that does not exist has
   neither task nor owner, and a worker that is exiting has recorded an outcome.
   That in turn needs one worker per transfer, or another worker could mark the
   row running behind its back.
6. *Refinement.* Under the mapping of waiting and holding workers to ids, a
   claim admits, an acquire serves, a release finishes, a restart restarts, and
   every other move is a stutter. `Admit` is enabled because the in-flight set is
   exact, `Serve` because permits are conserved.
7. *Contents.* `WholeInv` is `Asked` with `Content`. `Asked`: a worker on the way of a
   cancel, and a flag that says cancel, belong to a transfer the user asked to cancel,
   and a registered flag belongs to a worker of its id. `Content`, for every other
   transfer: its file is none, the old one, or the first chunks of the right one; an
   offset counted by its worker is the number of chunks there; a staged upload has left
   it alone; and a worker that is finishing, like a row that says completed, has it
   whole. A worker's step changes the file of its own transfer only, and by (3) nobody
   else is at it. `Content` speaks of files by transfer, which is right as long as no
   stream runs at another server than the one the transfer was queued for:
   `StreamsAtHome`. The code does not ensure that, which is what `engine_servers` shows,
   and so the theorem has it as a condition. With one server `Served` discharges it.

**EditSession**: `IInv` has three parts. `Shape`: record types, which session a loop is
of, which path a step is at. `Seen`: a baseline or a stat that is still the remote
file's is not of a foreign change nobody read, so a save that finds its baseline
unchanged has nothing to overwrite. `Kept`: an open session with a tracked edit has an
event for its loop, or the loop at work, or has shown the conflict or the error; and a
step about to record an mtime as synced, or to delete the temp file, has no tracked edit
to lose. `Like` and `Calm` say what may happen to the other actors' records when one of
them writes (marks go stale, sessions get events), once for all actions.

**UploadWriter**: `IInv` says of each writer that its bytes add up (`Fits`) and that the
service still has every part it was sent (`Held`: on S3 while the upload is open, on Azure
unless uploads overlapped); that uploads which never overlapped are under way one at a
time (`OneAtATime`), and nothing in the store is of a writer that has not begun
(`Authors`); that an answer of Ok, read or not yet read, is of an object replaced
(`Traced`), and the object is one upload's whole (`ObjectFits`), unless blocks of two
uploads mixed (`Mixing`); and what an open multipart upload and a pending delete imply.
Callers' steps change no store and the service's steps no writer but its answer, so both
are proved through one lemma each (`CallersStep`, `StoreStep`). The refinement maps
opening to `Begin`, publishing to `Publish`, Azure's delete to `Convert`, an answer of Ok
to `Acknowledge`, failing, dropping and a crash to `GiveUp`, and what two mixed uploads
do to `Interfere`.

**ObjectTree**: `Numbered` (contents are told apart), `Fit` and `Known` (a command's
record fits its step and what it has seen), `Orderly` (on servers with folders, entries
are at most one per path and in a folder that is there), `AllKept` (every content is in
the store, asked for or raced, and none is where a rename is about to delete it, but the
one it copied). Steps are grouped by what they do to the store - nothing, files only,
one copied, one entry moved, an upload - and each group has its lemma.

**SavedConnections** composes the lemmas of the two parts: `KeyInv` (known_hosts and
who approved what), `FileInv` (unless two wrote at once: one writer at most at the
temporary file, which when full is what it meant; a list read goes stale only by
another's rename), `SecretInv` (which secret the keychain may have while a bookmark
changes), and `ReadInv`, `UseInv` for a connection between its two reads: what it has
read was right then, or the bookmark was marked late since.

**SignIn**: a link read since a sign-in began to listen was neither an error nor its own
code, or it would have ended (`Unanswered`, `WaitInv`); one caller holds a session's lock
(`LockInv`), so that a granted token is newer than the session's (`NewerInv`); and unless
one was mislaid, the last of the keychain requests is applied or still on its way, and has
the latest token (`StoreInv`).

The properties themselves are also checked by TLC, in the runs of section 3, where each
has a mutant of the code's definitions that breaks it; the strengthenings are part of the
proofs only.

Only model-checked: the liveness properties `Settles`, `EditsArrive`, `WritersEnd` and
`LoginsEnd`, and the fairness half of `PoolSpec` (`ImplementsPool` proves the safety
half). They follow from fairness, through the enabledness of actions, which the prover
cannot reason about. The disagreements of section 3 are counterexamples and need no proof.

## 5. Not modelled

* Events to the front end, progress and speed; what the user sees may lag.
* The remote file changing between pause and resume of a download: the code
  compares nothing there, so there is no promise to check.
* SQL errors, most of which the engine swallows (`let _ = ...`).
* Reading: ranges, paging, presigned and SAS links, share links, previews. One request
  and an answer, no state.
* HTTP requests have no timeout in the OneDrive client, and the token provider's lock is
  held while one is under way: that it ever ends is not claimed.
* Names with a trailing "/", and stale answers in the file list's view.
* What a server promises beyond what the code relies on; encodings, PKCE, fingerprints.
* SSH agent socket lookup, dropped files, views, packaging: pure functions, or no
  behaviour.

## 6. Plan

Done: `TransferEngine` with `TransferPool`; `EditSession`; `UploadWriter` with
`StagedWrite`; `ObjectTree`; `HostKeys`, `Bookmarks`, `SavedConnections`; `SignIn`; the
proofs of section 4.

1. `TransferEvents`: the engine's events and the front end's map of transfers, which lists
   before it listens, and the engine, which reads a row before it emits it
   (`transfers.ts:27`): when does the panel end up with what the table has.
2. A theorem that a saved row and the panel agree once the events are read.
