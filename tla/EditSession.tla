---------------------------- MODULE EditSession ----------------------------
(***************************************************************************)
(* Files of one connection opened for editing (src-tauri/src/edit.rs, the   *)
(* protocol half in wonderblob-core/src/edit.rs): a copy is downloaded into *)
(* a temp file, the user's editor saves into it, a watcher and a debounce   *)
(* loop send each save back unless the remote file has changed meanwhile,   *)
(* and the user resolves conflicts, closes sessions, disconnects and quits. *)
(*                                                                          *)
(* Stats and mtimes are only ever compared with the present one, and each   *)
(* write is taken to give its file new ones, so a recorded stat or mtime is *)
(* represented by whether it still is the present one: a write makes every  *)
(* recorded one stale. One step is what the code does between two awaits    *)
(* that matter; merges are named where they are made.                       *)
(***************************************************************************)
EXTENDS FiniteSets

CONSTANTS
  Paths,      \* the remote files opened
  Sessions,   \* the sessions one run of the program can register
  Calls,      \* commands that can be in flight together
  Commands,   \* the kinds of commands the user sends
  InPlace,    \* does write() truncate the remote file (SFTP)
  NoPath, NoSession

Kinds == {"open", "force", "discard", "copy", "close", "disconnect", "exit"}

ASSUME EditAssumption ==
  /\ Commands \subseteq Kinds
  /\ InPlace \in BOOLEAN
  /\ NoPath \notin Paths
  /\ NoSession \notin Sessions
  /\ Sessions \cap Calls = {}

VARIABLES
  temp,       \* what each path's temp file holds
  remote,     \* what each remote file holds and whose its latest change is
  connected,  \* is the connection in AppState's map
  sess,       \* EditRegistry.sessions, each with its channel of watcher events
  act         \* where each debounce loop and each command is

vars == <<temp, remote, connected, sess, act>>

Actors == Sessions \cup Calls

----------------------------------------------------------------------------
(* A temp file holds part of a download, a copy the remote has or had, or a   *)
(* save of the editor's that is not yet wholly on the remote. Such a save is  *)
(* "tracked", or "raced" if it fell into a command on its path, or had no     *)
(* session. A remote change is ours or one we have read ("known"), or someone *)
(* else's, "raced" if it fell between two calls of one of our operations.     *)

TempKind == {"none", "part", "clean", "tracked", "raced"}

Unborn == [st |-> "unborn", path |-> NoPath, base |-> FALSE, synced |-> FALSE,
           event |-> FALSE, conflict |-> FALSE, told |-> FALSE]
Off == [kind |-> "none", pc |-> "idle", s |-> NoSession, path |-> NoPath, stat |-> FALSE,
        mark |-> FALSE, copy |-> "none", clean |-> TRUE, keep |-> FALSE, cut |-> FALSE,
        todo |-> {}]

OpenSessions == {s \in Sessions : sess[s].st = "open"}
OpenOn(p) == {s \in OpenSessions : sess[s].path = p}

\* The pcs of attempt_save, in order; of them, those that write to the remote.
Sending == {"write", "send", "publish", "stat"}
Saving == {"check", "same", "differs", "unknown"} \cup Sending \cup {"record"}

\* The pcs of a download, in order.
Filling == {"create", "fill", "restat"}
Downloading == {"read", "rebase"} \cup Filling

\* Someone is between looking at the remote file and knowing its stat after that.
Window(p) ==
  \E a \in Actors : act[a].path = p /\ act[a].pc \in {"same"} \cup Sending \cup Filling

\* A command on the path, or on all of them, is under way.
Busy(p) ==
  \E c \in Calls : act[c].path = p \/ act[c].kind \in {"disconnect", "exit"}

\* A write to, or the removal of, the temp files of some paths: mtimes recorded
\* and bytes read before are no longer theirs, and the watcher of every open
\* session on them sends an event.
TouchedSessions(ps, ss) ==
  [s \in Sessions |-> IF ss[s].path \in ps
     THEN [ss[s] EXCEPT !.synced = FALSE, !.event = @ \/ ss[s].st = "open"]
     ELSE ss[s]]
TouchedActors(ps, as) ==
  [a \in Actors |-> IF as[a].path \in ps
     THEN [as[a] EXCEPT !.mark = FALSE, !.copy = IF @ = "latest" THEN "old" ELSE @]
     ELSE as[a]]

\* A change of the remote file p: recorded stats no longer match it.
StaleSessions(p, ss) ==
  [s \in Sessions |-> IF ss[s].path = p THEN [ss[s] EXCEPT !.base = FALSE] ELSE ss[s]]
StaleActors(p, as) ==
  [a \in Actors |-> IF as[a].path = p THEN [as[a] EXCEPT !.stat = FALSE] ELSE as[a]]

\* The user sends a command.
Sent(c, kind) == kind \in Commands /\ act[c].kind = "none"

----------------------------------------------------------------------------
Init ==
  /\ temp = [p \in Paths |-> "none"]
  /\ remote = [p \in Paths |-> [has |-> "whole", change |-> "known"]]
  /\ connected = TRUE
  /\ sess = [s \in Sessions |-> Unborn]
  /\ act = [a \in Actors |-> Off]

----------------------------------------------------------------------------
(* EditRegistry::attempt_save, run by a loop, by close or by the flush at exit *)

\* temp_is_pending: the file is there and newer than the recorded mtime.
Pending(s) == temp[sess[s].path] # "none" /\ ~sess[s].synced

\* What an actor does once attempt_save has told it "clean" or "dirty".
Resumed(o, clean) ==
  CASE o.kind = "loop" -> [Off EXCEPT !.kind = "loop", !.path = o.path]
    [] o.kind = "exit" -> [Off EXCEPT !.kind = "exit", !.pc = "next", !.todo = o.todo]
    [] OTHER -> [o EXCEPT !.pc = "sweep", !.clean = @ /\ clean, !.stat = FALSE,
                          !.mark = FALSE, !.copy = "none"]

\* attempt_save(s) begun by an actor whose record is o: with no backend it only
\* reports what would be lost; else it takes its copy of the baseline.
Started(o, s) ==
  IF ~Pending(s) THEN Resumed(o, TRUE)
  ELSE IF ~connected THEN Resumed(o, FALSE)
  ELSE [o EXCEPT !.pc = "check", !.s = s, !.path = sess[s].path, !.stat = sess[s].base]
StartTells(s) == Pending(s) /\ ~connected

\* check_conflict's stat: a vanished file counts as changed.
Ask(a) ==
  /\ act[a].pc = "check"
  /\ \E answer \in {"unknown", IF act[a].stat /\ remote[act[a].path].has # "none"
                                 THEN "same" ELSE "differs"} :
       act' = [act EXCEPT ![a].pc = answer, ![a].stat = FALSE]
  /\ UNCHANGED <<temp, remote, connected, sess>>

\* The remote looks unchanged: the temp file's mtime is noted before it is read.
GoAhead(a) ==
  /\ act[a].pc = "same"
  /\ act' = [act EXCEPT ![a].pc = "write", ![a].mark = TRUE]
  /\ UNCHANGED <<temp, remote, connected, sess>>

\* Mutant: the stat that showed the conflict becomes the baseline.
FlagRebases(a) ==
  /\ act[a].pc = "differs"
  /\ sess' = [sess EXCEPT ![act[a].s].conflict = TRUE, ![act[a].s].base = TRUE]
  /\ act' = [act EXCEPT ![a] = Resumed(act[a], FALSE)]
  /\ UNCHANGED <<temp, remote, connected>>

\* It changed: flag the conflict, write nothing.
Flag(a) ==
  /\ act[a].pc = "differs"
  /\ sess' = [sess EXCEPT ![act[a].s].conflict = TRUE]
  /\ act' = [act EXCEPT ![a] = Resumed(act[a], FALSE)]
  /\ UNCHANGED <<temp, remote, connected>>

\* Mutant: the loop keeps its errors to itself.
FailedSilently(a) ==
  /\ act' = [act EXCEPT ![a] = IF act[a].kind \in {"force", "copy", "discard", "open"}
                                 THEN Off ELSE Resumed(act[a], FALSE)]
  /\ UNCHANGED sess

\* An error ends the attempt. attempt_save emits it; a command returns it.
Failed(a) ==
  IF act[a].kind \in {"force", "copy", "discard", "open"}
    THEN /\ act' = [act EXCEPT ![a] = Off]
         /\ UNCHANGED sess
    ELSE /\ act' = [act EXCEPT ![a] = Resumed(act[a], FALSE)]
         /\ sess' = [sess EXCEPT ![act[a].s].told = TRUE]

Fails(a) ==
  /\ act[a].pc \in {"unknown", "write", "send", "publish", "stat"}
  /\ Failed(a)
  /\ UNCHANGED <<temp, remote, connected>>

----------------------------------------------------------------------------
(* save_back *)

\* Open the temp file and the writer; a backend that writes in place truncates.
Write(a) ==
  LET p == act[a].path IN
  /\ act[a].pc = "write"
  /\ temp[p] # "none"
  /\ IF InPlace
       THEN /\ remote' = [remote EXCEPT ![p] = [has |-> "part", change |-> "known"]]
            /\ sess' = StaleSessions(p, sess)
            /\ act' = [StaleActors(p, act) EXCEPT ![a].pc = "send"]
       ELSE /\ act' = [act EXCEPT ![a].pc = "send"]
            /\ UNCHANGED <<remote, sess>>
  /\ UNCHANGED <<temp, connected>>

\* Copy the temp file's bytes, as they are now, into the writer.
Send(a) ==
  /\ act[a].pc = "send"
  /\ act' = [act EXCEPT ![a].pc = "publish",
       ![a].copy = CASE temp[act[a].path] = "part" -> "half"
                     [] temp[act[a].path] = "none" -> "old"
                     [] OTHER -> "latest"]
  /\ UNCHANGED <<temp, remote, connected, sess>>

\* shutdown(): the remote file is what was sent. If the temp file still is that,
\* the editor's save is safe. The answer may be lost: then it is an error.
Publish(a) ==
  LET p == act[a].path IN
  /\ act[a].pc = "publish"
  /\ remote' = [remote EXCEPT ![p] = [has |-> IF act[a].copy = "half" THEN "part" ELSE "whole",
                                      change |-> "known"]]
  /\ temp' = [temp EXCEPT ![p] = IF act[a].copy = "latest" THEN "clean" ELSE @]
  /\ sess' = StaleSessions(p, sess)
  /\ act' = [StaleActors(p, act) EXCEPT ![a].pc = "stat", ![a].copy = "none"]
  /\ UNCHANGED connected

\* The stat that becomes the new baseline.
Stat(a) ==
  /\ act[a].pc = "stat"
  /\ remote[act[a].path].has # "none"
  /\ act' = [act EXCEPT ![a].pc = "record", ![a].stat = TRUE]
  /\ UNCHANGED <<temp, remote, connected, sess>>

\* Mutant: the mtime is taken after the upload.
RecordLateMtime(a) ==
  /\ act[a].pc = "record"
  /\ sess' = [sess EXCEPT ![act[a].s].base = act[a].stat,
                          ![act[a].s].synced = temp[act[a].path] # "none",
                          ![act[a].s].conflict = FALSE]
  /\ act' = [act EXCEPT ![a] = IF act[a].kind = "force" THEN Off ELSE Resumed(act[a], TRUE)]
  /\ UNCHANGED <<temp, remote, connected>>

\* Record the stat and the mtime noted before the upload; the conflict is over.
Record(a) ==
  /\ act[a].pc = "record"
  /\ sess' = [sess EXCEPT ![act[a].s].base = act[a].stat, ![act[a].s].synced = act[a].mark,
                          ![act[a].s].conflict = FALSE]
  /\ act' = [act EXCEPT ![a] = IF act[a].kind = "force" THEN Off ELSE Resumed(act[a], TRUE)]
  /\ UNCHANGED <<temp, remote, connected>>

SaveStep(a) ==
  \/ Ask(a) \/ GoAhead(a) \/ Flag(a) \/ Fails(a)
  \/ Write(a) \/ Send(a) \/ Publish(a) \/ Stat(a) \/ Record(a)

----------------------------------------------------------------------------
(* EditRegistry::debounce_loop. The channel counts for its emptiness only:    *)
(* the loop takes all the events of a burst.                                  *)

Receive(s) ==
  /\ act[s].kind = "loop"
  /\ act[s].pc \in {"idle", "draining"}
  /\ sess[s].event
  /\ sess' = [sess EXCEPT ![s].event = FALSE]
  /\ act' = [act EXCEPT ![s].pc = "draining"]
  /\ UNCHANGED <<temp, remote, connected>>

\* The window passed without an event; attempt_save runs up to its first await.
Quiet(s) ==
  /\ act[s].pc = "draining"
  /\ ~sess[s].event
  /\ act' = [act EXCEPT ![s] = Started(act[s], s)]
  /\ sess' = [sess EXCEPT ![s].told = @ \/ StartTells(s)]
  /\ UNCHANGED <<temp, remote, connected>>

----------------------------------------------------------------------------
(* download_to_temp *)

\* read() answers: what the remote file holds now has been seen.
Read(c) ==
  LET p == act[c].path IN
  /\ act[c].pc = "read"
  /\ remote[p].has # "none"
  /\ remote' = [remote EXCEPT ![p].change = "known"]
  /\ act' = [act EXCEPT ![c].pc = "create"]
  /\ UNCHANGED <<temp, connected, sess>>

\* File::create truncates the temp file, copy fills it.
TempBecomes(c, kind, pc) ==
  LET p == act[c].path IN
  /\ temp' = [temp EXCEPT ![p] = kind]
  /\ sess' = TouchedSessions({p}, sess)
  /\ act' = [TouchedActors({p}, act) EXCEPT ![c].pc = pc]
  /\ UNCHANGED <<remote, connected>>

Create(c) == act[c].pc = "create" /\ TempBecomes(c, "part", "fill")

Fill(c) == act[c].pc = "fill" /\ TempBecomes(c, "clean", "restat")

Restat(c) ==
  /\ act[c].pc = "restat"
  /\ remote[act[c].path].has # "none"
  /\ act' = [act EXCEPT ![c].pc = "rebase", ![c].stat = TRUE]
  /\ UNCHANGED <<temp, remote, connected, sess>>

DownloadFails(c) ==
  /\ act[c].pc \in {"read"} \cup Filling
  /\ act' = [act EXCEPT ![c] = Off]
  /\ UNCHANGED <<temp, remote, connected, sess>>

----------------------------------------------------------------------------
(* open_in_editor *)

\* No session has the path: download. One that has it is shown again instead.
Open(c, p) ==
  /\ Sent(c, "open")
  /\ OpenOn(p) = {}
  /\ connected
  /\ act' = [act EXCEPT ![c] = [Off EXCEPT !.kind = "open", !.pc = "read", !.path = p]]
  /\ UNCHANGED <<temp, remote, connected, sess>>

\* EditRegistry::register: the temp file's mtime of now counts as synced.
Register(c) ==
  LET p == act[c].path IN
  /\ act[c].kind = "open"
  /\ act[c].pc = "rebase"
  /\ \E s \in Sessions :
       /\ sess[s].st = "unborn"
       /\ sess' = [sess EXCEPT ![s] = [Unborn EXCEPT !.st = "open", !.path = p,
                     !.base = act[c].stat, !.synced = temp[p] # "none"]]
       /\ act' = [act EXCEPT ![c] = Off, ![s] = [Off EXCEPT !.kind = "loop", !.path = p]]
  /\ UNCHANGED <<temp, remote, connected>>

----------------------------------------------------------------------------
(* resolve_conflict. The modal shows flagged sessions and sends one command at *)
(* a time.                                                                    *)

Resolves(c, s, kind, pc) ==
  /\ Sent(c, kind)
  /\ sess[s].st = "open"
  /\ sess[s].conflict
  /\ \A d \in Calls : act[d].kind \notin {"force", "copy", "discard"}
  /\ act' = [act EXCEPT ![c] = [Off EXCEPT !.kind = kind, !.pc = pc, !.s = s,
               !.path = sess[s].path, !.mark = kind = "force" /\ temp[sess[s].path] # "none"]]
  /\ UNCHANGED <<temp, remote, connected, sess>>

\* force_save notes the mtime and goes straight to save_back.
Overwrite(c, s) == connected /\ Resolves(c, s, "force", "write")

Discard(c, s) == connected /\ Resolves(c, s, "discard", "read")

SaveAsCopy(c, s) == connected /\ Resolves(c, s, "copy", "copying")

\* save_back to a sibling path; then as discard, if the session is still there.
CopyAside(c) ==
  /\ act[c].pc = "copying"
  /\ temp[act[c].path] # "none"
  /\ act' = [act EXCEPT ![c] =
       IF sess[@.s].st = "open" /\ connected THEN [@ EXCEPT !.pc = "read"] ELSE Off]
  /\ UNCHANGED <<temp, remote, connected, sess>>

CopyFails(c) ==
  /\ act[c].pc = "copying"
  /\ act' = [act EXCEPT ![c] = Off]
  /\ UNCHANGED <<temp, remote, connected, sess>>

\* discard_local ends: the new stat, and the mtime the temp file has by now.
Rebase(c) ==
  LET s == act[c].s IN
  /\ act[c].kind \in {"discard", "copy"}
  /\ act[c].pc = "rebase"
  /\ sess' = [sess EXCEPT ![s].base = act[c].stat,
                          ![s].synced = temp[act[c].path] # "none", ![s].conflict = FALSE]
  /\ act' = [act EXCEPT ![c] = Off]
  /\ UNCHANGED <<temp, remote, connected>>

----------------------------------------------------------------------------
(* close, close_connection, flush_all *)

\* Mutant: the loop is left running.
ClosingKeepsLoop(c, o, s) ==
  /\ act' = [act EXCEPT ![c] = Started([o EXCEPT !.s = s, !.path = sess[s].path], s)]
  /\ sess' = [sess EXCEPT ![s].st = "closed", ![s].event = FALSE,
                          ![s].told = @ \/ StartTells(s)]
  /\ UNCHANGED <<temp, remote, connected>>

\* close takes s out of the map and aborts its loop, whatever that is at, and
\* begins a last attempt_save of its own.
Closing(c, o, s) ==
  LET ended == [act EXCEPT ![s] = Off]
      mid   == act[s].pc \in Sending \cup {"record"}
  IN
  /\ act' = [ended EXCEPT ![c] =
       Started([o EXCEPT !.s = s, !.path = sess[s].path, !.cut = mid], s)]
  /\ sess' = [sess EXCEPT ![s].st = "closed", ![s].event = FALSE,
                          ![s].told = @ \/ StartTells(s)]
  /\ UNCHANGED <<temp, remote, connected>>

Close(c, s, keep) ==
  /\ Sent(c, "close")
  /\ sess[s].st = "open"
  /\ Closing(c, [Off EXCEPT !.kind = "close", !.keep = keep], s)

\* Mutant: the temp file goes even if the last save failed.
SweepAnyway(c) ==
  LET o == act[c]
      p == o.path
  IN
  /\ o.pc = "sweep"
  /\ temp' = [temp EXCEPT ![p] = IF o.keep THEN @ ELSE "none"]
  /\ sess' = IF o.keep THEN sess ELSE TouchedSessions({p}, sess)
  /\ act' = [TouchedActors({p}, act) EXCEPT ![c] = IF o.kind = "close" THEN Off
       ELSE [Off EXCEPT !.kind = o.kind, !.pc = "next", !.clean = o.clean, !.todo = o.todo]]
  /\ UNCHANGED <<remote, connected>>

\* A clean session's temp file is deleted unless the user keeps it.
Sweep(c) ==
  LET o == act[c]
      p == o.path
      deletes == o.clean /\ ~o.keep /\ temp[p] # "none"
      done == IF o.kind = "close" THEN Off
              ELSE [Off EXCEPT !.kind = o.kind, !.pc = "next", !.clean = o.clean, !.todo = o.todo]
  IN
  /\ o.pc = "sweep"
  /\ IF deletes
       THEN /\ temp' = [temp EXCEPT ![p] = "none"]
            /\ sess' = TouchedSessions({p}, sess)
            /\ act' = [TouchedActors({p}, act) EXCEPT ![c] = done]
       ELSE /\ act' = [act EXCEPT ![c] = done]
            /\ UNCHANGED <<temp, sess>>
  /\ UNCHANGED <<remote, connected>>

\* disconnect closes every session there is now; quitting saves every one.
Leave(c, kind) ==
  /\ Sent(c, kind)
  /\ act' = [act EXCEPT ![c] = [Off EXCEPT !.kind = kind, !.pc = "next", !.todo = OpenSessions]]
  /\ UNCHANGED <<temp, remote, connected, sess>>

Disconnect(c) == connected /\ Leave(c, "disconnect")

Exit(c) == Leave(c, "exit")

CloseNext(c, s) ==
  LET o == [act[c] EXCEPT !.todo = @ \ {s}] IN
  /\ act[c].kind = "disconnect"
  /\ act[c].pc = "next"
  /\ s \in act[c].todo
  /\ IF sess[s].st = "open"
       THEN Closing(c, o, s)
       ELSE /\ act' = [act EXCEPT ![c] = o]
            /\ UNCHANGED <<temp, remote, connected, sess>>

FlushNext(c, s) ==
  LET o == [act[c] EXCEPT !.todo = @ \ {s}] IN
  /\ act[c].kind = "exit"
  /\ act[c].pc = "next"
  /\ s \in act[c].todo
  /\ act' = [act EXCEPT ![c] = Started(o, s)]
  /\ sess' = [sess EXCEPT ![s].told = @ \/ StartTells(s)]
  /\ UNCHANGED <<temp, remote, connected>>

\* All closed: if all were clean, the connection's temp tree goes.
RemoveTree(c) ==
  /\ act[c].kind = "disconnect"
  /\ act[c].pc = "next"
  /\ act[c].todo = {}
  /\ IF act[c].clean
       THEN /\ temp' = [p \in Paths |-> "none"]
            /\ sess' = TouchedSessions(Paths, sess)
            /\ act' = [TouchedActors(Paths, act) EXCEPT ![c].pc = "leave"]
       ELSE /\ act' = [act EXCEPT ![c].pc = "leave"]
            /\ UNCHANGED <<temp, sess>>
  /\ UNCHANGED <<remote, connected>>

\* AppState::remove.
Forget(c) ==
  /\ act[c].pc = "leave"
  /\ connected' = FALSE
  /\ act' = [act EXCEPT ![c] = Off]
  /\ UNCHANGED <<temp, remote, sess>>

CallStep(c) ==
  \/ Read(c) \/ Create(c) \/ Fill(c) \/ Restat(c) \/ DownloadFails(c) \/ Register(c)
  \/ CopyAside(c) \/ CopyFails(c) \/ Rebase(c)
  \/ Sweep(c) \/ RemoveTree(c) \/ Forget(c)
  \/ \E s \in Sessions : CloseNext(c, s) \/ FlushNext(c, s)

----------------------------------------------------------------------------
(* The editor, everyone else, and the process *)

\* The editor, once opened, saves whenever it likes: over whatever the temp file
\* holds. What it will be told of an earlier save is out of date.
EditorSave(p) ==
  /\ temp[p] # "none"
  /\ \E s \in Sessions : sess[s].path = p
  /\ temp' = [temp EXCEPT ![p] = IF OpenOn(p) # {} /\ ~Busy(p) THEN "tracked" ELSE "raced"]
  /\ sess' = [s \in Sessions |-> IF sess[s].path = p
                THEN [TouchedSessions({p}, sess)[s] EXCEPT !.told = FALSE] ELSE sess[s]]
  /\ act' = TouchedActors({p}, act)
  /\ UNCHANGED <<remote, connected>>

\* Someone else writes or deletes the remote file.
ForeignChange(p, has) ==
  /\ has = "none" => remote[p].has # "none"
  /\ remote' = [remote EXCEPT ![p] = [has |-> has, change |->
       IF Window(p) /\ @.change # "theirs" THEN "raced" ELSE "theirs"]]
  /\ sess' = StaleSessions(p, sess)
  /\ act' = StaleActors(p, act)
  /\ UNCHANGED <<temp, connected>>

\* The program ends, after a flush or not, and is started again: init_edit
\* removes the temp files, and the user connects.
Restart ==
  /\ temp' = [p \in Paths |-> "none"]
  /\ connected' = TRUE
  /\ sess' = [s \in Sessions |-> Unborn]
  /\ act' = [a \in Actors |-> Off]
  /\ UNCHANGED remote

----------------------------------------------------------------------------
Next ==
  \/ \E s \in Sessions : Receive(s) \/ Quiet(s)
  \/ \E a \in Actors : SaveStep(a)
  \/ \E c \in Calls : CallStep(c) \/ Disconnect(c) \/ Exit(c)
  \/ \E c \in Calls, p \in Paths : Open(c, p)
  \/ \E c \in Calls, s \in Sessions : Overwrite(c, s) \/ Discard(c, s) \/ SaveAsCopy(c, s)
  \/ \E c \in Calls, s \in Sessions, keep \in BOOLEAN : Close(c, s, keep)
  \/ \E p \in Paths : EditorSave(p) \/ ForeignChange(p, "whole") \/ ForeignChange(p, "none")
  \/ Restart

\* The runtime polls every task, the network answers or fails, and the editor
\* pauses: for the debounce window, and for the length of an upload.
Fairness ==
  /\ \A s \in Sessions : WF_vars(Receive(s)) /\ SF_vars(Quiet(s))
  /\ \A a \in Actors : WF_vars(SaveStep(a)) /\ SF_vars(act[a].copy = "latest" /\ Publish(a))
  /\ \A c \in Calls : WF_vars(CallStep(c))

SafetySpec == Init /\ [][Next]_vars
Spec == SafetySpec /\ Fairness

----------------------------------------------------------------------------
(* Properties *)

\* A debounce loop runs exactly as long as its session is in the map: register
\* starts one for each, and no way out of the map leaves one behind.
OneLoopPerSession ==
  \A s \in Sessions : (act[s].kind = "loop") <=> (sess[s].st = "open")

\* Every variable keeps its type, the debounce loops match the sessions included:
\* no step of a save leaves a session, a temp or a base the code has no name for.
TypeOK ==
  /\ temp \in [Paths -> TempKind]
  /\ remote \in [Paths -> [has : {"whole", "part", "none"}, change : {"known", "theirs", "raced"}]]
  /\ connected \in BOOLEAN
  /\ sess \in [Sessions -> [st : {"unborn", "open", "closed"}, path : Paths \cup {NoPath},
                            base : BOOLEAN, synced : BOOLEAN, event : BOOLEAN,
                            conflict : BOOLEAN, told : BOOLEAN]]
  /\ act \in [Actors -> [kind : {"none", "loop"} \cup Kinds,
                         pc : {"idle", "draining", "copying", "next", "sweep", "leave"}
                                \cup Saving \cup Downloading,
                         s : Sessions \cup {NoSession}, path : Paths \cup {NoPath},
                         stat : BOOLEAN, mark : BOOLEAN,
                         copy : {"none", "latest", "old", "half"}, clean : BOOLEAN,
                         keep : BOOLEAN, cut : BOOLEAN, todo : SUBSET Sessions]]
  /\ OneLoopPerSession

\* attempt_save's contract, "check conflict before every save-back": a change by
\* someone else is never overwritten unprompted, unless it fell into the time
\* between one of our looks at the remote file and the upload and stat after it.
NoBlindOverwrite ==
  \A a \in Actors : act[a].pc \in Sending /\ act[a].kind # "force"
    => remote[act[a].path].change # "theirs"

\* A save of the editor's into an open session is not forgotten: it counts as
\* pending, and the loop will see to it, or the user has been told of a conflict
\* or an error - unless it fell into another command on the same file.
TrackedEditIsAttended ==
  \A s \in OpenSessions : temp[sess[s].path] = "tracked" =>
    /\ ~sess[s].synced
    /\ sess[s].event \/ act[s].pc # "idle" \/ sess[s].conflict \/ sess[s].told

\* close deletes a temp file only when the editor's last save is on the remote,
\* a save that fell into the close itself excepted.
CloseSparesEdits ==
  [][\A c \in Calls, p \in Paths : Sweep(c) /\ temp[p] = "tracked" => temp'[p] = "tracked"]_vars

\* A save of the editor's reaches the remote, or the user hears of a conflict or
\* an error, as long as a session is open on it.
EditsArrive ==
  \A p \in Paths :
    temp[p] = "tracked" ~>
      \/ temp[p] # "tracked"
      \/ OpenOn(p) = {}
      \/ \E s \in OpenOn(p) : sess[s].conflict \/ sess[s].told

\* edit.rs: "an aborted in-flight save is recovered" by the flush of the close
\* that aborted it, short of a change by someone else.
AbortedSaveIsRecovered ==
  \A c \in Calls : act[c].cut /\ act[c].pc = "differs" => remote[act[c].path].change # "known"

\* edit.rs: the tree goes "only when nothing was left dirty - otherwise we'd
\* delete a temp close deliberately preserved".
PreservedTempSurvives ==
  [][\A c \in Calls, p \in Paths : RemoveTree(c) /\ temp[p] = "tracked" => temp'[p] = "tracked"]_vars

============================================================================
