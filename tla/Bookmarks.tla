----------------------------- MODULE Bookmarks -----------------------------
(***************************************************************************)
(* The bookmarks file and the keychain beside it: bookmark_save and          *)
(* bookmark_delete, step by step. The file is read, changed and written       *)
(* again as a whole, through one temporary file and a rename, with no lock;  *)
(* a secret is stored under the bookmark's id before the file is written.     *)
(* Of a bookmark only the way it signs in is kept, and of a secret only the   *)
(* way it was typed for.                                                      *)
(***************************************************************************)
EXTENDS Naturals, FiniteSets

CONSTANTS
  Writers,     \* tasks that may be under way together
  Marks,      \* bookmarks
  Saved       \* the ways of signing in of those saved at the start

Sftp == {"agent", "password", "keyfile"}
Cloud == {"s3", "onedrive"}            \* Azure Blob is as S3
Methods == Sftp \cup Cloud
ASSUME SavedAssumption == Saved \subseteq Methods

VARIABLES
  file,       \* bookmarks.json: can it be parsed, and what is in it
  temp,       \* bookmarks.json.tmp, the same and is it there
  key,        \* the keychain
  cmd,        \* the commands
  torn,       \* two writers had the temporary file to themselves at once (history)
  marred      \* bookmarks that were left half changed (history)

markVars == <<file, temp, key, cmd, torn, marred>>

Resting == [pc |-> "none", kind |-> "none", mark |-> "none", method |-> "none", secret |-> FALSE,
            was |-> "none", list |-> [b \in Marks |-> "none"], into |-> "none", late |-> FALSE]
Finished(a) == cmd[a].pc \in {"none", "ok", "failed"}
MarkOf(a) == cmd[a].mark

\* load_all: no file is no bookmarks; one that cannot be parsed is an error.
Load == file.list

MarkInit ==
  /\ \E list \in [Marks -> Saved \cup {"none"}] : file = [whole |-> TRUE, list |-> list]
  /\ temp = [there |-> FALSE, whole |-> FALSE, list |-> [b \in Marks |-> "none"]]
  /\ key \in [Marks -> Methods \cup {"none"}]
  /\ \A b \in Marks : key[b] = IF file.list[b] = "agent" THEN "none" ELSE file.list[b]
  /\ cmd = [a \in Writers |-> Resting]
  /\ torn = FALSE
  /\ marred = {}

Goes(a, pc) == cmd' = [cmd EXCEPT ![a].pc = pc]

\* Others are changing the same bookmark.
Contested(a, b) == \E c \in Writers \ {a} : MarkOf(c) = b /\ ~Finished(c)

\* The bookmarks that list would set to something else than what a asks for.
Undone(a, list) ==
  {b \in Marks : list[b] # IF b = MarkOf(a) THEN cmd[a].method ELSE file.list[b]}

----------------------------------------------------------------------------
\* The sheet's save: a secret is typed, or was saved for the same protocol. What is
\* typed before the agent is chosen is sent too; OneDrive's save sends nothing.
BeginSave(a) ==
  \E b \in Marks, m \in Methods, secret \in BOOLEAN :
    /\ secret => m # "onedrive"
    /\ m \in {"password", "s3"} /\ ~secret =>
         file.list[b] # "none" /\ ({m, file.list[b]} \subseteq Sftp \/ m = file.list[b])
    /\ cmd' = [cmd EXCEPT ![a] = [Resting EXCEPT !.pc = "existing", !.kind = "save", !.mark = b,
                                                 !.method = m, !.secret = secret]]
    /\ marred' = IF Contested(a, b) THEN marred \cup {b} ELSE marred
    /\ UNCHANGED <<file, temp, key, torn>>

BeginDelete(a) ==
  \E b \in Marks :
    /\ file.list[b] # "none"
    /\ cmd' = [cmd EXCEPT ![a] = [Resting EXCEPT !.pc = "drop", !.kind = "delete", !.mark = b]]
    /\ marred' = IF Contested(a, b) THEN marred \cup {b} ELSE marred
    /\ UNCHANGED <<file, temp, key, torn>>

\* bookmark_save looks at what is there: is the bookmark new, did its method
\* change? To the code all the cloud protocols have the same method, none.
AuthMethod(m) == IF m \in Cloud THEN "cloud" ELSE m

\* Mutant: a secret stays when nothing was typed.
ExistingKeeps(a) ==
  /\ cmd[a].pc = "existing"
  /\ file.whole
  /\ cmd' = [cmd EXCEPT ![a].was = Load[MarkOf(a)], ![a].list = Load,
                        ![a].pc = IF cmd[a].secret THEN "set" ELSE "list"]
  /\ UNCHANGED <<file, temp, key, torn, marred>>

Existing(a) ==
  /\ cmd[a].pc = "existing"
  /\ file.whole
  /\ LET was == Load[MarkOf(a)]
         changed == was # "none" /\ AuthMethod(was) # AuthMethod(cmd[a].method)
     IN /\ cmd' = [cmd EXCEPT ![a].was = was, ![a].list = Load,
                              ![a].pc = IF cmd[a].secret THEN "set"
                                        ELSE IF cmd[a].method = "agent" \/ changed THEN "drop"
                                        ELSE "list"]
        /\ marred' = IF was \in Cloud /\ cmd[a].method \in Cloud \ {was} /\ ~cmd[a].secret
                     THEN marred \cup {MarkOf(a)} ELSE marred
  /\ UNCHANGED <<file, temp, key, torn>>

SetSecret(a) ==
  /\ cmd[a].pc = "set"
  /\ key' = [key EXCEPT ![MarkOf(a)] = cmd[a].method]
  /\ Goes(a, "list")
  /\ UNCHANGED <<file, temp, torn, marred>>

DropSecret(a) ==
  /\ cmd[a].pc = "drop"
  /\ key' = [key EXCEPT ![MarkOf(a)] = "none"]
  /\ Goes(a, "list")
  /\ UNCHANGED <<file, temp, torn, marred>>

\* Mutant: the list is the one that was read before the keychain was asked.
ReadListEarly(a) ==
  /\ cmd[a].pc = "list"
  /\ file.whole
  /\ cmd' = [cmd EXCEPT ![a].list = [@ EXCEPT ![MarkOf(a)] = cmd[a].method],
                        ![a].pc = "create", ![a].late = FALSE]
  /\ UNCHANGED <<file, temp, key, torn, marred>>

\* save() and delete() of the store: the list with this bookmark changed.
ReadList(a) ==
  /\ cmd[a].pc = "list"
  /\ file.whole
  /\ cmd' = [cmd EXCEPT ![a].list = [Load EXCEPT ![MarkOf(a)] = cmd[a].method],
                        ![a].pc = "create", ![a].late = FALSE]
  /\ UNCHANGED <<file, temp, key, torn, marred>>

\* Mutant: the file is written in its place.
CreateInPlace(a) ==
  /\ cmd[a].pc = "create"
  /\ file' = [file EXCEPT !.whole = FALSE]
  /\ cmd' = [cmd EXCEPT ![a].pc = "fill", ![a].into = "file"]
  /\ UNCHANGED <<temp, key, torn, marred>>

\* fs::write creates the temporary file, or empties the one that is there...
Create(a) ==
  /\ cmd[a].pc = "create"
  /\ temp' = [there |-> TRUE, whole |-> FALSE, list |-> temp.list]
  /\ cmd' = [cmd EXCEPT ![a].pc = "fill", ![a].into = "temp"]
  /\ torn' = (torn \/ \E c \in Writers \ {a} : cmd[c].pc \in {"fill", "rename"})
  /\ UNCHANGED <<file, key, marred>>

\* ... and fills it. What another writer has put there meanwhile may stick out.
Fill(a) ==
  /\ cmd[a].pc = "fill"
  /\ \/ /\ cmd[a].into = "temp"
        /\ \E whole \in {TRUE, ~temp.whole} :
             temp' = [there |-> TRUE, whole |-> whole, list |-> cmd[a].list]
        /\ UNCHANGED <<file, marred>>
     \/ /\ cmd[a].into = "file"
        /\ \E whole \in {TRUE, ~file.whole} :
             file' = [whole |-> whole, list |-> cmd[a].list]
        /\ marred' = marred \cup Undone(a, cmd[a].list)
        /\ UNCHANGED temp
     \/ cmd[a].into = "gone" /\ UNCHANGED <<file, temp, marred>>
  /\ Goes(a, "rename")
  /\ UNCHANGED <<key, torn>>

\* What somebody else has open goes along with the name it had.
Rename(a) ==
  /\ cmd[a].pc = "rename"
  /\ temp.there
  /\ file' = [whole |-> temp.whole, list |-> temp.list]
  /\ temp' = [there |-> FALSE, whole |-> FALSE, list |-> [b \in Marks |-> "none"]]
  /\ cmd' = [c \in Writers |->
               IF c = a THEN [Resting EXCEPT !.pc = "ok"]
               ELSE [cmd[c] EXCEPT !.into = IF @ = "temp" THEN "file" ELSE IF @ = "file" THEN "gone" ELSE @,
                                   !.late = @ \/ cmd[c].pc \in {"create", "fill", "rename"}]]
  /\ marred' = marred \cup Undone(a, temp.list)
  /\ UNCHANGED <<key, torn>>

\* Mutant: the secret of an edited bookmark is taken back, too.
RefusedTakesAll(a) ==
  /\ cmd[a].pc \in {"existing", "list", "create", "fill", "rename"}
  /\ cmd' = [cmd EXCEPT ![a] = IF cmd[a].secret /\ cmd[a].pc # "existing"
                               THEN [@ EXCEPT !.pc = "cleanup"]
                               ELSE [Resting EXCEPT !.pc = "failed"]]
  /\ UNCHANGED <<file, temp, key, torn, marred>>

\* The file cannot be read or written, or the other writer has renamed it. A new
\* bookmark's secret is taken back; that of an older one was overwritten.
Refused(a) ==
  /\ cmd[a].pc \in {"existing", "list", "create", "fill", "rename"}
  /\ LET created == cmd[a].secret /\ cmd[a].pc # "existing"
         takesBack == created /\ cmd[a].was = "none"
     IN /\ cmd' = [cmd EXCEPT ![a] = IF takesBack THEN [@ EXCEPT !.pc = "cleanup"]
                                     ELSE [Resting EXCEPT !.pc = "failed"]]
        /\ marred' = IF created /\ ~takesBack THEN marred \cup {MarkOf(a)} ELSE marred
  /\ UNCHANGED <<file, temp, key, torn>>

\* The keychain may refuse that, too.
Cleanup(a) ==
  /\ cmd[a].pc = "cleanup"
  /\ \/ /\ key' = [key EXCEPT ![MarkOf(a)] = "none"]
        /\ UNCHANGED marred
     \/ /\ marred' = marred \cup {MarkOf(a)}
        /\ UNCHANGED key
  /\ cmd' = [cmd EXCEPT ![a] = [Resting EXCEPT !.pc = "failed"]]
  /\ UNCHANGED <<file, temp, torn>>

\* The user does not unlock the keychain, or it fails.
Locked(a) ==
  /\ cmd[a].pc \in {"set", "drop"}
  /\ cmd' = [cmd EXCEPT ![a] = [Resting EXCEPT !.pc = "failed"]]
  /\ UNCHANGED <<file, temp, key, torn, marred>>

\* The program ends between two steps.
MarkCrash ==
  /\ cmd' = [a \in Writers |-> [Resting EXCEPT !.pc = IF cmd[a].pc = "none" THEN "none" ELSE "failed"]]
  /\ marred' = marred \cup {MarkOf(a) : a \in {c \in Writers : ~Finished(c) /\ cmd[c].pc # "existing"}}
  /\ UNCHANGED <<file, temp, key, torn>>

MarkStep(a) ==
  \/ Existing(a) \/ SetSecret(a) \/ DropSecret(a) \/ ReadList(a)
  \/ Create(a) \/ Fill(a) \/ Rename(a)
  \/ Refused(a) \/ Cleanup(a) \/ Locked(a)

----------------------------------------------------------------------------
MarkTypeOK ==
  LET lists == [Marks -> Methods \cup {"none"}]
  IN /\ file \in [whole : BOOLEAN, list : lists]
     /\ temp \in [there : BOOLEAN, whole : BOOLEAN, list : lists]
     /\ key \in [Marks -> Methods \cup {"none"}]
     /\ cmd \in [Writers -> [pc : {"none", "existing", "set", "drop", "list", "create", "fill",
                                  "rename", "cleanup", "ok", "failed"},
                            kind : {"none", "save", "delete"},
                            mark : Marks \cup {"none"}, method : Methods \cup {"none"},
                            secret : BOOLEAN, was : Methods \cup {"none"}, list : lists,
                            into : {"none", "temp", "file", "gone"}, late : BOOLEAN]]
     /\ \A a \in Writers : cmd[a].pc = "cleanup" => cmd[a].was = "none"
     /\ torn \in BOOLEAN
     /\ marred \subseteq Marks

\* bookmarks.json can always be parsed, whenever the program ends or the disk is
\* full: it could not only if two commands wrote it together.
FileParses == file.whole \/ torn

\* A command changes its own bookmark and no other one, whatever happened to the
\* file while it waited for the keychain: only what was written between its last
\* read and its rename is undone.
OthersStay ==
  [][\A a \in Writers : cmd[a].pc = "rename" /\ cmd'[a].pc = "ok" /\ ~cmd[a].late /\ ~torn' =>
       \A b \in Marks \ {MarkOf(a)} : file'.list[b] = file.list[b]]_markVars

\* When nobody is changing a bookmark, the keychain has nothing under its id or
\* what was typed for its present method: nothing for a bookmark that is gone or was
\* never saved, and for an agent at most what was typed with it. Excepted are bookmarks left half changed: by a crash, by two
\* commands on them together, by another's list written over theirs, by a refused
\* edit that had typed a new secret, by a keychain that refused the cleanup, and by
\* a change from one cloud protocol to another with nothing typed.
SecretsFit ==
  \A b \in Marks \ marred :
    (\A a \in Writers : MarkOf(a) # b) =>
      key[b] \in {"none", file.list[b]}
==============================================================================
