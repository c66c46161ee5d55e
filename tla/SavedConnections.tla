-------------------------- MODULE SavedConnections --------------------------
(***************************************************************************)
(* connect_bookmark: the bookmark is read from the file, its secret from the  *)
(* keychain, and then an SFTP host is dialled, or a cloud backend is built.   *)
(* Saves, deletes and other connections go on meanwhile: each actor has one   *)
(* task, a change of a bookmark (Bookmarks) or a connection (HostKeys).        *)
(***************************************************************************)
EXTENDS HostKeys, Bookmarks

\* Every actor may write or connect.
Actors == Clients
ASSUME ActorAssumption == Writers = Clients

VARIABLE
  use     \* what each connection has read: the bookmark, its method, its secret

vars == <<presents, known, conn, approved, crossed, file, temp, key, cmd, torn, marred, use>>

Unread == [mark |-> "none", method |-> "none", secret |-> "none", alone |-> TRUE]

Init ==
  /\ KeyInit
  /\ MarkInit
  /\ use = [a \in Actors |-> Unread]

Free(a) == conn[a].pc = "none" /\ cmd[a].pc = "none"

\* Is nobody changing the bookmark, and was nobody ever stopped half way?
Quiet(b) == b \notin marred /\ ~torn /\ \A a \in Actors : MarkOf(a) # b

\* A click on a bookmark.
Connect(a) ==
  /\ Free(a)
  /\ \E b \in Marks :
       /\ file.list[b] # "none"
       /\ use' = [use EXCEPT ![a].mark = b]
  /\ Moves(a, "load")
  /\ UNCHANGED <<presents, known, approved, crossed, markVars>>

\* Mutant: the second attempt uses the secret the first one read.
LoadMarkOnce(a) ==
  /\ conn[a].pc = "load"
  /\ file.whole /\ file.list[use[a].mark] # "none"
  /\ use' = [use EXCEPT ![a].method = file.list[use[a].mark], ![a].alone = Quiet(use[a].mark)]
  /\ Moves(a, IF use[a].secret # "none" THEN "dial" ELSE "secret")
  /\ UNCHANGED <<presents, known, approved, crossed, markVars>>

\* The bookmark, read anew in the second attempt. An agent needs no secret.
LoadMark(a) ==
  /\ conn[a].pc = "load"
  /\ file.whole /\ file.list[use[a].mark] # "none"
  /\ LET m == file.list[use[a].mark]
     IN /\ use' = [use EXCEPT ![a].method = m, ![a].secret = "none", ![a].alone = Quiet(use[a].mark)]
        /\ Moves(a, IF m = "agent" THEN "dial" ELSE "secret")
  /\ UNCHANGED <<presents, known, approved, crossed, markVars>>

\* The secret; only a key file can do without. A cloud backend is ready with it.
GetSecret(a) ==
  /\ conn[a].pc = "secret"
  /\ LET b == use[a].mark
         s == key[b]
     IN /\ use' = [use EXCEPT ![a].secret = s, ![a].alone = @ /\ Quiet(b)]
        /\ Moves(a, IF s = "none" /\ use[a].method # "keyfile" THEN "failed"
                    ELSE IF use[a].method \in Cloud THEN "ready" ELSE "dial")
  /\ UNCHANGED <<presents, known, approved, crossed, markVars>>

\* No such bookmark, no keychain, or no answer from the cloud.
ConnectFails(a) ==
  /\ conn[a].pc \in {"load", "secret"}
  /\ Fails(a)
  /\ UNCHANGED <<presents, known, approved, crossed, markVars, use>>

Change(a) ==
  /\ Free(a)
  /\ BeginSave(a) \/ BeginDelete(a)
  /\ use' = [c \in Actors |-> IF conn[c].pc = "secret" /\ use[c].mark = cmd'[a].mark
                              THEN [use[c] EXCEPT !.alone = FALSE] ELSE use[c]]
  /\ UNCHANGED keyVars

Crash ==
  /\ MarkCrash
  /\ conn' = [a \in Actors |-> [Unconnected EXCEPT !.pc = IF conn[a].pc = "none" THEN "none" ELSE "failed"]]
  /\ use' = [a \in Actors |-> Unread]
  /\ UNCHANGED <<presents, known, approved, crossed>>

Next ==
  \/ \E a \in Actors : Change(a) \/ Connect(a)
  \/ \E a \in Actors : MarkStep(a) /\ UNCHANGED <<keyVars, use>>
  \/ \E a \in Actors : KeyStep(a) /\ UNCHANGED <<markVars, use>>
  \/ \E a \in Actors : LoadMark(a) \/ GetSecret(a) \/ ConnectFails(a)
  \/ NewKey /\ UNCHANGED <<markVars, use>>
  \/ Crash

Spec == Init /\ [][Next]_vars

----------------------------------------------------------------------------
\* The states of the two parts, and what a connection has read.
TypeOK ==
  /\ KeyTypeOK
  /\ MarkTypeOK
  /\ use \in [Actors -> [mark : Marks \cup {"none"}, method : Methods \cup {"none"},
                         secret : Methods \cup {"none"}, alone : BOOLEAN]]
  /\ \A a \in Actors : conn[a].pc = "none" \/ cmd[a].pc = "none"

\* A connection is given the secret that was typed for the way it signs in, read
\* together with it in the same attempt: never one the user has since replaced by
\* choosing another method, unless that change was going on while it read.
RightSecret ==
  \A a \in Actors :
    conn[a].pc \in {"ready", "dial", "trusted", "pin", "auth", "open"} /\ use[a].alone =>
      use[a].secret \in {"none", use[a].method}
==============================================================================
