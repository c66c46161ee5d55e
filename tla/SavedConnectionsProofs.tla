------------------------ MODULE SavedConnectionsProofs ------------------------
(***************************************************************************)
(* Theorems about SavedConnections, for any number of tasks, bookmarks and    *)
(* host keys.                                                                  *)
(***************************************************************************)
EXTENDS SavedConnections, HostKeysProofs, BookmarksProofs

USE ActorAssumption DEF Actors

UseType == [mark : Marks \cup {"none"}, method : Methods \cup {"none"},
            secret : Methods \cup {"none"}, alone : BOOLEAN]

\* A task does one thing; a connection under way is one to a bookmark.
UseInv ==
  /\ use \in [Actors -> UseType]
  /\ \A a \in Actors : conn[a].pc = "none" \/ cmd[a].pc = "none"
  /\ \A a \in Actors : conn[a].pc \notin {"none", "failed"} => use[a].mark \in Marks

\* What has been read together, and what has been used.
Held == {"ready", "dial", "trusted", "pin", "auth", "open"}

\* While it waits for the secret of a bookmark that nobody was changing when it
\* read the method, nobody has begun to change it, and what it read still holds.
ReadInv ==
  \A a \in Actors : conn[a].pc = "secret" /\ use[a].alone =>
    /\ \A c \in Writers : ~Active(c, use[a].mark)
    /\ use[a].mark \notin marred => file.list[use[a].mark] = use[a].method

Inv == KeyInv /\ MarkTyped /\ FileInv /\ SecretInv /\ UseInv /\ ReadInv /\ RightSecret

LEMMA UnreadType == Unread \in UseType
  BY DEF Unread, UseType

LEMMA InvInit == Init => Inv
<1> SUFFICES ASSUME Init PROVE Inv
  OBVIOUS
<1>1. KeyInv /\ MarkTyped /\ FileInv /\ SecretInv
  BY KeyInitInv, MarkInitTyped, FileInit, SecretInit DEF Init
<1>2. \A a \in Actors : conn[a].pc = "none"
  BY DEF Init, KeyInit, Unconnected
<1>3. UseInv
  BY <1>2, UnreadType DEF Init, UseInv
<1>4. ReadInv /\ RightSecret
  BY <1>2 DEF ReadInv, RightSecret
<1>. QED  BY <1>1, <1>3, <1>4 DEF Inv

----------------------------------------------------------------------------
(* Each step is one of the two parts' or a step of the connection alone. *)

\* The step of a connection that a loads its bookmark or fails with.
LEMMA MovesFacts ==
  ASSUME KeyInv, NEW a \in Clients, NEW pc \in ConnPC, Moves(a, pc)
  PROVE  conn'[a].pc = pc /\ \A b \in Clients \ {a} : conn'[b] = conn[b]
  BY DEF KeyInv, Moves, ConnType

LEMMA FailsFacts ==
  ASSUME KeyInv, NEW a \in Clients, Fails(a)
  PROVE  conn'[a].pc = "failed" /\ \A b \in Clients \ {a} : conn'[b] = conn[b]
<1>1. PICK r : r = [Unconnected EXCEPT !.pc = "failed"] /\ conn' = [conn EXCEPT ![a] = r]
  BY DEF Fails
<1>2. r.pc = "failed"
  BY <1>1 DEF Unconnected
<1>. QED  BY <1>1, <1>2 DEF KeyInv

LEMMA LoadMoves ==
  ASSUME MarkTyped, NEW a \in Actors, LoadMark(a)
  PROVE  \E pc \in {"dial", "secret"} : Moves(a, pc) /\ conn[a].pc = "load"
  BY DEF LoadMark

LEMMA SecretMoves ==
  ASSUME NEW a \in Actors, GetSecret(a)
  PROVE  \E pc \in {"failed", "ready", "dial"} : Moves(a, pc) /\ conn[a].pc = "secret"
  BY DEF GetSecret

LEMMA CrashConn ==
  ASSUME Crash, NEW a \in Actors
  PROVE  /\ conn'[a] \in ConnType /\ \A K, A : ConnOK(conn'[a], K, A)
         /\ conn'[a].pc \in {"none", "failed"} /\ (conn[a].pc = "none" => conn'[a].pc = "none")
<1>1. PICK r : r = [Unconnected EXCEPT !.pc = "failed"]
  OBVIOUS
<1>2. r.pc = "failed"
  BY <1>1 DEF Unconnected
<1>3. CASE conn[a].pc = "none"
  <2>1. conn'[a] = Unconnected /\ Unconnected.pc = "none"
    BY <1>3 DEF Crash, Unconnected
  <2>. QED  BY <1>3, <2>1, UnconnectedOK
<1>4. CASE conn[a].pc # "none"
  <2>1. conn'[a] = r
    BY <1>1, <1>4 DEF Crash
  <2>. QED  BY <1>1, <1>2, <1>4, <2>1, FailedConn
<1>. QED  BY <1>3, <1>4

LEMMA KeyInvStep == KeyInv /\ MarkTyped /\ [Next]_vars => KeyInv'
<1> SUFFICES ASSUME KeyInv, MarkTyped, [Next]_vars PROVE KeyInv'
  OBVIOUS
<1>p. {"load", "secret", "dial", "ready", "failed"} \subseteq ConnPC
  BY DEF ConnPC
<1>1. ASSUME NEW a \in Actors, Connect(a) PROVE KeyInv'
  BY <1>1, <1>p, MovesKeeps DEF Connect
<1>2. ASSUME NEW a \in Actors, LoadMark(a) PROVE KeyInv'
  <2>1. PICK pc \in {"dial", "secret"} : Moves(a, pc)
    BY <1>2, LoadMoves
  <2>2. UNCHANGED <<presents, known, approved, crossed>>
    BY <1>2 DEF LoadMark
  <2>. QED  BY <2>1, <2>2, <1>p, MovesKeeps
<1>3. ASSUME NEW a \in Actors, GetSecret(a) PROVE KeyInv'
  <2>1. PICK pc \in {"failed", "ready", "dial"} : Moves(a, pc)
    BY <1>3, SecretMoves
  <2>2. UNCHANGED <<presents, known, approved, crossed>>
    BY <1>3 DEF GetSecret
  <2>. QED  BY <2>1, <2>2, <1>p, MovesKeeps
<1>4. ASSUME NEW a \in Actors, ConnectFails(a) PROVE KeyInv'
  BY <1>4, FailsKeeps DEF ConnectFails
<1>5. ASSUME NEW a \in Actors, KeyStep(a) PROVE KeyInv'
  BY <1>5, KeyStepKeeps
<1>6. ASSUME NewKey PROVE KeyInv'
  BY <1>6, NewKeyKeeps
<1>7. ASSUME UNCHANGED keyVars PROVE KeyInv'
  BY <1>7, SameKeeps
<1>8. ASSUME NEW a \in Actors, Change(a) PROVE UNCHANGED keyVars
  BY <1>8 DEF Change
<1>9. ASSUME Crash PROVE KeyInv'
  <2>1. \A a \in Clients : conn'[a] \in ConnType /\ ConnOK(conn'[a], known, approved)
    BY <1>9, CrashConn
  <2>2. UNCHANGED <<presents, known, approved, crossed>>
        /\ conn' = [a \in Actors |-> conn'[a]]
    BY <1>9 DEF Crash
  <2>3. conn' \in [Clients -> ConnType]
    BY <2>1, <2>2
  <2>. QED  BY <2>1, <2>2, <2>3 DEF KeyInv, OnePin
<1>10. ASSUME UNCHANGED vars PROVE UNCHANGED keyVars
  BY <1>10 DEF vars, keyVars
<1>. QED  BY <1>1, <1>2, <1>3, <1>4, <1>5, <1>6, <1>7, <1>8, <1>9, <1>10 DEF Next

LEMMA MarkPart == [Next]_vars => MarkNext \/ UNCHANGED markVars
<1> SUFFICES ASSUME [Next]_vars PROVE MarkNext \/ UNCHANGED markVars
  OBVIOUS
<1>1. ASSUME NEW a \in Actors, Change(a) PROVE MarkNext
  BY <1>1 DEF Change, MarkNext, Begins, Finished, Free
<1>2. ASSUME NEW a \in Actors, MarkStep(a) PROVE MarkNext
  BY <1>2 DEF MarkNext
<1>3. ASSUME NEW a \in Actors, Connect(a) \/ LoadMark(a) \/ GetSecret(a) \/ ConnectFails(a)
      PROVE UNCHANGED markVars
  BY <1>3 DEF Connect, LoadMark, GetSecret, ConnectFails
<1>4. CASE Crash
  BY <1>4 DEF Crash, MarkNext
<1>5. CASE UNCHANGED vars
  BY <1>5 DEF vars, markVars
<1>. QED  BY <1>1, <1>2, <1>3, <1>4, <1>5 DEF Next

LEMMA MarkInvStep ==
  MarkTyped /\ FileInv /\ SecretInv /\ [Next]_vars => MarkTyped' /\ FileInv' /\ SecretInv'
  BY MarkPart, MarkTypedStep, FileStep, SecretStep, MarkSame

----------------------------------------------------------------------------
(* What is read for a connection. *)

LEMMA KeyMoves ==
  ASSUME KeyInv, NEW a \in Clients, KeyStep(a)
  PROVE  /\ conn[a].pc \in {"dial", "asked", "trusted", "pin", "auth"}
         /\ conn'[a].pc \in Held \cup {"asked", "failed", "load"}
         /\ conn'[a].pc \in Held => conn[a].pc \in Held
         /\ \A b \in Clients \ {a} : conn'[b].pc = conn[b].pc
<1>f. conn \in [Clients -> ConnType]
  BY DEF KeyInv
<1>1. CASE Fails(a) /\ conn[a].pc \in {"dial", "asked", "trusted", "pin", "auth"}
  BY <1>1, FailsFacts DEF Held
<1>2. CASE Verify(a)
  <2>1. PICK pc \in {"trusted", "asked"}, warned \in BOOLEAN :
          conn' = [conn EXCEPT ![a].pc = pc, ![a].seen = presents, ![a].warned = warned]
    BY <1>2 DEF Verify
  <2>. QED  BY <1>2, <1>f, <2>1 DEF Verify, Held, ConnType
<1>3. CASE Trust(a) /\ ~Fails(a)
  <2>1. conn' = [conn EXCEPT ![a].pc = "trusted", ![a].seen = presents] /\ conn[a].pc = "dial"
    BY <1>3 DEF Trust
  <2>. QED  BY <1>f, <2>1 DEF Held, ConnType
<1>4. CASE Remember(a)
  <2>1. PICK pc \in {"auth", "pin"} : conn' = [conn EXCEPT ![a].pc = pc, ![a].stale = FALSE]
    BY <1>4 DEF Remember
  <2>. QED  BY <1>4, <1>f, <2>1 DEF Remember, Held, ConnType
<1>5. CASE Learn(a)
  <2>1. CASE Moves(a, "auth")
    BY <1>5, <2>1, MovesFacts DEF Learn, Held, ConnPC
  <2>2. CASE ~Moves(a, "auth")
    <3>1. /\ conn[a].pc = "pin"
          /\ conn' = [b \in Clients |->
                        IF b = a THEN [conn[b] EXCEPT !.pc = "auth"]
                        ELSE [conn[b] EXCEPT !.stale = @ \/ conn[b].pc = "pin"]]
      BY <1>5, <2>2 DEF Learn
    <3>2. conn'[a].pc = "auth"
      BY <1>f, <3>1 DEF ConnType
    <3>3. \A b \in Clients \ {a} : conn'[b].pc = conn[b].pc
      BY <1>f, <3>1 DEF ConnType
    <3>. QED  BY <3>1, <3>2, <3>3 DEF Held
  <2>. QED  BY <2>1, <2>2
<1>6. CASE ForgetIt(a)
  BY <1>6, MovesFacts DEF ForgetIt, Held, ConnPC
<1>7. CASE Authenticate(a) /\ ~Fails(a)
  BY <1>7, MovesFacts DEF Authenticate, Held, ConnPC
<1>8. CASE Approve(a)
  <2>1. PICK remember, r :
          /\ r = [Unconnected EXCEPT !.pc = "load", !.remember = remember, !.trust = conn[a].seen]
          /\ conn' = [conn EXCEPT ![a] = r]
    BY <1>8 DEF Approve
  <2>2. r.pc = "load"
    BY <2>1 DEF Unconnected
  <2>. QED  BY <1>8, <1>f, <2>1, <2>2 DEF Approve, Held
<1>9. CASE Cancel(a) \/ GiveUp(a)
  BY <1>1, <1>9 DEF Cancel, GiveUp, Shaking
<1>. QED
  BY <1>1, <1>2, <1>3, <1>4, <1>5, <1>6, <1>7, <1>8, <1>9 DEF KeyStep, Trust, Authenticate

LEMMA OthersWait ==
  ASSUME MarkTyped, NEW a \in Writers, MarkStep(a)
  PROVE  cmd[a].pc # "none" /\ \A c \in Writers \ {a} : cmd'[c].pc = cmd[c].pc
<1>1. cmd[a].pc # "none"
  BY DEF MarkStep, Existing, SetSecret, DropSecret, ReadList, Create, Fill, Rename, Refused,
     Cleanup, Locked
<1>2. CASE Rename(a)
  BY <1>1, <1>2, RenameFacts
<1>3. ASSUME NEW r, Becomes(a, r) PROVE \A c \in Writers \ {a} : cmd'[c].pc = cmd[c].pc
  BY <1>3 DEF Becomes
<1>4. CASE SetSecret(a) \/ DropSecret(a)
  <2>1. \E r : Becomes(a, r)
    BY <1>4, GoesFacts DEF SetSecret, DropSecret, CmdPC
  <2>. QED  BY <1>1, <1>3, <2>1
<1>5. CASE Cleanup(a) \/ Locked(a)
  <2>1. \E r : Becomes(a, r)
    BY <1>5, EndsFacts DEF Cleanup, Locked
  <2>. QED  BY <1>1, <1>3, <2>1
<1>6. CASE Existing(a)
  BY <1>1, <1>3, <1>6, ExistingFacts
<1>7. CASE ReadList(a)
  BY <1>1, <1>3, <1>7, ReadListFacts
<1>8. CASE Create(a)
  BY <1>1, <1>3, <1>8, CreateFacts
<1>9. CASE Fill(a)
  BY <1>1, <1>3, <1>9, FillFacts
<1>10. CASE Refused(a)
  BY <1>1, <1>3, <1>10, RefusedFacts
<1>. QED  BY <1>2, <1>4, <1>5, <1>6, <1>7, <1>8, <1>9, <1>10 DEF MarkStep

LoadInv == UseInv /\ ReadInv /\ RightSecret

\* The steps that leave what was read as it is, and add nothing to what is used.
LEMMA UseStays ==
  ASSUME LoadInv, UNCHANGED <<use, cmd, file, marred>>,
         \A a \in Actors : \/ conn'[a].pc = conn[a].pc
                           \/ /\ conn[a].pc # "none" /\ conn'[a].pc # "secret"
                              /\ conn'[a].pc \in {"none", "failed"} \/ conn[a].pc # "failed"
                              /\ conn'[a].pc \in Held => conn[a].pc \in Held
  PROVE  LoadInv'
<1>1. UseInv'
  BY DEF LoadInv, UseInv
<1>2. ReadInv'
  BY DEF LoadInv, ReadInv, Active, Finished, MarkOf
<1>3. RightSecret'
  BY DEF LoadInv, RightSecret, Held
<1>. QED  BY <1>1, <1>2, <1>3 DEF LoadInv

LEMMA UseConnect ==
  ASSUME KeyInv, LoadInv, NEW a \in Actors, Connect(a)
  PROVE  LoadInv'
<1>1. PICK b \in Marks : use' = [use EXCEPT ![a].mark = b]
  BY DEF Connect
<1>2. /\ cmd[a].pc = "none" /\ conn'[a].pc = "load"
      /\ \A c \in Actors \ {a} : conn'[c] = conn[c]
      /\ UNCHANGED <<cmd, file, marred>>
  BY MovesFacts DEF Connect, Free, ConnPC, markVars
<1>3. use \in [Actors -> UseType]
  BY DEF LoadInv, UseInv
<1>4. use' \in [Actors -> UseType]
  BY <1>1, <1>3 DEF UseType
<1>5. use'[a].mark = b /\ \A c \in Actors \ {a} : use'[c] = use[c]
  BY <1>1, <1>3 DEF UseType
<1>6. UseInv'
  BY <1>2, <1>4, <1>5 DEF LoadInv, UseInv
<1>7. ReadInv'
  BY <1>2, <1>5 DEF LoadInv, ReadInv, Active, Finished, MarkOf
<1>8. RightSecret'
  BY <1>2, <1>5 DEF LoadInv, RightSecret
<1>. QED  BY <1>6, <1>7, <1>8 DEF LoadInv

LEMMA UseLoad ==
  ASSUME KeyInv, MarkTyped, LoadInv, NEW a \in Actors, LoadMark(a)
  PROVE  LoadInv'
<1>. DEFINE b == use[a].mark
            m == file.list[b]
<1>1. /\ use' = [use EXCEPT ![a].method = m, ![a].secret = "none", ![a].alone = Quiet(b)]
      /\ Moves(a, IF m = "agent" THEN "dial" ELSE "secret")
      /\ conn[a].pc = "load" /\ UNCHANGED <<cmd, file, marred>>
  BY DEF LoadMark, markVars
<1>2. PICK pc \in {"dial", "secret"} : Moves(a, pc)
  BY LoadMoves
<1>3. conn'[a].pc = pc /\ \A c \in Actors \ {a} : conn'[c] = conn[c]
  BY <1>2, MovesFacts DEF ConnPC
<1>4. use \in [Actors -> UseType] /\ b \in Marks /\ file.list \in Lists /\ cmd[a].pc = "none"
  BY <1>1 DEF LoadInv, UseInv, MarkTyped
<1>5. m \in Methods \cup {"none"}
  BY <1>4 DEF Lists
<1>6. PICK alone \in BOOLEAN : (alone <=> Quiet(b)) /\ alone = Quiet(b)
  BY DEF Quiet
<1>7. use' = [use EXCEPT ![a].method = m, ![a].secret = "none", ![a].alone = alone]
  BY <1>1, <1>6
<1>. HIDE DEF m
<1>8. use' \in [Actors -> UseType]
  <2>1. use' = [use EXCEPT ![a] = [use[a] EXCEPT !.method = m, !.secret = "none", !.alone = alone]]
    BY <1>7
  <2>2. [use[a] EXCEPT !.method = m, !.secret = "none", !.alone = alone] \in UseType
    <3>1. use[a] \in UseType
      BY <1>4
    <3>2. CASE alone
      BY <1>5, <3>1, <3>2 DEF UseType
    <3>3. CASE ~alone
      BY <1>5, <3>1, <3>3 DEF UseType
    <3>. QED  BY <3>2, <3>3
  <2>. QED  BY <1>4, <2>1, <2>2
<1>9. /\ use'[a].mark = b /\ use'[a].method = m /\ use'[a].secret = "none"
      /\ (use'[a].alone <=> alone)
      /\ \A c \in Actors \ {a} : use'[c] = use[c]
  BY <1>4, <1>7 DEF UseType
<1>10. UseInv'
  BY <1>1, <1>3, <1>4, <1>8, <1>9 DEF LoadInv, UseInv
<1>11. alone => \A c \in Writers : ~Active(c, b)
  BY <1>6 DEF Quiet, Active
<1>12. ReadInv'
  <2> SUFFICES ASSUME NEW c \in Actors, conn'[c].pc = "secret", use'[c].alone
               PROVE  /\ \A d \in Writers : ~Active(d, use[c].mark)'
                      /\ use'[c].mark \notin marred' => file'.list[use'[c].mark] = use'[c].method
    BY DEF ReadInv
  <2>1. CASE c = a
    <3>1. use'[c].mark = b /\ use'[c].method = m /\ \A d \in Writers : ~Active(d, b)
      BY <1>9, <1>11, <2>1
    <3>2. \A d \in Writers : ~(cmd'[d].mark = b /\ cmd'[d].pc \notin {"none", "ok", "failed"})
      BY <1>1, <3>1 DEF Active, Finished, MarkOf
    <3>3. \A d \in Writers : ~Active(d, use[c].mark)'
      BY <3>1, <3>2 DEF Active, Finished, MarkOf
    <3>4. file'.list[b] = m
      BY <1>1 DEF m
    <3>. QED  BY <3>1, <3>3, <3>4
  <2>2. CASE c # a
    <3>1. conn[c].pc = "secret" /\ use'[c] = use[c] /\ use[c].alone
      BY <1>3, <1>9, <2>2
    <3>2. /\ \A d \in Writers : ~Active(d, use[c].mark)
          /\ use[c].mark \notin marred => file.list[use[c].mark] = use[c].method
      BY <3>1 DEF LoadInv, ReadInv
    <3>3. \A d \in Writers : ~Active(d, use[c].mark)'
      BY <1>1, <3>1, <3>2 DEF Active, Finished, MarkOf
    <3>4. use'[c].mark \notin marred' => file'.list[use'[c].mark] = use'[c].method
      BY <1>1, <3>1, <3>2
    <3>. QED  BY <3>3, <3>4
  <2>. QED  BY <2>1, <2>2
<1>13. RightSecret'
  BY <1>3, <1>9 DEF LoadInv, RightSecret
<1>. QED  BY <1>10, <1>12, <1>13 DEF LoadInv

LEMMA UseGet ==
  ASSUME KeyInv, MarkTyped, SecretInv, LoadInv, NEW a \in Actors, GetSecret(a)
  PROVE  LoadInv'
<1>. DEFINE b == use[a].mark
            s == key[b]
<1>1. /\ use' = [use EXCEPT ![a].secret = s, ![a].alone = @ /\ Quiet(b)]
      /\ conn[a].pc = "secret" /\ UNCHANGED <<cmd, file, marred>>
  BY DEF GetSecret, markVars
<1>2. PICK pc \in {"failed", "ready", "dial"} : Moves(a, pc)
  BY SecretMoves
<1>3. conn'[a].pc = pc /\ \A c \in Actors \ {a} : conn'[c] = conn[c]
  BY <1>2, MovesFacts DEF ConnPC
<1>4. use \in [Actors -> UseType] /\ b \in Marks /\ key \in Lists /\ cmd[a].pc = "none"
  BY <1>1 DEF LoadInv, UseInv, MarkTyped
<1>5. s \in Methods \cup {"none"}
  BY <1>4 DEF Lists
<1>6. PICK alone \in BOOLEAN : alone = (use[a].alone /\ Quiet(b)) /\ (alone => use[a].alone /\ Quiet(b))
  OBVIOUS
<1>7. use' = [use EXCEPT ![a].secret = s, ![a].alone = alone]
  BY <1>1, <1>6
<1>. HIDE DEF s
<1>8. use' \in [Actors -> UseType]
  <2>1. use' = [use EXCEPT ![a] = [use[a] EXCEPT !.secret = s, !.alone = alone]]
    BY <1>7
  <2>2. [use[a] EXCEPT !.secret = s, !.alone = alone] \in UseType
    <3>1. use[a] \in UseType
      BY <1>4
    <3>2. CASE alone
      BY <1>5, <3>1, <3>2 DEF UseType
    <3>3. CASE ~alone
      BY <1>5, <3>1, <3>3 DEF UseType
    <3>. QED  BY <3>2, <3>3
  <2>. QED  BY <1>4, <2>1, <2>2
<1>9. /\ use'[a].mark = b /\ use'[a].method = use[a].method /\ use'[a].secret = s
      /\ (use'[a].alone <=> alone)
      /\ \A c \in Actors \ {a} : use'[c] = use[c]
  BY <1>4, <1>7 DEF UseType
<1>10. UseInv'
  BY <1>1, <1>3, <1>4, <1>8, <1>9 DEF LoadInv, UseInv
<1>11. ReadInv'
  <2> SUFFICES ASSUME NEW c \in Actors, conn'[c].pc = "secret", use'[c].alone
               PROVE  /\ \A d \in Writers : ~Active(d, use[c].mark)'
                      /\ use'[c].mark \notin marred' => file'.list[use'[c].mark] = use'[c].method
    BY DEF ReadInv
  <2>1. c # a
    BY <1>3
  <2>2. conn[c].pc = "secret" /\ use'[c] = use[c] /\ use[c].alone
    BY <1>3, <1>9, <2>1
  <2>3. /\ \A d \in Writers : ~Active(d, use[c].mark)
        /\ use[c].mark \notin marred => file.list[use[c].mark] = use[c].method
    BY <2>2 DEF LoadInv, ReadInv
  <2>4. \A d \in Writers : ~Active(d, use[c].mark)'
    BY <1>1, <2>2, <2>3 DEF Active, Finished, MarkOf
  <2>5. use'[c].mark \notin marred' => file'.list[use'[c].mark] = use'[c].method
    BY <1>1, <2>2, <2>3
  <2>. QED  BY <2>4, <2>5
<1>12. alone => s \in {"none", use[a].method}
  <2> SUFFICES ASSUME alone PROVE s \in {"none", use[a].method}
    OBVIOUS
  <2>1. use[a].alone /\ b \notin marred
    BY <1>6 DEF Quiet
  <2>2. (\A c \in Writers : ~Active(c, b)) /\ file.list[b] = use[a].method
    BY <1>1, <2>1 DEF LoadInv, ReadInv
  <2>3. Fits(b)
    BY <1>4, <2>1, <2>2 DEF SecretInv, SecretOK
  <2>. QED  BY <2>2, <2>3 DEF Fits, s
<1>13. RightSecret'
  BY <1>3, <1>9, <1>12 DEF LoadInv, RightSecret
<1>. QED  BY <1>10, <1>11, <1>13 DEF LoadInv

LEMMA UseChange ==
  ASSUME KeyInv, MarkTyped, LoadInv, NEW a \in Actors, Change(a)
  PROVE  LoadInv'
<1>1. PICK m, r :
        /\ m \in Marks
        /\ Becomes(a, r) /\ r.mark = m
        /\ marred' = IF Contested(a, m) THEN marred \cup {m} ELSE marred
        /\ UNCHANGED file
  BY BeginFacts DEF Change
<1>2. cmd'[a].mark = m /\ \A c \in Actors \ {a} : cmd'[c] = cmd[c]
  BY <1>1 DEF Becomes
<1>3. /\ use' = [c \in Actors |-> IF conn[c].pc = "secret" /\ use[c].mark = cmd'[a].mark
                                  THEN [use[c] EXCEPT !.alone = FALSE] ELSE use[c]]
      /\ UNCHANGED conn /\ conn[a].pc = "none"
  BY DEF Change, keyVars, Free
<1>4. use \in [Actors -> UseType]
  BY DEF LoadInv, UseInv
<1>5. ASSUME NEW c \in Actors
      PROVE  /\ use'[c] \in UseType
             /\ use'[c].mark = use[c].mark /\ use'[c].method = use[c].method
             /\ use'[c].secret = use[c].secret /\ (use'[c].alone => use[c].alone)
             /\ conn[c].pc = "secret" /\ use[c].mark = m => ~use'[c].alone
  <2>1. use[c] \in UseType
    BY <1>4
  <2>2. CASE conn[c].pc = "secret" /\ use[c].mark = m
    <3>1. use'[c] = [use[c] EXCEPT !.alone = FALSE]
      BY <1>2, <1>3, <2>2
    <3>. QED  BY <2>1, <3>1 DEF UseType
  <2>3. CASE ~(conn[c].pc = "secret" /\ use[c].mark = m)
    <3>1. use'[c] = use[c]
      BY <1>2, <1>3, <2>3
    <3>. QED  BY <2>1, <2>3, <3>1
  <2>. QED  BY <2>2, <2>3
<1>6. use' \in [Actors -> UseType]
  BY <1>3, <1>5
<1>7. UseInv'
  BY <1>2, <1>3, <1>5, <1>6 DEF LoadInv, UseInv
<1>8. ReadInv'
  <2> SUFFICES ASSUME NEW c \in Actors, conn'[c].pc = "secret", use'[c].alone
               PROVE  /\ \A d \in Writers : ~Active(d, use[c].mark)'
                      /\ use'[c].mark \notin marred' => file'.list[use'[c].mark] = use'[c].method
    BY DEF ReadInv
  <2>1. /\ conn[c].pc = "secret" /\ use[c].alone /\ use[c].mark # m
        /\ use'[c].mark = use[c].mark /\ use'[c].method = use[c].method
    BY <1>3, <1>5
  <2>2. \A d \in Writers : ~Active(d, use[c].mark)'
    BY <1>2, <2>1 DEF LoadInv, ReadInv, Active, Finished, MarkOf
  <2>3. use[c].mark \notin marred' => file'.list[use[c].mark] = use[c].method
    BY <1>1, <2>1 DEF LoadInv, ReadInv
  <2>. QED  BY <2>1, <2>2, <2>3
<1>9. RightSecret'
  BY <1>3, <1>5 DEF LoadInv, RightSecret
<1>. QED  BY <1>7, <1>8, <1>9 DEF LoadInv

LEMMA UseMarkStep ==
  ASSUME KeyInv, MarkTyped, LoadInv, NEW a \in Actors, MarkStep(a), UNCHANGED <<keyVars, use>>
  PROVE  LoadInv'
<1>1. /\ UNCHANGED <<conn, use>> /\ cmd[a].pc # "none"
      /\ \A c \in Writers \ {a} : cmd'[c].pc = cmd[c].pc
  BY OthersWait DEF keyVars
<1>2. UseInv'
  BY <1>1 DEF LoadInv, UseInv
<1>3. RightSecret'
  BY <1>1 DEF LoadInv, RightSecret
<1>4. ReadInv'
  <2> SUFFICES ASSUME NEW c \in Actors, conn[c].pc = "secret", use[c].alone
               PROVE  /\ \A d \in Writers : ~Active(d, use[c].mark)'
                      /\ use[c].mark \notin marred' => file'.list[use[c].mark] = use[c].method
    BY <1>1 DEF ReadInv, Active, Finished, MarkOf
  <2>1. use[c].mark \in Marks
    BY DEF LoadInv, UseInv
  <2>2. \A d \in Writers : ~Active(d, use[c].mark)
    BY DEF LoadInv, ReadInv
  <2>3. \A d \in Writers : ~Active(d, use[c].mark)'
    BY <2>1, <2>2, ActiveStays
  <2>4. ASSUME use[c].mark \notin marred' PROVE file'.list[use[c].mark] = use[c].method
    <3>1. use[c].mark \notin marred
      BY <2>4, MarredGrows DEF MarkNext
    <3>2. file'.list[use[c].mark] = file.list[use[c].mark]
      BY <2>1, <2>2, <2>4, ListStays
    <3>. QED  BY <3>1, <3>2 DEF LoadInv, ReadInv
  <2>. QED  BY <2>3, <2>4
<1>. QED  BY <1>2, <1>3, <1>4 DEF LoadInv

LEMMA UseCrash == ASSUME LoadInv, Crash PROVE LoadInv'
<1>1. \A a \in Actors : conn'[a].pc \in {"none", "failed"}
                        /\ (conn[a].pc = "none" => conn'[a].pc = "none")
  BY CrashConn
<1>2. use' \in [Actors -> UseType]
  BY UnreadType DEF Crash
<1>3. ASSUME NEW a \in Actors PROVE conn'[a].pc = "none" \/ cmd'[a].pc = "none"
  <2>1. PICK r : r = [Resting EXCEPT !.pc = "none"]
    OBVIOUS
  <2>2. cmd[a].pc = "none" => cmd'[a] = r
    BY <2>1 DEF Crash, MarkCrash
  <2>3. r.pc = "none"
    BY <2>1 DEF Resting
  <2>. QED  BY <1>1, <2>2, <2>3 DEF LoadInv, UseInv
<1>4. UseInv'
  BY <1>1, <1>2, <1>3 DEF UseInv
<1>5. ReadInv' /\ RightSecret'
  BY <1>1 DEF ReadInv, RightSecret
<1>. QED  BY <1>4, <1>5 DEF LoadInv

LEMMA LoadInvStep == KeyInv /\ MarkTyped /\ SecretInv /\ LoadInv /\ [Next]_vars => LoadInv'
<1> SUFFICES ASSUME KeyInv, MarkTyped, SecretInv, LoadInv, [Next]_vars PROVE LoadInv'
  OBVIOUS
<1>1. ASSUME NEW a \in Actors, KeyStep(a), UNCHANGED <<markVars, use>> PROVE LoadInv'
  <2>1. UNCHANGED <<use, cmd, file, marred>>
    BY <1>1 DEF markVars
  <2>2. /\ conn[a].pc \in {"dial", "asked", "trusted", "pin", "auth"}
        /\ conn'[a].pc \in Held \cup {"asked", "failed", "load"}
        /\ conn'[a].pc \in Held => conn[a].pc \in Held
        /\ \A b \in Clients \ {a} : conn'[b].pc = conn[b].pc
    BY <1>1, KeyMoves
  <2>3. conn'[a].pc # "secret"
    BY <2>2 DEF Held
  <2>. QED  BY <2>1, <2>2, <2>3, UseStays
<1>2. ASSUME NEW a \in Actors, ConnectFails(a) PROVE LoadInv'
  <2>1. /\ UNCHANGED <<use, cmd, file, marred>> /\ conn[a].pc \in {"load", "secret"}
        /\ conn'[a].pc = "failed" /\ \A b \in Clients \ {a} : conn'[b] = conn[b]
    BY <1>2, FailsFacts DEF ConnectFails, markVars
  <2>. QED  BY <2>1, UseStays DEF Held
<1>3. CASE NewKey /\ UNCHANGED <<markVars, use>>
  BY <1>3, UseStays DEF NewKey, markVars
<1>4. CASE UNCHANGED vars
  BY <1>4, UseStays DEF vars
<1>. QED
  BY <1>1, <1>2, <1>3, <1>4, UseConnect, UseLoad, UseGet, UseChange, UseMarkStep, UseCrash DEF Next

\* Only a rename of its own ends a command that is about to rename well.
LEMMA RenameOnly ==
  ASSUME MarkTyped, [Next]_vars, NEW a \in Writers, cmd[a].pc = "rename", cmd'[a].pc = "ok"
  PROVE  Rename(a)
<1>1. ASSUME NEW c \in Writers, MarkStep(c) PROVE Rename(a)
  <2>1. c = a
    BY <1>1, OthersWait
  <2>2. ASSUME Refused(a) PROVE FALSE
    <3>1. \E r : Becomes(a, r) /\ r.pc \in {"cleanup", "failed"}
      BY <2>2, RefusedFacts
    <3>. QED  BY <3>1 DEF Becomes
  <2>. QED
    BY <1>1, <2>1, <2>2 DEF MarkStep, Existing, SetSecret, DropSecret, ReadList, Create, Fill,
       Cleanup, Locked
<1>2. ASSUME NEW c \in Writers, Begins(c) PROVE FALSE
  <2>1. \E r : Becomes(c, r) /\ r.pc \in {"existing", "drop"}
    BY <1>2, BeginFacts DEF Begins
  <2>2. c # a
    BY <1>2 DEF Begins, Finished
  <2>. QED  BY <2>1, <2>2 DEF Becomes
<1>3. CASE MarkCrash
  <2>1. PICK r : r = [Resting EXCEPT !.pc = "failed"] /\ cmd'[a] = r
    BY <1>3 DEF MarkCrash
  <2>2. r.pc = "failed"
    BY <2>1 DEF Resting
  <2>. QED  BY <2>1, <2>2
<1>4. CASE UNCHANGED markVars
  BY <1>4 DEF markVars
<1>. QED  BY <1>1, <1>2, <1>3, <1>4, MarkPart DEF MarkNext

----------------------------------------------------------------------------
(* The theorems. *)

LEMMA InvAlways == Spec => []Inv
<1>1. Inv /\ [Next]_vars => Inv'
  BY KeyInvStep, MarkInvStep, LoadInvStep DEF Inv, LoadInv
<1>. QED  BY InvInit, <1>1, PTL DEF Spec

\* Every step keeps every variable in its type, and a task does one thing at a time.
THEOREM ConnectionsTyped == Spec => []TypeOK
<1>1. Inv => TypeOK
  BY KeyInvImplies, MarkTypedImplies DEF Inv, UseInv, UseType, TypeOK
<1>. QED  BY <1>1, InvAlways, PTL

\* Nobody signs in to a host whose key no user has approved, however the host's key
\* changes between the two attempts.
THEOREM ApprovedKeysOnly == Spec => []OnlyApprovedKeys
<1>1. Inv => OnlyApprovedKeys
  BY KeyInvImplies DEF Inv
<1>. QED  BY <1>1, InvAlways, PTL

\* One key of an algorithm is in the file, but for two attempts to remember that
\* have crossed.
THEOREM OneKeyPinned == Spec => []OnePin
<1>1. Inv => OnePin
  BY KeyInvImplies DEF Inv
<1>. QED  BY <1>1, InvAlways, PTL

\* The bookmarks file can be parsed after every step, unless two commands wrote it.
THEOREM FileAlwaysParses == Spec => []FileParses
<1>1. Inv => FileParses
  BY DEF Inv, FileInv, FileParses
<1>. QED  BY <1>1, InvAlways, PTL

\* What the keychain has under a bookmark's id fits what the file says of it.
THEOREM SecretsAlwaysFit == Spec => []SecretsFit
<1>1. Inv => SecretsFit
  BY SecretInvImplies DEF Inv
<1>. QED  BY <1>1, InvAlways, PTL

\* A connection does not use the secret of another way of signing in.
THEOREM SecretIsRight == Spec => []RightSecret
<1>1. Inv => RightSecret
  BY DEF Inv
<1>. QED  BY <1>1, InvAlways, PTL

\* A command leaves every other bookmark in the file as it is.
THEOREM OtherBookmarksStay == Spec => OthersStay
<1>1. ASSUME Inv, [Next]_vars, NEW a \in Writers, cmd[a].pc = "rename", cmd'[a].pc = "ok",
             ~cmd[a].late, ~torn', NEW b \in Marks \ {MarkOf(a)}
      PROVE  file'.list[b] = file.list[b]
  <2>1. Rename(a)
    BY <1>1, RenameOnly DEF Inv
  <2>. QED  BY <1>1, <2>1, RenameSpares DEF Inv
<1>2. Inv /\ [Next]_vars =>
        [\A a \in Writers : cmd[a].pc = "rename" /\ cmd'[a].pc = "ok" /\ ~cmd[a].late /\ ~torn' =>
           \A b \in Marks \ {MarkOf(a)} : file'.list[b] = file.list[b]]_markVars
  BY <1>1
<1>. QED  BY <1>2, InvAlways, PTL DEF Spec, OthersStay
=============================================================================
