--------------------------- MODULE BookmarksProofs ---------------------------
(***************************************************************************)
(* Lemmas about Bookmarks: what each step does to the commands, and three     *)
(* invariants (types, the file, the secrets) that every step keeps, for any   *)
(* number of tasks and bookmarks. SavedConnectionsProofs draws the theorems    *)
(* from them.                                                                  *)
(***************************************************************************)
EXTENDS Bookmarks, TLAPS

Lists == [Marks -> Methods \cup {"none"}]
Blank == [b \in Marks |-> "none"]

CmdPC == {"none", "existing", "set", "drop", "list", "create", "fill", "rename", "cleanup", "ok",
          "failed"}
CmdType == [pc : CmdPC, kind : {"none", "save", "delete"},
            mark : Marks \cup {"none"}, method : Methods \cup {"none"},
            secret : BOOLEAN, was : Methods \cup {"none"}, list : Lists,
            into : {"none", "temp", "file", "gone"}, late : BOOLEAN]

\* What a command knows at each of its steps.
CmdOK(r) ==
  /\ r.pc \notin {"none", "ok", "failed"} => r.mark \in Marks
  /\ r.pc = "cleanup" => r.was = "none"
  /\ r.pc = "set" => r.secret

MarkTyped ==
  /\ file \in [whole : BOOLEAN, list : Lists]
  /\ temp \in [there : BOOLEAN, whole : BOOLEAN, list : Lists]
  /\ key \in Lists
  /\ cmd \in [Writers -> CmdType]
  /\ torn \in BOOLEAN
  /\ marred \subseteq Marks
  /\ \A a \in Writers : CmdOK(cmd[a])

LEMMA MarkTypedImplies == MarkTyped => MarkTypeOK
  BY DEF MarkTyped, MarkTypeOK, CmdType, CmdPC, CmdOK, Lists

LEMMA BlankType == Blank \in Lists
  BY DEF Blank, Lists

LEMMA CmdRecord ==
  ASSUME NEW pc \in CmdPC, NEW kind \in {"none", "save", "delete"},
         NEW mark \in Marks \cup {"none"}, NEW method \in Methods \cup {"none"},
         NEW secret \in BOOLEAN
  PROVE  [pc |-> pc, kind |-> kind, mark |-> mark, method |-> method, secret |-> secret,
          was |-> "none", list |-> Blank, into |-> "none", late |-> FALSE] \in CmdType
  BY BlankType DEF CmdType

LEMMA ExistingType ==
  ASSUME NEW r \in CmdType, NEW pc \in CmdPC, NEW was \in Methods \cup {"none"}, NEW list \in Lists
  PROVE  [r EXCEPT !.was = was, !.list = list, !.pc = pc] \in CmdType
  BY DEF CmdType

LEMMA ReadListType ==
  ASSUME NEW r \in CmdType, NEW pc \in CmdPC, NEW list \in Lists, NEW late \in BOOLEAN
  PROVE  [r EXCEPT !.list = list, !.pc = pc, !.late = late] \in CmdType
  BY DEF CmdType

LEMMA CreateType ==
  ASSUME NEW r \in CmdType, NEW pc \in CmdPC, NEW into \in {"none", "temp", "file", "gone"}
  PROVE  [r EXCEPT !.pc = pc, !.into = into] \in CmdType
  BY DEF CmdType

\* A command that has ended is as before it began, but for how it ended.
LEMMA Ended ==
  ASSUME NEW pc \in {"none", "ok", "failed"}, NEW r, r = [Resting EXCEPT !.pc = pc]
  PROVE  r \in CmdType /\ CmdOK(r) /\ r.pc = pc /\ r.mark = "none"
<1>1. r = [pc |-> pc, kind |-> "none", mark |-> "none", method |-> "none", secret |-> FALSE,
           was |-> "none", list |-> Blank, into |-> "none", late |-> FALSE]
  BY DEF Resting, Blank
<1>2. pc \in CmdPC
  BY DEF CmdPC
<1>3. [pc |-> pc, kind |-> "none", mark |-> "none", method |-> "none", secret |-> FALSE,
       was |-> "none", list |-> Blank, into |-> "none", late |-> FALSE] \in CmdType
  BY <1>2, CmdRecord
<1>4. r \in CmdType
  BY <1>1, <1>3
<1>5. r.pc = pc /\ r.mark = "none"
  BY <1>1
<1>6. CmdOK(r)
  BY <1>5 DEF CmdOK
<1>. QED  BY <1>4, <1>5, <1>6

LEMMA RestingType == Resting \in CmdType /\ CmdOK(Resting) /\ Resting.pc = "none"
<1>1. Resting = [pc |-> "none", kind |-> "none", mark |-> "none", method |-> "none",
                 secret |-> FALSE, was |-> "none", list |-> Blank, into |-> "none", late |-> FALSE]
  BY DEF Resting, Blank
<1>2. [pc |-> "none", kind |-> "none", mark |-> "none", method |-> "none", secret |-> FALSE,
       was |-> "none", list |-> Blank, into |-> "none", late |-> FALSE] \in CmdType
  BY CmdRecord DEF CmdPC
<1>3. Resting.pc = "none"
  BY DEF Resting
<1>. QED  BY <1>1, <1>2, <1>3 DEF CmdOK

LEMMA MarkInitTyped == MarkInit => MarkTyped
<1> SUFFICES ASSUME MarkInit PROVE MarkTyped
  OBVIOUS
<1>1. file.whole = TRUE /\ file \in [whole : BOOLEAN, list : Lists]
  BY SavedAssumption DEF MarkInit, Lists
<1>2. temp \in [there : BOOLEAN, whole : BOOLEAN, list : Lists]
  BY BlankType DEF MarkInit, Blank
<1>3. key \in Lists
  BY DEF MarkInit, Lists
<1>4. cmd \in [Writers -> CmdType] /\ \A a \in Writers : CmdOK(cmd[a])
  BY RestingType DEF MarkInit
<1>5. torn \in BOOLEAN /\ marred \subseteq Marks
  BY DEF MarkInit
<1>. QED  BY <1>1, <1>2, <1>3, <1>4, <1>5 DEF MarkTyped

----------------------------------------------------------------------------
(* What each step does to the commands. *)

\* a's record becomes r and the other commands stay.
Becomes(a, r) ==
  /\ cmd' \in [Writers -> CmdType]
  /\ cmd'[a] = r /\ r \in CmdType /\ CmdOK(r)
  /\ \A c \in Writers \ {a} : cmd'[c] = cmd[c]

\* Of a's record r only the program counter has changed.
AsBefore(a, r) ==
  /\ r.kind = cmd[a].kind /\ r.mark = cmd[a].mark /\ r.method = cmd[a].method
  /\ r.secret = cmd[a].secret /\ r.was = cmd[a].was /\ r.list = cmd[a].list
  /\ r.into = cmd[a].into /\ r.late = cmd[a].late

LEMMA BecomesIf ==
  ASSUME MarkTyped, NEW a \in Writers, NEW r \in CmdType, CmdOK(r), cmd' = [cmd EXCEPT ![a] = r]
  PROVE  Becomes(a, r)
  BY DEF Becomes, MarkTyped

LEMMA EndsFacts ==
  ASSUME MarkTyped, NEW a \in Writers, NEW pc \in {"ok", "failed"},
         cmd' = [cmd EXCEPT ![a] = [Resting EXCEPT !.pc = pc]]
  PROVE  \E r : Becomes(a, r) /\ r.pc = pc /\ r.mark = "none"
<1>1. PICK r : r = [Resting EXCEPT !.pc = pc] /\ cmd' = [cmd EXCEPT ![a] = r]
  OBVIOUS
<1>2. r \in CmdType /\ CmdOK(r) /\ r.pc = pc /\ r.mark = "none"
  BY <1>1, Ended
<1>. QED  BY <1>1, <1>2, BecomesIf

LEMMA GoesFacts ==
  ASSUME MarkTyped, NEW a \in Writers, NEW pc \in CmdPC, Goes(a, pc),
         cmd[a].pc \notin {"none", "ok", "failed"},
         pc = "cleanup" => cmd[a].was = "none", pc = "set" => cmd[a].secret
  PROVE  \E r : Becomes(a, r) /\ r.pc = pc /\ AsBefore(a, r)
<1>1. cmd' = [cmd EXCEPT ![a].pc = pc] /\ cmd \in [Writers -> CmdType]
  BY DEF Goes, MarkTyped
<1>2. cmd' \in [Writers -> CmdType]
  BY <1>1 DEF CmdType
<1>3. cmd'[a].pc = pc /\ AsBefore(a, cmd'[a])
  BY <1>1 DEF AsBefore, CmdType
<1>4. \A c \in Writers \ {a} : cmd'[c] = cmd[c]
  BY <1>1
<1>5. CmdOK(cmd'[a])
  BY <1>3 DEF CmdOK, AsBefore, MarkTyped
<1>6. cmd'[a] \in CmdType
  BY <1>2
<1>. QED  BY <1>2, <1>3, <1>4, <1>5, <1>6 DEF Becomes

LEMMA BeginFacts ==
  ASSUME MarkTyped, NEW a \in Writers, BeginSave(a) \/ BeginDelete(a)
  PROVE  \E b \in Marks : \E r :
           /\ Becomes(a, r) /\ r.mark = b /\ r.pc \in {"existing", "drop"}
           /\ marred' = IF Contested(a, b) THEN marred \cup {b} ELSE marred
           /\ UNCHANGED <<file, temp, key, torn>>
<1>1. CASE BeginSave(a)
  <2>1. PICK b \in Marks, m \in Methods, secret \in BOOLEAN :
          /\ cmd' = [cmd EXCEPT ![a] = [Resting EXCEPT !.pc = "existing", !.kind = "save", !.mark = b,
                                                       !.method = m, !.secret = secret]]
          /\ marred' = IF Contested(a, b) THEN marred \cup {b} ELSE marred
          /\ UNCHANGED <<file, temp, key, torn>>
    BY <1>1 DEF BeginSave
  <2>2. PICK r : /\ r = [Resting EXCEPT !.pc = "existing", !.kind = "save", !.mark = b,
                                        !.method = m, !.secret = secret]
                 /\ cmd' = [cmd EXCEPT ![a] = r]
    BY <2>1
  <2>3. r = [pc |-> "existing", kind |-> "save", mark |-> b, method |-> m, secret |-> secret,
             was |-> "none", list |-> Blank, into |-> "none", late |-> FALSE]
    BY <2>2 DEF Resting, Blank
  <2>4. [pc |-> "existing", kind |-> "save", mark |-> b, method |-> m, secret |-> secret,
         was |-> "none", list |-> Blank, into |-> "none", late |-> FALSE] \in CmdType
    BY CmdRecord DEF CmdPC
  <2>5. r.mark = b /\ r.pc = "existing" /\ CmdOK(r)
    BY <2>3 DEF CmdOK
  <2>6. Becomes(a, r)
    BY <2>2, <2>3, <2>4, <2>5, BecomesIf
  <2>. QED  BY <2>1, <2>5, <2>6
<1>2. CASE BeginDelete(a)
  <2>1. PICK b \in Marks :
          /\ cmd' = [cmd EXCEPT ![a] = [Resting EXCEPT !.pc = "drop", !.kind = "delete", !.mark = b]]
          /\ marred' = IF Contested(a, b) THEN marred \cup {b} ELSE marred
          /\ UNCHANGED <<file, temp, key, torn>>
    BY <1>2 DEF BeginDelete
  <2>2. PICK r : /\ r = [Resting EXCEPT !.pc = "drop", !.kind = "delete", !.mark = b]
                 /\ cmd' = [cmd EXCEPT ![a] = r]
    BY <2>1
  <2>3. r = [pc |-> "drop", kind |-> "delete", mark |-> b, method |-> "none", secret |-> FALSE,
             was |-> "none", list |-> Blank, into |-> "none", late |-> FALSE]
    BY <2>2 DEF Resting, Blank
  <2>4. [pc |-> "drop", kind |-> "delete", mark |-> b, method |-> "none", secret |-> FALSE,
         was |-> "none", list |-> Blank, into |-> "none", late |-> FALSE] \in CmdType
    BY CmdRecord DEF CmdPC
  <2>5. r.mark = b /\ r.pc = "drop" /\ CmdOK(r)
    BY <2>3 DEF CmdOK
  <2>6. Becomes(a, r)
    BY <2>2, <2>3, <2>4, <2>5, BecomesIf
  <2>. QED  BY <2>1, <2>5, <2>6
<1>. QED  BY <1>1, <1>2

LEMMA ExistingFacts ==
  ASSUME MarkTyped, NEW a \in Writers, Existing(a)
  PROVE  LET was == file.list[MarkOf(a)]
             m == cmd[a].method
         IN \E r :
           /\ Becomes(a, r)
           /\ r.mark = cmd[a].mark /\ r.method = m /\ r.secret = cmd[a].secret
           /\ r.pc \in {"set", "drop", "list"}
           /\ r.pc = "list" => ~cmd[a].secret /\ (was = "none" \/ AuthMethod(was) = AuthMethod(m))
           /\ marred' = IF was \in Cloud /\ m \in Cloud \ {was} /\ ~cmd[a].secret
                        THEN marred \cup {MarkOf(a)} ELSE marred
<1>. DEFINE was == file.list[MarkOf(a)]
            m == cmd[a].method
            changed == was # "none" /\ AuthMethod(was) # AuthMethod(m)
            pc == IF cmd[a].secret THEN "set"
                  ELSE IF m = "agent" \/ changed THEN "drop" ELSE "list"
<1>1. /\ cmd' = [cmd EXCEPT ![a].was = was, ![a].list = file.list, ![a].pc = pc]
      /\ marred' = IF was \in Cloud /\ m \in Cloud \ {was} /\ ~cmd[a].secret
                   THEN marred \cup {MarkOf(a)} ELSE marred
  BY DEF Existing, Load
<1>2. cmd \in [Writers -> CmdType] /\ MarkOf(a) \in Marks /\ file.list \in Lists
  BY DEF MarkTyped, CmdOK, MarkOf, Existing
<1>3. was \in Methods \cup {"none"}
  BY <1>2 DEF Lists
<1>4. pc \in CmdPC /\ pc \in {"set", "drop", "list"} /\ (pc = "set" => cmd[a].secret)
      /\ (pc = "list" => ~cmd[a].secret /\ ~changed)
  BY DEF CmdPC
<1>. HIDE DEF pc, was
<1>5. cmd' \in [Writers -> CmdType]
  <2>1. cmd' = [cmd EXCEPT ![a] = [cmd[a] EXCEPT !.was = was, !.list = file.list, !.pc = pc]]
    BY <1>1
  <2>2. [cmd[a] EXCEPT !.was = was, !.list = file.list, !.pc = pc] \in CmdType
    BY <1>2, <1>3, <1>4, ExistingType
  <2>. QED  BY <1>2, <2>1, <2>2
<1>6. /\ cmd'[a].pc = pc /\ cmd'[a].mark = cmd[a].mark /\ cmd'[a].method = m
      /\ cmd'[a].secret = cmd[a].secret
  BY <1>1, <1>2 DEF CmdType
<1>7. \A c \in Writers \ {a} : cmd'[c] = cmd[c]
  BY <1>1, <1>2
<1>8. CmdOK(cmd'[a]) /\ cmd'[a] \in CmdType
  BY <1>2, <1>4, <1>5, <1>6 DEF CmdOK, MarkOf
<1>9. Becomes(a, cmd'[a])
  BY <1>5, <1>7, <1>8 DEF Becomes
<1>. QED  BY <1>1, <1>4, <1>6, <1>9 DEF was

LEMMA ReadListFacts ==
  ASSUME MarkTyped, NEW a \in Writers, ReadList(a)
  PROVE  \E r :
           /\ Becomes(a, r) /\ r.pc = "create" /\ ~r.late
           /\ r.mark = cmd[a].mark /\ r.method = cmd[a].method /\ r.secret = cmd[a].secret
           /\ \A b \in Marks \ {r.mark} : r.list[b] = file.list[b]
<1>. DEFINE new == [file.list EXCEPT ![MarkOf(a)] = cmd[a].method]
<1>1. cmd' = [cmd EXCEPT ![a].list = new, ![a].pc = "create", ![a].late = FALSE]
  BY DEF ReadList, Load
<1>2. cmd \in [Writers -> CmdType] /\ MarkOf(a) \in Marks /\ file.list \in Lists
  BY DEF MarkTyped, CmdOK, MarkOf, ReadList
<1>3. cmd[a].method \in Methods \cup {"none"}
  BY <1>2 DEF CmdType
<1>4. new \in Lists /\ \A b \in Marks \ {MarkOf(a)} : new[b] = file.list[b]
  BY <1>2, <1>3 DEF Lists
<1>. HIDE DEF new
<1>5. cmd' \in [Writers -> CmdType]
  <2>1. cmd' = [cmd EXCEPT ![a] = [cmd[a] EXCEPT !.list = new, !.pc = "create", !.late = FALSE]]
    BY <1>1
  <2>2. [cmd[a] EXCEPT !.list = new, !.pc = "create", !.late = FALSE] \in CmdType
    BY <1>2, <1>4, ReadListType DEF CmdPC
  <2>. QED  BY <1>2, <2>1, <2>2
<1>6. /\ cmd'[a].pc = "create" /\ cmd'[a].mark = cmd[a].mark /\ cmd'[a].method = cmd[a].method
      /\ cmd'[a].secret = cmd[a].secret /\ cmd'[a].list = new /\ cmd'[a].late = FALSE
  BY <1>1, <1>2 DEF CmdType
<1>7. \A c \in Writers \ {a} : cmd'[c] = cmd[c]
  BY <1>1, <1>2
<1>8. CmdOK(cmd'[a]) /\ cmd'[a] \in CmdType
  BY <1>2, <1>5, <1>6 DEF CmdOK, MarkOf
<1>9. Becomes(a, cmd'[a])
  BY <1>5, <1>7, <1>8 DEF Becomes
<1>. QED  BY <1>4, <1>6, <1>9 DEF MarkOf

LEMMA CreateFacts ==
  ASSUME MarkTyped, NEW a \in Writers, Create(a)
  PROVE  \E r :
           /\ Becomes(a, r) /\ r.pc = "fill" /\ r.into = "temp" /\ r.late = cmd[a].late
           /\ r.mark = cmd[a].mark /\ r.method = cmd[a].method /\ r.secret = cmd[a].secret
           /\ r.list = cmd[a].list
<1>1. cmd' = [cmd EXCEPT ![a].pc = "fill", ![a].into = "temp"]
  BY DEF Create
<1>2. cmd \in [Writers -> CmdType] /\ MarkOf(a) \in Marks
  BY DEF MarkTyped, CmdOK, MarkOf, Create
<1>5. cmd' \in [Writers -> CmdType]
  <2>1. cmd' = [cmd EXCEPT ![a] = [cmd[a] EXCEPT !.pc = "fill", !.into = "temp"]]
    BY <1>1
  <2>2. [cmd[a] EXCEPT !.pc = "fill", !.into = "temp"] \in CmdType
    BY <1>2, CreateType DEF CmdPC
  <2>. QED  BY <1>2, <2>1, <2>2
<1>6. /\ cmd'[a].pc = "fill" /\ cmd'[a].mark = cmd[a].mark /\ cmd'[a].method = cmd[a].method
      /\ cmd'[a].secret = cmd[a].secret /\ cmd'[a].list = cmd[a].list
      /\ cmd'[a].late = cmd[a].late /\ cmd'[a].into = "temp"
  BY <1>1, <1>2 DEF CmdType
<1>7. \A c \in Writers \ {a} : cmd'[c] = cmd[c]
  BY <1>1, <1>2
<1>8. CmdOK(cmd'[a]) /\ cmd'[a] \in CmdType
  BY <1>2, <1>5, <1>6 DEF CmdOK, MarkOf
<1>9. Becomes(a, cmd'[a])
  BY <1>5, <1>7, <1>8 DEF Becomes
<1>. QED  BY <1>6, <1>9

LEMMA RefusedFacts ==
  ASSUME MarkTyped, NEW a \in Writers, Refused(a)
  PROVE  LET created == cmd[a].secret /\ cmd[a].pc # "existing"
         IN \E r :
           /\ Becomes(a, r)
           /\ \/ created /\ r.pc = "cleanup" /\ AsBefore(a, r) /\ UNCHANGED marred
              \/ created /\ r.pc = "failed" /\ marred' = marred \cup {MarkOf(a)}
              \/ ~created /\ r.pc = "failed" /\ UNCHANGED marred
<1>. DEFINE created == cmd[a].secret /\ cmd[a].pc # "existing"
            takesBack == created /\ cmd[a].was = "none"
<1>1. /\ cmd' = [cmd EXCEPT ![a] = IF takesBack THEN [@ EXCEPT !.pc = "cleanup"]
                                   ELSE [Resting EXCEPT !.pc = "failed"]]
      /\ marred' = IF created /\ ~takesBack THEN marred \cup {MarkOf(a)} ELSE marred
  BY DEF Refused
<1>. HIDE DEF created
<1>2. CASE takesBack
  <2>1. Goes(a, "cleanup")
    BY <1>1, <1>2 DEF Goes
  <2>2. \E r : Becomes(a, r) /\ r.pc = "cleanup" /\ AsBefore(a, r)
    BY <1>2, <2>1, GoesFacts DEF Refused, CmdPC
  <2>. QED  BY <1>1, <1>2, <2>2 DEF created
<1>3. CASE ~takesBack
  <2>1. cmd' = [cmd EXCEPT ![a] = [Resting EXCEPT !.pc = "failed"]]
    BY <1>1, <1>3
  <2>2. \E r : Becomes(a, r) /\ r.pc = "failed"
    BY <2>1, EndsFacts
  <2>. QED  BY <1>1, <1>3, <2>2 DEF created
<1>. QED  BY <1>2, <1>3

\* The other commands' records after a rename.
LEMMA RenameFacts ==
  ASSUME MarkTyped, NEW a \in Writers, Rename(a)
  PROVE  /\ cmd' \in [Writers -> CmdType] /\ cmd'[a].pc = "ok"
         /\ \A c \in Writers : CmdOK(cmd'[c])
         /\ \A c \in Writers \ {a} :
              /\ cmd'[c].pc = cmd[c].pc /\ cmd'[c].mark = cmd[c].mark
              /\ cmd'[c].method = cmd[c].method /\ cmd'[c].secret = cmd[c].secret
              /\ cmd'[c].list = cmd[c].list
              /\ cmd[c].pc \in {"create", "fill", "rename"} => cmd'[c].late
<1>. DEFINE Into(x) == IF x = "temp" THEN "file" ELSE IF x = "file" THEN "gone" ELSE x
<1>1. cmd' = [c \in Writers |->
               IF c = a THEN [Resting EXCEPT !.pc = "ok"]
               ELSE [cmd[c] EXCEPT !.into = Into(@),
                                   !.late = @ \/ cmd[c].pc \in {"create", "fill", "rename"}]]
  BY DEF Rename
<1>2. cmd \in [Writers -> CmdType] /\ \A c \in Writers : CmdOK(cmd[c])
  BY DEF MarkTyped
<1>3. cmd'[a] \in CmdType /\ cmd'[a].pc = "ok" /\ CmdOK(cmd'[a])
  <2>1. PICK r : r = [Resting EXCEPT !.pc = "ok"]
    OBVIOUS
  <2>2. cmd'[a] = r
    BY <1>1, <2>1
  <2>. QED  BY <2>1, <2>2, Ended
<1>4. ASSUME NEW c \in Writers \ {a}
      PROVE  /\ cmd'[c] \in CmdType /\ cmd'[c].pc = cmd[c].pc /\ cmd'[c].mark = cmd[c].mark
             /\ cmd'[c].method = cmd[c].method /\ cmd'[c].secret = cmd[c].secret
             /\ cmd'[c].list = cmd[c].list /\ cmd'[c].was = cmd[c].was
             /\ cmd[c].pc \in {"create", "fill", "rename"} => cmd'[c].late
  <2>1. cmd[c] \in CmdType
    BY <1>2
  <2>2. Into(cmd[c].into) \in {"none", "temp", "file", "gone"}
    BY <2>1 DEF CmdType
  <2>3. PICK late \in BOOLEAN : late <=> cmd[c].late \/ cmd[c].pc \in {"create", "fill", "rename"}
    OBVIOUS
  <2>4. PICK into \in {"none", "temp", "file", "gone"} : into = Into(cmd[c].into)
    BY <2>2
  <2>5. cmd'[c] = [cmd[c] EXCEPT !.into = into, !.late = late]
    <3>1. cmd[c].late \in BOOLEAN
      BY <2>1 DEF CmdType
    <3>2. late = (cmd[c].late \/ cmd[c].pc \in {"create", "fill", "rename"})
      BY <2>3, <3>1
    <3>. QED  BY <1>1, <2>4, <3>2
  <2>6. cmd'[c] \in CmdType
    BY <2>1, <2>5 DEF CmdType
  <2>7. /\ cmd'[c].pc = cmd[c].pc /\ cmd'[c].mark = cmd[c].mark
        /\ cmd'[c].method = cmd[c].method /\ cmd'[c].secret = cmd[c].secret
        /\ cmd'[c].list = cmd[c].list /\ cmd'[c].was = cmd[c].was /\ cmd'[c].late = late
    BY <2>1, <2>5 DEF CmdType
  <2>. QED  BY <2>3, <2>6, <2>7
<1>5. cmd' \in [Writers -> CmdType]
  BY <1>1, <1>3, <1>4
<1>6. \A c \in Writers : CmdOK(cmd'[c])
  BY <1>2, <1>3, <1>4 DEF CmdOK
<1>. QED  BY <1>3, <1>4, <1>5, <1>6
----------------------------------------------------------------------------
(* Types. *)

\* A change begins, when the task has nothing else under way, goes on or is cut short.
Begins(a) == Finished(a) /\ (BeginSave(a) \/ BeginDelete(a))
MarkNext == (\E a \in Writers : Begins(a) \/ MarkStep(a)) \/ MarkCrash

LEMMA TypedIf ==
  ASSUME MarkTyped, NEW a \in Writers, NEW r, Becomes(a, r),
         file' \in [whole : BOOLEAN, list : Lists],
         temp' \in [there : BOOLEAN, whole : BOOLEAN, list : Lists],
         key' \in Lists, torn' \in BOOLEAN, marred' \subseteq Marks
  PROVE  MarkTyped'
  BY DEF Becomes, MarkTyped

LEMMA FillFacts ==
  ASSUME MarkTyped, NEW a \in Writers, Fill(a)
  PROVE  /\ \E r : Becomes(a, r) /\ r.pc = "rename" /\ AsBefore(a, r)
         /\ \/ /\ cmd[a].into = "temp"
               /\ \E whole \in BOOLEAN :
                    /\ temp' = [there |-> TRUE, whole |-> whole, list |-> cmd[a].list]
                    /\ whole \/ temp.whole
               /\ UNCHANGED <<file, marred>>
            \/ /\ cmd[a].into = "file"
               /\ \E whole \in BOOLEAN : file' = [whole |-> whole, list |-> cmd[a].list]
               /\ marred' = marred \cup Undone(a, cmd[a].list)
               /\ UNCHANGED temp
            \/ cmd[a].into = "gone" /\ UNCHANGED <<file, temp, marred>>
         /\ UNCHANGED <<key, torn>>
<1>1. \E r : Becomes(a, r) /\ r.pc = "rename" /\ AsBefore(a, r)
  BY GoesFacts DEF Fill, CmdPC
<1>2. temp.whole \in BOOLEAN /\ file.whole \in BOOLEAN
  BY DEF MarkTyped
<1>3. CASE cmd[a].into = "temp" /\ UNCHANGED <<file, marred>>
  BY <1>1, <1>2, <1>3 DEF Fill
<1>4. CASE cmd[a].into = "file" /\ UNCHANGED temp
  BY <1>1, <1>2, <1>4 DEF Fill
<1>5. CASE cmd[a].into = "gone" /\ UNCHANGED <<file, temp, marred>>
  BY <1>1, <1>5 DEF Fill
<1>. QED  BY <1>3, <1>4, <1>5 DEF Fill

LEMMA MarkTypedStep == MarkTyped /\ MarkNext => MarkTyped'
<1> SUFFICES ASSUME MarkTyped, MarkNext PROVE MarkTyped'
  OBVIOUS
<1>t. /\ file \in [whole : BOOLEAN, list : Lists]
      /\ temp \in [there : BOOLEAN, whole : BOOLEAN, list : Lists]
      /\ key \in Lists /\ torn \in BOOLEAN /\ marred \subseteq Marks
      /\ cmd \in [Writers -> CmdType]
  BY DEF MarkTyped
<1>m. \A a \in Writers : cmd[a].pc \notin {"none", "ok", "failed"} => MarkOf(a) \in Marks
  BY DEF MarkTyped, CmdOK, MarkOf
<1>1. ASSUME NEW a \in Writers, Begins(a) PROVE MarkTyped'
  <2>1. PICK b, r :
          /\ b \in Marks
          /\ Becomes(a, r)
          /\ marred' = IF Contested(a, b) THEN marred \cup {b} ELSE marred
          /\ UNCHANGED <<file, temp, key, torn>>
    BY <1>1, BeginFacts DEF Begins
  <2>2. marred' \subseteq Marks
    BY <2>1, <1>t
  <2>. QED  BY <2>1, <2>2, <1>t, TypedIf
<1>2. ASSUME NEW a \in Writers, Existing(a) PROVE MarkTyped'
  <2>1. \E r : Becomes(a, r)
    BY <1>2, ExistingFacts
  <2>2. marred' \subseteq Marks /\ UNCHANGED <<file, temp, key, torn>>
    BY <1>2, <1>t, <1>m DEF Existing
  <2>. QED  BY <2>1, <2>2, <1>t, TypedIf
<1>3. ASSUME NEW a \in Writers, SetSecret(a) \/ DropSecret(a) PROVE MarkTyped'
  <2>1. \E r : Becomes(a, r)
    BY <1>3, GoesFacts DEF SetSecret, DropSecret, CmdPC
  <2>2. cmd[a].method \in Methods \cup {"none"}
    BY <1>t DEF CmdType
  <2>3. key' \in Lists /\ UNCHANGED <<file, temp, torn, marred>>
    BY <1>3, <1>t, <2>2 DEF SetSecret, DropSecret, Lists
  <2>. QED  BY <2>1, <2>3, <1>t, TypedIf
<1>4. ASSUME NEW a \in Writers, ReadList(a) PROVE MarkTyped'
  <2>1. \E r : Becomes(a, r)
    BY <1>4, ReadListFacts
  <2>. QED  BY <1>4, <2>1, <1>t, TypedIf DEF ReadList
<1>5. ASSUME NEW a \in Writers, Create(a) PROVE MarkTyped'
  <2>1. \E r : Becomes(a, r)
    BY <1>5, CreateFacts
  <2>2. temp' \in [there : BOOLEAN, whole : BOOLEAN, list : Lists] /\ torn' \in BOOLEAN
    BY <1>5, <1>t DEF Create
  <2>. QED  BY <1>5, <2>1, <2>2, <1>t, TypedIf DEF Create
<1>6. ASSUME NEW a \in Writers, Fill(a) PROVE MarkTyped'
  <2>1. cmd[a].list \in Lists
    BY <1>t DEF CmdType
  <2>2. /\ file' \in [whole : BOOLEAN, list : Lists]
        /\ temp' \in [there : BOOLEAN, whole : BOOLEAN, list : Lists]
    <3>1. \/ UNCHANGED file \/ \E whole \in BOOLEAN : file' = [whole |-> whole, list |-> cmd[a].list]
      BY <1>6, FillFacts
    <3>2. \/ UNCHANGED temp
          \/ \E whole \in BOOLEAN : temp' = [there |-> TRUE, whole |-> whole, list |-> cmd[a].list]
      BY <1>6, FillFacts
    <3>3. file' \in [whole : BOOLEAN, list : Lists]
      BY <1>t, <2>1, <3>1
    <3>4. temp' \in [there : BOOLEAN, whole : BOOLEAN, list : Lists]
      <4>1. CASE UNCHANGED temp
        BY <1>t, <4>1
      <4>2. CASE ~UNCHANGED temp
        <5>1. PICK whole \in BOOLEAN :
                temp' = [there |-> TRUE, whole |-> whole, list |-> cmd[a].list]
          BY <3>2, <4>2
        <5>2. [there |-> TRUE, whole |-> whole, list |-> cmd[a].list]
                \in [there : BOOLEAN, whole : BOOLEAN, list : Lists]
          BY <2>1
        <5>. QED  BY <5>1, <5>2
      <4>. QED  BY <4>1, <4>2
    <3>. QED  BY <3>3, <3>4
  <2>3. marred' \subseteq Marks
    BY <1>6, <1>t, FillFacts DEF Undone
  <2>4. PICK r : Becomes(a, r)
    BY <1>6, FillFacts
  <2>5. key' \in Lists /\ torn' \in BOOLEAN
    BY <1>6, <1>t, FillFacts
  <2>. QED  BY <2>2, <2>3, <2>4, <2>5, TypedIf
<1>7. ASSUME NEW a \in Writers, Rename(a) PROVE MarkTyped'
  <2>1. cmd' \in [Writers -> CmdType] /\ \A c \in Writers : CmdOK(cmd'[c])
    BY <1>7, RenameFacts
  <2>2. /\ file' \in [whole : BOOLEAN, list : Lists]
        /\ temp' \in [there : BOOLEAN, whole : BOOLEAN, list : Lists]
    BY <1>7, <1>t, BlankType DEF Rename, Blank
  <2>3. marred' \subseteq Marks /\ UNCHANGED <<key, torn>>
    BY <1>7, <1>t DEF Rename, Undone
  <2>. QED  BY <2>1, <2>2, <2>3 DEF MarkTyped
<1>8. ASSUME NEW a \in Writers, Refused(a) PROVE MarkTyped'
  <2>1. \E r : Becomes(a, r)
    BY <1>8, RefusedFacts
  <2>2. marred' \subseteq Marks /\ UNCHANGED <<file, temp, key, torn>>
    BY <1>8, <1>t, <1>m DEF Refused
  <2>. QED  BY <2>1, <2>2, <1>t, TypedIf
<1>9. ASSUME NEW a \in Writers, Cleanup(a) PROVE MarkTyped'
  <2>1. \E r : Becomes(a, r)
    BY <1>9, EndsFacts DEF Cleanup
  <2>2. key' \in Lists /\ marred' \subseteq Marks /\ UNCHANGED <<file, temp, torn>>
    BY <1>9, <1>t, <1>m DEF Cleanup, Lists
  <2>. QED  BY <2>1, <2>2, <1>t, TypedIf
<1>10. ASSUME NEW a \in Writers, Locked(a) PROVE MarkTyped'
  <2>1. \E r : Becomes(a, r)
    BY <1>10, EndsFacts DEF Locked
  <2>. QED  BY <1>10, <2>1, <1>t, TypedIf DEF Locked
<1>11. CASE MarkCrash
  <2>1. ASSUME NEW a \in Writers PROVE cmd'[a] \in CmdType /\ CmdOK(cmd'[a])
    <3>1. PICK pc, r : pc \in {"none", "ok", "failed"} /\ r = [Resting EXCEPT !.pc = pc] /\ cmd'[a] = r
      BY <1>11 DEF MarkCrash
    <3>. QED  BY <3>1, Ended
  <2>2. cmd' \in [Writers -> CmdType]
    BY <1>11, <2>1 DEF MarkCrash
  <2>3. marred' \subseteq Marks /\ UNCHANGED <<file, temp, key, torn>>
    BY <1>11, <1>t, <1>m DEF MarkCrash, Finished
  <2>. QED  BY <2>1, <2>2, <2>3, <1>t DEF MarkTyped
<1>. QED
  BY <1>1, <1>2, <1>3, <1>4, <1>5, <1>6, <1>7, <1>8, <1>9, <1>10, <1>11 DEF MarkNext, MarkStep

----------------------------------------------------------------------------
(* The file. *)

Writing(a) == cmd[a].pc \in {"fill", "rename"}

\* Unless two have written it together, one writer at most is at the temporary
\* file; it has emptied it first, and once it is full it is what the writer meant.
\* A list goes stale only by another's rename.
FileInv ==
  torn \/ /\ file.whole
          /\ \A a, c \in Writers : Writing(a) /\ Writing(c) => a = c
          /\ \A a \in Writers :
               /\ Writing(a) => cmd[a].into = "temp"
               /\ cmd[a].pc = "fill" => ~temp.whole
               /\ cmd[a].pc = "rename" => temp.whole /\ temp.list = cmd[a].list
               /\ cmd[a].pc \in {"create", "fill", "rename"} /\ ~cmd[a].late =>
                    \A b \in Marks \ {MarkOf(a)} : cmd[a].list[b] = file.list[b]

LEMMA FileInit == MarkInit => FileInv
  BY DEF MarkInit, FileInv, Writing, Resting

\* A step of a command that is not writing and touches neither file.
LEMMA FileSame ==
  ASSUME FileInv, NEW a \in Writers, NEW r, Becomes(a, r), UNCHANGED <<file, temp, torn>>,
         \/ r.pc \notin {"create", "fill", "rename"}
         \/ /\ r.pc = "create"
            /\ ~r.late => \A b \in Marks \ {r.mark} : r.list[b] = file.list[b]
  PROVE  FileInv'
<1>1. CASE torn
  BY <1>1 DEF FileInv
<1>2. CASE ~torn
  <2>1. /\ file.whole /\ \A c, d \in Writers : Writing(c) /\ Writing(d) => c = d
        /\ \A c \in Writers :
               /\ Writing(c) => cmd[c].into = "temp"
               /\ cmd[c].pc = "fill" => ~temp.whole
               /\ cmd[c].pc = "rename" => temp.whole /\ temp.list = cmd[c].list
               /\ cmd[c].pc \in {"create", "fill", "rename"} /\ ~cmd[c].late =>
                    \A b \in Marks \ {MarkOf(c)} : cmd[c].list[b] = file.list[b]
    BY <1>2 DEF FileInv
  <2>2. cmd'[a] = r /\ \A c \in Writers \ {a} : cmd'[c] = cmd[c]
    BY DEF Becomes
  <2>3. ~Writing(a)' /\ \A c \in Writers \ {a} : Writing(c)' <=> Writing(c)
    BY <2>2 DEF Writing
  <2>4. \A c, d \in Writers : Writing(c)' /\ Writing(d)' => c = d
    BY <2>1, <2>3
  <2>5. ASSUME NEW c \in Writers
        PROVE  /\ Writing(c)' => cmd'[c].into = "temp"
               /\ cmd'[c].pc = "fill" => ~temp'.whole
               /\ cmd'[c].pc = "rename" => temp'.whole /\ temp'.list = cmd'[c].list
               /\ cmd'[c].pc \in {"create", "fill", "rename"} /\ ~cmd'[c].late =>
                    \A b \in Marks \ {MarkOf(c)'} : cmd'[c].list[b] = file'.list[b]
    <3>1. CASE c = a
      BY <2>2, <2>3, <3>1 DEF MarkOf
    <3>2. CASE c # a
      BY <2>1, <2>2, <2>3, <3>2 DEF MarkOf
    <3>. QED  BY <3>1, <3>2
  <2>. QED  BY <2>1, <2>4, <2>5 DEF FileInv
<1>. QED  BY <1>1, <1>2

LEMMA FileStep == MarkTyped /\ FileInv /\ MarkNext => FileInv'
<1> SUFFICES ASSUME MarkTyped, FileInv, MarkNext PROVE FileInv'
  OBVIOUS
<1>1. ASSUME NEW a \in Writers, Begins(a) PROVE FileInv'
  <2>1. PICK r : Becomes(a, r) /\ r.pc \in {"existing", "drop"} /\ UNCHANGED <<file, temp, torn>>
    BY <1>1, BeginFacts DEF Begins
  <2>. QED  BY <2>1, FileSame
<1>2. ASSUME NEW a \in Writers, Existing(a) PROVE FileInv'
  <2>1. PICK r : Becomes(a, r) /\ r.pc \in {"set", "drop", "list"}
    BY <1>2, ExistingFacts
  <2>2. UNCHANGED <<file, temp, torn>>
    BY <1>2 DEF Existing
  <2>. QED  BY <2>1, <2>2, FileSame
<1>3. ASSUME NEW a \in Writers, SetSecret(a) \/ DropSecret(a) PROVE FileInv'
  <2>1. PICK r : Becomes(a, r) /\ r.pc = "list"
    BY <1>3, GoesFacts DEF SetSecret, DropSecret, CmdPC
  <2>2. UNCHANGED <<file, temp, torn>>
    BY <1>3 DEF SetSecret, DropSecret
  <2>. QED  BY <2>1, <2>2, FileSame
<1>4. ASSUME NEW a \in Writers, ReadList(a) PROVE FileInv'
  <2>1. PICK r : Becomes(a, r) /\ r.pc = "create"
                 /\ \A b \in Marks \ {r.mark} : r.list[b] = file.list[b]
    BY <1>4, ReadListFacts
  <2>2. UNCHANGED <<file, temp, torn>>
    BY <1>4 DEF ReadList
  <2>. QED  BY <2>1, <2>2, FileSame
<1>8. ASSUME NEW a \in Writers, Refused(a) PROVE FileInv'
  <2>1. PICK r : Becomes(a, r) /\ r.pc \in {"cleanup", "failed"}
    BY <1>8, RefusedFacts
  <2>2. UNCHANGED <<file, temp, torn>>
    BY <1>8 DEF Refused
  <2>. QED  BY <2>1, <2>2, FileSame
<1>9. ASSUME NEW a \in Writers, Cleanup(a) \/ Locked(a) PROVE FileInv'
  <2>1. PICK r : Becomes(a, r) /\ r.pc = "failed"
    BY <1>9, EndsFacts DEF Cleanup, Locked
  <2>2. UNCHANGED <<file, temp, torn>>
    BY <1>9 DEF Cleanup, Locked
  <2>. QED  BY <2>1, <2>2, FileSame
<1>5. ASSUME NEW a \in Writers, Create(a) PROVE FileInv'
  <2> SUFFICES ASSUME ~torn' PROVE FileInv'
    BY DEF FileInv
  <2>1. PICK r : /\ Becomes(a, r) /\ r.pc = "fill" /\ r.into = "temp" /\ r.late = cmd[a].late
                 /\ r.mark = cmd[a].mark /\ r.list = cmd[a].list
    BY <1>5, CreateFacts
  <2>2. /\ cmd[a].pc = "create" /\ temp'.whole = FALSE /\ UNCHANGED file
        /\ ~torn /\ \A c \in Writers \ {a} : ~Writing(c)
    BY <1>5 DEF Create, Writing
  <2>3. cmd'[a] = r /\ \A c \in Writers \ {a} : cmd'[c] = cmd[c]
    BY <2>1 DEF Becomes
  <2>4. \A c \in Writers \ {a} : ~Writing(c)'
    BY <2>2, <2>3 DEF Writing
  <2>5. \A c, d \in Writers : Writing(c)' /\ Writing(d)' => c = d
    BY <2>4
  <2>6. ASSUME NEW c \in Writers
        PROVE  /\ Writing(c)' => cmd'[c].into = "temp"
               /\ cmd'[c].pc = "fill" => ~temp'.whole
               /\ cmd'[c].pc = "rename" => temp'.whole /\ temp'.list = cmd'[c].list
               /\ cmd'[c].pc \in {"create", "fill", "rename"} /\ ~cmd'[c].late =>
                    \A b \in Marks \ {MarkOf(c)'} : cmd'[c].list[b] = file'.list[b]
    <3>1. CASE c = a
      BY <2>1, <2>2, <2>3, <3>1 DEF MarkOf, FileInv
    <3>2. CASE c # a
      BY <2>2, <2>3, <2>4, <3>2 DEF MarkOf, FileInv, Writing
    <3>. QED  BY <3>1, <3>2
  <2>. QED  BY <2>2, <2>5, <2>6 DEF FileInv
<1>6. ASSUME NEW a \in Writers, Fill(a) PROVE FileInv'
  <2>1. PICK r : Becomes(a, r) /\ r.pc = "rename" /\ AsBefore(a, r)
    BY <1>6, FillFacts
  <2>t. UNCHANGED torn /\ cmd[a].pc = "fill"
    BY <1>6 DEF Fill
  <2> SUFFICES ASSUME ~torn PROVE FileInv'
    BY <2>t DEF FileInv
  <2>2. cmd[a].into = "temp" /\ ~temp.whole /\ \A c \in Writers \ {a} : ~Writing(c)
    BY <2>t DEF FileInv, Writing
  <2>3. temp'.whole /\ temp'.list = cmd[a].list /\ UNCHANGED file
    BY <1>6, <2>2, FillFacts
  <2>4. cmd'[a] = r /\ \A c \in Writers \ {a} : cmd'[c] = cmd[c]
    BY <2>1 DEF Becomes
  <2>5. \A c \in Writers \ {a} : ~Writing(c)'
    BY <2>2, <2>4 DEF Writing
  <2>6. \A c, d \in Writers : Writing(c)' /\ Writing(d)' => c = d
    BY <2>5
  <2>7. ASSUME NEW c \in Writers
        PROVE  /\ Writing(c)' => cmd'[c].into = "temp"
               /\ cmd'[c].pc = "fill" => ~temp'.whole
               /\ cmd'[c].pc = "rename" => temp'.whole /\ temp'.list = cmd'[c].list
               /\ cmd'[c].pc \in {"create", "fill", "rename"} /\ ~cmd'[c].late =>
                    \A b \in Marks \ {MarkOf(c)'} : cmd'[c].list[b] = file'.list[b]
    <3>1. CASE c = a
      BY <2>1, <2>2, <2>3, <2>4, <2>t, <3>1 DEF MarkOf, FileInv, AsBefore
    <3>2. CASE c # a
      BY <2>3, <2>4, <2>5, <3>2 DEF MarkOf, FileInv, Writing
    <3>. QED  BY <3>1, <3>2
  <2>8. file'.whole
    BY <2>3 DEF FileInv
  <2>. QED  BY <2>6, <2>7, <2>8 DEF FileInv
<1>7. ASSUME NEW a \in Writers, Rename(a) PROVE FileInv'
  <2>t. UNCHANGED torn /\ cmd[a].pc = "rename" /\ file' = [whole |-> temp.whole, list |-> temp.list]
    BY <1>7 DEF Rename
  <2> SUFFICES ASSUME ~torn PROVE FileInv'
    BY <2>t DEF FileInv
  <2>1. file'.whole /\ \A c \in Writers \ {a} : ~Writing(c)
    BY <2>t DEF FileInv, Writing
  <2>2. cmd'[a].pc = "ok"
        /\ \A c \in Writers \ {a} :
             cmd'[c].pc = cmd[c].pc /\ (cmd[c].pc \in {"create", "fill", "rename"} => cmd'[c].late)
    BY <1>7, RenameFacts
  <2>3. \A c \in Writers : ~Writing(c)'
    BY <2>1, <2>2 DEF Writing
  <2>4. \A c \in Writers : cmd'[c].pc \in {"create", "fill", "rename"} => cmd'[c].late
    BY <2>2
  <2>. QED  BY <2>1, <2>3, <2>4 DEF FileInv, Writing
<1>11. CASE MarkCrash
  <2>1. ASSUME NEW a \in Writers PROVE cmd'[a].pc \in {"none", "failed"}
    <3>1. PICK pc, r : pc \in {"none", "failed"} /\ r = [Resting EXCEPT !.pc = pc] /\ cmd'[a] = r
      BY <1>11 DEF MarkCrash
    <3>2. r.pc = pc
      BY <3>1, Ended
    <3>. QED  BY <3>1, <3>2
  <2>2. UNCHANGED <<file, torn>>
    BY <1>11 DEF MarkCrash
  <2>. QED  BY <2>1, <2>2 DEF FileInv, Writing
<1>. QED
  BY <1>1, <1>2, <1>3, <1>4, <1>5, <1>6, <1>7, <1>8, <1>9, <1>11 DEF MarkNext, MarkStep

\* A rename by a command whose list is not late changes its own bookmark only.
LEMMA RenameSpares ==
  ASSUME FileInv, NEW a \in Writers, Rename(a), ~cmd[a].late, ~torn',
         NEW b \in Marks \ {MarkOf(a)}
  PROVE  file'.list[b] = file.list[b]
<1>1. ~torn /\ file'.list = temp.list /\ cmd[a].pc = "rename"
  BY DEF Rename
<1>2. temp.list = cmd[a].list /\ cmd[a].list[b] = file.list[b]
  BY <1>1 DEF FileInv
<1>. QED  BY <1>1, <1>2
----------------------------------------------------------------------------
(* The secrets. *)

Active(a, b) == MarkOf(a) = b /\ ~Finished(a)
Fits(b) == key[b] \in {"none", file.list[b]}

\* A bookmark that is not marred has one command at most. Until that has been to
\* the keychain the secret fits what the file says, and then what the command asks
\* for; with no secret typed, both.
SecretOK(b) ==
  /\ \A a, c \in Writers : Active(a, b) /\ Active(c, b) => a = c
  /\ (\A a \in Writers : ~Active(a, b)) => Fits(b)
  /\ \A a \in Writers : Active(a, b) =>
       /\ cmd[a].pc \in {"existing", "set", "drop"} => Fits(b)
       /\ cmd[a].pc \in {"list", "create", "fill", "rename"} =>
            key[b] \in {"none", cmd[a].method} /\ (cmd[a].secret \/ Fits(b))

SecretInv == \A b \in Marks \ marred : SecretOK(b)

LEMMA SecretInit == MarkInit => SecretInv
<1> SUFFICES ASSUME MarkInit, NEW b \in Marks PROVE SecretOK(b)
  BY DEF SecretInv
<1>1. \A a \in Writers : ~Active(a, b)
  BY DEF MarkInit, Active, Finished, Resting
<1>2. Fits(b)
  BY DEF MarkInit, Fits
<1>. QED  BY <1>1, <1>2 DEF SecretOK

LEMMA SecretInvImplies == SecretInv => SecretsFit
  BY DEF SecretInv, SecretsFit, SecretOK, Active, Fits

\* What a step of another bookmark's command leaves.
LEMMA OtherMark ==
  ASSUME NEW b \in Marks, SecretOK(b), NEW a \in Writers, NEW r, Becomes(a, r),
         ~Active(a, b), r.mark # b \/ r.pc \in {"none", "ok", "failed"},
         key'[b] = key[b], file'.list[b] = file.list[b]
  PROVE  SecretOK(b)'
<1>1. /\ cmd'[a].mark # b \/ cmd'[a].pc \in {"none", "ok", "failed"}
      /\ \A c \in Writers \ {a} : cmd'[c] = cmd[c]
  BY DEF Becomes
<1>2. \A c \in Writers : Active(c, b)' <=> Active(c, b)
  BY <1>1 DEF Active, MarkOf, Finished
<1>3. \A c \in Writers : Active(c, b) => cmd'[c] = cmd[c]
  BY <1>1
<1>4. Fits(b)' <=> Fits(b)
  BY DEF Fits
<1>5. \A c, d \in Writers : Active(c, b)' /\ Active(d, b)' => c = d
  BY <1>2 DEF SecretOK
<1>6. (\A c \in Writers : ~Active(c, b)') => Fits(b)'
  BY <1>2, <1>4 DEF SecretOK
<1>7. ASSUME NEW c \in Writers, Active(c, b)'
      PROVE  /\ cmd'[c].pc \in {"existing", "set", "drop"} => Fits(b)'
             /\ cmd'[c].pc \in {"list", "create", "fill", "rename"} =>
                  key'[b] \in {"none", cmd'[c].method} /\ (cmd'[c].secret \/ Fits(b)')
  <2>1. Active(c, b) /\ cmd'[c] = cmd[c]
    BY <1>2, <1>3, <1>7
  <2>. QED  BY <1>4, <2>1 DEF SecretOK
<1>. QED  BY <1>5, <1>6, <1>7 DEF SecretOK

\* What a step of its own command has to leave.
LEMMA OwnMark ==
  ASSUME NEW b \in Marks, SecretOK(b), NEW a \in Writers, NEW r, Becomes(a, r),
         Active(a, b), r.mark = b \/ r.pc \in {"none", "ok", "failed"},
         r.pc \in {"none", "existing", "set", "drop", "ok", "failed"} => Fits(b)',
         r.pc \in {"list", "create", "fill", "rename"} =>
           key'[b] \in {"none", r.method} /\ (r.secret \/ Fits(b)')
  PROVE  SecretOK(b)'
<1>1. cmd'[a] = r /\ \A c \in Writers \ {a} : cmd'[c] = cmd[c]
  BY DEF Becomes
<1>2. \A c \in Writers \ {a} : ~Active(c, b)'
  BY <1>1 DEF Active, MarkOf, Finished, SecretOK
<1>3. \A c, d \in Writers : Active(c, b)' /\ Active(d, b)' => c = d
  BY <1>2
<1>4. ASSUME ~Active(a, b)' PROVE Fits(b)'
  BY <1>1, <1>4 DEF Active, MarkOf, Finished
<1>5. ASSUME Active(a, b)'
      PROVE  /\ cmd'[a].pc \in {"existing", "set", "drop"} => Fits(b)'
             /\ cmd'[a].pc \in {"list", "create", "fill", "rename"} =>
                  key'[b] \in {"none", cmd'[a].method} /\ (cmd'[a].secret \/ Fits(b)')
  BY <1>1
<1>. QED  BY <1>2, <1>3, <1>4, <1>5 DEF SecretOK

\* A write of a whole list leaves a bookmark as it was, or as its own command
\* wants it, or marred.
LEMMA DoneWell ==
  ASSUME NEW a \in Writers, NEW list, NEW b \in Marks, b \notin Undone(a, list)
  PROVE  list[b] = IF b = MarkOf(a) THEN cmd[a].method ELSE file.list[b]
  BY DEF Undone

LEMMA SecretExisting ==
  ASSUME MarkTyped, NEW a \in Writers, Existing(a), NEW b \in Marks \ marred', SecretOK(b)
  PROVE  SecretOK(b)'
<1>. DEFINE was == file.list[MarkOf(a)]
            m == cmd[a].method
<1>1. PICK r :
        /\ Becomes(a, r) /\ r.mark = cmd[a].mark /\ r.method = m /\ r.secret = cmd[a].secret
        /\ r.pc \in {"set", "drop", "list"}
        /\ r.pc = "list" => ~cmd[a].secret /\ (was = "none" \/ AuthMethod(was) = AuthMethod(m))
        /\ marred' = IF was \in Cloud /\ m \in Cloud \ {was} /\ ~cmd[a].secret
                     THEN marred \cup {MarkOf(a)} ELSE marred
  BY ExistingFacts
<1>2. cmd[a].pc = "existing" /\ UNCHANGED <<file, key>>
  BY DEF Existing
<1>3. CASE MarkOf(a) = b
  <2>1. Active(a, b)
    BY <1>2, <1>3 DEF Active, Finished
  <2>2. Fits(b) /\ Fits(b)'
    BY <1>2, <2>1 DEF SecretOK, Fits
  <2>3. was \in Methods \cup {"none"} /\ m \in Methods \cup {"none"}
    BY <1>3 DEF MarkTyped, Lists, CmdType
  <2>4. ASSUME r.pc = "list" PROVE key'[b] \in {"none", r.method}
    <3>1. CASE was = "none"
      BY <1>2, <1>3, <2>2, <3>1 DEF Fits
    <3>2. CASE was # "none"
      <4>1. AuthMethod(was) = AuthMethod(m) /\ ~(was \in Cloud /\ m \in Cloud \ {was})
        BY <1>1, <1>3, <2>4, <3>2
      <4>2. was = m
        BY <2>3, <3>2, <4>1 DEF AuthMethod, Cloud, Methods, Sftp
      <4>. QED  BY <1>1, <1>2, <1>3, <2>2, <4>2 DEF Fits
    <3>. QED  BY <3>1, <3>2
  <2>. QED  BY <1>1, <1>3, <2>1, <2>2, <2>4, OwnMark DEF MarkOf
<1>4. CASE MarkOf(a) # b
  <2>1. r.mark # b /\ ~Active(a, b)
    BY <1>1, <1>4 DEF MarkOf, Active
  <2>. QED  BY <1>1, <1>2, <2>1, OtherMark
<1>. QED  BY <1>3, <1>4

LEMMA SecretKey ==
  ASSUME MarkTyped, NEW a \in Writers, SetSecret(a) \/ DropSecret(a),
         NEW b \in Marks \ marred', SecretOK(b)
  PROVE  SecretOK(b)'
<1>1. PICK r : Becomes(a, r) /\ r.pc = "list" /\ AsBefore(a, r)
  BY GoesFacts DEF SetSecret, DropSecret, CmdPC
<1>2. cmd[a].pc \in {"set", "drop"} /\ UNCHANGED file
  BY DEF SetSecret, DropSecret
<1>k. key \in Lists
  BY DEF MarkTyped
<1>3. CASE MarkOf(a) = b
  <2>1. Active(a, b)
    BY <1>2, <1>3 DEF Active, Finished
  <2>2. CASE SetSecret(a)
    <3>1. key'[b] = cmd[a].method /\ cmd[a].secret
      BY <1>3, <1>k, <2>2 DEF SetSecret, Lists, MarkTyped, CmdOK
    <3>. QED  BY <1>1, <1>3, <2>1, <3>1, OwnMark DEF MarkOf, AsBefore
  <2>3. CASE DropSecret(a)
    <3>1. key'[b] = "none"
      BY <1>3, <1>k, <2>3 DEF DropSecret, Lists
    <3>2. Fits(b)'
      BY <3>1 DEF Fits
    <3>. QED  BY <1>1, <1>3, <2>1, <3>1, <3>2, OwnMark DEF MarkOf, AsBefore
  <2>. QED  BY <2>2, <2>3
<1>4. CASE MarkOf(a) # b
  <2>1. r.mark # b /\ ~Active(a, b)
    BY <1>1, <1>4 DEF MarkOf, Active, AsBefore
  <2>2. key'[b] = key[b]
    BY <1>4, <1>k DEF SetSecret, DropSecret, Lists
  <2>. QED  BY <1>1, <1>2, <2>1, <2>2, OtherMark
<1>. QED  BY <1>3, <1>4

LEMMA SecretList ==
  ASSUME MarkTyped, NEW a \in Writers, ReadList(a) \/ Create(a),
         NEW b \in Marks \ marred', SecretOK(b)
  PROVE  SecretOK(b)'
<1>1. PICK r : /\ Becomes(a, r) /\ r.pc \in {"create", "fill"}
               /\ r.mark = cmd[a].mark /\ r.method = cmd[a].method /\ r.secret = cmd[a].secret
  BY ReadListFacts, CreateFacts
<1>2. cmd[a].pc \in {"list", "create"} /\ UNCHANGED <<file, key>>
  BY DEF ReadList, Create
<1>3. CASE MarkOf(a) = b
  <2>1. Active(a, b)
    BY <1>2, <1>3 DEF Active, Finished
  <2>2. key'[b] \in {"none", cmd[a].method} /\ (cmd[a].secret \/ Fits(b)')
    BY <1>2, <2>1 DEF SecretOK, Fits
  <2>. QED  BY <1>1, <1>3, <2>1, <2>2, OwnMark DEF MarkOf
<1>4. CASE MarkOf(a) # b
  <2>1. r.mark # b /\ ~Active(a, b)
    BY <1>1, <1>4 DEF MarkOf, Active
  <2>. QED  BY <1>1, <1>2, <2>1, OtherMark
<1>. QED  BY <1>3, <1>4

LEMMA SecretFill ==
  ASSUME MarkTyped, NEW a \in Writers, Fill(a), NEW b \in Marks \ marred', SecretOK(b)
  PROVE  SecretOK(b)'
<1>1. PICK r : Becomes(a, r) /\ r.pc = "rename" /\ AsBefore(a, r)
  BY FillFacts
<1>2. cmd[a].pc = "fill" /\ UNCHANGED key
  BY DEF Fill
<1>3. \/ UNCHANGED file
      \/ /\ file'.list = cmd[a].list
         /\ marred' = marred \cup Undone(a, cmd[a].list)
  BY FillFacts
<1>4. file'.list[b] \in {file.list[b], IF b = MarkOf(a) THEN cmd[a].method ELSE file.list[b]}
  <2>1. CASE UNCHANGED file
    BY <2>1
  <2>2. CASE ~UNCHANGED file
    <3>1. b \notin Undone(a, cmd[a].list) /\ file'.list = cmd[a].list
      BY <1>3, <2>2
    <3>2. cmd[a].list[b] = IF b = MarkOf(a) THEN cmd[a].method ELSE file.list[b]
      BY <3>1, DoneWell
    <3>. QED  BY <3>1, <3>2
  <2>. QED  BY <2>1, <2>2
<1>5. CASE MarkOf(a) = b
  <2>1. Active(a, b)
    BY <1>2, <1>5 DEF Active, Finished
  <2>2. key'[b] \in {"none", cmd[a].method} /\ (cmd[a].secret \/ Fits(b)')
    BY <1>2, <1>4, <2>1 DEF SecretOK, Fits
  <2>. QED  BY <1>1, <1>5, <2>1, <2>2, OwnMark DEF MarkOf, AsBefore
<1>6. CASE MarkOf(a) # b
  <2>1. r.mark # b /\ ~Active(a, b) /\ file'.list[b] = file.list[b]
    BY <1>1, <1>4, <1>6 DEF MarkOf, Active, AsBefore
  <2>. QED  BY <1>1, <1>2, <2>1, OtherMark
<1>. QED  BY <1>5, <1>6

LEMMA SecretRename ==
  ASSUME MarkTyped, NEW a \in Writers, Rename(a), NEW b \in Marks \ marred', SecretOK(b)
  PROVE  SecretOK(b)'
<1>1. /\ cmd[a].pc = "rename" /\ UNCHANGED key
      /\ file'.list = temp.list /\ marred' = marred \cup Undone(a, temp.list)
  BY DEF Rename
<1>2. file'.list[b] = IF b = MarkOf(a) THEN cmd[a].method ELSE file.list[b]
  BY <1>1, DoneWell
<1>3. /\ cmd'[a].pc = "ok"
      /\ \A c \in Writers \ {a} :
           /\ cmd'[c].pc = cmd[c].pc /\ cmd'[c].mark = cmd[c].mark
           /\ cmd'[c].method = cmd[c].method /\ cmd'[c].secret = cmd[c].secret
  BY RenameFacts
<1>4. ~Active(a, b)' /\ \A c \in Writers \ {a} : Active(c, b)' <=> Active(c, b)
  BY <1>3 DEF Active, MarkOf, Finished
<1>5. CASE MarkOf(a) = b
  <2>1. Active(a, b)
    BY <1>1, <1>5 DEF Active, Finished
  <2>2. \A c \in Writers : ~Active(c, b)'
    BY <1>4, <2>1 DEF SecretOK
  <2>3. Fits(b)'
    BY <1>1, <1>2, <1>5, <2>1 DEF SecretOK, Fits
  <2>. QED  BY <2>2, <2>3 DEF SecretOK
<1>6. CASE MarkOf(a) # b
  <2>1. \A c \in Writers : Active(c, b)' <=> Active(c, b)
    BY <1>4, <1>6 DEF Active
  <2>2. Fits(b)' <=> Fits(b)
    BY <1>1, <1>2, <1>6 DEF Fits
  <2>3. \A c, d \in Writers : Active(c, b)' /\ Active(d, b)' => c = d
    BY <2>1 DEF SecretOK
  <2>4. (\A c \in Writers : ~Active(c, b)') => Fits(b)'
    BY <2>1, <2>2 DEF SecretOK
  <2>5. ASSUME NEW c \in Writers, Active(c, b)'
        PROVE  /\ cmd'[c].pc \in {"existing", "set", "drop"} => Fits(b)'
               /\ cmd'[c].pc \in {"list", "create", "fill", "rename"} =>
                    key'[b] \in {"none", cmd'[c].method} /\ (cmd'[c].secret \/ Fits(b)')
    <3>1. /\ Active(c, b) /\ c # a
          /\ cmd'[c].pc = cmd[c].pc /\ cmd'[c].method = cmd[c].method
          /\ cmd'[c].secret = cmd[c].secret
      BY <1>3, <1>4, <2>1, <2>5
    <3>. QED  BY <1>1, <2>2, <3>1 DEF SecretOK
  <2>. QED  BY <2>3, <2>4, <2>5 DEF SecretOK
<1>. QED  BY <1>5, <1>6

LEMMA SecretRefused ==
  ASSUME MarkTyped, NEW a \in Writers, Refused(a), NEW b \in Marks \ marred', SecretOK(b)
  PROVE  SecretOK(b)'
<1>. DEFINE created == cmd[a].secret /\ cmd[a].pc # "existing"
<1>1. PICK r :
        /\ Becomes(a, r)
        /\ \/ created /\ r.pc = "cleanup" /\ AsBefore(a, r) /\ UNCHANGED marred
           \/ created /\ r.pc = "failed" /\ marred' = marred \cup {MarkOf(a)}
           \/ ~created /\ r.pc = "failed" /\ UNCHANGED marred
  BY RefusedFacts
<1>2. cmd[a].pc \in {"existing", "list", "create", "fill", "rename"} /\ UNCHANGED <<file, key>>
  BY DEF Refused
<1>3. Fits(b)' <=> Fits(b)
  BY <1>2 DEF Fits
<1>4. CASE MarkOf(a) = b
  <2>1. Active(a, b)
    BY <1>2, <1>4 DEF Active, Finished
  <2>2. r.pc = "failed" => Fits(b)'
    BY <1>1, <1>2, <1>3, <1>4, <2>1 DEF SecretOK
  <2>3. r.pc \in {"cleanup", "failed"} /\ (r.mark = b \/ r.pc = "failed")
    BY <1>1, <1>4 DEF MarkOf, AsBefore
  <2>. QED  BY <1>1, <2>1, <2>2, <2>3, OwnMark
<1>5. CASE MarkOf(a) # b
  <2>1. r.mark # b \/ r.pc = "failed"
    BY <1>1, <1>5 DEF MarkOf, AsBefore
  <2>2. ~Active(a, b)
    BY <1>5 DEF Active
  <2>. QED  BY <1>1, <1>2, <2>1, <2>2, OtherMark
<1>. QED  BY <1>4, <1>5

LEMMA SecretEnds ==
  ASSUME MarkTyped, NEW a \in Writers, Cleanup(a) \/ Locked(a),
         NEW b \in Marks \ marred', SecretOK(b)
  PROVE  SecretOK(b)'
<1>1. PICK r : Becomes(a, r) /\ r.pc = "failed"
  BY EndsFacts DEF Cleanup, Locked
<1>2. cmd[a].pc \in {"cleanup", "set", "drop"} /\ UNCHANGED file
  BY DEF Cleanup, Locked
<1>k. key \in Lists
  BY DEF MarkTyped
<1>3. CASE MarkOf(a) = b
  <2>1. Active(a, b)
    BY <1>2, <1>3 DEF Active, Finished
  <2>2. CASE Cleanup(a)
    <3>1. key'[b] = "none"
      BY <1>3, <1>k, <2>2 DEF Cleanup, Lists
    <3>2. Fits(b)'
      BY <3>1 DEF Fits
    <3>. QED  BY <1>1, <2>1, <3>2, OwnMark
  <2>3. CASE Locked(a)
    <3>1. Fits(b)'
      BY <2>1, <2>3 DEF Locked, SecretOK, Fits
    <3>. QED  BY <1>1, <2>1, <3>1, OwnMark
  <2>. QED  BY <2>2, <2>3
<1>4. CASE MarkOf(a) # b
  <2>1. key'[b] = key[b] /\ ~Active(a, b)
    BY <1>4, <1>k DEF Cleanup, Locked, Lists, Active
  <2>. QED  BY <1>1, <1>2, <2>1, OtherMark
<1>. QED  BY <1>3, <1>4

LEMMA SecretBegins ==
  ASSUME MarkTyped, NEW a \in Writers, Begins(a), NEW b \in Marks \ marred', SecretOK(b)
  PROVE  SecretOK(b)'
<1>1. PICK m, r :
        /\ m \in Marks
        /\ Becomes(a, r) /\ r.mark = m /\ r.pc \in {"existing", "drop"}
        /\ marred' = IF Contested(a, m) THEN marred \cup {m} ELSE marred
        /\ UNCHANGED <<file, key>>
  BY BeginFacts DEF Begins
<1>2. ~Active(a, b)
  BY DEF Active, Begins
<1>3. CASE m = b
  <2>1. \A c \in Writers : ~Active(c, b)
    BY <1>1, <1>2, <1>3 DEF Contested, Active
  <2>2. Fits(b)'
    BY <1>1, <2>1 DEF SecretOK, Fits
  <2>3. cmd'[a] = r /\ \A c \in Writers \ {a} : cmd'[c] = cmd[c]
    BY <1>1 DEF Becomes
  <2>4. \A c \in Writers \ {a} : ~Active(c, b)'
    BY <2>1, <2>3 DEF Active, MarkOf, Finished
  <2>. QED  BY <1>1, <2>2, <2>3, <2>4 DEF SecretOK
<1>4. CASE m # b
  BY <1>1, <1>2, <1>4, OtherMark
<1>. QED  BY <1>3, <1>4

LEMMA SecretCrash ==
  ASSUME MarkTyped, MarkCrash, NEW b \in Marks \ marred', SecretOK(b)
  PROVE  SecretOK(b)'
<1>1. ASSUME NEW a \in Writers PROVE ~Active(a, b)'
  <2>1. PICK pc, r : pc \in {"none", "failed"} /\ r = [Resting EXCEPT !.pc = pc] /\ cmd'[a] = r
    BY DEF MarkCrash
  <2>2. r.pc = pc
    BY <2>1, Ended
  <2>. QED  BY <2>1, <2>2 DEF Active, Finished
<1>2. UNCHANGED <<file, key>>
      /\ \A a \in Writers : ~Finished(a) /\ cmd[a].pc # "existing" => MarkOf(a) \in marred'
  BY DEF MarkCrash
<1>3. Fits(b)
  BY <1>2 DEF SecretOK, Active
<1>4. Fits(b)'
  BY <1>2, <1>3 DEF Fits
<1>. QED  BY <1>1, <1>4 DEF SecretOK

LEMMA MarredGrows == MarkTyped /\ MarkNext => marred \subseteq marred'
  BY DEF MarkNext, Begins, BeginSave, BeginDelete, MarkStep, Existing, SetSecret, DropSecret,
     ReadList, Create, Fill, Rename, Refused, Cleanup, Locked, MarkCrash

LEMMA SecretStep == MarkTyped /\ SecretInv /\ MarkNext => SecretInv'
<1> SUFFICES ASSUME MarkTyped, SecretInv, MarkNext, NEW b \in Marks \ marred'
             PROVE  SecretOK(b)'
  BY DEF SecretInv
<1>1. SecretOK(b)
  BY MarredGrows DEF SecretInv
<1>. QED
  BY <1>1, SecretExisting, SecretKey, SecretList, SecretFill, SecretRename, SecretRefused,
     SecretEnds, SecretBegins, SecretCrash DEF MarkNext, MarkStep

LEMMA MarkSame == MarkTyped /\ FileInv /\ SecretInv /\ UNCHANGED markVars
                    => MarkTyped' /\ FileInv' /\ SecretInv'
  BY DEF markVars, MarkTyped, FileInv, SecretInv, SecretOK, Writing, Active, MarkOf, Finished, Fits
\* A command takes up a bookmark only when it begins.
LEMMA ActiveStays ==
  ASSUME MarkTyped, NEW a \in Writers, MarkStep(a)
  PROVE  \A c \in Writers, b \in Marks : Active(c, b)' => Active(c, b)
<1>1. ASSUME NEW r, Becomes(a, r), ~Finished(a),
             r.mark = cmd[a].mark \/ r.pc \in {"none", "ok", "failed"}
      PROVE  \A c \in Writers, b \in Marks : Active(c, b)' => Active(c, b)
  BY <1>1 DEF Becomes, Active, MarkOf, Finished
<1>2. CASE Existing(a)
  BY <1>1, <1>2, ExistingFacts DEF Existing, Finished
<1>3. CASE SetSecret(a) \/ DropSecret(a)
  <2>1. \E r : Becomes(a, r) /\ AsBefore(a, r)
    BY <1>3, GoesFacts DEF SetSecret, DropSecret, CmdPC
  <2>. QED  BY <1>1, <1>3, <2>1 DEF SetSecret, DropSecret, Finished, AsBefore
<1>4. CASE ReadList(a)
  BY <1>1, <1>4, ReadListFacts DEF ReadList, Finished
<1>5. CASE Create(a)
  BY <1>1, <1>5, CreateFacts DEF Create, Finished
<1>6. CASE Fill(a)
  BY <1>1, <1>6, FillFacts DEF Fill, Finished, AsBefore
<1>7. CASE Rename(a)
  BY <1>7, RenameFacts DEF Active, MarkOf, Finished
<1>8. CASE Refused(a)
  BY <1>1, <1>8, RefusedFacts DEF Refused, Finished, AsBefore
<1>9. CASE Cleanup(a) \/ Locked(a)
  <2>1. \E r : Becomes(a, r) /\ r.pc = "failed"
    BY <1>9, EndsFacts DEF Cleanup, Locked
  <2>. QED  BY <1>1, <1>9, <2>1 DEF Cleanup, Locked, Finished
<1>. QED
  BY <1>2, <1>3, <1>4, <1>5, <1>6, <1>7, <1>8, <1>9 DEF MarkStep

\* Who changes what the file says of a bookmark is its own command, or mars it.
LEMMA ListStays ==
  ASSUME MarkTyped, NEW a \in Writers, MarkStep(a), NEW b \in Marks \ marred', ~Active(a, b)
  PROVE  file'.list[b] = file.list[b]
<1>1. CASE Fill(a)
  <2>1. CASE UNCHANGED file
    BY <2>1
  <2>2. CASE ~UNCHANGED file
    <3>1. b \notin Undone(a, cmd[a].list) /\ file'.list = cmd[a].list
      BY <1>1, <2>2, FillFacts
    <3>2. MarkOf(a) # b
      BY <1>1 DEF Fill, Active, Finished
    <3>. QED  BY <3>1, <3>2, DoneWell
  <2>. QED  BY <2>1, <2>2
<1>2. CASE Rename(a)
  <2>1. b \notin Undone(a, temp.list) /\ file'.list = temp.list /\ MarkOf(a) # b
    BY <1>2 DEF Rename, Active, Finished
  <2>. QED  BY <2>1, DoneWell
<1>3. CASE ~Fill(a) /\ ~Rename(a)
  BY <1>3 DEF MarkStep, Existing, SetSecret, DropSecret, ReadList, Create, Refused, Cleanup, Locked
<1>. QED  BY <1>1, <1>2, <1>3
=============================================================================
