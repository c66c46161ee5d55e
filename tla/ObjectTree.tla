----------------------------- MODULE ObjectTree -----------------------------
(***************************************************************************)
(* Files and directories as the backends show them, and the commands of the *)
(* file list: delete, rename and make a directory. S3 and Azure Blob have a *)
(* flat space of keys: a directory is an empty marker key "p/", or is just  *)
(* implied by the keys below it, and a rename is a copy and a delete. SFTP  *)
(* and OneDrive have folders, and rename in one call. Each request is one   *)
(* step; commands run side by side with one another and with uploads.       *)
(*                                                                          *)
(* A file's contents and a directory are represented by the number they     *)
(* were born with; 0 is none. A copy has the number of its original.        *)
(***************************************************************************)
EXTENDS Naturals, Sequences, FiniteSets

CONSTANTS
  Services,   \* the backends to consider, of "s3", "azure", "sftp" and "onedrive"
  Tops,       \* names at the top level
  Leaves,     \* names one level down: the depth of the tree is bounded by two
  Ops,        \* commands that can be under way together; each is given once
  MaxFirst,   \* bound on the entries there are at first
  MaxBorn     \* bound on the contents and directories there can ever be

Paths == {<<t>> : t \in Tops} \cup {<<t, l>> : t \in Tops, l \in Leaves}

ASSUME TreeAssumption ==
  /\ Services \subseteq {"s3", "azure", "sftp", "onedrive"}
  /\ IsFiniteSet(Tops) /\ IsFiniteSet(Leaves)
  /\ MaxFirst \in Nat
  /\ MaxBorn \in Nat
  /\ Cardinality(Paths) <= MaxBorn

VARIABLES
  service,    \* the backend, one for each behaviour
  store,      \* what is at each path: a file, a marker or folder, or both
  op,         \* the commands
  born,       \* the last number given
  folders,    \* the numbers that are directories
  asked,      \* contents someone asked to delete or replace (history)
  raced       \* contents that came to the source of a rename already copied (history)

vars == <<service, store, op, born, folders, asked, raced>>

----------------------------------------------------------------------------
Last(p) == p[Len(p)]
Parent(p) == SubSeq(p, 1, Len(p) - 1)
Below(p) == {q \in Paths : Len(q) > Len(p) /\ SubSeq(q, 1, Len(p)) = p}
Children(p) == {q \in Paths : Parent(q) = p}

Flat == service \in {"s3", "azure"}
Nothing == [file |-> 0, dir |-> 0]
Taken(p) == store[p] # Nothing

\* The root and, on a server with folders, every folder can hold an entry.
Holds(p) == p = <<>> \/ (p \in Paths /\ store[p].dir # 0)

\* Mutant: one key is asked for, and where there is a marker it is the first.
S3FoundFirst(p) ==
  [marker |-> store[p].dir # 0, children |-> store[p].dir = 0 /\ \E q \in Below(p) : Taken(q)]

\* What a flat store finds under "p/": the marker itself, and anything else.
\* S3 asks for two keys only: "p/" sorts before what is below it.
S3Found(p) == [marker |-> store[p].dir # 0, children |-> \E q \in Below(p) : Taken(q)]

\* dir_children: every page until both are found.
AzFound(p) == [marker |-> store[p].dir # 0, children |-> \E q \in Below(p) : Taken(q)]

\* stat(): the key itself, else any key that begins with "p/".
S3Stat(p) ==
  IF store[p].file # 0 THEN "file"
  ELSE IF \E q \in {p} \cup Below(p) : Taken(q) THEN "dir" ELSE "none"
AzStat(p) ==
  IF store[p].file # 0 THEN "file"
  ELSE IF AzFound(p).marker \/ AzFound(p).children THEN "dir" ELSE "none"

\* stat() on a server with folders answers with the entry.
SftpStat(p) == IF store[p].dir # 0 THEN "dir" ELSE IF Taken(p) THEN "file" ELSE "none"
GraphStat(p) == IF store[p].dir # 0 THEN "dir" ELSE IF Taken(p) THEN "file" ELSE "none"

Stat(p) ==
  CASE service = "s3" -> S3Stat(p)
    [] service = "azure" -> AzStat(p)
    [] service = "sftp" -> SftpStat(p)
    [] service = "onedrive" -> GraphStat(p)

File(p) == [path |-> p, kind |-> "file"]
Dir(p) == [path |-> p, kind |-> "dir"]

\* Mutant: only a marker makes a directory.
S3ListMarkers(p) ==
  {File(q) : q \in {c \in Children(p) : store[c].file # 0}}
    \cup {Dir(c) : c \in {d \in Children(p) : store[d].dir # 0}}

\* list() on S3: keys up to the next "/", and the common prefixes.
S3List(p) ==
  LET keys == {q \in Below(p) : store[q].file # 0}
      prefixes == {c \in Children(p) : store[c].dir # 0 \/ \E q \in Below(c) : Taken(q)}
  IN {File(q) : q \in keys \cap Children(p)} \cup {Dir(c) : c \in prefixes}

\* list() on Azure has every blob below p and cuts the names itself.
AzList(p) ==
  {File(q) : q \in {c \in Children(p) : store[c].file # 0}}
    \cup {Dir(SubSeq(q, 1, Len(p) + 1)) :
            q \in {b \in Below(p) : store[b].dir # 0 \/ (store[b].file # 0 /\ Len(b) > Len(p) + 1)}}

SftpList(p) ==
  IF ~Holds(p) THEN {}
  ELSE {IF store[c].dir # 0 THEN Dir(c) ELSE File(c) : c \in {d \in Children(p) : Taken(d)}}

\* A page of children at a time, until there is no next page.
GraphList(p) ==
  IF ~Holds(p) THEN {}
  ELSE {IF store[c].dir # 0 THEN Dir(c) ELSE File(c) : c \in {d \in Children(p) : Taken(d)}}

Listing(p) ==
  CASE service = "s3" -> S3List(p)
    [] service = "azure" -> AzList(p)
    [] service = "sftp" -> SftpList(p)
    [] service = "onedrive" -> GraphList(p)

----------------------------------------------------------------------------
\* A command and how far it is. What it saw at from (was, saw, in the folder home)
\* and the folder it moves to; has anybody changed anything since it began (alone).
Unused == [kind |-> "none", from |-> <<>>, to |-> <<>>, pc |-> "none", was |-> "none",
           saw |-> 0, home |-> 0, into |-> 0, alone |-> TRUE]

Over(o) == op[o].pc \in {"none", "ok", "failed"}
At(o, pc) == op[o].pc = pc

Number == CHOOSE f \in [Paths -> 1 .. Cardinality(Paths)] :
            \A p, q \in Paths : p # q => f[p] # f[q]

Init ==
  /\ service \in Services
  /\ \E shape \in [Paths -> {"none", "file", "dir"}] :
       /\ \A p \in Paths : shape[p] # "none" /\ Len(p) = 2 /\ ~Flat => shape[Parent(p)] = "dir"
       /\ Cardinality({p \in Paths : shape[p] # "none"}) <= MaxFirst
       /\ store = [p \in Paths |-> [file |-> IF shape[p] = "file" THEN Number[p] ELSE 0,
                                    dir |-> IF shape[p] = "dir" THEN Number[p] ELSE 0]]
       /\ folders = {Number[p] : p \in {q \in Paths : shape[q] # "file"}}
  /\ op = [o \in Ops |-> Unused]
  /\ born = Cardinality(Paths)
  /\ asked = {}
  /\ raced = {}

To(o, pc) == [op[o] EXCEPT !.pc = pc]
Failed == [Unused EXCEPT !.pc = "failed"]   \* what it was about does not matter

\* A command goes on, the store being as it was.
Goes(o, pc) ==
  /\ op' = [op EXCEPT ![o] = IF pc = "failed" THEN Failed ELSE To(o, pc)]
  /\ UNCHANGED <<service, store, born, folders, asked, raced>>

\* The store changes under a command: it is no longer alone, and if it is over
\* its result says nothing any more.
Disturbed(c) ==
  IF c.pc = "none" THEN c
  ELSE IF c.pc \in {"ok", "failed"} THEN [Failed EXCEPT !.pc = c.pc, !.alone = FALSE]
  ELSE [c EXCEPT !.alone = FALSE]

\* A request changes the store; the answer may be lost, and the command fail.
Changes(o, new, then) ==
  /\ store' = new
  /\ \E end \in {then, Failed} :
       op' = [c \in Ops |-> IF c = o THEN end
                            ELSE IF new = store THEN op[c] ELSE Disturbed(op[c])]
  /\ UNCHANGED service

\* The contents v come to p, whose own are replaced. A rename that has read p's
\* contents and not yet deleted them will delete v instead.
Arrives(v, p) ==
  /\ asked' = asked \cup ({store[p].file} \ {0, v})
  /\ raced' = IF \E o \in Ops : op[o].kind = "rename" /\ ~Over(o)
                                /\ op[o].from = p /\ op[o].pc \in {"upload", "drop"}
              THEN raced \cup {v} ELSE raced

Gone(p, field) == [store EXCEPT ![p][field] = 0]

----------------------------------------------------------------------------
(* The steps S3 and Azure have in common *)

\* HEAD, get_properties: is there a file of that name?
AskKind(o, next) ==
  /\ At(o, "head")
  /\ LET v == store[op[o].from].file
     IN op' = [op EXCEPT ![o].pc = IF v # 0 THEN next ELSE "look",
                         ![o].was = IF v # 0 THEN "file" ELSE "dir", ![o].saw = v]
  /\ UNCHANGED <<service, store, born, folders, asked, raced>>

\* A directory is deleted or renamed only if its marker is all there is of it.
Look(o, found, next) ==
  /\ At(o, "look")
  /\ Goes(o, IF found.marker /\ ~found.children THEN next ELSE "failed")

\* Delete the key itself, or its marker. S3 answers Ok when there is none.
DropFile(o) ==
  /\ At(o, "drop")
  /\ service = "azure" => store[op[o].from].file # 0
  /\ Changes(o, Gone(op[o].from, "file"), To(o, "ok"))
  /\ asked' = IF op[o].kind = "delete" THEN asked \cup ({store[op[o].from].file} \ {0}) ELSE asked
  /\ UNCHANGED <<born, folders, raced>>

DropMarker(o) ==
  /\ At(o, "unmark")
  /\ service = "azure" => store[op[o].from].dir # 0
  /\ Changes(o, Gone(op[o].from, "dir"), To(o, "ok"))
  /\ UNCHANGED <<born, folders, asked, raced>>

----------------------------------------------------------------------------
(* S3 *)

\* Mutant: the delete does not wait for the copy to succeed.
S3CopyUnchecked(o) ==
  /\ At(o, "copy")
  /\ Goes(o, "drop")

\* CopyObject: from what is there now to the new key, whatever that holds.
S3Copy(o) ==
  /\ At(o, "copy")
  /\ store[op[o].from].file # 0
  /\ LET v == store[op[o].from].file
     IN /\ Changes(o, [store EXCEPT ![op[o].to].file = v], [To(o, "drop") EXCEPT !.saw = v])
        /\ Arrives(v, op[o].to)
  /\ UNCHANGED <<born, folders>>

S3CopyMarker(o) ==
  /\ At(o, "copymarker")
  /\ store[op[o].from].dir # 0
  /\ Changes(o, [store EXCEPT ![op[o].to].dir = store[op[o].from].dir], To(o, "unmark"))
  /\ UNCHANGED <<born, folders, asked, raced>>

S3Delete(o) ==
  /\ service = "s3" /\ op[o].kind = "delete"
  /\ AskKind(o, "drop") \/ DropFile(o) \/ Look(o, S3Found(op[o].from), "unmark") \/ DropMarker(o)

S3Rename(o) ==
  /\ service = "s3" /\ op[o].kind = "rename"
  /\ \/ AskKind(o, "copy") \/ S3Copy(o) \/ DropFile(o)
     \/ Look(o, S3Found(op[o].from), "copymarker") \/ S3CopyMarker(o) \/ DropMarker(o)

\* put_object of an empty marker, whatever is there already.
S3Mkdir(o) ==
  /\ service = "s3" /\ op[o].kind = "mkdir"
  /\ At(o, "head") /\ born < MaxBorn
  /\ Changes(o, [store EXCEPT ![op[o].from].dir = born + 1], To(o, "ok"))
  /\ born' = born + 1
  /\ folders' = folders \cup {born + 1}
  /\ UNCHANGED <<asked, raced>>

----------------------------------------------------------------------------
(* Azure Blob: no copy either, the contents go through the program *)

\* copy_blob: download, then upload over whatever the new name holds.
AzDownload(o) ==
  /\ At(o, "copy")
  /\ store[op[o].from].file # 0
  /\ op' = [op EXCEPT ![o].pc = "upload", ![o].saw = store[op[o].from].file]
  /\ UNCHANGED <<service, store, born, folders, asked, raced>>

AzUpload(o) ==
  /\ At(o, "upload")
  /\ Changes(o, [store EXCEPT ![op[o].to].file = op[o].saw], To(o, "drop"))
  /\ Arrives(op[o].saw, op[o].to)
  /\ UNCHANGED <<born, folders>>

AzDownloadMarker(o) ==
  /\ At(o, "copymarker")
  /\ store[op[o].from].dir # 0
  /\ op' = [op EXCEPT ![o].pc = "upmarker", ![o].saw = store[op[o].from].dir]
  /\ UNCHANGED <<service, store, born, folders, asked, raced>>

AzUploadMarker(o) ==
  /\ At(o, "upmarker")
  /\ Changes(o, [store EXCEPT ![op[o].to].dir = op[o].saw], To(o, "unmark"))
  /\ UNCHANGED <<born, folders, asked, raced>>

AzDelete(o) ==
  /\ service = "azure" /\ op[o].kind = "delete"
  /\ AskKind(o, "drop") \/ DropFile(o) \/ Look(o, AzFound(op[o].from), "unmark") \/ DropMarker(o)

AzRename(o) ==
  /\ service = "azure" /\ op[o].kind = "rename"
  /\ \/ AskKind(o, "copy") \/ AzDownload(o) \/ AzUpload(o) \/ DropFile(o)
     \/ Look(o, AzFound(op[o].from), "copymarker") \/ AzDownloadMarker(o) \/ AzUploadMarker(o) \/ DropMarker(o)

AzMkdir(o) ==
  /\ service = "azure" /\ op[o].kind = "mkdir"
  /\ At(o, "head") /\ born < MaxBorn
  /\ Changes(o, [store EXCEPT ![op[o].from].dir = born + 1], To(o, "ok"))
  /\ born' = born + 1
  /\ folders' = folders \cup {born + 1}
  /\ UNCHANGED <<asked, raced>>

----------------------------------------------------------------------------
(* Servers with folders. An entry that moves takes what is below it along. *)

Onto(q, r, p) == r \o SubSeq(p, Len(q) + 1, Len(p))
CanMove(q, r) ==
  /\ r \in Paths /\ ~Taken(r) /\ r # q /\ r \notin Below(q)
  /\ \A p \in Below(q) : Taken(p) => Onto(q, r, p) \in Paths
Moved(q, r) ==
  [p \in Paths |->
     IF p = q \/ p \in Below(q) THEN Nothing
     ELSE IF \E s \in {q} \cup Below(q) : Onto(q, r, s) = p
       THEN store[CHOOSE s \in {q} \cup Below(q) : Onto(q, r, s) = p]
     ELSE store[p]]

FolderId(p) == IF p = <<>> THEN 0 ELSE store[p].dir
Item(p) == store[p].file + store[p].dir   \* a folder or a file, never both

NewFolder(o) ==
  /\ At(o, "head") /\ born < MaxBorn
  /\ ~Taken(op[o].from) /\ Holds(Parent(op[o].from))
  /\ Changes(o, [store EXCEPT ![op[o].from].dir = born + 1], To(o, "ok"))
  /\ born' = born + 1
  /\ folders' = folders \cup {born + 1}
  /\ UNCHANGED <<asked, raced>>

\* SFTP: stat, then remove_dir or remove_file.
SftpAsk(o) ==
  /\ At(o, "head") /\ Taken(op[o].from)
  /\ op' = [op EXCEPT ![o].pc = IF Stat(op[o].from) = "dir" THEN "rmdir" ELSE "rmfile",
                      ![o].was = Stat(op[o].from)]
  /\ UNCHANGED <<service, store, born, folders, asked, raced>>

\* Mutant: a directory is removed without looking whether it is empty.
SftpRemoveAll(o) ==
  /\ At(o, "rmfile") \/ At(o, "rmdir")
  /\ Changes(o, [store EXCEPT ![op[o].from] = Nothing], To(o, "ok"))
  /\ asked' = asked \cup ({store[op[o].from].file} \ {0})
  /\ UNCHANGED <<born, folders, raced>>

\* remove_file, or remove_dir of an empty directory.
SftpRemove(o) ==
  /\ \/ At(o, "rmfile") /\ store[op[o].from].file # 0
     \/ At(o, "rmdir") /\ store[op[o].from].dir # 0 /\ \A q \in Below(op[o].from) : ~Taken(q)
  /\ Changes(o, [store EXCEPT ![op[o].from] = Nothing], To(o, "ok"))
  /\ asked' = asked \cup ({store[op[o].from].file} \ {0})
  /\ UNCHANGED <<born, folders, raced>>

SftpDelete(o) ==
  /\ service = "sftp" /\ op[o].kind = "delete"
  /\ SftpAsk(o) \/ SftpRemove(o)

\* One request, which the server refuses if the new name is taken.
SftpRename(o) ==
  /\ service = "sftp" /\ op[o].kind = "rename"
  /\ At(o, "head") /\ Taken(op[o].from)
  /\ CanMove(op[o].from, op[o].to) /\ Holds(Parent(op[o].to))
  /\ Changes(o, Moved(op[o].from, op[o].to),
             [To(o, "ok") EXCEPT !.was = Stat(op[o].from), !.saw = Item(op[o].from)])
  /\ UNCHANGED <<born, folders, asked, raced>>

SftpMkdir(o) == service = "sftp" /\ op[o].kind = "mkdir" /\ NewFolder(o)

\* OneDrive deletes a folder with all that is in it.
GraphDelete(o) ==
  /\ service = "onedrive" /\ op[o].kind = "delete"
  /\ At(o, "head") /\ Taken(op[o].from)
  /\ LET all == {op[o].from} \cup Below(op[o].from)
     IN /\ Changes(o, [p \in Paths |-> IF p \in all THEN Nothing ELSE store[p]], To(o, "ok"))
        /\ asked' = asked \cup ({store[p].file : p \in all} \ {0})
  /\ UNCHANGED <<born, folders, raced>>

\* rename: the item's id and eTag, then the new parent's id if it is another.
GraphAsk(o) ==
  /\ At(o, "head") /\ Taken(op[o].from)
  /\ op' = [op EXCEPT ![o].pc = IF Parent(op[o].from) = Parent(op[o].to) THEN "patch" ELSE "parent",
                      ![o].was = Stat(op[o].from),
                      ![o].saw = Item(op[o].from),
                      ![o].home = FolderId(Parent(op[o].from)),
                      ![o].into = FolderId(Parent(op[o].from))]
  /\ UNCHANGED <<service, store, born, folders, asked, raced>>

GraphAskParent(o) ==
  /\ At(o, "parent") /\ Holds(Parent(op[o].to))
  /\ op' = [op EXCEPT ![o].pc = "patch", ![o].into = FolderId(Parent(op[o].to))]
  /\ UNCHANGED <<service, store, born, folders, asked, raced>>

\* Mutant: no if-match, and whatever is at the path is renamed.
GraphPatchByPath(o) ==
  /\ At(o, "patch")
  /\ Taken(op[o].from) /\ CanMove(op[o].from, op[o].to) /\ Holds(Parent(op[o].to))
  /\ Changes(o, Moved(op[o].from, op[o].to), To(o, "ok"))
  /\ UNCHANGED <<born, folders, asked, raced>>

\* PATCH by id with if-match: the item as it was seen, wherever its folder is now,
\* gets its new name in its folder or in the other one.
GraphPatch(o) ==
  /\ At(o, "patch")
  /\ \E q \in Paths : \E r \in Paths :
       /\ Item(q) = op[o].saw
       /\ Last(q) = Last(op[o].from) /\ FolderId(Parent(q)) = op[o].home
       /\ Last(r) = Last(op[o].to) /\ Holds(Parent(r)) /\ FolderId(Parent(r)) = op[o].into
       /\ CanMove(q, r)
       /\ Changes(o, Moved(q, r), To(o, "ok"))
  /\ UNCHANGED <<born, folders, asked, raced>>

GraphRename(o) ==
  /\ service = "onedrive" /\ op[o].kind = "rename"
  /\ GraphAsk(o) \/ GraphAskParent(o) \/ GraphPatch(o)

GraphMkdir(o) == service = "onedrive" /\ op[o].kind = "mkdir" /\ NewFolder(o)

----------------------------------------------------------------------------
\* The user deletes, renames or makes an entry. A new name is put after the path
\* of the directory shown, and may have a "/" in it; the same name is not sent.
Begin(o) ==
  /\ At(o, "none")
  /\ \E kind \in {"delete", "rename", "mkdir"}, from, to \in Paths :
       /\ IF kind = "rename" THEN to # from /\ to \in Below(Parent(from)) ELSE to = from
       /\ op' = [op EXCEPT ![o].kind = kind, ![o].from = from, ![o].to = to, ![o].pc = "head"]
  /\ UNCHANGED <<service, store, born, folders, asked, raced>>

\* A request is refused, or not answered: no step above retries.
Fails(o) ==
  /\ ~Over(o)
  /\ Goes(o, "failed")

\* A transfer, an editor's save or another program puts a file at p.
Upload(p) ==
  /\ born < MaxBorn
  /\ Flat \/ (store[p].dir = 0 /\ Holds(Parent(p)))
  /\ store' = [store EXCEPT ![p].file = born + 1]
  /\ op' = [o \in Ops |-> Disturbed(op[o])]
  /\ born' = born + 1
  /\ Arrives(born + 1, p)
  /\ UNCHANGED <<service, folders>>

Request(o) ==
  \/ S3Delete(o) \/ S3Rename(o) \/ S3Mkdir(o)
  \/ AzDelete(o) \/ AzRename(o) \/ AzMkdir(o)
  \/ SftpDelete(o) \/ SftpRename(o) \/ SftpMkdir(o)
  \/ GraphDelete(o) \/ GraphRename(o) \/ GraphMkdir(o)

Next ==
  \/ \E o \in Ops : Begin(o) \/ Request(o) \/ Fails(o)
  \/ \E p \in Paths : Upload(p)

Spec == Init /\ [][Next]_vars

----------------------------------------------------------------------------
(* Properties *)

\* A folder server has one thing at a path, in a folder that is there; numbers
\* are given once; every command is one of those named.
Command ==
  [kind : {"none", "delete", "rename", "mkdir"}, from : Paths \cup {<<>>}, to : Paths \cup {<<>>},
   pc : {"none", "head", "look", "copy", "upload", "drop", "copymarker", "upmarker", "unmark",
         "rmdir", "rmfile", "parent", "patch", "ok", "failed"},
   was : {"none", "file", "dir"}, saw : 0 .. MaxBorn, home : 0 .. MaxBorn, into : 0 .. MaxBorn,
   alone : BOOLEAN]
TypeOK ==
  /\ service \in Services
  /\ store \in [Paths -> [file : 0 .. MaxBorn, dir : 0 .. MaxBorn]]
  /\ op \in [Ops -> Command]
  /\ born \in 0 .. MaxBorn
  /\ folders \subseteq 1 .. born
  /\ asked \subseteq 1 .. born
  /\ raced \subseteq 1 .. born
  /\ ~Flat => \A p \in Paths : /\ store[p].file = 0 \/ store[p].dir = 0
                               /\ Taken(p) => Holds(Parent(p))

\* No contents are lost but those someone deleted or replaced by name: a rename
\* that fails or is cut short at any point leaves them under the old name or the
\* new one. On S3 and Azure there is one window: what comes to the old name after
\* it was copied goes with it.
NothingLostUnasked ==
  \A v \in (1 .. born) \ folders :
    \/ \E p \in Paths : store[p].file = v
    \/ v \in asked
    \/ Flat /\ v \in raced

\* A command that answered Ok, with nobody else changing anything meanwhile, has
\* done what it says: nothing is left at a deleted path, no implied directory
\* either, and a renamed entry is at the new path as it was at the old one.
OkMeansDone ==
  \A o \in Ops : op[o].pc = "ok" /\ op[o].alone =>
    CASE op[o].kind = "mkdir" -> store[op[o].from].dir # 0
      [] op[o].kind = "delete" /\ op[o].was = "file" -> store[op[o].from].file = 0
      [] op[o].kind = "delete" /\ op[o].was # "file" -> Stat(op[o].from) = "none"
      [] op[o].kind = "rename" /\ op[o].was = "file" ->
           store[op[o].from].file = 0 /\ store[op[o].to].file = op[o].saw
      [] op[o].kind = "rename" /\ op[o].was # "file" ->
           /\ store[op[o].from].dir = 0 /\ store[op[o].to].dir # 0
           /\ Stat(op[o].from) = "dir" => op[o].to \in Below(op[o].from)

\* Whatever is stored can be browsed to, and stat and list agree on what it is:
\* list shows a file where there is one and a directory wherever something lies
\* below, marker or not.
BrowsableExactly ==
  \A p \in Paths :
    /\ Stat(p) # "none" <=> {File(p), Dir(p)} \cap Listing(Parent(p)) # {}
    /\ Stat(p) = "file" <=> File(p) \in Listing(Parent(p))

\* On OneDrive a rename moves the very version its user could have seen: contents
\* put at the path after the item was looked up stay where they are.
RenamesWhatItSaw ==
  [][service = "onedrive" =>
       \A o \in Ops : At(o, "patch") /\ op'[o].pc = "ok" =>
         \E q, r \in Paths : /\ q # r /\ Item(q) = op[o].saw
                             /\ store'[r].file + store'[r].dir = op[o].saw]_vars
==============================================================================
