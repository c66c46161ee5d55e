------------------------ MODULE UploadWriterProofs ------------------------
(***************************************************************************)
(* Proofs about UploadWriter, for every number of uploads, length, part     *)
(* size and limit on parts: the invariants, and that the writers of each    *)
(* service implement StagedWrite. The inductive invariant says of every     *)
(* writer which request it can have where (Fits), which parts the store     *)
(* has of it (Held) and when it has replaced the object (Traced), and of    *)
(* the object whose bytes it has (ObjectFits).                              *)
(***************************************************************************)
EXTENDS UploadWriter, TLAPS

----------------------------------------------------------------------------
(* The inductive invariant *)

LiveR(r) == r.pc \in {"writing", "closing"}
ActiveR(r) == LiveR(r) \/ (r.op # "none" /\ r.ans = "none")

ObjectT == [type : {"absent", "block", "append"}, parts : Seq(Parts)]

\* What the type invariant says of a writer's record.
Counts(r) == r \in Writer /\ r.cut <= r.sent /\ r.sent <= r.len

\* Requests are of the service's kinds, each made at its place in the upload, and
\* a writer that has ended has none.
S3Fits(r) ==
  /\ r.op \in {"none", "part", "complete"}
  /\ r.op = "part" => r.n = r.listed + 1
  /\ r.op = "complete" \/ (LiveR(r) /\ r.op = "none") => r.n = r.listed

AzFits(r) ==
  /\ r.op \in {"none", "part", "restage", "delete", "complete"}
  /\ r.n = r.listed
  /\ r.op \in {"part", "restage", "delete"} => r.n >= 1
  /\ r.op \in {"restage", "delete"} => r.n = 1

GraphFits(r) ==
  /\ r.op \in {"none", "put", "session", "fragment", "cancel"}
  /\ r.pc \in {"new", "writing"} => r.op = "none" /\ r.cut = 0
  /\ r.op # "none" \/ r.pc = "closing" => r.sent = r.len

Fits(r) ==
  /\ r.pc = "new" => r = Fresh
  /\ r.op = "none" => r.ans = "none"
  /\ ~LiveR(r) => r.ans = "none"
  /\ r.pc \in {"ok", "failed"} => r.op = "none"
  /\ r.op = "complete" => r.listed >= 1 /\ r.cut = r.len
  /\ r.pc = "closing" => r.sent = r.len
  /\ r.ans = "more" => r.op = "fragment" /\ r.cut < r.len
  /\ service = "s3" => S3Fits(r)
  /\ service = "azure" => AzFits(r)
  /\ service = "onedrive" => GraphFits(r)

\* The first k parts are w's bytes 1 .. last, in order.
Chain(w, ps, k, last) ==
  /\ k <= MaxParts
  /\ \A i \in 1 .. k : /\ ps[i].by = w
                       /\ ps[i].first = IF i = 1 THEN 1 ELSE ps[i - 1].last + 1
  /\ last = IF k = 0 THEN 0 ELSE ps[k].last

\* The store has the parts before the one in hand, and that one once answered so.
HasParts(w, r, ps) ==
  IF r.op \in {"part", "restage", "delete"}
  THEN /\ r.n >= 1 /\ r.first >= 1
       /\ Chain(w, ps, r.n - 1, r.first - 1)
       /\ r.ans = "ok" /\ r.op # "delete" => r.n <= MaxParts /\ ps[r.n] = Part(w, r.first, r.cut)
  ELSE Chain(w, ps, r.listed, r.cut)

\* What the store has staged of w stays until w completes or is aborted: on S3 as
\* long as the upload is open, on Azure unless uploads overlapped.
Stays(w) == IF service = "s3" THEN open[w] ELSE service = "azure" /\ ~clash

Held(w, r) ==
  Stays(w) /\ ActiveR(r) /\ ~(r.op = "complete" /\ r.ans # "none")
    => HasParts(w, r, staged[Slot(w)])

\* Uploads that do not overlap are under way one at a time.
OneAtATime ==
  ~clash => \A v, w \in Writers : ActiveR(wr[v]) /\ ActiveR(wr[w]) => v = w

\* A writer that has replaced the object is done, or about to know; if not mixed
\* with others, what it is told is so.
Traced(w, r) ==
  /\ w \in published =>
       \/ r.pc # "new" /\ ~LiveR(r) /\ r.op = "none"
       \/ LiveR(r) /\ r.op \in {"complete", "put", "fragment"} /\ r.ans \in {"ok", "lost"}
  /\ r.pc = "ok" => Mixing \/ w \in published
  /\ r.op \in {"complete", "put", "fragment"} /\ r.ans = "ok" => Mixing \/ w \in published

\* Nobody's bytes are in the store who has not begun.
Authors ==
  /\ \A i \in DOMAIN object.parts : \A w \in Writers : object.parts[i].by = w => wr[w].pc # "new"
  /\ \A s \in Slots, i \in 1 .. MaxParts, w \in Writers : staged[s][i].by = w => wr[w].pc # "new"

Untouched == object = before /\ published = {}

ObjectFits ==
  \/ Untouched
  \/ /\ object = Absent /\ published = {}
     /\ service = "azure" /\ before.type = "append"
  \/ /\ object.type = "block"
     /\ \E w \in published : Whole(w, object.parts)

\* The old object is only deleted while it is there and of the other type.
DeleteFits(r) ==
  \/ r.op = "delete" /\ r.ans = "none"
  \/ LiveR(r) /\ r.op = "part" /\ r.n = 1 /\ r.ans = "wrongtype"
  => service = "azure" /\ (~clash => Untouched /\ before.type = "append")

\* What S3 keeps open has a writer, an abort to come, or one that was lost.
OpenFits(r, isOpen, aborts) ==
  service = "s3" =>
    /\ r.pc = "new" => ~isOpen
    /\ r.op = "complete" /\ r.ans = "ok" => ~isOpen
    /\ isOpen /\ ~LiveR(r) => aborts \in {"pending", "lost"}

Typed ==
  /\ service \in Services /\ service \in {"s3", "azure", "onedrive"}
  /\ before \in {Absent, Older("block"), Older("append")}
  /\ before.type = "append" => service = "azure"
  /\ object \in ObjectT
  /\ wr \in [Writers -> Writer]
  /\ \A w \in Writers : Counts(wr[w])
  /\ staged \in [Slots -> [1 .. MaxParts -> Parts]]
  /\ open \in [Writers -> BOOLEAN]
  /\ abort \in [Writers -> {"none", "pending", "done", "lost"}]
  /\ published \subseteq Writers
  /\ clash \in BOOLEAN

IInv ==
  /\ Typed
  /\ \A w \in Writers : Fits(wr[w])
  /\ \A w \in Writers : Held(w, wr[w])
  /\ OneAtATime
  /\ \A w \in Writers : Traced(w, wr[w])
  /\ Authors
  /\ Mixing \/ ObjectFits
  /\ \A w \in Writers : DeleteFits(wr[w])
  /\ \A w \in Writers : OpenFits(wr[w], open[w], abort[w])

----------------------------------------------------------------------------
(* Steps of the callers: nothing in the store changes *)

\* A record the writer w may go to, the store being as it is.
Goes(w, r) ==
  /\ Counts(r) /\ r.len = wr[w].len
  /\ (r.pc = "new") <=> (wr[w].pc = "new")
  /\ ActiveR(r) => ActiveR(wr[w])
  /\ Fits(r) /\ Held(w, r) /\ Traced(w, r) /\ DeleteFits(r)

LEMMA StayGoes ==
  ASSUME IInv, NEW w \in Writers
  PROVE  Goes(w, wr[w])
BY DEF IInv, Typed, Goes

\* What is given to a writer stays, and one that has begun has.
Carries ==
  \A v \in Writers : wr'[v].len = wr[v].len /\ ((wr'[v].pc = "new") <=> (wr[v].pc = "new"))

\* A step of the callers: every writer goes where it may, and what S3 keeps open
\* is accounted for. Create is the one step of theirs that is not of this kind.
LEMMA CallersStep ==
  ASSUME IInv, wr' \in [Writers -> Writer], \A v \in Writers : Goes(v, wr'[v]),
         abort' \in [Writers -> {"none", "pending", "done", "lost"}],
         \A v \in Writers : OpenFits(wr'[v], open[v], abort'[v]),
         UNCHANGED <<open, Outside>>
  PROVE  IInv' /\ Carries
<1>0. UNCHANGED <<service, before, object, staged, open, published, clash>>
  BY DEF Outside
<1>1. Typed'
  BY <1>0 DEF IInv, Typed, Goes, Counts
<1>2. (\A v \in Writers : Fits(wr[v]))'
  BY <1>0 DEF Goes, Fits, S3Fits, AzFits, GraphFits
<1>3. (\A v \in Writers : Held(v, wr[v]))'
  BY <1>0 DEF Goes, Held, Stays, Slot
<1>4. OneAtATime'
  BY <1>0 DEF Goes, OneAtATime, IInv
<1>5. (\A v \in Writers : Traced(v, wr[v]))'
  BY <1>0 DEF Goes, Traced, Mixing
<1>6. Authors'
  BY <1>0 DEF Goes, Authors, IInv
<1>7. (Mixing \/ ObjectFits)'
  <2>1. \A v \in published : v \in Writers /\ wr'[v].len = wr[v].len
    BY DEF Goes, IInv, Typed
  <2> QED BY <1>0, <2>1 DEF ObjectFits, Untouched, Mixing, Whole, IInv
<1>8. (\A v \in Writers : DeleteFits(wr[v]))'
  BY <1>0 DEF Goes, DeleteFits, Untouched
<1>9. (\A v \in Writers : OpenFits(wr[v], open[v], abort[v]))'
  BY <1>0 DEF OpenFits
<1>10. Carries
  BY DEF Goes, Carries
<1> QED BY <1>1, <1>2, <1>3, <1>4, <1>5, <1>6, <1>7, <1>8, <1>9, <1>10 DEF IInv

\* ... and where one writer moves.
LEMMA OneGoes ==
  ASSUME IInv, NEW w \in Writers, NEW r, Goes(w, r), wr' = [wr EXCEPT ![w] = r],
         abort' \in [Writers -> {"none", "pending", "done", "lost"}],
         \A v \in Writers : v # w => abort'[v] = abort[v],
         OpenFits(r, open[w], abort'[w]),
         UNCHANGED <<open, Outside>>
  PROVE  IInv' /\ Carries
<1>1. wr' \in [Writers -> Writer]
  BY DEF IInv, Typed, Goes, Counts
<1>2. \A v \in Writers : wr'[v] = IF v = w THEN r ELSE wr[v]
  BY DEF IInv, Typed
<1>3. \A v \in Writers : Goes(v, wr'[v])
  BY <1>2, StayGoes
<1>4. \A v \in Writers : OpenFits(wr'[v], open[v], abort'[v])
  BY <1>2 DEF IInv
<1> QED BY <1>1, <1>3, <1>4, CallersStep

\* A writer that has no call to answer for anything but its end.
LEMMA EndGoes ==
  ASSUME IInv, NEW w \in Writers, Live(w), NEW pc \in {"ok", "failed", "gone"},
         pc = "ok" => Mixing \/ w \in published
  PROVE  Goes(w, Settled(wr[w], pc))
<1> DEFINE r == wr[w]
<1>1. PICK r2 : r2 = Settled(r, pc)
  OBVIOUS
<1>2. r \in Writer /\ Counts(r) /\ Fits(r) /\ LiveR(r)
  BY DEF IInv, Typed, Live, LiveR
<1>3. /\ r2 \in Writer /\ r2.pc = pc /\ r2.op = "none" /\ r2.ans = "none"
      /\ r2.len = r.len /\ r2.sent = r.sent /\ r2.cut = r.cut
      /\ r2.n = r.n /\ r2.listed = r.listed
  BY <1>1, <1>2 DEF Settled, Writer
<1>4. Counts(r2)
  BY <1>2, <1>3 DEF Counts
<1>5. ~LiveR(r2) /\ ~ActiveR(r2) /\ ActiveR(r)
  BY <1>2, <1>3 DEF LiveR, ActiveR
<1>6. Fits(r2)
  BY <1>2, <1>3, <1>5 DEF Fits, S3Fits, AzFits, GraphFits
<1>7. Held(w, r2) /\ Traced(w, r2) /\ DeleteFits(r2)
  BY <1>3, <1>5 DEF Held, Traced, DeleteFits
<1> QED BY <1>1, <1>2, <1>3, <1>4, <1>5, <1>6, <1>7 DEF Goes, LiveR

\* A writer that is dropped leaves behind the request that has no answer.
LEMMA DroppedGoes ==
  ASSUME IInv, NEW w \in Writers, Live(w)
  PROVE  /\ Goes(w, Dropped(wr[w]))
         /\ ~LiveR(Dropped(wr[w])) /\ Dropped(wr[w]).pc = "gone"
<1> DEFINE r == wr[w]
<1>1. CASE r.ans # "none"
  <2>1. Dropped(r) = Settled(r, "gone")
    BY <1>1 DEF Dropped
  <2>2. Goes(w, Settled(r, "gone"))
    BY EndGoes
  <2>3. Settled(r, "gone").pc = "gone"
    BY DEF Settled, IInv, Typed, Writer
  <2> QED BY <2>1, <2>2, <2>3 DEF LiveR
<1>2. CASE r.ans = "none"
  <2>1. PICK r2 : r2 = [r EXCEPT !.pc = "gone"]
    OBVIOUS
  <2>2. r \in Writer /\ Counts(r) /\ Fits(r) /\ LiveR(r) /\ Held(w, r) /\ Traced(w, r) /\ DeleteFits(r)
    BY DEF IInv, Typed, Live, LiveR
  <2>3. /\ r2 \in Writer /\ r2.pc = "gone" /\ r2.op = r.op /\ r2.ans = "none"
        /\ r2.len = r.len /\ r2.sent = r.sent /\ r2.cut = r.cut /\ r2.first = r.first
        /\ r2.n = r.n /\ r2.listed = r.listed
    BY <2>1, <2>2, <1>2 DEF Writer
  <2>4. Counts(r2)
    BY <2>2, <2>3 DEF Counts
  <2>5. ~LiveR(r2) /\ ActiveR(r)
    BY <2>2, <2>3 DEF LiveR, ActiveR
  <2>6. Fits(r2)
    BY <2>2, <2>3, <2>5 DEF Fits, S3Fits, AzFits, GraphFits, LiveR
  <2>7. Held(w, r2)
    BY <1>2, <2>2, <2>3, <2>5 DEF Held, HasParts
  <2>8. w \notin published
    BY <1>2, <2>2 DEF Traced
  <2>9. Traced(w, r2)
    BY <2>3, <2>8 DEF Traced
  <2>10. DeleteFits(r2)
    BY <1>2, <2>2, <2>3, <2>5 DEF DeleteFits
  <2>11. Dropped(r) = r2
    BY <2>1, <1>2 DEF Dropped
  <2> QED BY <2>2, <2>3, <2>4, <2>5, <2>6, <2>7, <2>9, <2>10, <2>11 DEF Goes, LiveR
<1> QED BY <1>1, <1>2

----------------------------------------------------------------------------
(* Cutting parts: S3 and Azure *)

\* A record with no request in hand: the store has its listed parts.
Resting(w, b) ==
  /\ Counts(b) /\ LiveR(b) /\ LiveR(wr[w]) /\ b.len = wr[w].len
  /\ b.op = "none" /\ b.ans = "none" /\ b.n = b.listed
  /\ b.pc = "closing" => b.sent = b.len
  /\ Stays(w) => Chain(w, staged[Slot(w)], b.listed, b.cut)
  /\ w \notin published

LEMMA ChainGrows ==
  ASSUME NEW w, NEW ps, NEW k \in Nat \ {0}, NEW first \in Nat \ {0}, NEW last \in Nat,
         Chain(w, ps, k - 1, first - 1), k <= MaxParts, ps[k] = Part(w, first, last)
  PROVE  Chain(w, ps, k, last)
<1>1. ps[k].by = w /\ ps[k].first = first /\ ps[k].last = last
  BY DEF Part
<1>2. first = IF k = 1 THEN 1 ELSE ps[k - 1].last + 1
  <2>1. first - 1 = IF k - 1 = 0 THEN 0 ELSE ps[k - 1].last
    BY DEF Chain
  <2>2. CASE k = 1
    BY <2>1, <2>2
  <2>3. CASE k # 1
    <3>1. ps[k - 1].last = first - 1
      BY <2>1, <2>3
    <3> QED BY <3>1, <2>3
  <2> QED BY <2>2, <2>3
<1>3. \A i \in 1 .. k : i \in 1 .. k - 1 \/ i = k
  OBVIOUS
<1> QED BY <1>1, <1>2, <1>3 DEF Chain

LEMMA ChainSame ==
  ASSUME NEW w, NEW ps, NEW qs, NEW k \in Nat, NEW last, Chain(w, ps, k, last),
         \A i \in 1 .. k : qs[i] = ps[i]
  PROVE  Chain(w, qs, k, last)
<1>1. ASSUME NEW i \in 1 .. k
      PROVE  qs[i].by = w /\ qs[i].first = IF i = 1 THEN 1 ELSE qs[i - 1].last + 1
  <2>1. ps[i].by = w /\ ps[i].first = IF i = 1 THEN 1 ELSE ps[i - 1].last + 1
    BY DEF Chain
  <2>2. i # 1 => i - 1 \in 1 .. k
    OBVIOUS
  <2> QED BY <2>1, <2>2
<1>2. last = IF k = 0 THEN 0 ELSE qs[k].last
  BY DEF Chain
<1> QED BY <1>1, <1>2 DEF Chain

LEMMA RestGoes ==
  ASSUME IInv, NEW w \in Writers, NEW b, Resting(w, b), service # "onedrive"
  PROVE  Goes(w, b)
<1>1. b.pc # "new" /\ wr[w].pc # "new" /\ ActiveR(wr[w])
  BY DEF Resting, LiveR, ActiveR
<1>2. Fits(b)
  BY DEF Resting, Fits, S3Fits, AzFits, LiveR
<1>3. Held(w, b)
  BY DEF Resting, Held, HasParts
<1>4. Traced(w, b) /\ DeleteFits(b)
  BY DEF Resting, Traced, DeleteFits, LiveR
<1> QED BY <1>1, <1>2, <1>3, <1>4 DEF Goes, Resting

LEMMA CutFacts ==
  ASSUME NEW b \in Writer
  PROVE  /\ Cut(b) \in Writer /\ Cut(b).pc = b.pc /\ Cut(b).len = b.len /\ Cut(b).sent = b.sent
         /\ Cut(b).first = b.cut + 1 /\ Cut(b).cut = b.sent /\ Cut(b).n = b.n + 1
         /\ Cut(b).listed = b.listed /\ Cut(b).op = "part" /\ Cut(b).ans = "none"
<1>1. PICK q : q = Request(b, "part")
  OBVIOUS
<1>2. /\ q \in Writer /\ q.pc = b.pc /\ q.len = b.len /\ q.sent = b.sent /\ q.n = b.n
      /\ q.listed = b.listed /\ q.op = "part" /\ q.ans = "none"
  BY <1>1 DEF Request, Writer
<1>3. PICK r : r = [q EXCEPT !.first = b.cut + 1, !.cut = b.sent, !.n = @ + 1]
  OBVIOUS
<1>4. /\ r \in Writer /\ r.pc = b.pc /\ r.len = b.len /\ r.sent = b.sent
      /\ r.first = b.cut + 1 /\ r.cut = b.sent /\ r.n = b.n + 1
      /\ r.listed = b.listed /\ r.op = "part" /\ r.ans = "none"
  <2>1. b.cut + 1 \in Nat /\ b.sent \in Nat /\ q.n + 1 \in Nat
    BY <1>2 DEF Writer
  <2> QED BY <1>2, <1>3, <2>1 DEF Writer
<1>5. Cut(b) = r
  BY <1>1, <1>3 DEF Cut
<1> QED BY <1>4, <1>5

\* S3: start_part, the part's number follows those listed.
LEMMA CutGoes ==
  ASSUME IInv, NEW w \in Writers, NEW b, Resting(w, b), service = "s3"
  PROVE  Goes(w, Cut(b))
<1>1. PICK r : r = Cut(b)
  OBVIOUS
<1>2. b \in Writer /\ b.n \in Nat /\ b.listed \in Nat /\ b.cut \in Nat /\ b.sent \in Nat
  BY DEF Resting, Counts, Writer
<1>3. /\ r \in Writer /\ r.pc = b.pc /\ r.len = b.len /\ r.sent = b.sent
      /\ r.first = b.cut + 1 /\ r.cut = b.sent /\ r.n = b.n + 1 /\ r.listed = b.listed
      /\ r.op = "part" /\ r.ans = "none"
  BY <1>1, <1>2, CutFacts
<1>4. Counts(r) /\ LiveR(r)
  BY <1>3 DEF Resting, Counts, LiveR, Writer
<1>5. r.pc # "new" /\ wr[w].pc # "new" /\ ActiveR(wr[w])
  BY <1>3 DEF Resting, LiveR, ActiveR
<1>6. Fits(r)
  BY <1>3, <1>4 DEF Resting, Fits, S3Fits, LiveR
<1>7. Held(w, r)
  <2>1. r.n - 1 = b.listed /\ r.first - 1 = b.cut /\ r.n >= 1 /\ r.first >= 1
    BY <1>2, <1>3 DEF Resting
  <2> QED BY <1>3, <2>1 DEF Resting, Held, HasParts
<1>8. Traced(w, r) /\ DeleteFits(r)
  BY <1>3 DEF Resting, Traced, DeleteFits, LiveR
<1> QED BY <1>1, <1>3, <1>4, <1>5, <1>6, <1>7, <1>8 DEF Goes, Resting

\* Azure: start_stage, the block is listed before it is staged.
LEMMA AzCutGoes ==
  ASSUME IInv, NEW w \in Writers, NEW b, Resting(w, b), service = "azure"
  PROVE  Goes(w, AzCut(b))
<1>1. PICK r : r = AzCut(b)
  OBVIOUS
<1>2. b \in Writer /\ b.n \in Nat /\ b.listed \in Nat /\ b.cut \in Nat /\ b.sent \in Nat
  BY DEF Resting, Counts, Writer
<1>3. /\ r \in Writer /\ r.pc = b.pc /\ r.len = b.len /\ r.sent = b.sent
      /\ r.first = b.cut + 1 /\ r.cut = b.sent /\ r.n = b.n + 1 /\ r.listed = b.listed + 1
      /\ r.op = "part" /\ r.ans = "none"
  <2>1. PICK c : c = Cut(b)
    OBVIOUS
  <2>2. r = [c EXCEPT !.listed = @ + 1]
    BY <1>1, <2>1 DEF AzCut
  <2>3. /\ c \in Writer /\ c.pc = b.pc /\ c.len = b.len /\ c.sent = b.sent
        /\ c.first = b.cut + 1 /\ c.cut = b.sent /\ c.n = b.n + 1 /\ c.listed = b.listed
        /\ c.op = "part" /\ c.ans = "none"
    BY <1>2, <2>1, CutFacts
  <2> QED BY <1>2, <2>2, <2>3 DEF Writer
<1>4. Counts(r) /\ LiveR(r)
  BY <1>3 DEF Resting, Counts, LiveR, Writer
<1>5. r.pc # "new" /\ wr[w].pc # "new" /\ ActiveR(wr[w])
  BY <1>3 DEF Resting, LiveR, ActiveR
<1>6. Fits(r)
  BY <1>2, <1>3, <1>4 DEF Resting, Fits, AzFits, LiveR
<1>7. Held(w, r)
  <2>1. r.n - 1 = b.listed /\ r.first - 1 = b.cut /\ r.n >= 1 /\ r.first >= 1
    BY <1>2, <1>3 DEF Resting
  <2> QED BY <1>3, <2>1 DEF Resting, Held, HasParts
<1>8. Traced(w, r) /\ DeleteFits(r)
  BY <1>3 DEF Resting, Traced, DeleteFits, LiveR
<1> QED BY <1>1, <1>3, <1>4, <1>5, <1>6, <1>7, <1>8 DEF Goes, Resting

\* Both: everything is cut, and there is a part to list.
LEMMA CompleteGoes ==
  ASSUME IInv, NEW w \in Writers, NEW b, Resting(w, b), service # "onedrive",
         b.pc = "closing", b.listed # 0, ~(b.sent > b.cut)
  PROVE  Goes(w, Request(b, "complete"))
<1>1. PICK r : r = Request(b, "complete")
  OBVIOUS
<1>2. b \in Writer /\ b.listed \in Nat /\ b.cut \in Nat /\ b.sent \in Nat /\ b.len \in Nat
  BY DEF Resting, Counts, Writer
<1>3. /\ r \in Writer /\ r.pc = b.pc /\ r.len = b.len /\ r.sent = b.sent
      /\ r.cut = b.cut /\ r.n = b.n /\ r.listed = b.listed
      /\ r.op = "complete" /\ r.ans = "none"
  BY <1>1, <1>2 DEF Request, Writer
<1>4. Counts(r) /\ LiveR(r)
  BY <1>3 DEF Resting, Counts, LiveR
<1>5. r.pc # "new" /\ wr[w].pc # "new" /\ ActiveR(wr[w])
  BY <1>3 DEF Resting, LiveR, ActiveR
<1>6. r.listed >= 1 /\ r.cut = r.len
  BY <1>2, <1>3 DEF Resting, Counts
<1>7. Fits(r)
  BY <1>3, <1>4, <1>6 DEF Resting, Fits, S3Fits, AzFits, LiveR
<1>8. Held(w, r)
  BY <1>3 DEF Resting, Held, HasParts
<1>9. Traced(w, r) /\ DeleteFits(r)
  BY <1>3 DEF Resting, Traced, DeleteFits, LiveR
<1> QED BY <1>1, <1>3, <1>4, <1>5, <1>7, <1>8, <1>9 DEF Goes, Resting

\* A writer whose last part is answered has it in the store.
LEMMA Banking ==
  ASSUME IInv, NEW w \in Writers, Live(w), Drained(wr[w]), service # "onedrive"
  PROVE  Resting(w, IF service = "s3" THEN S3Bank(wr[w]) ELSE AzBank(wr[w]))
<1> DEFINE r == wr[w]
<1>1. r \in Writer /\ Counts(r) /\ Fits(r) /\ LiveR(r) /\ ActiveR(r) /\ Held(w, r) /\ Traced(w, r)
  BY DEF IInv, Typed, Live, LiveR, ActiveR
<1>2. r.op \in {"none", "part", "restage"} /\ w \notin published
  BY <1>1 DEF Drained, Traced
<1>3. service \in {"s3", "azure"}
  BY DEF IInv, Typed
<1>4. CASE r.op = "none"
  <2>1. S3Bank(r) = r /\ AzBank(r) = r
    BY <1>4 DEF S3Bank, AzBank
  <2>2. r.ans = "none" /\ r.n = r.listed
    BY <1>1, <1>3, <1>4 DEF Fits, S3Fits, AzFits
  <2>3. Stays(w) => Chain(w, staged[Slot(w)], r.listed, r.cut)
    BY <1>1, <1>4 DEF Held, HasParts
  <2>4. Resting(w, r)
    BY <1>1, <1>2, <1>4, <2>2, <2>3 DEF Resting, Fits
  <2> QED BY <2>1, <2>4
<1>5. CASE r.op # "none"
  <2>1. r.op \in {"part", "restage"} /\ r.ans = "ok"
    BY <1>2, <1>5 DEF Drained
  <2>2. Stays(w) => Chain(w, staged[Slot(w)], r.n, r.cut)
    <3> SUFFICES ASSUME Stays(w) PROVE Chain(w, staged[Slot(w)], r.n, r.cut)
      OBVIOUS
    <3> PICK ps : ps = staged[Slot(w)]
      OBVIOUS
    <3>1. HasParts(w, r, ps)
      BY <1>1, <2>1 DEF Held
    <3>2. /\ r.n >= 1 /\ r.first >= 1 /\ Chain(w, ps, r.n - 1, r.first - 1)
          /\ r.n <= MaxParts /\ ps[r.n] = Part(w, r.first, r.cut)
      BY <3>1, <2>1 DEF HasParts
    <3>3. r.n \in Nat \ {0} /\ r.first \in Nat \ {0} /\ r.cut \in Nat
      BY <1>1, <3>2 DEF Writer
    <3> HIDE DEF r
    <3> QED BY <3>2, <3>3, ChainGrows
  <2>3. CASE service = "s3"
    <3>1. PICK b : b = S3Bank(r)
      OBVIOUS
    <3>2. r.op = "part" /\ r.n = r.listed + 1
      BY <1>1, <2>1, <2>3 DEF Fits, S3Fits
    <3>3. /\ b \in Writer /\ b.pc = r.pc /\ b.len = r.len /\ b.sent = r.sent /\ b.cut = r.cut
          /\ b.n = r.n /\ b.listed = r.listed + 1 /\ b.op = "none" /\ b.ans = "none"
      BY <1>1, <2>1, <3>1, <3>2 DEF S3Bank, Settled, Writer
    <3>4. Resting(w, b)
      BY <1>1, <1>2, <2>2, <3>2, <3>3 DEF Resting, Counts, Fits, LiveR
    <3> QED BY <2>3, <3>1, <3>4
  <2>4. CASE service = "azure"
    <3>1. PICK b : b = AzBank(r)
      OBVIOUS
    <3>2. r.n = r.listed
      BY <1>1, <2>4 DEF Fits, AzFits
    <3>3. /\ b \in Writer /\ b.pc = r.pc /\ b.len = r.len /\ b.sent = r.sent /\ b.cut = r.cut
          /\ b.n = r.n /\ b.listed = r.listed /\ b.op = "none" /\ b.ans = "none"
      BY <1>1, <2>1, <3>1 DEF AzBank, Settled, Writer
    <3>4. Resting(w, b)
      BY <1>1, <1>2, <2>2, <3>2, <3>3 DEF Resting, Counts, Fits, LiveR
    <3> QED BY <2>4, <3>1, <3>4
  <2> QED BY <1>3, <2>3, <2>4
<1> QED BY <1>4, <1>5

\* It takes a byte more, or no more at all.
LEMMA Taking ==
  ASSUME NEW w, NEW b, Resting(w, b), b.pc = "writing", b.sent < b.len
  PROVE  Resting(w, [b EXCEPT !.sent = @ + 1])
<1>1. PICK r : r = [b EXCEPT !.sent = @ + 1]
  OBVIOUS
<1>2. b \in Writer /\ b.sent \in Nat /\ b.len \in Nat /\ b.cut \in Nat /\ b.cut <= b.sent
  BY DEF Resting, Counts, Writer
<1>3. /\ r \in Writer /\ r.pc = b.pc /\ r.len = b.len /\ r.sent = b.sent + 1
      /\ r.cut = b.cut /\ r.n = b.n /\ r.listed = b.listed /\ r.op = b.op /\ r.ans = b.ans
  BY <1>1, <1>2 DEF Writer
<1>4. Counts(r)
  BY <1>2, <1>3 DEF Counts, Resting
<1> QED BY <1>1, <1>3, <1>4 DEF Resting, LiveR

LEMMA Closing ==
  ASSUME NEW w, NEW b, Resting(w, b), b.sent = b.len
  PROVE  /\ Resting(w, [b EXCEPT !.pc = "closing"])
         /\ [b EXCEPT !.pc = "closing"].pc = "closing"
<1>1. PICK r : r = [b EXCEPT !.pc = "closing"]
  OBVIOUS
<1>2. b \in Writer
  BY DEF Resting, Counts
<1>3. /\ r \in Writer /\ r.pc = "closing" /\ r.len = b.len /\ r.sent = b.sent
      /\ r.cut = b.cut /\ r.n = b.n /\ r.listed = b.listed /\ r.op = b.op /\ r.ans = b.ans
  BY <1>1, <1>2 DEF Writer
<1> QED BY <1>1, <1>3 DEF Resting, Counts, LiveR

----------------------------------------------------------------------------
(* The steps of the callers *)

\* Where a step of w's caller leads, abort and open being left alone.
LEMMA PollStep ==
  ASSUME IInv, NEW w \in Writers, NEW r, Goes(w, r), wr' = [wr EXCEPT ![w] = r],
         OpenFits(r, open[w], abort[w]), UNCHANGED <<open, abort, Outside>>
  PROVE  IInv' /\ Carries
<1>1. /\ abort' \in [Writers -> {"none", "pending", "done", "lost"}]
      /\ \A v \in Writers : v # w => abort'[v] = abort[v]
      /\ abort'[w] = abort[w]
  BY DEF IInv, Typed
<1> QED BY <1>1, OneGoes

\* ... and on S3 as long as the writer is not done.
LEMMA S3PollStep ==
  ASSUME IInv, NEW w \in Writers, NEW r, Goes(w, r), wr' = [wr EXCEPT ![w] = r],
         LiveR(r), ~(r.op = "complete" /\ r.ans = "ok"), UNCHANGED <<open, abort, Outside>>
  PROVE  IInv' /\ Carries
<1>1. OpenFits(r, open[w], abort[w])
  BY DEF OpenFits, LiveR
<1> QED BY <1>1, PollStep

LEMMA S3WriteStep ==
  ASSUME IInv, NEW w \in Writers, S3Write(w)
  PROVE  IInv' /\ Carries
<1>1. /\ service = "s3" /\ Live(w) /\ wr[w].pc = "writing"
      /\ wr[w].sent < wr[w].len /\ Drained(wr[w]) /\ UNCHANGED <<open, abort, Outside>>
  BY DEF S3Write, Live
<1>2. PICK b : b = S3Bank(wr[w])
  OBVIOUS
<1>3. Resting(w, b)
  BY <1>1, <1>2, Banking
<1>4. b.pc = "writing" /\ b.sent < b.len
  BY <1>1, <1>2 DEF S3Bank, Settled, IInv, Typed, Writer
<1>5. PICK r : r = [b EXCEPT !.sent = @ + 1]
  OBVIOUS
<1>6. Resting(w, r)
  BY <1>3, <1>4, <1>5, Taking
<1>7. wr' = [wr EXCEPT ![w] = IF r.sent - r.cut >= PartSize THEN Cut(r) ELSE r]
  BY <1>2, <1>5 DEF S3Write
<1>8. Goes(w, r) /\ Goes(w, Cut(r))
  BY <1>1, <1>6, RestGoes, CutGoes
<1>9. r \in Writer
  BY <1>6 DEF Resting, Counts
<1>10. LiveR(r) /\ r.op = "none" /\ LiveR(Cut(r)) /\ Cut(r).op = "part"
  BY <1>6, <1>9, CutFacts DEF Resting, LiveR
<1> QED BY <1>1, <1>7, <1>8, <1>10, S3PollStep

LEMMA S3FlushStep ==
  ASSUME IInv, NEW w \in Writers, S3Flush(w)
  PROVE  IInv' /\ Carries
<1>1. /\ service = "s3" /\ Live(w) /\ Drained(wr[w])
      /\ wr' = [wr EXCEPT ![w] = S3Bank(wr[w])] /\ UNCHANGED <<open, abort, Outside>>
  BY DEF S3Flush, Live, Drained
<1>2. Resting(w, S3Bank(wr[w]))
  BY <1>1, Banking
<1>3. Goes(w, S3Bank(wr[w]))
  BY <1>1, <1>2, RestGoes
<1>4. LiveR(S3Bank(wr[w])) /\ S3Bank(wr[w]).op = "none"
  BY <1>2 DEF Resting
<1> QED BY <1>1, <1>3, <1>4, S3PollStep

LEMMA S3ShutdownStep ==
  ASSUME IInv, NEW w \in Writers, S3Shutdown(w)
  PROVE  IInv' /\ Carries
<1>1. /\ service = "s3" /\ Live(w) /\ wr[w].sent = wr[w].len /\ Drained(wr[w])
      /\ UNCHANGED <<open, abort, Outside>>
  BY DEF S3Shutdown
<1>2. PICK b : b = S3Bank(wr[w])
  OBVIOUS
<1>3. Resting(w, b)
  BY <1>1, <1>2, Banking
<1>4. b.sent = b.len
  BY <1>1, <1>2 DEF S3Bank, Settled, IInv, Typed, Writer
<1>5. PICK r : r = [b EXCEPT !.pc = "closing"]
  OBVIOUS
<1>6. Resting(w, r) /\ r.pc = "closing"
  BY <1>3, <1>4, <1>5, Closing
<1>7. wr' = [wr EXCEPT ![w] = S3Tail(r)]
  BY <1>2, <1>5 DEF S3Shutdown
<1>8. r \in Writer
  BY <1>6 DEF Resting, Counts
<1>9. CASE r.listed = 0 \/ r.sent > r.cut
  <2>1. S3Tail(r) = Cut(r)
    BY <1>9 DEF S3Tail
  <2>2. Goes(w, Cut(r))
    BY <1>1, <1>6, CutGoes
  <2>3. LiveR(Cut(r)) /\ Cut(r).op = "part"
    BY <1>6, <1>8, CutFacts DEF LiveR
  <2> QED BY <1>1, <1>7, <2>1, <2>2, <2>3, S3PollStep
<1>10. CASE ~(r.listed = 0 \/ r.sent > r.cut)
  <2>1. S3Tail(r) = Request(r, "complete")
    BY <1>10 DEF S3Tail, S3Complete
  <2>2. Goes(w, Request(r, "complete"))
    BY <1>1, <1>6, <1>10, CompleteGoes
  <2>3. LiveR(Request(r, "complete")) /\ Request(r, "complete").ans = "none"
    BY <1>6, <1>8 DEF LiveR, Request, Writer
  <2> QED BY <1>1, <1>7, <2>1, <2>2, <2>3, S3PollStep
<1> QED BY <1>9, <1>10

LEMMA AzWriteStep ==
  ASSUME IInv, NEW w \in Writers, AzWrite(w)
  PROVE  IInv' /\ Carries
<1>1. /\ service = "azure" /\ Live(w) /\ wr[w].pc = "writing"
      /\ wr[w].sent < wr[w].len /\ Drained(wr[w]) /\ UNCHANGED <<open, abort, Outside>>
  BY DEF AzWrite, Live
<1>2. PICK b : b = AzBank(wr[w])
  OBVIOUS
<1>3. Resting(w, b)
  BY <1>1, <1>2, Banking
<1>4. b.pc = "writing" /\ b.sent < b.len
  BY <1>1, <1>2 DEF AzBank, Settled, IInv, Typed, Writer
<1>5. PICK r : r = [b EXCEPT !.sent = @ + 1]
  OBVIOUS
<1>6. Resting(w, r)
  BY <1>3, <1>4, <1>5, Taking
<1>7. wr' = [wr EXCEPT ![w] = IF r.sent - r.cut >= PartSize THEN AzCut(r) ELSE r]
  BY <1>2, <1>5 DEF AzWrite
<1>8. Goes(w, r) /\ Goes(w, AzCut(r))
  BY <1>1, <1>6, RestGoes, AzCutGoes
<1>9. OpenFits(r, open[w], abort[w]) /\ OpenFits(AzCut(r), open[w], abort[w])
  BY <1>1 DEF OpenFits
<1> QED BY <1>1, <1>7, <1>8, <1>9, PollStep

LEMMA AzFlushStep ==
  ASSUME IInv, NEW w \in Writers, AzFlush(w)
  PROVE  IInv' /\ Carries
<1>1. /\ service = "azure" /\ Live(w) /\ Drained(wr[w])
      /\ wr' = [wr EXCEPT ![w] = AzBank(wr[w])] /\ UNCHANGED <<open, abort, Outside>>
  BY DEF AzFlush, Live, Drained
<1>2. Resting(w, AzBank(wr[w]))
  BY <1>1, Banking
<1>3. Goes(w, AzBank(wr[w]))
  BY <1>1, <1>2, RestGoes
<1>4. OpenFits(AzBank(wr[w]), open[w], abort[w])
  BY <1>1 DEF OpenFits
<1> QED BY <1>1, <1>3, <1>4, PollStep

LEMMA AzShutdownStep ==
  ASSUME IInv, NEW w \in Writers, AzShutdown(w)
  PROVE  IInv' /\ Carries
<1>1. /\ service = "azure" /\ Live(w) /\ wr[w].sent = wr[w].len /\ Drained(wr[w])
      /\ UNCHANGED <<open, abort, Outside>>
  BY DEF AzShutdown
<1>2. PICK b : b = AzBank(wr[w])
  OBVIOUS
<1>3. Resting(w, b)
  BY <1>1, <1>2, Banking
<1>4. b.sent = b.len
  BY <1>1, <1>2 DEF AzBank, Settled, IInv, Typed, Writer
<1>5. PICK r : r = [b EXCEPT !.pc = "closing"]
  OBVIOUS
<1>6. Resting(w, r) /\ r.pc = "closing"
  BY <1>3, <1>4, <1>5, Closing
<1>7. wr' = [wr EXCEPT ![w] = AzTail(r)]
  BY <1>2, <1>5 DEF AzShutdown
<1>8. r \in Writer
  BY <1>6 DEF Resting, Counts
<1>9. CASE r.listed = 0 \/ r.sent > r.cut
  <2>1. AzTail(r) = AzCut(r)
    BY <1>9 DEF AzTail
  <2>2. Goes(w, AzCut(r))
    BY <1>1, <1>6, AzCutGoes
  <2>3. OpenFits(AzCut(r), open[w], abort[w])
    BY <1>1 DEF OpenFits
  <2> QED BY <1>1, <1>7, <2>1, <2>2, <2>3, PollStep
<1>10. CASE ~(r.listed = 0 \/ r.sent > r.cut)
  <2>1. AzTail(r) = Request(r, "complete")
    BY <1>10 DEF AzTail, AzComplete
  <2>2. Goes(w, Request(r, "complete"))
    BY <1>1, <1>6, <1>10, CompleteGoes
  <2>3. OpenFits(Request(r, "complete"), open[w], abort[w])
    BY <1>1 DEF OpenFits
  <2> QED BY <1>1, <1>7, <2>1, <2>2, <2>3, PollStep
<1> QED BY <1>9, <1>10

\* A writer that ends, told so: on S3 its upload is closed or its abort on the way.
LEMMA EndStep ==
  ASSUME IInv, NEW w \in Writers, Live(w), NEW pc \in {"ok", "failed", "gone"},
         pc = "ok" => wr[w].op \in {"complete", "put", "fragment"} /\ wr[w].ans = "ok",
         wr' = [wr EXCEPT ![w] = Settled(@, pc)],
         \/ service # "s3" /\ UNCHANGED abort
         \/ pc = "ok" /\ wr[w].op = "complete" /\ UNCHANGED abort
         \/ abort' = [abort EXCEPT ![w] = "pending"],
         UNCHANGED <<open, Outside>>
  PROVE  IInv' /\ Carries
<1>1. Goes(w, Settled(wr[w], pc))
  BY EndGoes DEF IInv, Traced
<1>2. wr' = [wr EXCEPT ![w] = Settled(wr[w], pc)]
  OBVIOUS
<1>3. Settled(wr[w], pc).op = "none"
  BY DEF Settled, IInv, Typed, Writer
<1>4. PICK r : r = Settled(wr[w], pc)
  OBVIOUS
<1>5. r.pc = pc /\ r.op = "none"
  BY <1>4 DEF Settled, IInv, Typed, Writer
<1>6. OpenFits(wr[w], open[w], abort[w])
  BY DEF IInv
<1>7. CASE UNCHANGED abort
  <2>1. OpenFits(r, open[w], abort[w])
    <3>1. CASE service # "s3"
      BY <3>1 DEF OpenFits
    <3>2. CASE abort' = [abort EXCEPT ![w] = "pending"]
      <4>1. abort[w] = "pending"
        BY <1>7, <3>2 DEF IInv, Typed
      <4> QED BY <4>1, <1>5 DEF OpenFits
    <3>3. CASE pc = "ok" /\ wr[w].op = "complete"
      BY <3>3, <1>5, <1>6 DEF OpenFits
    <3> QED BY <3>1, <3>2, <3>3
  <2> QED BY <1>1, <1>2, <1>4, <1>7, <2>1, PollStep
<1>8. CASE abort' = [abort EXCEPT ![w] = "pending"]
  <2>1. /\ abort' \in [Writers -> {"none", "pending", "done", "lost"}]
        /\ \A v \in Writers : v # w => abort'[v] = abort[v]
        /\ abort'[w] = "pending"
    BY <1>8 DEF IInv, Typed
  <2>2. OpenFits(r, open[w], abort'[w])
    BY <2>1, <1>5 DEF OpenFits
  <2> QED BY <1>1, <1>2, <1>4, <2>1, <2>2, OneGoes
<1> QED BY <1>7, <1>8

LEMMA DropStep ==
  ASSUME IInv, NEW w \in Writers, Drop(w)
  PROVE  IInv' /\ Carries
<1>1. /\ Live(w) /\ wr' = [wr EXCEPT ![w] = Dropped(wr[w])]
      /\ \/ service # "s3" /\ UNCHANGED abort
         \/ abort' = [abort EXCEPT ![w] = "pending"]
      /\ UNCHANGED <<open, Outside>>
  BY DEF Drop, S3Drop, AzDrop, GraphDrop
<1>2. /\ abort' \in [Writers -> {"none", "pending", "done", "lost"}]
      /\ \A v \in Writers : v # w => abort'[v] = abort[v]
      /\ service = "s3" => abort'[w] = "pending"
  BY <1>1 DEF IInv, Typed
<1>3. PICK r : r = Dropped(wr[w])
  OBVIOUS
<1>4. Goes(w, r) /\ ~LiveR(r) /\ r.pc = "gone"
  BY <1>1, <1>3, DroppedGoes
<1>5. r.ans = "none"
  BY <1>4 DEF Goes, Fits
<1>6. OpenFits(r, open[w], abort'[w])
  BY <1>2, <1>4, <1>5 DEF OpenFits
<1> QED BY <1>1, <1>2, <1>3, <1>4, <1>6, OneGoes

LEMMA KillStep ==
  ASSUME IInv, Kill
  PROVE  IInv' /\ Carries
<1>1. /\ wr' = [w \in Writers |-> IF Live(w) THEN Dropped(wr[w]) ELSE wr[w]]
      /\ abort' = [w \in Writers |-> IF abort[w] = "pending" \/ (service = "s3" /\ Live(w))
                                     THEN "lost" ELSE abort[w]]
      /\ UNCHANGED <<open, Outside>>
  BY DEF Kill
<1>2. \A w \in Writers : Goes(w, wr'[w])
  BY <1>1, DroppedGoes, StayGoes
<1>3. wr' \in [Writers -> Writer]
  <2>1. \A w \in Writers : wr'[w] \in Writer
    BY <1>2 DEF Goes, Counts
  <2> QED BY <1>1, <2>1
<1>4. abort' \in [Writers -> {"none", "pending", "done", "lost"}]
  BY <1>1 DEF IInv, Typed
<1>5. ASSUME NEW w \in Writers
      PROVE  OpenFits(wr'[w], open[w], abort'[w])
  <2>1. OpenFits(wr[w], open[w], abort[w])
    BY DEF IInv
  <2>2. CASE Live(w)
    <3>1. ~LiveR(wr'[w]) /\ wr'[w].pc = "gone"
      BY <1>1, <2>2, DroppedGoes
    <3>2. wr'[w].ans = "none"
      BY <1>2, <3>1 DEF Goes, Fits
    <3>3. service = "s3" => abort'[w] = "lost"
      BY <1>1, <2>2
    <3> QED BY <3>1, <3>2, <3>3 DEF OpenFits
  <2>3. CASE ~Live(w)
    <3>1. wr'[w] = wr[w]
      BY <1>1, <2>3
    <3>2. abort'[w] = abort[w] \/ abort'[w] = "lost"
      BY <1>1
    <3> QED BY <2>1, <3>1, <3>2 DEF OpenFits
  <2> QED BY <2>2, <2>3
<1> QED BY <1>1, <1>2, <1>3, <1>4, <1>5, CallersStep

LEMMA EndSteps ==
  ASSUME IInv, NEW w \in Writers,
         S3Completed(w) \/ S3Fail(w) \/ AzCommitted(w) \/ AzFail(w)
  PROVE  IInv' /\ Carries
<1>1. CASE S3Completed(w)
  BY <1>1, EndStep DEF S3Completed, Outside
<1>2. CASE S3Fail(w)
  BY <1>2, EndStep DEF S3Fail, Outside
<1>3. CASE AzCommitted(w)
  BY <1>3, EndStep DEF AzCommitted, Outside
<1>4. CASE AzFail(w)
  BY <1>4, EndStep DEF AzFail, Outside
<1> QED BY <1>1, <1>2, <1>3, <1>4

\* A writer that sends its next request in place of one that was answered.
LEMMA RequestFacts ==
  ASSUME NEW b \in Writer, NEW op \in {"delete", "restage", "put", "session", "fragment", "cancel"}
  PROVE  /\ Request(b, op) \in Writer /\ Request(b, op).pc = b.pc /\ Request(b, op).len = b.len
         /\ Request(b, op).sent = b.sent /\ Request(b, op).first = b.first
         /\ Request(b, op).cut = b.cut /\ Request(b, op).n = b.n
         /\ Request(b, op).listed = b.listed
         /\ Request(b, op).op = op /\ Request(b, op).ans = "none"
BY DEF Request, Writer

LEMMA AzRecoverStep ==
  ASSUME IInv, NEW w \in Writers, AzRecover(w) \/ AzRestage(w)
  PROVE  IInv' /\ Carries
<1> DEFINE r == wr[w]
<1>1. PICK op \in {"delete", "restage"} :
        /\ service = "azure" /\ LiveR(r) /\ r.n = 1
        /\ op = "delete" => r.op = "part" /\ r.ans = "wrongtype"
        /\ op = "restage" => r.op = "delete" /\ r.ans = "ok"
        /\ wr' = [wr EXCEPT ![w] = Request(r, op)]
        /\ UNCHANGED <<open, abort, Outside>>
  <2>1. CASE AzRecover(w)
    BY <2>1 DEF AzRecover, Live, LiveR
  <2>2. CASE AzRestage(w)
    BY <2>2 DEF AzRestage, Live, LiveR, IInv, Fits, AzFits
  <2> QED BY <2>1, <2>2
<1>2. r \in Writer /\ Counts(r) /\ Fits(r) /\ Held(w, r) /\ Traced(w, r) /\ DeleteFits(r)
  BY DEF IInv, Typed
<1>3. PICK q : q = Request(r, op)
  OBVIOUS
<1>4. /\ q \in Writer /\ q.pc = r.pc /\ q.len = r.len /\ q.sent = r.sent
      /\ q.first = r.first /\ q.cut = r.cut /\ q.n = r.n /\ q.listed = r.listed
      /\ q.op = op /\ q.ans = "none"
  BY <1>2, <1>3, RequestFacts
<1>5. Counts(q) /\ LiveR(q) /\ q.pc # "new" /\ r.pc # "new" /\ ActiveR(r)
  BY <1>1, <1>2, <1>4 DEF Counts, LiveR, ActiveR
<1>6. Fits(q)
  BY <1>1, <1>2, <1>4, <1>5 DEF Fits, AzFits, LiveR
<1>7. Held(w, q)
  BY <1>1, <1>2, <1>4, <1>5 DEF Held, HasParts
<1>8. Traced(w, q) /\ DeleteFits(q)
  BY <1>1, <1>2, <1>4 DEF Traced, DeleteFits, LiveR
<1>9. OpenFits(q, open[w], abort[w])
  BY <1>1 DEF OpenFits
<1>10. Goes(w, q)
  BY <1>4, <1>5, <1>6, <1>7, <1>8 DEF Goes
<1> QED BY <1>1, <1>3, <1>9, <1>10, PollStep

\* OneDrive: nothing but the request and its place in the file is there to keep.
LEMMA GraphGoes ==
  ASSUME IInv, NEW w \in Writers, service = "onedrive", Live(w), w \notin published,
         NEW q, Counts(q), LiveR(q), q.len = wr[w].len, GraphFits(q), q.ans = "none",
         q.op # "complete", q.op # "delete", q.pc = "closing" => q.sent = q.len
  PROVE  Goes(w, q)
<1>1. q.pc # "new" /\ wr[w].pc # "new" /\ ActiveR(wr[w])
  BY DEF LiveR, Live, ActiveR
<1>2. Fits(q)
  BY DEF Fits, LiveR
<1>3. Held(w, q)
  BY DEF Held, Stays
<1>4. Traced(w, q) /\ DeleteFits(q)
  BY DEF Traced, DeleteFits, LiveR
<1> QED BY <1>1, <1>2, <1>3, <1>4 DEF Goes

LEMMA GraphWriteStep ==
  ASSUME IInv, NEW w \in Writers, GraphWrite(w)
  PROVE  IInv' /\ Carries
<1> DEFINE r == wr[w]
<1>1. /\ service = "onedrive" /\ r.pc = "writing" /\ Live(w)
      /\ UNCHANGED <<open, abort, Outside>>
      /\ \/ r.sent < r.len /\ wr' = [wr EXCEPT ![w].sent = @ + 1]
         \/ wr' = [wr EXCEPT ![w] = Settled(@, "failed")]
  BY DEF GraphWrite, Live
<1>2. CASE wr' = [wr EXCEPT ![w] = Settled(@, "failed")]
  BY <1>1, <1>2, EndStep
<1>3. CASE r.sent < r.len /\ wr' = [wr EXCEPT ![w].sent = @ + 1]
  <2>1. r \in Writer /\ Counts(r) /\ Fits(r) /\ GraphFits(r) /\ Traced(w, r)
    BY <1>1 DEF IInv, Typed, Fits
  <2>2. PICK q : q = [r EXCEPT !.sent = @ + 1]
    OBVIOUS
  <2>3. /\ q \in Writer /\ q.pc = r.pc /\ q.len = r.len /\ q.sent = r.sent + 1
        /\ q.cut = r.cut /\ q.op = r.op /\ q.ans = r.ans
    BY <2>1, <2>2 DEF Writer
  <2>4. r.op = "none" /\ r.ans = "none" /\ r.cut = 0
    BY <1>1, <2>1 DEF Fits, GraphFits
  <2>5. Counts(q) /\ LiveR(q) /\ GraphFits(q) /\ w \notin published
    BY <1>1, <1>3, <2>1, <2>3, <2>4 DEF Counts, LiveR, GraphFits, Traced, Writer
  <2>6. Goes(w, q)
    BY <1>1, <2>3, <2>4, <2>5, GraphGoes
  <2>7. OpenFits(q, open[w], abort[w])
    BY <1>1 DEF OpenFits
  <2> QED BY <1>1, <1>3, <2>2, <2>6, <2>7, PollStep
<1> QED BY <1>1, <1>2, <1>3

LEMMA GraphShutdownStep ==
  ASSUME IInv, NEW w \in Writers, GraphShutdown(w)
  PROVE  IInv' /\ Carries
<1> DEFINE r == wr[w]
<1>1. PICK op \in {"put", "session"} :
        /\ service = "onedrive" /\ r.pc = "writing" /\ Live(w) /\ r.sent = r.len
        /\ wr' = [wr EXCEPT ![w] = [Request(r, op) EXCEPT !.pc = "closing"]]
        /\ UNCHANGED <<open, abort, Outside>>
  BY DEF GraphShutdown, GraphFinalize, GraphPut, GraphSession, Live
<1>2. r \in Writer /\ Counts(r) /\ Fits(r) /\ GraphFits(r) /\ Traced(w, r)
  BY <1>1 DEF IInv, Typed, Fits
<1>3. PICK p : p = Request(r, op)
  OBVIOUS
<1>4. p \in Writer /\ p.len = r.len /\ p.sent = r.sent /\ p.cut = r.cut /\ p.op = op /\ p.ans = "none"
  BY <1>2, <1>3, RequestFacts
<1>5. PICK q : q = [p EXCEPT !.pc = "closing"]
  OBVIOUS
<1>6. /\ q \in Writer /\ q.pc = "closing" /\ q.len = r.len /\ q.sent = r.sent
      /\ q.cut = r.cut /\ q.op = op /\ q.ans = "none"
  BY <1>4, <1>5 DEF Writer
<1>7. Counts(q) /\ LiveR(q) /\ GraphFits(q)
  BY <1>1, <1>2, <1>6 DEF Counts, LiveR, GraphFits
<1>8. w \notin published
  BY <1>1, <1>2 DEF Traced, LiveR, GraphFits
<1>9. Goes(w, q)
  BY <1>1, <1>6, <1>7, <1>8, GraphGoes
<1>10. OpenFits(q, open[w], abort[w])
  BY <1>1 DEF OpenFits
<1> QED BY <1>1, <1>3, <1>5, <1>9, <1>10, PollStep

LEMMA GraphFragmentStep ==
  ASSUME IInv, NEW w \in Writers, GraphFragment(w)
  PROVE  IInv' /\ Carries
<1> DEFINE r == wr[w]
<1>1. /\ service = "onedrive" /\ Live(w)
      /\ \/ r.op = "session" /\ r.ans = "ok"
         \/ r.op = "fragment" /\ r.ans = "more" /\ r.cut < r.len
      /\ wr' = [wr EXCEPT ![w] = GraphNext(r)]
      /\ UNCHANGED <<open, abort, Outside>>
  BY DEF GraphFragment
<1>2. r \in Writer /\ Counts(r) /\ Fits(r) /\ GraphFits(r) /\ Traced(w, r)
  BY <1>1 DEF IInv, Typed, Fits
<1>3. PICK p : p = Request(r, "fragment")
  OBVIOUS
<1>4. /\ p \in Writer /\ p.pc = r.pc /\ p.len = r.len /\ p.sent = r.sent /\ p.cut = r.cut
      /\ p.op = "fragment" /\ p.ans = "none"
  BY <1>2, <1>3, RequestFacts
<1>5. PICK cut \in Nat : /\ cut = IF r.cut + Fragment < r.len THEN r.cut + Fragment ELSE r.len
                         /\ cut <= r.len
  BY <1>2, UploadAssumption DEF Writer
<1>6. PICK q : q = [p EXCEPT !.first = r.cut + 1, !.cut = cut]
  OBVIOUS
<1>7. q = GraphNext(r)
  BY <1>3, <1>5, <1>6 DEF GraphNext
<1>8. r.cut + 1 \in Nat
  BY <1>2 DEF Writer
<1>9. /\ q \in Writer /\ q.pc = r.pc /\ q.len = r.len /\ q.sent = r.sent
      /\ q.cut = cut /\ q.op = "fragment" /\ q.ans = "none"
  BY <1>4, <1>6, <1>8 DEF Writer
<1>10. r.pc = "closing" /\ r.sent = r.len
  BY <1>1, <1>2 DEF GraphFits, Fits, Live
<1>11. Counts(q) /\ LiveR(q) /\ GraphFits(q)
  <2>1. q.sent = q.len /\ q.pc = "closing" /\ r.sent \in Nat /\ r.len \in Nat
    BY <1>2, <1>9, <1>10 DEF Writer
  <2>2. Counts(q)
    BY <1>5, <1>9, <1>10, <2>1 DEF Counts
  <2>3. LiveR(q) /\ GraphFits(q)
    BY <1>9, <2>1 DEF LiveR, GraphFits
  <2> QED BY <2>2, <2>3
<1>12. w \notin published
  BY <1>1, <1>2 DEF Traced
<1>13. Goes(w, q)
  BY <1>1, <1>9, <1>10, <1>11, <1>12, GraphGoes
<1>14. OpenFits(q, open[w], abort[w])
  BY <1>1 DEF OpenFits
<1> QED BY <1>1, <1>7, <1>13, <1>14, PollStep

LEMMA GraphEndSteps ==
  ASSUME IInv, NEW w \in Writers, GraphDone(w) \/ GraphFail(w)
  PROVE  IInv' /\ Carries
<1> DEFINE r == wr[w]
<1>1. r \in Writer /\ Counts(r) /\ Fits(r) /\ Traced(w, r)
  BY DEF IInv, Typed
<1>2. CASE GraphDone(w)
  <2>1. /\ service = "onedrive" /\ Live(w) /\ wr' = [wr EXCEPT ![w] = Settled(@, "ok")]
        /\ UNCHANGED <<open, abort, Outside>>
        /\ \/ r.op \in {"put", "fragment"} /\ r.ans = "ok"
           \/ r.op = "fragment" /\ r.ans = "more" /\ r.cut = r.len
    BY <1>2 DEF GraphDone
  <2>2. r.op \in {"put", "fragment"} /\ r.ans = "ok"
    BY <1>1, <2>1 DEF Fits, Writer
  <2> QED BY <2>1, <2>2, EndStep
<1>3. CASE GraphFail(w)
  <2>1. /\ service = "onedrive" /\ Live(w)
        /\ wr' = [wr EXCEPT ![w] = IF r.op = "fragment" /\ r.ans = "refused"
                                   THEN Request(r, "cancel") ELSE Settled(r, "failed")]
        /\ UNCHANGED <<open, abort, Outside>>
    BY <1>3 DEF GraphFail
  <2>2. CASE ~(r.op = "fragment" /\ r.ans = "refused")
    <3>1. wr' = [wr EXCEPT ![w] = Settled(r, "failed")]
      BY <2>1, <2>2
    <3> QED BY <2>1, <3>1, EndStep
  <2>3. CASE r.op = "fragment" /\ r.ans = "refused"
    <3>1. PICK q : q = Request(r, "cancel")
      OBVIOUS
    <3>2. /\ q \in Writer /\ q.pc = r.pc /\ q.len = r.len /\ q.sent = r.sent /\ q.cut = r.cut
          /\ q.op = "cancel" /\ q.ans = "none"
      BY <1>1, <3>1, RequestFacts
    <3>3. GraphFits(r) /\ LiveR(r)
      BY <1>1, <2>1 DEF Fits, Live, LiveR
    <3>4. Counts(q) /\ LiveR(q) /\ GraphFits(q)
      BY <1>1, <2>3, <3>2, <3>3 DEF Counts, LiveR, GraphFits
    <3>5. w \notin published /\ q.sent = q.len
      BY <1>1, <2>3, <3>2, <3>3 DEF Traced, GraphFits
    <3>6. Goes(w, q)
      BY <2>1, <3>2, <3>4, <3>5, GraphGoes
    <3>7. OpenFits(q, open[w], abort[w])
      BY <2>1 DEF OpenFits
    <3> QED BY <2>1, <2>3, <3>1, <3>6, <3>7, PollStep
  <2> QED BY <2>2, <2>3
<1> QED BY <1>2, <1>3

LEMMA PollKeeps ==
  ASSUME IInv, NEW w \in Writers, Poll(w)
  PROVE  IInv' /\ Carries
BY S3WriteStep, S3FlushStep, S3ShutdownStep, AzWriteStep, AzFlushStep, AzShutdownStep,
   EndSteps, AzRecoverStep, GraphWriteStep, GraphShutdownStep, GraphFragmentStep, GraphEndSteps
   DEF Poll

----------------------------------------------------------------------------
(* A writer is made *)

LEMMA FreshFacts ==
  /\ Fresh \in Writer /\ Fresh.pc = "new" /\ Fresh.len = 0 /\ Fresh.sent = 0 /\ Fresh.cut = 0
  /\ Fresh.n = 0 /\ Fresh.listed = 0 /\ Fresh.op = "none" /\ Fresh.ans = "none"
BY DEF Fresh, Writer

LEMMA CreateStep ==
  ASSUME IInv, NEW w \in Writers, Create(w)
  PROVE  IInv'
<1>1. PICK pc \in {"writing", "failed"} :
        /\ Opened(w, pc)
        /\ \/ UNCHANGED <<open, abort>>
           \/ /\ service = "s3" /\ open' = [open EXCEPT ![w] = TRUE]
              /\ \/ pc = "writing" /\ UNCHANGED abort
                 \/ pc = "failed" /\ abort' = [abort EXCEPT ![w] = "lost"]
  BY DEF Create, S3Create, AzCreate, GraphCreate
<1>2. PICK len \in Lens : wr' = [wr EXCEPT ![w].pc = pc, ![w].len = len]
  BY <1>1 DEF Opened
<1>3. /\ wr[w].pc = "new"
      /\ clash' = (clash \/ \E v \in Writers : Active(v))
      /\ UNCHANGED <<service, before, object, staged, published>>
  BY <1>1 DEF Opened
<1>4. len \in Nat
  BY UploadAssumption
<1>5. wr[w] = Fresh
  BY <1>3 DEF IInv, Fits
<1>6. PICK r : r = [Fresh EXCEPT !.pc = pc, !.len = len]
  OBVIOUS
<1>7. wr' = [wr EXCEPT ![w] = r]
  BY <1>2, <1>5, <1>6 DEF IInv, Typed
<1>8. /\ r \in Writer /\ r.pc = pc /\ r.len = len /\ r.sent = 0 /\ r.cut = 0
      /\ r.n = 0 /\ r.listed = 0 /\ r.op = "none" /\ r.ans = "none"
  BY <1>4, <1>6, FreshFacts DEF Writer
<1>9. /\ wr' \in [Writers -> Writer] /\ wr'[w] = r
      /\ \A v \in Writers : v # w => wr'[v] = wr[v]
  BY <1>7, <1>8 DEF IInv, Typed
<1>10. ~clash' => ~clash /\ \A v \in Writers : ~ActiveR(wr[v])
  BY <1>3 DEF Active, ActiveR, Live, LiveR, InFlight
<1>11. /\ open' \in [Writers -> BOOLEAN] /\ abort' \in [Writers -> {"none", "pending", "done", "lost"}]
       /\ clash' \in BOOLEAN
       /\ \A v \in Writers : v # w => open'[v] = open[v] /\ abort'[v] = abort[v]
  BY <1>1, <1>3 DEF IInv, Typed
<1>12. Typed'
  <2>1. Counts(r)
    BY <1>4, <1>8 DEF Counts
  <2>2. \A v \in Writers : Counts(wr'[v])
    BY <1>9, <2>1 DEF IInv, Typed
  <2> QED BY <1>3, <1>9, <1>11, <2>2 DEF IInv, Typed, Counts
<1>13. (\A v \in Writers : Fits(wr[v]))'
  <2>1. Fits(r)
    BY <1>8 DEF Fits, S3Fits, AzFits, GraphFits, LiveR
  <2>2. \A v \in Writers : Fits(wr'[v])
    BY <1>9, <2>1 DEF IInv
  <2> QED BY <1>3, <2>2 DEF Fits, S3Fits, AzFits, GraphFits
<1>14. (\A v \in Writers : Held(v, wr[v]))'
  <2>1. \A k, last : k = 0 /\ last = 0 => Chain(w, staged[Slot(w)], k, last)
    BY UploadAssumption DEF Chain
  <2>2. HasParts(w, r, staged[Slot(w)])
    BY <1>8, <2>1 DEF HasParts
  <2>3. \A v \in Writers : v # w => (Stays(v)' => Stays(v))
    BY <1>3, <1>10, <1>11 DEF Stays
  <2>4. \A v \in Writers : Slot(v)' = Slot(v)
    BY <1>3 DEF Slot
  <2> QED BY <1>3, <1>9, <2>2, <2>3, <2>4 DEF IInv, Held
<1>15. OneAtATime'
  BY <1>9, <1>10 DEF OneAtATime
<1>16. w \notin published
  BY <1>3 DEF IInv, Traced, LiveR
<1>17. (\A v \in Writers : Traced(v, wr[v]))'
  <2>1. Mixing => Mixing'
    BY <1>3 DEF Mixing
  <2>2. Traced(w, r)
    BY <1>8, <1>16 DEF Traced
  <2>3. \A v \in Writers : Traced(v, wr'[v])
    BY <1>9, <2>2 DEF IInv
  <2> QED BY <1>3, <2>1, <2>3 DEF Traced
<1>18. Authors'
  <2>1. \A v \in Writers : wr[v].pc # "new" => wr'[v].pc # "new"
    BY <1>3, <1>9
  <2> QED BY <1>3, <2>1 DEF IInv, Authors
<1>19. (Mixing \/ ObjectFits)'
  <2>1. Mixing => Mixing'
    BY <1>3 DEF Mixing
  <2>2. ObjectFits => ObjectFits'
    <3>1. \A v \in published : v \in Writers /\ wr'[v].len = wr[v].len
      BY <1>9, <1>16 DEF IInv, Typed
    <3> QED BY <1>3, <3>1 DEF ObjectFits, Untouched, Whole
  <2> QED BY <2>1, <2>2 DEF IInv
<1>20. (\A v \in Writers : DeleteFits(wr[v]))'
  <2>1. DeleteFits(r)
    BY <1>8 DEF DeleteFits
  <2>2. \A v \in Writers : DeleteFits(wr'[v])
    BY <1>9, <2>1 DEF IInv
  <2>3. ~clash' => ~clash
    BY <1>10
  <2>4. Untouched' <=> Untouched
    BY <1>3 DEF Untouched
  <2> QED BY <1>3, <2>2, <2>3, <2>4 DEF DeleteFits
<1>21. (\A v \in Writers : OpenFits(wr[v], open[v], abort[v]))'
  <2>1. OpenFits(wr[w], open[w], abort[w])
    BY DEF IInv
  <2>2. service = "s3" => ~open[w]
    BY <1>3, <2>1 DEF OpenFits
  <2>3. service = "s3" /\ open'[w] => LiveR(r) \/ abort'[w] = "lost"
    BY <1>1, <1>8, <2>2 DEF IInv, Typed, LiveR
  <2>4. OpenFits(r, open'[w], abort'[w])
    BY <1>8, <2>3 DEF OpenFits
  <2>5. \A v \in Writers : OpenFits(wr'[v], open'[v], abort'[v])
    BY <1>9, <1>11, <2>4 DEF IInv
  <2> QED BY <1>3, <2>5 DEF OpenFits
<1> QED BY <1>12, <1>13, <1>14, <1>15, <1>17, <1>18, <1>19, <1>20, <1>21 DEF IInv

----------------------------------------------------------------------------
(* The store serves a request *)

LEMMA NoPartsFacts ==
  /\ NoParts \in [1 .. MaxParts -> Parts]
  /\ \A i \in 1 .. MaxParts : NoParts[i] = NoPart
  /\ NoPart.by = Nobody
BY DEF NoParts, NoPart, Part, Parts

LEMMA S3AbortStep ==
  ASSUME IInv, NEW w \in Writers, S3Abort(w)
  PROVE  IInv'
<1>1. /\ UNCHANGED <<service, before, object, wr, published, clash>>
      /\ abort[w] = "pending"
      /\ \/ /\ abort' = [abort EXCEPT ![w] = "done"]
            /\ open' = [open EXCEPT ![w] = FALSE]
            /\ staged' = [staged EXCEPT ![w] = NoParts]
         \/ /\ abort' = [abort EXCEPT ![w] = "lost"]
            /\ UNCHANGED <<open, staged>>
  BY DEF S3Abort
<1>2. w \in Slots /\ w # Nobody
  BY UploadAssumption DEF Slots
<1>3. /\ staged' \in [Slots -> [1 .. MaxParts -> Parts]]
      /\ \A s \in Slots : s # w => staged'[s] = staged[s]
      /\ staged'[w] = staged[w] \/ (staged'[w] = NoParts /\ ~open'[w])
  <2>1. staged \in [Slots -> [1 .. MaxParts -> Parts]]
    BY DEF IInv, Typed
  <2>2. CASE UNCHANGED staged
    BY <2>1, <2>2
  <2>3. CASE staged' = [staged EXCEPT ![w] = NoParts] /\ open' = [open EXCEPT ![w] = FALSE]
    <3>1. ~open'[w]
      BY <2>3 DEF IInv, Typed
    <3> QED BY <1>2, <2>1, <2>3, <3>1, NoPartsFacts
  <2> QED BY <1>1, <2>2, <2>3
<1>4. /\ open' \in [Writers -> BOOLEAN] /\ abort' \in [Writers -> {"none", "pending", "done", "lost"}]
      /\ \A v \in Writers : v # w => open'[v] = open[v] /\ abort'[v] = abort[v]
      /\ open'[w] => open[w] /\ abort'[w] = "lost"
  BY <1>1 DEF IInv, Typed
<1>5. Typed'
  BY <1>1, <1>3, <1>4 DEF IInv, Typed
<1>6. (\A v \in Writers : Fits(wr[v]))'
  BY <1>1 DEF IInv, Fits, S3Fits, AzFits, GraphFits
<1>7. (\A v \in Writers : Held(v, wr[v]))'
  <2>1. ASSUME NEW v \in Writers, Stays(v)'
        PROVE  Stays(v) /\ Slot(v)' = Slot(v) /\ staged'[Slot(v)] = staged[Slot(v)]
    <3>1. Slot(v)' = Slot(v) /\ Slot(v) \in Slots
      BY <1>1 DEF Slot, Slots
    <3>2. CASE service = "s3"
      <4>1. Slot(v) = v /\ open'[v]
        BY <1>1, <2>1, <3>2 DEF Slot, Stays
      <4> QED BY <1>3, <1>4, <3>1, <3>2, <4>1 DEF Stays
    <3>3. CASE service # "s3"
      <4>1. service = "azure" /\ ~clash
        BY <1>1, <2>1, <3>3 DEF Stays
      <4>2. Slot(v) = Nobody
        BY <4>1 DEF Slot
      <4> QED BY <1>2, <1>3, <3>1, <3>3, <4>1, <4>2 DEF Stays
    <3> QED BY <3>2, <3>3
  <2> QED BY <1>1, <2>1 DEF IInv, Held
<1>8. OneAtATime' /\ (\A v \in Writers : Traced(v, wr[v]))'
  BY <1>1 DEF IInv, OneAtATime, Traced, Mixing
<1>9. Authors'
  <2>1. ASSUME NEW s \in Slots, NEW i \in 1 .. MaxParts, NEW v \in Writers, staged'[s][i].by = v
        PROVE  wr[v].pc # "new"
    <3>1. v # Nobody
      BY UploadAssumption
    <3>2. staged'[s] = staged[s]
      BY <1>3, <2>1, <3>1, NoPartsFacts
    <3> QED BY <2>1, <3>2 DEF IInv, Authors
  <2> QED BY <1>1, <2>1 DEF IInv, Authors
<1>10. (Mixing \/ ObjectFits)'
  BY <1>1 DEF IInv, ObjectFits, Untouched, Mixing, Whole
<1>11. (\A v \in Writers : DeleteFits(wr[v]))'
  BY <1>1 DEF IInv, DeleteFits, Untouched
<1>12. (\A v \in Writers : OpenFits(wr[v], open[v], abort[v]))'
  <2>1. \A v \in Writers : OpenFits(wr[v], open'[v], abort'[v])
    BY <1>4 DEF IInv, OpenFits
  <2> QED BY <1>1, <2>1 DEF OpenFits
<1> QED BY <1>5, <1>6, <1>7, <1>8, <1>9, <1>10, <1>11, <1>12 DEF IInv

\* What becomes of a writer whose request is answered a, or whose answer is lost: it
\* learns of it, or has been dropped and is done with its last request.
Told(w, r, a) ==
  /\ Counts(r) /\ Fits(r)
  /\ r.pc = wr[w].pc /\ r.len = wr[w].len /\ r.sent = wr[w].sent /\ r.first = wr[w].first
  /\ r.cut = wr[w].cut /\ r.n = wr[w].n /\ r.listed = wr[w].listed
  /\ \/ LiveR(r) /\ r.op = wr[w].op /\ r.ans \in {a, "lost"}
     \/ r.pc = "gone" /\ ~ActiveR(r) /\ r.op = "none"

LEMMA Telling ==
  ASSUME IInv, NEW w \in Writers, InFlight(w),
         NEW a \in {"ok", "more", "wrongtype", "refused"}, Answered(w, a),
         a = "more" => wr[w].op = "fragment" /\ wr[w].cut < wr[w].len
  PROVE  /\ \E r : Told(w, r, a) /\ wr' = [wr EXCEPT ![w] = r]
         /\ w \notin published /\ ActiveR(wr[w]) /\ wr[w].pc # "new"
<1> DEFINE b == wr[w]
<1>1. b \in Writer /\ Counts(b) /\ Fits(b) /\ Traced(w, b) /\ b.op # "none" /\ b.ans = "none"
  BY DEF IInv, Typed, InFlight
<1>2. w \notin published /\ ActiveR(b) /\ b.pc # "new"
  BY <1>1, FreshFacts DEF Traced, ActiveR, Fits
<1>3. PICK c \in {a, "lost"} : Answer(w, c)
  BY DEF Answered
<1>4. CASE LiveR(b)
  <2>1. PICK r : r = [b EXCEPT !.ans = c]
    OBVIOUS
  <2>2. wr' = [wr EXCEPT ![w] = r]
    BY <1>3, <1>4, <2>1 DEF Answer, Live, LiveR
  <2>3. /\ r \in Writer /\ r.pc = b.pc /\ r.len = b.len /\ r.sent = b.sent /\ r.first = b.first
        /\ r.cut = b.cut /\ r.n = b.n /\ r.listed = b.listed /\ r.op = b.op /\ r.ans = c
    BY <1>1, <2>1 DEF Writer
  <2>4. Counts(r) /\ LiveR(r)
    BY <1>1, <1>4, <2>3 DEF Counts, LiveR
  <2>5. Fits(r)
    BY <1>1, <1>2, <1>4, <2>3, <2>4 DEF Fits, S3Fits, AzFits, GraphFits
  <2> QED BY <1>2, <2>2, <2>3, <2>4, <2>5 DEF Told
<1>5. CASE ~LiveR(b)
  <2>1. PICK r : r = Settled(b, b.pc)
    OBVIOUS
  <2>2. wr' = [wr EXCEPT ![w] = r]
    BY <1>3, <1>5, <2>1 DEF Answer, Live, LiveR
  <2>3. /\ r \in Writer /\ r.pc = b.pc /\ r.len = b.len /\ r.sent = b.sent /\ r.first = b.first
        /\ r.cut = b.cut /\ r.n = b.n /\ r.listed = b.listed /\ r.op = "none" /\ r.ans = "none"
    BY <1>1, <2>1 DEF Settled, Writer
  <2>4. b.pc = "gone"
    BY <1>1, <1>2, <1>5 DEF Fits, LiveR, Writer
  <2>5. Counts(r) /\ ~LiveR(r) /\ ~ActiveR(r)
    BY <1>1, <1>5, <2>3 DEF Counts, LiveR, ActiveR
  <2>6. Fits(r)
    BY <1>1, <2>3, <2>4, <2>5 DEF Fits, S3Fits, AzFits, GraphFits
  <2> QED BY <1>2, <2>2, <2>3, <2>4, <2>5, <2>6 DEF Told
<1> QED BY <1>4, <1>5

\* A step of the store for w: what the invariant says of the others, it goes on saying.
LEMMA StoreStep ==
  ASSUME IInv, NEW w \in Writers, NEW r, NEW a, Told(w, r, a), ActiveR(wr[w]), wr[w].pc # "new",
         wr' = [wr EXCEPT ![w] = r],
         UNCHANGED <<service, before, abort, clash>>,
         object' \in ObjectT,
         staged' \in [Slots -> [1 .. MaxParts -> Parts]],
         \A s \in Slots : s # Slot(w) => staged'[s] = staged[s],
         open' \in [Writers -> BOOLEAN],
         \A v \in Writers : v # w => open'[v] = open[v],
         published' \in {published, published \cup {w}},
         (Held(w, wr[w]))', (Traced(w, wr[w]))', Authors', (Mixing \/ ObjectFits)',
         (DeleteFits(wr[w]))', (OpenFits(wr[w], open[w], abort[w]))'
  PROVE  IInv'
<1>1. /\ wr' \in [Writers -> Writer] /\ wr'[w] = r
      /\ \A v \in Writers : v # w => wr'[v] = wr[v]
  BY DEF IInv, Typed, Told, Counts
<1>2. Typed'
  <2>1. \A v \in Writers : Counts(wr'[v])
    BY <1>1 DEF IInv, Typed, Told
  <2>2. published' \subseteq Writers
    BY DEF IInv, Typed
  <2> QED BY <1>1, <2>1, <2>2 DEF IInv, Typed, Counts
<1>3. (\A v \in Writers : Fits(wr[v]))'
  <2>1. \A v \in Writers : Fits(wr'[v])
    BY <1>1 DEF IInv, Told
  <2> QED BY <2>1 DEF Fits, S3Fits, AzFits, GraphFits
<1>4. \A v \in Writers : v # w /\ ~clash => ~ActiveR(wr[v])
  BY DEF IInv, OneAtATime
<1>5. (\A v \in Writers : Held(v, wr[v]))'
  <2> SUFFICES ASSUME NEW v \in Writers, v # w
               PROVE  (Held(v, wr[v]))'
    OBVIOUS
  <2>1. CASE service = "s3"
    <3>1. Slot(v) = v /\ Slot(v)' = v /\ Slot(w) = w /\ v \in Slots
      BY <2>1 DEF Slot, Slots
    <3>2. staged'[v] = staged[v] /\ open'[v] = open[v]
      BY <3>1
    <3> QED BY <1>1, <2>1, <3>1, <3>2 DEF IInv, Held, Stays
  <2>2. CASE service # "s3"
    BY <1>1, <1>4, <2>2 DEF Held, Stays
  <2> QED BY <2>1, <2>2
<1>6. OneAtATime'
  BY <1>1, <1>4 DEF OneAtATime
<1>7. (\A v \in Writers : Traced(v, wr[v]))'
  <2> SUFFICES ASSUME NEW v \in Writers, v # w
               PROVE  (Traced(v, wr[v]))'
    OBVIOUS
  <2>1. v \in published' <=> v \in published
    OBVIOUS
  <2> QED BY <1>1, <2>1 DEF IInv, Traced, Mixing
<1>8. (\A v \in Writers : DeleteFits(wr[v]))'
  <2> SUFFICES ASSUME NEW v \in Writers, v # w
               PROVE  (DeleteFits(wr[v]))'
    OBVIOUS
  <2>1. CASE clash
    BY <1>1, <2>1 DEF IInv, DeleteFits
  <2>2. CASE ~clash
    BY <1>1, <1>4, <2>2 DEF DeleteFits, ActiveR
  <2> QED BY <2>1, <2>2
<1>9. (\A v \in Writers : OpenFits(wr[v], open[v], abort[v]))'
  <2> SUFFICES ASSUME NEW v \in Writers, v # w
               PROVE  (OpenFits(wr[v], open[v], abort[v]))'
    OBVIOUS
  <2>1. open'[v] = open[v]
    OBVIOUS
  <2> QED BY <1>1, <2>1 DEF IInv, OpenFits
<1> QED BY <1>2, <1>3, <1>5, <1>6, <1>7, <1>8, <1>9 DEF IInv

\* What is the same when the object is: it has the same bytes for every writer.
LEMMA ObjectStays ==
  ASSUME IInv, NEW w \in Writers, NEW r, NEW a, Told(w, r, a), wr' = [wr EXCEPT ![w] = r],
         UNCHANGED <<service, before, object, published, clash>>
  PROVE  (Mixing \/ ObjectFits)'
<1>1. \A v \in Writers : wr'[v].len = wr[v].len
  BY DEF IInv, Typed, Told
<1>2. \A v \in published : v \in Writers
  BY DEF IInv, Typed
<1> QED BY <1>1, <1>2 DEF IInv, ObjectFits, Untouched, Mixing, Whole

\* Requests that change nothing: w may be told anything then.
LEMMA QuietGoes ==
  ASSUME IInv, NEW w \in Writers, NEW r, NEW a \in {"refused", "wrongtype"}, Told(w, r, a),
         wr[w].ans = "none", wr[w].op # "none", w \notin published,
         a = "wrongtype" => wr[w].op \in {"part", "restage"} /\ service = "azure" /\ object.type = "append"
  PROVE  Goes(w, r) /\ OpenFits(r, open[w], abort[w])
<1>1. Held(w, wr[w]) /\ Traced(w, wr[w]) /\ OpenFits(wr[w], open[w], abort[w]) /\ ActiveR(wr[w])
  BY DEF IInv, ActiveR
<1>2. Held(w, r)
  BY <1>1 DEF Told, Held, HasParts, LiveR, ActiveR
<1>3. Traced(w, r)
  BY DEF Told, Traced, LiveR
<1>4. DeleteFits(r)
  <2>1. ASSUME LiveR(r), r.op = "part", r.ans = "wrongtype"
        PROVE  service = "azure" /\ (~clash => Untouched /\ before.type = "append")
    <3>1. service = "azure" /\ object.type = "append"
      BY <2>1 DEF Told
    <3>2. ~clash => ObjectFits
      BY DEF IInv, Mixing
    <3>3. ~clash => Untouched
      BY <3>1, <3>2 DEF ObjectFits, Absent
    <3> QED BY <3>1, <3>3 DEF Untouched
  <2>2. ~(r.op = "delete" /\ r.ans = "none")
    BY DEF Told, Fits
  <2> QED BY <2>1, <2>2 DEF DeleteFits
<1>5. OpenFits(r, open[w], abort[w])
  BY <1>1 DEF Told, OpenFits, LiveR
<1>6. (r.pc = "new") <=> (wr[w].pc = "new")
  BY DEF Told
<1> QED BY <1>1, <1>2, <1>3, <1>4, <1>5, <1>6 DEF Goes, Told

LEMMA RefuseStep ==
  ASSUME IInv, NEW w \in Writers, Refuse(w) \/ WrongType(w),
         UNCHANGED <<service, before, abort, clash>>
  PROVE  IInv'
<1>1. PICK a \in {"refused", "wrongtype"} :
        /\ InFlight(w) /\ Answered(w, a)
        /\ a = "wrongtype" => wr[w].op \in {"part", "restage"} /\ service = "azure" /\ object.type = "append"
        /\ UNCHANGED <<object, staged, open, published>>
  BY DEF Refuse, WrongType
<1>2. PICK r : Told(w, r, a) /\ wr' = [wr EXCEPT ![w] = r]
  BY <1>1, Telling
<1>3. w \notin published
  BY <1>1, Telling
<1>4. Goes(w, r) /\ OpenFits(r, open[w], abort[w])
  BY <1>1, <1>2, <1>3, QuietGoes DEF InFlight
<1> QED BY <1>1, <1>2, <1>4, PollStep DEF Outside

\* Nobody who has not begun comes into the store.
LEMMA AuthorsStay ==
  ASSUME IInv, NEW w \in Writers, NEW r, NEW a, Told(w, r, a), wr[w].pc # "new",
         wr' = [wr EXCEPT ![w] = r],
         \A i \in DOMAIN object'.parts : \A v \in Writers :
           object'.parts[i].by = v => v = w \/ wr[v].pc # "new",
         \A s \in Slots, i \in 1 .. MaxParts :
           staged'[s][i] = staged[s][i] \/ staged'[s][i].by \in {w, Nobody}
  PROVE  Authors'
<1>1. \A v \in Writers : wr'[v].pc = wr[v].pc /\ v # Nobody
  BY UploadAssumption DEF IInv, Typed, Told
<1> QED BY <1>1 DEF IInv, Authors

LEMMA PartFacts ==
  ASSUME NEW v \in Writers \cup {Nobody}, NEW first \in Nat, NEW last \in Nat
  PROVE  /\ Part(v, first, last) \in Parts /\ Part(v, first, last).by = v
         /\ Part(v, first, last).first = first /\ Part(v, first, last).last = last
BY DEF Part, Parts

LEMMA StorePartStep ==
  ASSUME IInv, NEW w \in Writers, StorePart(w), UNCHANGED <<service, before, abort, clash>>
  PROVE  IInv'
<1> DEFINE b == wr[w]
<1>1. /\ InFlight(w) /\ b.op \in {"part", "restage"} /\ b.n <= MaxParts /\ b.ans = "none"
      /\ service # "azure" => open[w]
      /\ staged' = [staged EXCEPT ![Slot(w)][b.n] = Part(w, b.first, b.cut)]
      /\ Answered(w, "ok")
      /\ UNCHANGED <<object, open, published>>
  BY DEF StorePart, InFlight
<1>2. PICK r : Told(w, r, "ok") /\ wr' = [wr EXCEPT ![w] = r]
  BY <1>1, Telling
<1>3. w \notin published /\ ActiveR(b) /\ b.pc # "new"
  BY <1>1, Telling
<1>4. b \in Writer /\ Fits(b) /\ Held(w, b) /\ OpenFits(b, open[w], abort[w]) /\ service # "onedrive"
  BY <1>1 DEF IInv, Typed, Fits, GraphFits
<1>5. b.n \in 1 .. MaxParts /\ b.listed \in Nat
  <2>1. b.n >= 1
    BY <1>1, <1>4 DEF Fits, S3Fits, AzFits, IInv, Typed, Writer
  <2> QED BY <1>1, <1>4, <2>1, UploadAssumption DEF Writer
<1>6. PICK p : p = Part(w, b.first, b.cut)
  OBVIOUS
<1>7. p \in Parts /\ p.by = w
  BY <1>4, <1>6, PartFacts DEF Writer
<1>8. Slot(w) \in Slots /\ Slot(w)' = Slot(w)
  BY DEF Slot, Slots
<1>9. /\ staged \in [Slots -> [1 .. MaxParts -> Parts]]
      /\ staged' = [staged EXCEPT ![Slot(w)] = [staged[Slot(w)] EXCEPT ![b.n] = p]]
  BY <1>1, <1>6 DEF IInv, Typed
<1>10. /\ staged' \in [Slots -> [1 .. MaxParts -> Parts]]
       /\ \A s \in Slots : s # Slot(w) => staged'[s] = staged[s]
       /\ \A i \in 1 .. MaxParts : i # b.n => staged'[Slot(w)][i] = staged[Slot(w)][i]
       /\ staged'[Slot(w)][b.n] = p
  BY <1>5, <1>7, <1>8, <1>9
<1>11. Authors'
  <2>1. \A s \in Slots, i \in 1 .. MaxParts :
          staged'[s][i] = staged[s][i] \/ staged'[s][i].by \in {w, Nobody}
    BY <1>7, <1>10
  <2>2. \A i \in DOMAIN object'.parts : \A v \in Writers :
          object'.parts[i].by = v => v = w \/ wr[v].pc # "new"
    BY <1>1 DEF IInv, Authors
  <2> QED BY <1>2, <1>3, <2>1, <2>2, AuthorsStay
<1>12. wr'[w] = r
  BY <1>2 DEF IInv, Typed
<1>13. LiveR(r) => r.op = b.op /\ r.ans \in {"ok", "lost"} /\ r.n = b.n
                   /\ r.first = b.first /\ r.cut = b.cut
  BY <1>2 DEF Told, LiveR
<1>14. ~LiveR(r) => ~ActiveR(r) /\ r.op = "none"
  BY <1>2 DEF Told
<1>15. (Held(w, wr[w]))'
  <2> SUFFICES ASSUME Stays(w)', ActiveR(r)
               PROVE  HasParts(w, r, staged'[Slot(w)])
    BY <1>8, <1>12 DEF Held
  <2>1. LiveR(r)
    BY <1>14
  <2>2. Stays(w)
    BY <1>1 DEF Stays
  <2>3. PICK ps : ps = staged[Slot(w)]
    OBVIOUS
  <2>4. PICK qs : qs = staged'[Slot(w)]
    OBVIOUS
  <2>5. b.n >= 1 /\ b.first >= 1 /\ Chain(w, ps, b.n - 1, b.first - 1)
    BY <1>1, <1>3, <1>4, <2>2, <2>3 DEF Held, HasParts
  <2>6. \A i \in 1 .. b.n - 1 : qs[i] = ps[i]
    <3>1. \A i \in 1 .. b.n - 1 : i \in 1 .. MaxParts /\ i # b.n
      BY <1>5, UploadAssumption
    <3> QED BY <1>10, <2>3, <2>4, <3>1
  <2>7. Chain(w, qs, b.n - 1, b.first - 1)
    <3>1. b.n - 1 \in Nat /\ b.n - 1 <= MaxParts
      BY <1>5, UploadAssumption
    <3> HIDE DEF b
    <3> QED BY <2>5, <2>6, <3>1, ChainSame
  <2>8. qs[b.n] = Part(w, b.first, b.cut)
    BY <1>6, <1>10, <2>4
  <2>9. HasParts(w, r, qs)
    BY <1>1, <1>13, <2>1, <2>5, <2>7, <2>8 DEF HasParts
  <2> QED BY <2>4, <2>9
<1>16. (Traced(w, wr[w]))'
  BY <1>1, <1>3, <1>12, <1>13, <1>14, <1>2 DEF Traced, Told, LiveR
<1>17. (Mixing \/ ObjectFits)'
  BY <1>1, <1>2, ObjectStays
<1>18. (DeleteFits(wr[w]))'
  BY <1>1, <1>12, <1>13, <1>14 DEF DeleteFits
<1>19. (OpenFits(wr[w], open[w], abort[w]))'
  BY <1>1, <1>2, <1>4, <1>12, <1>13, <1>14 DEF OpenFits, Told, LiveR
<1>20. open' \in [Writers -> BOOLEAN] /\ object' \in ObjectT /\ \A v \in Writers : open'[v] = open[v]
  BY <1>1 DEF IInv, Typed
<1> QED BY <1>1, <1>2, <1>3, <1>10, <1>11, <1>15, <1>16, <1>17, <1>18, <1>19, <1>20, StoreStep

LEMMA DeleteStep ==
  ASSUME IInv, NEW w \in Writers, DeleteBlob(w), UNCHANGED <<service, before, abort, clash>>
  PROVE  IInv'
<1> DEFINE b == wr[w]
<1>1. /\ InFlight(w) /\ b.op = "delete" /\ b.ans = "none"
      /\ object' = Absent
      /\ Answered(w, "ok")
      /\ UNCHANGED <<staged, open, published>>
  BY DEF DeleteBlob, InFlight
<1>2. PICK r : Told(w, r, "ok") /\ wr' = [wr EXCEPT ![w] = r]
  BY <1>1, Telling
<1>3. w \notin published /\ ActiveR(b) /\ b.pc # "new"
  BY <1>1, Telling
<1>4. service = "azure" /\ (~clash => Untouched /\ before.type = "append") /\ Held(w, b)
  BY <1>1 DEF IInv, DeleteFits
<1>5. wr'[w] = r
  BY <1>2 DEF IInv, Typed
<1>6. LiveR(r) => r.op = b.op /\ r.ans \in {"ok", "lost"} /\ r.n = b.n
                   /\ r.first = b.first /\ r.cut = b.cut
  BY <1>2 DEF Told, LiveR
<1>7. ~LiveR(r) => ~ActiveR(r) /\ r.op = "none"
  BY <1>2 DEF Told
<1>8. DOMAIN Absent.parts = {} /\ Absent \in ObjectT
  BY DEF Absent, ObjectT
<1>9. Authors'
  <2>1. \A i \in DOMAIN object'.parts : \A v \in Writers :
          object'.parts[i].by = v => v = w \/ wr[v].pc # "new"
    BY <1>1, <1>8
  <2> QED BY <1>1, <1>2, <1>3, <2>1, AuthorsStay
<1>10. (Held(w, wr[w]))'
  <2>1. Stays(w)' => Stays(w)
    BY <1>1 DEF Stays
  <2>2. Slot(w)' = Slot(w)
    BY DEF Slot
  <2>3. ActiveR(r) /\ Stays(w) => HasParts(w, r, staged[Slot(w)])
    BY <1>1, <1>3, <1>4, <1>6, <1>7 DEF Held, HasParts
  <2> QED BY <1>1, <1>5, <2>1, <2>2, <2>3 DEF Held
<1>11. (Traced(w, wr[w]))'
  BY <1>1, <1>2, <1>3, <1>5, <1>6, <1>7 DEF Traced, Told, LiveR
<1>12. (Mixing \/ ObjectFits)'
  BY <1>1, <1>4 DEF Mixing, ObjectFits, Untouched
<1>13. (DeleteFits(wr[w]))'
  BY <1>1, <1>5, <1>6, <1>7 DEF DeleteFits
<1>14. (OpenFits(wr[w], open[w], abort[w]))'
  BY <1>4 DEF OpenFits
<1>15. /\ open' \in [Writers -> BOOLEAN] /\ \A v \in Writers : open'[v] = open[v]
       /\ staged' \in [Slots -> [1 .. MaxParts -> Parts]] /\ \A s \in Slots : staged'[s] = staged[s]
       /\ object' \in ObjectT
  BY <1>1, <1>8 DEF IInv, Typed
<1> QED BY <1>1, <1>2, <1>3, <1>9, <1>10, <1>11, <1>12, <1>13, <1>14, <1>15, StoreStep

\* OneDrive's sessions take bytes and are forgotten, the object being left alone.
LEMMA SessionStep ==
  ASSUME IInv, NEW w \in Writers, UNCHANGED <<service, before, abort, clash>>,
         StartSession(w) \/ CancelSession(w) \/ (AddFragment(w) /\ wr[w].cut < wr[w].len)
  PROVE  IInv'
<1> DEFINE b == wr[w]
<1>0. service = "onedrive" /\ Slot(w) = w /\ w \in Slots /\ w # Nobody
  <2>1. b.op \in {"session", "cancel", "fragment"}
    BY DEF StartSession, CancelSession, AddFragment
  <2>2. service = "onedrive"
    BY <2>1 DEF IInv, Typed, Fits, S3Fits, AzFits
  <2> QED BY <2>2, UploadAssumption DEF Slot, Slots
<1>1. PICK a \in {"ok", "more"} :
        /\ InFlight(w) /\ Answered(w, a) /\ b.op \in {"session", "cancel", "fragment"}
        /\ a = "more" => b.op = "fragment" /\ b.cut < b.len
        /\ a = "ok" => b.op \in {"session", "cancel"}
        /\ UNCHANGED <<object, published>>
  BY DEF StartSession, CancelSession, AddFragment
<1>2. PICK r : Told(w, r, a) /\ wr' = [wr EXCEPT ![w] = r]
  BY <1>1, Telling
<1>3. w \notin published /\ ActiveR(b) /\ b.pc # "new"
  BY <1>1, Telling
<1>4. b \in Writer /\ staged \in [Slots -> [1 .. MaxParts -> Parts]] /\ open \in [Writers -> BOOLEAN]
  BY DEF IInv, Typed
<1>5. /\ open' \in [Writers -> BOOLEAN] /\ \A v \in Writers : v # w => open'[v] = open[v]
  BY <1>4 DEF StartSession, CancelSession, AddFragment
<1>6. /\ staged' \in [Slots -> [1 .. MaxParts -> Parts]]
      /\ \A s \in Slots : s # w => staged'[s] = staged[s]
      /\ \A s \in Slots, i \in 1 .. MaxParts :
           staged'[s][i] = staged[s][i] \/ staged'[s][i].by \in {w, Nobody}
  <2>1. CASE StartSession(w)
    BY <1>4, <2>1 DEF StartSession
  <2>2. CASE CancelSession(w)
    BY <1>0, <1>4, <2>2, NoPartsFacts DEF CancelSession
  <2>3. CASE AddFragment(w) /\ b.cut < b.len
    <3>1. PICK p : p = Part(w, 1, b.cut)
      OBVIOUS
    <3>2. p \in Parts /\ p.by = w
      BY <1>4, <3>1, PartFacts DEF Writer
    <3>3. staged' = [staged EXCEPT ![w] = [staged[w] EXCEPT ![1] = p]]
      BY <1>0, <1>4, <2>3, <3>1 DEF AddFragment
    <3> QED BY <1>0, <1>4, <3>2, <3>3
  <2> QED BY <2>1, <2>2, <2>3
<1>7. wr'[w] = r
  BY <1>2 DEF IInv, Typed
<1>8. LiveR(r) => r.op = b.op /\ r.ans \in {a, "lost"}
  BY <1>2 DEF Told, LiveR
<1>9. ~LiveR(r) => ~ActiveR(r) /\ r.op = "none"
  BY <1>2 DEF Told
<1>10. Authors'
  <2>1. \A i \in DOMAIN object'.parts : \A v \in Writers :
          object'.parts[i].by = v => v = w \/ wr[v].pc # "new"
    BY <1>1 DEF IInv, Authors
  <2> QED BY <1>2, <1>3, <1>6, <2>1, AuthorsStay
<1>11. (Held(w, wr[w]))'
  BY <1>0 DEF Held, Stays
<1>12. (Traced(w, wr[w]))'
  BY <1>1, <1>2, <1>3, <1>7, <1>8, <1>9 DEF Traced, Told, LiveR
<1>13. (Mixing \/ ObjectFits)'
  BY <1>1, <1>2, ObjectStays
<1>14. (DeleteFits(wr[w]))'
  BY <1>1, <1>7, <1>8, <1>9 DEF DeleteFits
<1>15. (OpenFits(wr[w], open[w], abort[w]))'
  BY <1>0 DEF OpenFits
<1>16. object' \in ObjectT
  BY <1>1 DEF IInv, Typed
<1> QED BY <1>0, <1>1, <1>2, <1>3, <1>5, <1>6, <1>10, <1>11, <1>12, <1>13, <1>14, <1>15, <1>16, StoreStep

\* The one step that makes an object: all of w's bytes, unless uploads mixed.
LEMMA PublishStep ==
  ASSUME IInv, NEW w \in Writers, InFlight(w), Answered(w, "ok"),
         wr[w].op \in {"complete", "put", "fragment"},
         NEW ps \in Seq(Parts), Replace(w, ps), Mixing \/ Whole(w, ps),
         \A i \in DOMAIN ps : \A v \in Writers : ps[i].by = v => v = w \/ wr[v].pc # "new",
         staged' \in [Slots -> [1 .. MaxParts -> Parts]],
         \A s \in Slots : s # Slot(w) => staged'[s] = staged[s],
         \A s \in Slots, i \in 1 .. MaxParts :
           staged'[s][i] = staged[s][i] \/ staged'[s][i].by \in {w, Nobody},
         open' \in [Writers -> BOOLEAN],
         \A v \in Writers : v # w => open'[v] = open[v],
         service = "s3" => ~open'[w],
         wr[w].op = "complete" \/ service = "onedrive",
         UNCHANGED <<service, before, abort, clash>>
  PROVE  IInv'
<1> DEFINE b == wr[w]
<1>1. PICK r : Told(w, r, "ok") /\ wr' = [wr EXCEPT ![w] = r]
  BY Telling
<1>2. w \notin published /\ ActiveR(b) /\ b.pc # "new"
  BY Telling
<1>3. /\ object' = [type |-> "block", parts |-> ps]
      /\ published' = IF Whole(w, ps) THEN published \cup {w} ELSE published
  BY DEF Replace
<1>4. object' \in ObjectT /\ published' \in {published, published \cup {w}}
  BY <1>3 DEF ObjectT
<1>5. wr'[w] = r /\ r.len = wr[w].len
  BY <1>1 DEF IInv, Typed, Told
<1>6. LiveR(r) => r.op = b.op /\ r.ans \in {"ok", "lost"}
  BY <1>1 DEF Told, LiveR
<1>7. ~LiveR(r) => ~ActiveR(r) /\ r.op = "none"
  BY <1>1 DEF Told
<1>8. (Mixing \/ w \in published)'
  BY <1>3 DEF Mixing
<1>9. Authors'
  <2>1. DOMAIN object'.parts = DOMAIN ps /\ object'.parts = ps
    BY <1>3
  <2>2. \A i \in DOMAIN object'.parts : \A v \in Writers :
          object'.parts[i].by = v => v = w \/ wr[v].pc # "new"
    BY <2>1
  <2> QED BY <1>1, <1>2, <2>2, AuthorsStay
<1>10. (Held(w, wr[w]))'
  <2>1. CASE service = "onedrive"
    BY <2>1 DEF Held, Stays
  <2>2. CASE b.op = "complete"
    BY <1>5, <1>6, <1>7, <2>2 DEF Held
  <2> QED BY <2>1, <2>2
<1>11. (Traced(w, wr[w]))'
  BY <1>1, <1>2, <1>5, <1>6, <1>7, <1>8 DEF Traced, Told, LiveR
<1>12. (Mixing \/ ObjectFits)'
  <2>1. CASE Mixing
    BY <2>1 DEF Mixing
  <2>2. CASE Whole(w, ps)
    <3>1. object'.type = "block" /\ object'.parts = ps /\ w \in published'
      BY <1>3, <2>2
    <3>2. (Whole(w, object.parts))'
      BY <1>5, <2>2, <3>1 DEF Whole
    <3> QED BY <3>1, <3>2 DEF ObjectFits
  <2> QED BY <2>1, <2>2
<1>13. (DeleteFits(wr[w]))'
  BY <1>5, <1>6, <1>7 DEF DeleteFits
<1>14. (OpenFits(wr[w], open[w], abort[w]))'
  BY DEF OpenFits
<1> QED BY <1>1, <1>2, <1>4, <1>9, <1>10, <1>11, <1>12, <1>13, <1>14, StoreStep

LEMMA OneWhole ==
  ASSUME NEW w \in Writers, wr[w].len \in Nat
  PROVE  /\ Whole(w, <<Part(w, 1, wr[w].len)>>)
         /\ <<Part(w, 1, wr[w].len)>> \in Seq(Parts)
         /\ \A i \in DOMAIN <<Part(w, 1, wr[w].len)>> : <<Part(w, 1, wr[w].len)>>[i].by = w
<1>1. PICK p : p = Part(w, 1, wr[w].len)
  OBVIOUS
<1>2. p \in Parts /\ p.by = w /\ p.first = 1 /\ p.last = wr[w].len
  BY <1>1, PartFacts
<1>3. PICK ps : ps = <<p>>
  OBVIOUS
<1>4. /\ ps \in Seq(Parts) /\ Len(ps) = 1 /\ ps # <<>> /\ ps[1] = p
      /\ \A i \in DOMAIN ps : i = 1
  BY <1>2, <1>3
<1>5. Whole(w, ps)
  BY <1>2, <1>4 DEF Whole
<1> QED BY <1>1, <1>2, <1>3, <1>4, <1>5

LEMMA ChainWhole ==
  ASSUME NEW w \in Writers, NEW k \in Nat \ {0}, NEW qs \in [1 .. k -> Parts],
         Chain(w, qs, k, wr[w].len)
  PROVE  Whole(w, qs)
<1>1. qs \in Seq(Parts) /\ Len(qs) = k
  OBVIOUS
<1>2. \A i \in 1 .. k : qs[i].by = w /\ qs[i].first = IF i = 1 THEN 1 ELSE qs[i - 1].last + 1
  BY DEF Chain
<1>3. qs[1].first = 1 /\ qs[k].last = wr[w].len /\ qs # <<>>
  BY <1>1, <1>2 DEF Chain
<1>4. ASSUME NEW i \in 1 .. k - 1
      PROVE  qs[i + 1].first = qs[i].last + 1
  <2>1. i + 1 \in 1 .. k /\ i + 1 # 1 /\ i + 1 - 1 = i
    OBVIOUS
  <2> QED BY <1>2, <2>1
<1> QED BY <1>1, <1>2, <1>3, <1>4 DEF Whole

\* What a request that makes an object makes: parts of writers that have begun, and
\* all of w's bytes, unless uploads mixed.
Makes(w, ps) ==
  /\ ps \in Seq(Parts)
  /\ Replace(w, ps)
  /\ Mixing \/ Whole(w, ps)
  /\ \A i \in DOMAIN ps : \A v \in Writers : ps[i].by = v => v = w \/ wr[v].pc # "new"

LEMMA GraphMakes ==
  ASSUME IInv, NEW w \in Writers, Put(w) \/ (AddFragment(w) /\ ~(wr[w].cut < wr[w].len))
  PROVE  \E ps : Makes(w, ps)
<1> DEFINE b == wr[w]
<1>1. Replace(w, <<Part(w, 1, b.len)>>)
  <2>1. CASE Put(w)
    BY <2>1 DEF Put
  <2>2. CASE AddFragment(w) /\ ~(b.cut < b.len)
    <3>1. b.cut = b.len
      BY <2>2 DEF IInv, Typed, Counts, Writer
    <3> QED BY <2>2, <3>1 DEF AddFragment
  <2> QED BY <2>1, <2>2
<1>2. b.len \in Nat
  BY DEF IInv, Typed, Writer
<1>3. PICK ps : ps = <<Part(w, 1, b.len)>>
  OBVIOUS
<1>4. ps \in Seq(Parts) /\ Whole(w, ps) /\ \A i \in DOMAIN ps : ps[i].by = w
  BY <1>2, <1>3, OneWhole
<1>5. Replace(w, ps)
  BY <1>1, <1>3
<1> QED BY <1>4, <1>5 DEF Makes

LEMMA GraphPublishStep ==
  ASSUME IInv, NEW w \in Writers, UNCHANGED <<service, before, abort, clash>>,
         Put(w) \/ (AddFragment(w) /\ ~(wr[w].cut < wr[w].len))
  PROVE  IInv'
<1> DEFINE b == wr[w]
<1>1. InFlight(w) /\ Answered(w, "ok") /\ b.op \in {"put", "fragment"}
  BY DEF Put, AddFragment
<1>2. service = "onedrive" /\ Slot(w) = w /\ w \in Slots
  <2>1. service = "onedrive"
    BY <1>1 DEF IInv, Typed, Fits, S3Fits, AzFits
  <2> QED BY <2>1 DEF Slot, Slots
<1>3. staged \in [Slots -> [1 .. MaxParts -> Parts]] /\ open \in [Writers -> BOOLEAN]
  BY DEF IInv, Typed
<1>4. /\ staged' \in [Slots -> [1 .. MaxParts -> Parts]]
      /\ \A s \in Slots : s # w => staged'[s] = staged[s]
      /\ staged'[w] = staged[w] \/ staged'[w] = NoParts
      /\ open' \in [Writers -> BOOLEAN] /\ \A v \in Writers : v # w => open'[v] = open[v]
  <2>1. CASE Put(w)
    BY <1>3, <2>1 DEF Put
  <2>2. CASE AddFragment(w) /\ ~(b.cut < b.len)
    BY <1>2, <1>3, <2>2, NoPartsFacts DEF AddFragment
  <2> QED BY <2>1, <2>2
<1>5. \A s \in Slots, i \in 1 .. MaxParts :
        staged'[s][i] = staged[s][i] \/ staged'[s][i].by \in {w, Nobody}
  BY <1>4, NoPartsFacts
<1>6. PICK ps : Makes(w, ps)
  BY GraphMakes
<1> QED BY <1>1, <1>2, <1>4, <1>5, <1>6, PublishStep DEF Makes

LEMMA CompleteMakes ==
  ASSUME IInv, NEW w \in Writers, Complete(w)
  PROVE  \E ps : Makes(w, ps)
<1> DEFINE b == wr[w]
<1>1. PICK k : k = b.listed
  OBVIOUS
<1>2. PICK ps : ps = [i \in 1 .. k |-> PartNamed(w, i)]
  OBVIOUS
<1>3. /\ b.op = "complete" /\ b.ans = "none" /\ k \in 1 .. MaxParts
      /\ service # "azure" => open[w]
      /\ \A i \in 1 .. k : PartNamed(w, i) # NoPart
      /\ Replace(w, ps)
  BY <1>1, <1>2 DEF Complete, InFlight
<1>4. /\ b \in Writer /\ Fits(b) /\ Held(w, b) /\ Authors
      /\ staged \in [Slots -> [1 .. MaxParts -> Parts]] /\ object.parts \in Seq(Parts)
  BY DEF IInv, Typed, ObjectT
<1>5. k \in Nat \ {0} /\ \A i \in 1 .. k : i \in 1 .. MaxParts
  BY <1>3, UploadAssumption
<1>6. Slot(w) \in Slots /\ w # Nobody
  BY UploadAssumption DEF Slot, Slots
<1>7. ASSUME NEW i \in 1 .. k
      PROVE  /\ PartNamed(w, i) \in Parts
             /\ \A v \in Writers : PartNamed(w, i).by = v => wr[v].pc # "new"
  <2>1. CASE i \in 1 .. Len(object.parts) /\ PartNamed(w, i) = object.parts[i]
    BY <1>4, <2>1 DEF Authors
  <2>2. CASE PartNamed(w, i) = staged[Slot(w)][i]
    <3>1. PICK s \in Slots : s = Slot(w)
      BY <1>6
    <3>2. i \in 1 .. MaxParts
      BY <1>5
    <3>3. staged[s][i] \in Parts
      BY <1>4, <3>2
    <3>4. \A v \in Writers : staged[s][i].by = v => wr[v].pc # "new"
      BY <1>4, <3>2 DEF Authors
    <3> QED BY <2>2, <3>1, <3>3, <3>4
  <2>3. i \in 1 .. Len(object.parts) \/ PartNamed(w, i) = staged[Slot(w)][i]
    BY <1>4, <1>5 DEF PartNamed
  <2> QED BY <2>1, <2>2, <2>3 DEF PartNamed
<1>8. ps \in [1 .. k -> Parts] /\ \A i \in 1 .. k : ps[i] = PartNamed(w, i)
  BY <1>2, <1>7
<1>9. ps \in Seq(Parts) /\ DOMAIN ps = 1 .. k
  BY <1>5, <1>8
<1>10. \A i \in DOMAIN ps : \A v \in Writers : ps[i].by = v => v = w \/ wr[v].pc # "new"
  BY <1>7, <1>8, <1>9
<1>11. Mixing \/ Whole(w, ps)
  <2> SUFFICES ASSUME ~Mixing
               PROVE  Whole(w, ps)
    OBVIOUS
  <2>1. PICK qs : qs = staged[Slot(w)]
    OBVIOUS
  <2>2. service # "onedrive"
    BY <1>3, <1>4 DEF Fits, GraphFits
  <2>3. Stays(w)
    BY <1>3, <2>2 DEF Mixing, Stays, IInv, Typed
  <2>4. Chain(w, qs, k, b.cut) /\ b.cut = b.len
    BY <1>1, <1>3, <1>4, <2>1, <2>3 DEF Held, HasParts, ActiveR, Fits
  <2>5. ASSUME NEW i \in 1 .. k
        PROVE  ps[i] = qs[i]
    <3>1. qs[i].by = w
      BY <2>4 DEF Chain
    <3>2. qs[i] # NoPart
      BY <1>6, <3>1, NoPartsFacts
    <3>3. PartNamed(w, i) = qs[i]
      BY <2>1, <3>2 DEF PartNamed, Slot
    <3> QED BY <1>8, <3>3
  <2>6. Chain(w, ps, k, b.len)
    BY <1>5, <2>4, <2>5, ChainSame
  <2> QED BY <1>5, <1>8, <2>6, ChainWhole
<1> QED BY <1>3, <1>9, <1>10, <1>11 DEF Makes

LEMMA CompleteStep ==
  ASSUME IInv, NEW w \in Writers, Complete(w), UNCHANGED <<service, before, abort, clash>>
  PROVE  IInv'
<1>1. /\ InFlight(w) /\ wr[w].op = "complete" /\ Answered(w, "ok")
      /\ staged' = [staged EXCEPT ![Slot(w)] = NoParts]
      /\ open' = [open EXCEPT ![w] = FALSE]
  BY DEF Complete
<1>2. Slot(w) \in Slots
  BY DEF Slot, Slots
<1>3. staged \in [Slots -> [1 .. MaxParts -> Parts]] /\ open \in [Writers -> BOOLEAN]
  BY DEF IInv, Typed
<1>4. /\ staged' \in [Slots -> [1 .. MaxParts -> Parts]]
      /\ \A s \in Slots : s # Slot(w) => staged'[s] = staged[s]
      /\ \A s \in Slots, i \in 1 .. MaxParts :
           staged'[s][i] = staged[s][i] \/ staged'[s][i].by \in {w, Nobody}
      /\ open' \in [Writers -> BOOLEAN] /\ ~open'[w]
      /\ \A v \in Writers : v # w => open'[v] = open[v]
  BY <1>1, <1>2, <1>3, NoPartsFacts
<1>5. PICK ps : Makes(w, ps)
  BY CompleteMakes
<1> QED BY <1>1, <1>4, <1>5, PublishStep DEF Makes

LEMMA ServeKeeps ==
  ASSUME IInv, NEW w \in Writers, Serve(w)
  PROVE  IInv'
<1>1. UNCHANGED <<service, before, abort, clash>>
  BY DEF Serve
<1>2. CASE Refuse(w) \/ WrongType(w)
  BY <1>1, <1>2, RefuseStep
<1>3. CASE StorePart(w)
  BY <1>1, <1>3, StorePartStep
<1>4. CASE Complete(w)
  BY <1>1, <1>4, CompleteStep
<1>5. CASE DeleteBlob(w)
  BY <1>1, <1>5, DeleteStep
<1>6. CASE Put(w)
  BY <1>1, <1>6, GraphPublishStep
<1>7. CASE StartSession(w) \/ CancelSession(w)
  BY <1>1, <1>7, SessionStep
<1>8. CASE AddFragment(w)
  BY <1>1, <1>8, GraphPublishStep, SessionStep
<1> QED BY <1>2, <1>3, <1>4, <1>5, <1>6, <1>7, <1>8 DEF Serve

----------------------------------------------------------------------------
(* The invariants *)

LEMMA InitIInv ==
  ASSUME Init
  PROVE  IInv
<1>1. /\ service \in Services
      /\ before \in {Absent, Older("block")}
                      \cup IF service = "azure" THEN {Older("append")} ELSE {}
      /\ object = before /\ wr = [w \in Writers |-> Fresh]
      /\ staged = [s \in Slots |-> NoParts] /\ open = [w \in Writers |-> FALSE]
      /\ abort = [w \in Writers |-> "none"] /\ published = {} /\ clash = FALSE
  BY DEF Init
<1>2. before \in {Absent, Older("block"), Older("append")}
  BY <1>1
<1>3. Older("block").type = "block" /\ Older("append").type = "append" /\ Absent.type = "absent"
  BY DEF Older, Absent
<1>4. before.type = "append" => service = "azure"
  BY <1>1, <1>3
<1>5. /\ object \in ObjectT
      /\ \A i \in DOMAIN object.parts : object.parts[i].by = Nobody
  <2>1. PICK p : p = Part(Nobody, 1, 1)
    OBVIOUS
  <2>2. p \in Parts /\ p.by = Nobody
    BY <2>1, PartFacts
  <2>3. /\ Absent \in ObjectT /\ DOMAIN Absent.parts = {}
    BY DEF Absent, ObjectT
  <2>4. ASSUME NEW type \in {"block", "append"}
        PROVE  /\ Older(type) \in ObjectT
               /\ \A i \in DOMAIN Older(type).parts : Older(type).parts[i].by = Nobody
    <3>1. Older(type) = [type |-> type, parts |-> <<p>>]
      BY <2>1 DEF Older
    <3>2. <<p>> \in Seq(Parts) /\ \A i \in DOMAIN <<p>> : <<p>>[i] = p
      BY <2>2
    <3> QED BY <2>2, <3>1, <3>2 DEF ObjectT
  <2> QED BY <1>1, <1>2, <2>3, <2>4
<1>6. \A w \in Writers : wr[w] = Fresh /\ ~open[w] /\ abort[w] = "none" /\ w # Nobody
  BY <1>1, UploadAssumption
<1>7. ~LiveR(Fresh) /\ ~ActiveR(Fresh) /\ Counts(Fresh)
  BY FreshFacts DEF LiveR, ActiveR, Counts
<1>8. Typed
  BY <1>1, <1>2, <1>4, <1>5, <1>6, <1>7, FreshFacts, NoPartsFacts, UploadAssumption DEF Typed
<1>9. \A w \in Writers : Fits(wr[w])
  BY <1>6, <1>7, FreshFacts DEF Fits, S3Fits, AzFits, GraphFits
<1>10. \A w \in Writers : Held(w, wr[w]) /\ Traced(w, wr[w]) /\ DeleteFits(wr[w])
  BY <1>1, <1>6, <1>7, FreshFacts DEF Held, Traced, DeleteFits
<1>11. OneAtATime
  BY <1>6, <1>7 DEF OneAtATime
<1>12. Authors
  BY <1>1, <1>5, <1>6, NoPartsFacts DEF Authors
<1>13. ObjectFits
  BY <1>1 DEF ObjectFits, Untouched
<1>14. \A w \in Writers : OpenFits(wr[w], open[w], abort[w])
  BY <1>6, <1>7, FreshFacts DEF OpenFits
<1> QED BY <1>8, <1>9, <1>10, <1>11, <1>12, <1>13, <1>14 DEF IInv

LEMMA StepIInv ==
  ASSUME IInv, [Next]_vars
  PROVE  IInv'
<1>1. CASE UNCHANGED vars
  <2>1. UNCHANGED <<open, Outside>> /\ wr' = wr /\ abort' = abort
    BY <1>1 DEF vars, Outside
  <2> QED BY <2>1, StayGoes, CallersStep DEF IInv, Typed
<1>2. ASSUME NEW w \in Writers, Create(w) \/ Poll(w) \/ Drop(w) \/ S3Abort(w) \/ Serve(w)
      PROVE  IInv'
  BY <1>2, CreateStep, PollKeeps, DropStep, S3AbortStep, ServeKeeps
<1>3. CASE Kill
  BY <1>3, KillStep
<1> QED BY <1>1, <1>2, <1>3 DEF Next

\* The invariant the others follow from.
THEOREM Inductive == Spec => []IInv
<1>1. Init => IInv
  BY InitIInv
<1>2. IInv /\ [Next]_vars => IInv'
  BY StepIInv
<1> QED BY <1>1, <1>2, PTL DEF Spec

\* Every part the store has is an interval of some writer's bytes, and every writer,
\* request and answer is one of those named: no writer counts past what it was given.
THEOREM WritersTyped == Spec => []TypeOK
<1>1. IInv => TypeOK
  BY DEF IInv, Typed, TypeOK, Counts, ObjectT, Absent, Older
<1> QED BY <1>1, Inductive, PTL

\* Readers see the old object, none, or the whole of one upload, whatever fails, is
\* dropped or arrives late, unless uploads of one Azure blob overlapped.
THEOREM WholeOrNothing == Spec => []OnlyWholeObjects
<1>1. IInv => OnlyWholeObjects
  BY DEF IInv, Typed, OnlyWholeObjects, ObjectFits, Untouched
<1> QED BY <1>1, Inductive, PTL

\* A shutdown that answers Ok has replaced the object by all the writer was given.
THEOREM OkIsPublished == Spec => []OkMeansPublished
<1>1. IInv => OkMeansPublished
  BY DEF IInv, OkMeansPublished, Traced
<1> QED BY <1>1, Inductive, PTL

\* However many uploads fail, the object is what it was until one replaces it, but
\* for an append or page blob, which Azure has us delete first.
THEOREM FailuresSpare == Spec => []OldSurvivesFailure
<1>1. IInv => OldSurvivesFailure
  BY DEF IInv, OldSurvivesFailure, ObjectFits, Untouched
<1> QED BY <1>1, Inductive, PTL

\* An S3 upload that is left open without a writer has its abort coming, or that
\* abort, or the answer that told us the upload's id, was lost.
THEOREM OpenIsExplained == Spec => []DanglingIsExplained
<1>1. IInv => DanglingIsExplained
  BY DEF IInv, DanglingIsExplained, OpenFits, Live, LiveR
<1> QED BY <1>1, Inductive, PTL

----------------------------------------------------------------------------
(* The writers implement StagedWrite *)

PhaseOf(r) == CASE r.pc \in {"writing", "closing"} -> "going"
                [] r.pc \in {"failed", "gone"} -> "over"
                [] OTHER -> r.pc

LEMMA PhaseFacts ==
  ASSUME NEW r \in Writer
  PROVE  /\ PhaseOf(r) \in {"new", "going", "ok", "over"}
         /\ PhaseOf(r) = "new" <=> r.pc = "new"
         /\ PhaseOf(r) = "ok" <=> r.pc = "ok"
         /\ PhaseOf(r) = "going" <=> LiveR(r)
BY DEF PhaseOf, LiveR, Writer

LEMMA PhaseIs ==
  /\ Phase = [w \in Writers |-> PhaseOf(wr[w])]
  /\ Phase' = [w \in Writers |-> PhaseOf(wr'[w])]
BY DEF Phase, PhaseOf

\* An object is of one upload's bytes only.
LEMMA OnlyOneWhole ==
  ASSUME NEW v, NEW w, NEW ps, Whole(v, ps), Whole(w, ps), ps \in Seq(Parts)
  PROVE  v = w
<1>1. 1 \in 1 .. Len(ps)
  BY DEF Whole
<1> QED BY <1>1 DEF Whole

LEMMA HeldIs ==
  \A w \in Writers : IInv /\ Whole(w, object.parts) /\ object.type = "block" => ObjectHeld = w
<1> SUFFICES ASSUME IInv, NEW w \in Writers, Whole(w, object.parts), object.type = "block"
             PROVE  ObjectHeld = w
  OBVIOUS
<1>1. object.parts \in Seq(Parts)
  BY DEF IInv, Typed, ObjectT
<1>2. \A v \in Writers : Whole(v, object.parts) => v = w
  BY <1>1, OnlyOneWhole
<1>3. (CHOOSE v \in Writers : Whole(v, object.parts)) = w
  BY <1>2
<1>4. object # before
  <2>1. 1 \in 1 .. Len(object.parts) /\ object.parts[1].by = w
    BY <1>1 DEF Whole
  <2>2. CASE before = Absent
    BY <2>1, <2>2 DEF Absent
  <2>3. CASE before = Older("block")
    <3>1. before.parts[1].by = Nobody
      BY <2>3 DEF Older, Part
    <3> QED BY <2>1, <3>1, UploadAssumption
  <2>4. CASE before = Older("append")
    <3>1. before.parts[1].by = Nobody
      BY <2>4 DEF Older, Part
    <3> QED BY <2>1, <3>1, UploadAssumption
  <2> QED BY <2>2, <2>3, <2>4 DEF IInv, Typed
<1> QED BY <1>3, <1>4 DEF ObjectHeld

LEMMA HeldIsNext ==
  (\A w \in Writers : IInv /\ Whole(w, object.parts) /\ object.type = "block" => ObjectHeld = w)'
BY HeldIs, PTL

LEMMA HeldTyped ==
  ObjectHeld \in {"before", "lost", "mixed"} \cup Writers
BY DEF ObjectHeld

\* The object is held by the same as long as nobody writes it.
LEMMA HeldStays ==
  ASSUME IInv, object' = object, before' = before,
         \A v \in Writers : wr[v].pc = "new" \/ wr'[v].len = wr[v].len
  PROVE  ObjectHeld' = ObjectHeld
<1>1. object.parts \in Seq(Parts)
  BY DEF IInv, Typed, ObjectT
<1>2. ASSUME NEW v \in Writers
      PROVE  Whole(v, object.parts)' <=> Whole(v, object.parts)
  <2>1. CASE wr[v].pc = "new"
    <3>1. \A i \in 1 .. Len(object.parts) : object.parts[i].by # v
      BY <1>1, <2>1 DEF IInv, Authors
    <3>2. object.parts # <<>> => 1 \in 1 .. Len(object.parts)
      BY <1>1
    <3> QED BY <3>1, <3>2 DEF Whole
  <2>2. CASE wr'[v].len = wr[v].len
    BY <2>2 DEF Whole
  <2> QED BY <2>1, <2>2
<1>3. CASE \E v \in Writers : Whole(v, object.parts)
  <2>1. PICK v \in Writers : Whole(v, object.parts)
    BY <1>3
  <2>2. \A u \in Writers : Whole(u, object.parts) => u = v
    BY <1>1, <2>1, OnlyOneWhole
  <2>3. (CHOOSE u \in Writers : Whole(u, object.parts)) = v
    BY <2>1, <2>2
  <2>4. (CHOOSE u \in Writers : Whole(u, object.parts)') = v
    BY <1>2, <2>1, <2>2
  <2>5. Whole(v, object.parts)'
    BY <1>2, <2>1
  <2> QED BY <2>1, <2>3, <2>4, <2>5 DEF ObjectHeld
<1>4. CASE ~\E v \in Writers : Whole(v, object.parts)
  <2>1. ~\E v \in Writers : Whole(v, object.parts)'
    BY <1>2, <1>4
  <2> QED BY <1>4, <2>1 DEF ObjectHeld
<1> QED BY <1>3, <1>4

\* A step in which callers at most give up.
LEMMA GiveUpStep ==
  ASSUME IInv, IInv', Carries, UNCHANGED <<service, before, object, published, clash>>,
         \A v \in Writers : wr'[v].pc = wr[v].pc \/ (LiveR(wr[v]) /\ wr'[v].pc # "ok")
  PROVE  Store!GiveUp
<1>1. \A v \in Writers : wr[v] \in Writer /\ wr'[v] \in Writer
  BY DEF IInv, Typed
<1>2. Phase' \in [Writers -> {"new", "going", "ok", "over"}]
  BY <1>1, PhaseIs, PhaseFacts
<1>3. ASSUME NEW v \in Writers, Phase'[v] # Phase[v]
      PROVE  Phase[v] = "going" /\ Phase'[v] = "over"
  <2>1. Phase[v] = PhaseOf(wr[v]) /\ Phase'[v] = PhaseOf(wr'[v])
    BY PhaseIs
  <2>2. LiveR(wr[v]) /\ wr'[v].pc # "ok"
    BY <1>3, <2>1 DEF PhaseOf
  <2>3. wr'[v].pc # "new"
    BY <2>2 DEF Carries, LiveR
  <2> QED BY <1>1, <1>3, <2>1, <2>2, <2>3, PhaseFacts
<1>4. ObjectHeld' = ObjectHeld
  BY HeldStays DEF Carries
<1> QED BY <1>2, <1>3, <1>4 DEF Store!GiveUp

\* Uploads that share their blocks and overlapped may do anything in order.
LEMMA InterfereStep ==
  ASSUME IInv, IInv', Mixing, Carries, UNCHANGED <<service, before, clash>>,
         \A v \in Writers : wr'[v].pc = wr[v].pc \/ LiveR(wr[v])
  PROVE  Store!Interfere
<1>1. \A v \in Writers : wr[v] \in Writer /\ wr'[v] \in Writer
  BY DEF IInv, Typed
<1>2. Phase' \in [Writers -> {"new", "going", "ok", "over"}]
  BY <1>1, PhaseIs, PhaseFacts
<1>3. ASSUME NEW v \in Writers, Phase'[v] # Phase[v]
      PROVE  Phase[v] = "going" /\ Phase'[v] # "new"
  <2>1. Phase[v] = PhaseOf(wr[v]) /\ Phase'[v] = PhaseOf(wr'[v])
    BY PhaseIs
  <2>2. LiveR(wr[v])
    BY <1>3, <2>1 DEF PhaseOf
  <2>3. wr'[v].pc # "new"
    BY <2>2 DEF Carries, LiveR
  <2> QED BY <1>1, <2>1, <2>2, <2>3, PhaseFacts
<1>4. ObjectHeld' \in {"before", "lost", "mixed"} \cup Writers
  BY HeldTyped DEF ObjectHeld
<1>5. published' \in SUBSET Writers
  BY DEF IInv, Typed
<1> QED BY <1>2, <1>3, <1>4, <1>5 DEF Store!Interfere, Mixing

LEMMA CreateBegins ==
  ASSUME IInv, IInv', NEW w \in Writers, Create(w)
  PROVE  Store!Begin(w)
<1>1. PICK pc \in {"writing", "failed"} : Opened(w, pc)
  BY DEF Create, S3Create, AzCreate, GraphCreate
<1>2. /\ wr[w].pc = "new"
      /\ \E len \in Lens : wr' = [wr EXCEPT ![w].pc = pc, ![w].len = len]
      /\ clash' = (clash \/ \E v \in Writers : Active(v))
      /\ UNCHANGED <<service, before, object, staged, published>>
  BY <1>1 DEF Opened
<1>3. wr \in [Writers -> Writer] /\ wr' \in [Writers -> Writer] /\ clash \in BOOLEAN
  BY DEF IInv, Typed
<1>4. wr'[w].pc = pc /\ \A v \in Writers : v # w => wr'[v] = wr[v]
  BY <1>2, <1>3 DEF Writer
<1>5. Phase[w] = "new"
  BY <1>2, PhaseIs DEF PhaseOf
<1>6. Phase' = [Phase EXCEPT ![w] = PhaseOf(wr'[w])]
  BY <1>4, PhaseIs
<1>7. PhaseOf(wr'[w]) \in {"going", "over"}
  BY <1>4 DEF PhaseOf
<1>8. \A v \in Writers : Active(v) => v # w /\ Phase[v] # "new"
  <2> SUFFICES ASSUME NEW v \in Writers, Active(v)
               PROVE  v # w /\ Phase[v] # "new"
    OBVIOUS
  <2>1. wr[v].pc # "new"
    BY FreshFacts DEF IInv, Fits, Active, Live, InFlight
  <2>2. PhaseOf(wr[v]) # "new"
    BY <1>3, <2>1, PhaseFacts
  <2> QED BY <1>2, <2>1, <2>2, PhaseIs
<1>9. clash' \in IF \E v \in Writers \ {w} : Phase[v] # "new" THEN {clash, TRUE} ELSE {clash}
  <2>1. CASE \E v \in Writers : Active(v)
    <3>1. clash' = TRUE
      BY <1>2, <2>1
    <3>2. \E v \in Writers \ {w} : Phase[v] # "new"
      BY <1>8, <2>1
    <3> QED BY <3>1, <3>2
  <2>2. CASE ~\E v \in Writers : Active(v)
    <3>1. clash' = clash
      BY <1>2, <1>3, <2>2
    <3> QED BY <3>1
  <2> QED BY <2>1, <2>2
<1>10. ObjectHeld' = ObjectHeld
  BY <1>2, <1>4, HeldStays
<1> QED BY <1>2, <1>5, <1>6, <1>7, <1>9, <1>10 DEF Store!Begin

\* A poll moves the one writer, which is live.
LEMMA PollMoves ==
  ASSUME NEW w \in Writers, Poll(w)
  PROVE  Live(w) /\ (\E r : wr' = [wr EXCEPT ![w] = r]) /\ UNCHANGED Outside
<1>1. CASE S3Write(w)
  BY <1>1 DEF S3Write, Live
<1>2. CASE S3Flush(w) \/ S3Shutdown(w) \/ S3Completed(w) \/ S3Fail(w)
  BY <1>2 DEF S3Flush, S3Shutdown, S3Completed, S3Fail, Live
<1>3. CASE AzWrite(w)
  BY <1>3 DEF AzWrite, Live
<1>4. CASE AzFlush(w) \/ AzRecover(w) \/ AzRestage(w)
  BY <1>4 DEF AzFlush, AzRecover, AzRestage, Live
<1>5. CASE AzShutdown(w) \/ AzCommitted(w) \/ AzFail(w)
  BY <1>5 DEF AzShutdown, AzCommitted, AzFail, Live
<1>6. CASE GraphWrite(w) \/ GraphShutdown(w)
  BY <1>6 DEF GraphWrite, GraphShutdown, Live
<1>7. CASE GraphFragment(w) \/ GraphDone(w) \/ GraphFail(w)
  BY <1>7 DEF GraphFragment, GraphDone, GraphFail, Live
<1> QED BY <1>1, <1>2, <1>3, <1>4, <1>5, <1>6, <1>7 DEF Poll

LEMMA PollRefines ==
  ASSUME IInv, IInv', NEW w \in Writers, Poll(w)
  PROVE  Store!Next
<1>1. PICK r : wr' = [wr EXCEPT ![w] = r]
  BY PollMoves
<1>2. LiveR(wr[w]) /\ UNCHANGED <<service, before, object, staged, published, clash>>
  BY PollMoves DEF Live, LiveR, Outside
<1>3. Carries
  BY PollKeeps
<1>4. wr'[w] = r /\ \A v \in Writers : v # w => wr'[v] = wr[v]
  BY <1>1 DEF IInv, Typed
<1>5. CASE Mixing
  BY <1>2, <1>3, <1>4, <1>5, InterfereStep DEF Store!Next
<1>6. CASE ~Mixing /\ r.pc # "ok"
  BY <1>2, <1>3, <1>4, <1>6, GiveUpStep DEF Store!Next
<1>7. CASE ~Mixing /\ r.pc = "ok"
  <2>1. w \in published
    BY <1>2, <1>4, <1>7 DEF IInv, Traced, Mixing
  <2>2. Phase[w] = "going"
    BY <1>2, PhaseIs DEF PhaseOf, LiveR
  <2>3. Phase' = [Phase EXCEPT ![w] = "ok"]
    <3>1. PhaseOf(wr'[w]) = "ok"
      BY <1>4, <1>7 DEF PhaseOf
    <3> QED BY <1>4, <3>1, PhaseIs
  <2>4. ObjectHeld' = ObjectHeld
    BY <1>2, <1>3, HeldStays DEF Carries
  <2> QED BY <1>2, <2>1, <2>2, <2>3, <2>4 DEF Store!Next, Store!Acknowledge
<1> QED BY <1>5, <1>6, <1>7

LEMMA EndingRefines ==
  ASSUME IInv, IInv', (\E w \in Writers : Drop(w) \/ S3Abort(w)) \/ Kill
  PROVE  Store!Next
<1>1. UNCHANGED <<service, before, object, published, clash>>
  BY DEF Drop, S3Drop, AzDrop, GraphDrop, S3Abort, Kill, Outside
<1>2. Carries /\ \A v \in Writers : wr'[v].pc = wr[v].pc \/ (LiveR(wr[v]) /\ wr'[v].pc # "ok")
  <2>1. ASSUME NEW w \in Writers, Drop(w)
        PROVE  Carries /\ \A v \in Writers : wr'[v].pc = wr[v].pc \/ (LiveR(wr[v]) /\ wr'[v].pc # "ok")
    <3>1. Live(w) /\ wr' = [wr EXCEPT ![w] = Dropped(wr[w])]
      BY <2>1 DEF Drop, S3Drop, AzDrop, GraphDrop
    <3>2. Dropped(wr[w]).pc = "gone" /\ LiveR(wr[w])
      BY <3>1, DroppedGoes DEF Live, LiveR
    <3> QED BY <2>1, <3>1, <3>2, DropStep DEF IInv, Typed
  <2>2. CASE Kill
    <3>1. \A v \in Writers : wr'[v] = IF Live(v) THEN Dropped(wr[v]) ELSE wr[v]
      BY <2>2 DEF Kill
    <3>2. \A v \in Writers : Live(v) => Dropped(wr[v]).pc = "gone" /\ LiveR(wr[v])
      BY DroppedGoes DEF Live, LiveR
    <3> QED BY <2>2, <3>1, <3>2, KillStep
  <2>3. CASE \E w \in Writers : S3Abort(w)
    BY <2>3 DEF S3Abort, Carries
  <2> QED BY <2>1, <2>2, <2>3
<1>3. Store!GiveUp
  BY <1>1, <1>2, GiveUpStep
<1> QED BY <1>3 DEF Store!Next

\* What the store is asked for and answers.
LEMMA ServeTells ==
  ASSUME IInv, NEW w \in Writers, Serve(w)
  PROVE  /\ \A v \in Writers : wr'[v].pc = wr[v].pc /\ wr'[v].len = wr[v].len
         /\ w \notin published /\ wr[w].pc # "new" /\ wr[w].op # "none"
         /\ UNCHANGED <<service, before, clash>>
<1>1. PICK a \in {"ok", "more", "wrongtype", "refused"} :
        /\ InFlight(w) /\ Answered(w, a)
        /\ a = "more" => wr[w].op = "fragment" /\ wr[w].cut < wr[w].len
  BY DEF Serve, Refuse, WrongType, StorePart, Complete, DeleteBlob, Put, StartSession,
         AddFragment, CancelSession
<1>2. PICK r : Told(w, r, a) /\ wr' = [wr EXCEPT ![w] = r]
  BY <1>1, Telling
<1>3. w \notin published /\ wr[w].pc # "new"
  BY <1>1, Telling
<1> QED BY <1>1, <1>2, <1>3 DEF Told, IInv, Typed, InFlight, Serve

LEMMA ServeRefines ==
  ASSUME IInv, IInv', NEW w \in Writers, Serve(w)
  PROVE  Store!Next
<1>1. /\ \A v \in Writers : wr'[v].pc = wr[v].pc /\ wr'[v].len = wr[v].len
      /\ w \notin published /\ wr[w].pc # "new" /\ wr[w].op # "none"
      /\ UNCHANGED <<service, before, clash>>
  BY ServeTells
<1>2. Carries
  BY <1>1 DEF Carries
<1>3. Phase' = Phase
  BY <1>1, PhaseIs DEF PhaseOf
<1>4. CASE Mixing
  BY <1>1, <1>2, <1>4, InterfereStep DEF Store!Next
<1>5. CASE ~Mixing /\ object' = object /\ published' = published
  BY <1>1, <1>2, <1>5, GiveUpStep DEF Store!Next
<1>6. CASE ~Mixing /\ DeleteBlob(w)
  <2>1. service = "azure" /\ ~clash /\ Untouched /\ before.type = "append"
    BY <1>6 DEF DeleteBlob, InFlight, IInv, DeleteFits, Mixing
  <2>2. object' = Absent /\ published' = published
    BY <1>6 DEF DeleteBlob
  <2>3. object' # before' /\ object'.type = "absent"
    BY <1>1, <2>1, <2>2 DEF Absent
  <2>4. ObjectHeld' = "lost"
    BY <2>3 DEF ObjectHeld
  <2> QED BY <1>1, <1>3, <2>1, <2>2, <2>4 DEF Store!Next, Store!Convert, Untouched
<1>7. ASSUME ~Mixing, NEW ps, Makes(w, ps)
      PROVE  Store!Next
  <2>1. Whole(w, ps) /\ object' = [type |-> "block", parts |-> ps]
        /\ published' = published \cup {w}
    BY <1>7 DEF Makes, Replace
  <2>2. (Whole(w, object.parts) /\ object.type = "block")'
    BY <1>1, <2>1 DEF Whole
  <2>3. ObjectHeld' = w
    BY <2>2, HeldIsNext
  <2>4. Phase[w] \in {"going", "over"}
    <3>1. wr[w] \in Writer /\ Fits(wr[w])
      BY DEF IInv, Typed
    <3>2. wr[w].pc \in {"writing", "closing", "gone"}
      BY <1>1, <3>1 DEF Fits, Writer
    <3> QED BY <3>2, PhaseIs DEF PhaseOf
  <2> QED BY <1>1, <1>3, <2>1, <2>3, <2>4 DEF Store!Next, Store!Publish
<1>8. CASE Complete(w)
  BY <1>4, <1>7, <1>8, CompleteMakes
<1>9. CASE Put(w) \/ (AddFragment(w) /\ ~(wr[w].cut < wr[w].len))
  BY <1>4, <1>7, <1>9, GraphMakes
<1>10. CASE Refuse(w) \/ WrongType(w) \/ StorePart(w) \/ StartSession(w) \/ CancelSession(w)
            \/ (AddFragment(w) /\ wr[w].cut < wr[w].len)
  <2>1. object' = object /\ published' = published
    BY <1>10 DEF Refuse, WrongType, StorePart, StartSession, CancelSession, AddFragment
  <2> QED BY <1>4, <1>5, <2>1
<1> QED BY <1>4, <1>6, <1>8, <1>9, <1>10 DEF Serve

LEMMA StoreInit ==
  ASSUME Init
  PROVE  Store!Init
<1>1. ObjectHeld = "before"
  BY DEF Init, ObjectHeld
<1>2. Phase = [w \in Writers |-> "new"]
  BY PhaseIs, FreshFacts DEF Init, PhaseOf
<1> QED BY <1>1, <1>2 DEF Init, Store!Init

LEMMA StoreNext ==
  ASSUME IInv, IInv', [Next]_vars
  PROVE  [Store!Next]_(Store!vars)
<1>1. CASE UNCHANGED vars
  <2>1. ObjectHeld' = ObjectHeld /\ Phase' = Phase
    BY <1>1 DEF vars, ObjectHeld, Phase, Whole
  <2> QED BY <1>1, <2>1 DEF vars, Store!vars
<1>2. ASSUME NEW w \in Writers, Create(w)
      PROVE  Store!Next
  BY <1>2, CreateBegins DEF Store!Next
<1>3. ASSUME NEW w \in Writers, Poll(w)
      PROVE  Store!Next
  BY <1>3, PollRefines
<1>4. ASSUME NEW w \in Writers, Serve(w)
      PROVE  Store!Next
  BY <1>4, ServeRefines
<1>5. CASE (\E w \in Writers : Drop(w) \/ S3Abort(w)) \/ Kill
  BY <1>5, EndingRefines
<1> QED BY <1>1, <1>2, <1>3, <1>4, <1>5 DEF Next

\* On S3, Azure and OneDrive the writers implement the promise of StagedWrite: the
\* object goes in one step from the old one to all of one upload, before that upload
\* is acknowledged.
THEOREM WritersImplement == Spec => StoreSpec
<1>1. Init => Store!Init
  BY StoreInit
<1>2. IInv /\ IInv' /\ [Next]_vars => [Store!Next]_(Store!vars)
  BY StoreNext
<1> QED BY <1>1, <1>2, Inductive, PTL DEF Spec, StoreSpec, Store!Spec

====
