---------------------------- MODULE UploadWriter ----------------------------
(***************************************************************************)
(* The writers StorageBackend::write returns on S3 (a multipart upload),    *)
(* Azure Blob (staged blocks and a block list) and OneDrive (a spill file,  *)
(* then one PUT or an upload session), with the callers that feed them and  *)
(* the store behind them. All uploads here are to one name, on the service  *)
(* that Init chooses. A caller stops at the first error and drops its       *)
(* writer, or drops it early (cancel, pause, the program's end); a request  *)
(* under way then may still arrive. Retries are further writers.            *)
(*                                                                          *)
(* Bytes are counted in units: the writer w sends the units 1 .. len, and a *)
(* part is an interval of them.                                             *)
(***************************************************************************)
EXTENDS Naturals, Sequences

CONSTANTS
  Writers,    \* the uploads of the name
  Services,   \* the backends to consider, of "s3", "azure" and "onedrive"
  Lens,       \* the lengths an upload may have, in units
  PartSize,   \* PART_SIZE of s3.rs and azblob.rs, in units
  SmallMax,   \* SMALL_MAX of onedrive.rs, in units
  Fragment,   \* FRAGMENT of onedrive.rs, in units
  MaxParts,   \* the store's limit on parts or blocks (10000 on S3)
  Nobody      \* the author of what was there before

ASSUME UploadAssumption ==
  /\ Services \subseteq {"s3", "azure", "onedrive"}
  /\ Lens \subseteq Nat
  /\ {PartSize, SmallMax, Fragment, MaxParts} \subseteq Nat \ {0}
  /\ Nobody \notin Writers

VARIABLES
  service,    \* the backend, one for each behaviour
  before,     \* the object before the first upload
  object,     \* the object as readers see it
  wr,         \* the writers, each with its one request
  staged,     \* parts the store holds that are in no object yet
  open,       \* is the writer's multipart upload or upload session open
  abort,      \* the abort of a multipart upload
  published,  \* the uploads whose whole bytes have been the object (history)
  clash       \* has one upload begun while another was under way (history)

vars == <<service, before, object, wr, staged, open, abort, published, clash>>

----------------------------------------------------------------------------
(* Parts and objects *)

Part(w, first, last) == [by |-> w, first |-> first, last |-> last]
NoPart == Part(Nobody, 0, 0)

Absent == [type |-> "absent", parts |-> <<>>]
Older(type) == [type |-> type, parts |-> <<Part(Nobody, 1, 1)>>]

\* Do these parts, in order, make up the whole of what w was given?
Whole(w, ps) ==
  /\ ps # <<>>
  /\ \A i \in 1 .. Len(ps) : ps[i].by = w
  /\ ps[1].first = 1 /\ ps[Len(ps)].last = wr[w].len
  /\ \A i \in 1 .. Len(ps) - 1 : ps[i + 1].first = ps[i].last + 1

\* Azure keeps the uncommitted blocks of a name together, whoever staged them.
Slots == Writers \cup {Nobody}
Slot(w) == IF service = "azure" THEN Nobody ELSE w
NoParts == [i \in 1 .. MaxParts |-> NoPart]

\* A writer: what its caller does, the bytes given (sent) and cut into parts
\* (cut), the number of the last part and of the parts listed for the end, and
\* the request in flight (op) with the answer it got (ans).
Fresh == [pc |-> "new", len |-> 0, sent |-> 0, first |-> 1, cut |-> 0, n |-> 0, listed |-> 0,
          op |-> "none", ans |-> "none"]

Live(w) == wr[w].pc \in {"writing", "closing"}
InFlight(w) == wr[w].op # "none" /\ wr[w].ans = "none"
Active(w) == Live(w) \/ InFlight(w)

Drained(r) == r.op = "none" \/ (r.op \in {"part", "restage"} /\ r.ans = "ok")

Request(r, op) == [r EXCEPT !.op = op, !.ans = "none"]
Settled(r, pc) == [r EXCEPT !.pc = pc, !.op = "none", !.ans = "none"]

\* The writer is dropped; a request that has no answer yet may still arrive.
Dropped(r) == IF r.ans = "none" THEN [r EXCEPT !.pc = "gone"] ELSE Settled(r, "gone")

\* The bytes not yet cut become the next part.
Cut(r) == [Request(r, "part") EXCEPT !.first = r.cut + 1, !.cut = r.sent, !.n = @ + 1]

Init ==
  /\ service \in Services
  /\ before \in {Absent, Older("block")}
                  \cup IF service = "azure" THEN {Older("append")} ELSE {}
  /\ object = before
  /\ wr = [w \in Writers |-> Fresh]
  /\ staged = [s \in Slots |-> NoParts]
  /\ open = [w \in Writers |-> FALSE]
  /\ abort = [w \in Writers |-> "none"]
  /\ published = {}
  /\ clash = FALSE

\* A caller has its writer, or not; what it does from here on.
Opened(w, pc) ==
  /\ wr[w].pc = "new"
  /\ \E len \in Lens : wr' = [wr EXCEPT ![w].pc = pc, ![w].len = len]
  /\ clash' = (clash \/ \E v \in Writers : Active(v))
  /\ UNCHANGED <<service, before, object, staged, published>>

\* The store and the callers leave these to the writers.
Outside == <<service, before, object, staged, published, clash>>

----------------------------------------------------------------------------
(* S3MultipartWriter *)

\* write(): CreateMultipartUpload. It is refused, or its answer is lost and the
\* upload stays open with nobody to abort it.
S3Create(w) ==
  /\ service = "s3"
  /\ \/ /\ Opened(w, "writing")
        /\ open' = [open EXCEPT ![w] = TRUE]
        /\ UNCHANGED abort
     \/ /\ Opened(w, "failed")
        /\ UNCHANGED <<open, abort>>
     \/ /\ Opened(w, "failed")
        /\ open' = [open EXCEPT ![w] = TRUE]
        /\ abort' = [abort EXCEPT ![w] = "lost"]

\* drive_upload: the answered part joins the list.
S3Bank(r) ==
  IF r.op = "part" /\ r.ans = "ok" THEN [Settled(r, r.pc) EXCEPT !.listed = @ + 1] ELSE r

S3Write(w) ==
  /\ service = "s3" /\ wr[w].pc = "writing"
  /\ wr[w].sent < wr[w].len /\ Drained(wr[w])
  /\ LET r == [S3Bank(wr[w]) EXCEPT !.sent = @ + 1]
     IN wr' = [wr EXCEPT ![w] = IF r.sent - r.cut >= PartSize THEN Cut(r) ELSE r]
  /\ UNCHANGED <<open, abort, Outside>>

\* A save (tokio::io::copy) flushes before it shuts down; a transfer does not.
S3Flush(w) ==
  /\ service = "s3" /\ wr[w].pc = "writing"
  /\ wr[w].op = "part" /\ wr[w].ans = "ok"
  /\ wr' = [wr EXCEPT ![w] = S3Bank(@)]
  /\ UNCHANGED <<open, abort, Outside>>

\* Mutant: only an object with no part yet has its rest sent.
S3TailForgets(r) == IF r.listed = 0 THEN Cut(r) ELSE Request(r, "complete")

\* What is left goes as the last part; an empty object has one, empty, part.
S3Complete(r) == Request(r, "complete")
S3Tail(r) == IF r.listed = 0 \/ r.sent > r.cut THEN Cut(r) ELSE S3Complete(r)

S3Shutdown(w) ==
  /\ service = "s3" /\ Live(w)
  /\ wr[w].sent = wr[w].len /\ Drained(wr[w])
  /\ wr' = [wr EXCEPT ![w] = S3Tail([S3Bank(@) EXCEPT !.pc = "closing"])]
  /\ UNCHANGED <<open, abort, Outside>>

S3Completed(w) ==
  /\ service = "s3" /\ Live(w)
  /\ wr[w].op = "complete" /\ wr[w].ans = "ok"
  /\ wr' = [wr EXCEPT ![w] = Settled(@, "ok")]
  /\ UNCHANGED <<open, abort, Outside>>

\* Mutant: a failed completion counts as the end of the upload.
S3FailTerminated(w) ==
  /\ service = "s3" /\ Live(w)
  /\ wr[w].ans \in {"refused", "lost"}
  /\ wr' = [wr EXCEPT ![w] = Settled(@, "failed")]
  /\ abort' = [abort EXCEPT ![w] = IF wr[w].op = "complete" THEN "done" ELSE "pending"]
  /\ UNCHANGED <<open, Outside>>

\* Mutant: the caller shuts its writer down after the error, and Done answers Ok.
S3FailThenShutdown(w) ==
  /\ service = "s3" /\ Live(w)
  /\ wr[w].ans \in {"refused", "lost"}
  /\ wr' = [wr EXCEPT ![w] = Settled(@, IF @.pc = "writing" THEN "ok" ELSE "failed")]
  /\ abort' = [abort EXCEPT ![w] = "pending"]
  /\ UNCHANGED <<open, Outside>>

\* Mutant: an error is only reported while bytes are being written.
S3FailWhileWriting(w) ==
  /\ service = "s3" /\ wr[w].pc = "writing"
  /\ wr[w].ans \in {"refused", "lost"}
  /\ wr' = [wr EXCEPT ![w] = Settled(@, "failed")]
  /\ abort' = [abort EXCEPT ![w] = "pending"]
  /\ UNCHANGED <<open, Outside>>

\* A part or the completion failed: abort_mpu, and the caller gets the error.
S3Fail(w) ==
  /\ service = "s3" /\ Live(w)
  /\ wr[w].ans \in {"refused", "lost"}
  /\ wr' = [wr EXCEPT ![w] = Settled(@, "failed")]
  /\ abort' = [abort EXCEPT ![w] = "pending"]
  /\ UNCHANGED <<open, Outside>>

\* Drop before the end: the abort is spawned while a request may be under way.
S3Drop(w) ==
  /\ service = "s3" /\ Live(w)
  /\ wr' = [wr EXCEPT ![w] = Dropped(@)]
  /\ abort' = [abort EXCEPT ![w] = "pending"]
  /\ UNCHANGED <<open, Outside>>

\* spawn_abort's task: the store forgets the upload, or never hears of it.
S3Abort(w) ==
  /\ abort[w] = "pending"
  /\ \/ /\ abort' = [abort EXCEPT ![w] = "done"]
        /\ open' = [open EXCEPT ![w] = FALSE]
        /\ staged' = [staged EXCEPT ![w] = NoParts]
     \/ /\ abort' = [abort EXCEPT ![w] = "lost"]
        /\ UNCHANGED <<open, staged>>
  /\ UNCHANGED <<service, before, object, wr, published, clash>>

----------------------------------------------------------------------------
(* AzBlockWriter: the n-th block of every writer has the same id *)

\* write() asks the store for nothing.
AzCreate(w) ==
  /\ service = "azure"
  /\ Opened(w, "writing")
  /\ UNCHANGED <<open, abort>>

\* start_stage lists the block before the store has it.
AzCut(r) == [Cut(r) EXCEPT !.listed = @ + 1]

AzBank(r) == IF r.op \in {"part", "restage"} /\ r.ans = "ok" THEN Settled(r, r.pc) ELSE r

AzWrite(w) ==
  /\ service = "azure" /\ wr[w].pc = "writing"
  /\ wr[w].sent < wr[w].len /\ Drained(wr[w])
  /\ LET r == [AzBank(wr[w]) EXCEPT !.sent = @ + 1]
     IN wr' = [wr EXCEPT ![w] = IF r.sent - r.cut >= PartSize THEN AzCut(r) ELSE r]
  /\ UNCHANGED <<open, abort, Outside>>

AzFlush(w) ==
  /\ service = "azure" /\ wr[w].pc = "writing"
  /\ wr[w].op \in {"part", "restage"} /\ wr[w].ans = "ok"
  /\ wr' = [wr EXCEPT ![w] = AzBank(@)]
  /\ UNCHANGED <<open, abort, Outside>>

\* Mutant: whatever is wrong with the first block, the old blob has to go.
AzRecoverAlways(w) ==
  /\ service = "azure" /\ Live(w)
  /\ wr[w].op = "part" /\ wr[w].n = 1
  /\ wr[w].ans \in {"wrongtype", "refused"}
  /\ wr' = [wr EXCEPT ![w] = Request(@, "delete")]
  /\ UNCHANGED <<open, abort, Outside>>

\* The first block met a blob of another type: delete it, and stage again.
AzRecover(w) ==
  /\ service = "azure" /\ Live(w)
  /\ wr[w].op = "part" /\ wr[w].n = 1 /\ wr[w].ans = "wrongtype"
  /\ wr' = [wr EXCEPT ![w] = Request(@, "delete")]
  /\ UNCHANGED <<open, abort, Outside>>

AzRestage(w) ==
  /\ service = "azure" /\ Live(w)
  /\ wr[w].op = "delete" /\ wr[w].ans = "ok"
  /\ wr' = [wr EXCEPT ![w] = Request(@, "restage")]
  /\ UNCHANGED <<open, abort, Outside>>

AzComplete(r) == Request(r, "complete")
AzTail(r) == IF r.listed = 0 \/ r.sent > r.cut THEN AzCut(r) ELSE AzComplete(r)

AzShutdown(w) ==
  /\ service = "azure" /\ Live(w)
  /\ wr[w].sent = wr[w].len /\ Drained(wr[w])
  /\ wr' = [wr EXCEPT ![w] = AzTail([AzBank(@) EXCEPT !.pc = "closing"])]
  /\ UNCHANGED <<open, abort, Outside>>

AzCommitted(w) ==
  /\ service = "azure" /\ Live(w)
  /\ wr[w].op = "complete" /\ wr[w].ans = "ok"
  /\ wr' = [wr EXCEPT ![w] = Settled(@, "ok")]
  /\ UNCHANGED <<open, abort, Outside>>

AzFail(w) ==
  /\ service = "azure" /\ Live(w)
  /\ \/ wr[w].ans \in {"refused", "lost"}
     \/ wr[w].ans = "wrongtype" /\ (wr[w].op = "restage" \/ wr[w].n > 1)
  /\ wr' = [wr EXCEPT ![w] = Settled(@, "failed")]
  /\ UNCHANGED <<open, abort, Outside>>

\* Nothing to clean up: Azure collects uncommitted blocks after a week.
AzDrop(w) ==
  /\ service = "azure" /\ Live(w)
  /\ wr' = [wr EXCEPT ![w] = Dropped(@)]
  /\ UNCHANGED <<open, abort, Outside>>

----------------------------------------------------------------------------
(* GraphUploadWriter: everything is spilled to a temp file first *)

GraphCreate(w) ==
  /\ service = "onedrive"
  /\ Opened(w, "writing") \/ Opened(w, "failed")
  /\ UNCHANGED <<open, abort>>

GraphWrite(w) ==
  /\ service = "onedrive" /\ wr[w].pc = "writing"
  /\ \/ wr[w].sent < wr[w].len /\ wr' = [wr EXCEPT ![w].sent = @ + 1]
     \/ wr' = [wr EXCEPT ![w] = Settled(@, "failed")]
  /\ UNCHANGED <<open, abort, Outside>>

\* start_finalize: a small file in one PUT, a larger one in a session.
GraphPut(r) == Request(r, "put")
GraphSession(r) == Request(r, "session")
GraphFinalize(r) == IF r.len <= SmallMax THEN GraphPut(r) ELSE GraphSession(r)

GraphShutdown(w) ==
  /\ service = "onedrive" /\ wr[w].pc = "writing" /\ wr[w].sent = wr[w].len
  /\ wr' = [wr EXCEPT ![w] = [GraphFinalize(@) EXCEPT !.pc = "closing"]]
  /\ UNCHANGED <<open, abort, Outside>>

\* Mutant: every fragment is taken to be a whole one.
GraphNextUncut(r) == [Request(r, "fragment") EXCEPT !.first = r.cut + 1, !.cut = @ + Fragment]

\* The next fragment of the file; each but the last is FRAGMENT long.
GraphNext(r) ==
  [Request(r, "fragment") EXCEPT
     !.first = r.cut + 1,
     !.cut = IF r.cut + Fragment < r.len THEN r.cut + Fragment ELSE r.len]

GraphFragment(w) ==
  /\ service = "onedrive" /\ Live(w)
  /\ \/ wr[w].op = "session" /\ wr[w].ans = "ok"
     \/ wr[w].op = "fragment" /\ wr[w].ans = "more" /\ wr[w].cut < wr[w].len
  /\ wr' = [wr EXCEPT ![w] = GraphNext(@)]
  /\ UNCHANGED <<open, abort, Outside>>

\* Mutant: any success of a fragment ends the upload.
GraphDoneEarly(w) ==
  /\ service = "onedrive" /\ Live(w)
  /\ wr[w].op \in {"put", "fragment"} /\ wr[w].ans \in {"ok", "more"}
  /\ wr' = [wr EXCEPT ![w] = Settled(@, "ok")]
  /\ UNCHANGED <<open, abort, Outside>>

\* The PUT or a fragment is answered 200 or 201, or there is nothing more to send.
GraphDone(w) ==
  /\ service = "onedrive" /\ Live(w)
  /\ \/ wr[w].op \in {"put", "fragment"} /\ wr[w].ans = "ok"
     \/ wr[w].op = "fragment" /\ wr[w].ans = "more" /\ wr[w].cut = wr[w].len
  /\ wr' = [wr EXCEPT ![w] = Settled(@, "ok")]
  /\ UNCHANGED <<open, abort, Outside>>

\* An error: a fragment the store refused has the session deleted first.
GraphFail(w) ==
  /\ service = "onedrive" /\ Live(w)
  /\ \/ wr[w].ans \in {"refused", "lost"}
     \/ wr[w].op = "cancel" /\ wr[w].ans = "ok"
  /\ wr' = [wr EXCEPT ![w] = IF @.op = "fragment" /\ @.ans = "refused"
                             THEN Request(@, "cancel") ELSE Settled(@, "failed")]
  /\ UNCHANGED <<open, abort, Outside>>

GraphDrop(w) ==
  /\ service = "onedrive" /\ Live(w)
  /\ wr' = [wr EXCEPT ![w] = Dropped(@)]
  /\ UNCHANGED <<open, abort, Outside>>

----------------------------------------------------------------------------
(* The store. What a request does and its answer are one step; the answer may  *)
(* get lost, and any request may be refused (throttling, a full quota) or not   *)
(* arrive at all.                                                              *)

Answer(w, a) ==
  wr' = [wr EXCEPT ![w] = IF Live(w) THEN [@ EXCEPT !.ans = a] ELSE Settled(@, @.pc)]

Answered(w, a) == Answer(w, a) \/ Answer(w, "lost")

Replace(w, ps) ==
  /\ object' = [type |-> "block", parts |-> ps]
  /\ published' = IF Whole(w, ps) THEN published \cup {w} ELSE published

Refuse(w) ==
  /\ InFlight(w)
  /\ Answered(w, "refused")
  /\ UNCHANGED <<object, staged, open, published>>

WrongType(w) ==
  /\ InFlight(w) /\ wr[w].op \in {"part", "restage"}
  /\ service = "azure" /\ object.type = "append"
  /\ Answered(w, "wrongtype")
  /\ UNCHANGED <<object, staged, open, published>>

StorePart(w) ==
  /\ InFlight(w) /\ wr[w].op \in {"part", "restage"} /\ wr[w].n <= MaxParts
  /\ IF service = "azure" THEN object.type # "append" ELSE open[w]
  /\ staged' = [staged EXCEPT ![Slot(w)][wr[w].n] = Part(w, wr[w].first, wr[w].cut)]
  /\ Answered(w, "ok")
  /\ UNCHANGED <<object, open, published>>

\* CompleteMultipartUpload and Put Block List: the parts numbered 1 .. listed,
\* on Azure the latest block of that id, committed ones included.
PartNamed(w, i) ==
  IF service = "azure" /\ staged[Nobody][i] = NoPart /\ object.type = "block"
                       /\ i <= Len(object.parts)
  THEN object.parts[i] ELSE staged[Slot(w)][i]

Complete(w) ==
  /\ InFlight(w) /\ wr[w].op = "complete" /\ wr[w].listed \in 1 .. MaxParts
  /\ IF service = "azure" THEN object.type # "append" ELSE open[w]
  /\ \A i \in 1 .. wr[w].listed : PartNamed(w, i) # NoPart
  /\ Replace(w, [i \in 1 .. wr[w].listed |-> PartNamed(w, i)])
  /\ staged' = [staged EXCEPT ![Slot(w)] = NoParts]
  /\ open' = [open EXCEPT ![w] = FALSE]
  /\ Answered(w, "ok")

DeleteBlob(w) ==
  /\ InFlight(w) /\ wr[w].op = "delete" /\ object.type # "absent"
  /\ object' = Absent
  /\ Answered(w, "ok")
  /\ UNCHANGED <<staged, open, published>>

Put(w) ==
  /\ InFlight(w) /\ wr[w].op = "put"
  /\ Replace(w, <<Part(w, 1, wr[w].len)>>)
  /\ Answered(w, "ok")
  /\ UNCHANGED <<staged, open>>

StartSession(w) ==
  /\ InFlight(w) /\ wr[w].op = "session"
  /\ open' = [open EXCEPT ![w] = TRUE]
  /\ Answered(w, "ok")
  /\ UNCHANGED <<object, staged, published>>

\* A session takes its bytes in order, and the last of them ends it.
AddFragment(w) ==
  /\ InFlight(w) /\ wr[w].op = "fragment" /\ open[w]
  /\ wr[w].first = staged[w][1].last + 1
  /\ IF wr[w].cut < wr[w].len
     THEN /\ staged' = [staged EXCEPT ![w][1] = Part(w, 1, wr[w].cut)]
          /\ Answered(w, "more")
          /\ UNCHANGED <<object, open, published>>
     ELSE /\ staged' = [staged EXCEPT ![w] = NoParts]
          /\ open' = [open EXCEPT ![w] = FALSE]
          /\ Replace(w, <<Part(w, 1, wr[w].cut)>>)
          /\ Answered(w, "ok")

CancelSession(w) ==
  /\ InFlight(w) /\ wr[w].op = "cancel"
  /\ open' = [open EXCEPT ![w] = FALSE]
  /\ staged' = [staged EXCEPT ![w] = NoParts]
  /\ Answered(w, "ok")
  /\ UNCHANGED <<object, published>>

Serve(w) ==
  /\ \/ Refuse(w) \/ WrongType(w) \/ StorePart(w) \/ Complete(w) \/ DeleteBlob(w)
     \/ Put(w) \/ StartSession(w) \/ AddFragment(w) \/ CancelSession(w)
  /\ UNCHANGED <<service, before, abort, clash>>

----------------------------------------------------------------------------
\* The program ends: writers and spawned aborts are gone, requests on their way
\* may arrive.
Kill ==
  /\ \E w \in Writers : Live(w) \/ abort[w] = "pending"
  /\ wr' = [w \in Writers |-> IF Live(w) THEN Dropped(wr[w]) ELSE wr[w]]
  /\ abort' = [w \in Writers |-> IF abort[w] = "pending" \/ (service = "s3" /\ Live(w))
                                 THEN "lost" ELSE abort[w]]
  /\ UNCHANGED <<open, Outside>>

Create(w) == S3Create(w) \/ AzCreate(w) \/ GraphCreate(w)

\* A step of the writer its caller waits for.
Poll(w) ==
  \/ S3Write(w) \/ S3Flush(w) \/ S3Shutdown(w) \/ S3Completed(w) \/ S3Fail(w)
  \/ AzWrite(w) \/ AzFlush(w) \/ AzRecover(w) \/ AzRestage(w) \/ AzShutdown(w)
  \/ AzCommitted(w) \/ AzFail(w)
  \/ GraphWrite(w) \/ GraphShutdown(w) \/ GraphFragment(w) \/ GraphDone(w) \/ GraphFail(w)

Drop(w) == S3Drop(w) \/ AzDrop(w) \/ GraphDrop(w)

Next ==
  \/ \E w \in Writers : Create(w) \/ Poll(w) \/ Drop(w) \/ S3Abort(w) \/ Serve(w)
  \/ Kill

\* A caller polls a writer it has, requests are answered or fail, spawned tasks
\* run; nobody has to begin, drop or kill anything.
Fairness ==
  \A w \in Writers : WF_vars(Poll(w)) /\ WF_vars(Serve(w)) /\ WF_vars(S3Abort(w))

Spec == Init /\ [][Next]_vars /\ Fairness

----------------------------------------------------------------------------
(* Properties *)

\* Every part is an interval of some writer's bytes, every writer, request and
\* answer is one of those named, and only S3 aborts.
Parts ==
  [by : Writers \cup {Nobody}, first : Nat, last : Nat]
Writer ==
  [pc : {"new", "writing", "closing", "ok", "failed", "gone"},
   len : Nat, sent : Nat, first : Nat, cut : Nat, n : Nat, listed : Nat,
   op : {"none", "part", "restage", "delete", "complete", "put", "session", "fragment", "cancel"},
   ans : {"none", "ok", "more", "wrongtype", "refused", "lost"}]
TypeOK ==
  /\ service \in Services
  /\ before.type \in {"absent", "block", "append"}
  /\ object.type \in {"absent", "block", "append"}
  /\ object.parts \in Seq(Parts)
  /\ wr \in [Writers -> Writer]
  /\ \A w \in Writers : wr[w].cut <= wr[w].sent /\ wr[w].sent <= wr[w].len
  /\ staged \in [Slots -> [1 .. MaxParts -> Parts]]
  /\ open \in [Writers -> BOOLEAN]
  /\ abort \in [Writers -> {"none", "pending", "done", "lost"}]
  /\ published \subseteq Writers
  /\ clash \in BOOLEAN

\* Writers of one blob on Azure share its block ids; they may mix if they overlap.
Mixing == service = "azure" /\ clash

\* Readers see the old object, none, or the whole of one upload: never part of
\* one, never bytes of two, whatever fails, is dropped or arrives late.
OnlyWholeObjects ==
  Mixing \/ object \in {before, Absent} \/ \E w \in Writers : Whole(w, object.parts)

\* A writer whose shutdown answered Ok did replace the object by all it was given.
OkMeansPublished ==
  Mixing \/ \A w \in Writers : wr[w].pc = "ok" => w \in published

\* As long as no upload has replaced the object it is what it was, however many
\* failed, except for an append or page blob, which Azure makes us delete first.
OldSurvivesFailure ==
  Mixing \/ published # {} \/ object = before
    \/ (service = "azure" /\ before.type = "append" /\ object = Absent)

\* An S3 upload left open by a writer that is no more has its abort coming, or
\* that abort, or the answer that told us the upload's id, was lost.
DanglingIsExplained ==
  service = "s3" =>
    \A w \in Writers : open[w] /\ ~Live(w) => abort[w] \in {"pending", "lost"}

\* A caller that goes on polling its writer gets an answer in the end.
WritersEnd == \A w \in Writers : Live(w) ~> ~Live(w)

\* The refinement: see StagedWrite.
ObjectHeld ==
  IF object = before THEN "before"
  ELSE IF object.type = "absent" THEN "lost"
  ELSE IF \E w \in Writers : Whole(w, object.parts)
    THEN CHOOSE w \in Writers : Whole(w, object.parts)
  ELSE "mixed"

Phase ==
  [w \in Writers |-> CASE wr[w].pc \in {"writing", "closing"} -> "going"
                       [] wr[w].pc \in {"failed", "gone"} -> "over"
                       [] OTHER -> wr[w].pc]

Store == INSTANCE StagedWrite WITH
  object <- ObjectHeld, phase <- Phase,
  shared <- service = "azure", convertible <- service = "azure" /\ before.type = "append"

\* On each of the three services the writers implement the promise of StagedWrite.
StoreSpec == Store!Spec
==============================================================================
