------------------------- MODULE EditSessionProofs -------------------------
(***************************************************************************)
(* Proofs about EditSession, for every number of files, sessions and        *)
(* commands in flight. The inductive invariant has three parts, each a      *)
(* statement about one session or one actor at a time: the Shape of the     *)
(* records (types, whose loop is whose, which path an actor is at), what    *)
(* has been Seen of the remote files, and which saves the temp files Keep.  *)
(***************************************************************************)
EXTENDS EditSession, TLAPS

----------------------------------------------------------------------------
(* The inductive invariant *)

Stages == {"idle", "draining", "copying", "next", "sweep", "leave"} \cup Saving \cup Downloading
SessT == [st : {"unborn", "open", "closed"}, path : Paths \cup {NoPath},
          base : BOOLEAN, synced : BOOLEAN, event : BOOLEAN, conflict : BOOLEAN, told : BOOLEAN]
ActT == [kind : {"none", "loop"} \cup Kinds, pc : Stages,
         s : Sessions \cup {NoSession}, path : Paths \cup {NoPath},
         stat : BOOLEAN, mark : BOOLEAN, copy : {"none", "latest", "old", "half"},
         clean : BOOLEAN, keep : BOOLEAN, cut : BOOLEAN, todo : SUBSET Sessions]
RemoteT == [has : {"whole", "part", "none"}, change : {"known", "theirs", "raced"}]

\* The steps between the upload's start and the record of its outcome.
Uploading == Sending \cup {"record"}

\* At these steps an actor is at work on a path.
OnPath == {"copying", "sweep"} \cup Saving \cup Downloading

\* A registered session has a path, and no other has a baseline.
SessFits(x) ==
  /\ x \in SessT
  /\ x.st # "unborn" => x.path \in Paths
  /\ x.base => x.path \in Paths

\* The loop of s runs while s is open and saves s only.
LoopFits(s, r, x) ==
  /\ (r.kind = "loop") <=> (x.st = "open")
  /\ r.kind = "loop" =>
       /\ r.path = x.path
       /\ r.pc \in {"idle", "draining"} \cup Saving
       /\ r.pc \in Saving => r.s = s
  /\ r.kind # "loop" => r.kind = "none" /\ r.pc = "idle"

\* An actor's session is registered, on the path the actor is at.
ActFits(a, r, S) ==
  /\ r \in ActT
  /\ a \in Sessions => LoopFits(a, r, S[a])
  /\ a \notin Sessions => r.kind # "loop" /\ r.pc # "draining"
  /\ r.s # NoSession => S[r.s].st # "unborn" /\ S[r.s].path = r.path
  /\ \A s \in r.todo : S[s].st # "unborn"
  /\ r.pc \in OnPath => r.path \in Paths

Shape ==
  /\ temp \in [Paths -> TempKind]
  /\ remote \in [Paths -> RemoteT]
  /\ connected \in BOOLEAN
  /\ sess \in [Sessions -> SessT]
  /\ act \in [Actors -> ActT]
  /\ \A s \in Sessions : SessFits(sess[s])
  /\ \A a \in Actors : ActFits(a, act[a], sess)

\* A recorded stat that still is the file's is not of an unread foreign change,
\* nor is the file after a look at it that an upload or a download relies on.
SessSaw(x, R) == x.base => R[x.path].change # "theirs"
ActSaw(r, R) ==
  /\ r.stat => r.path \in Paths /\ R[r.path].change # "theirs"
  /\ r.pc \in {"same", "stat"} \cup Filling => R[r.path].change # "theirs"
  /\ r.pc \in Sending /\ r.kind # "force" => R[r.path].change # "theirs"

Seen ==
  /\ \A s \in Sessions : SessSaw(sess[s], remote)
  /\ \A a \in Actors : ActSaw(act[a], remote)

\* An open session with a save not yet on the remote attends to it: the loop has
\* or will get an event, or the user knows. A loop whose mark is stale has one.
Attends(x, r, T) ==
  /\ x.st = "open" /\ T[x.path] = "tracked" =>
       /\ ~x.synced
       /\ x.event \/ r.pc # "idle" \/ x.conflict \/ x.told
  /\ r.pc \in Uploading /\ ~r.mark => x.event

\* An actor about to record an mtime, or to delete, has no save to lose.
ActKeeps(a, r, T) ==
  /\ r.pc \in {"fill", "restat", "rebase"} => T[r.path] # "tracked"
  /\ r.pc \in {"stat", "record"} /\ r.mark => T[r.path] # "tracked"
  /\ r.pc = "publish" /\ r.mark => r.copy = "latest" \/ T[r.path] # "tracked"
  /\ a \notin Sessions /\ r.pc \in Uploading /\ ~r.mark => T[r.path] # "tracked"
  /\ r.pc = "sweep" /\ r.clean => T[r.path] # "tracked"

Kept ==
  /\ \A s \in Sessions : Attends(sess[s], act[s], temp)
  /\ \A a \in Actors : ActKeeps(a, act[a], temp)

IInv == Shape /\ Seen /\ Kept

----------------------------------------------------------------------------
(* Records that lost some of what they had noted *)

\* A record like another: it may have lost its stat or its mark.
Like(r2, r) ==
  /\ r2 \in ActT
  /\ r2.kind = r.kind /\ r2.pc = r.pc /\ r2.s = r.s /\ r2.path = r.path
  /\ r2.todo = r.todo /\ r2.clean = r.clean
  /\ r2.stat => r.stat
  /\ r2.mark => r.mark /\ r2.copy = r.copy

\* A session like another: it may have lost its baselines or got an event.
Calm(x2, x) ==
  /\ x2 \in SessT
  /\ x2.st = x.st /\ x2.path = x.path
  /\ x2.conflict = x.conflict /\ x2.told = x.told
  /\ x2.base => x.base
  /\ x2.synced => x.synced
  /\ x.event => x2.event

\* No session loses its place, or its path.
Standing(S2, S) ==
  \A s \in Sessions : S[s].st # "unborn" => S2[s].st # "unborn" /\ S2[s].path = S[s].path

\* No save becomes tracked.
Fewer(T2, T) == \A p \in Paths : T2[p] = "tracked" => T[p] = "tracked"

\* No foreign change becomes unread.
Seener(R2, R) == \A p \in Paths : R2[p].change = "theirs" => R[p].change = "theirs"

LEMMA FitsLike ==
  ASSUME NEW a, NEW r, NEW r2, NEW S, ActFits(a, r, S), Like(r2, r)
  PROVE  ActFits(a, r2, S)
BY DEF ActFits, Like, LoopFits

LEMMA FitsStanding ==
  ASSUME NEW a, NEW r, NEW S, NEW S2, ActFits(a, r, S), Standing(S2, S),
         a \in Sessions => (S2[a].st = "open" <=> S[a].st = "open")
  PROVE  ActFits(a, r, S2)
<1>1. r.s \in Sessions \cup {NoSession} /\ r.todo \in SUBSET Sessions
  BY DEF ActFits, ActT
<1>2. a \in Sessions => LoopFits(a, r, S2[a])
  BY DEF ActFits, LoopFits, Standing
<1>3. r.s # NoSession => S2[r.s].st # "unborn" /\ S2[r.s].path = r.path
  BY <1>1 DEF ActFits, Standing
<1>4. \A s \in r.todo : S2[s].st # "unborn"
  BY <1>1 DEF ActFits, Standing
<1> QED BY <1>2, <1>3, <1>4 DEF ActFits

LEMMA SawLike ==
  ASSUME NEW a, NEW r, NEW r2, NEW S, NEW R, NEW R2,
         ActFits(a, r, S), Like(r2, r), Seener(R2, R), ActSaw(r, R)
  PROVE  ActSaw(r2, R2)
<1>1. r.pc \in {"same", "stat"} \cup Filling \cup Sending => r.path \in Paths
  BY DEF ActFits, OnPath, Saving, Sending, Downloading
<1> QED BY <1>1 DEF ActSaw, Like, Seener

LEMMA KeepsLike ==
  ASSUME NEW a, NEW r, NEW r2, NEW S, NEW T, NEW T2,
         ActFits(a, r, S), Like(r2, r), Fewer(T2, T), ActKeeps(a, r, T),
         a \notin Sessions => r2.mark = r.mark \/ T2[r.path] # "tracked"
  PROVE  ActKeeps(a, r2, T2)
<1>1. r.pc \in {"fill", "restat", "rebase", "sweep"} \cup Uploading => r.path \in Paths
  BY DEF ActFits, OnPath, Saving, Sending, Downloading, Filling, Uploading
<1>2. r.pc \in {"fill", "restat", "rebase", "sweep"} \cup Uploading
        => (T2[r.path] = "tracked" => T[r.path] = "tracked")
  BY <1>1 DEF Fewer
<1>3. r2.pc = r.pc /\ r2.path = r.path /\ r2.clean = r.clean /\ (r2.mark => r.mark /\ r2.copy = r.copy)
  BY DEF Like
<1>4. r2.pc \in {"fill", "restat", "rebase"} => T2[r2.path] # "tracked"
  BY <1>2, <1>3 DEF ActKeeps
<1>5. r2.pc \in {"stat", "record"} /\ r2.mark => T2[r2.path] # "tracked"
  BY <1>2, <1>3 DEF ActKeeps, Uploading, Sending
<1>6. r2.pc = "publish" /\ r2.mark => r2.copy = "latest" \/ T2[r2.path] # "tracked"
  BY <1>2, <1>3 DEF ActKeeps, Uploading, Sending
<1>7. a \notin Sessions /\ r2.pc \in Uploading /\ ~r2.mark => T2[r2.path] # "tracked"
  BY <1>2, <1>3 DEF ActKeeps
<1>8. r2.pc = "sweep" /\ r2.clean => T2[r2.path] # "tracked"
  BY <1>2, <1>3 DEF ActKeeps
<1> QED BY <1>4, <1>5, <1>6, <1>7, <1>8 DEF ActKeeps

LEMMA SessFitsCalm ==
  ASSUME NEW x, NEW x2, SessFits(x), Calm(x2, x)
  PROVE  SessFits(x2)
BY DEF SessFits, Calm

LEMMA SessSawCalm ==
  ASSUME NEW x, NEW x2, NEW R, NEW R2, SessFits(x), Calm(x2, x), Seener(R2, R), SessSaw(x, R)
  PROVE  SessSaw(x2, R2)
BY DEF SessFits, Calm, Seener, SessSaw

LEMMA AttendsCalm ==
  ASSUME NEW s, NEW x, NEW x2, NEW r, NEW r2, NEW T, NEW T2,
         SessFits(x), LoopFits(s, r, x), Calm(x2, x), Like(r2, r), Fewer(T2, T),
         Attends(x, r, T), x.st = "open" /\ r.mark /\ ~r2.mark => x2.event
  PROVE  Attends(x2, r2, T2)
<1>1. x.st = "open" => (T2[x.path] = "tracked" => T[x.path] = "tracked")
  BY DEF SessFits, Fewer
<1>2. x2.st = "open" /\ T2[x2.path] = "tracked" =>
        ~x2.synced /\ (x2.event \/ r2.pc # "idle" \/ x2.conflict \/ x2.told)
  BY <1>1 DEF Attends, Calm, Like
<1>3. r.pc \in Uploading => x.st = "open"
  BY DEF LoopFits, Uploading, Sending
<1>4. r2.pc \in Uploading /\ ~r2.mark => x2.event
  BY <1>3 DEF Attends, Calm, Like
<1> QED BY <1>2, <1>4 DEF Attends

----------------------------------------------------------------------------
(* Steps that change one actor's record, and at most one session's *)

LEMMA Disjoint == Sessions \cap Calls = {} /\ NoSession \notin Sessions /\ NoPath \notin Paths
BY EditAssumption

LEMMA OwnStepAny ==
  ASSUME IInv, NEW a \in Actors, NEW s, NEW r2, NEW x2,
         act' = [act EXCEPT ![a] = r2], sess' = [sess EXCEPT ![s] = x2],
         UNCHANGED <<temp, remote>>, connected' \in BOOLEAN,
         ActFits(a, r2, sess), ActSaw(r2, remote), ActKeeps(a, r2, temp),
         s \in Sessions =>
           /\ SessFits(x2) /\ x2.st = sess[s].st /\ x2.path = sess[s].path
           /\ SessSaw(x2, remote)
           /\ Attends(x2, IF s = a THEN r2 ELSE act[s], temp),
         a \in Sessions /\ a # s => Attends(sess[a], r2, temp)
  PROVE  IInv'
<1>1. sess \in [Sessions -> SessT] /\ act \in [Actors -> ActT]
  BY DEF IInv, Shape
<1>2. r2 \in ActT
  BY DEF ActFits
<1>3. s \in Sessions => x2 \in SessT
  BY DEF SessFits
<1>4. sess' \in [Sessions -> SessT] /\ act' \in [Actors -> ActT]
  BY <1>1, <1>2, <1>3
<1>5. \A t \in Sessions : sess'[t] = IF t = s THEN x2 ELSE sess[t]
  BY <1>1
<1>6. \A b \in Actors : act'[b] = IF b = a THEN r2 ELSE act[b]
  BY <1>1
<1>7. Standing(sess', sess) /\ \A t \in Sessions : sess'[t].st = sess[t].st
  BY <1>5 DEF Standing
<1>8. \A b \in Actors : ActFits(b, act'[b], sess')
  <2> TAKE b \in Actors
  <2>1. ActFits(b, act'[b], sess)
    BY <1>6 DEF IInv, Shape
  <2> QED BY <2>1, <1>7, FitsStanding
<1>9. \A t \in Sessions : SessFits(sess'[t])
  BY <1>5 DEF IInv, Shape
<1>10. Shape'
  BY <1>4, <1>8, <1>9 DEF IInv, Shape
<1>11. Seen'
  BY <1>5, <1>6 DEF IInv, Seen
<1>12. \A b \in Actors : ActKeeps(b, act'[b], temp')
  BY <1>6 DEF IInv, Kept
<1>13. \A t \in Sessions : Attends(sess'[t], act'[t], temp')
  <2> TAKE t \in Sessions
  <2>1. t \in Actors
    BY DEF Actors
  <2>2. Attends(sess[t], act[t], temp)
    BY DEF IInv, Kept
  <2>3. CASE t = s
    BY <2>1, <2>3, <1>5, <1>6
  <2>4. CASE t # s /\ t = a
    BY <2>1, <2>4, <1>5, <1>6
  <2>5. CASE t # s /\ t # a
    BY <2>1, <2>2, <2>5, <1>5, <1>6
  <2> QED BY <2>3, <2>4, <2>5
<1>14. Kept'
  BY <1>12, <1>13 DEF Kept
<1> QED BY <1>10, <1>11, <1>14 DEF IInv

LEMMA OwnStep ==
  ASSUME IInv, NEW a \in Actors, NEW s, NEW r2, NEW x2,
         act' = [act EXCEPT ![a] = r2], sess' = [sess EXCEPT ![s] = x2],
         UNCHANGED <<temp, remote, connected>>,
         ActFits(a, r2, sess), ActSaw(r2, remote), ActKeeps(a, r2, temp),
         s \in Sessions =>
           /\ SessFits(x2) /\ x2.st = sess[s].st /\ x2.path = sess[s].path
           /\ SessSaw(x2, remote)
           /\ Attends(x2, IF s = a THEN r2 ELSE act[s], temp),
         a \in Sessions /\ a # s => Attends(sess[a], r2, temp)
  PROVE  IInv'
BY OwnStepAny DEF IInv, Shape

LEMMA SoloStep ==
  ASSUME IInv, NEW a \in Actors, NEW r2,
         act' = [act EXCEPT ![a] = r2], UNCHANGED <<temp, remote, connected, sess>>,
         ActFits(a, r2, sess), ActSaw(r2, remote), ActKeeps(a, r2, temp),
         a \in Sessions => Attends(sess[a], r2, temp)
  PROVE  IInv'
<1>1. sess' = [sess EXCEPT ![NoSession] = Unborn]
  BY Disjoint DEF IInv, Shape
<1> QED BY <1>1, Disjoint, OwnStep

----------------------------------------------------------------------------
(* A command that starts or ends a session, with its loop *)

LEMMA LoopStep ==
  ASSUME IInv, NEW c \in Calls, NEW s \in Sessions, NEW r2, NEW r3, NEW x2,
         act' = [act EXCEPT ![s] = r3, ![c] = r2], sess' = [sess EXCEPT ![s] = x2],
         UNCHANGED <<temp, remote, connected>>,
         ActFits(c, r2, sess'), ActSaw(r2, remote), ActKeeps(c, r2, temp),
         ActFits(s, r3, sess'), ActSaw(r3, remote), ActKeeps(s, r3, temp),
         SessFits(x2), SessSaw(x2, remote), Attends(x2, r3, temp),
         Standing(sess', sess)
  PROVE  IInv'
<1>1. sess \in [Sessions -> SessT] /\ act \in [Actors -> ActT]
  BY DEF IInv, Shape
<1>2. r2 \in ActT /\ r3 \in ActT /\ x2 \in SessT
  BY DEF ActFits, SessFits
<1>3. c \in Actors /\ s \in Actors /\ c # s
  BY Disjoint DEF Actors
<1>4. sess' \in [Sessions -> SessT] /\ act' \in [Actors -> ActT]
  BY <1>1, <1>2
<1>5. \A t \in Sessions : sess'[t] = IF t = s THEN x2 ELSE sess[t]
  BY <1>1
<1>6. \A b \in Actors : act'[b] = IF b = c THEN r2 ELSE IF b = s THEN r3 ELSE act[b]
  BY <1>1, <1>3
<1>7. \A b \in Actors : ActFits(b, act'[b], sess')
  <2> TAKE b \in Actors
  <2>1. CASE b = c \/ b = s
    BY <2>1, <1>6
  <2>2. CASE b # c /\ b # s
    <3>1. act'[b] = act[b] /\ ActFits(b, act[b], sess)
      BY <2>2, <1>6 DEF IInv, Shape
    <3>2. b \in Sessions => sess'[b].st = sess[b].st
      BY <2>2, <1>5
    <3> QED BY <3>1, <3>2, FitsStanding
  <2> QED BY <2>1, <2>2
<1>8. \A t \in Sessions : SessFits(sess'[t])
  BY <1>5 DEF IInv, Shape
<1>9. Shape'
  BY <1>4, <1>7, <1>8 DEF IInv, Shape
<1>10. Seen'
  BY <1>5, <1>6 DEF IInv, Seen
<1>11. \A b \in Actors : ActKeeps(b, act'[b], temp')
  BY <1>6 DEF IInv, Kept
<1>12. \A t \in Sessions : t \in Actors /\ t # c
  BY Disjoint DEF Actors
<1>13. \A t \in Sessions : Attends(sess'[t], act'[t], temp')
  BY <1>5, <1>6, <1>12 DEF IInv, Kept
<1>14. Kept'
  BY <1>11, <1>13 DEF Kept
<1> QED BY <1>9, <1>10, <1>14 DEF IInv

----------------------------------------------------------------------------
(* Steps that make what others noted stale *)

LEMMA TouchedTyped ==
  ASSUME Shape, NEW ps
  PROVE  /\ TouchedSessions(ps, sess) \in [Sessions -> SessT]
         /\ TouchedActors(ps, act) \in [Actors -> ActT]
<1>1. \A x \in SessT : [x EXCEPT !.synced = FALSE, !.event = @ \/ x.st = "open"] \in SessT
  <2> TAKE x \in SessT
  <2>1. (x.event \/ x.st = "open") \in BOOLEAN
    BY DEF SessT
  <2>2. [x EXCEPT !.synced = FALSE, !.event = TRUE] \in SessT
    BY DEF SessT
  <2>3. [x EXCEPT !.synced = FALSE, !.event = FALSE] \in SessT
    BY DEF SessT
  <2>4. CASE x.event \/ x.st = "open"
    BY <2>4, <2>2 DEF SessT
  <2>5. CASE ~(x.event \/ x.st = "open")
    BY <2>5, <2>3 DEF SessT
  <2> QED BY <2>4, <2>5
<1>2. \A r \in ActT : [r EXCEPT !.mark = FALSE, !.copy = IF @ = "latest" THEN "old" ELSE @] \in ActT
  BY DEF ActT
<1> QED BY <1>1, <1>2 DEF Shape, TouchedSessions, TouchedActors

LEMMA TouchedActor ==
  ASSUME Shape, NEW ps, NEW a \in Actors
  PROVE  LET r2 == TouchedActors(ps, act)[a] IN
         /\ Like(r2, act[a])
         /\ act[a].path \in ps => ~r2.mark
         /\ act[a].path \notin ps => r2 = act[a]
<1> DEFINE r == act[a]
           r2 == TouchedActors(ps, act)[a]
<1>1. r \in ActT
  BY DEF Shape
<1>2. r2 = IF r.path \in ps
             THEN [r EXCEPT !.mark = FALSE, !.copy = IF @ = "latest" THEN "old" ELSE @] ELSE r
  BY DEF TouchedActors
<1>3. r2 \in ActT
  BY TouchedTyped
<1>4. CASE r.path \notin ps
  BY <1>1, <1>2, <1>4 DEF Like
<1>5. CASE r.path \in ps
  <2>1. r2.kind = r.kind /\ r2.pc = r.pc /\ r2.s = r.s /\ r2.path = r.path
        /\ r2.todo = r.todo /\ r2.clean = r.clean /\ r2.stat = r.stat /\ r2.mark = FALSE
    BY <1>1, <1>2, <1>5 DEF ActT
  <2> QED BY <2>1, <1>3, <1>5 DEF Like
<1> QED BY <1>4, <1>5

LEMMA TouchedSession ==
  ASSUME Shape, NEW ps, NEW s \in Sessions
  PROVE  LET x2 == TouchedSessions(ps, sess)[s] IN
         /\ Calm(x2, sess[s])
         /\ sess[s].path \in ps => ~x2.synced /\ (sess[s].st = "open" => x2.event)
<1> DEFINE x == sess[s]
           x2 == TouchedSessions(ps, sess)[s]
<1>1. x \in SessT
  BY DEF Shape
<1>2. x2 = IF x.path \in ps
             THEN [x EXCEPT !.synced = FALSE, !.event = @ \/ x.st = "open"] ELSE x
  BY DEF TouchedSessions
<1>3. x2 \in SessT
  BY TouchedTyped
<1>4. CASE x.path \notin ps
  BY <1>1, <1>2, <1>4 DEF Calm
<1>5. CASE x.path \in ps
  <2>1. x2.st = x.st /\ x2.path = x.path /\ x2.conflict = x.conflict /\ x2.told = x.told
        /\ x2.base = x.base /\ x2.synced = FALSE /\ x2.event = (x.event \/ x.st = "open")
    BY <1>1, <1>2, <1>5 DEF SessT
  <2> QED BY <2>1, <1>3, <1>5 DEF Calm
<1> QED BY <1>4, <1>5

LEMMA StaleTyped ==
  ASSUME Shape, NEW p
  PROVE  /\ StaleSessions(p, sess) \in [Sessions -> SessT]
         /\ StaleActors(p, act) \in [Actors -> ActT]
<1>1. \A x \in SessT : [x EXCEPT !.base = FALSE] \in SessT
  BY DEF SessT
<1>2. \A r \in ActT : [r EXCEPT !.stat = FALSE] \in ActT
  BY DEF ActT
<1> QED BY <1>1, <1>2 DEF Shape, StaleSessions, StaleActors

LEMMA StaleActor ==
  ASSUME Shape, NEW p, NEW a \in Actors
  PROVE  LET r2 == StaleActors(p, act)[a] IN
         /\ Like(r2, act[a]) /\ r2.mark = act[a].mark /\ r2.copy = act[a].copy
         /\ act[a].path = p => ~r2.stat
         /\ act[a].path # p => r2 = act[a]
<1> DEFINE r == act[a]
           r2 == StaleActors(p, act)[a]
<1>1. r \in ActT
  BY DEF Shape
<1>2. r2 = IF r.path = p THEN [r EXCEPT !.stat = FALSE] ELSE r
  BY DEF StaleActors
<1>3. r2 \in ActT
  BY StaleTyped
<1>4. CASE r.path # p
  BY <1>1, <1>2, <1>4 DEF Like
<1>5. CASE r.path = p
  <2>1. r2.kind = r.kind /\ r2.pc = r.pc /\ r2.s = r.s /\ r2.path = r.path
        /\ r2.todo = r.todo /\ r2.clean = r.clean /\ r2.stat = FALSE
        /\ r2.mark = r.mark /\ r2.copy = r.copy
    BY <1>1, <1>2, <1>5 DEF ActT
  <2> QED BY <2>1, <1>3, <1>5 DEF Like
<1> QED BY <1>4, <1>5

LEMMA StaleSession ==
  ASSUME Shape, NEW p, NEW s \in Sessions
  PROVE  LET x2 == StaleSessions(p, sess)[s] IN
         /\ Calm(x2, sess[s]) /\ x2.event = sess[s].event
         /\ sess[s].path = p => ~x2.base
<1> DEFINE x == sess[s]
           x2 == StaleSessions(p, sess)[s]
<1>1. x \in SessT
  BY DEF Shape
<1>2. x2 = IF x.path = p THEN [x EXCEPT !.base = FALSE] ELSE x
  BY DEF StaleSessions
<1>3. x2 \in SessT
  BY StaleTyped
<1>4. CASE x.path # p
  BY <1>1, <1>2, <1>4 DEF Calm
<1>5. CASE x.path = p
  <2>1. x2.st = x.st /\ x2.path = x.path /\ x2.conflict = x.conflict /\ x2.told = x.told
        /\ x2.base = FALSE /\ x2.synced = x.synced /\ x2.event = x.event
    BY <1>1, <1>2, <1>5 DEF SessT
  <2> QED BY <2>1, <1>3, <1>5 DEF Calm
<1> QED BY <1>4, <1>5

\* A command writes or removes the temp files of ps.
LEMMA TouchStep ==
  ASSUME IInv, NEW c \in Calls, NEW ps \in SUBSET Paths, NEW r2,
         temp' \in [Paths -> TempKind], \A p \in ps : temp'[p] # "tracked", Fewer(temp', temp),
         sess' = TouchedSessions(ps, sess), act' = [TouchedActors(ps, act) EXCEPT ![c] = r2],
         UNCHANGED <<remote, connected>>,
         ActFits(c, r2, sess), ActSaw(r2, remote), ActKeeps(c, r2, temp')
  PROVE  IInv'
<1>1. Shape /\ Seen /\ Kept
  BY DEF IInv
<1>2. r2 \in ActT
  BY DEF ActFits
<1>3. c \in Actors /\ c \notin Sessions /\ Sessions \subseteq Actors
  BY Disjoint DEF Actors
<1>4. sess' \in [Sessions -> SessT] /\ act' \in [Actors -> ActT]
  BY <1>1, <1>2, TouchedTyped
<1>5. \A t \in Sessions : Calm(sess'[t], sess[t])
           /\ (sess[t].path \in ps => ~sess'[t].synced /\ (sess[t].st = "open" => sess'[t].event))
  BY <1>1, TouchedSession
<1>6. act'[c] = r2
  BY <1>1, <1>3, TouchedTyped
<1>7. \A b \in Actors \ {c} : /\ Like(act'[b], act[b])
                              /\ act[b].path \in ps => ~act'[b].mark
                              /\ act[b].path \notin ps => act'[b] = act[b]
  <2> TAKE b \in Actors \ {c}
  <2>1. act'[b] = TouchedActors(ps, act)[b]
    BY <1>1, TouchedTyped
  <2> QED BY <2>1, <1>1, TouchedActor
<1>8. Standing(sess', sess) /\ \A t \in Sessions : sess'[t].st = sess[t].st
  BY <1>5 DEF Standing, Calm
<1>9. \A b \in Actors : ActFits(b, act'[b], sess')
  <2> TAKE b \in Actors
  <2>1. ActFits(b, act'[b], sess)
    BY <1>1, <1>6, <1>7, FitsLike DEF Shape
  <2> QED BY <2>1, <1>8, FitsStanding
<1>10. \A t \in Sessions : SessFits(sess'[t])
  BY <1>1, <1>5, SessFitsCalm DEF Shape
<1>11. Shape'
  BY <1>1, <1>4, <1>9, <1>10 DEF Shape
<1>12. Seener(remote', remote)
  BY DEF Seener
<1>13. \A t \in Sessions : SessSaw(sess'[t], remote')
  BY <1>1, <1>5, <1>12, SessSawCalm DEF Shape, Seen
<1>14. \A b \in Actors : ActSaw(act'[b], remote')
  <2> TAKE b \in Actors
  <2>1. CASE b = c
    BY <2>1, <1>6
  <2>2. CASE b # c
    BY <2>2, <1>1, <1>7, <1>12, SawLike DEF Shape, Seen
  <2> QED BY <2>1, <2>2
<1>15. \A b \in Actors : ActKeeps(b, act'[b], temp')
  <2> TAKE b \in Actors
  <2>1. CASE b = c
    BY <2>1, <1>6
  <2>2. CASE b # c
    <3>1. act'[b].mark = act[b].mark \/ temp'[act[b].path] # "tracked"
      BY <2>2, <1>7
    <3> QED BY <2>2, <3>1, <1>1, <1>7, KeepsLike DEF Shape, Kept
  <2> QED BY <2>1, <2>2
<1>16. \A t \in Sessions : Attends(sess'[t], act'[t], temp')
  <2> TAKE t \in Sessions
  <2>1. t \in Actors \ {c}
    BY <1>3
  <2>2. LoopFits(t, act[t], sess[t])
    BY <2>1, <1>1 DEF Shape, ActFits
  <2>3. sess[t].st = "open" /\ act[t].mark /\ ~act'[t].mark => sess'[t].event
    <3>1. sess[t].st = "open" => act[t].kind = "loop" /\ act[t].path = sess[t].path
      BY <2>2 DEF LoopFits
    <3> QED BY <2>1, <3>1, <1>5, <1>7
  <2> QED BY <2>1, <2>2, <2>3, <1>1, <1>5, <1>7, AttendsCalm DEF Shape, Kept
<1>17. Seen' /\ Kept'
  BY <1>13, <1>14, <1>15, <1>16 DEF Seen, Kept
<1> QED BY <1>11, <1>17 DEF IInv

\* An actor changes the remote file p, and no one else's change of it is unread.
LEMMA StaleStep ==
  ASSUME IInv, NEW a \in Actors, NEW p \in Paths, NEW r2,
         temp' \in [Paths -> TempKind], Fewer(temp', temp),
         remote' \in [Paths -> RemoteT], Seener(remote', remote),
         sess' = StaleSessions(p, sess), act' = [StaleActors(p, act) EXCEPT ![a] = r2],
         UNCHANGED connected,
         ActFits(a, r2, sess), ActSaw(r2, remote'), ActKeeps(a, r2, temp'),
         a \in Sessions => /\ LoopFits(a, r2, sess[a])
                           /\ Attends(sess[a], r2, temp')
  PROVE  IInv'
<1>1. Shape /\ Seen /\ Kept
  BY DEF IInv
<1>2. r2 \in ActT
  BY DEF ActFits
<1>3. Sessions \subseteq Actors
  BY DEF Actors
<1>4. sess' \in [Sessions -> SessT] /\ act' \in [Actors -> ActT]
  BY <1>1, <1>2, StaleTyped
<1>5. \A t \in Sessions : Calm(sess'[t], sess[t]) /\ sess'[t].event = sess[t].event
  BY <1>1, StaleSession
<1>6. act'[a] = r2
  BY <1>1, StaleTyped
<1>7. \A b \in Actors \ {a} : Like(act'[b], act[b]) /\ act'[b].mark = act[b].mark
  <2> TAKE b \in Actors \ {a}
  <2>1. act'[b] = StaleActors(p, act)[b]
    BY <1>1, StaleTyped
  <2> QED BY <2>1, <1>1, StaleActor
<1>8. Standing(sess', sess) /\ \A t \in Sessions : sess'[t].st = sess[t].st
  BY <1>5 DEF Standing, Calm
<1>9. \A b \in Actors : ActFits(b, act'[b], sess')
  <2> TAKE b \in Actors
  <2>1. ActFits(b, act'[b], sess)
    BY <1>1, <1>6, <1>7, FitsLike DEF Shape
  <2> QED BY <2>1, <1>8, FitsStanding
<1>10. \A t \in Sessions : SessFits(sess'[t])
  BY <1>1, <1>5, SessFitsCalm DEF Shape
<1>11. Shape'
  BY <1>1, <1>4, <1>9, <1>10 DEF Shape
<1>12. \A t \in Sessions : SessSaw(sess'[t], remote')
  BY <1>1, <1>5, SessSawCalm DEF Shape, Seen
<1>13. \A b \in Actors : ActSaw(act'[b], remote')
  <2> TAKE b \in Actors
  <2>1. CASE b = a
    BY <2>1, <1>6
  <2>2. CASE b # a
    BY <2>2, <1>1, <1>7, SawLike DEF Shape, Seen
  <2> QED BY <2>1, <2>2
<1>14. \A b \in Actors : ActKeeps(b, act'[b], temp')
  <2> TAKE b \in Actors
  <2>1. CASE b = a
    BY <2>1, <1>6
  <2>2. CASE b # a
    BY <2>2, <1>1, <1>7, KeepsLike DEF Shape, Kept
  <2> QED BY <2>1, <2>2
<1>15. \A t \in Sessions : Attends(sess'[t], act'[t], temp')
  <2> TAKE t \in Sessions
  <2>1. t \in Actors /\ LoopFits(t, act[t], sess[t]) /\ SessFits(sess[t])
    BY <1>1, <1>3 DEF Shape, ActFits
  <2>2. CASE t = a
    <3>1. Like(r2, r2)
      BY <1>2 DEF Like
    <3>2. Fewer(temp', temp')
      BY DEF Fewer
    <3> QED BY <2>1, <2>2, <3>1, <3>2, <1>5, <1>6, AttendsCalm
  <2>3. CASE t # a
    BY <2>1, <2>3, <1>1, <1>5, <1>7, AttendsCalm DEF Kept
  <2> QED BY <2>2, <2>3
<1>16. Seen' /\ Kept'
  BY <1>12, <1>13, <1>14, <1>15 DEF Seen, Kept
<1> QED BY <1>11, <1>16 DEF IInv

----------------------------------------------------------------------------
(* The records actors move to *)

LEMMA OffFacts ==
  /\ Off \in ActT
  /\ Off.kind = "none" /\ Off.pc = "idle" /\ Off.s = NoSession /\ Off.path = NoPath
  /\ ~Off.stat /\ ~Off.mark /\ Off.copy = "none" /\ Off.clean
  /\ Off.todo = {}
<1>1. "idle" \in Stages
  BY DEF Stages
<1>2. Off = [kind |-> "none", pc |-> "idle", s |-> NoSession, path |-> NoPath, stat |-> FALSE,
        mark |-> FALSE, copy |-> "none", clean |-> TRUE, keep |-> FALSE, cut |-> FALSE,
        todo |-> {}]
  BY DEF Off
<1>3. Off \in ActT
  BY <1>1, <1>2 DEF ActT
<1> QED BY <1>2, <1>3

\* A record at a pc of no consequence.
LEMMA IdleFits ==
  ASSUME NEW a, NEW r, NEW S, NEW R, NEW T, r \in ActT,
         a \in Sessions => r.kind = "none" /\ r.pc = "idle" /\ S[a].st # "open",
         r.kind # "loop", r.pc \in {"idle", "next", "leave"}, r.s = NoSession, ~r.stat,
         \A s \in r.todo : S[s].st # "unborn"
  PROVE  ActFits(a, r, S) /\ ActSaw(r, R) /\ ActKeeps(a, r, T)
<1>1. r.pc \notin OnPath /\ r.pc \notin Uploading /\ r.pc \notin {"same", "stat"} \cup Filling
      /\ r.pc \notin Sending /\ r.pc \notin {"fill", "restat", "rebase", "stat", "record", "publish", "sweep"}
  BY DEF OnPath, Uploading, Sending, Filling, Saving, Downloading
<1>2. ActFits(a, r, S)
  BY <1>1 DEF ActFits, LoopFits
<1>3. ActSaw(r, R) /\ ActKeeps(a, r, T)
  BY <1>1 DEF ActSaw, ActKeeps
<1> QED BY <1>2, <1>3

LEMMA OffFits ==
  ASSUME NEW a, NEW S, NEW R, NEW T, a \notin Sessions \/ S[a].st # "open"
  PROVE  ActFits(a, Off, S) /\ ActSaw(Off, R) /\ ActKeeps(a, Off, T)
<1>1. \A s \in Off.todo : S[s].st # "unborn"
  BY OffFacts
<1>2. Off.kind # "loop" /\ Off.pc \in {"idle", "next", "leave"} /\ Off.s = NoSession /\ ~Off.stat
  BY OffFacts
<1>3. a \in Sessions => Off.kind = "none" /\ Off.pc = "idle" /\ S[a].st # "open"
  BY OffFacts
<1> QED BY OffFacts, <1>1, <1>2, <1>3, IdleFits

\* An actor that may go on from a save, or into one.
Ready(a, o, S) ==
  /\ o \in ActT
  /\ a \in Sessions => o.kind = "loop" /\ S[a].st = "open" /\ o.path = S[a].path
  /\ a \notin Sessions => o.kind # "loop"
  /\ o.s # NoSession => S[o.s].st # "unborn" /\ S[o.s].path = o.path
  /\ \A s \in o.todo : S[s].st # "unborn"
  /\ o.path \in Paths \/ o.kind = "exit"

LEMMA SaverReady ==
  ASSUME NEW a, NEW r, NEW S, ActFits(a, r, S), r.pc \in Saving
  PROVE  Ready(a, r, S)
<1>1. r.path \in Paths
  BY DEF ActFits, OnPath
<1>2. r.pc # "idle"
  BY DEF Saving, Sending
<1> QED BY <1>1, <1>2 DEF ActFits, LoopFits, Ready

LEMMA ResumedFacts ==
  ASSUME NEW o \in ActT, NEW clean \in BOOLEAN
  PROVE  LET r == Resumed(o, clean) IN
         /\ r \in ActT
         /\ o.kind = "loop" =>
              /\ r.kind = "loop" /\ r.pc = "idle" /\ r.s = NoSession /\ r.path = o.path
              /\ ~r.stat /\ r.todo = {}
         /\ o.kind = "exit" =>
              /\ r.kind = "exit" /\ r.pc = "next" /\ r.s = NoSession
              /\ ~r.stat /\ r.todo = o.todo
         /\ o.kind \notin {"loop", "exit"} =>
              /\ r.kind = o.kind /\ r.pc = "sweep" /\ r.s = o.s /\ r.path = o.path
              /\ ~r.stat /\ r.todo = o.todo /\ (r.clean <=> o.clean /\ clean)
<1>0. "idle" \in Stages /\ "next" \in Stages /\ "sweep" \in Stages
  BY DEF Stages
<1>k. "loop" \in {"none", "loop"} \cup Kinds /\ "exit" \in {"none", "loop"} \cup Kinds
  BY DEF Kinds
<1>o. o.path \in Paths \cup {NoPath} /\ o.todo \in SUBSET Sessions /\ o.clean \in BOOLEAN
  BY DEF ActT
<1>1. CASE o.kind = "loop"
  <2>1. PICK r : r = [Off EXCEPT !.kind = "loop", !.path = o.path]
    OBVIOUS
  <2>2. r = Resumed(o, clean)
    BY <1>1, <2>1 DEF Resumed
  <2>3. r = [kind |-> "loop", pc |-> "idle", s |-> NoSession, path |-> o.path, stat |-> FALSE,
        mark |-> FALSE, copy |-> "none", clean |-> TRUE, keep |-> FALSE, cut |-> FALSE,
        todo |-> {}]
    BY <2>1 DEF Off
  <2>4. r \in ActT
    BY <2>3, <1>0, <1>k, <1>o DEF ActT
  <2> QED BY <1>1, <2>2, <2>3, <2>4
<1>2. CASE o.kind = "exit"
  <2>1. PICK r : r = [Off EXCEPT !.kind = "exit", !.pc = "next", !.todo = o.todo]
    OBVIOUS
  <2>2. r = Resumed(o, clean)
    BY <1>2, <2>1 DEF Resumed
  <2>3. r = [kind |-> "exit", pc |-> "next", s |-> NoSession, path |-> NoPath, stat |-> FALSE,
        mark |-> FALSE, copy |-> "none", clean |-> TRUE, keep |-> FALSE, cut |-> FALSE,
        todo |-> o.todo]
    BY <2>1 DEF Off
  <2>4. r \in ActT
    BY <2>3, <1>0, <1>k, <1>o DEF ActT
  <2> QED BY <1>2, <2>2, <2>3, <2>4
<1>3. CASE o.kind \notin {"loop", "exit"}
  <2>1. PICK r : r = [o EXCEPT !.pc = "sweep", !.clean = @ /\ clean, !.stat = FALSE,
                          !.mark = FALSE, !.copy = "none"]
    OBVIOUS
  <2>2. r = Resumed(o, clean)
    BY <1>3, <2>1 DEF Resumed
  <2>3. /\ r.kind = o.kind /\ r.pc = "sweep" /\ r.s = o.s /\ r.path = o.path
        /\ ~r.stat /\ r.todo = o.todo /\ (r.clean <=> o.clean /\ clean)
    BY <2>1 DEF ActT
  <2>4. r \in ActT
    <3>1. CASE o.clean /\ clean
      BY <2>1, <3>1, <1>0 DEF ActT
    <3>2. CASE ~(o.clean /\ clean)
      BY <2>1, <3>2, <1>0 DEF ActT
    <3> QED BY <3>1, <3>2
  <2> QED BY <1>3, <2>2, <2>3, <2>4
<1> QED BY <1>1, <1>2, <1>3

LEMMA ResumedFits ==
  ASSUME NEW a, NEW o, NEW S, NEW R, NEW T, NEW clean \in BOOLEAN, Ready(a, o, S),
         o.kind \notin {"loop", "exit"} /\ o.clean /\ clean => T[o.path] # "tracked"
  PROVE  LET r == Resumed(o, clean) IN ActFits(a, r, S) /\ ActSaw(r, R) /\ ActKeeps(a, r, T)
<1> DEFINE r == Resumed(o, clean)
<1>0. o \in ActT
  BY DEF Ready
<1>1. r \in ActT
  BY <1>0, ResumedFacts
<1>2. CASE o.kind = "loop"
  <2>1. r.kind = "loop" /\ r.pc = "idle" /\ r.s = NoSession /\ r.path = o.path
        /\ ~r.stat /\ r.todo = {}
    BY <1>0, <1>2, ResumedFacts
  <2>2. a \in Sessions /\ S[a].st = "open" /\ o.path = S[a].path
    BY <1>2 DEF Ready
  <2>3. r.pc \notin Saving /\ r.pc \notin OnPath
    BY <2>1 DEF Saving, Sending, OnPath, Downloading, Filling
  <2>4. ActFits(a, r, S)
    BY <1>1, <2>1, <2>2, <2>3 DEF ActFits, LoopFits
  <2>5. ActSaw(r, R) /\ ActKeeps(a, r, T)
    BY <2>1 DEF ActSaw, ActKeeps, Sending, Filling, Uploading
  <2> QED BY <2>4, <2>5
<1>3. CASE o.kind = "exit"
  <2>1. r.kind = "exit" /\ r.pc = "next" /\ r.s = NoSession
        /\ ~r.stat /\ r.todo = o.todo
    BY <1>0, <1>3, ResumedFacts
  <2>2. a \notin Sessions
    BY <1>3 DEF Ready
  <2>3. \A s \in r.todo : S[s].st # "unborn"
    BY <2>1 DEF Ready
  <2>4. r.kind # "loop" /\ r.pc \in {"idle", "next", "leave"}
    BY <2>1
  <2>5. ActFits(a, r, S) /\ ActSaw(r, R) /\ ActKeeps(a, r, T)
    BY <1>1, <2>1, <2>2, <2>3, <2>4, IdleFits
  <2> QED BY <2>5
<1>4. CASE o.kind \notin {"loop", "exit"}
  <2>1. r.kind = o.kind /\ r.pc = "sweep" /\ r.s = o.s /\ r.path = o.path
        /\ ~r.stat /\ r.todo = o.todo /\ (r.clean <=> o.clean /\ clean)
    BY <1>0, <1>4, ResumedFacts
  <2>2. a \notin Sessions
    BY <1>4 DEF Ready
  <2>3. ActFits(a, r, S)
    BY <1>1, <1>4, <2>1, <2>2 DEF ActFits, Ready
  <2>4. ActSaw(r, R)
    BY <2>1 DEF ActSaw, Sending, Filling
  <2>5. ActKeeps(a, r, T)
    BY <2>1, <1>4 DEF ActKeeps, Uploading, Sending
  <2> QED BY <2>3, <2>4, <2>5
<1> QED BY <1>2, <1>3, <1>4

LEMMA StartedFits ==
  ASSUME Shape, Seen, NEW a, NEW o, NEW s \in Sessions, Ready(a, o, sess),
         sess[s].st # "unborn", a \in Sessions => a = s,
         o.kind \notin {"loop", "exit"} => /\ o.path = sess[s].path
                                           /\ temp[o.path] = "tracked" => ~sess[s].synced
  PROVE  LET r == Started(o, s) IN
         /\ ActFits(a, r, sess) /\ ActSaw(r, remote) /\ ActKeeps(a, r, temp)
         /\ o.kind = "loop" /\ Pending(s) /\ ~StartTells(s) => r.pc = "check"
<1> DEFINE r == Started(o, s)
<1>1. CASE ~Pending(s)
  <2>1. r = Resumed(o, TRUE)
    BY <1>1 DEF Started
  <2>2. o.kind \notin {"loop", "exit"} => temp[o.path] # "tracked"
    BY <1>1 DEF Pending
  <2>3. ActFits(a, r, sess) /\ ActSaw(r, remote) /\ ActKeeps(a, r, temp)
    BY <2>1, <2>2, ResumedFits
  <2> QED BY <2>3, <1>1
<1>2. CASE Pending(s) /\ ~connected
  <2>1. r = Resumed(o, FALSE)
    BY <1>2 DEF Started
  <2>2. ActFits(a, r, sess) /\ ActSaw(r, remote) /\ ActKeeps(a, r, temp)
    BY <2>1, ResumedFits
  <2> QED BY <2>2, <1>2 DEF StartTells
<1>3. CASE Pending(s) /\ connected
  <2>1. PICK q : q = [o EXCEPT !.pc = "check", !.s = s, !.path = sess[s].path,
                               !.stat = sess[s].base]
    OBVIOUS
  <2>2. q = r
    BY <1>3, <2>1 DEF Started
  <2>3. SessFits(sess[s]) /\ SessSaw(sess[s], remote) /\ o \in ActT
    BY DEF Shape, Seen, Ready
  <2>4. sess[s].path \in Paths /\ sess[s].base \in BOOLEAN
    BY <2>3 DEF SessFits, SessT
  <2>5. "check" \in Stages /\ "check" \in Saving /\ "check" \notin Uploading /\ "check" \notin Sending
        /\ "check" \notin {"same", "stat"} \cup Filling
    BY DEF Stages, Saving, Sending, Uploading, Filling
  <2>6. q \in ActT
    BY <2>1, <2>3, <2>4, <2>5 DEF ActT
  <2>7. q.kind = o.kind /\ q.pc = "check" /\ q.s = s /\ q.path = sess[s].path
        /\ q.stat = sess[s].base /\ q.todo = o.todo
    BY <2>1, <2>3 DEF ActT
  <2>8. ActFits(a, q, sess)
    <3>1. a \in Sessions => LoopFits(a, q, sess[a])
      BY <2>5, <2>7 DEF LoopFits, Ready
    <3> QED BY <3>1, <2>4, <2>6, <2>7 DEF ActFits, Ready
  <2>9. ActSaw(q, remote)
    BY <2>3, <2>4, <2>5, <2>7 DEF ActSaw, SessSaw
  <2>10. ActKeeps(a, q, temp)
    BY <2>5, <2>7 DEF ActKeeps
  <2> QED BY <2>2, <2>7, <2>8, <2>9, <2>10
<1> QED BY <1>1, <1>2, <1>3

LEMMA FitsMove ==
  ASSUME NEW a, NEW r, NEW r2, NEW S, ActFits(a, r, S), r2 \in ActT,
         r2.kind = r.kind, r2.s = r.s, r2.path = r.path, r2.todo = r.todo,
         \/ r.pc \in Saving /\ r2.pc \in Saving
         \/ a \notin Sessions /\ r2.pc # "draining" /\ r.path \in Paths
  PROVE  ActFits(a, r2, S)
<1>1. CASE r.pc \in Saving /\ r2.pc \in Saving
  <2>1. r.pc # "idle" /\ r.pc \in OnPath /\ r2.pc # "draining"
    BY <1>1 DEF Saving, Sending, OnPath
  <2> QED BY <1>1, <2>1 DEF ActFits, LoopFits
<1>2. CASE a \notin Sessions /\ r2.pc # "draining" /\ r.path \in Paths
  BY <1>2 DEF ActFits
<1> QED BY <1>1, <1>2

----------------------------------------------------------------------------
(* attempt_save and save_back keep the invariant *)

\* What is known of an actor and, if it is a loop, of its session.
LEMMA Known ==
  ASSUME IInv, NEW a \in Actors
  PROVE  /\ act[a] \in ActT /\ ActFits(a, act[a], sess) /\ ActSaw(act[a], remote)
         /\ ActKeeps(a, act[a], temp)
         /\ a \in Sessions => Attends(sess[a], act[a], temp)
         /\ a \notin Sessions => a \in Calls
BY DEF IInv, Shape, Seen, Kept, Actors

LEMMA AskStep ==
  ASSUME IInv, NEW a \in Actors, Ask(a)
  PROVE  IInv'
<1> DEFINE r == act[a]
<1>1. PICK answer \in {"unknown", IF r.stat /\ remote[r.path].has # "none" THEN "same" ELSE "differs"} :
        act' = [act EXCEPT ![a].pc = answer, ![a].stat = FALSE]
  BY DEF Ask
<1>2. PICK r2 : r2 = [r EXCEPT !.pc = answer, !.stat = FALSE]
  OBVIOUS
<1>3. act' = [act EXCEPT ![a] = r2] /\ UNCHANGED <<temp, remote, connected, sess>> /\ r.pc = "check"
  BY <1>1, <1>2 DEF Ask
<1>4. answer \in {"unknown", "same", "differs"} /\ (answer = "same" => r.stat)
  OBVIOUS
<1>5. r2 \in ActT /\ r2.kind = r.kind /\ r2.s = r.s /\ r2.path = r.path /\ r2.todo = r.todo
      /\ r2.pc = answer /\ ~r2.stat
  <2>1. answer \in Stages
    BY <1>4 DEF Stages, Saving
  <2> QED BY <1>2, <2>1, Known DEF ActT
<1>6. ActFits(a, r2, sess)
  BY <1>3, <1>4, <1>5, Known, FitsMove DEF Saving
<1>7. ActSaw(r2, remote)
  BY <1>4, <1>5, Known DEF ActSaw, Sending, Filling
<1>8. ActKeeps(a, r2, temp)
  BY <1>4, <1>5 DEF ActKeeps, Uploading, Sending
<1>9. a \in Sessions => Attends(sess[a], r2, temp)
  BY <1>4, <1>5, Known, <1>3 DEF Attends, Uploading, Sending
<1> QED BY <1>3, <1>6, <1>7, <1>8, <1>9, SoloStep

LEMMA GoAheadStep ==
  ASSUME IInv, NEW a \in Actors, GoAhead(a)
  PROVE  IInv'
<1> DEFINE r == act[a]
<1>1. PICK r2 : r2 = [r EXCEPT !.pc = "write", !.mark = TRUE]
  OBVIOUS
<1>2. act' = [act EXCEPT ![a] = r2] /\ UNCHANGED <<temp, remote, connected, sess>> /\ r.pc = "same"
  BY <1>1 DEF GoAhead
<1>3. r2 \in ActT /\ r2.kind = r.kind /\ r2.s = r.s /\ r2.path = r.path /\ r2.todo = r.todo
      /\ r2.pc = "write" /\ r2.mark /\ r2.stat = r.stat
  <2>1. "write" \in Stages
    BY DEF Stages, Saving, Sending
  <2> QED BY <1>1, <2>1, Known DEF ActT
<1>4. ActFits(a, r2, sess)
  BY <1>2, <1>3, Known, FitsMove DEF Saving, Sending
<1>5. ActSaw(r2, remote)
  BY <1>2, <1>3, Known DEF ActSaw, Sending, Filling
<1>6. ActKeeps(a, r2, temp)
  BY <1>3 DEF ActKeeps
<1>7. a \in Sessions => Attends(sess[a], r2, temp)
  BY <1>2, <1>3, Known DEF Attends
<1> QED BY <1>2, <1>4, <1>5, <1>6, <1>7, SoloStep

LEMMA SendStep ==
  ASSUME IInv, NEW a \in Actors, Send(a)
  PROVE  IInv'
<1> DEFINE r == act[a]
           sent == CASE temp[r.path] = "part" -> "half" [] temp[r.path] = "none" -> "old"
                     [] OTHER -> "latest"
<1>1. PICK r2 : r2 = [r EXCEPT !.pc = "publish", !.copy = sent]
  OBVIOUS
<1>2. act' = [act EXCEPT ![a] = r2] /\ UNCHANGED <<temp, remote, connected, sess>> /\ r.pc = "send"
  BY <1>1 DEF Send
<1>3. sent \in {"half", "old", "latest"} /\ (sent # "latest" => temp[r.path] \in {"part", "none"})
  OBVIOUS
<1>4. r2 \in ActT /\ r2.kind = r.kind /\ r2.s = r.s /\ r2.path = r.path /\ r2.todo = r.todo
      /\ r2.pc = "publish" /\ (r2.mark <=> r.mark) /\ r2.stat = r.stat /\ r2.copy = sent
  <2>1. "publish" \in Stages
    BY DEF Stages, Saving, Sending
  <2> QED BY <1>1, <1>3, <2>1, Known DEF ActT
<1>5. ActFits(a, r2, sess)
  BY <1>2, <1>4, Known, FitsMove DEF Saving, Sending
<1>6. ActSaw(r2, remote)
  BY <1>2, <1>4, Known DEF ActSaw, Sending, Filling
<1>7. ActKeeps(a, r2, temp)
  BY <1>2, <1>3, <1>4, Known DEF ActKeeps, Uploading, Sending
<1>8. a \in Sessions => Attends(sess[a], r2, temp)
  BY <1>2, <1>4, Known DEF Attends, Uploading, Sending
<1> QED BY <1>2, <1>5, <1>6, <1>7, <1>8, SoloStep

LEMMA StatStep ==
  ASSUME IInv, NEW a \in Actors, Stat(a)
  PROVE  IInv'
<1> DEFINE r == act[a]
<1>1. PICK r2 : r2 = [r EXCEPT !.pc = "record", !.stat = TRUE]
  OBVIOUS
<1>2. act' = [act EXCEPT ![a] = r2] /\ UNCHANGED <<temp, remote, connected, sess>> /\ r.pc = "stat"
  BY <1>1 DEF Stat
<1>3. r2 \in ActT /\ r2.kind = r.kind /\ r2.s = r.s /\ r2.path = r.path /\ r2.todo = r.todo
      /\ r2.pc = "record" /\ (r2.mark <=> r.mark)
  <2>1. "record" \in Stages
    BY DEF Stages, Saving, Sending
  <2> QED BY <1>1, <2>1, Known DEF ActT
<1>4. ActFits(a, r2, sess)
  BY <1>2, <1>3, Known, FitsMove DEF Saving, Sending
<1>5. r.path \in Paths
  BY <1>2, Known DEF ActFits, OnPath, Saving, Sending
<1>6. ActSaw(r2, remote)
  BY <1>2, <1>3, <1>5, Known DEF ActSaw, Sending, Filling
<1>7. ActKeeps(a, r2, temp)
  BY <1>2, <1>3, Known DEF ActKeeps, Uploading, Sending
<1>8. a \in Sessions => Attends(sess[a], r2, temp)
  BY <1>2, <1>3, Known DEF Attends, Uploading, Sending
<1> QED BY <1>2, <1>4, <1>6, <1>7, <1>8, SoloStep

\* An attempt ends, or begins, and its session may hear of it.
LEMMA NoteStep ==
  ASSUME IInv, NEW a \in Actors, NEW s, NEW r2, NEW x2,
         act' = [act EXCEPT ![a] = r2], sess' = [sess EXCEPT ![s] = x2],
         UNCHANGED <<temp, remote, connected>>,
         ActFits(a, r2, sess), ActSaw(r2, remote), ActKeeps(a, r2, temp),
         s \in Sessions =>
           /\ x2 \in SessT
           /\ x2.st = sess[s].st /\ x2.path = sess[s].path /\ x2.base = sess[s].base
           /\ x2.synced = sess[s].synced /\ x2.event = sess[s].event
           /\ (sess[s].conflict => x2.conflict) /\ (sess[s].told => x2.told),
         a \in Sessions =>
           /\ s = a /\ r2.pc \notin Uploading
           /\ temp[sess[a].path] = "tracked" /\ sess[a].st = "open"
                => r2.pc # "idle" \/ x2.conflict \/ x2.told
  PROVE  IInv'
<1>1. SUFFICES ASSUME s \in Sessions
               PROVE  /\ SessFits(x2) /\ SessSaw(x2, remote)
                      /\ Attends(x2, IF s = a THEN r2 ELSE act[s], temp)
  BY OwnStep
<1>2. s \in Actors
  BY <1>1 DEF Actors
<1>3. SessFits(sess[s]) /\ SessSaw(sess[s], remote) /\ Attends(sess[s], act[s], temp)
  BY <1>1, <1>2 DEF IInv, Shape, Seen, Kept
<1>4. SessFits(x2) /\ SessSaw(x2, remote)
  BY <1>1, <1>3 DEF SessFits, SessSaw
<1>a. x2.st = "open" /\ temp[x2.path] = "tracked" => ~x2.synced
  BY <1>1, <1>3 DEF Attends
<1>5. CASE s = a
  <2>1. x2.st = "open" /\ temp[x2.path] = "tracked" => r2.pc # "idle" \/ x2.conflict \/ x2.told
    BY <1>1, <1>5
  <2>2. r2.pc \notin Uploading
    BY <1>1, <1>5
  <2>3. Attends(x2, r2, temp)
    BY <1>a, <2>1, <2>2 DEF Attends
  <2> QED BY <2>3, <1>4, <1>5
<1>6. CASE s # a
  <2>1. x2.st = "open" /\ temp[x2.path] = "tracked" =>
          x2.event \/ act[s].pc # "idle" \/ x2.conflict \/ x2.told
    BY <1>1, <1>3 DEF Attends
  <2>2. act[s].pc \in Uploading /\ ~act[s].mark => x2.event
    BY <1>1, <1>3 DEF Attends
  <2>3. Attends(x2, act[s], temp)
    BY <1>a, <2>1, <2>2 DEF Attends
  <2> QED BY <2>3, <1>4, <1>6
<1> QED BY <1>5, <1>6

\* What an actor becomes when its attempt has ended.
LEMMA ResumedStep ==
  ASSUME IInv, NEW a \in Actors, NEW clean \in BOOLEAN, act[a].pc \in Saving,
         a \notin Sessions /\ clean => temp[act[a].path] # "tracked"
  PROVE  LET r2 == Resumed(act[a], clean) IN
         /\ ActFits(a, r2, sess) /\ ActSaw(r2, remote) /\ ActKeeps(a, r2, temp)
         /\ a \in Sessions => act[a].s = a /\ r2.pc \notin Uploading
<1>1. Ready(a, act[a], sess)
  BY Known, SaverReady
<1>2. act[a].kind \notin {"loop", "exit"} => a \notin Sessions
  BY <1>1 DEF Ready
<1>3. act[a] \in ActT
  BY Known
<1>4. a \in Sessions => act[a].kind = "loop" /\ act[a].s = a
  BY <1>1, Known DEF Ready, ActFits, LoopFits
<1>5. "idle" \notin Uploading
  BY DEF Uploading, Sending
<1>6. a \in Sessions => Resumed(act[a], clean).pc \notin Uploading
  BY <1>3, <1>4, <1>5, ResumedFacts
<1> QED BY <1>1, <1>2, <1>4, <1>6, ResumedFits

\* A session that hears of an attempt without a backend.
LEMMA Told ==
  ASSUME Shape, NEW s \in Sessions, NEW x2,
         x2 = [sess[s] EXCEPT !.told = @ \/ StartTells(s)]
  PROVE  /\ x2 \in SessT /\ x2.st = sess[s].st /\ x2.path = sess[s].path
         /\ x2.base = sess[s].base /\ x2.synced = sess[s].synced
         /\ x2.event = sess[s].event /\ x2.conflict = sess[s].conflict
         /\ (x2.told <=> sess[s].told \/ StartTells(s))
<1> DEFINE b == sess[s].told \/ StartTells(s)
<1>1. sess[s] \in SessT
  BY DEF Shape
<1>2. b \in BOOLEAN
  BY <1>1 DEF SessT, StartTells, Pending
<1>3. CASE b
  <2>1. x2 = [sess[s] EXCEPT !.told = TRUE]
    BY <1>3
  <2> QED BY <1>1, <1>3, <2>1 DEF SessT
<1>4. CASE ~b
  <2>1. x2 = [sess[s] EXCEPT !.told = FALSE]
    BY <1>2, <1>4
  <2> QED BY <1>1, <1>4, <2>1 DEF SessT
<1> QED BY <1>3, <1>4

LEMMA FlagStep ==
  ASSUME IInv, NEW a \in Actors, Flag(a)
  PROVE  IInv'
<1> DEFINE r == act[a]
           r2 == Resumed(r, FALSE)
<1>1. PICK x2 : x2 = [sess[r.s] EXCEPT !.conflict = TRUE]
  OBVIOUS
<1>2. sess' = [sess EXCEPT ![r.s] = x2] /\ act' = [act EXCEPT ![a] = r2]
      /\ UNCHANGED <<temp, remote, connected>> /\ r.pc = "differs"
  BY <1>1 DEF Flag
<1>3. r.pc \in Saving
  BY <1>2 DEF Saving
<1>4. r.s \in Sessions => /\ x2 \in SessT
           /\ x2.st = sess[r.s].st /\ x2.path = sess[r.s].path /\ x2.base = sess[r.s].base
           /\ x2.synced = sess[r.s].synced /\ x2.event = sess[r.s].event
           /\ x2.conflict /\ x2.told = sess[r.s].told
  BY <1>1 DEF IInv, Shape, SessT
<1>5. /\ ActFits(a, r2, sess) /\ ActSaw(r2, remote) /\ ActKeeps(a, r2, temp)
      /\ a \in Sessions => r.s = a /\ r2.pc \notin Uploading
  BY <1>3, ResumedStep
<1> HIDE DEF r, r2
<1> QED BY <1>2, <1>4, <1>5, NoteStep

LEMMA FailsStep ==
  ASSUME IInv, NEW a \in Actors, Fails(a)
  PROVE  IInv'
<1> DEFINE r == act[a]
           r2 == Resumed(r, FALSE)
<1>0. UNCHANGED <<temp, remote, connected>> /\ Failed(a) /\ r.pc \in Saving
  BY DEF Fails, Saving, Sending
<1>1. CASE r.kind \in {"force", "copy", "discard", "open"}
  <2>1. act' = [act EXCEPT ![a] = Off] /\ UNCHANGED sess
    BY <1>0, <1>1 DEF Failed
  <2>2. a \notin Sessions
    BY <1>0, <1>1, Known, SaverReady DEF Ready
  <2> QED BY <1>0, <2>1, <2>2, OffFits, SoloStep
<1>2. CASE r.kind \notin {"force", "copy", "discard", "open"}
  <2>1. PICK x2 : x2 = [sess[r.s] EXCEPT !.told = TRUE]
    OBVIOUS
  <2>2. sess' = [sess EXCEPT ![r.s] = x2] /\ act' = [act EXCEPT ![a] = r2]
    BY <1>0, <1>2, <2>1 DEF Failed
  <2>3. r.s \in Sessions => /\ x2 \in SessT
           /\ x2.st = sess[r.s].st /\ x2.path = sess[r.s].path /\ x2.base = sess[r.s].base
           /\ x2.synced = sess[r.s].synced /\ x2.event = sess[r.s].event
           /\ x2.conflict = sess[r.s].conflict /\ x2.told
    BY <2>1 DEF IInv, Shape, SessT
  <2>4. /\ ActFits(a, r2, sess) /\ ActSaw(r2, remote) /\ ActKeeps(a, r2, temp)
        /\ a \in Sessions => r.s = a /\ r2.pc \notin Uploading
    BY <1>0, ResumedStep
  <2> HIDE DEF r, r2
  <2> QED BY <1>0, <2>2, <2>3, <2>4, NoteStep
<1> QED BY <1>1, <1>2

\* The record: the mark is of a time before the upload, so a save since counts.
LEMMA RecordStep ==
  ASSUME IInv, NEW a \in Actors, Record(a)
  PROVE  IInv'
<1> DEFINE r == act[a]
           r2 == IF r.kind = "force" THEN Off ELSE Resumed(r, TRUE)
           s == r.s
<1>1. PICK x2 : x2 = [sess[s] EXCEPT !.base = r.stat, !.synced = r.mark, !.conflict = FALSE]
  OBVIOUS
<1>2. sess' = [sess EXCEPT ![s] = x2] /\ act' = [act EXCEPT ![a] = r2]
      /\ UNCHANGED <<temp, remote, connected>> /\ r.pc = "record"
  BY <1>1 DEF Record
<1>3. r.pc \in Saving /\ r.pc \in Uploading /\ r.pc # "idle"
  BY <1>2 DEF Saving, Uploading
<1>4. r \in ActT /\ ActFits(a, r, sess) /\ ActSaw(r, remote) /\ ActKeeps(a, r, temp)
      /\ (a \in Sessions => Attends(sess[a], r, temp))
  BY Known
<1>5. r.path \in Paths
  BY <1>3, <1>4 DEF ActFits, OnPath
<1>6. a \notin Sessions => temp[r.path] # "tracked"
  BY <1>2, <1>3, <1>4 DEF ActKeeps
<1>7. /\ ActFits(a, r2, sess) /\ ActSaw(r2, remote) /\ ActKeeps(a, r2, temp)
      /\ a \in Sessions => s = a /\ r2.pc \notin Uploading
  <2>1. CASE r.kind = "force"
    <3>1. a \notin Sessions
      BY <1>3, <1>4, <2>1, SaverReady DEF Ready
    <3> QED BY <2>1, <3>1, OffFits
  <2>2. CASE r.kind # "force"
    BY <2>2, <1>3, <1>6, ResumedStep
  <2> QED BY <2>1, <2>2
<1>8. ASSUME s \in Sessions
      PROVE  /\ SessFits(x2) /\ x2.st = sess[s].st /\ x2.path = sess[s].path
             /\ SessSaw(x2, remote)
             /\ Attends(x2, IF s = a THEN r2 ELSE act[s], temp)
  <2>1. sess[s] \in SessT /\ SessFits(sess[s]) /\ Attends(sess[s], act[s], temp) /\ s \in Actors
    BY <1>8 DEF IInv, Shape, Kept, Actors
  <2>2. /\ x2 \in SessT /\ x2.st = sess[s].st /\ x2.path = sess[s].path /\ x2.base = r.stat
        /\ x2.synced = r.mark /\ x2.event = sess[s].event /\ x2.told = sess[s].told
    BY <1>1, <1>4, <2>1 DEF SessT, ActT
  <2>3. sess[s].path = r.path /\ s # NoSession
    BY <1>4, <1>8, Disjoint DEF ActFits
  <2>4. SessFits(x2) /\ SessSaw(x2, remote)
    BY <1>4, <1>5, <2>1, <2>2, <2>3 DEF SessFits, SessSaw, ActSaw
  <2>5. CASE a \in Sessions
    <3>1. s = a /\ r2.pc \notin Uploading
      BY <1>7, <2>5
    <3>2. temp[r.path] = "tracked" => ~r.mark /\ x2.event
      BY <1>2, <1>3, <1>4, <2>2, <2>5, <3>1 DEF ActKeeps, Attends
    <3> QED BY <2>2, <2>3, <2>4, <3>1, <3>2 DEF Attends
  <2>6. CASE a \notin Sessions
    <3>1. s # a
      BY <1>8, <2>6
    <3>2. Attends(x2, act[s], temp)
      BY <1>6, <2>1, <2>2, <2>3, <2>6 DEF Attends
    <3> QED BY <2>2, <2>4, <3>1, <3>2
  <2> QED BY <2>5, <2>6
<1> HIDE DEF r, r2, s
<1> QED BY <1>2, <1>7, <1>8, OwnStep

LEMMA WriteStep ==
  ASSUME IInv, NEW a \in Actors, Write(a)
  PROVE  IInv'
<1> DEFINE r == act[a]
           p == r.path
<1>0. r.pc = "write" /\ UNCHANGED <<temp, connected>>
  BY DEF Write
<1>1. r \in ActT /\ ActFits(a, r, sess) /\ ActSaw(r, remote) /\ ActKeeps(a, r, temp)
      /\ (a \in Sessions => Attends(sess[a], r, temp)) /\ Shape
  BY Known DEF IInv
<1>2. "send" \in Stages /\ "send" \in Saving /\ "write" \in Saving /\ "send" \in Uploading
      /\ "write" \in Uploading /\ "write" \in Sending
  BY DEF Stages, Saving, Sending, Uploading
<1>3. p \in Paths
  BY <1>0, <1>1, <1>2 DEF ActFits, OnPath
<1>4. CASE InPlace
  <2>1. PICK r0 : r0 = StaleActors(p, act)[a]
    OBVIOUS
  <2>2. PICK r2 : r2 = [r0 EXCEPT !.pc = "send"]
    OBVIOUS
  <2>3. /\ remote' = [remote EXCEPT ![p] = [has |-> "part", change |-> "known"]]
        /\ sess' = StaleSessions(p, sess)
        /\ act' = [StaleActors(p, act) EXCEPT ![a] = r2]
    BY <1>4, <2>1, <2>2 DEF Write
  <2>4. Like(r0, r) /\ r0.mark = r.mark /\ ~r0.stat
    BY <1>1, <2>1, StaleActor
  <2>5. r2 \in ActT /\ r2.kind = r.kind /\ r2.s = r.s /\ r2.path = r.path /\ r2.todo = r.todo
        /\ r2.pc = "send" /\ r2.mark = r.mark /\ ~r2.stat
    BY <1>2, <2>2, <2>4 DEF Like, ActT
  <2>6. [has |-> "part", change |-> "known"] \in RemoteT
    BY DEF RemoteT
  <2>7. remote' \in [Paths -> RemoteT] /\ remote'[p].change = "known" /\ Seener(remote', remote)
    BY <1>1, <1>3, <2>3, <2>6 DEF Shape, Seener
  <2>8. ActFits(a, r2, sess)
    BY <1>0, <1>1, <1>2, <2>5, FitsMove
  <2>9. ActSaw(r2, remote')
    BY <2>5, <2>7 DEF ActSaw, Filling
  <2>10. ActKeeps(a, r2, temp)
    BY <1>0, <1>1, <1>2, <2>5 DEF ActKeeps
  <2>11. a \in Sessions => LoopFits(a, r2, sess[a]) /\ Attends(sess[a], r2, temp)
    BY <1>0, <1>1, <1>2, <2>5, <2>8 DEF ActFits, Attends
  <2>12. temp' \in [Paths -> TempKind] /\ Fewer(temp', temp) /\ temp' = temp
    BY <1>0, <1>1 DEF Shape, Fewer
  <2> HIDE DEF r, p
  <2> QED BY <1>0, <1>3, <2>3, <2>7, <2>8, <2>9, <2>10, <2>11, <2>12, StaleStep
<1>5. CASE ~InPlace
  <2>1. PICK r2 : r2 = [r EXCEPT !.pc = "send"]
    OBVIOUS
  <2>2. act' = [act EXCEPT ![a] = r2] /\ UNCHANGED <<remote, sess>>
    BY <1>5, <2>1 DEF Write
  <2>3. r2 \in ActT /\ r2.kind = r.kind /\ r2.s = r.s /\ r2.path = r.path /\ r2.todo = r.todo
        /\ r2.pc = "send" /\ r2.mark = r.mark /\ r2.stat = r.stat
    BY <1>1, <1>2, <2>1 DEF ActT
  <2>4. ActFits(a, r2, sess)
    BY <1>0, <1>1, <1>2, <2>3, FitsMove
  <2>5. ActSaw(r2, remote)
    BY <1>0, <1>1, <1>2, <2>3 DEF ActSaw, Filling
  <2>6. ActKeeps(a, r2, temp)
    BY <1>0, <1>1, <1>2, <2>3 DEF ActKeeps
  <2>7. a \in Sessions => Attends(sess[a], r2, temp)
    BY <1>0, <1>1, <1>2, <2>3 DEF Attends
  <2> QED BY <1>0, <2>2, <2>4, <2>5, <2>6, <2>7, SoloStep
<1> QED BY <1>4, <1>5

\* The upload ends: if the temp file still is what was sent, nothing is unsaved.
LEMMA PublishStep ==
  ASSUME IInv, NEW a \in Actors, Publish(a)
  PROVE  IInv'
<1> DEFINE r == act[a]
           p == r.path
           now == [has |-> IF r.copy = "half" THEN "part" ELSE "whole", change |-> "known"]
<1>0. r.pc = "publish" /\ UNCHANGED connected
  BY DEF Publish
<1>1. r \in ActT /\ ActFits(a, r, sess) /\ ActSaw(r, remote) /\ ActKeeps(a, r, temp)
      /\ (a \in Sessions => Attends(sess[a], r, temp)) /\ Shape
  BY Known DEF IInv
<1>2. "stat" \in Stages /\ "stat" \in Saving /\ "publish" \in Saving /\ "stat" \in Uploading
      /\ "publish" \in Uploading /\ "publish" \in Sending
  BY DEF Stages, Saving, Sending, Uploading
<1>3. p \in Paths
  BY <1>0, <1>1, <1>2 DEF ActFits, OnPath
<1>4. PICK r0 : r0 = StaleActors(p, act)[a]
  OBVIOUS
<1>5. PICK r2 : r2 = [r0 EXCEPT !.pc = "stat", !.copy = "none"]
  OBVIOUS
<1>6. /\ remote' = [remote EXCEPT ![p] = now]
      /\ temp' = [temp EXCEPT ![p] = IF r.copy = "latest" THEN "clean" ELSE @]
      /\ sess' = StaleSessions(p, sess)
      /\ act' = [StaleActors(p, act) EXCEPT ![a] = r2]
  BY <1>4, <1>5 DEF Publish
<1>7. Like(r0, r) /\ r0.mark = r.mark /\ ~r0.stat
  BY <1>1, <1>4, StaleActor
<1>8. r2 \in ActT /\ r2.kind = r.kind /\ r2.s = r.s /\ r2.path = r.path /\ r2.todo = r.todo
      /\ r2.pc = "stat" /\ r2.mark = r.mark /\ ~r2.stat
  BY <1>2, <1>5, <1>7 DEF Like, ActT
<1>9. now \in RemoteT /\ now.change = "known"
  BY DEF RemoteT
<1>10. remote' \in [Paths -> RemoteT] /\ remote'[p].change = "known" /\ Seener(remote', remote)
  BY <1>1, <1>3, <1>6, <1>9 DEF Shape, Seener
<1>11. temp \in [Paths -> TempKind] /\ "clean" \in TempKind
  BY <1>1 DEF Shape, TempKind
<1>12. temp' \in [Paths -> TempKind] /\ Fewer(temp', temp)
       /\ (temp'[p] = "tracked" => temp[p] = "tracked" /\ r.copy # "latest")
  BY <1>3, <1>6, <1>11 DEF Fewer
<1>13. ActFits(a, r2, sess)
  BY <1>0, <1>1, <1>2, <1>8, FitsMove
<1>14. ActSaw(r2, remote')
  BY <1>8, <1>10 DEF ActSaw
<1>15. ActKeeps(a, r2, temp')
  <2>1. r.mark => temp'[p] # "tracked"
    BY <1>0, <1>1, <1>12 DEF ActKeeps
  <2>2. a \notin Sessions /\ ~r.mark => temp'[p] # "tracked"
    BY <1>0, <1>1, <1>2, <1>12 DEF ActKeeps
  <2> QED BY <1>8, <2>1, <2>2 DEF ActKeeps
<1>16. a \in Sessions => LoopFits(a, r2, sess[a]) /\ Attends(sess[a], r2, temp')
  <2> HAVE a \in Sessions
  <2>1. LoopFits(a, r2, sess[a]) /\ sess[a].path = p
    BY <1>0, <1>1, <1>2, <1>13 DEF ActFits, LoopFits
  <2>2. temp'[sess[a].path] = "tracked" => temp[sess[a].path] = "tracked"
    BY <1>12, <2>1
  <2>3. Attends(sess[a], r, temp)
    BY <1>1
  <2>4. sess[a].st = "open" /\ temp'[sess[a].path] = "tracked" => ~sess[a].synced
    BY <2>2, <2>3 DEF Attends
  <2>5. r2.pc \in Uploading /\ ~r2.mark => sess[a].event
    BY <1>0, <1>2, <1>8, <2>3 DEF Attends
  <2> QED BY <1>8, <2>1, <2>4, <2>5 DEF Attends
<1> HIDE DEF r, p, now
<1> QED BY <1>0, <1>3, <1>6, <1>10, <1>12, <1>13, <1>14, <1>15, <1>16, StaleStep

----------------------------------------------------------------------------
(* The debounce loop keeps the invariant *)

LEMMA ReceiveStep ==
  ASSUME IInv, NEW s \in Sessions, Receive(s)
  PROVE  IInv'
<1> DEFINE r == act[s]
           x == sess[s]
<1>0. s \in Actors
  BY DEF Actors
<1>1. r \in ActT /\ ActFits(s, r, sess) /\ ActSaw(r, remote) /\ ActKeeps(s, r, temp)
      /\ Attends(x, r, temp) /\ x \in SessT /\ SessFits(x) /\ SessSaw(x, remote)
  BY <1>0, Known DEF IInv, Shape, Seen
<1>2. PICK r2 : r2 = [r EXCEPT !.pc = "draining"]
  OBVIOUS
<1>3. PICK x2 : x2 = [x EXCEPT !.event = FALSE]
  OBVIOUS
<1>4. act' = [act EXCEPT ![s] = r2] /\ sess' = [sess EXCEPT ![s] = x2]
      /\ UNCHANGED <<temp, remote, connected>> /\ r.kind = "loop"
  BY <1>2, <1>3 DEF Receive
<1>5. "draining" \in Stages /\ "draining" \notin Saving /\ "draining" \notin OnPath
      /\ "draining" \notin Uploading /\ "draining" \notin {"same", "stat"} \cup Filling
      /\ "draining" \notin Sending
  BY DEF Stages, Saving, Sending, Uploading, OnPath, Downloading, Filling
<1>6. r2 \in ActT /\ r2.kind = r.kind /\ r2.s = r.s /\ r2.path = r.path /\ r2.todo = r.todo
      /\ r2.pc = "draining" /\ r2.stat = r.stat
  BY <1>1, <1>2, <1>5 DEF ActT
<1>7. x2 \in SessT /\ x2.st = x.st /\ x2.path = x.path /\ x2.base = x.base /\ x2.synced = x.synced
  BY <1>1, <1>3 DEF SessT
<1>8. ActFits(s, r2, sess)
  BY <1>1, <1>4, <1>5, <1>6 DEF ActFits, LoopFits
<1>9. ActSaw(r2, remote)
  BY <1>1, <1>5, <1>6 DEF ActSaw
<1>10. ActKeeps(s, r2, temp)
  BY <1>6 DEF ActKeeps, Uploading, Sending
<1>11. SessFits(x2) /\ SessSaw(x2, remote)
  BY <1>1, <1>7 DEF SessFits, SessSaw
<1>12. Attends(x2, r2, temp)
  <2>1. r2.pc \notin Uploading /\ r2.pc # "idle"
    BY <1>5, <1>6
  <2>2. x2.st = "open" /\ temp[x2.path] = "tracked" => ~x2.synced
    BY <1>1, <1>7 DEF Attends
  <2> QED BY <2>1, <2>2 DEF Attends
<1> HIDE DEF r, x
<1> QED BY <1>0, <1>4, <1>7, <1>8, <1>9, <1>10, <1>11, <1>12, OwnStep DEF x

LEMMA StartedPc ==
  ASSUME NEW o \in ActT, NEW s
  PROVE  Started(o, s).pc \in {"idle", "next", "sweep", "check"}
<1>1. CASE ~Pending(s)
  BY <1>1, ResumedFacts DEF Started
<1>2. CASE Pending(s) /\ ~connected
  BY <1>2, ResumedFacts DEF Started
<1>3. CASE Pending(s) /\ connected
  BY <1>3 DEF Started, ActT
<1> QED BY <1>1, <1>2, <1>3

\* The user is told of a save that nothing will look at.
LEMMA QuietStep ==
  ASSUME IInv, NEW s \in Sessions, Quiet(s)
  PROVE  IInv'
<1> DEFINE r == act[s]
           x == sess[s]
           b == x.told \/ StartTells(s)
<1>0. s \in Actors
  BY DEF Actors
<1>1. r \in ActT /\ ActFits(s, r, sess) /\ ActSaw(r, remote) /\ ActKeeps(s, r, temp)
      /\ Attends(x, r, temp) /\ x \in SessT /\ SessFits(x)
  BY <1>0, Known DEF IInv, Shape
<1>2. PICK r2 : r2 = Started(r, s)
  OBVIOUS
<1>3. PICK x2 : x2 = [x EXCEPT !.told = b]
  OBVIOUS
<1>4. act' = [act EXCEPT ![s] = r2] /\ sess' = [sess EXCEPT ![s] = x2]
      /\ UNCHANGED <<temp, remote, connected>> /\ r.pc = "draining"
  BY <1>2, <1>3 DEF Quiet
<1>5. r.kind = "loop" /\ x.st = "open" /\ r.path = x.path /\ r.path \in Paths
  BY <1>1, <1>4 DEF ActFits, LoopFits, SessFits
<1>6. Ready(s, r, sess)
  BY <1>1, <1>5 DEF Ready, ActFits
<1>7. /\ ActFits(s, r2, sess) /\ ActSaw(r2, remote) /\ ActKeeps(s, r2, temp)
      /\ Pending(s) /\ ~StartTells(s) => r2.pc = "check"
  BY <1>2, <1>5, <1>6, StartedFits DEF IInv
<1>8. r2.pc \notin Uploading
  <2>1. r2.pc \in {"idle", "next", "sweep", "check"}
    BY <1>1, <1>2, StartedPc
  <2> QED BY <2>1 DEF Uploading, Sending
<1>10. x2 \in SessT /\ x2.st = x.st /\ x2.path = x.path /\ x2.base = x.base
       /\ x2.synced = x.synced /\ x2.event = x.event /\ x2.conflict = x.conflict /\ (x2.told <=> b)
  BY <1>3, Told DEF IInv
<1>11. temp[x.path] = "tracked" /\ x.st = "open" => r2.pc # "idle" \/ x2.told
  <2> HAVE temp[x.path] = "tracked" /\ x.st = "open"
  <2>1. Pending(s)
    BY <1>1 DEF Attends, Pending
  <2>2. StartTells(s) => x2.told
    BY <1>10
  <2> QED BY <2>1, <2>2, <1>7
<1>12. x.told => x2.told
  BY <1>10
<1> HIDE DEF r, b
<1> QED BY <1>0, <1>4, <1>7, <1>8, <1>10, <1>11, <1>12, NoteStep

----------------------------------------------------------------------------
(* download_to_temp keeps the invariant *)

LEMMA CallKnown ==
  ASSUME IInv, NEW c \in Calls
  PROVE  /\ c \in Actors /\ c \notin Sessions
         /\ act[c] \in ActT /\ ActFits(c, act[c], sess) /\ ActSaw(act[c], remote)
         /\ ActKeeps(c, act[c], temp)
<1>1. c \in Actors /\ c \notin Sessions
  BY Disjoint DEF Actors
<1> QED BY <1>1, Known

\* A command is off again.
LEMMA OffStep ==
  ASSUME IInv, NEW c \in Calls, act' = [act EXCEPT ![c] = Off],
         UNCHANGED <<temp, remote, connected, sess>>
  PROVE  IInv'
BY CallKnown, OffFits, SoloStep

LEMMA ReadStep ==
  ASSUME IInv, NEW c \in Calls, Read(c)
  PROVE  IInv'
<1> DEFINE r == act[c]
           p == r.path
<1>1. c \in Actors /\ c \notin Sessions /\ r \in ActT /\ ActFits(c, r, sess) /\ ActSaw(r, remote)
  BY CallKnown
<1>2. Shape /\ Seen /\ Kept
  BY DEF IInv
<1>3. PICK r2 : r2 = [r EXCEPT !.pc = "create"]
  OBVIOUS
<1>4. r.pc = "read" /\ act' = [act EXCEPT ![c] = r2]
      /\ remote' = [remote EXCEPT ![p].change = "known"]
      /\ UNCHANGED <<temp, connected, sess>>
  BY <1>3 DEF Read
<1>5. "create" \in Stages /\ "create" \in Filling /\ "create" \notin Uploading
      /\ "create" \notin Sending /\ "read" \in OnPath
  BY DEF Stages, Downloading, Filling, Uploading, Sending, OnPath
<1>6. p \in Paths
  BY <1>1, <1>4, <1>5 DEF ActFits
<1>7. r2 \in ActT /\ r2.kind = r.kind /\ r2.s = r.s /\ r2.path = r.path /\ r2.todo = r.todo
      /\ r2.pc = "create" /\ r2.stat = r.stat
  BY <1>1, <1>3, <1>5 DEF ActT
<1>8. [remote[p] EXCEPT !.change = "known"] \in RemoteT
  BY <1>2, <1>6 DEF Shape, RemoteT
<1>9. remote' \in [Paths -> RemoteT] /\ remote'[p] = [remote[p] EXCEPT !.change = "known"]
      /\ \A q \in Paths \ {p} : remote'[q] = remote[q]
  BY <1>2, <1>4, <1>6, <1>8 DEF Shape
<1>10. remote'[p].change = "known"
  BY <1>2, <1>6, <1>9 DEF Shape, RemoteT
<1>11. Seener(remote', remote)
  BY <1>9, <1>10 DEF Seener
<1>12. \A b \in Actors : act'[b] = IF b = c THEN r2 ELSE act[b]
  BY <1>2, <1>4 DEF Shape
<1>13. ActFits(c, r2, sess)
  BY <1>1, <1>6, <1>7, FitsMove
<1>14. ActSaw(r2, remote')
  BY <1>6, <1>7, <1>10 DEF ActSaw
<1>15. act' \in [Actors -> ActT]
  BY <1>2, <1>4, <1>7 DEF Shape
<1>16. Shape'
  BY <1>2, <1>4, <1>9, <1>12, <1>13, <1>15 DEF Shape
<1>17. \A b \in Actors : ActSaw(act'[b], remote')
  <2> TAKE b \in Actors
  <2>1. CASE b = c
    BY <2>1, <1>12, <1>14
  <2>2. CASE b # c
    <3>1. Like(act[b], act[b])
      BY <1>2 DEF Like, Shape
    <3> QED BY <2>2, <3>1, <1>2, <1>11, <1>12, SawLike DEF Shape, Seen
  <2> QED BY <2>1, <2>2
<1>18. \A t \in Sessions : SessSaw(sess'[t], remote')
  <2> TAKE t \in Sessions
  <2>1. Calm(sess[t], sess[t])
    BY <1>2 DEF Calm, Shape
  <2> QED BY <2>1, <1>2, <1>4, <1>11, SessSawCalm DEF Shape, Seen
<1>19. ActKeeps(c, r2, temp)
  BY <1>5, <1>7 DEF ActKeeps
<1>20. Kept'
  <2>1. \A b \in Actors : ActKeeps(b, act'[b], temp')
    BY <1>2, <1>4, <1>12, <1>19 DEF Kept
  <2>2. \A t \in Sessions : t \in Actors /\ t # c
    BY <1>1 DEF Actors
  <2>3. \A t \in Sessions : Attends(sess'[t], act'[t], temp')
    BY <1>2, <1>4, <1>12, <2>2 DEF Kept
  <2> QED BY <2>1, <2>3 DEF Kept
<1> QED BY <1>16, <1>17, <1>18, <1>20 DEF IInv, Seen

LEMMA TempBecomesStep ==
  ASSUME IInv, NEW c \in Calls, NEW kind \in {"part", "clean"}, NEW pc \in {"fill", "restat"},
         act[c].pc \in Filling, TempBecomes(c, kind, pc)
  PROVE  IInv'
<1> DEFINE r == act[c]
           p == r.path
<1>1. c \in Actors /\ c \notin Sessions /\ r \in ActT /\ ActFits(c, r, sess) /\ ActSaw(r, remote)
      /\ Shape
  BY CallKnown DEF IInv
<1>2. p \in Paths
  BY <1>1 DEF ActFits, OnPath, Downloading
<1>3. PICK r0 : r0 = TouchedActors({p}, act)[c]
  OBVIOUS
<1>4. PICK r2 : r2 = [r0 EXCEPT !.pc = pc]
  OBVIOUS
<1>5. /\ temp' = [temp EXCEPT ![p] = kind] /\ sess' = TouchedSessions({p}, sess)
      /\ act' = [TouchedActors({p}, act) EXCEPT ![c] = r2] /\ UNCHANGED <<remote, connected>>
  BY <1>3, <1>4 DEF TempBecomes
<1>6. Like(r0, r)
  BY <1>1, <1>3, TouchedActor
<1>7. pc \in Stages /\ pc \in Filling /\ pc \notin Uploading /\ pc \notin Sending /\ pc # "draining"
  BY DEF Stages, Downloading, Filling, Uploading, Sending
<1>8. r2 \in ActT /\ r2.kind = r.kind /\ r2.s = r.s /\ r2.path = r.path /\ r2.todo = r.todo
      /\ r2.pc = pc /\ (r2.stat => r.stat)
  BY <1>4, <1>6, <1>7 DEF Like, ActT
<1>9. temp' \in [Paths -> TempKind] /\ temp'[p] # "tracked" /\ Fewer(temp', temp)
  <2>1. kind \in TempKind /\ kind # "tracked" /\ temp \in [Paths -> TempKind]
    BY <1>1 DEF TempKind, Shape
  <2> QED BY <2>1, <1>2, <1>5 DEF Fewer
<1>10. ActFits(c, r2, sess)
  BY <1>1, <1>2, <1>7, <1>8, FitsMove
<1>11. ActSaw(r2, remote)
  BY <1>1, <1>7, <1>8 DEF ActSaw
<1>12. ActKeeps(c, r2, temp')
  BY <1>7, <1>8, <1>9 DEF ActKeeps, Uploading, Sending
<1>13. \A q \in {p} : temp'[q] # "tracked"
  BY <1>9
<1>14. {p} \in SUBSET Paths
  BY <1>2
<1> HIDE DEF r, p
<1> QED BY <1>5, <1>9, <1>10, <1>11, <1>12, <1>13, <1>14, TouchStep

LEMMA RestatStep ==
  ASSUME IInv, NEW c \in Calls, Restat(c)
  PROVE  IInv'
<1> DEFINE r == act[c]
<1>1. c \in Actors /\ c \notin Sessions /\ r \in ActT /\ ActFits(c, r, sess) /\ ActSaw(r, remote)
      /\ ActKeeps(c, r, temp)
  BY CallKnown
<1>2. PICK r2 : r2 = [r EXCEPT !.pc = "rebase", !.stat = TRUE]
  OBVIOUS
<1>3. act' = [act EXCEPT ![c] = r2] /\ UNCHANGED <<temp, remote, connected, sess>> /\ r.pc = "restat"
  BY <1>2 DEF Restat
<1>4. "rebase" \in Stages /\ "rebase" \notin Filling /\ "rebase" \notin Uploading
      /\ "rebase" \notin Sending /\ "restat" \in Filling /\ "restat" \in OnPath
  BY DEF Stages, Downloading, Filling, Uploading, Sending, OnPath
<1>5. r.path \in Paths
  BY <1>1, <1>3, <1>4 DEF ActFits
<1>6. r2 \in ActT /\ r2.kind = r.kind /\ r2.s = r.s /\ r2.path = r.path /\ r2.todo = r.todo
      /\ r2.pc = "rebase"
  BY <1>1, <1>2, <1>4 DEF ActT
<1>7. ActFits(c, r2, sess)
  BY <1>1, <1>5, <1>6, FitsMove
<1>8. ActSaw(r2, remote)
  BY <1>1, <1>3, <1>4, <1>5, <1>6 DEF ActSaw
<1>9. ActKeeps(c, r2, temp)
  BY <1>1, <1>3, <1>4, <1>6 DEF ActKeeps
<1> QED BY <1>1, <1>3, <1>7, <1>8, <1>9, SoloStep

LEMMA DownloadFailsStep ==
  ASSUME IInv, NEW c \in Calls, DownloadFails(c)
  PROVE  IInv'
BY OffStep DEF DownloadFails

----------------------------------------------------------------------------
(* open_in_editor and resolve_conflict keep the invariant *)

\* The record a command starts with.
Fresh(k, pc, s, p, m) ==
  [kind |-> k, pc |-> pc, s |-> s, path |-> p, stat |-> FALSE, mark |-> m, copy |-> "none",
   clean |-> TRUE, keep |-> FALSE, cut |-> FALSE, todo |-> {}]

LEMMA FreshFacts ==
  ASSUME NEW k \in Kinds, NEW pc \in Stages, NEW s \in Sessions \cup {NoSession},
         NEW p \in Paths \cup {NoPath}, NEW m \in BOOLEAN
  PROVE  LET r == Fresh(k, pc, s, p, m) IN
         /\ r \in ActT
         /\ r.kind = k /\ r.pc = pc /\ r.s = s /\ r.path = p /\ (r.mark <=> m)
         /\ ~r.stat /\ r.todo = {} /\ r.clean
<1>1. CASE m
  <2>1. Fresh(k, pc, s, p, TRUE) \in ActT
    BY DEF ActT, Fresh
  <2>2. m = TRUE
    BY <1>1
  <2> QED BY <2>1, <2>2 DEF Fresh
<1>2. CASE ~m
  <2>1. Fresh(k, pc, s, p, FALSE) \in ActT
    BY DEF ActT, Fresh
  <2>2. m = FALSE
    BY <1>2
  <2> QED BY <2>1, <2>2 DEF Fresh
<1> QED BY <1>1, <1>2

LEMMA OpenStep ==
  ASSUME IInv, NEW c \in Calls, NEW p \in Paths, Open(c, p)
  PROVE  IInv'
<1>1. PICK r2 : r2 = [Off EXCEPT !.kind = "open", !.pc = "read", !.path = p]
  OBVIOUS
<1>2. act' = [act EXCEPT ![c] = r2] /\ UNCHANGED <<temp, remote, connected, sess>>
  BY <1>1 DEF Open
<1>3. r2 = Fresh("open", "read", NoSession, p, FALSE)
  BY <1>1 DEF Off, Fresh
<1>4. "open" \in Kinds /\ "read" \in Stages
  BY DEF Kinds, Stages, Downloading
<1>5. r2 \in ActT /\ r2.kind = "open" /\ r2.pc = "read" /\ r2.s = NoSession /\ r2.path = p
      /\ ~r2.stat /\ r2.todo = {}
  <2>1. PICK m \in BOOLEAN : m = FALSE
    OBVIOUS
  <2>2. r2 = Fresh("open", "read", NoSession, p, m)
    BY <1>3, <2>1
  <2>3. p \in Paths \cup {NoPath} /\ NoSession \in Sessions \cup {NoSession}
    OBVIOUS
  <2> QED BY <1>4, <2>2, <2>3, FreshFacts
<1>6. "read" \notin Uploading /\ "read" \notin Sending /\ "read" \notin {"same", "stat"} \cup Filling
  BY DEF Uploading, Sending, Filling
<1>7. c \in Actors /\ c \notin Sessions
  BY CallKnown
<1>8. ActFits(c, r2, sess)
  BY <1>5, <1>7 DEF ActFits
<1>9. ActSaw(r2, remote) /\ ActKeeps(c, r2, temp)
  BY <1>5, <1>6 DEF ActSaw, ActKeeps
<1> QED BY <1>2, <1>7, <1>8, <1>9, SoloStep

LEMMA RegisterStep ==
  ASSUME IInv, NEW c \in Calls, Register(c)
  PROVE  IInv'
<1> DEFINE r == act[c]
           p == r.path
<1>1. c \in Actors /\ c \notin Sessions /\ r \in ActT /\ ActFits(c, r, sess) /\ ActSaw(r, remote)
      /\ ActKeeps(c, r, temp) /\ Shape
  BY CallKnown DEF IInv
<1>2. r.pc = "rebase" /\ UNCHANGED <<temp, remote, connected>>
  BY DEF Register
<1>3. PICK s \in Sessions :
        /\ sess[s].st = "unborn"
        /\ sess' = [sess EXCEPT ![s] = [Unborn EXCEPT !.st = "open", !.path = p,
                      !.base = r.stat, !.synced = temp[p] # "none"]]
        /\ act' = [act EXCEPT ![c] = Off, ![s] = [Off EXCEPT !.kind = "loop", !.path = p]]
  BY DEF Register
<1>4. PICK x2 : x2 = [Unborn EXCEPT !.st = "open", !.path = p, !.base = r.stat,
                                    !.synced = temp[p] # "none"]
  OBVIOUS
<1>5. PICK r3 : r3 = [Off EXCEPT !.kind = "loop", !.path = p]
  OBVIOUS
<1>6. p \in Paths /\ temp[p] # "tracked"
  BY <1>1, <1>2 DEF ActFits, ActKeeps, OnPath, Downloading
<1>7. s \in Actors /\ s # c
  BY <1>1 DEF Actors
<1>8. act' = [act EXCEPT ![s] = r3, ![c] = Off] /\ sess' = [sess EXCEPT ![s] = x2]
  BY <1>1, <1>3, <1>4, <1>5, <1>7 DEF Shape
<1>9. x2 \in SessT /\ x2.st = "open" /\ x2.path = p /\ x2.base = r.stat
  <2>1. x2 = [st |-> "open", path |-> p, base |-> r.stat, synced |-> temp[p] # "none",
              event |-> FALSE, conflict |-> FALSE, told |-> FALSE]
    BY <1>4 DEF Unborn
  <2>2. r.stat \in BOOLEAN /\ (temp[p] # "none") \in BOOLEAN
    BY <1>1 DEF ActT
  <2> QED BY <1>6, <2>1, <2>2 DEF SessT
<1>10. r3 \in ActT /\ r3.kind = "loop" /\ r3.pc = "idle" /\ r3.s = NoSession /\ r3.path = p
       /\ ~r3.stat /\ r3.todo = {}
  <2>1. r3 = [kind |-> "loop", pc |-> "idle", s |-> NoSession, path |-> p, stat |-> FALSE,
        mark |-> FALSE, copy |-> "none", clean |-> TRUE, keep |-> FALSE, cut |-> FALSE,
        todo |-> {}]
    BY <1>5 DEF Off
  <2>2. "idle" \in Stages
    BY DEF Stages
  <2>3. r3 \in ActT
    BY <1>6, <2>1, <2>2 DEF ActT
  <2> QED BY <2>1, <2>3
<1>11. sess'[s] = x2 /\ Standing(sess', sess)
  BY <1>1, <1>3, <1>8 DEF Shape, Standing
<1>12. ActFits(c, Off, sess') /\ ActSaw(Off, remote) /\ ActKeeps(c, Off, temp)
  BY <1>1, OffFits
<1>13. "idle" \notin Saving /\ "idle" \notin OnPath /\ "idle" \notin Uploading
  BY DEF Saving, OnPath, Uploading, Sending, Downloading, Filling
<1>14. ActFits(s, r3, sess')
  <2>1. LoopFits(s, r3, sess'[s])
    BY <1>9, <1>10, <1>11, <1>13 DEF LoopFits
  <2> QED BY <1>10, <1>13, <2>1 DEF ActFits
<1>15. ActSaw(r3, remote) /\ ActKeeps(s, r3, temp)
  BY <1>10 DEF ActSaw, ActKeeps, Sending, Filling, Uploading
<1>16. SessFits(x2) /\ SessSaw(x2, remote)
  BY <1>1, <1>6, <1>9 DEF SessFits, SessSaw, ActSaw
<1>17. Attends(x2, r3, temp)
  BY <1>6, <1>9, <1>10, <1>13 DEF Attends
<1> HIDE DEF r, p
<1> QED BY <1>2, <1>8, <1>11, <1>12, <1>14, <1>15, <1>16, <1>17, LoopStep

LEMMA ResolvesStep ==
  ASSUME IInv, NEW c \in Calls, NEW s \in Sessions, NEW kind \in Kinds, NEW pc \in Stages,
         Resolves(c, s, kind, pc),
         \/ kind = "force" /\ pc = "write"
         \/ pc \in {"read", "copying"}
  PROVE  IInv'
<1> DEFINE m == kind = "force" /\ temp[sess[s].path] # "none"
           p == sess[s].path
<1>1. c \in Actors /\ c \notin Sessions
  BY CallKnown
<1>2. sess[s].st = "open" /\ UNCHANGED <<temp, remote, connected, sess>>
  BY DEF Resolves
<1>3. p \in Paths /\ sess[s].st # "unborn"
  BY <1>2 DEF IInv, Shape, SessFits
<1>4. PICK b \in BOOLEAN : b <=> m
  OBVIOUS
<1>5. PICK r2 : r2 = [Off EXCEPT !.kind = kind, !.pc = pc, !.s = s, !.path = p, !.mark = b]
  OBVIOUS
<1>6. b = m
  BY <1>4
<1>7. act' = [act EXCEPT ![c] = r2]
  BY <1>5, <1>6 DEF Resolves
<1>8. r2 \in ActT /\ r2.kind = kind /\ r2.pc = pc /\ r2.s = s /\ r2.path = p /\ (r2.mark <=> b)
      /\ ~r2.stat /\ r2.todo = {}
  <2>1. r2 = Fresh(kind, pc, s, p, b)
    BY <1>5 DEF Off, Fresh
  <2>2. p \in Paths \cup {NoPath} /\ s \in Sessions \cup {NoSession}
    BY <1>3
  <2> HIDE DEF p, m
  <2> QED BY <2>1, <2>2, FreshFacts
<1>9. kind # "loop" /\ pc # "draining"
  BY DEF Kinds
<1>10. ActFits(c, r2, sess)
  BY <1>1, <1>3, <1>8, <1>9 DEF ActFits
<1>11. CASE kind = "force" /\ pc = "write"
  <2>1. ActSaw(r2, remote)
    BY <1>8, <1>11 DEF ActSaw, Filling
  <2>2. ActKeeps(c, r2, temp)
    BY <1>4, <1>8, <1>11 DEF ActKeeps
  <2> QED BY <1>1, <1>2, <1>7, <1>10, <2>1, <2>2, SoloStep
<1>12. CASE pc \in {"read", "copying"}
  <2>1. ActSaw(r2, remote)
    BY <1>8, <1>12 DEF ActSaw, Filling, Sending
  <2>2. ActKeeps(c, r2, temp)
    BY <1>8, <1>12 DEF ActKeeps, Uploading, Sending
  <2> QED BY <1>1, <1>2, <1>7, <1>10, <2>1, <2>2, SoloStep
<1> QED BY <1>11, <1>12

LEMMA ResolutionStep ==
  ASSUME IInv, NEW c \in Calls, NEW s \in Sessions,
         Overwrite(c, s) \/ Discard(c, s) \/ SaveAsCopy(c, s)
  PROVE  IInv'
<1>1. {"force", "discard", "copy"} \subseteq Kinds /\ {"write", "read", "copying"} \subseteq Stages
  BY DEF Kinds, Stages, Saving, Sending, Downloading
<1>2. CASE Overwrite(c, s)
  BY <1>1, <1>2, ResolvesStep DEF Overwrite
<1>3. CASE Discard(c, s)
  BY <1>1, <1>3, ResolvesStep DEF Discard
<1>4. CASE SaveAsCopy(c, s)
  BY <1>1, <1>4, ResolvesStep DEF SaveAsCopy
<1> QED BY <1>2, <1>3, <1>4

LEMMA CopyAsideStep ==
  ASSUME IInv, NEW c \in Calls, CopyAside(c)
  PROVE  IInv'
<1> DEFINE r == act[c]
           goes == sess[r.s].st = "open" /\ connected
<1>1. c \in Actors /\ c \notin Sessions /\ r \in ActT /\ ActFits(c, r, sess) /\ ActSaw(r, remote)
  BY CallKnown
<1>2. r.pc = "copying" /\ UNCHANGED <<temp, remote, connected, sess>>
  BY DEF CopyAside
<1>3. CASE ~goes
  <2>1. act' = [act EXCEPT ![c] = Off]
    BY <1>3 DEF CopyAside
  <2> QED BY <1>2, <2>1, OffStep
<1>4. CASE goes
  <2>1. PICK r2 : r2 = [r EXCEPT !.pc = "read"]
    OBVIOUS
  <2>2. act' = [act EXCEPT ![c] = r2]
    BY <1>4, <2>1 DEF CopyAside
  <2>3. "read" \in Stages /\ "read" \notin {"same", "stat"} \cup Filling /\ "read" \notin Sending
        /\ "read" \notin Uploading
    BY DEF Stages, Downloading, Filling, Sending, Uploading
  <2>4. r2 \in ActT /\ r2.kind = r.kind /\ r2.s = r.s /\ r2.path = r.path /\ r2.todo = r.todo
        /\ r2.pc = "read" /\ r2.stat = r.stat
    BY <1>1, <2>1, <2>3 DEF ActT
  <2>5. r.path \in Paths
    BY <1>1, <1>2 DEF ActFits, OnPath
  <2>6. ActFits(c, r2, sess)
    BY <1>1, <2>4, <2>5, FitsMove
  <2>7. ActSaw(r2, remote) /\ ActKeeps(c, r2, temp)
    BY <1>1, <2>3, <2>4 DEF ActSaw, ActKeeps
  <2> QED BY <1>1, <1>2, <2>2, <2>6, <2>7, SoloStep
<1> QED BY <1>3, <1>4

LEMMA RebaseStep ==
  ASSUME IInv, NEW c \in Calls, Rebase(c)
  PROVE  IInv'
<1> DEFINE r == act[c]
           s == r.s
           now == temp[r.path] # "none"
<1>1. PICK x2 : x2 = [sess[s] EXCEPT !.base = r.stat, !.synced = now, !.conflict = FALSE]
  OBVIOUS
<1>2. sess' = [sess EXCEPT ![s] = x2] /\ act' = [act EXCEPT ![c] = Off]
      /\ UNCHANGED <<temp, remote, connected>> /\ r.pc = "rebase"
  BY <1>1 DEF Rebase
<1>3. c \in Actors /\ c \notin Sessions /\ r \in ActT /\ ActFits(c, r, sess) /\ ActSaw(r, remote)
      /\ ActKeeps(c, r, temp)
  BY CallKnown
<1>4. ActFits(c, Off, sess) /\ ActSaw(Off, remote) /\ ActKeeps(c, Off, temp)
  BY <1>3, OffFits
<1>5. r.path \in Paths /\ temp[r.path] # "tracked"
  BY <1>2, <1>3 DEF ActFits, ActKeeps, OnPath, Downloading
<1>6. ASSUME s \in Sessions
      PROVE  /\ SessFits(x2) /\ x2.st = sess[s].st /\ x2.path = sess[s].path
             /\ SessSaw(x2, remote)
             /\ Attends(x2, act[s], temp) /\ s # c
  <2>1. sess[s] \in SessT /\ SessFits(sess[s]) /\ Attends(sess[s], act[s], temp)
    BY <1>6 DEF IInv, Shape, Kept
  <2>2. r.stat \in BOOLEAN /\ now \in BOOLEAN
    BY <1>3 DEF ActT
  <2>3. x2 \in SessT /\ x2.st = sess[s].st /\ x2.path = sess[s].path /\ x2.base = r.stat
        /\ x2.event = sess[s].event
    BY <1>1, <2>1, <2>2 DEF SessT
  <2>4. sess[s].path = r.path
    BY <1>3, <1>6, Disjoint DEF ActFits
  <2>5. SessFits(x2) /\ SessSaw(x2, remote)
    BY <1>3, <1>5, <2>1, <2>3, <2>4 DEF SessFits, SessSaw, ActSaw
  <2>6. Attends(x2, act[s], temp)
    BY <1>5, <2>1, <2>3, <2>4 DEF Attends
  <2> QED BY <1>3, <1>6, <2>3, <2>5, <2>6
<1> HIDE DEF r, s, now
<1> QED BY <1>2, <1>3, <1>4, <1>6, OwnStep

LEMMA CopyFailsStep ==
  ASSUME IInv, NEW c \in Calls, CopyFails(c)
  PROVE  IInv'
BY OffStep DEF CopyFails

----------------------------------------------------------------------------
(* close, close_connection and flush_all keep the invariant *)

LEMMA ClosingStep ==
  ASSUME IInv, NEW c \in Calls, NEW s \in Sessions, sess[s].st = "open",
         NEW o \in ActT, o.kind \notin {"loop", "exit"},
         \A t \in o.todo : sess[t].st # "unborn",
         Closing(c, o, s)
  PROVE  IInv'
<1> DEFINE p == sess[s].path
           mid == act[s].pc \in Sending \cup {"record"}
           b == sess[s].told \/ StartTells(s)
<1>1. c \in Actors /\ c \notin Sessions /\ s \in Actors /\ s # c /\ Shape /\ Seen
  BY CallKnown DEF IInv, Actors
<1>2. sess[s] \in SessT /\ SessFits(sess[s]) /\ Attends(sess[s], act[s], temp)
      /\ SessSaw(sess[s], remote) /\ act \in [Actors -> ActT] /\ sess \in [Sessions -> SessT]
  BY DEF IInv, Shape, Kept, Seen
<1>3. p \in Paths
  BY <1>2 DEF SessFits
<1>4. PICK o2 : o2 = [o EXCEPT !.s = s, !.path = p, !.cut = mid]
  OBVIOUS
<1>5. PICK r2 : r2 = Started(o2, s)
  OBVIOUS
<1>6. PICK x2 : x2 = [sess[s] EXCEPT !.st = "closed", !.event = FALSE, !.told = b]
  OBVIOUS
<1>7. act' = [[act EXCEPT ![s] = Off] EXCEPT ![c] = r2] /\ sess' = [sess EXCEPT ![s] = x2]
      /\ UNCHANGED <<temp, remote, connected>>
  BY <1>4, <1>5, <1>6 DEF Closing
<1>8. act' = [act EXCEPT ![s] = Off, ![c] = r2]
  BY <1>7
<1>9. o2 \in ActT /\ o2.kind = o.kind /\ o2.s = s /\ o2.path = p /\ o2.todo = o.todo
  <2>1. mid \in BOOLEAN
    OBVIOUS
  <2>2. CASE mid
    <3>1. o2 = [o EXCEPT !.s = s, !.path = p, !.cut = TRUE]
      BY <1>4, <2>2
    <3> QED BY <1>3, <3>1 DEF ActT
  <2>3. CASE ~mid
    <3>1. o2 = [o EXCEPT !.s = s, !.path = p, !.cut = FALSE]
      BY <1>4, <2>1, <2>3
    <3> QED BY <1>3, <3>1 DEF ActT
  <2> QED BY <2>2, <2>3
<1>10. Ready(c, o2, sess)
  BY <1>1, <1>3, <1>9 DEF Ready
<1>11. temp[p] = "tracked" => ~sess[s].synced
  BY <1>2 DEF Attends
<1>12. ActFits(c, r2, sess) /\ ActSaw(r2, remote) /\ ActKeeps(c, r2, temp)
  BY <1>1, <1>5, <1>9, <1>10, <1>11, StartedFits
<1>13. x2 \in SessT /\ x2.st = "closed" /\ x2.path = p /\ x2.base = sess[s].base
  <2>1. b \in BOOLEAN
    BY <1>2 DEF SessT, StartTells, Pending
  <2>2. CASE b
    <3>1. x2 = [sess[s] EXCEPT !.st = "closed", !.event = FALSE, !.told = TRUE]
      BY <1>6, <2>2
    <3> QED BY <1>2, <3>1 DEF SessT
  <2>3. CASE ~b
    <3>1. x2 = [sess[s] EXCEPT !.st = "closed", !.event = FALSE, !.told = FALSE]
      BY <1>6, <2>1, <2>3
    <3> QED BY <1>2, <3>1 DEF SessT
  <2> QED BY <2>2, <2>3
<1>14. sess'[s] = x2 /\ Standing(sess', sess)
  BY <1>2, <1>7, <1>13 DEF Standing
<1>15. ActFits(c, r2, sess')
  BY <1>1, <1>12, <1>14, FitsStanding
<1>16. ActFits(s, Off, sess') /\ ActSaw(Off, remote) /\ ActKeeps(s, Off, temp)
  BY <1>13, <1>14, OffFits
<1>17. SessFits(x2) /\ SessSaw(x2, remote)
  BY <1>2, <1>3, <1>13 DEF SessFits, SessSaw
<1>18. Attends(x2, Off, temp)
  BY <1>13, OffFacts DEF Attends, Uploading, Sending
<1> HIDE DEF p, mid, b
<1> QED BY <1>7, <1>8, <1>12, <1>14, <1>15, <1>16, <1>17, <1>18, LoopStep

LEMMA CloseStep ==
  ASSUME IInv, NEW c \in Calls, NEW s \in Sessions, NEW keep \in BOOLEAN, Close(c, s, keep)
  PROVE  IInv'
<1>1. PICK o : o = [Off EXCEPT !.kind = "close", !.keep = keep]
  OBVIOUS
<1>2. o \in ActT /\ o.kind = "close" /\ o.todo = {}
  <2>1. "close" \in {"none", "loop"} \cup Kinds
    BY DEF Kinds
  <2>2. Off \in ActT /\ Off.todo = {}
    BY OffFacts
  <2>3. CASE keep
    <3>1. o = [Off EXCEPT !.kind = "close", !.keep = TRUE]
      BY <1>1, <2>3
    <3> QED BY <2>1, <2>2, <3>1 DEF ActT
  <2>4. CASE ~keep
    <3>1. o = [Off EXCEPT !.kind = "close", !.keep = FALSE]
      BY <1>1, <2>4
    <3> QED BY <2>1, <2>2, <3>1 DEF ActT
  <2> QED BY <2>3, <2>4
<1>3. sess[s].st = "open" /\ Closing(c, o, s)
  BY <1>1 DEF Close
<1> QED BY <1>2, <1>3, ClosingStep

\* What a command becomes when one of its sessions is done with.
Onward(k, cl, td) ==
  [kind |-> k, pc |-> "next", s |-> NoSession, path |-> NoPath, stat |-> FALSE, mark |-> FALSE,
   copy |-> "none", clean |-> cl, keep |-> FALSE, cut |-> FALSE, todo |-> td]

LEMMA OnwardFacts ==
  ASSUME NEW k \in {"none", "loop"} \cup Kinds, NEW cl \in BOOLEAN, NEW td \in SUBSET Sessions
  PROVE  LET r == Onward(k, cl, td) IN
         /\ r \in ActT
         /\ r.kind = k /\ r.pc = "next" /\ r.s = NoSession /\ ~r.stat /\ r.todo = td
<1>0. "next" \in Stages
  BY DEF Stages
<1>1. CASE cl
  <2>1. Onward(k, TRUE, td) \in ActT
    BY <1>0 DEF ActT, Onward
  <2>2. cl = TRUE
    BY <1>1
  <2> QED BY <2>1, <2>2 DEF Onward
<1>2. CASE ~cl
  <2>1. Onward(k, FALSE, td) \in ActT
    BY <1>0 DEF ActT, Onward
  <2>2. cl = FALSE
    BY <1>2
  <2> QED BY <2>1, <2>2 DEF Onward
<1> QED BY <1>1, <1>2

LEMMA DoneFits ==
  ASSUME NEW c, c \notin Sessions, NEW o \in ActT, NEW S, NEW R, NEW T,
         o.kind # "loop", \A s \in o.todo : S[s].st # "unborn"
  PROVE  LET r == IF o.kind = "close" THEN Off ELSE
                    [Off EXCEPT !.kind = o.kind, !.pc = "next", !.clean = o.clean, !.todo = o.todo]
         IN  ActFits(c, r, S) /\ ActSaw(r, R) /\ ActKeeps(c, r, T)
<1>1. CASE o.kind = "close"
  BY <1>1, OffFits
<1>2. CASE o.kind # "close"
  <2>1. PICK r : r = [Off EXCEPT !.kind = o.kind, !.pc = "next", !.clean = o.clean, !.todo = o.todo]
    OBVIOUS
  <2>2. o.kind \in {"none", "loop"} \cup Kinds /\ o.clean \in BOOLEAN /\ o.todo \in SUBSET Sessions
    BY DEF ActT
  <2>3. r = Onward(o.kind, o.clean, o.todo)
    BY <2>1 DEF Off, Onward
  <2>4. r \in ActT /\ r.kind = o.kind /\ r.pc = "next" /\ r.s = NoSession /\ ~r.stat
        /\ r.todo = o.todo
    BY <2>2, <2>3, OnwardFacts
  <2>5. \A s \in r.todo : S[s].st # "unborn"
    BY <2>4
  <2>6. ActFits(c, r, S) /\ ActSaw(r, R) /\ ActKeeps(c, r, T)
    BY <2>4, <2>5, IdleFits
  <2> QED BY <1>2, <2>1, <2>6
<1> QED BY <1>1, <1>2

LEMMA SweepStep ==
  ASSUME IInv, NEW c \in Calls, Sweep(c)
  PROVE  IInv'
<1> DEFINE o == act[c]
           p == o.path
           deletes == o.clean /\ ~o.keep /\ temp[p] # "none"
           done == IF o.kind = "close" THEN Off
             ELSE [Off EXCEPT !.kind = o.kind, !.pc = "next", !.clean = o.clean, !.todo = o.todo]
<1>1. c \in Actors /\ c \notin Sessions /\ o \in ActT /\ ActFits(c, o, sess)
  BY CallKnown
<1>2. o.pc = "sweep" /\ UNCHANGED <<remote, connected>>
  BY DEF Sweep
<1>3. p \in Paths /\ o.kind # "loop" /\ \A s \in o.todo : sess[s].st # "unborn"
  BY <1>1, <1>2 DEF ActFits, OnPath
<1>4. PICK r2 : r2 = done
  OBVIOUS
<1>5. \A T : ActFits(c, r2, sess) /\ ActSaw(r2, remote) /\ ActKeeps(c, r2, T)
  BY <1>1, <1>3, <1>4, DoneFits
<1>6. CASE deletes
  <2>1. /\ temp' = [temp EXCEPT ![p] = "none"]
        /\ sess' = TouchedSessions({p}, sess)
        /\ act' = [TouchedActors({p}, act) EXCEPT ![c] = r2]
    BY <1>4, <1>6 DEF Sweep
  <2>2. temp \in [Paths -> TempKind] /\ "none" \in TempKind
    BY DEF IInv, Shape, TempKind
  <2>3. temp' \in [Paths -> TempKind] /\ Fewer(temp', temp) /\ \A q \in {p} : temp'[q] # "tracked"
    BY <1>3, <2>1, <2>2 DEF Fewer
  <2>4. {p} \in SUBSET Paths
    BY <1>3
  <2> HIDE DEF p, o
  <2> QED BY <1>2, <1>5, <2>1, <2>3, <2>4, TouchStep
<1>7. CASE ~deletes
  <2>1. act' = [act EXCEPT ![c] = r2] /\ UNCHANGED <<temp, sess>>
    BY <1>4, <1>7 DEF Sweep
  <2> QED BY <1>1, <1>2, <1>5, <2>1, SoloStep
<1> QED BY <1>6, <1>7

LEMMA LeaveStep ==
  ASSUME IInv, NEW c \in Calls, NEW kind \in {"disconnect", "exit"}, Leave(c, kind)
  PROVE  IInv'
<1>1. c \in Actors /\ c \notin Sessions
  BY CallKnown
<1>2. PICK r2 : r2 = [Off EXCEPT !.kind = kind, !.pc = "next", !.todo = OpenSessions]
  OBVIOUS
<1>3. act' = [act EXCEPT ![c] = r2] /\ UNCHANGED <<temp, remote, connected, sess>>
  BY <1>2 DEF Leave
<1>4. r2 = [kind |-> kind, pc |-> "next", s |-> NoSession, path |-> NoPath, stat |-> FALSE,
        mark |-> FALSE, copy |-> "none", clean |-> TRUE, keep |-> FALSE, cut |-> FALSE,
        todo |-> OpenSessions]
  BY <1>2 DEF Off
<1>5. "next" \in Stages /\ kind \in Kinds /\ OpenSessions \in SUBSET Sessions
  BY DEF Stages, Kinds, OpenSessions
<1>6. r2 \in ActT
  BY <1>4, <1>5 DEF ActT
<1>7. r2.kind = kind /\ r2.pc = "next" /\ r2.s = NoSession /\ ~r2.stat
  BY <1>4
<1>8. \A s \in r2.todo : sess[s].st # "unborn"
  BY <1>4 DEF OpenSessions
<1>9. ActFits(c, r2, sess) /\ ActSaw(r2, remote) /\ ActKeeps(c, r2, temp)
  BY <1>1, <1>6, <1>7, <1>8, IdleFits
<1> QED BY <1>1, <1>3, <1>9, SoloStep

LEMMA CloseNextStep ==
  ASSUME IInv, NEW c \in Calls, NEW s \in Sessions, CloseNext(c, s)
  PROVE  IInv'
<1> DEFINE r == act[c]
<1>1. c \in Actors /\ c \notin Sessions /\ r \in ActT /\ ActFits(c, r, sess) /\ ActSaw(r, remote)
  BY CallKnown
<1>2. PICK o : o = [r EXCEPT !.todo = @ \ {s}]
  OBVIOUS
<1>3. r.kind = "disconnect" /\ r.pc = "next"
      /\ IF sess[s].st = "open"
           THEN Closing(c, o, s)
           ELSE act' = [act EXCEPT ![c] = o] /\ UNCHANGED <<temp, remote, connected, sess>>
  BY <1>2 DEF CloseNext
<1>4. o \in ActT /\ o.kind = r.kind /\ o.pc = r.pc /\ o.s = r.s /\ o.path = r.path
      /\ o.stat = r.stat /\ o.todo = r.todo \ {s}
  BY <1>1, <1>2 DEF ActT
<1>5. \A t \in o.todo : sess[t].st # "unborn"
  BY <1>1, <1>4 DEF ActFits
<1>6. CASE sess[s].st = "open"
  BY <1>3, <1>4, <1>5, <1>6, ClosingStep
<1>7. CASE sess[s].st # "open"
  <2>1. "next" \notin OnPath /\ "next" \notin {"same", "stat"} \cup Filling /\ "next" \notin Sending
        /\ "next" \notin Uploading
    BY DEF OnPath, Filling, Sending, Uploading, Saving, Downloading
  <2>2. ActFits(c, o, sess)
    BY <1>1, <1>3, <1>4, <1>5, <2>1 DEF ActFits
  <2>3. ActSaw(o, remote) /\ ActKeeps(c, o, temp)
    BY <1>1, <1>3, <1>4, <2>1 DEF ActSaw, ActKeeps
  <2> QED BY <1>1, <1>3, <1>7, <2>2, <2>3, SoloStep
<1> QED BY <1>6, <1>7

LEMMA FlushNextStep ==
  ASSUME IInv, NEW c \in Calls, NEW s \in Sessions, FlushNext(c, s)
  PROVE  IInv'
<1> DEFINE r == act[c]
<1>1. c \in Actors /\ c \notin Sessions /\ r \in ActT /\ ActFits(c, r, sess) /\ Shape /\ Seen
  BY CallKnown DEF IInv
<1>2. PICK o : o = [r EXCEPT !.todo = @ \ {s}]
  OBVIOUS
<1>3. PICK r2 : r2 = Started(o, s)
  OBVIOUS
<1>4. PICK x2 : x2 = [sess[s] EXCEPT !.told = @ \/ StartTells(s)]
  OBVIOUS
<1>5. act' = [act EXCEPT ![c] = r2] /\ sess' = [sess EXCEPT ![s] = x2]
      /\ UNCHANGED <<temp, remote, connected>> /\ r.kind = "exit" /\ s \in r.todo
  BY <1>2, <1>3, <1>4 DEF FlushNext
<1>6. o \in ActT /\ o.kind = "exit" /\ o.s = r.s /\ o.path = r.path /\ o.todo = r.todo \ {s}
  BY <1>1, <1>2, <1>5 DEF ActT
<1>7. Ready(c, o, sess) /\ sess[s].st # "unborn"
  BY <1>1, <1>5, <1>6 DEF ActFits, Ready
<1>8. ActFits(c, r2, sess) /\ ActSaw(r2, remote) /\ ActKeeps(c, r2, temp)
  BY <1>1, <1>3, <1>6, <1>7, StartedFits
<1>9. /\ x2 \in SessT /\ x2.st = sess[s].st /\ x2.path = sess[s].path
      /\ x2.base = sess[s].base /\ x2.synced = sess[s].synced
      /\ x2.event = sess[s].event /\ x2.conflict = sess[s].conflict
      /\ (x2.told <=> sess[s].told \/ StartTells(s))
  BY <1>1, <1>4, Told
<1> QED BY <1>1, <1>5, <1>8, <1>9, NoteStep

LEMMA RemoveTreeStep ==
  ASSUME IInv, NEW c \in Calls, RemoveTree(c)
  PROVE  IInv'
<1> DEFINE r == act[c]
<1>1. c \in Actors /\ c \notin Sessions /\ r \in ActT /\ ActFits(c, r, sess) /\ ActSaw(r, remote)
      /\ Shape
  BY CallKnown DEF IInv
<1>2. UNCHANGED <<remote, connected>>
  BY DEF RemoveTree
<1>3. "leave" \in Stages /\ "leave" \notin OnPath /\ "leave" \notin {"same", "stat"} \cup Filling
      /\ "leave" \notin Sending /\ "leave" \notin Uploading
  BY DEF Stages, OnPath, Filling, Sending, Uploading, Saving, Downloading
<1>4. ASSUME NEW r0, Like(r0, r), NEW r2, r2 = [r0 EXCEPT !.pc = "leave"], NEW T
      PROVE  ActFits(c, r2, sess) /\ ActSaw(r2, remote) /\ ActKeeps(c, r2, T)
  <2>1. r2 \in ActT /\ r2.kind = r.kind /\ r2.s = r.s /\ r2.path = r.path /\ r2.todo = r.todo
        /\ r2.pc = "leave" /\ (r2.stat => r.stat)
    BY <1>3, <1>4 DEF Like, ActT
  <2>2. ActFits(c, r2, sess)
    BY <1>1, <1>3, <2>1 DEF ActFits
  <2> QED BY <1>1, <1>3, <2>1, <2>2 DEF ActSaw, ActKeeps
<1>5. CASE r.clean
  <2>1. PICK r0 : r0 = TouchedActors(Paths, act)[c]
    OBVIOUS
  <2>2. PICK r2 : r2 = [r0 EXCEPT !.pc = "leave"]
    OBVIOUS
  <2>3. /\ temp' = [p \in Paths |-> "none"] /\ sess' = TouchedSessions(Paths, sess)
        /\ act' = [TouchedActors(Paths, act) EXCEPT ![c] = r2]
    BY <1>5, <2>1, <2>2 DEF RemoveTree
  <2>4. Like(r0, r)
    BY <1>1, <2>1, TouchedActor
  <2>5. temp' \in [Paths -> TempKind] /\ Fewer(temp', temp) /\ \A q \in Paths : temp'[q] # "tracked"
    BY <2>3 DEF TempKind, Fewer
  <2>6. ActFits(c, r2, sess) /\ ActSaw(r2, remote) /\ ActKeeps(c, r2, temp')
    BY <1>4, <2>2, <2>4
  <2> QED BY <1>2, <2>3, <2>5, <2>6, TouchStep
<1>6. CASE ~r.clean
  <2>1. PICK r2 : r2 = [r EXCEPT !.pc = "leave"]
    OBVIOUS
  <2>2. act' = [act EXCEPT ![c] = r2] /\ UNCHANGED <<temp, sess>>
    BY <1>6, <2>1 DEF RemoveTree
  <2>3. Like(r, r)
    BY <1>1 DEF Like
  <2>4. ActFits(c, r2, sess) /\ ActSaw(r2, remote) /\ ActKeeps(c, r2, temp)
    BY <1>4, <2>1, <2>3
  <2> QED BY <1>1, <1>2, <2>2, <2>4, SoloStep
<1> QED BY <1>5, <1>6

LEMMA ForgetStep ==
  ASSUME IInv, NEW c \in Calls, Forget(c)
  PROVE  IInv'
<1>1. c \in Actors /\ c \notin Sessions
  BY CallKnown
<1>2. act' = [act EXCEPT ![c] = Off] /\ UNCHANGED <<temp, remote, sess>> /\ connected' \in BOOLEAN
  BY DEF Forget
<1>3. sess' = [sess EXCEPT ![NoSession] = Unborn]
  BY <1>2, Disjoint DEF IInv, Shape
<1>4. ActFits(c, Off, sess) /\ ActSaw(Off, remote) /\ ActKeeps(c, Off, temp)
  BY <1>1, OffFits
<1> QED BY <1>1, <1>2, <1>3, <1>4, Disjoint, OwnStepAny

----------------------------------------------------------------------------
(* The editor, everyone else and a restart keep the invariant *)

\* The temp file at an actor's path is all that its promise is about.
LEMMA KeepsAt ==
  ASSUME NEW a, NEW r, NEW S, NEW T, NEW T2, ActFits(a, r, S), ActKeeps(a, r, T),
         r.path \in Paths => T2[r.path] = T[r.path]
  PROVE  ActKeeps(a, r, T2)
<1>1. r.pc \in {"fill", "restat", "rebase", "sweep"} \cup Uploading => r.path \in Paths
  BY DEF ActFits, OnPath, Saving, Sending, Downloading, Filling, Uploading
<1>2. CASE r.path \in Paths
  BY <1>2 DEF ActKeeps
<1>3. CASE r.path \notin Paths
  <2>1. r.pc \notin {"fill", "restat", "rebase", "sweep", "stat", "record", "publish"} \cup Uploading
    BY <1>1, <1>3 DEF Uploading, Sending
  <2> QED BY <2>1 DEF ActKeeps
<1> QED BY <1>2, <1>3

\* A save of the editor's is tracked only where no command is on the path.
LEMMA EditorSaveStep ==
  ASSUME IInv, NEW p \in Paths, EditorSave(p)
  PROVE  IInv'
<1>1. Shape /\ Seen /\ Kept
  BY DEF IInv
<1>2. /\ temp' = [temp EXCEPT ![p] = IF OpenOn(p) # {} /\ ~Busy(p) THEN "tracked" ELSE "raced"]
      /\ sess' = [s \in Sessions |-> IF sess[s].path = p
                    THEN [TouchedSessions({p}, sess)[s] EXCEPT !.told = FALSE] ELSE sess[s]]
      /\ act' = TouchedActors({p}, act)
      /\ UNCHANGED <<remote, connected>>
  BY DEF EditorSave
<1>3. temp' \in [Paths -> TempKind] /\ (Busy(p) => temp'[p] = "raced")
      /\ \A q \in Paths \ {p} : temp'[q] = temp[q]
  BY <1>1, <1>2 DEF Shape, TempKind
<1>4. \A b \in Actors : /\ Like(act'[b], act[b])
                        /\ act[b].path = p => ~act'[b].mark
                        /\ act[b].path # p => act'[b] = act[b]
  BY <1>1, <1>2, TouchedActor
<1>5. act' \in [Actors -> ActT]
  BY <1>1, <1>2, TouchedTyped
<1>6. \A t \in Sessions :
        /\ sess'[t] \in SessT /\ sess'[t].st = sess[t].st /\ sess'[t].path = sess[t].path
        /\ sess'[t].base => sess[t].base
        /\ sess[t].path # p => sess'[t] = sess[t]
        /\ sess[t].path = p => ~sess'[t].synced /\ (sess[t].st = "open" => sess'[t].event)
  <2> TAKE t \in Sessions
  <2>1. CASE sess[t].path # p
    BY <1>1, <1>2, <2>1 DEF Shape
  <2>2. CASE sess[t].path = p
    <3>1. PICK x0 : x0 = TouchedSessions({p}, sess)[t]
      OBVIOUS
    <3>2. Calm(x0, sess[t]) /\ ~x0.synced /\ (sess[t].st = "open" => x0.event)
      BY <1>1, <2>2, <3>1, TouchedSession
    <3>3. sess'[t] = [x0 EXCEPT !.told = FALSE]
      BY <1>2, <2>2, <3>1
    <3>4. sess'[t] \in SessT /\ sess'[t].st = x0.st /\ sess'[t].path = x0.path
          /\ sess'[t].base = x0.base /\ sess'[t].synced = x0.synced /\ sess'[t].event = x0.event
      BY <3>2, <3>3 DEF Calm, SessT
    <3> QED BY <2>2, <3>2, <3>4 DEF Calm
  <2> QED BY <2>1, <2>2
<1>7. sess' \in [Sessions -> SessT]
  BY <1>2, <1>6
<1>8. Standing(sess', sess)
  BY <1>6 DEF Standing
<1>9. \A b \in Actors : ActFits(b, act'[b], sess')
  <2> TAKE b \in Actors
  <2>1. ActFits(b, act'[b], sess)
    BY <1>1, <1>4, FitsLike DEF Shape
  <2> QED BY <2>1, <1>6, <1>8, FitsStanding
<1>10. \A t \in Sessions : SessFits(sess'[t])
  BY <1>1, <1>6 DEF Shape, SessFits
<1>11. Shape'
  BY <1>1, <1>2, <1>3, <1>5, <1>7, <1>9, <1>10 DEF Shape
<1>12. \A t \in Sessions : SessSaw(sess'[t], remote')
  BY <1>1, <1>2, <1>6 DEF Seen, SessSaw
<1>13. Seener(remote', remote)
  BY <1>2 DEF Seener
<1>14. \A b \in Actors : ActSaw(act'[b], remote')
  BY <1>1, <1>4, <1>13, SawLike DEF Shape, Seen
<1>15. \A b \in Actors : ActKeeps(b, act'[b], temp')
  <2> TAKE b \in Actors
  <2>0. ActFits(b, act[b], sess) /\ ActFits(b, act'[b], sess') /\ ActKeeps(b, act[b], temp)
    BY <1>1, <1>9 DEF Shape, Kept
  <2>1. CASE act[b].path # p
    <3>1. act[b].path \in Paths => temp'[act[b].path] = temp[act[b].path]
      BY <1>3, <2>1
    <3> QED BY <1>4, <2>0, <2>1, <3>1, KeepsAt
  <2>2. CASE act[b].path = p /\ b \in Calls
    <3>1. act'[b].path = p
      BY <1>4, <2>2 DEF Like
    <3>2. temp'[p] = "raced"
      BY <1>3, <2>2 DEF Busy
    <3> QED BY <3>1, <3>2 DEF ActKeeps
  <2>3. CASE act[b].path = p /\ b \in Sessions
    <3>1. LoopFits(b, act'[b], sess'[b]) /\ ~act'[b].mark
      BY <1>4, <2>0, <2>3 DEF ActFits
    <3>2. act'[b].pc \in {"idle", "draining"} \cup Saving
      BY <3>1 DEF LoopFits
    <3>3. act'[b].pc \notin {"fill", "restat", "rebase", "sweep"}
      BY <3>2 DEF Saving, Sending
    <3> QED BY <2>3, <3>1, <3>3 DEF ActKeeps
  <2> QED BY <2>1, <2>2, <2>3 DEF Actors
<1>16. \A t \in Sessions : Attends(sess'[t], act'[t], temp')
  <2> TAKE t \in Sessions
  <2>0. t \in Actors
    BY DEF Actors
  <2>1. LoopFits(t, act'[t], sess'[t]) /\ LoopFits(t, act[t], sess[t]) /\ Attends(sess[t], act[t], temp)
    BY <1>1, <1>9, <2>0 DEF ActFits, Kept, Shape
  <2>2. act'[t].pc \in Uploading => sess'[t].st = "open"
    BY <2>1 DEF LoopFits, Uploading, Sending
  <2>3. CASE sess'[t].st # "open"
    BY <2>2, <2>3 DEF Attends
  <2>4. CASE sess'[t].st = "open" /\ sess[t].path = p
    BY <1>6, <2>4 DEF Attends
  <2>5. CASE sess'[t].st = "open" /\ sess[t].path # p
    <3>1. sess'[t] = sess[t] /\ sess[t].st = "open"
      BY <1>6, <2>5
    <3>2. act'[t] = act[t]
      BY <1>4, <2>0, <2>1, <2>5, <3>1 DEF LoopFits
    <3>3. sess[t].path \in Paths
      BY <1>1, <3>1 DEF Shape, SessFits
    <3>4. temp'[sess[t].path] = temp[sess[t].path]
      BY <1>3, <2>5, <3>3
    <3> QED BY <2>1, <3>1, <3>2, <3>4 DEF Attends
  <2> QED BY <2>3, <2>4, <2>5
<1> QED BY <1>11, <1>12, <1>14, <1>15, <1>16 DEF IInv, Seen, Kept

\* A foreign change that falls into someone's window is not their fault.
LEMMA ForeignChangeStep ==
  ASSUME IInv, NEW p \in Paths, NEW has \in {"whole", "none"}, ForeignChange(p, has)
  PROVE  IInv'
<1> DEFINE change == IF Window(p) /\ remote[p].change # "theirs" THEN "raced" ELSE "theirs"
<1>1. Shape /\ Seen /\ Kept
  BY DEF IInv
<1>2. /\ remote' = [remote EXCEPT ![p] = [has |-> has, change |-> change]]
      /\ sess' = StaleSessions(p, sess) /\ act' = StaleActors(p, act)
      /\ UNCHANGED <<temp, connected>>
  BY DEF ForeignChange
<1>3. change \in {"raced", "theirs"} /\ (Window(p) /\ remote[p].change # "theirs" => change # "theirs")
  OBVIOUS
<1> HIDE DEF change
<1>4. [has |-> has, change |-> change] \in RemoteT
  BY <1>3 DEF RemoteT
<1>5. remote' \in [Paths -> RemoteT] /\ remote'[p].change = change
      /\ \A q \in Paths \ {p} : remote'[q] = remote[q]
  BY <1>1, <1>2, <1>4 DEF Shape
<1>6. sess' \in [Sessions -> SessT] /\ act' \in [Actors -> ActT]
  BY <1>1, <1>2, StaleTyped
<1>7. \A t \in Sessions : /\ Calm(sess'[t], sess[t]) /\ sess'[t].event = sess[t].event
                          /\ sess[t].path = p => ~sess'[t].base
  BY <1>1, <1>2, StaleSession
<1>8. \A b \in Actors : /\ Like(act'[b], act[b]) /\ act'[b].mark = act[b].mark
                        /\ act[b].path = p => ~act'[b].stat
                        /\ act[b].path # p => act'[b] = act[b]
  BY <1>1, <1>2, StaleActor
<1>9. Standing(sess', sess) /\ \A t \in Sessions : sess'[t].st = sess[t].st
  BY <1>7 DEF Standing, Calm
<1>10. \A b \in Actors : ActFits(b, act'[b], sess')
  <2> TAKE b \in Actors
  <2>1. ActFits(b, act'[b], sess)
    BY <1>1, <1>8, FitsLike DEF Shape
  <2> QED BY <2>1, <1>9, FitsStanding
<1>11. \A t \in Sessions : SessFits(sess'[t])
  BY <1>1, <1>7, SessFitsCalm DEF Shape
<1>12. Shape'
  BY <1>1, <1>2, <1>5, <1>6, <1>10, <1>11 DEF Shape
<1>13. \A t \in Sessions : SessSaw(sess'[t], remote')
  <2> TAKE t \in Sessions
  <2>1. SessFits(sess[t]) /\ SessSaw(sess[t], remote)
    BY <1>1 DEF Shape, Seen
  <2> QED BY <1>5, <1>7, <2>1 DEF SessFits, SessSaw, Calm
<1>14. \A b \in Actors : ActSaw(act'[b], remote')
  <2> TAKE b \in Actors
  <2>0. ActFits(b, act[b], sess) /\ ActSaw(act[b], remote)
    BY <1>1 DEF Shape, Seen
  <2>1. act[b].pc \in {"same", "stat"} \cup Filling \cup Sending => act[b].path \in Paths
    BY <2>0 DEF ActFits, OnPath, Saving, Sending, Downloading
  <2>2. CASE act[b].path = p
    <3>1. /\ act'[b].path = p /\ act'[b].pc = act[b].pc /\ act'[b].kind = act[b].kind
          /\ ~act'[b].stat
      BY <1>8, <2>2 DEF Like
    <3>2. act[b].pc \in {"same"} \cup Sending \cup Filling => Window(p)
      BY <2>2 DEF Window
    <3>3. act[b].pc \in {"same", "stat"} \cup Filling => remote[p].change # "theirs" /\ Window(p)
      BY <2>0, <2>2, <3>2 DEF ActSaw, Sending
    <3>4. act[b].pc \in Sending /\ act[b].kind # "force" => remote[p].change # "theirs" /\ Window(p)
      BY <2>0, <2>2, <3>2 DEF ActSaw
    <3> QED BY <1>3, <1>5, <3>1, <3>3, <3>4 DEF ActSaw
  <2>3. CASE act[b].path # p
    <3>1. act[b].path \in Paths => remote'[act[b].path] = remote[act[b].path]
      BY <1>5, <2>3
    <3>2. act'[b] = act[b]
      BY <1>8, <2>3
    <3> QED BY <2>0, <2>1, <3>1, <3>2 DEF ActSaw
  <2> QED BY <2>2, <2>3
<1>15. Fewer(temp', temp)
  BY <1>2 DEF Fewer
<1>16. \A b \in Actors : ActKeeps(b, act'[b], temp')
  BY <1>1, <1>8, <1>15, KeepsLike DEF Shape, Kept
<1>17. \A t \in Sessions : Attends(sess'[t], act'[t], temp')
  <2> TAKE t \in Sessions
  <2>1. t \in Actors /\ LoopFits(t, act[t], sess[t]) /\ SessFits(sess[t]) /\ Attends(sess[t], act[t], temp)
    BY <1>1 DEF Shape, ActFits, Kept, Actors
  <2> QED BY <2>1, <1>7, <1>8, <1>15, AttendsCalm
<1> QED BY <1>12, <1>13, <1>14, <1>16, <1>17 DEF IInv, Seen, Kept

LEMMA UnbornFits ==
  ASSUME NEW r, NEW R, NEW T, r = Off
  PROVE  SessFits(Unborn) /\ SessSaw(Unborn, R) /\ Attends(Unborn, r, T) /\ Unborn.st = "unborn"
<1>1. Unborn \in SessT /\ Unborn.st = "unborn" /\ ~Unborn.base
  BY DEF Unborn, SessT
<1> QED BY <1>1, OffFacts DEF SessFits, SessSaw, Attends, Uploading, Sending

LEMMA FreshStart ==
  ASSUME temp' \in [Paths -> TempKind], remote' \in [Paths -> RemoteT], connected' \in BOOLEAN,
         sess' = [s \in Sessions |-> Unborn], act' = [a \in Actors |-> Off]
  PROVE  IInv'
<1>1. \A s \in Sessions : sess'[s] = Unborn /\ s \in Actors
  BY DEF Actors
<1>2. \A a \in Actors : act'[a] = Off
  OBVIOUS
<1>3. sess' \in [Sessions -> SessT] /\ act' \in [Actors -> ActT]
  BY OffFacts, UnbornFits DEF SessFits
<1>4. \A a \in Actors : ActFits(a, act'[a], sess') /\ ActSaw(act'[a], remote') /\ ActKeeps(a, act'[a], temp')
  BY <1>1, <1>2, OffFits, UnbornFits
<1>5. \A s \in Sessions : /\ SessFits(sess'[s]) /\ SessSaw(sess'[s], remote')
                          /\ Attends(sess'[s], act'[s], temp')
  BY <1>1, <1>2, UnbornFits
<1> QED BY <1>3, <1>4, <1>5 DEF IInv, Shape, Seen, Kept

LEMMA RestartStep ==
  ASSUME IInv, Restart
  PROVE  IInv'
<1>1. temp' \in [Paths -> TempKind] /\ connected' \in BOOLEAN
  BY DEF Restart, TempKind
<1>2. remote' \in [Paths -> RemoteT]
  BY DEF Restart, IInv, Shape
<1> QED BY <1>1, <1>2, FreshStart DEF Restart

LEMMA InitInv == Init => IInv
<1> SUFFICES ASSUME Init PROVE IInv
  OBVIOUS
<1>1. temp \in [Paths -> TempKind] /\ connected \in BOOLEAN
  BY DEF Init, TempKind
<1>2. [has |-> "whole", change |-> "known"] \in RemoteT
  BY DEF RemoteT
<1>3. remote \in [Paths -> RemoteT]
  BY <1>2 DEF Init
<1>4. \A s \in Sessions : sess[s] = Unborn /\ s \in Actors
  BY DEF Init, Actors
<1>5. \A a \in Actors : act[a] = Off
  BY DEF Init
<1>6. sess \in [Sessions -> SessT] /\ act \in [Actors -> ActT]
  BY OffFacts, UnbornFits DEF Init, SessFits
<1>7. \A a \in Actors : ActFits(a, act[a], sess) /\ ActSaw(act[a], remote) /\ ActKeeps(a, act[a], temp)
  BY <1>4, <1>5, OffFits, UnbornFits
<1>8. \A s \in Sessions : SessFits(sess[s]) /\ SessSaw(sess[s], remote) /\ Attends(sess[s], act[s], temp)
  BY <1>4, <1>5, UnbornFits
<1> QED BY <1>1, <1>3, <1>6, <1>7, <1>8 DEF IInv, Shape, Seen, Kept

----------------------------------------------------------------------------
(* Every step keeps the invariant, and what follows from it *)

LEMMA SaveStepInv ==
  ASSUME IInv, NEW a \in Actors, SaveStep(a)
  PROVE  IInv'
BY AskStep, GoAheadStep, FlagStep, FailsStep, WriteStep, SendStep, PublishStep, StatStep,
   RecordStep DEF SaveStep

LEMMA CallStepInv ==
  ASSUME IInv, NEW c \in Calls, CallStep(c)
  PROVE  IInv'
<1>1. CASE Create(c)
  <2>1. act[c].pc \in Filling
    BY <1>1 DEF Create, Filling
  <2> QED BY <1>1, <2>1, TempBecomesStep DEF Create
<1>2. CASE Fill(c)
  <2>1. act[c].pc \in Filling
    BY <1>2 DEF Fill, Filling
  <2> QED BY <1>2, <2>1, TempBecomesStep DEF Fill
<1>3. CASE \/ Read(c) \/ Restat(c) \/ DownloadFails(c) \/ Register(c)
           \/ CopyAside(c) \/ CopyFails(c) \/ Rebase(c)
  BY <1>3, ReadStep, RestatStep, DownloadFailsStep, RegisterStep, CopyAsideStep, CopyFailsStep,
     RebaseStep
<1>4. CASE Sweep(c) \/ RemoveTree(c) \/ Forget(c)
  BY <1>4, SweepStep, RemoveTreeStep, ForgetStep
<1>5. CASE \E s \in Sessions : CloseNext(c, s) \/ FlushNext(c, s)
  BY <1>5, CloseNextStep, FlushNextStep
<1> QED BY <1>1, <1>2, <1>3, <1>4, <1>5 DEF CallStep

LEMMA StepInv == IInv /\ [Next]_vars => IInv'
<1> SUFFICES ASSUME IInv, [Next]_vars PROVE IInv'
  OBVIOUS
<1>1. CASE \E s \in Sessions : Receive(s) \/ Quiet(s)
  BY <1>1, ReceiveStep, QuietStep
<1>2. CASE \E a \in Actors : SaveStep(a)
  BY <1>2, SaveStepInv
<1>3. CASE \E c \in Calls : CallStep(c) \/ Disconnect(c) \/ Exit(c)
  BY <1>3, CallStepInv, LeaveStep DEF Disconnect, Exit
<1>4. CASE \E c \in Calls, p \in Paths : Open(c, p)
  BY <1>4, OpenStep
<1>5. CASE \E c \in Calls, s \in Sessions : Overwrite(c, s) \/ Discard(c, s) \/ SaveAsCopy(c, s)
  BY <1>5, ResolutionStep
<1>6. CASE \E c \in Calls, s \in Sessions, keep \in BOOLEAN : Close(c, s, keep)
  BY <1>6, CloseStep
<1>7. CASE \E p \in Paths : EditorSave(p) \/ ForeignChange(p, "whole") \/ ForeignChange(p, "none")
  BY <1>7, EditorSaveStep, ForeignChangeStep
<1>8. CASE Restart
  BY <1>8, RestartStep
<1>9. CASE UNCHANGED vars
  BY <1>9 DEF vars, IInv, Shape, Seen, Kept
<1> QED BY <1>1, <1>2, <1>3, <1>4, <1>5, <1>6, <1>7, <1>8, <1>9 DEF Next

\* Every state of every run satisfies the invariant.
THEOREM Inductive == SafetySpec => []IInv
BY InitInv, StepInv, PTL DEF SafetySpec

\* Whatever the interleaving of loops, commands, saves and changes, every record
\* keeps its type, and a debounce loop runs exactly while its session is in the map.
THEOREM SessionsTyped == SafetySpec => []TypeOK
<1>1. IInv => TypeOK
  <2> SUFFICES ASSUME IInv PROVE TypeOK
    OBVIOUS
  <2>1. OneLoopPerSession
    BY DEF IInv, Shape, ActFits, LoopFits, OneLoopPerSession, Actors
  <2> QED BY <2>1 DEF IInv, Shape, TypeOK, SessT, ActT, RemoteT, Stages
<1> QED BY <1>1, Inductive, PTL

\* attempt_save never overwrites a change it has not looked at, however many
\* sessions and commands are on the file.
THEOREM NeverBlind == SafetySpec => []NoBlindOverwrite
<1>1. IInv => NoBlindOverwrite
  BY DEF IInv, Seen, ActSaw, NoBlindOverwrite
<1> QED BY <1>1, Inductive, PTL

\* No interleaving of the editor's saves with uploads, conflicts and other
\* sessions makes the debounce loop forget a save.
THEOREM SavesAttended == SafetySpec => []TrackedEditIsAttended
<1>1. IInv => TrackedEditIsAttended
  BY DEF IInv, Kept, Attends, TrackedEditIsAttended, OpenSessions
<1> QED BY <1>1, Inductive, PTL

\* close and disconnect, one session at a time, delete no save that is not on the
\* remote yet.
THEOREM CloseSpares == SafetySpec => CloseSparesEdits
<1> DEFINE Spares == \A c \in Calls, p \in Paths :
             Sweep(c) /\ temp[p] = "tracked" => temp'[p] = "tracked"
<1>1. IInv => Spares
  <2> SUFFICES ASSUME IInv, NEW c \in Calls, NEW p \in Paths, Sweep(c), temp[p] = "tracked"
               PROVE  temp'[p] = "tracked"
    OBVIOUS
  <2>1. ActKeeps(c, act[c], temp) /\ temp \in [Paths -> TempKind]
    BY CallKnown DEF IInv, Shape
  <2>2. CASE act[c].clean /\ ~act[c].keep /\ temp[act[c].path] # "none"
    <3>1. temp' = [temp EXCEPT ![act[c].path] = "none"]
      BY <2>2 DEF Sweep
    <3>2. act[c].path # p
      BY <2>1, <2>2 DEF ActKeeps, Sweep
    <3> QED BY <2>1, <3>1, <3>2
  <2>3. CASE ~(act[c].clean /\ ~act[c].keep /\ temp[act[c].path] # "none")
    BY <2>3 DEF Sweep
  <2> QED BY <2>2, <2>3
<1>2. IInv /\ [Next]_vars => [Spares]_vars
  BY <1>1
<1> QED BY <1>2, Inductive, PTL DEF SafetySpec, CloseSparesEdits

============================================================================
