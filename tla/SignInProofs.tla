----------------------------- MODULE SignInProofs -----------------------------
(***************************************************************************)
(* Theorems about SignIn, for every number of sign-ins and callers, every    *)
(* capacity of the router and every bound.                                  *)
(***************************************************************************)
EXTENDS SignIn, SequenceTheorems, TLAPS

USE SizeAssumption

----------------------------------------------------------------------------
(* Type correctness, a group of variables at a time *)

LinkType == [kind : {"code", "error", "junk"}, of : Sessions \cup {NoSession}]
LinksOK == sent \in Seq(LinkType) /\ pages \subseteq Sessions

TokensOK ==
  /\ key \in [token : 0..issued, by : 0..asked]
  /\ writes \subseteq [token : 1..issued, by : 1..asked]
  /\ issued \in 0..MaxTokens /\ deletes \in 0..MaxDeletes /\ asked \in Nat
  /\ latest \in 0..issued /\ mislaid \in BOOLEAN

SessionPC == {"idle", "subscribed", "waiting", "redeem", "store", "open", "failed"}
SessionType(links, tokens) ==
  [pc : SessionPC, from : 0..links, read : 0..links, got : Sessions \cup {NoSession},
   timedOut : BOOLEAN, token : 0..tokens, fresh : BOOLEAN]
SessionsOK == session \in [Sessions -> SessionType(Len(sent), issued)]

CallType(tokens) ==
  [pc : {"idle", "lock", "refresh", "granted"}, of : Sessions \cup {NoSession},
   token : 0..tokens]
CallsOK == call \in [Callers -> CallType(issued)]

\* A caller under way asks a session that is open, and from the server on a
\* session has a token.
Attached ==
  /\ \A c \in Callers : call[c].pc # "idle" =>
       call[c].of \in Sessions /\ session[call[c].of].pc = "open"
  /\ \A s \in Sessions : session[s].pc \in {"store", "open"} => session[s].token # 0

Typed == LinksOK /\ TokensOK /\ SessionsOK /\ CallsOK /\ Attached

LEMMA TypedInit == Init => Typed
<1> SUFFICES ASSUME Init PROVE Typed
  OBVIOUS
<1>1. sent \in Seq(LinkType) /\ Len(sent) = 0
  BY EmptySeq DEF Init
<1>2. LinksOK
  BY <1>1 DEF Init, LinksOK
<1>3. TokensOK
  <2>1. issued \in 0..MaxTokens /\ deletes \in 0..MaxDeletes /\ asked \in Nat
    BY DEF Init
  <2>2. key \in [token : 0..issued, by : 0..asked] /\ latest \in 0..issued
    BY DEF Init
  <2>3. writes = {} /\ mislaid \in BOOLEAN
    BY DEF Init
  <2>. QED  BY <2>1, <2>2, <2>3 DEF TokensOK
<1>4. Unopened \in SessionType(0, issued) /\ Quiet \in CallType(issued)
  BY <1>3 DEF TokensOK, Unopened, Quiet, SessionType, SessionPC, CallType
<1>5. SessionsOK /\ CallsOK
  BY <1>1, <1>4 DEF Init, SessionsOK, CallsOK
<1>6. Attached
  BY DEF Init, Attached, Unopened, Quiet
<1>. QED  BY <1>2, <1>3, <1>5, <1>6 DEF Typed

\* A link that is appended leaves those before it where they are.
LinksGrow ==
  /\ Len(sent) \in Nat /\ Len(sent') \in Nat /\ Len(sent) <= Len(sent')
  /\ \A i \in 1 .. Len(sent) : sent'[i] = sent[i]

LEMMA LinksAppended ==
  ASSUME LinksOK, NEW e \in LinkType, sent' = Append(sent, e)
  PROVE  sent' \in Seq(LinkType) /\ LinksGrow
  BY AppendProperties, LenProperties DEF LinksOK, LinksGrow

LEMMA LinksStep == LinksOK /\ [Next]_vars => LinksOK' /\ LinksGrow
<1> SUFFICES ASSUME LinksOK, [Next]_vars PROVE LinksOK' /\ LinksGrow
  OBVIOUS
<1>1. ASSUME NEW s \in Sessions, Answer(s) PROVE LinksOK' /\ LinksGrow
  <2>1. PICK e \in LinkType : sent' = Append(sent, e)
    BY <1>1 DEF Answer, LinkType
  <2>2. pages' \subseteq Sessions
    BY <1>1 DEF Answer, LinksOK
  <2>. QED  BY <2>1, <2>2, LinksAppended DEF LinksOK
<1>2. CASE Junk
  <2>1. PICK e \in LinkType : sent' = Append(sent, e)
    BY <1>2 DEF Junk, LinkType
  <2>2. pages' \subseteq Sessions
    BY <1>2 DEF Junk, LinksOK
  <2>. QED  BY <2>1, <2>2, LinksAppended DEF LinksOK
<1>3. CASE UNCHANGED sent /\ pages' \subseteq Sessions
  BY <1>3, LenProperties DEF LinksOK, LinksGrow
<1>4. ASSUME NEW s \in Sessions, Login(s) \/ Connect(s) \/ Expire(s)
      PROVE UNCHANGED sent /\ pages' \subseteq Sessions
  BY <1>4 DEF LinksOK, Login, Subscribe, OpenBrowser, Receive, Timeout, Redeem, Store, Connect,
     Expire
<1>5. ASSUME NEW c \in Callers, AccessToken(c) PROVE UNCHANGED sent /\ pages' \subseteq Sessions
  BY <1>5 DEF LinksOK, AccessToken, Ask, Lock, Grant, Refuse, Take
<1>6. CASE Land \/ Delete \/ Crash \/ UNCHANGED vars
  BY <1>3, <1>6 DEF LinksOK, Land, Delete, Crash, vars
<1>. QED  BY <1>1, <1>2, <1>3, <1>4, <1>5, <1>6 DEF Next

\* Numbers of tokens and of requests are given once.
NumbersGrow == issued \in Nat /\ issued' \in Nat /\ issued <= issued' /\ asked <= asked'

LEMMA TokensStep ==
  ASSUME TokensOK, SessionsOK, CallsOK, Attached, [Next]_vars
  PROVE  TokensOK' /\ NumbersGrow
<1>1. \A s \in Sessions : session[s].token \in 0 .. issued
  BY DEF SessionsOK, SessionType
<1>2. \A c \in Callers : call[c].token \in 0 .. issued
  BY DEF CallsOK, CallType
<1>3. ASSUME UNCHANGED <<key, writes, issued, asked, deletes, latest, mislaid>>
      PROVE TokensOK' /\ NumbersGrow
  BY <1>3 DEF TokensOK, NumbersGrow
<1>4. ASSUME NEW s \in Sessions, Login(s) \/ Connect(s) \/ Answer(s) \/ Expire(s)
      PROVE TokensOK' /\ NumbersGrow
  <2>1. CASE Redeem(s)
    BY <2>1 DEF Redeem, TokensOK, NumbersGrow
  <2>2. CASE Store(s)
    BY <2>2, <1>1 DEF Store, TokensOK, NumbersGrow
  <2>3. CASE ~Redeem(s) /\ ~Store(s)
    BY <1>3, <1>4, <2>3 DEF Login, Subscribe, OpenBrowser, Receive, Timeout, Connect, Answer,
       Expire, tokenVars
  <2>. QED  BY <2>1, <2>2, <2>3
<1>5. ASSUME NEW c \in Callers, AccessToken(c) PROVE TokensOK' /\ NumbersGrow
  <2>1. CASE Grant(c)
    BY <2>1 DEF Grant, TokensOK, NumbersGrow
  <2>2. CASE Take(c)
    BY <2>2, <1>2 DEF Take, TokensOK, NumbersGrow
  <2>3. CASE ~Grant(c) /\ ~Take(c)
    BY <1>3, <1>5, <2>3 DEF AccessToken, Ask, Lock, Refuse
  <2>. QED  BY <2>1, <2>2, <2>3
<1>6. CASE Junk \/ UNCHANGED vars
  BY <1>3, <1>6 DEF Junk, vars, tokenVars
<1>7. CASE Land
  <2>1. mislaid' \in BOOLEAN
    BY <1>7 DEF Land
  <2>2. key' \in {key} \cup writes /\ writes' \subseteq writes
        /\ UNCHANGED <<issued, asked, deletes, latest>>
    BY <1>7 DEF Land
  <2>. QED  BY <2>1, <2>2 DEF TokensOK, NumbersGrow
<1>8. CASE Delete
  BY <1>8 DEF Delete, TokensOK, NumbersGrow
<1>9. CASE Crash
  BY <1>9 DEF Crash, TokensOK, NumbersGrow
<1>. QED  BY <1>4, <1>5, <1>6, <1>7, <1>8, <1>9 DEF Next

----------------------------------------------------------------------------
LEMMA SessionGrows ==
  ASSUME NEW m \in Nat, NEW n \in Nat, m <= n, NEW t \in Nat, NEW u \in Nat, t <= u,
         NEW f \in [Sessions -> SessionType(m, t)]
  PROVE  f \in [Sessions -> SessionType(n, u)]
  BY DEF SessionType

LEMMA UnopenedType ==
  ASSUME NEW n \in Nat, NEW t \in Nat
  PROVE  Unopened \in SessionType(n, t)
  BY DEF Unopened, SessionType, SessionPC

LEMMA SubscribeType ==
  ASSUME NEW n \in Nat, NEW t \in Nat, NEW f \in [Sessions -> SessionType(n, t)],
         NEW s \in Sessions, NEW pc \in SessionPC, NEW k \in 0 .. n
  PROVE  [f EXCEPT ![s].pc = pc, ![s].from = k, ![s].read = k] \in [Sessions -> SessionType(n, t)]
  BY DEF SessionType

LEMMA CacheUpdates ==
  ASSUME NEW n \in Nat, NEW t \in Nat, NEW f \in [Sessions -> SessionType(n, t)],
         NEW s \in Sessions, NEW b \in BOOLEAN
  PROVE  /\ [f EXCEPT ![s].fresh = b] \in [Sessions -> SessionType(n, t)]
         /\ \A u \in 0 .. t : [f EXCEPT ![s].fresh = b, ![s].token = u]
              \in [Sessions -> SessionType(n, t)]
  BY DEF SessionType

\* What a session has once its code is redeemed, and a caller while it waits.
LEMMA Redeemed ==
  ASSUME NEW s, NEW k, NEW r, r = [Unopened EXCEPT !.pc = "store", !.got = s, !.token = k]
  PROVE  r = [pc |-> "store", from |-> 0, read |-> 0, got |-> s, timedOut |-> FALSE,
              token |-> k, fresh |-> FALSE]
  BY DEF Unopened

LEMMA Failed ==
  ASSUME NEW r, r = [Unopened EXCEPT !.pc = "failed"]
  PROVE  r = [pc |-> "failed", from |-> 0, read |-> 0, got |-> NoSession, timedOut |-> FALSE,
              token |-> 0, fresh |-> FALSE]
  BY DEF Unopened

LEMMA Queued ==
  ASSUME NEW s, NEW r, r = [Quiet EXCEPT !.pc = "lock", !.of = s]
  PROVE  r = [pc |-> "lock", of |-> s, token |-> 0]
  BY DEF Quiet

LEMMA CallGrows ==
  ASSUME NEW t \in Nat, NEW u \in Nat, t <= u, NEW f \in [Callers -> CallType(t)]
  PROVE  f \in [Callers -> CallType(u)]
  BY DEF CallType

LEMMA SessionsStep ==
  ASSUME LinksOK, TokensOK, SessionsOK, CallsOK, Attached, [Next]_vars
  PROVE  SessionsOK'
<1> DEFINE n == Len(sent)
           Ok == session' \in [Sessions -> SessionType(n, issued)]
<1>l. n \in Nat /\ Len(sent') \in Nat /\ n <= Len(sent')
  BY LinksStep DEF LinksGrow
<1>t. issued \in Nat /\ issued' \in Nat /\ issued <= issued'
  BY TokensStep DEF NumbersGrow
<1>f. session \in [Sessions -> SessionType(n, issued)]
  BY DEF SessionsOK
<1>k. key.token \in 0 .. issued
  BY DEF TokensOK
<1>0. ASSUME session' \in [Sessions -> SessionType(Len(sent'), issued')] PROVE SessionsOK'
  BY <1>0 DEF SessionsOK
<1>1. ASSUME Ok PROVE SessionsOK'
  BY <1>0, <1>1, <1>l, <1>t, SessionGrows
<1>u. ASSUME NEW s \in Sessions
      PROVE  /\ session[s].pc \in SessionPC /\ session[s].got \in Sessions \cup {NoSession}
             /\ session[s].read \in 0 .. n /\ session[s].token \in 0 .. issued
  BY <1>f DEF SessionType
<1>v. ASSUME NEW pc \in SessionPC PROVE [Unopened EXCEPT !.pc = pc] \in SessionType(n, issued)
  <2>. DEFINE r == Unopened
  <2>1. r \in SessionType(n, issued)
    BY <1>l, <1>t, UnopenedType
  <2>. HIDE DEF r
  <2>2. [r EXCEPT !.pc = pc] \in SessionType(n, issued)
    BY <2>1 DEF SessionType
  <2>. QED  BY <2>2 DEF r
<1>p. SessionPC = {"idle", "subscribed", "waiting", "redeem", "store", "open", "failed"}
  BY DEF SessionPC
<1> HIDE DEF n
<1>2. ASSUME NEW s \in Sessions, NEW pc \in SessionPC, Sets(s, pc) PROVE Ok
  BY <1>2, <1>f, <1>l, <1>t DEF Sets, SessionType
<1>3. ASSUME NEW s \in Sessions, Fails(s) PROVE Ok
  BY <1>3, <1>f, <1>v, <1>p DEF Fails
<1>4. ASSUME NEW s \in Sessions, Subscribe(s) PROVE Ok
  <2>1. n \in 0 .. n
    BY <1>l
  <2>2. PICK k \in 0 .. n, pc \in SessionPC :
          session' = [session EXCEPT ![s].pc = pc, ![s].from = k, ![s].read = k]
    BY <2>1, <1>4, <1>p DEF Subscribe, n
  <2>. QED  BY <2>2, <1>f, <1>l, <1>t, SubscribeType
<1>5. ASSUME NEW s \in Sessions, OpenBrowser(s) PROVE Ok
  BY <1>5, <1>2, <1>3, <1>p DEF OpenBrowser
<1>6. ASSUME NEW s \in Sessions, Receive(s) PROVE Ok
  <2>1. session[s].read + 1 \in 0 .. n
    BY <1>6, <1>u, <1>l DEF Receive, Unread, n
  <2>2. CASE Fails(s)
    BY <1>3, <2>2
  <2>3. CASE ~Fails(s)
    <3>1. PICK pc \in SessionPC, got \in Sessions \cup {NoSession} :
            session' = [session EXCEPT ![s].read = session[s].read + 1, ![s].pc = pc, ![s].got = got]
      BY <1>6, <2>3, <1>u, <1>p DEF Receive
    <3>. QED  BY <2>1, <3>1, <1>f, <1>l, <1>t DEF SessionType
  <2>. QED  BY <2>2, <2>3
<1>7. ASSUME NEW s \in Sessions, Timeout(s) PROVE Ok
  <2>1. session' = [session EXCEPT ![s].pc = "failed", ![s].timedOut = TRUE]
    BY <1>7 DEF Timeout
  <2>. QED  BY <2>1, <1>f, <1>l, <1>t DEF SessionType, SessionPC
<1>8. ASSUME NEW s \in Sessions, Redeem(s) PROVE SessionsOK'
  <2>1. CASE Fails(s)
    BY <1>1, <1>3, <2>1
  <2>2. CASE ~Fails(s)
    <3>1. issued' = issued + 1
          /\ session' = [session EXCEPT ![s] = [Unopened EXCEPT !.pc = "store", !.got = s,
                                                                !.token = issued + 1]]
      BY <1>8, <2>2 DEF Redeem
    <3>2. PICK r : r = [Unopened EXCEPT !.pc = "store", !.got = s, !.token = issued + 1]
      OBVIOUS
    <3>3. r = [pc |-> "store", from |-> 0, read |-> 0, got |-> s, timedOut |-> FALSE,
               token |-> issued + 1, fresh |-> FALSE]
      BY <3>2, Redeemed
    <3>6. r \in SessionType(Len(sent'), issued')
      BY <1>l, <1>t, <3>1, <3>3 DEF SessionType, SessionPC
    <3>4. session \in [Sessions -> SessionType(Len(sent'), issued')]
      BY <1>l, <1>t, <1>f, SessionGrows DEF n
    <3>5. session' \in [Sessions -> SessionType(Len(sent'), issued')]
      BY <3>1, <3>2, <3>4, <3>6
    <3>. QED  BY <1>0, <3>5
  <2>. QED  BY <2>1, <2>2
<1>9. ASSUME NEW s \in Sessions, Store(s) PROVE Ok
  BY <1>9, <1>2, <1>3, <1>p DEF Store
<1>10. ASSUME NEW s \in Sessions, Connect(s) PROVE Ok
  <2>1. CASE Fails(s)
    BY <1>3, <2>1
  <2>2. CASE ~Fails(s)
    <3>1. session' = [session EXCEPT ![s].pc = "open", ![s].token = key.token]
      BY <1>10, <2>2 DEF Connect
    <3>. QED  BY <3>1, <1>f, <1>k, <1>l, <1>t DEF SessionType, SessionPC
  <2>. QED  BY <2>1, <2>2
<1>11. ASSUME NEW s \in Sessions, Expire(s) PROVE Ok
  BY <1>11, <1>f, <1>l, <1>t, CacheUpdates DEF Expire
<1>12. ASSUME NEW c \in Callers, Take(c) PROVE Ok
  <2>1. call[c].of \in Sessions /\ call[c].token \in 0 .. issued
    BY <1>12 DEF Take, Attached, CallsOK, CallType
  <2>2. PICK u \in 0 .. issued :
          session' = [session EXCEPT ![call[c].of].fresh = TRUE, ![call[c].of].token = u]
    BY <1>12, <2>1, <1>u DEF Take, Cached
  <2>. QED  BY <2>1, <2>2, <1>f, <1>l, <1>t, CacheUpdates
<1>13. ASSUME Crash PROVE Ok
  BY <1>13, <1>f, <1>v, <1>p DEF Crash
<1>14. ASSUME UNCHANGED session PROVE Ok
  BY <1>14, <1>f
<1>15. ASSUME NEW s \in Sessions, Answer(s) PROVE UNCHANGED session
  BY <1>15 DEF Answer
<1>16. ASSUME NEW c \in Callers, AccessToken(c), ~Take(c) PROVE UNCHANGED session
  BY <1>16 DEF AccessToken, Ask, Lock, Grant, Refuse
<1>17. ASSUME Junk \/ Land \/ Delete \/ UNCHANGED vars PROVE UNCHANGED session
  BY <1>17 DEF Junk, Land, Delete, vars
<1>. HIDE DEF Ok
<1>. QED  BY <1>1, <1>4, <1>5, <1>6, <1>7, <1>8, <1>9, <1>10, <1>11, <1>12, <1>13, <1>14, <1>15,
             <1>16, <1>17 DEF Next, Login, AccessToken

LEMMA CallUpdates ==
  ASSUME NEW t \in Nat, NEW f \in [Callers -> CallType(t)], NEW c \in Callers
  PROVE  /\ [f EXCEPT ![c] = Quiet] \in [Callers -> CallType(t)]
         /\ \A s \in Sessions :
              [f EXCEPT ![c] = [Quiet EXCEPT !.pc = "lock", !.of = s]] \in [Callers -> CallType(t)]
         /\ [f EXCEPT ![c].pc = "refresh"] \in [Callers -> CallType(t)]
         /\ \A u \in 0 .. t :
              [f EXCEPT ![c].pc = "granted", ![c].token = u] \in [Callers -> CallType(t)]
<1>1. Quiet \in CallType(t)
  BY DEF Quiet, CallType
<1>2. ASSUME NEW s \in Sessions
      PROVE [f EXCEPT ![c] = [Quiet EXCEPT !.pc = "lock", !.of = s]] \in [Callers -> CallType(t)]
  <2>1. PICK r : r = [Quiet EXCEPT !.pc = "lock", !.of = s]
    OBVIOUS
  <2>2. r = [pc |-> "lock", of |-> s, token |-> 0]
    BY <2>1, Queued
  <2>3. r \in CallType(t)
    BY <2>2 DEF CallType
  <2>. QED  BY <2>1, <2>3
<1>3. [f EXCEPT ![c].pc = "refresh"] \in [Callers -> CallType(t)]
  BY DEF CallType
<1>4. \A u \in 0 .. t :
        [f EXCEPT ![c].pc = "granted", ![c].token = u] \in [Callers -> CallType(t)]
  BY DEF CallType
<1>. QED  BY <1>1, <1>2, <1>3, <1>4

LEMMA CallsStep ==
  ASSUME TokensOK, SessionsOK, CallsOK, Attached, [Next]_vars
  PROVE  CallsOK'
<1>t. issued \in Nat /\ issued' \in Nat /\ issued <= issued'
  BY TokensStep DEF NumbersGrow
<1>f. call \in [Callers -> CallType(issued')]
  BY <1>t, CallGrows DEF CallsOK
<1> DEFINE Ok == call' \in [Callers -> CallType(issued')]
<1>1. ASSUME NEW c \in Callers, Ask(c) PROVE Ok
  <2>1. PICK s \in Sessions : call' = [call EXCEPT ![c] = [Quiet EXCEPT !.pc = "lock", !.of = s]]
    BY <1>1 DEF Ask
  <2>. QED  BY <2>1, <1>f, <1>t, CallUpdates
<1>2. ASSUME NEW c \in Callers, Lock(c) PROVE Ok
  <2>1. call' = [call EXCEPT ![c] = Quiet] \/ call' = [call EXCEPT ![c].pc = "refresh"]
    BY <1>2 DEF Lock
  <2>2. CASE call' = [call EXCEPT ![c] = Quiet]
    BY <2>2, <1>f, <1>t, CallUpdates
  <2>3. CASE call' = [call EXCEPT ![c].pc = "refresh"]
    BY <2>3, <1>f, <1>t, CallUpdates
  <2>. QED  BY <2>1, <2>2, <2>3
<1>3. ASSUME NEW c \in Callers, Grant(c) PROVE Ok
  <2>1. PICK u : /\ u \in IF issued < MaxTokens THEN {0, issued + 1} ELSE {0}
                /\ call' = [call EXCEPT ![c].pc = "granted", ![c].token = u]
                /\ issued' = IF u = 0 THEN issued ELSE u
    BY <1>3 DEF Grant
  <2>2. u \in 0 .. issued'
    BY <2>1, <1>t
  <2>. QED  BY <2>1, <2>2, <1>f, <1>t, CallUpdates
<1>4. ASSUME NEW c \in Callers, Refuse(c) \/ Take(c) PROVE Ok
  <2>1. call' = [call EXCEPT ![c] = Quiet]
    BY <1>4 DEF Refuse, Take
  <2>. QED  BY <2>1, <1>f, <1>t, CallUpdates
<1>5. ASSUME Crash PROVE Ok
  BY <1>5, <1>t DEF Crash, Quiet, CallType
<1>6. ASSUME UNCHANGED call PROVE Ok
  BY <1>6, <1>f
<1>7. ASSUME NEW s \in Sessions, Login(s) \/ Connect(s) \/ Answer(s) \/ Expire(s)
      PROVE UNCHANGED call
  BY <1>7 DEF Login, Subscribe, OpenBrowser, Receive, Timeout, Redeem, Store, Connect, Answer,
     Expire, tokenVars
<1>8. ASSUME Junk \/ Land \/ Delete \/ UNCHANGED vars PROVE UNCHANGED call
  BY <1>8 DEF Junk, Land, Delete, vars, tokenVars
<1>. HIDE DEF Ok
<1>9. Ok
  BY <1>1, <1>2, <1>3, <1>4, <1>5, <1>6, <1>7, <1>8 DEF Next, AccessToken
<1>. QED  BY <1>9 DEF CallsOK, Ok

LEMMA AttachedStep ==
  ASSUME TokensOK, SessionsOK, CallsOK, Attached, [Next]_vars
  PROVE  Attached'
<1> USE DEF Attached
<1> DEFINE S == SessionType(Len(sent), issued)
           C == CallType(issued)
<1>f. session \in [Sessions -> S] /\ call \in [Callers -> C]
  BY DEF SessionsOK, CallsOK
<1> HIDE DEF S, C
<1>i. issued \in Nat
  BY DEF TokensOK
<1>1. ASSUME NEW s \in Sessions, Login(s) PROVE Attached'
  <2>1. UNCHANGED call
    BY <1>1 DEF Login, Subscribe, OpenBrowser, Receive, Timeout, Redeem, Store, tokenVars
  <2>2. \A r \in Sessions \ {s} : session'[r] = session[r]
    BY <1>1, <1>f DEF Login, Subscribe, OpenBrowser, Receive, Timeout, Redeem, Store, Sets, Fails
  <2>3. session[s].pc # "open"
    BY <1>1 DEF Login, Subscribe, OpenBrowser, Receive, Waits, Timeout, Redeem, Store
  <2>4. session'[s].pc \in {"store", "open"} => session'[s].token # 0
    <3>1. CASE Redeem(s)
      <4>1. CASE Fails(s)
        BY <4>1, <1>f DEF Fails, Unopened
      <4>2. CASE ~Fails(s)
        <5>1. PICK r : /\ r = [Unopened EXCEPT !.pc = "store", !.got = s, !.token = issued + 1]
                       /\ session' = [session EXCEPT ![s] = r]
          BY <3>1, <4>2 DEF Redeem
        <5>4. r = [pc |-> "store", from |-> 0, read |-> 0, got |-> s, timedOut |-> FALSE,
                   token |-> issued + 1, fresh |-> FALSE]
          BY <5>1, Redeemed
        <5>2. r.token = issued + 1
          BY <5>4
        <5>3. session'[s] = r
          BY <5>1, <1>f
        <5>. QED  BY <5>2, <5>3, <1>i
      <4>. QED  BY <4>1, <4>2
    <3>2. CASE Store(s)
      <4>1. CASE Fails(s)
        BY <4>1, <1>f DEF Fails, Unopened
      <4>2. CASE ~Fails(s)
        <5>1. session' = [session EXCEPT ![s].pc = "open"] /\ session[s].pc = "store"
          BY <3>2, <4>2 DEF Store, Sets
        <5>2. session'[s].token = session[s].token
          BY <5>1, <1>f
        <5>. QED  BY <5>1, <5>2
      <4>. QED  BY <4>1, <4>2
    <3>3. CASE ~Redeem(s) /\ ~Store(s)
      <4>1. CASE Fails(s)
        BY <4>1, <1>f DEF Fails, Unopened
      <4>2. CASE ~Fails(s)
        <5>1. session[s].pc \in {"idle", "subscribed", "waiting"}
          BY <1>1, <3>3 DEF Login, Subscribe, OpenBrowser, Receive, Waits, Timeout
        <5>2. session'[s].pc \in {"subscribed", "waiting", "redeem", "failed"}
          <6>1. CASE Subscribe(s)
            BY <6>1, <1>f DEF Subscribe
          <6>2. CASE OpenBrowser(s)
            <7>1. session' = [session EXCEPT ![s].pc = "waiting"]
              BY <6>2, <4>2 DEF OpenBrowser, Sets
            <7>. QED  BY <7>1, <1>f
          <6>3. CASE Receive(s)
            <7>. DEFINE url == sent[session[s].read + 1]
                        own == url.kind = "code" /\ url.of = s
            <7>1. session' = [session EXCEPT ![s].read = @ + 1,
                                             ![s].pc = IF own THEN "redeem" ELSE @,
                                             ![s].got = IF own THEN s ELSE @]
              BY <6>3, <4>2 DEF Receive
            <7>. HIDE DEF own
            <7>2. session'[s].pc \in {"redeem", session[s].pc}
              BY <7>1, <1>f
            <7>. QED  BY <6>3, <7>2 DEF Receive, Waits
          <6>4. CASE Timeout(s)
            BY <6>4, <1>f DEF Timeout
          <6>. QED  BY <1>1, <3>3, <6>1, <6>2, <6>3, <6>4 DEF Login
        <5>. QED  BY <5>2
      <4>. QED  BY <4>1, <4>2
    <3>. QED  BY <3>1, <3>2, <3>3
  <2>. QED  BY <2>1, <2>2, <2>3, <2>4
<1>2. ASSUME NEW s \in Sessions, Connect(s) PROVE Attached'
  <2>1. UNCHANGED call /\ session[s].pc = "idle"
    BY <1>2 DEF Connect, tokenVars
  <2>2. \A r \in Sessions \ {s} : session'[r] = session[r]
    BY <1>2, <1>f DEF Connect, Fails
  <2>3. CASE Fails(s)
    <3>1. session'[s].pc = "failed"
      BY <2>3, <1>f DEF Fails, Unopened
    <3>. QED  BY <2>1, <2>2, <3>1
  <2>4. CASE ~Fails(s)
    <3>1. key.token # 0 /\ session' = [session EXCEPT ![s].pc = "open", ![s].token = key.token]
      BY <1>2, <2>4 DEF Connect
    <3>2. session'[s].token # 0
      BY <3>1, <1>f
    <3>. QED  BY <2>1, <2>2, <3>2
  <2>. QED  BY <2>3, <2>4
<1>3. ASSUME NEW s \in Sessions, Answer(s) \/ Expire(s) PROVE Attached'
  <2>1. UNCHANGED call
    BY <1>3 DEF Answer, Expire, tokenVars
  <2>2. \A r \in Sessions : session'[r].pc = session[r].pc /\ session'[r].token = session[r].token
    <3>1. CASE Answer(s)
      BY <3>1 DEF Answer
    <3>2. CASE Expire(s)
      BY <3>2, <1>f DEF Expire
    <3>. QED  BY <1>3, <3>1, <3>2
  <2>. QED  BY <2>1, <2>2
<1>4. ASSUME NEW c \in Callers, AccessToken(c), ~Take(c) PROVE Attached'
  <2>1. UNCHANGED session
    BY <1>4 DEF AccessToken, Ask, Lock, Grant, Refuse
  <2>2. \A d \in Callers \ {c} : call'[d] = call[d]
    BY <1>4, <1>f DEF AccessToken, Ask, Lock, Grant, Refuse
  <2>3. call'[c].pc # "idle" =>
          call'[c].of \in Sessions /\ session[call'[c].of].pc = "open"
    <3>1. CASE Ask(c)
      BY <3>1, <1>f DEF Ask, Quiet
    <3>2. CASE ~Ask(c)
      <4>1. call[c].pc # "idle"
        BY <1>4, <3>2 DEF AccessToken, Lock, Grant, Refuse
      <4>2. call'[c].pc = "idle" \/ call'[c].of = call[c].of
        <5>1. CASE Lock(c)
          BY <5>1, <1>f DEF Lock, Quiet
        <5>2. CASE Grant(c)
          BY <5>2, <1>f DEF Grant
        <5>3. CASE Refuse(c)
          BY <5>3, <1>f DEF Refuse, Quiet
        <5>. QED  BY <1>4, <3>2, <5>1, <5>2, <5>3 DEF AccessToken
      <4>. QED  BY <4>1, <4>2
    <3>. QED  BY <3>1, <3>2
  <2>. QED  BY <2>1, <2>2, <2>3
<1>5. ASSUME NEW c \in Callers, Take(c) PROVE Attached'
  <2>1. \A s \in Sessions : session'[s].pc = session[s].pc
          /\ session'[s].token \in {session[s].token, call[c].token}
          /\ (call[c].token = 0 => session'[s].token = session[s].token)
    BY <1>5, <1>f DEF Take, Cached
  <2>2. \A d \in Callers : call'[d].pc # "idle" => call'[d] = call[d]
    BY <1>5, <1>f DEF Take, Quiet
  <2>. QED  BY <2>1, <2>2
<1>6. CASE Junk \/ Land \/ Delete \/ UNCHANGED vars
  BY <1>6 DEF Junk, Land, Delete, vars, tokenVars
<1>7. CASE Crash
  BY <1>7 DEF Crash, Unopened, Quiet
<1>. QED  BY <1>1, <1>2, <1>3, <1>4, <1>5, <1>6, <1>7 DEF Next, AccessToken

LEMMA TypedAlways == Spec => []Typed
<1>1. Typed /\ [Next]_vars => Typed'
  BY LinksStep, TokensStep, SessionsStep, CallsStep, AttachedStep DEF Typed
<1>. QED  BY TypedInit, <1>1, PTL DEF Spec

\* Every step keeps every variable in its type, and a provider never goes without
\* a refresh token.
THEOREM TypeCorrect == Spec => []TypeOK
<1>1. Typed => TypeOK
  BY DEF Typed, LinksOK, TokensOK, SessionsOK, CallsOK, Attached, TypeOK, LinkType, SessionType,
     SessionPC, CallType
<1>. QED  BY <1>1, TypedAlways, PTL

----------------------------------------------------------------------------
(* What a step may do to one session. *)

Same(s) ==
  /\ session'[s].pc = session[s].pc /\ session'[s].timedOut = session[s].timedOut
  /\ session'[s].from = session[s].from /\ session'[s].read = session[s].read
  /\ session'[s].got = session[s].got
Subscribes(s) ==
  /\ session[s].pc = "idle" /\ session'[s].pc = "subscribed"
  /\ session'[s].from = Len(sent) /\ session'[s].read = Len(sent)
  /\ session'[s].timedOut = session[s].timedOut /\ session'[s].got = session[s].got
BeginsToWait(s) ==
  /\ session[s].pc = "subscribed" /\ session'[s].pc = "waiting"
  /\ session'[s].from = session[s].from /\ session'[s].read = session[s].read
  /\ session'[s].timedOut = session[s].timedOut /\ session'[s].got = session[s].got
IsOwn(s, i) == sent[i].kind = "code" /\ sent[i].of = s
Reads(s) ==
  /\ session[s].pc = "waiting"
  /\ session'[s].from = session[s].from /\ session'[s].timedOut = session[s].timedOut
  /\ session'[s].read = session[s].read + 1 /\ session'[s].read <= Len(sent)
  /\ sent[session[s].read + 1].kind # "error"
  /\ \/ session'[s].pc = "redeem" /\ session'[s].got = s
     \/ /\ ~IsOwn(s, session[s].read + 1)
        /\ session'[s].pc = "waiting" /\ session'[s].got = session[s].got
RunsOut(s) ==
  /\ session[s].pc = "waiting" /\ session'[s].pc = "failed" /\ session'[s].timedOut
  /\ session'[s].from = session[s].from /\ session'[s].read = session[s].read
  /\ session'[s].got = session[s].got
Ends(s) ==
  /\ session'[s].pc \in {"failed", "store"}
  /\ session'[s].timedOut = FALSE /\ session'[s].got \in {NoSession, s}
Opens(s) ==
  /\ session[s].pc \in {"idle", "store"} /\ session'[s].pc = "open"
  /\ session'[s].timedOut = session[s].timedOut /\ session'[s].got = session[s].got

Moves(s) ==
  Same(s) \/ Subscribes(s) \/ BeginsToWait(s) \/ Reads(s) \/ RunsOut(s) \/ Ends(s) \/ Opens(s)

LEMMA FailsEnds ==
  ASSUME SessionsOK, NEW s \in Sessions, Fails(s)
  PROVE  Ends(s)
<1>1. PICK r : r = [Unopened EXCEPT !.pc = "failed"] /\ session' = [session EXCEPT ![s] = r]
  BY DEF Fails
<1>2. session'[s] = r
  BY <1>1 DEF SessionsOK
<1>3. r = [pc |-> "failed", from |-> 0, read |-> 0, got |-> NoSession, timedOut |-> FALSE,
           token |-> 0, fresh |-> FALSE]
  BY <1>1, Failed
<1>. QED  BY <1>2, <1>3 DEF Ends

LEMMA SessionMoves ==
  ASSUME LinksOK, SessionsOK, CallsOK, Attached, [Next]_vars, NEW r \in Sessions
  PROVE  Moves(r)
<1> DEFINE S == SessionType(Len(sent), issued)
<1>f. session \in [Sessions -> S]
  BY DEF SessionsOK
<1>r. session[r].read \in Nat /\ Len(sent) \in Nat
  BY LenProperties DEF LinksOK, SessionsOK, SessionType
<1> HIDE DEF S
<1>0. ASSUME session'[r] = session[r] PROVE Moves(r)
  BY <1>0 DEF Moves, Same
<1>1. ASSUME NEW s \in Sessions, Login(s) \/ Connect(s) \/ Expire(s), s # r
      PROVE session'[r] = session[r]
  <2>1. CASE Subscribe(s)
    BY <1>1, <1>f, <2>1 DEF Subscribe
  <2>2. CASE OpenBrowser(s)
    BY <1>1, <1>f, <2>2 DEF OpenBrowser, Sets, Fails
  <2>3. CASE Receive(s)
    BY <1>1, <1>f, <2>3 DEF Receive, Fails
  <2>4. CASE Timeout(s)
    BY <1>1, <1>f, <2>4 DEF Timeout
  <2>5. CASE Redeem(s)
    BY <1>1, <1>f, <2>5 DEF Redeem, Fails
  <2>6. CASE Store(s)
    BY <1>1, <1>f, <2>6 DEF Store, Sets, Fails
  <2>7. CASE Connect(s)
    BY <1>1, <1>f, <2>7 DEF Connect, Fails
  <2>8. CASE Expire(s)
    BY <1>1, <1>f, <2>8 DEF Expire
  <2>. QED  BY <1>1, <2>1, <2>2, <2>3, <2>4, <2>5, <2>6, <2>7, <2>8 DEF Login
<1>e. ASSUME Fails(r) PROVE Moves(r)
  BY <1>e, FailsEnds DEF Moves
<1>2. ASSUME Subscribe(r) PROVE Moves(r)
  <2>1. Subscribes(r)
    BY <1>2, <1>f DEF Subscribe, Subscribes
  <2>. QED  BY <2>1 DEF Moves
<1>3. ASSUME OpenBrowser(r), ~Fails(r) PROVE Moves(r)
  <2>1. session[r].pc = "subscribed" /\ session' = [session EXCEPT ![r].pc = "waiting"]
    BY <1>3 DEF OpenBrowser, Sets
  <2>2. BeginsToWait(r)
    BY <2>1, <1>f DEF BeginsToWait
  <2>. QED  BY <2>2 DEF Moves
<1>4. ASSUME Receive(r), ~Fails(r) PROVE Moves(r)
  <2>. DEFINE url == sent[session[r].read + 1]
              own == IsOwn(r, session[r].read + 1)
  <2>1. /\ session[r].pc = "waiting" /\ Len(sent) - session[r].read > 0
        /\ url.kind # "error"
        /\ session' = [session EXCEPT ![r].read = @ + 1,
                                      ![r].pc = IF own THEN "redeem" ELSE @,
                                      ![r].got = IF own THEN r ELSE @]
    BY <1>4 DEF Receive, Waits, Unread, IsOwn
  <2>. HIDE DEF own
  <2>2. /\ session'[r].from = session[r].from /\ session'[r].timedOut = session[r].timedOut
        /\ session'[r].read = session[r].read + 1
    BY <2>1, <1>f
  <2>3. CASE own
    <3>1. session'[r].pc = "redeem" /\ session'[r].got = r
      BY <2>1, <2>3, <1>f
    <3>2. Reads(r)
      BY <2>1, <2>2, <3>1, <1>r DEF Reads
    <3>. QED  BY <3>2 DEF Moves
  <2>4. CASE ~own
    <3>1. session'[r].pc = "waiting" /\ session'[r].got = session[r].got
      BY <2>1, <2>4, <1>f
    <3>2. Reads(r)
      BY <2>1, <2>2, <2>4, <3>1, <1>r DEF Reads, own
    <3>. QED  BY <3>2 DEF Moves
  <2>. QED  BY <2>3, <2>4
<1>5. ASSUME Timeout(r) PROVE Moves(r)
  <2>1. RunsOut(r)
    BY <1>5, <1>f DEF Timeout, Waits, RunsOut
  <2>. QED  BY <2>1 DEF Moves
<1>6. ASSUME Redeem(r), ~Fails(r) PROVE Moves(r)
  <2>1. PICK x : /\ x = [Unopened EXCEPT !.pc = "store", !.got = r, !.token = issued + 1]
                 /\ session' = [session EXCEPT ![r] = x]
    BY <1>6 DEF Redeem
  <2>2. x = [pc |-> "store", from |-> 0, read |-> 0, got |-> r, timedOut |-> FALSE,
             token |-> issued + 1, fresh |-> FALSE]
    BY <2>1, Redeemed
  <2>3. session'[r] = x
    BY <2>1, <1>f
  <2>. QED  BY <2>2, <2>3 DEF Moves, Ends
<1>7. ASSUME Store(r), ~Fails(r) PROVE Moves(r)
  <2>1. session[r].pc = "store" /\ session' = [session EXCEPT ![r].pc = "open"]
    BY <1>7 DEF Store, Sets
  <2>2. Opens(r)
    BY <2>1, <1>f DEF Opens
  <2>. QED  BY <2>2 DEF Moves
<1>8. ASSUME Connect(r), ~Fails(r) PROVE Moves(r)
  <2>1. session[r].pc = "idle"
        /\ session' = [session EXCEPT ![r].pc = "open", ![r].token = key.token]
    BY <1>8 DEF Connect
  <2>2. Opens(r)
    BY <2>1, <1>f DEF Opens
  <2>. QED  BY <2>2 DEF Moves
<1>9. ASSUME Expire(r) PROVE Moves(r)
  <2>1. Same(r)
    BY <1>9, <1>f DEF Expire, Same
  <2>. QED  BY <2>1 DEF Moves
<1>10. ASSUME NEW c \in Callers, Take(c) PROVE Moves(r)
  <2>1. call[c].of \in Sessions
    BY <1>10 DEF Take, Attached
  <2>2. PICK s, u :
          /\ s \in Sessions
          /\ session' = [session EXCEPT ![s].fresh = TRUE, ![s].token = u]
    BY <1>10, <2>1 DEF Take, Cached
  <2>3. Same(r)
    BY <2>2, <1>f DEF Same
  <2>. QED  BY <2>3 DEF Moves
<1>11. ASSUME Crash PROVE Moves(r)
  <2>1. PICK x : x = [Unopened EXCEPT !.pc = "failed"]
    OBVIOUS
  <2>2. session'[r] \in {session[r], x}
    BY <1>11, <2>1 DEF Crash
  <2>3. x = [pc |-> "failed", from |-> 0, read |-> 0, got |-> NoSession, timedOut |-> FALSE,
             token |-> 0, fresh |-> FALSE]
    BY <2>1, Failed
  <2>4. CASE session'[r] = x
    BY <2>3, <2>4 DEF Moves, Ends
  <2>. QED  BY <2>2, <2>4, <1>0
<1>12. ASSUME NEW s \in Sessions, Answer(s) PROVE session'[r] = session[r]
  BY <1>12 DEF Answer
<1>13. ASSUME NEW c \in Callers, AccessToken(c), ~Take(c) PROVE session'[r] = session[r]
  BY <1>13 DEF AccessToken, Ask, Lock, Grant, Refuse
<1>14. ASSUME Junk \/ Land \/ Delete \/ UNCHANGED vars PROVE session'[r] = session[r]
  BY <1>14 DEF Junk, Land, Delete, vars
<1>. QED
  BY <1>0, <1>1, <1>e, <1>2, <1>3, <1>4, <1>5, <1>6, <1>7, <1>8, <1>9, <1>10, <1>11, <1>12, <1>13,
     <1>14 DEF Next, Login, AccessToken

----------------------------------------------------------------------------
(* Whose code, and what a sign-in that timed out has missed. *)

\* Nothing decides a session but the code that came with its own state.
THEOREM CodeIsOwn == Spec => []OwnCode
<1>1. Init => OwnCode
  BY DEF Init, OwnCode, Unopened
<1>2. Typed /\ OwnCode /\ [Next]_vars => OwnCode'
  <2> SUFFICES ASSUME Typed, OwnCode, [Next]_vars, NEW s \in Sessions
               PROVE  session'[s].got \in {NoSession, s}
    BY DEF OwnCode
  <2>1. Moves(s)
    BY SessionMoves DEF Typed
  <2>. QED  BY <2>1 DEF OwnCode, Moves, Same, Subscribes, BeginsToWait, Reads, RunsOut, Ends, Opens
<1>. QED  BY <1>1, <1>2, TypedAlways, PTL DEF Spec

\* The links a session has read so far did not answer it.
Unanswered(s) ==
  \A i \in session[s].from + 1 .. session[s].read : sent[i].kind # "error" /\ ~IsOwn(s, i)

WaitInv ==
  \A s \in Sessions :
    /\ session[s].timedOut => session[s].pc = "failed"
    /\ session[s].pc \in {"subscribed", "waiting"} \/ session[s].timedOut => Unanswered(s)

LEMMA WaitStep == Typed /\ WaitInv /\ [Next]_vars => WaitInv'
<1> SUFFICES ASSUME Typed, WaitInv, [Next]_vars, NEW s \in Sessions
             PROVE  /\ session'[s].timedOut => session'[s].pc = "failed"
                    /\ session'[s].pc \in {"subscribed", "waiting"} \/ session'[s].timedOut
                         => Unanswered(s)'
  BY DEF WaitInv
<1>1. LinksGrow
  BY LinksStep DEF Typed
<1>2. /\ session[s].from \in Nat /\ session[s].read \in 0 .. Len(sent)
      /\ session[s].timedOut \in BOOLEAN
  BY <1>1 DEF LinksGrow, Typed, SessionsOK, SessionType
<1>3. ASSUME Unanswered(s), session'[s].from = session[s].from, session'[s].read = session[s].read
      PROVE Unanswered(s)'
  BY <1>1, <1>2, <1>3 DEF Unanswered, LinksGrow, IsOwn
<1>w. WaitInv!(s)
  BY DEF WaitInv
<1>4. CASE Same(s)
  BY <1>3, <1>4, <1>w DEF Same
<1>5. CASE Subscribes(s)
  <2>1. Unanswered(s)'
    BY <1>1, <1>5 DEF Unanswered, Subscribes, LinksGrow
  <2>. QED  BY <2>1, <1>5, <1>w DEF Subscribes
<1>6. CASE BeginsToWait(s)
  BY <1>3, <1>6, <1>w DEF BeginsToWait
<1>7. CASE Reads(s)
  <2>1. ~session'[s].timedOut /\ Unanswered(s)
    BY <1>7, <1>w, <1>2 DEF Reads
  <2>2. CASE session'[s].pc = "redeem"
    BY <2>1, <2>2
  <2>3. CASE session'[s].pc # "redeem"
    <3>1. /\ sent[session[s].read + 1].kind # "error" /\ ~IsOwn(s, session[s].read + 1)
          /\ session'[s].from = session[s].from /\ session'[s].read = session[s].read + 1
          /\ session'[s].read <= Len(sent)
      BY <1>7, <2>3 DEF Reads
    <3>2. \A i \in session'[s].from + 1 .. session'[s].read :
            sent[i].kind # "error" /\ ~IsOwn(s, i)
      BY <2>1, <3>1, <1>2 DEF Unanswered
    <3>3. \A i \in session'[s].from + 1 .. session'[s].read : sent'[i] = sent[i]
      BY <3>1, <1>1, <1>2 DEF LinksGrow
    <3>4. Unanswered(s)'
      BY <3>2, <3>3 DEF Unanswered, IsOwn
    <3>. QED  BY <2>1, <3>4
  <2>. QED  BY <2>2, <2>3
<1>8. CASE RunsOut(s)
  BY <1>3, <1>8, <1>w DEF RunsOut
<1>9. CASE Ends(s)
  BY <1>9 DEF Ends
<1>10. CASE Opens(s)
  BY <1>10, <1>w, <1>2 DEF Opens
<1>11. Moves(s)
  BY SessionMoves DEF Typed
<1>. QED  BY <1>4, <1>5, <1>6, <1>7, <1>8, <1>9, <1>10, <1>11 DEF Moves

\* A sign-in does not time out on an answer that has come.
THEOREM TimeoutUnanswered == Spec => []TimedOutUnanswered
<1>1. Init => WaitInv
  BY DEF Init, WaitInv, Unopened
<1>2. WaitInv => TimedOutUnanswered
  BY DEF WaitInv, TimedOutUnanswered, Unanswered, IsOwn
<1>. QED  BY <1>1, <1>2, WaitStep, TypedAlways, PTL DEF Spec
----------------------------------------------------------------------------
(* The refresh token of a session, which only the caller that holds its lock  *)
(* replaces.                                                                  *)

\* Callers that hold the lock of a session.
HoldsLock(c) == call[c].pc \in {"refresh", "granted"}
LockInv ==
  \A c, d \in Callers : HoldsLock(c) /\ HoldsLock(d) /\ call[c].of = call[d].of => c = d

\* What the server has rotated is newer than what its session has.
NewerInv ==
  \A c \in Callers : call[c].pc = "granted" /\ call[c].token # 0 =>
    call[c].token > session[call[c].of].token

LEMMA TokenStays ==
  ASSUME Typed, [Next]_vars, NEW s \in Sessions, session[s].pc = "open",
         ~Crash, \A c \in Callers : ~Take(c)
  PROVE  session'[s].token = session[s].token
<1> DEFINE S == SessionType(Len(sent), issued)
<1>f. session \in [Sessions -> S]
  BY DEF Typed, SessionsOK
<1> HIDE DEF S
<1>1. ASSUME NEW r \in Sessions, Login(r) \/ Connect(r) PROVE session'[s] = session[s]
  <2>1. s # r
    BY <1>1 DEF Login, Subscribe, OpenBrowser, Receive, Waits, Timeout, Redeem, Store, Connect
  <2>2. CASE Subscribe(r)
    BY <2>1, <2>2, <1>f DEF Subscribe
  <2>3. CASE OpenBrowser(r)
    BY <2>1, <2>3, <1>f DEF OpenBrowser, Sets, Fails
  <2>4. CASE Receive(r)
    BY <2>1, <2>4, <1>f DEF Receive, Fails
  <2>5. CASE Timeout(r)
    BY <2>1, <2>5, <1>f DEF Timeout
  <2>6. CASE Redeem(r)
    BY <2>1, <2>6, <1>f DEF Redeem, Fails
  <2>7. CASE Store(r)
    BY <2>1, <2>7, <1>f DEF Store, Sets, Fails
  <2>8. CASE Connect(r)
    BY <2>1, <2>8, <1>f DEF Connect, Fails
  <2>. QED  BY <1>1, <2>2, <2>3, <2>4, <2>5, <2>6, <2>7, <2>8 DEF Login
<1>2. ASSUME NEW r \in Sessions, Expire(r) PROVE session'[s].token = session[s].token
  BY <1>2, <1>f DEF Expire
<1>3. ASSUME NEW r \in Sessions, Answer(r) PROVE session' = session
  BY <1>3 DEF Answer
<1>4. ASSUME NEW c \in Callers, AccessToken(c) PROVE session' = session
  BY <1>4 DEF AccessToken, Ask, Lock, Grant, Refuse
<1>5. ASSUME Junk \/ Land \/ Delete \/ UNCHANGED vars PROVE session' = session
  BY <1>5 DEF Junk, Land, Delete, vars
<1>. QED  BY <1>1, <1>2, <1>3, <1>4, <1>5 DEF Next

\* What a step does to the callers.
LEMMA CallMoves ==
  ASSUME CallsOK, [Next]_vars, NEW c \in Callers
  PROVE  \/ call'[c] = call[c]
         \/ call'[c].pc \in {"idle", "lock"}
         \/ /\ call'[c].pc = "refresh" /\ call'[c].of = call[c].of
            /\ \A d \in Callers : ~(HoldsLock(d) /\ call[d].of = call[c].of)
            /\ \A d \in Callers \ {c} : call'[d] = call[d]
         \/ /\ call[c].pc = "refresh" /\ call'[c].pc = "granted" /\ call'[c].of = call[c].of
            /\ call'[c].token \in {0, issued + 1}
            /\ UNCHANGED session
<1> DEFINE C == CallType(issued)
           Goal == \/ call'[c] = call[c]
                   \/ call'[c].pc \in {"idle", "lock"}
                   \/ /\ call'[c].pc = "refresh" /\ call'[c].of = call[c].of
                      /\ \A d \in Callers : ~(HoldsLock(d) /\ call[d].of = call[c].of)
                      /\ \A d \in Callers \ {c} : call'[d] = call[d]
                   \/ /\ call[c].pc = "refresh" /\ call'[c].pc = "granted"
                      /\ call'[c].of = call[c].of /\ call'[c].token \in {0, issued + 1}
                      /\ UNCHANGED session
<1>f. call \in [Callers -> C]
  BY DEF CallsOK
<1> HIDE DEF C
<1>1. ASSUME NEW s \in Sessions, Login(s) \/ Connect(s) \/ Answer(s) \/ Expire(s)
      PROVE call' = call
  BY <1>1 DEF Login, Subscribe, OpenBrowser, Receive, Timeout, Redeem, Store, Connect, Answer,
     Expire, tokenVars
<1>2. ASSUME Junk \/ Land \/ Delete \/ UNCHANGED vars PROVE call' = call
  BY <1>2 DEF Junk, Land, Delete, vars, tokenVars
<1>3. ASSUME Crash PROVE call'[c].pc = "idle"
  BY <1>3 DEF Crash, Quiet
<1>4. ASSUME NEW d \in Callers, AccessToken(d), d # c PROVE call'[c] = call[c]
  BY <1>4, <1>f DEF AccessToken, Ask, Lock, Grant, Refuse, Take
<1>5. ASSUME Ask(c) PROVE call'[c].pc = "lock"
  BY <1>5, <1>f DEF Ask, Quiet
<1>6. ASSUME Refuse(c) \/ Take(c) PROVE call'[c].pc = "idle"
  BY <1>6, <1>f DEF Refuse, Take, Quiet
<1>7. ASSUME Lock(c) PROVE Goal
  <2>1. CASE call' = [call EXCEPT ![c] = Quiet]
    BY <2>1, <1>f DEF Quiet
  <2>2. CASE call' = [call EXCEPT ![c].pc = "refresh"]
    <3>1. call'[c].pc = "refresh" /\ call'[c].of = call[c].of
          /\ \A d \in Callers \ {c} : call'[d] = call[d]
      BY <2>2, <1>f
    <3>2. \A d \in Callers : ~(HoldsLock(d) /\ call[d].of = call[c].of)
      BY <1>7 DEF Lock, Holds, HoldsLock
    <3>. QED  BY <3>1, <3>2
  <2>. QED  BY <1>7, <2>1, <2>2 DEF Lock
<1>8. ASSUME Grant(c) PROVE Goal
  <2>1. PICK u \in {0, issued + 1} :
          call' = [call EXCEPT ![c].pc = "granted", ![c].token = u]
    BY <1>8 DEF Grant
  <2>. QED  BY <1>8, <2>1, <1>f DEF Grant
<1>. QED  BY <1>1, <1>2, <1>3, <1>4, <1>5, <1>6, <1>7, <1>8 DEF Next, AccessToken

LEMMA LockStep == Typed /\ LockInv /\ [Next]_vars => LockInv'
<1> SUFFICES ASSUME Typed, LockInv, [Next]_vars, NEW c \in Callers, NEW d \in Callers, c # d,
                    HoldsLock(c)', HoldsLock(d)'
             PROVE  call'[c].of # call'[d].of
  BY DEF LockInv
<1>c. CallsOK
  BY DEF Typed
<1>1. CASE call'[c].pc = "refresh" /\ call'[c].of = call[c].of
           /\ (\A e \in Callers : ~(HoldsLock(e) /\ call[e].of = call[c].of))
           /\ (\A e \in Callers \ {c} : call'[e] = call[e])
  BY <1>1 DEF HoldsLock
<1>2. CASE call'[d].pc = "refresh" /\ call'[d].of = call[d].of
           /\ (\A e \in Callers : ~(HoldsLock(e) /\ call[e].of = call[d].of))
           /\ (\A e \in Callers \ {d} : call'[e] = call[e])
  BY <1>2 DEF HoldsLock
<1>3. CASE HoldsLock(c) /\ call'[c].of = call[c].of /\ HoldsLock(d) /\ call'[d].of = call[d].of
  BY <1>3 DEF LockInv
<1>4. call'[c].pc \notin {"idle", "lock"} /\ call'[d].pc \notin {"idle", "lock"}
  BY DEF HoldsLock
<1>5. \/ call'[c].pc = "refresh" /\ call'[c].of = call[c].of
         /\ (\A e \in Callers : ~(HoldsLock(e) /\ call[e].of = call[c].of))
         /\ (\A e \in Callers \ {c} : call'[e] = call[e])
      \/ HoldsLock(c) /\ call'[c].of = call[c].of
  BY <1>c, <1>4, CallMoves DEF HoldsLock
<1>6. \/ call'[d].pc = "refresh" /\ call'[d].of = call[d].of
         /\ (\A e \in Callers : ~(HoldsLock(e) /\ call[e].of = call[d].of))
         /\ (\A e \in Callers \ {d} : call'[e] = call[e])
      \/ HoldsLock(d) /\ call'[d].of = call[d].of
  BY <1>c, <1>4, CallMoves DEF HoldsLock
<1>. QED  BY <1>1, <1>2, <1>3, <1>5, <1>6

LEMMA NewerStep == Typed /\ LockInv /\ NewerInv /\ [Next]_vars => NewerInv'
<1> SUFFICES ASSUME Typed, LockInv, NewerInv, [Next]_vars, NEW c \in Callers,
                    call'[c].pc = "granted", call'[c].token # 0
             PROVE  call'[c].token > session'[call'[c].of].token
  BY DEF NewerInv
<1>c. CallsOK /\ SessionsOK
  BY DEF Typed
<1>t. issued \in Nat /\ \A s \in Sessions : session[s].token \in 0 .. issued
  BY DEF Typed, TokensOK, SessionsOK, SessionType
<1>o. call[c].pc # "idle" => call[c].of \in Sessions /\ session[call[c].of].pc = "open"
  BY DEF Typed, Attached
<1>1. CASE /\ call[c].pc = "refresh" /\ call'[c].of = call[c].of
           /\ call'[c].token \in {0, issued + 1}
           /\ UNCHANGED session
  BY <1>1, <1>t, <1>o
<1>2. CASE call'[c] = call[c]
  <2>1. call[c].of \in Sessions /\ session[call[c].of].pc = "open"
        /\ call[c].token > session[call[c].of].token
    BY <1>2, <1>o DEF NewerInv
  <2>2. ~Crash
    BY DEF Crash, Quiet
  <2>3. ASSUME NEW d \in Callers, Take(d) PROVE session'[call[c].of] = session[call[c].of]
    <3>1. d # c
      <4>1. d = c => call'[c].pc = "idle"
        BY <2>3, <1>c DEF Take, CallsOK, Quiet
      <4>. QED  BY <4>1
    <3>2. call[d].of # call[c].of
      BY <1>2, <2>3, <3>1 DEF Take, LockInv, HoldsLock
    <3>. DEFINE S == SessionType(Len(sent), issued)
    <3>3. session \in [Sessions -> S]
      BY <1>c DEF SessionsOK
    <3>. HIDE DEF S
    <3>. QED  BY <2>1, <2>3, <3>2, <3>3 DEF Take, Cached
  <2>4. session'[call[c].of].token = session[call[c].of].token
    BY <2>1, <2>2, <2>3, TokenStays
  <2>. QED  BY <1>2, <2>1, <2>4
<1>. QED  BY <1>1, <1>2, <1>c, CallMoves

LEMMA NewerAlways == Spec => [](Typed /\ LockInv /\ NewerInv)
<1>1. Init => LockInv /\ NewerInv
  BY DEF Init, LockInv, NewerInv, HoldsLock, Quiet
<1>. QED  BY <1>1, LockStep, NewerStep, TypedAlways, PTL DEF Spec

\* However many callers refresh at once, a provider's refresh token only gets newer.
THEOREM TokensOnlyNewer == Spec => NeverOlder
<1>1. ASSUME Typed, LockInv, NewerInv, [Next]_vars, NEW s \in Sessions,
             session[s].pc = "open", session'[s].pc = "open"
      PROVE  session'[s].token >= session[s].token
  <2>t. session[s].token \in Nat
    BY <1>1 DEF Typed, TokensOK, SessionsOK, SessionType
  <2>1. ~Crash
    BY <1>1 DEF Crash, Unopened
  <2>2. ASSUME NEW c \in Callers, Take(c) PROVE session'[s].token >= session[s].token
    <3>. DEFINE S == SessionType(Len(sent), issued)
    <3>1. session \in [Sessions -> S] /\ call[c].of \in Sessions /\ call[c].token \in Nat
      BY <1>1, <2>2 DEF Take, Typed, TokensOK, SessionsOK, CallsOK, CallType, Attached
    <3>. HIDE DEF S
    <3>2. session' = [session EXCEPT ![call[c].of].fresh = TRUE,
                        ![call[c].of].token = IF call[c].token = 0 THEN @ ELSE call[c].token]
      BY <2>2 DEF Take, Cached
    <3>3. \/ session'[s].token = session[s].token
          \/ s = call[c].of /\ call[c].token # 0 /\ session'[s].token = call[c].token
      <4>1. CASE s # call[c].of
        BY <3>1, <3>2, <4>1
      <4>2. CASE s = call[c].of /\ call[c].token = 0
        BY <3>1, <3>2, <4>2
      <4>3. CASE s = call[c].of /\ call[c].token # 0
        BY <3>1, <3>2, <4>3
      <4>. QED  BY <4>1, <4>2, <4>3
    <3>. QED  BY <1>1, <2>2, <2>t, <3>1, <3>3 DEF NewerInv, Take
  <2>3. CASE \A c \in Callers : ~Take(c)
    <3>1. session'[s].token = session[s].token
      BY <1>1, <2>1, <2>3, TokenStays
    <3>. QED  BY <2>t, <3>1
  <2>. QED  BY <2>2, <2>3
<1>2. Typed /\ LockInv /\ NewerInv /\ [Next]_vars =>
        [\A s \in Sessions : session[s].pc = "open" /\ session'[s].pc = "open" =>
           session'[s].token >= session[s].token]_vars
  BY <1>1
<1>. QED  BY <1>2, NewerAlways, PTL DEF Spec, NeverOlder

----------------------------------------------------------------------------
(* The keychain. *)

\* Requests have numbers of their own. Unless something was mislaid, the last one
\* is either what the keychain has or on its way, and has the token given last.
StoreInv ==
  /\ \A v, w \in writes \cup {key} : v.by = w.by => v = w
  /\ ~mislaid => \E w \in writes \cup {key} : w.by = asked /\ w.token = latest

LEMMA StoreStep == Typed /\ StoreInv /\ [Next]_vars => StoreInv'
<1> SUFFICES ASSUME Typed, StoreInv, [Next]_vars PROVE StoreInv'
  OBVIOUS
<1>t. /\ asked \in Nat /\ key.by \in 0 .. asked /\ mislaid \in BOOLEAN
      /\ \A w \in writes : w.by \in 1 .. asked
  BY DEF Typed, TokensOK
<1>0. ASSUME UNCHANGED <<key, writes, asked, latest, mislaid>> PROVE StoreInv'
  BY <1>0 DEF StoreInv
<1>n. ASSUME NEW e, e.by = asked + 1, e.token = latest', asked' = asked + 1,
             UNCHANGED mislaid,
             \/ key' = e /\ UNCHANGED writes
             \/ writes' = writes \cup {e} /\ UNCHANGED key
      PROVE StoreInv'
  <2>1. writes' \cup {key'} \subseteq writes \cup {key, e} /\ e \in writes' \cup {key'}
    BY <1>n
  <2>2. \A v \in writes \cup {key} : v.by # e.by
    BY <1>n, <1>t
  <2>3. \A v, w \in writes' \cup {key'} : v.by = w.by => v = w
    BY <2>1, <2>2 DEF StoreInv
  <2>. QED  BY <1>n, <2>1, <2>3 DEF StoreInv
<1>1. ASSUME NEW s \in Sessions, Login(s) \/ Connect(s) \/ Answer(s) \/ Expire(s) PROVE StoreInv'
  <2>1. CASE Store(s) /\ ~Fails(s)
    <3>1. /\ key' = [token |-> session[s].token, by |-> asked + 1] /\ asked' = asked + 1
          /\ latest' = session[s].token /\ UNCHANGED <<writes, mislaid>>
      BY <2>1 DEF Store
    <3>2. key'.by = asked + 1 /\ key'.token = latest'
      BY <3>1
    <3>. QED  BY <3>1, <3>2, <1>n
  <2>2. CASE ~(Store(s) /\ ~Fails(s))
    <3>1. UNCHANGED <<key, writes, asked, latest, mislaid>>
      <4>1. CASE Store(s)
        <5>1. session[s].pc = "store" /\ Fails(s)
          BY <2>2, <4>1 DEF Store
        <5>2. session'[s].pc = "failed"
          BY <5>1 DEF Fails, Unopened, Typed, SessionsOK
        <5>3. ~Sets(s, "open")
          <6>. DEFINE S == SessionType(Len(sent), issued)
          <6>1. session \in [Sessions -> S]
            BY DEF Typed, SessionsOK
          <6>. HIDE DEF S
          <6>2. ASSUME Sets(s, "open") PROVE session'[s].pc = "open"
            BY <6>1, <6>2 DEF Sets
          <6>. QED  BY <5>2, <6>2
        <5>. QED  BY <4>1, <5>3 DEF Store
      <4>2. CASE ~Store(s)
        BY <1>1, <4>2 DEF Login, Subscribe, OpenBrowser, Receive, Timeout, Redeem, Connect, Answer,
           Expire, tokenVars
      <4>. QED  BY <4>1, <4>2
    <3>. QED  BY <3>1, <1>0
  <2>. QED  BY <2>1, <2>2
<1>2. ASSUME NEW c \in Callers, AccessToken(c) PROVE StoreInv'
  <2>1. CASE Take(c) /\ call[c].token # 0
    <3>1. PICK e : e = [token |-> call[c].token, by |-> asked + 1]
      OBVIOUS
    <3>2. /\ writes' = writes \cup {e} /\ asked' = asked + 1 /\ latest' = call[c].token
          /\ UNCHANGED <<key, mislaid>>
      BY <2>1, <3>1 DEF Take
    <3>3. e.by = asked + 1 /\ e.token = latest'
      BY <3>1, <3>2
    <3>. QED  BY <3>2, <3>3, <1>n
  <2>2. CASE ~(Take(c) /\ call[c].token # 0)
    BY <1>0, <1>2, <2>2 DEF AccessToken, Ask, Lock, Grant, Refuse, Take
  <2>. QED  BY <2>1, <2>2
<1>3. CASE Junk \/ UNCHANGED vars
  BY <1>0, <1>3 DEF Junk, vars, tokenVars
<1>4. CASE Land
  <2>1. PICK w \in writes :
          /\ writes' = writes \ {w} /\ UNCHANGED <<asked, latest>>
          /\ \/ key' = w /\ mislaid' = (mislaid \/ w.by < key.by)
             \/ mislaid' = TRUE /\ UNCHANGED key
    BY <1>4 DEF Land
  <2>2. \A u, v \in writes' \cup {key'} : u.by = v.by => u = v
    BY <2>1 DEF StoreInv
  <2>3. ASSUME ~mislaid' PROVE \E v \in writes' \cup {key'} : v.by = asked /\ v.token = latest
    <3>1. ~mislaid /\ key' = w /\ ~(w.by < key.by)
      BY <2>1, <2>3
    <3>2. PICK v \in writes \cup {key} : v.by = asked /\ v.token = latest
      BY <3>1 DEF StoreInv
    <3>3. v = key => w.by = key.by
      BY <3>1, <3>2, <1>t
    <3>4. v = key => v = w
      BY <3>3 DEF StoreInv
    <3>5. v \in writes' \cup {key'}
      BY <3>1, <3>2, <3>4, <2>1
    <3>. QED  BY <3>2, <3>5
  <2>. QED  BY <2>1, <2>2, <2>3 DEF StoreInv
<1>5. CASE Delete
  <2>1. key' = [token |-> 0, by |-> asked + 1] /\ asked' = asked + 1 /\ latest' = 0
        /\ UNCHANGED <<writes, mislaid>>
    BY <1>5 DEF Delete
  <2>2. key'.by = asked + 1 /\ key'.token = latest'
    BY <2>1
  <2>. QED  BY <2>1, <2>2, <1>n
<1>6. CASE Crash
  <2>1. writes' = {} /\ UNCHANGED <<key, asked, latest>> /\ (mislaid' <=> mislaid \/ writes # {})
    BY <1>6 DEF Crash
  <2>. QED  BY <2>1 DEF StoreInv
<1>. QED  BY <1>1, <1>2, <1>3, <1>4, <1>5, <1>6 DEF Next

\* Once its writes have landed, the keychain has the token the app was given last,
\* in whatever order the writes ran, unless one was mislaid.
THEOREM NewestIsStored == Spec => []NewestStored
<1>1. Init => StoreInv
  BY DEF Init, StoreInv
<1>2. StoreInv => NewestStored
  BY DEF StoreInv, NewestStored
<1>. QED  BY <1>1, <1>2, StoreStep, TypedAlways, PTL DEF Spec
==============================================================================
