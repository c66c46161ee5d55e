------------------------------- MODULE SignIn -------------------------------
(***************************************************************************)
(* Signing in to OneDrive and staying signed in, for one bookmark. A sign-in  *)
(* opens a page in the browser and waits for the link by which the page comes  *)
(* back; one router hands every such link to every sign-in that waits. The     *)
(* refresh token goes to the keychain and to the session's token provider,     *)
(* which refreshes access tokens one caller at a time, takes the new refresh    *)
(* token when the server rotates it, and has it written to the keychain by a    *)
(* task nobody waits for.                                                       *)
(*                                                                             *)
(* The browser, the server and the keychain are external.                       *)
(***************************************************************************)
EXTENDS Naturals, Sequences, FiniteSets

CONSTANTS
  Sessions,   \* sign-ins, or connections with the saved token
  Callers,    \* tasks that need an access token
  Capacity,   \* how many links the router keeps for a slow reader
  MaxJunk,    \* bound: links that are no answer of a page
  MaxTokens,  \* bound: refresh tokens issued
  MaxDeletes  \* bound: deletes of the bookmark

ASSUME SizeAssumption ==
  /\ Capacity \in Nat \ {0}
  /\ MaxTokens \in Nat \ {0}      \* one may be there from the start
  /\ MaxJunk \in Nat /\ MaxDeletes \in Nat

VARIABLES
  session,   \* the sign-ins and the token providers they end with
  sent,      \* the links the router was given
  pages,     \* pages in the browser that have not come back
  call,      \* the callers of access_token
  key,       \* the keychain: the token, and which request put it there
  writes,    \* rotated tokens on their way to the keychain
  issued,    \* refresh tokens the server has issued, numbered from 1
  asked,     \* requests to the keychain so far, numbered from 1
  deletes,
  latest,    \* the token the app was last given; 0 after a delete (history)
  mislaid    \* a write landed after a later request, or never (history)

vars == <<session, sent, pages, call, key, writes, issued, asked, deletes, latest, mislaid>>
tokenVars == <<call, key, writes, issued, asked, deletes, latest, mislaid>>

NoSession == "none"
Unopened == [pc |-> "idle", from |-> 0, read |-> 0, got |-> NoSession, timedOut |-> FALSE,
             token |-> 0, fresh |-> FALSE]
Quiet == [pc |-> "idle", of |-> NoSession, token |-> 0]

Init ==
  /\ session = [s \in Sessions |-> Unopened]
  /\ sent = <<>>
  /\ pages = {}
  /\ call = [c \in Callers |-> Quiet]
  /\ issued \in {0, 1}
  /\ key = [token |-> issued, by |-> 0]
  /\ writes = {}
  /\ asked = 0
  /\ deletes = 0
  /\ latest = issued
  /\ mislaid = FALSE

Sets(s, pc) == session' = [session EXCEPT ![s].pc = pc]
Fails(s) == session' = [session EXCEPT ![s] = [Unopened EXCEPT !.pc = "failed"]]

----------------------------------------------------------------------------
\* interactive_login: the router is asked first, then the page opened.
Subscribe(s) ==
  /\ session[s].pc = "idle"
  /\ session' = [session EXCEPT ![s].pc = "subscribed", ![s].from = Len(sent),
                                ![s].read = Len(sent)]
  /\ UNCHANGED <<sent, pages, tokenVars>>

OpenBrowser(s) ==
  /\ session[s].pc = "subscribed"
  /\ \/ Sets(s, "waiting") /\ pages' = pages \cup {s}
     \/ Fails(s) /\ UNCHANGED pages
  /\ UNCHANGED <<sent, tokenVars>>

\* The page comes back with a code and the state it was opened with, or with an
\* error. The user may take his time, even until nobody waits any more.
Answer(s) ==
  /\ s \in pages
  /\ pages' = pages \ {s}
  /\ \E kind \in {"code", "error"} : sent' = Append(sent, [kind |-> kind, of |-> s])
  /\ UNCHANGED <<session, tokenVars>>

\* Anybody can open a link of the app's scheme.
Junk ==
  /\ Cardinality({i \in DOMAIN sent : sent[i].kind = "junk"}) < MaxJunk
  /\ sent' = Append(sent, [kind |-> "junk", of |-> NoSession])
  /\ UNCHANGED <<session, pages, tokenVars>>

Waits(s) == session[s].pc = "waiting"
Unread(s) == Len(sent) - session[s].read

\* Mutant: any code will do.
ReceiveAny(s) ==
  /\ Waits(s) /\ Unread(s) > 0
  /\ LET url == sent[session[s].read + 1]
     IN CASE url.kind = "code" ->
               session' = [session EXCEPT ![s].read = @ + 1, ![s].pc = "redeem", ![s].got = url.of]
          [] url.kind = "error" ->
               Fails(s)
          [] OTHER -> session' = [session EXCEPT ![s].read = @ + 1]
  /\ UNCHANGED <<sent, pages, tokenVars>>

\* Mutant: the router keeps only the latest link.
ReceiveLatest(s) ==
  /\ Waits(s) /\ Unread(s) > 0
  /\ LET url == sent[Len(sent)]
     IN session' = [session EXCEPT ![s].read = Len(sent),
                      ![s].pc = IF url.of = s /\ url.kind = "code" THEN "redeem" ELSE @,
                      ![s].got = IF url.of = s /\ url.kind = "code" THEN s ELSE @]
  /\ UNCHANGED <<sent, pages, tokenVars>>

\* The next link: the code that came with the own state, or an error, whose state
\* nobody looks at. All else is skipped. Who has fallen behind gets an error.
Receive(s) ==
  /\ Waits(s) /\ Unread(s) > 0
  /\ LET url == sent[session[s].read + 1]
         own == url.kind = "code" /\ url.of = s
     IN IF Unread(s) > Capacity \/ url.kind = "error" THEN Fails(s)
        ELSE session' = [session EXCEPT ![s].read = @ + 1,
                                        ![s].pc = IF own THEN "redeem" ELSE @,
                                        ![s].got = IF own THEN s ELSE @]
  /\ UNCHANGED <<sent, pages, tokenVars>>

\* Mutant: there is no limit.
TimeoutNever(s) == FALSE /\ UNCHANGED vars

\* 15 minutes. The links that are there are looked at first.
Timeout(s) ==
  /\ Waits(s) /\ Unread(s) = 0
  /\ session' = [session EXCEPT ![s].pc = "failed", ![s].timedOut = TRUE]
  /\ UNCHANGED <<sent, pages, tokenVars>>

\* The code for a refresh token; the server knows the verifier of its page only.
Redeem(s) ==
  /\ session[s].pc = "redeem"
  /\ \/ /\ session[s].got = s /\ issued < MaxTokens
        /\ session' = [session EXCEPT ![s] = [Unopened EXCEPT !.pc = "store", !.got = s,
                                                             !.token = issued + 1]]
        /\ issued' = issued + 1
     \/ Fails(s) /\ UNCHANGED issued
  /\ UNCHANGED <<sent, pages, call, key, writes, asked, deletes, latest, mislaid>>

\* connect_onedrive waits for the keychain before there is a backend.
Store(s) ==
  /\ session[s].pc = "store"
  /\ \/ /\ Sets(s, "open")
        /\ key' = [token |-> session[s].token, by |-> asked + 1]
        /\ asked' = asked + 1
        /\ latest' = session[s].token
     \/ /\ Fails(s)
        /\ UNCHANGED <<key, asked, latest>>
  /\ UNCHANGED <<sent, pages, call, writes, issued, deletes, mislaid>>

\* Mutant: nothing saved is taken for a token.
ConnectUnchecked(s) ==
  /\ session[s].pc = "idle"
  /\ session' = [session EXCEPT ![s].pc = "open", ![s].token = key.token]
  /\ UNCHANGED <<sent, pages, tokenVars>>

\* connect_bookmark: a provider with the saved token; the server is not asked.
Connect(s) ==
  /\ session[s].pc = "idle"
  /\ IF key.token # 0
     THEN session' = [session EXCEPT ![s].pc = "open", ![s].token = key.token]
     ELSE Fails(s)
  /\ UNCHANGED <<sent, pages, tokenVars>>

----------------------------------------------------------------------------
\* access_token: the lock, and under it the cached token or a new one.
Ask(c) ==
  /\ call[c].pc = "idle"
  /\ \E s \in Sessions :
       /\ session[s].pc = "open"
       /\ call' = [call EXCEPT ![c] = [Quiet EXCEPT !.pc = "lock", !.of = s]]
  /\ UNCHANGED <<session, sent, pages, key, writes, issued, asked, deletes, latest, mislaid>>

Holds(c, s) == call[c].of = s /\ call[c].pc \in {"refresh", "granted"}

\* Mutant: the lock is not held while the server is asked.
LockBriefly(c) ==
  /\ call[c].pc = "lock"
  /\ call' = [call EXCEPT ![c] = IF session[call[c].of].fresh THEN Quiet ELSE [@ EXCEPT !.pc = "refresh"]]
  /\ UNCHANGED <<session, sent, pages, key, writes, issued, asked, deletes, latest, mislaid>>

Lock(c) ==
  /\ call[c].pc = "lock"
  /\ \A d \in Callers : ~Holds(d, call[c].of)
  /\ call' = [call EXCEPT ![c] = IF session[call[c].of].fresh THEN Quiet ELSE [@ EXCEPT !.pc = "refresh"]]
  /\ UNCHANGED <<session, sent, pages, key, writes, issued, asked, deletes, latest, mislaid>>

\* The server answers with an access token, and with a new refresh token or not.
Grant(c) ==
  /\ call[c].pc = "refresh"
  /\ \E rotated \in IF issued < MaxTokens THEN {0, issued + 1} ELSE {0} :
       /\ call' = [call EXCEPT ![c].pc = "granted", ![c].token = rotated]
       /\ issued' = IF rotated = 0 THEN issued ELSE rotated
  /\ UNCHANGED <<session, sent, pages, key, writes, asked, deletes, latest, mislaid>>

\* The server or the network refuses, or the caller is dropped while it waits: a
\* rotated token that nobody took is lost, and the one before is used again.
Refuse(c) ==
  /\ call[c].pc \in {"lock", "refresh", "granted"}
  /\ call' = [call EXCEPT ![c] = Quiet]
  /\ UNCHANGED <<session, sent, pages, key, writes, issued, asked, deletes, latest, mislaid>>

Cached(c) == [session EXCEPT ![call[c].of].fresh = TRUE,
                             ![call[c].of].token = IF call[c].token = 0 THEN @ ELSE call[c].token]

\* Mutant: on_rotate is not called.
TakeQuietly(c) ==
  /\ call[c].pc = "granted"
  /\ session' = Cached(c)
  /\ latest' = IF call[c].token = 0 THEN latest ELSE call[c].token
  /\ call' = [call EXCEPT ![c] = Quiet]
  /\ UNCHANGED <<sent, pages, key, writes, issued, asked, deletes, mislaid>>

\* A rotated token replaces the provider's, and on_rotate spawns its write.
Take(c) ==
  /\ call[c].pc = "granted"
  /\ session' = Cached(c)
  /\ IF call[c].token = 0
     THEN UNCHANGED <<writes, asked, latest>>
     ELSE /\ writes' = writes \cup {[token |-> call[c].token, by |-> asked + 1]}
          /\ asked' = asked + 1
          /\ latest' = call[c].token
  /\ call' = [call EXCEPT ![c] = Quiet]
  /\ UNCHANGED <<sent, pages, key, issued, deletes, mislaid>>

Expire(s) ==
  /\ session[s].fresh
  /\ session' = [session EXCEPT ![s].fresh = FALSE]
  /\ UNCHANGED <<sent, pages, tokenVars>>

\* The spawned writes run when they run; that one fails is not reported.
Land ==
  \E w \in writes :
    /\ writes' = writes \ {w}
    /\ \/ /\ key' = w
          /\ mislaid' = (mislaid \/ w.by < key.by)
       \/ /\ mislaid' = TRUE
          /\ UNCHANGED key
    /\ UNCHANGED <<session, sent, pages, call, issued, asked, deletes, latest>>

\* bookmark_delete; sessions stay open.
Delete ==
  /\ deletes < MaxDeletes
  /\ deletes' = deletes + 1
  /\ key' = [token |-> 0, by |-> asked + 1]
  /\ asked' = asked + 1
  /\ latest' = 0
  /\ UNCHANGED <<session, sent, pages, call, writes, issued, mislaid>>

\* The program ends; the writes that have not landed never do.
Crash ==
  /\ \E s \in Sessions : session[s].pc # "idle"
  /\ session' = [s \in Sessions |->
                   IF session[s].pc \in {"idle", "failed"} THEN session[s]
                   ELSE [Unopened EXCEPT !.pc = "failed"]]
  /\ call' = [c \in Callers |-> Quiet]
  /\ writes' = {}
  /\ mislaid' = (mislaid \/ writes # {})
  /\ UNCHANGED <<sent, pages, key, issued, asked, deletes, latest>>

Login(s) == Subscribe(s) \/ OpenBrowser(s) \/ Receive(s) \/ Timeout(s) \/ Redeem(s) \/ Store(s)
AccessToken(c) == Ask(c) \/ Lock(c) \/ Grant(c) \/ Refuse(c) \/ Take(c)

Next ==
  \/ \E s \in Sessions : Login(s) \/ Connect(s) \/ Answer(s) \/ Expire(s)
  \/ \E c \in Callers : AccessToken(c)
  \/ Junk \/ Land \/ Delete \/ Crash

\* A link that has come is read, and the timer runs out. Nothing is assumed of
\* the user, the server or the keychain.
Fairness == \A s \in Sessions : WF_vars(Receive(s)) /\ WF_vars(Timeout(s))

Spec == Init /\ [][Next]_vars /\ Fairness

----------------------------------------------------------------------------
\* The state; a provider has a refresh token from the start.
TypeOK ==
  /\ session \in [Sessions ->
       [pc : {"idle", "subscribed", "waiting", "redeem", "store", "open", "failed"},
        from : 0..Len(sent), read : 0..Len(sent), got : Sessions \cup {NoSession},
        timedOut : BOOLEAN, token : 0..issued, fresh : BOOLEAN]]
  /\ sent \in Seq([kind : {"code", "error", "junk"}, of : Sessions \cup {NoSession}])
  /\ pages \subseteq Sessions
  /\ call \in [Callers -> [pc : {"idle", "lock", "refresh", "granted"},
                           of : Sessions \cup {NoSession}, token : 0..issued]]
  /\ key \in [token : 0..issued, by : 0..asked]
  /\ writes \subseteq [token : 1..issued, by : 1..asked]
  /\ issued \in 0..MaxTokens /\ deletes \in 0..MaxDeletes /\ asked \in Nat
  /\ latest \in 0..issued /\ mislaid \in BOOLEAN
  /\ \A s \in Sessions : session[s].pc = "open" => session[s].token # 0

\* A sign-in goes on only with the code of the page it opened itself, however
\* many pages of older sign-ins come back while it waits.
OwnCode == \A s \in Sessions : session[s].got \in {NoSession, s}

\* A sign-in times out only if its page had not come back, and no page had come
\* back with an error, since it asked the router.
TimedOutUnanswered ==
  \A s \in Sessions : session[s].timedOut =>
    \A i \in session[s].from + 1 .. session[s].read :
      sent[i].kind # "error" /\ ~(sent[i].kind = "code" /\ sent[i].of = s)

\* Every wait for the browser ends, whatever the user does.
LoginsEnd == \A s \in Sessions : Waits(s) ~> ~Waits(s)

\* A provider never goes back to an older refresh token, however many callers
\* found its access token expired at the same time.
NeverOlder ==
  [][\A s \in Sessions : session[s].pc = "open" /\ session'[s].pc = "open" =>
       session'[s].token >= session[s].token]_vars

\* When no write is on its way, the keychain has the token the app was given last,
\* or none after a delete: the next start can sign in with it. Excepted is what the
\* program's end, a failing keychain or an overtaken write has mislaid.
NewestStored == writes = {} /\ ~mislaid => key.token = latest
==============================================================================
