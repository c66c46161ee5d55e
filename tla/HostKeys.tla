------------------------------ MODULE HostKeys ------------------------------
(***************************************************************************)
(* The SFTP handshake and the app's known_hosts file, for one host: trust on *)
(* first use in two attempts. The first knows only the file, and ends with   *)
(* the key it was shown when that key is not in it; the user approves it;    *)
(* the second trusts exactly that key, and may add it to the file. In        *)
(* between the key may change: another machine answers.                      *)
(*                                                                           *)
(* The file list's window has one attempt at a time; the commands do not     *)
(* exclude one another, nor does the file have a lock, so several are here.  *)
(***************************************************************************)
EXTENDS Naturals, FiniteSets

CONSTANTS
  Clients,     \* tasks that may be under way together
  Ed, Rsa,    \* the host keys there are, of two algorithms
  NoKey

ASSUME KeyAssumption ==
  /\ Ed \cap Rsa = {}
  /\ NoKey \notin Ed \cup Rsa

Keys == Ed \cup Rsa
SameAlgorithm(k, l) == {k, l} \subseteq Ed \/ {k, l} \subseteq Rsa

VARIABLES
  presents,   \* the key the host shows now
  known,      \* the keys in the file
  conn,       \* the attempts to connect
  approved,   \* keys a user has approved (history)
  crossed     \* keys added by a remember that had read the file before another
              \* one changed it (history)

keyVars == <<presents, known, conn, approved, crossed>>

Unconnected == [pc |-> "none", trust |-> NoKey, remember |-> FALSE, seen |-> NoKey,
                warned |-> FALSE, stale |-> FALSE]
Shaking(a) == conn[a].pc \in {"dial", "trusted", "pin", "auth"}

KeyInit ==
  /\ presents \in Keys
  /\ \E k \in Keys : known \in {{}, {k}}
  /\ conn = [a \in Clients |-> Unconnected]
  /\ approved = known
  /\ crossed = {}

Moves(a, pc) == conn' = [conn EXCEPT ![a].pc = pc]
Fails(a) == conn' = [conn EXCEPT ![a] = [Unconnected EXCEPT !.pc = "failed"]]

----------------------------------------------------------------------------
\* A key of the same algorithm that differs is what "changed" means; one of
\* another algorithm is merely unknown.
Classify(k) ==
  IF \E l \in known : SameAlgorithm(k, l) /\ l # k THEN "changed"
  ELSE IF k \in known THEN "known" ELSE "unknown"

\* First attempt: a known key goes on. Any other is kept for the user to see and
\* the handshake refused; nothing is sent to the host.
Verify(a) ==
  /\ conn[a].pc = "dial" /\ conn[a].trust = NoKey
  /\ LET status == Classify(presents)
     IN conn' = [conn EXCEPT ![a].pc = IF status = "known" THEN "trusted" ELSE "asked",
                             ![a].seen = presents,
                             ![a].warned = status = "changed"]
  /\ UNCHANGED <<presents, known, approved, crossed>>

\* Mutant: the user said yes, so whatever key the host shows now is trusted.
TrustAny(a) ==
  /\ conn[a].pc = "dial" /\ conn[a].trust # NoKey
  /\ conn' = [conn EXCEPT ![a].pc = "trusted", ![a].seen = presents]
  /\ UNCHANGED <<presents, known, approved, crossed>>

\* Second attempt: only the very key that was approved.
Trust(a) ==
  /\ conn[a].pc = "dial" /\ conn[a].trust # NoKey
  /\ IF presents = conn[a].trust
     THEN conn' = [conn EXCEPT ![a].pc = "trusted", ![a].seen = presents]
     ELSE Fails(a)
  /\ UNCHANGED <<presents, known, approved, crossed>>

\* Mutant: the store takes any key it is told to remember.
RememberUnchecked(a) ==
  /\ conn[a].pc = "trusted" /\ conn[a].remember
  /\ conn' = [conn EXCEPT ![a].pc = "pin", ![a].stale = FALSE]
  /\ UNCHANGED <<presents, known, approved, crossed>>

\* remember() looks at the file before it adds a line, and refuses a key that
\* differs from one it has. That it was refused is not reported.
Remember(a) ==
  /\ conn[a].pc = "trusted" /\ conn[a].remember
  /\ conn' = [conn EXCEPT ![a].pc = IF Classify(conn[a].trust) = "changed" THEN "auth" ELSE "pin",
                          ![a].stale = FALSE]
  /\ UNCHANGED <<presents, known, approved, crossed>>

\* The line is added, or cannot be written, which is not reported either.
Learn(a) ==
  /\ conn[a].pc = "pin"
  /\ \/ /\ known' = known \cup {conn[a].trust}
        /\ crossed' = IF conn[a].stale THEN crossed \cup {conn[a].trust} ELSE crossed
        /\ conn' = [b \in Clients |-> IF b = a THEN [conn[b] EXCEPT !.pc = "auth"]
                                     ELSE [conn[b] EXCEPT !.stale = @ \/ conn[b].pc = "pin"]]
     \/ Moves(a, "auth") /\ UNCHANGED <<known, crossed>>
  /\ UNCHANGED <<presents, approved>>

ForgetIt(a) ==
  /\ conn[a].pc = "trusted" /\ ~conn[a].remember
  /\ Moves(a, "auth")
  /\ UNCHANGED <<presents, known, approved, crossed>>

\* The password, or the keys of the agent or the key file one after the other,
\* until the server takes one; then the channel and the SFTP session.
Authenticate(a) ==
  /\ conn[a].pc = "auth"
  /\ Moves(a, "open") \/ Fails(a)
  /\ UNCHANGED <<presents, known, approved, crossed>>

\* The dialog. A key that replaces another one is never offered to be remembered.
Approve(a) ==
  /\ conn[a].pc = "asked"
  /\ \E remember \in BOOLEAN :
       /\ remember => ~conn[a].warned
       /\ conn' = [conn EXCEPT ![a] = [Unconnected EXCEPT !.pc = "load", !.remember = remember,
                                                          !.trust = conn[a].seen]]
  /\ approved' = approved \cup {conn[a].seen}
  /\ UNCHANGED <<presents, known, crossed>>

Cancel(a) ==
  /\ conn[a].pc = "asked"
  /\ Fails(a)
  /\ UNCHANGED <<presents, known, approved, crossed>>

\* The network fails, the file cannot be read, or 120 s have passed.
GiveUp(a) ==
  /\ Shaking(a)
  /\ Fails(a)
  /\ UNCHANGED <<presents, known, approved, crossed>>

\* The server is reinstalled, or another machine answers.
NewKey ==
  /\ \E a \in Clients : conn[a].pc \in {"load", "asked"} \/ Shaking(a)
  /\ presents' \in Keys \ {presents}
  /\ UNCHANGED <<known, conn, approved, crossed>>

KeyStep(a) ==
  \/ Verify(a) \/ Trust(a)
  \/ Remember(a) \/ Learn(a) \/ ForgetIt(a)
  \/ Authenticate(a) \/ Approve(a) \/ Cancel(a) \/ GiveUp(a)

----------------------------------------------------------------------------
KeyTypeOK ==
  /\ presents \in Keys
  /\ known \subseteq Keys
  /\ conn \in [Clients -> [pc : {"none", "load", "secret", "ready", "dial", "asked", "trusted", "pin", "auth",
                                 "open", "failed"},
                          trust : Keys \cup {NoKey}, remember : BOOLEAN,
                          seen : Keys \cup {NoKey}, warned : BOOLEAN, stale : BOOLEAN]]
  /\ approved \subseteq Keys
  /\ crossed \subseteq known

\* The client authenticates only to a key the user has approved, in this attempt
\* or when it was pinned, whatever the host shows between the two attempts; and
\* nothing gets into the file that nobody approved.
OnlyApprovedKeys ==
  /\ known \subseteq approved
  /\ \A a \in Clients : conn[a].pc \in {"auth", "open"} => conn[a].seen \in approved

\* The file never has two keys of one algorithm for the host, after which every
\* connection would be refused as changed, unless two attempts to remember one
\* had both read it before either wrote.
OnePin ==
  \A k, l \in known : SameAlgorithm(k, l) /\ k # l => {k, l} \cap crossed # {}
==============================================================================
