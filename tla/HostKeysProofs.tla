---------------------------- MODULE HostKeysProofs ----------------------------
(***************************************************************************)
(* Lemmas about HostKeys: one invariant, and that every step of a handshake   *)
(* keeps it, for any number of clients and keys. SavedConnectionsProofs draws  *)
(* the theorems from it.                                                       *)
(***************************************************************************)
EXTENDS HostKeys, TLAPS

ConnPC == {"none", "load", "secret", "ready", "dial", "asked", "trusted", "pin", "auth", "open",
           "failed"}
ConnType == [pc : ConnPC, trust : Keys \cup {NoKey}, remember : BOOLEAN,
             seen : Keys \cup {NoKey}, warned : BOOLEAN, stale : BOOLEAN]

\* A key that the file K has another one of the same algorithm for.
Differs(k, K) == \E l \in K : SameAlgorithm(k, l) /\ l # k

\* What one attempt knows, beside the keys K in the file and those approved, A.
ConnOK(r, K, A) ==
  /\ r.trust \in A \cup {NoKey}
  /\ r.remember => r.trust # NoKey
  /\ r.pc = "pin" => r.remember
  /\ r.pc = "pin" /\ ~r.stale => ~Differs(r.trust, K)
  /\ r.pc = "asked" => r.seen \in Keys
  /\ r.pc \in {"trusted", "pin", "auth", "open"} => r.seen \in A

KeyInv ==
  /\ presents \in Keys
  /\ known \subseteq approved /\ approved \subseteq Keys /\ crossed \subseteq known
  /\ conn \in [Clients -> ConnType]
  /\ \A a \in Clients : ConnOK(conn[a], known, approved)
  /\ OnePin

LEMMA KeyInvImplies == KeyInv => KeyTypeOK /\ OnlyApprovedKeys /\ OnePin
  BY DEF KeyInv, KeyTypeOK, OnlyApprovedKeys, ConnOK, ConnType, ConnPC

LEMMA RecordType ==
  ASSUME NEW pc \in ConnPC, NEW trust \in Keys \cup {NoKey}, NEW remember \in BOOLEAN
  PROVE  [pc |-> pc, trust |-> trust, remember |-> remember, seen |-> NoKey,
          warned |-> FALSE, stale |-> FALSE] \in ConnType
  BY DEF ConnType

LEMMA FreshType ==
  ASSUME NEW pc \in ConnPC, NEW trust \in Keys \cup {NoKey}, NEW remember \in BOOLEAN,
         NEW r, r = [Unconnected EXCEPT !.pc = pc, !.remember = remember, !.trust = trust]
  PROVE  /\ r = [pc |-> pc, trust |-> trust, remember |-> remember, seen |-> NoKey,
                 warned |-> FALSE, stale |-> FALSE]
         /\ r \in ConnType
<1>1. r = [pc |-> pc, trust |-> trust, remember |-> remember, seen |-> NoKey,
           warned |-> FALSE, stale |-> FALSE]
  BY DEF Unconnected
<1>2. [pc |-> pc, trust |-> trust, remember |-> remember, seen |-> NoKey,
       warned |-> FALSE, stale |-> FALSE] \in ConnType
  BY RecordType
<1>. QED  BY <1>1, <1>2

LEMMA FailedConn ==
  ASSUME NEW r, r = [Unconnected EXCEPT !.pc = "failed"]
  PROVE  r \in ConnType /\ \A K, A : ConnOK(r, K, A)
<1>1. r = [pc |-> "failed", trust |-> NoKey, remember |-> FALSE, seen |-> NoKey,
           warned |-> FALSE, stale |-> FALSE]
  BY DEF Unconnected
<1>2. r \in ConnType
  BY <1>1, RecordType DEF ConnPC
<1>3. \A K, A : ConnOK(r, K, A)
  BY <1>1 DEF ConnOK
<1>. QED  BY <1>2, <1>3

LEMMA UnconnectedOK == Unconnected \in ConnType /\ \A K, A : ConnOK(Unconnected, K, A)
<1>1. Unconnected \in ConnType
  BY DEF Unconnected, ConnType, ConnPC
<1>2. \A K, A : ConnOK(Unconnected, K, A)
  BY DEF Unconnected, ConnOK
<1>. QED  BY <1>1, <1>2

LEMMA KeyInitInv == KeyInit => KeyInv
<1> SUFFICES ASSUME KeyInit PROVE KeyInv
  OBVIOUS
<1>1. presents \in Keys /\ known \subseteq Keys /\ approved = known /\ crossed = {}
  BY DEF KeyInit
<1>2. OnePin
  BY DEF KeyInit, OnePin
<1>3. conn \in [Clients -> ConnType] /\ \A a \in Clients : ConnOK(conn[a], known, approved)
  BY UnconnectedOK DEF KeyInit
<1>. QED  BY <1>1, <1>2, <1>3 DEF KeyInv

\* A step of one attempt that leaves the file alone.
LEMMA OneConn ==
  ASSUME KeyInv, NEW a \in Clients,
         presents' \in Keys, UNCHANGED <<known, crossed>>,
         approved \subseteq approved', approved' \subseteq Keys,
         conn' \in [Clients -> ConnType],
         \A b \in Clients \ {a} : conn'[b] = conn[b],
         ConnOK(conn'[a], known, approved')
  PROVE  KeyInv'
<1>1. \A b \in Clients : ConnOK(conn'[b], known, approved')
  BY DEF KeyInv, ConnOK
<1>. QED  BY <1>1 DEF KeyInv, OnePin

LEMMA FailsKeeps ==
  ASSUME KeyInv, NEW a \in Clients, Fails(a), UNCHANGED <<presents, known, approved, crossed>>
  PROVE  KeyInv'
<1>1. PICK r : r = [Unconnected EXCEPT !.pc = "failed"] /\ conn' = [conn EXCEPT ![a] = r]
  BY DEF Fails
<1>2. r \in ConnType /\ ConnOK(r, known, approved')
  BY <1>1, FailedConn
<1>3. /\ conn' \in [Clients -> ConnType] /\ conn'[a] = r
      /\ \A b \in Clients \ {a} : conn'[b] = conn[b]
  BY <1>1, <1>2 DEF KeyInv
<1>. QED  BY <1>2, <1>3, OneConn DEF KeyInv

\* What a client did before it dials, or after it was let in, changes no key.
LEMMA MovesKeeps ==
  ASSUME KeyInv, NEW a \in Clients, NEW pc \in ConnPC, Moves(a, pc),
         pc = "asked" => conn[a].pc = "asked",
         pc = "pin" => conn[a].pc = "pin",
         pc \in {"trusted", "auth", "open"} => conn[a].pc \in {"trusted", "pin", "auth", "open"},
         UNCHANGED <<presents, known, approved, crossed>>
  PROVE  KeyInv'
<1>1. conn' = [conn EXCEPT ![a].pc = pc] /\ conn \in [Clients -> ConnType]
  BY DEF Moves, KeyInv
<1>2. conn' \in [Clients -> ConnType]
  BY <1>1 DEF ConnType
<1>3. /\ conn'[a].pc = pc /\ conn'[a].trust = conn[a].trust /\ conn'[a].seen = conn[a].seen
      /\ conn'[a].remember = conn[a].remember /\ conn'[a].stale = conn[a].stale
      /\ \A b \in Clients \ {a} : conn'[b] = conn[b]
  BY <1>1 DEF ConnType
<1>4. ConnOK(conn[a], known, approved)
  BY DEF KeyInv
<1>5. ConnOK(conn'[a], known, approved')
  BY <1>3, <1>4 DEF ConnOK
<1>. QED  BY <1>2, <1>3, <1>5, OneConn DEF KeyInv

----------------------------------------------------------------------------
LEMMA VerifyKeeps == ASSUME KeyInv, NEW a \in Clients, Verify(a) PROVE KeyInv'
<1>1. PICK pc \in {"trusted", "asked"}, warned \in BOOLEAN :
        /\ conn' = [conn EXCEPT ![a].pc = pc, ![a].seen = presents, ![a].warned = warned]
        /\ pc = "trusted" => Classify(presents) = "known"
  BY DEF Verify
<1>2. conn \in [Clients -> ConnType] /\ presents \in Keys
  BY DEF KeyInv
<1>3. conn' \in [Clients -> ConnType]
  <2>1. pc \in ConnPC
    BY DEF ConnPC
  <2>2. CASE warned
    <3>1. conn' = [conn EXCEPT ![a].pc = pc, ![a].seen = presents, ![a].warned = TRUE]
      BY <1>1, <2>2
    <3>. QED  BY <3>1, <1>2, <2>1 DEF ConnType
  <2>3. CASE ~warned
    <3>1. conn' = [conn EXCEPT ![a].pc = pc, ![a].seen = presents, ![a].warned = FALSE]
      BY <1>1, <2>3
    <3>. QED  BY <3>1, <1>2, <2>1 DEF ConnType
  <2>. QED  BY <2>2, <2>3
<1>4. /\ conn'[a].pc = pc /\ conn'[a].trust = conn[a].trust /\ conn'[a].seen = presents
      /\ conn'[a].remember = conn[a].remember
      /\ \A b \in Clients \ {a} : conn'[b] = conn[b]
  BY <1>1, <1>2 DEF ConnType
<1>5. pc = "trusted" => presents \in approved
  BY <1>1 DEF Classify, KeyInv
<1>6. ConnOK(conn'[a], known, approved)
  BY <1>2, <1>4, <1>5 DEF ConnOK, KeyInv
<1>. QED  BY <1>3, <1>4, <1>6, OneConn DEF KeyInv, Verify

LEMMA TrustKeeps == ASSUME KeyInv, NEW a \in Clients, Trust(a) PROVE KeyInv'
<1>1. CASE presents # conn[a].trust
  BY <1>1, FailsKeeps DEF Trust
<1>2. CASE presents = conn[a].trust
  <2>1. conn' = [conn EXCEPT ![a].pc = "trusted", ![a].seen = presents]
    BY <1>2 DEF Trust
  <2>2. conn \in [Clients -> ConnType] /\ presents \in Keys
    BY DEF KeyInv
  <2>3. conn' \in [Clients -> ConnType]
    BY <2>1, <2>2 DEF ConnType, ConnPC
  <2>4. /\ conn'[a].pc = "trusted" /\ conn'[a].trust = conn[a].trust
        /\ conn'[a].seen = presents /\ conn'[a].remember = conn[a].remember
        /\ \A b \in Clients \ {a} : conn'[b] = conn[b]
    BY <2>1, <2>2 DEF ConnType
  <2>5. presents \in approved
    BY <1>2 DEF KeyInv, ConnOK, Trust
  <2>6. ConnOK(conn'[a], known, approved)
    BY <2>4, <2>5 DEF ConnOK, KeyInv
  <2>. QED  BY <2>3, <2>4, <2>6, OneConn DEF KeyInv, Trust
<1>. QED  BY <1>1, <1>2

LEMMA RememberKeeps == ASSUME KeyInv, NEW a \in Clients, Remember(a) PROVE KeyInv'
<1>1. PICK pc \in {"auth", "pin"} :
        /\ conn' = [conn EXCEPT ![a].pc = pc, ![a].stale = FALSE]
        /\ pc = "pin" => Classify(conn[a].trust) # "changed"
  BY DEF Remember
<1>2. conn \in [Clients -> ConnType] /\ conn[a].remember /\ conn[a].pc = "trusted"
  BY DEF KeyInv, Remember
<1>3. conn' \in [Clients -> ConnType]
  BY <1>1, <1>2 DEF ConnType, ConnPC
<1>4. /\ conn'[a].pc = pc /\ conn'[a].trust = conn[a].trust /\ conn'[a].seen = conn[a].seen
      /\ conn'[a].remember = conn[a].remember
      /\ \A b \in Clients \ {a} : conn'[b] = conn[b]
  BY <1>1, <1>2 DEF ConnType
<1>5. pc = "pin" => ~Differs(conn[a].trust, known)
  BY <1>1 DEF Classify, Differs
<1>6. ConnOK(conn'[a], known, approved)
  BY <1>1, <1>2, <1>4, <1>5 DEF ConnOK, KeyInv
<1>. QED  BY <1>3, <1>4, <1>6, OneConn DEF KeyInv, Remember

\* Another client that is about to write is marked as stale.
LEMMA LearnKeeps == ASSUME KeyInv, NEW a \in Clients, Learn(a) PROVE KeyInv'
<1>1. CASE Moves(a, "auth") /\ UNCHANGED <<known, crossed>>
  BY <1>1, MovesKeeps DEF Learn, ConnPC
<1>2. CASE ~(Moves(a, "auth") /\ UNCHANGED <<known, crossed>>)
  <2>. DEFINE k == conn[a].trust
  <2>1. /\ conn[a].pc = "pin" /\ known' = known \cup {k}
        /\ crossed' = IF conn[a].stale THEN crossed \cup {k} ELSE crossed
        /\ conn' = [b \in Clients |->
                      IF b = a THEN [conn[b] EXCEPT !.pc = "auth"]
                      ELSE [conn[b] EXCEPT !.stale = @ \/ conn[b].pc = "pin"]]
        /\ UNCHANGED <<presents, approved>>
    BY <1>2 DEF Learn
  <2>2. conn \in [Clients -> ConnType] /\ \A b \in Clients : ConnOK(conn[b], known, approved)
    BY DEF KeyInv
  <2>3. k \in approved
    BY <2>1, <2>2 DEF ConnOK
  <2>4. conn' \in [Clients -> ConnType]
    <3> SUFFICES ASSUME NEW b \in Clients PROVE conn'[b] \in ConnType
      BY <2>1
    <3>1. conn[b] \in ConnType /\ (conn[b].stale \/ conn[b].pc = "pin") \in BOOLEAN
      BY <2>2
    <3>2. CASE b = a
      BY <2>1, <3>1, <3>2 DEF ConnType, ConnPC
    <3>3. CASE b # a
      <4>1. PICK x \in BOOLEAN : conn'[b] = [conn[b] EXCEPT !.stale = x]
        BY <2>1, <3>1, <3>3
      <4>. QED  BY <3>1, <4>1 DEF ConnType
    <3>. QED  BY <3>2, <3>3
  <2>5. ASSUME NEW b \in Clients PROVE ConnOK(conn'[b], known', approved')
    <3>1. conn[b] \in ConnType /\ ConnOK(conn[b], known, approved)
      BY <2>2
    <3>2. CASE b = a
      <4>1. conn'[b] = [conn[b] EXCEPT !.pc = "auth"]
        BY <2>1, <3>2
      <4>2. /\ conn'[b].pc = "auth" /\ conn'[b].trust = conn[b].trust
            /\ conn'[b].seen = conn[b].seen /\ conn'[b].remember = conn[b].remember
        BY <3>1, <4>1 DEF ConnType
      <4>. QED  BY <2>1, <3>1, <3>2, <4>2 DEF ConnOK
    <3>3. CASE b # a
      <4>1. conn'[b] = [conn[b] EXCEPT !.stale = @ \/ conn[b].pc = "pin"]
        BY <2>1, <3>3
      <4>2. /\ conn'[b].pc = conn[b].pc /\ conn'[b].trust = conn[b].trust
            /\ conn'[b].seen = conn[b].seen /\ conn'[b].remember = conn[b].remember
            /\ (conn[b].pc = "pin" => conn'[b].stale)
        BY <3>1, <4>1 DEF ConnType
      <4>. QED  BY <2>1, <3>1, <4>2 DEF ConnOK
    <3>. QED  BY <3>2, <3>3
  <2>6. OnePin'
    <3> SUFFICES ASSUME NEW i \in known', NEW j \in known', SameAlgorithm(i, j), i # j
                 PROVE  {i, j} \cap crossed' # {}
      BY DEF OnePin
    <3>1. CASE i \in known /\ j \in known
      BY <2>1, <3>1 DEF KeyInv, OnePin
    <3>2. CASE conn[a].stale /\ (i = k \/ j = k)
      BY <2>1, <3>2
    <3>3. CASE ~conn[a].stale /\ (i = k \/ j = k)
      <4>1. ~Differs(k, known)
        BY <2>1, <2>2, <3>3 DEF ConnOK
      <4>2. SameAlgorithm(j, i)
        BY DEF SameAlgorithm
      <4>. QED  BY <2>1, <3>3, <4>1, <4>2 DEF Differs
    <3>. QED  BY <2>1, <3>1, <3>2, <3>3
  <2>7. known' \subseteq approved' /\ approved' \subseteq Keys /\ crossed' \subseteq known'
        /\ presents' \in Keys
    BY <2>1, <2>3 DEF KeyInv
  <2>. QED  BY <2>4, <2>5, <2>6, <2>7 DEF KeyInv
<1>. QED  BY <1>1, <1>2

LEMMA ApproveKeeps == ASSUME KeyInv, NEW a \in Clients, Approve(a) PROVE KeyInv'
<1>1. conn \in [Clients -> ConnType] /\ conn[a].seen \in Keys
  BY DEF KeyInv, ConnOK, Approve
<1>2. PICK remember \in BOOLEAN :
        conn' = [conn EXCEPT ![a] = [Unconnected EXCEPT !.pc = "load", !.remember = remember,
                                                        !.trust = conn[a].seen]]
  BY DEF Approve
<1>3. PICK r : /\ r = [Unconnected EXCEPT !.pc = "load", !.remember = remember,
                                          !.trust = conn[a].seen]
               /\ conn' = [conn EXCEPT ![a] = r]
  BY <1>2
<1>p. "load" \in ConnPC /\ conn[a].seen \in Keys \cup {NoKey}
  BY <1>1 DEF ConnPC
<1>4. /\ r = [pc |-> "load", trust |-> conn[a].seen, remember |-> remember, seen |-> NoKey,
              warned |-> FALSE, stale |-> FALSE]
      /\ r \in ConnType
  BY <1>p, <1>3, FreshType
<1>5. /\ conn' \in [Clients -> ConnType] /\ conn'[a] = r
      /\ \A b \in Clients \ {a} : conn'[b] = conn[b]
  BY <1>1, <1>3, <1>4
<1>6. ConnOK(r, known, approved')
  BY <1>1, <1>4, KeyAssumption DEF ConnOK, Approve, Keys
<1>. QED  BY <1>1, <1>5, <1>6, OneConn DEF Approve, KeyInv

LEMMA KeyStepKeeps == ASSUME KeyInv, NEW a \in Clients, KeyStep(a) PROVE KeyInv'
<1>1. CASE ForgetIt(a)
  BY <1>1, MovesKeeps DEF ForgetIt, ConnPC
<1>2. CASE Authenticate(a)
  BY <1>2, MovesKeeps, FailsKeeps DEF Authenticate, ConnPC
<1>3. CASE Cancel(a) \/ GiveUp(a)
  BY <1>3, FailsKeeps DEF Cancel, GiveUp
<1>. QED
  BY <1>1, <1>2, <1>3, VerifyKeeps, TrustKeeps, RememberKeeps, LearnKeeps, ApproveKeeps DEF KeyStep

LEMMA NewKeyKeeps == KeyInv /\ NewKey => KeyInv'
  BY DEF KeyInv, NewKey, OnePin

LEMMA SameKeeps == KeyInv /\ UNCHANGED keyVars => KeyInv'
  BY DEF KeyInv, keyVars, OnePin
=============================================================================
