-------------------------- MODULE ObjectTreeProofs --------------------------
(***************************************************************************)
(* Proofs about ObjectTree, for any finite tree of names, any number of     *)
(* commands and any first contents. The inductive invariant has five parts: *)
(* what is born is Numbered, a command's record is Fit for its step, on a   *)
(* server with folders the entries are Orderly (each has its parent, and    *)
(* none is at two paths), an undisturbed command has Known what is at its   *)
(* paths, and the contents are AllKept. Steps are sorted by what they do to *)
(* the entries: nothing, add or take away files, copy one, move one.        *)
(***************************************************************************)
EXTENDS ObjectTree, FiniteSetTheorems, FunctionTheorems, TLAPS

----------------------------------------------------------------------------
(* Paths: a name at the top, or a name and one below it. *)

LEMMA Tuples ==
  ASSUME NEW a, NEW b
  PROVE  /\ Len(<<a>>) = 1 /\ Len(<<a, b>>) = 2 /\ Len(<<>>) = 0
         /\ <<a>>[1] = a /\ <<a, b>>[1] = a /\ <<a, b>>[2] = b
         /\ SubSeq(<<a>>, 1, 0) = <<>> /\ SubSeq(<<a, b>>, 1, 0) = <<>>
         /\ SubSeq(<<a, b>>, 1, 1) = <<a>> /\ SubSeq(<<a, b>>, 2, 2) = <<b>>
         /\ SubSeq(<<a>>, 2, 1) = <<>> /\ SubSeq(<<a, b>>, 3, 2) = <<>>
<1>1. /\ Len(<<a>>) = 1 /\ Len(<<a, b>>) = 2 /\ Len(<<>>) = 0
      /\ <<a>>[1] = a /\ <<a, b>>[1] = a /\ <<a, b>>[2] = b
  OBVIOUS
<1>2. SubSeq(<<a>>, 1, 0) = <<>> /\ SubSeq(<<a, b>>, 1, 0) = <<>>
  OBVIOUS
<1>3. \A s \in Seq({a, b}) : Len(s) = 1 => s = <<s[1]>>
  OBVIOUS
<1>4. SubSeq(<<a, b>>, 1, 1) = <<a>>
  <2>1. /\ SubSeq(<<a, b>>, 1, 1) \in Seq({a, b}) /\ Len(SubSeq(<<a, b>>, 1, 1)) = 1
        /\ SubSeq(<<a, b>>, 1, 1)[1] = a
    OBVIOUS
  <2>. QED  BY <1>3, <2>1
<1>5. SubSeq(<<a, b>>, 2, 2) = <<b>>
  <2>1. /\ SubSeq(<<a, b>>, 2, 2) \in Seq({a, b}) /\ Len(SubSeq(<<a, b>>, 2, 2)) = 1
        /\ SubSeq(<<a, b>>, 2, 2)[1] = b
    OBVIOUS
  <2>. QED  BY <1>3, <2>1
<1>6. SubSeq(<<a>>, 2, 1) = <<>> /\ SubSeq(<<a, b>>, 3, 2) = <<>>
  OBVIOUS
<1>. QED  BY <1>1, <1>2, <1>4, <1>5, <1>6

LEMMA Whole ==
  ASSUME NEW a, NEW b
  PROVE  SubSeq(<<a>>, 1, 1) = <<a>> /\ SubSeq(<<a, b>>, 1, 2) = <<a, b>>
<1>1. \A s \in Seq({a, b}) : (Len(s) = 1 => s = <<s[1]>>) /\ (Len(s) = 2 => s = <<s[1], s[2]>>)
  OBVIOUS
<1>2. /\ SubSeq(<<a>>, 1, 1) \in Seq({a, b}) /\ Len(SubSeq(<<a>>, 1, 1)) = 1
      /\ SubSeq(<<a>>, 1, 1)[1] = a
  OBVIOUS
<1>3. /\ SubSeq(<<a, b>>, 1, 2) \in Seq({a, b}) /\ Len(SubSeq(<<a, b>>, 1, 2)) = 2
      /\ SubSeq(<<a, b>>, 1, 2)[1] = a /\ SubSeq(<<a, b>>, 1, 2)[2] = b
  OBVIOUS
<1>4. SubSeq(<<a>>, 1, 1) = <<a>>
  BY <1>1, <1>2
<1>5. SubSeq(<<a, b>>, 1, 2) = <<a, b>>
  BY <1>1, <1>3
<1>. QED  BY <1>4, <1>5

LEMMA Joined ==
  ASSUME NEW a, NEW b, NEW c
  PROVE  /\ <<a>> \o <<>> = <<a>> /\ <<a, b>> \o <<>> = <<a, b>>
         /\ <<a>> \o <<b>> = <<a, b>> /\ Len(<<a, b>> \o <<c>>) = 3
<1>1. <<a>> \o <<>> = <<a>>
  OBVIOUS
<1>2. <<a, b>> \o <<>> = <<a, b>>
  OBVIOUS
<1>3. /\ <<a>> \o <<b>> \in Seq({a, b}) /\ Len(<<a>> \o <<b>>) = 2
      /\ (<<a>> \o <<b>>)[1] = a /\ (<<a>> \o <<b>>)[2] = b
  OBVIOUS
<1>4. \A s \in Seq({a, b}) : Len(s) = 2 => s = <<s[1], s[2]>>
  OBVIOUS
<1>5. <<a>> \o <<b>> = <<a, b>>
  BY <1>3, <1>4
<1>6. Len(<<a, b>> \o <<c>>) = 3
  OBVIOUS
<1>. QED  BY <1>1, <1>2, <1>5, <1>6

LEMMA PathCases ==
  ASSUME NEW p \in Paths
  PROVE  \/ \E t \in Tops : p = <<t>>
         \/ \E t \in Tops : \E l \in Leaves : p = <<t, l>>
BY DEF Paths

LEMMA TopPath ==
  ASSUME NEW t \in Tops
  PROVE  /\ <<t>> \in Paths /\ Len(<<t>>) = 1
         /\ Parent(<<t>>) = <<>> /\ Last(<<t>>) = t
BY DEF Paths, Parent, Last

LEMMA LeafPath ==
  ASSUME NEW t \in Tops, NEW l \in Leaves
  PROVE  /\ <<t, l>> \in Paths /\ Len(<<t, l>>) = 2
         /\ Parent(<<t, l>>) = <<t>> /\ Last(<<t, l>>) = l
<1>1. <<t, l>> \in Paths
  BY DEF Paths
<1>2. Parent(<<t, l>>) = <<t>>
  BY Tuples DEF Parent
<1>. QED  BY <1>1, <1>2 DEF Last

LEMMA PathLength ==
  ASSUME NEW p \in Paths
  PROVE  /\ Len(p) = 1 \/ Len(p) = 2
         /\ Len(p) = 1 => \E t \in Tops : p = <<t>>
         /\ Len(p) = 2 => \E t \in Tops : \E l \in Leaves : p = <<t, l>>
<1>1. CASE \E t \in Tops : p = <<t>>
  BY <1>1, TopPath
<1>2. CASE \E t \in Tops : \E l \in Leaves : p = <<t, l>>
  BY <1>2, LeafPath
<1>. QED  BY <1>1, <1>2, PathCases

LEMMA BelowTop ==
  ASSUME NEW t \in Tops
  PROVE  \A q : q \in Below(<<t>>) <=> \E l \in Leaves : q = <<t, l>>
<1>1. ASSUME NEW q \in Below(<<t>>) PROVE \E l \in Leaves : q = <<t, l>>
  <2>1. q \in Paths /\ Len(q) > 1 /\ SubSeq(q, 1, 1) = <<t>>
    BY TopPath DEF Below
  <2>a. Len(q) # 1
    <3>1. \A n : n > 1 => n # 1
      OBVIOUS
    <3>. QED  BY <2>1, <3>1
  <2>2. PICK u \in Tops : \E l \in Leaves : q = <<u, l>>
    BY <2>1, <2>a, PathLength
  <2>3. PICK l \in Leaves : q = <<u, l>>
    BY <2>2
  <2>4. <<u>> = <<t>>
    BY <2>1, <2>3, Tuples
  <2>5. u = t
    BY <2>4
  <2>. QED  BY <2>3, <2>5
<1>2. ASSUME NEW l \in Leaves PROVE <<t, l>> \in Below(<<t>>)
  BY LeafPath, Tuples DEF Below
<1>. QED  BY <1>1, <1>2

LEMMA BelowLeaf ==
  ASSUME NEW t \in Tops, NEW l \in Leaves
  PROVE  Below(<<t, l>>) = {}
<1>1. \A q \in Below(<<t, l>>) : q \in Paths /\ Len(q) > 2
  BY LeafPath DEF Below
<1>2. ASSUME NEW q \in Paths PROVE ~(Len(q) > 2)
  <2>1. CASE Len(q) = 1
    BY <2>1
  <2>2. CASE Len(q) = 2
    BY <2>2
  <2>. QED  BY <2>1, <2>2, PathLength
<1>. QED  BY <1>1, <1>2

LEMMA RootPath ==
  /\ Below(<<>>) = Paths
  /\ \A p \in Paths : Parent(p) = <<>> <=> \E t \in Tops : p = <<t>>
  /\ <<>> \notin Paths
<1>1. ASSUME NEW p \in Paths PROVE Len(p) > 0 /\ SubSeq(p, 1, 0) = <<>>
  <2>1. CASE \E t \in Tops : p = <<t>>
    BY <2>1, Tuples
  <2>2. CASE \E t \in Tops : \E l \in Leaves : p = <<t, l>>
    BY <2>2, Tuples
  <2>. QED  BY <2>1, <2>2, PathCases
<1>2. Below(<<>>) = Paths
  BY <1>1 DEF Below
<1>3. \A p \in Paths : Parent(p) = <<>> <=> \E t \in Tops : p = <<t>>
  <2>1. ASSUME NEW t \in Tops PROVE Parent(<<t>>) = <<>>
    BY TopPath
  <2>2. ASSUME NEW t \in Tops, NEW l \in Leaves PROVE Parent(<<t, l>>) # <<>>
    BY LeafPath
  <2>. QED  BY <2>1, <2>2, PathCases
<1>4. <<>> \notin Paths
  BY <1>1, Tuples
<1>. QED  BY <1>2, <1>3, <1>4

\* A path has children or lies below another, never both; the parent holds it.
LEMMA Family ==
  ASSUME NEW p \in Paths
  PROVE  /\ Below(p) = Children(p)
         /\ p \notin Below(p)
         /\ Parent(p) # p
         /\ Parent(p) # <<>> => Parent(p) \in Paths /\ Parent(Parent(p)) = <<>> /\ p \in Below(Parent(p))
         /\ Parent(p) # <<>> => Below(p) = {}
         /\ \A q \in Below(p) : q \in Paths /\ Parent(q) = p
<1>1. CASE \E t \in Tops : p = <<t>>
  <2>1. PICK t \in Tops : p = <<t>>
    BY <1>1
  <2>2. ASSUME NEW q \in Paths PROVE q \in Below(p) <=> Parent(q) = p
    <3>1. CASE \E u \in Tops : q = <<u>>
      <4>1. Parent(q) = <<>>
        BY <3>1, TopPath
      <4>2. ~(Len(q) > Len(p))
        BY <3>1, <2>1, TopPath
      <4>. QED  BY <4>1, <4>2, <2>1, Tuples DEF Below
    <3>2. CASE \E u \in Tops : \E l \in Leaves : q = <<u, l>>
      <4>1. PICK u \in Tops : \E l \in Leaves : q = <<u, l>>
        BY <3>2
      <4>2. Parent(q) = <<u>>
        BY <4>1, LeafPath
      <4>3. q \in Below(p) <=> \E l \in Leaves : q = <<t, l>>
        BY <2>1, BelowTop
      <4>. QED  BY <4>1, <4>2, <4>3, <2>1
    <3>. QED  BY <3>1, <3>2, PathCases
  <2>3. Below(p) \subseteq Paths
    BY DEF Below
  <2>4. Below(p) = Children(p)
    BY <2>2, <2>3 DEF Children
  <2>5. p \notin Below(p) /\ Parent(p) = <<>> /\ p # <<>>
    BY <2>1, TopPath, RootPath DEF Below
  <2>. QED  BY <2>2, <2>3, <2>4, <2>5
<1>2. CASE \E t \in Tops : \E l \in Leaves : p = <<t, l>>
  <2>1. PICK t \in Tops : \E l \in Leaves : p = <<t, l>>
    BY <1>2
  <2>2. PICK l \in Leaves : p = <<t, l>>
    BY <2>1
  <2>3. Below(p) = {} /\ Parent(p) = <<t>> /\ Len(p) = 2
    BY <2>2, BelowLeaf, LeafPath
  <2>4. p \in Below(<<t>>) /\ <<t>> \in Paths /\ Parent(<<t>>) = <<>> /\ Len(<<t>>) = 1
    BY <2>2, BelowTop, TopPath
  <2>5. ASSUME NEW q \in Paths PROVE Parent(q) # p
    <3>1. CASE \E u \in Tops : q = <<u>>
      BY <3>1, TopPath, RootPath
    <3>2. CASE \E u \in Tops : \E m \in Leaves : q = <<u, m>>
      <4>1. PICK u \in Tops : Parent(q) = <<u>>
        BY <3>2, LeafPath
      <4>. QED  BY <4>1, <2>3, TopPath
    <3>. QED  BY <3>1, <3>2, PathCases
  <2>6. Children(p) = {}
    BY <2>5 DEF Children
  <2>. QED  BY <2>3, <2>4, <2>5, <2>6
<1>. QED  BY <1>1, <1>2, PathCases

----------------------------------------------------------------------------
(* Moving an entry takes what is below it along, and nothing else. *)

LEMMA OntoSelf ==
  ASSUME NEW q \in Paths, NEW r \in Paths
  PROVE  Onto(q, r, q) = r
<1>1. SubSeq(q, Len(q) + 1, Len(q)) = <<>>
  <2>1. CASE \E t \in Tops : q = <<t>>
    <3>1. PICK t \in Tops : q = <<t>>
      BY <2>1
    <3>2. Len(q) = 1 /\ SubSeq(q, 2, 1) = <<>>
      BY <3>1, Tuples
    <3>. QED  BY <3>2
  <2>2. CASE \E t \in Tops : \E l \in Leaves : q = <<t, l>>
    <3>1. PICK t \in Tops : \E l \in Leaves : q = <<t, l>>
      BY <2>2
    <3>2. Len(q) = 2 /\ SubSeq(q, 3, 2) = <<>>
      BY <3>1, Tuples
    <3>. QED  BY <3>2
  <2>. QED  BY <2>1, <2>2, PathCases
<1>2. r \o <<>> = r
  BY PathCases, Joined
<1>. QED  BY <1>1, <1>2 DEF Onto

LEMMA OntoTop ==
  ASSUME NEW t \in Tops, NEW u \in Tops, NEW l \in Leaves
  PROVE  Onto(<<t>>, <<u>>, <<t, l>>) = <<u, l>>
<1>1. Len(<<t>>) = 1 /\ Len(<<t, l>>) = 2 /\ SubSeq(<<t, l>>, 2, 2) = <<l>>
  BY Tuples
<1>2. SubSeq(<<t, l>>, Len(<<t>>) + 1, Len(<<t, l>>)) = <<l>>
  BY <1>1
<1>. QED  BY <1>2, Joined DEF Onto

LEMMA OntoLeaf ==
  ASSUME NEW t \in Tops, NEW u \in Tops, NEW l \in Leaves, NEW m \in Leaves
  PROVE  Onto(<<t>>, <<u, m>>, <<t, l>>) \notin Paths
<1>1. Len(<<t>>) = 1 /\ Len(<<t, l>>) = 2 /\ SubSeq(<<t, l>>, 2, 2) = <<l>>
  BY Tuples
<1>2. SubSeq(<<t, l>>, Len(<<t>>) + 1, Len(<<t, l>>)) = <<l>>
  BY <1>1
<1>3. Len(Onto(<<t>>, <<u, m>>, <<t, l>>)) = 3
  BY <1>2, Joined DEF Onto
<1>. QED  BY <1>3, PathLength

\* One entry on a server with folders, and a folder around every entry.
Tree ==
  \A p \in Paths : /\ store[p].file = 0 \/ store[p].dir = 0
                   /\ Taken(p) => Holds(Parent(p))

StoreTyped == born \in Nat /\ store \in [Paths -> [file : 0 .. born, dir : 0 .. born]]

\* Where what is at p comes from when q moves to r.
Whence(q, r, p) ==
  IF \E s \in {q} \cup Below(q) : Onto(q, r, s) = p
  THEN CHOOSE s \in {q} \cup Below(q) : Onto(q, r, s) = p
  ELSE p

LEMMA MovedAt ==
  ASSUME NEW q \in Paths, NEW r \in Paths, NEW p \in Paths
  PROVE  Moved(q, r)[p] = IF p = q \/ p \in Below(q) THEN Nothing ELSE store[Whence(q, r, p)]
BY DEF Moved, Whence

LEMMA WhenceIs ==
  ASSUME NEW q \in Paths, NEW r \in Paths \ Below(q), r # q, NEW p \in Paths
  PROVE  /\ Whence(q, r, p) \in Paths
         /\ \/ p = r /\ Whence(q, r, p) = q
            \/ \E t \in Tops, u \in Tops, l \in Leaves :
                 q = <<t>> /\ r = <<u>> /\ p = <<u, l>> /\ Whence(q, r, p) = <<t, l>>
            \/ Whence(q, r, p) = p /\ \A s \in {q} \cup Below(q) : Onto(q, r, s) # p
<1>1. CASE \A s \in {q} \cup Below(q) : Onto(q, r, s) # p
  BY <1>1 DEF Whence
<1>2. CASE \E s \in {q} \cup Below(q) : Onto(q, r, s) = p
  <2>1. PICK s : s \in {q} \cup Below(q) /\ Onto(q, r, s) = p /\ Whence(q, r, p) = s
    BY <1>2 DEF Whence
  <2>2. CASE s = q
    BY <2>1, <2>2, OntoSelf
  <2>3. CASE s \in Below(q)
    <3>1. PICK t \in Tops : q = <<t>>
      BY <2>3, PathCases, BelowLeaf
    <3>2. PICK l \in Leaves : s = <<t, l>>
      BY <2>3, <3>1, BelowTop
    <3>3. CASE \E u \in Tops : r = <<u>>
      <4>1. PICK u \in Tops : r = <<u>>
        BY <3>3
      <4>2. p = <<u, l>> /\ s \in Paths
        BY <2>1, <3>1, <3>2, <4>1, OntoTop, LeafPath
      <4>. QED  BY <2>1, <3>1, <3>2, <4>1, <4>2
    <3>4. CASE \E u \in Tops : \E m \in Leaves : r = <<u, m>>
      BY <3>1, <3>2, <3>4, <2>1, OntoLeaf
    <3>. QED  BY <3>3, <3>4, PathCases
  <2>. QED  BY <2>1, <2>2, <2>3
<1>. QED  BY <1>1, <1>2

LEMMA WhenceOnce ==
  ASSUME NEW q \in Paths, NEW r \in Paths \ Below(q), r # q,
         NEW p1 \in Paths \ ({q} \cup Below(q)), NEW p2 \in Paths \ ({q} \cup Below(q)),
         Whence(q, r, p1) = Whence(q, r, p2)
  PROVE  p1 = p2
<1>. DEFINE W(p) == Whence(q, r, p)
<1>1. ASSUME NEW t \in Tops, NEW l \in Leaves, q = <<t>> PROVE <<t, l>> \in Below(q) /\ <<t, l>> # q
  BY <1>1, BelowTop, Tuples
<1>2. ASSUME NEW p \in Paths \ ({q} \cup Below(q))
      PROVE  \/ p = r /\ W(p) = q
             \/ \E t \in Tops, u \in Tops, l \in Leaves :
                  q = <<t>> /\ r = <<u>> /\ p = <<u, l>> /\ W(p) = <<t, l>>
             \/ W(p) = p /\ W(p) \notin {q} \cup Below(q)
  BY <1>2, WhenceIs
<1>. HIDE DEF W
<1>3. W(p1) = W(p2)
  BY DEF W
<1>4. CASE p1 = r /\ W(p1) = q
  <2>1. ~\E t \in Tops, u \in Tops, l \in Leaves :
            q = <<t>> /\ r = <<u>> /\ p2 = <<u, l>> /\ W(p2) = <<t, l>>
    BY <1>1, <1>3, <1>4
  <2>. QED  BY <1>2, <1>3, <1>4, <2>1
<1>5. CASE W(p1) = p1 /\ W(p1) \notin {q} \cup Below(q)
  <2>1. ~\E t \in Tops, u \in Tops, l \in Leaves :
            q = <<t>> /\ r = <<u>> /\ p2 = <<u, l>> /\ W(p2) = <<t, l>>
    BY <1>1, <1>3, <1>5
  <2>. QED  BY <1>2, <1>3, <1>5, <2>1
<1>6. CASE \E t \in Tops, u \in Tops, l \in Leaves :
             q = <<t>> /\ r = <<u>> /\ p1 = <<u, l>> /\ W(p1) = <<t, l>>
  <2>1. PICK t \in Tops, u \in Tops, l \in Leaves :
             q = <<t>> /\ r = <<u>> /\ p1 = <<u, l>> /\ W(p1) = <<t, l>>
    BY <1>6
  <2>2. W(p2) \in Below(q) /\ W(p2) # q
    BY <2>1, <1>1, <1>3
  <2>3. PICK t2 \in Tops, u2 \in Tops, l2 \in Leaves :
             q = <<t2>> /\ r = <<u2>> /\ p2 = <<u2, l2>> /\ W(p2) = <<t2, l2>>
    BY <1>2, <2>2
  <2>4. <<t, l>> = <<t2, l2>> /\ <<u>> = <<u2>>
    BY <2>1, <2>3, <1>3
  <2>5. l = l2 /\ u = u2
    BY <2>4
  <2>. QED  BY <2>1, <2>3, <2>5
<1>. QED  BY <1>2, <1>4, <1>5, <1>6

\* Where what is at s goes.
LEMMA Arrival ==
  ASSUME Tree, NEW q \in Paths, NEW r \in Paths, CanMove(q, r), NEW s \in Paths, Taken(s)
  PROVE  \E p \in Paths \ ({q} \cup Below(q)) : Whence(q, r, p) = s
<1>1. r \notin Below(q) /\ r # q /\ ~Taken(r)
  BY DEF CanMove
<1>2. CASE s = q
  <2>1. Onto(q, r, q) = r /\ r \notin {q} \cup Below(q)
    BY <1>1, OntoSelf
  <2>2. ~\E t \in Tops, u \in Tops, l \in Leaves : q = <<t>> /\ r = <<u>> /\ r = <<u, l>>
    BY Tuples
  <2>3. Whence(q, r, r) = q
    BY <1>1, <2>1, <2>2, WhenceIs
  <2>. QED  BY <1>2, <2>1, <2>3
<1>3. CASE s \in Below(q)
  <2>1. Onto(q, r, s) \in Paths
    BY <1>3 DEF CanMove
  <2>2. PICK t \in Tops : q = <<t>>
    BY <1>3, PathCases, BelowLeaf
  <2>3. PICK l \in Leaves : s = <<t, l>>
    BY <1>3, <2>2, BelowTop
  <2>4. PICK u \in Tops : r = <<u>>
    BY <2>1, <2>2, <2>3, PathCases, OntoLeaf
  <2>5. Onto(q, r, s) = <<u, l>>
    BY <2>2, <2>3, <2>4, OntoTop
  <2>6. <<u, l>> \in Paths /\ <<u, l>> # r
    BY <2>4, LeafPath, Tuples
  <2>7. <<u, l>> \notin {q} \cup Below(q)
    BY <1>1, <2>2, <2>4, BelowTop, Tuples
  <2>a. PICK p : p = <<u, l>> /\ p \in Paths /\ p # r /\ Onto(q, r, s) = p
    BY <2>5, <2>6
  <2>8. PICK t2 \in Tops, u2 \in Tops, l2 \in Leaves :
             q = <<t2>> /\ r = <<u2>> /\ p = <<u2, l2>> /\ Whence(q, r, p) = <<t2, l2>>
    BY <1>1, <1>3, <2>a, WhenceIs
  <2>9. <<t2>> = <<t>> /\ <<u2, l2>> = <<u, l>>
    BY <2>2, <2>8, <2>a
  <2>b. t2 = t /\ l2 = l
    BY <2>9
  <2>c. Whence(q, r, p) = s
    BY <2>8, <2>b, <2>3
  <2>. QED  BY <2>a, <2>7, <2>c
<1>4. CASE s \notin {q} \cup Below(q)
  <2>1. s # r
    BY <1>1
  <2>2. ~\E t \in Tops, u \in Tops, l \in Leaves : q = <<t>> /\ r = <<u>> /\ s = <<u, l>>
    <3>1. SUFFICES ASSUME NEW u \in Tops, NEW l \in Leaves, r = <<u>>, s = <<u, l>> PROVE FALSE
      OBVIOUS
    <3>2. Parent(s) = r
      BY <3>1, LeafPath
    <3>3. Holds(r)
      BY <3>2 DEF Tree
    <3>4. store[r].dir # 0
      BY <3>3, RootPath DEF Holds
    <3>. QED  BY <3>4, <1>1 DEF Taken, Nothing
  <2>3. Whence(q, r, s) = s
    BY <1>1, <2>1, <2>2, WhenceIs
  <2>. QED  BY <1>4, <2>3
<1>. QED  BY <1>2, <1>3, <1>4

LEMMA MovedOne ==
  ASSUME NEW q \in Paths, NEW r \in Paths, CanMove(q, r)
  PROVE  Moved(q, r)[q] = Nothing /\ Moved(q, r)[r] = store[q]
<1>1. r \notin Below(q) /\ r # q
  BY DEF CanMove
<1>2. Onto(q, r, q) = r
  BY OntoSelf
<1>3. ~\E t \in Tops, u \in Tops, l \in Leaves : q = <<t>> /\ r = <<u>> /\ r = <<u, l>>
  BY Tuples
<1>4. Whence(q, r, r) = q
  BY <1>1, <1>2, <1>3, WhenceIs
<1>. QED  BY <1>1, <1>4, MovedAt

\* A move leaves a tree, with every entry once and each where it came from.
LEMMA MovedTyped ==
  ASSUME StoreTyped, NEW q \in Paths, NEW r \in Paths, CanMove(q, r)
  PROVE  Moved(q, r) \in [Paths -> [file : 0 .. born, dir : 0 .. born]]
<1>1. ASSUME NEW p \in Paths PROVE Moved(q, r)[p] \in [file : 0 .. born, dir : 0 .. born]
  <2>1. Whence(q, r, p) \in Paths
    BY WhenceIs DEF CanMove
  <2>2. store[Whence(q, r, p)] \in [file : 0 .. born, dir : 0 .. born]
    BY <2>1 DEF StoreTyped
  <2>3. Nothing \in [file : 0 .. born, dir : 0 .. born]
    BY DEF Nothing, StoreTyped
  <2>. QED  BY <2>2, <2>3, MovedAt
<1>2. Moved(q, r) = [p \in Paths |-> Moved(q, r)[p]]
  BY DEF Moved
<1>. QED  BY <1>1, <1>2

\* A folder that holds an entry, other than the one that moves, stays where it is.
LEMMA HolderStays ==
  ASSUME NEW q \in Paths, NEW r \in Paths, CanMove(q, r), NEW h \in Paths,
         Parent(h) = <<>>, h # q, h # r
  PROVE  Moved(q, r)[h] = store[h]
<1>1. h \notin Below(q)
  BY Family, RootPath
<1>2. ~\E t \in Tops, u \in Tops, l \in Leaves : q = <<t>> /\ r = <<u>> /\ h = <<u, l>>
  BY LeafPath
<1>3. Whence(q, r, h) = h
  BY <1>2, WhenceIs DEF CanMove
<1>. QED  BY <1>1, <1>3, MovedAt

LEMMA MovedTree ==
  ASSUME StoreTyped, Tree, NEW q \in Paths, NEW r \in Paths, CanMove(q, r), Holds(Parent(r)),
         store' = Moved(q, r)
  PROVE  Tree'
<1>m. /\ r \notin Below(q) /\ r # q /\ ~Taken(r)
  BY DEF CanMove
<1>n. store'[q] = Nothing /\ store'[r] = store[q]
  BY MovedOne
<1>1. ASSUME NEW p \in Paths PROVE store'[p].file = 0 \/ store'[p].dir = 0
  <2>1. Whence(q, r, p) \in Paths
    BY <1>m, WhenceIs
  <2>2. store'[p] = Nothing \/ store'[p] = store[Whence(q, r, p)]
    BY MovedAt
  <2>. QED  BY <2>1, <2>2 DEF Tree, Nothing
<1>2. ASSUME NEW p \in Paths, store'[p] # Nothing, Parent(p) # <<>>
      PROVE  Parent(p) \in Paths /\ store'[Parent(p)].dir # 0
  <2>1. p # q /\ p \notin Below(q) /\ store'[p] = store[Whence(q, r, p)]
    BY <1>2, MovedAt
  <2>2. PICK h : h = Parent(p) /\ h \in Paths /\ Parent(h) = <<>> /\ p \in Below(h) /\ h # p
    BY <1>2, Family
  <2>3. CASE p = r
    <3>1. store[h].dir # 0
      BY <2>2, <2>3, RootPath DEF Holds
    <3>2. h # q /\ h # r
      BY <1>m, <2>2, <2>3
    <3>. QED  BY <2>2, <3>1, <3>2, HolderStays
  <2>4. CASE \E t \in Tops, u \in Tops, l \in Leaves :
               q = <<t>> /\ r = <<u>> /\ p = <<u, l>> /\ Whence(q, r, p) = <<t, l>>
    <3>1. PICK t \in Tops, u \in Tops, l \in Leaves :
               q = <<t>> /\ r = <<u>> /\ p = <<u, l>> /\ Whence(q, r, p) = <<t, l>>
      BY <2>4
    <3>2. <<t, l>> \in Paths /\ Parent(<<t, l>>) = q /\ h = r
      BY <2>2, <3>1, LeafPath
    <3>3. Taken(<<t, l>>)
      BY <1>2, <2>1, <3>1 DEF Taken
    <3>4. Holds(q)
      BY <3>2, <3>3 DEF Tree
    <3>5. store[q].dir # 0
      BY <3>4, RootPath DEF Holds
    <3>. QED  BY <2>2, <3>2, <3>5, <1>n
  <2>5. CASE Whence(q, r, p) = p
    <3>1. Taken(p)
      BY <1>2, <2>1, <2>5 DEF Taken
    <3>2. Holds(h)
      BY <2>2, <3>1 DEF Tree
    <3>3. store[h].dir # 0
      BY <3>2, <2>2, RootPath DEF Holds
    <3>4. h # q /\ h # r
      BY <1>m, <2>1, <2>2, <3>3 DEF Taken, Nothing
    <3>. QED  BY <2>2, <3>3, <3>4, HolderStays
  <2>. QED  BY <1>m, <2>3, <2>4, <2>5, WhenceIs
<1>. QED  BY <1>1, <1>2 DEF Tree, Taken, Holds

\* Every number is at one place.
Apart == \A p \in Paths, q \in Paths : Item(p) = Item(q) /\ Item(p) # 0 => p = q

LEMMA MovedApart ==
  ASSUME Apart, NEW q \in Paths, NEW r \in Paths, CanMove(q, r), store' = Moved(q, r)
  PROVE  Apart'
<1>. SUFFICES ASSUME NEW p1 \in Paths, NEW p2 \in Paths, Item(p1)' = Item(p2)', Item(p1)' # 0
              PROVE  p1 = p2
  BY DEF Apart
<1>m. r \in Paths \ Below(q) /\ r # q
  BY DEF CanMove
<1>1. ASSUME NEW p \in Paths, Item(p)' # 0
      PROVE  p \notin {q} \cup Below(q) /\ Item(p)' = Item(Whence(q, r, p)) /\ Whence(q, r, p) \in Paths
  <2>1. store'[p] # Nothing
    BY <1>1 DEF Item, Nothing
  <2>2. p \notin {q} \cup Below(q) /\ store'[p] = store[Whence(q, r, p)]
    BY <2>1, MovedAt
  <2>. QED  BY <2>2, <1>m, WhenceIs DEF Item
<1>2. Whence(q, r, p1) = Whence(q, r, p2)
  BY <1>1 DEF Apart
<1>. QED  BY <1>1, <1>2, <1>m, WhenceOnce

----------------------------------------------------------------------------
(* What is stored is what is listed. *)

LEMMA UnderParent ==
  ASSUME NEW p \in Paths
  PROVE  p \in Below(Parent(p)) /\ p \in Children(Parent(p))
BY Family, RootPath DEF Children

LEMMA Entries ==
  ASSUME NEW p, NEW q
  PROVE  /\ (File(p) = File(q)) <=> (p = q)
         /\ (Dir(p) = Dir(q)) <=> (p = q)
         /\ File(p) # Dir(q)
<1>1. "file" # "dir"
  OBVIOUS
<1>. QED  BY <1>1 DEF File, Dir

\* The entry of its parent's listing that a path falls under.
LEMMA CutAt ==
  ASSUME NEW p \in Paths, NEW q \in Below(Parent(p))
  PROVE  /\ q \in Paths
         /\ (SubSeq(q, 1, Len(Parent(p)) + 1) = p) <=> (q = p \/ q \in Below(p))
         /\ SubSeq(q, 1, Len(Parent(p)) + 1) = p => ((Len(q) > Len(Parent(p)) + 1) <=> (q \in Below(p)))
<1>q. q \in Paths
  BY DEF Below
<1>1. CASE \E t \in Tops : p = <<t>>
  <2>1. PICK t \in Tops : p = <<t>>
    BY <1>1
  <2>2. Len(Parent(p)) = 0
    BY <2>1, TopPath, Tuples
  <2>3. CASE \E u \in Tops : q = <<u>>
    <3>1. PICK u \in Tops : q = <<u>>
      BY <2>3
    <3>2. SubSeq(q, 1, 1) = q /\ Len(q) = 1
      BY <3>1, Whole, Tuples
    <3>3. q \notin Below(p)
      BY <2>1, <3>1, BelowTop, Tuples
    <3>. QED  BY <1>q, <2>2, <3>2, <3>3
  <2>4. CASE \E u \in Tops : \E l \in Leaves : q = <<u, l>>
    <3>1. PICK u \in Tops : \E l \in Leaves : q = <<u, l>>
      BY <2>4
    <3>2. PICK l \in Leaves : q = <<u, l>>
      BY <3>1
    <3>3. SubSeq(q, 1, 1) = <<u>> /\ Len(q) = 2
      BY <3>2, Tuples
    <3>4. (q \in Below(p)) <=> (<<u>> = p)
      BY <2>1, <3>2, BelowTop
    <3>5. q # p
      BY <2>1, <3>2, Tuples
    <3>6. SubSeq(q, 1, Len(Parent(p)) + 1) = <<u>> /\ Len(q) > Len(Parent(p)) + 1
      BY <2>2, <3>3
    <3>. QED  BY <1>q, <3>4, <3>5, <3>6
  <2>. QED  BY <1>q, <2>3, <2>4, PathCases
<1>2. CASE \E t \in Tops : \E l \in Leaves : p = <<t, l>>
  <2>1. PICK t \in Tops : \E l \in Leaves : p = <<t, l>>
    BY <1>2
  <2>2. Parent(p) = <<t>> /\ Len(Parent(p)) = 1 /\ Below(p) = {}
    BY <2>1, LeafPath, TopPath, BelowLeaf
  <2>3. PICK m \in Leaves : q = <<t, m>>
    BY <2>2, BelowTop
  <2>4. SubSeq(q, 1, 2) = q /\ Len(q) = 2
    BY <2>3, Whole, Tuples
  <2>. QED  BY <1>q, <2>2, <2>4
<1>. QED  BY <1>1, <1>2, PathCases

LEMMA S3Lists ==
  ASSUME NEW p \in Paths
  PROVE  /\ (File(p) \in S3List(Parent(p))) <=> (store[p].file # 0)
         /\ (Dir(p) \in S3List(Parent(p))) <=> (store[p].dir # 0 \/ \E q \in Below(p) : Taken(q))
<1>1. (File(p) \in S3List(Parent(p))) <=> (store[p].file # 0)
  BY UnderParent, Entries DEF S3List
<1>2. (Dir(p) \in S3List(Parent(p))) <=> (store[p].dir # 0 \/ \E q \in Below(p) : Taken(q))
  BY UnderParent, Entries DEF S3List
<1>. QED  BY <1>1, <1>2

LEMMA AzLists ==
  ASSUME StoreTyped, NEW p \in Paths
  PROVE  /\ (File(p) \in AzList(Parent(p))) <=> (store[p].file # 0)
         /\ (Dir(p) \in AzList(Parent(p))) <=> (store[p].dir # 0 \/ \E q \in Below(p) : Taken(q))
<1>1. (File(p) \in AzList(Parent(p))) <=> (store[p].file # 0)
  BY UnderParent, Entries DEF AzList
<1>2. ASSUME Dir(p) \in AzList(Parent(p)) PROVE store[p].dir # 0 \/ \E q \in Below(p) : Taken(q)
  <2>1. PICK q \in Below(Parent(p)) :
          /\ store[q].dir # 0 \/ (store[q].file # 0 /\ Len(q) > Len(Parent(p)) + 1)
          /\ Dir(SubSeq(q, 1, Len(Parent(p)) + 1)) = Dir(p)
    BY <1>2, Entries DEF AzList
  <2>2. SubSeq(q, 1, Len(Parent(p)) + 1) = p
    BY <2>1, Entries
  <2>3. q = p \/ q \in Below(p)
    BY <2>2, CutAt
  <2>4. CASE q \in Below(p)
    BY <2>1, <2>4 DEF Taken, Nothing
  <2>5. CASE q = p
    <3>1. ~(Len(q) > Len(Parent(p)) + 1)
      BY <2>2, <2>5, CutAt, Family
    <3>. QED  BY <2>1, <2>5, <3>1
  <2>. QED  BY <2>3, <2>4, <2>5
<1>3. ASSUME NEW q \in Paths, (q = p /\ store[p].dir # 0) \/ (q \in Below(p) /\ Taken(q))
      PROVE  Dir(p) \in AzList(Parent(p))
  <2>1. q \in Below(Parent(p))
    <3>1. CASE q = p
      BY <3>1, UnderParent
    <3>2. CASE q \in Below(p)
      BY <3>2, Family, RootPath
    <3>. QED  BY <1>3, <3>1, <3>2
  <2>2. SubSeq(q, 1, Len(Parent(p)) + 1) = p
    BY <1>3, <2>1, CutAt
  <2>3. store[q].dir # 0 \/ (store[q].file # 0 /\ Len(q) > Len(Parent(p)) + 1)
    <3>1. CASE q = p
      BY <1>3, <3>1, Family
    <3>2. CASE q \in Below(p) /\ Taken(q)
      <4>1. Len(q) > Len(Parent(p)) + 1
        BY <2>1, <2>2, <3>2, CutAt
      <4>2. store[q].dir # 0 \/ store[q].file # 0
        <5>1. store[q] \in [file : 0 .. born, dir : 0 .. born]
          BY DEF StoreTyped
        <5>. QED  BY <3>2, <5>1 DEF Taken, Nothing
      <4>. QED  BY <4>1, <4>2
    <3>. QED  BY <1>3, <3>1, <3>2
  <2>. QED  BY <2>1, <2>2, <2>3 DEF AzList
<1>4. \A q \in Below(p) : q \in Paths
  BY Family
<1>5. store[p].dir # 0 => Dir(p) \in AzList(Parent(p))
  BY <1>3
<1>6. (\E q \in Below(p) : Taken(q)) => Dir(p) \in AzList(Parent(p))
  BY <1>3, <1>4
<1>. QED  BY <1>1, <1>2, <1>5, <1>6

LEMMA Browsable ==
  ASSUME service \in Services, StoreTyped, ~Flat => Tree
  PROVE  BrowsableExactly
<1>. SUFFICES ASSUME NEW p \in Paths
              PROVE  /\ (Stat(p) # "none") <=> (File(p) \in Listing(Parent(p)) \/ Dir(p) \in Listing(Parent(p)))
                     /\ (Stat(p) = "file") <=> (File(p) \in Listing(Parent(p)))
  BY DEF BrowsableExactly
<1>t. store[p] \in [file : 0 .. born, dir : 0 .. born]
  BY DEF StoreTyped
<1>n. Taken(p) <=> (store[p].file # 0 \/ store[p].dir # 0)
  BY <1>t DEF Taken, Nothing
<1>1. CASE service = "s3"
  <2>1. Stat(p) = S3Stat(p) /\ Listing(Parent(p)) = S3List(Parent(p))
    BY <1>1 DEF Stat, Listing
  <2>2. /\ (S3Stat(p) = "file") <=> (store[p].file # 0)
        /\ (S3Stat(p) # "none") <=> (store[p].file # 0 \/ store[p].dir # 0 \/ \E q \in Below(p) : Taken(q))
    BY <1>n DEF S3Stat
  <2>. QED  BY <2>1, <2>2, S3Lists
<1>2. CASE service = "azure"
  <2>1. Stat(p) = AzStat(p) /\ Listing(Parent(p)) = AzList(Parent(p))
    BY <1>2 DEF Stat, Listing
  <2>2. /\ (AzStat(p) = "file") <=> (store[p].file # 0)
        /\ (AzStat(p) # "none") <=> (store[p].file # 0 \/ store[p].dir # 0 \/ \E q \in Below(p) : Taken(q))
    BY DEF AzStat, AzFound
  <2>. QED  BY <2>1, <2>2, AzLists
<1>3. CASE service \in {"sftp", "onedrive"}
  <2>1. /\ Taken(p) => Holds(Parent(p))
        /\ store[p].file = 0 \/ store[p].dir = 0
    BY <1>3 DEF Flat, Tree
  <2>2. /\ (Stat(p) = "file") <=> (Taken(p) /\ store[p].dir = 0)
        /\ (Stat(p) # "none") <=> Taken(p)
    <3>1. \/ Stat(p) = SftpStat(p)
          \/ Stat(p) = GraphStat(p)
      BY <1>3 DEF Stat
    <3>. QED  BY <3>1, <1>n DEF SftpStat, GraphStat
  <2>3. Listing(Parent(p)) = IF ~Holds(Parent(p)) THEN {}
          ELSE {IF store[c].dir # 0 THEN Dir(c) ELSE File(c) : c \in {d \in Children(Parent(p)) : Taken(d)}}
    <3>1. \/ Listing(Parent(p)) = SftpList(Parent(p))
          \/ Listing(Parent(p)) = GraphList(Parent(p))
      BY <1>3 DEF Listing
    <3>. QED  BY <3>1 DEF SftpList, GraphList
  <2>4. (File(p) \in Listing(Parent(p))) <=> (Holds(Parent(p)) /\ Taken(p) /\ store[p].dir = 0)
    BY <2>3, UnderParent, Entries
  <2>5. (Dir(p) \in Listing(Parent(p))) <=> (Holds(Parent(p)) /\ Taken(p) /\ store[p].dir # 0)
    BY <2>3, UnderParent, Entries
  <2>. QED  BY <2>1, <2>2, <2>4, <2>5
<1>. QED  BY <1>1, <1>2, <1>3, TreeAssumption

----------------------------------------------------------------------------
(* The inductive invariant *)

CommandUpTo(b) ==
  [kind : {"none", "delete", "rename", "mkdir"}, from : Paths \cup {<<>>}, to : Paths \cup {<<>>},
   pc : {"none", "head", "look", "copy", "upload", "drop", "copymarker", "upmarker", "unmark",
         "rmdir", "rmfile", "parent", "patch", "ok", "failed"},
   was : {"none", "file", "dir"}, saw : 0 .. b, home : 0 .. b, into : 0 .. b, alone : BOOLEAN]

\* No number is used that was not given.
Numbered ==
  /\ service \in Services
  /\ StoreTyped
  /\ born <= MaxBorn
  /\ op \in [Ops -> CommandUpTo(born)]
  /\ folders \subseteq 1 .. born
  /\ asked \subseteq 1 .. born
  /\ raced \subseteq 1 .. born

\* Where a command is fits the backend and what was asked.
Fits(c) ==
  /\ c.pc = "none" => c = Unused
  /\ c.pc \notin {"none", "ok", "failed"} =>
       /\ c.kind \in {"delete", "rename", "mkdir"}
       /\ c.from \in Paths /\ c.to \in Paths
       /\ c.kind = "rename" => c.to # c.from
  /\ c.pc \in {"copy", "upload", "drop"} => Flat /\ c.was = "file"
  /\ c.pc \in {"look", "copymarker", "upmarker", "unmark"} => Flat /\ c.was = "dir"
  /\ c.pc \in {"copy", "upload", "copymarker", "upmarker", "parent", "patch"} => c.kind = "rename"
  /\ c.pc \in {"drop", "look", "unmark"} => c.kind \in {"delete", "rename"}
  /\ c.pc \in {"rmdir", "rmfile"} => c.kind = "delete"
  /\ c.pc \in {"upload", "upmarker", "parent", "patch"} => c.saw # 0
  /\ c.pc \in {"rmdir", "rmfile", "parent", "patch"} => ~Flat

\* What a command that answers Ok has done.
Done(c) ==
  CASE c.kind = "mkdir" -> store[c.from].dir # 0
    [] c.kind = "delete" /\ c.was = "file" -> store[c.from].file = 0
    [] c.kind = "delete" /\ c.was # "file" -> Stat(c.from) = "none"
    [] c.kind = "rename" /\ c.was = "file" -> store[c.from].file = 0 /\ store[c.to].file = c.saw
    [] c.kind = "rename" /\ c.was # "file" ->
         /\ store[c.from].dir = 0 /\ store[c.to].dir # 0
         /\ Stat(c.from) = "dir" => c.to \in Below(c.from)

Empty(p, but) == \A q \in Below(p) : q = but \/ ~Taken(q)

\* What a command nobody has disturbed knows of the store at each step.
Knows(c) ==
  c.alone =>
    /\ c.pc \in {"look", "copymarker", "upmarker"} => store[c.from].file = 0
    /\ c.pc \in {"copymarker", "upmarker"} => Empty(c.from, c.from)
    /\ c.pc = "unmark" /\ c.kind = "delete" => store[c.from].file = 0 /\ Empty(c.from, c.from)
    /\ c.pc = "unmark" /\ c.kind = "rename" => store[c.to].dir # 0 /\ Empty(c.from, c.to)
    /\ c.pc = "drop" /\ c.kind = "rename" => store[c.to].file = c.saw
    /\ c.pc \in {"parent", "patch"} =>
         /\ c.saw = Item(c.from) /\ c.was = Stat(c.from) /\ c.home = FolderId(Parent(c.from))
    /\ c.pc = "patch" => c.into = FolderId(Parent(c.to)) /\ Holds(Parent(c.to))
    /\ c.pc = "ok" => Done(c)

\* A file about to be deleted because its copy is there.
Doomed(p) == \E o \in Ops : op[o].kind = "rename" /\ op[o].pc = "drop" /\ op[o].from = p

\* All contents are somewhere they stay, or were deleted, or raced a rename.
Kept(v) == \/ v \in asked
           \/ Flat /\ v \in raced
           \/ \E p \in Paths : store[p].file = v /\ ~Doomed(p)

\* While a rename uploads what it downloaded, the old name has that or what raced it.
Carried(c) == c.kind = "rename" /\ c.pc = "upload" => store[c.from].file \in {0, c.saw} \cup raced

Commands == {op[o] : o \in Ops}
Fit == \A c \in Commands : Fits(c)
Known == \A c \in Commands : Knows(c)
AllKept == (\A v \in (1 .. born) \ folders : Kept(v)) /\ \A c \in Commands : Carried(c)
Orderly == ~Flat => Tree /\ Apart

IInv == Numbered /\ Fit /\ Orderly /\ Known /\ AllKept

----------------------------------------------------------------------------
(* At first *)

LEMMA PathsFinite == IsFiniteSet(Paths) /\ Cardinality(Paths) \in Nat
<1>. DEFINE tops == {<<t>> : t \in Tops}
            leaves == {<<t, l>> : t \in Tops, l \in Leaves}
            f == [t \in Tops |-> <<t>>]
<1>1. IsFiniteSet(tops)
  <2>1. f \in Surjection(Tops, tops)
    BY DEF Surjection
  <2>. QED  BY <2>1, TreeAssumption, FS_Surjection
<1>2. IsFiniteSet(leaves)
  <2>1. leaves = Tops \X Leaves
    OBVIOUS
  <2>. QED  BY <2>1, TreeAssumption, FS_Product
<1>3. Paths = tops \cup leaves
  BY DEF Paths
<1>. HIDE DEF tops, leaves
<1>4. IsFiniteSet(Paths)
  BY <1>1, <1>2, <1>3, FS_Union
<1>. QED  BY <1>4, FS_CardinalityType

LEMMA Numbers ==
  /\ Number \in [Paths -> 1 .. Cardinality(Paths)]
  /\ \A p, q \in Paths : p # q => Number[p] # Number[q]
  /\ \A v \in 1 .. Cardinality(Paths) : \E p \in Paths : Number[p] = v
<1>. DEFINE N == 1 .. Cardinality(Paths)
<1>1. ExistsBijection(Paths, N)
  BY PathsFinite, FS_CardinalityType, Fun_ExistsBijSymmetric
<1>2. PICK g : g \in Bijection(Paths, N)
  BY <1>1 DEF ExistsBijection
<1>3. g \in [Paths -> N] /\ \A p, q \in Paths : p # q => g[p] # g[q]
  BY <1>2 DEF Bijection, Injection, IsInjective
<1>4. /\ Number \in [Paths -> N]
      /\ \A p, q \in Paths : p # q => Number[p] # Number[q]
  BY <1>3 DEF Number
<1>5. \A v \in N : \E p \in Paths : Number[p] = v
  <2>. DEFINE S == {Number[p] : p \in Paths}
  <2>1. Number \in Surjection(Paths, S) /\ Number \in Injection(Paths, S)
    BY <1>4 DEF Surjection, Injection, IsInjective
  <2>2. Cardinality(S) = Cardinality(Paths)
    BY <2>1, PathsFinite, FS_Surjection
  <2>3. S \subseteq N
    BY <1>4
  <2>4. IsFiniteSet(N) /\ Cardinality(N) = Cardinality(Paths)
    BY PathsFinite, FS_Interval
  <2>5. S = N
    BY <2>2, <2>3, <2>4, FS_Subset
  <2>. QED  BY <2>5
<1>. QED  BY <1>4, <1>5

LEMMA UnusedIs ==
  ASSUME NEW b \in Nat
  PROVE  /\ Unused \in CommandUpTo(b) /\ Fits(Unused) /\ Carried(Unused) /\ Unused.pc = "none"
         /\ Failed \in CommandUpTo(b) /\ Fits(Failed) /\ Knows(Failed) /\ Carried(Failed)
         /\ Failed.pc = "failed" /\ Failed.kind = "none" /\ Knows(Unused)
<1>1. Failed = [kind |-> "none", from |-> <<>>, to |-> <<>>, pc |-> "failed", was |-> "none",
                saw |-> 0, home |-> 0, into |-> 0, alone |-> TRUE]
  <2>1. PICK u : u = Unused
    OBVIOUS
  <2>2. Failed = [u EXCEPT !.pc = "failed"]
    BY <2>1 DEF Failed
  <2>3. u = [kind |-> "none", from |-> <<>>, to |-> <<>>, pc |-> "none", was |-> "none",
             saw |-> 0, home |-> 0, into |-> 0, alone |-> TRUE]
    BY <2>1 DEF Unused
  <2>. QED  BY <2>2, <2>3
<1>2. Unused \in CommandUpTo(b) /\ Failed \in CommandUpTo(b)
  BY <1>1 DEF Unused, CommandUpTo
<1>3. Unused.pc = "none" /\ Failed.pc = "failed" /\ Failed.kind = "none" /\ Unused.kind = "none"
  BY <1>1 DEF Unused
<1>. QED  BY <1>2, <1>3 DEF Fits, Knows, Carried

LEMMA InitInvariant == Init => IInv
<1>. SUFFICES ASSUME Init PROVE IInv
  OBVIOUS
<1>. DEFINE n == Cardinality(Paths)
<1>1. n \in Nat /\ born = n /\ n <= MaxBorn
  BY PathsFinite, TreeAssumption DEF Init
<1>2. PICK shape \in [Paths -> {"none", "file", "dir"}] :
        /\ \A p \in Paths : shape[p] # "none" /\ Len(p) = 2 /\ ~Flat => shape[Parent(p)] = "dir"
        /\ store = [p \in Paths |-> [file |-> IF shape[p] = "file" THEN Number[p] ELSE 0,
                                     dir |-> IF shape[p] = "dir" THEN Number[p] ELSE 0]]
        /\ folders = {Number[p] : p \in {q \in Paths : shape[q] # "file"}}
  BY DEF Init
<1>. HIDE DEF n
<1>n. Number \in [Paths -> 1 .. born]
  BY <1>1, Numbers DEF n
<1>3. ASSUME NEW p \in Paths
      PROVE  /\ store[p].file = IF shape[p] = "file" THEN Number[p] ELSE 0
             /\ store[p].dir = IF shape[p] = "dir" THEN Number[p] ELSE 0
             /\ Number[p] \in 1 .. born /\ Number[p] # 0
  BY <1>2, <1>n, <1>1
<1>4. StoreTyped
  <2>1. ASSUME NEW p \in Paths PROVE store[p] \in [file : 0 .. born, dir : 0 .. born]
    <3>1. store[p] = [file |-> IF shape[p] = "file" THEN Number[p] ELSE 0,
                      dir |-> IF shape[p] = "dir" THEN Number[p] ELSE 0]
      BY <1>2
    <3>2. Number[p] \in 0 .. born /\ 0 \in 0 .. born
      BY <1>1, <1>3
    <3>. QED  BY <3>1, <3>2
  <2>. QED  BY <1>1, <1>2, <2>1 DEF StoreTyped
<1>5. folders \subseteq 1 .. born
  BY <1>2, <1>3
<1>6. Numbered
  BY <1>1, <1>4, <1>5, UnusedIs DEF Numbered, Init
<1>7. Fit /\ Known /\ \A c \in Commands : Carried(c)
  BY UnusedIs, <1>1 DEF Init, Fit, Known, Commands
<1>8. ASSUME ~Flat PROVE Tree
  <2>1. ASSUME NEW p \in Paths PROVE store[p].file = 0 \/ store[p].dir = 0
    BY <1>3
  <2>2. ASSUME NEW p \in Paths, Taken(p), Parent(p) # <<>> PROVE Parent(p) \in Paths /\ store[Parent(p)].dir # 0
    <3>1. shape[p] # "none"
      <4>1. store[p].file # 0 \/ store[p].dir # 0
        BY <2>2, <1>4 DEF StoreTyped, Taken, Nothing
      <4>. QED  BY <4>1, <1>3
    <3>2. Len(p) = 2
      BY <2>2, RootPath, PathLength
    <3>3. shape[Parent(p)] = "dir" /\ Parent(p) \in Paths
      BY <1>2, <1>8, <3>1, <3>2, <2>2, Family
    <3>. QED  BY <1>3, <3>3
  <2>. QED  BY <2>1, <2>2 DEF Tree, Holds
<1>9. ASSUME ~Flat PROVE Apart
  <2>1. ASSUME NEW p \in Paths PROVE Item(p) \in {0, Number[p]}
    BY <1>3, <1>1 DEF Item
  <2>. QED  BY <2>1, Numbers DEF Apart
<1>10. ASSUME NEW v \in (1 .. born) \ folders PROVE Kept(v)
  <2>1. PICK p \in Paths : Number[p] = v
    BY Numbers, <1>1 DEF n
  <2>2. shape[p] = "file"
    BY <1>2, <1>10, <2>1
  <2>3. store[p].file = v
    BY <1>3, <2>1, <2>2
  <2>4. ~Doomed(p)
    BY UnusedIs DEF Doomed, Init
  <2>. QED  BY <2>3, <2>4 DEF Kept
<1>. QED  BY <1>6, <1>7, <1>8, <1>9, <1>10 DEF IInv, Orderly, AllKept

----------------------------------------------------------------------------
(* A step of one command, and what it does to the others *)

LEMMA DisturbedIs ==
  ASSUME NEW b \in Nat, NEW c \in CommandUpTo(b), Fits(c)
  PROVE  /\ Disturbed(c) \in CommandUpTo(b)
         /\ Disturbed(c).pc = c.pc
         /\ Fits(Disturbed(c))
         /\ c.pc = "none" => Disturbed(c) = c
         /\ c.pc # "none" => ~Disturbed(c).alone
         /\ c.pc \notin {"none", "ok", "failed"} =>
              /\ Disturbed(c).kind = c.kind /\ Disturbed(c).from = c.from /\ Disturbed(c).to = c.to
              /\ Disturbed(c).saw = c.saw
<1>1. CASE c.pc = "none"
  BY <1>1 DEF Disturbed
<1>2. CASE c.pc \in {"ok", "failed"}
  <2>1. PICK f : f = Failed
    OBVIOUS
  <2>2. f \in CommandUpTo(b)
    BY <2>1, UnusedIs
  <2>3. Disturbed(c) = [f EXCEPT !.pc = c.pc, !.alone = FALSE]
    BY <1>2, <2>1 DEF Disturbed
  <2>4. /\ Disturbed(c) \in CommandUpTo(b)
        /\ Disturbed(c).pc = c.pc /\ ~Disturbed(c).alone
    BY <1>2, <2>2, <2>3 DEF CommandUpTo
  <2>5. Fits(Disturbed(c))
    BY <1>2, <2>4 DEF Fits
  <2>. QED  BY <1>2, <2>4, <2>5
<1>3. CASE c.pc \notin {"none", "ok", "failed"}
  <2>1. Disturbed(c) = [c EXCEPT !.alone = FALSE]
    BY <1>3 DEF Disturbed
  <2>2. /\ Disturbed(c) \in CommandUpTo(b)
        /\ Disturbed(c).pc = c.pc /\ ~Disturbed(c).alone
        /\ Disturbed(c).kind = c.kind /\ Disturbed(c).from = c.from /\ Disturbed(c).to = c.to
        /\ Disturbed(c).saw = c.saw /\ Disturbed(c).was = c.was
    BY <2>1 DEF CommandUpTo
  <2>3. Fits(Disturbed(c))
    BY <1>3, <2>2 DEF Fits
  <2>. QED  BY <1>3, <2>2, <2>3
<1>. QED  BY <1>1, <1>2, <1>3

\* Where the other commands are after a step.
Bystander(c) ==
  /\ op'[c] \in {op[c], Disturbed(op[c])}
  /\ store' # store => op'[c] = Disturbed(op[c])

\* The command o is now r, or has failed.
Becomes(o, r) ==
  /\ op' = [c \in Ops |-> op'[c]]
  /\ op'[o] \in {r, Failed}
  /\ \A c \in Ops \ {o} : Bystander(c)
  /\ service' = service

LEMMA ChangesIs ==
  ASSUME NEW o \in Ops, NEW new, NEW then, Changes(o, new, then)
  PROVE  store' = new /\ Becomes(o, then)
<1>1. PICK end \in {then, Failed} :
        op' = [c \in Ops |-> IF c = o THEN end
                             ELSE IF new = store THEN op[c] ELSE Disturbed(op[c])]
  BY DEF Changes
<1>2. store' = new /\ service' = service
  BY DEF Changes
<1>3. op' = [c \in Ops |-> op'[c]] /\ op'[o] = end
  BY <1>1
<1>4. ASSUME NEW c \in Ops \ {o} PROVE Bystander(c)
  <2>1. op'[c] = IF store' = store THEN op[c] ELSE Disturbed(op[c])
    BY <1>1, <1>2, <1>4
  <2>. QED  BY <2>1 DEF Bystander
<1>. QED  BY <1>2, <1>3, <1>4 DEF Becomes

LEMMA ExceptIs ==
  ASSUME op \in [Ops -> CommandUpTo(born)], NEW o \in Ops, NEW r, op' = [op EXCEPT ![o] = r],
         service' = service, store' = store
  PROVE  Becomes(o, r)
<1>1. op' = [c \in Ops |-> op'[c]] /\ op'[o] = r /\ \A c \in Ops \ {o} : op'[c] = op[c]
  OBVIOUS
<1>. QED  BY <1>1 DEF Becomes, Bystander

LEMMA KnowsSame ==
  ASSUME store' = store, service' = service, NEW c, Knows(c)
  PROVE  Knows(c)'
BY DEF Knows, Done, Empty, Taken, Item, FolderId, Holds, Stat, S3Stat, AzStat, AzFound, SftpStat, GraphStat

LEMMA FitsSame ==
  ASSUME service' = service, NEW c
  PROVE  Fits(c)' <=> Fits(c)
BY DEF Fits, Flat

\* A command that is passed by goes on or over in order.
LEMMA BystanderStep ==
  ASSUME Numbered, Fit, Known, NEW c \in Ops, Bystander(c), service' = service,
         born' \in Nat, born <= born', NEW x, x = op'[c]
  PROVE  x \in CommandUpTo(born') /\ Fits(x) /\ Knows(x)'
<1>b. born \in Nat
  BY DEF Numbered, StoreTyped
<1>2. PICK y : y = op[c] /\ y \in CommandUpTo(born) /\ Fits(y) /\ Knows(y)
  BY DEF Numbered, Fit, Known, Commands
<1>3. \A z \in CommandUpTo(born) : z \in CommandUpTo(born')
  BY <1>b DEF CommandUpTo
<1>4. PICK d : d = Disturbed(y)
  OBVIOUS
<1>5. /\ d \in CommandUpTo(born) /\ Fits(d) /\ d.pc = y.pc
      /\ y.pc = "none" => d = y
      /\ y.pc # "none" => ~d.alone
  BY <1>b, <1>2, <1>4, DisturbedIs
<1>6. CASE x = d
  <2>1. Knows(d)'
    BY <1>5, <1>2 DEF Knows, Fits, Unused
  <2>. QED  BY <1>3, <1>5, <1>6, <2>1
<1>7. CASE x = y /\ x # d
  <2>1. store' = store /\ service' = service
    BY <1>2, <1>4, <1>7 DEF Bystander
  <2>2. Knows(y)'
    BY <1>2, <2>1, KnowsSame
  <2>. QED  BY <1>2, <1>3, <1>7, <2>2
<1>. QED  BY <1>2, <1>4, <1>6, <1>7 DEF Bystander

\* The commands stay in order if the one that moves does.
LEMMA CommandsStep ==
  ASSUME Numbered, Fit, Known, NEW o \in Ops, NEW r, Becomes(o, r),
         born' \in Nat, born <= born', r \in CommandUpTo(born'), Fits(r), Knows(r)'
  PROVE  /\ op' \in [Ops -> CommandUpTo(born')]
         /\ Fit'
         /\ Known'
<1>1. ASSUME NEW c \in Ops, NEW x, x = op'[c]
      PROVE  x \in CommandUpTo(born') /\ Fits(x) /\ Knows(x)'
  <2>1. CASE c = o
    <3>1. PICK f : f = Failed
      OBVIOUS
    <3>2. f \in CommandUpTo(born') /\ Fits(f) /\ f.pc = "failed"
      BY <3>1, UnusedIs
    <3>3. Knows(f)'
      BY <3>2 DEF Knows
    <3>4. x = r \/ x = f
      BY <1>1, <2>1, <3>1 DEF Becomes
    <3>5. CASE x = r
      BY <3>5
    <3>6. CASE x = f
      BY <3>2, <3>3, <3>6
    <3>. QED  BY <3>4, <3>5, <3>6
  <2>2. CASE c # o
    BY <1>1, <2>2, BystanderStep DEF Becomes
  <2>. QED  BY <2>1, <2>2
<1>2. op' \in [Ops -> CommandUpTo(born')]
  BY <1>1 DEF Becomes
<1>3. Fit'
  BY <1>1, FitsSame DEF Fit, Commands, Becomes
<1>4. Known'
  BY <1>1 DEF Known, Commands
<1>. QED  BY <1>2, <1>3, <1>4

----------------------------------------------------------------------------
(* What is kept *)

\* No rename comes between its copy and its delete, but one that became r.
NoOther(r) ==
  \A c \in Ops : op'[c].kind = "rename" /\ op'[c].pc \in {"upload", "drop"} =>
    \/ op'[c] = r
    \/ /\ op[c].kind = "rename" /\ op[c].pc = op'[c].pc
       /\ op[c].from = op'[c].from /\ op[c].saw = op'[c].saw

LEMMA BystanderIs ==
  ASSUME Numbered, Fit, NEW c \in Ops, Bystander(c),
         op'[c].kind = "rename", op'[c].pc \in {"upload", "drop"}
  PROVE  /\ op[c].kind = "rename" /\ op[c].pc = op'[c].pc
         /\ op[c].from = op'[c].from /\ op[c].saw = op'[c].saw
<1>1. op[c] \in CommandUpTo(born) /\ Fits(op[c]) /\ born \in Nat
  BY DEF Numbered, Fit, Commands, StoreTyped
<1>2. CASE op'[c] = op[c]
  BY <1>2
<1>3. CASE op'[c] = Disturbed(op[c])
  <2>1. Disturbed(op[c]).pc = op[c].pc
    BY <1>1, DisturbedIs
  <2>2. op[c].pc \notin {"none", "ok", "failed"}
    BY <1>3, <2>1
  <2>. QED  BY <1>1, <1>3, <2>2, DisturbedIs
<1>. QED  BY <1>2, <1>3 DEF Bystander

LEMMA BecomesNoOther ==
  ASSUME Numbered, Fit, NEW o \in Ops, NEW r, Becomes(o, r)
  PROVE  NoOther(r)
<1>1. ASSUME NEW c \in Ops, op'[c].kind = "rename", op'[c].pc \in {"upload", "drop"}, op'[c] # r
      PROVE  /\ op[c].kind = "rename" /\ op[c].pc = op'[c].pc
             /\ op[c].from = op'[c].from /\ op[c].saw = op'[c].saw
  <2>1. CASE c = o
    <3>1. op'[c] = Failed
      BY <1>1, <2>1 DEF Becomes
    <3>. QED  BY <1>1, <3>1, UnusedIs
  <2>2. CASE c # o
    BY <1>1, <2>2, BystanderIs DEF Becomes
  <2>. QED  BY <2>1, <2>2
<1>. QED  BY <1>1 DEF NoOther

LEMMA DoomedLater ==
  ASSUME NEW r, NoOther(r), NEW p, Doomed(p)'
  PROVE  Doomed(p) \/ (r.kind = "rename" /\ r.pc = "drop" /\ r.from = p)
BY DEF NoOther, Doomed

\* Nothing that comes to p now would be lost with it.
Quiet(p) ==
  ~ \E o \in Ops : op[o].kind = "rename" /\ op[o].from = p /\ op[o].pc \in {"upload", "drop"}

LEMMA KeptStep ==
  ASSUME Fit, AllKept, NEW r, NoOther(r), Carried(r)', service' = service,
         asked \subseteq asked', raced \subseteq raced',
         \A p \in Paths : store'[p].file \in {store[p].file, 0} \cup raced' \/ Quiet(p),
         \A v \in (1 .. born)' \ folders' : v \in (1 .. born) \ folders \/ Kept(v)',
         \A v \in 1 .. born : \A p \in Paths : store[p].file = v /\ ~Doomed(p) => Kept(v)'
  PROVE  AllKept'
<1>1. ASSUME NEW v \in (1 .. born)' \ folders' PROVE Kept(v)'
  <2>1. CASE v \in (1 .. born) \ folders
    <3>1. CASE v \in asked \/ (Flat /\ v \in raced)
      BY <3>1 DEF Kept, Flat
    <3>2. CASE \E p \in Paths : store[p].file = v /\ ~Doomed(p)
      BY <2>1, <3>2
    <3>. QED  BY <2>1, <3>1, <3>2 DEF AllKept, Kept
  <2>. QED  BY <1>1, <2>1
<1>2. ASSUME NEW c \in Ops, NEW x, x = op'[c] PROVE Carried(x)'
  <2>1. SUFFICES ASSUME x.kind = "rename", x.pc = "upload", x # r
                 PROVE  store'[x.from].file \in {0, x.saw} \cup raced'
    BY DEF Carried
  <2>2. PICK y : y = op[c] /\ y.kind = "rename" /\ y.pc = "upload" /\ y.from = x.from /\ y.saw = x.saw
    BY <1>2, <2>1 DEF NoOther
  <2>3. Carried(y) /\ Fits(y)
    BY <2>2 DEF AllKept, Fit, Commands
  <2>4. store[y.from].file \in {0, y.saw} \cup raced /\ y.from \in Paths
    BY <2>2, <2>3 DEF Carried, Fits
  <2>5. ~Quiet(y.from)
    BY <2>2 DEF Quiet
  <2>. QED  BY <2>2, <2>4, <2>5
<1>. QED  BY <1>1, <1>2 DEF AllKept, Commands

----------------------------------------------------------------------------
(* The kinds of step *)

LEMMA OrderlySame ==
  ASSUME Orderly, store' = store, service' = service
  PROVE  Orderly'
BY DEF Orderly, Flat, Tree, Apart, Taken, Holds, Item

\* The store is as it was.
LEMMA StoreStays ==
  ASSUME IInv, NEW o \in Ops, NEW r, Becomes(o, r), r \in CommandUpTo(born), Fits(r), Knows(r)',
         Carried(r)', ~(r.kind = "rename" /\ r.pc = "drop"),
         UNCHANGED <<store, born, folders, asked, raced>>
  PROVE  IInv'
<1>. USE DEF IInv
<1>1. service' = service /\ NoOther(r) /\ born \in Nat
  BY BecomesNoOther DEF Becomes, Numbered, StoreTyped
<1>2. op' \in [Ops -> CommandUpTo(born')] /\ Fit' /\ Known'
  BY <1>1, CommandsStep
<1>3. Numbered'
  BY <1>1, <1>2 DEF Numbered, StoreTyped
<1>4. \A p \in Paths : Doomed(p)' => Doomed(p)
  BY <1>1, DoomedLater
<1>5. \A v \in 1 .. born : \A p \in Paths : store[p].file = v /\ ~Doomed(p) => Kept(v)'
  BY <1>4 DEF Kept
<1>6. AllKept'
  BY <1>1, <1>5, KeptStep
<1>. QED  BY <1>1, <1>2, <1>3, <1>6, OrderlySame

\* Directories change, and no file.
LEMMA FilesStay ==
  ASSUME IInv, NEW o \in Ops, NEW r, Becomes(o, r), born' \in Nat, born' <= MaxBorn,
         r \in CommandUpTo(born'), Fits(r), Knows(r)', Carried(r)', ~(r.kind = "rename" /\ r.pc = "drop"),
         StoreTyped', Orderly', \A p \in Paths : store'[p].file = store[p].file,
         \/ born' = born /\ folders' = folders
         \/ born' = born + 1 /\ folders' = folders \cup {born + 1},
         UNCHANGED <<asked, raced>>
  PROVE  IInv'
<1>. USE DEF IInv
<1>1. service' = service /\ NoOther(r) /\ born \in Nat /\ born <= born'
  BY BecomesNoOther DEF Becomes, Numbered, StoreTyped
<1>2. op' \in [Ops -> CommandUpTo(born')] /\ Fit' /\ Known'
  BY <1>1, CommandsStep
<1>3. \A v \in 1 .. born : v \in 1 .. born'
  BY <1>1
<1>4. Numbered'
  <2>0. folders \subseteq 1 .. born
    BY DEF Numbered
  <2>1. folders' \subseteq 1 .. born'
    <3>1. CASE born' = born /\ folders' = folders
      BY <2>0, <3>1
    <3>2. CASE born' = born + 1 /\ folders' = folders \cup {born + 1}
      <4>1. born + 1 \in 1 .. born'
        BY <1>1, <3>2
      <4>. QED  BY <1>3, <2>0, <3>2, <4>1
    <3>. QED  BY <3>1, <3>2
  <2>2. asked' \subseteq 1 .. born' /\ raced' \subseteq 1 .. born'
    BY <1>3 DEF Numbered
  <2>. QED  BY <1>1, <1>2, <2>1, <2>2 DEF Numbered
<1>5. \A p \in Paths : Doomed(p)' => Doomed(p)
  BY <1>1, DoomedLater
<1>6. \A v \in 1 .. born : \A p \in Paths : store[p].file = v /\ ~Doomed(p) => Kept(v)'
  BY <1>5 DEF Kept
<1>7. \A v \in (1 .. born)' \ folders' : v \in (1 .. born) \ folders
  BY <1>1
<1>8. AllKept'
  BY <1>1, <1>6, <1>7, KeptStep
<1>. QED  BY <1>2, <1>4, <1>8

\* Files go, at most those somebody asked for and those whose copy is there.
LEMMA FilesGo ==
  ASSUME IInv, NEW o \in Ops, NEW r, Becomes(o, r), r \in CommandUpTo(born), Fits(r), Knows(r)',
         Carried(r)', ~(r.kind = "rename" /\ r.pc = "drop"),
         StoreTyped', Orderly',
         \A p \in Paths : \/ store'[p].file = store[p].file
                          \/ store'[p].file = 0 /\ (store[p].file \in asked' \/ Doomed(p)),
         asked \subseteq asked', asked' \subseteq 1 .. born, UNCHANGED <<born, folders, raced>>
  PROVE  IInv'
<1>. USE DEF IInv
<1>1. service' = service /\ NoOther(r) /\ born \in Nat
  BY BecomesNoOther DEF Becomes, Numbered, StoreTyped
<1>2. op' \in [Ops -> CommandUpTo(born')] /\ Fit' /\ Known'
  BY <1>1, CommandsStep
<1>3. Numbered'
  BY <1>1, <1>2 DEF Numbered
<1>4. \A p \in Paths : Doomed(p)' => Doomed(p)
  BY <1>1, DoomedLater
<1>5. ASSUME NEW v \in 1 .. born, NEW p \in Paths, store[p].file = v, ~Doomed(p) PROVE Kept(v)'
  <2>1. CASE store'[p].file = store[p].file
    BY <1>4, <1>5, <2>1 DEF Kept
  <2>2. CASE store[p].file \in asked'
    BY <1>5, <2>2 DEF Kept
  <2>. QED  BY <1>5, <2>1, <2>2
<1>6. \A p \in Paths : store'[p].file \in {store[p].file, 0}
  OBVIOUS
<1>7. AllKept'
  BY <1>1, <1>5, <1>6, KeptStep
<1>. QED  BY <1>2, <1>3, <1>7

\* What a rename read at from comes to its new name.
LEMMA FileCopied ==
  ASSUME IInv, Flat, NEW o \in Ops, NEW r, Becomes(o, r), r \in CommandUpTo(born), Fits(r), Knows(r)',
         r.kind = "rename", r.pc = "drop", r.from \in Paths, r.to \in Paths, r.to # r.from,
         NEW v \in 1 .. born, store' = [store EXCEPT ![r.to].file = v], Arrives(v, r.to),
         store[r.from].file \in {0, v} \cup raced, UNCHANGED <<born, folders>>
  PROVE  IInv'
<1>. USE DEF IInv
<1>1. service' = service /\ NoOther(r) /\ born \in Nat /\ StoreTyped
  BY BecomesNoOther DEF Becomes, Numbered, StoreTyped
<1>2. op' \in [Ops -> CommandUpTo(born')] /\ Fit' /\ Known'
  BY <1>1, CommandsStep
<1>3. ASSUME NEW p \in Paths
      PROVE  /\ p # r.to => store'[p] = store[p]
             /\ store'[p] \in [file : 0 .. born, dir : 0 .. born]
             /\ store'[r.to].file = v
  BY DEF StoreTyped, Numbered
<1>4. StoreTyped'
  BY <1>1, <1>3 DEF StoreTyped
<1>5. /\ asked' = asked \cup ({store[r.to].file} \ {0, v})
      /\ raced' = raced \/ raced' = raced \cup {v}
      /\ ~Quiet(r.to) => v \in raced'
  BY DEF Arrives, Quiet, Over
<1>6. asked' \subseteq 1 .. born /\ raced' \subseteq 1 .. born
  <2>1. store[r.to].file \in 0 .. born
    BY <1>1 DEF StoreTyped
  <2>. QED  BY <1>5, <2>1 DEF Numbered
<1>7. Numbered'
  BY <1>1, <1>2, <1>4, <1>6 DEF Numbered
<1>8. \A p \in Paths : Doomed(p)' => Doomed(p) \/ p = r.from
  BY <1>1, DoomedLater
<1>9. Kept(v)'
  <2>1. CASE Quiet(r.to)
    <3>1. ~Doomed(r.to)'
      BY <2>1, <1>8 DEF Quiet, Doomed
    <3>. QED  BY <1>3, <3>1 DEF Kept
  <2>2. CASE ~Quiet(r.to)
    BY <1>1, <1>5, <2>2 DEF Kept, Flat
  <2>. QED  BY <2>1, <2>2
<1>10. ASSUME NEW w \in 1 .. born, NEW p \in Paths, store[p].file = w, ~Doomed(p) PROVE Kept(w)'
  <2>1. CASE w = v
    BY <1>9, <2>1
  <2>2. CASE p = r.to /\ w # v
    <3>1. w \in asked'
      BY <1>5, <1>10, <2>2
    <3>. QED  BY <3>1 DEF Kept
  <2>3. CASE p = r.from /\ w # v
    <3>1. w \in raced'
      BY <1>5, <1>10, <2>3
    <3>. QED  BY <1>1, <3>1 DEF Kept, Flat
  <2>4. CASE p # r.to /\ p # r.from
    BY <1>3, <1>8, <1>10, <2>4 DEF Kept
  <2>. QED  BY <2>1, <2>2, <2>3, <2>4
<1>11. \A p \in Paths : store'[p].file \in {store[p].file, 0} \cup raced' \/ Quiet(p)
  BY <1>3, <1>5
<1>12. Carried(r)'
  BY DEF Carried
<1>13. AllKept'
  BY <1>1, <1>5, <1>10, <1>11, <1>12, KeptStep
<1>14. Orderly'
  BY <1>1 DEF Orderly, Flat
<1>. QED  BY <1>2, <1>7, <1>13, <1>14

\* An entry moves.
LEMMA EntryMoves ==
  ASSUME IInv, ~Flat, NEW o \in Ops, NEW r, Becomes(o, r), r \in CommandUpTo(born), Fits(r), Knows(r)',
         r.pc = "ok", NEW p \in Paths, NEW q \in Paths, CanMove(p, q), Holds(Parent(q)),
         store' = Moved(p, q), UNCHANGED <<born, folders, asked, raced>>
  PROVE  IInv'
<1>. USE DEF IInv
<1>1. service' = service /\ NoOther(r) /\ born \in Nat /\ StoreTyped /\ Tree /\ Apart
  BY BecomesNoOther DEF Becomes, Numbered, StoreTyped, Orderly
<1>2. op' \in [Ops -> CommandUpTo(born')] /\ Fit' /\ Known'
  BY <1>1, CommandsStep
<1>3. StoreTyped'
  BY <1>1, MovedTyped DEF StoreTyped
<1>4. Numbered'
  BY <1>1, <1>2, <1>3 DEF Numbered
<1>5. Tree' /\ Apart'
  BY <1>1, MovedTree, MovedApart
<1>6. ASSUME NEW x \in Paths PROVE ~Doomed(x) /\ ~Doomed(x)' /\ Quiet(x)
  <2>1. Quiet(x)
    BY DEF Quiet, Fit, Fits, Commands
  <2>2. ~Doomed(x)
    BY <2>1 DEF Quiet, Doomed
  <2>. QED  BY <1>1, <2>1, <2>2, DoomedLater
<1>7. ASSUME NEW v \in 1 .. born, NEW s \in Paths, store[s].file = v PROVE Kept(v)'
  <2>1. Taken(s)
    BY <1>7 DEF Taken, Nothing
  <2>2. PICK x \in Paths \ ({p} \cup Below(p)) : Whence(p, q, x) = s
    BY <1>1, <2>1, Arrival
  <2>3. store'[x] = store[s]
    BY <2>2, MovedAt
  <2>. QED  BY <1>6, <1>7, <2>3 DEF Kept
<1>8. Carried(r)'
  BY DEF Carried
<1>9. AllKept'
  BY <1>1, <1>6, <1>7, <1>8, KeptStep
<1>. QED  BY <1>2, <1>4, <1>5, <1>9 DEF Orderly

----------------------------------------------------------------------------
(* Requests that change nothing *)

LEMMA CommandIs ==
  ASSUME IInv, NEW o \in Ops
  PROVE  /\ op \in [Ops -> CommandUpTo(born)] /\ born \in Nat /\ 0 \in 0 .. born
         /\ op[o] \in CommandUpTo(born) /\ Fits(op[o]) /\ Knows(op[o])
BY DEF IInv, Numbered, StoreTyped, Fit, Known, Commands

LEMMA EntryIs ==
  ASSUME IInv, NEW p \in Paths
  PROVE  /\ store[p].file \in 0 .. born /\ store[p].dir \in 0 .. born
         /\ Taken(p) <=> (store[p].file # 0 \/ store[p].dir # 0)
<1>1. store[p] \in [file : 0 .. born, dir : 0 .. born]
  BY DEF IInv, Numbered, StoreTyped
<1>. QED  BY <1>1 DEF Taken, Nothing

LEMMA GoesOn ==
  ASSUME IInv, NEW o \in Ops, NEW r, r \in CommandUpTo(born), Fits(r), Knows(r),
         op' = [op EXCEPT ![o] = r], r.kind = "rename" => r.pc # "drop", Carried(r),
         UNCHANGED <<service, store, born, folders, asked, raced>>
  PROVE  IInv'
<1>1. Becomes(o, r)
  BY ExceptIs, CommandIs
<1>2. Knows(r)'
  BY KnowsSame
<1>3. Carried(r)'
  BY DEF Carried
<1>. QED  BY <1>1, <1>2, <1>3, StoreStays

LEMMA FailsStep ==
  ASSUME IInv, NEW o \in Ops, Goes(o, "failed")
  PROVE  IInv'
<1>1. PICK f : f = Failed
  OBVIOUS
<1>2. op' = [op EXCEPT ![o] = f] /\ UNCHANGED <<service, store, born, folders, asked, raced>>
  BY <1>1 DEF Goes
<1>3. f \in CommandUpTo(born) /\ Fits(f) /\ Knows(f) /\ Carried(f) /\ f.kind = "none"
  BY <1>1, UnusedIs, CommandIs
<1>. QED  BY <1>2, <1>3, GoesOn

LEMMA BeginStep ==
  ASSUME IInv, NEW o \in Ops, Begin(o)
  PROVE  IInv'
<1>1. PICK kind \in {"delete", "rename", "mkdir"}, from \in Paths, to \in Paths :
        /\ IF kind = "rename" THEN to # from /\ to \in Below(Parent(from)) ELSE to = from
        /\ op' = [op EXCEPT ![o].kind = kind, ![o].from = from, ![o].to = to, ![o].pc = "head"]
  BY DEF Begin
<1>2. PICK y : y = op[o] /\ y \in CommandUpTo(born) /\ Fits(y) /\ y.pc = "none"
  BY CommandIs DEF Begin, At
<1>3. PICK r : r = [y EXCEPT !.kind = kind, !.from = from, !.to = to, !.pc = "head"]
  OBVIOUS
<1>4. op' = [op EXCEPT ![o] = r]
  BY <1>1, <1>2, <1>3, CommandIs
<1>5. r \in CommandUpTo(born) /\ r.kind = kind /\ r.pc = "head" /\ r.from = from /\ r.to = to
  BY <1>2, <1>3 DEF CommandUpTo
<1>6. Fits(r) /\ Knows(r) /\ Carried(r)
  BY <1>1, <1>5 DEF Fits, Knows, Carried
<1>. QED  BY <1>4, <1>5, <1>6, GoesOn DEF Begin

LEMMA AskKindStep ==
  ASSUME IInv, NEW o \in Ops, Flat,
         \/ op[o].kind = "delete" /\ AskKind(o, "drop")
         \/ op[o].kind = "rename" /\ AskKind(o, "copy")
  PROVE  IInv'
<1>1. PICK next \in {"drop", "copy"} :
        AskKind(o, next) /\ op[o].kind = IF next = "drop" THEN "delete" ELSE "rename"
  OBVIOUS
<1>2. PICK y : y = op[o] /\ y \in CommandUpTo(born) /\ Fits(y) /\ y.pc = "head"
  BY <1>1, CommandIs DEF AskKind, At
<1>3. PICK v : v = store[y.from].file
  OBVIOUS
<1>4. v \in 0 .. born /\ y.from \in Paths
  BY <1>2, <1>3, EntryIs DEF Fits
<1>5. PICK r : r = [y EXCEPT !.pc = IF v # 0 THEN next ELSE "look",
                             !.was = IF v # 0 THEN "file" ELSE "dir", !.saw = v]
  OBVIOUS
<1>6. op' = [op EXCEPT ![o] = r] /\ UNCHANGED <<service, store, born, folders, asked, raced>>
  BY <1>1, <1>2, <1>3, <1>5, CommandIs DEF AskKind
<1>7. /\ r \in CommandUpTo(born) /\ r.kind = y.kind /\ r.from = y.from /\ r.to = y.to
      /\ r.pc = IF v # 0 THEN next ELSE "look"
      /\ r.was = IF v # 0 THEN "file" ELSE "dir"
      /\ r.saw = v
  BY <1>2, <1>4, <1>5 DEF CommandUpTo
<1>8. Fits(r)
  BY <1>1, <1>2, <1>7 DEF Fits
<1>9. Knows(r)
  BY <1>1, <1>2, <1>3, <1>7 DEF Knows
<1>10. Carried(r) /\ (r.kind = "rename" => r.pc # "drop")
  BY <1>1, <1>2, <1>7 DEF Carried
<1>. QED  BY <1>6, <1>7, <1>8, <1>9, <1>10, GoesOn

LEMMA LookStep ==
  ASSUME IInv, NEW o \in Ops, Flat, NEW found, found \in {S3Found(op[o].from), AzFound(op[o].from)},
         \/ op[o].kind = "delete" /\ Look(o, found, "unmark")
         \/ op[o].kind = "rename" /\ Look(o, found, "copymarker")
  PROVE  IInv'
<1>1. PICK next \in {"unmark", "copymarker"} :
        Look(o, found, next) /\ op[o].kind = IF next = "unmark" THEN "delete" ELSE "rename"
  OBVIOUS
<1>2. CASE ~(found.marker /\ ~found.children)
  BY <1>1, <1>2, FailsStep DEF Look
<1>3. CASE found.marker /\ ~found.children
  <2>1. PICK y : y = op[o] /\ y \in CommandUpTo(born) /\ Fits(y) /\ Knows(y) /\ y.pc = "look"
    BY <1>1, CommandIs DEF Look, At
  <2>2. PICK r : r = [y EXCEPT !.pc = next]
    OBVIOUS
  <2>3. op' = [op EXCEPT ![o] = r] /\ UNCHANGED <<service, store, born, folders, asked, raced>>
    BY <1>1, <1>3, <2>1, <2>2 DEF Look, Goes, To
  <2>4. /\ r \in CommandUpTo(born) /\ r.kind = y.kind /\ r.from = y.from /\ r.to = y.to
        /\ r.pc = next /\ r.was = y.was /\ r.saw = y.saw /\ (r.alone <=> y.alone)
    BY <2>1, <2>2 DEF CommandUpTo
  <2>5. Fits(r)
    BY <1>1, <2>1, <2>4 DEF Fits
  <2>6. Empty(y.from, y.from)
    BY <1>3, <2>1 DEF S3Found, AzFound, Empty
  <2>7. Knows(r)
    BY <1>1, <2>1, <2>4, <2>6 DEF Knows
  <2>8. Carried(r)
    BY <2>4 DEF Carried
  <2>. QED  BY <2>3, <2>4, <2>5, <2>7, <2>8, GoesOn
<1>. QED  BY <1>2, <1>3

LEMMA DownloadStep ==
  ASSUME IInv, NEW o \in Ops, AzDownload(o) \/ AzDownloadMarker(o)
  PROVE  IInv'
<1>1. PICK y : y = op[o] /\ y \in CommandUpTo(born) /\ Fits(y) /\ Knows(y) /\ y.pc \in {"copy", "copymarker"}
  BY CommandIs DEF AzDownload, AzDownloadMarker, At
<1>2. PICK v : v = IF y.pc = "copy" THEN store[y.from].file ELSE store[y.from].dir
  OBVIOUS
<1>3. v # 0 /\ v \in 0 .. born
  BY <1>1, <1>2, EntryIs DEF Fits, AzDownload, AzDownloadMarker, At
<1>4. PICK r : r = [y EXCEPT !.pc = IF y.pc = "copy" THEN "upload" ELSE "upmarker", !.saw = v]
  OBVIOUS
<1>5. op' = [op EXCEPT ![o] = r] /\ UNCHANGED <<service, store, born, folders, asked, raced>>
  <2>1. CASE y.pc = "copy"
    BY <1>1, <1>2, <1>4, <2>1, CommandIs DEF AzDownload, AzDownloadMarker, At
  <2>2. CASE y.pc = "copymarker"
    BY <1>1, <1>2, <1>4, <2>2, CommandIs DEF AzDownload, AzDownloadMarker, At
  <2>. QED  BY <1>1, <2>1, <2>2
<1>6. /\ r \in CommandUpTo(born) /\ r.kind = y.kind /\ r.from = y.from /\ r.to = y.to
      /\ r.pc = IF y.pc = "copy" THEN "upload" ELSE "upmarker"
      /\ r.was = y.was /\ r.saw = v /\ (r.alone <=> y.alone)
  BY <1>1, <1>3, <1>4 DEF CommandUpTo
<1>7. Fits(r)
  BY <1>1, <1>3, <1>6 DEF Fits
<1>8. Knows(r)
  BY <1>1, <1>6 DEF Knows
<1>9. Carried(r)
  BY <1>1, <1>2, <1>6 DEF Carried
<1>10. r.pc # "drop"
  BY <1>6
<1>. QED  BY <1>5, <1>6, <1>7, <1>8, <1>9, <1>10, GoesOn

LEMMA StatIs ==
  ASSUME IInv, NEW p \in Paths
  PROVE  /\ Stat(p) \in {"file", "dir", "none"}
         /\ ~Flat => /\ (Stat(p) = "file") <=> (store[p].file # 0)
                     /\ (Stat(p) = "dir") <=> (store[p].dir # 0)
                     /\ Item(p) \in 0 .. born
                     /\ Taken(p) => Item(p) # 0
                     /\ store[p].file # 0 => Item(p) = store[p].file /\ store[p].dir = 0
                     /\ store[p].dir # 0 => Item(p) = store[p].dir /\ store[p].file = 0
<1>1. service \in {"s3", "azure", "sftp", "onedrive"} /\ born \in Nat
  BY TreeAssumption DEF IInv, Numbered, StoreTyped
<1>2. Stat(p) \in {S3Stat(p), AzStat(p), SftpStat(p), GraphStat(p)}
  BY <1>1 DEF Stat
<1>3. Stat(p) \in {"file", "dir", "none"}
  BY <1>2 DEF S3Stat, AzStat, SftpStat, GraphStat
<1>4. ASSUME ~Flat PROVE Stat(p) = IF store[p].dir # 0 THEN "dir" ELSE IF Taken(p) THEN "file" ELSE "none"
  BY <1>1, <1>4 DEF Stat, SftpStat, GraphStat, Flat
<1>5. ~Flat => store[p].file = 0 \/ store[p].dir = 0
  BY DEF IInv, Orderly, Tree
<1>6. ~Flat => /\ Item(p) \in 0 .. born
               /\ Taken(p) => Item(p) # 0
               /\ store[p].file # 0 => Item(p) = store[p].file /\ store[p].dir = 0
               /\ store[p].dir # 0 => Item(p) = store[p].dir /\ store[p].file = 0
  BY <1>1, <1>5, EntryIs DEF Item
<1>7. ~Flat => /\ (Stat(p) = "file") <=> (store[p].file # 0)
               /\ (Stat(p) = "dir") <=> (store[p].dir # 0)
  BY <1>4, <1>5, EntryIs
<1>. QED  BY <1>3, <1>6, <1>7

LEMMA FolderIs ==
  ASSUME IInv, NEW p \in Paths
  PROVE  /\ FolderId(Parent(p)) \in 0 .. born
         /\ ~Flat /\ Taken(p) => Holds(Parent(p))
<1>1. Parent(p) = <<>> \/ Parent(p) \in Paths
  BY Family
<1>2. FolderId(Parent(p)) \in 0 .. born
  BY <1>1, EntryIs, CommandIs DEF FolderId, IInv, Numbered, StoreTyped
<1>. QED  BY <1>2 DEF IInv, Orderly, Tree

LEMMA SftpAskStep ==
  ASSUME IInv, NEW o \in Ops, ~Flat, op[o].kind = "delete", SftpAsk(o)
  PROVE  IInv'
<1>1. PICK y : y = op[o] /\ y \in CommandUpTo(born) /\ Fits(y) /\ y.pc = "head" /\ y.kind = "delete"
  BY CommandIs DEF SftpAsk, At
<1>2. PICK was : was = Stat(y.from) /\ was \in {"file", "dir", "none"}
  BY <1>1, StatIs DEF Fits
<1>3. PICK r : r = [y EXCEPT !.pc = IF was = "dir" THEN "rmdir" ELSE "rmfile", !.was = was]
  OBVIOUS
<1>4. op' = [op EXCEPT ![o] = r] /\ UNCHANGED <<service, store, born, folders, asked, raced>>
  BY <1>1, <1>2, <1>3, CommandIs DEF SftpAsk
<1>5. /\ r \in CommandUpTo(born) /\ r.kind = y.kind /\ r.from = y.from /\ r.to = y.to
      /\ r.pc = (IF was = "dir" THEN "rmdir" ELSE "rmfile") /\ r.was = was
  BY <1>1, <1>2, <1>3 DEF CommandUpTo
<1>6. Fits(r) /\ Knows(r) /\ Carried(r) /\ r.pc # "drop"
  BY <1>1, <1>5 DEF Fits, Knows, Carried
<1>. QED  BY <1>4, <1>5, <1>6, GoesOn

LEMMA GraphAskStep ==
  ASSUME IInv, NEW o \in Ops, ~Flat, op[o].kind = "rename", GraphAsk(o)
  PROVE  IInv'
<1>1. PICK y : y = op[o] /\ y \in CommandUpTo(born) /\ Fits(y) /\ y.pc = "head" /\ y.kind = "rename"
  BY CommandIs DEF GraphAsk, At
<1>2. y.from \in Paths /\ y.to \in Paths /\ Taken(y.from)
  BY <1>1 DEF GraphAsk, Fits
<1>3. PICK was, saw, home : /\ was = Stat(y.from) /\ was \in {"file", "dir", "none"}
                            /\ saw = Item(y.from) /\ saw \in 0 .. born /\ saw # 0
                            /\ home = FolderId(Parent(y.from)) /\ home \in 0 .. born
  BY <1>2, StatIs, FolderIs
<1>p. PICK pc \in {"patch", "parent"} : pc = IF Parent(y.from) = Parent(y.to) THEN "patch" ELSE "parent"
  OBVIOUS
<1>4. PICK r : r = [y EXCEPT !.pc = pc, !.was = was, !.saw = saw, !.home = home, !.into = home]
  OBVIOUS
<1>5. op' = [op EXCEPT ![o] = r] /\ UNCHANGED <<service, store, born, folders, asked, raced>>
  BY <1>1, <1>3, <1>p, <1>4, CommandIs DEF GraphAsk
<1>6. /\ r \in CommandUpTo(born) /\ r.kind = y.kind /\ r.from = y.from /\ r.to = y.to
      /\ r.pc = pc /\ r.was = was /\ r.saw = saw /\ r.home = home /\ r.into = home
  BY <1>1, <1>3, <1>4 DEF CommandUpTo
<1>7. Fits(r) /\ Carried(r) /\ r.pc # "drop"
  BY <1>1, <1>2, <1>3, <1>6 DEF Fits, Carried
<1>8. r.pc = "patch" => r.into = FolderId(Parent(r.to)) /\ Holds(Parent(r.to))
  BY <1>2, <1>3, <1>p, <1>6, FolderIs
<1>9. Knows(r)
  BY <1>3, <1>6, <1>8 DEF Knows
<1>. QED  BY <1>5, <1>6, <1>7, <1>9, GoesOn

LEMMA GraphAskParentStep ==
  ASSUME IInv, NEW o \in Ops, GraphAskParent(o)
  PROVE  IInv'
<1>1. PICK y : y = op[o] /\ y \in CommandUpTo(born) /\ Fits(y) /\ Knows(y) /\ y.pc = "parent"
  BY CommandIs DEF GraphAskParent, At
<1>2. PICK into : into = FolderId(Parent(y.to)) /\ into \in 0 .. born
  BY <1>1, FolderIs DEF Fits
<1>3. PICK r : r = [y EXCEPT !.pc = "patch", !.into = into]
  OBVIOUS
<1>4. op' = [op EXCEPT ![o] = r] /\ UNCHANGED <<service, store, born, folders, asked, raced>>
  BY <1>1, <1>2, <1>3, CommandIs DEF GraphAskParent
<1>5. /\ r \in CommandUpTo(born) /\ r.kind = y.kind /\ r.from = y.from /\ r.to = y.to
      /\ r.pc = "patch" /\ r.was = y.was /\ r.saw = y.saw /\ r.home = y.home /\ r.into = into
      /\ (r.alone <=> y.alone)
  BY <1>1, <1>2, <1>3 DEF CommandUpTo
<1>6. Holds(Parent(y.to))
  BY <1>1 DEF GraphAskParent
<1>7. Fits(r) /\ Carried(r)
  BY <1>1, <1>5 DEF Fits, Carried
<1>8. Knows(r)
  BY <1>1, <1>2, <1>5, <1>6 DEF Knows
<1>. QED  BY <1>4, <1>5, <1>7, <1>8, GoesOn

----------------------------------------------------------------------------
(* Requests that change the store *)

\* What To(o, pc) is.
LEMMA ToIs ==
  ASSUME NEW b \in Nat, NEW y \in CommandUpTo(b), NEW pc \in {"ok", "drop", "unmark"}, NEW r, r = [y EXCEPT !.pc = pc]
  PROVE  /\ r \in CommandUpTo(b) /\ r.pc = pc /\ r.kind = y.kind /\ r.from = y.from /\ r.to = y.to
         /\ r.was = y.was /\ r.saw = y.saw /\ (r.alone <=> y.alone)
BY DEF CommandUpTo

LEMMA OkFits ==
  ASSUME NEW r, r.pc = "ok"
  PROVE  Fits(r) /\ Carried(r)' /\ ~(r.kind = "rename" /\ r.pc = "drop")
BY DEF Fits, Carried

LEMMA DropFileStep ==
  ASSUME IInv, NEW o \in Ops, Flat, op[o].kind \in {"delete", "rename"}, DropFile(o)
  PROVE  IInv'
<1>1. PICK y : y = op[o] /\ y \in CommandUpTo(born) /\ Fits(y) /\ Knows(y) /\ y.pc = "drop"
  BY CommandIs DEF DropFile, At
<1>2. y.from \in Paths /\ y.to \in Paths /\ y.was = "file" /\ (y.kind = "rename" => y.to # y.from)
  BY <1>1 DEF Fits
<1>3. PICK r : r = [y EXCEPT !.pc = "ok"]
  OBVIOUS
<1>4. r = To(o, "ok")
  BY <1>1, <1>3 DEF To
<1>5. store' = [store EXCEPT ![y.from]["file"] = 0] /\ Becomes(o, r)
  BY <1>1, <1>4, ChangesIs DEF DropFile, Gone
<1>6. ASSUME NEW p \in Paths
      PROVE  /\ p # y.from => store'[p] = store[p]
             /\ store'[p] \in [file : 0 .. born, dir : 0 .. born]
             /\ store'[y.from].file = 0
  <2>1. store \in [Paths -> [file : 0 .. born, dir : 0 .. born]] /\ 0 \in 0 .. born
    BY CommandIs DEF IInv, Numbered, StoreTyped
  <2>. QED  BY <1>2, <1>5, <2>1
<1>7. StoreTyped'
  <2>1. born' = born /\ born \in Nat
    BY CommandIs DEF DropFile
  <2>. QED  BY <1>5, <1>6, <2>1 DEF StoreTyped, IInv, Numbered
<1>8. /\ r \in CommandUpTo(born) /\ r.pc = "ok" /\ r.kind = y.kind /\ r.from = y.from /\ r.to = y.to
      /\ r.was = y.was /\ r.saw = y.saw /\ (r.alone <=> y.alone)
  BY <1>1, <1>3, CommandIs, ToIs
<1>9. Knows(r)'
  <2>1. CASE y.kind = "delete"
    <3>1. Done(r)'
      BY <1>2, <1>6, <1>8, <2>1 DEF Done
    <3>. QED  BY <1>8, <3>1 DEF Knows
  <2>2. CASE y.kind = "rename"
    <3>1. y.alone => store'[r.to].file = r.saw
      BY <1>1, <1>2, <1>6, <1>8, <2>2 DEF Knows
    <3>2. r.alone => Done(r)'
      BY <1>2, <1>6, <1>8, <2>2, <3>1 DEF Done
    <3>. QED  BY <1>8, <3>2 DEF Knows
  <2>. QED  BY <1>1, <2>1, <2>2
<1>10. store[y.from].file \in asked' \cup {0} \/ Doomed(y.from)
  <2>1. CASE y.kind = "delete"
    BY <1>1, <2>1 DEF DropFile
  <2>2. CASE y.kind = "rename"
    BY <1>1, <2>2 DEF Doomed
  <2>. QED  BY <1>1, <2>1, <2>2
<1>11. \A p \in Paths : \/ store'[p].file = store[p].file
                        \/ store'[p].file = 0 /\ (store[p].file \in asked' \/ Doomed(p))
  BY <1>6, <1>10
<1>12. asked \subseteq asked' /\ asked' \subseteq 1 .. born /\ UNCHANGED <<born, folders, raced>>
  <2>1. asked' = asked \/ asked' = asked \cup ({store[y.from].file} \ {0})
    BY <1>1 DEF DropFile
  <2>2. {store[y.from].file} \ {0} \subseteq 1 .. born
    BY <1>2, EntryIs, CommandIs
  <2>3. asked \subseteq 1 .. born
    BY DEF IInv, Numbered
  <2>. QED  BY <2>1, <2>2, <2>3 DEF DropFile
<1>13. Orderly'
  BY <1>5 DEF Orderly, Flat, Becomes
<1>. QED  BY <1>5, <1>7, <1>8, <1>9, <1>11, <1>12, <1>13, OkFits, FilesGo

\* What stat() answers, on a flat store and on one with folders.
LEMMA StatFlat ==
  StoreTyped /\ Flat =>
    \A p \in Paths : /\ (Stat(p) = "file") <=> (store[p].file # 0)
                     /\ (Stat(p) = "dir") <=> (/\ store[p].file = 0
                                               /\ store[p].dir # 0 \/ \E q \in Below(p) : Taken(q))
                     /\ (Stat(p) = "none") <=> (/\ store[p].file = 0 /\ store[p].dir = 0
                                                /\ \A q \in Below(p) : ~Taken(q))
<1>. SUFFICES ASSUME StoreTyped, Flat, NEW p \in Paths
              PROVE  /\ (Stat(p) = "file") <=> (store[p].file # 0)
                     /\ (Stat(p) = "dir") <=> (/\ store[p].file = 0
                                               /\ store[p].dir # 0 \/ \E q \in Below(p) : Taken(q))
                     /\ (Stat(p) = "none") <=> (/\ store[p].file = 0 /\ store[p].dir = 0
                                                /\ \A q \in Below(p) : ~Taken(q))
  OBVIOUS
<1>1. store[p] \in [file : 0 .. born, dir : 0 .. born]
  BY DEF StoreTyped
<1>2. Taken(p) <=> (store[p].file # 0 \/ store[p].dir # 0)
  BY <1>1 DEF Taken, Nothing
<1>3. CASE service = "s3"
  <2>1. Stat(p) = S3Stat(p)
    BY <1>3 DEF Stat
  <2>. QED  BY <1>2, <2>1 DEF S3Stat
<1>4. CASE service = "azure"
  <2>1. Stat(p) = AzStat(p)
    BY <1>4 DEF Stat
  <2>. QED  BY <1>2, <2>1 DEF AzStat, AzFound
<1>. QED  BY <1>3, <1>4 DEF Flat

LEMMA StatFlatNext ==
  (StoreTyped /\ Flat =>
    \A p \in Paths : /\ (Stat(p) = "file") <=> (store[p].file # 0)
                     /\ (Stat(p) = "dir") <=> (/\ store[p].file = 0
                                               /\ store[p].dir # 0 \/ \E q \in Below(p) : Taken(q))
                     /\ (Stat(p) = "none") <=> (/\ store[p].file = 0 /\ store[p].dir = 0
                                                /\ \A q \in Below(p) : ~Taken(q)))'
BY StatFlat, PTL

LEMMA StatNothing ==
  ~Flat /\ service \in Services =>
    \A p \in Paths : store[p] = Nothing => Stat(p) = "none" /\ store[p].file = 0 /\ store[p].dir = 0
BY TreeAssumption DEF Flat, Stat, SftpStat, GraphStat, Taken, Nothing

LEMMA StatNothingNext ==
  (~Flat /\ service \in Services =>
    \A p \in Paths : store[p] = Nothing => Stat(p) = "none" /\ store[p].file = 0 /\ store[p].dir = 0)'
BY StatNothing, PTL

\* A directory, or a file, is put at a path or taken away.
LEMMA SetDir ==
  ASSUME IInv, NEW p \in Paths, born' \in Nat, born <= born', NEW v \in 0 .. born',
         store' = [store EXCEPT ![p].dir = v]
  PROVE  /\ StoreTyped'
         /\ \A x \in Paths : store'[x].file = store[x].file
         /\ \A x \in Paths : x # p => store'[x] = store[x]
         /\ store'[p].dir = v
<1>1. store \in [Paths -> [file : 0 .. born, dir : 0 .. born]]
  BY DEF IInv, Numbered, StoreTyped
<1>2. store'[p].dir = v /\ store'[p].file = store[p].file
      /\ \A x \in Paths : x # p => store'[x] = store[x]
  BY <1>1
<1>3. 0 .. born \subseteq 0 .. born'
  BY CommandIs DEF IInv, Numbered, StoreTyped
<1>4. ASSUME NEW x \in Paths PROVE store'[x] \in [file : 0 .. born', dir : 0 .. born']
  <2>1. CASE x = p
    <3>1. store[p].file \in 0 .. born
      BY <1>1
    <3>2. store'[p] = [store[p] EXCEPT !.dir = v]
      BY <1>1
    <3>. QED  BY <1>1, <1>3, <2>1, <3>2
  <2>2. CASE x # p
    BY <1>1, <1>2, <1>3, <2>2
  <2>. QED  BY <2>1, <2>2
<1>5. StoreTyped'
  BY <1>1, <1>4 DEF StoreTyped
<1>. QED  BY <1>2, <1>5

LEMMA EmptySame ==
  ASSUME NEW p, NEW but, Empty(p, but), \A x \in Below(p) : x # but => store'[x] = store[x]
  PROVE  Empty(p, but)'
BY DEF Empty, Taken

LEMMA DropMarkerStep ==
  ASSUME IInv, NEW o \in Ops, Flat, op[o].kind \in {"delete", "rename"}, DropMarker(o)
  PROVE  IInv'
<1>1. PICK y : y = op[o] /\ y \in CommandUpTo(born) /\ Fits(y) /\ Knows(y) /\ y.pc = "unmark"
  BY CommandIs DEF DropMarker, At
<1>2. y.from \in Paths /\ y.to \in Paths /\ y.was = "dir" /\ (y.kind = "rename" => y.to # y.from)
  BY <1>1 DEF Fits
<1>3. PICK r : r = [y EXCEPT !.pc = "ok"]
  OBVIOUS
<1>4. r = To(o, "ok")
  BY <1>1, <1>3 DEF To
<1>5. store' = [store EXCEPT ![y.from].dir = 0] /\ Becomes(o, r)
  BY <1>1, <1>4, ChangesIs DEF DropMarker, Gone
<1>6. born' = born /\ born \in Nat /\ UNCHANGED <<folders, asked, raced>>
  BY CommandIs DEF DropMarker
<1>7. /\ StoreTyped'
      /\ \A x \in Paths : store'[x].file = store[x].file
      /\ \A x \in Paths : x # y.from => store'[x] = store[x]
      /\ store'[y.from].dir = 0
  <2>1. born' \in Nat /\ born <= born' /\ 0 \in 0 .. born'
    BY <1>6
  <2>. QED  BY <1>2, <1>5, <2>1, SetDir
<1>8. /\ r \in CommandUpTo(born) /\ r.pc = "ok" /\ r.kind = y.kind /\ r.from = y.from /\ r.to = y.to
      /\ r.was = y.was /\ r.saw = y.saw /\ (r.alone <=> y.alone)
  BY <1>1, <1>3, CommandIs, ToIs
<1>9. Flat' /\ Orderly'
  BY <1>5 DEF Orderly, Flat, Becomes
<1>10. ASSUME NEW x \in Below(y.from) PROVE x \in Paths /\ x # y.from /\ (Taken(x)' <=> Taken(x))
  BY <1>2, <1>7, Family DEF Taken
<1>11. Knows(r)'
  <2>1. CASE y.kind = "delete" /\ y.alone
    <3>1. store[y.from].file = 0 /\ \A x \in Below(y.from) : ~Taken(x)
      BY <1>1, <1>10, <2>1 DEF Knows, Empty
    <3>2. Stat(y.from)' = "none"
      BY <1>2, <1>7, <1>9, <1>10, <3>1, StatFlatNext
    <3>3. Done(r)'
      BY <1>2, <1>8, <2>1, <3>2 DEF Done
    <3>. QED  BY <1>8, <3>3 DEF Knows
  <2>2. CASE y.kind = "rename" /\ y.alone
    <3>1. store[y.to].dir # 0 /\ \A x \in Below(y.from) : x = y.to \/ ~Taken(x)
      BY <1>1, <2>2 DEF Knows, Empty
    <3>2. store'[y.to].dir # 0
      BY <1>2, <1>7, <2>2, <3>1
    <3>3. Stat(y.from)' = "dir" => y.to \in Below(y.from)
      BY <1>2, <1>7, <1>9, <1>10, <3>1, StatFlatNext
    <3>4. Done(r)'
      BY <1>2, <1>7, <1>8, <2>2, <3>2, <3>3 DEF Done
    <3>. QED  BY <1>8, <3>4 DEF Knows
  <2>3. CASE ~y.alone
    BY <1>8, <2>3 DEF Knows
  <2>. QED  BY <1>1, <2>1, <2>2, <2>3
<1>12. born' \in Nat /\ born' <= MaxBorn
  BY <1>6 DEF IInv, Numbered
<1>. QED  BY <1>5, <1>6, <1>7, <1>8, <1>9, <1>11, <1>12, OkFits, FilesStay


\* CopyObject, or the upload of what was downloaded, puts v at the new name.
LEMMA CopyStep ==
  ASSUME IInv, NEW o \in Ops, NEW y, y = op[o], y.kind = "rename", y.pc \in {"copy", "upload"},
         NEW v, v = IF y.pc = "copy" THEN store[y.from].file ELSE y.saw, v # 0,
         NEW r, r = [y EXCEPT !.pc = "drop", !.saw = v],
         Changes(o, [store EXCEPT ![y.to].file = v], r), Arrives(v, y.to), UNCHANGED <<born, folders>>
  PROVE  IInv'
<1>1. y \in CommandUpTo(born) /\ Fits(y) /\ born \in Nat
  BY CommandIs
<1>2. y.from \in Paths /\ y.to \in Paths /\ y.was = "file" /\ y.to # y.from /\ Flat
  BY <1>1 DEF Fits
<1>3. v \in 1 .. born
  <2>1. v \in 0 .. born
    <3>1. y.saw \in 0 .. born
      BY <1>1 DEF CommandUpTo
    <3>. QED  BY <1>2, <3>1, EntryIs
  <2>. QED  BY <2>1
<1>4. store' = [store EXCEPT ![y.to].file = v] /\ Becomes(o, r)
  BY ChangesIs
<1>5. v \in 0 .. born
  BY <1>3
<1>6. /\ r \in CommandUpTo(born) /\ r.pc = "drop" /\ r.kind = y.kind /\ r.from = y.from /\ r.to = y.to
      /\ r.was = y.was /\ r.saw = v
  BY <1>1, <1>5 DEF CommandUpTo
<1>7. Fits(r)
  BY <1>1, <1>2, <1>6 DEF Fits
<1>8. Knows(r)'
  <2>1. store'[r.to].file = r.saw
    BY <1>2, <1>4, <1>6 DEF IInv, Numbered, StoreTyped
  <2>. QED  BY <1>6, <2>1 DEF Knows
<1>9. store[y.from].file \in {0, v} \cup raced
  <2>1. Carried(y)
    BY DEF IInv, AllKept, Commands
  <2>. QED  BY <2>1 DEF Carried
<1>. QED  BY <1>2, <1>3, <1>4, <1>6, <1>7, <1>8, <1>9, FileCopied

LEMMA S3CopyStep ==
  ASSUME IInv, NEW o \in Ops, op[o].kind = "rename", S3Copy(o)
  PROVE  IInv'
<1>1. PICK y, v : y = op[o] /\ v = store[y.from].file
  OBVIOUS
<1>2. PICK r : r = [y EXCEPT !.pc = "drop", !.saw = v]
  OBVIOUS
<1>3. [To(o, "drop") EXCEPT !.saw = v] = r
  BY <1>1, <1>2, CommandIs DEF To, CommandUpTo
<1>4. /\ y.pc = "copy" /\ v # 0
      /\ Changes(o, [store EXCEPT ![y.to].file = v], r) /\ Arrives(v, y.to)
      /\ UNCHANGED <<born, folders>>
  BY <1>1, <1>3 DEF S3Copy, At
<1>. QED  BY <1>1, <1>2, <1>4, CopyStep

LEMMA AzUploadStep ==
  ASSUME IInv, NEW o \in Ops, op[o].kind = "rename", AzUpload(o)
  PROVE  IInv'
<1>1. PICK y, v : y = op[o] /\ v = y.saw
  OBVIOUS
<1>2. PICK r : r = [y EXCEPT !.pc = "drop", !.saw = v]
  OBVIOUS
<1>3. y \in CommandUpTo(born) /\ Fits(y) /\ y.pc = "upload"
  BY <1>1, CommandIs DEF AzUpload, At
<1>4. To(o, "drop") = r
  BY <1>1, <1>2, <1>3 DEF To, CommandUpTo
<1>5. /\ v # 0
      /\ Changes(o, [store EXCEPT ![y.to].file = v], r) /\ Arrives(v, y.to)
      /\ UNCHANGED <<born, folders>>
  BY <1>1, <1>3, <1>4 DEF AzUpload, Fits
<1>. QED  BY <1>1, <1>2, <1>3, <1>5, CopyStep

\* The same for a marker.
LEMMA CopyMarkerStep ==
  ASSUME IInv, NEW o \in Ops, S3CopyMarker(o) \/ AzUploadMarker(o)
  PROVE  IInv'
<1>1. PICK y : y = op[o] /\ y \in CommandUpTo(born) /\ Fits(y) /\ Knows(y) /\ y.pc \in {"copymarker", "upmarker"}
  BY CommandIs DEF S3CopyMarker, AzUploadMarker, At
<1>2. y.from \in Paths /\ y.to \in Paths /\ y.was = "dir" /\ y.kind = "rename" /\ y.to # y.from /\ Flat
  BY <1>1 DEF Fits
<1>3. PICK r : r = [y EXCEPT !.pc = "unmark"]
  OBVIOUS
<1>4. r = To(o, "unmark")
  BY <1>1, <1>3 DEF To
<1>5. PICK v : v \in 0 .. born /\ v # 0 /\ Changes(o, [store EXCEPT ![y.to].dir = v], r)
  <2>1. CASE S3CopyMarker(o)
    BY <1>1, <1>2, <1>4, <2>1, EntryIs DEF S3CopyMarker
  <2>2. CASE AzUploadMarker(o)
    <3>1. y.saw \in 0 .. born /\ y.saw # 0
      BY <1>1, <2>2 DEF AzUploadMarker, At, Fits, CommandUpTo
    <3>. QED  BY <1>1, <1>4, <2>2, <3>1 DEF AzUploadMarker
  <2>. QED  BY <2>1, <2>2
<1>6. store' = [store EXCEPT ![y.to].dir = v] /\ Becomes(o, r)
  BY <1>5, ChangesIs
<1>7. born' = born /\ born \in Nat /\ UNCHANGED <<folders, asked, raced>>
  BY CommandIs DEF S3CopyMarker, AzUploadMarker
<1>8. /\ StoreTyped'
      /\ \A x \in Paths : store'[x].file = store[x].file
      /\ \A x \in Paths : x # y.to => store'[x] = store[x]
      /\ store'[y.to].dir = v
  <2>1. born' \in Nat /\ born <= born' /\ v \in 0 .. born'
    BY <1>5, <1>7
  <2>. QED  BY <1>2, <1>6, <2>1, SetDir
<1>9. /\ r \in CommandUpTo(born) /\ r.pc = "unmark" /\ r.kind = y.kind /\ r.from = y.from /\ r.to = y.to
      /\ r.was = y.was /\ r.saw = y.saw /\ (r.alone <=> y.alone)
  BY <1>1, <1>3, CommandIs, ToIs
<1>10. Orderly' /\ born' \in Nat /\ born' <= MaxBorn
  BY <1>2, <1>6, <1>7 DEF Orderly, Flat, Becomes, IInv, Numbered
<1>11. Knows(r)'
  <2>1. CASE y.alone
    <3>1. Empty(y.from, y.to)
      BY <1>1, <2>1 DEF Knows, Empty, Below
    <3>2. Empty(y.from, y.to)'
      BY <1>2, <1>8, <3>1, EmptySame, Family
    <3>3. store'[r.to].dir # 0
      BY <1>5, <1>8, <1>9
    <3>4. r.from = y.from /\ r.to = y.to /\ r.pc = "unmark" /\ r.kind = "rename"
      BY <1>2, <1>9
    <3>. QED  BY <3>2, <3>3, <3>4 DEF Knows, Empty, Taken
  <2>2. CASE ~y.alone
    BY <1>9, <2>2 DEF Knows
  <2>. QED  BY <2>1, <2>2
<1>12. Fits(r)
  BY <1>1, <1>2, <1>9 DEF Fits
<1>13. Carried(r)' /\ ~(r.kind = "rename" /\ r.pc = "drop")
  BY <1>9 DEF Carried
<1>. QED  BY <1>6, <1>7, <1>8, <1>9, <1>10, <1>11, <1>12, <1>13, FilesStay


\* A directory is made, with the next number.
LEMMA MkdirStep ==
  ASSUME IInv, NEW o \in Ops, op[o].kind = "mkdir", op[o].pc = "head", born < MaxBorn,
         \/ Flat
         \/ ~Flat /\ ~Taken(op[o].from) /\ Holds(Parent(op[o].from)),
         Changes(o, [store EXCEPT ![op[o].from].dir = born + 1], To(o, "ok")),
         born' = born + 1, folders' = folders \cup {born + 1}, UNCHANGED <<asked, raced>>
  PROVE  IInv'
<1>1. PICK y : y = op[o] /\ y \in CommandUpTo(born) /\ Fits(y) /\ y.pc = "head" /\ y.kind = "mkdir"
  BY CommandIs
<1>2. y.from \in Paths
  BY <1>1 DEF Fits
<1>3. PICK r : r = [y EXCEPT !.pc = "ok"]
  OBVIOUS
<1>4. r = To(o, "ok")
  BY <1>1, <1>3 DEF To
<1>5. store' = [store EXCEPT ![y.from].dir = born + 1] /\ Becomes(o, r)
  BY <1>1, <1>4, ChangesIs
<1>6. born \in Nat /\ born' \in Nat /\ born <= born' /\ born + 1 \in 0 .. born' /\ born' <= MaxBorn
  BY CommandIs, TreeAssumption
<1>7. /\ StoreTyped'
      /\ \A x \in Paths : store'[x].file = store[x].file
      /\ \A x \in Paths : x # y.from => store'[x] = store[x]
      /\ store'[y.from].dir = born + 1
  BY <1>2, <1>5, <1>6, SetDir
<1>8. /\ r \in CommandUpTo(born) /\ r.pc = "ok" /\ r.kind = y.kind /\ r.from = y.from /\ r.to = y.to
      /\ r.was = y.was /\ r.saw = y.saw /\ (r.alone <=> y.alone)
  BY <1>1, <1>3, CommandIs, ToIs
<1>9. r \in CommandUpTo(born')
  BY <1>6, <1>8 DEF CommandUpTo
<1>10. Knows(r)'
  <2>1. Done(r)'
    BY <1>1, <1>6, <1>7, <1>8 DEF Done
  <2>. QED  BY <1>8, <2>1 DEF Knows
<1>11. Orderly'
  <2>1. CASE Flat
    BY <1>5, <2>1 DEF Orderly, Flat, Becomes
  <2>2. CASE ~Flat
    <3>1. Tree /\ Apart /\ ~Taken(y.from) /\ Holds(Parent(y.from))
      BY <1>1, <2>2 DEF IInv, Orderly
    <3>2. store[y.from].file = 0 /\ store[y.from].dir = 0
      BY <1>2, <3>1, EntryIs
    <3>3. \A x \in Paths : store[x].dir # 0 => store'[x].dir # 0
      BY <1>7, <3>2
    <3>4. \A x : Holds(x) => Holds(x)'
      BY <3>3 DEF Holds
    <3>5. Tree'
      BY <1>2, <1>7, <3>1, <3>2, <3>4 DEF Tree, Taken
    <3>6. ASSUME NEW x \in Paths
          PROVE  /\ x # y.from => Item(x)' = Item(x) /\ Item(x)' \in 0 .. born
                 /\ Item(y.from)' = born + 1
      <4>1. Item(y.from)' = born + 1
        BY <1>2, <1>6, <1>7, <3>2 DEF Item
      <4>2. x # y.from => Item(x)' = Item(x) /\ Item(x)' \in 0 .. born
        BY <1>7, <2>2, StatIs DEF Item
      <4>. QED  BY <4>1, <4>2
    <3>7. Apart'
      <4>1. born + 1 \notin 0 .. born
        BY <1>6
      <4>. QED  BY <3>1, <3>6, <4>1 DEF Apart
    <3>. QED  BY <3>5, <3>7 DEF Orderly
  <2>. QED  BY <2>1, <2>2
<1>. QED  BY <1>5, <1>6, <1>7, <1>8, <1>9, <1>10, <1>11, OkFits, FilesStay

----------------------------------------------------------------------------
(* Servers with folders *)

\* Entries are removed: every other stays, and so do the folders that hold them.
LEMMA RemoveStep ==
  ASSUME IInv, NEW o \in Ops, ~Flat, op[o].kind = "delete", op[o].pc \in {"head", "rmfile", "rmdir"},
         NEW all \in SUBSET Paths, op[o].from \in all,
         \A p \in Paths : Parent(p) \in all /\ Taken(p) => p \in all,
         Changes(o, [p \in Paths |-> IF p \in all THEN Nothing ELSE store[p]], To(o, "ok")),
         asked' = asked \cup ({store[p].file : p \in all} \ {0}), UNCHANGED <<born, folders, raced>>
  PROVE  IInv'
<1>1. PICK y : y = op[o] /\ y \in CommandUpTo(born) /\ Fits(y) /\ y.kind = "delete"
               /\ y.pc \in {"head", "rmfile", "rmdir"}
  BY CommandIs
<1>2. y.from \in Paths
  BY <1>1 DEF Fits
<1>3. PICK r : r = [y EXCEPT !.pc = "ok"]
  OBVIOUS
<1>4. r = To(o, "ok")
  BY <1>1, <1>3 DEF To
<1>5. store' = [p \in Paths |-> IF p \in all THEN Nothing ELSE store[p]] /\ Becomes(o, r)
  BY <1>1, <1>4, ChangesIs
<1>6. born \in Nat /\ born' = born /\ 0 \in 0 .. born
  BY CommandIs
<1>7. ASSUME NEW p \in Paths
      PROVE  /\ p \in all => store'[p] = Nothing /\ store'[p].file = 0 /\ store'[p].dir = 0
             /\ p \notin all => store'[p] = store[p]
             /\ store'[p] \in [file : 0 .. born, dir : 0 .. born]
  <2>1. store[p] \in [file : 0 .. born, dir : 0 .. born]
    BY DEF IInv, Numbered, StoreTyped
  <2>. QED  BY <1>5, <1>6, <2>1 DEF Nothing
<1>8. StoreTyped'
  BY <1>5, <1>6, <1>7 DEF StoreTyped
<1>9. /\ r \in CommandUpTo(born) /\ r.pc = "ok" /\ r.kind = y.kind /\ r.from = y.from /\ r.to = y.to
      /\ r.was = y.was /\ r.saw = y.saw /\ (r.alone <=> y.alone)
  BY <1>1, <1>3, CommandIs, ToIs
<1>10. ~Flat' /\ (service \in Services)'
  BY <1>5 DEF Flat, Becomes, IInv, Numbered
<1>11. Knows(r)'
  <2>1. store'[y.from] = Nothing /\ store'[y.from].file = 0
    BY <1>1, <1>2, <1>7
  <2>2. Stat(y.from)' = "none"
    BY <1>2, <1>10, <2>1, StatNothingNext
  <2>3. Done(r)'
    BY <1>1, <1>9, <2>1, <2>2 DEF Done
  <2>. QED  BY <1>9, <2>3 DEF Knows
<1>12. Tree /\ Apart
  BY DEF IInv, Orderly
<1>13. Tree'
  <2>1. ASSUME NEW p \in Paths, Taken(p)' PROVE Holds(Parent(p))'
    <3>1. p \notin all /\ store'[p] = store[p] /\ Taken(p)
      BY <1>7, <2>1 DEF Taken
    <3>2. Parent(p) \notin all /\ Holds(Parent(p))
      BY <1>12, <3>1 DEF Tree
    <3>. QED  BY <1>7, <3>2 DEF Holds
  <2>2. ASSUME NEW p \in Paths PROVE (store[p].file = 0 \/ store[p].dir = 0)'
    BY <1>7, <1>12 DEF Tree
  <2>. QED  BY <2>1, <2>2 DEF Tree
<1>14. Apart'
  <2>1. ASSUME NEW p \in Paths PROVE Item(p)' \in {0, Item(p)}
    BY <1>7 DEF Item
  <2>. QED  BY <1>12, <2>1 DEF Apart
<1>15. \A p \in Paths : \/ store'[p].file = store[p].file
                        \/ store'[p].file = 0 /\ (store[p].file \in asked' \/ Doomed(p))
  BY <1>7
<1>16. asked \subseteq asked' /\ asked' \subseteq 1 .. born
  <2>1. asked \subseteq 1 .. born
    BY DEF IInv, Numbered
  <2>2. \A p \in all : store[p].file \in 0 .. born
    BY EntryIs
  <2>3. {store[p].file : p \in all} \ {0} \subseteq 1 .. born
    BY <1>6, <2>2
  <2>. QED  BY <2>1, <2>3
<1>. QED  BY <1>5, <1>8, <1>9, <1>11, <1>13, <1>14, <1>15, <1>16, OkFits, FilesGo DEF Orderly


LEMMA SftpRemoveStep ==
  ASSUME IInv, NEW o \in Ops, ~Flat, op[o].kind = "delete", SftpRemove(o)
  PROVE  IInv'
<1>1. PICK p : p = op[o].from /\ p \in Paths /\ op[o].pc \in {"rmfile", "rmdir"}
  BY CommandIs DEF SftpRemove, At, Fits
<1>2. Empty(p, p)
  <2>1. CASE At(o, "rmdir")
    BY <1>1, <2>1 DEF SftpRemove, At, Empty
  <2>2. CASE At(o, "rmfile")
    <3>1. store[p].dir = 0
      BY <1>1, <2>2, StatIs DEF SftpRemove, At
    <3>2. ASSUME NEW q \in Below(p) PROVE ~Taken(q)
      <4>1. q \in Paths /\ Parent(q) = p
        BY <1>1, Family
      <4>2. ~Holds(p)
        BY <1>1, <3>1, RootPath DEF Holds
      <4>. QED  BY <4>1, <4>2 DEF IInv, Orderly, Tree
    <3>. QED  BY <3>2 DEF Empty
  <2>. QED  BY <2>1, <2>2 DEF SftpRemove
<1>3. \A q \in Paths : Parent(q) \in {p} /\ Taken(q) => q \in {p}
  <2>1. ASSUME NEW q \in Paths, Parent(q) = p PROVE ~Taken(q) \/ q = p
    BY <1>1, <1>2, <2>1, Family, RootPath DEF Empty
  <2>. QED  BY <2>1
<1>4. [store EXCEPT ![p] = Nothing] = [q \in Paths |-> IF q \in {p} THEN Nothing ELSE store[q]]
  BY <1>1 DEF IInv, Numbered, StoreTyped
<1>5. /\ Changes(o, [q \in Paths |-> IF q \in {p} THEN Nothing ELSE store[q]], To(o, "ok"))
      /\ asked' = asked \cup ({store[q].file : q \in {p}} \ {0}) /\ UNCHANGED <<born, folders, raced>>
  BY <1>1, <1>4 DEF SftpRemove
<1>. QED  BY <1>1, <1>3, <1>5, RemoveStep

LEMMA GraphDeleteStep ==
  ASSUME IInv, NEW o \in Ops, GraphDelete(o)
  PROVE  IInv'
<1>1. PICK p : p = op[o].from /\ p \in Paths /\ op[o].pc = "head" /\ op[o].kind = "delete" /\ ~Flat
  BY CommandIs DEF GraphDelete, At, Fits, Flat
<1>2. PICK all : all = {p} \cup Below(p)
  OBVIOUS
<1>3. all \in SUBSET Paths
  BY <1>1, <1>2, Family
<1>4. \A q \in Paths : Parent(q) \in all /\ Taken(q) => q \in all
  <2>1. ASSUME NEW q \in Paths, Parent(q) \in all PROVE q \in all
    <3>1. Parent(q) # <<>>
      BY <1>3, <2>1, RootPath
    <3>2. Parent(Parent(q)) = <<>> /\ q \in Below(Parent(q))
      BY <3>1, Family
    <3>3. Parent(q) \notin Below(p)
      BY <1>1, <3>2, Family, RootPath
    <3>. QED  BY <1>2, <2>1, <3>2, <3>3
  <2>. QED  BY <2>1
<1>5. /\ Changes(o, [q \in Paths |-> IF q \in all THEN Nothing ELSE store[q]], To(o, "ok"))
      /\ asked' = asked \cup ({store[q].file : q \in all} \ {0}) /\ UNCHANGED <<born, folders, raced>>
  BY <1>1, <1>2 DEF GraphDelete
<1>. QED  BY <1>1, <1>2, <1>3, <1>4, <1>5, RemoveStep

\* The old name is free after a move, and the new one has what was there.
LEMMA MovedDone ==
  ASSUME IInv, ~Flat, service' = service, NEW p \in Paths, NEW q \in Paths, CanMove(p, q), Taken(p),
         store' = Moved(p, q), NEW r, r.kind = "rename", r.from = p, r.to = q,
         r.was = Stat(p), r.saw = Item(p)
  PROVE  Done(r)'
<1>1. store'[p] = Nothing /\ store'[q] = store[p]
  BY MovedOne
<1>2. ~Flat' /\ (service \in Services)'
  BY DEF Flat, IInv, Numbered
<1>3. Stat(p)' = "none" /\ store'[p].file = 0 /\ store'[p].dir = 0
  BY <1>1, <1>2, StatNothingNext
<1>4. CASE Stat(p) = "file"
  <2>1. store'[q].file = r.saw
    BY <1>1, <1>4, StatIs
  <2>. QED  BY <1>3, <1>4, <2>1 DEF Done
<1>5. CASE Stat(p) = "dir"
  <2>1. store'[q].dir # 0
    BY <1>1, <1>5, StatIs
  <2>. QED  BY <1>3, <1>5, <2>1 DEF Done
<1>6. Stat(p) # "none"
  BY StatIs, EntryIs
<1>. QED  BY <1>4, <1>5, <1>6, StatIs

LEMMA SftpRenameStep ==
  ASSUME IInv, NEW o \in Ops, SftpRename(o)
  PROVE  IInv'
<1>1. PICK y : y = op[o] /\ y \in CommandUpTo(born) /\ Fits(y) /\ y.pc = "head" /\ y.kind = "rename"
  BY CommandIs DEF SftpRename, At
<1>2. y.from \in Paths /\ y.to \in Paths /\ Taken(y.from) /\ ~Flat
  BY <1>1 DEF SftpRename, Fits, Flat
<1>3. PICK was, saw : /\ was = Stat(y.from) /\ was \in {"file", "dir", "none"}
                      /\ saw = Item(y.from) /\ saw \in 0 .. born
  BY <1>2, StatIs
<1>4. PICK t : t = [y EXCEPT !.pc = "ok"]
  OBVIOUS
<1>5. PICK r : r = [t EXCEPT !.was = was, !.saw = saw]
  OBVIOUS
<1>6. [To(o, "ok") EXCEPT !.was = was, !.saw = saw] = r
  BY <1>1, <1>4, <1>5 DEF To
<1>7. t \in CommandUpTo(born) /\ t.pc = "ok" /\ t.kind = y.kind /\ t.from = y.from /\ t.to = y.to
  BY <1>1, <1>4, CommandIs, ToIs
<1>8. /\ r \in CommandUpTo(born) /\ r.pc = "ok" /\ r.kind = y.kind /\ r.from = y.from /\ r.to = y.to
      /\ r.was = was /\ r.saw = saw
  BY <1>3, <1>5, <1>7 DEF CommandUpTo
<1>9. /\ Changes(o, Moved(y.from, y.to), r) /\ CanMove(y.from, y.to) /\ Holds(Parent(y.to))
      /\ UNCHANGED <<born, folders, asked, raced>>
  BY <1>1, <1>3, <1>6 DEF SftpRename
<1>10. store' = Moved(y.from, y.to) /\ Becomes(o, r)
  BY <1>9, ChangesIs
<1>11. Done(r)'
  BY <1>1, <1>2, <1>3, <1>8, <1>9, <1>10, MovedDone DEF Becomes
<1>12. Knows(r)'
  BY <1>8, <1>11 DEF Knows
<1>. QED  BY <1>2, <1>8, <1>9, <1>10, <1>12, OkFits, EntryMoves

\* A path is known by its name and its folder.
LEMMA PathFrom ==
  ASSUME NEW p \in Paths, NEW q \in Paths, Last(p) = Last(q), Parent(p) = Parent(q)
  PROVE  p = q
<1>1. CASE \E t \in Tops : p = <<t>>
  <2>1. PICK t \in Tops : p = <<t>>
    BY <1>1
  <2>2. PICK u \in Tops : q = <<u>>
    BY <2>1, RootPath
  <2>. QED  BY <2>1, <2>2, TopPath
<1>2. CASE \E t \in Tops : \E l \in Leaves : p = <<t, l>>
  <2>1. PICK t \in Tops : \E l \in Leaves : p = <<t, l>>
    BY <1>2
  <2>2. PICK l \in Leaves : p = <<t, l>>
    BY <2>1
  <2>3. Parent(q) = <<t>> /\ <<t>> # <<>>
    BY <2>2, LeafPath, Tuples
  <2>4. PICK u \in Tops : \E m \in Leaves : q = <<u, m>>
    BY <2>3, PathCases, TopPath
  <2>5. PICK m \in Leaves : q = <<u, m>>
    BY <2>4
  <2>6. m = l /\ <<u>> = <<t>>
    BY <2>2, <2>3, <2>5, LeafPath
  <2>7. u = t
    BY <2>6
  <2>. QED  BY <2>2, <2>5, <2>6, <2>7
<1>. QED  BY <1>1, <1>2, PathCases


\* A folder is known by its number.
LEMMA FolderFrom ==
  ASSUME IInv, ~Flat, NEW a \in Paths \cup {<<>>}, NEW b \in Paths \cup {<<>>}, Holds(a), Holds(b),
         FolderId(a) = FolderId(b)
  PROVE  a = b
<1>1. ASSUME NEW x \in Paths \cup {<<>>}, Holds(x)
      PROVE  IF x = <<>> THEN FolderId(x) = 0 ELSE x \in Paths /\ FolderId(x) # 0 /\ FolderId(x) = Item(x)
  BY <1>1, RootPath, StatIs DEF Holds, FolderId
<1>2. CASE a = <<>> \/ b = <<>>
  BY <1>1, <1>2
<1>3. CASE a # <<>> /\ b # <<>>
  BY <1>1, <1>3 DEF IInv, Orderly, Apart
<1>. QED  BY <1>2, <1>3

LEMMA GraphPatchStep ==
  ASSUME IInv, NEW o \in Ops, GraphPatch(o)
  PROVE  IInv'
<1>1. PICK y : y = op[o] /\ y \in CommandUpTo(born) /\ Fits(y) /\ Knows(y) /\ y.pc = "patch"
  BY CommandIs DEF GraphPatch, At
<1>2. y.from \in Paths /\ y.to \in Paths /\ ~Flat /\ y.kind = "rename" /\ y.saw # 0
  BY <1>1 DEF Fits
<1>3. PICK p \in Paths, q \in Paths :
        /\ Item(p) = y.saw
        /\ Last(q) = Last(y.to) /\ Holds(Parent(q)) /\ FolderId(Parent(q)) = y.into
        /\ CanMove(p, q) /\ Changes(o, Moved(p, q), To(o, "ok"))
  BY <1>1 DEF GraphPatch
<1>4. PICK r : r = [y EXCEPT !.pc = "ok"]
  OBVIOUS
<1>5. r = To(o, "ok")
  BY <1>1, <1>4 DEF To
<1>6. /\ r \in CommandUpTo(born) /\ r.pc = "ok" /\ r.kind = y.kind /\ r.from = y.from /\ r.to = y.to
      /\ r.was = y.was /\ r.saw = y.saw /\ (r.alone <=> y.alone)
  BY <1>1, <1>4, CommandIs, ToIs
<1>7. store' = Moved(p, q) /\ Becomes(o, r) /\ UNCHANGED <<born, folders, asked, raced>>
  BY <1>3, <1>5, ChangesIs DEF GraphPatch
<1>8. ASSUME y.alone PROVE Done(r)'
  <2>1. /\ y.saw = Item(y.from) /\ y.was = Stat(y.from)
        /\ y.into = FolderId(Parent(y.to)) /\ Holds(Parent(y.to))
    BY <1>1, <1>8 DEF Knows
  <2>2. p = y.from
    BY <1>2, <1>3, <2>1 DEF IInv, Orderly, Apart
  <2>3. Parent(q) \in Paths \cup {<<>>} /\ Parent(y.to) \in Paths \cup {<<>>}
    BY <1>2, Family
  <2>4. Parent(q) = Parent(y.to)
    BY <1>2, <1>3, <2>1, <2>3, FolderFrom
  <2>5. q = y.to
    BY <1>2, <1>3, <2>4, PathFrom
  <2>6. Taken(y.from)
    BY <1>2, <2>1, EntryIs, CommandIs DEF Item
  <2>. QED  BY <1>2, <1>3, <1>6, <1>7, <2>1, <2>2, <2>5, <2>6, MovedDone DEF Becomes
<1>9. Knows(r)'
  BY <1>6, <1>8 DEF Knows
<1>. QED  BY <1>2, <1>3, <1>6, <1>7, <1>9, OkFits, EntryMoves

----------------------------------------------------------------------------
(* A file arrives *)

LEMMA UploadStep ==
  ASSUME IInv, NEW p \in Paths, Upload(p)
  PROVE  IInv'
<1>1. /\ born \in Nat /\ born' = born + 1 /\ born' \in Nat /\ born <= born' /\ born' <= MaxBorn
      /\ service' = service /\ folders' = folders
      /\ store' = [store EXCEPT ![p].file = born + 1]
      /\ Arrives(born + 1, p)
  <2>1. born \in Nat /\ MaxBorn \in Nat /\ born < MaxBorn
    BY CommandIs, TreeAssumption DEF Upload, IInv, Numbered, StoreTyped
  <2>2. /\ born' = born + 1 /\ service' = service /\ folders' = folders
        /\ store' = [store EXCEPT ![p].file = born + 1]
        /\ Arrives(born + 1, p)
    BY DEF Upload
  <2>. QED  BY <2>1, <2>2
<1>2. store \in [Paths -> [file : 0 .. born, dir : 0 .. born]]
  BY DEF IInv, Numbered, StoreTyped
<1>3. /\ store'[p].file = born + 1 /\ store'[p].dir = store[p].dir
      /\ \A x \in Paths : x # p => store'[x] = store[x]
      /\ \A x \in Paths : store'[x].dir = store[x].dir
  BY <1>1, <1>2
<1>4. StoreTyped'
  <2>1. 0 .. born \subseteq 0 .. born' /\ born + 1 \in 0 .. born'
    BY <1>1
  <2>2. store' \in [Paths -> [file : 0 .. born', dir : 0 .. born']]
    BY <1>1, <1>2, <2>1
  <2>. QED  BY <1>1, <2>2 DEF StoreTyped
<1>5. ASSUME NEW c \in Ops PROVE Bystander(c)
  BY DEF Upload, Bystander
<1>6. ASSUME NEW c \in Ops, NEW x, x = op'[c] PROVE x \in CommandUpTo(born') /\ Fits(x) /\ Knows(x)'
  BY <1>1, <1>5, <1>6, BystanderStep DEF IInv
<1>7. op' \in [Ops -> CommandUpTo(born')] /\ Fit' /\ Known'
  <2>1. op' \in [Ops -> CommandUpTo(born')]
    BY <1>6 DEF Upload
  <2>2. Fit'
    BY <1>1, <1>6, FitsSame DEF Fit, Commands
  <2>3. Known'
    BY <1>6 DEF Known, Commands
  <2>. QED  BY <2>1, <2>2, <2>3
<1>8. PICK f : f = Failed
  OBVIOUS
<1>9. NoOther(f)
  BY <1>5, BystanderIs DEF NoOther, IInv
<1>10. f.kind = "none"
  BY <1>1, <1>8, UnusedIs
<1>11. \A x \in Paths : Doomed(x)' => Doomed(x)
  BY <1>9, <1>10, DoomedLater
<1>12. /\ asked' = asked \cup ({store[p].file} \ {0, born + 1})
       /\ raced' = raced \/ raced' = raced \cup {born + 1}
       /\ ~Quiet(p) => born + 1 \in raced'
  BY <1>1 DEF Arrives, Quiet, Over
<1>13. Numbered'
  <2>1. folders \subseteq 1 .. born /\ asked \subseteq 1 .. born /\ raced \subseteq 1 .. born
    BY DEF IInv, Numbered
  <2>2. 1 .. born \subseteq 1 .. born' /\ born + 1 \in 1 .. born'
    BY <1>1
  <2>3. {store[p].file} \ {0, born + 1} \subseteq 1 .. born
    BY <1>1, EntryIs
  <2>4. asked' \subseteq 1 .. born'
    BY <1>12, <2>1, <2>2, <2>3
  <2>5. raced' \subseteq 1 .. born' /\ folders' \subseteq 1 .. born'
    BY <1>1, <1>12, <2>1, <2>2
  <2>. QED  BY <1>1, <1>4, <1>7, <2>4, <2>5 DEF Numbered, IInv
<1>n. PICK n : n = born + 1
  OBVIOUS
<1>14. Kept(n)'
  <2>1. CASE Quiet(p)
    <3>1. ~Doomed(p)'
      BY <1>11, <2>1 DEF Quiet, Doomed
    <3>. QED  BY <1>n, <1>3, <3>1 DEF Kept
  <2>2. CASE ~Quiet(p)
    <3>1. Flat
      BY <2>2 DEF Quiet, IInv, Fit, Fits, Commands
    <3>. QED  BY <1>n, <1>1, <1>12, <2>2, <3>1 DEF Kept, Flat
  <2>. QED  BY <2>1, <2>2
<1>15. ASSUME NEW v \in 1 .. born, NEW x \in Paths, store[x].file = v, ~Doomed(x) PROVE Kept(v)'
  <2>1. CASE x = p
    <3>1. v \in asked'
      BY <1>1, <1>12, <1>15, <2>1
    <3>. QED  BY <3>1 DEF Kept
  <2>2. CASE x # p
    BY <1>3, <1>11, <1>15, <2>2 DEF Kept
  <2>. QED  BY <2>1, <2>2
<1>16. \A v \in (1 .. born)' \ folders' : v \in (1 .. born) \ folders \/ v = born + 1
  BY <1>1
<1>17. AllKept'
  <2>1. \A v \in (1 .. born)' \ folders' : v \in (1 .. born) \ folders \/ Kept(v)'
    <3>1. ASSUME NEW v, v = n PROVE Kept(v)'
      BY <1>14, <3>1
    <3>. QED  BY <1>n, <1>16, <3>1
  <2>2. \A x \in Paths : store'[x].file \in {store[x].file, 0} \cup raced' \/ Quiet(x)
    BY <1>3, <1>12
  <2>3. Carried(f)'
    BY <1>10 DEF Carried
  <2>. QED  BY <1>1, <1>9, <1>12, <1>15, <2>1, <2>2, <2>3, KeptStep DEF IInv
<1>18. Orderly'
  <2>1. CASE Flat
    BY <1>1, <2>1 DEF Orderly, Flat
  <2>2. CASE ~Flat
    <3>1. Tree /\ Apart /\ store[p].dir = 0 /\ Holds(Parent(p))
      BY <2>2 DEF IInv, Orderly, Upload
    <3>2. \A x : Holds(x) => Holds(x)'
      BY <1>3 DEF Holds
    <3>3. Tree'
      BY <1>3, <3>1, <3>2 DEF Tree, Taken
    <3>4. ASSUME NEW x \in Paths
          PROVE  /\ x # p => Item(x)' = Item(x) /\ Item(x)' \in 0 .. born
                 /\ Item(p)' = born + 1
      <4>1. Item(p)' = born + 1
        BY <1>1, <1>3, <3>1 DEF Item
      <4>2. x # p => Item(x)' = Item(x) /\ Item(x)' \in 0 .. born
        BY <1>3, <2>2, StatIs DEF Item
      <4>. QED  BY <4>1, <4>2
    <3>5. Apart'
      <4>1. born + 1 \notin 0 .. born
        BY <1>1
      <4>. QED  BY <3>1, <3>4, <4>1 DEF Apart
    <3>. QED  BY <3>3, <3>5 DEF Orderly
  <2>. QED  BY <2>1, <2>2
<1>. QED  BY <1>7, <1>13, <1>17, <1>18 DEF IInv


----------------------------------------------------------------------------
(* Every step *)

LEMMA RequestStep ==
  ASSUME IInv, NEW o \in Ops, Request(o)
  PROVE  IInv'
<1>1. CASE S3Delete(o)
  <2>1. Flat /\ op[o].kind = "delete"
    BY <1>1 DEF S3Delete, Flat
  <2>. QED  BY <1>1, <2>1, AskKindStep, DropFileStep, LookStep, DropMarkerStep DEF S3Delete
<1>2. CASE S3Rename(o)
  <2>1. Flat /\ op[o].kind = "rename"
    BY <1>2 DEF S3Rename, Flat
  <2>. QED  BY <1>2, <2>1, AskKindStep, S3CopyStep, DropFileStep, LookStep, CopyMarkerStep, DropMarkerStep
            DEF S3Rename
<1>3. CASE AzDelete(o)
  <2>1. Flat /\ op[o].kind = "delete"
    BY <1>3 DEF AzDelete, Flat
  <2>. QED  BY <1>3, <2>1, AskKindStep, DropFileStep, LookStep, DropMarkerStep DEF AzDelete
<1>4. CASE AzRename(o)
  <2>1. Flat /\ op[o].kind = "rename"
    BY <1>4 DEF AzRename, Flat
  <2>. QED  BY <1>4, <2>1, AskKindStep, DownloadStep, AzUploadStep, DropFileStep, LookStep, CopyMarkerStep,
               DropMarkerStep
            DEF AzRename
<1>5. CASE S3Mkdir(o) \/ AzMkdir(o)
  BY <1>5, MkdirStep DEF S3Mkdir, AzMkdir, Flat, At
<1>6. CASE SftpMkdir(o) \/ GraphMkdir(o)
  BY <1>6, MkdirStep DEF SftpMkdir, GraphMkdir, NewFolder, Flat, At
<1>7. CASE SftpDelete(o)
  <2>1. ~Flat /\ op[o].kind = "delete"
    BY <1>7 DEF SftpDelete, Flat
  <2>. QED  BY <1>7, <2>1, SftpAskStep, SftpRemoveStep DEF SftpDelete
<1>8. CASE GraphRename(o)
  <2>1. ~Flat /\ op[o].kind = "rename"
    BY <1>8 DEF GraphRename, Flat
  <2>. QED  BY <1>8, <2>1, GraphAskStep, GraphAskParentStep, GraphPatchStep DEF GraphRename
<1>. QED  BY <1>1, <1>2, <1>3, <1>4, <1>5, <1>6, <1>7, <1>8, SftpRenameStep, GraphDeleteStep DEF Request

LEMMA StuttersSame ==
  ASSUME IInv, UNCHANGED vars
  PROVE  IInv'
<1>. USE DEF vars
<1>1. Numbered'
  BY DEF IInv, Numbered, StoreTyped
<1>2. Fit'
  BY FitsSame DEF IInv, Fit, Commands
<1>3. Known'
  BY KnowsSame DEF IInv, Known, Commands
<1>4. Orderly'
  BY OrderlySame DEF IInv
<1>5. AllKept'
  <2>1. \A x : Doomed(x)' <=> Doomed(x)
    BY DEF Doomed
  <2>2. \A v : Kept(v) => Kept(v)'
    BY <2>1 DEF Kept, Flat
  <2>3. \A c : Carried(c) => Carried(c)'
    BY DEF Carried
  <2>. QED  BY <2>2, <2>3 DEF IInv, AllKept, Commands
<1>. QED  BY <1>1, <1>2, <1>3, <1>4, <1>5 DEF IInv

LEMMA NextInvariant == IInv /\ [Next]_vars => IInv'
<1>. SUFFICES ASSUME IInv, [Next]_vars PROVE IInv'
  OBVIOUS
<1>1. CASE \E o \in Ops : Begin(o) \/ Request(o) \/ Fails(o)
  BY <1>1, BeginStep, RequestStep, FailsStep DEF Fails
<1>2. CASE \E p \in Paths : Upload(p)
  BY <1>2, UploadStep
<1>3. CASE UNCHANGED vars
  BY <1>3, StuttersSame
<1>. QED  BY <1>1, <1>2, <1>3 DEF Next

\* The invariant holds throughout: commands and store are in order, and what a
\* command relies on is so as long as nobody disturbs it.
THEOREM Inductive == Spec => []IInv
BY InitInvariant, NextInvariant, PTL DEF Spec

\* Every path has an entry of the right kind, on a server with folders one at
\* most and in a folder that is there, whatever the commands and uploads.
THEOREM TreesTyped == Spec => []TypeOK
<1>1. IInv => TypeOK
  <2>. SUFFICES ASSUME IInv PROVE TypeOK
    OBVIOUS
  <2>1. born \in Nat /\ MaxBorn \in Nat /\ born <= MaxBorn
    BY TreeAssumption DEF IInv, Numbered, StoreTyped
  <2>2. 0 .. born \subseteq 0 .. MaxBorn
    BY <2>1
  <2>3. CommandUpTo(born) \subseteq Command
    BY <2>2 DEF CommandUpTo, Command
  <2>4. op \in [Ops -> Command]
    BY <2>3 DEF IInv, Numbered
  <2>5. store \in [Paths -> [file : 0 .. MaxBorn, dir : 0 .. MaxBorn]]
    BY <2>2 DEF IInv, Numbered, StoreTyped
  <2>6. born \in 0 .. MaxBorn
    BY <2>1
  <2>. QED  BY <2>4, <2>5, <2>6 DEF TypeOK, IInv, Numbered, Orderly, Tree
<1>. QED  BY <1>1, Inductive, PTL

\* No command loses contents that nobody asked to delete or replace, cut short
\* or not, but what comes to the old name of a rename once it has been copied.
THEOREM NothingIsLost == Spec => []NothingLostUnasked
<1>1. IInv => NothingLostUnasked
  BY DEF IInv, AllKept, Kept, NothingLostUnasked
<1>. QED  BY <1>1, Inductive, PTL

\* A command that says Ok, and was not disturbed, has done what it says.
THEOREM OkIsDone == Spec => []OkMeansDone
<1>1. IInv => OkMeansDone
  <2>. SUFFICES ASSUME IInv, NEW o \in Ops, op[o].pc = "ok" /\ op[o].alone
                PROVE  CASE op[o].kind = "mkdir" -> store[op[o].from].dir # 0
                         [] op[o].kind = "delete" /\ op[o].was = "file" -> store[op[o].from].file = 0
                         [] op[o].kind = "delete" /\ op[o].was # "file" -> Stat(op[o].from) = "none"
                         [] op[o].kind = "rename" /\ op[o].was = "file" ->
                              store[op[o].from].file = 0 /\ store[op[o].to].file = op[o].saw
                         [] op[o].kind = "rename" /\ op[o].was # "file" ->
                              /\ store[op[o].from].dir = 0 /\ store[op[o].to].dir # 0
                              /\ Stat(op[o].from) = "dir" => op[o].to \in Below(op[o].from)
    BY DEF OkMeansDone
  <2>1. Done(op[o])
    BY CommandIs DEF Knows
  <2>. QED  BY <2>1 DEF Done
<1>. QED  BY <1>1, Inductive, PTL

\* Whatever is stored is listed, as a file exactly when it is one, and stat and
\* list agree, on every backend.
THEOREM AlwaysBrowsable == Spec => []BrowsableExactly
<1>1. IInv => BrowsableExactly
  BY Browsable DEF IInv, Numbered, Orderly
<1>. QED  BY <1>1, Inductive, PTL

----------------------------------------------------------------------------
(* A step of one command is not the end of another. *)

LEMMA EndsItself ==
  ASSUME IInv, NEW o \in Ops, NEW a \in Ops, a # o, Begin(a) \/ Request(a) \/ Fails(a)
  PROVE  op'[o] \in {op[o], Disturbed(op[o])}
<1>f. op \in [Ops -> CommandUpTo(born)]
  BY CommandIs
<1>1. ASSUME NEW new, NEW then, Changes(a, new, then) PROVE op'[o] \in {op[o], Disturbed(op[o])}
  BY <1>1, ChangesIs DEF Becomes, Bystander
<1>2. ASSUME NEW pc, Goes(a, pc) PROVE op'[o] = op[o]
  BY <1>f, <1>2 DEF Goes
<1>3. CASE Begin(a)
  BY <1>f, <1>3 DEF Begin
<1>4. CASE Fails(a)
  BY <1>2, <1>4 DEF Fails
<1>5. CASE AskKind(a, "drop") \/ AskKind(a, "copy")
  BY <1>f, <1>5 DEF AskKind
<1>6. CASE AzDownload(a) \/ AzDownloadMarker(a) \/ SftpAsk(a) \/ GraphAsk(a) \/ GraphAskParent(a)
  BY <1>f, <1>6 DEF AzDownload, AzDownloadMarker, SftpAsk, GraphAsk, GraphAskParent
<1>7. CASE S3Delete(a) \/ AzDelete(a)
  BY <1>1, <1>2, <1>5, <1>7 DEF S3Delete, AzDelete, Look, DropFile, DropMarker
<1>8. CASE S3Rename(a)
  BY <1>1, <1>2, <1>5, <1>8 DEF S3Rename, Look, DropFile, DropMarker, S3Copy, S3CopyMarker
<1>9. CASE AzRename(a)
  BY <1>1, <1>2, <1>5, <1>6, <1>9 DEF AzRename, Look, DropFile, DropMarker, AzUpload, AzUploadMarker
<1>10. CASE S3Mkdir(a) \/ AzMkdir(a) \/ SftpMkdir(a) \/ GraphMkdir(a)
  BY <1>1, <1>10 DEF S3Mkdir, AzMkdir, SftpMkdir, GraphMkdir, NewFolder
<1>11. CASE SftpDelete(a) \/ SftpRename(a)
  BY <1>1, <1>6, <1>11 DEF SftpDelete, SftpRemove, SftpRename
<1>12. CASE GraphDelete(a) \/ GraphRename(a)
  BY <1>1, <1>6, <1>12 DEF GraphDelete, GraphRename, GraphPatch
<1>. QED  BY <1>3, <1>4, <1>7, <1>8, <1>9, <1>10, <1>11, <1>12 DEF Request

LEMMA PatchMoves ==
  ASSUME IInv, NEW o \in Ops, GraphPatch(o)
  PROVE  \E q, r \in Paths : /\ q # r /\ Item(q) = op[o].saw
                             /\ store'[r].file + store'[r].dir = op[o].saw
<1>1. PICK q \in Paths, r \in Paths :
        Item(q) = op[o].saw /\ CanMove(q, r) /\ Changes(o, Moved(q, r), To(o, "ok"))
  BY DEF GraphPatch
<1>2. store' = Moved(q, r) /\ q # r
  BY <1>1, ChangesIs DEF CanMove
<1>3. store'[r] = store[q]
  BY <1>1, <1>2, MovedOne
<1>. QED  BY <1>1, <1>2, <1>3 DEF Item

LEMMA RenameSees ==
  ASSUME IInv, [Next]_vars, NEW o \in Ops, At(o, "patch"), op'[o].pc = "ok"
  PROVE  GraphPatch(o)
<1>d. Disturbed(op[o]).pc = "patch"
  BY CommandIs, DisturbedIs DEF At
<1>1. ASSUME NEW p \in Paths, Upload(p) PROVE FALSE
  BY <1>1, <1>d DEF Upload
<1>2. ASSUME NEW a \in Ops, a # o, Begin(a) \/ Request(a) \/ Fails(a) PROVE FALSE
  BY <1>2, <1>d, EndsItself DEF At
<1>3. ASSUME Fails(o) PROVE FALSE
  <2>1. op'[o] = Failed
    BY <1>3, CommandIs DEF Fails, Goes
  <2>. QED  BY <2>1, UnusedIs, CommandIs
<1>4. ~Begin(o) /\ ~UNCHANGED vars
  BY DEF Begin, At, vars
<1>5. Request(o)
  BY <1>1, <1>2, <1>3, <1>4 DEF Next
<1>6. ~(S3Delete(o) \/ AzDelete(o))
  BY DEF S3Delete, AzDelete, AskKind, Look, DropFile, DropMarker, At
<1>7. ~(S3Rename(o) \/ AzRename(o))
  BY DEF S3Rename, AzRename, AskKind, Look, DropFile, DropMarker, S3Copy, S3CopyMarker, AzDownload, AzUpload,
         AzDownloadMarker, AzUploadMarker, At
<1>8. ~(S3Mkdir(o) \/ AzMkdir(o) \/ SftpMkdir(o) \/ GraphMkdir(o))
  BY DEF S3Mkdir, AzMkdir, SftpMkdir, GraphMkdir, NewFolder, At
<1>9. ~(SftpDelete(o) \/ SftpRename(o) \/ GraphDelete(o) \/ GraphAsk(o) \/ GraphAskParent(o))
  BY DEF SftpDelete, SftpAsk, SftpRemove, SftpRename, GraphDelete, GraphAsk, GraphAskParent, At
<1>. QED  BY <1>5, <1>6, <1>7, <1>8, <1>9 DEF Request, GraphRename

\* A rename on OneDrive that succeeds moves the version that was looked up.
THEOREM RenamesOnlyTheSeen == Spec => RenamesWhatItSaw
<1>1. IInv /\ [Next]_vars =>
        [service = "onedrive" =>
           \A o \in Ops : At(o, "patch") /\ op'[o].pc = "ok" =>
             \E q, r \in Paths : /\ q # r /\ Item(q) = op[o].saw
                                 /\ store'[r].file + store'[r].dir = op[o].saw]_vars
  BY RenameSees, PatchMoves
<1>. QED  BY <1>1, Inductive, PTL DEF Spec, RenamesWhatItSaw

=============================================================================
