---------------------------- MODULE FakeFSProofs ----------------------------
(***************************************************************************)
(* Lemmas about the operations of FakeFS: each of them keeps a tree a      *)
(* tree, and what they do to the nodes of one; and about paths that are    *)
(* joined from sequences of paths.                                         *)
(***************************************************************************)
EXTENDS FakeFS, SequenceTheorems, NaturalsInduction, WellFoundedInduction, TLAPS

-----------------------------------------------------------------------------
(* Paths and their prefixes                                                *)

\* Of the natural numbers with some property, one is the least.
LEMMA LeastNatural ==
    ASSUME NEW T \in SUBSET Nat, T # {}
    PROVE  \E x \in T : \A y \in T : x <= y
<1>1. IsWellFoundedOn(OpToRel(<, Nat), Nat)
  BY NatLessThanWellFounded
<1>2. PICK x \in T : \A y \in T : ~ (<<y, x>> \in OpToRel(<, Nat))
  BY <1>1, WFMin
<1>3. \A y \in T : ~ (y < x)
  BY <1>2 DEF OpToRel
<1>. QED
  BY <1>3

\* A prefix is a sequence again, given by its length.
LEMMA PrefixIsSeq ==
    ASSUME NEW S, NEW p \in Seq(S), NEW n \in 0..Len(p)
    PROVE  /\ SubSeq(p, 1, n) \in Seq(S)
           /\ Len(SubSeq(p, 1, n)) = n
           /\ \A i \in 1..n : SubSeq(p, 1, n)[i] = p[i]
           /\ SubSeq(p, 1, n) \in Prefixes(p)
<1>1. \A i \in 1..n : p[i] \in S
  BY ElementOfSeq
<1>. QED
  BY <1>1, SubSeqProperties DEF Prefixes

\* The first parts of a prefix are those of the whole.
LEMMA PrefixOfPrefix ==
    ASSUME NEW S, NEW p \in Seq(S), NEW n \in 0..Len(p), NEW m \in 0..n
    PROVE  SubSeq(SubSeq(p, 1, n), 1, m) = SubSeq(p, 1, m)
<1>1. m \in 0..Len(p) /\ m \in 0..Len(SubSeq(p, 1, n))
  BY PrefixIsSeq
<1>2. /\ SubSeq(p, 1, n) \in Seq(S)
      /\ \A i \in 1..n : SubSeq(p, 1, n)[i] = p[i]
  BY PrefixIsSeq
<1>3. /\ SubSeq(p, 1, m) \in Seq(S)
      /\ Len(SubSeq(p, 1, m)) = m
      /\ \A i \in 1..m : SubSeq(p, 1, m)[i] = p[i]
  BY <1>1, PrefixIsSeq
<1>4. /\ SubSeq(SubSeq(p, 1, n), 1, m) \in Seq(S)
      /\ Len(SubSeq(SubSeq(p, 1, n), 1, m)) = m
      /\ \A i \in 1..m : SubSeq(SubSeq(p, 1, n), 1, m)[i] = SubSeq(p, 1, n)[i]
  BY <1>1, <1>2, PrefixIsSeq
<1>. QED
  BY <1>2, <1>3, <1>4, SeqEqual

\* The prefixes of a path are paths, and with each of them its parent.
LEMMA PathPrefixes ==
    ASSUME NEW p \in Paths
    PROVE  /\ Prefixes(p) \subseteq Paths
           /\ Root \in Prefixes(p) /\ p \in Prefixes(p)
           /\ \A q \in Prefixes(p) \ {Root} : Front(q) \in Prefixes(p)
<1>1. Prefixes(p) \subseteq Paths
  BY PrefixIsSeq DEF Prefixes, Paths
<1>2. Root \in Prefixes(p)
  BY PrefixIsSeq, SubSeqEmpty DEF Prefixes, Paths, Root
<1>3. p \in Prefixes(p)
  BY SubSeqFull, LenProperties DEF Prefixes, Paths
<1>4. ASSUME NEW q \in Prefixes(p) \ {Root} PROVE Front(q) \in Prefixes(p)
  <2>1. PICK n \in 0..Len(p) : q = SubSeq(p, 1, n)
    BY DEF Prefixes
  <2>2. n \in 1..Len(p) /\ Len(q) = n
    BY <2>1, PrefixIsSeq, SubSeqEmpty DEF Paths, Root
  <2>3. Front(q) = SubSeq(p, 1, n - 1)
    BY <2>1, <2>2, PrefixOfPrefix DEF Front, Paths
  <2>. QED
    BY <2>2, <2>3, PrefixIsSeq DEF Paths
<1>. QED
  BY <1>1, <1>2, <1>3, <1>4

\* The parent of a path is a path, shorter by one name and in front of it.
LEMMA Parent ==
    ASSUME NEW p \in Paths, p # Root
    PROVE  /\ Front(p) \in Paths /\ Len(Front(p)) = Len(p) - 1 /\ Len(p) \in Nat \ {0}
           /\ Front(p) \in Prefixes(p) /\ Front(p) # p
           /\ IsStrictPrefix(Front(p), p)
           /\ \A q \in Prefixes(p) : q = p \/ q \in Prefixes(Front(p))
<1>1. Len(p) \in Nat \ {0}
  BY EmptySeq DEF Paths, Root
<1>2. Len(p) - 1 \in 0..Len(p)
  BY <1>1
<1>3. /\ Front(p) \in Paths /\ Len(Front(p)) = Len(p) - 1
      /\ Front(p) \in Prefixes(p)
  BY <1>2, PrefixIsSeq DEF Front, Paths
<1>4. Front(p) # p
  BY <1>1, <1>3
<1>5. SubSeq(Front(p), 1, Len(Front(p))) = SubSeq(p, 1, Len(Front(p)))
  BY <1>1, <1>2, <1>3, PrefixOfPrefix DEF Front, Paths
<1>6. ASSUME NEW q \in Prefixes(p), q # p PROVE q \in Prefixes(Front(p))
  <2>1. PICK n \in 0..Len(p) : q = SubSeq(p, 1, n)
    BY DEF Prefixes
  <2>2. n # Len(p)
    BY <2>1, <1>6, SubSeqFull DEF Paths
  <2>3. n \in 0..(Len(p) - 1)
    BY <1>1, <2>2
  <2>4. q = SubSeq(Front(p), 1, n)
    BY <1>2, <2>1, <2>3, PrefixOfPrefix DEF Front, Paths
  <2>. QED
    BY <1>3, <2>3, <2>4 DEF Prefixes
<1>. QED
  BY <1>1, <1>3, <1>4, <1>5, <1>6 DEF IsStrictPrefix, IsPrefix

\* What is appended to a path is in front of nothing of it.
LEMMA AppendedPath ==
    ASSUME NEW p \in Paths, NEW n \in Names
    PROVE  Append(p, n) \in Paths /\ Append(p, n) # Root /\ Front(Append(p, n)) = p
<1>1. Append(p, n) \in Paths /\ Append(p, n) # Root /\ Len(Append(p, n)) = Len(p) + 1
      /\ \A i \in 1..Len(p) : Append(p, n)[i] = p[i]
  BY AppendProperties DEF Paths, Root
<1>2. Len(p) \in 0..Len(Append(p, n))
  BY <1>1 DEF Paths
<1>3. /\ Front(Append(p, n)) \in Paths
      /\ Len(Front(Append(p, n))) = Len(p)
      /\ \A i \in 1..Len(p) : Front(Append(p, n))[i] = p[i]
  BY <1>1, <1>2, PrefixIsSeq DEF Front, Paths
<1>. QED
  BY <1>1, <1>3, SeqEqual DEF Paths

-----------------------------------------------------------------------------
(* Trees                                                                   *)

\* What Put leaves and what it brings.
LEMMA PutNodes ==
    ASSUME NEW t, NEW f
    PROVE  /\ Put(t, f) = [p \in DOMAIN Put(t, f) |-> Put(t, f)[p]]
           /\ DOMAIN Put(t, f) = DOMAIN t \cup DOMAIN f
           /\ \A p \in DOMAIN f : Put(t, f)[p] = f[p]
           /\ \A p \in DOMAIN t \ DOMAIN f : Put(t, f)[p] = t[p]
BY DEF Put

\* Everything above a node of a tree is a directory.
LEMMA TreeAncestors ==
    ASSUME NEW t, IsTree(t), NEW p \in DOMAIN t, NEW q \in Prefixes(p), q # p
    PROVE  DirExists(t, q)
<1>. DEFINE Bad(x) == \E y \in Prefixes(x) : y # x /\ ~ DirExists(t, y)
            T      == {n \in Nat : \E x \in DOMAIN t : Len(x) = n /\ Bad(x)}
<1>1. SUFFICES ASSUME T # {} PROVE FALSE
  <2>1. p \in Paths /\ Len(p) \in Nat
    BY LenProperties DEF IsTree, Paths
  <2>. QED
    BY <1>1, <2>1
<1>2. PICK n \in T : \A m \in T : n <= m
  BY <1>1, LeastNatural
<1>3. PICK x \in DOMAIN t : Len(x) = n /\ Bad(x)
  BY <1>2
<1>4. PICK y \in Prefixes(x) : y # x /\ ~ DirExists(t, y)
  BY <1>3
<1>5. x \in Paths
  BY DEF IsTree
<1>6. x # Root
  <2>1. SUFFICES ASSUME x = Root PROVE FALSE
    OBVIOUS
  <2>2. y \in Paths /\ y # Root
    BY <1>4, <1>5, <2>1, PathPrefixes
  <2>3. PICK k \in 0..Len(x) : y = SubSeq(x, 1, k)
    BY <1>4 DEF Prefixes
  <2>4. Len(x) = 0
    BY <2>1, EmptySeq DEF Root
  <2>. QED
    BY <2>2, <2>3, <2>4, SubSeqEmpty DEF Root
<1>7. DirExists(t, Front(x)) /\ Front(x) \in DOMAIN t
  BY <1>6 DEF IsTree, DirExists
<1>8. y # Front(x)
  BY <1>4, <1>7
<1>9. y \in Prefixes(Front(x))
  BY <1>4, <1>5, <1>6, Parent
<1>10. Len(Front(x)) = n - 1 /\ n - 1 \in Nat
  BY <1>3, <1>5, <1>6, Parent
<1>11. n - 1 \in T
  BY <1>4, <1>7, <1>8, <1>9, <1>10
<1>. QED
  BY <1>2, <1>11

\* A tree in which nodes are put so that each has its directory is a tree.
LEMMA PutTree ==
    ASSUME NEW t, IsTree(t), NEW f, DOMAIN f \subseteq Paths,
           \A p \in DOMAIN f : f[p] = Dir \/ f[p] \in Seq(Bytes),
           Root \in DOMAIN f => f[Root] = Dir,
           \A p \in DOMAIN f \ {Root} : DirExists(Put(t, f), Front(p)),
           \A p \in DOMAIN f : DirExists(t, p) => f[p] = Dir
    PROVE  IsTree(Put(t, f))
<1>. DEFINE g == Put(t, f)
<1>1. /\ g = [p \in DOMAIN g |-> g[p]]
      /\ DOMAIN g = DOMAIN t \cup DOMAIN f
      /\ \A p \in DOMAIN f : g[p] = f[p]
      /\ \A p \in DOMAIN t \ DOMAIN f : g[p] = t[p]
  BY PutNodes
<1>2. \A p : DirExists(t, p) => DirExists(g, p)
  BY <1>1 DEF DirExists
<1>3. \A p \in DOMAIN g \ {Root} : DirExists(g, Front(p))
  BY <1>1, <1>2 DEF IsTree
<1>4. \A p \in DOMAIN g : g[p] = Dir \/ g[p] \in Seq(Bytes)
  BY <1>1 DEF IsTree
<1>5. DOMAIN g \subseteq Paths
  BY <1>1 DEF IsTree
<1>6. DirExists(g, Root)
  BY <1>2 DEF IsTree
<1>. HIDE DEF g
<1>7. IsTree(g)
  BY <1>1, <1>3, <1>4, <1>5, <1>6 DEF IsTree
<1>. QED
  BY <1>7 DEF g

\* os.MkdirAll keeps a tree a tree and every node of it; afterwards there is
\* the directory, or there was a file in the way.
LEMMA MkdirAllTree ==
    ASSUME NEW t, IsTree(t), NEW p \in Paths
    PROVE  /\ IsTree(MkdirAll(t, p))
           /\ \A q : FileExists(t, q) <=> FileExists(MkdirAll(t, p), q)
           /\ \A q \in DOMAIN t : q \in DOMAIN MkdirAll(t, p) /\ MkdirAll(t, p)[q] = t[q]
           /\ DirExists(MkdirAll(t, p), p)
              \/ (MkdirAll(t, p) = t /\ \E q \in Prefixes(p) : FileExists(t, q))
<1>1. CASE \E q \in Prefixes(p) : FileExists(t, q)
  BY <1>1 DEF MkdirAll
<1>2. CASE \A q \in Prefixes(p) : ~ FileExists(t, q)
  <2>. DEFINE f == [q \in Prefixes(p) |-> Dir]
              g == Put(t, f)
  <2>1. MkdirAll(t, p) = g
    BY <1>2 DEF MkdirAll
  <2>2. DOMAIN f = Prefixes(p) /\ \A q \in Prefixes(p) : f[q] = Dir
    OBVIOUS
  <2>. HIDE DEF f
  <2>3. /\ Prefixes(p) \subseteq Paths /\ p \in Prefixes(p)
        /\ \A q \in Prefixes(p) \ {Root} : Front(q) \in Prefixes(p)
    BY PathPrefixes
  <2>4. /\ DOMAIN g = DOMAIN t \cup Prefixes(p)
        /\ \A q \in Prefixes(p) : g[q] = Dir
        /\ \A q \in DOMAIN t \ Prefixes(p) : g[q] = t[q]
    BY <2>2 DEF Put
  <2>5. \A q \in DOMAIN f \ {Root} : DirExists(Put(t, f), Front(q))
    BY <2>2, <2>3, <2>4 DEF DirExists
  <2>6. IsTree(g)
    BY <2>2, <2>3, <2>5, PutTree
  <2>. HIDE DEF g
  <2>7. \A q \in DOMAIN t : q \in Prefixes(p) => t[q] = Dir
    BY <1>2 DEF FileExists
  <2>8. \A q \in DOMAIN t : q \in DOMAIN g /\ g[q] = t[q]
    BY <2>4, <2>7
  <2>9. \A q : FileExists(t, q) <=> FileExists(g, q)
    BY <2>4, <2>8 DEF FileExists
  <2>10. DirExists(g, p)
    BY <2>3, <2>4 DEF DirExists
  <2>. QED
    BY <2>1, <2>6, <2>8, <2>9, <2>10
<1>. QED
  BY <1>1, <1>2

\* os.Remove keeps a tree a tree, and every other node of it.
LEMMA RemoveFileTree ==
    ASSUME NEW t, IsTree(t), NEW p \in Paths
    PROVE  /\ IsTree(RemoveFile(t, p))
           /\ \A q : q # p /\ FileExists(t, q) => FileExists(RemoveFile(t, p), q)
           /\ p \in DOMAIN RemoveFile(t, p) => RemoveFile(t, p) = t \/ p \notin DOMAIN t
<1>1. CASE p = Root \/ \E q \in DOMAIN t : IsStrictPrefix(p, q)
  BY <1>1 DEF RemoveFile
<1>2. CASE p # Root /\ \A q \in DOMAIN t : ~ IsStrictPrefix(p, q)
  <2>. DEFINE g == [q \in DOMAIN t \ {p} |-> t[q]]
  <2>1. RemoveFile(t, p) = g
    BY <1>2 DEF RemoveFile
  <2>2. /\ g = [q \in DOMAIN g |-> g[q]] /\ DOMAIN g = DOMAIN t \ {p}
        /\ \A q \in DOMAIN g : g[q] = t[q]
    OBVIOUS
  <2>. HIDE DEF g
  <2>3. \A q \in DOMAIN g \ {Root} : DirExists(g, Front(q))
    <3>. SUFFICES ASSUME NEW q \in DOMAIN g \ {Root} PROVE DirExists(g, Front(q))
      OBVIOUS
    <3>1. q \in DOMAIN t /\ q \in Paths /\ DirExists(t, Front(q))
      BY <2>2 DEF IsTree
    <3>2. Front(q) # p
      BY <1>2, <3>1, Parent
    <3>. QED
      BY <2>2, <3>1, <3>2 DEF DirExists
  <2>4. IsTree(g)
    BY <1>2, <2>2, <2>3 DEF IsTree, DirExists
  <2>5. \A q : q # p /\ FileExists(t, q) => FileExists(g, q)
    BY <2>2 DEF FileExists
  <2>. QED
    BY <2>1, <2>2, <2>4, <2>5
<1>. QED
  BY <1>1, <1>2

\* A new file where it can be opened: created, or created and emptied.
LEMMA CreatedTree ==
    ASSUME NEW t, IsTree(t), NEW p \in Paths, CanOpen(t, p)
    PROVE  /\ IsTree(Created(t, p))
           /\ \A q : FileExists(t, q) => FileExists(Created(t, p), q)
           /\ ~ DirExists(t, p) => FileExists(Created(t, p), p)
           /\ ~ DirExists(t, p) => IsTree(Put(t, [q \in {p} |-> <<>>]))
<1>. DEFINE f == [q \in {p} |-> <<>>]
            g == Put(t, f)
<1>1. DOMAIN f = {p} /\ f[p] = <<>>
  OBVIOUS
<1>2. <<>> \in Seq(Bytes) /\ <<>> # Dir
  BY FSAssumption, EmptySeq
<1>. HIDE DEF f
<1>3. /\ DOMAIN g = DOMAIN t \cup {p} /\ g[p] = <<>>
      /\ \A q \in DOMAIN t \ {p} : g[q] = t[q]
  BY <1>1 DEF Put
<1>4. ASSUME ~ DirExists(t, p) PROVE IsTree(g)
  <2>1. p # Root
    BY <1>4 DEF IsTree
  <2>2. DirExists(t, Front(p)) /\ Front(p) # p
    BY <2>1, Parent DEF IsTree, CanOpen
  <2>3. DirExists(g, Front(p))
    BY <1>3, <2>2 DEF DirExists
  <2>. QED
    BY <1>1, <1>2, <1>4, <2>1, <2>3, PutTree
<1>5. CASE p \in DOMAIN t
  <2>1. Created(t, p) = t
    BY <1>5 DEF Created
  <2>. QED
    BY <1>4, <1>5, <2>1 DEF f, FileExists, DirExists
<1>6. CASE p \notin DOMAIN t
  <2>1. Created(t, p) = g
    BY <1>6 DEF Created, f
  <2>2. ~ DirExists(t, p)
    BY <1>6 DEF DirExists
  <2>. QED
    BY <1>2, <1>3, <1>4, <1>6, <2>1, <2>2 DEF f, FileExists
<1>. QED
  BY <1>5, <1>6

\* Other contents for a file.
LEMMA WrittenTree ==
    ASSUME NEW t, IsTree(t), NEW p, FileExists(t, p), NEW v \in Seq(Bytes)
    PROVE  /\ IsTree([t EXCEPT ![p] = v])
           /\ \A q : FileExists(t, q) <=> FileExists([t EXCEPT ![p] = v], q)
           /\ \A q : DirExists(t, q) <=> DirExists([t EXCEPT ![p] = v], q)
<1>. DEFINE g == [t EXCEPT ![p] = v]
<1>1. v # Dir /\ p \in DOMAIN t /\ t[p] # Dir
  BY FSAssumption DEF FileExists
<1>2. /\ g = [q \in DOMAIN g |-> g[q]] /\ DOMAIN g = DOMAIN t /\ g[p] = v
      /\ \A q \in DOMAIN t \ {p} : g[q] = t[q]
  BY <1>1 DEF IsTree
<1>. HIDE DEF g
<1>3. \A q : DirExists(t, q) <=> DirExists(g, q)
  BY <1>1, <1>2 DEF DirExists
<1>4. \A q : FileExists(t, q) <=> FileExists(g, q)
  BY <1>1, <1>2 DEF FileExists
<1>5. IsTree(g)
  BY <1>1, <1>2, <1>3 DEF IsTree
<1>. QED
  BY <1>3, <1>4, <1>5 DEF g

\* What is written over a file is as long as the longer of the two, and each
\* of its bytes is from the data, as far as they go.
LEMMA OverwrittenBytes ==
    ASSUME NEW S, NEW old \in Seq(S), NEW data \in Seq(S)
    PROVE  /\ Overwritten(old, data) \in Seq(S)
           /\ Len(Overwritten(old, data)) =
                 IF Len(data) < Len(old) THEN Len(old) ELSE Len(data)
           /\ \A i \in 1..Len(Overwritten(old, data)) :
                 Overwritten(old, data)[i] = IF i <= Len(data) THEN data[i] ELSE old[i]
<1>. DEFINE tail == SubSeq(old, Len(data) + 1, Len(old))
<1>1. Len(data) \in Nat /\ Len(old) \in Nat
  BY LenProperties
<1>2. \A i \in (Len(data) + 1)..Len(old) : old[i] \in S
  BY <1>1, ElementOfSeq
<1>3. /\ tail \in Seq(S)
      /\ Len(tail) = IF Len(data) + 1 <= Len(old) THEN Len(old) - Len(data) ELSE 0
      /\ \A i \in 1..(Len(old) - Len(data)) : tail[i] = old[Len(data) + i]
  <2>1. /\ tail \in Seq(S)
        /\ Len(tail) = IF Len(data) + 1 <= Len(old)
                       THEN Len(old) - (Len(data) + 1) + 1 ELSE 0
        /\ \A i \in 1..(Len(old) - (Len(data) + 1) + 1) :
              tail[i] = old[(Len(data) + 1) + i - 1]
    BY <1>1, <1>2, SubSeqProperties
  <2>. QED
    BY <1>1, <2>1
<1>. HIDE DEF tail
<1>4. Overwritten(old, data) = data \o tail
  BY DEF Overwritten, tail
<1>5. /\ data \o tail \in Seq(S)
      /\ Len(data \o tail) = Len(data) + Len(tail)
      /\ \A i \in 1..(Len(data) + Len(tail)) :
            (data \o tail)[i] = IF i <= Len(data) THEN data[i] ELSE tail[i - Len(data)]
  BY <1>3, ConcatProperties
<1>6. ASSUME NEW i \in 1..(Len(data) + Len(tail)), ~ (i <= Len(data))
      PROVE  tail[i - Len(data)] = old[i]
  BY <1>1, <1>3, <1>6
<1>. QED
  BY <1>1, <1>3, <1>4, <1>5, <1>6

\* The tree a node starts with.
LEMMA MountedTree ==
    ASSUME NEW defaultfs, IsTree(Put(defaultfs, [q \in {Root} |-> Dir])), NEW home \in Paths
    PROVE  IsTree(Mounted(defaultfs, home))
BY MkdirAllTree DEF Mounted

-----------------------------------------------------------------------------
(* Sequences that are joined                                               *)

\* Three sequences.
LEMMA JoinOfThree ==
    \A S : \A a, b, c \in Seq(S) : (a \o b) \o c = a \o (b \o c)
OBVIOUS

\* f joins the first k sequences of q.
IsJoin(f, q, k) ==
    f = [i \in 1..k |-> IF i = 1 THEN q[i] ELSE f[i - 1] \o q[i]]

\* What it is at each place.
LEMMA JoinStep ==
    ASSUME NEW f, NEW q, NEW n, IsJoin(f, q, n), NEW i \in 1..n
    PROVE  f[i] = IF i = 1 THEN q[i] ELSE f[i - 1] \o q[i]
<1>. DEFINE body(j) == IF j = 1 THEN q[j] ELSE f[j - 1] \o q[j]
<1>1. f = [j \in 1..n |-> body(j)]
  BY Zenon DEF IsJoin
<1>. HIDE DEF body
<1>2. f[i] = body(i)
  BY <1>1
<1>. QED
  BY <1>2 DEF body

\* There is a function that joins them.
LEMMA JoinExists ==
    ASSUME NEW q, NEW n \in Nat
    PROVE  \E f : IsJoin(f, q, n)
<1>. DEFINE T == {k \in Nat : ~ \E f : IsJoin(f, q, k)}
<1>1. SUFFICES ASSUME T # {} PROVE FALSE
  OBVIOUS
<1>2. PICK k \in T : \A m \in T : k <= m
  BY <1>1, LeastNatural
<1>3. CASE k = 0
  <2>. DEFINE g == [i \in 1..0 |-> IF i = 1 THEN q[i] ELSE <<>>]
  <2>1. IsJoin(g, q, 0)
    BY DEF IsJoin
  <2>. QED
    BY <1>3, <2>1
<1>4. CASE k > 0
  <2>1. k - 1 \in Nat /\ k - 1 \notin T
    BY <1>2, <1>4
  <2>2. PICK f : IsJoin(f, q, k - 1)
    BY <2>1
  <2>. DEFINE g == [i \in 1..k |->
                      IF i < k THEN f[i] ELSE IF i = 1 THEN q[i] ELSE f[i - 1] \o q[i]]
  <2>3. \A i \in 1..k : g[i] = IF i = 1 THEN q[i] ELSE g[i - 1] \o q[i]
    <3>1. \A i \in 1..(k - 1) : f[i] = IF i = 1 THEN q[i] ELSE f[i - 1] \o q[i]
      BY <2>2, JoinStep
    <3>. QED
      BY <1>4, <2>1, <3>1
  <2>4. g = [i \in 1..k |-> g[i]]
    OBVIOUS
  <2>. HIDE DEF g
  <2>5. IsJoin(g, q, k)
    BY <2>3, <2>4 DEF IsJoin
  <2>. QED
    BY <2>5
<1>. QED
  BY <1>2, <1>3, <1>4

\* FlattenSeq is the last value of the function it defines.
LEMMA FlattenIsJoin ==
    ASSUME NEW q, Len(q) \in Nat \ {0}
    PROVE  \E f : IsJoin(f, q, Len(q)) /\ FlattenSeq(q) = f[Len(q)]
<1>. DEFINE F == CHOOSE f : f = [i \in 1..Len(q) |->
                                   IF i = 1 THEN q[i] ELSE f[i - 1] \o q[i]]
<1>1. FlattenSeq(q) = F[Len(q)]
  BY DEF FlattenSeq
<1>2. PICK f : IsJoin(f, q, Len(q))
  BY JoinExists
<1>3. IsJoin(F, q, Len(q))
  BY <1>2, Zenon DEF IsJoin
<1>. QED
  BY <1>1, <1>3

\* Nothing to join, and what a join is made of.
LEMMA FlattenType ==
    ASSUME NEW S, NEW q \in Seq(Seq(S))
    PROVE  FlattenSeq(q) \in Seq(S)
<1>1. CASE q = <<>>
  <2>1. Len(q) = 0 /\ <<>> \in Seq(S)
    BY <1>1, EmptySeq
  <2>. QED
    BY <1>1, <2>1 DEF FlattenSeq
<1>2. CASE q # <<>>
  <2>1. Len(q) \in Nat \ {0}
    BY <1>2, EmptySeq
  <2>2. PICK f : IsJoin(f, q, Len(q)) /\ FlattenSeq(q) = f[Len(q)]
    BY <2>1, FlattenIsJoin
  <2>. DEFINE T == {i \in Nat : i \in 1..Len(q) /\ f[i] \notin Seq(S)}
  <2>3. SUFFICES ASSUME T # {} PROVE FALSE
    BY <2>1, <2>2
  <2>4. PICK k \in T : \A m \in T : k <= m
    BY <2>3, LeastNatural
  <2>5. k \in 1..Len(q) /\ q[k] \in Seq(S)
    BY <2>4, ElementOfSeq
  <2>6. f[k] = IF k = 1 THEN q[k] ELSE f[k - 1] \o q[k]
    BY <2>2, <2>5, JoinStep
  <2>7. k # 1
    BY <2>4, <2>5, <2>6
  <2>8. k - 1 \in 1..Len(q) /\ k - 1 \notin T
    BY <2>1, <2>4, <2>5, <2>7
  <2>9. f[k - 1] \in Seq(S)
    BY <2>8
  <2>10. \A a, b \in Seq(S) : a \o b \in Seq(S)
    BY ConcatProperties
  <2>11. f[k] \in Seq(S)
    BY <2>5, <2>6, <2>7, <2>9, <2>10, Zenon
  <2>. QED
    BY <2>4, <2>11
<1>. QED
  BY <1>1, <1>2

\* One sequence more.
LEMMA FlattenAppend ==
    ASSUME NEW S, NEW q \in Seq(Seq(S)), NEW x \in Seq(S)
    PROVE  FlattenSeq(Append(q, x)) = FlattenSeq(q) \o x
<1>. DEFINE r == Append(q, x)
            n == Len(q)
<1>1. /\ r \in Seq(Seq(S)) /\ Len(r) = n + 1 /\ n \in Nat
      /\ \A i \in 1..n : r[i] = q[i]
      /\ r[n + 1] = x
  BY AppendProperties
<1>. HIDE DEF r
<1>2. PICK g : IsJoin(g, r, n + 1) /\ FlattenSeq(r) = g[n + 1]
  BY <1>1, FlattenIsJoin
<1>3. CASE n = 0
  <2>1. g[n + 1] = x
    BY <1>1, <1>2, <1>3, JoinStep
  <2>2. q = <<>> /\ FlattenSeq(q) = q
    BY <1>3, EmptySeq DEF FlattenSeq
  <2>3. <<>> \o x = x
    BY ConcatEmptySeq
  <2>. QED
    BY <1>2, <2>1, <2>2, <2>3 DEF r
<1>4. CASE n > 0
  <2>1. PICK f : IsJoin(f, q, n) /\ FlattenSeq(q) = f[n]
    BY <1>1, <1>4, FlattenIsJoin
  <2>. DEFINE T == {i \in Nat : i \in 1..n /\ f[i] # g[i]}
  <2>2. T = {}
    <3>1. SUFFICES ASSUME T # {} PROVE FALSE
      OBVIOUS
    <3>2. PICK k \in T : \A m \in T : k <= m
      BY <3>1, LeastNatural
    <3>3. k \in 1..n /\ f[k] # g[k]
      BY <3>2
    <3>4. /\ f[k] = IF k = 1 THEN q[k] ELSE f[k - 1] \o q[k]
          /\ g[k] = IF k = 1 THEN r[k] ELSE g[k - 1] \o r[k]
      <4>1. k \in 1..(n + 1)
        BY <1>1, <3>3
      <4>. QED
        BY <1>2, <2>1, <3>3, <4>1, JoinStep
    <3>5. k # 1
      BY <1>1, <3>3, <3>4
    <3>6. k - 1 \in 1..n /\ k - 1 \notin T
      BY <1>1, <3>2, <3>3, <3>5
    <3>7. f[k - 1] = g[k - 1]
      BY <3>6
    <3>. QED
      BY <1>1, <3>3, <3>4, <3>5, <3>7
  <2>3. f[n] = g[n]
    <3>1. n \in 1..n /\ n \in Nat
      BY <1>1, <1>4
    <3>2. n \notin T
      BY <2>2
    <3>. QED
      BY <3>1, <3>2
  <2>4. g[n + 1] = g[n] \o x
    <3>1. n + 1 \in 1..(n + 1) /\ n + 1 # 1 /\ (n + 1) - 1 = n
      BY <1>1, <1>4
    <3>2. \A i \in 1..(n + 1) : g[i] = IF i = 1 THEN r[i] ELSE g[i - 1] \o r[i]
      BY <1>2, JoinStep
    <3>3. g[n + 1] = g[(n + 1) - 1] \o r[n + 1]
      BY <3>1, <3>2, Zenon
    <3>. QED
      BY <1>1, <3>1, <3>3
  <2>. QED
    BY <1>2, <2>1, <2>3, <2>4 DEF r
<1>. QED
  BY <1>1, <1>3, <1>4

\* Nothing, and one sequence.
LEMMA FlattenSmall ==
    ASSUME NEW S, NEW x \in Seq(S)
    PROVE  FlattenSeq(<<>>) = <<>> /\ FlattenSeq(<<x>>) = x
<1>1. FlattenSeq(<<>>) = <<>>
  BY DEF FlattenSeq
<1>2. <<x>> = Append(<<>>, x) /\ <<>> \in Seq(Seq(S))
  BY EmptySeq
<1>3. FlattenSeq(<<x>>) = <<>> \o x
  BY <1>1, <1>2, FlattenAppend
<1>. QED
  BY <1>1, <1>3, ConcatEmptySeq

\* The first sequence, and the rest joined.
LEMMA FlattenCons ==
    ASSUME NEW S, NEW q \in Seq(Seq(S)), q # <<>>
    PROVE  FlattenSeq(q) = Head(q) \o FlattenSeq(Tail(q))
<1>. DEFINE Bad(y) == FlattenSeq(y) # Head(y) \o FlattenSeq(Tail(y))
            T      == {n \in Nat : \E y \in Seq(Seq(S)) : y # <<>> /\ Len(y) = n /\ Bad(y)}
<1>1. SUFFICES ASSUME T # {} PROVE FALSE
  <2>1. Len(q) \in Nat
    BY LenProperties
  <2>. QED
    BY <1>1, <2>1
<1>2. PICK n \in T : \A m \in T : n <= m
  BY <1>1, LeastNatural
<1>3. PICK y \in Seq(Seq(S)) : y # <<>> /\ Len(y) = n /\ Bad(y)
  BY <1>2
<1>4. PICK z \in Seq(Seq(S)), e \in Seq(S) : y = Append(z, e)
  BY <1>3, SequenceEmptyOrAppend
<1>5. CASE z = <<>>
  <2>1. Head(y) = e /\ Tail(y) = <<>>
    BY <1>4, <1>5, HeadTailAppend
  <2>2. FlattenSeq(y) = e
    BY <1>4, <1>5, FlattenSmall
  <2>3. e \o <<>> = e
    BY ConcatEmptySeq
  <2>. QED
    BY <1>3, <2>1, <2>2, <2>3, FlattenSmall
<1>6. CASE z # <<>>
  <2>1. Head(y) = Head(z) /\ Tail(y) = Append(Tail(z), e)
    BY <1>4, <1>6, HeadTailAppend
  <2>2. Head(z) \in Seq(S) /\ Tail(z) \in Seq(Seq(S))
    BY <1>6, HeadTailProperties
  <2>3. Len(z) \in Nat /\ Len(z) \notin T
    <3>1. Len(y) = Len(z) + 1 /\ Len(z) \in Nat
      BY <1>4, AppendProperties
    <3>2. n \in Nat /\ ~ (n <= Len(z))
      BY <1>3, <3>1
    <3>. HIDE DEF T
    <3>. QED
      BY <1>2, <3>1, <3>2
  <2>4. FlattenSeq(z) = Head(z) \o FlattenSeq(Tail(z))
    BY <1>6, <2>3
  <2>5. /\ FlattenSeq(y) = FlattenSeq(z) \o e
        /\ FlattenSeq(Tail(y)) = FlattenSeq(Tail(z)) \o e
    BY <1>4, <2>1, <2>2, FlattenAppend
  <2>6. FlattenSeq(Tail(z)) \in Seq(S)
    BY <2>2, FlattenType
  <2>7. (Head(z) \o FlattenSeq(Tail(z))) \o e = Head(z) \o (FlattenSeq(Tail(z)) \o e)
    <3>. DEFINE a == Head(z)
                b == FlattenSeq(Tail(z))
    <3>1. a \in Seq(S) /\ b \in Seq(S)
      BY <2>2, <2>6
    <3>. HIDE DEF a, b, Bad, T
    <3>2. (a \o b) \o e = a \o (b \o e)
      BY <3>1, JoinOfThree
    <3>. QED
      BY <3>2 DEF a, b
  <2>. QED
    BY <1>3, <2>1, <2>4, <2>5, <2>7
<1>. QED
  BY <1>5, <1>6
====
