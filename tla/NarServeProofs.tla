--------------------------- MODULE NarServeProofs ---------------------------
(***************************************************************************)
(* Proofs about NarServe, for every tree, set of clients and bounds: a NAR *)
(* that ends without an error is the whole NAR of the path, or a           *)
(* compressed one whose build met a collection.                            *)
(*                                                                         *)
(* The argument has two halves.  The uncompressed NAR: what a walk wrote   *)
(* and what it has still to write are strictly increasing in the order of  *)
(* their names (Ordered), so no node is written twice, and the declared    *)
(* length can only be reached by writing every node complete.  The         *)
(* compressed NAR: no row of the path comes back under an id that was read *)
(* before (Rows), so while the row that a build started from is there, the *)
(* files have been complete all along, and every node is written or lies   *)
(* under one still to write (Complete).                                    *)
(***************************************************************************)
EXTENDS NarServe, FiniteSetTheorems, SequenceTheorems, TLAPS

(***************************************************************************)
(* The inductive invariant.                                                *)
(***************************************************************************)

\* While the path has its row, nothing happens to its files; the row of the
\* path that is added next has a new id.
Rows ==
    id # 0 => id = adds + 1 /\ nix = "idle" /\ \A n \in Nodes : files[n] = "full"

\* An id that was read from the database is not the id of a later row.
Known(i) == i \in 1..(adds + 1) /\ (nix = "adding" => i <= adds)

Fresh(r) == req[r].step \in {"refs", "lease", "wait"} => Known(req[r].id)

\* Only a NAR is written or copied, with the encoding its URL names.
Asked(r) ==
    /\ req[r].step = "write" => req[r].kind = "nar" /\ req[r].url = "none"
    /\ req[r].step \in {"lease", "wait"} => req[r].kind = "info" \/ WantsZstd(r)
    /\ req[r].step = "copy" => WantsZstd(r)

\* The nodes a walk has written, and those it has still to write: none twice.
InOrder(nar) == \A i, j \in DOMAIN nar : i < j => Before(nar[i][1], nar[j][1])

Ordered(w) ==
    /\ InOrder(w.nar)
    /\ \A i \in DOMAIN w.nar, j \in DOMAIN w.todo : Before(w.nar[i][1], w.todo[j])
    /\ \A i, j \in DOMAIN w.todo : i < j => IsLeftOf(w.todo[i], w.todo[j])

\* Every node is written complete, or lies under one that is still to write.
Covers(m, n)  == Len(m) <= Len(n) /\ Cut(n, Len(m)) = m
Written(w, n) == \E i \in DOMAIN w.nar : w.nar[i] = <<n, "full">>
Complete(w) ==
    \A n \in Nodes : Written(w, n) \/ \E j \in DOMAIN w.todo : Covers(w.todo[j], n)

\* The compressed NARs in the cache and in the hands of a request.
Sound(entry) == entry.raced \/ Whole(entry.nar)

Writing(r) == req[r].step = "write" => Ordered(walk[r])
Copying(r) == req[r].step = "copy" => lease[r] \in EntryType /\ Sound(lease[r])
Clean(r) ==
    resp[r] # None =>
       /\ Whole(resp[r].nar) \/ (resp[r].encoding = "zstd" /\ resp[r].raced)
       /\ resp[r].encoding = resp[r].url

ReqOK(r) == Fresh(r) /\ Asked(r) /\ Writing(r) /\ Copying(r) /\ Clean(r)

BuildOK ==
    flight # None =>
       /\ Known(flight) /\ Ordered(walk[Builder])
       /\ flight = id => Complete(walk[Builder])

CacheOK == cached # None => Sound(cached)

Inv == TypeOK /\ Rows /\ BuildOK /\ CacheOK /\ \A r \in Reqs : ReqOK(r)

-----------------------------------------------------------------------------
(***************************************************************************)
(* Names: sequences of numbers, compared entry by entry.                   *)
(***************************************************************************)
Names == Seq(Nat)

LEMMA CutFacts ==
  ASSUME NEW n \in Names, NEW i \in 0..Len(n)
  PROVE  /\ Cut(n, i) \in Names /\ Len(Cut(n, i)) = i
         /\ \A j \in 1..i : Cut(n, i)[j] = n[j]
BY DEF Names, Cut

LEMMA SameName ==
  ASSUME NEW m \in Names, NEW n \in Names, Len(m) = Len(n),
         \A j \in 1..Len(m) : m[j] = n[j]
  PROVE  m = n
BY DEF Names

\* Two names agree up to i when they agree on every entry up to i.
LEMMA CutEq ==
  ASSUME NEW m \in Names, NEW n \in Names, NEW i \in Nat, i <= Len(m), i <= Len(n)
  PROVE  Cut(m, i) = Cut(n, i) <=> \A j \in 1..i : m[j] = n[j]
<1>1. i \in 0..Len(m) /\ i \in 0..Len(n)
  BY DEF Names
<1>2. /\ Cut(m, i) \in Names /\ Len(Cut(m, i)) = i /\ \A j \in 1..i : Cut(m, i)[j] = m[j]
      /\ Cut(n, i) \in Names /\ Len(Cut(n, i)) = i /\ \A j \in 1..i : Cut(n, i)[j] = n[j]
  BY <1>1, CutFacts
<1>3. ASSUME Cut(m, i) = Cut(n, i) PROVE \A j \in 1..i : m[j] = n[j]
  BY <1>2, <1>3
<1>4. ASSUME \A j \in 1..i : m[j] = n[j] PROVE Cut(m, i) = Cut(n, i)
  BY <1>2, <1>4, SameName
<1> QED BY <1>3, <1>4

LEMMA CutAll ==
  ASSUME NEW n \in Names
  PROVE  Cut(n, Len(n)) = n
<1>1. Len(n) \in 0..Len(n)
  BY DEF Names
<1> QED BY <1>1, CutFacts, SameName

\* The same, entry by entry.
LEMMA CoversEq ==
  ASSUME NEW m \in Names, NEW n \in Names
  PROVE  Covers(m, n) <=> Len(m) <= Len(n) /\ \A j \in 1..Len(m) : m[j] = n[j]
<1>1. Len(m) \in Nat /\ Len(n) \in Nat /\ Cut(m, Len(m)) = m
  BY CutAll DEF Names
<1> QED BY <1>1, CutEq DEF Covers

LEMMA LeftEq ==
  ASSUME NEW m \in Names, NEW n \in Names
  PROVE  IsLeftOf(m, n) <=>
            \E i \in 1..Len(m) : /\ i <= Len(n) /\ m[i] < n[i]
                                 /\ \A j \in 1..(i - 1) : m[j] = n[j]
<1>1. ASSUME NEW i \in 1..Len(m), i <= Len(n)
      PROVE  Cut(m, i - 1) = Cut(n, i - 1) <=> \A j \in 1..(i - 1) : m[j] = n[j]
  <2>1. i - 1 \in Nat /\ i - 1 <= Len(m) /\ i - 1 <= Len(n)
    BY <1>1 DEF Names
  <2> QED BY <2>1, CutEq
<1> QED BY <1>1 DEF IsLeftOf

\* What is before a name, or beside it, is so of everything below.
LEMMA LeftBelow ==
  ASSUME NEW m \in Names, NEW n \in Names, NEW c \in Names, IsLeftOf(m, n)
  PROVE  /\ Covers(n, c) => IsLeftOf(m, c)
         /\ Covers(m, c) => IsLeftOf(c, n)
<1>1. PICK i \in 1..Len(m) : /\ i <= Len(n) /\ m[i] < n[i]
                             /\ \A j \in 1..(i - 1) : m[j] = n[j]
  BY LeftEq
<1>2. Len(m) \in Nat /\ Len(n) \in Nat /\ Len(c) \in Nat /\ i \in 1..Len(n)
  BY <1>1 DEF Names
<1>3. ASSUME Covers(n, c) PROVE IsLeftOf(m, c)
  <2>1. Len(n) <= Len(c) /\ \A j \in 1..Len(n) : n[j] = c[j]
    BY <1>3, CoversEq
  <2>2. i <= Len(c) /\ m[i] < c[i] /\ \A j \in 1..(i - 1) : m[j] = c[j]
    BY <1>1, <1>2, <2>1
  <2> QED BY <2>2, LeftEq
<1>4. ASSUME Covers(m, c) PROVE IsLeftOf(c, n)
  <2>1. Len(m) <= Len(c) /\ \A j \in 1..Len(m) : m[j] = c[j]
    BY <1>4, CoversEq
  <2>2. i \in 1..Len(c) /\ c[i] < n[i] /\ \A j \in 1..(i - 1) : c[j] = n[j]
    BY <1>1, <1>2, <2>1
  <2> QED BY <1>1, <2>2, LeftEq
<1> QED BY <1>3, <1>4

LEMMA BeforeBelow ==
  ASSUME NEW m \in Names, NEW n \in Names, NEW c \in Names, Before(m, n), Covers(n, c)
  PROVE  Before(m, c)
<1>1. CASE IsLeftOf(m, n)
  BY <1>1, LeftBelow DEF Before
<1>2. CASE IsAbove(m, n)
  <2>1. Len(m) < Len(n) /\ Covers(m, n) /\ Len(m) \in Nat /\ Len(n) \in Nat /\ Len(c) \in Nat
    BY <1>2 DEF IsAbove, Covers, Names
  <2>2. /\ \A j \in 1..Len(m) : m[j] = n[j]
        /\ Len(n) <= Len(c) /\ \A j \in 1..Len(n) : n[j] = c[j]
    BY <2>1, CoversEq
  <2>3. Len(m) < Len(c) /\ \A j \in 1..Len(m) : m[j] = c[j]
    BY <2>1, <2>2
  <2>4. Covers(m, c)
    BY <2>1, <2>3, CoversEq
  <2> QED BY <2>3, <2>4 DEF Before, IsAbove, Covers
<1> QED BY <1>1, <1>2 DEF Before

LEMMA BeforeIrreflexive ==
  ASSUME NEW n \in Names
  PROVE  ~Before(n, n)
<1>1. \A i \in 1..Len(n) : n[i] \in Nat
  BY DEF Names
<1>2. ~IsLeftOf(n, n)
  BY <1>1, LeftEq
<1>3. ~IsAbove(n, n)
  BY DEF IsAbove, Names
<1> QED BY <1>2, <1>3 DEF Before

-----------------------------------------------------------------------------
(***************************************************************************)
(* The tree and its listings.                                              *)
(***************************************************************************)
LEMMA TreeFacts ==
  ASSUME TypeOK
  PROVE  /\ IsFiniteSet(Nodes) /\ Nodes \subseteq Names /\ <<>> \in Nodes
         /\ \A n \in Nodes : \A i \in 0..(Len(n) - 1) :
               Cut(n, i) \in Nodes /\ tree[Cut(n, i)] = "directory"
BY ReadAssumption DEF TypeOK, Nodes, Names

\* The node on the way to n just below m.
LEMMA NextBelow ==
  ASSUME TypeOK, NEW m \in Nodes, NEW n \in Nodes, Covers(m, n), m # n
  PROVE  /\ Len(m) < Len(n) /\ tree[m] = "directory"
         /\ Cut(n, Len(m) + 1) \in Children(m) /\ Covers(Cut(n, Len(m) + 1), n)
<1> DEFINE k == Len(m)
           c == Cut(n, k + 1)
<1>1. m \in Names /\ n \in Names /\ k \in Nat /\ Len(n) \in Nat /\ k <= Len(n) /\ Cut(n, k) = m
  BY TreeFacts DEF Names, Covers
<1>2. k < Len(n)
  <2>1. k # Len(n)
    BY <1>1, CutAll
  <2> QED BY <1>1, <2>1
<1>3. k \in 0..(Len(n) - 1) /\ k + 1 \in 0..Len(n) /\ k \in 0..Len(n)
  BY <1>1, <1>2
<1>4. tree[m] = "directory"
  BY <1>1, <1>3, TreeFacts
<1>5. /\ c \in Names /\ Len(c) = k + 1 /\ \A j \in 1..(k + 1) : c[j] = n[j]
  BY <1>1, <1>3, CutFacts
<1>6. c \in Nodes
  <2>1. CASE k + 1 = Len(n)
    BY <1>1, <2>1, CutAll
  <2>2. CASE k + 1 # Len(n)
    <3>1. k + 1 \in 0..(Len(n) - 1)
      BY <1>3, <2>2
    <3> QED BY <3>1, TreeFacts
  <2> QED BY <2>1, <2>2
<1> HIDE DEF c
<1>7. Covers(c, n)
  BY <1>1, <1>2, <1>5, CoversEq
<1>8. Cut(c, k) = Cut(n, k)
  BY <1>1, <1>2, <1>5, CutEq
<1> QED BY <1>1, <1>2, <1>4, <1>5, <1>6, <1>7, <1>8 DEF Children, c

\* Two children of a node are beside each other.
LEMMA Siblings ==
  ASSUME TypeOK, NEW n \in Nodes, NEW a \in Children(n), NEW b \in Children(n), ByName(a, b)
  PROVE  IsLeftOf(a, b)
<1>1. /\ a \in Names /\ b \in Names /\ n \in Names /\ Len(n) \in Nat
      /\ Len(a) = Len(n) + 1 /\ Len(b) = Len(n) + 1
      /\ Cut(a, Len(n)) = n /\ Cut(b, Len(n)) = n
  BY TreeFacts DEF Children, Names
<1>2. Len(a) \in 1..Len(a) /\ Len(a) <= Len(b) /\ a[Len(a)] < b[Len(a)]
  BY <1>1 DEF ByName
<1>3. Cut(a, Len(a) - 1) = Cut(b, Len(a) - 1)
  BY <1>1
<1> QED BY <1>2, <1>3 DEF IsLeftOf

LEMMA ChildFacts ==
  ASSUME TypeOK, NEW n \in Nodes, NEW c \in Children(n)
  PROVE  /\ c \in Nodes /\ c \in Names /\ n \in Names
         /\ Covers(n, c) /\ IsAbove(n, c)
BY TreeFacts DEF Children, Covers, IsAbove, Names

\* A listing leaves nothing out: it is as long as there are entries, all different.
LEMMA ListingFacts ==
  ASSUME TypeOK, NEW n \in Nodes, NEW s \in ReadDir(n)
  PROVE  /\ s \in Seq(Nodes) /\ DOMAIN s = 1..Len(s)
         /\ \A i \in 1..Len(s) : s[i] \in Children(n)
         /\ \A i, j \in 1..Len(s) : i < j => IsLeftOf(s[i], s[j])
         /\ \A c \in Children(n) : Exists(c) => \E i \in 1..Len(s) : s[i] = c
<1> DEFINE found == {m \in Children(n) : Exists(m)}
           k     == Cardinality(found)
<1>1. IsFiniteSet(found) /\ k \in Nat
  <2>1. found \subseteq Nodes
    BY DEF Children
  <2> QED BY <2>1, TreeFacts, FS_Subset, FS_CardinalityType
<1>2. /\ s \in [1..k -> found]
      /\ \A i, j \in 1..k : i < j => ByName(s[i], s[j])
  BY DEF ReadDir
<1> HIDE DEF k
<1>3. \A i \in 1..k : s[i] \in Children(n) /\ s[i] \in Nodes
  BY <1>2 DEF Children
<1>4. s \in Seq(Nodes) /\ Len(s) = k /\ DOMAIN s = 1..k
  BY <1>1, <1>2, <1>3
<1>5. \A i, j \in 1..k : i < j => IsLeftOf(s[i], s[j])
  BY <1>2, <1>3, Siblings
<1>6. s \in Injection(1..k, found)
  <2>1. ASSUME NEW i \in 1..k, NEW j \in 1..k, s[i] = s[j], i < j PROVE FALSE
    <3>1. IsLeftOf(s[i], s[i]) /\ s[i] \in Names
      BY <1>3, <1>5, <2>1, TreeFacts
    <3> QED BY <3>1, BeforeIrreflexive DEF Before
  <2>2. \A i, j \in 1..k : s[i] = s[j] => i = j
    BY <1>1, <2>1
  <2> QED BY <1>2, <2>2 DEF Injection, IsInjective
<1>7. Cardinality(1..k) = k
  BY <1>1, FS_Interval
<1>8. s \in Surjection(1..k, found)
  BY <1>1, <1>6, <1>7, FS_Injection DEF k
<1>9. \A c \in found : \E i \in 1..k : s[i] = c
  BY <1>8 DEF Surjection
<1> QED BY <1>3, <1>4, <1>5, <1>9

-----------------------------------------------------------------------------
(***************************************************************************)
(* Walks.                                                                  *)
(***************************************************************************)

\* The walk that wrote node h, of state f, and found its entries.
Stepped(w, h, f, entries) ==
    [todo |-> entries \o Tail(w.todo), nar |-> Append(w.nar, <<h, f>>)]

LEMMA EntriesFacts ==
  ASSUME TypeOK, NEW n \in Nodes, NEW s \in Entries(n)
  PROVE  /\ s \in Seq(Nodes)
         /\ \A i \in 1..Len(s) : s[i] \in Children(n)
         /\ \A i, j \in 1..Len(s) : i < j => IsLeftOf(s[i], s[j])
         /\ tree[n] = "directory" =>
               \A c \in Children(n) : Exists(c) => \E i \in 1..Len(s) : s[i] = c
<1>1. CASE tree[n] = "directory"
  <2>1. s \in ReadDir(n)
    BY <1>1 DEF Entries
  <2> QED BY <2>1, ListingFacts
<1>2. CASE tree[n] # "directory"
  <2>1. s = <<>>
    BY <1>2 DEF Entries
  <2> QED BY <1>2, <2>1
<1> QED BY <1>1, <1>2

\* The sequences of w and of v, the walk after the step, entry by entry.
StepShape(w, h, f, s, v, k, m) ==
    /\ h \in Nodes /\ v \in WalkType /\ k \in Nat /\ m \in Nat
    /\ h = w.todo[1] /\ 1 \in DOMAIN w.todo
    /\ DOMAIN w.nar = 1..m /\ DOMAIN v.nar = 1..(m + 1)
    /\ v.nar[m + 1] = <<h, f>> /\ \A i \in 1..m : v.nar[i] = w.nar[i]
    /\ \A i \in 1..m : w.nar[i][1] \in Nodes
    /\ \A j \in DOMAIN w.todo : w.todo[j] \in Nodes
    /\ \A j \in 1..k : j \in DOMAIN v.todo /\ v.todo[j] = s[j]
    /\ \A j \in DOMAIN w.todo :
          j # 1 => j + k - 1 \in DOMAIN v.todo /\ v.todo[j + k - 1] = w.todo[j]
    /\ \A j \in DOMAIN v.todo :
          \/ j \in 1..k
          \/ j > k /\ j - k + 1 \in DOMAIN w.todo /\ j - k + 1 # 1
    /\ DOMAIN w.todo \subseteq Nat /\ DOMAIN v.todo \subseteq Nat

LEMMA IndexShift ==
  ASSUME NEW k \in Nat, NEW l \in Nat, NEW i \in 1..l
  PROVE  i + k \in 1..(k + l)
OBVIOUS

LEMMA SteppedFacts ==
  ASSUME TypeOK, NEW w \in WalkType, w.todo # <<>>, NEW f \in {"part", "full"},
         NEW s \in Seq(Nodes)
  PROVE  StepShape(w, Head(w.todo), f, s, Stepped(w, Head(w.todo), f, s), Len(s), Len(w.nar))
<1> DEFINE h    == Head(w.todo)
           rest == Tail(w.todo)
           v    == Stepped(w, h, f, s)
<1>1. w.todo \in Seq(Nodes) /\ w.nar \in Seq(Pieces)
  BY DEF WalkType
<1>2. h \in Nodes /\ h = w.todo[1] /\ Len(w.todo) \in Nat \ {0} /\ Len(s) \in Nat
      /\ Len(w.nar) \in Nat /\ DOMAIN w.todo = 1..Len(w.todo) /\ DOMAIN w.nar = 1..Len(w.nar)
  BY <1>1
<1>3. /\ rest \in Seq(Nodes) /\ Len(rest) = Len(w.todo) - 1
      /\ \A j \in 1..Len(rest) : rest[j] = w.todo[j + 1]
  BY <1>1, <1>2
<1>4. v.todo = s \o rest /\ v.nar = Append(w.nar, <<h, f>>)
  BY DEF Stepped
<1>5. <<h, f>> \in Pieces
  BY <1>2 DEF Pieces
<1> HIDE DEF h, rest
<1>6. /\ v.todo \in Seq(Nodes) /\ DOMAIN v.todo = 1..(Len(s) + Len(rest))
      /\ \A j \in 1..Len(s) : v.todo[j] = s[j]
      /\ \A j \in 1..Len(rest) : v.todo[j + Len(s)] = rest[j]
  <2>1. /\ s \o rest \in Seq(Nodes) /\ Len(s \o rest) = Len(s) + Len(rest)
        /\ \A j \in 1..(Len(s) + Len(rest)) :
              (s \o rest)[j] = IF j <= Len(s) THEN s[j] ELSE rest[j - Len(s)]
    BY <1>3, ConcatProperties
  <2> HIDE DEF v
  <2> DEFINE t == v.todo
  <2>2. /\ t \in Seq(Nodes) /\ Len(t) = Len(s) + Len(rest)
        /\ \A j \in 1..(Len(s) + Len(rest)) :
              t[j] = IF j <= Len(s) THEN s[j] ELSE rest[j - Len(s)]
    BY <1>4, <2>1
  <2> HIDE DEF t
  <2>3. ASSUME NEW j \in 1..Len(s) PROVE t[j] = s[j]
    <3>1. j \in 1..(Len(s) + Len(rest)) /\ j <= Len(s)
      BY <1>2, <1>3
    <3> QED BY <2>2, <3>1
  <2>4. ASSUME NEW j \in 1..Len(rest) PROVE t[j + Len(s)] = rest[j]
    <3>1. /\ j + Len(s) \in 1..(Len(s) + Len(rest)) /\ j + Len(s) > Len(s)
          /\ (j + Len(s)) - Len(s) = j
      BY <1>2, <1>3
    <3> QED BY <2>2, <3>1
  <2>5. DOMAIN t = 1..(Len(s) + Len(rest))
    BY <2>2
  <2> QED BY <2>2, <2>3, <2>4, <2>5 DEF t
<1>7. /\ v.nar \in Seq(Pieces) /\ DOMAIN v.nar = 1..(Len(w.nar) + 1)
      /\ v.nar[Len(w.nar) + 1] = <<h, f>>
      /\ \A i \in 1..Len(w.nar) : v.nar[i] = w.nar[i]
  BY <1>1, <1>2, <1>4, <1>5
<1>8. v \in WalkType
  BY <1>6, <1>7 DEF WalkType, Stepped
<1> HIDE DEF v
<1>9. \A j \in DOMAIN w.todo :
         j # 1 => j + Len(s) - 1 \in DOMAIN v.todo /\ v.todo[j + Len(s) - 1] = w.todo[j]
  <2> SUFFICES ASSUME NEW j \in 1..Len(w.todo), j # 1
               PROVE  j + Len(s) - 1 \in DOMAIN v.todo /\ v.todo[j + Len(s) - 1] = w.todo[j]
    BY <1>2
  <2>1. j - 1 \in 1..Len(rest) /\ (j - 1) + Len(s) = j + Len(s) - 1 /\ (j - 1) + 1 = j
    BY <1>2, <1>3
  <2>2. v.todo[(j - 1) + Len(s)] = rest[j - 1] /\ rest[j - 1] = w.todo[(j - 1) + 1]
    BY <1>3, <1>6, <2>1
  <2>3. (j - 1) + Len(s) \in 1..(Len(s) + Len(rest))
    <3>1. Len(rest) \in Nat
      BY <1>2, <1>3
    <3> QED BY <1>2, <2>1, <3>1, IndexShift
  <2> QED BY <1>6, <2>1, <2>2, <2>3
<1>10. \A j \in DOMAIN v.todo :
          \/ j \in 1..Len(s)
          \/ j > Len(s) /\ j - Len(s) + 1 \in DOMAIN w.todo /\ j - Len(s) + 1 # 1
  BY <1>2, <1>3, <1>6
<1>11. \A j \in 1..Len(s) : j \in DOMAIN v.todo
  BY <1>2, <1>3, <1>6
<1>12. \A i \in 1..Len(w.nar) : w.nar[i][1] \in Nodes
  BY <1>1, <1>2 DEF Pieces
<1>13. \A j \in DOMAIN w.todo : w.todo[j] \in Nodes
  BY <1>1, <1>2
<1>14. DOMAIN w.todo \subseteq Nat /\ DOMAIN v.todo \subseteq Nat /\ 1 \in DOMAIN w.todo
  BY <1>2, <1>3, <1>6
<1> QED BY <1>2, <1>6, <1>7, <1>8, <1>9, <1>10, <1>11, <1>12, <1>13, <1>14
     DEF StepShape, h, v

LEMMA StepOrdered ==
  ASSUME TypeOK, NEW w \in WalkType, w.todo # <<>>, NEW f \in {"part", "full"},
         NEW s \in Entries(Head(w.todo)), Ordered(w)
  PROVE  Ordered(Stepped(w, Head(w.todo), f, s))
<1> DEFINE h == Head(w.todo)
           v == Stepped(w, h, f, s)
           k == Len(s)
           m == Len(w.nar)
<1>1. h \in Nodes
  <2>1. w.todo \in Seq(Nodes)
    BY DEF WalkType
  <2> QED BY <2>1
<1>2. /\ s \in Seq(Nodes)
      /\ \A i \in 1..k : s[i] \in Children(h)
      /\ \A i, j \in 1..k : i < j => IsLeftOf(s[i], s[j])
  BY <1>1, EntriesFacts
<1>3. StepShape(w, h, f, s, v, k, m)
  BY <1>2, SteppedFacts
<1>4. /\ \A i, j \in DOMAIN w.nar : i < j => Before(w.nar[i][1], w.nar[j][1])
      /\ \A i \in DOMAIN w.nar, j \in DOMAIN w.todo : Before(w.nar[i][1], w.todo[j])
      /\ \A i, j \in DOMAIN w.todo : i < j => IsLeftOf(w.todo[i], w.todo[j])
  BY DEF Ordered, InOrder
<1> HIDE DEF h, v, k, m
<1> USE DEF StepShape
\* An entry of v.todo is one of h, or one that w has after h.
<1>5. ASSUME NEW j \in DOMAIN v.todo
      PROVE  \/ j \in 1..k /\ v.todo[j] = s[j]
             \/ /\ j > k /\ j - k + 1 \in DOMAIN w.todo /\ j - k + 1 > 1
                /\ v.todo[j] = w.todo[j - k + 1]
  <2>1. CASE j \in 1..k
    BY <1>3, <2>1
  <2>2. CASE j \notin 1..k
    <3>1. j > k /\ j - k + 1 \in DOMAIN w.todo /\ j - k + 1 # 1 /\ j \in Nat
      BY <1>3, <2>2
    <3>2. (j - k + 1) + k - 1 = j /\ j - k + 1 > 1
      <4>1. k \in Nat /\ j \in Nat /\ j > k
        BY <1>3, <3>1
      <4> QED BY <4>1
    <3>3. v.todo[(j - k + 1) + k - 1] = w.todo[j - k + 1]
      BY <1>3, <3>1
    <3> QED BY <3>1, <3>2, <3>3
  <2> QED BY <2>1, <2>2
\* What h is before, its entries are before.
<1>6. \A i \in 1..k : s[i] \in Names /\ h \in Names /\ Covers(h, s[i]) /\ Before(h, s[i])
  BY <1>1, <1>2, ChildFacts DEF Before
<1>7. \A j \in DOMAIN w.todo : w.todo[j] \in Names /\ (j > 1 => IsLeftOf(h, w.todo[j]))
  BY <1>3, <1>4, TreeFacts
<1>8. ASSUME NEW i \in DOMAIN v.nar, NEW j \in DOMAIN v.nar, i < j
      PROVE  Before(v.nar[i][1], v.nar[j][1])
  <2>1. i \in 1..m /\ (j \in 1..m \/ j = m + 1)
    BY <1>3, <1>8
  <2>2. CASE j \in 1..m
    <3>1. v.nar[i] = w.nar[i] /\ v.nar[j] = w.nar[j]
      BY <1>3, <2>1, <2>2
    <3>2. Before(w.nar[i][1], w.nar[j][1])
      BY <1>3, <1>4, <1>8, <2>1, <2>2
    <3> QED BY <3>1, <3>2
  <2>3. CASE j = m + 1
    <3>1. v.nar[i] = w.nar[i] /\ v.nar[j][1] = h
      BY <1>3, <2>1, <2>3
    <3>2. Before(w.nar[i][1], h)
      BY <1>3, <1>4, <2>1
    <3> QED BY <3>1, <3>2
  <2> QED BY <2>1, <2>2, <2>3
<1>9. ASSUME NEW i \in DOMAIN v.nar, NEW j \in DOMAIN v.todo
      PROVE  Before(v.nar[i][1], v.todo[j])
  <2>1. CASE i \in 1..m
    <3>1. v.nar[i] = w.nar[i] /\ w.nar[i][1] \in Names
      BY <1>3, <2>1, TreeFacts
    <3>2. Before(w.nar[i][1], h)
      BY <1>3, <1>4, <2>1
    <3>3. CASE j \in 1..k /\ v.todo[j] = s[j]
      BY <1>6, <3>1, <3>2, <3>3, BeforeBelow
    <3>4. CASE j - k + 1 \in DOMAIN w.todo /\ v.todo[j] = w.todo[j - k + 1]
      BY <1>3, <1>4, <2>1, <3>1, <3>4
    <3> QED BY <1>5, <3>3, <3>4
  <2>2. CASE i = m + 1
    <3>1. v.nar[i][1] = h
      BY <1>3, <2>2
    <3>2. CASE j \in 1..k /\ v.todo[j] = s[j]
      BY <1>6, <3>1, <3>2
    <3>3. CASE /\ j - k + 1 \in DOMAIN w.todo /\ j - k + 1 > 1
               /\ v.todo[j] = w.todo[j - k + 1]
      BY <1>7, <3>1, <3>3 DEF Before
    <3> QED BY <1>5, <3>2, <3>3
  <2> QED BY <1>3, <2>1, <2>2
<1>10. ASSUME NEW i \in DOMAIN v.todo, NEW j \in DOMAIN v.todo, i < j
       PROVE  IsLeftOf(v.todo[i], v.todo[j])
  <2>1. i \in Nat /\ j \in Nat
    BY <1>3
  <2>2. CASE j \in 1..k /\ v.todo[j] = s[j]
    <3>1. i \in 1..k /\ v.todo[i] = s[i]
      BY <1>3, <1>5, <1>10, <2>1, <2>2
    <3> QED BY <1>2, <1>10, <2>2, <3>1
  <2>3. CASE /\ j > k /\ j - k + 1 \in DOMAIN w.todo /\ j - k + 1 > 1
             /\ v.todo[j] = w.todo[j - k + 1]
    <3>1. CASE i \in 1..k /\ v.todo[i] = s[i]
      BY <1>6, <1>7, <2>3, <3>1, LeftBelow
    <3>2. CASE /\ i - k + 1 \in DOMAIN w.todo /\ v.todo[i] = w.todo[i - k + 1]
      <4>1. i - k + 1 < j - k + 1
        BY <1>3, <1>10, <2>1
      <4> QED BY <1>4, <2>3, <3>2, <4>1
    <3> QED BY <1>5, <3>1, <3>2
  <2> QED BY <1>5, <2>2, <2>3
<1> QED BY <1>8, <1>9, <1>10 DEF Ordered, InOrder, v, h

\* While the files are complete, nothing is missed.
LEMMA StepComplete ==
  ASSUME TypeOK, NEW w \in WalkType, w.todo # <<>>, NEW s \in Entries(Head(w.todo)),
         \A n \in Nodes : files[n] = "full", Complete(w)
  PROVE  Complete(Stepped(w, Head(w.todo), "full", s))
<1> DEFINE h == Head(w.todo)
           v == Stepped(w, h, "full", s)
           k == Len(s)
           m == Len(w.nar)
<1>1. h \in Nodes
  <2>1. w.todo \in Seq(Nodes)
    BY DEF WalkType
  <2> QED BY <2>1
<1>2. /\ s \in Seq(Nodes)
      /\ tree[h] = "directory" =>
            \A c \in Children(h) : Exists(c) => \E i \in 1..k : s[i] = c
  BY <1>1, EntriesFacts
<1>3. StepShape(w, h, "full", s, v, k, m)
  BY <1>2, SteppedFacts
<1> HIDE DEF h, v, k, m
<1> USE DEF StepShape
<1>4. SUFFICES ASSUME NEW n \in Nodes
               PROVE  Written(v, n) \/ \E j \in DOMAIN v.todo : Covers(v.todo[j], n)
  BY DEF Complete, v, h
<1>5. CASE Written(w, n)
  <2>1. PICK i \in 1..m : w.nar[i] = <<n, "full">>
    BY <1>3, <1>5 DEF Written
  <2>2. i \in DOMAIN v.nar /\ v.nar[i] = <<n, "full">>
    BY <1>3, <2>1
  <2> QED BY <2>2 DEF Written
<1>6. ASSUME NEW j \in DOMAIN w.todo, j # 1, Covers(w.todo[j], n)
      PROVE  \E i \in DOMAIN v.todo : Covers(v.todo[i], n)
  BY <1>3, <1>6
<1>7. CASE Covers(h, n) /\ h = n
  <2>1. m + 1 \in DOMAIN v.nar /\ v.nar[m + 1] = <<n, "full">>
    BY <1>3, <1>7
  <2> QED BY <2>1 DEF Written
<1>8. CASE Covers(h, n) /\ h # n
  <2> DEFINE c == Cut(n, Len(h) + 1)
  <2>1. tree[h] = "directory" /\ c \in Children(h) /\ Covers(c, n)
    BY <1>1, <1>8, NextBelow
  <2> HIDE DEF c
  <2>2. Exists(c)
    BY <2>1 DEF Exists, Children
  <2>3. PICK i \in 1..k : s[i] = c
    BY <1>2, <2>1, <2>2
  <2>4. i \in DOMAIN v.todo /\ Covers(v.todo[i], n)
    BY <1>3, <2>1, <2>3
  <2> QED BY <2>4
<1> QED BY <1>3, <1>5, <1>6, <1>7, <1>8 DEF Complete

-----------------------------------------------------------------------------
(***************************************************************************)
(* When a walk has written the whole NAR.                                  *)
(***************************************************************************)
LEMMA OnceEach ==
  ASSUME TypeOK, NEW nar \in Seq(Pieces), InOrder(nar),
         NEW i \in DOMAIN nar, NEW j \in DOMAIN nar, nar[i][1] = nar[j][1]
  PROVE  i = j
<1>1. i \in Nat /\ j \in Nat /\ nar[i][1] \in Names
  BY TreeFacts DEF Pieces
<1>2. ~(i < j) /\ ~(j < i)
  BY <1>1, BeforeIrreflexive DEF InOrder
<1> QED BY <1>1, <1>2

\* Every node has bytes, and a complete one has more: only the whole NAR has the
\* length of the whole NAR.
LEMMA WholeByLength ==
  ASSUME TypeOK, NEW nar \in Seq(Pieces), InOrder(nar), Bytes(nar) = NarSize
  PROVE  Whole(nar)
<1> DEFINE m    == Len(nar)
           N    == Cardinality(Nodes)
           full == {i \in 1..m : nar[i][2] = "full"}
           at   == [i \in 1..m |-> nar[i][1]]
<1>1. DOMAIN nar = 1..m /\ m \in Nat /\ \A i \in 1..m : nar[i] \in Pieces
  OBVIOUS
<1>2. IsFiniteSet(1..m) /\ Cardinality(1..m) = m
  <2> HIDE DEF m
  <2> QED BY <1>1, FS_Interval
<1>3. full \in SUBSET (1..m) /\ Cardinality(full) <= m /\ Cardinality(full) \in Nat
  <2>1. full \in SUBSET (1..m)
    OBVIOUS
  <2> HIDE DEF full
  <2> QED BY <1>2, <2>1, FS_Subset, FS_CardinalityType
<1>4. at \in Injection(1..m, Nodes)
  <2>1. at \in [1..m -> Nodes]
    BY <1>1 DEF Pieces
  <2>2. \A i, j \in 1..m : at[i] = at[j] => i = j
    BY <1>1, OnceEach
  <2> HIDE DEF at
  <2> QED BY <2>1, <2>2 DEF Injection, IsInjective
<1>5. N \in Nat /\ m <= N
  BY <1>2, <1>4, TreeFacts, FS_Injection, FS_CardinalityType
<1>6. m + Cardinality(full) = 2 * N
  BY <1>1 DEF Bytes, NarSize
<1>7. m = N /\ Cardinality(full) = m
  BY <1>1, <1>3, <1>5, <1>6
<1>8. full = 1..m
  BY <1>2, <1>3, <1>7, FS_Subset
<1>9. at \in Surjection(1..m, Nodes)
  BY <1>2, <1>4, <1>7, TreeFacts, FS_Injection
<1>10. ASSUME NEW i \in 1..m PROVE nar[i] \in Nodes \X {"full"}
  <2>1. nar[i] \in Pieces /\ nar[i][2] = "full"
    BY <1>1, <1>8
  <2> QED BY <2>1 DEF Pieces
<1>11. ASSUME NEW n \in Nodes PROVE \E i \in 1..m : nar[i] = <<n, "full">>
  <2>1. PICK i \in 1..m : at[i] = n
    BY <1>9 DEF Surjection
  <2>2. nar[i] = <<n, "full">>
    BY <1>10, <2>1
  <2> QED BY <2>2
<1>12. {nar[i] : i \in DOMAIN nar} = Nodes \X {"full"}
  <2>1. ASSUME NEW p \in Nodes \X {"full"} PROVE p \in {nar[i] : i \in DOMAIN nar}
    <3>1. p[1] \in Nodes /\ p = <<p[1], "full">>
      OBVIOUS
    <3> QED BY <1>1, <1>11, <3>1
  <2>2. ASSUME NEW p \in {nar[i] : i \in DOMAIN nar} PROVE p \in Nodes \X {"full"}
    BY <1>1, <1>10
  <2> QED BY <2>1, <2>2
<1> QED BY <1>12 DEF Whole, InOrder

\* Nothing is left to write, and nothing was missed.
LEMMA WholeByCover ==
  ASSUME TypeOK, NEW w \in WalkType, InOrder(w.nar), Complete(w), w.todo = <<>>
  PROVE  Whole(w.nar)
<1> DEFINE nar == w.nar
<1>1. nar \in Seq(Pieces) /\ DOMAIN nar = 1..Len(nar) /\ \A i \in DOMAIN nar : nar[i] \in Pieces
  BY DEF WalkType
<1>2. InOrder(nar)
  OBVIOUS
<1>3. ASSUME NEW n \in Nodes PROVE \E i \in DOMAIN nar : nar[i] = <<n, "full">>
  <2>1. DOMAIN w.todo = {}
    OBVIOUS
  <2> QED BY <2>1 DEF Complete, Written
<1>4. ASSUME NEW i \in DOMAIN nar PROVE nar[i] \in Nodes \X {"full"}
  <2>1. nar[i][1] \in Nodes /\ nar[i] = <<nar[i][1], nar[i][2]>>
    BY <1>1 DEF Pieces
  <2>2. PICK j \in DOMAIN nar : nar[j] = <<nar[i][1], "full">>
    BY <1>3, <2>1
  <2>3. nar[i][1] = nar[j][1]
    BY <2>2
  <2>4. i = j
    BY <1>1, <1>2, <2>3, OnceEach
  <2> HIDE DEF nar
  <2> QED BY <2>1, <2>2, <2>4
<1>5. {nar[i] : i \in DOMAIN nar} = Nodes \X {"full"}
  <2>1. ASSUME NEW p \in Nodes \X {"full"} PROVE p \in {nar[i] : i \in DOMAIN nar}
    <3>1. p[1] \in Nodes /\ p = <<p[1], "full">>
      OBVIOUS
    <3> QED BY <1>3, <3>1
  <2>2. ASSUME NEW p \in {nar[i] : i \in DOMAIN nar} PROVE p \in Nodes \X {"full"}
    BY <1>4
  <2> QED BY <2>1, <2>2
<1> QED BY <1>2, <1>5 DEF Whole, InOrder, nar

-----------------------------------------------------------------------------
(***************************************************************************)
(* What a step leaves alone.                                               *)
(***************************************************************************)
LEMMA SameTree ==
  ASSUME UNCHANGED tree
  PROVE  /\ Nodes' = Nodes /\ Pieces' = Pieces /\ WalkType' = WalkType
         /\ EntryType' = EntryType /\ RespType' = RespType
         /\ \A x : /\ Whole(x)' <=> Whole(x)
                   /\ Sound(x)' <=> Sound(x)
                   /\ Complete(x)' <=> Complete(x)
<1>1. Nodes' = Nodes
  BY DEF Nodes
<1>2. Pieces' = Pieces
  BY <1>1 DEF Pieces
<1>3. WalkType' = WalkType /\ EntryType' = EntryType /\ RespType' = RespType
  BY <1>1, <1>2 DEF WalkType, EntryType, RespType
<1>4. \A x : Whole(x)' <=> Whole(x)
  BY <1>1 DEF Whole
<1>5. \A x : Sound(x)' <=> Sound(x)
  BY <1>4 DEF Sound
<1>6. \A x : Complete(x)' <=> Complete(x)
  BY <1>1 DEF Complete
<1> QED BY <1>1, <1>2, <1>3, <1>4, <1>5, <1>6

LEMMA SameKnown ==
  ASSUME UNCHANGED nixVars
  PROVE  \A i : Known(i)' <=> Known(i)
BY DEF Known, nixVars

\* Request r is as it was.
LEMMA ReqSame ==
  ASSUME NEW r \in Reqs, ReqOK(r), UNCHANGED tree, \A i : Known(i) => Known(i)',
         req'[r] = req[r], resp'[r] = resp[r],
         req[r].step = "write" => walk'[r] = walk[r],
         req[r].step = "copy" => lease'[r] = lease[r]
  PROVE  ReqOK(r)'
<1>1. /\ \A x : (Whole(x)' <=> Whole(x)) /\ (Sound(x)' <=> Sound(x))
      /\ EntryType' = EntryType
  BY SameTree
<1>2. Fresh(r)'
  BY DEF ReqOK, Fresh
<1>3. Asked(r)'
  BY DEF ReqOK, Asked, WantsZstd
<1>4. Writing(r)' /\ Copying(r)'
  BY <1>1 DEF ReqOK, Writing, Copying
<1>5. Clean(r)'
  BY <1>1 DEF ReqOK, Clean
<1> QED BY <1>2, <1>3, <1>4, <1>5 DEF ReqOK

\* Request r is over, and what it left with its client is clean.
LEMMA ReqOver ==
  ASSUME NEW r \in Reqs, req'[r] = Idle, Clean(r)'
  PROVE  ReqOK(r)'
BY DEF ReqOK, Fresh, Asked, Writing, Copying, Idle

LEMMA SameClean ==
  ASSUME NEW r \in Reqs, ReqOK(r), UNCHANGED tree, resp'[r] = resp[r]
  PROVE  Clean(r)'
<1>1. \A x : Whole(x)' <=> Whole(x)
  BY SameTree
<1> QED BY <1>1 DEF ReqOK, Clean

\* A step of the server: it does not touch what Nix has.
LEMMA SameStore ==
  ASSUME Rows, UNCHANGED nixVars
  PROVE  Rows' /\ UNCHANGED tree /\ \A i : Known(i) <=> Known(i)'
<1>1. UNCHANGED <<tree, id, files, nix, adds>>
  BY DEF nixVars
<1>2. Rows'
  BY <1>1 DEF Rows, Nodes
<1> QED BY <1>1, <1>2, SameKnown

LEMMA SameBuild ==
  ASSUME BuildOK, UNCHANGED nixVars, flight' = flight, walk'[Builder] = walk[Builder]
  PROVE  BuildOK'
<1>1. UNCHANGED <<tree, id>>
  BY DEF nixVars
<1>2. /\ \A i : Known(i)' <=> Known(i)
      /\ \A x : Complete(x)' <=> Complete(x)
  BY <1>1, SameKnown, SameTree
<1> QED BY <1>1, <1>2 DEF BuildOK

LEMMA SameCache ==
  ASSUME CacheOK, UNCHANGED tree, cached' = cached
  PROVE  CacheOK'
<1>1. \A x : Sound(x)' <=> Sound(x)
  BY SameTree
<1> QED BY <1>1 DEF CacheOK

\* A step of request r alone.
LEMMA ReqFrame ==
  ASSUME Inv, NEW r \in Reqs, UNCHANGED nixVars, UNCHANGED <<mode, cached, restarts>>,
         flight' \in Ids \cup {None}, BuildOK',
         lease' \in [Reqs -> EntryType \cup {None}], walk' \in [Walkers -> WalkType],
         req' \in [Reqs -> ReqType], info' \in [Reqs -> InfoType \cup {None}],
         resp' \in [Reqs -> RespType \cup {None}], faults' \in 0..MaxFaults,
         \A q \in Reqs \ {r} : /\ req'[q] = req[q] /\ resp'[q] = resp[q]
                               /\ walk'[q] = walk[q] /\ lease'[q] = lease[q],
         ReqOK(r)'
  PROVE  Inv'
<1>1. Rows' /\ UNCHANGED tree /\ \A i : Known(i) <=> Known(i)'
  BY SameStore DEF Inv
<1>2. TypeOK'
  <2>1. /\ Nodes' = Nodes /\ Pieces' = Pieces /\ WalkType' = WalkType
        /\ EntryType' = EntryType /\ RespType' = RespType
    BY <1>1, SameTree
  <2> QED BY <2>1 DEF Inv, TypeOK, nixVars
<1>3. CacheOK'
  BY <1>1, SameCache DEF Inv
<1>4. ASSUME NEW q \in Reqs PROVE ReqOK(q)'
  <2>1. CASE q = r
    BY <2>1
  <2>2. CASE q # r
    <3>1. ReqOK(q) /\ q \in Reqs \ {r}
      BY <2>2 DEF Inv
    <3> QED BY <1>1, <3>1, ReqSame
  <2> QED BY <2>1, <2>2
<1> QED BY <1>1, <1>2, <1>3, <1>4 DEF Inv

-----------------------------------------------------------------------------
(***************************************************************************)
(* The steps of a request.                                                 *)
(***************************************************************************)
LEMMA Types ==
  ASSUME TypeOK
  PROVE  /\ req \in [Reqs -> ReqType] /\ info \in [Reqs -> InfoType \cup {None}]
         /\ resp \in [Reqs -> RespType \cup {None}]
         /\ lease \in [Reqs -> EntryType \cup {None}] /\ walk \in [Walkers -> WalkType]
         /\ flight \in Ids \cup {None} /\ cached \in EntryType \cup {None}
         /\ faults \in 0..MaxFaults /\ mode \in Modes /\ id \in Ids
         /\ Idle \in ReqType /\ Idle.step = "idle" /\ NoWalk \in WalkType
         /\ MaxFaults \in Nat /\ MaxAdds \in Nat /\ Builder \notin Reqs
         /\ Reqs \subseteq Walkers /\ Builder \in Walkers
BY ReadAssumption DEF TypeOK, Idle, ReqType, Steps, Kinds, Modes, Ids, NoWalk, WalkType, Walkers

\* The walk from the root of the path.
LEMMA Started ==
  ASSUME TypeOK, NEW w, w = [todo |-> << <<>> >>, nar |-> <<>>]
  PROVE  w \in WalkType /\ Ordered(w) /\ Complete(w)
<1>1. <<>> \in Nodes /\ Nodes \subseteq Names
  BY TreeFacts
<1>2. w.todo = << <<>> >> /\ w.nar = <<>> /\ w \in WalkType
  BY <1>1 DEF WalkType
<1>3. Ordered(w)
  BY <1>2 DEF Ordered, InOrder
<1>4. \A n \in Nodes : Covers(<<>>, n)
  BY <1>1, CoversEq DEF Names
<1>5. Complete(w)
  BY <1>2, <1>4 DEF Complete
<1> QED BY <1>2, <1>3, <1>5

LEMMA GoToFacts ==
  ASSUME TypeOK, NEW r \in Reqs, NEW step \in Steps, GoTo(r, step)
  PROVE  /\ req' \in [Reqs -> ReqType] /\ \A q \in Reqs \ {r} : req'[q] = req[q]
         /\ req'[r].step = step /\ req'[r].kind = req[r].kind /\ req'[r].url = req[r].url
         /\ req'[r].id = req[r].id /\ req'[r].refs = req[r].refs
<1>1. req \in [Reqs -> ReqType] /\ req' = [req EXCEPT ![r].step = step]
  BY Types DEF GoTo
<1>2. req' \in [Reqs -> ReqType] /\ \A q \in Reqs \ {r} : req'[q] = req[q]
  BY <1>1 DEF ReqType
<1>3. /\ req'[r].step = step /\ req'[r].kind = req[r].kind /\ req'[r].url = req[r].url
      /\ req'[r].id = req[r].id /\ req'[r].refs = req[r].refs
  BY <1>1 DEF ReqType
<1> QED BY <1>2, <1>3

\* A request that ends without a NAR.
LEMMA EndInv ==
  ASSUME Inv, NEW r \in Reqs, UNCHANGED nixVars, UNCHANGED <<mode, cached, restarts, resp>>,
         flight' = flight, lease' \in [Reqs -> EntryType \cup {None}],
         walk' \in [Walkers -> WalkType], walk'[Builder] = walk[Builder],
         info' \in [Reqs -> InfoType \cup {None}], faults' \in 0..MaxFaults,
         \A q \in Reqs \ {r} : walk'[q] = walk[q] /\ lease'[q] = lease[q],
         req' = [req EXCEPT ![r] = Idle]
  PROVE  Inv'
<1>1. TypeOK /\ ReqOK(r) /\ BuildOK /\ UNCHANGED tree
  BY DEF Inv, nixVars
<1>2. /\ req' \in [Reqs -> ReqType] /\ req'[r] = Idle
      /\ \A q \in Reqs \ {r} : req'[q] = req[q]
  BY <1>1, Types
<1>3. ReqOK(r)'
  BY <1>1, <1>2, SameClean, ReqOver
<1>4. BuildOK'
  BY <1>1, SameBuild
<1> QED BY <1>1, <1>2, <1>3, <1>4, Types, ReqFrame

LEMMA AskInv ==
  ASSUME Inv, NEW r \in Reqs, NEW kind \in Kinds, NEW url \in Modes, Ask(r, kind, url)
  PROVE  Inv'
<1> DEFINE new == [step |-> "row", kind |-> kind, url |-> url, id |-> 0, refs |-> {}]
<1>1. TypeOK /\ ReqOK(r) /\ BuildOK /\ UNCHANGED tree
  BY DEF Inv, Ask, nixVars
<1>2. /\ req' = [req EXCEPT ![r] = new] /\ resp' = [resp EXCEPT ![r] = None]
      /\ UNCHANGED nixVars /\ UNCHANGED srvVars /\ UNCHANGED <<info, restarts, faults>>
  BY DEF Ask
<1>3. new \in ReqType /\ new.step = "row"
  BY <1>1, Types DEF ReqType, Steps, Ids
<1> HIDE DEF new
<1>4. /\ req' \in [Reqs -> ReqType] /\ req'[r].step = "row"
      /\ \A q \in Reqs \ {r} : req'[q] = req[q]
  BY <1>1, <1>2, <1>3, Types
<1>5. /\ resp' \in [Reqs -> RespType \cup {None}] /\ resp'[r] = None
      /\ \A q \in Reqs \ {r} : resp'[q] = resp[q]
  BY <1>1, <1>2, Types
<1>6. ReqOK(r)'
  BY <1>4, <1>5 DEF ReqOK, Fresh, Asked, Writing, Copying, Clean
<1>7. UNCHANGED <<mode, cached, flight, lease, walk>>
  BY <1>2 DEF srvVars
<1>8. BuildOK'
  BY <1>1, <1>2, <1>7, SameBuild
<1> QED BY <1>1, <1>2, <1>4, <1>5, <1>6, <1>7, <1>8, Types, ReqFrame

LEMMA AsksInv ==
  ASSUME Inv, NEW r \in Reqs, GetNarInfo(r) \/ HeadRequest(r) \/ GetNar(r)
  PROVE  Inv'
<1>1. {"info", "head", "nar"} \subseteq Kinds /\ "none" \in Modes
  BY DEF Kinds, Modes
<1>2. CASE GetNarInfo(r)
  BY <1>1, <1>2, AskInv DEF GetNarInfo
<1>3. CASE HeadRequest(r)
  BY <1>1, <1>3, AskInv DEF HeadRequest
<1>4. CASE GetNar(r)
  <2>1. info[r].compression \in Modes
    BY <1>4, Types DEF GetNar, Inv, InfoType
  <2> QED BY <1>1, <1>4, <2>1, AskInv DEF GetNar
<1> QED BY <1>2, <1>3, <1>4

LEMMA QueryRowInv ==
  ASSUME Inv, NEW r \in Reqs, QueryRow(r)
  PROVE  Inv'
<1>1. TypeOK /\ ReqOK(r) /\ BuildOK /\ Rows
  BY DEF Inv
<1>2. /\ UNCHANGED nixVars /\ UNCHANGED <<mode, cached, flight, lease, walk>>
      /\ UNCHANGED <<restarts, info, resp, faults>>
  BY DEF QueryRow, Busy, End, srvVars
<1>3. CASE req' = [req EXCEPT ![r] = Idle]
  BY <1>1, <1>2, <1>3, Types, EndInv
<1>4. CASE id # 0 /\ req' = [req EXCEPT ![r].step = "refs", ![r].id = id]
  <2> DEFINE going == [req EXCEPT ![r].step = "refs"]
  <2>1. going \in [Reqs -> ReqType] /\ \A q \in Reqs \ {r} : going[q] = req[q]
    BY <1>1, Types DEF ReqType, Steps
  <2>2. going[r].step = "refs"
    BY <1>1, Types DEF ReqType
  <2>3. req' = [going EXCEPT ![r].id = id]
    BY <1>4
  <2> HIDE DEF going
  <2>4. req' \in [Reqs -> ReqType] /\ \A q \in Reqs \ {r} : req'[q] = going[q]
    BY <1>1, <2>1, <2>3, Types DEF ReqType
  <2>5. req'[r].step = "refs" /\ req'[r].id = id
    BY <2>1, <2>2, <2>3 DEF ReqType
  <2>6. Known(id) /\ Known(id)' /\ UNCHANGED tree
    <3>1. Known(id)
      BY <1>1, <1>4 DEF Rows, Known, TypeOK
    <3> QED BY <1>2, <3>1 DEF Known, nixVars
  <2>7. ReqOK(r)'
    <3>1. Fresh(r)'
      BY <1>2, <2>5, <2>6 DEF Fresh, nixVars, Known
    <3>2. Clean(r)'
      BY <1>1, <1>2, <2>6, SameClean
    <3> QED BY <2>5, <3>1, <3>2 DEF ReqOK, Asked, Writing, Copying
  <2>8. BuildOK'
    BY <1>1, <1>2, SameBuild
  <2> QED BY <1>1, <1>2, <2>1, <2>4, <2>7, <2>8, Types, ReqFrame
<1> QED BY <1>3, <1>4 DEF QueryRow, End

LEMMA QueryFailsInv ==
  ASSUME Inv, NEW r \in Reqs, QueryFails(r)
  PROVE  Inv'
<1>1. TypeOK
  BY DEF Inv
<1>2. /\ UNCHANGED nixVars /\ UNCHANGED <<mode, cached, flight, lease, walk>>
      /\ UNCHANGED <<restarts, info, resp>> /\ req' = [req EXCEPT ![r] = Idle]
      /\ faults < MaxFaults /\ faults' = faults + 1
  BY DEF QueryFails, Busy, End, srvVars
<1>3. faults' \in 0..MaxFaults
  BY <1>1, <1>2, Types
<1> QED BY <1>1, <1>2, <1>3, Types, EndInv

LEMMA QueryRefsInv ==
  ASSUME Inv, NEW r \in Reqs, QueryRefs(r)
  PROVE  Inv'
<1> DEFINE refs == RefRows(req[r].id)
<1>1. TypeOK /\ ReqOK(r) /\ BuildOK
  BY DEF Inv
<1>2. /\ req[r].step = "refs" /\ UNCHANGED nixVars /\ UNCHANGED <<restarts, faults>>
      /\ UNCHANGED <<mode, cached, flight, lease>>
  BY DEF QueryRefs, Busy, srvVars
<1>3. refs \in SUBSET Refs /\ UNCHANGED tree /\ Known(req[r].id)
  BY <1>1, <1>2 DEF RefRows, nixVars, ReqOK, Fresh
<1> HIDE DEF refs
<1>4. CASE req[r].kind = "head" /\ End(r) /\ UNCHANGED srvVars
  BY <1>1, <1>2, <1>4, Types, EndInv DEF End, srvVars
<1>5. CASE GiveNarInfo(r, refs, "none") /\ UNCHANGED srvVars
  <2>1. [refs |-> refs, compression |-> "none"] \in InfoType
    BY <1>3 DEF InfoType, Modes
  <2>2. info' \in [Reqs -> InfoType \cup {None}]
    BY <1>1, <1>5, <2>1, Types DEF GiveNarInfo
  <2> QED BY <1>1, <1>2, <1>5, <2>2, Types, EndInv DEF GiveNarInfo, srvVars
<1>6. CASE /\ req[r].kind = "info" \/ WantsZstd(r)
           /\ req' = [req EXCEPT ![r].step = "lease", ![r].refs = refs]
           /\ UNCHANGED <<info, resp, srvVars>>
  <2> DEFINE going == [req EXCEPT ![r].step = "lease"]
  <2>1. going \in [Reqs -> ReqType] /\ \A q \in Reqs \ {r} : going[q] = req[q]
    BY <1>1, Types DEF ReqType, Steps
  <2>2. /\ going[r].step = "lease" /\ going[r].kind = req[r].kind
        /\ going[r].url = req[r].url /\ going[r].id = req[r].id
    BY <1>1, Types DEF ReqType
  <2>3. req' = [going EXCEPT ![r].refs = refs]
    BY <1>6
  <2> HIDE DEF going
  <2>4. req' \in [Reqs -> ReqType] /\ \A q \in Reqs \ {r} : req'[q] = going[q]
    BY <1>3, <2>1, <2>3 DEF ReqType
  <2>5. /\ req'[r].step = "lease" /\ req'[r].kind = req[r].kind
        /\ req'[r].url = req[r].url /\ req'[r].id = req[r].id
    BY <2>1, <2>2, <2>3 DEF ReqType
  <2>6. ReqOK(r)'
    <3>1. Fresh(r)'
      BY <1>2, <1>3, <2>5 DEF Fresh, nixVars, Known
    <3>2. Clean(r)'
      BY <1>1, <1>3, <1>6, SameClean
    <3>3. Asked(r)'
      BY <1>6, <2>5 DEF Asked, WantsZstd
    <3> QED BY <2>5, <3>1, <3>2, <3>3 DEF ReqOK, Writing, Copying
  <2>7. UNCHANGED <<info, resp, walk>>
    BY <1>6 DEF srvVars
  <2>8. BuildOK'
    BY <1>1, <1>2, <2>7, SameBuild
  <2> QED BY <1>1, <1>2, <2>1, <2>4, <2>6, <2>7, <2>8, Types, ReqFrame
<1>7. CASE /\ req[r].kind = "nar" /\ ~WantsZstd(r) /\ GoTo(r, "write")
           /\ walk' = Start(r) /\ UNCHANGED <<info, resp>>
  <2> DEFINE new == [todo |-> << <<>> >>, nar |-> <<>>]
  <2>1. new \in WalkType /\ Ordered(new)
    BY <1>1, Started
  <2>2. /\ walk' = [walk EXCEPT ![r] = new] /\ walk' \in [Walkers -> WalkType]
        /\ walk'[r] = new /\ \A w \in Walkers \ {r} : walk'[w] = walk[w]
    BY <1>1, <1>7, <2>1, Types DEF Start
  <2> HIDE DEF new
  <2>3. /\ req' \in [Reqs -> ReqType] /\ \A q \in Reqs \ {r} : req'[q] = req[q]
        /\ req'[r].step = "write" /\ req'[r].kind = req[r].kind
        /\ req'[r].url = req[r].url
    BY <1>1, <1>7, GoToFacts DEF Steps
  <2>4. req[r].url = "none"
    BY <1>1, <1>7, Types DEF WantsZstd, ReqType, Modes
  <2>5. ReqOK(r)'
    <3>1. Clean(r)'
      BY <1>1, <1>3, <1>7, SameClean
    <3> QED BY <1>7, <2>1, <2>2, <2>3, <2>4, <3>1 DEF ReqOK, Fresh, Asked, Writing, Copying
  <2>6. BuildOK'
    BY <1>1, <1>2, <2>2, Types, SameBuild
  <2>7. \A q \in Reqs \ {r} : walk'[q] = walk[q]
    BY <1>1, <2>2, Types
  <2> QED BY <1>1, <1>2, <1>7, <2>2, <2>3, <2>5, <2>6, <2>7, Types, ReqFrame
<1> QED BY <1>4, <1>5, <1>6, <1>7 DEF QueryRefs, refs

\* A step of the walk of w.
LEMMA WriteNodeFacts ==
  ASSUME Inv, NEW w \in Walkers, WriteNode(w)
  PROVE  /\ walk' \in [Walkers -> WalkType] /\ \A v \in Walkers \ {w} : walk'[v] = walk[v]
         /\ Ordered(walk[w]) => Ordered(walk'[w])
         /\ Complete(walk[w]) /\ id # 0 => Complete(walk'[w])
<1> DEFINE n == Head(walk[w].todo)
<1>1. TypeOK /\ Rows /\ walk \in [Walkers -> WalkType] /\ walk[w] \in WalkType
  BY Types DEF Inv
<1>2. walk[w].todo # <<>> /\ Writable(n)
  BY DEF WriteNode
<1>3. PICK s \in Entries(n) : walk' = [walk EXCEPT ![w] = Stepped(walk[w], n, files[n], s)]
  BY DEF WriteNode, Stepped
<1>4. n \in Nodes
  <2>1. walk[w].todo \in Seq(Nodes)
    BY <1>1 DEF WalkType
  <2> QED BY <1>2, <2>1
<1>5. files[n] \in {"part", "full"}
  BY <1>1, <1>2, <1>4 DEF TypeOK, Writable, Exists
<1>6. s \in Seq(Nodes)
  BY <1>1, <1>4, EntriesFacts
<1> DEFINE v == Stepped(walk[w], n, files[n], s)
<1>7. v \in WalkType
  BY <1>1, <1>2, <1>5, <1>6, SteppedFacts DEF StepShape
<1>8. Ordered(walk[w]) => Ordered(v)
  BY <1>1, <1>2, <1>5, StepOrdered
<1>9. Complete(walk[w]) /\ id # 0 => Complete(v)
  <2> SUFFICES ASSUME Complete(walk[w]), id # 0 PROVE Complete(v)
    OBVIOUS
  <2>1. \A m \in Nodes : files[m] = "full"
    BY <1>1 DEF Rows
  <2>2. Complete(Stepped(walk[w], n, "full", s))
    BY <1>1, <1>2, <2>1, StepComplete
  <2> QED BY <1>4, <2>1, <2>2
<1> HIDE DEF n, v
<1>10. walk' = [walk EXCEPT ![w] = v]
  BY <1>3 DEF v
<1>11. walk'[w] = v /\ \A u \in Walkers \ {w} : walk'[u] = walk[u]
  BY <1>1, <1>10
<1>12. walk' \in [Walkers -> WalkType]
  BY <1>1, <1>7, <1>10
<1> QED BY <1>8, <1>9, <1>11, <1>12

LEMMA WriteNarInv ==
  ASSUME Inv, NEW r \in Reqs, WriteNar(r)
  PROVE  Inv'
<1>1. TypeOK /\ ReqOK(r) /\ BuildOK /\ r \in Walkers /\ r # Builder
  BY Types DEF Inv
<1>2. /\ req[r].step = "write" /\ WriteNode(r)
      /\ UNCHANGED nixVars /\ UNCHANGED <<restarts, faults>>
      /\ UNCHANGED <<mode, cached, flight, lease, req, info, resp>>
  BY DEF WriteNar, Busy, cliVars
<1>3. /\ walk' \in [Walkers -> WalkType] /\ \A v \in Walkers \ {r} : walk'[v] = walk[v]
      /\ Ordered(walk'[r])
  BY <1>1, <1>2, WriteNodeFacts DEF ReqOK, Writing
<1>4. ReqOK(r)'
  <2>1. Clean(r)' /\ Fresh(r)' /\ Asked(r)'
    BY <1>1, <1>2, SameClean DEF nixVars, ReqOK, Fresh, Asked, WantsZstd, Known
  <2> QED BY <1>2, <1>3, <2>1 DEF ReqOK, Writing, Copying
<1>5. BuildOK' /\ \A q \in Reqs \ {r} : walk'[q] = walk[q]
  BY <1>1, <1>2, <1>3, Types, SameBuild
<1> QED BY <1>1, <1>2, <1>3, <1>4, <1>5, Types, ReqFrame

\* The walk of r ends.
LEMMA StopFacts ==
  ASSUME TypeOK, NEW w \in Walkers, walk' = Stop(w)
  PROVE  walk' \in [Walkers -> WalkType] /\ \A v \in Walkers \ {w} : walk'[v] = walk[v]
<1>1. walk \in [Walkers -> WalkType] /\ NoWalk \in WalkType /\ walk' = [walk EXCEPT ![w] = NoWalk]
  BY Types DEF Stop
<1> HIDE DEF NoWalk
<1> QED BY <1>1

LEMMA AbortNarInv ==
  ASSUME Inv, NEW r \in Reqs, AbortNar(r)
  PROVE  Inv'
<1>1. TypeOK /\ r \in Walkers /\ r # Builder
  BY Types DEF Inv
<1>2. /\ UNCHANGED nixVars /\ UNCHANGED <<mode, cached, flight, lease, restarts, info, resp>>
      /\ req' = [req EXCEPT ![r] = Idle] /\ walk' = Stop(r)
  BY DEF AbortNar, Busy, End
<1>3. faults' \in 0..MaxFaults
  BY <1>1, Types DEF AbortNar
<1>4. /\ walk' \in [Walkers -> WalkType] /\ walk'[Builder] = walk[Builder]
      /\ \A q \in Reqs \ {r} : walk'[q] = walk[q]
  BY <1>1, <1>2, Types, StopFacts
<1> QED BY <1>1, <1>2, <1>3, <1>4, Types, EndInv

LEMMA WriteDeadlineInv ==
  ASSUME Inv, NEW r \in Reqs, WriteDeadline(r)
  PROVE  Inv'
<1>1. TypeOK /\ r \in Walkers /\ r # Builder
  BY Types DEF Inv
<1>2. /\ UNCHANGED nixVars /\ UNCHANGED <<mode, cached, flight, restarts, faults, info, resp>>
      /\ req' = [req EXCEPT ![r] = Idle] /\ walk' = Stop(r)
      /\ lease' = [lease EXCEPT ![r] = None]
  BY DEF WriteDeadline, Busy, End
<1>3. /\ walk' \in [Walkers -> WalkType] /\ walk'[Builder] = walk[Builder]
      /\ \A q \in Reqs \ {r} : walk'[q] = walk[q]
  BY <1>1, <1>2, Types, StopFacts
<1>4. /\ lease' \in [Reqs -> EntryType \cup {None}]
      /\ \A q \in Reqs \ {r} : lease'[q] = lease[q]
  BY <1>1, <1>2, Types
<1> QED BY <1>1, <1>2, <1>3, <1>4, Types, EndInv

LEMMA StallInv ==
  ASSUME Inv, NEW r \in Reqs, Stall(r)
  PROVE  Inv'
<1>1. TypeOK /\ ReqOK(r) /\ BuildOK
  BY DEF Inv
<1>2. /\ UNCHANGED nixVars /\ UNCHANGED <<mode, cached, flight, lease, walk>>
      /\ UNCHANGED <<restarts, info, resp>> /\ GoTo(r, Stalled)
      /\ faults < MaxFaults /\ faults' = faults + 1
  BY DEF Stall, Busy, srvVars
<1>3. faults' \in 0..MaxFaults
  BY <1>1, <1>2, Types
<1>4. /\ req' \in [Reqs -> ReqType] /\ \A q \in Reqs \ {r} : req'[q] = req[q]
      /\ req'[r].step = Stalled
  BY <1>1, <1>2, GoToFacts DEF Steps
<1>5. ReqOK(r)'
  <2>1. Clean(r)'
    BY <1>1, <1>2, SameClean DEF nixVars
  <2> QED BY <1>4, <2>1 DEF ReqOK, Fresh, Asked, Writing, Copying, Stalled
<1>6. BuildOK'
  BY <1>1, <1>2, SameBuild
<1> QED BY <1>1, <1>2, <1>3, <1>4, <1>5, <1>6, Types, ReqFrame

\* A response that ends well leaves its client with it.
LEMMA GivenFacts ==
  ASSUME TypeOK, NEW r \in Reqs, NEW given \in RespType,
         resp' = [resp EXCEPT ![r] = given], req' = [req EXCEPT ![r] = Idle]
  PROVE  /\ resp' \in [Reqs -> RespType \cup {None}] /\ resp'[r] = given
         /\ req' \in [Reqs -> ReqType] /\ req'[r] = Idle
         /\ \A q \in Reqs \ {r} : resp'[q] = resp[q] /\ req'[q] = req[q]
<1>1. /\ resp \in [Reqs -> RespType \cup {None}] /\ req \in [Reqs -> ReqType]
      /\ Idle \in ReqType
  BY Types
<1> HIDE DEF Idle
<1> QED BY <1>1

LEMMA NarWrittenInv ==
  ASSUME Inv, NEW r \in Reqs, NarWritten(r)
  PROVE  Inv'
<1> DEFINE nar   == walk[r].nar
           given == [encoding |-> "none", url |-> req[r].url, nar |-> nar, raced |-> FALSE]
<1>1. TypeOK /\ ReqOK(r) /\ BuildOK /\ r \in Walkers /\ r # Builder
  BY Types DEF Inv
<1>2. /\ req[r].step = "write" /\ walk' = Stop(r)
      /\ UNCHANGED nixVars /\ UNCHANGED <<mode, cached, flight, lease, restarts, info, faults>>
  BY DEF NarWritten, Busy, End
<1>3. /\ walk' \in [Walkers -> WalkType] /\ walk'[Builder] = walk[Builder]
      /\ \A q \in Reqs \ {r} : walk'[q] = walk[q]
  BY <1>1, <1>2, Types, StopFacts
<1>4. CASE End(r)
  BY <1>1, <1>2, <1>3, <1>4, Types, EndInv DEF End
<1>5. CASE /\ Bytes(nar) = NarSize /\ resp' = [resp EXCEPT ![r] = given]
           /\ req' = [req EXCEPT ![r] = Idle]
  <2>1. nar \in Seq(Pieces) /\ InOrder(nar)
    BY <1>1, <1>2, Types DEF WalkType, ReqOK, Writing, Ordered
  <2>2. Whole(nar)
    BY <1>1, <1>5, <2>1, WholeByLength
  <2>3. req[r].url = "none"
    BY <1>1, <1>2 DEF ReqOK, Asked
  <2> HIDE DEF nar
  <2>4. /\ given \in RespType /\ given.nar = nar /\ given.encoding = "none"
        /\ given.url = "none"
    BY <2>1, <2>3 DEF RespType, Modes
  <2> HIDE DEF given
  <2>5. /\ resp' \in [Reqs -> RespType \cup {None}] /\ resp'[r] = given
        /\ req' \in [Reqs -> ReqType] /\ req'[r] = Idle
        /\ \A q \in Reqs \ {r} : resp'[q] = resp[q] /\ req'[q] = req[q]
    BY <1>1, <1>5, <2>4, GivenFacts
  <2>6. Clean(r)'
    <3>1. \A x : Whole(x)' <=> Whole(x)
      BY <1>2, SameTree DEF nixVars
    <3> QED BY <2>2, <2>4, <2>5, <3>1 DEF Clean
  <2>7. ReqOK(r)'
    BY <2>5, <2>6, ReqOver
  <2>8. BuildOK'
    BY <1>1, <1>2, <1>3, SameBuild
  <2> QED BY <1>1, <1>2, <1>3, <2>5, <2>7, <2>8, Types, ReqFrame
<1> QED BY <1>4, <1>5 DEF NarWritten

LEMMA CopyDoneInv ==
  ASSUME Inv, NEW r \in Reqs, CopyDone(r)
  PROVE  Inv'
<1> DEFINE copied == lease[r]
           given  == [encoding |-> "zstd", url |-> req[r].url,
                      nar |-> copied.nar, raced |-> copied.raced]
<1>1. TypeOK /\ ReqOK(r) /\ BuildOK
  BY DEF Inv
<1>2. /\ req[r].step = "copy" /\ UNCHANGED nixVars
      /\ UNCHANGED <<mode, cached, flight, walk, restarts, info, faults>>
      /\ resp' = [resp EXCEPT ![r] = given] /\ req' = [req EXCEPT ![r] = Idle]
      /\ lease' = [lease EXCEPT ![r] = None]
  BY DEF CopyDone, Busy
<1>3. copied \in EntryType /\ Sound(copied) /\ req[r].url = "zstd"
  BY <1>1, <1>2, Types DEF ReqOK, Copying, Asked, WantsZstd
<1> HIDE DEF copied
<1>4. /\ given \in RespType /\ given.nar = copied.nar /\ given.raced = copied.raced
      /\ given.encoding = "zstd" /\ given.url = "zstd"
  BY <1>3 DEF RespType, EntryType, Modes
<1> HIDE DEF given
<1>5. /\ resp' \in [Reqs -> RespType \cup {None}] /\ resp'[r] = given
      /\ req' \in [Reqs -> ReqType] /\ req'[r] = Idle
      /\ \A q \in Reqs \ {r} : resp'[q] = resp[q] /\ req'[q] = req[q]
  BY <1>1, <1>2, <1>4, GivenFacts
<1>6. Clean(r)'
  <2>1. \A x : Whole(x)' <=> Whole(x)
    BY <1>2, SameTree DEF nixVars
  <2> QED BY <1>3, <1>4, <1>5, <2>1 DEF Clean, Sound
<1>7. ReqOK(r)'
  BY <1>5, <1>6, ReqOver
<1>8. BuildOK'
  BY <1>1, <1>2, SameBuild
<1>9. /\ lease' \in [Reqs -> EntryType \cup {None}]
      /\ \A q \in Reqs \ {r} : lease'[q] = lease[q]
  BY <1>1, <1>2, Types
<1> QED BY <1>1, <1>2, <1>5, <1>7, <1>8, <1>9, Types, ReqFrame

-----------------------------------------------------------------------------
(***************************************************************************)
(* What requests do with a compressed NAR, or without one.                 *)
(***************************************************************************)
LEMMA UseFacts ==
  ASSUME TypeOK, NEW r \in Reqs
  PROVE  /\ Use(r).info \in InfoType \cup {None} /\ Use(r).next \in ReqType
         /\ \/ Use(r).next = Idle
            \/ /\ Use(r).next.step = "copy" /\ Use(r).next.kind = req[r].kind
               /\ Use(r).next.url = req[r].url /\ req[r].kind # "info"
<1>1. req[r] \in ReqType /\ info[r] \in InfoType \cup {None} /\ Idle \in ReqType
  BY Types
<1>2. CASE req[r].kind = "info"
  <2>1. Use(r) = [next |-> Idle, info |-> [refs |-> req[r].refs, compression |-> "zstd"]]
    BY <1>2 DEF Use
  <2>2. [refs |-> req[r].refs, compression |-> "zstd"] \in InfoType
    BY <1>1 DEF InfoType, ReqType, Modes
  <2> QED BY <1>1, <2>1, <2>2
<1>3. CASE req[r].kind # "info"
  <2> DEFINE going == [req[r] EXCEPT !.step = "copy"]
  <2>1. Use(r) = [next |-> going, info |-> info[r]]
    BY <1>3 DEF Use
  <2>2. /\ going \in ReqType /\ going.step = "copy" /\ going.kind = req[r].kind
        /\ going.url = req[r].url
    BY <1>1 DEF ReqType, Steps
  <2> HIDE DEF going
  <2> QED BY <1>1, <1>3, <2>1, <2>2
<1> QED BY <1>2, <1>3

LEMMA GiveUpFacts ==
  ASSUME TypeOK, NEW r \in Reqs
  PROVE  GiveUp(r).info \in InfoType \cup {None} /\ GiveUp(r).next = Idle
<1>1. req[r] \in ReqType /\ info[r] \in InfoType \cup {None}
  BY Types
<1>2. [refs |-> req[r].refs, compression |-> "none"] \in InfoType
  BY <1>1 DEF InfoType, ReqType, Modes
<1> QED BY <1>1, <1>2 DEF GiveUp

LEMMA GivesUp ==
  ASSUME TypeOK, NEW rs, Outcome(rs, GiveUp)
  PROVE  /\ req' \in [Reqs -> ReqType] /\ info' \in [Reqs -> InfoType \cup {None}]
         /\ resp' = resp
         /\ \A r \in Reqs : req'[r] = IF r \in rs THEN Idle ELSE req[r]
<1>1. /\ req' = [r \in Reqs |-> IF r \in rs THEN GiveUp(r).next ELSE req[r]]
      /\ info' = [r \in Reqs |-> IF r \in rs THEN GiveUp(r).info ELSE info[r]]
      /\ resp' = resp
  BY DEF Outcome
<1> QED BY <1>1, Types, GiveUpFacts

LEMMA Uses ==
  ASSUME TypeOK, NEW rs, Outcome(rs, Use)
  PROVE  /\ req' \in [Reqs -> ReqType] /\ info' \in [Reqs -> InfoType \cup {None}]
         /\ resp' = resp
         /\ \A r \in Reqs : req'[r] = IF r \in rs THEN Use(r).next ELSE req[r]
<1>1. /\ req' = [r \in Reqs |-> IF r \in rs THEN Use(r).next ELSE req[r]]
      /\ info' = [r \in Reqs |-> IF r \in rs THEN Use(r).info ELSE info[r]]
      /\ resp' = resp
  BY DEF Outcome
<1> QED BY <1>1, Types, UseFacts

LEMMA ShedInv ==
  ASSUME Inv, NEW r \in Reqs, Shed(r)
  PROVE  Inv'
<1>1. TypeOK
  BY DEF Inv
<1>2. /\ UNCHANGED nixVars /\ UNCHANGED <<mode, cached, flight, lease, walk, restarts>>
      /\ faults < MaxFaults /\ faults' = faults + 1 /\ Outcome({r}, GiveUp)
  BY DEF Shed, Busy, srvVars
<1>3. faults' \in 0..MaxFaults
  BY <1>1, <1>2, Types
<1>4. /\ req' \in [Reqs -> ReqType] /\ info' \in [Reqs -> InfoType \cup {None}]
      /\ resp' = resp /\ req'[r] = Idle /\ \A q \in Reqs \ {r} : req'[q] = req[q]
  BY <1>1, <1>2, GivesUp
<1>5. req' = [req EXCEPT ![r] = Idle]
  <2> HIDE DEF Idle
  <2> QED BY <1>1, <1>4, Types
<1> QED BY <1>1, <1>2, <1>3, <1>4, <1>5, Types, EndInv

LEMMA LeaseInv ==
  ASSUME Inv, NEW r \in Reqs, Lease(r)
  PROVE  Inv'
<1>1. TypeOK /\ ReqOK(r) /\ BuildOK /\ CacheOK
  BY DEF Inv
<1>2. /\ req[r].step = "lease" /\ UNCHANGED nixVars
      /\ UNCHANGED <<mode, cached, restarts, faults>> /\ Known(req[r].id)
      /\ req[r].kind = "info" \/ WantsZstd(r)
  BY <1>1 DEF Lease, Busy, ReqOK, Fresh, Asked
<1>3. CASE /\ cached # None /\ Outcome({r}, Use) /\ UNCHANGED <<flight, walk>>
           /\ lease' = [lease EXCEPT ![r] = IF req[r].kind = "nar" THEN cached ELSE @]
  <2>1. /\ req' \in [Reqs -> ReqType] /\ info' \in [Reqs -> InfoType \cup {None}]
        /\ resp' = resp /\ req'[r] = Use(r).next /\ \A q \in Reqs \ {r} : req'[q] = req[q]
    BY <1>1, <1>3, Uses
  <2>2. /\ lease' \in [Reqs -> EntryType \cup {None}]
        /\ \A q \in Reqs \ {r} : lease'[q] = lease[q]
        /\ req[r].kind = "nar" => lease'[r] = cached
    BY <1>1, <1>3, Types
  <2>3. Clean(r)'
    BY <1>1, <1>2, <2>1, SameClean DEF nixVars
  <2>4. ReqOK(r)'
    <3>1. CASE Use(r).next = Idle
      BY <2>1, <2>3, <3>1, ReqOver
    <3>2. CASE /\ Use(r).next.step = "copy" /\ Use(r).next.kind = req[r].kind
               /\ Use(r).next.url = req[r].url /\ req[r].kind # "info"
      <4>1. req[r].kind = "nar" /\ WantsZstd(r)'
        BY <1>2, <2>1, <3>2 DEF WantsZstd
      <4>2. lease'[r] \in EntryType /\ Sound(lease'[r])
        BY <1>1, <1>3, <2>2, <4>1, Types DEF CacheOK
      <4>3. Sound(lease[r])' /\ EntryType' = EntryType
        <5>1. EntryType' = EntryType /\ \A x : Sound(x)' <=> Sound(x)
          BY <1>2, SameTree DEF nixVars
        <5> QED BY <4>2, <5>1
      <4> QED BY <2>1, <2>3, <3>2, <4>1, <4>2, <4>3 DEF ReqOK, Fresh, Asked, Writing, Copying
    <3> QED BY <1>1, <3>1, <3>2, UseFacts
  <2>5. BuildOK'
    BY <1>1, <1>2, <1>3, SameBuild
  <2> QED BY <1>1, <1>2, <1>3, <2>1, <2>2, <2>4, <2>5, Types, ReqFrame
<1>4. CASE /\ GoTo(r, "wait") /\ UNCHANGED <<info, resp, lease>>
           /\ \/ UNCHANGED <<flight, walk>>
              \/ flight' = req[r].id /\ walk' = Start(Builder)
  <2>1. /\ req' \in [Reqs -> ReqType] /\ \A q \in Reqs \ {r} : req'[q] = req[q]
        /\ req'[r].step = "wait" /\ req'[r].kind = req[r].kind
        /\ req'[r].url = req[r].url /\ req'[r].id = req[r].id
    BY <1>1, <1>4, GoToFacts DEF Steps
  <2>2. ReqOK(r)'
    <3>1. Clean(r)'
      BY <1>1, <1>2, <1>4, SameClean DEF nixVars
    <3>2. Fresh(r)'
      BY <1>2, <2>1, SameKnown DEF Fresh, Known, nixVars
    <3>3. Asked(r)'
      BY <1>2, <2>1 DEF Asked, WantsZstd
    <3> QED BY <2>1, <3>1, <3>2, <3>3 DEF ReqOK, Writing, Copying
  <2>3. CASE UNCHANGED <<flight, walk>>
    <3>1. BuildOK'
      BY <1>1, <1>2, <2>3, SameBuild
    <3> QED BY <1>1, <1>2, <1>4, <2>1, <2>2, <2>3, <3>1, Types, ReqFrame
  <2>4. CASE flight' = req[r].id /\ walk' = Start(Builder)
    <3> DEFINE new == [todo |-> << <<>> >>, nar |-> <<>>]
    <3>1. new \in WalkType /\ Ordered(new) /\ Complete(new)
      BY <1>1, Started
    <3>2. walk' = [walk EXCEPT ![Builder] = new]
      BY <2>4 DEF Start
    <3> HIDE DEF new
    <3>3. /\ walk' \in [Walkers -> WalkType] /\ walk'[Builder] = new
          /\ \A q \in Reqs \ {r} : walk'[q] = walk[q]
      BY <1>1, <3>1, <3>2, Types
    <3>4. req[r].id \in Ids
      BY <1>1, Types DEF ReqType
    <3>5. BuildOK'
      <4>1. Complete(walk[Builder])'
        <5>1. \A x : Complete(x)' <=> Complete(x)
          BY <1>2, SameTree DEF nixVars
        <5> QED BY <3>1, <3>3, <5>1
      <4>2. Known(flight)'
        BY <1>2, <2>4 DEF Known, nixVars
      <4> QED BY <3>1, <3>3, <4>1, <4>2 DEF BuildOK
    <3> QED BY <1>1, <1>2, <1>4, <2>1, <2>2, <2>4, <3>3, <3>4, <3>5, Types, ReqFrame
  <2> QED BY <1>4, <2>3, <2>4
<1> QED BY <1>3, <1>4 DEF Lease

-----------------------------------------------------------------------------
(***************************************************************************)
(* The build, the cache and the server.                                    *)
(***************************************************************************)

\* A step that leaves every request but those it answers as they were.
LEMMA ManyFrame ==
  ASSUME Inv, UNCHANGED nixVars, mode' \in Modes,
         cached' \in EntryType \cup {None}, CacheOK',
         flight' \in Ids \cup {None}, BuildOK',
         lease' \in [Reqs -> EntryType \cup {None}], walk' \in [Walkers -> WalkType],
         req' \in [Reqs -> ReqType], info' \in [Reqs -> InfoType \cup {None}],
         resp' = resp, restarts' \in 0..MaxRestarts, faults' \in 0..MaxFaults,
         \A r \in Reqs : ReqOK(r)'
  PROVE  Inv'
<1>1. Rows' /\ UNCHANGED tree
  BY SameStore DEF Inv
<1>2. TypeOK'
  <2>1. /\ Nodes' = Nodes /\ Pieces' = Pieces /\ WalkType' = WalkType
        /\ EntryType' = EntryType /\ RespType' = RespType
    BY <1>1, SameTree
  <2> QED BY <2>1 DEF Inv, TypeOK, nixVars
<1> QED BY <1>1, <1>2 DEF Inv

LEMMA CompressInv ==
  ASSUME Inv, Compress
  PROVE  Inv'
<1>1. TypeOK /\ BuildOK /\ CacheOK /\ Rows /\ UNCHANGED tree
  BY DEF Inv, Compress, nixVars
<1>2. /\ flight # None /\ WriteNode(Builder) /\ UNCHANGED nixVars
      /\ UNCHANGED <<mode, cached, flight, lease, req, info, resp, restarts, faults>>
  BY DEF Compress, cliVars
<1>3. /\ walk' \in [Walkers -> WalkType] /\ \A v \in Walkers \ {Builder} : walk'[v] = walk[v]
      /\ Ordered(walk'[Builder])
      /\ Complete(walk[Builder]) /\ id # 0 => Complete(walk'[Builder])
  BY <1>1, <1>2, Types, WriteNodeFacts DEF BuildOK
<1>4. BuildOK'
  <2>1. \A x : (Complete(x)' <=> Complete(x)) /\ (Known(x)' <=> Known(x))
    BY <1>1, <1>2, SameTree, SameKnown
  <2>2. flight = id => id # 0
    BY <1>1, <1>2, ReadAssumption DEF BuildOK, Known, TypeOK, Ids
  <2>3. flight = id => Complete(walk'[Builder])
    BY <1>1, <1>2, <1>3, <2>2 DEF BuildOK
  <2>4. flight' = id' => Complete(walk[Builder])'
    BY <1>2, <2>1, <2>3 DEF nixVars
  <2> QED BY <1>1, <1>2, <1>3, <2>1, <2>4 DEF BuildOK
<1>5. ASSUME NEW r \in Reqs PROVE ReqOK(r)'
  <2>1. ReqOK(r) /\ walk'[r] = walk[r]
    BY <1>1, <1>3, Types DEF Inv
  <2> QED BY <1>1, <1>2, <2>1, SameKnown, ReqSame
<1>6. CacheOK'
  BY <1>1, <1>2, SameCache
<1>7. mode' \in Modes /\ restarts' \in 0..MaxRestarts
  BY <1>1, <1>2 DEF TypeOK
<1> QED BY <1>1, <1>2, <1>3, <1>4, <1>5, <1>6, <1>7, Types, ManyFrame

LEMMA CompressDoneInv ==
  ASSUME Inv, CompressDone
  PROVE  Inv'
<1> DEFINE entry == [nar |-> walk[Builder].nar, raced |-> flight # id]
<1>1. TypeOK /\ BuildOK /\ CacheOK /\ UNCHANGED tree /\ \A r \in Reqs : ReqOK(r)
  BY DEF Inv, CompressDone, nixVars
<1>2. /\ flight # None /\ walk[Builder].todo = <<>> /\ cached' = entry /\ flight' = None
      /\ Outcome(Waiting, Use) /\ walk' = Stop(Builder)
      /\ lease' = [r \in Reqs |->
                     IF r \in Waiting /\ req[r].kind = "nar" THEN entry ELSE lease[r]]
      /\ UNCHANGED nixVars /\ UNCHANGED <<mode, restarts, faults>>
  BY DEF CompressDone
<1>3. entry \in EntryType /\ Sound(entry)
  <2>1. walk[Builder] \in WalkType /\ InOrder(walk[Builder].nar)
    BY <1>1, <1>2, Types DEF BuildOK, Ordered
  <2>2. flight = id => Whole(walk[Builder].nar)
    BY <1>1, <1>2, <2>1, WholeByCover DEF BuildOK
  <2> QED BY <2>1, <2>2 DEF Sound, EntryType, WalkType
<1> HIDE DEF entry
<1>4. /\ walk' \in [Walkers -> WalkType] /\ \A w \in Reqs : walk'[w] = walk[w]
  BY <1>1, <1>2, Types, StopFacts
<1>5. /\ req' \in [Reqs -> ReqType] /\ info' \in [Reqs -> InfoType \cup {None}]
      /\ resp' = resp
      /\ \A r \in Reqs : req'[r] = IF r \in Waiting THEN Use(r).next ELSE req[r]
  BY <1>1, <1>2, Uses
<1>6. /\ lease' \in [Reqs -> EntryType \cup {None}]
      /\ \A r \in Reqs : r \notin Waiting => lease'[r] = lease[r]
      /\ \A r \in Waiting : req[r].kind = "nar" => lease'[r] = entry
  BY <1>1, <1>2, <1>3, Types DEF Waiting
<1>7. \A x : (Sound(x)' <=> Sound(x)) /\ (Known(x)' <=> Known(x))
  BY <1>1, <1>2, SameTree, SameKnown
<1>8. ASSUME NEW r \in Reqs PROVE ReqOK(r)'
  <2>1. Clean(r)'
    BY <1>1, <1>5, SameClean
  <2>2. CASE r \notin Waiting
    BY <1>1, <1>4, <1>5, <1>6, <1>7, <2>2, ReqSame
  <2>3. CASE r \in Waiting
    <3>1. req'[r] = Use(r).next /\ (req[r].kind = "info" \/ WantsZstd(r))
      BY <1>1, <1>5, <2>3 DEF Waiting, ReqOK, Asked
    <3>2. CASE Use(r).next = Idle
      BY <2>1, <3>1, <3>2, ReqOver
    <3>3. CASE /\ Use(r).next.step = "copy" /\ Use(r).next.kind = req[r].kind
               /\ Use(r).next.url = req[r].url /\ req[r].kind # "info"
      <4>1. req[r].kind = "nar" /\ WantsZstd(r)'
        BY <3>1, <3>3 DEF WantsZstd
      <4>2. lease'[r] = entry
        BY <1>6, <2>3, <4>1
      <4>3. lease'[r] \in EntryType' /\ Sound(lease[r])'
        BY <1>1, <1>3, <1>7, <4>2, SameTree
      <4> QED BY <2>1, <3>1, <3>3, <4>1, <4>3 DEF ReqOK, Fresh, Asked, Writing, Copying
    <3> QED BY <1>1, <3>2, <3>3, UseFacts
  <2> QED BY <2>2, <2>3
<1>9. BuildOK' /\ CacheOK'
  BY <1>2, <1>3, <1>7 DEF BuildOK, CacheOK
<1>10. mode' \in Modes /\ restarts' \in 0..MaxRestarts
  BY <1>1, <1>2 DEF TypeOK
<1> QED BY <1>1, <1>2, <1>3, <1>4, <1>5, <1>6, <1>8, <1>9, <1>10, Types, ManyFrame

LEMMA CompressFailsInv ==
  ASSUME Inv, CompressFails
  PROVE  Inv'
<1>1. TypeOK /\ CacheOK /\ UNCHANGED tree /\ \A r \in Reqs : ReqOK(r)
  BY DEF Inv, CompressFails, nixVars
<1>2. /\ flight' = None /\ Outcome(Waiting, GiveUp) /\ walk' = Stop(Builder)
      /\ UNCHANGED nixVars /\ UNCHANGED <<mode, cached, lease, restarts>>
  BY DEF CompressFails
<1>3. faults' \in 0..MaxFaults
  BY <1>1, Types DEF CompressFails
<1>4. /\ walk' \in [Walkers -> WalkType] /\ \A w \in Reqs : walk'[w] = walk[w]
  BY <1>1, <1>2, Types, StopFacts
<1>5. /\ req' \in [Reqs -> ReqType] /\ info' \in [Reqs -> InfoType \cup {None}]
      /\ resp' = resp
      /\ \A r \in Reqs : req'[r] = IF r \in Waiting THEN Idle ELSE req[r]
  BY <1>1, <1>2, GivesUp
<1>6. ASSUME NEW r \in Reqs PROVE ReqOK(r)'
  <2>1. CASE r \in Waiting
    <3>1. Clean(r)'
      BY <1>1, <1>5, SameClean
    <3> QED BY <1>5, <2>1, <3>1, ReqOver
  <2>2. CASE r \notin Waiting
    BY <1>1, <1>2, <1>4, <1>5, <2>2, SameKnown, ReqSame
  <2> QED BY <2>1, <2>2
<1>7. BuildOK' /\ CacheOK'
  BY <1>1, <1>2, SameCache DEF BuildOK
<1>8. mode' \in Modes /\ restarts' \in 0..MaxRestarts
  BY <1>1, <1>2 DEF TypeOK
<1> QED BY <1>1, <1>2, <1>3, <1>4, <1>5, <1>6, <1>7, <1>8, Types, ManyFrame

LEMMA EvictInv ==
  ASSUME Inv, Evict
  PROVE  Inv'
<1>1. TypeOK /\ BuildOK /\ UNCHANGED tree /\ \A r \in Reqs : ReqOK(r)
  BY DEF Inv, Evict, nixVars
<1>2. /\ cached' = None /\ UNCHANGED nixVars
      /\ UNCHANGED <<mode, flight, lease, walk, req, info, resp, restarts, faults>>
  BY DEF Evict, cliVars
<1>3. \A r \in Reqs : ReqOK(r)'
  BY <1>1, <1>2, SameKnown, ReqSame
<1>4. BuildOK' /\ CacheOK'
  BY <1>1, <1>2, SameBuild DEF CacheOK
<1>5. mode' \in Modes /\ restarts' \in 0..MaxRestarts
  BY <1>1, <1>2 DEF TypeOK
<1> QED BY <1>1, <1>2, <1>3, <1>4, <1>5, Types, ManyFrame

LEMMA RestartInv ==
  ASSUME Inv, NEW m \in Modes, Restart(m)
  PROVE  Inv'
<1>1. TypeOK /\ UNCHANGED tree /\ \A r \in Reqs : ReqOK(r)
  BY DEF Inv, Restart, nixVars
<1>2. /\ restarts < MaxRestarts /\ restarts' = restarts + 1
      /\ mode' = m /\ cached' = None /\ flight' = None
      /\ lease' = [r \in Reqs |-> None] /\ walk' = [w \in Walkers |-> NoWalk]
      /\ req' = [r \in Reqs |-> Idle] /\ UNCHANGED nixVars /\ UNCHANGED <<info, resp, faults>>
  BY DEF Restart
<1>3. restarts' \in 0..MaxRestarts
  BY <1>1, <1>2, ReadAssumption DEF TypeOK
<1>4. /\ req' \in [Reqs -> ReqType] /\ \A r \in Reqs : req'[r] = Idle
      /\ walk' \in [Walkers -> WalkType] /\ lease' \in [Reqs -> EntryType \cup {None}]
  BY <1>1, <1>2, Types
<1>5. ASSUME NEW r \in Reqs PROVE ReqOK(r)'
  <2>1. Clean(r)'
    BY <1>1, <1>2, SameClean
  <2> QED BY <1>4, <2>1, ReqOver
<1>6. BuildOK' /\ CacheOK'
  BY <1>2 DEF BuildOK, CacheOK
<1> QED BY <1>1, <1>2, <1>3, <1>4, <1>5, <1>6, Types, ManyFrame

-----------------------------------------------------------------------------
(***************************************************************************)
(* Nix.  It takes the row away before it touches the files, and gives the  *)
(* path a new row when they are complete again.                            *)
(***************************************************************************)
LEMMA NixFrame ==
  ASSUME Inv, UNCHANGED <<tree, sized, srvVars, cliVars, restarts, faults>>,
         id' \in Ids, files' \in [Nodes -> {"gone", "part", "full"}],
         nix' \in {"idle", "deleting", "adding"}, adds' \in 0..MaxAdds,
         Rows', \A i : Known(i) => Known(i)',
         flight # None /\ flight = id' => flight = id
  PROVE  Inv'
<1>1. UNCHANGED <<mode, cached, flight, lease, walk, req, info, resp>> /\ UNCHANGED tree
  BY DEF srvVars, cliVars
<1>2. TypeOK'
  <2>1. /\ Nodes' = Nodes /\ Pieces' = Pieces /\ WalkType' = WalkType
        /\ EntryType' = EntryType /\ RespType' = RespType
    BY <1>1, SameTree
  <2> QED BY <1>1, <2>1 DEF Inv, TypeOK
<1>3. ASSUME NEW r \in Reqs PROVE ReqOK(r)'
  BY <1>1, ReqSame DEF Inv
<1>4. CacheOK'
  BY <1>1, SameCache DEF Inv
<1>5. BuildOK'
  <2>1. \A x : Complete(x)' <=> Complete(x)
    BY <1>1, SameTree
  <2> QED BY <1>1, <2>1 DEF Inv, BuildOK
<1> QED BY <1>2, <1>3, <1>4, <1>5 DEF Inv

LEMMA NixStepInv ==
  ASSUME Inv, NixStep
  PROVE  Inv'
<1>1. /\ TypeOK /\ Rows /\ BuildOK
      /\ id \in Ids /\ adds \in 0..MaxAdds /\ files \in [Nodes -> {"gone", "part", "full"}]
      /\ nix \in {"idle", "deleting", "adding"} /\ MaxAdds \in Nat
  BY ReadAssumption DEF Inv, TypeOK
<1>2. UNCHANGED <<srvVars, cliVars, restarts, faults>>
  BY DEF NixStep
<1>3. flight # None => flight \in 1..(adds + 1) /\ (nix = "adding" => flight <= adds)
  BY <1>1 DEF BuildOK, Known
<1>4. CASE Invalidate
  <2>1. /\ id' = 0 /\ nix' = "deleting" /\ nix = "idle"
        /\ UNCHANGED <<tree, sized, files, adds>>
    BY <1>4 DEF Invalidate
  <2>2. Rows' /\ \A i : Known(i) => Known(i)'
    BY <2>1 DEF Rows, Known
  <2>3. flight # None /\ flight = id' => flight = id
    BY <1>1, <1>3, <2>1
  <2> QED BY <1>1, <1>2, <2>1, <2>2, <2>3, NixFrame DEF Ids
<1>5. ASSUME NEW n \in Nodes, Unlink(n) PROVE Inv'
  <2>1. /\ nix = "deleting" /\ files' = [files EXCEPT ![n] = "gone"]
        /\ nix' \in {"idle", "deleting"} /\ UNCHANGED <<tree, sized, id, adds>>
    BY <1>1, <1>5 DEF Unlink
  <2>2. files' \in [Nodes -> {"gone", "part", "full"}]
    BY <1>1, <2>1
  <2>3. Rows' /\ \A i : Known(i) => Known(i)'
    BY <1>1, <2>1 DEF Rows, Known
  <2> QED BY <1>1, <1>2, <2>1, <2>2, <2>3, NixFrame
<1>6. CASE StartAdd
  <2>1. /\ id = 0 /\ nix' = "adding" /\ adds < MaxAdds /\ adds' = adds + 1
        /\ UNCHANGED <<tree, sized, id, files>>
    BY <1>6 DEF StartAdd
  <2>2. adds' \in 0..MaxAdds
    BY <1>1, <2>1
  <2>3. Rows' /\ \A i : Known(i) => Known(i)'
    BY <1>1, <2>1 DEF Rows, Known
  <2> QED BY <1>1, <1>2, <2>1, <2>2, <2>3, NixFrame
<1>7. ASSUME NEW n \in Nodes, Restore(n) PROVE Inv'
  <2>1. /\ nix = "adding" /\ UNCHANGED <<tree, sized, id, nix, adds>>
        /\ files' = [files EXCEPT ![n] =
                       IF @ = "gone" /\ tree[n] = "regular" THEN "part" ELSE "full"]
    BY <1>7 DEF Restore
  <2>2. files' \in [Nodes -> {"gone", "part", "full"}]
    BY <1>1, <2>1
  <2>3. Rows' /\ \A i : Known(i) => Known(i)'
    BY <1>1, <2>1 DEF Rows, Known
  <2> QED BY <1>1, <1>2, <2>1, <2>2, <2>3, NixFrame
<1>8. CASE Register
  <2>1. /\ nix = "adding" /\ id' = adds + 1 /\ nix' = "idle"
        /\ \A n \in Nodes : files[n] = "full" /\ UNCHANGED <<tree, sized, files, adds>>
    BY <1>8 DEF Register
  <2>2. id' \in Ids /\ UNCHANGED <<tree, sized, files, adds>>
    BY <1>1, <1>8, <2>1 DEF Ids, Register
  <2>3. Rows'
    BY <2>1, <2>2 DEF Rows, Nodes
  <2>4. \A i : Known(i) => Known(i)'
    BY <2>1, <2>2 DEF Known
  <2>5. flight # None /\ flight = id' => flight = id
    BY <1>1, <1>3, <2>1
  <2> QED BY <1>1, <1>2, <2>1, <2>2, <2>3, <2>4, <2>5, NixFrame
<1> QED BY <1>4, <1>5, <1>6, <1>7, <1>8 DEF NixStep

-----------------------------------------------------------------------------
(***************************************************************************)
(* The theorems.                                                           *)
(***************************************************************************)
LEMMA InitInv == Init => Inv
<1> SUFFICES ASSUME Init PROVE Inv
  OBVIOUS
<1>1. TypeOK
  BY ReadAssumption DEF Init, TypeOK, Idle, ReqType, Steps, Kinds, Modes, Ids, NoWalk,
                        WalkType, Walkers, Nodes
<1>2. Rows /\ BuildOK /\ CacheOK
  BY DEF Init, Rows, BuildOK, CacheOK
<1>3. ASSUME NEW r \in Reqs PROVE ReqOK(r)
  <2>1. req[r] = Idle /\ resp[r] = None
    BY DEF Init
  <2> QED BY <2>1 DEF ReqOK, Fresh, Asked, Writing, Copying, Clean, Idle
<1> QED BY <1>1, <1>2, <1>3 DEF Inv

LEMMA StutterInv ==
  ASSUME Inv, UNCHANGED vars
  PROVE  Inv'
<1>1. /\ UNCHANGED nixVars /\ UNCHANGED <<mode, cached, flight, lease, walk>>
      /\ UNCHANGED <<req, info, resp, restarts, faults>> /\ UNCHANGED tree
  BY DEF vars, nixVars, srvVars, cliVars
<1>2. TypeOK /\ BuildOK /\ CacheOK /\ \A r \in Reqs : ReqOK(r)
  BY DEF Inv
<1>3. \A r \in Reqs : ReqOK(r)'
  BY <1>1, <1>2, SameKnown, ReqSame
<1>4. BuildOK' /\ CacheOK'
  BY <1>1, <1>2, SameBuild, SameCache
<1>5. mode' \in Modes /\ restarts' \in 0..MaxRestarts
  BY <1>1, <1>2 DEF TypeOK
<1> QED BY <1>1, <1>2, <1>3, <1>4, <1>5, Types, ManyFrame

LEMMA NextInv ==
  ASSUME Inv, [Next]_vars
  PROVE  Inv'
<1>1. CASE NixStep
  BY <1>1, NixStepInv
<1>2. ASSUME NEW r \in Reqs, GetNarInfo(r) \/ HeadRequest(r) \/ GetNar(r) PROVE Inv'
  BY <1>2, AsksInv
<1>3. ASSUME NEW r \in Reqs, Answer(r) PROVE Inv'
  <2>1. CASE QueryRow(r)
    BY <2>1, QueryRowInv
  <2>2. CASE QueryRefs(r)
    BY <2>2, QueryRefsInv
  <2>3. CASE WriteNar(r)
    BY <2>3, WriteNarInv
  <2>4. CASE NarWritten(r)
    BY <2>4, NarWrittenInv
  <2>5. CASE AbortNar(r)
    BY <2>5, AbortNarInv
  <2>6. CASE WriteDeadline(r)
    BY <2>6, WriteDeadlineInv
  <2>7. CASE Lease(r)
    BY <2>7, LeaseInv
  <2>8. CASE CopyDone(r)
    BY <2>8, CopyDoneInv
  <2> QED BY <1>3, <2>1, <2>2, <2>3, <2>4, <2>5, <2>6, <2>7, <2>8 DEF Answer
<1>4. ASSUME NEW r \in Reqs, QueryFails(r) \/ Stall(r) \/ Shed(r) PROVE Inv'
  BY <1>4, QueryFailsInv, StallInv, ShedInv
<1>5. CASE Build
  BY <1>5, CompressInv, CompressDoneInv, CompressFailsInv DEF Build
<1>6. CASE Evict
  BY <1>6, EvictInv
<1>7. ASSUME NEW m \in Modes, Restart(m) PROVE Inv'
  BY <1>7, RestartInv
<1>8. CASE UNCHANGED vars
  BY <1>8, StutterInv
<1> QED BY <1>1, <1>2, <1>3, <1>4, <1>5, <1>6, <1>7, <1>8 DEF Next

LEMMA SpecInv == Spec => []Inv
<1>1. Init => Inv
  BY InitInv
<1>2. Inv /\ [Next]_vars => Inv'
  BY NextInv
<1> QED BY <1>1, <1>2, PTL DEF Spec

\* Every variable has its type: a narinfo names a compression there is, a walk holds
\* nodes of the path, and a response is a NAR of them.
THEOREM TypeCorrect == Spec => []TypeOK
<1>1. Inv => TypeOK
  BY DEF Inv
<1> QED BY <1>1, SpecInv, PTL

\* A NAR response that ends without an error carries the whole NAR of the path,
\* complete and in order, and in the encoding its URL names; only a compressed NAR
\* whose build met a collection may be short (nar.Write, serveNar, buildZstdFlight).
THEOREM CleanIsWholeCorrect == Spec => []CleanIsWhole
<1>1. Inv => CleanIsWhole
  BY DEF Inv, ReqOK, Clean, CleanIsWhole
<1> QED BY <1>1, SpecInv, PTL

=============================================================================
