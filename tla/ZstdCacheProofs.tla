-------------------------- MODULE ZstdCacheProofs --------------------------
(***************************************************************************)
(* Proofs about the compressed-NAR cache (module ZstdCache), for any NARs, *)
(* entries, requests, slots, budget and chunk size: the books are right    *)
(* (Accounted), the directory and the open files fit the budget            *)
(* (DiskWithinBudget), a request serves a complete file (ServesWhole), and *)
(* a released directory is free (CloseReleasesAll).                        *)
(*                                                                         *)
(* One inductive invariant, in the parts below.  Its core is that an entry *)
(* is in one place: being built, cached, retired by one goroutine, or      *)
(* failed to be deleted.  Then each charge is given back once, and a       *)
(* retired entry has no pins.                                              *)
(***************************************************************************)
EXTENDS ZstdCache, FiniteSetTheorems, TLAPS

-----------------------------------------------------------------------------
(***************************************************************************)
(* The invariant                                                           *)
(***************************************************************************)

\* A flight and the cache, the entries of both.
FlightPlaces ==
    \A k \in Keys :
       /\ flight[k].stage \in Building \cup {"clean"} => flight[k].entry # None
       /\ flight[k].stage \in {"none", "queue"} => flight[k].entry = None
       /\ flight[k].stage # "none" =>
             cache[k] = IF flight[k].stage = "done" THEN flight[k].entry ELSE None

\* No entry is in two places; only a failed build may still name one that is gone.
Apart ==
    /\ \A j, k \in Keys :
          /\ j # k /\ cache[j] = cache[k] => cache[k] = None
          /\ j # k /\ flight[j].entry = flight[k].entry => flight[k].entry = None
          /\ flight[j].stage # "done" /\ flight[j].entry = cache[k] => cache[k] = None
    /\ \A d \in Deleters : \A k \in Keys :
          /\ cache[k] \notin victims[d]
          /\ flight[k].stage # "clean" => flight[k].entry \notin victims[d]
    /\ \A k \in Keys : /\ cache[k] \notin failed
                       /\ flight[k].stage # "clean" => flight[k].entry \notin failed
    /\ \A d \in Deleters : victims[d] \cap failed = {}
    /\ \A c, d \in Deleters : c # d => victims[c] \cap victims[d] = {}

\* Who is inside deleteZstd, and what it has just removed.
Turns ==
    /\ \A k \in Keys : victims[k] # {} => flight[k].stage \in {"reserve", "clean"}
    /\ \A r \in Reqs : victims[r] # {} => req[r].step = "remove"
    /\ victims[Closer] # {} => phase = "released"
    /\ \A d \in Deleters :
          /\ removed[d] = NotYet \/ removed[d].entry \in victims[d]
          /\ removed[d].ok => removed[d].entry \notin files

\* A running server has no file that it has lost track of.
Linked == phase # "down" => files \subseteq Tracked

\* A lease is on the cached entry of its NAR.
Leases ==
    \A r \in Reqs :
       /\ req[r].step # "idle" => req[r].key \in Keys
       /\ req[r].step \in {"open", "read", "missing", "remove"} => req[r].entry \in Entries
       /\ req[r].step \in {"open", "read"} => cache[req[r].key] = req[r].entry

\* What is charged for an entry, and how far it has been written.
Charged ==
    /\ \A e \in Entries : /\ e \in Tracked => entry[e].size <= entry[e].charged
                          /\ e \notin Tracked => entry[e].charged = 0
    /\ \A k \in Keys :
          LET f == flight[k] IN
          /\ f.stage \in {"write", "reserve"} =>
                entry[f.entry].charged = RoundUp(entry[f.entry].size)
          /\ f.stage = "data" =>
                entry[f.entry].charged = RoundUp(entry[f.entry].size + f.want)
          /\ f.stage = "publish" /\ f.entry # None => entry[f.entry].size = Size[k]
          /\ cache[k] # None => entry[cache[k]].size = Size[k]

Budget == bytes = Sum(Entries, Charges) /\ bytes <= Limit

\* The waiters of a flight are counted, and a finished flight has one.
Waits ==
    \A k \in Keys :
       /\ flight[k].waiters = Cardinality({r \in Reqs : req[r].step = "wait" /\ req[r].key = k})
       /\ flight[k].stage = "done" => flight[k].waiters > 0

\* What Close has waited for stays away.
Closing ==
    /\ phase \in {"requests", "leases", "sweep", "released"} =>
          \A k \in Keys : flight[k].stage \in {"none", "done"}
    /\ phase \in {"leases", "sweep", "released"} => \A r \in Reqs : req[r].step # "wait"
    /\ phase \in {"sweep", "released"} => \A r \in Reqs : req[r].step \notin {"open", "read"}
    /\ phase = "released" => \A k \in Keys : cache[k] = None

Inv == /\ TypeOK /\ FlightPlaces /\ Apart /\ Turns /\ Linked /\ Leases
       /\ Charged /\ Budget /\ PinsAccounted /\ Waits /\ Closing

-----------------------------------------------------------------------------
(***************************************************************************)
(* Lemmas about the operators                                              *)
(***************************************************************************)

LEMMA MulMono ==
  ASSUME NEW a \in Nat, NEW b \in Nat, NEW c \in Nat, a <= b
  PROVE  a * c <= b * c
OBVIOUS

LEMMA DivFacts ==
  ASSUME NEW c \in Nat \ {0}, NEW n \in Nat
  PROVE  n \div c \in Nat /\ (n \div c) * c <= n /\ n < (n \div c) * c + c
OBVIOUS

LEMMA DivMono ==
  ASSUME NEW c \in Nat \ {0}, NEW m \in Nat, NEW n \in Nat, m <= n
  PROVE  m \div c <= n \div c
OBVIOUS

\* Reservations come in whole chunks that hold what is written.
LEMMA RoundUpFacts ==
  /\ RoundUp(0) = 0
  /\ \A n \in Nat : RoundUp(n) \in Nat /\ n <= RoundUp(n)
  /\ \A m, n \in Nat : m <= n => RoundUp(m) <= RoundUp(n)
<1>0. Chunk \in Nat \ {0}
  BY ZstdAssumption
<1>1. RoundUp(0) = 0
  <2>1. (0 + Chunk - 1) \div Chunk = 0
    BY <1>0
  <2> QED BY <1>0, <2>1 DEF RoundUp
<1>2. ASSUME NEW n \in Nat PROVE RoundUp(n) \in Nat /\ n <= RoundUp(n)
  <2> DEFINE q == (n + Chunk - 1) \div Chunk
  <2>1. n + Chunk - 1 \in Nat
    BY <1>0
  <2>2. q \in Nat /\ n + Chunk - 1 < q * Chunk + Chunk
    BY <1>0, <2>1, DivFacts
  <2>3. q * Chunk \in Nat
    BY <1>0, <2>2
  <2> HIDE DEF q
  <2>4. n <= q * Chunk
    BY <1>0, <2>2, <2>3
  <2> QED BY <2>3, <2>4 DEF RoundUp, q
<1>3. ASSUME NEW m \in Nat, NEW n \in Nat, m <= n PROVE RoundUp(m) <= RoundUp(n)
  <2>1. /\ m + Chunk - 1 \in Nat /\ n + Chunk - 1 \in Nat
        /\ m + Chunk - 1 <= n + Chunk - 1
    BY <1>0, <1>3
  <2> DEFINE a == (m + Chunk - 1) \div Chunk
             b == (n + Chunk - 1) \div Chunk
  <2>2. a \in Nat /\ b \in Nat /\ a <= b
    BY <1>0, <2>1, DivFacts, DivMono
  <2>3. a * Chunk <= b * Chunk
    <3> HIDE DEF a, b
    <3> QED BY <1>0, <2>2, MulMono
  <2> QED BY <2>3 DEF RoundUp
<1> QED BY <1>1, <1>2, <1>3

Units(S, f) == UNION {{e} \X (1..f[e]) : e \in S}

LEMMA UnitsIn ==
  ASSUME NEW S, NEW f
  PROVE  \A x : x \in Units(S, f) <=> \E e \in S : \E i \in 1..f[e] : x = <<e, i>>
BY DEF Units

LEMMA UnitsFinite ==
  ASSUME NEW S \in SUBSET Entries, NEW f \in [Entries -> Nat]
  PROVE  IsFiniteSet(Units(S, f))
<1> DEFINE U(e) == {e} \X (1..f[e])
           T    == {U(e) : e \in S}
           g    == [e \in S |-> U(e)]
<1>1. IsFiniteSet(S)
  BY ZstdAssumption, FS_Subset
<1>2. ASSUME NEW e \in S PROVE IsFiniteSet(U(e))
  <2>1. f[e] \in Int /\ 1 \in Int
    OBVIOUS
  <2>2. IsFiniteSet(1..f[e]) /\ IsFiniteSet({e})
    BY <2>1, FS_Interval, FS_Singleton
  <2> QED BY <2>2, FS_Product
<1>3. g \in Surjection(S, T)
  BY DEF Surjection
<1>4. IsFiniteSet(T)
  <2> HIDE DEF g, T
  <2> QED BY <1>1, <1>3, FS_Surjection
<1>5. \A t \in T : IsFiniteSet(t)
  BY <1>2
<1> QED BY <1>4, <1>5, FS_UNION DEF Units

LEMMA SumMono ==
  ASSUME NEW T \in SUBSET Entries, NEW S \in SUBSET T,
         NEW f \in [Entries -> Nat], NEW g \in [Entries -> Nat],
         \A e \in S : f[e] <= g[e]
  PROVE  Sum(S, f) \in Nat /\ Sum(T, g) \in Nat /\ Sum(S, f) <= Sum(T, g)
<1>1. IsFiniteSet(Units(T, g)) /\ IsFiniteSet(Units(S, f))
  BY UnitsFinite
<1>2. Units(S, f) \subseteq Units(T, g)
  <2> SUFFICES ASSUME NEW x \in Units(S, f) PROVE x \in Units(T, g)
    OBVIOUS
  <2>1. PICK e \in S : \E i \in 1..f[e] : x = <<e, i>>
    BY UnitsIn
  <2>2. PICK i \in 1..f[e] : x = <<e, i>>
    BY <2>1
  <2>3. i \in 1..g[e] /\ e \in T
    BY <2>2
  <2> QED BY <2>2, <2>3, UnitsIn
<1> QED BY <1>1, <1>2, FS_Subset, FS_CardinalityType DEF Sum, Units

\* Only the entries with a charge count.
LEMMA SumZero ==
  ASSUME NEW S \in SUBSET Entries, NEW f \in [Entries -> Nat],
         \A e \in Entries \ S : f[e] = 0
  PROVE  Sum(S, f) = Sum(Entries, f)
<1>1. ASSUME NEW x \in Units(Entries, f) PROVE x \in Units(S, f)
  <2>1. PICK e \in Entries : \E i \in 1..f[e] : x = <<e, i>>
    BY UnitsIn
  <2>2. PICK i \in 1..f[e] : x = <<e, i>>
    BY <2>1
  <2>3. e \in S
    BY <2>2
  <2> QED BY <2>2, <2>3, UnitsIn
<1>2. ASSUME NEW x \in Units(S, f) PROVE x \in Units(Entries, f)
  BY <1>2, UnitsIn
<1>3. Units(S, f) = Units(Entries, f)
  BY <1>1, <1>2
<1> QED BY <1>3 DEF Sum, Units

\* A charge that grows by n makes the sum grow by n.
LEMMA SumMore ==
  ASSUME NEW f \in [Entries -> Nat], NEW g \in [Entries -> Nat],
         NEW e \in Entries, NEW n \in Nat, g[e] = f[e] + n,
         \A x \in Entries \ {e} : g[x] = f[x]
  PROVE  Sum(Entries, g) = Sum(Entries, f) + n
<1> DEFINE I == (f[e] + 1)..(f[e] + n)
           N == {e} \X I
           F == Units(Entries, f)
           G == Units(Entries, g)
<1>1. IsFiniteSet(F) /\ Cardinality(F) \in Nat
  BY UnitsFinite, FS_CardinalityType
<1>2. IsFiniteSet(I) /\ Cardinality(I) = n
  <2>1. f[e] + 1 \in Int /\ f[e] + n \in Int
    OBVIOUS
  <2>2. /\ IsFiniteSet(I)
        /\ Cardinality(I) = IF f[e] + 1 > f[e] + n THEN 0 ELSE (f[e] + n) - (f[e] + 1) + 1
    BY <2>1, FS_Interval
  <2> QED BY <2>2
<1>3. IsFiniteSet(N) /\ Cardinality(N) = n
  <2>1. IsFiniteSet({e}) /\ Cardinality({e}) = 1
    BY FS_Singleton
  <2> HIDE DEF I
  <2>2. IsFiniteSet(N) /\ Cardinality(N) = 1 * n
    BY <1>2, <2>1, FS_Product
  <2> QED BY <2>2
<1>4. F \cap N = {}
  <2> SUFFICES ASSUME NEW x \in F, x \in N PROVE FALSE
    OBVIOUS
  <2>1. PICK d \in Entries : \E i \in 1..f[d] : x = <<d, i>>
    BY UnitsIn
  <2>2. PICK i \in 1..f[d] : x = <<d, i>>
    BY <2>1
  <2> QED BY <2>2
<1>5. G = F \cup N
  <2>1. ASSUME NEW x \in G PROVE x \in F \cup N
    <3>1. PICK d \in Entries : \E i \in 1..g[d] : x = <<d, i>>
      BY UnitsIn
    <3>2. PICK i \in 1..g[d] : x = <<d, i>>
      BY <3>1
    <3>3. CASE i \in 1..f[d]
      BY <3>2, <3>3, UnitsIn
    <3>4. CASE i \notin 1..f[d]
      <4>1. d = e /\ i \in I
        BY <3>2, <3>4
      <4> QED BY <3>2, <4>1
    <3> QED BY <3>3, <3>4
  <2>2. ASSUME NEW x \in F PROVE x \in G
    <3>1. PICK d \in Entries : \E i \in 1..f[d] : x = <<d, i>>
      BY UnitsIn
    <3>2. PICK i \in 1..f[d] : x = <<d, i>>
      BY <3>1
    <3>3. i \in 1..g[d]
      BY <3>2
    <3> QED BY <3>2, <3>3, UnitsIn
  <2>3. ASSUME NEW x \in N PROVE x \in G
    <3>1. PICK i \in I : x = <<e, i>>
      BY <2>3
    <3>2. i \in 1..g[e]
      OBVIOUS
    <3> QED BY <3>1, <3>2, UnitsIn
  <2> QED BY <2>1, <2>2, <2>3
<1>6. Cardinality(G) = Cardinality(F) + n
  <2> HIDE DEF F, G, N
  <2>1. Cardinality(F \cup N) = Cardinality(F) + Cardinality(N) - Cardinality({})
    BY <1>1, <1>3, <1>4, FS_Union
  <2>2. Cardinality({}) = 0
    BY FS_EmptySet
  <2> QED BY <1>1, <1>3, <1>5, <2>1, <2>2
<1> QED BY <1>6 DEF Sum, Units

Elements(s)  == {s[i] : i \in DOMAIN s}
Injective(s) == \A i, j \in DOMAIN s : s[i] = s[j] => i = j

LEMMA WithoutFacts ==
  ASSUME NEW s \in Seq(Entries), Injective(s), NEW e
  PROVE  /\ Without(s, e) \in Seq(Entries) /\ Injective(Without(s, e))
         /\ Elements(Without(s, e)) = Elements(s) \ {e}
<1>1. CASE \A i \in DOMAIN s : s[i] # e
  BY <1>1 DEF Without, Elements
<1>2. CASE ~(\A i \in DOMAIN s : s[i] # e)
  <2> DEFINE n == CHOOSE n \in DOMAIN s : s[n] = e
             t == [i \in 1..(Len(s) - 1) |-> s[IF i < n THEN i ELSE i + 1]]
  <2>1. Without(s, e) = t
    BY <1>2 DEF Without
  <2>2. n \in 1..Len(s) /\ s[n] = e /\ Len(s) \in Nat /\ DOMAIN s = 1..Len(s)
    BY <1>2
  <2> HIDE DEF n
  <2>3. /\ DOMAIN t = 1..(Len(s) - 1) /\ Len(s) - 1 \in Nat
        /\ \A i \in 1..(Len(s) - 1) : t[i] = s[IF i < n THEN i ELSE i + 1]
    BY <2>2
  <2>4. \A i \in 1..(Len(s) - 1) : (IF i < n THEN i ELSE i + 1) \in 1..Len(s)
    BY <2>2
  <2>5. t \in Seq(Entries)
    BY <2>2, <2>4
  <2> HIDE DEF t
  <2>6. Injective(t)
    <3> SUFFICES ASSUME NEW i \in 1..(Len(s) - 1), NEW j \in 1..(Len(s) - 1), t[i] = t[j]
                 PROVE  i = j
      BY <2>3 DEF Injective
    <3>1. (IF i < n THEN i ELSE i + 1) = (IF j < n THEN j ELSE j + 1)
      BY <2>2, <2>3, <2>4 DEF Injective
    <3> QED BY <2>2, <3>1
  <2>7. ASSUME NEW x \in Elements(t) PROVE x \in Elements(s) \ {e}
    BY <2>2, <2>3, <2>4 DEF Elements, Injective
  <2>8. ASSUME NEW x \in Elements(s) \ {e} PROVE x \in Elements(t)
    <3>1. PICK i \in 1..Len(s) : s[i] = x
      BY <2>2 DEF Elements
    <3>2. i # n
      BY <2>2, <3>1
    <3> DEFINE j == IF i < n THEN i ELSE i - 1
    <3>3. j \in 1..(Len(s) - 1) /\ t[j] = x
      BY <2>2, <2>3, <3>1, <3>2
    <3> QED BY <2>3, <3>3 DEF Elements
  <2> QED BY <2>1, <2>5, <2>6, <2>7, <2>8
<1> QED BY <1>1, <1>2

LEMMA AppendFacts ==
  ASSUME NEW s \in Seq(Entries), Injective(s), NEW e \in Entries \ Elements(s)
  PROVE  /\ Append(s, e) \in Seq(Entries) /\ Injective(Append(s, e))
         /\ Elements(Append(s, e)) = Elements(s) \cup {e}
<1> DEFINE t == Append(s, e)
<1>1. /\ t \in Seq(Entries) /\ Len(s) \in Nat /\ DOMAIN s = 1..Len(s)
      /\ DOMAIN t = 1..(Len(s) + 1) /\ t[Len(s) + 1] = e
      /\ \A i \in 1..Len(s) : t[i] = s[i]
  OBVIOUS
<1> HIDE DEF t
<1>2. \A i \in 1..Len(s) : t[i] \in Elements(s)
  BY <1>1 DEF Elements
<1>3. ASSUME NEW i \in DOMAIN t, NEW j \in DOMAIN t, t[i] = t[j] PROVE i = j
  <2>1. CASE i \in 1..Len(s) /\ j \in 1..Len(s)
    BY <1>1, <1>3, <2>1 DEF Injective
  <2>2. CASE i = Len(s) + 1 /\ j \in 1..Len(s)
    BY <1>1, <1>2, <1>3, <2>2
  <2>3. CASE j = Len(s) + 1 /\ i \in 1..Len(s)
    BY <1>1, <1>2, <1>3, <2>3
  <2> QED BY <1>1, <2>1, <2>2, <2>3
<1>4. Elements(t) = Elements(s) \cup {e}
  <2>1. ASSUME NEW x \in Elements(t) PROVE x \in Elements(s) \cup {e}
    BY <1>1, <1>2 DEF Elements
  <2>2. ASSUME NEW x \in Elements(s) \cup {e} PROVE x \in Elements(t)
    <3>1. CASE x = e
      BY <1>1, <3>1 DEF Elements
    <3>2. CASE x \in Elements(s)
      BY <1>1, <3>2 DEF Elements
    <3> QED BY <3>1, <3>2
  <2> QED BY <2>1, <2>2
<1> QED BY <1>1, <1>3, <1>4 DEF t, Injective

\* A list whose first n elements are retired.
LEMMA DropFacts ==
  ASSUME NEW s \in Seq(Entries), Injective(s), NEW n \in 0..Len(s)
  PROVE  /\ SubSeq(s, n + 1, Len(s)) \in Seq(Entries)
         /\ Injective(SubSeq(s, n + 1, Len(s)))
         /\ Elements(SubSeq(s, n + 1, Len(s))) = Elements(s) \ {s[i] : i \in 1..n}
<1> DEFINE t == SubSeq(s, n + 1, Len(s))
<1>1. /\ t \in Seq(Entries) /\ Len(s) \in Nat /\ n \in Nat /\ DOMAIN s = 1..Len(s)
      /\ DOMAIN t = 1..(Len(s) - n)
      /\ \A i \in 1..(Len(s) - n) : t[i] = s[i + n]
  OBVIOUS
<1> HIDE DEF t
<1>2. \A i \in 1..(Len(s) - n) : i + n \in 1..Len(s) /\ i + n \notin 1..n
  BY <1>1
<1>3. Injective(t)
  <2> SUFFICES ASSUME NEW i \in 1..(Len(s) - n), NEW j \in 1..(Len(s) - n), t[i] = t[j]
               PROVE  i = j
    BY <1>1 DEF Injective
  <2>1. i + n = j + n
    BY <1>1, <1>2 DEF Injective
  <2> QED BY <1>1, <2>1
<1>4. ASSUME NEW x \in Elements(t) PROVE x \in Elements(s) \ {s[i] : i \in 1..n}
  <2>1. PICK i \in 1..(Len(s) - n) : x = s[i + n]
    BY <1>1 DEF Elements
  <2>2. ASSUME NEW j \in 1..n PROVE s[j] # x
    <3>1. j \in 1..Len(s) /\ i + n \in 1..Len(s) /\ j # i + n
      BY <1>1, <1>2
    <3> QED BY <1>1, <2>1, <3>1 DEF Injective
  <2> QED BY <1>1, <1>2, <2>1, <2>2 DEF Elements
<1>5. ASSUME NEW x \in Elements(s) \ {s[i] : i \in 1..n} PROVE x \in Elements(t)
  <2>1. PICK i \in 1..Len(s) : x = s[i]
    BY <1>1 DEF Elements
  <2>2. i \notin 1..n
    BY <2>1
  <2>3. i - n \in 1..(Len(s) - n) /\ t[i - n] = x
    BY <1>1, <2>1, <2>2
  <2> QED BY <1>1, <2>3 DEF Elements
<1> QED BY <1>1, <1>3, <1>4, <1>5 DEF t

LEMMA TailFacts ==
  ASSUME NEW s \in Seq(Entries), Injective(s), s # <<>>
  PROVE  /\ Head(s) \in Elements(s) /\ Tail(s) \in Seq(Entries) /\ Injective(Tail(s))
         /\ Elements(Tail(s)) = Elements(s) \ {Head(s)}
<1>1. Len(s) \in Nat /\ Len(s) # 0 /\ DOMAIN s = 1..Len(s)
  OBVIOUS
<1>2. Tail(s) = SubSeq(s, 2, Len(s)) /\ Head(s) = s[1]
  OBVIOUS
<1>3. 1 \in 0..Len(s) /\ {s[i] : i \in 1..1} = {Head(s)}
  BY <1>1, <1>2
<1>4. /\ SubSeq(s, 1 + 1, Len(s)) \in Seq(Entries)
      /\ Injective(SubSeq(s, 1 + 1, Len(s)))
      /\ Elements(SubSeq(s, 1 + 1, Len(s))) = Elements(s) \ {s[i] : i \in 1..1}
  BY <1>3, DropFacts
<1>5. Tail(s) = SubSeq(s, 1 + 1, Len(s))
  BY <1>2
<1>6. Head(s) \in Elements(s)
  BY <1>1, <1>2 DEF Elements
<1> HIDE DEF Elements, Injective
<1> QED BY <1>3, <1>4, <1>5, <1>6

-----------------------------------------------------------------------------
(***************************************************************************)
(* What the parts depend on                                                *)
(***************************************************************************)

EntryType  == [pins : Nat, size : Nat, charged : Nat]
FlightType == [stage : Stages, waiters : Nat, entry : Entries \cup {None}, want : Nat]
ReqType    == [step : Steps, key : Keys \cup {None}, entry : Entries \cup {None},
               tries : 0..1, gone : BOOLEAN]

Leasing(r) == req[r].step \in {"open", "read"}
Waiters(k) == {r \in Reqs : req[r].step = "wait" /\ req[r].key = k}
Builds(k)  == flight[k].stage \in Building \cup {"publish"}

LEMMA Distinct ==
  /\ \A k \in Keys : k \notin Reqs /\ k # Sweeper /\ k # Closer /\ k \in Deleters
  /\ \A r \in Reqs : r # Sweeper /\ r # Closer /\ r \in Deleters
  /\ Sweeper # Closer /\ Sweeper \in Deleters /\ Closer \in Deleters
  /\ None \notin Entries /\ None \notin Keys
BY ZstdAssumption DEF Deleters, Sweeper, Closer

LEMMA TrackedIn ==
  \A e \in Entries : e \in Tracked <=>
     \/ e \in failed
     \/ \E d \in Deleters : e \in victims[d]
     \/ \E k \in Keys : cache[k] = e
     \/ \E k \in Keys : Builds(k) /\ flight[k].entry = e
BY Distinct DEF Tracked, InBuild, Cached, InDeletion, Builds

LEMMA TrackedInNext ==
  \A e \in Entries : e \in Tracked' <=>
     \/ e \in failed'
     \/ \E d \in Deleters : e \in victims'[d]
     \/ \E k \in Keys : cache'[k] = e
     \/ \E k \in Keys : Builds(k)' /\ flight'[k].entry = e
BY Distinct DEF Tracked, InBuild, Cached, InDeletion, Builds

LEMMA TrackedType ==
  ASSUME TypeOK
  PROVE  Tracked \subseteq Entries
BY DEF TypeOK, Tracked, InBuild, Cached, InDeletion

LEMMA TrackedSame ==
  ASSUME TypeOK, TypeOK', \A e \in Entries : e \in Tracked' <=> e \in Tracked
  PROVE  Tracked' = Tracked
<1>1. Tracked \subseteq Entries
  BY TrackedType
<1>2. Tracked' \subseteq Entries
  BY DEF TypeOK, Tracked, InBuild, Cached, InDeletion
<1> QED BY <1>1, <1>2

LEMMA CachedIn == \A e \in Entries : e \in Cached <=> \E k \in Keys : cache[k] = e
BY Distinct DEF Cached

LEMMA CachedInNext == \A e \in Entries : e \in Cached' <=> \E k \in Keys : cache'[k] = e
BY Distinct DEF Cached

LEMMA PinCounts ==
  ASSUME TypeOK, NEW e \in Entries
  PROVE  /\ IsFiniteSet(Readers(e)) /\ Cardinality(Readers(e)) \in Nat
         /\ IsFiniteSet(Finished(e)) /\ Cardinality(Finished(e)) \in Nat
<1>1. Readers(e) \subseteq Reqs /\ Finished(e) \subseteq Keys
  BY DEF Readers, Finished
<1> QED BY <1>1, ZstdAssumption, FS_Subset, FS_CardinalityType

\* The list of idle entries matches the pins.
IdleRight == Idle = {e \in Cached : entry[e].pins = 0} /\ Injective(lru)

LEMMA PinsParts ==
  PinsAccounted <=>
     /\ \A e \in Entries : entry[e].pins = Cardinality(Readers(e)) + Cardinality(Finished(e))
     /\ IdleRight
BY DEF PinsAccounted, IdleRight, Injective

\* A member of a count that is there.
LEMMA PinnedReader ==
  ASSUME Inv, NEW r \in Reqs, Leasing(r)
  PROVE  req[r].entry \in Entries /\ entry[req[r].entry].pins > 0
<1>1. req[r].entry \in Entries
  BY DEF Inv, Leases, Leasing
<1>2. r \in Readers(req[r].entry)
  BY DEF Readers, Leasing
<1>3. TypeOK /\ PinsAccounted
  BY DEF Inv
<1>4. /\ IsFiniteSet(Readers(req[r].entry)) /\ Cardinality(Readers(req[r].entry)) \in Nat
      /\ Cardinality(Finished(req[r].entry)) \in Nat
  BY <1>1, <1>3, PinCounts
<1>5. Cardinality(Readers(req[r].entry)) # 0
  BY <1>2, <1>4, FS_EmptySet
<1>6. entry[req[r].entry].pins
         = Cardinality(Readers(req[r].entry)) + Cardinality(Finished(req[r].entry))
  BY <1>1, <1>3, PinsParts
<1> QED BY <1>1, <1>4, <1>5, <1>6

LEMMA PinnedFinished ==
  ASSUME Inv, NEW k \in Keys, flight[k].stage = "done", flight[k].entry # None
  PROVE  flight[k].entry \in Entries /\ entry[flight[k].entry].pins > 0
<1>1. TypeOK /\ PinsAccounted
  BY DEF Inv
<1>2. flight[k].entry \in Entries
  BY <1>1 DEF TypeOK
<1>3. k \in Finished(flight[k].entry)
  BY DEF Finished
<1>4. /\ IsFiniteSet(Finished(flight[k].entry)) /\ Cardinality(Finished(flight[k].entry)) \in Nat
      /\ Cardinality(Readers(flight[k].entry)) \in Nat
  BY <1>1, <1>2, PinCounts
<1>5. Cardinality(Finished(flight[k].entry)) # 0
  BY <1>3, <1>4, FS_EmptySet
<1>6. entry[flight[k].entry].pins
         = Cardinality(Readers(flight[k].entry)) + Cardinality(Finished(flight[k].entry))
  BY <1>1, <1>2, PinsParts
<1> QED BY <1>2, <1>4, <1>5, <1>6

\* A step that leaves the entries where they are.
LEMMA PlaceFrame ==
  ASSUME TypeOK, Apart, cache' = cache, victims' = victims, failed' = failed,
         \A k \in Keys :
            \/ /\ flight'[k].entry = flight[k].entry
               /\ flight'[k].stage = "done" => flight[k].stage = "done"
               /\ flight[k].stage = "done" => flight'[k].stage = "done"
               /\ flight[k].stage = "clean" => flight'[k].stage = "clean"
               /\ Builds(k)' => Builds(k)
               /\ Builds(k) => Builds(k)'
            \/ /\ flight'[k].entry = None
               /\ Builds(k) => flight[k].entry = None
  PROVE  Apart' /\ \A e \in Entries : e \in Tracked' <=> e \in Tracked
<1>1. \A j, k \in Keys :
         /\ j # k /\ cache'[j] = cache'[k] => cache'[k] = None
         /\ j # k /\ flight'[j].entry = flight'[k].entry => flight'[k].entry = None
         /\ flight'[j].stage # "done" /\ flight'[j].entry = cache'[k] => cache'[k] = None
  BY DEF Apart
<1>2. /\ \A d \in Deleters : \A k \in Keys :
            /\ cache'[k] \notin victims'[d]
            /\ flight'[k].stage # "clean" => flight'[k].entry \notin victims'[d]
      /\ \A k \in Keys : /\ cache'[k] \notin failed'
                         /\ flight'[k].stage # "clean" => flight'[k].entry \notin failed'
  <2>1. \A d \in Deleters : None \notin victims[d]
    BY Distinct DEF TypeOK
  <2>2. None \notin failed
    BY Distinct DEF TypeOK
  <2> QED BY <2>1, <2>2 DEF Apart
<1>3. \A e \in Entries : e \in Tracked' <=> e \in Tracked
  BY Distinct, TrackedIn, TrackedInNext
<1> QED BY <1>1, <1>2, <1>3 DEF Apart

\* A step that leaves the books alone: no entry is written, charged or lost.
LEMMA BooksFrame ==
  ASSUME TypeOK, FlightPlaces, Charged, Budget, bytes' = bytes, Tracked' = Tracked,
         \A e \in Entries : /\ entry'[e].size = entry[e].size
                            /\ entry'[e].charged = entry[e].charged,
         \A k \in Keys :
            /\ cache'[k] \in {None, cache[k]}
            /\ \/ flight'[k].stage \in {"none", "queue", "clean", "done"}
               \/ /\ flight'[k].stage = flight[k].stage
                  /\ flight'[k].entry = flight[k].entry
                  /\ flight'[k].want = flight[k].want
  PROVE  Charged' /\ Budget'
<1>1. ASSUME NEW e \in Entries
      PROVE  /\ e \in Tracked' => entry'[e].size <= entry'[e].charged
             /\ e \notin Tracked' => entry'[e].charged = 0
  BY DEF Charged
<1>2. ASSUME NEW k \in Keys
      PROVE  /\ flight'[k].stage \in {"write", "reserve"} =>
                   entry'[flight'[k].entry].charged = RoundUp(entry'[flight'[k].entry].size)
             /\ flight'[k].stage = "data" =>
                   entry'[flight'[k].entry].charged
                      = RoundUp(entry'[flight'[k].entry].size + flight'[k].want)
             /\ flight'[k].stage = "publish" /\ flight'[k].entry # None =>
                   entry'[flight'[k].entry].size = Size[k]
             /\ cache'[k] # None => entry'[cache'[k]].size = Size[k]
  <2>1. flight[k].entry \in Entries \cup {None} /\ cache[k] \in Entries \cup {None}
    BY DEF TypeOK
  <2>2. flight[k].stage \in Building => flight[k].entry # None
    BY DEF FlightPlaces
  <2>3. cache'[k] # None => entry'[cache'[k]].size = Size[k]
    BY <2>1 DEF Charged
  <2> QED BY <2>1, <2>2, <2>3 DEF Charged, Building
<1>3. Charged'
  BY <1>1, <1>2 DEF Charged
<1>4. Charges' = Charges
  BY DEF Charges
<1>5. Budget'
  BY <1>4 DEF Budget, Sum
<1> QED BY <1>3, <1>5

\* A step of a request that is no lease, no wait and no deletion.
LEMMA ReqFrame ==
  ASSUME Inv, NEW r \in Reqs,
         UNCHANGED <<phase, files, entry, cache, lru, failed, bytes, flight, victims, removed>>,
         faults' \in 0..MaxFaults, req' \in [Reqs -> ReqType],
         \A q \in Reqs \ {r} : req'[q] = req[q],
         Leasing(r)' <=> Leasing(r),
         Leasing(r) => req'[r].key = req[r].key /\ req'[r].entry = req[r].entry,
         (req'[r].step = "wait") <=> (req[r].step = "wait"),
         req[r].step = "wait" => req'[r].key = req[r].key,
         victims[r] # {} => req'[r].step = "remove",
         req'[r].step # "idle" => req'[r].key \in Keys,
         req'[r].step \in {"missing", "remove"} => req'[r].entry \in Entries
  PROVE  Inv'
<1> USE DEF Inv
<1>1. TypeOK'
  BY DEF TypeOK, ReqType
<1>2. FlightPlaces'
  BY DEF FlightPlaces
<1>3. Apart'
  BY DEF Apart
<1>4. Turns'
  BY Distinct DEF Turns
<1>5. Tracked' = Tracked
  BY DEF Tracked, InBuild, Cached, InDeletion
<1>6. Linked'
  BY <1>5 DEF Linked
<1>7. Leases'
  BY DEF Leases, Leasing
<1>8. Charged' /\ Budget'
  BY <1>5, BooksFrame
<1>9. PinsAccounted'
  <2>1. ASSUME NEW e \in Entries PROVE Readers(e)' = Readers(e)
    BY DEF Readers, Leasing
  <2> QED BY <2>1 DEF PinsAccounted, Finished, Idle, Cached
<1>10. Waits'
  <2>1. ASSUME NEW k \in Keys PROVE Waiters(k)' = Waiters(k)
    BY DEF Waiters
  <2> QED BY <2>1 DEF Waits, Waiters
<1>11. Closing'
  BY DEF Closing, Leasing
<1> QED BY <1>1, <1>2, <1>3, <1>4, <1>6, <1>7, <1>8, <1>9, <1>10, <1>11

-----------------------------------------------------------------------------
(***************************************************************************)
(* Requests                                                                *)
(***************************************************************************)

LEMMA ArriveInv ==
  ASSUME Inv, NEW r \in Reqs, NEW k \in Keys, Arrive(r, k)
  PROVE  Inv'
<1>1. TypeOK /\ Turns
  BY DEF Inv
<1>2. /\ req' = [req EXCEPT ![r].step = "lease", ![r].key = k]
      /\ req[r].step = "idle"
  BY DEF Arrive
<1>3. req \in [Reqs -> ReqType] /\ faults \in 0..MaxFaults
  BY <1>1 DEF TypeOK, ReqType
<1>5. /\ req' \in [Reqs -> ReqType] /\ \A q \in Reqs \ {r} : req'[q] = req[q]
      /\ req'[r].step = "lease" /\ req'[r].key = k
  <2> DEFINE due == [req EXCEPT ![r].step = "lease"]
  <2>1. /\ due \in [Reqs -> ReqType] /\ \A q \in Reqs \ {r} : due[q] = req[q]
        /\ due[r].step = "lease"
    BY <1>3 DEF ReqType, Steps
  <2>2. req' = [due EXCEPT ![r].key = k]
    BY <1>2
  <2> HIDE DEF due
  <2>3. /\ req' \in [Reqs -> ReqType] /\ \A q \in Reqs \ {r} : req'[q] = due[q]
        /\ req'[r].step = due[r].step /\ req'[r].key = k
    BY <2>1, <2>2 DEF ReqType
  <2> QED BY <2>1, <2>3
<1>6. victims[r] = {}
  BY <1>1, <1>2 DEF Turns
<1>7. faults' \in 0..MaxFaults
        /\ UNCHANGED <<phase, files, entry, cache, lru, failed, bytes, flight, victims, removed>>
  BY <1>3 DEF Arrive
<1> QED BY <1>2, <1>5, <1>6, <1>7, ReqFrame DEF Leasing

LEMMA DisconnectInv ==
  ASSUME Inv, NEW r \in Reqs, Disconnect(r)
  PROVE  Inv'
<1>1. TypeOK /\ Turns /\ Leases
  BY DEF Inv
<1>2. req' = [req EXCEPT ![r].gone = TRUE] /\ req[r].step \in {"lease", "wait"}
  BY DEF Disconnect
<1>3. req \in [Reqs -> ReqType] /\ faults \in 0..MaxFaults
  BY <1>1 DEF TypeOK, ReqType
<1>4. /\ req' \in [Reqs -> ReqType] /\ \A q \in Reqs \ {r} : req'[q] = req[q]
      /\ req'[r].step = req[r].step /\ req'[r].key = req[r].key
      /\ req'[r].entry = req[r].entry
  BY <1>2, <1>3 DEF ReqType
<1>5. victims[r] = {} /\ req[r].key \in Keys
  BY <1>1, <1>2 DEF Turns, Leases
<1>6. faults' \in 0..MaxFaults
        /\ UNCHANGED <<phase, files, entry, cache, lru, failed, bytes, flight, victims, removed>>
  BY <1>3 DEF Disconnect
<1> QED BY <1>2, <1>4, <1>5, <1>6, ReqFrame DEF Leasing

LEMMA LeaseFailsInv ==
  ASSUME Inv, NEW r \in Reqs, LeaseFails(r)
  PROVE  Inv'
<1>1. TypeOK /\ Turns
  BY DEF Inv
<1>2. req' = [req EXCEPT ![r] = NoReq] /\ req[r].step = "lease"
  BY DEF LeaseFails
<1>3. req \in [Reqs -> ReqType] /\ faults \in 0..MaxFaults /\ NoReq \in ReqType
  BY <1>1 DEF TypeOK, ReqType, NoReq, Steps
<1>4. /\ req' \in [Reqs -> ReqType] /\ \A q \in Reqs \ {r} : req'[q] = req[q]
      /\ req'[r].step = "idle"
  BY <1>2, <1>3 DEF NoReq
<1>5. victims[r] = {}
  BY <1>1, <1>2 DEF Turns
<1>6. faults' \in 0..MaxFaults
        /\ UNCHANGED <<phase, files, entry, cache, lru, failed, bytes, flight, victims, removed>>
  BY <1>3 DEF LeaseFails
<1> QED BY <1>2, <1>4, <1>5, <1>6, ReqFrame DEF Leasing

LEMMA OpenFileInv ==
  ASSUME Inv, NEW r \in Reqs, OpenFile(r)
  PROVE  Inv'
<1>1. TypeOK /\ Turns /\ Leases
  BY DEF Inv
<1>2. req' = [req EXCEPT ![r].step = "read"] /\ req[r].step = "open"
  BY DEF OpenFile
<1>3. req \in [Reqs -> ReqType] /\ faults \in 0..MaxFaults
  BY <1>1 DEF TypeOK, ReqType
<1>4. /\ req' \in [Reqs -> ReqType] /\ \A q \in Reqs \ {r} : req'[q] = req[q]
      /\ req'[r].step = "read" /\ req'[r].key = req[r].key
      /\ req'[r].entry = req[r].entry
  BY <1>2, <1>3 DEF ReqType, Steps
<1>5. victims[r] = {} /\ req[r].key \in Keys
  BY <1>1, <1>2 DEF Turns, Leases
<1>6. faults' \in 0..MaxFaults
        /\ UNCHANGED <<phase, files, entry, cache, lru, failed, bytes, flight, victims, removed>>
  BY <1>3 DEF OpenFile
<1> QED BY <1>2, <1>4, <1>5, <1>6, ReqFrame DEF Leasing

LEMMA TryAgainInv ==
  ASSUME Inv, NEW r \in Reqs, TryAgain(r)
  PROVE  Inv'
<1>1. TypeOK /\ Turns /\ Leases
  BY DEF Inv
<1>2. /\ req[r].step = "remove" /\ victims[r] = {}
      /\ req' = IF req[r].tries = 1 THEN [req EXCEPT ![r] = NoReq]
                ELSE [req EXCEPT ![r].step = "lease", ![r].entry = None, ![r].tries = 1]
  BY DEF TryAgain
<1>3. req \in [Reqs -> ReqType] /\ faults \in 0..MaxFaults /\ NoReq \in ReqType
  BY <1>1 DEF TypeOK, ReqType, NoReq, Steps
<1>4. req[r].key \in Keys
  BY <1>1, <1>2 DEF Leases
<1>5. faults' \in 0..MaxFaults
        /\ UNCHANGED <<phase, files, entry, cache, lru, failed, bytes, flight, victims, removed>>
  BY <1>3 DEF TryAgain
<1>6. CASE req[r].tries = 1
  <2>1. req' = [req EXCEPT ![r] = NoReq]
    BY <1>2, <1>6
  <2>2. /\ req' \in [Reqs -> ReqType] /\ \A q \in Reqs \ {r} : req'[q] = req[q]
        /\ req'[r].step = "idle"
    BY <1>3, <2>1 DEF NoReq
  <2> QED BY <1>2, <2>2, <1>5, ReqFrame DEF Leasing
<1>7. CASE req[r].tries # 1
  <2>1. req' = [req EXCEPT ![r].step = "lease", ![r].entry = None, ![r].tries = 1]
    BY <1>2, <1>7
  <2>2. /\ req' \in [Reqs -> ReqType] /\ \A q \in Reqs \ {r} : req'[q] = req[q]
        /\ req'[r].step = "lease" /\ req'[r].key = req[r].key
    <3>1. \A q \in Reqs \ {r} : req'[q] = req[q]
      BY <1>3, <2>1
    <3>2. req'[r].step = "lease" /\ req'[r].key = req[r].key
      BY <1>3, <2>1 DEF ReqType
    <3> DEFINE a == [req EXCEPT ![r].step = "lease", ![r].entry = None]
               b == [a EXCEPT ![r].tries = 1]
    <3>3. a \in [Reqs -> ReqType]
      BY <1>3 DEF ReqType, Steps
    <3>4. b \in [Reqs -> ReqType]
      <4> HIDE DEF a
      <4> QED BY <3>3 DEF ReqType
    <3>5. req' = b
      BY <2>1
    <3> QED BY <3>1, <3>2, <3>4, <3>5
  <2> QED BY <1>2, <1>4, <1>5, <2>2, ReqFrame DEF Leasing
<1> QED BY <1>6, <1>7

-----------------------------------------------------------------------------
(***************************************************************************)
(* Deletions                                                               *)
(***************************************************************************)

RemovedType == [entry : Entries \cup {None}, ok : BOOLEAN]

\* A file may vanish, and a goroutine may learn so of one of its victims.
LEMMA VanishFrame ==
  ASSUME Inv, UNCHANGED <<phase, entry, cache, lru, failed, bytes, flight, req, victims>>,
         files' \subseteq files, faults' \in 0..MaxFaults,
         removed' \in [Deleters -> RemovedType],
         \A d \in Deleters :
            /\ removed'[d] = NotYet \/ removed'[d].entry \in victims[d]
            /\ removed'[d].ok => removed'[d].entry \notin files'
  PROVE  Inv'
<1> USE DEF Inv
<1>1. TypeOK'
  BY DEF TypeOK, RemovedType
<1>2. FlightPlaces' /\ Apart'
  BY DEF FlightPlaces, Apart
<1>3. Turns'
  BY DEF Turns
<1>4. Tracked' = Tracked
  BY DEF Tracked, InBuild, Cached, InDeletion
<1>5. Linked' /\ Leases'
  BY <1>4 DEF Linked, Leases
<1>6. Charged' /\ Budget'
  BY <1>4, BooksFrame
<1>7. PinsAccounted'
  BY DEF PinsAccounted, Readers, Finished, Idle, Cached
<1>8. Waits' /\ Closing'
  BY DEF Waits, Closing
<1> QED BY <1>1, <1>2, <1>3, <1>5, <1>6, <1>7, <1>8

LEMMA RemoveInv ==
  ASSUME Inv, NEW d \in Deleters, Remove(d)
  PROVE  Inv'
<1>1. TypeOK /\ Turns
  BY DEF Inv
<1>2. PICK e \in victims[d] :
         /\ removed' = [removed EXCEPT ![d] = [entry |-> e, ok |-> TRUE]]
         /\ files' = files \ {e}
  BY DEF Remove
<1>3. e \in Entries /\ removed \in [Deleters -> RemovedType] /\ faults \in 0..MaxFaults
  BY <1>1 DEF TypeOK, RemovedType
<1>4. /\ removed' \in [Deleters -> RemovedType]
      /\ removed'[d] = [entry |-> e, ok |-> TRUE]
      /\ \A c \in Deleters \ {d} : removed'[c] = removed[c]
  BY <1>2, <1>3 DEF RemovedType
<1>5. \A c \in Deleters :
         /\ removed'[c] = NotYet \/ removed'[c].entry \in victims[c]
         /\ removed'[c].ok => removed'[c].entry \notin files'
  BY <1>1, <1>2, <1>4 DEF Turns
<1> QED BY <1>2, <1>3, <1>4, <1>5, VanishFrame DEF Remove

LEMMA RemoveFailsInv ==
  ASSUME Inv, NEW d \in Deleters, RemoveFails(d)
  PROVE  Inv'
<1>1. TypeOK /\ Turns
  BY DEF Inv
<1>2. PICK e \in victims[d] \cap files :
         removed' = [removed EXCEPT ![d] = [entry |-> e, ok |-> FALSE]]
  BY DEF RemoveFails
<1>3. e \in Entries /\ removed \in [Deleters -> RemovedType] /\ faults' \in 0..MaxFaults
  BY <1>1, ZstdAssumption DEF TypeOK, RemovedType, RemoveFails, Fault
<1>4. /\ removed' \in [Deleters -> RemovedType]
      /\ removed'[d] = [entry |-> e, ok |-> FALSE]
      /\ \A c \in Deleters \ {d} : removed'[c] = removed[c]
  BY <1>2, <1>3 DEF RemovedType
<1>5. \A c \in Deleters :
         /\ removed'[c] = NotYet \/ removed'[c].entry \in victims[c]
         /\ removed'[c].ok => removed'[c].entry \notin files
  BY <1>1, <1>2, <1>4 DEF Turns
<1> QED BY <1>3, <1>4, <1>5, VanishFrame DEF RemoveFails

LEMMA ReapInv ==
  ASSUME Inv, Reap
  PROVE  Inv'
<1>1. TypeOK /\ Turns
  BY DEF Inv
<1>2. files' \subseteq files /\ faults' \in 0..MaxFaults /\ removed' = removed
  BY <1>1, ZstdAssumption DEF TypeOK, Reap, Fault
<1>3. removed' \in [Deleters -> RemovedType]
  BY <1>1, <1>2 DEF TypeOK, RemovedType
<1>4. \A c \in Deleters :
         /\ removed'[c] = NotYet \/ removed'[c].entry \in victims[c]
         /\ removed'[c].ok => removed'[c].entry \notin files'
  BY <1>1, <1>2 DEF Turns
<1> QED BY <1>2, <1>3, <1>4, VanishFrame DEF Reap

LEMMA AccountInv ==
  ASSUME Inv, NEW d \in Deleters, Account(d)
  PROVE  Inv'
<1> USE DEF Inv
<1> DEFINE e      == removed[d].entry
           charge == IF removed[d].ok THEN entry[e].charged ELSE 0
<1>1. /\ entry \in [Entries -> EntryType] /\ failed \subseteq Entries /\ bytes \in Nat
      /\ victims \in [Deleters -> SUBSET Entries] /\ removed \in [Deleters -> RemovedType]
  BY DEF TypeOK, EntryType, RemovedType
<1>2. e \in victims[d] /\ e \in Entries
  BY <1>1 DEF Turns, Account
<1>3. charge \in Nat /\ charge <= entry[e].charged /\ entry[e].charged \in Nat
  BY <1>1, <1>2 DEF EntryType
<1>4. /\ failed' = IF removed[d].ok THEN failed \ {e} ELSE failed \cup {e}
      /\ bytes' = bytes - charge
      /\ entry' = [entry EXCEPT ![e].charged = @ - charge]
      /\ victims' = [victims EXCEPT ![d] = @ \ {e}]
      /\ removed' = [removed EXCEPT ![d] = NotYet]
      /\ UNCHANGED <<phase, files, cache, lru, flight, req, faults>>
  BY DEF Account
<1> HIDE DEF e, charge
<1>5. /\ entry' \in [Entries -> EntryType]
      /\ entry'[e].charged = entry[e].charged - charge
      /\ \A x \in Entries : /\ entry'[x].size = entry[x].size
                            /\ entry'[x].pins = entry[x].pins
                            /\ x # e => entry'[x].charged = entry[x].charged
  BY <1>1, <1>2, <1>3, <1>4 DEF EntryType
<1>6. /\ victims' \in [Deleters -> SUBSET Entries] /\ victims'[d] = victims[d] \ {e}
      /\ \A c \in Deleters \ {d} : victims'[c] = victims[c]
  BY <1>1, <1>4
<1>7. /\ removed' \in [Deleters -> RemovedType] /\ removed'[d] = NotYet
      /\ \A c \in Deleters \ {d} : removed'[c] = removed[c]
  BY <1>1, <1>4 DEF RemovedType, NotYet
\* The deleted entry was in one place only.
<1>8. /\ e \notin failed /\ \A c \in Deleters \ {d} : e \notin victims[c]
      /\ \A k \in Keys : cache[k] # e /\ ~(Builds(k) /\ flight[k].entry = e)
  BY <1>2 DEF Apart, Builds, Building
<1>9. failed' \subseteq Entries /\ (failed' = failed \/ failed' = failed \cup {e})
  BY <1>1, <1>2, <1>4, <1>8
<1>10. \A x \in Entries : x \in Tracked' <=> (x \in Tracked /\ ~(x = e /\ removed[d].ok))
  <2> SUFFICES ASSUME NEW x \in Entries
               PROVE  x \in Tracked' <=> (x \in Tracked /\ ~(x = e /\ removed[d].ok))
    OBVIOUS
  <2>1. \A k \in Keys : (Builds(k)' <=> Builds(k)) /\ cache'[k] = cache[k] /\ flight'[k] = flight[k]
    BY <1>4 DEF Builds
  <2>2. CASE x # e
    <3>1. x \in failed' <=> x \in failed
      BY <1>4, <2>2
    <3>2. \A c \in Deleters : x \in victims'[c] <=> x \in victims[c]
      BY <1>6, <2>2
    <3> QED BY <2>1, <2>2, <3>1, <3>2, TrackedIn, TrackedInNext
  <2>3. CASE x = e
    <3>1. x \in Tracked
      BY <1>2, <2>3, TrackedIn
    <3>2. x \in failed' <=> ~removed[d].ok
      BY <1>4, <1>8, <2>3
    <3>3. \A c \in Deleters : x \notin victims'[c]
      BY <1>6, <1>8, <2>3
    <3> QED BY <1>2, <1>8, <2>1, <2>3, <3>1, <3>2, <3>3, TrackedInNext
  <2> QED BY <2>2, <2>3
<1>11. Sum(Entries, Charges) = Sum(Entries, Charges') + charge
  <2>1. /\ Charges \in [Entries -> Nat] /\ Charges' \in [Entries -> Nat]
        /\ Charges[e] = Charges'[e] + charge
        /\ \A x \in Entries \ {e} : Charges[x] = Charges'[x]
    BY <1>1, <1>2, <1>3, <1>5 DEF Charges, EntryType
  <2> QED BY <1>2, <1>3, <2>1, SumMore
<1>12. Budget' /\ bytes' \in Nat
  <2>1. Sum(Entries, Charges') \in Nat
    <3>1. Charges' \in [Entries -> Nat]
      BY <1>5 DEF Charges, EntryType
    <3> QED BY <3>1, SumMono
  <2>2. bytes' = Sum(Entries, Charges')
    BY <1>1, <1>3, <1>4, <1>11, <2>1 DEF Budget
  <2>3. Limit \in Nat
    BY ZstdAssumption
  <2>4. Sum(Entries, Charges)' = Sum(Entries, Charges')
    BY DEF Sum
  <2> QED BY <1>1, <1>3, <1>4, <2>1, <2>2, <2>3, <2>4 DEF Budget
<1>13. TypeOK'
  BY <1>4, <1>5, <1>6, <1>7, <1>9, <1>12 DEF TypeOK, EntryType, RemovedType
<1>14. FlightPlaces' /\ Leases' /\ Waits' /\ Closing'
  BY <1>4 DEF FlightPlaces, Leases, Waits, Closing
<1>15. Apart'
  <2>1. \A j, k \in Keys :
          /\ j # k /\ cache'[j] = cache'[k] => cache'[k] = None
          /\ j # k /\ flight'[j].entry = flight'[k].entry => flight'[k].entry = None
          /\ flight'[j].stage # "done" /\ flight'[j].entry = cache'[k] => cache'[k] = None
    BY <1>4 DEF Apart
  <2>2. \A c \in Deleters : victims'[c] \subseteq victims[c]
    BY <1>6
  <2>3. \A c \in Deleters : \A k \in Keys :
          /\ cache'[k] \notin victims'[c]
          /\ flight'[k].stage # "clean" => flight'[k].entry \notin victims'[c]
    BY <1>4, <2>2 DEF Apart
  <2>4. \A k \in Keys : /\ cache'[k] \notin failed'
                        /\ flight'[k].stage # "clean" => flight'[k].entry \notin failed'
    BY <1>2, <1>4, <1>9 DEF Apart
  <2>5. \A c \in Deleters : victims'[c] \cap failed' = {}
    BY <1>6, <1>8, <1>9 DEF Apart
  <2>6. \A b, c \in Deleters : b # c => victims'[b] \cap victims'[c] = {}
    BY <2>2 DEF Apart
  <2> QED BY <2>1, <2>3, <2>4, <2>5, <2>6 DEF Apart
<1>16. Turns'
  <2>1. \A c \in Deleters : victims'[c] # {} => victims[c] # {}
    BY <1>6
  <2>2. \A c \in Deleters : /\ removed'[c] = NotYet \/ removed'[c].entry \in victims'[c]
                            /\ removed'[c].ok => removed'[c].entry \notin files'
    BY <1>4, <1>6, <1>7 DEF Turns, NotYet
  <2> QED BY <1>4, <2>1, <2>2, Distinct DEF Turns
<1>17. Linked'
  <2>1. removed[d].ok => e \notin files
    BY DEF Turns, e
  <2>2. files \subseteq Entries
    BY DEF TypeOK
  <2> QED BY <1>4, <1>10, <2>1, <2>2 DEF Linked
<1>18. Charged'
  <2>1. ASSUME NEW x \in Entries
        PROVE  /\ x \in Tracked' => entry'[x].size <= entry'[x].charged
               /\ x \notin Tracked' => entry'[x].charged = 0
    <3>1. CASE x # e
      BY <1>5, <1>10, <3>1 DEF Charged
    <3>2. CASE x = e /\ removed[d].ok
      <4>1. charge = entry[e].charged
        BY <3>2 DEF charge
      <4> QED BY <1>3, <1>5, <1>10, <3>2, <4>1
    <3>3. CASE x = e /\ ~removed[d].ok
      <4>1. charge = 0 /\ e \in Tracked
        BY <1>2, <3>3, TrackedIn DEF charge
      <4> QED BY <1>2, <1>3, <1>5, <1>10, <3>3, <4>1 DEF Charged
    <3> QED BY <3>1, <3>2, <3>3
  <2>2. ASSUME NEW k \in Keys
        PROVE  /\ flight'[k] = flight[k] /\ cache'[k] = cache[k]
               /\ flight[k].stage \in Building \cup {"publish"} => flight[k].entry # e
               /\ cache[k] # e
               /\ flight[k].entry \in Entries \cup {None} /\ cache[k] \in Entries \cup {None}
               /\ flight[k].stage \in Building => flight[k].entry # None
    BY <1>4, <1>8 DEF Builds, TypeOK, FlightPlaces
  <2>3. ASSUME NEW k \in Keys
        PROVE  /\ flight'[k].stage \in {"write", "reserve"} =>
                     entry'[flight'[k].entry].charged = RoundUp(entry'[flight'[k].entry].size)
               /\ flight'[k].stage = "data" =>
                     entry'[flight'[k].entry].charged
                        = RoundUp(entry'[flight'[k].entry].size + flight'[k].want)
               /\ flight'[k].stage = "publish" /\ flight'[k].entry # None =>
                     entry'[flight'[k].entry].size = Size[k]
               /\ cache'[k] # None => entry'[cache'[k]].size = Size[k]
    BY <1>5, <2>2 DEF Charged, Building
  <2> QED BY <2>1, <2>3 DEF Charged
<1>19. PinsAccounted'
  <2>1. \A x \in Entries : Readers(x)' = Readers(x) /\ Finished(x)' = Finished(x)
    BY <1>4 DEF Readers, Finished
  <2>2. Cached' = Cached /\ Cached \subseteq Entries
    BY <1>4 DEF Cached, TypeOK
  <2>3. Idle' = {x \in Cached' : entry'[x].pins = 0}
    BY <1>4, <1>5, <2>2 DEF PinsAccounted, Idle
  <2> QED BY <1>4, <1>5, <2>1, <2>3 DEF PinsAccounted
<1> QED BY <1>12, <1>13, <1>14, <1>15, <1>16, <1>17, <1>18, <1>19

-----------------------------------------------------------------------------
(***************************************************************************)
(* Pins                                                                    *)
(***************************************************************************)

LEMMA RepinFacts ==
  ASSUME Inv, NEW e \in Entries, NEW n \in Int, entry[e].pins + n \in Nat, Repin(e, n)
  PROVE  /\ entry' \in [Entries -> EntryType] /\ entry'[e].pins = entry[e].pins + n
         /\ \A x \in Entries : /\ entry'[x].size = entry[x].size
                               /\ entry'[x].charged = entry[x].charged
                               /\ x # e => entry'[x].pins = entry[x].pins
         /\ lru' \in Seq(Entries) /\ Injective(lru')
         /\ Elements(lru') = IF entry[e].pins + n = 0 THEN Elements(lru) \cup {e}
                                                      ELSE Elements(lru) \ {e}
<1>1. /\ entry \in [Entries -> EntryType] /\ lru \in Seq(Entries) /\ Injective(lru)
  BY PinsParts DEF Inv, TypeOK, EntryType, IdleRight
<1>2. entry' = [entry EXCEPT ![e].pins = @ + n]
  BY DEF Repin
<1>3. /\ entry' \in [Entries -> EntryType] /\ entry'[e].pins = entry[e].pins + n
      /\ \A x \in Entries : /\ entry'[x].size = entry[x].size
                            /\ entry'[x].charged = entry[x].charged
                            /\ x # e => entry'[x].pins = entry[x].pins
  BY <1>1, <1>2 DEF EntryType
<1>4. /\ Without(lru, e) \in Seq(Entries) /\ Injective(Without(lru, e))
      /\ Elements(Without(lru, e)) = Elements(lru) \ {e}
  BY <1>1, WithoutFacts
<1>5. CASE entry[e].pins + n = 0
  <2>1. lru' = Append(Without(lru, e), e)
    BY <1>5 DEF Repin
  <2>2. e \in Entries \ Elements(Without(lru, e))
    BY <1>4
  <2>3. /\ lru' \in Seq(Entries) /\ Injective(lru')
        /\ Elements(lru') = Elements(Without(lru, e)) \cup {e}
    BY <1>4, <2>1, <2>2, AppendFacts
  <2> QED BY <1>3, <1>4, <1>5, <2>3
<1>6. CASE entry[e].pins + n # 0
  <2>1. lru' = Without(lru, e)
    BY <1>6 DEF Repin
  <2> QED BY <1>3, <1>4, <1>6, <2>1
<1> QED BY <1>5, <1>6

\* The idle list stays right when an entry that is, or becomes, cached is repinned.
LEMMA RepinIdle ==
  ASSUME Inv, NEW e \in Entries, NEW n \in Int, entry[e].pins + n \in Nat, Repin(e, n),
         \A x \in Entries : x \in Cached' <=> (x \in Cached \/ x = e),
         cache' \in [Keys -> Entries \cup {None}]
  PROVE  IdleRight'
<1>1. /\ entry'[e].pins = entry[e].pins + n
      /\ \A x \in Entries : x # e => entry'[x].pins = entry[x].pins
      /\ lru' \in Seq(Entries) /\ Injective(lru')
      /\ Elements(lru') = IF entry[e].pins + n = 0 THEN Elements(lru) \cup {e}
                                                   ELSE Elements(lru) \ {e}
  BY RepinFacts
<1>2. Elements(lru) = {x \in Cached : entry[x].pins = 0} /\ Idle' = Elements(lru')
  BY PinsParts DEF Inv, IdleRight, Idle, Elements
<1>3. Cached \subseteq Entries /\ Cached' \subseteq Entries
  BY DEF Inv, TypeOK, Cached
<1>4. Idle' = {x \in Cached' : entry'[x].pins = 0}
  BY <1>1, <1>2, <1>3
<1>5. Injective(lru)'
  BY <1>1 DEF Injective
<1> QED BY <1>4, <1>5 DEF IdleRight

LEMMA PinsPartsNext ==
  ASSUME \A e \in Entries :
            entry'[e].pins = Cardinality(Readers(e)') + Cardinality(Finished(e)'),
         IdleRight'
  PROVE  PinsAccounted'
BY DEF PinsAccounted, IdleRight, Injective

LEMMA CountAdd ==
  ASSUME NEW S, IsFiniteSet(S), NEW x, x \notin S
  PROVE  Cardinality(S \cup {x}) = Cardinality(S) + 1
BY FS_AddElement

LEMMA CountDrop ==
  ASSUME NEW S, IsFiniteSet(S), NEW x \in S
  PROVE  Cardinality(S \ {x}) = Cardinality(S) - 1 /\ Cardinality(S) \in Nat \ {0}
<1>1. Cardinality(S \ {x}) = Cardinality(S) - 1
  BY FS_RemoveElement
<1>2. Cardinality(S) \in Nat /\ Cardinality(S) # 0
  BY FS_CardinalityType, FS_EmptySet
<1> QED BY <1>1, <1>2

LEMMA WaitersFinite ==
  ASSUME NEW k
  PROVE  IsFiniteSet(Waiters(k)) /\ Cardinality(Waiters(k)) \in Nat
<1>1. Waiters(k) \subseteq Reqs
  BY DEF Waiters
<1> QED BY <1>1, ZstdAssumption, FS_Subset, FS_CardinalityType

\* A step of one lease: the pins of its entry, its request, nothing else.
LEMMA LeaseFrame ==
  ASSUME Inv, NEW r \in Reqs, NEW e \in Entries, NEW n \in Int, entry[e].pins + n \in Nat,
         Repin(e, n), \E k \in Keys : cache[k] = e,
         UNCHANGED <<phase, files, cache, failed, bytes, flight, victims, removed>>,
         faults' \in 0..MaxFaults, req' \in [Reqs -> ReqType],
         \A q \in Reqs \ {r} : req'[q] = req[q],
         req[r].step # "wait", req'[r].step # "wait", victims[r] = {},
         req'[r].step # "idle" => req'[r].key \in Keys,
         req'[r].step \in {"missing", "remove"} => req'[r].entry \in Entries,
         Leasing(r)' => req'[r].entry = e /\ cache[req'[r].key] = e /\ ~Closed,
         \A x \in Entries : entry'[x].pins = Cardinality(Readers(x)') + Cardinality(Finished(x))
  PROVE  Inv'
<1> USE DEF Inv
<1>1. /\ entry' \in [Entries -> EntryType] /\ lru' \in Seq(Entries)
      /\ \A x \in Entries : /\ entry'[x].size = entry[x].size
                            /\ entry'[x].charged = entry[x].charged
  BY RepinFacts
<1>2. TypeOK'
  BY <1>1 DEF TypeOK, ReqType, EntryType
<1>3. FlightPlaces' /\ Apart'
  BY DEF FlightPlaces, Apart
<1>4. Turns'
  BY Distinct DEF Turns
<1>5. Tracked' = Tracked /\ Cached' = Cached
  BY DEF Tracked, InBuild, Cached, InDeletion
<1>6. Linked'
  BY <1>5 DEF Linked
<1>7. Leases'
  BY DEF Leases, Leasing
<1>8. Charged' /\ Budget'
  BY <1>1, <1>5, BooksFrame
<1>9. PinsAccounted'
  <2>1. \A x \in Entries : x \in Cached' <=> (x \in Cached \/ x = e)
    BY <1>5, CachedIn
  <2>2. cache' \in [Keys -> Entries \cup {None}]
    BY DEF TypeOK
  <2>3. IdleRight'
    BY <2>1, <2>2, RepinIdle
  <2>4. \A x \in Entries : Finished(x)' = Finished(x)
    BY DEF Finished
  <2> QED BY <2>3, <2>4, PinsPartsNext
<1>10. Waits'
  <2>1. ASSUME NEW k \in Keys PROVE Waiters(k)' = Waiters(k)
    BY DEF Waiters
  <2> QED BY <2>1 DEF Waits, Waiters
<1>11. Closing'
  BY DEF Closing, Leasing, Closed
<1> QED BY <1>2, <1>3, <1>4, <1>6, <1>7, <1>8, <1>9, <1>10, <1>11

\* A request that leased an entry opens it.
LEMMA ReqOpens ==
  ASSUME req \in [Reqs -> ReqType], NEW r \in Reqs, NEW e \in Entries,
         req' = [req EXCEPT ![r].step = "open", ![r].entry = e]
  PROVE  /\ req' \in [Reqs -> ReqType] /\ \A q \in Reqs \ {r} : req'[q] = req[q]
         /\ req'[r].step = "open" /\ req'[r].entry = e /\ req'[r].key = req[r].key
<1> DEFINE opened == [req EXCEPT ![r].step = "open"]
<1>1. opened \in [Reqs -> ReqType] /\ \A q \in Reqs \ {r} : opened[q] = req[q]
  BY DEF ReqType, Steps
<1>2. opened[r].step = "open" /\ opened[r].key = req[r].key
  BY DEF ReqType
<1>3. req' = [opened EXCEPT ![r].entry = e]
  OBVIOUS
<1> HIDE DEF opened
<1>4. \A q \in Reqs \ {r} : req'[q] = opened[q]
  BY <1>1, <1>3
<1>5. /\ req'[r] \in ReqType
      /\ req'[r].step = opened[r].step /\ req'[r].entry = e /\ req'[r].key = opened[r].key
  <2>1. req'[r] = [opened[r] EXCEPT !.entry = e]
    BY <1>1, <1>3
  <2>2. opened[r] \in ReqType
    BY <1>1
  <2> QED BY <2>1, <2>2 DEF ReqType
<1>6. req' \in [Reqs -> ReqType]
  <2>1. DOMAIN req' = Reqs /\ req' = [q \in Reqs |-> req'[q]]
    BY <1>1, <1>3
  <2> QED BY <1>1, <1>4, <1>5, <2>1
<1> QED BY <1>1, <1>2, <1>4, <1>5, <1>6

LEMMA LeaseHitInv ==
  ASSUME Inv, NEW r \in Reqs, LeaseHit(r)
  PROVE  Inv'
<1> USE DEF Inv
<1> DEFINE k == req[r].key
           e == cache[k]
<1>1. /\ req[r].step = "lease" /\ ~Closed /\ e # None /\ Repin(e, 1)
      /\ req' = [req EXCEPT ![r].step = "open", ![r].entry = e]
      /\ UNCHANGED <<phase, files, cache, failed, bytes, flight, victims, removed, faults>>
  BY DEF LeaseHit
<1>2. /\ req \in [Reqs -> ReqType] /\ cache \in [Keys -> Entries \cup {None}]
      /\ entry \in [Entries -> EntryType] /\ faults \in 0..MaxFaults
  BY DEF TypeOK, ReqType, EntryType
<1>3. k \in Keys /\ e \in Entries
  BY <1>1, <1>2 DEF Leases
<1>4. entry[e].pins + 1 \in Nat /\ entry[e].pins \in Nat
  BY <1>2, <1>3 DEF EntryType
<1> HIDE DEF e
<1>5. /\ req' \in [Reqs -> ReqType] /\ \A q \in Reqs \ {r} : req'[q] = req[q]
      /\ req'[r].step = "open" /\ req'[r].entry = e /\ req'[r].key = k
  <2> HIDE DEF k
  <2>1. k = req[r].key
    BY DEF k
  <2> QED BY <1>1, <1>2, <1>3, <2>1, ReqOpens
<1>6. victims[r] = {}
  BY <1>1 DEF Turns
<1>7. /\ entry'[e].pins = entry[e].pins + 1
      /\ \A x \in Entries : x # e => entry'[x].pins = entry[x].pins
  BY <1>1, <1>3, <1>4, RepinFacts
<1>8. ASSUME NEW x \in Entries
      PROVE  entry'[x].pins = Cardinality(Readers(x)') + Cardinality(Finished(x))
  <2>1. /\ entry[x].pins = Cardinality(Readers(x)) + Cardinality(Finished(x))
        /\ IsFiniteSet(Readers(x)) /\ Cardinality(Readers(x)) \in Nat
        /\ Cardinality(Finished(x)) \in Nat
    BY PinsParts, PinCounts
  <2>2. r \notin Readers(x)
    BY <1>1 DEF Readers
  <2>3. CASE x = e
    <3>1. Readers(x)' = Readers(x) \cup {r}
      BY <1>5, <2>3 DEF Readers
    <3>2. Cardinality(Readers(x)') = Cardinality(Readers(x)) + 1
      BY <2>1, <2>2, <3>1, CountAdd
    <3> QED BY <1>4, <1>7, <2>1, <2>3, <3>2
  <2>4. CASE x # e
    <3>1. Readers(x)' = Readers(x)
      BY <1>1, <1>5, <2>4 DEF Readers
    <3> QED BY <1>7, <2>1, <2>4, <3>1
  <2> QED BY <2>3, <2>4
<1> QED BY <1>1, <1>2, <1>3, <1>4, <1>5, <1>6, <1>8, LeaseFrame DEF e

\* A lease is given up; the request ends or goes on without it.
LEMMA CloseLeaseInv ==
  ASSUME Inv, NEW r \in Reqs, Leasing(r), CloseLease(r), faults' \in 0..MaxFaults,
         \/ req' = [req EXCEPT ![r] = NoReq]
         \/ req' = [req EXCEPT ![r].step = "missing"]
  PROVE  Inv'
<1> USE DEF Inv
<1> DEFINE e == req[r].entry
           k == req[r].key
<1>1. /\ Repin(e, -1)
      /\ UNCHANGED <<phase, files, cache, failed, bytes, flight, victims, removed>>
  BY DEF CloseLease
<1>2. req \in [Reqs -> ReqType] /\ entry \in [Entries -> EntryType]
  BY DEF TypeOK, ReqType, EntryType
<1>3. k \in Keys /\ cache[k] = e /\ e \in Entries /\ entry[e].pins > 0
  BY PinnedReader DEF Leases, Leasing
<1>4. entry[e].pins \in Nat /\ entry[e].pins + (-1) = entry[e].pins - 1
      /\ entry[e].pins + (-1) \in Nat
  BY <1>2, <1>3 DEF EntryType
<1>5. /\ req' \in [Reqs -> ReqType] /\ \A q \in Reqs \ {r} : req'[q] = req[q]
      /\ req'[r].step \in {"idle", "missing"}
      /\ req'[r].step = "missing" => req'[r].key = k /\ req'[r].entry = e
  <2>1. CASE req' = [req EXCEPT ![r] = NoReq]
    <3>1. NoReq \in ReqType /\ NoReq.step = "idle"
      BY DEF NoReq, ReqType, Steps
    <3> QED BY <1>2, <2>1, <3>1
  <2>2. CASE req' = [req EXCEPT ![r].step = "missing"]
    BY <1>2, <2>2 DEF ReqType, Steps
  <2> QED BY <2>1, <2>2
<1> HIDE DEF e, k
<1>6. victims[r] = {} /\ req[r].step # "wait" /\ ~Leasing(r)'
  BY <1>5 DEF Turns, Leasing
<1>7. /\ entry'[e].pins = entry[e].pins - 1
      /\ \A x \in Entries : x # e => entry'[x].pins = entry[x].pins
  BY <1>1, <1>3, <1>4, RepinFacts
<1>8. ASSUME NEW x \in Entries
      PROVE  entry'[x].pins = Cardinality(Readers(x)') + Cardinality(Finished(x))
  <2>1. /\ entry[x].pins = Cardinality(Readers(x)) + Cardinality(Finished(x))
        /\ IsFiniteSet(Readers(x)) /\ Cardinality(Readers(x)) \in Nat
        /\ Cardinality(Finished(x)) \in Nat
    BY PinsParts, PinCounts
  <2>2. CASE x = e
    <3>1. r \in Readers(x) /\ Readers(x)' = Readers(x) \ {r}
      BY <1>5, <1>6, <2>2 DEF Readers, Leasing, e
    <3>2. Cardinality(Readers(x)') = Cardinality(Readers(x)) - 1
      BY <2>1, <3>1, CountDrop
    <3> QED BY <1>4, <1>7, <2>1, <2>2, <3>2
  <2>3. CASE x # e
    <3>1. Readers(x)' = Readers(x)
      BY <1>5, <1>6, <2>3 DEF Readers, Leasing, e
    <3> QED BY <1>7, <2>1, <2>3, <3>1
  <2> QED BY <2>2, <2>3
<1>9. \E j \in Keys : cache[j] = e
  BY <1>3
<1> QED BY <1>1, <1>3, <1>4, <1>5, <1>6, <1>8, <1>9, LeaseFrame

LEMMA FileStepInv ==
  ASSUME Inv, NEW r \in Reqs, FileStep(r)
  PROVE  Inv'
<1>1. faults \in 0..MaxFaults
  BY DEF Inv, TypeOK
<1>2. CASE OpenFile(r)
  BY <1>2, OpenFileInv
<1>3. CASE OpenFails(r)
  <2>1. faults' \in 0..MaxFaults
    BY <1>1, <1>3, ZstdAssumption DEF OpenFails, Fault
  <2> QED BY <1>3, <2>1, CloseLeaseInv DEF OpenFails, Leasing
<1>4. CASE FileMissing(r)
  BY <1>1, <1>4, CloseLeaseInv DEF FileMissing, Leasing
<1>5. CASE Served(r)
  BY <1>1, <1>5, CloseLeaseInv DEF Served, Leasing
<1> QED BY <1>2, <1>3, <1>4, <1>5 DEF FileStep

\* A request joins the flight of its NAR, or starts one.
LEMMA LeaseWaitInv ==
  ASSUME Inv, NEW r \in Reqs, LeaseWait(r)
  PROVE  Inv'
<1> USE DEF Inv
<1> DEFINE k == req[r].key
<1>1. /\ req[r].step = "lease" /\ ~Closed /\ cache[k] = None
      /\ flight' = [flight EXCEPT ![k].waiters = @ + 1,
                                  ![k].stage = IF @ = "none" THEN "queue" ELSE @]
      /\ req' = [req EXCEPT ![r].step = "wait"]
      /\ UNCHANGED <<phase, files, entry, cache, lru, failed, bytes, victims, removed, faults>>
  BY DEF LeaseWait
<1>2. /\ req \in [Reqs -> ReqType] /\ flight \in [Keys -> FlightType]
  BY DEF TypeOK, ReqType, FlightType
<1>3. k \in Keys
  BY <1>1 DEF Leases
<1>4. /\ req' \in [Reqs -> ReqType] /\ \A q \in Reqs \ {r} : req'[q] = req[q]
      /\ req'[r].step = "wait" /\ req'[r].key = k
  BY <1>1, <1>2, <1>3 DEF ReqType, Steps
<1>5. /\ flight' \in [Keys -> FlightType]
      /\ flight'[k].waiters = flight[k].waiters + 1
      /\ flight'[k].stage = IF flight[k].stage = "none" THEN "queue" ELSE flight[k].stage
      /\ flight'[k].entry = flight[k].entry /\ flight'[k].want = flight[k].want
      /\ \A j \in Keys \ {k} : flight'[j] = flight[j]
  <2> HIDE DEF k
  <2> DEFINE stage  == IF flight[k].stage = "none" THEN "queue" ELSE flight[k].stage
             joined == [flight EXCEPT ![k].waiters = @ + 1]
  <2>1. /\ joined \in [Keys -> FlightType] /\ \A j \in Keys \ {k} : joined[j] = flight[j]
        /\ joined[k].waiters = flight[k].waiters + 1 /\ joined[k].stage = flight[k].stage
        /\ joined[k].entry = flight[k].entry /\ joined[k].want = flight[k].want
    BY <1>2, <1>3 DEF FlightType
  <2>2. stage \in Stages
    BY <1>2, <1>3 DEF FlightType, Stages
  <2>3. flight' = [joined EXCEPT ![k].stage = stage]
    BY <1>1, <1>2, <1>3 DEF FlightType
  <2> HIDE DEF joined, stage
  <2>4. /\ flight' \in [Keys -> FlightType] /\ \A j \in Keys \ {k} : flight'[j] = joined[j]
        /\ flight'[k].waiters = joined[k].waiters /\ flight'[k].stage = stage
        /\ flight'[k].entry = joined[k].entry /\ flight'[k].want = joined[k].want
    BY <1>3, <2>1, <2>2, <2>3 DEF FlightType
  <2> QED BY <2>1, <2>4 DEF stage
<1> HIDE DEF k
<1>6. \A j \in Keys : /\ flight'[j].entry = flight[j].entry /\ flight'[j].want = flight[j].want
                      /\ \/ flight'[j].stage = flight[j].stage
                         \/ flight'[j].stage = "queue" /\ flight[j].stage = "none" /\ j = k
  BY <1>5
<1>7. TypeOK'
  BY <1>1, <1>4, <1>5 DEF TypeOK, ReqType, FlightType
<1>8. FlightPlaces'
  <2> SUFFICES ASSUME NEW j \in Keys
               PROVE  /\ flight'[j].stage \in Building \cup {"clean"} => flight'[j].entry # None
                      /\ flight'[j].stage \in {"none", "queue"} => flight'[j].entry = None
                      /\ flight'[j].stage # "none" =>
                            cache'[j] = IF flight'[j].stage = "done" THEN flight'[j].entry ELSE None
    BY DEF FlightPlaces
  <2>1. CASE j # k
    BY <1>1, <1>5, <2>1 DEF FlightPlaces
  <2>2. CASE j = k /\ flight[k].stage # "none"
    BY <1>1, <1>3, <1>5, <2>2 DEF FlightPlaces
  <2>3. CASE j = k /\ flight[k].stage = "none"
    <3>1. flight[k].entry = None
      BY <1>3, <2>3 DEF FlightPlaces
    <3> QED BY <1>1, <1>5, <2>3, <3>1 DEF Building
  <2> QED BY <2>1, <2>2, <2>3
<1>9. Apart' /\ \A e \in Entries : e \in Tracked' <=> e \in Tracked
  <2>1. \A j \in Keys :
            /\ flight'[j].entry = flight[j].entry
            /\ flight'[j].stage = "done" => flight[j].stage = "done"
            /\ flight[j].stage = "done" => flight'[j].stage = "done"
            /\ flight[j].stage = "clean" => flight'[j].stage = "clean"
            /\ Builds(j)' => Builds(j)
            /\ Builds(j) => Builds(j)'
    BY <1>6 DEF Builds, Building
  <2> QED BY <1>1, <2>1, PlaceFrame
<1>10. Turns'
  <2>1. victims[r] = {}
    BY <1>1 DEF Turns
  <2>2. \A j \in Keys : victims[j] # {} => flight'[j].stage \in {"reserve", "clean"}
    BY <1>6 DEF Turns
  <2> QED BY <1>1, <1>4, <2>1, <2>2 DEF Turns
<1>11. Tracked' = Tracked
  BY <1>7, <1>9, TrackedSame
<1>12. Linked'
  BY <1>1, <1>11 DEF Linked
<1>13. Leases'
  BY <1>1, <1>3, <1>4 DEF Leases
<1>14. Charged' /\ Budget'
  <2>1. \A j \in Keys :
            /\ cache'[j] \in {None, cache[j]}
            /\ \/ flight'[j].stage \in {"none", "queue", "clean", "done"}
               \/ /\ flight'[j].stage = flight[j].stage
                  /\ flight'[j].entry = flight[j].entry
                  /\ flight'[j].want = flight[j].want
    BY <1>1, <1>6
  <2> QED BY <1>1, <1>11, <2>1, BooksFrame
<1>15. PinsAccounted'
  <2>1. \A e \in Entries : Readers(e)' = Readers(e) /\ Finished(e)' = Finished(e)
    <3> TAKE e \in Entries
    <3>1. \A q \in Reqs : /\ req'[q].entry = req[q].entry
                           /\ (req'[q].step \in {"open", "read"}) = (req[q].step \in {"open", "read"})
      BY <1>1, <1>2, <1>4 DEF ReqType
    <3>2. Readers(e)' = Readers(e)
      BY <3>1 DEF Readers
    <3>3. Finished(e)' = Finished(e)
      BY <1>6 DEF Finished
    <3> QED BY <3>2, <3>3
  <2> QED BY <1>1, <2>1 DEF PinsAccounted, Idle, Cached
<1>16. Waits'
  <2> SUFFICES ASSUME NEW j \in Keys
               PROVE  /\ flight'[j].waiters = Cardinality(Waiters(j)')
                      /\ flight'[j].stage = "done" => flight'[j].waiters > 0
    BY DEF Waits, Waiters
  <2>1. flight[j].waiters = Cardinality(Waiters(j)) /\ flight[j].waiters \in Nat
    BY <1>2 DEF Waits, Waiters, FlightType
  <2>2. CASE j = k
    <3>1. Waiters(j)' = Waiters(j) \cup {r} /\ r \notin Waiters(j)
      BY <1>1, <1>4, <2>2 DEF Waiters
    <3>2. Cardinality(Waiters(j)') = Cardinality(Waiters(j)) + 1
      BY <3>1, WaitersFinite, CountAdd
    <3> QED BY <1>5, <2>1, <2>2, <3>2
  <2>3. CASE j # k
    <3>1. Waiters(j)' = Waiters(j)
      BY <1>1, <1>4, <2>3 DEF Waiters
    <3> QED BY <1>5, <2>1, <2>3, <3>1 DEF Waits
  <2> QED BY <2>2, <2>3
<1>17. Closing'
  BY <1>1 DEF Closing, Closed
<1> QED BY <1>7, <1>8, <1>9, <1>10, <1>12, <1>13, <1>14, <1>15, <1>16, <1>17

\* A waiter wakes up, or leaves; the last one gives the flight up.
LEMMA WakeInv ==
  ASSUME Inv, NEW r \in Reqs, Wake(r)
  PROVE  Inv'
<1> USE DEF Inv
<1> DEFINE k    == req[r].key
           e    == flight[k].entry
           held == flight[k].stage = "done" /\ e # None
           gets == ~req[r].gone /\ ~Closed /\ e # None
           last == flight[k].waiters = 1 /\ flight[k].stage = "done"
           n    == (IF gets THEN 1 ELSE 0) - (IF last THEN 1 ELSE 0)
<1>1. /\ req[r].step = "wait" /\ (req[r].gone \/ flight[k].stage = "done")
      /\ IF held THEN Repin(e, n) ELSE UNCHANGED <<entry, lru>>
      /\ flight' = IF last THEN [flight EXCEPT ![k] = NoFlight]
                           ELSE [flight EXCEPT ![k].waiters = @ - 1]
      /\ req' = IF gets THEN [req EXCEPT ![r].step = "open", ![r].entry = e]
                        ELSE [req EXCEPT ![r] = NoReq]
      /\ UNCHANGED <<phase, files, cache, failed, bytes, victims, removed, faults>>
  BY DEF Wake
<1>2. /\ req \in [Reqs -> ReqType] /\ flight \in [Keys -> FlightType]
      /\ entry \in [Entries -> EntryType]
      /\ NoReq \in ReqType /\ NoReq.step = "idle"
      /\ NoFlight \in FlightType /\ NoFlight.stage = "none" /\ NoFlight.entry = None
      /\ NoFlight.waiters = 0
  BY DEF TypeOK, ReqType, FlightType, EntryType, NoReq, NoFlight, Steps, Stages
<1>3. k \in Keys
  BY <1>1 DEF Leases
<1>4. gets => held
  BY <1>1
<1>5. flight[k].waiters \in Nat \ {0} /\ flight[k].waiters = Cardinality(Waiters(k))
  <2>1. r \in Waiters(k) /\ flight[k].waiters = Cardinality(Waiters(k))
    BY <1>1, <1>3 DEF Waiters, Waits
  <2> QED BY <2>1, WaitersFinite, CountDrop
<1>6. held => /\ e \in Entries /\ entry[e].pins \in Nat \ {0} /\ cache[k] = e
              /\ n \in Int /\ entry[e].pins + n \in Nat
  <2>1. held => e \in Entries /\ entry[e].pins > 0 /\ cache[k] = e
    BY <1>3, PinnedFinished DEF FlightPlaces
  <2>2. n \in -1..1
    OBVIOUS
  <2>3. e \in Entries => entry[e].pins \in Nat
    BY <1>2 DEF EntryType
  <2> HIDE DEF n, held
  <2> QED BY <2>1, <2>2, <2>3
<1>7. /\ req' \in [Reqs -> ReqType] /\ \A q \in Reqs \ {r} : req'[q] = req[q]
      /\ gets => req'[r].step = "open" /\ req'[r].entry = e /\ req'[r].key = k
      /\ ~gets => req'[r].step = "idle"
  <2>1. CASE gets
    <3>1. req' = [req EXCEPT ![r].step = "open", ![r].entry = e]
      BY <1>1, <2>1
    <3>2. e \in Entries
      BY <1>4, <1>6, <2>1
    <3> HIDE DEF k, e, held, gets, last, n
    <3>3. k = req[r].key
      BY DEF k
    <3> QED BY <1>2, <2>1, <3>1, <3>2, <3>3, ReqOpens
  <2>2. CASE ~gets
    <3>1. req' = [req EXCEPT ![r] = NoReq]
      BY <1>1, <2>2
    <3> QED BY <1>2, <2>2, <3>1
  <2> QED BY <2>1, <2>2
<1>8. /\ flight' \in [Keys -> FlightType] /\ \A j \in Keys \ {k} : flight'[j] = flight[j]
      /\ flight'[k].waiters = flight[k].waiters - 1
      /\ last => flight'[k].stage = "none" /\ flight'[k].entry = None
      /\ ~last => /\ flight'[k].stage = flight[k].stage /\ flight'[k].entry = e
                  /\ flight'[k].want = flight[k].want
  <2>1. CASE last
    <3>1. flight' = [flight EXCEPT ![k] = NoFlight]
      BY <1>1, <2>1
    <3> QED BY <1>2, <1>3, <2>1, <3>1
  <2>2. CASE ~last
    <3>1. flight' = [flight EXCEPT ![k].waiters = @ - 1]
      BY <1>1, <2>2
    <3>2. flight[k].waiters - 1 \in Nat
      BY <1>5
    <3>3. flight' \in [Keys -> FlightType] /\ \A j \in Keys \ {k} : flight'[j] = flight[j]
      BY <1>2, <1>3, <3>1, <3>2 DEF FlightType
    <3>4. /\ flight'[k].waiters = flight[k].waiters - 1
          /\ flight'[k].stage = flight[k].stage /\ flight'[k].entry = flight[k].entry
          /\ flight'[k].want = flight[k].want
      BY <1>2, <1>3, <3>1 DEF FlightType
    <3> QED BY <2>2, <3>3, <3>4
  <2> QED BY <2>1, <2>2
<1>9. /\ entry' \in [Entries -> EntryType] /\ lru' \in Seq(Entries)
      /\ \A x \in Entries : /\ entry'[x].size = entry[x].size
                            /\ entry'[x].charged = entry[x].charged
      /\ held => entry'[e].pins = entry[e].pins + n
      /\ \A x \in Entries : ~(held /\ x = e) => entry'[x].pins = entry[x].pins
  <2>1. CASE held
    <3>1. Repin(e, n)
      BY <1>1, <2>1
    <3> HIDE DEF e, n, held
    <3> QED BY <1>6, <2>1, <3>1, RepinFacts
  <2>2. CASE ~held
    BY <1>1, <1>2, <2>2 DEF TypeOK
  <2> QED BY <2>1, <2>2
<1>10. TypeOK'
  BY <1>1, <1>7, <1>8, <1>9 DEF TypeOK, ReqType, FlightType, EntryType
<1>11. FlightPlaces'
  <2> SUFFICES ASSUME NEW j \in Keys
               PROVE  /\ flight'[j].stage \in Building \cup {"clean"} => flight'[j].entry # None
                      /\ flight'[j].stage \in {"none", "queue"} => flight'[j].entry = None
                      /\ flight'[j].stage # "none" =>
                            cache'[j] = IF flight'[j].stage = "done" THEN flight'[j].entry ELSE None
    BY DEF FlightPlaces
  <2>1. CASE j # k
    BY <1>1, <1>8, <2>1 DEF FlightPlaces
  <2>2. CASE j = k /\ ~last
    <3>1. /\ flight'[k].stage = flight[k].stage /\ flight'[k].entry = flight[k].entry
          /\ cache' = cache
      BY <1>1, <1>8, <2>2
    <3>2. /\ flight[k].stage \in Building \cup {"clean"} => flight[k].entry # None
          /\ flight[k].stage \in {"none", "queue"} => flight[k].entry = None
          /\ flight[k].stage # "none" =>
                cache[k] = IF flight[k].stage = "done" THEN flight[k].entry ELSE None
      BY <1>3 DEF FlightPlaces
    <3> HIDE DEF k, held, gets, last, n
    <3> QED BY <2>2, <3>1, <3>2
  <2>3. CASE j = k /\ last
    BY <1>8, <2>3 DEF Building
  <2> QED BY <2>1, <2>2, <2>3
<1>12. Apart' /\ \A x \in Entries : x \in Tracked' <=> x \in Tracked
  <2>1. ASSUME NEW j \in Keys
        PROVE
            \/ /\ flight'[j].entry = flight[j].entry
               /\ flight'[j].stage = "done" => flight[j].stage = "done"
               /\ flight[j].stage = "done" => flight'[j].stage = "done"
               /\ flight[j].stage = "clean" => flight'[j].stage = "clean"
               /\ Builds(j)' => Builds(j)
               /\ Builds(j) => Builds(j)'
            \/ /\ flight'[j].entry = None
               /\ Builds(j) => flight[j].entry = None
    BY <1>8 DEF Builds, Building
  <2> QED BY <1>1, <2>1, PlaceFrame
<1>13. Tracked' = Tracked
  BY <1>10, <1>12, TrackedSame
<1>14. Linked'
  BY <1>1, <1>13 DEF Linked
<1>15. Turns'
  <2>1. victims[r] = {}
    BY <1>1 DEF Turns
  <2>2. \A j \in Keys : victims[j] # {} => flight'[j].stage \in {"reserve", "clean"}
    BY <1>8 DEF Turns
  <2> QED BY <1>1, <1>7, <2>1, <2>2 DEF Turns
<1>16. Leases'
  <2> SUFFICES ASSUME NEW q \in Reqs
               PROVE  /\ req'[q].step # "idle" => req'[q].key \in Keys
                      /\ req'[q].step \in {"open", "read", "missing", "remove"} =>
                            req'[q].entry \in Entries
                      /\ req'[q].step \in {"open", "read"} => cache'[req'[q].key] = req'[q].entry
    BY DEF Leases
  <2>1. CASE q # r
    BY <1>1, <1>7, <2>1 DEF Leases
  <2>2. CASE q = r
    BY <1>1, <1>3, <1>4, <1>6, <1>7, <2>2
  <2> QED BY <2>1, <2>2
<1>17. Charged' /\ Budget'
  <2>1. ASSUME NEW j \in Keys
        PROVE  /\ cache'[j] \in {None, cache[j]}
               /\ \/ flight'[j].stage \in {"none", "queue", "clean", "done"}
                  \/ /\ flight'[j].stage = flight[j].stage
                     /\ flight'[j].entry = flight[j].entry
                     /\ flight'[j].want = flight[j].want
    BY <1>1, <1>8
  <2> QED BY <1>1, <1>9, <1>13, <2>1, BooksFrame
<1>18. ASSUME NEW x \in Entries
       PROVE  entry'[x].pins = Cardinality(Readers(x)') + Cardinality(Finished(x)')
  <2>1. /\ entry[x].pins = Cardinality(Readers(x)) + Cardinality(Finished(x))
        /\ IsFiniteSet(Readers(x)) /\ Cardinality(Readers(x)) \in Nat
        /\ IsFiniteSet(Finished(x)) /\ Cardinality(Finished(x)) \in Nat
    BY PinsParts, PinCounts
  <2>2. r \notin Readers(x)
    BY <1>1 DEF Readers
  <2>3. CASE held /\ x = e
    <3>1. k \in Finished(x)
      BY <1>3, <2>3 DEF Finished
    <3>2. Cardinality(Readers(x)') = Cardinality(Readers(x)) + (IF gets THEN 1 ELSE 0)
      <4>1. CASE gets
        <5>1. Readers(x)' = Readers(x) \cup {r}
          BY <1>7, <2>3, <4>1 DEF Readers
        <5> QED BY <2>1, <2>2, <4>1, <5>1, CountAdd
      <4>2. CASE ~gets
        <5>1. Readers(x)' = Readers(x)
          BY <1>1, <1>7, <4>2 DEF Readers
        <5> QED BY <2>1, <4>2, <5>1
      <4> QED BY <4>1, <4>2
    <3>3. Cardinality(Finished(x)') = Cardinality(Finished(x)) - (IF last THEN 1 ELSE 0)
      <4>1. CASE last
        <5>1. Finished(x)' = Finished(x) \ {k}
          BY <1>8, <4>1 DEF Finished
        <5> QED BY <2>1, <3>1, <4>1, <5>1, CountDrop
      <4>2. CASE ~last
        <5>1. Finished(x)' = Finished(x)
          BY <1>8, <4>2 DEF Finished
        <5> QED BY <2>1, <4>2, <5>1
      <4> QED BY <4>1, <4>2
    <3>4. entry'[x].pins = entry[x].pins + n
      BY <1>9, <2>3
    <3> QED BY <2>1, <3>2, <3>3, <3>4
  <2>4. CASE ~(held /\ x = e)
    <3>1. Readers(x)' = Readers(x)
      BY <1>1, <1>4, <1>7, <2>4 DEF Readers
    <3>2. x # None
      BY Distinct
    <3>3. Finished(x)' = Finished(x)
      BY <1>8, <2>4, <3>2 DEF Finished
    <3> QED BY <1>9, <2>1, <2>4, <3>1, <3>3
  <2> QED BY <2>3, <2>4
<1>19. IdleRight'
  <2>1. Cached' = Cached /\ cache' \in [Keys -> Entries \cup {None}]
    BY <1>1 DEF Cached, TypeOK
  <2>2. CASE held
    <3>1. \A x \in Entries : x \in Cached' <=> (x \in Cached \/ x = e)
      BY <1>3, <1>6, <2>1, <2>2, CachedIn
    <3>2. Repin(e, n)
      BY <1>1, <2>2
    <3> HIDE DEF e, n, held
    <3> QED BY <1>6, <2>1, <2>2, <3>1, <3>2, RepinIdle
  <2>3. CASE ~held
    BY <1>1, <2>1, <2>3, PinsParts DEF IdleRight, Idle, Injective
  <2> QED BY <2>2, <2>3
<1>20. PinsAccounted'
  BY <1>18, <1>19, PinsPartsNext
<1>21. Waits'
  <2> SUFFICES ASSUME NEW j \in Keys
               PROVE  /\ flight'[j].waiters = Cardinality(Waiters(j)')
                      /\ flight'[j].stage = "done" => flight'[j].waiters > 0
    BY DEF Waits, Waiters
  <2>1. CASE j = k
    <3>1. Waiters(j)' = Waiters(j) \ {r} /\ r \in Waiters(j)
      BY <1>1, <1>3, <1>7, <2>1 DEF Waiters
    <3>2. Cardinality(Waiters(j)') = Cardinality(Waiters(j)) - 1
      BY <3>1, WaitersFinite, CountDrop
    <3> QED BY <1>5, <1>8, <2>1, <3>2
  <2>2. CASE j # k
    <3>1. Waiters(j)' = Waiters(j)
      BY <1>1, <1>7, <2>2 DEF Waiters
    <3> QED BY <1>8, <2>2, <3>1 DEF Waits, Waiters
  <2> QED BY <2>1, <2>2
<1>22. Closing'
  <2>1. \A j \in Keys : flight[j].stage \in {"none", "done"} => flight'[j].stage \in {"none", "done"}
    BY <1>8
  <2>2. \A q \in Reqs : (req'[q].step = "wait" => req[q].step = "wait")
    BY <1>7
  <2>3. Closed => \A q \in Reqs : req'[q].step \in {"open", "read"} => req[q].step \in {"open", "read"}
    BY <1>7
  <2> QED BY <1>1, <2>1, <2>2, <2>3 DEF Closing, Closed
<1> QED BY <1>10, <1>11, <1>12, <1>14, <1>15, <1>16, <1>17, <1>20, <1>21, <1>22

-----------------------------------------------------------------------------
(***************************************************************************)
(* Retiring entries                                                        *)
(***************************************************************************)

\* An entry that somebody may be about to serve is neither idle nor failed.
LEMMA InUse ==
  ASSUME Inv
  PROVE  /\ \A r \in Reqs : Leasing(r) => req[r].entry \notin failed \cup Elements(lru)
         /\ \A k \in Keys : flight[k].stage # "clean" => flight[k].entry \notin failed \cup Elements(lru)
<1> USE DEF Inv
<1>1. Elements(lru) = {x \in Cached : entry[x].pins = 0}
  BY PinsParts DEF IdleRight, Idle, Elements
<1>2. ASSUME NEW r \in Reqs, Leasing(r) PROVE req[r].entry \notin failed \cup Elements(lru)
  <2>1. entry[req[r].entry].pins > 0
    BY <1>2, PinnedReader
  <2>2. req[r].key \in Keys /\ cache[req[r].key] = req[r].entry
    BY <1>2 DEF Leases, Leasing
  <2> QED BY <1>1, <2>1, <2>2 DEF Apart
<1>3. ASSUME NEW k \in Keys, flight[k].stage # "clean"
      PROVE  flight[k].entry \notin failed \cup Elements(lru)
  <2>1. flight[k].entry \notin failed
    BY <1>3 DEF Apart
  <2>2. CASE flight[k].entry = None
    BY <1>1, <2>1, <2>2 DEF Cached
  <2>3. CASE flight[k].entry # None /\ flight[k].stage = "done"
    <3>1. entry[flight[k].entry].pins > 0
      BY <2>3, PinnedFinished
    <3> QED BY <1>1, <2>1, <3>1
  <2>4. CASE flight[k].entry # None /\ flight[k].stage # "done"
    <3>1. \A j \in Keys : cache[j] # flight[k].entry
      BY <2>4 DEF Apart
    <3> QED BY <1>1, <2>1, <3>1 DEF Cached
  <2> QED BY <2>2, <2>3, <2>4
<1> QED BY <1>2, <1>3

\* Idle and failed entries S become the victims of d.
LEMMA RetireFrame ==
  ASSUME Inv, NEW d \in Deleters, NEW S, S \subseteq failed \cup Elements(lru),
         victims[d] = {}, victims' = [victims EXCEPT ![d] = S],
         cache' = [k \in Keys |-> IF cache[k] \in S THEN None ELSE cache[k]],
         failed' = failed \ S,
         lru' \in Seq(Entries), Injective(lru'), Elements(lru') = Elements(lru) \ S,
         UNCHANGED <<files, entry, bytes, flight, removed, faults>>,
         req' \in [Reqs -> ReqType],
         \A q \in Reqs : /\ req'[q].key = req[q].key /\ req'[q].entry = req[q].entry
                         /\ \/ req'[q].step = req[q].step
                            \/ req[q].step = "missing" /\ req'[q].step = "remove",
         d \in Keys => flight[d].stage \in {"reserve", "clean"},
         d \in Reqs => req'[d].step = "remove",
         \/ phase' = phase /\ d # Closer
         \/ phase = "sweep" /\ phase' = "released" /\ \A k \in Keys : cache'[k] = None
  PROVE  Inv'
<1> USE DEF Inv
<1>1. /\ failed \subseteq Entries /\ victims \in [Deleters -> SUBSET Entries]
      /\ cache \in [Keys -> Entries \cup {None}] /\ lru \in Seq(Entries)
      /\ flight \in [Keys -> FlightType]
  BY DEF TypeOK, FlightType
<1>2. Elements(lru) = {x \in Cached : entry[x].pins = 0} /\ Cached \subseteq Entries
  BY <1>1, PinsParts DEF IdleRight, Idle, Elements, Cached
<1>3. S \subseteq Entries /\ None \notin S
  BY <1>1, <1>2, Distinct
<1>4. /\ victims' \in [Deleters -> SUBSET Entries] /\ victims'[d] = S
      /\ \A c \in Deleters \ {d} : victims'[c] = victims[c]
  BY <1>1, <1>3
<1>5. /\ cache' \in [Keys -> Entries \cup {None}]
      /\ \A k \in Keys : cache'[k] = IF cache[k] \in S THEN None ELSE cache[k]
  BY <1>1
<1>6. /\ \A r \in Reqs : Leasing(r) => req[r].entry \notin S
      /\ \A k \in Keys : flight[k].stage # "clean" => flight[k].entry \notin S
  BY InUse
<1>7. phase' \in Phases
  BY DEF TypeOK, Phases
<1>8. TypeOK'
  BY <1>4, <1>5, <1>7 DEF TypeOK, ReqType
<1>9. FlightPlaces'
  <2> SUFFICES ASSUME NEW j \in Keys
               PROVE  /\ flight[j].stage \in Building \cup {"clean"} => flight[j].entry # None
                      /\ flight[j].stage \in {"none", "queue"} => flight[j].entry = None
                      /\ flight[j].stage # "none" =>
                            cache'[j] = IF flight[j].stage = "done" THEN flight[j].entry ELSE None
    BY DEF FlightPlaces
  <2>1. flight[j].stage = "done" => flight[j].entry \notin S
    BY <1>6
  <2> QED BY <1>5, <2>1 DEF FlightPlaces
<1>10. \A k \in Keys : cache'[k] \in {None, cache[k]} /\ cache'[k] \notin S
  BY <1>3, <1>5
<1>11. \A c \in Deleters \ {d} : victims[c] \cap S = {}
  <2> SUFFICES ASSUME NEW c \in Deleters \ {d}, NEW x \in victims[c] \cap S PROVE FALSE
    OBVIOUS
  <2>1. x \notin failed
    BY DEF Apart
  <2>2. x \in Cached /\ x \in Entries
    BY <1>2, <1>3, <2>1
  <2> QED BY <2>2, CachedIn DEF Apart
<1>12. Apart'
  <2>1. \A j, k \in Keys :
          /\ j # k /\ cache'[j] = cache'[k] => cache'[k] = None
          /\ j # k /\ flight'[j].entry = flight'[k].entry => flight'[k].entry = None
          /\ flight'[j].stage # "done" /\ flight'[j].entry = cache'[k] => cache'[k] = None
    BY <1>10 DEF Apart
  <2>2. \A c \in Deleters : None \notin victims'[c]
    BY <1>4, Distinct
  <2>3. \A c \in Deleters : \A k \in Keys :
          /\ cache'[k] \notin victims'[c]
          /\ flight'[k].stage # "clean" => flight'[k].entry \notin victims'[c]
    BY <1>4, <1>6, <1>10, <2>2 DEF Apart
  <2>4. \A k \in Keys : /\ cache'[k] \notin failed'
                        /\ flight'[k].stage # "clean" => flight'[k].entry \notin failed'
    BY <1>1, <1>10, Distinct DEF Apart
  <2>5. \A c \in Deleters : victims'[c] \cap failed' = {}
    BY <1>4 DEF Apart
  <2>6. \A b, c \in Deleters : b # c => victims'[b] \cap victims'[c] = {}
    BY <1>4, <1>11 DEF Apart
  <2> QED BY <2>1, <2>3, <2>4, <2>5, <2>6 DEF Apart
<1>13. Turns'
  <2>1. \A k \in Keys : victims'[k] # {} => flight'[k].stage \in {"reserve", "clean"}
    BY <1>4, Distinct DEF Turns
  <2>2. \A r \in Reqs : victims'[r] # {} => req'[r].step = "remove"
    BY <1>4, Distinct DEF Turns
  <2>3. victims'[Closer] # {} => phase' = "released"
    BY <1>4, Distinct DEF Turns
  <2>4. \A c \in Deleters : /\ removed'[c] = NotYet \/ removed'[c].entry \in victims'[c]
                            /\ removed'[c].ok => removed'[c].entry \notin files'
    BY <1>4 DEF Turns
  <2> QED BY <2>1, <2>2, <2>3, <2>4 DEF Turns
<1>14. Tracked' = Tracked
  <2> SUFFICES ASSUME NEW x \in Entries PROVE x \in Tracked' <=> x \in Tracked
    BY <1>8, TrackedSame
  <2>1. \A k \in Keys : Builds(k)' <=> Builds(k)
    BY DEF Builds
  <2>2. CASE x \in S
    <3>1. x \in Tracked'
      BY <1>4, <2>2, TrackedInNext
    <3>2. x \in Tracked
      BY <1>2, <2>2, CachedIn, TrackedIn
    <3> QED BY <3>1, <3>2
  <2>3. CASE x \notin S
    <3>1. x \in failed' <=> x \in failed
      BY <2>3
    <3>2. (\E c \in Deleters : x \in victims'[c]) <=> (\E c \in Deleters : x \in victims[c])
      BY <1>4, <2>3
    <3>3. (\E k \in Keys : cache'[k] = x) <=> (\E k \in Keys : cache[k] = x)
      BY <1>5, <2>3, Distinct
    <3> QED BY <2>1, <3>1, <3>2, <3>3, TrackedIn, TrackedInNext
  <2> QED BY <2>2, <2>3
<1>15. Linked'
  <2>1. phase' # "down" => phase # "down"
    OBVIOUS
  <2> QED BY <1>14, <2>1 DEF Linked
<1>16. Leases'
  <2>1. \A q \in Reqs : Leasing(q)' <=> Leasing(q)
    BY DEF Leasing
  <2>2. \A q \in Reqs : Leasing(q) => cache'[req'[q].key] = req'[q].entry
    BY <1>5, <1>6 DEF Leases, Leasing
  <2> QED BY <2>1, <2>2 DEF Leases, Leasing
<1>17. Charged' /\ Budget'
  BY <1>10, <1>14, BooksFrame
<1>18. PinsAccounted'
  <2>1. ASSUME NEW x \in Entries PROVE Readers(x)' = Readers(x) /\ Finished(x)' = Finished(x)
    <3>1. \A q \in Reqs : Leasing(q)' <=> Leasing(q)
      BY DEF Leasing
    <3> QED BY <3>1 DEF Readers, Finished, Leasing
  <2>2. \A x \in Entries : entry'[x].pins = Cardinality(Readers(x)') + Cardinality(Finished(x)')
    BY <2>1 DEF PinsAccounted
  <2>3. \A x \in Entries : x \in Cached' <=> x \in Cached /\ x \notin S
    BY <1>3, <1>5, Distinct, CachedIn, CachedInNext
  <2>4. Cached' \subseteq Entries
    BY <1>5 DEF Cached
  <2>5. Idle' = Elements(lru')
    BY DEF Idle, Elements
  <2>6. Idle' = {x \in Cached' : entry'[x].pins = 0}
    BY <1>2, <2>3, <2>4, <2>5
  <2>7. IdleRight'
    BY <2>6 DEF IdleRight, Injective
  <2> QED BY <2>2, <2>7, PinsPartsNext
<1>19. Waits'
  <2>1. ASSUME NEW j \in Keys PROVE Waiters(j)' = Waiters(j)
    BY DEF Waiters
  <2> QED BY <2>1 DEF Waits, Waiters
<1>20. Closing'
  <2>1. \A q \in Reqs : (req'[q].step = "wait" => req[q].step = "wait")
                        /\ (req'[q].step \in {"open", "read"} => req[q].step \in {"open", "read"})
    OBVIOUS
  <2>2. \A k \in Keys : cache[k] = None => cache'[k] = None
    BY <1>10
  <2> QED BY <2>1, <2>2 DEF Closing
<1> QED BY <1>8, <1>9, <1>12, <1>13, <1>15, <1>16, <1>17, <1>18, <1>19, <1>20

LEMMA RemoveMissingInv ==
  ASSUME Inv, NEW r \in Reqs, RemoveMissing(r)
  PROVE  Inv'
<1> USE DEF Inv
<1> DEFINE e == req[r].entry
<1>1. /\ req[r].step = "missing"
      /\ IF entry[e].pins = 0 /\ e \in Cached
         THEN Retire({e}, Without(lru, e)) /\ victims' = [victims EXCEPT ![r] = {e}]
         ELSE UNCHANGED <<cache, lru, victims>>
      /\ req' = [req EXCEPT ![r].step = "remove"]
      /\ UNCHANGED <<phase, files, entry, failed, bytes, flight, removed, faults>>
  BY DEF RemoveMissing
<1>2. req \in [Reqs -> ReqType] /\ lru \in Seq(Entries) /\ faults \in 0..MaxFaults
  BY DEF TypeOK, ReqType
<1>3. /\ req' \in [Reqs -> ReqType] /\ \A q \in Reqs \ {r} : req'[q] = req[q]
      /\ req'[r].step = "remove" /\ req'[r].key = req[r].key /\ req'[r].entry = e
  BY <1>1, <1>2 DEF ReqType, Steps
<1>4. victims[r] = {} /\ e \in Entries /\ req[r].key \in Keys
  BY <1>1 DEF Turns, Leases
<1>5. CASE entry[e].pins = 0 /\ e \in Cached
  <2>1. /\ cache' = [k \in Keys |-> IF cache[k] \in {e} THEN None ELSE cache[k]]
        /\ lru' = Without(lru, e) /\ victims' = [victims EXCEPT ![r] = {e}]
    BY <1>1, <1>5 DEF Retire
  <2>2. Injective(lru) /\ Elements(lru) = {x \in Cached : entry[x].pins = 0}
    BY PinsParts DEF IdleRight, Idle, Elements
  <2>3. e \in Elements(lru)
    BY <1>5, <2>2
  <2>4. e \notin failed
    BY <1>4, <1>5, CachedIn DEF Apart
  <2>5. /\ lru' \in Seq(Entries) /\ Injective(lru') /\ Elements(lru') = Elements(lru) \ {e}
    BY <1>2, <2>1, <2>2, WithoutFacts
  <2>6. {e} \subseteq failed \cup Elements(lru) /\ failed' = failed \ {e}
    BY <1>1, <2>3, <2>4
  <2>7. \A q \in Reqs : /\ req'[q].key = req[q].key /\ req'[q].entry = req[q].entry
                        /\ \/ req'[q].step = req[q].step
                           \/ req[q].step = "missing" /\ req'[q].step = "remove"
    BY <1>1, <1>3
  <2>8. r \in Deleters /\ r \notin Keys /\ r # Closer
    BY Distinct
  <2> HIDE DEF e
  <2> QED BY <1>1, <1>3, <1>4, <2>1, <2>5, <2>6, <2>7, <2>8, RetireFrame
<1>6. CASE ~(entry[e].pins = 0 /\ e \in Cached)
  <2>1. UNCHANGED <<phase, files, entry, cache, lru, failed, bytes, flight, victims, removed>>
    BY <1>1, <1>6
  <2> QED BY <1>1, <1>2, <1>3, <1>4, <2>1, ReqFrame DEF Leasing
<1> QED BY <1>5, <1>6

LEMMA EvictInv ==
  ASSUME Inv, NEW k \in Keys, Evict(k)
  PROVE  Inv'
<1> USE DEF Inv
<1> DEFINE e == Head(lru)
<1>1. /\ flight[k].stage = "reserve" /\ victims[k] = {} /\ lru # <<>>
      /\ cache' = [j \in Keys |-> IF cache[j] \in {e} THEN None ELSE cache[j]]
      /\ lru' = Tail(lru) /\ victims' = [victims EXCEPT ![k] = {e}]
      /\ UNCHANGED <<phase, files, entry, failed, bytes, flight, req, removed, faults>>
  BY DEF Evict, Retire
<1>2. lru \in Seq(Entries) /\ Injective(lru) /\ req \in [Reqs -> ReqType]
  BY PinsParts DEF TypeOK, IdleRight, ReqType
<1>3. /\ e \in Elements(lru)
      /\ lru' \in Seq(Entries) /\ Injective(lru') /\ Elements(lru') = Elements(lru) \ {e}
  BY <1>1, <1>2, TailFacts
<1>4. e \notin failed
  <2>1. e \in Idle
    BY <1>3 DEF Idle, Elements
  <2>2. Idle \subseteq Cached
    BY PinsParts DEF IdleRight
  <2>3. e \in Cached
    BY <2>1, <2>2
  <2>4. Cached \subseteq Entries
    BY DEF Cached, TypeOK
  <2> QED BY <2>3, <2>4, CachedIn DEF Apart
<1>5. {e} \subseteq failed \cup Elements(lru) /\ failed' = failed \ {e}
  BY <1>1, <1>3, <1>4
<1>6. k \in Deleters /\ k \notin Reqs /\ k # Closer
  BY Distinct
<1> HIDE DEF e
<1> QED BY <1>1, <1>2, <1>3, <1>5, <1>6, RetireFrame

LEMMA SweepFrame ==
  ASSUME Inv, NEW d \in {Sweeper, Closer}, NEW n \in 0..Len(lru), victims[d] = {},
         SweepZstdCache(d, n),
         \/ phase' = phase /\ d # Closer
         \/ phase = "sweep" /\ phase' = "released" /\ n = Len(lru)
  PROVE  Inv'
<1> USE DEF Inv
<1> DEFINE S == failed \cup {lru[i] : i \in 1..n}
<1>1. /\ victims' = [victims EXCEPT ![d] = S] /\ failed' = {}
      /\ cache' = [k \in Keys |-> IF cache[k] \in S THEN None ELSE cache[k]]
      /\ lru' = SubSeq(lru, n + 1, Len(lru))
      /\ UNCHANGED <<files, entry, bytes, flight, req, removed, faults>>
  BY DEF SweepZstdCache, Retire
<1>2. /\ lru \in Seq(Entries) /\ Injective(lru) /\ req \in [Reqs -> ReqType]
      /\ Elements(lru) = {x \in Cached : entry[x].pins = 0} /\ Cached \subseteq Entries
  <2>1. Injective(lru) /\ Elements(lru) = {x \in Cached : entry[x].pins = 0}
    BY PinsParts DEF IdleRight, Idle, Elements
  <2> QED BY <2>1 DEF TypeOK, ReqType, Cached
<1>3. \A i \in 1..n : lru[i] \in Elements(lru)
  BY <1>2 DEF Elements
<1>4. S \subseteq failed \cup Elements(lru) /\ failed' = failed \ S
  BY <1>1, <1>3
<1>5. failed \cap Elements(lru) = {}
  BY <1>2, CachedIn DEF Apart
<1>6. /\ lru' \in Seq(Entries) /\ Injective(lru') /\ Elements(lru') = Elements(lru) \ S
  <2>1. /\ SubSeq(lru, n + 1, Len(lru)) \in Seq(Entries)
        /\ Injective(SubSeq(lru, n + 1, Len(lru)))
        /\ Elements(SubSeq(lru, n + 1, Len(lru))) = Elements(lru) \ {lru[i] : i \in 1..n}
    BY <1>2, DropFacts
  <2> QED BY <1>1, <1>5, <2>1
<1>7. d \in Deleters /\ d \notin Keys /\ d \notin Reqs
  BY Distinct
<1>8. phase = "sweep" /\ n = Len(lru) => \A k \in Keys : cache'[k] = None
  <2> SUFFICES ASSUME phase = "sweep", n = Len(lru), NEW k \in Keys, cache[k] # None
               PROVE  cache[k] \in S
    BY <1>1
  <2>1. cache[k] \in Entries /\ cache[k] \in Cached
    BY DEF TypeOK, Cached
  <2>2. Readers(cache[k]) = {} /\ Finished(cache[k]) = {}
    <3>1. \A r \in Reqs : req[r].step \notin {"open", "read", "wait"}
      BY DEF Closing
    <3>2. \A j \in Keys : flight[j].stage # "done"
      <4> SUFFICES ASSUME NEW j \in Keys, flight[j].stage = "done" PROVE FALSE
        OBVIOUS
      <4>1. Waiters(j) = {}
        BY <3>1 DEF Waiters
      <4>2. Cardinality(Waiters(j)) > 0
        BY DEF Waits, Waiters
      <4> QED BY <4>1, <4>2, FS_EmptySet
    <3> QED BY <3>1, <3>2 DEF Readers, Finished
  <2>3. entry[cache[k]].pins = 0
    <3>1. entry[cache[k]].pins
             = Cardinality(Readers(cache[k])) + Cardinality(Finished(cache[k]))
      BY <2>1, PinsParts
    <3>2. entry[cache[k]].pins = Cardinality({}) + Cardinality({})
      BY <2>2, <3>1, Zenon
    <3> QED BY <3>2, FS_EmptySet
  <2>4. cache[k] \in Elements(lru)
    BY <1>2, <2>1, <2>3
  <2>5. DOMAIN lru = 1..n
    BY <1>2
  <2> QED BY <2>4, <2>5 DEF Elements
<1> HIDE DEF S
<1> QED BY <1>1, <1>2, <1>4, <1>6, <1>7, <1>8, RetireFrame

LEMMA SweepInv ==
  ASSUME Inv, Sweep
  PROVE  Inv'
<1>1. PICK n \in 0..Len(lru) : SweepZstdCache(Sweeper, n)
  BY DEF Sweep
<1>2. victims[Sweeper] = {} /\ phase' = phase /\ Sweeper # Closer
  BY Distinct DEF Sweep
<1> QED BY <1>1, <1>2, SweepFrame

LEMMA CloseSweepsInv ==
  ASSUME Inv, CloseSweeps
  PROVE  Inv'
<1>1. phase = "sweep" /\ phase' = "released" /\ SweepZstdCache(Closer, Len(lru))
  BY DEF CloseSweeps
<1>2. victims[Closer] = {} /\ lru \in Seq(Entries)
  BY <1>1 DEF Inv, Turns, TypeOK
<1>3. Len(lru) \in 0..Len(lru)
  BY <1>2
<1> QED BY <1>1, <1>2, <1>3, SweepFrame

-----------------------------------------------------------------------------
(***************************************************************************)
(* Builds                                                                  *)
(***************************************************************************)

\* A running build goes on: its flight, and the books of its own entry.
LEMMA BuildFrame ==
  ASSUME Inv, NEW k \in Keys, victims[k] = {},
         flight[k].stage \notin {"none", "done"},
         flight'[k].stage \in Building \cup {"publish"},
         flight' \in [Keys -> FlightType], \A j \in Keys \ {k} : flight'[j] = flight[j],
         flight'[k].waiters = flight[k].waiters,
         \/ /\ flight'[k].entry = flight[k].entry
            /\ flight[k].stage \in Building
         \/ /\ flight'[k].entry = None
            /\ flight[k].stage \in {"queue", "clean"} /\ flight'[k].stage = "publish",
         UNCHANGED <<phase, files, cache, lru, failed, req, victims, removed, faults>>,
         entry' \in [Entries -> EntryType], bytes' \in Nat, Budget',
         \A x \in Entries : entry'[x].pins = entry[x].pins,
         \A x \in Entries : x # flight[k].entry => entry'[x] = entry[x],
         flight[k].entry \in Entries =>
            \/ entry'[flight[k].entry] = entry[flight[k].entry]
            \/ /\ flight[k].stage \in Building
               /\ entry'[flight[k].entry].size <= entry'[flight[k].entry].charged,
         flight'[k].stage \in {"write", "reserve"} =>
            entry'[flight[k].entry].charged = RoundUp(entry'[flight[k].entry].size),
         flight'[k].stage = "data" =>
            entry'[flight[k].entry].charged
               = RoundUp(entry'[flight[k].entry].size + flight'[k].want),
         flight'[k].stage = "publish" /\ flight'[k].entry # None =>
            entry'[flight[k].entry].size = Size[k]
  PROVE  Inv'
<1> USE DEF Inv
<1>1. TypeOK'
  BY DEF TypeOK, FlightType, EntryType
<1>2. flight[k].stage \in Building => flight[k].entry # None
  BY DEF FlightPlaces
<1>3. FlightPlaces'
  <2> SUFFICES ASSUME NEW j \in Keys
               PROVE  /\ flight'[j].stage \in Building \cup {"clean"} => flight'[j].entry # None
                      /\ flight'[j].stage \in {"none", "queue"} => flight'[j].entry = None
                      /\ flight'[j].stage # "none" =>
                            cache'[j] = IF flight'[j].stage = "done" THEN flight'[j].entry ELSE None
    BY DEF FlightPlaces
  <2>1. CASE j # k
    BY <2>1 DEF FlightPlaces
  <2>2. CASE j = k
    <3>1. cache[k] = None
      BY DEF FlightPlaces
    <3> QED BY <1>2, <2>2, <3>1 DEF Building
  <2> QED BY <2>1, <2>2
<1>4. Apart' /\ \A x \in Entries : x \in Tracked' <=> x \in Tracked
  <2>1. ASSUME NEW j \in Keys
        PROVE
            \/ /\ flight'[j].entry = flight[j].entry
               /\ flight'[j].stage = "done" => flight[j].stage = "done"
               /\ flight[j].stage = "done" => flight'[j].stage = "done"
               /\ flight[j].stage = "clean" => flight'[j].stage = "clean"
               /\ Builds(j)' => Builds(j)
               /\ Builds(j) => Builds(j)'
            \/ /\ flight'[j].entry = None
               /\ Builds(j) => flight[j].entry = None
    <3>1. CASE j # k
      BY <3>1 DEF Builds
    <3>2. CASE j = k
      BY <3>2 DEF Builds, Building
    <3> QED BY <3>1, <3>2
  <2> QED BY <2>1, PlaceFrame
<1>5. Tracked' = Tracked
  BY <1>1, <1>4, TrackedSame
<1>6. Turns'
  <2>1. \A j \in Keys : victims[j] # {} => flight'[j].stage \in {"reserve", "clean"}
    BY DEF Turns
  <2> QED BY <2>1 DEF Turns
<1>7. Linked' /\ Leases'
  BY <1>5 DEF Linked, Leases
<1>8. Charged'
  <2>1. ASSUME NEW x \in Entries
        PROVE  /\ x \in Tracked' => entry'[x].size <= entry'[x].charged
               /\ x \notin Tracked' => entry'[x].charged = 0
    <3>1. CASE entry'[x] = entry[x]
      BY <1>5, <3>1 DEF Charged
    <3>2. CASE entry'[x] # entry[x]
      <4>1. /\ x = flight[k].entry /\ flight[k].stage \in Building
            /\ entry'[x].size <= entry'[x].charged
        BY <3>2
      <4>2. x \in Tracked
        BY <4>1, TrackedIn DEF Builds
      <4> QED BY <1>5, <4>1, <4>2
    <3> QED BY <3>1, <3>2
  <2>2. ASSUME NEW j \in Keys, cache[j] # None
        PROVE  cache[j] \in Entries /\ entry'[cache[j]] = entry[cache[j]]
    <3>1. cache[j] # flight[k].entry
      BY <2>2 DEF Apart
    <3> QED BY <2>2, <3>1 DEF TypeOK
  <2>3. ASSUME NEW j \in Keys \ {k}, flight[j].entry # None
        PROVE  flight[j].entry \in Entries /\ entry'[flight[j].entry] = entry[flight[j].entry]
    <3>1. flight[j].entry # flight[k].entry
      BY <2>3 DEF Apart
    <3> QED BY <2>3, <3>1 DEF TypeOK
  <2>4. ASSUME NEW j \in Keys
        PROVE  /\ flight'[j].stage \in {"write", "reserve"} =>
                     entry'[flight'[j].entry].charged = RoundUp(entry'[flight'[j].entry].size)
               /\ flight'[j].stage = "data" =>
                     entry'[flight'[j].entry].charged
                        = RoundUp(entry'[flight'[j].entry].size + flight'[j].want)
               /\ flight'[j].stage = "publish" /\ flight'[j].entry # None =>
                     entry'[flight'[j].entry].size = Size[j]
               /\ cache'[j] # None => entry'[cache'[j]].size = Size[j]
    <3>1. cache'[j] # None => entry'[cache'[j]].size = Size[j]
      BY <2>2 DEF Charged
    <3>2. CASE j = k
      BY <3>1, <3>2
    <3>3. CASE j # k
      <4>1. flight[j].stage \in Building => flight[j].entry # None
        BY DEF FlightPlaces
      <4> QED BY <2>3, <3>1, <3>3, <4>1 DEF Charged, Building
    <3> QED BY <3>2, <3>3
  <2> QED BY <2>1, <2>4 DEF Charged
<1>9. PinsAccounted'
  <2>1. ASSUME NEW x \in Entries PROVE Readers(x)' = Readers(x) /\ Finished(x)' = Finished(x)
    <3>1. \A j \in Keys : (flight'[j].stage = "done" /\ flight'[j].entry = x)
                             <=> (flight[j].stage = "done" /\ flight[j].entry = x)
      BY DEF Building
    <3> QED BY <3>1 DEF Readers, Finished
  <2>2. Cached' = Cached /\ Cached \subseteq Entries
    BY DEF Cached, TypeOK
  <2>3. IdleRight'
    BY <2>2, PinsParts DEF IdleRight, Idle, Injective
  <2> QED BY <2>1, <2>3, PinsPartsNext DEF PinsAccounted
<1>10. Waits'
  <2>1. \A j \in Keys : /\ flight'[j].waiters = flight[j].waiters
                        /\ flight'[j].stage = "done" => flight[j].stage = "done"
    BY DEF Building
  <2>2. ASSUME NEW j \in Keys PROVE Waiters(j)' = Waiters(j)
    BY DEF Waiters
  <2> QED BY <2>1, <2>2 DEF Waits, Waiters
<1>11. Closing'
  BY DEF Closing
<1> QED BY <1>1, <1>3, <1>4, <1>6, <1>7, <1>8, <1>9, <1>10, <1>11

\* The facts about a build that every step of it starts from.
LEMMA BuildFacts ==
  ASSUME Inv, NEW k \in Keys
  PROVE  /\ flight \in [Keys -> FlightType] /\ entry \in [Entries -> EntryType] /\ bytes \in Nat
         /\ flight[k].stage \in Building =>
               /\ flight[k].entry \in Entries
               /\ entry[flight[k].entry].size \in Nat /\ entry[flight[k].entry].charged \in Nat
               /\ flight[k].want \in Nat
         /\ flight[k].stage \notin {"reserve", "clean"} => victims[k] = {}
<1>1. /\ flight \in [Keys -> FlightType] /\ entry \in [Entries -> EntryType] /\ bytes \in Nat
  BY DEF Inv, TypeOK, FlightType, EntryType
<1>2. flight[k].stage \in Building => flight[k].entry \in Entries
  BY <1>1 DEF Inv, FlightPlaces, FlightType
<1>3. flight[k].stage \notin {"reserve", "clean"} => victims[k] = {}
  BY DEF Inv, Turns
<1> QED BY <1>1, <1>2, <1>3 DEF FlightType, EntryType

LEMMA ShedBuildInv ==
  ASSUME Inv, NEW k \in Keys, ShedBuild(k)
  PROVE  Inv'
<1>1. /\ flight[k].stage = "queue" /\ flight' = [flight EXCEPT ![k].stage = "publish"]
      /\ UNCHANGED <<phase, files, entry, cache, lru, failed, bytes, req, victims, removed, faults>>
  BY DEF ShedBuild
<1>2. /\ flight \in [Keys -> FlightType] /\ entry \in [Entries -> EntryType] /\ bytes \in Nat
      /\ victims[k] = {}
  BY <1>1, BuildFacts
<1>3. flight[k].entry = None
  BY <1>1 DEF Inv, FlightPlaces
<1>4. /\ flight' \in [Keys -> FlightType] /\ \A j \in Keys \ {k} : flight'[j] = flight[j]
      /\ flight'[k].stage = "publish" /\ flight'[k].waiters = flight[k].waiters
      /\ flight'[k].entry = None
  BY <1>1, <1>2, <1>3 DEF FlightType, Stages
<1>5. Budget'
  BY <1>1 DEF Inv, Budget, Charges, Sum
<1> QED BY <1>1, <1>2, <1>3, <1>4, <1>5, BuildFrame DEF Building

LEMMA CleanedInv ==
  ASSUME Inv, NEW k \in Keys, Cleaned(k)
  PROVE  Inv'
<1>1. /\ flight[k].stage = "clean" /\ victims[k] = {}
      /\ flight' = [flight EXCEPT ![k].stage = "publish", ![k].entry = None]
      /\ UNCHANGED <<phase, files, entry, cache, lru, failed, bytes, req, victims, removed, faults>>
  BY DEF Cleaned
<1>2. /\ flight \in [Keys -> FlightType] /\ entry \in [Entries -> EntryType] /\ bytes \in Nat
  BY <1>1, BuildFacts
<1>3. /\ flight' \in [Keys -> FlightType] /\ \A j \in Keys \ {k} : flight'[j] = flight[j]
      /\ flight'[k].stage = "publish" /\ flight'[k].waiters = flight[k].waiters
      /\ flight'[k].entry = None
  BY <1>1, <1>2 DEF FlightType, Stages
<1>4. Budget'
  BY <1>1 DEF Inv, Budget, Charges, Sum
<1> QED BY <1>1, <1>2, <1>3, <1>4, BuildFrame DEF Building

LEMMA BuiltInv ==
  ASSUME Inv, NEW k \in Keys, Built(k)
  PROVE  Inv'
<1>1. /\ flight[k].stage = "write" /\ entry[flight[k].entry].size = Size[k]
      /\ flight' = [flight EXCEPT ![k].stage = "publish"]
      /\ UNCHANGED <<phase, files, entry, cache, lru, failed, bytes, req, victims, removed, faults>>
  BY DEF Built
<1>2. /\ flight \in [Keys -> FlightType] /\ entry \in [Entries -> EntryType] /\ bytes \in Nat
      /\ victims[k] = {} /\ flight[k].entry \in Entries
  BY <1>1, BuildFacts DEF Building
<1>3. /\ flight' \in [Keys -> FlightType] /\ \A j \in Keys \ {k} : flight'[j] = flight[j]
      /\ flight'[k].stage = "publish" /\ flight'[k].waiters = flight[k].waiters
      /\ flight'[k].entry = flight[k].entry
  BY <1>1, <1>2 DEF FlightType, Stages
<1>4. Budget'
  BY <1>1 DEF Inv, Budget, Charges, Sum
<1> QED BY <1>1, <1>2, <1>3, <1>4, BuildFrame DEF Building

LEMMA WriteInv ==
  ASSUME Inv, NEW k \in Keys, NEW n \in WriteSizes, Write(k, n)
  PROVE  Inv'
<1>1. /\ flight[k].stage = "write"
      /\ flight' = [flight EXCEPT ![k].stage = "reserve", ![k].want = n]
      /\ UNCHANGED <<phase, files, entry, cache, lru, failed, bytes, req, victims, removed, faults>>
  BY DEF Write
<1>2. /\ flight \in [Keys -> FlightType] /\ entry \in [Entries -> EntryType] /\ bytes \in Nat
      /\ victims[k] = {} /\ flight[k].entry \in Entries
  BY <1>1, BuildFacts DEF Building
<1>3. n \in Nat
  BY ZstdAssumption
<1>4. /\ flight' \in [Keys -> FlightType] /\ \A j \in Keys \ {k} : flight'[j] = flight[j]
      /\ flight'[k].stage = "reserve" /\ flight'[k].waiters = flight[k].waiters
      /\ flight'[k].entry = flight[k].entry
  BY <1>1, <1>2, <1>3 DEF FlightType, Stages, Building
<1>5. Budget'
  BY <1>1 DEF Inv, Budget, Charges, Sum
<1>6. entry[flight[k].entry].charged = RoundUp(entry[flight[k].entry].size)
  BY <1>1 DEF Inv, Charged
<1> QED BY <1>1, <1>2, <1>4, <1>5, <1>6, BuildFrame DEF Building

\* A reservation fits the budget, and covers what is to be written.
LEMMA ReserveInv ==
  ASSUME Inv, NEW k \in Keys, Reserve(k)
  PROVE  Inv'
<1> DEFINE e == flight[k].entry
           m == More(k)
<1>1. /\ flight[k].stage = "reserve" /\ victims[k] = {} /\ Fits(m)
      /\ bytes' = bytes + m
      /\ entry' = [entry EXCEPT ![e].charged = @ + m]
      /\ flight' = [flight EXCEPT ![k].stage = "data"]
      /\ UNCHANGED <<phase, files, cache, lru, failed, req, victims, removed, faults>>
  BY DEF Reserve
<1>2. /\ flight \in [Keys -> FlightType] /\ entry \in [Entries -> EntryType] /\ bytes \in Nat
      /\ e \in Entries /\ entry[e].size \in Nat /\ entry[e].charged \in Nat
      /\ flight[k].want \in Nat
  BY <1>1, BuildFacts DEF Building
<1>3. entry[e].charged = RoundUp(entry[e].size)
  BY <1>1 DEF Inv, Charged
<1>4. /\ m \in Nat /\ entry[e].charged + m = RoundUp(entry[e].size + flight[k].want)
      /\ entry[e].size + flight[k].want <= RoundUp(entry[e].size + flight[k].want)
  <2> DEFINE s == entry[e].size
             t == s + flight[k].want
  <2>1. s \in Nat /\ t \in Nat /\ s <= t
    BY <1>2
  <2>2. RoundUp(t) \in Nat /\ t <= RoundUp(t) /\ RoundUp(s) <= RoundUp(t) /\ RoundUp(s) \in Nat
    BY <2>1, RoundUpFacts
  <2>3. m = RoundUp(t) - entry[e].charged
    BY DEF More
  <2> HIDE DEF s, t, m
  <2>4. m \in Nat /\ entry[e].charged + m = RoundUp(t) /\ t <= RoundUp(t)
    BY <1>2, <1>3, <2>2, <2>3 DEF s
  <2> QED BY <2>4 DEF s, t
<1> HIDE DEF e, m
<1>5. /\ entry' \in [Entries -> EntryType] /\ entry'[e].charged = entry[e].charged + m
      /\ entry'[e].size = entry[e].size /\ entry'[e].pins = entry[e].pins
      /\ \A x \in Entries \ {e} : entry'[x] = entry[x]
  BY <1>1, <1>2, <1>4 DEF EntryType
<1>6. /\ flight' \in [Keys -> FlightType] /\ \A j \in Keys \ {k} : flight'[j] = flight[j]
      /\ flight'[k].stage = "data" /\ flight'[k].waiters = flight[k].waiters
      /\ flight'[k].entry = flight[k].entry /\ flight'[k].want = flight[k].want
  BY <1>1, <1>2 DEF FlightType, Stages, Building
<1>7. Budget' /\ bytes' \in Nat
  <2>1. /\ Charges \in [Entries -> Nat] /\ Charges' \in [Entries -> Nat]
        /\ Charges'[e] = Charges[e] + m
        /\ \A x \in Entries \ {e} : Charges'[x] = Charges[x]
    BY <1>2, <1>4, <1>5 DEF Charges, EntryType
  <2>2. Sum(Entries, Charges') = Sum(Entries, Charges) + m
    BY <1>2, <1>4, <2>1, SumMore
  <2>3. Sum(Entries, Charges)' = Sum(Entries, Charges')
    BY DEF Sum
  <2>4. Limit \in Nat
    BY ZstdAssumption
  <2>5. m <= Limit /\ bytes <= Limit - m
    BY <1>1 DEF Fits
  <2> QED BY <1>1, <1>2, <1>4, <2>2, <2>3, <2>4, <2>5 DEF Inv, Budget
<1>8. /\ entry'[e].charged = RoundUp(entry'[e].size + flight'[k].want)
      /\ entry'[e].size <= entry'[e].charged
  BY <1>2, <1>4, <1>5, <1>6
<1>9. \A x \in Entries : entry'[x].pins = entry[x].pins
  BY <1>5
<1> QED BY <1>1, <1>2, <1>5, <1>6, <1>7, <1>8, <1>9, BuildFrame DEF Building, e

LEMMA WriteDataInv ==
  ASSUME Inv, NEW k \in Keys, WriteData(k)
  PROVE  Inv'
<1> DEFINE e == flight[k].entry
           n == flight[k].want
<1>1. /\ flight[k].stage = "data"
      /\ entry' = [entry EXCEPT ![e].size = @ + n]
      /\ flight' = [flight EXCEPT ![k].stage = "write", ![k].want = 0]
      /\ UNCHANGED <<phase, files, cache, lru, failed, bytes, req, victims, removed, faults>>
  BY DEF WriteData
<1>2. /\ flight \in [Keys -> FlightType] /\ entry \in [Entries -> EntryType] /\ bytes \in Nat
      /\ e \in Entries /\ entry[e].size \in Nat /\ entry[e].charged \in Nat /\ n \in Nat
      /\ victims[k] = {}
  BY <1>1, BuildFacts DEF Building
<1>3. entry[e].charged = RoundUp(entry[e].size + n)
  BY <1>1 DEF Inv, Charged
<1>4. entry[e].size + n <= entry[e].charged
  BY <1>2, <1>3, RoundUpFacts
<1> HIDE DEF e, n
<1>5. /\ entry' \in [Entries -> EntryType] /\ entry'[e].charged = entry[e].charged
      /\ entry'[e].size = entry[e].size + n /\ entry'[e].pins = entry[e].pins
      /\ \A x \in Entries \ {e} : entry'[x] = entry[x]
  BY <1>1, <1>2 DEF EntryType
<1>6. /\ flight' \in [Keys -> FlightType] /\ \A j \in Keys \ {k} : flight'[j] = flight[j]
      /\ flight'[k].stage = "write" /\ flight'[k].waiters = flight[k].waiters
      /\ flight'[k].entry = flight[k].entry
  BY <1>1, <1>2 DEF FlightType, Stages, Building
<1>7. Budget'
  <2>1. Charges' = Charges
    BY <1>5 DEF Charges
  <2> QED BY <1>1, <2>1 DEF Inv, Budget, Sum
<1>8. \A x \in Entries : entry'[x].pins = entry[x].pins
  BY <1>5
<1>9. /\ \A x \in Entries : x # flight[k].entry => entry'[x] = entry[x]
      /\ entry'[flight[k].entry].size <= entry'[flight[k].entry].charged
      /\ entry'[flight[k].entry].charged = RoundUp(entry'[flight[k].entry].size)
  BY <1>3, <1>4, <1>5 DEF e
<1>10. /\ flight[k].stage \in Building /\ flight[k].stage \notin {"none", "done"}
       /\ flight'[k].stage \in Building \cup {"publish"}
       /\ flight'[k].stage \notin {"data", "publish"}
  BY <1>1, <1>6 DEF Building
<1>11. bytes' \in Nat /\ victims[k] = {}
  BY <1>1, <1>2
<1> QED BY <1>1, <1>5, <1>6, <1>7, <1>8, <1>9, <1>10, <1>11, BuildFrame

\* A build gives up: its entry becomes its own victim.
LEMMA AbandonFrame ==
  ASSUME Inv, NEW k \in Keys, flight[k].stage \in Building, victims[k] = {}, Abandon(k),
         faults' \in 0..MaxFaults, entry' \in [Entries -> EntryType],
         \A x \in Entries : /\ entry'[x].pins = entry[x].pins
                            /\ entry'[x].charged = entry[x].charged
                            /\ x # flight[k].entry => entry'[x].size = entry[x].size,
         entry'[flight[k].entry].size <= entry[flight[k].entry].charged
  PROVE  Inv'
<1> USE DEF Inv
<1> DEFINE e == flight[k].entry
<1>1. /\ flight' = [flight EXCEPT ![k].stage = "clean", ![k].want = 0]
      /\ victims' = [victims EXCEPT ![k] = {e}]
      /\ UNCHANGED <<phase, files, cache, lru, failed, bytes, req, removed>>
  BY DEF Abandon
<1>2. /\ flight \in [Keys -> FlightType] /\ e \in Entries
      /\ victims \in [Deleters -> SUBSET Entries] /\ k \in Deleters
      /\ cache \in [Keys -> Entries \cup {None}]
  BY BuildFacts, Distinct DEF TypeOK
<1>3. /\ flight' \in [Keys -> FlightType] /\ \A j \in Keys \ {k} : flight'[j] = flight[j]
      /\ flight'[k].stage = "clean" /\ flight'[k].waiters = flight[k].waiters
      /\ flight'[k].entry = e
  <2> HIDE DEF e
  <2> DEFINE cleaning == [flight EXCEPT ![k].stage = "clean"]
  <2>1. /\ cleaning \in [Keys -> FlightType] /\ \A j \in Keys \ {k} : cleaning[j] = flight[j]
        /\ cleaning[k].stage = "clean" /\ cleaning[k].waiters = flight[k].waiters
        /\ cleaning[k].entry = flight[k].entry
    BY <1>2 DEF FlightType, Stages
  <2>2. flight' = [cleaning EXCEPT ![k].want = 0]
    BY <1>1
  <2> HIDE DEF cleaning
  <2>3. /\ flight' \in [Keys -> FlightType] /\ \A j \in Keys \ {k} : flight'[j] = cleaning[j]
        /\ flight'[k].stage = cleaning[k].stage /\ flight'[k].waiters = cleaning[k].waiters
        /\ flight'[k].entry = cleaning[k].entry
    BY <2>1, <2>2 DEF FlightType
  <2> QED BY <2>1, <2>3 DEF e
<1>4. /\ victims' \in [Deleters -> SUBSET Entries] /\ victims'[k] = {e}
      /\ \A d \in Deleters \ {k} : victims'[d] = victims[d]
  BY <1>1, <1>2
\* The entry is nowhere else.
<1>5. /\ e \notin failed /\ e # None /\ \A d \in Deleters : e \notin victims[d]
      /\ \A j \in Keys : cache[j] # e /\ (j # k => flight[j].entry # e)
  BY <1>2, Distinct DEF Apart, Building
<1> HIDE DEF e
<1>6. TypeOK'
  BY <1>1, <1>3, <1>4 DEF TypeOK, FlightType, EntryType
<1>7. FlightPlaces'
  <2> SUFFICES ASSUME NEW j \in Keys
               PROVE  /\ flight'[j].stage \in Building \cup {"clean"} => flight'[j].entry # None
                      /\ flight'[j].stage \in {"none", "queue"} => flight'[j].entry = None
                      /\ flight'[j].stage # "none" =>
                            cache'[j] = IF flight'[j].stage = "done" THEN flight'[j].entry ELSE None
    BY DEF FlightPlaces
  <2>1. CASE j # k
    BY <1>1, <1>3, <2>1 DEF FlightPlaces
  <2>2. CASE j = k
    <3>1. cache[k] = None
      BY DEF FlightPlaces, Building
    <3> QED BY <1>1, <1>3, <1>5, <2>2, <3>1
  <2> QED BY <2>1, <2>2
<1>8. Apart'
  <2>1. \A i, j \in Keys :
          /\ i # j /\ cache'[i] = cache'[j] => cache'[j] = None
          /\ i # j /\ flight'[i].entry = flight'[j].entry => flight'[j].entry = None
          /\ flight'[i].stage # "done" /\ flight'[i].entry = cache'[j] => cache'[j] = None
    BY <1>1, <1>3, <1>5 DEF Apart
  <2>2. \A d \in Deleters : \A j \in Keys :
          /\ cache'[j] \notin victims'[d]
          /\ flight'[j].stage # "clean" => flight'[j].entry \notin victims'[d]
    BY <1>1, <1>3, <1>4, <1>5 DEF Apart
  <2>3. \A j \in Keys : /\ cache'[j] \notin failed'
                        /\ flight'[j].stage # "clean" => flight'[j].entry \notin failed'
    BY <1>1, <1>3 DEF Apart
  <2>4. \A d \in Deleters : victims'[d] \cap failed' = {}
    BY <1>1, <1>4, <1>5 DEF Apart
  <2>5. \A c, d \in Deleters : c # d => victims'[c] \cap victims'[d] = {}
    BY <1>4, <1>5 DEF Apart
  <2> QED BY <2>1, <2>2, <2>3, <2>4, <2>5 DEF Apart
<1>9. Turns'
  <2>1. \A j \in Keys : victims'[j] # {} => flight'[j].stage \in {"reserve", "clean"}
    BY <1>3, <1>4, Distinct DEF Turns
  <2>2. \A r \in Reqs : victims'[r] = victims[r]
    BY <1>4, Distinct
  <2>3. victims'[Closer] = victims[Closer]
    BY <1>4, Distinct
  <2>4. \A d \in Deleters : /\ removed'[d] = NotYet \/ removed'[d].entry \in victims'[d]
                            /\ removed'[d].ok => removed'[d].entry \notin files'
    BY <1>1, <1>4 DEF Turns
  <2> QED BY <1>1, <2>1, <2>2, <2>3, <2>4 DEF Turns
<1>10. Tracked' = Tracked
  <2> SUFFICES ASSUME NEW x \in Entries PROVE x \in Tracked' <=> x \in Tracked
    BY <1>6, TrackedSame
  <2>1. CASE x = e
    <3>1. x \in Tracked'
      BY <1>2, <1>4, <2>1, TrackedInNext
    <3>2. Builds(k) /\ flight[k].entry = x
      BY <2>1 DEF Builds, e
    <3> QED BY <3>1, <3>2, TrackedIn
  <2>2. CASE x # e
    <3>1. (\E d \in Deleters : x \in victims'[d]) <=> (\E d \in Deleters : x \in victims[d])
      BY <1>4, <2>2
    <3>2. \A j \in Keys : (Builds(j)' /\ flight'[j].entry = x) <=> (Builds(j) /\ flight[j].entry = x)
      BY <1>3, <2>2 DEF Builds, e
    <3>3. (\E j \in Keys : Builds(j)' /\ flight'[j].entry = x)
             <=> (\E j \in Keys : Builds(j) /\ flight[j].entry = x)
      BY <3>2
    <3>4. /\ x \in failed' <=> x \in failed
          /\ (\E j \in Keys : cache'[j] = x) <=> (\E j \in Keys : cache[j] = x)
      BY <1>1
    <3> QED BY <3>1, <3>3, <3>4, TrackedIn, TrackedInNext
  <2> QED BY <2>1, <2>2
<1>11. Linked' /\ Leases'
  BY <1>1, <1>10 DEF Linked, Leases
<1>12. Charges' = Charges
  BY DEF Charges
<1>13. Budget'
  BY <1>1, <1>12 DEF Budget, Sum
<1>14. Charged'
  <2>1. ASSUME NEW x \in Entries
        PROVE  /\ x \in Tracked' => entry'[x].size <= entry'[x].charged
               /\ x \notin Tracked' => entry'[x].charged = 0
    <3>1. CASE x # e
      BY <1>10, <3>1 DEF Charged, e
    <3>2. CASE x = e
      <4>1. Builds(k) /\ flight[k].entry = x
        BY <3>2 DEF Builds, e
      <4>2. x \in Tracked
        BY <4>1, TrackedIn
      <4> QED BY <1>10, <3>2, <4>2 DEF e
    <3> QED BY <3>1, <3>2
  <2>2. ASSUME NEW j \in Keys, cache[j] # None
        PROVE  cache[j] \in Entries /\ entry'[cache[j]].size = entry[cache[j]].size
    BY <1>2, <1>5, <2>2 DEF e
  <2>3. ASSUME NEW j \in Keys \ {k}, flight[j].entry # None
        PROVE  /\ flight[j].entry \in Entries
               /\ entry'[flight[j].entry].size = entry[flight[j].entry].size
               /\ entry'[flight[j].entry].charged = entry[flight[j].entry].charged
    <3>1. flight[j].entry \in Entries /\ flight[j].entry # e
      BY <1>2, <1>5, <2>3 DEF FlightType
    <3> QED BY <3>1 DEF e
  <2>4. ASSUME NEW j \in Keys
        PROVE  /\ flight'[j].stage \in {"write", "reserve"} =>
                     entry'[flight'[j].entry].charged = RoundUp(entry'[flight'[j].entry].size)
               /\ flight'[j].stage = "data" =>
                     entry'[flight'[j].entry].charged
                        = RoundUp(entry'[flight'[j].entry].size + flight'[j].want)
               /\ flight'[j].stage = "publish" /\ flight'[j].entry # None =>
                     entry'[flight'[j].entry].size = Size[j]
               /\ cache'[j] # None => entry'[cache'[j]].size = Size[j]
    <3>1. cache'[j] # None => entry'[cache'[j]].size = Size[j]
      BY <1>1, <2>2 DEF Charged
    <3>2. CASE j = k
      BY <1>3, <3>1, <3>2
    <3>3. CASE j # k
      <4>1. flight[j].stage \in Building => flight[j].entry # None
        BY DEF FlightPlaces
      <4> QED BY <1>3, <2>3, <3>1, <3>3, <4>1 DEF Charged, Building
    <3> QED BY <3>2, <3>3
  <2> QED BY <2>1, <2>4 DEF Charged
<1>15. PinsAccounted'
  <2>1. ASSUME NEW x \in Entries PROVE Readers(x)' = Readers(x) /\ Finished(x)' = Finished(x)
    <3>1. \A j \in Keys : (flight'[j].stage = "done" /\ flight'[j].entry = x)
                             <=> (flight[j].stage = "done" /\ flight[j].entry = x)
      BY <1>3 DEF Building
    <3> QED BY <1>1, <3>1 DEF Readers, Finished
  <2>2. Cached' = Cached /\ Cached \subseteq Entries
    BY <1>1 DEF Cached, TypeOK
  <2>3. IdleRight'
    BY <1>1, <2>2, PinsParts DEF IdleRight, Idle, Injective
  <2> QED BY <2>1, <2>3, PinsPartsNext DEF PinsAccounted
<1>16. Waits'
  <2>1. \A j \in Keys : /\ flight'[j].waiters = flight[j].waiters
                        /\ flight'[j].stage = "done" => flight[j].stage = "done"
    BY <1>3
  <2>2. ASSUME NEW j \in Keys PROVE Waiters(j)' = Waiters(j)
    BY <1>1 DEF Waiters
  <2> QED BY <2>1, <2>2 DEF Waits, Waiters
<1>17. Closing'
  BY <1>1 DEF Closing, Building
<1> QED BY <1>6, <1>7, <1>8, <1>9, <1>11, <1>13, <1>14, <1>15, <1>16, <1>17

\* A build that has not written more than it has been charged.
LEMMA Written ==
  ASSUME Inv, NEW k \in Keys, flight[k].stage \in Building
  PROVE  entry[flight[k].entry].size <= entry[flight[k].entry].charged
<1>1. flight[k].entry \in Entries
  BY BuildFacts
<1>2. flight[k].entry \in Tracked
  BY <1>1, TrackedIn DEF Builds
<1> QED BY <1>1, <1>2 DEF Inv, Charged

LEMMA ReserveFailsInv ==
  ASSUME Inv, NEW k \in Keys, ReserveFails(k)
  PROVE  Inv'
<1>1. /\ flight[k].stage \in Building /\ victims[k] = {} /\ Abandon(k)
      /\ entry' = entry /\ faults' = faults
  BY DEF ReserveFails, Building
<1>2. entry \in [Entries -> EntryType] /\ faults \in 0..MaxFaults
  BY DEF Inv, TypeOK, EntryType
<1> QED BY <1>1, <1>2, Written, AbandonFrame

LEMMA BuildFailsInv ==
  ASSUME Inv, NEW k \in Keys, BuildFails(k)
  PROVE  Inv'
<1>1. flight[k].stage = "write" /\ Abandon(k) /\ entry' = entry
  BY DEF BuildFails
<1>2. entry \in [Entries -> EntryType] /\ faults' \in 0..MaxFaults
  BY ZstdAssumption DEF Inv, TypeOK, EntryType, BuildFails, Fault
<1>3. flight[k].stage \in Building /\ victims[k] = {}
  BY <1>1, BuildFacts DEF Building
<1> QED BY <1>1, <1>2, <1>3, Written, AbandonFrame

LEMMA WriteFailsInv ==
  ASSUME Inv, NEW k \in Keys, WriteFails(k)
  PROVE  Inv'
<1> DEFINE e == flight[k].entry
<1>1. PICK n \in 0..(flight[k].want - 1) : entry' = [entry EXCEPT ![e].size = @ + n]
  BY DEF WriteFails
<1>2. flight[k].stage = "data" /\ Abandon(k)
  BY DEF WriteFails
<1>3. faults' \in 0..MaxFaults
  BY ZstdAssumption DEF Inv, TypeOK, WriteFails, Fault
<1>4. /\ entry \in [Entries -> EntryType] /\ e \in Entries /\ entry[e].size \in Nat
      /\ entry[e].charged \in Nat /\ flight[k].want \in Nat /\ victims[k] = {}
      /\ flight[k].stage \in Building
  BY <1>2, BuildFacts DEF Building
<1>5. entry[e].charged = RoundUp(entry[e].size + flight[k].want)
  BY <1>2 DEF Inv, Charged
<1>6. n \in Nat /\ entry[e].size + n <= entry[e].charged
  <2>1. n \in Nat /\ n <= flight[k].want
    BY <1>4
  <2>2. entry[e].size + flight[k].want <= RoundUp(entry[e].size + flight[k].want)
    BY <1>4, RoundUpFacts
  <2> HIDE DEF e
  <2> QED BY <1>4, <1>5, <2>1, <2>2
<1> HIDE DEF e
<1>7. /\ entry' \in [Entries -> EntryType] /\ entry'[e].size = entry[e].size + n
      /\ \A x \in Entries : /\ entry'[x].pins = entry[x].pins
                            /\ entry'[x].charged = entry[x].charged
                            /\ x # e => entry'[x].size = entry[x].size
  BY <1>1, <1>4, <1>6 DEF EntryType
<1> QED BY <1>2, <1>3, <1>4, <1>6, <1>7, AbandonFrame DEF e

\* A build takes an entry that nobody knows of.
LEMMA StartBuildInv ==
  ASSUME Inv, NEW k \in Keys, StartBuild(k)
  PROVE  Inv'
<1> USE DEF Inv
<1>1. PICK e \in Free :
         /\ flight' = [flight EXCEPT ![k].stage = "write", ![k].entry = e]
         /\ entry' = [entry EXCEPT ![e] = [pins |-> 0, size |-> 0, charged |-> 0]]
         /\ files' = files \cup {e}
  BY DEF StartBuild
<1>2. /\ flight[k].stage = "queue"
      /\ UNCHANGED <<phase, cache, lru, failed, bytes, req, victims, removed, faults>>
  BY DEF StartBuild
<1>3. /\ flight \in [Keys -> FlightType] /\ entry \in [Entries -> EntryType] /\ victims[k] = {}
  BY <1>2, BuildFacts
<1>4. /\ e \in Entries /\ e \notin files /\ e \notin failed /\ e # None
      /\ \A d \in Deleters : e \notin victims[d]
      /\ \A j \in Keys : cache[j] # e /\ flight[j].entry # e
      /\ \A r \in Reqs : req[r].entry # e
  <2>1. /\ e \in Entries /\ e \notin files /\ e \notin failed /\ e \notin Cached
        /\ e \notin UNION {victims[d] : d \in Deleters}
        /\ e \notin {flight[j].entry : j \in Keys} /\ e \notin {req[r].entry : r \in Reqs}
    BY DEF Free
  <2>2. e # None /\ \A j \in Keys : cache[j] # e
    BY <2>1, Distinct, CachedIn
  <2>3. \A d \in Deleters : e \notin victims[d]
    BY <2>1
  <2>4. \A j \in Keys : flight[j].entry # e
    BY <2>1
  <2>5. \A r \in Reqs : req[r].entry # e
    BY <2>1
  <2> QED BY <2>1, <2>2, <2>3, <2>4, <2>5
<1>5. /\ flight' \in [Keys -> FlightType] /\ \A j \in Keys \ {k} : flight'[j] = flight[j]
      /\ flight'[k].stage = "write" /\ flight'[k].entry = e
      /\ flight'[k].waiters = flight[k].waiters
  BY <1>1, <1>3, <1>4 DEF FlightType, Stages, Building
<1>6. /\ entry' \in [Entries -> EntryType] /\ entry'[e].pins = 0 /\ entry'[e].size = 0
      /\ entry'[e].charged = 0 /\ \A x \in Entries \ {e} : entry'[x] = entry[x]
  BY <1>1, <1>3, <1>4 DEF EntryType
<1>7. entry[e].pins = 0 /\ entry[e].charged = 0
  <2>1. Readers(e) = {} /\ Finished(e) = {}
    BY <1>4 DEF Readers, Finished
  <2>2. entry[e].pins = Cardinality(Readers(e)) + Cardinality(Finished(e))
    BY <1>4, PinsParts
  <2>3. entry[e].pins = Cardinality({}) + Cardinality({})
    BY <2>1, <2>2, Zenon
  <2>4. e \notin Tracked
    BY <1>4, TrackedIn
  <2> QED BY <1>4, <2>3, <2>4, FS_EmptySet DEF Charged
<1>8. TypeOK'
  BY <1>1, <1>2, <1>4, <1>5, <1>6 DEF TypeOK, FlightType, EntryType
<1>9. FlightPlaces'
  <2> SUFFICES ASSUME NEW j \in Keys
               PROVE  /\ flight'[j].stage \in Building \cup {"clean"} => flight'[j].entry # None
                      /\ flight'[j].stage \in {"none", "queue"} => flight'[j].entry = None
                      /\ flight'[j].stage # "none" =>
                            cache'[j] = IF flight'[j].stage = "done" THEN flight'[j].entry ELSE None
    BY DEF FlightPlaces
  <2>1. CASE j # k
    BY <1>2, <1>5, <2>1 DEF FlightPlaces
  <2>2. CASE j = k
    <3>1. cache[k] = None
      BY <1>2 DEF FlightPlaces
    <3> QED BY <1>2, <1>4, <1>5, <2>2, <3>1
  <2> QED BY <2>1, <2>2
<1>10. Apart'
  <2>1. \A i, j \in Keys :
          /\ i # j /\ cache'[i] = cache'[j] => cache'[j] = None
          /\ i # j /\ flight'[i].entry = flight'[j].entry => flight'[j].entry = None
          /\ flight'[i].stage # "done" /\ flight'[i].entry = cache'[j] => cache'[j] = None
    BY <1>2, <1>4, <1>5 DEF Apart
  <2>2. \A d \in Deleters : \A j \in Keys :
          /\ cache'[j] \notin victims'[d]
          /\ flight'[j].stage # "clean" => flight'[j].entry \notin victims'[d]
    BY <1>2, <1>4, <1>5 DEF Apart
  <2>3. \A j \in Keys : /\ cache'[j] \notin failed'
                        /\ flight'[j].stage # "clean" => flight'[j].entry \notin failed'
    BY <1>2, <1>4, <1>5 DEF Apart
  <2>4. /\ \A d \in Deleters : victims'[d] \cap failed' = {}
        /\ \A c, d \in Deleters : c # d => victims'[c] \cap victims'[d] = {}
    BY <1>2 DEF Apart
  <2> QED BY <2>1, <2>2, <2>3, <2>4 DEF Apart
<1>11. Turns'
  <2>1. \A j \in Keys : victims[j] # {} => flight'[j].stage \in {"reserve", "clean"}
    BY <1>3, <1>5 DEF Turns
  <2>2. \A d \in Deleters : /\ removed[d] = NotYet \/ removed[d].entry \in victims[d]
                            /\ removed[d].ok => removed[d].entry \notin files'
    <3> SUFFICES ASSUME NEW d \in Deleters
                 PROVE  /\ removed[d] = NotYet \/ removed[d].entry \in victims[d]
                        /\ removed[d].ok => removed[d].entry \notin files'
      OBVIOUS
    <3>1. /\ removed[d] = NotYet \/ removed[d].entry \in victims[d]
          /\ removed[d].ok => removed[d].entry \notin files
      BY DEF Turns
    <3>2. ~NotYet.ok /\ e \notin victims[d]
      BY <1>4 DEF NotYet
    <3> QED BY <1>1, <3>1, <3>2
  <2> QED BY <1>2, <2>1, <2>2 DEF Turns
<1>12. \A x \in Entries : x \in Tracked' <=> (x \in Tracked \/ x = e)
  <2> SUFFICES ASSUME NEW x \in Entries PROVE x \in Tracked' <=> (x \in Tracked \/ x = e)
    OBVIOUS
  <2>1. CASE x = e
    <3>1. Builds(k)' /\ flight'[k].entry = x
      BY <1>5, <2>1 DEF Builds, Building
    <3> QED BY <2>1, <3>1, TrackedInNext
  <2>2. CASE x # e
    <3>1. \A j \in Keys : (Builds(j)' /\ flight'[j].entry = x) <=> (Builds(j) /\ flight[j].entry = x)
      <4>1. flight[k].entry = None /\ None # x
        BY <1>2, Distinct DEF FlightPlaces
      <4> QED BY <1>5, <2>2, <4>1 DEF Builds
    <3>2. (\E j \in Keys : Builds(j)' /\ flight'[j].entry = x)
             <=> (\E j \in Keys : Builds(j) /\ flight[j].entry = x)
      BY <3>1
    <3>3. /\ x \in failed' <=> x \in failed
          /\ (\E d \in Deleters : x \in victims'[d]) <=> (\E d \in Deleters : x \in victims[d])
          /\ (\E j \in Keys : cache'[j] = x) <=> (\E j \in Keys : cache[j] = x)
      BY <1>2
    <3> QED BY <2>2, <3>2, <3>3, TrackedIn, TrackedInNext
  <2> QED BY <2>1, <2>2
<1>13. Linked'
  <2>1. files' \subseteq Entries
    BY <1>8 DEF TypeOK
  <2> QED BY <1>1, <1>2, <1>12, <2>1 DEF Linked
<1>14. Leases'
  BY <1>2 DEF Leases
<1>15. Budget'
  <2>1. Charges' = Charges
    BY <1>3, <1>6, <1>7 DEF Charges
  <2> QED BY <1>2, <2>1 DEF Budget, Sum
<1>16. Charged'
  <2>1. ASSUME NEW x \in Entries
        PROVE  /\ x \in Tracked' => entry'[x].size <= entry'[x].charged
               /\ x \notin Tracked' => entry'[x].charged = 0
    BY <1>6, <1>12 DEF Charged
  <2>2. ASSUME NEW j \in Keys, cache[j] # None
        PROVE  cache[j] \in Entries /\ entry'[cache[j]] = entry[cache[j]]
    BY <1>4, <1>6, <2>2 DEF TypeOK
  <2>3. ASSUME NEW j \in Keys \ {k}, flight[j].entry # None
        PROVE  flight[j].entry \in Entries /\ entry'[flight[j].entry] = entry[flight[j].entry]
    BY <1>3, <1>4, <1>6, <2>3 DEF FlightType
  <2>4. ASSUME NEW j \in Keys
        PROVE  /\ flight'[j].stage \in {"write", "reserve"} =>
                     entry'[flight'[j].entry].charged = RoundUp(entry'[flight'[j].entry].size)
               /\ flight'[j].stage = "data" =>
                     entry'[flight'[j].entry].charged
                        = RoundUp(entry'[flight'[j].entry].size + flight'[j].want)
               /\ flight'[j].stage = "publish" /\ flight'[j].entry # None =>
                     entry'[flight'[j].entry].size = Size[j]
               /\ cache'[j] # None => entry'[cache'[j]].size = Size[j]
    <3>1. cache'[j] # None => entry'[cache'[j]].size = Size[j]
      BY <1>2, <2>2 DEF Charged
    <3>2. CASE j = k
      BY <1>5, <1>6, <3>1, <3>2, RoundUpFacts
    <3>3. CASE j # k
      <4>1. flight[j].stage \in Building => flight[j].entry # None
        BY DEF FlightPlaces
      <4> QED BY <1>5, <2>3, <3>1, <3>3, <4>1 DEF Charged, Building
    <3> QED BY <3>2, <3>3
  <2> QED BY <2>1, <2>4 DEF Charged
<1>17. PinsAccounted'
  <2>1. ASSUME NEW x \in Entries
        PROVE  /\ Readers(x)' = Readers(x) /\ Finished(x)' = Finished(x)
               /\ entry'[x].pins = entry[x].pins
    <3>1. \A j \in Keys : (flight'[j].stage = "done" /\ flight'[j].entry = x)
                             <=> (flight[j].stage = "done" /\ flight[j].entry = x)
      BY <1>2, <1>5
    <3>2. entry'[x].pins = entry[x].pins
      BY <1>6, <1>7
    <3> QED BY <1>2, <3>1, <3>2 DEF Readers, Finished
  <2>2. Cached' = Cached /\ Cached \subseteq Entries
    BY <1>2 DEF Cached, TypeOK
  <2>3. IdleRight'
    BY <1>2, <2>1, <2>2, PinsParts DEF IdleRight, Idle, Injective
  <2> QED BY <2>1, <2>3, PinsPartsNext DEF PinsAccounted
<1>18. Waits'
  <2>1. \A j \in Keys : /\ flight'[j].waiters = flight[j].waiters
                        /\ flight'[j].stage = "done" => flight[j].stage = "done"
    BY <1>5
  <2>2. ASSUME NEW j \in Keys PROVE Waiters(j)' = Waiters(j)
    BY <1>2 DEF Waiters
  <2> QED BY <2>1, <2>2 DEF Waits, Waiters
<1>19. Closing'
  BY <1>2 DEF Closing
<1> QED BY <1>8, <1>9, <1>10, <1>11, <1>13, <1>14, <1>15, <1>16, <1>17, <1>18, <1>19

\* The result of a build: cached and pinned for its waiters, or nothing.
LEMMA PublishInv ==
  ASSUME Inv, NEW k \in Keys, Publish(k)
  PROVE  Inv'
<1> USE DEF Inv
<1> DEFINE e    == flight[k].entry
           idle == flight[k].waiters = 0
           n    == IF flight[k].waiters > 0 THEN 1 ELSE 0
<1>1. /\ flight[k].stage = "publish"
      /\ IF e = None THEN UNCHANGED <<cache, entry, lru>>
         ELSE cache' = [cache EXCEPT ![k] = e] /\ Repin(e, n)
      /\ flight' = IF idle THEN [flight EXCEPT ![k] = NoFlight]
                           ELSE [flight EXCEPT ![k].stage = "done"]
      /\ UNCHANGED <<phase, files, failed, bytes, req, victims, removed, faults>>
  BY DEF Publish
<1>2. /\ flight \in [Keys -> FlightType] /\ entry \in [Entries -> EntryType]
      /\ cache \in [Keys -> Entries \cup {None}] /\ lru \in Seq(Entries)
      /\ NoFlight \in FlightType /\ NoFlight.stage = "none" /\ NoFlight.entry = None
      /\ NoFlight.waiters = 0 /\ e \in Entries \cup {None} /\ flight[k].waiters \in Nat
  BY DEF TypeOK, FlightType, EntryType, NoFlight, Stages
<1>3. cache[k] = None /\ victims[k] = {} /\ phase \in {"down", "open", "builds"}
  BY <1>1 DEF FlightPlaces, Turns, Closing, TypeOK, Phases
<1>4. /\ flight' \in [Keys -> FlightType] /\ \A j \in Keys \ {k} : flight'[j] = flight[j]
      /\ flight'[k].waiters = flight[k].waiters
      /\ idle => flight'[k].stage = "none" /\ flight'[k].entry = None
      /\ ~idle => flight'[k].stage = "done" /\ flight'[k].entry = e
  <2>1. CASE idle
    <3>1. flight' = [flight EXCEPT ![k] = NoFlight]
      BY <1>1, <2>1
    <3> QED BY <1>2, <2>1, <3>1
  <2>2. CASE ~idle
    <3>1. flight' = [flight EXCEPT ![k].stage = "done"]
      BY <1>1, <2>2
    <3>2. /\ flight' \in [Keys -> FlightType] /\ \A j \in Keys \ {k} : flight'[j] = flight[j]
          /\ flight'[k].waiters = flight[k].waiters
          /\ flight'[k].stage = "done" /\ flight'[k].entry = flight[k].entry
      BY <1>2, <3>1 DEF FlightType, Stages
    <3> QED BY <2>2, <3>2
  <2> QED BY <2>1, <2>2
<1>5. e # None => /\ e \in Entries /\ entry[e].pins = 0 /\ entry[e].size = Size[k]
                  /\ n \in Int /\ entry[e].pins + n \in Nat
                  /\ e \in Tracked /\ e \notin Cached
  <2> SUFFICES ASSUME e # None
               PROVE  /\ e \in Entries /\ entry[e].pins = 0 /\ entry[e].size = Size[k]
                      /\ n \in Int /\ entry[e].pins + n \in Nat
                      /\ e \in Tracked /\ e \notin Cached
    OBVIOUS
  <2>1. e \in Entries /\ entry[e].size = Size[k]
    BY <1>1, <1>2 DEF Charged
  <2>2. \A j \in Keys : cache[j] # e /\ ~(flight[j].stage = "done" /\ flight[j].entry = e)
    BY <1>1 DEF Apart
  <2>3. Finished(e) = {}
    BY <2>2 DEF Finished
  <2>4. Readers(e) = {}
    BY <2>2 DEF Readers, Leases
  <2>5. entry[e].pins = Cardinality(Readers(e)) + Cardinality(Finished(e))
    BY <2>1, PinsParts
  <2>6. entry[e].pins = Cardinality({}) + Cardinality({})
    BY <2>3, <2>4, <2>5, Zenon
  <2>7. entry[e].pins = 0
    BY <2>6, FS_EmptySet
  <2>8. e \in Tracked
    BY <1>1, <2>1, TrackedIn DEF Builds
  <2>9. e \notin Cached
    BY <2>1, <2>2, CachedIn
  <2>10. n \in Int /\ 0 + n \in Nat
    OBVIOUS
  <2> HIDE DEF n, e
  <2> QED BY <2>1, <2>7, <2>8, <2>9, <2>10
<1>6. /\ cache' \in [Keys -> Entries \cup {None}] /\ \A j \in Keys \ {k} : cache'[j] = cache[j]
      /\ cache'[k] = e
  BY <1>1, <1>2, <1>3
<1>7. /\ entry' \in [Entries -> EntryType] /\ lru' \in Seq(Entries)
      /\ \A x \in Entries : /\ entry'[x].size = entry[x].size
                            /\ entry'[x].charged = entry[x].charged
                            /\ x # e => entry'[x].pins = entry[x].pins
      /\ e # None => entry'[e].pins = n
  <2>1. CASE e # None
    <3>1. Repin(e, n)
      BY <1>1, <2>1
    <3> HIDE DEF e, n
    <3>2. /\ entry' \in [Entries -> EntryType] /\ entry'[e].pins = entry[e].pins + n
          /\ \A x \in Entries : /\ entry'[x].size = entry[x].size
                                /\ entry'[x].charged = entry[x].charged
                                /\ x # e => entry'[x].pins = entry[x].pins
          /\ lru' \in Seq(Entries)
      BY <1>5, <2>1, <3>1, RepinFacts
    <3> QED BY <1>5, <2>1, <3>2
  <2>2. CASE e = None
    BY <1>1, <1>2, <2>2
  <2> QED BY <2>1, <2>2
<1> HIDE DEF e, idle, n
<1>8. TypeOK'
  BY <1>1, <1>4, <1>6, <1>7 DEF TypeOK, FlightType, EntryType
<1>9. FlightPlaces'
  <2> SUFFICES ASSUME NEW j \in Keys
               PROVE  /\ flight'[j].stage \in Building \cup {"clean"} => flight'[j].entry # None
                      /\ flight'[j].stage \in {"none", "queue"} => flight'[j].entry = None
                      /\ flight'[j].stage # "none" =>
                            cache'[j] = IF flight'[j].stage = "done" THEN flight'[j].entry ELSE None
    BY DEF FlightPlaces
  <2>1. CASE j # k
    BY <1>4, <1>6, <2>1 DEF FlightPlaces
  <2>2. CASE j = k /\ idle
    BY <1>4, <2>2 DEF Building
  <2>3. CASE j = k /\ ~idle
    BY <1>4, <1>6, <2>3 DEF Building
  <2> QED BY <2>1, <2>2, <2>3
<1>10. Apart'
  <2>1. /\ \A j \in Keys : e = cache[j] \/ (j # k /\ e = flight[j].entry) => e = None
        /\ e \notin failed /\ \A d \in Deleters : e \notin victims[d]
    BY <1>1 DEF Apart, e
  <2>2. \A i, j \in Keys : i # j /\ cache'[i] = cache'[j] => cache'[j] = None
    BY <1>6, <2>1 DEF Apart
  <2>3. \A i, j \in Keys :
          i # j /\ flight'[i].entry = flight'[j].entry => flight'[j].entry = None
    <3>1. \A j \in Keys : flight'[j].entry \in {flight[j].entry, None}
      BY <1>4 DEF e
    <3> QED BY <3>1 DEF Apart
  <2>4. \A i, j \in Keys :
          flight'[i].stage # "done" /\ flight'[i].entry = cache'[j] => cache'[j] = None
    <3> SUFFICES ASSUME NEW i \in Keys, NEW j \in Keys,
                        flight'[i].stage # "done", flight'[i].entry = cache'[j]
                 PROVE  cache'[j] = None
      OBVIOUS
    <3>1. CASE i = k
      BY <1>4, <3>1
    <3>2. CASE i # k /\ j = k
      BY <1>4, <1>6, <2>1, <3>2
    <3>3. CASE i # k /\ j # k
      BY <1>4, <1>6, <3>3 DEF Apart
    <3> QED BY <3>1, <3>2, <3>3
  <2>5. \A d \in Deleters : None \notin victims[d]
    BY Distinct DEF TypeOK
  <2>6. None \notin failed
    BY Distinct DEF TypeOK
  <2>7. \A d \in Deleters : \A j \in Keys : cache'[j] \notin victims'[d]
    BY <1>1, <1>6, <2>1 DEF Apart
  <2>8. \A d \in Deleters : \A j \in Keys :
           flight'[j].stage # "clean" => flight'[j].entry \notin victims'[d]
    BY <1>1, <1>4, <2>1, <2>5 DEF Apart
  <2>9. \A j \in Keys : /\ cache'[j] \notin failed'
                        /\ flight'[j].stage # "clean" => flight'[j].entry \notin failed'
    BY <1>1, <1>4, <1>6, <2>1, <2>6 DEF Apart
  <2>10. /\ \A d \in Deleters : victims'[d] \cap failed' = {}
         /\ \A c, d \in Deleters : c # d => victims'[c] \cap victims'[d] = {}
    BY <1>1 DEF Apart
  <2> QED BY <2>2, <2>3, <2>4, <2>7, <2>8, <2>9, <2>10 DEF Apart
<1>11. Turns'
  <2>1. \A j \in Keys : victims[j] # {} => flight'[j].stage \in {"reserve", "clean"}
    BY <1>3, <1>4 DEF Turns
  <2> QED BY <1>1, <2>1 DEF Turns
<1>12. \A x \in Entries : x \in Tracked' <=> x \in Tracked
  <2> SUFFICES ASSUME NEW x \in Entries PROVE x \in Tracked' <=> x \in Tracked
    OBVIOUS
  <2>1. CASE x = e
    <3>1. cache'[k] = x
      BY <1>6, <2>1
    <3> QED BY <1>5, <2>1, <3>1, Distinct, TrackedInNext
  <2>2. CASE x # e
    <3>1. \A j \in Keys : (Builds(j)' /\ flight'[j].entry = x) <=> (Builds(j) /\ flight[j].entry = x)
      <4>1. x # None
        BY Distinct
      <4> QED BY <1>4, <2>2, <4>1 DEF Builds, e
    <3>2. (\E j \in Keys : Builds(j)' /\ flight'[j].entry = x)
             <=> (\E j \in Keys : Builds(j) /\ flight[j].entry = x)
      BY <3>1
    <3>3. \A j \in Keys : cache'[j] = x <=> cache[j] = x
      BY <1>3, <1>6, <2>2, Distinct
    <3>4. /\ x \in failed' <=> x \in failed
          /\ (\E d \in Deleters : x \in victims'[d]) <=> (\E d \in Deleters : x \in victims[d])
      BY <1>1
    <3>5. (\E j \in Keys : cache'[j] = x) <=> (\E j \in Keys : cache[j] = x)
      BY <3>3
    <3> QED BY <3>2, <3>4, <3>5, TrackedIn, TrackedInNext
  <2> QED BY <2>1, <2>2
<1>13. Tracked' = Tracked
  BY <1>8, <1>12, TrackedSame
<1>14. Linked'
  BY <1>1, <1>13 DEF Linked
<1>15. Leases'
  <2> SUFFICES ASSUME NEW r \in Reqs
               PROVE  /\ req'[r].step # "idle" => req'[r].key \in Keys
                      /\ req'[r].step \in {"open", "read", "missing", "remove"} =>
                            req'[r].entry \in Entries
                      /\ req'[r].step \in {"open", "read"} => cache'[req'[r].key] = req'[r].entry
    BY DEF Leases
  <2>1. Leasing(r) => req[r].key # k
    BY <1>3, Distinct DEF Leases, Leasing
  <2> QED BY <1>1, <1>6, <2>1 DEF Leases, Leasing
<1>16. Charged'
  <2>1. \A x \in Entries : /\ x \in Tracked' => entry'[x].size <= entry'[x].charged
                           /\ x \notin Tracked' => entry'[x].charged = 0
    BY <1>7, <1>13 DEF Charged
  <2>2. ASSUME NEW j \in Keys
        PROVE  /\ flight'[j].stage \in {"write", "reserve"} =>
                     entry'[flight'[j].entry].charged = RoundUp(entry'[flight'[j].entry].size)
               /\ flight'[j].stage = "data" =>
                     entry'[flight'[j].entry].charged
                        = RoundUp(entry'[flight'[j].entry].size + flight'[j].want)
               /\ flight'[j].stage = "publish" /\ flight'[j].entry # None =>
                     entry'[flight'[j].entry].size = Size[j]
               /\ cache'[j] # None => entry'[cache'[j]].size = Size[j]
    <3>1. CASE j = k
      BY <1>4, <1>5, <1>6, <1>7, <3>1
    <3>2. CASE j # k
      <4>1. /\ flight'[j] = flight[j] /\ cache'[j] = cache[j]
            /\ flight[j].entry \in Entries \cup {None} /\ cache[j] \in Entries \cup {None}
        BY <1>2, <1>4, <1>6, <3>2 DEF FlightType
      <4>2. flight[j].stage \in Building => flight[j].entry # None
        BY DEF FlightPlaces
      <4> QED BY <1>7, <4>1, <4>2 DEF Charged, Building
    <3> QED BY <3>1, <3>2
  <2> QED BY <2>1, <2>2 DEF Charged
<1>17. Budget'
  <2>1. Charges' = Charges
    BY <1>7 DEF Charges
  <2> QED BY <1>1, <2>1 DEF Budget, Sum
<1>18. ASSUME NEW x \in Entries
       PROVE  entry'[x].pins = Cardinality(Readers(x)') + Cardinality(Finished(x)')
  <2>1. /\ entry[x].pins = Cardinality(Readers(x)) + Cardinality(Finished(x))
        /\ IsFiniteSet(Finished(x)) /\ Cardinality(Finished(x)) \in Nat
        /\ Cardinality(Readers(x)) \in Nat
    BY PinsParts, PinCounts
  <2>2. Readers(x)' = Readers(x)
    BY <1>1 DEF Readers
  <2>3. k \notin Finished(x)
    BY <1>1 DEF Finished
  <2>4. CASE x = e /\ ~idle
    <3>1. Finished(x)' = Finished(x) \cup {k}
      BY <1>4, <2>4 DEF Finished
    <3>2. Cardinality(Finished(x)') = Cardinality(Finished(x)) + 1
      BY <2>1, <2>3, <3>1, CountAdd
    <3>3. entry[x].pins = 0 /\ entry'[x].pins = 1
      BY <1>2, <1>5, <1>7, <2>4, Distinct DEF n, idle
    <3> QED BY <2>1, <2>2, <3>2, <3>3
  <2>5. CASE x # e \/ idle
    <3>1. Finished(x)' = Finished(x)
      <4>1. \A j \in Keys : (flight'[j].stage = "done" /\ flight'[j].entry = x)
                               <=> (flight[j].stage = "done" /\ flight[j].entry = x)
        BY <1>1, <1>4, <2>5
      <4> QED BY <4>1 DEF Finished
    <3>2. entry'[x].pins = entry[x].pins
      BY <1>5, <1>7, <2>5, Distinct DEF n, idle
    <3> QED BY <2>1, <2>2, <3>1, <3>2
  <2> QED BY <2>4, <2>5
<1>19. IdleRight'
  <2>1. CASE e # None
    <3>1. \A x \in Entries : x \in Cached' <=> (x \in Cached \/ x = e)
      <4> SUFFICES ASSUME NEW x \in Entries PROVE x \in Cached' <=> (x \in Cached \/ x = e)
        OBVIOUS
      <4>1. (\E j \in Keys : cache'[j] = x) <=> (\E j \in Keys : cache[j] = x) \/ x = e
        BY <1>3, <1>6, Distinct
      <4> QED BY <4>1, CachedIn, CachedInNext
    <3>2. Repin(e, n)
      BY <1>1, <2>1 DEF e, n
    <3> QED BY <1>5, <1>6, <2>1, <3>1, <3>2, RepinIdle
  <2>2. CASE e = None
    <3>1. entry' = entry /\ lru' = lru /\ cache' = cache
      BY <1>1, <2>2 DEF e
    <3> QED BY <3>1, PinsParts DEF IdleRight, Idle, Cached, Injective
  <2> QED BY <2>1, <2>2
<1>20. PinsAccounted'
  BY <1>18, <1>19, PinsPartsNext
<1>21. Waits'
  <2>1. ASSUME NEW j \in Keys PROVE Waiters(j)' = Waiters(j)
    BY <1>1 DEF Waiters
  <2>2. \A j \in Keys : /\ flight'[j].waiters = flight[j].waiters
                        /\ flight'[j].stage = "done" => flight'[j].waiters > 0
    <3> SUFFICES ASSUME NEW j \in Keys
                 PROVE  /\ flight'[j].waiters = flight[j].waiters
                        /\ flight'[j].stage = "done" => flight'[j].waiters > 0
      OBVIOUS
    <3>1. CASE j = k
      <4>1. flight'[j].stage = "done" => flight[k].waiters # 0
        BY <1>4, <3>1 DEF idle
      <4>2. flight[k].waiters # 0 => flight[k].waiters > 0
        BY <1>2
      <4> QED BY <1>4, <3>1, <4>1, <4>2
    <3>2. CASE j # k
      BY <1>4, <3>2 DEF Waits
    <3> QED BY <3>1, <3>2
  <2> QED BY <2>1, <2>2 DEF Waits, Waiters
<1>22. Closing'
  BY <1>1, <1>3 DEF Closing
<1> QED BY <1>8, <1>9, <1>10, <1>11, <1>14, <1>15, <1>16, <1>17, <1>20, <1>21, <1>22

LEMMA BuildStepInv ==
  ASSUME Inv, NEW k \in Keys, BuildStep(k)
  PROVE  Inv'
BY StartBuildInv, ShedBuildInv, ReserveInv, EvictInv, ReserveFailsInv, WriteDataInv,
   WriteFailsInv, BuildFailsInv, CleanedInv, BuiltInv, PublishInv, WriteInv DEF BuildStep

-----------------------------------------------------------------------------
(***************************************************************************)
(* The life of the process                                                 *)
(***************************************************************************)

\* Close has waited for something.
LEMMA AdvanceFrame ==
  ASSUME Inv, NEW from, NEW to \in Phases, Advance(from, to),
         from # "down", to # "down", from # "released", Closing'
  PROVE  Inv'
<1> USE DEF Inv
<1>1. /\ phase = from /\ phase' = to
      /\ UNCHANGED <<files, entry, cache, lru, failed, bytes, flight, req, victims, removed,
                     faults>>
  BY DEF Advance
<1>2. TypeOK' /\ FlightPlaces' /\ Apart' /\ Leases'
  BY <1>1 DEF TypeOK, FlightPlaces, Apart, Leases
<1>3. Turns'
  BY <1>1 DEF Turns
<1>4. Tracked' = Tracked
  BY <1>1 DEF Tracked, InBuild, Cached, InDeletion
<1>5. Linked'
  BY <1>1, <1>4 DEF Linked
<1>6. Charged' /\ Budget'
  BY <1>1, <1>4, BooksFrame
<1>7. PinsAccounted'
  BY <1>1 DEF PinsAccounted, Readers, Finished, Idle, Cached
<1>8. Waits'
  BY <1>1 DEF Waits
<1> QED BY <1>2, <1>3, <1>5, <1>6, <1>7, <1>8

LEMMA CloseStepInv ==
  ASSUME Inv, BeginClose \/ CloseStep
  PROVE  Inv'
<1>1. CASE BeginClose
  <2>1. Advance("open", "builds")
    BY <1>1 DEF BeginClose
  <2>2. Closing'
    BY <2>1 DEF Advance, Closing
  <2> QED BY <2>1, <2>2, AdvanceFrame DEF Phases
<1>2. CASE BuildsEnded
  <2>1. Advance("builds", "requests") /\ \A k \in Flights : flight[k].stage = "done"
    BY <1>2 DEF BuildsEnded
  <2>2. \A k \in Keys : flight'[k].stage \in {"none", "done"}
    BY <2>1 DEF Advance, Flights
  <2>3. Closing'
    BY <2>1, <2>2 DEF Advance, Closing
  <2> QED BY <2>1, <2>3, AdvanceFrame DEF Phases
<1>3. CASE RequestsEnded
  <2>1. Advance("requests", "leases") /\ \A r \in Reqs : req[r].step # "wait"
    BY <1>3 DEF RequestsEnded
  <2>2. Closing'
    BY <2>1 DEF Inv, Advance, Closing
  <2> QED BY <2>1, <2>2, AdvanceFrame DEF Phases
<1>4. CASE LeasesEnded
  <2>1. Advance("leases", "sweep") /\ \A r \in Reqs : req[r].step \notin {"open", "read"}
    BY <1>4 DEF LeasesEnded
  <2>2. Closing'
    BY <2>1 DEF Inv, Advance, Closing
  <2> QED BY <2>1, <2>2, AdvanceFrame DEF Phases
<1>5. CASE CloseSweeps
  BY <1>5, CloseSweepsInv
<1> QED BY <1>1, <1>2, <1>3, <1>4, <1>5 DEF CloseStep

\* A process that knows of no file has correct books.
LEMMA FreshNext ==
  ASSUME phase' \in Phases, files' \subseteq Entries, faults' \in 0..MaxFaults,
         phase' \in {"down", "open"}, phase' = "open" => files' = {},
         entry' \in [Entries -> EntryType],
         \A e \in Entries : entry'[e].pins = 0 /\ entry'[e].charged = 0,
         cache' = [k \in Keys |-> None], lru' = <<>>, failed' = {}, bytes' = 0,
         flight' = [k \in Keys |-> NoFlight], req' = [r \in Reqs |-> NoReq],
         victims' = [d \in Deleters |-> {}], removed' = [d \in Deleters |-> NotYet]
  PROVE  Inv'
<1>1. /\ NoFlight \in FlightType /\ NoFlight.stage = "none" /\ NoFlight.entry = None
      /\ NoFlight.waiters = 0 /\ NoReq \in ReqType /\ NoReq.step = "idle"
      /\ NotYet \in RemovedType /\ ~NotYet.ok
  BY DEF NoFlight, FlightType, Stages, NoReq, ReqType, Steps, NotYet, RemovedType
<1>2. /\ \A k \in Keys : flight'[k] = NoFlight /\ cache'[k] = None
      /\ \A r \in Reqs : req'[r] = NoReq
      /\ \A d \in Deleters : victims'[d] = {} /\ removed'[d] = NotYet
  OBVIOUS
<1>3. TypeOK'
  <2>1. flight' \in [Keys -> FlightType] /\ req' \in [Reqs -> ReqType]
    BY <1>1
  <2>2. removed' \in [Deleters -> RemovedType] /\ victims' \in [Deleters -> SUBSET Entries]
    BY <1>1
  <2>3. lru' \in Seq(Entries) /\ cache' \in [Keys -> Entries \cup {None}]
    OBVIOUS
  <2> QED BY <2>1, <2>2, <2>3 DEF TypeOK, FlightType, ReqType, RemovedType, EntryType
<1>4. FlightPlaces'
  BY <1>1, <1>2 DEF FlightPlaces, Building
<1>5. Apart'
  BY <1>1, <1>2 DEF Apart
<1>6. Turns'
  BY <1>1, <1>2, Distinct DEF Turns
<1>7. \A e \in Entries : e \notin Tracked'
  BY <1>1, <1>2, Distinct, TrackedInNext
<1>8. Linked'
  BY DEF Linked
<1>9. Leases'
  BY <1>1, <1>2 DEF Leases
<1>10. Charged'
  BY <1>1, <1>2, <1>7 DEF Charged
<1>11. Budget'
  <2>1. Charges' \in [Entries -> Nat] /\ \A e \in Entries : Charges'[e] = 0
    BY DEF Charges
  <2>2. Sum({}, Charges') = Sum(Entries, Charges')
    <3> HIDE DEF Charges
    <3> QED BY <2>1, SumZero
  <2>3. Sum({}, Charges') = 0
    <3>1. Sum({}, Charges') = Cardinality({})
      BY DEF Sum
    <3> QED BY <3>1, FS_EmptySet
  <2> QED BY <2>2, <2>3, ZstdAssumption DEF Budget, Sum
<1>12. PinsAccounted'
  <2>1. ASSUME NEW e \in Entries
        PROVE  entry'[e].pins = Cardinality(Readers(e)') + Cardinality(Finished(e)')
    <3>1. Readers(e)' = {} /\ Finished(e)' = {}
      BY <1>1, <1>2 DEF Readers, Finished
    <3>2. Cardinality(Readers(e)') = 0 /\ Cardinality(Finished(e)') = 0
      BY <3>1, FS_EmptySet
    <3> QED BY <3>2
  <2>2. IdleRight'
    <3>1. Idle' = {} /\ Cached' = {} /\ Injective(lru)'
      BY <1>2 DEF Idle, Cached, Injective
    <3> QED BY <3>1 DEF IdleRight
  <2> QED BY <2>1, <2>2, PinsPartsNext
<1>13. Waits'
  <2>1. ASSUME NEW k \in Keys PROVE Waiters(k)' = {}
    BY <1>1, <1>2 DEF Waiters
  <2>2. ASSUME NEW k \in Keys PROVE Cardinality(Waiters(k)') = 0
    BY <2>1, FS_EmptySet
  <2> QED BY <1>1, <1>2, <2>2 DEF Waits, Waiters
<1>14. Closing'
  BY <1>1, <1>2 DEF Closing
<1> QED BY <1>3, <1>4, <1>5, <1>6, <1>8, <1>9, <1>10, <1>11, <1>12, <1>13, <1>14 DEF Inv

LEMMA ExitInv ==
  ASSUME Inv, Exit
  PROVE  Inv'
<1>1. /\ entry \in [Entries -> EntryType] /\ files \subseteq Entries /\ faults \in 0..MaxFaults
  BY DEF Inv, TypeOK, EntryType
<1>2. /\ entry' \in [Entries -> EntryType]
      /\ \A e \in Entries : entry'[e].pins = 0 /\ entry'[e].charged = 0
  BY <1>1 DEF Exit, EntryType
<1> QED BY <1>1, <1>2, FreshNext DEF Exit, Phases

LEMMA InitZstdCacheInv ==
  ASSUME Inv, InitZstdCache
  PROVE  Inv'
<1> USE DEF Inv
<1>1. /\ phase = "down" /\ phase' \in {"down", "open"} /\ files' \subseteq files
      /\ phase' = "open" => files' = {}
      /\ UNCHANGED <<entry, cache, lru, failed, bytes, flight, req, victims, removed>>
  BY DEF InitZstdCache
<1>2. faults' \in 0..MaxFaults
  <2>1. faults \in 0..MaxFaults
    BY DEF TypeOK
  <2> QED BY <2>1, ZstdAssumption DEF InitZstdCache, Fault
<1>3. TypeOK'
  BY <1>1, <1>2 DEF TypeOK, Phases
<1>4. FlightPlaces' /\ Apart' /\ Leases'
  BY <1>1 DEF FlightPlaces, Apart, Leases
<1>5. Turns'
  BY <1>1 DEF Turns
<1>6. Tracked' = Tracked
  BY <1>1 DEF Tracked, InBuild, Cached, InDeletion
<1>7. Linked'
  BY <1>1 DEF Linked
<1>8. Charged' /\ Budget'
  BY <1>1, <1>6, BooksFrame
<1>9. PinsAccounted'
  BY <1>1 DEF PinsAccounted, Readers, Finished, Idle, Cached
<1>10. Waits'
  BY <1>1 DEF Waits
<1>11. Closing'
  BY <1>1 DEF Closing
<1> QED BY <1>3, <1>4, <1>5, <1>7, <1>8, <1>9, <1>10, <1>11

-----------------------------------------------------------------------------
(***************************************************************************)
(* The invariant holds                                                     *)
(***************************************************************************)

LEMMA InitInv == Init => Inv
<1> SUFFICES ASSUME Init PROVE Inv
  OBVIOUS
<1>1. /\ phase = "down" /\ files = {} /\ faults = 0
      /\ entry = [e \in Entries |-> [pins |-> 0, size |-> 0, charged |-> 0]]
      /\ cache = [k \in Keys |-> None] /\ lru = <<>> /\ failed = {} /\ bytes = 0
      /\ flight = [k \in Keys |-> NoFlight] /\ req = [r \in Reqs |-> NoReq]
      /\ victims = [d \in Deleters |-> {}] /\ removed = [d \in Deleters |-> NotYet]
  BY DEF Init, Fresh
<1>2. /\ NoFlight \in FlightType /\ NoFlight.stage = "none" /\ NoFlight.entry = None
      /\ NoFlight.waiters = 0 /\ NoReq \in ReqType /\ NoReq.step = "idle"
      /\ NotYet \in RemovedType /\ ~NotYet.ok
  BY DEF NoFlight, FlightType, Stages, NoReq, ReqType, Steps, NotYet, RemovedType
<1>3. /\ \A k \in Keys : flight[k] = NoFlight /\ cache[k] = None
      /\ \A r \in Reqs : req[r] = NoReq
      /\ \A d \in Deleters : victims[d] = {} /\ removed[d] = NotYet
      /\ \A e \in Entries : entry[e].pins = 0 /\ entry[e].charged = 0
  BY <1>1
<1>4. TypeOK
  <2>1. flight \in [Keys -> FlightType] /\ req \in [Reqs -> ReqType]
    BY <1>1, <1>2
  <2>2. removed \in [Deleters -> RemovedType] /\ victims \in [Deleters -> SUBSET Entries]
    BY <1>1, <1>2
  <2>3. /\ lru \in Seq(Entries) /\ cache \in [Keys -> Entries \cup {None}]
        /\ entry \in [Entries -> EntryType]
    BY <1>1 DEF EntryType
  <2>4. phase \in Phases /\ faults \in 0..MaxFaults
    BY <1>1, ZstdAssumption DEF Phases
  <2> QED BY <1>1, <2>1, <2>2, <2>3, <2>4 DEF TypeOK, FlightType, ReqType, RemovedType, EntryType
<1>5. FlightPlaces
  BY <1>2, <1>3 DEF FlightPlaces, Building
<1>6. Apart
  BY <1>1, <1>2, <1>3 DEF Apart
<1>7. Turns
  BY <1>2, <1>3, Distinct DEF Turns
<1>8. \A e \in Entries : e \notin Tracked
  BY <1>1, <1>2, <1>3, Distinct, TrackedIn
<1>9. Linked
  BY <1>1 DEF Linked
<1>10. Leases
  BY <1>2, <1>3 DEF Leases
<1>11. Charged
  BY <1>2, <1>3, <1>8 DEF Charged, Building
<1>12. Budget
  <2>1. Charges \in [Entries -> Nat] /\ \A e \in Entries : Charges[e] = 0
    BY <1>3 DEF Charges
  <2>2. Sum({}, Charges) = Sum(Entries, Charges)
    <3> HIDE DEF Charges
    <3> QED BY <2>1, SumZero
  <2>3. Sum({}, Charges) = 0
    <3>1. Sum({}, Charges) = Cardinality({})
      BY DEF Sum
    <3> QED BY <3>1, FS_EmptySet
  <2> QED BY <1>1, <2>2, <2>3, ZstdAssumption DEF Budget
<1>13. PinsAccounted
  <2>1. ASSUME NEW e \in Entries
        PROVE  entry[e].pins = Cardinality(Readers(e)) + Cardinality(Finished(e))
    <3>1. Readers(e) = {} /\ Finished(e) = {}
      BY <1>2, <1>3 DEF Readers, Finished
    <3>2. Cardinality(Readers(e)) = 0 /\ Cardinality(Finished(e)) = 0
      BY <3>1, FS_EmptySet
    <3> QED BY <1>3, <3>2
  <2>2. IdleRight
    <3>1. Idle = {} /\ Cached = {} /\ Injective(lru)
      BY <1>1, <1>3 DEF Idle, Cached, Injective
    <3> QED BY <3>1 DEF IdleRight
  <2> QED BY <2>1, <2>2, PinsParts
<1>14. Waits
  <2>1. ASSUME NEW k \in Keys PROVE Waiters(k) = {}
    BY <1>2, <1>3 DEF Waiters
  <2>2. ASSUME NEW k \in Keys PROVE Cardinality(Waiters(k)) = 0
    BY <2>1, FS_EmptySet
  <2> QED BY <1>2, <1>3, <2>2 DEF Waits, Waiters
<1>15. Closing
  BY <1>1 DEF Closing
<1> QED BY <1>4, <1>5, <1>6, <1>7, <1>9, <1>10, <1>11, <1>12, <1>13, <1>14, <1>15 DEF Inv

LEMMA NextInv == Inv /\ [Next]_vars => Inv'
<1> SUFFICES ASSUME Inv, [Next]_vars PROVE Inv'
  OBVIOUS
<1>1. ASSUME NEW d \in Deleters, DeleteStep(d) PROVE Inv'
  BY <1>1, RemoveInv, RemoveFailsInv, AccountInv DEF DeleteStep
<1>2. ASSUME NEW r \in Reqs, NEW k \in Keys, Arrive(r, k) PROVE Inv'
  BY <1>2, ArriveInv
<1>3. ASSUME NEW r \in Reqs, Disconnect(r) \/ LeaseStep(r) PROVE Inv'
  BY <1>3, DisconnectInv, LeaseFailsInv, LeaseHitInv, LeaseWaitInv, WakeInv DEF LeaseStep
<1>4. ASSUME NEW r \in Reqs, FileStep(r) \/ RetryStep(r) PROVE Inv'
  BY <1>4, FileStepInv, RemoveMissingInv, TryAgainInv DEF RetryStep
<1>5. ASSUME NEW k \in Keys, BuildStep(k) PROVE Inv'
  BY <1>5, BuildStepInv
<1>6. CASE Sweep
  BY <1>6, SweepInv
<1>7. CASE BeginClose \/ CloseStep
  BY <1>7, CloseStepInv
<1>8. CASE Exit
  BY <1>8, ExitInv
<1>9. CASE InitZstdCache
  BY <1>9, InitZstdCacheInv
<1>10. CASE Reap
  BY <1>10, ReapInv
<1>11. CASE UNCHANGED vars
  <2>1. /\ UNCHANGED <<phase, entry, cache, lru, failed, bytes, flight, req, victims>>
        /\ files' = files /\ faults' = faults /\ removed' = removed
    BY <1>11 DEF vars
  <2>2. faults' \in 0..MaxFaults /\ removed' \in [Deleters -> RemovedType]
    BY <2>1 DEF Inv, TypeOK, RemovedType
  <2>3. \A d \in Deleters :
           /\ removed'[d] = NotYet \/ removed'[d].entry \in victims[d]
           /\ removed'[d].ok => removed'[d].entry \notin files'
    BY <2>1 DEF Inv, Turns
  <2> QED BY <2>1, <2>2, <2>3, VanishFrame
<1> QED BY <1>1, <1>2, <1>3, <1>4, <1>5, <1>6, <1>7, <1>8, <1>9, <1>10, <1>11 DEF Next

LEMMA SpecInv == Spec => []Inv
BY InitInv, NextInv, PTL DEF Spec

-----------------------------------------------------------------------------
(***************************************************************************)
(* What the cache promises                                                 *)
(***************************************************************************)

LEMMA InvBytes == Inv => BytesAccounted
<1> SUFFICES ASSUME Inv PROVE BytesAccounted
  OBVIOUS
<1>1. TypeOK /\ Budget /\ Charged
  BY DEF Inv
<1>2. Tracked \in SUBSET Entries
  BY <1>1, TrackedType
<1>3. Charges \in [Entries -> Nat] /\ \A e \in Entries \ Tracked : Charges[e] = 0
  BY <1>1 DEF Charges, TypeOK, Charged
<1>4. Sum(Tracked, Charges) = Sum(Entries, Charges)
  <2> HIDE DEF Charges, Tracked
  <2> QED BY <1>2, <1>3, SumZero
<1> QED BY <1>1, <1>4 DEF Budget, BytesAccounted

\* The types are right; zstdCacheBytes is the sum of what reserveZstd charged for
\* the entries being built, cached, retired or kept in zstdFailed, and deleteZstd
\* gave back each charge once; an entry has one pin per lease and one for a
\* finished flight, and zstdLRU holds the unpinned entries, each once.
THEOREM AccountedCorrect == Spec => []Accounted
<1>1. Inv => Accounted
  BY InvBytes DEF Inv, Accounted
<1> QED BY <1>1, SpecInv, PTL

\* The files of the running server and the unlinked files it still reads or
\* writes hold no more than zstdCacheBytes, and that is within zstdCacheLimit.
THEOREM DiskWithinBudgetCorrect == Spec => []DiskWithinBudget
<1>1. Inv => DiskWithinBudget
  <2> SUFFICES ASSUME Inv, phase # "down"
               PROVE  Sum(OnDisk, Sizes) <= bytes /\ bytes <= Limit
    BY DEF DiskWithinBudget
  <2>1. TypeOK /\ Budget /\ Charged /\ Linked /\ Leases /\ FlightPlaces
    BY DEF Inv
  <2>2. Tracked \in SUBSET Entries
    BY <2>1, TrackedType
  <2>3. OnDisk \subseteq Tracked
    <3> SUFFICES ASSUME NEW e \in OnDisk PROVE e \in Tracked
      OBVIOUS
    <3>1. CASE e \in files
      BY <2>1, <3>1 DEF Linked
    <3>2. ASSUME NEW r \in Reqs, req[r].step = "read", e = req[r].entry
          PROVE  e \in Tracked
      <4>1. e \in Entries /\ req[r].key \in Keys /\ cache[req[r].key] = e
        BY <2>1, <3>2 DEF Leases
      <4> QED BY <4>1, TrackedIn
    <3>3. ASSUME NEW k \in Keys, flight[k].stage \in Building, e = flight[k].entry
          PROVE  e \in Tracked
      <4>1. e \in Entries
        BY <3>3, BuildFacts
      <4> QED BY <3>3, <4>1, TrackedIn DEF Builds
    <3> QED BY <3>1, <3>2, <3>3 DEF OnDisk
  <2>4. /\ Sizes \in [Entries -> Nat] /\ Charges \in [Entries -> Nat]
        /\ \A e \in OnDisk : Sizes[e] <= Charges[e]
    BY <2>1, <2>2, <2>3 DEF Sizes, Charges, TypeOK, Charged
  <2>5. OnDisk \in SUBSET Entries
    BY <2>2, <2>3
  <2>6. Sum(OnDisk, Sizes) <= Sum(Entries, Charges)
    <3> HIDE DEF OnDisk, Sizes, Charges
    <3> QED BY <2>4, <2>5, SumMono
  <2> QED BY <2>1, <2>6 DEF Budget
<1> QED BY <1>1, SpecInv, PTL

\* A request that opens or reads a file has the cached entry of the NAR it asked
\* for, written to its end: an entry in use is never retired, whoever sweeps,
\* evicts or finds a file missing (pinZstdLocked, removeMissingZstd).
THEOREM ServesWholeCorrect == Spec => []ServesWhole
<1>1. Inv => ServesWhole
  <2> SUFFICES ASSUME Inv, NEW r \in Reqs, req[r].step \in {"open", "read"}
               PROVE  entry[req[r].entry].size = Size[req[r].key]
                      /\ cache[req[r].key] = req[r].entry
    BY DEF ServesWhole
  <2>1. /\ req[r].key \in Keys /\ req[r].entry \in Entries
        /\ cache[req[r].key] = req[r].entry
    BY DEF Inv, Leases
  <2>2. entry[req[r].entry].size = Size[req[r].key]
    BY <2>1, Distinct DEF Inv, Charged
  <2> QED BY <2>1, <2>2
<1> QED BY <1>1, SpecInv, PTL

\* When Close releases the directory no request reads, no build runs, nothing is
\* cached, and every file left is one that cannot be or is being deleted.
THEOREM CloseReleasesAllCorrect == Spec => []CloseReleasesAll
<1>1. Inv => CloseReleasesAll
  <2> SUFFICES ASSUME Inv, phase = "released"
               PROVE  /\ \A r \in Reqs : req[r].step \notin {"open", "read"}
                      /\ Flights = {} /\ Cached = {}
                      /\ files \subseteq failed \cup InDeletion
    BY DEF CloseReleasesAll
  <2>1. /\ \A r \in Reqs : req[r].step \notin {"open", "read", "wait"}
        /\ \A k \in Keys : flight[k].stage \in {"none", "done"} /\ cache[k] = None
    BY DEF Inv, Closing
  <2>2. ASSUME NEW k \in Keys PROVE flight[k].stage = "none"
    <3>1. Waiters(k) = {}
      BY <2>1 DEF Waiters
    <3>2. flight[k].waiters = Cardinality(Waiters(k))
      BY DEF Inv, Waits, Waiters
    <3>3. flight[k].waiters = 0
      BY <3>1, <3>2, FS_EmptySet
    <3>4. flight[k].stage = "done" => flight[k].waiters > 0
      BY DEF Inv, Waits
    <3> QED BY <2>1, <3>3, <3>4
  <2>3. Flights = {} /\ Cached = {}
    BY <2>1, <2>2 DEF Flights, Cached
  <2>4. InBuild = {}
    BY <2>2 DEF InBuild, Building
  <2>5. files \subseteq Tracked
    BY DEF Inv, Linked
  <2> QED BY <2>1, <2>3, <2>4, <2>5 DEF Tracked
<1> QED BY <1>1, SpecInv, PTL

=============================================================================
