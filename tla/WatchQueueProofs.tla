--------------------------- MODULE WatchQueueProofs ---------------------------
(***************************************************************************)
(* Proofs about WatchQueue, for any paths, numbers of rows, page sizes and *)
(* scenarios: its types, that no registration is lost between the source   *)
(* and the queue, and that a drain that reports success has delivered what *)
(* was there when the stop was requested.                                  *)
(***************************************************************************)
EXTENDS WatchQueue, FiniteSetTheorems, WellFoundedInduction, TLAPS

LatestType == [id : Nat, path : Paths \cup {NoPath}]

\* The process has opened its state; it drains; it has set the boundary.
Started  == pc \notin {"down", "open", "create"}
Draining == pc \in DrainPC \/ (pc \in {"upload", "record"} /\ back = "drefresh")
Bounded  == Draining /\ pc \notin {"begin", "boundary"}

\* Nix numbers the registrations of a database upwards, and each once.
Numbered ==
    /\ \A s \in Sources, p \in Paths : rows[s][p] < nextId[s]
    /\ \A s \in Sources, p, q \in Paths : rows[s][p] # 0 /\ rows[s][p] = rows[s][q] => p = q

\* The checkpoint follows a database that exists and numbers that it has given.
Followed ==
    /\ handle <= source /\ cp.source <= source
    /\ made # "ready" => cp = NoCheckpoint
    /\ pc = "create" => made = "empty"
    /\ Started => made = "ready" /\ cp.source = handle
    /\ latest.id < nextId[handle]
    /\ pc \notin {"open", "create"} => latest = NoLatest
    /\ cp.cursor < nextId[cp.source] /\ cp.boundary < nextId[cp.source]

\* What is accounted for without a row in the queue.
Settled(p) ==
    \/ <<source, rows[source][p]>> \in base \cup sent
    \/ rows[source][p] > cp.cursor

WorkKept ==
    made = "ready" /\ cp.source = source => \A p \in Valid(source) : Settled(p) \/ pend[p] # NoRow

\* Record may drop the rows of what was uploaded.
Uploaded ==
    pc = "record" /\ cp.source = source =>
        \A p \in (active \ failed) \cap Valid(source) : Settled(p)

\* Discovery that calls itself finished has nothing between cursor and boundary.
Complete ==
    cp.discovered /\ cp.boundary # Null =>
        \A p \in Paths : LET id == rows[cp.source][p] IN
            id # 0 => id <= cp.cursor \/ id > cp.boundary

\* What a stop asks for is within the boundary of the drain that answers it.
Asked ==
    /\ \A reg \in owed : reg[1] = source /\ reg[2] < nextId[source]
    /\ Draining => stopping
    /\ owed # {} /\ Draining /\ pc # "begin" => handle = source
    /\ Bounded => cp.boundary # Null
    /\ Bounded => \A p \in Paths :
          <<source, rows[source][p]>> \in owed => rows[source][p] <= cp.boundary
    /\ result # "none" => pc = "down"

Attempted ==
    /\ \A p \in Paths : pend[p].final <= cp.generation
    /\ pc \in {"dclean", "dready", "dcomplete"} =>
          \A p \in NotExpired : pend[p].final = cp.generation
    /\ pc = "dcomplete" => cp.discovered
    /\ pc # "record" => failed = {}
    /\ active \subseteq Pending

Inv == /\ TypeOK /\ Numbered /\ Followed /\ WorkKept /\ Uploaded /\ Complete
       /\ Asked /\ Attempted /\ DrainDelivers

-----------------------------------------------------------------------------
(***************************************************************************)
(* Operators and updates.                                                  *)
(***************************************************************************)
LEMMA Least ==
    ASSUME NEW T \in SUBSET Nat, T # {}
    PROVE  \E n \in T : \A m \in T : n <= m
<1> DEFINE R == {ss \in Nat \X Nat : ss[1] < ss[2]}
<1>1. IsWellFoundedOn(R, Nat)
  BY NatLessThanWellFounded DEF OpToRel
<1>2. \E n \in T : \A m \in T : ~ (<<m, n>> \in R)
  <2> HIDE DEF R
  <2> QED BY <1>1, WFMin
<1>3. PICK n \in T : \A m \in T : ~ (<<m, n>> \in R)
  BY <1>2
<1>4. ASSUME NEW m \in T PROVE n <= m
  <2>1. m \in Nat /\ n \in Nat /\ ~ (<<m, n>> \in R)
    BY <1>3
  <2>2. ~ (m < n)
    BY <2>1
  <2> QED BY <2>1, <2>2
<1> QED BY <1>4

LEMMA LatestIs ==
    ASSUME TypeOK, NEW s \in Sources
    PROVE  /\ Latest(s) \in LatestType
           /\ \A p \in Paths : rows[s][p] <= Latest(s).id
           /\ Latest(s).id # 0 => \E p \in Paths : Latest(s).id = rows[s][p]
<1>1. rows[s] \in [Paths -> 0..MaxId] /\ MaxId \in Nat
  BY WatchAssumption DEF TypeOK
<1>2. CASE Valid(s) = {}
  BY <1>1, <1>2 DEF Latest, NoLatest, LatestType, Valid
<1>3. CASE Valid(s) # {}
  <2> DEFINE T == {MaxId - rows[s][p] : p \in Valid(s)}
             Top(q) == \A r \in Valid(s) : rows[s][r] <= rows[s][q]
             t == CHOOSE q \in Valid(s) : Top(q)
  <2>1. T \in SUBSET Nat /\ T # {}
    <3>1. \A p \in Valid(s) : MaxId - rows[s][p] \in Nat
      BY <1>1 DEF Valid
    <3> QED BY <1>3, <3>1
  <2>2. PICK n \in T : \A m \in T : n <= m
    BY <2>1, Least
  <2>3. PICK q \in Valid(s) : n = MaxId - rows[s][q]
    BY <2>2
  <2>4. ASSUME NEW r \in Valid(s) PROVE rows[s][r] <= rows[s][q]
    <3>1. MaxId - rows[s][q] <= MaxId - rows[s][r]
      BY <2>2, <2>3
    <3> QED BY <1>1, <3>1 DEF Valid
  <2>5. t \in Valid(s) /\ Top(t)
    BY <2>4
  <2>6. Latest(s) = [id |-> rows[s][t], path |-> t]
    BY <1>3 DEF Latest
  <2> HIDE DEF t
  <2> QED BY <1>1, <2>5, <2>6 DEF LatestType, Valid
<1> QED BY <1>2, <1>3

LEMMA AnchorIs ==
    ASSUME TypeOK, NEW s \in Sources, ValidateAnchor(s)
    PROVE  /\ cp' \in Checkpoint /\ cp'.source = s
           /\ cp'.generation = cp.generation /\ cp'.expired = cp.expired
           /\ cp' = cp \/ (cp'.cursor = 0 /\ ~cp'.discovered)
           /\ cp.source = s \/ cp.boundary = Null => cp'.boundary = cp.boundary
           /\ cp.source # s /\ cp.boundary # Null => cp'.boundary = Latest(s).id
<1>1. cp \in Checkpoint
  BY DEF TypeOK
<1>2. CASE Anchored(s)
  BY <1>1, <1>2 DEF ValidateAnchor, Anchored
<1>3. CASE ~Anchored(s)
  <2> DEFINE b == IF cp.source # s /\ cp.boundary # Null THEN Latest(s).id ELSE cp.boundary
  <2>1. b \in Nat \cup {Null}
    BY <1>1, LatestIs DEF Checkpoint, LatestType
  <2>2. cp' = [cp EXCEPT !.cursor = 0, !.anchor = NoPath, !.source = s,
                         !.discovered = FALSE, !.boundary = b]
    BY <1>1, <1>3 DEF ValidateAnchor, Checkpoint
  <2> HIDE DEF b
  <2>3. /\ cp' \in Checkpoint /\ cp'.source = s /\ cp'.generation = cp.generation
        /\ cp'.expired = cp.expired /\ cp'.cursor = 0 /\ ~cp'.discovered /\ cp'.boundary = b
    BY <1>1, <2>1, <2>2 DEF Checkpoint
  <2> QED BY <2>3 DEF b
<1> QED BY <1>2, <1>3

LEMMA RowIs ==
    ASSUME NEW r \in Row
    PROVE  /\ [r EXCEPT !.tried = TRUE, !.due = FALSE] \in Row
           /\ [r EXCEPT !.tried = TRUE, !.due = FALSE].expired = r.expired
           /\ [r EXCEPT !.tried = TRUE, !.due = FALSE].final = r.final
           /\ [r EXCEPT !.due = TRUE] \in Row /\ [r EXCEPT !.aged = TRUE] \in Row
           /\ [r EXCEPT !.due = TRUE].expired = r.expired /\ [r EXCEPT !.due = TRUE].final = r.final
           /\ [r EXCEPT !.aged = TRUE].expired = r.expired /\ [r EXCEPT !.aged = TRUE].final = r.final
BY DEF Row

LEMMA ExpiredIs ==
    ASSUME NEW r \in Row
    PROVE  /\ [r EXCEPT !.expired = TRUE] \in Row
           /\ [r EXCEPT !.expired = TRUE].expired = TRUE
           /\ [r EXCEPT !.expired = TRUE].final = r.final
BY DEF Row

LEMMA FinalIs ==
    ASSUME NEW r \in Row, NEW g \in Nat
    PROVE  /\ [r EXCEPT !.final = g] \in Row
           /\ [r EXCEPT !.final = g].final = g /\ [r EXCEPT !.final = g].expired = r.expired
BY DEF Row

AnyRow == [id : Nat, source : Nat, tried : BOOLEAN, due : BOOLEAN,
           aged : BOOLEAN, final : Nat, expired : BOOLEAN]

LEMMA FoundIs ==
    ASSUME NEW r \in AnyRow, NEW i \in Nat \ {0}, NEW s \in Sources
    PROVE  /\ [r EXCEPT !.id = i, !.source = s] \in Row
           /\ [r EXCEPT !.id = i, !.source = s].expired = r.expired
           /\ [r EXCEPT !.id = i, !.source = s].final = r.final
BY DEF Row, AnyRow

LEMMA RowFacts ==
    ASSUME TypeOK
    PROVE  /\ NoRow \notin Row /\ ~NoRow.expired /\ ~NoRow.tried /\ NoRow.final = 0
           /\ \A p \in Paths : pend[p] \in Row \cup {NoRow}
           /\ \A p \in Paths : pend[p].final \in Nat /\ pend[p].expired \in BOOLEAN
           /\ Pending = {p \in Paths : pend[p] # NoRow}
           /\ \A p \in Paths : pend[p] \in AnyRow
           /\ NoRow \in AnyRow
<1>1. NoRow \notin Row /\ ~NoRow.expired /\ ~NoRow.tried /\ NoRow.final = 0 /\ NoRow \in AnyRow
  BY DEF Row, NoRow, AnyRow
<1>2. \A p \in Paths : pend[p] \in Row \cup {NoRow}
  BY DEF TypeOK
<1>3. \A r \in Row : r.final \in Nat /\ r.expired \in BOOLEAN /\ r \in AnyRow
  BY WatchAssumption DEF Row, AnyRow, Sources
<1>4. \A p \in Paths : pend[p].final \in Nat /\ pend[p].expired \in BOOLEAN /\ pend[p] \in AnyRow
  <2>1. NoRow.final \in Nat /\ NoRow.expired \in BOOLEAN
    BY DEF NoRow
  <2> QED BY <1>1, <1>2, <1>3, <2>1
<1> QED BY <1>1, <1>2, <1>4 DEF Pending

LEMMA DiscoveredIs ==
    ASSUME TypeOK, NEW s \in Sources, NEW p \in Valid(s)
    PROVE  /\ Discovered(p, s) \in Row
           /\ Discovered(p, s).final \in {0, pend[p].final}
<1>1. p \in Paths /\ rows[s][p] \in Nat \ {0}
  BY WatchAssumption DEF Valid, TypeOK
<1>2. pend[p] \in AnyRow /\ NoRow \in AnyRow /\ NoRow.final = 0
  BY <1>1, RowFacts
<1> DEFINE i == rows[s][p]
<1>0. i \in Nat \ {0}
  BY <1>1
<1> HIDE DEF i
<1>3. ASSUME NEW r \in AnyRow
      PROVE  [r EXCEPT !.id = i, !.source = s] \in Row /\ [r EXCEPT !.id = i, !.source = s].final = r.final
  BY <1>0, FoundIs
<1>4. \/ Discovered(p, s) = [NoRow EXCEPT !.id = i, !.source = s]
      \/ Discovered(p, s) = [pend[p] EXCEPT !.id = i, !.source = s]
  BY DEF Discovered, i
<1> QED BY <1>2, <1>3, <1>4

\* What prepare does to the rows and to the count of expired paths.
LEMMA PrepareIs ==
    ASSUME TypeOK, NEW items, items \subseteq Pending, NEW g \in Nat, NEW wanted,
           Prepare(items, g, wanted)
    PROVE  /\ faults' \in 0..scenario.faults
           /\ pend' \in [Paths -> Row \cup {NoRow}]
           /\ cp' \in Checkpoint
           /\ cp'.cursor = cp.cursor /\ cp'.source = cp.source /\ cp'.boundary = cp.boundary
           /\ cp'.generation = cp.generation /\ cp'.discovered = cp.discovered
           /\ active' \subseteq items \cap wanted
           /\ \A p \in active' : pend'[p] # NoRow
           /\ \A p \in Paths :
                 /\ pend[p] = NoRow => pend'[p] = NoRow
                 /\ pend[p] # NoRow => pend'[p] # NoRow \/ (p \in items /\ rows[handle][p] = 0)
                 /\ pend'[p] # NoRow => /\ pend'[p].final \in {pend[p].final, g}
                                        /\ pend[p].expired => pend'[p].expired
                 /\ p \in items /\ pend'[p] # NoRow /\ ~pend'[p].expired /\ g > 0 =>
                       pend'[p].final = g
                 /\ g = 0 /\ pend'[p] # NoRow => pend'[p].final = pend[p].final
<1> DEFINE Done(unread, live, old, use) ==
        /\ items \ live \subseteq items \ Valid(handle)
        /\ old = {p \in live : ~pend[p].expired /\ pend[p].tried /\ pend[p].aged
                               /\ scenario.expiry}
        /\ use = {p \in live : ~pend[p].expired} \ old
        /\ unread => faults < scenario.faults /\ items # {}
        /\ faults' = IF unread THEN faults + 1 ELSE faults
        /\ pend' = [p \in Paths |->
                IF p \in items \ live THEN NoRow
                ELSE IF p \in old THEN [pend[p] EXCEPT !.expired = TRUE]
                ELSE IF p \in use /\ g > 0 THEN [pend[p] EXCEPT !.final = g]
                ELSE pend[p]]
        /\ cp' = [cp EXCEPT !.expired = @ + Cardinality(old)]
        /\ active' = use \cap wanted
<1>0. \E unread \in BOOLEAN, live \in SUBSET items, old \in SUBSET items, use \in SUBSET items :
        Done(unread, live, old, use)
  <2>1. PICK unread \in BOOLEAN :
         LET live == IF unread THEN items ELSE items \cap Valid(handle)
             old == {p \in live : ~pend[p].expired /\ pend[p].tried /\ pend[p].aged
                                  /\ scenario.expiry}
             use == {p \in live : ~pend[p].expired} \ old
         IN /\ unread => faults < scenario.faults /\ items # {}
            /\ faults' = IF unread THEN faults + 1 ELSE faults
            /\ pend' = [p \in Paths |->
                  IF p \in items \ live THEN NoRow
                  ELSE IF p \in old THEN [pend[p] EXCEPT !.expired = TRUE]
                  ELSE IF p \in use /\ g > 0
                       THEN [pend[p] EXCEPT !.final = g]
                  ELSE pend[p]]
            /\ cp' = [cp EXCEPT !.expired = @ + Cardinality(old)]
            /\ active' = use \cap wanted
    BY Zenon DEF Prepare
  <2> DEFINE live == IF unread THEN items ELSE items \cap Valid(handle)
             old == {p \in live : ~pend[p].expired /\ pend[p].tried /\ pend[p].aged
                                  /\ scenario.expiry}
             use == {p \in live : ~pend[p].expired} \ old
  <2>2. live \in SUBSET items /\ items \ live \subseteq items \ Valid(handle)
    OBVIOUS
  <2>3. old \in SUBSET items /\ use \in SUBSET items
    BY <2>2
  <2>4. unread \in BOOLEAN
    BY <2>1
  <2>5. Done(unread, live, old, use)
    BY <2>1, <2>2
  <2> HIDE DEF Done, live, old, use
  <2> QED BY <2>2, <2>3, <2>4, <2>5
<1>1. PICK unread \in BOOLEAN, live \in SUBSET items, old \in SUBSET items, use \in SUBSET items :
        Done(unread, live, old, use)
  <2> HIDE DEF Done
  <2> QED BY <1>0
<1>2. items \subseteq Paths /\ \A p \in items : pend[p] \in Row
  BY RowFacts
<1>3. faults' \in 0..scenario.faults
  BY <1>1, ScenarioAssumption DEF TypeOK, ScenarioType
<1>4. Cardinality(old) \in Nat
  BY <1>1, <1>2, WatchAssumption, FS_Subset, FS_CardinalityType
<1>5. /\ cp' \in Checkpoint
      /\ cp'.cursor = cp.cursor /\ cp'.source = cp.source /\ cp'.boundary = cp.boundary
      /\ cp'.generation = cp.generation /\ cp'.discovered = cp.discovered
  <2> DEFINE n == Cardinality(old)
  <2>1. cp' = [cp EXCEPT !.expired = @ + n] /\ n \in Nat /\ cp \in Checkpoint
    BY <1>1, <1>4 DEF TypeOK
  <2> HIDE DEF n
  <2> QED BY <2>1 DEF Checkpoint
<1>6. ASSUME NEW p \in Paths
      PROVE  /\ pend'[p] \in Row \cup {NoRow}
             /\ pend[p] = NoRow => pend'[p] = NoRow
             /\ pend[p] # NoRow => pend'[p] # NoRow \/ (p \in items /\ rows[handle][p] = 0)
             /\ pend'[p] # NoRow => /\ pend'[p].final \in {pend[p].final, g}
                                    /\ pend[p].expired => pend'[p].expired
             /\ p \in items /\ pend'[p] # NoRow /\ ~pend'[p].expired /\ g > 0 =>
                   pend'[p].final = g
             /\ g = 0 /\ pend'[p] # NoRow => pend'[p].final = pend[p].final
  <2>1. NoRow \notin Row /\ pend[p] \in Row \cup {NoRow} /\ (p \in items => pend[p] \in Row)
    BY <1>2, RowFacts
  <2>2. CASE p \in items \ live
    <3>1. pend'[p] = NoRow /\ rows[handle][p] = 0
      BY <1>1, <2>2 DEF Valid
    <3> QED BY <2>2, <3>1
  <2>3. CASE p \in old
    <3>1. pend'[p] = [pend[p] EXCEPT !.expired = TRUE]
      BY <1>1, <2>3
    <3>2. pend'[p] \in Row /\ pend'[p].expired = TRUE /\ pend'[p].final = pend[p].final
      BY <2>1, <2>3, <3>1, ExpiredIs
    <3> QED BY <2>1, <2>3, <3>2
  <2>4. CASE p \in use /\ g > 0
    <3>1. pend'[p] = [pend[p] EXCEPT !.final = g]
      BY <1>1, <2>4
    <3>2. pend'[p] \in Row /\ pend'[p].expired = pend[p].expired /\ pend'[p].final = g
      BY <2>1, <2>4, <3>1, FinalIs
    <3> QED BY <2>1, <2>4, <3>2
  <2>5. CASE p \notin items \ live /\ p \notin old /\ ~(p \in use /\ g > 0)
    <3>1. pend'[p] = pend[p]
      BY <1>1, <2>5
    <3>2. p \in items /\ ~pend[p].expired /\ g > 0 => FALSE
      BY <1>1, <2>5
    <3> QED BY <2>1, <3>1, <3>2
  <2> QED BY <2>2, <2>3, <2>4, <2>5
<1>7. pend' \in [Paths -> Row \cup {NoRow}]
  <2>1. pend' = [p \in Paths |-> pend'[p]]
    BY <1>1
  <2> QED BY <1>6, <2>1
<1>8. active' \subseteq items \cap wanted /\ \A p \in active' : pend'[p] # NoRow
  <2>1. active' \subseteq items \cap wanted /\ active' \subseteq live
    BY <1>1
  <2>2. ASSUME NEW p \in active' PROVE pend'[p] # NoRow
    <3>1. p \in Paths /\ p \in live /\ pend[p] # NoRow /\ NoRow \notin Row /\ pend[p] \in Row
      BY <2>1, <1>2, RowFacts
    <3>2. \/ pend'[p] = [pend[p] EXCEPT !.expired = TRUE]
          \/ pend'[p] = [pend[p] EXCEPT !.final = g]
          \/ pend'[p] = pend[p]
      BY <3>1, <1>1
    <3> QED BY <3>1, <3>2, ExpiredIs, FinalIs
  <2> QED BY <2>1, <2>2
<1> QED BY <1>3, <1>5, <1>6, <1>7, <1>8

LEMMA Facts ==
    ASSUME TypeOK
    PROVE  /\ MaxId \in Nat /\ source \in Sources /\ handle \in Sources /\ cp.source \in Sources
           /\ Sources \subseteq Nat /\ cp \in Checkpoint
           /\ \A s \in Sources : nextId[s] \in Nat \ {0}
           /\ \A s \in Sources, p \in Paths : rows[s][p] \in Nat
           /\ \A s \in Sources : Valid(s) \subseteq Paths /\ \A p \in Valid(s) : rows[s][p] # 0
           /\ cp.cursor \in Nat /\ cp.boundary \in Nat \cup {-1} /\ cp.generation \in Nat
           /\ cp.expired \in Nat /\ cp.discovered \in BOOLEAN
           /\ latest.id \in Nat /\ latest.path \in Paths \cup {NoPath}
           /\ active \subseteq Paths /\ failed \subseteq active
           /\ Null = -1
<1>1. MaxId \in Nat /\ MaxSource \in Nat \ {0} /\ Sources \subseteq Nat
  BY WatchAssumption DEF Sources
<1>2. cp \in Checkpoint /\ source \in Sources /\ handle \in Sources
  BY DEF TypeOK
<1>3. /\ cp.source \in Sources /\ cp.cursor \in Nat /\ cp.boundary \in Nat \cup {-1}
      /\ cp.generation \in Nat /\ cp.expired \in Nat /\ cp.discovered \in BOOLEAN
  BY <1>2 DEF Checkpoint, Null
<1>4. /\ \A s \in Sources : nextId[s] \in Nat \ {0}
      /\ \A s \in Sources, p \in Paths : rows[s][p] \in Nat
      /\ \A s \in Sources : Valid(s) \subseteq Paths /\ \A p \in Valid(s) : rows[s][p] # 0
  BY <1>1 DEF TypeOK, Valid
<1>5. latest.id \in Nat /\ latest.path \in Paths \cup {NoPath} /\ active \subseteq Paths /\ failed \subseteq active
  BY DEF TypeOK
<1> QED BY <1>1, <1>2, <1>3, <1>4, <1>5 DEF Null

-----------------------------------------------------------------------------
(***************************************************************************)
(* The environment.                                                        *)
(***************************************************************************)
LEMMA RegisterStep ==
    ASSUME Inv, NEW p \in Paths, Register(p)
    PROVE  Inv'
<1>1. TypeOK /\ Numbered /\ Followed /\ WorkKept /\ Uploaded /\ Complete /\ Asked /\ Attempted /\ DrainDelivers
  BY DEF Inv
<1>2. /\ UNCHANGED <<scenario, source, stopping, stops, faults, made, cp, pend, pc, handle, latest>>
      /\ UNCHANGED <<active, failed, back, ccur, failures, result, base, sent, owed>>
  BY DEF Register, stateVars, procVars, histVars
<1>3. /\ \A s \in Sources, q \in Paths :
            rows'[s][q] = IF s = source /\ q = p THEN nextId[source] ELSE rows[s][q]
      /\ \A s \in Sources : nextId'[s] = IF s = source THEN nextId[source] + 1 ELSE nextId[s]
      /\ rows[source][p] = 0
  BY <1>1, Facts DEF Register, TypeOK
<1>4. TypeOK'
  <2>1. rows' \in [Sources -> [Paths -> 0..MaxId]] /\ nextId' \in [Sources -> 1..(MaxId + 1)]
    BY <1>1, Facts DEF Register, TypeOK
  <2> QED BY <1>1, <1>2, <2>1 DEF TypeOK
<1>5. Numbered'
  BY <1>1, <1>3, <1>2, Facts DEF Numbered
<1>6. Followed'
  BY <1>1, <1>3, <1>2, Facts DEF Followed, Started
<1>7. Valid(source)' = Valid(source) \cup {p} /\ rows'[source][p] = nextId[source]
  BY <1>1, <1>2, <1>3, Facts DEF Valid
<1>8. WorkKept' /\ Uploaded'
  <2>1. ASSUME cp.source = source, NEW q \in Paths, q = p PROVE Settled(q)'
    BY <1>1, <1>2, <1>7, <2>1, Facts DEF Followed, Settled
  <2>2. ASSUME NEW q \in Paths, q # p, Settled(q) PROVE Settled(q)'
    BY <1>1, <1>2, <1>3, <2>2, Facts DEF Settled
  <2> QED BY <1>1, <1>2, <1>7, <2>1, <2>2, Facts DEF WorkKept, Uploaded
<1>9. Complete'
  BY <1>1, <1>2, <1>3, Facts DEF Complete, Followed
<1>10. ASSUME NEW q \in Paths, <<source, rows'[source][q]>> \in owed PROVE q # p /\ rows'[source][q] = rows[source][q]
  BY <1>1, <1>3, <1>10, Facts DEF Asked
<1>11. Asked'
  <2>1. Draining' = Draining /\ Bounded' = Bounded
    BY <1>2 DEF Draining, Bounded
  <2>2. \A reg \in owed' : reg[1] = source' /\ reg[2] < nextId'[source']
    <3>1. ASSUME NEW reg \in owed PROVE reg[1] = source /\ reg[2] < nextId[source] + 1
      <4>1. reg[2] \in Nat /\ nextId[source] \in Nat
        BY <1>1, Facts DEF TypeOK
      <4> QED BY <1>1, <4>1 DEF Asked
    <3> QED BY <1>1, <1>2, <1>3, <3>1, Facts
  <2>3. Bounded' => \A q \in Paths :
           <<source', rows'[source'][q]>> \in owed' => rows'[source'][q] <= cp'.boundary
    BY <1>1, <1>2, <1>10, <2>1 DEF Asked
  <2> QED BY <1>1, <1>2, <2>1, <2>2, <2>3 DEF Asked
<1>12. DrainDelivers'
  <2>1. Expired' = Expired
    BY <1>2 DEF Expired
  <2> QED BY <1>1, <1>2, <1>7, <1>10, <2>1, Facts DEF DrainDelivers
<1>13. Attempted'
  BY <1>1, <1>2 DEF Attempted, NotExpired, Pending
<1> QED BY <1>4, <1>5, <1>6, <1>8, <1>9, <1>11, <1>12, <1>13 DEF Inv

LEMMA UnregisterStep ==
    ASSUME Inv, NEW p \in Paths, Unregister(p)
    PROVE  Inv'
<1>1. TypeOK /\ Numbered /\ Followed /\ WorkKept /\ Uploaded /\ Complete /\ Asked /\ Attempted /\ DrainDelivers
  BY DEF Inv
<1> DEFINE gone == {<<source, rows[source][p]>>}
<1>2. /\ UNCHANGED <<scenario, source, nextId, stopping, stops, faults, made, cp, pend, pc, handle, latest>>
      /\ UNCHANGED <<active, failed, back, ccur, failures, result>>
      /\ base' = base \ gone /\ sent' = sent \ gone /\ owed' = owed \ gone
  BY DEF Unregister, stateVars, procVars
<1>3. /\ \A s \in Sources, q \in Paths :
            rows'[s][q] = IF s = source /\ q = p THEN 0 ELSE rows[s][q]
      /\ rows[source][p] # 0
  BY <1>1, Facts DEF Unregister, TypeOK
<1>4. TypeOK'
  <2>1. rows' \in [Sources -> [Paths -> 0..MaxId]]
    BY <1>1, Facts DEF Unregister, TypeOK
  <2> QED BY <1>1, <1>2, <2>1 DEF TypeOK
<1>5. Numbered'
  BY <1>1, <1>3, <1>2, Facts DEF Numbered
<1>6. Followed'
  BY <1>1, <1>3, <1>2, Facts DEF Followed, Started
<1>7. Valid(source)' = Valid(source) \ {p}
  BY <1>1, <1>2, <1>3, Facts DEF Valid
<1>8. ASSUME NEW q \in Valid(source), q # p
      PROVE  /\ rows'[source][q] = rows[source][q] /\ <<source, rows[source][q]>> \notin gone
             /\ Settled(q) => Settled(q)'
  <2>1. q \in Paths /\ rows'[source][q] = rows[source][q] /\ rows[source][q] # rows[source][p]
    BY <1>1, <1>3, <1>8, Facts DEF Numbered
  <2>2. <<source, rows[source][q]>> \notin gone
    BY <2>1
  <2> QED BY <1>2, <2>1, <2>2 DEF Settled
<1>9. WorkKept' /\ Uploaded'
  BY <1>1, <1>2, <1>7, <1>8, Facts DEF WorkKept, Uploaded
<1>10. Complete'
  BY <1>1, <1>2, <1>3, Facts DEF Complete
<1>11. Asked'
  <2>1. \A q \in Paths : <<source, rows'[source][q]>> \in owed' =>
           rows'[source][q] = 0 \/ <<source, rows[source][q]>> \in owed
    BY <1>1, <1>2, <1>3, Facts
  <2> QED BY <1>1, <1>2, <1>3, <2>1, Facts DEF Asked, Draining, Bounded
<1>12. DrainDelivers'
  <2>1. Expired' = Expired
    BY <1>2 DEF Expired
  <2> QED BY <1>1, <1>2, <1>7, <1>8, <2>1, Facts DEF DrainDelivers
<1>13. Attempted'
  BY <1>1, <1>2 DEF Attempted, NotExpired, Pending
<1> QED BY <1>4, <1>5, <1>6, <1>9, <1>10, <1>11, <1>12, <1>13 DEF Inv

LEMMA ReplaceSourceStep ==
    ASSUME Inv, ReplaceSource
    PROVE  Inv'
<1>1. TypeOK /\ Numbered /\ Followed /\ WorkKept /\ Uploaded /\ Complete /\ Asked /\ Attempted /\ DrainDelivers
  BY DEF Inv
<1>2. /\ UNCHANGED <<scenario, stopping, stops, faults, made, cp, pend, pc, handle, latest>>
      /\ UNCHANGED <<active, failed, back, ccur, failures, result>>
      /\ base' = {} /\ sent' = {} /\ owed' = {} /\ source' = source + 1
  BY DEF ReplaceSource, stateVars, procVars
<1>0. PICK n \in 1..(MaxId + 1) : \E f \in [Paths -> 0..(n - 1)] :
        /\ \A p, q \in Paths : p # q /\ f[p] # 0 => f[p] # f[q]
        /\ rows' = [rows EXCEPT ![source + 1] = f]
        /\ nextId' = [nextId EXCEPT ![source + 1] = n]
  BY DEF ReplaceSource
<1>3. PICK f \in [Paths -> 0..(n - 1)] :
        /\ \A p, q \in Paths : p # q /\ f[p] # 0 => f[p] # f[q]
        /\ rows' = [rows EXCEPT ![source + 1] = f]
        /\ nextId' = [nextId EXCEPT ![source + 1] = n]
  BY <1>0
<1>4. source + 1 \in Sources /\ source \in Nat
  <2>1. scenario.sources \in Sources
    BY <1>1, ScenarioAssumption DEF TypeOK, ScenarioType
  <2> QED BY <1>1, <2>1, WatchAssumption DEF ReplaceSource, TypeOK, Sources
<1>5. /\ \A s \in Sources, q \in Paths :
            rows'[s][q] = IF s = source + 1 THEN f[q] ELSE rows[s][q]
      /\ \A s \in Sources : nextId'[s] = IF s = source + 1 THEN n ELSE nextId[s]
      /\ \A q \in Paths : f[q] \in Nat /\ f[q] < n
  BY <1>1, <1>3, <1>4, Facts DEF TypeOK
<1>6. TypeOK'
  <2>1. f \in [Paths -> 0..MaxId]
    BY <1>1, <1>3, Facts
  <2>2. rows' \in [Sources -> [Paths -> 0..MaxId]] /\ nextId' \in [Sources -> 1..(MaxId + 1)]
    BY <1>1, <1>3, <1>4, <2>1 DEF TypeOK
  <2> QED BY <1>1, <1>2, <1>4, <2>2 DEF TypeOK
<1>7. Numbered'
  BY <1>1, <1>3, <1>5, Facts DEF Numbered
<1>8. handle # source + 1 /\ cp.source # source + 1
  BY <1>1, Facts DEF Followed
<1>9. Followed'
  BY <1>1, <1>2, <1>5, <1>8, Facts DEF Followed, Started
<1>10. WorkKept' /\ Uploaded'
  BY <1>1, <1>2, <1>8, Facts DEF WorkKept, Uploaded
<1>11. Complete'
  BY <1>1, <1>2, <1>5, <1>8, Facts DEF Complete
<1>12. Asked'
  BY <1>1, <1>2 DEF Asked, Draining, Bounded
<1>13. DrainDelivers'
  BY <1>2 DEF DrainDelivers
<1>14. Attempted'
  BY <1>1, <1>2 DEF Attempted, NotExpired, Pending
<1> QED BY <1>6, <1>7, <1>9, <1>10, <1>11, <1>12, <1>13, <1>14 DEF Inv

LEMMA StopStep ==
    ASSUME Inv, Stop
    PROVE  Inv'
<1>1. TypeOK /\ Numbered /\ Followed /\ WorkKept /\ Uploaded /\ Complete /\ Asked /\ Attempted /\ DrainDelivers
  BY DEF Inv
<1>2. /\ UNCHANGED <<scenario, source, rows, nextId, faults, made, cp, pend, pc, handle, latest>>
      /\ UNCHANGED <<active, failed, back, ccur, failures, result, base, sent>>
      /\ pc # "down" /\ ~stopping /\ stopping' = TRUE /\ owed' = Registrations(source)
  BY DEF Stop, stateVars, procVars
<1>3. TypeOK'
  <2>1. stops' \in 0..MaxStops
    BY <1>1, WatchAssumption DEF Stop, TypeOK
  <2>2. owed' \subseteq Sources \X Nat
    BY <1>1, <1>2, Facts DEF Registrations
  <2> QED BY <1>1, <1>2, <2>1, <2>2 DEF TypeOK
<1>4. Numbered' /\ Followed'
  BY <1>1, <1>2 DEF Numbered, Followed, Started
<1>5. WorkKept' /\ Uploaded' /\ Complete'
  BY <1>1, <1>2 DEF WorkKept, Uploaded, Complete, Settled, Valid
<1>6. Asked'
  <2>1. ~Draining
    BY <1>1, <1>2 DEF Asked
  <2>2. ~Draining' /\ ~Bounded'
    BY <1>2, <2>1 DEF Draining, Bounded
  <2>3. ASSUME NEW reg \in owed' PROVE reg[1] = source /\ reg[2] < nextId[source]
    BY <1>1, <1>2, Facts DEF Registrations, Numbered
  <2> QED BY <1>1, <1>2, <2>2, <2>3 DEF Asked
<1>7. DrainDelivers'
  BY <1>1, <1>2 DEF DrainDelivers, Asked
<1>8. Attempted'
  BY <1>1, <1>2 DEF Attempted, NotExpired, Pending
<1> QED BY <1>3, <1>4, <1>5, <1>6, <1>7, <1>8 DEF Inv

LEMMA TimeStep ==
    ASSUME Inv, NEW p \in Paths, BackoffElapses(p) \/ AgeElapses(p)
    PROVE  Inv'
<1>1. TypeOK /\ Numbered /\ Followed /\ WorkKept /\ Uploaded /\ Complete /\ Asked /\ Attempted /\ DrainDelivers
  BY DEF Inv
<1>2. /\ UNCHANGED <<scenario, source, rows, nextId, stopping, stops, faults, made, cp, pc, handle, latest>>
      /\ UNCHANGED <<active, failed, back, ccur, failures, result, base, sent, owed>>
      /\ pend[p].tried
  BY DEF BackoffElapses, AgeElapses, envVars, procVars, histVars
<1>3. pend[p] \in Row /\ NoRow \notin Row
  BY <1>1, <1>2, RowFacts
<1>4. pend' = [pend EXCEPT ![p] = pend'[p]] /\ pend' \in [Paths -> Row \cup {NoRow}]
      /\ pend'[p] \in Row /\ pend'[p].expired = pend[p].expired /\ pend'[p].final = pend[p].final
  <2>1. \/ pend' = [pend EXCEPT ![p] = [pend[p] EXCEPT !.due = TRUE]]
        \/ pend' = [pend EXCEPT ![p] = [pend[p] EXCEPT !.aged = TRUE]]
    BY DEF BackoffElapses, AgeElapses
  <2> DEFINE d == [pend[p] EXCEPT !.due = TRUE]
             a == [pend[p] EXCEPT !.aged = TRUE]
  <2>2. d \in Row /\ d.expired = pend[p].expired /\ d.final = pend[p].final
    BY <1>3, RowIs
  <2>3. a \in Row /\ a.expired = pend[p].expired /\ a.final = pend[p].final
    BY <1>3, RowIs
  <2>4. pend \in [Paths -> Row \cup {NoRow}]
    BY <1>1 DEF TypeOK
  <2>5. pend' = [pend EXCEPT ![p] = d] \/ pend' = [pend EXCEPT ![p] = a]
    BY <2>1
  <2> HIDE DEF d, a
  <2> QED BY <2>2, <2>3, <2>4, <2>5
<1>5. \A q \in Paths : /\ pend'[q] = NoRow <=> pend[q] = NoRow
                       /\ pend'[q].expired = pend[q].expired /\ pend'[q].final = pend[q].final
  <2>1. \A q \in Paths : q # p => pend'[q] = pend[q]
    BY <1>1, <1>4 DEF TypeOK
  <2> QED BY <1>3, <1>4, <2>1
<1>6. Pending' = Pending /\ NotExpired' = NotExpired /\ Expired' = Expired
  BY <1>5 DEF Pending, NotExpired, Expired
<1>7. TypeOK'
  BY <1>1, <1>2, <1>4 DEF TypeOK
<1>8. Numbered' /\ Followed'
  BY <1>1, <1>2 DEF Numbered, Followed, Started
<1>9. WorkKept' /\ Uploaded' /\ Complete'
  BY <1>1, <1>2, <1>5 DEF WorkKept, Uploaded, Complete, Settled, Valid
<1>10. Asked'
  BY <1>1, <1>2 DEF Asked, Draining, Bounded
<1>11. DrainDelivers'
  BY <1>1, <1>2, <1>6 DEF DrainDelivers, Valid
<1>12. Attempted'
  <2>1. NotExpired \subseteq Paths
    BY DEF NotExpired, Pending
  <2> QED BY <1>1, <1>2, <1>5, <1>6, <2>1 DEF Attempted
<1> QED BY <1>7, <1>8, <1>9, <1>10, <1>11, <1>12 DEF Inv

-----------------------------------------------------------------------------
(***************************************************************************)
(* Start, exit and what reads the source.                                  *)
(***************************************************************************)
LEMMA StartStep ==
    ASSUME Inv, Start
    PROVE  Inv'
<1>1. TypeOK /\ Numbered /\ Followed /\ WorkKept /\ Uploaded /\ Complete /\ Asked /\ Attempted /\ DrainDelivers
  BY DEF Inv
<1>2. /\ UNCHANGED <<scenario, source, rows, nextId, stopping, stops, faults, made, cp, pend>>
      /\ UNCHANGED <<active, failed, back, ccur, failures, base, sent>>
      /\ pc = "down" /\ pc' = "open" /\ handle' = source /\ latest' = Latest(source)
      /\ result' = "none" /\ owed' = {}
  BY DEF Start, envVars, stateVars
<1>3. Latest(source) \in LatestType /\ Latest(source).id < nextId[source]
  <2>1. source \in Sources
    BY <1>1, Facts
  <2>2. /\ Latest(source) \in LatestType
        /\ Latest(source).id # 0 => \E p \in Paths : Latest(source).id = rows[source][p]
    BY <1>1, <2>1, LatestIs
  <2>3. nextId[source] \in Nat \ {0}
    BY <1>1, Facts
  <2> QED BY <1>1, <2>1, <2>2, <2>3 DEF Numbered
<1>4. TypeOK'
  BY <1>1, <1>2, <1>3 DEF TypeOK, LatestType, PCs
<1>5. Numbered' /\ Followed'
  <2>1. source <= source
    BY <1>1, Facts
  <2> QED BY <1>1, <1>2, <1>3, <2>1 DEF Numbered, Followed, Started
<1>6. WorkKept' /\ Uploaded' /\ Complete'
  BY <1>1, <1>2 DEF WorkKept, Uploaded, Complete, Settled, Valid
<1>7. Asked'
  BY <1>1, <1>2 DEF Asked, Draining, Bounded, DrainPC
<1>8. DrainDelivers'
  BY <1>2 DEF DrainDelivers
<1>9. Attempted'
  BY <1>1, <1>2 DEF Attempted, NotExpired, Pending
<1> QED BY <1>4, <1>5, <1>6, <1>7, <1>8, <1>9 DEF Inv

LEMMA ExitStep ==
    ASSUME Inv, NEW r \in {"incomplete", "error", "crash"}, Exit(r), faults' \in 0..scenario.faults,
           UNCHANGED <<made, cp, pend, base, sent>>, owed' = owed
    PROVE  Inv'
<1>1. TypeOK /\ Numbered /\ Followed /\ WorkKept /\ Uploaded /\ Complete /\ Asked /\ Attempted /\ DrainDelivers
  BY DEF Inv
<1>2. /\ UNCHANGED <<scenario, source, rows, nextId, stops, made, cp, pend, handle>>
      /\ UNCHANGED <<base, sent, owed>>
      /\ pc' = "down" /\ result' = r /\ stopping' = FALSE /\ latest' = NoLatest
      /\ active' = {} /\ failed' = {} /\ back' = "due" /\ ccur' = 0 /\ failures' = 0
  BY DEF Exit
<1>3. latest'.id = 0 /\ latest' \in LatestType
  BY <1>2 DEF NoLatest, LatestType
<1>4. TypeOK'
  <2>1. failures' \in 0..(MaxFailures - 1) /\ ccur' \in Nat
    BY <1>2, WatchAssumption
  <2>2. pc' \in PCs /\ result' \in {"none", "ok", "incomplete", "error", "crash"}
    BY <1>2 DEF PCs
  <2>3. /\ stopping' \in BOOLEAN /\ back' \in {"due", "clean", "drefresh"}
        /\ active' \subseteq Paths /\ failed' \subseteq active' /\ faults' \in 0..scenario'.faults
    BY <1>2
  <2> QED BY <1>1, <1>2, <1>3, <2>1, <2>2, <2>3 DEF TypeOK, LatestType
<1>5. Numbered' /\ Followed'
  BY <1>1, <1>2, <1>3, Facts DEF Numbered, Followed, Started
<1>6. WorkKept' /\ Uploaded' /\ Complete'
  BY <1>1, <1>2 DEF WorkKept, Uploaded, Complete, Settled, Valid
<1>7. Asked'
  BY <1>1, <1>2 DEF Asked, Draining, Bounded, DrainPC
<1>8. DrainDelivers'
  BY <1>2 DEF DrainDelivers
<1>9. Attempted'
  BY <1>1, <1>2 DEF Attempted, NotExpired, Pending
<1> QED BY <1>4, <1>5, <1>6, <1>7, <1>8, <1>9 DEF Inv

\* What stays of the invariant when the checkpoint is compared with the source.
LEMMA AnchorStep ==
    ASSUME Inv, made = "ready", made' = made, NEW s \in Sources, ValidateAnchor(s),
           UNCHANGED <<source, rows, nextId, pend, base, sent>>
    PROVE  WorkKept' /\ Complete' /\ cp'.cursor < nextId[s] /\ cp'.boundary < nextId[s]
<1>1. TypeOK /\ Numbered /\ Followed /\ WorkKept /\ Complete
  BY DEF Inv
<1>2. /\ cp' \in Checkpoint /\ cp'.source = s
      /\ cp' = cp \/ (cp'.cursor = 0 /\ ~cp'.discovered)
      /\ cp.source = s \/ cp.boundary = Null => cp'.boundary = cp.boundary
      /\ cp.source # s /\ cp.boundary # Null => cp'.boundary = Latest(s).id
  BY <1>1, AnchorIs
<1>3. WorkKept'
  <2>1. CASE cp' = cp
    BY <1>1, <2>1 DEF WorkKept, Settled, Valid
  <2>2. CASE cp'.cursor = 0
    <3>1. \A p \in Valid(source) : rows[source][p] > 0
      BY <1>1, Facts
    <3> QED BY <2>2, <3>1 DEF WorkKept, Settled, Valid
  <2> QED BY <1>2, <2>1, <2>2
<1>4. Complete'
  <2>1. CASE cp' = cp
    BY <1>1, <2>1 DEF Complete
  <2>2. CASE ~cp'.discovered
    BY <2>2 DEF Complete
  <2> QED BY <1>2, <2>1, <2>2
<1>5. cp'.cursor < nextId[s]
  BY <1>1, <1>2, Facts DEF Followed
<1>6. cp'.boundary < nextId[s]
  <2>1. CASE cp.source = s
    BY <1>1, <1>2, <2>1 DEF Followed
  <2>2. CASE cp.source # s /\ cp.boundary = Null
    BY <1>1, <1>2, <2>2, Facts
  <2>3. CASE cp.source # s /\ cp.boundary # Null
    <3>1. Latest(s).id # 0 => \E p \in Paths : Latest(s).id = rows[s][p]
      BY <1>1, LatestIs
    <3>2. nextId[s] \in Nat \ {0}
      BY <1>1, Facts
    <3> QED BY <1>1, <1>2, <2>3, <3>1, <3>2 DEF Numbered
  <2> QED BY <2>1, <2>2, <2>3
<1> QED BY <1>3, <1>4, <1>5, <1>6

LEMMA OpenStateStep ==
    ASSUME Inv, OpenState
    PROVE  Inv'
<1>1. TypeOK /\ Numbered /\ Followed /\ WorkKept /\ Uploaded /\ Complete /\ Asked /\ Attempted /\ DrainDelivers
  BY DEF Inv
<1>2. CASE made = "empty" /\ Exit("error") /\ UNCHANGED <<faults, stateVars, histVars>>
  <2>1. UNCHANGED <<made, cp, pend, base, sent>> /\ owed' = owed
    BY <1>2 DEF stateVars, histVars
  <2>2. faults' \in 0..scenario.faults
    BY <1>1, <1>2 DEF TypeOK
  <2> QED BY <1>2, <2>1, <2>2, ExitStep
<1>3. CASE /\ made = "absent"
           /\ made' = "empty" /\ pc' = "create"
           /\ UNCHANGED <<envVars, cp, pend, handle, latest, active, failed, back,
                          ccur, failures, result, histVars>>
  <2>1. /\ UNCHANGED <<scenario, source, rows, nextId, stopping, stops, faults, cp, pend, handle, latest>>
        /\ UNCHANGED <<active, failed, back, ccur, failures, result, base, sent, owed>>
        /\ pc = "open"
    BY <1>3 DEF OpenState, envVars, histVars
  <2>2. TypeOK'
    BY <1>1, <1>3, <2>1 DEF TypeOK, PCs
  <2>3. Numbered' /\ Followed'
    BY <1>1, <1>3, <2>1 DEF Numbered, Followed, Started
  <2>4. WorkKept' /\ Uploaded' /\ Complete'
    BY <1>1, <1>3, <2>1 DEF WorkKept, Uploaded, Complete
  <2>5. Asked' /\ DrainDelivers'
    BY <1>1, <1>3, <2>1 DEF Asked, Draining, Bounded, DrainPC, DrainDelivers
  <2>6. Attempted'
    BY <1>1, <1>3, <2>1 DEF Attempted, NotExpired, Pending
  <2> QED BY <2>2, <2>3, <2>4, <2>5, <2>6 DEF Inv
<1>4. CASE /\ made = "ready"
           /\ ValidateAnchor(handle)
           /\ pc' = "idle" /\ latest' = NoLatest
           /\ UNCHANGED <<envVars, made, pend, handle, active, failed, back, ccur,
                          failures, result, histVars>>
  <2>1. /\ UNCHANGED <<scenario, source, rows, nextId, stopping, stops, faults, made, pend, handle>>
        /\ UNCHANGED <<active, failed, back, ccur, failures, result, base, sent, owed>>
        /\ pc = "open" /\ pc' = "idle" /\ latest' = NoLatest
    BY <1>4 DEF OpenState, envVars, histVars
  <2>2. handle \in Sources /\ handle <= source
    BY <1>1, Facts DEF Followed
  <2>3. WorkKept' /\ Complete' /\ cp'.cursor < nextId[handle] /\ cp'.boundary < nextId[handle]
    BY <1>4, <2>1, <2>2, AnchorStep
  <2>4. cp' \in Checkpoint /\ cp'.source = handle /\ cp'.generation = cp.generation
    BY <1>1, <1>4, <2>2, AnchorIs
  <2>5. latest'.id = 0 /\ latest' \in LatestType
    BY <2>1 DEF NoLatest, LatestType
  <2>6. TypeOK'
    BY <1>1, <2>1, <2>4, <2>5 DEF TypeOK, PCs, LatestType
  <2>7. Numbered' /\ Followed'
    <3>1. nextId[handle] > 0
      BY <1>1, <2>2, Facts
    <3> QED BY <1>1, <1>4, <2>1, <2>2, <2>3, <2>4, <2>5, <3>1 DEF Numbered, Followed, Started
  <2>8. Uploaded'
    BY <2>1 DEF Uploaded
  <2>9. Asked' /\ DrainDelivers'
    BY <1>1, <2>1 DEF Asked, Draining, Bounded, DrainPC, DrainDelivers
  <2>10. Attempted'
    BY <1>1, <2>1, <2>4 DEF Attempted, NotExpired, Pending
  <2> QED BY <2>3, <2>6, <2>7, <2>8, <2>9, <2>10 DEF Inv
<1> QED BY <1>2, <1>3, <1>4 DEF OpenState

LEMMA InitializeStep ==
    ASSUME Inv, Initialize
    PROVE  Inv'
<1>1. TypeOK /\ Numbered /\ Followed /\ WorkKept /\ Uploaded /\ Complete /\ Asked /\ Attempted /\ DrainDelivers
  BY DEF Inv
<1>2. /\ UNCHANGED <<scenario, source, rows, nextId, stopping, stops, faults, pend, handle>>
      /\ UNCHANGED <<active, failed, back, ccur, failures, result, sent, owed>>
      /\ pc = "create" /\ pc' = "idle" /\ made' = "ready" /\ latest' = NoLatest
      /\ base' = {reg \in Registrations(source) : reg[1] = handle /\ reg[2] <= latest.id}
      /\ cp' = [cp EXCEPT !.cursor = latest.id, !.anchor = latest.path, !.source = handle]
  BY DEF Initialize, envVars
<1>3. cp = NoCheckpoint
  BY <1>1, <1>2 DEF Followed
<1>4. /\ cp' \in Checkpoint /\ cp'.cursor = latest.id /\ cp'.source = handle
      /\ cp'.boundary = Null /\ cp'.discovered = FALSE /\ cp'.generation = cp.generation
  <2> DEFINE i == latest.id
             a == latest.path
  <2>1. cp' = [cp EXCEPT !.cursor = i, !.anchor = a, !.source = handle]
    BY <1>2
  <2>2. i \in Nat /\ a \in Paths \cup {NoPath} /\ handle \in Sources /\ cp \in Checkpoint
    BY <1>1, Facts
  <2>3. cp.boundary = Null /\ cp.discovered = FALSE
    BY <1>3 DEF NoCheckpoint
  <2> HIDE DEF i, a
  <2>4. /\ cp' \in Checkpoint /\ cp'.cursor = i /\ cp'.source = handle
        /\ cp'.boundary = Null /\ cp'.discovered = FALSE /\ cp'.generation = cp.generation
    BY <2>1, <2>2, <2>3 DEF Checkpoint
  <2> QED BY <2>4 DEF i
<1>5. latest'.id = 0 /\ latest' \in LatestType
  BY <1>2 DEF NoLatest, LatestType
<1>6. TypeOK'
  <2>1. base' \subseteq Sources \X Nat
    BY <1>1, <1>2, Facts DEF Registrations
  <2> QED BY <1>1, <1>2, <1>4, <1>5, <2>1 DEF TypeOK, PCs, LatestType
<1>7. Numbered' /\ Followed'
  <2>1. nextId[handle] > 0 /\ Null < nextId[handle]
    BY <1>1, Facts
  <2> QED BY <1>1, <1>2, <1>4, <1>5, <2>1 DEF Numbered, Followed, Started
<1>8. WorkKept'
  <2>1. ASSUME handle = source, NEW p \in Valid(source), ~(rows[source][p] > latest.id)
        PROVE  <<source, rows[source][p]>> \in base'
    <3>1. rows[source][p] \in Nat /\ latest.id \in Nat
      BY <1>1, Facts
    <3> QED BY <1>2, <2>1, <3>1 DEF Registrations
  <2> QED BY <1>2, <1>4, <2>1 DEF WorkKept, Settled, Valid
<1>9. Uploaded' /\ Complete'
  BY <1>2, <1>4 DEF Uploaded, Complete
<1>10. Asked' /\ DrainDelivers'
  BY <1>1, <1>2 DEF Asked, Draining, Bounded, DrainPC, DrainDelivers
<1>11. Attempted'
  BY <1>1, <1>2, <1>4 DEF Attempted, NotExpired, Pending
<1> QED BY <1>6, <1>7, <1>8, <1>9, <1>10, <1>11 DEF Inv

\* refreshSource wherever poll and finish call it.
LEMMA RefreshStep ==
    ASSUME Inv, handle' = source, ValidateAnchor(source),
           UNCHANGED <<envVars, made, pend, latest, active, failed, back, ccur,
                       failures, result, histVars>>,
           \/ pc = "idle" /\ pc' = "discover"
           \/ pc = "refresh" /\ pc' = "complete"
           \/ pc = "begin" /\ pc' = "boundary"
           \/ pc = "drefresh" /\ pc' = "ddiscover"
           \/ pc = "dready" /\ pc' = "drefresh"
           \/ pc = "dready" /\ pc' = "dcomplete" /\ cp'.discovered
    PROVE  Inv'
<1>1. TypeOK /\ Numbered /\ Followed /\ WorkKept /\ Uploaded /\ Complete /\ Asked /\ Attempted /\ DrainDelivers
  BY DEF Inv
<1>2. /\ UNCHANGED <<scenario, source, rows, nextId, stopping, stops, faults, made, pend, latest>>
      /\ UNCHANGED <<active, failed, back, ccur, failures, result, base, sent, owed>>
  BY DEF envVars, histVars
<1>3. made = "ready" /\ latest = NoLatest /\ source \in Sources
  BY <1>1, Facts DEF Followed, Started
<1>4. WorkKept' /\ Complete' /\ cp'.cursor < nextId[source] /\ cp'.boundary < nextId[source]
  BY <1>2, <1>3, AnchorStep
<1>5. /\ cp' \in Checkpoint /\ cp'.source = source /\ cp'.generation = cp.generation
      /\ cp.source = source \/ cp.boundary = Null => cp'.boundary = cp.boundary
      /\ cp.source # source /\ cp.boundary # Null => cp'.boundary = Latest(source).id
  BY <1>1, <1>3, AnchorIs
<1>6. TypeOK'
  BY <1>1, <1>2, <1>3, <1>5 DEF TypeOK, PCs, PollPC, DrainPC
<1>7. Numbered' /\ Followed'
  <2>1. latest.id < nextId[source] /\ source <= source
    BY <1>1, <1>3, Facts DEF NoLatest
  <2> QED BY <1>1, <1>2, <1>3, <1>4, <1>5, <2>1 DEF Numbered, Followed, Started
<1>8. Uploaded'
  BY DEF Uploaded
<1>9. Asked'
  <2>1. Draining' => Draining
    BY DEF Draining, DrainPC
  <2>2. Bounded' => Bounded
    BY DEF Bounded, Draining, DrainPC
  <2>3. Bounded' => cp'.boundary # Null
    <3>1. Latest(source).id \in Nat /\ Null = -1
      BY <1>1, <1>3, LatestIs, Facts DEF LatestType
    <3> QED BY <1>1, <1>5, <2>2, <3>1 DEF Asked
  <2>4. Bounded' => \A p \in Paths :
           <<source, rows[source][p]>> \in owed => rows[source][p] <= cp'.boundary
    <3>1. ASSUME Bounded, owed # {} PROVE cp.source = source
      BY <1>1, <3>1 DEF Asked, Followed, Bounded, Started, Draining, DrainPC
    <3> QED BY <1>1, <1>5, <2>2, <3>1 DEF Asked
  <2>5. result # "none" => pc' = "down"
    BY <1>1 DEF Asked
  <2> QED BY <1>1, <1>2, <2>1, <2>2, <2>3, <2>4, <2>5 DEF Asked
<1>10. DrainDelivers'
  BY <1>1, <1>2 DEF DrainDelivers, Asked
<1>11. Attempted'
  <2>1. NotExpired' = NotExpired /\ Pending' = Pending
    BY <1>2 DEF NotExpired, Pending
  <2> QED BY <1>1, <1>2, <1>5, <2>1 DEF Attempted
<1> QED BY <1>4, <1>6, <1>7, <1>8, <1>9, <1>10, <1>11 DEF Inv

-----------------------------------------------------------------------------
(***************************************************************************)
(* Discovery.                                                              *)
(***************************************************************************)
LEMMA DiscoverStep ==
    ASSUME Inv, NEW next, Discover(next), failures' \in 0..(MaxFailures - 1),
           (pc = "discover" /\ next = "fresh") \/ (pc = "ddiscover" /\ next = "final")
    PROVE  Inv'
<1>1. TypeOK /\ Numbered /\ Followed /\ WorkKept /\ Uploaded /\ Complete /\ Asked /\ Attempted /\ DrainDelivers
  BY DEF Inv
<1>2. /\ UNCHANGED <<scenario, source, rows, nextId, stopping, stops, faults, made, handle, latest>>
      /\ UNCHANGED <<active, failed, back, ccur, result, base, sent, owed>>
      /\ pc' = next
  BY DEF Discover, envVars, histVars
<1>3. made = "ready" /\ cp.source = handle /\ handle \in Sources
  BY <1>1, Facts DEF Followed, Started
<1> DEFINE Kept ==
      /\ cp' \in Checkpoint /\ pend' \in [Paths -> Row \cup {NoRow}]
      /\ cp'.source = handle /\ cp'.cursor < nextId[handle]
      /\ cp'.boundary = cp.boundary /\ cp'.generation = cp.generation
      /\ \A p \in Paths : /\ pend[p] # NoRow => pend'[p] # NoRow
                          /\ pend'[p].final \in {0, pend[p].final}
      /\ WorkKept' /\ Complete'
<1>4. Kept
  <2>1. CASE UNCHANGED <<cp, pend>>
    BY <1>1, <1>2, <1>3, <2>1, Facts DEF TypeOK, WorkKept, Settled, Valid, Complete, Followed
  <2>2. ASSUME NEW new \in SUBSET Undiscovered,
               Cardinality(new) = IF Cardinality(Undiscovered) < Batch
                                  THEN Cardinality(Undiscovered) ELSE Batch,
               \A p \in new : \A q \in Undiscovered \ new : rows[handle][p] <= rows[handle][q],
               pend' = [p \in Paths |-> IF p \in new THEN Discovered(p, handle) ELSE pend[p]],
               IF new = {}
               THEN cp' = [cp EXCEPT !.discovered = @ \/ cp.boundary # Null]
               ELSE \E p \in new :
                         /\ \A q \in new : rows[handle][q] <= rows[handle][p]
                         /\ cp' = [cp EXCEPT !.cursor = rows[handle][p], !.anchor = p,
                                             !.source = handle,
                                             !.discovered = FALSE]
        PROVE Kept
    <3>1. new \subseteq Valid(handle) /\ new \subseteq Paths
      BY <1>1, <1>3, <2>2, Facts DEF Undiscovered
    <3>2. /\ \A p \in new : pend'[p] \in Row /\ pend'[p].final \in {0, pend[p].final}
          /\ \A p \in Paths \ new : pend'[p] = pend[p]
      BY <1>1, <1>3, <2>2, <3>1, DiscoveredIs
    <3>3. \A p \in Paths : /\ pend'[p] \in Row \cup {NoRow}
                           /\ pend[p] # NoRow => pend'[p] # NoRow
                           /\ pend'[p].final \in {0, pend[p].final}
      BY <1>1, <3>2, RowFacts
    <3>4. pend' \in [Paths -> Row \cup {NoRow}]
      <4>1. pend' = [p \in Paths |-> pend'[p]]
        BY <2>2
      <4> QED BY <3>3, <4>1
    <3>5. CASE new = {}
      <4> DEFINE d == cp.discovered \/ cp.boundary # Null
      <4>1. cp' = [cp EXCEPT !.discovered = d] /\ d \in BOOLEAN /\ cp \in Checkpoint
        BY <1>1, <2>2, <3>5, Facts
      <4> HIDE DEF d
      <4>2. /\ cp' \in Checkpoint /\ cp'.source = cp.source /\ cp'.cursor = cp.cursor
            /\ cp'.boundary = cp.boundary /\ cp'.generation = cp.generation
        BY <4>1 DEF Checkpoint
      <4>3. Undiscovered = {}
        <5>1. IsFiniteSet(Undiscovered)
          BY <1>1, <1>3, WatchAssumption, FS_Subset, Facts DEF Undiscovered
        <5>2. Cardinality(Undiscovered) = 0
          <6>1. Cardinality(new) = 0
            BY <3>5, FS_EmptySet
          <6> QED BY <2>2, <6>1, WatchAssumption
        <5> QED BY <5>1, <5>2, FS_EmptySet
      <4>4. WorkKept'
        BY <1>1, <1>2, <1>3, <3>3, <4>2 DEF WorkKept, Settled, Valid
      <4>5. Complete'
        <5>1. ASSUME NEW p \in Paths, rows[handle][p] # 0, cp.boundary # Null
              PROVE  rows[handle][p] <= cp.cursor \/ rows[handle][p] > cp.boundary
          BY <1>1, <1>3, <4>3, <5>1, Facts DEF Undiscovered, Valid
        <5> QED BY <1>2, <1>3, <4>2, <5>1 DEF Complete
      <4>6. cp.cursor < nextId[handle]
        BY <1>1, <1>3 DEF Followed
      <4> QED BY <1>3, <3>3, <3>4, <4>2, <4>4, <4>5, <4>6
    <3>6. CASE new # {}
      <4>1. PICK top \in new :
              /\ \A q \in new : rows[handle][q] <= rows[handle][top]
              /\ cp' = [cp EXCEPT !.cursor = rows[handle][top], !.anchor = top,
                                  !.source = handle, !.discovered = FALSE]
        BY <2>2, <3>6
      <4> DEFINE i == rows[handle][top]
      <4>2. /\ top \in Paths /\ i \in Nat /\ i < nextId[handle] /\ i > cp.cursor
            /\ cp.boundary # Null => i <= cp.boundary
        BY <1>1, <1>3, <2>2, <3>1, Facts DEF Undiscovered, Numbered
      <4>3. cp' = [cp EXCEPT !.cursor = i, !.anchor = top, !.source = handle,
                             !.discovered = FALSE] /\ cp \in Checkpoint
        BY <1>1, <4>1, Facts
      <4> HIDE DEF i
      <4>4. /\ cp' \in Checkpoint /\ cp'.source = handle /\ cp'.cursor = i
            /\ cp'.boundary = cp.boundary /\ cp'.generation = cp.generation
            /\ ~cp'.discovered
        BY <1>3, <4>2, <4>3 DEF Checkpoint
      <4>5. ASSUME handle = source, NEW q \in Valid(source), rows[source][q] > cp.cursor,
                   ~(rows[source][q] > i)
            PROVE  q \in new
        <5>1. q \in Undiscovered
          <6>1. rows[handle][q] \in Nat /\ rows[handle][q] <= i /\ q \in Valid(handle)
            BY <1>1, <1>3, <4>2, <4>5, Facts
          <6>2. cp.boundary # Null => rows[handle][q] <= cp.boundary
            BY <1>1, <4>2, <6>1, Facts
          <6> QED BY <4>5, <6>1, <6>2 DEF Undiscovered
        <5>2. ASSUME q \notin new PROVE FALSE
          <6>1. i <= rows[handle][q] /\ q \in Paths
            BY <1>1, <1>3, <2>2, <4>1, <5>1, <5>2, Facts DEF i
          <6>2. rows[handle][q] = rows[handle][top] /\ rows[handle][q] # 0
            BY <1>1, <1>3, <4>2, <4>5, <6>1, Facts DEF i
          <6> QED BY <1>1, <1>3, <4>1, <4>2, <5>2, <6>1, <6>2 DEF Numbered
        <5> QED BY <5>2
      <4>6. WorkKept'
        <5>1. ASSUME handle = source, NEW q \in Valid(source)
              PROVE  \/ <<source, rows[source][q]>> \in base \cup sent
                     \/ rows[source][q] > i
                     \/ pend'[q] # NoRow
          <6>1. Settled(q) \/ pend[q] # NoRow
            BY <1>1, <1>3, <5>1 DEF WorkKept
          <6>2. q \in Paths
            BY <1>1, <1>3, <5>1, Facts
          <6>3. q \in new => pend'[q] # NoRow
            BY <1>1, <3>2, RowFacts
          <6> QED BY <3>3, <4>5, <5>1, <6>1, <6>2, <6>3 DEF Settled
        <5> QED BY <1>2, <1>3, <4>4, <5>1 DEF WorkKept, Settled, Valid
      <4>7. Complete'
        BY <4>4 DEF Complete
      <4> QED BY <3>3, <3>4, <4>2, <4>4, <4>6, <4>7
    <3> QED BY <3>5, <3>6
  <2> HIDE DEF Kept
  <2> QED BY <2>1, <2>2 DEF Discover, Page
<1>5. TypeOK'
  BY <1>1, <1>2, <1>4 DEF TypeOK, PCs, PollPC, DrainPC
<1>6. Numbered' /\ Followed'
  BY <1>1, <1>2, <1>3, <1>4 DEF Numbered, Followed, Started
<1>7. WorkKept' /\ Complete' /\ Uploaded'
  BY <1>2, <1>4 DEF Uploaded
<1>8. Asked'
  <2>1. (Draining' <=> Draining) /\ (Bounded' <=> Bounded)
    BY <1>2 DEF Draining, Bounded, DrainPC
  <2> QED BY <1>1, <1>2, <1>4, <2>1 DEF Asked
<1>9. DrainDelivers'
  BY <1>1, <1>2 DEF DrainDelivers, Asked
<1>10. Attempted'
  <2>1. active' \subseteq Pending'
    BY <1>1, <1>2, <1>4 DEF Attempted, Pending
  <2>2. \A p \in Paths : pend'[p].final <= cp'.generation
    BY <1>1, <1>4, Facts DEF Attempted
  <2> QED BY <1>1, <1>2, <2>1, <2>2 DEF Attempted
<1> QED BY <1>5, <1>6, <1>7, <1>8, <1>9, <1>10 DEF Inv

-----------------------------------------------------------------------------
(***************************************************************************)
(* The queue: prepare, upload, record.                                     *)
(***************************************************************************)
\* What stays of the invariant when prepare goes over a page of the queue.
LEMMA PrepareStep ==
    ASSUME Inv, Started, NEW items, items \subseteq Pending, NEW g \in {0, cp.generation},
           NEW wanted, Prepare(items, g, wanted),
           UNCHANGED <<scenario, source, rows, nextId, stopping, stops, made, handle, latest>>,
           UNCHANGED <<failures, result, base, sent, owed>>, failed' = {},
           pc \notin {"down", "begin"}, pc' \in PCs \ {"down", "open", "create", "record", "dclean", "dready", "dcomplete"},
           Draining' = Draining, Bounded' = Bounded,
           back' \in {"due", "clean", "drefresh"}, ccur' \in Nat
    PROVE  Inv'
<1>1. TypeOK /\ Numbered /\ Followed /\ WorkKept /\ Uploaded /\ Complete /\ Asked /\ Attempted /\ DrainDelivers
  BY DEF Inv
<1>2. g \in Nat /\ g <= cp.generation
  BY <1>1, Facts
<1>3. /\ faults' \in 0..scenario.faults
      /\ pend' \in [Paths -> Row \cup {NoRow}]
      /\ cp' \in Checkpoint
      /\ cp'.cursor = cp.cursor /\ cp'.source = cp.source /\ cp'.boundary = cp.boundary
      /\ cp'.generation = cp.generation /\ cp'.discovered = cp.discovered
      /\ active' \subseteq items \cap wanted
      /\ \A p \in active' : pend'[p] # NoRow
      /\ \A p \in Paths :
            /\ pend[p] = NoRow => pend'[p] = NoRow
            /\ pend[p] # NoRow => pend'[p] # NoRow \/ (p \in items /\ rows[handle][p] = 0)
            /\ pend'[p] # NoRow => /\ pend'[p].final \in {pend[p].final, g}
  BY <1>1, <1>2, PrepareIs
<1>4. made = "ready" /\ cp.source = handle
  BY <1>1 DEF Followed
<1>5. items \subseteq Paths /\ active' \subseteq Paths
  BY <1>3 DEF Pending
<1>6. TypeOK'
  BY <1>1, <1>3, <1>5 DEF TypeOK
<1>7. Numbered' /\ Followed'
  BY <1>1, <1>3, <1>4 DEF Numbered, Followed, Started
<1>8. WorkKept'
  <2>1. ASSUME cp.source = source, NEW p \in Valid(source), pend[p] # NoRow PROVE pend'[p] # NoRow
    BY <1>3, <1>4, <2>1 DEF Valid
  <2> QED BY <1>1, <1>3, <2>1 DEF WorkKept, Settled, Valid
<1>9. Complete' /\ Uploaded'
  BY <1>1, <1>3 DEF Complete, Uploaded
<1>10. Asked' /\ DrainDelivers'
  <2>1. result = "none"
    BY <1>1 DEF Asked
  <2>2. DrainDelivers'
    BY <2>1 DEF DrainDelivers
  <2>3. /\ Draining' => stopping' /\ (owed' # {} => handle' = source')
        /\ \A reg \in owed' : reg[1] = source' /\ reg[2] < nextId'[source']
    BY <1>1 DEF Asked, Draining, DrainPC
  <2>4. Bounded' => /\ cp'.boundary # Null
                    /\ \A p \in Paths :
                          <<source', rows'[source'][p]>> \in owed' => rows'[source'][p] <= cp'.boundary
    BY <1>1, <1>3 DEF Asked
  <2>5. Asked'
    BY <2>1, <2>3, <2>4 DEF Asked
  <2> QED BY <2>2, <2>5
<1>11. Attempted'
  <2>1. \A p \in Paths : pend'[p].final <= cp'.generation
    <3>1. ASSUME NEW p \in Paths PROVE pend'[p].final <= cp.generation
      <4>1. CASE pend'[p] = NoRow
        BY <1>1, <4>1, Facts DEF NoRow
      <4>2. CASE pend'[p] # NoRow
        BY <1>1, <1>2, <1>3, <4>2 DEF Attempted
      <4> QED BY <4>1, <4>2
    <3> QED BY <1>3, <3>1
  <2>2. active' \subseteq Pending'
    BY <1>3, <1>5 DEF Pending
  <2> QED BY <2>1, <2>2 DEF Attempted
<1> QED BY <1>6, <1>7, <1>8, <1>9, <1>10, <1>11 DEF Inv

\* An attempt, fresh or due, or the final one of a drain.
LEMMA AttemptStep ==
    ASSUME Inv, NEW items, items \subseteq Pending, NEW g, NEW next, Attempt(items, g, next),
           \/ pc = "fresh" /\ next = "due" /\ g = 0
           \/ pc = "due" /\ next = "clean" /\ g = 0
           \/ pc = "final" /\ next = "drefresh" /\ g = cp.generation
    PROVE  Inv'
<1>1. /\ UNCHANGED <<scenario, source, rows, nextId, stopping, stops, made, handle, latest>>
      /\ UNCHANGED <<failures, result, base, sent, owed>>
      /\ failed' = failed /\ ccur' = ccur
      /\ Prepare(items, g, items)
      /\ (pc' = next /\ back' = back) \/ (pc' = "upload" /\ back' = next)
  BY DEF Attempt
<1>2. failed' = {} /\ ccur' \in Nat /\ back' \in {"due", "clean", "drefresh"}
  BY <1>1 DEF Inv, Attempted, TypeOK
<1>3. Started /\ Draining' = Draining /\ Bounded' = Bounded
  BY <1>1 DEF Started, Draining, Bounded, DrainPC
<1>4. pc' \in PCs \ {"down", "open", "create", "record", "dclean", "dready", "dcomplete"} /\ pc \notin {"down", "begin"}
  BY <1>1 DEF PCs, PollPC, DrainPC
<1>5. g \in {0, cp.generation}
  OBVIOUS
<1> QED BY <1>1, <1>2, <1>3, <1>4, <1>5, PrepareStep

\* One page of cleanup, of poll or of finish.
LEMMA CleanupStep ==
    ASSUME Inv, NEW onEnd, NEW onPage, CleanupPage(onEnd, onPage),
           \/ pc = "clean" /\ onEnd = "refresh" /\ onPage = "refresh"
           \/ pc = "dclean" /\ onEnd = "dready" /\ onPage = "dclean"
    PROVE  Inv'
<1>1. TypeOK /\ Numbered /\ Followed /\ WorkKept /\ Uploaded /\ Complete /\ Asked /\ Attempted /\ DrainDelivers
  BY DEF Inv
<1>2. /\ UNCHANGED <<scenario, source, rows, nextId, stopping, stops, made, handle, latest>>
      /\ UNCHANGED <<failed, back, failures, result, base, sent, owed>>
      /\ failed = {}
  BY <1>1 DEF CleanupPage, Attempted
<1>3. PICK items \in SUBSET {p \in Pending : Rank[p] > ccur} :
        IF items = {}
        THEN /\ ccur' = 0 /\ pc' = onEnd
             /\ UNCHANGED <<faults, cp, pend, active>>
        ELSE /\ \E p \in items : /\ \A q \in items : Rank[q] <= Rank[p]
                                 /\ ccur' = Rank[p]
             /\ Prepare(items, 0, {})
             /\ pc' = onPage
  BY DEF CleanupPage, Page
<1>4. items \subseteq Pending /\ \A p \in items : Rank[p] \in Nat
  BY WatchAssumption DEF Pending
<1>5. ccur' \in Nat /\ pc' \in {onEnd, onPage}
  BY <1>3, <1>4
<1>6. pc' \in PCs
  BY <1>5 DEF PCs, PollPC, DrainPC
<1>7. Started /\ Draining' = Draining /\ Bounded' = Bounded
  BY <1>2, <1>5 DEF Started, Draining, Bounded, DrainPC
<1>8. CASE items = {}
  <2>1. UNCHANGED <<faults, cp, pend, active>> /\ pc' = onEnd
    BY <1>3, <1>8
  <2>2. TypeOK'
    BY <1>1, <1>2, <1>5, <1>6, <2>1 DEF TypeOK
  <2>3. Numbered' /\ Followed' /\ WorkKept' /\ Complete' /\ Uploaded'
    BY <1>1, <1>2, <2>1 DEF Numbered, Followed, Started, WorkKept, Settled, Valid, Complete, Uploaded
  <2>4. Asked'
    BY <1>1, <1>2, <2>1 DEF Asked, Draining, Bounded, DrainPC
  <2>5. DrainDelivers' /\ Attempted'
    BY <1>1, <1>2, <2>1 DEF DrainDelivers, Asked, Attempted, NotExpired, Pending
  <2> QED BY <2>2, <2>3, <2>4, <2>5 DEF Inv
<1>9. CASE items # {} /\ pc = "clean"
  <2>1. Prepare(items, 0, {}) /\ pc' = "refresh"
    BY <1>3, <1>9
  <2>2. pc' \in PCs \ {"down", "open", "create", "record", "dclean", "dready", "dcomplete"} /\ pc \notin {"down", "begin"}
    BY <1>9, <2>1 DEF PCs, PollPC
  <2>3. back' \in {"due", "clean", "drefresh"} /\ failed' = {}
    BY <1>1, <1>2 DEF TypeOK
  <2> QED BY <1>2, <1>4, <1>5, <1>7, <2>1, <2>2, <2>3, PrepareStep
<1>10. CASE items # {} /\ pc = "dclean"
  <2>1. Prepare(items, 0, {}) /\ pc' = "dclean"
    BY <1>3, <1>10
  <2>2. /\ faults' \in 0..scenario.faults
        /\ pend' \in [Paths -> Row \cup {NoRow}]
        /\ cp' \in Checkpoint
        /\ cp'.cursor = cp.cursor /\ cp'.source = cp.source /\ cp'.boundary = cp.boundary
        /\ cp'.generation = cp.generation /\ cp'.discovered = cp.discovered
        /\ active' \subseteq items \cap {}
        /\ \A p \in Paths :
              /\ pend[p] = NoRow => pend'[p] = NoRow
              /\ pend[p] # NoRow => pend'[p] # NoRow \/ (p \in items /\ rows[handle][p] = 0)
              /\ pend'[p] # NoRow => /\ pend'[p].final \in {pend[p].final, 0}
                                     /\ pend[p].expired => pend'[p].expired
              /\ pend'[p] # NoRow => pend'[p].final = pend[p].final
    BY <1>1, <1>4, <2>1, PrepareIs
  <2>3. made = "ready" /\ cp.source = handle /\ active' = {}
    BY <1>1, <1>7, <2>2 DEF Followed
  <2>4. TypeOK'
    BY <1>1, <1>2, <1>5, <1>6, <2>2, <2>3 DEF TypeOK
  <2>5. Numbered' /\ Followed'
    BY <1>1, <1>2, <2>1, <2>2, <2>3 DEF Numbered, Followed, Started
  <2>6. WorkKept'
    <3>1. ASSUME cp.source = source, NEW p \in Valid(source), pend[p] # NoRow PROVE pend'[p] # NoRow
      BY <2>2, <2>3, <3>1 DEF Valid
    <3> QED BY <1>1, <1>2, <2>2, <3>1 DEF WorkKept, Settled, Valid
  <2>7. Complete' /\ Uploaded'
    BY <1>1, <1>2, <2>1, <2>2 DEF Complete, Uploaded
  <2>8. Asked'
    BY <1>1, <1>2, <1>10, <2>1, <2>2 DEF Asked, Draining, Bounded, DrainPC
  <2>9. DrainDelivers'
    BY <1>1, <1>2, <1>10 DEF DrainDelivers, Asked
  <2>10. Attempted'
    <3>1. \A p \in Paths : pend'[p].final <= cp'.generation
      <4>1. ASSUME NEW p \in Paths PROVE pend'[p].final <= cp.generation
        BY <1>1, <2>2, Facts, RowFacts DEF Attempted
      <4> QED BY <2>2, <4>1
    <3>2. NotExpired' \subseteq NotExpired /\ \A p \in NotExpired' : pend'[p].final = pend[p].final
      BY <2>2 DEF NotExpired, Pending
    <3> QED BY <1>1, <1>2, <1>10, <2>1, <2>2, <2>3, <3>1, <3>2 DEF Attempted
  <2> QED BY <2>4, <2>5, <2>6, <2>7, <2>8, <2>9, <2>10 DEF Inv
<1> QED BY <1>8, <1>9, <1>10

LEMMA UploadStep ==
    ASSUME Inv, Upload
    PROVE  Inv'
<1>1. TypeOK /\ Numbered /\ Followed /\ WorkKept /\ Uploaded /\ Complete /\ Asked /\ Attempted /\ DrainDelivers
  BY DEF Inv
<1>2. /\ UNCHANGED <<scenario, source, rows, nextId, stopping, stops, faults, made, cp, pend>>
      /\ UNCHANGED <<handle, latest, active, back, ccur, failures, result, base, owed>>
      /\ pc = "upload" /\ pc' = "record"
  BY DEF Upload, envVars, stateVars
<1>3. PICK ok \in SUBSET (active \cap Valid(source)) :
        /\ failed' = active \ ok
        /\ sent' = sent \cup {<<source, rows[source][p]>> : p \in ok}
  BY DEF Upload
<1>4. TypeOK'
  <2>1. sent' \subseteq Sources \X Nat
    <3>1. \A p \in ok : rows[source][p] \in Nat /\ source \in Sources
      BY <1>1, Facts
    <3> QED BY <1>1, <1>3, <3>1 DEF TypeOK
  <2>2. failed' \subseteq active
    BY <1>3
  <2> QED BY <1>1, <1>2, <2>1, <2>2 DEF TypeOK, PCs
<1>5. Numbered' /\ Followed'
  BY <1>1, <1>2 DEF Numbered, Followed, Started
<1>6. WorkKept' /\ Complete'
  BY <1>1, <1>2, <1>3 DEF WorkKept, Settled, Valid, Complete
<1>7. Uploaded'
  <2>1. active \ failed' \subseteq ok
    BY <1>3
  <2>2. \A p \in ok : <<source, rows[source][p]>> \in sent'
    BY <1>3
  <2> QED BY <1>2, <2>1, <2>2 DEF Uploaded, Settled
<1>8. Asked'
  BY <1>1, <1>2 DEF Asked, Draining, Bounded, DrainPC
<1>9. DrainDelivers'
  BY <1>1, <1>2 DEF DrainDelivers, Asked
<1>10. Attempted'
  BY <1>1, <1>2 DEF Attempted, NotExpired, Pending
<1> QED BY <1>4, <1>5, <1>6, <1>7, <1>8, <1>9, <1>10 DEF Inv

LEMMA RecordStep ==
    ASSUME Inv, Record
    PROVE  Inv'
<1>1. TypeOK /\ Numbered /\ Followed /\ WorkKept /\ Uploaded /\ Complete /\ Asked /\ Attempted /\ DrainDelivers
  BY DEF Inv
<1>2. /\ UNCHANGED <<scenario, source, rows, nextId, stopping, stops, faults, made, cp>>
      /\ UNCHANGED <<handle, latest, ccur, failures, result, base, sent, owed>>
      /\ pc = "record" /\ pc' = back /\ back \in {"due", "clean", "drefresh"}
      /\ active' = {} /\ failed' = {} /\ back' = "due"
      /\ pend' = [p \in Paths |->
          IF p \in failed THEN [pend[p] EXCEPT !.tried = TRUE, !.due = FALSE]
          ELSE IF p \in active THEN NoRow
          ELSE pend[p]]
  BY <1>1 DEF Record, envVars, histVars, TypeOK
<1>3. ASSUME NEW p \in Paths
      PROVE  /\ pend'[p] \in Row \cup {NoRow}
             /\ p \notin active \ failed /\ pend[p] # NoRow => pend'[p] # NoRow
             /\ pend'[p].final \in {0, pend[p].final}
  <2>1. NoRow \notin Row /\ pend[p] \in Row \cup {NoRow} /\ NoRow.final = 0
    BY <1>1, RowFacts
  <2>2. p \in failed => pend[p] \in Row
    BY <1>1, RowFacts, Facts DEF Attempted
  <2>3. CASE p \in failed
    <3>1. pend'[p] = [pend[p] EXCEPT !.tried = TRUE, !.due = FALSE]
      BY <1>2, <2>3
    <3>2. pend'[p] \in Row /\ pend'[p].final = pend[p].final
      BY <2>2, <2>3, <3>1, RowIs
    <3> QED BY <2>1, <3>2
  <2>4. CASE p \notin failed
    BY <1>2, <2>1, <2>4
  <2> QED BY <2>3, <2>4
<1>4. TypeOK'
  <2>1. pend' \in [Paths -> Row \cup {NoRow}]
    <3>1. pend' = [p \in Paths |-> pend'[p]]
      BY <1>2
    <3> QED BY <1>3, <3>1
  <2> QED BY <1>1, <1>2, <2>1 DEF TypeOK, PCs, PollPC, DrainPC
<1>5. Numbered' /\ Followed'
  BY <1>1, <1>2 DEF Numbered, Followed, Started
<1>6. WorkKept'
  <2>1. ASSUME made = "ready", cp.source = source, NEW p \in Valid(source)
        PROVE  Settled(p) \/ pend'[p] # NoRow
    <3>1. p \in Paths
      BY <2>1 DEF Valid
    <3>2. CASE p \in active \ failed
      BY <1>1, <1>2, <2>1, <3>2 DEF Uploaded
    <3>3. CASE p \notin active \ failed
      BY <1>1, <1>3, <2>1, <3>1, <3>3 DEF WorkKept
    <3> QED BY <3>2, <3>3
  <2> QED BY <1>2, <2>1 DEF WorkKept, Settled, Valid
<1>7. Complete' /\ Uploaded'
  BY <1>1, <1>2 DEF Complete, Uploaded
<1>8. Asked'
  BY <1>1, <1>2 DEF Asked, Draining, Bounded, DrainPC
<1>9. DrainDelivers'
  BY <1>1, <1>2 DEF DrainDelivers, Asked
<1>10. Attempted'
  <2>1. \A p \in Paths : pend'[p].final <= cp'.generation
    <3>1. ASSUME NEW p \in Paths PROVE pend'[p].final <= cp.generation
      <4>1. pend'[p].final \in {0, pend[p].final} /\ pend[p].final <= cp.generation /\ cp.generation \in Nat
        BY <1>1, <1>3, Facts DEF Attempted
      <4> QED BY <4>1
    <3> QED BY <1>2, <3>1
  <2> QED BY <1>2, <2>1 DEF Attempted
<1> QED BY <1>4, <1>5, <1>6, <1>7, <1>8, <1>9, <1>10 DEF Inv

-----------------------------------------------------------------------------
(***************************************************************************)
(* The drain: its boundary, its last attempts, its outcome.                *)
(***************************************************************************)
LEMMA EndDrainIs ==
    ASSUME TypeOK, NEW finished \in BOOLEAN, IF finished THEN EndDrain ELSE UNCHANGED cp
    PROVE  /\ cp' \in Checkpoint /\ cp'.source = cp.source /\ cp'.cursor = cp.cursor
           /\ cp'.generation = cp.generation /\ cp'.discovered = cp.discovered
           /\ cp'.boundary = cp.boundary \/ cp'.boundary = Null
<1>1. cp \in Checkpoint
  BY DEF TypeOK
<1>2. CASE finished
  <2>1. cp' = [cp EXCEPT !.boundary = Null, !.expired = 0]
    BY <1>2 DEF EndDrain
  <2> QED BY <1>1, <2>1 DEF Checkpoint
<1>3. CASE ~finished
  BY <1>1, <1>3
<1> QED BY <1>2, <1>3

LEMMA PollCompleteStep ==
    ASSUME Inv, PollComplete
    PROVE  Inv'
<1>1. TypeOK /\ Numbered /\ Followed /\ WorkKept /\ Uploaded /\ Complete /\ Asked /\ Attempted /\ DrainDelivers
  BY DEF Inv
<1>2. /\ UNCHANGED <<scenario, source, rows, nextId, stopping, stops, faults, made, pend, handle, latest>>
      /\ UNCHANGED <<active, failed, back, ccur, failures, result, base, sent, owed>>
      /\ pc = "complete" /\ pc' \in {"raise", "idle"}
  BY DEF PollComplete, envVars, histVars
<1>3. /\ cp' \in Checkpoint /\ cp'.source = cp.source /\ cp'.cursor = cp.cursor
      /\ cp'.generation = cp.generation /\ cp'.discovered = cp.discovered
      /\ cp'.boundary = cp.boundary \/ cp'.boundary = Null
  <2>1. Finished \in BOOLEAN
    BY DEF Finished
  <2> QED BY <1>1, <2>1, EndDrainIs DEF PollComplete
<1>4. TypeOK'
  BY <1>1, <1>2, <1>3 DEF TypeOK, PCs, PollPC
<1>5. Numbered' /\ Followed'
  BY <1>1, <1>2, <1>3, Facts DEF Numbered, Followed, Started
<1>6. WorkKept' /\ Complete' /\ Uploaded'
  BY <1>1, <1>2, <1>3 DEF WorkKept, Settled, Valid, Complete, Uploaded
<1>7. Asked'
  BY <1>1, <1>2 DEF Asked, Draining, Bounded, DrainPC
<1>8. DrainDelivers'
  BY <1>1, <1>2 DEF DrainDelivers, Asked
<1>9. Attempted'
  BY <1>1, <1>2, <1>3 DEF Attempted, NotExpired, Pending
<1> QED BY <1>4, <1>5, <1>6, <1>7, <1>8, <1>9 DEF Inv

LEMMA TurnToDrainStep ==
    ASSUME Inv, TurnToDrain
    PROVE  Inv'
<1>1. TypeOK /\ Numbered /\ Followed /\ WorkKept /\ Uploaded /\ Complete /\ Asked /\ Attempted /\ DrainDelivers
  BY DEF Inv
<1>2. /\ UNCHANGED <<scenario, source, rows, nextId, stopping, stops, faults, made, cp, pend>>
      /\ UNCHANGED <<handle, latest, ccur, failures, result, base, sent, owed>>
      /\ stopping /\ pc \in PollPC \cup {"idle", "upload", "record"} /\ pc' = "begin"
      /\ active' = {} /\ failed' = {} /\ back' = "due"
  BY DEF TurnToDrain, InPoll, envVars, stateVars, histVars
<1>3. TypeOK'
  BY <1>1, <1>2 DEF TypeOK, PCs, DrainPC
<1>4. Numbered' /\ Followed'
  BY <1>1, <1>2 DEF Numbered, Followed, Started, PollPC
<1>5. WorkKept' /\ Complete' /\ Uploaded'
  BY <1>1, <1>2 DEF WorkKept, Settled, Valid, Complete, Uploaded
<1>6. Asked'
  BY <1>1, <1>2 DEF Asked, Bounded, PollPC
<1>7. DrainDelivers'
  BY <1>1, <1>2 DEF DrainDelivers, Asked, PollPC
<1>8. Attempted'
  BY <1>1, <1>2 DEF Attempted
<1> QED BY <1>3, <1>4, <1>5, <1>6, <1>7, <1>8 DEF Inv

LEMMA BeginDrainStep ==
    ASSUME Inv, BeginDrain
    PROVE  Inv'
<1>1. TypeOK /\ Numbered /\ Followed /\ WorkKept /\ Uploaded /\ Complete /\ Asked /\ Attempted /\ DrainDelivers
  BY DEF Inv
<1> DEFINE id == Latest(handle).id
<1>2. /\ UNCHANGED <<scenario, source, rows, nextId, stopping, stops, faults, made, pend, handle, latest>>
      /\ UNCHANGED <<active, failed, back, ccur, failures, result, base, sent, owed>>
      /\ pc = "boundary" /\ pc' = "drefresh"
  BY DEF BeginDrain, envVars, histVars
<1>3. /\ cp.source = handle /\ made = "ready" /\ handle \in Sources
      /\ cp.boundary < nextId[handle] /\ nextId[handle] \in Nat \ {0}
  BY <1>1, <1>2, Facts DEF Followed, Started
<1>4. /\ id \in Nat /\ id < nextId[handle]
      /\ \A p \in Paths : rows[handle][p] <= id
  <2>1. /\ Latest(handle) \in LatestType
        /\ \A p \in Paths : rows[handle][p] <= Latest(handle).id
        /\ Latest(handle).id # 0 => \E p \in Paths : Latest(handle).id = rows[handle][p]
    BY <1>1, <1>3, LatestIs
  <2> QED BY <1>1, <1>3, <2>1 DEF LatestType, Numbered
<1> DEFINE b == IF cp.boundary > id THEN cp.boundary ELSE id
           g == IF cp.boundary = Null THEN cp.generation + 1 ELSE cp.generation
           d == cp.discovered /\ cp.boundary # Null /\ cp.boundary >= id
<1>5. /\ b \in Nat /\ b < nextId[handle] /\ b >= id /\ g \in Nat /\ g >= cp.generation /\ d \in BOOLEAN
      /\ d => cp.discovered /\ cp.boundary # Null /\ b = cp.boundary
  BY <1>1, <1>3, <1>4, Facts
<1>6. cp' = [cp EXCEPT !.boundary = b, !.generation = g, !.discovered = d]
  <2>1. cp \in Checkpoint
    BY <1>1, Facts
  <2>2. cp' = [cp EXCEPT
          !.boundary   = IF cp.boundary > id THEN cp.boundary ELSE id,
          !.generation = IF cp.boundary = Null THEN cp.generation + 1 ELSE cp.generation,
          !.discovered = cp.discovered /\ cp.boundary # Null /\ cp.boundary >= id]
    BY <2>1 DEF BeginDrain, Checkpoint
  <2> QED BY <2>2
<1> HIDE DEF b, g, d, id
<1>7. /\ cp' \in Checkpoint /\ cp'.source = handle /\ cp'.cursor = cp.cursor
      /\ cp'.boundary = b /\ cp'.generation = g /\ cp'.discovered = d
  <2>1. cp \in Checkpoint
    BY <1>1, Facts
  <2> QED BY <1>3, <1>5, <1>6, <2>1 DEF Checkpoint
<1>8. TypeOK'
  BY <1>1, <1>2, <1>7 DEF TypeOK, PCs, DrainPC
<1>9. Numbered' /\ Followed'
  BY <1>1, <1>2, <1>3, <1>5, <1>7 DEF Numbered, Followed, Started
<1>10. WorkKept' /\ Uploaded'
  BY <1>1, <1>2, <1>3, <1>7 DEF WorkKept, Settled, Valid, Uploaded
<1>11. Complete'
  BY <1>1, <1>2, <1>3, <1>5, <1>7 DEF Complete
<1>12. Asked'
  <2>1. Draining /\ Draining'
    BY <1>2 DEF Draining, DrainPC
  <2>2. \A p \in Paths : <<source, rows[source][p]>> \in owed => rows[source][p] <= cp'.boundary
    <3>1. ASSUME NEW p \in Paths, <<source, rows[source][p]>> \in owed
          PROVE  rows[source][p] <= cp'.boundary
      <4>1. handle = source
        BY <1>1, <1>2, <2>1, <3>1 DEF Asked
      <4>2. rows[handle][p] <= id /\ rows[handle][p] \in Nat
        BY <1>1, <1>3, <1>4, Facts
      <4> QED BY <1>4, <1>5, <1>7, <4>1, <4>2
    <3> QED BY <3>1
  <2>3. cp'.boundary # Null
    BY <1>5, <1>7 DEF Null
  <2> QED BY <1>1, <1>2, <2>1, <2>2, <2>3 DEF Asked
<1>13. DrainDelivers'
  BY <1>1, <1>2 DEF DrainDelivers, Asked
<1>14. Attempted'
  <2>1. ASSUME NEW p \in Paths PROVE pend[p].final <= g
    <3>1. pend[p].final \in Nat /\ pend[p].final <= cp.generation /\ cp.generation \in Nat
      BY <1>1, RowFacts, Facts DEF Attempted
    <3> QED BY <1>5, <3>1
  <2> QED BY <1>1, <1>2, <1>7, <2>1 DEF Attempted, Pending
<1> QED BY <1>8, <1>9, <1>10, <1>11, <1>12, <1>13, <1>14 DEF Inv

LEMMA DrainFinalStep ==
    ASSUME Inv, DrainFinal
    PROVE  Inv'
<1>1. TypeOK /\ Numbered /\ Followed /\ WorkKept /\ Uploaded /\ Complete /\ Asked /\ Attempted /\ DrainDelivers
  BY DEF Inv
<1>2. CASE Unattempted = {} /\ cp.discovered
  <2>1. /\ UNCHANGED <<scenario, source, rows, nextId, stopping, stops, faults, made, cp, pend>>
        /\ UNCHANGED <<handle, latest, active, failed, back, failures, result, base, sent, owed>>
        /\ pc = "final" /\ pc' = "dclean" /\ ccur' = 0
    BY <1>2 DEF DrainFinal, envVars, stateVars, histVars
  <2>2. TypeOK'
    BY <1>1, <2>1 DEF TypeOK, PCs, DrainPC
  <2>3. Numbered' /\ Followed'
    BY <1>1, <2>1 DEF Numbered, Followed, Started
  <2>4. WorkKept' /\ Complete' /\ Uploaded'
    BY <1>1, <2>1 DEF WorkKept, Settled, Valid, Complete, Uploaded
  <2>5. Asked'
    BY <1>1, <2>1 DEF Asked, Draining, Bounded, DrainPC
  <2>6. DrainDelivers'
    BY <1>1, <2>1 DEF DrainDelivers, Asked
  <2>7. Attempted'
    <3>1. ASSUME NEW p \in NotExpired PROVE pend[p].final = cp.generation
      <4>1. p \in Paths /\ ~(pend[p].final < cp.generation)
        BY <1>2 DEF Unattempted, NotExpired, Pending
      <4>2. pend[p].final \in Nat /\ pend[p].final <= cp.generation /\ cp.generation \in Nat
        BY <1>1, <4>1, RowFacts, Facts DEF Attempted
      <4> QED BY <4>1, <4>2
    <3>2. NotExpired' = NotExpired /\ Pending' = Pending
      BY <2>1 DEF NotExpired, Pending
    <3> QED BY <1>1, <2>1, <3>1, <3>2 DEF Attempted
  <2> QED BY <2>2, <2>3, <2>4, <2>5, <2>6, <2>7 DEF Inv
<1>3. CASE ~(Unattempted = {} /\ cp.discovered)
  <2>1. pc = "final" /\ \E items \in SUBSET Unattempted : Attempt(items, cp.generation, "drefresh")
    BY <1>3 DEF DrainFinal, Page
  <2>2. PICK items \in SUBSET Unattempted : Attempt(items, cp.generation, "drefresh")
    BY <2>1
  <2>3. items \subseteq Pending
    BY DEF Unattempted, NotExpired
  <2> QED BY <2>1, <2>2, <2>3, AttemptStep
<1> QED BY <1>2, <1>3

LEMMA DrainCompleteStep ==
    ASSUME Inv, DrainComplete
    PROVE  Inv'
<1>1. TypeOK /\ Numbered /\ Followed /\ WorkKept /\ Uploaded /\ Complete /\ Asked /\ Attempted /\ DrainDelivers
  BY DEF Inv
<1>2. /\ UNCHANGED <<scenario, source, rows, nextId, stops, faults, made, pend, handle>>
      /\ UNCHANGED <<base, sent, owed>>
      /\ pc = "dcomplete" /\ pc' = "down" /\ stopping' = FALSE /\ latest' = NoLatest
      /\ result' = IF Finished /\ cp.expired = 0 THEN "ok" ELSE "incomplete"
      /\ active' = {} /\ failed' = {} /\ back' = "due" /\ ccur' = 0 /\ failures' = 0
  BY DEF DrainComplete, Exit
<1>3. /\ cp' \in Checkpoint /\ cp'.source = cp.source /\ cp'.cursor = cp.cursor
      /\ cp'.generation = cp.generation /\ cp'.discovered = cp.discovered
      /\ cp'.boundary = cp.boundary \/ cp'.boundary = Null
  <2>1. Finished \in BOOLEAN
    BY DEF Finished
  <2> QED BY <1>1, <2>1, EndDrainIs DEF DrainComplete
<1>4. latest'.id = 0 /\ latest' \in LatestType
  BY <1>2 DEF NoLatest, LatestType
<1>5. TypeOK'
  <2>1. failures' \in 0..(MaxFailures - 1) /\ ccur' \in Nat
    BY <1>2, WatchAssumption
  <2>2. pc' \in PCs /\ result' \in {"none", "ok", "incomplete", "error", "crash"}
    BY <1>2 DEF PCs
  <2>3. /\ stopping' \in BOOLEAN /\ back' \in {"due", "clean", "drefresh"}
        /\ active' \subseteq Paths /\ failed' \subseteq active'
    BY <1>2
  <2> QED BY <1>1, <1>2, <1>3, <1>4, <2>1, <2>2, <2>3 DEF TypeOK, LatestType
<1>6. Numbered' /\ Followed'
  <2>1. cp'.boundary < nextId[cp.source] /\ nextId[handle] > 0
    BY <1>1, <1>3, Facts DEF Followed
  <2> QED BY <1>1, <1>2, <1>3, <1>4, <2>1, Facts DEF Numbered, Followed, Started
<1>7. WorkKept' /\ Complete' /\ Uploaded'
  BY <1>1, <1>2, <1>3 DEF WorkKept, Settled, Valid, Complete, Uploaded
<1>8. Asked'
  BY <1>1, <1>2 DEF Asked, Draining, Bounded, DrainPC
<1>9. DrainDelivers'
  <2>1. ASSUME Finished, NEW p \in Valid(source), <<source, rows[source][p]>> \in owed
        PROVE  <<source, rows[source][p]>> \in base \cup sent \/ p \in Expired
    <3>1. p \in Paths /\ rows[source][p] # 0 /\ rows[source][p] \in Nat
      BY <1>1, <2>1, Facts
    <3>2. handle = source /\ cp.source = source /\ made = "ready"
      BY <1>1, <1>2, <2>1 DEF Asked, Followed, Started, Draining, DrainPC
    <3>3. rows[source][p] <= cp.boundary
      BY <1>1, <1>2, <2>1, <3>1 DEF Asked, Bounded, Draining, DrainPC
    <3>4. ~(rows[source][p] > cp.cursor)
      BY <1>1, <2>1, <3>1, <3>2, <3>3, Facts DEF Complete, Finished
    <3>5. pend[p] # NoRow => p \in Expired
      BY <2>1, <3>1 DEF Finished, NotExpired, Pending, Expired
    <3> QED BY <1>1, <2>1, <3>2, <3>4, <3>5 DEF WorkKept, Settled
  <2>2. Expired' = Expired /\ Valid(source)' = Valid(source)
    BY <1>2 DEF Expired, Valid
  <2> QED BY <1>2, <2>1, <2>2 DEF DrainDelivers
<1>10. Attempted'
  BY <1>1, <1>2, <1>3 DEF Attempted, Pending
<1> QED BY <1>5, <1>6, <1>7, <1>8, <1>9, <1>10 DEF Inv

LEMMA SourceFailsStep ==
    ASSUME Inv, SourceFails
    PROVE  Inv'
<1>1. TypeOK /\ Numbered /\ Followed /\ WorkKept /\ Uploaded /\ Complete /\ Asked /\ Attempted /\ DrainDelivers
  BY DEF Inv
<1>2. /\ UNCHANGED <<scenario, source, rows, nextId, stopping, stops, made, cp, pend>>
      /\ UNCHANGED <<handle, latest, active, failed, back, ccur, result, base, sent, owed>>
      /\ pc \in {"idle", "discover"} /\ pc' = "idle"
  BY DEF SourceFails, stateVars, histVars
<1>3. TypeOK'
  <2>1. faults' \in 0..scenario.faults
    BY <1>1, ScenarioAssumption DEF SourceFails, TypeOK, ScenarioType
  <2>2. failures' \in 0..(MaxFailures - 1)
    BY <1>1, WatchAssumption DEF SourceFails, TypeOK
  <2> QED BY <1>1, <1>2, <2>1, <2>2 DEF TypeOK, PCs
<1>4. Numbered' /\ Followed'
  BY <1>1, <1>2 DEF Numbered, Followed, Started
<1>5. WorkKept' /\ Complete' /\ Uploaded'
  BY <1>1, <1>2 DEF WorkKept, Settled, Valid, Complete, Uploaded
<1>6. Asked'
  BY <1>1, <1>2 DEF Asked, Draining, Bounded, DrainPC
<1>7. DrainDelivers'
  BY <1>1, <1>2 DEF DrainDelivers, Asked
<1>8. Attempted'
  BY <1>1, <1>2 DEF Attempted, NotExpired, Pending
<1> QED BY <1>3, <1>4, <1>5, <1>6, <1>7, <1>8 DEF Inv

-----------------------------------------------------------------------------
(***************************************************************************)
(* The specification.                                                      *)
(***************************************************************************)
LEMMA InitInv == Init => Inv
<1> SUFFICES ASSUME Init PROVE Inv
  OBVIOUS
<1>1. Sources \subseteq Nat /\ 1 \in Sources /\ MaxId \in Nat
  BY WatchAssumption DEF Sources
<1>2. NoCheckpoint \in Checkpoint /\ NoLatest.id = 0 /\ NoLatest \in [id : Nat, path : Paths \cup {NoPath}]
  BY <1>1 DEF NoCheckpoint, Checkpoint, NoLatest
<1>3. NoCheckpoint.cursor = 0 /\ NoCheckpoint.source = 1 /\ NoCheckpoint.boundary = Null
      /\ NoCheckpoint.generation = 0 /\ ~NoCheckpoint.discovered /\ NoRow.final = 0 /\ Null = -1
  BY DEF NoCheckpoint, NoRow, Null
<1>4. /\ \A s \in Sources, p \in Paths : rows[s][p] = 0
      /\ \A s \in Sources : nextId[s] = 1
      /\ \A p \in Paths : pend[p] = NoRow
  BY DEF Init
<1>5. TypeOK
  <2>1. rows \in [Sources -> [Paths -> 0..MaxId]] /\ nextId \in [Sources -> 1..(MaxId + 1)]
    BY <1>1 DEF Init
  <2>2. pend \in [Paths -> Row \cup {NoRow}]
    BY DEF Init
  <2>3. faults \in 0..scenario.faults
    BY ScenarioAssumption DEF Init, ScenarioType
  <2>4. stops \in 0..MaxStops /\ failures \in 0..(MaxFailures - 1)
    BY WatchAssumption DEF Init
  <2> QED BY <1>1, <1>2, <2>1, <2>2, <2>3, <2>4 DEF Init, TypeOK, PCs
<1>6. Numbered
  BY <1>4 DEF Numbered
<1>7. Followed
  BY <1>1, <1>2, <1>3, <1>4 DEF Init, Followed, Started
<1>8. WorkKept /\ Uploaded /\ Complete
  BY <1>3 DEF Init, WorkKept, Uploaded, Complete
<1>9. Asked /\ DrainDelivers
  BY DEF Init, Asked, Draining, Bounded, DrainPC, DrainDelivers
<1>10. Attempted
  <2>1. \A p \in Paths : pend[p].final <= cp.generation
    BY <1>3, <1>4 DEF Init
  <2> QED BY <2>1 DEF Init, Attempted
<1> QED BY <1>5, <1>6, <1>7, <1>8, <1>9, <1>10 DEF Inv

LEMMA StutterStep ==
    ASSUME Inv, UNCHANGED vars
    PROVE  Inv'
<1>1. TypeOK /\ Numbered /\ Followed /\ WorkKept /\ Uploaded /\ Complete /\ Asked /\ Attempted /\ DrainDelivers
  BY DEF Inv
<1>2. /\ UNCHANGED <<scenario, source, rows, nextId, stopping, stops, faults, made, cp, pend, pc>>
      /\ UNCHANGED <<handle, latest, active, failed, back, ccur, failures, result, base, sent, owed>>
  BY DEF vars, envVars, stateVars, procVars, histVars
<1>3. TypeOK' /\ Numbered' /\ Followed'
  BY <1>1, <1>2 DEF TypeOK, Numbered, Followed, Started
<1>4. WorkKept' /\ Complete' /\ Uploaded'
  BY <1>1, <1>2 DEF WorkKept, Settled, Valid, Complete, Uploaded
<1>5. Asked' /\ DrainDelivers'
  BY <1>1, <1>2 DEF Asked, Draining, Bounded, DrainDelivers, Valid, Expired
<1>6. Attempted'
  BY <1>1, <1>2 DEF Attempted, NotExpired, Pending
<1> QED BY <1>3, <1>4, <1>5, <1>6 DEF Inv

LEMMA ProcessStep ==
    ASSUME Inv, Process
    PROVE  Inv'
<1>1. TypeOK /\ faults \in 0..scenario.faults /\ failures \in 0..(MaxFailures - 1)
  BY DEF Inv, TypeOK
<1>2. CASE OpenState
  BY <1>2, OpenStateStep
<1>3. CASE Initialize
  BY <1>3, InitializeStep
<1>4. CASE PollRefresh
  BY <1>4, RefreshStep DEF PollRefresh, RefreshSource
<1>5. CASE PollDiscover
  <2>1. failures' \in 0..(MaxFailures - 1) /\ pc = "discover" /\ Discover("fresh")
    BY <1>5, WatchAssumption DEF PollDiscover
  <2> QED BY <2>1, DiscoverStep
<1>6. CASE PollFresh
  <2>1. PICK items \in SUBSET {p \in NotExpired : ~pend[p].tried} : Attempt(items, 0, "due")
    BY <1>6 DEF PollFresh, Page
  <2>2. items \subseteq Pending /\ pc = "fresh"
    BY <1>6 DEF PollFresh, NotExpired
  <2> QED BY <2>1, <2>2, AttemptStep
<1>7. CASE PollDue
  <2>1. PICK items \in SUBSET {p \in NotExpired : pend[p].tried /\ pend[p].due} :
            Attempt(items, 0, "clean")
    BY <1>7 DEF PollDue, Page
  <2>2. items \subseteq Pending /\ pc = "due"
    BY <1>7 DEF PollDue, NotExpired
  <2> QED BY <2>1, <2>2, AttemptStep
<1>8. CASE PollCleanup
  BY <1>8, CleanupStep DEF PollCleanup
<1>9. CASE PollRefreshAgain
  BY <1>9, RefreshStep DEF PollRefreshAgain, RefreshSource
<1>10. CASE PollComplete
  BY <1>10, PollCompleteStep
<1>11. CASE Raise
  <2>1. Exit("incomplete") /\ faults' \in 0..scenario.faults
        /\ UNCHANGED <<made, cp, pend, base, sent>> /\ owed' = owed
    BY <1>1, <1>11 DEF Raise, stateVars, Exit
  <2> QED BY <2>1, ExitStep
<1>12. CASE TurnToDrain
  BY <1>12, TurnToDrainStep
<1>13. CASE DrainBegin
  BY <1>13, RefreshStep DEF DrainBegin, RefreshSource
<1>14. CASE BeginDrain
  BY <1>14, BeginDrainStep
<1>15. CASE DrainRefresh
  BY <1>15, RefreshStep DEF DrainRefresh, RefreshSource
<1>16. CASE DrainDiscover
  <2>1. failures' \in 0..(MaxFailures - 1) /\ pc = "ddiscover" /\ Discover("final")
    BY <1>1, <1>16 DEF DrainDiscover
  <2> QED BY <2>1, DiscoverStep
<1>17. CASE DrainFinal
  BY <1>17, DrainFinalStep
<1>18. CASE DrainCleanup
  BY <1>18, CleanupStep DEF DrainCleanup
<1>19. CASE DrainReady
  BY <1>19, RefreshStep DEF DrainReady
<1>20. CASE DrainComplete
  BY <1>20, DrainCompleteStep
<1>21. CASE Upload
  BY <1>21, UploadStep
<1>22. CASE Record
  BY <1>22, RecordStep
<1> QED BY <1>2, <1>3, <1>4, <1>5, <1>6, <1>7, <1>8, <1>9, <1>10, <1>11, <1>12, <1>13, <1>14,
           <1>15, <1>16, <1>17, <1>18, <1>19, <1>20, <1>21, <1>22 DEF Process

LEMMA NextInv == Inv /\ [Next]_vars => Inv'
<1> SUFFICES ASSUME Inv, [Next]_vars PROVE Inv'
  OBVIOUS
<1>1. TypeOK /\ ScenarioAssumption
  BY ScenarioAssumption DEF Inv
<1>2. CASE UNCHANGED vars
  BY <1>2, StutterStep
<1>3. CASE Start
  BY <1>3, StartStep
<1>4. CASE Process
  BY <1>4, ProcessStep
<1>5. CASE Environment
  <2>1. ASSUME NEW p \in Paths, Register(p) \/ Unregister(p) \/ BackoffElapses(p) \/ AgeElapses(p)
        PROVE  Inv'
    BY <2>1, RegisterStep, UnregisterStep, TimeStep
  <2> QED BY <1>5, <2>1, ReplaceSourceStep, StopStep DEF Environment
<1>6. CASE SourceFails
  BY <1>6, SourceFailsStep
<1>7. CASE Fails \/ Crash
  <2>1. faults' \in 0..scenario.faults
    BY <1>1, <1>7 DEF Fails, Crash, TypeOK, ScenarioType
  <2>2. UNCHANGED <<made, cp, pend, base, sent>> /\ owed' = owed
    BY <1>7 DEF Fails, Crash, stateVars, histVars, Exit
  <2>3. \E r \in {"incomplete", "error", "crash"} : Exit(r)
    BY <1>7 DEF Fails, Crash
  <2> QED BY <2>1, <2>2, <2>3, ExitStep
<1> QED BY <1>2, <1>3, <1>4, <1>5, <1>6, <1>7 DEF Next

LEMMA SpecInv == Spec => []Inv
<1> QED BY InitInv, NextInv, PTL DEF Spec

\* Every variable keeps its type: a row of the queue names a source and an id
\* that exist, what failed is part of what was attempted, and the failures of
\* the reads at the head of poll stay below maxPollFailures.
THEOREM TypeCorrect == Spec => []TypeOK
<1>1. Inv => TypeOK
  BY DEF Inv
<1> QED BY <1>1, SpecInv, PTL

\* No registration after the baseline is lost, whatever the order of discovery,
\* uploads, crashes between two transactions and replacements of the source.
THEOREM NoLostWorkCorrect == Spec => []NoLostWork
<1>1. Inv => NoLostWork
  BY DEF Inv, WorkKept, Settled, NoLostWork, Pending, Valid
<1> QED BY <1>1, SpecInv, PTL

\* A drain that reports success has delivered what was valid when the stop was
\* requested, and none of its pending paths was left without the final attempt.
THEOREM DrainIsHonestCorrect == Spec => []DrainIsHonest
<1>1. Inv => DrainIsHonest
  BY DEF Inv, Attempted, DrainIsHonest, FinalTried
<1> QED BY <1>1, SpecInv, PTL

=============================================================================
