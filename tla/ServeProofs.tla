----------------------------- MODULE ServeProofs -----------------------------
(***************************************************************************)
(* Proofs about Serve, for any processes, clients, listeners and flags:    *)
(* its types, that an acknowledged upload is kept while its server can     *)
(* still answer, that runServe leaves nothing behind and closes nothing    *)
(* under a client, that a running server has all its listeners, and that   *)
(* writes need a grant.                                                    *)
(***************************************************************************)
EXTENDS Serve, SequenceTheorems, WellFoundedInduction, TLAPS

\* Stages of runServe: with listeners served, with the lock on the spool, over.
Up      == {"tsnet", "loops", "run"}
Holding == {"sweep", "bind"} \cup Up
Ended   == {"return", "returned"}

\* What runServe has deferred, opened and locked, by the stage it is in.
Staged(p) ==
    /\ pc[p] \in {"off", "setup", "open", "returned"} => defers[p] = <<>>
    /\ pc[p] \in {"lock", "sweep"} => defers[p] = <<"store">>
    /\ pc[p] \in {"bind"} \cup Up => defers[p] = <<"store", "cache">>
    /\ closed[p] => pc[p] \in Ended
    /\ handle[p] = "closed" => pc[p] \in Ended
    /\ handle[p] = "open" => pc[p] \notin {"off", "setup", "open"} /\ defers[p] # <<>>
    /\ owner = p <=> \/ pc[p] \in Holding
                     \/ pc[p] = "return" /\ defers[p] = <<"store", "cache">>
    /\ loops[p] # {} => pc[p] = "run"
    /\ pc[p] # "off" => cfg[p] \in left.configs

\* The goroutines of a listener, and whether it is bound.
Listening(p, l) ==
    /\ serving[p][l] = "none" <=> stopping[p][l] = "none"
    /\ pc[p] \notin Up \cup Ended => stopping[p][l] = "none"
    /\ pc[p] \in Ended => /\ serving[p][l] \in {"none", "done"}
                          /\ stopping[p][l] \in {"none", "done"}
    /\ serving[p][l] = "accept" => stopping[p][l] = "wait"
    /\ pc[p] \in Up => (l \in bound[p] <=> serving[p][l] \in {"start", "accept"})
    /\ serving[p][l] = "done" \/ stopping[p][l] \in {"grace", "done"} => cancelled[p]
    /\ pc[p] = "bind" /\ l \in bound[p] => l \in LocalAddrs(cfg[p])
    /\ pc[p] \notin {"bind"} \cup Up => l \notin bound[p]
    /\ pc[p] \in Up /\ stopping[p][l] # "none" => l \in Configured(cfg[p])
    /\ pc[p] \in Up /\ l \in LocalAddrs(cfg[p]) => stopping[p][l] # "none"
    /\ pc[p] \in {"loops", "run"} /\ ~cancelled[p] /\ l \in Configured(cfg[p]) =>
          stopping[p][l] # "none"

\* A connection stands on a listener whose shutdown still waits for it; held
\* remembers every grant since the request arrived.
Connected(c) ==
    conn[c] # None =>
        /\ pc[conn[c].srv] \in Up
        /\ stopping[conn[c].srv][conn[c].lsn] \in {"wait", "grace"}
        /\ c \in grants => conn[c].held
        /\ conn[c].step = "gate" => /\ conn[c].lsn \in Tsnet
                                    /\ ~conn[c].req.safe => conn[c].held

Kept(c) ==
    acked[c] # None =>
        /\ pc[acked[c]] \in Up \cup Ended
        /\ pc[acked[c]] \in Up => File(acked[c], c, FALSE) \in spool

\* Once a process has swept the spool, every file in it is its own.
Swept == \A p \in Procs : pc[p] \in {"bind"} \cup Up => \A f \in spool : f.by = p

Procedural == \A p \in Procs : Staged(p) /\ \A l \in Listeners : Listening(p, l)
Clientele  == (\A c \in Clients : Connected(c) /\ Kept(c)) /\ Swept /\ WriteNeedsGrant

Inv == TypeOK /\ Procedural /\ Clientele

-----------------------------------------------------------------------------
(***************************************************************************)
(* Operators.                                                              *)
(***************************************************************************)
LEMMA Least ==
    ASSUME NEW T \in SUBSET Nat, T # {}
    PROVE  \E n \in T : \A m \in T : n <= m
<1> DEFINE R == {ss \in Nat \X Nat : ss[1] < ss[2]}
<1>1. IsWellFoundedOn(R, Nat)
  BY NatLessThanWellFounded DEF OpToRel
<1>2. \E n \in T : \A m \in T : ~ (<<m, n>> \in R)
  <2> HIDE DEF R
  <2> QED BY <1>1, WFMin
<1>3. PICK n \in T : \A m \in T : ~ (<<m, n>> \in R)
  BY <1>2
<1>4. ASSUME NEW m \in T PROVE n <= m
  <2>1. m \in Nat /\ n \in Nat /\ ~ (<<m, n>> \in R)
    BY <1>3
  <2>2. ~ (m < n)
    BY <2>1
  <2> QED BY <2>1, <2>2
<1> QED BY <1>4

LEMMA FirstIs ==
    ASSUME NEW S \in SUBSET Nat, S # {}
    PROVE  First(S) \in S
<1>1. \E n \in S : \A m \in S : n <= m
  BY Least
<1> QED BY <1>1 DEF First

LEMMA FileIs ==
    ASSUME NEW p, NEW c, NEW t
    PROVE  File(p, c, t).by = p /\ File(p, c, t).of = c /\ File(p, c, t).temp = t
BY DEF File

LEMMA FileType ==
    ASSUME NEW p \in Procs, NEW c \in Clients, NEW t \in BOOLEAN
    PROVE  File(p, c, t) \in Files
BY DEF File, Files

LEMMA AppendIs ==
    ASSUME NEW S, NEW x \in S, NEW y \in S
    PROVE  Append(<<x>>, y) = <<x, y>>
<1>1. <<x>> \in Seq(S) /\ <<x, y>> \in Seq(S) /\ Len(<<x>>) = 1 /\ Len(<<x, y>>) = 2
  OBVIOUS
<1>2. Append(<<x>>, y) \in Seq(S) /\ Len(Append(<<x>>, y)) = 2
  BY <1>1, AppendProperties
<1>3. Append(<<x>>, y)[1] = x /\ Append(<<x>>, y)[2] = y
  BY <1>1, AppendProperties
<1>4. \A i \in 1..2 : Append(<<x>>, y)[i] = <<x, y>>[i]
  BY <1>3
<1> QED BY <1>1, <1>2, <1>4, SeqEqual

LEMMA DefersIs ==
    /\ Append(<<"store">>, "cache") = <<"store", "cache">>
    /\ Front(<<"store", "cache">>) = <<"store">> /\ Front(<<"store">>) = <<>>
    /\ Last(<<"store", "cache">>) = "cache" /\ Last(<<"store">>) = "store"
    /\ <<"store", "cache">> # <<"store">> /\ <<"store">> # <<>> /\ <<"store", "cache">> # <<>>
<1> DEFINE S == {"store", "cache"}
           one == <<"store">>
           two == <<"store", "cache">>
<1>1. one \in Seq(S) /\ Len(one) = 1 /\ one[1] = "store"
  OBVIOUS
<1>2. two \in Seq(S) /\ Len(two) = 2 /\ two[1] = "store" /\ two[2] = "cache" /\ "cache" \in S
  OBVIOUS
<1>3. Last(one) = "store" /\ Last(two) = "cache" /\ two # one /\ one # <<>> /\ two # <<>>
  <2>1. Last(one) = "store"
    BY <1>1 DEF Last
  <2>2. Last(two) = "cache"
    BY <1>2 DEF Last
  <2>3. two # one /\ one # <<>> /\ two # <<>>
    BY <1>1, <1>2
  <2> QED BY <2>1, <2>2, <2>3
<1>4. Front(one) = <<>>
  BY <1>1, SubSeqEmpty DEF Front
<1>5. Front(two) = one
  <2>1. Front(two) = SubSeq(two, 1, 1)
    <3>1. Len(two) - 1 = 1
      BY <1>2
    <3> QED BY <3>1 DEF Front
  <2>2. SubSeq(two, 1, 1) \in Seq(S) /\ Len(SubSeq(two, 1, 1)) = 1 /\ SubSeq(two, 1, 1)[1] = "store"
    BY <1>2, SubSeqProperties
  <2> HIDE DEF one, two, S
  <2> QED BY <1>1, <2>1, <2>2, SeqEqual
<1>6. Append(one, "cache") = two
  <2>1. "store" \in S /\ "cache" \in S
    OBVIOUS
  <2> HIDE DEF S
  <2> QED BY <2>1, AppendIs
<1> QED BY <1>3, <1>4, <1>5, <1>6

LEMMA AddrsAre ==
    ASSUME NEW c \in ConfigType
    PROVE  /\ DOMAIN Addrs(c) \subseteq Nat /\ DOMAIN c.tsnet \subseteq Nat
           /\ \A i \in DOMAIN Addrs(c) : Addrs(c)[i] \in Local \cup {Blank}
           /\ \A i \in DOMAIN c.tsnet : c.tsnet[i] \in Tsnet
           /\ LocalAddrs(c) \subseteq Local /\ Range(c.tsnet) \subseteq Tsnet
           /\ Configured(c) = LocalAddrs(c) \cup Range(c.tsnet)
<1>1. c.listen \in Seq(Local \cup {Blank}) /\ c.tsnet \in Seq(Tsnet)
  BY DEF ConfigType
<1>2. /\ DOMAIN c.tsnet \subseteq Nat /\ \A i \in DOMAIN c.tsnet : c.tsnet[i] \in Tsnet
      /\ DOMAIN c.listen \subseteq Nat
      /\ \A i \in DOMAIN c.listen : c.listen[i] \in Local \cup {Blank}
  BY <1>1
<1>3. /\ DOMAIN Addrs(c) \subseteq Nat
      /\ \A i \in DOMAIN Addrs(c) : Addrs(c)[i] \in Local \cup {Blank}
  <2>1. CASE c.listen # <<>>
    BY <1>2, <2>1 DEF Addrs
  <2>2. CASE c.listen = <<>> /\ c.tsnet # <<>>
    BY <2>2 DEF Addrs
  <2>3. CASE c.listen = <<>> /\ c.tsnet = <<>>
    BY <2>3, ServeAssumption DEF Addrs
  <2> QED BY <2>1, <2>2, <2>3
<1> QED BY <1>2, <1>3 DEF LocalAddrs, Configured, Range

\* A fault, or none, leaves the flags and the other bounds.
LEMMA LeftIs ==
    ASSUME left \in ScenarioType, Fault \/ NoFault
    PROVE  left' \in ScenarioType /\ left'.configs = left.configs
<1>1. CASE NoFault
  BY <1>1 DEF NoFault
<1>2. CASE Fault
  BY <1>2 DEF Fault, ScenarioType
<1> QED BY <1>1, <1>2

\* What the types say of one process, and of one client.
LEMMA ProcFacts ==
    ASSUME TypeOK, NEW p \in Procs
    PROVE  /\ pc[p] \in Pcs /\ cfg[p] \in left.configs \cup {None}
           /\ cancelled[p] \in BOOLEAN /\ signalled[p] \in BOOLEAN /\ closed[p] \in BOOLEAN
           /\ defers[p] \in {<<>>, <<"store">>, <<"store", "cache">>}
           /\ handle[p] \in {"none", "open", "closed"} /\ bound[p] \subseteq Listeners
           /\ serving[p] \in [Listeners -> {"none", "start", "accept", "done"}]
           /\ stopping[p] \in [Listeners -> {"none", "wait", "grace", "done"}]
           /\ loops[p] \subseteq {"gc", "sweeper", "retry"}
           /\ left \in ScenarioType /\ left.configs \subseteq ConfigType
BY DEF TypeOK, ScenarioType

LEMMA ConnIs ==
    ASSUME TypeOK, NEW c \in Clients, conn[c] # None
    PROVE  /\ conn[c] \in Conns /\ conn[c].srv \in Procs /\ conn[c].lsn \in Listeners
           /\ conn[c].req \in Requests /\ conn[c].step \in Steps /\ conn[c].held \in BOOLEAN
BY DEF TypeOK, Conns

-----------------------------------------------------------------------------
(***************************************************************************)
(* A step of one process leaves the others alone.                          *)
(***************************************************************************)
Others(p) ==
    /\ left'.configs = left.configs
    /\ \A q \in Procs \ {p} :
          /\ pc'[q] = pc[q] /\ cfg'[q] = cfg[q] /\ cancelled'[q] = cancelled[q]
          /\ closed'[q] = closed[q] /\ defers'[q] = defers[q] /\ handle'[q] = handle[q]
          /\ bound'[q] = bound[q] /\ serving'[q] = serving[q] /\ stopping'[q] = stopping[q]
          /\ loops'[q] = loops[q]
          /\ owner' = q <=> owner = q

LEMMA ProcFrame ==
    ASSUME Procedural, NEW p \in Procs, Others(p), Staged(p)',
           \A l \in Listeners : Listening(p, l)'
    PROVE  Procedural'
<1>1. ASSUME NEW q \in Procs, q # p PROVE Staged(q)'
  BY <1>1 DEF Procedural, Staged, Others
<1>2. ASSUME NEW q \in Procs, q # p, NEW l \in Listeners PROVE Listening(q, l)'
  <2>1. Listening(q, l)
    BY <1>2 DEF Procedural
  <2> QED BY <1>2, <2>1 DEF Listening, Others
<1> QED BY <1>1, <1>2 DEF Procedural

\* The step ends no connection of p other than by dropping it, and it neither
\* binds the listeners of p for the first time nor takes p back to startup.
Onward(p) ==
    /\ pc[p] \in Up => pc'[p] \in Up \cup Ended
    /\ pc[p] \in Ended => pc'[p] \in Ended
    /\ pc'[p] \in {"bind"} \cup Up => pc[p] \in {"bind"} \cup Up
    /\ \A c \in Live(p) :
          \/ conn'[c] = None
          \/ /\ pc'[p] \in Up /\ cfg'[p] = cfg[p]
             /\ stopping'[p][conn[c].lsn] \in {"wait", "grace"}

LEMMA ClientsStay ==
    ASSUME Inv, NEW p \in Procs, Others(p), Onward(p), UNCHANGED <<acked, grants, spool>>,
           \A c \in Clients : conn'[c] = None \/ conn'[c] = conn[c]
    PROVE  Clientele'
<1>1. TypeOK /\ Swept /\ WriteNeedsGrant
  BY DEF Inv, Clientele
<1>2. ASSUME NEW c \in Clients PROVE Connected(c)'
  <2>1. Connected(c)
    BY DEF Inv, Clientele
  <2>2. CASE conn'[c] = None
    BY <2>2 DEF Connected
  <2>3. CASE conn'[c] # None /\ conn[c].srv = p
    <3>1. conn'[c] = conn[c]
      BY <2>3
    <3>2. c \in Live(p)
      BY <2>3, <3>1 DEF Live
    <3> QED BY <2>1, <2>3, <3>1, <3>2 DEF Connected, Onward
  <2>4. CASE conn'[c] # None /\ conn[c].srv # p
    <3>1. conn'[c] = conn[c]
      BY <2>4
    <3>2. conn[c].srv \in Procs
      BY <1>1, <2>4, <3>1, ConnIs
    <3> QED BY <2>1, <2>4, <3>1, <3>2 DEF Connected, Others
  <2> QED BY <2>2, <2>3, <2>4
<1>3. ASSUME NEW c \in Clients PROVE Kept(c)'
  <2>1. Kept(c) /\ acked[c] \in Procs \cup {None}
    BY <1>1 DEF Inv, Clientele, TypeOK
  <2>2. CASE acked[c] = p
    <3>1. pc'[p] \in Up => pc[p] \in Up
      BY <2>1, <2>2, ServeAssumption DEF Kept, Onward, Ended, Up
    <3> QED BY <2>1, <2>2, <3>1, ServeAssumption DEF Kept, Onward, File
  <2>3. CASE acked[c] # p
    BY <2>1, <2>3 DEF Kept, Others, File
  <2> QED BY <2>2, <2>3
<1>4. Swept'
  BY <1>1 DEF Swept, Others, Onward
<1>5. WriteNeedsGrant'
  <2>1. ASSUME NEW c \in Clients, conn'[c] # None
        PROVE  conn[c] # None /\ conn'[c] = conn[c] /\ cfg'[conn[c].srv] = cfg[conn[c].srv]
    <3>1. conn'[c] = conn[c]
      BY <2>1
    <3>2. conn[c].srv \in Procs
      BY <1>1, <2>1, <3>1, ConnIs
    <3> QED BY <2>1, <3>1, <3>2 DEF Others, Onward, Live
  <2> QED BY <1>1, <2>1 DEF WriteNeedsGrant
<1> QED BY <1>2, <1>3, <1>4, <1>5 DEF Clientele

LEMMA InvIntro == TypeOK' /\ Procedural' /\ Clientele' => Inv'
BY DEF Inv

-----------------------------------------------------------------------------
(***************************************************************************)
(* Processes come and go.                                                  *)
(***************************************************************************)
LEMMA GoneStep ==
    ASSUME Inv, NEW p \in Procs, pc[p] # "off", Gone(p), Fault \/ NoFault
    PROVE  Inv'
<1>1. TypeOK /\ Procedural /\ Swept /\ WriteNeedsGrant
  BY DEF Inv, Clientele
<1>2. left' \in ScenarioType /\ left'.configs = left.configs
  BY <1>1, LeftIs DEF TypeOK
<1>3. TypeOK'
  <2>1. /\ pc' \in [Procs -> Pcs] /\ cfg' \in [Procs -> left'.configs \cup {None}]
        /\ cancelled' \in [Procs -> BOOLEAN]
        /\ signalled' \in [Procs -> BOOLEAN] /\ closed' \in [Procs -> BOOLEAN]
        /\ handle' \in [Procs -> {"none", "open", "closed"}]
        /\ bound' \in [Procs -> SUBSET Listeners]
        /\ loops' \in [Procs -> SUBSET {"gc", "sweeper", "retry"}]
    BY <1>1, <1>2 DEF Gone, TypeOK, Pcs
  <2>2. /\ serving' \in [Procs -> [Listeners -> {"none", "start", "accept", "done"}]]
        /\ stopping' \in [Procs -> [Listeners -> {"none", "wait", "grace", "done"}]]
    BY <1>1 DEF Gone, TypeOK, NoListener
  <2>3. defers' \in [Procs -> {<<>>, <<"store">>, <<"store", "cache">>}]
    BY <1>1 DEF Gone, TypeOK
  <2>4. owner' \in Procs \cup {None}
    BY <1>1 DEF Gone, TypeOK
  <2>5. spool' \subseteq Files
    <3>1. ASSUME NEW f \in Files PROVE [f EXCEPT !.by = None] \in Files
      BY DEF Files
    <3> QED BY <1>1, <3>1 DEF Gone, TypeOK
  <2>6. conn' \in [Clients -> Conns \cup {None}] /\ acked' \in [Clients -> Procs \cup {None}]
    BY <1>1 DEF Gone, TypeOK
  <2>7. orphans' \subseteq Orphans /\ grants' \subseteq Clients /\ db' \in BOOLEAN
    BY <1>1 DEF Gone, TypeOK, envVars
  <2> QED BY <1>2, <2>1, <2>2, <2>3, <2>4, <2>5, <2>6, <2>7 DEF TypeOK
<1>4. /\ pc'[p] = "off" /\ cfg'[p] = None /\ cancelled'[p] = FALSE /\ closed'[p] = FALSE
      /\ defers'[p] = <<>> /\ handle'[p] = "none" /\ bound'[p] = {} /\ loops'[p] = {}
      /\ serving'[p] = NoListener /\ stopping'[p] = NoListener /\ owner' # p
  BY <1>1, ServeAssumption DEF Gone, TypeOK
<1>5. Others(p)
  <2>1. \A q \in Procs \ {p} : owner' = q <=> owner = q
    BY ServeAssumption DEF Gone
  <2> QED BY <1>1, <1>2, <2>1 DEF Gone, TypeOK, Others
<1>6. Procedural'
  <2>1. Staged(p)'
    BY <1>4 DEF Staged, Holding, Up, Ended
  <2>2. \A l \in Listeners : Listening(p, l)'
    BY <1>4 DEF Listening, Up, Ended, NoListener
  <2> QED BY <1>1, <1>5, <2>1, <2>2, ProcFrame
<1>7. Clientele'
  <2>1. \A c \in Clients : conn'[c] = IF c \in Live(p) THEN None ELSE conn[c]
    BY DEF Gone
  <2>2. ASSUME NEW c \in Clients, conn'[c] # None
        PROVE  conn[c] # None /\ conn'[c] = conn[c] /\ conn[c].srv \in Procs \ {p}
    <3>1. conn[c] # None /\ conn'[c] = conn[c] /\ conn[c].srv # p
      BY <2>1, <2>2 DEF Live
    <3> QED BY <1>1, <3>1, ConnIs
  <2>3. ASSUME NEW c \in Clients PROVE Connected(c)'
    <3>1. Connected(c) /\ grants' = grants
      BY DEF Inv, Clientele, Gone, envVars
    <3> QED BY <1>5, <2>2, <3>1 DEF Connected, Others
  <2>4. ASSUME NEW f \in spool, f.by # p PROVE f \in spool'
    BY <2>4 DEF Gone
  <2>5. ASSUME NEW c \in Clients PROVE Kept(c)'
    <3>1. Kept(c) /\ acked[c] \in Procs \cup {None}
      BY <1>1 DEF Inv, Clientele, TypeOK
    <3>2. acked'[c] # None => acked'[c] = acked[c] /\ acked[c] \in Procs \ {p}
      BY <3>1 DEF Gone
    <3>3. CASE acked'[c] = None
      BY <3>3 DEF Kept
    <3>4. CASE acked'[c] # None
      <4> DEFINE f == File(acked[c], c, FALSE)
      <4>1. f.by # p /\ f = File(acked[c], c, FALSE)'
        BY <3>2, <3>4, FileIs DEF File
      <4>2. f \in spool => f \in spool'
        BY <2>4, <4>1
      <4>3. pc'[acked[c]] = pc[acked[c]]
        BY <1>5, <3>2, <3>4 DEF Others
      <4> HIDE DEF f
      <4>4. pc[acked[c]] \in Up \cup Ended /\ (pc[acked[c]] \in Up => f \in spool)
        BY <3>1, <3>2, <3>4 DEF Kept, f
      <4>5. File(acked'[c], c, FALSE) = f /\ acked'[c] = acked[c]
        BY <3>2, <3>4, <4>1 DEF File, f
      <4> QED BY <4>2, <4>3, <4>4, <4>5 DEF Kept, File, f
    <3> QED BY <3>3, <3>4
  <2>6. Swept'
    <3>1. ASSUME NEW q \in Procs, pc'[q] \in {"bind"} \cup Up, NEW f \in spool' PROVE f.by = q
      <4>1. q # p /\ pc[q] \in {"bind"} \cup Up
        BY <1>4, <1>5, <3>1 DEF Others, Up
      <4>2. PICK g \in spool : f = IF g.by = p THEN [g EXCEPT !.by = None] ELSE g
        BY DEF Gone
      <4>3. g.by = q
        BY <1>1, <4>1 DEF Swept
      <4> QED BY <4>1, <4>2, <4>3
    <3> QED BY <3>1 DEF Swept
  <2>7. WriteNeedsGrant'
    <3>1. ASSUME NEW c \in Clients, conn'[c] # None
          PROVE  conn[c] # None /\ conn'[c] = conn[c] /\ cfg'[conn[c].srv] = cfg[conn[c].srv]
      BY <1>5, <2>2, <3>1 DEF Others
    <3> QED BY <1>1, <3>1 DEF WriteNeedsGrant
  <2> QED BY <2>3, <2>5, <2>6, <2>7 DEF Clientele
<1> QED BY <1>3, <1>6, <1>7 DEF Inv

LEMMA StartStep ==
    ASSUME Inv, NEW p \in Procs, NEW c \in left.configs, Start(p, c)
    PROVE  Inv'
<1>1. TypeOK /\ Procedural /\ Staged(p) /\ \A l \in Listeners : Listening(p, l)
  BY DEF Inv, Procedural
<1>2. left' \in ScenarioType /\ left'.configs = left.configs
  <2>1. left \in ScenarioType /\ left.starts \in Seq(Procs) /\ left.starts # <<>>
    BY <1>1 DEF TypeOK, ScenarioType, Start
  <2>2. Tail(left.starts) \in Seq(Procs)
    BY <2>1
  <2> DEFINE rest == Tail(left.starts)
  <2>3. left' = [left EXCEPT !.starts = rest]
    BY DEF Start
  <2> HIDE DEF rest
  <2> QED BY <2>1, <2>2, <2>3 DEF ScenarioType, rest
<1>3. /\ pc[p] = "off" /\ pc' = [pc EXCEPT ![p] = "setup"] /\ cfg' = [cfg EXCEPT ![p] = c]
      /\ UNCHANGED <<cancelled, signalled, defers, handle, closed, bound, serving, stopping, loops>>
      /\ UNCHANGED <<owner, spool, conn, orphans, acked, db, grants>>
  BY DEF Start, goVars, cliVars, envVars
<1>4. TypeOK'
  <2>1. pc' \in [Procs -> Pcs] /\ cfg' \in [Procs -> left'.configs \cup {None}]
    BY <1>1, <1>2, <1>3 DEF TypeOK, Pcs, Startup
  <2> QED BY <1>1, <1>2, <1>3, <2>1 DEF TypeOK
<1>5. pc'[p] = "setup" /\ cfg'[p] = c /\ Others(p)
  BY <1>1, <1>2, <1>3 DEF TypeOK, Others
<1>6. Staged(p)'
  BY <1>1, <1>2, <1>3, <1>5 DEF Staged, Holding, Up, Ended
<1>7. \A l \in Listeners : Listening(p, l)'
  BY <1>1, <1>3, <1>5 DEF Listening, Up, Ended
<1>8. Procedural'
  BY <1>1, <1>5, <1>6, <1>7, ProcFrame
<1>9. Onward(p)
  <2>1. Live(p) = {}
    BY <1>3 DEF Inv, Clientele, Connected, Live, Up
  <2> QED BY <1>3, <1>5, <2>1 DEF Onward, Up, Ended
<1>10. Clientele'
  BY <1>3, <1>5, <1>9, ClientsStay
<1> QED BY <1>4, <1>8, <1>10 DEF Inv

LEMMA SignalStep ==
    ASSUME Inv, NEW p \in Procs, Signal(p)
    PROVE  Inv'
<1>1. TypeOK /\ Procedural /\ Staged(p) /\ \A l \in Listeners : Listening(p, l)
  BY DEF Inv, Procedural
<1>2. left' \in ScenarioType /\ left'.configs = left.configs
  <2>1. left \in ScenarioType
    BY <1>1 DEF TypeOK
  <2> QED BY <2>1 DEF Signal, ScenarioType
<1>3. /\ signalled' = [signalled EXCEPT ![p] = TRUE] /\ cancelled' = [cancelled EXCEPT ![p] = TRUE]
      /\ UNCHANGED <<pc, cfg, defers, handle, closed, bound, serving, stopping, loops>>
      /\ UNCHANGED <<owner, spool, conn, orphans, acked, db, grants>>
  BY DEF Signal, goVars, cliVars, envVars
<1>4. TypeOK'
  <2>1. signalled' \in [Procs -> BOOLEAN] /\ cancelled' \in [Procs -> BOOLEAN]
    BY <1>1, <1>3 DEF TypeOK
  <2> QED BY <1>1, <1>2, <1>3, <2>1 DEF TypeOK
<1>5. cancelled'[p] = TRUE /\ Others(p)
  BY <1>1, <1>2, <1>3 DEF TypeOK, Others
<1>6. Staged(p)'
  BY <1>1, <1>2, <1>3 DEF Staged
<1>7. \A l \in Listeners : Listening(p, l)'
  BY <1>1, <1>3, <1>5 DEF Listening
<1>8. Procedural'
  BY <1>1, <1>5, <1>6, <1>7, ProcFrame
<1>9. Onward(p)
  BY <1>3 DEF Inv, Clientele, Connected, Onward, Live
<1>10. Clientele'
  BY <1>3, <1>5, <1>9, ClientsStay
<1> QED BY <1>4, <1>8, <1>10 DEF Inv

-----------------------------------------------------------------------------
(***************************************************************************)
(* Startup.                                                                *)
(***************************************************************************)
\* Setup and opening the store: nothing is locked or bound yet.
LEMMA SetupStep ==
    ASSUME Inv, NEW p \in Procs, Setup(p) \/ SetupFails(p) \/ OpenStore(p)
    PROVE  Inv'
<1>1. TypeOK /\ Procedural /\ Staged(p) /\ \A l \in Listeners : Listening(p, l)
  BY DEF Inv, Procedural
<1>2. left' \in ScenarioType /\ left'.configs = left.configs
  BY <1>1, LeftIs DEF TypeOK, Setup, SetupFails, OpenStore
<1>3. /\ UNCHANGED <<cfg, cancelled, signalled, closed, bound, serving, stopping, loops>>
      /\ UNCHANGED <<owner, spool, conn, orphans, acked, db, grants>>
      /\ pc' = [pc EXCEPT ![p] = pc'[p]]
      /\ \/ pc[p] = "setup" /\ pc'[p] \in {"open", "return"} /\ UNCHANGED <<defers, handle>>
         \/ /\ pc[p] = "open" /\ pc'[p] = "lock"
            /\ defers' = [defers EXCEPT ![p] = <<"store">>]
            /\ handle' = [handle EXCEPT ![p] = handle'[p]] /\ handle'[p] \in {"none", "open"}
  <2>1. CASE Setup(p) \/ SetupFails(p)
    BY <1>1, <2>1 DEF Setup, SetupFails, ReturnErr, At, goVars, cliVars, envVars, TypeOK
  <2>2. CASE OpenStore(p)
    BY <1>1, <2>2 DEF OpenStore, At, goVars, cliVars, envVars, TypeOK
  <2> QED BY <2>1, <2>2
<1>4. TypeOK'
  <2>1. pc' \in [Procs -> Pcs] /\ handle' \in [Procs -> {"none", "open", "closed"}]
    <3>1. pc'[p] \in Pcs
      BY <1>3 DEF Pcs, Startup
    <3>2. pc' \in [Procs -> Pcs]
      BY <1>1, <1>3, <3>1 DEF TypeOK
    <3>3. handle' \in [Procs -> {"none", "open", "closed"}]
      BY <1>1, <1>3 DEF TypeOK
    <3> QED BY <3>2, <3>3
  <2>2. defers' \in [Procs -> {<<>>, <<"store">>, <<"store", "cache">>}]
    BY <1>1, <1>3 DEF TypeOK
  <2> QED BY <1>1, <1>2, <1>3, <2>1, <2>2 DEF TypeOK
<1>5. Others(p)
  BY <1>1, <1>2, <1>3 DEF TypeOK, Others
<1>6. Staged(p)'
  <2>1. CASE pc[p] = "setup"
    BY <1>1, <1>2, <1>3, <2>1, DefersIs DEF Staged, Holding, Up, Ended
  <2>2. CASE pc[p] = "open"
    <3>1. defers'[p] = <<"store">>
      BY <1>1, <1>3, <2>2 DEF TypeOK
    <3> QED BY <1>1, <1>2, <1>3, <2>2, <3>1, DefersIs DEF Staged, Holding, Up, Ended
  <2> QED BY <1>3, <2>1, <2>2
<1>7. \A l \in Listeners : Listening(p, l)'
  BY <1>1, <1>3 DEF Listening, Up, Ended
<1>8. Procedural'
  BY <1>1, <1>5, <1>6, <1>7, ProcFrame
<1>9. Onward(p)
  <2>1. Live(p) = {}
    BY <1>3 DEF Inv, Clientele, Connected, Live, Up
  <2> QED BY <1>3, <2>1 DEF Onward, Up, Ended
<1>10. Clientele'
  BY <1>3, <1>5, <1>9, ClientsStay
<1> QED BY <1>4, <1>8, <1>10 DEF Inv

LEMMA InitZstdCacheStep ==
    ASSUME Inv, NEW p \in Procs, InitZstdCache(p) \/ InitZstdCacheFails(p)
    PROVE  Inv'
<1>1. TypeOK /\ Procedural /\ Staged(p) /\ \A l \in Listeners : Listening(p, l)
  BY DEF Inv, Procedural
<1>2. left' \in ScenarioType /\ left'.configs = left.configs
  BY <1>1, LeftIs DEF TypeOK, InitZstdCache, InitZstdCacheFails
<1>3. /\ UNCHANGED <<cfg, cancelled, signalled, closed, bound, serving, stopping, loops>>
      /\ UNCHANGED <<defers, handle, spool, conn, orphans, acked, db, grants>>
      /\ pc' = [pc EXCEPT ![p] = pc'[p]] /\ pc[p] = "lock"
      /\ \/ pc'[p] = "sweep" /\ owner = None /\ owner' = p
         \/ pc'[p] = "return" /\ owner' = owner
  <2>1. CASE InitZstdCache(p)
    BY <1>1, <2>1 DEF InitZstdCache, At, goVars, cliVars, envVars, TypeOK
  <2>2. CASE InitZstdCacheFails(p)
    BY <1>1, <2>2 DEF InitZstdCacheFails, ReturnErr, At, goVars, cliVars, envVars, TypeOK
  <2> QED BY <2>1, <2>2
<1>4. TypeOK'
  <2>1. pc' \in [Procs -> Pcs] /\ owner' \in Procs \cup {None}
    <3>1. pc'[p] \in Pcs
      BY <1>3 DEF Pcs, Startup
    <3> QED BY <1>1, <1>3, <3>1 DEF TypeOK
  <2> QED BY <1>1, <1>2, <1>3, <2>1 DEF TypeOK
<1>5. Others(p)
  BY <1>1, <1>2, <1>3, ServeAssumption DEF TypeOK, Others
<1>6. Staged(p)'
  BY <1>1, <1>2, <1>3, DefersIs DEF Staged, Holding, Up, Ended
<1>7. \A l \in Listeners : Listening(p, l)'
  BY <1>1, <1>3 DEF Listening, Up, Ended
<1>8. Procedural'
  BY <1>1, <1>5, <1>6, <1>7, ProcFrame
<1>9. Onward(p)
  <2>1. Live(p) = {}
    BY <1>3 DEF Inv, Clientele, Connected, Live, Up
  <2> QED BY <1>3, <2>1 DEF Onward, Up, Ended
<1>10. Clientele'
  BY <1>3, <1>5, <1>9, ClientsStay
<1> QED BY <1>4, <1>8, <1>10 DEF Inv

LEMMA SweepSpoolStep ==
    ASSUME Inv, NEW p \in Procs, SweepSpool(p)
    PROVE  Inv'
<1>1. TypeOK /\ Procedural /\ Staged(p) /\ \A l \in Listeners : Listening(p, l)
  BY DEF Inv, Procedural
<1>2. left' \in ScenarioType /\ left'.configs = left.configs
  BY <1>1, LeftIs DEF TypeOK, SweepSpool
<1>3. /\ UNCHANGED <<cfg, cancelled, signalled, closed, bound, serving, stopping, loops>>
      /\ UNCHANGED <<handle, owner, conn, orphans, acked, db, grants>>
      /\ pc' = [pc EXCEPT ![p] = "bind"] /\ pc[p] = "sweep" /\ pc'[p] = "bind"
      /\ spool' = {} /\ defers' = [defers EXCEPT ![p] = <<"store", "cache">>]
  <2>1. defers[p] = <<"store">>
    BY <1>1 DEF SweepSpool, At, Staged
  <2>2. defers' = [defers EXCEPT ![p] = Append(defers[p], "cache")]
    BY DEF SweepSpool
  <2> QED BY <1>1, <2>1, <2>2, DefersIs DEF SweepSpool, At, goVars, cliVars, envVars, TypeOK
<1>4. TypeOK'
  <2>1. pc' \in [Procs -> Pcs]
    BY <1>1, <1>3 DEF TypeOK, Pcs, Startup
  <2>2. defers' \in [Procs -> {<<>>, <<"store">>, <<"store", "cache">>}]
    BY <1>1, <1>3 DEF TypeOK
  <2> QED BY <1>1, <1>2, <1>3, <2>1, <2>2 DEF TypeOK
<1>5. Others(p) /\ defers'[p] = <<"store", "cache">>
  BY <1>1, <1>2, <1>3 DEF TypeOK, Others
<1>6. Staged(p)'
  BY <1>1, <1>2, <1>3, <1>5, DefersIs DEF Staged, Holding, Up, Ended
<1>7. \A l \in Listeners : Listening(p, l)'
  BY <1>1, <1>3 DEF Listening, Up, Ended
<1>8. Procedural'
  BY <1>1, <1>5, <1>6, <1>7, ProcFrame
<1>9. \A q \in Procs : pc[q] \in Up => FALSE
  <2>1. owner = p
    BY <1>1, <1>3 DEF Staged, Holding
  <2> QED BY <1>1, <1>3, <2>1 DEF Procedural, Staged, Holding, Up
<1>10. Clientele'
  <2>1. \A c \in Clients : conn[c] = None
    <3>1. ASSUME NEW c \in Clients, conn[c] # None PROVE FALSE
      BY <1>1, <1>9, <3>1, ConnIs DEF Inv, Clientele, Connected
    <3> QED BY <3>1
  <2>2. ASSUME NEW c \in Clients PROVE Kept(c)'
    <3>1. Kept(c) /\ acked[c] \in Procs \cup {None}
      BY <1>1 DEF Inv, Clientele, TypeOK
    <3>2. ASSUME acked[c] # None PROVE pc'[acked[c]] \in Ended
      <4>1. acked[c] \in Procs /\ pc[acked[c]] \in Ended
        BY <1>9, <3>1, <3>2 DEF Kept
      <4>2. acked[c] # p
        BY <1>3, <4>1 DEF Ended
      <4> QED BY <1>5, <4>1, <4>2 DEF Others
    <3> QED BY <1>3, <3>2 DEF Kept, Up, Ended
  <2> QED BY <1>3, <2>1, <2>2 DEF Clientele, Connected, Swept, WriteNeedsGrant
<1> QED BY <1>4, <1>8, <1>10 DEF Inv

LEMMA BindStep ==
    ASSUME Inv, NEW p \in Procs, Bind(p) \/ BindFails(p)
    PROVE  Inv'
<1>1. TypeOK /\ Procedural /\ Staged(p) /\ \A l \in Listeners : Listening(p, l)
  BY DEF Inv, Procedural
<1>2. left' \in ScenarioType /\ left'.configs = left.configs
  BY <1>1, LeftIs DEF TypeOK, Bind, BindFails, NoFault
<1>3. /\ UNCHANGED <<cfg, cancelled, signalled, closed, serving, stopping, loops>>
      /\ UNCHANGED <<defers, handle, owner, spool, conn, orphans, acked, db, grants>>
      /\ pc' = [pc EXCEPT ![p] = pc'[p]] /\ pc[p] = "bind"
      /\ \/ /\ Unbound(p) # {} /\ pc'[p] = "bind"
            /\ bound' = [bound EXCEPT ![p] = bound[p] \cup {NextAddr(p)}]
         \/ pc'[p] = "return" /\ bound' = [bound EXCEPT ![p] = {}]
  <2>1. CASE Bind(p)
    BY <1>1, <2>1 DEF Bind, goVars, cliVars, envVars, TypeOK
  <2>2. CASE BindFails(p)
    BY <1>1, <2>2 DEF BindFails, ReturnErr, At, goVars, cliVars, envVars, TypeOK
  <2> QED BY <2>1, <2>2
<1>4. cfg[p] \in ConfigType
  BY <1>1, <1>3, ProcFacts DEF Staged
<1>5. Unbound(p) # {} => NextAddr(p) \in LocalAddrs(cfg[p]) /\ NextAddr(p) \in Listeners
  <2>1. ASSUME Unbound(p) # {} PROVE First(Unbound(p)) \in Unbound(p)
    BY <1>4, <2>1, AddrsAre, FirstIs DEF Unbound
  <2> QED BY <1>4, <2>1, AddrsAre DEF NextAddr, Unbound, LocalAddrs, Range, Listeners
<1>6. TypeOK'
  <2>1. pc' \in [Procs -> Pcs]
    BY <1>1, <1>3 DEF TypeOK, Pcs, Startup
  <2>2. bound' \in [Procs -> SUBSET Listeners]
    <3>1. bound \in [Procs -> SUBSET Listeners]
      BY <1>1 DEF TypeOK
    <3>2. CASE Unbound(p) # {} /\ bound' = [bound EXCEPT ![p] = bound[p] \cup {NextAddr(p)}]
      <4>1. bound[p] \cup {NextAddr(p)} \in SUBSET Listeners
        BY <1>5, <3>1, <3>2
      <4> QED BY <3>1, <3>2, <4>1
    <3>3. CASE bound' = [bound EXCEPT ![p] = {}]
      BY <3>1, <3>3
    <3> QED BY <1>3, <3>2, <3>3
  <2> QED BY <1>1, <1>2, <1>3, <2>1, <2>2 DEF TypeOK
<1>7. Others(p)
  BY <1>1, <1>2, <1>3 DEF TypeOK, Others
<1>8. Staged(p)'
  BY <1>1, <1>2, <1>3, DefersIs DEF Staged, Holding, Up, Ended
<1>9. \A l \in Listeners : Listening(p, l)'
  <2>1. bound'[p] \subseteq bound[p] \cup LocalAddrs(cfg[p]) /\ (pc'[p] = "return" => bound'[p] = {})
    BY <1>1, <1>3, <1>5 DEF TypeOK
  <2> QED BY <1>1, <1>3, <2>1 DEF Listening, Up, Ended
<1>10. Procedural'
  BY <1>1, <1>7, <1>8, <1>9, ProcFrame
<1>11. Onward(p)
  <2>1. Live(p) = {}
    BY <1>3 DEF Inv, Clientele, Connected, Live, Up
  <2> QED BY <1>3, <2>1 DEF Onward, Up, Ended
<1>12. Clientele'
  BY <1>3, <1>7, <1>11, ClientsStay
<1> QED BY <1>6, <1>10, <1>12 DEF Inv

\* What serveHTTP starts for the listeners ls of p.
LEMMA ServeHTTPIs ==
    ASSUME TypeOK, NEW p \in Procs, NEW ls, ServeHTTP(p, ls)
    PROVE  /\ serving' \in [Procs -> [Listeners -> {"none", "start", "accept", "done"}]]
           /\ stopping' \in [Procs -> [Listeners -> {"none", "wait", "grace", "done"}]]
           /\ \A q \in Procs \ {p} : serving'[q] = serving[q] /\ stopping'[q] = stopping[q]
           /\ \A l \in Listeners :
                 /\ serving'[p][l] = IF l \in ls THEN "start" ELSE serving[p][l]
                 /\ stopping'[p][l] = IF l \in ls THEN "wait" ELSE stopping[p][l]
<1> DEFINE sv == [l \in Listeners |-> IF l \in ls THEN "start" ELSE serving[p][l]]
           st == [l \in Listeners |-> IF l \in ls THEN "wait" ELSE stopping[p][l]]
<1>1. serving' = [serving EXCEPT ![p] = sv] /\ stopping' = [stopping EXCEPT ![p] = st]
  BY DEF ServeHTTP
<1>2. /\ sv \in [Listeners -> {"none", "start", "accept", "done"}]
      /\ st \in [Listeners -> {"none", "wait", "grace", "done"}]
  BY DEF TypeOK
<1>3. \A l \in Listeners : /\ sv[l] = IF l \in ls THEN "start" ELSE serving[p][l]
                           /\ st[l] = IF l \in ls THEN "wait" ELSE stopping[p][l]
  OBVIOUS
<1> HIDE DEF sv, st
<1>4. /\ serving' \in [Procs -> [Listeners -> {"none", "start", "accept", "done"}]]
      /\ stopping' \in [Procs -> [Listeners -> {"none", "wait", "grace", "done"}]]
  BY <1>1, <1>2 DEF TypeOK
<1>5. /\ serving'[p] = sv /\ stopping'[p] = st
      /\ \A q \in Procs \ {p} : serving'[q] = serving[q] /\ stopping'[q] = stopping[q]
  BY <1>1 DEF TypeOK
<1> QED BY <1>3, <1>4, <1>5

LEMMA ServeLocalStep ==
    ASSUME Inv, NEW p \in Procs, ServeLocal(p)
    PROVE  Inv'
<1>1. TypeOK /\ Procedural /\ Staged(p) /\ \A l \in Listeners : Listening(p, l)
  BY DEF Inv, Procedural
<1>2. left' \in ScenarioType /\ left'.configs = left.configs
  BY <1>1, LeftIs DEF TypeOK, ServeLocal
<1>3. /\ UNCHANGED <<cfg, cancelled, signalled, closed, bound, loops>>
      /\ UNCHANGED <<defers, handle, owner, spool, conn, orphans, acked, db, grants>>
      /\ pc' = [pc EXCEPT ![p] = "tsnet"] /\ pc[p] = "bind" /\ pc'[p] = "tsnet"
      /\ Unbound(p) = {} /\ ServeHTTP(p, bound[p])
  BY <1>1 DEF ServeLocal, At, cliVars, envVars, TypeOK
<1>4. cfg[p] \in ConfigType
  BY <1>1, <1>3, ProcFacts DEF Staged
<1>5. /\ serving' \in [Procs -> [Listeners -> {"none", "start", "accept", "done"}]]
      /\ stopping' \in [Procs -> [Listeners -> {"none", "wait", "grace", "done"}]]
      /\ \A q \in Procs \ {p} : serving'[q] = serving[q] /\ stopping'[q] = stopping[q]
      /\ \A l \in Listeners :
            /\ serving'[p][l] = IF l \in bound[p] THEN "start" ELSE serving[p][l]
            /\ stopping'[p][l] = IF l \in bound[p] THEN "wait" ELSE stopping[p][l]
  BY <1>1, <1>3, ServeHTTPIs
<1>6. TypeOK'
  <2>1. pc' \in [Procs -> Pcs]
    BY <1>1, <1>3 DEF TypeOK, Pcs, Startup
  <2> QED BY <1>1, <1>2, <1>3, <1>5, <2>1 DEF TypeOK
<1>7. Others(p)
  BY <1>1, <1>2, <1>3, <1>5 DEF TypeOK, Others
<1>8. Staged(p)'
  BY <1>1, <1>2, <1>3, DefersIs DEF Staged, Holding, Up, Ended
<1>9. \A l \in Listeners : Listening(p, l)'
  <2>1. ASSUME NEW l \in LocalAddrs(cfg[p]) PROVE l \in bound[p]
    <3>1. PICK i \in DOMAIN Addrs(cfg[p]) : l = Addrs(cfg[p])[i] /\ l # Blank
      BY DEF LocalAddrs, Range
    <3> QED BY <1>3, <3>1 DEF Unbound
  <2>2. LocalAddrs(cfg[p]) \subseteq Configured(cfg[p])
    BY DEF Configured
  <2>3. ASSUME NEW l \in Listeners
        PROVE  /\ stopping[p][l] = "none" /\ serving[p][l] = "none"
               /\ l \in bound[p] => l \in LocalAddrs(cfg[p])
    BY <1>1, <1>3 DEF Listening, Up, Ended
  <2> QED BY <1>3, <1>5, <2>1, <2>2, <2>3 DEF Listening, Up, Ended
<1>10. Procedural'
  BY <1>1, <1>7, <1>8, <1>9, ProcFrame
<1>11. Onward(p)
  <2>1. Live(p) = {}
    BY <1>3 DEF Inv, Clientele, Connected, Live, Up
  <2> QED BY <1>3, <2>1 DEF Onward, Up, Ended
<1>12. Clientele'
  BY <1>3, <1>7, <1>11, ClientsStay
<1> QED BY <1>6, <1>10, <1>12 DEF Inv

LEMMA SetupTsnetStep ==
    ASSUME Inv, NEW p \in Procs, SetupTsnet(p)
    PROVE  Inv'
<1>1. TypeOK /\ Procedural /\ Staged(p) /\ \A l \in Listeners : Listening(p, l)
  BY DEF Inv, Procedural
<1> DEFINE t == NextTsnet(p)
<1>2. /\ UNCHANGED <<pc, cfg, cancelled, signalled, closed, loops, left>>
      /\ UNCHANGED <<defers, handle, owner, spool, conn, orphans, acked, db, grants>>
      /\ pc[p] = "tsnet" /\ PendingTsnet(p) # {}
      /\ bound' = [bound EXCEPT ![p] = bound[p] \cup {t}] /\ ServeHTTP(p, {t})
  BY DEF SetupTsnet, cliVars, envVars
<1>3. cfg[p] \in ConfigType
  BY <1>1, <1>2, ProcFacts DEF Staged
<1>4. t \in Listeners /\ t \in Configured(cfg[p]) /\ stopping[p][t] = "none"
  <2>1. First(PendingTsnet(p)) \in PendingTsnet(p)
    BY <1>2, <1>3, AddrsAre, FirstIs DEF PendingTsnet
  <2> QED BY <1>3, <2>1, AddrsAre DEF NextTsnet, PendingTsnet, Range, Listeners
<1> HIDE DEF t
<1>5. /\ serving' \in [Procs -> [Listeners -> {"none", "start", "accept", "done"}]]
      /\ stopping' \in [Procs -> [Listeners -> {"none", "wait", "grace", "done"}]]
      /\ \A q \in Procs \ {p} : serving'[q] = serving[q] /\ stopping'[q] = stopping[q]
      /\ \A l \in Listeners :
            /\ serving'[p][l] = IF l \in {t} THEN "start" ELSE serving[p][l]
            /\ stopping'[p][l] = IF l \in {t} THEN "wait" ELSE stopping[p][l]
  BY <1>1, <1>2, ServeHTTPIs
<1>6. TypeOK'
  <2>1. bound' \in [Procs -> SUBSET Listeners]
    BY <1>1, <1>2, <1>4 DEF TypeOK
  <2> QED BY <1>1, <1>2, <1>5, <2>1 DEF TypeOK
<1>7. Others(p) /\ bound'[p] = bound[p] \cup {t}
  BY <1>1, <1>2, <1>5 DEF TypeOK, Others
<1>8. Staged(p)'
  BY <1>1, <1>2 DEF Staged
<1>9. \A l \in Listeners : Listening(p, l)'
  <2>1. ASSUME NEW l \in Listeners PROVE Listening(p, l)'
    <3>1. CASE l = t
      BY <1>2, <1>4, <1>5, <1>7, <3>1 DEF Listening, Up, Ended
    <3>2. CASE l # t
      BY <1>1, <1>2, <1>5, <1>7, <3>2 DEF Listening, Up, Ended
    <3> QED BY <3>1, <3>2
  <2> QED BY <2>1
<1>10. Procedural'
  BY <1>1, <1>7, <1>8, <1>9, ProcFrame
<1>11. Onward(p)
  <2>1. ASSUME NEW c \in Live(p) PROVE stopping'[p][conn[c].lsn] \in {"wait", "grace"}
    BY <1>1, <1>4, <1>5, <2>1, ConnIs DEF Inv, Clientele, Connected, Live
  <2> QED BY <1>2, <2>1 DEF Onward, Up, Ended
<1>12. Clientele'
  BY <1>2, <1>7, <1>11, ClientsStay
<1> QED BY <1>6, <1>10, <1>12 DEF Inv

LEMMA StartedStep ==
    ASSUME Inv, NEW p \in Procs, SetupTsnetFails(p) \/ TsnetUp(p) \/ StartLoops(p)
    PROVE  Inv'
<1>1. TypeOK /\ Procedural /\ Staged(p) /\ \A l \in Listeners : Listening(p, l)
  BY DEF Inv, Procedural
<1>2. left' \in ScenarioType /\ left'.configs = left.configs
  BY <1>1, LeftIs DEF TypeOK, SetupTsnetFails, TsnetUp, StartLoops
<1> DEFINE gs == {"sweeper"} \cup (IF cfg[p].gc THEN {"gc"} ELSE {})
                             \cup (IF handle[p] = "none" THEN {"retry"} ELSE {})
<1>3. /\ UNCHANGED <<cfg, signalled, closed, bound, serving, stopping>>
      /\ UNCHANGED <<defers, handle, owner, spool, conn, orphans, acked, db, grants>>
      /\ pc' = [pc EXCEPT ![p] = pc'[p]]
      /\ \/ /\ pc[p] = "tsnet" /\ pc'[p] = "loops"
            /\ cancelled' = [cancelled EXCEPT ![p] = TRUE] /\ loops' = loops
         \/ /\ pc[p] = "tsnet" /\ pc'[p] = "loops" /\ PendingTsnet(p) = {}
            /\ cancelled' = cancelled /\ loops' = loops
         \/ /\ pc[p] = "loops" /\ pc'[p] = "run" /\ loops' = [loops EXCEPT ![p] = gs]
            /\ cancelled' = cancelled
  <2>1. CASE SetupTsnetFails(p)
    BY <1>1, <2>1 DEF SetupTsnetFails, At, goVars, cliVars, envVars, TypeOK
  <2>2. CASE TsnetUp(p)
    BY <1>1, <2>2 DEF TsnetUp, At, goVars, cliVars, envVars, TypeOK
  <2>3. CASE StartLoops(p)
    BY <1>1, <2>3 DEF StartLoops, At, goVars, cliVars, envVars, TypeOK
  <2> QED BY <2>1, <2>2, <2>3
<1>4. gs \subseteq {"gc", "sweeper", "retry"}
  OBVIOUS
<1> HIDE DEF gs
<1>5. TypeOK'
  <2>1. pc'[p] \in Pcs
    BY <1>3 DEF Pcs, Startup
  <2>2. pc' \in [Procs -> Pcs]
    BY <1>1, <1>3, <2>1 DEF TypeOK
  <2>3. cancelled' \in [Procs -> BOOLEAN]
    BY <1>1, <1>3 DEF TypeOK
  <2>4. loops' \in [Procs -> SUBSET {"gc", "sweeper", "retry"}]
    <3>1. loops' = loops \/ loops' = [loops EXCEPT ![p] = gs]
      BY <1>3
    <3>2. loops \in [Procs -> SUBSET {"gc", "sweeper", "retry"}]
      BY <1>1 DEF TypeOK
    <3> QED BY <1>4, <3>1, <3>2
  <2> QED BY <1>1, <1>2, <1>3, <2>2, <2>3, <2>4 DEF TypeOK
<1>6. Others(p) /\ (cancelled[p] => cancelled'[p])
  BY <1>1, <1>2, <1>3 DEF TypeOK, Others
<1>7. Staged(p)'
  BY <1>1, <1>2, <1>3, DefersIs DEF Staged, Holding, Up, Ended
<1>8. \A l \in Listeners : Listening(p, l)'
  <2>1. ASSUME ~cancelled'[p], NEW l \in Listeners, l \in Configured(cfg[p])
        PROVE  stopping[p][l] # "none"
    <3>1. CASE pc[p] = "tsnet"
      <4>1. PendingTsnet(p) = {}
        BY <1>1, <1>3, <2>1, <3>1 DEF TypeOK
      <4>2. CASE l \in LocalAddrs(cfg[p])
        BY <1>1, <3>1, <4>2 DEF Listening, Up
      <4>3. CASE l \in Range(cfg[p].tsnet)
        <5>1. PICK i \in DOMAIN cfg[p].tsnet : l = cfg[p].tsnet[i]
          BY <4>3 DEF Range
        <5> QED BY <4>1, <5>1 DEF PendingTsnet
      <4> QED BY <2>1, <4>2, <4>3 DEF Configured
    <3>2. CASE pc[p] = "loops"
      BY <1>1, <1>3, <2>1, <3>2 DEF Listening
    <3> QED BY <1>3, <3>1, <3>2
  <2>2. pc[p] \in Up /\ pc'[p] \in Up
    BY <1>3 DEF Up
  <2> QED BY <1>1, <1>3, <1>6, <2>1, <2>2 DEF Listening, Up, Ended
<1>9. Procedural'
  BY <1>1, <1>6, <1>7, <1>8, ProcFrame
<1>10. Onward(p)
  <2>1. \A c \in Live(p) : stopping[p][conn[c].lsn] \in {"wait", "grace"}
    BY DEF Inv, Clientele, Connected, Live
  <2> QED BY <1>3, <2>1 DEF Onward, Up, Ended
<1>11. Clientele'
  BY <1>3, <1>6, <1>10, ClientsStay
<1> QED BY <1>5, <1>9, <1>11 DEF Inv

-----------------------------------------------------------------------------
(***************************************************************************)
(* The goroutines of the group.                                            *)
(***************************************************************************)

\* What the goroutine in Serve writes.
LEMMA ServingType ==
    ASSUME TypeOK, NEW p \in Procs, NEW l \in Listeners, NEW v \in {"accept", "done"}
    PROVE  LET s == [serving EXCEPT ![p][l] = v] IN
           /\ serving \in [Procs -> [Listeners -> {"none", "start", "accept", "done"}]]
           /\ s \in [Procs -> [Listeners -> {"none", "start", "accept", "done"}]]
           /\ s[p][l] = v /\ \A k \in Listeners \ {l} : s[p][k] = serving[p][k]
           /\ \A q \in Procs \ {p} : s[q] = serving[q]
BY DEF TypeOK

LEMMA BoundType ==
    ASSUME TypeOK, NEW p \in Procs, NEW l \in Listeners,
           bound' = bound \/ bound' = [bound EXCEPT ![p] = bound[p] \ {l}]
    PROVE  bound' \in [Procs -> SUBSET Listeners]
<1>1. bound \in [Procs -> SUBSET Listeners] /\ bound[p] \ {l} \in SUBSET Listeners
  BY DEF TypeOK
<1>2. CASE bound' = bound
  BY <1>1, <1>2
<1>3. CASE bound' = [bound EXCEPT ![p] = bound[p] \ {l}]
  BY <1>1, <1>3
<1> QED BY <1>2, <1>3

\* The goroutine in Serve moves on, and may leave the listener closed.
LEMMA ServeStep ==
    ASSUME Inv, NEW p \in Procs, NEW l \in Listeners, ServeStarts(p, l) \/ ServeFails(p, l)
    PROVE  Inv'
<1>1. TypeOK /\ Procedural /\ Staged(p) /\ \A k \in Listeners : Listening(p, k)
  BY DEF Inv, Procedural
<1>2. left' \in ScenarioType /\ left'.configs = left.configs
  BY <1>1, LeftIs DEF TypeOK, ServeStarts, ServeFails, NoFault
<1>3. /\ UNCHANGED <<pc, cfg, signalled, closed, stopping, loops>>
      /\ UNCHANGED <<defers, handle, owner, spool, conn, orphans, acked, db, grants>>
      /\ serving[p][l] \in {"start", "accept"}
      /\ \/ /\ serving[p][l] = "start" /\ stopping[p][l] = "wait"
            /\ serving' = [serving EXCEPT ![p][l] = "accept"]
            /\ UNCHANGED <<bound, cancelled>>
         \/ /\ serving' = [serving EXCEPT ![p][l] = "done"]
            /\ bound' = [bound EXCEPT ![p] = bound[p] \ {l}]
            /\ \/ stopping[p][l] # "wait" /\ cancelled' = cancelled
               \/ cancelled' = [cancelled EXCEPT ![p] = TRUE]
  <2>1. CASE ServeStarts(p, l)
    BY <2>1 DEF ServeStarts, InGroup, cliVars, envVars
  <2>2. CASE ServeFails(p, l)
    BY <2>2 DEF ServeFails, InGroup, cliVars, envVars
  <2> QED BY <2>1, <2>2
<1>4. pc[p] \in Up /\ (stopping[p][l] # "wait" => cancelled[p])
  <2>1. Listening(p, l) /\ stopping[p][l] \in {"none", "wait", "grace", "done"}
    BY <1>1, ProcFacts
  <2> QED BY <1>3, <2>1 DEF Listening, Up, Ended
<1>5. TypeOK'
  <2>1. serving' \in [Procs -> [Listeners -> {"none", "start", "accept", "done"}]]
    BY <1>1, <1>3, ServingType
  <2>2. bound' \in [Procs -> SUBSET Listeners]
    BY <1>1, <1>3, BoundType
  <2>3. cancelled' \in [Procs -> BOOLEAN]
    <3>1. cancelled' = cancelled \/ cancelled' = [cancelled EXCEPT ![p] = TRUE]
      BY <1>3
    <3> QED BY <1>1, <3>1 DEF TypeOK
  <2> QED BY <1>1, <1>2, <1>3, <2>1, <2>2, <2>3 DEF TypeOK
<1>6. /\ \/ serving'[p][l] = "accept" /\ stopping[p][l] = "wait" /\ bound'[p] = bound[p]
         \/ serving'[p][l] = "done" /\ cancelled'[p] /\ bound'[p] = bound[p] \ {l}
      /\ \A k \in Listeners \ {l} : serving'[p][k] = serving[p][k]
      /\ \A q \in Procs \ {p} : serving'[q] = serving[q]
      /\ cancelled[p] => cancelled'[p]
  <2>1. CASE serving' = [serving EXCEPT ![p][l] = "accept"] /\ stopping[p][l] = "wait"
             /\ UNCHANGED <<bound, cancelled>>
    BY <1>1, <2>1, ServingType
  <2>2. CASE /\ serving' = [serving EXCEPT ![p][l] = "done"]
             /\ bound' = [bound EXCEPT ![p] = bound[p] \ {l}]
             /\ \/ stopping[p][l] # "wait" /\ cancelled' = cancelled
                \/ cancelled' = [cancelled EXCEPT ![p] = TRUE]
    <3>1. cancelled'[p] /\ bound'[p] = bound[p] \ {l}
      BY <1>1, <1>4, <2>2 DEF TypeOK
    <3> QED BY <1>1, <2>2, <3>1, ServingType
  <2> QED BY <1>3, <2>1, <2>2
<1>7. Others(p)
  BY <1>1, <1>2, <1>3, <1>6 DEF TypeOK, Others
<1>8. Staged(p)'
  BY <1>1, <1>2, <1>3 DEF Staged
<1>9. \A k \in Listeners : Listening(p, k)'
  <2>1. ASSUME NEW k \in Listeners PROVE Listening(p, k)'
    <3>1. CASE k = l
      BY <1>1, <1>3, <1>4, <1>6, <3>1 DEF Listening, Up, Ended
    <3>2. CASE k # l
      BY <1>1, <1>3, <1>4, <1>6, <3>2 DEF Listening, Up, Ended
    <3> QED BY <3>1, <3>2
  <2> QED BY <2>1
<1>10. Procedural'
  BY <1>1, <1>7, <1>8, <1>9, ProcFrame
<1>11. Onward(p)
  <2>1. \A c \in Live(p) : stopping[p][conn[c].lsn] \in {"wait", "grace"}
    BY DEF Inv, Clientele, Connected, Live
  <2> QED BY <1>3, <1>4, <2>1 DEF Onward, Up, Ended
<1>12. Clientele'
  BY <1>3, <1>7, <1>11, ClientsStay
<1> QED BY <1>5, <1>10, <1>12 DEF Inv

LEMMA ShutdownStep ==
    ASSUME Inv, NEW p \in Procs, NEW l \in Listeners, Shutdown(p, l)
    PROVE  Inv'
<1>1. TypeOK /\ Procedural /\ Staged(p) /\ \A k \in Listeners : Listening(p, k)
  BY DEF Inv, Procedural
<1>2. /\ UNCHANGED <<pc, cfg, cancelled, signalled, closed, loops, left>>
      /\ UNCHANGED <<defers, handle, owner, spool, conn, orphans, acked, db, grants>>
      /\ stopping[p][l] = "wait" /\ cancelled[p]
      /\ stopping' = [stopping EXCEPT ![p][l] = "grace"]
      /\ \/ /\ serving[p][l] = "accept"
            /\ serving' = [serving EXCEPT ![p][l] = "done"]
            /\ bound' = [bound EXCEPT ![p] = bound[p] \ {l}]
         \/ serving[p][l] # "accept" /\ UNCHANGED <<serving, bound>>
  BY DEF Shutdown, InGroup, cliVars, envVars
<1>3. pc[p] \in Up
  <2>1. Listening(p, l)
    BY <1>1
  <2> QED BY <1>2, <2>1 DEF Listening, Up, Ended
<1>4. TypeOK'
  <2>1. serving' \in [Procs -> [Listeners -> {"none", "start", "accept", "done"}]]
    BY <1>1, <1>2, ServingType
  <2>2. stopping' \in [Procs -> [Listeners -> {"none", "wait", "grace", "done"}]]
    BY <1>1, <1>2 DEF TypeOK
  <2>3. bound' \in [Procs -> SUBSET Listeners]
    BY <1>1, <1>2, BoundType
  <2> QED BY <1>1, <1>2, <2>1, <2>2, <2>3 DEF TypeOK
<1>5. /\ stopping'[p][l] = "grace"
      /\ \A k \in Listeners \ {l} : stopping'[p][k] = stopping[p][k]
      /\ \A q \in Procs \ {p} : stopping'[q] = stopping[q]
  BY <1>1, <1>2 DEF TypeOK
<1>6. /\ \/ serving[p][l] = "accept" /\ serving'[p][l] = "done" /\ bound'[p] = bound[p] \ {l}
         \/ serving[p][l] # "accept" /\ serving'[p][l] = serving[p][l] /\ bound'[p] = bound[p]
      /\ \A k \in Listeners \ {l} : serving'[p][k] = serving[p][k]
      /\ \A q \in Procs \ {p} : serving'[q] = serving[q] /\ bound'[q] = bound[q]
  BY <1>1, <1>2 DEF TypeOK
<1>7. Others(p)
  BY <1>1, <1>2, <1>5, <1>6 DEF Others
<1>8. Staged(p)'
  BY <1>1, <1>2 DEF Staged
<1>9. \A k \in Listeners : Listening(p, k)'
  <2>1. ASSUME NEW k \in Listeners PROVE Listening(p, k)'
    <3>1. CASE k = l
      BY <1>1, <1>2, <1>3, <1>5, <1>6, <3>1 DEF Listening, Up, Ended
    <3>2. CASE k # l
      BY <1>1, <1>2, <1>3, <1>5, <1>6, <3>2 DEF Listening, Up, Ended
    <3> QED BY <3>1, <3>2
  <2> QED BY <2>1
<1>10. Procedural'
  BY <1>1, <1>7, <1>8, <1>9, ProcFrame
<1>11. Onward(p)
  <2>1. ASSUME NEW c \in Live(p) PROVE stopping'[p][conn[c].lsn] \in {"wait", "grace"}
    BY <1>1, <1>5, <2>1, ConnIs DEF Inv, Clientele, Connected, Live
  <2> QED BY <1>2, <1>3, <2>1 DEF Onward, Up, Ended
<1>12. Clientele'
  BY <1>2, <1>7, <1>11, ClientsStay
<1> QED BY <1>4, <1>10, <1>12 DEF Inv

\* A loop ends, or the store has been opened at last.
LEMMA LoopStep ==
    ASSUME Inv, NEW p \in Procs, RetryOpens(p) \/ (\E g \in loops[p] : LoopEnds(p, g))
    PROVE  Inv'
<1>1. TypeOK /\ Procedural /\ Staged(p) /\ \A k \in Listeners : Listening(p, k)
  BY DEF Inv, Procedural
<1>2. /\ UNCHANGED <<pc, cfg, cancelled, signalled, closed, bound, serving, stopping, left>>
      /\ UNCHANGED <<defers, owner, spool, conn, orphans, acked, db, grants>>
      /\ loops[p] # {}
      /\ \E g : loops' = [loops EXCEPT ![p] = loops[p] \ {g}]
      /\ handle' = handle \/ handle' = [handle EXCEPT ![p] = "open"]
  BY DEF RetryOpens, LoopEnds, InGroup, cliVars, envVars
<1>3. pc[p] = "run" /\ defers[p] # <<>>
  BY <1>1, <1>2, DefersIs DEF Staged, Up
<1>4. TypeOK'
  <2>1. loops' \in [Procs -> SUBSET {"gc", "sweeper", "retry"}]
    BY <1>1, <1>2 DEF TypeOK
  <2>2. handle' \in [Procs -> {"none", "open", "closed"}]
    BY <1>1, <1>2 DEF TypeOK
  <2> QED BY <1>1, <1>2, <2>1, <2>2 DEF TypeOK
<1>5. Others(p) /\ (handle'[p] = handle[p] \/ handle'[p] = "open")
  BY <1>1, <1>2 DEF TypeOK, Others
<1>6. Staged(p)'
  BY <1>1, <1>2, <1>3, <1>5 DEF Staged
<1>7. \A l \in Listeners : Listening(p, l)'
  BY <1>1, <1>2 DEF Listening
<1>8. Procedural'
  BY <1>1, <1>5, <1>6, <1>7, ProcFrame
<1>9. Onward(p)
  BY <1>2, <1>3 DEF Inv, Clientele, Connected, Onward, Live, Up
<1>10. Clientele'
  BY <1>2, <1>5, <1>9, ClientsStay
<1> QED BY <1>4, <1>8, <1>10 DEF Inv

LEMMA AsOrphanType ==
    ASSUME TypeOK, NEW c \in Clients, conn[c] # None
    PROVE  AsOrphan(c) \in Orphans
BY ConnIs DEF AsOrphan, Orphans

\* Whatever happens to a connection that breaks, its handler runs on.
LEMMA DropType ==
    ASSUME TypeOK, NEW cs \in SUBSET Clients, \A c \in cs : conn[c] # None, Drop(cs)
    PROVE  /\ conn' \in [Clients -> Conns \cup {None}] /\ orphans' \subseteq Orphans
           /\ \A c \in Clients : conn'[c] = IF c \in cs THEN None ELSE conn[c]
<1>1. conn' \in [Clients -> Conns \cup {None}]
  BY DEF TypeOK, Drop
<1>2. {AsOrphan(c) : c \in cs} \subseteq Orphans
  BY AsOrphanType
<1>3. \A c \in Clients : conn'[c] = IF c \in cs THEN None ELSE conn[c]
  BY DEF Drop
<1> QED BY <1>1, <1>2, <1>3 DEF Drop, TypeOK

LEMMA ShutdownEndsStep ==
    ASSUME Inv, NEW p \in Procs, NEW l \in Listeners, ShutdownEnds(p, l)
    PROVE  Inv'
<1>1. TypeOK /\ Procedural /\ Staged(p) /\ \A k \in Listeners : Listening(p, k)
  BY DEF Inv, Procedural
<1>2. /\ UNCHANGED <<pc, cfg, cancelled, signalled, closed, loops, left>>
      /\ UNCHANGED <<defers, handle, owner, spool, acked, db, grants, bound, serving>>
      /\ stopping[p][l] = "grace"
      /\ stopping' = [stopping EXCEPT ![p][l] = "done"] /\ Drop(LiveOn(p, l))
  BY DEF ShutdownEnds, InGroup, envVars
<1>3. pc[p] \in Up
  <2>1. Listening(p, l)
    BY <1>1
  <2> QED BY <1>2, <2>1 DEF Listening, Up, Ended
<1>4. /\ conn' \in [Clients -> Conns \cup {None}] /\ orphans' \subseteq Orphans
      /\ \A c \in Clients : conn'[c] = IF c \in LiveOn(p, l) THEN None ELSE conn[c]
  <2>1. LiveOn(p, l) \in SUBSET Clients /\ \A c \in LiveOn(p, l) : conn[c] # None
    BY DEF LiveOn, Live
  <2> QED BY <1>1, <1>2, <2>1, DropType
<1>5. TypeOK'
  <2>1. stopping' \in [Procs -> [Listeners -> {"none", "wait", "grace", "done"}]]
    BY <1>1, <1>2 DEF TypeOK
  <2> QED BY <1>1, <1>2, <1>4, <2>1 DEF TypeOK
<1>6. /\ stopping'[p][l] = "done"
      /\ \A k \in Listeners \ {l} : stopping'[p][k] = stopping[p][k]
      /\ \A q \in Procs \ {p} : stopping'[q] = stopping[q]
  BY <1>1, <1>2 DEF TypeOK
<1>7. Others(p)
  BY <1>1, <1>2, <1>6 DEF Others
<1>8. Staged(p)'
  BY <1>1, <1>2 DEF Staged
<1>9. \A k \in Listeners : Listening(p, k)'
  <2>1. ASSUME NEW k \in Listeners PROVE Listening(p, k)'
    <3>1. CASE k = l
      BY <1>1, <1>2, <1>3, <1>6, <3>1 DEF Listening, Up, Ended
    <3>2. CASE k # l
      BY <1>1, <1>2, <1>3, <1>6, <3>2 DEF Listening, Up, Ended
    <3> QED BY <3>1, <3>2
  <2> QED BY <2>1
<1>10. Procedural'
  BY <1>1, <1>7, <1>8, <1>9, ProcFrame
<1>11. Onward(p)
  <2>1. ASSUME NEW c \in Live(p)
        PROVE  conn'[c] = None \/ stopping'[p][conn[c].lsn] \in {"wait", "grace"}
    <3>1. c \in Clients /\ conn[c] # None /\ conn[c].srv = p /\ conn[c].lsn \in Listeners
      BY <1>1, <2>1, ConnIs DEF Live
    <3>2. CASE conn[c].lsn = l
      BY <1>4, <2>1, <3>1, <3>2 DEF LiveOn
    <3>3. CASE conn[c].lsn # l
      BY <1>6, <3>1, <3>3 DEF Inv, Clientele, Connected
    <3> QED BY <3>2, <3>3
  <2> QED BY <1>2, <1>3, <2>1 DEF Onward, Up, Ended
<1>12. Clientele'
  BY <1>2, <1>4, <1>7, <1>11, ClientsStay
<1> QED BY <1>5, <1>10, <1>12 DEF Inv

-----------------------------------------------------------------------------
(***************************************************************************)
(* The deferred calls.                                                     *)
(***************************************************************************)
\* eg.Wait returns when no goroutine is left, and with them every client is gone.
LEMMA WaitStep ==
    ASSUME Inv, NEW p \in Procs, Wait(p)
    PROVE  Inv'
<1>1. TypeOK /\ Procedural /\ Staged(p) /\ \A k \in Listeners : Listening(p, k)
  BY DEF Inv, Procedural
<1>2. /\ UNCHANGED <<cfg, cancelled, signalled, closed, serving, stopping, loops, left>>
      /\ UNCHANGED <<defers, handle, owner, spool, conn, orphans, acked, db, grants, bound>>
      /\ pc[p] = "run" /\ pc' = [pc EXCEPT ![p] = "return"] /\ loops[p] = {}
      /\ \A l \in Listeners : /\ serving[p][l] \in {"none", "done"}
                              /\ stopping[p][l] \in {"none", "done"}
  BY DEF Wait, At, goVars, cliVars, envVars, NoFault
<1>3. pc'[p] = "return"
  BY <1>1, <1>2 DEF TypeOK
<1>4. TypeOK'
  <2>1. pc' \in [Procs -> Pcs]
    BY <1>1, <1>2 DEF TypeOK, Pcs
  <2> QED BY <1>1, <1>2, <2>1 DEF TypeOK
<1>5. Others(p)
  BY <1>1, <1>2 DEF TypeOK, Others
<1>6. Staged(p)'
  BY <1>1, <1>2, <1>3, DefersIs DEF Staged, Holding, Up, Ended
<1>7. \A l \in Listeners : Listening(p, l)'
  BY <1>1, <1>2, <1>3 DEF Listening, Up, Ended
<1>8. Procedural'
  BY <1>1, <1>5, <1>6, <1>7, ProcFrame
<1>9. Onward(p)
  <2>1. Live(p) = {}
    <3>1. ASSUME NEW c \in Live(p) PROVE FALSE
      BY <1>1, <1>2, <3>1, ConnIs DEF Inv, Clientele, Connected, Live
    <3> QED BY <3>1
  <2> QED BY <1>2, <1>3, <2>1 DEF Onward, Up, Ended
<1>10. Clientele'
  BY <1>2, <1>5, <1>9, ClientsStay
<1> QED BY <1>4, <1>8, <1>10 DEF Inv

\* The deferred calls run last one first: the cache, its lock, the store.
LEMMA ReturnStepKeeps ==
    ASSUME Inv, NEW p \in Procs, CloseCache(p) \/ ReleaseSpool(p) \/ CloseStore(p) \/ Returned(p)
    PROVE  Inv'
<1>1. TypeOK /\ Procedural /\ Staged(p) /\ \A k \in Listeners : Listening(p, k)
  BY DEF Inv, Procedural
<1>2. /\ UNCHANGED <<cfg, cancelled, signalled, serving, stopping, loops, left>>
      /\ UNCHANGED <<spool, conn, orphans, acked, db, grants, bound>>
      /\ pc[p] = "return"
      /\ \/ /\ closed' = [closed EXCEPT ![p] = TRUE]
            /\ UNCHANGED <<pc, defers, handle, owner>>
         \/ /\ defers[p] = <<"store", "cache">> /\ defers' = [defers EXCEPT ![p] = <<"store">>]
            /\ owner' = None
            /\ UNCHANGED <<pc, closed, handle>>
         \/ /\ defers[p] = <<"store">> /\ defers' = [defers EXCEPT ![p] = <<>>]
            /\ handle' = [handle EXCEPT ![p] = IF handle[p] = "open" THEN "closed" ELSE handle[p]]
            /\ UNCHANGED <<pc, closed, owner>>
         \/ /\ defers[p] = <<>> /\ pc' = [pc EXCEPT ![p] = "returned"]
            /\ UNCHANGED <<closed, defers, handle, owner>>
  <2>1. defers[p] \in {<<>>, <<"store">>, <<"store", "cache">>}
    BY <1>1, ProcFacts
  <2>2. CASE CloseCache(p)
    BY <2>2 DEF CloseCache, Deferred, goVars, cliVars, envVars
  <2>3. CASE ReleaseSpool(p)
    <3>1. defers[p] = <<"store", "cache">>
      BY <2>1, <2>3, DefersIs DEF ReleaseSpool, Deferred
    <3>2. defers' = [defers EXCEPT ![p] = Front(defers[p])]
      BY <2>3 DEF ReleaseSpool, Pop
    <3> QED BY <2>3, <3>1, <3>2, DefersIs DEF ReleaseSpool, Deferred, goVars, cliVars, envVars
  <2>4. CASE CloseStore(p)
    <3>1. defers[p] = <<"store">>
      BY <2>1, <2>4, DefersIs DEF CloseStore, Deferred
    <3>2. defers' = [defers EXCEPT ![p] = Front(defers[p])]
      BY <2>4 DEF CloseStore, Pop
    <3> QED BY <2>4, <3>1, <3>2, DefersIs DEF CloseStore, Deferred, goVars, cliVars, envVars
  <2>5. CASE Returned(p)
    BY <2>5 DEF Returned, At, goVars, cliVars, envVars, NoFault
  <2> QED BY <2>2, <2>3, <2>4, <2>5
<1>3. TypeOK' /\ Others(p) /\ Staged(p)' /\ pc'[p] \in Ended
  <2>1. CASE closed' = [closed EXCEPT ![p] = TRUE] /\ UNCHANGED <<pc, defers, handle, owner>>
    <3>1. TypeOK'
      BY <1>1, <1>2, <2>1 DEF TypeOK
    <3>2. Others(p)
      BY <1>1, <1>2, <2>1 DEF TypeOK, Others
    <3> QED BY <1>1, <1>2, <2>1, <3>1, <3>2 DEF Staged, Ended
  <2>2. CASE /\ defers[p] = <<"store", "cache">> /\ defers' = [defers EXCEPT ![p] = <<"store">>]
             /\ owner' = None
             /\ UNCHANGED <<pc, closed, handle>>
    <3>1. TypeOK' /\ defers'[p] = <<"store">>
      <4>1. defers' \in [Procs -> {<<>>, <<"store">>, <<"store", "cache">>}] /\ defers'[p] = <<"store">>
        BY <1>1, <2>2 DEF TypeOK
      <4> QED BY <1>1, <1>2, <2>2, <4>1 DEF TypeOK
    <3>2. owner = p /\ None \notin Procs
      BY <1>1, <1>2, <2>2, ServeAssumption DEF Staged
    <3>3. Others(p)
      BY <1>1, <1>2, <2>2, <3>2 DEF TypeOK, Others
    <3> QED BY <1>1, <1>2, <2>2, <3>1, <3>2, <3>3, DefersIs DEF Staged, Holding, Up, Ended
  <2>3. CASE /\ defers[p] = <<"store">> /\ defers' = [defers EXCEPT ![p] = <<>>]
             /\ handle' = [handle EXCEPT ![p] = IF handle[p] = "open" THEN "closed" ELSE handle[p]]
             /\ UNCHANGED <<pc, closed, owner>>
    <3>1. TypeOK' /\ defers'[p] = <<>>
      <4>1. defers' \in [Procs -> {<<>>, <<"store">>, <<"store", "cache">>}] /\ defers'[p] = <<>>
        BY <1>1, <2>3 DEF TypeOK
      <4>2. handle' \in [Procs -> {"none", "open", "closed"}]
        BY <1>1, <2>3 DEF TypeOK
      <4> QED BY <1>1, <1>2, <2>3, <4>1, <4>2 DEF TypeOK
    <3>2. handle'[p] # "open"
      BY <1>1, <2>3 DEF TypeOK
    <3>3. Others(p)
      BY <1>1, <1>2, <2>3 DEF TypeOK, Others
    <3> QED BY <1>1, <1>2, <2>3, <3>1, <3>2, <3>3, DefersIs DEF Staged, Holding, Up, Ended
  <2>4. CASE /\ defers[p] = <<>> /\ pc' = [pc EXCEPT ![p] = "returned"]
             /\ UNCHANGED <<closed, defers, handle, owner>>
    <3>1. TypeOK' /\ pc'[p] = "returned"
      BY <1>1, <1>2, <2>4 DEF TypeOK, Pcs
    <3>2. Others(p)
      BY <1>1, <1>2, <2>4 DEF TypeOK, Others
    <3> QED BY <1>1, <1>2, <2>4, <3>1, <3>2, DefersIs DEF Staged, Holding, Up, Ended
  <2> QED BY <1>2, <2>1, <2>2, <2>3, <2>4
<1>4. \A l \in Listeners : Listening(p, l)'
  BY <1>1, <1>2, <1>3 DEF Listening, Up, Ended
<1>5. Procedural'
  BY <1>1, <1>3, <1>4, ProcFrame
<1>6. Onward(p)
  <2>1. Live(p) = {}
    BY <1>2 DEF Inv, Clientele, Connected, Live, Up
  <2> QED BY <1>2, <1>3, <2>1 DEF Onward, Up, Ended
<1>7. Clientele'
  BY <1>2, <1>3, <1>6, ClientsStay
<1> QED BY <1>3, <1>5, <1>7 DEF Inv

-----------------------------------------------------------------------------
(***************************************************************************)
(* Requests and their handlers.                                            *)
(***************************************************************************)
\* What a request that has been let through must have.
Permitted(c) ==
    conn[c] # None /\ conn[c].step \notin {"auth", "gate"} /\ Mutates(conn[c].req) =>
       IF conn[c].lsn \in Tsnet THEN conn[c].held ELSE cfg[conn[c].srv].localWrite

\* The step of one client, or of a handler that it has left.
LEMMA ClientFrame ==
    ASSUME Inv, NEW c \in Clients, UNCHANGED <<procVars, owner>>,
           left' \in ScenarioType, left'.configs = left.configs,
           grants' \subseteq Clients, db' \in BOOLEAN,
           \A d \in Clients \ {c} : d \in grants' <=> d \in grants,
           orphans' \subseteq Orphans, spool' \subseteq Files,
           acked' \in [Clients -> Procs \cup {None}],
           conn' = [conn EXCEPT ![c] = conn'[c]], conn'[c] \in Conns \cup {None},
           Connected(c)', Permitted(c)', \A d \in Clients : Kept(d)', Swept'
    PROVE  Inv'
<1>1. /\ UNCHANGED <<pc, cfg, cancelled, signalled, closed, defers, handle, bound>>
      /\ UNCHANGED <<serving, stopping, loops, owner>> /\ TypeOK
  BY DEF procVars, goVars, Inv
<1>2. TypeOK'
  <2>1. conn' \in [Clients -> Conns \cup {None}]
    BY <1>1 DEF TypeOK
  <2> QED BY <1>1, <2>1 DEF TypeOK
<1>3. Procedural'
  BY <1>1 DEF Inv, Procedural, Staged, Listening
<1>4. \A d \in Clients \ {c} : conn'[d] = conn[d]
  BY <1>1 DEF TypeOK
<1>5. ASSUME NEW d \in Clients PROVE Connected(d)' /\ Permitted(d)'
  <2>1. CASE d = c
    BY <2>1
  <2>2. CASE d # c
    <3>1. Connected(d) /\ Permitted(d) /\ conn'[d] = conn[d]
      BY <1>4, <2>2 DEF Inv, Clientele, WriteNeedsGrant, Permitted
    <3>2. Connected(d)'
      BY <1>1, <2>2, <3>1 DEF Connected
    <3>3. Permitted(d)'
      BY <1>1, <3>1 DEF Permitted
    <3> QED BY <3>2, <3>3
  <2> QED BY <2>1, <2>2
<1>6. Clientele'
  BY <1>5 DEF Clientele, WriteNeedsGrant, Permitted
<1> QED BY <1>2, <1>3, <1>6, InvIntro

\* A handler that leaves the spool and the answers alone.
LEMMA SpoolStays ==
    ASSUME Inv, UNCHANGED <<pc, spool, acked>>
    PROVE  /\ (\A c \in Clients : Kept(c)') /\ Swept'
           /\ spool' \subseteq Files /\ acked' \in [Clients -> Procs \cup {None}]
BY DEF Inv, Clientele, TypeOK, Kept, Swept, File

LEMMA AdvanceIs ==
    ASSUME Inv, NEW c \in Clients, conn[c] # None, NEW s \in Steps,
           conn' = [conn EXCEPT ![c].step = s]
    PROVE  /\ conn' = [conn EXCEPT ![c] = conn'[c]] /\ conn'[c] \in Conns
           /\ conn'[c].srv = conn[c].srv /\ conn'[c].lsn = conn[c].lsn
           /\ conn'[c].req = conn[c].req /\ conn'[c].held = conn[c].held /\ conn'[c].step = s
<1> DEFINE r == [conn[c] EXCEPT !.step = s]
<1>1. conn \in [Clients -> Conns \cup {None}] /\ conn[c] \in Conns
  BY DEF Inv, TypeOK
<1>2. /\ r \in Conns /\ r.srv = conn[c].srv /\ r.lsn = conn[c].lsn
      /\ r.req = conn[c].req /\ r.held = conn[c].held /\ r.step = s
  BY <1>1 DEF Conns
<1>3. conn' = [conn EXCEPT ![c] = r]
  OBVIOUS
<1> HIDE DEF r
<1>4. conn'[c] = r /\ conn' = [conn EXCEPT ![c] = conn'[c]]
  BY <1>1, <1>3
<1> QED BY <1>2, <1>4

LEMMA ArriveStep ==
    ASSUME Inv, NEW c \in Clients, NEW p \in Procs, NEW l \in Listeners,
           NEW r \in left.requests, Arrive(c, p, l, r)
    PROVE  Inv'
<1> DEFINE n == [srv |-> p, lsn |-> l, req |-> r, step |-> "auth", held |-> c \in grants]
<1>1. TypeOK /\ Listening(p, l)
  BY DEF Inv, Procedural
<1>2. /\ UNCHANGED <<procVars, owner, db, grants, spool, orphans, acked, left>>
      /\ l \in bound[p] /\ serving[p][l] = "accept" /\ conn' = [conn EXCEPT ![c] = n]
  BY DEF Arrive, InHandler, envVars
<1>3. /\ n \in Conns /\ n.srv = p /\ n.lsn = l /\ n.step = "auth"
      /\ c \in grants => n.held
  <2>1. r \in Requests
    BY <1>1 DEF TypeOK, ScenarioType
  <2>2. n \in Conns
    <3> DEFINE h == c \in grants
    <3>1. h \in BOOLEAN
      OBVIOUS
    <3>2. n = [srv |-> p, lsn |-> l, req |-> r, step |-> "auth", held |-> h]
      OBVIOUS
    <3> HIDE DEF h, n
    <3> QED BY <2>1, <3>1, <3>2 DEF Conns, Steps
  <2>3. n.srv = p /\ n.lsn = l /\ n.step = "auth" /\ n.held = (c \in grants)
    OBVIOUS
  <2> HIDE DEF n
  <2> QED BY <2>2, <2>3
<1> HIDE DEF n
<1>4. conn'[c] = n
  BY <1>1, <1>2 DEF TypeOK
<1>5. pc[p] \in Up /\ stopping[p][l] = "wait"
  BY <1>1, <1>2 DEF Listening, Up, Ended
<1>6. Connected(c)'
  BY <1>2, <1>3, <1>4, <1>5 DEF Connected, procVars, goVars
<1>7. Permitted(c)'
  BY <1>3, <1>4 DEF Permitted
<1>8. (\A d \in Clients : Kept(d)') /\ Swept' /\ UNCHANGED pc
  BY <1>2, SpoolStays DEF procVars
<1> QED
  <2>1. /\ orphans' \subseteq Orphans /\ spool' \subseteq Files /\ left' \in ScenarioType
        /\ acked' \in [Clients -> Procs \cup {None}] /\ grants' \subseteq Clients /\ db' \in BOOLEAN
    BY <1>1, <1>2 DEF TypeOK
  <2> QED BY <1>2, <1>3, <1>4, <1>6, <1>7, <1>8, <2>1, ClientFrame

\* A request goes on to the next check, to its handler, or there.
LEMMA AdvanceStep ==
    ASSUME Inv, NEW c \in Clients, conn[c] # None, NEW s \in Steps,
           conn' = [conn EXCEPT ![c].step = s],
           UNCHANGED <<procVars, owner, envVars, orphans, acked, left>>,
           s = "gate" => conn[c].lsn \in Tsnet /\ (conn[c].req.safe \/ c \in grants),
           s \notin {"auth", "gate"} /\ Mutates(conn[c].req) =>
              IF conn[c].lsn \in Tsnet THEN conn[c].held ELSE cfg[conn[c].srv].localWrite,
           spool' \subseteq Files, \A d \in Clients : Kept(d)', Swept'
    PROVE  Inv'
<1>1. /\ conn' = [conn EXCEPT ![c] = conn'[c]] /\ conn'[c] \in Conns
      /\ conn'[c].srv = conn[c].srv /\ conn'[c].lsn = conn[c].lsn
      /\ conn'[c].req = conn[c].req /\ conn'[c].held = conn[c].held /\ conn'[c].step = s
  BY AdvanceIs
<1>2. Connected(c)'
  BY <1>1 DEF Inv, Clientele, Connected, procVars, goVars, envVars
<1>3. Permitted(c)'
  BY <1>1 DEF Permitted, procVars
<1> QED
  <2>1. /\ orphans' \subseteq Orphans /\ left' \in ScenarioType /\ UNCHANGED grants
        /\ acked' \in [Clients -> Procs \cup {None}] /\ grants' \subseteq Clients /\ db' \in BOOLEAN
    BY DEF Inv, TypeOK, envVars
  <2> QED BY <1>1, <1>2, <1>3, <2>1, ClientFrame

LEMMA CheckStep ==
    ASSUME Inv, NEW c \in Clients, Authorize(c) \/ GateDebug(c) \/ TakeLease(c)
    PROVE  Inv'
<1>1. TypeOK /\ conn[c] # None /\ Connected(c) /\ Permitted(c)
  BY DEF Inv, Clientele, WriteNeedsGrant, Permitted, Authorize, GateDebug, TakeLease, Pending
<1>2. conn[c].lsn \in Listeners /\ Local \cap Tsnet = {} /\ conn[c].req \in Requests
  BY <1>1, ConnIs, ServeAssumption
<1>3. ASSUME NEW s \in Steps, Advance(c, s),
             s = "gate" => conn[c].lsn \in Tsnet /\ (conn[c].req.safe \/ c \in grants),
             s \notin {"auth", "gate"} /\ Mutates(conn[c].req) =>
                IF conn[c].lsn \in Tsnet THEN conn[c].held ELSE cfg[conn[c].srv].localWrite
      PROVE  Inv'
  <2>1. /\ UNCHANGED <<procVars, owner, envVars, orphans, acked, spool, left, pc>>
        /\ conn' = [conn EXCEPT ![c].step = s]
    BY <1>3 DEF Advance, InHandler, procVars
  <2>2. spool' \subseteq Files /\ (\A d \in Clients : Kept(d)') /\ Swept'
    BY <2>1, SpoolStays
  <2> QED BY <1>1, <1>3, <2>1, <2>2, AdvanceStep
<1>4. CASE Authorize(c) /\ conn[c].lsn \in Local
  <2>1. LocalAllows(c) /\ Advance(c, "run") /\ conn[c].lsn \notin Tsnet /\ "run" \in Steps
    BY <1>2, <1>4 DEF Authorize, Steps
  <2> QED BY <1>3, <2>1 DEF LocalAllows, ReadOnly
<1>5. CASE Authorize(c) /\ conn[c].lsn \notin Local
  <2>1. MiddlewareAllows(c) /\ Advance(c, "gate") /\ conn[c].lsn \in Tsnet /\ "gate" \in Steps
    BY <1>2, <1>5 DEF Authorize, Steps, Listeners
  <2> QED BY <1>3, <2>1 DEF MiddlewareAllows
<1>6. CASE GateDebug(c)
  <2>1. Advance(c, "run") /\ conn[c].step = "gate" /\ GateAllows(c) /\ "run" \in Steps
    BY <1>6 DEF GateDebug, Pending, Steps
  <2>2. conn[c].lsn \in Tsnet /\ (Mutates(conn[c].req) => conn[c].held)
    BY <1>1, <2>1 DEF Connected, GateAllows, Mutates
  <2> QED BY <1>3, <2>1, <2>2
<1>7. CASE TakeLease(c)
  <2>1. Advance(c, "lease") /\ conn[c].step = "run" /\ "lease" \in Steps
    BY <1>7 DEF TakeLease, Pending, Steps
  <2> QED BY <1>1, <1>3, <2>1 DEF Permitted
<1> QED BY <1>4, <1>5, <1>6, <1>7

\* A process that answers owns the spool, and no other has files in it.
LEMMA SpoolOwner ==
    ASSUME Inv, NEW p \in Procs, pc[p] \in Up
    PROVE  \A q \in Procs : pc[q] \in {"bind"} \cup Up => q = p
<1>1. ASSUME NEW q \in Procs, pc[q] \in {"bind"} \cup Up PROVE owner = q
  BY <1>1 DEF Inv, Procedural, Staged, Holding
<1>2. owner = p
  BY <1>1
<1> QED BY <1>1, <1>2

LEMMA PutNarStartStep ==
    ASSUME Inv, NEW c \in Clients, PutNarStart(c)
    PROVE  Inv'
<1> DEFINE p == conn[c].srv
           f == File(conn[c].srv, c, TRUE)
<1>1. /\ conn[c] # None /\ conn[c].step = "run" /\ TypeOK /\ "body" \in Steps
      /\ conn' = [conn EXCEPT ![c].step = "body"] /\ spool' = spool \cup {f}
      /\ UNCHANGED <<procVars, owner, envVars, orphans, acked, left>>
  BY DEF PutNarStart, Pending, InHandler, Inv, Steps
<1>2. p \in Procs /\ pc[p] \in Up /\ pc' = pc /\ Permitted(c)
  BY <1>1, ConnIs DEF Inv, Clientele, Connected, procVars, WriteNeedsGrant, Permitted
<1>3. f \in Files /\ f.by = p
  <2>1. f.by = p
    BY DEF File
  <2>2. f \in Files
    BY <1>2 DEF File, Files
  <2> QED BY <2>1, <2>2
<1> HIDE DEF f, p
<1>4. spool' \subseteq Files
  BY <1>1, <1>3 DEF TypeOK
<1>5. ASSUME NEW d \in Clients PROVE Kept(d)'
  <2>1. Kept(d)
    BY DEF Inv, Clientele
  <2> QED BY <1>1, <1>2, <2>1 DEF Kept, File
<1>6. Swept'
  BY <1>1, <1>2, <1>3, SpoolOwner DEF Inv, Clientele, Swept
<1> QED BY <1>1, <1>2, <1>4, <1>5, <1>6, AdvanceStep DEF Permitted

\* A NAR is spooled: the temporary file of p for c becomes the file of c.
LEMMA RenameKeeps ==
    ASSUME Inv, NEW p \in Procs, NEW c \in Clients, UNCHANGED pc,
           File(p, c, TRUE) \in spool,
           spool' = {f \in spool : f.of # c} \cup {File(p, c, FALSE)},
           \/ acked' = acked
           \/ pc[p] \in Up /\ acked' = [acked EXCEPT ![c] = p]
    PROVE  /\ (\A d \in Clients : Kept(d)') /\ Swept'
           /\ spool' \subseteq Files /\ acked' \in [Clients -> Procs \cup {None}]
<1> DEFINE g == File(p, c, FALSE)
           e == File(p, c, TRUE)
<1>1. TypeOK /\ Swept
  BY DEF Inv, Clientele
<1>2. /\ g \in Files /\ g.by = p /\ g.of = c /\ e.by = p
  BY DEF File, Files
<1>3. e \in spool /\ spool' = {f \in spool : f.of # c} \cup {g} /\ g \in spool'
  OBVIOUS
<1>4. \A d \in Clients : acked'[d] = acked[d] \/ (d = c /\ acked'[d] = p /\ pc[p] \in Up)
  BY <1>1 DEF TypeOK
<1>5. ASSUME NEW d \in Clients PROVE Kept(d)'
  <2>1. Kept(d) /\ acked[d] \in Procs \cup {None}
    BY <1>1 DEF Inv, Clientele, TypeOK
  <2>2. CASE d = c /\ acked'[d] = p /\ pc[p] \in Up
    <3>1. File(acked'[d], d, FALSE) \in spool'
      BY <1>3, <2>2
    <3> QED BY <2>2, <3>1 DEF Kept, File
  <2>3. CASE d = c /\ acked'[d] = acked[d]
    <3>1. ASSUME acked[d] # None, pc[acked[d]] \in Up PROVE acked[d] = p
      BY <1>1, <1>2, <1>3, <2>1, <3>1 DEF Swept
    <3>2. ASSUME acked'[d] # None, pc'[acked'[d]] \in Up PROVE File(acked'[d], d, FALSE) \in spool'
      BY <1>3, <2>3, <3>1, <3>2
    <3> QED BY <2>1, <2>3, <3>2 DEF Kept, File
  <2>4. CASE d # c /\ acked'[d] = acked[d]
    <3> DEFINE k == File(acked[d], d, FALSE)
    <3>1. k.of # c
      BY <2>4 DEF File
    <3>2. k \in spool => k \in spool'
      BY <1>3, <3>1
    <3> HIDE DEF g, e
    <3> QED BY <2>1, <2>4, <3>2 DEF Kept, File
  <2> QED BY <1>4, <2>2, <2>3, <2>4
<1>6. Swept'
  <2>1. ASSUME NEW q \in Procs, pc'[q] \in {"bind"} \cup Up, NEW f \in spool' PROVE f.by = q
    <3>1. pc[q] \in {"bind"} \cup Up
      BY <2>1
    <3>2. e.by = q /\ g.by = q
      BY <1>1, <1>2, <1>3, <3>1 DEF Swept
    <3> HIDE DEF g, e
    <3> QED BY <1>1, <1>3, <3>1, <3>2 DEF Swept
  <2> QED BY <2>1 DEF Swept
<1>7. spool' \subseteq Files
  <2> HIDE DEF g, e
  <2> QED BY <1>1, <1>2, <1>3 DEF TypeOK
<1>8. acked' \in [Clients -> Procs \cup {None}]
  BY <1>1 DEF TypeOK
<1> QED BY <1>5, <1>6, <1>7, <1>8

\* The import of c takes the file with it, and with it what was promised to c.
LEMMA ImportKeeps ==
    ASSUME Inv, NEW p \in Procs, NEW c \in Clients, UNCHANGED pc,
           spool' = spool \ {File(p, c, FALSE)},
           acked' = [acked EXCEPT ![c] = IF acked[c] = p THEN None ELSE acked[c]]
    PROVE  /\ (\A d \in Clients : Kept(d)') /\ Swept'
           /\ spool' \subseteq Files /\ acked' \in [Clients -> Procs \cup {None}]
<1> DEFINE g == File(p, c, FALSE)
<1>1. TypeOK /\ Swept /\ spool' = spool \ {g} /\ g.by = p /\ g.of = c
  BY DEF File, Inv, Clientele
<1>2. \A d \in Clients :
         acked'[d] = IF d = c /\ acked[d] = p THEN None ELSE acked[d]
  BY <1>1 DEF TypeOK
<1>3. ASSUME NEW d \in Clients, acked'[d] # None PROVE Kept(d)'
  <2> DEFINE k == File(acked[d], d, FALSE)
  <2>1. Kept(d) /\ acked'[d] = acked[d] /\ (d # c \/ acked[d] # p)
    BY <1>2, <1>3 DEF Inv, Clientele
  <2>2. k # g
    <3>1. k.by = acked[d] /\ k.of = d
      BY DEF File
    <3> HIDE DEF k, g
    <3> QED BY <1>1, <2>1, <3>1
  <2>3. k \in spool => k \in spool'
    <3> HIDE DEF k, g
    <3> QED BY <1>1, <2>2
  <2>4. File(acked'[d], d, FALSE) = k
    BY <2>1
  <2>5. File(acked'[d], d, FALSE) = File(acked[d], d, FALSE)'
    BY <2>1 DEF File
  <2> QED BY <1>3, <2>1, <2>3 DEF Kept, File
<1>4. \A d \in Clients : Kept(d)'
  BY <1>3 DEF Kept
<1>5. Swept' /\ spool' \subseteq Files
  BY <1>1 DEF Swept, TypeOK
<1>6. acked' \in [Clients -> Procs \cup {None}]
  BY <1>1 DEF TypeOK
<1> QED BY <1>4, <1>5, <1>6

\* A request is answered.
LEMMA AnswerStep ==
    ASSUME Inv, NEW c \in Clients, Answer(c), Fault \/ NoFault,
           \A d \in Clients : Kept(d)', Swept',
           spool' \subseteq Files, acked' \in [Clients -> Procs \cup {None}]
    PROVE  Inv'
<1>1. left' \in ScenarioType /\ left'.configs = left.configs
  BY LeftIs DEF Inv, TypeOK
<1>2. /\ conn'[c] = None /\ conn' = [conn EXCEPT ![c] = conn'[c]]
      /\ UNCHANGED <<procVars, owner, db, grants, orphans>>
  BY DEF Answer, InHandler, envVars, Inv, TypeOK
<1>3. Connected(c)' /\ Permitted(c)'
  BY <1>2 DEF Connected, Permitted
<1>4. orphans' \subseteq Orphans /\ grants' \subseteq Clients /\ db' \in BOOLEAN
  BY <1>2 DEF Inv, TypeOK
<1> QED BY <1>1, <1>2, <1>3, <1>4, ClientFrame

LEMMA AnsweredStep ==
    ASSUME Inv, NEW c \in Clients,
           Reject(c) \/ Served(c) \/ PutNarDone(c) \/ PutNarInfoDone(c)
    PROVE  Inv'
<1>1. Answer(c) /\ (Fault \/ NoFault) /\ UNCHANGED pc /\ TypeOK
  BY DEF Reject, Served, PutNarDone, PutNarInfoDone, Answer, InHandler, procVars, Inv
<1>2. CASE UNCHANGED <<spool, acked>>
  BY <1>1, <1>2, SpoolStays, AnswerStep
<1>3. CASE Reject(c) \/ Served(c)
  BY <1>2, <1>3 DEF Reject, Served
<1>4. CASE PutNarDone(c) /\ File(conn[c].srv, c, TRUE) \in spool
  <2>1. conn[c].srv \in Procs /\ pc[conn[c].srv] \in Up
    BY <1>1, <1>4, ConnIs DEF PutNarDone, Pending, Inv, Clientele, Connected
  <2>2. /\ spool' = {f \in spool : f.of # c} \cup {File(conn[c].srv, c, FALSE)}
        /\ acked' = [acked EXCEPT ![c] = conn[c].srv]
    BY <1>4 DEF PutNarDone
  <2> QED BY <1>1, <1>4, <2>1, <2>2, RenameKeeps, AnswerStep
<1>5. CASE PutNarDone(c) /\ File(conn[c].srv, c, TRUE) \notin spool
  BY <1>2, <1>5 DEF PutNarDone
<1>6. CASE PutNarInfoDone(c)
  <2>1. conn[c].srv \in Procs
    BY <1>1, <1>6, ConnIs DEF PutNarInfoDone, Pending
  <2>2. /\ spool' = spool \ {File(conn[c].srv, c, FALSE)}
        /\ acked' = [acked EXCEPT ![c] = IF acked[c] = conn[c].srv THEN None ELSE acked[c]]
    BY <1>6 DEF PutNarInfoDone
  <2> QED BY <1>1, <2>1, <2>2, ImportKeeps, AnswerStep
<1> QED BY <1>3, <1>4, <1>5, <1>6

LEMMA DisconnectStep ==
    ASSUME Inv, NEW c \in Clients, Disconnect(c)
    PROVE  Inv'
<1>1. /\ conn[c] # None /\ Drop({c}) /\ (Fault \/ NoFault) /\ TypeOK
      /\ UNCHANGED <<procVars, owner, db, grants, spool, acked, pc>>
  BY DEF Disconnect, InHandler, envVars, procVars, Inv
<1>2. /\ conn' \in [Clients -> Conns \cup {None}] /\ orphans' \subseteq Orphans
      /\ \A d \in Clients : conn'[d] = IF d \in {c} THEN None ELSE conn[d]
  BY <1>1, DropType
<1>3. conn'[c] = None /\ conn' = [conn EXCEPT ![c] = conn'[c]]
  BY <1>1, <1>2 DEF TypeOK
<1>4. Connected(c)' /\ Permitted(c)'
  BY <1>3 DEF Connected, Permitted
<1>5. left' \in ScenarioType /\ left'.configs = left.configs
  BY <1>1, LeftIs DEF TypeOK
<1>6. /\ (\A d \in Clients : Kept(d)') /\ Swept'
      /\ spool' \subseteq Files /\ acked' \in [Clients -> Procs \cup {None}]
  BY <1>1, SpoolStays
<1> QED
  <2>1. grants' \subseteq Clients /\ db' \in BOOLEAN
    BY <1>1 DEF TypeOK
  <2> QED BY <1>1, <1>2, <1>3, <1>4, <1>5, <1>6, <2>1, ClientFrame

\* A handler without a client ends.
LEMMA OrphanEndsStep ==
    ASSUME Inv, NEW o \in orphans, OrphanEnds(o)
    PROVE  Inv'
<1> DEFINE p == o.srv
           c == o.of
<1>1. /\ TypeOK /\ p \in Procs /\ c \in Clients /\ orphans' \subseteq orphans
      /\ UNCHANGED <<procVars, owner, db, grants, conn, left, pc>>
  BY DEF OrphanEnds, InHandler, envVars, procVars, Inv, TypeOK, Orphans
<1>2. \/ UNCHANGED <<spool, acked>>
      \/ spool' = spool \ {File(p, c, TRUE)} /\ acked' = acked
      \/ /\ File(p, c, TRUE) \in spool /\ acked' = acked
         /\ spool' = {f \in spool : f.of # c} \cup {File(p, c, FALSE)}
      \/ /\ spool' = spool \ {File(p, c, FALSE)}
         /\ acked' = [acked EXCEPT ![c] = IF acked[c] = p THEN None ELSE acked[c]]
  BY DEF OrphanEnds
<1> HIDE DEF p, c
<1>3. /\ (\A d \in Clients : Kept(d)') /\ Swept'
      /\ spool' \subseteq Files /\ acked' \in [Clients -> Procs \cup {None}]
  <2>1. CASE UNCHANGED <<spool, acked>>
    BY <1>1, <2>1, SpoolStays
  <2>2. CASE spool' = spool \ {File(p, c, TRUE)} /\ acked' = acked
    <3>1. ASSUME NEW d \in Clients PROVE Kept(d)'
      <4>1. File(acked[d], d, FALSE) # File(p, c, TRUE)
        BY DEF File
      <4> QED BY <1>1, <2>2, <4>1 DEF Inv, Clientele, Kept, File
    <3>2. Swept' /\ spool' \subseteq Files /\ acked' \in [Clients -> Procs \cup {None}]
      BY <1>1, <2>2 DEF Inv, Clientele, Swept, TypeOK
    <3> QED BY <3>1, <3>2
  <2>3. CASE /\ File(p, c, TRUE) \in spool /\ acked' = acked
             /\ spool' = {f \in spool : f.of # c} \cup {File(p, c, FALSE)}
    BY <1>1, <2>3, RenameKeeps
  <2>4. CASE /\ spool' = spool \ {File(p, c, FALSE)}
             /\ acked' = [acked EXCEPT ![c] = IF acked[c] = p THEN None ELSE acked[c]]
    BY <1>1, <2>4, ImportKeeps
  <2> QED BY <1>2, <2>1, <2>2, <2>3, <2>4
<1>4. conn' = [conn EXCEPT ![c] = conn'[c]] /\ conn'[c] \in Conns \cup {None}
  BY <1>1 DEF TypeOK
<1>5. Connected(c)' /\ Permitted(c)'
  BY <1>1 DEF Inv, Clientele, WriteNeedsGrant, Connected, Permitted, procVars, goVars
<1> QED
  <2>1. /\ orphans' \subseteq Orphans /\ left' \in ScenarioType
        /\ grants' \subseteq Clients /\ db' \in BOOLEAN
    BY <1>1 DEF TypeOK
  <2> QED BY <1>1, <1>3, <1>4, <1>5, <2>1, ClientFrame

LEMMA ChangeGrantStep ==
    ASSUME Inv, NEW c \in Clients, ChangeGrant(c)
    PROVE  Inv'
<1> DEFINE r == [conn[c] EXCEPT !.held = TRUE]
<1>1. /\ TypeOK /\ UNCHANGED <<procVars, owner, spool, orphans, acked, db, pc>>
      /\ left' = [left EXCEPT !.grants = left.grants - 1] /\ left.grants > 0
      /\ grants' = IF c \in grants THEN grants \ {c} ELSE grants \cup {c}
      /\ conn' = [conn EXCEPT ![c] = IF conn[c] = None \/ c \in grants THEN conn[c] ELSE r]
  BY DEF ChangeGrant, Inv, procVars
<1>2. left' \in ScenarioType /\ left'.configs = left.configs
  <2>1. left \in ScenarioType
    BY <1>1 DEF TypeOK
  <2> QED BY <1>1, <2>1 DEF ScenarioType
<1>3. conn[c] # None =>
         /\ r \in Conns /\ r.srv = conn[c].srv /\ r.lsn = conn[c].lsn
         /\ r.req = conn[c].req /\ r.step = conn[c].step /\ r.held = TRUE
  <2>1. conn[c] # None => conn[c] \in Conns
    BY <1>1, ConnIs
  <2> QED BY <2>1 DEF Conns
<1> HIDE DEF r
<1>4. /\ conn' = [conn EXCEPT ![c] = conn'[c]]
      /\ \/ conn'[c] = conn[c] /\ (conn[c] = None \/ c \in grants)
         \/ conn'[c] = r /\ conn[c] # None
  BY <1>1 DEF TypeOK
<1>5. conn'[c] \in Conns \cup {None}
  BY <1>1, <1>3, <1>4 DEF TypeOK
<1>6. Connected(c) /\ Permitted(c)
  BY DEF Inv, Clientele, WriteNeedsGrant, Permitted
<1>7. Connected(c)' /\ Permitted(c)'
  <2>1. CASE conn'[c] = conn[c] /\ (conn[c] = None \/ c \in grants)
    <3>1. Connected(c)'
      BY <1>1, <1>6, <2>1 DEF Connected, procVars, goVars
    <3>2. Permitted(c)'
      BY <1>1, <1>6, <2>1 DEF Permitted, procVars
    <3> QED BY <3>1, <3>2
  <2>2. CASE conn'[c] = r /\ conn[c] # None
    <3>1. Connected(c)'
      BY <1>1, <1>3, <1>6, <2>2 DEF Connected, procVars, goVars
    <3>2. Permitted(c)'
      BY <1>1, <1>3, <1>6, <2>2 DEF Permitted, procVars
    <3> QED BY <3>1, <3>2
  <2> QED BY <1>4, <2>1, <2>2
<1>8. /\ (\A d \in Clients : Kept(d)') /\ Swept'
      /\ spool' \subseteq Files /\ acked' \in [Clients -> Procs \cup {None}]
  BY <1>1, SpoolStays
<1> QED
  <2>1. /\ orphans' \subseteq Orphans /\ db' \in BOOLEAN /\ grants' \subseteq Clients
        /\ \A d \in Clients \ {c} : d \in grants' <=> d \in grants
    BY <1>1 DEF TypeOK
  <2> QED BY <1>1, <1>2, <1>4, <1>5, <1>7, <1>8, <2>1, ClientFrame

LEMMA DbReadableStep == Inv /\ DbReadable => Inv'
<1> SUFFICES ASSUME Inv, DbReadable PROVE Inv'
  OBVIOUS
<1>1. /\ UNCHANGED <<procVars, owner, conn, orphans, acked, spool, grants, left>> /\ db' = TRUE
      /\ UNCHANGED <<pc, cfg, cancelled, signalled, closed, defers, handle, bound>>
      /\ UNCHANGED <<serving, stopping, loops>>
  BY DEF DbReadable, procVars, goVars, cliVars
<1>2. TypeOK'
  BY <1>1 DEF Inv, TypeOK
<1>3. Procedural'
  BY <1>1 DEF Inv, Procedural, Staged, Listening
<1>4. Clientele'
  BY <1>1 DEF Inv, Clientele, Connected, Kept, Swept, WriteNeedsGrant, File
<1> QED BY <1>2, <1>3, <1>4, InvIntro

-----------------------------------------------------------------------------
(***************************************************************************)
(* The specification, and its theorems.                                    *)
(***************************************************************************)
LEMMA InitInv == Init => Inv
<1> SUFFICES ASSUME Init PROVE Inv
  OBVIOUS
<1>1. left \in ScenarioType
  BY ServeAssumption DEF Init
<1>2. TypeOK
  <2>1. NoListener \in [Listeners -> {"none", "start", "accept", "done"}]
        /\ NoListener \in [Listeners -> {"none", "wait", "grace", "done"}]
    BY DEF NoListener
  <2>2. /\ serving \in [Procs -> [Listeners -> {"none", "start", "accept", "done"}]]
        /\ stopping \in [Procs -> [Listeners -> {"none", "wait", "grace", "done"}]]
    BY <2>1 DEF Init
  <2>3. grants \subseteq Clients /\ db \in BOOLEAN
    BY <1>1 DEF Init, ScenarioType
  <2>4. defers \in [Procs -> {<<>>, <<"store">>, <<"store", "cache">>}]
    BY DEF Init
  <2> QED BY <1>1, <2>2, <2>3, <2>4 DEF Init, TypeOK, Pcs
<1>3. Procedural
  BY ServeAssumption DEF Init, Procedural, Staged, Listening, Holding, Up, Ended, NoListener
<1>4. Clientele
  BY DEF Init, Clientele, Connected, Kept, Swept, WriteNeedsGrant
<1> QED BY <1>2, <1>3, <1>4 DEF Inv

LEMMA StutterInv == Inv /\ UNCHANGED vars => Inv'
<1> SUFFICES ASSUME Inv, UNCHANGED vars PROVE Inv'
  OBVIOUS
<1>1. /\ UNCHANGED <<owner, conn, orphans, acked, spool, grants, left, db>>
      /\ UNCHANGED <<pc, cfg, cancelled, signalled, closed, defers, handle, bound>>
      /\ UNCHANGED <<serving, stopping, loops>>
  BY DEF vars, procVars, goVars, cliVars, envVars
<1>2. TypeOK'
  BY <1>1 DEF Inv, TypeOK
<1>3. Procedural'
  BY <1>1 DEF Inv, Procedural, Staged, Listening
<1>4. Clientele'
  BY <1>1 DEF Inv, Clientele, Connected, Kept, Swept, WriteNeedsGrant, File
<1> QED BY <1>2, <1>3, <1>4, InvIntro

LEMMA NextInv == Inv /\ Next => Inv'
<1> SUFFICES ASSUME Inv, Next PROVE Inv'
  OBVIOUS
<1>1. ASSUME NEW p \in Procs, \E c \in left.configs : Start(p, c) PROVE Inv'
  BY <1>1, StartStep
<1>2. ASSUME NEW p \in Procs, Signal(p) \/ SetupFails(p) PROVE Inv'
  BY <1>2, SignalStep, SetupStep
<1>3. ASSUME NEW p \in Procs, Kill(p) \/ Exit(p) PROVE Inv'
  BY <1>3, GoneStep DEF Kill, Exit
<1>4. ASSUME NEW p \in Procs, StartupStep(p) PROVE Inv'
  BY <1>4, SetupStep, InitZstdCacheStep, SweepSpoolStep, BindStep, ServeLocalStep,
     SetupTsnetStep, StartedStep DEF StartupStep
<1>5. ASSUME NEW p \in Procs, GroupStep(p) PROVE Inv'
  BY <1>5, LoopStep, ServeStep, ShutdownStep, ShutdownEndsStep DEF GroupStep
<1>6. ASSUME NEW p \in Procs, ReturnStep(p) PROVE Inv'
  BY <1>3, <1>6, WaitStep, ReturnStepKeeps DEF ReturnStep
<1>7. ASSUME NEW p \in Procs, NEW l \in Listeners, ServeFails(p, l) PROVE Inv'
  BY <1>7, ServeStep
<1>8. ASSUME NEW c \in Clients,
             \E p \in Procs, l \in Listeners, r \in left.requests : Arrive(c, p, l, r)
      PROVE  Inv'
  BY <1>8, ArriveStep
<1>9. ASSUME NEW c \in Clients, Handle(c) PROVE Inv'
  BY <1>9, CheckStep, PutNarStartStep, AnsweredStep DEF Handle
<1>10. ASSUME NEW c \in Clients, Disconnect(c) \/ ChangeGrant(c) PROVE Inv'
  BY <1>10, DisconnectStep, ChangeGrantStep
<1>11. ASSUME NEW o \in orphans, OrphanEnds(o) PROVE Inv'
  BY <1>11, OrphanEndsStep
<1> QED BY <1>1, <1>2, <1>3, <1>4, <1>5, <1>6, <1>7, <1>8, <1>9, <1>10, <1>11,
           DbReadableStep DEF Next

LEMMA SpecInv == Spec => []Inv
<1>1. Inv /\ [Next]_vars => Inv'
  BY NextInv, StutterInv
<1> QED BY <1>1, InitInv, PTL DEF Spec

\* Every step of a process, of its goroutines and of the requests it serves
\* (cli/serve.go) keeps the variables in their types.
THEOREM TypeCorrect == Spec => []TypeOK
<1>1. Inv => TypeOK
  BY DEF Inv
<1> QED BY <1>1, SpecInv, PTL

LEMMA AnsweringIsUp ==
    ASSUME Inv, NEW p \in Procs, Answering(p)
    PROVE  pc[p] \in {"bind"} \cup Up
<1>1. CASE bound[p] # {}
  <2>1. PICK l \in bound[p] : TRUE
    BY <1>1
  <2>2. l \in Listeners /\ Listening(p, l)
    BY DEF Inv, TypeOK, Procedural
  <2> QED BY <2>1, <2>2 DEF Listening
<1>2. CASE Live(p) # {}
  BY <1>2 DEF Live, Inv, Clientele, Connected
<1> QED BY <1>1, <1>2 DEF Answering

\* A client that was told its NAR is spooled finds it there while the process that
\* told it can still answer: the lock that cache.New takes before it sweeps, held
\* until closeCache, keeps every other process out of the directory.
THEOREM AckedUploadKeptCorrect == Spec => []AckedUploadKept
<1>1. Inv => AckedUploadKept
  <2> SUFFICES ASSUME Inv, NEW c \in Clients, acked[c] # None, Answering(acked[c])
               PROVE  File(acked[c], c, FALSE) \in spool
    BY DEF AckedUploadKept
  <2>1. Kept(c) /\ acked[c] \in Procs
    BY DEF Inv, Clientele, TypeOK
  <2>2. pc[acked[c]] \in {"bind"} \cup Up
    BY <2>1, AnsweringIsUp
  <2> QED BY <2>1, <2>2 DEF Kept, Up, Ended
<1> QED BY <1>1, SpecInv, PTL

\* Nobody is answered from a store or a cache that runServe has closed, and when
\* runServe has returned, on whichever path, it has left nothing behind.
THEOREM CleanShutdownCorrect == Spec => []CleanShutdown
<1>1. Inv => ClosedAfterServing
  <2> SUFFICES ASSUME Inv, NEW p \in Procs, closed[p] \/ handle[p] = "closed", Answering(p)
               PROVE  FALSE
    BY DEF ClosedAfterServing
  <2>1. pc[p] \in Ended
    BY DEF Inv, Procedural, Staged
  <2> QED BY <2>1, AnsweringIsUp DEF Up, Ended
<1>2. Inv => NothingLeft
  <2> SUFFICES ASSUME Inv, NEW p \in Procs, pc[p] = "returned"
               PROVE  /\ bound[p] = {} /\ loops[p] = {} /\ owner # p /\ handle[p] # "open"
                      /\ \A l \in Listeners : /\ serving[p][l] \in {"none", "done"}
                                              /\ stopping[p][l] \in {"none", "done"}
    BY DEF NothingLeft
  <2>1. Staged(p) /\ \A l \in Listeners : Listening(p, l)
    BY DEF Inv, Procedural
  <2>2. bound[p] = {}
    <3>1. bound[p] \subseteq Listeners
      BY DEF Inv, TypeOK
    <3> QED BY <2>1, <3>1 DEF Listening, Up
  <2>3. loops[p] = {} /\ owner # p /\ handle[p] # "open"
    BY <2>1 DEF Staged, Holding, Up
  <2>4. \A l \in Listeners : /\ serving[p][l] \in {"none", "done"}
                             /\ stopping[p][l] \in {"none", "done"}
    BY <2>1 DEF Listening, Ended
  <2> QED BY <2>2, <2>3, <2>4
<1>3. Inv => CleanShutdown
  BY <1>1, <1>2 DEF CleanShutdown
<1> QED BY <1>3, SpecInv, PTL

\* A process that runs and was not cancelled is bound to every listener that its
\* flags name: listenAll is all or nothing, and a tsnet listener that does not
\* come up, or a Serve that ends, cancels the group.
THEOREM AllListenersUpCorrect == Spec => []AllListenersUp
<1>1. Inv => AllListenersUp
  <2> SUFFICES ASSUME Inv, NEW p \in Procs, pc[p] = "run", ~cancelled[p]
               PROVE  bound[p] = Configured(cfg[p])
    BY DEF AllListenersUp
  <2>1. /\ Staged(p) /\ (\A l \in Listeners : Listening(p, l)) /\ TypeOK
        /\ bound[p] \subseteq Listeners
    BY DEF Inv, Procedural, TypeOK
  <2>2. Configured(cfg[p]) \subseteq Listeners
    <3>1. cfg[p] \in ConfigType
      BY <2>1, ProcFacts DEF Staged
    <3> QED BY <3>1, AddrsAre DEF Listeners
  <2>3. ASSUME NEW l \in Listeners PROVE l \in bound[p] <=> l \in Configured(cfg[p])
    <3>1. Listening(p, l)
      BY <2>1
    <3>2. /\ serving[p][l] \in {"none", "start", "accept", "done"}
          /\ stopping[p][l] \in {"none", "wait", "grace", "done"}
      BY <2>1 DEF TypeOK
    <3> QED BY <3>1, <3>2 DEF Listening, Up
  <2> QED BY <2>1, <2>2, <2>3
<1> QED BY <1>1, SpecInv, PTL

\* Nothing that changes state runs for a peer that had no push grant since its
\* request arrived, nor on a plain listener without --local-write: gateDebug and
\* the middleware together cover every such request, whatever its method.
THEOREM WriteNeedsGrantCorrect == Spec => []WriteNeedsGrant
<1>1. Inv => WriteNeedsGrant
  BY DEF Inv, Clientele
<1> QED BY <1>1, SpecInv, PTL

=============================================================================
