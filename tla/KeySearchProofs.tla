--------------------------- MODULE KeySearchProofs ---------------------------
(***************************************************************************)
(* For any directories, files and limits: a search that is not cut short   *)
(* finds every candidate within its depth and nothing else, one that is    *)
(* cut short has seen every level above the one it stopped at, its count   *)
(* is that of what it has seen, and what up recover says is true.          *)
(*                                                                         *)
(* No induction on the depth is needed.  Of every chain of directories     *)
(* down from a root, some stop is always on the way: in the queue, or      *)
(* among the entries still to be looked at, unless the files at its end    *)
(* have been seen (OnTheWay).                                              *)
(***************************************************************************)
EXTENDS KeySearch, FiniteSetTheorems, TLAPS

Searching == {"scan", "over", "printed"}

-----------------------------------------------------------------------------
(* Types *)

LEMMA InspectedTyped ==
  ASSUME TypeOK, NEW f \in File, holds[f].type \in Candidates
  PROVE  Inspected(f) \in Results
BY DEF TypeOK, Holds, Inspected, Results, Classify, Statuses

LEMMA EntriesTyped == \A d : Entries(d) \subseteq Dir \cup File
BY DEF Entries

LEMMA StoreTyped ==
  ASSUME TypeOK, NEW f \in File, Store(f) PROVE TypeOK'
BY DEF TypeOK, Store, walk, Holds, Places

LEMMA StartTyped ==
  ASSUME TypeOK, NEW lim \in Scans, NEW want \in Key \cup {NoKey},
         NEW by \in {"cli", "dialog", "list"}, Start(lim, want, by)
  PROVE  TypeOK'
<1>1. lim \in Limits /\ lim.roots \in Seq(Dir)
  BY LimitAssumption DEF Limits
<1>2. queue' \in Seq(Stops)
  BY <1>1 DEF Start, Stops
<1> QED
  BY <1>1, <1>2 DEF Start, TypeOK, Places

LEMMA TypeInit == Init => TypeOK
<1> SUFFICES ASSUME Init PROVE TypeOK
  OBVIOUS
<1>1. (CHOOSE lim \in Scans : TRUE) \in Limits
  BY LimitAssumption
<1>2. limit \in [lim : Limits, want : Key \cup {NoKey}, by : {"cli", "dialog", "list"}]
  BY <1>1, KeyAssumption DEF Init
<1>3. queue \in Seq(Stops)
  BY DEF Init
<1>4. changed \in 0 .. Changes
  BY LimitAssumption DEF Init
<1>5. tree \in Trees /\ holds \in Holds
  BY TreeAssumption DEF Init
<1> QED
  BY <1>2, <1>3, <1>4, <1>5 DEF Init, TypeOK, Places

LEMMA TypeStep ==
  ASSUME TypeOK, [Next]_vars PROVE TypeOK'
<1> USE DEF TypeOK
<1>1. CASE UNCHANGED vars
  BY <1>1 DEF vars, walk
<1>2. CASE ReadDir
  <2>1. Head(queue) \in Stops /\ Tail(queue) \in Seq(Stops)
    BY <1>2 DEF ReadDir
  <2>2. todo' \subseteq Dir \cup File /\ (cur' = NoKey => todo' = {})
    BY <1>2, <2>1, EntriesTyped, KeyAssumption DEF ReadDir
  <2> QED
    BY <1>2, <2>1, <2>2 DEF ReadDir
<1>3. ASSUME NEW d \in Dir, at = "scan", d \in todo, EnterDir(d) PROVE TypeOK'
  <2>1. [dir |-> d, depth |-> cur.depth + 1, from |-> cur.from] \in Stops
    BY <1>3 DEF Stops
  <2> QED
    BY <1>3, <2>1 DEF EnterDir
<1>4. ASSUME NEW f \in File, at = "scan", f \in todo, LookAt(f) PROVE TypeOK'
  <2>1. cur \in Stops /\ <<cur.from, f>> \in Dir \X File
    BY <1>4 DEF Stops
  <2>2. results' \subseteq Results
    BY <1>4, InspectedTyped DEF LookAt
  <2>3. seen' \subseteq Dir \X File
    BY <1>4, <2>1 DEF LookAt
  <2>4. at' \in Places /\ truncated' \in BOOLEAN
    BY <1>4, Zenon DEF LookAt, Places
  <2>5. scanned' \in Nat
    BY <1>4 DEF LookAt
  <2> QED
    BY <1>4, <2>2, <2>3, <2>4, <2>5 DEF LookAt
<1>5. CASE CliRecover \/ ListAll \/ Scan
  BY <1>5, StartTyped, KeyAssumption DEF CliRecover, ListAll, Scan
<1>6. CASE SearchEnds \/ Answer \/ ShowMatches \/ FindMatchingKey \/ NoScan \/ LostKey \/ CancelDialog
  BY <1>6 DEF SearchEnds, Answer, ShowMatches, FindMatchingKey, NoScan, LostKey, CancelDialog,
              Dialog, walk, Places
<1>7. CASE Pick \/ ImportBundle
  BY <1>7, StoreTyped DEF Pick, ImportBundle, Matches, Results, walk, Places
<1>8. CASE Rewrite
  BY <1>8, LimitAssumption DEF Rewrite, walk, Holds
<1> QED
  BY <1>1, <1>2, <1>3, <1>4, <1>5, <1>6, <1>7, <1>8 DEF Next, Search, Entry

\* Every variable keeps its type.
THEOREM TypeCorrect == Spec => []TypeOK
<1>1. Init => TypeOK
  BY TypeInit
<1>2. TypeOK /\ [Next]_vars => TypeOK'
  BY TypeStep
<1> QED
  BY <1>1, <1>2, PTL DEF Spec

-----------------------------------------------------------------------------
(* The search *)

\* The way from root r down k levels along c, whose last directory may be unreadable.
Way(c, r, k) ==
  /\ c[0] = r
  /\ \A i \in 0 .. k - 1 : c[i] \notin tree.shut
  /\ \A i \in 1 .. k : tree.in[c[i]] = c[i - 1] /\ c[i] \notin tree.skip

\* A stop is where the way from its root leads.
Reached(s) == s.from \in RootSet /\ \E c \in [0 .. s.depth -> Dir] : Way(c, s.from, s.depth) /\ c[s.depth] = s.dir

QueueReached == \A i \in 1 .. Len(queue) : Reached(queue[i])
CurReached ==
  todo # {} => /\ Reached(cur) /\ cur.dir \notin tree.shut
               /\ cur.depth <= limit.lim.depth
               /\ todo \subseteq Entries(cur.dir)
SeenInReach == seen \subseteq InReach
ResultsSeen == results = {Inspected(v[2]) : v \in {w \in seen : holds[w[2]].type \in Candidates}}

Stop(d, k, r) == [dir |-> d, depth |-> k, from |-> r]
Queued(s) == \E j \in 1 .. Len(queue) : queue[j] = s

\* How far down the search has not let anything go unseen.
Bottom == IF truncated THEN cur.depth - 1 ELSE limit.lim.depth

\* Along every chain c down k levels from root r, the i-th stop is on the way.
OnTheWay(c, r, k, i) ==
  \/ Queued(Stop(c[i], i, r))
  \/ i < k /\ cur = Stop(c[i], i, r) /\ c[i + 1] \in todo
  \/ i = k /\ \A f \in Regular : tree.in[f] = c[k] =>
                \/ <<r, f>> \in seen
                \/ cur = Stop(c[k], k, r) /\ f \in todo
NothingMissed ==
  \A r \in RootSet, k \in 0 .. limit.lim.depth :
    k <= Bottom => \A c \in [0 .. k -> Dir] : Path(c, r, k) => \E i \in 0 .. k : OnTheWay(c, r, k, i)

\* The queue is in the order of depth, and at most one level ahead.
InOrder ==
  /\ \A i, j \in 1 .. Len(queue) : i <= j => queue[i].depth <= queue[j].depth
  /\ \A i \in 1 .. Len(queue) :
       IF cur = NoKey THEN queue[i].depth = 0
       ELSE cur.depth <= queue[i].depth /\ queue[i].depth <= cur.depth + 1

Endings ==
  /\ at = "scan" => ~truncated
  /\ truncated => cur \in Stops
  /\ at # "scan" /\ ~truncated => queue = << >> /\ todo = {}

Told ==
  /\ at # "printed" => told = "nothing"
  /\ limit.by # "list" => limit.want = Required
  /\ told = "none" => limit.want = Required /\ Matches = {}
  /\ told = "publicOnly" => limit.want = Required /\ \A r \in Matches : r.type \notin PrivateTypes

Walked == QueueReached /\ CurReached /\ SeenInReach /\ ResultsSeen /\ NothingMissed /\ InOrder /\ Endings

SearchInv == (at \in Searching => Walked) /\ Told /\ ResolvedOpens

LEMMA RootsAre ==
  ASSUME NEW r \in RootSet PROVE \E i \in 1 .. Len(limit.lim.roots) : r = limit.lim.roots[i]
BY DEF RootSet

\* While no limit has ended the search, some stop of every chain is on the way.
LEMMA OnEveryWay ==
  ASSUME limit.lim.depth \in Nat, NothingMissed, ~truncated,
         NEW r \in RootSet, NEW k \in 0 .. limit.lim.depth, NEW c \in [0 .. k -> Dir], Path(c, r, k)
  PROVE  \E i \in 0 .. k : OnTheWay(c, r, k, i)
<1>1. k <= Bottom
  BY DEF Bottom
<1> QED
  BY <1>1 DEF NothingMissed

\* A search starts with every root queued.
LEMMA StartWalks ==
  ASSUME TypeOK, NEW lim \in Scans, NEW want \in Key \cup {NoKey},
         NEW by \in {"cli", "dialog", "list"}, Start(lim, want, by)
  PROVE  Walked'
<1> USE DEF Start
<1>1. lim \in Limits /\ lim.roots \in Seq(Dir) /\ lim.depth \in Nat
  BY LimitAssumption DEF Limits
<1>2. limit'.lim = lim /\ Len(queue') = Len(lim.roots)
  BY <1>1
<1>3. \A i \in 1 .. Len(queue') : queue'[i] = Stop(lim.roots[i], 0, lim.roots[i])
  BY <1>1, <1>2 DEF Stop
<1>4. QueueReached'
  <2> SUFFICES ASSUME NEW i \in 1 .. Len(queue') PROVE Reached(queue[i])'
    BY DEF QueueReached
  <2> DEFINE r == lim.roots[i]
             c == [n \in 0 .. 0 |-> r]
  <2>1. queue'[i].dir = r /\ queue'[i].from = r /\ queue'[i].depth = 0 /\ r \in Dir
    BY <1>1, <1>2, <1>3 DEF Stop
  <2>2. r \in RootSet'
    BY <1>1, <1>2 DEF RootSet
  <2>3. c \in [0 .. 0 -> Dir] /\ c[0] = r
    BY <2>1
  <2>4. Way(c, r, 0)'
    BY <2>3 DEF Way
  <2> QED
    BY <2>1, <2>2, <2>3, <2>4 DEF Reached
<1>5. CurReached' /\ SeenInReach' /\ ResultsSeen' /\ Endings'
  BY DEF CurReached, SeenInReach, ResultsSeen, Endings
<1>6. NothingMissed'
  <2> SUFFICES ASSUME NEW r \in RootSet', NEW k \in 0 .. lim.depth,
                      NEW c \in [0 .. k -> Dir], c[0] = r
               PROVE  OnTheWay(c, r, k, 0)' /\ 0 \in 0 .. k
    BY <1>1, <1>2 DEF NothingMissed, Path
  <2>1. PICK i \in 1 .. Len(lim.roots) : r = lim.roots[i]
    BY <1>2 DEF RootSet
  <2>2. i \in 1 .. Len(queue') /\ 0 \in 0 .. k
    BY <1>1, <1>2
  <2>3. queue'[i] = Stop(r, 0, r)
    BY <1>3, <2>1, <2>2
  <2>4. queue'[i] = Stop(c[0], 0, r) /\ i \in 1 .. Len(queue') /\ 0 \in 0 .. k
    BY <2>2, <2>3
  <2>5. Queued(Stop(c[0], 0, r))'
    BY <2>4 DEF Queued, Stop
  <2> QED
    BY <2>4, <2>5 DEF OnTheWay, Stop
<1>7. InOrder'
  BY <1>1, <1>2, <1>3 DEF InOrder, Stop
<1> QED
  BY <1>4, <1>5, <1>6, <1>7 DEF Walked

\* Nothing that a search has found changes while it only moves on.
LEMMA ReadDirWalks ==
  ASSUME TypeOK, Walked, at = "scan", ReadDir
  PROVE  Walked'
<1> DEFINE h == Head(queue)
<1> USE DEF TypeOK
<1>1. /\ h \in Stops /\ h = queue[1] /\ Len(queue') = Len(queue) - 1 /\ Len(queue) \in Nat \ {0}
      /\ \A i \in 1 .. Len(queue') : queue'[i] = queue[i + 1]
      /\ \A i \in 2 .. Len(queue) : i - 1 \in 1 .. Len(queue') /\ queue'[i - 1] = queue[i]
  BY DEF ReadDir
<1>2. /\ UNCHANGED <<tree, holds, at, limit, scanned, truncated, results, seen>>
      /\ cur' = h /\ ~truncated /\ todo = {}
  BY DEF ReadDir, Walked, Endings
<1>3. RootSet' = RootSet /\ Regular' = Regular /\ InReach' = InReach
  BY <1>2 DEF RootSet, Regular, InReach, Chain, Path
<1>4. \A s : Reached(s)' <=> Reached(s)
  BY <1>2, <1>3 DEF Reached, Way
<1>5. QueueReached'
  BY <1>1, <1>4 DEF Walked, QueueReached
<1>6. CurReached'
  <2>1. Reached(h)
    BY <1>1 DEF Walked, QueueReached
  <2>2. todo' # {} => h.depth <= limit.lim.depth /\ h.dir \notin tree.shut /\ todo' = Entries(h.dir)
    BY <1>1 DEF ReadDir, Limits, Stops
  <2>3. \A d : Entries(d)' = Entries(d)
    BY <1>2 DEF Entries
  <2>4. Reached(cur)'
    BY <1>2, <1>3, <2>1 DEF Reached, Way
  <2> QED
    BY <1>2, <2>2, <2>3, <2>4 DEF CurReached
<1>7. SeenInReach' /\ ResultsSeen' /\ Endings'
  BY <1>1, <1>2, <1>3 DEF Walked, SeenInReach, ResultsSeen, Endings, Inspected, Classify
<1>8. NothingMissed'
  <2> SUFFICES ASSUME NEW r \in RootSet, NEW k \in 0 .. limit.lim.depth, NEW c \in [0 .. k -> Dir],
                      Path(c, r, k)
               PROVE  \E i \in 0 .. k : OnTheWay(c, r, k, i)'
    BY <1>2, <1>3 DEF NothingMissed, Path
  <2>1. PICK i \in 0 .. k : OnTheWay(c, r, k, i)
    BY <1>2 DEF Walked, NothingMissed, Bottom, Limits
  <2>2. CASE queue[1] # Stop(c[i], i, r)
    BY <1>1, <1>2, <1>3, <2>1, <2>2 DEF OnTheWay, Queued
  <2>3. CASE queue[1] = Stop(c[i], i, r)
    <3>1. h.dir = c[i] /\ h.depth = i /\ i <= limit.lim.depth /\ c[i] \notin tree.shut
      BY <1>1, <2>3 DEF Stop, Path, Limits
    <3>2. todo' = Entries(c[i])
      BY <3>1 DEF ReadDir, Limits
    <3>3. CASE i = k
      <4>1. \A f \in Regular : tree.in[f] = c[k] => f \in todo'
        BY <3>2, <3>3 DEF Regular, Entries
      <4> QED
        BY <1>1, <1>2, <1>3, <2>3, <3>3, <4>1 DEF OnTheWay
    <3>4. CASE i < k
      <4>1. i + 1 \in 1 .. k /\ i + 1 \in 0 .. k
        BY <3>4
      <4>2. tree.in[c[i + 1]] = c[i] /\ c[i + 1] \in Dir
        BY <4>1 DEF Path
      <4> QED
        BY <1>1, <1>2, <2>3, <3>2, <3>4, <4>2 DEF OnTheWay, Entries
    <3> QED
      BY <3>3, <3>4
  <2> QED
    BY <2>2, <2>3
<1>9. InOrder'
  <2>1. cur' # NoKey
    BY <1>1, <1>2, KeyAssumption
  <2>2. \A i \in 1 .. Len(queue) : queue[i] \in Stops
    OBVIOUS
  <2>3. \A i \in 1 .. Len(queue) : h.depth <= queue[i].depth /\ queue[i].depth <= h.depth + 1
    <3> TAKE i \in 1 .. Len(queue)
    <3>1. 1 \in 1 .. Len(queue) /\ 1 <= i
      BY <1>1
    <3>2. cur = NoKey \/ cur.depth \in Nat
      BY DEF Stops
    <3>3. queue[1].depth \in Nat /\ queue[i].depth \in Nat
      BY <1>1, <2>2, <3>1 DEF Stops
    <3>4. CASE cur = NoKey
      BY <1>1, <3>1, <3>4 DEF Walked, InOrder
    <3>5. CASE cur # NoKey
      <4>1. queue[1].depth <= queue[i].depth /\ cur.depth <= queue[1].depth
            /\ queue[i].depth <= cur.depth + 1
        BY <3>1, <3>5 DEF Walked, InOrder
      <4> QED
        BY <1>1, <3>2, <3>3, <3>5, <4>1
    <3> QED
      BY <3>4, <3>5
  <2>4. \A i, j \in 1 .. Len(queue') : i <= j => queue'[i].depth <= queue'[j].depth
    BY <1>1 DEF Walked, InOrder
  <2>5. \A i \in 1 .. Len(queue') : cur'.depth <= queue'[i].depth /\ queue'[i].depth <= cur'.depth + 1
    BY <1>1, <1>2, <2>3
  <2> QED
    BY <2>1, <2>4, <2>5 DEF InOrder
<1> QED
  BY <1>5, <1>6, <1>7, <1>8, <1>9 DEF Walked

\* A stop one level down is reached, and stays so.
LEMMA EnterDirWalks ==
  ASSUME TypeOK, Walked, at = "scan", NEW d \in Dir, d \in todo, EnterDir(d)
  PROVE  Walked'
<1> DEFINE s == [dir |-> d, depth |-> cur.depth + 1, from |-> cur.from]
<1> USE DEF TypeOK
<1>1. /\ UNCHANGED <<tree, holds, at, limit, cur, scanned, truncated, results, seen>>
      /\ todo' = todo \ {d} /\ ~truncated /\ cur \in Stops /\ cur # NoKey
      /\ cur.depth \in Nat /\ cur.dir \in Dir /\ s \in Stops
      /\ s.dir = d /\ s.depth = cur.depth + 1 /\ s.from = cur.from
  <2>1. cur \in Stops
    OBVIOUS
  <2>2. cur.depth \in Nat /\ cur.dir \in Dir /\ cur.from \in Dir
    BY <2>1 DEF Stops
  <2>3. s \in Stops
    BY <2>2 DEF Stops
  <2> QED
    BY <2>1, <2>2, <2>3, KeyAssumption DEF EnterDir, Walked, Endings
<1>2. /\ Len(queue) \in Nat /\ Len(queue') \in {Len(queue), Len(queue) + 1}
      /\ \A i \in 1 .. Len(queue) : i \in 1 .. Len(queue') /\ queue'[i] = queue[i]
      /\ \A i \in 1 .. Len(queue') : i \in 1 .. Len(queue) \/ (queue'[i] = s /\ d \notin tree.skip)
      /\ d \notin tree.skip => Len(queue') \in 1 .. Len(queue') /\ queue'[Len(queue')] = s
  <2>1. CASE d \in tree.skip
    BY <2>1 DEF EnterDir
  <2>2. CASE d \notin tree.skip
    <3>1. queue' = Append(queue, s)
      BY <2>2 DEF EnterDir
    <3> HIDE DEF s
    <3> QED
      BY <1>1, <2>2, <3>1
  <2> QED
    BY <2>1, <2>2
<1>3. RootSet' = RootSet /\ Regular' = Regular /\ InReach' = InReach
  BY <1>1 DEF RootSet, Regular, InReach, Chain, Path
<1>4. \A x : Reached(x)' <=> Reached(x)
  BY <1>1, <1>3 DEF Reached, Way
<1>5. QueueReached'
  <2>1. d \notin tree.skip => Reached(s)
    <3> SUFFICES ASSUME d \notin tree.skip PROVE Reached(s)
      OBVIOUS
    <3>1. /\ cur.from \in RootSet /\ cur.dir \notin tree.shut /\ tree.in[d] = cur.dir
      BY DEF Walked, CurReached, Reached, Entries
    <3>2. PICK c \in [0 .. cur.depth -> Dir] : Way(c, cur.from, cur.depth) /\ c[cur.depth] = cur.dir
      BY DEF Walked, CurReached, Reached
    <3> DEFINE k == cur.depth
               e == [i \in 0 .. k + 1 |-> IF i = k + 1 THEN d ELSE c[i]]
    <3>3. k \in Nat
      BY <1>1
    <3> HIDE DEF k
    <3>4. e \in [0 .. k + 1 -> Dir] /\ e[k + 1] = d /\ \A i \in 0 .. k : e[i] = c[i]
      BY <3>2, <3>3 DEF k
    <3> HIDE DEF e
    <3>5. e[0] = cur.from
      BY <3>2, <3>3, <3>4 DEF Way
    <3>6. \A i \in 0 .. k : e[i] \notin tree.shut
      <4> TAKE i \in 0 .. k
      <4>1. CASE i = k
        <5>1. e[k] = cur.dir
          BY <3>2, <3>3, <3>4 DEF k
        <5> QED
          BY <3>1, <4>1, <5>1
      <4>2. CASE i # k
        BY <3>2, <3>3, <3>4, <4>2 DEF k, Way
      <4> QED
        BY <4>1, <4>2
    <3>7. \A i \in 1 .. k + 1 : tree.in[e[i]] = e[i - 1] /\ e[i] \notin tree.skip
      <4> TAKE i \in 1 .. k + 1
      <4>1. CASE i = k + 1
        BY <3>1, <3>2, <3>3, <3>4, <4>1 DEF k
      <4>2. CASE i # k + 1
        <5>1. i \in 1 .. k /\ i \in 0 .. k /\ i - 1 \in 0 .. k
          BY <3>3, <4>2
        <5>2. tree.in[c[i]] = c[i - 1] /\ c[i] \notin tree.skip
          BY <3>2, <5>1 DEF k, Way
        <5> QED
          BY <3>4, <5>1, <5>2
      <4> QED
        BY <4>1, <4>2
    <3>8. Way(e, cur.from, k + 1)
      BY <3>3, <3>5, <3>6, <3>7 DEF Way
    <3> QED
      BY <1>1, <3>1, <3>4, <3>8 DEF Reached, k
  <2> QED
    BY <1>2, <1>4, <2>1 DEF Walked, QueueReached
<1>6. CurReached'
  <2>1. \A x : Entries(x)' = Entries(x)
    BY <1>1 DEF Entries
  <2> QED
    BY <1>1, <1>4, <2>1 DEF Walked, CurReached
<1>7. SeenInReach' /\ ResultsSeen' /\ Endings'
  BY <1>1, <1>3 DEF Walked, SeenInReach, ResultsSeen, Endings, Inspected, Classify
<1>8. NothingMissed'
  <2> SUFFICES ASSUME NEW r \in RootSet, NEW k \in 0 .. limit.lim.depth, NEW c \in [0 .. k -> Dir],
                      Path(c, r, k)
               PROVE  \E i \in 0 .. k : OnTheWay(c, r, k, i)'
    BY <1>1, <1>3 DEF NothingMissed, Path
  <2>1. PICK i \in 0 .. k : OnTheWay(c, r, k, i)
    BY <1>1, OnEveryWay DEF Walked, Limits
  <2>2. CASE Queued(Stop(c[i], i, r))
    BY <1>2, <2>2 DEF OnTheWay, Queued, Stop
  <2>3. CASE i < k /\ cur = Stop(c[i], i, r) /\ c[i + 1] \in todo
    <3>1. CASE c[i + 1] # d
      BY <1>1, <2>3, <3>1 DEF OnTheWay, Stop
    <3>2. CASE c[i + 1] = d
      <4>1. i + 1 \in 0 .. k /\ i + 1 \in 1 .. k
        BY <2>3
      <4>2. d \notin tree.skip
        BY <3>2, <4>1 DEF Path
      <4>3. s = Stop(c[i + 1], i + 1, r)
        BY <2>3, <3>2 DEF Stop
      <4>4. Queued(Stop(c[i + 1], i + 1, r))'
        BY <1>2, <4>2, <4>3 DEF Queued, Stop
      <4> QED
        BY <4>1, <4>4 DEF OnTheWay, Stop
    <3> QED
      BY <3>1, <3>2
  <2>4. CASE i = k /\ \A f \in Regular : tree.in[f] = c[k] =>
                        <<r, f>> \in seen \/ (cur = Stop(c[k], k, r) /\ f \in todo)
    <3>1. \A f \in Regular : f # d
      BY TreeAssumption DEF Regular
    <3> QED
      BY <1>1, <1>3, <2>4, <3>1 DEF OnTheWay, Stop
  <2> QED
    BY <2>1, <2>2, <2>3, <2>4 DEF OnTheWay, Queued
<1>9. InOrder'
  <2>1. \A i \in 1 .. Len(queue) : queue[i].depth \in Nat
    <3> TAKE i \in 1 .. Len(queue)
    <3>1. queue[i] \in Stops
      OBVIOUS
    <3> QED
      BY <3>1 DEF Stops
  <2>2. \A i \in 1 .. Len(queue') : /\ queue'[i].depth \in Nat /\ cur.depth <= queue'[i].depth
                                    /\ queue'[i].depth <= cur.depth + 1
    BY <1>1, <1>2, <2>1 DEF Walked, InOrder
  <2>3. \A i, j \in 1 .. Len(queue') : i <= j => queue'[i].depth <= queue'[j].depth
    <3> TAKE i, j \in 1 .. Len(queue')
    <3>1. CASE j \in 1 .. Len(queue)
      BY <1>2, <3>1 DEF Walked, InOrder
    <3>2. CASE j \notin 1 .. Len(queue)
      BY <1>1, <1>2, <2>2, <3>2
    <3> QED
      BY <3>1, <3>2
  <2> QED
    BY <1>1, <2>2, <2>3 DEF InOrder
<1> QED
  BY <1>5, <1>6, <1>7, <1>8, <1>9 DEF Walked

\* A file that is looked at, and is no link, is in reach.
LEMMA LookAtInReach ==
  ASSUME TypeOK, CurReached, NEW f \in File, f \in todo, holds[f].type # "link"
  PROVE  <<cur.from, f>> \in InReach
<1> USE DEF TypeOK
<1>1. /\ cur \in Stops /\ Reached(cur) /\ cur.dir \notin tree.shut
      /\ cur.depth <= limit.lim.depth /\ tree.in[f] = cur.dir
  BY DEF CurReached, Entries
<1>2. cur.depth \in 0 .. limit.lim.depth /\ cur.dir \in Dir
  BY <1>1 DEF Stops, Limits
<1>3. f \in Regular /\ cur.from \in RootSet
  BY <1>1, <1>2 DEF Regular, Reached
<1>4. PICK c \in [0 .. cur.depth -> Dir] :
        Way(c, cur.from, cur.depth) /\ c[cur.depth] = cur.dir
  BY <1>1 DEF Reached
<1>5. \A i \in 0 .. cur.depth : c[i] \notin tree.shut
  <2> TAKE i \in 0 .. cur.depth
  <2>1. i = cur.depth \/ i \in 0 .. cur.depth - 1
    BY <1>2
  <2> QED
    BY <1>1, <1>4, <2>1 DEF Way
<1>6. Path(c, cur.from, cur.depth)
  BY <1>4, <1>5 DEF Way, Path
<1> QED
  BY <1>1, <1>2, <1>3, <1>4, <1>6 DEF InReach, Chain

\* A file that is looked at is in reach, and from then on seen, unless the limit ends it.
LEMMA LookAtWalks ==
  ASSUME TypeOK, Walked, at = "scan", NEW f \in File, f \in todo, LookAt(f)
  PROVE  Walked'
<1> USE DEF TypeOK
<1>1. /\ UNCHANGED <<tree, holds, limit, queue, cur>> /\ todo' = todo \ {f}
      /\ ~truncated /\ cur \in Stops /\ cur # NoKey
      /\ tree.in[f] = cur.dir /\ cur.dir \in Dir /\ cur.depth \in Nat /\ f \notin Dir
      /\ cur.depth <= limit.lim.depth /\ cur.dir \notin tree.shut /\ Reached(cur)
  <2>1. cur \in Stops /\ cur # NoKey
    BY KeyAssumption
  <2>2. cur.depth \in Nat /\ cur.dir \in Dir
    BY <2>1 DEF Stops
  <2> QED
    BY <2>1, <2>2, TreeAssumption DEF LookAt, Walked, Endings, CurReached, Entries
<1>2. RootSet' = RootSet /\ Regular' = Regular /\ InReach' = InReach
  BY <1>1 DEF RootSet, Regular, InReach, Chain, Path
<1>3. \A x : /\ Reached(x)' <=> Reached(x)
             /\ Queued(x)' <=> Queued(x)
             /\ Entries(x)' = Entries(x)
  BY <1>1, <1>2 DEF Reached, Way, Queued, Entries
<1>4. QueueReached' /\ CurReached' /\ InOrder'
  BY <1>1, <1>3 DEF Walked, QueueReached, CurReached, InOrder
<1>5. CASE truncated'
  <2>1. /\ seen' = seen /\ results' = results /\ at' = "over" /\ truncated' = TRUE
    BY <1>5, <1>1 DEF LookAt
  <2>2. SeenInReach' /\ ResultsSeen' /\ Endings'
    BY <1>1, <1>2, <2>1 DEF Walked, SeenInReach, ResultsSeen, Endings, Inspected, Classify
  <2>3. NothingMissed'
    <3> SUFFICES ASSUME NEW r \in RootSet, NEW k \in 0 .. limit.lim.depth, k <= cur.depth - 1,
                        NEW c \in [0 .. k -> Dir], Path(c, r, k)
                 PROVE  \E i \in 0 .. k : OnTheWay(c, r, k, i)'
      BY <1>1, <1>2, <2>1 DEF NothingMissed, Path, Bottom
    <3>1. PICK i \in 0 .. k : OnTheWay(c, r, k, i)
      BY <1>1, OnEveryWay DEF Walked, Limits
    <3>2. cur # Stop(c[i], i, r) /\ cur # Stop(c[k], k, r)
      BY <1>1 DEF Stop, Limits
    <3> QED
      BY <1>1, <1>2, <1>3, <2>1, <3>1, <3>2 DEF OnTheWay, Stop
  <2> QED
    BY <1>4, <2>2, <2>3 DEF Walked
<1>6. CASE ~truncated'
  <2>1. at' = "scan" /\ truncated' = FALSE
    BY <1>1, <1>6 DEF LookAt
  <2>2. CASE holds[f].type = "link"
    <3>1. seen' = seen /\ results' = results
      BY <2>2 DEF LookAt
    <3>2. SeenInReach' /\ ResultsSeen' /\ Endings'
      BY <1>1, <1>2, <2>1, <3>1 DEF Walked, SeenInReach, ResultsSeen, Endings, Inspected, Classify
    <3>3. f \notin Regular
      BY <2>2 DEF Regular
    <3>4. NothingMissed'
      <4> SUFFICES ASSUME NEW r \in RootSet, NEW k \in 0 .. limit.lim.depth,
                          NEW c \in [0 .. k -> Dir], Path(c, r, k)
                   PROVE  \E i \in 0 .. k : OnTheWay(c, r, k, i)'
        BY <1>1, <1>2 DEF NothingMissed, Path
      <4>1. PICK i \in 0 .. k : OnTheWay(c, r, k, i)
        BY <1>1, OnEveryWay DEF Walked, Limits
      <4>2. i < k => c[i + 1] \in Dir /\ c[i + 1] # f
        BY <1>1
      <4> QED
        BY <1>1, <1>2, <1>3, <3>1, <3>3, <4>1, <4>2 DEF OnTheWay, Stop
    <3> QED
      BY <1>4, <3>2, <3>4 DEF Walked
  <2>3. CASE holds[f].type # "link"
    <3>1. /\ seen' = seen \cup {<<cur.from, f>>}
          /\ results' = IF holds[f].type \in Candidates THEN results \cup {Inspected(f)} ELSE results
      BY <1>1, <1>6, <2>3 DEF LookAt
    <3>2. <<cur.from, f>> \in InReach
      BY <2>3, LookAtInReach DEF Walked
    <3>3. SeenInReach' /\ Endings'
      BY <1>1, <1>2, <2>1, <3>1, <3>2 DEF Walked, SeenInReach, Endings
    <3>4. \A x \in File : Inspected(x)' = Inspected(x)
      BY <1>1 DEF Inspected, Classify
    <3>5. ResultsSeen'
      <4>1. seen \subseteq Dir \X File
        OBVIOUS
      <4> DEFINE Found == {w \in seen : holds[w[2]].type \in Candidates}
      <4>2. results = {Inspected(v[2]) : v \in Found}
        BY DEF Walked, ResultsSeen
      <4>3. <<cur.from, f>>[2] = f
        OBVIOUS
      <4>4. {w \in seen' : holds'[w[2]].type \in Candidates} =
              IF holds[f].type \in Candidates THEN Found \cup {<<cur.from, f>>} ELSE Found
        BY <1>1, <3>1, <4>3
      <4>5. results' = {Inspected(v[2]) : v \in {w \in seen' : holds'[w[2]].type \in Candidates}}
        BY <3>1, <4>2, <4>3, <4>4
      <4>6. \A v \in seen' : Inspected(v[2])' = Inspected(v[2])
        BY <1>1 DEF Inspected, Classify
      <4> QED
        BY <4>5, <4>6 DEF ResultsSeen
    <3>6. NothingMissed'
      <4> SUFFICES ASSUME NEW r \in RootSet, NEW k \in 0 .. limit.lim.depth,
                          NEW c \in [0 .. k -> Dir], Path(c, r, k)
                   PROVE  \E i \in 0 .. k : OnTheWay(c, r, k, i)'
        BY <1>1, <1>2 DEF NothingMissed, Path
      <4>1. PICK i \in 0 .. k : OnTheWay(c, r, k, i)
        BY <1>1, OnEveryWay DEF Walked, Limits
      <4>2. i < k => c[i + 1] \in Dir /\ c[i + 1] # f
        BY <1>1
      <4>3. cur = Stop(c[k], k, r) => cur.from = r
        BY DEF Stop
      <4> QED
        BY <1>1, <1>2, <1>3, <3>1, <4>1, <4>2, <4>3 DEF OnTheWay, Stop
    <3> QED
      BY <1>4, <3>3, <3>5, <3>6 DEF Walked
  <2> QED
    BY <2>2, <2>3
<1> QED
  BY <1>5, <1>6

\* Nothing that a walk has to do with changes.
LEMMA WalkedStays ==
  ASSUME TypeOK, Walked, UNCHANGED <<tree, holds, walk>>,
         at' # "scan" => at # "scan" \/ (queue = << >> /\ todo = {}),
         at' = "scan" => at = "scan"
  PROVE  Walked'
<1>1. UNCHANGED <<tree, holds, limit, queue, cur, todo, truncated, results, seen>>
  BY DEF walk
<1>2. RootSet' = RootSet /\ Regular' = Regular /\ InReach' = InReach
  BY <1>1 DEF RootSet, Regular, InReach, Chain, Path
<1>3. \A x : Reached(x)' <=> Reached(x)
  BY <1>1, <1>2 DEF Reached, Way
<1>4. QueueReached' /\ CurReached' /\ InOrder'
  BY <1>1, <1>3 DEF Walked, QueueReached, CurReached, InOrder, Entries
<1>5. SeenInReach' /\ ResultsSeen'
  BY <1>1, <1>2 DEF Walked, SeenInReach, ResultsSeen, Inspected, Classify
<1>6. NothingMissed'
  <2>1. /\ Bottom' = Bottom
        /\ \A c, r, k : Path(c, r, k)' <=> Path(c, r, k)
        /\ \A c, r, k, i : OnTheWay(c, r, k, i)' <=> OnTheWay(c, r, k, i)
    BY <1>1, <1>2 DEF Bottom, Path, OnTheWay, Queued, Stop
  <2>2. limit' = limit
    BY <1>1
  <2> QED
    BY <1>2, <2>1, <2>2 DEF Walked, NothingMissed
<1>7. Endings'
  BY <1>1 DEF Walked, Endings
<1> QED
  BY <1>4, <1>5, <1>6, <1>7 DEF Walked

LEMMA SearchStep ==
  ASSUME TypeOK, SearchInv, at = "scan", Search PROVE SearchInv'
<1>1. Walked
  BY DEF SearchInv, Searching
<1>2. UNCHANGED <<own, told>> /\ limit' = limit /\ at' \in {"scan", "over"}
  BY DEF Search, Entry, ReadDir, EnterDir, LookAt, SearchEnds, walk
<1>3. Told' /\ ResolvedOpens'
  <2>1. told = "nothing"
    BY DEF SearchInv, Told
  <2> QED
    BY <1>2, <2>1 DEF SearchInv, Told, ResolvedOpens
<1>4. CASE SearchEnds
  <2>1. Walked'
    BY <1>1, <1>4, WalkedStays DEF SearchEnds
  <2> QED
    BY <1>3, <2>1 DEF SearchInv
<1> QED
  BY <1>1, <1>3, <1>4, ReadDirWalks, EnterDirWalks, LookAtWalks DEF Search, Entry, SearchInv

LEMMA AnswerStep ==
  ASSUME TypeOK, SearchInv, Answer PROVE SearchInv'
<1>1. Walked /\ told = "nothing"
  BY DEF SearchInv, Answer, Searching, Told
<1>2. UNCHANGED <<tree, holds, own, walk>> /\ at = "over" /\ at' = "printed"
  BY DEF Answer
<1>3. UNCHANGED <<limit, queue, todo, truncated, results>>
  BY <1>2 DEF walk
<1>4. Walked'
  BY <1>1, <1>2, <1>3, WalkedStays DEF Walked, Endings
<1>5. Told'
  <2>1. Matches' = Matches
    BY <1>3 DEF Matches
  <2>2. CASE limit.by = "list"
    BY <1>1, <1>2, <1>3, <2>2 DEF Answer, Told
  <2>3. CASE limit.by # "list" /\ Matches = {}
    BY <1>2, <1>3, <2>1, <2>3 DEF Answer, Told, SearchInv
  <2>4. CASE limit.by # "list" /\ Matches # {}
    BY <1>2, <1>3, <2>1, <2>4 DEF Answer, Told, SearchInv
  <2> QED
    BY <2>2, <2>3, <2>4
<1> QED
  BY <1>2, <1>4, <1>5 DEF SearchInv, ResolvedOpens

LEMMA InvStep ==
  ASSUME TypeOK, SearchInv, [Next]_vars PROVE SearchInv'
<1>1. CASE UNCHANGED vars
  <2>1. UNCHANGED <<tree, holds, own, at, walk, told>> /\ UNCHANGED limit /\ UNCHANGED results
    BY <1>1 DEF vars, walk
  <2>2. at \in Searching => Walked'
    BY <2>1, WalkedStays DEF SearchInv
  <2>3. Told' /\ ResolvedOpens'
    BY <2>1 DEF SearchInv, Told, ResolvedOpens, Matches
  <2> QED
    BY <2>1, <2>2, <2>3 DEF SearchInv
<1>2. CASE Search
  BY <1>2, SearchStep DEF Search, Entry, ReadDir, SearchEnds
<1>3. ASSUME NEW lim \in Scans, NEW want \in Key \cup {NoKey}, NEW by \in {"cli", "dialog", "list"},
             Start(lim, want, by), at # "printed", by # "list" => want = Required
      PROVE  SearchInv'
  <2>1. Walked'
    BY <1>3, StartWalks
  <2>2. Told'
    BY <1>3 DEF Start, SearchInv, Told
  <2>3. ResolvedOpens'
    BY <1>3 DEF Start, ResolvedOpens
  <2> QED
    BY <2>1, <2>2, <2>3 DEF SearchInv
<1>4. CASE CliRecover \/ ListAll \/ Scan
  BY <1>3, <1>4, KeyAssumption DEF CliRecover, ListAll, Scan
<1>5. CASE Answer
  BY <1>5, AnswerStep
<1>6. CASE ShowMatches \/ FindMatchingKey \/ NoScan \/ LostKey \/ CancelDialog
  BY <1>6 DEF ShowMatches, FindMatchingKey, NoScan, LostKey, CancelDialog, Dialog, walk,
              SearchInv, Told, ResolvedOpens, Searching, Matches
<1>7. ASSUME NEW f \in File, Store(f), at # "printed" PROVE SearchInv'
  BY <1>7 DEF Store, walk, SearchInv, Told, ResolvedOpens, Searching, Matches
<1>8. CASE Pick \/ ImportBundle
  <2>1. Matches \subseteq Results
    BY DEF TypeOK, Matches
  <2> QED
    BY <1>7, <1>8, <2>1 DEF Pick, ImportBundle, Results, walk, SearchInv, Told, ResolvedOpens,
                            Searching, Matches
<1>9. CASE Rewrite
  BY <1>9 DEF Rewrite, walk, SearchInv, Told, ResolvedOpens, Searching, Matches
<1> QED
  BY <1>1, <1>2, <1>4, <1>5, <1>6, <1>8, <1>9 DEF Next

LEMMA InvInit == Init => SearchInv
BY DEF Init, SearchInv, Searching, Told, ResolvedOpens

LEMMA Invariant == Spec => [](TypeOK /\ SearchInv)
<1>1. Init => TypeOK /\ SearchInv
  BY TypeInit, InvInit
<1>2. TypeOK /\ SearchInv /\ [Next]_vars => (TypeOK /\ SearchInv)'
  BY TypeStep, InvStep
<1> QED
  BY <1>1, <1>2, PTL DEF Spec

-----------------------------------------------------------------------------
(* What follows *)

\* When a search is over, all that is in reach has been seen.
LEMMA AllSeen ==
  ASSUME TypeOK, Walked, at \in {"over", "printed"}, ~truncated
  PROVE  seen = InReach
<1>1. \A v \in InReach : v \in seen
  <2> TAKE v \in InReach
  <2>1. PICK k \in 0 .. limit.lim.depth : Chain(v[1], tree.in[v[2]], k)
    BY DEF InReach
  <2>2. v = <<v[1], v[2]>> /\ v[1] \in RootSet /\ v[2] \in Regular
    BY DEF InReach
  <2>3. PICK c \in [0 .. k -> Dir] : Path(c, v[1], k) /\ c[k] = tree.in[v[2]]
    BY <2>1 DEF Chain
  <2>4. PICK i \in 0 .. k : OnTheWay(c, v[1], k, i)
    BY <2>2, <2>3 DEF Walked, NothingMissed, Bottom, TypeOK, Limits
  <2>5. queue = << >> /\ todo = {}
    BY DEF Walked, Endings
  <2> QED
    BY <2>2, <2>3, <2>4, <2>5 DEF OnTheWay, Queued
<1> QED
  BY <1>1 DEF Walked, SeenInReach

\* A search that is not cut short reports exactly the candidates in reach
\* (searchLocalKeys), whatever the directories, the roots and the limits.
THEOREM EverythingFound == Spec => []FindsAll
<1>1. TypeOK /\ SearchInv => FindsAll
  <2> SUFFICES ASSUME TypeOK, SearchInv, at = "over", ~truncated
               PROVE  results = {Inspected(v[2]) : v \in {w \in InReach : holds[w[2]].type \in Candidates}}
    BY DEF FindsAll
  <2>1. Walked
    BY DEF SearchInv, Searching
  <2> QED
    BY <2>1, AllSeen DEF Walked, ResultsSeen
<1> QED
  BY <1>1, Invariant, PTL

\* A search that is cut short has seen every file above the level it stopped at.
THEOREM UpperLevelsFirst == Spec => []ShallowFirst
<1>1. TypeOK /\ SearchInv => ShallowFirst
  <2> SUFFICES ASSUME TypeOK, SearchInv, at = "over", truncated,
                      NEW r \in RootSet, NEW k \in 0 .. limit.lim.depth, k < cur.depth,
                      NEW f \in Regular, Chain(r, tree.in[f], k)
               PROVE  <<r, f>> \in seen
    BY DEF ShallowFirst
  <2>1. Walked
    BY DEF SearchInv, Searching
  <2>2. cur \in Stops /\ cur # NoKey /\ cur.depth \in Nat
    BY <2>1, KeyAssumption DEF Walked, Endings, Stops
  <2>3. PICK c \in [0 .. k -> Dir] : Path(c, r, k) /\ c[k] = tree.in[f]
    BY DEF Chain
  <2>4. k <= Bottom
    BY <2>2 DEF Bottom, TypeOK, Limits
  <2>5. PICK i \in 0 .. k : OnTheWay(c, r, k, i)
    BY <2>1, <2>3, <2>4 DEF Walked, NothingMissed
  <2>6. i < cur.depth /\ k < cur.depth
    BY <2>2 DEF TypeOK, Limits
  <2>7. ~Queued(Stop(c[i], i, r))
    <3>1. \A j \in 1 .. Len(queue) : cur.depth <= queue[j].depth
      BY <2>1, <2>2 DEF Walked, InOrder
    <3>2. Stop(c[i], i, r).depth = i
      BY DEF Stop
    <3> QED
      BY <2>2, <2>6, <3>1, <3>2 DEF Queued
  <2>8. cur # Stop(c[i], i, r) /\ cur # Stop(c[k], k, r)
    BY <2>2, <2>6 DEF Stop
  <2> QED
    BY <2>3, <2>5, <2>7, <2>8 DEF OnTheWay
<1> QED
  BY <1>1, Invariant, PTL

\* "No matching key" and "only public-key matches" are true of everything in reach
\* of a search that is not cut short (recover.ts).
THEOREM VerdictsHold == Spec => []VerdictTrue
<1>1. TypeOK /\ SearchInv => VerdictTrue
  <2> SUFFICES ASSUME TypeOK, SearchInv, at = "printed", ~truncated,
                      NEW v \in InReach, holds[v[2]].type \in Candidates, holds[v[2]].key = Required
               PROVE  /\ told # "none"
                      /\ told = "publicOnly" => holds[v[2]].type \notin PrivateTypes
    BY DEF VerdictTrue, Candidates, PrivateTypes
  <2> DEFINE x == Inspected(v[2])
  <2>1. Walked /\ Told
    BY DEF SearchInv, Searching
  <2>2. v \in seen
    BY <2>1, AllSeen
  <2>3. x \in results
    BY <2>1, <2>2 DEF Walked, ResultsSeen
  <2>4. limit.want = Required => x.status = "match"
    BY KeyAssumption DEF Inspected, Classify
  <2>5. x.type = holds[v[2]].type
    BY DEF Inspected
  <2>6. limit.want = Required => x \in Matches
    BY <2>3, <2>4 DEF Matches
  <2> QED
    BY <2>1, <2>5, <2>6 DEF Told
<1> QED
  BY <1>1, Invariant, PTL

\* The dialog says "resolved" only with the key that .env.up asks for in place.
THEOREM ResolvedIsRight == Spec => []ResolvedOpens
<1>1. SearchInv => ResolvedOpens
  BY DEF SearchInv
<1> QED
  BY <1>1, Invariant, PTL

-----------------------------------------------------------------------------
(* The budget *)

\* How far below a topmost directory a directory is.  The search goes down one
\* level at a time, so a stop's depth is told by where it is.
Level == CHOOSE level \in [Dir -> 0 .. Cardinality(Dir)] :
           \A d \in Dir : tree.in[d] \in Dir => level[d] = level[tree.in[d]] + 1
Levelled(s) == Level[s.dir] = Level[s.from] + s.depth

At(s, r, d) == s.from = r /\ s.dir = d
Waits(r, d) == \E i \in 1 .. Len(queue) : At(queue[i], r, d)

\* Entry n, below root r, has been looked at: its directory has been read, and n
\* is not among the entries still to do.
Done(r, n) ==
  /\ ~Waits(r, tree.in[n])
  /\ ~(cur # NoKey /\ At(cur, r, tree.in[n]) /\ n \in todo)

Counted ==
  /\ scanned = Cardinality(seen) + (IF truncated THEN 1 ELSE 0)
  /\ IF truncated THEN Cardinality(seen) = limit.lim.files /\ seen # InReach
     ELSE scanned <= limit.lim.files

\* Below each root a directory is queued once: the parents of the queued ones have
\* been read, and no file that was seen can come up again.
QueueOnce ==
  /\ \A i \in 1 .. Len(queue) :
       Levelled(queue[i]) /\ (queue[i].depth > 0 => Done(queue[i].from, queue[i].dir))
  /\ \A i, j \in 1 .. Len(queue) : At(queue[i], queue[j].from, queue[j].dir) => i = j
CurOnce == cur # NoKey => Levelled(cur) /\ ~Waits(cur.from, cur.dir)
SeenOnce ==
  \A v \in seen : /\ Done(v[1], v[2])
                  /\ cur # NoKey /\ Level[tree.in[v[2]]] <= Level[v[1]] + cur.depth

Once == QueueOnce /\ CurOnce /\ SeenOnce /\ Counted
OnceInv == tree \in Tree /\ (at \in Searching => Once)

LEMMA LevelIs ==
  ASSUME tree \in Tree
  PROVE  /\ Level \in [Dir -> 0 .. Cardinality(Dir)]
         /\ \A d \in Dir : tree.in[d] \in Dir => Level[d] = Level[tree.in[d]] + 1
         /\ \A d \in Dir : Level[d] \in Nat
<1>1. Cardinality(Dir) \in Nat
  BY ForestAssumption, FS_CardinalityType
<1>2. /\ Level \in [Dir -> 0 .. Cardinality(Dir)]
      /\ \A d \in Dir : tree.in[d] \in Dir => Level[d] = Level[tree.in[d]] + 1
  BY ForestAssumption DEF Level
<1> QED
  BY <1>1, <1>2

LEMMA SeenFinite ==
  ASSUME TypeOK
  PROVE  /\ IsFiniteSet(seen) /\ Cardinality(seen) \in Nat
         /\ IsFiniteSet(InReach) /\ Cardinality(InReach) \in Nat
<1>1. IsFiniteSet(Dir \X File)
  BY ForestAssumption, FS_Product
<1>2. seen \in SUBSET (Dir \X File)
  BY DEF TypeOK
<1>3. InReach \in SUBSET (Dir \X File)
  <2>1. RootSet \subseteq Dir
    BY DEF TypeOK, Limits, RootSet
  <2>2. Regular \subseteq File
    BY DEF Regular
  <2> QED
    BY <2>1, <2>2 DEF InReach
<1> QED
  BY <1>1, <1>2, <1>3, FS_Subset, FS_CardinalityType

LEMMA StartOnce ==
  ASSUME TypeOK, tree \in Tree, NEW lim \in Scans, NEW want, NEW by, Start(lim, want, by)
  PROVE  Once'
<1>1. lim \in Limits /\ lim.roots \in Seq(Dir) /\ lim.files \in Nat
  BY LimitAssumption DEF Limits
<1>2. /\ limit'.lim = lim /\ Len(queue') = Len(lim.roots) /\ cur' = NoKey /\ seen' = {}
      /\ scanned' = 0 /\ truncated' = FALSE /\ Level' = Level
  BY <1>1 DEF Start, Level
<1>3. \A i \in 1 .. Len(queue') :
        /\ queue'[i].dir = lim.roots[i] /\ queue'[i].from = lim.roots[i]
        /\ queue'[i].depth = 0 /\ lim.roots[i] \in Dir
  BY <1>1, <1>2 DEF Start
<1>4. QueueOnce'
  <2>1. \A i \in 1 .. Len(queue') : Levelled(queue[i])' /\ queue'[i].depth = 0
    <3> TAKE i \in 1 .. Len(queue')
    <3>1. PICK r \in Dir : queue'[i].dir = r /\ queue'[i].from = r /\ queue'[i].depth = 0
      BY <1>3
    <3>2. Level'[r] \in Nat
      BY <1>2, LevelIs
    <3> QED
      BY <3>1, <3>2 DEF Levelled
  <2>2. \A i, j \in 1 .. Len(queue') : queue'[i].dir = queue'[j].dir => i = j
    BY <1>2, <1>3, RootsAssumption
  <2> QED
    <3>1. \A i \in 1 .. Len(queue') : ~(queue'[i].depth > 0)
      BY <2>1
    <3> QED
      BY <2>1, <2>2, <3>1, Zenon DEF QueueOnce, At
<1>5. CurOnce' /\ SeenOnce'
  BY <1>2 DEF CurOnce, SeenOnce
<1>6. Counted'
  BY <1>1, <1>2, FS_EmptySet DEF Counted
<1> QED
  BY <1>4, <1>5, <1>6 DEF Once

LEMMA ReadDirOnce ==
  ASSUME TypeOK, tree \in Tree, Walked, Once, ReadDir
  PROVE  Once'
<1> DEFINE h == Head(queue)
<1> USE DEF TypeOK
<1>1. /\ h \in Stops /\ h = queue[1] /\ 1 \in 1 .. Len(queue)
      /\ Len(queue') = Len(queue) - 1 /\ Len(queue) \in Nat
      /\ \A i \in 1 .. Len(queue') : i + 1 \in 1 .. Len(queue) /\ queue'[i] = queue[i + 1]
  BY DEF ReadDir
<1>2. /\ UNCHANGED <<tree, holds, limit, scanned, truncated, seen>>
      /\ cur' = h /\ h # NoKey /\ todo = {}
  BY <1>1, KeyAssumption DEF ReadDir
<1>3. Level' = Level
  BY <1>2 DEF Level
<1>4. \A r, d : Waits(r, d)' => Waits(r, d)
  BY <1>1 DEF Waits, At
<1>5. \A r, d : Waits(r, d)' => ~At(h, r, d)
  BY <1>1 DEF Once, QueueOnce, Waits, At
<1>6. \A r, n : Done(r, n) => Done(r, n)'
  <2> SUFFICES ASSUME NEW r, NEW n, Done(r, n) PROVE Done(r, n)'
    OBVIOUS
  <2>1. ~Waits(r, tree.in[n])
    BY DEF Done
  <2>2. ~At(h, r, tree.in[n])
    BY <1>1, <2>1 DEF Waits
  <2> QED
    BY <1>2, <1>4, <2>1, <2>2 DEF Done, At
<1>7. QueueOnce'
  <2>1. \A i \in 1 .. Len(queue') :
          Levelled(queue[i])' /\ (queue'[i].depth > 0 => Done(queue[i].from, queue[i].dir)')
    <3> TAKE i \in 1 .. Len(queue')
    <3>1. i + 1 \in 1 .. Len(queue) /\ queue'[i] = queue[i + 1]
      BY <1>1
    <3>2. Levelled(queue[i])'
      BY <1>3, <3>1 DEF Once, QueueOnce, Levelled
    <3>3. PICK x : x = queue'[i]
      OBVIOUS
    <3>4. x.depth > 0 => Done(x.from, x.dir)
      BY <3>1, <3>3 DEF Once, QueueOnce
    <3>5. x.depth > 0 => Done(x.from, x.dir)'
      BY <1>6, <3>4
    <3> QED
      BY <3>2, <3>3, <3>5 DEF Done, Waits, At
  <2>2. \A i, j \in 1 .. Len(queue') : At(queue[i], queue[j].from, queue[j].dir)' => i = j
    <3> TAKE i, j \in 1 .. Len(queue')
    <3>1. /\ i + 1 \in 1 .. Len(queue) /\ queue'[i] = queue[i + 1]
          /\ j + 1 \in 1 .. Len(queue) /\ queue'[j] = queue[j + 1]
      BY <1>1
    <3>2. At(queue[i + 1], queue[j + 1].from, queue[j + 1].dir) => i + 1 = j + 1
      BY <3>1 DEF Once, QueueOnce
    <3> QED
      BY <1>1, <3>1, <3>2 DEF At
  <2> QED
    BY <2>1, <2>2 DEF QueueOnce, At, Done, Waits, Levelled
<1>8. CurOnce'
  <2>1. Levelled(h)
    BY <1>1 DEF Once, QueueOnce
  <2>2. PICK r, d : r = h.from /\ d = h.dir
    OBVIOUS
  <2>3. ~Waits(r, d)'
    BY <1>5, <2>2 DEF At
  <2> QED
    BY <1>2, <1>3, <2>1, <2>2, <2>3 DEF CurOnce, Levelled, Waits, At
<1>9. SeenOnce'
  <2> SUFFICES ASSUME NEW v \in seen
               PROVE  Done(v[1], v[2])' /\ Level[tree.in[v[2]]] <= Level[v[1]] + h.depth
    BY <1>2, <1>3 DEF SeenOnce, Done, Waits, At
  <2>1. Done(v[1], v[2]) /\ cur # NoKey /\ Level[tree.in[v[2]]] <= Level[v[1]] + cur.depth
    BY DEF Once, SeenOnce
  <2>2. cur.depth <= h.depth /\ cur.depth \in Nat /\ h.depth \in Nat
    BY <1>1, <2>1 DEF Walked, InOrder, Stops
  <2>3. v[1] \in Dir /\ tree.in[v[2]] \in Dir
    <3>1. v \in InReach
      BY DEF Walked, SeenInReach
    <3>2. RootSet \subseteq Dir
      BY DEF Limits, RootSet
    <3> QED
      BY <3>1, <3>2 DEF InReach, Regular
  <2>4. Level[v[1]] \in Nat /\ Level[tree.in[v[2]]] \in Nat
    BY <2>3, LevelIs
  <2>5. Done(v[1], v[2])'
    BY <1>6, <2>1
  <2> QED
    BY <2>1, <2>2, <2>4, <2>5
<1>10. Counted'
  <2>1. InReach' = InReach
    BY <1>2 DEF InReach, RootSet, Regular, Chain, Path
  <2> QED
    BY <1>2, <2>1 DEF Once, Counted
<1> QED
  BY <1>7, <1>8, <1>9, <1>10 DEF Once

LEMMA EnterDirOnce ==
  ASSUME TypeOK, tree \in Tree, Walked, Once, NEW d \in Dir, d \in todo, EnterDir(d)
  PROVE  Once'
<1> DEFINE s == [dir |-> d, depth |-> cur.depth + 1, from |-> cur.from]
<1> USE DEF TypeOK
<1>1. /\ UNCHANGED <<tree, holds, limit, cur, scanned, truncated, seen>>
      /\ todo' = todo \ {d} /\ cur \in Stops /\ cur # NoKey
      /\ tree.in[d] = cur.dir
  BY KeyAssumption DEF EnterDir, Walked, CurReached, Entries
<1>2. cur.depth \in Nat /\ cur.dir \in Dir /\ cur.from \in Dir
  BY <1>1 DEF Stops
<1>3. /\ Len(queue) \in Nat /\ Len(queue') \in {Len(queue), Len(queue) + 1}
      /\ \A i \in 1 .. Len(queue) : i \in 1 .. Len(queue') /\ queue'[i] = queue[i]
      /\ \A i \in 1 .. Len(queue') :
           i \in 1 .. Len(queue) \/ (i = Len(queue) + 1 /\ queue'[i] = s)
  <2>1. CASE d \in tree.skip
    BY <2>1 DEF EnterDir
  <2>2. CASE d \notin tree.skip
    <3>1. queue' = Append(queue, s)
      BY <2>2 DEF EnterDir
    <3> HIDE DEF s
    <3> QED
      BY <1>2, <2>2, <3>1
  <2> QED
    BY <2>1, <2>2
<1>4. Level' = Level
  BY <1>1 DEF Level
<1>5. Level[d] = Level[cur.from] + cur.depth + 1 /\ Level[d] = Level[cur.dir] + 1
  <2>1. Levelled(cur)
    BY <1>1 DEF Once, CurOnce
  <2> QED
    BY <1>1, <1>2, <2>1, LevelIs DEF Levelled
<1>6. \A x \in Dir : Level[x] \in Nat
  BY LevelIs
<1>7. \A r, n : Done(r, n) /\ ~(r = cur.from /\ tree.in[n] = d) => Done(r, n)'
  BY <1>1, <1>3 DEF Done, Waits, At
<1>8. ~Waits(cur.from, d)
  <2> SUFFICES ASSUME NEW i \in 1 .. Len(queue), At(queue[i], cur.from, d) PROVE FALSE
    BY DEF Waits
  <2>1. Levelled(queue[i]) /\ queue[i] \in Stops
    BY DEF Once, QueueOnce
  <2>2. queue[i].depth > 0
    BY <1>2, <1>5, <1>6, <2>1 DEF Levelled, At, Stops
  <2>3. Done(cur.from, d)
    BY <2>2 DEF Once, QueueOnce, At
  <2> QED
    BY <1>1, <2>3 DEF Done, At
<1>9. QueueOnce'
  <2>1. ASSUME NEW i \in 1 .. Len(queue') PROVE Levelled(queue[i])'
    <3>1. CASE i \in 1 .. Len(queue)
      BY <1>3, <1>4, <3>1 DEF Once, QueueOnce, Levelled
    <3>2. CASE queue'[i] = s
      <4>1. queue'[i].dir = d /\ queue'[i].from = cur.from /\ queue'[i].depth = cur.depth + 1
        BY <3>2
      <4>2. Level'[d] = Level'[cur.from] + (cur.depth + 1)
        BY <1>2, <1>4, <1>5, <1>6
      <4> QED
        BY <4>1, <4>2 DEF Levelled
    <3> QED
      BY <1>3, <3>1, <3>2
  <2>2. ASSUME NEW i \in 1 .. Len(queue'), queue'[i].depth > 0
        PROVE  Done(queue[i].from, queue[i].dir)'
    <3>1. CASE i \in 1 .. Len(queue)
      <4>1. /\ queue[i] \in Stops /\ queue'[i] = queue[i] /\ Levelled(queue[i])
            /\ Done(queue[i].from, queue[i].dir)
        BY <1>3, <2>2, <3>1 DEF Once, QueueOnce
      <4>2. queue[i].depth <= cur.depth + 1
        BY <1>1, <3>1 DEF Walked, InOrder
      <4>3. ~(queue[i].from = cur.from /\ tree.in[queue[i].dir] = d)
        <5> SUFFICES ASSUME queue[i].from = cur.from, tree.in[queue[i].dir] = d
                     PROVE  FALSE
          OBVIOUS
        <5>1. queue[i].dir \in Dir /\ queue[i].depth \in Nat
          BY <4>1 DEF Stops
        <5>2. Level[queue[i].dir] = Level[d] + 1
          BY <5>1, LevelIs
        <5>3. Level[queue[i].dir] = Level[cur.from] + queue[i].depth
          BY <4>1 DEF Levelled
        <5> QED
          BY <1>2, <1>5, <1>6, <4>2, <5>1, <5>2, <5>3
      <4> QED
        <5>1. PICK x : x = queue[i]
          OBVIOUS
        <5>2. Done(x.from, x.dir)'
          BY <1>7, <4>1, <4>3, <5>1
        <5> QED
          BY <4>1, <5>1, <5>2 DEF Done, Waits, At
    <3>2. CASE queue'[i] = s
      <4>1. ~Waits(cur.from, cur.dir)
        BY <1>1 DEF Once, CurOnce
      <4>2. d # cur.dir
        BY <1>2, <1>5, <1>6
      <4>3. ~Waits(cur.from, cur.dir)'
        BY <1>1, <1>3, <4>1, <4>2 DEF Waits, At
      <4>4. d \notin todo' /\ tree'.in[d] = cur.dir
        BY <1>1
      <4>5. Done(cur.from, d)'
        BY <1>1, <4>3, <4>4 DEF Done, Waits, At
      <4> QED
        BY <1>1, <3>2, <4>5 DEF Done, Waits, At
    <3> QED
      BY <1>3, <3>1, <3>2
  <2>3. ASSUME NEW i \in 1 .. Len(queue'), NEW j \in 1 .. Len(queue'),
               At(queue[i], queue[j].from, queue[j].dir)'
        PROVE  i = j
    <3>1. CASE i \in 1 .. Len(queue) /\ j \in 1 .. Len(queue)
      BY <1>3, <2>3, <3>1 DEF Once, QueueOnce
    <3>2. CASE i \in 1 .. Len(queue) /\ queue'[j] = s
      BY <1>3, <1>8, <2>3, <3>2 DEF Waits, At
    <3>3. CASE queue'[i] = s /\ j \in 1 .. Len(queue)
      BY <1>3, <1>8, <2>3, <3>3 DEF Waits, At
    <3>4. CASE i = Len(queue) + 1 /\ j = Len(queue) + 1
      BY <3>4
    <3> QED
      BY <1>3, <3>1, <3>2, <3>3, <3>4
  <2> QED
    BY <2>1, <2>2, <2>3 DEF QueueOnce, At, Done, Waits, Levelled
<1>10. CurOnce'
  <2>1. Levelled(cur) /\ ~Waits(cur.from, cur.dir)
    BY <1>1 DEF Once, CurOnce
  <2>2. d # cur.dir
    BY <1>2, <1>5, <1>6
  <2> QED
    BY <1>1, <1>3, <1>4, <2>1, <2>2 DEF CurOnce, Levelled, Waits, At
<1>11. SeenOnce'
  <2> SUFFICES ASSUME NEW v \in seen
               PROVE  Done(v[1], v[2])'
    BY <1>1, <1>4 DEF Once, SeenOnce, Done, Waits, At
  <2>1. Done(v[1], v[2]) /\ Level[tree.in[v[2]]] <= Level[v[1]] + cur.depth
    BY DEF Once, SeenOnce
  <2>2. ~(v[1] = cur.from /\ tree.in[v[2]] = d)
    BY <1>2, <1>5, <1>6, <2>1
  <2> QED
    BY <1>7, <2>1, <2>2
<1>12. Counted'
  <2>1. InReach' = InReach
    BY <1>1 DEF InReach, RootSet, Regular, Chain, Path
  <2> QED
    BY <1>1, <2>1 DEF Once, Counted
<1> QED
  BY <1>9, <1>10, <1>11, <1>12 DEF Once

LEMMA LookAtOnce ==
  ASSUME TypeOK, tree \in Tree, Walked, Once, at = "scan",
         NEW f \in File, f \in todo, LookAt(f)
  PROVE  Once'
<1> USE DEF TypeOK
<1>1. /\ UNCHANGED <<tree, limit, queue, cur, holds>> /\ todo' = todo \ {f}
      /\ ~truncated /\ cur \in Stops /\ cur # NoKey /\ tree.in[f] = cur.dir
  BY KeyAssumption DEF LookAt, Walked, CurReached, Entries, Endings
<1>2. cur.depth \in Nat /\ cur.dir \in Dir /\ cur.from \in Dir
  BY <1>1 DEF Stops
<1>3. Level' = Level /\ InReach' = InReach
  BY <1>1 DEF Level, InReach, RootSet, Regular, Chain, Path
<1>4. \A r, n : Done(r, n) => Done(r, n)'
  BY <1>1 DEF Done, Waits, At
<1>5. QueueOnce'
  <2>1. \A i \in 1 .. Len(queue) : queue[i].depth > 0 => Done(queue[i].from, queue[i].dir)'
    <3> TAKE i \in 1 .. Len(queue)
    <3>1. PICK x : x = queue[i]
      OBVIOUS
    <3>2. x.depth > 0 => Done(x.from, x.dir)'
      BY <1>4, <3>1 DEF Once, QueueOnce
    <3> QED
      BY <1>1, <3>1, <3>2 DEF Done, Waits, At
  <2> QED
    BY <1>1, <1>3, <2>1 DEF Once, QueueOnce, Levelled, Done, Waits, At
<1>6. CurOnce'
  BY <1>1, <1>3 DEF Once, CurOnce, Levelled, Waits, At
<1>7. Done(cur.from, f)' /\ ~Done(cur.from, f)
  BY <1>1 DEF Once, CurOnce, Done, Waits, At
<1>8. <<cur.from, f>> \notin seen
  BY <1>7 DEF Once, SeenOnce
<1>9. /\ Cardinality(seen) \in Nat
      /\ Cardinality(seen \cup {<<cur.from, f>>}) = Cardinality(seen) + 1
  BY <1>8, SeenFinite, FS_AddElement
<1>10. limit.lim.files \in Nat /\ scanned = Cardinality(seen) /\ scanned <= limit.lim.files
  BY <1>1, <1>9 DEF Limits, Once, Counted
<1>11. ASSUME seen' = seen PROVE SeenOnce'
  <2> SUFFICES ASSUME NEW v \in seen'
               PROVE  /\ Done(v[1], v[2])' /\ cur' # NoKey
                      /\ Level'[tree'.in[v[2]]] <= Level'[v[1]] + cur'.depth
    BY DEF SeenOnce, Done, Waits, At
  <2>1. /\ Done(v[1], v[2]) /\ cur # NoKey
        /\ Level[tree.in[v[2]]] <= Level[v[1]] + cur.depth
    BY <1>11 DEF Once, SeenOnce
  <2>2. Done(v[1], v[2])'
    BY <1>4, <2>1
  <2> QED
    BY <1>1, <1>3, <2>1, <2>2
<1>12. CASE holds[f].type = "link"
  <2>1. UNCHANGED <<scanned, truncated, seen>>
    BY <1>12 DEF LookAt
  <2>2. Counted'
    BY <1>1, <1>3, <2>1 DEF Once, Counted
  <2> QED
    BY <1>5, <1>6, <1>11, <2>1, <2>2 DEF Once
<1>13. CASE holds[f].type # "link" /\ scanned + 1 > limit.lim.files
  <2>1. seen' = seen /\ truncated' = TRUE /\ scanned' = scanned + 1
    BY <1>13 DEF LookAt
  <2>2. <<cur.from, f>> \in InReach
    BY <1>13, LookAtInReach DEF Walked
  <2>3. Cardinality(seen) = limit.lim.files
    BY <1>9, <1>10, <1>13
  <2>4. Counted'
    BY <1>1, <1>3, <1>8, <1>10, <2>1, <2>2, <2>3 DEF Counted
  <2> QED
    BY <1>5, <1>6, <1>11, <2>1, <2>4 DEF Once
<1>14. CASE holds[f].type # "link" /\ ~(scanned + 1 > limit.lim.files)
  <2>1. /\ seen' = seen \cup {<<cur.from, f>>} /\ UNCHANGED truncated
        /\ scanned' = scanned + 1
    BY <1>14 DEF LookAt
  <2>2. Counted'
    BY <1>1, <1>9, <1>10, <1>14, <2>1 DEF Counted
  <2>3. SeenOnce'
    <3> SUFFICES ASSUME NEW v \in seen'
                 PROVE  /\ Done(v[1], v[2])' /\ cur' # NoKey
                        /\ Level'[tree'.in[v[2]]] <= Level'[v[1]] + cur'.depth
      BY DEF SeenOnce, Done, Waits, At
    <3>1. CASE v \in seen
      <4>1. /\ Done(v[1], v[2])
            /\ Level[tree.in[v[2]]] <= Level[v[1]] + cur.depth
        BY <3>1 DEF Once, SeenOnce
      <4>2. Done(v[1], v[2])'
        BY <1>4, <4>1
      <4> QED
        BY <1>1, <1>3, <4>1, <4>2
    <3>2. CASE v = <<cur.from, f>>
      <4>1. v[1] = cur.from /\ v[2] = f
        BY <3>2
      <4>2. Level[cur.dir] = Level[cur.from] + cur.depth
        BY <1>1 DEF Once, CurOnce, Levelled
      <4>3. Level[cur.dir] \in Nat
        BY <1>2, LevelIs
      <4>4. Level'[tree'.in[f]] <= Level'[cur'.from] + cur'.depth
        BY <1>1, <1>3, <4>2, <4>3
      <4>5. Done(v[1], v[2])'
        BY <1>1, <1>7, <4>1 DEF Done, Waits, At
      <4> QED
        BY <1>1, <4>1, <4>4, <4>5
    <3> QED
      BY <2>1, <3>1, <3>2
  <2> QED
    BY <1>5, <1>6, <2>2, <2>3 DEF Once
<1> QED
  BY <1>12, <1>13, <1>14

LEMMA OnceStays ==
  ASSUME Once, UNCHANGED <<tree, holds, walk>>
  PROVE  Once'
<1>1. UNCHANGED <<tree, holds, limit, queue, cur, todo, scanned, truncated, seen>>
  BY DEF walk
<1>2. Level' = Level /\ InReach' = InReach
  BY <1>1 DEF Level, InReach, RootSet, Regular, Chain, Path
<1> QED
  BY <1>1, <1>2 DEF Once, QueueOnce, CurOnce, SeenOnce, Counted, Levelled, Done, Waits, At

LEMMA OnceStep ==
  ASSUME TypeOK, SearchInv, OnceInv, [Next]_vars PROVE OnceInv'
<1> USE DEF OnceInv
<1>1. CASE at = "scan" /\ Search
  <2>1. Walked /\ Once /\ tree \in Tree
    BY <1>1 DEF SearchInv, Searching
  <2>2. tree' = tree
    BY <1>1 DEF Search, Entry, ReadDir, EnterDir, LookAt, SearchEnds
  <2>3. CASE ReadDir
    BY <2>1, <2>2, <2>3, ReadDirOnce
  <2>4. CASE SearchEnds
    BY <2>1, <2>2, <2>4, OnceStays DEF SearchEnds
  <2>5. CASE Entry
    BY <1>1, <2>1, <2>2, <2>5, EnterDirOnce, LookAtOnce DEF Entry
  <2> QED
    BY <1>1, <2>3, <2>4, <2>5 DEF Search
<1>2. CASE Search /\ at # "scan"
  BY <1>2 DEF Search, Entry, ReadDir, SearchEnds
<1>3. CASE CliRecover \/ ListAll \/ Scan
  <2>1. tree' = tree
    BY <1>3 DEF CliRecover, ListAll, Scan, Start
  <2> QED
    BY <1>3, <2>1, StartOnce DEF CliRecover, ListAll, Scan
<1>4. CASE Answer \/ UNCHANGED vars
  <2>1. UNCHANGED <<tree, holds, walk>> /\ (at' \in Searching => at \in Searching)
    BY <1>4 DEF Answer, vars, Searching
  <2> QED
    BY <2>1, OnceStays
<1>5. CASE ShowMatches \/ FindMatchingKey \/ NoScan \/ LostKey \/ CancelDialog
  BY <1>5 DEF ShowMatches, FindMatchingKey, NoScan, LostKey, CancelDialog, Dialog, Searching
<1>6. CASE Pick \/ ImportBundle
  BY <1>6 DEF Pick, ImportBundle, Store, Searching
<1>7. CASE Rewrite
  BY <1>7 DEF Rewrite, Searching
<1> QED
  BY <1>1, <1>2, <1>3, <1>4, <1>5, <1>6, <1>7 DEF Next

\* A search is cut short exactly when there is more than maxFiles in reach, and
\* scannedFiles then and otherwise is what there was to count (searchLocalKeys):
\* no directory is walked twice from one root.
THEOREM BudgetIsExact == Spec => []BudgetExact
<1>1. Init => OnceInv
  BY DEF Init, OnceInv, Searching
<1>2. TypeOK /\ SearchInv /\ OnceInv /\ [Next]_vars => OnceInv'
  BY OnceStep
<1>3. TypeOK /\ SearchInv /\ OnceInv => BudgetExact
  <2> SUFFICES ASSUME TypeOK, SearchInv, OnceInv, at = "over"
               PROVE  /\ truncated <=> Cardinality(InReach) > limit.lim.files
                      /\ ~truncated => scanned = Cardinality(InReach)
    BY DEF BudgetExact
  <2>1. Walked /\ Counted
    BY DEF SearchInv, OnceInv, Once, Searching
  <2>2. limit.lim.files \in Nat /\ Cardinality(seen) \in Nat /\ Cardinality(InReach) \in Nat
    BY SeenFinite DEF TypeOK, Limits
  <2>3. CASE truncated
    <3>1. seen \in SUBSET InReach /\ seen # InReach
      BY <2>1, <2>3 DEF Walked, SeenInReach, Counted
    <3>2. Cardinality(seen) <= Cardinality(InReach) /\ Cardinality(seen) # Cardinality(InReach)
      BY <3>1, SeenFinite, FS_Subset
    <3> QED
      BY <2>1, <2>2, <2>3, <3>2 DEF Counted
  <2>4. CASE ~truncated
    <3>1. seen = InReach
      BY <2>1, <2>4, AllSeen
    <3> QED
      BY <2>1, <2>2, <2>4, <3>1 DEF Counted
  <2> QED
    BY <2>3, <2>4
<1> QED
  BY <1>1, <1>2, <1>3, Invariant, PTL DEF Spec

=============================================================================
