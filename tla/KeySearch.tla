------------------------------- MODULE KeySearch -------------------------------
(***************************************************************************)
(* The search for the key a .env.up asks for: searchLocalKeys walks the    *)
(* directories below its roots breadth first, to a depth and up to a       *)
(* number of files; up recover prints what it finds, the extension's       *)
(* recovery dialog offers it for import, and the key management panel and  *)
(* up recipients discover list it.                                         *)
(*                                                                         *)
(* Reading one directory and looking at one entry are actions, entries     *)
(* come in any order.  Files change only while the dialog waits for a choice.           *)
(***************************************************************************)
EXTENDS Naturals, Sequences, FiniteSets

CONSTANTS
  Dir,       \* directories
  File,      \* everything else in them
  Top,       \* what contains the topmost directories
  Key,       \* keypairs
  NoKey,     \* no key, or nothing that can be read as one
  Required,  \* the key whose Key-Id is in the header of .env.up
  Tree,      \* where directories and files are
  Content,   \* what the files hold
  Scans,     \* roots, maxDepth and maxFiles of the quick and the deep scans
  Changes    \* how often a file is rewritten while the dialog waits

\* The types of candidates, and files of other names and links.
PrivateTypes == {"identity-private", "key-bundle"}
Candidates   == PrivateTypes \cup {"identity-public", "public-key"}
Types        == Candidates \cup {"other", "link"}

Trees  == [in : [Dir \cup File -> Dir \cup {Top}], skip : SUBSET Dir, shut : SUBSET Dir]
Holds  == [File -> [type : Types, key : Key \cup {NoKey}]]
Limits == [roots : Seq(Dir), depth : Nat, files : Nat]

Stops  == [dir : Dir, depth : Nat, from : Dir]

ASSUME KeyAssumption  == NoKey \notin Key /\ NoKey \notin Stops /\ Required \in Key
ASSUME TreeAssumption ==
  /\ Top \notin Dir /\ Dir \cap File = {}
  /\ Tree \subseteq Trees
  /\ Content \subseteq Holds
ASSUME LimitAssumption == Scans \subseteq Limits /\ Scans # {} /\ Changes \in Nat
\* Links are not followed, so the directories of a disk form a forest; and
\* normalizeRoots drops a root that is given twice.
ASSUME ForestAssumption ==
  /\ IsFiniteSet(Dir) /\ IsFiniteSet(File)
  /\ \A t \in Tree : \E level \in [Dir -> 0 .. Cardinality(Dir)] :
       \A d \in Dir : t.in[d] \in Dir => level[d] = level[t.in[d]] + 1
ASSUME RootsAssumption ==
  \A lim \in Scans : \A i, j \in 1 .. Len(lim.roots) :
    lim.roots[i] = lim.roots[j] => i = j

VARIABLES
  tree,      \* in: the parent; skip: names never entered; shut: not readable
  holds,     \* type and key of every file
  own,       \* the key in the identity directory
  at,        \* where the command or dialog is
  limit,     \* the limits of the current scan, and the key it is for
  queue,     \* directories to be read, with depth (and root, see seen)
  cur,       \* the directory being read
  todo,      \* its entries not looked at yet
  scanned,   \* scannedFiles
  truncated,
  results,
  seen,      \* history: files inspected, with the root they were reached from
  told,      \* the last words of up recover
  changed    \* number of rewritten files

walk == <<limit, queue, cur, todo, scanned, truncated, results, seen>>
vars == <<tree, holds, own, at, walk, told, changed>>

Statuses == {"match", "mismatch", "candidate", "invalid"}
Results  == [file : File, type : Types, status : Statuses]
Places   == {"menu", "scope", "scan", "over", "pick", "resolved", "unresolved",
             "cancelled", "printed"}

TypeOK ==
  /\ tree \in Trees
  /\ holds \in Holds
  /\ own \in Key \cup {NoKey}
  /\ at \in Places
  /\ limit \in [lim : Limits, want : Key \cup {NoKey}, by : {"cli", "dialog", "list"}]
  /\ queue \in Seq(Stops)
  /\ cur \in Stops \cup {NoKey}
  /\ todo \subseteq Dir \cup File /\ (cur = NoKey => todo = {})
  /\ scanned \in Nat
  /\ truncated \in BOOLEAN
  /\ results \subseteq Results
  /\ seen \subseteq Dir \X File
  /\ told \in {"nothing", "none", "publicOnly", "importable"}
  /\ changed \in 0 .. Changes

Init ==
  /\ tree \in Tree
  /\ holds \in Content
  /\ own \in (Key \cup {NoKey}) \ {Required}
  /\ at = "menu"
  /\ limit = [lim |-> CHOOSE lim \in Scans : TRUE, want |-> Required, by |-> "dialog"]
  /\ queue = << >> /\ cur = NoKey /\ todo = {}
  /\ scanned = 0 /\ truncated = FALSE /\ results = {} /\ seen = {}
  /\ told = "nothing"
  /\ changed = 0

-----------------------------------------------------------------------------
(* searchLocalKeys *)

\* The queue starts with the roots at depth 0.
Start(lim, want, by) ==
  /\ limit' = [lim |-> lim, want |-> want, by |-> by]
  /\ queue' = [i \in 1 .. Len(lim.roots) |->
                 [dir |-> lim.roots[i], depth |-> 0, from |-> lim.roots[i]]]
  /\ cur' = NoKey /\ todo' = {}
  /\ scanned' = 0 /\ truncated' = FALSE /\ results' = {} /\ seen' = {}
  /\ at' = "scan"
  /\ UNCHANGED <<tree, holds, own, told, changed>>

Entries(d) == {n \in Dir \cup File : tree.in[n] = d}

\* Mutant: the depth is compared with >=.
ReadDirTooEarly ==
  /\ at = "scan" /\ todo = {} /\ queue # << >>
  /\ queue' = Tail(queue)
  /\ cur' = Head(queue)
  /\ todo' = IF Head(queue).depth >= limit.lim.depth \/ Head(queue).dir \in tree.shut
               THEN {}
               ELSE Entries(Head(queue).dir)
  /\ UNCHANGED <<tree, holds, own, at, limit, scanned, truncated, results, seen, told,
                 changed>>

\* The next directory, unless it is too deep or cannot be read.
ReadDir ==
  /\ at = "scan" /\ todo = {} /\ queue # << >>
  /\ queue' = Tail(queue)
  /\ cur' = Head(queue)
  /\ todo' = IF Head(queue).depth > limit.lim.depth \/ Head(queue).dir \in tree.shut
               THEN {}
               ELSE Entries(Head(queue).dir)
  /\ UNCHANGED <<tree, holds, own, at, limit, scanned, truncated, results, seen, told,
                 changed>>

\* Mutant: sub-directories go to the front of the queue.
EnterDirDepthFirst(d) ==
  /\ todo' = todo \ {d}
  /\ queue' = IF d \in tree.skip THEN queue
              ELSE <<[dir |-> d, depth |-> cur.depth + 1, from |-> cur.from]>> \o queue
  /\ UNCHANGED <<tree, holds, own, at, limit, cur, scanned, truncated, results, seen,
                 told, changed>>

EnterDir(d) ==
  /\ todo' = todo \ {d}
  /\ queue' = IF d \in tree.skip THEN queue
              ELSE Append(queue, [dir |-> d, depth |-> cur.depth + 1, from |-> cur.from])
  /\ UNCHANGED <<tree, holds, own, at, limit, cur, scanned, truncated, results, seen,
                 told, changed>>

\* classifyKeyId
Classify(k) ==
  IF limit.want = NoKey THEN "candidate"
  ELSE IF k = limit.want THEN "match" ELSE "mismatch"

\* inspectCandidate: a bundle counts by the public key it names.
Inspected(f) ==
  [file |-> f, type |-> holds[f].type,
   status |-> IF holds[f].key = NoKey THEN "invalid" ELSE Classify(holds[f].key)]

\* Mutant: the limit counts candidates found so far and stops one early.
LookAtOffByOne(f) ==
  /\ todo' = todo \ {f}
  /\ IF holds[f].type = "link"
       THEN UNCHANGED <<at, scanned, truncated, results, seen>>
       ELSE /\ scanned' = scanned + 1
            /\ IF scanned + 1 >= limit.lim.files
                 THEN /\ truncated' = TRUE /\ at' = "over"
                      /\ UNCHANGED <<results, seen>>
                 ELSE /\ seen' = seen \cup {<<cur.from, f>>}
                      /\ results' = IF holds[f].type \in Candidates
                                      THEN results \cup {Inspected(f)} ELSE results
                      /\ UNCHANGED <<at, truncated>>
  /\ UNCHANGED <<tree, holds, own, limit, queue, cur, told, changed>>

\* A regular file is counted, whatever its name; over the limit the search ends.
LookAt(f) ==
  /\ todo' = todo \ {f}
  /\ IF holds[f].type = "link"
       THEN UNCHANGED <<at, scanned, truncated, results, seen>>
       ELSE /\ scanned' = scanned + 1
            /\ IF scanned + 1 > limit.lim.files
                 THEN /\ truncated' = TRUE /\ at' = "over"
                      /\ UNCHANGED <<results, seen>>
                 ELSE /\ seen' = seen \cup {<<cur.from, f>>}
                      /\ results' = IF holds[f].type \in Candidates
                                      THEN results \cup {Inspected(f)} ELSE results
                      /\ UNCHANGED <<at, truncated>>
  /\ UNCHANGED <<tree, holds, own, limit, queue, cur, told, changed>>

Entry == \/ \E d \in Dir : at = "scan" /\ d \in todo /\ EnterDir(d)
         \/ \E f \in File : at = "scan" /\ f \in todo /\ LookAt(f)

SearchEnds ==
  /\ at = "scan" /\ todo = {} /\ queue = << >>
  /\ at' = "over"
  /\ UNCHANGED <<tree, holds, own, walk, told, changed>>

-----------------------------------------------------------------------------
(* up recover, and the lists *)

CliRecover   == at = "menu" /\ \E lim \in Scans : Start(lim, Required, "cli")
ListAll      == at = "menu" /\ \E lim \in Scans : Start(lim, NoKey, "list")

Matches == {r \in results : r.status = "match"}

\* Mutant: bundles are forgotten among the importable types.
AnswerNoBundles ==
  /\ at = "over" /\ limit.by # "dialog"
  /\ at' = "printed"
  /\ told' = IF limit.by = "list" THEN told
             ELSE IF Matches = {} THEN "none"
             ELSE IF \E r \in Matches : r.type = "identity-private" THEN "importable"
             ELSE "publicOnly"
  /\ UNCHANGED <<tree, holds, own, walk, changed>>

Answer ==
  /\ at = "over" /\ limit.by # "dialog"
  /\ at' = "printed"
  /\ told' = IF limit.by = "list" THEN told
             ELSE IF Matches = {} THEN "none"
             ELSE IF \E r \in Matches : r.type \in PrivateTypes THEN "importable"
             ELSE "publicOnly"
  /\ UNCHANGED <<tree, holds, own, walk, changed>>

-----------------------------------------------------------------------------
(* The extension's recovery dialog *)

Dialog(place, next) ==
  /\ at = place /\ at' = next
  /\ UNCHANGED <<tree, holds, own, walk, told, changed>>

FindMatchingKey == Dialog("menu", "scope")
NoScan          == Dialog("scope", "menu")
LostKey         == Dialog("menu", "unresolved")
CancelDialog    == Dialog("menu", "cancelled")
Scan            == at = "scope" /\ \E lim \in Scans : Start(lim, Required, "dialog")

\* Nothing found: a warning, and the menu again.
ShowMatches ==
  /\ at = "over" /\ limit.by = "dialog"
  /\ at' = IF Matches = {} THEN "menu" ELSE "pick"
  /\ UNCHANGED <<tree, holds, own, walk, told, changed>>

\* Mutant: what has been picked as a match is believed to be one.
StoreBelieved(f) ==
  /\ holds[f].key # NoKey
  /\ own' = holds[f].key
  /\ at' = "resolved"
  /\ UNCHANGED <<tree, holds, walk, told, changed>>

\* The file is read again and replaces the identity, then its Key-Id is compared.
Store(f) ==
  /\ holds[f].key # NoKey
  /\ own' = holds[f].key
  /\ at' = IF holds[f].key = Required THEN "resolved" ELSE "menu"
  /\ UNCHANGED <<tree, holds, walk, told, changed>>

\* A match is picked and imported; a public key, a wrong passphrase, a file that
\* is no key any more and Escape lead back to the menu.
Pick ==
  /\ at = "pick"
  /\ \/ \E r \in Matches : r.type \in PrivateTypes /\ Store(r.file)
     \/ at' = "menu" /\ UNCHANGED <<tree, holds, own, walk, told, changed>>

\* "Import key bundle": any file of that kind, wherever it is.
ImportBundle ==
  /\ at = "menu"
  /\ \E f \in File : holds[f].type = "key-bundle" /\ Store(f)

\* Somebody else writes another key into a file while the dialog waits.
Rewrite ==
  /\ at = "pick"
  /\ changed < Changes
  /\ changed' = changed + 1
  /\ \E f \in File, k \in Key \cup {NoKey} : holds' = [holds EXCEPT ![f].key = k]
  /\ UNCHANGED <<tree, own, at, walk, told>>

Search == ReadDir \/ Entry \/ SearchEnds

Next ==
  \/ Search
  \/ CliRecover \/ ListAll \/ Answer
  \/ FindMatchingKey \/ NoScan \/ LostKey \/ CancelDialog \/ Scan \/ ShowMatches
  \/ Pick \/ ImportBundle \/ Rewrite

Spec == Init /\ [][Next]_vars

-----------------------------------------------------------------------------
(* What is in reach *)

RootSet == {limit.lim.roots[i] : i \in 1 .. Len(limit.lim.roots)}

\* c is a chain of readable directories that leads from root r down k levels, to d.
Path(c, r, k) ==
  /\ c[0] = r
  /\ \A i \in 0 .. k : c[i] \notin tree.shut
  /\ \A i \in 1 .. k : tree.in[c[i]] = c[i - 1] /\ c[i] \notin tree.skip
Chain(r, d, k) == \E c \in [0 .. k -> Dir] : Path(c, r, k) /\ c[k] = d

Regular == {f \in File : holds[f].type # "link" /\ tree.in[f] \in Dir}

\* Every root with the regular files that its depth includes.
InReach == {v \in RootSet \X Regular :
              \E k \in 0 .. limit.lim.depth : Chain(v[1], tree.in[v[2]], k)}

-----------------------------------------------------------------------------
(* Properties *)

\* A search that is not truncated reports exactly the candidates in reach
\* (searchLocalKeys): none is missed behind another root, none is invented.
FindsAll ==
  at = "over" /\ ~truncated =>
    results = {Inspected(v[2]) : v \in {w \in InReach : holds[w[2]].type \in Candidates}}

\* A truncated search has left out nothing that is nearer to a root than where
\* it stopped: the breadth-first order spends the limit on the upper levels.
ShallowFirst ==
  at = "over" /\ truncated =>
    \A r \in RootSet, k \in 0 .. limit.lim.depth :
      k < cur.depth =>
        \A f \in Regular : Chain(r, tree.in[f], k) => <<r, f>> \in seen

\* The search is truncated only if there is more than maxFiles to see, a file
\* below two roots counting twice, and scannedFiles is what was seen.
BudgetExact ==
  at = "over" =>
    /\ truncated <=> Cardinality(InReach) > limit.lim.files
    /\ ~truncated => scanned = Cardinality(InReach)

\* up recover says that there is no matching key, or none but public ones, only if
\* that is so within reach or it says that the search was cut short.
VerdictTrue ==
  at = "printed" /\ ~truncated =>
    /\ told = "none" => \A v \in InReach : holds[v[2]].type \in Candidates
                                             => holds[v[2]].key # Required
    /\ told = "publicOnly" => \A v \in InReach : holds[v[2]].type \in PrivateTypes
                                                   => holds[v[2]].key # Required

\* Whoever is told "resolved" and tries again has the key .env.up asks for.
ResolvedOpens == at = "resolved" => own = Required

=============================================================================
