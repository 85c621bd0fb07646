--------------------------- MODULE EnvSetProofs ---------------------------
(***************************************************************************)
(* What Import All, protect and Lock lose, for any files, any number of    *)
(* commands and any number of edits: nothing, unless a file is saved while *)
(* a command has another content of it in hand; and of .env not even then, *)
(* unless two commands have it in hand at once or it is saved where the    *)
(* one that deletes it does not look any more.                             *)
(***************************************************************************)
EXTENDS EnvSet, TLAPS

-----------------------------------------------------------------------------
(* The inductive invariant *)

Keys == {"bufferKey", "lockKey", "anewKey"}

Holds(c, f) == c.cur = f \/ c.src = f \/ f \in c.done

TextIn(c, f) ==
  c.cur = f /\ c.at \in {"bufferKey", "bufferCheck", "close"} /\ c.got # c.read

\* A content of f that is encrypted somewhere.
Kept(f, c) == c = up[f] \/ c \in bak[f]

Stored(f) == latest[f] \in Version /\ Kept(f, latest[f])

Numbered == \A f \in File : plain[f] # NoFile => plain[f] = latest[f]

\* Where a command stands and what it has in hand there.
Shape(c) ==
  /\ c.at \in {"idle", "import", "ask"} => c.cur = NoFile
  /\ c.op = "none" => c.at = "idle"
  /\ c.at = "ask" => c.op = "importAll"
  /\ c.at \notin Keys \cup Checks => c.src = NoFile
  /\ c.at \in {"importKey", "confirm", "source", "lockKey", "lockCheck"} => c.read \in Version
  /\ c.at \notin {"idle", "import", "ask", "next"} => c.cur \in File
  /\ c.at \in Keys \cup Checks => c.src \in File /\ c.got \in Version
  /\ c.at \in {"bufferKey", "bufferCheck"} => c.src = c.cur
  /\ c.at = "close" => c.got \in Version \/ c.got = c.read
  /\ c.op = "importAll" /\ c.at \notin {"import", "importKey", "importCheck"} =>
       c.todo \subseteq c.done /\ c.cur \in c.done \cup {NoFile}
  /\ c.op # "importAll" => c.done = {}
  /\ c.op = "lock" => /\ c.at \notin {"import", "importKey", "importCheck", "ask"}
                      /\ c.cur \in {Dot, NoFile} /\ c.todo \subseteq {Dot}
  /\ c.op = "protect" /\ c.at = "next" => c.cur # NoFile

Shaped == \A p \in Flow : Shape(flow[p])

\* What the command c knows of a file that nobody saved at the wrong moment.
CalmIn(c, f) ==
  /\ c.cur = f /\ c.at = "importKey" => c.read = latest[f]
  /\ c.cur = f /\ c.at = "importCheck" => Stored(f)
  /\ c.src = f /\ ~ TextIn(c, f) => c.got = latest[f]
  /\ f \in c.done => Stored(f)
  /\ c.op = "protect" /\ c.cur = f /\ c.at # "importKey" => Stored(f)
  /\ c.op = "lock" /\ c.cur = f /\ c.at \in {"lockKey", "anewKey"} => c.src = f \/ plain[f] = NoFile
  /\ c.cur = f /\ c.at \in Checks \cup {"close"} /\ ~ TextIn(c, f) /\ latest[f] \in Version => Stored(f)
  /\ TextIn(c, f) => plain[f] = c.read
  /\ TextIn(c, f) /\ c.at = "bufferKey" /\ Stored(f) => latest[f] \in bak[f]
  /\ TextIn(c, f) /\ c.at # "bufferKey" => Kept(f, c.got)

Calm(f) ==
  /\ latest[f] \in Version => plain[f] = latest[f] \/ Stored(f)
  /\ \A p \in Flow : CalmIn(flow[p], f)
  /\ \A p, q \in Flow : TextIn(flow[p], f) /\ Holds(flow[q], f) => p = q

\* What the command c knows of .env while nobody else has it in hand, and whoever saves it
\* saves it where c still looks.
AloneIn(c) ==
  /\ c.cur = Dot /\ c.at = "importKey" => plain[Dot] # NoFile
  /\ c.src = Dot /\ c.at \in {"lockKey", "anewKey"} => plain[Dot] # NoFile
  /\ c.cur = Dot /\ c.at \in {"lockKey", "lockCheck"} /\ plain[Dot] = c.read =>
       c.src = Dot /\ c.got = c.read
  /\ c.cur = Dot /\ c.at = "lockCheck" /\ c.src = Dot => Kept(Dot, c.got)
  /\ c.cur = Dot /\ c.at = "bufferKey" =>
       plain[Dot] = c.read /\ (Stored(Dot) => latest[Dot] \in bak[Dot])
  /\ TextIn(c, Dot) /\ c.at # "bufferKey" => plain[Dot] = c.read /\ Kept(Dot, c.got)
  /\ /\ c.cur = Dot /\ c.at \in {"bufferCheck", "anewCheck", "close"} /\ ~ TextIn(c, Dot)
     /\ plain[Dot] \in Version
     => Kept(Dot, plain[Dot])
  /\ c.cur = Dot /\ c.at = "anewKey" /\ plain[Dot] \in Version => c.src = Dot /\ c.got = plain[Dot]

Alone ==
  /\ latest[Dot] \in Version => plain[Dot] = latest[Dot] \/ Stored(Dot)
  /\ \A p \in Flow : AloneIn(flow[p])
  /\ \A p, q \in Flow : Holds(flow[p], Dot) /\ Holds(flow[q], Dot) => p = q

SetInv ==
  /\ TypeOK
  /\ Numbered
  /\ Shaped
  /\ \A f \in File : f \notin late => Calm(f)
  /\ ~ crossed => Alone

-----------------------------------------------------------------------------
(* Steps that only move a command on *)

LEMMA InvInit == Init => SetInv
<1> SUFFICES ASSUME Init PROVE SetInv
  OBVIOUS
<1> USE FileAssumption, BoundAssumption, ContentAssumption DEF Version
<1>0. Idle \in Command
  BY DEF Content, Name, Idle, Command
<1>1. TypeOK
  <2>1. 1 \in Version /\ 1 \in Content /\ NoFile \in Content /\ Blank \in Content
    BY DEF Content
  <2>2. latest \in [File -> Content] /\ plain \in [File -> Content]
    BY <2>1 DEF Init
  <2>3. up \in [File -> Version \cup {NoFile, Foreign}] /\ buf \in [File -> Version \cup {NoFile}]
    BY <2>1 DEF Init
  <2>4. last \in 0 .. MaxVersion
    BY DEF Init
  <2> QED
    BY <1>0, <2>2, <2>3, <2>4 DEF Init, TypeOK
<1>2. \A p \in Flow : flow[p] = Idle
  BY DEF Init
<1>3. Numbered /\ Shaped
  BY DEF Init, Numbered, Shaped, Shape, Idle, Keys, Checks
<1>4. \A f \in File : CalmIn(Idle, f) /\ ~ Holds(Idle, f)
  BY DEF CalmIn, Holds, TextIn, Idle, Checks
<1>5. AloneIn(Idle)
  BY DEF AloneIn, TextIn, Idle
<1>6. \A f \in File : latest[f] \in Version => plain[f] = latest[f] \/ Stored(f)
  BY DEF Init, Stored, Kept
<1> QED
  BY <1>1, <1>2, <1>3, <1>4, <1>5, <1>6 DEF SetInv, Calm, Alone

LEMMA Moved ==
  ASSUME TypeOK, NEW p \in Flow, NEW c \in Command, GoOn(p, c)
  PROVE  /\ flow' \in [Flow -> Command]
         /\ flow'[p] = c
         /\ \A q \in Flow : q # p => flow'[q] = flow[q]
BY DEF TypeOK, GoOn

\* What more backups do to what the commands know: nothing.
LEMMA MoreBackups ==
  ASSUME NEW f \in File, UNCHANGED <<plain, up, latest>>, bak[f] \subseteq bak'[f]
  PROVE  /\ Stored(f) => Stored(f)'
         /\ \A c : Kept(f, c) => Kept(f, c)'
         /\ (Stored(f) => latest[f] \in bak[f]) => (Stored(f)' => latest'[f] \in bak'[f])
BY DEF Stored, Kept

\* p goes on as c, and nothing but backups and histories changes.
LEMMA MoveStep ==
  ASSUME SetInv, NEW p \in Flow, NEW c \in Command, GoOn(p, c), Shape(c), Same,
         bak' \in [File -> SUBSET Version], \A f \in File : bak[f] \subseteq bak'[f],
         late \subseteq late', late' \subseteq File, crossed' \in BOOLEAN, crossed => crossed',
         \A f \in File : f \notin late' /\ Calm(f) =>
           /\ CalmIn(c, f)'
           /\ Holds(c, f) => \A q \in Flow \ {p} : ~ TextIn(flow[q], f)
           /\ TextIn(c, f) => \A q \in Flow \ {p} : ~ Holds(flow[q], f),
         ~ crossed' /\ Alone =>
           /\ AloneIn(c)'
           /\ Holds(c, Dot) => \A q \in Flow \ {p} : ~ Holds(flow[q], Dot)
  PROVE  SetInv'
<1> USE FileAssumption DEF SetInv, Same
<1>1. /\ flow' \in [Flow -> Command] /\ flow'[p] = c
      /\ \A q \in Flow : q # p => flow'[q] = flow[q]
  BY Moved
<1>2. TypeOK'
  BY <1>1 DEF TypeOK
<1>3. Numbered' /\ Shaped'
  BY <1>1 DEF Numbered, Shaped
<1>4. ASSUME NEW f \in File, f \notin late' PROVE Calm(f)'
  <2>1. Calm(f)
    BY <1>4
  <2>2. /\ Stored(f) => Stored(f)'
        /\ \A d : Kept(f, d) => Kept(f, d)'
        /\ (Stored(f) => latest[f] \in bak[f]) => (Stored(f)' => latest'[f] \in bak'[f])
    BY MoreBackups
  <2>3. ASSUME NEW q \in Flow, q # p PROVE CalmIn(flow[q], f)'
    <3>1. CalmIn(flow[q], f) /\ flow'[q] = flow[q]
      BY <1>1, <2>1, <2>3 DEF Calm
    <3> QED
      BY <2>2, <3>1 DEF CalmIn, TextIn
  <2>4. CalmIn(flow[p], f)'
    BY <1>1, <1>4, <2>1
  <2>5. ASSUME NEW q \in Flow, NEW r \in Flow, TextIn(flow'[q], f), Holds(flow'[r], f) PROVE q = r
    BY <1>1, <1>4, <2>1, <2>5 DEF Calm
  <2>6. latest'[f] \in Version => plain'[f] = latest'[f] \/ Stored(f)'
    BY <2>1, <2>2 DEF Calm
  <2> QED
    BY <2>3, <2>4, <2>5, <2>6 DEF Calm
<1>5. ASSUME ~ crossed' PROVE Alone'
  <2>1. Alone
    BY <1>5
  <2>2. /\ Stored(Dot) => Stored(Dot)'
        /\ \A d : Kept(Dot, d) => Kept(Dot, d)'
        /\ (Stored(Dot) => latest[Dot] \in bak[Dot]) => (Stored(Dot)' => latest'[Dot] \in bak'[Dot])
    BY MoreBackups
  <2>3. ASSUME NEW q \in Flow, q # p PROVE AloneIn(flow[q])'
    <3>1. AloneIn(flow[q]) /\ flow'[q] = flow[q]
      BY <1>1, <2>1, <2>3 DEF Alone
    <3> QED
      BY <2>2, <3>1 DEF AloneIn, TextIn
  <2>4. AloneIn(flow[p])'
    BY <1>1, <1>5, <2>1
  <2>5. ASSUME NEW q \in Flow, NEW r \in Flow, Holds(flow'[q], Dot), Holds(flow'[r], Dot) PROVE q = r
    BY <1>1, <1>5, <2>1, <2>5 DEF Alone
  <2>6. latest'[Dot] \in Version => plain'[Dot] = latest'[Dot] \/ Stored(Dot)'
    BY <2>1, <2>2 DEF Alone
  <2> QED
    BY <2>3, <2>4, <2>5, <2>6 DEF Alone
<1> QED
  BY <1>2, <1>3, <1>4, <1>5

\* Waits in which a command knows nothing but what it has imported.
Quiet == {"idle", "import", "ask", "next", "buffer", "reencrypt", "confirm", "source"}

\* A command that goes on with no more in hand than before disturbs nothing.
LEMMA QuietStep ==
  ASSUME SetInv, NEW p \in Flow, NEW c \in Command, GoOn(p, c), Same,
         bak' \in [File -> SUBSET Version], \A f \in File : bak[f] \subseteq bak'[f],
         late \subseteq late', late' \subseteq File, crossed' \in BOOLEAN, crossed => crossed',
         Shape(c), c.at \in Quiet,
         \/ c.done \subseteq flow[p].done
         \/ flow[p].at = "importCheck" /\ c.done = flow[p].done \cup {flow[p].cur},
         \/ c.cur = NoFile
         \/ c.cur = flow[p].cur /\ c.op = flow[p].op /\ flow[p].at # "importKey"
  PROVE  SetInv'
<1> USE FileAssumption
<1>1. flow[p] \in Command /\ c.src = NoFile /\ \A f \in File : ~ TextIn(c, f) /\ c.src # f
  BY DEF SetInv, TypeOK, Shape, Quiet, Keys, Checks, TextIn
<1>2. \A f \in File : Holds(c, f) => Holds(flow[p], f)
  BY <1>1 DEF Holds
<1>3. ASSUME NEW f \in File, f \notin late', Calm(f)
      PROVE  /\ CalmIn(c, f)'
             /\ Holds(c, f) => \A q \in Flow \ {p} : ~ TextIn(flow[q], f)
  <2>1. CalmIn(flow[p], f)
    BY <1>3 DEF Calm
  <2>2. Stored(f) => Stored(f)'
    BY MoreBackups DEF Same
  <2>3. f \in c.done => Stored(f)
    BY <2>1 DEF CalmIn
  <2>4. c.op = "protect" /\ c.cur = f => Stored(f)
    BY <2>1 DEF CalmIn
  <2>5. CalmIn(c, f)'
    BY <1>1, <2>2, <2>3, <2>4 DEF CalmIn, Quiet, Checks
  <2> QED
    BY <1>2, <1>3, <2>5 DEF Calm
<1>4. ASSUME Alone
      PROVE  /\ AloneIn(c)'
             /\ Holds(c, Dot) => \A q \in Flow \ {p} : ~ Holds(flow[q], Dot)
  <2>1. AloneIn(c)'
    BY <1>1 DEF AloneIn, Quiet
  <2> QED
    BY <1>2, <1>4, <2>1 DEF Alone
<1> QED
  BY <1>1, <1>3, <1>4, MoveStep

\* The common case: no backup, nothing taken up.
LEMMA EasyStep ==
  ASSUME SetInv, NEW p \in Flow, NEW c \in Command, GoOn(p, c), FilesKept,
         Shape(c), c.at \in Quiet,
         \/ c.done \subseteq flow[p].done
         \/ flow[p].at = "importCheck" /\ c.done = flow[p].done \cup {flow[p].cur},
         \/ c.cur = NoFile
         \/ c.cur = flow[p].cur /\ c.op = flow[p].op /\ flow[p].at # "importKey"
  PROVE  SetInv'
<1>1. /\ Same /\ bak' \in [File -> SUBSET Version] /\ \A f \in File : bak[f] \subseteq bak'[f]
      /\ late \subseteq late' /\ late' \subseteq File /\ crossed' \in BOOLEAN /\ (crossed => crossed')
  BY DEF FilesKept, Marked, SetInv, TypeOK
<1> QED
  BY <1>1, QuietStep

LEMMA IdleShape == Idle \in Command /\ Shape(Idle) /\ Idle.at \in Quiet /\ Idle.cur = NoFile
                   /\ Idle.src = NoFile /\ Idle.done = {}
BY FileAssumption, ContentAssumption DEF Idle, Command, Shape, Content, Name, Keys, Checks, Quiet

LEMMA EndStep ==
  ASSUME SetInv, NEW p \in Flow, End(p), FilesKept PROVE SetInv'
BY IdleShape, EasyStep DEF End

LEMMA StartStep ==
  ASSUME SetInv, NEW p \in Flow, NEW op \in Ops, Start(p, op) PROVE SetInv'
<1>1. Files \subseteq File /\ {Dot} \subseteq File
  BY FileAssumption DEF Files
<1>2. PICK list \in {{Dot}, Files} :
        /\ op = "lock" => list = {Dot}
        /\ GoOn(p, [Idle EXCEPT !.op = op, !.at = IF op = "lock" THEN "next" ELSE "import", !.todo = list])
  BY DEF Start
<1> DEFINE at == IF op = "lock" THEN "next" ELSE "import"
           c  == [Idle EXCEPT !.op = op, !.at = at, !.todo = list]
<1>3. list \subseteq File
  BY <1>1
<1>4. at \in {"next", "import"} /\ (op = "lock" <=> at = "next")
  OBVIOUS
<1> HIDE DEF at
<1>5. /\ c \in Command /\ c.at = at /\ c.cur = NoFile /\ c.src = NoFile /\ c.done = {} /\ c.op = op
      /\ c.todo = list
  BY <1>3, <1>4, FileAssumption, ContentAssumption DEF Idle, Command, Content, Name, Ops, Waits
<1> HIDE DEF c
<1>6. Shape(c)
  BY <1>2, <1>4, <1>5 DEF Shape, Ops, Keys, Checks
<1>7. c.at \in Quiet
  BY <1>4, <1>5 DEF Quiet
<1>8. GoOn(p, c)
  BY <1>2 DEF c, at
<1>9. FilesKept
  BY DEF Start
<1>10. c.done \subseteq flow[p].done /\ c.cur = NoFile
  BY <1>5
<1> QED
  BY <1>5, <1>6, <1>7, <1>8, <1>9, <1>10, EasyStep

\* An import ends, with the file among those imported or not.
LEMMA ImportOnStep ==
  ASSUME SetInv, NEW p \in Flow, flow[p].at \in {"importKey", "importCheck"},
         NEW done, ImportOn(p, done), FilesKept,
         \/ done = flow[p].done
         \/ /\ flow[p].at = "importCheck" /\ flow[p].op = "importAll"
            /\ done = flow[p].done \cup {flow[p].cur}
  PROVE  SetInv'
<1> DEFINE c == [flow[p] EXCEPT !.at = "import", !.todo = @ \ {flow[p].cur}, !.done = done,
                                !.cur = NoFile, !.read = NoFile]
<1>1. flow[p] \in Command /\ Shape(flow[p]) /\ flow[p].cur \in File /\ flow[p].src = NoFile
  BY DEF SetInv, TypeOK, Shaped, Shape, Keys, Checks
<1>2. done \in SUBSET File
  BY <1>1 DEF Command
<1>3. /\ c \in Command /\ c.at = "import" /\ c.cur = NoFile /\ c.src = NoFile /\ c.done = done
      /\ c.op = flow[p].op
  BY <1>1, <1>2 DEF Command, Content, Name, Waits
<1> HIDE DEF c
<1>4. Shape(c) /\ c.at \in Quiet
  BY <1>1, <1>3 DEF Shape, Keys, Checks, Quiet
<1>5. GoOn(p, c)
  BY DEF ImportOn, c
<1> QED
  BY <1>3, <1>4, <1>5, EasyStep

LEMMA ImportRefusedStep ==
  ASSUME SetInv, NEW p \in Flow, ImportRefused(p) PROVE SetInv'
BY ImportOnStep DEF ImportRefused

LEMMA AskLockStep ==
  ASSUME SetInv, NEW p \in Flow, AskLock(p) PROVE SetInv'
<1>1. CASE End(p)
  BY <1>1, EndStep DEF AskLock
<1>2. CASE flow[p].op = "importAll" /\ GoOn(p, [flow[p] EXCEPT !.at = "ask"])
  <2> DEFINE c == [flow[p] EXCEPT !.at = "ask"]
  <2>1. flow[p] \in Command /\ Shape(flow[p])
    BY DEF SetInv, TypeOK, Shaped
  <2>2. /\ c \in Command /\ c.at = "ask" /\ c.cur = NoFile /\ c.src = NoFile /\ c.done = flow[p].done
        /\ c.op = "importAll" /\ c.todo = {}
    BY <2>1, <1>2 DEF AskLock, Command, Shape, Waits, Keys, Checks
  <2> HIDE DEF c
  <2>3. Shape(c) /\ c.at \in Quiet
    BY <2>2 DEF Shape, Keys, Checks, Quiet
  <2> QED
    BY <1>2, <2>2, <2>3, EasyStep DEF AskLock, c
<1> QED
  BY <1>1, <1>2 DEF AskLock

LEMMA AnswerLockStep ==
  ASSUME SetInv, NEW p \in Flow, AnswerLock(p) PROVE SetInv'
<1>1. CASE End(p)
  BY <1>1, EndStep DEF AnswerLock
<1>2. CASE GoOn(p, [flow[p] EXCEPT !.at = "next", !.todo = flow[p].done])
  <2> DEFINE c == [flow[p] EXCEPT !.at = "next", !.todo = flow[p].done]
  <2>1. flow[p] \in Command /\ Shape(flow[p]) /\ flow[p].at = "ask"
    BY DEF SetInv, TypeOK, Shaped, AnswerLock
  <2>2. /\ c \in Command /\ c.at = "next" /\ c.cur = NoFile /\ c.src = NoFile /\ c.done = flow[p].done
        /\ c.op = "importAll" /\ c.todo = c.done
    BY <2>1 DEF Command, Shape, Waits, Keys, Checks
  <2> HIDE DEF c
  <2>3. Shape(c) /\ c.at \in Quiet
    BY <2>2 DEF Shape, Keys, Checks, Quiet
  <2> QED
    BY <1>2, <2>2, <2>3, EasyStep DEF AnswerLock, c
<1> QED
  BY <1>1, <1>2 DEF AnswerLock

LEMMA LockSkipsStep ==
  ASSUME SetInv, NEW p \in Flow, LockSkips(p) PROVE SetInv'
<1> DEFINE at == IF flow[p].op = "protect" THEN "import" ELSE "next"
<1>1. PICK f \in File : GoOn(p, [flow[p] EXCEPT !.at = at, !.todo = @ \ {f}, !.cur = NoFile])
  BY DEF LockSkips
<1> DEFINE c == [flow[p] EXCEPT !.at = at, !.todo = @ \ {f}, !.cur = NoFile]
<1>2. flow[p] \in Command /\ Shape(flow[p]) /\ flow[p].at = "next"
  BY DEF SetInv, TypeOK, Shaped, LockSkips, Locking
<1>3. at \in {"import", "next"} /\ (flow[p].op = "protect" <=> at = "import")
  OBVIOUS
<1> HIDE DEF at
<1>4. /\ c \in Command /\ c.cur = NoFile /\ c.src = NoFile /\ c.done = flow[p].done
      /\ c.op = flow[p].op /\ c.todo \subseteq flow[p].todo /\ c.at = at
  BY <1>2, <1>3 DEF Command, Shape, Waits, Name, Keys, Checks
<1> HIDE DEF c
<1>5. Shape(c) /\ c.at \in Quiet
  BY <1>2, <1>3, <1>4 DEF Shape, Keys, Checks, Quiet
<1> QED
  BY <1>1, <1>4, <1>5, EasyStep DEF LockSkips, c

LEMMA LockEndsStep ==
  ASSUME SetInv, NEW p \in Flow, LockEnds(p) PROVE SetInv'
BY EndStep DEF LockEnds

\* The command that LockOn leaves behind.
Freed(p) ==
  [flow[p] EXCEPT !.at = IF flow[p].op = "protect" THEN "import" ELSE "next",
                  !.cur = NoFile, !.src = NoFile, !.read = NoFile, !.got = NoFile]

LEMMA FreedShape ==
  ASSUME SetInv, NEW p \in Flow,
         flow[p].at \in {"buffer", "reencrypt", "confirm", "source", "close"} \cup Keys \cup Checks
  PROVE  /\ Freed(p) \in Command /\ Shape(Freed(p)) /\ Freed(p).at \in {"import", "next"}
         /\ Freed(p).cur = NoFile /\ Freed(p).src = NoFile /\ Freed(p).done = flow[p].done
         /\ LockOn(p) <=> GoOn(p, Freed(p))
<1>1. flow[p] \in Command /\ Shape(flow[p]) /\ flow[p].op # "none"
  BY DEF SetInv, TypeOK, Shaped, Shape, Keys, Checks
<1> DEFINE at == IF flow[p].op = "protect" THEN "import" ELSE "next"
           c  == [flow[p] EXCEPT !.at = at, !.cur = NoFile, !.src = NoFile, !.read = NoFile, !.got = NoFile]
<1>2. at \in {"import", "next"} /\ (flow[p].op = "protect" <=> at = "import")
  OBVIOUS
<1>3. c = Freed(p) /\ (LockOn(p) <=> GoOn(p, Freed(p)))
  BY DEF Freed, LockOn
<1> HIDE DEF at
<1>4. /\ c \in Command /\ c.cur = NoFile /\ c.src = NoFile /\ c.read = NoFile
      /\ c.done = flow[p].done /\ c.op = flow[p].op /\ c.todo = flow[p].todo /\ c.at = at
  BY <1>1, <1>2 DEF Command, Waits, Name, Content
<1> HIDE DEF c
<1>5. Shape(c)
  BY <1>1, <1>2, <1>4 DEF Shape, Keys, Checks
<1> QED
  BY <1>2, <1>3, <1>4, <1>5

LEMMA LockOnStep ==
  ASSUME SetInv, NEW p \in Flow, LockOn(p), Same,
         flow[p].at \in {"buffer", "reencrypt", "confirm", "source", "close"} \cup Keys \cup Checks,
         bak' \in [File -> SUBSET Version], \A f \in File : bak[f] \subseteq bak'[f],
         late \subseteq late', late' \subseteq File, crossed' \in BOOLEAN, crossed => crossed'
  PROVE  SetInv'
<1>1. /\ Freed(p) \in Command /\ Shape(Freed(p)) /\ Freed(p).at \in Quiet /\ GoOn(p, Freed(p))
      /\ Freed(p).cur = NoFile /\ Freed(p).src = NoFile /\ Freed(p).done \subseteq flow[p].done
  BY FreedShape DEF Quiet
<1> QED
  BY <1>1, QuietStep

LEMMA BackUpFacts ==
  ASSUME SetInv, NEW p \in Flow, BackUp(p) \/ UNCHANGED bak
  PROVE  bak' \in [File -> SUBSET Version] /\ \A f \in File : bak[f] \subseteq bak'[f]
BY DEF BackUp, SetInv, TypeOK

LEMMA LockStopsStep ==
  ASSUME SetInv, NEW p \in Flow, LockStops(p) PROVE SetInv'
<1>1. bak' \in [File -> SUBSET Version] /\ \A f \in File : bak[f] \subseteq bak'[f]
  BY BackUpFacts DEF LockStops
<1>2. late' = late /\ crossed' = crossed /\ late \subseteq File /\ crossed \in BOOLEAN
  BY DEF LockStops, Marked, SetInv, TypeOK
<1>3. /\ flow[p].at \in {"buffer", "reencrypt", "confirm", "source", "close"} \cup Keys \cup Checks
      /\ LockOn(p) /\ Same
  BY DEF LockStops, Keys
<1> QED
  BY <1>1, <1>2, <1>3, LockOnStep

LEMMA ConfirmStep ==
  ASSUME SetInv, NEW p \in Flow, Confirm(p) PROVE SetInv'
<1> DEFINE c == [flow[p] EXCEPT !.at = "source"]
<1>1. flow[p] \in Command /\ Shape(flow[p]) /\ flow[p].at = "confirm"
  BY DEF SetInv, TypeOK, Shaped, Confirm
<1>2. /\ c \in Command /\ c.at = "source" /\ c.cur = flow[p].cur /\ c.read = flow[p].read
      /\ c.src = NoFile /\ c.done = flow[p].done /\ c.op = flow[p].op /\ c.todo = flow[p].todo
  BY <1>1 DEF Command, Waits, Shape, Keys, Checks
<1> HIDE DEF c
<1>3. Shape(c) /\ c.at \in Quiet
  BY <1>1, <1>2 DEF Shape, Keys, Checks, Quiet
<1> QED
  BY <1>1, <1>2, <1>3, EasyStep DEF Confirm, c

-----------------------------------------------------------------------------
(* Steps that take a file up *)

\* p takes f up: unless it is late, no text of it is in Lock's hand, and unless it is crossed,
\* nobody else has it in hand.
LEMMA TakesFacts ==
  ASSUME SetInv, NEW p \in Flow, NEW f \in File, Takes(p, f)
  PROVE  /\ late \subseteq late' /\ late' \subseteq File
         /\ crossed' \in BOOLEAN /\ (crossed => crossed')
         /\ f \notin late' => \A q \in Flow \ {p} : ~ TextIn(flow[q], f)
         /\ ~ crossed' /\ f = Dot => \A q \in Flow \ {p} : ~ Holds(flow[q], Dot)
<1>1. late \subseteq File /\ crossed \in BOOLEAN
  BY DEF SetInv, TypeOK
<1>2. crossed' = (crossed \/ (f = Dot /\ InHand(f, Flow \ {p})))
  BY DEF Takes
<1>3. InHand(f, Flow \ {p}) <=> \E q \in Flow \ {p} : Holds(flow[q], f)
  BY DEF InHand, Holds
<1>4. late' = IF \E q \in Flow \ {p} : TextIn(flow[q], f) THEN late \cup {f} ELSE late
  BY DEF Takes, HasText, TextIn
<1> QED
  BY <1>1, <1>2, <1>3, <1>4

LEMMA TakeStep ==
  ASSUME SetInv, NEW p \in Flow, NEW c \in Command, GoOn(p, c), Shape(c), Same,
         bak' \in [File -> SUBSET Version], \A g \in File : bak[g] \subseteq bak'[g],
         NEW f \in File, Takes(p, f),
         \A g \in File : Holds(c, g) => g = f \/ Holds(flow[p], g),
         \A g \in File : ~ TextIn(c, g),
         \A g \in File : Calm(g) => CalmIn(c, g)',
         Alone => AloneIn(c)'
  PROVE  SetInv'
<1> USE FileAssumption
<1>1. ASSUME NEW g \in File, g \notin late', Calm(g)
      PROVE  Holds(c, g) => \A q \in Flow \ {p} : ~ TextIn(flow[q], g)
  BY <1>1, TakesFacts DEF Calm
<1>2. ASSUME ~ crossed', Alone
      PROVE  Holds(c, Dot) => \A q \in Flow \ {p} : ~ Holds(flow[q], Dot)
  BY <1>2, TakesFacts DEF Alone
<1> QED
  BY <1>1, <1>2, TakesFacts, MoveStep

LEMMA ImportReadStep ==
  ASSUME SetInv, NEW p \in Flow, ImportRead(p) PROVE SetInv'
<1> USE FileAssumption
<1>1. flow[p] \in Command /\ Shape(flow[p]) /\ flow[p].at = "import"
  BY DEF SetInv, TypeOK, Shaped, ImportRead
<1>2. flow[p].cur = NoFile /\ flow[p].src = NoFile /\ flow[p].op # "lock"
  BY <1>1 DEF Shape, Keys, Checks
<1>3. PICK f \in File :
        /\ f \in flow[p].todo
        /\ IF plain[f] \in Version
           THEN /\ GoOn(p, [flow[p] EXCEPT !.at = "importKey", !.cur = f, !.read = plain[f]])
                /\ Takes(p, f)
           ELSE /\ Marked
                /\ GoOn(p, [flow[p] EXCEPT !.todo = @ \ {f}])
  BY DEF ImportRead, First
<1>4. Same /\ UNCHANGED bak
  BY DEF ImportRead
<1>5. CASE plain[f] \notin Version
  <2> DEFINE c == [flow[p] EXCEPT !.todo = @ \ {f}]
  <2>1. /\ c \in Command /\ c.at = "import" /\ c.cur = NoFile /\ c.src = NoFile
        /\ c.done = flow[p].done /\ c.op = flow[p].op
    BY <1>1, <1>2 DEF Command
  <2> HIDE DEF c
  <2>2. Shape(c) /\ c.at \in Quiet
    BY <1>1, <1>2, <2>1 DEF Shape, Keys, Checks, Quiet
  <2> QED
    BY <1>3, <1>4, <1>5, <2>1, <2>2, EasyStep DEF FilesKept, c
<1>6. CASE plain[f] \in Version
  <2> DEFINE d == [flow[p] EXCEPT !.at = "importKey", !.cur = f, !.read = plain[f]]
  <2>1. /\ d \in Command /\ d.at = "importKey" /\ d.cur = f /\ d.src = NoFile /\ d.read = plain[f]
        /\ d.done = flow[p].done /\ d.op = flow[p].op
    BY <1>1, <1>2, <1>6 DEF Command, Waits, Name, Content
  <2>2. PICK c \in Command :
          /\ c = d /\ c.at = "importKey" /\ c.cur = f /\ c.src = NoFile /\ c.read = plain[f]
          /\ c.done = flow[p].done /\ c.op = flow[p].op
    BY <2>1
  <2>3. GoOn(p, c) /\ Takes(p, f)
    BY <1>3, <1>6, <2>2
  <2> HIDE DEF d
  <2>4. Shape(c)
    BY <1>1, <1>2, <1>3, <1>6, <2>2 DEF Shape, Keys, Checks
  <2>5. plain[f] = latest[f] /\ plain[f] # NoFile
    BY <1>6, ContentAssumption DEF SetInv, Numbered, Version
  <2>6. \A g \in File : ~ TextIn(c, g) /\ (Holds(c, g) => g = f \/ Holds(flow[p], g))
    BY <2>2 DEF TextIn, Holds
  <2>7. ASSUME NEW g \in File, Calm(g) PROVE CalmIn(c, g)'
    <3>1. CalmIn(flow[p], g)
      BY <2>7 DEF Calm
    <3>2. Stored(g) => Stored(g)'
      BY <1>4, MoreBackups DEF Same
    <3> QED
      BY <1>4, <2>2, <2>5, <2>6, <3>1, <3>2 DEF CalmIn, TextIn, Checks, Same
  <2>8. Alone => AloneIn(c)'
    BY <1>4, <2>2, <2>5 DEF AloneIn, TextIn, Same
  <2>9. bak' \in [File -> SUBSET Version] /\ \A g \in File : bak[g] \subseteq bak'[g]
    BY <1>4 DEF SetInv, TypeOK
  <2> QED
    BY <1>4, <2>2, <2>3, <2>4, <2>6, <2>7, <2>8, <2>9, TakeStep
<1> QED
  BY <1>5, <1>6

LEMMA LockReadStep ==
  ASSUME SetInv, NEW p \in Flow, LockRead(p) PROVE SetInv'
<1> USE FileAssumption
<1>1. flow[p] \in Command /\ Shape(flow[p]) /\ flow[p].at = "next" /\ flow[p].src = NoFile
  BY DEF SetInv, TypeOK, Shaped, LockRead, Locking, Shape, Keys, Checks
<1>2. PICK f \in File, at \in {"buffer", "reencrypt", "source", "confirm"}, read \in Version \cup {NoFile} :
        /\ Locking(p, f)
        /\ at \in {"source", "confirm"} => read \in Version
        /\ GoOn(p, [flow[p] EXCEPT !.at = at, !.cur = f, !.todo = @ \ {f}, !.read = read])
        /\ Takes(p, f)
  <2>1. PICK f \in File :
        /\ Locking(p, f) /\ plain[f] # NoFile /\ Takes(p, f)
        /\ \/ TakeUp(p, f, "buffer", NoFile)
           \/ TakeUp(p, f, "reencrypt", NoFile)
           \/ plain[f] # Blank /\ TakeUp(p, f, "source", plain[f])
           \/ plain[f] # Blank /\ TakeUp(p, f, "confirm", plain[f])
    BY DEF LockRead
  <2>2. plain[f] # Blank => plain[f] \in Version
    BY <2>1 DEF SetInv, TypeOK, Content
  <2> QED
    BY <2>1, <2>2 DEF TakeUp
<1>3. Same /\ UNCHANGED bak
  BY DEF LockRead
<1> DEFINE d == [flow[p] EXCEPT !.at = at, !.cur = f, !.todo = @ \ {f}, !.read = read]
<1>4. /\ d \in Command /\ d.at = at /\ d.cur = f /\ d.src = NoFile /\ d.read = read
      /\ d.done = flow[p].done /\ d.op = flow[p].op /\ d.todo = flow[p].todo \ {f}
  BY <1>1, <1>2 DEF Command, Waits, Name, Content
<1>5. PICK c \in Command :
        /\ c = d /\ c.at = at /\ c.cur = f /\ c.src = NoFile /\ c.read = read
        /\ c.done = flow[p].done /\ c.op = flow[p].op /\ c.todo = flow[p].todo \ {f}
  BY <1>4
<1>6. GoOn(p, c)
  BY <1>2, <1>5
<1> HIDE DEF d
<1>7. f = flow[p].cur \/ (flow[p].cur = NoFile /\ f \in flow[p].todo)
  BY <1>2 DEF Locking, First
<1>8. Shape(c)
  BY <1>1, <1>2, <1>5, <1>7 DEF Shape, Keys, Checks
<1>9. c.op = "protect" => f = flow[p].cur
  BY <1>1, <1>5, <1>7 DEF Shape
<1>10. \A g \in File : ~ TextIn(c, g) /\ c.src # g /\ (Holds(c, g) => g = f \/ Holds(flow[p], g))
  BY <1>2, <1>5 DEF TextIn, Holds
<1>11. ASSUME NEW g \in File, Calm(g) PROVE CalmIn(c, g)'
  <2>1. CalmIn(flow[p], g)
    BY <1>11 DEF Calm
  <2>2. Stored(g) => Stored(g)'
    BY <1>3, MoreBackups DEF Same
  <2>3. c.op = "protect" /\ c.cur = g => Stored(g)
    BY <1>1, <1>5, <1>9, <2>1 DEF CalmIn
  <2>4. g \in c.done => Stored(g)
    BY <1>5, <2>1 DEF CalmIn
  <2> QED
    BY <1>2, <1>5, <1>10, <2>2, <2>3, <2>4 DEF CalmIn, Checks
<1>12. Alone => AloneIn(c)'
  BY <1>2, <1>5, <1>10 DEF AloneIn
<1>13. bak' \in [File -> SUBSET Version] /\ \A g \in File : bak[g] \subseteq bak'[g]
  BY <1>3 DEF SetInv, TypeOK
<1> QED
  BY <1>2, <1>3, <1>6, <1>5, <1>8, <1>10, <1>11, <1>12, <1>13, TakeStep

LEMMA LockSourceStep ==
  ASSUME SetInv, NEW p \in Flow, LockSource(p) PROVE SetInv'
<1> USE FileAssumption
<1>1. /\ flow[p] \in Command /\ Shape(flow[p]) /\ flow[p].at \in {"source", "reencrypt"}
      /\ flow[p].cur \in File /\ flow[p].src = NoFile
      /\ flow[p].at = "source" => flow[p].read \in Version
  BY DEF SetInv, TypeOK, Shaped, LockSource, Shape, Keys, Checks
<1>2. bak' \in [File -> SUBSET Version] /\ \A f \in File : bak[f] \subseteq bak'[f]
  BY BackUpFacts DEF LockSource
<1>3. Same
  BY DEF LockSource
<1> DEFINE at == IF flow[p].at = "source" THEN "lockKey" ELSE "anewKey"
<1>4. PICK s \in File :
        /\ plain[s] # NoFile
        /\ plain[Dot] # NoFile => s = Dot
        /\ IF plain[s] = Blank THEN LockOn(p)
           ELSE GoOn(p, [flow[p] EXCEPT !.at = at, !.src = s, !.got = plain[s]])
        /\ Takes(p, s)
  <2>1. [flow[p] EXCEPT !.at = IF @ = "source" THEN "lockKey" ELSE "anewKey"] = [flow[p] EXCEPT !.at = at]
    BY <1>1 DEF Command
  <2> QED
    BY <1>1 DEF LockSource, Files, Command
<1>5. CASE plain[s] = Blank
  <2>1. flow[p].at \in {"buffer", "reencrypt", "confirm", "source", "close"} \cup Keys \cup Checks
    BY <1>1
  <2> QED
    BY <1>2, <1>3, <1>4, <1>5, <2>1, TakesFacts, LockOnStep
<1>6. CASE plain[s] # Blank
  <2> DEFINE d == [flow[p] EXCEPT !.at = at, !.src = s, !.got = plain[s]]
  <2>1. plain[s] \in Version /\ plain[s] = latest[s]
    BY <1>4, <1>6 DEF SetInv, TypeOK, Content, Numbered
  <2>2. at \in {"lockKey", "anewKey"} /\ (at = "lockKey" <=> flow[p].at = "source")
    OBVIOUS
  <2>3. GoOn(p, d)
    BY <1>4, <1>6
  <2> HIDE DEF at
  <2>4. /\ d \in Command /\ d.at = at /\ d.cur = flow[p].cur /\ d.src = s /\ d.read = flow[p].read
        /\ d.got = plain[s] /\ d.done = flow[p].done /\ d.op = flow[p].op /\ d.todo = flow[p].todo
    BY <1>1, <2>1, <2>2 DEF Command, Waits, Name, Content
  <2>5. PICK c \in Command :
          /\ c = d /\ c.at = at /\ c.cur = flow[p].cur /\ c.src = s /\ c.read = flow[p].read
          /\ c.got = plain[s] /\ c.done = flow[p].done /\ c.op = flow[p].op /\ c.todo = flow[p].todo
    BY <2>4
  <2> HIDE DEF d
  <2>6. GoOn(p, c)
    BY <2>3, <2>5
  <2>7. Shape(c)
    BY <1>1, <2>1, <2>2, <2>5 DEF Shape, Keys, Checks
  <2>8. \A g \in File : ~ TextIn(c, g) /\ (Holds(c, g) => g = s \/ Holds(flow[p], g))
    BY <2>2, <2>5 DEF TextIn, Holds
  <2>9. ASSUME NEW g \in File, Calm(g) PROVE CalmIn(c, g)'
    <3>1. CalmIn(flow[p], g)
      BY <2>9 DEF Calm
    <3>2. Stored(g) => Stored(g)'
      BY <1>2, <1>3, MoreBackups DEF Same
    <3>3. /\ c.op = "protect" /\ c.cur = g => Stored(g)
          /\ g \in c.done => Stored(g)
      BY <1>1, <2>5, <3>1 DEF CalmIn
    <3>4. c.op = "lock" /\ c.cur = g => c.src = g \/ plain[g] = NoFile
      BY <1>1, <1>4, <2>5 DEF Shape
    <3> QED
      BY <1>3, <2>1, <2>2, <2>5, <2>8, <3>2, <3>3, <3>4 DEF CalmIn, Checks, Same
  <2>10. AloneIn(c)'
    <3>1. c.at = "lockKey" /\ plain[Dot] = c.read => s = Dot /\ c.got = c.read
      BY <1>1, <1>4, <2>2, <2>5, ContentAssumption DEF Version
    <3>2. plain[Dot] \in Version => s = Dot /\ c.got = plain[Dot]
      BY <1>4, <2>5, ContentAssumption DEF Version
    <3> QED
      BY <1>3, <1>4, <2>2, <2>5, <2>8, <3>1, <3>2 DEF AloneIn, Same
  <2> QED
    BY <1>2, <1>3, <1>4, <2>6, <2>5, <2>7, <2>8, <2>9, <2>10, TakeStep
<1> QED
  BY <1>5, <1>6

LEMMA LockTakeStep ==
  ASSUME SetInv, NEW p \in Flow, LockTake(p) PROVE SetInv'
<1> USE FileAssumption, ContentAssumption
<1>1. PICK f \in File :
      /\ flow[p] \in Command /\ Shape(flow[p]) /\ flow[p].at = "buffer"
      /\ f = flow[p].cur /\ flow[p].src = NoFile
  BY DEF SetInv, TypeOK, Shaped, LockTake, Shape, Keys, Checks
<1> DEFINE text == IF buf[f] # NoFile THEN buf[f] ELSE plain[f]
<1>2. Same /\ crossed' = crossed /\ crossed \in BOOLEAN /\ late \subseteq File
  BY DEF LockTake, SetInv, TypeOK
<1>3. CASE text \notin Version
  <2>1. LockOn(p) /\ UNCHANGED <<bak, late>>
    BY <1>1, <1>3 DEF LockTake
  <2>2. flow[p].at \in {"buffer", "reencrypt", "confirm", "source", "close"} \cup Keys \cup Checks
    BY <1>1
  <2>3. bak' \in [File -> SUBSET Version] /\ \A g \in File : bak[g] \subseteq bak'[g]
    BY <2>1 DEF SetInv, TypeOK
  <2> QED
    BY <1>2, <2>1, <2>2, <2>3, LockOnStep
<1>4. CASE text \in Version
  <2>1. PICK v \in Version : v = text
    BY <1>4
  <2> DEFINE d == [flow[p] EXCEPT !.at = "bufferKey", !.src = f, !.got = v, !.read = plain[f]]
  <2>2. /\ BackUp(p) /\ GoOn(p, d)
        /\ late' = IF v # plain[f] /\ InHand(f, Flow \ {p}) THEN late \cup {f} ELSE late
    BY <1>1, <1>4, <2>1 DEF LockTake
  <2>3. bak' \in [File -> SUBSET Version] /\ \A g \in File : bak[g] \subseteq bak'[g]
    BY <2>2, BackUpFacts
  <2>4. plain[f] \in Content
    BY DEF SetInv, TypeOK
  <2>5. /\ d \in Command /\ d.at = "bufferKey" /\ d.cur = f /\ d.src = f /\ d.read = plain[f]
        /\ d.got = v /\ d.done = flow[p].done /\ d.op = flow[p].op /\ d.todo = flow[p].todo
    BY <1>1, <2>4 DEF Command, Waits, Name, Content
  <2>6. PICK c \in Command :
          /\ c = d /\ c.at = "bufferKey" /\ c.cur = f /\ c.src = f /\ c.read = plain[f]
          /\ c.got = v /\ c.done = flow[p].done /\ c.op = flow[p].op /\ c.todo = flow[p].todo
    BY <2>5
  <2> HIDE DEF d, text
  <2>7. Shape(c)
    BY <1>1, <2>6 DEF Shape, Keys, Checks
  <2>8. \A g \in File : Holds(c, g) => Holds(flow[p], g)
    BY <1>1, <2>6 DEF Holds
  <2>9. \A g \in File : TextIn(c, g) <=> g = f /\ v # plain[f]
    BY <2>6 DEF TextIn
  <2>10. Stored(f)' => latest'[f] \in bak'[f]
    BY <1>1, <1>2, <2>2 DEF Stored, Kept, BackUp, Same, SetInv, TypeOK
  <2>11. ASSUME NEW g \in File, g \notin late', Calm(g)
        PROVE  /\ CalmIn(c, g)'
               /\ Holds(c, g) => \A q \in Flow \ {p} : ~ TextIn(flow[q], g)
               /\ TextIn(c, g) => \A q \in Flow \ {p} : ~ Holds(flow[q], g)
    <3>1. CalmIn(flow[p], g)
      BY <2>11 DEF Calm
    <3>2. Stored(g) => Stored(g)'
      BY <1>2, <2>3, MoreBackups DEF Same
    <3>3. /\ c.op = "protect" /\ c.cur = g => Stored(g)
          /\ g \in c.done => Stored(g)
      BY <1>1, <2>6, <3>1 DEF CalmIn
    <3>4. c.src = g /\ ~ TextIn(c, g) => c.got = latest[g]
      BY <2>6, <2>9 DEF SetInv, Numbered, Version
    <3>5. CalmIn(c, g)'
      BY <1>2, <2>6, <2>9, <2>10, <3>2, <3>3, <3>4 DEF CalmIn, Checks, Same
    <3>6. TextIn(c, g) => \A q \in Flow \ {p} : ~ Holds(flow[q], g)
      BY <2>2, <2>9, <2>11 DEF InHand, Holds
    <3> QED
      BY <2>8, <2>11, <3>5, <3>6 DEF Calm
  <2>12. ASSUME Alone
         PROVE  /\ AloneIn(c)'
                /\ Holds(c, Dot) => \A q \in Flow \ {p} : ~ Holds(flow[q], Dot)
    <3>1. AloneIn(c)'
      BY <1>2, <2>6, <2>10 DEF AloneIn, Same
    <3> QED
      BY <2>8, <2>12, <3>1 DEF Alone
  <2> QED
    BY <1>1, <1>2, <2>2, <2>3, <2>6, <2>7, <2>11, <2>12, MoveStep
<1> QED
  BY <1>3, <1>4

LEMMA ImportVerifyStep ==
  ASSUME SetInv, NEW p \in Flow, ImportVerify(p) PROVE SetInv'
<1> USE FileAssumption
<1>1. PICK f \in File :
      /\ flow[p] \in Command /\ Shape(flow[p]) /\ flow[p].at = "importCheck" /\ flow[p].op # "lock"
      /\ f = flow[p].cur /\ flow[p].src = NoFile
  BY DEF SetInv, TypeOK, Shaped, ImportVerify, Shape, Keys, Checks
<1>2. Same /\ Marked
  BY DEF ImportVerify
<1>3. CASE ImportOn(p, flow[p].done) /\ UNCHANGED bak
  BY <1>1, <1>2, <1>3, ImportOnStep DEF FilesKept
<1>4. CASE flow[p].op = "importAll" /\ ImportOn(p, flow[p].done \cup {f}) /\ UNCHANGED bak
  BY <1>1, <1>2, <1>4, ImportOnStep DEF FilesKept
<1>5. CASE /\ up[f] \in Version /\ flow[p].op # "importAll"
           /\ bak' = [bak EXCEPT ![f] = @ \cup {up[f]}]
           /\ GoOn(p, [flow[p] EXCEPT !.at = "next", !.todo = @ \ {f}])
  <2> DEFINE c == [flow[p] EXCEPT !.at = "next", !.todo = @ \ {f}]
  <2>1. /\ c \in Command /\ c.at = "next" /\ c.cur = f /\ c.src = NoFile
        /\ c.done = flow[p].done /\ c.op = flow[p].op /\ c.todo \subseteq flow[p].todo
    BY <1>1 DEF Command, Waits
  <2>2. GoOn(p, c)
    BY <1>5
  <2> HIDE DEF c
  <2>3. Shape(c) /\ c.at \in Quiet
    BY <1>1, <1>5, <2>1 DEF Shape, Keys, Checks, Quiet
  <2>4. bak' \in [File -> SUBSET Version] /\ \A g \in File : bak[g] \subseteq bak'[g]
    BY <1>5 DEF SetInv, TypeOK
  <2>5. late \subseteq late' /\ late' \subseteq File /\ crossed' \in BOOLEAN /\ (crossed => crossed')
    BY <1>2 DEF Marked, SetInv, TypeOK
  <2> QED
    BY <1>1, <1>2, <2>1, <2>2, <2>3, <2>4, <2>5, QuietStep
<1> QED
  BY <1>1, <1>3, <1>4, <1>5 DEF ImportVerify

-----------------------------------------------------------------------------
(* Steps that write an encrypted file *)

\* p writes v over the encrypted file of s, which it has in hand, and goes on as c.
LEMMA WriteStep ==
  ASSUME SetInv, NEW p \in Flow, NEW c \in Command, GoOn(p, c), Shape(c),
         NEW s \in File, NEW v \in Version, up' = [up EXCEPT ![s] = v],
         UNCHANGED <<plain, buf, bak, latest, last, late, crossed>>,
         Holds(flow[p], s),
         \A f \in File : /\ Holds(c, f) => Holds(flow[p], f)
                         /\ TextIn(c, f) => TextIn(flow[p], f),
         Calm(s) /\ Stored(s) => Stored(s)',
         \A f \in File : Calm(f) => CalmIn(c, f)',
         Alone /\ s = Dot /\ latest[Dot] \in Version => plain[Dot] = latest[Dot] \/ Stored(Dot)',
         Alone => AloneIn(c)'
  PROVE  SetInv'
<1> USE FileAssumption DEF SetInv
<1>1. /\ flow' \in [Flow -> Command] /\ flow'[p] = c
      /\ \A q \in Flow : q # p => flow'[q] = flow[q]
  BY Moved
<1>2. TypeOK'
  BY <1>1 DEF TypeOK
<1>3. Numbered' /\ Shaped'
  BY <1>1 DEF Numbered, Shaped
<1>4. ASSUME NEW f \in File, f # s
      PROVE  (Stored(f) <=> Stored(f)') /\ \A d : Kept(f, d) <=> Kept(f, d)'
  BY <1>4 DEF Stored, Kept, TypeOK
<1>5. ASSUME NEW f \in File, f \notin late' PROVE Calm(f)'
  <2>1. Calm(f)
    BY <1>5
  <2>2. Stored(f) => Stored(f)'
    BY <1>4, <2>1
  <2>3. ASSUME NEW q \in Flow, q # p PROVE CalmIn(flow[q], f)'
    <3>1. CalmIn(flow[q], f) /\ flow'[q] = flow[q]
      BY <1>1, <2>1, <2>3 DEF Calm
    <3>2. f = s => ~ TextIn(flow[q], f)
      BY <2>1, <2>3 DEF Calm
    <3> QED
      BY <1>4, <2>2, <3>1, <3>2 DEF CalmIn, TextIn
  <2>4. CalmIn(flow[p], f)'
    BY <1>1, <2>1
  <2>5. ASSUME NEW q \in Flow, NEW r \in Flow, TextIn(flow'[q], f), Holds(flow'[r], f) PROVE q = r
    BY <1>1, <2>1, <2>5 DEF Calm
  <2>6. latest'[f] \in Version => plain'[f] = latest'[f] \/ Stored(f)'
    BY <2>1, <2>2 DEF Calm
  <2> QED
    BY <2>3, <2>4, <2>5, <2>6 DEF Calm
<1>6. ASSUME ~ crossed' PROVE Alone'
  <2>1. Alone
    BY <1>6
  <2>2. latest'[Dot] \in Version => plain'[Dot] = latest'[Dot] \/ Stored(Dot)'
    BY <1>4, <2>1 DEF Alone
  <2>3. ASSUME NEW q \in Flow, q # p PROVE AloneIn(flow[q])'
    <3>1. AloneIn(flow[q]) /\ flow'[q] = flow[q]
      BY <1>1, <2>1, <2>3 DEF Alone
    <3>2. CASE s = Dot
      <4>1. ~ Holds(flow[q], Dot)
        BY <2>1, <2>3, <3>2 DEF Alone
      <4> QED
        BY <3>1, <4>1 DEF AloneIn, Holds, TextIn
    <3>3. CASE s # Dot
      BY <1>4, <3>1, <3>3 DEF AloneIn, TextIn
    <3> QED
      BY <3>2, <3>3
  <2>4. AloneIn(flow[p])'
    BY <1>1, <2>1
  <2>5. ASSUME NEW q \in Flow, NEW r \in Flow, Holds(flow'[q], Dot), Holds(flow'[r], Dot) PROVE q = r
    BY <1>1, <2>1, <2>5 DEF Alone
  <2> QED
    BY <2>2, <2>3, <2>4, <2>5 DEF Alone
<1> QED
  BY <1>2, <1>3, <1>5, <1>6

LEMMA ImportWriteStep ==
  ASSUME SetInv, NEW p \in Flow, ImportWrite(p) PROVE SetInv'
<1> USE FileAssumption
<1>1. PICK f \in File :
      /\ flow[p] \in Command /\ Shape(flow[p]) /\ flow[p].at = "importKey" /\ flow[p].op # "lock"
      /\ f = flow[p].cur /\ flow[p].src = NoFile /\ flow[p].read \in Version
  BY DEF SetInv, TypeOK, Shaped, ImportWrite, Shape, Keys, Checks
<1>2. CASE up[f] = Foreign
  BY <1>1, <1>2, EndStep DEF ImportWrite, FilesKept, Marked, Same
<1>3. CASE up[f] # Foreign
  <2> DEFINE d == [flow[p] EXCEPT !.at = "importCheck", !.read = NoFile]
  <2>1. /\ d \in Command /\ d.at = "importCheck" /\ d.cur = f /\ d.src = NoFile
        /\ d.done = flow[p].done /\ d.op = flow[p].op
    BY <1>1 DEF Command, Waits, Content
  <2>2. PICK c \in Command :
          /\ c = d /\ c.at = "importCheck" /\ c.cur = f /\ c.src = NoFile
          /\ c.done = flow[p].done /\ c.op = flow[p].op
    BY <2>1
  <2>3. PICK v \in Version : v = flow[p].read
    BY <1>1
  <2>4. GoOn(p, c) /\ up' = [up EXCEPT ![f] = v] /\ UNCHANGED <<plain, buf, bak, latest, last, late, crossed>>
    BY <1>1, <1>3, <2>2, <2>3 DEF ImportWrite
  <2> HIDE DEF d
  <2>5. Shape(c)
    BY <1>1, <2>2 DEF Shape, Keys, Checks
  <2>6. Holds(flow[p], f) /\ \A g \in File : (Holds(c, g) => Holds(flow[p], g)) /\ ~ TextIn(c, g)
    BY <1>1, <2>2 DEF Holds, TextIn
  <2>7. v = latest[f] => Stored(f)'
    BY <2>4 DEF Stored, Kept, SetInv, TypeOK
  <2>8. Calm(f) => Stored(f)'
    BY <1>1, <2>3, <2>7 DEF Calm, CalmIn
  <2>9. ASSUME NEW g \in File, Calm(g) PROVE CalmIn(c, g)'
    <3>1. CalmIn(flow[p], g)
      BY <2>9 DEF Calm
    <3>2. Stored(g) => Stored(g)'
      BY <2>4, <2>8, <2>9 DEF Stored, Kept, SetInv, TypeOK
    <3> QED
      BY <1>1, <2>2, <2>6, <2>8, <2>9, <3>1, <3>2 DEF CalmIn, Checks
  <2>10. Alone /\ f = Dot /\ latest[Dot] \in Version => plain[Dot] = latest[Dot]
    BY <1>1 DEF Alone, AloneIn, SetInv, Numbered
  <2>11. Alone => AloneIn(c)'
    BY <2>2, <2>6 DEF AloneIn
  <2> QED
    BY <2>4, <2>5, <2>6, <2>8, <2>9, <2>10, <2>11, WriteStep
<1> QED
  BY <1>2, <1>3

LEMMA LockWriteStep ==
  ASSUME SetInv, NEW p \in Flow, LockWrite(p) PROVE SetInv'
<1> USE FileAssumption
<1>1. PICK f \in File, s \in File, v \in Version :
      /\ flow[p] \in Command /\ Shape(flow[p]) /\ flow[p].at \in Keys
      /\ f = flow[p].cur /\ s = flow[p].src /\ v = flow[p].got
      /\ flow[p].at = "bufferKey" => s = f
      /\ flow[p].at = "lockKey" => flow[p].read \in Version
  BY DEF SetInv, TypeOK, Shaped, LockWrite, Shape, Keys, Checks
<1>2. CASE up[s] = Foreign
  BY <1>1, <1>2, EndStep DEF LockWrite, FilesKept, Marked, Same
<1>3. CASE up[s] # Foreign
  <2> DEFINE at == CASE flow[p].at = "bufferKey" -> "bufferCheck"
                     [] flow[p].at = "lockKey" -> "lockCheck"
                     [] OTHER -> "anewCheck"
             d  == [flow[p] EXCEPT !.at = at]
  <2>1. /\ at \in Checks
        /\ flow[p].at = "bufferKey" <=> at = "bufferCheck"
        /\ flow[p].at = "lockKey" <=> at = "lockCheck"
        /\ flow[p].at = "anewKey" <=> at = "anewCheck"
    BY <1>1 DEF Keys, Checks
  <2>2. /\ GoOn(p, d) /\ up' = [up EXCEPT ![s] = v]
        /\ UNCHANGED <<plain, buf, bak, latest, last, late, crossed>>
    BY <1>1, <1>3 DEF LockWrite, Command
  <2> HIDE DEF at
  <2>3. /\ d \in Command /\ d.at = at /\ d.cur = f /\ d.src = s /\ d.read = flow[p].read /\ d.got = v
        /\ d.done = flow[p].done /\ d.op = flow[p].op /\ d.todo = flow[p].todo
    BY <1>1, <2>1 DEF Command, Waits, Checks
  <2>4. PICK c \in Command :
          /\ c = d /\ c.at = at /\ c.cur = f /\ c.src = s /\ c.read = flow[p].read /\ c.got = v
          /\ c.done = flow[p].done /\ c.op = flow[p].op /\ c.todo = flow[p].todo
    BY <2>3
  <2> HIDE DEF d
  <2>5. Shape(c)
    BY <1>1, <2>1, <2>4 DEF Shape, Keys, Checks
  <2>6. /\ Holds(flow[p], s)
        /\ \A g \in File : Holds(c, g) => Holds(flow[p], g)
        /\ \A g \in File : TextIn(c, g) <=> TextIn(flow[p], g)
    BY <1>1, <2>1, <2>4 DEF Holds, TextIn, Keys, Checks
  <2>7. /\ v = latest[s] => Stored(s)'
        /\ Kept(s, v)'
        /\ latest[s] \in bak[s] /\ Stored(s) => Stored(s)'
    BY <2>2 DEF Stored, Kept, SetInv, TypeOK
  <2>8. ASSUME Calm(s), Stored(s) PROVE Stored(s)'
    <3>1. CalmIn(flow[p], s)
      BY <2>8 DEF Calm
    <3>2. CASE TextIn(flow[p], s)
      <4>1. flow[p].at = "bufferKey"
        BY <1>1, <3>2 DEF TextIn, Keys
      <4> QED
        BY <2>7, <2>8, <3>1, <3>2, <4>1 DEF CalmIn
    <3>3. CASE ~ TextIn(flow[p], s)
      BY <1>1, <2>7, <3>1, <3>3 DEF CalmIn
    <3> QED
      BY <3>2, <3>3
  <2>9. ASSUME NEW g \in File, Calm(g) PROVE CalmIn(c, g)'
    <3>1. CalmIn(flow[p], g)
      BY <2>9 DEF Calm
    <3>2. Stored(g) => Stored(g)'
      <4>1. CASE g = s
        BY <2>8, <2>9, <4>1
      <4>2. CASE g # s
        BY <2>2, <4>2 DEF Stored, Kept, SetInv, TypeOK
      <4> QED
        BY <4>1, <4>2
    <3>3. c.src = g /\ ~ TextIn(c, g) => c.got = latest'[g]
      BY <1>1, <2>2, <2>4, <2>6, <3>1 DEF CalmIn
    <3>4. (g \in c.done => Stored(g)') /\ (c.op = "protect" /\ c.cur = g => Stored(g)')
      BY <1>1, <2>4, <3>1, <3>2 DEF CalmIn, Keys
    <3>5. ASSUME c.cur = g, ~ TextIn(c, g), latest'[g] \in Version PROVE Stored(g)'
      <4>1. CASE g = s
        BY <2>2, <2>4, <2>7, <3>3, <3>5, <4>1
      <4>2. CASE g # s
        <5>1. c.op \in Ops /\ flow[p].at \in {"lockKey", "anewKey"}
          BY <1>1, <2>4, <3>5, <4>2 DEF Shape, Command, Ops, Keys
        <5>2. CASE c.op = "importAll"
          <6>1. g \in c.done
            BY <1>1, <2>4, <3>5, <5>1, <5>2 DEF Shape
          <6> QED
            BY <3>4, <6>1
        <5>3. CASE c.op = "protect"
          BY <3>4, <3>5, <5>3
        <5>4. CASE c.op = "lock"
          <6>1. plain[g] = NoFile
            BY <1>1, <2>4, <3>1, <3>5, <4>2, <5>1, <5>4 DEF CalmIn
          <6> QED
            BY <2>2, <2>9, <3>2, <3>5, <6>1, ContentAssumption DEF Calm, Version
        <5> QED
          BY <5>1, <5>2, <5>3, <5>4 DEF Ops
      <4> QED
        BY <4>1, <4>2
    <3>6. TextIn(c, g) => plain'[g] = c.read /\ Kept(g, c.got)'
      <4>1. TextIn(c, g) => plain[g] = flow[p].read
        BY <2>6, <3>1 DEF CalmIn
      <4>2. TextIn(c, g) => g = s
        BY <1>1, <2>1, <2>4 DEF TextIn, Keys, Checks
      <4> QED
        BY <2>2, <2>4, <2>7, <4>1, <4>2
    <3>7. c.at \in Checks
      BY <2>1, <2>4
    <3> QED
      BY <3>3, <3>4, <3>5, <3>6, <3>7 DEF CalmIn, Checks
  <2>10. ASSUME Alone, s = Dot, latest[Dot] \in Version PROVE plain[Dot] = latest[Dot] \/ Stored(Dot)'
    <3>1. AloneIn(flow[p])
      BY <2>10 DEF Alone
    <3>2. CASE flow[p].at = "bufferKey"
      BY <1>1, <2>7, <2>10, <3>1, <3>2 DEF Alone, AloneIn
    <3>3. CASE flow[p].at # "bufferKey"
      BY <1>1, <2>10, <3>1, <3>3 DEF AloneIn, SetInv, Numbered, Keys
    <3> QED
      BY <3>2, <3>3
  <2>11. ASSUME Alone PROVE AloneIn(c)'
    <3>1. AloneIn(flow[p])
      BY <2>11 DEF Alone
    <3>2. c.cur = Dot /\ c.at = "lockCheck" /\ plain'[Dot] = c.read => c.src = Dot /\ c.got = c.read
      BY <1>1, <2>1, <2>2, <2>4, <3>1 DEF AloneIn
    <3>3. c.src = Dot => Kept(Dot, c.got)'
      BY <2>4, <2>7
    <3>4. TextIn(c, Dot) => plain'[Dot] = c.read /\ Kept(Dot, c.got)'
      <4>1. TextIn(c, Dot) => flow[p].cur = Dot /\ flow[p].at = "bufferKey" /\ s = Dot
        BY <1>1, <2>1, <2>4 DEF TextIn, Keys, Checks
      <4> QED
        BY <2>2, <2>4, <3>1, <3>3, <4>1 DEF AloneIn
    <3>5. ASSUME c.cur = Dot, c.at \in {"bufferCheck", "anewCheck"}, ~ TextIn(c, Dot), plain'[Dot] \in Version
          PROVE  Kept(Dot, plain[Dot])'
      <4>1. CASE c.at = "bufferCheck"
        <5>1. flow[p].at = "bufferKey" /\ s = Dot /\ v = flow[p].read
          BY <1>1, <2>1, <2>4, <3>5, <4>1 DEF TextIn
        <5> QED
          BY <1>1, <2>2, <2>4, <3>1, <3>3, <3>5, <5>1 DEF AloneIn
      <4>2. CASE c.at = "anewCheck"
        BY <1>1, <2>1, <2>2, <2>4, <3>1, <3>3, <3>5, <4>2 DEF AloneIn
      <4> QED
        BY <3>5, <4>1, <4>2
    <3>6. c.at \in Checks
      BY <2>1, <2>4
    <3> QED
      BY <3>2, <3>3, <3>4, <3>5, <3>6 DEF AloneIn, Checks
  <2> QED
    BY <2>2, <2>4, <2>5, <2>6, <2>8, <2>9, <2>10, <2>11, WriteStep
<1> QED
  BY <1>2, <1>3

-----------------------------------------------------------------------------
(* Steps that delete a file *)

LEMMA UnlinkStep ==
  ASSUME SetInv, NEW p \in Flow, Unlink(p), flow[p].at \in Checks \cup {"close"},
         flow[p].at = "lockCheck" => plain[flow[p].cur] = flow[p].read,
         buf' \in [File -> Version \cup {NoFile}],
         bak' \in [File -> SUBSET Version], \A g \in File : bak[g] \subseteq bak'[g],
         UNCHANGED <<up, last, late, crossed>>
  PROVE  SetInv'
<1> USE FileAssumption, ContentAssumption DEF SetInv
<1>1. PICK f \in File :
      /\ flow[p] \in Command /\ Shape(flow[p]) /\ f = flow[p].cur
      /\ TextIn(flow[p], f) => flow[p].got \in Version
      /\ flow[p].at = "lockCheck" => flow[p].read \in Version
  BY DEF TypeOK, Shaped, Shape, TextIn, Checks, Keys
<1>2. PICK c \in Command : c = Freed(p)
  BY FreedShape
<1>3. /\ Shape(c) /\ c.at \in {"import", "next"} /\ c.cur = NoFile /\ c.src = NoFile
      /\ c.done = flow[p].done /\ GoOn(p, c)
  BY <1>2, FreedShape DEF Unlink
<1>4. /\ flow' \in [Flow -> Command] /\ flow'[p] = c
      /\ \A q \in Flow : q # p => flow'[q] = flow[q]
  BY <1>3, Moved
<1>5. HasText(p, f) <=> TextIn(flow[p], f)
  BY DEF HasText, TextIn
<1>6. /\ plain' \in [File -> Content] /\ plain'[f] = NoFile
      /\ \A g \in File \ {f} : plain'[g] = plain[g]
  BY <1>1 DEF Unlink, TypeOK, Content
<1>7. /\ latest' \in [File -> Content] /\ \A g \in File \ {f} : latest'[g] = latest[g]
      /\ latest'[f] = IF TextIn(flow[p], f) /\ plain[f] = flow[p].read THEN flow[p].got ELSE latest[f]
  BY <1>1, <1>5 DEF Unlink, TypeOK, Content
<1>8. TypeOK'
  BY <1>4, <1>6, <1>7 DEF TypeOK
<1>9. Numbered' /\ Shaped'
  BY <1>3, <1>4, <1>6, <1>7 DEF Numbered, Shaped
<1>10. ASSUME NEW g \in File, latest'[g] = latest[g] PROVE Stored(g) => Stored(g)'
  BY <1>10 DEF Stored, Kept
<1>11. ASSUME NEW g \in File, NEW d, Kept(g, d) PROVE Kept(g, d)'
  BY <1>11 DEF Kept
<1>12. ASSUME NEW g \in File, latest'[g] = latest[g]
       PROVE  (Stored(g) => latest[g] \in bak[g]) => (Stored(g)' => latest'[g] \in bak'[g])
  BY <1>12 DEF Stored, Kept
<1>13. ASSUME NEW g \in File, g \notin late' PROVE Calm(g)'
  <2>1. Calm(g) /\ CalmIn(flow[p], g)
    BY <1>13 DEF Calm
  <2>2. \A q, r \in Flow : TextIn(flow'[q], g) /\ Holds(flow'[r], g) => q = r
    <3>1. ~ TextIn(c, g) /\ (Holds(c, g) => Holds(flow[p], g))
      BY <1>3 DEF TextIn, Holds
    <3> QED
      BY <1>4, <2>1, <3>1 DEF Calm
  <2>3. CASE g # f
    <3>1. plain'[g] = plain[g] /\ latest'[g] = latest[g]
      BY <1>6, <1>7, <2>3
    <3>2. \A q \in Flow : q # p => CalmIn(flow[q], g)'
      BY <1>4, <1>10, <1>11, <1>12, <2>1, <3>1 DEF Calm, CalmIn, TextIn
    <3>3. CalmIn(c, g)'
      BY <1>3, <1>10, <2>1, <3>1 DEF CalmIn, TextIn, Checks
    <3>4. CalmIn(flow[p], g)'
      BY <1>4, <3>3
    <3> QED
      BY <1>10, <2>1, <2>2, <3>1, <3>2, <3>4 DEF Calm
  <2>4. CASE g = f
    <3>1. TextIn(flow[p], f) => plain[f] = flow[p].read
      BY <2>1, <2>4 DEF CalmIn
    <3>2. CASE TextIn(flow[p], f)
      <4>1. latest'[f] = flow[p].got /\ flow[p].got \in Version /\ Kept(f, flow[p].got)
        BY <1>1, <1>7, <2>1, <2>4, <3>1, <3>2 DEF CalmIn, TextIn, Checks
      <4>2. Stored(f)'
        BY <1>11, <4>1 DEF Stored, Kept
      <4>3. ASSUME NEW q \in Flow, q # p PROVE CalmIn(flow[q], f)'
        <5>1. ~ Holds(flow[q], f) /\ flow'[q] = flow[q]
          BY <1>4, <2>1, <2>4, <3>2, <4>3 DEF Calm
        <5> QED
          BY <5>1 DEF CalmIn, Holds, TextIn
      <4>4. CalmIn(c, f)'
        BY <1>3, <4>2 DEF CalmIn, TextIn
      <4>5. CalmIn(flow[p], f)'
        BY <1>4, <4>4
      <4> QED
        BY <2>2, <2>4, <4>2, <4>3, <4>5 DEF Calm
    <3>3. CASE ~ TextIn(flow[p], f)
      <4>1. latest'[f] = latest[f] /\ (latest[f] \in Version => Stored(f))
        BY <1>1, <1>7, <2>1, <2>4, <3>3 DEF CalmIn
      <4>2. Stored(f) => Stored(f)'
        BY <1>10, <4>1
      <4>3. ASSUME NEW q \in Flow, q # p PROVE CalmIn(flow[q], f)'
        <5>1. CalmIn(flow[q], f) /\ flow'[q] = flow[q] /\ ~ TextIn(flow[q], f)
          BY <1>1, <1>4, <2>1, <2>4, <4>3 DEF Calm, Holds
        <5> QED
          BY <1>6, <4>1, <4>2, <5>1 DEF CalmIn, TextIn
      <4>4. CalmIn(c, f)'
        BY <1>3, <2>1, <2>4, <4>2 DEF CalmIn, TextIn, Checks
      <4>5. CalmIn(flow[p], f)'
        BY <1>4, <4>4
      <4> QED
        BY <2>2, <2>4, <4>1, <4>2, <4>3, <4>5 DEF Calm
    <3> QED
      BY <3>2, <3>3
  <2> QED
    BY <2>3, <2>4
<1>14. ASSUME ~ crossed' PROVE Alone'
  <2>1. Alone /\ AloneIn(flow[p])
    BY <1>14 DEF Alone
  <2>2. Holds(c, Dot) => Holds(flow[p], Dot)
    BY <1>3 DEF Holds
  <2>3. \A q, r \in Flow : Holds(flow'[q], Dot) /\ Holds(flow'[r], Dot) => q = r
    BY <1>4, <2>1, <2>2 DEF Alone
  <2>4. AloneIn(flow[p])'
    <3>1. AloneIn(c)'
      BY <1>3 DEF AloneIn, TextIn
    <3> QED
      BY <1>4, <3>1
  <2>5. CASE f # Dot
    <3>1. plain'[Dot] = plain[Dot] /\ latest'[Dot] = latest[Dot]
      BY <1>6, <1>7, <2>5
    <3>2. \A q \in Flow : q # p => AloneIn(flow[q])'
      BY <1>4, <1>10, <1>11, <1>12, <2>1, <3>1 DEF Alone, AloneIn, TextIn
    <3> QED
      BY <1>10, <2>1, <2>3, <2>4, <3>1, <3>2 DEF Alone
  <2>6. CASE f = Dot
    <3>1. ASSUME NEW q \in Flow, q # p PROVE AloneIn(flow[q])'
      <4>1. ~ Holds(flow[q], Dot) /\ flow'[q] = flow[q]
        BY <1>1, <1>4, <2>1, <2>6, <3>1 DEF Alone, Holds
      <4> QED
        BY <4>1 DEF AloneIn, Holds, TextIn
    <3>2. latest'[Dot] \in Version => Stored(Dot)'
      <4>1. CASE TextIn(flow[p], Dot)
        <5>1. plain[Dot] = flow[p].read /\ Kept(Dot, flow[p].got)
          BY <2>1, <4>1 DEF AloneIn, TextIn, Checks
        <5> QED
          BY <1>7, <1>11, <2>6, <4>1, <5>1 DEF Stored, Kept
      <4>2. CASE ~ TextIn(flow[p], Dot)
        <5>1. latest'[Dot] = latest[Dot]
          BY <1>7, <2>6, <4>2
        <5>2. plain[Dot] \in Version => Kept(Dot, plain[Dot])
          <6>1. CASE flow[p].at = "lockCheck"
            BY <1>1, <2>1, <2>6, <6>1 DEF AloneIn
          <6>2. CASE flow[p].at # "lockCheck"
            BY <1>1, <2>1, <2>6, <4>2, <6>2 DEF AloneIn, Checks
          <6> QED
            BY <6>1, <6>2
        <5>3. latest[Dot] \in Version => Stored(Dot)
          BY <2>1, <5>2 DEF Alone, Stored
        <5> QED
          BY <1>10, <5>1, <5>3
      <4> QED
        BY <4>1, <4>2
    <3> QED
      BY <2>3, <2>4, <3>1, <3>2 DEF Alone
  <2> QED
    BY <2>5, <2>6
<1> QED
  BY <1>8, <1>9, <1>13, <1>14

LEMMA LockVerifyStep ==
  ASSUME SetInv, NEW p \in Flow, LockVerify(p) PROVE SetInv'
<1> USE FileAssumption
<1>1. PICK f \in File :
      /\ flow[p] \in Command /\ Shape(flow[p]) /\ flow[p].at \in Checks
      /\ f = flow[p].cur /\ flow[p].src \in File /\ flow[p].got \in Version
      /\ flow[p].at = "bufferCheck" => flow[p].src = f
  BY DEF SetInv, TypeOK, Shaped, LockVerify, Shape, Keys, Checks
<1>2. UNCHANGED <<buf, up, last, late, crossed>> /\ late \subseteq File /\ crossed \in BOOLEAN
  BY DEF LockVerify, SetInv, TypeOK
<1>3. bak' \in [File -> SUBSET Version] /\ \A g \in File : bak[g] \subseteq bak'[g]
  BY BackUpFacts DEF LockVerify
<1>4. CASE ~ MayDelete(p)
  <2>1. Same /\ UNCHANGED bak /\ (LockOn(p) \/ End(p))
    BY <1>2, <1>4 DEF LockVerify, Same
  <2> QED
    BY <1>1, <1>2, <1>3, <2>1, LockOnStep, EndStep DEF FilesKept, Marked
<1>5. CASE MayDelete(p) /\ Unlink(p)
  <2>1. /\ flow[p].at \in Checks \cup {"close"}
        /\ flow[p].at = "lockCheck" => plain[flow[p].cur] = flow[p].read
        /\ buf' \in [File -> Version \cup {NoFile}]
    BY <1>1, <1>2, <1>5 DEF MayDelete, SetInv, TypeOK
  <2> QED
    BY <1>2, <1>3, <1>5, <2>1, UnlinkStep
<1>6. CASE /\ MayDelete(p) /\ UNCHANGED <<plain, latest>>
           /\ \/ /\ flow[p].at = "bufferCheck"
                 /\ GoOn(p, [flow[p] EXCEPT !.at = "close", !.src = NoFile])
              \/ /\ flow[p].at # "bufferCheck"
                 /\ GoOn(p, [flow[p] EXCEPT !.at = "close", !.src = NoFile, !.read = NoFile, !.got = NoFile])
  <2>1. PICK c \in Command :
          /\ GoOn(p, c) /\ c.at = "close" /\ c.cur = f /\ c.src = NoFile
          /\ c.done = flow[p].done /\ c.op = flow[p].op /\ c.todo = flow[p].todo
          /\ IF flow[p].at = "bufferCheck" THEN c.read = flow[p].read /\ c.got = flow[p].got
             ELSE c.read = NoFile /\ c.got = NoFile
    <3>1. CASE flow[p].at = "bufferCheck"
      <4> DEFINE d == [flow[p] EXCEPT !.at = "close", !.src = NoFile]
      <4>1. /\ d \in Command /\ d.at = "close" /\ d.cur = f /\ d.src = NoFile
            /\ d.done = flow[p].done /\ d.op = flow[p].op /\ d.todo = flow[p].todo
            /\ d.read = flow[p].read /\ d.got = flow[p].got
        BY <1>1 DEF Command, Waits, Name
      <4>2. GoOn(p, d)
        BY <1>6, <3>1
      <4> HIDE DEF d
      <4> QED
        BY <3>1, <4>1, <4>2
    <3>2. CASE flow[p].at # "bufferCheck"
      <4> DEFINE d == [flow[p] EXCEPT !.at = "close", !.src = NoFile, !.read = NoFile, !.got = NoFile]
      <4>1. /\ d \in Command /\ d.at = "close" /\ d.cur = f /\ d.src = NoFile
            /\ d.done = flow[p].done /\ d.op = flow[p].op /\ d.todo = flow[p].todo
            /\ d.read = NoFile /\ d.got = NoFile
        BY <1>1 DEF Command, Waits, Name, Content
      <4>2. GoOn(p, d)
        BY <1>6, <3>2
      <4> HIDE DEF d
      <4> QED
        BY <3>2, <4>1, <4>2
    <3> QED
      BY <3>1, <3>2
  <2>2. Same
    BY <1>2, <1>6 DEF Same
  <2>3. Shape(c)
    BY <1>1, <2>1 DEF Shape, Keys, Checks
  <2>4. \A g \in File : /\ Holds(c, g) => Holds(flow[p], g)
                        /\ TextIn(c, g) <=> TextIn(flow[p], g)
    BY <1>1, <2>1 DEF Holds, TextIn, Checks
  <2>5. ASSUME NEW g \in File, Calm(g) PROVE CalmIn(c, g)'
    <3>1. CalmIn(flow[p], g)
      BY <2>5 DEF Calm
    <3>2. /\ Stored(g) => Stored(g)'
          /\ \A d : Kept(g, d) => Kept(g, d)'
      BY <1>3, <2>2, MoreBackups DEF Same
    <3>3. (g \in c.done => Stored(g)) /\ (c.op = "protect" /\ c.cur = g => Stored(g))
      BY <1>1, <2>1, <3>1 DEF CalmIn, Checks
    <3>4. c.cur = g /\ ~ TextIn(c, g) /\ latest[g] \in Version => Stored(g)
      BY <1>1, <2>1, <2>4, <3>1 DEF CalmIn
    <3>5. TextIn(c, g) => plain[g] = c.read /\ Kept(g, c.got)
      BY <1>1, <2>1, <2>4, <3>1 DEF CalmIn, TextIn, Checks
    <3>6. c.src # g
      BY <2>1
    <3> QED
      BY <2>1, <2>2, <3>2, <3>3, <3>4, <3>5, <3>6 DEF CalmIn, Same
  <2>6. ASSUME Alone PROVE AloneIn(c)'
    <3>1. AloneIn(flow[p])
      BY <2>6 DEF Alone
    <3>2. \A d : Kept(Dot, d) => Kept(Dot, d)'
      BY <1>3, <2>2, MoreBackups DEF Same
    <3>3. TextIn(c, Dot) => plain[Dot] = c.read /\ Kept(Dot, c.got)
      BY <1>1, <2>1, <2>4, <3>1 DEF AloneIn, TextIn, Checks
    <3>4. ASSUME c.cur = Dot, ~ TextIn(c, Dot), plain[Dot] \in Version PROVE Kept(Dot, plain[Dot])
      <4>1. CASE flow[p].at = "lockCheck"
        <5>1. plain[Dot] = flow[p].read
          BY <1>1, <1>6, <2>1, <3>4, <4>1 DEF MayDelete
        <5> QED
          BY <1>1, <2>1, <3>1, <3>4, <4>1, <5>1 DEF AloneIn
      <4>2. CASE flow[p].at # "lockCheck"
        BY <1>1, <2>1, <2>4, <3>1, <3>4, <4>2 DEF AloneIn, Checks
      <4> QED
        BY <4>1, <4>2
    <3> QED
      BY <2>1, <2>2, <3>2, <3>3, <3>4 DEF AloneIn, Same
  <2>7. \A g \in File : Calm(g) =>
          /\ Holds(c, g) => \A q \in Flow \ {p} : ~ TextIn(flow[q], g)
          /\ TextIn(c, g) => \A q \in Flow \ {p} : ~ Holds(flow[q], g)
    BY <2>4 DEF Calm
  <2>8. Alone /\ Holds(c, Dot) => \A q \in Flow \ {p} : ~ Holds(flow[q], Dot)
    BY <2>4 DEF Alone
  <2> QED
    BY <1>2, <1>3, <2>1, <2>2, <2>3, <2>5, <2>6, <2>7, <2>8, MoveStep
<1> QED
  BY <1>1, <1>4, <1>5, <1>6 DEF LockVerify

LEMMA LockCloseStep ==
  ASSUME SetInv, NEW p \in Flow, LockClose(p) PROVE SetInv'
<1>1. /\ Unlink(p) /\ flow[p].at = "close" /\ flow[p].at # "lockCheck"
      /\ UNCHANGED <<up, last, late, crossed>> /\ UNCHANGED bak
  BY DEF LockClose
<1>2. buf' \in [File -> Version \cup {NoFile}]
  BY DEF LockClose, SetInv, TypeOK
<1>3. bak' \in [File -> SUBSET Version] /\ \A g \in File : bak[g] \subseteq bak'[g]
  BY <1>1 DEF SetInv, TypeOK
<1> QED
  BY <1>1, <1>2, <1>3, UnlinkStep


-----------------------------------------------------------------------------
(* Steps of people *)

\* A file is saved.  Of one that is not late nobody has a content in hand; what is still
\* known of .env is known by commands that will look at it again.
LEMMA SavedStep ==
  ASSUME SetInv, NEW f \in File, NEW v \in Version, Saved(f, v), UNCHANGED <<up, bak, flow>>,
         buf' \in [File -> Version \cup {NoFile}], last' \in 0 .. MaxVersion
  PROVE  SetInv'
<1> USE FileAssumption, ContentAssumption DEF SetInv
<1>1. /\ plain' \in [File -> Content] /\ latest' \in [File -> Content]
      /\ plain'[f] = v /\ latest'[f] = v
      /\ \A g \in File \ {f} : plain'[g] = plain[g] /\ latest'[g] = latest[g]
  BY DEF Saved, TypeOK, Content
<1>2. /\ late \subseteq late' /\ late' \subseteq File
      /\ f \notin late' => \A q \in Flow : ~ Holds(flow[q], f)
  BY DEF Saved, TypeOK, InHand, Holds
<1>3. /\ crossed' \in BOOLEAN /\ (crossed => crossed')
      /\ ~ crossed' /\ f = Dot => \A q \in Flow : ~ Unseen(q, f, v)
  BY DEF Saved, TypeOK
<1>4. TypeOK'
  BY <1>1, <1>2, <1>3 DEF TypeOK
<1>5. Numbered' /\ Shaped'
  BY <1>1 DEF Numbered, Shaped
<1>6. ASSUME NEW g \in File \ {f}
      PROVE  /\ plain'[g] = plain[g] /\ latest'[g] = latest[g] /\ (Stored(g) <=> Stored(g)')
             /\ \A d : Kept(g, d) <=> Kept(g, d)'
  BY <1>1 DEF Stored, Kept
<1>7. ASSUME NEW g \in File, g \notin late' PROVE Calm(g)'
  <2>1. Calm(g)
    BY <1>2, <1>7
  <2>2. CASE g # f
    BY <1>6, <2>1, <2>2 DEF Calm, CalmIn, TextIn
  <2>3. CASE g = f
    <3>1. \A q \in Flow : ~ Holds(flow[q], f)
      BY <1>2, <1>7, <2>3
    <3>2. \A q \in Flow : CalmIn(flow[q], f)'
      BY <3>1 DEF CalmIn, TextIn, Holds
    <3> QED
      BY <1>1, <2>3, <3>1, <3>2 DEF Calm
  <2> QED
    BY <2>2, <2>3
<1>8. ASSUME ~ crossed' PROVE Alone'
  <2>1. Alone
    BY <1>3, <1>8
  <2>2. CASE f # Dot
    BY <1>6, <2>1, <2>2 DEF Alone, AloneIn, TextIn
  <2>3. CASE f = Dot
    <3>1. ASSUME NEW q \in Flow PROVE AloneIn(flow[q])'
      <4>1. AloneIn(flow[q]) /\ ~ Unseen(q, Dot, v)
        BY <1>3, <1>8, <2>1, <2>3 DEF Alone
      <4>2. \A d : Kept(Dot, d) <=> Kept(Dot, d)'
        BY DEF Kept
      <4>3. plain'[Dot] = v /\ v # NoFile
        BY <1>1, <2>3 DEF Version
      <4>4. flow[q].cur = Dot =>
              flow[q].at \notin {"bufferKey", "bufferCheck", "anewKey", "anewCheck", "close"}
        BY <4>1 DEF Unseen
      <4>5. flow[q].cur = Dot /\ flow[q].at \in {"lockKey", "lockCheck"} /\ v = flow[q].read =>
              flow[q].src = Dot /\ flow[q].got = flow[q].read
        BY <4>1 DEF Unseen
      <4> QED
        BY <4>1, <4>2, <4>3, <4>4, <4>5 DEF AloneIn, TextIn
    <3> QED
      BY <1>1, <2>1, <2>3, <3>1 DEF Alone
  <2> QED
    BY <2>2, <2>3
<1> QED
  BY <1>4, <1>5, <1>7, <1>8

LEMMA NextVersion ==
  ASSUME SetInv, last < MaxVersion, last' = last + 1
  PROVE  last + 1 \in Version /\ last' \in 0 .. MaxVersion
BY BoundAssumption DEF SetInv, TypeOK, Version

LEMMA EditStep ==
  ASSUME SetInv, NEW f \in File, Edit(f) PROVE SetInv'
<1>1. buf' \in [File -> Version \cup {NoFile}]
  BY DEF Edit, SetInv, TypeOK
<1>2. PICK v \in Version : v = last + 1 /\ last' \in 0 .. MaxVersion
  BY NextVersion DEF Edit
<1> QED
  BY <1>1, <1>2, SavedStep DEF Edit

LEMMA PutBackStep ==
  ASSUME SetInv, NEW f \in File, PutBack(f) PROVE SetInv'
<1>1. PICK p \in Flow : flow[p].at \in {"lockKey", "lockCheck"} /\ Saved(f, flow[p].read)
  BY DEF PutBack
<1>2. flow[p].read \in Version
  BY <1>1 DEF SetInv, Shaped, Shape
<1>3. buf' \in [File -> Version \cup {NoFile}] /\ last' \in 0 .. MaxVersion
  BY DEF PutBack, SetInv, TypeOK
<1> QED
  BY <1>1, <1>2, <1>3, SavedStep DEF PutBack

LEMMA SaveStep ==
  ASSUME SetInv, NEW f \in File, Save(f) PROVE SetInv'
<1>1. buf[f] \in Version
  BY DEF Save, SetInv, TypeOK
<1>2. buf' \in [File -> Version \cup {NoFile}] /\ last' \in 0 .. MaxVersion
  BY DEF Save, SetInv, TypeOK
<1> QED
  BY <1>1, <1>2, SavedStep DEF Save

LEMMA TypeStep ==
  ASSUME SetInv, NEW f \in File, Type(f) PROVE SetInv'
<1> USE FileAssumption DEF SetInv, Type
<1>1. last + 1 \in Version /\ last' \in 0 .. MaxVersion
  BY NextVersion
<1>2. TypeOK'
  BY <1>1 DEF TypeOK
<1>3. Numbered' /\ Shaped'
  BY DEF Numbered, Shaped
<1>4. ASSUME NEW g \in File, g \notin late' PROVE Calm(g)'
  BY <1>4 DEF Calm, CalmIn, TextIn, Holds, Stored, Kept
<1>5. ASSUME ~ crossed' PROVE Alone'
  BY <1>5 DEF Alone, AloneIn, TextIn, Holds, Stored, Kept
<1> QED
  BY <1>2, <1>3, <1>4, <1>5

\* What the encrypted file held is in the history.
LEMMA PullStep ==
  ASSUME SetInv, NEW f \in File, Pull(f) PROVE SetInv'
<1> USE FileAssumption, ContentAssumption DEF SetInv
<1>1. PICK c \in bak[f] \cup {Foreign} : up' = [up EXCEPT ![f] = c]
  BY DEF Pull
<1>2. /\ bak' = [bak EXCEPT ![f] = @ \cup ({up[f]} \cap Version)]
      /\ UNCHANGED <<plain, buf, flow, latest, last, late, crossed>>
  BY DEF Pull
<1>3. TypeOK'
  BY <1>1, <1>2 DEF TypeOK
<1>4. Numbered' /\ Shaped'
  BY <1>2 DEF Numbered, Shaped
<1>5. ASSUME NEW g \in File, NEW d \in Version, Kept(g, d) PROVE Kept(g, d)'
  BY <1>1, <1>2, <1>5 DEF Kept, TypeOK
<1>6. ASSUME NEW g \in File
      PROVE  /\ Stored(g) => Stored(g)'
             /\ (Stored(g) => latest[g] \in bak[g]) => (Stored(g)' => latest'[g] \in bak'[g])
  <2>1. Stored(g) => Stored(g)'
    BY <1>2, <1>5 DEF Stored
  <2>2. CASE g = f
    BY <1>1, <1>2, <2>1, <2>2 DEF Stored, Kept, TypeOK, Version
  <2>3. CASE g # f
    BY <1>1, <1>2, <2>1, <2>3 DEF Stored, Kept, TypeOK
  <2> QED
    BY <2>1, <2>2, <2>3
<1>7. \A q \in Flow, g \in File : TextIn(flow[q], g) /\ flow[q].at # "bufferKey" => flow[q].got \in Version
  BY DEF Shaped, Shape, TextIn, Checks
<1>8. ASSUME NEW g \in File, g \notin late' PROVE Calm(g)'
  <2>1. Calm(g)
    BY <1>2, <1>8
  <2>2. \A q \in Flow : CalmIn(flow[q], g)'
    <3> SUFFICES ASSUME NEW q \in Flow PROVE CalmIn(flow[q], g)'
      OBVIOUS
    <3>1. CalmIn(flow[q], g) /\ flow'[q] = flow[q]
      BY <1>2, <2>1 DEF Calm
    <3> QED
      BY <1>2, <1>5, <1>6, <1>7, <3>1 DEF CalmIn, TextIn
  <2> QED
    BY <1>2, <1>6, <2>1, <2>2 DEF Calm, TextIn, Holds
<1>9. ASSUME ~ crossed' PROVE Alone'
  <2>1. Alone
    BY <1>2, <1>9
  <2>2. \A q \in Flow : AloneIn(flow[q])'
    <3> SUFFICES ASSUME NEW q \in Flow PROVE AloneIn(flow[q])'
      OBVIOUS
    <3>1. AloneIn(flow[q]) /\ flow'[q] = flow[q]
      BY <1>2, <2>1 DEF Alone
    <3>2. flow[q].at = "lockCheck" => flow[q].got \in Version
      BY DEF Shaped, Shape, Checks
    <3> QED
      BY <1>2, <1>5, <1>6, <1>7, <3>1, <3>2 DEF AloneIn, TextIn
  <2> QED
    BY <1>2, <1>6, <2>1, <2>2 DEF Alone, Holds
<1> QED
  BY <1>3, <1>4, <1>8, <1>9

-----------------------------------------------------------------------------
(* The theorems *)

LEMMA InvStep == SetInv /\ [Next]_vars => SetInv'
<1> SUFFICES ASSUME SetInv, [Next]_vars PROVE SetInv'
  OBVIOUS
<1>1. ASSUME NEW p \in Flow, NEW op \in Ops, Start(p, op) PROVE SetInv'
  BY <1>1, StartStep
<1>2. ASSUME NEW p \in Flow, ImportRead(p) PROVE SetInv'
  BY <1>2, ImportReadStep
<1>3. ASSUME NEW p \in Flow, ImportWrite(p) PROVE SetInv'
  BY <1>3, ImportWriteStep
<1>4. ASSUME NEW p \in Flow, ImportVerify(p) PROVE SetInv'
  BY <1>4, ImportVerifyStep
<1>5. ASSUME NEW p \in Flow, ImportRefused(p) PROVE SetInv'
  BY <1>5, ImportRefusedStep
<1>6. ASSUME NEW p \in Flow, AskLock(p) PROVE SetInv'
  BY <1>6, AskLockStep
<1>7. ASSUME NEW p \in Flow, AnswerLock(p) PROVE SetInv'
  BY <1>7, AnswerLockStep
<1>8. ASSUME NEW p \in Flow, LockSkips(p) PROVE SetInv'
  BY <1>8, LockSkipsStep
<1>9. ASSUME NEW p \in Flow, LockRead(p) PROVE SetInv'
  BY <1>9, LockReadStep
<1>10. ASSUME NEW p \in Flow, LockEnds(p) PROVE SetInv'
  BY <1>10, LockEndsStep
<1>11. ASSUME NEW p \in Flow, LockStops(p) PROVE SetInv'
  BY <1>11, LockStopsStep
<1>12. ASSUME NEW p \in Flow, Confirm(p) PROVE SetInv'
  BY <1>12, ConfirmStep
<1>13. ASSUME NEW p \in Flow, LockTake(p) PROVE SetInv'
  BY <1>13, LockTakeStep
<1>14. ASSUME NEW p \in Flow, LockSource(p) PROVE SetInv'
  BY <1>14, LockSourceStep
<1>15. ASSUME NEW p \in Flow, LockWrite(p) PROVE SetInv'
  BY <1>15, LockWriteStep
<1>16. ASSUME NEW p \in Flow, LockVerify(p) PROVE SetInv'
  BY <1>16, LockVerifyStep
<1>17. ASSUME NEW p \in Flow, LockClose(p) PROVE SetInv'
  BY <1>17, LockCloseStep
<1>18. ASSUME NEW f \in File, Edit(f) PROVE SetInv'
  BY <1>18, EditStep
<1>19. ASSUME NEW f \in File, PutBack(f) PROVE SetInv'
  BY <1>19, PutBackStep
<1>20. ASSUME NEW f \in File, Type(f) PROVE SetInv'
  BY <1>20, TypeStep
<1>21. ASSUME NEW f \in File, Save(f) PROVE SetInv'
  BY <1>21, SaveStep
<1>22. ASSUME NEW f \in File, Pull(f) PROVE SetInv'
  BY <1>22, PullStep
<1>23. CASE UNCHANGED vars
  <2>1. \A f \in File : \A c : CalmIn(c, f) <=> CalmIn(c, f)'
    BY <1>23 DEF vars, CalmIn, TextIn, Stored, Kept
  <2>2. \A c : AloneIn(c) <=> AloneIn(c)'
    BY <1>23 DEF vars, AloneIn, TextIn, Stored, Kept
  <2> QED
    BY <1>23, <2>1, <2>2 DEF vars, SetInv, TypeOK, Numbered, Shaped, Calm, Alone, Stored, Kept
<1> QED
  BY <1>1, <1>2, <1>3, <1>4, <1>5, <1>6, <1>7, <1>8, <1>9, <1>10, <1>11, <1>12, <1>13, <1>14,
     <1>15, <1>16, <1>17, <1>18, <1>19, <1>20, <1>21, <1>22, <1>23 DEF Next

LEMMA SetInvHolds == Spec => []SetInv
<1> QED
  BY InvInit, InvStep, PTL DEF Spec

\* Every variable keeps its type: what a command has imported or deletes had entries.
THEOREM TypeCorrect == Spec => []TypeOK
<1>1. SetInv => TypeOK
  BY DEF SetInv
<1> QED
  BY <1>1, SetInvHolds, PTL

\* Import All, protect and Lock drop a content only of a file that was saved, or whose text
\* was taken from its editor, while a command had another content of it in hand.
THEOREM LossNeedsLateSaveHolds == Spec => []LossNeedsLateSave
<1>1. SetInv => LossNeedsLateSave
  BY DEF SetInv, LossNeedsLateSave, Missing, Calm, Stored, Kept
<1> QED
  BY <1>1, SetInvHolds, PTL

\* One command at a time drops no content of .env, whatever is saved meanwhile, unless it is
\* saved where that command does not look again.
THEOREM DotNeedsCrossingHolds == Spec => []DotNeedsCrossing
<1>1. SetInv => DotNeedsCrossing
  BY FileAssumption DEF SetInv, DotNeedsCrossing, Missing, Alone, Stored, Kept
<1> QED
  BY <1>1, SetInvHolds, PTL

\* A command deletes a plaintext file only after it has found its own encrypted file to open,
\* at that step or as the question about its unsaved text opened.
THEOREM DeletedOpenedHolds == Spec => DeletedOpened
<1> DEFINE A == \A f \in File :
                  /\ plain[f] # NoFile /\ plain'[f] = NoFile /\ up'[f] \notin Version =>
                       \E p \in Flow : Closing(p, f) /\ ~ Closing(p, f)'
                  /\ \A p \in Flow : ~ Closing(p, f) /\ Closing(p, f)' => up'[f] \in Version
<1>1. SetInv /\ [Next]_vars => [A]_vars
  <2> SUFFICES ASSUME SetInv, Next PROVE A
    BY DEF vars
  <2> USE ContentAssumption
  <2>1. ASSUME NEW p \in Flow, flow'[p].at # "close", \A q \in Flow \ {p} : flow'[q] = flow[q],
               UNCHANGED plain
        PROVE  A
    BY <2>1 DEF Closing
  <2>2. ASSUME NEW p \in Flow, Unlink(p), flow[p].at = "close" \/ up'[flow[p].cur] \in Version PROVE A
    <3>1. \A g \in File : g # flow[p].cur => plain'[g] = plain[g]
      BY <2>2 DEF Unlink, SetInv, TypeOK
    <3>2. flow' = [flow EXCEPT ![p] = Freed(p)] /\ Freed(p).at # "close"
      BY <2>2 DEF Unlink, LockOn, GoOn, Freed, SetInv, TypeOK, Command
    <3> QED
      BY <2>2, <3>1, <3>2 DEF Closing, SetInv, TypeOK
  <2>3. ASSUME NEW p \in Flow, LockVerify(p) PROVE A
    <3>1. CASE Unlink(p) /\ MayDelete(p)
      BY <2>3, <2>2, <3>1 DEF LockVerify, MayDelete
    <3>2. CASE UNCHANGED plain /\ (LockOn(p) \/ End(p))
      <4>1. Idle.at # "close" /\ Freed(p).at # "close" /\ (LockOn(p) <=> GoOn(p, Freed(p)))
        BY DEF Idle, Freed, LockOn, SetInv, TypeOK, Command
      <4> QED
        BY <2>1, <3>2, <4>1 DEF End, GoOn, SetInv, TypeOK
    <3>3. ASSUME MayDelete(p), UNCHANGED plain, NEW c, GoOn(p, c), c.cur = flow[p].cur PROVE A
      <4>1. up'[flow[p].cur] \in Version
        BY <2>3, <3>3 DEF MayDelete, LockVerify
      <4>2. \A q \in Flow : flow'[q].cur = flow[q].cur /\ (q # p => flow'[q] = flow[q])
        BY <3>3 DEF GoOn, SetInv, TypeOK
      <4> QED
        BY <3>3, <4>1, <4>2 DEF Closing
    <3>4. CASE /\ MayDelete(p) /\ UNCHANGED plain
               /\ \/ GoOn(p, [flow[p] EXCEPT !.at = "close", !.src = NoFile])
                  \/ GoOn(p, [flow[p] EXCEPT !.at = "close", !.src = NoFile, !.read = NoFile, !.got = NoFile])
      <4>1. flow[p] \in Command
        BY DEF SetInv, TypeOK
      <4>2. /\ [flow[p] EXCEPT !.at = "close", !.src = NoFile].cur = flow[p].cur
            /\ [flow[p] EXCEPT !.at = "close", !.src = NoFile, !.read = NoFile, !.got = NoFile].cur = flow[p].cur
        BY <4>1 DEF Command
      <4> QED
        BY <3>3, <3>4, <4>2
    <3> QED
      BY <2>3, <3>1, <3>2, <3>4 DEF LockVerify
  <2>4. ASSUME NEW p \in Flow, LockClose(p) PROVE A
    BY <2>2, <2>4 DEF LockClose
  <2>5. ASSUME NEW f \in File, NEW v \in Version, Saved(f, v), UNCHANGED flow PROVE A
    BY <2>5 DEF Saved, Closing, SetInv, TypeOK, Version
  <2>6. ASSUME NEW f \in File, Edit(f) \/ PutBack(f) \/ Save(f) PROVE A
    <3>1. PICK v \in Version : Saved(f, v)
      BY <2>6, NextVersion DEF Edit, PutBack, Save, SetInv, TypeOK, Shaped, Shape
    <3> QED
      BY <2>5, <2>6, <3>1 DEF Edit, PutBack, Save
  <2>7. ASSUME NEW f \in File, Type(f) \/ Pull(f) PROVE A
    BY <2>7 DEF Type, Pull, Closing
  <2>8. ASSUME NEW p \in Flow,
               \/ \E op \in Ops : Start(p, op)
               \/ ImportRead(p) \/ ImportWrite(p) \/ ImportVerify(p) \/ ImportRefused(p)
               \/ AskLock(p) \/ AnswerLock(p) \/ LockSkips(p) \/ LockRead(p) \/ LockEnds(p)
               \/ LockStops(p) \/ Confirm(p) \/ LockTake(p) \/ LockSource(p) \/ LockWrite(p)
        PROVE  A
    <3>1. UNCHANGED plain
      BY <2>8 DEF Start, ImportRead, ImportWrite, ImportVerify, ImportRefused, AskLock, AnswerLock,
                  LockSkips, LockRead, LockEnds, LockStops, Confirm, LockTake, LockSource, LockWrite,
                  FilesKept, Same
    <3>2. /\ flow \in [Flow -> Command] /\ flow[p] \in Command
          /\ Idle.at # "close" /\ Freed(p).at # "close" /\ (LockOn(p) <=> GoOn(p, Freed(p)))
      BY DEF SetInv, TypeOK, Command, Idle, Freed, LockOn
    <3>3. flow'[p].at # "close" /\ \A q \in Flow \ {p} : flow'[q] = flow[q]
      <4>1. ASSUME NEW op \in Ops, Start(p, op) PROVE flow'[p].at # "close" /\ \A q \in Flow \ {p} : flow'[q] = flow[q]
        BY <3>2, <4>1 DEF Start, Idle, GoOn
      <4>2. CASE ImportRead(p)
        BY <3>2, <4>2 DEF ImportRead, GoOn, Command
      <4>3. CASE ImportWrite(p)
        BY <3>2, <4>3 DEF ImportWrite, End, GoOn, Command
      <4>4. CASE ImportVerify(p) \/ ImportRefused(p)
        BY <3>2, <4>4 DEF ImportVerify, ImportRefused, ImportOn, GoOn, Command
      <4>5. CASE AskLock(p) \/ AnswerLock(p) \/ LockEnds(p) \/ Confirm(p)
        BY <3>2, <4>5 DEF AskLock, AnswerLock, LockEnds, Confirm, End, GoOn, Command
      <4>6. CASE LockSkips(p) \/ LockStops(p)
        BY <3>2, <4>6 DEF LockSkips, LockStops, GoOn, Command
      <4>7. CASE LockRead(p)
        <5>1. PICK f, at, read : TakeUp(p, f, at, read) /\ at # "close"
          BY <4>7 DEF LockRead
        <5> QED
          BY <3>2, <5>1 DEF TakeUp, GoOn, Command
      <4>8. CASE LockTake(p)
        BY <3>2, <4>8 DEF LockTake, GoOn, Command
      <4>9. CASE LockSource(p)
        <5>1. PICK s : \/ LockOn(p)
                       \/ GoOn(p, [flow[p] EXCEPT !.at = IF flow[p].at = "source" THEN "lockKey" ELSE "anewKey",
                                                  !.src = s, !.got = plain[s]])
          BY <3>2, <4>9 DEF LockSource, Command
        <5> QED
          BY <3>2, <5>1 DEF GoOn, Command
      <4>10. CASE LockWrite(p)
        BY <3>2, <4>10 DEF LockWrite, End, GoOn, Command
      <4> QED
        BY <2>8, <4>1, <4>2, <4>3, <4>4, <4>5, <4>6, <4>7, <4>8, <4>9, <4>10
    <3> QED
      BY <2>1, <3>1, <3>3
  <2> QED
    BY <2>3, <2>4, <2>6, <2>7, <2>8 DEF Next
<1> QED
  BY <1>1, SetInvHolds, PTL DEF Spec, DeletedOpened
=============================================================================
