------------------------------- MODULE EnvSet -------------------------------
(***************************************************************************)
(* The plaintext env files of one directory (.env, .env.local, ...) under  *)
(* the extension's commands for all of them: Import All, the one-click     *)
(* protect flow with encryptAllEnvFiles, and Lock, which both of them run  *)
(* for each file and which imports once more before it deletes.            *)
(*                                                                         *)
(* A command is cut where it waits for a person: a question, a file        *)
(* picker, the key.  A content is the number of the edit that made it;     *)
(* entries are not told apart (EnvFiles and TeamFile do that for .env).    *)
(***************************************************************************)
EXTENDS Naturals

CONSTANTS
  File,        \* names of plaintext env files
  Dot,         \* the one called .env, first in order
  Flow,        \* commands that may be open at a time
  NoFile,      \* no such file, or none
  Blank,       \* a content without entries
  Foreign,     \* an encrypted file that the own key does not open
  MaxVersion   \* bound: contents ever made

ASSUME FileAssumption == Dot \in File /\ NoFile \notin File
ASSUME BoundAssumption == MaxVersion \in Nat \ {0}

Version == 1 .. MaxVersion

ASSUME ContentAssumption ==
  /\ NoFile # Blank /\ NoFile # Foreign /\ Blank # Foreign
  /\ NoFile \notin Nat /\ Blank \notin Nat /\ Foreign \notin Nat

VARIABLES
  plain,   \* each plaintext file
  buf,     \* the unsaved text of an editor on it
  up,      \* its encrypted file
  bak,     \* contents in encrypted backups or in the history of the encrypted file
  flow,    \* the open commands
  latest,  \* the content of each file that its owner saved last
  last,    \* contents made so far
  late,    \* files of which a command had one content in hand while another was made or locked
  crossed  \* two commands had .env in hand at once, or it was saved behind the back of one

vars == <<plain, buf, up, bak, flow, latest, last, late, crossed>>

Idle == [op |-> "none", at |-> "idle", todo |-> {}, done |-> {}, cur |-> NoFile,
         src |-> NoFile, read |-> NoFile, got |-> NoFile]

Ops     == {"importAll", "protect", "lock"}
Checks  == {"bufferCheck", "lockCheck", "anewCheck"}
Waits   == {"import", "importKey", "importCheck", "ask", "next", "buffer", "reencrypt", "confirm",
            "source", "bufferKey", "lockKey", "anewKey", "close"} \cup Checks
Name    == File \cup {NoFile}
Content == Version \cup {NoFile, Blank}
Command ==
  [op : Ops \cup {"none"}, at : Waits \cup {"idle"}, todo : SUBSET File, done : SUBSET File, cur : Name,
   src : Name, read : Content, got : Content]

TypeOK ==
  /\ plain \in [File -> Content]
  /\ buf \in [File -> Version \cup {NoFile}]
  /\ up \in [File -> Version \cup {NoFile, Foreign}]
  /\ bak \in [File -> SUBSET Version]
  /\ flow \in [Flow -> Command]
  /\ latest \in [File -> Content]
  /\ last \in 0 .. MaxVersion
  /\ late \subseteq File
  /\ crossed \in BOOLEAN

Files == {f \in File : plain[f] # NoFile}

\* Some files with a content each, some of them protected before.
Init ==
  /\ last = 1
  /\ plain \in [File -> {NoFile, Blank, 1}]
  /\ up \in [File -> {NoFile, Foreign, 1}]
  /\ buf = [f \in File |-> NoFile]
  /\ bak = [f \in File |-> {}]
  /\ flow = [p \in Flow |-> Idle]
  /\ latest = [f \in File |-> IF plain[f] = NoFile /\ up[f] = 1 THEN 1 ELSE plain[f]]
  /\ late = {} /\ crossed = FALSE

-----------------------------------------------------------------------------
(* Steps of a command *)

GoOn(p, c) == flow' = [flow EXCEPT ![p] = c]

End(p) == GoOn(p, Idle)

\* listPlaintextEnvFiles sorts: .env comes first.
First(f, todo) == f \in todo /\ (Dot \in todo => f = Dot)

\* On to the next file of the list that is being imported.
ImportOn(p, done) ==
  GoOn(p, [flow[p] EXCEPT !.at = "import", !.todo = @ \ {flow[p].cur}, !.done = done,
                          !.cur = NoFile, !.read = NoFile])

\* The lock of a file returns, whatever came of it: protect goes on with its imports.
LockOn(p) ==
  GoOn(p, [flow[p] EXCEPT !.at = IF flow[p].op = "protect" THEN "import" ELSE "next",
                          !.cur = NoFile, !.src = NoFile, !.read = NoFile, !.got = NoFile])

\* Commands that have a content of f, imported or about to be.
InHand(f, P) ==
  \E p \in P : flow[p].cur = f \/ flow[p].src = f \/ f \in flow[p].done

\* Lock has a text of f in hand that f does not hold.
HasText(p, f) ==
  /\ flow[p].cur = f /\ flow[p].at \in {"bufferKey", "bufferCheck", "close"}
  /\ flow[p].got # flow[p].read

\* p takes f up.
Takes(p, f) ==
  /\ crossed' = (crossed \/ (f = Dot /\ InHand(f, Flow \ {p})))
  /\ late' = IF \E q \in Flow \ {p} : HasText(q, f) THEN late \cup {f} ELSE late

Same == UNCHANGED <<plain, buf, up, latest, last>>

Marked == UNCHANGED <<late, crossed>>

FilesKept == Same /\ Marked /\ UNCHANGED bak

\* protect is for an unprotected .env, and for the other files too if encryptAllEnvFiles is set.
Start(p, op) ==
  /\ flow[p] = Idle
  /\ op = "protect" => plain[Dot] # NoFile /\ up[Dot] = NoFile
  /\ \E list \in {{Dot}, Files} :
       /\ list # {}
       /\ op = "importAll" => list = Files
       /\ op = "lock" => list = {Dot}
       /\ GoOn(p, [Idle EXCEPT !.op = op, !.at = IF op = "lock" THEN "next" ELSE "import", !.todo = list])
  /\ FilesKept

\* Mutant: a file without entries is imported.
ImportReadBlank(p) ==
  /\ flow[p].at = "import"
  /\ \E f \in File :
       /\ First(f, flow[p].todo)
       /\ IF plain[f] # NoFile
          THEN /\ GoOn(p, [flow[p] EXCEPT !.at = "importKey", !.cur = f, !.read = plain[f]])
               /\ Takes(p, f)
          ELSE /\ Marked
               /\ GoOn(p, [flow[p] EXCEPT !.todo = @ \ {f}])
  /\ Same /\ UNCHANGED bak

\* import with sourcePath: the file is read, then the key is asked for.  A file that
\* is gone or has no entries is not imported.
ImportRead(p) ==
  /\ flow[p].at = "import"
  /\ \E f \in File :
       /\ First(f, flow[p].todo)
       /\ IF plain[f] \in Version
          THEN /\ GoOn(p, [flow[p] EXCEPT !.at = "importKey", !.cur = f, !.read = plain[f]])
               /\ Takes(p, f)
          ELSE /\ Marked
               /\ GoOn(p, [flow[p] EXCEPT !.todo = @ \ {f}])
  /\ Same /\ UNCHANGED bak

\* With the key: merged into an encrypted file that opens; one that does not makes the
\* import throw, through the whole command.
ImportWrite(p) ==
  LET f == flow[p].cur IN
  /\ flow[p].at = "importKey"
  /\ IF up[f] = Foreign
     THEN End(p) /\ UNCHANGED up
     ELSE /\ up' = [up EXCEPT ![f] = flow[p].read]
          /\ GoOn(p, [flow[p] EXCEPT !.at = "importCheck", !.read = NoFile])
  /\ UNCHANGED <<plain, buf, bak, latest, last, late, crossed>>

\* The key has been asked for again and the encrypted file is opened.  protect locks the
\* file at once, after a backup of the encrypted one.
ImportVerify(p) ==
  LET f == flow[p].cur IN
  /\ flow[p].at = "importCheck"
  /\ \/ up[f] \notin Version /\ ImportOn(p, flow[p].done) /\ UNCHANGED bak
     \/ /\ up[f] \in Version /\ flow[p].op = "importAll"
        /\ ImportOn(p, flow[p].done \cup {f})
        /\ UNCHANGED bak
     \/ /\ up[f] \in Version /\ flow[p].op # "importAll"
        /\ bak' = [bak EXCEPT ![f] = @ \cup {up[f]}]
        /\ GoOn(p, [flow[p] EXCEPT !.at = "next", !.todo = @ \ {f}])
  /\ Same /\ Marked

\* A key refused counts as a file that is not imported, also when it has been written.
ImportRefused(p) ==
  /\ flow[p].at \in {"importKey", "importCheck"}
  /\ ImportOn(p, flow[p].done)
  /\ FilesKept

\* Import All asks whether the sources shall be locked, those it has imported.
AskLock(p) ==
  /\ flow[p].at = "import" /\ flow[p].todo = {}
  /\ IF flow[p].op = "importAll" /\ flow[p].done # {}
     THEN GoOn(p, [flow[p] EXCEPT !.at = "ask"])
     ELSE End(p)
  /\ FilesKept

\* Mutant: all files are locked, imported or not.
AnswerLockAll(p) ==
  /\ flow[p].at = "ask"
  /\ \/ End(p)
     \/ GoOn(p, [flow[p] EXCEPT !.at = "next", !.todo = Files])
  /\ FilesKept

AnswerLock(p) ==
  /\ flow[p].at = "ask"
  /\ \/ End(p)
     \/ GoOn(p, [flow[p] EXCEPT !.at = "next", !.todo = flow[p].done])
  /\ FilesKept

-----------------------------------------------------------------------------
(* Lock of one file *)

\* cur is set already when protect has just imported the file.
Locking(p, f) ==
  /\ flow[p].at = "next"
  /\ IF flow[p].cur # NoFile THEN f = flow[p].cur ELSE First(f, flow[p].todo)

\* One of the two files is missing, there is nothing to lock, or the key is refused.
LockSkips(p) ==
  /\ \E f \in File :
       /\ Locking(p, f)
       /\ GoOn(p, [flow[p] EXCEPT !.at = IF flow[p].op = "protect" THEN "import" ELSE "next",
                                 !.todo = @ \ {f}, !.cur = NoFile])
  /\ FilesKept

TakeUp(p, f, at, read) ==
  GoOn(p, [flow[p] EXCEPT !.at = at, !.cur = f, !.todo = @ \ {f}, !.read = read])

\* With the key Lock reads the file; what it asks then depends on the editor and on
\* whether the encrypted file opens.
LockRead(p) ==
  /\ \E f \in File :
       /\ Locking(p, f)
       /\ up[f] # NoFile /\ plain[f] # NoFile
       /\ \/ /\ buf[f] # NoFile
             /\ TakeUp(p, f, "buffer", NoFile)
          \/ /\ buf[f] = NoFile /\ plain[f] # Blank /\ up[f] = Foreign
             /\ TakeUp(p, f, "reencrypt", NoFile)
          \/ /\ buf[f] = NoFile /\ plain[f] # Blank /\ up[f] # Foreign
             /\ TakeUp(p, f, IF flow[p].op = "importAll" THEN "source" ELSE "confirm", plain[f])
       /\ Takes(p, f)
  /\ Same /\ UNCHANGED bak

\* The command ends with the last file.
LockEnds(p) ==
  /\ flow[p].at = "next" /\ flow[p].cur = NoFile /\ flow[p].todo = {}
  /\ End(p)
  /\ FilesKept

\* A backup of the file's own encrypted file.
BackUp(p) == bak' = [bak EXCEPT ![flow[p].cur] = @ \cup ({up[flow[p].cur]} \cap Version)]

\* A question is answered with Cancel, the picker is closed (after the backup), or the key
\* is refused to the import, before or after it has written: "Import failed. .env preserved."
LockStops(p) ==
  /\ flow[p].at \in {"buffer", "reencrypt", "confirm", "source", "bufferKey", "lockKey", "anewKey"} \cup Checks
  /\ flow[p].at = "source" => plain[Dot] = NoFile
  /\ LockOn(p)
  /\ IF flow[p].at = "source" THEN BackUp(p) ELSE UNCHANGED bak
  /\ Same /\ Marked

Confirm(p) ==
  /\ flow[p].at = "confirm"
  /\ GoOn(p, [flow[p] EXCEPT !.at = "source"])
  /\ FilesKept

\* "Lock current content": the editor's text, saved or not by now, is to be imported.
LockTake(p) ==
  LET f    == flow[p].cur
      text == IF buf[f] # NoFile THEN buf[f] ELSE plain[f]
  IN
  /\ flow[p].at = "buffer"
  /\ IF text \in Version
     THEN /\ BackUp(p)
          /\ GoOn(p, [flow[p] EXCEPT !.at = "bufferKey", !.src = f, !.got = text, !.read = plain[f]])
          /\ late' = IF text # plain[f] /\ InHand(f, Flow \ {p}) THEN late \cup {f} ELSE late
     ELSE LockOn(p) /\ UNCHANGED <<bak, late>>
  /\ Same /\ UNCHANGED crossed

\* The import that Lock calls names no source: it takes .env, or shows a picker when
\* there is none.  A backup of the file's own encrypted file comes first.
LockSource(p) ==
  /\ flow[p].at \in {"source", "reencrypt"}
  /\ IF flow[p].at = "source" THEN BackUp(p) ELSE UNCHANGED bak
  /\ \E s \in Files :
       /\ plain[Dot] # NoFile => s = Dot
       /\ IF plain[s] = Blank THEN LockOn(p)
          ELSE GoOn(p, [flow[p] EXCEPT !.at = IF @ = "source" THEN "lockKey" ELSE "anewKey",
                                       !.src = s, !.got = plain[s]])
       /\ Takes(p, s)
  /\ Same

\* With the key the import writes; an encrypted file that does not open makes it throw.
LockWrite(p) ==
  LET s == flow[p].src IN
  /\ flow[p].at \in {"bufferKey", "lockKey", "anewKey"}
  /\ IF up[s] = Foreign
     THEN End(p) /\ UNCHANGED up
     ELSE /\ up' = [up EXCEPT ![s] = flow[p].got]
          /\ GoOn(p, [flow[p] EXCEPT !.at = CASE @ = "bufferKey" -> "bufferCheck"
                                             [] @ = "lockKey" -> "lockCheck"
                                             [] OTHER -> "anewCheck"])
  /\ UNCHANGED <<plain, buf, bak, latest, last, late, crossed>>

\* Mutant: no second look at the file.
MayDeleteUnchecked(p) == up[flow[p].src] \in Version /\ up[flow[p].cur] \in Version

\* Mutant: only what was imported is opened, not the file's own encrypted file.
MayDeleteUnverified(p) ==
  /\ up[flow[p].src] \in Version
  /\ flow[p].at = "lockCheck" => plain[flow[p].cur] = flow[p].read

\* The import opens what it has written, Lock the file's own encrypted file.  "Lock current
\* content" and "Re-encrypt and Lock" do not look at the file itself again.
MayDelete(p) ==
  /\ up[flow[p].src] \in Version /\ up[flow[p].cur] \in Version
  /\ flow[p].at = "lockCheck" => plain[flow[p].cur] = flow[p].read

\* The file goes; the text taken from its editor takes its place.
Unlink(p) ==
  LET f == flow[p].cur IN
  /\ plain' = [plain EXCEPT ![f] = NoFile]
  /\ latest' = IF HasText(p, f) /\ plain[f] = flow[p].read
               THEN [latest EXCEPT ![f] = flow[p].got] ELSE latest
  /\ LockOn(p)

\* The key has been asked for again.  With unsaved text in the editor closeEnvTab opens a
\* dialog before the file goes.  One that is gone by now makes the second look at it throw.
LockVerify(p) ==
  LET f == flow[p].cur IN
  /\ flow[p].at \in Checks
  /\ IF ~ MayDelete(p)
     THEN /\ IF flow[p].at = "lockCheck" /\ up[flow[p].src] \in Version /\ plain[f] = NoFile
             THEN End(p) ELSE LockOn(p)
          /\ UNCHANGED <<plain, latest, bak>>
     ELSE /\ IF flow[p].at = "anewCheck" THEN BackUp(p) ELSE UNCHANGED bak
          /\ IF buf[f] = NoFile THEN Unlink(p)
             ELSE /\ IF flow[p].at = "bufferCheck"
                     THEN GoOn(p, [flow[p] EXCEPT !.at = "close", !.src = NoFile])
                     ELSE GoOn(p, [flow[p] EXCEPT !.at = "close", !.src = NoFile,
                                                  !.read = NoFile, !.got = NoFile])
                  /\ UNCHANGED <<plain, latest>>
  /\ UNCHANGED <<buf, up, last, late, crossed>>

\* The dialog is closed, the text saved (Save), dropped or left: the file goes.
LockClose(p) ==
  /\ flow[p].at = "close"
  /\ Unlink(p)
  /\ buf' \in {buf, [buf EXCEPT ![flow[p].cur] = NoFile]}
  /\ UNCHANGED <<up, bak, last, late, crossed>>

-----------------------------------------------------------------------------
(* People *)

\* p goes on to delete f and does not see that c is saved to it: it does not look at f any
\* more, or c is what it has read before it imported something else.
Unseen(p, f, c) ==
  /\ flow[p].cur = f
  /\ \/ flow[p].at \in {"bufferKey", "bufferCheck", "anewKey", "anewCheck", "close"}
     \/ /\ flow[p].at \in {"lockKey", "lockCheck"}
        /\ flow[p].read = c /\ (flow[p].src # f \/ flow[p].got # c)

Saved(f, c) ==
  /\ plain' = [plain EXCEPT ![f] = c]
  /\ latest' = [latest EXCEPT ![f] = c]
  /\ late' = IF InHand(f, Flow) THEN late \cup {f} ELSE late
  /\ crossed' = (crossed \/ (f = Dot /\ \E p \in Flow : Unseen(p, f, c)))

\* A person, an agent or a build step writes the file.
Edit(f) ==
  /\ last < MaxVersion /\ last' = last + 1
  /\ Saved(f, last + 1)
  /\ UNCHANGED <<buf, up, bak, flow>>

\* It is put back as a lock has read it that has imported another content.
PutBack(f) ==
  /\ \E p \in Flow :
       /\ flow[p].cur = f /\ flow[p].at \in {"lockKey", "lockCheck"}
       /\ plain[f] # flow[p].read /\ flow[p].got # flow[p].read
       /\ Saved(f, flow[p].read)
  /\ UNCHANGED <<buf, up, bak, flow, last>>

Type(f) ==
  /\ plain[f] # NoFile \/ buf[f] # NoFile
  /\ last < MaxVersion /\ last' = last + 1
  /\ buf' = [buf EXCEPT ![f] = last + 1]
  /\ UNCHANGED <<plain, up, bak, flow, latest, late, crossed>>

Save(f) ==
  /\ buf[f] # NoFile
  /\ Saved(f, buf[f])
  /\ buf' = [buf EXCEPT ![f] = NoFile]
  /\ UNCHANGED <<up, bak, flow, last>>

\* Another version of the encrypted file is pulled or checked out, one of its own or one
\* that does not open; the history keeps this one.
Pull(f) ==
  /\ up[f] # NoFile
  /\ \E c \in bak[f] \cup {Foreign} : up' = [up EXCEPT ![f] = c]
  /\ bak' = [bak EXCEPT ![f] = @ \cup ({up[f]} \cap Version)]
  /\ UNCHANGED <<plain, buf, flow, latest, last, late, crossed>>

Next ==
  \/ \E p \in Flow :
       \/ \E op \in Ops : Start(p, op)
       \/ ImportRead(p) \/ ImportWrite(p) \/ ImportVerify(p) \/ ImportRefused(p)
       \/ AskLock(p) \/ AnswerLock(p)
       \/ LockSkips(p) \/ LockRead(p) \/ LockEnds(p) \/ LockStops(p) \/ Confirm(p)
       \/ LockTake(p) \/ LockSource(p) \/ LockWrite(p) \/ LockVerify(p) \/ LockClose(p)
  \/ \E f \in File : Edit(f) \/ PutBack(f) \/ Type(f) \/ Save(f) \/ Pull(f)

Spec == Init /\ [][Next]_vars

-----------------------------------------------------------------------------
(* Properties *)

\* What its owner saved last is nowhere any more.
Missing(f) == latest[f] \in Version /\ latest[f] # plain[f] /\ latest[f] \notin {up[f]} \cup bak[f]

Closing(p, f) == flow[p].cur = f /\ flow[p].at = "close"

\* A plaintext file is deleted only by a command that has found its own encrypted file to
\* open: as it deletes it or, if its editor asks what to do with unsaved text, as that
\* question opens.  It need not open any more when the question is answered.
DeletedOpened ==
  [][\A f \in File :
       /\ plain[f] # NoFile /\ plain'[f] = NoFile /\ up'[f] \notin Version =>
            \E p \in Flow : Closing(p, f) /\ ~ Closing(p, f)'
       /\ \A p \in Flow : ~ Closing(p, f) /\ Closing(p, f)' => up'[f] \in Version]_vars

\* Import All, protect and Lock drop a content only if a command had another one of the
\* file in hand when it was saved, or when Lock took it from the editor.
LossNeedsLateSave == \A f \in File : Missing(f) => f \in late

\* .env itself is imported again by its lock.  It takes two commands at once, or a content
\* saved where the lock does not look any more: under the key prompts of the import of an
\* editor's text or of a re-encryption and under the dialog of the closing tab, or put back
\* as Lock has first read it after something else was imported.
DotNeedsCrossing == Missing(Dot) => crossed
=============================================================================
