------------------------------- MODULE EnvFiles -------------------------------
(***************************************************************************)
(* The plaintext .env of each project and its encrypted .env.up, under     *)
(* everyone who writes them: the up CLI, the extension's lock, unlock,     *)
(* import and Safe Edit, the auto-lock timers, the closing editor, and the *)
(* people and agents who edit .env or pull a new .env.up.                  *)
(*                                                                         *)
(* A command is cut where it waits for an answer: to a question, to a      *)
(* prompt for the key inside the extension's Lock, to what the editor asks *)
(* about a tab it is to close.  What it does between two such waits is one *)
(* action.  A file's content is the number of the edit that first made it  *)
(* (0: no such file); every content has entries.                           *)
(***************************************************************************)
EXTENDS Naturals

CONSTANTS
  Root,        \* project directories
  NoRoot,      \* none of them
  CliSlot,     \* terminals, each running one up command at a time
  ExtSlot,     \* commands of the extension that may be open at a time
  Habit,       \* what people do that the code does not guard against
  MaxVersion,  \* bound: contents ever made
  MaxKids      \* bound: pending auto-lock children of a directory

\* editAsked: saving .env while a command that will not look at it again waits
\* for an answer.  typeLocking: typing while a Lock of the extension is open.
\* undoLocking: putting back under it what it has read at first.  cliAutoLock: up
\* unlock with a duration or --until-terminal-exit.  removeEdited: answering
\* "Remove .env" after a Safe Edit.
AllHabits ==
  {"editAsked", "typeLocking", "undoLocking", "cliAutoLock", "removeEdited"}

ASSUME RootAssumption  == NoRoot \notin Root
ASSUME SlotAssumption  == CliSlot \cap ExtSlot = {}
ASSUME BoundAssumption == MaxVersion \in Nat \ {0} /\ MaxKids \in Nat

VARIABLES
  env,      \* .env
  buf,      \* the unsaved text of an editor on .env (0: none)
  up,       \* .env.up: its content and whose key opens it
  cmd,      \* the commands that wait for an answer
  kids,     \* detached auto-lock children of the CLI, per directory
  timer,    \* autoLockTimer: the directory it was set for
  armed,    \* directories a timeout of the extension is running for
  firing,   \* those whose timeout has run out and loads the key
  opened,   \* unlockedRoots of the extension
  last,     \* contents made so far
  kept,     \* contents .env.up has held
  given,    \* contents of .env that some step has dropped
  lost      \* steps that dropped a content never kept and not agreed to

files  == <<env, buf, up>>
timers == <<timer, armed, firing, opened>>
vars   == <<files, cmd, kids, timers, last, kept, given, lost>>

-----------------------------------------------------------------------------
(* Types *)

Slot    == CliSlot \cup ExtSlot
Content == 0 .. MaxVersion
ExtLocks == {"lock", "lockBuffer", "reencrypt"}
Causes  == {"cliLock", "cliUnlock", "autoLock", "extUnlock", "deleteSource",
            "removeEdited", "timer", "close"} \cup ExtLocks
Idle    == [op |-> "none", at |-> "idle", root |-> NoRoot, read |-> 0,
            out |-> 0, agreed |-> FALSE]
Ops     == {"unlock", "import", "edit"} \cup ExtLocks
Waits   == {"key", "confirm", "write", "verify", "close", "overwrite", "source",
            "duration", "autolock", "ask", "delete", "edit", "remove"}
Waiting ==
  [op : Ops, at : Waits, root : Root, read : Content, out : Content,
   agreed : BOOLEAN]
CommandState == Waiting \cup {Idle}

TypeOK ==
  /\ env \in [Root -> Content]
  /\ buf \in [Root -> Content]
  /\ up \in [Root -> [ver : Content, for : {"none", "me", "other", "torn"}]]
  /\ cmd \in [Slot -> CommandState]
  /\ kids \in [Root -> 0 .. MaxKids]
  /\ timer \in Root \cup {NoRoot}
  /\ armed \subseteq Root
  /\ firing \subseteq Root
  /\ opened \subseteq Root
  /\ last \in Content
  /\ kept \in [Root -> SUBSET Content]
  /\ given \in [Root -> SUBSET Content]
  /\ lost \subseteq Causes

-----------------------------------------------------------------------------
(* Reading and writing *)

\* decryptAny succeeds.
Decrypts(r) == up[r].for = "me"

\* create on a missing .env.up, mergeReencrypt on one that opens; one that does
\* not open makes the import throw.
Importable(r) == up[r].for \in {"me", "none"}

\* writeEnvUpAtomic: a new .env.up that opens with the current key.
Store(r, v) ==
  /\ up' = [up EXCEPT ![r] = [ver |-> v, for |-> "me"]]
  /\ kept' = [kept EXCEPT ![r] = @ \cup {v}]

Safe(r, v) == v \in {0} \cup kept[r] \cup given[r]

\* .env holds old and becomes v, by the step named; the user has agreed to drop
\* those contents.  A content counts when it is dropped first.
Replace(by, r, old, v, agreed) ==
  /\ env' = [env EXCEPT ![r] = v]
  /\ given' = [given EXCEPT ![r] = @ \cup {old} \cup agreed]
  /\ lost' = IF Safe(r, old) \/ old \in {v} \cup agreed THEN lost
             ELSE lost \cup {by}

Put(by, r, v, agreed) == Replace(by, r, env[r], v, agreed)

Agreed(p) == IF cmd[p].agreed THEN {cmd[p].read} ELSE {}

Wait(p, c) == cmd' = [cmd EXCEPT ![p] = c]

Return(p) == Wait(p, Idle)

At(p, op, at) == cmd[p].op = op /\ cmd[p].at = at

\* One of the three ways of the extension's Lock.
Locking(p)   == p \in ExtSlot /\ cmd[p].op \in ExtLocks
LockAt(p, at) == Locking(p) /\ cmd[p].at = at

Init ==
  /\ \E P \in SUBSET Root :  \* the protected ones; the others only have a .env
       /\ env = [r \in Root |-> IF r \in P THEN 0 ELSE 1]
       /\ up = [r \in Root |-> IF r \in P THEN [ver |-> 1, for |-> "me"]
                                          ELSE [ver |-> 0, for |-> "none"]]
       /\ kept = [r \in Root |-> IF r \in P THEN {1} ELSE {}]
  /\ buf = [r \in Root |-> 0]
  /\ cmd = [p \in Slot |-> Idle]
  /\ kids = [r \in Root |-> 0]
  /\ timer = NoRoot
  /\ armed = {}
  /\ firing = {}
  /\ opened = {}
  /\ last = 1
  /\ given = [r \in Root |-> {}]
  /\ lost = {}

-----------------------------------------------------------------------------
(* People and agents *)

NewContent == last < MaxVersion /\ last' = last + 1

\* Some command waits for an answer about r and will not look at .env again.
Asked(r) ==
  \E p \in Slot :
    /\ cmd[p].root = r
    /\ \/ cmd[p].at \in {"overwrite", "source", "duration", "ask", "delete",
                         "remove", "close"}
       \/ cmd[p].op = "lockBuffer"
       \/ cmd[p].op = "reencrypt" /\ cmd[p].at \in {"write", "verify"}

\* Some Lock that has taken the text and will look again would find v as it was.
Undoes(r, v) ==
  \E p \in ExtSlot :
    /\ cmd[p].root = r /\ cmd[p].read = v
    /\ cmd[p].op = "lock" /\ cmd[p].at \in {"write", "verify"}

MayEdit(r, v) ==
  /\ "editAsked" \in Habit \/ ~Asked(r)
  /\ "undoLocking" \in Habit \/ ~Undoes(r, v)

\* An agent or another program writes .env.
SaveFile(r) ==
  /\ NewContent
  /\ MayEdit(r, last + 1)
  /\ env' = [env EXCEPT ![r] = last + 1]
  /\ UNCHANGED <<buf, up, cmd, kids, timers, kept, given, lost>>

\* Somebody puts back what a Lock has read.
Undo(r) ==
  \E p \in ExtSlot :
    /\ cmd[p].root = r /\ cmd[p].op = "lock"
    /\ MayEdit(r, cmd[p].read)
    /\ env' = [env EXCEPT ![r] = cmd[p].read]
    /\ UNCHANGED <<buf, up, cmd, kids, timers, last, kept, given, lost>>

\* Somebody types in the editor.
Type(r) ==
  /\ NewContent
  /\ env[r] # 0
  /\ "typeLocking" \in Habit \/ ~ \E p \in ExtSlot : Locking(p) /\ cmd[p].root = r
  /\ buf' = [buf EXCEPT ![r] = last + 1]
  /\ UNCHANGED <<env, up, cmd, kids, timers, kept, given, lost>>

SaveBuffer(r) ==
  /\ buf[r] # 0
  /\ MayEdit(r, buf[r])
  /\ env' = [env EXCEPT ![r] = buf[r]]
  /\ buf' = [buf EXCEPT ![r] = 0]
  /\ UNCHANGED <<up, cmd, kids, timers, last, kept, given, lost>>

\* A teammate's .env.up arrives; it need not be encrypted to this user.
Pull(r) ==
  \E for \in {"me", "other"} :
    /\ NewContent
    /\ up' = [up EXCEPT ![r] = [ver |-> last + 1, for |-> for]]
    /\ kept' = [kept EXCEPT ![r] = @ \cup {last + 1}]
    /\ UNCHANGED <<env, buf, cmd, kids, timers, given, lost>>

\* The answer is no, the dialog is dismissed, the command gives up because its next
\* check fails, or the process is killed.
Cancel(p) ==
  /\ cmd[p] # Idle
  /\ Return(p)
  /\ UNCHANGED <<files, kids, timers, last, kept, given, lost>>

-----------------------------------------------------------------------------
(* up import, up lock, up unlock *)

\* up import [--delete]: nothing is asked between the read and the unlink.
CliImport(p, r) ==
  \E delete \in BOOLEAN :
    /\ cmd[p] = Idle
    /\ env[r] # 0
    /\ Importable(r)
    /\ Store(r, env[r])
    /\ env' = [env EXCEPT ![r] = IF delete THEN 0 ELSE @]
    /\ UNCHANGED <<buf, cmd, kids, timers, last, given, lost>>

\* up lock reads .env before it loads the key, which may prompt.
CliLockRead(p, r) ==
  /\ cmd[p] = Idle
  /\ env[r] # 0 /\ up[r].for # "none"
  /\ Wait(p, [Idle EXCEPT !.op = "lock", !.at = "key", !.root = r,
                          !.read = env[r]])
  /\ UNCHANGED <<files, kids, timers, last, kept, given, lost>>

\* Mutant: up lock does not ask for --force when .env has drifted.
CliLockCheckNoDrift(p) ==
  /\ At(p, "lock", "key")
  /\ Decrypts(cmd[p].root)
  /\ Wait(p, [cmd[p] EXCEPT !.at = "confirm"])
  /\ UNCHANGED <<files, kids, timers, last, kept, given, lost>>

\* Drift needs --force, an .env.up that does not open --force-delete.
CliLockCheck(p) ==
  LET r == cmd[p].root
      same == Decrypts(r) /\ cmd[p].read = up[r].ver
  IN /\ At(p, "lock", "key")
     /\ \/ Wait(p, [cmd[p] EXCEPT !.at = "confirm", !.agreed = ~same])
        \/ ~same /\ Return(p)
     /\ UNCHANGED <<files, kids, timers, last, kept, given, lost>>

\* Mutant: no second look at .env.
CliLockDeleteNoRecheck(p) ==
  /\ p \in CliSlot
  /\ At(p, "lock", "confirm")
  /\ Put("cliLock", cmd[p].root, 0, Agreed(p))
  /\ Return(p)
  /\ UNCHANGED <<buf, up, kids, timers, last, kept>>

\* Confirmed: .env goes if it is still what was read.  .env.up is not looked at.
CliLockDelete(p) ==
  LET r == cmd[p].root
  IN /\ p \in CliSlot
     /\ At(p, "lock", "confirm")
     /\ IF env[r] = cmd[p].read THEN Put("cliLock", r, 0, Agreed(p))
                                ELSE UNCHANGED <<env, given, lost>>
     /\ Return(p)
     /\ UNCHANGED <<buf, up, kids, timers, last, kept>>

\* up unlock: an .env that differs needs --force or an answer.
CliUnlock(p, r) ==
  LET differs == env[r] \notin {0, up[r].ver}
  IN /\ cmd[p] = Idle
     /\ Decrypts(r)
     /\ \/ /\ differs
           /\ Wait(p, [Idle EXCEPT !.op = "unlock", !.at = "overwrite",
                                   !.root = r, !.read = env[r],
                                   !.out = up[r].ver, !.agreed = TRUE])
           /\ UNCHANGED <<env, given, lost>>
        \/ /\ Put("cliUnlock", r, up[r].ver, IF differs THEN {env[r]} ELSE {})
           /\ Wait(p, [Idle EXCEPT !.op = "unlock", !.at = "autolock", !.root = r])
     /\ UNCHANGED <<buf, up, kids, timers, last, kept>>

CliUnlockWrite(p) ==
  LET r == cmd[p].root
  IN /\ At(p, "unlock", "overwrite")
     /\ Put("cliUnlock", r, cmd[p].out, Agreed(p))
     /\ Wait(p, [Idle EXCEPT !.op = "unlock", !.at = "autolock", !.root = r])
     /\ UNCHANGED <<buf, up, kids, timers, last, kept>>

\* A duration starts a child that outlives the command; nothing calls it off.
CliUnlockDuration(p) ==
  LET r == cmd[p].root
  IN /\ At(p, "unlock", "autolock")
     /\ Return(p)
     /\ \/ UNCHANGED kids
        \/ /\ "cliAutoLock" \in Habit /\ kids[r] < MaxKids
           /\ kids' = [kids EXCEPT ![r] = @ + 1]
     /\ UNCHANGED <<files, timers, last, kept, given, lost>>

\* The child (or the end of the shell) unlinks .env, whatever it has become.
KidFires(r) ==
  /\ kids[r] > 0
  /\ kids' = [kids EXCEPT ![r] = @ - 1]
  /\ Put("autoLock", r, 0, {})
  /\ UNCHANGED <<buf, up, cmd, timers, last, kept>>

-----------------------------------------------------------------------------
(* The extension's Lock *)

\* Mutant: Lock goes on without a workspace folder.
ExtLockNoFolder(p, r) ==
  /\ cmd[p] = Idle
  /\ env[r] # 0 /\ up[r].for # "none" /\ Decrypts(r)
  /\ Wait(p, [Idle EXCEPT !.op = "lock", !.at = "confirm", !.read = env[r]])
  /\ UNCHANGED <<files, kids, timers, last, kept, given, lost>>

\* The key is loaded first; then an unsaved editor, an .env.up that does not
\* open, and the normal case each ask their own question.  The one about the
\* editor says that .env goes and the editor's content stays.
ExtLock(p, r) ==
  /\ cmd[p] = Idle
  /\ env[r] # 0 /\ up[r].for # "none"
  /\ LET op == IF buf[r] # 0 THEN "lockBuffer"
               ELSE IF Decrypts(r) THEN "lock" ELSE "reencrypt"
     IN Wait(p, [Idle EXCEPT !.op = op, !.at = "confirm", !.root = r,
                             !.read = IF op = "reencrypt" THEN 0 ELSE env[r],
                             !.agreed = op = "lockBuffer"])
  /\ UNCHANGED <<files, kids, timers, last, kept, given, lost>>

\* Yes: import takes the editor's text, saved or not by now, or else what .env
\* holds now, and loads the key, which may prompt.
ExtLockTake(p) ==
  LET r == cmd[p].root
      text == IF cmd[p].op = "lockBuffer" /\ buf[r] # 0 THEN buf[r] ELSE env[r]
  IN /\ LockAt(p, "confirm")
     /\ text # 0
     /\ Wait(p, [cmd[p] EXCEPT !.at = "write", !.out = text])
     /\ UNCHANGED <<files, kids, timers, last, kept, given, lost>>

\* Mutant: Lock goes on without an import.
ExtLockNoWrite(p) ==
  /\ LockAt(p, "write")
  /\ Wait(p, [cmd[p] EXCEPT !.at = "verify", !.out = 0])
  /\ UNCHANGED <<files, kids, timers, last, kept, given, lost>>

\* The text is merged into .env.up, and the key loaded again to verify it.  After
\* "Re-encrypt" this only gets anywhere if .env.up opens by now.
ExtLockWrite(p) ==
  /\ LockAt(p, "write")
  /\ Importable(cmd[p].root)
  /\ Store(cmd[p].root, cmd[p].out)
  /\ Wait(p, [cmd[p] EXCEPT !.at = "verify", !.out = 0])
  /\ UNCHANGED <<env, buf, kids, timers, last, given, lost>>

\* Mutant: no second look at .env.
ExtLockVerifyNoRecheck(p) ==
  LET r == cmd[p].root
  IN /\ LockAt(p, "verify")
     /\ Decrypts(r)
     /\ \/ /\ buf[r] # 0
           /\ Wait(p, [cmd[p] EXCEPT !.at = "close"])
           /\ UNCHANGED <<env, given, lost>>
        \/ /\ buf[r] = 0
           /\ Put(cmd[p].op, r, 0, Agreed(p))
           /\ Return(p)
     /\ UNCHANGED <<buf, up, kids, timers, last, kept>>

\* The last look: at .env.up, and in the normal case at .env, which must hold what
\* was read at first.  Then closeEnvTab; the editor asks if its text is unsaved.
ExtLockVerify(p) ==
  LET r == cmd[p].root
  IN /\ LockAt(p, "verify")
     /\ Decrypts(r)
     /\ cmd[p].op = "lock" => env[r] = cmd[p].read
     /\ \/ /\ buf[r] # 0
           /\ Wait(p, [cmd[p] EXCEPT !.at = "close"])
           /\ UNCHANGED <<env, given, lost>>
        \/ /\ buf[r] = 0
           /\ Put(cmd[p].op, r, 0, Agreed(p))
           /\ Return(p)
     /\ UNCHANGED <<buf, up, kids, timers, last, kept>>

\* The tab stays, is closed without saving, or is saved: then its text is what .env
\* holds when it is removed.
ExtLockClose(p) ==
  LET r == cmd[p].root
      closed == [buf EXCEPT ![r] = 0]
  IN /\ LockAt(p, "close")
     /\ \/ /\ Put(cmd[p].op, r, 0, Agreed(p))
           /\ buf' \in {buf, closed}
        \/ /\ buf[r] # 0
           /\ Replace(cmd[p].op, r, buf[r], 0, Agreed(p))
           /\ buf' = closed
     /\ Return(p)
     /\ UNCHANGED <<up, kids, timers, last, kept>>

-----------------------------------------------------------------------------
(* The extension's Unlock and its timer *)

\* .env.up and .env are read once, before any question.
ExtUnlock(p, r) ==
  /\ cmd[p] = Idle
  /\ Decrypts(r)
  /\ Wait(p, [Idle EXCEPT !.op = "unlock", !.root = r, !.read = env[r],
                          !.at = IF env[r] # 0 THEN "source" ELSE "duration",
                          !.out = up[r].ver, !.agreed = env[r] # 0])
  /\ UNCHANGED <<files, kids, timers, last, kept, given, lost>>

\* The source of truth: mergeEnvContent keeps the values of the side chosen.
ExtUnlockSource(p) ==
  /\ At(p, "unlock", "source")
  /\ \E out \in {cmd[p].out, cmd[p].read} :
       Wait(p, [cmd[p] EXCEPT !.at = "duration", !.out = out])
  /\ UNCHANGED <<files, kids, timers, last, kept, given, lost>>

\* The timer this variable knows of is cleared, and set again for a duration.  A
\* timeout it no longer knows of counts as one with a new one of its directory.
SetTimer(r, timed) ==
  /\ timer' = IF timed THEN r ELSE NoRoot
  /\ armed' = (armed \ {timer}) \cup (IF timed THEN {r} ELSE {})

\* .env is replaced by what was merged from the files as they were before the
\* questions; with an .env there then, .env.up is written too, not atomically: a
\* crash leaves it out or torn.
ExtUnlockWrite(p) ==
  LET r == cmd[p].root
  IN /\ At(p, "unlock", "duration")
     /\ Put("extUnlock", r, cmd[p].out, Agreed(p))
     /\ \/ /\ IF cmd[p].read # 0 THEN Store(r, cmd[p].out) ELSE UNCHANGED <<up, kept>>
           /\ \E timed \in BOOLEAN : SetTimer(r, timed)
           /\ opened' = opened \cup {r}
           /\ UNCHANGED firing
        \/ /\ cmd[p].read # 0
           /\ up' \in {up, [up EXCEPT ![r] = [ver |-> 0, for |-> "torn"]]}
           /\ UNCHANGED <<kept, timers>>
     /\ Return(p)
     /\ UNCHANGED <<buf, kids, last>>

\* The timeout runs out and its callback loads the key, which may prompt.
TimerFires(r) ==
  /\ r \in armed
  /\ armed' = armed \ {r}
  /\ firing' = firing \cup {r}
  /\ UNCHANGED <<files, cmd, kids, timer, opened, last, kept, given, lost>>

\* Mutant: the auto-lock only asks whether .env.up opens.
RemovableNoDrift(r) == Decrypts(r) /\ buf[r] = 0 /\ env[r] # 0

\* isSafeToDelete, no unsaved editor, no drift.
Removable(r) == Decrypts(r) /\ buf[r] = 0 /\ env[r] # 0 /\ env[r] = up[r].ver

\* No key, not removable, or .env goes; the variable is reset in every case, even
\* if it holds a newer timer by now.
TimerEnds(r) ==
  /\ r \in firing
  /\ firing' = firing \ {r}
  /\ timer' = NoRoot
  /\ \/ UNCHANGED <<env, given, lost>>
     \/ Removable(r) /\ Put("timer", r, 0, {})
  /\ UNCHANGED <<buf, up, cmd, kids, armed, opened, last, kept>>

\* deactivate: the directories unlocked since the start are locked, as many as
\* the host gives it time for.  Every command and timer of the extension is gone.
CloseEditor ==
  \E D \in SUBSET {r \in opened : Removable(r)} :
    /\ env' = [r \in Root |-> IF r \in D THEN 0 ELSE env[r]]
    /\ lost' = lost \cup {"close" : r \in {d \in D : ~Safe(d, env[d])}}
    /\ cmd' = [p \in Slot |-> IF p \in ExtSlot THEN Idle ELSE cmd[p]]
    /\ timer' = NoRoot
    /\ armed' = {} /\ firing' = {} /\ opened' = {}
    /\ UNCHANGED <<buf, up, kids, last, kept, given>>

-----------------------------------------------------------------------------
(* The extension's Import and Safe Edit *)

\* .env is read; an .env.up that exists is only overwritten after a question.
ExtImport(p, r) ==
  /\ cmd[p] = Idle
  /\ env[r] # 0
  /\ Wait(p, [Idle EXCEPT !.op = "import", !.at = "ask", !.root = r,
                          !.read = env[r]])
  /\ UNCHANGED <<files, kids, timers, last, kept, given, lost>>

ExtImportWrite(p) ==
  /\ At(p, "import", "ask")
  /\ Importable(cmd[p].root)
  /\ Store(cmd[p].root, cmd[p].read)
  /\ Wait(p, [cmd[p] EXCEPT !.at = "delete"])
  /\ UNCHANGED <<env, buf, kids, timers, last, given, lost>>

\* "Delete source".
ExtImportDelete(p) ==
  /\ At(p, "import", "delete")
  /\ Put("deleteSource", cmd[p].root, 0, {})
  /\ Return(p)
  /\ UNCHANGED <<buf, up, kids, timers, last, kept>>

SafeEdit(p, r) ==
  /\ cmd[p] = Idle
  /\ Decrypts(r)
  /\ Wait(p, [Idle EXCEPT !.op = "edit", !.at = "edit", !.root = r])
  /\ UNCHANGED <<files, kids, timers, last, kept, given, lost>>

\* A save re-encrypts the text and asks about an .env that exists.
SafeEditSave(p) ==
  LET r == cmd[p].root
  IN /\ At(p, "edit", "edit")
     /\ NewContent
     /\ Importable(r)
     /\ Store(r, last + 1)
     /\ Wait(p, IF env[r] # 0 THEN [cmd[p] EXCEPT !.at = "remove"] ELSE cmd[p])
     /\ UNCHANGED <<env, buf, kids, timers, given, lost>>

\* "Keep", or "Remove .env", which is not compared with anything.
SafeEditRemove(p) ==
  /\ At(p, "edit", "remove")
  /\ Wait(p, [cmd[p] EXCEPT !.at = "edit"])
  /\ \/ UNCHANGED <<env, given, lost>>
     \/ "removeEdited" \in Habit /\ Put("removeEdited", cmd[p].root, 0, {})
  /\ UNCHANGED <<buf, up, kids, timers, last, kept>>

-----------------------------------------------------------------------------
Edit(r)   == SaveFile(r) \/ Undo(r) \/ Type(r) \/ SaveBuffer(r) \/ Pull(r)

CliStart(p, r) == CliImport(p, r) \/ CliLockRead(p, r) \/ CliUnlock(p, r)
CliStep(p) ==
  \/ CliLockCheck(p) \/ CliLockDelete(p)
  \/ CliUnlockWrite(p) \/ CliUnlockDuration(p)

ExtStart(p, r) ==
  ExtLock(p, r) \/ ExtUnlock(p, r) \/ ExtImport(p, r) \/ SafeEdit(p, r)
ExtStep(p) ==
  \/ ExtLockTake(p) \/ ExtLockWrite(p) \/ ExtLockVerify(p) \/ ExtLockClose(p)
  \/ ExtUnlockSource(p) \/ ExtUnlockWrite(p)
  \/ ExtImportWrite(p) \/ ExtImportDelete(p)
  \/ SafeEditSave(p) \/ SafeEditRemove(p)

Next ==
  \/ \E r \in Root : Edit(r) \/ KidFires(r) \/ TimerFires(r) \/ TimerEnds(r)
  \/ \E p \in CliSlot : CliStep(p) \/ \E r \in Root : CliStart(p, r)
  \/ \E p \in ExtSlot : ExtStep(p) \/ \E r \in Root : ExtStart(p, r)
  \/ \E p \in Slot : Cancel(p)
  \/ CloseEditor

Spec == Init /\ [][Next]_vars

-----------------------------------------------------------------------------
(* Properties *)

\* Nobody drops a content of .env, or of the editor on it, that .env.up has never
\* held, other than by agreeing to drop it: up lock, the extension's auto-lock and
\* the closing editor never do; each of the other steps only after one of the
\* habits named for it.  The extension's Lock, which does look again at .env, is
\* only fooled by what is typed under it or put back as it was.
Excuse ==
  [autoLock |-> {"cliAutoLock"}, removeEdited |-> {"removeEdited"},
   cliUnlock |-> {"editAsked"}, extUnlock |-> {"editAsked"},
   deleteSource |-> {"editAsked"},
   lock |-> {"typeLocking", "undoLocking"},
   lockBuffer |-> {"editAsked", "typeLocking"},
   reencrypt |-> {"editAsked", "typeLocking"}]

Excused(by) == by \in DOMAIN Excuse /\ Excuse[by] \cap Habit # {}

LossNeedsHabit == \A by \in lost : Excused(by)

\* ENV_DELETION_SAFETY_AUDIT.md: .env is never deleted, nor overwritten without
\* consent, when it has changes that .env.up does not have.
NothingLost == lost = {}

\* safeDelete.ts: when .env goes, unless the user agreed to drop what it holds, an
\* .env.up that opens with the current key is there.
GoneOnlyBehindUp ==
  [][\A r \in Root :
       env[r] # 0 /\ env'[r] = 0 =>
         \/ Decrypts(r)'
         \/ \E p \in Slot : cmd[p].root = r /\ cmd[p].agreed /\ cmd[p].read = env[r]]_vars

-----------------------------------------------------------------------------
(* Why nothing else is lost *)

\* What a command that will not look at .env again may find there, when nobody
\* edits under it.
Pending(p) ==
  LET r == cmd[p].root
      safe == {0} \cup kept[r] \cup given[r]
  IN /\ cmd[p].at \in {"overwrite", "ask", "source", "duration"}
          \/ cmd[p].op = "lockBuffer" => env[r] \in safe \cup {cmd[p].read}
     /\ cmd[p].at = "delete" => env[r] \in safe
     /\ cmd[p].op = "reencrypt" =>
          /\ cmd[p].at = "write" => env[r] \in safe \cup {cmd[p].out}
          /\ cmd[p].at \in {"verify", "close"} => env[r] \in safe

\* What a Lock that will look again may take for unchanged, when nobody puts it back.
Unchanged(p) ==
  LET r == cmd[p].root
      safe == {0} \cup kept[r] \cup given[r]
  IN p \in ExtSlot /\ cmd[p].op = "lock" /\ env[r] = cmd[p].read =>
       /\ cmd[p].at = "write" => cmd[p].read \in safe \cup {cmd[p].out}
       /\ cmd[p].at = "verify" => cmd[p].read \in safe

\* The unsaved text that an open Lock may find when it closes the tab, when nobody
\* types under it.
CleanLock(p) ==
  LET r == cmd[p].root
  IN Locking(p) =>
       IF cmd[p].op = "lockBuffer"
       THEN /\ cmd[p].at = "write" => buf[r] \in {0, cmd[p].out}
            /\ cmd[p].at \in {"verify", "close"} => buf[r] \in {0} \cup kept[r]
       ELSE buf[r] = 0 /\ cmd[p].at # "close"

\* What the command has asked for and what it has read.
Answered(p) ==
  /\ p \in CliSlot /\ At(p, "lock", "confirm") /\ ~cmd[p].agreed =>
       cmd[p].read \in kept[cmd[p].root]
  /\ cmd[p].at = "overwrite" \/ cmd[p].op = "lockBuffer" => cmd[p].agreed
  /\ cmd[p].at \in {"source", "duration"} /\ cmd[p].read # 0 => cmd[p].agreed
  /\ cmd[p].at \in {"overwrite", "source", "duration"} =>
       cmd[p].out \in {cmd[p].read} \cup kept[cmd[p].root]

UpKept    == \A r \in Root : Decrypts(r) => up[r].ver \in kept[r]
KidsAsked == "cliAutoLock" \notin Habit => \A r \in Root : kids[r] = 0

LossInvariant ==
  /\ LossNeedsHabit
  /\ UpKept /\ KidsAsked
  /\ \A p \in Slot : Answered(p)
  /\ "editAsked" \notin Habit => \A p \in Slot : Pending(p)
  /\ "undoLocking" \notin Habit => \A p \in Slot : Unchanged(p)
  /\ "typeLocking" \notin Habit => \A p \in Slot : CleanLock(p)
=============================================================================
