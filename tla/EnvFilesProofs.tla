--------------------------- MODULE EnvFilesProofs ---------------------------
(***************************************************************************)
(* For every set of directories, terminals and extension commands, every   *)
(* habit and every bound: types, and what the steps never lose.            *)
(***************************************************************************)
EXTENDS EnvFiles, TLAPS

-----------------------------------------------------------------------------
(* Type correctness *)

LEMMA ContentType == 0 \in Content /\ 1 \in Content /\ Content \subseteq Nat
BY BoundAssumption DEF Content

LEMMA TypeInit == Init => TypeOK
<1> SUFFICES ASSUME Init PROVE TypeOK
  OBVIOUS
<1>1. PICK P \in SUBSET Root :
        /\ env = [r \in Root |-> IF r \in P THEN 0 ELSE 1]
        /\ up = [r \in Root |-> IF r \in P THEN [ver |-> 1, for |-> "me"]
                                           ELSE [ver |-> 0, for |-> "none"]]
        /\ kept = [r \in Root |-> IF r \in P THEN {1} ELSE {}]
  BY DEF Init
<1>2. env \in [Root -> Content] /\ kept \in [Root -> SUBSET Content]
  BY <1>1, ContentType
<1>3. up \in [Root -> [ver : Content, for : {"none", "me", "other", "torn"}]]
  BY <1>1, ContentType
<1> QED BY <1>2, <1>3, ContentType, BoundAssumption DEF Init, TypeOK, CommandState

\* A slot that is not idle holds a command.
LEMMA WaitingType ==
  ASSUME TypeOK, NEW p \in Slot, cmd[p] # Idle
  PROVE  cmd[p] \in Waiting
BY DEF TypeOK, CommandState

LEMMA AtType ==
  ASSUME TypeOK, NEW p \in Slot, NEW op \in Ops, NEW at, At(p, op, at)
  PROVE  /\ cmd[p] # Idle
         /\ cmd[p] \in Waiting
         /\ cmd[p].root \in Root
         /\ cmd[p].read \in Content
         /\ cmd[p].out \in Content
         /\ cmd[p].agreed \in BOOLEAN
<1>1. cmd[p] # Idle
  BY DEF At, Ops, Idle, ExtLocks
<1>2. cmd[p] \in Waiting
  BY <1>1, WaitingType
<1> QED BY <1>1, <1>2 DEF Waiting

\* What a command may turn into.
LEMMA WaitType ==
  ASSUME TypeOK, NEW p \in Slot, NEW c \in CommandState, Wait(p, c)
  PROVE  cmd' \in [Slot -> CommandState]
BY DEF TypeOK, Wait

LEMMA ReturnType ==
  ASSUME TypeOK, NEW p \in Slot, Return(p)
  PROVE  cmd' \in [Slot -> CommandState]
BY WaitType DEF Return, CommandState

LEMMA ReplaceType ==
  ASSUME TypeOK, NEW by \in Causes, NEW r \in Root, NEW old \in Content,
         NEW v \in Content, NEW agreed \in SUBSET Content,
         Replace(by, r, old, v, agreed)
  PROVE  /\ env' \in [Root -> Content]
         /\ given' \in [Root -> SUBSET Content]
         /\ lost' \subseteq Causes
BY DEF TypeOK, Replace

LEMMA PutType ==
  ASSUME TypeOK, NEW by \in Causes, NEW r \in Root, NEW v \in Content,
         NEW agreed \in SUBSET Content, Put(by, r, v, agreed)
  PROVE  /\ env' \in [Root -> Content]
         /\ given' \in [Root -> SUBSET Content]
         /\ lost' \subseteq Causes
<1>1. env[r] \in Content
  BY DEF TypeOK
<1> QED BY <1>1, ReplaceType DEF Put

LEMMA StoreType ==
  ASSUME TypeOK, NEW r \in Root, NEW v \in Content, Store(r, v)
  PROVE  /\ up' \in [Root -> [ver : Content, for : {"none", "me", "other", "torn"}]]
         /\ kept' \in [Root -> SUBSET Content]
BY DEF TypeOK, Store

LEMMA NewContentType ==
  ASSUME TypeOK, NewContent
  PROVE  last + 1 \in Content /\ last' = last + 1
BY BoundAssumption DEF TypeOK, NewContent, Content

LEMMA TypeEdit ==
  ASSUME TypeOK, NEW r \in Root, Edit(r)
  PROVE  TypeOK'
<1> USE DEF files, timers
<1>1. CASE SaveFile(r)
  BY <1>1, NewContentType DEF SaveFile, TypeOK
<1>2. CASE Type(r)
  BY <1>2, NewContentType DEF Type, TypeOK
<1>3. CASE SaveBuffer(r)
  BY <1>3, ContentType DEF SaveBuffer, TypeOK
<1>4. CASE Pull(r)
  BY <1>4, NewContentType DEF Pull, TypeOK
<1>5. CASE Undo(r)
  <2>1. PICK p \in ExtSlot : /\ cmd[p].root = r /\ cmd[p].op = "lock"
                            /\ env' = [env EXCEPT ![r] = cmd[p].read]
    BY <1>5 DEF Undo
  <2>2. cmd[p].read \in Content
    BY <2>1, WaitingType DEF Slot, Idle, Waiting
  <2> QED BY <1>5, <2>1, <2>2 DEF Undo, TypeOK
<1> QED BY <1>1, <1>2, <1>3, <1>4, <1>5 DEF Edit

LEMMA TypeCliStart ==
  ASSUME TypeOK, NEW p \in CliSlot, NEW r \in Root, CliStart(p, r)
  PROVE  TypeOK'
<1> USE DEF files, timers
<1>0. p \in Slot /\ "cliUnlock" \in Causes
  BY DEF Slot, Causes
<1>a. /\ env[r] \in Content /\ up[r].ver \in Content
      /\ "lock" \in Ops /\ "unlock" \in Ops
      /\ "key" \in Waits /\ "overwrite" \in Waits /\ "autolock" \in Waits
  BY DEF TypeOK, Ops, Waits, ExtLocks
<1>1. CASE CliImport(p, r)
  <2>1. Store(r, env[r])
    BY <1>1 DEF CliImport
  <2>2. env' \in [Root -> Content]
    BY <1>1, ContentType DEF CliImport, TypeOK
  <2> QED BY <1>1, <1>a, <2>1, <2>2, StoreType DEF CliImport, TypeOK
<1>2. CASE CliLockRead(p, r)
  <2>1. [Idle EXCEPT !.op = "lock", !.at = "key", !.root = r, !.read = env[r]]
          \in CommandState
    BY <1>a, ContentType DEF Idle, Waiting, CommandState
  <2> QED BY <1>0, <1>2, <2>1, WaitType DEF CliLockRead, TypeOK
<1>3. CASE CliUnlock(p, r)
  <2>1. [Idle EXCEPT !.op = "unlock", !.at = "overwrite", !.root = r,
                     !.read = env[r], !.out = up[r].ver, !.agreed = TRUE]
          \in CommandState
    BY <1>a, ContentType DEF Idle, Waiting, CommandState
  <2>2. [Idle EXCEPT !.op = "unlock", !.at = "autolock", !.root = r] \in CommandState
    BY <1>a, ContentType DEF Idle, Waiting, CommandState
  <2>3. cmd' \in [Slot -> CommandState]
    BY <1>0, <1>3, <2>1, <2>2, WaitType DEF CliUnlock
  <2>4. CASE UNCHANGED <<env, given, lost>>
    BY <1>3, <2>3, <2>4 DEF CliUnlock, TypeOK
  <2>5. ASSUME NEW agreed \in SUBSET Content,
               Put("cliUnlock", r, up[r].ver, agreed)
        PROVE  TypeOK'
    BY <1>0, <1>a, <1>3, <2>3, <2>5, PutType DEF CliUnlock, TypeOK
  <2> QED BY <1>3, <1>a, <2>4, <2>5 DEF CliUnlock
<1> QED BY <1>1, <1>2, <1>3 DEF CliStart

\* The contents a user has agreed to drop are contents.
LEMMA AgreedType ==
  ASSUME TypeOK, NEW p \in Slot, cmd[p] # Idle
  PROVE  Agreed(p) \in SUBSET Content
BY WaitingType DEF Agreed, Waiting

LEMMA TypeCliStep ==
  ASSUME TypeOK, NEW p \in CliSlot, CliStep(p)
  PROVE  TypeOK'
<1> USE DEF files, timers
<1>0. p \in Slot /\ {"cliUnlock", "cliLock"} \subseteq Causes
  BY DEF Slot, Causes
<1>a. /\ "lock" \in Ops /\ "unlock" \in Ops
      /\ "confirm" \in Waits /\ "autolock" \in Waits
  BY DEF Ops, Waits, ExtLocks
<1>1. CASE CliLockCheck(p)
  <2>1. cmd[p] \in Waiting
    BY <1>0, <1>a, <1>1, AtType DEF CliLockCheck
  <2>2. ASSUME NEW b \in BOOLEAN
        PROVE  [cmd[p] EXCEPT !.at = "confirm", !.agreed = b] \in CommandState
    BY <1>a, <2>1 DEF Waiting, CommandState
  <2>3. cmd' \in [Slot -> CommandState]
    BY <1>0, <1>1, <2>2, WaitType, ReturnType DEF CliLockCheck
  <2> QED BY <1>1, <2>3 DEF CliLockCheck, TypeOK
<1>2. CASE CliLockDelete(p)
  <2>1. cmd[p] # Idle /\ cmd[p].root \in Root
    BY <1>0, <1>a, <1>2, AtType DEF CliLockDelete
  <2>2. cmd' \in [Slot -> CommandState]
    BY <1>0, <1>2, ReturnType DEF CliLockDelete
  <2>3. CASE Put("cliLock", cmd[p].root, 0, Agreed(p))
    BY <1>0, <1>2, <2>1, <2>2, <2>3, AgreedType, PutType, ContentType
       DEF CliLockDelete, TypeOK
  <2>4. CASE UNCHANGED <<env, given, lost>>
    BY <1>2, <2>2, <2>4 DEF CliLockDelete, TypeOK
  <2> QED BY <1>2, <2>3, <2>4 DEF CliLockDelete
<1>3. CASE CliUnlockWrite(p)
  <2>1. cmd[p] # Idle /\ cmd[p].root \in Root /\ cmd[p].out \in Content
    BY <1>0, <1>a, <1>3, AtType DEF CliUnlockWrite
  <2>2. [Idle EXCEPT !.op = "unlock", !.at = "autolock", !.root = cmd[p].root]
          \in CommandState
    BY <1>a, <2>1, ContentType DEF Idle, Waiting, CommandState
  <2>3. cmd' \in [Slot -> CommandState]
    BY <1>0, <1>3, <2>2, WaitType DEF CliUnlockWrite
  <2> QED BY <1>0, <1>3, <2>1, <2>3, AgreedType, PutType DEF CliUnlockWrite, TypeOK
<1>4. CASE CliUnlockDuration(p)
  <2>1. cmd[p].root \in Root
    BY <1>0, <1>a, <1>4, AtType DEF CliUnlockDuration
  <2>2. cmd' \in [Slot -> CommandState]
    BY <1>0, <1>4, ReturnType DEF CliUnlockDuration
  <2>3. kids' \in [Root -> 0 .. MaxKids]
    BY <1>4, <2>1, BoundAssumption DEF CliUnlockDuration, TypeOK
  <2> QED BY <1>4, <2>2, <2>3 DEF CliUnlockDuration, TypeOK
<1> QED BY <1>1, <1>2, <1>3, <1>4 DEF CliStep

LEMMA TypeTimers ==
  ASSUME TypeOK, NEW r \in Root, KidFires(r) \/ TimerFires(r) \/ TimerEnds(r)
  PROVE  TypeOK'
<1> USE DEF files, timers
<1>0. "autoLock" \in Causes /\ "timer" \in Causes
  BY DEF Causes
<1>1. CASE KidFires(r)
  <2>1. kids' \in [Root -> 0 .. MaxKids]
    BY <1>1, BoundAssumption DEF KidFires, TypeOK
  <2> QED BY <1>0, <1>1, <2>1, PutType, ContentType DEF KidFires, TypeOK
<1>2. CASE TimerFires(r)
  BY <1>2 DEF TimerFires, TypeOK
<1>3. CASE TimerEnds(r)
  <2>1. CASE UNCHANGED <<env, given, lost>>
    BY <1>3, <2>1 DEF TimerEnds, TypeOK
  <2>2. CASE Put("timer", r, 0, {})
    BY <1>0, <1>3, <2>2, PutType, ContentType DEF TimerEnds, TypeOK
  <2> QED BY <1>3, <2>1, <2>2 DEF TimerEnds
<1> QED BY <1>1, <1>2, <1>3

LEMMA TypeCancel ==
  ASSUME TypeOK, NEW p \in Slot, Cancel(p)
  PROVE  TypeOK'
BY ReturnType DEF Cancel, TypeOK, files, timers

LEMMA TypeClose ==
  ASSUME TypeOK, CloseEditor
  PROVE  TypeOK'
<1>1. PICK D \in SUBSET Root :
        /\ env' = [r \in Root |-> IF r \in D THEN 0 ELSE env[r]]
        /\ lost' = lost \cup {"close" : r \in {d \in D : ~Safe(d, env[d])}}
  BY DEF CloseEditor, TypeOK
<1>2. env' \in [Root -> Content] /\ lost' \subseteq Causes
  BY <1>1, ContentType DEF TypeOK, Causes
<1>3. cmd' \in [Slot -> CommandState]
  BY DEF CloseEditor, TypeOK, CommandState
<1> QED BY <1>2, <1>3 DEF CloseEditor, TypeOK

LEMMA TypeExtStart ==
  ASSUME TypeOK, NEW p \in ExtSlot, NEW r \in Root, ExtStart(p, r)
  PROVE  TypeOK'
<1> USE DEF files, timers
<1>0. p \in Slot
  BY DEF Slot
<1>a. /\ env[r] \in Content /\ up[r].ver \in Content
      /\ (buf[r] # 0) \in BOOLEAN /\ (env[r] # 0) \in BOOLEAN
      /\ {"unlock", "import", "edit"} \subseteq Ops /\ ExtLocks \subseteq Ops
      /\ {"confirm", "source", "duration", "ask", "edit"} \subseteq Waits
  BY DEF TypeOK, Ops, Waits
<1>1. CASE ExtLock(p, r)
  <2>1. PICK op \in ExtLocks :
          Wait(p, [Idle EXCEPT !.op = op, !.at = "confirm", !.root = r,
                               !.read = IF op = "reencrypt" THEN 0 ELSE env[r],
                               !.agreed = op = "lockBuffer"])
    BY <1>1 DEF ExtLock, ExtLocks
  <2>2. (IF op = "reencrypt" THEN 0 ELSE env[r]) \in Content
    BY <1>a, ContentType
  <2>4. [Idle EXCEPT !.op = op, !.at = "confirm", !.root = r,
                     !.read = IF op = "reencrypt" THEN 0 ELSE env[r],
                     !.agreed = op = "lockBuffer"] \in CommandState
    BY <1>a, <2>1, <2>2, ContentType DEF Idle, Waiting, CommandState
  <2>3. cmd' \in [Slot -> CommandState]
    BY <1>0, <2>1, <2>4, WaitType
  <2> QED BY <1>1, <2>3 DEF ExtLock, TypeOK
<1>2. CASE ExtUnlock(p, r)
  <2>1. PICK at \in {"source", "duration"} :
          Wait(p, [Idle EXCEPT !.op = "unlock", !.root = r, !.read = env[r],
                               !.at = at, !.out = up[r].ver, !.agreed = env[r] # 0])
    BY <1>2 DEF ExtUnlock
  <2>2. [Idle EXCEPT !.op = "unlock", !.root = r, !.read = env[r],
                     !.at = at, !.out = up[r].ver, !.agreed = env[r] # 0] \in CommandState
    BY <1>a, <2>1, ContentType DEF Idle, Waiting, CommandState
  <2>3. cmd' \in [Slot -> CommandState]
    BY <1>0, <2>1, <2>2, WaitType
  <2> QED BY <1>2, <2>3 DEF ExtUnlock, TypeOK
<1>3. CASE ExtImport(p, r)
  <2>1. [Idle EXCEPT !.op = "import", !.at = "ask", !.root = r, !.read = env[r]]
          \in CommandState
    BY <1>a, ContentType DEF Idle, Waiting, CommandState
  <2> QED BY <1>0, <1>3, <2>1, WaitType DEF ExtImport, TypeOK
<1>4. CASE SafeEdit(p, r)
  <2>1. [Idle EXCEPT !.op = "edit", !.at = "edit", !.root = r] \in CommandState
    BY <1>a, ContentType DEF Idle, Waiting, CommandState
  <2> QED BY <1>0, <1>4, <2>1, WaitType DEF SafeEdit, TypeOK
<1> QED BY <1>1, <1>2, <1>3, <1>4 DEF ExtStart

\* A Lock of the extension that waits.
LEMMA LockType ==
  ASSUME TypeOK, NEW p \in ExtSlot, NEW at, LockAt(p, at)
  PROVE  /\ p \in Slot /\ cmd[p] # Idle /\ cmd[p] \in Waiting
         /\ cmd[p].at = at
         /\ cmd[p].op \in ExtLocks /\ cmd[p].op \in Causes
         /\ cmd[p].root \in Root
         /\ cmd[p].read \in Content /\ cmd[p].out \in Content
         /\ Agreed(p) \in SUBSET Content
<1>1. /\ p \in Slot /\ cmd[p] # Idle
      /\ cmd[p].at = at /\ cmd[p].op \in ExtLocks
  BY DEF LockAt, Locking, ExtLocks, Idle, Slot
<1> QED BY <1>1, WaitingType, AgreedType DEF Waiting, Causes

LEMMA TypeExtLock ==
  ASSUME TypeOK, NEW p \in ExtSlot,
         ExtLockTake(p) \/ ExtLockWrite(p) \/ ExtLockVerify(p) \/ ExtLockClose(p)
  PROVE  TypeOK'
<1> USE DEF files, timers
<1>0. {"write", "verify", "close"} \subseteq Waits
  BY DEF Waits
<1>a. ASSUME cmd[p] \in Waiting, NEW at \in Waits, NEW out \in Content
      PROVE  /\ [cmd[p] EXCEPT !.at = at, !.out = out] \in CommandState
             /\ [cmd[p] EXCEPT !.at = at] \in CommandState
  BY <1>a DEF Waiting, CommandState
<1>1. CASE ExtLockTake(p)
  <2> DEFINE r == cmd[p].root
             text == IF cmd[p].op = "lockBuffer" /\ buf[r] # 0 THEN buf[r] ELSE env[r]
  <2>1. p \in Slot /\ r \in Root /\ cmd[p] \in Waiting
    BY <1>1, LockType DEF ExtLockTake
  <2>2. text \in Content
    BY <2>1 DEF TypeOK
  <2>3. Wait(p, [cmd[p] EXCEPT !.at = "write", !.out = text])
    BY <1>1 DEF ExtLockTake
  <2> HIDE DEF text
  <2>4. cmd' \in [Slot -> CommandState]
    BY <1>0, <1>a, <2>1, <2>2, <2>3, WaitType
  <2> QED BY <1>1, <2>4 DEF ExtLockTake, TypeOK
<1>2. CASE ExtLockWrite(p)
  <2>1. /\ p \in Slot /\ cmd[p].root \in Root /\ cmd[p] \in Waiting
        /\ cmd[p].out \in Content
    BY <1>2, LockType DEF ExtLockWrite
  <2>2. cmd' \in [Slot -> CommandState]
    BY <1>0, <1>2, <1>a, <2>1, WaitType, ContentType DEF ExtLockWrite
  <2> QED BY <1>2, <2>1, <2>2, StoreType DEF ExtLockWrite, TypeOK
<1>3. CASE ExtLockVerify(p)
  <2>1. /\ p \in Slot /\ cmd[p].root \in Root /\ cmd[p] \in Waiting
        /\ cmd[p].op \in Causes /\ Agreed(p) \in SUBSET Content
    BY <1>3, LockType DEF ExtLockVerify
  <2>2. cmd' \in [Slot -> CommandState]
    BY <1>0, <1>3, <1>a, <2>1, WaitType, ReturnType, ContentType DEF ExtLockVerify
  <2>3. CASE UNCHANGED <<env, given, lost>>
    BY <1>3, <2>2, <2>3 DEF ExtLockVerify, TypeOK
  <2>4. CASE Put(cmd[p].op, cmd[p].root, 0, Agreed(p))
    BY <1>3, <2>1, <2>2, <2>4, PutType, ContentType DEF ExtLockVerify, TypeOK
  <2> QED BY <1>3, <2>3, <2>4 DEF ExtLockVerify
<1>4. CASE ExtLockClose(p)
  <2> DEFINE r == cmd[p].root
  <2>1. /\ p \in Slot /\ r \in Root /\ cmd[p] \in Waiting
        /\ cmd[p].op \in Causes /\ Agreed(p) \in SUBSET Content
    BY <1>4, LockType DEF ExtLockClose
  <2>2. cmd' \in [Slot -> CommandState]
    BY <1>4, <2>1, ReturnType DEF ExtLockClose
  <2>3. buf' \in [Root -> Content] /\ buf[r] \in Content /\ env[r] \in Content
    BY <1>4, <2>1, ContentType DEF ExtLockClose, TypeOK
  <2>4. PICK old \in Content : Replace(cmd[p].op, r, old, 0, Agreed(p))
    BY <1>4, <2>3 DEF ExtLockClose, Put
  <2>5. /\ env' \in [Root -> Content]
        /\ given' \in [Root -> SUBSET Content]
        /\ lost' \subseteq Causes
    BY <2>1, <2>4, ReplaceType, ContentType
  <2> QED BY <1>4, <2>2, <2>3, <2>5 DEF ExtLockClose, TypeOK
<1> QED BY <1>1, <1>2, <1>3, <1>4

LEMMA TypeExtUnlock ==
  ASSUME TypeOK, NEW p \in ExtSlot, ExtUnlockSource(p) \/ ExtUnlockWrite(p)
  PROVE  TypeOK'
<1> USE DEF files
<1>0. p \in Slot /\ "unlock" \in Ops /\ "duration" \in Waits /\ "extUnlock" \in Causes
  BY DEF Slot, Ops, Waits, Causes
<1>1. CASE ExtUnlockSource(p)
  <2>1. cmd[p] \in Waiting /\ cmd[p].out \in Content /\ cmd[p].read \in Content
    BY <1>0, <1>1, AtType DEF ExtUnlockSource
  <2>2. ASSUME NEW out \in Content
        PROVE  [cmd[p] EXCEPT !.at = "duration", !.out = out] \in CommandState
    BY <1>0, <2>1 DEF Waiting, CommandState
  <2>3. cmd' \in [Slot -> CommandState]
    BY <1>0, <1>1, <2>1, <2>2, WaitType DEF ExtUnlockSource
  <2> QED BY <1>1, <2>3 DEF ExtUnlockSource, TypeOK, timers
<1>2. CASE ExtUnlockWrite(p)
  <2> DEFINE r == cmd[p].root
  <2>1. cmd[p] # Idle /\ r \in Root /\ cmd[p].out \in Content
    BY <1>0, <1>2, AtType DEF ExtUnlockWrite
  <2>2. cmd' \in [Slot -> CommandState]
    BY <1>0, <1>2, ReturnType DEF ExtUnlockWrite
  <2>3. /\ env' \in [Root -> Content]
        /\ given' \in [Root -> SUBSET Content]
        /\ lost' \subseteq Causes
    BY <1>0, <1>2, <2>1, AgreedType, PutType DEF ExtUnlockWrite
  <2>4. /\ up' \in [Root -> [ver : Content, for : {"none", "me", "other", "torn"}]]
        /\ kept' \in [Root -> SUBSET Content]
    <3>1. CASE Store(r, cmd[p].out)
      BY <2>1, <3>1, StoreType
    <3>2. CASE UNCHANGED <<up, kept>>
      BY <3>2 DEF TypeOK
    <3>3. CASE up' = [up EXCEPT ![r] = [ver |-> 0, for |-> "torn"]] /\ UNCHANGED kept
      BY <2>1, <3>3, ContentType DEF TypeOK
    <3> QED BY <1>2, <3>1, <3>2, <3>3 DEF ExtUnlockWrite
  <2>5. /\ timer' \in Root \cup {NoRoot} /\ armed' \subseteq Root
        /\ opened' \subseteq Root /\ firing' \subseteq Root
    BY <1>2, <2>1 DEF ExtUnlockWrite, SetTimer, TypeOK, timers
  <2> QED BY <1>2, <2>2, <2>3, <2>4, <2>5 DEF ExtUnlockWrite, TypeOK
<1> QED BY <1>1, <1>2

LEMMA TypeExtFile ==
  ASSUME TypeOK, NEW p \in ExtSlot,
         \/ ExtImportWrite(p) \/ ExtImportDelete(p)
         \/ SafeEditSave(p) \/ SafeEditRemove(p)
  PROVE  TypeOK'
<1> USE DEF files, timers
<1>0. /\ p \in Slot /\ "import" \in Ops /\ "edit" \in Ops
      /\ {"delete", "remove", "edit"} \subseteq Waits
      /\ {"deleteSource", "removeEdited"} \subseteq Causes
  BY DEF Slot, Ops, Waits, Causes
<1>a. ASSUME cmd[p] \in Waiting, NEW at \in {"delete", "remove", "edit"}
      PROVE  [cmd[p] EXCEPT !.at = at] \in CommandState
  BY <1>0, <1>a DEF Waiting, CommandState
<1>1. CASE ExtImportWrite(p)
  <2>1. cmd[p] \in Waiting /\ cmd[p].root \in Root /\ cmd[p].read \in Content
    BY <1>0, <1>1, AtType DEF ExtImportWrite
  <2>2. cmd' \in [Slot -> CommandState]
    BY <1>0, <1>1, <1>a, <2>1, WaitType DEF ExtImportWrite
  <2> QED BY <1>1, <2>1, <2>2, StoreType DEF ExtImportWrite, TypeOK
<1>2. CASE ExtImportDelete(p)
  <2>1. cmd[p].root \in Root
    BY <1>0, <1>2, AtType DEF ExtImportDelete
  <2>2. cmd' \in [Slot -> CommandState]
    BY <1>0, <1>2, ReturnType DEF ExtImportDelete
  <2> QED BY <1>0, <1>2, <2>1, <2>2, PutType, ContentType DEF ExtImportDelete, TypeOK
<1>3. CASE SafeEditSave(p)
  <2>1. cmd[p] \in Waiting /\ cmd[p].root \in Root
    BY <1>0, <1>3, AtType DEF SafeEditSave
  <2>2. cmd' \in [Slot -> CommandState]
    BY <1>0, <1>3, <1>a, <2>1, WaitType DEF SafeEditSave, CommandState
  <2> QED BY <1>3, <2>1, <2>2, NewContentType, StoreType DEF SafeEditSave, TypeOK
<1>4. CASE SafeEditRemove(p)
  <2>1. cmd[p] \in Waiting /\ cmd[p].root \in Root
    BY <1>0, <1>4, AtType DEF SafeEditRemove
  <2>2. cmd' \in [Slot -> CommandState]
    BY <1>0, <1>4, <1>a, <2>1, WaitType DEF SafeEditRemove
  <2>3. CASE UNCHANGED <<env, given, lost>>
    BY <1>4, <2>2, <2>3 DEF SafeEditRemove, TypeOK
  <2>4. CASE Put("removeEdited", cmd[p].root, 0, {})
    BY <1>0, <1>4, <2>1, <2>2, <2>4, PutType, ContentType DEF SafeEditRemove, TypeOK
  <2> QED BY <1>4, <2>3, <2>4 DEF SafeEditRemove
<1> QED BY <1>1, <1>2, <1>3, <1>4

LEMMA TypeStep == TypeOK /\ [Next]_vars => TypeOK'
<1> SUFFICES ASSUME TypeOK, [Next]_vars PROVE TypeOK'
  OBVIOUS
<1>1. CASE Next
  <2>1. ASSUME NEW r \in Root, Edit(r) \/ KidFires(r) \/ TimerFires(r) \/ TimerEnds(r)
        PROVE  TypeOK'
    BY <2>1, TypeEdit, TypeTimers
  <2>2. ASSUME NEW p \in CliSlot, CliStep(p) \/ \E r \in Root : CliStart(p, r)
        PROVE  TypeOK'
    BY <2>2, TypeCliStep, TypeCliStart
  <2>3. ASSUME NEW p \in ExtSlot, ExtStep(p) \/ \E r \in Root : ExtStart(p, r)
        PROVE  TypeOK'
    BY <2>3, TypeExtStart, TypeExtLock, TypeExtUnlock, TypeExtFile DEF ExtStep
  <2> QED BY <1>1, <2>1, <2>2, <2>3, TypeCancel, TypeClose DEF Next
<1>2. CASE UNCHANGED vars
  BY <1>2 DEF vars, files, timers, TypeOK
<1> QED BY <1>1, <1>2

\* Every variable keeps its type, whatever happens to the files and in which order.
THEOREM TypeCorrect == Spec => []TypeOK
BY TypeInit, TypeStep, PTL DEF Spec

-----------------------------------------------------------------------------
(* How steps relate to the commands that wait meanwhile *)

\* What has been kept or dropped stays so.
Grows == \A r \in Root : kept[r] \subseteq kept'[r] /\ given[r] \subseteq given'[r]

\* .env is left alone, or becomes a content nobody misses.
Calm(r) == env'[r] \in {env[r], 0} \cup kept'[r] \cup given'[r]

\* What the invariant says of one command.
Part(p) ==
  /\ Answered(p)
  /\ "editAsked" \notin Habit => Pending(p)
  /\ "undoLocking" \notin Habit => Unchanged(p)
  /\ "typeLocking" \notin Habit => CleanLock(p)

LEMMA Parts ==
  LossInvariant <=> LossNeedsHabit /\ UpKept /\ KidsAsked /\ \A p \in Slot : Part(p)
BY DEF LossInvariant, Part

LEMMA IdlePart ==
  ASSUME NEW p \in Slot, cmd[p] = Idle
  PROVE  Part(p)
<1>1. cmd[p].op = "none" /\ cmd[p].at = "idle"
  BY DEF Idle
<1> QED BY <1>1 DEF Part, Answered, Pending, Unchanged, CleanLock, Locking, At, ExtLocks

\* A command that is idle, or that the invariant says nothing of, after a step.
LEMMA FreePartNext ==
  ASSUME NEW p \in Slot,
         \/ cmd'[p] = Idle
         \/ /\ cmd'[p].op \notin ExtLocks \/ (p \notin ExtSlot /\ cmd'[p].op = "lock")
            /\ cmd'[p].at \notin {"confirm", "overwrite", "ask", "source", "duration",
                                 "delete"}
  PROVE  Part(p)'
<1>1. /\ cmd'[p].op \notin ExtLocks \/ (p \notin ExtSlot /\ cmd'[p].op = "lock")
      /\ cmd'[p].at \notin {"confirm", "overwrite", "ask", "source", "duration", "delete"}
  BY DEF Idle, ExtLocks
<1> QED BY <1>1 DEF Part, Answered, Pending, Unchanged, CleanLock, Locking, At, ExtLocks

LEMMA KeepsAnswered ==
  ASSUME TypeOK, Grows, NEW p \in Slot, cmd[p] # Idle, cmd'[p] = cmd[p], Answered(p)
  PROVE  Answered(p)'
<1>1. cmd[p].root \in Root
  BY WaitingType DEF Waiting
<1> QED BY <1>1 DEF Answered, At, Grows

LEMMA KeepsPending ==
  ASSUME TypeOK, Grows, NEW p \in Slot, cmd[p] # Idle, cmd'[p] = cmd[p], Pending(p),
         Calm(cmd[p].root)
  PROVE  Pending(p)'
<1>1. cmd[p].root \in Root
  BY WaitingType DEF Waiting
<1>2. CASE env'[cmd[p].root] = env[cmd[p].root]
  BY <1>1, <1>2 DEF Pending, Grows
<1>3. CASE env'[cmd[p].root] \in {0} \cup kept'[cmd[p].root] \cup given'[cmd[p].root]
  BY <1>1, <1>3 DEF Pending, Grows
<1> QED BY <1>2, <1>3 DEF Calm

LEMMA KeepsUnchanged ==
  ASSUME TypeOK, Grows, NEW p \in Slot, cmd[p] # Idle, cmd'[p] = cmd[p], Unchanged(p),
         Calm(cmd[p].root)
  PROVE  Unchanged(p)'
<1>1. cmd[p].root \in Root
  BY WaitingType DEF Waiting
<1>2. CASE env'[cmd[p].root] = env[cmd[p].root]
  BY <1>1, <1>2 DEF Unchanged, Grows
<1>3. CASE env'[cmd[p].root] \in {0} \cup kept'[cmd[p].root] \cup given'[cmd[p].root]
  BY <1>1, <1>3 DEF Unchanged, Grows
<1> QED BY <1>2, <1>3 DEF Calm

LEMMA KeepsClean ==
  ASSUME TypeOK, Grows, NEW p \in Slot, cmd[p] # Idle, cmd'[p] = cmd[p], CleanLock(p),
         buf'[cmd[p].root] \in {buf[cmd[p].root], 0}
  PROVE  CleanLock(p)'
<1>1. cmd[p].root \in Root
  BY WaitingType DEF Waiting
<1> QED BY <1>1 DEF CleanLock, Locking, Grows

\* Saving or closing an editor does not make it dirty.
Cleaner == \A s \in Root : buf'[s] \in {buf[s], 0}

LEMMA KeepsPart ==
  ASSUME TypeOK, Grows, \A r \in Root : Calm(r), Cleaner,
         NEW p \in Slot, cmd'[p] = cmd[p], Part(p)
  PROVE  Part(p)'
<1>1. CASE cmd[p] = Idle
  BY <1>1, FreePartNext
<1>2. CASE cmd[p] # Idle
  <2>1. cmd[p].root \in Root
    BY <1>2, WaitingType DEF Waiting
  <2> QED BY <1>2, <2>1, KeepsAnswered, KeepsPending, KeepsUnchanged, KeepsClean
          DEF Part, Cleaner
<1> QED BY <1>1, <1>2

\* A step of slot q leaves the invariant true of every slot if it does of q.
LEMMA OneSlot ==
  ASSUME TypeOK, LossInvariant, Grows, \A r \in Root : Calm(r), Cleaner,
         NEW q \in Slot, NEW c, Wait(q, c), Part(q)',
         LossNeedsHabit', UpKept', KidsAsked'
  PROVE  LossInvariant'
<1>1. \A p \in Slot \ {q} : cmd'[p] = cmd[p]
  BY DEF Wait, TypeOK
<1>2. \A p \in Slot : Part(p)'
  BY <1>1, KeepsPart, Parts
<1> QED BY <1>2 DEF LossInvariant, Part

LEMMA NoSlot ==
  ASSUME TypeOK, LossInvariant, Grows, \A r \in Root : Calm(r), Cleaner, UNCHANGED cmd,
         LossNeedsHabit', UpKept', KidsAsked'
  PROVE  LossInvariant'
<1>1. \A p \in Slot : Part(p)'
  BY KeepsPart, Parts
<1> QED BY <1>1 DEF LossInvariant, Part

\* The steps that do not look again, and what excuses them.
LEMMA Excuses ==
  /\ "cliAutoLock" \in Habit => Excused("autoLock")
  /\ "removeEdited" \in Habit => Excused("removeEdited")
  /\ "editAsked" \in Habit => /\ Excused("cliUnlock") /\ Excused("extUnlock")
                             /\ Excused("deleteSource") /\ Excused("lockBuffer")
                             /\ Excused("reencrypt")
  /\ "undoLocking" \in Habit => Excused("lock")
  /\ "typeLocking" \in Habit => /\ Excused("lock") /\ Excused("lockBuffer")
                               /\ Excused("reencrypt")
BY DEF Excused, Excuse

\* An .env that changes hands drops what may be dropped, or the step has its habit.
LEMMA ReplaceLoss ==
  ASSUME LossNeedsHabit, NEW by, NEW r, NEW old, NEW v, NEW agreed,
         Replace(by, r, old, v, agreed),
         Safe(r, old) \/ old \in {v} \cup agreed \/ Excused(by)
  PROVE  LossNeedsHabit'
<1>1. CASE lost' = lost
  BY <1>1 DEF LossNeedsHabit, Excused
<1>2. CASE lost' = lost \cup {by} /\ ~(Safe(r, old) \/ old \in {v} \cup agreed)
  BY <1>2 DEF LossNeedsHabit, Excused
<1> QED BY <1>1, <1>2 DEF Replace

LEMMA PutLoss ==
  ASSUME LossNeedsHabit, NEW by, NEW r, NEW v, NEW agreed, Put(by, r, v, agreed),
         Safe(r, env[r]) \/ env[r] \in {v} \cup agreed \/ Excused(by)
  PROVE  LossNeedsHabit'
BY ReplaceLoss DEF Put

LEMMA ReplaceCalm ==
  ASSUME TypeOK, NEW by, NEW r \in Root, NEW old, NEW v \in Content, NEW agreed,
         Replace(by, r, old, v, agreed), \A s \in Root : kept[s] \subseteq kept'[s],
         v \in {0, env[r]} \cup kept'[r] \cup given[r] \cup agreed
  PROVE  Grows /\ \A s \in Root : Calm(s)
<1>1. \A s \in Root : given[s] \subseteq given'[s]
  BY DEF Replace, TypeOK
<1>2. agreed \subseteq given'[r] /\ env'[r] = v
  BY DEF Replace, TypeOK
<1>3. \A s \in Root \ {r} : env'[s] = env[s]
  BY DEF Replace, TypeOK
<1> QED BY <1>1, <1>2, <1>3 DEF Grows, Calm

LEMMA PutCalm ==
  ASSUME TypeOK, NEW by, NEW r \in Root, NEW v \in Content, NEW agreed, Put(by, r, v, agreed),
         \A s \in Root : kept[s] \subseteq kept'[s],
         v \in {0, env[r]} \cup kept'[r] \cup given[r] \cup agreed
  PROVE  Grows /\ \A s \in Root : Calm(s)
BY ReplaceCalm DEF Put

LEMMA StoreGrows ==
  ASSUME TypeOK, NEW r \in Root, NEW v \in Content, Store(r, v),
         UpKept
  PROVE  /\ \A s \in Root : kept[s] \subseteq kept'[s]
         /\ v \in kept'[r]
         /\ UpKept'
BY DEF Store, TypeOK, Decrypts, UpKept

\* A step that leaves the files alone and only moves a slot.
LEMMA MoveOnly ==
  ASSUME TypeOK, LossInvariant, NEW q \in Slot, NEW c, Wait(q, c),
         UNCHANGED <<files, kids, timers, last, kept, given, lost>>,
         Part(q)'
  PROVE  LossInvariant'
<1> USE DEF files
<1>1. Grows /\ Cleaner /\ \A r \in Root : Calm(r)
  BY DEF Grows, Calm, Cleaner
<1>2. LossNeedsHabit' /\ UpKept' /\ KidsAsked'
  BY DEF LossInvariant, LossNeedsHabit, Excused, UpKept, KidsAsked, Decrypts
<1> QED BY <1>1, <1>2, OneSlot

LEMMA LossInit == Init => LossInvariant
<1> SUFFICES ASSUME Init PROVE LossInvariant
  OBVIOUS
<1>1. \A p \in Slot : Part(p)
  BY IdlePart DEF Init
<1>2. UpKept
  BY DEF Init, UpKept, Decrypts
<1>3. LossNeedsHabit /\ KidsAsked
  BY DEF Init, LossNeedsHabit, KidsAsked
<1> QED BY <1>1, <1>2, <1>3, Parts

LEMMA LossCancel ==
  ASSUME TypeOK, LossInvariant, NEW p \in Slot, Cancel(p)
  PROVE  LossInvariant'
<1>1. Wait(p, Idle) /\ cmd'[p] = Idle
  BY DEF Cancel, Return, Wait, TypeOK
<1> QED BY <1>1, FreePartNext, MoveOnly DEF Cancel

-----------------------------------------------------------------------------
(* People and agents *)

\* .env becomes what somebody may put there.
LEMMA EditedPart ==
  ASSUME TypeOK, LossInvariant, NEW r \in Root, NEW v, MayEdit(r, v),
         env' = [env EXCEPT ![r] = v], Cleaner,
         UNCHANGED <<up, cmd, kids, kept, given, lost>>
  PROVE  LossInvariant'
<1>1. LossNeedsHabit' /\ UpKept' /\ KidsAsked'
  BY DEF LossInvariant, LossNeedsHabit, Excused, UpKept, KidsAsked, Decrypts
<1>2. ASSUME NEW p \in Slot
      PROVE  Part(p)'
  <2>0. Part(p)
    BY Parts
  <2>1. CASE cmd[p] = Idle
    BY <2>1, FreePartNext
  <2>2. CASE cmd[p] # Idle /\ cmd[p].root # r
    <3>1. cmd[p].root \in Root
      BY <2>2, WaitingType DEF Waiting
    <3>2. env'[cmd[p].root] = env[cmd[p].root]
      BY <2>2, <3>1 DEF TypeOK
    <3>3. Grows /\ Calm(cmd[p].root)
      BY <3>2 DEF Grows, Calm
    <3> QED BY <2>0, <2>2, <3>1, <3>3, KeepsAnswered, KeepsPending, KeepsUnchanged,
               KeepsClean DEF Part, Cleaner
  <2>3. CASE cmd[p] # Idle /\ cmd[p].root = r
    <3>1. Grows
      BY DEF Grows
    <3>2. Answered(p)' /\ ("typeLocking" \notin Habit => CleanLock(p)')
      BY <2>0, <2>3, <3>1, KeepsAnswered, KeepsClean DEF Part, Cleaner
    <3>3. "editAsked" \notin Habit => Pending(p)'
      <4> SUFFICES ASSUME "editAsked" \notin Habit PROVE Pending(p)'
        OBVIOUS
      <4>1. ~Asked(r)
        BY DEF MayEdit
      <4>2. /\ cmd[p].at \notin {"overwrite", "source", "duration", "ask", "delete", "close"}
            /\ cmd[p].op # "lockBuffer"
            /\ cmd[p].op = "reencrypt" => cmd[p].at \notin {"write", "verify"}
        BY <2>3, <4>1 DEF Asked
      <4> QED BY <4>2 DEF Pending
    <3>4. "undoLocking" \notin Habit => Unchanged(p)'
      <4> SUFFICES ASSUME "undoLocking" \notin Habit PROVE Unchanged(p)'
        OBVIOUS
      <4>1. ~Undoes(r, v) /\ env'[r] = v
        BY DEF MayEdit, TypeOK
      <4> QED BY <2>3, <4>1 DEF Unchanged, Undoes
    <3> QED BY <3>2, <3>3, <3>4 DEF Part
  <2> QED BY <2>1, <2>2, <2>3
<1> QED BY <1>1, <1>2 DEF LossInvariant, Part

LEMMA LossEdit ==
  ASSUME TypeOK, LossInvariant, NEW r \in Root, Edit(r)
  PROVE  LossInvariant'
<1> USE DEF files
<1>1. CASE SaveFile(r) \/ SaveBuffer(r) \/ Undo(r)
  <2>1. Cleaner
    BY <1>1 DEF SaveFile, SaveBuffer, Undo, Cleaner, TypeOK
  <2>2. PICK v : MayEdit(r, v) /\ env' = [env EXCEPT ![r] = v]
    BY <1>1 DEF SaveFile, SaveBuffer, Undo
  <2> QED BY <1>1, <2>1, <2>2, EditedPart DEF SaveFile, SaveBuffer, Undo
<1>2. CASE Type(r)
  <2>1. Grows /\ UNCHANGED cmd /\ \A s \in Root : Calm(s)
    BY <1>2 DEF Type, Grows, Calm
  <2>2. ASSUME NEW p \in Slot
        PROVE  Part(p)'
    <3>1. CASE cmd[p] = Idle
      BY <2>1, <3>1, FreePartNext
    <3>2. CASE cmd[p] # Idle
      <4>1. cmd[p].root \in Root /\ Part(p)
        BY <3>2, WaitingType, Parts DEF Waiting
      <4>2. "typeLocking" \notin Habit => CleanLock(p)'
        <5>1. CASE cmd[p].root = r
          BY <1>2, <2>1, <5>1 DEF Type, CleanLock, Locking
        <5>2. CASE cmd[p].root # r
          <6>1. buf'[cmd[p].root] = buf[cmd[p].root]
            BY <1>2, <4>1, <5>2 DEF Type, TypeOK
          <6> QED BY <2>1, <3>2, <4>1, <6>1, KeepsClean DEF Part
        <5> QED BY <5>1, <5>2
      <4> QED BY <2>1, <3>2, <4>1, <4>2, KeepsAnswered, KeepsPending, KeepsUnchanged
              DEF Part
    <3> QED BY <3>1, <3>2
  <2> QED BY <1>2, <2>2
       DEF Type, LossInvariant, Part, LossNeedsHabit, Excused, UpKept, KidsAsked, Decrypts
<1>3. CASE Pull(r)
  <2>1. Grows /\ UNCHANGED cmd /\ Cleaner /\ \A s \in Root : Calm(s)
    BY <1>3 DEF Pull, Grows, Calm, Cleaner, TypeOK
  <2>2. UpKept'
    BY <1>3 DEF Pull, UpKept, LossInvariant, Decrypts, TypeOK
  <2> QED BY <1>3, <2>1, <2>2, NoSlot
       DEF Pull, LossInvariant, LossNeedsHabit, Excused, KidsAsked
<1> QED BY <1>1, <1>2, <1>3 DEF Edit

-----------------------------------------------------------------------------
(* The CLI *)

LEMMA LossCliImport ==
  ASSUME TypeOK, LossInvariant, NEW p \in CliSlot, NEW r \in Root, CliImport(p, r)
  PROVE  LossInvariant'
<1>1. Store(r, env[r]) /\ env[r] \in Content
  BY DEF CliImport, TypeOK
<1>2. (\A s \in Root : kept[s] \subseteq kept'[s]) /\ env[r] \in kept'[r] /\ UpKept'
  BY <1>1, StoreGrows DEF LossInvariant
<1>3. Grows /\ \A s \in Root : Calm(s)
  BY <1>2 DEF CliImport, Grows, Calm, TypeOK
<1>4. LossNeedsHabit' /\ KidsAsked'
  BY DEF CliImport, LossInvariant, LossNeedsHabit, Excused, KidsAsked
<1> QED BY <1>2, <1>3, <1>4, NoSlot DEF CliImport, Cleaner

LEMMA LossCliLock ==
  ASSUME TypeOK, LossInvariant, NEW p \in CliSlot,
         (\E r \in Root : CliLockRead(p, r)) \/ CliLockCheck(p)
  PROVE  LossInvariant'
<1>0. p \in Slot /\ p \notin ExtSlot /\ "lock" \in Ops
  BY SlotAssumption DEF Slot, Ops, ExtLocks
<1>1. ASSUME NEW r \in Root, CliLockRead(p, r)
      PROVE  LossInvariant'
  <2>1. cmd'[p].op = "lock" /\ cmd'[p].at = "key"
    BY <1>0, <1>1 DEF CliLockRead, Wait, TypeOK, Idle
  <2>2. Part(p)'
    BY <1>0, <2>1, FreePartNext
  <2> QED BY <1>0, <1>1, <2>2, MoveOnly DEF CliLockRead
<1>2. CASE CliLockCheck(p)
  <2> DEFINE r == cmd[p].root
             same == Decrypts(r) /\ cmd[p].read = up[r].ver
  <2>1. cmd[p] \in Waiting /\ r \in Root
    BY <1>0, <1>2, AtType DEF CliLockCheck
  <2>2. UNCHANGED <<files, kids, timers, last, kept, given, lost>>
    BY <1>2 DEF CliLockCheck
  <2>3. CASE Wait(p, [cmd[p] EXCEPT !.at = "confirm", !.agreed = ~same])
    <3>1. /\ cmd'[p].at = "confirm" /\ cmd'[p].agreed = ~same
          /\ cmd'[p].root = r /\ cmd'[p].read = cmd[p].read /\ cmd'[p].op = "lock"
      BY <1>0, <1>2, <2>1, <2>3 DEF Wait, TypeOK, Waiting, CliLockCheck, At
    <3>2. same => cmd[p].read \in kept[r]
      BY <2>1 DEF LossInvariant, UpKept
    <3>3. Answered(p)'
      BY <2>2, <3>1, <3>2 DEF Answered, At
    <3>4. Pending(p)' /\ Unchanged(p)' /\ CleanLock(p)'
      BY <1>0, <3>1 DEF Pending, Unchanged, CleanLock, Locking
    <3>5. Part(p)'
      BY <3>3, <3>4 DEF Part
    <3> QED BY <1>0, <2>2, <2>3, <3>5, MoveOnly
  <2>4. CASE Return(p)
    <3>1. Wait(p, Idle) /\ cmd'[p] = Idle
      BY <1>0, <2>4 DEF Return, Wait, TypeOK
    <3> QED BY <1>0, <2>2, <3>1, FreePartNext, MoveOnly
  <2> QED BY <1>2, <2>3, <2>4 DEF CliLockCheck
<1> QED BY <1>1, <1>2

LEMMA LossCliLockDelete ==
  ASSUME TypeOK, LossInvariant, NEW p \in CliSlot, CliLockDelete(p)
  PROVE  LossInvariant'
<1> DEFINE r == cmd[p].root
<1>0. p \in Slot /\ "lock" \in Ops
  BY DEF Slot, Ops, ExtLocks
<1>1. r \in Root /\ cmd[p] # Idle /\ Agreed(p) \in SUBSET Content
  BY <1>0, AtType, AgreedType DEF CliLockDelete
<1>2. Wait(p, Idle) /\ cmd'[p] = Idle
  BY <1>0 DEF CliLockDelete, Return, Wait, TypeOK
<1>4. UpKept' /\ KidsAsked' /\ Cleaner
  BY DEF CliLockDelete, LossInvariant, UpKept, KidsAsked, Decrypts, Cleaner
<1>5. Grows /\ (\A s \in Root : Calm(s)) /\ LossNeedsHabit'
  <2>1. CASE Put("cliLock", r, 0, Agreed(p)) /\ env[r] = cmd[p].read
    <3>1. Grows /\ \A s \in Root : Calm(s)
      BY <1>1, <2>1, PutCalm, ContentType DEF CliLockDelete
    <3>2. env[r] \in Agreed(p) \cup kept[r]
      BY <1>0, <2>1 DEF CliLockDelete, LossInvariant, Answered, Agreed
    <3>3. LossNeedsHabit'
      BY <2>1, <3>2, PutLoss DEF LossInvariant, Safe
    <3> QED BY <3>1, <3>3
  <2>2. CASE UNCHANGED <<env, given, lost>>
    BY <2>2 DEF CliLockDelete, Grows, Calm, LossInvariant, LossNeedsHabit, Excused
  <2> QED BY <2>1, <2>2 DEF CliLockDelete
<1> QED BY <1>0, <1>2, <1>4, <1>5, FreePartNext, OneSlot

LEMMA LossCliUnlock ==
  ASSUME TypeOK, LossInvariant, NEW p \in CliSlot, NEW r \in Root, CliUnlock(p, r)
  PROVE  LossInvariant'
<1> DEFINE c == [Idle EXCEPT !.op = "unlock", !.at = "autolock", !.root = r]
           q == [Idle EXCEPT !.op = "unlock", !.at = "overwrite", !.root = r,
                             !.read = env[r], !.out = up[r].ver, !.agreed = TRUE]
<1>0. p \in Slot /\ up[r].ver \in kept[r]
  BY DEF Slot, CliUnlock, LossInvariant, UpKept
<1>a. env[r] \in Content /\ up[r].ver \in Content
  BY DEF TypeOK
<1>1. CASE Wait(p, q) /\ UNCHANGED <<env, given, lost>>
  <2>1. UNCHANGED <<files, kids, timers, last, kept, given, lost>>
    BY <1>1 DEF CliUnlock, files
  <2>2. cmd'[p] = q
    BY <1>0, <1>1 DEF Wait, TypeOK
  <2>3. /\ q.at = "overwrite" /\ q.op = "unlock" /\ q.root = r /\ q.read = env[r]
        /\ q.out = up[r].ver /\ q.agreed = TRUE
    BY DEF Idle
  <2> HIDE DEF q
  <2>4. Part(p)'
    BY <1>0, <2>1, <2>2, <2>3
       DEF Part, Answered, Pending, Unchanged, CleanLock, Locking, ExtLocks, At, files
  <2> QED BY <1>0, <1>1, <2>1, <2>4, MoveOnly
<1>2. CASE Wait(p, c) /\ \E agreed \in SUBSET Content :
             /\ Put("cliUnlock", r, up[r].ver, agreed)
             /\ env[r] \in {0, up[r].ver} \cup agreed
  <2>1. PICK agreed \in SUBSET Content :
             /\ Put("cliUnlock", r, up[r].ver, agreed)
             /\ env[r] \in {0, up[r].ver} \cup agreed
    BY <1>2
  <2>2. LossNeedsHabit'
    BY <2>1, PutLoss DEF LossInvariant, Safe
  <2>3. Grows /\ \A s \in Root : Calm(s)
    BY <1>0, <1>a, <2>1, PutCalm DEF CliUnlock
  <2>4. cmd'[p] = c /\ c.at = "autolock" /\ c.op = "unlock"
    BY <1>0, <1>2 DEF Wait, TypeOK, Idle
  <2> HIDE DEF c
  <2>5. Part(p)'
    BY <2>4, <1>0, FreePartNext DEF ExtLocks
  <2>7. UpKept' /\ KidsAsked' /\ Cleaner
    BY DEF CliUnlock, LossInvariant, UpKept, KidsAsked, Decrypts, Cleaner
  <2> QED BY <1>0, <1>2, <2>2, <2>3, <2>5, <2>7, OneSlot
<1> QED BY <1>1, <1>2, <1>a DEF CliUnlock

LEMMA LossCliUnlockStep ==
  ASSUME TypeOK, LossInvariant, NEW p \in CliSlot, CliUnlockWrite(p) \/ CliUnlockDuration(p)
  PROVE  LossInvariant'
<1>0. p \in Slot /\ p \notin ExtSlot /\ "unlock" \in Ops
  BY SlotAssumption DEF Slot, Ops
<1>1. CASE CliUnlockWrite(p)
  <2> DEFINE r == cmd[p].root
             c == [Idle EXCEPT !.op = "unlock", !.at = "autolock", !.root = r]
  <2>1. /\ r \in Root /\ cmd[p] # Idle /\ cmd[p].out \in Content
        /\ Agreed(p) \in SUBSET Content
    BY <1>0, <1>1, AtType, AgreedType DEF CliUnlockWrite
  <2>2. Put("cliUnlock", r, cmd[p].out, Agreed(p)) /\ Wait(p, c) /\ kept' = kept
    BY <1>1 DEF CliUnlockWrite
  <2>3. cmd'[p] = c /\ c.at = "autolock" /\ c.op = "unlock"
    BY <1>0, <2>2 DEF Wait, TypeOK, Idle
  <2>4. /\ Agreed(p) = {cmd[p].read}
        /\ cmd[p].out \in {cmd[p].read} \cup kept[r]
    BY <1>0, <1>1 DEF CliUnlockWrite, At, LossInvariant, Answered, Agreed
  <2>5. "editAsked" \notin Habit => env[r] \in {0, cmd[p].read} \cup kept[r] \cup given[r]
    BY <1>0, <1>1 DEF CliUnlockWrite, At, LossInvariant, Pending
  <2> HIDE DEF c
  <2>6. LossNeedsHabit'
    <3>1. CASE "editAsked" \in Habit
      BY <2>2, <3>1, PutLoss, Excuses DEF LossInvariant
    <3>2. CASE "editAsked" \notin Habit
      BY <2>2, <2>4, <2>5, <3>2, PutLoss DEF LossInvariant, Safe
    <3> QED BY <3>1, <3>2
  <2>7. Grows /\ \A s \in Root : Calm(s)
    BY <2>1, <2>2, <2>4, PutCalm
  <2>8. Part(p)'
    BY <1>0, <2>3, FreePartNext DEF ExtLocks
  <2>9. UpKept' /\ KidsAsked' /\ Cleaner
    BY <1>1 DEF CliUnlockWrite, LossInvariant, UpKept, KidsAsked, Decrypts, Cleaner
  <2> QED BY <1>0, <2>2, <2>6, <2>7, <2>8, <2>9, OneSlot
<1>2. CASE CliUnlockDuration(p)
  <2>1. Wait(p, Idle) /\ cmd'[p] = Idle
    BY <1>0, <1>2 DEF CliUnlockDuration, Return, Wait, TypeOK
  <2>2. Grows /\ Cleaner /\ \A s \in Root : Calm(s)
    BY <1>2 DEF CliUnlockDuration, files, Grows, Calm, Cleaner
  <2>3. KidsAsked'
    BY <1>2 DEF CliUnlockDuration, LossInvariant, KidsAsked
  <2>4. LossNeedsHabit' /\ UpKept'
    BY <1>2 DEF CliUnlockDuration, files, LossInvariant, LossNeedsHabit, Excused, UpKept,
                Decrypts
  <2> QED BY <1>0, <2>1, <2>2, <2>3, <2>4, FreePartNext, OneSlot
<1> QED BY <1>1, <1>2

-----------------------------------------------------------------------------
(* Timers and the closing editor *)

\* .env goes, by a step that moves no slot.
LEMMA Removal ==
  ASSUME TypeOK, LossInvariant, NEW by, NEW r \in Root, Put(by, r, 0, {}),
         UNCHANGED <<buf, up, cmd, kept>>, Safe(r, env[r]) \/ Excused(by), KidsAsked'
  PROVE  LossInvariant'
<1>1. Grows /\ \A s \in Root : Calm(s)
  BY PutCalm, ContentType
<1>2. LossNeedsHabit'
  BY PutLoss DEF LossInvariant
<1>3. UpKept' /\ Cleaner
  BY DEF LossInvariant, UpKept, Decrypts, Cleaner
<1> QED BY <1>1, <1>2, <1>3, NoSlot

LEMMA LossTimers ==
  ASSUME TypeOK, LossInvariant, NEW r \in Root, KidFires(r) \/ TimerFires(r) \/ TimerEnds(r)
  PROVE  LossInvariant'
<1>a. CASE UNCHANGED <<env, buf, up, cmd, kids, kept, given, lost>>
  <2>1. Grows /\ Cleaner /\ \A s \in Root : Calm(s)
    BY <1>a DEF Grows, Calm, Cleaner
  <2>2. LossNeedsHabit' /\ UpKept' /\ KidsAsked'
    BY <1>a DEF LossInvariant, LossNeedsHabit, Excused, UpKept, KidsAsked, Decrypts
  <2> QED BY <1>a, <2>1, <2>2, NoSlot
<1>1. CASE KidFires(r)
  <2>1. "cliAutoLock" \in Habit
    BY <1>1 DEF KidFires, LossInvariant, KidsAsked, TypeOK
  <2>2. KidsAsked'
    BY <2>1 DEF KidsAsked
  <2> QED BY <1>1, <2>1, <2>2, Removal, Excuses DEF KidFires
<1>2. CASE TimerFires(r)
  BY <1>a, <1>2 DEF TimerFires, files
<1>3. CASE TimerEnds(r)
  <2>1. CASE UNCHANGED <<env, given, lost>>
    BY <1>a, <1>3, <2>1 DEF TimerEnds
  <2>2. CASE Removable(r) /\ Put("timer", r, 0, {})
    <3>1. Safe(r, env[r])
      BY <2>2 DEF Removable, LossInvariant, UpKept, Safe
    <3>2. KidsAsked'
      BY <1>3 DEF TimerEnds, LossInvariant, KidsAsked
    <3> QED BY <1>3, <2>2, <3>1, <3>2, Removal DEF TimerEnds
  <2> QED BY <1>3, <2>1, <2>2 DEF TimerEnds
<1> QED BY <1>1, <1>2, <1>3

LEMMA LossClose ==
  ASSUME TypeOK, LossInvariant, CloseEditor
  PROVE  LossInvariant'
<1>1. PICK D \in SUBSET Root :
        /\ \A r \in D : Removable(r)
        /\ env' = [r \in Root |-> IF r \in D THEN 0 ELSE env[r]]
        /\ lost' = lost \cup {"close" : r \in {d \in D : ~Safe(d, env[d])}}
  BY DEF CloseEditor, TypeOK
<1>2. \A r \in D : env[r] \in kept[r]
  BY <1>1 DEF Removable, LossInvariant, UpKept
<1>3. LossNeedsHabit'
  BY <1>1, <1>2 DEF Safe, LossInvariant, LossNeedsHabit, Excused
<1>4. Grows /\ Cleaner /\ \A s \in Root : Calm(s)
  BY <1>1, <1>2 DEF CloseEditor, Grows, Calm, Cleaner
<1>5. /\ \A p \in CliSlot : cmd'[p] = cmd[p]
      /\ \A p \in ExtSlot : cmd'[p] = Idle
  BY SlotAssumption DEF CloseEditor, Slot
<1>6. \A p \in Slot : Part(p)'
  BY <1>4, <1>5, KeepsPart, FreePartNext, Parts DEF Slot
<1>7. UpKept' /\ KidsAsked'
  BY DEF CloseEditor, LossInvariant, UpKept, KidsAsked, Decrypts
<1> QED BY <1>3, <1>6, <1>7 DEF LossInvariant, Part

-----------------------------------------------------------------------------
(* The extension *)

LEMMA LossExtStart ==
  ASSUME TypeOK, LossInvariant, NEW p \in ExtSlot, NEW r \in Root, ExtStart(p, r)
  PROVE  LossInvariant'
<1> USE DEF files
<1>0. p \in Slot
  BY DEF Slot
<1>1. CASE ExtLock(p, r)
  <2>1. PICK op \in ExtLocks :
          /\ Wait(p, [Idle EXCEPT !.op = op, !.at = "confirm", !.root = r,
                                  !.read = IF op = "reencrypt" THEN 0 ELSE env[r],
                                  !.agreed = op = "lockBuffer"])
          /\ op # "lockBuffer" => buf[r] = 0
    BY <1>1 DEF ExtLock, ExtLocks
  <2>2. /\ cmd'[p].op = op /\ cmd'[p].at = "confirm" /\ cmd'[p].root = r
        /\ op = "lockBuffer" => cmd'[p].read = env[r]
        /\ cmd'[p].agreed = (op = "lockBuffer")
    BY <1>0, <2>1 DEF Wait, TypeOK, Idle
  <2>3. UNCHANGED <<files, kids, timers, last, kept, given, lost>>
    BY <1>1 DEF ExtLock
  <2>4. Answered(p)'
    BY <2>1, <2>2, SlotAssumption DEF Answered, At
  <2>5. Pending(p)' /\ Unchanged(p)' /\ CleanLock(p)'
    BY <2>1, <2>2, <2>3 DEF Pending, Unchanged, CleanLock, Locking
  <2>6. Part(p)'
    BY <2>4, <2>5 DEF Part
  <2> QED BY <1>0, <2>1, <2>3, <2>6, MoveOnly
<1>2. CASE ExtUnlock(p, r)
  <2>1. PICK at \in Waits :
          /\ Wait(p, [Idle EXCEPT !.op = "unlock", !.root = r, !.read = env[r],
                                  !.at = at, !.out = up[r].ver, !.agreed = env[r] # 0])
          /\ at \in {"source", "duration"}
    BY <1>2 DEF ExtUnlock, Waits
  <2>2. /\ cmd'[p].op = "unlock" /\ cmd'[p].at = at /\ cmd'[p].root = r
        /\ cmd'[p].read = env[r] /\ cmd'[p].agreed = (env[r] # 0)
        /\ cmd'[p].out = up[r].ver
    BY <1>0, <2>1 DEF Wait, TypeOK, Idle
  <2>3. UNCHANGED <<files, kids, timers, last, kept, given, lost>>
    BY <1>2 DEF ExtUnlock
  <2>4. up[r].ver \in kept[r]
    BY <1>2 DEF ExtUnlock, LossInvariant, UpKept
  <2>5. Part(p)'
    BY <2>1, <2>2, <2>3, <2>4
       DEF Part, Answered, Pending, Unchanged, CleanLock, Locking, ExtLocks, At
  <2> QED BY <1>0, <2>1, <2>3, <2>5, MoveOnly
<1>3. CASE ExtImport(p, r)
  <2>1. /\ cmd'[p].op = "import" /\ cmd'[p].at = "ask" /\ cmd'[p].root = r
        /\ cmd'[p].read = env[r]
    BY <1>0, <1>3 DEF ExtImport, Wait, TypeOK, Idle
  <2>2. UNCHANGED <<files, kids, timers, last, kept, given, lost>>
    BY <1>3 DEF ExtImport
  <2>3. Part(p)'
    BY <2>1, <2>2 DEF Part, Answered, Pending, Unchanged, CleanLock, Locking, ExtLocks, At
  <2> QED BY <1>0, <1>3, <2>2, <2>3, MoveOnly DEF ExtImport
<1>4. CASE SafeEdit(p, r)
  <2>1. cmd'[p].op = "edit" /\ cmd'[p].at = "edit"
    BY <1>0, <1>4 DEF SafeEdit, Wait, TypeOK, Idle
  <2>2. Part(p)'
    BY <1>0, <2>1, FreePartNext DEF ExtLocks
  <2> QED BY <1>0, <1>4, <2>2, MoveOnly DEF SafeEdit
<1> QED BY <1>1, <1>2, <1>3, <1>4 DEF ExtStart

\* A command that ends.
LEMMA Ends ==
  ASSUME TypeOK, LossInvariant, NEW p \in ExtSlot, Return(p), Grows,
         \A s \in Root : Calm(s), Cleaner, LossNeedsHabit', UpKept', UNCHANGED kids
  PROVE  LossInvariant'
<1>1. p \in Slot /\ Wait(p, Idle) /\ cmd'[p] = Idle
  BY DEF Slot, Return, Wait, TypeOK
<1>2. KidsAsked'
  BY DEF LossInvariant, KidsAsked
<1> QED BY <1>1, <1>2, FreePartNext, OneSlot

\* Lock takes what it will import.
LEMMA LossLockTake ==
  ASSUME TypeOK, LossInvariant, NEW p \in ExtSlot, ExtLockTake(p)
  PROVE  LossInvariant'
<1> USE DEF files
<1> DEFINE r == cmd[p].root
           text == IF cmd[p].op = "lockBuffer" /\ buf[r] # 0 THEN buf[r] ELSE env[r]
<1>1. /\ p \in Slot /\ cmd[p] \in Waiting /\ r \in Root /\ cmd[p].op \in ExtLocks
      /\ cmd[p].at = "confirm" /\ Part(p)
  BY LockType, Parts DEF ExtLockTake
<1>2. /\ Wait(p, [cmd[p] EXCEPT !.at = "write", !.out = text])
      /\ UNCHANGED <<files, kids, timers, last, kept, given, lost>>
  BY DEF ExtLockTake
<1>3. /\ cmd'[p].op = cmd[p].op /\ cmd'[p].at = "write" /\ cmd'[p].root = r
      /\ cmd'[p].read = cmd[p].read /\ cmd'[p].agreed = cmd[p].agreed
      /\ cmd'[p].out = text
  BY <1>1, <1>2 DEF Wait, TypeOK, Waiting
<1>4. /\ cmd[p].op = "lockBuffer" => buf[r] \in {0, text}
      /\ cmd[p].op # "lockBuffer" => text = env[r]
  OBVIOUS
<1> HIDE DEF text
<1>5. Answered(p)'
  BY <1>1, <1>2, <1>3 DEF Answered, At, Part
<1>6. "editAsked" \notin Habit => Pending(p)'
  BY <1>1, <1>2, <1>3, <1>4 DEF Pending, Part
<1>7. Unchanged(p)'
  BY <1>2, <1>3, <1>4 DEF Unchanged
<1>8. "typeLocking" \notin Habit => CleanLock(p)'
  BY <1>1, <1>2, <1>3, <1>4 DEF CleanLock, Locking, Part
<1>9. Part(p)'
  BY <1>5, <1>6, <1>7, <1>8 DEF Part
<1> QED BY <1>1, <1>2, <1>9, MoveOnly

\* .env.up holds it from then on.
LEMMA LossLockWrite ==
  ASSUME TypeOK, LossInvariant, NEW p \in ExtSlot, ExtLockWrite(p)
  PROVE  LossInvariant'
<1> DEFINE r == cmd[p].root
           c == [cmd[p] EXCEPT !.at = "verify", !.out = 0]
<1>1. /\ p \in Slot /\ cmd[p] \in Waiting /\ r \in Root /\ cmd[p].op \in ExtLocks
      /\ cmd[p].at = "write" /\ cmd[p].out \in Content /\ Part(p)
  BY LockType, Parts DEF ExtLockWrite
<1>2. /\ Wait(p, c) /\ Store(r, cmd[p].out)
      /\ UNCHANGED <<env, buf, kids, timers, last, given, lost>>
  BY DEF ExtLockWrite
<1>3. /\ cmd'[p].op = cmd[p].op /\ cmd'[p].at = "verify" /\ cmd'[p].root = r
      /\ cmd'[p].read = cmd[p].read /\ cmd'[p].agreed = cmd[p].agreed
  BY <1>1, <1>2 DEF Wait, TypeOK, Waiting
<1> HIDE DEF c
<1>4. /\ \A s \in Root : kept[s] \subseteq kept'[s]
      /\ cmd[p].out \in kept'[r] /\ UpKept'
  BY <1>1, <1>2, StoreGrows DEF LossInvariant
<1>5. Answered(p)'
  BY <1>1, <1>3 DEF Answered, At, Part
<1>6. "editAsked" \notin Habit => Pending(p)'
  BY <1>1, <1>2, <1>3, <1>4 DEF Pending, Part
<1>7. "undoLocking" \notin Habit => Unchanged(p)'
  BY <1>1, <1>2, <1>3, <1>4 DEF Unchanged, Part
<1>8. "typeLocking" \notin Habit => CleanLock(p)'
  BY <1>1, <1>2, <1>3, <1>4 DEF CleanLock, Locking, Part
<1>9. Part(p)'
  BY <1>5, <1>6, <1>7, <1>8 DEF Part
<1>10. Grows /\ Cleaner /\ (\A s \in Root : Calm(s)) /\ LossNeedsHabit' /\ KidsAsked'
  BY <1>2, <1>4 DEF Grows, Cleaner, Calm, LossInvariant, LossNeedsHabit, Excused, KidsAsked
<1> QED BY <1>1, <1>2, <1>4, <1>9, <1>10, OneSlot

\* What Lock removes when it has looked for the last time.
LEMMA LossLockVerify ==
  ASSUME TypeOK, LossInvariant, NEW p \in ExtSlot, ExtLockVerify(p)
  PROVE  LossInvariant'
<1> USE DEF files
<1> DEFINE r == cmd[p].root
           c == [cmd[p] EXCEPT !.at = "close"]
           op == cmd[p].op
<1>1. /\ p \in Slot /\ cmd[p] \in Waiting /\ r \in Root /\ op \in ExtLocks
      /\ cmd[p].at = "verify" /\ Part(p) /\ Agreed(p) \in SUBSET Content
  BY LockType, Parts DEF ExtLockVerify
<1>2. op = "lock" => env[r] = cmd[p].read
  BY DEF ExtLockVerify
<1>3. UNCHANGED <<buf, up, kids, timers, last, kept>>
  BY DEF ExtLockVerify
<1>4. CASE buf[r] # 0 /\ Wait(p, c) /\ UNCHANGED <<env, given, lost>>
  <2>1. /\ cmd'[p].op = op /\ cmd'[p].at = "close" /\ cmd'[p].root = r
        /\ cmd'[p].read = cmd[p].read /\ cmd'[p].agreed = cmd[p].agreed
    BY <1>1, <1>4 DEF Wait, TypeOK, Waiting
  <2>2. Answered(p)'
    BY <1>1, <2>1 DEF Answered, At, Part
  <2>3. "editAsked" \notin Habit => Pending(p)'
    BY <1>1, <1>3, <1>4, <2>1 DEF Pending, Part
  <2>4. Unchanged(p)'
    BY <2>1 DEF Unchanged
  <2>5. "typeLocking" \notin Habit => CleanLock(p)'
    BY <1>1, <1>3, <1>4, <2>1 DEF CleanLock, Locking, Part
  <2>6. Part(p)'
    BY <2>2, <2>3, <2>4, <2>5 DEF Part
  <2> HIDE DEF c
  <2> QED BY <1>1, <1>3, <1>4, <2>6, MoveOnly
<1>5. CASE Put(op, r, 0, Agreed(p)) /\ Return(p)
  <2>1. Grows /\ (\A s \in Root : Calm(s)) /\ Cleaner
    BY <1>1, <1>3, <1>5, PutCalm, ContentType DEF Cleaner
  <2>2. UpKept'
    BY <1>3 DEF LossInvariant, UpKept, Decrypts
  <2>3. Safe(r, env[r]) \/ env[r] \in Agreed(p) \/ Excused(op)
    <3>1. CASE op = "lock"
      BY <1>1, <1>2, <3>1, Excuses DEF Part, Unchanged, Safe
    <3>2. CASE op = "lockBuffer"
      BY <1>1, <3>2, Excuses DEF Part, Pending, Answered, Agreed, Safe
    <3>3. CASE op = "reencrypt"
      BY <1>1, <3>3, Excuses DEF Part, Pending, Safe
    <3> QED BY <1>1, <3>1, <3>2, <3>3 DEF ExtLocks
  <2>4. LossNeedsHabit'
    BY <1>5, <2>3, PutLoss DEF LossInvariant
  <2> QED BY <1>3, <1>5, <2>1, <2>2, <2>4, Ends
<1> QED BY <1>4, <1>5 DEF ExtLockVerify

\* And what it removes when the tab is closed.
LEMMA LossLockClose ==
  ASSUME TypeOK, LossInvariant, NEW p \in ExtSlot, ExtLockClose(p)
  PROVE  LossInvariant'
<1> DEFINE r == cmd[p].root
           op == cmd[p].op
<1>1. /\ p \in Slot /\ r \in Root /\ op \in ExtLocks
      /\ cmd[p].at = "close" /\ Part(p) /\ Agreed(p) \in SUBSET Content
  BY LockType, Parts DEF ExtLockClose
<1>2. UNCHANGED <<up, kids, timers, last, kept>> /\ Return(p)
  BY DEF ExtLockClose
<1>3. Cleaner /\ UpKept'
  BY <1>1, <1>2 DEF ExtLockClose, Cleaner, LossInvariant, UpKept, Decrypts, TypeOK
<1>4. PICK old \in {env[r], buf[r]} : Replace(op, r, old, 0, Agreed(p))
  BY DEF ExtLockClose, Put
<1>5. Grows /\ \A s \in Root : Calm(s)
  BY <1>1, <1>2, <1>4, ReplaceCalm, ContentType
<1>6. Safe(r, old) \/ old \in Agreed(p) \/ Excused(op)
  <2>1. CASE "typeLocking" \in Habit
    BY <1>1, <2>1, Excuses DEF ExtLocks
  <2>2. CASE "typeLocking" \notin Habit
    <3>1. op = "lockBuffer" /\ buf[r] \in {0} \cup kept[r]
      BY <1>1, <2>2 DEF Part, CleanLock, Locking
    <3>2. Safe(r, env[r]) \/ env[r] \in Agreed(p) \/ Excused(op)
      BY <1>1, <3>1, Excuses DEF Part, Pending, Answered, Agreed, Safe
    <3> QED BY <3>1, <3>2 DEF Safe
  <2> QED BY <2>1, <2>2
<1>7. LossNeedsHabit'
  BY <1>4, <1>6, ReplaceLoss DEF LossInvariant
<1> QED BY <1>2, <1>3, <1>5, <1>7, Ends

LEMMA LossExtUnlock ==
  ASSUME TypeOK, LossInvariant, NEW p \in ExtSlot, ExtUnlockSource(p)
  PROVE  LossInvariant'
<1>0. p \in Slot /\ "unlock" \in Ops
  BY DEF Slot, Ops
<1>1. cmd[p] \in Waiting /\ cmd[p].op = "unlock" /\ cmd[p].at = "source"
  BY <1>0, AtType DEF ExtUnlockSource, At
<1>2. PICK out \in {cmd[p].out, cmd[p].read} :
        Wait(p, [cmd[p] EXCEPT !.at = "duration", !.out = out])
  BY DEF ExtUnlockSource
<1>3. /\ cmd'[p].op = "unlock" /\ cmd'[p].at = "duration" /\ cmd'[p].out = out
      /\ cmd'[p].root = cmd[p].root /\ cmd'[p].read = cmd[p].read
      /\ cmd'[p].agreed = cmd[p].agreed
  BY <1>0, <1>1, <1>2 DEF Wait, TypeOK, Waiting
<1>4. UNCHANGED <<files, kids, timers, last, kept, given, lost>>
  BY DEF ExtUnlockSource
<1>5. Answered(p)'
  BY <1>0, <1>1, <1>2, <1>3, <1>4 DEF Answered, At, LossInvariant
<1>6. "editAsked" \notin Habit => Pending(p)'
  BY <1>0, <1>1, <1>3, <1>4 DEF Pending, LossInvariant, files
<1>7. Unchanged(p)' /\ CleanLock(p)'
  BY <1>3 DEF Unchanged, CleanLock, Locking, ExtLocks
<1> QED BY <1>0, <1>2, <1>4, <1>5, <1>6, <1>7, MoveOnly DEF Part

LEMMA LossExtUnlockWrite ==
  ASSUME TypeOK, LossInvariant, NEW p \in ExtSlot, ExtUnlockWrite(p)
  PROVE  LossInvariant'
<1> DEFINE r == cmd[p].root
<1>0. p \in Slot /\ "unlock" \in Ops
  BY DEF Slot, Ops
<1>1. /\ r \in Root /\ cmd[p] # Idle /\ cmd[p].out \in Content
      /\ cmd[p].read \in Content /\ Agreed(p) \in SUBSET Content
  BY <1>0, AtType, AgreedType DEF ExtUnlockWrite
<1>2. Put("extUnlock", r, cmd[p].out, Agreed(p))
  BY DEF ExtUnlockWrite
<1>3. /\ cmd[p].read # 0 => Agreed(p) = {cmd[p].read}
      /\ cmd[p].out \in {cmd[p].read} \cup kept[r]
  BY <1>0 DEF ExtUnlockWrite, At, LossInvariant, Answered, Agreed
<1>4. "editAsked" \notin Habit => env[r] \in {0, cmd[p].read} \cup kept[r] \cup given[r]
  BY <1>0 DEF ExtUnlockWrite, At, LossInvariant, Pending
<1>5. LossNeedsHabit'
  <2>1. CASE "editAsked" \in Habit
    BY <1>2, <2>1, PutLoss, Excuses DEF LossInvariant
  <2>2. CASE "editAsked" \notin Habit
    <3>1. Safe(r, env[r]) \/ env[r] \in Agreed(p)
      BY <1>3, <1>4, <2>2 DEF Safe
    <3> QED BY <1>2, <3>1, PutLoss DEF LossInvariant
  <2> QED BY <2>1, <2>2
<1>6. (\A s \in Root : kept[s] \subseteq kept'[s]) /\ UpKept'
  <2>1. CASE Store(r, cmd[p].out)
    BY <1>1, <2>1, StoreGrows DEF LossInvariant
  <2>2. CASE UNCHANGED <<up, kept>>
    BY <2>2 DEF LossInvariant, UpKept, Decrypts
  <2>3. CASE up' = [up EXCEPT ![r] = [ver |-> 0, for |-> "torn"]] /\ UNCHANGED kept
    BY <1>1, <2>3 DEF LossInvariant, UpKept, Decrypts, TypeOK
  <2> QED BY <2>1, <2>2, <2>3 DEF ExtUnlockWrite
<1>7. Grows /\ \A s \in Root : Calm(s)
  <2>1. cmd[p].out \in {0} \cup kept'[r] \cup Agreed(p)
    BY <1>1, <1>3, <1>6
  <2> QED BY <1>1, <1>2, <1>6, <2>1, PutCalm
<1>8. Cleaner /\ Return(p) /\ UNCHANGED kids
  BY DEF ExtUnlockWrite, Cleaner
<1> QED BY <1>5, <1>6, <1>7, <1>8, Ends

LEMMA LossExtImport ==
  ASSUME TypeOK, LossInvariant, NEW p \in ExtSlot, ExtImportWrite(p) \/ ExtImportDelete(p)
  PROVE  LossInvariant'
<1> DEFINE r == cmd[p].root
<1>0. p \in Slot /\ "import" \in Ops
  BY DEF Slot, Ops
<1>1. cmd[p] \in Waiting /\ r \in Root /\ cmd[p].read \in Content /\ cmd[p].op = "import"
  BY <1>0, AtType DEF ExtImportWrite, ExtImportDelete, At
<1>2. CASE ExtImportWrite(p)
  <2> DEFINE c == [cmd[p] EXCEPT !.at = "delete"]
  <2>1. (\A s \in Root : kept[s] \subseteq kept'[s]) /\ cmd[p].read \in kept'[r] /\ UpKept'
    BY <1>1, <1>2, StoreGrows DEF ExtImportWrite, LossInvariant
  <2>2. Grows /\ \A s \in Root : Calm(s)
    BY <1>2, <2>1 DEF ExtImportWrite, Grows, Calm
  <2>3. cmd'[p] = c /\ c.at = "delete" /\ c.op = "import" /\ c.root = r
    BY <1>0, <1>1, <1>2 DEF ExtImportWrite, Wait, TypeOK, Waiting
  <2>4. Wait(p, c)
    BY <1>2 DEF ExtImportWrite
  <2> HIDE DEF c
  <2>5. Answered(p)'
    BY <2>3 DEF Answered, At
  <2>6. "editAsked" \notin Habit => Pending(p)'
    <3> SUFFICES ASSUME "editAsked" \notin Habit PROVE Pending(p)'
      OBVIOUS
    <3>1. env[r] \in {0, cmd[p].read} \cup kept[r] \cup given[r]
      BY <1>0, <1>2 DEF ExtImportWrite, At, LossInvariant, Pending
    <3>2. env'[r] \in {0} \cup kept'[r] \cup given'[r]
      BY <1>1, <1>2, <2>1, <3>1 DEF ExtImportWrite
    <3> QED BY <2>3, <3>2 DEF Pending
  <2>7. Unchanged(p)' /\ CleanLock(p)'
    BY <2>3 DEF Unchanged, CleanLock, Locking, ExtLocks
  <2>8. Part(p)'
    BY <2>5, <2>6, <2>7 DEF Part
  <2>9. LossNeedsHabit' /\ KidsAsked' /\ Cleaner
    BY <1>2 DEF ExtImportWrite, LossInvariant, LossNeedsHabit, Excused, KidsAsked, Cleaner
  <2> QED BY <1>0, <2>1, <2>2, <2>4, <2>8, <2>9, OneSlot
<1>3. CASE ExtImportDelete(p)
  <2>1. Put("deleteSource", r, 0, {})
    BY <1>3 DEF ExtImportDelete
  <2>2. "editAsked" \notin Habit => Safe(r, env[r])
    BY <1>0, <1>3 DEF ExtImportDelete, At, LossInvariant, Pending, Safe
  <2>3. LossNeedsHabit'
    BY <2>1, <2>2, PutLoss, Excuses DEF LossInvariant
  <2>4. Grows /\ \A s \in Root : Calm(s)
    BY <1>1, <1>3, <2>1, PutCalm, ContentType DEF ExtImportDelete
  <2>5. UpKept' /\ Cleaner
    BY <1>3 DEF ExtImportDelete, LossInvariant, UpKept, Decrypts, Cleaner
  <2> QED BY <1>3, <2>3, <2>4, <2>5, Ends DEF ExtImportDelete
<1> QED BY <1>2, <1>3

LEMMA LossSafeEdit ==
  ASSUME TypeOK, LossInvariant, NEW p \in ExtSlot, SafeEditSave(p) \/ SafeEditRemove(p)
  PROVE  LossInvariant'
<1> DEFINE r == cmd[p].root
<1>0. p \in Slot /\ "edit" \in Ops
  BY DEF Slot, Ops
<1>1. cmd[p] \in Waiting /\ r \in Root /\ cmd[p].op = "edit"
  BY <1>0, AtType DEF SafeEditSave, SafeEditRemove, At
<1>2. PICK at \in {"edit", "remove"} : Wait(p, [cmd[p] EXCEPT !.at = at])
  <2>1. cmd[p] = [cmd[p] EXCEPT !.at = "edit"] \/ ~At(p, "edit", "edit")
    BY <1>1 DEF At, Waiting
  <2> QED BY <2>1 DEF SafeEditSave, SafeEditRemove
<1>3. cmd'[p].at = at /\ cmd'[p].op = "edit"
  BY <1>0, <1>1, <1>2 DEF Wait, TypeOK, Waiting
<1>4. Part(p)'
  BY <1>0, <1>2, <1>3, FreePartNext DEF ExtLocks
<1>5. KidsAsked' /\ Cleaner
  BY DEF SafeEditSave, SafeEditRemove, LossInvariant, KidsAsked, Cleaner
<1>6. CASE SafeEditSave(p)
  <2>1. Store(r, last + 1) /\ last + 1 \in Content
    BY <1>6, NewContentType DEF SafeEditSave
  <2>2. (\A s \in Root : kept[s] \subseteq kept'[s]) /\ UpKept'
    BY <1>1, <2>1, StoreGrows DEF LossInvariant
  <2>3. Grows /\ \A s \in Root : Calm(s)
    BY <1>6, <2>2 DEF SafeEditSave, Grows, Calm
  <2>4. LossNeedsHabit'
    BY <1>6 DEF SafeEditSave, LossInvariant, LossNeedsHabit, Excused
  <2> QED BY <1>0, <1>2, <1>4, <1>5, <2>2, <2>3, <2>4, OneSlot
<1>7. CASE SafeEditRemove(p)
  <2>1. Grows /\ (\A s \in Root : Calm(s)) /\ LossNeedsHabit'
    <3>1. CASE UNCHANGED <<env, given, lost>>
      BY <1>7, <3>1 DEF SafeEditRemove, Grows, Calm, LossInvariant, LossNeedsHabit, Excused
    <3>2. CASE "removeEdited" \in Habit /\ Put("removeEdited", r, 0, {})
      <4>1. Grows /\ \A s \in Root : Calm(s)
        BY <1>1, <1>7, <3>2, PutCalm, ContentType DEF SafeEditRemove
      <4>2. LossNeedsHabit'
        BY <3>2, PutLoss, Excuses DEF LossInvariant
      <4> QED BY <4>1, <4>2
    <3> QED BY <1>7, <3>1, <3>2 DEF SafeEditRemove
  <2>2. UpKept'
    BY <1>7 DEF SafeEditRemove, LossInvariant, UpKept, Decrypts
  <2> QED BY <1>0, <1>2, <1>4, <1>5, <2>1, <2>2, OneSlot
<1> QED BY <1>6, <1>7

-----------------------------------------------------------------------------
(* The theorem *)

LEMMA LossStep == TypeOK /\ LossInvariant /\ [Next]_vars => LossInvariant'
<1> SUFFICES ASSUME TypeOK, LossInvariant, [Next]_vars PROVE LossInvariant'
  OBVIOUS
<1>1. CASE Next
  <2>1. ASSUME NEW r \in Root, Edit(r) \/ KidFires(r) \/ TimerFires(r) \/ TimerEnds(r)
        PROVE  LossInvariant'
    BY <2>1, LossEdit, LossTimers
  <2>2. ASSUME NEW p \in CliSlot, CliStep(p) \/ \E r \in Root : CliStart(p, r)
        PROVE  LossInvariant'
    BY <2>2, LossCliImport, LossCliLock, LossCliLockDelete, LossCliUnlock,
       LossCliUnlockStep DEF CliStep, CliStart
  <2>3. ASSUME NEW p \in ExtSlot, ExtStep(p) \/ \E r \in Root : ExtStart(p, r)
        PROVE  LossInvariant'
    BY <2>3, LossExtStart, LossLockTake, LossLockWrite, LossLockVerify, LossLockClose,
       LossExtUnlock, LossExtUnlockWrite, LossExtImport, LossSafeEdit DEF ExtStep
  <2> QED BY <1>1, <2>1, <2>2, <2>3, LossCancel, LossClose DEF Next
<1>2. CASE UNCHANGED vars
  <2>1. Grows /\ Cleaner /\ UNCHANGED cmd /\ \A s \in Root : Calm(s)
    BY <1>2 DEF vars, files, Grows, Calm, Cleaner
  <2>2. LossNeedsHabit' /\ UpKept' /\ KidsAsked'
    BY <1>2 DEF vars, files, LossInvariant, LossNeedsHabit, Excused, UpKept, KidsAsked,
                Decrypts
  <2> QED BY <2>1, <2>2, NoSlot
<1> QED BY <1>1, <1>2

\* The invariant by which commands that wait for an answer know what they will find.
THEOREM LossInvariantHolds == Spec => []LossInvariant
BY LossInit, LossStep, TypeCorrect, PTL DEF Spec

\* No step drops a content of .env, or the text of a tab it closes, that .env.up has
\* never held and that nobody agreed to drop, unless people do what that step does
\* not guard against; up lock, the auto-lock of the extension and the closing editor
\* guard against everything.
THEOREM LossesNeedHabits == Spec => []LossNeedsHabit
<1>1. LossInvariant => LossNeedsHabit
  BY DEF LossInvariant
<1> QED BY <1>1, LossInvariantHolds, PTL

\* When nobody does, nothing is lost.
THEOREM NothingIsLost == Habit = {} => (Spec => []NothingLost)
<1>1. Habit = {} /\ LossNeedsHabit => NothingLost
  BY DEF LossNeedsHabit, Excused, NothingLost
<1>2. CASE Habit = {}
  <2>1. LossNeedsHabit => NothingLost
    BY <1>1, <1>2
  <2> QED BY <2>1, LossesNeedHabits, PTL
<1> QED BY <1>2

=============================================================================
