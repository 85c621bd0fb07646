------------------------ MODULE IdentityStoreProofs ------------------------
(***************************************************************************)
(* Theorems about IdentityStore, for every set of keys, commands, answers  *)
(* and faults and for every bound.                                         *)
(***************************************************************************)
EXTENDS IdentityStore, TLAPS

-----------------------------------------------------------------------------
(* Type correctness *)

\* An envelope that a load can open is one of a real key.
LEMMA OpensType ==
  ASSUME TypeOK, NEW ans, Opens(ans)
  PROVE  enc.key \in Key
BY DEF Opens, Readable, TypeOK, Envelope, NoEnvelope

\* What a load yields is a pair of keys.
LEMMA KeypairsType ==
  ASSUME TypeOK, NEW ans, NEW kp \in Keypairs(ans)
  PROVE  kp.pub \in Key /\ kp.priv \in Key
<1>1. CASE Opens(ans)
  BY <1>1, OpensType DEF Keypairs
<1>2. CASE ~Opens(ans)
  BY <1>2 DEF Keypairs, TypeOK, KeyOrNone
<1> QED BY <1>1, <1>2

\* The session agent is only ever handed a key.
LEMMA CachesType ==
  ASSUME TypeOK, NEW ans, Caches(ans)
  PROVE  session' \in KeyOrNone
BY OpensType DEF Caches, TypeOK, KeyOrNone

LEMMA TypeInit == Init => TypeOK
BY KeyAssumption DEF Init, TypeOK, KeyOrNone, Envelope, NoEnvelope, Archived,
   CommandState, Idle, Endings

\* A command starts with a key to work on.
LEMMA BeginType ==
  ASSUME NEW op \in AllCommands, NEW at \in Steps, NEW k \in Key,
         NEW old \in KeyOrNone, Begin(op, at, k, old)
  PROVE  cmd' \in CommandState
BY DEF Begin, CommandState, Idle

\* A command under way keeps its type when it moves on.
LEMMA ProgressType ==
  ASSUME cmd \in CommandState, cmd.at # "idle"
  PROVE  /\ \A at \in Steps, w \in Nat :
              [cmd EXCEPT !.at = at, !.wk = w] \in CommandState
         /\ \A at \in Steps :
              /\ [cmd EXCEPT !.code = TRUE, !.at = at] \in CommandState
              /\ [cmd EXCEPT !.at = at, !.missed = TRUE] \in CommandState
<1>1. cmd \in [op : AllCommands, at : Steps, key : Key, old : KeyOrNone,
               wk : Nat, plainMode : BOOLEAN, code : BOOLEAN, missed : BOOLEAN]
  BY DEF CommandState, Idle
<1> HIDE DEF CommandState
<1>2. ASSUME NEW at \in Steps, NEW w \in Nat
      PROVE  [cmd EXCEPT !.at = at, !.wk = w] \in CommandState
  BY <1>1 DEF CommandState
<1>3. ASSUME NEW at \in Steps
      PROVE  /\ [cmd EXCEPT !.code = TRUE, !.at = at] \in CommandState
             /\ [cmd EXCEPT !.at = at, !.missed = TRUE] \in CommandState
  BY <1>1 DEF CommandState
<1> QED BY <1>2, <1>3

LEMMA TypeStart ==
  ASSUME TypeOK, Start
  PROVE  TypeOK'
<1> USE DEF TypeOK, fileVars, envVars
<1>0. NoKey \in KeyOrNone /\ Key \subseteq KeyOrNone
  BY DEF KeyOrNone
<1>1. CASE StartInit
  <2>1. cmd' \in CommandState
    BY <1>0, <1>1, BeginType, KeypairsType DEF StartInit, AllCommands, Steps
  <2> QED BY <1>1, <2>1, CachesType DEF StartInit
<1>2. CASE StartExtInit
  <2>1. cmd' \in CommandState
    BY <1>0, <1>2, BeginType DEF StartExtInit, AllCommands, Steps
  <2> QED BY <1>2, <2>1 DEF StartExtInit
<1>3. CASE StartImport
  <2>1. cmd' \in CommandState
    BY <1>0, <1>3, BeginType DEF StartImport, AllCommands, Steps
  <2> QED BY <1>3, <2>1, CachesType DEF StartImport
<1>4. CASE StartExtImport
  <2>1. cmd' \in CommandState
    BY <1>0, <1>4, BeginType DEF StartExtImport, AllCommands, Steps
  <2> QED BY <1>4, <2>1 DEF StartExtImport
<1>5. CASE StartRecover
  <2>1. cmd' \in CommandState
    BY <1>0, <1>5, BeginType DEF StartRecover, AllCommands, Steps
  <2> QED BY <1>5, <2>1 DEF StartRecover
<1>6. CASE StartLegacy
  <2>1. legacy \in Key
    BY <1>6 DEF StartLegacy, KeyOrNone
  <2>2. cmd' \in CommandState
    BY <1>0, <1>6, <2>1, BeginType DEF StartLegacy, AllCommands, Steps
  <2> QED BY <1>6, <2>2 DEF StartLegacy
<1>7. CASE StartUpgrade
  <2>1. PICK ans \in Answer : StartUpgrade!(ans)
    BY <1>7 DEF StartUpgrade
  <2>2. PICK kp \in Keypairs(ans) :
          cmd' = [Idle EXCEPT
                    !.op = "upgrade", !.key = kp.pub,
                    !.plainMode = (StorageMode(ans) = "plaintext"),
                    !.at = IF bundle[kp.pub] = "none" THEN "bundle" ELSE "bak"]
    BY <2>1
  <2>3. kp.pub \in Key
    BY KeypairsType
  <2>4. cmd' \in CommandState
    BY <1>0, <2>2, <2>3 DEF CommandState, Idle, AllCommands, Steps
  <2>5. session' \in KeyOrNone
    BY <2>1, CachesType
  <2> QED BY <2>1, <2>4, <2>5
<1>8. CASE StartMigrate
  <2>1. enc.key \in Key
    BY <1>8, OpensType DEF StartMigrate, StorageMode
  <2>2. cmd' \in CommandState
    BY <1>0, <1>8, <2>1 DEF StartMigrate, CommandState, Idle, AllCommands, Steps
  <2> QED BY <1>8, <2>2 DEF StartMigrate
<1> QED
  BY <1>1, <1>2, <1>3, <1>4, <1>5, <1>6, <1>7, <1>8 DEF Start

\* An archive is overwritten file by file, each with a file of its kind or with
\* half of one, which is none.
LEMMA TypeCopies ==
  ASSUME TypeOK
  PROVE  Copied \in [Key -> Archived] /\ Torn \in [Key -> Archived]
<1>1. /\ archive \in [Key -> Archived]
      /\ plain \in KeyOrNone /\ enc \in Envelope /\ wrapKey \in Nat
  BY DEF TypeOK
<1>2. NoKey \in KeyOrNone /\ NoEnvelope \in Envelope
  BY DEF KeyOrNone, Envelope
<1>3. ASSUME NEW k, NEW v \in KeyOrNone
      PROVE  [archive EXCEPT ![k].plain = v] \in [Key -> Archived]
  BY <1>1 DEF Archived
<1>4. ASSUME NEW k, NEW v \in Envelope
      PROVE  [archive EXCEPT ![k].enc = v] \in [Key -> Archived]
  BY <1>1 DEF Archived
<1>5. ASSUME NEW k, NEW v \in Nat
      PROVE  [archive EXCEPT ![k].wk = v] \in [Key -> Archived]
  BY <1>1 DEF Archived
<1>6. Copied \in [Key -> Archived]
  BY <1>1, <1>3, <1>4, <1>5 DEF Copied
<1>7. Torn \in [Key -> Archived]
  BY <1>1, <1>2, <1>3, <1>4, <1>5 DEF Torn
<1> QED BY <1>6, <1>7

LEMMA TypeArchive ==
  ASSUME TypeOK, ArchiveIdentity
  PROVE  TypeOK'
<1>1. cmd \in CommandState /\ cmd.at # "idle"
  BY DEF TypeOK, ArchiveIdentity, CopySteps
<1>2. cmd' \in CommandState
  <2>1. AfterCopy \in Steps /\ cmd.wk \in Nat
    BY <1>1 DEF AfterCopy, Steps, CommandState, Idle
  <2>2. CASE Step(AfterCopy)
    <3>1. cmd' = [cmd EXCEPT !.at = AfterCopy]
      BY <2>2 DEF Step
    <3>2. cmd \in [op : AllCommands, at : Steps, key : Key, old : KeyOrNone,
                   wk : Nat, plainMode : BOOLEAN, code : BOOLEAN, missed : BOOLEAN]
      BY <1>1 DEF CommandState, Idle
    <3> QED BY <2>1, <3>1, <3>2 DEF CommandState
  <2>3. CASE cmd' = [cmd EXCEPT !.at = AfterCopy, !.missed = TRUE]
    BY <1>1, <2>1, <2>3, ProgressType
  <2> QED BY <2>2, <2>3 DEF ArchiveIdentity
<1>3. archive' \in [Key -> Archived]
  BY TypeCopies DEF ArchiveIdentity, TypeOK
<1>4. faults' \in Nat
  BY DEF ArchiveIdentity, FaultHappens, TypeOK
<1> QED BY <1>2, <1>3, <1>4 DEF TypeOK, ArchiveIdentity, envVars

LEMMA TypeCommandStep ==
  ASSUME TypeOK, CommandStep
  PROVE  TypeOK'
<1> USE DEF TypeOK, KeyOrNone, Envelope, NoEnvelope, Archived, CommandState,
            Idle, Steps, AllCommands, Endings, fileVars, envVars, Step, Finish
<1>1. CASE ArchiveIdentity
  BY <1>1, TypeArchive
<1>2. CASE SaveWrap
  <2>1. cmd.at # "idle" /\ wraps + 1 \in Nat /\ "enc" \in Steps
    BY <1>2 DEF SaveWrap
  <2>2. cmd' = [cmd EXCEPT !.at = "enc", !.wk = wraps + 1]
    BY <1>2 DEF SaveWrap
  <2>3. cmd' \in CommandState
    <3> HIDE DEF CommandState, Steps
    <3> QED BY <2>1, <2>2, ProgressType
  <2>4. unarchived' \subseteq KeyOrNone
    BY <1>2 DEF SaveWrap
  <2> QED BY <1>2, <2>3, <2>4 DEF SaveWrap
<1>3. CASE SaveEnc
  BY <1>3 DEF SaveEnc
<1>4. CASE SavePub
  BY <1>4 DEF SavePub
<1>5. CASE UnlinkPlain
  <2>1. faults' \in Nat /\ plain' \in KeyOrNone
    BY <1>5 DEF UnlinkPlain, FaultHappens
  <2> QED BY <1>5, <2>1 DEF UnlinkPlain
<1>6. CASE DropLegacy
  BY <1>6 DEF DropLegacy
<1>7. CASE WriteBundle
  <2>1. cmd' \in CommandState
    BY <1>7, ProgressType DEF WriteBundle
  <2> QED BY <1>7, <2>1 DEF WriteBundle
<1>8. CASE WriteBak
  BY <1>8 DEF WriteBak
<1>9. CASE VerifyUpgrade
  BY <1>9, CachesType DEF VerifyUpgrade
<1>10. CASE ShowCode
  BY <1>10 DEF ShowCode
<1>11. CASE KeychainSet
  BY <1>11 DEF KeychainSet
<1>12. CASE KeychainGet
  BY <1>12 DEF KeychainGet
<1>13. CASE KeychainEnvelope
  BY <1>13 DEF KeychainEnvelope
<1>14. CASE KeychainVerify
  BY <1>14, CachesType DEF KeychainVerify
<1>15. CASE KeychainRollback
  BY <1>15 DEF KeychainRollback
<1>16. CASE KeychainDelete
  BY <1>16 DEF KeychainDelete
<1>17. CASE ArchiveWrapKey
  <2>1. archive' \in [Key -> Archived] /\ faults' \in Nat
    <3> HIDE DEF Archived
    <3> QED BY <1>17, TypeCopies DEF ArchiveWrapKey, FaultHappens
  <2> QED BY <1>17, <2>1 DEF ArchiveWrapKey
<1>18. CASE UnlinkWrapKey
  BY <1>18 DEF UnlinkWrapKey, FaultHappens
<1> QED
  BY <1>1, <1>2, <1>3, <1>4, <1>5, <1>6, <1>7, <1>8, <1>9, <1>10, <1>11,
     <1>12, <1>13, <1>14, <1>15, <1>16, <1>17, <1>18
     DEF CommandStep, Save, Upgrade, Migrate

LEMMA TypeEnvironment ==
  ASSUME TypeOK, Environment
  PROVE  TypeOK'
<1> USE DEF TypeOK, KeyOrNone, Envelope, NoEnvelope, Archived, CommandState,
            Idle, Steps, AllCommands, Endings, fileVars, envVars, FaultHappens
<1>1. CASE Abort
  <2>1. archive' \in [Key -> Archived]
    <3> HIDE DEF Archived
    <3> QED BY <1>1, TypeCopies DEF Abort
  <2> QED BY <1>1, <2>1 DEF Abort, Finish
<1>2. CASE WipeKeychain
  BY <1>2 DEF WipeKeychain
<1>3. CASE LoseHelper
  <2>1. helper' \in BOOLEAN
    BY <1>3, Zenon DEF LoseHelper
  <2> QED BY <1>3, <2>1 DEF LoseHelper
<1>4. CASE CorruptEnvelope
  BY <1>4 DEF CorruptEnvelope
<1>5. CASE SessionEnds
  BY <1>5 DEF SessionEnds
<1> QED BY <1>1, <1>2, <1>3, <1>4, <1>5 DEF Environment

LEMMA TypeNext ==
  ASSUME TypeOK, [Next]_vars
  PROVE  TypeOK'
<1>1. CASE Rely
  BY <1>1, CachesType, KeypairsType DEF Rely, TypeOK, fileVars
<1>2. CASE Start
  BY <1>2, TypeStart
<1>3. CASE CommandStep
  BY <1>3, TypeCommandStep
<1>4. CASE Environment
  BY <1>4, TypeEnvironment
<1>5. CASE UNCHANGED vars
  BY <1>5 DEF TypeOK, vars, fileVars, envVars
<1> QED BY <1>1, <1>2, <1>3, <1>4, <1>5 DEF Next

\* Every state of the identity directory is well typed: in particular a command
\* in flight always carries a key, and an envelope always seals one.
THEOREM TypeCorrect == Spec => []TypeOK
BY TypeInit, TypeNext, PTL DEF Spec

-----------------------------------------------------------------------------
(* Facts about the running command *)

Running == [op : AllCommands, at : Steps, key : Key, old : KeyOrNone,
            wk : Nat, plainMode : BOOLEAN, code : BOOLEAN, missed : BOOLEAN]

\* A step of a command finds a command, and leaves its other fields alone.
LEMMA RunningCommand ==
  ASSUME TypeOK, cmd.at # "idle"
  PROVE  cmd \in Running /\ cmd.op \in AllCommands /\ cmd.key \in Key
BY DEF TypeOK, CommandState, Idle, Running

LEMMA StepFields ==
  ASSUME cmd \in Running, NEW at, Step(at)
  PROVE  /\ cmd'.at = at /\ cmd'.op = cmd.op /\ cmd'.key = cmd.key
         /\ cmd'.old = cmd.old /\ cmd'.wk = cmd.wk
         /\ cmd'.plainMode = cmd.plainMode /\ cmd'.code = cmd.code
         /\ cmd'.missed = cmd.missed
BY DEF Step, Running

\* A copy, made or missed, moves the command on to the next file.
LEMMA CopyFields ==
  ASSUME TypeOK, ArchiveIdentity
  PROVE  /\ cmd \in Running /\ cmd.at \in CopySteps
         /\ cmd'.at = AfterCopy /\ AfterCopy \in {"archiveEnc", "archiveWrap", "wrap"}
         /\ cmd'.op = cmd.op /\ cmd'.key = cmd.key /\ cmd'.old = cmd.old
         /\ cmd'.plainMode = cmd.plainMode
         /\ cmd'.missed = cmd.missed \/ cmd'.missed = TRUE
<1>1. cmd \in Running /\ cmd.at \in CopySteps
  BY RunningCommand DEF ArchiveIdentity, CopySteps
<1>2. AfterCopy \in {"archiveEnc", "archiveWrap", "wrap"}
  BY DEF AfterCopy
<1>3. CASE Step(AfterCopy)
  BY <1>1, <1>2, <1>3, StepFields
<1>4. CASE cmd' = [cmd EXCEPT !.at = AfterCopy, !.missed = TRUE]
  BY <1>1, <1>2, <1>4 DEF Running
<1> QED BY <1>3, <1>4 DEF ArchiveIdentity

LEMMA IdleFields ==
  ASSUME NEW end, Finish(end)
  PROVE  /\ cmd'.at = "idle" /\ cmd'.op = "none" /\ cmd'.key = NoKey
         /\ cmd'.plainMode = FALSE /\ cmd'.missed = FALSE
BY DEF Finish, Idle

LEMMA BeginFields ==
  ASSUME NEW op, NEW at, NEW k, NEW old, Begin(op, at, k, old)
  PROVE  /\ cmd'.op = op /\ cmd'.at = at /\ cmd'.key = k /\ cmd'.old = old
         /\ cmd'.plainMode = FALSE /\ cmd'.missed = FALSE
BY DEF Begin, Idle

-----------------------------------------------------------------------------
(* The plaintext upgrade *)

\* Until the backup is written the plaintext is there, and from then on the
\* backup is; nothing ever removes one.
UpgradeCopies ==
  (cmd.op = "upgrade" /\ cmd.plainMode)
    => IF cmd.at \in {"bundle", "bak"} THEN plain = cmd.key ELSE cmd.key \in bak

\* A command other than up key upgrade that starts has nothing to keep.
LEMMA UpgradeCopiesStart ==
  ASSUME TypeOK, Start
  PROVE  UpgradeCopies'
<1>1. CASE StartUpgrade
  <2>1. PICK ans \in Answer : StartUpgrade!(ans)
    BY <1>1 DEF StartUpgrade
  <2>2. PICK kp \in Keypairs(ans) :
          /\ kp.pub = kp.priv
          /\ cmd' = [Idle EXCEPT
                       !.op = "upgrade", !.key = kp.pub,
                       !.plainMode = (StorageMode(ans) = "plaintext"),
                       !.at = IF bundle[kp.pub] = "none" THEN "bundle" ELSE "bak"]
    BY <2>1
  <2>3. /\ cmd'.at \in {"bundle", "bak"} /\ cmd'.key = kp.pub
        /\ cmd'.plainMode => StorageMode(ans) = "plaintext"
    BY <2>2 DEF Idle
  <2>4. StorageMode(ans) = "plaintext" => kp.priv = plain
    BY <2>2 DEF StorageMode, Keypairs
  <2> QED BY <2>1, <2>2, <2>3, <2>4 DEF UpgradeCopies, fileVars
<1>2. CASE StartMigrate
  BY <1>2 DEF StartMigrate, Idle, UpgradeCopies
<1>3. ASSUME NEW op \in AllCommands, op # "upgrade",
             NEW at, NEW k, NEW old, Begin(op, at, k, old)
      PROVE  UpgradeCopies'
  BY <1>3, BeginFields DEF UpgradeCopies
<1> QED
  BY <1>1, <1>2, <1>3 DEF Start, StartInit, StartExtInit, StartImport,
     StartExtImport, StartRecover, StartLegacy, AllCommands

LEMMA UpgradeCopiesStep ==
  ASSUME TypeOK, UpgradeCopies, CommandStep
  PROVE  UpgradeCopies'
<1> USE DEF UpgradeCopies, fileVars
<1>1. ASSUME NEW end, Finish(end) PROVE UpgradeCopies'
  BY <1>1, IdleFields
<1>2. ASSUME NEW at, at \notin {"bundle", "bak"}, Step(at), cmd.at # "idle",
             cmd.at \notin {"bundle", "bak"}, bak \subseteq bak'
      PROVE  UpgradeCopies'
  BY <1>2, RunningCommand, StepFields
<1>3. CASE ArchiveIdentity
  BY <1>3, CopyFields DEF ArchiveIdentity, CopySteps
<1>4. CASE SaveWrap
  <2>1. cmd \in Running
    BY <1>4, RunningCommand DEF SaveWrap
  <2> QED BY <1>4, <2>1 DEF SaveWrap, Running
<1>5. CASE SaveEnc
  BY <1>2, <1>5 DEF SaveEnc
<1>6. CASE SavePub
  BY <1>2, <1>6 DEF SavePub
<1>7. CASE UnlinkPlain
  <2>1. CASE cmd.op = "init"
    BY <1>7, <2>1, RunningCommand, StepFields DEF UnlinkPlain
  <2>2. CASE cmd.op # "init"
    BY <1>1, <1>2, <1>7, <2>2 DEF UnlinkPlain
  <2> QED BY <2>1, <2>2
<1>8. CASE DropLegacy
  BY <1>1, <1>8 DEF DropLegacy
<1>9. CASE WriteBundle
  <2>1. cmd \in Running
    BY <1>9, RunningCommand DEF WriteBundle
  <2> QED BY <1>9, <2>1 DEF WriteBundle, Running
<1>10. CASE WriteBak
  BY <1>10, RunningCommand, StepFields DEF WriteBak
<1>11. CASE VerifyUpgrade
  BY <1>1, <1>2, <1>11 DEF VerifyUpgrade
<1>12. CASE ShowCode
  BY <1>1, <1>12 DEF ShowCode
<1>13. CASE KeychainSet \/ KeychainGet
  BY <1>1, <1>2, <1>13 DEF KeychainSet, KeychainGet
<1>14. CASE KeychainEnvelope
  BY <1>2, <1>14 DEF KeychainEnvelope
<1>15. CASE KeychainVerify
  BY <1>1, <1>2, <1>15 DEF KeychainVerify
<1>16. CASE KeychainRollback \/ KeychainDelete
  BY <1>1, <1>2, <1>16 DEF KeychainRollback, KeychainDelete
<1>17. CASE ArchiveWrapKey \/ UnlinkWrapKey
  BY <1>1, <1>2, <1>17 DEF ArchiveWrapKey, UnlinkWrapKey
<1> QED
  BY <1>3, <1>4, <1>5, <1>6, <1>7, <1>8, <1>9, <1>10, <1>11, <1>12, <1>13,
     <1>14, <1>15, <1>16, <1>17 DEF CommandStep, Save, Upgrade, Migrate

LEMMA UpgradeCopiesNext ==
  ASSUME TypeOK, UpgradeCopies, [Next]_vars
  PROVE  UpgradeCopies'
<1>1. CASE UNCHANGED <<cmd, plain, bak>>
  BY <1>1 DEF UpgradeCopies
<1>2. CASE Rely \/ UNCHANGED vars
  BY <1>1, <1>2 DEF Rely, vars, fileVars
<1>3. CASE Abort
  BY <1>3, IdleFields DEF Abort, UpgradeCopies
<1>4. CASE Environment /\ ~Abort
  BY <1>1, <1>4 DEF Environment, WipeKeychain, LoseHelper, CorruptEnvelope,
     SessionEnds, fileVars
<1> QED
  BY <1>2, <1>3, <1>4, UpgradeCopiesStart, UpgradeCopiesStep DEF Next

\* up key upgrade never leaves a plaintext identity without a plain copy on
\* disk (migratePlaintextToEnvelope's backup), whatever faults happen.
THEOREM UpgradeAlwaysKeepsCopy == Spec => []UpgradeKeepsCopy
<1>1. Init => UpgradeCopies
  BY DEF Init, UpgradeCopies, Idle
<1>2. UpgradeCopies => UpgradeKeepsCopy
  BY DEF UpgradeCopies, UpgradeKeepsCopy
<1> QED BY <1>1, <1>2, TypeCorrect, UpgradeCopiesNext, PTL DEF Spec

-----------------------------------------------------------------------------
(* The Keychain migration *)

KeychainSteps == {"kcSet", "kcGet", "kcDelete", "kcEnc", "kcVerify", "kcRollback", "kcArchive",
                  "kcUnlink"}

\* A migration has the envelope's wrapping key in hand, the same as in the file,
\* and leaves that file alone until it has put a copy into the archive.
Migration ==
  /\ cmd.op = "migrate" <=> cmd.at \in KeychainSteps
  /\ enc.src # "none" => enc.wk # 0
  /\ cmd.at = "enc" => cmd.wk # 0
  /\ cmd.op = "migrate"
       => /\ cmd.wk # 0 /\ wrapKey = cmd.wk
          /\ enc.wk = cmd.wk /\ enc.key = cmd.key
  /\ cmd.at = "kcUnlink" => archive[cmd.key].wk = cmd.wk
  /\ MigrationKeepsWrapKey

LEMMA MigrationStart ==
  ASSUME TypeOK, Migration, Start
  PROVE  Migration'
<1> USE DEF Migration, MigrationKeepsWrapKey, fileVars
<1>1. CASE StartMigrate
  <2>1. /\ cmd'.op = "migrate" /\ cmd'.at = "kcSet" /\ cmd'.wk = wrapKey
        /\ cmd'.key = enc.key /\ UNCHANGED <<enc, wrapKey>> /\ cmd' # Idle
    BY <1>1 DEF StartMigrate, Idle
  <2>2. Opens("ok") /\ enc.src # "keychain"
    BY <1>1 DEF StartMigrate, StorageMode
  <2>3. enc.src # "none" /\ wrapKey = enc.wk
    BY <2>2 DEF Opens, Readable, Warm, WrapFor, Cold
  <2> QED BY <2>1, <2>2, <2>3 DEF KeychainSteps
<1>2. CASE StartUpgrade
  <2>1. /\ cmd'.op = "upgrade" /\ cmd'.at \in {"bundle", "bak"} /\ UNCHANGED <<enc, wrapKey>>
    BY <1>2 DEF StartUpgrade, Idle
  <2> QED BY <2>1 DEF KeychainSteps, Idle
<1>3. ASSUME NEW op \in AllCommands \ {"migrate", "upgrade"},
             NEW at \in {"archive", "wrap"}, NEW k, NEW old, Begin(op, at, k, old),
             UNCHANGED <<enc, wrapKey>>
      PROVE  Migration'
  <2>1. cmd'.op = op /\ cmd'.at = at
    BY <1>3, BeginFields
  <2>2. cmd' # Idle
    BY <2>1 DEF Idle, AllCommands
  <2> QED BY <1>3, <2>1, <2>2 DEF KeychainSteps
<1> QED
  BY <1>1, <1>2, <1>3 DEF Start, StartInit, StartExtInit, StartImport,
     StartExtImport, StartRecover, StartLegacy, AllCommands

LEMMA MigrationStep ==
  ASSUME TypeOK, Migration, CommandStep
  PROVE  Migration'
<1> USE DEF Migration, KeychainSteps, MigrationKeepsWrapKey
<1>1. ASSUME cmd.at # "idle"
      PROVE  cmd \in Running /\ cmd.op \in AllCommands
  BY <1>1, RunningCommand
<1>2. ASSUME NEW at, at \notin KeychainSteps \cup {"idle", "enc"}, Step(at), cmd.at # "idle",
             cmd.op # "migrate", UNCHANGED enc
      PROVE  Migration'
  BY <1>1, <1>2, StepFields DEF Idle, AllCommands
<1>3. ASSUME NEW end, Finish(end), cmd.at # "idle", cmd.op # "migrate", UNCHANGED enc
      PROVE  Migration'
  BY <1>1, <1>3, IdleFields DEF Finish
\* A migration that does not succeed leaves the file to the envelope it leaves.
<1>4. ASSUME NEW end, end # "done", Finish(end), cmd.op = "migrate",
             UNCHANGED <<enc, wrapKey>>
      PROVE  Migration'
  BY <1>4, IdleFields DEF Finish
\* A migration that goes on.
<1>5. ASSUME NEW at \in KeychainSteps \ {"kcUnlink"}, Step(at), cmd.at # "idle",
             cmd.op = "migrate", UNCHANGED wrapKey,
             enc' = enc \/ (enc'.key = cmd.key /\ enc'.wk = cmd.wk)
      PROVE  Migration'
  BY <1>1, <1>5, StepFields DEF Idle
<1>6. CASE ArchiveIdentity
  <2>1. /\ cmd.at \in CopySteps /\ cmd'.at \in {"archiveEnc", "archiveWrap", "wrap"}
        /\ cmd'.op = cmd.op /\ UNCHANGED enc
    BY <1>6, CopyFields DEF ArchiveIdentity
  <2>2. cmd' # Idle
    BY <2>1 DEF Idle
  <2> QED BY <2>1, <2>2 DEF CopySteps
<1>7. CASE SaveWrap
  <2>1. cmd'.at = "enc" /\ cmd'.op = cmd.op /\ cmd'.wk = wraps + 1 /\ cmd' # Idle
    BY <1>1, <1>7 DEF SaveWrap, Running, Idle
  <2>2. wraps + 1 # 0
    BY DEF TypeOK
  <2> QED BY <1>7, <2>1, <2>2 DEF SaveWrap
<1>8. CASE SaveEnc
  BY <1>1, <1>8, StepFields DEF SaveEnc, Idle
<1>9. CASE SavePub
  BY <1>2, <1>9 DEF SavePub
<1>10. CASE UnlinkPlain
  BY <1>2, <1>3, <1>10 DEF UnlinkPlain
<1>11. CASE DropLegacy
  BY <1>3, <1>11 DEF DropLegacy
<1>12. CASE WriteBundle
  <2>1. cmd'.at \in {"bak", "show"} /\ cmd'.op = cmd.op /\ cmd' # Idle
    BY <1>1, <1>12 DEF WriteBundle, Running, Idle
  <2> QED BY <1>12, <2>1 DEF WriteBundle
<1>13. CASE WriteBak
  BY <1>2, <1>13 DEF WriteBak
<1>14. CASE VerifyUpgrade
  BY <1>2, <1>3, <1>14 DEF VerifyUpgrade, fileVars
<1>15. CASE ShowCode
  BY <1>3, <1>15 DEF ShowCode
<1>16. CASE KeychainSet
  BY <1>4, <1>5, <1>16 DEF KeychainSet, fileVars
<1>17. CASE KeychainGet
  BY <1>4, <1>5, <1>17 DEF KeychainGet, fileVars
<1>18. CASE KeychainEnvelope
  <2>1. enc'.key = cmd.key /\ enc'.wk = cmd.wk
    BY <1>18 DEF KeychainEnvelope
  <2> QED BY <1>5, <1>18, <2>1 DEF KeychainEnvelope
<1>19. CASE KeychainVerify
  BY <1>4, <1>5, <1>19 DEF KeychainVerify, fileVars
<1>20. CASE KeychainRollback
  <2>1. enc'.key = cmd.key /\ enc'.wk = cmd.wk
    BY <1>20 DEF KeychainRollback
  <2> QED BY <1>5, <1>20, <2>1 DEF KeychainRollback
<1>21. CASE KeychainDelete
  BY <1>4, <1>21 DEF KeychainDelete, fileVars
<1>22. CASE ArchiveWrapKey
  <2>1. cmd.at = "kcArchive" /\ cmd.op = "migrate" /\ cmd.key \in Key
        /\ UNCHANGED <<enc, wrapKey>>
    BY <1>22, RunningCommand DEF ArchiveWrapKey
  <2>2. CASE archive' = Copied /\ Step("kcUnlink")
    <3>1. archive' = [archive EXCEPT ![cmd.key].wk = wrapKey]
      BY <2>1, <2>2 DEF Copied
    <3>2. archive'[cmd.key].wk = wrapKey
      BY <2>1, <3>1 DEF TypeOK, Archived
    <3> QED BY <1>1, <2>1, <2>2, <3>2, StepFields DEF Idle
  <2> QED BY <1>4, <1>22, <2>1, <2>2 DEF ArchiveWrapKey
<1>23. CASE UnlinkWrapKey
  <2>1. CASE Finish("failed") /\ UNCHANGED wrapKey
    BY <1>4, <1>23, <2>1 DEF UnlinkWrapKey
  <2>2. CASE Finish("done")
    BY <1>23, <2>2, IdleFields DEF UnlinkWrapKey, Finish
  <2> QED BY <1>23, <2>1, <2>2 DEF UnlinkWrapKey
<1> QED
  BY <1>6, <1>7, <1>8, <1>9, <1>10, <1>11, <1>12, <1>13, <1>14, <1>15, <1>16, <1>17,
     <1>18, <1>19, <1>20, <1>21, <1>22, <1>23 DEF CommandStep, Save, Upgrade, Migrate

LEMMA MigrationNext ==
  ASSUME TypeOK, Migration, [Next]_vars
  PROVE  Migration'
<1>1. CASE UNCHANGED <<enc, wrapKey, archive, cmd, outcome>>
  BY <1>1 DEF Migration, MigrationKeepsWrapKey
<1>2. CASE Rely \/ UNCHANGED vars
  BY <1>1, <1>2 DEF Rely, vars, fileVars
<1>3. CASE Abort
  BY <1>3, IdleFields DEF Abort, Finish, Migration, KeychainSteps,
     MigrationKeepsWrapKey
<1>4. CASE CorruptEnvelope
  <2>1. enc'.src = "corrupt" /\ enc'.wk = enc.wk /\ enc'.key = enc.key
    BY <1>4 DEF CorruptEnvelope, TypeOK, Envelope, NoEnvelope
  <2> QED BY <1>4, <2>1 DEF CorruptEnvelope, Migration, MigrationKeepsWrapKey
<1>5. CASE WipeKeychain \/ LoseHelper \/ SessionEnds
  BY <1>1, <1>5 DEF WipeKeychain, LoseHelper, SessionEnds, fileVars
<1> QED
  BY <1>2, <1>3, <1>4, <1>5, MigrationStart, MigrationStep DEF Next, Environment

\* However a Keychain migration ends, and whatever faults happen meanwhile, the
\* wrapping key of the envelope it leaves is on disk: in its file unless the
\* migration succeeded, and then in the archive (migrateFileEnvelopeToKeychain
\* takes the file away last).
THEOREM MigrationsKeepWrapKey == Spec => []MigrationKeepsWrapKey
<1>1. Init => Migration
  BY DEF Init, Migration, MigrationKeepsWrapKey, Idle, NoEnvelope, KeychainSteps
<1>2. Migration => MigrationKeepsWrapKey
  BY DEF Migration
<1> QED BY <1>1, <1>2, TypeCorrect, MigrationNext, PTL DEF Spec

-----------------------------------------------------------------------------
(* What an upgrade and a migration may count on *)

\* Only an upgrade of a plaintext identity goes past its recovery bundle, and
\* until it is through it works on the pair of plaintext and public key it read.
UpgradeControl ==
  /\ cmd.plainMode => cmd.op = "upgrade"
  /\ cmd.op = "upgrade" /\ cmd.at \notin {"bundle", "show"} => cmd.plainMode
  /\ cmd.at \in {"verify", "bak"} => cmd.op = "upgrade"
  /\ cmd.at \in CopySteps => cmd.op = "init"
  /\ cmd.plainMode /\ cmd.at # "show"
       => plain = cmd.key /\ pub = cmd.key /\ enc.src # "keychain"

LEMMA UpgradeControlStart ==
  ASSUME TypeOK, Start
  PROVE  UpgradeControl'
<1> USE DEF UpgradeControl, CopySteps
<1>1. CASE StartUpgrade
  <2>1. PICK ans \in Answer : StartUpgrade!(ans)
    BY <1>1 DEF StartUpgrade
  <2>2. PICK kp \in Keypairs(ans) :
          /\ kp.pub = kp.priv
          /\ bundle[kp.pub] = "none" \/ StorageMode(ans) = "plaintext"
          /\ cmd' = [Idle EXCEPT
                       !.op = "upgrade", !.key = kp.pub,
                       !.plainMode = (StorageMode(ans) = "plaintext"),
                       !.at = IF bundle[kp.pub] = "none" THEN "bundle" ELSE "bak"]
    BY <2>1
  <2>3. /\ cmd'.op = "upgrade" /\ cmd'.key = kp.pub
        /\ cmd'.plainMode = (StorageMode(ans) = "plaintext")
        /\ cmd'.at = IF bundle[kp.pub] = "none" THEN "bundle" ELSE "bak"
    BY <2>2 DEF Idle
  <2>4. StorageMode(ans) = "plaintext"
          => kp.pub = pub /\ kp.priv = plain /\ enc.src # "keychain"
    BY <2>2 DEF StorageMode, Keypairs
  <2>5. UNCHANGED <<enc, pub, plain>>
    BY <2>1 DEF fileVars
  <2>6. bundle[kp.pub] = "none" \/ StorageMode(ans) = "plaintext"
    BY <2>2, Zenon
  <2>7. StorageMode(ans) = "plaintext" <=> cmd'.plainMode
    BY <2>3, Zenon
  <2>8. cmd'.at \in {"bundle", "bak"} /\ (cmd'.at = "bak" => cmd'.plainMode)
    BY <2>3, <2>6, <2>7
  <2>9. cmd'.op = "upgrade" /\ cmd'.key = kp.pub /\ kp.pub = kp.priv
    BY <2>2, <2>3, Zenon
  <2> QED BY <2>4, <2>5, <2>7, <2>8, <2>9
<1>2. CASE StartMigrate
  BY <1>2 DEF StartMigrate, Idle
<1>3. ASSUME NEW op, op # "upgrade",
             NEW at, at = "wrap" \/ (at = "archive" /\ op = "init"),
             NEW k, NEW old, Begin(op, at, k, old)
      PROVE  UpgradeControl'
  BY <1>3, BeginFields
<1> QED
  BY <1>1, <1>2, <1>3 DEF Start, StartInit, StartExtInit, StartImport,
     StartExtImport, StartRecover, StartLegacy

LEMMA UpgradeControlStep ==
  ASSUME TypeOK, Migration, UpgradeControl, CommandStep
  PROVE  UpgradeControl'
<1> USE DEF UpgradeControl, CopySteps, fileVars
<1>1. ASSUME NEW end, Finish(end) PROVE UpgradeControl'
  BY <1>1, IdleFields
<1>2. ASSUME cmd.at # "idle", NEW at, Step(at)
      PROVE  /\ cmd'.at = at /\ cmd'.op = cmd.op /\ cmd'.key = cmd.key
             /\ cmd'.plainMode = cmd.plainMode
  BY <1>2, RunningCommand, StepFields
<1>3. CASE ArchiveIdentity
  BY <1>3, CopyFields DEF ArchiveIdentity, CopySteps
<1>4. CASE SaveWrap
  <2>1. cmd \in Running
    BY <1>4, RunningCommand DEF SaveWrap
  <2> QED BY <1>4, <2>1 DEF SaveWrap, Running
<1>5. CASE SaveEnc
  BY <1>2, <1>5 DEF SaveEnc
<1>6. CASE SavePub
  BY <1>2, <1>6 DEF SavePub
<1>7. CASE UnlinkPlain
  <2>1. CASE \E end : Finish(end)
    BY <1>1, <2>1
  <2>2. ASSUME NEW at \in {"bundle", "dropLegacy", "show"}, Step(at),
               at # "show" => cmd.op \in {"init", "legacy"}
        PROVE  UpgradeControl'
    BY <1>2, <1>7, <2>2 DEF UnlinkPlain
  <2> QED BY <1>7, <2>1, <2>2 DEF UnlinkPlain
<1>8. CASE DropLegacy
  BY <1>1, <1>8 DEF DropLegacy
<1>9. CASE WriteBundle
  <2>1. cmd \in Running
    BY <1>9, RunningCommand DEF WriteBundle
  <2>2. /\ cmd'.at = IF cmd.plainMode THEN "bak" ELSE "show"
        /\ cmd'.op = cmd.op /\ cmd'.key = cmd.key
        /\ cmd'.plainMode = cmd.plainMode
    BY <1>9, <2>1 DEF WriteBundle, Running
  <2> QED BY <1>9, <2>2 DEF WriteBundle
<1>10. CASE WriteBak
  BY <1>2, <1>10 DEF WriteBak
<1>11. CASE VerifyUpgrade
  BY <1>1, <1>2, <1>11 DEF VerifyUpgrade
<1>12. CASE ShowCode
  BY <1>1, <1>12 DEF ShowCode
<1>13. CASE Migrate
  <2>1. cmd.op = "migrate" /\ cmd.at # "idle" /\ UNCHANGED <<pub, plain>>
    BY <1>13 DEF Migrate, KeychainSet, KeychainGet, KeychainEnvelope,
       KeychainVerify, KeychainRollback, KeychainDelete, ArchiveWrapKey,
       UnlinkWrapKey, Migration, KeychainSteps
  <2>2. \/ \E end : Finish(end)
        \/ \E at \in KeychainSteps : Step(at)
    BY <1>13 DEF Migrate, KeychainSet, KeychainGet, KeychainEnvelope,
       KeychainVerify, KeychainRollback, KeychainDelete, ArchiveWrapKey,
       UnlinkWrapKey, KeychainSteps
  <2> QED BY <1>1, <1>2, <2>1, <2>2 DEF KeychainSteps
<1> QED
  BY <1>3, <1>4, <1>5, <1>6, <1>7, <1>8, <1>9, <1>10, <1>11, <1>12, <1>13
     DEF CommandStep, Save, Upgrade

LEMMA UpgradeControlNext ==
  ASSUME TypeOK, Migration, UpgradeControl, [Next]_vars
  PROVE  UpgradeControl'
<1>1. CASE UNCHANGED <<cmd, plain, pub, enc>>
  BY <1>1 DEF UpgradeControl
<1>2. CASE Rely \/ UNCHANGED vars
  BY <1>1, <1>2 DEF Rely, vars, fileVars
<1>3. CASE Abort
  BY <1>3, IdleFields DEF Abort, UpgradeControl, CopySteps
<1>4. CASE CorruptEnvelope
  <2>1. enc'.src = "corrupt"
    BY <1>4 DEF CorruptEnvelope, TypeOK, Envelope, NoEnvelope
  <2> QED BY <1>4, <2>1 DEF CorruptEnvelope, UpgradeControl
<1>5. CASE WipeKeychain \/ LoseHelper \/ SessionEnds
  BY <1>1, <1>5 DEF WipeKeychain, LoseHelper, SessionEnds, fileVars
<1> QED
  BY <1>2, <1>3, <1>4, <1>5, UpgradeControlStart, UpgradeControlStep
     DEF Next, Environment

\* A migration that nothing disturbs finds the directory intact at every step,
\* and never has to roll back.
SteadyMigration ==
  cmd.op = "migrate" =>
    /\ Intact /\ helper /\ enc.key = cmd.key /\ enc.wk = cmd.wk
    /\ cmd.at \in {"kcSet", "kcGet", "kcEnc"} => enc.src = "file"
    /\ cmd.at = "kcEnc" => keychain[cmd.key] = cmd.wk
    /\ cmd.at \in {"kcVerify", "kcArchive", "kcUnlink"} => enc.src = "keychain"
    /\ cmd.at \notin {"kcRollback", "kcDelete"}

\* A directory that is intact opens, when the Keychain can be asked.
LEMMA IntactOpens ==
  ASSUME TypeOK, Intact, helper
  PROVE  /\ enc.key \in Key /\ Opens("ok")
         /\ UsableKey = {[pub |-> enc.key, priv |-> enc.key]}
<1>1. enc.key \in Key
  BY DEF TypeOK, Envelope, NoEnvelope, Intact
<1>2. Readable
  BY <1>1, KeyAssumption DEF Intact, Readable
<1>3. Opens("ok")
  BY <1>2 DEF Intact, Opens, WrapFor, Cold, Warm, KeychainYields, Throws
<1> QED BY <1>1, <1>3 DEF UsableKey, Keypairs

\* A file envelope that opens is intact.
LEMMA FileOpensIntact ==
  ASSUME TypeOK, Migration, NEW ans, Opens(ans), enc.src # "keychain"
  PROVE  Intact /\ enc.src = "file" /\ wrapKey = enc.wk
BY DEF Opens, Readable, Warm, WrapFor, Cold, Intact, Migration

LEMMA SteadyMigrationStart ==
  ASSUME TypeOK, Migration, Start
  PROVE  SteadyMigration'
<1>1. CASE StartMigrate
  <2>1. /\ cmd'.at = "kcSet" /\ cmd'.key = enc.key /\ cmd'.wk = wrapKey
        /\ UNCHANGED <<enc, pub, wrapKey, keychain, helper>> /\ helper
    BY <1>1 DEF StartMigrate, Idle, fileVars, envVars
  <2>2. Opens("ok") /\ enc.src # "keychain"
    BY <1>1 DEF StartMigrate, StorageMode
  <2>3. Intact /\ enc.src = "file" /\ wrapKey = enc.wk
    BY <2>2, FileOpensIntact
  <2> QED BY <2>1, <2>3 DEF SteadyMigration, Intact
<1>2. CASE StartUpgrade
  BY <1>2 DEF StartUpgrade, Idle, SteadyMigration
<1>3. ASSUME NEW op, op # "migrate", NEW at, NEW k, NEW old, Begin(op, at, k, old)
      PROVE  SteadyMigration'
  BY <1>3, BeginFields DEF SteadyMigration
<1> QED
  BY <1>1, <1>2, <1>3 DEF Start, StartInit, StartExtInit, StartImport,
     StartExtImport, StartRecover, StartLegacy

\* The steps of a migration keep it steady, and the key the directory holds.
LEMMA SteadyMigrationMigrate ==
  ASSUME TypeOK, Migration, SteadyMigration, Migrate
  PROVE  SteadyMigration' /\ Intact' /\ helper' /\ enc'.key = enc.key
<1> USE DEF SteadyMigration
<1>0. /\ cmd.op = "migrate" /\ cmd.at # "idle" /\ cmd \in Running /\ cmd.key \in Key
      /\ cmd.wk # 0 /\ keychain \in [Key -> Nat] /\ helper' = helper /\ pub' = pub
  <2>1. cmd.op = "migrate" /\ cmd.at # "idle" /\ helper' = helper /\ pub' = pub
    BY DEF Migrate, KeychainSet, KeychainGet, KeychainEnvelope,
       KeychainVerify, KeychainRollback, KeychainDelete, ArchiveWrapKey,
       UnlinkWrapKey, Migration, KeychainSteps, fileVars, envVars
  <2> QED BY <2>1, RunningCommand DEF Migration, TypeOK
<1>1. ASSUME NEW end, Finish(end) PROVE cmd'.op = "none"
  BY <1>1, IdleFields
<1>2. ASSUME NEW at, Step(at)
      PROVE  /\ cmd'.at = at /\ cmd'.op = cmd.op /\ cmd'.key = cmd.key
             /\ cmd'.wk = cmd.wk
  BY <1>0, <1>2, StepFields
<1>3. CASE KeychainSet
  BY <1>0, <1>1, <1>2, <1>3 DEF KeychainSet, Intact, fileVars
<1>4. CASE KeychainGet
  BY <1>0, <1>1, <1>2, <1>4 DEF KeychainGet, Intact, fileVars
<1>5. CASE KeychainEnvelope
  BY <1>0, <1>2, <1>5 DEF KeychainEnvelope, Intact, envVars
<1>6. CASE KeychainVerify
  <2>1. UNCHANGED <<enc, pub, wrapKey, keychain, helper>>
    BY <1>6 DEF KeychainVerify, fileVars
  <2>2. PICK ans \in Answer : KeychainVerify!(ans)
    BY <1>6 DEF KeychainVerify
  <2>3. wrapKey = enc.wk /\ keychain[enc.key] = enc.wk /\ Readable /\ pub = enc.key
    BY <1>0, <2>2, IntactOpens DEF Migration, Intact, Opens
  <2>4. ~Throws(ans) => Opens(ans)
    BY <2>3 DEF Opens, WrapFor
  <2>5. \/ Step("kcArchive")
        \/ \E end : Finish(end)
    BY <2>2, <2>4
  <2> QED BY <1>0, <1>1, <1>2, <2>1, <2>2, <2>5 DEF Intact
<1>7. CASE KeychainRollback \/ KeychainDelete
  BY <1>0, <1>7 DEF KeychainRollback, KeychainDelete
<1>8. CASE ArchiveWrapKey
  <2>1. UNCHANGED <<enc, pub, wrapKey, keychain, helper>> /\ cmd.at = "kcArchive"
    BY <1>8 DEF ArchiveWrapKey, envVars
  <2>2. Step("kcUnlink") \/ Finish("failed")
    BY <1>8 DEF ArchiveWrapKey
  <2> QED BY <1>0, <1>1, <1>2, <2>1, <2>2 DEF Intact
<1>9. CASE UnlinkWrapKey
  <2>1. \E end : Finish(end)
    BY <1>9 DEF UnlinkWrapKey
  <2> QED BY <1>0, <1>1, <1>9, <2>1 DEF UnlinkWrapKey, Intact, envVars
<1> QED BY <1>3, <1>4, <1>5, <1>6, <1>7, <1>8, <1>9 DEF Migrate

\* The other commands start no migration on their way.
LEMMA SteadyMigrationStep ==
  ASSUME TypeOK, Migration, SteadyMigration, CommandStep
  PROVE  SteadyMigration'
<1>1. CASE Migrate
  BY <1>1, SteadyMigrationMigrate
<1>2. CASE ~Migrate
  <2>1. cmd.at # "idle" /\ cmd.at \notin KeychainSteps
    BY <1>2 DEF CommandStep, Save, Upgrade, ArchiveIdentity, CopySteps, SaveWrap,
       SaveEnc, SavePub, UnlinkPlain, DropLegacy, WriteBundle, WriteBak,
       VerifyUpgrade, ShowCode, KeychainSteps
  <2>2. cmd.op # "migrate" /\ cmd \in Running
    BY <2>1, RunningCommand DEF Migration
  <2>3. \/ \E at : Step(at)
        \/ \E end : Finish(end)
        \/ SaveWrap \/ WriteBundle \/ ArchiveIdentity
    BY <1>2 DEF CommandStep, Save, Upgrade, SaveEnc, SavePub,
       UnlinkPlain, DropLegacy, WriteBak, VerifyUpgrade, ShowCode
  <2>4. cmd'.op \in {cmd.op, "none"}
    BY <2>2, <2>3, StepFields, IdleFields, CopyFields DEF SaveWrap, WriteBundle, Running
  <2> QED BY <2>2, <2>4 DEF SteadyMigration
<1> QED BY <1>1, <1>2

-----------------------------------------------------------------------------
(* The key the directory opens to *)

\* The assumption: processes die, writes, copies and unlinks fail, the helper
\* comes and goes, but nobody damages the Keychain or identity.enc while a command
\* runs.
CrashesAndHelper == Fault \subseteq {"abort", "nocopy", "nounlink", "nohelper"}

\* The plaintext goes only after the envelope was found to hold its key.
UpgradeVerified ==
  cmd.op = "upgrade" /\ cmd.at = "unlinkPlain" => Intact /\ enc.key = cmd.key

Steady == Migration /\ UpgradeControl /\ SteadyMigration /\ UpgradeVerified

LEMMA UpgradeVerifiedStep ==
  ASSUME TypeOK, Steady, CommandStep
  PROVE  UpgradeVerified'
<1> USE DEF UpgradeVerified
<1>1. ASSUME NEW end, Finish(end) PROVE UpgradeVerified'
  BY <1>1, IdleFields
<1>2. ASSUME cmd.at # "idle", NEW at, Step(at)
      PROVE  cmd'.at = at /\ cmd'.op = cmd.op /\ cmd'.key = cmd.key
  BY <1>2, RunningCommand, StepFields
<1>3. CASE VerifyUpgrade
  <2>1. PICK ans \in Answer : VerifyUpgrade!(ans)
    BY <1>3 DEF VerifyUpgrade
  <2>2. CASE Opens(ans) /\ enc.key = cmd.key /\ Step("unlinkPlain")
    <3>1. enc.src # "keychain"
      BY <2>1 DEF Steady, UpgradeControl
    <3>2. Intact
      BY <2>2, <3>1, FileOpensIntact DEF Steady
    <3> QED BY <1>2, <2>1, <2>2, <3>2 DEF Intact, fileVars
  <2> QED BY <1>1, <2>1, <2>2
<1>4. CASE SavePub
  BY <1>2, <1>4 DEF SavePub
<1>5. CASE SaveWrap \/ WriteBundle
  <2>1. cmd \in Running
    BY <1>5, RunningCommand DEF SaveWrap, WriteBundle
  <2> QED BY <1>5, <2>1 DEF SaveWrap, WriteBundle, Running
<1>6. CASE ArchiveIdentity
  BY <1>6, CopyFields
<1>7. CASE ~(VerifyUpgrade \/ SavePub \/ SaveWrap \/ WriteBundle \/ ArchiveIdentity)
  <2>1. \/ \E at : cmd.at # "idle" /\ at # "unlinkPlain" /\ Step(at)
        \/ \E end : Finish(end)
    BY <1>7 DEF CommandStep, Save, Upgrade, Migrate, SaveEnc,
       UnlinkPlain, DropLegacy, WriteBak, ShowCode, KeychainSet, KeychainGet,
       KeychainEnvelope, KeychainVerify, KeychainRollback, KeychainDelete,
       ArchiveWrapKey, UnlinkWrapKey
  <2> QED BY <1>1, <1>2, <2>1
<1> QED BY <1>3, <1>4, <1>5, <1>6, <1>7

LEMMA SteadyNext ==
  ASSUME TypeOK, Steady, CrashesAndHelper, [Next]_vars
  PROVE  Steady'
<1>0. Migration' /\ UpgradeControl'
  BY MigrationNext, UpgradeControlNext DEF Steady
<1>1. CASE Start
  <2>1. SteadyMigration'
    BY <1>1, SteadyMigrationStart DEF Steady
  <2>2. UpgradeVerified'
    <3>1. ASSUME NEW op, NEW at \in {"wrap", "archive"}, NEW k, NEW old,
                 Begin(op, at, k, old)
          PROVE  cmd'.at # "unlinkPlain"
      BY <3>1, BeginFields
    <3>2. CASE StartUpgrade
      BY <3>2 DEF StartUpgrade, Idle, UpgradeVerified
    <3>3. CASE StartMigrate
      BY <3>3 DEF StartMigrate, Idle, UpgradeVerified
    <3> QED
      BY <1>1, <3>1, <3>2, <3>3 DEF Start, StartInit, StartExtInit, StartImport,
         StartExtImport, StartRecover, StartLegacy, UpgradeVerified
  <2> QED BY <1>0, <2>1, <2>2 DEF Steady
<1>2. CASE CommandStep
  BY <1>0, <1>2, SteadyMigrationStep, UpgradeVerifiedStep DEF Steady
<1>3. CASE Abort
  BY <1>0, <1>3, IdleFields DEF Abort, Steady, SteadyMigration, UpgradeVerified
<1>4. CASE LoseHelper
  <2>1. cmd' = cmd /\ cmd.op = "none"
    BY <1>4 DEF LoseHelper, Idle
  <2> QED BY <1>0, <2>1 DEF Steady, SteadyMigration, UpgradeVerified
<1>5. CASE SessionEnds \/ Rely \/ UNCHANGED vars
  <2>1. UNCHANGED <<enc, pub, wrapKey, keychain, helper, cmd>>
    BY <1>5 DEF SessionEnds, Rely, vars, fileVars, envVars
  <2> QED
    BY <1>0, <2>1 DEF Steady, SteadyMigration, UpgradeVerified, Intact
<1> QED
  BY <1>1, <1>2, <1>3, <1>4, <1>5 DEF Next, Environment, WipeKeychain,
     CorruptEnvelope, FaultHappens, CrashesAndHelper

\* What a load reads of the directory, and which key it then yields.
LEMMA UsableKeyOf ==
  ASSUME UNCHANGED <<enc, pub, wrapKey, plain, keychain, helper, session>>
  PROVE  UsableKey' = UsableKey
BY DEF UsableKey, Keypairs, Opens, Throws, Readable, Cold, Warm, WrapFor,
   KeychainYields

FileOpens == enc.src = "file" /\ pub # NoKey /\ wrapKey = enc.wk /\ pub = enc.key

LEMMA UsableKeyOfFile ==
  enc.src # "keychain" =>
    UsableKey = IF FileOpens THEN {[pub |-> enc.key, priv |-> enc.key]}
                ELSE IF plain # NoKey /\ pub # NoKey
                THEN {[pub |-> pub, priv |-> plain]} ELSE {}
BY DEF UsableKey, Keypairs, Opens, Throws, Readable, Cold, Warm, WrapFor, FileOpens

LEMMA UsableKeyOfFileNext ==
  (enc.src # "keychain" =>
    UsableKey = IF FileOpens THEN {[pub |-> enc.key, priv |-> enc.key]}
                ELSE IF plain # NoKey /\ pub # NoKey
                THEN {[pub |-> pub, priv |-> plain]} ELSE {})'
BY UsableKeyOfFile, PTL

LEMMA IntactOpensNext ==
  (TypeOK /\ Intact /\ helper
     => UsableKey = {[pub |-> enc.key, priv |-> enc.key]})'
<1>1. TypeOK /\ Intact /\ helper
        => UsableKey = {[pub |-> enc.key, priv |-> enc.key]}
  BY IntactOpens
<1> QED BY <1>1, PTL

\* The steps of an upgrade and of a migration, in a steady directory.
LEMMA UsableKeyStep ==
  ASSUME TypeOK, TypeOK', Steady, Steady', CommandStep,
         cmd.op \in {"upgrade", "migrate"}
  PROVE  UsableKey' = UsableKey
<1>1. CASE Migrate
  <2>1. cmd.op = "migrate"
    BY <1>1 DEF Migrate, KeychainSet, KeychainGet, KeychainEnvelope,
       KeychainVerify, KeychainRollback, KeychainDelete, ArchiveWrapKey,
       UnlinkWrapKey, Steady, Migration, KeychainSteps
  <2>2. Intact /\ helper
    BY <2>1 DEF Steady, SteadyMigration
  <2>3. UsableKey = {[pub |-> enc.key, priv |-> enc.key]}
    BY <2>2, IntactOpens
  <2>4. Intact' /\ helper' /\ enc'.key = enc.key
    BY <1>1, SteadyMigrationMigrate DEF Steady
  <2>5. UsableKey' = {[pub |-> enc'.key, priv |-> enc'.key]}
    BY <2>4, IntactOpensNext
  <2> QED BY <2>3, <2>4, <2>5
<1>2. CASE ArchiveIdentity \/ WriteBundle \/ WriteBak \/ ShowCode \/ DropLegacy
  BY <1>2, UsableKeyOf DEF ArchiveIdentity, WriteBundle, WriteBak, ShowCode,
     DropLegacy, envVars
<1>3. CASE VerifyUpgrade
  <2>1. enc.src # "keychain" /\ UNCHANGED <<enc, pub, wrapKey, plain>>
    BY <1>3 DEF VerifyUpgrade, Steady, UpgradeControl, fileVars
  <2> QED BY <2>1, UsableKeyOfFile, UsableKeyOfFileNext DEF FileOpens
<1>4. CASE UnlinkPlain
  <2>1. cmd.op = "upgrade" /\ cmd.at = "unlinkPlain"
    BY <1>4 DEF UnlinkPlain, Steady, Migration, KeychainSteps
  <2>2. Intact /\ pub = cmd.key /\ enc.src # "keychain" /\ cmd.key \in Key
    BY <2>1, RunningCommand DEF Steady, UpgradeVerified, UpgradeControl
  <2>3. FileOpens
    BY <2>2, KeyAssumption DEF FileOpens, Intact
  <2>4. UNCHANGED <<enc, pub, wrapKey>>
    BY <1>4 DEF UnlinkPlain
  <2>5. FileOpens'
    BY <2>3, <2>4 DEF FileOpens
  <2> QED
    BY <2>2, <2>3, <2>4, <2>5, UsableKeyOfFile, UsableKeyOfFileNext
<1>5. CASE SaveWrap \/ SaveEnc \/ SavePub
  <2>1. cmd.op = "upgrade" /\ cmd.plainMode /\ cmd \in Running /\ cmd.key \in Key
    BY <1>5, RunningCommand DEF SaveWrap, SaveEnc, SavePub, Steady, Migration,
       KeychainSteps, UpgradeControl
  <2>2. /\ cmd'.at \in {"enc", "pub", "verify"}
        /\ cmd'.plainMode /\ cmd'.key = cmd.key
    BY <1>5, <2>1, StepFields DEF SaveWrap, SaveEnc, SavePub, Running
  <2>3. /\ plain = cmd.key /\ pub = cmd.key /\ enc.src # "keychain"
        /\ plain' = cmd.key /\ pub' = cmd.key /\ enc'.src # "keychain"
    BY <1>5, <2>1, <2>2 DEF SaveWrap, SaveEnc, SavePub, Steady, UpgradeControl
  <2>4. UsableKey = {[pub |-> cmd.key, priv |-> cmd.key]}
    BY <2>1, <2>3, UsableKeyOfFile, KeyAssumption DEF FileOpens
  <2>5. UsableKey' = {[pub |-> cmd.key, priv |-> cmd.key]}
    BY <2>1, <2>3, UsableKeyOfFileNext, KeyAssumption DEF FileOpens
  <2> QED BY <2>4, <2>5
<1> QED
  BY <1>1, <1>2, <1>3, <1>4, <1>5 DEF CommandStep, Save, Upgrade

\* However often a process dies or a write fails, no step of up key upgrade and
\* of the Keychain migration changes the keypair the directory opens to
\* (migratePlaintextToEnvelope, migrateFileEnvelopeToKeychain).
THEOREM UsableKeySurvives ==
  ASSUME CrashesAndHelper PROVE Spec => UsableKeyStable
<1>1. Init => Steady
  BY DEF Init, Steady, Migration, UpgradeControl, SteadyMigration, UpgradeVerified,
     MigrationKeepsWrapKey, Idle, NoEnvelope, KeychainSteps, CopySteps
<1>2. TypeOK /\ Steady /\ [Next]_vars => Steady'
  BY SteadyNext
<1>3. TypeOK /\ TypeOK' /\ Steady /\ Steady' /\ [Next]_vars
        => [(cmd.op \in {"upgrade", "migrate"} /\ cmd' # cmd /\ UsableKey # {})
              => UsableKey' = UsableKey]_vars
  <2> SUFFICES ASSUME TypeOK, TypeOK', Steady, Steady', Next,
                      cmd.op \in {"upgrade", "migrate"}, cmd' # cmd
               PROVE  UsableKey' = UsableKey
    BY DEF vars
  <2>1. CASE CommandStep
    BY <2>1, UsableKeyStep
  <2>2. CASE Abort
    BY <2>2, UsableKeyOf DEF Abort, fileVars, envVars
  <2>3. cmd # Idle
    BY DEF Idle
  <2> QED
    BY <2>1, <2>2, <2>3 DEF Next, Environment, Rely, Start, StartInit,
       StartExtInit, StartImport, StartExtImport, StartRecover, StartLegacy,
       StartUpgrade, StartMigrate, Runs, WipeKeychain, LoseHelper,
       CorruptEnvelope, SessionEnds
<1> QED
  BY <1>1, <1>2, <1>3, TypeCorrect, PTL DEF Spec, UsableKeyStable

-----------------------------------------------------------------------------
(* The plaintext identity and identity.pub *)

Paired == plain # NoKey /\ pub # NoKey => plain = pub

\* Until the first fault, every save finds what its earlier writes left.
CleanSave ==
  faults = 0 =>
    /\ helper
    /\ cmd.at = "enc" => wrapKey = cmd.wk
    /\ cmd.at = "pub" => enc = [key |-> cmd.key, wk |-> wrapKey, src |-> "file"]
                         /\ wrapKey # 0
    /\ cmd.at \in {"verify", "unlinkPlain"} => Intact

\* After the one fault a directory whose two files do not belong together is
\* either intact, so that nobody reads them, or in the hands of a save.
Pairing ==
  \/ Paired
  \/ cmd.at \in {"wrap", "enc", "pub"} /\ faults = 1
  \/ cmd.at = "unlinkPlain"
  \/ Intact /\ helper /\ SteadyMigration /\ faults = 1

PairInv == Migration /\ UpgradeControl /\ CleanSave /\ Pairing

\* A step of a command keeps the helper, and counts the fault that befalls it.
LEMMA CommandFaults ==
  ASSUME TypeOK, CommandStep
  PROVE  /\ helper' = helper /\ cmd.at # "idle" /\ cmd \in Running
         /\ \/ faults' = faults
            \/ /\ faults < MaxFault /\ faults' = faults + 1
               /\ \/ ArchiveIdentity \/ Migrate
                  \/ UnlinkPlain /\ UNCHANGED plain /\ cmd.op # "upgrade"
<1>1. CASE ArchiveIdentity \/ Save
  <2>1. /\ helper' = helper /\ cmd.at # "idle"
        /\ \/ faults' = faults
           \/ /\ faults < MaxFault /\ faults' = faults + 1
              /\ \/ ArchiveIdentity
                 \/ UnlinkPlain /\ UNCHANGED plain /\ cmd.op # "upgrade"
    BY <1>1 DEF Save, ArchiveIdentity, CopySteps, SaveWrap, SaveEnc, SavePub,
       UnlinkPlain, DropLegacy, envVars, FaultHappens
  <2> QED BY <2>1, RunningCommand
<1>2. CASE Upgrade
  <2>1. helper' = helper /\ cmd.at # "idle" /\ faults' = faults
    BY <1>2 DEF Upgrade, WriteBundle, WriteBak, VerifyUpgrade, ShowCode, envVars
  <2> QED BY <2>1, RunningCommand
<1>3. CASE Migrate
  <2>1. /\ helper' = helper /\ cmd.at # "idle"
        /\ faults' = faults \/ (faults < MaxFault /\ faults' = faults + 1)
    BY <1>3 DEF Migrate, KeychainSet, KeychainGet, KeychainEnvelope, KeychainVerify,
       KeychainRollback, KeychainDelete, ArchiveWrapKey, UnlinkWrapKey, envVars,
       FaultHappens
  <2> QED BY <1>3, <2>1, RunningCommand
<1> QED BY <1>1, <1>2, <1>3 DEF CommandStep

LEMMA CleanSaveStep ==
  ASSUME TypeOK, PairInv, CommandStep
  PROVE  CleanSave'
<1> USE DEF CleanSave
<1> SUFFICES ASSUME faults' = 0
             PROVE  CleanSave'
  OBVIOUS
<1>0. faults' = faults /\ helper' = helper /\ cmd.at # "idle" /\ cmd \in Running
  BY CommandFaults DEF TypeOK
<1>1. ASSUME NEW end, Finish(end) PROVE CleanSave'
  BY <1>0, <1>1, IdleFields DEF PairInv
<1>2. ASSUME NEW at, Step(at)
      PROVE  cmd'.at = at /\ cmd'.op = cmd.op /\ cmd'.key = cmd.key
  BY <1>0, <1>2, StepFields
<1>3. CASE SaveWrap
  <2>1. cmd'.at = "enc" /\ cmd'.wk = wraps + 1
    BY <1>0, <1>3 DEF SaveWrap, Running
  <2> QED BY <1>0, <1>3, <2>1 DEF SaveWrap, PairInv
<1>4. CASE SaveEnc
  BY <1>0, <1>2, <1>4 DEF SaveEnc, PairInv, Migration
<1>5. CASE SavePub
  BY <1>0, <1>2, <1>5 DEF SavePub, PairInv, Intact
<1>6. CASE VerifyUpgrade
  <2>1. UNCHANGED <<enc, pub, wrapKey, keychain>>
    BY <1>6 DEF VerifyUpgrade, fileVars
  <2> QED BY <1>0, <1>1, <1>2, <1>6, <2>1 DEF VerifyUpgrade, PairInv, Intact
<1>7. CASE WriteBundle
  <2>1. cmd'.at \in {"bak", "show"}
    BY <1>0, <1>7 DEF WriteBundle, Running
  <2> QED BY <1>0, <2>1 DEF PairInv
<1>8. CASE ArchiveIdentity
  BY <1>0, <1>8, CopyFields DEF PairInv
<1>9. CASE ~(SaveWrap \/ SaveEnc \/ SavePub \/ VerifyUpgrade \/ WriteBundle
              \/ ArchiveIdentity)
  <2>1. \/ \E at : at \notin {"enc", "pub", "verify", "unlinkPlain"} /\ Step(at)
        \/ \E end : Finish(end)
    BY <1>9 DEF CommandStep, Save, Upgrade, Migrate,
       UnlinkPlain, DropLegacy, WriteBak, ShowCode, KeychainSet, KeychainGet,
       KeychainEnvelope, KeychainVerify, KeychainRollback, KeychainDelete,
       ArchiveWrapKey, UnlinkWrapKey
  <2> QED BY <1>0, <1>1, <1>2, <2>1 DEF PairInv
<1> QED BY <1>3, <1>4, <1>5, <1>6, <1>7, <1>8, <1>9

LEMMA PairingStep ==
  ASSUME TypeOK, PairInv, MaxFault <= 1, CommandStep
  PROVE  Pairing'
<1> USE DEF Pairing
<1>0. /\ helper' = helper /\ cmd.at # "idle" /\ cmd \in Running
      /\ \/ faults' = faults
         \/ /\ faults = 0 /\ faults' = 1
            /\ \/ ArchiveIdentity \/ Migrate
               \/ UnlinkPlain /\ UNCHANGED plain /\ cmd.op # "upgrade"
  BY CommandFaults, BoundsAssumption DEF TypeOK
<1>1. ASSUME UNCHANGED <<plain, pub>>, Paired PROVE Paired'
  BY <1>1 DEF Paired
<1>2. ASSUME NEW at, Step(at)
      PROVE  cmd'.at = at /\ cmd'.op = cmd.op /\ cmd'.key = cmd.key
  BY <1>0, <1>2, StepFields
<1>3. CASE SaveWrap
  <2>1. cmd'.at = "enc" /\ UNCHANGED <<plain, pub>>
    BY <1>0, <1>3 DEF SaveWrap, Running
  <2> QED BY <1>0, <1>1, <1>3, <2>1 DEF SaveWrap, PairInv
<1>4. CASE SaveEnc
  BY <1>0, <1>1, <1>2, <1>4 DEF SaveEnc, PairInv
<1>5. CASE SavePub
  <2>1. CASE cmd.op = "upgrade"
    <3>1. plain' = cmd.key /\ pub' = cmd.key
      BY <1>5, <2>1 DEF SavePub, PairInv, UpgradeControl
    <3> QED BY <3>1 DEF Paired
  <2>2. CASE cmd.op # "upgrade"
    BY <1>2, <1>5, <2>2 DEF SavePub
  <2> QED BY <2>1, <2>2
<1>6. CASE UnlinkPlain
  <2>1. CASE plain' = NoKey
    BY <2>1 DEF Paired
  <2>2. CASE plain' # NoKey
    <3>1. /\ faults = 0 /\ faults' = 1 /\ cmd.at = "unlinkPlain"
          /\ UNCHANGED <<enc, pub, wrapKey, keychain>>
      BY <1>0, <1>6, <2>2 DEF UnlinkPlain, FaultHappens, envVars, TypeOK
    <3>2. Intact /\ helper
      BY <3>1 DEF PairInv, CleanSave
    <3>3. SteadyMigration
      BY <3>1 DEF PairInv, Migration, KeychainSteps, SteadyMigration
    <3>4. SteadyMigration'
      BY <1>6, <3>3, SteadyMigrationStep DEF PairInv, CommandStep, Save
    <3> QED BY <1>0, <3>1, <3>2, <3>4 DEF Intact
  <2> QED BY <2>1, <2>2
<1>7. CASE VerifyUpgrade \/ WriteBak
  <2>1. Paired /\ UNCHANGED <<plain, pub>>
    BY <1>7 DEF VerifyUpgrade, WriteBak, PairInv, UpgradeControl, Paired, fileVars
  <2> QED BY <1>1, <2>1
<1>8. CASE Migrate
  <2>1. UNCHANGED <<plain, pub>> /\ cmd.at \in KeychainSteps
    BY <1>8 DEF Migrate, KeychainSet, KeychainGet, KeychainEnvelope,
       KeychainVerify, KeychainRollback, KeychainDelete, ArchiveWrapKey,
       UnlinkWrapKey, fileVars, KeychainSteps
  <2>2. Paired \/ (SteadyMigration /\ faults = 1)
    BY <2>1 DEF PairInv, KeychainSteps
  <2>3. CASE SteadyMigration /\ faults = 1
    BY <1>0, <1>8, <2>3, SteadyMigrationMigrate DEF PairInv
  <2> QED BY <1>1, <2>1, <2>2, <2>3
<1>9. CASE ArchiveIdentity \/ DropLegacy \/ WriteBundle \/ ShowCode
  <2>1. /\ UNCHANGED <<plain, pub, enc, wrapKey, keychain>>
        /\ cmd.at \notin {"wrap", "enc", "pub", "unlinkPlain"}
    BY <1>9 DEF ArchiveIdentity, CopySteps, DropLegacy, WriteBundle, ShowCode, envVars
  <2>2. Paired \/ (Intact /\ helper /\ SteadyMigration /\ faults = 1)
    BY <2>1 DEF PairInv
  <2>3. Intact => Intact'
    BY <2>1 DEF Intact
  <2> QED BY <1>0, <1>1, <2>1, <2>2, <2>3, SteadyMigrationStep DEF PairInv
<1> QED
  BY <1>3, <1>4, <1>5, <1>6, <1>7, <1>8, <1>9 DEF CommandStep, Save, Upgrade

LEMMA PairInvNext ==
  ASSUME TypeOK, PairInv, MaxFault <= 1, [Next]_vars
  PROVE  PairInv'
<1>0. Migration' /\ UpgradeControl'
  BY MigrationNext, UpgradeControlNext DEF PairInv
<1>1. CASE Start
  <2>1. /\ UNCHANGED <<enc, pub, wrapKey, plain, keychain, helper, faults>>
        /\ cmd.at = "idle"
    <3>1. CASE StartUpgrade
      BY <3>1 DEF StartUpgrade, Runs, Idle, fileVars
    <3>2. CASE StartMigrate
      BY <3>2 DEF StartMigrate, Runs, Idle, fileVars, envVars
    <3>3. CASE StartInit \/ StartImport
      BY <3>3 DEF StartInit, StartImport, Runs, Idle, fileVars
    <3>4. CASE StartExtInit \/ StartExtImport \/ StartRecover \/ StartLegacy
      BY <3>4 DEF StartExtInit, StartExtImport, StartRecover, StartLegacy, Runs,
         Idle, fileVars, envVars
    <3> QED BY <1>1, <3>1, <3>2, <3>3, <3>4 DEF Start
  <2>2. cmd'.at \notin {"enc", "pub", "verify", "unlinkPlain"}
    <3>1. ASSUME NEW op, NEW at \in {"wrap", "archive"}, NEW k, NEW old,
                 Begin(op, at, k, old)
          PROVE  cmd'.at \notin {"enc", "pub", "verify", "unlinkPlain"}
      BY <3>1, BeginFields
    <3>2. CASE StartUpgrade
      BY <3>2 DEF StartUpgrade, Idle
    <3>3. CASE StartMigrate
      BY <3>3 DEF StartMigrate, Idle
    <3> QED
      BY <1>1, <3>1, <3>2, <3>3 DEF Start, StartInit, StartExtInit, StartImport,
         StartExtImport, StartRecover, StartLegacy
  <2>3. CleanSave'
    BY <2>1, <2>2 DEF PairInv, CleanSave
  <2>4. SteadyMigration'
    BY <1>1, SteadyMigrationStart DEF PairInv
  <2>5. Pairing'
    BY <2>1, <2>4 DEF PairInv, Pairing, Paired, Intact
  <2> QED BY <1>0, <2>3, <2>5 DEF PairInv
<1>2. CASE CommandStep
  BY <1>0, <1>2, CleanSaveStep, PairingStep DEF PairInv
<1>3. CASE Environment /\ ~SessionEnds
  <2>1. faults = 0 /\ faults' = 1 /\ UNCHANGED <<plain, pub>>
    <3>1. faults \in Nat /\ faults < MaxFault /\ faults' = faults + 1
      BY <1>3 DEF Environment, Abort, WipeKeychain, LoseHelper, CorruptEnvelope,
         FaultHappens, TypeOK
    <3>2. UNCHANGED <<plain, pub>>
      BY <1>3 DEF Environment, Abort, WipeKeychain, LoseHelper, CorruptEnvelope,
         fileVars
    <3> QED BY <3>1, <3>2, BoundsAssumption
  <2>2. CleanSave'
    BY <2>1 DEF CleanSave
  <2>3. Paired \/ cmd.at = "unlinkPlain"
    BY <2>1 DEF PairInv, Pairing
  <2>4. CASE Abort /\ cmd.at = "unlinkPlain"
    <3>1. Intact /\ helper
      BY <2>1, <2>4 DEF PairInv, CleanSave
    <3>2. Intact' /\ helper' /\ SteadyMigration'
      BY <2>4, <3>1, IdleFields
         DEF Abort, Intact, SteadyMigration, fileVars, envVars
    <3> QED BY <1>0, <2>1, <2>2, <3>2 DEF PairInv, Pairing
  <2>5. CASE cmd.at = "unlinkPlain" /\ ~Abort
    <3>1. cmd' = cmd
      BY <1>3, <2>5 DEF Environment, WipeKeychain, LoseHelper, CorruptEnvelope
    <3> QED BY <1>0, <2>2, <2>5, <3>1 DEF PairInv, Pairing
  <2>6. CASE Paired
    BY <1>0, <2>1, <2>2, <2>6 DEF PairInv, Pairing, Paired
  <2> QED BY <2>3, <2>4, <2>5, <2>6
<1>4. CASE SessionEnds \/ Rely \/ UNCHANGED vars
  <2>1. UNCHANGED <<enc, pub, wrapKey, plain, keychain, helper, cmd, faults>>
    BY <1>4 DEF SessionEnds, Rely, vars, fileVars, envVars
  <2> QED
    BY <1>0, <2>1 DEF PairInv, CleanSave, Pairing, Paired, SteadyMigration, Intact
<1> QED BY <1>1, <1>2, <1>3, <1>4 DEF Next, Environment

\* After one fault of any kind, wherever it falls, no command pairs the public
\* key of one keypair with the private key of another: the plaintext fallback of
\* FileProvider.getKeypair, which does not compare the two files, is safe then.
THEOREM PairsBelongTogether ==
  ASSUME MaxFault <= 1 PROVE Spec => []PairConsistent
<1>1. Init => PairInv
  BY KeyAssumption DEF Init, PairInv, Migration, UpgradeControl, CleanSave, Pairing, Paired,
     MigrationKeepsWrapKey, Idle, NoEnvelope, KeychainSteps, CopySteps
<1>2. TypeOK /\ PairInv => PairConsistent
  <2> SUFFICES ASSUME TypeOK, PairInv, cmd = Idle, NEW kp \in Keypairs("ok")
               PROVE  kp.pub = kp.priv
    BY DEF PairConsistent
  <2>1. Paired \/ (Intact /\ helper)
    BY DEF PairInv, Pairing, Idle
  <2>2. CASE Opens("ok")
    BY <2>2 DEF Keypairs
  <2>3. CASE ~Opens("ok")
    <3>1. Paired
      BY <2>1, <2>3, IntactOpens
    <3> QED BY <2>3, <3>1 DEF Keypairs, Paired
  <2> QED BY <2>2, <2>3
<1>3. TypeOK /\ PairInv /\ [Next]_vars => PairInv'
  BY PairInvNext
<1> QED BY <1>1, <1>2, <1>3, TypeCorrect, PTL DEF Spec

=============================================================================
