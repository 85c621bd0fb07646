---------------------------- MODULE IdentityStore ----------------------------
(***************************************************************************)
(* The identity directory ~/.dotenvup and the commands that rewrite it:    *)
(* up init, up key import, up key upgrade, up key migrate-to-keychain, the *)
(* extension's Init, its two import paths and its legacy migration.        *)
(*                                                                         *)
(* Every durable write (one writeAtomic, one unlink, one Keychain call) is *)
(* an action, so a crash or a failing write may fall between any two of    *)
(* them.  One command runs at a time.  A key stands for a whole keypair, a *)
(* wrapping key for the number of the save that drew it (0: no such file   *)
(* or item).                                                               *)
(***************************************************************************)
EXTENDS Naturals

CONSTANTS
  Key,       \* keypairs
  NoKey,     \* no keypair
  Foreign,   \* keypairs of other machines, whose exported bundle the user keeps
  Origin,    \* what the directory may hold at first, a subset of AllOrigins
  Command,   \* the commands the user runs, a subset of AllCommands
  Answer,    \* what a Keychain call may answer, a subset of AllAnswers
  Fault,     \* the faults that may happen, a subset of AllFaults
  MaxWrap,   \* bound: saves that draw a wrapping key
  MaxFault   \* bound: faults

AllCommands == {"init", "extInit", "import", "extImport", "recover",
                "upgrade", "migrate", "legacy"}
\* Nothing, a plaintext identity of an old release, or an old extension's key.
AllOrigins  == {"new", "plaintext", "extension"}

AllFaults   == {"abort", "nocopy", "nounlink", "wipe", "nohelper", "corrupt"}

\* The wrapping key, a cancelled or blocked prompt (both are rethrown to the
\* user), or any other failure.
AllAnswers  == {"ok", "refused", "error"}

ASSUME KeyAssumption     == NoKey \notin Key /\ Foreign \subseteq Key
ASSUME BoundsAssumption  == MaxWrap \in Nat /\ MaxFault \in Nat

VARIABLES
  enc,       \* identity.enc: the sealed key, its wrapping key and wrap.source
  pub,       \* identity.pub
  wrapKey,   \* the wrapping-key file
  plain,     \* the legacy plaintext file "identity"
  bak,       \* keys with an identity.bak-<keyId> file
  archive,   \* archive/<keyId>/: copies of identity, identity.enc, wrapping-key
  bundle,    \* recovery/<keyId>.dotenvup-key: "none", "written" or "shown"
  legacy,    \* the key in VS Code's SecretStorage
  keychain,  \* the Keychain item of each account (= Key-Id)
  helper,    \* @dotenvup/keychain can be loaded
  session,   \* the key the session agent holds
  cmd,       \* the running command
  outcome,   \* what the last command told the user
  wraps,     \* wrapping keys drawn so far
  used,      \* keypairs that exist so far
  relied,    \* keys some .env.up is encrypted to and the user has not given up
  unarchived, \* keys up init --force overwrote though a copy of theirs had failed
  faults     \* faults so far

fileVars == <<enc, pub, wrapKey, plain, bak, archive, bundle, legacy>>
envVars  == <<keychain, helper, session>>
vars     == <<fileVars, envVars, cmd, outcome, wraps, used, relied, unarchived,
              faults>>

-----------------------------------------------------------------------------
(* Types *)

KeyOrNone == Key \cup {NoKey}
NoEnvelope == [key |-> NoKey, wk |-> 0, src |-> "none"]
Envelope  == [key : Key, wk : Nat, src : {"file", "keychain", "corrupt"}]
               \cup {NoEnvelope}
Archived  == [plain : KeyOrNone, enc : Envelope, wk : Nat]
Steps     == {"archive", "archiveEnc", "archiveWrap", "bundle", "bak", "wrap",
              "enc", "pub",
              "unlinkPlain", "verify", "dropLegacy", "show", "kcSet", "kcGet",
              "kcDelete", "kcEnc", "kcVerify", "kcRollback", "kcArchive",
              "kcUnlink"}
\* missed: archiveIdentity has swallowed the failure of a copy.
Idle == [op |-> "none", at |-> "idle", key |-> NoKey, old |-> NoKey, wk |-> 0,
         plainMode |-> FALSE, code |-> FALSE, missed |-> FALSE]
CommandState ==
  [op : AllCommands, at : Steps, key : Key, old : KeyOrNone, wk : Nat,
   plainMode : BOOLEAN, code : BOOLEAN, missed : BOOLEAN] \cup {Idle}
Endings == {"none", "done", "refused", "failed", "aborted"}

TypeOK ==
  /\ enc \in Envelope
  /\ pub \in KeyOrNone
  /\ wrapKey \in Nat
  /\ plain \in KeyOrNone
  /\ bak \subseteq Key
  /\ archive \in [Key -> Archived]
  /\ bundle \in [Key -> {"none", "written", "shown"}]
  /\ legacy \in KeyOrNone
  /\ keychain \in [Key -> Nat]
  /\ helper \in BOOLEAN
  /\ session \in KeyOrNone
  /\ cmd \in CommandState
  /\ outcome \in [op : AllCommands \cup {"none"}, end : Endings]
  /\ wraps \in Nat
  /\ used \subseteq Key
  /\ relied \subseteq Key
  /\ unarchived \subseteq KeyOrNone
  /\ faults \in Nat

-----------------------------------------------------------------------------
(* Reading the directory *)

\* identity.enc parses and identity.pub is there.
Readable == enc.src \in {"file", "keychain"} /\ pub # NoKey

Warm == enc.src = "keychain" /\ session = enc.key
Cold == enc.src = "keychain" /\ session # enc.key

KeychainYields(ans) == helper /\ ans = "ok" /\ keychain[enc.key] # 0

\* Mutant: a refused prompt is swallowed and the key looks absent.
ThrowsSwallowed(ans) ==
  Readable /\ Cold /\ helper /\ ans = "error" /\ wrapKey = 0

\* loadKeypairEnvelope throws: the prompt was refused, or neither the item nor
\* the fallback file gives a wrapping key while the helper is installed.
Throws(ans) ==
  /\ Readable
  /\ Cold
  /\ helper
  /\ ans = "refused" \/ (~KeychainYields(ans) /\ wrapKey = 0)

WrapFor(ans) ==
  IF Cold /\ KeychainYields(ans) THEN keychain[enc.key] ELSE wrapKey

\* loadKeypairEnvelope returns a keypair; it is then that of enc.key.
Opens(ans) ==
  /\ Readable
  /\ ~Throws(ans)
  /\ Warm \/ (WrapFor(ans) = enc.wk /\ pub = enc.key)

\* Mutant: the plaintext fallback does not look whether the files exist.
KeypairsUnchecked(ans) ==
  IF Opens(ans) THEN {[pub |-> enc.key, priv |-> enc.key]}
  ELSE {[pub |-> pub, priv |-> plain]}

\* FileProvider.getKeypair when it does not throw: at most one keypair.  The
\* plaintext fallback pairs the two files without comparing them.
Keypairs(ans) ==
  IF Opens(ans) THEN {[pub |-> enc.key, priv |-> enc.key]}
  ELSE IF plain # NoKey /\ pub # NoKey THEN {[pub |-> pub, priv |-> plain]}
  ELSE {}

StorageMode(ans) ==
  CASE enc.src = "keychain"                   -> "keychain"
    [] enc.src # "keychain" /\ Opens(ans)     -> "file-envelope"
    [] enc.src # "keychain" /\ ~Opens(ans) /\ plain # NoKey -> "plaintext"
    [] OTHER                                  -> "absent"

\* A load through the Keychain hands the key to the session agent, best effort.
Caches(ans) ==
  session' \in {session} \cup
               (IF Opens(ans) /\ enc.src = "keychain" THEN {enc.key} ELSE {})

-----------------------------------------------------------------------------
(* Commands *)

Runs(op) == cmd = Idle /\ op \in Command

Begin(op, at, k, old) ==
  cmd' = [Idle EXCEPT !.op = op, !.at = at, !.key = k, !.old = old]

Step(at) == cmd' = [cmd EXCEPT !.at = at]

Finish(end) ==
  /\ cmd' = Idle
  /\ outcome' = [op |-> cmd.op, end |-> end]

\* A fresh keypair: one that exists nowhere yet.
Fresh(k) == k \in Key \ (Foreign \cup used)

\* The keypairs the user can hand to an import: an exported bundle of another
\* machine, or a recovery bundle whose code was shown.
Importable(k) == k \in Foreign \/ bundle[k] = "shown"

CanSave == wraps < MaxWrap

FaultHappens(f) == f \in Fault /\ faults < MaxFault /\ faults' = faults + 1

Init ==
  /\ enc = NoEnvelope
  /\ wrapKey = 0
  /\ \E k \in Key \ Foreign :
       \/ /\ "new" \in Origin
          /\ plain = NoKey /\ pub = NoKey /\ legacy = NoKey /\ used = {}
       \/ /\ "plaintext" \in Origin
          /\ plain = k /\ pub = k /\ legacy = NoKey /\ used = {k}
       \/ /\ "extension" \in Origin
          /\ plain = NoKey /\ pub = NoKey /\ legacy = k /\ used = {k}
  /\ bak = {}
  /\ archive = [k \in Key |-> [plain |-> NoKey, enc |-> NoEnvelope, wk |-> 0]]
  /\ bundle = [k \in Key |-> "none"]
  /\ keychain = [k \in Key |-> 0]
  /\ helper = TRUE
  /\ session = NoKey
  /\ cmd = Idle
  /\ outcome = [op |-> "none", end |-> "none"]
  /\ wraps = 0
  /\ relied = {}
  /\ unarchived = {}
  /\ faults = 0

\* A command that only reads the key (unlock, import, run ...) succeeds: from
\* here on some .env.up depends on that key.
Rely ==
  \E ans \in Answer :
    /\ cmd = Idle
    /\ ~Throws(ans)
    /\ \E kp \in Keypairs(ans) :
         /\ kp.pub = kp.priv
         /\ relied' = relied \cup {kp.pub}
    /\ Caches(ans)
    /\ UNCHANGED <<fileVars, keychain, helper, cmd, outcome, wraps, used,
                   unarchived, faults>>

\* up init: without a readable keypair it just creates one; with one it needs
\* --force and archives the old identity first.
StartInit ==
  \E ans \in Answer, force \in BOOLEAN, k \in Key :
    /\ Runs("init") /\ CanSave
    /\ ~Throws(ans)
    /\ Fresh(k)
    /\ Keypairs(ans) = {} \/ force
    /\ \/ Keypairs(ans) = {} /\ Begin("init", "wrap", k, NoKey)
       \/ \E kp \in Keypairs(ans) : Begin("init", "archive", k, kp.pub)
    /\ used' = used \cup {k}
    /\ Caches(ans)
    /\ UNCHANGED <<fileVars, keychain, helper, outcome, wraps, relied, unarchived, faults>>

CopySteps == {"archive", "archiveEnc", "archiveWrap"}

\* The archive once the file in hand is copied over what it holds; a file that
\* is not there leaves it as it is.
Copied ==
  CASE cmd.at = "archive" /\ plain # NoKey ->
         [archive EXCEPT ![cmd.old].plain = plain]
    [] cmd.at = "archiveEnc" /\ enc.src # "none" ->
         [archive EXCEPT ![cmd.old].enc = enc]
    [] cmd.at = "archiveWrap" /\ wrapKey # 0 ->
         [archive EXCEPT ![cmd.old].wk = wrapKey]
    [] cmd.at = "kcArchive" ->
         [archive EXCEPT ![cmd.key].wk = wrapKey]
    [] OTHER -> archive

\* The archive when that copy breaks off: copyFile truncates its target first.
Torn ==
  CASE cmd.at = "archive" /\ plain # NoKey ->
         [archive EXCEPT ![cmd.old].plain = NoKey]
    [] cmd.at = "archiveEnc" /\ enc.src # "none" ->
         [archive EXCEPT ![cmd.old].enc = NoEnvelope]
    [] cmd.at = "archiveWrap" /\ wrapKey # 0 ->
         [archive EXCEPT ![cmd.old].wk = 0]
    [] cmd.at = "kcArchive" ->
         [archive EXCEPT ![cmd.key].wk = 0]
    [] OTHER -> archive

AfterCopy ==
  CASE cmd.at = "archive"     -> "archiveEnc"
    [] cmd.at = "archiveEnc"  -> "archiveWrap"
    [] OTHER                  -> "wrap"

\* Mutant: the wrapping key is left out of the archive.
ArchiveIdentityNoWrap ==
  /\ cmd.at \in CopySteps
  /\ archive' = IF cmd.at = "archiveWrap" THEN archive ELSE Copied
  /\ Step(AfterCopy)
  /\ UNCHANGED <<enc, pub, wrapKey, plain, bak, bundle, legacy, envVars,
                 outcome, wraps, used, relied, unarchived, faults>>

\* archiveIdentity: one file after the other, over what the archive holds.  A
\* copy that fails counts as a file that is not there, and the command goes on.
ArchiveIdentity ==
  /\ cmd.at \in CopySteps
  /\ \/ /\ archive' = Copied
        /\ Step(AfterCopy)
        /\ UNCHANGED faults
     \/ /\ FaultHappens("nocopy")
        /\ archive' \in {archive, Torn}
        /\ cmd' = [cmd EXCEPT !.at = AfterCopy, !.missed = TRUE]
  /\ UNCHANGED <<enc, pub, wrapKey, plain, bak, bundle, legacy, envVars,
                 outcome, wraps, used, relied, unarchived>>

\* The extension's Init asks before it replaces an identity and archives
\* nothing: a Yes gives up whatever the directory holds.
StartExtInit ==
  \E k \in Key :
    /\ Runs("extInit") /\ CanSave
    /\ Fresh(k)
    /\ Begin("extInit", "wrap", k, NoKey)
    /\ used' = used \cup {k}
    /\ relied' = relied \ {enc.key, plain, pub, legacy}
    /\ UNCHANGED <<fileVars, envVars, outcome, wraps, unarchived, faults>>

\* up key import: reads the current keypair, and asks before it replaces a
\* different one.  A Yes gives that key up.
StartImport ==
  \E ans \in Answer, k \in Key :
    /\ Runs("import") /\ CanSave
    /\ Importable(k)
    /\ ~Throws(ans)
    /\ Begin("import", "wrap", k, NoKey)
    /\ relied' = relied \ ({kp.pub : kp \in Keypairs(ans)} \ {k})
    /\ used' = used \cup {k}
    /\ Caches(ans)
    /\ UNCHANGED <<fileVars, keychain, helper, outcome, wraps, unarchived, faults>>

\* The extension's key import compares with identity.pub, which needs no prompt.
StartExtImport ==
  \E k \in Key :
    /\ Runs("extImport") /\ CanSave
    /\ Importable(k)
    /\ Begin("extImport", "wrap", k, NoKey)
    /\ relied' = relied \ ({pub} \ {k})
    /\ used' = used \cup {k}
    /\ UNCHANGED <<fileVars, envVars, outcome, wraps, unarchived, faults>>

\* Recover-key-mismatch stores the bundle or archived identity the user picks,
\* whether or not it is the key asked for; nothing is asked or archived.
StartRecover ==
  \E k \in Key :
    /\ Runs("recover") /\ CanSave
    /\ Importable(k) \/ \E a \in Key : archive[a].plain = k
    /\ Begin("recover", "wrap", k, NoKey)
    /\ used' = used \cup {k}
    /\ UNCHANGED <<fileVars, envVars, outcome, wraps, relied, unarchived, faults>>

\* The extension moves a SecretStorage key to an untouched directory.
StartLegacy ==
  /\ Runs("legacy") /\ CanSave
  /\ legacy # NoKey
  /\ StorageMode("ok") = "absent"
  /\ enc.src = "none" /\ plain = NoKey /\ pub = NoKey
  /\ Begin("legacy", "wrap", legacy, NoKey)
  /\ UNCHANGED <<fileVars, envVars, outcome, wraps, used, relied, unarchived, faults>>

-----------------------------------------------------------------------------
(* saveKeypairEnvelope, one durable write after the other *)

SaveWrap ==
  /\ cmd.at = "wrap"
  /\ wraps' = wraps + 1
  /\ wrapKey' = wraps + 1
  /\ cmd' = [cmd EXCEPT !.at = "enc", !.wk = wraps + 1]
  /\ unarchived' = IF cmd.missed THEN unarchived \cup {cmd.old} ELSE unarchived
  /\ UNCHANGED <<enc, pub, plain, bak, archive, bundle, legacy, envVars,
                 outcome, used, relied, faults>>

SaveEnc ==
  /\ cmd.at = "enc"
  /\ enc' = [key |-> cmd.key, wk |-> cmd.wk, src |-> "file"]
  /\ Step("pub")
  /\ UNCHANGED <<pub, wrapKey, plain, bak, archive, bundle, legacy, envVars,
                 outcome, wraps, used, relied, unarchived, faults>>

\* Mutant: a save leaves an older plaintext identity behind.
SavePubNoUnlink ==
  /\ cmd.at = "pub"
  /\ pub' = cmd.key
  /\ IF cmd.op \in {"import", "extImport", "recover"}
       THEN Finish("done")
       ELSE /\ Step(IF cmd.op = "upgrade" THEN "verify" ELSE "unlinkPlain")
            /\ UNCHANGED outcome
  /\ UNCHANGED <<enc, wrapKey, plain, bak, archive, bundle, legacy, envVars,
                 wraps, used, relied, unarchived, faults>>

\* migratePlaintextToEnvelope keeps the plaintext until the envelope opens.
SavePub ==
  /\ cmd.at = "pub"
  /\ pub' = cmd.key
  /\ Step(IF cmd.op = "upgrade" THEN "verify" ELSE "unlinkPlain")
  /\ UNCHANGED <<enc, wrapKey, plain, bak, archive, bundle, legacy, envVars,
                 outcome, wraps, used, relied, unarchived, faults>>

\* The last step of a save, or of the upgrade: drop the plaintext identity.  A
\* save swallows the failure of the unlink; the upgrade ends with it (Abort).
UnlinkPlain ==
  /\ cmd.at = "unlinkPlain"
  /\ \/ plain' = NoKey /\ UNCHANGED faults
     \/ cmd.op # "upgrade" /\ FaultHappens("nounlink") /\ UNCHANGED plain
  /\ \/ cmd.op = "init" /\ Step("bundle") /\ UNCHANGED outcome
     \/ cmd.op = "legacy" /\ Step("dropLegacy") /\ UNCHANGED outcome
     \/ cmd.op = "upgrade" /\ cmd.code /\ Step("show") /\ UNCHANGED outcome
     \/ cmd.op = "upgrade" /\ ~cmd.code /\ Finish("done")
     \/ cmd.op \in {"extInit", "import", "extImport", "recover"} /\ Finish("done")
  /\ UNCHANGED <<enc, pub, wrapKey, bak, archive, bundle, legacy, envVars,
                 wraps, used, relied, unarchived>>

DropLegacy ==
  /\ cmd.at = "dropLegacy"
  /\ legacy' = NoKey
  /\ Finish("done")
  /\ UNCHANGED <<enc, pub, wrapKey, plain, bak, archive, bundle, envVars,
                 wraps, used, relied, unarchived, faults>>

-----------------------------------------------------------------------------
(* Recovery bundle and plaintext upgrade *)

\* Mutant: a recovery bundle is taken for a finished upgrade.
StartUpgradeBundleOnly ==
  \E ans \in Answer :
    LET plaintext == StorageMode(ans) = "plaintext"
    IN /\ Runs("upgrade") /\ CanSave
       /\ ~Throws(ans)
       /\ \E kp \in Keypairs(ans) :
            /\ kp.pub = kp.priv
            /\ bundle[kp.pub] = "none"
            /\ cmd' = [Idle EXCEPT
                         !.op = "upgrade", !.key = kp.pub,
                         !.plainMode = plaintext,
                         !.at = "bundle"]
       /\ Caches(ans)
       /\ UNCHANGED <<fileVars, keychain, helper, outcome, wraps, used, relied, unarchived,
                      faults>>

\* up key upgrade: make sure a recovery bundle exists, then move a plaintext
\* identity into an envelope.  An inconsistent pair fails the bundle's round trip.
StartUpgrade ==
  \E ans \in Answer :
    LET plaintext == StorageMode(ans) = "plaintext"
    IN /\ Runs("upgrade") /\ CanSave
       /\ ~Throws(ans)
       /\ \E kp \in Keypairs(ans) :
            /\ kp.pub = kp.priv
            /\ bundle[kp.pub] = "none" \/ plaintext
            /\ cmd' = [Idle EXCEPT
                         !.op = "upgrade", !.key = kp.pub,
                         !.plainMode = plaintext,
                         !.at = IF bundle[kp.pub] = "none" THEN "bundle"
                                ELSE "bak"]
       /\ Caches(ans)
       /\ UNCHANGED <<fileVars, keychain, helper, outcome, wraps, used, relied, unarchived,
                      faults>>

\* writeRecoveryBundle of init, ensureRecoveryBundle of upgrade: the code is in
\* the process's memory only.
WriteBundle ==
  /\ cmd.at = "bundle"
  /\ bundle' = [bundle EXCEPT ![cmd.key] = "written"]
  /\ cmd' = [cmd EXCEPT !.code = TRUE,
                        !.at = IF cmd.plainMode THEN "bak" ELSE "show"]
  /\ UNCHANGED <<enc, pub, wrapKey, plain, bak, archive, legacy, envVars,
                 outcome, wraps, used, relied, unarchived, faults>>

\* Mutant: the upgrade makes no backup.
WriteBakSkipped ==
  /\ cmd.at = "bak"
  /\ Step("wrap")
  /\ UNCHANGED <<fileVars, envVars, outcome, wraps, used, relied, unarchived, faults>>

\* Mutant: the plaintext is renamed to its backup, not copied.
WriteBakRename ==
  /\ cmd.at = "bak"
  /\ bak' = bak \cup {cmd.key}
  /\ plain' = NoKey
  /\ Step("wrap")
  /\ UNCHANGED <<enc, pub, wrapKey, archive, bundle, legacy, envVars,
                 outcome, wraps, used, relied, unarchived, faults>>

WriteBak ==
  /\ cmd.at = "bak"
  /\ bak' = bak \cup {cmd.key}
  /\ Step("wrap")
  /\ UNCHANGED <<enc, pub, wrapKey, plain, archive, bundle, legacy, envVars,
                 outcome, wraps, used, relied, unarchived, faults>>

\* The envelope must open to the same keypair before the plaintext goes.
VerifyUpgrade ==
  \E ans \in Answer :
    /\ cmd.at = "verify"
    /\ ~Throws(ans)
    /\ \/ /\ Opens(ans) /\ enc.key = cmd.key
          /\ Step("unlinkPlain")
          /\ UNCHANGED outcome
       \/ /\ ~(Opens(ans) /\ enc.key = cmd.key)
          /\ Finish("failed")
    /\ Caches(ans)
    /\ UNCHANGED <<fileVars, keychain, helper, wraps, used, relied, unarchived, faults>>

\* The recovery code is printed, once, as the last thing.
ShowCode ==
  /\ cmd.at = "show"
  /\ bundle' = [bundle EXCEPT ![cmd.key] = "shown"]
  /\ Finish("done")
  /\ UNCHANGED <<enc, pub, wrapKey, plain, bak, archive, legacy, envVars,
                 wraps, used, relied, unarchived, faults>>

-----------------------------------------------------------------------------
(* migrateFileEnvelopeToKeychain *)

\* Both callers turn back when the mode is not "file-envelope" or when there
\* is no recovery bundle file.
StartMigrate ==
  /\ Runs("migrate")
  /\ helper
  /\ StorageMode("ok") = "file-envelope"
  /\ bundle[enc.key] # "none"
  /\ cmd' = [Idle EXCEPT !.op = "migrate", !.at = "kcSet", !.key = enc.key,
                         !.wk = wrapKey]
  /\ UNCHANGED <<fileVars, envVars, outcome, wraps, used, relied, unarchived, faults>>

KeychainSet ==
  \E ans \in Answer :
    /\ cmd.at = "kcSet"
    /\ \/ /\ ans = "ok"
          /\ keychain' = [keychain EXCEPT ![cmd.key] = cmd.wk]
          /\ Step("kcGet")
          /\ UNCHANGED outcome
       \/ /\ ans # "ok"
          /\ UNCHANGED keychain
          /\ Finish(IF ans = "refused" THEN "refused" ELSE "failed")
    /\ UNCHANGED <<fileVars, helper, session, wraps, used, relied, unarchived, faults>>

\* The round trip: what comes back must be what was stored.
KeychainGet ==
  \E ans \in Answer :
    /\ cmd.at = "kcGet"
    /\ \/ /\ ans = "ok" /\ keychain[cmd.key] = cmd.wk
          /\ Step("kcEnc")
          /\ UNCHANGED <<keychain, outcome>>
       \/ /\ ~(ans = "ok" /\ keychain[cmd.key] = cmd.wk)
          \* helper.delete, whose own failure is ignored
          /\ \/ keychain' = [keychain EXCEPT ![cmd.key] = 0]
             \/ UNCHANGED keychain
          /\ Finish(IF ans = "refused" THEN "refused" ELSE "failed")
    /\ UNCHANGED <<fileVars, helper, session, wraps, used, relied, unarchived, faults>>

KeychainEnvelope ==
  /\ cmd.at = "kcEnc"
  /\ enc' = [key |-> cmd.key, wk |-> cmd.wk, src |-> "keychain"]
  /\ Step("kcVerify")
  /\ UNCHANGED <<pub, wrapKey, plain, bak, archive, bundle, legacy, envVars,
                 outcome, wraps, used, relied, unarchived, faults>>

\* loadKeypairEnvelope again.  A refused prompt is thrown to the user as it is;
\* only a keypair that does not match rolls the envelope back.
KeychainVerify ==
  \E ans \in Answer :
    /\ cmd.at = "kcVerify"
    /\ \/ Throws(ans) /\ Finish(IF ans = "refused" THEN "refused" ELSE "failed")
       \/ ~Throws(ans) /\ Opens(ans) /\ Step("kcArchive") /\ UNCHANGED outcome
       \/ ~Throws(ans) /\ ~Opens(ans) /\ Step("kcRollback") /\ UNCHANGED outcome
    /\ Caches(ans)
    /\ UNCHANGED <<fileVars, keychain, helper, wraps, used, relied, unarchived, faults>>

KeychainRollback ==
  /\ cmd.at = "kcRollback"
  /\ enc' = [key |-> cmd.key, wk |-> cmd.wk, src |-> "file"]
  /\ Step("kcDelete")
  /\ UNCHANGED <<pub, wrapKey, plain, bak, archive, bundle, legacy, envVars,
                 outcome, wraps, used, relied, unarchived, faults>>

KeychainDelete ==
  /\ cmd.at = "kcDelete"
  /\ \/ keychain' = [keychain EXCEPT ![cmd.key] = 0]
     \/ UNCHANGED keychain
  /\ Finish("failed")
  /\ UNCHANGED <<fileVars, helper, session, wraps, used, relied, unarchived, faults>>

\* Mutant: the wrapping-key file goes whether or not its copy was made.
ArchiveWrapKeySwallowed ==
  /\ cmd.at = "kcArchive"
  /\ \/ archive' = Copied /\ UNCHANGED faults
     \/ FaultHappens("nocopy") /\ archive' \in {archive, Torn}
  /\ Step("kcUnlink")
  /\ UNCHANGED <<enc, pub, wrapKey, plain, bak, bundle, legacy, envVars,
                 outcome, wraps, used, relied, unarchived>>

\* A wrapping key that cannot be copied or removed ends the migration with an
\* error and the Keychain envelope in place.
ArchiveWrapKey ==
  /\ cmd.at = "kcArchive"
  /\ \/ archive' = Copied /\ Step("kcUnlink") /\ UNCHANGED <<outcome, faults>>
     \/ FaultHappens("nocopy") /\ archive' \in {archive, Torn} /\ Finish("failed")
  /\ UNCHANGED <<enc, pub, wrapKey, plain, bak, bundle, legacy, envVars,
                 wraps, used, relied, unarchived>>

UnlinkWrapKey ==
  /\ cmd.at = "kcUnlink"
  /\ \/ wrapKey' = 0 /\ Finish("done") /\ UNCHANGED faults
     \/ FaultHappens("nounlink") /\ Finish("failed") /\ UNCHANGED wrapKey
  /\ UNCHANGED <<enc, pub, plain, bak, archive, bundle, legacy, envVars,
                 wraps, used, relied, unarchived>>

-----------------------------------------------------------------------------
(* Environment *)

\* The process dies, or the write it was about to make fails and the command
\* reports that: nothing that was written is taken back, and a copy may be left
\* half made (all other files are written beside their place and renamed).
Abort ==
  /\ FaultHappens("abort")
  /\ cmd # Idle
  /\ archive' \in {archive, Torn}
  /\ Finish("aborted")
  /\ UNCHANGED <<enc, pub, wrapKey, plain, bak, bundle, legacy, envVars, wraps,
                 used, relied, unarchived>>

\* The login Keychain is reset or replaced.
WipeKeychain ==
  /\ FaultHappens("wipe")
  /\ keychain' = [k \in Key |-> 0]
  /\ UNCHANGED <<fileVars, helper, session, cmd, outcome, wraps, used, relied, unarchived>>

\* @dotenvup/keychain stops resolving between two commands (another node, a
\* reinstall without optional dependencies).
LoseHelper ==
  /\ FaultHappens("nohelper")
  /\ cmd = Idle
  /\ helper' = FALSE
  /\ UNCHANGED <<fileVars, keychain, session, cmd, outcome, wraps, used, relied, unarchived>>

\* identity.enc no longer parses.
CorruptEnvelope ==
  /\ FaultHappens("corrupt")
  /\ enc.src \in {"file", "keychain"}
  /\ enc' = [enc EXCEPT !.src = "corrupt"]
  /\ UNCHANGED <<pub, wrapKey, plain, bak, archive, bundle, legacy, envVars,
                 cmd, outcome, wraps, used, relied, unarchived>>

\* The agent's time to live ends, the screen locks, or `up session stop`.
SessionEnds ==
  /\ session # NoKey
  /\ session' = NoKey
  /\ UNCHANGED <<fileVars, keychain, helper, cmd, outcome, wraps, used, relied, unarchived,
                 faults>>

-----------------------------------------------------------------------------
(* The specification *)

Save == SaveWrap \/ SaveEnc \/ SavePub \/ UnlinkPlain \/ DropLegacy

Upgrade == WriteBundle \/ WriteBak \/ VerifyUpgrade \/ ShowCode

Migrate ==
  \/ KeychainSet \/ KeychainGet \/ KeychainEnvelope \/ KeychainVerify
  \/ KeychainRollback \/ KeychainDelete \/ ArchiveWrapKey \/ UnlinkWrapKey

Start ==
  \/ StartInit \/ StartExtInit \/ StartImport \/ StartExtImport
  \/ StartRecover \/ StartLegacy \/ StartUpgrade \/ StartMigrate

CommandStep == ArchiveIdentity \/ Save \/ Upgrade \/ Migrate

Environment ==
  Abort \/ WipeKeychain \/ LoseHelper \/ CorruptEnvelope \/ SessionEnds

Next == Rely \/ Start \/ CommandStep \/ Environment

Spec == Init /\ [][Next]_vars

\* A command that was started is carried on (by the process, not by the user),
\* and the user runs up key upgrade again as long as it has something to do.
FairSpec == Spec /\ WF_vars(CommandStep) /\ WF_vars(StartUpgrade)

-----------------------------------------------------------------------------
(* Properties *)

\* The copies of k outside identity.enc and the plaintext file: the backup, the
\* SecretStorage entry, a bundle the user can open, or an archived identity, its
\* envelope with the wrapping key next to it or still in the Keychain.
KeptElsewhere(k) ==
  \/ k \in bak \/ legacy = k
  \/ k \in Foreign \/ bundle[k] = "shown"
  \/ \E a \in Key : archive[a].plain = k
  \/ /\ archive[k].enc.key = k
     /\ archive[k].enc.src \in {"file", "keychain"}
     /\ archive[k].enc.wk \in {archive[k].wk, keychain[k]}

RecoverableElsewhere(k) == plain = k \/ KeptElsewhere(k)

Sealed(k) ==
  /\ enc.key = k
  /\ enc.src \in {"file", "keychain"}
  /\ enc.wk \in {wrapKey, archive[k].wk, keychain[k]}

\* The keys the commands must not lose: an .env.up is encrypted to them, the user
\* has not agreed to replace them, and up init --force has not overwritten them
\* after a copy of archiveIdentity failed, which it does without a word.
Protected == relied \ unarchived

\* No command, whatever write it dies at, destroys the last copy of a key that
\* some .env.up is encrypted to and that the user has not agreed to replace
\* (identityEnvelope.ts writes the envelope before it drops the plaintext,
\* init.ts archives before it overwrites).  The one exception is up init --force
\* going on after a failed copy; a failed copy alone, or one in a migration,
\* loses nothing.
KeyRecoverable == \A k \in Protected : RecoverableElsewhere(k) \/ Sealed(k)

\* The keypair a command would get if the user answers the prompt.
UsableKey == Keypairs("ok")

\* up key upgrade and the Keychain migration may die or fail anywhere: no step
\* of theirs changes which keypair the directory opens to (the comments at
\* migratePlaintextToEnvelope and FileProvider: a failed migration never hides
\* the only remaining key).
UsableKeyStable ==
  [][(cmd.op \in {"upgrade", "migrate"} /\ cmd' # cmd /\ UsableKey # {})
       => UsableKey' = UsableKey]_vars

\* While a plaintext identity is being upgraded a plain copy of it stays on
\* disk, even if the envelope just written is damaged before the last unlink.
UpgradeKeepsCopy ==
  (cmd.op = "upgrade" /\ cmd.plainMode)
    => (plain = cmd.key \/ cmd.key \in bak)

\* However a Keychain migration ends, the wrapping key of the envelope it leaves
\* is still on disk: in its file, where every load finds it, unless the migration
\* reported success, and then in the archive.  It may end with an error after the
\* envelope has moved to the Keychain (a prompt refused at the load that verifies
\* it, a wrapping-key file that cannot be copied or removed); what it may not do
\* is take the file away before all of that has gone well.
MigrationKeepsWrapKey ==
  outcome.op = "migrate" /\ cmd = Idle
    => /\ enc.wk # 0
       /\ enc.wk = IF outcome.end = "done" THEN archive[enc.key].wk ELSE wrapKey

\* After one crash, wherever it falls, no command pairs the public key of one
\* keypair with the private key of another (fileProvider.ts reads the plaintext
\* identity and identity.pub without comparing them).
PairConsistent ==
  cmd = Idle => \A kp \in Keypairs("ok") : kp.pub = kp.priv

\* A user who keeps running up key upgrade ends with an envelope that opens and
\* a recovery bundle, whichever write the earlier attempts died at.
UpgradeConverges ==
  \A k \in Key :
    (plain = k /\ pub = k) ~> (Opens("ok") /\ enc.key = k /\ bundle[k] # "none")

-----------------------------------------------------------------------------
(* Why KeyRecoverable holds, for any number of crashes: an invariant that     *)
(* every step preserves.                                                      *)

\* The assumption: commands may crash, writes, copies and unlinks may fail and
\* prompts may be refused, and no directory with a plaintext identity is given to
\* up init --force.
OnlyCrashes ==
  /\ Fault \subseteq {"abort", "nocopy", "nounlink"}
  /\ Answer \subseteq {"ok", "refused"}
  /\ Command \subseteq AllCommands \ {"recover"}
  /\ "plaintext" \notin Origin \/ "init" \notin Command

\* identity.enc, identity.pub and the wrapping key belong together.
Intact ==
  /\ pub = enc.key
  /\ enc.wk # 0
  /\ \/ enc.src = "file" /\ wrapKey = enc.wk
     \/ enc.src = "keychain" /\ keychain[enc.key] = enc.wk

\* Keys that exist are never drawn again, and their bundles are theirs.
UsedKeys ==
  /\ relied \cup {enc.key, plain, legacy, cmd.key} \subseteq used \cup {NoKey}
  /\ \A k \in Key : bundle[k] # "none" => k \in used

\* Only a torn save leaves the directory in pieces, and a save that replaces an
\* identity starts when every key still relied on is kept elsewhere.
Keeping ==
  /\ \A k \in Protected : RecoverableElsewhere(k) \/ (Intact /\ k = enc.key)
  /\ enc.src = "keychain" => Intact
  /\ enc.src # "none" => enc.wk # 0
  /\ plain \in Protected => pub = plain \/ KeptElsewhere(plain)

\* What the next write of the running command may count on.
Progress ==
  /\ cmd.at \in {"archive", "archiveEnc", "archiveWrap"}
       => cmd.op = "init" /\ Intact /\ enc.key = cmd.old
  /\ cmd.at = "archiveWrap" /\ ~cmd.missed => archive[cmd.old].enc = enc
  /\ cmd.at \in {"wrap", "enc", "pub", "verify", "unlinkPlain"}
       => \A k \in Protected :
            KeptElsewhere(k) \/ (cmd.at = "wrap" /\ cmd.missed /\ k = cmd.old)
  /\ cmd.at = "enc" => wrapKey = cmd.wk /\ cmd.wk # 0
  /\ cmd.at = "pub" => enc = [key |-> cmd.key, wk |-> wrapKey, src |-> "file"]
                       /\ wrapKey # 0
  /\ cmd.at \in {"verify", "unlinkPlain", "dropLegacy"}
       => Intact /\ enc.key = cmd.key
  /\ cmd.op = "legacy" => legacy = cmd.key
  /\ cmd.at = "dropLegacy" => cmd.op = "legacy"
  /\ cmd.plainMode => cmd.op = "upgrade"
  /\ cmd.at = "bak" => cmd.plainMode
  /\ (cmd.plainMode /\ cmd.at \in {"bundle", "bak"})
       => plain = cmd.key /\ \A k \in Protected : RecoverableElsewhere(k)
  /\ (cmd.op = "init" /\ cmd.at # "show") \/ cmd.at = "bundle"
       => bundle[cmd.key] = "none"
  /\ cmd.at \in {"kcSet", "kcGet", "kcEnc", "kcVerify", "kcArchive", "kcUnlink"}
       => Intact /\ enc.key = cmd.key /\ enc.wk = cmd.wk
  /\ cmd.at \in {"kcSet", "kcGet", "kcEnc"} => enc.src = "file"
  /\ cmd.at = "kcEnc" => keychain[cmd.key] = cmd.wk
  /\ cmd.at \in {"kcVerify", "kcArchive", "kcUnlink"} => enc.src = "keychain"
  /\ cmd.at \notin {"kcRollback", "kcDelete"}

KeyInvariant ==
  /\ helper /\ enc.src # "corrupt"
  /\ plain # NoKey => "init" \notin Command
  /\ cmd.op \in Command \cup {"none"}
  /\ UsedKeys
  /\ Keeping
  /\ Progress

=============================================================================
