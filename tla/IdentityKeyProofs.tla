-------------------------- MODULE IdentityKeyProofs --------------------------
(***************************************************************************)
(* No key is lost: KeyRecoverable for every set of keys and any number of  *)
(* crashes, under OnlyCrashes.  The induction is KeyInvariant, which says  *)
(* that a directory is either intact or in pieces, that only a torn save   *)
(* leaves it in pieces, and that a save which replaces an identity starts  *)
(* when every key still relied on is kept elsewhere.                       *)
(***************************************************************************)
EXTENDS IdentityStoreProofs

Inv == TypeOK /\ KeyInvariant

-----------------------------------------------------------------------------
(* What a load tells about the directory *)

\* A load that does not throw opens exactly the intact directories.
LEMMA OpensIntact ==
  ASSUME OnlyCrashes, Inv, NEW ans \in {"ok", "refused"}, ~Throws(ans)
  PROVE  Opens(ans) <=> Intact
<1>1. ans = "ok" \/ ans = "refused"
  OBVIOUS
<1>2. helper /\ enc.src \in {"none", "file", "keychain"} /\ (enc.src # "none" => enc.key \in Key)
  BY DEF Inv, KeyInvariant, TypeOK, Envelope, NoEnvelope
<1>3. ASSUME Intact PROVE Opens(ans)
  <2>1. Readable
    BY <1>2, <1>3, KeyAssumption DEF Intact, Readable
  <2>2. CASE enc.src = "file"
    BY <1>3, <2>1, <2>2 DEF Intact, Opens, WrapFor, Cold
  <2>3. CASE enc.src = "keychain"
    BY <1>1, <1>2, <1>3, <2>1, <2>3
       DEF Intact, Opens, WrapFor, Cold, Warm, KeychainYields, Throws
  <2> QED BY <2>2, <2>3, <1>3 DEF Intact
<1>4. ASSUME Opens(ans) PROVE Intact
  <2>1. CASE enc.src = "keychain"
    BY <2>1 DEF Inv, KeyInvariant, Keeping
  <2>2. CASE enc.src = "file"
    BY <1>2, <1>4, <2>2
       DEF Opens, Warm, WrapFor, Cold, Intact, Inv, KeyInvariant, Keeping
  <2> QED BY <1>4, <2>1, <2>2 DEF Opens, Readable
<1> QED BY <1>3, <1>4

\* The keypair of a load is the envelope's, or else the plaintext one.
LEMMA KeypairsOf ==
  ASSUME OnlyCrashes, Inv, NEW ans \in {"ok", "refused"}, ~Throws(ans)
  PROVE  /\ Intact => Keypairs(ans) = {[pub |-> enc.key, priv |-> enc.key]}
         /\ ~Intact => Keypairs(ans) =
              IF plain # NoKey /\ pub # NoKey
              THEN {[pub |-> pub, priv |-> plain]} ELSE {}
BY OpensIntact DEF Keypairs

-----------------------------------------------------------------------------
\* The idle state satisfies what Progress asks of a running command.
LEMMA IdleProgress ==
  ASSUME cmd'.at = "idle", cmd'.op = "none", cmd'.plainMode = FALSE
  PROVE  Progress'
BY DEF Progress

-----------------------------------------------------------------------------
(* The writes of a save *)

LEMMA KeySave ==
  ASSUME OnlyCrashes, Inv, Save
  PROVE  KeyInvariant'
<1> USE DEF Inv, Protected, fileVars, envVars
<1>1. CASE SaveWrap
  <2>1. cmd \in Running /\ cmd.key \in Key /\ wraps \in Nat
    BY <1>1, RunningCommand DEF SaveWrap, TypeOK
  <2>2. /\ cmd'.at = "enc" /\ cmd'.op = cmd.op /\ cmd'.key = cmd.key
        /\ cmd'.wk = wraps + 1 /\ cmd'.plainMode = cmd.plainMode
    BY <1>1, <2>1 DEF SaveWrap, Running
  <2>3. \A k \in Protected' :
          k \in Protected /\ KeptElsewhere(k) /\ KeptElsewhere(k)'
    BY <1>1 DEF SaveWrap, KeyInvariant, Progress, KeptElsewhere
  <2>4. UsedKeys'
    BY <1>1, <2>2 DEF SaveWrap, KeyInvariant, UsedKeys
  <2>5. Keeping'
    BY <1>1, <2>2, <2>3 DEF SaveWrap, KeyInvariant, Keeping, RecoverableElsewhere, Intact
  <2>6. Progress'
    BY <1>1, <2>1, <2>2, <2>3 DEF SaveWrap, KeyInvariant, Progress
  <2> QED BY <1>1, <2>2, <2>4, <2>5, <2>6 DEF SaveWrap, KeyInvariant
<1>2. CASE SaveEnc
  <2>1. cmd \in Running /\ cmd.key \in Key
    BY <1>2, RunningCommand DEF SaveEnc
  <2>2. /\ cmd'.at = "pub" /\ cmd'.op = cmd.op /\ cmd'.key = cmd.key
        /\ cmd'.wk = cmd.wk /\ cmd'.plainMode = cmd.plainMode
    BY <1>2, <2>1, StepFields DEF SaveEnc
  <2>3. \A k \in Protected : KeptElsewhere(k) /\ KeptElsewhere(k)'
    BY <1>2 DEF SaveEnc, KeyInvariant, Progress, KeptElsewhere
  <2>4. UsedKeys'
    BY <1>2, <2>2 DEF SaveEnc, KeyInvariant, UsedKeys
  <2>5. Keeping'
    BY <1>2, <2>2, <2>3 DEF SaveEnc, KeyInvariant, Keeping, Progress, RecoverableElsewhere, Intact
  <2>6. Progress'
    BY <1>2, <2>1, <2>2, <2>3 DEF SaveEnc, KeyInvariant, Progress
  <2> QED BY <1>2, <2>2, <2>4, <2>5, <2>6 DEF SaveEnc, KeyInvariant
<1>3. CASE SavePub
  <2>1. cmd \in Running /\ cmd.key \in Key
    BY <1>3, RunningCommand DEF SavePub
  <2>2. /\ cmd'.at \in {"verify", "unlinkPlain"} /\ cmd'.op = cmd.op
        /\ cmd'.key = cmd.key /\ cmd'.plainMode = cmd.plainMode
    BY <1>3, <2>1, StepFields DEF SavePub
  <2>3. \A k \in Protected : KeptElsewhere(k) /\ KeptElsewhere(k)'
    BY <1>3 DEF SavePub, KeyInvariant, Progress, KeptElsewhere
  <2>4. UsedKeys'
    BY <1>3, <2>2 DEF SavePub, KeyInvariant, UsedKeys
  <2>5. Intact' /\ enc'.key = cmd.key
    BY <1>3 DEF SavePub, KeyInvariant, Progress, Intact
  <2>6. Keeping'
    BY <1>3, <2>3, <2>5 DEF SavePub, KeyInvariant, Keeping, RecoverableElsewhere
  <2>7. Progress'
    BY <1>3, <2>1, <2>2, <2>3, <2>5 DEF SavePub, KeyInvariant, Progress
  <2> QED BY <1>3, <2>2, <2>4, <2>6, <2>7 DEF SavePub, KeyInvariant
<1>4. CASE UnlinkPlain
  <2>1. cmd \in Running /\ cmd.key \in Key
    BY <1>4, RunningCommand DEF UnlinkPlain
  <2>2. \A k \in Protected : KeptElsewhere(k) /\ KeptElsewhere(k)'
    BY <1>4 DEF UnlinkPlain, KeyInvariant, Progress, KeptElsewhere
  <2>3. NoKey \notin relied
    BY KeyAssumption DEF TypeOK
  <2>4. Intact' /\ enc'.key = cmd.key
    BY <1>4 DEF UnlinkPlain, KeyInvariant, Progress, Intact
  <2>5. Keeping'
    BY <1>4, <2>2, <2>3, <2>4 DEF UnlinkPlain, KeyInvariant, Keeping, RecoverableElsewhere
  <2>6. CASE Finish("done")
    BY <1>4, <2>5, <2>6, IdleFields, IdleProgress DEF UnlinkPlain, KeyInvariant, UsedKeys
  <2>7. ASSUME NEW at \in {"bundle", "dropLegacy", "show"}, Step(at),
               at = "bundle" => cmd.op = "init",
               at = "dropLegacy" => cmd.op = "legacy"
        PROVE  KeyInvariant'
    <3>1. /\ cmd'.at = at /\ cmd'.op = cmd.op
          /\ cmd'.key = cmd.key /\ cmd'.plainMode = cmd.plainMode
      BY <2>1, <2>7, StepFields
    <3>2. Progress'
      BY <1>4, <2>4, <2>7, <3>1 DEF UnlinkPlain, KeyInvariant, Progress
    <3> QED BY <1>4, <2>5, <3>1, <3>2 DEF UnlinkPlain, KeyInvariant, UsedKeys
  <2> QED BY <1>4, <2>6, <2>7 DEF UnlinkPlain
<1>5. CASE DropLegacy
  <2>1. cmd.key \in Key /\ NoKey \notin relied
    BY <1>5, RunningCommand, KeyAssumption DEF DropLegacy, TypeOK
  <2>2. legacy = cmd.key /\ Intact /\ enc.key = cmd.key
    BY <1>5 DEF DropLegacy, KeyInvariant, Progress
  <2>3. \A k \in Protected \ {enc.key} : KeptElsewhere(k) => KeptElsewhere(k)'
    BY <1>5, <2>1, <2>2 DEF DropLegacy, KeptElsewhere
  <2>4. Intact' /\ pub' = enc.key
    BY <1>5, <2>2 DEF DropLegacy, Intact
  <2>5. Keeping'
    BY <1>5, <2>1, <2>2, <2>3, <2>4 DEF DropLegacy, KeyInvariant, Keeping, RecoverableElsewhere
  <2> QED BY <1>5, <2>5, IdleFields, IdleProgress DEF DropLegacy, KeyInvariant, UsedKeys
<1> QED BY <1>1, <1>2, <1>3, <1>4, <1>5 DEF Save

-----------------------------------------------------------------------------
(* Archiving, and up key upgrade *)

\* The archive's new entry keeps the old identity: an intact directory is copied,
\* wrapping key and all, unless a copy fails; and until it is nothing else changed.
LEMMA KeyArchive ==
  ASSUME OnlyCrashes, Inv, ArchiveIdentity
  PROVE  KeyInvariant'
<1> USE DEF Inv, fileVars, envVars
<1>1. /\ cmd \in Running /\ cmd.at \in CopySteps
      /\ cmd'.at = AfterCopy /\ AfterCopy \in {"archiveEnc", "archiveWrap", "wrap"}
      /\ cmd'.op = cmd.op /\ cmd'.key = cmd.key /\ cmd'.old = cmd.old
      /\ cmd'.plainMode = cmd.plainMode
      /\ cmd'.missed = cmd.missed \/ cmd'.missed = TRUE
  BY CopyFields
<1>2. /\ cmd.op = "init" /\ plain = NoKey
      /\ Intact /\ enc.key = cmd.old /\ enc.key \in Key /\ enc.src # "none"
      /\ enc.wk # 0
  BY <1>1 DEF CopySteps, KeyInvariant, Progress, Intact, TypeOK, Envelope, NoEnvelope
<1>3. relied \subseteq Key /\ NoKey \notin relied
  BY KeyAssumption DEF TypeOK
<1>4. Intact' /\ UNCHANGED <<enc, pub, wrapKey, plain, bak, bundle, legacy, keychain,
                             helper, used, relied, unarchived>>
  BY <1>2 DEF ArchiveIdentity, Intact
<1>5. /\ \A a \in Key : archive'[a].plain = archive[a].plain
      /\ \A a \in Key : a # enc.key => archive'[a] = archive[a]
  <2>1. ASSUME NEW v
        PROVE  LET A == [archive EXCEPT ![cmd.old].enc = v]
                   B == [archive EXCEPT ![cmd.old].wk = v]
               IN /\ \A a \in Key : A[a].plain = archive[a].plain
                                   /\ B[a].plain = archive[a].plain
                  /\ \A a \in Key : a # enc.key => A[a] = archive[a] /\ B[a] = archive[a]
    BY <1>2 DEF TypeOK, Archived
  <2>2. /\ \A a \in Key : Copied[a].plain = archive[a].plain /\ Torn[a].plain = archive[a].plain
        /\ \A a \in Key : a # enc.key => Copied[a] = archive[a] /\ Torn[a] = archive[a]
    BY <1>1, <1>2, <2>1 DEF Copied, Torn, CopySteps
  <2> QED BY <2>2 DEF ArchiveIdentity
<1>6. ASSUME NEW k \in Protected, k # enc.key, KeptElsewhere(k)
      PROVE  KeptElsewhere(k)'
  <2>1. archive'[k] = archive[k] /\ k \in Key
    BY <1>3, <1>5, <1>6 DEF Protected
  <2>2. CASE \E a \in Key : archive[a].plain = k
    BY <1>5, <2>2 DEF KeptElsewhere
  <2>3. CASE ~ \E a \in Key : archive[a].plain = k
    BY <1>4, <1>6, <2>1, <2>3 DEF KeptElsewhere
  <2> QED BY <2>2, <2>3
<1>7. \A k \in Protected : k = enc.key \/ KeptElsewhere(k)'
  <2>1. \A k \in Protected : k = enc.key \/ KeptElsewhere(k)
    BY <1>2, <1>3 DEF KeyInvariant, Keeping, RecoverableElsewhere, Protected
  <2> QED BY <1>6, <2>1
<1>8. Keeping'
  BY <1>2, <1>3, <1>4, <1>7 DEF KeyInvariant, Keeping, RecoverableElsewhere, Protected
<1>9. cmd'.at = "archiveWrap" /\ ~cmd'.missed => archive'[cmd.old].enc = enc
  <2>1. SUFFICES ASSUME cmd'.at = "archiveWrap", ~cmd'.missed
                 PROVE  archive'[cmd.old].enc = enc
    OBVIOUS
  <2>2. cmd.at = "archiveEnc"
    BY <1>1, <2>1 DEF AfterCopy, CopySteps
  <2>3. archive' = Copied
    <3>1. cmd' # [cmd EXCEPT !.at = AfterCopy, !.missed = TRUE]
      BY <1>1, <2>1 DEF Running
    <3> QED BY <3>1 DEF ArchiveIdentity
  <2>4. archive' = [archive EXCEPT ![cmd.old].enc = enc]
    BY <1>2, <2>2, <2>3 DEF Copied
  <2> QED BY <1>2, <2>4 DEF TypeOK, Archived
<1>10. ASSUME NEW k, k = cmd.old, cmd'.at = "wrap", ~cmd'.missed
       PROVE  KeptElsewhere(k)'
  <2>1. cmd'.at = "wrap" /\ ~cmd'.missed
    BY <1>10
  <2>2. cmd.at = "archiveWrap" /\ ~cmd.missed
    BY <1>1, <2>1 DEF AfterCopy, CopySteps
  <2>3. archive[cmd.old].enc = enc
    BY <2>2 DEF KeyInvariant, Progress
  <2>4. archive' = Copied
    <3>1. cmd' # [cmd EXCEPT !.at = AfterCopy, !.missed = TRUE]
      BY <1>1, <2>1 DEF Running
    <3> QED BY <3>1 DEF ArchiveIdentity
  <2>5. archive' = IF wrapKey # 0 THEN [archive EXCEPT ![cmd.old].wk = wrapKey]
                   ELSE archive
    BY <2>2, <2>4 DEF Copied
  <2>6. /\ archive'[cmd.old].enc = enc
        /\ wrapKey # 0 => archive'[cmd.old].wk = wrapKey
    BY <1>2, <2>3, <2>5 DEF TypeOK, Archived
  <2>7. enc.wk \in {archive'[cmd.old].wk, keychain[cmd.old]}
    BY <1>2, <2>6 DEF Intact
  <2>8. enc.src \in {"file", "keychain"}
    BY <1>2 DEF Intact
  <2> QED BY <1>2, <1>4, <1>10, <2>6, <2>7, <2>8 DEF KeptElsewhere
<1>11. cmd'.at = "wrap" => \A k \in Protected' :
         KeptElsewhere(k)' \/ (cmd'.at = "wrap" /\ cmd'.missed /\ k = cmd'.old)
  <2> SUFFICES ASSUME NEW k \in Protected', cmd'.at = "wrap"
               PROVE  KeptElsewhere(k)' \/ (cmd'.missed /\ k = cmd'.old)
    OBVIOUS
  <2>1. CASE k # enc.key
    <3>1. k \in Protected
      BY <1>4 DEF Protected
    <3> QED BY <1>7, <2>1, <3>1
  <2>2. CASE k = enc.key /\ cmd'.missed
    BY <1>1, <1>2, <2>2
  <2>3. CASE k = enc.key /\ ~cmd'.missed
    BY <1>2, <1>10, <2>3
  <2> QED BY <2>1, <2>2, <2>3
<1>12. Progress'
  <2>1. /\ Intact' /\ enc'.key = cmd'.old /\ cmd'.op = "init"
        /\ bundle'[cmd'.key] = "none" /\ ~cmd'.plainMode
    BY <1>1, <1>2, <1>4 DEF KeyInvariant, Progress, CopySteps
  <2>2. cmd'.at \in {"archiveEnc", "archiveWrap", "wrap"}
    BY <1>1
  <2>3. cmd'.at = "archiveWrap" /\ ~cmd'.missed => archive'[cmd'.old].enc = enc'
    BY <1>1, <1>4, <1>9
  <2> QED BY <1>11, <2>1, <2>2, <2>3 DEF Progress
<1>13. UsedKeys'
  BY <1>1, <1>4 DEF KeyInvariant, UsedKeys
<1> QED BY <1>1, <1>2, <1>4, <1>8, <1>12, <1>13 DEF KeyInvariant

LEMMA KeyUpgrade ==
  ASSUME OnlyCrashes, Inv, Upgrade
  PROVE  KeyInvariant'
<1> USE DEF Inv, Protected, fileVars, envVars
<1>1. CASE WriteBundle
  <2>1. cmd \in Running /\ cmd.key \in Key /\ bundle[cmd.key] = "none"
    BY <1>1, RunningCommand DEF WriteBundle, KeyInvariant, Progress
  <2>2. /\ cmd'.at = IF cmd.plainMode THEN "bak" ELSE "show"
        /\ cmd'.op = cmd.op /\ cmd'.key = cmd.key
        /\ cmd'.plainMode = cmd.plainMode
    BY <1>1, <2>1 DEF WriteBundle, Running
  <2>3. \A k \in Protected : KeptElsewhere(k) => KeptElsewhere(k)'
    BY <1>1, <2>1 DEF WriteBundle, KeptElsewhere, TypeOK
  <2>4. \A k \in Protected : RecoverableElsewhere(k) => RecoverableElsewhere(k)'
    BY <1>1, <2>3 DEF WriteBundle, RecoverableElsewhere
  <2>5. UsedKeys'
    BY <1>1, <2>1, <2>2, KeyAssumption DEF WriteBundle, KeyInvariant, UsedKeys, TypeOK
  <2>6. Keeping'
    BY <1>1, <2>3, <2>4 DEF WriteBundle, KeyInvariant, Keeping, Intact
  <2>7. Progress'
    BY <1>1, <2>2, <2>4 DEF WriteBundle, KeyInvariant, Progress, Intact
  <2> QED BY <1>1, <2>2, <2>5, <2>6, <2>7 DEF WriteBundle, KeyInvariant
<1>2. CASE WriteBak
  <2>1. cmd \in Running
    BY <1>2, RunningCommand DEF WriteBak
  <2>2. /\ cmd'.at = "wrap" /\ cmd'.op = cmd.op /\ cmd'.key = cmd.key
        /\ cmd'.plainMode = cmd.plainMode
    BY <1>2, <2>1, StepFields DEF WriteBak
  <2>3. plain = cmd.key /\ \A k \in Protected : RecoverableElsewhere(k)
    BY <1>2 DEF WriteBak, KeyInvariant, Progress
  <2>4. \A k \in Protected : KeptElsewhere(k)'
    BY <1>2, <2>3 DEF WriteBak, RecoverableElsewhere, KeptElsewhere
  <2>5. Keeping'
    BY <1>2, <2>4 DEF WriteBak, KeyInvariant, Keeping, RecoverableElsewhere, Intact
  <2>6. Progress'
    BY <1>2, <2>2, <2>4 DEF WriteBak, KeyInvariant, Progress
  <2> QED BY <1>2, <2>2, <2>5, <2>6 DEF WriteBak, KeyInvariant, UsedKeys
<1>3. CASE VerifyUpgrade
  <2>1. cmd \in Running
    BY <1>3, RunningCommand DEF VerifyUpgrade
  <2>2. \A k : KeptElsewhere(k) <=> KeptElsewhere(k)'
    BY <1>3 DEF VerifyUpgrade, KeptElsewhere
  <2>3. Keeping' /\ (Intact <=> Intact')
    BY <1>3, <2>2 DEF VerifyUpgrade, KeyInvariant, Keeping, RecoverableElsewhere, Intact
  <2>4. CASE Step("unlinkPlain")
    <3>1. /\ cmd'.at = "unlinkPlain" /\ cmd'.op = cmd.op /\ cmd'.key = cmd.key
          /\ cmd'.plainMode = cmd.plainMode
      BY <2>1, <2>4, StepFields
    <3>2. Progress'
      BY <1>3, <2>2, <2>3, <3>1 DEF VerifyUpgrade, KeyInvariant, Progress
    <3> QED BY <1>3, <2>3, <3>1, <3>2 DEF VerifyUpgrade, KeyInvariant, UsedKeys
  <2>5. CASE Finish("failed")
    BY <1>3, <2>3, <2>5, IdleFields, IdleProgress DEF VerifyUpgrade, KeyInvariant, UsedKeys
  <2> QED BY <1>3, <2>4, <2>5 DEF VerifyUpgrade
<1>4. CASE ShowCode
  <2>1. cmd.key \in Key
    BY <1>4, RunningCommand DEF ShowCode
  <2>2. \A k \in Protected : KeptElsewhere(k) => KeptElsewhere(k)'
    BY <1>4 DEF ShowCode, KeptElsewhere, TypeOK
  <2>3. Keeping'
    BY <1>4, <2>2 DEF ShowCode, KeyInvariant, Keeping, RecoverableElsewhere, Intact
  <2>4. UsedKeys'
    BY <1>4, <2>1, KeyAssumption, IdleFields DEF ShowCode, KeyInvariant, UsedKeys, TypeOK
  <2> QED BY <1>4, <2>3, <2>4, IdleFields, IdleProgress DEF ShowCode, KeyInvariant
<1> QED BY <1>1, <1>2, <1>3, <1>4 DEF Upgrade

-----------------------------------------------------------------------------
(* The Keychain migration *)

\* While the directory stays intact around the same key, what happens to that
\* key's archive entry and Keychain item costs nobody anything.
LEMMA KeepingIntact ==
  ASSUME Inv, Intact, Intact', enc'.key = enc.key,
         UNCHANGED <<pub, plain, bak, bundle, legacy, relied, unarchived>>,
         \A k \in Key \ {enc.key} :
           archive'[k] = archive[k] /\ keychain'[k] = keychain[k],
         \A k \in Key : archive'[k].plain = archive[k].plain
  PROVE  Keeping'
<1> USE DEF Inv, Protected
<1>1. relied \subseteq Key
  BY DEF TypeOK
<1>2. \A k \in Protected \ {enc.key} : KeptElsewhere(k) => KeptElsewhere(k)'
  BY <1>1 DEF KeptElsewhere
<1>3. \A k \in Protected \ {enc.key} : RecoverableElsewhere(k) => RecoverableElsewhere(k)'
  BY <1>2 DEF RecoverableElsewhere
<1>4. enc'.wk # 0 /\ pub' = enc.key
  BY DEF Intact
<1> QED BY <1>2, <1>3, <1>4 DEF KeyInvariant, Keeping

LEMMA KeyMigrate ==
  ASSUME OnlyCrashes, Inv, Migrate
  PROVE  KeyInvariant'
<1> USE DEF Inv, Protected, fileVars, envVars
<1>1. CASE KeychainSet
  <2>1. /\ cmd \in Running /\ cmd.key \in Key /\ Intact
        /\ enc.key = cmd.key /\ enc.src = "file" /\ enc.wk = cmd.wk
    BY <1>1, RunningCommand DEF KeychainSet, KeyInvariant, Progress
  <2>2. Intact'
    BY <1>1, <2>1 DEF KeychainSet, Intact
  <2>3. \A k \in Key \ {enc.key} : keychain'[k] = keychain[k]
    BY <1>1, <2>1 DEF KeychainSet, TypeOK
  <2>4. Keeping'
    BY <1>1, <2>1, <2>2, <2>3, KeepingIntact DEF KeychainSet
  <2>5. CASE Step("kcGet")
    <3>1. /\ cmd'.at = "kcGet" /\ cmd'.op = cmd.op /\ cmd'.key = cmd.key
          /\ cmd'.wk = cmd.wk /\ cmd'.plainMode = cmd.plainMode
      BY <2>1, <2>5, StepFields
    <3>2. Progress'
      BY <1>1, <2>1, <2>2, <3>1 DEF KeychainSet, KeyInvariant, Progress
    <3> QED BY <1>1, <2>4, <3>1, <3>2 DEF KeychainSet, KeyInvariant, UsedKeys
  <2>6. ASSUME NEW end, Finish(end) PROVE KeyInvariant'
    BY <1>1, <2>4, <2>6, IdleFields, IdleProgress DEF KeychainSet, KeyInvariant, UsedKeys
  <2> QED BY <1>1, <2>5, <2>6 DEF KeychainSet
<1>2. CASE KeychainGet
  <2>1. /\ cmd \in Running /\ cmd.key \in Key /\ Intact
        /\ enc.key = cmd.key /\ enc.src = "file" /\ enc.wk = cmd.wk
    BY <1>2, RunningCommand DEF KeychainGet, KeyInvariant, Progress
  <2>2. Intact'
    BY <1>2, <2>1 DEF KeychainGet, Intact
  <2>3. \A k \in Key \ {enc.key} : keychain'[k] = keychain[k]
    BY <1>2, <2>1 DEF KeychainGet, TypeOK
  <2>4. Keeping'
    BY <1>2, <2>1, <2>2, <2>3, KeepingIntact DEF KeychainGet
  <2>5. ASSUME Step("kcEnc"), keychain[cmd.key] = cmd.wk, UNCHANGED keychain
        PROVE  KeyInvariant'
    <3>1. /\ cmd'.at = "kcEnc" /\ cmd'.op = cmd.op /\ cmd'.key = cmd.key
          /\ cmd'.wk = cmd.wk /\ cmd'.plainMode = cmd.plainMode
      BY <2>1, <2>5, StepFields
    <3>2. Progress'
      BY <1>2, <2>1, <2>2, <2>5, <3>1 DEF KeychainGet, KeyInvariant, Progress
    <3> QED BY <1>2, <2>4, <3>1, <3>2 DEF KeychainGet, KeyInvariant, UsedKeys
  <2>6. ASSUME NEW end, Finish(end) PROVE KeyInvariant'
    BY <1>2, <2>4, <2>6, IdleFields, IdleProgress DEF KeychainGet, KeyInvariant, UsedKeys
  <2> QED BY <1>2, <2>5, <2>6 DEF KeychainGet
<1>3. CASE KeychainEnvelope
  <2>1. /\ cmd \in Running /\ Intact /\ enc.key = cmd.key
        /\ enc.wk = cmd.wk /\ keychain[cmd.key] = cmd.wk
    BY <1>3, RunningCommand DEF KeychainEnvelope, KeyInvariant, Progress
  <2>2. Intact' /\ enc'.key = enc.key
    BY <1>3, <2>1 DEF KeychainEnvelope, Intact
  <2>3. Keeping'
    BY <1>3, <2>1, <2>2, KeepingIntact DEF KeychainEnvelope
  <2>4. /\ cmd'.at = "kcVerify" /\ cmd'.op = cmd.op /\ cmd'.key = cmd.key
        /\ cmd'.wk = cmd.wk /\ cmd'.plainMode = cmd.plainMode
    BY <1>3, <2>1, StepFields DEF KeychainEnvelope
  <2>5. Progress'
    BY <1>3, <2>1, <2>2, <2>4 DEF KeychainEnvelope, KeyInvariant, Progress
  <2> QED BY <1>3, <2>1, <2>3, <2>4, <2>5 DEF KeychainEnvelope, KeyInvariant, UsedKeys
<1>4. CASE KeychainVerify
  <2>1. /\ cmd \in Running /\ Intact /\ enc.key = cmd.key /\ enc.wk = cmd.wk
        /\ enc.src = "keychain"
    BY <1>4, RunningCommand DEF KeychainVerify, KeyInvariant, Progress
  <2>2. Intact'
    BY <1>4, <2>1 DEF KeychainVerify, Intact
  <2>3. Keeping'
    BY <1>4, <2>1, <2>2, KeepingIntact DEF KeychainVerify
  <2>4. PICK ans \in Answer : KeychainVerify!(ans)
    BY <1>4 DEF KeychainVerify
  <2>5. ~Throws(ans) => Opens(ans)
    BY <2>1, OpensIntact DEF OnlyCrashes
  <2>6. CASE Step("kcArchive")
    <3>1. /\ cmd'.at = "kcArchive" /\ cmd'.op = cmd.op /\ cmd'.key = cmd.key
          /\ cmd'.wk = cmd.wk /\ cmd'.plainMode = cmd.plainMode
      BY <2>1, <2>6, StepFields
    <3>2. Progress'
      BY <2>1, <2>2, <2>4, <3>1 DEF KeyInvariant, Progress
    <3> QED BY <2>3, <2>4, <3>1, <3>2 DEF KeyInvariant, UsedKeys
  <2>7. ASSUME NEW end, Finish(end) PROVE KeyInvariant'
    BY <2>3, <2>4, <2>7, IdleFields, IdleProgress DEF KeyInvariant, UsedKeys
  <2> QED BY <2>4, <2>5, <2>6, <2>7
<1>5. CASE KeychainRollback \/ KeychainDelete
  BY <1>5 DEF KeychainRollback, KeychainDelete, KeyInvariant, Progress
<1>6. CASE ArchiveWrapKey
  <2>1. /\ cmd \in Running /\ cmd.key \in Key /\ Intact /\ enc.key = cmd.key
        /\ enc.wk = cmd.wk /\ enc.src = "keychain"
    BY <1>6, RunningCommand DEF ArchiveWrapKey, KeyInvariant, Progress
  <2>2. Intact'
    BY <1>6, <2>1 DEF ArchiveWrapKey, Intact
  <2>3. \A k \in Key : /\ archive'[k].plain = archive[k].plain
                       /\ k # enc.key => archive'[k] = archive[k]
    <3>1. ASSUME NEW v
          PROVE  LET A == [archive EXCEPT ![cmd.key].wk = v]
                 IN \A k \in Key : /\ A[k].plain = archive[k].plain
                                   /\ k # enc.key => A[k] = archive[k]
      BY <2>1 DEF TypeOK, Archived
    <3>2. \/ archive' = archive
          \/ \E v : archive' = [archive EXCEPT ![cmd.key].wk = v]
      BY <1>6 DEF ArchiveWrapKey, Copied, Torn
    <3>3. CASE archive' = archive
      BY <3>3
    <3>4. CASE archive' # archive
      <4>1. PICK v : archive' = [archive EXCEPT ![cmd.key].wk = v]
        BY <3>2, <3>4
      <4>2. \A k \in Key : /\ archive'[k].plain = archive[k].plain
                           /\ k # cmd.key => archive'[k] = archive[k]
        BY <3>1, <4>1
      <4> QED BY <2>1, <4>2
    <3> QED BY <3>3, <3>4
  <2>4. Keeping'
    BY <1>6, <2>1, <2>2, <2>3, KeepingIntact DEF ArchiveWrapKey
  <2>5. ASSUME Step("kcUnlink") PROVE KeyInvariant'
    <3>1. /\ cmd'.at = "kcUnlink" /\ cmd'.op = cmd.op /\ cmd'.key = cmd.key
          /\ cmd'.wk = cmd.wk /\ cmd'.plainMode = cmd.plainMode
          /\ cmd'.missed = cmd.missed
      BY <2>1, <2>5, StepFields
    <3>2. Progress'
      BY <1>6, <2>1, <2>2, <3>1 DEF ArchiveWrapKey, KeyInvariant, Progress
    <3> QED BY <1>6, <2>4, <3>1, <3>2 DEF ArchiveWrapKey, KeyInvariant, UsedKeys
  <2>6. ASSUME NEW end, Finish(end) PROVE KeyInvariant'
    BY <1>6, <2>4, <2>6, IdleFields, IdleProgress DEF ArchiveWrapKey, KeyInvariant, UsedKeys
  <2> QED BY <1>6, <2>5, <2>6 DEF ArchiveWrapKey
<1>7. CASE UnlinkWrapKey
  <2>1. Intact /\ enc.src = "keychain"
    BY <1>7 DEF UnlinkWrapKey, KeyInvariant, Progress
  <2>2. Intact'
    BY <1>7, <2>1 DEF UnlinkWrapKey, Intact
  <2>3. Keeping'
    BY <1>7, <2>1, <2>2, KeepingIntact DEF UnlinkWrapKey
  <2> QED BY <1>7, <2>3, IdleFields, IdleProgress DEF UnlinkWrapKey, KeyInvariant, UsedKeys
<1> QED BY <1>1, <1>2, <1>3, <1>4, <1>5, <1>6, <1>7 DEF Migrate

-----------------------------------------------------------------------------
(* Starting a command *)

\* A command that starts leaves the directory alone, so what was kept stays.
LEMMA StartKeeps ==
  ASSUME UNCHANGED <<fileVars, keychain>>
  PROVE  /\ Intact <=> Intact'
         /\ \A k : KeptElsewhere(k) <=> KeptElsewhere(k)'
         /\ \A k : RecoverableElsewhere(k) <=> RecoverableElsewhere(k)'
<1> USE DEF fileVars
<1>1. \A k : KeptElsewhere(k) <=> KeptElsewhere(k)'
  BY DEF KeptElsewhere
<1>2. \A k : RecoverableElsewhere(k) <=> RecoverableElsewhere(k)'
  BY <1>1 DEF RecoverableElsewhere
<1> QED BY <1>1, <1>2 DEF Intact

\* A save may start once every key still relied on is kept elsewhere.
LEMMA SaveMayStart ==
  ASSUME Inv, NEW op \in Command, NEW k \in used', NEW old,
         Begin(op, "wrap", k, old),
         UNCHANGED <<fileVars, keychain, helper, unarchived>>,
         relied' \subseteq relied, used \subseteq used',
         \A r \in Protected' : KeptElsewhere(r),
         op = "legacy" => legacy = k,
         op = "init" => bundle[k] = "none"
  PROVE  KeyInvariant'
<1> USE DEF Inv, Protected, fileVars
<1>1. /\ cmd'.op = op /\ cmd'.at = "wrap" /\ cmd'.key = k /\ cmd'.plainMode = FALSE
  BY BeginFields
<1>2. \A r \in Protected' : KeptElsewhere(r)'
  BY StartKeeps
<1>3. UsedKeys'
  BY <1>1 DEF KeyInvariant, UsedKeys
<1>4. Keeping'
  BY <1>2, StartKeeps DEF KeyInvariant, Keeping, RecoverableElsewhere
<1>5. Progress'
  BY <1>1, <1>2 DEF Progress
<1> QED BY <1>1, <1>3, <1>4, <1>5 DEF KeyInvariant

LEMMA KeyStart ==
  ASSUME OnlyCrashes, Inv, Start
  PROVE  KeyInvariant'
<1> USE DEF Inv, Protected
<1>1. relied \subseteq Key /\ NoKey \notin relied /\ relied \subseteq used
  BY KeyAssumption DEF TypeOK, KeyInvariant, UsedKeys
<1>2. \A k : Fresh(k) => k \in Key /\ k \notin relied /\ bundle[k] = "none"
  BY <1>1 DEF Fresh, KeyInvariant, UsedKeys, TypeOK
<1>3. ASSUME NEW r \in Protected, r # plain, ~(Intact /\ r = enc.key)
      PROVE  KeptElsewhere(r)
  BY <1>3 DEF KeyInvariant, Keeping, RecoverableElsewhere
<1>4. ASSUME NEW r \in Protected, r # pub
      PROVE  KeptElsewhere(r)
  BY <1>4 DEF KeyInvariant, Keeping, RecoverableElsewhere, Intact
<1>5. \A k : Importable(k) => KeptElsewhere(k)
  BY DEF Importable, KeptElsewhere
<1>6. CASE StartInit
  <2>1. PICK ans \in Answer, force \in BOOLEAN, k \in Key :
          StartInit!(ans, force, k)
    BY <1>6 DEF StartInit
  <2>2. plain = NoKey /\ ans \in {"ok", "refused"}
    BY <2>1 DEF Runs, KeyInvariant, OnlyCrashes
  <2>3. CASE Keypairs(ans) = {}
    <3>1. Begin("init", "wrap", k, NoKey)
      BY <2>1, <2>3
    <3>2. ~Intact
      BY <2>1, <2>2, <2>3, KeypairsOf
    <3>3. \A r \in Protected' : KeptElsewhere(r)
      BY <1>1, <1>3, <2>1, <2>2, <3>2
    <3> QED BY <1>2, <2>1, <3>1, <3>3, SaveMayStart DEF Runs
  <2>4. CASE \E kp \in Keypairs(ans) : Begin("init", "archive", k, kp.pub)
    <3>1. PICK kp \in Keypairs(ans) : Begin("init", "archive", k, kp.pub)
      BY <2>4
    <3>2. Intact /\ kp.pub = enc.key
      BY <2>1, <2>2, <3>1, KeypairsOf
    <3>3. /\ cmd'.op = "init" /\ cmd'.at = "archive" /\ cmd'.key = k
          /\ cmd'.old = enc.key /\ cmd'.plainMode = FALSE
      BY <3>1, <3>2 DEF Begin, Idle
    <3>4. UNCHANGED <<fileVars, keychain, helper, relied, unarchived>> /\ used' = used \cup {k}
      BY <2>1
    <3>5. UsedKeys' /\ Keeping'
      BY <3>3, <3>4, StartKeeps DEF fileVars, KeyInvariant, UsedKeys, Keeping
    <3>6. Progress'
      BY <1>2, <2>1, <3>2, <3>3, <3>4, StartKeeps DEF fileVars, Progress
    <3> QED BY <2>1, <3>3, <3>4, <3>5, <3>6 DEF fileVars, KeyInvariant, Runs
  <2> QED BY <2>1, <2>3, <2>4
<1>7. CASE StartExtInit
  <2>1. PICK k \in Key : StartExtInit!(k)
    BY <1>7 DEF StartExtInit
  <2>2. \A r \in Protected' : KeptElsewhere(r)
    BY <1>3, <2>1
  <2> QED BY <2>1, <2>2, SaveMayStart DEF Runs, envVars
<1>8. CASE StartImport
  <2>1. PICK ans \in Answer, k \in Key : StartImport!(ans, k)
    BY <1>8 DEF StartImport
  <2>2. ans \in {"ok", "refused"}
    BY DEF OnlyCrashes
  <2>3. ASSUME NEW r \in Protected', r # k PROVE KeptElsewhere(r)
    <3>1. r \in Protected /\ \A kp \in Keypairs(ans) : r # kp.pub
      BY <2>1, <2>3
    <3>2. CASE Intact
      BY <1>4, <2>1, <2>2, <3>1, <3>2, KeypairsOf DEF Intact
    <3>3. CASE ~Intact
      <4>1. pub # NoKey /\ plain # NoKey => r # pub
        BY <2>1, <2>2, <3>1, <3>3, KeypairsOf
      <4> QED BY <1>1, <1>3, <1>4, <3>1, <3>3, <4>1
    <3> QED BY <3>2, <3>3
  <2> QED BY <1>5, <2>1, <2>3, SaveMayStart DEF Runs
<1>9. CASE StartExtImport
  <2>1. PICK k \in Key : StartExtImport!(k)
    BY <1>9 DEF StartExtImport
  <2>2. \A r \in Protected' : KeptElsewhere(r)
    BY <1>4, <1>5, <2>1
  <2> QED BY <2>1, <2>2, SaveMayStart DEF Runs, envVars
<1>10. CASE StartRecover
  BY <1>10 DEF StartRecover, Runs, OnlyCrashes
<1>11. CASE StartLegacy
  <2>1. ~Intact /\ plain = NoKey
    BY <1>11 DEF StartLegacy, Intact
  <2>2. legacy \in used
    BY <1>11 DEF StartLegacy, KeyInvariant, UsedKeys
  <2>3. \A r \in Protected' : KeptElsewhere(r)
    BY <1>1, <1>3, <1>11, <2>1 DEF StartLegacy
  <2> QED BY <1>11, <2>2, <2>3, SaveMayStart DEF StartLegacy, Runs, envVars
<1>12. CASE StartUpgrade
  <2>1. PICK ans \in Answer : StartUpgrade!(ans)
    BY <1>12 DEF StartUpgrade
  <2>2. PICK kp \in Keypairs(ans) :
          /\ kp.pub = kp.priv
          /\ bundle[kp.pub] = "none" \/ StorageMode(ans) = "plaintext"
          /\ cmd' = [Idle EXCEPT
                       !.op = "upgrade", !.key = kp.pub,
                       !.plainMode = (StorageMode(ans) = "plaintext"),
                       !.at = IF bundle[kp.pub] = "none" THEN "bundle" ELSE "bak"]
    BY <2>1
  <2>3. /\ cmd'.op = "upgrade" /\ cmd'.key = kp.pub
        /\ cmd'.plainMode => StorageMode(ans) = "plaintext"
        /\ StorageMode(ans) = "plaintext" => cmd'.plainMode
        /\ cmd'.at = IF bundle[kp.pub] = "none" THEN "bundle" ELSE "bak"
    BY <2>2 DEF Idle
  <2>4. UNCHANGED <<fileVars, keychain, helper, relied, unarchived, used>> /\ "upgrade" \in Command
    BY <2>1 DEF Runs
  <2>5. ans \in {"ok", "refused"} /\ ~Throws(ans)
    BY <2>1 DEF OnlyCrashes
  <2>6. kp.pub = enc.key \/ kp.pub = plain
    BY <2>2, <2>5, KeypairsOf
  <2>7. StorageMode(ans) = "plaintext" => ~Intact
    BY <2>5, OpensIntact DEF StorageMode, Intact
  <2>8. StorageMode(ans) = "plaintext"
          => plain = kp.pub /\ \A r \in Protected : RecoverableElsewhere(r)
    BY <2>2, <2>5, <2>7, KeypairsOf DEF KeyInvariant, Keeping
  <2>9. UsedKeys' /\ Keeping'
    BY <2>3, <2>4, <2>6, StartKeeps DEF fileVars, KeyInvariant, UsedKeys, Keeping
  <2>10. Progress'
    BY <2>2, <2>3, <2>4, <2>8, StartKeeps DEF fileVars, Progress
  <2> QED BY <2>3, <2>4, <2>9, <2>10 DEF fileVars, KeyInvariant
<1>13. CASE StartMigrate
  <2>1. Opens("ok") /\ enc.src # "keychain"
    BY <1>13 DEF StartMigrate, StorageMode
  <2>2. Intact /\ enc.src = "file"
    BY <2>1, OpensIntact DEF Opens, Intact
  <2>3. /\ cmd'.op = "migrate" /\ cmd'.at = "kcSet" /\ cmd'.key = enc.key
        /\ cmd'.wk = enc.wk /\ cmd'.plainMode = FALSE
    BY <1>13, <2>2 DEF StartMigrate, Idle, Intact
  <2>4. UNCHANGED <<fileVars, keychain, helper, relied, unarchived, used>> /\ "migrate" \in Command
    BY <1>13 DEF StartMigrate, Runs, envVars
  <2>5. UsedKeys' /\ Keeping'
    BY <2>3, <2>4, StartKeeps DEF fileVars, KeyInvariant, UsedKeys, Keeping
  <2>6. Progress'
    BY <2>2, <2>3, <2>4, StartKeeps DEF fileVars, Progress
  <2> QED BY <2>3, <2>4, <2>5, <2>6 DEF fileVars, KeyInvariant
<1> QED
  BY <1>6, <1>7, <1>8, <1>9, <1>10, <1>11, <1>12, <1>13 DEF Start

-----------------------------------------------------------------------------
(* The rest of the steps, and the theorem *)

\* Relying on a key: it is the envelope's, or the plaintext identity's own.
LEMMA KeyRely ==
  ASSUME OnlyCrashes, Inv, Rely
  PROVE  KeyInvariant'
<1> USE DEF Inv, Protected
<1>1. PICK ans \in Answer : Rely!(ans)
  BY DEF Rely
<1>2. ans \in {"ok", "refused"}
  BY DEF OnlyCrashes
<1>3. PICK kp \in Keypairs(ans) : kp.pub = kp.priv /\ relied' = relied \cup {kp.pub}
  BY <1>1
<1>4. UNCHANGED <<fileVars, keychain, helper, cmd, used, unarchived>>
  BY <1>1
<1>5. (Intact /\ kp.pub = enc.key /\ pub = enc.key) \/ (kp.pub = plain /\ pub = plain)
  BY <1>1, <1>2, <1>3, KeypairsOf DEF Intact
<1>6. kp.pub \in used
  BY <1>3, <1>5, KeypairsType, KeyAssumption DEF KeyInvariant, UsedKeys
<1>7. UsedKeys'
  BY <1>3, <1>4, <1>6 DEF fileVars, KeyInvariant, UsedKeys
<1>8. Keeping'
  BY <1>3, <1>4, <1>5, StartKeeps DEF fileVars, KeyInvariant, Keeping, RecoverableElsewhere
<1>9. cmd' = Idle
  BY <1>1
<1> QED
  BY <1>4, <1>7, <1>8, <1>9, IdleProgress DEF fileVars, KeyInvariant, Idle

LEMMA KeyEnvironment ==
  ASSUME OnlyCrashes, Inv, Environment
  PROVE  KeyInvariant'
<1> USE DEF Inv, Protected
<1>1. CASE Abort
  <2>1. UNCHANGED <<enc, pub, wrapKey, plain, bak, bundle, legacy, keychain, helper,
                    used, relied, unarchived>>
    BY <1>1 DEF Abort, envVars
  <2>2. Keeping'
    <3>1. CASE archive' = archive
      BY <2>1, <3>1, StartKeeps DEF fileVars, KeyInvariant, Keeping
    <3>2. CASE archive' # archive
      <4>1. \/ cmd.at = "archive" /\ plain # NoKey
            \/ cmd.at \in {"archiveEnc", "archiveWrap"}
            \/ cmd.at = "kcArchive"
        BY <1>1, <3>2 DEF Abort, Torn
      <4>2. Intact /\ cmd \in Running
        BY <4>1, RunningCommand DEF KeyInvariant, Progress
      <4>3. PICK k \in {cmd.old, cmd.key} :
              /\ k = enc.key
              /\ \E v : \/ archive' = [archive EXCEPT ![k].enc = v]
                       \/ archive' = [archive EXCEPT ![k].wk = v]
        BY <1>1, <3>2, <4>1 DEF Abort, Torn, KeyInvariant, Progress
      <4>4. /\ \A a \in Key : archive'[a].plain = archive[a].plain
            /\ \A a \in Key \ {enc.key} : archive'[a] = archive[a]
        BY <4>3 DEF TypeOK, Archived
      <4>5. Intact' /\ enc'.key = enc.key
        BY <2>1, <4>2 DEF Intact
      <4> QED BY <2>1, <4>2, <4>4, <4>5, KeepingIntact
    <3> QED BY <3>1, <3>2
  <2>3. /\ cmd'.at = "idle" /\ cmd'.op = "none" /\ cmd'.key = NoKey
        /\ cmd'.plainMode = FALSE
    BY <1>1, IdleFields DEF Abort
  <2> QED BY <2>1, <2>2, <2>3, IdleProgress DEF fileVars, KeyInvariant, UsedKeys
<1>2. CASE WipeKeychain \/ LoseHelper \/ CorruptEnvelope
  BY <1>2 DEF WipeKeychain, LoseHelper, CorruptEnvelope, FaultHappens, OnlyCrashes
<1>3. CASE SessionEnds
  <2>1. UNCHANGED <<fileVars, keychain, helper, cmd, used, relied, unarchived>>
    BY <1>3 DEF SessionEnds
  <2>2. Keeping' /\ UsedKeys'
    BY <2>1, StartKeeps DEF fileVars, KeyInvariant, Keeping, UsedKeys
  <2>3. Progress'
    BY <2>1, StartKeeps DEF fileVars, KeyInvariant, Progress
  <2> QED BY <2>1, <2>2, <2>3 DEF fileVars, KeyInvariant
<1> QED BY <1>1, <1>2, <1>3 DEF Environment

LEMMA KeyInit ==
  ASSUME OnlyCrashes, Init
  PROVE  KeyInvariant
<1>1. /\ helper /\ enc = NoEnvelope /\ relied = {} /\ cmd = Idle
      /\ bundle = [k \in Key |-> "none"]
      /\ {plain, legacy} \subseteq used \cup {NoKey}
      /\ plain # NoKey => "plaintext" \in Origin
  BY DEF Init
<1>2. UsedKeys
  BY <1>1 DEF UsedKeys, NoEnvelope, Idle
<1>3. Keeping
  BY <1>1 DEF Keeping, NoEnvelope, Protected
<1>4. Progress
  BY <1>1 DEF Progress, Idle
<1> QED BY <1>1, <1>2, <1>3, <1>4 DEF KeyInvariant, OnlyCrashes, NoEnvelope, Idle

\* However many commands are run and crash, the directory is intact or every
\* key still relied on is kept elsewhere.
THEOREM KeyInvariantHolds ==
  ASSUME OnlyCrashes
  PROVE  Spec => []KeyInvariant
<1>1. Init => Inv
  BY TypeInit, KeyInit DEF Inv
<1>2. Inv /\ [Next]_vars => Inv'
  <2> SUFFICES ASSUME Inv, [Next]_vars
               PROVE  Inv'
    OBVIOUS
  <2>1. TypeOK'
    BY TypeNext DEF Inv
  <2>2. CASE Rely
    BY <2>1, <2>2, KeyRely DEF Inv
  <2>3. CASE Start
    BY <2>1, <2>3, KeyStart DEF Inv
  <2>4. CASE CommandStep
    BY <2>1, <2>4, KeyArchive, KeySave, KeyUpgrade, KeyMigrate DEF Inv, CommandStep
  <2>5. CASE Environment
    BY <2>1, <2>5, KeyEnvironment DEF Inv
  <2>6. CASE UNCHANGED vars
    <3>1. UNCHANGED <<fileVars, keychain, helper, cmd, used, relied, unarchived>>
      BY <2>6 DEF vars, envVars
    <3>2. Keeping' /\ UsedKeys'
      BY <3>1, StartKeeps DEF fileVars, Inv, KeyInvariant, Keeping, UsedKeys, Protected
    <3>3. Progress'
      BY <3>1, StartKeeps DEF fileVars, Inv, KeyInvariant, Progress, Protected
    <3> QED BY <2>1, <3>1, <3>2, <3>3 DEF fileVars, Inv, KeyInvariant
  <2> QED BY <2>2, <2>3, <2>4, <2>5, <2>6 DEF Next
<1>3. Inv => KeyInvariant
  BY DEF Inv
<1> QED BY <1>1, <1>2, <1>3, PTL DEF Spec

\* No key that some .env.up is encrypted to is lost, whatever write the
\* commands of identityEnvelope.ts, init.ts and the imports die at or see fail:
\* whoever still relies on a key finds a copy of it, unless up init --force
\* overwrote it after a copy of archiveIdentity had failed without a word.
THEOREM KeysAreNeverLost ==
  ASSUME OnlyCrashes
  PROVE  Spec => []KeyRecoverable
<1>1. KeyInvariant => KeyRecoverable
  <2> SUFFICES ASSUME KeyInvariant, NEW k \in Protected, ~RecoverableElsewhere(k)
               PROVE  Sealed(k)
    BY DEF KeyRecoverable
  <2>1. Intact /\ k = enc.key
    BY DEF KeyInvariant, Keeping
  <2> QED BY <2>1 DEF Intact, Sealed
<1> QED BY <1>1, KeyInvariantHolds, PTL

=============================================================================
