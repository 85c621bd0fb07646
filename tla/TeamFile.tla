------------------------------- MODULE TeamFile -------------------------------
(***************************************************************************)
(* One .env.up shared through a repository: who can open it, what each     *)
(* recipient's block holds, the catalogue of key names, the policy, and    *)
(* the recipients configuration beside it.                                 *)
(*                                                                         *)
(* A person stands for a keypair.  A block is sealed to one person and     *)
(* carries entries and the names of the lines of its _raw text, whose      *)
(* values are those of the entries.  Everybody works on the latest commit, *)
(* one command at a time; only the two writes of a removal are apart.  A   *)
(* command that is refused or throws leaves everything as it was, so it is *)
(* an action that cannot be taken.                                         *)
(***************************************************************************)
CONSTANTS
  Person,    \* keypairs
  Nobody,    \* none of them
  Local,     \* the recipient id "@local"
  Label,     \* the other recipient ids: labels, nicknames, key ids
  NoLabel,   \* none of them
  Name,      \* names of environment variables
  Value,     \* their values
  NoValue,   \* none of them
  Nickname,  \* what people call themselves as authors
  HandPolicy \* the policies people write by hand

ASSUME NoneAssumption ==
  /\ Nobody \notin Person
  /\ Local \notin Label
  /\ NoLabel \notin Label \cup {Local}
  /\ NoValue \notin Value
ASSUME NicknameAssumption == Nickname \subseteq Label \cup {Local}
ASSUME HandAssumption ==
  HandPolicy \subseteq {row \in [Label \cup {Local} -> SUBSET Name] :
                          \E i \in DOMAIN row : row[i] # {}}

VARIABLES
  file,      \* .env.up
  config,    \* .dotenvup.recipients.json: the label of each person in it
  removing,  \* a removal that has written the configuration only
  thinned    \* somebody left a line out of an import without a policy

vars == <<file, config, removing, thinned>>

-----------------------------------------------------------------------------
(* Types *)

Id             == Label \cup {Local}
PersonOrNobody == Person \cup {Nobody}
Entries        == [Name -> Value \cup {NoValue}]
Nothing        == [n \in Name |-> NoValue]
Held(e)        == {n \in Name : e[n] # NoValue}

Block   == [pub : PersonOrNobody, entries : Entries, raw : SUBSET Name]
NoBlock == [pub |-> Nobody, entries |-> Nothing, raw |-> {}]

\* A file without blocks is no file; a row without keys is no row.
File == [by : PersonOrNobody, catalog : SUBSET Name, policy : BOOLEAN,
         row : [Id -> SUBSET Name], for : SUBSET Id, block : [Id -> Block]]
NoRows == [i \in Id |-> {}]
NoFile == [by |-> Nobody, catalog |-> {}, policy |-> FALSE, row |-> NoRows,
           for |-> {}, block |-> [i \in Id |-> NoBlock]]
Blocks(f) == {i \in Id : f.block[i].pub # Nobody}
Rows(f)   == {i \in Id : f.row[i] # {}}
Exists    == Blocks(file) # {}

NoRemoval == [by |-> Nobody, id |-> Local]
NoConfig  == [q \in Person |-> NoLabel]

TypeOK ==
  /\ file \in File
  /\ config \in [Person -> Label \cup {NoLabel}]
  /\ removing \in [by : PersonOrNobody, id : Id]
  /\ thinned \in BOOLEAN

Init ==
  /\ file = NoFile
  /\ config = NoConfig
  /\ removing = NoRemoval
  /\ thinned = FALSE

-----------------------------------------------------------------------------
(* Who is who *)

\* Mutant: a label that is not configured goes to whom its block is sealed.
ResolvedWithBlocks(p) ==
  {keys \in [Id -> PersonOrNobody] :
     /\ keys[Local] = p
     /\ \A l \in Label :
          LET named == {q \in Person \ {p} : config[q] = l}
          IN IF named = {} THEN keys[l] = file.block[l].pub ELSE keys[l] \in named}

\* The public keys p's machine knows: p's own under "@local", the other
\* configured ones under their labels.  Of several entries with one label
\* the last one counts; which one that is, is left open.
Resolved(p) ==
  {keys \in [Id -> PersonOrNobody] :
     /\ keys[Local] = p
     /\ \A l \in Label :
          LET named == {q \in Person \ {p} : config[q] = l}
          IN IF named = {} THEN keys[l] = Nobody ELSE keys[l] \in named}
Known(keys) == {i \in Id : keys[i] # Nobody}

\* decryptAny: the block p's key opens, "@local" before the others.
Opens(f, p)  == {i \in Id : f.block[i].pub = p}
Opened(f, p) == IF Local \in Opens(f, p) THEN {Local} ELSE Opens(f, p)

\* isSafeToDelete on the new file, before it replaces the old one.
Verified(f, p) == \E i \in Opened(f, p) : Held(f.block[i].entries) # {}

-----------------------------------------------------------------------------
(* Policy *)

Only(e, names) == [n \in Name |-> IF n \in names THEN e[n] ELSE NoValue]

\* pruneCatalogToPolicy
Pruned(names, row) == {n \in names : \E i \in Id : n \in row[i]}

\* validatePolicy: rows name catalogue keys (P1), and rows, blocks and
\* Encrypted-For name the same recipients (P2 to P4).
Valid(f) ==
  f.policy =>
    /\ \A i \in Id : f.row[i] \subseteq f.catalog
    /\ Rows(f) = Blocks(f)
    /\ Rows(f) # {} => f.for = Rows(f)

\* verifyDecryptedSubset and rawRespectsKeyFilter (V3): the block of i has
\* nothing that its row does not name.
Inside(f, i) == Held(f.block[i].entries) \cup f.block[i].raw \subseteq f.row[i]

\* verifyEnvUp as p runs it: V3 is for the blocks that p opens.
Verifies(f, p) == Valid(f) /\ (f.policy => \A i \in Opens(f, p) : Inside(f, i))

\* Mutant: the slice of some row is enough.
HoldsSomeSlice(f, e) == \E i \in Rows(f) : f.row[i] \subseteq Held(e)

HoldsFullCatalog(f, e) == f.catalog \subseteq Held(e)

\* Mutant: the keys of the recipients are looked at and the catalogue is not.
CanSyncKnown(f, id, e, keys) ==
  f.policy /\ \A i \in Rows(f) : i \in Known(keys) \/ i = id

CanSyncAllPolicyBlocks(f, id, e, keys) ==
  /\ f.policy
  /\ HoldsFullCatalog(f, e)
  /\ \A i \in Rows(f) : i \in Known(keys) \/ i = id

\* Mutant: the rest of what the block held stays (rule M2 of the design).
MergedUnion(old, new, policed) ==
  [n \in Name |-> IF new[n] # NoValue THEN new[n] ELSE old[n]]

\* mergePolicyAware, for new entries inside the slice: with a policy they
\* are all there is, without one they go over the old ones.
Merged(old, new, policed) ==
  IF policed THEN new
  ELSE [n \in Name |-> IF new[n] # NoValue THEN new[n] ELSE old[n]]

-----------------------------------------------------------------------------
(* New files *)

Sealed(who, e, raw) == [pub |-> who, entries |-> e, raw |-> raw]

\* create without a policy: one payload for everyone known.
Created(p, e, raw, keys) ==
  [by |-> p, catalog |-> Held(e), policy |-> FALSE, row |-> NoRows, for |-> Known(keys),
   block |-> [i \in Id |-> IF i \in Known(keys) THEN Sealed(keys[i], e, raw) ELSE NoBlock]]

\* Mutant: the entries are cut to the row and the text is not.
SliceWholeRaw(f, i, e, raw, keys) == Sealed(keys[i], Only(e, f.row[i]), raw)

\* encrypt: what the block of row i holds.
Slice(f, i, e, raw, keys) == Sealed(keys[i], Only(e, f.row[i]), raw \cap f.row[i])

\* reencryptAll under a policy: every row anew, and nothing else.
Rewritten(f, p, e, raw, keys) ==
  [f EXCEPT !.by = p, !.for = Rows(f),
     !.catalog = Pruned(IF f.catalog = {} THEN Held(e) ELSE f.catalog, f.row),
     !.block = [i \in Id |-> IF i \in Rows(f) THEN Slice(f, i, e, raw, keys) ELSE NoBlock]]
CanRewrite(f, keys) == Valid(f) /\ Rows(f) \subseteq Known(keys)

EditorsKey(id, keys) == IF id \in Known(keys) THEN keys[id] ELSE keys[Local]

\* Mutant: the whole file is replaced, as the writers before the merge did.
EditedAlone(f, p, id, e, raw, keys) ==
  [f EXCEPT !.by = p, !.for = {id},
            !.block = [i \in Id |-> IF i = id THEN Sealed(EditorsKey(id, keys), e, raw)
                                             ELSE NoBlock]]

\* mergeReencrypt's other end: the editor's block and nobody else's.
Edited(f, p, id, e, raw, keys) ==
  [f EXCEPT !.by = p, !.block[id] = Sealed(EditorsKey(id, keys), e, raw),
            !.for = IF f.for = {} THEN Known(keys) ELSE f.for]

-----------------------------------------------------------------------------
(* Commands *)

\* writeEnvUpAtomic
Replace(f, p) ==
  /\ Verified(f, p)
  /\ file' = f

\* up import where there is no .env.up
ImportNew(p) ==
  \E new \in Entries, keys \in Resolved(p) :
     /\ ~Exists
     /\ Held(new) # {}
     /\ Replace(Created(p, new, Held(new), keys), p)
     /\ UNCHANGED <<config, removing, thinned>>

\* The catalogue that mergeReencrypt goes on with.
Recatalogued(e) ==
  LET names == file.catalog \cup Held(e)
  IN [file EXCEPT !.catalog = IF file.policy THEN Pruned(names, file.row) ELSE names]

\* mergeReencrypt of the entries in p's .env into the block p opens.
MergeInto(p, id, new, keys) ==
  LET e == Merged(file.block[id].entries, new, file.policy)
      f == Recatalogued(e)
  IN /\ Valid(f)
     /\ IF CanSyncAllPolicyBlocks(file, id, e, keys)
        THEN CanRewrite(f, keys) /\ Replace(Rewritten(f, p, e, Held(new), keys), p)
        ELSE Replace(Edited(f, p, id, e, Held(new), keys), p)
     /\ thinned' = (thinned \/ (~file.policy /\ Held(e) # Held(new)))

\* up import, Import and Safe Edit in the editor, on an existing .env.up.
Import(p) ==
  \E new \in Entries, keys \in Resolved(p), id \in Opened(file, p) :
     /\ Held(new) # {}
     /\ file.policy => Held(new) \subseteq file.row[id]
     /\ MergeInto(p, id, new, keys)
     /\ UNCHANGED <<config, removing>>

\* up reencrypt, and the extension's re-encryption after a new recipient.
Reencrypt(p) ==
  \E keys \in Resolved(p), id \in Opened(file, p) :
     LET b == file.block[id] IN
     /\ Held(b.entries) # {}
     /\ IF file.policy
        THEN /\ CanSyncAllPolicyBlocks(file, id, b.entries, keys)
             /\ CanRewrite(file, keys)
             /\ Replace(Rewritten(file, p, b.entries, b.raw, keys), p)
        ELSE Replace(Created(p, b.entries, b.raw, keys), p)
     /\ UNCHANGED <<config, removing, thinned>>

\* The extension's unlock over an existing .env: it merges the two and
\* writes .env.up anew for p alone, under p's nickname.
UnlockRewrites(p) ==
  \E env \in Entries, id \in Opened(file, p), nick \in Nickname, first \in {"env", "envUp"} :
     LET b == file.block[id]
         text == IF b.raw = {} THEN b.entries ELSE Only(b.entries, b.raw)
         out == IF first = "env" THEN Merged(text, env, FALSE) ELSE Merged(env, text, FALSE)
     IN /\ file.policy => Held(b.entries) \subseteq file.row[id]
        /\ file' = Created(p, out, Held(out), [i \in Id |-> IF i = nick THEN p ELSE Nobody])
        /\ UNCHANGED <<config, removing, thinned>>

\* up recipients add; someone who is in the configuration stays as they are.
AddRecipient(q, l) ==
  /\ config[q] = NoLabel
  /\ config' = [config EXCEPT ![q] = l]
  /\ UNCHANGED <<file, removing, thinned>>

\* The configuration is written in place and one that does not parse is
\* read as empty: a crash in the write loses it.
ConfigTorn ==
  /\ config' = NoConfig
  /\ UNCHANGED <<file, removing, thinned>>

\* up recipients remove, first half: by key id, or by label and then with
\* everyone of that label.  With --no-env-up, and in the extension, that is
\* all; otherwise .env.up comes next.
RemoveFromConfig(p, q) ==
  /\ config[q] # NoLabel
  /\ \E gone \in {{q}, {r \in Person : config[r] = config[q]}} :
       config' = [r \in Person |-> IF r \in gone THEN NoLabel ELSE config[r]]
  /\ \/ removing' = removing
     \/ /\ removing = NoRemoval
        /\ Exists
        /\ removing' = [by |-> p, id |-> config[q]]
  /\ UNCHANGED <<file, thinned>>

\* Second half, under a policy: revokeRecipientFromFile.
RevokeRecipient ==
  LET id == removing.id
      f == [file EXCEPT !.row[id] = {}, !.block[id] = NoBlock, !.for = @ \ {id},
                        !.catalog = Pruned(@, [file.row EXCEPT ![id] = {}])]
  IN /\ removing # NoRemoval
     /\ file.policy
     /\ id \in Rows(file) \cap Blocks(file)
     /\ Valid(f)
     /\ Replace(f, removing.by)
     /\ removing' = NoRemoval
     /\ UNCHANGED <<config, thinned>>

\* It does not get there: no policy, no key, a failure or a crash.
RemovalEnds ==
  /\ removing # NoRemoval
  /\ removing' = NoRemoval
  /\ UNCHANGED <<file, config, thinned>>

\* Somebody writes rows into [policy] by hand, and may see to Encrypted-For.
EditPolicy ==
  /\ Exists
  /\ \E row \in HandPolicy :
       LET f == [file EXCEPT !.policy = TRUE, !.row = row]
       IN file' \in {f, [f EXCEPT !.for = Rows(f)]}
  /\ UNCHANGED <<config, removing, thinned>>

Next ==
  \/ \E p \in Person : ImportNew(p) \/ Import(p) \/ Reencrypt(p) \/ UnlockRewrites(p)
  \/ \E q \in Person, l \in Label : AddRecipient(q, l)
  \/ ConfigTorn
  \/ \E p \in Person, q \in Person : RemoveFromConfig(p, q)
  \/ RevokeRecipient
  \/ RemovalEnds
  \/ EditPolicy

Spec == Init /\ [][Next]_vars

-----------------------------------------------------------------------------
(* Properties *)

\* mergeReencrypt, reencryptAll and create write a block for the one who runs
\* the command or for someone in the recipients configuration: a person who
\* was taken off it, the rest of the removal done or not, is never given
\* anything that is written later.
ForConfigured ==
  \A i \in Id :
    LET b == file'.block[i]
    IN b.pub # Nobody /\ b # file.block[i] =>
         b.pub = file'.by \/ config[b.pub] # NoLabel
WritesOnlyForConfigured == [][ForConfigured]_vars

\* R1 and R2 of the design: what a command writes into a block, entries and
\* text alike, is inside the recipient's row, whatever was edited by hand
\* before (encrypt, filterRawForKeys, mergePolicyAware).
InsidePolicy ==
  \A i \in Id :
    LET b == file'.block[i]
    IN file'.policy /\ b # file.block[i] =>
         Held(b.entries) \cup b.raw \subseteq file'.row[i]
WritesInsidePolicy == [][InsidePolicy]_vars

\* A file with a policy that a command has written passes up verify, whoever
\* runs it: rows, blocks and Encrypted-For agree, the catalogue has the rows'
\* keys and no block is wider than its row.  The exception are those one of
\* whose blocks was too wide before, when rows were narrowed by hand, and is
\* carried along as it was; only a command that rewrites nobody else's block
\* leaves any such.
PassesVerify ==
  file'.policy /\ file'.block # file.block =>
    /\ Valid(file')
    /\ \A p \in Person : ~Verifies(file', p) =>
         /\ \E i \in Opens(file', p) : file'.block[i] = file.block[i] /\ ~Inside(file, i)
         /\ \A i \in Blocks(file') :
              file.block[i].pub # file'.by => file'.block[i] = file.block[i]
WrittenPassesVerify == [][PassesVerify]_vars

\* No accidental wipe (goal of the threat model): as long as a policy is
\* there, no command of somebody else takes a key out of a block whose row
\* grants it, except with the recipient.
KeepsGranted ==
  file.policy /\ file'.policy =>
    \A i \in Blocks(file) \cap Blocks(file') :
      file.block[i].pub # file'.by =>
        Held(file.block[i].entries) \cap file'.row[i] \subseteq Held(file'.block[i].entries)
NoAccidentalWipe == [][KeepsGranted]_vars

\* Somebody else's block changes, and whoever wrote the file does not come
\* out of it with every key of the catalogue.
TouchesOthers ==
  /\ \E i \in Id : file'.block[i] # file.block[i] /\ file.block[i].pub # file'.by
  /\ \/ ~file.policy
     \/ \A i \in Opens(file, file'.by) :
          ~(file.catalog \subseteq Held(file'.block[i].entries))

\* Rule M4: an import leaves the blocks its editor cannot open as they are,
\* unless there is a policy and the editor has every key of the catalogue.
LeavesOthers    == TouchesOthers => ~\E p \in Person : Import(p)
OthersUntouched == [][LeavesOthers]_vars

\* A label that stands for two persons, or for another one than the block
\* of that name is sealed to.
Clash ==
  \E l \in Label, q \in Person, r \in Person :
    /\ q # r
    /\ config[q] = l
    /\ config[r] = l \/ file.block[l].pub = r

\* A person in the recipients configuration who opens the file goes on
\* opening it, whatever the others run, unless labels clash, the extension's
\* unlock writes the file for one person, or a removal begun before is carried
\* out on someone who has been added again meanwhile.
KeepsAccess ==
  \A q \in Person :
    config[q] # NoLabel /\ Opens(file, q) # {} /\ Opens(file', q) = {} =>
      Clash \/ RevokeRecipient \/ \E p \in Person : UnlockRewrites(p)
ConfiguredKeepAccess == [][KeepsAccess]_vars

\* up run injects the entries and up unlock writes the text: they have the
\* same keys, unless somebody once left a line out of an import without a
\* policy, where the entry stays and the line goes.
RunAndUnlockAgree ==
  ~thinned => \A i \in Id : file.block[i].raw \in {{}, Held(file.block[i].entries)}

-----------------------------------------------------------------------------
(* What the documentation states and the code does not keep *)

\* "Same recipients on re-encrypt", from the policy and the existing blocks
\* (docs/design/TEAM_SECRETS_SOLUTION.md:23): where the policy and the blocks agree,
\* only a removal and an edit of the policy by hand change either set.
SameRecipients ==
  [][file.policy /\ Valid(file) /\ ~RevokeRecipient /\ ~EditPolicy =>
       Rows(file') = Rows(file) /\ Blocks(file') = Blocks(file)]_vars
=============================================================================
