---------------------------- MODULE TeamFileProofs ----------------------------
(***************************************************************************)
(* What TeamFile promises, for any number of persons, labels, names and    *)
(* values and any policies written by hand.                                *)
(***************************************************************************)
EXTENDS TeamFile, TLAPS

(***************************************************************************)
(* Who is who: what resolveRecipientPublicKeys gives for p's machine.      *)
(***************************************************************************)
LEMMA ResolvedFacts ==
  ASSUME TypeOK, NEW p \in Person, NEW keys \in Resolved(p)
  PROVE  /\ keys \in [Id -> PersonOrNobody]
         /\ keys[Local] = p
         /\ \A l \in Label : keys[l] # Nobody =>
              keys[l] \in Person /\ keys[l] # p /\ config[keys[l]] = l
         /\ \A q \in Person, l \in Label : q # p /\ config[q] = l => keys[l] # Nobody
<1>1. keys \in [Id -> PersonOrNobody] /\ keys[Local] = p
  BY DEF Resolved
<1>2. ASSUME NEW l \in Label
      PROVE  LET named == {q \in Person \ {p} : config[q] = l}
             IN IF named = {} THEN keys[l] = Nobody ELSE keys[l] \in named
  BY DEF Resolved
<1>3. ASSUME NEW l \in Label, keys[l] # Nobody
      PROVE  keys[l] \in Person /\ keys[l] # p /\ config[keys[l]] = l
  BY <1>2, <1>3
<1>4. ASSUME NEW q \in Person, NEW l \in Label, q # p, config[q] = l
      PROVE  keys[l] # Nobody
  BY <1>2, <1>4, NoneAssumption
<1> QED
  BY <1>1, <1>3, <1>4

LEMMA ResolvedConfigured ==
  ASSUME TypeOK, NEW p \in Person, NEW keys \in Resolved(p), NEW i \in Id, keys[i] # Nobody
  PROVE  keys[i] = p \/ config[keys[i]] # NoLabel
<1>1. CASE i = Local
  BY <1>1, ResolvedFacts
<1>2. CASE i \in Label
  BY <1>2, ResolvedFacts, NoneAssumption
<1> QED
  BY <1>1, <1>2 DEF Id

(***************************************************************************)
(* The types of the files that the commands write.                         *)
(***************************************************************************)
LEMMA NoFileType == NoFile \in File
BY DEF NoFile, File, NoRows, NoBlock, Block, Nothing, Entries, PersonOrNobody

LEMMA SealedType ==
  ASSUME NEW who \in PersonOrNobody, NEW e \in Entries, NEW raw \in SUBSET Name
  PROVE  Sealed(who, e, raw) \in Block /\ NoBlock \in Block
BY DEF Sealed, Block, NoBlock, Nothing, Entries, PersonOrNobody

LEMMA OnlyType ==
  ASSUME NEW e \in Entries, NEW names
  PROVE  Only(e, names) \in Entries
BY DEF Only, Entries

LEMMA MergedType ==
  ASSUME NEW a \in Entries, NEW b \in Entries, NEW policed \in BOOLEAN
  PROVE  Merged(a, b, policed) \in Entries
BY DEF Merged, Entries

LEMMA CreatedType ==
  ASSUME NEW p \in Person, NEW e \in Entries, NEW raw \in SUBSET Name,
         NEW keys \in [Id -> PersonOrNobody]
  PROVE  Created(p, e, raw, keys) \in File
<1>1. [i \in Id |-> IF i \in Known(keys) THEN Sealed(keys[i], e, raw) ELSE NoBlock]
        \in [Id -> Block]
  BY SealedType
<1>2. Held(e) \in SUBSET Name /\ Known(keys) \in SUBSET Id /\ NoRows \in [Id -> SUBSET Name]
  BY DEF Held, Known, NoRows
<1> QED
  BY <1>1, <1>2 DEF Created, File, PersonOrNobody

LEMMA SliceType ==
  ASSUME NEW f \in File, NEW i \in Id, NEW e \in Entries, NEW raw \in SUBSET Name,
         NEW keys \in [Id -> PersonOrNobody]
  PROVE  Slice(f, i, e, raw, keys) \in Block
<1>1. raw \cap f.row[i] \in SUBSET Name
  BY DEF File
<1> QED
  BY <1>1, OnlyType, SealedType DEF Slice

LEMMA RewrittenType ==
  ASSUME NEW f \in File, NEW p \in Person, NEW e \in Entries, NEW raw \in SUBSET Name,
         NEW keys \in [Id -> PersonOrNobody]
  PROVE  Rewritten(f, p, e, raw, keys) \in File
<1>1. [i \in Id |-> IF i \in Rows(f) THEN Slice(f, i, e, raw, keys) ELSE NoBlock]
        \in [Id -> Block]
  BY SliceType, SealedType
<1>2. /\ Pruned(IF f.catalog = {} THEN Held(e) ELSE f.catalog, f.row) \in SUBSET Name
      /\ Rows(f) \in SUBSET Id
  BY DEF Pruned, Held, Rows, File
<1> QED
  BY <1>1, <1>2 DEF Rewritten, File, PersonOrNobody

LEMMA EditedType ==
  ASSUME NEW f \in File, NEW p \in Person, NEW id \in Id, NEW e \in Entries,
         NEW raw \in SUBSET Name, NEW keys \in [Id -> PersonOrNobody]
  PROVE  Edited(f, p, id, e, raw, keys) \in File
<1>1. EditorsKey(id, keys) \in PersonOrNobody
  BY DEF EditorsKey, Id
<1>2. Sealed(EditorsKey(id, keys), e, raw) \in Block /\ Known(keys) \in SUBSET Id
  BY <1>1, SealedType DEF Known
<1> QED
  BY <1>2 DEF Edited, File, PersonOrNobody

LEMMA RecataloguedType ==
  ASSUME TypeOK, NEW e \in Entries
  PROVE  Recatalogued(e) \in File
BY DEF TypeOK, Recatalogued, File, Pruned, Held

(***************************************************************************)
(* Every file that is written is one of six: which one, and from what.     *)
(***************************************************************************)
LEMMA ImportFacts ==
  ASSUME TypeOK, NEW p \in Person, Import(p)
  PROVE  \E new \in Entries, keys \in Resolved(p), id \in Opened(file, p) :
           LET e == Merged(file.block[id].entries, new, file.policy)
               f == Recatalogued(e)
           IN /\ Held(new) # {}
              /\ file.policy => Held(new) \subseteq file.row[id]
              /\ Valid(f)
              /\ Verified(file', p)
              /\ \/ /\ CanSyncAllPolicyBlocks(file, id, e, keys)
                    /\ CanRewrite(f, keys)
                    /\ file' = Rewritten(f, p, e, Held(new), keys)
                 \/ file' = Edited(f, p, id, e, Held(new), keys)
              /\ thinned' = (thinned \/ (~file.policy /\ Held(e) # Held(new)))
              /\ UNCHANGED <<config, removing>>
<1>1. PICK new \in Entries, keys \in Resolved(p), id \in Opened(file, p) :
        /\ Held(new) # {}
        /\ file.policy => Held(new) \subseteq file.row[id]
        /\ MergeInto(p, id, new, keys)
        /\ UNCHANGED <<config, removing>>
  BY DEF Import
<1> DEFINE e == Merged(file.block[id].entries, new, file.policy)
           f == Recatalogued(e)
<1>2. /\ Valid(f)
      /\ IF CanSyncAllPolicyBlocks(file, id, e, keys)
         THEN CanRewrite(f, keys) /\ Replace(Rewritten(f, p, e, Held(new), keys), p)
         ELSE Replace(Edited(f, p, id, e, Held(new), keys), p)
      /\ thinned' = (thinned \/ (~file.policy /\ Held(e) # Held(new)))
  BY <1>1 DEF MergeInto
<1> HIDE DEF f, e
<1>3. /\ Verified(file', p)
      /\ \/ /\ CanSyncAllPolicyBlocks(file, id, e, keys)
            /\ CanRewrite(f, keys)
            /\ file' = Rewritten(f, p, e, Held(new), keys)
         \/ file' = Edited(f, p, id, e, Held(new), keys)
  <2>1. CASE CanSyncAllPolicyBlocks(file, id, e, keys)
    BY <1>2, <2>1 DEF Replace
  <2>2. CASE ~CanSyncAllPolicyBlocks(file, id, e, keys)
    BY <1>2, <2>2 DEF Replace
  <2> QED
    BY <2>1, <2>2
<1> QED
  BY <1>1, <1>2, <1>3 DEF f, e

LEMMA OpenedFacts ==
  ASSUME TypeOK, NEW p \in Person, NEW id \in Opened(file, p)
  PROVE  id \in Id /\ file.block[id].pub = p /\ file.block[id] \in Block
BY DEF Opened, Opens, Id, TypeOK, File

LEMMA ReencryptFacts ==
  ASSUME TypeOK, NEW p \in Person, Reencrypt(p)
  PROVE  \E keys \in Resolved(p), id \in Opened(file, p) :
           LET b == file.block[id]
           IN /\ Verified(file', p)
              /\ \/ /\ file.policy
                    /\ CanSyncAllPolicyBlocks(file, id, b.entries, keys)
                    /\ CanRewrite(file, keys)
                    /\ file' = Rewritten(file, p, b.entries, b.raw, keys)
                 \/ ~file.policy /\ file' = Created(p, b.entries, b.raw, keys)
BY DEF Reencrypt, Replace

\* Steps that change .env.up.
LEMMA FileSteps ==
  ASSUME Next, file' # file
  PROVE  \/ \E p \in Person : ImportNew(p) \/ Import(p) \/ Reencrypt(p) \/ UnlockRewrites(p)
         \/ RevokeRecipient
         \/ EditPolicy
BY DEF Next, AddRecipient, ConfigTorn, RemoveFromConfig, RemovalEnds

-----------------------------------------------------------------------------
(* Types *)

LEMMA TypeImportNew ==
  ASSUME TypeOK, NEW p \in Person, ImportNew(p)
  PROVE  TypeOK'
<1>1. PICK new \in Entries, keys \in Resolved(p) :
        /\ file' = Created(p, new, Held(new), keys)
        /\ UNCHANGED <<config, removing, thinned>>
  BY DEF ImportNew, Replace
<1>2. Held(new) \in SUBSET Name
  BY DEF Held
<1> QED
  BY <1>1, <1>2, ResolvedFacts, CreatedType DEF TypeOK

LEMMA TypeImport ==
  ASSUME TypeOK, NEW p \in Person, Import(p)
  PROVE  TypeOK'
<1>1. PICK new \in Entries, keys \in Resolved(p), id \in Opened(file, p) :
        LET e == Merged(file.block[id].entries, new, file.policy)
            f == Recatalogued(e)
        IN /\ \/ file' = Rewritten(f, p, e, Held(new), keys)
              \/ file' = Edited(f, p, id, e, Held(new), keys)
           /\ thinned' = (thinned \/ (~file.policy /\ Held(e) # Held(new)))
           /\ UNCHANGED <<config, removing>>
  BY ImportFacts
<1> DEFINE e == Merged(file.block[id].entries, new, file.policy)
           f == Recatalogued(e)
<1>2. e \in Entries
  BY OpenedFacts, MergedType DEF TypeOK, File, Block
<1>3. f \in File /\ Held(new) \in SUBSET Name /\ keys \in [Id -> PersonOrNobody] /\ id \in Id
  BY <1>2, RecataloguedType, ResolvedFacts, OpenedFacts DEF Held
<1>4. thinned' \in BOOLEAN
  BY <1>1 DEF TypeOK
<1> HIDE DEF e, f
<1>5. file' \in File
  BY <1>1, <1>2, <1>3, RewrittenType, EditedType DEF e, f
<1> QED
  BY <1>1, <1>4, <1>5 DEF TypeOK

LEMMA TypeReencrypt ==
  ASSUME TypeOK, NEW p \in Person, Reencrypt(p)
  PROVE  TypeOK'
<1>1. PICK keys \in Resolved(p), id \in Opened(file, p) :
        LET b == file.block[id]
        IN \/ file' = Rewritten(file, p, b.entries, b.raw, keys)
           \/ file' = Created(p, b.entries, b.raw, keys)
  BY ReencryptFacts
<1>2. file.block[id] \in Block /\ keys \in [Id -> PersonOrNobody]
  BY OpenedFacts, ResolvedFacts
<1>3. file.block[id].entries \in Entries /\ file.block[id].raw \in SUBSET Name
  BY <1>2 DEF Block
<1>4. file' \in File
  BY <1>1, <1>2, <1>3, RewrittenType, CreatedType DEF TypeOK
<1> QED
  BY <1>4 DEF TypeOK, Reencrypt

\* What the extension's unlock merges, and for whom it seals it.
LEMMA UnlockFacts ==
  ASSUME TypeOK, NEW p \in Person, UnlockRewrites(p)
  PROVE  \E out \in Entries, keys \in [Id -> PersonOrNobody] :
           /\ \A i \in Id : keys[i] \in {p, Nobody}
           /\ file' = Created(p, out, Held(out), keys)
           /\ UNCHANGED <<config, removing, thinned>>
<1>1. PICK env \in Entries, id \in Opened(file, p), nick \in Nickname, first \in {"env", "envUp"} :
        LET b == file.block[id]
            text == IF b.raw = {} THEN b.entries ELSE Only(b.entries, b.raw)
            out == IF first = "env" THEN Merged(text, env, FALSE) ELSE Merged(env, text, FALSE)
        IN /\ file' = Created(p, out, Held(out), [i \in Id |-> IF i = nick THEN p ELSE Nobody])
           /\ UNCHANGED <<config, removing, thinned>>
  BY DEF UnlockRewrites
<1> DEFINE b    == file.block[id]
           text == IF b.raw = {} THEN b.entries ELSE Only(b.entries, b.raw)
           out  == IF first = "env" THEN Merged(text, env, FALSE) ELSE Merged(env, text, FALSE)
           keys == [i \in Id |-> IF i = nick THEN p ELSE Nobody]
<1>2. b.entries \in Entries
  BY OpenedFacts DEF Block
<1>3. text \in Entries
  BY <1>2, OnlyType
<1>4. out \in Entries
  BY <1>3, MergedType
<1>5. keys \in [Id -> PersonOrNobody] /\ \A i \in Id : keys[i] \in {p, Nobody}
  BY DEF PersonOrNobody
<1> HIDE DEF out, keys
<1>6. file' = Created(p, out, Held(out), keys) /\ UNCHANGED <<config, removing, thinned>>
  BY <1>1 DEF out, keys
<1> QED
  BY <1>4, <1>5, <1>6

LEMMA TypeRest ==
  ASSUME TypeOK,
         \/ \E p \in Person : UnlockRewrites(p)
         \/ RevokeRecipient \/ RemovalEnds \/ EditPolicy \/ ConfigTorn
         \/ \E q \in Person, l \in Label : AddRecipient(q, l)
         \/ \E p \in Person, q \in Person : RemoveFromConfig(p, q)
  PROVE  TypeOK'
<1>1. CASE \E p \in Person : UnlockRewrites(p)
  <2>1. PICK p \in Person, out \in Entries, keys \in [Id -> PersonOrNobody] :
          /\ file' = Created(p, out, Held(out), keys)
          /\ UNCHANGED <<config, removing, thinned>>
    BY <1>1, UnlockFacts
  <2>2. Held(out) \in SUBSET Name
    BY DEF Held
  <2> QED
    BY <2>1, <2>2, CreatedType DEF TypeOK
<1>2. CASE RevokeRecipient
  <2>1. removing.id \in Id /\ removing' = NoRemoval /\ UNCHANGED <<config, thinned>>
    BY <1>2 DEF TypeOK, RevokeRecipient
  <2>2. NoBlock \in Block /\ NoRemoval \in [by : PersonOrNobody, id : Id]
    BY SealedType DEF NoBlock, Block, Nothing, Entries, PersonOrNobody, NoRemoval, Id
  <2>3. file' \in File
    BY <1>2, <2>1, <2>2 DEF TypeOK, RevokeRecipient, Replace, File, Pruned
  <2> QED
    BY <2>1, <2>2, <2>3 DEF TypeOK
<1>3. CASE RemovalEnds
  BY <1>3 DEF TypeOK, RemovalEnds, NoRemoval, PersonOrNobody, Id
<1>4. CASE EditPolicy
  <2>1. PICK row \in HandPolicy :
          LET f == [file EXCEPT !.policy = TRUE, !.row = row]
          IN file' \in {f, [f EXCEPT !.for = Rows(f)]}
    BY <1>4 DEF EditPolicy
  <2>2. row \in [Id -> SUBSET Name]
    BY HandAssumption DEF Id
  <2> DEFINE f == [file EXCEPT !.policy = TRUE, !.row = row]
  <2>3. f \in File
    BY <2>2 DEF TypeOK, File
  <2>4. Rows(f) \in SUBSET Id
    BY DEF Rows
  <2> HIDE DEF f
  <2>5. [f EXCEPT !.for = Rows(f)] \in File
    BY <2>3, <2>4 DEF File
  <2>6. file' \in File
    BY <2>1, <2>3, <2>5 DEF f
  <2> QED
    BY <1>4, <2>6 DEF TypeOK, EditPolicy
<1>5. CASE ConfigTorn
  BY <1>5 DEF TypeOK, ConfigTorn, NoConfig
<1>6. CASE \E q \in Person, l \in Label : AddRecipient(q, l)
  BY <1>6 DEF TypeOK, AddRecipient
<1>7. CASE \E p \in Person, q \in Person : RemoveFromConfig(p, q)
  <2>1. PICK p \in Person, q \in Person : RemoveFromConfig(p, q)
    BY <1>7
  <2>2. config' \in [Person -> Label \cup {NoLabel}]
    BY <2>1 DEF TypeOK, RemoveFromConfig
  <2>3. removing' \in [by : PersonOrNobody, id : Id]
    BY <2>1 DEF TypeOK, RemoveFromConfig, PersonOrNobody, Id
  <2> QED
    BY <2>1, <2>2, <2>3 DEF TypeOK, RemoveFromConfig
<1> QED
  BY <1>1, <1>2, <1>3, <1>4, <1>5, <1>6, <1>7

LEMMA TypeInit == Init => TypeOK
<1>1. NoConfig \in [Person -> Label \cup {NoLabel}]
  BY DEF NoConfig
<1>2. NoRemoval \in [by : PersonOrNobody, id : Id]
  BY DEF NoRemoval, PersonOrNobody, Id
<1> QED
  BY <1>1, <1>2, NoFileType DEF Init, TypeOK

LEMMA TypeStep == TypeOK /\ [Next]_vars => TypeOK'
<1> SUFFICES ASSUME TypeOK, [Next]_vars PROVE TypeOK'
  OBVIOUS
<1>1. CASE UNCHANGED vars
  BY <1>1 DEF TypeOK, vars
<1>2. CASE \E p \in Person : ImportNew(p) \/ Import(p) \/ Reencrypt(p)
  BY <1>2, TypeImportNew, TypeImport, TypeReencrypt
<1>3. CASE \/ \E p \in Person : UnlockRewrites(p)
           \/ \E p \in Person, q \in Person : RemoveFromConfig(p, q)
  BY <1>3, TypeRest
<1>4. CASE \/ RevokeRecipient \/ RemovalEnds \/ EditPolicy \/ ConfigTorn
           \/ \E q \in Person, l \in Label : AddRecipient(q, l)
  BY <1>4, TypeRest
<1> QED
  BY <1>1, <1>2, <1>3, <1>4 DEF Next

\* The variables keep their types.
THEOREM TypeCorrect == Spec => []TypeOK
BY TypeInit, TypeStep, PTL DEF Spec

-----------------------------------------------------------------------------
(* The blocks of the three kinds of file that commands write. *)

LEMMA CreatedBlocks ==
  ASSUME NEW p \in Person, NEW e, NEW raw, NEW keys \in [Id -> PersonOrNobody]
  PROVE  LET f == Created(p, e, raw, keys)
         IN /\ f.by = p
            /\ f.policy = FALSE
            /\ \A i \in Id : f.block[i] = IF keys[i] # Nobody THEN Sealed(keys[i], e, raw) ELSE NoBlock
BY DEF Created, Known

LEMMA CreatedFor ==
  ASSUME NEW p, NEW e, NEW raw, NEW keys, NEW i \in Id
  PROVE  Created(p, e, raw, keys).block[i].pub = keys[i] /\ Created(p, e, raw, keys).by = p
BY DEF Created, Known, Sealed, NoBlock

LEMMA RewrittenBlocks ==
  ASSUME NEW f \in File, NEW p \in Person, NEW e, NEW raw, NEW keys
  PROVE  LET g == Rewritten(f, p, e, raw, keys)
         IN /\ g.by = p
            /\ g.policy = f.policy
            /\ g.row = f.row
            /\ g.for = Rows(f)
            /\ g.catalog = Pruned(IF f.catalog = {} THEN Held(e) ELSE f.catalog, f.row)
            /\ \A i \in Id : g.block[i] = IF i \in Rows(f) THEN Slice(f, i, e, raw, keys) ELSE NoBlock
BY DEF Rewritten, File

LEMMA EditedBlocks ==
  ASSUME NEW f \in File, NEW p \in Person, NEW id \in Id, NEW e, NEW raw, NEW keys
  PROVE  LET g == Edited(f, p, id, e, raw, keys)
         IN /\ g.by = p
            /\ g.policy = f.policy
            /\ g.row = f.row
            /\ g.for = IF f.for = {} THEN Known(keys) ELSE f.for
            /\ g.catalog = f.catalog
            /\ \A i \in Id : g.block[i] = IF i = id THEN Sealed(EditorsKey(id, keys), e, raw)
                                                   ELSE f.block[i]
BY DEF Edited, File

LEMMA RecataloguedBlocks ==
  ASSUME TypeOK, NEW e \in Entries
  PROVE  LET f == Recatalogued(e)
         IN /\ f \in File
            /\ f.policy = file.policy
            /\ f.row = file.row
            /\ f.for = file.for
            /\ f.block = file.block
            /\ Rows(f) = Rows(file)
            /\ Blocks(f) = Blocks(file)
            /\ f.catalog = IF file.policy THEN Pruned(file.catalog \cup Held(e), file.row)
                                          ELSE file.catalog \cup Held(e)
<1>1. Recatalogued(e) \in File
  BY RecataloguedType
<1>2. LET f == Recatalogued(e)
      IN /\ f.policy = file.policy
         /\ f.row = file.row
         /\ f.for = file.for
         /\ f.block = file.block
         /\ f.catalog = IF file.policy THEN Pruned(file.catalog \cup Held(e), file.row)
                                       ELSE file.catalog \cup Held(e)
  BY DEF Recatalogued, TypeOK, File
<1> QED
  BY <1>1, <1>2 DEF Rows, Blocks

LEMMA SealedFields ==
  ASSUME NEW who, NEW e, NEW raw
  PROVE  LET b == Sealed(who, e, raw) IN b.pub = who /\ b.entries = e /\ b.raw = raw
BY DEF Sealed

LEMMA SliceFields ==
  ASSUME NEW f, NEW i, NEW e, NEW raw, NEW keys
  PROVE  LET b == Slice(f, i, e, raw, keys)
         IN b.pub = keys[i] /\ b.entries = Only(e, f.row[i]) /\ b.raw = raw \cap f.row[i]
BY DEF Slice, Sealed

\* The commands that seal blocks, in one lemma: from what, and what they know.
LEMMA Writes ==
  ASSUME TypeOK, NEW p \in Person, ImportNew(p) \/ Import(p) \/ Reencrypt(p)
  PROVE  \E keys \in Resolved(p) :
           /\ Verified(file', p)
           /\ \/ \E e \in Entries, raw \in SUBSET Name :
                   ~(Exists /\ file.policy) /\ file' = Created(p, e, raw, keys)
              \/ \E f \in File, id \in Opened(file, p), e \in Entries, raw \in SUBSET Name :
                   /\ f.policy /\ f.block = file.block /\ f.row = file.row
                   /\ CanSyncAllPolicyBlocks(file, id, e, keys)
                   /\ CanRewrite(f, keys)
                   /\ f.catalog \subseteq file.catalog \cup Held(e)
                   /\ file' = Rewritten(f, p, e, raw, keys)
              \/ \E f \in File, id \in Opened(file, p), e \in Entries, new \in Entries :
                   /\ f.policy = file.policy /\ f.block = file.block /\ f.row = file.row
                   /\ Valid(f)
                   /\ e = Merged(file.block[id].entries, new, file.policy)
                   /\ file.policy => Held(new) \subseteq file.row[id]
                   /\ file' = Edited(f, p, id, e, Held(new), keys)
<1>1. CASE ImportNew(p)
  <2>1. PICK new \in Entries, keys \in Resolved(p) :
          ~Exists /\ Replace(Created(p, new, Held(new), keys), p)
    BY <1>1 DEF ImportNew
  <2>2. Held(new) \in SUBSET Name
    BY DEF Held
  <2>3. Verified(file', p) /\ file' = Created(p, new, Held(new), keys)
    BY <2>1 DEF Replace
  <2> QED
    BY <2>1, <2>2, <2>3
<1>2. CASE Reencrypt(p)
  <2>1. PICK keys \in Resolved(p), id \in Opened(file, p) :
          LET b == file.block[id]
          IN /\ Verified(file', p)
             /\ \/ /\ file.policy
                   /\ CanSyncAllPolicyBlocks(file, id, b.entries, keys)
                   /\ CanRewrite(file, keys)
                   /\ file' = Rewritten(file, p, b.entries, b.raw, keys)
                \/ ~file.policy /\ file' = Created(p, b.entries, b.raw, keys)
    BY <1>2, ReencryptFacts
  <2>2. file.block[id].entries \in Entries /\ file.block[id].raw \in SUBSET Name
    BY OpenedFacts DEF Block
  <2>3. file \in File
    BY DEF TypeOK
  <2>4. CASE file.policy
    BY <2>1, <2>2, <2>3, <2>4
  <2>5. CASE ~file.policy
    BY <2>1, <2>2, <2>5
  <2> QED
    BY <2>4, <2>5
<1>3. CASE Import(p)
  <2>1. PICK new \in Entries, keys \in Resolved(p), id \in Opened(file, p) :
          LET e == Merged(file.block[id].entries, new, file.policy)
              f == Recatalogued(e)
          IN /\ file.policy => Held(new) \subseteq file.row[id]
             /\ Valid(f)
             /\ Verified(file', p)
             /\ \/ /\ CanSyncAllPolicyBlocks(file, id, e, keys)
                   /\ CanRewrite(f, keys)
                   /\ file' = Rewritten(f, p, e, Held(new), keys)
                \/ file' = Edited(f, p, id, e, Held(new), keys)
    BY <1>3, ImportFacts
  <2> DEFINE e == Merged(file.block[id].entries, new, file.policy)
             f == Recatalogued(e)
  <2>2. e \in Entries /\ Held(new) \in SUBSET Name
    BY OpenedFacts, MergedType DEF TypeOK, File, Block, Held
  <2>3. /\ f \in File /\ f.policy = file.policy /\ f.block = file.block /\ f.row = file.row
        /\ f.catalog \subseteq file.catalog \cup Held(e)
    BY <2>2, RecataloguedBlocks DEF Pruned
  <2>4. CanSyncAllPolicyBlocks(file, id, e, keys) => file.policy
    BY DEF CanSyncAllPolicyBlocks
  <2> HIDE DEF e, f
  <2>5. CASE /\ CanSyncAllPolicyBlocks(file, id, e, keys)
             /\ CanRewrite(f, keys)
             /\ file' = Rewritten(f, p, e, Held(new), keys)
    BY <2>1, <2>2, <2>3, <2>4, <2>5
  <2>6. CASE file' = Edited(f, p, id, e, Held(new), keys)
    <3>1. e = Merged(file.block[id].entries, new, file.policy) /\ Valid(f)
      BY <2>1 DEF e, f
    <3> QED
      BY <2>1, <2>2, <2>3, <2>6, <3>1
  <2> QED
    BY <2>1, <2>5, <2>6 DEF e, f
<1> QED
  BY <1>1, <1>2, <1>3

-----------------------------------------------------------------------------
(* Only for those in the configuration *)

LEMMA ForConfiguredWrites ==
  ASSUME TypeOK, NEW p \in Person, ImportNew(p) \/ Import(p) \/ Reencrypt(p)
  PROVE  ForConfigured
<1> SUFFICES ASSUME NEW i \in Id, file'.block[i].pub # Nobody, file'.block[i] # file.block[i]
             PROVE  file'.block[i].pub = file'.by \/ config[file'.block[i].pub] # NoLabel
  BY DEF ForConfigured
<1>1. PICK keys \in Resolved(p) :
        \/ \E e, raw : file' = Created(p, e, raw, keys)
        \/ \E f \in File, e \in Entries, raw \in SUBSET Name :
             CanRewrite(f, keys) /\ file' = Rewritten(f, p, e, raw, keys)
        \/ \E f \in File, id \in Opened(file, p), e \in Entries, raw \in SUBSET Name :
             f.block = file.block /\ file' = Edited(f, p, id, e, raw, keys)
  BY Writes DEF Held
<1>2. keys \in [Id -> PersonOrNobody] /\ keys[Local] = p
  BY ResolvedFacts
<1>3. file'.by = p /\ (file'.block[i].pub = p \/ file'.block[i].pub = keys[i])
  <2>1. CASE \E e, raw : file' = Created(p, e, raw, keys)
    BY <2>1, CreatedFor
  <2>2. CASE \E f \in File, e \in Entries, raw \in SUBSET Name : file' = Rewritten(f, p, e, raw, keys)
    <3>1. PICK f \in File, e \in Entries, raw \in SUBSET Name : file' = Rewritten(f, p, e, raw, keys)
      BY <2>2
    <3>2. file'.by = p /\ file'.block[i] \in {NoBlock, Slice(f, i, e, raw, keys)}
      BY <3>1, RewrittenBlocks
    <3> QED
      BY <3>2, SliceFields DEF NoBlock
  <2>3. CASE \E f \in File, id \in Opened(file, p), e \in Entries, raw \in SUBSET Name :
               f.block = file.block /\ file' = Edited(f, p, id, e, raw, keys)
    <3>1. PICK f \in File, id \in Opened(file, p), e \in Entries, raw \in SUBSET Name :
                 f.block = file.block /\ file' = Edited(f, p, id, e, raw, keys)
      BY <2>3
    <3>2. id \in Id
      BY OpenedFacts
    <3>3. EditorsKey(id, keys) \in {p, keys[id]}
      BY <1>2 DEF EditorsKey
    <3> QED
      BY <3>1, <3>2, <3>3, EditedBlocks, SealedFields
  <2> QED
    BY <1>1, <2>1, <2>2, <2>3
<1>4. CASE file'.block[i].pub = keys[i]
  BY <1>3, <1>4, ResolvedConfigured
<1> QED
  BY <1>3, <1>4

LEMMA RevokedBlocks ==
  ASSUME TypeOK, RevokeRecipient
  PROVE  /\ removing.id \in Id
         /\ file'.policy = file.policy
         /\ Valid(file')
         /\ file'.block = [file.block EXCEPT ![removing.id] = NoBlock]
         /\ file'.row = [file.row EXCEPT ![removing.id] = {}]
BY DEF TypeOK, RevokeRecipient, Replace, File

LEMMA HandEdited ==
  ASSUME TypeOK, EditPolicy
  PROVE  file'.block = file.block
<1>1. PICK row \in HandPolicy :
        LET f == [file EXCEPT !.policy = TRUE, !.row = row]
        IN file' \in {f, [f EXCEPT !.for = Rows(f)]}
  BY DEF EditPolicy
<1> DEFINE f == [file EXCEPT !.policy = TRUE, !.row = row]
<1>2. f.block = file.block /\ [f EXCEPT !.for = Rows(f)].block = file.block
  BY DEF TypeOK, File
<1> HIDE DEF f
<1>3. file' \in {f, [f EXCEPT !.for = Rows(f)]}
  BY <1>1 DEF f
<1> QED
  BY <1>2, <1>3

LEMMA ForConfiguredStep == TypeOK /\ [Next]_vars => [ForConfigured]_vars
<1> SUFFICES ASSUME TypeOK, Next PROVE ForConfigured
  OBVIOUS
<1>1. CASE file' = file
  BY <1>1 DEF ForConfigured
<1>2. CASE \E p \in Person : ImportNew(p) \/ Import(p) \/ Reencrypt(p)
  BY <1>2, ForConfiguredWrites
<1>3. CASE \E p \in Person : UnlockRewrites(p)
  <2>1. PICK p \in Person : UnlockRewrites(p)
    BY <1>3
  <2>2. PICK out \in Entries, keys \in [Id -> PersonOrNobody] :
          /\ \A i \in Id : keys[i] \in {p, Nobody}
          /\ file' = Created(p, out, Held(out), keys)
    BY <2>1, UnlockFacts
  <2>3. ASSUME NEW i \in Id PROVE file'.by = p /\ file'.block[i].pub \in {p, Nobody}
    BY <2>2, CreatedFor
  <2> QED
    BY <2>3 DEF ForConfigured
<1>4. CASE RevokeRecipient
  <2>1. file.block \in [Id -> Block]
    BY DEF TypeOK, File
  <2>2. \A i \in Id : file'.block[i] \in {NoBlock, file.block[i]}
    BY <1>4, <2>1, RevokedBlocks
  <2> QED
    BY <2>2 DEF ForConfigured, NoBlock
<1>5. CASE EditPolicy
  BY <1>5, HandEdited DEF ForConfigured
<1> QED
  BY <1>1, <1>2, <1>3, <1>4, <1>5, FileSteps

\* Nothing is ever sealed to somebody who is not in the recipients configuration,
\* but for the one who runs the command.
THEOREM OnlyForConfigured == Spec => WritesOnlyForConfigured
BY TypeCorrect, ForConfiguredStep, PTL DEF Spec, WritesOnlyForConfigured

-----------------------------------------------------------------------------
(* Inside the policy *)

LEMMA OnlyHeld ==
  ASSUME NEW e \in Entries, NEW names
  PROVE  Held(Only(e, names)) = Held(e) \cap names
BY DEF Held, Only

LEMMA NothingHeld == Held(NoBlock.entries) = {} /\ NoBlock.raw = {}
BY DEF Held, NoBlock, Nothing

LEMMA InsidePolicyWrites ==
  ASSUME TypeOK, NEW p \in Person, ImportNew(p) \/ Import(p) \/ Reencrypt(p)
  PROVE  InsidePolicy
<1> SUFFICES ASSUME NEW i \in Id, file'.policy, file'.block[i] # file.block[i]
             PROVE  Held(file'.block[i].entries) \cup file'.block[i].raw \subseteq file'.row[i]
  BY DEF InsidePolicy
<1>1. PICK keys \in Resolved(p) :
        \/ \E e, raw : file' = Created(p, e, raw, keys)
        \/ \E f \in File, e \in Entries, raw \in SUBSET Name : file' = Rewritten(f, p, e, raw, keys)
        \/ \E f \in File, id \in Opened(file, p), e \in Entries, new \in Entries :
             /\ f.policy = file.policy /\ f.block = file.block /\ f.row = file.row
             /\ e = Merged(file.block[id].entries, new, file.policy)
             /\ file.policy => Held(new) \subseteq file.row[id]
             /\ file' = Edited(f, p, id, e, Held(new), keys)
  BY Writes
<1>2. CASE \E e, raw : file' = Created(p, e, raw, keys)
  BY <1>2 DEF Created
<1>3. CASE \E f \in File, e \in Entries, raw \in SUBSET Name : file' = Rewritten(f, p, e, raw, keys)
  <2>1. PICK f \in File, e \in Entries, raw \in SUBSET Name : file' = Rewritten(f, p, e, raw, keys)
    BY <1>3
  <2>2. /\ file'.row = f.row
        /\ file'.block[i] = IF i \in Rows(f) THEN Slice(f, i, e, raw, keys) ELSE NoBlock
    BY <2>1, RewrittenBlocks
  <2> QED
    BY <2>2, SliceFields, OnlyHeld, NothingHeld
<1>4. CASE \E f \in File, id \in Opened(file, p), e \in Entries, new \in Entries :
             /\ f.policy = file.policy /\ f.block = file.block /\ f.row = file.row
             /\ e = Merged(file.block[id].entries, new, file.policy)
             /\ file.policy => Held(new) \subseteq file.row[id]
             /\ file' = Edited(f, p, id, e, Held(new), keys)
  <2>1. PICK f \in File, id \in Opened(file, p), e \in Entries, new \in Entries :
             /\ f.policy = file.policy /\ f.block = file.block /\ f.row = file.row
             /\ e = Merged(file.block[id].entries, new, file.policy)
             /\ file.policy => Held(new) \subseteq file.row[id]
             /\ file' = Edited(f, p, id, e, Held(new), keys)
    BY <1>4
  <2>2. id \in Id
    BY OpenedFacts
  <2>3. /\ file'.row = file.row
        /\ file'.policy = file.policy
        /\ file'.block[i] = IF i = id THEN Sealed(EditorsKey(id, keys), e, Held(new)) ELSE file.block[i]
    <3>1. LET g == Edited(f, p, id, e, Held(new), keys)
          IN /\ g.policy = f.policy
             /\ g.row = f.row
             /\ g.block[i] = IF i = id THEN Sealed(EditorsKey(id, keys), e, Held(new)) ELSE f.block[i]
      BY <2>2, EditedBlocks
    <3> QED
      BY <2>1, <3>1
  <2>4. e = new
    BY <2>1, <2>3 DEF Merged
  <2> QED
    BY <2>1, <2>3, <2>4, SealedFields
<1> QED
  BY <1>1, <1>2, <1>3, <1>4

LEMMA InsidePolicyStep == TypeOK /\ [Next]_vars => [InsidePolicy]_vars
<1> SUFFICES ASSUME TypeOK, Next PROVE InsidePolicy
  OBVIOUS
<1>1. CASE file' = file
  BY <1>1 DEF InsidePolicy
<1>2. CASE \E p \in Person : ImportNew(p) \/ Import(p) \/ Reencrypt(p)
  BY <1>2, InsidePolicyWrites
<1>3. CASE \E p \in Person : UnlockRewrites(p)
  <2>1. PICK p, out, keys : file' = Created(p, out, Held(out), keys)
    BY <1>3, UnlockFacts
  <2>2. file'.policy = FALSE
    BY <2>1 DEF Created
  <2> QED
    BY <2>2 DEF InsidePolicy
<1>4. CASE RevokeRecipient
  <2>1. file.block \in [Id -> Block] /\ file.row \in [Id -> SUBSET Name]
    BY DEF TypeOK, File
  <2>2. \A i \in Id : file'.block[i] \in {NoBlock, file.block[i]}
    BY <1>4, <2>1, RevokedBlocks
  <2> QED
    BY <2>2, NothingHeld DEF InsidePolicy
<1>5. CASE EditPolicy
  BY <1>5, HandEdited DEF InsidePolicy
<1> QED
  BY <1>1, <1>2, <1>3, <1>4, <1>5, FileSteps

\* With a policy, what is written into a block is inside the recipient's row.
THEOREM InsideThePolicy == Spec => WritesInsidePolicy
BY TypeCorrect, InsidePolicyStep, PTL DEF Spec, WritesInsidePolicy

-----------------------------------------------------------------------------
(* Files that pass up verify *)

LEMMA RewrittenValid ==
  ASSUME NEW f \in File, f.policy, NEW p \in Person, NEW e, NEW raw,
         NEW keys \in [Id -> PersonOrNobody], CanRewrite(f, keys)
  PROVE  Valid(Rewritten(f, p, e, raw, keys)) /\ Blocks(Rewritten(f, p, e, raw, keys)) = Rows(f)
<1> DEFINE g == Rewritten(f, p, e, raw, keys)
<1>1. /\ \A i \in Id : f.row[i] \subseteq f.catalog
      /\ Rows(f) = Blocks(f)
      /\ \A i \in Rows(f) : keys[i] # Nobody
  BY DEF CanRewrite, Valid, Known
<1>2. /\ g.row = f.row
      /\ g.for = Rows(f)
      /\ g.catalog = Pruned(IF f.catalog = {} THEN Held(e) ELSE f.catalog, f.row)
      /\ \A i \in Id : g.block[i] = IF i \in Rows(f) THEN Slice(f, i, e, raw, keys) ELSE NoBlock
  BY RewrittenBlocks
<1> HIDE DEF g
<1>3. Rows(g) = Rows(f)
  BY <1>2 DEF Rows
<1>4. \A i \in Id : g.block[i].pub # Nobody <=> i \in Rows(f)
  <2> SUFFICES ASSUME NEW i \in Id PROVE g.block[i].pub # Nobody <=> i \in Rows(f)
    OBVIOUS
  <2>1. CASE i \in Rows(f)
    BY <1>1, <1>2, <2>1, SliceFields
  <2>2. CASE i \notin Rows(f)
    BY <1>2, <2>2 DEF NoBlock
  <2> QED
    BY <2>1, <2>2
<1>5. Blocks(g) = Rows(f)
  BY <1>4 DEF Blocks, Rows
<1>6. ASSUME NEW i \in Id, NEW n \in f.row[i] PROVE n \in g.catalog
  BY <1>1, <1>2 DEF Pruned
<1>7. Valid(g)
  BY <1>2, <1>3, <1>5, <1>6 DEF Valid
<1> QED
  BY <1>5, <1>7 DEF g

LEMMA EditedValid ==
  ASSUME TypeOK, NEW p \in Person, NEW id \in Opened(file, p), NEW keys \in Resolved(p),
         NEW f \in File, f.block = file.block, f.policy, Valid(f), NEW e, NEW raw
  PROVE  Valid(Edited(f, p, id, e, raw, keys))
<1> DEFINE g == Edited(f, p, id, e, raw, keys)
<1>1. id \in Id /\ f.block[id].pub = p /\ p # Nobody
  BY OpenedFacts, NoneAssumption
<1>2. EditorsKey(id, keys) # Nobody
  BY <1>1, ResolvedFacts DEF EditorsKey, Known
<1>3. /\ g.row = f.row
      /\ g.for = IF f.for = {} THEN Known(keys) ELSE f.for
      /\ g.catalog = f.catalog
      /\ \A i \in Id : g.block[i] = IF i = id THEN Sealed(EditorsKey(id, keys), e, raw) ELSE f.block[i]
  BY <1>1, EditedBlocks
<1> HIDE DEF g
<1>4. \A i \in Id : g.block[i].pub # Nobody <=> f.block[i].pub # Nobody
  BY <1>1, <1>2, <1>3, SealedFields
<1>5. Rows(g) = Rows(f) /\ Blocks(g) = Blocks(f)
  BY <1>3, <1>4 DEF Rows, Blocks
<1>6. /\ \A i \in Id : f.row[i] \subseteq f.catalog
      /\ Rows(f) = Blocks(f)
      /\ Rows(f) # {} => f.for = Rows(f)
  BY DEF Valid
<1>7. Rows(g) # {} => g.for = Rows(g)
  BY <1>3, <1>5, <1>6
<1>8. Valid(g)
  BY <1>3, <1>5, <1>6, <1>7 DEF Valid
<1> QED
  BY <1>8 DEF g

\* No block of the new file is too wide, or those that are were so before.
LEMMA VerifiedAnew ==
  ASSUME Valid(file'), \A i \in Id : Inside(file', i)
  PROVE  PassesVerify
BY DEF PassesVerify, Verifies, Opens

LEMMA VerifiedAsBefore ==
  ASSUME Valid(file'),
         \A i \in Id : \/ Inside(file', i)
                       \/ file'.block[i] = file.block[i] /\ file'.row[i] = file.row[i],
         \A i \in Blocks(file') :
           file.block[i].pub # file'.by => file'.block[i] = file.block[i]
  PROVE  PassesVerify
<1> SUFFICES ASSUME NEW p \in Person, ~Verifies(file', p)
             PROVE  \E i \in Opens(file', p) : file'.block[i] = file.block[i] /\ ~Inside(file, i)
  BY DEF PassesVerify
<1>1. PICK i \in Opens(file', p) : ~Inside(file', i)
  BY DEF Verifies
<1>2. file'.block[i] = file.block[i] /\ file'.row[i] = file.row[i]
  BY <1>1 DEF Opens
<1>3. ~Inside(file, i)
  BY <1>1, <1>2 DEF Inside
<1> QED
  BY <1>2, <1>3

LEMMA PassesVerifyWrites ==
  ASSUME TypeOK, NEW p \in Person, ImportNew(p) \/ Import(p) \/ Reencrypt(p)
  PROVE  PassesVerify
<1> SUFFICES ASSUME file'.policy PROVE PassesVerify
  BY DEF PassesVerify
<1>1. PICK keys \in Resolved(p) :
        \/ \E e, raw : file' = Created(p, e, raw, keys)
        \/ \E f \in File, e \in Entries, raw \in SUBSET Name :
             f.policy /\ CanRewrite(f, keys) /\ file' = Rewritten(f, p, e, raw, keys)
        \/ \E f \in File, id \in Opened(file, p), e \in Entries, new \in Entries :
             /\ f.policy = file.policy /\ f.block = file.block /\ f.row = file.row
             /\ Valid(f)
             /\ e = Merged(file.block[id].entries, new, file.policy)
             /\ file.policy => Held(new) \subseteq file.row[id]
             /\ file' = Edited(f, p, id, e, Held(new), keys)
  BY Writes
<1>2. CASE \E e, raw : file' = Created(p, e, raw, keys)
  BY <1>2 DEF Created
<1>3. CASE \E f \in File, e \in Entries, raw \in SUBSET Name :
             f.policy /\ CanRewrite(f, keys) /\ file' = Rewritten(f, p, e, raw, keys)
  <2>1. PICK f \in File, e \in Entries, raw \in SUBSET Name :
               f.policy /\ CanRewrite(f, keys) /\ file' = Rewritten(f, p, e, raw, keys)
    BY <1>3
  <2>2. ASSUME NEW i \in Id PROVE Inside(file', i)
    <3>1. /\ file'.row = f.row
          /\ file'.block[i] = IF i \in Rows(f) THEN Slice(f, i, e, raw, keys) ELSE NoBlock
      BY <2>1, RewrittenBlocks
    <3> QED
      BY <3>1, SliceFields, OnlyHeld, NothingHeld DEF Inside
  <2>3. Valid(file')
    BY <2>1, RewrittenValid, ResolvedFacts
  <2> QED
    BY <2>2, <2>3, VerifiedAnew
<1>4. CASE \E f \in File, id \in Opened(file, p), e \in Entries, new \in Entries :
             /\ f.policy = file.policy /\ f.block = file.block /\ f.row = file.row
             /\ Valid(f)
             /\ e = Merged(file.block[id].entries, new, file.policy)
             /\ file.policy => Held(new) \subseteq file.row[id]
             /\ file' = Edited(f, p, id, e, Held(new), keys)
  <2>1. PICK f \in File, id \in Opened(file, p), e \in Entries, new \in Entries :
               /\ f.policy = file.policy /\ f.block = file.block /\ f.row = file.row
               /\ Valid(f)
               /\ e = Merged(file.block[id].entries, new, file.policy)
               /\ file.policy => Held(new) \subseteq file.row[id]
               /\ file' = Edited(f, p, id, e, Held(new), keys)
    BY <1>4
  <2>2. id \in Id /\ file.block[id].pub = p
    BY OpenedFacts
  <2>3. /\ file'.by = p
        /\ file'.policy = f.policy
        /\ file'.row = file.row
        /\ \A i \in Id : file'.block[i] = IF i = id THEN Sealed(EditorsKey(id, keys), e, Held(new))
                                                    ELSE file.block[i]
    <3>1. LET g == Edited(f, p, id, e, Held(new), keys)
          IN /\ g.by = p
             /\ g.policy = f.policy
             /\ g.row = f.row
             /\ \A i \in Id : g.block[i] = IF i = id THEN Sealed(EditorsKey(id, keys), e, Held(new))
                                                    ELSE f.block[i]
      BY <2>2, EditedBlocks
    <3> QED
      BY <2>1, <3>1
  <2>4. f.policy /\ file.policy /\ e = new
    BY <2>1, <2>3 DEF Merged
  <2>5. Inside(file', id)
    <3>1. file'.block[id].entries = e /\ file'.block[id].raw = Held(new)
      BY <2>2, <2>3, SealedFields
    <3> QED
      BY <2>1, <2>3, <2>4, <3>1 DEF Inside
  <2>6. Valid(file')
    BY <2>1, <2>4, EditedValid
  <2>7. \A i \in Id : i # id => file'.block[i] = file.block[i] /\ file'.row[i] = file.row[i]
    BY <2>3
  <2>8. \A i \in Blocks(file') : file.block[i].pub # file'.by => i \in Id /\ i # id
    BY <2>2, <2>3 DEF Blocks
  <2> QED
    BY <2>5, <2>6, <2>7, <2>8, VerifiedAsBefore
<1> QED
  BY <1>1, <1>2, <1>3, <1>4

LEMMA PassesVerifyRevoke ==
  ASSUME TypeOK, RevokeRecipient
  PROVE  PassesVerify
<1>1. file.block \in [Id -> Block] /\ file.row \in [Id -> SUBSET Name]
  BY DEF TypeOK, File
<1>2. \A i \in Id : /\ i = removing.id => file'.block[i] = NoBlock
                    /\ i # removing.id => file'.block[i] = file.block[i] /\ file'.row[i] = file.row[i]
  BY <1>1, RevokedBlocks
<1>3. Inside(file', removing.id)
  BY <1>2, RevokedBlocks, NothingHeld DEF Inside
<1>4. \A i \in Blocks(file') : i \in Id /\ i # removing.id
  BY <1>2 DEF Blocks, NoBlock
<1>5. Valid(file')
  BY RevokedBlocks
<1> QED
  BY <1>2, <1>3, <1>4, <1>5, VerifiedAsBefore

LEMMA PassesVerifyStep == TypeOK /\ [Next]_vars => [PassesVerify]_vars
<1> SUFFICES ASSUME TypeOK, Next PROVE PassesVerify
  OBVIOUS
<1>1. CASE file' = file
  BY <1>1 DEF PassesVerify
<1>2. CASE \E p \in Person : ImportNew(p) \/ Import(p) \/ Reencrypt(p)
  BY <1>2, PassesVerifyWrites
<1>3. CASE \E p \in Person : UnlockRewrites(p)
  <2>1. PICK p, out, keys : file' = Created(p, out, Held(out), keys)
    BY <1>3, UnlockFacts
  <2> QED
    BY <2>1 DEF PassesVerify, Created
<1>4. CASE RevokeRecipient
  BY <1>4, PassesVerifyRevoke
<1>5. CASE EditPolicy
  BY <1>5, HandEdited DEF PassesVerify
<1> QED
  BY <1>1, <1>2, <1>3, <1>4, <1>5, FileSteps

\* Whatever was edited by hand: a command that writes blocks under a policy leaves
\* a file that passes up verify for everyone, V3 included, but for those whose block
\* was wider than its row before and is carried along; only commands that rewrite
\* nobody else's block carry one along.
THEOREM WrittenFilesPassVerify == Spec => WrittenPassesVerify
BY TypeCorrect, PassesVerifyStep, PTL DEF Spec, WrittenPassesVerify

-----------------------------------------------------------------------------
(* No wipe *)

LEMMA KeepsGrantedWrites ==
  ASSUME TypeOK, NEW p \in Person, ImportNew(p) \/ Import(p) \/ Reencrypt(p)
  PROVE  KeepsGranted
<1> SUFFICES ASSUME file.policy, file'.policy, NEW i \in Blocks(file) \cap Blocks(file'),
                    file.block[i].pub # file'.by
             PROVE  Held(file.block[i].entries) \cap file'.row[i] \subseteq Held(file'.block[i].entries)
  BY DEF KeepsGranted
<1>0. i \in Id
  BY DEF Blocks
<1>1. PICK keys \in Resolved(p) :
        \/ \E e, raw : file' = Created(p, e, raw, keys)
        \/ \E f \in File, id \in Opened(file, p), e \in Entries, raw \in SUBSET Name :
             /\ f.policy
             /\ CanSyncAllPolicyBlocks(file, id, e, keys)
             /\ CanRewrite(f, keys)
             /\ f.catalog \subseteq file.catalog \cup Held(e)
             /\ file' = Rewritten(f, p, e, raw, keys)
        \/ \E f \in File, id \in Opened(file, p), e \in Entries, raw \in SUBSET Name :
             /\ f.block = file.block
             /\ file' = Edited(f, p, id, e, raw, keys)
  BY Writes DEF Held
<1>2. CASE \E e, raw : file' = Created(p, e, raw, keys)
  BY <1>2 DEF Created
<1>3. CASE \E f \in File, id \in Opened(file, p), e \in Entries, raw \in SUBSET Name :
             /\ f.policy
             /\ CanSyncAllPolicyBlocks(file, id, e, keys)
             /\ CanRewrite(f, keys)
             /\ f.catalog \subseteq file.catalog \cup Held(e)
             /\ file' = Rewritten(f, p, e, raw, keys)
  <2>1. PICK f \in File, id \in Opened(file, p), e \in Entries, raw \in SUBSET Name :
               /\ f.policy
               /\ CanSyncAllPolicyBlocks(file, id, e, keys)
               /\ CanRewrite(f, keys)
               /\ f.catalog \subseteq file.catalog \cup Held(e)
               /\ file' = Rewritten(f, p, e, raw, keys)
    BY <1>3
  <2>2. f.row[i] \subseteq Held(e)
    <3>1. f.row[i] \subseteq f.catalog
      BY <1>0, <2>1 DEF CanRewrite, Valid
    <3>2. file.catalog \subseteq Held(e)
      BY <2>1 DEF CanSyncAllPolicyBlocks, HoldsFullCatalog
    <3> QED
      BY <2>1, <3>1, <3>2
  <2>3. i \in Rows(f)
    BY <2>1, RewrittenValid, ResolvedFacts
  <2>4. file'.row = f.row /\ file'.block[i] = Slice(f, i, e, raw, keys)
    BY <1>0, <2>1, <2>3, RewrittenBlocks
  <2> QED
    BY <2>2, <2>4, SliceFields, OnlyHeld
<1>4. CASE \E f \in File, id \in Opened(file, p), e \in Entries, raw \in SUBSET Name :
             /\ f.block = file.block
             /\ file' = Edited(f, p, id, e, raw, keys)
  <2>1. PICK f \in File, id \in Opened(file, p), e \in Entries, raw \in SUBSET Name :
               f.block = file.block /\ file' = Edited(f, p, id, e, raw, keys)
    BY <1>4
  <2>2. id \in Id /\ file.block[id].pub = p
    BY OpenedFacts
  <2>3. file'.by = p /\ (i # id => file'.block[i] = f.block[i])
    BY <1>0, <2>1, <2>2, EditedBlocks
  <2> QED
    BY <2>1, <2>2, <2>3
<1> QED
  BY <1>1, <1>2, <1>3, <1>4

LEMMA KeepsGrantedStep == TypeOK /\ [Next]_vars => [KeepsGranted]_vars
<1> SUFFICES ASSUME TypeOK, Next PROVE KeepsGranted
  OBVIOUS
<1>1. CASE file'.block = file.block
  BY <1>1 DEF KeepsGranted
<1>2. CASE \E p \in Person : ImportNew(p) \/ Import(p) \/ Reencrypt(p)
  BY <1>2, KeepsGrantedWrites
<1>3. CASE \E p \in Person : UnlockRewrites(p)
  <2>1. PICK p, out, keys : file' = Created(p, out, Held(out), keys)
    BY <1>3, UnlockFacts
  <2> QED
    BY <2>1 DEF KeepsGranted, Created
<1>4. CASE RevokeRecipient
  <2>1. file.block \in [Id -> Block]
    BY DEF TypeOK, File
  <2>2. \A i \in Id : file'.block[i] \in {NoBlock, file.block[i]}
    BY <1>4, <2>1, RevokedBlocks
  <2>3. \A i \in Blocks(file') : file'.block[i] = file.block[i]
    BY <2>2 DEF Blocks, NoBlock
  <2> QED
    BY <2>3 DEF KeepsGranted
<1>5. CASE EditPolicy
  BY <1>1, <1>5, HandEdited
<1> QED
  BY <1>1, <1>2, <1>3, <1>4, <1>5, FileSteps

\* With a policy, nobody loses a key that their row grants to somebody else's command.
THEOREM NoWipe == Spec => NoAccidentalWipe
BY TypeCorrect, KeepsGrantedStep, PTL DEF Spec, NoAccidentalWipe

-----------------------------------------------------------------------------
(* Others untouched *)

LEMMA LeavesOthersImport ==
  ASSUME TypeOK, NEW p \in Person, Import(p)
  PROVE  ~TouchesOthers
<1>1. PICK new \in Entries, keys \in Resolved(p), id \in Opened(file, p) :
        LET e == Merged(file.block[id].entries, new, file.policy)
            f == Recatalogued(e)
        IN /\ file.policy => Held(new) \subseteq file.row[id]
           /\ Valid(f)
           /\ \/ /\ CanSyncAllPolicyBlocks(file, id, e, keys)
                 /\ CanRewrite(f, keys)
                 /\ file' = Rewritten(f, p, e, Held(new), keys)
              \/ file' = Edited(f, p, id, e, Held(new), keys)
  BY ImportFacts
<1> DEFINE e == Merged(file.block[id].entries, new, file.policy)
           f == Recatalogued(e)
<1>2. id \in Id /\ file.block[id].pub = p /\ p # Nobody
  BY OpenedFacts, NoneAssumption
<1>3. e \in Entries
  BY OpenedFacts, MergedType DEF TypeOK, File, Block
<1>4. /\ f \in File /\ f.policy = file.policy /\ f.block = file.block /\ f.row = file.row
      /\ Rows(f) = Rows(file) /\ Blocks(f) = Blocks(file)
  BY <1>3, RecataloguedBlocks
<1> HIDE DEF e, f
<1>5. CASE file' = Edited(f, p, id, e, Held(new), keys)
  <2>1. /\ file'.by = p
        /\ \A i \in Id : i # id => file'.block[i] = file.block[i]
    BY <1>2, <1>4, <1>5, EditedBlocks
  <2> QED
    BY <1>2, <2>1 DEF TouchesOthers
<1>6. CASE /\ CanSyncAllPolicyBlocks(file, id, e, keys)
           /\ CanRewrite(f, keys)
           /\ file' = Rewritten(f, p, e, Held(new), keys)
  <2>1. file.policy /\ file.catalog \subseteq Held(e)
    BY <1>6 DEF CanSyncAllPolicyBlocks, HoldsFullCatalog
  <2>2. e = new
    BY <2>1 DEF e, Merged
  <2>3. Held(e) \subseteq f.row[id]
    BY <1>1, <1>4, <2>1, <2>2
  <2>4. id \in Rows(f)
    <3>1. Rows(f) = Blocks(f)
      BY <1>4, <1>6, <2>1 DEF CanRewrite, Valid
    <3> QED
      BY <1>2, <1>4, <3>1 DEF Blocks
  <2>5. file'.by = p /\ file'.block[id] = Slice(f, id, e, Held(new), keys)
    BY <1>2, <1>4, <1>6, <2>4, RewrittenBlocks
  <2>6. Held(file'.block[id].entries) = Held(e) \cap f.row[id]
    BY <1>3, <2>5, SliceFields, OnlyHeld
  <2>7. file.catalog \subseteq Held(file'.block[id].entries) /\ id \in Opens(file, p)
    BY <1>2, <2>1, <2>3, <2>6 DEF Opens
  <2> QED
    BY <2>1, <2>5, <2>7 DEF TouchesOthers
<1> QED
  BY <1>1, <1>5, <1>6 DEF e, f

\* An import does not touch what the editor cannot open, but for the full rewrite
\* under a policy by someone who has every key of the catalogue and keeps it.
THEOREM OthersAreUntouched == Spec => OthersUntouched
<1>1. TypeOK /\ [Next]_vars => [LeavesOthers]_vars
  BY LeavesOthersImport DEF LeavesOthers
<1> QED
  BY <1>1, TypeCorrect, PTL DEF Spec, OthersUntouched

-----------------------------------------------------------------------------
(* The configured keep their access *)

LEMMA KeepsAccessWrites ==
  ASSUME TypeOK, NEW p \in Person, ImportNew(p) \/ Import(p) \/ Reencrypt(p),
         NEW q \in Person, config[q] # NoLabel, Opens(file, q) # {}, Opens(file', q) = {}
  PROVE  Clash
<1>1. PICK keys \in Resolved(p) :
        /\ Verified(file', p)
        /\ \/ \E e, raw : file' = Created(p, e, raw, keys)
           \/ \E f \in File, id \in Opened(file, p), e \in Entries, raw \in SUBSET Name :
                /\ f.policy /\ f.block = file.block
                /\ CanRewrite(f, keys)
                /\ file' = Rewritten(f, p, e, raw, keys)
           \/ \E f \in File, id \in Opened(file, p), e \in Entries, raw \in SUBSET Name :
                /\ f.block = file.block
                /\ file' = Edited(f, p, id, e, raw, keys)
  BY Writes DEF Held
<1>2. q # p
  BY <1>1 DEF Verified, Opened
<1> DEFINE l == config[q]
<1>3. l \in Label
  BY DEF TypeOK
<1>4. /\ keys \in [Id -> PersonOrNobody] /\ keys[Local] = p
      /\ \A m \in Label : keys[m] # Nobody =>
           keys[m] \in Person /\ keys[m] # p /\ config[keys[m]] = m
      /\ \A r \in Person, m \in Label : r # p /\ config[r] = m => keys[m] # Nobody
  BY ResolvedFacts
<1>5. keys[l] \in Person /\ config[keys[l]] = l
  BY <1>2, <1>3, <1>4
<1>6. CASE keys[l] # q
  BY <1>3, <1>5, <1>6 DEF Clash
<1>7. CASE keys[l] = q /\ \E e, raw : file' = Created(p, e, raw, keys)
  <2>1. l \in Id
    BY <1>3 DEF Id
  <2>2. file'.block[l].pub = q
    BY <1>7, <2>1, CreatedFor
  <2> QED
    BY <2>1, <2>2 DEF Opens
<1>8. PICK j \in Id : file.block[j].pub = q
  BY DEF Opens
<1>9. file'.block[j].pub # q
  BY <1>8 DEF Opens
<1>10. CASE \E f \in File, id \in Opened(file, p), e \in Entries, raw \in SUBSET Name :
               f.block = file.block /\ file' = Edited(f, p, id, e, raw, keys)
  <2>1. PICK f \in File, id \in Opened(file, p), e \in Entries, raw \in SUBSET Name :
               f.block = file.block /\ file' = Edited(f, p, id, e, raw, keys)
    BY <1>10
  <2>2. id \in Id /\ file.block[id].pub = p
    BY OpenedFacts
  <2>3. file'.block[j] = file.block[j]
    BY <1>2, <1>8, <2>1, <2>2, EditedBlocks
  <2> QED
    BY <1>8, <1>9, <2>3
<1>11. CASE \E f \in File, id \in Opened(file, p), e \in Entries, raw \in SUBSET Name :
                /\ f.policy /\ f.block = file.block
                /\ CanRewrite(f, keys)
                /\ file' = Rewritten(f, p, e, raw, keys)
  <2>1. PICK f \in File, id \in Opened(file, p), e \in Entries, raw \in SUBSET Name :
                /\ f.policy /\ f.block = file.block
                /\ CanRewrite(f, keys)
                /\ file' = Rewritten(f, p, e, raw, keys)
    BY <1>11
  <2>2. id \in Id /\ file.block[id].pub = p
    BY OpenedFacts
  <2>3. j \in Rows(f) /\ id \in Rows(f)
    <3>1. Rows(f) = Blocks(f)
      BY <2>1 DEF CanRewrite, Valid
    <3> QED
      BY <1>8, <2>1, <2>2, <3>1, NoneAssumption DEF Blocks
  <2>4. keys[j] # Nobody /\ keys[id] # Nobody
    BY <2>1, <2>3 DEF CanRewrite, Known
  <2>5. file'.block[j] = Slice(f, j, e, raw, keys)
    BY <2>1, <2>3, RewrittenBlocks
  <2>6. keys[j] # q
    BY <1>9, <2>5, SliceFields
  <2>7. CASE j \in Label
    BY <1>4, <1>8, <2>4, <2>6, <2>7 DEF Clash
  <2>8. CASE j = Local
    <3>1. id \in Label
      BY <1>2, <1>8, <2>2, <2>8 DEF Id
    <3> QED
      BY <1>4, <2>2, <2>4, <3>1 DEF Clash
  <2> QED
    BY <2>7, <2>8 DEF Id
<1> QED
  BY <1>1, <1>6, <1>7, <1>10, <1>11

LEMMA KeepsAccessStep == TypeOK /\ [Next]_vars => [KeepsAccess]_vars
<1> SUFFICES ASSUME TypeOK, Next PROVE KeepsAccess
  OBVIOUS
<1>1. CASE file'.block = file.block
  BY <1>1 DEF KeepsAccess, Opens
<1>2. CASE \E p \in Person : ImportNew(p) \/ Import(p) \/ Reencrypt(p)
  BY <1>2, KeepsAccessWrites DEF KeepsAccess
<1>3. CASE RevokeRecipient \/ \E p \in Person : UnlockRewrites(p)
  BY <1>3 DEF KeepsAccess
<1>4. CASE EditPolicy
  BY <1>1, <1>4, HandEdited
<1> QED
  BY <1>1, <1>2, <1>3, <1>4, FileSteps

\* Whoever is configured and opens the file goes on opening it, whatever the others
\* run, unless labels clash, a removal is carried out or the extension's unlock
\* rewrites the file for one person.
THEOREM ConfiguredKeepTheirAccess == Spec => ConfiguredKeepAccess
BY TypeCorrect, KeepsAccessStep, PTL DEF Spec, ConfiguredKeepAccess

-----------------------------------------------------------------------------
(* Run and unlock *)

Agrees(b) == b.raw \in {{}, Held(b.entries)}

LEMMA AgreesNoBlock == Agrees(NoBlock)
BY NothingHeld DEF Agrees

LEMMA AgreesSealed ==
  ASSUME NEW who, NEW e, NEW raw, raw \in {{}, Held(e)}
  PROVE  Agrees(Sealed(who, e, raw))
BY SealedFields DEF Agrees

LEMMA AgreesSlice ==
  ASSUME NEW f, NEW i, NEW e \in Entries, NEW raw, NEW keys, raw \in {{}, Held(e)}
  PROVE  Agrees(Slice(f, i, e, raw, keys))
<1>1. /\ Held(Slice(f, i, e, raw, keys).entries) = Held(e) \cap f.row[i]
      /\ Slice(f, i, e, raw, keys).raw = raw \cap f.row[i]
  BY SliceFields, OnlyHeld
<1> QED
  BY <1>1 DEF Agrees

LEMMA AgreesCreated ==
  ASSUME NEW p, NEW e, NEW raw, NEW keys, raw \in {{}, Held(e)}, NEW i \in Id
  PROVE  Agrees(Created(p, e, raw, keys).block[i])
<1>1. Created(p, e, raw, keys).block[i] \in {NoBlock, Sealed(keys[i], e, raw)}
  BY DEF Created
<1> QED
  BY <1>1, AgreesNoBlock, AgreesSealed

LEMMA AgreesRewritten ==
  ASSUME NEW f \in File, NEW p \in Person, NEW e \in Entries, NEW raw, NEW keys,
         raw \in {{}, Held(e)}, NEW i \in Id
  PROVE  Agrees(Rewritten(f, p, e, raw, keys).block[i])
<1>1. Rewritten(f, p, e, raw, keys).block[i] \in {NoBlock, Slice(f, i, e, raw, keys)}
  BY RewrittenBlocks
<1> QED
  BY <1>1, AgreesNoBlock, AgreesSlice

LEMMA AgreeStep ==
  TypeOK /\ RunAndUnlockAgree /\ [Next]_vars => RunAndUnlockAgree'
<1> SUFFICES ASSUME TypeOK, RunAndUnlockAgree, [Next]_vars, ~thinned', NEW i \in Id
             PROVE  Agrees(file.block[i])'
  BY DEF RunAndUnlockAgree, Agrees
<1>1. ASSUME ~thinned, NEW j \in Id PROVE Agrees(file.block[j])
  BY <1>1 DEF RunAndUnlockAgree, Agrees
<1>2. ~thinned
  <2>1. ASSUME NEW p \in Person, Import(p) PROVE ~thinned
    BY <2>1, ImportFacts DEF TypeOK
  <2>2. CASE \E p \in Person : Import(p)
    BY <2>1, <2>2
  <2>3. CASE ~\E p \in Person : Import(p)
    BY <2>3 DEF Next, vars, ImportNew, Reencrypt, UnlockRewrites, AddRecipient, ConfigTorn,
       RemoveFromConfig, RevokeRecipient, RemovalEnds, EditPolicy
  <2> QED
    BY <2>2, <2>3
<1>3. CASE file'.block = file.block
  BY <1>1, <1>2, <1>3
<1>4. CASE \E p \in Person : ImportNew(p)
  <2>1. PICK p \in Person, new \in Entries : \E keys : file' = Created(p, new, Held(new), keys)
    BY <1>4 DEF ImportNew, Replace
  <2> QED
    BY <2>1, AgreesCreated
<1>5. CASE \E p \in Person : Import(p)
  <2>1. PICK p \in Person : Import(p)
    BY <1>5
  <2>2. PICK new \in Entries, keys \in Resolved(p), id \in Opened(file, p) :
          LET e == Merged(file.block[id].entries, new, file.policy)
              f == Recatalogued(e)
          IN /\ \/ /\ CanSyncAllPolicyBlocks(file, id, e, keys)
                   /\ file' = Rewritten(f, p, e, Held(new), keys)
                \/ file' = Edited(f, p, id, e, Held(new), keys)
             /\ thinned' = (thinned \/ (~file.policy /\ Held(e) # Held(new)))
    BY <2>1, ImportFacts
  <2> DEFINE e == Merged(file.block[id].entries, new, file.policy)
             f == Recatalogued(e)
  <2>3. e \in Entries
    BY OpenedFacts, MergedType DEF TypeOK, File, Block
  <2>4. f \in File /\ f.block = file.block /\ id \in Id
    BY <2>3, RecataloguedBlocks, OpenedFacts
  <2>5. Held(e) = Held(new)
    <3>1. CASE file.policy
      BY <3>1 DEF Merged
    <3>2. CASE ~file.policy
      BY <2>2, <3>2
    <3> QED
      BY <3>1, <3>2
  <2> HIDE DEF e, f
  <2>6. CASE file' = Rewritten(f, p, e, Held(new), keys)
    BY <2>3, <2>4, <2>5, <2>6, AgreesRewritten
  <2>7. CASE file' = Edited(f, p, id, e, Held(new), keys)
    <3>1. file'.block[i] \in {Sealed(EditorsKey(id, keys), e, Held(new)), file.block[i]}
      BY <2>4, <2>7, EditedBlocks
    <3> QED
      BY <1>1, <1>2, <2>5, <3>1, AgreesSealed
  <2> QED
    BY <2>2, <2>6, <2>7 DEF e, f
<1>6. CASE \E p \in Person : Reencrypt(p)
  <2>1. PICK p \in Person : Reencrypt(p)
    BY <1>6
  <2>2. PICK keys \in Resolved(p), id \in Opened(file, p) :
          LET b == file.block[id]
          IN \/ file' = Rewritten(file, p, b.entries, b.raw, keys)
             \/ file' = Created(p, b.entries, b.raw, keys)
    BY <2>1, ReencryptFacts
  <2>3. id \in Id /\ file.block[id].entries \in Entries /\ file \in File
    BY OpenedFacts DEF Block, TypeOK
  <2>4. file.block[id].raw \in {{}, Held(file.block[id].entries)}
    BY <1>1, <1>2, <2>3 DEF Agrees
  <2> QED
    BY <2>2, <2>3, <2>4, AgreesRewritten, AgreesCreated
<1>7. CASE \E p \in Person : UnlockRewrites(p)
  <2>1. PICK p, out, keys : file' = Created(p, out, Held(out), keys)
    BY <1>7, UnlockFacts
  <2> QED
    BY <2>1, AgreesCreated
<1>8. CASE RevokeRecipient
  <2>1. file.block \in [Id -> Block]
    BY DEF TypeOK, File
  <2>2. file'.block[i] \in {NoBlock, file.block[i]}
    BY <1>8, <2>1, RevokedBlocks
  <2> QED
    BY <1>1, <1>2, <2>2, AgreesNoBlock
<1>9. CASE EditPolicy
  BY <1>3, <1>9, HandEdited
<1>10. CASE UNCHANGED vars
  BY <1>3, <1>10 DEF vars
<1> QED
  BY <1>3, <1>4, <1>5, <1>6, <1>7, <1>8, <1>9, <1>10, FileSteps

\* Entries and text of a block name the same keys until somebody leaves a line out
\* of an import without a policy.
THEOREM RunAndUnlockDoAgree == Spec => []RunAndUnlockAgree
<1>1. Init => RunAndUnlockAgree
  BY NothingHeld DEF Init, RunAndUnlockAgree, NoFile
<1> QED
  BY <1>1, AgreeStep, TypeCorrect, PTL DEF Spec

=============================================================================
