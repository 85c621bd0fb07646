------------------------------ MODULE EnvText ------------------------------
(***************************************************************************)
(* What is written in .env and in .env.up, and what the program makes of   *)
(* it on the way: the dotenv reading of a text, the lines kept for a       *)
(* recipient, the texts rebuilt from entries, the merge of two texts, the  *)
(* page of the custom editor and the header that is read back.             *)
(*                                                                         *)
(* A text is a sequence of lines and a line is known by its form; a value  *)
(* is known by the one feature that some conversion trips over:            *)
(*   word    nothing special        hash    a # in it                      *)
(*   spaced  a space                escape  a backslash and an n           *)
(*   quote   a double quote         lines   a line break                   *)
(* and by what conversions make of such a value: cut, expanded, head (what *)
(* is left of the first of its lines) and splice (two heads and tails that *)
(* do not belong together). The second line of a value assigns no key.     *)
(***************************************************************************)
EXTENDS Integers, FiniteSets, SequencesExt

CONSTANTS
  KeyOrder,     \* the keys, in the order a rebuilt text lists them
  Style,        \* for each key the ways in which its values are written
  MaxWritten,   \* bound: how many different values the user ever writes
  MaxVersion,   \* bound: how often the version of a key is raised
  NoFile, NoText, NoSlice, NoKey, NoValue

Key == Range(KeyOrder)

AllStyles ==
  {"word", "colon", "spaced", "quote", "hash", "escape", "newline", "lines"}

Values ==
  [kind : {"word", "spaced", "quote", "hash", "escape", "lines",
           "cut", "expanded", "head", "splice"},
   of : Key]

Lines ==
  [form : {"note", "bare", "colon", "single", "quoted", "open", "rest"},
   key : Key \cup {NoKey}, val : Values \cup {NoValue}]

ASSUME TextAssumption ==
  /\ KeyOrder \in Seq(STRING) /\ IsInjective(KeyOrder)
  /\ Style \in [Key -> SUBSET AllStyles]
  /\ MaxWritten \in Nat /\ MaxVersion \in Nat \ {0}
  /\ NoKey \notin Key /\ NoText \notin Seq(Lines)

VARIABLES
  env,      \* the text of .env
  up,       \* .env.up: its block (entries, raw), header (clear, rows), policy
  written   \* the lines the user has written, ever

vars == <<env, up, written>>

-----------------------------------------------------------------------------
(* Values and lines *)

Value(kind, k) == [kind |-> kind, of |-> k]

HasLineBreak(v) == v.kind \in {"lines", "expanded", "splice"}
HasQuote(v) == v.kind \in {"quote", "head"}

Line(form, k, v) == [form |-> form, key |-> k, val |-> v]

\* K=v, K: v, K='v' and K="v" on one line, and K="v over two lines.
OneLine == {"bare", "colon", "single", "quoted"}
Spread(k, v) == <<Line("open", k, v), Line("rest", NoKey, v)>>

-----------------------------------------------------------------------------
(* The dotenv parser, and what parseEnvFile adds to it *)

QuoteIn(l) ==
  l.form \in {"quoted", "open", "rest"} \/ (l.val # NoValue /\ HasQuote(l.val))

\* An opened quote ends at the next one in the text if that one ends its line.
Closing(t, i) ==
  LET quotes == {j \in (i + 1) .. Len(t) : QuoteIn(t[j])}
  IN IF quotes # {} /\ t[Min(quotes)].form = "rest" THEN Min(quotes) ELSE 0

Swallowed(t, i) == \E j \in 1 .. (i - 1) : t[j].form = "open" /\ i <= Closing(t, j)

\* In double quotes backslash n is a line break.
Expand(v) ==
  IF v.kind = "escape" THEN Value("expanded", v.of) ELSE v
\* Without quotes a # begins a comment.
Cut(v) == IF v.kind = "hash" THEN Value("cut", v.of) ELSE v

ReadLine(t, i) ==
  LET l == t[i]
      j == Closing(t, i)
  IN CASE l.form \in {"bare", "colon"} -> Cut(l.val)
       [] l.form = "single" -> l.val
       [] l.form = "quoted" -> Expand(l.val)
       [] l.form = "open" -> IF j = 0 THEN Value("head", l.val.of)
                             ELSE IF j = i + 1 /\ t[j].val = l.val THEN l.val
                             ELSE Value("splice", l.val.of)

Assigns(t, k) ==
  {i \in 1 .. Len(t) : t[i].form # "note" /\ t[i].key = k /\ ~Swallowed(t, i)}

\* The last line that assigns a key counts.
parseEnvFile(t) ==
  [k \in {k \in Key : Assigns(t, k) # {}} |-> ReadLine(t, Max(Assigns(t, k)))]

-----------------------------------------------------------------------------
(* The texts the program writes *)

formatEnv(k, v) ==
  IF HasLineBreak(v) THEN Spread(k, v)
  ELSE <<Line(IF HasQuote(v) \/ v.kind = "spaced" THEN "quoted" ELSE "bare", k, v)>>

\* The paragraphs of a text one after the other.
InOrder(paragraph) ==
  FlattenSeq([i \in 1 .. Len(KeyOrder) |->
                IF KeyOrder[i] \in DOMAIN paragraph THEN paragraph[KeyOrder[i]] ELSE <<>>])

Rebuilt(e) == InOrder([k \in DOMAIN e |-> formatEnv(k, e[k])])

\* The page of the custom editor quotes every value and escapes nothing.
Page(e) ==
  InOrder([k \in DOMAIN e |-> IF HasLineBreak(e[k]) THEN Spread(k, e[k])
                              ELSE <<Line("quoted", k, e[k])>>])
ErrorPage == <<Line("note", NoKey, NoValue)>>

HasEquals(l) == l.form \notin {"note", "colon", "rest"}

\* The lines of t at the places I, in their order.
LinesAt(t, I) == FlattenSeq([i \in DOMAIN t |-> IF i \in I THEN <<t[i]>> ELSE <<>>])

\* Mutant: what is kept is written without its quotes.
filterRawBare(t, keys) ==
  LET kept == LinesAt(t, {i \in DOMAIN t : HasEquals(t[i]) /\ t[i].key \in keys})
  IN IF kept = <<>> THEN NoText
     ELSE [i \in DOMAIN kept |-> [kept[i] EXCEPT !.form = "bare"]]

\* Line by line, only those that assign one of the keys are kept.
filterRawForKeys(t, keys) ==
  LET kept == LinesAt(t, {i \in DOMAIN t : HasEquals(t[i]) /\ t[i].key \in keys})
  IN IF kept = <<>> THEN NoText ELSE kept

\* The value that was not taken goes into a comment behind the other.
mergeEnvContent(envText, upText, prefer) ==
  LET e == parseEnvFile(envText)
      u == parseEnvFile(upText)
      first == IF prefer = "env" THEN e ELSE u
      second == IF prefer = "env" THEN u ELSE e
      both == DOMAIN e \cap DOMAIN u
      Note(k) == IF k \in both /\ e[k] # u[k] THEN <<Line("note", k, second[k])>> ELSE <<>>
  IN InOrder([k \in DOMAIN e \cup DOMAIN u |->
                formatEnv(k, IF k \in DOMAIN first THEN first[k] ELSE second[k]) \o Note(k)])

\* A received share replaces and appends lines, whatever they are part of.
mergeEnv(existing, incoming) ==
  LET Of(t, k) == {i \in DOMAIN t : HasEquals(t[i]) /\ t[i].key = k}
      names == {k \in Key : Of(incoming, k) # {}}
      LastOf(k) == incoming[Max(Of(incoming, k))]
      replaced == [i \in DOMAIN existing |->
                     IF HasEquals(existing[i]) /\ existing[i].key \in names
                     THEN LastOf(existing[i].key) ELSE existing[i]]
      fresh == LinesAt(incoming, {Min(Of(incoming, k)) :
                                    k \in {n \in names : Of(existing, n) = {}}})
  IN replaced \o [i \in DOMAIN fresh |-> LastOf(fresh[i].key)]

-----------------------------------------------------------------------------
(* .env.up as it is read and written *)

\* What comments of the text the header of a new file shows in the clear.
extractStructureComments(t) ==
  IF t = NoText THEN {} ELSE {l.val : l \in {m \in ToSet(t) : m.form = "note"}}

\* Mutant: only keys that have a row get one.
bumpKnownOnly(rows, merged, touched) ==
  [k \in DOMAIN rows |->
     IF k \in DOMAIN merged \cap touched THEN rows[k] + 1 ELSE rows[k]]

\* Every key a row, and a key that has another value than before a new version.
bumpKeysMetadata(rows, merged, touched) ==
  [k \in DOMAIN rows \cup DOMAIN merged |->
     IF k \notin DOMAIN rows THEN 1
     ELSE IF k \in DOMAIN merged \cap touched THEN rows[k] + 1
     ELSE rows[k]]

create(e, t) ==
  [entries |-> e, raw |-> t, clear |-> extractStructureComments(t),
   rows |-> [k \in DOMAIN e |-> 1], slice |-> NoSlice]

\* The text unlock writes and Safe Edit shows.
Opened == IF up.raw # NoText THEN up.raw ELSE Rebuilt(up.entries)

\* The keys of the recipient's slice, where a policy gives them one.
Allowed(otherwise) == IF up.slice = NoSlice THEN otherwise ELSE up.slice

\* assertDecryptRespectsPolicy: a block with more than its row is not opened.
RespectsPolicy == DOMAIN up.entries \subseteq Allowed(Key)

\* Mutant: the old text is kept beside the new entries.
MergedOldText(t, merged) == up.raw

\* Mutant: the text is filtered for the keys there were.
MergedOldKeys(t, merged) == filterRawForKeys(t, Allowed(DOMAIN up.entries))

MergedText(t, merged) == filterRawForKeys(t, Allowed(DOMAIN merged))

\* Mutant: a key counts as touched when it is new.
TouchedNew(new) == DOMAIN new \ DOMAIN up.entries

Touched(new) ==
  {k \in DOMAIN new : k \notin DOMAIN up.entries \/ new[k] # up.entries[k]}

\* With a policy the new entries are all there is, without one they go over the old.
mergePolicyAware(old, new) ==
  IF up.slice # NoSlice THEN new
  ELSE [k \in DOMAIN old \cup DOMAIN new |-> IF k \in DOMAIN new THEN new[k] ELSE old[k]]

\* mergeReencrypt for the one recipient of the file, and the check before the
\* file takes the place of the old one.
Merge(t) ==
  LET new == parseEnvFile(t)
      merged == mergePolicyAware(up.entries, new)
      rows == bumpKeysMetadata(up.rows, merged, Touched(new))
  IN /\ DOMAIN new \subseteq Allowed(Key)
     /\ Allowed({}) \subseteq DOMAIN rows
     /\ DOMAIN merged # {}
     /\ \A k \in DOMAIN rows : rows[k] <= MaxVersion
     /\ up' = [up EXCEPT !.entries = merged, !.raw = MergedText(t, merged),
                        !.rows = Restrict(rows, Allowed(DOMAIN rows))]

-----------------------------------------------------------------------------
(* The user *)

Paragraph(k, style) ==
  CASE style \in {"word", "escape"} -> <<Line("bare", k, Value(style, k))>>
    [] style = "colon"  -> <<Line("colon", k, Value("word", k))>>
    [] style = "quote"  -> <<Line("single", k, Value("quote", k))>>
    [] style \in {"spaced", "hash"} -> <<Line("quoted", k, Value(style, k))>>
    [] style = "newline" -> <<Line("quoted", k, Value("escape", k))>>
    [] style = "lines"  -> Spread(k, Value("lines", k))

\* A text somebody types: a paragraph for some of the keys.
UserText ==
  {InOrder([k \in DOMAIN style |-> Paragraph(k, style[k])]) :
     style \in {f \in UNION {[keys -> AllStyles] : keys \in SUBSET Key} :
                  \A k \in DOMAIN f : f[k] \in Style[k]}}

Few(lines) == Cardinality({l.val : l \in lines}) <= MaxWritten

Types(t) ==
  /\ written' = written \cup ToSet(t)
  /\ Few(written')

Init ==
  /\ env \in UserText /\ up = NoFile
  /\ written = ToSet(env) /\ Few(written)

Edit ==
  \E t \in UserText : env' = t /\ Types(t) /\ UNCHANGED up

\* A received share is taken as .env or merged into it.
ReceiveShare ==
  \E t \in UserText :
    /\ env' = t \/ env' = mergeEnv(IF env = NoFile THEN <<>> ELSE env, t)
    /\ Types(t)
    /\ UNCHANGED up

-----------------------------------------------------------------------------
(* The commands *)

Import ==
  /\ env # NoFile /\ DOMAIN parseEnvFile(env) # {}
  /\ IF up = NoFile THEN up' = create(parseEnvFile(env), env) ELSE Merge(env)
  /\ UNCHANGED <<env, written>>

CliUnlock ==
  /\ up # NoFile /\ RespectsPolicy
  /\ env' = Opened
  /\ UNCHANGED <<up, written>>

\* Over an .env that is there the extension merges, and writes both files.
ExtUnlock ==
  /\ up # NoFile /\ RespectsPolicy
  /\ IF env = NoFile
     THEN env' = Opened /\ UNCHANGED up
     ELSE \E prefer \in {"env", "envUp"} :
            /\ env' = mergeEnvContent(env, Opened, prefer)
            /\ up' = create(parseEnvFile(env'), env')
  /\ UNCHANGED written

\* Lock removes .env, one that differs from .env.up with --force.
Lock ==
  /\ env # NoFile /\ up # NoFile
  /\ env' = NoFile
  /\ UNCHANGED <<up, written>>

\* A text opened with Safe Edit, alone or merged with .env, is saved.
SafeEditSave ==
  /\ up # NoFile /\ RespectsPolicy
  /\ \/ Merge(Opened)
     \/ /\ env # NoFile
        /\ \E prefer \in {"env", "envUp"} : Merge(mergeEnvContent(env, Opened, prefer))
  /\ UNCHANGED <<env, written>>

\* The page of the custom editor is saved as it was shown.
PageSave ==
  /\ up # NoFile
  /\ \/ RespectsPolicy /\ Merge(Page(up.entries))
     \/ Merge(ErrorPage)
  /\ UNCHANGED <<env, written>>

Reencrypt ==
  /\ up # NoFile /\ DOMAIN up.entries # {}
  /\ IF up.slice = NoSlice THEN up' = create(up.entries, up.raw)
     ELSE /\ DOMAIN up.rows \subseteq DOMAIN up.entries
          /\ up.slice \subseteq DOMAIN up.rows
          /\ up' = [up EXCEPT
                      !.entries = Restrict(up.entries, up.slice),
                      !.raw = IF up.raw = NoText THEN NoText
                              ELSE filterRawForKeys(up.raw, up.slice),
                      !.rows = Restrict(up.rows, up.slice)]
  /\ UNCHANGED <<env, written>>

\* Somebody adds a [policy] section by hand.
AddPolicy ==
  /\ up # NoFile /\ up.slice = NoSlice
  /\ \E s \in (SUBSET DOMAIN up.rows) \ {{}} : up' = [up EXCEPT !.slice = s]
  /\ UNCHANGED <<env, written>>

Next ==
  \/ Edit \/ ReceiveShare \/ Import \/ CliUnlock \/ ExtUnlock \/ Lock
  \/ SafeEditSave \/ PageSave \/ Reencrypt \/ AddPolicy

Spec == Init /\ [][Next]_vars

-----------------------------------------------------------------------------
(* Properties *)

\* Every line says what it assigns, the block names the keys its header names, and
\* so does the policy once a command has written under it.
TypeOK ==
  /\ env # NoFile => \A l \in ToSet(env) : l.val \in Values \cup {NoValue}
  /\ up # NoFile =>
       /\ Range(up.entries) \subseteq Values
       /\ Range(up.rows) \subseteq 1 .. MaxVersion
       /\ DOMAIN up.entries \subseteq DOMAIN up.rows
       /\ up.slice # NoSlice => up.slice \subseteq DOMAIN up.rows

\* What the user has meant for k, by what dotenv makes of the lines they wrote.
Meant(k) ==
  {ReadLine(<<l, l>>, 2) : l \in {w \in written : w.form \in OneLine /\ w.key = k}}
  \cup {l.val : l \in {w \in written : w.form = "open" /\ w.key = k}}

\* What somebody reads for k in .env, in the text of .env.up or in its entries.
Readings(k) ==
  LET At(e) == IF k \in DOMAIN e THEN {e[k]} ELSE {}
  IN (IF env # NoFile THEN At(parseEnvFile(env)) ELSE {})
     \cup (IF up # NoFile THEN At(up.entries) \cup At(parseEnvFile(Opened)) ELSE {})

SeveralLines(k) == \E v \in Meant(k) : HasLineBreak(Expand(v))

\* The halves of two values with several lines may hold what is between them.
Torn == \E j, k \in Key : j # k /\ SeveralLines(j) /\ SeveralLines(k)

\* Conversions are known to change a value with a # or a backslash n in it and to
\* tear one that has several lines.
Fragile(k) ==
  SeveralLines(k) \/ Torn \/ \E v \in Meant(k) : v.kind = "hash"

\* Whatever is read for a key after an import, an unlock by up, a lock, a share or
\* a re-encryption was read before it or written by the user, unless values with
\* several lines are about or there is only the text rebuilt from the entries.
OnlyMergesChange ==
  [][\/ Torn' \/ (up' # NoFile /\ up'.raw = NoText)
     \/ \A k \in Key : \/ SeveralLines(k)'
                       \/ Readings(k)' \subseteq Meant(k)'
                       \/ Readings(k)' \subseteq Readings(k) \cup Meant(k)'
     \/ ExtUnlock \/ SafeEditSave \/ PageSave]_vars

\* up run and unlock give a key that is not fragile the same value, and unlock
\* gives none to a key that run has none for.
RunReadsAsUnlocked ==
  up # NoFile =>
    LET opened == parseEnvFile(Opened)
    IN \A k \in DOMAIN opened :
         Fragile(k) \/ (k \in DOMAIN up.entries /\ opened[k] = up.entries[k])

\* What was imported is what an unlock writes, unless the key is fragile or the
\* line that assigns it has no equals sign.
ImportReadsBack ==
  [][Import => \A k \in DOMAIN parseEnvFile(env) :
                 \/ Fragile(k)
                 \/ \E l \in written : l.form = "colon" /\ l.key = k
                 \/ /\ k \in DOMAIN parseEnvFile(Opened')
                    /\ parseEnvFile(Opened')[k] = parseEnvFile(env)[k]]_vars

\* docs/FORMAT_SPEC.md:124, the version is raised with each change of a value: so it is
\* by everything but the extension's unlock.
VersionTellsChange ==
  [][(up # NoFile /\ up' # NoFile) =>
       \/ \A k \in DOMAIN up.entries \cap DOMAIN up'.entries :
            up.entries[k] # up'.entries[k] => up'.rows[k] > up.rows[k]
       \/ ExtUnlock]_vars

\* docs/FORMAT_SPEC.md:13, values are encrypted: none of them is in the header.
ValuesAreSealed ==
  up # NoFile => \A k \in Key : up.clear \cap Meant(k) = {}

=============================================================================
