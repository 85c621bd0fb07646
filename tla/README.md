# A verification of dotenvup

dotenvup keeps a project's secrets in `.env.up`, a file that is encrypted to the
public keys of the people who may read it and is committed with the code, and
gives them back as a plaintext `.env` while somebody works.  Two things must
never happen by accident: the last copy of a private key that some `.env.up`
needs is destroyed, and the last copy of a `.env` is destroyed.  Around these
two the project is organised.

The modules are TLA+; TLC checks small instances of them and the TLA+ proof
system proves every safety and step property that a run checks, for every size.  Line numbers are those of the
sources at the commit the project was written for; `PROJECT.json` gives the
source lines of each definition.

## The system

| Part | State it keeps | Operations | Talks to |
| --- | --- | --- | --- |
| Identity store (`format/identityEnvelope.ts`, `keyStore.ts`, `providers/fileProvider.ts`; `cli/commands/init`, `keyImport`, `keyUpgrade`, `keyMigrateToKeychain`; the extension's `keystore.ts`, `init`, `keyImport`, `recoverKeyMismatch`) | `~/.dotenvup`: `identity.enc`, `identity.pub`, `wrapping-key`, the legacy plaintext `identity`, `identity.bak-*`, `archive/`, `recovery/`; the Keychain items; the extension's SecretStorage | init, import, upgrade, migrate to the Keychain, the extension's init, import, recovery and legacy migration; load | Keychain helper, session agent |
| Env files (`cli/commands/lock`, `unlock`, `import`; the extension's `lock`, `unlock`, `import`, `safeEditFSProvider.ts`, `extension.ts`, `mergeEnv.ts`; `format/safeDelete.ts`) | `.env`, `.env.up`, the editor's unsaved text, auto-lock children and timers | lock, unlock, import, Safe Edit, auto-lock, closing the editor | identity store, editors, agents, git |
| Several env files (the extension's `importAll` in `extension.ts`, `statusBar.ts`, `encryptAllEnvFiles` and `lock` for any file) | every `.env*` of a directory with its encrypted file and its backups | Import All, the one-click protect, Lock | env files, editors |
| Session agent (`format/sessionAgent.ts`, `sessionAgentMain.ts`) | a daemon with the private key in memory, its socket and cookie, two deadlines | start, put, get, touch, stop, expiry, presence watcher | every command that loads a Keychain identity |
| Policy and team file (`format/policy.ts`, `recipientOps.ts`, `recipientsConfig.ts`, `mergeReencrypt.ts`, `cli/commands/import`, `reencrypt`, `recipients`; the extension's `envUpWrite.ts`, `reencryptEnvUp.ts`, `unlock.ts`) | the recipient blocks of `.env.up`, its catalogue of names, the policy, the recipients configuration | add, remove, re-encrypt, merge one recipient's edit | env files, git |
| Key search (`format/keySearch.ts`; `cli/commands/recover`, `recipients discover`; the extension's `recoverKeyMismatch`) | a walk with two limits; the choice that waits in a dialog | look for the key a `.env.up` wants, import it | identity store |
| Texts (`format/envParser.ts`, `policy.ts`, `mergeReencrypt.ts`, `index.ts`; the extension's `mergeEnv.ts`, `receiveShare.ts`, the two Safe Edits) | none: the text of `.env`, the entries and `_raw` of `.env.up` | parse, filter, merge, print | all writers of env files |
| Cryptography, recovery bundles, sealed shares, SSH keys | none | pure functions | everything above |
| Keychain helper, Node loader, MCP server, editor UI, site worker, secret generator | none that matters here | queries and presentation | |

There is no server and no lock file: every command is a process of its own that
reads and writes the same few files, the extension is a single-threaded host
whose commands interleave at each `await` of a prompt, and two background actors
(the auto-lock children of the CLI and the session agent) outlive the command
that made them.  What is hard, therefore:

* **crashes between writes.**  Each file is replaced atomically, a set of files
  never is.  A command that dies between two writes leaves a directory no
  command would write on purpose, and the next command must cope with it;
* **partial failure of the Keychain.**  A prompt can be cancelled, the item can be
  gone, the helper can be missing, and each is handled on a path of its own;
* **answers that come late.**  A question is open for minutes; agents, editors,
  `git pull`, timers and other commands go on writing the files it is about;
* **actors that nobody waits for**: timers, detached children, the closing editor.

What makes each part correct:

* *identity store*: no relied-upon key is lost whatever write a command dies at;
  an upgrade that is repeated converges; an upgrade or migration never changes
  which key the directory opens to; a migration takes the wrapping key off the disk
  only when all the rest has gone well; a public key is never paired with another private key.
* *env files*: a content of `.env` only goes when `.env.up` has it or somebody
  agreed to drop it.
* *session agent*: no key is held past its deadlines or served after a stop, and a
  daemon that holds one can be reached.
* *policy and team file*: nothing is written for anybody who is not configured;
  nobody's block is given more than the policy grants; an edit of one person does not
  take anything from another's block; whoever is configured keeps access.
* *several env files*: a file that one command imports and another deletes is not
  lost between them, and nothing is deleted whose encrypted file has not been found to open.
* *key search*: it finds a key that matches whenever one is in reach, spends its
  limits on the upper directories, and says "none" and "resolved" only when it is so.
* *texts*: `up run` and `up unlock` give a value alike, what was imported is what
  is unlocked, and only the steps that merge two texts make anything new of a value.

`PROJECT.json` lists every hazard found, at its line, with the property about it
or the reason why there is none.

## Modules

| Module | Contents |
| --- | --- |
| `IdentityStore` | the identity directory and the commands that rewrite it |
| `MCIdentityStore`, `IdentityStore_*.cfg` | its small instances |
| `IdentityStoreProofs` | types, `UpgradeKeepsCopy`, failed and repeated upgrades and migrations, pairs of keys |
| `IdentityKeyProofs` | no relied-upon key is lost |
| `EnvFiles` | `.env` and `.env.up` under all who write them |
| `MCEnvFiles`, `EnvFiles_*.cfg` | its small instances |
| `EnvFilesProofs` | types, what may be lost and when |
| `EnvSet` | all plaintext env files of a directory under the commands for several of them |
| `MCEnvSet`, `EnvSet_all.cfg` | its small instance |
| `EnvSetProofs` | all its properties |
| `EnvText` | what the conversions between `.env`, entries and `.env.up` make of a value |
| `MCEnvText`, `EnvText_*.cfg` | its small instances |
| `EnvTextProofs` | lemmas on numbers, flattened sequences and each conversion; types and all its properties |
| `SessionAgent` | the daemons that keep a key in memory, and their clients; implements `SessionCell` |
| `MCSessionAgent`, `SessionAgent_*.cfg` | its small instances |
| `SessionCell` | what a session promises: one cell with a key and two deadlines |
| `SessionAgentProofs` | expiry, that a stop holds, that a held key can be reached, the refinement |
| `TeamFile` | the blocks, the policy and the recipients of a shared `.env.up` |
| `MCTeamFile`, `TeamFile_*.cfg` | its small instances |
| `TeamFileProofs` | types and all its properties |
| `KeySearch` | the bounded breadth-first search, its answers and the recovery dialog |
| `MCKeySearch`, `KeySearch_search.cfg` | its small instance |
| `KeySearchProofs` | types and all its properties |

The modules share no variables: each takes from the others what it needs as a
constant or a choice (whether the key is there, whether `.env.up` opens, whether a file
has been changed meanwhile).  `EnvSet` is `EnvFiles` for several files with less detail
of each, `EnvText` looks at the text inside the writes of `EnvFiles`, `TeamFile`
at the blocks around it.

### IdentityStore

**State.**  One variable per file or item.  A key stands for a keypair; a wrapping
key is the number of the save that drew it, so an envelope (`enc`) opens exactly if
the wrapping key at hand has its number.  `cmd` is the running command with the
write it does next, and with `missed`, that `archiveIdentity` has swallowed the failure of a
copy.  Histories: `relied`, the keys with which some command has worked and which the user has
not agreed to replace since; `unarchived`, the keys that `up init --force` overwrote after such
a failure.  `Protected`, the first without the second, are the keys that must not be lost.

**Actions.**  Each durable write (`writeAtomic`, `unlink`, Keychain call) is an
action, so `Abort` (the process dies, or the write fails and the command stops) may
fall between any two.  Reads and the checks before the first write are the `Start*`
action of the command.  `archiveIdentity` copies one file per step; a copy that fails
(`nocopy`) leaves the older archive or a torn one (`Torn`), is ignored by `up init` and ends a
Keychain migration with an error after the envelope has moved.  So does an unlink that fails
(`nounlink`), which a save ignores.  `Keypairs(ans)` is what `FileProvider.getKeypair` returns
when the Keychain prompt is answered `ans`, `Throws` when it throws instead,
`StorageMode` what `getKeyStorageMode` says.  The faults of the world outside are
`WipeKeychain`, `LoseHelper` and `CorruptEnvelope`; the session agent is reduced
to "it may hold the key, and may lose it at any time".

**Left out.**  Two commands that rewrite the identity at once (they are
interactive commands of one user; `Rely`, which any command may do between two
others, is there).  `writeAtomic` itself (a temporary file and a rename) is taken as atomic, as
`rename` is.  That a recovery bundle opens with its code, and an envelope with
its wrapping key, is cryptography.

### EnvFiles

**State.**  A content is the number of the edit that made it, 0 is no file.
`up` is the content of `.env.up` and whom it opens for; `buf` the unsaved text of an editor
on `.env`; `cmd[p]` the command of terminal or extension slot `p` that waits for an
answer, with what it has read and will write; `kids` the detached children of
`up unlock --duration`; `timer`, `armed`, `firing`, `opened` the extension's
`autoLockTimer`, the timeouts actually running, those whose callback is loading the
key, and `unlockedRoots`.  Histories: `kept` (what `.env.up` has ever held),
`given` (what has been dropped before), `lost` (the kinds of step that dropped something).

**Actions.**  A command is cut where it waits for a person: at a question, in the extension's
Lock also at the prompts for the key inside its import (`ExtLockWrite`, `ExtLockVerify`) and at
what the editor asks when `closeEnvTab` closes an unsaved tab (`ExtLockClose`).  All it does
between two waits is one action.  That is exact for the extension up to its internal `await`s
of local file operations, and leaves out that two CLI processes interleave within
the milliseconds between a check and the write after it.  `Pull` is a teammate's `.env.up` arriving;
`Cancel` every "no", Escape and Ctrl-C; `CloseEditor` is `deactivate`, which
may lock any part of the directories unlocked before the host ends it.

**What counts as lost.**  Dropping a content that `.env.up` never held, that nobody
agreed to drop, and that was not dropped before.  What `.env.up` has held once
counts as safe even if it is overwritten later: it is in version control and in
the hands of the team.  An unlock with an `.env` present merges by key; the model
has only the side the user chose, since keys the chosen side lacks are kept by the merge
and conflicting ones are what the question is about.

**Habits.**  The code cannot protect against everything, and five things it does not
protect against are named by the constant `Habit`: saving `.env` while a command
that will not look at it again waits for an answer (`editAsked`), typing in
the editor while a Lock of the extension is open (`typeLocking`), putting `.env` back under
it as it was read first (`undoLocking`), the auto-lock of the CLI (`cliAutoLock`) and
answering *Remove .env* after a Safe Edit (`removeEdited`).  `LossNeedsHabit` says
which kind of step can lose something only thanks to which habits (`Excuse`), and that
`up lock`, the extension's auto-lock and the closing editor never lose anything, whatever
the habits are.  Each excuse is needed: with that habit alone TLC finds the loss.

**Left out.**  Recipients and policy inside `.env.up` (they are in `TeamFile`), other
`.env.*` files (`EnvSet`), display.  Two timeouts of the same directory count as one.

### EnvSet

**State.**  For each file of the directory `plain` (its content; `Blank` has no entries),
`buf` (unsaved text), `up` (its encrypted file, `Foreign` if it does not open) and `bak`
(backups and what version control has).  `flow[p]` is an open command: where it waits, the
files still to do and done, the file in hand (`cur`), the one its second import takes (`src`),
what it has read of both.  Histories: `latest` (what the owner of a file saved last), `late`
(files of which a command had one content in hand while another was saved, or was taken from the
editor by a lock), `crossed` (two commands had `.env` in hand at once, or it was saved where the
lock that is to delete it does not see it).

**Actions.**  A step ends where a question, a picker, a prompt for the key or the dialog of a
closing tab is open.  `Import*` is one turn of the loop of Import All or `encryptAllEnvFiles`,
before and after each of the two times it loads the key; `AskLock` and `AnswerLock` are the
question after it.  The rest is Lock of one file: the look at it (`LockRead`), the answers
(`Confirm`, `LockTake`), the import Lock runs once more (`LockSource`, `LockWrite`,
`LockVerify`), the tab (`LockClose`) and the unlink at the end of either of the last two.
That import names no source, so it takes `.env` whatever file is being locked (lock.ts:271).
Without `.env` a picker opens.

**Left out.**  Entries: an import is taken to bring over the whole content.  Templates and
other names `listPlaintextEnvFiles` does not list.

### EnvText

**State.**  The text of `.env`, and of `.env.up` the entries and `_raw` of the block of its one
recipient, the versions and the comments in its header, the slice its policy gives.  A text is a sequence of
lines, a line a form (`K=v`, `K: v`, single or double quotes, over two lines, comment), a key and
a value; a value is the feature that some conversion trips over, or what such a
conversion has made of it (`cut`, `expanded`, `head`, `splice`).  `written` has the lines the
user has ever typed: `Meant` is what dotenv makes of these.

**Actions.**  One per command, each with the conversions it is made of: `parseEnvFile`,
`filterRawForKeys`, `mergeEnvContent`, `formatEnv`, `mergeEnv` of a received share,
the page of the custom editor (`Page`), `create` and `mergeReencrypt`.

**Left out.**  Comments users type, of which `filterRawForKeys` keeps none; a value whose
second line looks like an assignment; blank lines, the order of keys, `export` and a BOM; more
than one recipient (`TeamFile` has them, with values not told apart by form).  A comment or a second line
that looks like an assignment gives `mergeEnv` and the filter, which go line by line, more to get wrong.

### SessionAgent

**State.**  `sock` and `cookie` say which daemon bound the socket path and whose
token is in the cookie file; either may be gone by then.  Each daemon has a stage
(`spawned`, `unlinked`, `written`, `up`, `stopping`, `closing`, `off`), a flag
whether it holds a key, the times since put and last use, and what is left of its two
timers.  Each client has the step it is at and the cookie it has read.  Histories:
`stopped` ("Session stopped." was said and nothing put since) and `raced`.

**Actions.**  Each access of a client or of a starting or ending daemon to one of the
files is an action, and so is each request; Node handles a request in one
turn, so the daemon's part of it is not cut.  `Get`, `Ping` and `Stop` may
also be answered too late for the client's 1.5 seconds.  `Leave` is a client that
gives up or is killed at any step, `AgentDies` a daemon that is, and
`AgentShutsDown` a stop, a signal, or the screen lock its watcher reports.

`raced` turns true when two clients are inside `ensureSessionAgent` and the put after it
at the same time, when one enters while a daemon is starting or ending, when a daemon
starts to end while one is inside, or when a ping is answered too late.  `HeldIsReachable` says that
nothing else makes a daemon with a key unreachable.

**One cell.**  `SessionCell` is a session as its user sees it: a cell that a put fills, a use
keeps from going idle, a deadline or an accident empties, and that stays empty after "Session
stopped.".  `ActsAsOneCell` says that all daemons together are that cell (`Cell ==
INSTANCE SessionCell WITH full <- AnyHeld, ...`): every step is a step of the cell or leaves it
alone, up to the first race.  After a race there can be two cells, and none of it holds.

**Left out.**  Which key is held: a served key of another Key-Id is the second
alternative of `Get`.  A request between `connect` and its first byte.  A machine that sleeps: timers are taken to
follow the clock.  `DOTENVUP_NO_SESSION`, and the status request, which changes nothing.

### TeamFile

**State.**  A person stands for a keypair, and an id (`@local` or a label) for the name
of a block.  `file` has for every id the block (whom it is sealed to, its entries, the
names of the lines of its `_raw` text) and the policy row, and besides the catalogue of
`[keys]`, `Encrypted-For` and `Encrypted-By`.  A block sealed to nobody is no block,
a row without keys no row, a file without blocks no file.  `Valid` is `validatePolicy`,
`Verifies(f, p)` what `up verify` says when `p` runs it.  `config` is
`.dotenvup.recipients.json`, `removing` a removal that has written the configuration and
not yet `.env.up`.  The history `thinned` turns true when somebody leaves a line out of an
import without a policy.

**Actions.**  One command is one action, from reading `.env.up` to the rename, with every
check between: `Import` is the whole of `decryptAny`, `mergePolicyAware`, `validatePolicy`,
`canSyncAllPolicyBlocks`, `reencryptAll` or the write of one block, and the
verification of `writeEnvUpAtomic`.  A command that is refused is an action that cannot be
taken.  `up recipients remove` is two actions, since its two writes can be
torn apart.  `ConfigTorn` is a crash in `writeRecipientsConfig`, which writes in place;
`EditPolicy` a person who edits `[policy]`, the only way to get one.
`Resolved(p)` is the map of public keys on `p`'s machine: `@local` is `p`,
whoever that is, and where several configured keys have one label any of them may win.

**Left out.**  Two members who work on different commits (git's merge of two `.env.up`
is a text merge nothing in the code looks at), versions and dates of keys, the header's
Key-Id, the version of the policy.  A label `@local`, which the assumption on `Label`
excludes.  Values in `_raw` that differ from the entries: both come from one text.

### KeySearch

**State.**  `tree` and `holds` are the directories and what their files hold; `queue`, `cur`, `todo`,
`scanned`, `truncated`, `results` are the variables of `searchLocalKeys`; `at` says where the
command or dialog is, `told` what `up recover` has printed, `own` is the key in the identity
directory.  `seen` is a history: the files looked at, with the root they were reached from.

**Actions.**  `ReadDir` takes a directory from the queue, `EnterDir` and `LookAt` are one turn of
the loop over its entries, in any order.  `Answer` prints, the dialog's steps are
the answers to its questions; `Store` reads the picked file again, replaces the identity
and compares afterwards.  `Rewrite` changes files while the dialog waits for a choice.

`InReach` is the reference definition the search is compared with: the regular files at the end of a chain of
readable directories no longer than the depth, as a property of the tree and not of a walk.

**Left out.**  Passphrases (a wrong one is the failing alternative of `Pick`), files rewritten while a
scan is running, how a Key-Id is computed.

## What the runs show

### identity store

| Run | Question | Instance |
| --- | --- | --- |
| `keys` | can crashes and refused prompts lose a key? (`TypeOK`, `KeyInvariant`, `KeyRecoverable`) | three own keys and one foreign, three saves, two faults (crashes, failed copies and unlinks), all commands but mismatch recovery; 4.3 million states |
| `faults` | what survives a wiped Keychain, a lost helper, a corrupted envelope? (`UpgradeKeepsCopy`, `PairConsistent`, `MigrationKeepsWrapKey`) | two own keys and one foreign, every command, answer and fault, one fault; 2.9 million states |
| `converge` | does a repeated upgrade finish, and does an upgrade or migration ever change the key? (`UpgradeConverges`, `UsableKeyStable`) | two keys, four saves, two faults; 2,237 states |

*Bounds.*  A key is lost by one command overwriting what another left, so the
longest interesting history is: a command makes a key, the next is cut short, a
third starts on what is left, a fourth is cut short again.  Two faults and three saves
allow that; three own keys allow a used key, a torn one and a new one; the foreign
key is the one imported over another.  More faults are covered by the proof.
`faults` allows one fault because two do break `PairConsistent`: when a save is cut
short before it drops an old plaintext identity and the new envelope is then
corrupted, the fallback pairs the old private key with the new public one, since
nothing compares the two files.

*Fairness.*  `FairSpec` has weak fairness of `CommandStep`, since a process that has started goes
on by itself, and of `StartUpgrade`, for a user who runs
`up key upgrade` again as long as it has something to do; without the latter
nothing needs to converge.  Answers are not fair: a prompt may be refused as
often as one likes (`Answer` includes errors), and it still converges because the upgrade
never prompts for a plaintext identity.

### env files

| Run | Question | Instance |
| --- | --- | --- |
| `files` | what can be lost if nobody edits under a command? (`TypeOK`, `LossNeedsHabit`, `LossInvariant`) | one directory, one terminal, one extension command, three contents, one child; 4.9 million states |
| `autolock` | violated: the CLI's auto-lock child removes `.env` with no usable `.env.up` there | CLI only |
| `all` | what do commands for several files lose? (`TypeOK`, `LossNeedsLateSave`, `DotNeedsCrossing`, `DeletedOpened`) | `.env` and another file, two commands, two contents; 6.1 million states up to symmetry |

*Bounds.*  Losing something takes an old content, one written meanwhile and at most
one in `.env.up`: three contents.  Directories share only the timer variable, so
one is enough for losses (the proof covers any number).  `files` leaves out the habits of
editing under a command, with which nearly every step may lose something; all five habits were
run with two contents, `editAsked` with three, and no habit at all, with the same answer.  In `all`, a loss takes a content in a command's hand
and one saved over it; what sets the second file apart from `.env` is that its lock
imports `.env`, and any further file is like the second.  No liveness is claimed: a
question may stay open forever.

### session agent

| Run | Question | Instance |
| --- | --- | --- |
| `session` | do keys expire, does a stop hold, can a held key be reached, is it all one cell? (`KeyExpires`, `StopHolds`, `HeldIsReachable`, `ReachInvariant`, `ActsAsOneCell`) | two clients, three daemons, idle time 1 and absolute time 2; 1.8 million states |

*Bounds.*  Two clients and the two daemons they start are what a race needs, the third daemon is one
left behind before.  An absolute time of 2 with an idle time of 1 lets a
use move the idle end while the absolute end stays.  Daemon slots are used again once
nothing refers to them, so histories are not bounded.  An idle time of 2 and an absolute of 3
gave the same answer (3.6 million states).

### team file

| Run | Question | Instance |
| --- | --- | --- |
| `team` | who is given blocks and what is in them (`WritesOnlyForConfigured`, `WritesInsidePolicy`, `WrittenPassesVerify`), what commands do to the blocks of others (`NoAccidentalWipe`, `OthersUntouched`, `ConfiguredKeepAccess`), do entries and text agree (`RunAndUnlockAgree`)? | two persons, two labels, two names, two values; 112 thousand states up to symmetry |
| `recipients` | violated: the extension's unlock drops policy and teammates | one value |

*Bounds.*  A wipe takes one who acts and one who loses; a label clash takes two persons
and a label; a slice smaller than the catalogue takes two names, and a lost update two values.
Policies written by hand give the owner every key and one other person any of them
(`OwnerAndOne`), with `Encrypted-For` seen to or not; authors call themselves
`@local`.  Three persons are beyond the time a run has; the proofs cover any number, any policy and any nickname.
No liveness is claimed: nobody has to run anything.

### key search

| Run | Question | Instance |
| --- | --- | --- |
| `search` | is everything in reach found, are the upper levels seen first, is the count exact, are the answers true? (`FindsAll`, `ShallowFirst`, `BudgetExact`, `VerdictTrue`, `ResolvedOpens`) | every nesting of three directories and three files, two keys, one rewritten file; 4.5 million states |

*Bounds.*  Three directories give two roots, one maybe below the other, with a third below
both; depths 1 and 2 end above and below it.  Limits of one, two and three files are
reached before, in and after the last directory.  One rewritten file is what the dialog can miss.

### texts

| Run | Question | Instance |
| --- | --- | --- |
| `text` | who reads which value, and which steps change it? (`RunReadsAsUnlocked`, `OnlyMergesChange`, `ImportReadsBack`, `VersionTellsChange`, `TypeOK`) | two keys whose values have seven forms between them, two values typed in all, versions up to 2; 197 thousand states |
| `header` | violated: the clear header shows values | values of one form |

*Bounds.*  A conversion goes line by line or key by key, so two keys are what it takes to tear a
value and to put it together with another; two values typed are an old and a new
one.  Versions go up one at a time.  All eight forms of one key against two of the other gave
the same answer (421 thousand states), and so did a plain and an escaped line break.

The exceptions in these properties are what the conversions do get wrong: a value
over several lines survives no import into an existing `.env.up` (the filter keeps its first
line, whose open quote may end in another value); a text rebuilt from entries leaves a
`#` unquoted and quotes a backslash; a line `K: v` counts as an entry and is not in the text;
unlock in the extension sets versions back to one.

## What is proved

| Theorem | Statement | Assumes |
| --- | --- | --- |
| `IdentityStoreProofs!TypeCorrect` | `Spec => []TypeOK` | nothing but the named assumptions on constants |
| `IdentityStoreProofs!UpgradeAlwaysKeepsCopy` | `Spec => []UpgradeKeepsCopy` | the same; every command, answer and fault is included |
| `IdentityStoreProofs!MigrationsKeepWrapKey` | `Spec => []MigrationKeepsWrapKey` | the same |
| `IdentityStoreProofs!UsableKeySurvives` | `Spec => UsableKeyStable` | `CrashesAndHelper` |
| `IdentityStoreProofs!PairsBelongTogether` | `Spec => []PairConsistent` | `MaxFault <= 1`, of any kind |
| `IdentityKeyProofs!KeyInvariantHolds` | `Spec => []KeyInvariant` | `OnlyCrashes` |
| `IdentityKeyProofs!KeysAreNeverLost` | `Spec => []KeyRecoverable` | `OnlyCrashes` |
| `EnvFilesProofs!TypeCorrect` | `Spec => []TypeOK` | nothing more |
| `EnvFilesProofs!LossInvariantHolds` | `Spec => []LossInvariant` | nothing more |
| `EnvFilesProofs!LossesNeedHabits` | `Spec => []LossNeedsHabit` | nothing more |
| `EnvFilesProofs!NothingIsLost` | `Spec => []NothingLost` | `Habit = {}` |
| `EnvSetProofs!TypeCorrect` | `Spec => []TypeOK` | nothing more |
| `EnvSetProofs!LossNeedsLateSaveHolds` | `Spec => []LossNeedsLateSave` | nothing more |
| `EnvSetProofs!DotNeedsCrossingHolds` | `Spec => []DotNeedsCrossing` | nothing more |
| `EnvSetProofs!DeletedOpenedHolds` | `Spec => DeletedOpened` | nothing more |
| `EnvTextProofs!SoundAlways` | `Spec => []Sound`, the inductive invariant | nothing more |
| `EnvTextProofs!TypeCorrect` | `Spec => []TypeOK` | nothing more |
| `EnvTextProofs!RunReadsHolds` | `Spec => []RunReadsAsUnlocked` | nothing more |
| `EnvTextProofs!ImportsReadBack` | `Spec => ImportReadsBack` | nothing more |
| `EnvTextProofs!OnlyMergesDoChange` | `Spec => OnlyMergesChange` | nothing more |
| `EnvTextProofs!VersionsTellChange` | `Spec => VersionTellsChange` | nothing more |
| `SessionAgentProofs!KeysExpire` | `Spec => []KeyExpires` | nothing more |
| `SessionAgentProofs!StopsHold` | `Spec => []StopHolds` | nothing more |
| `SessionAgentProofs!ReachInvariantHolds` | `Spec => []ReachInvariant` | nothing more |
| `SessionAgentProofs!HeldKeysAreReachable` | `Spec => []HeldIsReachable` | nothing more |
| `SessionAgentProofs!UnracedStopWipes` | `Spec => [](~raced => StopWipes)` | nothing more |
| `SessionAgentProofs!SessionIsOneCell` | `Spec => ActsAsOneCell` (refinement) | nothing more |
| `TeamFileProofs!OnlyForConfigured` | `Spec => WritesOnlyForConfigured` | nothing more |
| `TeamFileProofs!InsideThePolicy` | `Spec => WritesInsidePolicy` | nothing more |
| `TeamFileProofs!WrittenFilesPassVerify` | `Spec => WrittenPassesVerify` | nothing more |
| `TeamFileProofs!NoWipe` | `Spec => NoAccidentalWipe` | nothing more |
| `TeamFileProofs!OthersAreUntouched` | `Spec => OthersUntouched` | nothing more |
| `TeamFileProofs!ConfiguredKeepTheirAccess` | `Spec => ConfiguredKeepAccess` | nothing more |
| `TeamFileProofs!RunAndUnlockDoAgree` | `Spec => []RunAndUnlockAgree` | nothing more |
| `KeySearchProofs!EverythingFound` | `Spec => []FindsAll` | nothing more |
| `KeySearchProofs!UpperLevelsFirst` | `Spec => []ShallowFirst` | nothing more |
| `KeySearchProofs!BudgetIsExact` | `Spec => []BudgetExact` | nothing more |
| `KeySearchProofs!VerdictsHold` | `Spec => []VerdictTrue` | nothing more |
| `KeySearchProofs!ResolvedIsRight` | `Spec => []ResolvedOpens` | nothing more |

"Nothing more" means: any number of clients, daemons, commands, files and
persons, any tree and any limits, any keys and ways to write their values, under the named
assumptions on constants alone.

**No key is lost.**  `KeyRecoverable` is not inductive: it says nothing of the state
between the writes of a save, where the envelope is torn.  `KeyInvariant` adds why
that is harmless.  `Keeping`: a protected key is either recoverable without the
envelope, or the envelope, `identity.pub` and wrapping key belong together
(`Intact`) and it is theirs; an envelope on the Keychain is always intact.
`Progress`: what the next write of the running command may count on.  The central
conjunct is that a command that is about to draw a new wrapping key, and so to make
the old envelope useless, only gets there when every protected key is kept
outside envelope and plaintext file: by the archive (`init --force`, unless a copy was missed,
and then the key is `unarchived` from the write on), by the
user's consent (imports and the extension's Init remove the key from `relied`), or
by the backup (upgrade).  `UsedKeys`: fresh keys are fresh.

`OnlyCrashes` excludes what does lose keys or is not promised: faults other than
crashes, refused prompts and failed writes, copies and unlinks; the extension's mismatch recovery, which replaces the
identity without asking or archiving; and `up init --force` in a directory that
still has a plaintext identity.  The last does spoil archives: `archiveIdentity` copies
whatever files are there over `archive/<keyId>`, so of two such runs that are both cut short the second
archives a new wrapping key next to an old envelope over the good copy the first one made.

**Upgrades and migrations.**  `Migration` ties the step of a migration to the wrapping key it
carries and to the source the envelope names.  With it the wrapping-key file stays what the
envelope needs until it has been archived and is removed, the last write of a migration
(`MigrationKeepsWrapKey`, with any faults at any time).  That is all a migration that reports an
error promises: the rollback puts the file envelope back when the Keychain cannot be read, but a
prompt refused at the load after that, or a wrapping-key file that cannot be copied or removed,
ends it with the envelope in the Keychain.
`UsableKeySurvives` adds `Steady`: while a migration runs the envelope opens with the file or
with what it has just read back from the Keychain (`SteadyMigration`), and an upgrade
drops the plaintext only after it has seen the new envelope open (`UpgradeVerified`).
`CrashesAndHelper` leaves out a Keychain wiped and an envelope corrupted by somebody else *while*
the command runs: after either no order of writes could keep the key usable, and TLC shows it in a few
steps.  Crashes, failed writes and a helper that goes away are all in, in any number.

**Pairs of keys.**  `PairConsistent` does not hold after two faults (see the bounds of
`faults`), so `MaxFault <= 1` is needed and not a shortcut.  `Pairing` says why one is harmless:
the plaintext file and `identity.pub` agree, or the fault was spent on the save in
progress, or the envelope opens and the plaintext is not looked at.

**No content is lost.**  `LossInvariant` says what a command that waits for an
answer may find in `.env` when it goes on: what it has read, nothing, or something
already safe (`Pending`, if nobody edits under a command), and what it has asked
for (`Answered`).  A Lock that will look again at `.env` may only find there what it has read if that is
safe or about to be (`Unchanged`, if nobody puts it back), and what a Lock finds in the editor
is what it took (`CleanLock`, if nobody types under it).  `UpKept` and `KidsAsked` tie `.env.up` and the
children to `kept` and `Habit`.

**A held key can be reached.**  `Timed` ties the timers to the ages they stand for
and a key to a daemon that serves, which is all `KeyExpires` and `StopHolds` need.
For `HeldIsReachable` the rest of `ReachInvariant` describes a history without a
race: one client at a time makes sure of a daemon (`OneEnsures`), one daemon lives
(`OneLives`), the files lead to it (`FilesAgree`), and whoever removes the files does so
with no daemon alive (`EnsureAlone`): a ping that fails means that there is none,
because one that is up would own the socket and the very cookie the client read.

`SessionIsOneCell` needs the same invariant and no other: as long as one daemon lives, the
key it holds is the only one, so the `CHOOSE` of the refinement mapping picks it before and after each step,
and the ages of `Timed` are those of the cell.

**Several files.**  `SetInv` has for each command what it must have in hand where it waits
(`Shaped`), for each file that what is there is what its owner saved last (`Numbered`), and for a file nobody
saved late (`Calm`) that its latest content is in the file or encrypted, and that a command that
will delete it has made sure of the second.  For `.env` the second import brings this about by itself
unless another command has the file in hand or it is saved unseen (`Alone`), which is `DotNeedsCrossing`.

**Everything in reach is found.**  One inductive invariant says where the walk is: what is in the queue is reached by a chain of its
depth (`QueueReached`); the depths in the queue never go down and span at most two levels
(`InOrder`); and whatever is in reach above the current level has been seen, is still to be looked at, or
lies below a directory that waits (`NothingMissed`).  With an empty queue the last is
`FindsAll`, at a truncation it is `ShallowFirst`.

**The count is exact.**  `BudgetExact` compares a counter with the size of a set, so no file may be counted
twice from one root.  `OnceInv` says that a directory is queued once below each root, when the
directory above it has been read, and that a file that was seen cannot come up again.  It needs
two facts of the code's world, `ForestAssumption` (directories have levels, since links are not
followed) and `RootsAssumption` (`normalizeRoots` drops a root given twice); with
levels no induction on paths is needed.

**Texts.**  `RunReadsAsUnlocked` and the rest are about what is read back after any number of
conversions.  `Sound` says what lines a text can consist of, given the lines `w` the user has written
(`Text`): a line with a colon is one of the user's own; a line that assigns a key has a value that
conversions can make of what the user meant for it (`Fits`: cut values only where a
`#` was written, heads, tails and expansions only where the key has had several lines); a key is assigned
twice only if the first time with a colon; the second line of a value stands behind the first or behind
another line of a key that had several.  The same goes for the entries, and the text of `.env.up`
agrees with them on every key that is not fragile (`Agrees`).  Each conversion has a lemma that it makes such texts
of such texts (`FilterText`, `RebuiltText`, `PageText`, `MergedContentText`, `MergeEnvText`) and one on what
is read from the result (`FilterReads`, `FilterKeeps`, `InOrderReads`, `MergeEnvReads`, `ParseIs`).  Since all of
them are about `w`, what the user writes later only makes them weaker (`Growing`).
The library proves nothing of folds over sequences; what `FlattenSeq` returns is shown with offsets (`Flatten`:
where each part begins), and the one induction it takes is over a set of numbers, by its least
element (`Least`, `Upwards`).

The proof found one thing the instance with two keys could not show.  With three keys, two torn values can hide a
line of the third from the parser, and a filter that drops one of them shows it again: a value
changes at an import.  So `OnlyMergesChange` and `Fragile` except states where two keys have had
values with several lines (`Torn`).

**Nobody's block is spoilt.**  The types are all that is needed as an invariant; the rest
is about single steps.  `Writes` says that every command that seals blocks ends in one of
three files: `Created` (for everybody known, without a policy), `Rewritten` (every row
anew, when `canSyncAllPolicyBlocks` says so) or `Edited` (the editor's block alone).  In the
second, rows are inside the catalogue because `validatePolicy` says so, and the catalogue
inside what the writer holds because `holdsFullCatalog` does: so no slice misses a
granted key.  `ConfiguredKeepAccess` needs the exceptions it names: a block goes to
whom its id stands for on the writer's machine, so somebody who opens it can only be shut out if that
id stands for somebody else there, and `Clash` follows.  For `WrittenPassesVerify` a rewritten file
is inside its rows block by block, since `encrypt` cuts each to its row, and of an edited file the editor's
block is; any other that fails V3 is the one that was there before, under the same row.

### Only model-checked

Liveness (`UpgradeConverges`) is outside what the proof system does.  It is the one property of a passing
run without a theorem.
The violations are counterexamples and need no proof.

## Where the code and its documents disagree

Three runs are expected to fail; `PROJECT.json` quotes the document and the
code of each under `findings`.

* `autolock`: the CLI's child unlinks `.env` without the `isSafeToDelete` that
  `safeDelete.ts` calls an invariant.
* `recipients`: the extension's unlock over an existing `.env` writes `.env.up` for its
  author alone and without the policy.
* `header`: the extension's unlock writes the value it did not take into a comment, and the
  header of the new `.env.up` shows comments in the clear.

More that TLC shows on these models in a few steps and that no run is kept for:

* `archiveIdentity` swallows a failed copy as "optional" (identityEnvelope.ts:617) and `up init
  --force` overwrites the identity all the same.  Without the exception for `unarchived`,
  `KeyRecoverable` fails: an init dies before it shows the recovery code, the key is used, and
  the next init --force cannot copy the envelope.
* The Keychain migration stores `wrap.source = keychain` before its last prompt, and a
  cancellation there is thrown past the rollback (identityEnvelope.ts:502); so the migration reports an
  error and the envelope is in the Keychain.  The same goes for a wrapping-key file that cannot be
  copied or removed (522-528).
* With two directories unlocked for a while, the second unlock clears the one `autoLockTimer` of the
  window (unlock.ts:201), and the first stays unlocked until the editor closes.
* "Re-encrypt and Lock" and "Lock current content" delete `.env` without a second look at it: what is
  saved while their import asks for the key, or saved by the dialog of the closing tab, is gone
  (lock.ts:169-171, 237-239).
* The tab's dialog is open between `isSafeToDelete` and the unlink: an `.env.up` pulled meanwhile need not
  open (lock.ts:164-171).  `DeletedOpened` names this.
* Under a policy whose rows were narrowed by hand, an import of one member carries the others' wider
  blocks along, and their owners' `up verify` fails on the written file (index.ts:288-302).  `WrittenPassesVerify`
  names this.
* After a Keychain wipe `up key import` cannot restore: it loads the current key first
  and stops when that throws (keyImport.ts:61).
* The extension's unlock asks two questions after its only look at `.env` and then
  overwrites it (unlock.ts:183).
* Two commands that find no daemon leave one behind with a key, and
  `up session stop` reaches only the other (sessionAgent.ts:183).
* The lock of another file than `.env` imports `.env` and deletes an `.env.local` edited
  since its own import, with the edit (lock.ts:271; the comment at lock.ts:247 says
  "Always update .env.up from disk then delete").  `LossNeedsLateSave` says that it takes such an edit.
* `up import` into an existing `.env.up` never makes a block for a recipient added since, though
  the user guide (285, 338) says to import for that purpose; only `up reencrypt` does, and under
  a policy not even that, since a hand-written row without a block is refused (P3).
* `up reencrypt` without a policy, run by a teammate, seals `@local` to that teammate: an owner
  who is not in the configuration under a label of their own loses access.
* A second import drops the comments of the text, though docs/FORMAT_SPEC.md:21 promises a lossless
  roundtrip, and `create` sets versions back to one, though FORMAT_SPEC.md:124 has them raised.

## Not modelled

* *Cryptography, bundles, sealed shares, SSH keys, the parser and printer of `.env.up`*:
  pure and sequential; the models take who can open what.
* *Saves of the custom editor* (safeEditCustomEditor.ts:105-126).  What the page shows and what its
  save writes are in `EnvText`.  The save itself is a handler that saves the document, which asks the
  page and waits for a second handler that saves the document again; whether this ends
  at once or after five seconds hangs on how VS Code orders a save within a save, which is not
  in this repository.  A model would be one of the editor.
* *Fetching a share*: its dialogs and the network; what it makes of `.env` is in `EnvText`.
* *Keychain helper*: native code; its answers are modelled where they are used.
* *Node loader, MCP server, run command, read-only commands, site worker, secret generator*:
  they read, present or start a process, and change no state the models have.
* *Key management panel, status bar, first-protect page*: they show state and start commands that are
  modelled; the one flow with steps of its own, protect, is in `EnvSet`.

## Plan

1. `IdentityStore`, `EnvFiles`, `SessionAgent` with `SessionCell`, `TeamFile`, `KeySearch`,
   `EnvSet`, `EnvText` and the proofs of all their safety and step properties: done.
2. `TeamFile`: members on different commits, and an abstract specification (each recipient's
   granted keys) that a file whose policy has been followed implements.
