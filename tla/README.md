# Barony in TLA+

Barony lets several agent personas and people work on shared repositories with nothing but
git, markdown and a forge: "the markdown/git substrate is the database" (`cli/src/baron/cli.py`).
There is no server and no lock daemon. Every promise rests on what a push, a pull, a pull request
or a file rename does when several processes do them at once and some die half way, and on checks
that read a state which has moved on by the time their answer is used. That is what the modules
here model. Paths below are relative to `cli/src/baron/` unless they start with `docs/`.

## The system

| component (source) | state it keeps | operations | talks to |
|---|---|---|---|
| Ledgers (`ledger.py`) | numbered entries in `findings/INDEX.md`, `decisions/INDEX.md` | `finding new`, `decision new` | origin, by commit, push, reset, pull --rebase |
| Locks (`lock.py`) | an open pull request and its branch, per path | `lock claim`, `release`, `list` | the forge, call by call |
| Lock guard (`lock-guard.yml`) | a check on each pull request | runs when a pull request is opened or pushed | reads the open locks |
| Merge gate (`merge.py`) | none: an answer about one head | `merge check` | a snapshot of the pull request; artifacts and registry of the checkout |
| Signed verdicts (`signed_verdict.py`, `identity.py`) | an artifact and its `.sig` per head | `review sign`, verification | ssh-keygen, the merge gate |
| Handoffs (`handoff.py`, `indexer.py`) | letters in `_handoff/`, its archive and README | `handoff create`, `close`; `index` | git in one clone |
| Notify (`notify.py`, `baron-notify.yml`) | the depth kept in each letter; dispatched events | `notify`; the workflow's gate | push, then repository_dispatch |
| Session, sidecar (`session.py`, `sidecar.py`) | none between cycles but the clone | sync, sweep, invoke, land, push; `--watch` | handoffs, git, the project's runtime |
| Guard and rules (`guard.py`, `rules.py`), pydantic-ai adapter | the rules document; an override log | a decision per tool call; `rules validate`, `list`, `diff`, `explain` | the hooks of a runtime, the persona files |
| Decisions (`decision.py`) | obligations in the decision index | `reconcile`, `check` | the ledger file, the backlog |
| Worktrees (`worktree.py`) | git's worktree table, one branch per persona | add, list, remove, prune, repair | git |
| Waivers, status (`waivers.py`, `status.py`) | `.baron-waivers.yaml` | `waiver add`, `list`; `status` | the working copies, handoffs |
| Scaffold, monorepo (`scaffold.py`, `monorepo.py`) | a tree of files, the marker that lists projects | `init`, `add-project`, `adopt-project` | the file system, git |
| Identity (`identity.py`, `onboard.py`, `verify-identity.yml`) | keys, `.barony/allowed_signers` | init, register, enroll, protect, verify | git config, the forge |
| Events and health (`events.py`, `sinks/`, `verdict.py`, `health.py`) | append-only rows per day | emit, `verdict record`; `health` | the file system |
| Doctor (`doctor.py`) | none | `doctor` | settings files, the hook's own executable |
| Checks of files (`drift.py`, `adr.py`, `validate.py`, `schemas.py`) | none | read and report | files |
| Export, evaluation (`export.py`, `memeval.py`) | none | walk and score | files |

They meet in three places: one clone, whose index, HEAD and branch every command shares; origin,
where pushes of different clones are put in order; and the forge, whose pull requests, checks and
comments are read by one call and acted on by a later one.

What is hard in it: two clones that take the same number; a push that lands while its answer is
lost; a retry that rolls back more than its own attempt; lists of pull requests that end after a
page; a claim, a close, a reconcile or a graft that dies between two writes; a check that is older
than what it is checked against; a verdict about another commit; a wake that overtakes its letter;
replies that wake each other for ever; a clone that parts from origin; a branch that changes
between the guard's decision and the command; a worktree removed with work in it; a report that is
green because it could not look. `PROJECT.json` lists these hazards at their lines, with the
properties that answer them.

What makes each component correct, in a sentence. Ledgers: published numbers are dense, kept, and
the ones that were answered. Locks: one owner per branch, and a branch without an owner has a
cause. Lock guard: a green check respects the locks it could see. Merge gate: what it allows was
reviewed and green itself, and attributed. Mailbox: a letter is archived once and never lost, a
wake follows its letter, chains of wakes end, and a watching persona learns of its letters. Guard:
what runs was granted to the persona or logged, at every seam. Rules: what is printed of a
document is what the guard does with it. Decisions: a recorded obligation is never dropped and is
discharged only by evidence. Worktrees: work is never taken away unasked. Status and waivers:
nothing stranded passes silently. Monorepo: what is registered, committed and recorded stays
usable. Identity: only vouched commits land. Doctor: green means that a guard stands before
every governed call. Health: every recorded verdict is counted once.

## Modules

In each, the comment above a definition names the code, and `PROJECT.json`'s `map` its lines.

### Ledger, LedgerSpec, MCLedger; LedgerProofs

`Ledger` is `add_entry` of `ledger.py`, git call by git call. A history is a sequence of
snapshots of the index files; `origin`, and for each clone `head` and `work` (the working tree),
are what git keeps; `pc` and `job` are a process and its locals. The actions follow the code:
`Read` (scan the ids, next number), `Write`, `Commit`, `PushAccepted`, `PushRejected`,
`PushBroken`, `Reset` (`git reset --hard HEAD~1`), `Pull` (`git pull --rebase`, with its replay of
unpushed commits and its conflicts), and `Crash`, `Edit` for the environment. git may refuse a
commit at any time (a hook, no identity, a lock of the index), which ends the command; an edit of
another tracked file may be made at any time, and stops the pull, and the command, that meets it
(`StoppedByEdit`). Processes may share a clone. `LedgerSpec` is the promise: lists that only grow at their end and answers that are their
entries' numbers; its `CounterSpec` is the stronger promise of an atomic counter. Left out: titles
and bodies, and every file of the repository other than the index. A retry follows at once, as in
the code, which has no back-off.

### PRLock, MCPRLock; PullRequestProofs

`PRLock` is `claim` and `release` of `lock.py`, one call to the forge per step: list the open pull
requests (`Page` of them: `gh pr list` stops at 30), create the branch, open the pull request;
list, close, delete the branch. `branch` and `prs` are the forge's state. Pull requests of others
and `RunGuard` are the workflow `lock-guard.yml`, with its two calls of `gh api`: a failure to list
the locks fails the job, a failure to list the files is overlooked (`blind`). Abstractions: a refused claim changes nothing and
is not a step; two claims' commits always differ; opening a pull request and labelling it is one
step; the guard passes on a lock's own pull request; a failing call of a command is a crash.

### MergeGate, MCMergeGate; PullRequestProofs

`MergeGate` is one pull request with its heads, comments and check runs, the verdict artifacts of
the checkout, `review sign` in its two steps (`SignWrite`, `SignFile`), and `merge check` in two
(`GateFetch` takes one snapshot, `GateDecide` reads artifacts and registry and answers). The five
preconditions and the posture towards signatures are operators of the names of their functions.
Abstractions: the merge itself is the caller's; `--verdict-author` and a separate code repository
are left out; artifacts are not copied between pull requests; a malformed sha in a comment behaves
as another head's; a verification is one step.

### Mailbox, MCMailbox; MailboxProofs

`Mailbox` puts `handoff.py`, `notify.py`, `session.py`, `sidecar.py` and `baron-notify.yml`
together. A letter is `none`, `open`, `done` (closed, still in `_handoff/`) or `archived`; a commit
holds the place of every letter and the list in the README. Each persona has a clone: `head`,
`tree`, `index`. A cycle is `OpenCycle` (pull --ff-only, sweep, and idle or a brief), the runtime's
commands, `EndIndex` (the README), `Land` (commit and push, no retry). The commands are a close in
its three steps (`CloseWrite`, `CloseMove`, `CloseCommit`) and a notification in its four
(`Compose`, `AddLetter`, `NotifyPush`, `Dispatch`). `Gate` is the workflow. `Crash` kills a sidecar
anywhere, `Timeout` only the runtime. Either may leave the command that the runtime had started
(`left`), which goes on by itself, step by step, beside the end of the session, the landing and the
next cycle, until it is done or meets the landing at the lock of git's index (`Collide`); a letter
whose close was so cut is in `cut`. No second command begins in a clone while such a one goes on (a
bound). Abstractions: `git add` with the move or the commit after it;
the commit and the push of a landing are one step (between them nobody sees anything, and a death
there leaves what a failed push leaves); the README depends on the open letters only; a spawned job
runs a cycle in the persona's own clone (that job is the project's); names that collide within a
minute; the backlog, which is a set of personas that have something to do. The runtime runs no git
command of its own.

### CapabilityRules, Guard, MCGuard; GuardProofs

`CapabilityRules` is `rules.py`: a document is a record of verbs, rules, wrapper policy and
protected paths; `Accepted` is the parser, `Enforcement` the label `rules list` prints,
`Validates` and `DiffExit` what `validate` and `diff` exit with. `Guard` interprets an accepted
document: `RequiredVerbs` is the two-pass parse of a shell command with its opaque wrappers,
`WriteChecks` the ordered chain of the path rules, `Evaluate` the answer, `HookCall` the hook with
its override and its rows, `AdapterCall` the pydantic-ai adapter, which decides by the persona it
was hydrated with. The system around it: a maintainer edits the document and installs it
(`Edit`, `Install`), persona changes are merged, another process switches the branch, a call that
was let through runs later (`Run`). Commands are sequences of segments as the tokeniser leaves
them, paths sequences of components after normalisation; flags, programs and branch names are
those of the packaged document. What a call does (`Outcomes`) is defined from git and the file
system, apart from the rules, so that the two can disagree. The guard judges a command by the
checkout it finds: `moved` says that the checkout was another one at some moment between the answer
and the end of the command, even if the command switches back (`git checkout main && git merge x &&
git checkout topic` commits on main without `push_main`). `LogCanFail` is kept FALSE: when the
override log cannot be appended to, the hook exits 1, which blocks nothing.

### Decisions, MCDecisions; GovernanceProofs

`Decisions` is `decision.py`: `Read`, `Write`, `Commit` and `Die` are a reconcile, `Upsert` and
`Refuses` its block of text; `CheckRead`, `CheckPark` and `CheckExit` are a check, obligation by
obligation, over a backlog file (`CheckParkFile`) or trackers (`CheckParkForge`) that move in
between. `DecisionNew` is what the ledger does to the same clone: its commit, its reset, and its
`pull --rebase` onto what other clones pushed (`OthersPush`), which may stop in a conflict: then HEAD
is detached, the file holds conflict markers, and the branch is in `rebase` until people go on or
abort (`EndRebase`). `EditIndex` and `CommitByHand` are what people do. The lines of a backlog file
name an item in one of two spellings (`#214`, `GH-214`), and an obligation meets only its own. A block is absent, a mapping, unclosed or no
mapping; an entry has its heading once, never or twice. Two commands at once in one clone and a torn
index are left out (the code writes whole files, and neither command locks).

### Worktrees, Status, MCStatus; StatusProofs

`Worktrees` is `worktree.py` and the part of `gitutil.py` it uses: one repository whose object
store its worktrees share, clones with stores of their own, and origin. A history is a set of
commits, so `rev-list a..b` is a difference. `remove` is `RemoveRead` and `GitRemove`, with people's
edits, switches, merges and moves between them; `Add`, `Prune`, `Repair` are a step each.
`Status` extends it with `status.py` (`StatusStart`, `StatusCopy` for each working copy, `StatusExit`)
and `waivers.py` (`WaiverRead`, `WaiverWrite` of several at once, which may tear the file), and
days. `SparedIn` is what the sweep of branches passes over: the local default branch of a copy whose
HEAD is elsewhere. Left out: the
heuristic warnings, the portfolio view, repositories without a remote.

### Scaffold, Monorepo, MCMonorepo; MonorepoProofs

`Scaffold` holds `scaffold.py`'s operators: the roster, the refusals, the relative paths of the
manifest and of the runtime kits. A directory is the sequence of its components, a relative path
climbs and then descends. `Monorepo` runs `init`, `init --layout monorepo`, `add-project` and
`adopt-project` write by write (`CreateRoot`, `FirstProject`, `Write`, `RegisterLoad`,
`RegisterWrite`, `Commit`), with `Die` anywhere, also inside the writing of a manifest, which is then broken or, if nothing was
written yet, blank, and people who graft, remove and restore. Left out:
the patterns of names, the warning about inert workflows, two commands at once on one directory.

### Enrollment, MCEnrollment; GovernanceProofs

`Enrollment` is `identity.py`, `onboard.py` and the workflow: a working copy has its base on main,
its HEAD, its files and its signing key; `IdentityInit`, `Enroll`, `Register`, `Protect` are the
commands, `OpenWork`, `Push`, `Approve`, `Merge`, `Revoke` the people and the forge under the ruleset
that `Protect` posts. `VerifyIdentity` is the check of a pull request's commits against the
registry of main. It runs when a request is opened, pushed to or reopened (`Reopen`), with the first of
the labels of that moment, which any run may be given; a commit may claim a persona by a trailer. Left out: detached signatures of handoffs and `identity show`.

### Doctor, MCDoctor; GuardProofs

`Doctor` reads two settings files, runs the hook's own executable on a call that must be denied
and on one that is garbage, and reports; the eight checks that can fail are operators of the names
of their functions. An executable is known by what it answers, a matcher by two sets: the tools in
which doctor's `re.search` finds it and those for which the runtime starts the hook. A hook's command
may swallow the guard's exit code (`|| true`). People copy a kit, edit and delete
settings, install executables, change the persona, the package's rules and the environment; the report is dropped with
the next change. Doctor and the sessions share one environment.

### Plane, MCPlane; PlaneProofs

`Plane` is the observation plane and its reader. A producer (the hook, `verdict record`) makes the
plane's `.gitignore`, appends a row in one piece or two, and may stop anywhere; a file is what
landed, in pieces of lines. The plane of a directory is at its git top-level, and in no repository at
the directory itself (a monorepo made with `--no-git`, or without git); `GitInit` is a repository
made later, by the next `add-project` or by hand. `StartHealth`, `ReadFile`, `EndHealth` are `health`,
of a project or of a portfolio, which reads its root's plane once, over files that grow meanwhile.
The killed/run ratio is a sum, as in the code. Left out: the stalls, which are what `baron status`
finds red in four of its checks.

## Runs

All runs pass: every property holds in every state or behaviour of its bounds. Each property has
a mutant, an operator beside the one it replaces, which is a plausible bug of the code (a dropped
guard, a swapped order, a missing reset) and makes the property fail.

| run | what it shows | bounds |
|---|---|---|
| `ledger` | `TypeOK`, `PublishedDense`, `AnswerIsPublished`, `FiledOnce`, `FailureLeavesNothing`, `ExhaustionMeansContention`, `PublishedIsKept`, and that `Ledger` implements `LedgerSpec` | two clones, two kinds, two and one commands, one retry; no-push, crashes, lost answers, offline, refused commits |
| `ledger_contention` | `ImplementsCounter`, `EveryCommandIsAnswered` | three clones, one command each, two retries, a user's edits at any time |
| `lock` | `TypeOK`, `OneOwner`, `NoTornLock`, `ReleaseIsComplete`, `GuardHonoursLocks` | two processes, a directory, a file in it and one of the same slug, pages of one, three pull requests; crashes, hands, failing calls |
| `gate` | `GateTypeOK`, `AllowedWasReviewed`, `FailIsFinal`, `VerdictIsAttributed` | two personas, two heads, two comments, two signings, any registry and posture |
| `mailbox` | `TypeOK`, `MessageBeforeWake`, `ChainsEnd`, `HalfClosedWasCut`, `ArchiveNotDelete`, `AddressedIsSwept` | a watching persona that writes to a woken one, which writes to all, two letters, depth limit 0, one fault of the watcher |
| `guard` | `GrantedOrRecorded`, `EnforcedMeansDecided`, `SeamsAgree`, `LabelMeansChecked`, `DiffSeesDecisions` | five persona files, thirty calls, six checkouts, one persona change; every document two edits away from the packaged one |
| `decisions` | `ParksAreRecorded`, `GreenMeansDischarged` | two decisions, one item in two repositories and two spellings, six manifests; three events out of reconciles, edits, others' pushes and moves of the backlog |
| `status` | `WorkIsKept`, `NothingStrandedSilently` | a repository, a worktree in which people commit, a clone, a commit, a handoff, two `waiver add`, two days |
| `monorepo` | `RegisteredIsWhole`, `PathsLeadOutAndBack`, `ClonesAreWhole` | three commands out of fourteen requests, two directories |
| `enrollment` | `LandsOnlyVouched` | one persona with two keys, a trailer and a label of another, a pull request of one commit and one of two |
| `doctor` | `GreenMeansBlocks` | two settings files, three commands of nine kinds, three matchers, one hook that swallows |
| `plane` | `HealthCountsRecorded` | two processes, three rows, one stop, one report, two days; a monorepo and its project, in a repository from the start or later |

The bounds are the smallest in which the hazards happen. Ledger: two clones and three commands are
enough for a rejected push, a retry that is overtaken again, a kept and an unpushed entry that
meet; three clones for a command that loses as often as it may. Locks: pages of one and three pull
requests give a lock that a list does not show. Gate: two heads are the one a verdict is about and
the one it is not, two comments a PASS and a FAIL, two signings the overwrite. Mailbox: two letters
are a letter and its answer, and with a limit of 0 an answer is already too deep (the limit is a
number that is compared with, 2 in the code); one fault is enough for every single death, and
`Faulty` names the persona it befalls, since the code is the same for each. Guard: there is a
persona for each way a verb is held, denied or scoped, a call for each matcher and each position in
the chain, and two edits are what it takes to hide one change behind another. Decisions: one item
with the same number in two trackers is the confusion `Means` is about; three events are a
reconcile, a rival's push it conflicts with and the next command's reset, or a reconcile, an edit
that breaks its block and a move of the backlog between two queries. Status: one commit is stranded
or not, two `waiver add` run side by side, and two days pass a waiver and an SLA. Monorepo: two commands that run side by side and the retry of one.
Enrollment: the second key is the replacement of a lost one, the second pull request the one that
changes main under the first, and the persona that nobody declared is the one a trailer or a label
claims. Doctor: one executable that is baron, one reached through a launcher, one
that is neither. Plane: the two rows that share a line, and one more.
`CHECK_DEADLOCK FALSE` is in every configuration: all the commands that the bounds allow may be
done.

Fairness. `Ledger` assumes weak fairness of each process' own steps: `add_entry` waits for nobody,
so a process that is not killed takes its next step; `ledger_contention` shows that this is
enough because the number of retries bounds the lost races: every command is answered, or stopped by
the user's edit. `Mailbox` assumes it of the watching
sidecars only, for steps that change where they or their commands are or their clone's HEAD (a cycle
that pulls and finds nothing is no work): their loop has no wait but the sleep, their runtime and what
it leaves end or are killed, and the process is started again if it dies; faults are finitely many. Nothing is assumed of the workflow
or of woken personas. The other modules state no liveness: their commands are given by people, and
run to an end or die.

`mailbox`'s `AddressedIsSwept` has the exception `CutOff`, because the code needs it: once a clone
has a commit that origin has not and origin one that it has not, `pull --ff-only` and a plain push
both fail for ever.

## Proofs

All for every value of the constants, from the assumptions named in the modules.

* `LedgerProofs`: `TypeCorrect`, and `DensityOfPublished` (`Spec => []PublishedDense`), also for
  processes that share a clone, die, or lose the connection. `PublishedDense` is not inductive: a
  push publishes whatever the clone's history is. `PushableDense` adds that every history of a
  clone, and every text about to be written, is dense; the lemmas follow a roll back
  (`FrontDense`), a replay (`ReplayedDense`) and an append (`AppendKeepsDense`, from `NextIdOfDense`:
  the next number of a dense index is its length and one).

  `PublishedIsKeptAlways`, `AnswerIsPublishedAlways` and the refinement
  `LedgerImplementsSpec` are proved assuming `Private`: every process has a working copy of its own. The
  invariant `KeepInv` adds to `PushableDense` that every history `Grows` (each snapshot extends those
  before it), that the files of a clone extend its HEAD (`CloneKept`), and that a process has read what
  is in its clone and, once it has written, holds the number its entry has there (`ProcKept`); all
  this unless the clone is stopped in a rebase, from which nothing can be pushed. `ReplayedGrows` is
  the lemma on `pull --rebase`: what is replayed on origin extends origin.
  `ExhaustionMeansContentionAlways` has the invariant `Contends`, which counts the rounds a command
  has lost: after its first pull its clone holds origin's commits (`Agrees`), so that a rejection
  says that origin grew since. `FailureLeavesNothingAlways` and `FiledOnceAlways` follow an entry
  through `Within(G, C)`: origin, the clones `C` and the texts their commands have read hold only
  indexes of the sets `G`, which no replay or roll back leads out of (`WithinStep`). With `G` the
  indexes without the entry, `TracedInv` says that between writing and acknowledgement it is in its
  command's own clone alone, in the tip commit that the roll back takes away; with `G` the indexes
  that have it once, in one ledger, `Once` says that it stays so wherever something can still be
  pushed from (a clone stopped in a rebase may hold it twice). For processes that share a clone
  none of these is claimed: the reset of one rolls back what another committed.

  `LedgerImplementsCounter` is the second refinement: where nothing separates a push from its
  answer (`Sound`: no `--no-push`, no kill, no lost answer, no refused commit; edits and lost connections remain), the
  rounds of commit, push and renumber are one atomic fetch-and-increment at origin. `CountInv` adds to
  `KeepInv` and `TracedInv` that each clone is `Orderly`: its HEAD without the command's own commit is
  a prefix of origin, and its working tree is that commit's. The step that maps to the abstract one is
  the accepted push; every other step is a stutter.
* `PullRequestProofs`, the locks: `TypeCorrect`, `OneOwnerAlways`, `NoTornLockAlways`, `ReleaseIsCompleteAlways`,
  `GuardHonoursLocksAlways`. `OneOwner` is made inductive by counting as an owner of a branch the lock
  pull request, the claim that has made the branch and the release that is to delete it. The
  argument does not use the lists at all: the creation of the branch alone excludes others, so
  pages and slugs cannot break it. `ReleaseIsComplete` is inductive with the types: a step that
  takes an owner of a branch away deletes the branch or strands it. `GuardHonoursLocks` needs
  `SinceIsPast`: the locks a pull request was pushed under are among the pull requests there are, so
  that no new one is taken for one of them; what the guard could not list is remembered in `blind`.
* `PullRequestProofs`, the gate: `GateTypeCorrect`, `AllowedWasReviewedAlways` (from `SnapshotWasTrue`:
  what the snapshot says was true of that head at some time), `VerdictIsAttributedAlways` (from
  `SignaturesWereReported`: a signature that covers an artifact was made by a run that reported
  success), and `FailIsFinalAlways`, an action property that follows from the gate's step alone.
* `MailboxProofs`: `TypeCorrect`, `MessageBeforeWakeAlways`, `ArchiveNotDeleteAlways`,
  `HalfClosedWasCutAlways`. The invariant has two parts: `OriginOK` (in origin's history every letter
  only goes on from open to done to archived) and `CloneOK`, the same of each clone's history, with
  the working tree never behind HEAD, and with what each command has achieved at each of its steps.
  A push is accepted only if origin's history is a prefix of the clone's, which carries the first
  from the second. A command that was left behind keeps its own step, apart from the sidecar's, so
  that what it has achieved is said of it whatever the sidecar does meanwhile; `cut` explains each
  letter that is done and not archived. `ChainsEndAlways` rests on `Counted`: a reply answers a letter written before it
  and its frontmatter counts on from there. So the kept depths satisfy the equation that defines
  `Chain`, which therefore has a solution, and by the least letter where they could differ it has no
  other (`DepthIsChain`): what the gate compares is the length of the chain. No assumption is made on
  how many letters, personas or faults there are.
* `StatusProofs`: `WorkIsKeptAlways` and `NothingStrandedSilentlyAlways`. The first rests on
  `CopiesInv`: a commit that was made is held by origin or by a branch (`HeldBy`), branches and origin
  only grow (`Grown`), a branch that a copy has checked out exists (`HeadsExist`), only worktrees are
  moved, deleted or removed, so that a store stays and a removal is of a persona's copy
  (`StoresStay`), and origin's default branch never loses what a store has seen of it (`SeenIsOld`),
  so that what a removal found merged is merged when git removes the copy. The second follows the
  walk of a status (`FoundSoFar`: of the working copies it has passed, whatever was stranded is
  found red, spared as a default branch off HEAD, or named as one that cannot be compared) to its exit, where a waiver may park a finding
  but not silence it.
* `MonorepoProofs`: `RegisteredIsWholeAlways`, `ClonesAreWholeAlways` and `PathsLeadOutAndBackAlways`,
  from one invariant `Inv`. What is listed is not enough to be inductive: a command works from the
  marker it has read, so `Claimed` counts what any running command has seen, and what the last commit
  lists, from which a torn marker is restored. `Working` says what a command has achieved at each of
  its steps: while it scaffolds, its directory is claimed by nobody, and what is there and what it has
  still to write make it complete; when it registers, the directory is readable, or its manifest blank, which only
  an adoption takes. `Apart` keeps two
  commands from one directory. `CommandStep` is the argument common to the steps of a command: it
  touches its own place alone and claims its own project alone. `Tracked` ties what a scaffold has
  recorded to the request that was checked, from which the paths follow by the algebra of sequences
  (`FrontOf`).
* `GovernanceProofs`, Decisions: `ParksAreRecordedAlways` (`IndexInv`: what HEAD holds is within the
  working tree and within the text a reconcile is about to write, what that is about to commit is in
  the file, and, `OriginOK`, origin has what the branch had in common with it and what a stopped
  rebase builds on; while one is stopped, the property speaks of the branch that git has put aside) and `GreenMeansDischargedAlways` (`CheckInv`, with `DischargeIsTrue`:
  a query that answers "discharged" was true of the backlog when it was asked, or overlooked lines of
  another spelling).
* `GovernanceProofs`, Enrollment: `TypeCorrect` (its `TypeInv` is no property of a run; the next
  theorem rests on it) and `LandsOnlyVouchedAlways`: `VouchInv` says that under the ruleset each line
  of main was approved or there before, and (`AnswersHold`) that the check and the approval of an open
  pull request hold of its present content, for the label of the run that passed, while it is up to
  date, because a push dismisses the
  approval and runs the check again, and whatever changes main makes the branch outdated.
* `GuardProofs`, Guard: `GrantedOrRecordedAlways`, `EnforcedMeansDecidedAlways`, `SeamsAgreeAlways`,
  `DiffSeesDecisionsAlways` and `LabelMeansCheckedAlways`. First what the operators come to: the chain of path rules is decided by
  the first check that applies (`WriteDecided`), which gives one formula for a write (`Refused`,
  `Reaches`); every segment the shell comes to run, down to the payload of a payload, is covered by
  what the document requires of the command (`CommandCovered`, from `OpenedRequired` and
  `SegmentCovered`); a protected file is protected below any repository (`WriteCovered`). Then the
  session: `SessionInv` says that while the checkout stands, asking again gives the answer that was
  given (`AnswerStands`), and that what was let through without a line in the log the persona may do
  (`LetThrough`). The properties themselves are not inductive: they speak of a call that is done, the
  invariant of one that still has to run, between which personas change and branches move.
  `DiffSeesDecisions` is a fact of the operators (`Alike`) in every state. `GrantedOrRecordedAlways`
  has two hypotheses: the override log can be written, and no directory above the repository is
  called `agents`; without either the code does let calls through (see the next section).
  `LabelMeansCheckedAlways`: the labels are those of the verbs the guard asks for (`LabelsAsked`, from the
  parser's own check), a call that turns on a verb asks for it (`CheckedAsked`), and each verb asked
  for has such a call (`AskedChecked`). The last needs calls that tell the verbs apart
  (`CallsTellVerbsApart`, which TLC evaluates for the run's calls), and documents with a directory of
  personas, which is kept as an invariant from the hypothesis that no edit empties it; without that
  the code does label a verb nothing checks (next section).
* `GuardProofs`, Doctor: `GreenMeansBlocksAlways`. A green report says nothing later on; `ReportStands`
  does: while a report is green, the checks asked now would not fail. Every action of people clears
  the report, and the checks see nothing but what those actions change (`ChecksSee`). From them
  `GreenBlocks` goes over to the runtime: a hook that the probe stands for, whose matcher selects the
  tool and whose command ends with the guard, stops the call.
* `PlaneProofs`: `HealthCountsRecordedAlways`. The invariant says what the files hold (`FilesInv`: a row
  is in one file, once, in one piece or in two, and the two of a row that is not exposed are side by
  side), that what was written to its end is there (`LandedInv`), that a row being written is its
  writer's alone (`WritersInv`), and what a reader has counted of the days it has read (`ReaderOK`).
  `FlattenPicks` is what reading a file returns: the verdicts whose lines are whole, each once; the
  counts of the report follow from a sequence without repetition (`Counted`). It follows the fold by its
  definition as a function, with the least place where it could fail (`LeastNatural`), so that no
  induction over data is needed.

Assumptions on the constants were added where a proof needs them and the code gives them:
`WorktreesAssumption` (people who commit are among the copies), `StatusAssumption` (days are
numbers), `MonorepoAssumption` (the root is a directory other than the one projects of their own are
made in, and has a name), `InstallationAssumption` (an installation holds the packaged document or one
that does not parse; the remote's default branch, where it is known, is main), `PersonasAssumption`,
`CallsAssumption`, `RootAssumption` (the types of personas, calls and paths; the flags of a push
are those a rule is about), and `PlaneAssumption` (a root is in no other monorepo, days are numbers).

Only model-checked: liveness under fairness (`EveryCommandIsAnswered`, `AddressedIsSwept`), which is
out of the prover's reach; and the sums over the rows (mutations killed and run, drift), which no
property is about.

## Where the code and its words part

Places where the code does not do what a comment or a document says, met while modelling. The
modules do what the code does, and each property is stated so that it holds of it; the exception
it makes is named here where there is one.

* Ledgers. A `--no-push` entry that meets another at the next pull leaves the clone in a stopped
  rebase (`ledger.py:110-113`; ADR-003:114 promises a renumbering). `git reset --hard` takes a
  user's uncommitted edit of another file with it (`ledger.py:110`; `Ledger`'s `edit`). A commit that git
  refuses leaves the entry's text in the index file, and the next command files it with its own
  (`ledger.py:97-100`; `FailureLeavesNothing` excepts the working copy after a refusal).
* Locks. A lock pull request closed by hand leaves the branch, which refuses every later claim
  (`lock.py:134`, COORDINATION.md:77; `stranded`). The lock guard's check is as old as the last
  push (`lock-guard.yml:19`; `since`). If the list of changed files fails, the job is green in spite of
  `set -euo pipefail`, which does not see a process substitution (`lock-guard.yml:39-42`; `blind`).
* Merge gate. It reads the state of the comment, not of the signed artifact (`merge.py:418`): a signed
  FAIL and a comment that says PASS are allowed, while ADR-033:175 speaks of a proof that a reviewer
  approved this commit. `VerdictIsAttributed` says what there is: an independent reviewer signed a
  verdict on it, PASS or FAIL. A second `review sign` that cannot overwrite keeps the first `.sig` and reports success
  (`identity.py:472`); such a signature does not cover the artifact, and the gate sees that.
* Sidecar. A command that the runtime started outlives the timeout, which kills the runtime alone
  (`sidecar.py:302-309`), so that a letter may be half closed, and stay so, after the cycle that began
  the close (`cut`). A watching clone that has parted from origin never reads it again (`session.py:100`,
  `sidecar.py:325`; `CutOff`).
* Rules. An empty `spec_dir_component` is accepted and labelled `enforced` (`rules.py:943`,
  `guard.py:942`); the documents of the run have one. `agents` and `_handoff` are looked for in
  the absolute path, the directories above the collab repository included (`Root` has neither).
* Decisions. List items of another form are not checked and are dropped by the next reconcile
  (`Upsert`'s `loose`). A backlog that has an item as `#214`, marked, and as `GH-214`, unmarked, gives
  DISCHARGED to an obligation about `#214` (`decision.py:241-259`, which calls a false DISCHARGED the one
  failure that matters; `Overlooked`). In a clone stopped in a rebase a reconcile reports success on a
  detached HEAD, which an abort loses, and a check reads an index without what it had recorded (both
  properties speak of the branch).
* Status. The local default branch is not compared while HEAD is elsewhere, though the comment says that
  HEAD's comparison covers it (`status.py:147-148`; `SparedIn`): commits on it are reported nowhere.
* Monorepo. `init --layout monorepo` creates the root before the first project's request is
  refused, and its retry is refused too, contrary to the comment in `scaffold.py`. `status` says that
  `add-project` registers an unlisted directory, though only `adopt-project` does. `adopt-project` refuses a manifest that is no mapping, but takes a
  blank one for an empty mapping (`monorepo.py:389-394`, `or {}`), registers it, and `status` cannot load it
  (`status.py:53-60`; `tear`).
* Identity. `identity init` exits 0 for an enrollment that was committed but not merged
  (`identity.py:298`, `onboard.py:427`); a failed push is skipped as "ALREADY enrolled" by the retry;
  the workflow takes the first of several `agent-` labels, though its comment says that one is read when
  exactly one is present (`verify-identity.yml:45-47`), and a label that is added or changed later starts
  no run (`verify-identity.yml:19-20`), so that a request may land under a label of another persona, which
  the header (`verify-identity.yml:6-8`) says fails.
* Doctor. It finds a tool in a matcher by `re.search` (`doctor.py:296-317`), so that `Edit|Write` counts for
  NotebookEdit, which the runtime may select otherwise; with two hooks of different commands only the
  first is probed; `|| true` after the command is not seen. `GreenMeansBlocks` excepts exactly these
  (`Unseen`).
* Plane. A monorepo in no git repository has a plane for each directory, while the portfolio's report
  says there is one for the clone and reads the root's alone (`monorepo.py:526-548`); and what was recorded
  before `add-project` or a person made the repository is in no later report of it (`disk.py:54-68`,
  `cli.py:291`), against `health.py:13-17`, where "0 verdicts" always means that nothing was emitted. "STALLS
  none (baron status is green on those checks)" speaks of four checks: a missing path or one that is no
  repository is red in `status` and no stall (`health.py:125-129`, `status.py:99-104`). `sinks/disk.py:31` says that a torn row costs one line: two rows that share it are lost.
  `verdict record` prints "recorded" with the null sink and after a swallowed failure. A stop
  between the creation and the text of `.gitignore` leaves it empty for good.

## Not modelled

`strip-stale-verdict.yml` removes labels, which the merge gate does not read. `drift.py`, `adr.py`,
`validate.py` and `schemas.py` compare one file with a table or with another; `export.py` and
`memeval.py` are a deterministic walk and a scoring of fixtures: no state, no second actor. The
forge plugins beyond the calls that the components make, the parsing of `gh`'s output, the text of
templates, the command line's options and output, skills, dashboard, evals and docs coordinate
nothing. The agents themselves, and what a runtime does between two tool calls, are the
environment.

Left out of modules that are there, beyond what is said above: a release closes the newest lock on
the path, whoever holds it; the head may move between the gate's answer and the merge, which is the
caller's; the workflow's concurrency group may drop an older pending wake; two commands in one
clone for decisions and letters, which the code does not guard against (the ledger does model it);
an approval given before the branch was protected; the time limits of doctor's probe and of the
hook; a file of rows created after `health` listed the directory.

## Plan

What is left, in the order of its worth: two commands at once in one clone for decisions and letters;
`Plane`'s stalls composed with `Status`; what can be promised to ledger commands that share a clone, for whom only
`PublishedDense` is proved; small modules for `strip-stale-verdict.yml` and the prior-art gate.
