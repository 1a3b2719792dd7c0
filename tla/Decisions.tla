----------------------------- MODULE Decisions -----------------------------
(***************************************************************************)
(* What a ratified decision obliges its project to stop offering (ADR-009, *)
(* decision.py): `baron decision reconcile` records backlog items as       *)
(* parked in the decision's own entry of decisions/index.md, and           *)
(* `baron decision check` asks the backlog, obligation by obligation,      *)
(* whether each is off the table.                                          *)
(*                                                                         *)
(* One clone, whose commands run one at a time.  A command reads the whole *)
(* index, writes the whole index and commits it in three steps, and may    *)
(* die between them; people edit the index meanwhile, trackers and backlog *)
(* files change between two queries of a check, and a ledger command that  *)
(* is rejected resets the clone to its last commit and rebases it onto     *)
(* what others have pushed, which may stop in a conflict.  A write of the  *)
(* index file is atomic: a torn file is left out.                          *)
(***************************************************************************)
EXTENDS FiniteSets, Naturals

CONSTANTS
    Numbers,        \* decision numbers
    Ratified,       \* those that have their entry from the start
    Items,          \* backlog items; a tracker numbers them from 1 in each repository
    Repos,          \* the ids of the manifest's repositories
    Unresolved,     \* those of them whose remote names no owner/name
    Collab,         \* the coordination repository, where gh asks when it is not told
    Located,        \* the repository that backlog.location names as owner/name
    NoRepo,         \* a park without a repo
    Requests,       \* what one command line asks to park
    HandParks,      \* the parks people write into a block themselves
    Manifests,      \* the manifests a project may have, of ManifestForms
    MaxEvents       \* bound: reconciles, edits of the index, pushes from other clones and
                    \* moves of the backlog, together

\* How a reference is spelled: the tracker's number (`214`, `#214`) or another key (`GH-214`).
Spellings == {"number", "key"}
Parks == [item: Items, spelling: Spellings, repo: Repos \cup {NoRepo}]
\* The parks a command line can name have no repository.
CliParks == {p \in Parks : p.repo = NoRepo}
ManifestForms ==
    [source: {"file", "github_issues", "other", "unreadable"},
     location: {"none", "path", "slug"}, label: BOOLEAN]

ASSUME DecisionsAssumption ==
    /\ IsFiniteSet(Items) /\ IsFiniteSet(Numbers) /\ Ratified \subseteq Numbers
    /\ Unresolved \subseteq Repos /\ NoRepo \notin Repos /\ Located \in Repos
    /\ Requests \subseteq SUBSET CliParks /\ HandParks \subseteq Parks /\ Manifests \subseteq ManifestForms

VARIABLES
    manifest,   \* what manifest.yaml says of the backlog
    index,      \* decisions/index.md in the working tree: an entry for each number
    head,       \* the same in the clone's last commit
    origin,     \* the same at origin
    base,       \* the same in the last commit the clone's branch has in common with origin
    rebase,     \* the rebase the clone is stopped in: its branch as it was, and onto what
    cmd,        \* the reconcile that runs
    recorded,   \* the obligations <<n, park>> that a reconcile reported as committed
    tracker,    \* the issues of the trackers
    lines,      \* the lines of the backlog file that concern an item, each with its spelling
    filed,      \* the backlog file exists
    check,      \* the check that runs, with what was true when it asked
    used        \* how much of the bound is spent

decisionsVars == <<manifest, index, head, origin, base, rebase, cmd, recorded, tracker, lines,
                   filed, check, used>>

-----------------------------------------------------------------------------
(***************************************************************************)
(* The index.  `headings` counts the `### D<n>` lines; a bad block, one    *)
(* that is unclosed or no mapping, still holds its text.  `loose` says     *)
(* that list items which are no mapping with an issue stand beside the     *)
(* parks.                                                                  *)
(***************************************************************************)
Entry == [headings: 0..2, block: {"none", "map", "bad"},
          parks: SUBSET Parks, loose: BOOLEAN]
NoEntry == [headings |-> 0, block |-> "none", parks |-> {}, loose |-> FALSE]

\* The one entry of a number, or the error that says why there is none.
HasEntry(file, n) == file[n].headings = 1
Unparsed(entry) == entry.block = "bad"
ParksOf(entry) == IF entry.block = "map" THEN entry.parks ELSE {}

\* The entry with its block replaced, or appended where there was none; what
\* is no mapping in the list of the old block is not carried over.
Upsert(file, n, parks) ==
    [file EXCEPT ![n] = [@ EXCEPT !.block = "map", !.parks = parks, !.loose = FALSE]]

Merged(entry, parks) == ParksOf(entry) \cup parks

RefusesOnlyAbsent(file, n, parks) == ~HasEntry(file, n) \/ Merged(file[n], parks) = {}
\* What stops a reconcile before it writes.
Refuses(file, n, parks) ==
    \/ ~HasEntry(file, n)
    \/ Unparsed(file[n])
    \/ Merged(file[n], parks) = {}

-----------------------------------------------------------------------------
\* What an obligation asks of the backlog, whatever baron can see of it: the
\* repository it means, and whether an agent is still offered the item there.
Means(park) ==
    IF park.repo # NoRepo THEN park.repo
    ELSE IF manifest.location = "slug" THEN Located ELSE Collab
Offered(park) ==
    LET issue == tracker[<<Means(park), park.item>>]
    IN  /\ manifest.source = "github_issues" =>
             issue.open /\ ~(manifest.label /\ issue.labelled)
        /\ manifest.source = "file" =>
             \E line \in lines[park.item] : ~(line.marked /\ manifest.label)

Discharged == "discharged"
Outstanding == "outstanding"
Unverifiable == "unverifiable"

\* The marks of the lines that hold the reference as a whole token.
Referenced(park) == {line.marked : line \in {l \in lines[park.item] : l.spelling = park.spelling}}

\* Every line that spells the item as the obligation does is marked, and others spell it
\* differently: of those the check sees nothing.
Overlooked(park) ==
    /\ manifest.source = "file" /\ Referenced(park) = {TRUE}
    /\ \E line \in lines[park.item] : line.spelling # park.spelling

CheckParkFileByAbsence(park) ==
    IF filed /\ manifest.location # "none" /\ \A marked \in Referenced(park) : marked /\ manifest.label
    THEN Discharged ELSE Outstanding
CheckParkFile(park) ==
    IF manifest.location = "none" THEN Unverifiable
    ELSE IF ~filed THEN Outstanding
    ELSE IF Referenced(park) = {} THEN Unverifiable
    ELSE IF manifest.label /\ Referenced(park) = {TRUE} THEN Discharged
    ELSE Outstanding

\* The repository to ask; NoRepo is gh's own choice, the directory's repository.
IssueRepo(park) ==
    IF park.repo # NoRepo THEN (IF park.repo \in Unresolved THEN NoRepo ELSE park.repo)
    ELSE IF manifest.source = "github_issues" /\ manifest.location = "slug" THEN Located
    ELSE NoRepo
\* Without --fetch, or with a plugin that has no get_issue, nothing can be asked;
\* an older plugin answers for its directory's repository only.
Forges == {"none", "without_target", "full"}

CheckParkForge(forge, reached, park) ==
    LET target == IssueRepo(park)
        issue  == tracker[<<IF target = NoRepo THEN Collab ELSE target, park.item>>]
    IN  IF \/ park.repo # NoRepo /\ target = NoRepo
           \/ forge = "none"
           \/ park.spelling # "number"
           \/ forge = "without_target" /\ target # NoRepo
           \/ ~reached
        THEN Unverifiable
        ELSE IF ~issue.open \/ (manifest.label /\ issue.labelled) THEN Discharged
        ELSE Outstanding

Finding(forge, reached, park) ==
    IF manifest.source = "github_issues" THEN CheckParkForge(forge, reached, park)
    ELSE IF manifest.source = "file" THEN CheckParkFile(park)
    ELSE Unverifiable

IsGreen(findings) == findings \subseteq {Discharged}

-----------------------------------------------------------------------------
NoCmd == [pc |-> "idle", n |-> 0, parks |-> {}, file |-> [n \in Numbers |-> NoEntry]]
NoCheck == [pc |-> "idle", forge |-> "none", todo |-> {}, findings |-> {}, owed |-> {},
            parked |-> {}, overlooked |-> {}, exit |-> 0]
NoRebase == [on |-> FALSE, branch |-> [n \in Numbers |-> NoEntry],
             onto |-> [n \in Numbers |-> NoEntry]]
\* The clone's branch: HEAD, but for a rebase that has stopped.
Branch == IF rebase.on THEN rebase.branch ELSE head
Unmarked(spelling) == [spelling |-> spelling, marked |-> FALSE]

DecisionsInit ==
    /\ manifest \in Manifests
    /\ index = [n \in Numbers |-> IF n \in Ratified THEN [NoEntry EXCEPT !.headings = 1] ELSE NoEntry]
    /\ head = index /\ origin = index /\ base = index /\ rebase = NoRebase
    /\ cmd = NoCmd /\ recorded = {}
    /\ tracker = [at \in (Repos \cup {Collab}) \X Items |-> [open |-> TRUE, labelled |-> FALSE]]
    /\ lines \in [Items -> {{Unmarked("number")}, {Unmarked(s) : s \in Spellings}}]
    /\ manifest.source # "file" => \A i \in Items : lines[i] = {Unmarked("number")}
    /\ filed = TRUE
    /\ check = NoCheck
    /\ used = 0

Backlog == <<manifest, tracker, lines, filed>>
Published == <<origin, base>>

\* `decision reconcile <n> --park ...`: the read of the index; a
\* refused reconcile changes nothing.
Read(n, parks) ==
    /\ cmd.pc = "idle" /\ check.pc = "idle" /\ used < MaxEvents
    /\ ~Refuses(index, n, parks)
    /\ used' = used + 1
    /\ cmd' = [pc |-> "write", n |-> n, parks |-> Merged(index[n], parks), file |-> index]
    /\ UNCHANGED <<Backlog, index, head, Published, rebase, recorded, check>>

\* The whole file is written from the text that was read.
Write ==
    /\ cmd.pc = "write"
    /\ index' = Upsert(cmd.file, cmd.n, cmd.parks)
    /\ cmd' = [cmd EXCEPT !.pc = "commit", !.file = NoCmd.file]
    /\ UNCHANGED <<Backlog, head, Published, rebase, recorded, check, used>>

\* git add and git commit of the index as it lies in the working tree; git
\* refuses a commit that changes nothing, and the command dies of that.  In a clone that is
\* stopped in a rebase the commit is on no branch; `recorded` does not count it.
Commit ==
    /\ cmd.pc = "commit"
    /\ cmd' = NoCmd
    /\ IF index = head
       THEN UNCHANGED <<head, recorded>>
       ELSE /\ head' = index
            /\ recorded' = IF rebase.on THEN recorded
                           ELSE recorded \cup {<<cmd.n, p>> : p \in cmd.parks}
    /\ UNCHANGED <<Backlog, index, Published, rebase, check, used>>

\* A death; after the write it leaves what --no-commit leaves.
Die ==
    /\ cmd.pc # "idle"
    /\ cmd' = NoCmd
    /\ UNCHANGED <<Backlog, index, head, Published, rebase, recorded, check, used>>

-----------------------------------------------------------------------------
(***************************************************************************)
(* What else happens to the index: `decision new` of the ledger, which     *)
(* commits the index with whatever is uncommitted in it, and, when its     *)
(* push is rejected, resets hard and pulls with --rebase; people, who end  *)
(* a rebase, break a block, mend it, double a heading, take it away, write *)
(* an item by hand, and commit; other clones, which push to origin.        *)
(***************************************************************************)

\* The entries that changed on the clone's branch, and at origin, since they parted.
Ours == {n \in Numbers : head[n] # base[n]}
Theirs == {n \in Numbers : origin[n] # base[n]}

\* git pull --rebase, when the two touch nothing of each other's.
Replayed == [n \in Numbers |-> IF n \in Ours THEN head[n] ELSE origin[n]]

\* An entry that both sides changed, with the markers of the conflict in its block, or with
\* the headings of both sides.
Marked(n) ==
    [headings |-> IF head[n].headings = 1 /\ base[n].headings = 1 THEN 1 ELSE 2,
     block    |-> IF head[n].block = "none" /\ origin[n].block = "none" THEN "none" ELSE "bad",
     parks    |-> head[n].parks \cup origin[n].parks, loose |-> FALSE]

\* What a rebase that stops leaves in the file: an entry marked so; the block that was
\* appended to an entry, and stands under the one that others appended in the same place; or
\* two appended entries, one after the other.
Stopped(file) ==
    LET added == {m \in Numbers : base[m].headings = 0 /\ origin[m].headings > 0}
    IN  \/ \E n \in Ours \cap Theirs : file = [origin EXCEPT ![n] = Marked(n)]
        \/ \E n \in Ours \ Theirs, m \in added :
             /\ base[n].headings = 1 /\ base[n].block = "none"
             /\ head[n].block = "map" /\ origin[m].block = "none"
             /\ file = [origin EXCEPT ![m] = [@ EXCEPT !.block = "map", !.parks = head[n].parks]]
        \/ \E n \in Ours \ Theirs :
             /\ base[n].headings = 0 /\ added # {}
             /\ file = [origin EXCEPT ![n] = head[n]]

\* --no-push, or the push succeeds.  (A retry that succeeds is a step after the rejected one.)
NewKept(n, pushed) ==
    /\ index' = [index EXCEPT ![n].headings = 1] /\ head' = index'
    /\ IF pushed
       THEN /\ ~rebase.on /\ Theirs = {}
            /\ origin' = head' /\ base' = head'
       ELSE UNCHANGED Published
    /\ UNCHANGED rebase

\* git reset --hard HEAD~1, and the pull: it fails (no network, or HEAD is on no branch), it
\* replays the branch's own commits, or it stops.
NewRejected ==
    \/ index' = head /\ UNCHANGED <<head, Published, rebase>>
    \/ /\ ~rebase.on /\ Ours \cap Theirs = {}
       /\ index' = Replayed /\ head' = Replayed
       /\ base' = origin /\ UNCHANGED <<origin, rebase>>
    \/ /\ ~rebase.on /\ Stopped(index')
       /\ head' = origin
       /\ rebase' = [on |-> TRUE, branch |-> head, onto |-> origin]
       /\ UNCHANGED Published

DecisionNew(n, outcome) ==
    /\ cmd.pc = "idle" /\ check.pc = "idle" /\ index[n].headings = 0
    /\ IF outcome = "rejected" THEN NewRejected ELSE NewKept(n, outcome = "pushed")
    /\ UNCHANGED <<Backlog, cmd, recorded, check, used>>

\* People end a rebase: with --abort, or with --continue once the file holds the entries and
\* obligations of both sides.
Joined(mine, other) ==
    [n \in Numbers |->
       IF mine[n] = other[n] THEN mine[n]
       ELSE LET parks == mine[n].parks \cup other[n].parks
            IN  [headings |-> 1, block |-> IF parks = {} THEN "none" ELSE "map",
                 parks |-> parks, loose |-> FALSE]]

EndRebase ==
    /\ rebase.on /\ cmd.pc = "idle" /\ check.pc = "idle"
    /\ rebase' = NoRebase
    /\ \/ index' = rebase.branch /\ UNCHANGED base
       \/ index' = Joined(rebase.branch, head) /\ base' = rebase.onto
    /\ head' = index'
    /\ UNCHANGED <<Backlog, origin, cmd, recorded, check, used>>

\* Another clone pushes a decision, or the obligations of one.
OthersPush(n) ==
    /\ cmd.pc = "idle" /\ check.pc = "idle" /\ used < MaxEvents
    /\ used' = used + 1
    /\ \/ origin[n].headings = 0 /\ origin' = [origin EXCEPT ![n].headings = 1]
       \/ /\ HasEntry(origin, n) /\ ~Unparsed(origin[n])
          /\ \E parks \in Requests : parks # {} /\ origin' = Upsert(origin, n, Merged(origin[n], parks))
    /\ UNCHANGED <<Backlog, index, head, base, rebase, cmd, recorded, check>>

Breakage(entry) ==
    (IF entry.block = "map" THEN {[entry EXCEPT !.block = "bad"]} ELSE {})
        \cup (IF entry.headings = 1 THEN {[entry EXCEPT !.headings = 2]} ELSE {})
Repair(entry) ==
    (IF Unparsed(entry) THEN {[entry EXCEPT !.block = "map"]} ELSE {})
        \cup (IF entry.headings = 2 THEN {[entry EXCEPT !.headings = 1]} ELSE {})
HandWritten(entry) ==
    IF Unparsed(entry) \/ entry.headings = 0 THEN {}
    ELSE {[entry EXCEPT !.block = "map", !.parks = @ \cup {p}] : p \in HandParks}
           \cup {[entry EXCEPT !.block = "map", !.loose = TRUE]}

EditIndex(n) ==
    /\ check.pc = "idle" /\ used < MaxEvents
    /\ used' = used + 1
    /\ \E entry \in Breakage(index[n]) \cup Repair(index[n]) \cup HandWritten(index[n]) :
         index' = [index EXCEPT ![n] = entry]
    /\ UNCHANGED <<Backlog, head, Published, rebase, cmd, recorded, check>>
CommitByHand ==
    /\ cmd.pc = "idle" /\ check.pc = "idle" /\ head # index
    /\ head' = index
    /\ UNCHANGED <<Backlog, index, Published, rebase, cmd, recorded, check, used>>

\* The backlog moves: an issue is closed, reopened, labelled or unlabelled; a line
\* of an item is marked, listed again beside a mark, or taken out.  A reconcile
\* reads none of it.
MoveBacklog ==
    /\ cmd.pc = "idle" /\ check.pc # "done"
    /\ used < MaxEvents
    /\ used' = used + 1
    /\ \/ /\ manifest.source = "github_issues"
          /\ \E at \in DOMAIN tracker :
               \/ tracker' = [tracker EXCEPT ![at].open = ~@]
               \/ tracker' = [tracker EXCEPT ![at].labelled = ~@]
          /\ UNCHANGED <<lines, filed>>
       \/ /\ manifest.source = "file"
          /\ \/ \E i \in Items, line \in [spelling: Spellings, marked: BOOLEAN] :
                  /\ \/ lines' = [lines EXCEPT ![i] = @ \cup {line}]
                     \/ lines' = [lines EXCEPT ![i] = @ \ {line}]
                     \/ lines' = [lines EXCEPT ![i] = (@ \ {Unmarked(line.spelling)}) \cup {line}]
                  /\ filed' = filed
             \/ filed' = ~filed /\ lines' = lines
          /\ UNCHANGED tracker
    /\ UNCHANGED <<manifest, index, head, Published, rebase, cmd, recorded, check>>

-----------------------------------------------------------------------------
(***************************************************************************)
(* `decision check [<n>] [--fetch]`.  The index is read once; every        *)
(* obligation is then asked for in a step of its own.  `owed` is what      *)
(* reconciles had recorded of the numbers the check is about when it read, *)
(* in a clone that is on its branch, `parked` what was really off the      *)
(* table when it was asked for.                                            *)
(***************************************************************************)
CheckRead(numbers, forge) ==
    /\ check.pc = "idle" /\ cmd.pc = "idle"
    /\ LET about == {n \in numbers : index[n].headings > 0}
           owed  == {o \in recorded : o[1] \in numbers /\ ~rebase.on}
       IN  check' =
             IF manifest.source = "unreadable"
             THEN [NoCheck EXCEPT !.pc = "done", !.owed = owed, !.exit = 2]
             ELSE IF \E n \in about : index[n].headings > 1
             THEN [NoCheck EXCEPT !.pc = "done", !.owed = owed, !.exit = 1]
             ELSE [NoCheck EXCEPT
                     !.pc = "asking", !.owed = owed,
                     !.forge = IF manifest.source = "github_issues" THEN forge ELSE "none",
                     !.todo = UNION {{<<n, p>> : p \in ParksOf(index[n])} : n \in about},
                     !.findings = IF \E n \in about : Unparsed(index[n]) THEN {Outstanding} ELSE {}]
    /\ UNCHANGED <<Backlog, index, head, Published, rebase, cmd, recorded, used>>

CheckPark(obligation, reached) ==
    /\ check.pc = "asking" /\ obligation \in check.todo
    /\ check' = [check EXCEPT
                   !.todo = @ \ {obligation},
                   !.findings = @ \cup {Finding(check.forge, reached, obligation[2])},
                   !.parked = IF Offered(obligation[2]) THEN @ ELSE @ \cup {obligation},
                   !.overlooked = IF Overlooked(obligation[2]) THEN @ \cup {obligation} ELSE @]
    /\ UNCHANGED <<Backlog, index, head, Published, rebase, cmd, recorded, used>>

CheckExit ==
    /\ check.pc = "asking" /\ check.todo = {}
    /\ check' = [NoCheck EXCEPT !.pc = "done", !.owed = check.owed, !.parked = check.parked,
                               !.overlooked = check.overlooked,
                               !.exit = IF IsGreen(check.findings) THEN 0 ELSE 1]
    /\ UNCHANGED <<Backlog, index, head, Published, rebase, cmd, recorded, used>>

CheckForgotten ==
    /\ check.pc = "done" /\ check' = NoCheck
    /\ UNCHANGED <<Backlog, index, head, Published, rebase, cmd, recorded, used>>

DecisionsNext ==
    \/ \E n \in Numbers, parks \in Requests : Read(n, parks)
    \/ Write
    \/ Commit
    \/ Die
    \/ \E n \in Numbers, outcome \in {"kept", "pushed", "rejected"} : DecisionNew(n, outcome)
    \/ EndRebase
    \/ \E n \in Numbers : EditIndex(n) \/ OthersPush(n)
    \/ CommitByHand
    \/ MoveBacklog
    \/ \E numbers \in {Numbers} \cup {{n} : n \in Numbers}, forge \in Forges : CheckRead(numbers, forge)
    \/ \E o \in check.todo, reached \in BOOLEAN : CheckPark(o, reached)
    \/ CheckExit
    \/ CheckForgotten

DecisionsSpec == DecisionsInit /\ [][DecisionsNext]_decisionsVars

-----------------------------------------------------------------------------
\* No obligation that a reconcile reported as recorded ever leaves the
\* committed index of the clone's branch: not by a later reconcile of the same
\* decision, whatever people did to the block in between, not by a ledger command
\* that resets the clone and rebases it onto what others have pushed, not by a
\* reconcile that dies (decision.py, "authored primary data"; reconcile,
\* upsert_block; ledger.py, add_entry).  In a rebase that has stopped HEAD and the
\* file may be without it, and what is committed there is on no branch.
ParksAreRecorded == \A o \in recorded : o[2] \in Branch[o[1]].parks

\* A check in a clone that is on its branch is green only when, for every
\* obligation that reconciles had recorded of the decisions it is about, the
\* backlog that the obligation means had stopped offering the item at the moment
\* it was asked, or offered it under another spelling beside marked lines of the
\* one that was recorded: no index that cannot be read, no absent line, no other
\* repository's issue, no forge that cannot answer is taken for a discharge
\* (decision.py, "A false DISCHARGED is the one failure that makes this feature
\* worse than nothing").
GreenMeansDischarged ==
    check.pc = "done" /\ check.exit = 0 => check.owed \subseteq check.parked \cup check.overlooked
=============================================================================
