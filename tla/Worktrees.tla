----------------------------- MODULE Worktrees -----------------------------
(***************************************************************************)
(* The working copies of a project (worktree.py, gitutil.py): one code     *)
(* repository whose object store its worktrees share, one `persona/<slug>` *)
(* branch and worktree per persona, and clones with stores of their own,   *)
(* all of one origin.  People commit, switch, push, merge, move and delete *)
(* between any two calls git gets from a command.                          *)
(*                                                                         *)
(* A history is the set of its commits, so `git rev-list a..b` is a set    *)
(* difference; origin's default branch only grows.                         *)
(***************************************************************************)
EXTENDS FiniteSets, Naturals

CONSTANTS
    Personas,       \* those with a worktree: its name is theirs
    Repo,           \* the code repository's own working copy
    Clones,         \* working copies that are clones
    Detached,       \* the HEAD of a copy on no branch
    Default,        \* the default branch
    BranchOf(_),    \* persona_branch
    Committers,     \* the copies in which commits are made
    MaxCommits      \* bound

Copies == {Repo} \cup Clones \cup Personas
Stores == {Repo} \cup Clones
StoreOf(c) == IF c \in Personas THEN Repo ELSE c
Commits == 1 .. MaxCommits
Branches == {Default} \cup {BranchOf(p) : p \in Personas}

ASSUME WorktreesAssumption ==
    /\ IsFiniteSet(Personas) /\ IsFiniteSet(Clones)
    /\ Repo \notin Clones \cup Personas /\ Clones \cap Personas = {}
    /\ Committers \subseteq Copies
    /\ Detached \notin Branches /\ \A p \in Personas : BranchOf(p) # Default

VARIABLES
    origin,     \* the commits of origin's default branch
    seen,       \* what a store's origin/<default> holds
    known,      \* the stores that can tell origin's default branch; the repository can
    branch,     \* the commits of each local branch of a store
    copy,       \* each working copy
    removal,    \* the `worktree remove` that runs
    made,       \* the commits made on a branch
    lost        \* the copies whose uncommitted work an unforced remove took away

wvars == <<origin, seen, known, branch, copy, removal, made, lost>>

\* `place`: unknown to git, where git registered it, deleted or moved by hand.
CopyState == [place: {"none", "there", "gone", "elsewhere"},
              head: Branches \cup {Detached}, at: SUBSET Commits, dirty: BOOLEAN]
Absent == [place |-> "none", head |-> Detached, at |-> {}, dirty |-> FALSE]
Fresh(b) == [place |-> "there", head |-> b, at |-> {}, dirty |-> FALSE]
NoRemoval == [pc |-> "idle", persona |-> Repo, force |-> FALSE]

WInit ==
    /\ origin = {} /\ seen = [s \in Stores |-> {}]
    /\ known \in {Stores, {Repo}}
    /\ branch = [s \in Stores |-> [b \in {Default} |-> {}]]
    /\ copy = [c \in Copies |-> IF c \in Personas THEN Absent ELSE Fresh(Default)]
    /\ removal = NoRemoval
    /\ made = {} /\ lost = {}

Registered(c) == copy[c].place # "none"
There(c) == copy[c].place = "there"
BranchExists(s, b) == b \in DOMAIN branch[s]
HeadCommits(c) ==
    IF copy[c].head = Detached THEN copy[c].at ELSE branch[StoreOf(c)][copy[c].head]
\* git lets one working copy of a store at a time have a branch checked out.
CheckedOut(s, b) ==
    \E c \in Copies : StoreOf(c) = s /\ Registered(c) /\ copy[c].head = b

\* git rev-list --count <upstream>..<branch> and its converse.
CommitsNotIn(history, upstream) == history \ upstream

-----------------------------------------------------------------------------
(* What people and agents do in the working copies. *)
Unused == Commits \ (origin \cup made \cup UNION {copy[c].at : c \in Copies})
MakeCommit(c) ==
    /\ c \in Committers /\ There(c) /\ Unused # {}
    /\ LET new == CHOOSE n \in Unused : \A m \in Unused : n <= m
           b   == copy[c].head
       IN  IF b = Detached
           THEN /\ copy' = [copy EXCEPT ![c].at = @ \cup {new}, ![c].dirty = FALSE]
                /\ UNCHANGED <<branch, made>>
           ELSE /\ branch' = [branch EXCEPT ![StoreOf(c)][b] = @ \cup {new}]
                /\ copy' = [copy EXCEPT ![c].dirty = FALSE]
                /\ made' = made \cup {new}
    /\ UNCHANGED <<origin, seen, known, removal, lost>>

\* An edit that is not committed; only worktrees need it, where a removal may meet it.
Edit(p) ==
    /\ There(p) /\ ~copy[p].dirty
    /\ copy' = [copy EXCEPT ![p].dirty = TRUE]
    /\ UNCHANGED <<origin, seen, known, branch, removal, made, lost>>

Switch(c, b) ==
    /\ There(c) /\ ~copy[c].dirty
    /\ BranchExists(StoreOf(c), b) /\ ~CheckedOut(StoreOf(c), b)
    /\ copy' = [copy EXCEPT ![c].head = b, ![c].at = {}]
    /\ UNCHANGED <<origin, seen, known, branch, removal, made, lost>>
Detach(c) ==
    /\ There(c) /\ copy[c].head # Detached
    /\ copy' = [copy EXCEPT ![c].head = Detached, ![c].at = HeadCommits(c)]
    /\ UNCHANGED <<origin, seen, known, branch, removal, made, lost>>

\* A branch is merged into origin's default, by a push or by a pull request.
Merge(s, b) ==
    /\ BranchExists(s, b) /\ ~(branch[s][b] \subseteq origin)
    /\ origin' = origin \cup branch[s][b]
    /\ UNCHANGED <<seen, known, branch, copy, removal, made, lost>>

MoveAway(p, place) ==
    /\ There(p)
    /\ copy' = [copy EXCEPT ![p].place = place, ![p].dirty = @ /\ place = "elsewhere"]
    /\ UNCHANGED <<origin, seen, known, branch, removal, made, lost>>

-----------------------------------------------------------------------------
(* worktree.py *)

\* `worktree add`: on the persona's branch, made from origin's default if missing.
Add(p) ==
    LET b == BranchOf(p)
    IN  /\ ~Registered(p) /\ ~CheckedOut(Repo, b)
        /\ branch' = IF BranchExists(Repo, b) THEN branch
                     ELSE [branch EXCEPT ![Repo] =
                             [d \in DOMAIN @ \cup {b} |-> IF d = b THEN seen[Repo] ELSE @[d]]]
        /\ copy' = [copy EXCEPT ![p] = Fresh(b)]
        /\ UNCHANGED <<origin, seen, known, removal, made, lost>>

\* The worktree that `remove` finds: a registered one on the persona's branch.
Target(p) == {q \in Personas : Registered(q) /\ copy[q].head = BranchOf(p)}

\* What makes `remove` refuse: dirt where the directory is, commits that
\* origin/<default> does not have as far as this store has seen.
Ahead(q) == CommitsNotIn(HeadCommits(q), seen[Repo]) # {}
Problems(q) == (There(q) /\ copy[q].dirty) \/ Ahead(q)

RemoveRead(p, force) ==
    /\ removal.pc = "idle"
    /\ \E q \in Target(p) :
         /\ force \/ ~Problems(q)
         /\ removal' = [pc |-> "remove", persona |-> q, force |-> force]
    /\ UNCHANGED <<origin, seen, known, branch, copy, made, lost>>

Forces(force) == TRUE
ForceFlag(force) == force

\* git worktree remove [--force]: git refuses a worktree that is not clean, or
\* no longer registered, unless it is forced; the branch stays.
GitRemove ==
    /\ removal.pc = "remove"
    /\ removal' = NoRemoval
    /\ LET q == removal.persona
           forced == ForceFlag(removal.force)
       IN  IF Registered(q) /\ (forced \/ ~(There(q) /\ copy[q].dirty))
           THEN /\ copy' = [copy EXCEPT ![q] = Absent]
                /\ lost' = IF There(q) /\ copy[q].dirty /\ ~removal.force THEN lost \cup {q} ELSE lost
           ELSE UNCHANGED <<copy, lost>>
    /\ UNCHANGED <<origin, seen, known, branch, made>>

\* `worktree prune` drops every registration whose directory is not there;
\* a directory that was moved is left to itself.
Prune ==
    /\ \E p \in Personas : Registered(p) /\ ~There(p)
    /\ copy' = [p \in Copies |-> IF p \in Personas /\ ~There(p) THEN Absent ELSE copy[p]]
    /\ UNCHANGED <<origin, seen, known, branch, removal, made, lost>>

\* `worktree repair <path>`: a moved worktree that is still registered.
Repair(p) ==
    /\ copy[p].place = "elsewhere"
    /\ copy' = [copy EXCEPT ![p].place = "there"]
    /\ UNCHANGED <<origin, seen, known, branch, removal, made, lost>>

WNext ==
    \/ \E c \in Copies : MakeCommit(c)
    \/ \E p \in Personas : Edit(p)
    \/ \E c \in Copies, b \in Branches : Switch(c, b)
    \/ \E c \in Committers : Detach(c)
    \/ \E s \in Stores, b \in Branches : Merge(s, b)
    \/ \E p \in Personas, place \in {"gone", "elsewhere"} : MoveAway(p, place)
    \/ \E p \in Personas : Add(p)
    \/ \E p \in Personas, force \in BOOLEAN : RemoveRead(p, force)
    \/ GitRemove
    \/ Prune
    \/ \E p \in Personas : Repair(p)

-----------------------------------------------------------------------------
\* No command takes work away that it was not told to: an unforced remove never
\* deletes uncommitted changes, whatever is edited between its checks and git's
\* removal, and no commit made on a branch is without a branch that holds it,
\* however worktrees are removed, forced, pruned, moved or added again
\* (worktree.py, "removing a worktree never deletes history").
WorkIsKept ==
    /\ lost = {}
    /\ made \subseteq origin \cup UNION {UNION {branch[s][b] : b \in DOMAIN branch[s]} : s \in Stores}
=============================================================================
