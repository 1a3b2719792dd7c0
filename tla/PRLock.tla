-------------------------------- MODULE PRLock --------------------------------
(***************************************************************************)
(* `baron lock`: the open pull request is the lock                         *)
(* (cli/src/baron/lock.py over forge/github.py), and the lock-guard        *)
(* workflow that fails the pull requests of others.                        *)
(*                                                                         *)
(* The forge's pull requests and branches are the only shared state.  A    *)
(* command is a sequence of calls to the forge, each atomic there, with    *)
(* the commands of other processes in between.                             *)
(***************************************************************************)
EXTENDS Integers, Sequences, FiniteSets, FiniteSetsExt

CONSTANTS
  Procs,   \* the processes that run `baron lock`
  Paths,   \* the paths that are locked and worked on
  Slugs,   \* the names of lock branches
  Slug,    \* Slug[l]: the branch of path l; _slugify maps several paths to one
  Under,   \* Under[l]: the paths the guard's pattern `l|l/*` matches
  Page,    \* how many open pull requests one `gh pr list` returns
  MaxPRs,  \* bound: pull requests opened
  Faults   \* what happens besides the commands, of FaultKinds

FaultKinds == {
  "crash",      \* a command dies, or a call to the forge fails, between two calls
  "by-hand",    \* a lock pull request is merged or closed without baron
  "api" }       \* a `gh api` call of the guard fails

ASSUME LockAssumption ==
  /\ Paths # {}
  /\ Slug \in [Paths -> Slugs]
  /\ Under \in [Paths -> SUBSET Paths] /\ \A l \in Paths : l \in Under[l]
  /\ Page \in Nat \ {0} /\ MaxPRs \in Nat
  /\ Faults \subseteq FaultKinds

VARIABLES
  branch,   \* branch[s]: "none", "live", or "merged" when base contains its commit
  prs,      \* the pull requests in order of their numbers
  pc,       \* pc[p]: the next call of process p
  path,     \* path[p]: the path p's command was given
  held,     \* held[p]: the pull request p's release found
  stranded  \* history: the branches whose command or pull request was cut short

vars == <<branch, prs, pc, path, held, stranded>>

PR == [kind: {"lock", "work"}, path: Paths,
       state: {"open", "closed", "merged", "torn"},
       guard: {"none", "queued", "red", "green"},
       since: SUBSET Nat,  \* history: the locks open when its head was last pushed
       blind: BOOLEAN]     \* history: its check was given without the list of its files

LockPR(l) == [kind |-> "lock", path |-> l, state |-> "open", guard |-> "none", since |-> {},
              blind |-> FALSE]

AnyPath == CHOOSE l \in Paths : TRUE

Open == {n \in DOMAIN prs : prs[n].state = "open"}
Locks == {n \in Open : prs[n].kind = "lock"}

\* list_open_prs: gh returns the newest, and no more than a page.
Listed == {n \in Open : Cardinality({m \in Open : m > n}) < Page}

\* _open_locks, for one path.
Found(l) == {n \in Listed \cap Locks : prs[n].path = l}

Init ==
  /\ branch = [s \in Slugs |-> "none"]
  /\ prs = <<>>
  /\ pc = [p \in Procs |-> "idle"]
  /\ path = [p \in Procs |-> AnyPath]
  /\ held = [p \in Procs |-> 0]
  /\ stranded = {}

Goto(p, step) == pc' = [pc EXCEPT ![p] = step] /\ UNCHANGED <<path, held>>

\* The command ends, and its locals with it.
Return(p) ==
  /\ pc' = [pc EXCEPT ![p] = "idle"]
  /\ path' = [path EXCEPT ![p] = AnyPath]
  /\ held' = [held EXCEPT ![p] = 0]

-------------------------------------------------------------------------------
(***************************************************************************)
(* claim                                                                   *)
(***************************************************************************)

\* existing = [l for l in _open_locks(...) if l.path == path]: a lock found is
\* refused, and nothing changes.
ClaimList(p, l) ==
  /\ pc[p] = "idle"
  /\ Found(l) = {}
  /\ pc' = [pc EXCEPT ![p] = "branch"]
  /\ path' = [path EXCEPT ![p] = l]
  /\ UNCHANGED <<branch, prs, held, stranded>>

\* Mutant: the push of the lock branch is forced.
CreateBranchForced(p) ==
  /\ pc[p] = "branch"
  /\ branch' = [branch EXCEPT ![Slug[path[p]]] = "live"]
  /\ Goto(p, "open")
  /\ UNCHANGED <<prs, stranded>>

\* create_branch: git push of a new commit on base to refs/heads/lock/<slug>.  The
\* push is rejected unless the branch is absent or contained in base.
CreateBranch(p) ==
  LET s == Slug[path[p]]
  IN  /\ pc[p] = "branch"
      /\ IF branch[s] = "live"
         THEN Return(p) /\ UNCHANGED branch
         ELSE Goto(p, "open") /\ branch' = [branch EXCEPT ![s] = "live"]
      /\ UNCHANGED <<prs, stranded>>

\* open_pr: a draft from the lock branch, labelled with the path.  gh refuses a missing
\* branch and a second pull request from one; OneOwner shows neither can be.
OpenLockPR(p) ==
  /\ pc[p] = "open"
  /\ Len(prs) < MaxPRs
  /\ prs' = Append(prs, LockPR(path[p]))
  /\ Return(p)
  /\ UNCHANGED <<branch, stranded>>

-------------------------------------------------------------------------------
(***************************************************************************)
(* release                                                                 *)
(***************************************************************************)

\* Mutant: the number is left at its default, pr.get("number", 0).
ReleaseListNumberless(p, l) ==
  /\ pc[p] = "idle"
  /\ Found(l) # {}
  /\ path' = [path EXCEPT ![p] = l]
  /\ held' = [held EXCEPT ![p] = 0]
  /\ pc' = [pc EXCEPT ![p] = "close"]
  /\ UNCHANGED <<branch, prs, stranded>>

\* held = matches[0], the newest, whoever holds it; with no match the release is refused.
ReleaseList(p, l) ==
  /\ pc[p] = "idle"
  /\ Found(l) # {}
  /\ path' = [path EXCEPT ![p] = l]
  /\ held' = [held EXCEPT ![p] = Max(Found(l))]
  /\ pc' = [pc EXCEPT ![p] = "close"]
  /\ UNCHANGED <<branch, prs, stranded>>

\* Its check and its history matter no more.
Settle(n, how) ==
  prs' = [prs EXCEPT ![n] = [prs[n] EXCEPT !.state = how, !.guard = "none", !.since = {},
                                           !.blind = FALSE]]

\* Mutant: a pull request that is closed already is not the end of the release.
ClosePRBlind(p) ==
  /\ pc[p] = "close"
  /\ Settle(held[p], "closed")
  /\ Goto(p, "delete")
  /\ UNCHANGED <<branch, stranded>>

\* Mutant: close_pr without --delete-branch.
ClosePROnly(p) ==
  /\ pc[p] = "close"
  /\ IF held[p] \in Open THEN Settle(held[p], "closed") ELSE UNCHANGED prs
  /\ Return(p)
  /\ UNCHANGED <<branch, stranded>>

\* gh pr close: one that is no longer open ends the command there.
ClosePR(p) ==
  /\ pc[p] = "close"
  /\ IF held[p] \in Open
     THEN Settle(held[p], "closed") /\ Goto(p, "delete")
     ELSE Return(p) /\ UNCHANGED prs
  /\ UNCHANGED <<branch, stranded>>

\* --delete-branch: the forge closes an open pull request that loses its branch.
DeleteBranch(p) ==
  LET s == Slug[path[p]]
  IN  /\ pc[p] = "delete"
      /\ branch' = [branch EXCEPT ![s] = "none"]
      /\ prs' = [n \in DOMAIN prs |->
                   IF n \in Locks /\ Slug[prs[n].path] = s
                   THEN [prs[n] EXCEPT !.state = "torn"] ELSE prs[n]]
      /\ Return(p)
      /\ UNCHANGED stranded

-------------------------------------------------------------------------------
(***************************************************************************)
(* Around the commands                                                     *)
(***************************************************************************)

Crash(p) ==
  /\ "crash" \in Faults
  /\ pc[p] # "idle"
  /\ Return(p)
  /\ stranded' = IF pc[p] \in {"open", "delete"} THEN stranded \cup {Slug[path[p]]}
                                                 ELSE stranded
  /\ UNCHANGED <<branch, prs>>

\* "merge/close this PR": the branch stays; a merge commit makes base contain it, a
\* squash does not.
SettleByHand(n) ==
  LET s == Slug[prs[n].path]
  IN  /\ "by-hand" \in Faults
      /\ n \in Locks
      /\ \/ /\ Settle(n, "merged")
            /\ branch' = [branch EXCEPT ![s] = "merged"]
            /\ UNCHANGED stranded
         \/ /\ \E how \in {"closed", "merged"} : Settle(n, how)
            /\ stranded' = stranded \cup {s}
            /\ UNCHANGED branch
      /\ UNCHANGED <<pc, path, held>>

\* Someone opens a pull request that touches l: the event queues the guard.
OpenWork(l) ==
  /\ Len(prs) < MaxPRs
  /\ prs' = Append(prs, [kind |-> "work", path |-> l, state |-> "open",
                         guard |-> "queued", since |-> Locks, blind |-> FALSE])
  /\ UNCHANGED <<branch, pc, path, held, stranded>>

OpenWorkPRs == Open \ Locks

\* Another push to it (synchronize): the new head has no check yet.
PushWork(n) ==
  /\ n \in OpenWorkPRs
  /\ prs[n].guard # "queued"
  /\ prs' = [prs EXCEPT ![n] = [prs[n] EXCEPT !.guard = "queued", !.since = Locks,
                                               !.blind = FALSE]]
  /\ UNCHANGED <<branch, pc, path, held, stranded>>

\* Mutant: the pattern of a directory lock does not match the files in it.
CollidesExactly(n) == \E m \in Locks \ {n} : prs[m].path = prs[n].path

\* A file of n matches the label of another open pull request.
Collides(n) == \E m \in Locks \ {n} : prs[n].path \in Under[prs[m].path]

Check(n, answer, unlisted) ==
  prs' = [prs EXCEPT ![n] = [prs[n] EXCEPT !.guard = answer, !.blind = unlisted]]

\* The workflow lists the files of the pull request, then the locks of the moment (all
\* pages of both).  It fails if the locks cannot be listed (`set -e` sees the status of
\* locks=$(gh api ...)).  It does not if the files cannot: the status of a process
\* substitution, `mapfile < <(gh api ...)`, is nobody's, no file is compared with any
\* lock, and the job is green.
RunGuard(n) ==
  /\ n \in OpenWorkPRs
  /\ prs[n].guard = "queued"
  /\ \/ Check(n, IF Collides(n) THEN "red" ELSE "green", FALSE)
     \/ "api" \in Faults /\ Check(n, "red", FALSE)
     \/ "api" \in Faults /\ Check(n, "green", TRUE)
  /\ UNCHANGED <<branch, pc, path, held, stranded>>

\* By convention, what is green may be merged; what is not may be abandoned.
SettleWork(n) ==
  /\ n \in OpenWorkPRs
  /\ Settle(n, IF prs[n].guard = "green" THEN "merged" ELSE "closed")
  /\ UNCHANGED <<branch, pc, path, held, stranded>>

Command(p) ==
  \/ \E l \in Paths : ClaimList(p, l) \/ ReleaseList(p, l)
  \/ CreateBranch(p) \/ OpenLockPR(p)
  \/ ClosePR(p) \/ DeleteBranch(p)

Next ==
  \/ \E p \in Procs : Command(p) \/ Crash(p)
  \/ \E l \in Paths : OpenWork(l)
  \/ \E n \in DOMAIN prs : SettleByHand(n) \/ PushWork(n) \/ RunGuard(n) \/ SettleWork(n)

Spec == Init /\ [][Next]_vars

-------------------------------------------------------------------------------
(***************************************************************************)
(* Properties                                                              *)
(***************************************************************************)

\* The variables hold what the forge and the locals of the commands can hold: a release
\* about to close a pull request has the number of a lock on its own path (lock.py,
\* release: held.pr_number).
TypeOK ==
  /\ branch \in [Slugs -> {"none", "live", "merged"}]
  /\ prs \in Seq(PR)
  /\ pc \in [Procs -> {"idle", "branch", "open", "close", "delete"}]
  /\ path \in [Procs -> Paths]
  /\ held \in [Procs -> Nat]
  /\ \A p \in Procs : pc[p] = "close" =>
       held[p] \in DOMAIN prs /\ prs[held[p]].kind = "lock" /\ prs[held[p]].path = path[p]
  /\ stranded \subseteq Slugs

LocksOn(s) == {n \in Locks : Slug[prs[n].path] = s}
At(step, s) == {p \in Procs : pc[p] = step /\ Slug[path[p]] = s}

\* Who depends on a lock branch: the lock pull request from it, the claim that has made
\* it and the release that is to delete it.
Owners(s) == ({"lock"} \X LocksOn(s)) \cup ({"claim"} \X At("open", s))
             \cup ({"release"} \X At("delete", s))

\* However claims and releases interleave, and whatever a list that stops after a page
\* leaves out, at most one of them holds a branch or is about to, and nobody takes the
\* branch away from it.
OneOwner ==
  \A s \in Slugs :
    /\ \A x, y \in Owners(s) : x = y
    /\ Owners(s) # {} => branch[s] = "live"

\* A lock is lost only by a release or a close of that very pull request: no late
\* release of an earlier lock takes the branch from under a later one.
NoTornLock == \A n \in DOMAIN prs : prs[n].state # "torn"

\* Only a command or a pull request that was cut short leaves a branch behind that
\* blocks every later claim.
ReleaseIsComplete == \A s \in Slugs \ stranded : branch[s] = "live" => Owners(s) # {}

\* Whatever is green beneath an open lock is so for one of two reasons, and no other: the
\* lock was claimed after the last push (a claim runs no guard but its own), or the guard
\* could not list the files and did not notice.
GuardHonoursLocks ==
  \A n \in OpenWorkPRs : prs[n].guard = "green" =>
    \A m \in Locks :
      prs[n].path \in Under[prs[m].path] => m \notin prs[n].since \/ prs[n].blind

===============================================================================
