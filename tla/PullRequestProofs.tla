--------------------------- MODULE PullRequestProofs ---------------------------
(***************************************************************************)
(* Theorems about what happens on the pull requests: about `baron lock`,   *)
(* for any number of processes, paths, slugs and pull requests, any page   *)
(* size and any faults; and about the merge gate, for any personas and     *)
(* reviewers and any number of heads, comments and runs of `baron review   *)
(* sign`.                                                                  *)
(***************************************************************************)
EXTENDS PRLock, MergeGate, WellFoundedInduction, SequenceTheorems, TLAPS

-------------------------------------------------------------------------------
(***************************************************************************)
(* Least and largest naturals, for Max                                     *)
(***************************************************************************)

\* Every set of naturals has a least element.
LEMMA LeastNatural ==
  ASSUME NEW S, S \subseteq Nat, S # {}
  PROVE  \E x \in S : \A y \in S : x <= y
<1> DEFINE Less == {r \in Nat \X Nat : r[1] < r[2]}
<1>1. IsWellFoundedOn(Less, Nat)
  BY NatLessThanWellFounded DEF OpToRel
<1> HIDE DEF Less
<1>2. PICK x \in S : \A y \in S : <<y, x>> \notin Less
  BY <1>1, WFMin
<1>3. \A y \in S : ~ (y < x)
  BY <1>2 DEF Less
<1> QED
  BY <1>2, <1>3

\* A non-empty set of naturals with an upper bound has a largest element.
LEMMA LargestNatural ==
  ASSUME NEW S, S \subseteq Nat, S # {}, NEW bound \in Nat, \A x \in S : x <= bound
  PROVE  \E x \in S : \A y \in S : x >= y
<1> DEFINE below == {bound - x : x \in S}
<1>1. below \subseteq Nat /\ below # {}
  <2>1. \A x \in S : bound - x \in Nat
    OBVIOUS
  <2>2. PICK x \in S : TRUE
    OBVIOUS
  <2>3. bound - x \in below
    BY <2>2
  <2> QED
    BY <2>1, <2>3
<1>2. PICK d \in below : \A e \in below : d <= e
  <2> HIDE DEF below
  <2> QED
    BY <1>1, LeastNatural
<1>3. PICK x \in S : d = bound - x
  BY <1>2
<1>4. ASSUME NEW y \in S PROVE x >= y
  <2>1. bound - x <= bound - y
    BY <1>2, <1>3
  <2> QED
    BY <2>1
<1> QED
  BY <1>3, <1>4

-------------------------------------------------------------------------------
(***************************************************************************)
(* What the operations do to the list of pull requests                     *)
(***************************************************************************)

\* A lock is one of the pull requests.
LEMMA LocksType ==
  ASSUME TypeOK
  PROVE  /\ Locks \subseteq Open /\ Open \subseteq 1..Len(prs)
         /\ \A n \in 1..Len(prs) : prs[n] \in PR
         /\ Len(prs) \in Nat
BY DEF TypeOK, Locks, Open

LEMMA SettleType ==
  ASSUME TypeOK, NEW n \in 1..Len(prs), NEW how \in {"closed", "merged"}, Settle(n, how)
  PROVE  /\ prs' \in Seq(PR) /\ Len(prs') = Len(prs)
         /\ \A m \in 1..Len(prs) : m # n => prs'[m] = prs[m]
         /\ prs'[n].kind = prs[n].kind /\ prs'[n].path = prs[n].path /\ prs'[n].state = how
<1> DEFINE settled == [prs[n] EXCEPT !.state = how, !.guard = "none", !.since = {}, !.blind = FALSE]
<1>1. prs[n] \in PR
  BY LocksType
<1>2. /\ settled \in PR
      /\ settled.kind = prs[n].kind /\ settled.path = prs[n].path /\ settled.state = how
  BY <1>1 DEF PR
<1>3. prs' = [prs EXCEPT ![n] = settled]
  BY DEF Settle
<1> HIDE DEF settled
<1>4. prs \in Seq(PR)
  BY DEF TypeOK
<1> QED
  BY <1>2, <1>3, <1>4, ExceptSeq

LEMMA AnyPathType ==
  ASSUME NEW l \in Paths
  PROVE  AnyPath \in Paths
BY DEF AnyPath

\* A process that returns is at no other step, and the others stay where they are.
LEMMA ReturnEffect ==
  ASSUME TypeOK, NEW p \in Procs, Return(p)
  PROVE  /\ pc' \in [Procs -> {"idle", "branch", "open", "close", "delete"}]
         /\ path' \in [Procs -> Paths] /\ held' \in [Procs -> Nat]
         /\ pc'[p] = "idle"
         /\ \A q \in Procs \ {p} : pc'[q] = pc[q] /\ path'[q] = path[q] /\ held'[q] = held[q]
<1>1. path[p] \in Paths
  BY DEF TypeOK
<1>2. AnyPath \in Paths
  BY <1>1, AnyPathType
<1> QED
  BY <1>2 DEF TypeOK, Return

LEMMA GotoEffect ==
  ASSUME TypeOK, NEW p \in Procs, NEW step \in {"open", "delete"}, Goto(p, step)
  PROVE  /\ pc' \in [Procs -> {"idle", "branch", "open", "close", "delete"}]
         /\ path' \in [Procs -> Paths] /\ held' \in [Procs -> Nat]
         /\ pc'[p] = step
         /\ \A q \in Procs \ {p} : pc'[q] = pc[q]
         /\ path' = path /\ held' = held
BY DEF TypeOK, Goto

\* A list of pull requests that keeps kind and path of each keeps the type of what the
\* releases hold.
Keeps(old, new) ==
  /\ Len(old) <= Len(new)
  /\ \A n \in 1..Len(old) : new[n].kind = old[n].kind /\ new[n].path = old[n].path

LEMMA HeldKept ==
  ASSUME TypeOK, prs' \in Seq(PR), Keeps(prs, prs'), NEW p \in Procs,
         pc[p] = "close", held'[p] = held[p], path'[p] = path[p]
  PROVE  held'[p] \in DOMAIN prs' /\ prs'[held'[p]].kind = "lock"
         /\ prs'[held'[p]].path = path'[p]
BY DEF TypeOK, Keeps

\* The pull request a release takes is one of those it found.
LEMMA NewestFound ==
  ASSUME TypeOK, NEW l \in Paths, Found(l) # {}
  PROVE  Max(Found(l)) \in Found(l)
<1>1. Found(l) \subseteq 1..Len(prs) /\ Len(prs) \in Nat
  BY LocksType DEF Found, Listed
<1>2. \E x \in Found(l) : \A y \in Found(l) : x >= y
  BY <1>1, LargestNatural
<1> QED
  BY <1>2 DEF Max

-------------------------------------------------------------------------------
(***************************************************************************)
(* Types                                                                   *)
(***************************************************************************)

\* The type of everything that a step of a process p on the pull requests has to keep.
LEMMA TypeOfStep ==
  ASSUME TypeOK, NEW p \in Procs,
         prs' \in Seq(PR), Keeps(prs, prs'),
         branch' \in [Slugs -> {"none", "live", "merged"}], stranded' \subseteq Slugs,
         Return(p) \/ Goto(p, "open") \/ Goto(p, "delete")
  PROVE  TypeOK'
<1>1. \A q \in Procs : pc'[q] = "close" =>
        q # p /\ pc[q] = "close" /\ held'[q] = held[q] /\ path'[q] = path[q]
  BY ReturnEffect, GotoEffect
<1>2. \A q \in Procs : pc'[q] = "close" =>
        held'[q] \in DOMAIN prs' /\ prs'[held'[q]].kind = "lock"
        /\ prs'[held'[q]].path = path'[q]
  BY <1>1, HeldKept
<1> QED
  BY <1>2, ReturnEffect, GotoEffect DEF TypeOK

\* The same for a step of nobody's command.
LEMMA TypeOfOtherStep ==
  ASSUME TypeOK, prs' \in Seq(PR), Keeps(prs, prs'),
         branch' \in [Slugs -> {"none", "live", "merged"}], stranded' \subseteq Slugs,
         UNCHANGED <<pc, path, held>>
  PROVE  TypeOK'
<1>1. \A q \in Procs : pc'[q] = "close" =>
        held'[q] \in DOMAIN prs' /\ prs'[held'[q]].kind = "lock"
        /\ prs'[held'[q]].path = path'[q]
  BY HeldKept DEF TypeOK
<1> QED
  BY <1>1 DEF TypeOK

LEMMA KeepsSame ==
  ASSUME TypeOK, UNCHANGED prs
  PROVE  prs' \in Seq(PR) /\ Keeps(prs, prs')
<1>1. Len(prs) \in Nat
  BY LocksType
<1> QED
  BY <1>1 DEF TypeOK, Keeps

LEMMA KeepsSettled ==
  ASSUME TypeOK, NEW n \in 1..Len(prs), NEW how \in {"closed", "merged"}, Settle(n, how)
  PROVE  prs' \in Seq(PR) /\ Keeps(prs, prs')
<1>1. Len(prs) \in Nat
  BY LocksType
<1> QED
  BY <1>1, SettleType DEF Keeps

LEMMA KeepsAppended ==
  ASSUME TypeOK, NEW pr \in PR, prs' = Append(prs, pr)
  PROVE  /\ prs' \in Seq(PR) /\ Keeps(prs, prs') /\ Len(prs') = Len(prs) + 1
         /\ \A n \in 1..Len(prs) : prs'[n] = prs[n]
         /\ prs'[Len(prs) + 1] = pr
<1>1. Len(prs) \in Nat /\ prs \in Seq(PR)
  BY LocksType DEF TypeOK
<1> QED
  BY <1>1, AppendProperties DEF Keeps

\* What DeleteBranch does to a pull request.
LEMMA TornType ==
  ASSUME TypeOK, NEW p \in Procs, DeleteBranch(p)
  PROVE  /\ prs' \in Seq(PR) /\ Keeps(prs, prs') /\ Len(prs') = Len(prs)
         /\ \A n \in 1..Len(prs) :
              \/ prs'[n] = prs[n]
              \/ n \in LocksOn(Slug[path[p]]) /\ prs'[n].state = "torn"
<1> DEFINE s == Slug[path[p]]
           torn(n) == IF n \in Locks /\ Slug[prs[n].path] = s
                      THEN [prs[n] EXCEPT !.state = "torn"] ELSE prs[n]
<1>1. Len(prs) \in Nat /\ DOMAIN prs = 1..Len(prs)
  BY LocksType DEF TypeOK
<1>2. prs' = [n \in 1..Len(prs) |-> torn(n)]
  BY <1>1 DEF DeleteBranch
<1>3. ASSUME NEW n \in 1..Len(prs)
      PROVE  /\ torn(n) \in PR /\ torn(n).kind = prs[n].kind /\ torn(n).path = prs[n].path
             /\ \/ torn(n) = prs[n]
                \/ n \in LocksOn(s) /\ torn(n).state = "torn"
  <2>1. prs[n] \in PR
    BY LocksType
  <2>2. [prs[n] EXCEPT !.state = "torn"] \in PR
    BY <2>1 DEF PR
  <2> QED
    BY <2>1, <2>2 DEF PR, LocksOn
<1> HIDE DEF torn, s
<1>4. prs' \in Seq(PR) /\ Len(prs') = Len(prs)
  BY <1>1, <1>2, <1>3, IsASeq
<1>5. \A n \in 1..Len(prs) : prs'[n] = torn(n)
  BY <1>2
<1> QED
  BY <1>1, <1>3, <1>4, <1>5 DEF Keeps, s

\* What the guard, a push to a pull request or its end do to it.
WorkStep(n) == PushWork(n) \/ RunGuard(n) \/ SettleWork(n)

LEMMA WorkType ==
  ASSUME TypeOK, NEW n \in 1..Len(prs), WorkStep(n)
  PROVE  /\ prs' \in Seq(PR) /\ Keeps(prs, prs') /\ Len(prs') = Len(prs)
         /\ \A m \in 1..Len(prs) : m # n => prs'[m] = prs[m]
         /\ prs[n].kind = "work" /\ prs'[n].kind = "work"
         /\ prs'[n].state # "torn"
<1>1. /\ Len(prs) \in Nat /\ prs \in Seq(PR) /\ prs[n] \in PR
      /\ Locks \subseteq Nat
  BY LocksType DEF TypeOK
<1>2. n \in OpenWorkPRs
  BY DEF WorkStep, PushWork, RunGuard, SettleWork
<1>3. prs[n].kind = "work" /\ prs[n].state = "open"
  BY <1>1, <1>2 DEF OpenWorkPRs, Open, Locks, PR
<1>4. ASSUME NEW pr \in PR, pr.kind = "work", pr.path = prs[n].path, pr.state # "torn",
             prs' = [prs EXCEPT ![n] = pr]
      PROVE  /\ prs' \in Seq(PR) /\ Keeps(prs, prs') /\ Len(prs') = Len(prs)
             /\ \A m \in 1..Len(prs) : m # n => prs'[m] = prs[m]
             /\ prs'[n] = pr
  BY <1>1, <1>3, <1>4, ExceptSeq DEF Keeps
<1>5. CASE PushWork(n)
  <2> DEFINE pr == [prs[n] EXCEPT !.guard = "queued", !.since = Locks, !.blind = FALSE]
  <2>1. pr \in PR /\ pr.kind = "work" /\ pr.path = prs[n].path /\ pr.state # "torn"
    BY <1>1, <1>3 DEF PR
  <2>2. prs' = [prs EXCEPT ![n] = pr]
    BY <1>5 DEF PushWork
  <2> HIDE DEF pr
  <2> QED
    BY <1>3, <1>4, <2>1, <2>2
<1>6. CASE RunGuard(n)
  <2>1. PICK answer \in {"red", "green"}, unlisted \in BOOLEAN : Check(n, answer, unlisted)
    BY <1>6 DEF RunGuard
  <2> DEFINE pr == [prs[n] EXCEPT !.guard = answer, !.blind = unlisted]
  <2>2. pr \in PR /\ pr.kind = "work" /\ pr.path = prs[n].path /\ pr.state # "torn"
    BY <1>1, <1>3 DEF PR
  <2>3. prs' = [prs EXCEPT ![n] = pr]
    BY <2>1 DEF Check
  <2> HIDE DEF pr
  <2> QED
    BY <1>3, <1>4, <2>2, <2>3
<1>7. CASE SettleWork(n)
  <2>1. PICK how \in {"closed", "merged"} : Settle(n, how)
    BY <1>7 DEF SettleWork
  <2> QED
    BY <1>1, <1>3, <2>1, SettleType, KeepsSettled
<1> QED
  BY <1>5, <1>6, <1>7 DEF WorkStep

LEMMA LockPRType ==
  ASSUME NEW l \in Paths
  PROVE  LockPR(l) \in PR
BY DEF LockPR, PR

LEMMA WorkPRType ==
  ASSUME TypeOK, NEW l \in Paths
  PROVE  [kind |-> "work", path |-> l, state |-> "open",
          guard |-> "queued", since |-> Locks, blind |-> FALSE] \in PR
<1>1. Locks \subseteq Nat
  BY LocksType
<1> QED
  BY <1>1 DEF PR

\* Every step keeps the types.
LEMMA TypeStep ==
  ASSUME TypeOK, Next
  PROVE  TypeOK'
<1>0. /\ branch \in [Slugs -> {"none", "live", "merged"}] /\ stranded \subseteq Slugs
      /\ Slug \in [Paths -> Slugs]
      /\ \A p \in Procs : path[p] \in Paths /\ Slug[path[p]] \in Slugs
  BY LockAssumption DEF TypeOK
<1>1. ASSUME NEW p \in Procs, NEW l \in Paths, ClaimList(p, l) PROVE TypeOK'
  BY <1>1 DEF ClaimList, TypeOK
<1>2. ASSUME NEW p \in Procs, NEW l \in Paths, ReleaseList(p, l) PROVE TypeOK'
  <2>1. Max(Found(l)) \in Found(l)
    BY <1>2, NewestFound DEF ReleaseList
  <2>2. /\ Max(Found(l)) \in Nat /\ Max(Found(l)) \in DOMAIN prs
        /\ prs[Max(Found(l))].kind = "lock" /\ prs[Max(Found(l))].path = l
    BY <2>1, LocksType DEF Found, Listed, Locks, Open
  <2> QED
    BY <1>2, <2>2 DEF ReleaseList, TypeOK
<1>3. ASSUME NEW p \in Procs, CreateBranch(p) PROVE TypeOK'
  <2>1. /\ Return(p) \/ Goto(p, "open")
        /\ branch' \in [Slugs -> {"none", "live", "merged"}]
        /\ UNCHANGED <<prs, stranded>>
    BY <1>0, <1>3 DEF CreateBranch
  <2> QED
    BY <1>0, <2>1, KeepsSame, TypeOfStep
<1>4. ASSUME NEW p \in Procs, OpenLockPR(p) PROVE TypeOK'
  BY <1>0, <1>4, LockPRType, KeepsAppended, TypeOfStep DEF OpenLockPR
<1>5. ASSUME NEW p \in Procs, ClosePR(p) PROVE TypeOK'
  <2>1. held[p] \in 1..Len(prs)
    BY <1>5 DEF ClosePR, TypeOK
  <2>2. prs' \in Seq(PR) /\ Keeps(prs, prs')
    BY <1>5, <2>1, KeepsSame, KeepsSettled DEF ClosePR
  <2> QED
    BY <1>0, <1>5, <2>2, TypeOfStep DEF ClosePR
<1>6. ASSUME NEW p \in Procs, DeleteBranch(p) PROVE TypeOK'
  <2>1. branch' \in [Slugs -> {"none", "live", "merged"}] /\ Return(p) /\ UNCHANGED stranded
    BY <1>0, <1>6 DEF DeleteBranch
  <2> QED
    BY <1>0, <1>6, <2>1, TornType, TypeOfStep
<1>7. ASSUME NEW p \in Procs, Crash(p) PROVE TypeOK'
  <2>1. stranded' \subseteq Slugs /\ Return(p) /\ UNCHANGED <<branch, prs>>
    BY <1>0, <1>7 DEF Crash
  <2> QED
    BY <1>0, <2>1, KeepsSame, TypeOfStep
<1>8. ASSUME NEW l \in Paths, OpenWork(l) PROVE TypeOK'
  BY <1>0, <1>8, WorkPRType, KeepsAppended, TypeOfOtherStep DEF OpenWork
<1>9. ASSUME NEW n \in DOMAIN prs, SettleByHand(n) PROVE TypeOK'
  <2>1. n \in 1..Len(prs) /\ Slug[prs[n].path] \in Slugs
    BY <1>0, <1>9, LocksType DEF SettleByHand, PR
  <2>2. PICK how \in {"closed", "merged"} : Settle(n, how)
    BY <1>9 DEF SettleByHand
  <2>3. /\ branch' \in [Slugs -> {"none", "live", "merged"}] /\ stranded' \subseteq Slugs
        /\ UNCHANGED <<pc, path, held>>
    BY <1>0, <1>9, <2>1 DEF SettleByHand
  <2> QED
    BY <2>1, <2>2, <2>3, KeepsSettled, TypeOfOtherStep
<1>10. ASSUME NEW n \in DOMAIN prs, WorkStep(n) PROVE TypeOK'
  <2>1. n \in 1..Len(prs)
    BY DEF TypeOK
  <2>2. UNCHANGED <<branch, pc, path, held, stranded>>
    BY <1>10 DEF WorkStep, PushWork, RunGuard, SettleWork
  <2> QED
    BY <1>0, <1>10, <2>1, <2>2, WorkType, TypeOfOtherStep
<1> QED
  BY <1>1, <1>2, <1>3, <1>4, <1>5, <1>6, <1>7, <1>8, <1>9, <1>10
     DEF Next, Command, WorkStep

LEMMA TypeInit == Init => TypeOK
<1> SUFFICES ASSUME Init PROVE TypeOK
  OBVIOUS
<1>1. AnyPath \in Paths
  BY LockAssumption DEF AnyPath
<1> QED
  BY <1>1 DEF Init, TypeOK

\* The variables keep their types, and a release holds a lock pull request of its path.
THEOREM TypeCorrect == Spec => []TypeOK
<1>1. TypeOK /\ [Next]_vars => TypeOK'
  <2> SUFFICES ASSUME TypeOK, [Next]_vars PROVE TypeOK'
    OBVIOUS
  <2>1. CASE UNCHANGED vars
    BY <2>1 DEF vars, TypeOK
  <2> QED
    BY <2>1, TypeStep
<1> QED
  BY <1>1, TypeInit, PTL DEF Spec

-------------------------------------------------------------------------------
(***************************************************************************)
(* OneOwner is inductive: a step leaves the owners of a branch alone,      *)
(* takes the branch when it has none, hands it on, or gives it up.         *)
(***************************************************************************)

LEMMA OwnersOf ==
  ASSUME NEW s, NEW x
  PROVE  x \in Owners(s) <=>
           \/ \E n \in Locks : Slug[prs[n].path] = s /\ x = <<"lock", n>>
           \/ \E p \in Procs : pc[p] = "open" /\ Slug[path[p]] = s /\ x = <<"claim", p>>
           \/ \E p \in Procs : pc[p] = "delete" /\ Slug[path[p]] = s /\ x = <<"release", p>>
BY DEF Owners, LocksOn, At

\* It is enough to look at each branch.
LEMMA OwnersStep ==
  ASSUME OneOwner,
         \A s \in Slugs :
           \/ Owners(s)' \subseteq Owners(s) /\ branch'[s] = branch[s]
           \/ Owners(s)' = {}
           \/ branch'[s] = "live" /\ \E x : Owners(s)' \subseteq {x}
  PROVE  OneOwner'
BY DEF OneOwner

\* Locks that stay, go or are those of before.
LEMMA NoNewLock ==
  ASSUME TypeOK, prs' \in Seq(PR), Len(prs') = Len(prs),
         \A n \in 1..Len(prs) :
           \/ prs'[n] = prs[n]
           \/ prs'[n].state # "open"
           \/ prs'[n].kind = "work"
  PROVE  \A n \in Locks' : n \in Locks /\ prs'[n] = prs[n]
<1> SUFFICES ASSUME NEW n \in Locks' PROVE n \in Locks /\ prs'[n] = prs[n]
  OBVIOUS
<1>1. n \in DOMAIN prs' /\ prs'[n].kind = "lock" /\ prs'[n].state = "open"
  BY DEF Locks, Open
<1>2. DOMAIN prs' = 1..Len(prs') /\ DOMAIN prs = 1..Len(prs)
  BY DEF TypeOK
<1>3. n \in 1..Len(prs)
  BY <1>1, <1>2
<1>4. prs'[n] = prs[n]
  BY <1>1, <1>3
<1> QED
  BY <1>1, <1>2, <1>3, <1>4 DEF Locks, Open

\* With no new lock, and no process that gets to be an owner, the owners are those of
\* before.
LEMMA NoNewOwner ==
  ASSUME \A n \in Locks' : n \in Locks /\ prs'[n] = prs[n],
         \A p \in Procs : pc'[p] \in {"open", "delete"} => pc'[p] = pc[p] /\ path'[p] = path[p]
  PROVE  \A s \in Slugs : Owners(s)' \subseteq Owners(s)
BY DEF Owners, LocksOn, At

LEMMA OwnerStep ==
  ASSUME TypeOK, OneOwner, Next
  PROVE  OneOwner'
<1>0. /\ TypeOK'
      /\ branch \in [Slugs -> {"none", "live", "merged"}]
      /\ pc \in [Procs -> {"idle", "branch", "open", "close", "delete"}]
      /\ \A p \in Procs : path[p] \in Paths /\ Slug[path[p]] \in Slugs
      /\ prs' \in Seq(PR)
  BY TypeStep, LockAssumption DEF TypeOK
<1>1. UNCHANGED prs => \A n \in Locks' : n \in Locks /\ prs'[n] = prs[n]
  BY DEF Locks, Open
<1>2. ASSUME UNCHANGED branch,
             \A n \in Locks' : n \in Locks /\ prs'[n] = prs[n],
             \A p \in Procs : pc'[p] \in {"open", "delete"} =>
               pc'[p] = pc[p] /\ path'[p] = path[p]
      PROVE  OneOwner'
  BY <1>2, NoNewOwner, OwnersStep
<1>3. ASSUME NEW p \in Procs, NEW l \in Paths, ClaimList(p, l) PROVE OneOwner'
  BY <1>0, <1>1, <1>2, <1>3 DEF ClaimList, TypeOK
<1>4. ASSUME NEW p \in Procs, NEW l \in Paths, ReleaseList(p, l) PROVE OneOwner'
  BY <1>0, <1>1, <1>2, <1>4 DEF ReleaseList, TypeOK
<1>5. ASSUME NEW p \in Procs, Crash(p) PROVE OneOwner'
  <2>1. Return(p) /\ UNCHANGED <<branch, prs>>
    BY <1>5 DEF Crash
  <2> QED
    BY <1>1, <1>2, <2>1, ReturnEffect
<1>6. ASSUME NEW p \in Procs, CreateBranch(p) PROVE OneOwner'
  <2> PICK s \in Slugs : s = Slug[path[p]]
    BY <1>0
  <2>1. CASE branch[s] = "live"
    <3>1. Return(p) /\ UNCHANGED <<branch, prs>>
      BY <1>6, <2>1 DEF CreateBranch
    <3> QED
      BY <1>1, <1>2, <3>1, ReturnEffect
  <2>2. CASE branch[s] # "live"
    <3>1. /\ pc[p] = "branch" /\ Goto(p, "open") /\ UNCHANGED prs
          /\ branch' = [branch EXCEPT ![s] = "live"]
      BY <1>6, <2>2 DEF CreateBranch
    <3>2. Owners(s) = {}
      BY <1>0, <2>2 DEF OneOwner
    <3>3. ASSUME NEW t \in Slugs, NEW x \in Owners(t)'
          PROVE  x \in Owners(t) \/ (t = s /\ x = <<"claim", p>>)
      BY <1>1, <3>1, GotoEffect DEF Owners, LocksOn, At
    <3>4. Owners(s)' \subseteq {<<"claim", p>>} /\ branch'[s] = "live"
      BY <1>0, <3>1, <3>2, <3>3
    <3>5. \A t \in Slugs \ {s} : Owners(t)' \subseteq Owners(t) /\ branch'[t] = branch[t]
      BY <1>0, <3>1, <3>3
    <3> QED
      BY <3>4, <3>5, OwnersStep
  <2> QED
    BY <2>1, <2>2
<1>7. ASSUME NEW p \in Procs, OpenLockPR(p) PROVE OneOwner'
  <2> PICK s \in Slugs : s = Slug[path[p]]
    BY <1>0
  <2> PICK new : new = Len(prs) + 1
    OBVIOUS
  <2>1. /\ pc[p] = "open" /\ Return(p) /\ UNCHANGED branch
        /\ prs' = Append(prs, LockPR(path[p]))
    BY <1>7 DEF OpenLockPR
  <2>2. LockPR(path[p]) \in PR
    BY <1>0, LockPRType
  <2>3. Len(prs') = new /\ prs'[new] = LockPR(path[p]) /\ \A n \in 1..Len(prs) : prs'[n] = prs[n]
    BY <2>1, <2>2, KeepsAppended
  <2>4. ASSUME NEW n \in Locks'
        PROVE  (n \in Locks /\ prs'[n] = prs[n]) \/ (n = new /\ prs'[n].path = path[p])
    <3>1. n \in 1..new /\ prs'[n].kind = "lock" /\ prs'[n].state = "open"
      BY <1>0, <2>3 DEF Locks, Open
    <3>2. Len(prs) \in Nat /\ DOMAIN prs = 1..Len(prs)
      BY LocksType DEF TypeOK
    <3>3. CASE n = new
      BY <2>3, <3>3 DEF LockPR
    <3>4. CASE n # new
      BY <2>3, <3>1, <3>2, <3>4 DEF Locks, Open
    <3> QED
      BY <3>3, <3>4
  <2>5. <<"claim", p>> \in Owners(s)
    BY <2>1 DEF Owners, At
  <2>6. Owners(s) \subseteq {<<"claim", p>>} /\ branch[s] = "live"
    BY <1>0, <2>5 DEF OneOwner
  <2>7. ASSUME NEW t \in Slugs, NEW x \in Owners(t)'
        PROVE  (x \in Owners(t) /\ x # <<"claim", p>>) \/ (t = s /\ x = <<"lock", new>>)
    <3>1. CASE x \in {"lock"} \X LocksOn(t)'
      <4>1. PICK n \in Locks' : Slug[prs'[n].path] = t /\ x = <<"lock", n>>
        BY <3>1 DEF LocksOn
      <4> QED
        BY <2>4, <4>1 DEF Owners, LocksOn
    <3>2. CASE x \in {"claim"} \X At("open", t)'
      BY <2>1, <3>2, ReturnEffect DEF Owners, At
    <3>3. CASE x \in {"release"} \X At("delete", t)'
      BY <2>1, <3>3, ReturnEffect DEF Owners, At
    <3> QED
      BY <3>1, <3>2, <3>3 DEF Owners
  <2>8. Owners(s)' \subseteq {<<"lock", new>>} /\ branch'[s] = "live"
    BY <1>0, <2>1, <2>6, <2>7
  <2>9. \A t \in Slugs \ {s} : Owners(t)' \subseteq Owners(t) /\ branch'[t] = branch[t]
    BY <2>1, <2>7
  <2> QED
    BY <2>8, <2>9, OwnersStep
<1>8. ASSUME NEW p \in Procs, ClosePR(p) PROVE OneOwner'
  <2> PICK s \in Slugs : s = Slug[path[p]]
    BY <1>0
  <2> PICK n : n = held[p]
    OBVIOUS
  <2>1. /\ pc[p] = "close" /\ UNCHANGED branch
        /\ n \in 1..Len(prs) /\ prs[n].kind = "lock" /\ prs[n].path = path[p]
    BY <1>8 DEF ClosePR, TypeOK
  <2>2. CASE n \notin Open
    <3>1. Return(p) /\ UNCHANGED prs
      BY <1>8, <2>2 DEF ClosePR
    <3> QED
      BY <1>1, <1>2, <2>1, <3>1, ReturnEffect
  <2>3. CASE n \in Open
    <3>1. Settle(n, "closed") /\ Goto(p, "delete")
      BY <1>8, <2>3 DEF ClosePR
    <3>2. /\ Len(prs') = Len(prs) /\ prs'[n].state = "closed"
          /\ \A m \in 1..Len(prs) : m # n => prs'[m] = prs[m]
      BY <2>1, <3>1, SettleType
    <3>3. \A m \in Locks' : m \in Locks /\ prs'[m] = prs[m]
      BY <1>0, <3>2, NoNewLock
    <3>4. n \notin Locks'
      BY <3>2 DEF Locks, Open
    <3>5. <<"lock", n>> \in Owners(s)
      BY <2>1, <2>3 DEF Owners, LocksOn, Locks
    <3>6. Owners(s) \subseteq {<<"lock", n>>} /\ branch[s] = "live"
      BY <1>0, <3>5 DEF OneOwner
    <3>7. ASSUME NEW t \in Slugs, NEW x \in Owners(t)'
          PROVE  (x \in Owners(t) /\ x # <<"lock", n>>) \/ (t = s /\ x = <<"release", p>>)
      BY <2>1, <3>1, <3>3, <3>4, GotoEffect DEF Owners, LocksOn, At
    <3>8. Owners(s)' \subseteq {<<"release", p>>} /\ branch'[s] = "live"
      BY <1>0, <2>1, <3>6, <3>7
    <3>9. \A t \in Slugs \ {s} : Owners(t)' \subseteq Owners(t) /\ branch'[t] = branch[t]
      BY <2>1, <3>7
    <3> QED
      BY <3>8, <3>9, OwnersStep
  <2> QED
    BY <2>2, <2>3
<1>9. ASSUME NEW p \in Procs, DeleteBranch(p) PROVE OneOwner'
  <2> PICK s \in Slugs : s = Slug[path[p]]
    BY <1>0
  <2>1. /\ pc[p] = "delete" /\ Return(p)
        /\ branch' = [branch EXCEPT ![s] = "none"]
    BY <1>9 DEF DeleteBranch
  <2>2. \A m \in Locks' : m \in Locks /\ prs'[m] = prs[m]
    BY <1>0, <1>9, TornType, NoNewLock
  <2>3. <<"release", p>> \in Owners(s)
    BY <2>1 DEF Owners, At
  <2>4. Owners(s) \subseteq {<<"release", p>>}
    BY <1>0, <2>3 DEF OneOwner
  <2>5. ASSUME NEW t \in Slugs, NEW x \in Owners(t)'
        PROVE  x \in Owners(t) /\ x # <<"release", p>>
    BY <2>1, <2>2, ReturnEffect DEF Owners, LocksOn, At
  <2>6. Owners(s)' = {}
    BY <1>0, <2>4, <2>5
  <2>7. \A t \in Slugs \ {s} : Owners(t)' \subseteq Owners(t) /\ branch'[t] = branch[t]
    BY <1>0, <2>1, <2>5
  <2> QED
    BY <2>6, <2>7, OwnersStep
<1>10. ASSUME NEW l \in Paths, OpenWork(l) PROVE OneOwner'
  <2> DEFINE pr == [kind |-> "work", path |-> l, state |-> "open",
                    guard |-> "queued", since |-> Locks, blind |-> FALSE]
  <2>1. pr \in PR /\ pr.kind = "work"
    BY WorkPRType
  <2>2. prs' = Append(prs, pr) /\ UNCHANGED <<branch, pc, path>>
    BY <1>10 DEF OpenWork
  <2> HIDE DEF pr
  <2>3. /\ Len(prs') = Len(prs) + 1 /\ prs'[Len(prs) + 1] = pr
        /\ \A n \in 1..Len(prs) : prs'[n] = prs[n]
    BY <2>1, <2>2, KeepsAppended
  <2>4. ASSUME NEW n \in Locks' PROVE n \in Locks /\ prs'[n] = prs[n]
    <3>1. n \in 1..(Len(prs) + 1) /\ prs'[n].kind = "lock" /\ prs'[n].state = "open"
      BY <1>0, <2>3 DEF Locks, Open
    <3>2. Len(prs) \in Nat /\ DOMAIN prs = 1..Len(prs)
      BY LocksType DEF TypeOK
    <3>3. n # Len(prs) + 1
      BY <2>1, <2>3, <3>1
    <3> QED
      BY <2>3, <3>1, <3>2, <3>3 DEF Locks, Open
  <2> QED
    BY <1>2, <2>2, <2>4
<1>11. ASSUME NEW n \in DOMAIN prs, SettleByHand(n) PROVE OneOwner'
  <2>1. /\ n \in 1..Len(prs) /\ n \in Locks /\ Slug[prs[n].path] \in Slugs
        /\ UNCHANGED <<pc, path>>
    BY <1>11, LocksType, LockAssumption DEF SettleByHand, PR
  <2> PICK s \in Slugs : s = Slug[prs[n].path]
    BY <2>1
  <2>2. PICK how \in {"closed", "merged"} : Settle(n, how)
    BY <1>11 DEF SettleByHand
  <2>3. /\ Len(prs') = Len(prs) /\ prs'[n].state # "open"
        /\ \A m \in 1..Len(prs) : m # n => prs'[m] = prs[m]
    BY <2>1, <2>2, SettleType
  <2>4. \A m \in Locks' : m \in Locks /\ prs'[m] = prs[m]
    BY <1>0, <2>3, NoNewLock
  <2>5. CASE UNCHANGED branch
    BY <1>2, <2>1, <2>4, <2>5
  <2>6. CASE branch' = [branch EXCEPT ![s] = "merged"]
    <3>1. <<"lock", n>> \in Owners(s)
      BY <2>1 DEF Owners, LocksOn
    <3>2. Owners(s) \subseteq {<<"lock", n>>}
      BY <2>1, <3>1 DEF OneOwner
    <3>3. n \notin Locks'
      BY <2>3 DEF Locks, Open
    <3>4. ASSUME NEW t \in Slugs, NEW x \in Owners(t)'
          PROVE  x \in Owners(t) /\ x # <<"lock", n>>
      BY <2>1, <2>4, <3>3 DEF Owners, LocksOn, At
    <3>5. Owners(s)' = {}
      BY <2>1, <3>2, <3>4
    <3>6. \A t \in Slugs \ {s} : Owners(t)' \subseteq Owners(t) /\ branch'[t] = branch[t]
      BY <1>0, <2>6, <3>4
    <3> QED
      BY <3>5, <3>6, OwnersStep
  <2> QED
    BY <1>11, <2>5, <2>6 DEF SettleByHand
<1>12. ASSUME NEW n \in DOMAIN prs, WorkStep(n) PROVE OneOwner'
  <2>1. n \in 1..Len(prs)
    BY DEF TypeOK
  <2>2. UNCHANGED <<branch, pc, path>>
    BY <1>12 DEF WorkStep, PushWork, RunGuard, SettleWork
  <2>3. \A m \in Locks' : m \in Locks /\ prs'[m] = prs[m]
    BY <1>0, <1>12, <2>1, WorkType, NoNewLock
  <2> QED
    BY <1>2, <2>2, <2>3
<1> QED
  BY <1>3, <1>4, <1>5, <1>6, <1>7, <1>8, <1>9, <1>10, <1>11, <1>12
     DEF Next, Command, WorkStep

\* However claims and releases interleave, a lock branch has one owner at most.
THEOREM OneOwnerAlways == Spec => []OneOwner
<1>1. Init => OneOwner
  BY DEF Init, OneOwner, Owners, LocksOn, At, Locks, Open
<1>2. TypeOK /\ OneOwner /\ [Next]_vars => OneOwner'
  <2> SUFFICES ASSUME TypeOK, OneOwner, [Next]_vars PROVE OneOwner'
    OBVIOUS
  <2>1. CASE UNCHANGED vars
    BY <2>1 DEF vars, OneOwner, Owners, LocksOn, At, Locks, Open
  <2> QED
    BY <2>1, OwnerStep
<1> QED
  BY <1>1, <1>2, TypeCorrect, PTL DEF Spec

\* No release takes the branch from under an open lock pull request.
THEOREM NoTornLockAlways == Spec => []NoTornLock
<1>1. Init => NoTornLock
  BY DEF Init, NoTornLock
<1>2. ASSUME TypeOK, OneOwner, NoTornLock, Next PROVE NoTornLock'
  <2>0. /\ prs' \in Seq(PR) /\ DOMAIN prs' = 1..Len(prs') /\ DOMAIN prs = 1..Len(prs)
        /\ Len(prs) \in Nat /\ \A n \in 1..Len(prs) : prs[n].state # "torn"
        /\ \A p \in Procs : path[p] \in Paths /\ Slug[path[p]] \in Slugs
    BY <1>2, TypeStep, LockAssumption DEF TypeOK, NoTornLock
  <2>1. ASSUME UNCHANGED prs PROVE NoTornLock'
    BY <1>2, <2>1 DEF NoTornLock
  <2>2. ASSUME NEW n \in 1..Len(prs), NEW how \in {"closed", "merged"}, Settle(n, how)
        PROVE  NoTornLock'
    <3>1. /\ Len(prs') = Len(prs) /\ prs'[n].state = how
          /\ \A m \in 1..Len(prs) : m # n => prs'[m] = prs[m]
      BY <1>2, <2>2, SettleType
    <3> QED
      BY <2>0, <3>1 DEF NoTornLock
  <2>3. ASSUME NEW pr \in PR, pr.state = "open", prs' = Append(prs, pr) PROVE NoTornLock'
    <3>1. /\ Len(prs') = Len(prs) + 1 /\ prs'[Len(prs) + 1] = pr
          /\ \A n \in 1..Len(prs) : prs'[n] = prs[n]
      BY <1>2, <2>3, KeepsAppended
    <3> QED
      BY <2>0, <2>3, <3>1 DEF NoTornLock
  <2>4. ASSUME NEW p \in Procs, DeleteBranch(p) PROVE NoTornLock'
    <3> PICK s \in Slugs : s = Slug[path[p]]
      BY <2>0
    <3>1. <<"release", p>> \in Owners(s)
      BY <2>4 DEF Owners, At, DeleteBranch
    <3>2. LocksOn(s) = {}
      <4>1. \A n \in LocksOn(s) : <<"lock", n>> \in Owners(s)
        BY DEF Owners
      <4>2. \A n : <<"lock", n>> # <<"release", p>>
        OBVIOUS
      <4>3. \A x \in Owners(s) : x = <<"release", p>>
        BY <1>2, <3>1 DEF OneOwner
      <4> QED
        BY <4>1, <4>2, <4>3
    <3>3. Len(prs') = Len(prs) /\ \A n \in 1..Len(prs) : prs'[n] = prs[n]
      BY <1>2, <2>4, <3>2, TornType
    <3> QED
      BY <2>0, <3>3 DEF NoTornLock
  <2>5. ASSUME NEW n \in 1..Len(prs), WorkStep(n) PROVE NoTornLock'
    <3>1. /\ Len(prs') = Len(prs) /\ prs'[n].state # "torn"
          /\ \A m \in 1..Len(prs) : m # n => prs'[m] = prs[m]
      BY <1>2, <2>5, WorkType
    <3> QED
      BY <2>0, <3>1 DEF NoTornLock
  <2>6. ASSUME NEW p \in Procs, Command(p) \/ Crash(p) PROVE NoTornLock'
    <3>1. CASE OpenLockPR(p)
      <4>1. LockPR(path[p]) \in PR /\ LockPR(path[p]).state = "open"
        BY <2>0, LockPRType DEF LockPR
      <4> QED
        BY <2>3, <3>1, <4>1 DEF OpenLockPR
    <3>2. CASE ClosePR(p)
      <4>1. held[p] \in 1..Len(prs)
        BY <1>2, <3>2 DEF ClosePR, TypeOK
      <4> QED
        BY <2>1, <2>2, <3>2, <4>1 DEF ClosePR
    <3>3. CASE \E l \in Paths : ClaimList(p, l) \/ ReleaseList(p, l)
      BY <2>1, <3>3 DEF ClaimList, ReleaseList
    <3>4. CASE CreateBranch(p) \/ Crash(p)
      BY <2>1, <3>4 DEF CreateBranch, Crash
    <3> QED
      BY <2>4, <2>6, <3>1, <3>2, <3>3, <3>4 DEF Command
  <2>7. ASSUME NEW l \in Paths, OpenWork(l) PROVE NoTornLock'
    <3>1. [kind |-> "work", path |-> l, state |-> "open",
           guard |-> "queued", since |-> Locks, blind |-> FALSE] \in PR
      BY <1>2, WorkPRType
    <3> QED
      BY <2>3, <2>7, <3>1 DEF OpenWork
  <2>8. ASSUME NEW n \in 1..Len(prs), SettleByHand(n) PROVE NoTornLock'
    BY <2>2, <2>8 DEF SettleByHand
  <2> QED
    BY <1>2, <2>0, <2>5, <2>6, <2>7, <2>8 DEF Next, WorkStep
<1>3. TypeOK /\ OneOwner /\ NoTornLock /\ [Next]_vars => NoTornLock'
  BY <1>2 DEF vars, NoTornLock
<1> QED
  BY <1>1, <1>3, TypeCorrect, OneOwnerAlways, PTL DEF Spec

-------------------------------------------------------------------------------
(***************************************************************************)
(* ReleaseIsComplete is inductive: who gives up a live branch hands it on, *)
(* deletes it or leaves it stranded.                                       *)
(***************************************************************************)

\* It is enough to look at each branch.
LEMMA CompleteStep ==
  ASSUME ReleaseIsComplete, stranded \subseteq stranded',
         \A s \in Slugs \ stranded' :
           \/ branch'[s] # "live"
           \/ Owners(s)' # {}
           \/ branch'[s] = branch[s] /\ Owners(s) \subseteq Owners(s)'
  PROVE  ReleaseIsComplete'
BY DEF ReleaseIsComplete

\* The owners of a branch stay when its locks and its commands do.
LEMMA OwnersKept ==
  ASSUME NEW s,
         \A n \in LocksOn(s) : n \in Locks' /\ prs'[n].path = prs[n].path,
         \A p \in Procs : pc[p] \in {"open", "delete"} /\ Slug[path[p]] = s
                            => pc'[p] = pc[p] /\ path'[p] = path[p]
  PROVE  Owners(s) \subseteq Owners(s)'
BY DEF Owners, LocksOn, At

\* A lock whose pull request did not change is a lock still.
LEMMA LockKept ==
  ASSUME TypeOK, TypeOK', NEW n \in Locks, n \in 1..Len(prs'), prs'[n] = prs[n]
  PROVE  n \in Locks' /\ prs'[n].path = prs[n].path
<1>1. DOMAIN prs' = 1..Len(prs')
  BY DEF TypeOK
<1> QED
  BY <1>1 DEF Locks, Open

LEMMA CompletenessStep ==
  ASSUME TypeOK, ReleaseIsComplete, Next
  PROVE  ReleaseIsComplete'
<1>0. /\ TypeOK' /\ Len(prs) \in Nat
      /\ branch \in [Slugs -> {"none", "live", "merged"}]
      /\ pc \in [Procs -> {"idle", "branch", "open", "close", "delete"}]
      /\ \A p \in Procs : path[p] \in Paths /\ Slug[path[p]] \in Slugs
      /\ Locks \subseteq 1..Len(prs)
  BY TypeStep, LocksType, LockAssumption DEF TypeOK
<1>1. UNCHANGED prs => \A n \in Locks : n \in Locks' /\ prs'[n].path = prs[n].path
  BY DEF Locks, Open
<1>2. ASSUME UNCHANGED branch, stranded \subseteq stranded',
             \A n \in Locks : n \in Locks' /\ prs'[n].path = prs[n].path,
             \A p \in Procs : pc[p] \in {"open", "delete"} => pc'[p] = pc[p] /\ path'[p] = path[p]
      PROVE  ReleaseIsComplete'
  <2>1. \A s : Owners(s) \subseteq Owners(s)'
    BY <1>2, OwnersKept DEF LocksOn
  <2> QED
    BY <1>2, <2>1, CompleteStep
<1>3. ASSUME NEW p \in Procs, NEW l \in Paths, ClaimList(p, l) \/ ReleaseList(p, l)
      PROVE  ReleaseIsComplete'
  <2>1. /\ pc[p] = "idle" /\ UNCHANGED <<branch, prs, stranded>>
        /\ \A q \in Procs \ {p} : pc'[q] = pc[q] /\ path'[q] = path[q]
    BY <1>3 DEF ClaimList, ReleaseList, TypeOK
  <2> QED
    BY <1>1, <1>2, <2>1
<1>4. ASSUME NEW p \in Procs, CreateBranch(p) PROVE ReleaseIsComplete'
  <2> PICK s \in Slugs : s = Slug[path[p]]
    BY <1>0
  <2>1. CASE branch[s] = "live"
    <3>1. pc[p] = "branch" /\ Return(p) /\ UNCHANGED <<branch, prs, stranded>>
      BY <1>4, <2>1 DEF CreateBranch
    <3> QED
      BY <1>1, <1>2, <3>1, ReturnEffect
  <2>2. CASE branch[s] # "live"
    <3>1. /\ pc[p] = "branch" /\ Goto(p, "open") /\ UNCHANGED <<prs, stranded>>
          /\ branch' = [branch EXCEPT ![s] = "live"]
      BY <1>4, <2>2 DEF CreateBranch
    <3>2. <<"claim", p>> \in Owners(s)'
      BY <3>1, GotoEffect DEF Owners, At
    <3>3. \A t \in Slugs : Owners(t) \subseteq Owners(t)'
      BY <1>1, <3>1, GotoEffect, OwnersKept DEF LocksOn
    <3>4. \A t \in Slugs \ {s} : branch'[t] = branch[t]
      BY <1>0, <3>1
    <3> QED
      BY <3>1, <3>2, <3>3, <3>4, CompleteStep
  <2> QED
    BY <2>1, <2>2
<1>5. ASSUME NEW p \in Procs, OpenLockPR(p) PROVE ReleaseIsComplete'
  <2> PICK s \in Slugs : s = Slug[path[p]]
    BY <1>0
  <2>1. /\ pc[p] = "open" /\ Return(p) /\ UNCHANGED <<branch, stranded>>
        /\ prs' = Append(prs, LockPR(path[p]))
    BY <1>5 DEF OpenLockPR
  <2>2. /\ Len(prs') = Len(prs) + 1 /\ prs'[Len(prs) + 1] = LockPR(path[p])
        /\ \A n \in 1..Len(prs) : prs'[n] = prs[n]
    BY <1>0, <2>1, LockPRType, KeepsAppended
  <2>3. \A n \in Locks : n \in Locks' /\ prs'[n].path = prs[n].path
    BY <1>0, <2>2, LockKept
  <2>4. Len(prs) + 1 \in LocksOn(s)'
    <3>1. Len(prs) + 1 \in DOMAIN prs'
      BY <1>0, <2>2 DEF TypeOK
    <3> QED
      BY <2>2, <3>1 DEF LocksOn, Locks, Open, LockPR
  <2> PICK new : new = Len(prs) + 1
    OBVIOUS
  <2>5. <<"lock", new>> \in Owners(s)'
    BY <2>4 DEF Owners
  <2>6. ASSUME NEW t \in Slugs \ {s} PROVE Owners(t) \subseteq Owners(t)'
    <3>1. \A n \in LocksOn(t) : n \in Locks' /\ prs'[n].path = prs[n].path
      BY <2>3 DEF LocksOn
    <3>2. \A q \in Procs : Slug[path[q]] = t => q # p
      OBVIOUS
    <3>3. \A q \in Procs \ {p} : pc'[q] = pc[q] /\ path'[q] = path[q]
      BY <2>1, ReturnEffect
    <3>4. \A q \in Procs : pc[q] \in {"open", "delete"} /\ Slug[path[q]] = t
                             => pc'[q] = pc[q] /\ path'[q] = path[q]
      BY <3>2, <3>3
    <3> QED
      BY <3>1, <3>4, OwnersKept
  <2> QED
    BY <2>1, <2>5, <2>6, CompleteStep
<1>6. ASSUME NEW p \in Procs, ClosePR(p) PROVE ReleaseIsComplete'
  <2> PICK s \in Slugs : s = Slug[path[p]]
    BY <1>0
  <2> PICK n : n = held[p]
    OBVIOUS
  <2>1. /\ pc[p] = "close" /\ UNCHANGED <<branch, stranded>>
        /\ n \in 1..Len(prs) /\ prs[n].path = path[p]
    BY <1>6 DEF ClosePR, TypeOK
  <2>2. CASE n \notin Open
    <3>1. Return(p) /\ UNCHANGED prs
      BY <1>6, <2>2 DEF ClosePR
    <3> QED
      BY <1>1, <1>2, <2>1, <3>1, ReturnEffect
  <2>3. CASE n \in Open
    <3>1. Settle(n, "closed") /\ Goto(p, "delete")
      BY <1>6, <2>3 DEF ClosePR
    <3>2. Len(prs') = Len(prs) /\ \A m \in 1..Len(prs) : m # n => prs'[m] = prs[m]
      BY <2>1, <3>1, SettleType
    <3>3. <<"release", p>> \in Owners(s)'
      BY <3>1, GotoEffect DEF Owners, At
    <3>4. ASSUME NEW t \in Slugs \ {s} PROVE Owners(t) \subseteq Owners(t)'
      <4>1. \A m \in LocksOn(t) : m # n /\ m \in Locks
        BY <2>1 DEF LocksOn
      <4>2. \A m \in LocksOn(t) : m \in Locks' /\ prs'[m].path = prs[m].path
        BY <1>0, <3>2, <4>1, LockKept
      <4> QED
        BY <2>1, <3>1, <4>2, GotoEffect, OwnersKept
    <3> QED
      BY <2>1, <3>3, <3>4, CompleteStep
  <2> QED
    BY <2>2, <2>3
<1>7. ASSUME NEW p \in Procs, DeleteBranch(p) PROVE ReleaseIsComplete'
  <2> PICK s \in Slugs : s = Slug[path[p]]
    BY <1>0
  <2>1. /\ pc[p] = "delete" /\ Return(p) /\ UNCHANGED stranded
        /\ branch' = [branch EXCEPT ![s] = "none"]
    BY <1>7 DEF DeleteBranch
  <2>2. ASSUME NEW t \in Slugs \ {s} PROVE Owners(t) \subseteq Owners(t)'
    <3>1. Len(prs') = Len(prs) /\ \A n \in LocksOn(t) : prs'[n] = prs[n] /\ n \in Locks
      BY <1>0, <1>7, TornType DEF LocksOn
    <3>2. \A n \in LocksOn(t) : n \in Locks' /\ prs'[n].path = prs[n].path
      BY <1>0, <3>1, LockKept
    <3> QED
      BY <2>1, <3>2, ReturnEffect, OwnersKept
  <2>3. branch'[s] = "none" /\ \A t \in Slugs \ {s} : branch'[t] = branch[t]
    BY <1>0, <2>1
  <2> QED
    BY <2>1, <2>2, <2>3, CompleteStep
<1>8. ASSUME NEW p \in Procs, Crash(p) PROVE ReleaseIsComplete'
  <2> PICK s \in Slugs : s = Slug[path[p]]
    BY <1>0
  <2>1. Return(p) /\ UNCHANGED <<branch, prs>>
    BY <1>8 DEF Crash
  <2>2. stranded' = IF pc[p] \in {"open", "delete"} THEN stranded \cup {s} ELSE stranded
    BY <1>8 DEF Crash
  <2>3. ASSUME NEW t \in Slugs \ stranded' PROVE Owners(t) \subseteq Owners(t)'
    <3>1. ~(pc[p] \in {"open", "delete"} /\ Slug[path[p]] = t)
      BY <2>2
    <3> QED
      BY <1>1, <2>1, <3>1, ReturnEffect, OwnersKept DEF LocksOn
  <2> QED
    BY <2>1, <2>2, <2>3, CompleteStep
<1>9. ASSUME NEW l \in Paths, OpenWork(l) PROVE ReleaseIsComplete'
  <2>1. UNCHANGED <<branch, pc, path, stranded>>
    BY <1>9 DEF OpenWork
  <2>2. Len(prs') = Len(prs) + 1 /\ \A n \in 1..Len(prs) : prs'[n] = prs[n]
    BY <1>9, WorkPRType, KeepsAppended DEF OpenWork
  <2>3. \A n \in Locks : n \in Locks' /\ prs'[n].path = prs[n].path
    BY <1>0, <2>2, LockKept
  <2> QED
    BY <1>2, <2>1, <2>3
<1>10. ASSUME NEW n \in DOMAIN prs, SettleByHand(n) PROVE ReleaseIsComplete'
  <2>1. /\ n \in 1..Len(prs) /\ n \in Locks /\ Slug[prs[n].path] \in Slugs
        /\ UNCHANGED <<pc, path>>
    BY <1>10, LocksType, LockAssumption DEF SettleByHand, PR
  <2> PICK s \in Slugs : s = Slug[prs[n].path]
    BY <2>1
  <2>2. PICK how \in {"closed", "merged"} : Settle(n, how)
    BY <1>10 DEF SettleByHand
  <2>3. Len(prs') = Len(prs) /\ \A m \in 1..Len(prs) : m # n => prs'[m] = prs[m]
    BY <2>1, <2>2, SettleType
  <2>4. ASSUME NEW t \in Slugs \ {s} PROVE Owners(t) \subseteq Owners(t)'
    <3>1. \A m \in LocksOn(t) : m # n /\ m \in Locks
      BY DEF LocksOn
    <3>2. \A m \in LocksOn(t) : m \in Locks' /\ prs'[m].path = prs[m].path
      BY <1>0, <2>3, <3>1, LockKept
    <3> QED
      BY <2>1, <3>2, OwnersKept
  <2>5. CASE branch' = [branch EXCEPT ![s] = "merged"] /\ UNCHANGED stranded
    <3>1. branch'[s] = "merged" /\ \A t \in Slugs \ {s} : branch'[t] = branch[t]
      BY <1>0, <2>5
    <3> QED
      BY <2>4, <2>5, <3>1, CompleteStep
  <2>6. CASE UNCHANGED branch /\ stranded' = stranded \cup {s}
    BY <2>4, <2>6, CompleteStep
  <2> QED
    BY <1>10, <2>5, <2>6 DEF SettleByHand
<1>11. ASSUME NEW n \in DOMAIN prs, WorkStep(n) PROVE ReleaseIsComplete'
  <2>1. n \in 1..Len(prs)
    BY DEF TypeOK
  <2>2. UNCHANGED <<branch, pc, path, stranded>>
    BY <1>11 DEF WorkStep, PushWork, RunGuard, SettleWork
  <2>3. /\ Len(prs') = Len(prs) /\ prs[n].kind = "work"
        /\ \A m \in 1..Len(prs) : m # n => prs'[m] = prs[m]
    BY <1>11, <2>1, WorkType
  <2>4. \A m \in Locks : m # n
    BY <2>3 DEF Locks
  <2>5. \A m \in Locks : m \in Locks' /\ prs'[m].path = prs[m].path
    BY <1>0, <2>3, <2>4, LockKept
  <2> QED
    BY <1>2, <2>2, <2>5
<1> QED
  BY <1>3, <1>4, <1>5, <1>6, <1>7, <1>8, <1>9, <1>10, <1>11 DEF Next, Command, WorkStep

\* Only what was cut short leaves a branch behind that blocks every later claim.
THEOREM ReleaseIsCompleteAlways == Spec => []ReleaseIsComplete
<1>1. Init => ReleaseIsComplete
  BY DEF Init, ReleaseIsComplete
<1>2. TypeOK /\ ReleaseIsComplete /\ [Next]_vars => ReleaseIsComplete'
  <2> SUFFICES ASSUME TypeOK, ReleaseIsComplete, [Next]_vars PROVE ReleaseIsComplete'
    OBVIOUS
  <2>1. CASE UNCHANGED vars
    BY <2>1 DEF vars, ReleaseIsComplete, Owners, LocksOn, At, Locks, Open
  <2> QED
    BY <2>1, CompletenessStep
<1> QED
  BY <1>1, <1>2, TypeCorrect, PTL DEF Spec

-------------------------------------------------------------------------------
(***************************************************************************)
(* GuardHonoursLocks becomes inductive when the locks a pull request was   *)
(* pushed under are among the pull requests there are: no number is given  *)
(* out twice, and what is closed stays closed.                             *)
(***************************************************************************)

SinceIsPast == \A n \in 1..Len(prs) : prs[n].since \subseteq 1..Len(prs)

HonourInv == GuardHonoursLocks /\ SinceIsPast

\* The check of n, if green, is the one of before or one that RunGuard gives now.
GreenIsEarned(n) ==
  prs'[n].kind = "work" /\ prs'[n].state = "open" /\ prs'[n].guard = "green" =>
    /\ n \in 1..Len(prs) /\ prs[n].state = "open" /\ prs'[n].since = prs[n].since
    /\ \/ prs[n].guard = "green" /\ prs'[n].blind = prs[n].blind
       \/ ~Collides(n)
       \/ prs'[n].blind

LEMMA HonourStep ==
  ASSUME TypeOK, HonourInv, prs' \in Seq(PR), Keeps(prs, prs'),
         \A n \in 1..Len(prs) : prs'[n].state = "open" => prs[n].state = "open",
         \A n \in 1..Len(prs') : GreenIsEarned(n) /\ prs'[n].since \subseteq 1..Len(prs')
  PROVE  HonourInv'
<1>0. /\ DOMAIN prs = 1..Len(prs) /\ DOMAIN prs' = 1..Len(prs')
      /\ Len(prs) \in Nat /\ Len(prs') \in Nat /\ Len(prs) <= Len(prs')
      /\ \A n \in 1..Len(prs) : prs'[n].kind = prs[n].kind /\ prs'[n].path = prs[n].path
  <2>1. prs \in Seq(PR)
    BY DEF TypeOK
  <2>2. DOMAIN prs = 1..Len(prs) /\ DOMAIN prs' = 1..Len(prs') /\ Len(prs) \in Nat /\ Len(prs') \in Nat
    BY <2>1
  <2>3. /\ Len(prs) <= Len(prs')
        /\ \A n \in 1..Len(prs) : prs'[n].kind = prs[n].kind /\ prs'[n].path = prs[n].path
    BY Zenon DEF Keeps
  <2> QED
    BY <2>2, <2>3
<1>1. SinceIsPast'
  BY DEF SinceIsPast
<1>2. ASSUME NEW m \in Locks', m \in 1..Len(prs)
      PROVE  m \in Locks /\ prs'[m].path = prs[m].path
  BY <1>0, <1>2 DEF Locks, Open
<1>3. ASSUME NEW n \in OpenWorkPRs', prs'[n].guard = "green",
             NEW m \in prs'[n].since \cap Locks', ~prs'[n].blind
      PROVE  prs'[n].path \notin Under[prs'[m].path]
  <2>1. n \in 1..Len(prs') /\ prs'[n].state = "open" /\ prs'[n].kind = "work"
    <3>1. n \in 1..Len(prs') /\ prs'[n].state = "open" /\ prs'[n].kind # "lock"
      BY <1>0 DEF OpenWorkPRs, Open, Locks
    <3>2. prs'[n] \in PR
      BY <3>1
    <3> QED
      BY <3>1, <3>2 DEF PR
  <2>2. /\ n \in 1..Len(prs) /\ prs[n].state = "open" /\ prs'[n].since = prs[n].since
        /\ (prs[n].guard = "green" /\ ~prs[n].blind) \/ ~Collides(n)
    BY <1>3, <2>1 DEF GreenIsEarned
  <2>3. prs'[n].path = prs[n].path /\ prs[n].kind = "work"
    BY <1>0, <2>1, <2>2
  <2>4. m \in 1..Len(prs)
    BY <2>2 DEF HonourInv, SinceIsPast
  <2>5. m \in Locks /\ prs'[m].path = prs[m].path /\ m # n
    BY <1>2, <2>3, <2>4 DEF Locks
  <2>6. CASE prs[n].guard = "green" /\ ~prs[n].blind
    <3>1. n \in OpenWorkPRs
      BY <1>0, <2>2, <2>3 DEF OpenWorkPRs, Open, Locks
    <3> QED
      BY <2>2, <2>3, <2>5, <2>6, <3>1 DEF HonourInv, GuardHonoursLocks
  <2>7. CASE ~Collides(n)
    BY <2>3, <2>5, <2>7 DEF Collides
  <2> QED
    BY <2>2, <2>6, <2>7
<1> QED
  BY <1>1, <1>3 DEF HonourInv, GuardHonoursLocks

\* The steps that end a pull request.
LEMMA HonourSettle ==
  ASSUME TypeOK, HonourInv, NEW n \in 1..Len(prs), NEW how \in {"closed", "merged"},
         Settle(n, how)
  PROVE  HonourInv'
<1>1. /\ prs' \in Seq(PR) /\ Len(prs') = Len(prs) /\ Keeps(prs, prs')
      /\ \A m \in 1..Len(prs) : m # n => prs'[m] = prs[m]
      /\ prs'[n].state = how
  BY SettleType, KeepsSettled
<1>2. prs'[n].since = {}
  <2>1. prs[n] \in PR /\ prs \in Seq(PR)
    BY LocksType DEF TypeOK
  <2> QED
    BY <2>1 DEF Settle, PR
<1>3. \A m \in 1..Len(prs) : prs[m].since \subseteq 1..Len(prs)
  BY DEF HonourInv, SinceIsPast
<1>4. \A m \in 1..Len(prs') : GreenIsEarned(m) /\ prs'[m].since \subseteq 1..Len(prs')
  BY <1>1, <1>2, <1>3 DEF GreenIsEarned
<1>5. \A m \in 1..Len(prs) : prs'[m].state = "open" => prs[m].state = "open"
  BY <1>1
<1> QED
  BY <1>1, <1>4, <1>5, HonourStep

\* The steps that open one.
LEMMA HonourAppend ==
  ASSUME TypeOK, HonourInv, NEW pr \in PR, pr.guard # "green", pr.since \subseteq Locks,
         prs' = Append(prs, pr)
  PROVE  HonourInv'
<1>1. /\ prs' \in Seq(PR) /\ Keeps(prs, prs') /\ Len(prs') = Len(prs) + 1
      /\ \A n \in 1..Len(prs) : prs'[n] = prs[n]
      /\ prs'[Len(prs) + 1] = pr
  BY KeepsAppended
<1>2. Len(prs) \in Nat /\ Locks \subseteq 1..Len(prs)
  BY LocksType
<1>3. \A m \in 1..Len(prs) : prs[m].since \subseteq 1..Len(prs)
  BY DEF HonourInv, SinceIsPast
<1>4. ASSUME NEW m \in 1..Len(prs') PROVE GreenIsEarned(m) /\ prs'[m].since \subseteq 1..Len(prs')
  <2>1. CASE m = Len(prs) + 1
    <3>1. prs'[m] = pr
      BY <1>1, <2>1
    <3>2. pr.since \subseteq 1..Len(prs')
      <4>1. 1..Len(prs) \subseteq 1..Len(prs')
        BY <1>1, <1>2
      <4> QED
        BY <1>2, <4>1
    <3> QED
      BY <3>1, <3>2 DEF GreenIsEarned
  <2>2. CASE m \in 1..Len(prs)
    BY <1>1, <1>2, <1>3, <2>2 DEF GreenIsEarned
  <2> QED
    BY <1>1, <1>2, <2>1, <2>2
<1>5. \A m \in 1..Len(prs) : prs'[m].state = "open" => prs[m].state = "open"
  BY <1>1
<1> QED
  BY <1>1, <1>4, <1>5, HonourStep

LEMMA HonourSame == HonourInv /\ UNCHANGED prs => HonourInv'
  BY DEF HonourInv, GuardHonoursLocks, SinceIsPast, OpenWorkPRs, Open, Locks

\* The end of a release.
LEMMA HonourDelete ==
  ASSUME TypeOK, HonourInv, NEW p \in Procs, DeleteBranch(p)
  PROVE  HonourInv'
<1>1. /\ prs' \in Seq(PR) /\ Keeps(prs, prs') /\ Len(prs') = Len(prs)
      /\ \A n \in 1..Len(prs) :
           prs'[n] = prs[n] \/ (n \in LocksOn(Slug[path[p]]) /\ prs'[n].state = "torn")
  BY TornType
<1>2. \A n \in 1..Len(prs) : prs'[n].since = prs[n].since
  <2>1. DOMAIN prs = 1..Len(prs) /\ \A n \in 1..Len(prs) : prs[n] \in PR
    BY LocksType DEF TypeOK
  <2>2. \A n \in 1..Len(prs) : prs'[n] \in {prs[n], [prs[n] EXCEPT !.state = "torn"]}
    BY <2>1 DEF DeleteBranch
  <2> QED
    BY <2>1, <2>2 DEF PR
<1>3. \A m \in 1..Len(prs) : prs[m].since \subseteq 1..Len(prs)
  BY DEF HonourInv, SinceIsPast
<1>4. \A m \in 1..Len(prs') : GreenIsEarned(m) /\ prs'[m].since \subseteq 1..Len(prs')
  BY <1>1, <1>2, <1>3 DEF GreenIsEarned
<1>5. \A m \in 1..Len(prs) : prs'[m].state = "open" => prs[m].state = "open"
  BY <1>1
<1> QED
  BY <1>1, <1>4, <1>5, HonourStep

\* The guard, and a push to a pull request.
LEMMA HonourWork ==
  ASSUME TypeOK, HonourInv, NEW n \in 1..Len(prs), WorkStep(n)
  PROVE  HonourInv'
<1>1. /\ prs' \in Seq(PR) /\ Keeps(prs, prs') /\ Len(prs') = Len(prs)
      /\ \A m \in 1..Len(prs) : m # n => prs'[m] = prs[m]
  BY WorkType
<1>2. /\ prs[n] \in PR /\ prs \in Seq(PR) /\ Locks \subseteq 1..Len(prs)
      /\ \A m \in 1..Len(prs) : prs[m].since \subseteq 1..Len(prs)
  BY LocksType DEF TypeOK, HonourInv, SinceIsPast
<1>3. ASSUME GreenIsEarned(n), prs'[n].since \subseteq 1..Len(prs), prs[n].state = "open"
      PROVE  HonourInv'
  <2>1. \A m \in 1..Len(prs') : GreenIsEarned(m) /\ prs'[m].since \subseteq 1..Len(prs')
    BY <1>1, <1>2, <1>3 DEF GreenIsEarned
  <2>2. \A m \in 1..Len(prs) : prs'[m].state = "open" => prs[m].state = "open"
    BY <1>1, <1>3
  <2> QED
    BY <1>1, <2>1, <2>2, HonourStep
<1>4. CASE PushWork(n)
  <2> DEFINE pr == [prs[n] EXCEPT !.guard = "queued", !.since = Locks, !.blind = FALSE]
  <2>1. prs' = [prs EXCEPT ![n] = pr] /\ pr.guard = "queued" /\ pr.since = Locks
    BY <1>2, <1>4 DEF PushWork, PR
  <2> HIDE DEF pr
  <2>2. prs'[n].guard = "queued" /\ prs'[n].since = Locks
    BY <1>2, <2>1
  <2>3. prs[n].state = "open"
    BY <1>4 DEF PushWork, OpenWorkPRs, Open
  <2> QED
    BY <1>2, <1>3, <2>2, <2>3 DEF GreenIsEarned
<1>5. CASE RunGuard(n)
  <2>1. PICK answer \in {"red", "green"}, unlisted \in BOOLEAN :
          Check(n, answer, unlisted) /\ (answer = "green" => ~Collides(n) \/ unlisted)
    BY <1>5 DEF RunGuard
  <2> DEFINE pr == [prs[n] EXCEPT !.guard = answer, !.blind = unlisted]
  <2>2. prs' = [prs EXCEPT ![n] = pr]
    BY <2>1 DEF Check
  <2>3. pr.guard = answer /\ pr.blind = unlisted /\ pr.since = prs[n].since
    BY <1>2 DEF PR
  <2> HIDE DEF pr
  <2>5. /\ prs'[n].guard = answer /\ prs'[n].blind = unlisted
        /\ prs'[n].since = prs[n].since
    BY <1>2, <2>2, <2>3
  <2>4. prs[n].state = "open"
    BY <1>5 DEF RunGuard, OpenWorkPRs, Open
  <2> QED
    BY <1>2, <1>3, <2>1, <2>4, <2>5 DEF GreenIsEarned
<1>6. CASE SettleWork(n)
  BY <1>6, HonourSettle DEF SettleWork
<1> QED
  BY <1>4, <1>5, <1>6 DEF WorkStep

LEMMA HonouredStep ==
  ASSUME TypeOK, HonourInv, Next
  PROVE  HonourInv'
<1>0. DOMAIN prs = 1..Len(prs)
  BY DEF TypeOK
<1>1. ASSUME NEW p \in Procs, Command(p) \/ Crash(p) PROVE HonourInv'
  <2>1. CASE OpenLockPR(p)
    <3>1. LockPR(path[p]) \in PR
      BY LockPRType DEF TypeOK
    <3>2. LockPR(path[p]).guard # "green" /\ LockPR(path[p]).since \subseteq Locks
      BY DEF LockPR
    <3> QED
      BY <2>1, <3>1, <3>2, HonourAppend DEF OpenLockPR
  <2>2. CASE ClosePR(p)
    <3>1. held[p] \in 1..Len(prs)
      BY <2>2 DEF ClosePR, TypeOK
    <3> QED
      BY <2>2, <3>1, HonourSettle, HonourSame DEF ClosePR
  <2>3. CASE (\E l \in Paths : ClaimList(p, l) \/ ReleaseList(p, l)) \/ CreateBranch(p) \/ Crash(p)
    BY <2>3, HonourSame DEF ClaimList, ReleaseList, CreateBranch, Crash
  <2> QED
    BY <1>1, <2>1, <2>2, <2>3, HonourDelete DEF Command
<1>2. ASSUME NEW l \in Paths, OpenWork(l) PROVE HonourInv'
  <2> DEFINE pr == [kind |-> "work", path |-> l, state |-> "open",
                    guard |-> "queued", since |-> Locks, blind |-> FALSE]
  <2>1. pr \in PR /\ pr.guard # "green" /\ pr.since \subseteq Locks
    BY WorkPRType
  <2>2. prs' = Append(prs, pr)
    BY <1>2 DEF OpenWork
  <2> HIDE DEF pr
  <2> QED
    BY <2>1, <2>2, HonourAppend
<1>3. ASSUME NEW n \in DOMAIN prs, SettleByHand(n) PROVE HonourInv'
  BY <1>0, <1>3, HonourSettle DEF SettleByHand
<1> QED
  BY <1>0, <1>1, <1>2, <1>3, HonourWork DEF Next, WorkStep

\* A pull request that is green beneath an open lock was pushed before the lock was claimed,
\* or its guard had no list of its files.
THEOREM GuardHonoursLocksAlways == Spec => []GuardHonoursLocks
<1>1. Init => HonourInv
  BY DEF Init, HonourInv, GuardHonoursLocks, SinceIsPast, OpenWorkPRs, Open, Locks
<1>2. TypeOK /\ HonourInv /\ [Next]_vars => HonourInv'
  BY HonouredStep, HonourSame DEF vars
<1>3. HonourInv => GuardHonoursLocks
  BY DEF HonourInv
<1> QED
  BY <1>1, <1>2, <1>3, TypeCorrect, PTL DEF Spec

-------------------------------------------------------------------------------
(***************************************************************************)
(* The merge gate                                                          *)
(***************************************************************************)

(***************************************************************************)
(* Type correctness                                                        *)
(***************************************************************************)

\* The content of an artifact is that of a run that was started.
RunsStarted == \A h \in Heads : doc[h] # None => doc[h].run \in 1..runs

TypeInv == GateTypeOK /\ RunsStarted

LEMMA InitType == GateInit => TypeInv
<1> SUFFICES ASSUME GateInit PROVE TypeInv
  OBVIOUS
<1> USE GateAssumption
<1>1. authors \in Seq(Personas) /\ CurrentHead = 1
  <2>1. PICK a \in Personas : authors = <<a>>
    BY DEF GateInit
  <2> QED
    BY <2>1 DEF CurrentHead
<1>2. 1 \in Heads
  BY DEF Heads
<1>3. NoSnap \in Snap
  BY <1>2 DEF NoSnap, Snap, Checks
<1>4. NoDecision \in [allowed: BOOLEAN, head: Heads, signer: {"anybody", "reviewer"}]
  BY <1>2 DEF NoDecision
<1>5. signing \in [Personas -> 0..CurrentHead] /\ runs \in 0..MaxRuns
  BY <1>1 DEF GateInit
<1> QED
  BY <1>1, <1>2, <1>3, <1>4, <1>5 DEF GateInit, TypeInv, GateTypeOK, RunsStarted, Checks

\* Of the actions of GateNext, the ones that write an artifact and the one that signs it.
LEMMA SignWriteType ==
  ASSUME TypeInv, NEW p \in Personas, NEW h \in 1..CurrentHead, NEW state \in States,
         SignWrite(p, h, state)
  PROVE  TypeInv'
<1> USE GateAssumption DEF TypeInv, GateTypeOK
<1>1. h \in Heads /\ CurrentHead \in Nat
  BY DEF Heads
<1>2. runs' \in 1..MaxRuns /\ runs \in Nat /\ runs' = runs + 1
  BY DEF SignWrite
<1>3. [state |-> state, by |-> p, run |-> runs'] \in Doc
  BY <1>2 DEF Doc
<1>4. doc' = [doc EXCEPT ![h] = [state |-> state, by |-> p, run |-> runs']]
  BY DEF SignWrite
<1>5. doc' \in [Heads -> Doc \cup {None}]
  BY <1>1, <1>3, <1>4
<1>6. signing' \in [Personas -> 0..CurrentHead]
  BY <1>1 DEF SignWrite
<1>7. RunsStarted'
  <2> SUFFICES ASSUME NEW g \in Heads, doc'[g] # None
               PROVE  doc'[g].run \in 1..runs'
    BY DEF RunsStarted
  <2>1. CASE g = h
    BY <2>1, <1>1, <1>2, <1>4
  <2>2. CASE g # h
    <3>1. doc'[g] = doc[g]
      BY <2>2, <1>4
    <3>2. doc[g].run \in 1..runs
      BY <3>1 DEF RunsStarted
    <3> QED
      BY <3>1, <3>2, <1>2
  <2> QED
    BY <2>1, <2>2
<1>8. signed' \subseteq [by: Personas, sha: Heads, run: 1..runs']
  <2>1. 1..runs \subseteq 1..runs'
    BY <1>2
  <2>2. signed' = signed
    BY DEF SignWrite
  <2> QED
    BY <2>1, <2>2
<1>9. runs' \in 0..MaxRuns
  BY <1>2
<1>10. UNCHANGED <<forge, sig, check, greens>>
  BY DEF SignWrite
<1> QED
  BY <1>5, <1>6, <1>7, <1>8, <1>9, <1>10 DEF forge, check, CurrentHead

LEMMA SignFileType ==
  ASSUME TypeInv, NEW p \in Personas, SignFile(p)
  PROVE  TypeInv'
<1> USE GateAssumption DEF TypeInv, GateTypeOK
<1> DEFINE h == signing[p]
<1>1. h \in Heads /\ CurrentHead \in Nat
  BY DEF Heads, SignFile, Signs
<1>2. doc[h] \in Doc /\ doc[h].run \in 1..runs
  BY <1>1 DEF SignFile, RunsStarted
<1>3. doc[h].run \in 1..MaxRuns
  BY <1>2 DEF Doc
<1>4. sig' \in [Heads -> Sig \cup {None}]
  <2>1. [by |-> p, run |-> doc[h].run] \in Sig
    BY <1>3 DEF Sig
  <2>2. sig' = [sig EXCEPT ![h] = [by |-> p, run |-> doc[h].run]] \/ sig' = sig
    BY DEF SignFile, Signs
  <2> QED
    BY <2>1, <2>2
<1>5. signing' \in [Personas -> 0..CurrentHead]
  BY <1>1 DEF SignFile, Signs
<1>6. signed' \subseteq [by: Personas, sha: Heads, run: 1..runs]
  <2>1. signed' = signed \cup {[by |-> p, sha |-> h, run |-> doc[h].run]}
    BY DEF SignFile, Signs
  <2> QED
    BY <2>1, <1>1, <1>2
<1>7. UNCHANGED <<forge, doc, runs, check, greens>>
  BY DEF SignFile, Signs
<1> QED
  BY <1>4, <1>5, <1>6, <1>7 DEF forge, check, CurrentHead, RunsStarted

LEMMA NextType == TypeInv /\ [GateNext]_gateVars => TypeInv'
<1> SUFFICES ASSUME TypeInv, [GateNext]_gateVars PROVE TypeInv'
  OBVIOUS
<1> USE GateAssumption DEF TypeInv, GateTypeOK
<1>0. CurrentHead \in Nat /\ CurrentHead \in Heads
  BY DEF Heads
<1>1. ASSUME NEW a \in Personas, Push(a) PROVE TypeInv'
  <2>1. authors' \in Seq(Personas) /\ CurrentHead' = CurrentHead + 1
    BY <1>1 DEF Push, CurrentHead
  <2>2. CurrentHead' \in Heads
    BY <1>0, <1>1, <2>1 DEF Push, Heads
  <2>3. signing' \in [Personas -> 0..CurrentHead']
    <3>1. 0..CurrentHead \subseteq 0..CurrentHead'
      BY <1>0, <2>1
    <3>2. signing' = signing
      BY <1>1 DEF Push, verdicts
    <3> QED
      BY <3>1, <3>2
  <2> QED
    BY <1>1, <2>1, <2>2, <2>3 DEF Push, verdicts, check, Checks, RunsStarted
<1>2. ASSUME NEW state \in Checks, RunChecks(state) PROVE TypeInv'
  BY <1>0, <1>2 DEF RunChecks, verdicts, check, RunsStarted, CurrentHead
<1>3. ASSUME NEW v \in Comment, Post(v) PROVE TypeInv'
  BY <1>3 DEF Post, verdicts, check, RunsStarted, CurrentHead
<1>4. ASSUME NEW p \in Personas, SignFails(p) PROVE TypeInv'
  <2>1. signing[p] \in Heads
    BY <1>0, <1>4 DEF SignFails, Heads
  <2>2. doc' = [doc EXCEPT ![signing[p]] = None]
    BY <1>4 DEF SignFails
  <2>3. signing' \in [Personas -> 0..CurrentHead]
    BY <1>0, <1>4 DEF SignFails
  <2>4. RunsStarted'
    BY <1>4, <2>1, <2>2 DEF RunsStarted, SignFails
  <2> QED
    BY <1>4, <2>2, <2>3, <2>4 DEF SignFails, forge, check, CurrentHead
<1>5. ASSUME NEW p \in Personas, SignCrash(p) PROVE TypeInv'
  <2>1. signing' \in [Personas -> 0..CurrentHead]
    BY <1>0, <1>5 DEF SignCrash
  <2> QED
    BY <1>5, <2>1 DEF SignCrash, forge, check, RunsStarted, CurrentHead
<1>6. ASSUME NEW isHeld \in BOOLEAN, GateFetch(isHeld) PROVE TypeInv'
  <2>1. snap' \in Snap
    BY <1>0, <1>6 DEF GateFetch, Snap
  <2>2. decision' \in [allowed: BOOLEAN, head: Heads, signer: {"anybody", "reviewer"}]
    BY <1>6 DEF GateFetch, NoDecision, Heads
  <2> QED
    BY <1>6, <2>1, <2>2 DEF GateFetch, forge, verdicts, RunsStarted, CurrentHead
<1>7. ASSUME NEW posture \in Postures, NEW reg \in Registry, GateDecide(posture, reg)
      PROVE  TypeInv'
  <2>1. snap' \in Snap
    BY <1>7 DEF GateDecide, Decide, Snap, NoSnap, Heads, Checks
  <2>2. decision' \in [allowed: BOOLEAN, head: Heads, signer: {"anybody", "reviewer"}]
    BY <1>7 DEF GateDecide, Decide, Snap, NoDecision, Heads
  <2> QED
    BY <1>7, <2>1, <2>2 DEF GateDecide, Decide, forge, verdicts, RunsStarted, CurrentHead
<1>8. CASE UNCHANGED gateVars
  BY <1>8 DEF gateVars, forge, verdicts, check, RunsStarted, CurrentHead
<1> QED
  <2> HIDE DEF TypeInv, GateTypeOK
  <2> QED
    BY <1>1, <1>2, <1>3, <1>4, <1>5, <1>6, <1>7, <1>8, SignWriteType, SignFileType DEF GateNext

\* The variables hold what the forge, the checkout and the gate can hold.
THEOREM GateTypeCorrect == GateSpec => []GateTypeOK
<1>1. TypeInv => GateTypeOK
  BY DEF TypeInv
<1> QED
  BY InitType, NextType, <1>1, PTL DEF GateSpec

-------------------------------------------------------------------------------
(***************************************************************************)
(* What the gate allows                                                    *)
(***************************************************************************)

\* The snapshot was true of the forge, and what it shows stays true: comments and green
\* heads are never taken back.
SnapshotWasTrue ==
  /\ checks = "green" => CurrentHead \in greens
  /\ snap.comments \subseteq comments
  /\ snap.checks = "green" => snap.head \in greens

ReviewInv == GateTypeOK /\ SnapshotWasTrue /\ AllowedWasReviewed

\* A verdict that names the head and is no FAIL is a PASS.
LEMMA AllowedHasPass ==
  ASSUME NEW s \in Snap, NEW posture, NEW reg, Allowed(s, posture, reg)
  PROVE  /\ [state |-> "PASS", sha |-> s.head] \in s.comments
         /\ s.checks = "green"
         /\ \A v \in s.comments : v.sha = s.head => v.state = "PASS"
<1>1. ASSUME NEW v \in s.comments, v.sha = s.head
      PROVE  v = [state |-> "PASS", sha |-> s.head]
  <2>1. v \in Comment
    BY DEF Snap
  <2>2. v = [state |-> v.state, sha |-> s.head] /\ v.state \in {"PASS", "FAIL"}
    BY <2>1, <1>1 DEF Comment, States
  <2>3. v.state # "FAIL"
    BY <2>2 DEF Allowed, NoChangesRequested
  <2> QED
    BY <2>2, <2>3
<1>2. PICK v \in s.comments : v.sha = s.head
  BY DEF Allowed, VerdictAtHead
<1>3. s.checks = "green"
  BY DEF Allowed
<1> QED
  BY <1>1, <1>2, <1>3

LEMMA InitReview == GateInit => ReviewInv
<1> SUFFICES ASSUME GateInit PROVE ReviewInv
  OBVIOUS
<1>1. GateTypeOK
  BY InitType DEF TypeInv
<1> QED
  BY <1>1 DEF GateInit, ReviewInv, SnapshotWasTrue, AllowedWasReviewed, NoSnap, NoDecision

LEMMA NextReview == ReviewInv /\ GateTypeOK' /\ [GateNext]_gateVars => ReviewInv'
<1> SUFFICES ASSUME ReviewInv, GateTypeOK', [GateNext]_gateVars
             PROVE  SnapshotWasTrue' /\ AllowedWasReviewed'
  BY DEF ReviewInv
<1> USE DEF ReviewInv, SnapshotWasTrue, AllowedWasReviewed
<1>1. ASSUME NEW a \in Personas, Push(a) PROVE SnapshotWasTrue' /\ AllowedWasReviewed'
  BY <1>1 DEF Push, check
<1>2. ASSUME NEW state \in Checks, RunChecks(state)
      PROVE  SnapshotWasTrue' /\ AllowedWasReviewed'
  <2>1. greens \subseteq greens' /\ (state = "green" => CurrentHead \in greens')
    BY <1>2 DEF RunChecks
  <2> QED
    BY <1>2, <2>1 DEF RunChecks, check, CurrentHead
<1>3. ASSUME NEW v \in Comment, Post(v) PROVE SnapshotWasTrue' /\ AllowedWasReviewed'
  BY <1>3 DEF Post, check, CurrentHead
<1>4. ASSUME UNCHANGED <<forge, check, greens>>
      PROVE  SnapshotWasTrue' /\ AllowedWasReviewed'
  BY <1>4 DEF forge, check, CurrentHead
<1>5. ASSUME NEW isHeld \in BOOLEAN, GateFetch(isHeld)
      PROVE  SnapshotWasTrue' /\ AllowedWasReviewed'
  BY <1>5 DEF GateFetch, forge, NoDecision, CurrentHead
<1>6. ASSUME NEW posture \in Postures, NEW reg \in Registry, GateDecide(posture, reg)
      PROVE  SnapshotWasTrue' /\ AllowedWasReviewed'
  <2>1. SnapshotWasTrue'
    BY <1>6 DEF GateDecide, Decide, NoSnap, forge, CurrentHead
  <2>2. CASE Allowed(snap, posture, reg)
    <3>1. snap \in Snap
      BY DEF GateTypeOK
    <3>2. decision'.head = snap.head /\ UNCHANGED <<comments, greens>>
      BY <1>6, <2>2 DEF GateDecide, Decide, forge
    <3> QED
      BY <2>1, <2>2, <3>1, <3>2, AllowedHasPass
  <2>3. CASE ~Allowed(snap, posture, reg)
    BY <1>6, <2>1, <2>3 DEF GateDecide, Decide, NoDecision
  <2> QED
    BY <2>2, <2>3
<1>7. ASSUME NEW p \in Personas,
             \/ SignFile(p) \/ SignFails(p) \/ SignCrash(p)
             \/ \E h \in 1..CurrentHead, state \in States : SignWrite(p, h, state)
      PROVE  UNCHANGED <<forge, check, greens>>
  BY <1>7 DEF SignFile, Signs, SignFails, SignCrash, SignWrite
<1>8. CASE UNCHANGED gateVars
  BY <1>4, <1>8 DEF gateVars
<1> QED
  BY <1>1, <1>2, <1>3, <1>4, <1>5, <1>6, <1>7, <1>8 DEF GateNext

\* The head the gate allows was itself reviewed with a PASS and was itself green.
THEOREM AllowedWasReviewedAlways == GateSpec => []AllowedWasReviewed
<1>1. ReviewInv => AllowedWasReviewed
  BY DEF ReviewInv
<1> QED
  BY InitReview, NextReview, GateTypeCorrect, <1>1, PTL DEF GateSpec

-------------------------------------------------------------------------------
(***************************************************************************)
(* Who approved                                                            *)
(***************************************************************************)

\* A signature in the checkout was made by a `review sign` that reported success.
SignaturesWereReported ==
  \A h \in Heads :
    sig[h] # None => [by |-> sig[h].by, sha |-> h, run |-> sig[h].run] \in signed

LEMMA SignFileReports ==
  ASSUME GateTypeOK, SignaturesWereReported, NEW p \in Personas, SignFile(p)
  PROVE  SignaturesWereReported'
<1> DEFINE h == signing[p]
           report == [by |-> p, sha |-> h, run |-> doc[h].run]
<1>1. signed' = signed \cup {report}
  BY DEF SignFile, Signs
<1>2. CASE sig' = sig
  BY <1>1, <1>2 DEF SignaturesWereReported
<1>3. CASE sig' = [sig EXCEPT ![h] = [by |-> p, run |-> doc[h].run]]
  <2> SUFFICES ASSUME NEW g \in Heads, sig'[g] # None
               PROVE  [by |-> sig'[g].by, sha |-> g, run |-> sig'[g].run] \in signed'
    BY DEF SignaturesWereReported
  <2>1. CASE g = h
    BY <1>1, <1>3, <2>1 DEF GateTypeOK
  <2>2. CASE g # h
    <3>1. sig'[g] = sig[g]
      BY <1>3, <2>2 DEF GateTypeOK
    <3> QED
      BY <1>1, <3>1 DEF SignaturesWereReported
  <2> QED
    BY <2>1, <2>2
<1> QED
  BY <1>2, <1>3 DEF SignFile, Signs

LEMMA NextReports ==
  SignaturesWereReported /\ GateTypeOK /\ [GateNext]_gateVars => SignaturesWereReported'
<1> SUFFICES ASSUME SignaturesWereReported, GateTypeOK, [GateNext]_gateVars
             PROVE  SignaturesWereReported'
  OBVIOUS
<1>1. ASSUME UNCHANGED <<sig, signed>> PROVE SignaturesWereReported'
  BY <1>1 DEF SignaturesWereReported
<1>2. ASSUME NEW p \in Personas,
             \/ SignFails(p) \/ SignCrash(p)
             \/ \E h \in 1..CurrentHead, state \in States : SignWrite(p, h, state)
      PROVE  UNCHANGED <<sig, signed>>
  BY <1>2 DEF SignFails, SignCrash, SignWrite
<1>3. ASSUME \/ \E a \in Personas : Push(a)
             \/ \E state \in Checks : RunChecks(state)
             \/ \E v \in Comment : Post(v)
             \/ \E isHeld \in BOOLEAN : GateFetch(isHeld)
             \/ \E posture \in Postures, reg \in Registry : GateDecide(posture, reg)
      PROVE  UNCHANGED <<sig, signed>>
  BY <1>3 DEF Push, RunChecks, Post, GateFetch, GateDecide, Decide, verdicts
<1>4. CASE UNCHANGED gateVars
  BY <1>1, <1>4 DEF gateVars, verdicts
<1> QED
  BY <1>1, <1>2, <1>3, <1>4, SignFileReports DEF GateNext

\* Verified evidence names a reviewer that reported signing this very artifact.
LEMMA AttestedIsAttributed ==
  ASSUME SignaturesWereReported, NEW h \in Heads, NEW reg, Attested(h, reg)
  PROVE  Attributed(h)
<1>1. [by |-> sig[h].by, sha |-> h, run |-> sig[h].run] \in signed
  BY DEF SignaturesWereReported, Attested, Unsigned
<1>2. /\ sig[h].run = doc[h].run /\ sig[h].by = doc[h].by
      /\ sig[h].by \in Reviewers /\ sig[h].by # authors[h] /\ ~Unsigned(h)
  BY DEF Attested, SignerDiffers
<1> QED
  BY <1>1, <1>2 DEF Attributed

\* An answer that allows is one of GateDecide.
LEMMA AllowedByDecide ==
  ASSUME GateTypeOK, [GateNext]_gateVars, decision'.allowed, ~decision.allowed
  PROVE  \E posture \in Postures, reg \in Registry :
           GateDecide(posture, reg) /\ Allowed(snap, posture, reg)
<1>1. PICK posture \in Postures, reg \in Registry : GateDecide(posture, reg)
  <2>1. ASSUME \/ \E a \in Personas : Push(a)
               \/ \E state \in Checks : RunChecks(state)
               \/ \E v \in Comment : Post(v)
               \/ UNCHANGED gateVars
        PROVE  decision' = decision
    BY <2>1 DEF Push, RunChecks, Post, gateVars, check
  <2>2. ASSUME NEW p \in Personas,
               \/ SignFile(p) \/ SignFails(p) \/ SignCrash(p)
               \/ \E h \in 1..CurrentHead, state \in States : SignWrite(p, h, state)
        PROVE  decision' = decision
    BY <2>2 DEF SignFile, Signs, SignFails, SignCrash, SignWrite, check
  <2>3. ASSUME NEW isHeld \in BOOLEAN, GateFetch(isHeld) PROVE ~decision'.allowed
    BY <2>3 DEF GateFetch, NoDecision
  <2> QED
    BY <2>1, <2>2, <2>3 DEF GateNext
<1>2. Allowed(snap, posture, reg)
  BY <1>1 DEF GateDecide, Decide, NoDecision
<1> QED
  BY <1>1, <1>2

LEMMA AttributionStep ==
  ASSUME SignaturesWereReported, GateTypeOK, [GateNext]_gateVars, decision'.allowed, ~decision.allowed
  PROVE  \/ Attributed(snap.head)
         \/ Unsigned(snap.head) /\ decision'.signer = "anybody"
<1>1. PICK posture \in Postures, reg \in Registry :
        GateDecide(posture, reg) /\ Allowed(snap, posture, reg)
  BY AllowedByDecide
<1>2. Allowed(snap, posture, reg)
  BY <1>1
<1>3. decision'.signer = IF Waived(posture, reg) THEN "anybody" ELSE "reviewer"
  BY <1>1, <1>2 DEF GateDecide, Decide
<1>4. CASE Attested(snap.head, reg)
  <2>1. snap.head \in Heads
    BY DEF GateTypeOK, Snap
  <2> QED
    BY <1>4, <2>1, AttestedIsAttributed
<1>5. CASE Unsigned(snap.head) /\ ~Enforced(posture, reg)
  <2>1. Waived(posture, reg)
    BY <1>5 DEF Enforced, Waived, Postures
  <2> QED
    BY <1>3, <1>5, <2>1
<1> QED
  BY <1>2, <1>4, <1>5 DEF Allowed, VerdictSigned

\* The gate allows a head an independent reviewer signed a verdict on, PASS or FAIL, or on
\* none where none is demanded; never on a signature that does not verify.
THEOREM VerdictIsAttributedAlways == GateSpec => VerdictIsAttributed
<1>1. GateInit => SignaturesWereReported
  BY DEF GateInit, SignaturesWereReported
<1>2. SignaturesWereReported /\ GateTypeOK /\ [GateNext]_gateVars
        => [decision'.allowed /\ ~decision.allowed =>
              \/ Attributed(snap.head)
              \/ Unsigned(snap.head) /\ decision'.signer = "anybody"]_gateVars
  BY AttributionStep
<1> QED
  BY <1>1, <1>2, NextReports, GateTypeCorrect, PTL DEF GateSpec, VerdictIsAttributed

-------------------------------------------------------------------------------
(***************************************************************************)
(* What refuses for good                                                   *)
(***************************************************************************)

LEMMA FailStep ==
  ASSUME GateTypeOK, [GateNext]_gateVars, decision'.allowed, ~decision.allowed
  PROVE  \A v \in snap.comments : v.sha = snap.head => v.state = "PASS"
<1>1. PICK posture \in Postures, reg \in Registry : Allowed(snap, posture, reg)
  BY AllowedByDecide
<1>2. snap \in Snap
  BY DEF GateTypeOK
<1> QED
  BY <1>1, <1>2, AllowedHasPass

\* No gate run allows a head that had a FAIL of its own when the run looked.
THEOREM FailIsFinalAlways == GateSpec => FailIsFinal
<1>1. GateTypeOK /\ [GateNext]_gateVars
        => [decision'.allowed /\ ~decision.allowed =>
              \A v \in snap.comments : v.sha = snap.head => v.state = "PASS"]_gateVars
  BY FailStep
<1> QED
  BY <1>1, GateTypeCorrect, PTL DEF GateSpec, FailIsFinal

===============================================================================
