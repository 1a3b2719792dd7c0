----------------------------- MODULE StatusProofs -----------------------------
(***************************************************************************)
(* Theorems about the working copies and `baron status`, for any personas, *)
(* clones, branches, waivers and handoffs: no command takes work away that *)
(* it was not told to, and no finished report is silent about what was     *)
(* stranded when it looked.                                                *)
(***************************************************************************)
EXTENDS Status, WellFoundedInduction, TLAPS

-------------------------------------------------------------------------------
(***************************************************************************)
(* The inductive invariant                                                 *)
(***************************************************************************)

\* The local branches a store may have, each with its commits.
Heads == UNION {[B -> SUBSET Commits] : B \in SUBSET Branches}

\* What git and the copies may hold.
CopiesOK ==
    /\ origin \in SUBSET Commits
    /\ seen \in [Stores -> SUBSET Commits]
    /\ known \in SUBSET Stores
    /\ branch \in [Stores -> Heads]
    /\ copy \in [Copies -> CopyState]
    /\ removal \in [pc: {"idle", "remove"}, persona: Copies, force: BOOLEAN]
    /\ made \in SUBSET Commits /\ lost \in SUBSET Personas

\* A branch that a copy has checked out is there.
HeadsExist ==
    \A c \in Copies : Registered(c) =>
        copy[c].head = Detached \/ copy[c].head \in DOMAIN branch[StoreOf(c)]

\* Only worktrees are moved, deleted or removed.
StoresStay ==
    /\ \A s \in Stores : There(s)
    /\ removal.pc = "remove" => removal.persona \in Personas

\* origin's default branch never loses what a store has seen of it.
SeenIsOld == \A s \in Stores : seen[s] \subseteq origin

\* A commit is at origin or in a branch of some store.
HeldBy(n, upstream, heads) ==
    n \in upstream \/ \E s \in Stores : \E b \in DOMAIN heads[s] : n \in heads[s][b]

CopiesInv ==
    /\ CopiesOK /\ HeadsExist /\ StoresStay /\ SeenIsOld
    /\ lost = {}
    /\ \A n \in made : HeldBy(n, origin, branch)

\* A finding, and a waiver as a process of `waiver add` may hold it.
ChecksMade == {"ahead", "behind", "unmerged-branch", "missing", "no-default-branch",
               "handoff-overdue", "waived"}
Finding == [severity: {Red, Warn}, subject: Subjects, check: ChecksMade]
Waiver == [subjects: SUBSET Subjects, expires: Days]
Report == [pc: {"idle", "copies", "done"}, todo: SUBSET Copies, findings: SUBSET Finding,
           stranded: SUBSET Subjects, spared: SUBSET Subjects, parked: SUBSET Subjects, exit: {0, 1}]

StatusOK ==
    /\ today \in Days
    /\ waiverFile \in [torn: BOOLEAN, list: SUBSET Waiver]
    /\ waiverFile.torn => waiverFile.list = {}
    /\ adder \in [Adders -> [pc: {"idle", "write"}, list: SUBSET Waiver, new: Waiver]]
    /\ report \in Report

\* What is said of a subject among some findings, before the waivers.
Found(findings, subject) ==
    \/ \E f \in findings : f.severity = Red /\ f.subject = subject
    \/ Item(Warn, <<subject[1], HeadOf>>, "no-default-branch") \in findings

\* As far as status has looked, it has found what was stranded.
FoundSoFar ==
    report.pc = "copies" =>
        \A x \in report.stranded \ report.spared : Found(report.findings, NamedAs(x))

StatusInv == CopiesInv /\ StatusOK /\ FoundSoFar /\ NothingStrandedSilently

-------------------------------------------------------------------------------
(***************************************************************************)
(* Branches                                                                *)
(***************************************************************************)

LEMMA HeadsType ==
  ASSUME NEW h \in Heads
  PROVE  /\ DOMAIN h \subseteq Branches
         /\ \A b \in DOMAIN h : h[b] \subseteq Commits
         /\ h = [b \in DOMAIN h |-> h[b]]
<1>1. PICK B \in SUBSET Branches : h \in [B -> SUBSET Commits]
  BY DEF Heads
<1> QED
  BY <1>1

LEMMA HeadsForm ==
  ASSUME NEW B \in SUBSET Branches, NEW h \in [B -> SUBSET Commits]
  PROVE  h \in Heads
BY DEF Heads

\* A branch grows by a commit.
LEMMA HeadsGrow ==
  ASSUME NEW h \in Heads, NEW b \in DOMAIN h, NEW n \in Commits,
         NEW g, g = [h EXCEPT ![b] = @ \cup {n}]
  PROVE  /\ g \in Heads /\ DOMAIN g = DOMAIN h
         /\ n \in g[b] /\ \A d \in DOMAIN h : h[d] \subseteq g[d]
<1>1. /\ DOMAIN h \in SUBSET Branches
      /\ \A d \in DOMAIN h : h[d] \in SUBSET Commits
      /\ h = [d \in DOMAIN h |-> h[d]]
  BY HeadsType
<1>2. /\ DOMAIN g = DOMAIN h
      /\ \A d \in DOMAIN h : g[d] = IF d = b THEN h[b] \cup {n} ELSE h[d]
  BY <1>1
<1>3. g \in [DOMAIN h -> SUBSET Commits]
  BY <1>1, <1>2
<1> QED
  BY <1>1, <1>2, <1>3, HeadsForm

\* What is at origin or in a branch stays there while both only grow.
Grown(old, new) ==
    \A s \in Stores : DOMAIN old[s] \subseteq DOMAIN new[s]
                        /\ \A b \in DOMAIN old[s] : old[s][b] \subseteq new[s][b]

LEMMA HeldStays ==
  ASSUME NEW n, NEW upstream, NEW upstream2, NEW heads, NEW heads2,
         HeldBy(n, upstream, heads), upstream \subseteq upstream2, Grown(heads, heads2)
  PROVE  HeldBy(n, upstream2, heads2)
BY DEF HeldBy, Grown

\* WorkIsKept in the invariant's words.
LEMMA KeptIsHeld ==
  ASSUME lost = {}, \A n \in made : HeldBy(n, origin, branch)
  PROVE  WorkIsKept
<1>1. ASSUME NEW n \in made
      PROVE  n \in origin \cup UNION {UNION {branch[s][b] : b \in DOMAIN branch[s]} : s \in Stores}
  <2>1. CASE n \in origin
    BY <2>1
  <2>2. ASSUME NEW s \in Stores, NEW b \in DOMAIN branch[s], n \in branch[s][b]
        PROVE  n \in UNION {UNION {branch[t][d] : d \in DOMAIN branch[t]} : t \in Stores}
    <3>1. n \in UNION {branch[s][d] : d \in DOMAIN branch[s]}
      BY <2>2
    <3> QED
      BY <3>1
  <2> QED
    BY <1>1, <2>1, <2>2 DEF HeldBy
<1> QED
  BY <1>1 DEF WorkIsKept

LEMMA CopyKinds ==
  /\ Stores \subseteq Copies /\ Personas \subseteq Copies /\ Repo \in Stores
  /\ \A c \in Copies : StoreOf(c) \in Stores /\ (c \in Personas \/ c \in Stores)
  /\ \A p \in Personas : p \notin Stores /\ BranchOf(p) \in Branches /\ StoreOf(p) = Repo
  /\ Default \in Branches /\ Detached \notin Branches
BY WorktreesAssumption DEF Copies, Stores, StoreOf, Branches

\* The commits of a copy's HEAD are commits.
LEMMA HeadCommitsType ==
  ASSUME CopiesOK, HeadsExist, NEW c \in Copies, Registered(c)
  PROVE  HeadCommits(c) \subseteq Commits
<1>1. copy[c] \in CopyState /\ copy[c].at \subseteq Commits /\ StoreOf(c) \in Stores
  BY CopyKinds DEF CopiesOK, CopyState
<1>2. CASE copy[c].head = Detached
  BY <1>1, <1>2 DEF HeadCommits
<1>3. CASE copy[c].head \in DOMAIN branch[StoreOf(c)] /\ copy[c].head # Detached
  <2>1. branch[StoreOf(c)] \in Heads
    BY <1>1 DEF CopiesOK
  <2> QED
    BY <1>3, <2>1, HeadsType DEF HeadCommits
<1> QED
  BY <1>2, <1>3 DEF HeadsExist

LEMMA SomeCommit ==
  ASSUME NEW S, S \subseteq Commits, S # {}
  PROVE  (CHOOSE n \in S : \A m \in S : n <= m) \in S
<1> DEFINE Less == {r \in Nat \X Nat : r[1] < r[2]}
<1>1. IsWellFoundedOn(Less, Nat)
  BY NatLessThanWellFounded DEF OpToRel
<1>2. S \subseteq Nat
  BY DEF Commits
<1> HIDE DEF Less
<1>3. PICK x \in S : \A y \in S : <<y, x>> \notin Less
  BY <1>1, <1>2, WFMin
<1>4. \A y \in S : ~ (y < x)
  BY <1>2, <1>3 DEF Less
<1>5. \A y \in S : x <= y
  BY <1>2, <1>4
<1> QED
  BY <1>5

-------------------------------------------------------------------------------
(***************************************************************************)
(* The working copies                                                      *)
(***************************************************************************)

\* One copy is put in another state, of the same place if it is a store's.
LEMMA CopyChanged ==
  ASSUME CopiesOK, HeadsExist, StoresStay, NEW c \in Copies, NEW v \in CopyState,
         copy' = [copy EXCEPT ![c] = v],
         \A s \in Stores : DOMAIN branch[s] \subseteq DOMAIN branch'[s],
         v.place # "none" => v.head = Detached \/ v.head \in DOMAIN branch'[StoreOf(c)],
         c \in Stores => v.place = "there", UNCHANGED removal
  PROVE  /\ copy' \in [Copies -> CopyState]
         /\ copy'[c] = v /\ \A d \in Copies : d # c => copy'[d] = copy[d]
         /\ HeadsExist' /\ StoresStay'
<1>1. /\ copy' \in [Copies -> CopyState]
      /\ copy'[c] = v /\ \A d \in Copies : d # c => copy'[d] = copy[d]
  BY DEF CopiesOK
<1>2. HeadsExist'
  <2> SUFFICES ASSUME NEW d \in Copies, copy'[d].place # "none"
               PROVE  copy'[d].head = Detached \/ copy'[d].head \in DOMAIN branch'[StoreOf(d)]
    BY DEF HeadsExist, Registered
  <2>1. CASE d = c
    BY <1>1, <2>1
  <2>2. CASE d # c
    BY <1>1, <2>2, CopyKinds DEF HeadsExist, Registered
  <2> QED
    BY <2>1, <2>2
<1>3. StoresStay'
  <2>1. \A s \in Stores : copy'[s].place = "there"
    BY <1>1, CopyKinds DEF StoresStay, There
  <2> QED
    BY <2>1 DEF StoresStay, There
<1> QED
  BY <1>1, <1>2, <1>3

LEMMA MakeCommitKeeps ==
  ASSUME CopiesInv, NEW c \in Copies, MakeCommit(c)
  PROVE  CopiesInv'
<1> DEFINE new == CHOOSE n \in Unused : \A m \in Unused : n <= m
           b   == copy[c].head
<1>0. Unused \subseteq Commits /\ Unused # {}
  BY DEF MakeCommit, Unused
<1>1. PICK n \in Commits : n = new
  BY <1>0, SomeCommit
<1>2. /\ copy \in [Copies -> CopyState] /\ branch \in [Stores -> Heads] /\ copy[c] \in CopyState
      /\ UNCHANGED <<origin, seen, known, removal, lost>> /\ copy[c].place = "there"
  BY DEF CopiesInv, CopiesOK, MakeCommit, There
<1>3. CASE b = Detached
  <2>1. /\ copy' = [copy EXCEPT ![c].at = @ \cup {n}, ![c].dirty = FALSE]
        /\ UNCHANGED <<branch, made>>
    BY <1>1, <1>3, Zenon DEF MakeCommit
  <2> DEFINE v == [copy[c] EXCEPT !.at = @ \cup {n}, !.dirty = FALSE]
  <2>2. copy' = [copy EXCEPT ![c] = v]
    BY <1>2, <2>1
  <2>3. v \in CopyState /\ v.place = "there" /\ v.head = Detached
    BY <1>2, <1>3 DEF CopyState
  <2> HIDE DEF v
  <2>4. copy' \in [Copies -> CopyState] /\ HeadsExist' /\ StoresStay'
    BY <1>2, <2>1, <2>2, <2>3, CopyChanged DEF CopiesInv
  <2> QED
    BY <1>2, <2>1, <2>4 DEF CopiesInv, CopiesOK, SeenIsOld, HeldBy
<1>4. CASE b # Detached
  <2> DEFINE s == StoreOf(c)
  <2>0. s \in Stores /\ b \in DOMAIN branch[s] /\ branch[s] \in Heads
    BY <1>2, <1>4, CopyKinds DEF CopiesInv, HeadsExist, Registered
  <2>1. /\ branch' = [branch EXCEPT ![s][b] = @ \cup {n}]
        /\ copy' = [copy EXCEPT ![c].dirty = FALSE]
        /\ made' = made \cup {n}
    BY <1>1, <1>4, Zenon DEF MakeCommit
  <2> DEFINE v == [copy[c] EXCEPT !.dirty = FALSE]
             g == [branch[s] EXCEPT ![b] = @ \cup {n}]
  <2>2. copy' = [copy EXCEPT ![c] = v] /\ branch' = [branch EXCEPT ![s] = g]
    BY <1>2, <2>0, <2>1
  <2>3. v \in CopyState /\ v.place = "there" /\ v.head = b
    BY <1>2 DEF CopyState
  <2>4. /\ g \in Heads /\ DOMAIN g = DOMAIN branch[s]
        /\ n \in g[b] /\ \A d \in DOMAIN branch[s] : branch[s][d] \subseteq g[d]
    BY <2>0, HeadsGrow
  <2> HIDE DEF v, g, s, b
  <2>5. /\ branch' \in [Stores -> Heads] /\ Grown(branch, branch')
        /\ \A t \in Stores : DOMAIN branch'[t] = DOMAIN branch[t]
        /\ n \in branch'[s][b] /\ b \in DOMAIN branch'[s]
    BY <1>2, <2>0, <2>2, <2>4 DEF Grown
  <2>6. copy' \in [Copies -> CopyState] /\ HeadsExist' /\ StoresStay'
    BY <1>2, <2>0, <2>2, <2>3, <2>5, CopyChanged DEF CopiesInv, s
  <2>7. \A m \in made' : HeldBy(m, origin', branch')
    <3>1. HeldBy(n, origin', branch')
      BY <2>0, <2>5 DEF HeldBy
    <3>2. \A m \in made : HeldBy(m, origin', branch')
      BY <1>2, <2>5, HeldStays DEF CopiesInv
    <3> QED
      BY <2>1, <3>1, <3>2
  <2> QED
    BY <1>2, <2>1, <2>5, <2>6, <2>7 DEF CopiesInv, CopiesOK, SeenIsOld
<1> QED
  BY <1>3, <1>4

\* A step of the copies alone, which leaves the branches and what is made as they are.
LEMMA CopyAlone ==
  ASSUME CopiesInv, UNCHANGED <<origin, seen, known, branch, made>>,
         copy' \in [Copies -> CopyState], HeadsExist', StoresStay',
         removal' \in [pc: {"idle", "remove"}, persona: Copies, force: BOOLEAN], lost' = {}
  PROVE  CopiesInv'
BY DEF CopiesInv, CopiesOK, SeenIsOld, HeldBy

LEMMA EditKeeps ==
  ASSUME CopiesInv, NEW p \in Personas, Edit(p)
  PROVE  CopiesInv'
<1> DEFINE v == [copy[p] EXCEPT !.dirty = TRUE]
<1>1. /\ p \in Copies /\ copy \in [Copies -> CopyState] /\ copy[p] \in CopyState
      /\ Registered(p) /\ copy[p].place = "there"
      /\ UNCHANGED <<origin, seen, known, branch, removal, made, lost>>
  BY CopyKinds DEF CopiesInv, CopiesOK, Edit, There, Registered
<1>2. copy' = [copy EXCEPT ![p].dirty = TRUE]
  BY Zenon DEF Edit
<1>3. copy' = [copy EXCEPT ![p] = v]
  BY <1>1, <1>2
<1>4. v \in CopyState /\ v.place = "there" /\ v.head = copy[p].head
  BY <1>1 DEF CopyState
<1> HIDE DEF v
<1>5. copy' \in [Copies -> CopyState] /\ HeadsExist' /\ StoresStay'
  BY <1>1, <1>3, <1>4, CopyChanged DEF CopiesInv, HeadsExist
<1> QED
  BY <1>1, <1>5, CopyAlone DEF CopiesInv, CopiesOK

LEMMA SwitchKeeps ==
  ASSUME CopiesInv, NEW c \in Copies, NEW b \in Branches, Switch(c, b)
  PROVE  CopiesInv'
<1> DEFINE v == [copy[c] EXCEPT !.head = b, !.at = {}]
<1>1. /\ copy \in [Copies -> CopyState] /\ copy[c] \in CopyState /\ copy[c].place = "there"
      /\ b \in DOMAIN branch[StoreOf(c)]
      /\ UNCHANGED <<origin, seen, known, branch, removal, made, lost>>
  BY DEF CopiesInv, CopiesOK, Switch, There, BranchExists
<1>2. copy' = [copy EXCEPT ![c].head = b, ![c].at = {}]
  BY Zenon DEF Switch
<1>3. copy' = [copy EXCEPT ![c] = v]
  BY <1>1, <1>2
<1>4. v \in CopyState /\ v.place = "there" /\ v.head = b
  BY <1>1 DEF CopyState
<1> HIDE DEF v
<1>5. copy' \in [Copies -> CopyState] /\ HeadsExist' /\ StoresStay'
  BY <1>1, <1>3, <1>4, CopyChanged DEF CopiesInv
<1> QED
  BY <1>1, <1>5, CopyAlone DEF CopiesInv, CopiesOK

LEMMA DetachKeeps ==
  ASSUME CopiesInv, NEW c \in Copies, Detach(c)
  PROVE  CopiesInv'
<1>1. /\ copy \in [Copies -> CopyState] /\ copy[c] \in CopyState /\ copy[c].place = "there"
      /\ Registered(c)
      /\ UNCHANGED <<origin, seen, known, branch, removal, made, lost>>
  BY DEF CopiesInv, CopiesOK, Detach, There, Registered
<1> PICK commits \in SUBSET Commits : commits = HeadCommits(c)
  BY <1>1, HeadCommitsType DEF CopiesInv
<1> DEFINE v == [copy[c] EXCEPT !.head = Detached, !.at = commits]
<1>2. copy' = [copy EXCEPT ![c].head = Detached, ![c].at = commits]
  BY Zenon DEF Detach
<1>3. copy' = [copy EXCEPT ![c] = v]
  BY <1>1, <1>2
<1>4. v \in CopyState /\ v.place = "there" /\ v.head = Detached
  BY <1>1 DEF CopyState
<1> HIDE DEF v
<1>5. copy' \in [Copies -> CopyState] /\ HeadsExist' /\ StoresStay'
  BY <1>1, <1>3, <1>4, CopyChanged DEF CopiesInv
<1> QED
  BY <1>1, <1>5, CopyAlone DEF CopiesInv, CopiesOK

LEMMA MergeKeeps ==
  ASSUME CopiesInv, NEW s \in Stores, NEW b \in Branches, Merge(s, b)
  PROVE  CopiesInv'
<1>1. /\ origin' = origin \cup branch[s][b] /\ b \in DOMAIN branch[s]
      /\ UNCHANGED <<seen, known, branch, copy, removal, made, lost>>
  BY DEF Merge, BranchExists
<1>2. branch[s][b] \subseteq Commits
  BY <1>1, HeadsType DEF CopiesInv, CopiesOK
<1>3. CopiesOK' /\ SeenIsOld'
  BY <1>1, <1>2 DEF CopiesInv, CopiesOK, SeenIsOld
<1>4. HeadsExist' /\ StoresStay'
  BY <1>1 DEF CopiesInv, HeadsExist, StoresStay, Registered, There
<1>5. \A n \in made' : HeldBy(n, origin', branch')
  BY <1>1, HeldStays DEF CopiesInv, Grown
<1> QED
  BY <1>1, <1>3, <1>4, <1>5 DEF CopiesInv

LEMMA MoveAwayKeeps ==
  ASSUME CopiesInv, NEW p \in Personas, NEW place \in {"gone", "elsewhere"}, MoveAway(p, place)
  PROVE  CopiesInv'
<1>1. /\ p \in Copies /\ p \notin Stores /\ copy \in [Copies -> CopyState] /\ copy[p] \in CopyState
      /\ Registered(p)
      /\ UNCHANGED <<origin, seen, known, branch, removal, made, lost>>
  BY CopyKinds DEF CopiesInv, CopiesOK, MoveAway, There, Registered
<1> PICK d \in BOOLEAN : d = (copy[p].dirty /\ place = "elsewhere")
  BY <1>1 DEF CopyState
<1> DEFINE v == [copy[p] EXCEPT !.place = place, !.dirty = d]
<1>2. copy' = [copy EXCEPT ![p].place = place, ![p].dirty = @ /\ place = "elsewhere"]
  BY Zenon DEF MoveAway
<1>3. copy' = [copy EXCEPT ![p] = v]
  BY <1>1, <1>2
<1>4. v \in CopyState /\ v.head = copy[p].head
  BY <1>1 DEF CopyState
<1> HIDE DEF v
<1>5. copy' \in [Copies -> CopyState] /\ HeadsExist' /\ StoresStay'
  BY <1>1, <1>3, <1>4, CopyChanged DEF CopiesInv, HeadsExist
<1> QED
  BY <1>1, <1>5, CopyAlone DEF CopiesInv, CopiesOK

LEMMA FreshType ==
  /\ \A b \in Branches : Fresh(b) \in CopyState /\ Fresh(b).place = "there" /\ Fresh(b).head = b
  /\ Absent \in CopyState /\ Absent.place = "none"
BY DEF Fresh, Absent, CopyState

LEMMA AddKeeps ==
  ASSUME CopiesInv, NEW p \in Personas, Add(p)
  PROVE  CopiesInv'
<1>1. /\ p \in Copies /\ p \notin Stores /\ Repo \in Stores /\ StoreOf(p) = Repo
      /\ BranchOf(p) \in Branches
  BY CopyKinds
<1> PICK b \in Branches : b = BranchOf(p)
  BY <1>1
<1> PICK v \in CopyState : v = Fresh(b)
  BY FreshType
<1>2. /\ copy' = [copy EXCEPT ![p] = v] /\ v.head = b
      /\ UNCHANGED <<origin, seen, known, removal, made, lost>>
  BY FreshType DEF Add
<1>3. /\ branch' \in [Stores -> Heads] /\ Grown(branch, branch')
      /\ b \in DOMAIN branch'[Repo]
  <2>1. /\ branch \in [Stores -> Heads] /\ branch[Repo] \in Heads
        /\ seen[Repo] \in SUBSET Commits
    BY <1>1 DEF CopiesInv, CopiesOK
  <2>2. CASE b \in DOMAIN branch[Repo]
    <3>1. branch' = branch
      BY <2>2 DEF Add, BranchExists
    <3> QED
      BY <2>1, <2>2, <3>1 DEF Grown
  <2>3. CASE b \notin DOMAIN branch[Repo]
    <3> PICK h \in Heads, commits \in SUBSET Commits : h = branch[Repo] /\ commits = seen[Repo]
      BY <2>1
    <3> PICK g : g = [d \in DOMAIN h \cup {b} |-> IF d = b THEN commits ELSE h[d]]
      OBVIOUS
    <3>1. branch' = [branch EXCEPT ![Repo] = g]
      BY <1>1, <2>1, <2>3 DEF Add, BranchExists
    <3>2. /\ DOMAIN h \cup {b} \in SUBSET Branches
          /\ \A d \in DOMAIN h : h[d] \in SUBSET Commits
      BY HeadsType
    <3>3. /\ g \in [DOMAIN h \cup {b} -> SUBSET Commits] /\ b \in DOMAIN g
          /\ DOMAIN h \subseteq DOMAIN g /\ \A d \in DOMAIN h : h[d] \subseteq g[d]
      BY <2>3, <3>2
    <3>4. g \in Heads
      BY <3>2, <3>3, HeadsForm
    <3> QED
      BY <1>1, <2>1, <3>1, <3>3, <3>4 DEF Grown
  <2> QED
    BY <2>2, <2>3
<1>4. copy' \in [Copies -> CopyState] /\ HeadsExist' /\ StoresStay'
  BY <1>1, <1>2, <1>3, CopyChanged DEF CopiesInv, Grown
<1>5. \A n \in made' : HeldBy(n, origin', branch')
  BY <1>2, <1>3, HeldStays DEF CopiesInv
<1> QED
  BY <1>2, <1>3, <1>4, <1>5 DEF CopiesInv, CopiesOK, SeenIsOld

LEMMA RemoveReadKeeps ==
  ASSUME CopiesInv, NEW p \in Personas, NEW force \in BOOLEAN, RemoveRead(p, force)
  PROVE  CopiesInv'
<1>1. PICK q \in Personas : removal' = [pc |-> "remove", persona |-> q, force |-> force]
  BY DEF RemoveRead, Target
<1>2. UNCHANGED <<origin, seen, known, branch, copy, made, lost>>
  BY DEF RemoveRead
<1>3. /\ removal' \in [pc: {"idle", "remove"}, persona: Copies, force: BOOLEAN]
      /\ removal'.persona \in Personas
  BY <1>1, CopyKinds
<1>4. HeadsExist' /\ StoresStay'
  BY <1>2, <1>3 DEF CopiesInv, HeadsExist, StoresStay, Registered, There
<1> QED
  BY <1>2, <1>3, <1>4, CopyAlone DEF CopiesInv, CopiesOK

\* git takes only clean worktrees away without being forced to.
LEMMA GitRemoveKeeps ==
  ASSUME CopiesInv, GitRemove
  PROVE  CopiesInv'
<1> DEFINE q == removal.persona
<1>1. /\ removal' = NoRemoval /\ removal.pc = "remove"
      /\ UNCHANGED <<origin, seen, known, branch, made>>
      /\ q \in Personas /\ q \in Copies /\ q \notin Stores
  BY CopyKinds DEF GitRemove, CopiesInv, StoresStay
<1>2. removal' \in [pc: {"idle", "remove"}, persona: Copies, force: BOOLEAN] /\ removal'.pc = "idle"
  BY <1>1, CopyKinds DEF NoRemoval
<1>3. CASE UNCHANGED <<copy, lost>>
  <2>1. HeadsExist' /\ StoresStay'
    BY <1>1, <1>2, <1>3 DEF CopiesInv, HeadsExist, StoresStay, Registered, There
  <2> QED
    BY <1>1, <1>2, <1>3, <2>1, CopyAlone DEF CopiesInv, CopiesOK
<1>4. CASE /\ Registered(q) /\ (ForceFlag(removal.force) \/ ~(There(q) /\ copy[q].dirty))
           /\ copy' = [copy EXCEPT ![q] = Absent]
           /\ lost' = IF There(q) /\ copy[q].dirty /\ ~removal.force THEN lost \cup {q} ELSE lost
  <2>1. lost' = {}
    BY <1>4 DEF ForceFlag, CopiesInv
  <2>2. copy' \in [Copies -> CopyState] /\ HeadsExist'
    <3> PICK v \in CopyState : v = Absent /\ v.place = "none"
      BY FreshType
    <3>1. copy' = [copy EXCEPT ![q] = v] /\ copy \in [Copies -> CopyState]
      BY <1>4 DEF CopiesInv, CopiesOK
    <3>2. /\ copy' \in [Copies -> CopyState] /\ copy'[q] = v
          /\ \A d \in Copies : d # q => copy'[d] = copy[d]
      BY <1>1, <3>1
    <3>3. ASSUME NEW d \in Copies, copy'[d].place # "none"
          PROVE  copy'[d].head = Detached \/ copy'[d].head \in DOMAIN branch'[StoreOf(d)]
      BY <1>1, <3>2, <3>3 DEF CopiesInv, HeadsExist, Registered
    <3> QED
      BY <3>2, <3>3 DEF HeadsExist, Registered
  <2>3. StoresStay'
    <3>1. \A s \in Stores : copy'[s] = copy[s]
      BY <1>1, <1>4, CopyKinds DEF CopiesInv, CopiesOK
    <3> QED
      BY <1>2, <3>1 DEF CopiesInv, StoresStay, There
  <2> QED
    BY <1>1, <1>2, <2>1, <2>2, <2>3, CopyAlone
<1> QED
  BY <1>3, <1>4, Zenon DEF GitRemove

LEMMA PruneKeeps ==
  ASSUME CopiesInv, Prune
  PROVE  CopiesInv'
<1>1. /\ copy' = [p \in Copies |-> IF p \in Personas /\ ~There(p) THEN Absent ELSE copy[p]]
      /\ UNCHANGED <<origin, seen, known, branch, removal, made, lost>>
  BY DEF Prune
<1>2. /\ \A c \in Copies : copy[c] \in CopyState
      /\ Absent \in CopyState /\ Absent.place = "none"
  BY FreshType DEF CopiesInv, CopiesOK
<1>3. \A c \in Copies : copy'[c] = copy[c] \/ (c \notin Stores /\ copy'[c] = Absent)
  BY <1>1, CopyKinds
<1>4. copy' \in [Copies -> CopyState]
  BY <1>1, <1>2
<1>5. HeadsExist'
  <2> SUFFICES ASSUME NEW c \in Copies, copy'[c].place # "none"
               PROVE  copy'[c].head = Detached \/ copy'[c].head \in DOMAIN branch'[StoreOf(c)]
    BY DEF HeadsExist, Registered
  <2>1. copy'[c] = copy[c]
    BY <1>2, <1>3
  <2> QED
    BY <1>1, <2>1 DEF CopiesInv, HeadsExist, Registered
<1>6. StoresStay'
  BY <1>1, <1>3, CopyKinds DEF CopiesInv, StoresStay, There
<1> QED
  BY <1>1, <1>4, <1>5, <1>6, CopyAlone DEF CopiesInv, CopiesOK

LEMMA RepairKeeps ==
  ASSUME CopiesInv, NEW p \in Personas, Repair(p)
  PROVE  CopiesInv'
<1> DEFINE v == [copy[p] EXCEPT !.place = "there"]
<1>1. /\ p \in Copies /\ copy \in [Copies -> CopyState] /\ copy[p] \in CopyState
      /\ Registered(p)
      /\ UNCHANGED <<origin, seen, known, branch, removal, made, lost>>
  BY CopyKinds DEF CopiesInv, CopiesOK, Repair, Registered
<1>2. copy' = [copy EXCEPT ![p].place = "there"]
  BY Zenon DEF Repair
<1>3. copy' = [copy EXCEPT ![p] = v]
  BY <1>1, <1>2
<1>4. v \in CopyState /\ v.place = "there" /\ v.head = copy[p].head
  BY <1>1 DEF CopyState
<1> HIDE DEF v
<1>5. copy' \in [Copies -> CopyState] /\ HeadsExist' /\ StoresStay'
  BY <1>1, <1>3, <1>4, CopyChanged DEF CopiesInv, HeadsExist
<1> QED
  BY <1>1, <1>5, CopyAlone DEF CopiesInv, CopiesOK

\* Whatever is done in the copies, by people or by baron.
LEMMA CopiesStep ==
  ASSUME CopiesInv, WNext
  PROVE  CopiesInv'
<1>1. CASE \E c \in Copies : MakeCommit(c)
  BY <1>1, MakeCommitKeeps
<1>2. CASE \E p \in Personas : Edit(p)
  BY <1>2, EditKeeps
<1>3. CASE \E c \in Copies, b \in Branches : Switch(c, b)
  BY <1>3, SwitchKeeps
<1>4. CASE \E c \in Committers : Detach(c)
  BY <1>4, DetachKeeps, WorktreesAssumption
<1>5. CASE \E s \in Stores, b \in Branches : Merge(s, b)
  BY <1>5, MergeKeeps
<1>6. CASE \E p \in Personas, place \in {"gone", "elsewhere"} : MoveAway(p, place)
  BY <1>6, MoveAwayKeeps
<1>7. CASE \E p \in Personas : Add(p)
  BY <1>7, AddKeeps
<1>8. CASE \E p \in Personas, force \in BOOLEAN : RemoveRead(p, force)
  BY <1>8, RemoveReadKeeps
<1>9. CASE GitRemove
  BY <1>9, GitRemoveKeeps
<1>10. CASE Prune
  BY <1>10, PruneKeeps
<1>11. CASE \E p \in Personas : Repair(p)
  BY <1>11, RepairKeeps
<1> QED
  BY <1>1, <1>2, <1>3, <1>4, <1>5, <1>6, <1>7, <1>8, <1>9, <1>10, <1>11 DEF WNext

-------------------------------------------------------------------------------
(***************************************************************************)
(* The report                                                              *)
(***************************************************************************)

\* The names of severities, checks and subjects are told apart.
LEMMA Constants ==
  /\ Red # Warn /\ Red \in {Red, Warn} /\ Warn \in {Red, Warn}
  /\ \A c \in Copies : <<c, HeadOf>> \in Subjects
  /\ \A c \in Copies, b \in Branches : <<c, b>> \in Subjects
  /\ \A h \in Handoffs : <<h, "handoff">> \in Subjects
  /\ 0 \in Days
BY StatusAssumption DEF Red, Warn, Subjects, Days

LEMMA ItemType ==
  ASSUME NEW severity \in {Red, Warn}, NEW x \in Subjects, NEW what \in ChecksMade
  PROVE  /\ Item(severity, x, what) \in Finding
         /\ Item(severity, x, what).severity = severity /\ Item(severity, x, what).subject = x
BY DEF Item, Finding

\* The findings of one copy are findings.
LEMMA CheckType ==
  ASSUME CopiesInv, NEW c \in Copies, NEW view \in SUBSET Commits, NEW can \in BOOLEAN
  PROVE  CheckWorkingCopy(c, view, can) \subseteq Finding
<1>1. /\ Item(Red, <<c, HeadOf>>, "missing") \in Finding
      /\ Item(Warn, <<c, HeadOf>>, "no-default-branch") \in Finding
      /\ Item(Red, <<c, HeadOf>>, "ahead") \in Finding
      /\ Item(Red, <<c, HeadOf>>, "behind") \in Finding
  BY Constants, ItemType DEF ChecksMade
<1>2. CheckHead(c, view) \subseteq Finding
  BY <1>1 DEF CheckHead, When
<1>3. ASSUME c \in Stores PROVE CheckBranches(c, view) \subseteq Finding
  <2>1. branch[c] \in Heads
    BY <1>3 DEF CopiesInv, CopiesOK
  <2>2. \A b \in DOMAIN branch[c] : Item(Red, <<c, b>>, "unmerged-branch") \in Finding
    BY <2>1, HeadsType, Constants, ItemType DEF ChecksMade
  <2> QED
    BY <2>2 DEF CheckBranches
<1> QED
  BY <1>1, <1>2, <1>3 DEF CheckWorkingCopy

LEMMA StrandedType ==
  ASSUME CopiesInv, NEW c \in Copies
  PROVE  StrandedIn(c) \subseteq Subjects
<1>1. <<c, HeadOf>> \in Subjects
  BY Constants
<1>2. ASSUME c \in Stores, NEW b \in DOMAIN branch[c] PROVE <<c, b>> \in Subjects
  <2>1. branch[c] \in Heads
    BY <1>2 DEF CopiesInv, CopiesOK
  <2> QED
    BY <1>2, <2>1, HeadsType, Constants
<1> QED
  BY <1>1, <1>2 DEF StrandedIn, When

\* What is stranded in a copy is found by the comparison with what its store has seen, which
\* is never more than origin has; a store's own copy is where it was.
LEMMA CheckFinds ==
  ASSUME CopiesInv, NEW c \in Copies, NEW view, view \subseteq origin, NEW can \in BOOLEAN,
         NEW y \in StrandedIn(c), y \notin SparedIn(c), NEW x, x = NamedAs(y)
  PROVE  Found(CheckWorkingCopy(c, view, can), x)
<1>1. CASE There(c) /\ ~(HeadCommits(c) \subseteq origin) /\ x = <<c, HeadOf>>
  <2>1. CASE ~can
    BY <1>1, <2>1 DEF CheckWorkingCopy, Found
  <2>2. CASE can
    <3>1. CommitsNotIn(HeadCommits(c), view) # {}
      BY <1>1 DEF CommitsNotIn
    <3>2. Item(Red, x, "ahead") \in CheckWorkingCopy(c, view, can)
      BY <1>1, <2>2, <3>1 DEF CheckWorkingCopy, CheckHead, When
    <3>3. Item(Red, x, "ahead").severity = Red /\ Item(Red, x, "ahead").subject = x
      BY DEF Item
    <3> QED
      BY <3>2, <3>3 DEF Found
  <2> QED
    BY <2>1, <2>2
<1>2. ASSUME c \in Stores, NEW b \in DOMAIN branch[c], ~(branch[c][b] \subseteq origin), x = <<c, b>>,
             b # Default
      PROVE  Found(CheckWorkingCopy(c, view, can), x)
  <2>1. There(c)
    BY <1>2 DEF CopiesInv, StoresStay
  <2>2. CASE ~can
    BY <1>2, <2>1, <2>2 DEF CheckWorkingCopy, Found
  <2>3. CASE can
    <3>1. CommitsNotIn(branch[c][b], view) # {}
      BY <1>2 DEF CommitsNotIn
    <3>2. Item(Red, x, "unmerged-branch") \in CheckBranches(c, view)
      BY <1>2, <2>1, <3>1 DEF CheckBranches
    <3>3. Item(Red, x, "unmerged-branch") \in CheckWorkingCopy(c, view, can)
      BY <1>2, <2>1, <2>3, <3>2 DEF CheckWorkingCopy
    <3>4. /\ Item(Red, x, "unmerged-branch").severity = Red
          /\ Item(Red, x, "unmerged-branch").subject = x
      BY DEF Item
    <3> QED
      BY <3>3, <3>4 DEF Found
  <2> QED
    BY <2>2, <2>3
<1>3. \/ There(c) /\ ~(HeadCommits(c) \subseteq origin) /\ y = <<c, HeadOf>>
      \/ c \in Stores /\ \E b \in DOMAIN branch[c] : ~(branch[c][b] \subseteq origin) /\ y = <<c, b>>
  BY DEF StrandedIn, When
<1>4. CASE There(c) /\ ~(HeadCommits(c) \subseteq origin) /\ y = <<c, HeadOf>>
  BY <1>1, <1>4 DEF NamedAs
<1>5. ASSUME c \in Stores, NEW b \in DOMAIN branch[c], ~(branch[c][b] \subseteq origin), y = <<c, b>>
      PROVE  Found(CheckWorkingCopy(c, view, can), x)
  <2>1. CASE b # Default
    BY <1>2, <1>5, <2>1 DEF NamedAs
  <2>2. CASE b = Default
    <3>1. copy[c].head = Default
      BY <1>5, <2>2 DEF SparedIn, When
    <3>2. There(c) /\ HeadCommits(c) = branch[c][Default]
      BY <1>5, <3>1, CopyKinds, WorktreesAssumption DEF CopiesInv, StoresStay, HeadCommits, StoreOf, Stores
    <3> QED
      BY <1>1, <1>5, <2>2, <3>2 DEF NamedAs
  <2> QED
    BY <2>1, <2>2
<1> QED
  BY <1>3, <1>4, <1>5

LEMMA FoundMore ==
  ASSUME NEW some, NEW more, some \subseteq more, NEW x, Found(some, x)
  PROVE  Found(more, x)
BY DEF Found

LEMMA CopiesUnchanged ==
  ASSUME CopiesInv, UNCHANGED wvars
  PROVE  CopiesInv'
BY DEF wvars, CopiesInv, CopiesOK, HeadsExist, StoresStay, SeenIsOld, Registered, There, HeldBy

LEMMA ReportUnchanged ==
  ASSUME FoundSoFar, NothingStrandedSilently, UNCHANGED report
  PROVE  FoundSoFar' /\ NothingStrandedSilently'
BY DEF FoundSoFar, NothingStrandedSilently, Told, NamedAs

\* A step of the waivers or the day.
LEMMA WaiverStep ==
  ASSUME StatusInv, UNCHANGED <<wvars, report>>, StatusOK'
  PROVE  StatusInv'
BY CopiesUnchanged, ReportUnchanged DEF StatusInv

LEMMA WaiverTypes ==
  /\ \A w \in Waivers : w \in Waiver
  /\ NoAdder \in [pc: {"idle", "write"}, list: SUBSET Waiver, new: Waiver]
<1>1. \A w \in Waivers : w \in Waiver
  BY StatusAssumption DEF Waivers, Waiver
<1>2. [subjects |-> {}, expires |-> 0] \in Waiver
  BY Constants DEF Waiver
<1> QED
  BY <1>1, <1>2 DEF NoAdder

LEMMA LoadType ==
  ASSUME StatusOK
  PROVE  Load \subseteq waiverFile.list /\ Load \subseteq Waiver
BY DEF StatusOK, Load

LEMMA WaiverReadKeeps ==
  ASSUME StatusInv, NEW a \in Adders, NEW w \in Waivers, WaiverRead(a, w)
  PROVE  StatusInv'
<1> PICK load \in SUBSET Waiver : load = Load
  BY LoadType DEF StatusInv
<1>1. /\ adder' = [adder EXCEPT ![a] = [pc |-> "write", list |-> load, new |-> w]]
      /\ UNCHANGED <<wvars, today, waiverFile, report>>
  BY DEF WaiverRead
<1>2. w \in Waiver
  BY WaiverTypes
<1>3. StatusOK'
  BY <1>1, <1>2 DEF StatusInv, StatusOK
<1> QED
  BY <1>1, <1>3, WaiverStep

LEMMA WaiverWriteKeeps ==
  ASSUME StatusInv, NEW a \in Adders, WaiverWrite(a)
  PROVE  StatusInv'
<1> PICK list \in SUBSET Waiver : list = adder[a].list \cup {adder[a].new}
  BY DEF StatusInv, StatusOK
<1> PICK none \in [pc: {"idle", "write"}, list: SUBSET Waiver, new: Waiver] : none = NoAdder
  BY WaiverTypes
<1>1. /\ waiverFile' = [torn |-> FALSE, list |-> list]
      /\ adder' = [adder EXCEPT ![a] = none]
      /\ UNCHANGED <<wvars, today, report>>
  BY DEF WaiverWrite
<1>2. StatusOK'
  BY <1>1 DEF StatusInv, StatusOK
<1> QED
  BY <1>1, <1>2, WaiverStep

LEMMA WaiverDieKeeps ==
  ASSUME StatusInv, NEW a \in Adders, WaiverDie(a)
  PROVE  StatusInv'
<1> PICK list \in SUBSET Waiver : list = adder[a].list \cup {adder[a].new}
  BY DEF StatusInv, StatusOK
<1> PICK none \in [pc: {"idle", "write"}, list: SUBSET Waiver, new: Waiver] : none = NoAdder
  BY WaiverTypes
<1>1. /\ \/ \E kept \in SUBSET list : waiverFile' = [torn |-> FALSE, list |-> kept]
         \/ waiverFile' = [torn |-> TRUE, list |-> {}]
      /\ adder' = [adder EXCEPT ![a] = none]
      /\ UNCHANGED <<wvars, today, report>>
  BY DEF WaiverDie
<1>2. /\ waiverFile' \in [torn: BOOLEAN, list: SUBSET Waiver]
      /\ waiverFile'.torn => waiverFile'.list = {}
  <2>1. ASSUME NEW kept \in SUBSET list, waiverFile' = [torn |-> FALSE, list |-> kept]
        PROVE  waiverFile' \in [torn: BOOLEAN, list: SUBSET Waiver] /\ ~waiverFile'.torn
    BY <2>1
  <2>2. CASE waiverFile' = [torn |-> TRUE, list |-> {}]
    BY <2>2
  <2> QED
    BY <1>1, <2>1, <2>2
<1>3. StatusOK'
  BY <1>1, <1>2 DEF StatusInv, StatusOK
<1> QED
  BY <1>1, <1>3, WaiverStep

LEMMA MendWaiversKeeps ==
  ASSUME StatusInv, MendWaivers
  PROVE  StatusInv'
<1>1. /\ waiverFile' = [torn |-> FALSE, list |-> {}]
      /\ UNCHANGED <<wvars, today, adder, report>>
  BY DEF MendWaivers
<1>2. StatusOK'
  BY <1>1 DEF StatusInv, StatusOK
<1> QED
  BY <1>1, <1>2, WaiverStep

LEMMA DayPassesKeeps ==
  ASSUME StatusInv, DayPasses
  PROVE  StatusInv'
<1>1. today' \in Days /\ UNCHANGED <<wvars, waiverFile, adder, report>>
  BY StatusAssumption DEF DayPasses, StatusInv, StatusOK, Days
<1>2. StatusOK'
  BY <1>1 DEF StatusInv, StatusOK
<1> QED
  BY <1>1, <1>2, WaiverStep

LEMMA NoReportType ==
  /\ NoReport \in Report /\ NoReport.pc = "idle" /\ NoReport.stranded = {}
BY DEF NoReport, Report

LEMMA StatusStartKeeps ==
  ASSUME StatusInv, StatusStart
  PROVE  StatusInv'
<1> PICK todo \in SUBSET Copies : todo = Targets
  BY CopyKinds DEF Targets
<1> PICK none \in Report : none = NoReport /\ none.stranded = {}
  BY NoReportType
<1>1. /\ report' = [none EXCEPT !.pc = "copies", !.todo = todo]
      /\ UNCHANGED <<wvars, today, waiverFile, adder>>
  BY DEF StatusStart
<1>2. report' \in Report /\ report'.pc = "copies" /\ report'.stranded = {}
  BY <1>1 DEF Report
<1>3. StatusOK'
  BY <1>1, <1>2 DEF StatusInv, StatusOK
<1>4. FoundSoFar' /\ NothingStrandedSilently'
  BY <1>2 DEF FoundSoFar, NothingStrandedSilently
<1> QED
  BY <1>1, <1>3, <1>4, CopiesUnchanged DEF StatusInv

LEMMA StatusReadKeeps ==
  ASSUME StatusInv, StatusRead
  PROVE  StatusInv'
<1>1. report' = NoReport /\ UNCHANGED <<wvars, today, waiverFile, adder>>
  BY DEF StatusRead
<1>2. report' \in Report /\ report'.pc = "idle"
  BY <1>1, NoReportType
<1>3. StatusOK'
  BY <1>1, <1>2 DEF StatusInv, StatusOK
<1>4. FoundSoFar' /\ NothingStrandedSilently'
  BY <1>2 DEF FoundSoFar, NothingStrandedSilently
<1> QED
  BY <1>1, <1>3, <1>4, CopiesUnchanged DEF StatusInv

\* A look at one copy adds to the findings what it adds to what was stranded.
LEMMA StatusCopyKeeps ==
  ASSUME StatusInv, NEW c \in report.todo, NEW fetched \in BOOLEAN, StatusCopy(c, fetched)
  PROVE  StatusInv'
<1>0. c \in Copies /\ StoreOf(c) \in Stores /\ report \in Report /\ CopiesInv
  BY CopyKinds DEF StatusInv, StatusOK, Report
<1> DEFINE s == StoreOf(c)
<1>1. /\ seen' \in [Stores -> SUBSET Commits] /\ known' \in SUBSET Stores
      /\ \A t \in Stores : seen'[t] \subseteq origin
      /\ report.pc = "copies"
      /\ UNCHANGED <<origin, branch, copy, removal, made, lost, today, waiverFile, adder>>
  BY <1>0 DEF StatusCopy, CopiesInv, CopiesOK, SeenIsOld
<1>2. CopiesInv'
  BY <1>0, <1>1 DEF CopiesInv, CopiesOK, HeadsExist, StoresStay, SeenIsOld, Registered, There, HeldBy
<1> PICK view \in SUBSET Commits : view = seen'[s]
  BY <1>0, <1>1
<1> PICK can \in BOOLEAN : can <=> s \in known'
  <2>1. CASE s \in known'
    BY <2>1
  <2>2. CASE s \notin known'
    BY <2>2
  <2> QED
    BY <2>1, <2>2
<1> PICK new : new = CheckWorkingCopy(c, view, can)
  OBVIOUS
<1> PICK more : more = StrandedIn(c)
  OBVIOUS
<1> PICK spared : spared = SparedIn(c)
  OBVIOUS
<1>3. report' = [report EXCEPT !.todo = @ \ {c}, !.findings = @ \cup new, !.stranded = @ \cup more,
                               !.spared = @ \cup spared]
  BY Zenon DEF StatusCopy
<1>4. new \subseteq Finding /\ more \subseteq Subjects /\ spared \subseteq Subjects
  BY <1>0, CheckType, StrandedType, CopyKinds, Constants DEF SparedIn, When
<1>5. /\ report' \in Report /\ report'.pc = "copies"
      /\ report'.findings = report.findings \cup new
      /\ report'.stranded = report.stranded \cup more
      /\ report'.spared = report.spared \cup spared
  BY <1>0, <1>1, <1>3, <1>4 DEF Report
<1>6. ASSUME NEW x \in report'.stranded, x \notin report'.spared
      PROVE  Found(report'.findings, NamedAs(x))
  <2>1. CASE x \in report.stranded
    BY <1>1, <1>5, <1>6, <2>1, FoundMore DEF StatusInv, FoundSoFar
  <2>2. CASE x \in more
    <3>1. Found(new, NamedAs(x))
      BY <1>0, <1>1, <1>5, <1>6, <2>2, CheckFinds
    <3> QED
      BY <1>5, <3>1, FoundMore
  <2> QED
    BY <1>5, <1>6, <2>1, <2>2
<1>7. FoundSoFar' /\ NothingStrandedSilently'
  BY <1>5, <1>6 DEF FoundSoFar, NothingStrandedSilently, NamedAs
<1>8. StatusOK'
  BY <1>1, <1>5 DEF StatusInv, StatusOK
<1> QED
  BY <1>2, <1>7, <1>8 DEF StatusInv

-------------------------------------------------------------------------------
(***************************************************************************)
(* The exit                                                                *)
(***************************************************************************)

LEMMA HandoffFindings ==
  /\ CheckHandoffs \subseteq Finding
  /\ today \in Days /\ ~(today \in 0 .. Created + Sla) =>
       \A h \in Handoffs : Found(CheckHandoffs, <<h, "handoff">>)
<1>1. \A h \in Handoffs : /\ Item(Red, <<h, "handoff">>, "handoff-overdue") \in Finding
                          /\ Item(Red, <<h, "handoff">>, "handoff-overdue").severity = Red
                          /\ Item(Red, <<h, "handoff">>, "handoff-overdue").subject = <<h, "handoff">>
  BY Constants, ItemType DEF ChecksMade
<1>2. ASSUME NEW h \in Handoffs, today \in Days, ~(today \in 0 .. Created + Sla)
      PROVE  Found(CheckHandoffs, <<h, "handoff">>)
  <2>1. Overdue
    BY <1>2, StatusAssumption DEF Overdue, Created, Days
  <2> QED
    BY <1>1, <2>1 DEF CheckHandoffs, Found
<1> QED
  BY <1>1, <1>2 DEF CheckHandoffs

\* A finding that is no red, or that no live waiver matches, stays as it is; what remains is
\* still a finding.
LEMMA WaivedFindings ==
  ASSUME NEW findings \in SUBSET Finding, NEW day
  PROVE  /\ ApplyWaivers(findings, day) \subseteq Finding
         /\ \A f \in findings :
              ~(f.severity = Red /\ \E w \in Live(day) : f.subject \in w.subjects)
                => f \in ApplyWaivers(findings, day)
<1>1. ASSUME NEW f \in Finding
      PROVE  [f EXCEPT !.severity = Warn, !.check = "waived"] \in Finding
  BY Constants DEF Finding, ChecksMade
<1> QED
  BY <1>1 DEF ApplyWaivers

\* A waiver that is live on a day stands in the file, and its day has not passed.
LEMMA LiveParks ==
  ASSUME StatusOK, NEW w \in Live(today)
  PROVE  w \in waiverFile.list /\ today \in 0 .. w.expires
<1>1. w \in Load /\ ~(today > w.expires)
  BY DEF Live, Expired
<1>2. w \in waiverFile.list /\ w \in Waiver
  BY <1>1, LoadType
<1>3. today \in Nat /\ w.expires \in Nat
  BY <1>2, StatusAssumption DEF StatusOK, Days, Waiver
<1> QED
  BY <1>1, <1>2, <1>3

LEMMA StatusExitKeeps ==
  ASSUME StatusInv, StatusExit
  PROVE  StatusInv'
<1> DEFINE before == report.findings \cup CheckHandoffs
           overdue == IF today \in 0 .. Created + Sla THEN {} ELSE {<<h, "handoff">> : h \in Handoffs}
           parks == UNION {w.subjects : w \in {v \in waiverFile.list : today \in 0 .. v.expires}}
<1>0. report \in Report /\ today \in Days /\ waiverFile.list \subseteq Waiver /\ StatusOK
  BY DEF StatusInv, StatusOK
<1>1. UNCHANGED <<wvars, today, waiverFile, adder>> /\ report.pc = "copies"
  BY DEF StatusExit
<1>2. before \subseteq Finding /\ overdue \subseteq Subjects /\ parks \subseteq Subjects
  <2>1. before \subseteq Finding
    BY <1>0, HandoffFindings DEF Report
  <2>2. overdue \subseteq Subjects
    BY Constants
  <2>3. parks \subseteq Subjects
    BY <1>0 DEF Waiver
  <2> QED
    BY <2>1, <2>2, <2>3
<1> PICK findings \in SUBSET Finding : findings = ApplyWaivers(before, today)
  BY <1>2, WaivedFindings
<1> PICK exit \in {0, 1} : exit = IF \E f \in findings : f.severity = Red THEN 1 ELSE 0
  OBVIOUS
<1> PICK late \in SUBSET Subjects : late = overdue
  BY <1>2
<1> PICK parked \in SUBSET Subjects : parked = parks
  BY <1>2
<1>3. report' = [report EXCEPT !.pc = "done", !.findings = findings, !.stranded = @ \cup late,
                               !.parked = parked, !.exit = exit]
  BY Zenon DEF StatusExit
<1>4. /\ report' \in Report /\ report'.pc = "done" /\ report'.findings = findings
      /\ report'.stranded = report.stranded \cup late
      /\ report'.spared = report.spared
      /\ report'.parked = parked /\ report'.exit = exit
  BY <1>0, <1>3 DEF Report
<1> HIDE DEF before, overdue, parks
<1>5. ASSUME NEW y \in report'.stranded, y \notin report'.spared, NEW x, x = NamedAs(y)
      PROVE  Told(x)'
  <2>1. Found(before, x)
    <3>1. CASE y \in report.stranded
      BY <1>1, <1>4, <1>5, <3>1, FoundMore DEF StatusInv, FoundSoFar, before
    <3>2. ASSUME NEW h \in Handoffs, ~(today \in 0 .. Created + Sla), y = <<h, "handoff">>
          PROVE  Found(before, x)
      <4>1. x = y
        BY <1>5, <3>2, StatusAssumption DEF NamedAs
      <4> QED
        BY <4>1, <1>0, <3>2, HandoffFindings, FoundMore DEF before
    <3> QED
      BY <1>4, <1>5, <3>1, <3>2 DEF overdue
  <2>2. ASSUME NEW f \in before, f.severity = Red, f.subject = x
        PROVE  Told(x)'
    <3>1. CASE \E w \in Live(today) : x \in w.subjects
      <4>1. PICK w \in Live(today) : x \in w.subjects
        BY <3>1
      <4>2. w \in waiverFile.list /\ today \in 0 .. w.expires
        BY <1>0, LiveParks
      <4>3. x \in parked
        BY <4>1, <4>2 DEF parks
      <4> QED
        BY <1>4, <4>3 DEF Told
    <3>2. CASE ~ \E w \in Live(today) : x \in w.subjects
      <4>1. f \in findings
        BY <1>2, <2>2, <3>2, WaivedFindings
      <4>2. exit = 1
        BY <2>2, <4>1
      <4> QED
        BY <1>4, <2>2, <4>1, <4>2 DEF Told
    <3> QED
      BY <3>1, <3>2
  <2>3. ASSUME Item(Warn, <<x[1], HeadOf>>, "no-default-branch") \in before
        PROVE  Told(x)'
    <3>1. Item(Warn, <<x[1], HeadOf>>, "no-default-branch").severity # Red
      BY DEF Item, Red, Warn
    <3>2. Item(Warn, <<x[1], HeadOf>>, "no-default-branch") \in findings
      BY <1>2, <2>3, <3>1, WaivedFindings
    <3> QED
      BY <1>4, <3>2 DEF Told
  <2> QED
    BY <2>1, <2>2, <2>3 DEF Found
<1>6. FoundSoFar' /\ NothingStrandedSilently'
  BY <1>4, <1>5 DEF FoundSoFar, NothingStrandedSilently, NamedAs
<1>7. StatusOK'
  BY <1>1, <1>4 DEF StatusInv, StatusOK
<1> QED
  BY <1>1, <1>6, <1>7, CopiesUnchanged DEF StatusInv

-------------------------------------------------------------------------------
(***************************************************************************)
(* The theorems                                                            *)
(***************************************************************************)

LEMMA StatusInit == Init => StatusInv
<1> SUFFICES ASSUME Init PROVE StatusInv
  OBVIOUS
<1>1. /\ origin = {} /\ seen = [s \in Stores |-> {}] /\ known \in {Stores, {Repo}}
      /\ branch = [s \in Stores |-> [b \in {Default} |-> {}]]
      /\ copy = [c \in Copies |-> IF c \in Personas THEN Absent ELSE Fresh(Default)]
      /\ removal = NoRemoval /\ made = {} /\ lost = {}
  BY DEF Init, WInit
<1>2. /\ Absent \in CopyState /\ Absent.place = "none"
      /\ Fresh(Default) \in CopyState /\ Fresh(Default).place = "there"
      /\ Fresh(Default).head = Default
  BY FreshType, CopyKinds
<1>3. [b \in {Default} |-> {}] \in Heads
  <2>1. {Default} \in SUBSET Branches /\ [b \in {Default} |-> {}] \in [{Default} -> SUBSET Commits]
    BY CopyKinds
  <2> QED
    BY <2>1, HeadsForm
<1>4. CopiesOK
  <2>1. copy \in [Copies -> CopyState]
    BY <1>1, <1>2
  <2>2. removal \in [pc: {"idle", "remove"}, persona: Copies, force: BOOLEAN]
    BY <1>1, CopyKinds DEF NoRemoval
  <2>3. branch \in [Stores -> Heads]
    BY <1>1, <1>3
  <2> QED
    BY <1>1, <2>1, <2>2, <2>3, CopyKinds DEF CopiesOK
<1>5. HeadsExist
  <2> SUFFICES ASSUME NEW c \in Copies, copy[c].place # "none"
               PROVE  copy[c].head \in DOMAIN branch[StoreOf(c)]
    BY DEF HeadsExist, Registered
  <2>1. copy[c].head = Default /\ StoreOf(c) \in Stores
    BY <1>1, <1>2, CopyKinds
  <2>2. DOMAIN branch[StoreOf(c)] = {Default}
    BY <1>1, <2>1
  <2> QED
    BY <2>1, <2>2
<1>6. StoresStay
  BY <1>1, <1>2, CopyKinds DEF StoresStay, There, NoRemoval
<1>7. CopiesInv
  BY <1>1, <1>4, <1>5, <1>6 DEF CopiesInv, SeenIsOld
<1>8. StatusOK
  BY Constants, WaiverTypes, NoReportType DEF Init, StatusOK
<1>9. FoundSoFar /\ NothingStrandedSilently
  BY NoReportType DEF Init, FoundSoFar, NothingStrandedSilently
<1> QED
  BY <1>7, <1>8, <1>9 DEF StatusInv

LEMMA StatusNext == StatusInv /\ [Next]_vars => StatusInv'
<1> SUFFICES ASSUME StatusInv, [Next]_vars PROVE StatusInv'
  OBVIOUS
<1>1. CASE WNext /\ UNCHANGED svars
  <2>1. CopiesInv'
    BY <1>1, CopiesStep DEF StatusInv
  <2>2. StatusOK' /\ FoundSoFar' /\ NothingStrandedSilently'
    BY <1>1, ReportUnchanged DEF svars, StatusInv, StatusOK
  <2> QED
    BY <2>1, <2>2 DEF StatusInv
<1>2. CASE \E a \in Adders, w \in Waivers : WaiverRead(a, w)
  BY <1>2, WaiverReadKeeps
<1>3. CASE \E a \in Adders : WaiverWrite(a)
  BY <1>3, WaiverWriteKeeps
<1>4. CASE \E a \in Adders : WaiverDie(a)
  BY <1>4, WaiverDieKeeps
<1>5. CASE MendWaivers
  BY <1>5, MendWaiversKeeps
<1>6. CASE StatusStart
  BY <1>6, StatusStartKeeps
<1>7. CASE \E c \in report.todo, fetched \in BOOLEAN : StatusCopy(c, fetched)
  BY <1>7, StatusCopyKeeps
<1>8. CASE StatusExit
  BY <1>8, StatusExitKeeps
<1>9. CASE StatusRead
  BY <1>9, StatusReadKeeps
<1>10. CASE DayPasses
  BY <1>10, DayPassesKeeps
<1>11. CASE UNCHANGED vars
  BY <1>11, CopiesUnchanged, ReportUnchanged DEF vars, svars, StatusInv, StatusOK
<1> QED
  BY <1>1, <1>2, <1>3, <1>4, <1>5, <1>6, <1>7, <1>8, <1>9, <1>10, <1>11 DEF Next

LEMMA StatusInvariant == Spec => []StatusInv
BY StatusInit, StatusNext, PTL DEF Spec

\* No command takes work away that it was not told to: for any personas, clones and branches,
\* an unforced `worktree remove` deletes no uncommitted change, even one made after its
\* checks, and no commit made on a branch is ever without a branch that holds it.
THEOREM WorkIsKeptAlways == Spec => []WorkIsKept
<1>1. StatusInv => WorkIsKept
  BY KeptIsHeld DEF StatusInv, CopiesInv
<1> QED
  BY <1>1, StatusInvariant, PTL

\* No finished `baron status` is silent about a branch or HEAD that was ahead of origin when
\* it looked, or about an overdue handoff: a red fails it, a waiver that stands on the day
\* parks it, or the copy is named as one that cannot be compared.  Not so for the default branch
\* of a copy whose HEAD is not on it: status passes over that one.
THEOREM NothingStrandedSilentlyAlways == Spec => []NothingStrandedSilently
<1>1. StatusInv => NothingStrandedSilently
  BY DEF StatusInv
<1> QED
  BY <1>1, StatusInvariant, PTL

===============================================================================
