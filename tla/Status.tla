------------------------------- MODULE Status -------------------------------
(***************************************************************************)
(* `baron status` over those working copies and the handoffs, and the      *)
(* waivers that park its reds (status.py, waivers.py).  A status walks the *)
(* copies of the manifest one after another, while work goes on in them;   *)
(* then it reads the handoffs, the waivers and the day, and exits 1 if a   *)
(* red is left; a finished report does not change with what comes after.   *)
(* `waiver add` reads the whole file and writes it whole, several may run  *)
(* at once, and one may die in its write.                                  *)
(***************************************************************************)
EXTENDS Worktrees

CONSTANTS
    Adders,         \* the processes that run `waiver add`
    Patterns,       \* the subjects a waiver's pattern matches
    Handoffs,       \* the open handoffs, all of the first day
    Sla, MaxDay     \* MaxDay is a bound

Days == 0 .. MaxDay
\* A subject of a finding: a copy's HEAD or one of its branches, or a handoff.
HeadOf == "HEAD"
Subjects == (Copies \X ({HeadOf} \cup Branches)) \cup {<<h, "handoff">> : h \in Handoffs}
Waivers == [subjects: Patterns, expires: Days]
ASSUME StatusAssumption ==
    /\ Patterns \subseteq SUBSET Subjects /\ Sla \in Nat /\ MaxDay \in Nat
    /\ Default # "handoff"

VARIABLES
    today,
    waiverFile, \* .baron-waivers.yaml
    adder,      \* each `waiver add`: its place, what it read, what it adds
    report      \* the status that runs, with what was true when it looked

svars == <<today, waiverFile, adder, report>>
vars == <<wvars, svars>>

-----------------------------------------------------------------------------
(* waivers.py *)
ExpiredLate(w, day) == day > w.expires + 1
Expired(w, day) == day > w.expires

\* A file that does not parse has no waivers, and a problem.
Load == IF waiverFile.torn THEN {} ELSE waiverFile.list
Live(day) == {w \in Load : ~Expired(w, day)}

NoAdder == [pc |-> "idle", list |-> {}, new |-> [subjects |-> {}, expires |-> 0]]

\* `waiver add` up to its write: not in the past, no problem in the file, no
\* waiver of the same pattern, expired or not.
WaiverRead(a, w) ==
    /\ adder[a].pc = "idle"
    /\ w.expires >= today
    /\ ~waiverFile.torn
    /\ \A v \in Load : v.subjects # w.subjects
    /\ adder' = [adder EXCEPT ![a] = [pc |-> "write", list |-> Load, new |-> w]]
    /\ UNCHANGED <<wvars, today, waiverFile, report>>
WaiverWrite(a) ==
    /\ adder[a].pc = "write"
    /\ waiverFile' = [torn |-> FALSE, list |-> adder[a].list \cup {adder[a].new}]
    /\ adder' = [adder EXCEPT ![a] = NoAdder]
    /\ UNCHANGED <<wvars, today, report>>
\* A death in the write leaves some of the entries, or what does not parse.
WaiverDie(a) ==
    /\ adder[a].pc = "write"
    /\ \/ \E kept \in SUBSET (adder[a].list \cup {adder[a].new}) :
            waiverFile' = [torn |-> FALSE, list |-> kept]
       \/ waiverFile' = [torn |-> TRUE, list |-> {}]
    /\ adder' = [adder EXCEPT ![a] = NoAdder]
    /\ UNCHANGED <<wvars, today, report>>

-----------------------------------------------------------------------------
(* status.py *)
Red == "red"
Warn == "warn"
Item(severity, subject, what) == [severity |-> severity, subject |-> subject, check |-> what]
When(condition, finding) == IF condition THEN {finding} ELSE {}

\* The copies of the manifest: the repository, the clones, and what lies in the
\* worktrees' root.
Targets == Stores \cup {p \in Personas : There(p)}

\* In the order of the manifest: repositories, clones, worktrees.
Before(c) == CASE c = Repo -> {} [] c \in Clones -> {Repo} [] OTHER -> Stores

\* One working copy, after its fetch; only a store's own copy has its branches
\* swept.  The warnings of dirt and of a failed fetch, which decide nothing, are
\* left out.
CheckHead(c, view) ==
    When(CommitsNotIn(HeadCommits(c), view) # {}, Item(Red, <<c, HeadOf>>, "ahead"))
        \cup When(CommitsNotIn(view, HeadCommits(c)) # {}, Item(Red, <<c, HeadOf>>, "behind"))
CheckBranches(c, view) ==
    {Item(Red, <<c, b>>, "unmerged-branch") :
        b \in {d \in DOMAIN branch[c] \ {Default} : CommitsNotIn(branch[c][d], view) # {}}}
CheckWorkingCopy(c, view, canCompare) ==
    IF ~There(c) THEN {Item(Red, <<c, HeadOf>>, "missing")}
    ELSE IF ~canCompare THEN {Item(Warn, <<c, HeadOf>>, "no-default-branch")}
    ELSE CheckHead(c, view) \cup (IF c \in Stores THEN CheckBranches(c, view) ELSE {})

\* What is stranded in a copy, whatever status makes of it.
StrandedIn(c) ==
    When(There(c) /\ ~(HeadCommits(c) \subseteq origin), <<c, HeadOf>>)
        \cup (IF c \in Stores
              THEN {<<c, b>> : b \in {d \in DOMAIN branch[c] : ~(branch[c][d] \subseteq origin)}}
              ELSE {})

\* The default branches the sweep passes over although HEAD, which is compared in
\* their stead, is elsewhere.
SparedIn(c) == When(c \in Stores /\ copy[c].head # Default, <<c, Default>>)

Created == 0
Overdue == today - Created > Sla
CheckHandoffs ==
    IF Overdue THEN {Item(Red, <<h, "handoff">>, "handoff-overdue") : h \in Handoffs} ELSE {}

\* A red that a live waiver matches becomes a warning.
ApplyWaivers(findings, day) ==
    {IF f.severity = Red /\ \E w \in Live(day) : f.subject \in w.subjects
     THEN [f EXCEPT !.severity = Warn, !.check = "waived"] ELSE f : f \in findings}

NoReport == [pc |-> "idle", todo |-> {}, findings |-> {}, stranded |-> {}, spared |-> {},
             parked |-> {}, exit |-> 0]

StatusStart ==
    /\ report.pc = "idle"
    /\ report' = [NoReport EXCEPT !.pc = "copies", !.todo = Targets]
    /\ UNCHANGED <<wvars, today, waiverFile, adder>>

\* One copy: a fetch where it was asked for and works, then the comparison.
StatusCopy(c, fetched) ==
    /\ report.pc = "copies" /\ Before(c) \cap report.todo = {}
    /\ LET s == StoreOf(c)
           reached == fetched /\ There(c)
       IN  /\ seen' = IF reached THEN [seen EXCEPT ![s] = origin] ELSE seen
           /\ known' = IF reached THEN known \cup {s} ELSE known
           /\ report' = [report EXCEPT
                 !.todo = @ \ {c},
                 !.findings = @ \cup CheckWorkingCopy(c, seen'[s], s \in known'),
                 !.stranded = @ \cup StrandedIn(c),
                 !.spared = @ \cup SparedIn(c)]
    /\ UNCHANGED <<origin, branch, copy, removal, made, lost, today, waiverFile, adder>>

\* The handoffs, the waivers and the day, and the exit.  `parked` is what a
\* waiver in the file parks through this very day.
StatusExit ==
    /\ report.pc = "copies" /\ report.todo = {}
    /\ LET findings == ApplyWaivers(report.findings \cup CheckHandoffs, today)
       IN  report' = [report EXCEPT
               !.pc = "done", !.findings = findings,
               !.stranded = @ \cup IF today \in 0 .. Created + Sla THEN {} ELSE {<<h, "handoff">> : h \in Handoffs},
               !.parked = UNION {w.subjects : w \in {v \in waiverFile.list : today \in 0 .. v.expires}},
               !.exit = IF \E f \in findings : f.severity = Red THEN 1 ELSE 0]
    /\ UNCHANGED <<wvars, today, waiverFile, adder>>
StatusRead ==
    /\ report.pc = "done" /\ report' = NoReport
    /\ UNCHANGED <<wvars, today, waiverFile, adder>>

-----------------------------------------------------------------------------
DayPasses ==
    /\ today < MaxDay /\ today' = today + 1
    /\ UNCHANGED <<wvars, waiverFile, adder, report>>
MendWaivers ==
    /\ waiverFile.torn /\ waiverFile' = [torn |-> FALSE, list |-> {}]
    /\ UNCHANGED <<wvars, today, adder, report>>

Init ==
    /\ WInit
    /\ today = 0
    /\ waiverFile = [torn |-> FALSE, list |-> {}]
    /\ adder = [a \in Adders |-> NoAdder]
    /\ report = NoReport

Next ==
    \/ report.pc # "done" /\ WNext /\ UNCHANGED svars
    \/ \E a \in Adders, w \in Waivers : WaiverRead(a, w)
    \/ \E a \in Adders : WaiverWrite(a)
    \/ \E a \in Adders : WaiverDie(a)
    \/ MendWaivers
    \/ StatusStart
    \/ \E c \in report.todo, fetched \in BOOLEAN : StatusCopy(c, fetched)
    \/ StatusExit
    \/ StatusRead
    \/ DayPasses

Spec == Init /\ [][Next]_vars

-----------------------------------------------------------------------------
\* What a finished report says of a stranded branch or an overdue handoff: a red
\* that fails the status, a waiver that still stood on the day, or the warning
\* that its copy could not be compared.
Told(subject) ==
    \/ report.exit = 1 /\ \E f \in report.findings : f.severity = Red /\ f.subject = subject
    \/ subject \in report.parked
    \/ Item(Warn, <<subject[1], HeadOf>>, "no-default-branch") \in report.findings

\* A default branch on which HEAD is has HEAD's finding for its own.
NamedAs(subject) == IF subject[2] = Default THEN <<subject[1], HeadOf>> ELSE subject

\* No commit that a copy's HEAD or one of its branches holds, and that origin's
\* default branch lacked when status looked at the copy, and no overdue handoff
\* is passed over: not because a fetch failed, a worktree was removed or lies
\* elsewhere, HEAD is detached, or a waiver expired, was torn or was written
\* over by another `waiver add` (status.py, "exactly the three stranding
\* classes"; waivers.py, "expiry keeps waivers honest").  One class is passed
\* over: the local default branch of a copy whose HEAD is on no branch or on
\* another one (status.py:148, "HEAD-vs-upstream already covers the default
\* branch", which is then not so).
NothingStrandedSilently ==
    report.pc = "done" => \A x \in report.stranded \ report.spared : Told(NamedAs(x))

=============================================================================
