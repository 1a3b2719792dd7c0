------------------------------- MODULE Plane -------------------------------
(***************************************************************************)
(* The observation plane (ADR-013) and the fleet-health report made of it  *)
(* (ADR-024, and ADR-025 for a monorepo).  Producers, which are the hooks  *)
(* of every agent's session and `baron verdict record`, append rows to     *)
(* .baron/events/<day>.jsonl of the repository they run in.  `baron health`*)
(* reads the files back.  Nobody locks anything, producers die, and        *)
(* whatever a sink raises is swallowed.  What a report shows of            *)
(* `baron status` is Status's and left out here.                           *)
(***************************************************************************)
EXTENDS FiniteSets, Naturals, Sequences, SequencesExt

CONSTANTS
    Procs,          \* the processes
    Dirs,           \* coordination directories: projects, and a monorepo's root
    Root,           \* the root of the monorepo that each of them is in, itself if in none
    Verdicts,       \* what `baron verdict record` is called with
    Calls,          \* the hook calls: [event, long]
    Days,           \* the days, from 1
    MaxRows, MaxStops, MaxReports   \* bounds: rows issued, producers stopped, reports

NoVerdict == "none"
\* What BARON_EVENTS_SINK names; "null" stands for any that keeps nothing in
\* the repository, one that is not installed included.
Sinks == {"null", "disk"}

ASSUME PlaneAssumption ==
    /\ Root \in [Dirs -> Dirs] /\ \A d \in Dirs : Root[Root[d]] = Root[d]
    /\ 1 \in Days /\ Days \subseteq Nat

VARIABLES
    repos,      \* the directories that are git repositories
    files,      \* what each plane's event file of each day holds, in pieces of lines
    ignore,     \* .baron/events/.gitignore of each plane: "absent", "empty" or "written"
    proc,       \* what each process is at
    today,      \* the day it is
    issued, stops, reports, \* how much of the bounds is spent
    landed,     \* auxiliary: the rows that were written to their end
    exposed     \* auxiliary: the rows that came to share a line

vars == <<repos, files, ignore, proc, today, issued, stops, reports, landed, exposed>>

Idle == [at |-> "idle"]

-----------------------------------------------------------------------------
(***************************************************************************)
(* Producers.  A row is one line.  A short one is appended by one write; a *)
(* long one (more than PIPE_BUF) may reach the file in two pieces.         *)
(***************************************************************************)
\* The git top-level of a directory, which is the directory itself in no repository:
\* a monorepo made with --no-git, or where git is missing, is in none.
Top(dir) == IF Root[dir] \in repos THEN Root[dir] ELSE dir

\* The plane hangs off the top-level, for whoever writes and whoever reads.
EventsDirOfCollab(dir) == dir
EventsDir(dir) == Top(dir)

\* The kind of event that a hook's call leaves as evidence; other hooks leave none.
EvidenceHandlers == [SessionStart |-> "session.start", SessionEnd |-> "session.end", Stop |-> "session.end",
                     PostToolUse |-> "tool.post", PostToolUseFailure |-> "tool.failure"]
Evidence(call) == [kind |-> EvidenceHandlers[call.event], long |-> call.long, verdict |-> NoVerdict]

\* What the guard, or another runtime's seam, leaves of the call it judged.
Observed(call) == [kind |-> "guard.decision", long |-> call.long, verdict |-> NoVerdict]

VerdictRow(v) == [kind |-> "review.verdict", long |-> v.long, verdict |-> v]

\* The row of an event: its identifiers are drawn for it, its day is the
\* clock's, its directory is what the sink resolves; `repo` is auxiliary.
Row(dir, content) == [id |-> issued, repo |-> Top(dir), dir |-> EventsDir(dir), day |-> today, kind |-> content.kind,
                      long |-> content.long, verdict |-> content.verdict]

\* `emit` reaches the sink that BARON_EVENTS_SINK names: only the disk's keeps the row.
Emit(p, dir, content, sink) ==
    /\ proc[p] = Idle
    /\ IF sink = "disk"
       THEN /\ issued < MaxRows
            /\ issued' = issued + 1
            /\ proc' = [proc EXCEPT ![p] = [at |-> "append", row |-> Row(dir, content)]]
       ELSE UNCHANGED <<issued, proc>>
    /\ UNCHANGED <<repos, files, ignore, today, stops, reports, landed, exposed>>

HookCall(p) == \E dir \in Dirs, call \in Calls, sink \in Sinks :
    \/ call.event = "PreToolUse" /\ Emit(p, dir, Observed(call), sink)
    \/ call.event \in DOMAIN EvidenceHandlers /\ Emit(p, dir, Evidence(call), sink)

\* It says "recorded" whatever became of the row.
RecordVerdict(p) == \E dir \in Dirs, v \in Verdicts, sink \in Sinks : Emit(p, dir, VerdictRow(v), sink)

\* The directory's .gitignore is made before the first row and never again.
EnsureGitignore(dir, text) == ignore' = [ignore EXCEPT ![dir] = IF @ = "absent" THEN text ELSE @]

\* A piece goes to the end of the file that the row's own day names.
Extend(row, part) ==
    files' = [files EXCEPT ![<<row.dir, row.day>>] = Append(@, [row |-> row, part |-> part])]

\* A piece that goes to the end of another row's unfinished line exposes both.
Exposes(row) ==
    LET file == files[row.dir, row.day]
    IN  IF file # <<>> /\ Last(file).part = "head" /\ Last(file).row # row
        THEN {row, Last(file).row} ELSE {}

AppendRow(p) ==
    LET row == proc[p].row
    IN  /\ proc[p].at = "append"
        /\ EnsureGitignore(row.dir, "written")
        /\ Extend(row, IF row.long THEN "head" ELSE "whole")
        /\ IF row.long
           THEN proc' = [proc EXCEPT ![p].at = "half"] /\ UNCHANGED landed
           ELSE proc' = [proc EXCEPT ![p] = Idle] /\ landed' = landed \cup {row}
        /\ exposed' = exposed \cup Exposes(row)
        /\ UNCHANGED <<repos, today, issued, stops, reports>>

AppendRest(p) ==
    LET row == proc[p].row
    IN  /\ proc[p].at = "half"
        /\ Extend(row, "tail")
        /\ proc' = [proc EXCEPT ![p] = Idle]
        /\ landed' = landed \cup {row}
        /\ exposed' = exposed \cup Exposes(row)
        /\ UNCHANGED <<repos, ignore, today, issued, stops, reports>>

\* The process dies, or the sink raises and `emit` swallows it: the row stays
\* as it is, and nobody hears of it.  In between the creation of the .gitignore
\* and its text, it stays empty.
Stop(p) ==
    /\ proc[p].at \in {"append", "half"} /\ stops < MaxStops
    /\ UNCHANGED ignore \/ EnsureGitignore(proc[p].row.dir, "empty")
    /\ stops' = stops + 1
    /\ proc' = [proc EXCEPT ![p] = Idle]
    /\ UNCHANGED <<repos, files, today, issued, reports, landed, exposed>>

-----------------------------------------------------------------------------
(***************************************************************************)
(* Readers.  A line that is no JSON is skipped.                            *)
(***************************************************************************)
EndsLine(file, i) == i = 0 \/ file[i].part # "head"

\* Piece i begins a line of one row.
IsLine(file, i) ==
    /\ EndsLine(file, i - 1)
    /\ \/ file[i].part = "whole"
       \/ /\ file[i].part = "head" /\ i < Len(file)
          /\ file[i + 1] = [row |-> file[i].row, part |-> "tail"]

\* The verdicts among the rows, in their order, those before `since` (1 is without it) left out.
Read(file, since) ==
    LET isWanted(row) == row.kind = "review.verdict" /\ row.day >= since
    IN  FlattenSeq([i \in DOMAIN file |->
            IF IsLine(file, i) /\ isWanted(file[i].row) THEN <<file[i].row>> ELSE <<>>])

\* The days whose files a plane lists.
FilesOf(plane) == {day \in Days : files[plane, day] # <<>>}

SumOf(rows, field) == FoldSeq(LAMBDA row, sum : sum + row.verdict[field], 0, rows)

\* The reviewers' half of a report.
Rollup(rows) ==
    [verdicts |-> Len(rows),
     killed   |-> SumOf(rows, "killed"),
     run      |-> SumOf(rows, "run"),
     drift    |-> SumOf(rows, "drift"),
     escapes  |-> Cardinality({i \in DOMAIN rows : rows[i].verdict.escape}),
     prs      |-> Cardinality({row.verdict.pr : row \in ToSet(rows)}),
     byAuthor |-> [a \in {row.verdict.author : row \in ToSet(rows)} |->
                     Cardinality({i \in DOMAIN rows : rows[i].verdict.author = a})]]

\* The files of a plane are read day by day.  A portfolio reads its root's plane, and none
\* for its projects; a project's own report counts the whole plane.
StartHealth(p, dir, since) ==
    /\ proc[p] = Idle /\ reports < MaxReports
    /\ reports' = reports + 1
    /\ proc' = [proc EXCEPT ![p] = [at |-> "reading", plane |-> EventsDir(dir), repo |-> Top(dir), since |-> since,
                                    left |-> FilesOf(EventsDir(dir)), rows |-> <<>>, before |-> landed]]
    /\ UNCHANGED <<repos, files, ignore, today, issued, stops, landed, exposed>>

ReadFile(p) ==
    /\ proc[p].at = "reading" /\ proc[p].left # {}
    /\ LET day == Min(proc[p].left)
           file == files[proc[p].plane, day]
       IN  proc' = [proc EXCEPT ![p].left = @ \ {day}, ![p].rows = @ \o Read(file, proc[p].since)]
    /\ UNCHANGED <<repos, files, ignore, today, issued, stops, reports, landed, exposed>>

\* The report is printed once every file is read.
EndHealth(p) ==
    /\ proc[p].at = "reading" /\ proc[p].left = {}
    /\ proc' = [proc EXCEPT ![p] = Idle]
    /\ UNCHANGED <<repos, files, ignore, today, issued, stops, reports, landed, exposed>>

-----------------------------------------------------------------------------
\* A repository is made, by `add-project` in a monorepo that had none, or by hand.
\* A project has none of its own in a monorepo.
GitInit(dir) ==
    /\ Root[dir] = dir /\ dir \notin repos
    /\ repos' = repos \cup {dir}
    /\ UNCHANGED <<files, ignore, proc, today, issued, stops, reports, landed, exposed>>

NextDay ==
    /\ today + 1 \in Days
    /\ today' = today + 1
    /\ UNCHANGED <<repos, files, ignore, proc, issued, stops, reports, landed, exposed>>

Init ==
    /\ repos \in SUBSET {d \in Dirs : Root[d] = d}
    /\ files = [f \in Dirs \X Days |-> <<>>]
    /\ ignore = [d \in Dirs |-> "absent"]
    /\ proc = [p \in Procs |-> Idle]
    /\ today = 1
    /\ issued = 0 /\ stops = 0 /\ reports = 0
    /\ landed = {} /\ exposed = {}

Next ==
    \/ \E p \in Procs :
        \/ HookCall(p) \/ RecordVerdict(p)
        \/ AppendRow(p) \/ AppendRest(p) \/ Stop(p)
        \/ \E dir \in Dirs, since \in Days : StartHealth(p, dir, since)
        \/ ReadFile(p) \/ EndHealth(p)
    \/ \E dir \in Dirs : GitInit(dir)
    \/ NextDay

Spec == Init /\ [][Next]_vars

-----------------------------------------------------------------------------
\* The verdicts among some rows that a report has to count: those recorded
\* anywhere in its repository, on the days it was asked for.
Due(rows, repo, since) == {r \in rows : r.kind = "review.verdict" /\ r.repo = repo /\ r.day >= since}

(***************************************************************************)
(* A health report measures what was emitted: every verdict that was       *)
(* written before the report was asked for is counted, wherever in the     *)
(* repository it was recorded and wherever in it the report is asked for,  *)
(* and none is counted twice.  Only the two rows that came to share a      *)
(* line, since a producer stopped or was not done, may be missing; a       *)
(* report never counts what was not recorded.  Where there is no           *)
(* repository each directory has a plane of its own, and what was recorded *)
(* there before one was made is in no report of the repository's.          *)
(* (health.py:9-17, disk.py:26-33, verdict.py:64-76)                       *)
(***************************************************************************)
HealthCountsRecorded ==
    \A p \in Procs : (proc[p].at = "reading" /\ proc[p].left = {}) =>
        LET r == Rollup(proc[p].rows)
            certain == Due(proc[p].before \ exposed, proc[p].repo, proc[p].since)
            possible == Due(landed, proc[p].repo, proc[p].since)
        IN  /\ Cardinality(certain) <= r.verdicts /\ r.verdicts <= Cardinality(possible)
            /\ \A a \in {row.verdict.author : row \in certain} :
                 /\ a \in DOMAIN r.byAuthor
                 /\ Cardinality({row \in certain : row.verdict.author = a}) <= r.byAuthor[a]
            /\ Cardinality({row \in certain : row.verdict.escape}) <= r.escapes
            /\ r.escapes <= Cardinality({row \in possible : row.verdict.escape})
=============================================================================
