-------------------------------- MODULE Ledger --------------------------------
(***************************************************************************)
(* `baron finding new` and `baron decision new`: the allocation of ledger  *)
(* numbers by commit, push, and on a rejected push roll back, pull and     *)
(* renumber (cli/src/baron/ledger.py, add_entry).                          *)
(*                                                                         *)
(* A Snapshot is what one commit holds of the ledgers: for each kind, the  *)
(* entries of its index in file order.  A history is the sequence of       *)
(* snapshots from the root commit to a head.  Everything the commands do   *)
(* not read (titles, bodies, other files) is left out.                     *)
(***************************************************************************)
EXTENDS Integers, Sequences, SequencesExt, FiniteSetsExt

CONSTANTS
  Procs,    \* the processes that run `baron ... new`, one command at a time
  Clones,   \* the working copies of the collab repository
  Home,     \* Home[p]: the working copy process p runs in
  Kinds,    \* the ledgers (KINDS): finding, decision
  Retries,  \* the --retries option
  Quota,    \* bound: Quota[p] commands are given to process p
  Faults    \* what the environment may do, of FaultKinds

FaultKinds == {
  "no-push",  \* a command is given --no-push
  "crash",    \* a process dies between two git calls
  "unacked",  \* a push lands at origin and its answer is lost
  "offline",  \* a push or a pull cannot reach origin
  "refused",  \* git add or git commit fails: a hook, no identity, an index.lock
  "edit" }    \* the user edits another tracked file and does not commit it

ASSUME LedgerAssumption ==
  /\ Home \in [Procs -> Clones]
  /\ Kinds # {}
  /\ Retries \in Nat
  /\ Quota \in [Procs -> Nat]
  /\ Faults \subseteq FaultKinds

VARIABLES
  origin,   \* the history of origin's branch
  head,     \* head[c]: the history of HEAD in working copy c
  work,     \* work[c]: the index files in working copy c, committed or not
  edit,     \* edit[c]: the user's uncommitted edit of another tracked file
  wedged,   \* wedged[c]: a rebase stopped on a conflict; HEAD is detached
  pc,       \* pc[p]: the next step of process p
  job,      \* job[p]: the local variables of process p's command
  ops,      \* ops[p]: commands process p has started
  answers,  \* history: the numbers commands returned to their callers
  unacked   \* history: the commands one of whose pushes landed unacknowledged

vars == <<origin, head, work, edit, wedged, pc, job, ops, answers, unacked>>

(***************************************************************************)
(* A command is named by its process and its rank; `by` stands for the     *)
(* title and author that make an entry recognisably that command's.        *)
(***************************************************************************)
Command == Procs \X Nat
Entry == [id: Nat, by: Command]
Snapshot == [Kinds -> Seq(Entry)]
Job == [kind: Kinds, push: BOOLEAN, text: Seq(Entry), id: Nat, left: Nat,
        since: Nat, shaky: BOOLEAN]
Answer == [by: Command, kind: Kinds, id: Nat, push: BOOLEAN]

Resting == {"idle", "refused", "failed", "exhausted"}
Phases == Resting \cup {"read", "write", "commit", "push", "reset", "pull"}

Cmd(p) == <<p, ops[p]>>
Private == \A p, q \in Procs : Home[p] = Home[q] => p = q

-------------------------------------------------------------------------------
(***************************************************************************)
(* Numbering                                                               *)
(***************************************************************************)

\* scan_ids: every number the index claims.
ScanIds(index) == {index[i].id : i \in DOMAIN index}

\* Mutant: the next number is the largest one, not its successor.
NextIdStale(index) == IF index = <<>> THEN 0 ELSE Max(ScanIds(index))

\* next_id: max(ids, default=0) + 1.
NextId(index) == IF index = <<>> THEN 1 ELSE Max(ScanIds(index)) + 1

\* Mutant: range(retries) where the code has 1 + max(retries, 0).
AttemptsShort == Retries

\* The rounds of the loop.
Attempts == 1 + Retries

-------------------------------------------------------------------------------
(***************************************************************************)
(* Git, as add_entry uses it                                               *)
(***************************************************************************)

\* Mutant: git push --force.
FastForwardForced(c) == ~wedged[c]

\* origin takes a push when it is an ancestor of the pushed head.  A detached
\* HEAD names no branch to push to.
FastForward(c) == ~wedged[c] /\ IsPrefix(origin, head[c])

\* b is how far the histories mine and theirs agree: their merge base.
MergeBase(b, mine, theirs) ==
  /\ b \in 1..Len(mine)
  /\ b <= Len(theirs)
  /\ SubSeq(mine, 1, b) = SubSeq(theirs, 1, b)
  /\ b < Len(mine) /\ b < Len(theirs) => mine[b + 1] # theirs[b + 1]

\* The ledgers a history changes after its b-th commit.
Changed(history, b) == {k \in Kinds : Last(history)[k] # history[b][k]}

\* The local commits after b, replayed on origin.  Each keeps its own change; the
\* ledgers origin changed come from origin.
Replayed(c, b) ==
  [i \in 1..(Len(head[c]) - b) |->
     [k \in Kinds |-> IF k \in Changed(origin, b) THEN Last(origin)[k]
                                                  ELSE head[c][b + i][k]]]

\* Both sides appended at the end of the same file: git leaves both texts there.
Conflicted(c, b) ==
  [k \in Kinds |->
     IF k \in Changed(head[c], b)
     THEN Last(origin)[k] \o SubSeq(Last(head[c])[k], Len(head[c][b][k]) + 1,
                                    Len(Last(head[c])[k]))
     ELSE Last(origin)[k]]

CleanTree(c) == work[c] = Last(head[c]) /\ edit[c] # "present"

-------------------------------------------------------------------------------
Empty == [k \in Kinds |-> <<>>]
NoJob == [kind |-> CHOOSE k \in Kinds : TRUE, push |-> TRUE, text |-> <<>>, id |-> 0,
          left |-> 0, since |-> 1, shaky |-> FALSE]

Init ==
  /\ origin = <<Empty>>
  /\ head = [c \in Clones |-> <<Empty>>]
  /\ work = [c \in Clones |-> Empty]
  /\ edit = [c \in Clones |-> "none"]
  /\ wedged = [c \in Clones |-> FALSE]
  /\ pc = [p \in Procs |-> "idle"]
  /\ job = [p \in Procs |-> NoJob]
  /\ ops = [p \in Procs |-> 0]
  /\ answers = {}
  /\ unacked = {}

\* The locals of a command die with it (job is looked at once more where it matters
\* how the command was exhausted).
Return(p, how) ==
  /\ pc' = [pc EXCEPT ![p] = how]
  /\ job' = [job EXCEPT ![p] = IF how = "exhausted" THEN @ ELSE NoJob]

repo == <<origin, head, work, edit, wedged>>
history == <<answers, unacked>>

\* The command is called.  Bound: Quota[p].
Start(p) ==
  /\ pc[p] \in Resting
  /\ ops[p] < Quota[p]
  /\ \E k \in Kinds, push \in BOOLEAN :
       /\ ~push => "no-push" \in Faults
       /\ job' = [job EXCEPT ![p] = [NoJob EXCEPT !.kind = k, !.push = push,
                                                  !.left = Attempts, !.since = Len(origin)]]
  /\ ops' = [ops EXCEPT ![p] = @ + 1]
  /\ pc' = [pc EXCEPT ![p] = "read"]
  /\ UNCHANGED <<repo, history>>

\* Mutant: the loop has no exit of its own.
ReadEndless(p) ==
  /\ pc[p] = "read"
  /\ pc' = [pc EXCEPT ![p] = "write"]
  /\ job' = [job EXCEPT ![p].text = work[Home[p]][job[p].kind], ![p].left = @ - 1]
  /\ UNCHANGED <<repo, ops, history>>

\* for attempt in range(attempts): text = index_path.read_text().
Read(p) ==
  /\ pc[p] = "read"
  /\ IF job[p].left = 0
     THEN Return(p, "exhausted")
     ELSE /\ pc' = [pc EXCEPT ![p] = "write"]
          /\ job' = [job EXCEPT ![p] = [@ EXCEPT !.text = work[Home[p]][job[p].kind],
                                                 !.left = job[p].left - 1]]
  /\ UNCHANGED <<repo, ops, history>>

\* n = next_id(text); index_path.write_text(text + entry).
Write(p) ==
  LET text == job[p].text
      entry == [id |-> NextId(text), by |-> Cmd(p)]
  IN  /\ pc[p] = "write"
      /\ job' = [job EXCEPT ![p] = [@ EXCEPT !.id = entry.id, !.text = <<>>]]
      /\ work' = [work EXCEPT ![Home[p]][job[p].kind] = Append(text, entry)]
      /\ pc' = [pc EXCEPT ![p] = "commit"]
      /\ UNCHANGED <<origin, head, edit, wedged, ops, history>>

Answered(p) == [by |-> Cmd(p), kind |-> job[p].kind, id |-> job[p].id, push |-> job[p].push]

\* git add -- index; git commit -- index; if not push: return n.  When either fails (also
\* with "nothing to commit") add_entry raises GitError, and the entry stays where Write
\* put it.  A clone stopped in a rebase commits, on its detached HEAD: what git forbids
\* is a pathspec during a merge or a cherry-pick.
Commit(p) ==
  LET c == Home[p]
      k == job[p].kind
      unchanged == work[c][k] = Last(head[c])[k]
  IN  /\ pc[p] = "commit"
      /\ \/ /\ unchanged \/ "refused" \in Faults
            /\ Return(p, "refused")
            /\ UNCHANGED <<head, answers>>
         \/ /\ ~unchanged
            /\ head' = [head EXCEPT ![c] = Append(@, [Last(@) EXCEPT ![k] = work[c][k]])]
            /\ IF job[p].push
               THEN pc' = [pc EXCEPT ![p] = "push"] /\ UNCHANGED <<job, answers>>
               ELSE Return(p, "idle") /\ answers' = answers \cup {Answered(p)}
      /\ UNCHANGED <<origin, work, edit, wedged, ops, unacked>>

\* git push origin HEAD succeeds: every unpushed commit of the clone is published.
PushAccepted(p) ==
  /\ pc[p] = "push"
  /\ FastForward(Home[p])
  /\ origin' = head[Home[p]]
  /\ answers' = answers \cup {Answered(p)}
  /\ Return(p, "idle")
  /\ UNCHANGED <<head, work, edit, wedged, ops, unacked>>

\* Mutant: the return code of the push is not looked at.
PushRejectedIgnored(p) ==
  /\ pc[p] = "push"
  /\ ~FastForward(Home[p])
  /\ answers' = answers \cup {Answered(p)}
  /\ Return(p, "idle")
  /\ UNCHANGED <<repo, ops, unacked>>

\* git push origin HEAD is rejected: origin has moved.
PushRejected(p) ==
  /\ pc[p] = "push"
  /\ ~FastForward(Home[p])
  /\ pc' = [pc EXCEPT ![p] = "reset"]
  /\ UNCHANGED <<repo, job, ops, history>>

\* The push fails although origin would take it: the connection broke before the
\* push reached origin, or ("unacked") after.
PushBroken(p) ==
  /\ pc[p] = "push"
  /\ FastForward(Home[p])
  /\ \/ "offline" \in Faults /\ UNCHANGED <<origin, unacked>>
     \/ /\ "unacked" \in Faults
        /\ origin' = head[Home[p]]
        /\ unacked' = unacked \cup {Cmd(p)}
  /\ job' = [job EXCEPT ![p].shaky = TRUE]
  /\ pc' = [pc EXCEPT ![p] = "reset"]
  /\ UNCHANGED <<head, work, edit, wedged, ops, answers>>

\* Mutant: no roll back before the pull.
ResetSkipped(p) ==
  /\ pc[p] = "reset"
  /\ pc' = [pc EXCEPT ![p] = "pull"]
  /\ UNCHANGED <<repo, job, ops, history>>

\* git reset --hard HEAD~1.
Reset(p) ==
  LET c == Home[p]
  IN  /\ pc[p] = "reset"
      /\ IF Len(head[c]) = 1
         THEN Return(p, "failed") /\ UNCHANGED <<head, work, edit>>
         ELSE /\ head' = [head EXCEPT ![c] = Front(@)]
              /\ work' = [work EXCEPT ![c] = head[c][Len(head[c]) - 1]]
              /\ edit' = [edit EXCEPT ![c] = IF @ = "present" THEN "lost" ELSE @]
              /\ pc' = [pc EXCEPT ![p] = "pull"]
              /\ UNCHANGED job
      /\ UNCHANGED <<origin, wedged, ops, history>>

\* git pull --rebase: it refuses a tree with uncommitted changes or a detached HEAD,
\* stops in mid-rebase when both sides changed one ledger, and else replays the
\* local commits on origin.  On failure add_entry raises GitError.
Pull(p) ==
  LET c == Home[p]
  IN  /\ pc[p] = "pull"
      /\ \/ /\ wedged[c] \/ ~CleanTree(c) \/ "offline" \in Faults
            /\ Return(p, "failed")
            /\ UNCHANGED <<head, work, wedged>>
         \/ /\ ~wedged[c] /\ CleanTree(c)
            /\ \E b \in 1..Len(head[c]) :
                 /\ MergeBase(b, head[c], origin)
                 /\ IF Changed(head[c], b) \cap Changed(origin, b) = {}
                    THEN /\ head' = [head EXCEPT ![c] = origin \o Replayed(c, b)]
                         /\ work' = [work EXCEPT ![c] = Last(head'[c])]
                         /\ pc' = [pc EXCEPT ![p] = "read"]
                         /\ UNCHANGED <<wedged, job>>
                    ELSE /\ head' = [head EXCEPT ![c] = origin]
                         /\ work' = [work EXCEPT ![c] = Conflicted(c, b)]
                         /\ wedged' = [wedged EXCEPT ![c] = TRUE]
                         /\ Return(p, "failed")
      /\ UNCHANGED <<origin, edit, ops, history>>

\* The process is killed between two steps; what it did to the working copy stays.
Crash(p) ==
  /\ "crash" \in Faults
  /\ pc[p] \notin Resting
  /\ Return(p, "idle")
  /\ UNCHANGED <<repo, ops, history>>

\* The user edits a tracked file other than the ledgers, at any time.  Bound: one edit.
Edit(c) ==
  /\ "edit" \in Faults
  /\ \A d \in Clones : edit[d] = "none"
  /\ edit' = [edit EXCEPT ![c] = "present"]
  /\ UNCHANGED <<origin, head, work, wedged, pc, job, ops, history>>

\* One step of add_entry.
Step(p) == \/ Read(p) \/ Write(p) \/ Commit(p)
           \/ PushAccepted(p) \/ PushRejected(p) \/ PushBroken(p)
           \/ Reset(p) \/ Pull(p)

Next ==
  \/ \E p \in Procs : Start(p) \/ Step(p) \/ Crash(p)
  \/ \E c \in Clones : Edit(c)

Spec == Init /\ [][Next]_vars

\* A process that is not killed keeps running: there is no wait and no lock in
\* add_entry, so each git call returns.
FairSpec == Spec /\ \A p \in Procs : WF_vars(Step(p))

-------------------------------------------------------------------------------
(***************************************************************************)
(* Properties                                                              *)
(***************************************************************************)

\* The variables hold what git, the index files and the locals of add_entry can hold: no
\* history is empty, and a command never counts its rounds below zero.
TypeOK ==
  /\ origin \in Seq(Snapshot) /\ origin # <<>>
  /\ head \in [Clones -> Seq(Snapshot)] /\ \A c \in Clones : head[c] # <<>>
  /\ work \in [Clones -> Snapshot]
  /\ edit \in [Clones -> {"none", "present", "lost"}]
  /\ wedged \in [Clones -> BOOLEAN]
  /\ pc \in [Procs -> Phases]
  /\ job \in [Procs -> Job]
  /\ ops \in [Procs -> Nat]
  /\ answers \subseteq Answer
  /\ unacked \subseteq Command

\* check_ledger finds nothing: no number twice, none skipped, none out of order.
Dense(index) == \A i \in DOMAIN index : index[i].id = i

\* No published ledger ever holds a duplicate, a gap or a number out of order,
\* whatever processes share a working copy, die or lose the connection.
PublishedDense == \A i \in DOMAIN origin : \A k \in Kinds : Dense(origin[i][k])

\* An entry once published is never dropped, renumbered or moved: each ledger at
\* origin only grows at its end.
PublishedIsKept ==
  [][\A k \in Kinds : IsPrefix(Last(origin)[k], Last(origin')[k])]_origin

\* A number that `baron ... new` reported as committed and pushed is, at origin and
\* for ever, the number of that command's own entry.
AnswerIsPublished ==
  \A a \in answers : a.push =>
    /\ a.id \in DOMAIN Last(origin)[a.kind]
    /\ Last(origin)[a.kind][a.id] = [id |-> a.id, by |-> a.by]

Holds(snapshot, by) == \E k \in Kinds : \E i \in DOMAIN snapshot[k] : snapshot[k][i].by = by

\* However often a command retries, it files its entry once.
FiledOnce ==
  \A k, l \in Kinds : \A i \in DOMAIN Last(origin)[k], j \in DOMAIN Last(origin)[l] :
    /\ Last(origin)[k][i].by = Last(origin)[l][j].by
    /\ Last(origin)[k][i].by \notin unacked
    => k = l /\ i = j

\* A command that ended in an error left its entry neither at origin nor in a commit
\* that a later push would publish, nor, unless git refused its commit, in the working
\* copy.  (A refused commit leaves the text in the index file, and the next command
\* files it under its own name.)
FailureLeavesNothing ==
  \A p \in Procs :
    pc[p] \in {"refused", "failed", "exhausted"} /\ Cmd(p) \notin unacked =>
      /\ ~Holds(Last(origin), Cmd(p))
      /\ ~Holds(Last(head[Home[p]]), Cmd(p))
      /\ pc[p] # "refused" => ~Holds(work[Home[p]], Cmd(p))

\* "origin is moving too fast" is only said when it was: with a working connection,
\* at least `retries` commits landed at origin while the command ran.
ExhaustionMeansContention ==
  \A p \in Procs :
    pc[p] = "exhausted" /\ ~job[p].shaky => Len(origin) >= job[p].since + Retries

\* The commands implement the abstract ledger: what origin holds is the log, and the
\* numbers reported as pushed are the answers.
Abstract == INSTANCE LedgerSpec WITH
  log <- Last(origin),
  answered <- {a \in answers : a.push}

ImplementsLedger == Abstract!Spec

\* Where nothing fails and every command pushes, the rounds of commit, push and renumber
\* amount to one atomic fetch-and-increment of a counter at origin.
ImplementsCounter == Abstract!CounterSpec

\* The user's edit, made since the last roll back, keeps the pull from starting.
StoppedByEdit(p) == pc[p] = "failed" /\ edit[Home[p]] = "present"

\* A command that meets at most `retries` others, with a working connection, is
\* answered: contention costs it rounds, never its entry.  One thing can stop it: an
\* edit of the same working copy between the roll back and the pull.
EveryCommandIsAnswered ==
  \A p \in Procs : \A n \in 1..Quota[p] :
    ops[p] = n ~> \/ \E a \in answers : a.by = <<p, n>>
                  \/ ops[p] = n /\ StoppedByEdit(p)

===============================================================================
