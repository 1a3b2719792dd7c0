-------------------------------- MODULE Mailbox --------------------------------
(***************************************************************************)
(* The collab repository as a mailbox (handoff.py, notify.py, session.py,  *)
(* sidecar.py and the workflow baron-notify.yml, in cli/src/baron).        *)
(*                                                                         *)
(* A letter is a file of _handoff/.  Each persona works in a clone of its  *)
(* own; letters reach the others by push and fast-forward pull, never by   *)
(* merge or rebase.  A sidecar runs cycles: sync and sweep, the project's  *)
(* runtime (which calls `baron handoff` and `baron notify`), land.  A      *)
(* notification that was pushed may also dispatch an event; the workflow's *)
(* gate then wakes the persona.                                            *)
(***************************************************************************)
EXTENDS Integers, Sequences, SequencesExt

CONSTANTS
  Personas,
  Watchers,  \* the personas whose sidecar runs with --watch; the others wait for a wake
  Busy,      \* the personas with an open item in a file backlog
  Allowed,   \* notify.wake_allowed of the manifest
  Limit,     \* the depth the workflow's gate lets through
  Depths,    \* the values given to --max-depth
  Recipients, \* bound: whom each persona writes to
  MaxMail,   \* bound: letters written
  Faulty,    \* bound: the personas that faults befall: a crash, a timeout of the runtime,
             \* a call that cannot reach the forge
  MaxFaults  \* bound: faults

ASSUME MailboxAssumption ==
  /\ "all" \notin Personas /\ Recipients \in [Personas -> SUBSET (Personas \cup {"all"})]
  /\ Watchers \subseteq Personas /\ Busy \subseteq Personas /\ Allowed \subseteq Personas
  /\ Faulty \subseteq Personas
  /\ Limit \in Nat /\ Depths \subseteq Nat /\ MaxMail \in Nat /\ MaxFaults \in Nat

VARIABLES
  mail,     \* the letters in the order of writing: what their frontmatter keeps for ever
  origin,   \* the history of origin's default branch
  head,     \* head[p]: the history of HEAD in p's clone
  tree,     \* tree[p]: the letters in p's working tree
  index,    \* index[p]: the letters the README of p's working tree lists as open
  pc,       \* pc[p]: the next step of p's sidecar
  step,     \* step[p]: the next step of the command that runs in p's clone
  hand,     \* hand[p]: the letter that command is about
  left,     \* left[p]: that command has outlived the runtime that started it
  waiting,  \* the letters whose dispatched events the workflow has not answered
  woken,    \* woken[p]: a spawn has started a cycle of p that has not begun
  briefed,  \* history: <<p, l>> when letter l was in a brief of p
  spawned,  \* history: the letters whose gate let the spawn job run
  cut,      \* history: the letters whose runtime was killed in the middle of a close
  faults    \* history: the number of faults

vars ==
  <<mail, origin, head, tree, index, pc, step, hand, left, waiting, woken, briefed, spawned,
    cut, faults>>

Letters == 1..MaxMail
Letter == [for: Personas \cup {"all"}, from: Personas, depth: Nat, parent: 0..MaxMail]
Places == {"none", "open", "done", "archived"}   \* "done": closed, still in _handoff/
Box == [Letters -> Places]
Commit == [by: Personas \cup {"init"}, box: Box, index: SUBSET Letters]
InCommand == {"move", "file", "add", "push", "dispatch"}
Phases == {"idle", "runtime", "land"}

Tip(history) == Last(history).box
Listed(box) == {l \in Letters : box[l] = "open"}

Empty == [l \in Letters |-> "none"]

Init ==
  /\ mail = <<>>
  /\ origin = <<[by |-> "init", box |-> Empty, index |-> {}]>>
  /\ head = [p \in Personas |-> origin]
  /\ tree = [p \in Personas |-> Empty]
  /\ index = [p \in Personas |-> {}]
  /\ pc = [p \in Personas |-> "idle"]
  /\ step = [p \in Personas |-> "none"]
  /\ hand = [p \in Personas |-> 0]
  /\ left = [p \in Personas |-> FALSE]
  /\ waiting = {}
  /\ woken = [p \in Personas |-> FALSE]
  /\ briefed = {}
  /\ spawned = {}
  /\ cut = {}
  /\ faults = 0

\* The sidecar goes on, or the command does.
Phase(p, phase) == pc' = [pc EXCEPT ![p] = phase]
Goto(p, next) == step' = [step EXCEPT ![p] = next] /\ UNCHANGED <<pc, left>>

\* A runtime's command begins.  (Bound: none while one of an earlier runtime goes on.)
Begin(p, next, l) ==
  /\ pc[p] = "runtime" /\ step[p] = "none"
  /\ Goto(p, next)
  /\ hand' = [hand EXCEPT ![p] = l]

\* A command ends, and its locals with it.
Done(p) ==
  /\ step' = [step EXCEPT ![p] = "none"]
  /\ hand' = [hand EXCEPT ![p] = 0]
  /\ left' = [left EXCEPT ![p] = FALSE]
  /\ UNCHANGED pc

letters == <<mail, briefed, spawned, cut>>
wakes == <<waiting, woken>>
command == <<step, hand, left>>

-------------------------------------------------------------------------------
(***************************************************************************)
(* Git                                                                     *)
(***************************************************************************)

\* The letters, and the README, that differ from HEAD in p's working tree, and those
\* that a fast-forward would change.
DirtyLetters(p) == {l \in Letters : tree[p][l] # Tip(head[p])[l]}
DirtyIndex(p) == index[p] # Last(head[p]).index
IncomingLetters(p) == {l \in Letters : Tip(origin)[l] # Tip(head[p])[l]}
IncomingIndex(p) == Last(origin).index # Last(head[p]).index

\* git pull --ff-only has nothing to do, or can: HEAD has no commit of its own and the
\* working tree none of the files that change.
UpToDate(p) == IsPrefix(origin, head[p])
CanPull(p) ==
  /\ IsPrefix(head[p], origin)
  /\ DirtyLetters(p) \cap IncomingLetters(p) = {}
  /\ ~(DirtyIndex(p) /\ IncomingIndex(p))

\* git pull --ff-only.  A failure leaves all as it is, and is reported.
Pull(p, online) ==
  IF online /\ CanPull(p)
  THEN /\ head' = [head EXCEPT ![p] = origin]
       /\ tree' = [tree EXCEPT ![p] = [l \in Letters |->
                     IF l \in DirtyLetters(p) THEN tree[p][l] ELSE Tip(origin)[l]]]
       /\ index' = [index EXCEPT ![p] = IF DirtyIndex(p) THEN index[p]
                                                         ELSE Last(origin).index]
  ELSE UNCHANGED <<head, tree, index>>

\* Mutant: git push --force.
PushableForced(history, online) == online

\* git push origin <branch>: no force.
Pushable(history, online) == online /\ IsPrefix(origin, history)

MakeCommit(p, box, listed) ==
  head' = [head EXCEPT ![p] = Append(@, [by |-> p, box |-> box, index |-> listed])]

Fault(p) == p \in Faulty /\ faults < MaxFaults /\ faults' = faults + 1
Reached(p, online) == IF online THEN UNCHANGED faults ELSE Fault(p)

-------------------------------------------------------------------------------
(***************************************************************************)
(* A cycle begins: run_cycle up to the runtime                             *)
(***************************************************************************)

\* Mutant: only the letters for the persona itself.
AddressedNotAll(p, box) == {l \in Letters : box[l] = "open" /\ mail[l].for = p}

\* iter_handoffs and session.start: the open letters for the persona or for all.
Addressed(p, box) == {l \in Letters : box[l] = "open" /\ mail[l].for \in {p, "all"}}

\* Sync, sweep, and the runtime is invoked with the brief, or the cycle was idle.
OpenCycle(p, online) ==
  /\ pc[p] = "idle"
  /\ p \in Watchers \/ woken[p]
  /\ Pull(p, online)
  /\ LET found == Addressed(p, tree'[p])
     IN  IF found = {} /\ p \notin Busy
         THEN UNCHANGED <<pc, briefed>>
         ELSE Phase(p, "runtime") /\ briefed' = briefed \cup ({p} \X found)
  /\ woken' = [woken EXCEPT ![p] = FALSE]
  /\ UNCHANGED <<mail, origin, command, waiting, spawned, cut>>

-------------------------------------------------------------------------------
(***************************************************************************)
(* baron handoff close                                                     *)
(***************************************************************************)

\* close: the letter is in _handoff/ with status open; it is rewritten with status done.
CloseWrite(p, l) ==
  /\ tree[p][l] = "open"
  /\ tree' = [tree EXCEPT ![p][l] = "done"]
  /\ Begin(p, "move", l)
  /\ UNCHANGED <<origin, head, index, letters, wakes>>

\* Mutant: the letter is not moved.
CloseMoveNot(p) ==
  /\ step[p] = "move"
  /\ Done(p)
  /\ UNCHANGED <<origin, head, tree, index, letters, wakes>>

\* git add; git mv to _handoff/archive/<year>/.
CloseMove(p) ==
  /\ step[p] = "move"
  /\ tree' = [tree EXCEPT ![p][hand[p]] = "archived"]
  /\ Goto(p, "file")
  /\ UNCHANGED <<origin, head, index, hand, letters, wakes>>

\* git commit, without a pathspec: with whatever an earlier close moved and left staged.  It
\* fails with nothing to commit when a sidecar that did not wait has landed the move.
CloseCommit(p) ==
  /\ step[p] = "file"
  /\ LET staged == [l \in Letters |-> IF tree[p][l] = "archived" THEN "archived"
                                                                ELSE Tip(head[p])[l]]
     IN  IF staged = Tip(head[p])
         THEN UNCHANGED head
         ELSE MakeCommit(p, staged, Last(head[p]).index)
  /\ Done(p)
  /\ UNCHANGED <<origin, tree, index, letters, wakes>>

-------------------------------------------------------------------------------
(***************************************************************************)
(* baron notify and baron handoff create                                   *)
(***************************************************************************)

\* Mutant: the depth is not kept in the frontmatter, and reads as 0.
ReplyDepthLost(parent) == 0

\* Mutant: counted down.
ReplyDepthDown(parent) == IF parent = 0 THEN 0 ELSE mail[parent].depth - 1

\* wake_depth: 0, or one more than the letter replied to.
ReplyDepth(parent) == IF parent = 0 THEN 0 ELSE mail[parent].depth + 1

\* create writes the letter.  A reply names a letter that is in _handoff/ of the clone.
Compose(p, to, parent) ==
  /\ Len(mail) < MaxMail
  /\ parent \in {0} \cup {l \in Letters : tree[p][l] \in {"open", "done"}}
  /\ mail' = Append(mail, [for |-> to, from |-> p, depth |-> ReplyDepth(parent),
                           parent |-> parent])
  /\ Begin(p, "add", Len(mail'))
  /\ tree' = [tree EXCEPT ![p][Len(mail')] = "open"]
  /\ UNCHANGED <<origin, head, index, wakes, briefed, spawned, cut>>

\* notify wakes nobody unless asked to, and allowed to, and not too deep in a chain.  (No
\* forge, no remote or another branch than the default one: as if not asked to.)
WakeDecided(p, asked, max) ==
  asked /\ mail[hand[p]].depth <= max /\ p \in Allowed

\* git add; git commit -- letter; then to the push, or the command ends with the letter
\* committed and not published.  They fail, and the command ends, when a sidecar that did
\* not wait has landed the letter.
AddLetter(p, asked, max) ==
  /\ step[p] = "add"
  /\ IF Tip(head[p])[hand[p]] = "none"
     THEN /\ MakeCommit(p, [Tip(head[p]) EXCEPT ![hand[p]] = "open"], Last(head[p]).index)
          /\ IF WakeDecided(p, asked, max)
             THEN Goto(p, "push") /\ UNCHANGED hand
             ELSE Done(p)
     ELSE Done(p) /\ UNCHANGED head
  /\ UNCHANGED <<origin, tree, index, letters, wakes>>

\* Mutant: the answer of the push is not looked at.
NotifyPushUnchecked(p, online) ==
  /\ step[p] = "push"
  /\ origin' = IF Pushable(head[p], online) THEN head[p] ELSE origin
  /\ Goto(p, "dispatch")
  /\ UNCHANGED <<head, tree, index, hand, letters, wakes>>

\* The push, once: without it there is no wake.
NotifyPush(p, online) ==
  /\ step[p] = "push"
  /\ IF Pushable(head[p], online)
     THEN origin' = head[p] /\ Goto(p, "dispatch") /\ UNCHANGED hand
     ELSE Done(p) /\ UNCHANGED origin
  /\ UNCHANGED <<head, tree, index, letters, wakes>>

\* forge.dispatch_event.  The workflow's concurrency group keeps one pending run for a
\* persona: a new one may take the place of an older one.
Dispatch(p, online) ==
  LET l == hand[p]
      rivals == {w \in waiting : mail[w].for = mail[l].for}
  IN  /\ step[p] = "dispatch"
      /\ waiting' \in IF online THEN {waiting \cup {l}, (waiting \ rivals) \cup {l}}
                                ELSE {waiting}
      /\ Done(p)
      /\ UNCHANGED <<origin, head, tree, index, letters, woken>>

-------------------------------------------------------------------------------
(***************************************************************************)
(* The workflow                                                            *)
(***************************************************************************)

\* The gate, on a checkout of the default branch: the letter is in _handoff/, and its
\* committed sender and depth may wake.  The spawn job then starts a cycle of the persona,
\* or of nobody for "all".
Gate(l) ==
  /\ l \in waiting
  /\ waiting' = waiting \ {l}
  /\ IF /\ Tip(origin)[l] \in {"open", "done"}
        /\ mail[l].from \in Allowed
        /\ mail[l].depth <= Limit
     THEN /\ spawned' = spawned \cup {l}
          /\ woken' = [p \in Personas |-> woken[p] \/ p = mail[l].for]
     ELSE UNCHANGED <<spawned, woken>>
  /\ UNCHANGED <<mail, origin, head, tree, index, pc, command, briefed, cut>>

-------------------------------------------------------------------------------
(***************************************************************************)
(* A cycle ends: session.end and the push                                  *)
(***************************************************************************)

\* The runtime has ended: update_readme.
Reindex(p) ==
  /\ pc[p] = "runtime"
  /\ index' = [index EXCEPT ![p] = Listed(tree[p])]
  /\ Phase(p, "land")

\* The runtime exits, with whatever code, when its own commands have ended.
EndIndex(p) ==
  /\ step[p] = "none" \/ left[p]
  /\ Reindex(p)
  /\ UNCHANGED <<origin, head, tree, command, letters, wakes>>

\* git add and commit of the coordination directories, when anything in them changed, and
\* _push: no force, no retry, a rejection is a note in the report.  (A cycle that dies
\* between the two leaves what a failed push leaves.)
Land(p, online) ==
  /\ pc[p] = "land"
  /\ IF DirtyLetters(p) = {} /\ ~DirtyIndex(p)
     THEN UNCHANGED head
     ELSE MakeCommit(p, tree[p], index[p])
  /\ origin' = IF Pushable(head'[p], online) THEN head'[p] ELSE origin
  /\ Phase(p, "idle")
  /\ UNCHANGED <<tree, index, command, letters, wakes>>

-------------------------------------------------------------------------------
\* The runtime is killed, and the command it waited for with it, or that goes on by itself.
CutShort(p) ==
  /\ Fault(p)
  /\ cut' = IF step[p] = "move" THEN cut \cup {hand[p]} ELSE cut
  /\ \/ /\ step' = [step EXCEPT ![p] = "none"]
        /\ hand' = [hand EXCEPT ![p] = 0]
        /\ left' = [left EXCEPT ![p] = FALSE]
     \/ /\ step[p] # "none"
        /\ left' = [left EXCEPT ![p] = TRUE]
        /\ UNCHANGED <<step, hand>>
  /\ UNCHANGED <<mail, origin, head, tree, wakes, briefed, spawned>>

\* _invoke: subprocess.run kills its child, the runtime, in a command, and the cycle goes on
\* to land.
Timeout(p) == step[p] # "none" /\ Reindex(p) /\ CutShort(p)

\* The sidecar dies, and its runtime with it.
Crash(p) == pc[p] # "idle" /\ Phase(p, "idle") /\ CutShort(p) /\ UNCHANGED index

\* A command that was left and the landing meet at the lock of git's index: one of them fails.
Collide(p) ==
  /\ left[p]
  /\ \/ Done(p)
     \/ pc[p] = "land" /\ Phase(p, "idle") /\ UNCHANGED command
  /\ UNCHANGED <<origin, head, tree, index, letters, wakes, faults>>

LocalStep(p) ==
  \/ \E l \in Letters : CloseWrite(p, l)
  \/ CloseMove(p) \/ CloseCommit(p)
  \/ \E to \in Recipients[p] \ {p}, parent \in 0..Len(mail) : Compose(p, to, parent)
  \/ \E asked \in BOOLEAN, max \in Depths : AddLetter(p, asked, max)
  \/ EndIndex(p)

RemoteStep(p, online) ==
  OpenCycle(p, online) \/ NotifyPush(p, online) \/ Dispatch(p, online) \/ Land(p, online)

Step(p) ==
  \/ LocalStep(p) /\ UNCHANGED faults
  \/ \E online \in BOOLEAN : Reached(p, online) /\ RemoteStep(p, online)

Next ==
  \/ \E p \in Personas : Step(p) \/ Timeout(p) \/ Crash(p) \/ Collide(p)
  \/ \E l \in Letters : Gate(l) /\ UNCHANGED faults

Spec == Init /\ [][Next]_vars

\* The loop of a watching sidecar has no wait in it but the sleep, and its runtime ends: it
\* does one unit of work, or is killed.  One that dies is started again.  Of the others, and
\* of the workflow, nothing is assumed.  (A cycle that pulls and finds nothing is no work.)
FairSpec == Spec /\ \A p \in Watchers : WF_<<pc[p], step[p], head[p]>>(Step(p))

-------------------------------------------------------------------------------
(***************************************************************************)
(* Properties                                                              *)
(***************************************************************************)

\* The variables hold what git, the working trees, the forge and the locals of the
\* commands can hold: a command at work has a letter that is written.
TypeOK ==
  /\ mail \in Seq(Letter) /\ Len(mail) <= MaxMail
  /\ origin \in Seq(Commit) /\ origin # <<>>
  /\ head \in [Personas -> Seq(Commit)] /\ \A p \in Personas : head[p] # <<>>
  /\ tree \in [Personas -> Box]
  /\ index \in [Personas -> SUBSET Letters]
  /\ pc \in [Personas -> Phases]
  /\ step \in [Personas -> InCommand \cup {"none"}]
  /\ hand \in [Personas -> 0..Len(mail)]
  /\ \A p \in Personas : hand[p] # 0 <=> step[p] \in InCommand
  /\ left \in [Personas -> BOOLEAN]
  /\ waiting \subseteq DOMAIN mail
  /\ woken \in [Personas -> BOOLEAN]
  /\ briefed \subseteq Personas \X DOMAIN mail
  /\ spawned \subseteq DOMAIN mail
  /\ cut \subseteq DOMAIN mail
  /\ faults \in 0..MaxFaults

\* No event is on its way and no persona was spawned for a letter that is not published:
\* the failure mode is "no wake", never an empty one (notify.py: push before dispatch).
MessageBeforeWake == \A l \in waiting \cup spawned : Tip(origin)[l] # "none"

\* How many letters a letter has before it in its chain of replies.
Chain[l \in DOMAIN mail] == IF mail[l].parent = 0 THEN 0 ELSE Chain[mail[l].parent] + 1

\* However replies go back and forth, each by a process of its own and from a clone of its
\* own, no spawn happens more than Limit letters down a chain (notify.py: wake_depth).
ChainsEnd == \A l \in spawned : Chain[l] <= Limit

Rank(place) ==
  IF place = "none" THEN 0 ELSE IF place = "open" THEN 1 ELSE IF place = "done" THEN 2 ELSE 3

\* A published letter is never deleted and never comes back: at origin, each goes from
\* open to done to archived, whichever clone closes it and whatever that clone had seen
\* (handoff.py: archive, not delete).
ArchiveNotDelete ==
  [][\A l \in Letters : Rank(Tip(origin)[l]) <= Rank(Tip(origin')[l])]_origin

\* A letter is published closed and not archived only when a runtime was killed in the middle
\* of its close, which died there or went on beside the landing: no cycle lands half of a
\* close that a runtime of its own waited for (sidecar.py: _invoke, run_cycle).
HalfClosedWasCut == \A l \in Letters : Tip(origin)[l] = "done" => l \in cut

\* p's clone and origin have parted: no cycle of p's can bring them together.
CutOff(p) == ~UpToDate(p) /\ ~CanPull(p)

\* The letters that are open at origin for p and were never in a brief of p.
Unswept(p) ==
  {l \in DOMAIN mail : mail[l].for \in {p, "all"} /\ mail[l].from # p
                        /\ Tip(origin)[l] = "open" /\ <<p, l>> \notin briefed}

\* A watching sidecar is told of every letter that is published for it and stays open, or
\* its clone has parted from origin.
AddressedIsSwept == \A p \in Watchers : Unswept(p) # {} ~> (Unswept(p) = {} \/ CutOff(p))

===============================================================================
