------------------------------- MODULE MergeGate -------------------------------
(***************************************************************************)
(* `baron merge check`: the gate before a merge (cli/src/baron/merge.py),  *)
(* and `baron review sign`, which writes the signed verdicts it verifies   *)
(* (signed_verdict.py, identity.py).                                       *)
(*                                                                         *)
(* One pull request.  Its heads are numbered in the order of the pushes;   *)
(* its comments, checks and state live on the forge, the verdict artifacts *)
(* in the collab checkout the gate runs in.  The gate reads the forge once *)
(* and the checkout later, while authors push, and reviewers comment and   *)
(* sign.  The registry of signing keys, which nothing else here reads and  *)
(* people edit at any time, is an input of the gate.                       *)
(***************************************************************************)
EXTENDS Integers, Sequences, FiniteSets

CONSTANTS
  Personas,
  Reviewers,    \* the personas whose archetype is reviewer
  MaxHeads,     \* bound: pushes
  MaxComments,  \* bound: verdict comments
  MaxRuns       \* bound: calls of `baron review sign`

ASSUME GateAssumption ==
  /\ Reviewers \subseteq Personas
  /\ MaxHeads \in Nat \ {0} /\ MaxComments \in Nat /\ MaxRuns \in Nat

VARIABLES
  \* on the forge
  authors,   \* authors[h]: whose signature is on head h; the last is the current head
  comments,  \* the REVIEW: comments
  checks,    \* the check runs of the current head, summed up
  \* in the collab checkout
  doc,       \* doc[h]: the artifact .barony/verdicts/pr-<n>-<h>.md
  sig,       \* sig[h]: its .sig: who signed the content of which run
  signing,   \* signing[p]: the head p's `review sign` has written and not yet signed
  runs,      \* calls of `review sign` (reviewed_at makes the content of each its own)
  \* in the gate
  gate,      \* "idle", or "fetched" between the snapshot and the answer
  snap,      \* the snapshot of the pull request
  decision,  \* the last answer; a refusal is NoDecision
  \* history
  greens,    \* the heads whose checks were green
  signed     \* the verdicts whose `review sign` reported success

forge == <<authors, comments, checks>>
verdicts == <<doc, sig, signing, runs>>
check == <<gate, snap, decision>>
gateVars == <<forge, verdicts, check, greens, signed>>

Heads == 1..MaxHeads
States == {"PASS", "FAIL"}
Comment == [state: States, sha: Heads]
None == [run |-> 0]
Doc == [state: States, by: Personas, run: 1..MaxRuns]
Sig == [by: Personas, run: 1..MaxRuns]
Checks == {"green", "other"}   \* "other": none, unfinished, failed or not understood
Postures == {"default", "on", "off"}
\* The personas in .barony/allowed_signers, in the worktree and at HEAD (enrolled); a
\* persona adds its line to the worktree, the owner merges it.
Registry == {reg \in [listed: SUBSET Personas, merged: SUBSET Personas] :
               reg.merged \subseteq reg.listed}
Snap == [head: Heads, comments: SUBSET Comment, checks: Checks, held: BOOLEAN]

CurrentHead == Len(authors)

-------------------------------------------------------------------------------
(***************************************************************************)
(* The preconditions                                                       *)
(***************************************************************************)

\* verify: there is no artifact or no signature.
Unsigned(h) == doc[h] = None \/ sig[h] = None

\* Mutant: a reviewer may sign the verdict on its own commit.
SignerDiffersNot(h, reg) == authors[h] \in reg.listed

\* commit_signer resolves the head's own signature to an enrolled persona, and to
\* another one than the signer.
SignerDiffers(h, reg) == authors[h] \in reg.listed /\ authors[h] # sig[h].by

\* Mutant: the content is not held against the signature.
AttestedUnverified(h, reg) ==
  /\ ~Unsigned(h)
  /\ sig[h].by \in reg.listed \cap Reviewers
  /\ SignerDiffers(h, reg)

\* verify: enrolled key, signature over this content, reviewer named in it the signer,
\* of archetype reviewer, and not the author.  (Artifacts are not copied from another
\* pull request here, so that the content names this one and this head.)
Attested(h, reg) ==
  /\ ~Unsigned(h)
  /\ sig[h].by \in reg.listed
  /\ sig[h].run = doc[h].run
  /\ doc[h].by = sig[h].by
  /\ sig[h].by \in Reviewers
  /\ SignerDiffers(h, reg)

\* Mutant: nobody is ever found enrolled.
EnforcedNever(posture, reg) == posture = "on"

\* resolve_signed_posture: a flag decides; else whether a reviewer is enrolled.
Enforced(posture, reg) ==
  \/ posture = "on"
  \/ posture = "default" /\ reg.merged \cap Reviewers # {}

\* _check_verdict_at_head: a verdict, PASS or FAIL, that names the head.  (A verdict
\* without a full sha never does, like one for another head.)
VerdictAtHead(s) == \E v \in s.comments : v.sha = s.head

\* _check_verdict_signed: absent evidence refuses when enforced, broken evidence always.
VerdictSigned(h, posture, reg) ==
  \/ Attested(h, reg)
  \/ Unsigned(h) /\ ~Enforced(posture, reg)

\* Mutant: a PASS answers the FAIL beside it.
NoChangesRequestedLenient(s) ==
  [state |-> "PASS", sha |-> s.head] \in s.comments /\ ~s.held

\* _check_no_changes_requested: no FAIL names the head, no platform review blocks.
NoChangesRequested(s) ==
  [state |-> "FAIL", sha |-> s.head] \notin s.comments /\ ~s.held

\* evaluate.
Allowed(s, posture, reg) ==
  /\ VerdictAtHead(s)
  /\ VerdictSigned(s.head, posture, reg)
  /\ NoChangesRequested(s)
  /\ s.checks = "green"

-------------------------------------------------------------------------------
NoSnap == [head |-> 1, comments |-> {}, checks |-> "other", held |-> TRUE]
NoDecision == [allowed |-> FALSE, head |-> 1, signer |-> "anybody"]

\* Whether the caller or the registry lets a verdict go without a signature (for the
\* properties: the gate asks Enforced).
Waived(posture, reg) ==
  posture = "off" \/ (posture = "default" /\ reg.merged \cap Reviewers = {})

GateInit ==
  /\ authors \in {<<a>> : a \in Personas}
  /\ comments = {} /\ checks = "other"
  /\ doc = [h \in Heads |-> None] /\ sig = [h \in Heads |-> None]
  /\ signing = [p \in Personas |-> 0] /\ runs = 0
  /\ gate = "idle" /\ snap = NoSnap /\ decision = NoDecision
  /\ greens = {} /\ signed = {}

(***************************************************************************)
(* The forge                                                               *)
(***************************************************************************)

\* A push: comments and platform reviews stay, check runs belong to a head.
Push(a) ==
  /\ CurrentHead < MaxHeads
  /\ authors' = Append(authors, a)
  /\ checks' = "other"
  /\ UNCHANGED <<comments, verdicts, check, greens, signed>>

\* The check runs end green, fail, or are run again.
RunChecks(state) ==
  /\ state # checks
  /\ checks' = state
  /\ greens' = IF state = "green" THEN greens \cup {CurrentHead} ELSE greens
  /\ UNCHANGED <<authors, comments, verdicts, check, signed>>

\* A REVIEW: comment, on any head there has been.
Post(v) ==
  /\ Cardinality(comments) < MaxComments
  /\ v.sha <= CurrentHead
  /\ comments' = comments \cup {v}
  /\ UNCHANGED <<authors, checks, verdicts, check, greens, signed>>

(***************************************************************************)
(* `baron review sign`                                                     *)
(***************************************************************************)

\* sign: path.write_text(render_verdict(...)).
SignWrite(p, h, state) ==
  /\ signing[p] = 0
  /\ runs < MaxRuns
  /\ runs' = runs + 1
  /\ doc' = [doc EXCEPT ![h] = [state |-> state, by |-> p, run |-> runs']]
  /\ signing' = [signing EXCEPT ![p] = h]
  /\ UNCHANGED <<forge, sig, check, greens, signed>>

\* sign_file signs what the file holds by now.  When there is a .sig, ssh-keygen asks
\* whether to overwrite it; without an answer it keeps it and exits 0.
Signs(p, h) ==
  /\ h # 0
  /\ \/ sig' = [sig EXCEPT ![h] = [by |-> p, run |-> doc[h].run]]
     \/ sig[h] # None /\ UNCHANGED sig
  /\ signing' = [signing EXCEPT ![p] = 0]
  /\ signed' = signed \cup {[by |-> p, sha |-> h, run |-> doc[h].run]}
  /\ UNCHANGED <<forge, doc, runs, check, greens>>

\* Mutant: sign_file does not look whether there still is a file.
SignFileBlind(p) == Signs(p, signing[p])

\* sign_file: ssh-keygen -Y sign, when there is a file.
SignFile(p) == Signs(p, signing[p]) /\ doc[signing[p]] # None

\* No key, nothing to sign, or ssh-keygen fails: path.unlink(missing_ok=True).
SignFails(p) ==
  /\ signing[p] # 0
  /\ doc' = [doc EXCEPT ![signing[p]] = None]
  /\ signing' = [signing EXCEPT ![p] = 0]
  /\ UNCHANGED <<forge, sig, runs, check, greens, signed>>

\* The command is killed between the two.
SignCrash(p) ==
  /\ signing[p] # 0
  /\ signing' = [signing EXCEPT ![p] = 0]
  /\ UNCHANGED <<forge, doc, sig, runs, check, greens, signed>>

(***************************************************************************)
(* `baron merge check`                                                     *)
(***************************************************************************)

\* check: forge.get_pr, one snapshot.  At any time the pull request may be closed or a
\* draft, or a platform review may request changes: held.
GateFetch(held) ==
  /\ gate = "idle"
  /\ gate' = "fetched"
  /\ snap' = [head |-> CurrentHead, comments |-> comments, checks |-> checks, held |-> held]
  /\ decision' = NoDecision
  /\ UNCHANGED <<forge, verdicts, greens, signed>>

\* verify, resolve_signed_posture and evaluate, on the checkout.
Decide(s, posture, reg) ==
  /\ gate = "fetched"
  /\ gate' = "idle"
  /\ snap' = NoSnap
  /\ decision' = IF Allowed(s, posture, reg)
                 THEN [allowed |-> TRUE, head |-> s.head,
                       signer |-> IF Waived(posture, reg) THEN "anybody" ELSE "reviewer"]
                 ELSE NoDecision
  /\ UNCHANGED <<forge, verdicts, greens, signed>>

\* Mutant: the checks are queried on their own, and may be those of another head.
GateDecideTwoQueries(posture, reg) ==
  Decide([snap EXCEPT !.checks = checks], posture, reg)

\* check: the rest of it.
GateDecide(posture, reg) == Decide(snap, posture, reg)

GateNext ==
  \/ \E a \in Personas : Push(a)
  \/ \E state \in Checks : RunChecks(state)
  \/ \E v \in Comment : Post(v)
  \/ \E p \in Personas :
       \/ SignFile(p) \/ SignFails(p) \/ SignCrash(p)
       \/ \E h \in 1..CurrentHead, state \in States : SignWrite(p, h, state)
  \/ \E held \in BOOLEAN : GateFetch(held)
  \/ \E posture \in Postures, reg \in Registry : GateDecide(posture, reg)

GateSpec == GateInit /\ [][GateNext]_gateVars

-------------------------------------------------------------------------------
(***************************************************************************)
(* Properties                                                              *)
(***************************************************************************)

\* The variables hold what the forge, the checkout and the gate can hold.  A record that
\* says `review sign` succeeded names a run that was started.
GateTypeOK ==
  /\ authors \in Seq(Personas) /\ CurrentHead \in Heads
  /\ comments \subseteq Comment /\ checks \in Checks
  /\ doc \in [Heads -> Doc \cup {None}] /\ sig \in [Heads -> Sig \cup {None}]
  /\ signing \in [Personas -> 0..CurrentHead] /\ runs \in 0..MaxRuns
  /\ gate \in {"idle", "fetched"} /\ snap \in Snap
  /\ decision \in [allowed: BOOLEAN, head: Heads, signer: {"anybody", "reviewer"}]
  /\ greens \subseteq Heads
  /\ signed \subseteq [by: Personas, sha: Heads, run: 1..runs]

\* The head the gate allows is one that was itself reviewed with a PASS, was not failed
\* before the gate looked, and was itself green, whatever is pushed, commented or rerun
\* while the gate runs (merge.py: evaluate takes one snapshot).
AllowedWasReviewed ==
  decision.allowed => /\ [state |-> "PASS", sha |-> decision.head] \in comments
                      /\ decision.head \in greens

\* Once a REVIEW:FAIL on a head is on the pull request, no gate run that starts after
\* allows that head, whatever is posted beside it (merge.py: _check_no_changes_requested).
\* Comments are only added, so the snapshot has those there were when the run started.
FailIsFinal ==
  [][decision'.allowed /\ ~decision.allowed =>
       \A v \in snap.comments : v.sha = snap.head => v.state = "PASS"]_gateVars

\* Some persona has a signature on h that covers the artifact as it is, made by a
\* `review sign` of its own that reported success; it is a reviewer and did not sign h.
\* The verdict may be a FAIL: verify holds the state in no way against the comments.
Attributed(h) ==
  /\ ~Unsigned(h)
  /\ \E r \in signed :
       /\ r.sha = h /\ r.run = doc[h].run /\ r.by = doc[h].by
       /\ r.by \in Reviewers /\ r.by # authors[h]

\* The gate allows a head that an independent reviewer signed a verdict on, PASS or FAIL,
\* or, when nobody enrolled could have signed one or the caller waived it, one with no
\* signature at all; a signature that does not verify is never let through (merge.py:
\* _check_verdict_signed).  That the reviewer approved the head is not said: the PASS is
\* the comment's, which anybody posts.
VerdictIsAttributed ==
  [][decision'.allowed /\ ~decision.allowed =>
       \/ Attributed(snap.head)
       \/ Unsigned(snap.head) /\ decision'.signer = "anybody"]_gateVars

===============================================================================
