----------------------------- MODULE Enrollment -----------------------------
(***************************************************************************)
(* Identities (cli/src/baron/identity.py, onboard.py, the commands of      *)
(* `baron identity` and `baron verify identity`, and the workflow          *)
(* verify-identity.yml): a persona generates a key, requests its           *)
(* enrollment in .barony/allowed_signers, and the owner merges the         *)
(* request; a pull request passes when every commit of it is signed by a   *)
(* persona that is enrolled and declared, and claims no other, nor does    *)
(* the label agent-<slug> that the workflow was given.                     *)
(*                                                                         *)
(* A key is its owner and a number.  The owner may revoke a line, personas  *)
(* lose keys, pushes and forge calls fail; the forge enforces the ruleset   *)
(* that `protect` creates, or nothing.                                     *)
(***************************************************************************)
EXTENDS Naturals, FiniteSets

CONSTANTS
    Personas, Clones, Home,     \* whose working copy is whose
    Declared,                   \* the personas whose persona.yaml is on main from the start
    Enrolled,                   \* those whose first key is, too
    Trailers, Labels,           \* bounds: the personas that trailers claim, and labels
    PRs,                        \* bound: the pull requests
    MaxKeys, MaxCommits         \* bounds: each persona's keys, each pull request's commits

ASSUME EnrollmentAssumption ==
    /\ Home \in [Personas -> Clones]
    /\ Enrolled \subseteq Declared /\ Declared \subseteq Personas
    /\ MaxKeys \in [Personas -> Nat] /\ MaxCommits \in [PRs -> Nat]

VARIABLES
    key,        \* the number of each persona's latest key, 0 for none
    clone,      \* each working copy: its base on main, its HEAD, its files, its signing key
    main,       \* the registry and the declared personas
    pr,         \* the pull requests
    account,    \* the signing keys registered with the forge
    ruleset,    \* the ruleset of main, if any
    trusted     \* the lines the owner approved, and those on main when it was protected

vars == <<key, clone, main, pr, account, ruleset, trusted>>

Line(k) == [slug |-> k.of, key |-> k]
Files(signers, specs) == [signers |-> signers, specs |-> specs]
Key(p, n) == [of |-> p, n |-> n]
NoPR == [state |-> "none", by |-> {}, commits |-> {}, adds |-> Files({}, {}),
         current |-> FALSE, passed |-> {}, approved |-> FALSE]

\* Mutant: a branch need not be up to date with main.
LaxRulesetPayload == [strict |-> FALSE, codeOwners |-> TRUE, dismiss |-> TRUE]
\* ruleset_payload: signatures and the check are required, the branch must be up to date,
\* the code owner reviews, and a push dismisses that review.
RulesetPayload == [strict |-> TRUE, codeOwners |-> TRUE, dismiss |-> TRUE]

Init ==
    LET first == Files({Line(Key(p, 1)) : p \in Enrolled}, Declared)
    IN  /\ key = [p \in Personas |-> IF p \in Enrolled THEN 1 ELSE 0]
        /\ main = first
        /\ clone = [c \in Clones |->
                      [fresh |-> TRUE, base |-> first, head |-> first, tree |-> first,
                       signer |-> {Key(p, 1) : p \in {q \in Enrolled : Home[q] = c}}]]
        /\ pr = [n \in PRs |-> NoPR]
        /\ account = {Key(p, 1) : p \in Enrolled} /\ ruleset = {}
        /\ trusted = {}

-----------------------------------------------------------------------------
(* `baron identity init`. *)

\* generate_key: a whole pair is kept.  A new one is made where there is none: never was,
\* a file of it is lost, or ssh-keygen was cut between the two.
GenerateKey(p) == ({key[p]} \ {0}) \cup {key[p] + 1}

\* is_enrolled: at HEAD for who asks whether it may work, in the worktree elsewhere.
IsEnrolled(files, k) == Line(k) \in files.signers

\* The request is a line in the worktree, for whom HEAD does not have.
IdentityInit(p, n, request) ==
    LET c == Home[p]
        k == Key(p, n)
    IN  /\ n <= MaxKeys[p]
        /\ key' = [key EXCEPT ![p] = n]
        /\ clone' = [clone EXCEPT
             ![c].signer = {k},
             ![c].tree.signers =
                 IF IsEnrolled(clone[c].head, k) \/ ~request THEN @ ELSE @ \cup {Line(k)}]
        /\ UNCHANGED <<main, pr, account, ruleset, trusted>>

WriteSpec(p) ==
    /\ p \notin clone[Home[p]].tree.specs
    /\ clone' = [clone EXCEPT ![Home[p]].tree.specs = @ \cup {p}]
    /\ UNCHANGED <<key, main, pr, account, ruleset, trusted>>

\* Back to main with what origin has; what is not committed is carried along.
Sync(c) ==
    LET carried == Files(clone[c].tree.signers \ clone[c].head.signers,
                         clone[c].tree.specs \ clone[c].head.specs)
    IN  /\ ~clone[c].fresh \/ clone[c].head # main
        /\ clone' = [clone EXCEPT
             ![c].fresh = TRUE, ![c].base = main, ![c].head = main,
             ![c].tree = Files(main.signers \cup carried.signers,
                               main.specs \cup carried.specs)]
        /\ UNCHANGED <<key, main, pr, account, ruleset, trusted>>

-----------------------------------------------------------------------------
(* The check of a pull request. *)

\* What its branch adds to main.
Adds(c, head) ==
    Files(head.signers \ clone[c].base.signers, head.specs \ clone[c].base.specs)

\* verify_range on the merge of the branch with main: the signer is enrolled and
\* declared, and it is whom the commit's trailer and the request's label claim.
VerifyCommit(commit, label, signers, specs) ==
    \E line \in signers :
        /\ line.key = commit.key /\ line.slug \in specs
        /\ commit.claims \cup label \subseteq {line.slug}
VerifyIdentity(q, label) ==
    \A commit \in q.commits :
        VerifyCommit(commit, label, main.signers \cup q.adds.signers, main.specs \cup q.adds.specs)

\* A commit is signed with the key that its working copy is configured for.
Signed(c, claims) == {[key |-> k, claims |-> claims] : k \in clone[c].signer}

Claims(personas) == {{}} \cup {{slug} : slug \in personas}
\* The workflow runs for a request that was opened, pushed to or reopened, and passes on
\* the first label there is then.  Labels come and go at any time and no run follows, so
\* each run is given any label or none, whatever an earlier one was given; `passed` is what
\* the last one was, if it passed.
Checked(q, label) == [q EXCEPT !.passed = IF VerifyIdentity(q, label) THEN {label} ELSE {}]

\* Pull requests are numbered as they are opened.
OpenPR(n, p, claims, label, head) ==
    LET c == Home[p]
    IN  /\ pr[n].state = "none" /\ \A m \in PRs : m < n => pr[m].state # "none"
        /\ clone[c].signer # {}
        /\ pr' = [pr EXCEPT ![n] = Checked(
             [state |-> "open", by |-> {p}, commits |-> Signed(c, claims),
              adds |-> Adds(c, head), current |-> clone[c].fresh,
              passed |-> {}, approved |-> FALSE], label)]

\* A persona's work, with what its commit and a label claim.
OpenWork(n, p, claims, label) ==
    /\ OpenPR(n, p, claims, label, clone[Home[p]].head)
    /\ UNCHANGED <<key, clone, main, account, ruleset, trusted>>

\* A later push, of the branch as it was or with main merged into it.
Push(n, p, claims, label, update) ==
    LET c == Home[p]
        q == pr[n]
    IN  /\ q.state = "open" /\ q.by = {p} /\ (update => ~q.current)
        /\ Cardinality(q.commits \cup Signed(c, claims)) <= MaxCommits[n]
        /\ pr' = [pr EXCEPT ![n] = Checked(
             [q EXCEPT !.commits = @ \cup Signed(c, claims),
                       !.adds = Files(@.signers \cup Adds(c, clone[c].head).signers,
                                      @.specs \cup Adds(c, clone[c].head).specs),
                       !.current = @ \/ update,
                       !.approved = @ /\ \A r \in ruleset : ~r.dismiss], label)]
        /\ UNCHANGED <<key, clone, main, account, ruleset, trusted>>

\* Closed and opened again.
Reopen(n, label) ==
    /\ pr[n].state = "open"
    /\ pr' = [pr EXCEPT ![n] = Checked(@, label)]
    /\ UNCHANGED <<key, clone, main, account, ruleset, trusted>>

-----------------------------------------------------------------------------
(* The runbook: `baron identity enroll`, `register` and `protect` with --apply.  The     *)
(* calls of a plan run in order and stop at the first that fails.                        *)

\* plan_enroll: nothing to do for who is enrolled at HEAD; a request line must be there.
EnrollSkips(p) == IsEnrolled(clone[Home[p]].head, Key(p, key[p]))

\* It commits the line and the persona on a branch, then pushes it and opens the request.
Enroll(n, p, label, opens) ==
    LET c    == Home[p]
        head == Files(clone[c].tree.signers,
                      clone[c].head.specs \cup (clone[c].tree.specs \cap {p}))
    IN  /\ key[p] # 0 /\ ~EnrollSkips(p) /\ IsEnrolled(clone[c].tree, Key(p, key[p]))
        /\ clone' = [clone EXCEPT ![c].head = head]
        /\ IF opens THEN OpenPR(n, p, {}, label, head) ELSE UNCHANGED pr
        /\ UNCHANGED <<key, main, account, ruleset, trusted>>

\* plan_register: the public half, unless the account has it.
Register(p) ==
    /\ key[p] # 0 /\ Key(p, key[p]) \notin account
    /\ account' = account \cup {Key(p, key[p])}
    /\ UNCHANGED <<key, clone, main, pr, ruleset, trusted>>

\* plan_protect: one ruleset, never a second.
Protect ==
    /\ ruleset = {}
    /\ ruleset' = {RulesetPayload}
    /\ trusted' = trusted \cup main.signers
                  \cup UNION {pr[n].adds.signers : n \in {m \in PRs : pr[m].approved}}
    /\ UNCHANGED <<key, clone, main, pr, account>>

-----------------------------------------------------------------------------
(* The forge and the owner. *)

\* The owner approves a request for the persona that makes it.
Approve(n) ==
    /\ pr[n].state = "open" /\ ~pr[n].approved /\ pr[n].adds.signers # {}
    /\ \A line \in pr[n].adds.signers : {line.slug} = pr[n].by
    /\ pr' = [pr EXCEPT ![n].approved = TRUE]
    /\ trusted' = trusted \cup pr[n].adds.signers
    /\ UNCHANGED <<key, clone, main, account, ruleset>>

\* Main changes: every branch and every working copy is behind it.
MainBecomes(files, requests) ==
    /\ main' = files
    /\ clone' = [c \in Clones |-> [clone[c] EXCEPT !.fresh = FALSE]]
    /\ pr' = [n \in PRs |-> [requests[n] EXCEPT !.current = FALSE]]

\* What the ruleset asks of a merge; CODEOWNERS gives the owner .barony/.
Landable(q) ==
    \A r \in ruleset :
        /\ q.passed # {}
        /\ r.strict => q.current
        /\ r.codeOwners /\ q.adds.signers # {} => q.approved
        /\ \A commit \in q.commits : commit.key \in account

Merge(n) ==
    LET q == pr[n]
    IN  /\ q.state = "open" /\ Landable(q)
        /\ MainBecomes(Files(main.signers \cup q.adds.signers, main.specs \cup q.adds.specs),
                       [pr EXCEPT ![n] = [NoPR EXCEPT !.state = "merged"]])
        /\ UNCHANGED <<key, account, ruleset, trusted>>

Revoke(line) ==
    /\ line \in main.signers
    /\ MainBecomes(Files(main.signers \ {line}, main.specs), pr)
    /\ trusted' = trusted \ {line}
    /\ UNCHANGED <<key, account, ruleset>>

Next ==
    \/ \E p \in Personas :
         \/ \E n \in GenerateKey(p), request \in BOOLEAN : IdentityInit(p, n, request)
         \/ WriteSpec(p) \/ Register(p)
         \/ \E n \in PRs, label \in Claims(Labels) :
              \/ \E claims \in Claims(Trailers) :
                   \/ OpenWork(n, p, claims, label)
                   \/ \E update \in BOOLEAN : Push(n, p, claims, label, update)
              \/ \E opens \in BOOLEAN : Enroll(n, p, label, opens)
    \/ \E c \in Clones : Sync(c)
    \/ Protect
    \/ \E n \in PRs :
         \/ Approve(n) \/ Merge(n)
         \/ \E label \in Claims(Labels) : Reopen(n, label)
    \/ \E line \in main.signers : Revoke(line)

Spec == Init /\ [][Next]_vars

-----------------------------------------------------------------------------
\* Under the ruleset every commit that lands is signed with a key that is on main, not
\* revoked, for a persona that is declared there, by a line the owner vouched for; and
\* neither its trailer claims another persona, nor the label that the workflow was given
\* when the request was last opened, pushed to or reopened.  Of several labels that is the
\* first, and one put on later is never looked at: a request may land under either.
LandsOnlyVouched ==
    [][\A n \in PRs : ruleset # {} /\ pr[n].state = "open" /\ pr'[n].state = "merged" =>
         \A commit \in pr[n].commits :
             \E line \in main'.signers \cap trusted' :
                 /\ line.key = commit.key /\ line.slug \in main'.specs
                 /\ commit.claims \cup UNION pr[n].passed \subseteq {line.slug}]_vars

=============================================================================
