--------------------------------- MODULE Guard --------------------------------
(***************************************************************************)
(* The guard (cli/src/baron/guard.py): the PreToolUse hook that decides    *)
(* each tool call of a persona by its capabilities, and the adapter for    *)
(* pydantic-ai (cli/src/baron/runtimes/pydantic_ai.py), which puts the     *)
(* same evaluators in front of the tools of an agent in its own process.   *)
(*                                                                         *)
(* A maintainer drafts the capability-rules document (CapabilityRules) and *)
(* installs it.  Then tool calls arrive, one at a time: the hook reads the *)
(* persona file for each, the adapter the persona it was hydrated with;    *)
(* the call is blocked, or let through and executed later.  Meanwhile a    *)
(* change of the persona may be merged and another process may switch the  *)
(* branch of the checkout.                                                 *)
(*                                                                         *)
(* A command is a sequence of segments, as _split_shell and shlex leave    *)
(* them: a push, a merge, a shell wrapper with its payload, a `garbled`     *)
(* wrapper whose payload shlex cannot tokenise.  A path is the sequence of *)
(* its components after normalisation.                                     *)
(***************************************************************************)
EXTENDS CapabilityRules, Sequences, SequencesExt

CONSTANTS
  Personas,     \* the contents a persona file may have
  Calls,        \* the tool calls that may arrive
  Drafts(_),   \* the documents one edit makes of a document
  Shipped,      \* the documents an installation may hold
  Repos,        \* the states a checkout may be in
  Root,         \* the components of the path of the collab repository
  MaxMerges,    \* bound: persona changes merged
  LogCanFail    \* whether appending to .baron/guard-override.log may fail

\* The documents an installation may hold are the packaged one and damaged ones, which do
\* not parse.  A checkout knows the default branch of its remote, or none.
ASSUME InstallationAssumption ==
  /\ \A d \in Shipped : Accepted(d) => d = Packaged
  /\ Repos \subseteq [branch: STRING, upstream: STRING, default: {"main", "unknown"}]

\* A persona file that load_persona accepts, or Broken.
ASSUME PersonasAssumption ==
  Personas \subseteq [broken: BOOLEAN, slug: STRING, allow: SUBSET STRING, deny: SUBSET STRING,
                     allowScopes: SUBSET Seq(STRING), denyScopes: SUBSET Seq(STRING)]

\* A command is a sequence of segments; the flags of a push are those some rule is about.
\* A path is a sequence of components.
IsCommand(cmd) ==
  /\ cmd \in Seq(ToSet(cmd))
  /\ \A seg \in ToSet(cmd) : seg.op = "push" => seg.flags \subseteq Slots
ASSUME CallsAssumption ==
  \A req \in Calls :
    /\ req.tool = "Bash" =>
         /\ IsCommand(req.command)
         /\ \A outer \in ToSet(req.command) : outer.op = "shell" =>
              /\ IsCommand(outer.body)
              /\ \A inner \in ToSet(outer.body) : inner.op = "shell" => IsCommand(inner.body)
    /\ req.tool = "Write" => req.path.parts \in Seq(STRING)
ASSUME RootAssumption == Root \in Seq(STRING)

VARIABLES
  doc,        \* the capability-rules document
  installed,  \* it is the one baron loads; drafting is over
  persona,    \* the content of the persona file
  merges,     \* how often it was changed
  hydrated,   \* the persona the adapter planned its tools for, or Broken
  repo,       \* the checkout: branch, upstream and what git knows of the default
  call        \* the last tool call and what became of it

vars == <<doc, installed, persona, merges, hydrated, repo, call>>

\* A persona file that load_persona refuses: missing, not YAML, no capabilities.
Broken == [broken |-> TRUE, slug |-> "", allow |-> {}, deny |-> {},
           allowScopes |-> {}, denyScopes |-> {}]

NoCall == [stage |-> "none", via |-> "hook", req |-> [tool |-> "Read"],
           by |-> Broken, outcome |-> "none", enforcement |-> "none",
           logged |-> FALSE, moved |-> FALSE, effects |-> {}]

-------------------------------------------------------------------------------
(***************************************************************************)
(* Commands                                                                *)
(***************************************************************************)

\* GuardPersona.grants
Grants(p, v) == v \in p.allow \ p.deny

\* What a push names when no default branch is known (fallback_branches).
Fallbacks == {"main", "master", "HEAD"}

\* The branch a refspec ends in; HEAD is the current one unless detached.
Destination(r, ref) ==
  IF ref.dst = "HEAD" /\ r.branch # "none" THEN r.branch ELSE ref.dst

\* Where a push without refspecs goes: the upstream's branch, else the current one.
BareDestination(r) == IF r.upstream # "none" THEN r.upstream ELSE r.branch

IsDefault(r, branch) ==
  IF r.default = "unknown" THEN branch \in Fallbacks ELSE branch = r.default

\* The rules that match a push.  A bare push whose target cannot be told is
\* taken to be one to the default branch.
AnalyzePush(r, seg) ==
  seg.flags
  \cup {"plus_refspec" : ref \in {q \in seg.refs : q.plus}}
  \cup {"default_branch" : ref \in {q \in seg.refs : IsDefault(r, Destination(r, q))}}
  \cup IF seg.refs = {} /\ ("unknown" = r.default \/ BareDestination(r) \in {"none", r.default})
       THEN {"default_branch"} ELSE {}

AnalyzeMerge(r) ==
  IF r.branch = "none" \/ r.default \in {"unknown", r.branch} THEN {"on_default"} ELSE {}

\* The rules one segment matches, whatever shell it stands in.
Matches(r, seg) ==
  CASE seg.op = "push" -> AnalyzePush(r, seg)
    [] seg.op = "merge" -> AnalyzeMerge(r)
    [] seg.op = "pr_merge" -> {"pr_merge"}
    [] OTHER -> {}

\* WrapperPolicy.enabled
Inspects(d) == d.wrappers.listed /\ d.wrappers.depth > 0

\* The verbs a command needs where its payloads are not looked into: the payload of a
\* wrapper stands for the verbs the wrapper policy assumes.
Outer(d, r, cmd) ==
  UNION {IF cmd[i].op \in {"shell", "garbled"} /\ Inspects(d) THEN d.wrappers.conservative
         ELSE {d.rules[s].verb : s \in Matches(r, cmd[i])} : i \in DOMAIN cmd}

\* Mutant: a payload is not opened and nothing is assumed of it.
RequiredVerbsOutside(d, r, cmd) ==
  UNION {{d.rules[s].verb : s \in Matches(r, cmd[i])} : i \in DOMAIN cmd}

\* _analyze_segments: a payload that can be tokenised is analysed like a command, down to
\* the depth of the policy (at most 1 here).
RequiredVerbs(d, r, cmd) ==
  UNION {IF cmd[i].op = "shell" /\ Inspects(d) THEN Outer(d, r, cmd[i].body)
         ELSE Outer(d, r, <<cmd[i]>>) : i \in DOMAIN cmd}

Decision(allowed, adjudicated) == [allowed |-> allowed, adjudicated |-> adjudicated]

EvaluateBash(d, r, p, cmd) ==
  LET required == RequiredVerbs(d, r, cmd)
  IN Decision(\A v \in required : Grants(p, v), required # {})

-------------------------------------------------------------------------------
(***************************************************************************)
(* Writes                                                                  *)
(***************************************************************************)

ProtectedConfigs == {<<".claude", "settings.json">>, <<".barony", "allowed_signers">>}

\* _scope_matches: a scope is a run of components anywhere in the path.
ScopeMatches(scope, parts) ==
  \E i \in 0 .. Len(parts) - Len(scope) : SubSeq(parts, i + 1, i + Len(scope)) = scope

\* What follows the first `agents` component; <<>> when there is none.
BelowSpecDir(parts) ==
  LET i == SelectInSeq(parts, LAMBDA c : c = "agents")
  IN IF i = 0 THEN <<>> ELSE SubSeq(parts, i + 1, Len(parts))

\* Inside some persona's directory: a slug and something below it.
InSpecDir(d, parts) == d.specDir /\ Len(BelowSpecDir(parts)) >= 2

\* _protected_config_refusal: the enforcement configuration, for every persona.
Protected(d, p, parts) ==
  LET below == BelowSpecDir(parts)
  IN \/ d.protect.configs /\ \E c \in ProtectedConfigs : IsSuffix(c, parts)
     \/ /\ InSpecDir(d, parts)
        /\ \/ d.protect.specFiles /\ Len(below) = 2 /\ below[2] = "persona.yaml"
           \/ d.protect.ownDir /\ p.slug # "" /\ below[1] = p.slug

\* evaluate_write: the checks in their order; the first that applies decides.
WriteChecks(d, p, path) ==
  LET parts == Root \o path.parts
      In(scopes) == \E s \in scopes : ScopeMatches(s, parts)
  IN <<[when |-> path.at = "none",            then |-> Decision(FALSE, FALSE)],
       [when |-> path.at = "outside",         then |-> Decision(FALSE, FALSE)],
       [when |-> Protected(d, p, parts),      then |-> Decision(FALSE, FALSE)],
       [when |-> Contains(parts, "_handoff"), then |-> Decision(TRUE, FALSE)],
       [when |-> InSpecDir(d, parts) /\ ~Grants(p, SpecDirVerb),
                                              then |-> Decision(FALSE, TRUE)],
       [when |-> "write_path" \in p.deny /\ In(p.denyScopes),
                                              then |-> Decision(FALSE, TRUE)],
       [when |-> Grants(p, "write_code"),     then |-> Decision(TRUE, TRUE)],
       [when |-> "write_path" \in p.allow /\ In(p.allowScopes),
                                              then |-> Decision(TRUE, TRUE)],
       [when |-> TRUE,                        then |-> Decision(FALSE, TRUE)]>>

\* Mutant: whatever is refused with a verb named counts as adjudicated.
EvaluateWriteByVerbs(d, p, path) ==
  LET checks == WriteChecks(d, p, path)
      found == checks[SelectInSeq(checks, LAMBDA c : c.when)].then
  IN [found EXCEPT !.adjudicated = @ \/ ~found.allowed]

EvaluateWrite(d, p, path) ==
  LET checks == WriteChecks(d, p, path)
  IN checks[SelectInSeq(checks, LAMBDA c : c.when)].then

\* What evaluate_bash or evaluate_write says of a call.
Evaluate(d, r, p, req) ==
  IF req.tool = "Bash" THEN EvaluateBash(d, r, p, req.command) ELSE EvaluateWrite(d, p, req.path)

-------------------------------------------------------------------------------
(***************************************************************************)
(* What a call does when it is executed                                    *)
(***************************************************************************)

\* git's side of a segment, with the default branch of the remote being main.
SegmentEffects(r, seg) ==
  CASE seg.op = "push" ->
         seg.flags \cup {"plus_refspec" : ref \in {q \in seg.refs : q.plus}}
         \cup (IF \/ \E ref \in seg.refs : Destination(r, ref) = "main"
                  \/ seg.refs = {} /\ BareDestination(r) = "main"
               THEN {"default_branch"} ELSE {})
    [] seg.op = "merge" -> IF r.branch = "main" THEN {"on_default"} ELSE {}
    [] seg.op = "pr_merge" -> {"pr_merge"}
    [] OTHER -> {}

\* A checkout follows the branch to its upstream.
OnBranch(r, b) == [r EXCEPT !.branch = b, !.upstream = IF r.upstream = "none" THEN "none" ELSE b]

\* The segments of a command with the payloads of its wrappers in their place.
Inlined(cmd) ==
  FlattenSeq([i \in DOMAIN cmd |-> IF cmd[i].op = "shell" THEN cmd[i].body ELSE <<cmd[i]>>])

\* The checkout after the first n segments: the last of them that switches it decides.
RepoAfter(r, segs, n) ==
  LET switches == {i \in 1..n : segs[i].op = "checkout"}
  IN IF switches = {} THEN r ELSE OnBranch(r, segs[Max(switches)].to)

\* The outcomes of running a command: the effects, the checkout it leaves, and whether it
\* was another one in between.  What is in a payload shlex cannot tokenise may be anything.
CommandOutcomes(r, cmd) ==
  LET segs == Inlined(Inlined(cmd))
      known == UNION {SegmentEffects(RepoAfter(r, segs, i - 1), segs[i]) : i \in DOMAIN segs}
      hidden == IF \E i \in DOMAIN segs : segs[i].op = "garbled" THEN SUBSET Slots ELSE {{}}
      moved == \E n \in 0 .. Len(segs) : RepoAfter(r, segs, n) # r
  IN {[effects |-> known \cup h, repo |-> RepoAfter(r, segs, Len(segs)), moved |-> moved] :
        h \in hidden}

WriteEffects(p, path) ==
  IF path.at = "inside" THEN {"write"} \cup (IF Protected(Packaged, p, path.parts) THEN {"policy"} ELSE {})
  ELSE {}

Outcomes(r, p, req) ==
  IF req.tool = "Bash" THEN CommandOutcomes(r, req.command)
  ELSE {[effects |-> WriteEffects(p, req.path), repo |-> r, moved |-> FALSE]}

-------------------------------------------------------------------------------
(***************************************************************************)
(* The hook: process()                                                     *)
(***************************************************************************)

Governed(req) == req.tool \in {"Bash", "Write"}

\* Whether the evaluation ends in a GuardError: no hook input, no persona, no rules.
\* evaluate_write refuses a call without a path before it loads the rules.
Fails(d, p, req) ==
  \/ req.tool = "garbage"
  \/ p.broken
  \/ ~Accepted(d) /\ ~(req.tool = "Write" /\ req.path.at = "none")

\* _enforcement_class, of a call that reached a decision or not.
EnforcementClass(d, adjudicated) ==
  CASE adjudicated -> "enforced"
    [] ~adjudicated /\ ~Accepted(d) -> "unknown"
    [] OTHER -> "unevaluated"

\* What the hook says: blocked (exit 2) or not, and the row it emits.
Verdict(d, r, p, req, override) ==
  LET failed == Fails(d, p, req)
      decision == IF failed THEN Decision(FALSE, FALSE) ELSE Evaluate(d, r, p, req)
  IN [allowed |-> decision.allowed \/ override,
      logged |-> ~decision.allowed /\ override,
      outcome |-> CASE decision.allowed -> "allow"
                    [] ~decision.allowed /\ override -> "override"
                    [] OTHER -> IF failed THEN "error" ELSE "deny",
      enforcement |-> EnforcementClass(d, decision.adjudicated)]

\* `baron rules explain`: the exit code for a call asked about beforehand.
ExplainExit(d, r, p, req) ==
  CASE ~Accepted(d) \/ p.broken -> 2
    [] Accepted(d) /\ ~p.broken -> IF Evaluate(d, r, p, req).allowed THEN 0 ELSE 1

\* The runtime passes each call to the hook; one the guard has no say in leaves no row.
\* The log is appended to before the row is emitted: when that fails the hook dies with
\* exit 1, which blocks nothing.
HookCall(req, override) ==
  LET v == Verdict(doc, repo, persona, req, override)
  IN /\ installed /\ call.stage = "none"
     /\ IF Governed(req) \/ req.tool = "garbage"
        THEN \E wrote \in IF LogCanFail /\ v.logged THEN BOOLEAN ELSE {v.logged} :
             call' = [NoCall EXCEPT !.stage = IF v.allowed THEN "running" ELSE "blocked",
                                    !.req = req, !.by = persona, !.logged = wrote,
                                    !.outcome = IF wrote = v.logged THEN v.outcome ELSE "none",
                                    !.enforcement = IF wrote = v.logged THEN v.enforcement
                                                    ELSE "none"]
        ELSE call' = [NoCall EXCEPT !.stage = "running", !.req = req, !.by = persona]
     /\ UNCHANGED <<doc, installed, persona, merges, hydrated, repo>>

-------------------------------------------------------------------------------
(***************************************************************************)
(* The adapter for pydantic-ai                                             *)
(***************************************************************************)

ShellVerbs == {"run_tests", "merge_pr", "push_main", "force_push"}

HasDevWrite(p) == Grants(p, "write_code") \/ Grants(p, SpecDirVerb)
HasWrite(p) == HasDevWrite(p) \/ "write_path" \in p.allow

\* The shell plan() gives a persona: none, one that runs test runners, or a general one.
ShellOf(p) ==
  LET granted == {v \in ShellVerbs : Grants(p, v)}
  IN CASE granted = {} -> "none"
       [] granted = {"run_tests"} /\ ~HasDevWrite(p) -> "tests"
       [] OTHER -> "general"

\* Whether the tools of the persona can be asked for the call at all: the shell rejects
\* what its lists do not allow, and a file system without a write verb is read-only.
Offered(p, req) ==
  CASE req.tool = "Bash" ->
         \/ ShellOf(p) = "general"
         \/ ShellOf(p) = "tests" /\ \A i \in DOMAIN req.command : req.command[i].op = "test"
    [] req.tool = "Write" -> HasWrite(p)
    [] OTHER -> FALSE

\* Mutant: the adapter takes a relative path as it comes, without the root.
AdapterDecisionUnrooted(d, r, p, req) ==
  IF req.tool = "Write"
  THEN EvaluateWrite(d, p, [at |-> "inside", parts |-> req.path.parts])
  ELSE Evaluate(d, r, p, req)

\* decide(): an empty path is joined to the root, and the root is what is evaluated.
AdapterDecision(d, r, p, req) ==
  IF req.tool = "Write" /\ req.path.at = "none"
  THEN EvaluateWrite(d, p, [at |-> "inside", parts |-> <<>>])
  ELSE Evaluate(d, r, p, req)

\* plan(): a persona that does not load raises, and nothing is hydrated.
Hydrate ==
  /\ installed /\ ~persona.broken
  /\ call.stage = "none"
  /\ hydrated' = persona
  /\ UNCHANGED <<doc, installed, persona, merges, repo, call>>

\* before_tool_execute: a broken rules document aborts the run of the agent.  The
\* adapter knows no override.
AdapterCall(req) ==
  /\ installed /\ call.stage = "none"
  /\ ~hydrated.broken /\ Governed(req) /\ Offered(hydrated, req)
  /\ IF Accepted(doc)
     THEN LET v == AdapterDecision(doc, repo, hydrated, req)
          IN call' = [NoCall EXCEPT !.stage = IF v.allowed THEN "running" ELSE "blocked",
                                    !.via = "adapter", !.req = req, !.by = hydrated,
                                    !.outcome = IF v.allowed THEN "allow" ELSE "deny",
                                    !.enforcement = EnforcementClass(doc, v.adjudicated)]
     ELSE call' = [NoCall EXCEPT !.stage = "blocked", !.via = "adapter", !.req = req,
                                 !.by = hydrated, !.outcome = "error",
                                 !.enforcement = "unknown"]
  /\ UNCHANGED <<doc, installed, persona, merges, hydrated, repo>>

-------------------------------------------------------------------------------
(***************************************************************************)
(* The environment                                                         *)
(***************************************************************************)

\* The runtime executes a call that was not blocked.
Run ==
  /\ call.stage = "running"
  /\ IF Governed(call.req)
     THEN \E o \in Outcomes(repo, call.by, call.req) :
          /\ repo' = o.repo
          /\ call' = [call EXCEPT !.stage = "done", !.effects = o.effects,
                                  !.moved = @ \/ o.moved]
     ELSE call' = [call EXCEPT !.stage = "done"] /\ UNCHANGED repo
  /\ UNCHANGED <<doc, installed, persona, merges, hydrated>>

\* The turn ends, and the next call may come.
Settle ==
  /\ call.stage \in {"blocked", "done"}
  /\ call' = NoCall
  /\ UNCHANGED <<doc, installed, persona, merges, hydrated, repo>>

\* What happens around the calls happens between two of them, or between the decision on
\* one and its execution.
Around == installed /\ call.stage \in {"none", "running"}

\* Another process of the working copy switches its branch.
Checkout(b) ==
  /\ Around /\ repo.branch # b
  /\ repo' = OnBranch(repo, b)
  /\ call' = [call EXCEPT !.moved = call.stage = "running"]
  /\ UNCHANGED <<doc, installed, persona, merges, hydrated>>

\* A pull request that changes the persona file is merged.
MergePersona(p) ==
  /\ Around /\ merges < MaxMerges /\ p # persona
  /\ persona' = p /\ merges' = merges + 1
  /\ UNCHANGED <<doc, installed, hydrated, repo, call>>

\* A maintainer edits the rules document, then ships it.
Edit ==
  /\ ~installed
  /\ doc' \in Drafts(doc)
  /\ UNCHANGED <<installed, persona, merges, hydrated, repo, call>>

\* The packaged document is built into an installation, where it may be damaged.
Install ==
  /\ ~installed
  /\ doc \in Shipped
  /\ installed' = TRUE
  /\ persona' \in Personas
  /\ repo' \in Repos
  /\ UNCHANGED <<doc, merges, hydrated, call>>

Init ==
  /\ doc = Packaged /\ installed = FALSE
  /\ persona = Broken /\ merges = 0 /\ hydrated = Broken
  /\ repo = [branch |-> "none", upstream |-> "none", default |-> "unknown"]
  /\ call = NoCall

Next ==
  \/ Edit
  \/ Install
  \/ \E req \in Calls, override \in BOOLEAN : HookCall(req, override)
  \/ \E req \in Calls : AdapterCall(req)
  \/ Hydrate
  \/ Run
  \/ Settle
  \/ \E b \in {"main", "topic"} : Checkout(b)
  \/ \E p \in Personas : MergePersona(p)

Spec == Init /\ [][Next]_vars

-------------------------------------------------------------------------------
(***************************************************************************)
(* Properties                                                              *)
(***************************************************************************)

\* The verb a git effect of a call needs, by the document.
Needed(effect) == doc.rules[effect].verb

\* What a persona may write at a path, whatever its place in the order of the checks.
MayWrite(p, path) ==
  LET parts == Root \o path.parts
      In(scopes) == \E s \in scopes : ScopeMatches(s, parts)
  IN \/ Contains(parts, "_handoff")
     \/ /\ InSpecDir(doc, parts) => Grants(p, SpecDirVerb)
        /\ "write_path" \in p.deny => ~In(p.denyScopes)
        /\ Grants(p, "write_code") \/ ("write_path" \in p.allow /\ In(p.allowScopes))

\* No force push, no commit on the default branch, no merged pull request, no write outside
\* the persona's reach and no change of the enforcement configuration through a tool call,
\* unless the persona that was asked for held the verb or an override was logged.  The
\* exception is a checkout that moved after the decision, in the command itself too.
GrantedOrRecorded ==
  call.stage = "done" /\ ~call.logged =>
    \A e \in call.effects :
      CASE e = "policy" -> FALSE
        [] e = "write" -> MayWrite(call.by, call.req.path)
        [] OTHER -> call.moved \/ Grants(call.by, Needed(e))

\* A persona like p in everything but its verbs: all of them, or none.
AllPowerful(p) == [p EXCEPT !.allow = Verbs, !.deny = {}, !.denyScopes = {}]
Powerless(p) == [p EXCEPT !.allow = {}, !.deny = {}, !.allowScopes = {}]

\* A row says `enforced` exactly of a call whose answer turned on the capabilities of the
\* persona: somebody else would have been answered differently (ADR-018).
EnforcedMeansDecided ==
  /\ call.via = "hook" /\ ~call.moved
  /\ call.outcome \in {"allow", "deny"} \/ call.enforcement = "enforced"
  => ((call.enforcement = "enforced") <=>
      ( /\ Governed(call.req)
        /\ Evaluate(doc, repo, AllPowerful(call.by), call.req).allowed
             # Evaluate(doc, repo, Powerless(call.by), call.req).allowed ))

\* The three seams of the evaluators say the same of a call.  The adapter answers as the
\* hook would for the persona it was hydrated with, and what `rules explain` foretells the
\* hook answers; a write without a path, refused as malformed by the hook alone and before
\* it reads the rules, apart.
SeamsAgree ==
  /\ ~call.moved /\ Governed(call.req)
  /\ call.req.tool = "Write" => call.req.path.at # "none"
  => /\ call.via = "adapter" =>
          LET v == Verdict(doc, repo, call.by, call.req, FALSE)
          IN /\ v.allowed = (call.stage \in {"running", "done"})
             /\ v.enforcement = call.enforcement
     /\ call.via = "hook" /\ call.outcome \in {"allow", "deny", "error"} =>
          ExplainExit(doc, repo, call.by, call.req)
            = CASE call.outcome = "allow" -> 0 [] call.outcome = "deny" -> 1 [] OTHER -> 2

\* The calls in which no wrapper hides a command.
PlainCalls ==
  {req \in Calls : req.tool = "Bash" =>
                     \A i \in DOMAIN req.command : req.command[i].op \notin {"shell", "garbled"}}

\* The persona with every verb of a document, and the one with just those of a set.
Holder(vs) == [broken |-> FALSE, slug |-> "x", allow |-> vs, deny |-> {},
               allowScopes |-> {<<"wiki">>}, denyScopes |-> {}]

\* Some call that is let through for a persona is refused when it lacks just the verb.
Checked(d, v) ==
  \E req \in {q \in PlainCalls : Governed(q)}, r \in Repos, vs \in {{v}, DOMAIN d.verbs} :
    /\ Evaluate(d, r, Holder(vs), req).allowed
    /\ ~Evaluate(d, r, Holder(vs \ {v}), req).allowed

\* There is a plain command that one rule alone is about, for each rule; a write in the scope
\* of Holder that nothing but the verbs of code and scopes is about; one in another's directory.
Undisputed(req) ==
  LET parts == Root \o req.path.parts
  IN /\ req.tool = "Write" /\ req.path.at = "inside"
     /\ ~Protected(Packaged, Holder({}), parts) /\ ~Contains(parts, "_handoff")
CallsTellVerbsApart ==
  /\ \A s \in Slots : \E req \in PlainCalls, r \in Repos :
       /\ req.tool = "Bash"
       /\ UNION {Matches(r, req.command[i]) : i \in DOMAIN req.command} = {s}
  /\ \E req \in Calls :
       /\ Undisputed(req) /\ ~InSpecDir(Packaged, Root \o req.path.parts)
       /\ ScopeMatches(<<"wiki">>, Root \o req.path.parts)
  /\ \E req \in Calls : Undisputed(req) /\ InSpecDir(Packaged, Root \o req.path.parts)

\* `baron rules list` says `enforced` of the verbs the guard checks and of no other, for
\* every document `validate` accepts.
LabelMeansChecked ==
  Validates(doc) /\ ~installed =>
    \A v \in Verbs : (Labels(doc)[v] = "enforced") <=> Checked(doc, v)

\* A document `baron rules diff` calls identical to the packaged one labels the verbs alike
\* and decides every call alike, as far as the call has no wrapper in it.
DiffSeesDecisions ==
  DiffExit(doc) = 0 /\ ~installed =>
    /\ Labels(doc) = Labels(Packaged)
    /\ \A req \in {q \in PlainCalls : Governed(q)}, r \in Repos, p \in Personas :
         Evaluate(doc, r, p, req) = Evaluate(Packaged, r, p, req)

===============================================================================
