------------------------------ MODULE GuardProofs -----------------------------
(***************************************************************************)
(* Theorems about the guard, for any calls, personas, checkouts, documents *)
(* and places of the repository, and about `baron doctor`, for any         *)
(* executables and matchers.                                               *)
(***************************************************************************)
EXTENDS Guard, Doctor, SequenceTheorems, WellFoundedInduction, TLAPS

-------------------------------------------------------------------------------
(***************************************************************************)
(* Doctor                                                                  *)
(***************************************************************************)

\* A report that stands is green only if the checks, asked now, would not fail.
ReportStands ==
  report = {"green"} => \E option \in {{}, {"loads"}, {"broken"}} : "FAIL" \notin ToSet(Checks(option))

\* Each check is in the report.
LEMMA ChecksInReport ==
  ASSUME NEW option, "FAIL" \notin ToSet(Checks(option))
  PROVE  /\ CheckCliOnPath # "FAIL" /\ CheckHookConfigured # "FAIL" /\ CheckHookMatcher # "FAIL"
         /\ CheckEnforcementPath # "FAIL" /\ CheckFailClosed # "FAIL" /\ CheckOverrideEnv # "FAIL"
<1> DEFINE c == Checks(option)
<1>1. /\ c[1] = CheckCliOnPath /\ c[2] = CheckHookConfigured /\ c[3] = CheckHookMatcher
      /\ c[6] = CheckEnforcementPath /\ c[7] = CheckFailClosed /\ c[8] = CheckOverrideEnv
      /\ DOMAIN c = 1..8
  BY DEF Checks
<1> HIDE DEF c
<1> QED
  BY <1>1 DEF ToSet, c

\* The probes asked the executable what a session will: it answers 2, whether the persona
\* loads or not.
LEMMA ProbedBlocks ==
  ASSUME CheckCliOnPath # "FAIL", CheckEnforcementPath # "FAIL", CheckFailClosed # "FAIL",
         NEW readable \in BOOLEAN
  PROVE  Answer(program[HookExe], readable).code = 2
<1>1. Resolved
  BY DEF CheckCliOnPath, Resolved
<1>2. Probe(TRUE).code = 2 /\ Probe(FALSE).code = 2
  BY DEF CheckEnforcementPath, CheckFailClosed
<1> QED
  BY <1>1, <1>2 DEF Probe

LEMMA GreenBlocks == ReportStands => GreenMeansBlocks
<1> SUFFICES ASSUME ReportStands, report = {"green"}, NEW tool \in GovernedTools,
                    NEW hooks, hooks = {h \in ToSet(GuardHooks) : tool \in h.matcher.found},
                    ~\E h \in ToSet(GuardHooks) : Stops(h, tool)
             PROVE  hooks # {} /\ \A h \in hooks : Unseen(h, tool)
  BY DEF GreenMeansBlocks
<1>1. PICK option \in {{}, {"loads"}, {"broken"}} : "FAIL" \notin ToSet(Checks(option))
  BY DEF ReportStands
<1>2. /\ CheckCliOnPath # "FAIL" /\ CheckHookConfigured # "FAIL" /\ CheckHookMatcher # "FAIL"
      /\ CheckEnforcementPath # "FAIL" /\ CheckFailClosed # "FAIL" /\ CheckOverrideEnv # "FAIL"
  BY <1>1, ChecksInReport
<1>3. UncoveredTools = {}
  BY <1>2 DEF CheckHookConfigured, CheckHookMatcher
<1>4. hooks # {}
  BY <1>3 DEF UncoveredTools
<1>5. ASSUME NEW h \in hooks, ~Unseen(h, tool)
      PROVE  FALSE
  <2>1. "override" \notin env
    BY <1>2 DEF CheckOverrideEnv
  <2> DEFINE readable == PersonaState(h.named) = "loads"
  <2>2. readable \in BOOLEAN
    OBVIOUS
  <2>3. Answer(program[HookExe], readable).code = 2
    BY <1>2, <2>2, ProbedBlocks
  <2>4. Stops(h, tool)
    BY <1>5, <2>1, <2>3 DEF Stops, Unseen
  <2> QED
    BY <2>4
<1> QED
  BY <1>4, <1>5

\* The checks look at nothing else than the settings, the executables, the persona and the
\* environment.
LEMMA ChecksSee ==
  ASSUME UNCHANGED <<settings, program, personaFile, rulesLoad, env>>, NEW option
  PROVE  Checks(option)' = Checks(option)
<1>1. GuardHooks' = GuardHooks
  BY DEF GuardHooks
<1>2. Wired' = Wired /\ HookExe' = HookExe /\ UncoveredTools' = UncoveredTools
  BY <1>1 DEF Wired, HookExe, UncoveredTools
<1>3. Resolved' = Resolved /\ ProbeFails' = ProbeFails
  BY <1>2 DEF Resolved, ProbeFails
<1>4. \A named : PersonaState(named)' = PersonaState(named)
  BY DEF PersonaState
<1>5. \A readable \in BOOLEAN : Probe(readable)' = Probe(readable)
  BY <1>2, <1>3 DEF Probe
<1>6. CheckCliOnPath' = CheckCliOnPath /\ CheckHookConfigured' = CheckHookConfigured
  BY <1>2, <1>3 DEF CheckCliOnPath, CheckHookConfigured
<1>7. CheckHookMatcher' = CheckHookMatcher /\ CheckOverrideEnv' = CheckOverrideEnv
  BY <1>2, <1>3 DEF CheckHookMatcher, CheckOverrideEnv
<1>8. CheckEnforcementPath' = CheckEnforcementPath /\ CheckFailClosed' = CheckFailClosed
  BY <1>3, <1>5 DEF CheckEnforcementPath, CheckFailClosed
<1>9. CheckRulesArtifact' = CheckRulesArtifact
  BY DEF CheckRulesArtifact
<1>10. CheckPersonaFile(option)' = CheckPersonaFile(option)
  BY <1>1, <1>2, <1>4 DEF CheckPersonaFile
<1> QED
  BY <1>6, <1>7, <1>8, <1>9, <1>10 DEF Checks

LEMMA ReportKept == ReportStands /\ [DoctorNext]_doctorVars => ReportStands'
<1> SUFFICES ASSUME ReportStands, [DoctorNext]_doctorVars PROVE ReportStands'
  OBVIOUS
<1>1. ASSUME NEW option \in {{}, {"loads"}, {"broken"}}, RunDoctor(option) PROVE ReportStands'
  <2>1. Checks(option)' = Checks(option)
    BY <1>1, ChecksSee DEF RunDoctor
  <2>2. report' = {"green"} => "FAIL" \notin ToSet(Checks(option))
    BY <1>1 DEF RunDoctor
  <2> QED
    BY <2>1, <2>2 DEF ReportStands, ToSet
<1>2. ASSUME report' = {} PROVE ReportStands'
  BY <1>2 DEF ReportStands
<1>3. ASSUME UNCHANGED doctorVars PROVE ReportStands'
  <2>1. \A option : Checks(option)' = Checks(option)
    BY <1>3, ChecksSee DEF doctorVars
  <2> QED
    BY <1>3, <2>1 DEF ReportStands, doctorVars, ToSet
<1> QED
  BY <1>1, <1>2, <1>3 DEF DoctorNext, CopyKit, EditSettings, DeleteSettings, InstallExe,
     ChangePersona, ChangePackage, Toggle

\* While nothing has changed since a green report of `baron doctor`, a call of a governed
\* tool that the persona is denied is stopped, but for a tool that doctor found only in
\* hooks whose matcher does not select it, whose command is not the one it probed, or whose
\* command swallows the guard's answer: for any executables and hooks (doctor.py).
THEOREM GreenMeansBlocksAlways == DoctorSpec => []GreenMeansBlocks
<1>1. DoctorInit => ReportStands
  BY DEF DoctorInit, ReportStands
<1> QED
  BY <1>1, ReportKept, GreenBlocks, PTL DEF DoctorSpec

-------------------------------------------------------------------------------
(***************************************************************************)
(* The evaluators                                                          *)
(***************************************************************************)

\* A non-empty set of naturals has a least element.
LEMMA LeastNatural ==
  ASSUME NEW S, S \subseteq Nat, S # {}
  PROVE  \E x \in S : \A y \in S : x <= y
<1> DEFINE Less == {r \in Nat \X Nat : r[1] < r[2]}
<1>1. IsWellFoundedOn(Less, Nat)
  BY NatLessThanWellFounded DEF OpToRel
<1> HIDE DEF Less
<1>2. PICK x \in S : \A y \in S : <<y, x>> \notin Less
  BY <1>1, WFMin
<1>3. \A y \in S : ~ (y < x)
  BY <1>2 DEF Less
<1> QED
  BY <1>2, <1>3

\* The first check that applies decides.
LEMMA FirstCheck ==
  ASSUME NEW c, Len(c) = 9, c[9].when
  PROVE  LET i == SelectInSeq(c, LAMBDA e : e.when)
         IN  i \in 1..9 /\ c[i].when /\ \A j \in 1..9 : c[j].when => i <= j
<1> DEFINE I == {i \in 1..Len(c) : c[i].when}
<1>1. 9 \in I /\ I \subseteq 1..9
  OBVIOUS
<1>2. I \subseteq Nat /\ I # {}
  BY <1>1
<1>3. SelectInSeq(c, LAMBDA e : e.when) = Min(I)
  BY <1>2 DEF SelectInSeq
<1> HIDE DEF I
<1>4. \E i \in I : \A j \in I : i <= j
  BY <1>2, LeastNatural, Zenon
<1>5. Min(I) \in I /\ \A j \in I : Min(I) <= j
  BY <1>4 DEF Min
<1> USE DEF I
<1> QED
  BY <1>1, <1>3, <1>5

In(scopes, parts) == \E s \in scopes : ScopeMatches(s, parts)

\* A write that no capability has a say in: malformed, outside, the enforcement configuration.
Refused(d, p, path) == path.at \in {"none", "outside"} \/ Protected(d, p, Root \o path.parts)

\* What the capabilities of a persona say of a write.
Reaches(d, p, parts) ==
  /\ InSpecDir(d, parts) => Grants(p, SpecDirVerb)
  /\ ~("write_path" \in p.deny /\ In(p.denyScopes, parts))
  /\ Grants(p, "write_code") \/ ("write_path" \in p.allow /\ In(p.allowScopes, parts))

\* The checks in their order come to this.
LEMMA WriteDecided ==
  ASSUME NEW d, NEW p, NEW path
  PROVE  LET parts == Root \o path.parts
             answer == EvaluateWrite(d, p, path)
             free == Contains(parts, "_handoff")
         IN  answer = Decision(~Refused(d, p, path) /\ (free \/ Reaches(d, p, parts)),
                               ~Refused(d, p, path) /\ ~free)
<1> DEFINE parts == Root \o path.parts
           c == WriteChecks(d, p, path)
           i == SelectInSeq(c, LAMBDA e : e.when)
           free == Contains(parts, "_handoff")
           malformed == path.at = "none"
           outside == path.at = "outside"
           special == InSpecDir(d, parts) /\ ~Grants(p, SpecDirVerb)
           denied == "write_path" \in p.deny /\ In(p.denyScopes, parts)
           code == Grants(p, "write_code")
           scoped == "write_path" \in p.allow /\ In(p.allowScopes, parts)
<1>1. c = <<[when |-> malformed,              then |-> Decision(FALSE, FALSE)],
            [when |-> outside,                then |-> Decision(FALSE, FALSE)],
            [when |-> Protected(d, p, parts), then |-> Decision(FALSE, FALSE)],
            [when |-> free,                   then |-> Decision(TRUE, FALSE)],
            [when |-> special,                then |-> Decision(FALSE, TRUE)],
            [when |-> denied,                 then |-> Decision(FALSE, TRUE)],
            [when |-> code,                   then |-> Decision(TRUE, TRUE)],
            [when |-> scoped,                 then |-> Decision(TRUE, TRUE)],
            [when |-> TRUE,                   then |-> Decision(FALSE, TRUE)]>>
  BY Zenon DEF WriteChecks, In
<1>2. Refused(d, p, path) <=> malformed \/ outside \/ Protected(d, p, parts)
  BY DEF Refused
<1>3. Reaches(d, p, parts) <=> ~special /\ ~denied /\ (code \/ scoped)
  BY DEF Reaches
<1>4. EvaluateWrite(d, p, path) = c[i].then
  BY Zenon DEF EvaluateWrite
<1>5. i \in 1..9 /\ c[i].when /\ \A j \in 1..9 : c[j].when => i <= j
  <2>1. Len(c) = 9 /\ c[9].when
    BY <1>1
  <2> HIDE DEF c
  <2> QED
    BY <2>1, FirstCheck
<1> HIDE DEF i, malformed, outside, parts, free, special, denied, code, scoped
<1>t1. (c[1].when <=> malformed) /\ c[1].then = Decision(FALSE, FALSE)
  <2>1. c[1] = [when |-> malformed, then |-> Decision(FALSE, FALSE)]
    BY <1>1
  <2> HIDE DEF c
  <2> QED
    BY <2>1
<1>t2. (c[2].when <=> outside) /\ c[2].then = Decision(FALSE, FALSE)
  <2>1. c[2] = [when |-> outside, then |-> Decision(FALSE, FALSE)]
    BY <1>1
  <2> HIDE DEF c
  <2> QED
    BY <2>1
<1>t3. (c[3].when <=> Protected(d, p, parts)) /\ c[3].then = Decision(FALSE, FALSE)
  <2>1. c[3] = [when |-> Protected(d, p, parts), then |-> Decision(FALSE, FALSE)]
    BY <1>1
  <2> HIDE DEF c
  <2> QED
    BY <2>1
<1>t4. (c[4].when <=> free) /\ c[4].then = Decision(TRUE, FALSE)
  <2>1. c[4] = [when |-> free, then |-> Decision(TRUE, FALSE)]
    BY <1>1
  <2> HIDE DEF c
  <2> QED
    BY <2>1
<1>t5. (c[5].when <=> special) /\ c[5].then = Decision(FALSE, TRUE)
  <2>1. c[5] = [when |-> special, then |-> Decision(FALSE, TRUE)]
    BY <1>1
  <2> HIDE DEF c
  <2> QED
    BY <2>1
<1>t6. (c[6].when <=> denied) /\ c[6].then = Decision(FALSE, TRUE)
  <2>1. c[6] = [when |-> denied, then |-> Decision(FALSE, TRUE)]
    BY <1>1
  <2> HIDE DEF c
  <2> QED
    BY <2>1
<1>t7. (c[7].when <=> code) /\ c[7].then = Decision(TRUE, TRUE)
  <2>1. c[7] = [when |-> code, then |-> Decision(TRUE, TRUE)]
    BY <1>1
  <2> HIDE DEF c
  <2> QED
    BY <2>1
<1>t8. (c[8].when <=> scoped) /\ c[8].then = Decision(TRUE, TRUE)
  <2>1. c[8] = [when |-> scoped, then |-> Decision(TRUE, TRUE)]
    BY <1>1
  <2> HIDE DEF c
  <2> QED
    BY <2>1
<1>t9. (c[9].when <=> TRUE) /\ c[9].then = Decision(FALSE, TRUE)
  <2>1. c[9] = [when |-> TRUE, then |-> Decision(FALSE, TRUE)]
    BY <1>1
  <2> HIDE DEF c
  <2> QED
    BY <2>1
<1> HIDE DEF c
<1>6. /\ c[1].when <=> malformed
      /\ c[2].when <=> outside
      /\ c[3].when <=> Protected(d, p, parts)
      /\ c[4].when <=> free
      /\ c[5].when <=> special
      /\ c[6].when <=> denied
      /\ c[7].when <=> code
      /\ c[8].when <=> scoped
  BY <1>t1, <1>t2, <1>t3, <1>t4, <1>t5, <1>t6, <1>t7, <1>t8
<1>7. /\ c[1].then = Decision(FALSE, FALSE)
      /\ c[2].then = Decision(FALSE, FALSE)
      /\ c[3].then = Decision(FALSE, FALSE)
      /\ c[4].then = Decision(TRUE, FALSE)
      /\ c[5].then = Decision(FALSE, TRUE)
      /\ c[6].then = Decision(FALSE, TRUE)
      /\ c[7].then = Decision(TRUE, TRUE)
      /\ c[8].then = Decision(TRUE, TRUE)
      /\ c[9].then = Decision(FALSE, TRUE)
  BY <1>t1, <1>t2, <1>t3, <1>t4, <1>t5, <1>t6, <1>t7, <1>t8, <1>t9
<1>8. CASE Refused(d, p, path)
  <2>1. i \in {1, 2, 3}
    BY <1>2, <1>5, <1>6, <1>8
  <2>2. EvaluateWrite(d, p, path) = Decision(FALSE, FALSE)
    BY <1>4, <1>7, <2>1
  <2> QED
    BY <1>8, <2>2, Zenon
<1>9. CASE ~Refused(d, p, path) /\ free
  <2>1. i = 4
    BY <1>2, <1>5, <1>6, <1>9
  <2> QED
    BY <1>4, <1>7, <1>9, <2>1 DEF Decision, parts, free
<1>10. CASE ~Refused(d, p, path) /\ ~free
  <2>1. i \in {5, 6, 9} <=> ~Reaches(d, p, parts)
    BY <1>2, <1>3, <1>5, <1>6, <1>10
  <2>2. i \in 5..9
    BY <1>2, <1>5, <1>6, <1>10
  <2>3. CASE Reaches(d, p, parts)
    <3>1. i \in {7, 8}
      BY <2>1, <2>2, <2>3
    <3>2. EvaluateWrite(d, p, path) = Decision(TRUE, TRUE)
      BY <1>4, <1>7, <3>1
    <3> QED
      BY <1>10, <2>3, <3>2, Zenon DEF parts, free
  <2>4. CASE ~Reaches(d, p, parts)
    <3>1. EvaluateWrite(d, p, path) = Decision(FALSE, TRUE)
      BY <1>4, <1>7, <2>1, <2>4
    <3> QED
      BY <1>10, <2>4, <3>1, Zenon DEF parts, free
  <2> QED
    BY <2>3, <2>4
<1> QED
  BY <1>8, <1>9, <1>10

-------------------------------------------------------------------------------
(***************************************************************************)
(* What a command does                                                     *)
(***************************************************************************)

\* FlattenSeq puts sequences end to end.
Cat(one, two) == one \o two
Flattens(f, seqs, m) == f = [i \in 1..m |-> IF i = 1 THEN seqs[i] ELSE Cat(f[i - 1], seqs[i])]

LEMMA FlattensGrows ==
  ASSUME NEW seqs, NEW m \in Nat, m # 0, NEW f, Flattens(f, seqs, m)
  PROVE  \E g : Flattens(g, seqs, m + 1)
<1> DEFINE g == [i \in 1..(m + 1) |-> IF i = m + 1 THEN Cat(f[m], seqs[i]) ELSE f[i]]
<1>1. \A i \in 1..m : g[i] = f[i] /\ f[i] = IF i = 1 THEN seqs[i] ELSE Cat(f[i - 1], seqs[i])
  BY DEF Flattens
<1>2. g[m + 1] = Cat(f[m], seqs[m + 1])
  OBVIOUS
<1>3. ASSUME NEW i \in 1..(m + 1)
      PROVE  g[i] = IF i = 1 THEN seqs[i] ELSE Cat(g[i - 1], seqs[i])
  <2>1. CASE i = m + 1
    BY <1>1, <1>2, <2>1
  <2>2. CASE i # m + 1
    <3>1. i \in 1..m /\ (i = 1 \/ i - 1 \in 1..m)
      BY <2>2
    <3> HIDE DEF g
    <3> QED
      BY <1>1, <3>1
  <2> QED
    BY <2>1, <2>2
<1>4. g = [i \in 1..(m + 1) |-> g[i]]
  OBVIOUS
<1> HIDE DEF g
<1>5. g = [i \in 1..(m + 1) |-> IF i = 1 THEN seqs[i] ELSE Cat(g[i - 1], seqs[i])]
  BY <1>3, <1>4
<1> QED
  BY <1>5 DEF Flattens

LEMMA FlattensExists ==
  ASSUME NEW seqs, NEW n \in Nat, n # 0
  PROVE  \E f : Flattens(f, seqs, n)
<1> DEFINE bad == {m \in Nat : m # 0 /\ ~\E f : Flattens(f, seqs, m)}
<1>1. SUFFICES ASSUME bad # {} PROVE FALSE
  OBVIOUS
<1>2. bad \subseteq Nat
  OBVIOUS
<1>3. PICK m \in bad : \A k \in bad : m <= k
  BY <1>1, <1>2, LeastNatural, Zenon
<1>4. CASE m = 1
  <2> DEFINE f == [i \in 1..1 |-> seqs[1]]
  <2>1. f = [i \in 1..1 |-> IF i = 1 THEN seqs[i] ELSE Cat(f[i - 1], seqs[i])]
    OBVIOUS
  <2> QED
    BY <1>4, <2>1 DEF Flattens
<1>5. CASE m # 1
  <2>1. m - 1 \in Nat /\ m - 1 # 0 /\ ~(m <= m - 1) /\ (m - 1) + 1 = m
    BY <1>5
  <2>2. m - 1 \notin bad
    BY <1>3, <2>1
  <2>3. PICK f : Flattens(f, seqs, m - 1)
    BY <2>1, <2>2
  <2>4. \E g : Flattens(g, seqs, (m - 1) + 1)
    BY <2>1, <2>3, FlattensGrows, Zenon
  <2> QED
    BY <2>1, <2>4
<1> QED
  BY <1>4, <1>5

LEMMA FlattenType ==
  ASSUME NEW S, NEW seqs \in Seq(Seq(S))
  PROVE  FlattenSeq(seqs) \in Seq(S)
<1> DEFINE n == Len(seqs)
           flatten == CHOOSE f : Flattens(f, seqs, n)
<1>1. CASE n = 0
  BY <1>1 DEF FlattenSeq
<1>2. CASE n # 0
  <2>1. FlattenSeq(seqs) = flatten[n]
    BY <1>2, Zenon DEF FlattenSeq, Flattens, Cat
  <2>2. Flattens(flatten, seqs, n)
    <3>0. n \in Nat
      OBVIOUS
    <3> HIDE DEF n
    <3>1. \E f : Flattens(f, seqs, n)
      BY <1>2, <3>0, FlattensExists, Zenon
    <3> QED
      BY <3>1, Zenon
  <2> HIDE DEF flatten
  <2> DEFINE bad == {i \in 1..n : flatten[i] \notin Seq(S)}
  <2>3. SUFFICES ASSUME bad # {} PROVE FALSE
    BY <1>2, <2>1
  <2>4. bad \subseteq Nat
    OBVIOUS
  <2>5. PICK m \in bad : \A k \in bad : m <= k
    BY <2>3, <2>4, LeastNatural, Zenon
  <2>6. flatten[m] = IF m = 1 THEN seqs[m] ELSE Cat(flatten[m - 1], seqs[m])
    BY <2>2 DEF Flattens
  <2>7. seqs[m] \in Seq(S)
    OBVIOUS
  <2>8. m # 1 => m - 1 \in 1..n /\ ~(m <= m - 1)
    OBVIOUS
  <2>9. m # 1 => flatten[m - 1] \in Seq(S)
    BY <2>5, <2>8
  <2>10. flatten[m] \in Seq(S)
    BY <2>6, <2>7, <2>9, ConcatProperties DEF Cat
  <2> QED
    BY <2>10
<1> QED
  BY <1>1, <1>2

\* What a segment does, some rule is about, where the checkout knows its default branch.
LEMMA SegmentCovered ==
  ASSUME NEW r, r.default \in {"main", "unknown"}, NEW seg
  PROVE  SegmentEffects(r, seg) \subseteq Matches(r, seg)
<1>1. CASE seg.op = "push"
  <2>1. ASSUME \E ref \in seg.refs : Destination(r, ref) = "main"
        PROVE  "default_branch" \in AnalyzePush(r, seg)
    <3>1. IsDefault(r, "main")
      BY DEF IsDefault, Fallbacks
    <3> QED
      BY <2>1, <3>1 DEF AnalyzePush
  <2>2. ASSUME seg.refs = {}, BareDestination(r) = "main"
        PROVE  "default_branch" \in AnalyzePush(r, seg)
    BY <2>2 DEF AnalyzePush
  <2> QED
    BY <1>1, <2>1, <2>2 DEF SegmentEffects, Matches, AnalyzePush
<1>2. CASE seg.op = "merge"
  BY <1>2 DEF SegmentEffects, Matches, AnalyzeMerge
<1> QED
  BY <1>1, <1>2 DEF SegmentEffects, Matches

LEMMA EffectsAreSlots ==
  ASSUME NEW r, NEW seg, seg.op = "push" => seg.flags \subseteq Slots
  PROVE  SegmentEffects(r, seg) \subseteq Slots /\ Matches(r, seg) \subseteq Slots
BY DEF SegmentEffects, Matches, AnalyzePush, AnalyzeMerge, Slots, CommandSlots

\* What the shell runs of a command: its segments, and the payloads of its wrappers.
Opened(segs) ==
  {seg \in segs : seg.op # "shell"} \cup UNION {ToSet(seg.body) : seg \in {s \in segs : s.op = "shell"}}

LEMMA InlinedType ==
  ASSUME NEW S, NEW cmd \in Seq(S),
         \A seg \in S : seg.op = "shell" => seg.body \in Seq(ToSet(seg.body))
  PROVE  Inlined(cmd) \in Seq(Opened(S))
<1> DEFINE parts == [i \in DOMAIN cmd |-> IF cmd[i].op = "shell" THEN cmd[i].body ELSE <<cmd[i]>>]
<1>1. ASSUME NEW i \in DOMAIN cmd
      PROVE  (IF cmd[i].op = "shell" THEN cmd[i].body ELSE <<cmd[i]>>) \in Seq(Opened(S))
  <2>1. cmd[i] \in S
    OBVIOUS
  <2>2. CASE cmd[i].op = "shell"
    <3>1. ToSet(cmd[i].body) \subseteq Opened(S)
      BY <2>1, <2>2 DEF Opened
    <3>2. cmd[i].body \in Seq(ToSet(cmd[i].body))
      BY <2>1, <2>2
    <3> QED
      BY <2>2, <3>1, <3>2
  <2>3. CASE cmd[i].op # "shell"
    <3>1. cmd[i] \in Opened(S)
      BY <2>1, <2>3 DEF Opened
    <3> QED
      BY <2>3, <3>1
  <2> QED
    BY <2>2, <2>3
<1>2. parts \in Seq(Seq(Opened(S)))
  <2>1. DOMAIN cmd = 1..Len(cmd) /\ Len(cmd) \in Nat
    OBVIOUS
  <2>2. parts \in [1..Len(cmd) -> Seq(Opened(S))]
    BY <1>1, <2>1
  <2> QED
    BY <2>1, <2>2
<1> QED
  BY <1>2, FlattenType DEF Inlined

\* A command as CallsAssumption has it.
Nested(cmd) ==
  /\ IsCommand(cmd)
  /\ \A outer \in ToSet(cmd) : outer.op = "shell" =>
       /\ IsCommand(outer.body)
       /\ \A inner \in ToSet(outer.body) : inner.op = "shell" => IsCommand(inner.body)

\* The packaged document assumes of a payload every verb that a rule has.
LEMMA PackagedWrappers ==
  /\ Inspects(Packaged)
  /\ \A e \in Slots : Packaged.rules[e].verb \in Packaged.wrappers.conservative
<1>1. Packaged.wrappers = [listed |-> TRUE, depth |-> 1,
                           conservative |-> {"merge_pr", "push_main", "force_push"}]
  BY DEF Packaged
<1>2. Packaged.rules = [s \in Slots |->
                  CASE s \in {"force_flags", "plus_refspec"} -> Rule("force_push", s)
                    [] s = "pr_merge" -> Rule("merge_pr", s)
                    [] OTHER -> Rule("push_main", s)]
  BY DEF Packaged
<1>3. \A e \in Slots : Packaged.rules[e].verb \in {"merge_pr", "push_main", "force_push"}
  BY <1>2 DEF Rule
<1> QED
  BY <1>1, <1>3 DEF Inspects

LEMMA OuterHas ==
  ASSUME NEW d, Inspects(d), NEW r, NEW cmd, NEW i \in DOMAIN cmd
  PROVE  /\ cmd[i].op \in {"shell", "garbled"} => d.wrappers.conservative \subseteq Outer(d, r, cmd)
         /\ \A e \in Matches(r, cmd[i]) : d.rules[e].verb \in Outer(d, r, cmd)
<1> DEFINE part(j) == IF cmd[j].op \in {"shell", "garbled"} /\ Inspects(d) THEN d.wrappers.conservative
                      ELSE {d.rules[s].verb : s \in Matches(r, cmd[j])}
<1>1. Outer(d, r, cmd) = UNION {part(j) : j \in DOMAIN cmd}
  BY DEF Outer
<1>2. part(i) \subseteq Outer(d, r, cmd)
  BY <1>1
<1>3. cmd[i].op \in {"shell", "garbled"} => Matches(r, cmd[i]) = {}
  BY DEF Matches
<1> QED
  BY <1>2, <1>3

\* What a document requires of a command covers each segment that the shell comes to run.
LEMMA OpenedRequired ==
  ASSUME NEW r, NEW cmd, Nested(cmd), NEW seg \in Opened(Opened(ToSet(cmd)))
  PROVE  /\ seg.op = "push" => seg.flags \subseteq Slots
         /\ \A e \in Matches(r, seg) : Packaged.rules[e].verb \in RequiredVerbs(Packaged, r, cmd)
         /\ seg.op = "garbled" => Packaged.wrappers.conservative \subseteq RequiredVerbs(Packaged, r, cmd)
<1> DEFINE d == Packaged
           part(i) == IF cmd[i].op = "shell" /\ Inspects(d) THEN Outer(d, r, cmd[i].body)
                      ELSE Outer(d, r, <<cmd[i]>>)
<1>1. RequiredVerbs(d, r, cmd) = UNION {part(i) : i \in DOMAIN cmd}
  BY DEF RequiredVerbs
<1>2. \A i \in DOMAIN cmd : part(i) \subseteq RequiredVerbs(d, r, cmd)
  BY <1>1
<1> HIDE DEF d
<1>3. Inspects(d) /\ \A e \in Slots : d.rules[e].verb \in d.wrappers.conservative
  BY PackagedWrappers DEF d
<1>4. CASE seg \in ToSet(cmd) /\ seg.op # "shell"
  <2>1. PICK i \in DOMAIN cmd : cmd[i] = seg
    BY <1>4 DEF ToSet
  <2> DEFINE one == <<cmd[i]>>
  <2>2. 1 \in DOMAIN one /\ one[1] = seg
    BY <2>1
  <2>3. Outer(d, r, one) \subseteq RequiredVerbs(d, r, cmd)
    BY <1>2, <1>4, <2>1
  <2> HIDE DEF one
  <2>4. seg.op = "push" => seg.flags \subseteq Slots
    BY <1>4 DEF Nested, IsCommand
  <2> QED
    BY <1>3, <2>2, <2>3, <2>4, OuterHas DEF d
<1>5. ASSUME NEW outer \in ToSet(cmd), outer.op = "shell", seg \in ToSet(outer.body), seg.op # "shell"
      PROVE  /\ seg.op = "push" => seg.flags \subseteq Slots
             /\ \A e \in Matches(r, seg) : d.rules[e].verb \in RequiredVerbs(d, r, cmd)
             /\ seg.op = "garbled" => d.wrappers.conservative \subseteq RequiredVerbs(d, r, cmd)
  <2>1. PICK i \in DOMAIN cmd : cmd[i] = outer
    BY <1>5 DEF ToSet
  <2>2. Outer(d, r, outer.body) \subseteq RequiredVerbs(d, r, cmd)
    BY <1>2, <1>3, <1>5, <2>1
  <2>3. PICK j \in DOMAIN outer.body : outer.body[j] = seg
    BY <1>5 DEF ToSet
  <2>4. seg.op = "push" => seg.flags \subseteq Slots
    BY <1>5 DEF Nested, IsCommand
  <2> QED
    BY <1>3, <2>2, <2>3, <2>4, OuterHas
<1>6. ASSUME NEW outer \in ToSet(cmd), outer.op = "shell", NEW inner \in ToSet(outer.body),
             inner.op = "shell", seg \in ToSet(inner.body)
      PROVE  /\ seg.op = "push" => seg.flags \subseteq Slots
             /\ \A e \in Matches(r, seg) : d.rules[e].verb \in RequiredVerbs(d, r, cmd)
             /\ seg.op = "garbled" => d.wrappers.conservative \subseteq RequiredVerbs(d, r, cmd)
  <2>1. PICK i \in DOMAIN cmd : cmd[i] = outer
    BY <1>6 DEF ToSet
  <2>2. Outer(d, r, outer.body) \subseteq RequiredVerbs(d, r, cmd)
    BY <1>2, <1>3, <1>6, <2>1
  <2>3. PICK j \in DOMAIN outer.body : outer.body[j] = inner
    BY <1>6 DEF ToSet
  <2>4. d.wrappers.conservative \subseteq RequiredVerbs(d, r, cmd)
    BY <1>3, <1>6, <2>2, <2>3, OuterHas
  <2>5. seg.op = "push" => seg.flags \subseteq Slots
    BY <1>6 DEF Nested, IsCommand
  <2>6. Matches(r, seg) \subseteq Slots
    BY <2>5, EffectsAreSlots
  <2> QED
    BY <1>3, <2>4, <2>5, <2>6
<1>7. \/ seg \in ToSet(cmd) /\ seg.op # "shell"
      \/ \E outer \in ToSet(cmd) : outer.op = "shell" /\ seg \in ToSet(outer.body) /\ seg.op # "shell"
      \/ \E outer \in ToSet(cmd) : outer.op = "shell" /\
           \E inner \in ToSet(outer.body) : inner.op = "shell" /\ seg \in ToSet(inner.body)
  BY DEF Opened
<1> QED
  BY <1>4, <1>5, <1>6, <1>7 DEF d

\* The segments a command comes to, and that they are a sequence.
LEMMA RunsOpened ==
  ASSUME NEW cmd, Nested(cmd)
  PROVE  Inlined(Inlined(cmd)) \in Seq(Opened(Opened(ToSet(cmd))))
<1>1. cmd \in Seq(ToSet(cmd)) /\ \A seg \in ToSet(cmd) : seg.op = "shell" => seg.body \in Seq(ToSet(seg.body))
  BY DEF Nested, IsCommand
<1>2. Inlined(cmd) \in Seq(Opened(ToSet(cmd)))
  BY <1>1, InlinedType
<1>3. \A seg \in Opened(ToSet(cmd)) : seg.op = "shell" => seg.body \in Seq(ToSet(seg.body))
  BY DEF Nested, IsCommand, Opened
<1> QED
  BY <1>2, <1>3, InlinedType

\* What a checkout is before a command, none of whose segments moves it, is what it was.
LEMMA CommandCovered ==
  ASSUME NEW r, r.default \in {"main", "unknown"}, NEW cmd, Nested(cmd),
         NEW o \in CommandOutcomes(r, cmd)
  PROVE  /\ o.effects \subseteq Slots
         /\ ~o.moved => \A e \in o.effects : Packaged.rules[e].verb \in RequiredVerbs(Packaged, r, cmd)
         /\ ~o.moved => o.repo = r
         /\ o.moved \in BOOLEAN
<1> DEFINE segs == Inlined(Inlined(cmd))
           all == Opened(Opened(ToSet(cmd)))
           known == UNION {SegmentEffects(RepoAfter(r, segs, i - 1), segs[i]) : i \in DOMAIN segs}
           hidden == IF \E i \in DOMAIN segs : segs[i].op = "garbled" THEN SUBSET Slots ELSE {{}}
           moved == \E n \in 0 .. Len(segs) : RepoAfter(r, segs, n) # r
<1>1. PICK h \in hidden : o = [effects |-> known \cup h, repo |-> RepoAfter(r, segs, Len(segs)),
                               moved |-> moved]
  BY DEF CommandOutcomes
<1>2. segs \in Seq(all)
  BY RunsOpened
<1>3. \A i \in DOMAIN segs : segs[i] \in all
  BY <1>2
<1>4. o.effects = known \cup h /\ o.repo = RepoAfter(r, segs, Len(segs)) /\ (o.moved <=> moved) /\ o.moved \in BOOLEAN
  <2>1. moved \in BOOLEAN
    OBVIOUS
  <2> HIDE DEF known, moved
  <2>2. o.effects = known \cup h /\ o.repo = RepoAfter(r, segs, Len(segs)) /\ o.moved = moved
    BY <1>1
  <2> QED
    BY <2>1, <2>2
<1>5. ASSUME NEW e \in known
      PROVE  e \in Slots /\ (~moved => Packaged.rules[e].verb \in RequiredVerbs(Packaged, r, cmd))
  <2>1. PICK i \in DOMAIN segs : e \in SegmentEffects(RepoAfter(r, segs, i - 1), segs[i])
    OBVIOUS
  <2>2. segs[i] \in all
    BY <1>3
  <2>3. segs[i].op = "push" => segs[i].flags \subseteq Slots
    BY <2>2, OpenedRequired
  <2>4. e \in Slots
    BY <2>1, <2>3, EffectsAreSlots
  <2>5. ASSUME ~moved PROVE Packaged.rules[e].verb \in RequiredVerbs(Packaged, r, cmd)
    <3>1. i - 1 \in 0..Len(segs)
      BY <1>2
    <3>2. RepoAfter(r, segs, i - 1) = r
      BY <2>5, <3>1
    <3>3. e \in Matches(r, segs[i])
      BY <2>1, <3>2, SegmentCovered
    <3> QED
      BY <2>2, <3>3, OpenedRequired
  <2> QED
    BY <2>4, <2>5
<1>6. ASSUME NEW e \in h
      PROVE  e \in Slots /\ Packaged.rules[e].verb \in RequiredVerbs(Packaged, r, cmd)
  <2>1. PICK i \in DOMAIN segs : segs[i].op = "garbled"
    BY <1>6
  <2>2. e \in Slots
    BY <2>1
  <2>3. Packaged.wrappers.conservative \subseteq RequiredVerbs(Packaged, r, cmd)
    BY <1>3, <2>1, OpenedRequired
  <2> QED
    BY <2>2, <2>3, PackagedWrappers
<1>7. ~moved => o.repo = r
  <2>1. Len(segs) \in 0..Len(segs)
    BY <1>2
  <2> QED
    BY <1>4, <2>1
<1> HIDE DEF known, hidden, moved
<1> QED
  BY <1>4, <1>5, <1>6, <1>7

-------------------------------------------------------------------------------
(***************************************************************************)
(* The answers                                                             *)
(***************************************************************************)

LEMMA DecisionFields ==
  ASSUME NEW a \in BOOLEAN, NEW b \in BOOLEAN
  PROVE  Decision(a, b).allowed = a /\ Decision(a, b).adjudicated = b
BY DEF Decision

\* The answer to a write, field by field.
LEMMA WriteFields ==
  ASSUME NEW d, NEW p, NEW path
  PROVE  LET parts == Root \o path.parts
             answer == EvaluateWrite(d, p, path)
             free == Contains(parts, "_handoff")
         IN  /\ answer.allowed <=> ~Refused(d, p, path) /\ (free \/ Reaches(d, p, parts))
             /\ answer.adjudicated <=> ~Refused(d, p, path) /\ ~free
             /\ answer.allowed \in BOOLEAN /\ answer.adjudicated \in BOOLEAN
<1> DEFINE parts == Root \o path.parts
           free == Contains(parts, "_handoff")
           a == ~Refused(d, p, path) /\ (free \/ Reaches(d, p, parts))
           b == ~Refused(d, p, path) /\ ~free
<1>1. a \in BOOLEAN /\ b \in BOOLEAN
  OBVIOUS
<1>2. EvaluateWrite(d, p, path) = Decision(a, b)
  BY WriteDecided, Zenon
<1> HIDE DEF a, b
<1>3. EvaluateWrite(d, p, path).allowed = a /\ EvaluateWrite(d, p, path).adjudicated = b
  BY <1>1, <1>2, DecisionFields
<1> QED
  BY <1>1, <1>3 DEF a, b

LEMMA BashFields ==
  ASSUME NEW d, NEW r, NEW p, NEW cmd
  PROVE  LET answer == EvaluateBash(d, r, p, cmd)
             required == RequiredVerbs(d, r, cmd)
         IN  /\ answer.allowed <=> \A v \in required : Grants(p, v)
             /\ answer.adjudicated <=> required # {}
             /\ answer.allowed \in BOOLEAN /\ answer.adjudicated \in BOOLEAN
<1> DEFINE required == RequiredVerbs(d, r, cmd)
           a == \A v \in required : Grants(p, v)
           b == required # {}
<1>1. a \in BOOLEAN /\ b \in BOOLEAN
  OBVIOUS
<1>2. EvaluateBash(d, r, p, cmd) = Decision(a, b)
  BY Zenon DEF EvaluateBash
<1> HIDE DEF a, b
<1>3. EvaluateBash(d, r, p, cmd).allowed = a /\ EvaluateBash(d, r, p, cmd).adjudicated = b
  BY <1>1, <1>2, DecisionFields
<1> QED
  BY <1>1, <1>3 DEF a, b

LEMMA EvaluateType ==
  ASSUME NEW d, NEW r, NEW p, NEW req
  PROVE  Evaluate(d, r, p, req).allowed \in BOOLEAN /\ Evaluate(d, r, p, req).adjudicated \in BOOLEAN
BY BashFields, WriteFields DEF Evaluate

\* What process() comes to of a call: no decision where it fails.
Judged(d, r, p, req) == IF Fails(d, p, req) THEN Decision(FALSE, FALSE) ELSE Evaluate(d, r, p, req)

LEMMA JudgedType ==
  ASSUME NEW d, NEW r, NEW p, NEW req
  PROVE  Judged(d, r, p, req).allowed \in BOOLEAN /\ Judged(d, r, p, req).adjudicated \in BOOLEAN
BY EvaluateType, DecisionFields DEF Judged

LEMMA VerdictFields ==
  ASSUME NEW d, NEW r, NEW p, NEW req, NEW override \in BOOLEAN
  PROVE  LET v == Verdict(d, r, p, req, override)
             j == Judged(d, r, p, req)
         IN  /\ v.allowed \in BOOLEAN /\ (v.allowed <=> j.allowed \/ override)
             /\ v.logged \in BOOLEAN /\ (v.logged <=> ~j.allowed /\ override)
             /\ v.outcome = IF j.allowed THEN "allow" ELSE IF override THEN "override"
                            ELSE IF Fails(d, p, req) THEN "error" ELSE "deny"
             /\ v.enforcement = EnforcementClass(d, j.adjudicated)
<1> DEFINE j == Judged(d, r, p, req)
           allowed == j.allowed \/ override
           logged == ~j.allowed /\ override
           outcome == CASE j.allowed -> "allow"
                        [] ~j.allowed /\ override -> "override"
                        [] OTHER -> IF Fails(d, p, req) THEN "error" ELSE "deny"
           enforcement == EnforcementClass(d, j.adjudicated)
<1>1. Verdict(d, r, p, req, override) = [allowed |-> allowed, logged |-> logged, outcome |-> outcome,
                                         enforcement |-> enforcement]
  BY Zenon DEF Verdict, Judged
<1>2. j.allowed \in BOOLEAN
  BY JudgedType
<1>3. allowed \in BOOLEAN /\ logged \in BOOLEAN
  OBVIOUS
<1>4. outcome = IF j.allowed THEN "allow" ELSE IF override THEN "override"
                ELSE IF Fails(d, p, req) THEN "error" ELSE "deny"
  BY <1>2
<1> HIDE DEF allowed, logged, outcome, enforcement
<1>5. /\ Verdict(d, r, p, req, override).allowed = allowed
      /\ Verdict(d, r, p, req, override).logged = logged
      /\ Verdict(d, r, p, req, override).outcome = outcome
      /\ Verdict(d, r, p, req, override).enforcement = enforcement
  BY <1>1
<1> QED
  BY <1>3, <1>4, <1>5 DEF allowed, logged, enforcement

LEMMA Classes3 ==
  ASSUME NEW d, NEW adjudicated \in BOOLEAN
  PROVE  EnforcementClass(d, adjudicated)
           = IF adjudicated THEN "enforced" ELSE IF Accepted(d) THEN "unevaluated" ELSE "unknown"
BY DEF EnforcementClass

PersonaSet == [broken: BOOLEAN, slug: STRING \cup {""}, allow: SUBSET STRING, deny: SUBSET STRING,
               allowScopes: SUBSET Seq(STRING), denyScopes: SUBSET Seq(STRING)]
AnyPersona == Personas \cup {Broken}

LEMMA PersonaType == AnyPersona \subseteq PersonaSet
<1>1. Broken \in PersonaSet
  BY DEF Broken, PersonaSet
<1> QED
  BY <1>1, PersonasAssumption DEF AnyPersona, PersonaSet

\* The packaged document asks for frozen verbs only.
LEMMA RequiredAreVerbs ==
  ASSUME NEW r, NEW cmd, Nested(cmd)
  PROVE  RequiredVerbs(Packaged, r, cmd) \subseteq Verbs
<1> DEFINE d == Packaged
<1>1. /\ d.wrappers.conservative \subseteq Verbs
      /\ \A e \in Slots : d.rules[e].verb \in Verbs
  <2>1. d.wrappers.conservative = {"merge_pr", "push_main", "force_push"}
    BY DEF Packaged
  <2> QED
    BY <2>1, PackagedWrappers DEF Verbs
<1> HIDE DEF d
<1>2. ASSUME NEW segs, IsCommand(segs) PROVE Outer(d, r, segs) \subseteq Verbs
  <2>1. ASSUME NEW i \in DOMAIN segs PROVE Matches(r, segs[i]) \subseteq Slots
    <3>1. segs[i] \in ToSet(segs)
      BY DEF ToSet
    <3>2. segs[i].op = "push" => segs[i].flags \subseteq Slots
      BY <1>2, <3>1 DEF IsCommand
    <3> QED
      BY <3>2, EffectsAreSlots
  <2> QED
    BY <1>1, <2>1 DEF Outer
<1>3. ASSUME NEW i \in DOMAIN cmd
      PROVE  (IF cmd[i].op = "shell" /\ Inspects(d) THEN Outer(d, r, cmd[i].body)
              ELSE Outer(d, r, <<cmd[i]>>)) \subseteq Verbs
  <2>1. cmd[i] \in ToSet(cmd)
    BY DEF ToSet
  <2>2. CASE cmd[i].op = "shell" /\ Inspects(d)
    BY <1>2, <2>1, <2>2 DEF Nested
  <2>3. CASE ~(cmd[i].op = "shell" /\ Inspects(d))
    <3> DEFINE one == <<cmd[i]>>
    <3>1. one \in Seq(ToSet(one)) /\ \A seg \in ToSet(one) : seg = cmd[i]
      BY DEF ToSet
    <3>2. IsCommand(one)
      BY <2>1, <3>1 DEF IsCommand, Nested
    <3> QED
      BY <1>2, <2>3, <3>2
  <2> QED
    BY <2>2, <2>3
<1> QED
  BY <1>3 DEF RequiredVerbs, d

\* What is adjudicated is what somebody with other verbs would be answered otherwise.
LEMMA PowerDecides ==
  ASSUME NEW d, NEW r, NEW p \in PersonaSet, NEW req,
         req.tool = "Bash" => d = Packaged /\ Nested(req.command)
  PROVE  Evaluate(d, r, p, req).adjudicated
           <=> Evaluate(d, r, AllPowerful(p), req).allowed # Evaluate(d, r, Powerless(p), req).allowed
<1> DEFINE all == AllPowerful(p)
           none == Powerless(p)
<1>1. /\ all.allow = Verbs /\ all.deny = {} /\ all.slug = p.slug
      /\ none.allow = {} /\ none.deny = {} /\ none.slug = p.slug
  BY DEF AllPowerful, Powerless, PersonaSet
<1> HIDE DEF all, none
<1>2. \A v \in Verbs : Grants(all, v) /\ ~Grants(none, v)
  BY <1>1 DEF Grants
<1>3. CASE req.tool = "Bash"
  <2> DEFINE required == RequiredVerbs(d, r, req.command)
  <2>1. required \subseteq Verbs
    BY <1>3, RequiredAreVerbs
  <2> HIDE DEF required
  <2>2. EvaluateBash(d, r, all, req.command).allowed
    BY <1>2, <2>1, BashFields DEF required
  <2>3. EvaluateBash(d, r, none, req.command).allowed <=> required = {}
    BY <1>2, <2>1, BashFields DEF required
  <2>4. EvaluateBash(d, r, p, req.command).adjudicated <=> required # {}
    BY BashFields DEF required
  <2>5. EvaluateBash(d, r, all, req.command).allowed \in BOOLEAN
        /\ EvaluateBash(d, r, none, req.command).allowed \in BOOLEAN
    BY BashFields
  <2> QED
    BY <1>3, <2>2, <2>3, <2>4, <2>5 DEF Evaluate, all, none
<1>4. CASE req.tool # "Bash"
  <2> DEFINE path == req.path
             parts == Root \o path.parts
             free == Contains(parts, "_handoff")
  <2>1. \A q : q.slug = p.slug => (Refused(d, q, path) <=> Refused(d, p, path))
    BY DEF Refused, Protected
  <2>2. Refused(d, all, path) <=> Refused(d, p, path)
    BY <1>1, <2>1
  <2>3. Refused(d, none, path) <=> Refused(d, p, path)
    BY <1>1, <2>1
  <2>4. Reaches(d, all, parts) /\ ~Reaches(d, none, parts)
    BY <1>1, <1>2 DEF Reaches, Verbs, SpecDirVerb
  <2> HIDE DEF path, parts, free
  <2>5. EvaluateWrite(d, all, path).allowed <=> ~Refused(d, p, path)
    BY <2>2, <2>4, WriteFields DEF parts
  <2>6. EvaluateWrite(d, none, path).allowed <=> ~Refused(d, p, path) /\ free
    BY <2>3, <2>4, WriteFields DEF parts, free
  <2>7. EvaluateWrite(d, p, path).adjudicated <=> ~Refused(d, p, path) /\ ~free
    BY WriteFields DEF parts, free
  <2>8. EvaluateWrite(d, all, path).allowed \in BOOLEAN /\ EvaluateWrite(d, none, path).allowed \in BOOLEAN
    BY WriteFields
  <2> QED
    BY <1>4, <2>5, <2>6, <2>7, <2>8 DEF Evaluate, all, none, path
<1> QED
  BY <1>3, <1>4

-------------------------------------------------------------------------------
(***************************************************************************)
(* The session                                                             *)
(***************************************************************************)

\* What a checkout is, wherever its branch has been switched to.
RepoOK(r) ==
  /\ "default" \in DOMAIN r
  /\ r.default \in {"main", "unknown"}

CallOutcomes == {"none", "allow", "override", "error", "deny"}
CallClasses == {"none", "enforced", "unevaluated", "unknown"}
CallSet ==
  [stage: {"none", "running", "blocked", "done"}, via: {"hook", "adapter"},
   req: Calls \cup {NoCall.req}, by: AnyPersona, outcome: CallOutcomes, enforcement: CallClasses,
   logged: BOOLEAN, moved: BOOLEAN, effects: SUBSET (Slots \cup {"write", "policy"})]

SessionOK ==
  /\ installed => doc \in Shipped
  /\ ~installed => call = NoCall
  /\ persona \in AnyPersona /\ hydrated \in AnyPersona
  /\ RepoOK(repo)
  /\ call \in CallSet
  /\ call.stage = "none" => call = NoCall
  /\ call.stage # "done" => call.effects = {}

\* While nothing has moved the checkout, asking again gives the answer that was given.
AnswerStands ==
  call.stage # "none" /\ ~call.moved =>
    /\ call.via = "hook" =>
         \/ call.outcome = "none" /\ call.enforcement = "none"
         \/ \E override \in BOOLEAN :
              LET v == Verdict(doc, repo, call.by, call.req, override)
              IN  /\ call.outcome = v.outcome /\ call.enforcement = v.enforcement
                  /\ Governed(call.req) \/ call.req.tool = "garbage"
    /\ call.via = "adapter" =>
         LET v == AdapterDecision(doc, repo, call.by, call.req)
         IN  /\ ~call.by.broken
             /\ IF Accepted(doc)
                THEN /\ (call.stage \in {"running", "done"}) <=> v.allowed
                     /\ call.enforcement = EnforcementClass(doc, v.adjudicated)
                ELSE call.stage = "blocked" /\ call.enforcement = "unknown"

\* What is let through without a line in the log, the persona it was asked for may do: of a
\* write whatever happens, of a command while nothing has moved the checkout.
LetThrough ==
  ~LogCanFail /\ call.stage \in {"running", "done"} /\ ~call.logged /\ Governed(call.req) =>
    /\ Accepted(doc)
    /\ call.req.tool = "Write" /\ call.req.path.at # "none" =>
         EvaluateWrite(doc, call.by, call.req.path).allowed
    /\ call.req.tool = "Bash" /\ ~call.moved =>
         EvaluateBash(doc, repo, call.by, call.req.command).allowed

SessionInv == SessionOK /\ AnswerStands /\ LetThrough

LEMMA NoCallFields ==
  /\ NoCall \in CallSet
  /\ NoCall.stage = "none" /\ NoCall.effects = {} /\ ~NoCall.moved /\ ~NoCall.logged
  /\ NoCall.via = "hook" /\ NoCall.outcome = "none" /\ NoCall.enforcement = "none"
<1>1. Broken \in AnyPersona
  BY DEF AnyPersona
<1> QED
  BY <1>1 DEF NoCall, CallSet, CallOutcomes, CallClasses

LEMMA ReqNested == ASSUME NEW req \in Calls \cup {NoCall.req}, req.tool = "Bash" PROVE Nested(req.command)
  BY CallsAssumption DEF NoCall, Nested

LEMMA SwitchedOK == ASSUME NEW r, RepoOK(r), NEW b PROVE RepoOK(OnBranch(r, b))
  BY DEF RepoOK, OnBranch

LEMMA AfterOK == ASSUME NEW r, RepoOK(r), NEW segs, NEW n PROVE RepoOK(RepoAfter(r, segs, n))
  BY SwitchedOK DEF RepoAfter

\* A state without a call satisfies all that is said of a call.
LEMMA IdleHolds == ASSUME call = NoCall PROVE AnswerStands /\ LetThrough /\ GrantedOrRecorded
  BY NoCallFields DEF AnswerStands, LetThrough, GrantedOrRecorded

LEMMA InitSession == Init => SessionInv
<1> SUFFICES ASSUME Init PROVE SessionInv
  OBVIOUS
<1>1. Broken \in AnyPersona
  BY DEF AnyPersona
<1>2. RepoOK(repo)
  BY DEF Init, RepoOK
<1> QED
  BY <1>1, <1>2, NoCallFields, IdleHolds DEF Init, SessionInv, SessionOK

\* The properties of the answer that stands.
LEMMA StandsEnforced == SessionOK /\ AnswerStands => EnforcedMeansDecided
<1> SUFFICES ASSUME SessionOK, AnswerStands, call.via = "hook", ~call.moved,
                    call.outcome \in {"allow", "deny"} \/ call.enforcement = "enforced"
             PROVE  (call.enforcement = "enforced") <=>
                      ( /\ Governed(call.req)
                        /\ Evaluate(doc, repo, AllPowerful(call.by), call.req).allowed
                             # Evaluate(doc, repo, Powerless(call.by), call.req).allowed )
  BY DEF EnforcedMeansDecided
<1> DEFINE j == Judged(doc, repo, call.by, call.req)
<1>1. call.stage # "none"
  BY NoCallFields DEF SessionOK
<1>2. PICK override \in BOOLEAN :
        /\ call.outcome = Verdict(doc, repo, call.by, call.req, override).outcome
        /\ call.enforcement = Verdict(doc, repo, call.by, call.req, override).enforcement
        /\ Governed(call.req) \/ call.req.tool = "garbage"
  BY <1>1 DEF AnswerStands
<1>3. call.enforcement = "enforced" <=> j.adjudicated
  BY <1>2, VerdictFields, Classes3, JudgedType
<1>4. ~Fails(doc, call.by, call.req)
  <2> SUFFICES ASSUME Fails(doc, call.by, call.req) PROVE FALSE
    OBVIOUS
  <2>1. ~j.allowed /\ ~j.adjudicated
    BY DecisionFields DEF Judged
  <2> QED
    BY <1>2, <1>3, <2>1, VerdictFields
<1>5. j = Evaluate(doc, repo, call.by, call.req) /\ Governed(call.req)
  BY <1>2, <1>4 DEF Judged, Fails
<1>6. call.by \in PersonaSet /\ call.req \in Calls \cup {NoCall.req}
  BY PersonaType DEF SessionOK, CallSet
<1>7. call.req.tool = "Bash" => doc = Packaged /\ Nested(call.req.command)
  <2> SUFFICES ASSUME call.req.tool = "Bash" PROVE doc = Packaged /\ Nested(call.req.command)
    OBVIOUS
  <2>1. Accepted(doc)
    BY <1>4 DEF Fails
  <2>2. installed
    BY <1>1, NoCallFields DEF SessionOK
  <2> QED
    BY <1>6, <2>1, <2>2, InstallationAssumption, ReqNested DEF SessionOK
<1> QED
  BY <1>3, <1>5, <1>6, <1>7, PowerDecides

LEMMA StandsAgree == SessionOK /\ AnswerStands => SeamsAgree
<1> SUFFICES ASSUME SessionOK, AnswerStands, ~call.moved, Governed(call.req),
                    call.req.tool = "Write" => call.req.path.at # "none"
             PROVE  /\ call.via = "adapter" =>
                         LET v == Verdict(doc, repo, call.by, call.req, FALSE)
                         IN /\ v.allowed = (call.stage \in {"running", "done"})
                            /\ v.enforcement = call.enforcement
                    /\ call.via = "hook" /\ call.outcome \in {"allow", "deny", "error"} =>
                         ExplainExit(doc, repo, call.by, call.req)
                           = CASE call.outcome = "allow" -> 0 [] call.outcome = "deny" -> 1 [] OTHER -> 2
  BY DEF SeamsAgree
<1> DEFINE j == Judged(doc, repo, call.by, call.req)
           answer == Evaluate(doc, repo, call.by, call.req)
<1>1. Fails(doc, call.by, call.req) <=> call.by.broken \/ ~Accepted(doc)
  BY DEF Fails, Governed
<1>2. /\ call.by.broken \/ ~Accepted(doc) => ~j.allowed /\ ~j.adjudicated
      /\ ~call.by.broken /\ Accepted(doc) => j = answer
  BY <1>1, DecisionFields DEF Judged
<1>3. j.allowed \in BOOLEAN /\ j.adjudicated \in BOOLEAN
  BY JudgedType
<1>4. ASSUME call.via = "adapter"
      PROVE  LET v == Verdict(doc, repo, call.by, call.req, FALSE)
             IN /\ v.allowed = (call.stage \in {"running", "done"})
                /\ v.enforcement = call.enforcement
  <2>1. call.stage # "none"
    BY <1>4, NoCallFields DEF SessionOK
  <2>2. AdapterDecision(doc, repo, call.by, call.req) = answer
    BY DEF AdapterDecision
  <2>3. /\ ~call.by.broken
        /\ Accepted(doc) => /\ (call.stage \in {"running", "done"}) <=> answer.allowed
                            /\ call.enforcement = EnforcementClass(doc, answer.adjudicated)
        /\ ~Accepted(doc) => call.stage = "blocked" /\ call.enforcement = "unknown"
    BY <1>4, <2>1, <2>2 DEF AnswerStands
  <2> DEFINE v == Verdict(doc, repo, call.by, call.req, FALSE)
  <2>4. v.allowed \in BOOLEAN /\ (v.allowed <=> j.allowed) /\ v.enforcement = EnforcementClass(doc, j.adjudicated)
    <3>1. PICK no \in BOOLEAN : no = FALSE
      OBVIOUS
    <3> DEFINE w == Verdict(doc, repo, call.by, call.req, no)
    <3>2. w.allowed \in BOOLEAN /\ (w.allowed <=> j.allowed \/ no)
          /\ w.enforcement = EnforcementClass(doc, j.adjudicated)
      BY VerdictFields
    <3>3. w = v
      BY <3>1
    <3> HIDE DEF w, v
    <3> QED
      BY <3>1, <3>2, <3>3
  <2> HIDE DEF v, j, answer
  <2>5. v.allowed <=> call.stage \in {"running", "done"}
    BY <1>2, <2>3, <2>4
  <2>6. v.enforcement = call.enforcement
    BY <1>2, <1>3, <2>3, <2>4, Classes3
  <2> DEFINE live == call.stage \in {"running", "done"}
  <2>7. live \in BOOLEAN
    OBVIOUS
  <2> HIDE DEF live
  <2>8. v.allowed = live
    BY <2>4, <2>5, <2>7 DEF live
  <2> QED
    BY <2>6, <2>8, Zenon DEF v, live
<1>5. ASSUME call.via = "hook", call.outcome \in {"allow", "deny", "error"}
      PROVE  ExplainExit(doc, repo, call.by, call.req)
               = CASE call.outcome = "allow" -> 0 [] call.outcome = "deny" -> 1 [] OTHER -> 2
  <2>1. call.stage # "none"
    BY <1>5, NoCallFields DEF SessionOK
  <2>2. PICK override \in BOOLEAN :
          call.outcome = Verdict(doc, repo, call.by, call.req, override).outcome
    BY <1>5, <2>1 DEF AnswerStands
  <2>3. call.outcome = IF j.allowed THEN "allow" ELSE IF override THEN "override"
                       ELSE IF Fails(doc, call.by, call.req) THEN "error" ELSE "deny"
    BY <2>2, VerdictFields
  <2>4. CASE call.by.broken \/ ~Accepted(doc)
    <3>1. call.outcome = "error"
      BY <1>1, <1>2, <1>5, <2>3, <2>4
    <3> QED
      BY <2>4, <3>1 DEF ExplainExit
  <2>5. CASE ~call.by.broken /\ Accepted(doc)
    <3>1. call.outcome = IF answer.allowed THEN "allow" ELSE "deny"
      BY <1>1, <1>2, <1>5, <2>3, <2>5
    <3>2. ExplainExit(doc, repo, call.by, call.req) = IF answer.allowed THEN 0 ELSE 1
      BY <2>5 DEF ExplainExit
    <3> QED
      BY <3>1, <3>2
  <2> QED
    BY <2>4, <2>5
<1> QED
  BY <1>4, <1>5

-------------------------------------------------------------------------------
(***************************************************************************)
(* What a write does                                                       *)
(***************************************************************************)

\* The components of the path of the repository do not hide those below them.
LEMMA BelowRooted ==
  ASSUME "agents" \notin ToSet(Root), NEW parts \in Seq(STRING)
  PROVE  BelowSpecDir(Root \o parts) = BelowSpecDir(parts)
<1> DEFINE n == Len(Root)
           m == Len(parts)
           whole == Root \o parts
           I == {i \in 1..m : parts[i] = "agents"}
           J == {j \in 1..Len(whole) : whole[j] = "agents"}
<1>1. n \in Nat /\ m \in Nat /\ Len(whole) = n + m
  BY RootAssumption
<1>2. /\ \A j \in 1..n : whole[j] = Root[j] /\ Root[j] # "agents"
      /\ \A i \in 1..m : whole[n + i] = parts[i]
  BY RootAssumption DEF ToSet
<1>3. whole \in Seq(STRING)
  BY RootAssumption
<1> HIDE DEF whole, n, m
<1>4. /\ I \subseteq 1..m /\ I \subseteq Nat
      /\ \A j : j \in J <=> j - n \in I /\ j \in Int
      /\ J \subseteq Nat
  <2>1. ASSUME NEW j, j \in J PROVE j - n \in I /\ j \in Int
    <3>1. j \in (n + 1)..(n + m)
      BY <1>1, <1>2, <2>1
    <3>2. j = n + (j - n) /\ j - n \in 1..m
      BY <1>1, <3>1
    <3> QED
      BY <1>2, <2>1, <3>2
  <2>2. ASSUME NEW j \in Int, j - n \in I PROVE j \in J
    <3>1. j = n + (j - n) /\ j \in 1..(n + m)
      BY <1>1, <2>2
    <3> QED
      BY <1>1, <1>2, <2>2, <3>1
  <2> QED
    BY <2>1, <2>2
<1>5. /\ SelectInSeq(parts, LAMBDA c : c = "agents") = IF I # {} THEN Min(I) ELSE 0
      /\ SelectInSeq(whole, LAMBDA c : c = "agents") = IF J # {} THEN Min(J) ELSE 0
  BY DEF SelectInSeq, m
<1> HIDE DEF I, J
<1>6. CASE I = {}
  <2>1. J = {}
    BY <1>4, <1>6
  <2> QED
    BY <1>5, <1>6, <2>1 DEF BelowSpecDir, whole
<1>7. CASE I # {}
  <2>1. PICK a \in I : \A i \in I : a <= i
    BY <1>4, <1>7, LeastNatural, Zenon
  <2>2. Min(I) = a
    <3>1. \E x \in I : \A y \in I : x <= y
      BY <2>1
    <3>2. Min(I) \in I /\ \A y \in I : Min(I) <= y
      BY <3>1 DEF Min
    <3>3. Min(I) <= a /\ a <= Min(I) /\ Min(I) \in Nat /\ a \in Nat
      BY <1>4, <2>1, <3>2
    <3> QED
      BY <3>3
  <2>3. a \in 1..m
    BY <1>4, <2>1
  <2>4. n + a \in J /\ \A j \in J : n + a <= j
    BY <1>1, <1>4, <2>1, <2>3
  <2>5. Min(J) = n + a
    <3>1. \E x \in J : \A y \in J : x <= y
      BY <2>4
    <3>2. Min(J) \in J /\ \A y \in J : Min(J) <= y
      BY <3>1 DEF Min
    <3> QED
      BY <1>1, <1>4, <2>4, <3>2
  <2>6. n + a # 0 /\ a # 0
    BY <1>1, <2>3
  <2>7. SubSeq(whole, (n + a) + 1, n + m) = SubSeq(parts, a + 1, m)
    <3>1. \A i \in 1..(m - a) : whole[((n + a) + 1) + i - 1] = parts[(a + 1) + i - 1]
      <4> SUFFICES ASSUME NEW i \in 1..(m - a)
                   PROVE  whole[((n + a) + 1) + i - 1] = parts[(a + 1) + i - 1]
        OBVIOUS
      <4>1. a + i \in 1..m /\ ((n + a) + 1) + i - 1 = n + (a + i) /\ (a + 1) + i - 1 = a + i
        BY <1>1, <2>3
      <4> QED
        BY <1>2, <4>1
    <3>2. (n + m) - ((n + a) + 1) + 1 = m - a /\ m - (a + 1) + 1 = m - a
      BY <1>1, <2>3
    <3>3. SubSeq(whole, (n + a) + 1, n + m) = [i \in 1..(m - a) |-> whole[((n + a) + 1) + i - 1]]
      BY <1>1, <1>3, <2>3, <3>2
    <3>4. SubSeq(parts, a + 1, m) = [i \in 1..(m - a) |-> parts[(a + 1) + i - 1]]
      BY <1>1, <2>3, <3>2
    <3> QED
      BY <3>1, <3>3, <3>4
  <2>8. BelowSpecDir(parts) = SubSeq(parts, a + 1, m)
    BY <1>5, <1>7, <2>2, <2>6 DEF BelowSpecDir, m
  <2>9. BelowSpecDir(whole) = SubSeq(whole, (n + a) + 1, n + m)
    BY <1>1, <1>5, <2>4, <2>5, <2>6 DEF BelowSpecDir
  <2> QED
    BY <2>7, <2>8, <2>9 DEF whole
<1> QED
  BY <1>6, <1>7

LEMMA SuffixRooted ==
  ASSUME NEW parts \in Seq(STRING), NEW S, NEW c \in Seq(S), IsSuffix(c, parts)
  PROVE  IsSuffix(c, Root \o parts)
<1> DEFINE n == Len(Root)
           m == Len(parts)
           k == Len(c)
           whole == Root \o parts
<1>1. n \in Nat /\ m \in Nat /\ k \in Nat /\ Len(whole) = n + m
  BY RootAssumption
<1>2. \A i \in 1..m : whole[n + i] = parts[i]
  BY RootAssumption
<1>3. whole \in Seq(STRING)
  BY RootAssumption
<1> HIDE DEF whole, n, m, k
<1>4. /\ Len(Reverse(c)) = k /\ Len(Reverse(parts)) = m /\ Len(Reverse(whole)) = n + m
      /\ Reverse(parts) \in Seq(STRING) /\ Reverse(whole) \in Seq(STRING)
  BY <1>1, <1>3 DEF Reverse, k, m
<1>5. /\ \A i \in 1..m : Reverse(parts)[i] = parts[(m - i) + 1]
      /\ \A i \in 1..(n + m) : Reverse(whole)[i] = whole[((n + m) - i) + 1]
  BY <1>1 DEF Reverse, m
<1>6. /\ k <= m
      /\ SubSeq(Reverse(c), 1, k) = SubSeq(Reverse(parts), 1, k)
  BY <1>4 DEF IsSuffix, IsPrefix
<1>7. \A i \in 1..k : Reverse(whole)[i] = Reverse(parts)[i]
  <2> SUFFICES ASSUME NEW i \in 1..k PROVE Reverse(whole)[i] = Reverse(parts)[i]
    OBVIOUS
  <2>1. i \in 1..m /\ i \in 1..(n + m) /\ (m - i) + 1 \in 1..m /\ ((n + m) - i) + 1 = n + ((m - i) + 1)
    BY <1>1, <1>6
  <2> QED
    BY <1>2, <1>5, <2>1
<1>8. SubSeq(Reverse(whole), 1, k) = SubSeq(Reverse(parts), 1, k)
  <2>1. SubSeq(Reverse(whole), 1, k) = [i \in 1..k |-> Reverse(whole)[i]]
    BY <1>1, <1>4, <1>6
  <2>2. SubSeq(Reverse(parts), 1, k) = [i \in 1..k |-> Reverse(parts)[i]]
    BY <1>1, <1>4, <1>6
  <2> QED
    BY <1>7, <2>1, <2>2
<1>9. k <= n + m
  BY <1>1, <1>6
<1> QED
  BY <1>4, <1>6, <1>8, <1>9 DEF IsSuffix, IsPrefix, whole

\* Where a write does damage, the guard refuses it.
LEMMA WriteCovered ==
  ASSUME "agents" \notin ToSet(Root), NEW p, NEW path, path.parts \in Seq(STRING),
         EvaluateWrite(Packaged, p, path).allowed
  PROVE  /\ ~Protected(Packaged, p, path.parts)
         /\ Contains(Root \o path.parts, "_handoff") \/ Reaches(Packaged, p, Root \o path.parts)
<1> DEFINE parts == path.parts
           whole == Root \o parts
<1>1. ~Protected(Packaged, p, whole)
  BY WriteFields DEF Refused
<1>2. BelowSpecDir(whole) = BelowSpecDir(parts)
  BY BelowRooted
<1>3. \A c \in ProtectedConfigs : IsSuffix(c, parts) => IsSuffix(c, whole)
  <2> DEFINE S == {".claude", "settings.json", ".barony", "allowed_signers"}
  <2>1. \A a \in S, b \in S : <<a, b>> \in Seq(S)
    <3> HIDE DEF S
    <3> QED
      OBVIOUS
  <2>2. \A c \in ProtectedConfigs : c \in Seq(S)
    <3>1. \A c \in ProtectedConfigs : \E a \in S, b \in S : c = <<a, b>>
      BY DEF ProtectedConfigs
    <3> HIDE DEF S
    <3> QED
      BY <2>1, <3>1
  <2> HIDE DEF S
  <2> QED
    BY <2>2, SuffixRooted
<1>4. Protected(Packaged, p, parts) => Protected(Packaged, p, whole)
  <2> HIDE DEF whole, parts
  <2> QED
    BY <1>2, <1>3 DEF Protected, InSpecDir
<1> QED
  BY <1>1, <1>4, WriteFields

-------------------------------------------------------------------------------
(***************************************************************************)
(* The steps of a session                                                  *)
(***************************************************************************)

\* GrantedOrRecorded, said of the record of a call.
LEMMA MayWriteReaches ==
  ASSUME NEW p, NEW path
  PROVE  MayWrite(p, path) <=> \/ Contains(Root \o path.parts, "_handoff")
                               \/ Reaches(doc, p, Root \o path.parts)
BY DEF MayWrite, Reaches, In

\* The record a call is given, field by field.
LEMMA RecordFields ==
  ASSUME NEW c, NEW stage, NEW via, NEW req, NEW by, NEW outcome, NEW enforcement, NEW logged,
         c = [NoCall EXCEPT !.stage = stage, !.via = via, !.req = req, !.by = by, !.logged = logged,
                            !.outcome = outcome, !.enforcement = enforcement]
  PROVE  /\ c.stage = stage /\ c.via = via /\ c.req = req /\ c.by = by /\ c.logged = logged
         /\ c.outcome = outcome /\ c.enforcement = enforcement /\ c.moved = FALSE /\ c.effects = {}
         /\ c = [stage |-> stage, via |-> via, req |-> req, by |-> by, outcome |-> outcome,
                 enforcement |-> enforcement, logged |-> logged, moved |-> FALSE, effects |-> {}]
BY DEF NoCall

LEMMA HookHolds ==
  ASSUME SessionInv, NEW req \in Calls, NEW override \in BOOLEAN, HookCall(req, override)
  PROVE  SessionInv' /\ call'.stage # "done"
<1> DEFINE v == Verdict(doc, repo, persona, req, override)
           j == Judged(doc, repo, persona, req)
<1>1. /\ installed /\ doc \in Shipped /\ persona \in AnyPersona
      /\ UNCHANGED <<doc, installed, persona, merges, hydrated, repo>>
  BY DEF SessionInv, SessionOK, HookCall
<1>2. /\ v.allowed \in BOOLEAN /\ (v.allowed <=> j.allowed \/ override)
      /\ v.logged \in BOOLEAN /\ (v.logged <=> ~j.allowed /\ override)
      /\ v.outcome = IF j.allowed THEN "allow" ELSE IF override THEN "override"
                     ELSE IF Fails(doc, persona, req) THEN "error" ELSE "deny"
      /\ v.enforcement = EnforcementClass(doc, j.adjudicated)
  BY VerdictFields
<1>3. v.outcome \in CallOutcomes /\ v.enforcement \in CallClasses
  BY <1>2, JudgedType, Classes3 DEF CallOutcomes, CallClasses
<1> HIDE DEF v
<1>4. ASSUME Governed(req) \/ req.tool = "garbage", NEW wrote \in BOOLEAN,
             ~LogCanFail => wrote = v.logged,
             call' = [NoCall EXCEPT !.stage = IF v.allowed THEN "running" ELSE "blocked",
                                    !.req = req, !.by = persona, !.logged = wrote,
                                    !.outcome = IF wrote = v.logged THEN v.outcome ELSE "none",
                                    !.enforcement = IF wrote = v.logged THEN v.enforcement
                                                    ELSE "none"]
      PROVE  SessionInv' /\ call'.stage # "done"
  <2> DEFINE stage == IF v.allowed THEN "running" ELSE "blocked"
             outcome == IF wrote = v.logged THEN v.outcome ELSE "none"
             enforcement == IF wrote = v.logged THEN v.enforcement ELSE "none"
  <2>1. /\ stage \in {"running", "blocked"} /\ (stage = "running" <=> v.allowed)
        /\ outcome \in CallOutcomes /\ enforcement \in CallClasses
    BY <1>2, <1>3 DEF CallOutcomes, CallClasses
  <2>2. \/ outcome = "none" /\ enforcement = "none"
        \/ outcome = v.outcome /\ enforcement = v.enforcement
    OBVIOUS
  <2>3. call' = [NoCall EXCEPT !.stage = stage, !.req = req, !.by = persona, !.logged = wrote,
                               !.outcome = outcome, !.enforcement = enforcement]
    BY <1>4
  <2> HIDE DEF stage, outcome, enforcement
  <2>4. /\ call'.stage = stage /\ call'.via = "hook" /\ call'.req = req /\ call'.by = persona
        /\ call'.logged = wrote /\ call'.outcome = outcome /\ call'.enforcement = enforcement
        /\ call'.moved = FALSE /\ call'.effects = {}
        /\ call' = [stage |-> stage, via |-> "hook", req |-> req, by |-> persona, outcome |-> outcome,
                    enforcement |-> enforcement, logged |-> wrote, moved |-> FALSE, effects |-> {}]
    BY <2>3 DEF NoCall
  <2>5. call' \in CallSet
    BY <1>1, <2>1, <2>4 DEF CallSet
  <2>6. SessionOK'
    BY <1>1, <2>1, <2>4, <2>5 DEF SessionInv, SessionOK
  <2>7. AnswerStands'
    BY <1>1, <1>4, <2>2, <2>4 DEF AnswerStands, v
  <2>8. LetThrough'
    <3> SUFFICES ASSUME ~LogCanFail, stage = "running", ~wrote, Governed(req)
                 PROVE  /\ Accepted(doc)
                        /\ req.tool = "Write" /\ req.path.at # "none" =>
                             EvaluateWrite(doc, persona, req.path).allowed
                        /\ req.tool = "Bash" => EvaluateBash(doc, repo, persona, req.command).allowed
      BY <1>1, <2>1, <2>4 DEF LetThrough
    <3>1. j.allowed
      BY <1>2, <1>4, <2>1
    <3>2. ~Fails(doc, persona, req) /\ Evaluate(doc, repo, persona, req).allowed
      BY <3>1, DecisionFields DEF Judged
    <3>3. Accepted(doc)
      <4>1. CASE req.tool = "Write" /\ req.path.at = "none"
        <5>1. ~EvaluateWrite(doc, persona, req.path).allowed
          BY <4>1, WriteFields DEF Refused
        <5> QED
          BY <3>2, <4>1, <5>1 DEF Evaluate
      <4> QED
        BY <3>2, <4>1 DEF Fails
    <3> QED
      BY <3>2, <3>3 DEF Evaluate, Governed
  <2> QED
    BY <2>1, <2>4, <2>6, <2>7, <2>8 DEF SessionInv
<1>5. ASSUME ~Governed(req), call' = [NoCall EXCEPT !.stage = "running", !.req = req, !.by = persona]
      PROVE  SessionInv' /\ call'.stage # "done"
  <2>1. /\ call'.stage = "running" /\ call'.via = "hook" /\ call'.req = req /\ call'.by = persona
        /\ call'.logged = FALSE /\ call'.outcome = "none" /\ call'.enforcement = "none"
        /\ call'.moved = FALSE /\ call'.effects = {}
        /\ call' = [stage |-> "running", via |-> "hook", req |-> req, by |-> persona, outcome |-> "none",
                    enforcement |-> "none", logged |-> FALSE, moved |-> FALSE, effects |-> {}]
    BY <1>5 DEF NoCall
  <2>2. call' \in CallSet
    BY <1>1, <2>1 DEF CallSet, CallOutcomes, CallClasses
  <2>3. SessionOK'
    BY <1>1, <2>1, <2>2 DEF SessionInv, SessionOK
  <2>4. AnswerStands' /\ LetThrough'
    BY <1>1, <1>5, <2>1 DEF AnswerStands, LetThrough
  <2> QED
    BY <2>1, <2>3, <2>4 DEF SessionInv
<1>6. CASE Governed(req) \/ req.tool = "garbage"
  <2>1. PICK wrote \in IF LogCanFail /\ v.logged THEN BOOLEAN ELSE {v.logged} :
          call' = [NoCall EXCEPT !.stage = IF v.allowed THEN "running" ELSE "blocked",
                                 !.req = req, !.by = persona, !.logged = wrote,
                                 !.outcome = IF wrote = v.logged THEN v.outcome ELSE "none",
                                 !.enforcement = IF wrote = v.logged THEN v.enforcement
                                                 ELSE "none"]
    BY <1>6, Zenon DEF HookCall, v
  <2>2. wrote \in BOOLEAN /\ (~LogCanFail => wrote = v.logged)
    BY <1>2
  <2> QED
    BY <1>4, <1>6, <2>1, <2>2
<1>7. CASE ~(Governed(req) \/ req.tool = "garbage")
  <2>1. call' = [NoCall EXCEPT !.stage = "running", !.req = req, !.by = persona]
    BY <1>7 DEF HookCall
  <2> QED
    BY <1>5, <1>7, <2>1
<1> QED
  BY <1>6, <1>7

LEMMA AdapterHolds ==
  ASSUME SessionInv, NEW req \in Calls, AdapterCall(req)
  PROVE  SessionInv' /\ call'.stage # "done"
<1> DEFINE v == AdapterDecision(doc, repo, hydrated, req)
<1>1. /\ installed /\ doc \in Shipped /\ hydrated \in AnyPersona /\ ~hydrated.broken /\ Governed(req)
      /\ UNCHANGED <<doc, installed, persona, merges, hydrated, repo>>
  BY DEF SessionInv, SessionOK, AdapterCall
<1>2. v.allowed \in BOOLEAN /\ v.adjudicated \in BOOLEAN
  BY EvaluateType, WriteFields DEF AdapterDecision
<1>3. EnforcementClass(doc, v.adjudicated) \in CallClasses
  BY <1>2, Classes3 DEF CallClasses
<1> HIDE DEF v
<1>4. ASSUME NEW stage \in {"running", "blocked"}, NEW outcome \in CallOutcomes, NEW class \in CallClasses,
             call' = [NoCall EXCEPT !.stage = stage, !.via = "adapter", !.req = req, !.by = hydrated,
                                    !.outcome = outcome, !.enforcement = class],
             IF Accepted(doc)
             THEN (stage = "running" <=> v.allowed) /\ class = EnforcementClass(doc, v.adjudicated)
             ELSE stage = "blocked" /\ class = "unknown"
      PROVE  SessionInv' /\ call'.stage # "done"
  <2>1. /\ call'.stage = stage /\ call'.via = "adapter" /\ call'.req = req /\ call'.by = hydrated
        /\ call'.logged = FALSE /\ call'.outcome = outcome /\ call'.enforcement = class
        /\ call'.moved = FALSE /\ call'.effects = {}
        /\ call' = [stage |-> stage, via |-> "adapter", req |-> req, by |-> hydrated, outcome |-> outcome,
                    enforcement |-> class, logged |-> FALSE, moved |-> FALSE, effects |-> {}]
    BY <1>4 DEF NoCall
  <2>2. call' \in CallSet
    BY <1>1, <1>4, <2>1 DEF CallSet
  <2>3. SessionOK'
    BY <1>1, <1>4, <2>1, <2>2 DEF SessionInv, SessionOK
  <2>4. AnswerStands'
    BY <1>1, <1>4, <2>1 DEF AnswerStands, v
  <2>5. LetThrough'
    <3> SUFFICES ASSUME stage = "running"
                 PROVE  /\ Accepted(doc)
                        /\ req.tool = "Write" /\ req.path.at # "none" =>
                             EvaluateWrite(doc, hydrated, req.path).allowed
                        /\ req.tool = "Bash" => EvaluateBash(doc, repo, hydrated, req.command).allowed
      BY <1>1, <1>4, <2>1 DEF LetThrough
    <3>1. Accepted(doc) /\ v.allowed
      BY <1>4
    <3> QED
      BY <3>1 DEF v, AdapterDecision, Evaluate
  <2> QED
    BY <1>4, <2>1, <2>3, <2>4, <2>5 DEF SessionInv
<1>5. CASE Accepted(doc)
  <2> DEFINE stage == IF v.allowed THEN "running" ELSE "blocked"
             outcome == IF v.allowed THEN "allow" ELSE "deny"
             class == EnforcementClass(doc, v.adjudicated)
  <2>1. call' = [NoCall EXCEPT !.stage = stage, !.via = "adapter", !.req = req, !.by = hydrated,
                               !.outcome = outcome, !.enforcement = class]
    BY <1>5, Zenon DEF AdapterCall, v
  <2>2. stage \in {"running", "blocked"} /\ outcome \in CallOutcomes /\ (stage = "running" <=> v.allowed)
    BY <1>2 DEF CallOutcomes
  <2>3. class \in CallClasses
    BY <1>3
  <2> HIDE DEF stage, outcome, class
  <2>4. class = EnforcementClass(doc, v.adjudicated)
    BY DEF class
  <2> QED
    BY <1>4, <1>5, <2>1, <2>2, <2>3, <2>4
<1>6. CASE ~Accepted(doc)
  <2>1. call' = [NoCall EXCEPT !.stage = "blocked", !.via = "adapter", !.req = req, !.by = hydrated,
                               !.outcome = "error", !.enforcement = "unknown"]
    BY <1>6, Zenon DEF AdapterCall
  <2>2. "blocked" \in {"running", "blocked"} /\ "error" \in CallOutcomes /\ "unknown" \in CallClasses
    BY DEF CallOutcomes, CallClasses
  <2> QED
    BY <1>4, <1>6, <2>1, <2>2
<1> QED
  BY <1>5, <1>6

\* What running a call comes to.
LEMMA OutcomeFields ==
  ASSUME SessionInv, Governed(call.req), NEW o \in Outcomes(repo, call.by, call.req)
  PROVE  /\ o.effects \subseteq Slots \cup {"write", "policy"}
         /\ o.moved \in BOOLEAN /\ RepoOK(o.repo)
         /\ ~o.moved => o.repo = repo
<1>1. call.req \in Calls \cup {NoCall.req} /\ repo.default \in {"main", "unknown"} /\ RepoOK(repo)
  BY DEF SessionInv, SessionOK, CallSet, RepoOK
<1>2. CASE call.req.tool = "Bash"
  <2>1. o \in CommandOutcomes(repo, call.req.command)
    BY <1>2 DEF Outcomes
  <2>2. RepoOK(o.repo)
    <3> DEFINE segs == Inlined(Inlined(call.req.command))
               known == UNION {SegmentEffects(RepoAfter(repo, segs, i - 1), segs[i]) : i \in DOMAIN segs}
               hidden == IF \E i \in DOMAIN segs : segs[i].op = "garbled" THEN SUBSET Slots ELSE {{}}
               moved == \E n \in 0 .. Len(segs) : RepoAfter(repo, segs, n) # repo
    <3>1. PICK h \in hidden : o = [effects |-> known \cup h, repo |-> RepoAfter(repo, segs, Len(segs)),
                                   moved |-> moved]
      BY <2>1 DEF CommandOutcomes
    <3> HIDE DEF known, hidden, moved, segs
    <3>2. o.repo = RepoAfter(repo, segs, Len(segs))
      BY <3>1
    <3> QED
      BY <1>1, <3>2, AfterOK
  <2> QED
    BY <1>1, <1>2, <2>1, <2>2, ReqNested, CommandCovered
<1>3. CASE call.req.tool # "Bash"
  <2>1. o = [effects |-> WriteEffects(call.by, call.req.path), repo |-> repo, moved |-> FALSE]
    BY <1>3 DEF Outcomes
  <2>2. WriteEffects(call.by, call.req.path) \subseteq {"write", "policy"}
    BY DEF WriteEffects
  <2> QED
    BY <1>1, <2>1, <2>2
<1> QED
  BY <1>2, <1>3

LEMMA RunHolds ==
  ASSUME SessionInv, Run
  PROVE  SessionInv'
<1>1. /\ call.stage = "running" /\ call \in CallSet /\ call.effects = {}
      /\ UNCHANGED <<doc, installed, persona, merges, hydrated>>
      /\ installed /\ doc \in Shipped /\ persona \in AnyPersona /\ hydrated \in AnyPersona /\ RepoOK(repo)
  BY NoCallFields DEF SessionInv, SessionOK, Run
<1>2. ASSUME NEW effects \in SUBSET (Slots \cup {"write", "policy"}), NEW moved \in BOOLEAN,
             call' = [call EXCEPT !.stage = "done", !.effects = effects, !.moved = moved],
             RepoOK(repo'), ~moved => ~call.moved /\ repo' = repo
      PROVE  SessionInv'
  <2>1. /\ call'.stage = "done" /\ call'.via = call.via /\ call'.req = call.req /\ call'.by = call.by
        /\ call'.logged = call.logged /\ call'.outcome = call.outcome
        /\ call'.enforcement = call.enforcement /\ call'.moved = moved
        /\ call' \in CallSet
    BY <1>1, <1>2 DEF CallSet
  <2>2. SessionOK'
    BY <1>1, <1>2, <2>1 DEF SessionOK
  <2>3. AnswerStands'
    BY <1>1, <1>2, <2>1 DEF SessionInv, AnswerStands
  <2>4. LetThrough'
    BY <1>1, <1>2, <2>1 DEF SessionInv, LetThrough
  <2> QED
    BY <2>2, <2>3, <2>4 DEF SessionInv
<1>3. CASE Governed(call.req)
  <2>1. PICK o \in Outcomes(repo, call.by, call.req) :
          /\ repo' = o.repo
          /\ call' = [call EXCEPT !.stage = "done", !.effects = o.effects, !.moved = @ \/ o.moved]
    BY <1>3 DEF Run
  <2>2. /\ o.effects \subseteq Slots \cup {"write", "policy"}
        /\ o.moved \in BOOLEAN /\ RepoOK(o.repo)
        /\ ~o.moved => o.repo = repo
    BY <1>3, OutcomeFields
  <2> DEFINE moved == call.moved \/ o.moved
  <2>3. call' = [call EXCEPT !.stage = "done", !.effects = o.effects, !.moved = moved]
    BY <2>1, Zenon
  <2>4. moved \in BOOLEAN /\ (~moved => ~call.moved /\ repo' = repo)
    BY <2>1, <2>2
  <2> HIDE DEF moved
  <2> QED
    BY <1>2, <2>1, <2>2, <2>3, <2>4
<1>4. CASE ~Governed(call.req)
  <2>1. call' = [call EXCEPT !.stage = "done"] /\ repo' = repo
    BY <1>4 DEF Run
  <2>2. /\ call'.stage = "done" /\ call'.via = call.via /\ call'.req = call.req /\ call'.by = call.by
        /\ call'.logged = call.logged /\ call'.outcome = call.outcome
        /\ call'.enforcement = call.enforcement /\ call'.moved = call.moved
        /\ call' \in CallSet
    BY <1>1, <2>1 DEF CallSet
  <2>3. SessionOK'
    BY <1>1, <2>1, <2>2 DEF SessionOK
  <2>4. AnswerStands'
    BY <1>1, <2>1, <2>2 DEF SessionInv, AnswerStands
  <2>5. LetThrough'
    BY <1>4, <2>2 DEF LetThrough
  <2> QED
    BY <2>3, <2>4, <2>5 DEF SessionInv
<1> QED
  BY <1>3, <1>4

\* Without a call, nothing is said of one.
LEMMA IdleNext ==
  ASSUME call' = NoCall, (installed => doc \in Shipped)', (persona \in AnyPersona)',
         (hydrated \in AnyPersona)', RepoOK(repo')
  PROVE  SessionInv' /\ call'.stage # "done"
<1>1. SessionOK'
  BY NoCallFields DEF SessionOK
<1>2. AnswerStands' /\ LetThrough'
  BY NoCallFields DEF AnswerStands, LetThrough
<1> QED
  BY <1>1, <1>2, NoCallFields DEF SessionInv

LEMMA CheckoutHolds ==
  ASSUME SessionInv, NEW b, Checkout(b)
  PROVE  SessionInv' /\ call'.stage # "done"
<1>1. /\ installed /\ doc \in Shipped /\ persona \in AnyPersona /\ hydrated \in AnyPersona
      /\ call \in CallSet /\ call.stage \in {"none", "running"}
      /\ UNCHANGED <<doc, installed, persona, merges, hydrated>>
      /\ call' = [call EXCEPT !.moved = call.stage = "running"]
  BY DEF SessionInv, SessionOK, Checkout, Around
<1>2. RepoOK(repo')
  BY SwitchedOK DEF SessionInv, SessionOK, Checkout
<1>3. CASE call.stage = "none"
  <2>1. call = NoCall
    BY <1>3 DEF SessionInv, SessionOK
  <2>2. call' = NoCall
    BY <1>1, <2>1 DEF NoCall
  <2> QED
    BY <1>1, <1>2, <2>2, IdleNext
<1>4. CASE call.stage = "running"
  <2>1. /\ call'.stage = "running" /\ call'.moved /\ call'.via = call.via /\ call'.req = call.req
        /\ call'.by = call.by /\ call'.logged = call.logged /\ call'.effects = call.effects
        /\ call' \in CallSet
    BY <1>1, <1>4 DEF CallSet
  <2>2. SessionOK'
    BY <1>1, <1>2, <1>4, <2>1 DEF SessionInv, SessionOK
  <2>3. AnswerStands'
    BY <2>1 DEF AnswerStands
  <2>4. LetThrough'
    BY <1>1, <1>4, <2>1 DEF SessionInv, LetThrough
  <2> QED
    BY <2>1, <2>2, <2>3, <2>4 DEF SessionInv
<1> QED
  BY <1>1, <1>3, <1>4

\* A step that leaves the call, the checkout and the document alone.
LEMMA CallKept ==
  ASSUME SessionInv, UNCHANGED <<doc, installed, repo, call>>, (persona \in AnyPersona)',
         (hydrated \in AnyPersona)'
  PROVE  SessionInv'
<1>1. SessionOK'
  BY DEF SessionInv, SessionOK
<1>2. AnswerStands' /\ LetThrough'
  BY DEF SessionInv, AnswerStands, LetThrough
<1> QED
  BY <1>1, <1>2 DEF SessionInv

LEMMA SessionStep == SessionInv /\ [Next]_vars => SessionInv'
<1> SUFFICES ASSUME SessionInv, [Next]_vars PROVE SessionInv'
  OBVIOUS
<1>0. /\ (installed => doc \in Shipped) /\ (~installed => call = NoCall)
      /\ persona \in AnyPersona /\ hydrated \in AnyPersona /\ RepoOK(repo)
  BY DEF SessionInv, SessionOK
<1>1. CASE Edit
  <2>1. call' = NoCall /\ ~installed' /\ UNCHANGED <<persona, hydrated, repo>>
    BY <1>0, <1>1 DEF Edit
  <2> QED
    BY <1>0, <2>1, IdleNext
<1>2. CASE Install
  <2>1. call' = NoCall /\ doc' \in Shipped /\ UNCHANGED hydrated /\ persona' \in Personas /\ repo' \in Repos
    BY <1>0, <1>2 DEF Install
  <2>2. RepoOK(repo')
    BY <2>1, InstallationAssumption DEF RepoOK
  <2>3. persona' \in AnyPersona
    BY <2>1 DEF AnyPersona
  <2> QED
    BY <1>0, <2>1, <2>2, <2>3, IdleNext
<1>3. ASSUME NEW req \in Calls, NEW override \in BOOLEAN, HookCall(req, override) PROVE SessionInv'
  BY <1>3, HookHolds
<1>4. ASSUME NEW req \in Calls, AdapterCall(req) PROVE SessionInv'
  BY <1>4, AdapterHolds
<1>5. CASE Hydrate
  BY <1>0, <1>5, CallKept DEF Hydrate
<1>6. CASE Run
  BY <1>6, RunHolds
<1>7. CASE Settle
  BY <1>0, <1>7, IdleNext DEF Settle
<1>8. ASSUME NEW b \in {"main", "topic"}, Checkout(b) PROVE SessionInv'
  BY <1>8, CheckoutHolds
<1>9. ASSUME NEW p \in Personas, MergePersona(p) PROVE SessionInv'
  <2>1. p \in AnyPersona
    BY DEF AnyPersona
  <2> QED
    BY <1>0, <1>9, <2>1, CallKept DEF MergePersona
<1>10. CASE UNCHANGED vars
  BY <1>0, <1>10, CallKept DEF vars
<1> QED
  BY <1>1, <1>2, <1>3, <1>4, <1>5, <1>6, <1>7, <1>8, <1>9, <1>10 DEF Next

\* A row of the event stream says `enforced` exactly of a call that a persona with every
\* verb and one with none would have been answered differently (ADR-018; _enforcement_class,
\* and the adjudicated flag of each return of the evaluators in guard.py), whatever the
\* documents, personas, calls and checkouts.
THEOREM EnforcedMeansDecidedAlways == Spec => []EnforcedMeansDecided
<1>1. SessionInv => EnforcedMeansDecided
  BY StandsEnforced DEF SessionInv
<1> QED
  BY <1>1, InitSession, SessionStep, PTL DEF Spec

\* The hook, `baron rules explain` and the adapter for pydantic-ai answer a call alike for the
\* same persona, while the checkout is where it was (process, rules_explain, decide).
THEOREM SeamsAgreeAlways == Spec => []SeamsAgree
<1>1. SessionInv => SeamsAgree
  BY StandsAgree DEF SessionInv
<1> QED
  BY <1>1, InitSession, SessionStep, PTL DEF Spec

\* The answer to a call that runs covers what it does.
LEMMA RunGrants ==
  ASSUME ~LogCanFail, "agents" \notin ToSet(Root), SessionInv, Run
  PROVE  GrantedOrRecorded'
<1>1. /\ call.stage = "running" /\ call \in CallSet /\ call.effects = {} /\ doc' = doc
      /\ installed /\ doc \in Shipped /\ repo.default \in {"main", "unknown"}
  BY NoCallFields DEF SessionInv, SessionOK, Run, RepoOK
<1>2. CASE ~Governed(call.req)
  <2>1. call' = [call EXCEPT !.stage = "done"]
    BY <1>2 DEF Run
  <2>2. call'.effects = {}
    BY <1>1, <2>1 DEF CallSet
  <2> QED
    BY <2>2 DEF GrantedOrRecorded
<1>3. CASE Governed(call.req)
  <2>1. PICK o \in Outcomes(repo, call.by, call.req) :
          /\ repo' = o.repo
          /\ call' = [call EXCEPT !.stage = "done", !.effects = o.effects, !.moved = @ \/ o.moved]
    BY <1>3 DEF Run
  <2> DEFINE moved == call.moved \/ o.moved
  <2>2. call' = [call EXCEPT !.stage = "done", !.effects = o.effects, !.moved = moved]
    BY <2>1, Zenon
  <2>3. moved \in BOOLEAN
    BY <1>1, <1>3, OutcomeFields DEF CallSet
  <2>4. ~moved => ~call.moved /\ ~o.moved
    OBVIOUS
  <2> HIDE DEF moved
  <2>5. /\ call'.effects = o.effects /\ call'.moved = moved /\ call'.logged = call.logged
        /\ call'.by = call.by /\ call'.req = call.req
    BY <1>1, <2>2 DEF CallSet
  <2> SUFFICES ASSUME ~call.logged, NEW e \in o.effects
               PROVE  CASE e = "policy" -> FALSE
                        [] e = "write" -> MayWrite(call.by, call.req.path)'
                        [] OTHER -> moved \/ Grants(call.by, doc.rules[e].verb)
    BY <1>1, <2>5 DEF GrantedOrRecorded, Needed
  <2>6. /\ Accepted(doc)
        /\ call.req.tool = "Write" /\ call.req.path.at # "none" =>
             EvaluateWrite(doc, call.by, call.req.path).allowed
        /\ call.req.tool = "Bash" /\ ~call.moved =>
             EvaluateBash(doc, repo, call.by, call.req.command).allowed
    BY <1>1, <1>3 DEF SessionInv, LetThrough
  <2>7. doc = Packaged
    BY <1>1, <2>6, InstallationAssumption
  <2>8. call.req \in Calls \cup {NoCall.req}
    BY <1>1 DEF CallSet
  <2>9. CASE call.req.tool = "Bash"
    <3>1. o \in CommandOutcomes(repo, call.req.command) /\ Nested(call.req.command)
      BY <2>8, <2>9, ReqNested DEF Outcomes
    <3>2. /\ o.effects \subseteq Slots
          /\ ~o.moved => \A x \in o.effects : Packaged.rules[x].verb \in RequiredVerbs(Packaged, repo, call.req.command)
      BY <1>1, <3>1, CommandCovered
    <3>3. e # "policy" /\ e # "write"
      BY <3>2 DEF Slots, CommandSlots
    <3>4. ASSUME ~moved PROVE Grants(call.by, doc.rules[e].verb)
      <4>1. doc.rules[e].verb \in RequiredVerbs(doc, repo, call.req.command)
        BY <2>4, <2>7, <3>2, <3>4
      <4>2. EvaluateBash(doc, repo, call.by, call.req.command).allowed
        BY <2>4, <2>6, <2>9, <3>4
      <4> QED
        BY <4>1, <4>2, BashFields
    <3> QED
      BY <3>3, <3>4
  <2>10. CASE call.req.tool = "Write"
    <3> DEFINE path == call.req.path
    <3>1. o.effects = WriteEffects(call.by, path)
      BY <2>10 DEF Outcomes
    <3>2. path.at = "inside"
      BY <3>1 DEF WriteEffects
    <3>3. path.parts \in Seq(STRING)
      BY <2>8, <2>10, CallsAssumption DEF NoCall
    <3>4. /\ ~Protected(Packaged, call.by, path.parts)
          /\ Contains(Root \o path.parts, "_handoff") \/ Reaches(Packaged, call.by, Root \o path.parts)
      BY <2>6, <2>7, <2>10, <3>2, <3>3, WriteCovered
    <3>5. e = "write"
      BY <3>1, <3>2, <3>4 DEF WriteEffects
    <3>6. MayWrite(call.by, path)
      BY <2>7, <3>4, MayWriteReaches
    <3>7. MayWrite(call.by, path)'
      BY <1>1, <2>5, <3>6 DEF MayWrite
    <3> QED
      BY <3>5, <3>7
  <2> QED
    BY <1>3, <2>9, <2>10 DEF Governed
<1> QED
  BY <1>2, <1>3

\* Whatever a tool call does to the remote, the working tree or the enforcement configuration,
\* the persona that was asked for held the verb, or an override was logged; what a checkout
\* that moved after the decision is made to do, apart (guard.py).  Supposed is that the log can
\* be written, and that no directory above the repository is called agents: the guard looks
\* for that component in the absolute path (guard.py:942).
THEOREM GrantedOrRecordedAlways ==
  ASSUME ~LogCanFail, "agents" \notin ToSet(Root)
  PROVE  Spec => []GrantedOrRecorded
<1>1. Init => GrantedOrRecorded
  BY NoCallFields DEF Init, GrantedOrRecorded
<1>2. SessionInv /\ GrantedOrRecorded /\ [Next]_vars => GrantedOrRecorded'
  <2> SUFFICES ASSUME SessionInv, GrantedOrRecorded, [Next]_vars PROVE GrantedOrRecorded'
    OBVIOUS
  <2>1. ASSUME call'.stage # "done" PROVE GrantedOrRecorded'
    BY <2>1 DEF GrantedOrRecorded
  <2>2. ASSUME UNCHANGED <<doc, call>> PROVE GrantedOrRecorded'
    BY <2>2 DEF GrantedOrRecorded, MayWrite, Needed
  <2>3. CASE Edit \/ Install
    <3>1. call' = NoCall
      BY <2>3 DEF SessionInv, SessionOK, Edit, Install
    <3> QED
      BY <2>1, <3>1, NoCallFields
  <2>4. ASSUME NEW req \in Calls, NEW override \in BOOLEAN, HookCall(req, override)
        PROVE  GrantedOrRecorded'
    BY <2>1, <2>4, HookHolds
  <2>5. ASSUME NEW req \in Calls, AdapterCall(req) PROVE GrantedOrRecorded'
    BY <2>1, <2>5, AdapterHolds
  <2>6. CASE Run
    BY <2>6, RunGrants
  <2>7. CASE Settle
    BY <2>1, <2>7, NoCallFields DEF Settle
  <2>8. ASSUME NEW b \in {"main", "topic"}, Checkout(b) PROVE GrantedOrRecorded'
    BY <2>1, <2>8, CheckoutHolds
  <2>9. ASSUME Hydrate \/ (\E p \in Personas : MergePersona(p)) \/ UNCHANGED vars
        PROVE  GrantedOrRecorded'
    BY <2>2, <2>9 DEF Hydrate, MergePersona, vars
  <2> QED
    BY <2>3, <2>4, <2>5, <2>6, <2>7, <2>8, <2>9 DEF Next
<1> QED
  BY <1>1, <1>2, InitSession, SessionStep, PTL DEF Spec

-------------------------------------------------------------------------------
(***************************************************************************)
(* What diff says of a document                                            *)
(***************************************************************************)

\* Two documents with the same rules and path rules.
Alike(d, e) ==
  /\ \A s \in Slots : d.rules[s].verb = e.rules[s].verb
  /\ d.specDir = e.specDir /\ d.protect = e.protect

LEMMA NoDifference ==
  ASSUME NEW d, DiffExit(d) = 0
  PROVE  d.verbs = Packaged.verbs /\ Alike(d, Packaged)
<1> DEFINE e == Packaged
<1>1. Accepted(d) /\ ~Differs(e, d)
  BY DEF DiffExit
<1>2. e.verbs = d.verbs /\ Built(e) = Built(d) /\ PathRules(e) = PathRules(d)
  BY <1>1 DEF Differs
<1>3. DOMAIN d.rules = Slots
  BY <1>1 DEF Accepted, CommandRulesAccepted
<1>4. DOMAIN e.rules = Slots
  BY DEF Packaged
<1> HIDE DEF e
<1>5. ASSUME NEW s \in Slots PROVE d.rules[s].verb = e.rules[s].verb
  <2>1. Built(d)[s] = d.rules[s].verb /\ Built(e)[s] = e.rules[s].verb
    BY <1>3, <1>4 DEF Built
  <2> QED
    BY <1>2, <2>1
<1>6. d.specDir = e.specDir /\ d.protect = e.protect
  BY <1>2 DEF PathRules
<1> QED
  BY <1>2, <1>5, <1>6 DEF Alike, e

LEMMA AlikeWrites ==
  ASSUME NEW d, NEW e, Alike(d, e), NEW p, NEW path
  PROVE  EvaluateWrite(d, p, path) = EvaluateWrite(e, p, path)
<1> DEFINE parts == Root \o path.parts
           free == Contains(parts, "_handoff")
           a(x) == ~Refused(x, p, path) /\ (free \/ Reaches(x, p, parts))
           b(x) == ~Refused(x, p, path) /\ ~free
<1>1. \A q : InSpecDir(d, q) <=> InSpecDir(e, q)
  BY DEF Alike, InSpecDir
<1>2. \A q : Protected(d, p, q) <=> Protected(e, p, q)
  BY <1>1 DEF Alike, Protected
<1>3. (Refused(d, p, path) <=> Refused(e, p, path)) /\ (Reaches(d, p, parts) <=> Reaches(e, p, parts))
  BY <1>1, <1>2 DEF Refused, Reaches
<1>4. a(d) = a(e) /\ b(d) = b(e)
  BY <1>3, Zenon
<1>5. EvaluateWrite(d, p, path) = Decision(a(d), b(d)) /\ EvaluateWrite(e, p, path) = Decision(a(e), b(e))
  BY WriteDecided, Zenon
<1> HIDE DEF a, b
<1> QED
  BY <1>4, <1>5

\* Without a wrapper, a command needs what the rules its segments match ask for.
LEMMA PlainRequired ==
  ASSUME NEW d, NEW r, NEW cmd, \A i \in DOMAIN cmd : cmd[i].op \notin {"shell", "garbled"}
  PROVE  RequiredVerbs(d, r, cmd) = UNION {{d.rules[s].verb : s \in Matches(r, cmd[i])} : i \in DOMAIN cmd}
<1> DEFINE asked(i) == {d.rules[s].verb : s \in Matches(r, cmd[i])}
           part(i) == IF cmd[i].op = "shell" /\ Inspects(d) THEN Outer(d, r, cmd[i].body)
                      ELSE Outer(d, r, <<cmd[i]>>)
<1>1. ASSUME NEW i \in DOMAIN cmd PROVE part(i) = asked(i)
  <2> DEFINE one == <<cmd[i]>>
  <2>1. DOMAIN one = {1} /\ one[1] = cmd[i]
    OBVIOUS
  <2> HIDE DEF one
  <2>2. Outer(d, r, one) = asked(i)
    BY <2>1 DEF Outer
  <2> QED
    BY <2>2 DEF one
<1>2. RequiredVerbs(d, r, cmd) = UNION {part(i) : i \in DOMAIN cmd}
  BY DEF RequiredVerbs
<1> HIDE DEF part
<1> QED
  BY <1>1, <1>2

LEMMA AlikeCommands ==
  ASSUME NEW d, NEW e, Alike(d, e), NEW r, NEW p, NEW cmd, IsCommand(cmd),
         \A i \in DOMAIN cmd : cmd[i].op \notin {"shell", "garbled"}
  PROVE  EvaluateBash(d, r, p, cmd) = EvaluateBash(e, r, p, cmd)
<1> DEFINE asked(x, i) == {x.rules[s].verb : s \in Matches(r, cmd[i])}
<1>1. \A x : RequiredVerbs(x, r, cmd) = UNION {asked(x, i) : i \in DOMAIN cmd}
  BY PlainRequired
<1>2. ASSUME NEW i \in DOMAIN cmd PROVE asked(d, i) = asked(e, i)
  <2>1. cmd[i] \in ToSet(cmd)
    BY DEF ToSet
  <2>2. Matches(r, cmd[i]) \subseteq Slots
    BY <2>1, EffectsAreSlots DEF IsCommand
  <2> QED
    BY <2>2 DEF Alike
<1> HIDE DEF asked
<1>3. {asked(d, i) : i \in DOMAIN cmd} = {asked(e, i) : i \in DOMAIN cmd}
  BY <1>2
<1>4. RequiredVerbs(d, r, cmd) = RequiredVerbs(e, r, cmd)
  BY <1>1, <1>3, Zenon
<1> QED
  BY <1>4 DEF EvaluateBash

\* A document that `baron rules diff` calls identical to the packaged one labels every verb as
\* that does, and has every write and every command without a wrapper decided as that has
\* (diff_rules; the evaluators of guard.py), whatever was edited in it.
THEOREM DiffSeesDecisionsAlways == Spec => []DiffSeesDecisions
<1>1. DiffSeesDecisions
  <2> SUFFICES ASSUME DiffExit(doc) = 0
               PROVE  /\ Labels(doc) = Labels(Packaged)
                      /\ \A req \in {q \in PlainCalls : Governed(q)}, r \in Repos, p \in Personas :
                           Evaluate(doc, r, p, req) = Evaluate(Packaged, r, p, req)
    BY DEF DiffSeesDecisions
  <2>1. doc.verbs = Packaged.verbs /\ Alike(doc, Packaged)
    BY NoDifference
  <2>2. Labels(doc) = Labels(Packaged)
    BY <2>1 DEF Labels, Label, Enforcement
  <2>3. ASSUME NEW req \in {q \in PlainCalls : Governed(q)}, NEW r \in Repos, NEW p \in Personas
        PROVE  Evaluate(doc, r, p, req) = Evaluate(Packaged, r, p, req)
    <3>1. CASE req.tool = "Bash"
      <4>1. IsCommand(req.command)
        BY <3>1, CallsAssumption DEF PlainCalls
      <4>2. \A i \in DOMAIN req.command : req.command[i].op \notin {"shell", "garbled"}
        BY <3>1 DEF PlainCalls
      <4> QED
        BY <2>1, <3>1, <4>1, <4>2, AlikeCommands DEF Evaluate
    <3>2. CASE req.tool # "Bash"
      BY <2>1, <3>2, AlikeWrites DEF Evaluate
    <3> QED
      BY <3>1, <3>2
  <2> QED
    BY <2>2, <2>3
<1> QED
  BY <1>1, PTL DEF Spec

-------------------------------------------------------------------------------
(***************************************************************************)
(* What `rules list` says of a document                                    *)
(***************************************************************************)

\* The verbs the guard asks for: by a rule, or in the order of the write-path checks.
Asked(d, v) == (\E s \in Slots : d.rules[s].verb = v) \/ v \in FileOpChainVerbs \cup {SpecDirVerb}

\* The parser holds the labels to them (_check_detection_consistency).
LEMMA LabelsAsked ==
  ASSUME NEW d, Validates(d), NEW v \in Verbs
  PROVE  (Labels(d)[v] = "enforced") <=> Asked(d, v)
<1>1. DOMAIN d.verbs = Verbs /\ DOMAIN d.rules = Slots
  BY DEF Validates, Accepted, CommandRulesAccepted
<1>2. d.verbs[v].detection \in Modalities
  BY <1>1 DEF Validates, Accepted, WellFormedEntry
<1>3. (Labels(d)[v] = "enforced") <=> d.verbs[v].detection # "none"
  <2>1. Labels(d)[v] = Label(d, v)
    BY <1>1, Zenon DEF Labels
  <2>2. CASE d.verbs[v].detection = "none"
    <3>1. Enforcement(d, v) \in {"adapter-dependent", "instructed"}
      BY <2>2 DEF Enforcement
    <3> QED
      BY <2>1, <2>2, <3>1 DEF Label
  <2>3. CASE d.verbs[v].detection # "none"
    <3>1. Enforcement(d, v) = "guard"
      BY <2>3 DEF Enforcement
    <3> QED
      BY <2>1, <2>3, <3>1 DEF Label
  <2> QED
    BY <2>2, <2>3
<1>4. \A m \in {"command", "file-op"} : d.verbs[v].detection = m <=> v \in Implemented(d, m)
  BY <1>1 DEF Validates, Accepted, DetectionConsistent, Declared
<1>5. v \in Implemented(d, "command") <=> \E s \in Slots : d.rules[s].verb = v
  BY <1>1 DEF Implemented
<1>6. v \in Implemented(d, "file-op") <=> v \in FileOpChainVerbs \cup {SpecDirVerb}
  BY <1>1 DEF Implemented
<1> QED
  BY <1>2, <1>3, <1>4, <1>5, <1>6 DEF Modalities, Asked

LEMMA HolderFields ==
  ASSUME NEW vs
  PROVE  /\ Holder(vs).deny = {} /\ Holder(vs).slug = "x" /\ Holder(vs).allowScopes = {<<"wiki">>}
         /\ Holder(vs).allow = vs
         /\ \A v : Grants(Holder(vs), v) <=> v \in vs
BY DEF Holder, Grants

\* What a holder of the verbs may write.
LEMMA HolderReaches ==
  ASSUME NEW d, NEW vs, NEW parts
  PROVE  Reaches(d, Holder(vs), parts) <=>
           /\ InSpecDir(d, parts) => SpecDirVerb \in vs
           /\ \/ "write_code" \in vs
              \/ "write_path" \in vs /\ ScopeMatches(<<"wiki">>, parts)
<1>1. In(Holder(vs).allowScopes, parts) <=> ScopeMatches(<<"wiki">>, parts)
  BY HolderFields DEF In
<1> QED
  BY <1>1, HolderFields DEF Reaches

\* The protection of the configuration is the same for holders of different verbs.
LEMMA HolderRefused ==
  ASSUME NEW d, NEW vs, NEW us, NEW path
  PROVE  Refused(d, Holder(vs), path) <=> Refused(d, Holder(us), path)
<1>1. \A parts : Protected(d, Holder(vs), parts) <=> Protected(d, Holder(us), parts)
  BY HolderFields DEF Protected
<1> QED
  BY <1>1 DEF Refused

\* A document whose guard does not ask for the verb has no call turn on it.
LEMMA CheckedAsked ==
  ASSUME NEW d, NEW v, Checked(d, v)
  PROVE  Asked(d, v)
<1>1. PICK req \in {q \in PlainCalls : Governed(q)}, r \in Repos, vs \in {{v}, DOMAIN d.verbs} :
         /\ Evaluate(d, r, Holder(vs), req).allowed
         /\ ~Evaluate(d, r, Holder(vs \ {v}), req).allowed
  BY DEF Checked
<1>2. CASE req.tool = "Bash"
  <2> DEFINE cmd == req.command
  <2>1. IsCommand(cmd) /\ \A i \in DOMAIN cmd : cmd[i].op \notin {"shell", "garbled"}
    BY <1>2, CallsAssumption DEF PlainCalls
  <2>2. PICK x \in RequiredVerbs(d, r, cmd) : ~Grants(Holder(vs \ {v}), x)
    BY <1>1, <1>2, BashFields DEF Evaluate
  <2>3. Grants(Holder(vs), x)
    BY <1>1, <1>2, BashFields DEF Evaluate
  <2>4. x = v
    BY <2>2, <2>3, HolderFields
  <2>5. PICK i \in DOMAIN cmd : \E s \in Matches(r, cmd[i]) : d.rules[s].verb = v
    BY <2>1, <2>2, <2>4, PlainRequired
  <2>6. Matches(r, cmd[i]) \subseteq Slots
    <3>1. cmd[i] \in ToSet(cmd)
      BY DEF ToSet
    <3> QED
      BY <2>1, <3>1, EffectsAreSlots DEF IsCommand
  <2> QED
    BY <2>5, <2>6 DEF Asked
<1>3. CASE req.tool # "Bash"
  <2> DEFINE parts == Root \o req.path.parts
             less == vs \ {v}
  <2>1. /\ ~Refused(d, Holder(vs), req.path)
        /\ Contains(parts, "_handoff") \/ Reaches(d, Holder(vs), parts)
    BY <1>1, <1>3, WriteFields DEF Evaluate
  <2>2. \/ Refused(d, Holder(less), req.path)
        \/ ~Contains(parts, "_handoff") /\ ~Reaches(d, Holder(less), parts)
    BY <1>1, <1>3, WriteFields DEF Evaluate
  <2>3. Reaches(d, Holder(vs), parts) /\ ~Reaches(d, Holder(less), parts)
    BY <2>1, <2>2, HolderRefused
  <2>4. v \in {"write_code", "write_path", SpecDirVerb}
    BY <2>3, HolderReaches
  <2> QED
    BY <2>4 DEF Asked, FileOpChainVerbs
<1> QED
  BY <1>2, <1>3

\* The paths that are protected by a document are so by the packaged one.
LEMMA PackagedProtects ==
  ASSUME NEW d, NEW path, NEW vs, Undisputed([tool |-> "Write", path |-> path])
  PROVE  ~Refused(d, Holder(vs), path)
<1> DEFINE parts == Root \o path.parts
<1>1. path.at = "inside" /\ ~Protected(Packaged, Holder({}), parts)
  BY DEF Undisputed
<1>2. Packaged.specDir /\ Packaged.protect = [configs |-> TRUE, specFiles |-> TRUE, ownDir |-> TRUE]
  BY DEF Packaged
<1>3. InSpecDir(d, parts) => InSpecDir(Packaged, parts)
  BY <1>2 DEF InSpecDir
<1>4. Packaged.protect.configs /\ Packaged.protect.specFiles /\ Packaged.protect.ownDir
  BY <1>2
<1>5. Protected(d, Holder(vs), parts) => Protected(Packaged, Holder({}), parts)
  BY <1>3, <1>4, HolderFields DEF Protected
<1> QED
  BY <1>1, <1>5 DEF Refused

\* Each verb the guard asks for decides a call by itself, where the calls tell the verbs apart
\* and the document has a directory of the personas.
LEMMA AskedChecked ==
  ASSUME CallsTellVerbsApart, NEW d, Validates(d), d.specDir, NEW v \in Verbs, Asked(d, v)
  PROVE  Checked(d, v)
<1>1. CASE \E s \in Slots : d.rules[s].verb = v
  <2>1. PICK s \in Slots : d.rules[s].verb = v
    BY <1>1
  <2>2. PICK req \in PlainCalls, r \in Repos :
          /\ req.tool = "Bash"
          /\ UNION {Matches(r, req.command[i]) : i \in DOMAIN req.command} = {s}
    BY DEF CallsTellVerbsApart
  <2> DEFINE cmd == req.command
  <2>3. RequiredVerbs(d, r, cmd) = {v}
    <3>1. \A i \in DOMAIN cmd : cmd[i].op \notin {"shell", "garbled"}
      BY <2>2 DEF PlainCalls
    <3>2. RequiredVerbs(d, r, cmd) = UNION {{d.rules[x].verb : x \in Matches(r, cmd[i])} : i \in DOMAIN cmd}
      BY <3>1, PlainRequired
    <3> QED
      BY <2>1, <2>2, <3>2
  <2>4. Evaluate(d, r, Holder({v}), req).allowed /\ ~Evaluate(d, r, Holder({v} \ {v}), req).allowed
    BY <2>2, <2>3, BashFields, HolderFields DEF Evaluate
  <2> QED
    BY <2>2, <2>4 DEF Checked, Governed
<1>2. CASE v \in FileOpChainVerbs
  <2>1. PICK req \in Calls :
          /\ Undisputed(req) /\ ~InSpecDir(Packaged, Root \o req.path.parts)
          /\ ScopeMatches(<<"wiki">>, Root \o req.path.parts)
    BY DEF CallsTellVerbsApart
  <2> DEFINE parts == Root \o req.path.parts
  <2>2. req.tool = "Write" /\ ~Contains(parts, "_handoff") /\ req \in PlainCalls
    BY <2>1 DEF Undisputed, PlainCalls
  <2>3. ~InSpecDir(d, parts)
    BY <2>1 DEF InSpecDir, Packaged
  <2>4. \A vs : ~Refused(d, Holder(vs), req.path)
    BY <2>1, PackagedProtects DEF Undisputed
  <2>5. Reaches(d, Holder({v}), parts) /\ ~Reaches(d, Holder({v} \ {v}), parts)
    BY <1>2, <2>1, <2>3, HolderReaches DEF FileOpChainVerbs
  <2>6. PICK r \in Repos : TRUE
    BY DEF CallsTellVerbsApart, Slots, CommandSlots
  <2>7. Evaluate(d, r, Holder({v}), req).allowed /\ ~Evaluate(d, r, Holder({v} \ {v}), req).allowed
    BY <2>2, <2>4, <2>5, WriteFields DEF Evaluate
  <2> QED
    BY <2>2, <2>7 DEF Checked, Governed
<1>3. CASE v = SpecDirVerb
  <2>1. PICK req \in Calls : Undisputed(req) /\ InSpecDir(Packaged, Root \o req.path.parts)
    BY DEF CallsTellVerbsApart
  <2> DEFINE parts == Root \o req.path.parts
             vs == DOMAIN d.verbs
             less == vs \ {v}
  <2>2. req.tool = "Write" /\ ~Contains(parts, "_handoff") /\ req \in PlainCalls
    BY <2>1 DEF Undisputed, PlainCalls
  <2>3. InSpecDir(d, parts)
    BY <2>1 DEF InSpecDir
  <2>4. \A us : ~Refused(d, Holder(us), req.path)
    BY <2>1, PackagedProtects DEF Undisputed
  <2>5. vs = Verbs
    BY DEF Validates
  <2>6. Reaches(d, Holder(vs), parts) /\ ~Reaches(d, Holder(less), parts)
    BY <1>3, <2>3, <2>5, HolderReaches DEF Verbs, SpecDirVerb
  <2>7. PICK r \in Repos : TRUE
    BY DEF CallsTellVerbsApart, Slots, CommandSlots
  <2>8. Evaluate(d, r, Holder(vs), req).allowed /\ ~Evaluate(d, r, Holder(less), req).allowed
    BY <2>2, <2>4, <2>6, WriteFields DEF Evaluate
  <2> QED
    BY <2>2, <2>8 DEF Checked, Governed
<1> QED
  BY <1>1, <1>2, <1>3 DEF Asked

\* `baron rules list` says `enforced` of the verbs some call turns on, and of no other, in every
\* document that `validate` accepts on the way to an installation (_check_detection_consistency
\* against the evaluators of guard.py).  Supposed is that the calls tell the verbs apart, and that
\* no edit empties spec_dir_component, which the parser takes (rules.py:943) though nothing checks
\* edit_other_personas then (guard.py:942).
THEOREM LabelMeansCheckedAlways ==
  ASSUME CallsTellVerbsApart,
         \A d : d.specDir => \A e \in Drafts(d) : e.specDir
  PROVE  Spec => []LabelMeansChecked
<1> DEFINE Inv == ~installed => doc.specDir
<1>1. Init => Inv
  BY DEF Init, Packaged
<1>2. Inv /\ [Next]_vars => Inv'
  BY DEF Next, vars, Edit, Install, HookCall, AdapterCall, Hydrate, Run, Settle, Checkout, MergePersona
<1>3. Inv => LabelMeansChecked
  BY LabelsAsked, CheckedAsked, AskedChecked DEF LabelMeansChecked
<1> QED
  BY <1>1, <1>2, <1>3, PTL DEF Spec

===============================================================================
