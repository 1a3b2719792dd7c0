------------------------------- MODULE Doctor -------------------------------
(***************************************************************************)
(* `baron doctor` (cli/src/baron/doctor.py): is the guard wired into this  *)
(* project?  `baron init` generates a kit and a person copies it; people   *)
(* edit the settings files, install and break executables, lose personas   *)
(* and export the override; doctor reads the settings, runs the hook's own *)
(* executable on a call that must be denied and on one that is garbage,    *)
(* and reports.  Its report goes stale with the next change.               *)
(*                                                                         *)
(* An executable is known by what it does, a matcher by the tools doctor   *)
(* finds in it and those the runtime selects by it.  Doctor and the        *)
(* sessions run in one environment (PATH, exported variables).             *)
(***************************************************************************)
EXTENDS Sequences, SequencesExt

CONSTANTS
    Exes,       \* the commands a hook may start
    KitExe,     \* the one that `baron init` writes into a kit
    Prefixed,   \* those that reach baron through a launcher, such as `uv run`
    Foreign,    \* those that are not `baron guard` at all
    HandMade    \* bound: the hooks people write

ASSUME DoctorAssumption == 
    /\ Prefixed \subseteq Exes /\ Foreign \subseteq Exes
    /\ KitExe \in Exes \ (Prefixed \cup Foreign)

GovernedTools == {"Bash", "Edit", "Write", "NotebookEdit"}
SettingsFiles == <<"settings", "local">>

VARIABLES
    settings,   \* each settings file of the project, {} when it is not there
    program,    \* what each executable is
    personaFile, \* whether the persona's file "loads", or is "broken" or gone
    rulesLoad,  \* whether the capability rules of the package doctor itself runs load
    env,        \* what the environment sets: the override, a persona
    report      \* doctor's last report, while nothing has changed since

doctorVars == <<settings, program, personaFile, rulesLoad, env, report>>

File(torn, hooks) == {[torn |-> torn, hooks |-> hooks]}
\* A hook's command starts an executable for a persona; what follows the guard in it, as
\* in `... || true`, may swallow the guard's exit code.
Hook(exe, matcher, named, swallows) ==
    [exe |-> exe, matcher |-> matcher, named |-> named, swallows |-> swallows]
Matcher(found, selects) == [found |-> found, selects |-> selects]

\* What an executable does: the real one; one that dies of what it cannot read; one that
\* denies by crashing; something else that exits 2; something that exits 0, or 1; one that
\* hangs; one behind a launcher that has no version to show; and none.
Programs == {"good", "dies-open", "crashes", "shim", "permits", "broken", "hangs",
             "no-version", "missing"}

\* Asked for a decision: its exit code, and what it says on stderr.
Answer(kind, readable) ==
    CASE kind \in {"good", "no-version"} ->
           [code |-> 2, says |-> {"baron guard:"} \cup (IF readable THEN {} ELSE {"fail closed"})]
      [] kind = "dies-open" /\ readable -> [code |-> 2, says |-> {"baron guard:"}]
      [] kind = "crashes" ->
           [code |-> 2, says |-> {"baron guard:", "internal error", "fail closed"}]
      [] kind = "shim" -> [code |-> 2, says |-> {}]
      [] kind = "permits" -> [code |-> 0, says |-> {}]
      [] OTHER -> [code |-> 1, says |-> {}]

DoctorInit ==
    /\ settings = [f \in ToSet(SettingsFiles) |-> {}]
    /\ program = [e \in Exes |-> IF e \in Foreign THEN "permits" ELSE "missing"]
    /\ personaFile = "loads" /\ rulesLoad = TRUE /\ env = {} /\ report = {}

-----------------------------------------------------------------------------
(* Reading the settings. *)

IsGuardCommand(hook) == hook.exe \notin Foreign

\* read_hook_wiring: the hooks of the files that parse, in order; the first that invokes
\* the guard gives the command, all that do give their matchers.
GuardHooksIn(files) ==
    LET hooks(f) == IF \E file \in files[f] : ~file.torn
                    THEN (CHOOSE file \in files[f] : TRUE).hooks ELSE <<>>
    IN  SelectSeq(FlattenSeq([i \in DOMAIN SettingsFiles |-> hooks(SettingsFiles[i])]),
                  IsGuardCommand)
GuardHooks == GuardHooksIn(settings)
Wired == GuardHooks # <<>>

\* _uncovered_tools: what re.search finds in no guard hook's matcher.
UncoveredTools == GovernedTools \ UNION {h.matcher.found : h \in ToSet(GuardHooks)}

\* resolve_hook_exe: the command's executable, or baron itself where there is no command.
HookExe == IF Wired THEN GuardHooks[1].exe ELSE KitExe
Resolved == program[HookExe] # "missing"

\* The persona a hook acts for: the one it names, or the environment's.
PersonaState(named) ==
    CASE named = "project" -> personaFile
      [] named = "dangling" -> "broken"
      [] named = "none" -> IF "persona" \in env THEN personaFile ELSE "nowhere"

-----------------------------------------------------------------------------
(* The checks.  PASS, FAIL or UNKNOWN; a report is green when nothing is FAIL. *)

CheckCliOnPath ==
    CASE ~Resolved -> "FAIL"
      [] program[HookExe] \in {"broken", "hangs", "no-version"} ->
           IF HookExe \in Prefixed THEN "UNKNOWN" ELSE "FAIL"
      [] OTHER -> "PASS"

CheckHookConfigured == IF Wired THEN "PASS" ELSE "FAIL"

CheckHookMatcher ==
    IF ~Wired THEN "UNKNOWN" ELSE IF UncoveredTools # {} THEN "FAIL" ELSE "PASS"

\* --persona-file checks another persona than the hook's.
CheckPersonaFile(option) ==
    LET state == IF option # {} THEN CHOOSE s \in option : TRUE
                 ELSE PersonaState(IF Wired THEN GuardHooks[1].named ELSE "none")
    IN  CASE state = "nowhere" -> "UNKNOWN" [] state = "loads" -> "PASS" [] OTHER -> "FAIL"

CheckRulesArtifact == IF rulesLoad THEN "PASS" ELSE "FAIL"

\* _probe: through the hook's executable, without the override and the persona of the
\* environment; doctor's own guard where the executable does not resolve.
Probe(readable) == IF Resolved THEN Answer(program[HookExe], readable) ELSE Answer("good", readable)
ProbeFails == Resolved /\ program[HookExe] = "hangs"

CheckEnforcementPath ==
    LET result == Probe(TRUE)
    IN  IF ~ProbeFails /\ result.code = 2
           /\ "baron guard:" \in result.says /\ "internal error" \notin result.says
        THEN "PASS" ELSE "FAIL"

\* Mutant: an exit code that is not 0 is taken for a refusal.
FailClosedByAnyExit ==
    IF ~ProbeFails /\ Probe(FALSE).code # 0 THEN "PASS" ELSE "FAIL"
CheckFailClosed ==
    IF ~ProbeFails /\ Probe(FALSE).code = 2 /\ "fail closed" \in Probe(FALSE).says
    THEN "PASS" ELSE "FAIL"

CheckOverrideEnv == IF "override" \in env THEN "FAIL" ELSE "PASS"

Checks(option) ==
    <<CheckCliOnPath, CheckHookConfigured, CheckHookMatcher, CheckPersonaFile(option),
      CheckRulesArtifact, CheckEnforcementPath, CheckFailClosed, CheckOverrideEnv>>

-----------------------------------------------------------------------------
RunDoctor(option) ==
    /\ report = {}
    /\ report' = {IF "FAIL" \in ToSet(Checks(option)) THEN "red" ELSE "green"}
    /\ UNCHANGED <<settings, program, personaFile, rulesLoad, env>>

\* The kit is copied to where the runtime starts; the path it has to the persona is
\* right beside the collab repository, and dangles elsewhere.
CopyKit(beside) ==
    /\ settings' = [settings EXCEPT !["settings"] =
         File(FALSE, <<Hook(KitExe, Matcher(GovernedTools, GovernedTools),
                            IF beside THEN "project" ELSE "dangling", FALSE)>>)]
    /\ report' = {}
    /\ UNCHANGED <<program, personaFile, rulesLoad, env>>

\* People write a settings file by hand, break it, or delete it.
EditSettings(f) ==
    /\ settings[f] = {}
    /\ \/ settings' = [settings EXCEPT ![f] = File(TRUE, <<>>)]
       \/ settings' = [settings EXCEPT ![f] = File(FALSE, <<>>)]
       \/ \E h \in HandMade : settings' = [settings EXCEPT ![f] = File(FALSE, <<h>>)]
    /\ report' = {}
    /\ UNCHANGED <<program, personaFile, rulesLoad, env>>
DeleteSettings(f) ==
    /\ settings[f] # {}
    /\ settings' = [settings EXCEPT ![f] = {}]
    /\ report' = {}
    /\ UNCHANGED <<program, personaFile, rulesLoad, env>>

InstallExe(e, kind) ==
    /\ e \notin Foreign /\ program[e] # kind
    /\ program' = [program EXCEPT ![e] = kind]
    /\ report' = {}
    /\ UNCHANGED <<settings, personaFile, rulesLoad, env>>

ChangePersona(state) ==
    /\ personaFile # state
    /\ personaFile' = state
    /\ report' = {}
    /\ UNCHANGED <<settings, program, rulesLoad, env>>

\* The package that doctor runs loses its rules, or is installed again.
ChangePackage ==
    /\ rulesLoad' = ~rulesLoad
    /\ report' = {}
    /\ UNCHANGED <<settings, program, personaFile, env>>

Toggle(v) ==
    /\ env' = IF v \in env THEN env \ {v} ELSE env \cup {v}
    /\ report' = {}
    /\ UNCHANGED <<settings, program, personaFile, rulesLoad>>

DoctorNext ==
    \/ \E option \in {{}, {"loads"}, {"broken"}} : RunDoctor(option)
    \/ \E beside \in BOOLEAN : CopyKit(beside)
    \/ \E f \in ToSet(SettingsFiles) : EditSettings(f) \/ DeleteSettings(f)
    \/ \E e \in Exes, kind \in Programs : InstallExe(e, kind)
    \/ \E state \in {"loads", "broken"} : ChangePersona(state)
    \/ ChangePackage
    \/ \E v \in {"override", "persona"} : Toggle(v)

DoctorSpec == DoctorInit /\ [][DoctorNext]_doctorVars

-----------------------------------------------------------------------------
\* The runtime starts every hook whose matcher selects the tool; only exit 2 stops the call.
Stops(hook, tool) ==
    /\ tool \in hook.matcher.selects /\ "override" \notin env /\ ~hook.swallows
    /\ Answer(program[hook.exe], PersonaState(hook.named) = "loads").code = 2

\* What doctor does not look at: that a matcher in which it finds a tool selects it, what
\* another hook's command is than the first, and what follows the guard in a command.
Unseen(hook, tool) ==
    tool \notin hook.matcher.selects \/ hook.exe # HookExe \/ hook.swallows

\* While nothing has changed since a green report, a call of a governed tool that the
\* persona is denied is stopped, whether its persona loads or not, but for a tool that
\* doctor found only in hooks with one of the three things it does not look at.
GreenMeansBlocks ==
    report = {"green"} =>
        \A tool \in GovernedTools :
            LET hooks == {h \in ToSet(GuardHooks) : tool \in h.matcher.found}
            IN  \/ \E h \in ToSet(GuardHooks) : Stops(h, tool)
                \/ hooks # {} /\ \A h \in hooks : Unseen(h, tool)
=============================================================================
