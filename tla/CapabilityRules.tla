--------------------------- MODULE CapabilityRules -----------------------------
(***************************************************************************)
(* The capability-rules document (cli/src/baron/rules.py): which documents *)
(* the parser accepts, what it says a verb is, and what two documents      *)
(* differ in.  The guard interprets an accepted document (module Guard);   *)
(* `baron rules validate`, `list` and `diff` print what is defined here.   *)
(*                                                                         *)
(* A document is a record.  Of the frozen ten verbs, open_pr and           *)
(* read_collab are left out: the packaged document and the code treat them *)
(* as run_tests and read_code.  The notes, and the lists of flags,         *)
(* programs and branch names a rule is parameterised by, are those of the  *)
(* packaged document; module Guard says what they match.                   *)
(***************************************************************************)
EXTENDS Naturals, FiniteSets

Verbs == {"write_code", "write_path", "edit_other_personas",
          "push_main", "force_push", "merge_pr", "run_tests", "read_code"}

Classes == {"whole-tool", "sub-tool"}
Modalities == {"none", "command", "file-op"}

\* The rules the guard reads, each with the matcher it implements for it.
CommandSlots ==
  [force_flags    |-> "flag_present",
   plus_refspec   |-> "refspec_prefix",
   all_branches   |-> "flag_present",
   default_branch |-> "refspec_default_branch",
   on_default     |-> "current_branch_is_default",
   pr_merge       |-> "subcommand_present"]
Slots == DOMAIN CommandSlots

\* The verbs the order of the write-path checks decides as a whole.
FileOpChainVerbs == {"write_code", "write_path"}
SpecDirVerb == "edit_other_personas"

Entry(class, detection) == [class |-> class, detection |-> detection]
Rule(verb, slot) == [verb |-> verb, matcher |-> CommandSlots[slot]]

Packaged ==
  [version  |-> 2,
   strange  |-> FALSE,   \* some mapping has a key the parser does not know
   verbs    |-> [v \in Verbs |->
                  CASE v = "write_code" -> Entry("whole-tool", "file-op")
                    [] v = "read_code" -> Entry("whole-tool", "none")
                    [] v = "run_tests" -> Entry("sub-tool", "none")
                    [] v \in {"write_path", "edit_other_personas"} ->
                         Entry("sub-tool", "file-op")
                    [] OTHER -> Entry("sub-tool", "command")],
   rules    |-> [s \in Slots |->
                  CASE s \in {"force_flags", "plus_refspec"} -> Rule("force_push", s)
                    [] s = "pr_merge" -> Rule("merge_pr", s)
                    [] OTHER -> Rule("push_main", s)],
   wrappers |-> [listed |-> TRUE, depth |-> 1,
                 conservative |-> {"merge_pr", "push_main", "force_push"}],
   specDir  |-> TRUE,    \* spec_dir_component is not empty
   protect  |-> [configs |-> TRUE, specFiles |-> TRUE, ownDir |-> TRUE]]

-------------------------------------------------------------------------------
(***************************************************************************)
(* The parser                                                              *)
(***************************************************************************)

\* _verb_entry: class and detection are required and drawn from closed sets.
WellFormedEntry(entry) == entry.class \in Classes /\ entry.detection \in Modalities

\* _matcher_of: absent ("") means the slot's own; anything else must be it.
MatcherAccepted(doc, s) == doc.rules[s].matcher \in {"", CommandSlots[s]}

\* _parse_command_rules, _command_rule: the rules of the document are exactly the ones
\* the guard implements, and each implies a verb of the table.
CommandRulesAccepted(doc) ==
  /\ DOMAIN doc.rules = Slots
  /\ \A s \in Slots : doc.rules[s].verb \in DOMAIN doc.verbs /\ MatcherAccepted(doc, s)

\* _parse_wrapper_policy: an absent block disables the inspection.
WrapperPolicyAccepted(doc) ==
  doc.wrappers.listed => doc.wrappers.conservative \subseteq DOMAIN doc.verbs

Declared(doc, modality) ==
  {v \in DOMAIN doc.verbs : doc.verbs[v].detection = modality}

\* The verbs some check of the guard asks for.
Implemented(doc, modality) ==
  CASE modality = "command" -> {doc.rules[s].verb : s \in DOMAIN doc.rules}
    [] modality = "file-op" -> (FileOpChainVerbs \cup {SpecDirVerb}) \cap DOMAIN doc.verbs

\* Mutant: only the dangerous direction of the check.
OverclaimOnly(doc) ==
  \A m \in {"command", "file-op"} : Declared(doc, m) \subseteq Implemented(doc, m)

\* _check_detection_consistency.
DetectionConsistent(doc) ==
  \A m \in {"command", "file-op"} : Declared(doc, m) = Implemented(doc, m)

\* _parse: refused, or the rules are the document.
Accepted(doc) ==
  /\ ~doc.strange
  /\ doc.version = Packaged.version
  /\ \A v \in DOMAIN doc.verbs : WellFormedEntry(doc.verbs[v])
  /\ SpecDirVerb \in DOMAIN doc.verbs
  /\ CommandRulesAccepted(doc)
  /\ DetectionConsistent(doc)
  /\ WrapperPolicyAccepted(doc)

-------------------------------------------------------------------------------
(***************************************************************************)
(* What the commands say of a document                                     *)
(***************************************************************************)

\* CapabilityRules.enforcement: who could enforce a verb.
Enforcement(doc, v) ==
  IF doc.verbs[v].detection # "none" THEN "guard"
  ELSE IF doc.verbs[v].class = "whole-tool" THEN "adapter-dependent" ELSE "instructed"

\* CapabilityRules.label.
Label(doc, v) == IF Enforcement(doc, v) = "guard" THEN "enforced" ELSE "instructed"

\* `baron rules list`, one label per verb.
Labels(doc) == [v \in DOMAIN doc.verbs |-> Label(doc, v)]

\* The path rules, as diff_rules compares them: fields of file_ops are rules.
PathRules(doc) == [specDir |-> doc.specDir, protect |-> doc.protect]

\* A rule as the parser builds it: an absent matcher is the slot's.
Built(doc) == [s \in DOMAIN doc.rules |-> doc.rules[s].verb]

\* Mutant: the entries of the verb table are joined, not compared.
DiffersInNames(base, doc) ==
  \/ base.version # doc.version
  \/ DOMAIN base.verbs # DOMAIN doc.verbs
  \/ Built(base) # Built(doc)

\* diff_rules.  The wrapper policy and the value options are not part of it.
Differs(base, doc) ==
  \/ base.version # doc.version
  \/ base.verbs # doc.verbs
  \/ Built(base) # Built(doc)
  \/ PathRules(base) # PathRules(doc)

\* `baron rules validate` of an accepted document: its verbs are the frozen ones (what
\* else it prints, the parser has refused).
Validates(doc) ==
  /\ Accepted(doc)
  /\ DOMAIN doc.verbs = Verbs

\* The exit code of `baron rules diff` against the packaged document.
DiffExit(doc) ==
  CASE ~Accepted(doc) -> 2
    [] Accepted(doc) /\ Differs(Packaged, doc) -> 1
    [] OTHER -> 0

===============================================================================
