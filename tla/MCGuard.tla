------------------------------- MODULE MCGuard --------------------------------
EXTENDS Guard

Persona(slug, allow, deny, ins, outs) ==
  [broken |-> FALSE, slug |-> slug, allow |-> allow, deny |-> deny,
   allowScopes |-> ins, denyScopes |-> outs]

High == {"push_main", "force_push", "merge_pr"}

MCPersonas ==
  {Persona("owner", Verbs, {}, {}, {}),
   Persona("dev", {"write_code", "write_path", "run_tests"}, High \cup {"write_path"}, {}, {<<"wiki">>}),
   Persona("dev", {"write_path", "run_tests", "read_code"}, {"write_code"}, {<<"wiki">>}, {}),
   \* no slug, a verb on both sides, a shell
   Persona("", {"write_code", SpecDirVerb, "push_main", "merge_pr"}, {"push_main"}, {}, {}),
   Broken}

Ref(dst, plus) == [dst |-> dst, plus |-> plus]
Push(flags, refs) == [op |-> "push", flags |-> flags, refs |-> refs]
Merge == [op |-> "merge"]
PrMerge == [op |-> "pr_merge"]
To(b) == [op |-> "checkout", to |-> b]
Pytest == [op |-> "test"]
Shell(body) == [op |-> "shell", body |-> body]
Garbled == [op |-> "garbled"]

Bare == Push({}, {})
Singles ==
  {Bare, Push({"force_flags"}, {Ref("topic", FALSE)}), Push({"all_branches"}, {}),
   Push({}, {Ref("main", FALSE)}), Push({}, {Ref("topic", TRUE)}),
   Push({}, {Ref("HEAD", FALSE), Ref("topic", FALSE)}), Merge, PrMerge, Pytest}
Compounds ==
  {<<To("main"), Merge>>, <<To("main"), Merge, To("topic")>>, <<Pytest, PrMerge>>, <<Shell(<<Push({"force_flags"}, {})>>)>>,
   <<Shell(<<Shell(<<Merge>>)>>)>>, <<Shell(<<Garbled>>)>>, <<Garbled>>,
   <<Shell(<<Pytest, To("main")>>), Bare>>}

Inside(parts) == [at |-> "inside", parts |-> parts]
Paths ==
  {[at |-> "none", parts |-> <<>>], [at |-> "outside", parts |-> <<>>],
   Inside(<<"src", "f">>), Inside(<<"wiki", "f">>), Inside(<<"_handoff", "f">>),
   Inside(<<"_handoff", ".barony", "allowed_signers">>), Inside(<<".claude", "settings.json">>),
   Inside(<<"agents", "dev", "persona.yaml">>), Inside(<<"agents", "dev", "f">>),
   Inside(<<"agents", "owner", "f">>), Inside(<<"agents", "dev", "wiki", "f">>)}

MCCalls ==
  {[tool |-> "Bash", command |-> <<seg>>] : seg \in Singles}
  \cup {[tool |-> "Bash", command |-> c] : c \in Compounds}
  \cup {[tool |-> "Write", path |-> path] : path \in Paths}
  \cup {[tool |-> "Read"], [tool |-> "garbage"]}

MCRepos ==
  {[branch |-> "main", upstream |-> "main", default |-> "main"],
   [branch |-> "topic", upstream |-> "topic", default |-> "main"],
   [branch |-> "topic", upstream |-> "none", default |-> "main"],
   [branch |-> "topic", upstream |-> "main", default |-> "main"],
   [branch |-> "none", upstream |-> "none", default |-> "main"],
   [branch |-> "topic", upstream |-> "none", default |-> "unknown"]}

MCRoot == <<"work">>

\* One edit of a document.
Edits(d) ==
  {[d EXCEPT !.version = 3], [d EXCEPT !.strange = TRUE]}
  \cup {[d EXCEPT !.verbs[v] = Entry(c, m)] :
          v \in DOMAIN d.verbs, c \in Classes \cup {"banana"}, m \in Modalities}
  \cup {[d EXCEPT !.verbs = [w \in DOMAIN d.verbs \ {v} |-> d.verbs[w]]] : v \in Verbs}
  \cup {[d EXCEPT !.rules[s].verb = v] : s \in Slots, v \in {"merge_pr", "run_tests"}}
  \cup {[d EXCEPT !.rules[s].matcher = m] :
          s \in {"pr_merge", "plus_refspec"}, m \in {"", "flag_present"}}
  \cup {[d EXCEPT !.wrappers.listed = FALSE], [d EXCEPT !.protect.ownDir = FALSE],
        [d EXCEPT !.wrappers.conservative = {"open_pr"}], d}

MCShipped == {Packaged, [Packaged EXCEPT !.version = 3]}

Once == Edits(Packaged)

\* At most two edits.
MCDrafts(d) == IF d = Packaged \/ d \in Once THEN Edits(d) \ {d} ELSE {}

ASSUME MCCallsTellVerbsApart == CallsTellVerbsApart
===============================================================================
