------------------------------ MODULE MCDoctor ------------------------------
EXTENDS Doctor

\* baron on the path, through a launcher, and a hook of another tool; "*", "Bash", and
\* "Edit|Write", which re.search also finds in NotebookEdit; and a command that swallows
\* the guard's answer.
MCMatchers == {Matcher(GovernedTools, GovernedTools), Matcher({"Bash"}, {"Bash"}),
               Matcher(GovernedTools \ {"Bash"}, {"Edit", "Write"})}
MCHandMade ==
    {Hook(e, m, named, FALSE) : e \in Exes, m \in MCMatchers, named \in {"project", "none"}}
    \cup {Hook(KitExe, Matcher(GovernedTools, GovernedTools), "project", TRUE)}
=============================================================================
