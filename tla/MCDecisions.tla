---------------------------- MODULE MCDecisions ----------------------------
\* One item that the tracker of the coordination repository and the tracker of
\* a code repository both number, two decisions, a manifest of each kind.
EXTENDS Decisions

MCHandParks == {[item |-> 1, spelling |-> "number", repo |-> "code"],
                [item |-> 1, spelling |-> "number", repo |-> "ghost"]}
MCRequests == {{[item |-> 1, spelling |-> "number", repo |-> "none"]},
               {[item |-> 1, spelling |-> "key", repo |-> "none"]}}
MCManifests ==
    {[source |-> "file", location |-> "path", label |-> TRUE],
     [source |-> "file", location |-> "path", label |-> FALSE],
     [source |-> "github_issues", location |-> "slug", label |-> TRUE],
     [source |-> "github_issues", location |-> "path", label |-> FALSE],
     [source |-> "other", location |-> "path", label |-> TRUE],
     [source |-> "unreadable", location |-> "none", label |-> FALSE]}
=============================================================================
