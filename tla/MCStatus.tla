------------------------------ MODULE MCStatus ------------------------------
\* One persona's worktree of the code repository, one clone; waivers for
\* the repository's HEAD and persona branch, and for the handoff.
EXTENDS Status, TLC

MCBranchOf(p) == "persona"
MCPatterns == {{<<"repo", "HEAD">>, <<"repo", "persona">>, <<"h", "handoff">>}}
AddersAlike == Permutations(Adders)
=============================================================================
