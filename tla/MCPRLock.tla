------------------------------- MODULE MCPRLock -------------------------------
(***************************************************************************)
(* The locks on a small instance: a directory, a file in it, and a file    *)
(* of another name that has the same slug.                                 *)
(***************************************************************************)
EXTENDS PRLock, TLC

CONSTANTS p1, p2, dir, file, twin, dirBranch, fileBranch

ThreePaths == {dir, file, twin}
SlugOf == [l \in ThreePaths |-> IF l = dir THEN dirBranch ELSE fileBranch]
UnderOf == [l \in ThreePaths |-> IF l = dir THEN {dir, file} ELSE {l}]

Symmetry == Permutations({p1, p2})

===============================================================================
