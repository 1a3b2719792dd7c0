------------------------------ MODULE MCPlane ------------------------------
(***************************************************************************)
(* A monorepo with a project, in a git repository or in none yet, two      *)
(* processes, two days.  One reviewer's note is long, as is one command    *)
(* that the guard judged.                                                  *)
(***************************************************************************)
EXTENDS Plane, TLC

MCDirs == {"root", "pa"}
MCRoot == [d \in MCDirs |-> "root"]
MCVerdicts == {
    [author |-> "rex", pr |-> 7, killed |-> 1, run |-> 2, drift |-> 0, escape |-> FALSE, long |-> FALSE],
    [author |-> "ivy", pr |-> 7, killed |-> 0, run |-> 0, drift |-> 1, escape |-> TRUE, long |-> TRUE]}
MCCalls == {[event |-> "PreToolUse", long |-> TRUE], [event |-> "Stop", long |-> FALSE],
            [event |-> "Notification", long |-> FALSE]}
MCSymmetry == Permutations(Procs)
=============================================================================
