------------------------------- MODULE MCLedger -------------------------------
(***************************************************************************)
(* The ledger on small instances: each persona in a working copy of its    *)
(* own, which is what git's push atomicity protects.                       *)
(***************************************************************************)
EXTENDS Ledger

CONSTANTS p1, p2, p3, c1, c2, c3

OwnClone == [p \in Procs |-> CASE p = p1 -> c1 [] p = p2 -> c2 [] p = p3 -> c3]

\* One process can overtake the other twice: enough to exhaust --retries 1, and to
\* leave an unpushed entry behind and push the next one.
TwoAndOne == [p \in Procs |-> IF p = p1 THEN 2 ELSE 1]
One == [p \in Procs |-> 1]

===============================================================================
