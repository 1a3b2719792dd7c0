------------------------------ MODULE MCMailbox -------------------------------
(***************************************************************************)
(* The mailbox on a small instance: a persona whose sidecar watches and    *)
(* one that waits for a wake.                                              *)
(***************************************************************************)
EXTENDS Mailbox

CONSTANTS lib, rev

\* One writes to the other, and that one to all.
MCRecipients == [p \in Personas |-> IF p = lib THEN {rev} ELSE {"all"}]

===============================================================================
