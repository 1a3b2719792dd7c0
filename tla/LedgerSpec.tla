------------------------------ MODULE LedgerSpec ------------------------------
(***************************************************************************)
(* What the ledger commands promise: the ledgers are numbered lists that   *)
(* only grow at their end, and a number given as an answer is the number   *)
(* its command's entry has in the list.  Working copies, commits and       *)
(* retries do not appear.  One step may file several entries, because a    *)
(* push publishes what earlier commands left unpushed.                     *)
(***************************************************************************)
EXTENDS Naturals, Sequences, SequencesExt

CONSTANTS Kinds

VARIABLES
  log,      \* log[k]: the ledger of kind k
  answered  \* the answers given

Numbered(index) == \A i \in DOMAIN index : index[i].id = i

Filed(a) ==
  /\ a.id \in DOMAIN log[a.kind]
  /\ log[a.kind][a.id].by = a.by

Init ==
  /\ log = [k \in Kinds |-> <<>>]
  /\ answered = {}

\* Entries are filed, with the next numbers.
File ==
  /\ DOMAIN log' = Kinds
  /\ \A k \in Kinds : IsPrefix(log[k], log'[k]) /\ Numbered(log'[k])

\* A command whose entry is filed is told its number.
Answer ==
  /\ answered \subseteq answered'
  /\ \A a \in answered' \ answered : Filed(a)'

Next == File /\ Answer

Spec == Init /\ [][Next]_<<log, answered>>

\* The stronger promise, of a counter: filing an entry and answering with its number
\* are one atomic step.
FileAndAnswer ==
  \E a \in answered' \ answered :
    /\ answered' = answered \cup {a}
    /\ a.id = Len(log[a.kind]) + 1
    /\ log' = [log EXCEPT ![a.kind] = Append(@, [id |-> a.id, by |-> a.by])]

CounterSpec == Init /\ [][FileAndAnswer]_<<log, answered>>

===============================================================================
