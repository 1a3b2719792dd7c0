----------------------------- MODULE LedgerProofs -----------------------------
(***************************************************************************)
(* Theorems about the ledger commands, for any number of processes and     *)
(* working copies, any --retries and any faults.  Types and the density of *)
(* what is published hold whoever shares a working copy.  Where every      *)
(* process has a working copy of its own, the commands implement           *)
(* LedgerSpec: the published ledgers only grow at their end, and a number  *)
(* that was answered stays the number of its command's entry.  There too,  *)
(* a command that gives up saying "still contended" was refused each time  *)
(* by a branch that had grown since its last pull; a command that ends in  *)
(* an error leaves its entry nowhere; none files it twice; and where no    *)
(* fault separates a push from its answer, the commands are an atomic      *)
(* counter.                                                                *)
(***************************************************************************)
EXTENDS Ledger, WellFoundedInduction, SequenceTheorems, TLAPS

-------------------------------------------------------------------------------
(***************************************************************************)
(* Numbering                                                               *)
(***************************************************************************)

\* Every set of naturals has a least element.
LEMMA LeastNatural ==
  ASSUME NEW S, S \subseteq Nat, S # {}
  PROVE  \E x \in S : \A y \in S : x <= y
<1> DEFINE Less == {r \in Nat \X Nat : r[1] < r[2]}
<1>1. IsWellFoundedOn(Less, Nat)
  BY NatLessThanWellFounded DEF OpToRel
<1> HIDE DEF Less
<1>2. PICK x \in S : \A y \in S : <<y, x>> \notin Less
  BY <1>1, WFMin
<1>3. \A y \in S : ~ (y < x)
  BY <1>2 DEF Less
<1> QED
  BY <1>2, <1>3

LEMMA IdsAreNumbers ==
  ASSUME NEW index \in Seq(Entry)
  PROVE  ScanIds(index) \subseteq Nat
<1>1. ASSUME NEW i \in 1..Len(index) PROVE index[i].id \in Nat
  <2>1. index[i] \in Entry
    OBVIOUS
  <2> QED
    BY <2>1 DEF Entry
<1> QED
  BY <1>1 DEF ScanIds

\* The numbers of a dense index run from 1 to its length, so the largest is its length
\* and the next one its length plus one.
LEMMA NextIdOfDense ==
  ASSUME NEW index \in Seq(Entry), Dense(index)
  PROVE  NextId(index) = Len(index) + 1
<1>1. CASE index = <<>>
  BY <1>1 DEF NextId
<1>2. CASE index # <<>>
  <2>1. Len(index) \in ScanIds(index) /\ \A n \in ScanIds(index) : Len(index) >= n
    BY <1>2 DEF ScanIds, Dense
  <2>2. ScanIds(index) \subseteq Nat
    BY IdsAreNumbers
  <2>3. Max(ScanIds(index)) = Len(index)
    BY <2>1, <2>2 DEF Max
  <2> QED
    BY <1>2, <2>3 DEF NextId
<1> QED
  BY <1>1, <1>2

\* Filing the next entry keeps an index dense.
LEMMA AppendKeepsDense ==
  ASSUME NEW index \in Seq(Entry), Dense(index), NEW by \in Command
  PROVE  Dense(Append(index, [id |-> NextId(index), by |-> by]))
BY NextIdOfDense DEF Dense

\* A finite list of naturals has a largest one: of its prefixes without, consider the
\* shortest.
LEMMA LargestValue ==
  ASSUME NEW n \in Nat, n > 0, NEW f \in [1..n -> Nat]
  PROVE  \E i \in 1..n : \A j \in 1..n : f[i] >= f[j]
<1> DEFINE HasLargest(m) == \E i \in 1..m : \A j \in 1..m : f[i] >= f[j]
           Without == {m \in 1..n : ~HasLargest(m)}
<1>1. ASSUME Without # {} PROVE FALSE
  <2>0. Without \subseteq Nat
    OBVIOUS
  <2> HIDE DEF Without
  <2>1. PICK m \in Without : \A l \in Without : m <= l
    BY <1>1, <2>0, LeastNatural
  <2> USE DEF Without
  <2>2. m \in 1..n /\ ~HasLargest(m)
    BY <2>1
  <2>3. m # 1
    BY <2>2
  <2>4. m - 1 \in 1..n /\ m - 1 \notin Without
    <3>1. m - 1 \in 1..n
      BY <2>2, <2>3
    <3>2. ~ (m <= m - 1)
      BY <2>2
    <3> HIDE DEF Without
    <3> QED
      BY <2>1, <3>1, <3>2
  <2>5. PICK i \in 1..(m - 1) : \A j \in 1..(m - 1) : f[i] >= f[j]
    BY <2>4
  <2>6. \A j \in 1..m : j \in 1..(m - 1) \/ j = m
    BY <2>2
  <2> HIDE DEF Without
  <2>7. CASE f[i] >= f[m]
    <3>1. \A j \in 1..m : f[i] >= f[j]
      BY <2>5, <2>6, <2>7, Zenon
    <3>2. i \in 1..m
      BY <2>2, <2>5
    <3> QED
      BY <2>2, <3>1, <3>2, Zenon
  <2>8. CASE f[m] > f[i]
    <3>1. m \in 1..m /\ i \in 1..n /\ \A j \in 1..m : j \in 1..n
      BY <2>2, <2>5
    <3>2. \A j \in 1..m : f[j] \in Nat
      BY <3>1, Zenon
    <3>3. f[i] \in Nat /\ f[m] \in Nat
      BY <3>1, Zenon
    <3>4. ASSUME NEW j \in 1..m PROVE f[m] >= f[j]
      <4>1. CASE j = m
        BY <3>3, <4>1
      <4>2. CASE j \in 1..(m - 1)
        <5>1. f[i] >= f[j] /\ f[j] \in Nat
          BY <2>5, <3>2, <4>2, Zenon
        <5> QED
          BY <2>8, <3>3, <5>1
      <4> QED
        BY <2>6, <4>1, <4>2, Zenon
    <3> QED
      BY <2>2, <3>1, <3>4, Zenon
  <2> QED
    <3>1. f[i] >= f[m] \/ f[m] > f[i]
      <4>1. f[i] \in Nat /\ f[m] \in Nat
        BY <2>2, <2>5
      <4> QED
        BY <4>1
    <3> QED
      BY <2>7, <2>8, <3>1
<1>2. n \notin Without
  BY <1>1
<1> QED
  BY <1>2

\* A non-empty index has a largest number.
LEMMA LargestId ==
  ASSUME NEW index \in Seq(Entry), index # <<>>
  PROVE  \E m \in ScanIds(index) : \A n \in ScanIds(index) : m >= n
<1> DEFINE ids == [i \in 1..Len(index) |-> index[i].id]
<1>1. ids \in [1..Len(index) -> Nat]
  BY IdsAreNumbers DEF ScanIds
<1>2. PICK i \in 1..Len(index) : \A j \in 1..Len(index) : ids[i] >= ids[j]
  <2>1. Len(index) \in Nat /\ Len(index) > 0
    OBVIOUS
  <2> HIDE DEF ids
  <2> QED
    BY <1>1, <2>1, LargestValue
<1>3. \A j \in 1..Len(index) : index[i].id >= index[j].id
  BY <1>2
<1>4. index[i].id \in ScanIds(index)
  BY DEF ScanIds
<1>5. \A n \in ScanIds(index) : index[i].id >= n
  BY <1>3 DEF ScanIds
<1> QED
  BY <1>4, <1>5

\* next_id is a number, whatever the index holds: duplicates, gaps, any order.
LEMMA NextIdType ==
  ASSUME NEW index \in Seq(Entry)
  PROVE  NextId(index) \in Nat
<1>1. CASE index = <<>>
  BY <1>1 DEF NextId
<1>2. CASE index # <<>>
  <2>1. Max(ScanIds(index)) \in ScanIds(index)
    BY <1>2, LargestId DEF Max
  <2>2. ScanIds(index) \subseteq Nat
    BY IdsAreNumbers
  <2> QED
    BY <1>2, <2>1, <2>2 DEF NextId
<1> QED
  BY <1>1, <1>2

-------------------------------------------------------------------------------
(***************************************************************************)
(* Types                                                                   *)
(***************************************************************************)

LEMMA LastType ==
  ASSUME NEW S, NEW s \in Seq(S), s # <<>>
  PROVE  Last(s) \in S
BY DEF Last

LEMMA LongerThanOne ==
  ASSUME NEW S, NEW s \in Seq(S), s # <<>>, Len(s) # 1
  PROVE  Len(s) \in Nat /\ Len(s) > 1
<1>1. Len(s) \in Nat /\ Len(s) # 0
  BY EmptySeq
<1>2. \A n \in Nat : n # 0 /\ n # 1 => n > 1
  OBVIOUS
<1> QED
  BY <1>1, <1>2

LEMMA FrontType ==
  ASSUME NEW S, NEW s \in Seq(S), Len(s) > 1
  PROVE  /\ Front(s) \in Seq(S) /\ Front(s) # <<>>
         /\ Len(Front(s)) = Len(s) - 1
         /\ \A i \in 1..(Len(s) - 1) : Front(s)[i] = s[i]
<1>1. Len(s) \in Nat /\ Len(s) - 1 \in 1..Len(s)
  OBVIOUS
<1>2. /\ Front(s) \in Seq(S)
      /\ Len(Front(s)) = Len(s) - 1
      /\ \A i \in 1..(Len(s) - 1) : Front(s)[i] = s[i]
  BY <1>1 DEF Front
<1>3. Front(s) # <<>>
  BY <1>1, <1>2
<1> QED
  BY <1>2, <1>3

\* What a rebase leaves is made of snapshots again.
LEMMA ReplayedType ==
  ASSUME TypeOK, NEW c \in Clones, NEW b \in 1..Len(head[c])
  PROVE  Replayed(c, b) \in Seq(Snapshot)
<1>1. ASSUME NEW i \in 1..(Len(head[c]) - b)
      PROVE  [k \in Kinds |-> IF k \in Changed(origin, b) THEN Last(origin)[k]
                                                          ELSE head[c][b + i][k]] \in Snapshot
  <2>1. Last(origin) \in Snapshot
    BY LastType DEF TypeOK
  <2>2. head[c] \in Seq(Snapshot) /\ b + i \in 1..Len(head[c])
    BY DEF TypeOK
  <2>3. head[c][b + i] \in Snapshot
    BY <2>2
  <2> QED
    BY <2>1, <2>3 DEF Snapshot
<1>2. Len(head[c]) - b \in Nat
  BY DEF TypeOK
<1> DEFINE n == Len(head[c]) - b
           rebased(i) == [k \in Kinds |-> IF k \in Changed(origin, b) THEN Last(origin)[k]
                                                                     ELSE head[c][b + i][k]]
<1>3. \A i \in 1..n : rebased(i) \in Snapshot
  BY <1>1
<1>4. Replayed(c, b) = [i \in 1..n |-> rebased(i)]
  BY DEF Replayed
<1> HIDE DEF n, rebased
<1>5. [i \in 1..n |-> rebased(i)] \in Seq(Snapshot)
  <2>1. n \in Nat
    BY <1>2 DEF n
  <2> QED
    BY <1>3, <2>1, IsASeq
<1> QED
  BY <1>4, <1>5

LEMMA ConflictedType ==
  ASSUME TypeOK, NEW c \in Clones, NEW b \in 1..Len(head[c])
  PROVE  Conflicted(c, b) \in Snapshot
<1>1. Last(origin) \in Snapshot /\ Last(head[c]) \in Snapshot
  BY LastType DEF TypeOK
<1>2. head[c][b] \in Snapshot
  BY DEF TypeOK
<1>3. ASSUME NEW k \in Kinds
      PROVE  /\ Last(origin)[k] \in Seq(Entry)
             /\ SubSeq(Last(head[c])[k], Len(head[c][b][k]) + 1, Len(Last(head[c])[k])) \in Seq(Entry)
  BY <1>1, <1>2 DEF Snapshot
<1>4. \A k \in Kinds :
        Last(origin)[k] \o SubSeq(Last(head[c])[k], Len(head[c][b][k]) + 1,
                                  Len(Last(head[c])[k])) \in Seq(Entry)
  BY <1>3
<1> QED
  BY <1>3, <1>4 DEF Conflicted, Snapshot

LEMMA NoJobType == NoJob \in Job
<1>1. (CHOOSE k \in Kinds : TRUE) \in Kinds
  BY LedgerAssumption
<1> QED
  BY <1>1 DEF NoJob, Job

\* What Read and Write assign to a command's locals.
LEMMA JobUpdate ==
  ASSUME NEW j \in Job, NEW text \in Seq(Entry), NEW n \in Nat
  PROVE  /\ j.left # 0 => [j EXCEPT !.text = text, !.left = j.left - 1] \in Job
         /\ [j EXCEPT !.id = n, !.text = <<>>] \in Job
<1>1. ASSUME j.left # 0 PROVE j.left \in Nat /\ j.left - 1 \in Nat
  BY <1>1 DEF Job
<1>2. j.left # 0 => [j EXCEPT !.text = text, !.left = j.left - 1] \in Job
  BY <1>1 DEF Job
<1>3. <<>> \in Seq(Entry)
  OBVIOUS
<1>4. [j EXCEPT !.id = n, !.text = <<>>] \in Job
  BY <1>3 DEF Job
<1> QED
  BY <1>2, <1>4

\* The commit of a command that git does not refuse.
Files(p) ==
  LET c == Home[p]
      k == job[p].kind
  IN  /\ work[c][k] # Last(head[c])[k]
      /\ head' = [head EXCEPT ![c] = Append(@, [Last(@) EXCEPT ![k] = work[c][k]])]
      /\ IF job[p].push
         THEN pc' = [pc EXCEPT ![p] = "push"] /\ UNCHANGED <<job, answers>>
         ELSE Return(p, "idle") /\ answers' = answers \cup {Answered(p)}

LEMMA ReturnType ==
  ASSUME TypeOK, NEW p \in Procs, NEW how \in Resting, Return(p, how)
  PROVE  pc' \in [Procs -> Phases] /\ job' \in [Procs -> Job]
BY NoJobType DEF TypeOK, Return, Phases, Resting

\* Every step keeps the type of the process states.
LEMMA TypeStep ==
  ASSUME TypeOK, NEW p \in Procs, Start(p) \/ Step(p) \/ Crash(p)
  PROVE  TypeOK'
<1> DEFINE c == Home[p]
           k == job[p].kind
<1>0. /\ c \in Clones /\ k \in Kinds
      /\ job[p] \in Job /\ Cmd(p) \in Command
      /\ head[c] \in Seq(Snapshot) /\ head[c] # <<>>
      /\ work[c] \in Snapshot /\ work[c][k] \in Seq(Entry)
  <2>1. c \in Clones /\ job[p] \in Job /\ Cmd(p) \in Command
    BY LedgerAssumption DEF TypeOK, Cmd, Command
  <2>2. k \in Kinds
    BY <2>1 DEF Job
  <2>3. head[c] \in Seq(Snapshot) /\ head[c] # <<>> /\ work[c] \in Snapshot
    BY <2>1 DEF TypeOK
  <2>4. work[c][k] \in Seq(Entry)
    BY <2>2, <2>3 DEF Snapshot
  <2> QED
    BY <2>1, <2>2, <2>3, <2>4
<1>1. CASE Start(p)
  <2>1. PICK l \in Kinds, push \in BOOLEAN :
          job' = [job EXCEPT ![p] = [NoJob EXCEPT !.kind = l, !.push = push,
                                                  !.left = Attempts, !.since = Len(origin)]]
    BY <1>1 DEF Start
  <2>2. Attempts \in Nat /\ Len(origin) \in Nat
    BY LedgerAssumption DEF Attempts, TypeOK
  <2>3. [NoJob EXCEPT !.kind = l, !.push = push,
                      !.left = Attempts, !.since = Len(origin)] \in Job
    BY <2>2, NoJobType DEF Job
  <2>4. job' \in [Procs -> Job]
    BY <2>1, <2>3 DEF TypeOK
  <2>5. /\ pc' = [pc EXCEPT ![p] = "read"] /\ ops' = [ops EXCEPT ![p] = @ + 1]
        /\ UNCHANGED <<repo, history>>
    BY <1>1, Zenon DEF Start
  <2> QED
    BY <2>4, <2>5 DEF TypeOK, Phases, repo, history
<1>2. CASE Read(p)
  <2>1. CASE job[p].left = 0
    BY <1>2, <2>1, ReturnType DEF Read, TypeOK, repo, history, Resting
  <2>2. CASE job[p].left # 0
    <3>1. [job[p] EXCEPT !.text = work[c][k], !.left = job[p].left - 1] \in Job
      BY <1>0, <2>2, JobUpdate
    <3>2. job' = [job EXCEPT ![p] = [job[p] EXCEPT !.text = work[c][k], !.left = job[p].left - 1]]
      BY <1>2, <2>2 DEF Read
    <3>3. job' \in [Procs -> Job]
      BY <3>1, <3>2 DEF TypeOK
    <3> QED
      BY <1>2, <2>2, <3>3 DEF Read, TypeOK, repo, history, Phases
  <2> QED
    BY <2>1, <2>2
<1>3. CASE Write(p)
  <2>1. job[p].text \in Seq(Entry) /\ NextId(job[p].text) \in Nat
    BY <1>0, NextIdType DEF Job
  <2>2. Append(job[p].text, [id |-> NextId(job[p].text), by |-> Cmd(p)]) \in Seq(Entry)
    BY <1>0, <2>1 DEF Entry
  <2>3. work' \in [Clones -> Snapshot]
    BY <1>0, <1>3, <2>2 DEF Write, TypeOK, Snapshot
  <2>4. [job[p] EXCEPT !.id = NextId(job[p].text), !.text = <<>>] \in Job
    BY <1>0, <2>1, JobUpdate
  <2>5. job' \in [Procs -> Job]
    BY <1>3, <2>4 DEF Write, TypeOK
  <2> QED
    BY <1>3, <2>3, <2>5 DEF Write, TypeOK, history, Phases
<1>4. Answered(p) \in Answer
  BY <1>0 DEF Answered, Answer, Job
<1>5. CASE Commit(p)
  <2>1. CASE Return(p, "refused") /\ UNCHANGED <<head, answers>>
    BY <1>5, <2>1, ReturnType DEF Commit, Files, TypeOK, history, Resting
  <2>2. CASE Files(p)
    <3>1. [Last(head[c]) EXCEPT ![k] = work[c][k]] \in Snapshot
      BY <1>0, LastType DEF Snapshot
    <3>2. head' = [head EXCEPT ![c] = Append(head[c], [Last(head[c]) EXCEPT ![k] = work[c][k]])]
      BY <1>5, <2>2 DEF Commit, Files
    <3>3. /\ Append(head[c], [Last(head[c]) EXCEPT ![k] = work[c][k]]) \in Seq(Snapshot)
          /\ Append(head[c], [Last(head[c]) EXCEPT ![k] = work[c][k]]) # <<>>
      BY <1>0, <3>1, AppendProperties
    <3>4. head' \in [Clones -> Seq(Snapshot)] /\ \A d \in Clones : head'[d] # <<>>
      BY <3>2, <3>3 DEF TypeOK
    <3>5. answers' \subseteq Answer
      BY <1>4, <1>5, <2>2 DEF Commit, Files, TypeOK
    <3>6. pc' \in [Procs -> Phases] /\ job' \in [Procs -> Job]
      BY <1>5, <2>2, ReturnType DEF Commit, Files, TypeOK, Phases, Resting
    <3> QED
      BY <1>5, <2>2, <3>4, <3>5, <3>6 DEF Commit, Files, TypeOK
  <2> QED
    BY <1>5, <2>1, <2>2 DEF Commit, Files
<1>6. CASE PushAccepted(p)
  BY <1>0, <1>4, <1>6, ReturnType DEF PushAccepted, TypeOK, Resting
<1>7. CASE PushRejected(p)
  BY <1>7 DEF PushRejected, TypeOK, repo, history, Phases
<1>8. CASE PushBroken(p)
  <2>1. job' \in [Procs -> Job]
    BY <1>0, <1>8 DEF PushBroken, TypeOK, Job
  <2>2. origin' \in Seq(Snapshot) /\ origin' # <<>> /\ unacked' \subseteq Command
    BY <1>0, <1>8 DEF PushBroken, TypeOK
  <2> QED
    BY <1>8, <2>1, <2>2 DEF PushBroken, TypeOK, Phases
<1>9. CASE Reset(p)
  <2>1. CASE Len(head[c]) = 1
    BY <1>9, <2>1, ReturnType DEF Reset, TypeOK, history, Resting
  <2>2. CASE Len(head[c]) # 1
    <3>1. Len(head[c]) \in Nat /\ Len(head[c]) > 1
      BY <1>0, <2>2, LongerThanOne
    <3>2. head[c][Len(head[c]) - 1] \in Snapshot
      <4>1. Len(head[c]) - 1 \in 1..Len(head[c])
        BY <3>1
      <4> QED
        BY <1>0, <4>1
    <3>3. Front(head[c]) \in Seq(Snapshot) /\ Front(head[c]) # <<>>
      BY <1>0, <3>1, FrontType
    <3> QED
      BY <1>9, <2>2, <3>2, <3>3 DEF Reset, TypeOK, history, Phases
  <2> QED
    BY <2>1, <2>2
<1>10. CASE Pull(p)
  <2>1. CASE Return(p, "failed") /\ UNCHANGED <<head, work, wedged>>
    BY <1>10, <2>1, ReturnType DEF Pull, TypeOK, history, Resting
  <2>2. ASSUME NEW b \in 1..Len(head[c]),
               head' = [head EXCEPT ![c] = origin \o Replayed(c, b)],
               work' = [work EXCEPT ![c] = Last(head'[c])],
               pc' = [pc EXCEPT ![p] = "read"],
               UNCHANGED <<wedged, job>>
        PROVE  TypeOK'
    <3>1. origin \o Replayed(c, b) \in Seq(Snapshot) /\ origin \o Replayed(c, b) # <<>>
      <4>1. Replayed(c, b) \in Seq(Snapshot)
        BY <1>0, ReplayedType
      <4> QED
        BY <4>1 DEF TypeOK
    <3>2. head'[c] = origin \o Replayed(c, b)
      BY <1>0, <2>2 DEF TypeOK
    <3>3. Last(head'[c]) \in Snapshot
      BY <3>1, <3>2, LastType
    <3>4. head' \in [Clones -> Seq(Snapshot)] /\ \A d \in Clones : head'[d] # <<>>
      BY <2>2, <3>1 DEF TypeOK
    <3> QED
      BY <1>10, <2>2, <3>3, <3>4 DEF Pull, TypeOK, history, Phases
  <2>3. ASSUME NEW b \in 1..Len(head[c]),
               head' = [head EXCEPT ![c] = origin],
               work' = [work EXCEPT ![c] = Conflicted(c, b)],
               wedged' = [wedged EXCEPT ![c] = TRUE],
               Return(p, "failed")
        PROVE  TypeOK'
    <3>1. Conflicted(c, b) \in Snapshot
      BY <1>0, ConflictedType
    <3> QED
      BY <1>10, <2>3, <3>1, ReturnType DEF Pull, TypeOK, history, Resting
  <2> QED
    BY <1>10, <2>1, <2>2, <2>3 DEF Pull
<1>11. CASE Crash(p)
  BY <1>11, ReturnType DEF Crash, TypeOK, repo, history, Resting
<1> QED
  BY <1>1, <1>2, <1>3, <1>5, <1>6, <1>7, <1>8, <1>9, <1>10, <1>11 DEF Step

LEMMA TypeInit == Init => TypeOK
<1> SUFFICES ASSUME Init PROVE TypeOK
  OBVIOUS
<1>1. Empty \in Snapshot
  BY DEF Empty, Snapshot
<1>2. <<Empty>> \in Seq(Snapshot) /\ <<Empty>> # <<>>
  BY <1>1
<1> QED
  BY <1>1, <1>2, NoJobType DEF Init, TypeOK, Phases, Resting

LEMMA TypeNext == TypeOK /\ [Next]_vars => TypeOK'
<1> SUFFICES ASSUME TypeOK, [Next]_vars PROVE TypeOK'
  OBVIOUS
<1>1. CASE \E p \in Procs : Start(p) \/ Step(p) \/ Crash(p)
  BY <1>1, TypeStep
<1>2. CASE \E c \in Clones : Edit(c)
  BY <1>2 DEF Edit, TypeOK, history
<1>3. CASE UNCHANGED vars
  BY <1>3 DEF vars, TypeOK
<1> QED
  BY <1>1, <1>2, <1>3 DEF Next

\* The variables keep their types.
THEOREM TypeCorrect == Spec => []TypeOK
  BY TypeInit, TypeNext, PTL DEF Spec

-------------------------------------------------------------------------------
(***************************************************************************)
(* PublishedDense.  The published ledgers are dense because everything     *)
(* that can be pushed is: the commits and the files of every working copy  *)
(* that is not stopped in a rebase (which can push nothing), and the text  *)
(* a command holds between its read and its write.                         *)
(***************************************************************************)

DenseSnapshot(s) == \A k \in Kinds : Dense(s[k])
DenseHistory(h) == \A i \in DOMAIN h : DenseSnapshot(h[i])

PushableDense ==
  /\ TypeOK
  /\ DenseHistory(origin)
  /\ \A c \in Clones : ~wedged[c] => DenseHistory(head[c]) /\ DenseSnapshot(work[c])
  /\ \A p \in Procs : pc[p] = "write" /\ ~wedged[Home[p]] => Dense(job[p].text)

LEMMA LastDense ==
  ASSUME NEW h \in Seq(Snapshot), h # <<>>, DenseHistory(h)
  PROVE  DenseSnapshot(Last(h))
BY DEF Last, DenseHistory

LEMMA AppendDense ==
  ASSUME NEW h \in Seq(Snapshot), DenseHistory(h), NEW s \in Snapshot, DenseSnapshot(s)
  PROVE  DenseHistory(Append(h, s))
BY DEF DenseHistory

LEMMA FrontDense ==
  ASSUME NEW h \in Seq(Snapshot), Len(h) > 1, DenseHistory(h)
  PROVE  DenseHistory(Front(h)) /\ DenseSnapshot(h[Len(h) - 1])
<1>1. Len(h) - 1 \in 1..Len(h)
  OBVIOUS
<1>2. DOMAIN Front(h) = 1..(Len(h) - 1) /\ \A i \in 1..(Len(h) - 1) : Front(h)[i] = h[i]
  BY FrontType
<1> QED
  BY <1>1, <1>2 DEF DenseHistory

LEMMA ConcatDense ==
  ASSUME NEW g \in Seq(Snapshot), NEW h \in Seq(Snapshot), DenseHistory(g), DenseHistory(h)
  PROVE  DenseHistory(g \o h)
BY DEF DenseHistory

\* A rebase takes each ledger whole from one side or the other.
LEMMA ReplayedDense ==
  ASSUME TypeOK, NEW c \in Clones, NEW b \in 1..Len(head[c]),
         DenseHistory(origin), DenseHistory(head[c])
  PROVE  DenseHistory(Replayed(c, b))
<1>1. DenseSnapshot(Last(origin))
  BY LastDense DEF TypeOK
<1>2. Len(head[c]) \in Nat
  BY DEF TypeOK
<1>3. ASSUME NEW i \in 1..(Len(head[c]) - b)
      PROVE  DenseSnapshot(Replayed(c, b)[i])
  <2>1. DenseSnapshot(head[c][b + i])
    BY <1>2 DEF DenseHistory, TypeOK
  <2>2. \A k \in Kinds : Replayed(c, b)[i][k] = Last(origin)[k]
                      \/ Replayed(c, b)[i][k] = head[c][b + i][k]
    BY DEF Replayed
  <2> QED
    BY <1>1, <2>1, <2>2, Zenon DEF DenseSnapshot
<1>4. DOMAIN Replayed(c, b) = 1..(Len(head[c]) - b)
  BY DEF Replayed
<1> QED
  BY <1>3, <1>4 DEF DenseHistory

\* A step that leaves the histories and files alone keeps what is pushable dense, unless
\* it makes a process write another text.
LEMMA SameRepoDense ==
  ASSUME PushableDense, TypeOK', UNCHANGED repo,
         \A p \in Procs : pc'[p] = "write" => pc[p] = "write" /\ job'[p] = job[p]
  PROVE  PushableDense'
BY DEF PushableDense, repo

\* A step of process p keeps what is pushable dense.
LEMMA DenseStep ==
  ASSUME PushableDense, NEW p \in Procs, Start(p) \/ Step(p) \/ Crash(p)
  PROVE  PushableDense'
<1> DEFINE c == Home[p]
           k == job[p].kind
<1>0. /\ TypeOK /\ TypeOK'
      /\ c \in Clones /\ k \in Kinds
      /\ pc \in [Procs -> Phases] /\ job \in [Procs -> Job]
      /\ head[c] \in Seq(Snapshot) /\ head[c] # <<>> /\ work[c] \in Snapshot
  BY TypeStep, LedgerAssumption DEF PushableDense, TypeOK, Job
<1> HIDE DEF c, k
<1>1. ASSUME NEW how \in Resting, Return(p, how)
      PROVE  \A q \in Procs : pc'[q] = "write" => pc[q] = "write" /\ job'[q] = job[q]
  BY <1>0, <1>1 DEF Return, Resting
<1>2. ASSUME NEW phase \in Phases \ {"write"}, pc' = [pc EXCEPT ![p] = phase],
             \A q \in Procs \ {p} : job'[q] = job[q]
      PROVE  \A q \in Procs : pc'[q] = "write" => pc[q] = "write" /\ job'[q] = job[q]
  BY <1>0, <1>2
<1>3. CASE Start(p)
  <2>1. \A q \in Procs \ {p} : job'[q] = job[q]
    BY <1>0, <1>3 DEF Start
  <2>2. pc' = [pc EXCEPT ![p] = "read"] /\ UNCHANGED repo
    BY <1>3, Zenon DEF Start
  <2> QED
    BY <1>0, <1>2, <2>1, <2>2, SameRepoDense DEF Phases
<1>4. CASE Read(p)
  <2>1. UNCHANGED repo
    BY <1>4 DEF Read
  <2>2. CASE job[p].left = 0
    BY <1>0, <1>1, <1>4, <2>1, <2>2, SameRepoDense DEF Read, Resting
  <2>3. CASE job[p].left # 0
    <3>1. pc' = [pc EXCEPT ![p] = "write"] /\ \A q \in Procs \ {p} : job'[q] = job[q]
      BY <1>0, <1>4, <2>3 DEF Read
    <3>2. job'[p].text = work[c][k]
      <4> DEFINE j == [job[p] EXCEPT !.text = work[c][k], !.left = job[p].left - 1]
      <4>1. job' = [job EXCEPT ![p] = j]
        BY <1>4, <2>3 DEF Read, c, k
      <4>2. j.text = work[c][k]
        BY <1>0 DEF Job
      <4> HIDE DEF j
      <4> QED
        BY <1>0, <4>1, <4>2
    <3>3. ~wedged[c] => Dense(work[c][k])
      BY <1>0 DEF PushableDense, DenseSnapshot
    <3> QED
      BY <1>0, <2>1, <3>1, <3>2, <3>3 DEF PushableDense, repo, c
  <2> QED
    BY <2>2, <2>3
<1>5. CASE Write(p)
  <2> DEFINE index == Append(job[p].text, [id |-> NextId(job[p].text), by |-> Cmd(p)])
  <2>1. job[p].text \in Seq(Entry) /\ Cmd(p) \in Command
    BY <1>0 DEF Job, TypeOK, Cmd, Command
  <2>2. ~wedged[c] => Dense(index)
    BY <1>5, <2>1, AppendKeepsDense DEF PushableDense, Write, c
  <2> HIDE DEF index
  <2>3. work' = [work EXCEPT ![c] = [work[c] EXCEPT ![k] = index]]
    BY <1>5 DEF Write, index, c, k
  <2>4. ASSUME NEW d \in Clones, ~wedged[d] PROVE DenseSnapshot(work'[d])
    BY <1>0, <2>2, <2>3, <2>4 DEF PushableDense, DenseSnapshot, TypeOK, Snapshot
  <2>5. pc' = [pc EXCEPT ![p] = "commit"] /\ \A q \in Procs \ {p} : job'[q] = job[q]
    BY <1>0, <1>5 DEF Write
  <2>6. \A q \in Procs : pc'[q] = "write" => pc[q] = "write" /\ job'[q] = job[q]
    BY <1>2, <2>5 DEF Phases
  <2> QED
    BY <1>0, <1>5, <2>4, <2>6 DEF Write, PushableDense
<1>6. CASE Commit(p)
  <2>1. CASE Return(p, "refused") /\ UNCHANGED <<head, answers>>
    <3>1. Return(p, "refused") /\ UNCHANGED repo
      BY <1>6, <2>1 DEF Commit, Files, repo, c, k
    <3> QED
      BY <1>0, <1>1, <3>1, SameRepoDense DEF Resting
  <2>2. CASE Files(p)
    <3> DEFINE snapshot == [Last(head[c]) EXCEPT ![k] = work[c][k]]
    <3>1. Last(head[c]) \in Snapshot
      BY <1>0, LastType
    <3>2. snapshot \in Snapshot
      BY <1>0, <3>1 DEF Snapshot
    <3>3. ~wedged[c] => DenseSnapshot(Last(head[c])) /\ DenseSnapshot(work[c])
      BY <1>0, LastDense DEF PushableDense
    <3>4. ~wedged[c] => DenseSnapshot(snapshot)
      BY <1>0, <3>1, <3>3 DEF DenseSnapshot, Snapshot
    <3> HIDE DEF snapshot
    <3>5. head' = [head EXCEPT ![c] = Append(head[c], snapshot)]
      BY <1>6, <2>2 DEF Commit, Files, snapshot, c, k
    <3>6. ASSUME NEW d \in Clones, ~wedged[d] PROVE DenseHistory(head'[d])
      BY <1>0, <3>2, <3>4, <3>5, <3>6, AppendDense DEF PushableDense, TypeOK
    <3>7. \A q \in Procs : pc'[q] = "write" => pc[q] = "write" /\ job'[q] = job[q]
      <4>1. CASE job[p].push
        BY <1>2, <1>6, <2>2, <4>1 DEF Commit, Files, Phases, c, k
      <4>2. CASE ~job[p].push
        BY <1>1, <1>6, <2>2, <4>2 DEF Commit, Files, Resting, c, k
      <4> QED
        BY <4>1, <4>2
    <3> QED
      BY <1>0, <1>6, <3>6, <3>7 DEF Commit, Files, PushableDense
  <2> QED
    BY <1>6, <2>1, <2>2 DEF Commit, Files
<1>7. ASSUME FastForward(c), origin' = head[c], UNCHANGED <<head, work, wedged>>,
             \A q \in Procs : pc'[q] = "write" => pc[q] = "write" /\ job'[q] = job[q]
      PROVE  PushableDense'
  BY <1>0, <1>7 DEF FastForward, PushableDense
<1>8. CASE PushAccepted(p)
  BY <1>1, <1>7, <1>8 DEF PushAccepted, Resting, c
<1>9. CASE PushRejected(p)
  BY <1>0, <1>2, <1>9, SameRepoDense DEF PushRejected, Phases
<1>10. CASE PushBroken(p)
  <2>1. \A q \in Procs \ {p} : job'[q] = job[q]
    BY <1>0, <1>10 DEF PushBroken
  <2>2. \A q \in Procs : pc'[q] = "write" => pc[q] = "write" /\ job'[q] = job[q]
    BY <1>2, <1>10, <2>1 DEF PushBroken, Phases
  <2>3. CASE UNCHANGED origin
    <3>1. UNCHANGED repo
      BY <1>10, <2>3 DEF PushBroken, repo
    <3> QED
      BY <1>0, <2>2, <3>1, SameRepoDense
  <2>4. CASE origin' = head[c]
    BY <1>7, <1>10, <2>2, <2>4 DEF PushBroken, c
  <2> QED
    BY <1>10, <2>3, <2>4 DEF PushBroken, c
<1>11. CASE Reset(p)
  <2>1. CASE Len(head[c]) = 1
    <3>1. Return(p, "failed") /\ UNCHANGED repo
      BY <1>11, <2>1 DEF Reset, repo, c
    <3> QED
      BY <1>0, <1>1, <3>1, SameRepoDense DEF Resting
  <2>2. CASE Len(head[c]) # 1
    <3>1. Len(head[c]) \in Nat /\ Len(head[c]) > 1
      BY <1>0, <2>2, LongerThanOne
    <3>2. /\ head' = [head EXCEPT ![c] = Front(head[c])]
          /\ work' = [work EXCEPT ![c] = head[c][Len(head[c]) - 1]]
          /\ pc' = [pc EXCEPT ![p] = "pull"]
          /\ UNCHANGED <<origin, wedged, job>>
      BY <1>11, <2>2 DEF Reset, c
    <3>3. ~wedged[c] => DenseHistory(Front(head[c])) /\ DenseSnapshot(head[c][Len(head[c]) - 1])
      BY <1>0, <3>1, FrontDense DEF PushableDense
    <3>4. ASSUME NEW d \in Clones, ~wedged[d]
          PROVE  DenseHistory(head'[d]) /\ DenseSnapshot(work'[d])
      BY <1>0, <3>2, <3>3, <3>4 DEF PushableDense, TypeOK
    <3>5. \A q \in Procs : pc'[q] = "write" => pc[q] = "write" /\ job'[q] = job[q]
      BY <1>2, <3>2 DEF Phases
    <3> QED
      BY <1>0, <3>2, <3>4, <3>5 DEF PushableDense
  <2> QED
    BY <2>1, <2>2
<1>12. CASE Pull(p)
  <2>1. CASE Return(p, "failed") /\ UNCHANGED <<head, work, wedged>>
    <3>1. UNCHANGED repo
      BY <1>12, <2>1 DEF Pull, repo
    <3> QED
      BY <1>0, <1>1, <2>1, <3>1, SameRepoDense DEF Resting
  <2>2. ASSUME NEW b \in 1..Len(head[c]), ~wedged[c],
               head' = [head EXCEPT ![c] = origin \o Replayed(c, b)],
               work' = [work EXCEPT ![c] = Last(head'[c])],
               pc' = [pc EXCEPT ![p] = "read"],
               UNCHANGED <<wedged, job>>
        PROVE  PushableDense'
    <3> DEFINE rebased == origin \o Replayed(c, b)
    <3>1. DenseHistory(Replayed(c, b)) /\ Replayed(c, b) \in Seq(Snapshot)
      BY <1>0, <2>2, ReplayedDense, ReplayedType DEF PushableDense
    <3>2. rebased \in Seq(Snapshot) /\ rebased # <<>>
      BY <1>0, <3>1 DEF TypeOK
    <3>3. DenseHistory(rebased)
      BY <1>0, <3>1, ConcatDense DEF PushableDense, TypeOK
    <3>4. DenseSnapshot(Last(rebased))
      BY <3>2, <3>3, LastDense
    <3> HIDE DEF rebased
    <3>5. head' = [head EXCEPT ![c] = rebased] /\ work' = [work EXCEPT ![c] = Last(rebased)]
      BY <1>0, <2>2 DEF rebased, TypeOK
    <3>6. ASSUME NEW d \in Clones, ~wedged[d]
          PROVE  DenseHistory(head'[d]) /\ DenseSnapshot(work'[d])
      BY <1>0, <3>3, <3>4, <3>5, <3>6 DEF PushableDense, TypeOK
    <3>7. \A q \in Procs : pc'[q] = "write" => pc[q] = "write" /\ job'[q] = job[q]
      BY <1>2, <2>2 DEF Phases
    <3> QED
      BY <1>0, <1>12, <2>2, <3>6, <3>7 DEF Pull, PushableDense
  <2>3. ASSUME NEW b \in 1..Len(head[c]),
               head' = [head EXCEPT ![c] = origin],
               work' = [work EXCEPT ![c] = Conflicted(c, b)],
               wedged' = [wedged EXCEPT ![c] = TRUE],
               Return(p, "failed")
        PROVE  PushableDense'
    <3>1. ASSUME NEW d \in Clones, ~wedged'[d]
          PROVE  ~wedged[d] /\ head'[d] = head[d] /\ work'[d] = work[d]
      BY <1>0, <2>3, <3>1 DEF TypeOK
    <3>2. \A q \in Procs : pc'[q] = "write" => pc[q] = "write" /\ job'[q] = job[q]
      BY <1>1, <2>3 DEF Resting
    <3>3. Home \in [Procs -> Clones] /\ UNCHANGED origin
      BY <1>12, LedgerAssumption DEF Pull
    <3> QED
      BY <1>0, <3>1, <3>2, <3>3 DEF PushableDense
  <2> QED
    BY <1>12, <2>1, <2>2, <2>3 DEF Pull, c
<1>13. CASE Crash(p)
  BY <1>0, <1>1, <1>13, SameRepoDense DEF Crash, Resting
<1> QED
  BY <1>3, <1>4, <1>5, <1>6, <1>8, <1>9, <1>10, <1>11, <1>12, <1>13 DEF Step

\* No published ledger ever holds a duplicate, a gap or a number out of order.
THEOREM DensityOfPublished == Spec => []PublishedDense
<1>1. Init => PushableDense
  <2> SUFFICES ASSUME Init PROVE PushableDense
    OBVIOUS
  <2>1. TypeOK
    BY TypeInit
  <2>2. DenseSnapshot(Empty)
    BY DEF DenseSnapshot, Empty, Dense
  <2>3. DenseHistory(<<Empty>>)
    BY <2>2 DEF DenseHistory
  <2> QED
    BY <2>1, <2>2, <2>3 DEF Init, PushableDense
<1>2. PushableDense /\ [Next]_vars => PushableDense'
  <2> SUFFICES ASSUME PushableDense, [Next]_vars PROVE PushableDense'
    OBVIOUS
  <2>1. CASE \E p \in Procs : Start(p) \/ Step(p) \/ Crash(p)
    BY <2>1, DenseStep
  <2>2. CASE \E c \in Clones : Edit(c)
    BY <2>2 DEF Edit, PushableDense, TypeOK, history
  <2>3. CASE UNCHANGED vars
    BY <2>3 DEF vars, PushableDense, TypeOK
  <2> QED
    BY <2>1, <2>2, <2>3 DEF Next
<1>3. PushableDense => PublishedDense
  BY DEF PushableDense, PublishedDense, DenseHistory, DenseSnapshot
<1> QED
  BY <1>1, <1>2, <1>3, PTL DEF Spec

-------------------------------------------------------------------------------
(***************************************************************************)
(* Prefixes                                                                *)
(***************************************************************************)

LEMMA PrefixPointwise ==
  ASSUME NEW S, NEW s \in Seq(S), NEW t \in Seq(S)
  PROVE  IsPrefix(s, t) <=> Len(s) <= Len(t) /\ \A i \in 1..Len(s) : s[i] = t[i]
<1>1. Len(s) \in Nat /\ Len(t) \in Nat /\ SubSeq(s, 1, Len(s)) = s
  OBVIOUS
<1>2. CASE Len(s) <= Len(t)
  <2>1. /\ SubSeq(t, 1, Len(s)) \in Seq(S) /\ Len(SubSeq(t, 1, Len(s))) = Len(s)
        /\ \A i \in 1..Len(s) : SubSeq(t, 1, Len(s))[i] = t[i]
    BY <1>1, <1>2
  <2> DEFINE u == SubSeq(t, 1, Len(s))
  <2>2. u \in Seq(S) /\ Len(u) = Len(s) /\ \A i \in 1..Len(s) : u[i] = t[i]
    BY <2>1
  <2> HIDE DEF u
  <2>3. s = u <=> \A i \in 1..Len(s) : s[i] = u[i]
    BY <2>2
  <2> QED
    BY <1>1, <1>2, <2>2, <2>3 DEF IsPrefix, u
<1>3. CASE ~(Len(s) <= Len(t))
  BY <1>3 DEF IsPrefix
<1> QED
  BY <1>2, <1>3

\* Every ledger of s goes on in t.
Extends(s, t) == \A k \in Kinds : IsPrefix(s[k], t[k])

LEMMA ExtendsReflexive == \A s \in Snapshot : Extends(s, s)
<1> SUFFICES ASSUME NEW s \in Snapshot, NEW k \in Kinds PROVE IsPrefix(s[k], s[k])
  BY DEF Extends
<1>1. s[k] \in Seq(Entry)
  BY DEF Snapshot
<1> QED
  BY <1>1, PrefixPointwise

LEMMA PrefixTransitive ==
  ASSUME NEW S, NEW s \in Seq(S), NEW t \in Seq(S), NEW u \in Seq(S),
         IsPrefix(s, t), IsPrefix(t, u)
  PROVE  IsPrefix(s, u)
<1>1. Len(s) <= Len(t) /\ \A i \in 1..Len(s) : s[i] = t[i]
  BY PrefixPointwise
<1>2. Len(t) <= Len(u) /\ \A i \in 1..Len(t) : t[i] = u[i]
  BY PrefixPointwise
<1>3. Len(s) \in Nat /\ Len(t) \in Nat /\ Len(u) \in Nat
  OBVIOUS
<1>4. Len(s) <= Len(u) /\ \A i \in 1..Len(s) : s[i] = u[i]
  BY <1>1, <1>2, <1>3
<1> QED
  BY <1>4, PrefixPointwise

LEMMA ExtendsTransitive ==
  \A s, t, u \in Snapshot : Extends(s, t) /\ Extends(t, u) => Extends(s, u)
<1> SUFFICES ASSUME NEW s \in Snapshot, NEW t \in Snapshot, NEW u \in Snapshot,
                    Extends(s, t), Extends(t, u), NEW k \in Kinds
             PROVE  IsPrefix(s[k], u[k])
  BY DEF Extends
<1>1. s[k] \in Seq(Entry) /\ t[k] \in Seq(Entry) /\ u[k] \in Seq(Entry)
  BY DEF Snapshot
<1>2. IsPrefix(s[k], t[k]) /\ IsPrefix(t[k], u[k])
  BY DEF Extends
<1> QED
  BY <1>1, <1>2, PrefixTransitive

LEMMA AppendExtends ==
  ASSUME NEW s \in Seq(Entry), NEW e \in Entry
  PROVE  IsPrefix(s, Append(s, e))
<1>1. /\ Append(s, e) \in Seq(Entry) /\ Len(s) <= Len(Append(s, e))
      /\ \A i \in 1..Len(s) : s[i] = Append(s, e)[i]
  OBVIOUS
<1> QED
  BY <1>1, PrefixPointwise

-------------------------------------------------------------------------------
(***************************************************************************)
(* Histories that grow                                                     *)
(***************************************************************************)

Grows(h) ==
  /\ h \in Seq(Snapshot) /\ h # <<>>
  /\ \A i, j \in 1..Len(h) : i <= j => Extends(h[i], h[j])

LEMMA GrowsLast ==
  ASSUME NEW h, Grows(h)
  PROVE  /\ Len(h) \in Nat /\ Len(h) >= 1 /\ Last(h) = h[Len(h)] /\ Last(h) \in Snapshot
         /\ \A i \in 1..Len(h) : h[i] \in Snapshot
<1>1. h \in Seq(Snapshot) /\ h # <<>>
  BY DEF Grows
<1>2. Len(h) \in Nat /\ Len(h) >= 1
  BY <1>1
<1>3. Last(h) = h[Len(h)] /\ \A i \in 1..Len(h) : h[i] \in Snapshot
  BY <1>1, <1>2 DEF Last
<1> QED
  BY <1>2, <1>3

LEMMA GrowsPrefix ==
  ASSUME NEW g, NEW h, Grows(g), Grows(h), IsPrefix(g, h)
  PROVE  Extends(Last(g), Last(h))
<1>1. Len(g) \in Nat /\ Len(g) >= 1 /\ Last(g) = g[Len(g)] /\ Len(h) \in Nat /\ Last(h) = h[Len(h)]
  BY GrowsLast
<1>2. Len(g) <= Len(h) /\ \A i \in 1..Len(g) : g[i] = h[i]
  BY PrefixPointwise DEF Grows
<1>3. Len(g) \in 1..Len(g) /\ Len(g) \in 1..Len(h) /\ Len(h) \in 1..Len(h)
  BY <1>1, <1>2
<1>4. Extends(h[Len(g)], h[Len(h)])
  BY <1>2, <1>3 DEF Grows
<1> QED
  BY <1>1, <1>2, <1>3, <1>4

\* A history goes on with another that grows from its end.
LEMMA GrowsConcat ==
  ASSUME NEW g, Grows(g), NEW h \in Seq(Snapshot),
         \A i, j \in 1..Len(h) : i <= j => Extends(h[i], h[j]),
         \A i \in 1..Len(h) : Extends(Last(g), h[i])
  PROVE  Grows(g \o h)
<1> DEFINE f == g \o h
           m == Len(g)
           n == Len(h)
<1>1. g \in Seq(Snapshot) /\ m \in Nat /\ m >= 1 /\ n \in Nat /\ Last(g) = g[m] /\ m \in 1..m
  BY GrowsLast DEF Grows
<1>2. /\ f \in Seq(Snapshot) /\ f # <<>> /\ Len(f) = m + n
      /\ \A i \in 1..m : f[i] = g[i]
      /\ \A i \in 1..n : f[m + i] = h[i]
  BY <1>1
<1>3. \A i \in 1..m : g[i] \in Snapshot
  BY GrowsLast
<1>4. \A i \in 1..n : h[i] \in Snapshot
  OBVIOUS
<1> HIDE DEF f
<1>5. ASSUME NEW i \in 1..Len(f), NEW j \in 1..Len(f), i <= j PROVE Extends(f[i], f[j])
  <2>1. CASE j <= m
    <3>1. i \in 1..m /\ j \in 1..m
      BY <1>1, <1>2, <1>5, <2>1
    <3>2. Extends(g[i], g[j])
      BY <1>5, <3>1 DEF Grows
    <3> QED
      BY <1>2, <3>1, <3>2
  <2>2. CASE i > m
    <3>1. i - m \in 1..n /\ j - m \in 1..n /\ i - m <= j - m /\ i = m + (i - m) /\ j = m + (j - m)
      BY <1>1, <1>2, <1>5, <2>2
    <3>2. Extends(h[i - m], h[j - m])
      BY <3>1
    <3>3. f[i] = h[i - m] /\ f[j] = h[j - m]
      BY <1>2, <3>1
    <3> QED
      BY <3>2, <3>3
  <2>3. CASE i <= m /\ j > m
    <3>1. i \in 1..m /\ j - m \in 1..n /\ j = m + (j - m)
      BY <1>1, <1>2, <1>5, <2>3
    <3>2. Extends(g[i], g[m])
      BY <1>1, <3>1 DEF Grows
    <3>3. Extends(g[m], h[j - m])
      BY <1>1, <3>1
    <3>4. f[i] = g[i] /\ f[j] = h[j - m]
      BY <1>2, <3>1
    <3>5. g[i] \in Snapshot /\ g[m] \in Snapshot /\ h[j - m] \in Snapshot
      BY <1>1, <1>3, <1>4, <3>1
    <3> HIDE DEF m, n
    <3> QED
      BY <3>2, <3>3, <3>4, <3>5, ExtendsTransitive
  <2> QED
    BY <1>1, <1>2, <1>5, <2>1, <2>2, <2>3
<1> QED
  BY <1>2, <1>5 DEF Grows, f

LEMMA GrowsAppend ==
  ASSUME NEW h, Grows(h), NEW s \in Snapshot, Extends(Last(h), s)
  PROVE  Grows(Append(h, s)) /\ Last(Append(h, s)) = s
<1>1. h \in Seq(Snapshot) /\ h # <<>> /\ Append(h, s) = h \o <<s>>
  BY DEF Grows
<1>2. <<s>> \in Seq(Snapshot) /\ Len(<<s>>) = 1 /\ <<s>>[1] = s
  OBVIOUS
<1>3. \A i, j \in 1..Len(<<s>>) : i <= j => Extends(<<s>>[i], <<s>>[j])
  BY <1>2, ExtendsReflexive
<1>4. \A i \in 1..Len(<<s>>) : Extends(Last(h), <<s>>[i])
  BY <1>2
<1>5. Grows(h \o <<s>>)
  BY <1>2, <1>3, <1>4, GrowsConcat
<1>6. Last(Append(h, s)) = s
  BY <1>1 DEF Last
<1> QED
  BY <1>1, <1>5, <1>6

LEMMA GrowsFront ==
  ASSUME NEW h, Grows(h), Len(h) > 1
  PROVE  Grows(Front(h)) /\ Last(Front(h)) = h[Len(h) - 1]
<1>1. h \in Seq(Snapshot) /\ Len(h) \in Nat
  BY DEF Grows
<1>2. /\ Front(h) \in Seq(Snapshot) /\ Front(h) # <<>> /\ Len(Front(h)) = Len(h) - 1
      /\ \A i \in 1..(Len(h) - 1) : Front(h)[i] = h[i]
  BY <1>1, FrontType
<1>3. Last(Front(h)) = h[Len(h) - 1]
  BY <1>1, <1>2 DEF Last
<1>4. \A i, j \in 1..Len(Front(h)) : i <= j => Extends(Front(h)[i], Front(h)[j])
  <2> SUFFICES ASSUME NEW i \in 1..Len(Front(h)), NEW j \in 1..Len(Front(h)), i <= j
               PROVE  Extends(Front(h)[i], Front(h)[j])
    OBVIOUS
  <2>1. /\ i \in 1..(Len(h) - 1) /\ j \in 1..(Len(h) - 1)
        /\ i \in 1..Len(h) /\ j \in 1..Len(h)
    BY <1>1, <1>2
  <2>2. Extends(h[i], h[j])
    BY <2>1 DEF Grows
  <2> QED
    BY <1>2, <2>1, <2>2
<1> QED
  BY <1>2, <1>3, <1>4 DEF Grows

\* What a rebase replays goes on from origin: a ledger origin changed is origin's, and the
\* others, which origin has as they were at the merge base, go on from there.
LEMMA ReplayedGrows ==
  ASSUME TypeOK, NEW c \in Clones, NEW b \in 1..Len(head[c]), MergeBase(b, head[c], origin),
         Grows(origin), Grows(head[c])
  PROVE  /\ \A i, j \in 1..Len(Replayed(c, b)) :
               i <= j => Extends(Replayed(c, b)[i], Replayed(c, b)[j])
         /\ \A i \in 1..Len(Replayed(c, b)) : Extends(Last(origin), Replayed(c, b)[i])
<1> DEFINE r == Replayed(c, b)
           n == Len(head[c]) - b
<1>1. Len(head[c]) \in Nat /\ b \in Nat /\ b >= 1 /\ n \in Nat
  BY DEF Grows
<1>2. Len(r) = n
  BY <1>1 DEF Replayed
<1>3. \A i \in 1..n : \A k \in Kinds :
        r[i][k] = IF k \in Changed(origin, b) THEN Last(origin)[k] ELSE head[c][b + i][k]
  BY DEF Replayed
<1>4. origin[b] = head[c][b] /\ b <= Len(origin) /\ origin \in Seq(Snapshot)
  <2>1. /\ head[c] \in Seq(Snapshot) /\ origin \in Seq(Snapshot) /\ Len(origin) \in Nat
        /\ b <= Len(head[c]) /\ b <= Len(origin)
        /\ SubSeq(head[c], 1, b) = SubSeq(origin, 1, b)
    BY DEF MergeBase, Grows
  <2>2. SubSeq(head[c], 1, b)[b] = head[c][b]
    BY <1>1, <2>1
  <2>3. SubSeq(origin, 1, b)[b] = origin[b]
    BY <1>1, <2>1
  <2> QED
    BY <2>1, <2>2, <2>3
<1>5. \A k \in Kinds : k \notin Changed(origin, b) => Last(origin)[k] = head[c][b][k]
  BY <1>4 DEF Changed
<1>6. \A i \in 1..n : b + i \in 1..Len(head[c]) /\ b <= b + i /\ b \in 1..Len(head[c])
  BY <1>1
<1>7. Last(origin) \in Snapshot /\ \A i \in 1..n : head[c][b + i] \in Snapshot
  BY <1>6, GrowsLast
<1> HIDE DEF r, n
<1>8. ASSUME NEW i \in 1..n, NEW k \in Kinds PROVE IsPrefix(Last(origin)[k], r[i][k])
  <2>1. CASE k \in Changed(origin, b)
    BY <1>3, <1>7, <2>1, ExtendsReflexive DEF Extends
  <2>2. CASE k \notin Changed(origin, b)
    <3>1. Extends(head[c][b], head[c][b + i])
      BY <1>6 DEF Grows
    <3> QED
      BY <1>3, <1>5, <2>2, <3>1 DEF Extends
  <2> QED
    BY <2>1, <2>2
<1>9. ASSUME NEW i \in 1..n, NEW j \in 1..n, i <= j, NEW k \in Kinds
      PROVE  IsPrefix(r[i][k], r[j][k])
  <2>1. CASE k \in Changed(origin, b)
    BY <1>3, <1>7, <2>1, ExtendsReflexive DEF Extends
  <2>2. CASE k \notin Changed(origin, b)
    <3>1. b + i <= b + j
      BY <1>1, <1>9
    <3>2. Extends(head[c][b + i], head[c][b + j])
      BY <1>6, <3>1 DEF Grows
    <3> QED
      BY <1>3, <2>2, <3>2 DEF Extends
  <2> QED
    BY <2>1, <2>2
<1>10. /\ \A i, j \in 1..n : i <= j => Extends(r[i], r[j])
       /\ \A i \in 1..n : Extends(Last(origin), r[i])
  BY <1>8, <1>9 DEF Extends
<1> QED
  BY <1>2, <1>10 DEF r

-------------------------------------------------------------------------------
(***************************************************************************)
(* The invariant                                                           *)
(***************************************************************************)

\* The index has the entry of p's command under the number p holds.
Holding(p, index) ==
  job[p].id \in DOMAIN index /\ index[job[p].id] = [id |-> job[p].id, by |-> Cmd(p)]

\* A working copy that can push goes on from its HEAD, and its HEAD grew.
CloneKept(c) == ~wedged[c] => Grows(head[c]) /\ Extends(Last(head[c]), work[c])

\* A command that is alone in its working copy holds the text that is in it, and once it
\* has written, the number of its entry.
ProcKept(p) ==
  ~wedged[Home[p]] =>
    /\ pc[p] = "write" => job[p].text = work[Home[p]][job[p].kind]
    /\ pc[p] = "commit" => Holding(p, work[Home[p]][job[p].kind])
    /\ pc[p] = "push" => Holding(p, Last(head[Home[p]])[job[p].kind])

KeepInv ==
  /\ PushableDense
  /\ Grows(origin)
  /\ \A c \in Clones : CloneKept(c)
  /\ \A p \in Procs : ProcKept(p)
  /\ AnswerIsPublished

\* A step of p changes p and its working copy only.
Alone(p) ==
  /\ \A d \in Clones \ {Home[p]} :
       head'[d] = head[d] /\ work'[d] = work[d] /\ wedged'[d] = wedged[d]
  /\ \A q \in Procs \ {p} : pc'[q] = pc[q] /\ job'[q] = job[q] /\ ops'[q] = ops[q]

LEMMA AloneKeeps ==
  ASSUME Private, KeepInv, NEW p \in Procs, Alone(p), PushableDense', Grows(origin'),
         CloneKept(Home[p])', ProcKept(p)', AnswerIsPublished'
  PROVE  KeepInv'
<1>1. Home[p] \in Clones /\ \A q \in Procs \ {p} : Home[q] \in Clones \ {Home[p]}
  BY LedgerAssumption DEF Private
<1>2. ASSUME NEW d \in Clones PROVE CloneKept(d)'
  BY <1>1 DEF KeepInv, CloneKept, Alone
<1>3. ASSUME NEW q \in Procs PROVE ProcKept(q)'
  BY <1>1 DEF KeepInv, ProcKept, Holding, Cmd, Alone
<1> QED
  BY <1>2, <1>3 DEF KeepInv

\* The answers stay true while origin grows, if the new ones are.
LEMMA AnswersKept ==
  ASSUME TypeOK, AnswerIsPublished, Extends(Last(origin), Last(origin')),
         Last(origin) \in Snapshot, Last(origin') \in Snapshot,
         \A a \in answers' \ answers : a.push =>
           /\ a.id \in DOMAIN Last(origin')[a.kind]
           /\ Last(origin')[a.kind][a.id] = [id |-> a.id, by |-> a.by]
  PROVE  AnswerIsPublished'
<1> SUFFICES ASSUME NEW a \in answers', a.push
             PROVE  /\ a.id \in DOMAIN Last(origin')[a.kind]
                    /\ Last(origin')[a.kind][a.id] = [id |-> a.id, by |-> a.by]
  BY DEF AnswerIsPublished
<1>1. CASE a \in answers
  <2>1. a.kind \in Kinds /\ a.id \in Nat
    BY <1>1 DEF TypeOK, Answer
  <2> DEFINE s == Last(origin)[a.kind]
             t == Last(origin')[a.kind]
  <2>2. s \in Seq(Entry) /\ t \in Seq(Entry) /\ IsPrefix(s, t)
    BY <2>1 DEF Snapshot, Extends
  <2>3. a.id \in DOMAIN s /\ s[a.id] = [id |-> a.id, by |-> a.by]
    BY <1>1 DEF AnswerIsPublished
  <2> HIDE DEF s, t
  <2>4. a.id \in 1..Len(s)
    BY <2>2, <2>3
  <2>5. Len(s) <= Len(t) /\ s[a.id] = t[a.id]
    BY <2>2, <2>4, PrefixPointwise
  <2>6. a.id \in DOMAIN t
    BY <2>2, <2>4, <2>5
  <2> QED
    BY <2>3, <2>5, <2>6 DEF t
<1>2. CASE a \notin answers
  BY <1>2
<1> QED
  BY <1>1, <1>2

-------------------------------------------------------------------------------
(***************************************************************************)
(* Every step keeps it                                                     *)
(***************************************************************************)

\* A step of p that leaves the repositories alone and after which p is not about to write,
\* commit or push.
LEMMA QuietKeeps ==
  ASSUME Private, KeepInv, NEW p \in Procs, PushableDense', UNCHANGED repo,
         pc'[p] \notin {"write", "commit", "push"}, answers' = answers,
         \A q \in Procs \ {p} : pc'[q] = pc[q] /\ job'[q] = job[q] /\ ops'[q] = ops[q]
  PROVE  KeepInv' /\ Extends(Last(origin), Last(origin'))
<1>1. Home[p] \in Clones /\ UNCHANGED <<origin, head, work, wedged>>
  BY LedgerAssumption DEF repo
<1>2. Alone(p) /\ CloneKept(Home[p])' /\ ProcKept(p)' /\ AnswerIsPublished'
  BY <1>1 DEF Alone, KeepInv, CloneKept, ProcKept, AnswerIsPublished
<1>3. Grows(origin') /\ Extends(Last(origin), Last(origin'))
  BY <1>1, GrowsLast, ExtendsReflexive DEF KeepInv
<1> QED
  BY <1>2, <1>3, AloneKeeps

LEMMA KeepStep ==
  ASSUME Private, KeepInv, NEW p \in Procs, Start(p) \/ Step(p) \/ Crash(p)
  PROVE  KeepInv' /\ Extends(Last(origin), Last(origin'))
<1> DEFINE c == Home[p]
           k == job[p].kind
<1>0. /\ TypeOK /\ PushableDense /\ PushableDense' /\ TypeOK'
      /\ c \in Clones /\ k \in Kinds /\ job[p] \in Job /\ Cmd(p) \in Command
      /\ pc \in [Procs -> Phases] /\ job \in [Procs -> Job] /\ ops \in [Procs -> Nat]
      /\ head[c] \in Seq(Snapshot) /\ head[c] # <<>> /\ work[c] \in Snapshot
      /\ head \in [Clones -> Seq(Snapshot)] /\ work \in [Clones -> Snapshot]
      /\ wedged \in [Clones -> BOOLEAN]
  BY DenseStep, LedgerAssumption DEF KeepInv, PushableDense, TypeOK, Job, Cmd, Command
<1>00. /\ Grows(origin) /\ CloneKept(c) /\ ProcKept(p) /\ AnswerIsPublished
       /\ Last(origin) \in Snapshot /\ Extends(Last(origin), Last(origin))
  BY <1>0, GrowsLast, ExtendsReflexive DEF KeepInv
<1> HIDE DEF c, k
<1>1. ASSUME NEW how \in Resting, Return(p, how)
      PROVE  /\ pc'[p] = how /\ pc'[p] \notin {"write", "commit", "push"}
             /\ \A q \in Procs \ {p} : pc'[q] = pc[q] /\ job'[q] = job[q]
  BY <1>0, <1>1 DEF Return, Resting
<1>2. CASE Start(p)
  <2>1. /\ pc' = [pc EXCEPT ![p] = "read"] /\ ops' = [ops EXCEPT ![p] = ops[p] + 1]
        /\ UNCHANGED repo /\ answers' = answers
    BY <1>2, Zenon DEF Start, history
  <2>2. \A q \in Procs \ {p} : job'[q] = job[q]
    BY <1>0, <1>2 DEF Start
  <2>3. /\ pc'[p] \notin {"write", "commit", "push"}
        /\ \A q \in Procs \ {p} : pc'[q] = pc[q] /\ job'[q] = job[q] /\ ops'[q] = ops[q]
    BY <1>0, <2>1, <2>2
  <2> QED
    BY <1>0, <2>1, <2>3, QuietKeeps
<1>3. CASE Read(p)
  <2>0. UNCHANGED repo /\ ops' = ops /\ answers' = answers
    BY <1>3 DEF Read, history
  <2>1. CASE job[p].left = 0
    BY <1>0, <1>1, <1>3, <2>0, <2>1, QuietKeeps DEF Read, Resting
  <2>2. CASE job[p].left # 0
    <3> DEFINE j == [job[p] EXCEPT !.text = work[c][k], !.left = job[p].left - 1]
    <3>1. job' = [job EXCEPT ![p] = j] /\ pc' = [pc EXCEPT ![p] = "write"]
      BY <1>3, <2>2 DEF Read, c, k
    <3>2. j.text = work[c][k] /\ j.kind = k
      BY <1>0 DEF Job, k
    <3> HIDE DEF j
    <3>3. /\ job'[p].text = work[c][k] /\ job'[p].kind = k /\ pc'[p] = "write"
          /\ \A q \in Procs \ {p} : pc'[q] = pc[q] /\ job'[q] = job[q]
      BY <1>0, <3>1, <3>2
    <3>4. Alone(p) /\ CloneKept(c)' /\ ProcKept(p)' /\ AnswerIsPublished'
      BY <1>00, <2>0, <3>3 DEF Alone, CloneKept, ProcKept, AnswerIsPublished, repo, c
    <3>5. Grows(origin') /\ Extends(Last(origin), Last(origin'))
      BY <1>00, <2>0 DEF repo
    <3> QED
      BY <1>0, <3>4, <3>5, AloneKeeps DEF c
  <2> QED
    BY <2>1, <2>2
<1>4. CASE Write(p)
  <2> DEFINE text == job[p].text
             entry == [id |-> NextId(text), by |-> Cmd(p)]
             index == Append(text, entry)
             j == [job[p] EXCEPT !.id = NextId(text), !.text = <<>>]
  <2>1. pc[p] = "write" /\ text \in Seq(Entry) /\ entry \in Entry /\ NextId(text) \in Nat
    <3>1. pc[p] = "write" /\ text \in Seq(Entry)
      BY <1>0, <1>4 DEF Write, Job
    <3> QED
      BY <1>0, <3>1, NextIdType DEF Entry
  <2>2. ~wedged[c] => text = work[c][k] /\ NextId(text) = Len(text) + 1
    BY <1>0, <1>00, <2>1, NextIdOfDense DEF ProcKept, PushableDense, c, k
  <2>3. index \in Seq(Entry) /\ Len(index) = Len(text) + 1 /\ index[Len(text) + 1] = entry
    BY <2>1
  <2>4. /\ job' = [job EXCEPT ![p] = j] /\ pc' = [pc EXCEPT ![p] = "commit"]
        /\ work' = [work EXCEPT ![c] = [work[c] EXCEPT ![k] = index]]
        /\ UNCHANGED <<origin, head, wedged, ops, answers>>
    BY <1>4 DEF Write, history, c, k
  <2>5. j.id = NextId(text) /\ j.kind = k
    BY <1>0 DEF Job, k
  <2>6. IsPrefix(text, index)
    BY <2>1, AppendExtends
  <2>7. Len(text) \in Nat /\ DOMAIN index = 1..(Len(text) + 1)
    BY <2>1, <2>3
  <2> HIDE DEF text, entry, index, j
  <2>8. /\ job'[p].id = NextId(text) /\ job'[p].kind = k /\ pc'[p] = "commit"
        /\ work'[c][k] = index /\ \A l \in Kinds \ {k} : work'[c][l] = work[c][l]
        /\ \A q \in Procs \ {p} : pc'[q] = pc[q] /\ job'[q] = job[q]
        /\ \A d \in Clones \ {c} : work'[d] = work[d]
    BY <1>0, <2>4, <2>5 DEF Snapshot
  <2>9. ~wedged[c] => Extends(work[c], work'[c])
    <3>1. \A l \in Kinds : IsPrefix(work[c][l], work[c][l])
      BY <1>0, ExtendsReflexive DEF Extends
    <3> QED
      BY <2>2, <2>6, <2>8, <3>1 DEF Extends
  <2>10. CloneKept(c)'
    <3>1. ~wedged[c] => Last(head[c]) \in Snapshot
      BY <1>00, GrowsLast DEF CloneKept
    <3>2. work'[c] \in Snapshot
      BY <1>0 DEF TypeOK
    <3> QED
      BY <1>0, <1>00, <2>4, <2>9, <3>1, <3>2, ExtendsTransitive DEF CloneKept
  <2>11. ProcKept(p)'
    <3>1. Cmd(p)' = Cmd(p)
      BY <2>4 DEF Cmd
    <3>2. ~wedged[c] => NextId(text) \in DOMAIN index
                     /\ index[NextId(text)] = [id |-> NextId(text), by |-> Cmd(p)]
      BY <2>2, <2>3, <2>7 DEF entry
    <3> QED
      BY <2>4, <2>8, <3>1, <3>2 DEF ProcKept, Holding, c
  <2>12. Alone(p) /\ AnswerIsPublished'
    BY <1>00, <2>4, <2>8 DEF Alone, AnswerIsPublished, c
  <2> QED
    BY <1>0, <1>00, <2>4, <2>10, <2>11, <2>12, AloneKeeps DEF c
<1>5. CASE Commit(p)
  <2>0. pc[p] = "commit" /\ UNCHANGED <<origin, work, wedged, ops>>
    BY <1>5 DEF Commit, Files
  <2>1. CASE Return(p, "refused") /\ UNCHANGED <<head, answers>>
    <3>1. Return(p, "refused") /\ UNCHANGED repo /\ answers' = answers
      BY <1>5, <2>1 DEF Commit, Files, repo, c, k
    <3> QED
      BY <1>0, <1>1, <2>0, <3>1, QuietKeeps DEF Resting
  <2>2. CASE Files(p)
    <3> DEFINE snapshot == [Last(head[c]) EXCEPT ![k] = work[c][k]]
    <3>1. Last(head[c]) \in Snapshot
      BY <1>0, LastType
    <3>2. /\ snapshot \in Snapshot /\ snapshot[k] = work[c][k]
          /\ \A l \in Kinds \ {k} : snapshot[l] = Last(head[c])[l]
      BY <1>0, <3>1 DEF Snapshot
    <3> HIDE DEF snapshot
    <3>3. head' = [head EXCEPT ![c] = Append(head[c], snapshot)]
      BY <1>5, <2>2 DEF Commit, Files, snapshot, c, k
    <3>4. ~wedged[c] => Extends(Last(head[c]), snapshot) /\ Extends(snapshot, work[c])
      <4>1. /\ \A l \in Kinds : IsPrefix(work[c][l], work[c][l])
            /\ \A l \in Kinds : IsPrefix(Last(head[c])[l], Last(head[c])[l])
        BY <1>0, <3>1, ExtendsReflexive DEF Extends
      <4> QED
        BY <1>00, <3>2, <4>1 DEF CloneKept, Extends
    <3>5. ~wedged[c] => Grows(Append(head[c], snapshot)) /\ Last(Append(head[c], snapshot)) = snapshot
      BY <1>00, <3>2, <3>4, GrowsAppend DEF CloneKept
    <3>6. head'[c] = Append(head[c], snapshot) /\ \A d \in Clones \ {c} : head'[d] = head[d]
      BY <1>0, <3>3
    <3>7. CloneKept(c)'
      BY <2>0, <3>4, <3>5, <3>6 DEF CloneKept
    <3>8. /\ \A q \in Procs \ {p} : pc'[q] = pc[q] /\ job'[q] = job[q]
          /\ (pc'[p] = "push" /\ job' = job) \/ pc'[p] = "idle"
      <4>1. CASE job[p].push
        BY <1>0, <1>5, <2>2, <4>1 DEF Commit, Files, c, k
      <4>2. CASE ~job[p].push
        BY <1>1, <1>5, <2>2, <4>2 DEF Commit, Files, Resting, c, k
      <4> QED
        BY <4>1, <4>2
    <3>9. ProcKept(p)'
      <4>1. Cmd(p)' = Cmd(p)
        BY <2>0 DEF Cmd
      <4>2. ~wedged[c] => Holding(p, work[c][k])
        BY <1>00, <2>0 DEF ProcKept, c, k
      <4>3. ~wedged[c] => Holding(p, Last(head'[c])[k])
        BY <3>2, <3>5, <3>6, <4>2
      <4>4. CASE pc'[p] = "push" /\ job' = job
        <5>1. wedged'[Home[p]] = wedged[c] /\ job'[p] = job[p]
          BY <2>0, <4>4 DEF c
        <5> QED
          BY <4>1, <4>3, <4>4, <5>1 DEF ProcKept, Holding, c, k
      <4>5. CASE pc'[p] = "idle"
        BY <4>5 DEF ProcKept
      <4> QED
        BY <3>8, <4>4, <4>5
    <3>10. Alone(p)
      BY <2>0, <3>6, <3>8 DEF Alone, c
    <3>11. AnswerIsPublished'
      <4>1. \A a \in answers' \ answers : ~a.push
        BY <1>5, <2>2 DEF Commit, Files, Answered, c, k
      <4> QED
        BY <1>0, <1>00, <2>0, <4>1, AnswersKept
    <3> QED
      BY <1>0, <1>00, <2>0, <3>7, <3>9, <3>10, <3>11, AloneKeeps DEF c
  <2> QED
    BY <1>5, <2>1, <2>2 DEF Commit, Files
\* A push of a HEAD that origin takes.
<1>6. ASSUME FastForward(c), pc[p] = "push", origin' = head[c],
             UNCHANGED <<head, work, wedged, ops>>,
             pc'[p] \notin {"write", "commit", "push"},
             \A q \in Procs \ {p} : pc'[q] = pc[q] /\ job'[q] = job[q],
             answers' = answers \/ answers' = answers \cup {Answered(p)}
      PROVE  KeepInv' /\ Extends(Last(origin), Last(origin'))
  <2>1. ~wedged[c] /\ IsPrefix(origin, head[c]) /\ Grows(head[c])
    BY <1>00, <1>6 DEF FastForward, CloneKept
  <2>2. Extends(Last(origin), Last(origin')) /\ Grows(origin') /\ Last(origin') \in Snapshot
    BY <1>00, <1>6, <2>1, GrowsPrefix, GrowsLast
  <2>3. Alone(p) /\ CloneKept(c)' /\ ProcKept(p)'
    BY <1>00, <1>6 DEF Alone, CloneKept, ProcKept, c
  <2>4. Holding(p, Last(origin')[k])
    BY <1>00, <1>6, <2>1 DEF ProcKept, c, k
  <2>5. \A a \in answers' \ answers :
           /\ a.id \in DOMAIN Last(origin')[a.kind]
           /\ Last(origin')[a.kind][a.id] = [id |-> a.id, by |-> a.by]
    BY <1>6, <2>4 DEF Answered, Holding, k
  <2>6. AnswerIsPublished'
    BY <1>0, <1>00, <2>2, <2>5, AnswersKept
  <2> QED
    BY <1>0, <2>2, <2>3, <2>6, AloneKeeps DEF c
<1>7. CASE PushAccepted(p)
  BY <1>1, <1>6, <1>7 DEF PushAccepted, Resting, c
<1>8. CASE PushRejected(p)
  <2>1. /\ pc' = [pc EXCEPT ![p] = "reset"] /\ UNCHANGED repo
        /\ UNCHANGED <<job, ops>> /\ answers' = answers
    BY <1>8 DEF PushRejected, history
  <2>2. /\ pc'[p] \notin {"write", "commit", "push"}
        /\ \A q \in Procs \ {p} : pc'[q] = pc[q]
    BY <1>0, <2>1
  <2> QED
    BY <1>0, <2>1, <2>2, QuietKeeps
<1>9. CASE PushBroken(p)
  <2>1. /\ pc' = [pc EXCEPT ![p] = "reset"] /\ FastForward(c) /\ pc[p] = "push"
        /\ UNCHANGED <<head, work, edit, wedged, ops, answers>>
        /\ origin' = origin \/ origin' = head[c]
    BY <1>9 DEF PushBroken, c
  <2>2. \A q \in Procs \ {p} : job'[q] = job[q]
    BY <1>0, <1>9 DEF PushBroken
  <2>3. /\ pc'[p] \notin {"write", "commit", "push"}
        /\ \A q \in Procs \ {p} : pc'[q] = pc[q] /\ job'[q] = job[q]
    BY <1>0, <2>1, <2>2
  <2>4. CASE origin' = origin
    BY <1>0, <2>1, <2>3, <2>4, QuietKeeps DEF repo
  <2>5. CASE origin' = head[c]
    BY <1>6, <2>1, <2>3, <2>5
  <2> QED
    BY <2>1, <2>4, <2>5
\* A step that leaves the working copy as some HEAD, and p not about to write or push.
<1>10. ASSUME NEW h, Grows(h), head' = [head EXCEPT ![c] = h], work' = [work EXCEPT ![c] = Last(h)],
              UNCHANGED <<origin, wedged, ops, answers>>,
              pc'[p] \notin {"write", "commit", "push"},
              \A q \in Procs \ {p} : pc'[q] = pc[q] /\ job'[q] = job[q]
       PROVE  KeepInv' /\ Extends(Last(origin), Last(origin'))
  <2>1. /\ head'[c] = h /\ work'[c] = Last(h)
        /\ \A d \in Clones \ {c} : head'[d] = head[d] /\ work'[d] = work[d]
    BY <1>0, <1>10
  <2>2. Extends(Last(h), Last(h))
    BY <1>10, GrowsLast, ExtendsReflexive
  <2>3. Alone(p) /\ CloneKept(c)' /\ ProcKept(p)' /\ AnswerIsPublished'
    BY <1>00, <1>10, <2>1, <2>2 DEF Alone, CloneKept, ProcKept, AnswerIsPublished, c
  <2> QED
    BY <1>0, <1>00, <1>10, <2>3, AloneKeeps DEF c
\* A step that leaves a stopped rebase behind, or works in one.
<1>11. ASSUME wedged'[c], \A d \in Clones \ {c} :
                head'[d] = head[d] /\ work'[d] = work[d] /\ wedged'[d] = wedged[d],
              UNCHANGED <<origin, ops, answers>>,
              \A q \in Procs \ {p} : pc'[q] = pc[q] /\ job'[q] = job[q]
       PROVE  KeepInv' /\ Extends(Last(origin), Last(origin'))
  <2>1. Alone(p) /\ CloneKept(c)' /\ ProcKept(p)' /\ AnswerIsPublished'
    BY <1>00, <1>11 DEF Alone, CloneKept, ProcKept, AnswerIsPublished, c
  <2> QED
    BY <1>0, <1>00, <1>11, <2>1, AloneKeeps DEF c
<1>12. CASE Reset(p)
  <2>1. CASE Len(head[c]) = 1
    <3>1. Return(p, "failed") /\ UNCHANGED repo /\ ops' = ops /\ answers' = answers
      BY <1>12, <2>1 DEF Reset, repo, history, c
    <3> QED
      BY <1>0, <1>1, <3>1, QuietKeeps DEF Resting
  <2>2. CASE Len(head[c]) # 1
    <3>1. Len(head[c]) \in Nat /\ Len(head[c]) > 1
      BY <1>0, <2>2, LongerThanOne
    <3>2. /\ head' = [head EXCEPT ![c] = Front(head[c])]
          /\ work' = [work EXCEPT ![c] = head[c][Len(head[c]) - 1]]
          /\ pc' = [pc EXCEPT ![p] = "pull"]
          /\ UNCHANGED <<origin, wedged, job, ops, answers>>
      BY <1>12, <2>2 DEF Reset, history, c
    <3>3. /\ pc'[p] \notin {"write", "commit", "push"}
          /\ \A q \in Procs \ {p} : pc'[q] = pc[q] /\ job'[q] = job[q]
      BY <1>0, <3>2
    <3>4. CASE ~wedged[c]
      <4>1. Grows(Front(head[c])) /\ Last(Front(head[c])) = head[c][Len(head[c]) - 1]
        BY <1>00, <3>1, <3>4, GrowsFront DEF CloneKept
      <4> QED
        BY <1>10, <3>2, <3>3, <4>1
    <3>5. CASE wedged[c]
      <4>1. wedged'[c] /\ \A d \in Clones \ {c} :
                head'[d] = head[d] /\ work'[d] = work[d] /\ wedged'[d] = wedged[d]
        BY <1>0, <3>2, <3>5
      <4> QED
        BY <1>11, <3>2, <3>3, <4>1
    <3> QED
      BY <3>4, <3>5
  <2> QED
    BY <2>1, <2>2
<1>13. CASE Pull(p)
  <2>0. UNCHANGED <<origin, edit, ops, answers>>
    BY <1>13 DEF Pull, history
  <2>1. CASE Return(p, "failed") /\ UNCHANGED <<head, work, wedged>>
    BY <1>0, <1>1, <2>0, <2>1, QuietKeeps DEF Resting, repo
  <2>2. ASSUME NEW b \in 1..Len(head[c]), ~wedged[c], MergeBase(b, head[c], origin),
               head' = [head EXCEPT ![c] = origin \o Replayed(c, b)],
               work' = [work EXCEPT ![c] = Last(head'[c])],
               pc' = [pc EXCEPT ![p] = "read"],
               UNCHANGED <<wedged, job>>
        PROVE  KeepInv' /\ Extends(Last(origin), Last(origin'))
    <3> DEFINE rebased == origin \o Replayed(c, b)
    <3>1. Grows(head[c])
      BY <1>00, <2>2 DEF CloneKept
    <3>2. /\ Replayed(c, b) \in Seq(Snapshot)
          /\ \A i, j \in 1..Len(Replayed(c, b)) :
               i <= j => Extends(Replayed(c, b)[i], Replayed(c, b)[j])
          /\ \A i \in 1..Len(Replayed(c, b)) : Extends(Last(origin), Replayed(c, b)[i])
      BY <1>0, <1>00, <2>2, <3>1, ReplayedGrows, ReplayedType
    <3>3. Grows(rebased)
      BY <1>00, <3>2, GrowsConcat
    <3> HIDE DEF rebased
    <3>4. head' = [head EXCEPT ![c] = rebased] /\ work' = [work EXCEPT ![c] = Last(rebased)]
      BY <1>0, <2>2 DEF rebased
    <3>5. /\ pc'[p] \notin {"write", "commit", "push"}
          /\ \A q \in Procs \ {p} : pc'[q] = pc[q] /\ job'[q] = job[q]
      BY <1>0, <2>2
    <3> QED
      BY <1>10, <2>0, <2>2, <3>3, <3>4, <3>5
  <2>3. ASSUME NEW b \in 1..Len(head[c]),
               head' = [head EXCEPT ![c] = origin],
               work' = [work EXCEPT ![c] = Conflicted(c, b)],
               wedged' = [wedged EXCEPT ![c] = TRUE],
               Return(p, "failed")
        PROVE  KeepInv' /\ Extends(Last(origin), Last(origin'))
    <3>1. wedged'[c] /\ \A d \in Clones \ {c} :
                head'[d] = head[d] /\ work'[d] = work[d] /\ wedged'[d] = wedged[d]
      BY <1>0, <2>3
    <3> QED
      BY <1>1, <1>11, <2>0, <2>3, <3>1 DEF Resting
  <2> QED
    BY <1>13, <2>1, <2>2, <2>3 DEF Pull, c
<1>14. CASE Crash(p)
  <2>1. Return(p, "idle") /\ UNCHANGED repo /\ ops' = ops /\ answers' = answers
    BY <1>14 DEF Crash, history
  <2> QED
    BY <1>0, <1>1, <2>1, QuietKeeps DEF Resting
<1> QED
  BY <1>2, <1>3, <1>4, <1>5, <1>7, <1>8, <1>9, <1>12, <1>13, <1>14 DEF Step

LEMMA KeepInit == Init => KeepInv
<1> SUFFICES ASSUME Init PROVE KeepInv
  OBVIOUS
<1>1. PushableDense
  <2>1. DenseSnapshot(Empty)
    BY DEF DenseSnapshot, Empty, Dense
  <2>2. DenseHistory(<<Empty>>)
    BY <2>1 DEF DenseHistory
  <2> QED
    BY TypeInit, <2>1, <2>2 DEF Init, PushableDense
<1>2. Empty \in Snapshot
  BY DEF Empty, Snapshot
<1>3. Grows(<<Empty>>) /\ Last(<<Empty>>) = Empty /\ Extends(Empty, Empty)
  <2>1. <<Empty>> \in Seq(Snapshot) /\ <<Empty>> # <<>> /\ Len(<<Empty>>) = 1 /\ <<Empty>>[1] = Empty
    BY <1>2
  <2>2. Extends(Empty, Empty)
    BY <1>2, ExtendsReflexive
  <2> QED
    BY <2>1, <2>2 DEF Grows, Last
<1>4. \A c \in Clones : CloneKept(c)
  BY <1>3 DEF Init, CloneKept
<1>5. \A p \in Procs : ProcKept(p)
  BY DEF Init, ProcKept
<1> QED
  BY <1>1, <1>3, <1>4, <1>5 DEF Init, KeepInv, AnswerIsPublished

LEMMA KeepNext ==
  ASSUME Private
  PROVE  KeepInv /\ [Next]_vars => KeepInv' /\ Extends(Last(origin), Last(origin'))
<1> SUFFICES ASSUME KeepInv, [Next]_vars PROVE KeepInv' /\ Extends(Last(origin), Last(origin'))
  OBVIOUS
<1>1. CASE \E p \in Procs : Start(p) \/ Step(p) \/ Crash(p)
  BY <1>1, KeepStep
<1>2. ASSUME PushableDense', UNCHANGED <<origin, head, work, wedged, pc, job, ops, answers>>
      PROVE  KeepInv' /\ Extends(Last(origin), Last(origin'))
  <2>1. Extends(Last(origin), Last(origin'))
    BY <1>2, GrowsLast, ExtendsReflexive DEF KeepInv
  <2>2. KeepInv'
    BY <1>2 DEF KeepInv, CloneKept, ProcKept, Holding, Cmd, AnswerIsPublished
  <2> QED
    BY <2>1, <2>2
<1>3. CASE (\E c \in Clones : Edit(c)) \/ UNCHANGED vars
  <2>1. UNCHANGED <<origin, head, work, wedged, pc, job, ops, answers>>
    BY <1>3 DEF Edit, history, vars
  <2>2. PushableDense'
    BY <1>3 DEF Edit, KeepInv, PushableDense, TypeOK, history, vars
  <2> QED
    BY <1>2, <2>1, <2>2
<1> QED
  BY <1>1, <1>3 DEF Next

-------------------------------------------------------------------------------
(***************************************************************************)
(* The theorems                                                            *)
(***************************************************************************)

\* With a working copy for each process, an entry once published is never dropped,
\* renumbered or moved, whatever dies, is rejected or is not pushed.
THEOREM PublishedIsKeptAlways == ASSUME Private PROVE Spec => PublishedIsKept
<1>1. KeepInv /\ [Next]_vars => KeepInv' /\ [\A k \in Kinds : IsPrefix(Last(origin)[k], Last(origin')[k])]_origin
  BY KeepNext DEF Extends
<1> QED
  BY <1>1, KeepInit, PTL DEF Spec, PublishedIsKept

\* With a working copy for each process, a number reported as pushed is for ever the number
\* of that command's entry.
THEOREM AnswerIsPublishedAlways == ASSUME Private PROVE Spec => []AnswerIsPublished
<1>1. KeepInv => AnswerIsPublished
  BY DEF KeepInv
<1> QED
  BY <1>1, KeepInit, KeepNext, PTL DEF Spec

\* With a working copy for each process, add_entry implements the abstract ledger.
THEOREM LedgerImplementsSpec == ASSUME Private PROVE Spec => ImplementsLedger
<1>1. Init => Abstract!Init
  BY DEF Init, Abstract!Init, Empty, Last
<1>2. KeepInv /\ [Next]_vars => [Abstract!Next]_<<Last(origin), {a \in answers : a.push}>>
  <2> SUFFICES ASSUME KeepInv, [Next]_vars PROVE Abstract!Next
    OBVIOUS
  <2>1. KeepInv' /\ Extends(Last(origin), Last(origin'))
    BY KeepNext
  <2>2. Last(origin') \in Snapshot
    BY <2>1, GrowsLast DEF KeepInv
  <2>3. \A k \in Kinds : Abstract!Numbered(Last(origin')[k])
    <3>1. DenseSnapshot(Last(origin'))
      BY <2>1, LastDense DEF KeepInv, PushableDense, TypeOK
    <3> QED
      BY <3>1 DEF DenseSnapshot, Dense, Abstract!Numbered
  <2>4. Abstract!File
    <3>1. DOMAIN Last(origin') = Kinds
      BY <2>2 DEF Snapshot
    <3>2. \A k \in Kinds : Abstract!IsPrefix(Last(origin)[k], Last(origin')[k])
      BY <2>1 DEF Extends, IsPrefix, Abstract!IsPrefix
    <3> QED
      BY <2>3, <3>1, <3>2 DEF Abstract!File
  <2>5. answers \subseteq answers'
    BY DEF Next, Step, Start, Read, Write, Commit, PushAccepted, PushRejected, PushBroken, Reset,
       Pull, Crash, Edit, vars, history
  <2>6. \A a \in answers' : a.push =>
           /\ a.id \in DOMAIN Last(origin')[a.kind]
           /\ Last(origin')[a.kind][a.id] = [id |-> a.id, by |-> a.by]
    BY <2>1 DEF KeepInv, AnswerIsPublished
  <2>7. Abstract!Answer
    <3>1. {a \in answers : a.push} \subseteq {a \in answers' : a.push}
      BY <2>5
    <3>2. ASSUME NEW a \in answers', a.push
          PROVE  /\ a.id \in DOMAIN Last(origin')[a.kind]
                 /\ Last(origin')[a.kind][a.id].by = a.by
      <4>1. /\ a.id \in DOMAIN Last(origin')[a.kind]
            /\ Last(origin')[a.kind][a.id] = [id |-> a.id, by |-> a.by]
        BY <2>6, <3>2, Zenon
      <4>2. [id |-> a.id, by |-> a.by].by = a.by
        OBVIOUS
      <4> QED
        BY <4>1, <4>2, Zenon
    <3> QED
      BY <3>1, <3>2 DEF Abstract!Answer, Abstract!Filed
  <2> QED
    BY <2>4, <2>7 DEF Abstract!Next
<1> QED
  BY <1>1, <1>2, KeepInit, KeepNext, PTL DEF Spec, ImplementsLedger, Abstract!Spec

-------------------------------------------------------------------------------
(***************************************************************************)
(* What a step of a process can reach                                      *)
(***************************************************************************)

\* Only p, its working copy and origin change, and origin only as a push of that copy's
\* HEAD makes it.
LEMMA StepAlone ==
  ASSUME TypeOK, NEW p \in Procs, Start(p) \/ Step(p) \/ Crash(p)
  PROVE  /\ Alone(p)
         /\ \/ origin' = origin
            \/ pc[p] = "push" /\ FastForward(Home[p]) /\ origin' = head[Home[p]]
<1>1. /\ pc \in [Procs -> Phases] /\ job \in [Procs -> Job] /\ ops \in [Procs -> Nat]
      /\ head \in [Clones -> Seq(Snapshot)] /\ work \in [Clones -> Snapshot]
      /\ wedged \in [Clones -> BOOLEAN]
  BY DEF TypeOK
<1>2. ASSUME NEW how, Return(p, how)
      PROVE  \A q \in Procs \ {p} : pc'[q] = pc[q] /\ job'[q] = job[q]
  BY <1>1, <1>2 DEF Return
<1>3. CASE Start(p)
  BY <1>1, <1>3 DEF Start, Alone, repo
<1>4. CASE Read(p)
  BY <1>1, <1>2, <1>4 DEF Read, Alone, repo
<1>5. CASE Write(p)
  BY <1>1, <1>5 DEF Write, Alone
<1>6. CASE Commit(p)
  BY <1>1, <1>2, <1>6 DEF Commit, Files, Alone
<1>7. CASE PushAccepted(p)
  BY <1>1, <1>2, <1>7 DEF PushAccepted, Alone
<1>8. CASE PushRejected(p)
  BY <1>1, <1>8 DEF PushRejected, Alone, repo
<1>9. CASE PushBroken(p)
  BY <1>1, <1>9 DEF PushBroken, Alone
<1>10. CASE Reset(p)
  BY <1>1, <1>2, <1>10 DEF Reset, Alone
<1>11. CASE Pull(p)
  BY <1>1, <1>2, <1>11 DEF Pull, Alone
<1>12. CASE Crash(p)
  BY <1>1, <1>2, <1>12 DEF Crash, Alone, repo
<1> QED
  BY <1>3, <1>4, <1>5, <1>6, <1>7, <1>8, <1>9, <1>10, <1>11, <1>12 DEF Step

-------------------------------------------------------------------------------
(***************************************************************************)
(* Exhaustion.  A rejection that follows a pull says that origin grew       *)
(* since; before the first pull nothing is claimed.                        *)
(***************************************************************************)

\* The rounds that p's command lost.
Lost(p) == (Attempts - job[p].left) - IF pc[p] = "read" THEN 0 ELSE 1

\* The first m commits of origin are in p's working copy.
Agrees(p, m) ==
  /\ m <= Len(origin) /\ m <= Len(head[Home[p]])
  /\ \A i \in 1..m : head[Home[p]][i] = origin[i]

Contends(p) ==
  pc[p] \notin {"idle", "refused", "failed"} /\ ~job[p].shaky =>
    /\ job[p].since <= Len(origin)
    /\ pc[p] = "exhausted" => Len(origin) >= job[p].since + Retries
    /\ pc[p] \in {"reset", "pull"} => Len(origin) >= job[p].since + Lost(p)
    /\ pc[p] \in {"read", "write", "commit", "push"} /\ Lost(p) > 0 =>
         /\ ~wedged[Home[p]]
         /\ \E m \in Nat : m >= job[p].since + Lost(p) - 1 /\ Agrees(p, m)

\* Another's step leaves p's claim alone.
LEMMA ContendsAlone ==
  ASSUME Private, TypeOK, TypeOK', NEW p \in Procs, NEW q \in Procs \ {p}, Alone(p), Contends(q),
         origin' = origin \/ IsPrefix(origin, origin')
  PROVE  Contends(q)'
<1>1. /\ Home[q] \in Clones \ {Home[p]} /\ origin \in Seq(Snapshot) /\ origin' \in Seq(Snapshot)
      /\ job[q] \in Job
  BY LedgerAssumption DEF Private, TypeOK
<1>2. /\ head'[Home[q]] = head[Home[q]] /\ wedged'[Home[q]] = wedged[Home[q]]
      /\ pc'[q] = pc[q] /\ job'[q] = job[q]
  BY <1>1 DEF Alone
<1>3. /\ Len(origin) \in Nat /\ Len(origin') \in Nat /\ Len(origin) <= Len(origin')
      /\ \A i \in 1..Len(origin) : origin'[i] = origin[i]
  BY <1>1, PrefixPointwise
<1>4. \A m \in Nat : Agrees(q, m) => Agrees(q, m)'
  BY <1>2, <1>3 DEF Agrees
<1>5. Lost(q)' = Lost(q)
  BY <1>2 DEF Lost
<1>6. job[q].since \in Nat /\ job[q].left \in Nat /\ Attempts \in Nat /\ Retries \in Nat /\ Lost(q) \in Int
  BY <1>1, LedgerAssumption DEF Job, Attempts, Lost
<1> QED
  BY <1>2, <1>3, <1>4, <1>5, <1>6 DEF Contends

\* p's own step keeps its claim.
LEMMA ContendsStep ==
  ASSUME TypeOK, TypeOK', NEW p \in Procs, Start(p) \/ Step(p) \/ Crash(p), Contends(p)
  PROVE  Contends(p)'
<1> DEFINE c == Home[p]
<1>0. /\ c \in Clones /\ job[p] \in Job /\ job \in [Procs -> Job] /\ pc \in [Procs -> Phases]
      /\ head \in [Clones -> Seq(Snapshot)] /\ head[c] \in Seq(Snapshot) /\ head[c] # <<>>
      /\ origin \in Seq(Snapshot) /\ Len(origin) \in Nat /\ Len(head[c]) \in Nat
      /\ wedged \in [Clones -> BOOLEAN]
  BY LedgerAssumption DEF TypeOK
<1>00. /\ job[p].since \in Nat /\ job[p].left \in Nat /\ job[p].shaky \in BOOLEAN
       /\ Retries \in Nat /\ Attempts = 1 + Retries
  BY <1>0, LedgerAssumption DEF Job, Attempts
<1> HIDE DEF c
<1>1. ASSUME NEW how \in {"idle", "refused", "failed"}, Return(p, how)
      PROVE  Contends(p)'
  BY <1>0, <1>1 DEF Return, Contends
<1>2. CASE Start(p)
  <2>1. PICK k \in Kinds, push \in BOOLEAN :
          job' = [job EXCEPT ![p] = [NoJob EXCEPT !.kind = k, !.push = push,
                                                  !.left = Attempts, !.since = Len(origin)]]
    BY <1>2 DEF Start
  <2> DEFINE j == [NoJob EXCEPT !.kind = k, !.push = push, !.left = Attempts, !.since = Len(origin)]
  <2>2. j.left = Attempts /\ j.since = Len(origin)
    BY NoJobType DEF Job
  <2> HIDE DEF j
  <2>3. job' = [job EXCEPT ![p] = j]
    BY <2>1 DEF j
  <2>4. /\ job'[p].left = Attempts /\ job'[p].since = Len(origin)
        /\ pc'[p] = "read" /\ origin' = origin
    BY <1>0, <1>2, <2>2, <2>3 DEF Start, repo
  <2>5. Lost(p)' = 0
    BY <1>00, <2>4 DEF Lost
  <2> QED
    BY <1>0, <2>4, <2>5 DEF Contends
<1>3. CASE Read(p)
  <2>1. pc[p] = "read" /\ UNCHANGED <<origin, head, wedged>>
    BY <1>3 DEF Read, repo
  <2>2. CASE job[p].left = 0
    <3>1. pc'[p] = "exhausted" /\ job'[p] = job[p]
      BY <1>0, <1>3, <2>2 DEF Read, Return
    <3>2. Lost(p) = 1 + Retries
      BY <1>00, <2>1, <2>2 DEF Lost
    <3> QED
      BY <1>0, <1>00, <2>1, <3>1, <3>2 DEF Contends, Agrees
  <2>3. CASE job[p].left # 0
    <3> DEFINE j == [job[p] EXCEPT !.text = work[Home[p]][job[p].kind], !.left = job[p].left - 1]
    <3>1. job' = [job EXCEPT ![p] = j] /\ pc' = [pc EXCEPT ![p] = "write"]
      BY <1>3, <2>3 DEF Read
    <3>2. j.left = job[p].left - 1 /\ j.since = job[p].since /\ j.shaky = job[p].shaky
      BY <1>0 DEF Job
    <3> HIDE DEF j
    <3>3. /\ pc'[p] = "write" /\ job'[p].left = job[p].left - 1
          /\ job'[p].since = job[p].since /\ job'[p].shaky = job[p].shaky
      BY <1>0, <3>1, <3>2
    <3>4. Lost(p)' = Lost(p)
      BY <1>00, <2>1, <3>3 DEF Lost
    <3> QED
      BY <2>1, <3>3, <3>4 DEF Contends, Agrees
  <2> QED
    BY <2>2, <2>3
<1>4. CASE Write(p)
  <2> DEFINE j == [job[p] EXCEPT !.id = NextId(job[p].text), !.text = <<>>]
  <2>1. job' = [job EXCEPT ![p] = j]
    BY <1>4 DEF Write
  <2>2. j.left = job[p].left /\ j.since = job[p].since /\ j.shaky = job[p].shaky
    BY <1>0 DEF Job
  <2> HIDE DEF j
  <2>3. /\ pc[p] = "write" /\ pc'[p] = "commit" /\ job'[p].left = job[p].left
        /\ job'[p].since = job[p].since /\ job'[p].shaky = job[p].shaky
        /\ UNCHANGED <<origin, head, wedged>>
    BY <1>0, <1>4, <2>1, <2>2 DEF Write
  <2>4. Lost(p)' = Lost(p)
    BY <2>3 DEF Lost
  <2> QED
    BY <2>3, <2>4 DEF Contends, Agrees
<1>5. CASE Commit(p)
  <2>1. CASE \E how \in {"idle", "refused"} : Return(p, how)
    BY <1>1, <2>1
  <2>2. ASSUME NEW s, head' = [head EXCEPT ![c] = Append(head[c], s)],
               pc' = [pc EXCEPT ![p] = "push"], job' = job
        PROVE  Contends(p)'
    <3>1. /\ head'[c] = Append(head[c], s) /\ pc'[p] = "push" /\ pc[p] = "commit"
          /\ UNCHANGED <<origin, wedged>>
      BY <1>0, <1>5, <2>2 DEF Commit, Files
    <3>2. Len(head'[c]) = Len(head[c]) + 1 /\ \A i \in 1..Len(head[c]) : head'[c][i] = head[c][i]
      BY <1>0, <3>1
    <3>3. \A m \in Nat : Agrees(p, m) => Agrees(p, m)'
      BY <1>0, <3>1, <3>2 DEF Agrees, c
    <3>4. Lost(p)' = Lost(p)
      BY <2>2, <3>1 DEF Lost
    <3> QED
      BY <2>2, <3>1, <3>3, <3>4 DEF Contends
  <2> QED
    BY <1>5, <2>1, <2>2 DEF Commit, Files, c
<1>6. CASE PushAccepted(p)
  BY <1>1, <1>6 DEF PushAccepted
<1>7. CASE PushRejected(p)
  <2>1. /\ pc[p] = "push" /\ pc'[p] = "reset" /\ job' = job
        /\ UNCHANGED <<origin, head, wedged>> /\ ~FastForward(c)
    BY <1>0, <1>7 DEF PushRejected, repo, c
  <2>2. Lost(p)' = Lost(p) /\ Lost(p) \in Int
    BY <1>00, <2>1 DEF Lost
  <2>3. ASSUME ~job[p].shaky PROVE Len(origin) >= job[p].since + Lost(p)
    <3>1. CASE Lost(p) > 0
      <4>1. PICK m \in Nat : m >= job[p].since + Lost(p) - 1 /\ Agrees(p, m)
        BY <2>1, <2>3, <3>1 DEF Contends
      <4>2. ~IsPrefix(origin, head[c])
        BY <2>1, <2>3, <3>1 DEF Contends, FastForward, c
      <4>3. m # Len(origin)
        BY <1>0, <4>1, <4>2, PrefixPointwise DEF Agrees, c
      <4>4. m <= Len(origin)
        BY <4>1 DEF Agrees
      <4> QED
        BY <1>0, <1>00, <2>2, <4>1, <4>3, <4>4
    <3>2. CASE ~(Lost(p) > 0)
      BY <1>0, <1>00, <2>1, <2>2, <2>3, <3>2 DEF Contends
    <3> QED
      BY <3>1, <3>2
  <2> QED
    BY <2>1, <2>2, <2>3 DEF Contends
<1>8. CASE PushBroken(p)
  <2>1. job'[p].shaky
    BY <1>0, <1>8 DEF PushBroken, Job
  <2> QED
    BY <2>1 DEF Contends
<1>9. CASE Reset(p)
  <2>1. CASE Return(p, "failed")
    BY <1>1, <2>1
  <2>2. CASE pc' = [pc EXCEPT ![p] = "pull"] /\ UNCHANGED job
    <3>1. pc[p] = "reset" /\ pc'[p] = "pull" /\ job' = job /\ UNCHANGED <<origin, wedged>>
      BY <1>0, <1>9, <2>2 DEF Reset
    <3>2. Lost(p)' = Lost(p)
      BY <3>1 DEF Lost
    <3> QED
      BY <3>1, <3>2 DEF Contends
  <2> QED
    BY <1>9, <2>1, <2>2 DEF Reset
<1>10. CASE Pull(p)
  <2>1. CASE Return(p, "failed")
    BY <1>1, <2>1
  <2>2. ASSUME NEW b \in 1..Len(head[c]), ~wedged[c],
               head' = [head EXCEPT ![c] = origin \o Replayed(c, b)],
               pc' = [pc EXCEPT ![p] = "read"], UNCHANGED <<wedged, job>>
        PROVE  Contends(p)'
    <3>1. pc[p] = "pull" /\ pc'[p] = "read" /\ origin' = origin
      BY <1>0, <1>10, <2>2 DEF Pull
    <3>2. Replayed(c, b) \in Seq(Snapshot)
      BY <1>0, ReplayedType
    <3>3. head'[c] = origin \o Replayed(c, b)
      BY <1>0, <2>2
    <3>4. Len(head'[c]) >= Len(origin) /\ \A i \in 1..Len(origin) : head'[c][i] = origin[i]
      BY <1>0, <3>2, <3>3
    <3>5. Agrees(p, Len(origin))'
      BY <1>0, <3>1, <3>4 DEF Agrees, c
    <3>6. Lost(p)' = Lost(p) + 1 /\ Lost(p) \in Int
      BY <1>00, <2>2, <3>1 DEF Lost
    <3>7. ~job[p].shaky => job[p].since <= Len(origin) /\ Len(origin) >= job[p].since + Lost(p)
      BY <3>1 DEF Contends
    <3>8. ~wedged'[Home[p]]
      BY <2>2 DEF c
    <3>9. ASSUME ~job[p].shaky PROVE Len(origin) >= job[p].since + Lost(p)' - 1
      BY <1>0, <1>00, <3>6, <3>7, <3>9
    <3> QED
      BY <1>0, <2>2, <3>1, <3>5, <3>7, <3>8, <3>9 DEF Contends
  <2> QED
    BY <1>10, <2>1, <2>2 DEF Pull, c
<1>11. CASE Crash(p)
  BY <1>1, <1>11 DEF Crash
<1> QED
  BY <1>2, <1>3, <1>4, <1>5, <1>6, <1>7, <1>8, <1>9, <1>10, <1>11 DEF Step

\* With a working copy for each process, a command is exhausted only after as many pushes
\* of others as it has retries, unless its own connection broke.
THEOREM ExhaustionMeansContentionAlways == ASSUME Private PROVE Spec => []ExhaustionMeansContention
<1> DEFINE Inv == \A p \in Procs : Contends(p)
<1>1. Init => TypeOK /\ Inv
  BY TypeInit DEF Init, Contends
<1>2. TypeOK /\ Inv /\ [Next]_vars => TypeOK' /\ Inv'
  <2> SUFFICES ASSUME TypeOK, Inv, [Next]_vars PROVE TypeOK' /\ Inv'
    OBVIOUS
  <2>1. TypeOK'
    BY TypeNext
  <2>2. CASE \E p \in Procs : Start(p) \/ Step(p) \/ Crash(p)
    <3>1. PICK p \in Procs : Start(p) \/ Step(p) \/ Crash(p)
      BY <2>2
    <3>2. Alone(p) /\ (origin' = origin \/ IsPrefix(origin, origin'))
      BY <3>1, StepAlone DEF FastForward
    <3>3. Contends(p)'
      BY <2>1, <3>1, ContendsStep
    <3>4. \A q \in Procs \ {p} : Contends(q)'
      BY <2>1, <3>2, ContendsAlone
    <3> QED
      BY <2>1, <3>3, <3>4
  <2>3. CASE (\E c \in Clones : Edit(c)) \/ UNCHANGED vars
    <3>1. UNCHANGED <<origin, head, wedged, pc, job>>
      BY <2>3 DEF Edit, vars
    <3> QED
      BY <2>1, <3>1 DEF Contends, Lost, Agrees
  <2> QED
    BY <2>2, <2>3 DEF Next
<1>3. Inv => ExhaustionMeansContention
  BY DEF Contends, ExhaustionMeansContention
<1> QED
  BY <1>1, <1>2, <1>3, PTL DEF Spec

-------------------------------------------------------------------------------
(***************************************************************************)
(* Sets of indexes that git and add_entry do not lead out of               *)
(***************************************************************************)

\* The snapshots whose index of kind k is in G[k].
Of(G) == {s \in Snapshot : \A k \in Kinds : s[k] \in G[k]}

\* Origin, the working copies C and what their commands have read hold such snapshots.
Within(G, C) ==
  /\ origin \in Seq(Of(G))
  /\ \A c \in C : head[c] \in Seq(Of(G)) /\ work[c] \in Of(G)
  /\ \A q \in Procs : Home[q] \in C /\ pc[q] = "write" => job[q].text \in G[job[q].kind]

\* A rebase takes each index from a commit that was there.
LEMMA ReplayedOf ==
  ASSUME TypeOK, NEW c \in Clones, NEW b \in 1..Len(head[c]), NEW G,
         origin \in Seq(Of(G)), head[c] \in Seq(Of(G))
  PROVE  Replayed(c, b) \in Seq(Of(G))
<1> DEFINE n == Len(head[c]) - b
           rebased(i) == [k \in Kinds |-> IF k \in Changed(origin, b) THEN Last(origin)[k]
                                                                     ELSE head[c][b + i][k]]
<1>1. n \in Nat
  BY DEF TypeOK
<1>2. ASSUME NEW i \in 1..n
      PROVE  rebased(i) \in Of(G)
  <2>1. Last(origin) \in Of(G)
    BY LastType DEF TypeOK
  <2>2. b + i \in 1..Len(head[c])
    BY DEF TypeOK
  <2>3. head[c][b + i] \in Of(G)
    BY <2>2
  <2> QED
    BY <2>1, <2>3 DEF Of, Snapshot
<1>3. Replayed(c, b) = [i \in 1..n |-> rebased(i)]
  BY DEF Replayed
<1> HIDE DEF n, rebased
<1>4. [i \in 1..n |-> rebased(i)] \in Seq(Of(G))
  BY <1>1, <1>2, IsASeq
<1> QED
  BY <1>3, <1>4

\* A step of a command that runs in another working copy, and pushes nothing else.
LEMMA WithinElse ==
  ASSUME TypeOK, NEW G, NEW C \in SUBSET Clones, Within(G, C), NEW p \in Procs, Alone(p),
         Home[p] \notin C, origin' \in Seq(Of(G))
  PROVE  Within(G, C)'
<1>1. \A c \in C : head'[c] = head[c] /\ work'[c] = work[c]
  BY DEF Alone
<1>2. \A q \in Procs : Home[q] \in C => pc'[q] = pc[q] /\ job'[q] = job[q]
  BY DEF Alone
<1> QED
  BY <1>1, <1>2 DEF Within

\* A step of a command in one of the working copies C, if what it writes is in G.
LEMMA WithinStep ==
  ASSUME TypeOK, TypeOK', NEW G, NEW C \in SUBSET Clones, Within(G, C),
         NEW p \in Procs, Start(p) \/ Step(p) \/ Crash(p), Home[p] \in C,
         Write(p) => Append(job[p].text, [id |-> NextId(job[p].text), by |-> Cmd(p)])
                       \in G[job[p].kind],
         \A b \in 1..Len(head[Home[p]]) :
           wedged'[Home[p]] # wedged[Home[p]] => Conflicted(Home[p], b) \in Of(G)
  PROVE  Within(G, C)'
<1> DEFINE c == Home[p]
           k == job[p].kind
<1>0. /\ c \in Clones /\ k \in Kinds /\ job[p] \in Job
      /\ pc \in [Procs -> Phases] /\ job \in [Procs -> Job]
      /\ head \in [Clones -> Seq(Snapshot)] /\ work \in [Clones -> Snapshot]
      /\ wedged \in [Clones -> BOOLEAN]
      /\ head[c] \in Seq(Of(G)) /\ head[c] # <<>> /\ work[c] \in Of(G)
      /\ origin \in Seq(Of(G)) /\ origin # <<>>
  BY DEF TypeOK, Job, Within
<1>1. Alone(p)
  BY StepAlone
<1>2. ASSUME origin' \in Seq(Of(G)), head'[c] \in Seq(Of(G)), work'[c] \in Of(G),
             pc'[p] = "write" => job'[p].text \in G[job'[p].kind]
      PROVE  Within(G, C)'
  <2>1. ASSUME NEW d \in C PROVE head'[d] \in Seq(Of(G)) /\ work'[d] \in Of(G)
    BY <1>1, <1>2 DEF Alone, Within
  <2>2. ASSUME NEW q \in Procs, Home[q] \in C, pc'[q] = "write"
        PROVE  job'[q].text \in G[job'[q].kind]
    BY <1>1, <1>2, <2>2 DEF Alone, Within
  <2> QED
    BY <1>2, <2>1, <2>2 DEF Within
<1>3. ASSUME NEW how \in Resting, Return(p, how)
      PROVE  pc'[p] # "write"
  BY <1>0, <1>3 DEF Return, Resting
<1>4. CASE Start(p)
  <2>1. pc'[p] = "read" /\ UNCHANGED repo
    BY <1>0, <1>4 DEF Start
  <2> QED
    BY <1>0, <1>2, <2>1 DEF repo
<1>5. CASE Read(p)
  <2>1. UNCHANGED repo
    BY <1>5 DEF Read
  <2>2. CASE job[p].left = 0
    BY <1>0, <1>2, <1>3, <1>5, <2>1, <2>2 DEF Read, repo, Resting
  <2>3. CASE job[p].left # 0
    <3>1. job' = [job EXCEPT ![p] = [job[p] EXCEPT !.text = work[c][k], !.left = job[p].left - 1]]
      BY <1>5, <2>3 DEF Read
    <3>2. [job[p] EXCEPT !.text = work[c][k], !.left = job[p].left - 1].text = work[c][k]
          /\ [job[p] EXCEPT !.text = work[c][k], !.left = job[p].left - 1].kind = k
      BY <1>0 DEF Job
    <3>3. job'[p].text = work[c][k] /\ job'[p].kind = k
      BY <1>0, <3>1, <3>2
    <3>4. work[c][k] \in G[k]
      BY <1>0 DEF Of
    <3> QED
      BY <1>0, <1>2, <2>1, <3>3, <3>4 DEF repo
  <2> QED
    BY <2>2, <2>3
<1>6. CASE Write(p)
  <2> DEFINE index == Append(job[p].text, [id |-> NextId(job[p].text), by |-> Cmd(p)])
  <2>1. /\ index \in G[k] /\ work' = [work EXCEPT ![c][k] = index]
        /\ UNCHANGED <<origin, head>> /\ pc'[p] = "commit"
    BY <1>0, <1>6 DEF Write
  <2> HIDE DEF index
  <2>2. work'[c] = [work[c] EXCEPT ![k] = index] /\ work'[c] \in Snapshot
    BY <1>0, <2>1 DEF TypeOK
  <2>3. work'[c] \in Of(G)
    BY <1>0, <2>1, <2>2 DEF Of, Snapshot
  <2> QED
    BY <1>0, <1>2, <2>1, <2>3
<1>7. CASE Commit(p)
  <2>1. CASE Return(p, "refused") /\ UNCHANGED <<head, answers>>
    BY <1>0, <1>2, <1>3, <1>7, <2>1 DEF Commit, Files, Resting
  <2>2. CASE Files(p)
    <3> DEFINE s == [Last(head[c]) EXCEPT ![k] = work[c][k]]
    <3>1. s \in Of(G)
      <4>1. Last(head[c]) \in Of(G)
        BY <1>0, LastType
      <4> QED
        BY <1>0, <4>1 DEF Of, Snapshot
    <3>2. head' = [head EXCEPT ![c] = Append(head[c], s)] /\ UNCHANGED <<origin, work>>
      BY <1>7, <2>2 DEF Commit, Files
    <3> HIDE DEF s
    <3>3. head'[c] \in Seq(Of(G))
      BY <1>0, <3>1, <3>2, AppendProperties
    <3>4. pc'[p] # "write"
      BY <1>0, <1>3, <1>7, <2>2 DEF Commit, Files, Resting
    <3> QED
      BY <1>0, <1>2, <3>2, <3>3, <3>4
  <2> QED
    BY <1>7, <2>1, <2>2 DEF Commit, Files
<1>8. CASE PushAccepted(p)
  BY <1>0, <1>2, <1>3, <1>8 DEF PushAccepted, Resting
<1>9. CASE PushRejected(p)
  BY <1>0, <1>2, <1>9 DEF PushRejected, repo
<1>10. CASE PushBroken(p)
  BY <1>0, <1>2, <1>10 DEF PushBroken
<1>11. CASE Reset(p)
  <2>1. CASE Len(head[c]) = 1
    BY <1>0, <1>2, <1>3, <1>11, <2>1 DEF Reset, Resting
  <2>2. CASE Len(head[c]) # 1
    <3>1. Len(head[c]) \in Nat /\ Len(head[c]) > 1
      BY <1>0, <2>2, LongerThanOne
    <3>2. head[c][Len(head[c]) - 1] \in Of(G)
      <4>1. Len(head[c]) - 1 \in 1..Len(head[c])
        BY <3>1
      <4> QED
        BY <1>0, <4>1
    <3>3. Front(head[c]) \in Seq(Of(G))
      BY <1>0, <3>1, FrontType
    <3>4. /\ head'[c] = Front(head[c]) /\ work'[c] = head[c][Len(head[c]) - 1]
          /\ pc'[p] = "pull" /\ origin' = origin
      BY <1>0, <1>11, <2>2 DEF Reset
    <3> QED
      BY <1>0, <1>2, <3>2, <3>3, <3>4
  <2> QED
    BY <2>1, <2>2
<1>12. CASE Pull(p)
  <2>0. origin' = origin
    BY <1>12 DEF Pull
  <2>1. CASE Return(p, "failed") /\ UNCHANGED <<head, work, wedged>>
    BY <1>0, <1>2, <1>3, <2>0, <2>1 DEF Resting
  <2>2. ASSUME NEW b \in 1..Len(head[c]),
               head' = [head EXCEPT ![c] = origin \o Replayed(c, b)],
               work' = [work EXCEPT ![c] = Last(head'[c])],
               pc' = [pc EXCEPT ![p] = "read"]
        PROVE  Within(G, C)'
    <3>1. Replayed(c, b) \in Seq(Of(G))
      BY <1>0, ReplayedOf
    <3>2. head'[c] = origin \o Replayed(c, b)
      BY <1>0, <2>2
    <3>3. head'[c] \in Seq(Of(G)) /\ head'[c] # <<>>
      BY <1>0, <3>1, <3>2
    <3>4. work'[c] = Last(head'[c]) /\ pc'[p] = "read"
      BY <1>0, <2>2
    <3>5. work'[c] \in Of(G)
      BY <3>3, <3>4, LastType
    <3> QED
      BY <1>0, <1>2, <2>0, <3>3, <3>4, <3>5
  <2>3. ASSUME NEW b \in 1..Len(head[c]), ~wedged[c],
               head' = [head EXCEPT ![c] = origin],
               work' = [work EXCEPT ![c] = Conflicted(c, b)],
               wedged' = [wedged EXCEPT ![c] = TRUE],
               Return(p, "failed")
        PROVE  Within(G, C)'
    <3>1. head'[c] = origin /\ work'[c] = Conflicted(c, b) /\ wedged'[c] # wedged[c]
      BY <1>0, <2>3
    <3>2. work'[c] \in Of(G)
      BY <3>1
    <3> QED
      BY <1>0, <1>2, <1>3, <2>0, <2>3, <3>1, <3>2 DEF Resting
  <2> QED
    BY <1>12, <2>1, <2>2, <2>3 DEF Pull, c
<1>13. CASE Crash(p)
  BY <1>0, <1>2, <1>3, <1>13 DEF Crash, repo, Resting
<1> QED
  BY <1>4, <1>5, <1>6, <1>7, <1>8, <1>9, <1>10, <1>11, <1>12, <1>13 DEF Step

-------------------------------------------------------------------------------
(***************************************************************************)
(* Failure.  What a command has written is in its own working copy alone   *)
(* until its push is accepted, and in the tip commit of that copy, which    *)
(* the roll back takes away.                                               *)
(***************************************************************************)

Lacks(index, by) == \A i \in DOMAIN index : index[i].by # by

Without(by) == [k \in Kinds |-> {index \in Seq(Entry) : Lacks(index, by)}]

\* The command `by` of p, which it is running or has run last.
Unfiled(p, by) ==
  by \notin unacked =>
    /\ pc[p] \in {"read", "write", "pull", "failed", "exhausted"} => Within(Without(by), Clones)
    /\ pc[p] \in {"commit", "push", "reset", "refused"} =>
         Within(Without(by), Clones \ {Home[p]})
    /\ pc[p] \in {"commit", "refused"} => head[Home[p]] \in Seq(Of(Without(by)))
    /\ pc[p] = "commit" => ~Lacks(work[Home[p]][job[p].kind], by)
    /\ pc[p] \in {"push", "reset"} =>
         /\ Len(head[Home[p]]) > 1
         /\ Front(head[Home[p]]) \in Seq(Of(Without(by)))

\* A command that has still to be given is nowhere.
Traced(p, n) ==
  /\ n > ops[p] => Within(Without(<<p, n>>), Clones)
  /\ n = ops[p] => Unfiled(p, <<p, n>>)

TracedInv == TypeOK /\ \A p \in Procs, n \in Nat : Traced(p, n)

LEMMA AppendLacks ==
  ASSUME NEW index \in Seq(Entry), NEW e \in Entry, NEW by, Lacks(index, by), e.by # by
  PROVE  Append(index, e) \in Seq(Entry) /\ Lacks(Append(index, e), by)
<1>1. /\ Append(index, e) \in Seq(Entry) /\ Len(index) \in Nat
      /\ Len(Append(index, e)) = Len(index) + 1
      /\ \A i \in 1..Len(index) : Append(index, e)[i] = index[i]
      /\ Append(index, e)[Len(index) + 1] = e
  BY AppendProperties
<1>2. \A i \in 1..(Len(index) + 1) : i \in 1..Len(index) \/ i = Len(index) + 1
  BY <1>1
<1>3. DOMAIN Append(index, e) = 1..(Len(index) + 1) /\ DOMAIN index = 1..Len(index)
  BY <1>1
<1> QED
  BY <1>1, <1>2, <1>3, Zenon DEF Lacks

LEMMA ConflictedLacks ==
  ASSUME TypeOK, NEW c \in Clones, NEW b \in 1..Len(head[c]), NEW by,
         origin \in Seq(Of(Without(by))), head[c] \in Seq(Of(Without(by)))
  PROVE  Conflicted(c, b) \in Of(Without(by))
<1>1. Last(origin) \in Of(Without(by)) /\ Last(head[c]) \in Of(Without(by))
  BY LastType DEF TypeOK
<1>2. head[c][b] \in Snapshot
  BY DEF TypeOK
<1>3. ASSUME NEW k \in Kinds PROVE Conflicted(c, b)[k] \in Without(by)[k]
  <2> DEFINE base == Last(origin)[k]
             mine == Last(head[c])[k]
             m == Len(head[c][b][k]) + 1
             tail == SubSeq(mine, m, Len(mine))
  <2>1. /\ base \in Seq(Entry) /\ Lacks(base, by) /\ mine \in Seq(Entry) /\ Lacks(mine, by)
        /\ m \in Nat /\ m >= 1
    BY <1>1, <1>2 DEF Of, Without, Snapshot
  <2>2. Conflicted(c, b)[k] = IF k \in Changed(head[c], b) THEN base \o tail ELSE base
    BY DEF Conflicted
  <2> HIDE DEF base, mine, m
  <2>3. tail \in Seq(Entry) /\ Lacks(tail, by)
    BY <2>1 DEF Lacks
  <2> HIDE DEF tail
  <2>4. base \o tail \in Seq(Entry) /\ Lacks(base \o tail, by)
    BY <2>1, <2>3 DEF Lacks
  <2> QED
    BY <2>1, <2>2, <2>4 DEF Without
<1>4. Conflicted(c, b) \in Snapshot
  BY ConflictedType
<1> QED
  BY <1>3, <1>4 DEF Of

\* A step spreads a command's entry only if that command writes it.
LEMMA WithoutStep ==
  ASSUME TypeOK, TypeOK', NEW by, NEW C \in SUBSET Clones, Within(Without(by), C),
         NEW p \in Procs, Start(p) \/ Step(p) \/ Crash(p), Home[p] \in C,
         pc[p] = "write" => Cmd(p) # by
  PROVE  Within(Without(by), C)'
<1>1. ASSUME Write(p)
      PROVE  Append(job[p].text, [id |-> NextId(job[p].text), by |-> Cmd(p)])
               \in Without(by)[job[p].kind]
  <2>1. pc[p] = "write" /\ job[p].kind \in Kinds /\ job[p].text \in Seq(Entry)
    BY <1>1 DEF Write, TypeOK, Job
  <2>2. Lacks(job[p].text, by)
    BY <2>1 DEF Within, Without
  <2> DEFINE e == [id |-> NextId(job[p].text), by |-> Cmd(p)]
  <2>3. e \in Entry /\ e.by = Cmd(p)
    BY <2>1, NextIdType DEF Entry, Cmd, Command, TypeOK
  <2> HIDE DEF e
  <2>4. Append(job[p].text, e) \in Seq(Entry) /\ Lacks(Append(job[p].text, e), by)
    BY <2>1, <2>2, <2>3, AppendLacks
  <2> QED
    BY <2>1, <2>4 DEF Without, e
<1>2. ASSUME NEW b \in 1..Len(head[Home[p]])
      PROVE  Conflicted(Home[p], b) \in Of(Without(by))
  BY ConflictedLacks DEF Within
<1>3. Within(Without(by), C)'
  BY <1>1, <1>2, WithinStep
<1> QED
  BY <1>3

LEMMA FrontOfAppend ==
  ASSUME NEW S, NEW s \in Seq(S), NEW e \in S, Len(s) >= 1
  PROVE  Len(Append(s, e)) > 1 /\ Front(Append(s, e)) = s
<1> DEFINE t == Append(s, e)
<1>1. /\ t \in Seq(S) /\ Len(t) = Len(s) + 1 /\ Len(s) \in Nat
      /\ \A i \in 1..Len(s) : t[i] = s[i]
  BY AppendProperties
<1> HIDE DEF t
<1>2. /\ Front(t) \in Seq(S) /\ Len(Front(t)) = Len(s)
      /\ \A i \in 1..Len(s) : Front(t)[i] = s[i]
  BY <1>1, FrontType
<1>3. Front(t) = s
  BY <1>1, <1>2, SeqEqual
<1> QED
  BY <1>1, <1>3 DEF t

LEMMA StepHistory ==
  ASSUME TypeOK, NEW p \in Procs, Start(p) \/ Step(p) \/ Crash(p)
  PROVE  /\ unacked \subseteq unacked'
         /\ Start(p) => ops'[p] = ops[p] + 1
         /\ ~Start(p) => ops'[p] = ops[p]
<1>1. CASE Start(p)
  <2>1. ops' = [ops EXCEPT ![p] = @ + 1] /\ UNCHANGED history
    BY <1>1, Zenon DEF Start
  <2>2. ops'[p] = ops[p] + 1 /\ unacked' = unacked
    BY <2>1 DEF TypeOK, history
  <2> QED
    BY <1>1, <2>2
<1>2. CASE ~Start(p)
  <2>1. Step(p) \/ Crash(p)
    BY <1>2
  <2>2. ops' = ops
    BY <2>1 DEF Step, Crash, Read, Write, Commit, PushAccepted, PushRejected, PushBroken, Reset, Pull
  <2>3. unacked \subseteq unacked'
    BY <2>1 DEF Step, Crash, Read, Write, Commit, PushAccepted, PushRejected, PushBroken, Reset,
                Pull, history
  <2> QED
    BY <1>2, <2>2, <2>3
<1> QED
  BY <1>1, <1>2

\* Another's step.
LEMMA TracedElse ==
  ASSUME Private, TracedInv, TypeOK', NEW p \in Procs, Start(p) \/ Step(p) \/ Crash(p),
         NEW q \in Procs \ {p}, NEW n \in Nat
  PROVE  Traced(q, n)'
<1> DEFINE by == <<q, n>>
<1>1. /\ Alone(p) /\ unacked \subseteq unacked' /\ TypeOK /\ Traced(q, n)
      /\ Home[p] \in Clones /\ Home[q] \in Clones \ {Home[p]} /\ Cmd(p) # by
  BY StepAlone, StepHistory, LedgerAssumption DEF TracedInv, Private, Cmd
<1>2. /\ head'[Home[q]] = head[Home[q]] /\ work'[Home[q]] = work[Home[q]]
      /\ pc'[q] = pc[q] /\ job'[q] = job[q] /\ ops'[q] = ops[q]
  BY <1>1 DEF Alone
<1>3. Within(Without(by), Clones) => Within(Without(by), Clones)'
  BY <1>1, WithoutStep
<1>4. Within(Without(by), Clones \ {Home[q]}) => Within(Without(by), Clones \ {Home[q]})'
  BY <1>1, WithoutStep
<1>5. Unfiled(q, by) => Unfiled(q, by)'
  BY <1>1, <1>2, <1>3, <1>4 DEF Unfiled
<1> QED
  BY <1>1, <1>2, <1>3, <1>5 DEF Traced

\* p's own step.
LEMMA UnfiledStep ==
  ASSUME Private, TypeOK, TypeOK', NEW p \in Procs, Step(p) \/ Crash(p), NEW by, by = Cmd(p),
         Unfiled(p, by), by \notin unacked'
  PROVE  Unfiled(p, by)'
<1> DEFINE c == Home[p]
           k == job[p].kind
           G == Without(by)
<1>0. /\ c \in Clones /\ k \in Kinds /\ job[p] \in Job /\ by \in Command
      /\ pc \in [Procs -> Phases] /\ job \in [Procs -> Job]
      /\ head \in [Clones -> Seq(Snapshot)] /\ work \in [Clones -> Snapshot]
      /\ head[c] \in Seq(Snapshot) /\ head[c] # <<>> /\ work[c] \in Snapshot
      /\ by \notin unacked
  BY StepHistory, LedgerAssumption DEF TypeOK, Job, Cmd, Command
<1>1. Alone(p)
  BY StepAlone
<1>2. Within(G, Clones) /\ pc[p] # "write" => Within(G, Clones)'
  BY <1>0, WithoutStep
<1>3. Within(G, Clones \ {c}) /\ origin' \in Seq(Of(G)) => Within(G, Clones \ {c})'
  BY <1>1, WithinElse
<1>4. ASSUME NEW how \in Resting, Return(p, how)
      PROVE  pc'[p] = how
  BY <1>0, <1>4 DEF Return
<1>5. CASE Read(p)
  <2>1. pc[p] = "read" /\ pc'[p] \in {"write", "exhausted"}
    BY <1>0, <1>4, <1>5 DEF Read, Resting
  <2> QED
    BY <1>0, <1>2, <2>1 DEF Unfiled
<1>6. CASE Write(p)
  <2> DEFINE e == [id |-> NextId(job[p].text), by |-> Cmd(p)]
             index == Append(job[p].text, e)
  <2>1. /\ pc[p] = "write" /\ pc'[p] = "commit" /\ work' = [work EXCEPT ![c][k] = index]
        /\ UNCHANGED <<origin, head>>
    BY <1>0, <1>6 DEF Write
  <2>2. Within(G, Clones)
    BY <1>0, <2>1 DEF Unfiled
  <2>3. Within(G, Clones \ {c}) /\ origin \in Seq(Of(G)) /\ head[c] \in Seq(Of(G))
    BY <1>0, <2>2 DEF Within
  <2>4. e \in Entry /\ e.by = by /\ job[p].text \in Seq(Entry)
    BY <1>0, NextIdType DEF Entry, Job
  <2> HIDE DEF e
  <2>5. index[Len(job[p].text) + 1] = e /\ Len(job[p].text) + 1 \in DOMAIN index
    BY <2>4, AppendProperties
  <2>6. ~Lacks(index, by)
    BY <2>4, <2>5 DEF Lacks
  <2> HIDE DEF index
  <2>7. work'[c][k] = index
    BY <1>0, <2>1 DEF Snapshot
  <2>8. job'[p].kind = k
    <3>1. job'[p] = [job[p] EXCEPT !.id = NextId(job[p].text), !.text = <<>>]
      BY <1>0, <1>6 DEF Write
    <3> QED
      BY <1>0, <3>1 DEF Job
  <2>9. Within(G, Clones \ {c})'
    BY <1>3, <2>1, <2>3
  <2> QED
    BY <2>1, <2>3, <2>6, <2>7, <2>8, <2>9 DEF Unfiled
<1>7. CASE Commit(p)
  <2>1. pc[p] = "commit" /\ UNCHANGED <<origin, work>>
    BY <1>7 DEF Commit, Files
  <2>2. Within(G, Clones \ {c}) /\ head[c] \in Seq(Of(G))
    BY <1>0, <2>1 DEF Unfiled
  <2>3. Within(G, Clones \ {c})'
    BY <1>3, <2>1, <2>2 DEF Within
  <2>4. CASE Return(p, "refused") /\ UNCHANGED <<head, answers>>
    <3>1. pc'[p] = "refused" /\ head'[c] \in Seq(Of(G))
      BY <1>4, <2>2, <2>4 DEF Resting
    <3> QED
      BY <2>3, <3>1 DEF Unfiled
  <2>5. CASE Files(p)
    <3> DEFINE s == [Last(head[c]) EXCEPT ![k] = work[c][k]]
    <3>1. /\ head' = [head EXCEPT ![c] = Append(head[c], s)]
          /\ pc'[p] \in {"push", "idle"}
      BY <1>0, <1>4, <2>5 DEF Files, Resting
    <3>2. s \in Snapshot
      BY <1>0, LastType DEF Snapshot
    <3> HIDE DEF s
    <3>3. head'[c] = Append(head[c], s) /\ Len(head[c]) \in Nat /\ Len(head[c]) >= 1
      BY <1>0, <3>1, EmptySeq
    <3>4. Len(head'[c]) > 1 /\ Front(head'[c]) = head[c]
      BY <1>0, <3>2, <3>3, FrontOfAppend
    <3> QED
      BY <2>2, <2>3, <3>1, <3>4 DEF Unfiled
  <2> QED
    BY <1>7, <2>4, <2>5 DEF Commit, Files
<1>8. CASE PushAccepted(p)
  <2>1. pc'[p] = "idle"
    BY <1>4, <1>8 DEF PushAccepted, Resting
  <2> QED
    BY <2>1 DEF Unfiled
<1>9. ASSUME pc[p] = "push", pc'[p] = "reset", UNCHANGED <<origin, head>>
      PROVE  Unfiled(p, by)'
  <2>1. Within(G, Clones \ {c})
    BY <1>0, <1>9 DEF Unfiled
  <2>2. Within(G, Clones \ {c})'
    BY <1>3, <1>9, <2>1 DEF Within
  <2> QED
    BY <1>0, <1>9, <2>2 DEF Unfiled
<1>10. CASE PushRejected(p)
  BY <1>0, <1>9, <1>10 DEF PushRejected, repo
<1>11. CASE PushBroken(p)
  BY <1>0, <1>9, <1>11 DEF PushBroken
<1>12. CASE Reset(p)
  <2>1. pc[p] = "reset"
    BY <1>12 DEF Reset
  <2>2. Within(G, Clones \ {c}) /\ Len(head[c]) > 1 /\ Front(head[c]) \in Seq(Of(G))
    BY <1>0, <2>1 DEF Unfiled
  <2>3. /\ origin' = origin /\ pc'[p] = "pull"
        /\ head'[c] = Front(head[c]) /\ work'[c] = head[c][Len(head[c]) - 1]
    <3>1. Len(head[c]) # 1
      <4>1. Len(head[c]) \in Nat
        BY <1>0
      <4>2. \A n \in Nat : n > 1 => n # 1
        OBVIOUS
      <4> QED
        BY <2>2, <4>1, <4>2, Zenon
    <3>2. /\ head' = [head EXCEPT ![c] = Front(head[c])]
          /\ work' = [work EXCEPT ![c] = head[c][Len(head[c]) - 1]]
          /\ pc' = [pc EXCEPT ![p] = "pull"] /\ origin' = origin
      BY <1>12, <3>1 DEF Reset
    <3> QED
      BY <1>0, <3>2
  <2>4. Within(G, Clones \ {c})'
    BY <1>3, <2>2, <2>3 DEF Within
  <2>5. /\ Len(Front(head[c])) = Len(head[c]) - 1
        /\ \A i \in 1..(Len(head[c]) - 1) : Front(head[c])[i] = head[c][i]
    BY <1>0, <2>2, FrontType
  <2>6. Len(head[c]) - 1 \in 1..Len(Front(head[c])) /\ Len(head[c]) \in Nat
    BY <1>0, <2>2, <2>5
  <2>7. work'[c] = Front(head[c])[Len(head[c]) - 1]
    BY <2>3, <2>5, <2>6
  <2>8. work'[c] \in Of(G) /\ head'[c] \in Seq(Of(G))
    BY <2>2, <2>3, <2>6, <2>7
  <2>9. \A q \in Procs : Home[q] = c /\ pc'[q] = "write" => q = p
    BY DEF Private
  <2>10. Within(G, Clones)'
    <3>1. \A d \in Clones : head'[d] \in Seq(Of(G)) /\ work'[d] \in Of(G)
      BY <2>4, <2>8 DEF Within
    <3>2. ASSUME NEW q \in Procs, Home[q] \in Clones, pc'[q] = "write"
          PROVE  job'[q].text \in G[job'[q].kind]
      <4>1. Home[q] # c
        BY <2>3, <2>9, <3>2
      <4> QED
        BY <2>4, <3>2, <4>1 DEF Within
    <3> QED
      BY <2>4, <3>1, <3>2 DEF Within
  <2> QED
    BY <2>3, <2>10 DEF Unfiled
<1>13. CASE Pull(p)
  <2>1. pc[p] = "pull" /\ pc'[p] \in {"read", "failed"}
    BY <1>0, <1>4, <1>13 DEF Pull, Resting
  <2> QED
    BY <1>0, <1>2, <2>1 DEF Unfiled
<1>14. CASE Crash(p)
  <2>1. pc'[p] = "idle"
    BY <1>4, <1>14 DEF Crash, Resting
  <2> QED
    BY <2>1 DEF Unfiled
<1> QED
  BY <1>5, <1>6, <1>7, <1>8, <1>10, <1>11, <1>12, <1>13, <1>14 DEF Step

LEMMA TracedStep ==
  ASSUME Private, TracedInv, TypeOK', NEW p \in Procs, Start(p) \/ Step(p) \/ Crash(p)
  PROVE  TracedInv'
<1>1. TypeOK /\ ops[p] \in Nat
  BY DEF TracedInv, TypeOK
<1>2. ASSUME NEW n \in Nat PROVE Traced(p, n)'
  <2> DEFINE by == <<p, n>>
  <2>1. Traced(p, n) /\ ops'[p] = (IF Start(p) THEN ops[p] + 1 ELSE ops[p])
    BY <1>1, StepHistory DEF TracedInv
  <2>2. CASE n > ops[p]
    <3>1. Within(Without(by), Clones) /\ Cmd(p) # by /\ Home[p] \in Clones
      BY <1>1, <2>1, <2>2, LedgerAssumption DEF Traced, Cmd
    <3>2. Within(Without(by), Clones)'
      BY <1>1, <3>1, WithoutStep
    <3>3. n = ops'[p] => pc'[p] = "read"
      <4>1. n = ops'[p] => Start(p)
        BY <1>1, <2>1, <2>2
      <4>2. Start(p) => pc' = [pc EXCEPT ![p] = "read"]
        BY Zenon DEF Start
      <4> QED
        BY <1>1, <4>1, <4>2 DEF TypeOK
    <3> QED
      BY <3>2, <3>3 DEF Traced, Unfiled
  <2>3. CASE n = ops[p]
    <3>1. ~ (n > ops'[p])
      BY <1>1, <2>1, <2>3
    <3>2. ASSUME n = ops'[p] PROVE Unfiled(p, by)'
      <4>1. ~Start(p)
        BY <1>1, <2>1, <2>3, <3>2
      <4>2. Unfiled(p, by) /\ by = Cmd(p)
        BY <2>1, <2>3 DEF Traced, Cmd
      <4>3. CASE by \in unacked'
        BY <4>3 DEF Unfiled
      <4>4. CASE by \notin unacked'
        BY <1>1, <4>1, <4>2, <4>4, UnfiledStep
      <4> QED
        BY <4>3, <4>4
    <3> QED
      BY <3>1, <3>2 DEF Traced
  <2>4. CASE n < ops[p]
    BY <1>1, <2>1, <2>4 DEF Traced
  <2> QED
    BY <1>1, <2>2, <2>3, <2>4
<1>3. ASSUME NEW q \in Procs \ {p}, NEW n \in Nat PROVE Traced(q, n)'
  BY TracedElse
<1> QED
  BY <1>2, <1>3 DEF TracedInv

LEMMA TracedInit == Init => TracedInv
<1> SUFFICES ASSUME Init PROVE TracedInv
  OBVIOUS
<1>1. TypeOK
  BY TypeInit
<1>2. ASSUME NEW p \in Procs, NEW n \in Nat PROVE Traced(p, n)
  <2> DEFINE G == Without(<<p, n>>)
  <2>1. Empty \in Of(G)
    <3>1. \A k \in Kinds : Empty[k] = <<>> /\ G[k] = {index \in Seq(Entry) : Lacks(index, <<p, n>>)}
      BY DEF Empty, Without
    <3>2. <<>> \in Seq(Entry) /\ Lacks(<<>>, <<p, n>>)
      BY DEF Lacks
    <3>3. Empty \in Snapshot
      BY <3>2 DEF Empty, Snapshot
    <3> HIDE DEF G
    <3> QED
      BY <3>1, <3>2, <3>3 DEF Of
  <2>2. <<Empty>> \in Seq(Of(G))
    BY <2>1
  <2>3. Within(G, Clones)
    BY <2>1, <2>2 DEF Init, Within
  <2> QED
    BY <2>3 DEF Init, Traced, Unfiled
<1> QED
  BY <1>1, <1>2 DEF TracedInv

LEMMA TracedNext ==
  ASSUME Private
  PROVE  TracedInv /\ [Next]_vars => TracedInv'
<1> SUFFICES ASSUME TracedInv, [Next]_vars PROVE TracedInv'
  OBVIOUS
<1>1. TypeOK'
  BY TypeNext DEF TracedInv
<1>2. CASE \E p \in Procs : Start(p) \/ Step(p) \/ Crash(p)
  BY <1>1, <1>2, TracedStep
<1>3. CASE (\E c \in Clones : Edit(c)) \/ UNCHANGED vars
  <2>1. UNCHANGED <<origin, head, work, pc, job, ops, unacked>>
    BY <1>3 DEF Edit, vars, history
  <2>2. ASSUME NEW p \in Procs, NEW n \in Nat PROVE Traced(p, n)'
    <3>1. Traced(p, n)
      BY DEF TracedInv
    <3> QED
      BY <2>1, <3>1 DEF Traced, Unfiled, Within
  <2> QED
    BY <1>1, <2>2 DEF TracedInv
<1> QED
  BY <1>2, <1>3 DEF Next

\* With a working copy for each process, a command that ended in an error left its entry
\* neither at origin nor in a commit, and, unless git refused its commit, not in the working
\* copy; the exception is a command one of whose pushes landed and whose answer was lost.
THEOREM FailureLeavesNothingAlways == ASSUME Private PROVE Spec => []FailureLeavesNothing
<1>1. TracedInv => FailureLeavesNothing
  <2> SUFFICES ASSUME TracedInv, NEW p \in Procs, pc[p] \in {"refused", "failed", "exhausted"},
                      Cmd(p) \notin unacked
               PROVE  /\ ~Holds(Last(origin), Cmd(p))
                      /\ ~Holds(Last(head[Home[p]]), Cmd(p))
                      /\ pc[p] # "refused" => ~Holds(work[Home[p]], Cmd(p))
    BY DEF FailureLeavesNothing
  <2> DEFINE G == Without(Cmd(p))
  <2>1. TypeOK /\ ops[p] \in Nat /\ Home[p] \in Clones
    BY LedgerAssumption DEF TracedInv, TypeOK
  <2>2. /\ Within(G, Clones \ {Home[p]}) /\ head[Home[p]] \in Seq(Of(G))
        /\ pc[p] # "refused" => work[Home[p]] \in Of(G)
    <3>1. Unfiled(p, Cmd(p))
      BY <2>1 DEF TracedInv, Traced, Cmd
    <3>2. CASE pc[p] = "refused"
      BY <3>1, <3>2 DEF Unfiled
    <3>3. CASE pc[p] # "refused"
      <4>1. Within(G, Clones)
        BY <3>1, <3>3 DEF Unfiled
      <4> QED
        BY <2>1, <4>1 DEF Within
    <3> QED
      BY <3>2, <3>3
  <2>3. /\ Last(origin) \in Of(G) /\ Last(head[Home[p]]) \in Of(G)
        /\ pc[p] # "refused" => work[Home[p]] \in Of(G)
    BY <2>1, <2>2, LastType DEF Within, TypeOK
  <2>4. \A s \in Of(G) : ~Holds(s, Cmd(p))
    BY DEF Of, Without, Lacks, Holds
  <2> QED
    BY <2>3, <2>4
<1> QED
  BY <1>1, TracedInit, TracedNext, PTL DEF Spec

-------------------------------------------------------------------------------
(***************************************************************************)
(* Filing once.  A working copy left in mid-rebase may hold an entry twice; *)
(* nothing can be pushed from it any more.                                 *)
(***************************************************************************)

AtMostOnce(index, by) ==
  \A i, j \in DOMAIN index : index[i].by = by /\ index[j].by = by => i = j

\* The entry of `by` is in the ledger k or nowhere, and there once at most.
OnlyIn(k, by) ==
  [l \in Kinds |-> {index \in Seq(Entry) : AtMostOnce(index, by)
                                          /\ (l # k => Lacks(index, by))}]

Live == {c \in Clones : ~wedged[c]}

Once(by) == by \notin unacked => \E k \in Kinds : Within(OnlyIn(k, by), Live)

LEMMA AppendOnce ==
  ASSUME NEW index \in Seq(Entry), NEW e \in Entry, NEW by
  PROVE  /\ Append(index, e) \in Seq(Entry)
         /\ Lacks(index, by) => AtMostOnce(Append(index, e), by)
         /\ AtMostOnce(index, by) /\ e.by # by => AtMostOnce(Append(index, e), by)
<1> DEFINE longer == Append(index, e)
           n == Len(index) + 1
<1>1. /\ longer \in Seq(Entry) /\ DOMAIN longer = 1..n /\ DOMAIN index = 1..Len(index)
      /\ \A i \in DOMAIN index : longer[i] = index[i]
      /\ longer[n] = e
  BY AppendProperties
<1>2. \A i \in DOMAIN longer : i \in DOMAIN index \/ i = n
  BY <1>1
<1> HIDE DEF longer, n
<1>3. ASSUME Lacks(index, by) PROVE AtMostOnce(longer, by)
  <2>1. \A i \in DOMAIN longer : longer[i].by = by => i = n
    BY <1>1, <1>2, <1>3, Zenon DEF Lacks
  <2> QED
    BY <2>1, Zenon DEF AtMostOnce
<1>4. ASSUME AtMostOnce(index, by), e.by # by PROVE AtMostOnce(longer, by)
  <2>1. \A i \in DOMAIN longer : longer[i].by = by => i \in DOMAIN index /\ index[i].by = by
    BY <1>1, <1>2, <1>4, Zenon
  <2> QED
    BY <1>4, <2>1, Zenon DEF AtMostOnce
<1> QED
  BY <1>1, <1>3, <1>4 DEF longer

LEMMA LivesOn ==
  ASSUME TypeOK, NEW p \in Procs, Start(p) \/ Step(p) \/ Crash(p)
  PROVE  \A c \in Clones : wedged[c] => wedged'[c]
<1>1. wedged' = wedged \/ wedged' = [wedged EXCEPT ![Home[p]] = TRUE]
  BY DEF Start, Step, Crash, Read, Write, Commit, PushAccepted, PushRejected, PushBroken, Reset,
         Pull, repo
<1> QED
  BY <1>1 DEF TypeOK

\* A step keeps an entry in its ledger, if what the step writes does.
LEMMA OnlyInStep ==
  ASSUME TypeOK, TypeOK', NEW by, NEW k \in Kinds, Within(OnlyIn(k, by), Live),
         NEW p \in Procs, Start(p) \/ Step(p) \/ Crash(p),
         Write(p) /\ Home[p] \in Live =>
           Append(job[p].text, [id |-> NextId(job[p].text), by |-> Cmd(p)])
             \in OnlyIn(k, by)[job[p].kind]
  PROVE  Within(OnlyIn(k, by), Live)'
<1> DEFINE G == OnlyIn(k, by)
<1> HIDE DEF G
<1>1. PICK C \in SUBSET Clones : C = Live'
  BY DEF Live
<1>2. C \subseteq Live /\ wedged \in [Clones -> BOOLEAN] /\ wedged' \in [Clones -> BOOLEAN]
      /\ Home[p] \in Clones
  BY <1>1, LivesOn, LedgerAssumption DEF Live, TypeOK
<1>3. Within(G, C)
  BY <1>2 DEF Within, G
<1>4. CASE Home[p] \in C
  <2>1. wedged'[Home[p]] = wedged[Home[p]]
    BY <1>1, <1>2, <1>4 DEF Live
  <2>2. Within(G, C)'
    BY <1>2, <1>3, <1>4, <2>1, WithinStep DEF G
  <2> QED
    BY <1>1, <2>2 DEF Within, G
<1>5. CASE Home[p] \notin C
  <2>1. Alone(p) /\ (origin' = origin \/ (FastForward(Home[p]) /\ origin' = head[Home[p]]))
    BY StepAlone
  <2>2. origin' \in Seq(Of(G))
    BY <1>2, <2>1 DEF FastForward, Live, Within, G
  <2>3. Within(G, C)'
    BY <1>3, <1>5, <2>1, <2>2, WithinElse
  <2> QED
    BY <1>1, <2>3 DEF Within, G
<1> QED
  BY <1>4, <1>5

LEMMA OnceStep ==
  ASSUME Private, TracedInv, TypeOK', NEW p \in Procs, Start(p) \/ Step(p) \/ Crash(p),
         NEW by, Once(by)
  PROVE  Once(by)'
<1> SUFFICES ASSUME by \notin unacked' PROVE (\E k \in Kinds : Within(OnlyIn(k, by), Live))'
  BY DEF Once
<1> DEFINE e == [id |-> NextId(job[p].text), by |-> Cmd(p)]
<1>1. TypeOK /\ by \notin unacked /\ job[p].kind \in Kinds /\ job[p].text \in Seq(Entry)
      /\ ops[p] \in Nat
  BY StepHistory DEF TracedInv, TypeOK, Job
<1>2. e \in Entry /\ e.by = Cmd(p)
  BY <1>1, NextIdType DEF Entry, Cmd, Command
<1> HIDE DEF e
<1>3. CASE Write(p) /\ Cmd(p) = by
  <2>1. PICK k \in Kinds : k = job[p].kind
    BY <1>1
  <2>2. pc[p] = "write"
    BY <1>3 DEF Write
  <2>3. Within(Without(by), Clones)
    BY <1>1, <1>3, <2>2 DEF TracedInv, Traced, Unfiled, Cmd
  <2>4. \A l \in Kinds : Without(by)[l] \subseteq OnlyIn(k, by)[l]
    BY DEF Without, OnlyIn, Lacks, AtMostOnce
  <2>5. Of(Without(by)) \subseteq Of(OnlyIn(k, by))
    BY <2>4 DEF Of
  <2>6. \A h \in Seq(Of(Without(by))) : h \in Seq(Of(OnlyIn(k, by)))
    BY <2>5
  <2>7. Live \subseteq Clones /\ \A q \in Procs : job[q].kind \in Kinds
    BY <1>1 DEF Live, TypeOK, Job
  <2>8. Within(OnlyIn(k, by), Live)
    BY <2>3, <2>4, <2>5, <2>6, <2>7 DEF Within
  <2>9. job[p].text \in Without(by)[job[p].kind]
    BY <2>2, <2>3, LedgerAssumption DEF Within
  <2>10. Lacks(job[p].text, by)
    BY <1>1, <2>9 DEF Without
  <2>11. Append(job[p].text, e) \in OnlyIn(k, by)[job[p].kind]
    BY <1>1, <1>2, <2>1, <2>10, AppendOnce DEF OnlyIn
  <2>12. Within(OnlyIn(k, by), Live)'
    BY <1>1, <2>8, <2>11, OnlyInStep DEF e
  <2> QED
    BY <2>12
<1>4. CASE ~(Write(p) /\ Cmd(p) = by)
  <2>1. PICK k \in Kinds : Within(OnlyIn(k, by), Live)
    BY <1>1 DEF Once
  <2>2. ASSUME Write(p), Home[p] \in Live
        PROVE  Append(job[p].text, e) \in OnlyIn(k, by)[job[p].kind]
    <3>1. pc[p] = "write" /\ e.by # by
      BY <1>2, <1>4, <2>2 DEF Write
    <3>2. job[p].text \in OnlyIn(k, by)[job[p].kind]
      BY <2>1, <2>2, <3>1 DEF Within
    <3>3. AtMostOnce(job[p].text, by) /\ (job[p].kind # k => Lacks(job[p].text, by))
      BY <1>1, <3>2 DEF OnlyIn
    <3> QED
      BY <1>1, <1>2, <3>1, <3>3, AppendOnce, AppendLacks DEF OnlyIn
  <2>3. Within(OnlyIn(k, by), Live)'
    BY <1>1, <2>1, <2>2, OnlyInStep DEF e
  <2> QED
    BY <2>3
<1> QED
  BY <1>3, <1>4

\* With a working copy for each process, a command files its entry once, in one ledger,
\* unless one of its pushes landed and the answer was lost.
THEOREM FiledOnceAlways == ASSUME Private PROVE Spec => []FiledOnce
<1> DEFINE Inv == TracedInv /\ \A by \in Command : Once(by)
<1>1. Init => Inv
  <2> SUFFICES ASSUME Init, NEW by \in Command PROVE Once(by)
    BY TracedInit
  <2>1. PICK k \in Kinds : TRUE
    BY LedgerAssumption
  <2> DEFINE G == OnlyIn(k, by)
  <2>2. \A l \in Kinds : <<>> \in G[l]
    <3>1. <<>> \in Seq(Entry) /\ Lacks(<<>>, by) /\ AtMostOnce(<<>>, by)
      BY DEF Lacks, AtMostOnce
    <3> QED
      BY <3>1 DEF OnlyIn
  <2> HIDE DEF G
  <2>3. Empty \in Of(G)
    BY <2>2 DEF Of, Empty, Snapshot
  <2>4. <<Empty>> \in Seq(Of(G))
    BY <2>3
  <2>5. Within(G, Live)
    BY <2>3, <2>4 DEF Init, Within, Live
  <2> QED
    BY <2>5 DEF Once, G
<1>2. Inv /\ [Next]_vars => Inv'
  <2> SUFFICES ASSUME Inv, [Next]_vars PROVE Inv'
    OBVIOUS
  <2>1. TracedInv' /\ TypeOK'
    BY TracedNext DEF TracedInv
  <2>2. ASSUME NEW by \in Command PROVE Once(by)'
    <3>1. CASE \E p \in Procs : Start(p) \/ Step(p) \/ Crash(p)
      BY <2>1, <3>1, OnceStep
    <3>2. CASE (\E c \in Clones : Edit(c)) \/ UNCHANGED vars
      <4>1. UNCHANGED <<origin, head, work, wedged, pc, job, unacked>>
        BY <3>2 DEF Edit, vars, history
      <4> QED
        BY <4>1 DEF Once, Within, Live
    <3> QED
      BY <3>1, <3>2 DEF Next
  <2> QED
    BY <2>1, <2>2
<1>3. Inv => FiledOnce
  <2> SUFFICES ASSUME Inv, NEW k \in Kinds, NEW l \in Kinds,
                      NEW i \in DOMAIN Last(origin)[k], NEW j \in DOMAIN Last(origin)[l],
                      Last(origin)[k][i].by = Last(origin)[l][j].by,
                      Last(origin)[k][i].by \notin unacked
               PROVE  k = l /\ i = j
    BY DEF FiledOnce
  <2>1. PICK by \in Command : by = Last(origin)[k][i].by
    <3>1. Last(origin) \in Snapshot
      BY LastType DEF TracedInv, TypeOK
    <3>2. Last(origin)[k][i] \in Entry
      BY <3>1 DEF Snapshot
    <3> QED
      BY <3>2 DEF Entry
  <2>2. PICK m \in Kinds : Within(OnlyIn(m, by), Live)
    BY <2>1 DEF Once
  <2>3. Last(origin) \in Of(OnlyIn(m, by))
    BY <2>2, LastType DEF Within, TracedInv, TypeOK
  <2>4. \A n \in Kinds : AtMostOnce(Last(origin)[n], by) /\ (n # m => Lacks(Last(origin)[n], by))
    BY <2>3 DEF Of, OnlyIn
  <2>5. k = m /\ l = m
    BY <2>1, <2>4, Zenon DEF Lacks
  <2>6. i = j
    BY <2>1, <2>4, <2>5, Zenon DEF AtMostOnce
  <2> QED
    BY <2>5, <2>6
<1> QED
  BY <1>1, <1>2, <1>3, PTL DEF Spec

-------------------------------------------------------------------------------
(***************************************************************************)
(* The counter.  Where commands always push, none is killed and a push      *)
(* that lands is acknowledged, a working copy holds at most one commit that *)
(* origin does not have: that of the command it runs.  So a pull finds      *)
(* nothing to replay, and an accepted push publishes exactly one entry.     *)
(***************************************************************************)

\* s with the entry of p's command at the end of its ledger.
Filing(p, s) == [s EXCEPT ![job[p].kind] = Append(@, [id |-> job[p].id, by |-> Cmd(p)])]

\* The history of p's working copy, without the commit of the command it runs.
Base(p) == IF pc[p] \in {"push", "reset"} THEN Front(head[Home[p]]) ELSE head[Home[p]]

Orderly(p) ==
  /\ ~wedged[Home[p]] /\ job[p].push
  /\ IsPrefix(Base(p), origin)
  /\ pc[p] # "commit" => work[Home[p]] = Last(head[Home[p]])
  /\ pc[p] \in {"commit", "push", "reset"} =>
       /\ work[Home[p]] = Filing(p, Last(Base(p)))
       /\ job[p].id = Len(Last(Base(p))[job[p].kind]) + 1

Sound == Faults \subseteq {"edit", "offline"}

CountInv == KeepInv /\ TracedInv /\ unacked = {} /\ \A p \in Procs : Orderly(p)

\* Another's step.
LEMMA OrderlyElse ==
  ASSUME Private, TypeOK, TypeOK', NEW p \in Procs, NEW q \in Procs \ {p}, Alone(p), Orderly(q),
         Base(q) \in Seq(Snapshot), origin' = origin \/ IsPrefix(origin, origin')
  PROVE  Orderly(q)'
<1>1. /\ Home[q] \in Clones \ {Home[p]} /\ origin \in Seq(Snapshot) /\ origin' \in Seq(Snapshot)
  BY LedgerAssumption DEF Private, TypeOK
<1>2. /\ head'[Home[q]] = head[Home[q]] /\ work'[Home[q]] = work[Home[q]]
      /\ wedged'[Home[q]] = wedged[Home[q]]
      /\ pc'[q] = pc[q] /\ job'[q] = job[q] /\ ops'[q] = ops[q]
  BY <1>1 DEF Alone
<1>3. Base(q)' = Base(q) /\ \A s : Filing(q, s)' = Filing(q, s)
  BY <1>2 DEF Base, Filing, Cmd
<1>4. IsPrefix(Base(q), origin')
  BY <1>1, PrefixTransitive DEF Orderly
<1> QED
  BY <1>2, <1>3, <1>4 DEF Orderly

\* A working copy that is behind origin has nothing to replay.
LEMMA BehindReplaysNothing ==
  ASSUME TypeOK, NEW c \in Clones, IsPrefix(head[c], origin),
         NEW b \in 1..Len(head[c]), MergeBase(b, head[c], origin)
  PROVE  Changed(head[c], b) = {} /\ origin \o Replayed(c, b) = origin
<1>1. head[c] \in Seq(Snapshot) /\ origin \in Seq(Snapshot) /\ head[c] # <<>>
  BY DEF TypeOK
<1>2. Len(head[c]) <= Len(origin) /\ \A i \in 1..Len(head[c]) : head[c][i] = origin[i]
  BY <1>1, PrefixPointwise
<1>3. b = Len(head[c])
  <2>1. Len(head[c]) \in Nat /\ Len(origin) \in Nat
    BY <1>1
  <2>2. ASSUME b < Len(head[c]) PROVE FALSE
    <3>1. b < Len(origin) /\ b + 1 \in 1..Len(head[c])
      BY <1>2, <2>1, <2>2
    <3>2. head[c][b + 1] # origin[b + 1]
      BY <2>2, <3>1 DEF MergeBase
    <3> QED
      BY <1>2, <3>1, <3>2
  <2> QED
    BY <2>1, <2>2
<1>4. Changed(head[c], b) = {}
  BY <1>1, <1>3 DEF Changed, Last
<1>5. Replayed(c, b) = <<>>
  <2>1. Len(head[c]) - b = 0
    BY <1>1, <1>3
  <2>2. Replayed(c, b) \in Seq(Snapshot) /\ Len(Replayed(c, b)) = 0
    <3>1. DOMAIN Replayed(c, b) = 1..0
      BY <2>1 DEF Replayed
    <3>2. Replayed(c, b) \in Seq(Snapshot)
      BY ReplayedType
    <3> QED
      BY <3>1, <3>2
  <2> QED
    BY <2>2, EmptySeq
<1> QED
  BY <1>1, <1>4, <1>5

\* An entry of the command p is not in an index that does not have it.
LEMMA FilingType ==
  ASSUME TypeOK, NEW p \in Procs, NEW s \in Snapshot
  PROVE  LET k == job[p].kind
             e == [id |-> job[p].id, by |-> Cmd(p)]
         IN  /\ e \in Entry /\ Filing(p, s) \in Snapshot
             /\ Filing(p, s)[k] = Append(s[k], e)
             /\ \A l \in Kinds \ {k} : Filing(p, s)[l] = s[l]
             /\ Filing(p, s)[k][Len(s[k]) + 1] = e
             /\ Len(s[k]) + 1 \in DOMAIN Filing(p, s)[k]
<1> DEFINE k == job[p].kind
           e == [id |-> job[p].id, by |-> Cmd(p)]
<1>1. k \in Kinds /\ job[p].id \in Nat /\ Cmd(p) \in Command
  BY DEF TypeOK, Job, Cmd, Command
<1>2. e \in Entry /\ s[k] \in Seq(Entry)
  BY <1>1 DEF Entry, Snapshot
<1>3. Filing(p, s) = [s EXCEPT ![k] = Append(s[k], e)]
  BY DEF Filing
<1> HIDE DEF k, e
<1>4. /\ Append(s[k], e) \in Seq(Entry) /\ Append(s[k], e)[Len(s[k]) + 1] = e
      /\ Len(s[k]) + 1 \in DOMAIN Append(s[k], e)
  BY <1>2, AppendProperties
<1>5. /\ Filing(p, s) \in Snapshot /\ Filing(p, s)[k] = Append(s[k], e)
      /\ \A l \in Kinds \ {k} : Filing(p, s)[l] = s[l]
  BY <1>1, <1>3, <1>4 DEF Snapshot
<1> QED
  BY <1>2, <1>4, <1>5 DEF k, e

\* origin is what p's commit went on from, when it takes p's push.
LEMMA PushedOn ==
  ASSUME NEW h \in Seq(Snapshot), NEW g \in Seq(Snapshot), Len(h) > 1,
         IsPrefix(g, h), IsPrefix(Front(h), g), g # h
  PROVE  g = Front(h)
<1>1. /\ Len(h) \in Nat /\ Len(g) \in Nat /\ Front(h) \in Seq(Snapshot)
      /\ Len(Front(h)) = Len(h) - 1
      /\ \A i \in 1..(Len(h) - 1) : Front(h)[i] = h[i]
  BY FrontType
<1>2. Len(g) <= Len(h) /\ \A i \in 1..Len(g) : g[i] = h[i]
  BY PrefixPointwise
<1>3. Len(Front(h)) <= Len(g)
  BY <1>1, PrefixPointwise
<1>4. Len(g) # Len(h)
  BY <1>1, <1>2, SeqEqual
<1>5. Len(g) = Len(h) - 1
  BY <1>1, <1>2, <1>3, <1>4
<1>6. \A i \in 1..Len(g) : g[i] = Front(h)[i]
  BY <1>1, <1>2, <1>5
<1> QED
  BY <1>1, <1>5, <1>6, SeqEqual

\* One atomic step of the counter: p's entry is filed, and p answered with its number.
Counts(p) ==
  /\ Answered(p) \notin answers
  /\ answers' = answers \cup {Answered(p)}
  /\ job[p].id = Len(Last(origin)[job[p].kind]) + 1
  /\ Last(origin') = Filing(p, Last(origin))

LEMMA OrderlyStep ==
  ASSUME Private, Sound, CountInv, TypeOK', NEW p \in Procs, Start(p) \/ Step(p) \/ Crash(p)
  PROVE  /\ Orderly(p)' /\ unacked' = {}
         /\ UNCHANGED <<origin, answers>> \/ (job[p].push /\ Counts(p))
<1> DEFINE c == Home[p]
           k == job[p].kind
           e == [id |-> job[p].id, by |-> Cmd(p)]
           G == Without(Cmd(p))
<1>0. /\ TypeOK /\ c \in Clones /\ k \in Kinds /\ job[p] \in Job /\ ops[p] \in Nat
      /\ pc \in [Procs -> Phases] /\ job \in [Procs -> Job]
      /\ head \in [Clones -> Seq(Snapshot)] /\ work \in [Clones -> Snapshot]
      /\ wedged \in [Clones -> BOOLEAN]
      /\ head[c] \in Seq(Snapshot) /\ head[c] # <<>> /\ work[c] \in Snapshot
      /\ origin \in Seq(Snapshot) /\ origin # <<>>
  BY LedgerAssumption DEF CountInv, TracedInv, TypeOK, Job
<1>00. /\ Orderly(p) /\ ~wedged[c] /\ job[p].push /\ unacked = {} /\ ProcKept(p)
       /\ AnswerIsPublished
  BY DEF CountInv, Orderly, KeepInv
<1>01. Unfiled(p, Cmd(p)) /\ Cmd(p) \notin unacked
  BY <1>0, <1>00 DEF CountInv, TracedInv, Traced, Cmd
<1> HIDE DEF c, k, G
<1>1. NoJob.push = TRUE
  BY NoJobType DEF NoJob
\* p is not about to commit, push or roll back.
<1>2. ASSUME pc'[p] \notin {"commit", "push", "reset"}, job'[p].push, ~wedged'[c],
             IsPrefix(head'[c], origin'), work'[c] = Last(head'[c])
      PROVE  Orderly(p)'
  BY <1>2 DEF Orderly, Base, c
<1>3. ASSUME NEW how \in Resting, Return(p, how)
      PROVE  pc'[p] \notin {"commit", "push", "reset"} /\ job'[p].push
  BY <1>0, <1>00, <1>1, <1>3 DEF Return, Resting
<1>4. ASSUME pc[p] \notin {"commit", "push", "reset"}
      PROVE  IsPrefix(head[c], origin) /\ work[c] = Last(head[c])
  BY <1>00, <1>4 DEF Orderly, Base, c
<1>5. ASSUME pc[p] \notin {"commit", "push", "reset"}, UNCHANGED <<origin, head, work, wedged>>,
             pc'[p] \notin {"commit", "push", "reset"}, job'[p].push
      PROVE  Orderly(p)'
  BY <1>00, <1>2, <1>4, <1>5
<1>6. CASE Start(p)
  <2>1. PICK l \in Kinds, push \in BOOLEAN :
          /\ ~push => "no-push" \in Faults
          /\ job' = [job EXCEPT ![p] = [NoJob EXCEPT !.kind = l, !.push = push,
                                                     !.left = Attempts, !.since = Len(origin)]]
    BY <1>6 DEF Start
  <2>2. push = TRUE
    BY <2>1 DEF Sound
  <2> DEFINE j == [NoJob EXCEPT !.kind = l, !.push = push, !.left = Attempts, !.since = Len(origin)]
  <2>3. j.push = push
    BY NoJobType DEF Job
  <2> HIDE DEF j
  <2>4. job' = [job EXCEPT ![p] = j]
    BY <2>1 DEF j
  <2>5. job'[p].push
    BY <1>0, <2>2, <2>3, <2>4
  <2>6. /\ pc[p] \in Resting /\ pc'[p] = "read" /\ UNCHANGED <<repo, history>>
    <3>1. pc' = [pc EXCEPT ![p] = "read"] /\ pc[p] \in Resting /\ UNCHANGED <<repo, history>>
      BY <1>6, Zenon DEF Start
    <3> QED
      BY <1>0, <3>1
  <2> QED
    BY <1>00, <1>5, <2>5, <2>6 DEF Resting, repo, history
<1>7. CASE Read(p)
  <2>1. pc[p] = "read" /\ UNCHANGED <<repo, history>>
    BY <1>7 DEF Read
  <2>2. CASE job[p].left = 0
    BY <1>00, <1>3, <1>5, <1>7, <2>1, <2>2 DEF Read, Resting, repo, history
  <2>3. CASE job[p].left # 0
    <3> DEFINE j == [job[p] EXCEPT !.text = work[Home[p]][job[p].kind], !.left = job[p].left - 1]
    <3>1. job' = [job EXCEPT ![p] = j] /\ pc' = [pc EXCEPT ![p] = "write"]
      BY <1>7, <2>3 DEF Read
    <3>2. j.push = job[p].push
      BY <1>0 DEF Job
    <3> HIDE DEF j
    <3>3. pc'[p] = "write" /\ job'[p].push
      BY <1>0, <1>00, <3>1, <3>2
    <3> QED
      BY <1>00, <1>5, <2>1, <3>3 DEF repo, history
  <2> QED
    BY <2>2, <2>3
<1>8. CASE Write(p)
  <2> DEFINE text == job[p].text
             j == [job[p] EXCEPT !.id = NextId(text), !.text = <<>>]
  <2>1. pc[p] = "write" /\ text \in Seq(Entry) /\ text = work[c][k]
    BY <1>0, <1>00, <1>8 DEF Write, Job, ProcKept, c, k
  <2>2. work[c] = Last(head[c]) /\ IsPrefix(head[c], origin)
    BY <1>4, <2>1
  <2>3. NextId(text) = Len(text) + 1
    BY <1>0, <1>00, <2>1, NextIdOfDense DEF CountInv, KeepInv, PushableDense, c
  <2>4. /\ job' = [job EXCEPT ![p] = j] /\ pc' = [pc EXCEPT ![p] = "commit"]
        /\ work' = [work EXCEPT ![c] = [work[c] EXCEPT ![k] =
                      Append(text, [id |-> NextId(text), by |-> Cmd(p)])]]
        /\ UNCHANGED <<origin, head, wedged, ops, history>>
    BY <1>8 DEF Write, c, k
  <2>5. j.id = NextId(text) /\ j.kind = k /\ j.push = job[p].push
    BY <1>0 DEF Job, k
  <2> HIDE DEF text, j
  <2>6. /\ job'[p].id = NextId(text) /\ job'[p].kind = k /\ job'[p].push /\ pc'[p] = "commit"
        /\ work'[c] = [work[c] EXCEPT ![k] = Append(text, [id |-> NextId(text), by |-> Cmd(p)])]
    BY <1>0, <1>00, <2>4, <2>5
  <2>7. Cmd(p)' = Cmd(p) /\ Base(p)' = head[c]
    BY <2>4, <2>6 DEF Cmd, Base, c
  <2>8. work'[c] = Filing(p, Last(head[c]))'
    BY <2>1, <2>2, <2>4, <2>6, <2>7 DEF Filing
  <2>9. job'[p].id = Len(Last(head[c])[k]) + 1
    BY <2>1, <2>2, <2>3, <2>6
  <2>10. Orderly(p)'
    BY <1>00, <2>2, <2>4, <2>6, <2>7, <2>8, <2>9 DEF Orderly, c
  <2> QED
    BY <1>00, <2>4, <2>10 DEF history
<1>9. CASE Commit(p)
  <2>1. /\ pc[p] = "commit" /\ head[c] \in Seq(Of(G)) /\ IsPrefix(head[c], origin)
        /\ work[c] = Filing(p, Last(head[c])) /\ job[p].id = Len(Last(head[c])[k]) + 1
    BY <1>00, <1>01, <1>9 DEF Commit, Files, Orderly, Base, Unfiled, c, k, G
  <2>2. Last(head[c]) \in Snapshot /\ Lacks(Last(head[c])[k], Cmd(p))
    BY <1>0, <2>1, LastType DEF Of, Without, G
  <2>3. /\ work[c][k] = Append(Last(head[c])[k], e) /\ work[c][k] # Last(head[c])[k]
        /\ \A l \in Kinds \ {k} : work[c][l] = Last(head[c])[l]
    BY <1>0, <2>1, <2>2, FilingType DEF Lacks, k
  <2>4. [Last(head[c]) EXCEPT ![k] = work[c][k]] = work[c]
    BY <1>0, <2>2, <2>3 DEF Snapshot
  <2>5. /\ head' = [head EXCEPT ![c] = Append(head[c], work[c])]
        /\ pc' = [pc EXCEPT ![p] = "push"]
        /\ UNCHANGED <<origin, work, wedged, job, ops, answers, unacked>>
    BY <1>00, <1>9, <2>3, <2>4 DEF Commit, Sound, c, k
  <2>6. head'[c] = Append(head[c], work[c]) /\ pc'[p] = "push"
    BY <1>0, <2>5
  <2>7. Len(head[c]) >= 1
    BY <1>0, EmptySeq
  <2>8. Front(head'[c]) = head[c] /\ Last(head'[c]) = work[c]
    BY <1>0, <2>6, <2>7, FrontOfAppend DEF Last
  <2>9. Base(p)' = head[c] /\ Cmd(p)' = Cmd(p)
    BY <2>5, <2>6, <2>8 DEF Base, Cmd, c
  <2>10. Filing(p, Last(head[c]))' = Filing(p, Last(head'[c]))
    BY <2>5, <2>9 DEF Filing
  <2>11. Filing(p, Last(Base(p)))' = work[c]
    BY <2>1, <2>5, <2>9 DEF Filing
  <2>12. Orderly(p)'
    BY <1>00, <2>1, <2>5, <2>6, <2>8, <2>9, <2>11 DEF Orderly, c, k
  <2> QED
    BY <1>00, <2>5, <2>12
<1>10. ASSUME pc[p] \in {"push", "reset"}
       PROVE  /\ Len(head[c]) > 1 /\ Front(head[c]) \in Seq(Snapshot) /\ Front(head[c]) # <<>>
              /\ IsPrefix(Front(head[c]), origin)
              /\ origin \in Seq(Of(G)) /\ work[c] = Last(head[c])
              /\ Last(head[c]) = Filing(p, Last(Front(head[c])))
              /\ job[p].id = Len(Last(Front(head[c]))[k]) + 1
  <2>1. Len(head[c]) > 1 /\ origin \in Seq(Of(G))
    BY <1>01, <1>10 DEF Unfiled, Within, c, G
  <2>2. Front(head[c]) \in Seq(Snapshot) /\ Front(head[c]) # <<>>
    BY <1>0, <2>1, FrontType
  <2>3. Base(p) = Front(head[c])
    BY <1>10 DEF Base, c
  <2> QED
    BY <1>00, <1>10, <2>1, <2>2, <2>3 DEF Orderly, c, k
<1>11. CASE PushAccepted(p)
  <2>1. /\ pc[p] = "push" /\ IsPrefix(origin, head[c]) /\ origin' = head[c]
        /\ answers' = answers \cup {Answered(p)} /\ Return(p, "idle")
        /\ UNCHANGED <<head, work, wedged, unacked>>
    BY <1>11 DEF PushAccepted, FastForward, c
  <2>2. Last(origin) \in Snapshot /\ Lacks(Last(origin)[k], Cmd(p))
    BY <1>0, <1>10, <2>1, LastType DEF Of, Without, G
  <2>3. origin # head[c]
    <3>1. Last(Front(head[c])) \in Snapshot
      BY <1>10, <2>1, LastType
    <3>2. /\ Last(head[c])[k][Len(Last(Front(head[c]))[k]) + 1] = e
          /\ Len(Last(Front(head[c]))[k]) + 1 \in DOMAIN Last(head[c])[k]
      BY <1>0, <1>10, <2>1, <3>1, FilingType DEF k
    <3>3. e.by = Cmd(p)
      OBVIOUS
    <3> HIDE DEF e
    <3> QED
      BY <2>2, <3>2, <3>3 DEF Lacks
  <2>4. origin = Front(head[c])
    BY <1>0, <1>10, <2>1, <2>3, PushedOn
  <2>5. Last(origin') = Filing(p, Last(origin)) /\ job[p].id = Len(Last(origin)[k]) + 1
    BY <1>10, <2>1, <2>4
  <2>6. Answered(p) \notin answers
    <3>1. /\ Answered(p).push = job[p].push /\ Answered(p).kind = k /\ Answered(p).id = job[p].id
          /\ Answered(p).by = Cmd(p)
      BY DEF Answered, k
    <3>2. ASSUME Answered(p) \in answers PROVE FALSE
      <4>1. /\ job[p].id \in DOMAIN Last(origin)[k]
            /\ Last(origin)[k][job[p].id] = e
        BY <1>00, <3>1, <3>2 DEF AnswerIsPublished
      <4>2. e.by = Cmd(p)
        OBVIOUS
      <4> HIDE DEF e
      <4> QED
        BY <2>2, <4>1, <4>2 DEF Lacks
    <3> QED
      BY <3>2
  <2>7. Counts(p)
    BY <2>1, <2>5, <2>6 DEF Counts, k
  <2>8. IsPrefix(head'[c], origin') /\ work'[c] = Last(head'[c]) /\ ~wedged'[c]
    <3>1. IsPrefix(head[c], head[c])
      BY <1>0, PrefixPointwise
    <3> QED
      BY <1>00, <1>10, <2>1, <3>1
  <2>9. Orderly(p)'
    BY <1>2, <1>3, <2>1, <2>8 DEF Resting
  <2> QED
    BY <1>00, <2>1, <2>7, <2>9
\* A push that changes nothing.
<1>12. ASSUME pc[p] = "push", pc' = [pc EXCEPT ![p] = "reset"],
              UNCHANGED <<origin, head, work, wedged, ops>>,
              job'[p].push, job'[p].kind = k, job'[p].id = job[p].id
       PROVE  Orderly(p)'
  <2>1. pc'[p] = "reset"
    BY <1>0, <1>12
  <2>2. Base(p)' = Base(p) /\ Filing(p, Last(Base(p)))' = Filing(p, Last(Base(p)))
    BY <1>12, <2>1 DEF Base, Filing, Cmd, k
  <2> QED
    BY <1>00, <1>12, <2>1, <2>2 DEF Orderly, k
<1>13. CASE PushRejected(p)
  <2>1. /\ pc[p] = "push" /\ pc' = [pc EXCEPT ![p] = "reset"]
        /\ UNCHANGED <<repo, job, ops, history>>
    BY <1>13 DEF PushRejected
  <2> QED
    BY <1>00, <1>12, <2>1 DEF repo, history, k
<1>14. CASE PushBroken(p)
  <2>1. /\ pc[p] = "push" /\ pc' = [pc EXCEPT ![p] = "reset"]
        /\ UNCHANGED <<origin, unacked, head, work, wedged, ops, answers>>
        /\ job' = [job EXCEPT ![p].shaky = TRUE]
    BY <1>14 DEF PushBroken, Sound
  <2>2. job'[p].push = job[p].push /\ job'[p].kind = k /\ job'[p].id = job[p].id
    BY <1>0, <2>1 DEF Job, k
  <2> QED
    BY <1>00, <1>12, <2>1, <2>2
<1>15. CASE Reset(p)
  <2>1. pc[p] = "reset"
    BY <1>15 DEF Reset
  <2>2. Len(head[c]) # 1
    <3>1. \A n \in Nat : n > 1 => n # 1
      OBVIOUS
    <3>2. Len(head[c]) \in Nat /\ Len(head[c]) > 1
      BY <1>0, <1>10, <2>1
    <3> QED
      BY <3>1, <3>2, Zenon
  <2>3. /\ head' = [head EXCEPT ![c] = Front(head[c])]
        /\ work' = [work EXCEPT ![c] = head[c][Len(head[c]) - 1]]
        /\ pc' = [pc EXCEPT ![p] = "pull"]
        /\ UNCHANGED <<origin, wedged, job, answers, unacked>>
    BY <1>15, <2>2 DEF Reset, history, c
  <2>4. /\ head'[c] = Front(head[c]) /\ work'[c] = head[c][Len(head[c]) - 1] /\ pc'[p] = "pull"
    BY <1>0, <2>3
  <2>5. Last(Front(head[c])) = head[c][Len(head[c]) - 1]
    <3>1. /\ Len(Front(head[c])) = Len(head[c]) - 1 /\ Len(head[c]) - 1 \in 1..(Len(head[c]) - 1)
          /\ \A i \in 1..(Len(head[c]) - 1) : Front(head[c])[i] = head[c][i]
      BY <1>0, <1>10, <2>1, FrontType
    <3> QED
      BY <3>1 DEF Last
  <2>6. Orderly(p)'
    BY <1>00, <1>2, <1>10, <2>1, <2>3, <2>4, <2>5
  <2> QED
    BY <1>00, <2>3, <2>6
<1>16. CASE Pull(p)
  <2>1. /\ pc[p] = "pull" /\ UNCHANGED <<origin, answers, unacked>>
        /\ IsPrefix(head[c], origin) /\ work[c] = Last(head[c])
    BY <1>4, <1>16 DEF Pull, history
  <2>2. CASE Return(p, "failed") /\ UNCHANGED <<head, work, wedged>>
    BY <1>00, <1>3, <1>5, <2>1, <2>2 DEF Resting
  <2>3. ASSUME NEW b \in 1..Len(head[c]), MergeBase(b, head[c], origin),
               head' = [head EXCEPT ![c] = origin \o Replayed(c, b)],
               work' = [work EXCEPT ![c] = Last(head'[c])],
               pc' = [pc EXCEPT ![p] = "read"],
               UNCHANGED <<wedged, job>>
        PROVE  Orderly(p)'
    <3>1. head'[c] = origin /\ work'[c] = Last(origin) /\ pc'[p] = "read"
      BY <1>0, <2>1, <2>3, BehindReplaysNothing
    <3>2. IsPrefix(origin, origin)
      BY <1>0, PrefixPointwise
    <3> QED
      BY <1>00, <1>2, <2>1, <2>3, <3>1, <3>2
  <2>4. ASSUME NEW b \in 1..Len(head[c]), MergeBase(b, head[c], origin),
               Changed(head[c], b) \cap Changed(origin, b) # {}
        PROVE  FALSE
    BY <1>0, <2>1, <2>4, BehindReplaysNothing
  <2> QED
    BY <1>00, <1>16, <2>1, <2>2, <2>3, <2>4 DEF Pull, c
<1>17. CASE Crash(p)
  BY <1>17 DEF Crash, Sound
<1> QED
  BY <1>6, <1>7, <1>8, <1>9, <1>11, <1>13, <1>14, <1>15, <1>16, <1>17 DEF Step

LEMMA CountInit == Init => CountInv
<1> SUFFICES ASSUME Init PROVE CountInv
  OBVIOUS
<1>1. IsPrefix(<<Empty>>, <<Empty>>)
  <2> DEFINE h == <<Empty>>
  <2>1. h \in Seq({Empty})
    OBVIOUS
  <2> HIDE DEF h
  <2>2. Len(h) \in Nat
    BY <2>1
  <2>3. IsPrefix(h, h)
    BY <2>1, <2>2, PrefixPointwise
  <2> QED
    BY <2>3 DEF h
<1>2. NoJob.push = TRUE
  BY DEF NoJob
<1>3. ASSUME NEW p \in Procs PROVE Orderly(p)
  <2>1. Home[p] \in Clones /\ pc[p] = "idle" /\ job[p] = NoJob /\ origin = <<Empty>>
        /\ head[Home[p]] = <<Empty>> /\ work[Home[p]] = Empty /\ ~wedged[Home[p]]
    BY LedgerAssumption DEF Init
  <2> QED
    BY <1>1, <1>2, <2>1 DEF Orderly, Base, Last
<1> QED
  BY <1>3, KeepInit, TracedInit DEF Init, CountInv

LEMMA CountNext ==
  ASSUME Private, Sound
  PROVE  CountInv /\ [Next]_vars =>
           /\ CountInv'
           /\ UNCHANGED <<origin, answers>> \/ \E p \in Procs : job[p].push /\ Counts(p)
<1> SUFFICES ASSUME CountInv, [Next]_vars
             PROVE  /\ CountInv'
                    /\ UNCHANGED <<origin, answers>> \/ \E p \in Procs : job[p].push /\ Counts(p)
  OBVIOUS
<1>1. KeepInv' /\ TracedInv' /\ TypeOK /\ TypeOK'
  BY KeepNext, TracedNext DEF CountInv, TracedInv
<1>2. CASE \E p \in Procs : Start(p) \/ Step(p) \/ Crash(p)
  <2>1. PICK p \in Procs : Start(p) \/ Step(p) \/ Crash(p)
    BY <1>2
  <2>2. /\ Orderly(p)' /\ unacked' = {}
        /\ UNCHANGED <<origin, answers>> \/ (job[p].push /\ Counts(p))
    BY <1>1, <2>1, OrderlyStep
  <2>3. Alone(p) /\ (origin' = origin \/ IsPrefix(origin, origin'))
    BY <1>1, <2>1, StepAlone DEF FastForward
  <2>4. ASSUME NEW q \in Procs \ {p} PROVE Orderly(q)'
    <3>1. Orderly(q) /\ Home[q] \in Clones /\ head[Home[q]] \in Seq(Snapshot)
      BY <1>1, LedgerAssumption DEF CountInv, TypeOK
    <3>2. pc[q] \in {"push", "reset"} => Len(head[Home[q]]) > 1
      <4>1. ops[q] \in Nat /\ Unfiled(q, Cmd(q)) /\ Cmd(q) \notin unacked
        BY <1>1 DEF CountInv, TracedInv, Traced, Cmd, TypeOK
      <4> QED
        BY <4>1 DEF Unfiled
    <3>3. Base(q) \in Seq(Snapshot)
      BY <3>1, <3>2, FrontType DEF Base
    <3> QED
      BY <1>1, <2>3, <3>1, <3>3, OrderlyElse
  <2> QED
    BY <1>1, <2>2, <2>4 DEF CountInv
<1>3. CASE (\E c \in Clones : Edit(c)) \/ UNCHANGED vars
  <2>1. UNCHANGED <<origin, head, work, wedged, pc, job, ops, answers, unacked>>
    BY <1>3 DEF Edit, vars, history
  <2>2. ASSUME NEW p \in Procs PROVE Orderly(p)'
    <3>1. Orderly(p)
      BY DEF CountInv
    <3> QED
      BY <2>1, <3>1 DEF Orderly, Base, Filing, Cmd
  <2> QED
    BY <1>1, <2>1, <2>2 DEF CountInv
<1> QED
  BY <1>2, <1>3 DEF Next

\* With a working copy for each process, no --no-push, no killed process and no push whose
\* answer is lost, add_entry is an atomic fetch-and-increment, for any number of processes,
\* commands and retries, while the connection comes and goes.
THEOREM LedgerImplementsCounter == ASSUME Private, Sound PROVE Spec => ImplementsCounter
<1>1. Init => Abstract!Init
  BY DEF Init, Abstract!Init, Empty, Last
<1>2. CountInv /\ [Next]_vars =>
        [Abstract!FileAndAnswer]_<<Last(origin), {a \in answers : a.push}>>
  <2> SUFFICES ASSUME CountInv, [Next]_vars,
                      <<Last(origin), {a \in answers : a.push}>>' # <<Last(origin), {a \in answers : a.push}>>
               PROVE  Abstract!FileAndAnswer
    OBVIOUS
  <2>1. PICK p \in Procs : job[p].push /\ Counts(p)
    BY CountNext
  <2> DEFINE a == Answered(p)
  <2>2. /\ a.push = job[p].push /\ a.kind = job[p].kind /\ a.id = job[p].id /\ a.by = Cmd(p)
    BY DEF Answered
  <2> HIDE DEF a
  <2>3. a \notin answers /\ answers' = answers \cup {a}
    BY <2>1 DEF Counts, a
  <2>4. /\ a \in {x \in answers' : x.push} \ {x \in answers : x.push}
        /\ {x \in answers' : x.push} = {x \in answers : x.push} \cup {a}
    BY <2>1, <2>2, <2>3
  <2>5. a.id = Len(Last(origin)[a.kind]) + 1
    BY <2>1, <2>2 DEF Counts
  <2>6. Last(origin') = [Last(origin) EXCEPT ![a.kind] = Append(@, [id |-> a.id, by |-> a.by])]
    BY <2>1, <2>2 DEF Counts, Filing
  <2> QED
    BY <2>4, <2>5, <2>6 DEF Abstract!FileAndAnswer
<1> QED
  BY <1>1, <1>2, CountInit, CountNext, PTL DEF Spec, ImplementsCounter, Abstract!CounterSpec

===============================================================================
