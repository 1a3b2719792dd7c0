----------------------------- MODULE MailboxProofs -----------------------------
(***************************************************************************)
(* Theorems about the mailbox, for any personas, watchers, depths, faults  *)
(* and number of letters.                                                  *)
(***************************************************************************)
EXTENDS Mailbox, WellFoundedInduction, SequenceTheorems, TLAPS

-------------------------------------------------------------------------------
(***************************************************************************)
(* Histories                                                               *)
(***************************************************************************)

\* In b every letter is where it is in a, or further on its way.
NoLess(a, b) == \A l \in Letters : Rank(a[l]) <= Rank(b[l])

\* A history whose letters only go from open to done to archived.
Good(h) ==
  /\ h \in Seq(Commit) /\ h # <<>>
  /\ \A i, j \in 1..Len(h) : i <= j => NoLess(h[i].box, h[j].box)

LEMMA RankIsNat == \A place : Rank(place) \in Nat /\ Rank(place) \in Int
BY DEF Rank

LEMMA RankZero == \A place \in Places : Rank(place) = 0 <=> place = "none"
BY DEF Rank, Places

LEMMA NoLessTransitive == \A a, b, c : NoLess(a, b) /\ NoLess(b, c) => NoLess(a, c)
<1> SUFFICES ASSUME NEW a, NEW b, NEW c, NoLess(a, b), NoLess(b, c), NEW l \in Letters
             PROVE  Rank(a[l]) <= Rank(c[l])
  BY DEF NoLess
<1>1. Rank(a[l]) <= Rank(b[l]) /\ Rank(b[l]) <= Rank(c[l])
  BY DEF NoLess
<1>2. Rank(a[l]) \in Int /\ Rank(b[l]) \in Int /\ Rank(c[l]) \in Int
  BY RankIsNat
<1> QED
  BY <1>1, <1>2

LEMMA NoLessReflexive == \A a : NoLess(a, a)
BY RankIsNat DEF NoLess

LEMMA GoodTip ==
  ASSUME NEW h, Good(h)
  PROVE  /\ Last(h) \in Commit /\ Last(h) = h[Len(h)] /\ Len(h) \in Nat /\ Len(h) >= 1
         /\ Tip(h) \in Box /\ Tip(h) = h[Len(h)].box
<1>1. h \in Seq(Commit) /\ h # <<>>
  BY DEF Good
<1>2. Len(h) \in Nat /\ Len(h) >= 1
  BY <1>1
<1>3. Last(h) = h[Len(h)] /\ h[Len(h)] \in Commit
  BY <1>1, <1>2 DEF Last
<1> QED
  BY <1>2, <1>3 DEF Tip, Commit

\* A commit of letters that go on keeps a history good.
LEMMA GoodAppend ==
  ASSUME NEW h, Good(h), NEW c \in Commit, NoLess(Tip(h), c.box)
  PROVE  Good(Append(h, c)) /\ Last(Append(h, c)) = c /\ Tip(Append(h, c)) = c.box
<1> DEFINE g == Append(h, c)
<1>1. h \in Seq(Commit) /\ Len(h) \in Nat /\ Len(h) >= 1 /\ Tip(h) = h[Len(h)].box
  BY GoodTip DEF Good
<1>2. /\ g \in Seq(Commit) /\ g # <<>> /\ Len(g) = Len(h) + 1 /\ g[Len(h) + 1] = c
      /\ \A i \in 1..Len(h) : g[i] = h[i]
  BY <1>1
<1>3. Last(g) = c
  BY <1>1, <1>2 DEF Last
<1>4. Tip(g) = c.box
  BY <1>3 DEF Tip
<1> HIDE DEF g
<1>5. ASSUME NEW i \in 1..Len(g), NEW j \in 1..Len(g), i <= j
      PROVE  NoLess(g[i].box, g[j].box)
  <2>1. CASE j <= Len(h)
    BY <1>1, <1>2, <1>5, <2>1 DEF Good
  <2>2. CASE i = Len(h) + 1
    <3>1. j = i
      BY <1>1, <1>2, <1>5, <2>2
    <3> QED
      BY <3>1, NoLessReflexive
  <2>3. CASE i <= Len(h) /\ j = Len(h) + 1
    <3>1. i \in 1..Len(h) /\ Len(h) \in 1..Len(h) /\ i <= Len(h)
      BY <1>1, <2>3
    <3>2. NoLess(h[i].box, h[Len(h)].box)
      BY <3>1 DEF Good
    <3>3. g[i].box = h[i].box /\ g[j].box = c.box
      BY <1>2, <2>3, <3>1
    <3> QED
      BY <1>1, <3>2, <3>3, NoLessTransitive
  <2> QED
    BY <1>1, <1>2, <1>5, <2>1, <2>2, <2>3
<1> QED
  BY <1>2, <1>3, <1>4, <1>5 DEF Good, g

\* No letter is further at the end of a prefix.
LEMMA GoodPrefix ==
  ASSUME NEW g, NEW h, Good(g), Good(h), IsPrefix(g, h)
  PROVE  NoLess(Tip(g), Tip(h))
<1>1. /\ Len(g) \in Nat /\ Len(g) >= 1 /\ Tip(g) = g[Len(g)].box
      /\ Len(h) \in Nat /\ Len(h) >= 1 /\ Tip(h) = h[Len(h)].box
  BY GoodTip
<1>2. Len(g) <= Len(h) /\ SubSeq(g, 1, Len(g)) = SubSeq(h, 1, Len(g))
  BY DEF IsPrefix
<1>3. g[Len(g)] = h[Len(g)]
  BY <1>1, <1>2 DEF Good
<1>4. Len(g) \in 1..Len(h) /\ Len(h) \in 1..Len(h)
  BY <1>1, <1>2
<1>5. NoLess(h[Len(g)].box, h[Len(h)].box)
  BY <1>2, <1>4 DEF Good
<1> QED
  BY <1>1, <1>3, <1>5

-------------------------------------------------------------------------------
(***************************************************************************)
(* The invariant                                                           *)
(***************************************************************************)

\* The sidecars and the commands they run.
CommandTypes ==
  /\ pc \in [Personas -> Phases]
  /\ step \in [Personas -> InCommand \cup {"none"}]
  /\ hand \in [Personas -> 0..Len(mail)]
  /\ \A p \in Personas : hand[p] # 0 <=> step[p] \in InCommand
  /\ left \in [Personas -> BOOLEAN]

\* TypeOK without the number of faults, which every action leaves to Next.
Types ==
  /\ mail \in Seq(Letter) /\ Len(mail) <= MaxMail
  /\ tree \in [Personas -> Box]
  /\ index \in [Personas -> SUBSET Letters]
  /\ CommandTypes
  /\ waiting \subseteq DOMAIN mail
  /\ woken \in [Personas -> BOOLEAN]
  /\ briefed \subseteq Personas \X DOMAIN mail
  /\ spawned \subseteq DOMAIN mail
  /\ cut \subseteq DOMAIN mail
  /\ head \in [Personas -> Seq(Commit)]

\* What is published goes on only, was closed whole or with its runtime killed, and is
\* written.
OriginOK ==
  /\ Good(origin)
  /\ \A l \in Letters : Tip(origin)[l] = "done" => l \in cut
  /\ \A l \in Letters : l > Len(mail) => Tip(origin)[l] = "none"

\* A working tree is never behind its HEAD; a letter in it is closed and not archived only
\* between the two steps of a close or when its runtime was killed there; a command that adds,
\* pushes or dispatches has its letter in the tree, in HEAD, at origin; and outside of the
\* runtime the only command is one that was left.
CloneOK(p) ==
  /\ Good(head[p])
  /\ NoLess(Tip(head[p]), tree[p])
  /\ \A l \in Letters : Tip(head[p])[l] = "done" => l \in cut
  /\ \A l \in Letters : tree[p][l] = "done" => l \in cut \/ (step[p] = "move" /\ hand[p] = l)
  /\ \A l \in Letters : l > Len(mail) => tree[p][l] = "none"
  /\ step[p] = "add" => tree[p][hand[p]] # "none"
  /\ step[p] = "push" => Tip(head[p])[hand[p]] # "none"
  /\ step[p] = "dispatch" => Tip(origin)[hand[p]] # "none"
  /\ left[p] => step[p] # "none" /\ (step[p] = "move" => hand[p] \in cut)
  /\ pc[p] # "runtime" => step[p] = "none" \/ left[p]

Inv == Types /\ OriginOK /\ (\A p \in Personas : CloneOK(p)) /\ MessageBeforeWake

LEMMA LettersWritten ==
  ASSUME Types
  PROVE  Len(mail) \in Nat /\ DOMAIN mail = 1..Len(mail) /\ DOMAIN mail \subseteq Letters
BY MailboxAssumption DEF Types, Letters

\* A letter in the hand of a command is a letter.
LEMMA HandIsLetter ==
  ASSUME Types, NEW p \in Personas, step[p] \in InCommand
  PROVE  hand[p] \in Letters /\ hand[p] \in DOMAIN mail
<1>1. hand[p] \in 0..Len(mail) /\ hand[p] # 0 /\ Len(mail) \in Nat /\ Len(mail) <= MaxMail
  BY DEF Types, CommandTypes
<1> QED
  BY <1>1, LettersWritten DEF Types

\* A letter that is written stays so.
LEMMA StaysWritten ==
  ASSUME NEW a \in Box, NEW b, NoLess(a, b), NEW l \in Letters, a[l] # "none"
  PROVE  b[l] # "none"
<1>1. a[l] \in Places
  BY DEF Box
<1>2. Rank(a[l]) # 0 /\ Rank(a[l]) <= Rank(b[l])
  BY <1>1, RankZero DEF NoLess
<1>3. Rank(b[l]) # 0
  BY <1>2, RankIsNat
<1> QED
  BY <1>3 DEF Rank

LEMMA EmptyOK == Empty \in Box /\ \A l \in Letters : Empty[l] = "none"
BY DEF Empty, Box, Places

LEMMA InitInv == Init => Inv
<1> SUFFICES ASSUME Init PROVE Inv
  OBVIOUS
<1>1. origin \in Seq(Commit) /\ origin # <<>> /\ Len(origin) = 1 /\ origin[1].box = Empty
  BY EmptyOK DEF Init, Commit
<1>2. Good(origin)
  BY <1>1, NoLessReflexive DEF Good
<1>3. Tip(origin) = Empty
  BY <1>1, <1>2, GoodTip
<1>4. Types
  <2>1. mail = <<>> /\ Len(mail) = 0 /\ mail \in Seq(Letter)
    BY DEF Init
  <2>2. head \in [Personas -> Seq(Commit)]
    BY <1>1 DEF Init
  <2>3. tree \in [Personas -> Box] /\ index \in [Personas -> SUBSET Letters]
    BY EmptyOK DEF Init
  <2>4. CommandTypes /\ woken \in [Personas -> BOOLEAN]
    BY <2>1 DEF Init, Phases, InCommand, CommandTypes
  <2>5. Len(mail) <= MaxMail
    BY <2>1, MailboxAssumption
  <2>6. waiting = {} /\ briefed = {} /\ spawned = {} /\ cut = {}
    BY DEF Init
  <2> QED
    BY <2>1, <2>2, <2>3, <2>4, <2>5, <2>6 DEF Types
<1>5. OriginOK
  BY <1>2, <1>3, EmptyOK DEF OriginOK
<1>6. ASSUME NEW p \in Personas PROVE CloneOK(p)
  <2>1. head[p] = origin /\ tree[p] = Empty /\ step[p] = "none" /\ left[p] = FALSE
    BY <1>6 DEF Init
  <2> QED
    BY <1>2, <1>3, <2>1, EmptyOK, NoLessReflexive DEF CloneOK
<1>7. MessageBeforeWake
  BY DEF Init, MessageBeforeWake
<1> QED
  BY <1>4, <1>5, <1>6, <1>7 DEF Inv

-------------------------------------------------------------------------------
(***************************************************************************)
(* One clone's steps                                                       *)
(***************************************************************************)

\* The others' sidecars and commands are as they were, and so are their clones.
OthersRun(p) ==
  \A q \in Personas \ {p} :
    pc'[q] = pc[q] /\ step'[q] = step[q] /\ hand'[q] = hand[q] /\ left'[q] = left[q]

OthersKept(p) ==
  /\ OthersRun(p)
  /\ \A q \in Personas \ {p} : head'[q] = head[q] /\ tree'[q] = tree[q]

LEMMA DoneRun ==
  ASSUME Types, mail' = mail, NEW p \in Personas, Done(p)
  PROVE  /\ CommandTypes' /\ OthersRun(p)
         /\ pc'[p] = pc[p] /\ step'[p] = "none" /\ hand'[p] = 0 /\ left'[p] = FALSE
BY LettersWritten DEF Types, CommandTypes, Done, OthersRun, InCommand

LEMMA GotoRun ==
  ASSUME Types, mail' = mail, NEW p \in Personas, NEW next \in InCommand,
         step[p] \in InCommand, Goto(p, next), hand' = hand
  PROVE  /\ CommandTypes' /\ OthersRun(p)
         /\ pc'[p] = pc[p] /\ step'[p] = next /\ hand'[p] = hand[p] /\ left'[p] = left[p]
BY DEF Types, CommandTypes, Goto, OthersRun

LEMMA PhaseRun ==
  ASSUME Types, mail' = mail, NEW p \in Personas, NEW phase \in Phases,
         Phase(p, phase), UNCHANGED command
  PROVE  /\ CommandTypes' /\ OthersRun(p)
         /\ pc'[p] = phase /\ step'[p] = step[p] /\ hand'[p] = hand[p] /\ left'[p] = left[p]
BY DEF Types, CommandTypes, Phase, OthersRun, command

LEMMA BeginRun ==
  ASSUME Types, NEW p \in Personas, NEW next \in InCommand, NEW l \in 1..Len(mail'),
         Len(mail') \in Nat, Len(mail) <= Len(mail'), Begin(p, next, l)
  PROVE  /\ CommandTypes' /\ OthersRun(p) /\ pc[p] = "runtime" /\ step[p] = "none"
         /\ pc'[p] = "runtime" /\ step'[p] = next /\ hand'[p] = l /\ left'[p] = left[p]
<1>1. /\ step' = [step EXCEPT ![p] = next] /\ hand' = [hand EXCEPT ![p] = l]
      /\ pc' = pc /\ left' = left /\ pc[p] = "runtime" /\ step[p] = "none"
  BY DEF Begin, Goto
<1>2. 0..Len(mail) \subseteq 0..Len(mail') /\ l \in 0..Len(mail') /\ l # 0
  BY LettersWritten
<1>3. hand' \in [Personas -> 0..Len(mail')]
  BY <1>1, <1>2 DEF Types, CommandTypes
<1> QED
  BY <1>1, <1>2, <1>3 DEF Types, CommandTypes, OthersRun

LEMMA Framed ==
  ASSUME Types, \A q \in Personas : CloneOK(q), NEW p \in Personas, OthersKept(p),
         cut \subseteq cut', Len(mail) <= Len(mail'), Len(mail') \in Nat,
         Tip(origin) \in Box, NoLess(Tip(origin), Tip(origin')), CloneOK(p)'
  PROVE  \A q \in Personas : CloneOK(q)'
<1> SUFFICES ASSUME NEW q \in Personas, q # p PROVE CloneOK(q)'
  OBVIOUS
<1>1. /\ head'[q] = head[q] /\ tree'[q] = tree[q] /\ pc'[q] = pc[q] /\ step'[q] = step[q]
      /\ hand'[q] = hand[q] /\ left'[q] = left[q]
  BY DEF OthersKept, OthersRun
<1>2. CloneOK(q)
  OBVIOUS
<1>3. Tip(head'[q]) = Tip(head[q])
  BY <1>1
<1>4. \A l \in Letters : l \in Nat
  BY MailboxAssumption DEF Letters
<1>5. Len(mail) \in Nat
  BY LettersWritten
<1>6. step[q] = "dispatch" => Tip(origin')[hand[q]] # "none"
  BY <1>2, HandIsLetter, StaysWritten DEF CloneOK, InCommand
<1>7. \A l \in Letters : l > Len(mail') => l > Len(mail)
  BY <1>4, <1>5
<1> QED
  BY <1>1, <1>2, <1>3, <1>6, <1>7 DEF CloneOK

\* No event or spawn is for a letter that is not at origin, when origin only goes on.
LEMMA WakesKept ==
  ASSUME Types, MessageBeforeWake, Tip(origin) \in Box, NoLess(Tip(origin), Tip(origin')),
         waiting' \subseteq waiting, spawned' = spawned
  PROVE  MessageBeforeWake'
<1> SUFFICES ASSUME NEW l \in waiting' \cup spawned' PROVE Tip(origin')[l] # "none"
  BY DEF MessageBeforeWake
<1>1. l \in waiting \cup spawned /\ l \in Letters
  BY LettersWritten DEF Types
<1>2. Tip(origin)[l] # "none"
  BY <1>1 DEF MessageBeforeWake
<1> QED
  BY <1>1, <1>2, StaysWritten

\* A step of p that publishes nothing and writes no letter.
LEMMA LocalOnly ==
  ASSUME Inv, NEW p \in Personas, OthersKept(p), CloneOK(p)', Types',
         origin' = origin, mail' = mail, cut \subseteq cut', waiting' = waiting, spawned' = spawned
  PROVE  Inv'
<1>1. Good(origin) /\ Tip(origin) \in Box
  BY GoodTip DEF Inv, OriginOK
<1>2. NoLess(Tip(origin), Tip(origin'))
  BY NoLessReflexive
<1>3. OriginOK'
  BY DEF Inv, OriginOK
<1>4. Len(mail) \in Nat
  BY LettersWritten DEF Inv
<1>5. \A q \in Personas : CloneOK(q)'
  BY <1>1, <1>2, <1>4, Framed DEF Inv
<1>6. MessageBeforeWake'
  BY <1>1, <1>2, WakesKept DEF Inv
<1> QED
  BY <1>3, <1>5, <1>6 DEF Inv

LEMMA PushableIsPrefix ==
  ASSUME NEW h, NEW online, Pushable(h, online)
  PROVE  IsPrefix(origin, h)
BY DEF Pushable

-------------------------------------------------------------------------------
(***************************************************************************)
(* Each action keeps the invariant                                         *)
(***************************************************************************)

LEMMA ReindexTyped ==
  ASSUME Types, NEW p \in Personas
  PROVE  Listed(tree[p]) \in SUBSET Letters
BY DEF Listed

LEMMA CloseWriteKeeps ==
  ASSUME Inv, NEW p \in Personas, NEW l \in Letters, CloseWrite(p, l)
  PROVE  Inv'
<1> USE DEF Inv
<1>1. /\ tree[p][l] = "open" /\ Begin(p, "move", l)
      /\ tree' = [tree EXCEPT ![p] = [tree[p] EXCEPT ![l] = "done"]]
      /\ UNCHANGED <<origin, head, index, mail, briefed, spawned, cut, waiting, woken>>
  BY DEF CloseWrite, letters, wakes, Types
<1>2. tree[p] \in Box /\ CloneOK(p) /\ l \in Nat /\ l >= 1 /\ l <= MaxMail
  BY MailboxAssumption DEF Types, Letters
<1>3. Len(mail) \in Nat /\ l \in 1..Len(mail)
  <2>1. Len(mail) \in Nat
    BY LettersWritten
  <2> QED
    BY <1>1, <1>2, <2>1 DEF CloneOK
<1>4. /\ CommandTypes' /\ OthersRun(p) /\ step[p] = "none"
      /\ pc'[p] = "runtime" /\ step'[p] = "move" /\ hand'[p] = l /\ left'[p] = left[p]
  BY <1>1, <1>3, BeginRun DEF InCommand
<1> DEFINE box == [tree[p] EXCEPT ![l] = "done"]
<1>5. box \in Box /\ box[l] = "done" /\ \A m \in Letters : m # l => box[m] = tree[p][m]
  BY <1>2 DEF Box, Places
<1>6. tree'[p] = box /\ head'[p] = head[p]
  BY <1>1 DEF Types
<1> HIDE DEF box
<1>7. Types'
  <2>1. tree' \in [Personas -> Box]
    BY <1>1, <1>5 DEF Types, box
  <2> QED
    BY <1>1, <1>4, <2>1 DEF Types
<1>8. NoLess(Tip(head[p]), box)
  <2>1. ASSUME NEW m \in Letters PROVE Rank(Tip(head[p])[m]) <= Rank(box[m])
    <3>1. Rank(Tip(head[p])[m]) <= Rank(tree[p][m])
      BY <1>2 DEF CloneOK, NoLess
    <3>2. Rank(tree[p][m]) <= Rank(box[m])
      BY <1>1, <1>5, RankIsNat DEF Rank
    <3> QED
      BY <3>1, <3>2, RankIsNat
  <2> QED
    BY <2>1 DEF NoLess
<1>9. ~left[p]
  BY <1>2, <1>4 DEF CloneOK
<1>10. CloneOK(p)'
  <2>1. \A m \in Letters : box[m] = "done" => m \in cut \/ m = l
    BY <1>2, <1>4, <1>5 DEF CloneOK
  <2>2. \A m \in Letters : m > Len(mail) => box[m] = "none"
    BY <1>2, <1>3, <1>5 DEF CloneOK
  <2> QED
    BY <1>1, <1>2, <1>4, <1>6, <1>8, <1>9, <2>1, <2>2 DEF CloneOK
<1>11. OthersKept(p)
  BY <1>1, <1>4 DEF OthersKept, Types
<1> QED
  BY <1>1, <1>7, <1>10, <1>11, LocalOnly

LEMMA CloseMoveKeeps ==
  ASSUME Inv, NEW p \in Personas, CloseMove(p)
  PROVE  Inv'
<1> USE DEF Inv
<1>1. /\ step[p] = "move" /\ Goto(p, "file") /\ hand' = hand
      /\ tree' = [tree EXCEPT ![p] = [tree[p] EXCEPT ![hand[p]] = "archived"]]
      /\ UNCHANGED <<origin, head, index, mail, briefed, spawned, cut, waiting, woken>>
  BY DEF CloseMove, letters, wakes, Types
<1>2. tree[p] \in Box /\ CloneOK(p) /\ hand[p] \in Letters /\ hand[p] \in DOMAIN mail
  BY <1>1, HandIsLetter DEF Types, InCommand
<1>3. Len(mail) \in Nat /\ hand[p] <= Len(mail)
  BY <1>2, LettersWritten
<1>4. /\ CommandTypes' /\ OthersRun(p)
      /\ pc'[p] = pc[p] /\ step'[p] = "file" /\ hand'[p] = hand[p] /\ left'[p] = left[p]
  BY <1>1, GotoRun DEF InCommand
<1> DEFINE box == [tree[p] EXCEPT ![hand[p]] = "archived"]
<1>5. /\ box \in Box /\ box[hand[p]] = "archived"
      /\ \A m \in Letters : m # hand[p] => box[m] = tree[p][m]
  BY <1>2 DEF Box, Places
<1>6. tree'[p] = box /\ head'[p] = head[p]
  BY <1>1 DEF Types
<1> HIDE DEF box
<1>7. Types'
  <2>1. tree' \in [Personas -> Box]
    BY <1>1, <1>5 DEF Types, box
  <2> QED
    BY <1>1, <1>4, <2>1 DEF Types
<1>8. NoLess(Tip(head[p]), box)
  <2>1. ASSUME NEW m \in Letters PROVE Rank(Tip(head[p])[m]) <= Rank(box[m])
    <3>1. Rank(Tip(head[p])[m]) <= Rank(tree[p][m])
      BY <1>2 DEF CloneOK, NoLess
    <3>2. Rank(tree[p][m]) <= Rank(box[m])
      BY <1>5, RankIsNat DEF Rank
    <3> QED
      BY <3>1, <3>2, RankIsNat
  <2> QED
    BY <2>1 DEF NoLess
<1>9. CloneOK(p)'
  <2>1. \A m \in Letters : box[m] = "done" => m \in cut
    BY <1>2, <1>5 DEF CloneOK
  <2>2. ASSUME NEW m \in Letters, m > Len(mail) PROVE box[m] = "none"
    <3>1. m # hand[p]
      BY <1>2, <1>3, <2>2 DEF Letters
    <3> QED
      BY <1>2, <1>5, <2>2, <3>1 DEF CloneOK
  <2> QED
    BY <1>1, <1>2, <1>4, <1>6, <1>8, <2>1, <2>2 DEF CloneOK
<1>10. OthersKept(p)
  BY <1>1, <1>4 DEF OthersKept, Types
<1> QED
  BY <1>1, <1>7, <1>9, <1>10, LocalOnly

\* A command or the cycle makes a commit: letters that go on, none of them freshly half closed.
LEMMA CommitGood ==
  ASSUME Inv, NEW p \in Personas, NEW box \in Box, NEW listed \in SUBSET Letters,
         NoLess(Tip(head[p]), box), MakeCommit(p, box, listed)
  PROVE  /\ Good(head'[p]) /\ Tip(head'[p]) = box
         /\ head' \in [Personas -> Seq(Commit)] /\ \A q \in Personas \ {p} : head'[q] = head[q]
<1> DEFINE c == [by |-> p, box |-> box, index |-> listed]
<1>1. c \in Commit /\ c.box = box
  BY DEF Commit
<1>2. /\ head'[p] = Append(head[p], c) /\ \A q \in Personas \ {p} : head'[q] = head[q]
  BY DEF MakeCommit, Inv, Types
<1>3. Good(head[p])
  BY DEF Inv, CloneOK
<1>4. Append(head[p], c) \in Seq(Commit)
  BY <1>1, <1>3 DEF Good
<1>5. head' \in [Personas -> Seq(Commit)]
  BY <1>4 DEF MakeCommit, Inv, Types
<1> HIDE DEF c
<1> QED
  BY <1>1, <1>2, <1>3, <1>5, GoodAppend

LEMMA HeadIndexTyped ==
  ASSUME Inv, NEW p \in Personas
  PROVE  /\ Tip(head[p]) \in Box /\ Last(head[p]).index \in SUBSET Letters
         /\ Tip(origin) \in Box /\ Last(origin).index \in SUBSET Letters
BY GoodTip DEF Inv, CloneOK, OriginOK, Commit

LEMMA CloseCommitKeeps ==
  ASSUME Inv, NEW p \in Personas, CloseCommit(p)
  PROVE  Inv'
<1> USE DEF Inv
<1> DEFINE box == [l \in Letters |-> IF tree[p][l] = "archived" THEN "archived" ELSE Tip(head[p])[l]]
<1>1. /\ step[p] = "file" /\ Done(p)
      /\ (box = Tip(head[p]) /\ UNCHANGED head) \/ MakeCommit(p, box, Last(head[p]).index)
      /\ UNCHANGED <<origin, tree, index, mail, briefed, spawned, cut, waiting, woken>>
  BY DEF CloseCommit, letters, wakes
<1>2. CloneOK(p) /\ Tip(head[p]) \in Box /\ Last(head[p]).index \in SUBSET Letters
  BY HeadIndexTyped
<1>3. box \in Box
  BY <1>2 DEF Box, Places
<1>4. \A l \in Letters : box[l] = IF tree[p][l] = "archived" THEN "archived" ELSE Tip(head[p])[l]
  OBVIOUS
<1> HIDE DEF box
<1>5. NoLess(Tip(head[p]), box)
  <2>1. ASSUME NEW m \in Letters PROVE Rank(Tip(head[p])[m]) <= Rank(box[m])
    BY <1>4, RankIsNat DEF Rank
  <2> QED
    BY <2>1 DEF NoLess
<1>6. NoLess(box, tree[p])
  <2>1. ASSUME NEW m \in Letters PROVE Rank(box[m]) <= Rank(tree[p][m])
    <3>1. Rank(Tip(head[p])[m]) <= Rank(tree[p][m])
      BY <1>2 DEF CloneOK, NoLess
    <3> QED
      BY <1>4, <3>1, RankIsNat
  <2> QED
    BY <2>1 DEF NoLess
<1>7. /\ Good(head'[p]) /\ Tip(head'[p]) = box /\ head' \in [Personas -> Seq(Commit)]
      /\ \A q \in Personas \ {p} : head'[q] = head[q]
  <2>1. CASE box = Tip(head[p]) /\ UNCHANGED head
    BY <1>2, <2>1 DEF CloneOK, Types
  <2>2. CASE MakeCommit(p, box, Last(head[p]).index)
    BY <1>2, <1>3, <1>5, <2>2, CommitGood
  <2> QED
    BY <1>1, <2>1, <2>2
<1>8. /\ CommandTypes' /\ OthersRun(p)
      /\ pc'[p] = pc[p] /\ step'[p] = "none" /\ hand'[p] = 0 /\ left'[p] = FALSE
  BY <1>1, DoneRun
<1>9. Types' /\ tree'[p] = tree[p]
  BY <1>1, <1>7, <1>8 DEF Types
<1>10. CloneOK(p)'
  <2>1. \A l \in Letters : box[l] = "done" => l \in cut
    BY <1>2, <1>4 DEF CloneOK
  <2>2. \A l \in Letters : tree[p][l] = "done" => l \in cut
    BY <1>1, <1>2 DEF CloneOK
  <2> QED
    BY <1>1, <1>2, <1>6, <1>7, <1>8, <1>9, <2>1, <2>2 DEF CloneOK
<1>11. OthersKept(p)
  BY <1>1, <1>7, <1>8 DEF OthersKept, Types
<1> QED
  BY <1>1, <1>9, <1>10, <1>11, LocalOnly

LEMMA AddLetterKeeps ==
  ASSUME Inv, NEW p \in Personas, NEW asked, NEW max, AddLetter(p, asked, max)
  PROVE  Inv'
<1> USE DEF Inv
<1> DEFINE box == [Tip(head[p]) EXCEPT ![hand[p]] = "open"]
<1>1. /\ step[p] = "add"
      /\ \/ /\ Tip(head[p])[hand[p]] = "none"
            /\ MakeCommit(p, box, Last(head[p]).index)
            /\ (Goto(p, "push") /\ hand' = hand) \/ Done(p)
         \/ Done(p) /\ UNCHANGED head
      /\ UNCHANGED <<origin, tree, index, mail, briefed, spawned, cut, waiting, woken>>
  BY DEF AddLetter, letters, wakes
<1>2. /\ CloneOK(p) /\ Tip(head[p]) \in Box /\ Last(head[p]).index \in SUBSET Letters
      /\ hand[p] \in Letters
  BY <1>1, HeadIndexTyped, HandIsLetter DEF InCommand
<1>3. box \in Box
  BY <1>2 DEF Box, Places
<1>4. box[hand[p]] = "open" /\ \A l \in Letters : l # hand[p] => box[l] = Tip(head[p])[l]
  BY <1>2 DEF Box
<1> HIDE DEF box
<1>5. tree[p][hand[p]] # "none"
  BY <1>1, <1>2 DEF CloneOK
<1>6. /\ CommandTypes' /\ OthersRun(p) /\ pc'[p] = pc[p]
      /\ \/ /\ step'[p] = "push" /\ hand'[p] = hand[p] /\ left'[p] = left[p]
            /\ MakeCommit(p, box, Last(head[p]).index)
         \/ step'[p] = "none" /\ hand'[p] = 0 /\ left'[p] = FALSE
  <2>1. CASE Done(p)
    BY <1>1, <2>1, DoneRun
  <2>2. CASE Goto(p, "push") /\ hand' = hand /\ MakeCommit(p, box, Last(head[p]).index)
    BY <1>1, <2>2, GotoRun DEF InCommand
  <2> QED
    BY <1>1, <2>1, <2>2
<1>7. /\ Good(head'[p]) /\ head' \in [Personas -> Seq(Commit)] /\ NoLess(Tip(head'[p]), tree[p])
      /\ \A l \in Letters : Tip(head'[p])[l] = "done" => l \in cut
      /\ MakeCommit(p, box, Last(head[p]).index) => Tip(head'[p]) = box
      /\ \A q \in Personas \ {p} : head'[q] = head[q]
  <2>1. CASE UNCHANGED head /\ ~MakeCommit(p, box, Last(head[p]).index)
    BY <1>2, <2>1 DEF CloneOK, Types
  <2>2. CASE Tip(head[p])[hand[p]] = "none" /\ MakeCommit(p, box, Last(head[p]).index)
    <3>1. NoLess(Tip(head[p]), box) /\ NoLess(box, tree[p])
      <4>1. ASSUME NEW m \in Letters
            PROVE  Rank(Tip(head[p])[m]) <= Rank(box[m]) /\ Rank(box[m]) <= Rank(tree[p][m])
        <5>1. CASE m = hand[p]
          BY <1>4, <1>5, <2>2, <5>1 DEF Rank
        <5>2. CASE m # hand[p]
          BY <1>2, <1>4, <5>2, RankIsNat DEF CloneOK, NoLess
        <5> QED
          BY <5>1, <5>2
      <4> QED
        BY <4>1 DEF NoLess
    <3>2. /\ Good(head'[p]) /\ Tip(head'[p]) = box /\ head' \in [Personas -> Seq(Commit)]
          /\ \A q \in Personas \ {p} : head'[q] = head[q]
      BY <1>2, <1>3, <2>2, <3>1, CommitGood
    <3>3. \A l \in Letters : box[l] = "done" => l \in cut
      BY <1>2, <1>4 DEF CloneOK
    <3> QED
      BY <3>1, <3>2, <3>3
  <2>3. CASE UNCHANGED head /\ MakeCommit(p, box, Last(head[p]).index)
    <3>1. head'[p] = Append(head[p], [by |-> p, box |-> box, index |-> Last(head[p]).index])
      BY <2>3 DEF MakeCommit, Types
    <3>2. Len(head'[p]) = Len(head[p]) + 1
      BY <3>1, <1>2 DEF CloneOK, Good
    <3>3. Len(head[p]) \in Nat
      BY <1>2 DEF CloneOK, Good
    <3> QED
      BY <2>3, <3>2, <3>3
  <2> QED
    BY <1>1, <2>1, <2>2, <2>3
<1>8. Types' /\ tree'[p] = tree[p]
  BY <1>1, <1>6, <1>7 DEF Types
<1>9. \A l \in Letters : tree[p][l] = "done" => l \in cut
  BY <1>1, <1>2 DEF CloneOK
<1>10. CloneOK(p)'
  BY <1>1, <1>2, <1>4, <1>6, <1>7, <1>8, <1>9 DEF CloneOK
<1>11. OthersKept(p)
  BY <1>1, <1>6, <1>7 DEF OthersKept, Types
<1> QED
  BY <1>1, <1>8, <1>10, <1>11, LocalOnly

\* A pull brings HEAD and the untouched letters to origin's, or changes nothing.
LEMMA PullOK ==
  ASSUME Inv, NEW p \in Personas, NEW online, Pull(p, online)
  PROVE  /\ Good(head'[p]) /\ NoLess(Tip(head'[p]), tree'[p])
         /\ NoLess(Tip(head[p]), Tip(head'[p])) /\ NoLess(tree[p], tree'[p])
         /\ \A l \in Letters : Tip(head'[p])[l] \in {Tip(head[p])[l], Tip(origin)[l]}
         /\ \A l \in Letters : tree'[p][l] \in {tree[p][l], Tip(origin)[l]}
         /\ head' \in [Personas -> Seq(Commit)] /\ tree' \in [Personas -> Box]
         /\ index' \in [Personas -> SUBSET Letters]
         /\ \A q \in Personas \ {p} : head'[q] = head[q] /\ tree'[q] = tree[q]
<1> USE DEF Inv
<1>1. CASE UNCHANGED <<head, tree, index>>
  BY <1>1, NoLessReflexive DEF CloneOK, Types
<1>2. CASE ~ UNCHANGED <<head, tree, index>>
  <2> DEFINE box == [l \in Letters |-> IF l \in DirtyLetters(p) THEN tree[p][l] ELSE Tip(origin)[l]]
             listed == IF DirtyIndex(p) THEN index[p] ELSE Last(origin).index
  <2>1. /\ CanPull(p) /\ head' = [head EXCEPT ![p] = origin]
        /\ tree' = [tree EXCEPT ![p] = box] /\ index' = [index EXCEPT ![p] = listed]
    BY <1>2 DEF Pull
  <2>2. /\ Good(origin) /\ Tip(origin) \in Box /\ listed \in SUBSET Letters
        /\ origin \in Seq(Commit)
        /\ tree[p] \in Box /\ CloneOK(p)
    BY HeadIndexTyped DEF OriginOK, Types, Good
  <2>3. box \in Box
    BY <2>2 DEF Box
  <2>4. \A l \in Letters : box[l] = IF l \in DirtyLetters(p) THEN tree[p][l] ELSE Tip(origin)[l]
    OBVIOUS
  <2> HIDE DEF box, listed
  <2>5. /\ head'[p] = origin /\ tree'[p] = box /\ head' \in [Personas -> Seq(Commit)]
        /\ \A q \in Personas \ {p} : head'[q] = head[q] /\ tree'[q] = tree[q]
    BY <2>1, <2>2 DEF Types
  <2>6. tree' \in [Personas -> Box] /\ index' \in [Personas -> SUBSET Letters]
    BY <2>1, <2>2, <2>3 DEF Types
  <2>7. ASSUME NEW l \in Letters PROVE Rank(Tip(origin)[l]) <= Rank(box[l])
    <3>1. CASE l \in DirtyLetters(p)
      <4>1. Tip(origin)[l] = Tip(head[p])[l]
        BY <2>1, <3>1 DEF CanPull, IncomingLetters
      <4>2. Rank(Tip(head[p])[l]) <= Rank(tree[p][l])
        BY <2>2 DEF CloneOK, NoLess
      <4> QED
        BY <2>4, <3>1, <4>1, <4>2
    <3>2. CASE l \notin DirtyLetters(p)
      BY <2>4, <3>2, RankIsNat
    <3> QED
      BY <3>1, <3>2
  <2>8. NoLess(Tip(origin), box)
    BY <2>7 DEF NoLess
  <2>9. NoLess(Tip(head[p]), Tip(origin))
    BY <2>1, <2>2, GoodPrefix DEF CanPull, CloneOK
  <2>10. ASSUME NEW l \in Letters PROVE Rank(tree[p][l]) <= Rank(box[l])
    <3>1. CASE l \in DirtyLetters(p)
      BY <2>4, <3>1, RankIsNat
    <3>2. CASE l \notin DirtyLetters(p)
      <4>1. tree[p][l] = Tip(head[p])[l]
        BY <3>2 DEF DirtyLetters
      <4> QED
        BY <2>4, <2>9, <3>2, <4>1 DEF NoLess
    <3> QED
      BY <3>1, <3>2
  <2>11. NoLess(tree[p], box)
    BY <2>10 DEF NoLess
  <2> QED
    BY <2>2, <2>4, <2>5, <2>6, <2>8, <2>9, <2>11
<1> QED
  BY <1>1, <1>2

LEMMA OpenCycleKeeps ==
  ASSUME Inv, NEW p \in Personas, NEW online, OpenCycle(p, online)
  PROVE  Inv'
<1> USE DEF Inv
<1> DEFINE found == Addressed(p, tree'[p])
<1>0. found \in SUBSET Letters /\ \A l \in found : tree'[p][l] = "open"
  BY DEF Addressed
<1>1. /\ pc[p] = "idle" /\ Pull(p, online)
      /\ pc' = pc \/ Phase(p, "runtime")
      /\ briefed' = briefed \/ briefed' = briefed \cup ({p} \X found)
      /\ woken' = [woken EXCEPT ![p] = FALSE]
      /\ UNCHANGED <<mail, origin, command, waiting, spawned, cut>>
  BY DEF OpenCycle
<1> HIDE DEF found
<1>2. /\ Good(head'[p]) /\ NoLess(Tip(head'[p]), tree'[p])
      /\ NoLess(Tip(head[p]), Tip(head'[p])) /\ NoLess(tree[p], tree'[p])
      /\ \A l \in Letters : Tip(head'[p])[l] \in {Tip(head[p])[l], Tip(origin)[l]}
      /\ \A l \in Letters : tree'[p][l] \in {tree[p][l], Tip(origin)[l]}
      /\ head' \in [Personas -> Seq(Commit)] /\ tree' \in [Personas -> Box]
      /\ index' \in [Personas -> SUBSET Letters]
      /\ \A q \in Personas \ {p} : head'[q] = head[q] /\ tree'[q] = tree[q]
  BY <1>1, PullOK
<1>3. CloneOK(p) /\ OriginOK /\ tree[p] \in Box /\ Tip(head[p]) \in Box
  BY HeadIndexTyped DEF Types
<1>4. \A l \in Letters : l > Len(mail) => tree'[p][l] = "none"
  BY <1>2, <1>3 DEF CloneOK, OriginOK
<1>5. /\ CommandTypes' /\ OthersRun(p) /\ pc'[p] \in {"idle", "runtime"}
      /\ step'[p] = step[p] /\ hand'[p] = hand[p] /\ left'[p] = left[p]
  <2>1. CASE pc' = pc
    BY <1>1, <2>1 DEF Types, CommandTypes, OthersRun, command
  <2>2. CASE Phase(p, "runtime")
    BY <1>1, <2>2, PhaseRun DEF Phases
  <2> QED
    BY <1>1, <2>1, <2>2
<1>6. Types'
  <2>1. briefed' \subseteq Personas \X DOMAIN mail
    <3>1. ASSUME NEW l \in found PROVE l \in DOMAIN mail
      <4>1. l \in Letters /\ ~(l > Len(mail))
        BY <1>0, <1>4
      <4> QED
        BY <4>1, LettersWritten DEF Letters
    <3> QED
      BY <1>1, <3>1 DEF Types
  <2>2. woken' \in [Personas -> BOOLEAN]
    BY <1>1 DEF Types
  <2> QED
    BY <1>1, <1>2, <1>5, <2>1, <2>2 DEF Types
<1>7. CloneOK(p)'
  <2>1. \A l \in Letters : Tip(head'[p])[l] = "done" => l \in cut
    BY <1>2, <1>3 DEF CloneOK, OriginOK
  <2>2. \A l \in Letters :
          tree'[p][l] = "done" => l \in cut \/ (step[p] = "move" /\ hand[p] = l)
    BY <1>2, <1>3 DEF CloneOK, OriginOK
  <2>3. step[p] = "add" => tree'[p][hand[p]] # "none"
    BY <1>2, <1>3, HandIsLetter, StaysWritten DEF CloneOK, InCommand
  <2>4. step[p] = "push" => Tip(head'[p])[hand[p]] # "none"
    BY <1>2, <1>3, HandIsLetter, StaysWritten DEF CloneOK, InCommand
  <2> QED
    BY <1>1, <1>2, <1>3, <1>4, <1>5, <2>1, <2>2, <2>3, <2>4 DEF CloneOK
<1>8. OthersKept(p)
  BY <1>2, <1>5 DEF OthersKept
<1> QED
  BY <1>1, <1>6, <1>7, <1>8, LocalOnly

LEMMA EndIndexKeeps ==
  ASSUME Inv, NEW p \in Personas, EndIndex(p)
  PROVE  Inv'
<1> USE DEF Inv
<1>1. /\ step[p] = "none" \/ left[p]
      /\ index' = [index EXCEPT ![p] = Listed(tree[p])] /\ Phase(p, "land")
      /\ UNCHANGED <<origin, head, tree, command, mail, briefed, spawned, cut, waiting, woken>>
  BY DEF EndIndex, Reindex, letters, wakes
<1>2. Listed(tree[p]) \in SUBSET Letters /\ CloneOK(p)
  BY ReindexTyped
<1>3. /\ CommandTypes' /\ OthersRun(p)
      /\ pc'[p] = "land" /\ step'[p] = step[p] /\ hand'[p] = hand[p] /\ left'[p] = left[p]
  BY <1>1, PhaseRun DEF Phases
<1>4. Types'
  <2>1. index' \in [Personas -> SUBSET Letters]
    BY <1>1, <1>2 DEF Types
  <2> QED
    BY <1>1, <1>3, <2>1 DEF Types
<1>5. CloneOK(p)'
  BY <1>1, <1>2, <1>3 DEF CloneOK
<1>6. OthersKept(p)
  BY <1>1, <1>3 DEF OthersKept
<1> QED
  BY <1>1, <1>4, <1>5, <1>6, LocalOnly

\* The runtime, or the sidecar, is killed.
LEMMA CutKeeps ==
  ASSUME Inv, NEW p \in Personas, Timeout(p) \/ Crash(p)
  PROVE  Inv'
<1> USE DEF Inv
<1>1. /\ \/ pc' = [pc EXCEPT ![p] = "land"] /\ index' = [index EXCEPT ![p] = Listed(tree[p])]
         \/ pc' = [pc EXCEPT ![p] = "idle"] /\ index' = index
      /\ cut' = IF step[p] = "move" THEN cut \cup {hand[p]} ELSE cut
      /\ \/ /\ step' = [step EXCEPT ![p] = "none"] /\ hand' = [hand EXCEPT ![p] = 0]
            /\ left' = [left EXCEPT ![p] = FALSE]
         \/ /\ step[p] # "none" /\ step' = step /\ hand' = hand
            /\ left' = [left EXCEPT ![p] = TRUE]
      /\ UNCHANGED <<mail, origin, head, tree, waiting, woken, briefed, spawned>>
  BY DEF Timeout, Crash, Reindex, Phase, CutShort, wakes
<1>2. Listed(tree[p]) \in SUBSET Letters /\ CloneOK(p)
  BY ReindexTyped
<1>3. /\ CommandTypes' /\ OthersRun(p) /\ pc'[p] \in {"land", "idle"}
      /\ \/ step'[p] = "none" /\ hand'[p] = 0 /\ left'[p] = FALSE
         \/ step[p] # "none" /\ step'[p] = step[p] /\ hand'[p] = hand[p] /\ left'[p] = TRUE
  <2>1. pc' \in [Personas -> Phases] /\ left' \in [Personas -> BOOLEAN]
    BY <1>1 DEF Types, CommandTypes, Phases
  <2>2. hand' \in [Personas -> 0..Len(mail)]
    BY <1>1, LettersWritten DEF Types, CommandTypes
  <2>3. /\ step' \in [Personas -> InCommand \cup {"none"}]
        /\ \A q \in Personas : hand'[q] # 0 <=> step'[q] \in InCommand
    BY <1>1 DEF Types, CommandTypes, InCommand
  <2>4. OthersRun(p)
    BY <1>1 DEF OthersRun, Types, CommandTypes
  <2> QED
    BY <1>1, <2>1, <2>2, <2>3, <2>4 DEF Types, CommandTypes
<1>4. Types'
  <2>1. index' \in [Personas -> SUBSET Letters]
    BY <1>1, <1>2 DEF Types
  <2>2. cut' \subseteq DOMAIN mail
    BY <1>1, HandIsLetter DEF Types, InCommand
  <2> QED
    BY <1>1, <1>3, <2>1, <2>2 DEF Types
<1>5. CloneOK(p)'
  BY <1>1, <1>2, <1>3 DEF CloneOK
<1>6. OthersKept(p)
  BY <1>1, <1>3 DEF OthersKept
<1>7. cut \subseteq cut'
  BY <1>1
<1> QED
  BY <1>1, <1>4, <1>5, <1>6, <1>7, LocalOnly

LEMMA CollideKeeps ==
  ASSUME Inv, NEW p \in Personas, Collide(p)
  PROVE  Inv'
<1> USE DEF Inv
<1>1. /\ left[p]
      /\ Done(p) \/ (Phase(p, "idle") /\ UNCHANGED command)
      /\ UNCHANGED <<origin, head, tree, index, mail, briefed, spawned, cut, waiting, woken>>
  BY DEF Collide, letters, wakes
<1>2. /\ CommandTypes' /\ OthersRun(p)
      /\ \/ step'[p] = "none" /\ hand'[p] = 0 /\ left'[p] = FALSE /\ pc'[p] = pc[p]
         \/ step'[p] = step[p] /\ hand'[p] = hand[p] /\ left'[p] = left[p] /\ pc'[p] = "idle"
  <2>1. CASE Done(p)
    BY <1>1, <2>1, DoneRun
  <2>2. CASE Phase(p, "idle") /\ UNCHANGED command
    BY <1>1, <2>2, PhaseRun DEF Phases
  <2> QED
    BY <1>1, <2>1, <2>2
<1>3. Types' /\ CloneOK(p)
  BY <1>1, <1>2 DEF Types
<1>4. CloneOK(p)'
  BY <1>1, <1>2, <1>3 DEF CloneOK
<1>5. OthersKept(p)
  BY <1>1, <1>2 DEF OthersKept
<1> QED
  BY <1>1, <1>3, <1>4, <1>5, LocalOnly

\* A step of p that leaves its clone and the letters alone, and may publish its HEAD.
LEMMA PublishKeeps ==
  ASSUME Inv, NEW p \in Personas, OthersKept(p), Types', CloneOK(p)', Good(head'[p]),
         \A l \in Letters : Tip(head'[p])[l] = "done" => l \in cut,
         \A l \in Letters : l > Len(mail) => Tip(head'[p])[l] = "none",
         origin' = origin \/ (IsPrefix(origin, head'[p]) /\ origin' = head'[p]),
         mail' = mail, cut' = cut, waiting' = waiting, spawned' = spawned
  PROVE  Inv' /\ NoLess(Tip(origin), Tip(origin'))
<1> USE DEF Inv
<1>1. Good(origin) /\ Tip(origin) \in Box
  BY GoodTip DEF OriginOK
<1>2. NoLess(Tip(origin), Tip(origin'))
  BY <1>1, NoLessReflexive, GoodPrefix
<1>3. OriginOK'
  BY DEF OriginOK
<1>4. Len(mail) \in Nat
  BY LettersWritten
<1>5. \A q \in Personas : CloneOK(q)'
  BY <1>1, <1>2, <1>4, Framed
<1>6. MessageBeforeWake'
  BY <1>1, <1>2, WakesKept
<1> QED
  BY <1>2, <1>3, <1>5, <1>6

\* A letter that is not written is in no HEAD.
LEMMA HeadFresh ==
  ASSUME Inv, NEW p \in Personas
  PROVE  \A l \in Letters : l > Len(mail) => Tip(head[p])[l] = "none"
<1> SUFFICES ASSUME NEW l \in Letters, l > Len(mail) PROVE Tip(head[p])[l] = "none"
  OBVIOUS
<1>1. CloneOK(p) /\ Tip(head[p]) \in Box
  BY HeadIndexTyped DEF Inv
<1>2. Rank(Tip(head[p])[l]) <= 0
  BY <1>1 DEF CloneOK, NoLess, Rank
<1> QED
  BY <1>1, <1>2 DEF Rank

LEMMA NotifyPushKeeps ==
  ASSUME Inv, NEW p \in Personas, NEW online, NotifyPush(p, online)
  PROVE  Inv' /\ NoLess(Tip(origin), Tip(origin'))
<1> USE DEF Inv
<1>1. /\ step[p] = "push"
      /\ \/ /\ IsPrefix(origin, head[p]) /\ origin' = head[p]
            /\ Goto(p, "dispatch") /\ hand' = hand
         \/ origin' = origin /\ Done(p)
      /\ UNCHANGED <<head, tree, index, mail, briefed, spawned, cut, waiting, woken>>
  BY PushableIsPrefix DEF NotifyPush, letters, wakes
<1>2. /\ CommandTypes' /\ OthersRun(p) /\ pc'[p] = pc[p]
      /\ \/ /\ step'[p] = "dispatch" /\ hand'[p] = hand[p] /\ left'[p] = left[p]
            /\ origin' = head[p]
         \/ step'[p] = "none" /\ hand'[p] = 0 /\ left'[p] = FALSE
  <2>1. CASE Done(p)
    BY <1>1, <2>1, DoneRun
  <2>2. CASE Goto(p, "dispatch") /\ hand' = hand /\ origin' = head[p]
    BY <1>1, <2>2, GotoRun DEF InCommand
  <2> QED
    BY <1>1, <2>1, <2>2
<1>3. Types' /\ CloneOK(p) /\ head'[p] = head[p]
  BY <1>1, <1>2 DEF Types
<1>4. CloneOK(p)'
  BY <1>1, <1>2, <1>3 DEF CloneOK
<1>5. OthersKept(p)
  BY <1>1, <1>2 DEF OthersKept
<1>6. Good(head'[p]) /\ \A l \in Letters : Tip(head'[p])[l] = "done" => l \in cut
  BY <1>3 DEF CloneOK
<1> QED
  BY <1>1, <1>3, <1>4, <1>5, <1>6, HeadFresh, PublishKeeps

LEMMA LandKeeps ==
  ASSUME Inv, NEW p \in Personas, NEW online, Land(p, online)
  PROVE  Inv' /\ NoLess(Tip(origin), Tip(origin'))
<1> USE DEF Inv
<1>1. /\ pc[p] = "land" /\ Phase(p, "idle")
      /\ UNCHANGED head \/ MakeCommit(p, tree[p], index[p])
      /\ origin' = origin \/ (IsPrefix(origin, head'[p]) /\ origin' = head'[p])
      /\ UNCHANGED <<tree, index, command, mail, briefed, spawned, cut, waiting, woken>>
  BY PushableIsPrefix DEF Land, letters, wakes
<1>2. /\ CloneOK(p) /\ tree[p] \in Box /\ index[p] \in SUBSET Letters
      /\ Tip(head[p]) \in Box /\ Tip(origin) \in Box
  BY HeadIndexTyped DEF Types
<1>3. \A l \in Letters : tree[p][l] = "done" => l \in cut
  BY <1>1, <1>2 DEF CloneOK
<1>4. /\ Good(head'[p]) /\ NoLess(Tip(head'[p]), tree[p]) /\ NoLess(Tip(head[p]), Tip(head'[p]))
      /\ head' \in [Personas -> Seq(Commit)] /\ \A q \in Personas \ {p} : head'[q] = head[q]
      /\ \A l \in Letters : Tip(head'[p])[l] = "done" => l \in cut
      /\ \A l \in Letters : l > Len(mail) => Tip(head'[p])[l] = "none"
  <2>1. CASE UNCHANGED head
    BY <1>2, <2>1, HeadFresh, NoLessReflexive DEF CloneOK, Types
  <2>2. CASE MakeCommit(p, tree[p], index[p])
    <3>1. NoLess(Tip(head[p]), tree[p])
      BY <1>2 DEF CloneOK
    <3>2. /\ Good(head'[p]) /\ Tip(head'[p]) = tree[p]
          /\ head' \in [Personas -> Seq(Commit)] /\ \A q \in Personas \ {p} : head'[q] = head[q]
      BY <1>2, <2>2, <3>1, CommitGood
    <3> QED
      BY <1>2, <1>3, <3>1, <3>2, NoLessReflexive DEF CloneOK
  <2> QED
    BY <1>1, <2>1, <2>2
<1>5. /\ CommandTypes' /\ OthersRun(p)
      /\ pc'[p] = "idle" /\ step'[p] = step[p] /\ hand'[p] = hand[p] /\ left'[p] = left[p]
  BY <1>1, PhaseRun DEF Phases
<1>6. Types' /\ tree'[p] = tree[p]
  BY <1>1, <1>4, <1>5 DEF Types
<1>7. CloneOK(p)'
  <2>1. step[p] = "push" => Tip(head'[p])[hand[p]] # "none"
    BY <1>2, <1>4, HandIsLetter, StaysWritten DEF CloneOK, InCommand
  <2>2. step[p] = "dispatch" => Tip(origin')[hand[p]] # "none"
    <3>1. Good(origin)
      BY DEF OriginOK
    <3>2. NoLess(Tip(origin), Tip(origin'))
      BY <1>1, <1>4, <3>1, GoodPrefix, NoLessReflexive
    <3> QED
      BY <1>2, <3>2, HandIsLetter, StaysWritten DEF CloneOK, InCommand
  <2>3. step[p] = "none" \/ left[p]
    BY <1>1, <1>2 DEF CloneOK
  <2> QED
    BY <1>1, <1>2, <1>3, <1>4, <1>5, <1>6, <2>1, <2>2, <2>3 DEF CloneOK
<1>8. OthersKept(p)
  BY <1>1, <1>4, <1>5 DEF OthersKept
<1> QED
  BY <1>1, <1>4, <1>6, <1>7, <1>8, PublishKeeps

LEMMA DispatchKeeps ==
  ASSUME Inv, NEW p \in Personas, NEW online, Dispatch(p, online)
  PROVE  Inv'
<1> USE DEF Inv
<1>1. /\ step[p] = "dispatch" /\ waiting' \subseteq waiting \cup {hand[p]} /\ Done(p)
      /\ UNCHANGED <<origin, head, tree, index, mail, briefed, spawned, cut, woken>>
  BY DEF Dispatch, letters
<1>2. CloneOK(p) /\ hand[p] \in DOMAIN mail /\ Tip(origin)[hand[p]] # "none"
  BY <1>1, HandIsLetter DEF InCommand, CloneOK
<1>3. /\ CommandTypes' /\ OthersRun(p)
      /\ pc'[p] = pc[p] /\ step'[p] = "none" /\ hand'[p] = 0 /\ left'[p] = FALSE
  BY <1>1, DoneRun
<1>4. Types'
  <2>1. waiting' \subseteq DOMAIN mail
    BY <1>1, <1>2 DEF Types
  <2> QED
    BY <1>1, <1>3, <2>1 DEF Types
<1>5. CloneOK(p)'
  BY <1>1, <1>2, <1>3 DEF CloneOK
<1>6. OthersKept(p)
  BY <1>1, <1>3 DEF OthersKept
<1>7. \A q \in Personas : CloneOK(q)'
  BY <1>1, <1>5, <1>6, LettersWritten, HeadIndexTyped, NoLessReflexive, Framed
<1>8. OriginOK' /\ MessageBeforeWake'
  BY <1>1, <1>2 DEF OriginOK, MessageBeforeWake
<1> QED
  BY <1>4, <1>7, <1>8

LEMMA ComposeKeeps ==
  ASSUME Inv, NEW p \in Personas, NEW to \in Recipients[p], NEW parent, Compose(p, to, parent)
  PROVE  Inv'
<1> USE DEF Inv
<1> DEFINE l == Len(mail) + 1
           new == [for |-> to, from |-> p, depth |-> ReplyDepth(parent), parent |-> parent]
           box == [tree[p] EXCEPT ![l] = "open"]
<1>1. /\ Len(mail) \in Nat /\ Len(mail) < MaxMail /\ MaxMail \in Nat /\ mail \in Seq(Letter)
      /\ l \in Letters
  BY MailboxAssumption DEF Compose, Types, Letters
<1>2. new \in Letter
  <2>1. parent \in 0..MaxMail /\ (parent # 0 => parent \in Letters /\ tree[p][parent] # "none")
    BY MailboxAssumption DEF Compose, Letters
  <2>2. parent # 0 => parent \in 1..Len(mail)
    BY <1>1, <2>1 DEF CloneOK, Letters
  <2>3. ReplyDepth(parent) \in Nat
    <3>1. parent # 0 => mail[parent] \in Letter
      BY <1>1, <2>2
    <3> QED
      BY <3>1 DEF ReplyDepth, Letter
  <2>4. to \in Personas \cup {"all"}
    BY MailboxAssumption
  <2> QED
    BY <2>1, <2>3, <2>4 DEF Letter
<1>3. mail' = Append(mail, new)
  BY DEF Compose
<1> HIDE DEF new
<1>4. mail' \in Seq(Letter) /\ Len(mail') = l /\ Len(mail') <= MaxMail
  BY <1>1, <1>2, <1>3
<1>5. /\ Begin(p, "add", l) /\ tree' = [tree EXCEPT ![p] = box]
      /\ UNCHANGED <<origin, head, index, waiting, woken, briefed, spawned, cut>>
  BY <1>4 DEF Compose, wakes, Types
<1>6. /\ tree[p] \in Box /\ CloneOK(p) /\ Tip(head[p]) \in Box /\ Tip(head[p])[l] = "none"
      /\ tree[p][l] = "none"
  BY <1>1, HeadIndexTyped, HeadFresh DEF Types, CloneOK
<1>7. /\ box \in Box /\ box[l] = "open"
      /\ \A m \in Letters : m # l => box[m] = tree[p][m]
  BY <1>1, <1>6 DEF Box, Places
<1>8. /\ CommandTypes' /\ OthersRun(p) /\ step[p] = "none"
      /\ pc'[p] = "runtime" /\ step'[p] = "add" /\ hand'[p] = l /\ left'[p] = left[p]
      /\ tree'[p] = box /\ head'[p] = head[p]
  <2>1. l \in 1..Len(mail') /\ Len(mail') \in Nat /\ Len(mail) <= Len(mail')
    BY <1>1, <1>4
  <2> HIDE DEF l
  <2> QED
    BY <1>5, <2>1, BeginRun DEF InCommand, Types
<1>9. DOMAIN mail = 1..Len(mail) /\ DOMAIN mail' = 1..l /\ DOMAIN mail \subseteq DOMAIN mail'
  BY <1>1, <1>4
<1> HIDE DEF box
<1>10. Types'
  <2>1. tree' \in [Personas -> Box]
    BY <1>5, <1>7 DEF Types
  <2>4. /\ waiting' \subseteq DOMAIN mail' /\ spawned' \subseteq DOMAIN mail'
        /\ cut' \subseteq DOMAIN mail' /\ briefed' \subseteq Personas \X DOMAIN mail'
    BY <1>5, <1>9 DEF Types
  <2>5. /\ index' \in [Personas -> SUBSET Letters] /\ woken' \in [Personas -> BOOLEAN]
        /\ head' \in [Personas -> Seq(Commit)]
    BY <1>5 DEF Types
  <2> HIDE DEF l
  <2> QED
    BY <1>4, <1>8, <2>1, <2>4, <2>5 DEF Types
<1>11. NoLess(Tip(head[p]), box)
  <2>1. ASSUME NEW m \in Letters PROVE Rank(Tip(head[p])[m]) <= Rank(box[m])
    BY <1>6, <1>7 DEF CloneOK, NoLess, Rank
  <2> QED
    BY <2>1 DEF NoLess
<1>12. CloneOK(p)'
  <2>1. \A m \in Letters : box[m] = "done" => m \in cut
    BY <1>6, <1>7, <1>8 DEF CloneOK
  <2>2. ASSUME NEW m \in Letters, m > l PROVE box[m] = "none"
    <3>1. m # l /\ m > Len(mail)
      BY <1>1, <2>2 DEF Letters
    <3> QED
      BY <1>6, <1>7, <3>1 DEF CloneOK
  <2> QED
    BY <1>4, <1>5, <1>6, <1>7, <1>8, <1>11, <2>1, <2>2 DEF CloneOK
<1>13. OthersKept(p)
  BY <1>5, <1>8 DEF OthersKept, Types
<1>14. Len(mail') \in Nat /\ Len(mail) <= Len(mail')
  BY <1>1, <1>4
<1>15. \A q \in Personas : CloneOK(q)'
  BY <1>5, <1>12, <1>13, <1>14, HeadIndexTyped, NoLessReflexive, Framed
<1>16. OriginOK'
  <2>1. ASSUME NEW m \in Letters, m > l PROVE m > Len(mail)
    BY <1>1, <2>1 DEF Letters
  <2> QED
    BY <1>4, <1>5, <2>1 DEF OriginOK
<1>17. MessageBeforeWake'
  BY <1>5 DEF MessageBeforeWake
<1> QED
  BY <1>10, <1>15, <1>16, <1>17

LEMMA GateKeeps ==
  ASSUME Inv, NEW l \in Letters, Gate(l)
  PROVE  Inv'
<1> USE DEF Inv
<1>1. /\ l \in waiting /\ waiting' \subseteq waiting /\ spawned' \subseteq spawned \cup {l}
      /\ woken' = woken \/ woken' = [p \in Personas |-> woken[p] \/ p = mail[l].for]
      /\ UNCHANGED <<mail, origin, head, tree, index, pc, step, hand, left, briefed, cut>>
  BY DEF Gate, command
<1>2. woken' \in [Personas -> BOOLEAN]
  BY <1>1, Zenon DEF Types
<1>3. Types'
  BY <1>1, <1>2 DEF Types, CommandTypes
<1>4. OriginOK' /\ \A p \in Personas : CloneOK(p)'
  BY <1>1 DEF OriginOK, CloneOK
<1>5. MessageBeforeWake'
  BY <1>1 DEF MessageBeforeWake
<1> QED
  BY <1>3, <1>4, <1>5

-------------------------------------------------------------------------------
(***************************************************************************)
(* The theorems                                                            *)
(***************************************************************************)

LEMMA NextKeeps == Inv /\ [Next]_vars => Inv' /\ [NoLess(Tip(origin), Tip(origin'))]_origin
<1> SUFFICES ASSUME Inv, [Next]_vars PROVE Inv' /\ [NoLess(Tip(origin), Tip(origin'))]_origin
  OBVIOUS
<1>1. CASE UNCHANGED vars
  BY <1>1 DEF vars, Inv, Types, CommandTypes, OriginOK, CloneOK, MessageBeforeWake
<1>2. ASSUME NEW l \in Letters, Gate(l) PROVE Inv' /\ UNCHANGED origin
  BY <1>2, GateKeeps DEF Gate
<1>3. ASSUME NEW p \in Personas, LocalStep(p) PROVE Inv' /\ UNCHANGED origin
  <2>1. Inv'
    BY <1>3, CloseWriteKeeps, CloseMoveKeeps, CloseCommitKeeps, ComposeKeeps, AddLetterKeeps,
       EndIndexKeeps DEF LocalStep
  <2>2. UNCHANGED origin
    BY <1>3 DEF LocalStep, CloseWrite, CloseMove, CloseCommit, Compose, AddLetter, EndIndex
  <2> QED
    BY <2>1, <2>2
<1>4. ASSUME NEW p \in Personas, NEW online \in BOOLEAN, RemoteStep(p, online)
      PROVE  Inv' /\ [NoLess(Tip(origin), Tip(origin'))]_origin
  <2>1. CASE OpenCycle(p, online)
    BY <2>1, OpenCycleKeeps DEF OpenCycle
  <2>2. CASE NotifyPush(p, online)
    BY <2>2, NotifyPushKeeps
  <2>3. CASE Dispatch(p, online)
    BY <2>3, DispatchKeeps DEF Dispatch
  <2>4. CASE Land(p, online)
    BY <2>4, LandKeeps
  <2> QED
    BY <1>4, <2>1, <2>2, <2>3, <2>4 DEF RemoteStep
<1>5. ASSUME NEW p \in Personas, Timeout(p) \/ Crash(p) PROVE Inv' /\ UNCHANGED origin
  BY <1>5, CutKeeps DEF Timeout, Crash, CutShort
<1>6. ASSUME NEW p \in Personas, Collide(p) PROVE Inv' /\ UNCHANGED origin
  BY <1>6, CollideKeeps DEF Collide
<1> QED
  BY <1>1, <1>2, <1>3, <1>4, <1>5, <1>6 DEF Next, Step

\* The faults stay within their bound.
FaultsOK == faults \in 0..MaxFaults

LEMMA NextFaults == FaultsOK /\ [Next]_vars => FaultsOK'
<1> SUFFICES ASSUME FaultsOK, [Next]_vars PROVE FaultsOK'
  OBVIOUS
<1>1. faults' = faults \/ (faults < MaxFaults /\ faults' = faults + 1)
  BY DEF Next, Step, Timeout, Crash, Collide, CutShort, Reached, Fault, vars
<1> QED
  BY <1>1, MailboxAssumption DEF FaultsOK

\* The variables hold what git, the working trees and the commands can hold, always.
THEOREM TypeCorrect == Spec => []TypeOK
<1>1. Init => FaultsOK
  BY MailboxAssumption DEF Init, FaultsOK
<1>2. Inv /\ FaultsOK => TypeOK
  <2> SUFFICES ASSUME Inv, FaultsOK PROVE TypeOK
    OBVIOUS
  <2>1. origin \in Seq(Commit) /\ origin # <<>>
    BY DEF Inv, OriginOK, Good
  <2>2. \A p \in Personas : head[p] # <<>>
    BY DEF Inv, CloneOK, Good
  <2> QED
    BY <2>1, <2>2 DEF Inv, Types, CommandTypes, FaultsOK, TypeOK
<1> QED
  BY <1>1, <1>2, InitInv, NextKeeps, NextFaults, PTL DEF Spec

\* An event, or a spawn, is only ever for a letter that is published.
THEOREM MessageBeforeWakeAlways == Spec => []MessageBeforeWake
<1>1. Inv => MessageBeforeWake
  BY DEF Inv
<1> QED
  BY <1>1, InitInv, NextKeeps, PTL DEF Spec

\* At origin a letter goes from open to done to archived and never back, and none is deleted.
THEOREM ArchiveNotDeleteAlways == Spec => ArchiveNotDelete
<1>1. [NoLess(Tip(origin), Tip(origin'))]_origin
        => [\A l \in Letters : Rank(Tip(origin)[l]) <= Rank(Tip(origin')[l])]_origin
  BY DEF NoLess
<1> QED
  BY <1>1, InitInv, NextKeeps, PTL DEF Spec, ArchiveNotDelete

\* A published letter is closed and not archived only when its closing runtime was killed in
\* the middle of the close, whether the close died there or goes on beside the landing.
THEOREM HalfClosedWasCutAlways == Spec => []HalfClosedWasCut
<1>1. Inv => HalfClosedWasCut
  BY DEF Inv, OriginOK, HalfClosedWasCut
<1> QED
  BY <1>1, InitInv, NextKeeps, PTL DEF Spec

-------------------------------------------------------------------------------
(***************************************************************************)
(* Chains of replies                                                       *)
(***************************************************************************)

\* A letter answers one written before it, and its frontmatter counts on from that one's;
\* the gate lets no letter through that counts more than the limit.
Counted ==
  /\ \A l \in 1..Len(mail) :
       /\ mail[l].parent \in 0..(l - 1)
       /\ mail[l].depth = IF mail[l].parent = 0 THEN 0 ELSE mail[mail[l].parent].depth + 1
  /\ \A l \in spawned : mail[l].depth <= Limit

LEMMA ComposeCounts ==
  ASSUME Inv, Counted, NEW p \in Personas, NEW to \in Recipients[p] \ {p},
         NEW parent \in 0..Len(mail), Compose(p, to, parent)
  PROVE  Counted'
<1> DEFINE letter == [for |-> to, from |-> p, depth |-> ReplyDepth(parent), parent |-> parent]
           n == Len(mail) + 1
<1>1. mail \in Seq(Letter) /\ Len(mail) \in Nat /\ spawned \subseteq 1..Len(mail)
  BY DEF Inv, Types
<1>2. mail' = Append(mail, letter) /\ spawned' = spawned
  BY DEF Compose
<1>3. letter.parent = parent /\ letter.depth = ReplyDepth(parent)
  OBVIOUS
<1> HIDE DEF letter
<1>4. /\ Len(mail') = n /\ mail'[n] = letter
      /\ \A l \in 1..Len(mail) : mail'[l] = mail[l]
  BY <1>1, <1>2
<1>5. ReplyDepth(parent) = IF parent = 0 THEN 0 ELSE mail[parent].depth + 1
  BY DEF ReplyDepth
<1>6. ASSUME NEW l \in 1..Len(mail')
      PROVE  /\ mail'[l].parent \in 0..(l - 1)
             /\ mail'[l].depth = IF mail'[l].parent = 0 THEN 0 ELSE mail'[mail'[l].parent].depth + 1
  <2>1. CASE l \in 1..Len(mail)
    <3>1. /\ mail[l].parent \in 0..(l - 1)
          /\ mail[l].depth = IF mail[l].parent = 0 THEN 0 ELSE mail[mail[l].parent].depth + 1
      BY <2>1 DEF Counted
    <3>2. mail'[l] = mail[l]
      BY <1>4, <2>1
    <3>3. CASE mail[l].parent = 0
      BY <3>1, <3>2, <3>3
    <3>4. CASE mail[l].parent # 0
      <4>1. mail'[mail[l].parent] = mail[mail[l].parent]
        BY <1>1, <1>4, <2>1, <3>1, <3>4
      <4> QED
        BY <3>1, <3>2, <3>4, <4>1
    <3> QED
      BY <3>3, <3>4
  <2>2. CASE l = n
    <3>1. mail'[l].parent = parent /\ mail'[l].depth = ReplyDepth(parent)
      BY <1>3, <1>4, <2>2
    <3>2. parent \in 0..(l - 1)
      BY <1>1, <2>2
    <3>3. parent # 0 => mail'[parent] = mail[parent]
      BY <1>1, <1>4
    <3> QED
      BY <1>5, <3>1, <3>2, <3>3
  <2> QED
    BY <1>1, <1>4, <1>6, <2>1, <2>2
<1>7. \A l \in spawned' : mail'[l].depth <= Limit
  BY <1>1, <1>2, <1>4 DEF Counted
<1> QED
  BY <1>6, <1>7 DEF Counted

LEMMA NextCounts == Inv /\ Counted /\ [Next]_vars => Counted'
<1> SUFFICES ASSUME Inv, Counted, [Next]_vars PROVE Counted'
  OBVIOUS
<1>1. CASE UNCHANGED mail /\ UNCHANGED spawned
  BY <1>1 DEF Counted
<1>2. ASSUME NEW l \in Letters, Gate(l) PROVE Counted'
  <2>1. mail' = mail /\ (spawned' = spawned \/ (mail[l].depth <= Limit /\ spawned' = spawned \cup {l}))
    BY <1>2 DEF Gate
  <2> QED
    BY <2>1 DEF Counted
<1>3. ASSUME NEW p \in Personas, LocalStep(p) PROVE Counted'
  <2>1. ASSUME NEW to \in Recipients[p] \ {p}, NEW parent \in 0..Len(mail), Compose(p, to, parent)
        PROVE  Counted'
    BY <2>1, ComposeCounts
  <2>2. CASE \/ \E l \in Letters : CloseWrite(p, l)
             \/ CloseMove(p) \/ CloseCommit(p)
             \/ \E asked \in BOOLEAN, max \in Depths : AddLetter(p, asked, max)
             \/ EndIndex(p)
    BY <1>1, <2>2 DEF CloseWrite, CloseMove, CloseCommit, AddLetter, EndIndex, letters
  <2> QED
    BY <1>3, <2>1, <2>2 DEF LocalStep
<1>4. ASSUME NEW p \in Personas, NEW online \in BOOLEAN, RemoteStep(p, online) PROVE Counted'
  BY <1>1, <1>4 DEF RemoteStep, OpenCycle, NotifyPush, Dispatch, Land, letters
<1>5. ASSUME NEW p \in Personas, Timeout(p) \/ Crash(p) PROVE Counted'
  BY <1>1, <1>5 DEF Timeout, Crash, CutShort
<1>6. ASSUME NEW p \in Personas, Collide(p) PROVE Counted'
  BY <1>1, <1>6 DEF Collide, letters
<1>7. CASE UNCHANGED vars
  BY <1>1, <1>7 DEF vars
<1> QED
  BY <1>2, <1>3, <1>4, <1>5, <1>6, <1>7 DEF Next, Step

\* A non-empty set of naturals has a least element.
LEMMA LeastNatural ==
  ASSUME NEW S, S \subseteq Nat, S # {}
  PROVE  \E x \in S : \A y \in S : x <= y
<1> DEFINE Less == {r \in Nat \X Nat : r[1] < r[2]}
<1>1. IsWellFoundedOn(Less, Nat)
  BY NatLessThanWellFounded DEF OpToRel
<1> HIDE DEF Less
<1>2. PICK x \in S : \A y \in S : <<y, x>> \notin Less
  BY <1>1, WFMin
<1>3. \A y \in S : ~ (y < x)
  BY <1>2 DEF Less
<1> QED
  BY <1>2, <1>3

\* The depth kept in the frontmatter is the number of letters before it in the chain.
LEMMA DepthIsChain ==
  ASSUME Inv, Counted, NEW l \in DOMAIN mail
  PROVE  Chain[l] = mail[l].depth
<1> DEFINE Step1(f) == [m \in DOMAIN mail |-> IF mail[m].parent = 0 THEN 0
                                              ELSE f[mail[m].parent] + 1]
           depth == [m \in DOMAIN mail |-> mail[m].depth]
<1>1. /\ DOMAIN mail = 1..Len(mail) /\ Len(mail) \in Nat
      /\ \A m \in DOMAIN mail : mail[m].depth \in Nat
  <2>1. mail \in Seq(Letter)
    BY DEF Inv, Types
  <2>2. \A m \in DOMAIN mail : mail[m] \in Letter
    BY <2>1
  <2> QED
    BY <2>1, <2>2 DEF Letter
<1>2. ASSUME NEW m \in DOMAIN mail
      PROVE  /\ mail[m].parent = 0 => mail[m].depth = 0
             /\ mail[m].parent # 0 =>
                  /\ mail[m].parent \in DOMAIN mail /\ mail[m].parent < m
                  /\ mail[m].depth = mail[mail[m].parent].depth + 1
  BY <1>1 DEF Counted
<1>3. depth = Step1(depth)
  BY <1>2
<1>4. Chain = Step1(Chain)
  <2>1. Chain = CHOOSE f : f = Step1(f)
    BY Zenon DEF Chain
  <2> HIDE DEF Step1, depth
  <2> QED
    BY <1>3, <2>1, Zenon
<1>5. ASSUME NEW m \in DOMAIN mail
      PROVE  Chain[m] = IF mail[m].parent = 0 THEN 0 ELSE Chain[mail[m].parent] + 1
  BY <1>4, Zenon
<1> DEFINE odd == {m \in DOMAIN mail : Chain[m] # mail[m].depth}
<1>6. CASE odd # {}
  <2>1. odd \subseteq Nat
    BY <1>1
  <2> HIDE DEF odd
  <2>2. PICK m \in odd : \A y \in odd : m <= y
    BY <1>6, <2>1, LeastNatural, Zenon
  <2> USE DEF odd
  <2>3. CASE mail[m].parent = 0
    BY <1>2, <1>5, <2>2, <2>3
  <2>4. CASE mail[m].parent # 0
    <3>1. mail[m].parent \in DOMAIN mail /\ mail[m].parent < m
      BY <1>2, <2>2, <2>4
    <3>2. mail[m].parent \notin odd
      BY <1>1, <2>2, <3>1
    <3> QED
      BY <1>2, <1>5, <2>2, <2>4, <3>1, <3>2
  <2> QED
    BY <2>3, <2>4
<1> QED
  BY <1>6

\* No spawn happens more than Limit letters down a chain of replies, for any personas,
\* clones and depths: what the gate compares is what the chain counts.
THEOREM ChainsEndAlways == Spec => []ChainsEnd
<1>1. Init => Counted
  BY DEF Init, Counted
<1>2. Inv /\ Counted => ChainsEnd
  <2> SUFFICES ASSUME Inv, Counted, NEW l \in spawned PROVE Chain[l] <= Limit
    BY DEF ChainsEnd
  <2>1. l \in DOMAIN mail
    BY DEF Inv, Types
  <2> QED
    BY <2>1, DepthIsChain DEF Counted
<1> QED
  BY <1>1, <1>2, InitInv, NextKeeps, NextCounts, PTL DEF Spec

===============================================================================
