------------------------------ MODULE PlaneProofs ------------------------------
(***************************************************************************)
(* Theorems about the observation plane and the health report, for any     *)
(* directories, days, processes, verdicts and numbers of rows.             *)
(***************************************************************************)
EXTENDS Plane, FiniteSetTheorems, SequenceTheorems, TLAPS

-------------------------------------------------------------------------------
(***************************************************************************)
(* Sequences                                                               *)
(***************************************************************************)

\* A non-empty set of naturals has a least element.
LEMMA LeastNatural ==
  ASSUME NEW S, S \subseteq Nat, S # {}
  PROVE  Min(S) \in S /\ \A y \in S : Min(S) <= y
<1> DEFINE Less == {r \in Nat \X Nat : r[1] < r[2]}
<1>1. IsWellFoundedOn(Less, Nat)
  BY NatLessThanWellFounded DEF OpToRel
<1> HIDE DEF Less
<1>2. PICK x \in S : \A y \in S : <<y, x>> \notin Less
  BY <1>1, WFMin
<1>3. \A y \in S : ~ (y < x)
  BY <1>2 DEF Less
<1>4. \A y \in S : x <= y
  BY <1>3
<1> QED
  BY <1>4 DEF Min

\* FlattenSeq puts sequences end to end.
Cat(one, two) == one \o two
Flattens(f, seqs, m) == f = [i \in 1..m |-> IF i = 1 THEN seqs[i] ELSE Cat(f[i - 1], seqs[i])]

LEMMA FlattensGrows ==
  ASSUME NEW seqs, NEW m \in Nat, m # 0, NEW f, Flattens(f, seqs, m)
  PROVE  \E g : Flattens(g, seqs, m + 1)
<1> DEFINE g == [i \in 1..(m + 1) |-> IF i = m + 1 THEN Cat(f[m], seqs[i]) ELSE f[i]]
<1>1. \A i \in 1..m : g[i] = f[i] /\ f[i] = IF i = 1 THEN seqs[i] ELSE Cat(f[i - 1], seqs[i])
  BY DEF Flattens
<1>2. g[m + 1] = Cat(f[m], seqs[m + 1])
  OBVIOUS
<1>3. ASSUME NEW i \in 1..(m + 1)
      PROVE  g[i] = IF i = 1 THEN seqs[i] ELSE Cat(g[i - 1], seqs[i])
  <2>1. CASE i = m + 1
    BY <1>1, <1>2, <2>1
  <2>2. CASE i # m + 1
    <3>1. i \in 1..m /\ (i = 1 \/ i - 1 \in 1..m)
      BY <2>2
    <3> HIDE DEF g
    <3> QED
      BY <1>1, <3>1
  <2> QED
    BY <2>1, <2>2
<1>4. g = [i \in 1..(m + 1) |-> g[i]]
  OBVIOUS
<1> HIDE DEF g
<1>5. g = [i \in 1..(m + 1) |-> IF i = 1 THEN seqs[i] ELSE Cat(g[i - 1], seqs[i])]
  BY <1>3, <1>4
<1> QED
  BY <1>5 DEF Flattens

LEMMA FlattensExists ==
  ASSUME NEW seqs, NEW n \in Nat, n # 0
  PROVE  \E f : Flattens(f, seqs, n)
<1> DEFINE bad == {m \in Nat : m # 0 /\ ~\E f : Flattens(f, seqs, m)}
           m == Min(bad)
<1>1. SUFFICES ASSUME bad # {} PROVE FALSE
  OBVIOUS
<1>2. m \in bad /\ \A k \in bad : m <= k
  <2>1. bad \subseteq Nat
    OBVIOUS
  <2> HIDE DEF bad
  <2> QED
    BY <1>1, <2>1, LeastNatural
<1> HIDE DEF m
<1>3. CASE m = 1
  <2> DEFINE f == [i \in 1..1 |-> seqs[1]]
  <2>1. f = [i \in 1..1 |-> IF i = 1 THEN seqs[i] ELSE Cat(f[i - 1], seqs[i])]
    OBVIOUS
  <2> QED
    BY <1>2, <1>3, <2>1 DEF Flattens
<1>4. CASE m # 1
  <2>1. m - 1 \in Nat /\ m - 1 # 0 /\ ~(m <= m - 1) /\ (m - 1) + 1 = m
    BY <1>2, <1>4
  <2>2. m - 1 \notin bad
    BY <1>2, <2>1
  <2>3. PICK f : Flattens(f, seqs, m - 1)
    BY <2>1, <2>2
  <2>4. \E g : Flattens(g, seqs, (m - 1) + 1)
    BY <2>1, <2>3, FlattensGrows, Zenon
  <2> QED
    BY <1>2, <2>1, <2>4
<1> QED
  BY <1>3, <1>4

\* A sequence of those of the first m elements of s whose places are in K.
Picks(out, s, K, m, S) ==
  /\ out \in Seq(S)
  /\ \A j \in 1..Len(out) : \E i \in K : i <= m /\ out[j] = s[i]
  /\ \A i \in K : i <= m => \E j \in 1..Len(out) : out[j] = s[i]
  /\ (\A i, j \in K : s[i] = s[j] => i = j) => \A a, b \in 1..Len(out) : out[a] = out[b] => a = b

LEMMA PicksGrows ==
  ASSUME NEW m \in Nat, NEW K, K \subseteq Nat, NEW s, NEW S, \A i \in K : s[i] \in S,
         NEW out, Picks(out, s, K, m, S)
  PROVE  Picks(out \o (IF m + 1 \in K THEN <<s[m + 1]>> ELSE <<>>), s, K, m + 1, S)
<1>1. out \in Seq(S)
  BY DEF Picks
<1>2. CASE m + 1 \notin K
  <2>1. out \o <<>> = out
    BY <1>1, ConcatEmptySeq
  <2>2. \A i \in K : i <= m + 1 <=> i <= m
    BY <1>2
  <2> QED
    BY <1>2, <2>1, <2>2 DEF Picks
<1>3. CASE m + 1 \in K
  <2> DEFINE one == <<s[m + 1]>>
             new == out \o one
             n == Len(out)
  <2>1. one \in Seq(S) /\ Len(one) = 1 /\ one[1] = s[m + 1]
    BY <1>3
  <2>2. n \in Nat
    BY <1>1
  <2> HIDE DEF one
  <2>3. new \in Seq(S) /\ Len(new) = n + 1 /\ (\A j \in 1..n : new[j] = out[j]) /\ new[n + 1] = s[m + 1]
    BY <1>1, <2>1, <2>2, ConcatProperties
  <2> HIDE DEF new, n
  <2>4. \A j \in 1..(n + 1) : \E i \in K : i <= m + 1 /\ new[j] = s[i]
    <3>1. ASSUME NEW j \in 1..n PROVE \E i \in K : i <= m + 1 /\ new[j] = s[i]
      <4>1. PICK i \in K : i <= m /\ out[j] = s[i]
        BY DEF Picks, n
      <4>2. i <= m + 1
        BY <4>1
      <4> QED
        BY <2>3, <4>1, <4>2
    <3> QED
      BY <1>3, <2>2, <2>3, <3>1
  <2>5. ASSUME NEW i \in K, i <= m + 1 PROVE \E j \in 1..(n + 1) : new[j] = s[i]
    <3>1. CASE i = m + 1
      BY <2>2, <2>3, <3>1
    <3>2. CASE i # m + 1
      <4>1. i <= m
        BY <2>5, <3>2
      <4>2. PICK j \in 1..n : out[j] = s[i]
        BY <4>1 DEF Picks, n
      <4> QED
        BY <2>2, <2>3, <4>2
    <3> QED
      BY <3>1, <3>2
  <2>6. ASSUME \A i, j \in K : s[i] = s[j] => i = j,
               NEW a \in 1..(n + 1), NEW b \in 1..(n + 1), new[a] = new[b]
        PROVE  a = b
    <3>1. ASSUME NEW c \in 1..n PROVE new[c] # new[n + 1]
      <4>1. PICK i \in K : i <= m /\ out[c] = s[i]
        BY DEF Picks, n
      <4>2. i # m + 1
        BY <4>1
      <4> QED
        BY <1>3, <2>3, <2>6, <4>1, <4>2
    <3>2. CASE a \in 1..n /\ b \in 1..n
      BY <2>3, <2>6, <3>2 DEF Picks, n
    <3> QED
      BY <2>2, <2>6, <3>1, <3>2
  <2>7. Picks(new, s, K, m + 1, S)
    BY <2>3, <2>4, <2>5, <2>6 DEF Picks
  <2> QED
    BY <1>3, <2>7 DEF new, one
<1> QED
  BY <1>2, <1>3

\* Flattening what is one element here and none there picks the elements.
LEMMA FlattenPicks ==
  ASSUME NEW n \in Nat, NEW K, K \subseteq 1..n, NEW s, NEW S, \A i \in K : s[i] \in S
  PROVE  Picks(FlattenSeq([i \in 1..n |-> IF i \in K THEN <<s[i]>> ELSE <<>>]), s, K, n, S)
<1> DEFINE seqs == [i \in 1..n |-> IF i \in K THEN <<s[i]>> ELSE <<>>]
           out == FlattenSeq(seqs)
           flatten == CHOOSE f : Flattens(f, seqs, n)
<1>1. Len(seqs) = n /\ K \subseteq Nat
  OBVIOUS
<1>2. Picks(<<>>, s, K, 0, S)
  BY <1>1 DEF Picks
<1>3. CASE n = 0
  <2>1. seqs = <<>>
    BY <1>3
  <2>2. out = <<>>
    BY <1>1, <1>3, <2>1 DEF FlattenSeq
  <2> QED
    BY <1>2, <1>3, <2>2
<1>4. CASE n # 0
  <2>1. out = flatten[n]
    <3>1. Len(seqs) # 0
      BY <1>1, <1>4
    <3> HIDE DEF seqs
    <3> QED
      BY <1>1, <3>1, Zenon DEF FlattenSeq, Flattens, Cat
  <2>2. Flattens(flatten, seqs, n)
    <3> HIDE DEF seqs
    <3>1. \E f : Flattens(f, seqs, n)
      BY <1>4, FlattensExists, Zenon
    <3> QED
      BY <3>1, Zenon
  <2> HIDE DEF flatten
  <2> DEFINE bad == {i \in 1..n : ~Picks(flatten[i], s, K, i, S)}
             m == Min(bad)
             before == IF m = 1 THEN <<>> ELSE flatten[m - 1]
  <2>3. SUFFICES ASSUME bad # {} PROVE FALSE
    BY <1>4, <2>1
  <2>4. m \in bad /\ \A k \in bad : m <= k
    <3>1. bad \subseteq Nat
      OBVIOUS
    <3> HIDE DEF bad
    <3> QED
      BY <2>3, <3>1, LeastNatural
  <2> HIDE DEF m
  <2>5. m \in 1..n /\ m - 1 \in Nat /\ (m - 1) + 1 = m
    BY <2>4
  <2>6. Picks(before, s, K, m - 1, S)
    <3>1. CASE m = 1
      BY <1>2, <3>1
    <3>2. CASE m # 1
      <4>1. m - 1 \in 1..n /\ ~(m <= m - 1)
        BY <2>5, <3>2
      <4> QED
        BY <2>4, <3>2, <4>1
    <3> QED
      BY <3>1, <3>2
  <2>7. seqs[m] = IF m \in K THEN <<s[m]>> ELSE <<>>
    BY <2>5
  <2>8. flatten[m] = before \o seqs[m]
    <3>1. flatten[m] = IF m = 1 THEN seqs[m] ELSE Cat(flatten[m - 1], seqs[m])
      <4> HIDE DEF seqs
      <4> QED
        BY <2>2, <2>5 DEF Flattens
    <3>2. seqs[m] \in Seq(S)
      <4>1. m \in K => s[m] \in S
        OBVIOUS
      <4> HIDE DEF seqs
      <4> QED
        BY <2>7, <4>1
    <3>3. <<>> \o seqs[m] = seqs[m]
      BY <3>2, ConcatEmptySeq
    <3> HIDE DEF seqs
    <3> QED
      BY <3>1, <3>3 DEF Cat
  <2> HIDE DEF before, seqs
  <2>9. Picks(before \o (IF (m - 1) + 1 \in K THEN <<s[(m - 1) + 1]>> ELSE <<>>), s, K, (m - 1) + 1, S)
    BY <1>1, <2>5, <2>6, PicksGrows, Zenon
  <2>10. Picks(flatten[m], s, K, m, S)
    BY <2>5, <2>7, <2>8, <2>9
  <2> QED
    BY <2>4, <2>10
<1> QED
  BY <1>3, <1>4

-------------------------------------------------------------------------------
(***************************************************************************)
(* The invariant                                                           *)
(***************************************************************************)

\* A file is a sequence of pieces; a process is at one of its commands.
ProcShape(x) ==
  \/ x = Idle
  \/ x.at \in {"append", "half"} /\ x = [at |-> x.at, row |-> x.row]
  \/ x = [at |-> "reading", plane |-> x.plane, repo |-> x.repo, since |-> x.since, left |-> x.left,
          rows |-> x.rows, before |-> x.before]
TypeInv ==
  /\ files = [f \in Dirs \X Days |-> files[f]]
  /\ \A f \in Dirs \X Days :
       /\ files[f] \in Seq(ToSet(files[f]))
       /\ \A x \in ToSet(files[f]) : x = [row |-> x.row, part |-> x.part] /\ x.part \in {"whole", "head", "tail"}
  /\ proc = [p \in Procs |-> proc[p]]
  /\ \A p \in Procs : ProcShape(proc[p])
  /\ today \in Days /\ issued \in Nat
  /\ IsFiniteSet(landed)

\* A row is where it says, drawn before, and in the repository of its directory.
RowOK(row, drawn) == row.dir \in Dirs /\ row.day \in Days /\ row.repo = row.dir /\ row.id \in 0 .. (drawn - 1)

\* Who is writing a row.
Writing(p) == proc[p].at \in {"append", "half"}

\* The pieces of a row in a file: all of it, or its head and later its tail; the head of a row
\* that is not exposed begins a line, and nothing but its tail is behind it.
PieceOK(file, i, f, drawn, written, shown) ==
  LET row == file[i].row
  IN  /\ RowOK(row, drawn) /\ f = <<row.dir, row.day>>
      /\ file[i].part = "whole" <=> ~row.long
      /\ file[i].part # "head" => row \in written
      /\ file[i].part = "tail" => \E j \in 1..(i - 1) : file[j].row = row /\ file[j].part = "head"
      /\ \A j \in 1..Len(file) : file[j].row = row /\ file[j].part = file[i].part => i = j
      /\ row \notin shown =>
           /\ file[i].part # "tail" => EndsLine(file, i - 1)
           /\ file[i].part = "head" /\ i # Len(file) =>
                file[i + 1].row = row /\ file[i + 1].part = "tail"
FileOK(f, file, drawn, written, shown) ==
  \A i \in 1..Len(file) : PieceOK(file, i, f, drawn, written, shown)

FilesInv == \A f \in Dirs \X Days : FileOK(f, files[f], issued, landed, exposed)

\* What was written to its end is there.
IsIn(row, file) == \E i \in 1..Len(file) : file[i].row = row /\ file[i].part # "head"
LandedInv == \A row \in landed : RowOK(row, issued) /\ IsIn(row, files[row.dir, row.day])

\* A row that is being written is its writer's alone.
WriterOK(x, content, drawn, written) ==
  LET row == x.row
  IN  /\ RowOK(row, drawn) /\ row \notin written
      /\ x.at = "append" => \A f \in Dirs \X Days : \A i \in 1..Len(content[f]) : content[f][i].row # row
      /\ x.at = "half" =>
           /\ row.long
           /\ \E i \in 1..Len(content[row.dir, row.day]) :
                content[row.dir, row.day][i].row = row /\ content[row.dir, row.day][i].part = "head"
WritersInv ==
  \A p \in Procs : Writing(p) =>
    /\ WriterOK(proc[p], files, issued, landed)
    /\ \A q \in Procs : Writing(q) /\ q # p => proc[q].row # proc[p].row

\* The rows a report may count, and what it has to have counted of the days it has read.
Counts(row, repo, since) == row.kind = "review.verdict" /\ row.repo = repo /\ row.day >= since
ReaderOK(x, written, shown) ==
  /\ x.repo \in Dirs /\ x.plane = x.repo /\ x.since \in Days /\ x.left \subseteq Days
  /\ x.rows \in Seq(written) /\ IsInjective(x.rows)
  /\ \A i \in 1..Len(x.rows) : Counts(x.rows[i], x.repo, x.since) /\ x.rows[i].day \notin x.left
  /\ x.before \subseteq written
  /\ \A row \in x.before : Counts(row, x.repo, x.since) /\ row.day \notin x.left /\ row \notin shown =>
       row \in ToSet(x.rows)
ReadersInv == \A p \in Procs : proc[p].at = "reading" => ReaderOK(proc[p], landed, exposed)

PlaneInv == TypeInv /\ FilesInv /\ LandedInv /\ WritersInv /\ ReadersInv

-------------------------------------------------------------------------------
(***************************************************************************)
(* Files                                                                   *)
(***************************************************************************)

\* A piece goes behind the others.
LEMMA AppendShape ==
  ASSUME NEW file, file \in Seq(ToSet(file)), NEW x
  PROVE  LET new == Append(file, x)
         IN  /\ new \in Seq(ToSet(new)) /\ ToSet(new) = ToSet(file) \cup {x}
             /\ Len(file) \in Nat /\ Len(new) = Len(file) + 1 /\ new[Len(file) + 1] = x
             /\ \A i \in 1..Len(file) : new[i] = file[i]
<1> DEFINE S == ToSet(file) \cup {x}
           new == Append(file, x)
           n == Len(file)
<1>1. file \in Seq(S) /\ x \in S
  BY SeqMonotonic
<1>2. n \in Nat /\ DOMAIN file = 1..n
  BY <1>1
<1>3. new \in Seq(S) /\ Len(new) = n + 1 /\ (\A i \in 1..n : new[i] = file[i]) /\ new[n + 1] = x
  BY <1>1, AppendProperties
<1>4. DOMAIN new = 1..(n + 1)
  BY <1>3
<1> HIDE DEF new, n
<1>5. ToSet(new) = S
  BY <1>2, <1>3, <1>4 DEF ToSet
<1> QED
  BY <1>2, <1>3, <1>5 DEF new, n

\* What is said of a file stays true while rows are drawn, written and exposed elsewhere.
LEMMA FileKept ==
  ASSUME NEW f, NEW file, NEW drawn \in Nat, NEW more \in Nat, drawn <= more,
         NEW written, NEW written2, written \subseteq written2,
         NEW shown, NEW shown2, shown \subseteq shown2, FileOK(f, file, drawn, written, shown)
  PROVE  FileOK(f, file, more, written2, shown2)
<1> SUFFICES ASSUME NEW i \in 1..Len(file) PROVE PieceOK(file, i, f, more, written2, shown2)
  BY DEF FileOK
<1>1. PieceOK(file, i, f, drawn, written, shown)
  BY DEF FileOK
<1>2. RowOK(file[i].row, drawn) => RowOK(file[i].row, more)
  BY DEF RowOK
<1> QED
  BY <1>1, <1>2 DEF PieceOK

\* Which rows a piece exposes that goes behind a file.
Shares(file, row) ==
  IF file # <<>> /\ file[Len(file)].part = "head" /\ file[Len(file)].row # row
  THEN {row, file[Len(file)].row} ELSE {}

LEMMA PieceAdded ==
  ASSUME NEW f, NEW file, file \in Seq(ToSet(file)), NEW drawn, NEW written, NEW shown,
         FileOK(f, file, drawn, written, shown),
         NEW row, NEW part, RowOK(row, drawn), f = <<row.dir, row.day>>,
         part = "whole" <=> ~row.long, part # "head" => row \in written,
         part = "tail" => \E j \in 1..Len(file) : file[j].row = row /\ file[j].part = "head",
         \A i \in 1..Len(file) : file[i].row = row => file[i].part = "head" /\ part = "tail",
         Shares(file, row) \subseteq shown
  PROVE  FileOK(f, Append(file, [row |-> row, part |-> part]), drawn, written, shown)
<1> DEFINE x == [row |-> row, part |-> part]
           new == Append(file, x)
           n == Len(file)
<1>1. /\ n \in Nat /\ Len(new) = n + 1 /\ new[n + 1] = x /\ \A i \in 1..n : new[i] = file[i]
  BY AppendShape
<1>2. x.row = row /\ x.part = part
  OBVIOUS
<1> HIDE DEF new, x
<1>3. n # 0 => file # <<>>
  BY <1>1
<1>4. n # 0 /\ file[n].part = "head" /\ file[n].row # row => row \in shown /\ file[n].row \in shown
  BY <1>3 DEF Shares
<1> HIDE DEF n
<1>5. \A i \in 0..n : EndsLine(new, i) <=> EndsLine(file, i)
  BY <1>1 DEF EndsLine
<1>6. ASSUME NEW i \in 1..n PROVE PieceOK(new, i, f, drawn, written, shown)
  <2> DEFINE r == file[i].row
  <2>1. PieceOK(file, i, f, drawn, written, shown)
    BY DEF FileOK, n
  <2>2. new[i] = file[i] /\ i - 1 \in 0..n /\ i \in 1..(n + 1)
    BY <1>1
  <2>3. /\ RowOK(r, drawn) /\ f = <<r.dir, r.day>>
        /\ file[i].part = "whole" <=> ~r.long
        /\ file[i].part # "head" => r \in written
    BY <2>1 DEF PieceOK
  <2>4. file[i].part = "tail" => \E j \in 1..(i - 1) : new[j].row = r /\ new[j].part = "head"
    <3>1. file[i].part = "tail" => \E j \in 1..(i - 1) : file[j].row = r /\ file[j].part = "head"
      BY <2>1 DEF PieceOK
    <3>2. \A j \in 1..(i - 1) : j \in 1..n
      BY <1>1
    <3> QED
      BY <1>1, <3>1, <3>2
  <2>5. ASSUME NEW j \in 1..(n + 1), new[j].row = r, new[j].part = file[i].part PROVE i = j
    <3>1. CASE j \in 1..n
      BY <1>1, <2>1, <2>5, <3>1 DEF PieceOK, n
    <3>2. CASE j = n + 1
      <4>1. r = row /\ file[i].part = part
        BY <1>1, <1>2, <2>5, <3>2
      <4> QED
        BY <4>1 DEF n
    <3> QED
      BY <1>1, <3>1, <3>2
  <2>6. ASSUME r \notin shown, file[i].part # "tail" PROVE EndsLine(new, i - 1)
    <3>1. EndsLine(file, i - 1)
      BY <2>1, <2>6 DEF PieceOK
    <3> QED
      BY <1>5, <2>2, <3>1
  <2>7. ASSUME r \notin shown, file[i].part = "head", i # n + 1
        PROVE  new[i + 1].row = r /\ new[i + 1].part = "tail"
    <3>1. CASE i = n
      <4>1. r = row
        BY <1>4, <2>7, <3>1, <1>1
      <4>2. part = "tail"
        BY <4>1 DEF n
      <4> QED
        BY <1>1, <1>2, <3>1, <4>1, <4>2
    <3>2. CASE i # n
      <4>1. i + 1 \in 1..n
        BY <1>1, <3>2
      <4>2. file[i + 1].row = r /\ file[i + 1].part = "tail"
        BY <2>1, <2>7, <3>2 DEF PieceOK, n
      <4> QED
        BY <1>1, <4>1, <4>2
    <3> QED
      BY <3>1, <3>2
  <2> QED
    BY <1>1, <2>2, <2>3, <2>4, <2>5, <2>6, <2>7 DEF PieceOK
<1>7. PieceOK(new, n + 1, f, drawn, written, shown)
  <2>1. part = "tail" => \E j \in 1..n : new[j].row = row /\ new[j].part = "head"
    <3>1. part = "tail" => \E j \in 1..n : file[j].row = row /\ file[j].part = "head"
      BY DEF n
    <3> QED
      BY <1>1, <3>1
  <2>2. ASSUME NEW j \in 1..(n + 1), new[j].row = row, new[j].part = part PROVE n + 1 = j
    <3>1. CASE j \in 1..n
      <4>1. file[j].row = row /\ file[j].part = part
        BY <1>1, <2>2, <3>1
      <4> QED
        BY <3>1, <4>1 DEF n
    <3> QED
      BY <1>1, <3>1
  <2>3. ASSUME row \notin shown, part # "tail" PROVE EndsLine(new, n)
    <3>1. CASE n = 0
      BY <3>1 DEF EndsLine
    <3>2. CASE n # 0
      <4>1. n \in 1..n
        BY <1>1, <3>2
      <4>2. file[n].row # row
        BY <2>3, <4>1 DEF n
      <4>3. file[n].part # "head"
        BY <1>4, <2>3, <3>2, <4>2
      <4> QED
        BY <1>1, <4>1, <4>3 DEF EndsLine
    <3> QED
      BY <3>1, <3>2
  <2>4. (n + 1) - 1 = n
    BY <1>1
  <2> QED
    BY <1>1, <1>2, <2>1, <2>2, <2>3, <2>4 DEF PieceOK
<1>8. \A i \in 1..Len(new) : PieceOK(new, i, f, drawn, written, shown)
  BY <1>1, <1>6, <1>7
<1> QED
  BY <1>8 DEF FileOK, new, x

\* What is in a file stays in it when a piece is added.
LEMMA StaysIn ==
  ASSUME NEW file, file \in Seq(ToSet(file)), NEW x, NEW row
  PROVE  /\ IsIn(row, file) => IsIn(row, Append(file, x))
         /\ x.row = row /\ x.part # "head" => IsIn(row, Append(file, x))
<1> DEFINE new == Append(file, x)
           n == Len(file)
<1>1. n \in Nat /\ Len(new) = n + 1 /\ new[n + 1] = x /\ \A i \in 1..n : new[i] = file[i]
  BY AppendShape
<1> HIDE DEF new
<1>2. IsIn(row, file) => IsIn(row, new)
  BY <1>1 DEF IsIn
<1>3. x.row = row /\ x.part # "head" => IsIn(row, new)
  BY <1>1 DEF IsIn
<1> QED
  BY <1>2, <1>3 DEF new

\* What the reader makes of a file: verdicts that were written to their end and are asked for,
\* each once, and all of those that are not exposed.
LEMMA ReadFinds ==
  ASSUME NEW f, NEW file, file \in Seq(ToSet(file)),
         \A x \in ToSet(file) : x = [row |-> x.row, part |-> x.part] /\ x.part \in {"whole", "head", "tail"},
         NEW drawn, NEW written, NEW shown, FileOK(f, file, drawn, written, shown), NEW since
  PROVE  LET out == Read(file, since)
         IN  /\ out \in Seq(written) /\ IsInjective(out)
             /\ \A k \in 1..Len(out) :
                  /\ out[k].kind = "review.verdict" /\ out[k].day >= since
                  /\ f = <<out[k].dir, out[k].day>> /\ RowOK(out[k], drawn)
             /\ \A row : /\ IsIn(row, file) /\ row \notin shown
                         /\ row.kind = "review.verdict" /\ row.day >= since
                         => row \in ToSet(out)
<1> DEFINE n == Len(file)
           wanted(row) == row.kind = "review.verdict" /\ row.day >= since
           K == {i \in 1..n : IsLine(file, i) /\ wanted(file[i].row)}
           s == [i \in 1..n |-> file[i].row]
           seqs == [i \in 1..n |-> IF i \in K THEN <<s[i]>> ELSE <<>>]
           out == Read(file, since)
<1>1. n \in Nat /\ DOMAIN file = 1..n
  OBVIOUS
<1>2. \A i \in 1..n : /\ file[i] = [row |-> file[i].row, part |-> file[i].part]
                      /\ file[i].part \in {"whole", "head", "tail"}
  BY <1>1 DEF ToSet
<1>3. \A i \in 1..n : PieceOK(file, i, f, drawn, written, shown)
  BY DEF FileOK
<1> HIDE DEF n
<1>4. out = FlattenSeq(seqs)
  <2>1. [i \in DOMAIN file |-> IF IsLine(file, i) /\ wanted(file[i].row) THEN <<file[i].row>> ELSE <<>>] = seqs
    BY <1>1
  <2> HIDE DEF seqs
  <2> QED
    BY <2>1 DEF Read
<1>5. ASSUME NEW i \in K PROVE s[i] \in written /\ s[i] = file[i].row
  <2>1. i \in 1..n /\ IsLine(file, i) /\ s[i] = file[i].row
    OBVIOUS
  <2>2. CASE file[i].part = "whole"
    BY <1>3, <2>1, <2>2 DEF PieceOK
  <2>3. CASE file[i].part # "whole"
    <3>1. i < n /\ file[i + 1] = [row |-> file[i].row, part |-> "tail"]
      BY <2>1, <2>3 DEF IsLine, n
    <3>2. i + 1 \in 1..n
      BY <1>1, <2>1, <3>1
    <3>3. file[i + 1].row = file[i].row /\ file[i + 1].part = "tail"
      BY <3>1
    <3> QED
      BY <1>3, <2>1, <3>2, <3>3 DEF PieceOK
  <2> QED
    BY <2>2, <2>3
<1>6. ASSUME NEW i \in K, NEW j \in K, s[i] = s[j] PROVE i = j
  <2>1. i \in 1..n /\ j \in 1..n /\ file[i].row = file[j].row
    BY <1>6
  <2>2. file[i].part \in {"whole", "head"} /\ file[j].part \in {"whole", "head"}
    BY DEF IsLine
  <2>3. file[i].part = file[j].part
    BY <1>3, <2>1, <2>2 DEF PieceOK
  <2> QED
    BY <1>3, <2>1, <2>3 DEF PieceOK, n
<1>7. Picks(out, s, K, n, written)
  <2>1. K \subseteq 1..n /\ \A i \in K : s[i] \in written
    BY <1>5
  <2> HIDE DEF K, s
  <2> QED
    BY <1>1, <1>4, <2>1, FlattenPicks
<1>8. ASSUME NEW i \in 1..n, file[i].part # "tail", file[i].row \notin shown,
             IsIn(file[i].row, file)
      PROVE  IsLine(file, i)
  <2> DEFINE row == file[i].row
  <2>1. EndsLine(file, i - 1)
    BY <1>3, <1>8 DEF PieceOK
  <2>2. CASE file[i].part = "head"
    <3>1. PICK j \in 1..n : file[j].row = row /\ file[j].part # "head"
      BY <1>8 DEF IsIn, n
    <3>2. file[j].part = "tail"
      BY <1>2, <1>3, <2>2, <3>1 DEF PieceOK
    <3>3. i # n
      <4>1. PICK h \in 1..(j - 1) : file[h].row = row /\ file[h].part = "head"
        BY <1>3, <3>1, <3>2 DEF PieceOK
      <4>2. h \in 1..n /\ h < n
        BY <1>1
      <4>3. h = i
        BY <1>3, <2>2, <4>1, <4>2 DEF PieceOK, n
      <4> QED
        BY <4>2, <4>3
    <3>4. file[i + 1].row = row /\ file[i + 1].part = "tail"
      BY <1>3, <1>8, <2>2, <3>3 DEF PieceOK, n
    <3>5. i + 1 \in 1..n /\ i < n
      BY <1>1, <3>3
    <3>6. file[i + 1] = [row |-> row, part |-> "tail"]
      BY <1>2, <3>4, <3>5
    <3> QED
      BY <2>1, <2>2, <3>5, <3>6 DEF IsLine, n
  <2>3. CASE file[i].part = "whole"
    BY <2>1, <2>3 DEF IsLine
  <2> QED
    BY <1>2, <1>8, <2>2, <2>3
<1>9. ASSUME NEW row, IsIn(row, file), row \notin shown, wanted(row) PROVE row \in ToSet(out)
  <2>1. PICK j \in 1..n : file[j].row = row /\ file[j].part # "head"
    BY <1>9 DEF IsIn, n
  <2>2. PICK i \in 1..n : file[i].row = row /\ file[i].part # "tail"
    <3>1. CASE file[j].part = "tail"
      <4>1. PICK h \in 1..(j - 1) : file[h].row = row /\ file[h].part = "head"
        BY <1>3, <2>1, <3>1 DEF PieceOK
      <4>2. h \in 1..n
        BY <1>1
      <4> QED
        BY <4>1, <4>2
    <3> QED
      BY <2>1, <3>1
  <2>3. IsLine(file, i)
    BY <1>8, <1>9, <2>2
  <2>4. i \in K /\ s[i] = row
    BY <1>9, <2>2, <2>3
  <2>5. i <= n
    BY <1>1
  <2> HIDE DEF K, s
  <2>6. \E k \in 1..Len(out) : out[k] = row
    BY <1>7, <2>4, <2>5 DEF Picks
  <2>7. DOMAIN out = 1..Len(out)
    BY <1>7 DEF Picks
  <2> QED
    BY <2>6, <2>7 DEF ToSet
<1>10. ASSUME NEW k \in 1..Len(out)
       PROVE  wanted(out[k]) /\ f = <<out[k].dir, out[k].day>> /\ RowOK(out[k], drawn)
  <2>1. PICK i \in K : out[k] = s[i]
    BY <1>7 DEF Picks
  <2>2. i \in 1..n /\ wanted(file[i].row) /\ out[k] = file[i].row
    BY <2>1
  <2> QED
    BY <1>3, <2>2 DEF PieceOK
<1>11. out \in Seq(written) /\ IsInjective(out)
  <2>1. out \in Seq(written) /\ \A a, b \in 1..Len(out) : out[a] = out[b] => a = b
    <3> HIDE DEF K, s
    <3> QED
      BY <1>6, <1>7 DEF Picks
  <2>2. DOMAIN out = 1..Len(out)
    BY <2>1
  <2> QED
    BY <2>1, <2>2 DEF IsInjective
<1> HIDE DEF out
<1> QED
  BY <1>9, <1>10, <1>11 DEF out

-------------------------------------------------------------------------------
(***************************************************************************)
(* The steps                                                               *)
(***************************************************************************)

LEMMA InitPlane == Init => PlaneInv
<1> SUFFICES ASSUME Init PROVE PlaneInv
  OBVIOUS
<1>1. \A f \in Dirs \X Days : files[f] = <<>> /\ Len(files[f]) = 0 /\ ToSet(files[f]) = {}
  BY DEF Init, ToSet
<1>2. files = [f \in Dirs \X Days |-> files[f]]
  BY DEF Init
<1>3. proc = [p \in Procs |-> proc[p]] /\ \A p \in Procs : proc[p] = Idle
  BY DEF Init
<1>4. TypeInv
  <2>1. ASSUME NEW f \in Dirs \X Days PROVE files[f] \in Seq(ToSet(files[f]))
    <3>1. files[f] = <<>>
      BY <1>1
    <3>2. <<>> \in Seq(ToSet(files[f]))
      OBVIOUS
    <3> QED
      BY <3>1, <3>2, Zenon
  <2> QED
    BY <1>1, <1>2, <1>3, <2>1, PlaneAssumption, FS_EmptySet DEF TypeInv, ProcShape, Init
<1>5. FilesInv
  BY <1>1 DEF FilesInv, FileOK
<1>6. LandedInv /\ WritersInv /\ ReadersInv
  BY <1>3 DEF LandedInv, WritersInv, ReadersInv, Writing, Idle, Init
<1> QED
  BY <1>4, <1>5, <1>6 DEF PlaneInv

\* One process goes on to something else.
LEMMA ProcMoved ==
  ASSUME TypeInv, NEW p \in Procs, NEW x, ProcShape(x), proc' = [proc EXCEPT ![p] = x]
  PROVE  /\ proc' = [q \in Procs |-> proc'[q]]
         /\ \A q \in Procs : ProcShape(proc[q])'
         /\ proc'[p] = x /\ \A q \in Procs : q # p => proc'[q] = proc[q]
<1>1. proc = [q \in Procs |-> proc[q]]
  BY DEF TypeInv
<1>2. proc'[p] = x /\ \A q \in Procs : q # p => proc'[q] = proc[q]
  BY <1>1
<1>3. proc' = [q \in Procs |-> proc'[q]]
  BY <1>1
<1>4. \A q \in Procs : ProcShape(proc[q])
  BY DEF TypeInv
<1> QED
  BY <1>2, <1>3, <1>4 DEF ProcShape

\* A step that writes nothing.
LEMMA QuietStep ==
  ASSUME PlaneInv, UNCHANGED <<files, landed, exposed>>, today' \in Days,
         issued' \in Nat, issued <= issued',
         NEW p \in Procs, NEW x, ProcShape(x), proc' = [proc EXCEPT ![p] = x],
         x.at = "reading" => ReaderOK(x, landed, exposed),
         x.at \in {"append", "half"} =>
           /\ WriterOK(x, files, issued', landed)
           /\ \A q \in Procs : Writing(q) /\ q # p => proc[q].row # x.row
  PROVE  PlaneInv'
<1>1. TypeInv /\ FilesInv /\ LandedInv /\ WritersInv /\ ReadersInv
  BY DEF PlaneInv
<1>2. /\ proc' = [q \in Procs |-> proc'[q]] /\ \A q \in Procs : ProcShape(proc[q])'
      /\ proc'[p] = x /\ \A q \in Procs : q # p => proc'[q] = proc[q]
  BY <1>1, ProcMoved
<1>3. TypeInv'
  BY <1>1, <1>2 DEF TypeInv
<1>4. \A row : RowOK(row, issued) => RowOK(row, issued')
  BY <1>1 DEF RowOK, TypeInv
<1>5. FilesInv'
  <2>1. \A f \in Dirs \X Days : FileOK(f, files[f], issued', landed, exposed)
    BY <1>1, FileKept DEF FilesInv, TypeInv
  <2> QED
    BY <2>1 DEF FilesInv
<1>6. LandedInv'
  BY <1>1, <1>4 DEF LandedInv
<1>7. \A q \in Procs : q # p => (Writing(q)' <=> Writing(q))
  BY <1>2 DEF Writing
<1>8. Writing(p)' <=> x.at \in {"append", "half"}
  BY <1>2 DEF Writing
<1>9. WritersInv'
  <2>1. ASSUME NEW q \in Procs, Writing(q)' PROVE WriterOK(proc'[q], files', issued', landed')
    <3>1. \A y : WriterOK(y, files, issued, landed) => WriterOK(y, files, issued', landed)
      BY <1>4, Zenon DEF WriterOK
    <3>2. WriterOK(proc'[q], files, issued', landed)
      <4>1. CASE q = p
        BY <1>2, <1>8, <2>1, <4>1
      <4>2. CASE q # p
        <5>1. WriterOK(proc[q], files, issued, landed)
          BY <1>1, <1>7, <2>1, <4>2 DEF WritersInv
        <5> QED
          BY <1>2, <3>1, <4>2, <5>1
      <4> QED
        BY <4>1, <4>2
    <3> QED
      BY <3>2
  <2>2. ASSUME NEW q \in Procs, NEW r \in Procs, Writing(q)', Writing(r)', q # r
        PROVE  proc'[q].row # proc'[r].row
    <3>1. CASE q # p /\ r # p
      <4>1. Writing(q) /\ Writing(r) /\ proc'[q] = proc[q] /\ proc'[r] = proc[r]
        BY <1>2, <1>7, <2>2, <3>1
      <4>2. proc[q].row # proc[r].row
        BY <1>1, <2>2, <4>1 DEF WritersInv
      <4> QED
        BY <4>1, <4>2
    <3>2. CASE q = p
      <4>1. Writing(r) /\ proc'[r] = proc[r] /\ r # p /\ proc'[q] = x /\ x.at \in {"append", "half"}
        BY <1>2, <1>7, <1>8, <2>2, <3>2
      <4> QED
        BY <4>1
    <3>3. CASE r = p
      <4>1. Writing(q) /\ proc'[q] = proc[q] /\ q # p /\ proc'[r] = x /\ x.at \in {"append", "half"}
        BY <1>2, <1>7, <1>8, <2>2, <3>3
      <4> QED
        BY <4>1
    <3> QED
      BY <3>1, <3>2, <3>3
  <2> QED
    BY <2>1, <2>2 DEF WritersInv
<1>10. ReadersInv'
  <2>1. ASSUME NEW q \in Procs, proc'[q].at = "reading" PROVE ReaderOK(proc'[q], landed, exposed)
    <3>1. CASE q = p
      BY <1>2, <2>1, <3>1
    <3>2. CASE q # p
      BY <1>1, <1>2, <2>1, <3>2 DEF ReadersInv
    <3> QED
      BY <3>1, <3>2
  <2> QED
    BY <2>1 DEF ReadersInv
<1> QED
  BY <1>3, <1>5, <1>6, <1>9, <1>10 DEF PlaneInv

LEMMA NothingMoves ==
  ASSUME PlaneInv, UNCHANGED <<files, proc, issued, landed, exposed>>, today' \in Days
  PROVE  PlaneInv'
<1>1. TypeInv'
  BY DEF PlaneInv, TypeInv, ProcShape
<1>2. FilesInv' /\ LandedInv'
  BY DEF PlaneInv, FilesInv, LandedInv
<1>3. WritersInv'
  <2>1. \A q \in Procs : Writing(q)' <=> Writing(q)
    BY DEF Writing
  <2> QED
    BY <2>1 DEF PlaneInv, WritersInv
<1>4. ReadersInv'
  BY DEF PlaneInv, ReadersInv
<1> QED
  BY <1>1, <1>2, <1>3, <1>4 DEF PlaneInv

\* The top-level of a directory is a directory.
LEMMA TopInDirs == \A dir \in Dirs : Top(dir) \in Dirs
  BY PlaneAssumption DEF Top

\* A row is drawn for an event.
LEMMA EmitHolds ==
  ASSUME PlaneInv, NEW p \in Procs, NEW dir \in Dirs, NEW content, NEW sink, Emit(p, dir, content, sink)
  PROVE  PlaneInv'
<1>1. TypeInv /\ FilesInv /\ LandedInv /\ WritersInv
  BY DEF PlaneInv
<1>2. UNCHANGED <<files, landed, exposed, today>> /\ today \in Days /\ issued \in Nat
  BY <1>1 DEF Emit, TypeInv
<1>3. CASE sink # "disk"
  BY <1>2, <1>3, NothingMoves DEF Emit
<1>4. CASE sink = "disk"
  <2> DEFINE row == Row(dir, content)
             x == [at |-> "append", row |-> row]
  <2>1. issued' = issued + 1 /\ proc' = [proc EXCEPT ![p] = x]
    BY <1>4 DEF Emit
  <2>2. row.id = issued /\ row.repo = Top(dir) /\ row.dir = Top(dir) /\ row.day = today
    BY DEF Row, EventsDir
  <2>3. Top(dir) \in Dirs
    BY TopInDirs
  <2> HIDE DEF row
  <2>4. \A r : RowOK(r, issued) => r # row
    BY <1>2, <2>2 DEF RowOK
  <2>5. WriterOK(x, files, issued', landed)
    <3>1. RowOK(row, issued')
      BY <1>2, <2>1, <2>2, <2>3 DEF RowOK
    <3>2. row \notin landed
      BY <1>1, <2>4 DEF LandedInv
    <3>3. \A f \in Dirs \X Days : \A i \in 1..Len(files[f]) : files[f][i].row # row
      BY <1>1, <2>4 DEF FilesInv, FileOK, PieceOK
    <3> QED
      BY <3>1, <3>2, <3>3 DEF WriterOK
  <2>6. \A q \in Procs : Writing(q) /\ q # p => proc[q].row # x.row
    BY <1>1, <2>4 DEF WritersInv, WriterOK
  <2>7. ProcShape(x) /\ x.at # "reading"
    BY DEF ProcShape
  <2>8. today' \in Days /\ issued' \in Nat /\ issued <= issued'
    BY <1>2, <2>1
  <2> HIDE DEF x
  <2> QED
    BY <1>2, <2>1, <2>5, <2>6, <2>7, <2>8, QuietStep
<1> QED
  BY <1>3, <1>4

LEMMA IdleAgain ==
  ASSUME PlaneInv, UNCHANGED <<files, issued, landed, exposed, today>>,
         NEW p \in Procs, proc' = [proc EXCEPT ![p] = Idle]
  PROVE  PlaneInv'
<1>1. ProcShape(Idle) /\ Idle.at \notin {"reading", "append", "half"}
  BY DEF ProcShape, Idle
<1>2. today' \in Days /\ issued' \in Nat /\ issued <= issued'
  BY DEF PlaneInv, TypeInv
<1> QED
  BY <1>1, <1>2, QuietStep

LEMMA StartHolds ==
  ASSUME PlaneInv, NEW p \in Procs, NEW dir \in Dirs, NEW since \in Days, StartHealth(p, dir, since)
  PROVE  PlaneInv'
<1> DEFINE top == Top(dir)
           x == [at |-> "reading", plane |-> top, repo |-> top, since |-> since, left |-> FilesOf(top),
                 rows |-> <<>>, before |-> landed]
<1>1. TypeInv /\ LandedInv
  BY DEF PlaneInv
<1>2. proc' = [proc EXCEPT ![p] = x] /\ UNCHANGED <<files, landed, exposed, today, issued>>
  BY DEF StartHealth, EventsDir
<1>3. /\ x.plane = top /\ x.repo = top /\ x.since = since /\ x.left = FilesOf(top) /\ x.rows = <<>> /\ x.before = landed
      /\ x.at = "reading"
  OBVIOUS
<1>4. ProcShape(x)
  BY DEF ProcShape
<1> HIDE DEF x
<1>5. ReaderOK(x, landed, exposed)
  <2>1. FilesOf(top) \subseteq Days /\ top \in Dirs
    BY TopInDirs DEF FilesOf
  <2> HIDE DEF top
  <2>2. x.rows \in Seq(landed) /\ IsInjective(x.rows) /\ Len(x.rows) = 0
    BY <1>3 DEF IsInjective
  <2>3. ASSUME NEW row \in landed, Counts(row, top, since) PROVE row.day \in FilesOf(top)
    <3>1. row.repo = top /\ row.day \in Days /\ row.dir = row.repo /\ IsIn(row, files[row.dir, row.day])
      BY <1>1, <2>3 DEF LandedInv, RowOK, Counts
    <3>2. files[top, row.day] # <<>>
      <4>1. ~IsIn(row, <<>>)
        BY DEF IsIn
      <4>2. row.dir = top /\ IsIn(row, files[row.dir, row.day])
        BY <3>1
      <4> QED
        BY <4>1, <4>2
    <3> QED
      BY <3>1, <3>2 DEF FilesOf
  <2> QED
    BY <1>3, <2>1, <2>2, <2>3 DEF ReaderOK
<1>6. today' \in Days /\ issued' \in Nat /\ issued <= issued'
  BY <1>1, <1>2 DEF TypeInv
<1> QED
  BY <1>2, <1>3, <1>4, <1>5, <1>6, QuietStep

\* A sequence without repetition goes on with another of other elements.
Apart(one, two) == \A i \in 1..Len(one), j \in 1..Len(two) : one[i] # two[j]
ElementsOf(both, one, two) ==
  /\ \A x : x \in ToSet(one) \/ x \in ToSet(two) => x \in ToSet(both)
  /\ \A k \in 1..Len(both) : \/ \E i \in 1..Len(one) : both[k] = one[i]
                             \/ \E j \in 1..Len(two) : both[k] = two[j]

LEMMA JoinInjective ==
  ASSUME NEW S, NEW one, one \in Seq(S), NEW two, two \in Seq(S), IsInjective(one), IsInjective(two),
         Apart(one, two), NEW both, both = one \o two
  PROVE  both \in Seq(S) /\ IsInjective(both) /\ ElementsOf(both, one, two)
<1> DEFINE m == Len(one)
           n == Len(two)
<1>1. m \in Nat /\ n \in Nat /\ DOMAIN one = 1..m /\ DOMAIN two = 1..n
  OBVIOUS
<1>2. /\ both \in Seq(S) /\ Len(both) = m + n
      /\ \A i \in 1..(m + n) : both[i] = IF i <= m THEN one[i] ELSE two[i - m]
  BY ConcatProperties
<1>3. DOMAIN both = 1..(m + n)
  BY <1>2
<1> HIDE DEF m, n
<1>4. \A k \in 1..(m + n) : \/ k \in 1..m /\ both[k] = one[k]
                            \/ k - m \in 1..n /\ both[k] = two[k - m]
  BY <1>1, <1>2
<1>5. IsInjective(both)
  <2> SUFFICES ASSUME NEW a \in 1..(m + n), NEW b \in 1..(m + n), both[a] = both[b] PROVE a = b
    BY <1>3 DEF IsInjective
  <2>1. CASE a \in 1..m /\ b \in 1..m
    <3>1. one[a] = one[b]
      BY <1>1, <1>2, <2>1
    <3> QED
      BY <1>1, <2>1, <3>1 DEF IsInjective
  <2>2. CASE a \notin 1..m /\ b \notin 1..m
    <3>1. a - m \in 1..n /\ b - m \in 1..n /\ two[a - m] = two[b - m]
      BY <1>4, <2>2
    <3>2. a - m = b - m
      BY <1>1, <3>1 DEF IsInjective
    <3> QED
      BY <1>1, <3>2
  <2>3. \A i \in 1..m, j \in 1..n : one[i] # two[j]
    BY DEF Apart, m, n
  <2>4. CASE a \in 1..m /\ b \notin 1..m
    <3>1. both[a] = one[a] /\ b - m \in 1..n /\ both[b] = two[b - m]
      BY <1>1, <1>2, <1>4, <2>4
    <3> QED
      BY <2>3, <2>4, <3>1
  <2>5. CASE a \notin 1..m /\ b \in 1..m
    <3>1. both[b] = one[b] /\ a - m \in 1..n /\ both[a] = two[a - m]
      BY <1>1, <1>2, <1>4, <2>5
    <3> QED
      BY <2>3, <2>5, <3>1
  <2> QED
    BY <2>1, <2>2, <2>4, <2>5
<1>6. ASSUME NEW x, x \in ToSet(one) \/ x \in ToSet(two) PROVE x \in ToSet(both)
  <2>1. CASE x \in ToSet(one)
    <3>1. PICK i \in 1..m : one[i] = x
      BY <1>1, <2>1 DEF ToSet
    <3>2. i \in 1..(m + n) /\ both[i] = x
      BY <1>1, <1>2, <3>1
    <3> QED
      BY <1>3, <3>2 DEF ToSet
  <2>2. CASE x \in ToSet(two)
    <3>1. PICK j \in 1..n : two[j] = x
      BY <1>1, <2>2 DEF ToSet
    <3>2. m + j \in 1..(m + n) /\ (m + j) - m = j /\ ~(m + j <= m)
      BY <1>1
    <3>3. both[m + j] = x
      BY <1>2, <3>1, <3>2
    <3> QED
      BY <1>3, <3>2, <3>3 DEF ToSet
  <2> QED
    BY <1>6, <2>1, <2>2
<1>7. \A k \in 1..Len(both) : \/ \E i \in 1..m : both[k] = one[i]
                              \/ \E j \in 1..n : both[k] = two[j]
  BY <1>2, <1>4
<1> QED
  BY <1>2, <1>5, <1>6, <1>7 DEF ElementsOf, m, n

\* A file is read to its end.
LEMMA ReadHolds ==
  ASSUME PlaneInv, NEW p \in Procs, ReadFile(p)
  PROVE  PlaneInv'
<1> DEFINE r == proc[p]
           day == Min(r.left)
           f == <<r.plane, day>>
           file == files[f]
           found == Read(file, r.since)
           x == [r EXCEPT !.left = @ \ {day}, !.rows = @ \o found]
<1>1. TypeInv /\ FilesInv /\ LandedInv /\ ReaderOK(r, landed, exposed)
  BY DEF PlaneInv, ReadersInv, ReadFile
<1>2. r.repo \in Dirs /\ r.plane = r.repo /\ r.since \in Days /\ r.left \subseteq Days /\ r.left # {} /\ r.at = "reading"
  BY <1>1 DEF ReaderOK, ReadFile
<1>3. day \in r.left /\ day \in Days /\ f \in Dirs \X Days
  BY <1>2, PlaneAssumption, LeastNatural
<1>4. proc' = [proc EXCEPT ![p] = x] /\ UNCHANGED <<files, landed, exposed, today, issued>>
  BY DEF ReadFile
<1>5. ProcShape(r)
  BY <1>1 DEF TypeInv
<1>6. r = [at |-> "reading", plane |-> r.plane, repo |-> r.repo, since |-> r.since, left |-> r.left,
           rows |-> r.rows, before |-> r.before]
  BY <1>2, <1>5 DEF ProcShape, Idle
<1>7. x = [at |-> "reading", plane |-> r.plane, repo |-> r.repo, since |-> r.since, left |-> r.left \ {day},
           rows |-> r.rows \o found, before |-> r.before]
  <2> DEFINE left == r.left \ {day}
             rows == r.rows \o found
             y == [at |-> "reading", plane |-> r.plane, repo |-> r.repo, since |-> r.since, left |-> r.left,
                   rows |-> r.rows, before |-> r.before]
  <2>1. x = [y EXCEPT !.left = left, !.rows = rows]
    BY <1>6, Zenon
  <2> HIDE DEF left, rows, r, found, day
  <2> DEFINE z == [at |-> "reading", plane |-> r.plane, repo |-> r.repo, since |-> r.since, left |-> left,
                   rows |-> r.rows, before |-> r.before]
  <2>2. [y EXCEPT !.left = left] = z
    OBVIOUS
  <2>3. [z EXCEPT !.rows = rows] =
          [at |-> "reading", plane |-> r.plane, repo |-> r.repo, since |-> r.since, left |-> left, rows |-> rows, before |-> r.before]
    OBVIOUS
  <2> HIDE DEF y, z
  <2> QED
    BY <2>1, <2>2, <2>3 DEF left, rows
<1>8. /\ x.at = "reading" /\ x.plane = r.plane /\ x.repo = r.repo /\ x.since = r.since /\ x.left = r.left \ {day}
      /\ x.rows = r.rows \o found /\ x.before = r.before
  <2> HIDE DEF found, day
  <2> QED
    BY <1>7
<1>9. ProcShape(x)
  <2> HIDE DEF found, day
  <2> QED
    BY <1>7, <1>8 DEF ProcShape
<1>10. /\ found \in Seq(landed) /\ IsInjective(found)
       /\ \A k \in 1..Len(found) :
            /\ found[k].kind = "review.verdict" /\ found[k].day >= r.since
            /\ f = <<found[k].dir, found[k].day>> /\ RowOK(found[k], issued)
       /\ \A row : /\ IsIn(row, file) /\ row \notin exposed
                   /\ row.kind = "review.verdict" /\ row.day >= r.since
                   => row \in ToSet(found)
  <2>1. /\ file \in Seq(ToSet(file)) /\ FileOK(f, file, issued, landed, exposed)
        /\ \A y \in ToSet(file) : y = [row |-> y.row, part |-> y.part] /\ y.part \in {"whole", "head", "tail"}
    BY <1>1, <1>3 DEF TypeInv, FilesInv
  <2> HIDE DEF file, f
  <2> QED
    BY <2>1, ReadFinds
<1> HIDE DEF x, found, day, file
<1>11. ASSUME NEW k \in 1..Len(found)
       PROVE  Counts(found[k], r.repo, r.since) /\ found[k].day = day
  BY <1>2, <1>10 DEF Counts, RowOK
<1>12. r.rows \in Seq(landed) /\ IsInjective(r.rows)
  BY <1>1 DEF ReaderOK
<1>13. ASSUME NEW i \in 1..Len(r.rows) PROVE Counts(r.rows[i], r.repo, r.since) /\ r.rows[i].day \notin r.left
  BY <1>1 DEF ReaderOK
<1>14. /\ x.rows \in Seq(landed) /\ IsInjective(x.rows)
       /\ \A row : row \in ToSet(r.rows) \/ row \in ToSet(found) => row \in ToSet(x.rows)
       /\ \A k \in 1..Len(x.rows) : \/ \E i \in 1..Len(r.rows) : x.rows[k] = r.rows[i]
                                    \/ \E j \in 1..Len(found) : x.rows[k] = found[j]
  <2> DEFINE one == r.rows
             both == x.rows
  <2>1. Apart(one, found)
    BY <1>3, <1>11, <1>13 DEF Apart
  <2>2. one \in Seq(landed) /\ IsInjective(one) /\ found \in Seq(landed) /\ IsInjective(found)
    BY <1>10, <1>12
  <2>3. both = one \o found
    BY <1>8
  <2> HIDE DEF one, both
  <2>4. both \in Seq(landed) /\ IsInjective(both) /\ ElementsOf(both, one, found)
    BY <2>1, <2>2, <2>3, JoinInjective, Zenon
  <2> QED
    BY <2>4 DEF one, both, ElementsOf
<1>15. ASSUME NEW k \in 1..Len(x.rows)
       PROVE  Counts(x.rows[k], r.repo, r.since) /\ x.rows[k].day \notin r.left \ {day}
  BY <1>11, <1>13, <1>14
<1>16. ASSUME NEW row \in r.before, Counts(row, r.repo, r.since), row.day \notin r.left \ {day}, row \notin exposed
       PROVE  row \in ToSet(x.rows)
  <2>1. CASE row.day # day
    <3>1. row \in ToSet(r.rows)
      BY <1>1, <1>16, <2>1 DEF ReaderOK
    <3> QED
      BY <1>14, <3>1
  <2>2. CASE row.day = day
    <3>1. row \in landed
      BY <1>1 DEF ReaderOK
    <3>2. row.dir = r.plane /\ IsIn(row, files[row.dir, row.day])
      BY <1>1, <1>2, <1>16, <3>1 DEF LandedInv, RowOK, Counts
    <3>3. IsIn(row, file)
      BY <2>2, <3>2 DEF file
    <3>4. row \in ToSet(found)
      BY <1>10, <1>16, <3>3 DEF Counts
    <3> QED
      BY <1>14, <3>4
  <2> QED
    BY <2>1, <2>2
<1>17. ReaderOK(x, landed, exposed)
  <2>1. r.before \subseteq landed
    BY <1>1 DEF ReaderOK
  <2> HIDE DEF r
  <2> QED
    BY <1>2, <1>8, <1>14, <1>15, <1>16, <2>1 DEF ReaderOK
<1>18. today' \in Days /\ issued' \in Nat /\ issued <= issued'
  BY <1>1, <1>4 DEF TypeInv
<1> HIDE DEF r
<1> QED
  BY <1>4, <1>8, <1>9, <1>17, <1>18, QuietStep

\* What a reader has stays good while rows are written and exposed.
LEMMA ReaderKept ==
  ASSUME NEW x, NEW written, NEW written2, written \subseteq written2,
         NEW shown, NEW shown2, shown \subseteq shown2, ReaderOK(x, written, shown)
  PROVE  ReaderOK(x, written2, shown2)
<1>1. x.rows \in Seq(written2)
  <2> DEFINE rows == x.rows
  <2>1. rows \in Seq(written)
    BY DEF ReaderOK
  <2> HIDE DEF rows
  <2>2. rows \in Seq(written2)
    BY <2>1, SeqMonotonic
  <2> QED
    BY <2>2 DEF rows
<1> QED
  BY <1>1 DEF ReaderOK

\* A piece of the row that p is writing is behind the others; after its last, p is idle.
LEMMA PieceWritten ==
  ASSUME PlaneInv, NEW p \in Procs, Writing(p), NEW row, row = proc[p].row,
         NEW part \in {"whole", "head", "tail"},
         part = "tail" <=> proc[p].at = "half", part = "whole" <=> ~row.long,
         Extend(row, part), exposed' = exposed \cup Exposes(row),
         landed' = IF part = "head" THEN landed ELSE landed \cup {row},
         NEW x, x = (IF part = "head" THEN [at |-> "half", row |-> row] ELSE Idle),
         proc' = [proc EXCEPT ![p] = x], UNCHANGED <<today, issued>>
  PROVE  PlaneInv'
<1> DEFINE f == <<row.dir, row.day>>
           file == files[f]
           piece == [row |-> row, part |-> part]
           new == Append(file, piece)
           n == Len(file)
<1>1. /\ TypeInv /\ FilesInv /\ LandedInv /\ WritersInv /\ ReadersInv
      /\ WriterOK(proc[p], files, issued, landed)
  BY DEF PlaneInv, WritersInv
<1>2. /\ RowOK(row, issued) /\ row \notin landed /\ issued \in Nat /\ f \in Dirs \X Days
      /\ file \in Seq(ToSet(file)) /\ FileOK(f, file, issued, landed, exposed)
  BY <1>1 DEF WriterOK, RowOK, TypeInv, FilesInv
<1>3. files' = [files EXCEPT ![f] = new]
  BY DEF Extend
<1>4. piece.row = row /\ piece.part = part
  OBVIOUS
<1> HIDE DEF piece
<1>5. /\ new \in Seq(ToSet(new)) /\ ToSet(new) = ToSet(file) \cup {piece}
      /\ n \in Nat /\ Len(new) = n + 1 /\ new[n + 1] = piece
      /\ \A i \in 1..n : new[i] = file[i] /\ i \in 1..(n + 1)
  <2>1. /\ new \in Seq(ToSet(new)) /\ ToSet(new) = ToSet(file) \cup {piece}
        /\ n \in Nat /\ Len(new) = n + 1 /\ new[n + 1] = piece
        /\ \A i \in 1..n : new[i] = file[i]
    BY <1>2, AppendShape
  <2> HIDE DEF new, n, file
  <2>2. \A i \in 1..n : i \in 1..(n + 1)
    BY <2>1
  <2> QED
    BY <2>1, <2>2
<1>6. /\ files' = [g \in Dirs \X Days |-> files'[g]] /\ files'[f] = new
      /\ \A g \in Dirs \X Days : g # f => files'[g] = files[g]
  <2>1. files = [g \in Dirs \X Days |-> files[g]]
    BY <1>1 DEF TypeInv
  <2> HIDE DEF new, f
  <2> QED
    BY <1>2, <1>3, <2>1
<1>7. landed \subseteq landed' /\ exposed \subseteq exposed' /\ Shares(file, row) \subseteq exposed'
  BY DEF Exposes, Shares, Last
<1>8. ASSUME NEW i \in 1..n PROVE file[i].row = row => file[i].part = "head" /\ part = "tail"
  <2> SUFFICES ASSUME file[i].row = row PROVE file[i].part = "head" /\ part = "tail"
    OBVIOUS
  <2>1. proc[p].at # "append"
    BY <1>1, <1>2 DEF WriterOK
  <2>2. file[i].part # "head" => file[i].row \in landed
    BY <1>2 DEF FileOK, PieceOK
  <2> QED
    BY <1>2, <2>1, <2>2 DEF Writing
<1>9. part = "tail" => \E j \in 1..n : file[j].row = row /\ file[j].part = "head"
  BY <1>1 DEF WriterOK
<1>10. ProcShape(x)
  BY DEF ProcShape, Idle
<1>11. /\ proc' = [q \in Procs |-> proc'[q]] /\ \A q \in Procs : ProcShape(proc[q])'
       /\ proc'[p] = x /\ \A q \in Procs : q # p => proc'[q] = proc[q]
  BY <1>1, <1>10, ProcMoved
<1> HIDE DEF new
<1>12. TypeInv'
  <2>1. ASSUME NEW g \in Dirs \X Days
        PROVE  /\ files'[g] \in Seq(ToSet(files'[g]))
               /\ \A y \in ToSet(files'[g]) :
                    y = [row |-> y.row, part |-> y.part] /\ y.part \in {"whole", "head", "tail"}
    <3>1. \A h \in Dirs \X Days :
            /\ files[h] \in Seq(ToSet(files[h]))
            /\ \A y \in ToSet(files[h]) :
                 y = [row |-> y.row, part |-> y.part] /\ y.part \in {"whole", "head", "tail"}
      BY <1>1 DEF TypeInv
    <3>2. CASE g # f
      BY <1>6, <3>1, <3>2
    <3>3. CASE g = f
      <4>1. piece = [row |-> piece.row, part |-> piece.part] /\ piece.part \in {"whole", "head", "tail"}
        BY DEF piece
      <4> HIDE DEF f
      <4> QED
        BY <1>2, <1>5, <1>6, <3>1, <3>3, <4>1
    <3> QED
      BY <3>2, <3>3
  <2>2. IsFiniteSet(landed')
    <3>1. IsFiniteSet(landed)
      BY <1>1 DEF TypeInv
    <3>2. IsFiniteSet(landed \cup {row})
      BY <3>1, FS_AddElement
    <3> QED
      BY <3>1, <3>2
  <2>3. today' \in Days /\ issued' \in Nat
    BY <1>1 DEF TypeInv
  <2> QED
    BY <1>6, <1>11, <2>1, <2>2, <2>3 DEF TypeInv
<1>13. FilesInv'
  <2>1. ASSUME NEW g \in Dirs \X Days PROVE FileOK(g, files'[g], issued, landed', exposed')
    <3>1. FileOK(g, files[g], issued, landed', exposed')
      BY <1>1, <1>2, <1>7, FileKept DEF FilesInv
    <3>2. CASE g # f
      BY <1>6, <3>1, <3>2
    <3>3. CASE g = f
      <4>1. part # "head" => row \in landed'
        OBVIOUS
      <4>2. FileOK(f, file, issued, landed', exposed')
        BY <3>1, <3>3
      <4>3. /\ file \in Seq(ToSet(file)) /\ RowOK(row, issued) /\ f = <<row.dir, row.day>>
            /\ part = "whole" <=> ~row.long
            /\ part = "tail" => \E j \in 1..Len(file) : file[j].row = row /\ file[j].part = "head"
            /\ \A i \in 1..Len(file) : file[i].row = row => file[i].part = "head" /\ part = "tail"
            /\ Shares(file, row) \subseteq exposed'
        BY <1>2, <1>7, <1>8, <1>9
      <4>4. FileOK(f, new, issued, landed', exposed')
        <5> HIDE DEF f, file, n
        <5>1. FileOK(f, Append(file, [row |-> row, part |-> part]), issued, landed', exposed')
          BY <4>1, <4>2, <4>3, PieceAdded, Zenon
        <5> QED
          BY <5>1 DEF new, piece
      <4> QED
        BY <1>6, <3>3, <4>4
    <3> QED
      BY <3>2, <3>3
  <2> QED
    BY <2>1 DEF FilesInv
<1>14. ASSUME NEW r, RowOK(r, issued), IsIn(r, files[r.dir, r.day]) PROVE IsIn(r, files'[r.dir, r.day])
  <2>1. <<r.dir, r.day>> \in Dirs \X Days
    BY <1>14 DEF RowOK
  <2>2. CASE <<r.dir, r.day>> # f
    BY <1>6, <1>14, <2>1, <2>2
  <2>3. CASE <<r.dir, r.day>> = f
    <3>1. IsIn(r, file)
      BY <1>14, <2>3
    <3>2. IsIn(r, new)
      BY <1>2, <3>1, StaysIn DEF new
    <3> QED
      BY <1>6, <2>3, <3>2
  <2> QED
    BY <2>2, <2>3
<1>15. LandedInv'
  <2>1. ASSUME NEW r \in landed PROVE RowOK(r, issued) /\ IsIn(r, files'[r.dir, r.day])
    BY <1>1, <1>14 DEF LandedInv
  <2>2. part # "head" => IsIn(row, files'[row.dir, row.day])
    <3>1. part # "head" => IsIn(row, new)
      <4> HIDE DEF f, file, n
      <4> QED
        BY <1>2, <1>4, StaysIn DEF new
    <3> QED
      BY <1>6, <3>1
  <2>3. \A r \in landed' : RowOK(r, issued) /\ IsIn(r, files'[r.dir, r.day])
    BY <1>2, <2>1, <2>2
  <2> QED
    BY <2>3 DEF LandedInv
<1>16. ASSUME NEW q \in Procs, q # p, Writing(q) PROVE WriterOK(proc[q], files', issued, landed')
  <2> DEFINE r == proc[q].row
  <2>1. WriterOK(proc[q], files, issued, landed) /\ r # row
    BY <1>1, <1>16 DEF WritersInv
  <2>2. RowOK(r, issued) /\ r \notin landed'
    BY <2>1 DEF WriterOK
  <2>3. ASSUME proc[q].at = "append", NEW g \in Dirs \X Days, NEW i \in 1..Len(files'[g])
        PROVE  files'[g][i].row # r
    <3>1. \A h \in Dirs \X Days : \A j \in 1..Len(files[h]) : files[h][j].row # r
      BY <2>1, <2>3 DEF WriterOK
    <3>2. CASE g # f
      BY <1>6, <3>1, <3>2
    <3>3. CASE g = f
      <4>1. i \in 1..(n + 1) /\ files'[g] = new
        BY <1>5, <1>6, <3>3
      <4>2. CASE i = n + 1
        BY <1>4, <1>5, <2>1, <4>1, <4>2
      <4>3. CASE i # n + 1
        <5>1. i \in 1..n
          <6> HIDE DEF n
          <6> QED
            BY <1>5, <4>1, <4>3
        <5>2. new[i] = file[i] /\ file[i].row # r
          BY <1>2, <1>5, <3>1, <5>1
        <5> QED
          BY <4>1, <5>2
      <4> QED
        BY <4>2, <4>3
    <3> QED
      BY <3>2, <3>3
  <2>4. ASSUME proc[q].at = "half"
        PROVE  /\ r.long
               /\ \E i \in 1..Len(files'[r.dir, r.day]) :
                    files'[r.dir, r.day][i].row = r /\ files'[r.dir, r.day][i].part = "head"
    <3>1. r.long /\ <<r.dir, r.day>> \in Dirs \X Days
      BY <2>1, <2>2, <2>4 DEF WriterOK, RowOK
    <3>2. PICK i \in 1..Len(files[r.dir, r.day]) :
            files[r.dir, r.day][i].row = r /\ files[r.dir, r.day][i].part = "head"
      BY <2>1, <2>4 DEF WriterOK
    <3>3. CASE <<r.dir, r.day>> # f
      BY <1>6, <3>1, <3>2, <3>3
    <3>4. CASE <<r.dir, r.day>> = f
      <4>1. i \in 1..n /\ file[i].row = r /\ file[i].part = "head"
        BY <3>2, <3>4
      <4>2. i \in 1..(n + 1) /\ new[i] = file[i]
        BY <1>5, <4>1, Zenon
      <4>3. files'[r.dir, r.day] = new
        BY <1>6, <3>4
      <4> QED
        BY <1>5, <3>1, <4>1, <4>2, <4>3
    <3> QED
      BY <3>3, <3>4
  <2> QED
    BY <2>2, <2>3, <2>4 DEF WriterOK
<1>17. ASSUME part = "head" PROVE WriterOK(x, files', issued, landed')
  <2>1. x.at = "half" /\ x.row = row /\ row.long /\ row \notin landed'
    BY <1>2, <1>17
  <2>2. n + 1 \in 1..Len(new) /\ new[n + 1].row = row /\ new[n + 1].part = "head"
    BY <1>4, <1>5, <1>17
  <2>3. files'[row.dir, row.day] = new
    BY <1>6
  <2> HIDE DEF n
  <2> QED
    BY <1>2, <2>1, <2>2, <2>3 DEF WriterOK
<1>18. \A q \in Procs : q # p => (Writing(q)' <=> Writing(q))
  BY <1>11 DEF Writing
<1>19. Writing(p)' => part = "head" /\ proc'[p].row = row
  BY <1>11 DEF Writing, Idle
<1>20. WritersInv'
  <2>1. ASSUME NEW q \in Procs, Writing(q)' PROVE WriterOK(proc'[q], files', issued', landed')
    <3>1. CASE q = p
      BY <1>11, <1>17, <1>19, <2>1, <3>1
    <3>2. CASE q # p
      BY <1>11, <1>16, <1>18, <2>1, <3>2
    <3> QED
      BY <3>1, <3>2
  <2>2. ASSUME NEW q \in Procs, NEW r \in Procs, Writing(q)', Writing(r)', q # r
        PROVE  proc'[q].row # proc'[r].row
    <3>1. \A o \in Procs : Writing(o)' => Writing(o) /\ proc'[o].row = proc[o].row
      BY <1>11, <1>18, <1>19
    <3>2. Writing(q) /\ Writing(r) /\ proc'[q].row = proc[q].row /\ proc'[r].row = proc[r].row
      BY <2>2, <3>1
    <3> QED
      BY <1>1, <2>2, <3>2 DEF WritersInv
  <2> QED
    BY <2>1, <2>2 DEF WritersInv
<1>21. ReadersInv'
  <2>1. ASSUME NEW q \in Procs, proc'[q].at = "reading" PROVE ReaderOK(proc'[q], landed', exposed')
    <3>1. q # p
      BY <1>11, <2>1 DEF Idle
    <3>2. ReaderOK(proc[q], landed, exposed) /\ proc'[q] = proc[q]
      BY <1>1, <1>11, <2>1, <3>1 DEF ReadersInv
    <3> QED
      BY <1>7, <3>2, ReaderKept
  <2> QED
    BY <2>1 DEF ReadersInv
<1> QED
  BY <1>12, <1>13, <1>15, <1>20, <1>21 DEF PlaneInv

LEMMA AppendHolds ==
  ASSUME PlaneInv, NEW p \in Procs, AppendRow(p) \/ AppendRest(p)
  PROVE  PlaneInv'
<1> DEFINE row == proc[p].row
<1>1. Writing(p) => proc[p] = [at |-> proc[p].at, row |-> row] /\ WriterOK(proc[p], files, issued, landed)
  <2> SUFFICES ASSUME Writing(p)
               PROVE  proc[p] = [at |-> proc[p].at, row |-> row] /\ WriterOK(proc[p], files, issued, landed)
    OBVIOUS
  <2>1. ProcShape(proc[p]) /\ WriterOK(proc[p], files, issued, landed)
    BY DEF PlaneInv, TypeInv, WritersInv
  <2>2. proc[p].at \in {"append", "half"}
    BY DEF Writing
  <2>3. Idle.at = "idle"
    BY DEF Idle
  <2>4. proc[p] # Idle
    BY <2>2, <2>3
  <2> HIDE DEF row
  <2>5. proc[p] = [at |-> proc[p].at, row |-> proc[p].row]
    <3>1. CASE proc[p] = [at |-> "reading", plane |-> proc[p].plane, repo |-> proc[p].repo,
                          since |-> proc[p].since, left |-> proc[p].left,
                          rows |-> proc[p].rows, before |-> proc[p].before]
      <4>1. proc[p].at = "reading"
        BY <3>1
      <4> QED
        BY <2>2, <4>1
    <3> QED
      BY <2>1, <2>4, <3>1, Zenon DEF ProcShape
  <2> QED
    BY <2>1, <2>5 DEF row
<1>2. CASE AppendRow(p) /\ row.long
  <2> DEFINE x == [at |-> "half", row |-> row]
  <2>1. Writing(p) /\ proc[p].at = "append" /\ proc' = [proc EXCEPT ![p].at = "half"]
    BY <1>2 DEF AppendRow, Writing
  <2>2. proc' = [proc EXCEPT ![p] = x]
    <3>1. proc' = [proc EXCEPT ![p] = [proc[p] EXCEPT !.at = "half"]]
      BY <2>1
    <3>2. PICK at, r : proc[p] = [at |-> at, row |-> r]
      BY <1>1, <2>1
    <3>3. [proc[p] EXCEPT !.at = "half"] = [at |-> "half", row |-> r] /\ r = row
      BY <3>2
    <3> QED
      BY <3>1, <3>3
  <2>3. /\ Extend(row, "head") /\ exposed' = exposed \cup Exposes(row) /\ landed' = landed
        /\ UNCHANGED <<today, issued>>
    BY <1>2 DEF AppendRow
  <2>4. proc[p].at # "half" /\ row.long
    BY <1>2, <2>1
  <2> HIDE DEF row
  <2>5. row = proc[p].row
    BY DEF row
  <2> QED
    BY <2>1, <2>2, <2>3, <2>4, <2>5, PieceWritten
<1>3. CASE AppendRow(p) /\ ~row.long
  <2>1. Writing(p) /\ proc[p].at = "append" /\ proc' = [proc EXCEPT ![p] = Idle]
    BY <1>3 DEF AppendRow, Writing
  <2>2. /\ Extend(row, "whole") /\ exposed' = exposed \cup Exposes(row) /\ landed' = landed \cup {row}
        /\ UNCHANGED <<today, issued>>
    BY <1>3 DEF AppendRow
  <2> QED
    BY <1>3, <2>1, <2>2, PieceWritten
<1>4. CASE AppendRest(p)
  <2>1. Writing(p) /\ proc[p].at = "half" /\ proc' = [proc EXCEPT ![p] = Idle]
    BY <1>4 DEF AppendRest, Writing
  <2>2. /\ Extend(row, "tail") /\ exposed' = exposed \cup Exposes(row) /\ landed' = landed \cup {row}
        /\ UNCHANGED <<today, issued>>
    BY <1>4 DEF AppendRest
  <2>3. row.long
    BY <1>1, <2>1 DEF WriterOK
  <2> QED
    BY <2>1, <2>2, <2>3, PieceWritten
<1> QED
  BY <1>2, <1>3, <1>4

LEMMA PlaneStep == PlaneInv /\ [Next]_vars => PlaneInv'
<1> SUFFICES ASSUME PlaneInv, [Next]_vars PROVE PlaneInv'
  OBVIOUS
<1>1. today \in Days
  BY DEF PlaneInv, TypeInv
<1>2. ASSUME NEW p \in Procs, HookCall(p) PROVE PlaneInv'
  BY <1>2, EmitHolds DEF HookCall
<1>3. ASSUME NEW p \in Procs, RecordVerdict(p) PROVE PlaneInv'
  BY <1>3, EmitHolds DEF RecordVerdict
<1>4. ASSUME NEW p \in Procs, AppendRow(p) \/ AppendRest(p) PROVE PlaneInv'
  BY <1>4, AppendHolds
<1>5. ASSUME NEW p \in Procs, Stop(p) PROVE PlaneInv'
  BY <1>5, IdleAgain DEF Stop
<1>6. ASSUME NEW p \in Procs, NEW dir \in Dirs, NEW since \in Days, StartHealth(p, dir, since) PROVE PlaneInv'
  BY <1>6, StartHolds
<1>7. ASSUME NEW p \in Procs, ReadFile(p) PROVE PlaneInv'
  BY <1>7, ReadHolds
<1>8. ASSUME NEW p \in Procs, EndHealth(p) PROVE PlaneInv'
  BY <1>8, IdleAgain DEF EndHealth
<1>9. ASSUME NEW dir \in Dirs, GitInit(dir) PROVE PlaneInv'
  BY <1>1, <1>9, NothingMoves DEF GitInit
<1>10. CASE NextDay
  <2>1. today' \in Days
    BY <1>10 DEF NextDay
  <2> QED
    BY <1>10, <2>1, NothingMoves DEF NextDay
<1>11. CASE UNCHANGED vars
  BY <1>1, <1>11, NothingMoves DEF vars
<1> QED
  BY <1>2, <1>3, <1>4, <1>5, <1>6, <1>7, <1>8, <1>9, <1>10, <1>11 DEF Next

-------------------------------------------------------------------------------
(***************************************************************************)
(* The report                                                              *)
(***************************************************************************)

\* In a sequence without repetition there are as many places as elements.
LEMMA Counted ==
  ASSUME NEW S, NEW R, R \in Seq(S), IsInjective(R), NEW W, W \subseteq ToSet(R),
         NEW D, D = {i \in DOMAIN R : R[i] \in W}
  PROVE  IsFiniteSet(W) /\ Cardinality(W) \in Nat /\ Cardinality(D) = Cardinality(W)
<1> DEFINE F == [i \in D |-> R[i]]
<1>1. Len(R) \in Nat /\ DOMAIN R = 1..Len(R)
  OBVIOUS
<1>2. IsFiniteSet(D)
  <2>1. D \in SUBSET (1..Len(R))
    BY <1>1
  <2>2. IsFiniteSet(1..Len(R))
    BY <1>1, FS_Interval
  <2> QED
    BY <2>1, <2>2, FS_Subset
<1>3. F \in Bijection(D, W)
  <2>1. F \in [D -> W]
    OBVIOUS
  <2>2. \A a, b \in D : F[a] = F[b] => a = b
    BY DEF IsInjective
  <2>3. \A y \in W : \E i \in D : F[i] = y
    BY DEF ToSet
  <2>4. DOMAIN F = D
    OBVIOUS
  <2> HIDE DEF F
  <2> QED
    BY <2>1, <2>2, <2>3, <2>4 DEF Bijection, Injection, Surjection, IsInjective
<1>4. ExistsBijection(D, W)
  BY <1>3 DEF ExistsBijection
<1> HIDE DEF F
<1>5. IsFiniteSet(W) /\ Cardinality(W) = Cardinality(D)
  BY <1>2, <1>4, FS_Bijection
<1>6. Cardinality(W) \in Nat
  BY <1>5, FS_CardinalityType
<1> QED
  BY <1>5, <1>6

LEMMA LengthCounts ==
  ASSUME NEW S, NEW R, R \in Seq(S), IsInjective(R)
  PROVE  Cardinality(ToSet(R)) = Len(R)
<1>1. Len(R) \in Nat /\ DOMAIN R = 1..Len(R)
  OBVIOUS
<1>2. {i \in DOMAIN R : R[i] \in ToSet(R)} = 1..Len(R)
  BY <1>1 DEF ToSet
<1>3. Cardinality(1..Len(R)) = Len(R)
  BY <1>1, FS_Interval
<1>4. Cardinality(1..Len(R)) = Cardinality(ToSet(R))
  <2> DEFINE D == 1..Len(R)
             W == ToSet(R)
  <2>1. D = {i \in DOMAIN R : R[i] \in W} /\ W \subseteq ToSet(R)
    BY <1>2
  <2> HIDE DEF D, W
  <2>2. Cardinality(D) = Cardinality(W)
    BY <2>1, Counted
  <2> QED
    BY <2>2 DEF D, W
<1> QED
  BY <1>3, <1>4

LEMMA ReportCounts == PlaneInv => HealthCountsRecorded
<1> SUFFICES ASSUME PlaneInv, NEW p \in Procs, proc[p].at = "reading", proc[p].left = {}
             PROVE  LET r == Rollup(proc[p].rows)
                        certain == Due(proc[p].before \ exposed, proc[p].repo, proc[p].since)
                        possible == Due(landed, proc[p].repo, proc[p].since)
                    IN  /\ Cardinality(certain) <= r.verdicts /\ r.verdicts <= Cardinality(possible)
                        /\ \A a \in {row.verdict.author : row \in certain} :
                             /\ a \in DOMAIN r.byAuthor
                             /\ Cardinality({row \in certain : row.verdict.author = a}) <= r.byAuthor[a]
                        /\ Cardinality({row \in certain : row.verdict.escape}) <= r.escapes
                        /\ r.escapes <= Cardinality({row \in possible : row.verdict.escape})
  BY DEF HealthCountsRecorded
<1> DEFINE x == proc[p]
           R == x.rows
           T == ToSet(R)
           certain == Due(x.before \ exposed, x.repo, x.since)
           possible == Due(landed, x.repo, x.since)
           r == Rollup(R)
<1>1. ReaderOK(x, landed, exposed) /\ x.left = {} /\ IsFiniteSet(landed)
  BY DEF PlaneInv, ReadersInv, TypeInv
<1>2. R \in Seq(landed) /\ IsInjective(R)
  BY <1>1 DEF ReaderOK
<1>3. certain \subseteq T
  BY <1>1 DEF ReaderOK, Due, Counts
<1>4. T \subseteq possible
  <2>1. \A i \in 1..Len(R) : Counts(R[i], x.repo, x.since) /\ R[i] \in landed
    BY <1>1, <1>2 DEF ReaderOK
  <2>2. DOMAIN R = 1..Len(R)
    BY <1>2
  <2> QED
    BY <2>1, <2>2 DEF ToSet, Due, Counts
<1>5. IsFiniteSet(possible) /\ possible \subseteq landed
  <2>1. possible \in SUBSET landed
    BY DEF Due
  <2> HIDE DEF possible
  <2> QED
    BY <1>1, <2>1, FS_Subset
<1>6. r.verdicts = Len(R)
      /\ r.byAuthor = [a \in {row.verdict.author : row \in T} |-> Cardinality({i \in DOMAIN R : R[i].verdict.author = a})]
      /\ r.escapes = Cardinality({i \in DOMAIN R : R[i].verdict.escape})
  BY DEF Rollup
<1> HIDE DEF x, R, T, certain, possible, r
<1>7. IsFiniteSet(T) /\ T \subseteq landed
  BY <1>4, <1>5, FS_Subset
<1>8. Cardinality(certain) <= r.verdicts /\ r.verdicts <= Cardinality(possible)
  BY <1>2, <1>3, <1>4, <1>5, <1>6, <1>7, FS_Subset, LengthCounts DEF T
<1>9. ASSUME NEW W, W \subseteq T
      PROVE  Cardinality({i \in DOMAIN R : R[i] \in W}) = Cardinality(W) /\ IsFiniteSet(W)
  <2> DEFINE D == {i \in DOMAIN R : R[i] \in W}
  <2>1. D = {i \in DOMAIN R : R[i] \in W} /\ W \subseteq ToSet(R)
    BY <1>9 DEF T
  <2> HIDE DEF D
  <2>2. Cardinality(D) = Cardinality(W) /\ IsFiniteSet(W)
    BY <1>2, <2>1, Counted
  <2> QED
    BY <2>2 DEF D
<1>10. \A i \in DOMAIN R : R[i] \in T
  BY DEF T, ToSet
<1>11. ASSUME NEW a \in {row.verdict.author : row \in certain}
       PROVE  /\ a \in DOMAIN r.byAuthor
              /\ Cardinality({row \in certain : row.verdict.author = a}) <= r.byAuthor[a]
  <2> DEFINE W == {row \in T : row.verdict.author = a}
             C == {row \in certain : row.verdict.author = a}
  <2>1. a \in {row.verdict.author : row \in T}
    BY <1>3
  <2>2. {i \in DOMAIN R : R[i].verdict.author = a} = {i \in DOMAIN R : R[i] \in W}
    BY <1>10
  <2>3. r.byAuthor[a] = Cardinality({i \in DOMAIN R : R[i] \in W})
    BY <1>6, <2>1, <2>2
  <2>4. W \subseteq T /\ C \in SUBSET W
    BY <1>3
  <2> HIDE DEF W, C
  <2>5. Cardinality(C) <= r.byAuthor[a]
    BY <1>9, <2>3, <2>4, FS_Subset
  <2>6. a \in DOMAIN r.byAuthor
    BY <1>6, <2>1
  <2> QED
    BY <2>5, <2>6 DEF C
<1>12. /\ Cardinality({row \in certain : row.verdict.escape}) <= r.escapes
       /\ r.escapes <= Cardinality({row \in possible : row.verdict.escape})
  <2> DEFINE W == {row \in T : row.verdict.escape}
             C == {row \in certain : row.verdict.escape}
             P == {row \in possible : row.verdict.escape}
  <2>1. {i \in DOMAIN R : R[i].verdict.escape} = {i \in DOMAIN R : R[i] \in W}
    BY <1>10
  <2>2. r.escapes = Cardinality({i \in DOMAIN R : R[i] \in W})
    BY <1>6, <2>1
  <2>3. W \subseteq T /\ C \in SUBSET W /\ W \in SUBSET P /\ P \in SUBSET possible
    BY <1>3, <1>4
  <2> HIDE DEF W, C, P
  <2>4. Cardinality(C) <= r.escapes /\ r.escapes <= Cardinality(P)
    BY <1>5, <1>9, <2>2, <2>3, FS_Subset
  <2> QED
    BY <2>4 DEF C, P
<1> QED
  BY <1>8, <1>11, <1>12 DEF certain, possible, r, R, x

(***************************************************************************)
(* Whatever stops the producers and whenever they write, whenever a        *)
(* directory becomes a git repository, and however many health reports are *)
(* made meanwhile, a report counts every verdict that was written in its   *)
(* repository before it was asked for, unless its line came to be shared,  *)
(* counts none twice and none that was not recorded, by author and by      *)
(* escape too.  It rests on what the files hold: a row is in one file,     *)
(* once, in at most two pieces, and only a row that shares a line has      *)
(* something else between its two.  (health.py:9-17, disk.py:26-33)        *)
(***************************************************************************)
THEOREM HealthCountsRecordedAlways == Spec => []HealthCountsRecorded
<1>1. Init => PlaneInv
  BY InitPlane
<1>2. PlaneInv /\ [Next]_vars => PlaneInv'
  BY PlaneStep
<1>3. PlaneInv => HealthCountsRecorded
  BY ReportCounts
<1> QED
  BY <1>1, <1>2, <1>3, PTL DEF Spec

===============================================================================
