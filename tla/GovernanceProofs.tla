--------------------------- MODULE GovernanceProofs ---------------------------
(***************************************************************************)
(* Theorems about the two records a project governs itself by.  Decisions: *)
(* for any decisions, items, repositories, manifests, requests and bounds. *)
(* Identities: for any personas, working copies, pull requests and numbers *)
(* of keys.                                                                *)
(***************************************************************************)
EXTENDS Decisions, Enrollment, TLAPS

--------------------------------------------------------------------------------
(***************************************************************************)
(* The index                                                               *)
(***************************************************************************)

\* Parks stand in a block, and a block in an entry that is there.
EntryOK(entry) ==
    /\ entry \in Entry
    /\ entry.block = "none" => entry.parks = {}
    /\ entry.headings = 0 => entry.block = "none"

FileOK(file) == file \in [Numbers -> Entry] /\ \A n \in Numbers : EntryOK(file[n])

\* The parks of one text are in another.
Within(old, new) == \A n \in Numbers : old[n].parks \subseteq new[n].parks

\* What a reconcile holds between its steps: the text it read and the parks it is to write
\* have all that is committed; once written, they are in the index.
CmdOK ==
    /\ cmd.pc \in {"idle", "write", "commit"}
    /\ cmd.pc # "idle" => cmd.n \in Numbers /\ cmd.parks \subseteq Parks
    /\ cmd.pc = "write" =>
         /\ FileOK(cmd.file) /\ Within(head, cmd.file)
         /\ HasEntry(cmd.file, cmd.n) /\ head[cmd.n].parks \subseteq cmd.parks
    /\ cmd.pc = "commit" => cmd.parks \subseteq index[cmd.n].parks

\* Origin has all that the clone's branch had in common with it, and all that a stopped
\* rebase builds on.
OriginOK ==
    /\ FileOK(origin) /\ FileOK(base) /\ Within(base, origin)
    /\ FileOK(rebase.branch) /\ FileOK(rebase.onto)
    /\ rebase.on => Within(rebase.onto, origin)

IndexInv ==
    /\ FileOK(index) /\ FileOK(head) /\ Within(head, index)
    /\ OriginOK
    /\ CmdOK
    /\ recorded \subseteq Numbers \X Parks
    /\ ParksAreRecorded

LEMMA NoEntryOK == EntryOK(NoEntry) /\ EntryOK([NoEntry EXCEPT !.headings = 1])
<1>1. NoEntry \in Entry /\ NoEntry.block = "none" /\ NoEntry.parks = {}
  BY DEF NoEntry, Entry
<1> PICK e \in Entry : e = NoEntry
  BY <1>1
<1>2. [e EXCEPT !.headings = 1] \in Entry
  BY DEF Entry
<1>3. [e EXCEPT !.headings = 1].block = "none" /\ [e EXCEPT !.headings = 1].parks = {}
  BY <1>1 DEF Entry
<1> QED
  BY <1>1, <1>2, <1>3 DEF EntryOK

\* A text with one entry put in another's place.
Changed(file, n, entry) == [file EXCEPT ![n] = entry]

LEMMA FileChanged ==
  \A file, entry : \A n \in Numbers : FileOK(file) /\ EntryOK(entry) =>
    /\ FileOK(Changed(file, n, entry))
    /\ Changed(file, n, entry)[n] = entry
    /\ \A m \in Numbers : m # n => Changed(file, n, entry)[m] = file[m]
<1> SUFFICES ASSUME NEW file, NEW entry, NEW n \in Numbers, FileOK(file), EntryOK(entry)
             PROVE  /\ FileOK(Changed(file, n, entry))
                    /\ Changed(file, n, entry)[n] = entry
                    /\ \A m \in Numbers : m # n => Changed(file, n, entry)[m] = file[m]
  OBVIOUS
<1>1. file \in [Numbers -> Entry] /\ entry \in Entry /\ \A m \in Numbers : EntryOK(file[m])
  BY DEF FileOK, EntryOK
<1>2. /\ Changed(file, n, entry)[n] = entry
      /\ \A m \in Numbers : m # n => Changed(file, n, entry)[m] = file[m]
  BY <1>1 DEF Changed
<1>3. Changed(file, n, entry) \in [Numbers -> Entry]
  BY <1>1 DEF Changed
<1>4. \A m \in Numbers : EntryOK(Changed(file, n, entry)[m])
  BY <1>1, <1>2
<1> QED
  BY <1>2, <1>3, <1>4 DEF FileOK

\* The entry with its block written anew.
LEMMA Blocked ==
  ASSUME NEW e \in Entry, e.headings = 1, NEW parks \in SUBSET Parks
  PROVE  /\ EntryOK([e EXCEPT !.block = "map", !.parks = parks, !.loose = FALSE])
         /\ [e EXCEPT !.block = "map", !.parks = parks, !.loose = FALSE].parks = parks
<1>1. [e EXCEPT !.block = "map", !.parks = parks, !.loose = FALSE] \in Entry
  BY DEF Entry
<1>2. /\ [e EXCEPT !.block = "map", !.parks = parks, !.loose = FALSE].parks = parks
      /\ [e EXCEPT !.block = "map", !.parks = parks, !.loose = FALSE].block = "map"
      /\ [e EXCEPT !.block = "map", !.parks = parks, !.loose = FALSE].headings = 1
  BY DEF Entry
<1> QED
  BY <1>1, <1>2 DEF EntryOK

\* What a reconcile writes.
LEMMA UpsertOK ==
  ASSUME NEW file, FileOK(file), NEW n \in Numbers, HasEntry(file, n), NEW parks \in SUBSET Parks,
         NEW new, new = Upsert(file, n, parks)
  PROVE  /\ FileOK(new) /\ new[n].parks = parks
         /\ \A m \in Numbers : m # n => new[m] = file[m]
<1> DEFINE entry == [file[n] EXCEPT !.block = "map", !.parks = parks, !.loose = FALSE]
<1>1. file[n] \in Entry /\ file[n].headings = 1
  BY DEF FileOK, HasEntry
<1>2. EntryOK(entry) /\ entry.parks = parks
  BY <1>1, Blocked
<1>3. new = Changed(file, n, entry)
  BY DEF Upsert, Changed
<1> HIDE DEF entry
<1> QED
  BY <1>2, <1>3, FileChanged

\* What people do to an entry keeps its parks.
LEMMA EditOK ==
  ASSUME NEW old, EntryOK(old), NEW entry \in Breakage(old) \cup Repair(old) \cup HandWritten(old)
  PROVE  EntryOK(entry) /\ old.parks \subseteq entry.parks
<1>0. old \in Entry
  BY DEF EntryOK
<1>1. CASE entry \in Breakage(old)
  <2>1. \/ old.block = "map" /\ entry = [old EXCEPT !.block = "bad"]
        \/ old.headings = 1 /\ entry = [old EXCEPT !.headings = 2]
    BY <1>1 DEF Breakage
  <2> QED
    BY <1>0, <2>1 DEF EntryOK, Entry
<1>2. CASE entry \in Repair(old)
  <2>1. \/ old.block = "bad" /\ entry = [old EXCEPT !.block = "map"]
        \/ old.headings = 2 /\ entry = [old EXCEPT !.headings = 1]
    BY <1>2 DEF Repair, Unparsed
  <2> QED
    BY <1>0, <2>1 DEF EntryOK, Entry
<1>3. CASE entry \in HandWritten(old)
  <2>1. old.headings # 0
    BY <1>3 DEF HandWritten
  <2>2. \/ \E p \in HandParks : entry = [old EXCEPT !.block = "map", !.parks = old.parks \cup {p}]
        \/ entry = [old EXCEPT !.block = "map", !.loose = TRUE]
    BY <1>0, <1>3 DEF HandWritten, Entry
  <2>3. CASE entry = [old EXCEPT !.block = "map", !.loose = TRUE]
    BY <1>0, <2>1, <2>3 DEF EntryOK, Entry
  <2>4. ASSUME NEW p \in HandParks,
               entry = [old EXCEPT !.block = "map", !.parks = old.parks \cup {p}]
        PROVE  EntryOK(entry) /\ old.parks \subseteq entry.parks
    <3>1. old.parks \cup {p} \in SUBSET Parks
      BY <1>0, DecisionsAssumption DEF Entry
    <3> DEFINE more == old.parks \cup {p}
    <3>2. entry = [old EXCEPT !.block = "map", !.parks = more] /\ old.parks \subseteq more
      BY <2>4
    <3> HIDE DEF more
    <3>3. more \in SUBSET Parks
      BY <3>1 DEF more
    <3> QED
      BY <1>0, <2>1, <3>2, <3>3 DEF EntryOK, Entry
  <2> QED
    BY <2>2, <2>3, <2>4
<1> QED
  BY <1>1, <1>2, <1>3

\* The parks that a reconcile is to write have those of the entry it read.
LEMMA MergedOK ==
  ASSUME NEW entry, EntryOK(entry), ~Unparsed(entry), NEW parks \in SUBSET Parks
  PROVE  entry.parks \subseteq Merged(entry, parks) /\ Merged(entry, parks) \subseteq Parks
  BY DEF EntryOK, Entry, Unparsed, Merged, ParksOf

\* An entry that gets its heading, or one more, keeps its parks.
LEMMA HeadedOK ==
  ASSUME NEW old, EntryOK(old)
  PROVE  EntryOK([old EXCEPT !.headings = 1]) /\ [old EXCEPT !.headings = 1].parks = old.parks
<1>1. old \in Entry
  BY DEF EntryOK
<1> QED
  BY <1>1 DEF EntryOK, Entry

LEMMA WithinTransitive ==
  \A a, b, c : Within(a, b) /\ Within(b, c) => Within(a, c)
  BY DEF Within

\* What a rebase that does not stop makes of the branch.
LEMMA ReplayedOK ==
  ASSUME IndexInv, NEW new, new = Replayed
  PROVE  FileOK(new) /\ Within(head, new)
<1>1. \A n \in Numbers : new[n] = IF n \in Ours THEN head[n] ELSE origin[n]
  BY DEF Replayed
<1>2. \A n \in Numbers : head[n].parks \subseteq new[n].parks
  <2> TAKE n \in Numbers
  <2>1. CASE n \in Ours
    BY <1>1, <2>1
  <2>2. CASE n \notin Ours
    <3>1. head[n] = base[n] /\ new[n] = origin[n]
      BY <1>1, <2>2 DEF Ours
    <3> QED
      BY <3>1 DEF IndexInv, OriginOK, Within
  <2> QED
    BY <2>1, <2>2
<1>3. \A n \in Numbers : new[n] \in Entry /\ EntryOK(new[n])
  BY <1>1 DEF IndexInv, OriginOK, FileOK, EntryOK
<1>4. new \in [Numbers -> Entry]
  BY <1>3 DEF Replayed
<1> QED
  BY <1>2, <1>3, <1>4 DEF FileOK, Within

\* An entry with the markers of a conflict has the parks of both sides.
LEMMA MarkedOK ==
  ASSUME IndexInv, NEW n \in Numbers
  PROVE  EntryOK(Marked(n)) /\ origin[n].parks \subseteq Marked(n).parks
<1> DEFINE headings == IF head[n].headings = 1 /\ base[n].headings = 1 THEN 1 ELSE 2
           block == IF head[n].block = "none" /\ origin[n].block = "none" THEN "none" ELSE "bad"
           parks == head[n].parks \cup origin[n].parks
<1>1. EntryOK(head[n]) /\ EntryOK(origin[n])
  BY DEF IndexInv, OriginOK, FileOK
<1>2. /\ headings \in 0..2 /\ headings # 0 /\ block \in {"none", "map", "bad"}
      /\ parks \in SUBSET Parks /\ origin[n].parks \subseteq parks
      /\ block = "none" => parks = {}
  BY <1>1 DEF EntryOK, Entry
<1>3. Marked(n) = [headings |-> headings, block |-> block, parks |-> parks, loose |-> FALSE]
  BY DEF Marked
<1> HIDE DEF headings, block, parks
<1> QED
  BY <1>2, <1>3 DEF EntryOK, Entry

\* What a rebase that stops leaves has all that origin has.
LEMMA StoppedOK ==
  ASSUME IndexInv, NEW new, Stopped(new)
  PROVE  FileOK(new) /\ Within(origin, new)
<1>0. FileOK(origin) /\ FileOK(head) /\ FileOK(base)
  BY DEF IndexInv, OriginOK
<1>1. ASSUME NEW n \in Numbers, NEW entry, EntryOK(entry), origin[n].parks \subseteq entry.parks,
             new = Changed(origin, n, entry)
      PROVE  FileOK(new) /\ Within(origin, new)
  <2>1. /\ FileOK(new) /\ new[n] = entry
        /\ \A m \in Numbers : m # n => new[m] = origin[m]
    BY <1>0, <1>1, FileChanged
  <2> QED
    BY <1>1, <2>1 DEF Within
<1>3. ASSUME NEW n \in Numbers, new = [origin EXCEPT ![n] = Marked(n)]
      PROVE  FileOK(new) /\ Within(origin, new)
  <2>1. EntryOK(Marked(n)) /\ origin[n].parks \subseteq Marked(n).parks
    BY MarkedOK
  <2>2. new = Changed(origin, n, Marked(n))
    BY <1>3 DEF Changed
  <2> QED
    BY <1>1, <2>1, <2>2
<1>4. ASSUME NEW n \in Numbers, NEW m \in Numbers, origin[m].headings > 0, origin[m].block = "none",
             new = [origin EXCEPT ![m] = [@ EXCEPT !.block = "map", !.parks = head[n].parks]]
      PROVE  FileOK(new) /\ Within(origin, new)
  <2> DEFINE old == origin[m]
             parks == head[n].parks
             entry == [old EXCEPT !.block = "map", !.parks = parks]
  <2>1. parks \in SUBSET Parks
    BY <1>0 DEF FileOK, Entry
  <2>2. old \in Entry /\ old.headings > 0 /\ old.parks = {}
    BY <1>0, <1>4 DEF FileOK, EntryOK
  <2>3. new = Changed(origin, m, entry)
    BY <1>0, <1>4 DEF Changed
  <2>4. entry \in Entry /\ entry.block = "map" /\ entry.headings = old.headings
    <3> HIDE DEF old, parks
    <3> QED
      BY <2>1, <2>2 DEF Entry
  <2>5. EntryOK(entry)
    BY <2>2, <2>4 DEF EntryOK
  <2>6. origin[m].parks \subseteq entry.parks
    BY <2>2
  <2> QED
    BY <1>1, <2>3, <2>5, <2>6
<1>5. ASSUME NEW n \in Numbers, base[n].headings = 0, origin[n] = base[n],
             new = [origin EXCEPT ![n] = head[n]]
      PROVE  FileOK(new) /\ Within(origin, new)
  <2>1. EntryOK(head[n]) /\ origin[n].parks = {}
    BY <1>0, <1>5 DEF FileOK, EntryOK
  <2>2. new = Changed(origin, n, head[n])
    BY <1>5 DEF Changed
  <2> QED
    BY <1>1, <2>1, <2>2
<1> QED
  BY <1>3, <1>4, <1>5 DEF Stopped, Ours, Theirs

\* A rebase that people bring to its end has the parks of both sides.
LEMMA JoinedOK ==
  ASSUME NEW mine, NEW other, FileOK(mine), FileOK(other), NEW new, new = Joined(mine, other)
  PROVE  FileOK(new) /\ Within(mine, new)
<1>1. ASSUME NEW n \in Numbers
      PROVE  EntryOK(new[n]) /\ mine[n].parks \subseteq new[n].parks
  <2> DEFINE parks == mine[n].parks \cup other[n].parks
             block == IF parks = {} THEN "none" ELSE "map"
  <2>1. EntryOK(mine[n]) /\ parks \in SUBSET Parks /\ mine[n].parks \subseteq parks
    BY DEF FileOK, EntryOK, Entry
  <2>2. block \in {"none", "map", "bad"} /\ (block = "none" => parks = {})
    OBVIOUS
  <2>3. new[n] = IF mine[n] = other[n] THEN mine[n]
                 ELSE [headings |-> 1, block |-> block, parks |-> parks, loose |-> FALSE]
    BY DEF Joined
  <2> HIDE DEF parks, block
  <2> QED
    BY <2>1, <2>2, <2>3 DEF EntryOK, Entry
<1>2. new \in [Numbers -> Entry]
  BY <1>1 DEF Joined, EntryOK
<1> QED
  BY <1>1, <1>2 DEF FileOK, Within

LEMMA InitIndex == DecisionsInit => IndexInv
<1> SUFFICES ASSUME DecisionsInit PROVE IndexInv
  OBVIOUS
<1>1. \A n \in Numbers : EntryOK(index[n])
  BY NoEntryOK DEF DecisionsInit
<1>2. FileOK(index)
  BY <1>1 DEF DecisionsInit, FileOK, EntryOK
<1> QED
  <2>1. FileOK([n \in Numbers |-> NoEntry])
    BY NoEntryOK DEF FileOK, EntryOK
  <2>2. OriginOK
    BY <1>2, <2>1 DEF DecisionsInit, OriginOK, Within, NoRebase
  <2> QED
    BY <1>2, <2>2 DEF DecisionsInit, IndexInv, Within, CmdOK, NoCmd, ParksAreRecorded

\* A step that leaves what others see, and a rebase, alone.
LEMMA QuietOrigin == OriginOK /\ UNCHANGED <<origin, base, rebase>> => OriginOK'
  BY DEF OriginOK, FileOK, Within

\* A step that leaves the index, its commits and the reconcile alone.
LEMMA QuietIndex ==
  IndexInv /\ UNCHANGED <<index, head, origin, base, rebase, cmd, recorded>> => IndexInv'
<1> SUFFICES ASSUME IndexInv, UNCHANGED <<index, head, origin, base, rebase, cmd, recorded>>
             PROVE  IndexInv'
  OBVIOUS
<1>1. OriginOK'
  BY QuietOrigin DEF IndexInv
<1> QED
  BY <1>1 DEF IndexInv, FileOK, Within, CmdOK, HasEntry, ParksAreRecorded, Branch

LEMMA NextIndex == IndexInv /\ [DecisionsNext]_decisionsVars => IndexInv'
<1> SUFFICES ASSUME IndexInv, [DecisionsNext]_decisionsVars PROVE IndexInv'
  OBVIOUS
<1> USE DEF IndexInv
<1>1. ASSUME NEW n \in Numbers, NEW parks \in Requests, Read(n, parks) PROVE IndexInv'
  <2>1. /\ HasEntry(index, n) /\ ~Unparsed(index[n])
        /\ cmd' = [pc |-> "write", n |-> n, parks |-> Merged(index[n], parks), file |-> index]
        /\ UNCHANGED <<index, head, origin, base, rebase, recorded>>
    BY <1>1 DEF Read, Published, Refuses
  <2>2. parks \in SUBSET Parks
    BY DecisionsAssumption DEF CliParks
  <2>3. index[n].parks \subseteq Merged(index[n], parks) /\ Merged(index[n], parks) \subseteq Parks
    BY <2>1, <2>2, MergedOK DEF FileOK
  <2>4. head[n].parks \subseteq Merged(index[n], parks)
    BY <2>3 DEF Within
  <2>5. CmdOK'
    BY <2>1, <2>3, <2>4 DEF CmdOK, FileOK, Within, HasEntry
  <2> QED
    BY <2>1, <2>5, QuietOrigin DEF FileOK, Within, ParksAreRecorded, Branch
<1>2. CASE Write
  <2>1. /\ cmd.pc = "write" /\ index' = Upsert(cmd.file, cmd.n, cmd.parks)
        /\ cmd' = [cmd EXCEPT !.pc = "commit", !.file = NoCmd.file]
        /\ UNCHANGED <<head, origin, base, rebase, recorded>>
    BY <1>2 DEF Write, Published
  <2>2. /\ cmd.n \in Numbers /\ cmd.parks \in SUBSET Parks /\ FileOK(cmd.file)
        /\ Within(head, cmd.file) /\ HasEntry(cmd.file, cmd.n)
        /\ head[cmd.n].parks \subseteq cmd.parks
    BY <2>1 DEF CmdOK
  <2>3. /\ FileOK(index') /\ index'[cmd.n].parks = cmd.parks
        /\ \A m \in Numbers : m # cmd.n => index'[m] = cmd.file[m]
    BY <2>1, <2>2, UpsertOK
  <2>4. Within(head, index')
    BY <2>2, <2>3 DEF Within
  <2> QED
    BY <2>1, <2>2, <2>3, <2>4, QuietOrigin DEF CmdOK, FileOK, Within, ParksAreRecorded, Branch
<1>3. CASE Commit
  <2>1. cmd.pc = "commit" /\ cmd' = NoCmd /\ UNCHANGED <<index, origin, base, rebase>>
    BY <1>3 DEF Commit, Published
  <2>2. CmdOK' /\ OriginOK'
    BY <2>1, QuietOrigin DEF CmdOK, NoCmd
  <2>3. CASE index = head
    BY <1>3, <2>1, <2>2, <2>3 DEF Commit, FileOK, Within, ParksAreRecorded, Branch
  <2>4. CASE index # head
    <3>1. /\ head' = index
          /\ recorded' = IF rebase.on THEN recorded
                          ELSE recorded \cup {<<cmd.n, p>> : p \in cmd.parks}
      BY <1>3, <2>4 DEF Commit
    <3>2. cmd.n \in Numbers /\ cmd.parks \subseteq Parks /\ cmd.parks \subseteq index[cmd.n].parks
      BY <2>1 DEF CmdOK
    <3>3. recorded' \subseteq Numbers \X Parks
      BY <3>1, <3>2
    <3>4. CASE rebase.on
      BY <2>1, <2>2, <3>1, <3>4 DEF FileOK, Within, ParksAreRecorded, Branch
    <3>5. CASE ~rebase.on
      <4>1. ASSUME NEW o \in recorded' PROVE o[2] \in head'[o[1]].parks
        <5>1. CASE o \in recorded
          <6>1. o[1] \in Numbers
            BY <5>1
          <6>2. o[2] \in head[o[1]].parks
            BY <3>5, <5>1 DEF ParksAreRecorded, Branch
          <6> QED
            BY <3>1, <6>1, <6>2 DEF Within
        <5>2. CASE o \in {<<cmd.n, p>> : p \in cmd.parks}
          BY <3>1, <3>2, <5>2
        <5> QED
          BY <3>1, <3>5, <5>1, <5>2
      <4> QED
        BY <2>1, <2>2, <3>1, <3>3, <3>5, <4>1 DEF FileOK, Within, ParksAreRecorded, Branch
    <3> QED
      BY <3>4, <3>5
  <2> QED
    BY <2>3, <2>4
<1>4. CASE Die
  <2>1. cmd' = NoCmd /\ UNCHANGED <<index, head, origin, base, rebase, recorded>>
    BY <1>4 DEF Die, Published
  <2> QED
    BY <2>1, QuietOrigin DEF NoCmd, CmdOK, FileOK, Within, ParksAreRecorded, Branch
<1>5. ASSUME NEW n \in Numbers, NEW outcome, DecisionNew(n, outcome) PROVE IndexInv'
  <2>1. cmd.pc = "idle" /\ index[n].headings = 0 /\ UNCHANGED <<cmd, recorded>>
    BY <1>5 DEF DecisionNew
  <2>2. CmdOK'
    BY <2>1 DEF CmdOK
  <2>3. CASE NewKept(n, outcome = "pushed")
    <3> DEFINE entry == [index[n] EXCEPT !.headings = 1]
    <3>1. index' = Changed(index, n, entry) /\ head' = index' /\ UNCHANGED rebase
      BY <2>3 DEF NewKept, Changed
    <3>2. EntryOK(entry) /\ entry.parks = index[n].parks
      BY HeadedOK DEF FileOK
    <3> HIDE DEF entry
    <3>3. /\ FileOK(index') /\ index'[n] = entry
          /\ \A m \in Numbers : m # n => index'[m] = index[m]
      BY <3>1, <3>2, FileChanged
    <3>4. Within(head, index')
      BY <3>2, <3>3 DEF Within
    <3>5. ParksAreRecorded'
      BY <2>1, <3>1, <3>4 DEF ParksAreRecorded, Within, Branch
    <3>6. \/ UNCHANGED <<origin, base>>
          \/ ~rebase.on /\ origin' = head' /\ base' = head'
      BY <2>3 DEF NewKept, Published
    <3>7. OriginOK'
      BY <3>1, <3>3, <3>6, QuietOrigin DEF OriginOK, FileOK, Within
    <3> QED
      BY <2>1, <2>2, <3>1, <3>3, <3>5, <3>7 DEF FileOK, Within
  <2>4. CASE NewRejected
    <3>1. CASE index' = head /\ UNCHANGED <<head, origin, base, rebase>>
      BY <2>1, <2>2, <3>1, QuietOrigin DEF FileOK, Within, ParksAreRecorded, Branch
    <3>2. CASE /\ ~rebase.on /\ index' = Replayed /\ head' = Replayed
               /\ base' = origin /\ UNCHANGED <<origin, rebase>>
      <4>1. FileOK(index') /\ Within(head, index') /\ head' = index'
        BY <3>2, ReplayedOK
      <4>2. ParksAreRecorded'
        BY <2>1, <3>2, <4>1 DEF ParksAreRecorded, Within, Branch
      <4>3. OriginOK'
        BY <3>2 DEF OriginOK, FileOK, Within
      <4> QED
        BY <2>1, <2>2, <4>1, <4>2, <4>3 DEF FileOK, Within
    <3>3. CASE /\ ~rebase.on /\ Stopped(index') /\ head' = origin
               /\ rebase' = [on |-> TRUE, branch |-> head, onto |-> origin]
               /\ UNCHANGED <<origin, base>>
      <4>1. FileOK(index') /\ Within(origin, index')
        BY <3>3, StoppedOK
      <4>2. rebase'.branch = head /\ rebase'.onto = origin /\ rebase'.on
        BY <3>3
      <4>3. ParksAreRecorded'
        BY <2>1, <3>3, <4>2 DEF ParksAreRecorded, Branch
      <4>4. OriginOK'
        BY <3>3, <4>2 DEF OriginOK, FileOK, Within
      <4> QED
        BY <2>1, <2>2, <3>3, <4>1, <4>3, <4>4 DEF OriginOK, FileOK, Within
    <3> QED
      BY <2>4, <3>1, <3>2, <3>3 DEF NewRejected, Published
  <2> QED
    BY <1>5, <2>3, <2>4 DEF DecisionNew
<1>6. ASSUME NEW n \in Numbers, EditIndex(n) PROVE IndexInv'
  <2>1. PICK entry \in Breakage(index[n]) \cup Repair(index[n]) \cup HandWritten(index[n]) :
          index' = Changed(index, n, entry)
    BY <1>6 DEF EditIndex, Changed
  <2>2. EntryOK(entry) /\ index[n].parks \subseteq entry.parks
    BY <2>1, EditOK DEF FileOK
  <2>3. /\ FileOK(index') /\ index'[n] = entry
        /\ \A m \in Numbers : m # n => index'[m] = index[m]
    BY <2>1, <2>2, FileChanged
  <2>4. UNCHANGED <<head, origin, base, rebase, cmd, recorded>>
    BY <1>6 DEF EditIndex, Published
  <2>5. Within(index, index')
    BY <2>2, <2>3 DEF Within
  <2>6. Within(head, index')
    BY <2>5 DEF Within
  <2>7. CmdOK'
    BY <2>4, <2>5 DEF CmdOK, FileOK, Within, HasEntry
  <2> QED
    BY <2>3, <2>4, <2>6, <2>7, QuietOrigin DEF FileOK, Within, ParksAreRecorded, Branch
<1>7. CASE CommitByHand
  <2>1. /\ cmd.pc = "idle" /\ head' = index
        /\ UNCHANGED <<index, origin, base, rebase, cmd, recorded>>
    BY <1>7 DEF CommitByHand, Published
  <2>2. ParksAreRecorded'
    BY <2>1 DEF ParksAreRecorded, Within, Branch
  <2> QED
    BY <2>1, <2>2, QuietOrigin DEF CmdOK, FileOK, Within
<1>8. ASSUME \/ MoveBacklog
             \/ \E numbers \in {Numbers} \cup {{n} : n \in Numbers}, forge \in Forges :
                  CheckRead(numbers, forge)
             \/ \E o \in check.todo, reached \in BOOLEAN : CheckPark(o, reached)
             \/ CheckExit
             \/ CheckForgotten
             \/ UNCHANGED decisionsVars
      PROVE  IndexInv'
  <2>1. UNCHANGED <<index, head, origin, base, rebase, cmd, recorded>>
    BY <1>8 DEF Published, MoveBacklog, CheckRead, CheckPark, CheckExit, CheckForgotten, decisionsVars
  <2> QED
    BY <2>1, QuietIndex
<1>9. CASE EndRebase
  <2>1. /\ rebase.on /\ cmd.pc = "idle" /\ rebase' = NoRebase /\ head' = index'
        /\ UNCHANGED <<origin, cmd, recorded>>
        /\ \/ index' = rebase.branch /\ UNCHANGED base
           \/ index' = Joined(rebase.branch, head) /\ base' = rebase.onto
    BY <1>9 DEF EndRebase
  <2>2. FileOK(index') /\ Within(rebase.branch, index')
    <3>1. FileOK(rebase.branch) /\ FileOK(head)
      BY DEF OriginOK
    <3>2. CASE index' = rebase.branch
      BY <3>1, <3>2 DEF Within
    <3>3. CASE index' = Joined(rebase.branch, head)
      BY <3>1, <3>3, JoinedOK
    <3> QED
      BY <2>1, <3>2, <3>3
  <2>3. FileOK(rebase'.branch) /\ FileOK(rebase'.onto) /\ ~rebase'.on
    <3>1. FileOK([n \in Numbers |-> NoEntry])
      BY NoEntryOK DEF FileOK, EntryOK
    <3> QED
      BY <2>1, <3>1 DEF NoRebase
  <2>4. OriginOK'
    BY <2>1, <2>3 DEF OriginOK, FileOK, Within
  <2>5. ParksAreRecorded'
    BY <2>1, <2>2, <2>3 DEF ParksAreRecorded, Branch, Within
  <2> QED
    BY <2>1, <2>2, <2>4, <2>5 DEF CmdOK, FileOK, Within
<1>10. ASSUME NEW n \in Numbers, OthersPush(n) PROVE IndexInv'
  <2>1. UNCHANGED <<index, head, base, rebase, cmd, recorded>>
    BY <1>10 DEF OthersPush
  <2>2. FileOK(origin) /\ EntryOK(origin[n])
    BY DEF OriginOK, FileOK
  <2>3. FileOK(origin') /\ Within(origin, origin')
    <3>1. CASE origin' = [origin EXCEPT ![n].headings = 1]
      <4> DEFINE entry == [origin[n] EXCEPT !.headings = 1]
      <4>1. origin' = Changed(origin, n, entry)
        BY <3>1 DEF Changed
      <4>2. EntryOK(entry) /\ entry.parks = origin[n].parks
        BY <2>2, HeadedOK
      <4> HIDE DEF entry
      <4> QED
        BY <2>2, <4>1, <4>2, FileChanged DEF Within
    <3>2. ASSUME HasEntry(origin, n), ~Unparsed(origin[n]), NEW parks \in Requests,
                 origin' = Upsert(origin, n, Merged(origin[n], parks))
          PROVE  FileOK(origin') /\ Within(origin, origin')
      <4>1. parks \in SUBSET Parks
        BY DecisionsAssumption DEF CliParks
      <4>2. /\ origin[n].parks \subseteq Merged(origin[n], parks)
            /\ Merged(origin[n], parks) \in SUBSET Parks
        BY <2>2, <3>2, <4>1, MergedOK
      <4> QED
        BY <2>2, <3>2, <4>2, UpsertOK DEF Within
    <3> QED
      BY <1>10, <3>1, <3>2 DEF OthersPush
  <2>4. OriginOK'
    BY <2>1, <2>3 DEF OriginOK, FileOK, Within
  <2> QED
    BY <2>1, <2>4 DEF FileOK, Within, CmdOK, HasEntry, ParksAreRecorded, Branch
<1> QED
  BY <1>1, <1>2, <1>3, <1>4, <1>5, <1>6, <1>7, <1>8, <1>9, <1>10 DEF DecisionsNext

\* An obligation that a reconcile reported as recorded never leaves the committed index of the
\* clone's branch.
THEOREM ParksAreRecordedAlways == DecisionsSpec => []ParksAreRecorded
<1>1. IndexInv => ParksAreRecorded
  BY DEF IndexInv
<1> QED
  BY InitIndex, NextIndex, <1>1, PTL DEF DecisionsSpec

--------------------------------------------------------------------------------
(***************************************************************************)
(* The check                                                               *)
(***************************************************************************)

Check ==
    [pc: {"idle", "asking", "done"}, forge: Forges, todo: SUBSET (Numbers \X Parks),
     findings: SUBSET {Discharged, Outstanding, Unverifiable}, owed: SUBSET (Numbers \X Parks),
     parked: SUBSET (Numbers \X Parks), overlooked: SUBSET (Numbers \X Parks), exit: 0..2]

\* While every answer was a discharge, what is owed is still to be asked for, or was off the
\* table when it was, or has lines the check did not see.
CheckInv ==
    /\ check \in Check
    /\ check.pc = "asking" /\ IsGreen(check.findings) => 
         check.owed \subseteq check.todo \cup check.parked \cup check.overlooked
    /\ GreenMeansDischarged

\* A discharge is true when it is given, whatever the manifest, the forge and the reference,
\* but for lines that spell the item in another way.
LEMMA DischargeIsTrue ==
  ASSUME NEW park \in Parks, NEW forge, NEW reached, Finding(forge, reached, park) = Discharged
  PROVE  ~Offered(park) \/ Overlooked(park)
<1>1. CASE manifest.source = "github_issues"
  <2> DEFINE target == IssueRepo(park)
             at == IF target = NoRepo THEN Collab ELSE target
  <2>1. CheckParkForge(forge, reached, park) = Discharged
    BY <1>1 DEF Finding
  <2>2. /\ ~(park.repo # NoRepo /\ target = NoRepo)
        /\ ~tracker[<<at, park.item>>].open \/ (manifest.label /\ tracker[<<at, park.item>>].labelled)
    BY <2>1 DEF CheckParkForge, Discharged, Outstanding, Unverifiable
  <2>3. at = Means(park)
    BY <1>1, <2>2, DecisionsAssumption DEF IssueRepo, Means
  <2> QED
    BY <1>1, <2>2, <2>3 DEF Offered
<1>2. CASE manifest.source = "file"
  <2>1. CheckParkFile(park) = Discharged
    BY <1>2 DEF Finding
  <2>2. manifest.label /\ Referenced(park) = {TRUE}
    BY <2>1 DEF CheckParkFile, Discharged, Outstanding, Unverifiable
  <2>3. \A line \in lines[park.item] : line.spelling = park.spelling => line.marked = TRUE
    BY <2>2 DEF Referenced
  <2> QED
    BY <1>2, <2>2, <2>3 DEF Offered, Overlooked
<1>3. CASE manifest.source \notin {"github_issues", "file"}
  BY <1>3 DEF Finding, Discharged, Unverifiable
<1> QED
  BY <1>1, <1>2, <1>3

\* A check that reads an index it can parse, in a clone on its branch, is to ask for everything
\* owed.
LEMMA OwedIsAsked ==
  ASSUME IndexInv, ~rebase.on, NEW numbers \in SUBSET Numbers,
         \A n \in numbers : index[n].headings > 0 =>
             ~(index[n].headings > 1) /\ ~Unparsed(index[n])
  PROVE  \A o \in recorded : o[1] \in numbers =>
           o \in UNION {{<<n, p>> : p \in ParksOf(index[n])} :
                         n \in {m \in numbers : index[m].headings > 0}}
<1> SUFFICES ASSUME NEW o \in recorded, o[1] \in numbers
             PROVE  /\ index[o[1]].headings > 0
                    /\ o[2] \in ParksOf(index[o[1]])
                    /\ o = <<o[1], o[2]>>
  OBVIOUS
<1> DEFINE e == index[o[1]]
<1>1. o \in Numbers \X Parks /\ o[2] \in e.parks
  BY DEF IndexInv, ParksAreRecorded, Branch, Within
<1>2. EntryOK(e)
  BY <1>1 DEF IndexInv, FileOK
<1>3. e.parks # {} /\ e.block # "none" /\ e.headings # 0 /\ e.headings \in 0..2
  BY <1>1, <1>2 DEF EntryOK, Entry
<1>4. e.headings > 0
  BY <1>3
<1>5. e.block = "map"
  BY <1>2, <1>3, <1>4 DEF EntryOK, Entry, Unparsed
<1> QED
  BY <1>1, <1>4, <1>5 DEF ParksOf

LEMMA InitCheck == DecisionsInit => CheckInv
  BY DEF DecisionsInit, NoCheck, CheckInv, Check, GreenMeansDischarged, Forges

LEMMA NextCheck == IndexInv /\ CheckInv /\ [DecisionsNext]_decisionsVars => CheckInv'
<1> SUFFICES ASSUME IndexInv, CheckInv, [DecisionsNext]_decisionsVars PROVE CheckInv'
  OBVIOUS
<1>1. ASSUME NEW numbers \in {Numbers} \cup {{n} : n \in Numbers}, NEW forge \in Forges,
             CheckRead(numbers, forge)
      PROVE  CheckInv'
  <2> DEFINE about == {n \in numbers : index[n].headings > 0}
             owed  == {o \in recorded : o[1] \in numbers /\ ~rebase.on}
             todo  == UNION {{<<n, p>> : p \in ParksOf(index[n])} : n \in about}
             found == IF \E n \in about : Unparsed(index[n]) THEN {Outstanding} ELSE {}
             asked == IF manifest.source = "github_issues" THEN forge ELSE "none"
  <2>1. numbers \in SUBSET Numbers
    OBVIOUS
  <2>2. owed \in SUBSET (Numbers \X Parks)
    BY DEF IndexInv
  <2>3. todo \in SUBSET (Numbers \X Parks)
    <3>1. \A n \in about : ParksOf(index[n]) \subseteq Parks
      BY <2>1 DEF IndexInv, FileOK, EntryOK, Entry, ParksOf
    <3> QED
      BY <2>1, <3>1
  <2>4. NoCheck \in Check
    BY DEF NoCheck, Check, Forges
  <2>5. asked \in Forges /\ found \in SUBSET {Discharged, Outstanding, Unverifiable}
    BY DEF Forges
  <2>6. IsGreen(found) /\ ~(\E n \in about : index[n].headings > 1) => owed \subseteq todo
    <3> SUFFICES ASSUME IsGreen(found), ~(\E n \in about : index[n].headings > 1)
                 PROVE  owed \subseteq todo
      OBVIOUS
    <3>1. ~(\E n \in about : Unparsed(index[n]))
      BY DEF IsGreen, Discharged, Outstanding
    <3>2. \A n \in numbers : index[n].headings > 0 =>
             ~(index[n].headings > 1) /\ ~Unparsed(index[n])
      BY <3>1
    <3>3. CASE rebase.on
      BY <3>3
    <3>4. CASE ~rebase.on
      BY <2>1, <3>2, <3>4, OwedIsAsked
    <3> QED
      BY <3>3, <3>4
  <2>7. \/ \E code \in {1, 2} : check' = [NoCheck EXCEPT !.pc = "done", !.owed = owed, !.exit = code]
        \/ /\ ~(\E n \in about : index[n].headings > 1)
           /\ check' = [NoCheck EXCEPT !.pc = "asking", !.owed = owed, !.forge = asked,
                                       !.todo = todo, !.findings = found]
    BY <1>1 DEF CheckRead
  <2> HIDE DEF about, owed, todo, found, asked
  <2>8. ASSUME NEW code \in {1, 2},
               check' = [NoCheck EXCEPT !.pc = "done", !.owed = owed, !.exit = code]
        PROVE  CheckInv'
    <3>0. code \in 0..2
      OBVIOUS
    <3>1. check' \in Check
      BY <2>2, <2>4, <2>8, <3>0 DEF Check
    <3>2. check'.pc = "done" /\ check'.exit # 0
      BY <2>4, <2>8 DEF Check
    <3> QED
      BY <3>1, <3>2 DEF CheckInv, GreenMeansDischarged
  <2>9. CASE /\ ~(\E n \in about : index[n].headings > 1)
             /\ check' = [NoCheck EXCEPT !.pc = "asking", !.owed = owed, !.forge = asked,
                                         !.todo = todo, !.findings = found]
    BY <2>2, <2>3, <2>4, <2>5, <2>6, <2>9 DEF CheckInv, Check, GreenMeansDischarged
  <2> QED
    BY <2>7, <2>8, <2>9
<1>2. ASSUME NEW o \in check.todo, NEW reached \in BOOLEAN, CheckPark(o, reached) PROVE CheckInv'
  <2> DEFINE answer == Finding(check.forge, reached, o[2])
             todo   == check.todo \ {o}
             found  == check.findings \cup {answer}
             parked == IF Offered(o[2]) THEN check.parked ELSE check.parked \cup {o}
             overlooked == IF Overlooked(o[2]) THEN check.overlooked \cup {o} ELSE check.overlooked
  <2>1. /\ check.pc = "asking"
        /\ check' = [check EXCEPT !.todo = todo, !.findings = found, !.parked = parked,
                                   !.overlooked = overlooked]
    BY <1>2 DEF CheckPark
  <2>2. check \in Check /\ o \in Numbers \X Parks /\ o[2] \in Parks
    BY DEF CheckInv, Check
  <2>3. answer \in {Discharged, Outstanding, Unverifiable}
    BY DEF Finding, CheckParkForge, CheckParkFile
  <2>4. todo \in SUBSET (Numbers \X Parks) /\ parked \in SUBSET (Numbers \X Parks)
        /\ overlooked \in SUBSET (Numbers \X Parks)
        /\ found \in SUBSET {Discharged, Outstanding, Unverifiable}
    BY <2>2, <2>3 DEF Check
  <2>5. IsGreen(found) => check.owed \subseteq todo \cup parked \cup overlooked
    <3> SUFFICES ASSUME IsGreen(found) PROVE check.owed \subseteq todo \cup parked \cup overlooked
      OBVIOUS
    <3>1. IsGreen(check.findings) /\ answer = Discharged
      BY DEF IsGreen
    <3>2. ~Offered(o[2]) \/ Overlooked(o[2])
      BY <2>2, <3>1, DischargeIsTrue
    <3>3. check.owed \subseteq check.todo \cup check.parked \cup check.overlooked
      BY <2>1, <3>1 DEF CheckInv
    <3> QED
      BY <3>2, <3>3
  <2> HIDE DEF answer, todo, found, parked, overlooked
  <2>6. check' \in Check
    BY <2>1, <2>2, <2>4 DEF Check
  <2>7. /\ check'.pc = "asking" /\ check'.owed = check.owed
        /\ check'.todo = todo /\ check'.findings = found /\ check'.parked = parked
        /\ check'.overlooked = overlooked
    BY <2>1, <2>2 DEF Check
  <2> QED
    BY <2>5, <2>6, <2>7 DEF CheckInv, GreenMeansDischarged
<1>3. CASE CheckExit
  <2> DEFINE code == IF IsGreen(check.findings) THEN 0 ELSE 1
  <2>1. /\ check.pc = "asking" /\ check.todo = {}
        /\ check' = [NoCheck EXCEPT !.pc = "done", !.owed = check.owed, !.parked = check.parked,
                                    !.overlooked = check.overlooked, !.exit = code]
    BY <1>3 DEF CheckExit
  <2>2. NoCheck \in Check /\ code \in 0..2 /\ check.owed \in SUBSET (Numbers \X Parks)
        /\ check.parked \in SUBSET (Numbers \X Parks)
        /\ check.overlooked \in SUBSET (Numbers \X Parks)
    BY DEF CheckInv, NoCheck, Check, Forges
  <2>3. code = 0 => check.owed \subseteq check.parked \cup check.overlooked
    BY <2>1 DEF CheckInv
  <2> HIDE DEF code
  <2> QED
    BY <2>1, <2>2, <2>3 DEF CheckInv, Check, GreenMeansDischarged
<1>4. CASE CheckForgotten
  BY <1>4 DEF CheckForgotten, NoCheck, CheckInv, Check, GreenMeansDischarged, Forges
<1>5. CASE UNCHANGED check
  BY <1>5 DEF CheckInv, GreenMeansDischarged
<1> QED
  BY <1>1, <1>2, <1>3, <1>4, <1>5 DEF DecisionsNext, Read, Write, Commit, Die, DecisionNew, EndRebase,
     OthersPush, EditIndex, CommitByHand, MoveBacklog, decisionsVars

\* A green check of a clone on its branch means that every obligation reconciles had recorded was
\* off the table when the check asked for it, or was offered under another spelling only.
THEOREM GreenMeansDischargedAlways == DecisionsSpec => []GreenMeansDischarged
<1>1. CheckInv => GreenMeansDischarged
  BY DEF CheckInv
<1> QED
  BY InitIndex, NextIndex, InitCheck, NextCheck, <1>1, PTL DEF DecisionsSpec

-----------------------------------------------------------------------------
(***************************************************************************)
(* Type correctness                                                        *)
(***************************************************************************)
KeySet == [of: Personas, n: Nat]
LineSet == [slug: Personas, key: KeySet]
FileSet == [signers: SUBSET LineSet, specs: SUBSET Personas]
CloneSet == [fresh: BOOLEAN, base: FileSet, head: FileSet, tree: FileSet, signer: SUBSET KeySet]
CommitSet == [key: KeySet, claims: SUBSET Trailers]
\* A run passes under one label claim.
Passes == {{}} \cup {{label} : label \in SUBSET Labels}
PRSet == [state: {"none", "open", "merged"}, by: SUBSET Personas, commits: SUBSET CommitSet,
          adds: FileSet, current: BOOLEAN, passed: Passes, approved: BOOLEAN]

\* The variables hold what the forge, main and the working copies can hold.
TypeInv ==
    /\ key \in [Personas -> Nat]
    /\ clone \in [Clones -> CloneSet]
    /\ main \in FileSet
    /\ pr \in [PRs -> PRSet]
    /\ account \subseteq KeySet
    /\ ruleset \subseteq {RulesetPayload}
    /\ trusted \subseteq LineSet

LEMMA HomeIsClone == \A p \in Personas : Home[p] \in Clones
  BY EnrollmentAssumption

LEMMA KeyType == ASSUME NEW p \in Personas, NEW n \in Nat
                 PROVE  Key(p, n) \in KeySet /\ Line(Key(p, n)) \in LineSet
  BY DEF Key, KeySet, Line, LineSet

LEMMA FilesType == ASSUME NEW signers \in SUBSET LineSet, NEW specs \in SUBSET Personas
                   PROVE  /\ Files(signers, specs) \in FileSet
                          /\ Files(signers, specs).signers = signers
                          /\ Files(signers, specs).specs = specs
  BY DEF Files, FileSet

LEMMA NoPRType == NoPR \in PRSet /\ [NoPR EXCEPT !.state = "merged"] \in PRSet
<1>1. Files({}, {}) \in FileSet
  BY FilesType
<1> QED
  BY <1>1 DEF NoPR, PRSet, Passes

LEMMA AddsType == ASSUME TypeInv, NEW c \in Clones, NEW tip \in FileSet
                  PROVE  Adds(c, tip) \in FileSet
  BY DEF Adds, TypeInv, CloneSet, FileSet, Files

LEMMA SignedType == ASSUME TypeInv, NEW c \in Clones, NEW claims \in SUBSET Trailers
                    PROVE  Signed(c, claims) \subseteq CommitSet
  BY DEF Signed, TypeInv, CloneSet, CommitSet

LEMMA CheckedType ==
  ASSUME NEW q \in PRSet, NEW label \in SUBSET Labels
  PROVE  /\ Checked(q, label) \in PRSet
         /\ Checked(q, label).passed \subseteq {label}
         /\ Checked(q, label).passed # {} => VerifyIdentity(q, label)
         /\ Checked(q, label).commits = q.commits /\ Checked(q, label).adds = q.adds
         /\ Checked(q, label).state = q.state /\ Checked(q, label).current = q.current
         /\ Checked(q, label).approved = q.approved
<1> DEFINE passed == IF VerifyIdentity(q, label) THEN {label} ELSE {}
<1>1. /\ passed \in Passes /\ passed \subseteq {label}
      /\ passed # {} => VerifyIdentity(q, label)
  BY DEF Passes
<1>2. Checked(q, label) = [q EXCEPT !.passed = passed]
  BY DEF Checked
<1> HIDE DEF passed
<1> QED
  BY <1>1, <1>2 DEF PRSet

LEMMA ClaimsType ==
  /\ \A claims \in Claims(Trailers) : claims \in SUBSET Trailers
  /\ \A label \in Claims(Labels) : label \in SUBSET Labels
  BY DEF Claims

\* The request that OpenPR makes, before the workflow has looked at it.
Opened(p, claims, tip) ==
    [state |-> "open", by |-> {p}, commits |-> Signed(Home[p], claims),
     adds |-> Adds(Home[p], tip), current |-> clone[Home[p]].fresh,
     passed |-> {}, approved |-> FALSE]

LEMMA OpenedType ==
  ASSUME TypeInv, NEW p \in Personas, NEW claims \in SUBSET Trailers, NEW tip \in FileSet
  PROVE  Opened(p, claims, tip) \in PRSet
<1>1. Home[p] \in Clones
  BY HomeIsClone
<1>2. Signed(Home[p], claims) \in SUBSET CommitSet
  BY <1>1, SignedType
<1>3. Adds(Home[p], tip) \in FileSet
  BY <1>1, AddsType
<1>4. clone[Home[p]].fresh \in BOOLEAN
  BY <1>1 DEF TypeInv, CloneSet
<1> QED
  BY <1>2, <1>3, <1>4 DEF Opened, PRSet, Passes

LEMMA OpenPRIs ==
  ASSUME NEW n, NEW p, NEW claims, NEW label, NEW tip, OpenPR(n, p, claims, label, tip)
  PROVE  pr' = [pr EXCEPT ![n] = Checked(Opened(p, claims, tip), label)]
  BY DEF OpenPR, Opened

LEMMA OpenPRType ==
  ASSUME TypeInv, NEW n \in PRs, NEW p \in Personas, NEW claims \in SUBSET Trailers,
         NEW label \in SUBSET Labels, NEW tip \in FileSet, OpenPR(n, p, claims, label, tip)
  PROVE  pr' \in [PRs -> PRSet]
<1>1. Checked(Opened(p, claims, tip), label) \in PRSet
  BY OpenedType, CheckedType
<1> QED
  BY <1>1, OpenPRIs DEF TypeInv

\* The request that Push makes of q, before the workflow has looked at it.
Pushed(q, p, claims, update) ==
    LET c == Home[p]
    IN  [q EXCEPT !.commits = @ \cup Signed(c, claims),
                  !.adds = Files(@.signers \cup Adds(c, clone[c].head).signers,
                                 @.specs \cup Adds(c, clone[c].head).specs),
                  !.current = @ \/ update,
                  !.approved = @ /\ \A r \in ruleset : ~r.dismiss]

LEMMA PushedType ==
  ASSUME TypeInv, NEW q \in PRSet, NEW p \in Personas, NEW claims \in SUBSET Trailers,
         NEW update \in BOOLEAN
  PROVE  /\ Pushed(q, p, claims, update) \in PRSet
         /\ Pushed(q, p, claims, update).state = q.state
         /\ ruleset # {} => ~Pushed(q, p, claims, update).approved
<1> DEFINE c == Home[p]
           a == Adds(c, clone[c].head)
<1>1. c \in Clones
  BY HomeIsClone
<1>2. clone[c].head \in FileSet
  BY <1>1 DEF TypeInv, CloneSet
<1>3. a \in FileSet
  BY <1>1, <1>2, AddsType
<1>4. Signed(c, claims) \in SUBSET CommitSet
  BY <1>1, SignedType
<1>5. Files(q.adds.signers \cup a.signers, q.adds.specs \cup a.specs) \in FileSet
  BY <1>3 DEF PRSet, FileSet, Files
<1>6. (q.approved /\ \A r \in ruleset : ~r.dismiss) \in BOOLEAN
  OBVIOUS
<1>7. ruleset # {} => ~(\A r \in ruleset : ~r.dismiss)
  BY DEF TypeInv, RulesetPayload
<1> HIDE DEF c, a
<1>8. Pushed(q, p, claims, update) =
        [q EXCEPT !.commits = q.commits \cup Signed(c, claims),
                  !.adds = Files(q.adds.signers \cup a.signers, q.adds.specs \cup a.specs),
                  !.current = q.current \/ update,
                  !.approved = q.approved /\ \A r \in ruleset : ~r.dismiss]
  BY DEF Pushed, PRSet, c, a
<1> HIDE DEF Pushed
<1> DEFINE d == Files(q.adds.signers \cup a.signers, q.adds.specs \cup a.specs)
           ok == q.approved /\ \A r \in ruleset : ~r.dismiss
           cs == q.commits \cup Signed(c, claims)
           cur == q.current \/ update
<1>9. cs \in SUBSET CommitSet /\ cur \in BOOLEAN /\ (ruleset # {} => ~ok)
  BY <1>4, <1>7 DEF PRSet
<1>10. d \in FileSet /\ ok \in BOOLEAN
  BY <1>5, <1>6
<1>11. Pushed(q, p, claims, update) =
         [q EXCEPT !.commits = cs, !.adds = d, !.current = cur, !.approved = ok]
  BY <1>8
<1> HIDE DEF d, ok, cs, cur
<1>12. Pushed(q, p, claims, update) = [state |-> q.state, by |-> q.by, commits |-> cs, adds |-> d,
                               current |-> cur, passed |-> q.passed, approved |-> ok]
  BY <1>11 DEF PRSet
<1> QED
  BY <1>9, <1>10, <1>12 DEF PRSet

LEMMA PushIs ==
  ASSUME NEW n, NEW p, NEW claims, NEW label, NEW update, Push(n, p, claims, label, update)
  PROVE  pr' = [pr EXCEPT ![n] = Checked(Pushed(pr[n], p, claims, update), label)]
  BY DEF Push, Pushed

LEMMA InitType == Init => TypeInv
<1> SUFFICES ASSUME Init PROVE TypeInv
  OBVIOUS
<1> DEFINE first == Files({Line(Key(p, 1)) : p \in Enrolled}, Declared)
<1>1. \A p \in Personas : Key(p, 1) \in KeySet /\ Line(Key(p, 1)) \in LineSet
  BY KeyType
<1>2. first \in FileSet
  BY <1>1, EnrollmentAssumption DEF Files, FileSet
<1>3. account \subseteq KeySet
  BY <1>1, EnrollmentAssumption DEF Init
<1>4. \A c \in Clones : {Key(p, 1) : p \in {q \in Enrolled : Home[q] = c}} \in SUBSET KeySet
  BY <1>1, EnrollmentAssumption
<1>5. main = first /\ clone = [c \in Clones |->
        [fresh |-> TRUE, base |-> first, head |-> first, tree |-> first,
         signer |-> {Key(p, 1) : p \in {q \in Enrolled : Home[q] = c}}]]
  BY DEF Init
<1> HIDE DEF first
<1>6. clone \in [Clones -> CloneSet]
  BY <1>2, <1>4, <1>5 DEF CloneSet
<1> QED
  BY <1>2, <1>3, <1>5, <1>6, NoPRType DEF Init, TypeInv

\* What MainBecomes leaves is of the right type when the requests are.
LEMMA MainBecomesType ==
  ASSUME TypeInv, NEW files \in FileSet, NEW requests \in [PRs -> PRSet],
         MainBecomes(files, requests)
  PROVE  /\ main' = files
         /\ clone' \in [Clones -> CloneSet]
         /\ pr' \in [PRs -> PRSet]
         /\ \A n \in PRs : pr'[n] = [requests[n] EXCEPT !.current = FALSE]
<1>1. \A c \in Clones : [clone[c] EXCEPT !.fresh = FALSE] \in CloneSet
  BY DEF TypeInv, CloneSet
<1>2. \A n \in PRs : [requests[n] EXCEPT !.current = FALSE] \in PRSet
  BY DEF PRSet
<1> QED
  BY <1>1, <1>2 DEF MainBecomes

LEMMA NextType == TypeInv /\ [Next]_vars => TypeInv'
<1> SUFFICES ASSUME TypeInv, [Next]_vars PROVE TypeInv'
  OBVIOUS
<1>1. ASSUME NEW p \in Personas, NEW n \in GenerateKey(p), NEW request \in BOOLEAN,
             IdentityInit(p, n, request)
      PROVE  TypeInv'
  <2> DEFINE c == Home[p]
             k == Key(p, n)
             t == IF IsEnrolled(clone[c].head, k) \/ ~request THEN clone[c].tree.signers
                  ELSE clone[c].tree.signers \cup {Line(k)}
  <2>1. n \in Nat /\ c \in Clones
    BY HomeIsClone DEF GenerateKey, TypeInv
  <2>2. k \in KeySet /\ Line(k) \in LineSet
    BY <2>1, KeyType
  <2>3. clone[c] \in CloneSet
    BY <2>1 DEF TypeInv
  <2>4. t \in SUBSET LineSet
    BY <2>2, <2>3 DEF CloneSet, FileSet
  <2>5. clone' = [clone EXCEPT ![c].signer = {k}, ![c].tree.signers = t]
    BY <1>1 DEF IdentityInit
  <2> HIDE DEF c, k, t
  <2>6. [clone[c].tree EXCEPT !.signers = t] \in FileSet
    BY <2>3, <2>4 DEF CloneSet, FileSet
  <2>7. clone' = [clone EXCEPT ![c] = [clone[c] EXCEPT !.signer = {k},
                    !.tree = [clone[c].tree EXCEPT !.signers = t]]]
    BY <2>1, <2>3, <2>5 DEF TypeInv, CloneSet
  <2>8. clone' \in [Clones -> CloneSet]
    BY <2>1, <2>2, <2>3, <2>6, <2>7 DEF TypeInv, CloneSet
  <2> QED
    BY <1>1, <2>1, <2>8 DEF IdentityInit, TypeInv
<1>2. ASSUME NEW p \in Personas, WriteSpec(p) PROVE TypeInv'
  <2> DEFINE c == Home[p]
             s == clone[c].tree.specs \cup {p}
  <2>1. c \in Clones /\ clone[c] \in CloneSet
    BY HomeIsClone DEF TypeInv
  <2>2. clone' = [clone EXCEPT ![c].tree.specs = s]
    BY <1>2 DEF WriteSpec
  <2>3. s \in SUBSET Personas
    BY <2>1 DEF CloneSet, FileSet
  <2> HIDE DEF c, s
  <2>4. [clone[c].tree EXCEPT !.specs = s] \in FileSet
    BY <2>1, <2>3 DEF CloneSet, FileSet
  <2>5. clone' \in [Clones -> CloneSet]
    BY <2>1, <2>2, <2>4 DEF TypeInv, CloneSet
  <2> QED
    BY <1>2, <2>5 DEF WriteSpec, TypeInv
<1>3. ASSUME NEW c \in Clones, Sync(c) PROVE TypeInv'
  <2> DEFINE s == main.signers \cup (clone[c].tree.signers \ clone[c].head.signers)
             d == main.specs \cup (clone[c].tree.specs \ clone[c].head.specs)
  <2>1. clone[c] \in CloneSet /\ main \in FileSet
    BY DEF TypeInv
  <2>2. Files(s, d) \in FileSet
    BY <2>1 DEF CloneSet, FileSet, Files
  <2>3. clone' = [clone EXCEPT ![c].fresh = TRUE, ![c].base = main, ![c].head = main,
                               ![c].tree = Files(s, d)]
    BY <1>3 DEF Sync, Files
  <2> HIDE DEF s, d
  <2>4. clone' \in [Clones -> CloneSet]
    BY <2>1, <2>2, <2>3 DEF TypeInv, CloneSet
  <2> QED
    BY <1>3, <2>4 DEF Sync, TypeInv
<1>4. ASSUME NEW n \in PRs, NEW p \in Personas, NEW claims \in SUBSET Trailers,
             NEW label \in SUBSET Labels, OpenWork(n, p, claims, label)
      PROVE  TypeInv'
  <2>1. clone[Home[p]].head \in FileSet
    BY HomeIsClone DEF TypeInv, CloneSet
  <2>2. OpenPR(n, p, claims, label, clone[Home[p]].head)
    BY <1>4 DEF OpenWork
  <2>3. pr' \in [PRs -> PRSet]
    BY <2>1, <2>2, OpenPRType
  <2> QED
    BY <1>4, <2>3 DEF OpenWork, TypeInv
<1>5. ASSUME NEW n \in PRs, NEW p \in Personas, NEW claims \in SUBSET Trailers,
             NEW label \in SUBSET Labels, NEW update \in BOOLEAN,
             Push(n, p, claims, label, update)
      PROVE  TypeInv'
  <2>1. pr[n] \in PRSet
    BY DEF TypeInv
  <2>2. Checked(Pushed(pr[n], p, claims, update), label) \in PRSet
    BY <2>1, PushedType, CheckedType
  <2>3. pr' \in [PRs -> PRSet]
    BY <1>5, <2>2, PushIs DEF TypeInv
  <2> QED
    BY <1>5, <2>3 DEF Push, TypeInv
<1>6. ASSUME NEW n \in PRs, NEW p \in Personas, NEW label \in SUBSET Labels,
             NEW opens \in BOOLEAN, Enroll(n, p, label, opens)
      PROVE  TypeInv'
  <2> DEFINE c == Home[p]
             tip == Files(clone[c].tree.signers,
                          clone[c].head.specs \cup (clone[c].tree.specs \cap {p}))
  <2>1. c \in Clones /\ clone[c] \in CloneSet
    BY HomeIsClone DEF TypeInv
  <2>2. tip \in FileSet
    BY <2>1 DEF CloneSet, FileSet, Files
  <2>3. clone' = [clone EXCEPT ![c].head = tip]
    BY <1>6 DEF Enroll
  <2>4. pr' \in [PRs -> PRSet]
    <3>1. CASE opens
      <4>1. OpenPR(n, p, {}, label, tip)
        BY <1>6, <3>1 DEF Enroll
      <4> QED
        BY <2>2, <4>1, OpenPRType
    <3>2. CASE ~opens
      BY <1>6, <3>2 DEF Enroll, TypeInv
    <3> QED
      BY <3>1, <3>2
  <2> HIDE DEF c, tip
  <2>5. clone' \in [Clones -> CloneSet]
    BY <2>1, <2>2, <2>3 DEF TypeInv, CloneSet
  <2> QED
    BY <1>6, <2>4, <2>5 DEF Enroll, TypeInv
<1>7. ASSUME NEW p \in Personas, Register(p) PROVE TypeInv'
  <2>1. Key(p, key[p]) \in KeySet
    BY KeyType DEF TypeInv
  <2> QED
    BY <1>7, <2>1 DEF Register, TypeInv
<1>8. CASE Protect
  <2>1. \A n \in PRs : pr[n].adds.signers \subseteq LineSet
    BY DEF TypeInv, PRSet, FileSet
  <2>2. main.signers \subseteq LineSet
    BY DEF TypeInv, FileSet
  <2>3. trusted' \subseteq LineSet
    BY <1>8, <2>1, <2>2 DEF Protect, TypeInv
  <2> QED
    BY <1>8, <2>3 DEF Protect, TypeInv
<1>9. ASSUME NEW n \in PRs, Approve(n) PROVE TypeInv'
  <2>1. pr[n] \in PRSet /\ pr[n].adds.signers \subseteq LineSet
    BY DEF TypeInv, PRSet, FileSet
  <2>2. [pr[n] EXCEPT !.approved = TRUE] \in PRSet
    BY <2>1 DEF PRSet
  <2>3. pr' = [pr EXCEPT ![n] = [pr[n] EXCEPT !.approved = TRUE]]
    BY <1>9, <2>1 DEF Approve, TypeInv, PRSet
  <2>4. pr' \in [PRs -> PRSet]
    BY <2>2, <2>3 DEF TypeInv
  <2> QED
    BY <1>9, <2>1, <2>4 DEF Approve, TypeInv
<1>10. ASSUME NEW n \in PRs, Merge(n) PROVE TypeInv'
  <2> DEFINE q == pr[n]
             files == Files(main.signers \cup q.adds.signers, main.specs \cup q.adds.specs)
             requests == [pr EXCEPT ![n] = [NoPR EXCEPT !.state = "merged"]]
  <2>1. files \in FileSet
    BY DEF TypeInv, PRSet, FileSet, Files
  <2>2. requests \in [PRs -> PRSet]
    BY NoPRType DEF TypeInv
  <2>3. MainBecomes(files, requests)
    BY <1>10 DEF Merge
  <2> HIDE DEF files, requests
  <2>4. main' \in FileSet /\ clone' \in [Clones -> CloneSet] /\ pr' \in [PRs -> PRSet]
    BY <2>1, <2>2, <2>3, MainBecomesType
  <2> QED
    BY <1>10, <2>4 DEF Merge, TypeInv
<1>11. ASSUME NEW line \in main.signers, Revoke(line) PROVE TypeInv'
  <2> DEFINE files == Files(main.signers \ {line}, main.specs)
  <2>1. files \in FileSet
    BY DEF TypeInv, FileSet, Files
  <2>2. pr \in [PRs -> PRSet]
    BY DEF TypeInv
  <2>3. MainBecomes(files, pr)
    BY <1>11 DEF Revoke
  <2> HIDE DEF files
  <2>4. main' \in FileSet /\ clone' \in [Clones -> CloneSet] /\ pr' \in [PRs -> PRSet]
    BY <2>1, <2>2, <2>3, MainBecomesType
  <2>5. trusted' \subseteq LineSet
    BY <1>11 DEF Revoke, TypeInv
  <2> QED
    BY <1>11, <2>4, <2>5 DEF Revoke, TypeInv
<1>12. ASSUME NEW n \in PRs, NEW label \in SUBSET Labels, Reopen(n, label) PROVE TypeInv'
  <2>1. pr[n] \in PRSet
    BY DEF TypeInv
  <2>2. Checked(pr[n], label) \in PRSet
    BY <2>1, CheckedType
  <2>3. pr' \in [PRs -> PRSet]
    BY <1>12, <2>2 DEF Reopen, TypeInv
  <2> QED
    BY <1>12, <2>3 DEF Reopen, TypeInv
<1>13. CASE UNCHANGED vars
  BY <1>13 DEF vars, TypeInv
<1> QED
  BY <1>1, <1>2, <1>3, <1>4, <1>5, <1>6, <1>7, <1>8, <1>9, <1>10, <1>11, <1>12, <1>13,
     ClaimsType DEF Next

\* The variables hold what the forge, main and the working copies can hold.
THEOREM TypeCorrect == Spec => []TypeInv
  BY InitType, NextType, PTL DEF Spec

-----------------------------------------------------------------------------
(***************************************************************************)
(* What lands                                                              *)
(***************************************************************************)

\* An answer of the workflow holds as long as the branch is up to date, and so does an
\* approval under the ruleset.
AnswersHold(q) ==
    q.state = "open" /\ q.current =>
        /\ \A label \in q.passed : VerifyIdentity(q, label)
        /\ ruleset # {} /\ q.approved => q.adds.signers \subseteq trusted

VouchInv ==
    /\ ruleset # {} => main.signers \subseteq trusted
    /\ \A n \in PRs : AnswersHold(pr[n])

\* A request that was just opened, pushed to or reopened; VerifyIdentity asks nothing of
\* what Checked sets.
LEMMA ReplacedHolds ==
  ASSUME TypeInv, VouchInv, NEW n \in PRs, NEW q \in PRSet, NEW label \in SUBSET Labels,
         pr' = [pr EXCEPT ![n] = Checked(q, label)],
         q.state = "open" /\ q.current /\ ruleset # {} /\ q.approved =>
           q.adds.signers \subseteq trusted,
         UNCHANGED <<main, ruleset, trusted>>
  PROVE  VouchInv'
<1>1. ASSUME NEW m \in PRs PROVE AnswersHold(pr[m])'
  <2>1. CASE m = n
    <3> PICK new \in PRSet : new = Checked(q, label)
      BY CheckedType
    <3>1. pr'[m] = new
      BY <2>1 DEF TypeInv
    <3>2. /\ new.passed \subseteq {label} /\ (new.passed # {} => VerifyIdentity(q, label))
          /\ new.commits = q.commits /\ new.adds = q.adds
          /\ new.state = q.state /\ new.current = q.current /\ new.approved = q.approved
      BY CheckedType
    <3>3. VerifyIdentity(new, label)' <=> VerifyIdentity(q, label)
      BY <3>2 DEF VerifyIdentity
    <3> QED
      BY <3>1, <3>2, <3>3 DEF AnswersHold, VerifyIdentity
  <2>2. CASE m # n
    <3>1. pr'[m] = pr[m]
      BY <2>2 DEF TypeInv
    <3>2. AnswersHold(pr[m])
      BY DEF VouchInv
    <3> QED
      BY <3>1, <3>2 DEF AnswersHold, VerifyIdentity
  <2> QED
    BY <2>1, <2>2
<1> QED
  BY <1>1 DEF VouchInv

\* A step that leaves requests, main and the ruleset alone.
LEMMA QuietHolds ==
  ASSUME VouchInv, UNCHANGED <<pr, main, ruleset, trusted>>
  PROVE  VouchInv'
  BY DEF VouchInv, AnswersHold, VerifyIdentity

\* After main has changed no branch is up to date.
LEMMA OutdatedHolds ==
  ASSUME TypeInv, NEW files \in FileSet, NEW requests \in [PRs -> PRSet],
         MainBecomes(files, requests), ruleset' # {} => files.signers \subseteq trusted'
  PROVE  VouchInv'
<1>1. main' = files /\ \A n \in PRs : pr'[n] = [requests[n] EXCEPT !.current = FALSE]
  BY MainBecomesType
<1>2. \A n \in PRs : ~pr'[n].current
  BY <1>1 DEF PRSet
<1> QED
  BY <1>1, <1>2 DEF VouchInv, AnswersHold

\* Everything a request under the ruleset would add to main is vouched for.
LEMMA LandableIsVouched ==
  ASSUME TypeInv, VouchInv, NEW n \in PRs, ruleset # {}, pr[n].state = "open", Landable(pr[n])
  PROVE  /\ \A label \in pr[n].passed : VerifyIdentity(pr[n], label)
         /\ pr[n].passed # {}
         /\ main.signers \cup pr[n].adds.signers \subseteq trusted
<1>1. RulesetPayload \in ruleset
  BY DEF TypeInv
<1>2. /\ pr[n].passed # {} /\ pr[n].current
      /\ pr[n].adds.signers # {} => pr[n].approved
  BY <1>1 DEF Landable, RulesetPayload
<1> QED
  BY <1>2 DEF VouchInv, AnswersHold

LEMMA NextVouch == TypeInv /\ VouchInv /\ [Next]_vars => VouchInv'
<1> SUFFICES ASSUME TypeInv, VouchInv, [Next]_vars PROVE VouchInv'
  OBVIOUS
<1>1. ASSUME \/ \E p \in Personas :
                  \/ \E n \in GenerateKey(p), request \in BOOLEAN : IdentityInit(p, n, request)
                  \/ WriteSpec(p) \/ Register(p)
             \/ \E c \in Clones : Sync(c)
             \/ UNCHANGED vars
      PROVE  VouchInv'
  <2>1. UNCHANGED <<pr, main, ruleset, trusted>>
    BY <1>1 DEF IdentityInit, WriteSpec, Register, Sync, vars
  <2> QED
    BY <2>1, QuietHolds
<1>2. ASSUME NEW n \in PRs, NEW p \in Personas, NEW claims \in SUBSET Trailers,
             NEW label \in SUBSET Labels, OpenWork(n, p, claims, label)
      PROVE  VouchInv'
  <2> DEFINE tip == clone[Home[p]].head
  <2>1. tip \in FileSet
    BY HomeIsClone DEF TypeInv, CloneSet
  <2>2. OpenPR(n, p, claims, label, tip) /\ UNCHANGED <<main, ruleset, trusted>>
    BY <1>2 DEF OpenWork
  <2> HIDE DEF tip
  <2>3. Opened(p, claims, tip) \in PRSet /\ ~Opened(p, claims, tip).approved
    BY <2>1, OpenedType DEF Opened
  <2> QED
    BY <2>2, <2>3, OpenPRIs, ReplacedHolds
<1>3. ASSUME NEW n \in PRs, NEW p \in Personas, NEW claims \in SUBSET Trailers,
             NEW label \in SUBSET Labels, NEW update \in BOOLEAN,
             Push(n, p, claims, label, update)
      PROVE  VouchInv'
  <2>1. pr[n] \in PRSet
    BY DEF TypeInv
  <2>2. /\ Pushed(pr[n], p, claims, update) \in PRSet
        /\ ruleset # {} => ~Pushed(pr[n], p, claims, update).approved
    BY <2>1, PushedType
  <2>3. UNCHANGED <<main, ruleset, trusted>>
    BY <1>3 DEF Push
  <2> QED
    BY <1>3, <2>2, <2>3, PushIs, ReplacedHolds
<1>4. ASSUME NEW n \in PRs, NEW p \in Personas, NEW label \in SUBSET Labels,
             NEW opens \in BOOLEAN, Enroll(n, p, label, opens)
      PROVE  VouchInv'
  <2> DEFINE c == Home[p]
             tip == Files(clone[c].tree.signers,
                          clone[c].head.specs \cup (clone[c].tree.specs \cap {p}))
  <2>1. tip \in FileSet
    BY HomeIsClone DEF TypeInv, CloneSet, FileSet, Files
  <2>2. UNCHANGED <<main, ruleset, trusted>>
    BY <1>4 DEF Enroll
  <2>3. CASE opens
    <3>1. OpenPR(n, p, {}, label, tip)
      BY <1>4, <2>3 DEF Enroll
    <3> HIDE DEF tip
    <3>2. Opened(p, {}, tip) \in PRSet /\ ~Opened(p, {}, tip).approved
      BY <2>1, OpenedType DEF Opened
    <3> QED
      BY <2>2, <3>1, <3>2, OpenPRIs, ReplacedHolds
  <2>4. CASE ~opens
    <3>1. UNCHANGED pr
      BY <1>4, <2>4 DEF Enroll
    <3> QED
      BY <2>2, <3>1, QuietHolds
  <2> QED
    BY <2>3, <2>4
<1>5. CASE Protect
  <2>1. /\ UNCHANGED <<main, pr>> /\ main.signers \subseteq trusted' /\ trusted \subseteq trusted'
        /\ \A n \in PRs : pr[n].approved => pr[n].adds.signers \subseteq trusted'
    BY <1>5 DEF Protect
  <2> QED
    BY <2>1 DEF VouchInv, AnswersHold, VerifyIdentity
<1>6. ASSUME NEW n \in PRs, Approve(n) PROVE VouchInv'
  <2>1. /\ UNCHANGED <<main, ruleset>> /\ trusted' = trusted \cup pr[n].adds.signers
        /\ pr' = [pr EXCEPT ![n].approved = TRUE]
    BY <1>6 DEF Approve
  <2>2. ASSUME NEW m \in PRs PROVE AnswersHold(pr[m])'
    <3>1. /\ pr'[m].state = pr[m].state /\ pr'[m].current = pr[m].current
          /\ pr'[m].passed = pr[m].passed /\ pr'[m].adds = pr[m].adds
          /\ pr'[m].commits = pr[m].commits
          /\ m # n => pr'[m].approved = pr[m].approved
      BY <2>1 DEF TypeInv, PRSet
    <3>2. AnswersHold(pr[m])
      BY DEF VouchInv
    <3> QED
      BY <2>1, <3>1, <3>2 DEF AnswersHold, VerifyIdentity
  <2> QED
    BY <2>1, <2>2 DEF VouchInv
<1>7. ASSUME NEW n \in PRs, Merge(n) PROVE VouchInv'
  <2> DEFINE q == pr[n]
             files == Files(main.signers \cup q.adds.signers, main.specs \cup q.adds.specs)
             requests == [pr EXCEPT ![n] = [NoPR EXCEPT !.state = "merged"]]
  <2>1. files \in FileSet /\ files.signers = main.signers \cup q.adds.signers
    BY DEF TypeInv, PRSet, FileSet, Files
  <2>2. requests \in [PRs -> PRSet]
    BY NoPRType DEF TypeInv
  <2>3. MainBecomes(files, requests) /\ UNCHANGED <<ruleset, trusted>>
    BY <1>7 DEF Merge
  <2>4. ruleset # {} => files.signers \subseteq trusted
    BY <1>7, <2>1, LandableIsVouched DEF Merge
  <2> HIDE DEF files, requests
  <2> QED
    BY <2>1, <2>2, <2>3, <2>4, OutdatedHolds
<1>8. ASSUME NEW line \in main.signers, Revoke(line) PROVE VouchInv'
  <2> DEFINE files == Files(main.signers \ {line}, main.specs)
  <2>1. files \in FileSet /\ files.signers = main.signers \ {line}
    BY DEF TypeInv, FileSet, Files
  <2>2. pr \in [PRs -> PRSet]
    BY DEF TypeInv
  <2>3. MainBecomes(files, pr) /\ UNCHANGED ruleset /\ trusted' = trusted \ {line}
    BY <1>8 DEF Revoke
  <2>4. ruleset # {} => files.signers \subseteq trusted'
    BY <2>1, <2>3 DEF VouchInv
  <2> HIDE DEF files
  <2> QED
    BY <2>1, <2>2, <2>3, <2>4, OutdatedHolds
<1>9. ASSUME NEW n \in PRs, NEW label \in SUBSET Labels, Reopen(n, label) PROVE VouchInv'
  <2> PICK q \in PRSet : q = pr[n]
    BY DEF TypeInv
  <2>1. /\ pr' = [pr EXCEPT ![n] = Checked(q, label)]
        /\ UNCHANGED <<main, ruleset, trusted>>
    BY <1>9 DEF Reopen, TypeInv
  <2>2. AnswersHold(q)
    BY DEF VouchInv
  <2> QED
    BY <2>1, <2>2, ReplacedHolds DEF AnswersHold
<1> QED
  BY <1>1, <1>2, <1>3, <1>4, <1>5, <1>6, <1>7, <1>8, <1>9, ClaimsType DEF Next

\* A request is merged by Merge alone.
LEMMA MergedByMerge ==
  ASSUME TypeInv, [Next]_vars, NEW n \in PRs, pr[n].state = "open", pr'[n].state = "merged"
  PROVE  Merge(n)
<1>1. ASSUME NEW q \in PRSet, NEW m \in PRs, NEW label \in SUBSET Labels,
             pr' = [pr EXCEPT ![m] = Checked(q, label)], q.state = "open"
      PROVE  FALSE
  <2>1. Checked(q, label).state = "open"
    BY <1>1, CheckedType
  <2> QED
    BY <1>1, <2>1 DEF TypeInv
<1>2. ASSUME NEW m \in PRs, NEW p \in Personas, NEW claims \in SUBSET Trailers,
             NEW label \in SUBSET Labels, NEW tip \in FileSet, OpenPR(m, p, claims, label, tip)
      PROVE  FALSE
  <2>1. Opened(p, claims, tip) \in PRSet /\ Opened(p, claims, tip).state = "open"
    BY OpenedType DEF Opened
  <2> QED
    BY <1>1, <1>2, <2>1, OpenPRIs
<1>3. ASSUME NEW m \in PRs, NEW p \in Personas, NEW claims \in SUBSET Trailers,
             NEW label \in SUBSET Labels, OpenWork(m, p, claims, label)
      PROVE  FALSE
  <2>1. clone[Home[p]].head \in FileSet
    BY HomeIsClone DEF TypeInv, CloneSet
  <2> QED
    BY <1>2, <1>3, <2>1 DEF OpenWork
<1>4. ASSUME NEW m \in PRs, NEW p \in Personas, NEW claims \in SUBSET Trailers,
             NEW label \in SUBSET Labels, NEW update \in BOOLEAN,
             Push(m, p, claims, label, update)
      PROVE  FALSE
  <2>1. pr[m] \in PRSet /\ pr[m].state = "open"
    BY <1>4 DEF TypeInv, Push
  <2> QED
    BY <1>1, <1>4, <2>1, PushedType, PushIs
<1>5. ASSUME NEW m \in PRs, NEW p \in Personas, NEW label \in SUBSET Labels,
             NEW opens \in BOOLEAN, Enroll(m, p, label, opens)
      PROVE  FALSE
  <2> DEFINE c == Home[p]
             tip == Files(clone[c].tree.signers,
                          clone[c].head.specs \cup (clone[c].tree.specs \cap {p}))
  <2>1. tip \in FileSet
    BY HomeIsClone DEF TypeInv, CloneSet, FileSet, Files
  <2>2. CASE opens
    BY <1>2, <1>5, <2>1, <2>2 DEF Enroll
  <2>3. CASE ~opens
    BY <1>5, <2>3 DEF Enroll
  <2> QED
    BY <2>2, <2>3
<1>6. ASSUME \/ \E p \in Personas :
                  \/ \E m \in GenerateKey(p), request \in BOOLEAN : IdentityInit(p, m, request)
                  \/ WriteSpec(p) \/ Register(p)
             \/ \E c \in Clones : Sync(c)
             \/ Protect
             \/ UNCHANGED vars
      PROVE  FALSE
  BY <1>6 DEF IdentityInit, WriteSpec, Register, Sync, Protect, vars
<1>7. ASSUME NEW m \in PRs, Approve(m) PROVE FALSE
  BY <1>7 DEF Approve, TypeInv, PRSet
<1>8. ASSUME NEW line \in main.signers, Revoke(line) PROVE FALSE
  BY <1>8 DEF Revoke, MainBecomes, TypeInv, PRSet
<1>9. ASSUME NEW m \in PRs, Merge(m), m # n PROVE FALSE
  BY <1>9 DEF Merge, MainBecomes, TypeInv, PRSet
<1>10. ASSUME NEW m \in PRs, NEW label \in SUBSET Labels, Reopen(m, label) PROVE FALSE
  <2>1. pr[m] \in PRSet
    BY DEF TypeInv
  <2> QED
    BY <1>1, <1>10, <2>1 DEF Reopen
<1> QED
  BY <1>3, <1>4, <1>5, <1>6, <1>7, <1>8, <1>9, <1>10, ClaimsType DEF Next

\* The property, for one step.
Vouched(commit, labels) ==
    \E line \in main'.signers \cap trusted' :
        /\ line.key = commit.key /\ line.slug \in main'.specs
        /\ commit.claims \cup labels \subseteq {line.slug}

LEMMA LandingStep ==
  ASSUME TypeInv, VouchInv, [Next]_vars, NEW n \in PRs,
         ruleset # {}, pr[n].state = "open", pr'[n].state = "merged"
  PROVE  \A commit \in pr[n].commits : Vouched(commit, UNION pr[n].passed)
<1>1. Merge(n)
  BY MergedByMerge
<1>2. /\ pr[n].passed # {} /\ \A label \in pr[n].passed : VerifyIdentity(pr[n], label)
      /\ main.signers \cup pr[n].adds.signers \subseteq trusted
  BY <1>1, LandableIsVouched DEF Merge
<1>3. /\ main'.signers = main.signers \cup pr[n].adds.signers
      /\ main'.specs = main.specs \cup pr[n].adds.specs
      /\ trusted' = trusted
  BY <1>1 DEF Merge, MainBecomes, Files
<1>4. PICK label \in SUBSET Labels : pr[n].passed = {label}
  <2>1. pr[n].passed \in Passes
    BY DEF TypeInv, PRSet
  <2> QED
    BY <1>2, <2>1 DEF Passes
<1>5. VerifyIdentity(pr[n], label) /\ UNION pr[n].passed = label
  BY <1>2, <1>4
<1> QED
  BY <1>2, <1>3, <1>5 DEF VerifyIdentity, VerifyCommit, Vouched

\* Under the ruleset every commit that lands is signed with a key on main that the owner
\* vouched for, for the persona that its trailer claims, if any, and the label that the
\* workflow was last given: for any personas, working copies, requests and labels.
THEOREM LandsOnlyVouchedAlways == Spec => LandsOnlyVouched
<1>1. Init => VouchInv
  BY DEF Init, VouchInv, AnswersHold, NoPR
<1>2. TypeInv /\ VouchInv /\ [Next]_vars =>
        [\A n \in PRs : ruleset # {} /\ pr[n].state = "open" /\ pr'[n].state = "merged" =>
           \A commit \in pr[n].commits :
             \E line \in main'.signers \cap trusted' :
               /\ line.key = commit.key /\ line.slug \in main'.specs
               /\ commit.claims \cup UNION pr[n].passed \subseteq {line.slug}]_vars
  BY LandingStep DEF Vouched
<1> QED
  BY <1>1, <1>2, NextVouch, InitType, NextType, PTL DEF Spec, LandsOnlyVouched
=============================================================================
