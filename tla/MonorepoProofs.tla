---------------------------- MODULE MonorepoProofs ----------------------------
(***************************************************************************)
(* Theorems about the coordination monorepo, for any requests and any      *)
(* number of commands, dying at any write: what the marker lists is whole, *)
(* a clone finds what it lists, and the paths a scaffold recorded lead out *)
(* of the coordination repository and back.                                *)
(***************************************************************************)
EXTENDS Monorepo, SequenceTheorems, TLAPS

-------------------------------------------------------------------------------
(***************************************************************************)
(* Types                                                                   *)
(***************************************************************************)

Parts == {"rules", "manifest", "canon", "specs", "surfaces", "observations", "ci", "kits",
          Marker, "readme", "workflows", "codeowners", "signers"}
Phases == {"idle", "root", "write", "load", "register", "commit", "done", "uncommitted",
           "refused", "dead"}
Refs == [dir : Dirs, name : {r.name : r \in Requests}]
Manifests == {ManifestOf(r, p, b) : r \in Requests, p \in Places, b \in BOOLEAN}
Kits == {KitPaths(r, p, b) : r \in Requests, p \in Places, b \in BOOLEAN}
Tears == {"none", "broken", "blank"}
Directory == [parts : SUBSET Parts, manifest : SUBSET Manifests, tear : Tears,
              git : BOOLEAN, kit : SUBSET Kits]
Command == [pc : Phases, req : SUBSET Requests, at : Places \cup {<<>>}, todo : Seq(Parts),
            seen : SUBSET Refs]

Files ==
  /\ marker \in [torn : BOOLEAN, projects : SUBSET Refs]
  /\ head \in [projects : SUBSET Refs, dirs : SUBSET Dirs]
  /\ tree \in [Places -> Directory]
Types == Files /\ cmd \in [Commands -> Command]

\* The directories of projects of their own and those under the root are all different.
LEMMA PlacesApart ==
  ASSUME NEW d \in Dirs, NEW e \in Dirs
  PROVE  /\ d \in STRING /\ Standalone(d) \in Places /\ Grafted(d) \in Places
         /\ Standalone(d) # Grafted(e)
         /\ Standalone(d) = Standalone(e) => d = e
         /\ Grafted(d) = Grafted(e) => d = e
<1>1. d \in STRING /\ e \in STRING
  BY MonorepoAssumption DEF Dirs
<1>2. Standalone(d) # Grafted(e)
  BY <1>1, MonorepoAssumption, AppendInjective DEF Standalone, Grafted
<1>3. Standalone(d) = Standalone(e) => d = e
  BY <1>1, MonorepoAssumption, AppendInjective DEF Standalone
<1>4. Grafted(d) = Grafted(e) => d = e
  BY <1>1, MonorepoAssumption, AppendInjective DEF Grafted
<1> QED
  BY <1>1, <1>2, <1>3, <1>4 DEF Places

LEMMA JoinedElements ==
  ASSUME NEW S, NEW s \in Seq(S), NEW t \in Seq(S)
  PROVE  s \o t \in Seq(S) /\ ToSet(s) \subseteq ToSet(s \o t) /\ ToSet(t) \subseteq ToSet(s \o t)
<1>1. /\ s \o t \in Seq(S) /\ Len(s \o t) = Len(s) + Len(t) /\ Len(s) \in Nat /\ Len(t) \in Nat
      /\ \A i \in 1..Len(s) : (s \o t)[i] = s[i]
      /\ \A i \in 1..Len(t) : (s \o t)[Len(s) + i] = t[i]
  OBVIOUS
<1>2. DOMAIN (s \o t) = 1..(Len(s) + Len(t)) /\ DOMAIN s = 1..Len(s) /\ DOMAIN t = 1..Len(t)
  BY <1>1
<1>3. ASSUME NEW i \in DOMAIN s PROVE s[i] \in ToSet(s \o t)
  <2>1. i \in 1..Len(s) /\ i \in DOMAIN (s \o t) /\ (s \o t)[i] = s[i]
    BY <1>1, <1>2
  <2> QED
    BY <2>1, Zenon DEF ToSet
<1>4. ASSUME NEW i \in DOMAIN t PROVE t[i] \in ToSet(s \o t)
  <2>1. i \in 1..Len(t) /\ Len(s) + i \in DOMAIN (s \o t) /\ (s \o t)[Len(s) + i] = t[i]
    BY <1>1, <1>2
  <2> QED
    BY <2>1, Zenon DEF ToSet
<1> QED
  BY <1>1, <1>3, <1>4, Zenon DEF ToSet

\* Whatever the roster, personas, surfaces and kits are among what is written.
LEMMA EmittedParts ==
  ASSUME NEW roster, NEW inMono
  PROVE  /\ Emitted(roster, inMono) \in Seq(Parts)
         /\ {"specs", "surfaces", "kits"} \subseteq ToSet(Emitted(roster, inMono))
<1> DEFINE first == <<"rules", "manifest", "canon", "specs", "surfaces">>
           last == <<"kits">>
<1>1. PICK zone \in Seq(Parts) :
        zone = IF \E p \in roster : p.archetype = "observer" THEN <<"observations">> ELSE <<>>
  <2>1. <<"observations">> \in Seq(Parts) /\ <<>> \in Seq(Parts)
    BY DEF Parts
  <2>2. CASE \E p \in roster : p.archetype = "observer"
    BY <2>1, <2>2
  <2>3. CASE ~\E p \in roster : p.archetype = "observer"
    BY <2>1, <2>3
  <2> QED
    BY <2>2, <2>3
<1>2. PICK checks \in Seq(Parts) : checks = IF ~inMono THEN <<"ci">> ELSE <<>>
  <2>1. <<"ci">> \in Seq(Parts) /\ <<>> \in Seq(Parts)
    BY DEF Parts
  <2>2. CASE inMono
    BY <2>1, <2>2
  <2>3. CASE ~inMono
    BY <2>1, <2>3
  <2> QED
    BY <2>2, <2>3
<1>3. Emitted(roster, inMono) = ((first \o zone) \o checks) \o last
  BY <1>1, <1>2 DEF Emitted
<1>4. first \in Seq(Parts) /\ last \in Seq(Parts)
  BY DEF Parts
<1>5. {"specs", "surfaces"} \subseteq ToSet(first) /\ "kits" \in ToSet(last)
  <2>1. /\ first[4] = "specs" /\ first[5] = "surfaces" /\ last[1] = "kits"
        /\ 4 \in DOMAIN first /\ 5 \in DOMAIN first /\ 1 \in DOMAIN last
    OBVIOUS
  <2> HIDE DEF first, last
  <2> QED
    BY <2>1 DEF ToSet
<1> HIDE DEF first, last
<1>6. first \o zone \in Seq(Parts) /\ ToSet(first) \subseteq ToSet(first \o zone)
  BY <1>4, JoinedElements, Zenon
<1> DEFINE head1 == first \o zone
           head2 == head1 \o checks
<1> HIDE DEF head1
<1>7. head2 \in Seq(Parts) /\ ToSet(head1) \subseteq ToSet(head2)
  BY <1>6, JoinedElements, Zenon DEF head1
<1> HIDE DEF head2
<1>8. /\ head2 \o last \in Seq(Parts) /\ ToSet(head2) \subseteq ToSet(head2 \o last)
      /\ ToSet(last) \subseteq ToSet(head2 \o last)
  BY <1>4, <1>7, JoinedElements, Zenon
<1>9. Emitted(roster, inMono) = head2 \o last /\ ToSet(first) \subseteq ToSet(head1)
  BY <1>3, <1>6 DEF head1, head2
<1> QED
  BY <1>5, <1>7, <1>8, <1>9

LEMMA TodoShrinks ==
  ASSUME NEW todo \in Seq(Parts), todo # <<>>
  PROVE  /\ Head(todo) \in Parts /\ Tail(todo) \in Seq(Parts)
         /\ ToSet(todo) \subseteq {Head(todo)} \cup ToSet(Tail(todo))
<1>1. /\ Head(todo) \in Parts /\ Tail(todo) \in Seq(Parts) /\ Len(Tail(todo)) = Len(todo) - 1
      /\ \A i \in 1..Len(Tail(todo)) : Tail(todo)[i] = todo[i + 1]
  BY HeadTailProperties
<1>2. ASSUME NEW i \in DOMAIN todo PROVE todo[i] = Head(todo) \/ todo[i] \in ToSet(Tail(todo))
  <2>1. i \in 1..Len(todo) /\ Len(todo) \in Nat
    OBVIOUS
  <2>2. CASE i = 1
    BY <2>2
  <2>3. CASE i # 1
    <3>1. i - 1 \in 1..Len(Tail(todo)) /\ (i - 1) + 1 = i
      BY <1>1, <2>1, <2>3
    <3>2. Tail(todo)[i - 1] = todo[i] /\ i - 1 \in DOMAIN Tail(todo)
      BY <1>1, <3>1
    <3> QED
      BY <3>2 DEF ToSet
  <2> QED
    BY <2>2, <2>3
<1> QED
  BY <1>1, <1>2 DEF ToSet

-------------------------------------------------------------------------------
(***************************************************************************)
(* The invariant                                                           *)
(***************************************************************************)

InRoot(r) == r.op # "init"
HomeOf(r) == IF r.op = "init" THEN Standalone(r.dir) ELSE Grafted(r.dir)

\* The project has been, or is about to be, listed in the marker or in a commit of it.
Claimed(d) ==
  \/ \E ref \in marker.projects \cup head.projects : ref.dir = d
  \/ \E k \in Commands : \E ref \in cmd[k].seen : ref.dir = d

Committing == {"commit", "done", "uncommitted", "dead"}
Adopted(d) ==
  \E k \in Commands : \E r \in cmd[k].req :
    r.op = "adopt-project" /\ r.dir = d /\ cmd[k].pc \in Committing
Readable(p) ==
  /\ ~tree[p].git /\ tree[p].tear # "broken"
  /\ tree[p].manifest # {} \/ tree[p].tear = "blank"
Complete(p) ==
  /\ tree[p].manifest # {} /\ tree[p].tear = "none"
  /\ {"specs", "surfaces", "kits"} \subseteq tree[p].parts
Whole(d) == Readable(Grafted(d)) /\ (Adopted(d) \/ Complete(Grafted(d)))

Accounted(d) ==
  \/ d \in head.dirs
  \/ \E k \in Commands : \E r \in cmd[k].req :
       r.dir = d /\ cmd[k].pc \in {"commit", "dead", "uncommitted"}

\* What is recorded at p is what the request r, checked against aliases, led to.
Led(p, r, inMono) ==
  /\ inMono <=> \E d \in Dirs : p = Grafted(d)
  /\ tree[p].manifest \subseteq {ManifestOf(r, p, inMono)}
  /\ tree[p].kit \subseteq {KitPaths(r, p, inMono)}
  /\ \A c \in r.code : ~Aliased(CodeRel(c, p, inMono), p, inMono)

Tracked(p) ==
  \A m \in tree[p].manifest : m.home = p =>
    \E r \in Requests, inMono \in BOOLEAN : m = ManifestOf(r, p, inMono) /\ Led(p, r, inMono)

\* Parts and contents agree, and only under the root is a project that came from elsewhere.
Sound(p) ==
  /\ tree[p].manifest # {} => "manifest" \in tree[p].parts
  /\ "manifest" \in tree[p].parts => tree[p].manifest # {}
  /\ tree[p].kit # {} => "kits" \in tree[p].parts
  /\ (\A d \in Dirs : p # Grafted(d)) => \A m \in tree[p].manifest : m.home = p

\* A command that scaffolds has the directory for itself, and what it has still to write
\* completes it; one that registers has checked it.
Working(k, r) ==
  /\ r \in Requests /\ cmd[k].req = {r} /\ cmd[k].at = HomeOf(r) /\ cmd[k].pc # "idle"
  /\ cmd[k].pc = "root" => r.op = "init-monorepo"
  /\ cmd[k].pc = "load" => r.op = "adopt-project"
  /\ cmd[k].pc \in {"load", "register", "commit"} => InRoot(r)
  /\ cmd[k].pc # "register" => cmd[k].seen = {}
  /\ cmd[k].pc = "write" => Led(cmd[k].at, r, InRoot(r))
  /\ cmd[k].pc = "write" /\ InRoot(r) =>
       /\ ~Claimed(r.dir) /\ tree[cmd[k].at].tear = "none" /\ ~tree[cmd[k].at].git
       /\ {"specs", "surfaces", "kits"} \subseteq tree[cmd[k].at].parts \cup ToSet(cmd[k].todo)
  /\ cmd[k].pc \in {"load", "register"} =>
       Readable(cmd[k].at) /\ (r.op = "adopt-project" \/ Complete(cmd[k].at))

Waiting(k) == cmd[k].pc = "idle" /\ cmd[k].req = {} /\ cmd[k].seen = {}

\* No two running commands are about one directory.
Apart(j, k) ==
  Live(j) /\ Live(k) => \A r \in cmd[j].req, s \in cmd[k].req : r.dir # s.dir

Inv ==
  /\ Types
  /\ \A k \in Commands : Waiting(k) \/ \E r \in Requests : Working(k, r)
  /\ \A j, k \in Commands : j # k => Apart(j, k)
  /\ \A p \in Places : Sound(p) /\ Tracked(p)
  /\ \A d \in Dirs : Claimed(d) => Whole(d) /\ Accounted(d)

LEMMA RequestOf ==
  ASSUME NEW k \in Commands, NEW r \in Requests, Working(k, r)
  PROVE  Req(k) = r /\ r.dir \in Dirs /\ cmd[k].at \in Places
<1>1. Req(k) = r
  BY DEF Req, Working
<1>2. r.dir \in Dirs
  BY DEF Dirs
<1> QED
  BY <1>1, <1>2, PlacesApart DEF Working, HomeOf

\* What is claimed has a place of its own, and there is something in it.
LEMMA ClaimedOccupies ==
  ASSUME Inv, NEW d, Claimed(d)
  PROVE  d \in Dirs /\ Occupied(Grafted(d)) /\ Whole(d) /\ Accounted(d)
<1>1. d \in Dirs
  BY DEF Inv, Types, Files, Command, Refs, Claimed
<1>2. Grafted(d) \in Places
  BY <1>1, PlacesApart
<1>3. Whole(d) /\ Accounted(d) /\ Sound(Grafted(d))
  BY <1>1, <1>2 DEF Inv
<1> QED
  BY <1>1, <1>3 DEF Whole, Readable, Sound, Occupied

\* A directory with nothing in it has no manifest and no kits.
LEMMA EmptyHasNothing ==
  ASSUME Inv, NEW p \in Places, ~Occupied(p)
  PROVE  tree[p].manifest = {} /\ tree[p].kit = {} /\ tree[p].tear = "none" /\ ~tree[p].git
BY DEF Inv, Sound, Occupied

-------------------------------------------------------------------------------
(***************************************************************************)
(* A step of a command                                                     *)
(***************************************************************************)

Moves(k, phase, todo, seen) ==
  /\ cmd' \in [Commands -> Command]
  /\ cmd'[k].pc = phase /\ cmd'[k].todo = todo /\ cmd'[k].seen = seen
  /\ cmd'[k].req = cmd[k].req /\ cmd'[k].at = cmd[k].at
  /\ \A j \in Commands \ {k} : cmd'[j] = cmd[j]

\* What holds at the place where a command is.
LEMMA SoundAt ==
  ASSUME NEW k \in Commands, NEW p \in Places, p = cmd'[k].at, Sound(p)', Tracked(p)'
  PROVE  Sound(cmd[k].at)' /\ Tracked(cmd[k].at)'
<1>1. Sound(cmd[k].at)'
  BY DEF Sound
<1>2. Tracked(cmd[k].at)'
  BY DEF Tracked, Led
<1> QED
  BY <1>1, <1>2, Zenon

LEMMA AtSound ==
  ASSUME NEW k \in Commands, NEW p \in Places, p = cmd'[k].at,
         Sound(cmd[k].at)', Tracked(cmd[k].at)'
  PROVE  Sound(p)' /\ Tracked(p)'
<1>1. Sound(p)'
  BY DEF Sound
<1>2. Tracked(p)'
  BY DEF Tracked, Led
<1> QED
  BY <1>1, <1>2, Zenon

\* A running command touches its own place alone, and claims its own project alone.
LEMMA CommandStep ==
  ASSUME Inv, NEW k \in Commands, NEW r \in Requests, Working(k, r), Live(k),
         NEW phase \in Phases \ {"idle"}, NEW todo, NEW seen, Moves(k, phase, todo, seen),
         Files', \A q \in Places \ {cmd[k].at} : tree'[q] = tree[q],
         tree'[cmd[k].at] = tree[cmd[k].at] \/ cmd[k].pc = "write",
         cmd[k].pc = "commit" =>
           phase \in {"dead", "uncommitted"} \/ (phase = "done" /\ r.dir \in head'.dirs),
         head.dirs \subseteq head'.dirs,
         \A d \in Dirs : Claimed(d)' => Claimed(d) \/ (d = r.dir /\ Whole(d)' /\ Accounted(d)'),
         Working(k, r)', Sound(cmd[k].at)', Tracked(cmd[k].at)'
  PROVE  Inv'
<1>1. r.dir \in Dirs /\ cmd[k].at \in Places /\ cmd[k].req = {r} /\ cmd[k].at = HomeOf(r)
  BY RequestOf DEF Working
<1>2. \A j \in Commands \ {k} : cmd'[j] = cmd[j]
  BY DEF Moves
<1>3. Types'
  BY DEF Types, Moves
<1>4. ASSUME NEW j \in Commands \ {k}
      PROVE  (Waiting(j) \/ \E s \in Requests : Working(j, s))'
  <2>1. CASE Waiting(j)
    BY <1>2, <2>1 DEF Waiting
  <2>2. ASSUME NEW s \in Requests, Working(j, s) PROVE Working(j, s)'
    <3>1. s.dir \in Dirs /\ cmd[j].at \in Places /\ cmd[j].req = {s} /\ cmd[j].at = HomeOf(s)
      BY <2>2, RequestOf DEF Working
    <3>2. CASE ~Live(j)
      BY <1>2, <2>2, <3>2 DEF Working, Live
    <3>3. CASE Live(j)
      <4>1. s.dir # r.dir
        BY <1>1, <3>1, <3>3 DEF Inv, Apart
      <4>2. cmd[j].at # cmd[k].at
        BY <1>1, <3>1, <4>1, PlacesApart DEF HomeOf
      <4>3. tree'[cmd[j].at] = tree[cmd[j].at] /\ cmd'[j] = cmd[j]
        BY <1>2, <3>1, <4>2
      <4>4. Claimed(s.dir)' => Claimed(s.dir)
        BY <3>1, <4>1
      <4> QED
        BY <2>2, <4>3, <4>4 DEF Working, Led, Readable, Complete
    <3> QED
      BY <3>2, <3>3
  <2> QED
    BY <2>1, <2>2 DEF Inv
<1>5. ASSUME NEW i \in Commands, NEW j \in Commands, i # j PROVE Apart(i, j)'
  <2>1. \A l \in Commands : cmd'[l].req = cmd[l].req
    BY <1>2 DEF Moves
  <2>2. \A l \in Commands : Live(l)' => Live(l)
    BY <1>2 DEF Live
  <2> QED
    BY <1>5, <2>1, <2>2 DEF Inv, Apart
<1>6. ASSUME NEW p \in Places PROVE Sound(p)' /\ Tracked(p)'
  <2>1. CASE p = cmd[k].at
    <3>1. p = cmd'[k].at
      BY <2>1 DEF Moves
    <3> QED
      BY <3>1, AtSound, Zenon
  <2>2. CASE p # cmd[k].at
    BY <2>2 DEF Inv, Sound, Tracked, Led
  <2> QED
    BY <2>1, <2>2
<1>7. ASSUME NEW d \in Dirs, Claimed(d)' PROVE Whole(d)' /\ Accounted(d)'
  <2>1. CASE Claimed(d)
    <3>1. Whole(d) /\ Accounted(d) /\ Grafted(d) \in Places
      BY <2>1, PlacesApart DEF Inv
    <3>2. tree'[Grafted(d)] = tree[Grafted(d)]
      <4>1. CASE cmd[k].pc # "write"
        BY <3>1, <4>1
      <4>2. CASE cmd[k].pc = "write" /\ InRoot(r)
        <5>1. d # r.dir
          BY <2>1, <4>2 DEF Working
        <5> QED
          BY <1>1, <3>1, <4>2, <5>1, PlacesApart DEF HomeOf, InRoot
      <4>3. CASE cmd[k].pc = "write" /\ ~InRoot(r)
        BY <1>1, <3>1, <4>3, PlacesApart DEF HomeOf, InRoot
      <4> QED
        BY <4>1, <4>2, <4>3
    <3>3. Adopted(d) => Adopted(d)'
      BY <1>2 DEF Adopted, Committing, Live, Moves
    <3>4. Accounted(d)'
      <4>1. CASE d \in head.dirs
        BY <4>1 DEF Accounted
      <4>2. ASSUME NEW j \in Commands, NEW s \in cmd[j].req,
                   s.dir = d, cmd[j].pc \in {"commit", "dead", "uncommitted"}
            PROVE  Accounted(d)'
        <5>1. CASE j # k
          BY <1>2, <4>2, <5>1 DEF Accounted
        <5>2. CASE j = k
          BY <1>1, <4>2, <5>2 DEF Accounted, Live, Moves
        <5> QED
          BY <5>1, <5>2
      <4> QED
        BY <3>1, <4>1, <4>2 DEF Accounted
    <3> QED
      BY <3>1, <3>2, <3>3, <3>4 DEF Whole, Readable, Complete
  <2>2. CASE ~Claimed(d)
    BY <1>7, <2>2
  <2> QED
    BY <2>1, <2>2
<1> QED
  BY <1>3, <1>4, <1>5, <1>6, <1>7 DEF Inv

LEMMA MovesBy ==
  ASSUME Inv, NEW k \in Commands, NEW c, cmd' = [cmd EXCEPT ![k] = c],
         NEW phase \in Phases, NEW todo \in Seq(Parts), NEW seen \in SUBSET Refs,
         c = [cmd[k] EXCEPT !.pc = phase, !.todo = todo, !.seen = seen]
  PROVE  Moves(k, phase, todo, seen)
<1>1. cmd[k] \in Command /\ cmd \in [Commands -> Command]
  BY DEF Inv, Types
<1>2. /\ c \in Command /\ c.pc = phase /\ c.todo = todo /\ c.seen = seen
      /\ c.req = cmd[k].req /\ c.at = cmd[k].at
  BY <1>1 DEF Command
<1>3. cmd'[k] = c /\ \A j \in Commands \ {k} : cmd'[j] = cmd[j]
  BY <1>1
<1>4. cmd' \in [Commands -> Command]
  BY <1>1, <1>2
<1> QED
  BY <1>2, <1>3, <1>4 DEF Moves

LEMMA SamePlace ==
  ASSUME Inv, NEW k \in Commands, NEW r \in Requests, Working(k, r),
         tree' = tree, cmd'[k].at = cmd[k].at
  PROVE  Sound(cmd[k].at)' /\ Tracked(cmd[k].at)'
<1>1. PICK p \in Places : p = cmd[k].at /\ p = cmd'[k].at
  BY RequestOf
<1>2. Sound(p) /\ Tracked(p)
  BY DEF Inv
<1>3. Sound(p)' /\ Tracked(p)'
  BY <1>2 DEF Sound, Tracked, Led
<1> QED
  BY <1>1, <1>3, SoundAt, Zenon

LEMMA CreateRootStep ==
  ASSUME Inv, NEW k \in Commands, NEW r \in Requests, Working(k, r), CreateRoot(k)
  PROVE  Inv'
<1>1. /\ cmd[k].pc = "root" /\ cmd[k].todo # <<>> /\ cmd[k].seen = {} /\ Live(k)
      /\ UNCHANGED <<marker, tree, head>>
      /\ cmd' = [cmd EXCEPT ![k].todo = Tail(@)]
  BY DEF CreateRoot, Working, Live
<1>2. cmd[k] \in Command /\ cmd \in [Commands -> Command]
  BY DEF Inv, Types
<1>3. Tail(cmd[k].todo) \in Seq(Parts)
  BY <1>1, <1>2, TodoShrinks DEF Command
<1>4. /\ cmd' = [cmd EXCEPT ![k] = [cmd[k] EXCEPT !.todo = Tail(cmd[k].todo)]]
      /\ [cmd[k] EXCEPT !.todo = Tail(cmd[k].todo)]
            = [cmd[k] EXCEPT !.pc = "root", !.todo = Tail(cmd[k].todo), !.seen = {}]
  BY <1>1, <1>2 DEF Command
<1>5. "root" \in Phases /\ "root" \in Phases \ {"idle"} /\ {} \in SUBSET Refs
  BY DEF Phases
<1>6. Moves(k, "root", Tail(cmd[k].todo), {})
  BY <1>3, <1>4, <1>5, MovesBy, Zenon
<1>7. Files' /\ \A q \in Places : tree'[q] = tree[q]
  BY <1>1 DEF Inv, Types, Files
<1>9. \A d \in Dirs : Claimed(d)' => Claimed(d)
  BY <1>1, <1>6 DEF Claimed, Moves
<1>10. Working(k, r)'
  BY <1>1, <1>6 DEF Working, Moves
<1>11. Sound(cmd[k].at)' /\ Tracked(cmd[k].at)'
  BY <1>1, <1>6, SamePlace DEF Moves
<1> QED
  BY <1>1, <1>5, <1>6, <1>7, <1>9, <1>10, <1>11, CommandStep, Zenon

LEMMA FirstProjectStep ==
  ASSUME Inv, NEW k \in Commands, NEW r \in Requests, Working(k, r), FirstProject(k)
  PROVE  Inv'
<1> DEFINE phase == IF AddRefuses(r) THEN "refused" ELSE "write"
           todo == Emitted(Roster(r.personas), TRUE)
<1>1. /\ cmd[k].pc = "root" /\ cmd[k].seen = {} /\ Live(k) /\ r.op = "init-monorepo"
      /\ Req(k) = r /\ r.dir \in Dirs
      /\ cmd[k].req = {r} /\ cmd[k].at = Grafted(r.dir) /\ cmd[k].at \in Places
  BY RequestOf DEF FirstProject, Working, Live, HomeOf
<1>2. UNCHANGED <<root, marker, tree, head>> /\ cmd \in [Commands -> Command]
  BY DEF FirstProject, Inv, Types
<1>3. todo \in Seq(Parts) /\ {"specs", "surfaces", "kits"} \subseteq ToSet(todo)
  BY EmittedParts, Zenon
<1>4. cmd' = [cmd EXCEPT ![k].pc = phase, ![k].todo = todo]
  BY <1>1, Zenon DEF FirstProject
<1> HIDE DEF todo
<1>5. phase \in Phases \ {"idle"} /\ phase \in Phases /\ {} \in SUBSET Refs
  BY DEF Phases
<1>6. Moves(k, phase, todo, {})
  <2> HIDE DEF phase
  <2>1. /\ cmd' = [cmd EXCEPT ![k] = [cmd[k] EXCEPT !.pc = phase, !.todo = todo]]
        /\ [cmd[k] EXCEPT !.pc = phase, !.todo = todo]
             = [cmd[k] EXCEPT !.pc = phase, !.todo = todo, !.seen = {}]
    BY <1>1, <1>2, <1>4 DEF Command
  <2> QED
    BY <1>3, <1>5, <2>1, MovesBy, Zenon
<1>7. Files' /\ \A q \in Places : tree'[q] = tree[q]
  BY <1>2 DEF Inv, Types, Files
<1>8. \A d \in Dirs : Claimed(d)' => Claimed(d)
  BY <1>1, <1>2, <1>6 DEF Claimed, Moves
<1>9. Working(k, r)'
  <2>1. CASE AddRefuses(r)
    BY <1>1, <1>6, <2>1 DEF Working, Moves
  <2>2. CASE ~AddRefuses(r)
    <3>1. /\ ~Occupied(Grafted(r.dir))
          /\ \A c \in r.code : ~Aliased(CodeRel(c, Grafted(r.dir), TRUE), Grafted(r.dir), TRUE)
      BY <2>2 DEF AddRefuses, ScaffoldRefuses
    <3>2. Led(cmd[k].at, r, TRUE) /\ tree[cmd[k].at].tear = "none" /\ ~tree[cmd[k].at].git
      BY <1>1, <3>1, EmptyHasNothing DEF Led
    <3>3. ~Claimed(r.dir)
      BY <3>1, ClaimedOccupies
    <3>4. Led(cmd[k].at, r, TRUE)' /\ ~Claimed(r.dir)'
      BY <1>1, <1>2, <1>6, <1>8, <3>2, <3>3 DEF Led, Moves
    <3>5. InRoot(r) = TRUE
      BY <1>1 DEF InRoot
    <3>6. phase = "write"
      BY <2>2
    <3>7. cmd'[k].todo = todo /\ cmd'[k].pc = "write" /\ cmd'[k].seen = {}
          /\ cmd'[k].req = {r} /\ cmd'[k].at = cmd[k].at /\ tree' = tree
      BY <1>1, <1>2, <1>6, <3>6 DEF Moves
    <3> QED
      BY <1>1, <1>3, <3>2, <3>4, <3>5, <3>7 DEF Working, HomeOf
  <2> QED
    BY <2>1, <2>2
<1>10. Sound(cmd[k].at)' /\ Tracked(cmd[k].at)'
  BY <1>2, <1>6, SamePlace DEF Moves
<1> QED
  BY <1>1, <1>2, <1>5, <1>6, <1>7, <1>8, <1>9, <1>10, CommandStep, Zenon

\* What one more batch of files makes of a directory at p, for the request r.
Gains(new, dir, r, p, part) ==
  /\ new.parts = dir.parts \cup {part} /\ new.git = dir.git
  /\ new.tear \in {dir.tear, "none"}
  /\ new.manifest = IF part = "manifest" THEN {ManifestOf(r, p, InRoot(r))} ELSE dir.manifest
  /\ new.kit = IF part = "kits" THEN {KitPaths(r, p, InRoot(r))} ELSE dir.kit

LEMMA WrittenGains ==
  ASSUME NEW k \in Commands, NEW r \in Requests, Working(k, r), cmd[k].at \in Places,
         NEW dir \in Directory, NEW part \in Parts
  PROVE  /\ Written(dir, k, part) \in Directory
         /\ Gains(Written(dir, k, part), dir, r, cmd[k].at, part)
<1> DEFINE tear == IF part = "manifest" THEN "none" ELSE dir.tear
           manifest == IF part = "manifest" THEN {ManifestOf(r, cmd[k].at, InRoot(r))}
                       ELSE dir.manifest
           kit == IF part = "kits" THEN {KitPaths(r, cmd[k].at, InRoot(r))} ELSE dir.kit
<1>1. Req(k) = r /\ InMono(k) = InRoot(r)
  BY RequestOf DEF InMono, InRoot
<1>2. Written(dir, k, part)
        = [dir EXCEPT !.parts = @ \cup {part}, !.tear = tear, !.manifest = manifest, !.kit = kit]
  BY <1>1, Zenon DEF Written
<1>3. InRoot(r) \in BOOLEAN
  BY DEF InRoot
<1>4. tear \in Tears /\ manifest \in SUBSET Manifests /\ kit \in SUBSET Kits
  BY <1>3 DEF Directory, Manifests, Kits, Tears
<1> HIDE DEF tear, manifest, kit
<1>5. PICK parts : parts = dir.parts \cup {part}
  OBVIOUS
<1>6. PICK new :
        new = [dir EXCEPT !.parts = parts, !.tear = tear, !.manifest = manifest, !.kit = kit]
  OBVIOUS
<1>7. /\ new \in Directory /\ new.parts = parts /\ new.git = dir.git
      /\ new.tear = tear /\ new.manifest = manifest /\ new.kit = kit
  <2>1. parts \in SUBSET Parts
    BY <1>5 DEF Directory
  <2> QED
    BY <1>4, <1>6, <2>1 DEF Directory
<1>8. new = Written(dir, k, part)
  <2>1. dir \in [parts : SUBSET Parts, manifest : SUBSET Manifests, tear : Tears,
                 git : BOOLEAN, kit : SUBSET Kits]
    BY DEF Directory
  <2> QED
    BY <1>2, <1>5, <1>6, <2>1
<1> QED
  BY <1>5, <1>7, <1>8, Zenon DEF tear, manifest, kit, Gains

LEMMA WriteStep ==
  ASSUME Inv, NEW k \in Commands, NEW r \in Requests, Working(k, r), Write(k)
  PROVE  Inv'
<1> DEFINE part == Head(cmd[k].todo)
           todo == Tail(cmd[k].todo)
<1>1. /\ cmd[k].pc = "write" /\ cmd[k].todo # <<>> /\ cmd[k].seen = {} /\ Live(k)
      /\ cmd[k].at \in Places /\ cmd[k].req = {r} /\ cmd[k].at = HomeOf(r)
      /\ UNCHANGED <<root, marker, head>> /\ r.dir \in Dirs
  BY RequestOf DEF Write, Working, Live
<1>2. /\ cmd[k] \in Command /\ cmd \in [Commands -> Command]
      /\ tree[cmd[k].at] \in Directory /\ tree \in [Places -> Directory]
  BY <1>1 DEF Inv, Types, Files
<1>3. /\ part \in Parts /\ todo \in Seq(Parts)
      /\ ToSet(cmd[k].todo) \subseteq {part} \cup ToSet(todo)
  BY <1>1, <1>2, TodoShrinks DEF Command
<1>4. cmd' = [cmd EXCEPT ![k].todo = todo]
  BY Zenon DEF Write
<1>5. tree' = [tree EXCEPT ![cmd[k].at] = Written(@, k, part)]
  BY Zenon DEF Write
<1> HIDE DEF part, todo
<1>6. "write" \in Phases \ {"idle"} /\ "write" \in Phases /\ {} \in SUBSET Refs
  BY DEF Phases
<1>7. Moves(k, "write", todo, {})
  <2>1. /\ cmd' = [cmd EXCEPT ![k] = [cmd[k] EXCEPT !.todo = todo]]
        /\ [cmd[k] EXCEPT !.todo = todo]
             = [cmd[k] EXCEPT !.pc = "write", !.todo = todo, !.seen = {}]
    BY <1>1, <1>2, <1>4 DEF Command
  <2> QED
    BY <1>3, <1>6, <2>1, MovesBy, Zenon
<1> PICK dir \in Directory : dir = tree[cmd[k].at]
  BY <1>2
<1>8. PICK new \in Directory :
        new = Written(dir, k, part) /\ Gains(new, dir, r, cmd[k].at, part)
  <2>1. cmd[k].at \in Places /\ part \in Parts
    BY <1>1, <1>3
  <2>2. /\ Written(dir, k, part) \in Directory
        /\ Gains(Written(dir, k, part), dir, r, cmd[k].at, part)
    BY <2>1, WrittenGains, Zenon
  <2> QED
    BY <2>2, Zenon
<1>9. /\ tree'[cmd[k].at] = new /\ \A q \in Places \ {cmd[k].at} : tree'[q] = tree[q]
      /\ tree' \in [Places -> Directory]
  BY <1>1, <1>2, <1>5, <1>8
<1>10. Files'
  BY <1>1, <1>9 DEF Inv, Types, Files
<1>11. \A d \in Dirs : Claimed(d)' => Claimed(d)
  BY <1>1, <1>7 DEF Claimed, Moves
<1>12. PICK p \in Places : p = cmd[k].at /\ p = cmd'[k].at
  BY <1>1, <1>7 DEF Moves
<1>13. Led(p, r, InRoot(r)) /\ Sound(p) /\ Tracked(p)
  BY <1>1, <1>12 DEF Inv, Working
<1>14. Led(p, r, InRoot(r))'
  BY <1>8, <1>9, <1>12, <1>13 DEF Led, Gains
<1>15. Sound(p)'
  <2>1. /\ new.manifest # {} => "manifest" \in new.parts
        /\ "manifest" \in new.parts => new.manifest # {}
        /\ new.kit # {} => "kits" \in new.parts
    BY <1>8, <1>12, <1>13 DEF Sound, Gains
  <2>2. \A m \in new.manifest : m.home = p
    BY <1>9, <1>12, <1>14 DEF Led, ManifestOf
  <2> QED
    BY <1>9, <1>12, <2>1, <2>2 DEF Sound
<1>16. Tracked(p)'
  <2>1. InRoot(r) \in BOOLEAN
    BY DEF InRoot
  <2>2. ASSUME NEW m \in tree'[p].manifest PROVE m = ManifestOf(r, p, InRoot(r))
    BY <1>14, <2>2 DEF Led
  <2> QED
    BY <1>14, <2>1, <2>2 DEF Tracked
<1>17. Working(k, r)'
  <2>1. /\ cmd'[k].pc = "write" /\ cmd'[k].todo = todo /\ cmd'[k].seen = {}
        /\ cmd'[k].req = {r} /\ cmd'[k].at = HomeOf(r) /\ cmd'[k].at = p
    BY <1>1, <1>7, <1>12 DEF Moves
  <2>2. InRoot(r) =>
          /\ ~Claimed(r.dir)' /\ new.tear = "none" /\ ~new.git
          /\ {"specs", "surfaces", "kits"} \subseteq new.parts \cup ToSet(todo)
    BY <1>1, <1>3, <1>8, <1>11 DEF Working, Gains
  <2>3. Led(cmd[k].at, r, InRoot(r))'
    BY <1>12, <1>14 DEF Led
  <2> QED
    BY <1>9, <1>12, <2>1, <2>2, <2>3 DEF Working, HomeOf
<1>18. Sound(cmd[k].at)' /\ Tracked(cmd[k].at)'
  BY <1>12, <1>15, <1>16, SoundAt, Zenon
<1> QED
  BY <1>1, <1>6, <1>7, <1>9, <1>10, <1>11, <1>17, <1>18, CommandStep, Zenon

LEMMA FinishInitStep ==
  ASSUME Inv, NEW k \in Commands, NEW r \in Requests, Working(k, r), FinishInit(k)
  PROVE  Inv'
<1>1. /\ cmd[k].pc = "write" /\ cmd[k].seen = {} /\ Live(k) /\ Req(k) = r /\ ~InRoot(r)
      /\ cmd[k].at \in Places /\ cmd[k].req = {r} /\ r.dir \in Dirs
      /\ UNCHANGED <<root, marker, head>>
      /\ cmd' = [cmd EXCEPT ![k].pc = "done"]
  BY RequestOf DEF FinishInit, Working, Live, InMono, InRoot
<1>2. /\ cmd[k] \in Command /\ cmd \in [Commands -> Command]
      /\ tree[cmd[k].at] \in Directory /\ tree \in [Places -> Directory]
  BY <1>1 DEF Inv, Types, Files
<1>3. PICK git \in BOOLEAN : tree' = [tree EXCEPT ![cmd[k].at].git = git]
  BY DEF FinishInit
<1>4. PICK todo \in Seq(Parts) : todo = cmd[k].todo
  BY <1>2 DEF Command
<1>5. "done" \in Phases \ {"idle"} /\ "done" \in Phases /\ {} \in SUBSET Refs
  BY DEF Phases
<1>6. Moves(k, "done", todo, {})
  <2>1. /\ cmd' = [cmd EXCEPT ![k] = [cmd[k] EXCEPT !.pc = "done"]]
        /\ [cmd[k] EXCEPT !.pc = "done"]
             = [cmd[k] EXCEPT !.pc = "done", !.todo = todo, !.seen = {}]
    BY <1>1, <1>2, <1>4 DEF Command
  <2> QED
    BY <1>4, <1>5, <2>1, MovesBy, Zenon
<1>7. PICK p \in Places : p = cmd[k].at /\ p = cmd'[k].at
  BY <1>1, <1>6 DEF Moves
<1>8. PICK dir \in Directory : dir = tree[p]
  BY <1>2, <1>7
<1>9. /\ tree' \in [Places -> Directory] /\ \A q \in Places \ {p} : tree'[q] = tree[q]
      /\ tree'[p].parts = tree[p].parts /\ tree'[p].manifest = tree[p].manifest
      /\ tree'[p].kit = tree[p].kit
  <2>1. [dir EXCEPT !.git = git] \in Directory
    BY DEF Directory
  <2>2. tree' = [tree EXCEPT ![p] = [dir EXCEPT !.git = git]]
    BY <1>2, <1>3, <1>7, <1>8
  <2> QED
    BY <1>2, <1>8, <2>1, <2>2 DEF Directory
<1>10. Files' /\ \A q \in Places \ {cmd[k].at} : tree'[q] = tree[q]
  BY <1>1, <1>7, <1>9 DEF Inv, Types, Files
<1>11. \A d \in Dirs : Claimed(d)' => Claimed(d)
  BY <1>1, <1>6 DEF Claimed, Moves
<1>12. Working(k, r)'
  BY <1>1, <1>6 DEF Working, Moves
<1>13. Sound(p)' /\ Tracked(p)'
  <2>1. Sound(p) /\ Tracked(p)
    BY DEF Inv
  <2>2. Sound(p)'
    BY <1>9, <2>1 DEF Sound
  <2>3. Tracked(p)'
    BY <1>9, <2>1 DEF Tracked, Led
  <2> QED
    BY <2>2, <2>3
<1>14. Sound(cmd[k].at)' /\ Tracked(cmd[k].at)'
  BY <1>7, <1>13, SoundAt, Zenon
<1>15. head.dirs \subseteq head'.dirs /\ cmd[k].pc # "commit"
  BY <1>1
<1> QED
  BY <1>1, <1>5, <1>6, <1>10, <1>11, <1>12, <1>14, <1>15, CommandStep, Zenon

\* Only what is on disk and complete is registered.
LEMMA RegisterLoadStep ==
  ASSUME Inv, NEW k \in Commands, NEW r \in Requests, Working(k, r), RegisterLoad(k)
  PROVE  Inv'
<1>1. /\ cmd[k].pc \in {"load", "write"} /\ cmd[k].seen = {} /\ Live(k) /\ Req(k) = r
      /\ cmd[k].pc = "write" => Scaffolded(k)
      /\ cmd[k].at \in Places /\ cmd[k].req = {r} /\ r.dir \in Dirs
      /\ cmd[k].at = HomeOf(r) /\ InRoot(r)
      /\ UNCHANGED <<root, marker, tree, head>>
  BY RequestOf DEF RegisterLoad, Working, Live, InMono, InRoot
<1>2. /\ cmd[k] \in Command /\ cmd \in [Commands -> Command]
  BY DEF Inv, Types
<1>3. PICK phase \in Phases \ {"idle"}, todo \in Seq(Parts), seen \in SUBSET Refs :
        /\ Moves(k, phase, todo, seen)
        /\ \/ phase = "refused" /\ seen = {}
           \/ phase = "register" /\ seen = marker.projects
  <2> PICK todo \in Seq(Parts) : todo = cmd[k].todo
    BY <1>2 DEF Command
  <2>1. {} \in SUBSET Refs /\ marker.projects \in SUBSET Refs
    BY DEF Inv, Types, Files
  <2>2. "refused" \in Phases \ {"idle"} /\ "register" \in Phases \ {"idle"}
    BY DEF Phases
  <2>3. CASE ~Loads \/ Registered(Req(k).dir)
    <3>1. cmd' = [cmd EXCEPT ![k].pc = "refused"]
      BY <2>3, Zenon DEF RegisterLoad
    <3>2. /\ cmd' = [cmd EXCEPT ![k] = [cmd[k] EXCEPT !.pc = "refused"]]
          /\ [cmd[k] EXCEPT !.pc = "refused"]
               = [cmd[k] EXCEPT !.pc = "refused", !.todo = todo, !.seen = {}]
      BY <1>1, <1>2, <3>1 DEF Command
    <3>3. Moves(k, "refused", todo, {})
      BY <2>1, <2>2, <3>2, MovesBy, Zenon
    <3> QED
      BY <2>1, <2>2, <3>3
  <2>4. CASE ~(~Loads \/ Registered(Req(k).dir))
    <3> PICK listed \in SUBSET Refs : listed = marker.projects
      BY <2>1
    <3>1. cmd' = [cmd EXCEPT ![k].pc = "register", ![k].seen = listed]
      BY <2>4, Zenon DEF RegisterLoad
    <3>2. /\ cmd' = [cmd EXCEPT ![k] = [cmd[k] EXCEPT !.pc = "register", !.seen = listed]]
          /\ [cmd[k] EXCEPT !.pc = "register", !.seen = listed]
               = [cmd[k] EXCEPT !.pc = "register", !.todo = todo, !.seen = listed]
      BY <1>2, <3>1 DEF Command
    <3>3. Moves(k, "register", todo, listed)
      BY <2>2, <3>2, MovesBy, Zenon
    <3> QED
      BY <2>2, <3>3
  <2> QED
    BY <2>3, <2>4
<1>4. Files' /\ \A q \in Places : tree'[q] = tree[q]
  BY <1>1 DEF Inv, Types, Files
<1>5. \A d \in Dirs : Claimed(d)' => Claimed(d)
  BY <1>1, <1>3 DEF Claimed, Moves
<1>6. Readable(cmd[k].at) /\ (r.op = "adopt-project" \/ Complete(cmd[k].at))
  <2>1. CASE cmd[k].pc = "load"
    BY <2>1 DEF Working
  <2>2. CASE cmd[k].pc = "write"
    <3>1. cmd[k].todo = <<>> /\ "manifest" \in tree[cmd[k].at].parts
      BY <1>1, <2>2 DEF Scaffolded
    <3>2. ToSet(cmd[k].todo) = {}
      BY <3>1 DEF ToSet
    <3>3. Sound(cmd[k].at)
      BY <1>1 DEF Inv
    <3> QED
      BY <1>1, <2>2, <3>1, <3>2, <3>3 DEF Working, Sound, Readable, Complete
  <2> QED
    BY <1>1, <2>1, <2>2
<1>7. Working(k, r)'
  BY <1>1, <1>3, <1>6 DEF Working, Moves, Readable, Complete, HomeOf
<1>8. Sound(cmd[k].at)' /\ Tracked(cmd[k].at)'
  BY <1>1, <1>3, SamePlace DEF Moves
<1>9. head.dirs \subseteq head'.dirs /\ cmd[k].pc # "commit"
  BY <1>1
<1> QED
  BY <1>1, <1>3, <1>4, <1>5, <1>7, <1>8, <1>9, CommandStep, Zenon

LEMMA RegisterWriteStep ==
  ASSUME Inv, NEW k \in Commands, NEW r \in Requests, Working(k, r), RegisterWrite(k)
  PROVE  Inv'
<1> DEFINE ref == [dir |-> r.dir, name |-> r.name]
<1>1. /\ cmd[k].pc = "register" /\ Live(k) /\ Req(k) = r
      /\ cmd[k].at \in Places /\ cmd[k].req = {r} /\ r.dir \in Dirs
      /\ cmd[k].at = Grafted(r.dir) /\ InRoot(r)
      /\ UNCHANGED <<root, tree, head>>
      /\ cmd' = [cmd EXCEPT ![k].pc = "commit", ![k].seen = {}]
  BY RequestOf DEF RegisterWrite, Working, Live, InRoot, HomeOf
<1>2. marker' = [torn |-> FALSE, projects |-> cmd[k].seen \cup {ref}]
  BY <1>1, Zenon DEF RegisterWrite, Listing
<1>3. /\ cmd[k] \in Command /\ cmd \in [Commands -> Command]
  BY DEF Inv, Types
<1>4. PICK todo \in Seq(Parts) : todo = cmd[k].todo
  BY <1>3 DEF Command
<1>5. "commit" \in Phases \ {"idle"} /\ "commit" \in Phases /\ {} \in SUBSET Refs
  BY DEF Phases
<1>6. Moves(k, "commit", todo, {})
  <2>1. /\ cmd' = [cmd EXCEPT ![k] = [cmd[k] EXCEPT !.pc = "commit", !.seen = {}]]
        /\ [cmd[k] EXCEPT !.pc = "commit", !.seen = {}]
             = [cmd[k] EXCEPT !.pc = "commit", !.todo = todo, !.seen = {}]
    BY <1>1, <1>3, <1>4 DEF Command
  <2> QED
    BY <1>4, <1>5, <2>1, MovesBy, Zenon
<1>7. ref \in Refs /\ ref.dir = r.dir
  BY <1>1 DEF Refs
<1>8. Files' /\ \A q \in Places : tree'[q] = tree[q]
  <2> HIDE DEF ref
  <2>1. cmd[k].seen \cup {ref} \in SUBSET Refs
    BY <1>3, <1>7 DEF Command
  <2> QED
    BY <1>1, <1>2, <2>1 DEF Inv, Types, Files
<1>9. ASSUME NEW d \in Dirs, Claimed(d)'
      PROVE  Claimed(d) \/ d = r.dir
  <2> HIDE DEF ref
  <2>1. /\ \A j \in Commands : cmd'[j].seen \subseteq cmd[j].seen
        /\ marker'.projects = cmd[k].seen \cup {ref} /\ head' = head
    BY <1>1, <1>2, <1>6 DEF Moves
  <2>2. PICK e : /\ e.dir = d
                 /\ \/ e \in cmd[k].seen \cup {ref} \cup head.projects
                    \/ \E j \in Commands : e \in cmd[j].seen
    BY <1>9, <2>1 DEF Claimed
  <2>3. CASE e = ref
    BY <1>7, <2>2, <2>3
  <2>4. CASE e # ref
    BY <2>2, <2>4 DEF Claimed
  <2> QED
    BY <2>3, <2>4
<1>10. Whole(r.dir)' /\ Accounted(r.dir)'
  <2>1. cmd'[k].pc = "commit" /\ r \in cmd'[k].req
    BY <1>1, <1>6 DEF Moves
  <2>2. Accounted(r.dir)' /\ (r.op = "adopt-project" => Adopted(r.dir)')
    BY <2>1 DEF Accounted, Adopted, Committing
  <2>3. Readable(Grafted(r.dir)) /\ (r.op = "adopt-project" \/ Complete(Grafted(r.dir)))
    BY <1>1 DEF Working
  <2> QED
    BY <1>1, <2>2, <2>3 DEF Whole, Readable, Complete
<1>11. Working(k, r)'
  BY <1>1, <1>6 DEF Working, Moves, HomeOf
<1>12. Sound(cmd[k].at)' /\ Tracked(cmd[k].at)'
  BY <1>1, <1>6, SamePlace DEF Moves
<1>13. head.dirs \subseteq head'.dirs /\ cmd[k].pc # "commit"
  BY <1>1
<1>14. \A d \in Dirs : Claimed(d)' => Claimed(d) \/ (d = r.dir /\ Whole(d)' /\ Accounted(d)')
  BY <1>9, <1>10 DEF Whole, Accounted, Readable, Complete, Adopted
<1> QED
  BY <1>1, <1>5, <1>6, <1>8, <1>11, <1>12, <1>13, <1>14, CommandStep, Zenon

LEMMA CommitStep ==
  ASSUME Inv, NEW k \in Commands, NEW r \in Requests, Working(k, r), Commit(k)
  PROVE  Inv'
<1>1. /\ cmd[k].pc = "commit" /\ cmd[k].seen = {} /\ Live(k) /\ Req(k) = r
      /\ cmd[k].at \in Places /\ cmd[k].req = {r} /\ r.dir \in Dirs
      /\ UNCHANGED <<marker, tree>>
  BY RequestOf DEF Commit, Working, Live
<1>2. /\ cmd[k] \in Command /\ cmd \in [Commands -> Command]
  BY DEF Inv, Types
<1>3. PICK todo \in Seq(Parts) : todo = cmd[k].todo
  BY <1>2 DEF Command
<1>4. PICK phase \in {"done", "uncommitted"} :
        /\ cmd' = [cmd EXCEPT ![k].pc = phase]
        /\ \/ phase = "done" /\ head' = [projects |-> marker.projects,
                                        dirs |-> head.dirs \cup {r.dir}]
           \/ phase = "uncommitted" /\ head' = head
  <2>1. CASE head' = [projects |-> marker.projects, dirs |-> head.dirs \cup Staged(k)]
             /\ cmd' = [cmd EXCEPT ![k].pc = "done"]
    BY <1>1, <2>1 DEF Staged
  <2>2. CASE cmd' = [cmd EXCEPT ![k].pc = "uncommitted"] /\ UNCHANGED head
    BY <2>2
  <2> QED
    BY <2>1, <2>2, Zenon DEF Commit
<1>5. phase \in Phases \ {"idle"} /\ phase \in Phases /\ {} \in SUBSET Refs
  BY DEF Phases
<1>6. Moves(k, phase, todo, {})
  <2>1. /\ cmd' = [cmd EXCEPT ![k] = [cmd[k] EXCEPT !.pc = phase]]
        /\ [cmd[k] EXCEPT !.pc = phase]
             = [cmd[k] EXCEPT !.pc = phase, !.todo = todo, !.seen = {}]
    BY <1>1, <1>2, <1>3, <1>4 DEF Command
  <2> QED
    BY <1>3, <1>5, <2>1, MovesBy, Zenon
<1>7. /\ head.dirs \subseteq head'.dirs
      /\ head'.projects \subseteq head.projects \cup marker.projects
      /\ phase = "done" => r.dir \in head'.dirs
      /\ head' \in [projects : SUBSET Refs, dirs : SUBSET Dirs]
  BY <1>1, <1>4 DEF Inv, Types, Files
<1>8. Files' /\ \A q \in Places : tree'[q] = tree[q]
  BY <1>1, <1>7 DEF Inv, Types, Files
<1>9. \A d \in Dirs : Claimed(d)' => Claimed(d)
  BY <1>1, <1>6, <1>7 DEF Claimed, Moves
<1>10. Working(k, r)'
  BY <1>1, <1>4, <1>6 DEF Working, Moves
<1>11. Sound(cmd[k].at)' /\ Tracked(cmd[k].at)'
  BY <1>1, <1>6, SamePlace DEF Moves
<1>12. phase \in {"dead", "uncommitted"} \/ (phase = "done" /\ r.dir \in head'.dirs)
  BY <1>7
<1> QED
  BY <1>1, <1>5, <1>6, <1>7, <1>8, <1>9, <1>10, <1>11, <1>12, CommandStep, Zenon

\* A death leaves a broken or a blank manifest only where nothing is registered yet.
LEMMA DieStep ==
  ASSUME Inv, NEW k \in Commands, NEW r \in Requests, Working(k, r), Die(k)
  PROVE  Inv'
<1>1. /\ Live(k) /\ cmd[k].at \in Places /\ cmd[k].req = {r} /\ r.dir \in Dirs
      /\ UNCHANGED <<root, head>>
      /\ cmd' = [cmd EXCEPT ![k].pc = "dead", ![k].todo = <<>>, ![k].seen = {}]
  BY RequestOf DEF Die, Working
<1>2. /\ cmd[k] \in Command /\ cmd \in [Commands -> Command]
      /\ tree[cmd[k].at] \in Directory /\ tree \in [Places -> Directory]
  BY <1>1 DEF Inv, Types, Files
<1>3. "dead" \in Phases \ {"idle"} /\ "dead" \in Phases /\ {} \in SUBSET Refs
  BY DEF Phases
<1>4. PICK todo \in Seq(Parts) : todo = <<>>
  <2>1. <<>> \in Seq(Parts)
    OBVIOUS
  <2> QED
    BY <2>1, Zenon
<1>5. Moves(k, "dead", todo, {})
  <2>1. /\ cmd' = [cmd EXCEPT ![k] =
                     [cmd[k] EXCEPT !.pc = "dead", !.todo = todo, !.seen = {}]]
    BY <1>1, <1>2, <1>4 DEF Command
  <2> QED
    BY <1>3, <2>1, MovesBy, Zenon
<1>6. PICK p \in Places : p = cmd[k].at /\ p = cmd'[k].at
  BY <1>1, <1>5 DEF Moves
<1>7. PICK dir \in Directory : dir = tree[p]
  BY <1>2, <1>6
<1>8. /\ tree' \in [Places -> Directory]
      /\ \A q \in Places \ {p} : tree'[q] = tree[q]
      /\ tree'[p] = tree[p] \/ cmd[k].pc = "write"
      /\ tree'[p].parts = tree[p].parts /\ tree'[p].manifest = tree[p].manifest
      /\ tree'[p].kit = tree[p].kit
  <2>1. CASE tree' = tree
    BY <1>2, <2>1
  <2>2. CASE /\ cmd[k].pc = "write"
            /\ \E left \in {"broken", "blank"} : tree' = [tree EXCEPT ![cmd[k].at].tear = left]
    <3> PICK left \in {"broken", "blank"} : tree' = [tree EXCEPT ![cmd[k].at].tear = left]
      BY <2>2
    <3> PICK new : new = [dir EXCEPT !.tear = left]
      OBVIOUS
    <3>1. /\ new \in Directory /\ new.parts = dir.parts /\ new.manifest = dir.manifest
          /\ new.kit = dir.kit
      BY DEF Directory, Tears
    <3>2. tree' = [tree EXCEPT ![p] = new]
      BY <1>2, <1>6, <1>7, <2>2
    <3> QED
      BY <1>2, <1>7, <2>2, <3>1, <3>2
  <2> QED
    BY <2>1, <2>2, Zenon DEF Die
<1>9. /\ marker' \in [torn : BOOLEAN, projects : SUBSET Refs]
      /\ marker'.projects = marker.projects
  <2> PICK m \in [torn : BOOLEAN, projects : SUBSET Refs] : m = marker
    BY DEF Inv, Types, Files
  <2>1. CASE marker' = marker
    BY <2>1
  <2>2. CASE marker' = [marker EXCEPT !.torn = TRUE]
    BY <2>2
  <2> QED
    BY <2>1, <2>2, Zenon DEF Die
<1>10. Files' /\ \A q \in Places \ {cmd[k].at} : tree'[q] = tree[q]
  BY <1>1, <1>6, <1>8, <1>9 DEF Inv, Types, Files
<1>11. tree'[cmd[k].at] = tree[cmd[k].at] \/ cmd[k].pc = "write"
  BY <1>6, <1>8
<1>12. \A d \in Dirs : Claimed(d)' => Claimed(d)
  BY <1>1, <1>5, <1>9 DEF Claimed, Moves
<1>13. Working(k, r)'
  BY <1>1, <1>5 DEF Working, Moves
<1>14. Sound(p)' /\ Tracked(p)'
  <2>1. Sound(p) /\ Tracked(p)
    BY DEF Inv
  <2>2. Sound(p)'
    BY <1>8, <2>1 DEF Sound
  <2>3. Tracked(p)'
    BY <1>8, <2>1 DEF Tracked, Led
  <2> QED
    BY <2>2, <2>3
<1>15. Sound(cmd[k].at)' /\ Tracked(cmd[k].at)'
  BY <1>6, <1>14, SoundAt, Zenon
<1>16. head.dirs \subseteq head'.dirs
  BY <1>1
<1>17. "dead" \in {"dead", "uncommitted"}
  OBVIOUS
<1> QED
  BY <1>1, <1>3, <1>5, <1>10, <1>11, <1>12, <1>13, <1>15, <1>16, <1>17, CommandStep, Zenon

-------------------------------------------------------------------------------
(***************************************************************************)
(* A command's first step, and what people do                              *)
(***************************************************************************)

\* An empty directory satisfies whatever is asked of a request for it.
LEMMA StartsSound ==
  ASSUME Inv, NEW r \in Requests, ~RefusesAtOnce(r), r.op \in {"init", "add-project"}
  PROVE  /\ Led(HomeOf(r), r, InRoot(r))
         /\ InRoot(r) => /\ ~Claimed(r.dir) /\ tree[HomeOf(r)].tear = "none"
                         /\ ~tree[HomeOf(r)].git
<1>1. r.dir \in Dirs
  BY DEF Dirs
<1>2. HomeOf(r) \in Places /\ (InRoot(r) <=> \E d \in Dirs : HomeOf(r) = Grafted(d))
  BY <1>1, PlacesApart DEF HomeOf, InRoot
<1>3. /\ ~Occupied(HomeOf(r))
      /\ \A c \in r.code : ~Aliased(CodeRel(c, HomeOf(r), InRoot(r)), HomeOf(r), InRoot(r))
  <2>1. CASE r.op = "init"
    <3>1. ~ScaffoldRefuses(r, Standalone(r.dir), FALSE, Occupied(Standalone(r.dir)))
      BY <2>1 DEF RefusesAtOnce, InitRefuses
    <3>2. /\ ~Occupied(Standalone(r.dir))
          /\ \A c \in r.code : ~Aliased(CodeRel(c, Standalone(r.dir), FALSE),
                                        Standalone(r.dir), FALSE)
      BY <3>1, Zenon DEF ScaffoldRefuses
    <3>3. InRoot(r) = FALSE /\ HomeOf(r) = Standalone(r.dir)
      BY <2>1 DEF InRoot, HomeOf
    <3> QED
      BY <3>2, <3>3
  <2>2. CASE r.op = "add-project"
    <3>1. ~ScaffoldRefuses(r, Grafted(r.dir), TRUE, Occupied(Grafted(r.dir)))
      BY <2>2 DEF RefusesAtOnce, AddRefuses
    <3>2. /\ ~Occupied(Grafted(r.dir))
          /\ \A c \in r.code : ~Aliased(CodeRel(c, Grafted(r.dir), TRUE), Grafted(r.dir), TRUE)
      BY <3>1, Zenon DEF ScaffoldRefuses
    <3>3. InRoot(r) = TRUE /\ HomeOf(r) = Grafted(r.dir)
      BY <2>2 DEF InRoot, HomeOf
    <3> QED
      BY <3>2, <3>3
  <2> QED
    BY <2>1, <2>2
<1>4. /\ tree[HomeOf(r)].manifest = {} /\ tree[HomeOf(r)].kit = {}
      /\ tree[HomeOf(r)].tear = "none" /\ ~tree[HomeOf(r)].git
  BY <1>2, <1>3, EmptyHasNothing
<1>5. InRoot(r) => ~Claimed(r.dir)
  BY <1>3, ClaimedOccupies DEF HomeOf, InRoot
<1> QED
  BY <1>2, <1>3, <1>4, <1>5 DEF Led

LEMMA StartStep ==
  ASSUME Inv, NEW k \in Commands, NEW r \in Requests, Start(k, r)
  PROVE  Inv'
<1> DEFINE phase == IF RefusesAtOnce(r) THEN "refused" ELSE FirstPc(r)
           todo == IF r.op = "init-monorepo" THEN Seam
                   ELSE Emitted(Roster(r.personas), r.op # "init")
<1>1. /\ cmd[k].pc = "idle" /\ cmd[k].req = {} /\ cmd[k].seen = {}
      /\ UNCHANGED <<root, marker, tree, head>>
  BY DEF Start, Inv, Waiting, Working
<1>2. cmd \in [Commands -> Command] /\ r.dir \in Dirs /\ HomeOf(r) \in Places
  <2>1. r.dir \in Dirs
    BY DEF Dirs
  <2> QED
    BY <2>1, PlacesApart DEF Inv, Types, HomeOf
<1>3. r.op \in {"init", "init-monorepo", "add-project", "adopt-project"}
  BY MonorepoAssumption
<1>4. /\ todo \in Seq(Parts)
      /\ r.op # "init-monorepo" => {"specs", "surfaces", "kits"} \subseteq ToSet(todo)
  <2>1. CASE r.op = "init-monorepo"
    BY <2>1 DEF Seam, Marker, Parts
  <2>2. CASE r.op # "init-monorepo"
    <3>1. todo = Emitted(Roster(r.personas), r.op # "init")
      BY <2>2
    <3> HIDE DEF todo
    <3> QED
      BY <3>1, EmittedParts, Zenon
  <2> QED
    BY <2>1, <2>2
<1>5. /\ phase \in {"refused", "root", "write", "load"}
      /\ phase = "root" => r.op = "init-monorepo"
      /\ phase = "load" => r.op = "adopt-project" /\ ~RefusesAtOnce(r)
      /\ phase = "write" => r.op \in {"init", "add-project"} /\ ~RefusesAtOnce(r)
  <2>1. CASE RefusesAtOnce(r)
    BY <2>1
  <2>2. CASE ~RefusesAtOnce(r)
    <3>1. phase = FirstPc(r)
      BY <2>2
    <3>2. CASE r.op = "init-monorepo"
      BY <3>1, <3>2 DEF FirstPc
    <3>3. CASE r.op = "adopt-project"
      BY <2>2, <3>1, <3>3 DEF FirstPc
    <3>4. CASE r.op = "init"
      BY <2>2, <3>1, <3>4 DEF FirstPc
    <3>5. CASE r.op = "add-project"
      BY <2>2, <3>1, <3>5 DEF FirstPc
    <3> QED
      BY <1>3, <3>2, <3>3, <3>4, <3>5
  <2> QED
    BY <2>1, <2>2
<1>6. cmd' = [cmd EXCEPT ![k] = [pc |-> phase, req |-> {r}, at |-> HomeOf(r), seen |-> {},
                                 todo |-> todo]]
  BY Zenon DEF Start, HomeOf
<1> HIDE DEF phase, todo
<1>7. /\ cmd' \in [Commands -> Command]
      /\ cmd'[k].pc = phase /\ cmd'[k].req = {r} /\ cmd'[k].at = HomeOf(r)
      /\ cmd'[k].seen = {} /\ cmd'[k].todo = todo
      /\ \A j \in Commands \ {k} : cmd'[j] = cmd[j]
  <2> PICK c : c = [pc |-> phase, req |-> {r}, at |-> HomeOf(r), seen |-> {}, todo |-> todo]
    OBVIOUS
  <2>1. /\ c.pc = phase /\ c.req = {r} /\ c.at = HomeOf(r) /\ c.seen = {} /\ c.todo = todo
        /\ c \in Command
    BY <1>2, <1>4, <1>5 DEF Command, Phases
  <2>2. cmd' = [cmd EXCEPT ![k] = c]
    BY <1>6
  <2> QED
    BY <1>2, <2>1, <2>2
<1>8. Types'
  BY <1>1, <1>7 DEF Inv, Types, Files
<1>9. \A d : Claimed(d)' => Claimed(d)
  BY <1>1, <1>7 DEF Claimed
<1>10. Working(k, r)'
  <2>1. CASE phase \in {"refused", "root"}
    BY <1>5, <1>7, <2>1 DEF Working, HomeOf
  <2>2. CASE phase = "load"
    <3>1. /\ tree[Grafted(r.dir)].manifest # {} \/ tree[Grafted(r.dir)].tear = "blank"
          /\ tree[Grafted(r.dir)].tear # "broken" /\ ~tree[Grafted(r.dir)].git
      BY <1>5, <2>2, Zenon DEF RefusesAtOnce, AdoptRefuses
    <3> QED
      BY <1>1, <1>5, <1>7, <2>2, <3>1 DEF Working, HomeOf, InRoot, Readable
  <2>3. CASE phase = "write"
    <3>1. /\ Led(HomeOf(r), r, InRoot(r))
          /\ InRoot(r) => /\ ~Claimed(r.dir) /\ tree[HomeOf(r)].tear = "none"
                          /\ ~tree[HomeOf(r)].git
      BY <1>5, <2>3, StartsSound
    <3>2. r.op # "init-monorepo" /\ {"specs", "surfaces", "kits"} \subseteq ToSet(todo)
      BY <1>4, <1>5, <2>3
    <3>3. PICK p \in Places : p = HomeOf(r)
      BY <1>2
    <3>4. Led(p, r, InRoot(r))'
      BY <1>1, <3>1, <3>3 DEF Led
    <3>5. cmd'[k].at = p
      BY <1>7, <3>3
    <3>6. Led(cmd[k].at, r, InRoot(r))'
      BY <3>4, <3>5 DEF Led
    <3>7. InRoot(r) => ~Claimed(r.dir)' /\ tree'[p].tear = "none" /\ ~tree'[p].git
      BY <1>1, <1>9, <3>1, <3>3
    <3> QED
      BY <1>7, <2>3, <3>2, <3>3, <3>5, <3>6, <3>7 DEF Working, HomeOf
  <2> QED
    BY <1>5, <2>1, <2>2, <2>3
<1>11. ASSUME NEW j \in Commands \ {k}
       PROVE  /\ (Waiting(j) \/ \E s \in Requests : Working(j, s))'
              /\ Live(j)' => \A s \in cmd'[j].req : s.dir # r.dir
  <2>1. CASE Waiting(j)
    BY <1>7, <2>1 DEF Waiting, Live
  <2>2. ASSUME NEW s \in Requests, Working(j, s)
        PROVE  Working(j, s)' /\ (Live(j)' => \A q \in cmd'[j].req : q.dir # r.dir)
    <3>1. cmd'[j] = cmd[j] /\ tree' = tree /\ (Claimed(s.dir)' => Claimed(s.dir))
      BY <1>1, <1>7, <1>9
    <3>2. Working(j, s)'
      BY <2>2, <3>1 DEF Working, Led, Readable, Complete
    <3>3. Live(j) => s.dir # r.dir
      BY <2>2, RequestOf DEF Start
    <3>4. cmd'[j].req = {s}
      BY <2>2, <3>1 DEF Working
    <3> QED
      BY <3>1, <3>2, <3>3, <3>4 DEF Live
  <2> QED
    BY <2>1, <2>2 DEF Inv
<1>12. ASSUME NEW i \in Commands, NEW j \in Commands, i # j PROVE Apart(i, j)'
  <2>1. CASE i = k
    BY <1>7, <1>11, <1>12, <2>1 DEF Apart
  <2>2. CASE j = k
    BY <1>7, <1>11, <1>12, <2>2 DEF Apart
  <2>3. CASE i # k /\ j # k
    <3>1. Apart(i, j) /\ cmd'[i] = cmd[i] /\ cmd'[j] = cmd[j]
      BY <1>7, <1>12, <2>3 DEF Inv
    <3> QED
      BY <3>1 DEF Apart, Live
  <2> QED
    BY <2>1, <2>2, <2>3
<1>13. ASSUME NEW p \in Places PROVE Sound(p)' /\ Tracked(p)'
  BY <1>1 DEF Inv, Sound, Tracked, Led
<1>14. ASSUME NEW d \in Dirs, Claimed(d)' PROVE Whole(d)' /\ Accounted(d)'
  <2>1. Whole(d) /\ Accounted(d)
    BY <1>9, <1>14 DEF Inv
  <2>2. Adopted(d) => Adopted(d)'
    BY <1>1, <1>7 DEF Adopted
  <2>3. Accounted(d)'
    BY <1>1, <1>7, <2>1 DEF Accounted
  <2> QED
    BY <1>1, <2>1, <2>2, <2>3 DEF Whole, Readable, Complete
<1> QED
  BY <1>7, <1>8, <1>10, <1>11, <1>12, <1>13, <1>14 DEF Inv

\* What is done by hand to directories that no command works on and nothing lists.
LEMMA HandStep ==
  ASSUME Inv, UNCHANGED <<marker, head, cmd>>, tree' \in [Places -> Directory],
         NEW touched \in SUBSET Places,
         \A q \in Places \ touched : tree'[q] = tree[q],
         \A p \in touched : Sound(p)' /\ Tracked(p)',
         \A j \in Commands, s \in Requests : Working(j, s) /\ Live(j) => HomeOf(s) \notin touched,
         \A d \in Dirs : Claimed(d) => Grafted(d) \notin touched
  PROVE  Inv'
<1>1. Types'
  BY DEF Inv, Types, Files
<1>2. \A d : Claimed(d)' => Claimed(d)
  BY DEF Claimed
<1>3. ASSUME NEW j \in Commands PROVE (Waiting(j) \/ \E s \in Requests : Working(j, s))'
  <2>1. CASE Waiting(j)
    BY <2>1 DEF Waiting
  <2>2. ASSUME NEW s \in Requests, Working(j, s) PROVE Working(j, s)'
    <3>1. cmd[j].at \in Places /\ cmd[j].at = HomeOf(s) /\ cmd' = cmd
      BY <2>2, RequestOf DEF Working
    <3>2. CASE ~Live(j)
      BY <2>2, <3>1, <3>2 DEF Working, Live
    <3>3. CASE Live(j)
      <4>1. tree'[cmd[j].at] = tree[cmd[j].at]
        BY <2>2, <3>1, <3>3
      <4> QED
        BY <1>2, <2>2, <3>1, <4>1 DEF Working, Led, Readable, Complete
    <3> QED
      BY <3>2, <3>3
  <2> QED
    BY <2>1, <2>2 DEF Inv
<1>4. ASSUME NEW i \in Commands, NEW j \in Commands, i # j PROVE Apart(i, j)'
  BY <1>4 DEF Inv, Apart, Live
<1>5. ASSUME NEW p \in Places PROVE Sound(p)' /\ Tracked(p)'
  <2>1. CASE p \in touched
    BY <2>1
  <2>2. CASE p \notin touched
    BY <2>2 DEF Inv, Sound, Tracked, Led
  <2> QED
    BY <2>1, <2>2
<1>6. ASSUME NEW d \in Dirs, Claimed(d)' PROVE Whole(d)' /\ Accounted(d)'
  <2>1. Claimed(d) /\ Whole(d) /\ Accounted(d) /\ Grafted(d) \in Places
    BY <1>2, <1>6, PlacesApart DEF Inv
  <2>2. tree'[Grafted(d)] = tree[Grafted(d)]
    BY <2>1
  <2> QED
    BY <2>1, <2>2 DEF Whole, Readable, Complete, Adopted, Accounted
<1> QED
  BY <1>1, <1>3, <1>4, <1>5, <1>6 DEF Inv

LEMMA EmptyIs ==
  /\ Empty \in Directory /\ Empty.parts = {} /\ Empty.manifest = {} /\ Empty.kit = {}
BY DEF Empty, Directory, Tears

LEMMA GraftStep ==
  ASSUME Inv, NEW d \in Dirs, Graft(d)
  PROVE  Inv'
<1> DEFINE from == Standalone(d)
           to == Grafted(d)
<1>1. /\ d \in STRING /\ from \in Places /\ to \in Places /\ from # to
      /\ \A e \in Dirs : from # Grafted(e)
      /\ ~Busy(d) /\ ~Occupied(to) /\ UNCHANGED <<marker, head, cmd>>
  BY PlacesApart DEF Graft
<1>2. PICK keep \in BOOLEAN :
        tree' = [tree EXCEPT ![to] = [tree[from] EXCEPT !.git = @ /\ keep], ![from] = Empty]
  BY DEF Graft
<1>3. tree \in [Places -> Directory]
  BY DEF Inv, Types, Files
<1> HIDE DEF from, to
<1>4. PICK new \in Directory :
        /\ new.parts = tree[from].parts /\ new.manifest = tree[from].manifest
        /\ new.kit = tree[from].kit
        /\ tree' = [tree EXCEPT ![to] = new, ![from] = Empty]
  <2> PICK dir \in Directory : dir = tree[from]
    BY <1>1, <1>3
  <2> PICK new : new = [dir EXCEPT !.git = @ /\ keep]
    OBVIOUS
  <2>1. /\ new \in Directory /\ new.parts = dir.parts /\ new.manifest = dir.manifest
        /\ new.kit = dir.kit
    BY DEF Directory
  <2>2. tree' = [tree EXCEPT ![to] = new, ![from] = Empty]
    BY <1>2
  <2> QED
    BY <2>1, <2>2
<1>5. /\ tree' \in [Places -> Directory] /\ tree'[to] = new /\ tree'[from] = Empty
      /\ \A q \in Places \ {from, to} : tree'[q] = tree[q]
  BY <1>1, <1>3, <1>4, EmptyIs
<1>6. Sound(from)' /\ Tracked(from)'
  BY <1>5, EmptyIs DEF Sound, Tracked
<1>7. Sound(from) /\ (\A m \in tree[from].manifest : m.home = from)
  BY <1>1 DEF Inv, Sound
<1>8. Sound(to)' /\ Tracked(to)'
  <2>1. \A m \in new.manifest : m.home # to
    BY <1>1, <1>4, <1>7
  <2>2. Tracked(to)'
    BY <1>5, <2>1 DEF Tracked
  <2>3. /\ new.manifest # {} => "manifest" \in new.parts
        /\ "manifest" \in new.parts => new.manifest # {}
        /\ new.kit # {} => "kits" \in new.parts
    BY <1>4, <1>7 DEF Sound
  <2>4. Sound(to)'
    BY <1>5, <2>3 DEF Sound, to
  <2> QED
    BY <2>2, <2>4
<1>9. ASSUME NEW j \in Commands, NEW s \in Requests, Working(j, s), Live(j)
      PROVE  HomeOf(s) \notin {from, to}
  <2>1. s.dir # d /\ s.dir \in Dirs
    BY <1>1, <1>9, RequestOf DEF Busy
  <2> QED
    BY <2>1, PlacesApart DEF HomeOf, from, to
<1>10. ASSUME NEW e \in Dirs, Claimed(e) PROVE Grafted(e) \notin {from, to}
  BY <1>1, <1>10, ClaimedOccupies
<1>11. {from, to} \in SUBSET Places
  BY <1>1
<1>12. \A p \in {from, to} : Sound(p)' /\ Tracked(p)'
  BY <1>6, <1>8
<1> QED
  BY <1>1, <1>5, <1>9, <1>10, <1>11, <1>12, HandStep

\* When no command runs, only the marker and the last commit claim anything.
LEMMA NothingRunsNothingSeen ==
  ASSUME Inv, \A k \in Commands : ~Live(k)
  PROVE  \A k \in Commands : cmd[k].seen = {}
BY DEF Inv, Waiting, Working, Live

LEMMA RemoveLeftoverStep ==
  ASSUME Inv, NEW d \in Dirs, RemoveLeftover(d)
  PROVE  Inv'
<1> DEFINE p == Grafted(d)
<1>1. /\ p \in Places /\ UNCHANGED <<marker, head, cmd>> /\ tree' = [tree EXCEPT ![p] = Empty]
      /\ \A k \in Commands : ~Live(k)
  BY PlacesApart DEF RemoveLeftover
<1>2. tree \in [Places -> Directory]
  BY DEF Inv, Types, Files
<1>3. ~Claimed(d)
  BY <1>1, NothingRunsNothingSeen DEF RemoveLeftover, Claimed, Registered
<1> HIDE DEF p
<1>4. /\ tree' \in [Places -> Directory] /\ tree'[p] = Empty
      /\ \A q \in Places \ {p} : tree'[q] = tree[q]
  BY <1>1, <1>2, EmptyIs
<1>5. Sound(p)' /\ Tracked(p)'
  BY <1>4, EmptyIs DEF Sound, Tracked
<1>6. ASSUME NEW e \in Dirs, Claimed(e) PROVE Grafted(e) \notin {p}
  BY <1>3, <1>6, PlacesApart DEF p
<1>7. {p} \in SUBSET Places /\ \A q \in {p} : Sound(q)' /\ Tracked(q)'
  BY <1>1, <1>5
<1> QED
  BY <1>1, <1>4, <1>6, <1>7, HandStep

LEMMA RestoreMarkerStep ==
  ASSUME Inv, RestoreMarker
  PROVE  Inv'
<1>1. /\ UNCHANGED <<tree, head, cmd>> /\ marker' = [torn |-> FALSE, projects |-> head.projects]
  BY DEF RestoreMarker, Listing
<1>2. Types'
  BY <1>1 DEF Inv, Types, Files
<1>3. \A d : Claimed(d)' => Claimed(d)
  BY <1>1 DEF Claimed
<1>4. ASSUME NEW j \in Commands PROVE (Waiting(j) \/ \E s \in Requests : Working(j, s))'
  <2>1. CASE Waiting(j)
    BY <1>1, <2>1 DEF Waiting
  <2>2. ASSUME NEW s \in Requests, Working(j, s) PROVE Working(j, s)'
    BY <1>1, <1>3, <2>2 DEF Working, Led, Readable, Complete
  <2> QED
    BY <2>1, <2>2 DEF Inv
<1>5. ASSUME NEW i \in Commands, NEW j \in Commands, i # j PROVE Apart(i, j)'
  BY <1>1, <1>5 DEF Inv, Apart, Live
<1>6. ASSUME NEW p \in Places PROVE Sound(p)' /\ Tracked(p)'
  BY <1>1 DEF Inv, Sound, Tracked, Led
<1>7. ASSUME NEW d \in Dirs, Claimed(d)' PROVE Whole(d)' /\ Accounted(d)'
  <2>1. Whole(d) /\ Accounted(d)
    BY <1>3, <1>7 DEF Inv
  <2> QED
    BY <1>1, <2>1 DEF Whole, Readable, Complete, Adopted, Accounted
<1> QED
  BY <1>2, <1>4, <1>5, <1>6, <1>7 DEF Inv

LEMMA Initially ==
  ASSUME Init
  PROVE  Inv
<1>1. /\ marker = [torn |-> FALSE, projects |-> {}] /\ head = [projects |-> {}, dirs |-> {}]
      /\ tree = [p \in Places |-> Empty] /\ cmd = [k \in Commands |-> NoCommand]
  BY DEF Init, Listing, NoHead
<1>2. /\ NoCommand.pc = "idle" /\ NoCommand.req = {} /\ NoCommand.seen = {}
      /\ NoCommand \in Command
  BY DEF NoCommand, Command, Phases
<1>3. Types
  <2>1. Files
    BY <1>1, EmptyIs DEF Files
  <2>2. cmd \in [Commands -> Command]
    BY <1>1, <1>2
  <2> QED
    BY <2>1, <2>2 DEF Types
<1>4. ASSUME NEW k \in Commands PROVE Waiting(k) /\ ~Live(k)
  BY <1>1, <1>2 DEF Waiting, Live
<1>5. ASSUME NEW p \in Places PROVE Sound(p) /\ Tracked(p)
  BY <1>1, EmptyIs DEF Sound, Tracked
<1>6. ASSUME NEW d \in Dirs PROVE ~Claimed(d)
  BY <1>1, <1>2 DEF Claimed
<1> QED
  BY <1>3, <1>4, <1>5, <1>6 DEF Inv, Apart

LEMMA Preserved ==
  ASSUME Inv, [Next]_vars
  PROVE  Inv'
<1>1. CASE UNCHANGED vars
  <2>1. UNCHANGED <<marker, tree, head, cmd>>
    BY <1>1 DEF vars
  <2>2. Types'
    BY <2>1 DEF Inv, Types, Files
  <2>3. \A k \in Commands : (Waiting(k) \/ \E r \in Requests : Working(k, r))'
    BY <2>1 DEF Inv, Waiting, Working, Led, Claimed, Readable, Complete
  <2>4. \A j, k \in Commands : j # k => Apart(j, k)'
    BY <2>1 DEF Inv, Apart, Live
  <2>5. \A p \in Places : Sound(p)' /\ Tracked(p)'
    BY <2>1 DEF Inv, Sound, Tracked, Led
  <2>6. \A d \in Dirs : Claimed(d)' => Whole(d)' /\ Accounted(d)'
    BY <2>1 DEF Inv, Claimed, Whole, Readable, Complete, Adopted, Accounted
  <2> QED
    BY <2>2, <2>3, <2>4, <2>5, <2>6 DEF Inv
<1>2. ASSUME NEW k \in Commands, NEW r \in Requests, Start(k, r) PROVE Inv'
  BY <1>2, StartStep
<1>3. ASSUME NEW k \in Commands,
             \/ CreateRoot(k) \/ FirstProject(k) \/ Write(k) \/ FinishInit(k)
             \/ RegisterLoad(k) \/ RegisterWrite(k) \/ Commit(k) \/ Die(k)
      PROVE  Inv'
  <2>1. cmd[k].pc # "idle"
    BY <1>3 DEF CreateRoot, FirstProject, Write, FinishInit, RegisterLoad, RegisterWrite,
                Commit, Die, Live
  <2>2. PICK r \in Requests : Working(k, r)
    BY <2>1 DEF Inv, Waiting
  <2> QED
    BY <1>3, <2>2, CreateRootStep, FirstProjectStep, WriteStep, FinishInitStep,
       RegisterLoadStep, RegisterWriteStep, CommitStep, DieStep, Zenon
<1>4. ASSUME NEW d \in Dirs, Graft(d) \/ RemoveLeftover(d) PROVE Inv'
  BY <1>4, GraftStep, RemoveLeftoverStep
<1>5. CASE RestoreMarker
  BY <1>5, RestoreMarkerStep
<1> QED
  BY <1>1, <1>2, <1>3, <1>4, <1>5, Zenon DEF Next

LEMMA InvariantAlways == Spec => []Inv
BY Initially, Preserved, PTL DEF Spec

-------------------------------------------------------------------------------
(***************************************************************************)
(* The theorems                                                            *)
(***************************************************************************)

\* Whatever the marker lists has no repository of its own, and was scaffolded to its end or
\* adopted with a manifest.yaml that adopting accepts, blank ones included: for any requests
\* and any number of commands, whichever of them died before, ran beside or were retried.
THEOREM RegisteredIsWholeAlways == Spec => []RegisteredIsWhole
<1>1. ASSUME Inv PROVE RegisteredIsWhole
  <2>1. ASSUME NEW ref \in marker.projects
        PROVE  /\ Readable(Grafted(ref.dir))
               /\ \/ \E k \in Commands : \E r \in cmd[k].req :
                       r.op = "adopt-project" /\ r.dir = ref.dir /\ cmd[k].pc # "refused"
                  \/ Complete(Grafted(ref.dir))
    <3>1. Claimed(ref.dir)
      BY <2>1 DEF Claimed
    <3>2. Whole(ref.dir)
      BY <1>1, <3>1, ClaimedOccupies
    <3>3. \A k \in Commands : cmd[k].pc \in Committing => cmd[k].pc # "refused"
      BY DEF Committing
    <3> QED
      BY <3>2, <3>3 DEF Whole, Adopted
  <2> QED
    BY <2>1, Zenon DEF RegisteredIsWhole, Readable, Complete
<1> QED
  BY <1>1, InvariantAlways, PTL

\* A clone of the monorepo has the files of every project its marker lists, but for those
\* whose own command has not committed: for any requests and any number of commands.
THEOREM ClonesAreWholeAlways == Spec => []ClonesAreWhole
<1>1. ASSUME Inv PROVE ClonesAreWhole
  <2>1. ASSUME NEW ref \in head.projects
        PROVE  \/ ref.dir \in head.dirs
               \/ \E k \in Commands : /\ cmd[k].pc \in {"commit", "dead", "uncommitted"}
                                      /\ Req(k).dir = ref.dir
    <3>1. Claimed(ref.dir)
      BY <2>1 DEF Claimed
    <3>2. Accounted(ref.dir)
      BY <1>1, <3>1, ClaimedOccupies
    <3>3. CASE ref.dir \in head.dirs
      BY <3>3
    <3>4. CASE \E k \in Commands : \E r \in cmd[k].req :
                 r.dir = ref.dir /\ cmd[k].pc \in {"commit", "dead", "uncommitted"}
      <4>1. PICK k \in Commands : \E r \in cmd[k].req :
              r.dir = ref.dir /\ cmd[k].pc \in {"commit", "dead", "uncommitted"}
        BY <3>4
      <4>2. PICK s \in Requests : Working(k, s)
        BY <1>1, <4>1 DEF Inv, Waiting
      <4>3. Req(k) = s /\ s.dir = ref.dir
        BY <4>1, <4>2, RequestOf DEF Working
      <4> QED
        BY <4>1, <4>3
    <3> QED
      BY <3>2, <3>3, <3>4 DEF Accounted
  <2> QED
    BY <2>1, Zenon DEF ClonesAreWhole
<1> QED
  BY <1>1, InvariantAlways, PTL

\* A path taken apart and put together again is the path.
LEMMA FrontOf ==
  ASSUME NEW S, NEW s \in Seq(S), NEW d \in S
  PROVE  /\ Append(s, d) \in Seq(S) /\ Front(Append(s, d)) = s /\ Last(Append(s, d)) = d
         /\ s # <<>> => s = Front(s) \o <<Last(s)>> /\ Front(s) \in Seq(S)
                        /\ Last(s) \in S
<1>1. /\ Append(s, d) \in Seq(S) /\ Len(Append(s, d)) = Len(s) + 1 /\ Len(s) \in Nat
      /\ \A i \in 1..Len(s) : Append(s, d)[i] = s[i]
      /\ Append(s, d)[Len(s) + 1] = d
  <2>1. Append(s, d) \in Seq(S) /\ Len(Append(s, d)) = Len(s) + 1 /\ Len(s) \in Nat
    OBVIOUS
  <2>2. ASSUME NEW i \in 1..Len(s) PROVE Append(s, d)[i] = s[i]
    OBVIOUS
  <2>3. Append(s, d)[Len(s) + 1] = d
    OBVIOUS
  <2> QED
    BY <2>1, <2>2, <2>3
<1>2. Last(Append(s, d)) = d
  BY <1>1 DEF Last
<1>3. Front(Append(s, d)) = s
  <2>1. SubSeq(Append(s, d), 1, Len(s)) \in Seq(S)
        /\ Len(SubSeq(Append(s, d), 1, Len(s))) = Len(s)
        /\ \A i \in 1..Len(s) : SubSeq(Append(s, d), 1, Len(s))[i] = s[i]
    BY <1>1
  <2>2. SubSeq(Append(s, d), 1, Len(s)) = s
    BY <2>1, SeqEqual
  <2> QED
    BY <1>1, <2>2 DEF Front
<1>4. ASSUME s # <<>>
      PROVE  s = Front(s) \o <<Last(s)>> /\ Front(s) \in Seq(S) /\ Last(s) \in S
  BY <1>4 DEF Front, Last
<1> QED
  BY <1>1, <1>2, <1>3, <1>4

\* Wherever a project was scaffolded and still is, and whatever code repository was asked
\* for, the recorded path leads out of the coordination repository, and the kits lead back.
THEOREM PathsLeadOutAndBackAlways == Spec => []PathsLeadOutAndBack
<1>1. ASSUME Inv PROVE PathsLeadOutAndBack
  <2> DEFINE InTree(p) == p \in {Grafted(d) : d \in Dirs}
             RepoOf(p) == IF InTree(p) THEN Root ELSE p
  <2>1. ASSUME NEW p \in Places, NEW m \in tree[p].manifest, NEW rel \in m.code, m.home = p
        PROVE  LET target == Resolve(p, rel)
               IN  /\ ~IsPrefix(target, RepoOf(p)) /\ ~IsPrefix(RepoOf(p), target)
                   /\ Front(target) = Front(RepoOf(p)) =>
                        \A kit \in tree[p].kit : Resolve(target, kit) = p
    <3>1. PICK r \in Requests, inMono \in BOOLEAN :
            m = ManifestOf(r, p, inMono) /\ Led(p, r, inMono)
      BY <1>1, <2>1 DEF Inv, Tracked
    <3>2. m.code = {CodeRel(c, p, inMono) : c \in r.code}
      BY <3>1 DEF ManifestOf
    <3>3. PICK c \in r.code : rel = CodeRel(c, p, inMono)
      BY <3>2
    <3>4. ~Aliased(rel, p, inMono) /\ (inMono <=> InTree(p)) /\ r.code # {}
      BY <3>1, <3>3 DEF Led
    <3>5. /\ Boundary(p, inMono) = RepoOf(p) /\ p # <<>>
          /\ p = Front(RepoOf(p)) \o IF inMono THEN <<Last(Front(p)), Last(p)>>
                                     ELSE <<Last(p)>>
      <4>1. CASE inMono
        <5>1. PICK d \in Dirs : p = Append(Root, d)
          BY <3>4, <4>1 DEF Grafted
        <5>2. d \in STRING /\ Root \in Seq(STRING) /\ Root # <<>>
          BY <5>1, PlacesApart, MonorepoAssumption
        <5>3. /\ p \in Seq(STRING) /\ Front(p) = Root /\ Last(p) = d
              /\ Root = Front(Root) \o <<Last(Root)>> /\ Front(Root) \in Seq(STRING)
              /\ Last(Root) \in STRING
          <6>1. /\ Append(Root, d) \in Seq(STRING) /\ Front(Append(Root, d)) = Root
                /\ Last(Append(Root, d)) = d
            BY <5>2, FrontOf, Zenon
          <6>2. /\ Root = Front(Root) \o <<Last(Root)>> /\ Front(Root) \in Seq(STRING)
                /\ Last(Root) \in STRING
            BY <5>2, FrontOf, Zenon
          <6> QED
            BY <5>1, <6>1, <6>2, Zenon
        <5>4. p = Front(Root) \o <<Last(Root), d>> /\ p # <<>>
          <6>1. PICK front \in Seq(STRING), last \in STRING :
                  front = Front(Root) /\ last = Last(Root)
            BY <5>3
          <6>2. p = Append(front \o <<last>>, d)
            BY <5>1, <5>3, <6>1
          <6>3. Append(front \o <<last>>, d) = front \o <<last, d>>
            BY <5>2
          <6>4. p # <<>>
            BY <5>1, <5>2
          <6> QED
            BY <6>1, <6>2, <6>3, <6>4
        <5>5. RepoOf(p) = Root
          BY <3>4, <4>1
        <5> QED
          BY <4>1, <5>3, <5>4, <5>5, Zenon DEF Boundary
      <4>2. CASE ~inMono
        <5>1. PICK d \in Dirs : p = Append(Beside, d)
          BY <3>4, <4>2 DEF Standalone, Places
        <5>2. d \in STRING /\ Beside \in Seq(STRING)
          BY <5>1, PlacesApart, MonorepoAssumption
        <5>3. p \in Seq(STRING) /\ p # <<>>
          BY <5>1, <5>2
        <5>4. p = Front(p) \o <<Last(p)>>
          BY <5>2, <5>3, FrontOf, Zenon
        <5>5. RepoOf(p) = p
          BY <3>4, <4>2
        <5> QED
          BY <4>2, <5>3, <5>4, <5>5, Zenon DEF Boundary
      <4> QED
        BY <4>1, <4>2
    <3> HIDE DEF RepoOf
    <3> PICK repo : repo = RepoOf(p)
      OBVIOUS
    <3> PICK target : target = Resolve(p, rel)
      OBVIOUS
    <3>6. ~IsPrefix(target, repo) /\ ~IsPrefix(repo, target)
      <4>1. target # repo /\ ~IsStrictPrefix(repo, target) /\ ~IsStrictPrefix(target, repo)
        BY <3>4, <3>5, Zenon DEF Aliased, IsWithin
      <4> QED
        BY <4>1 DEF IsStrictPrefix
    <3>7. ASSUME Front(target) = Front(repo), NEW kit \in tree[p].kit
          PROVE  Resolve(target, kit) = p
      <4>1. kit = KitPaths(r, p, inMono)
        BY <3>1 DEF Led
      <4>2. kit.up = 1
            /\ kit.down = IF inMono THEN <<Last(Front(p)), Last(p)>> ELSE <<Last(p)>>
        BY <3>4, <4>1 DEF KitPaths
      <4>3. Resolve(target, kit) = Front(target) \o kit.down
        BY <4>2, Zenon DEF Resolve, Front
      <4> QED
        BY <3>5, <3>7, <4>2, <4>3, Zenon
    <3> QED
      BY <3>6, <3>7, Zenon
  <2> HIDE DEF InTree, RepoOf
  <2> QED
    BY <2>1, Zenon DEF PathsLeadOutAndBack, InTree, RepoOf
<1> QED
  BY <1>1, InvariantAlways, PTL
===============================================================================
