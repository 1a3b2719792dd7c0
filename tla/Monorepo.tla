------------------------------ MODULE Monorepo ------------------------------
(***************************************************************************)
(* The coordination monorepo (cli/src/baron/monorepo.py and its commands   *)
(* in cli.py): one repository whose subdirectories are projects, listed in *)
(* a marker file at its root.  `init` makes a project of its own or a root *)
(* with a first project, `add-project` scaffolds one more, `adopt-project` *)
(* registers a directory that git or a person has put there.               *)
(*                                                                         *)
(* Commands run side by side and may die between any two writes, or in the *)
(* middle of one; a death leaves what was written for the next command to  *)
(* find.  Two commands at once on one directory are left out.              *)
(***************************************************************************)
EXTENDS Scaffold

CONSTANTS
    Root,       \* the directory of the monorepo
    Beside,     \* the directory where projects of their own are made
    Requests,   \* what commands may be asked
    Commands    \* bound: the commands that run, each once

ASSUME MonorepoAssumption ==
    /\ Root \in Seq(STRING) /\ Beside \in Seq(STRING)
    /\ Root # <<>> /\ Root # Beside
    /\ \A r \in Requests :
         /\ r.op \in {"init", "init-monorepo", "add-project", "adopt-project"}
         /\ r.dir \in STRING

\* A project's own directory, and the one it has in the monorepo.
Standalone(d) == Append(Beside, d)
Grafted(d) == Append(Root, d)
Dirs == {r.dir : r \in Requests}
Places == {Standalone(d) : d \in Dirs} \cup {Grafted(d) : d \in Dirs}
Marker == "marker"
Seam == <<Marker, "readme", "workflows", "codeowners", "signers">>

VARIABLES
    root,       \* what of the root's own files is there
    marker,     \* the projects it lists, or `torn`
    tree,       \* each project directory
    head,       \* the monorepo's last commit: the projects listed, the directories tracked
    cmd         \* the commands

vars == <<root, marker, tree, head, cmd>>

\* A manifest is {} when nothing of one can be read.  What a death in the middle of its
\* write leaves is "broken", no YAML mapping, or "blank", a file with nothing in it.
Empty == [parts |-> {}, manifest |-> {}, tear |-> "none", git |-> FALSE, kit |-> {}]
NoCommand == [pc |-> "idle", req |-> {}, at |-> <<>>, todo |-> <<>>, seen |-> {}]
NoHead == [projects |-> {}, dirs |-> {}]
Listing(projects) == [torn |-> FALSE, projects |-> projects]

Init ==
    /\ root = {} /\ marker = Listing({})
    /\ tree = [p \in Places |-> Empty]
    /\ head = NoHead
    /\ cmd = [k \in Commands |-> NoCommand]

Req(k) == CHOOSE r \in cmd[k].req : TRUE
InMono(k) == Req(k).op # "init"
Live(k) == cmd[k].pc \notin {"idle", "done", "uncommitted", "refused", "dead"}
Occupied(p) == tree[p].parts # {} \/ tree[p].tear # "none" \/ tree[p].git

\* load: the marker is there, parses and says `layout: monorepo`.
Loads == Marker \in root /\ ~marker.torn
Registered(d) == \E ref \in marker.projects : ref.dir = d

-----------------------------------------------------------------------------
(* The refusals of each command, before it writes anything. *)

\* `baron init`, and `init --layout monorepo`, whose own check is only that the target
\* is empty: the first project's request is looked at when the root is there.
InitRefuses(r) == ScaffoldRefuses(r, Standalone(r.dir), FALSE, Occupied(Standalone(r.dir)))
InitMonorepoRefuses(r) == root # {} \/ \E d \in Dirs : Occupied(Grafted(d))

AddRefuses(r) ==
    \/ ~Loads \/ Registered(r.dir)
    \/ ScaffoldRefuses(r, Grafted(r.dir), TRUE, Occupied(Grafted(r.dir)))

\* adopt_project: a manifest that parses, no repository of its own, and a name that does
\* not contradict the manifest's.  A blank manifest is taken for an empty mapping, which
\* declares no name (`yaml.safe_load(...) or {}`).
AdoptRefuses(r) ==
    LET dir == tree[Grafted(r.dir)]
    IN  \/ ~Loads \/ Registered(r.dir)
        \/ dir.manifest = {} /\ dir.tear # "blank"
        \/ dir.tear = "broken" \/ dir.git
        \/ \E m \in dir.manifest : r.name # m.name /\ r.named

RefusesAtOnce(r) ==
    \/ ~RosterAccepted(r.personas)
    \/ r.op = "init" /\ InitRefuses(r)
    \/ r.op = "init-monorepo" /\ InitMonorepoRefuses(r)
    \/ r.op = "add-project" /\ AddRefuses(r)
    \/ r.op = "adopt-project" /\ AdoptRefuses(r)

\* What is left to write: the parts of the project, after those of a new root.
FirstPc(r) ==
    CASE r.op = "init-monorepo" -> "root"
      [] r.op = "adopt-project" -> "load"
      [] r.op \in {"init", "add-project"} -> "write"

Start(k, r) ==
    /\ cmd[k].pc = "idle"
    /\ \A j \in Commands : Live(j) => Req(j).dir # r.dir /\ Req(j).op # "init-monorepo"
    /\ LET at == IF r.op = "init" THEN Standalone(r.dir) ELSE Grafted(r.dir)
       IN  cmd' = [cmd EXCEPT ![k] =
             [pc |-> IF RefusesAtOnce(r) THEN "refused" ELSE FirstPc(r),
              req |-> {r}, at |-> at, seen |-> {},
              todo |-> IF r.op = "init-monorepo" THEN Seam
                       ELSE Emitted(Roster(r.personas), r.op # "init")]]
    /\ UNCHANGED <<root, marker, tree, head>>

-----------------------------------------------------------------------------
(* create_root: the marker first, then the README and the shared CI. *)
CreateRoot(k) ==
    /\ cmd[k].pc = "root" /\ cmd[k].todo # <<>>
    /\ root' = root \cup {Head(cmd[k].todo)}
    /\ cmd' = [cmd EXCEPT ![k].todo = Tail(@)]
    /\ UNCHANGED <<marker, tree, head>>

\* _init_monorepo: add_project for the first project, with the refusals of any other;
\* the root stays behind when it refuses.
FirstProject(k) ==
    LET r == Req(k)
    IN  /\ cmd[k].pc = "root" /\ cmd[k].todo = <<>>
        /\ cmd' = [cmd EXCEPT ![k].pc = IF AddRefuses(r) THEN "refused" ELSE "write",
                              ![k].todo = Emitted(Roster(r.personas), TRUE)]
        /\ UNCHANGED <<root, marker, tree, head>>

\* scaffold: the next batch of files.
Written(dir, k, part) ==
    LET r == Req(k)
    IN  [dir EXCEPT
           !.parts = @ \cup {part},
           !.tear = IF part = "manifest" THEN "none" ELSE @,
           !.manifest = IF part = "manifest" THEN {ManifestOf(r, cmd[k].at, InMono(k))} ELSE @,
           !.kit = IF part = "kits" THEN {KitPaths(r, cmd[k].at, InMono(k))} ELSE @]

Write(k) ==
    /\ cmd[k].pc = "write" /\ cmd[k].todo # <<>>
    /\ tree' = [tree EXCEPT ![cmd[k].at] = Written(@, k, Head(cmd[k].todo))]
    /\ cmd' = [cmd EXCEPT ![k].todo = Tail(@)]
    /\ UNCHANGED <<root, marker, head>>

\* Mutant: the project is registered once its manifest is written.
ScaffoldedEarly(k) == "manifest" \in tree[cmd[k].at].parts
\* Everything is written and passes baron's own validation.
Scaffolded(k) == cmd[k].todo = <<>> /\ {"manifest", "specs"} \subseteq tree[cmd[k].at].parts

\* A project of its own is a repository of its own, if git is there and lets it commit.
FinishInit(k) ==
    /\ cmd[k].pc = "write" /\ ~InMono(k) /\ Scaffolded(k)
    /\ \E initialised \in BOOLEAN :
         tree' = [tree EXCEPT ![cmd[k].at].git = initialised]
    /\ cmd' = [cmd EXCEPT ![k].pc = "done"]
    /\ UNCHANGED <<root, marker, head>>

\* register: it reads the marker again, refuses what is listed by now, and rewrites it.
RegisterLoad(k) ==
    /\ \/ cmd[k].pc = "load"
       \/ cmd[k].pc = "write" /\ InMono(k) /\ Scaffolded(k)
    /\ cmd' = IF ~Loads \/ Registered(Req(k).dir) THEN [cmd EXCEPT ![k].pc = "refused"]
              ELSE [cmd EXCEPT ![k].pc = "register", ![k].seen = marker.projects]
    /\ UNCHANGED <<root, marker, tree, head>>

RegisterWrite(k) ==
    /\ cmd[k].pc = "register"
    /\ marker' = Listing(cmd[k].seen \cup {[dir |-> Req(k).dir, name |-> Req(k).name]})
    /\ cmd' = [cmd EXCEPT ![k].pc = "commit", ![k].seen = {}]
    /\ UNCHANGED <<root, tree, head>>

\* Mutant: adopting stages the marker and the README alone.
StagedByAdopt(k) == IF Req(k).op = "adopt-project" THEN {} ELSE {Req(k).dir}
\* What is staged beside the marker and the README: all that was scaffolded, or the
\* adopted directory.
Staged(k) == {Req(k).dir}

\* The README is rendered anew and, unless --no-git, what was created is committed; git
\* may be missing or refuse.
Commit(k) ==
    /\ cmd[k].pc = "commit" /\ ~marker.torn
    /\ \/ /\ ~Req(k).noGit
          /\ head' = [projects |-> marker.projects, dirs |-> head.dirs \cup Staged(k)]
          /\ cmd' = [cmd EXCEPT ![k].pc = "done"]
       \/ /\ cmd' = [cmd EXCEPT ![k].pc = "uncommitted"]
          /\ UNCHANGED head
    /\ root' = root \cup {"readme"}
    /\ UNCHANGED <<marker, tree>>

-----------------------------------------------------------------------------
(* Deaths, and what people do. *)

\* Between two writes, or in the middle of the manifest's or the marker's.
Die(k) ==
    /\ Live(k)
    /\ cmd' = [cmd EXCEPT ![k].pc = "dead", ![k].todo = <<>>, ![k].seen = {}]
    /\ \/ UNCHANGED <<marker, tree>>
       \/ /\ cmd[k].pc = "write" /\ cmd[k].todo # <<>> /\ Head(cmd[k].todo) = "manifest"
          /\ \E left \in {"broken", "blank"} : tree' = [tree EXCEPT ![cmd[k].at].tear = left]
          /\ UNCHANGED marker
       \/ /\ cmd[k].pc = "register"
          /\ marker' = [marker EXCEPT !.torn = TRUE]
          /\ UNCHANGED tree
    /\ UNCHANGED <<root, head>>

Busy(d) == \E k \in Commands : Live(k) /\ Req(k).dir = d

\* The directory of a project of its own comes under the root, with `git subtree add` or
\* with `mv`, which keeps its .git.
Graft(d) ==
    /\ ~Busy(d) /\ Marker \in root
    /\ Occupied(Standalone(d)) /\ ~Occupied(Grafted(d))
    /\ \E keep \in BOOLEAN :
         tree' = [tree EXCEPT ![Grafted(d)] = [tree[Standalone(d)] EXCEPT !.git = @ /\ keep],
                              ![Standalone(d)] = Empty]
    /\ UNCHANGED <<root, marker, head, cmd>>

\* When nothing runs, somebody deletes what a command left behind, to try again.
RemoveLeftover(d) ==
    /\ \A k \in Commands : ~Live(k)
    /\ Occupied(Grafted(d))
    /\ ~Registered(d) /\ \A ref \in head.projects : ref.dir # d
    /\ tree' = [tree EXCEPT ![Grafted(d)] = Empty]
    /\ UNCHANGED <<root, marker, head, cmd>>

\* Or restores a torn marker from the last commit.
RestoreMarker ==
    /\ \A k \in Commands : ~Live(k)
    /\ marker.torn /\ head # NoHead
    /\ marker' = Listing(head.projects)
    /\ UNCHANGED <<root, tree, head, cmd>>

Next ==
    \/ \E k \in Commands :
         \/ \E r \in Requests : Start(k, r)
         \/ CreateRoot(k) \/ FirstProject(k) \/ Write(k) \/ FinishInit(k)
         \/ RegisterLoad(k) \/ RegisterWrite(k) \/ Commit(k) \/ Die(k)
    \/ \E d \in Dirs : Graft(d) \/ RemoveLeftover(d)
    \/ RestoreMarker

Spec == Init /\ [][Next]_vars

-----------------------------------------------------------------------------
\* Every listed project has no repository of its own, and was either scaffolded to its
\* end, manifest, personas, surfaces and kits, or adopted with a manifest.yaml in which
\* adopting finds no contradiction, whatever commands died before, ran beside it or were
\* retried.  So a scaffold that died is listed only if somebody adopts what it left; and
\* then its manifest may be blank, which adopting takes and `baron status` cannot load.
RegisteredIsWhole ==
    \A ref \in marker.projects :
        LET dir     == tree[Grafted(ref.dir)]
            adopted == \E k \in Commands :
                          \E r \in cmd[k].req :
                              r.op = "adopt-project" /\ r.dir = ref.dir /\ cmd[k].pc # "refused"
        IN  /\ ~dir.git /\ dir.tear # "broken"
            /\ \/ /\ dir.manifest # {} /\ dir.tear = "none"
                  /\ {"specs", "surfaces", "kits"} \subseteq dir.parts
               \/ adopted /\ (dir.manifest # {} \/ dir.tear = "blank")

\* Where a project was scaffolded and still is, its manifest leads to a code repository
\* that is not the coordination repository, in it or around it; and where that is the
\* clone beside it that the kits assume, each kit leads back to the project.
PathsLeadOutAndBack ==
    \A p \in Places : \A m \in tree[p].manifest : \A rel \in m.code :
        LET target == Resolve(p, rel)
            repo   == IF p \in {Grafted(d) : d \in Dirs} THEN Root ELSE p
        IN  m.home = p =>
              /\ ~IsPrefix(target, repo) /\ ~IsPrefix(repo, target)
              /\ Front(target) = Front(repo) => \A kit \in tree[p].kit : Resolve(target, kit) = p

\* A clone of the monorepo finds the files of every project its marker lists, except of
\* one whose own command has not committed: it still runs, it died, or it could not.
ClonesAreWhole ==
    \A ref \in head.projects :
        \/ ref.dir \in head.dirs
        \/ \E k \in Commands : /\ cmd[k].pc \in {"commit", "dead", "uncommitted"}
                               /\ Req(k).dir = ref.dir
=============================================================================
