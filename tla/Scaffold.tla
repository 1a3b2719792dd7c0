------------------------------ MODULE Scaffold ------------------------------
(***************************************************************************)
(* What `baron init` writes (cli/src/baron/scaffold.py): the roster it     *)
(* makes of --personas, the path it records for --code-repo, the refusals  *)
(* it gives before it creates anything, the manifest, and the runtime kit  *)
(* of each persona.  Monorepo runs it; Doctor inspects an installed kit.   *)
(*                                                                         *)
(* A directory is the sequence of its components below the one everything  *)
(* lives in.  A relative path climbs `up` levels and then goes `down`.     *)
(***************************************************************************)
EXTENDS Sequences, SequencesExt, FiniteSetsExt, Naturals

Archetypes == {"dev", "librarian", "autonomous-event", "autonomous-cron",
               "reviewer", "merger", "observer"}
Runtimes == {"claude", "generic", "pydantic-ai", "code-puppy"}

Resolve(dir, rel) == SubSeq(dir, 1, Len(dir) - rel.up) \o rel.down
IsWithin(inner, outer) == IsStrictPrefix(outer, inner)
\* os.path.relpath
RelPath(from, to) ==
    LET shared == Max({n \in 0 .. Len(from) : IsPrefix(SubSeq(from, 1, n), to)})
    IN  [up |-> Len(from) - shared, down |-> SubSeq(to, shared + 1, Len(to))]

-----------------------------------------------------------------------------
(* What is asked for: [name, personas, runtime, code, wake].               *)
(* `personas` is the list as typed; `code` is a URL or a directory, if any. *)

Slugs(roster) == {p.slug : p \in roster}
Librarians(roster) == {p \in roster : p.archetype = "librarian"}

\* parse_personas: known archetypes, no slug twice, and a librarian is appended
\* where none is listed, unless its slug is taken.
RosterAccepted(spec) ==
    /\ spec # <<>>
    /\ \A i \in DOMAIN spec : spec[i].archetype \in Archetypes
    /\ Cardinality({spec[i].slug : i \in DOMAIN spec}) = Len(spec)
    /\ \E i \in DOMAIN spec : spec[i].archetype = "librarian"
       \/ \A j \in DOMAIN spec : spec[j].slug # "librarian"
Roster(spec) ==
    LET listed == ToSet(spec)
    IN  listed \cup IF Librarians(listed) # {} THEN {}
                    ELSE {[archetype |-> "librarian", slug |-> "librarian"]}

\* The repository the project lives in: the coordination monorepo, or itself.
Boundary(at, inMono) == IF inMono THEN Front(at) ELSE at

\* _resolve_code_repo: a URL is taken to be cloned beside that repository.
CodeRel(code, at, inMono) ==
    IF code.kind = "url" THEN [up |-> IF inMono THEN 2 ELSE 1, down |-> <<code.base>>]
    ELSE RelPath(at, code.dir)

\* _check_not_aliased: neither that repository, nor inside it, nor around it.
Aliased(rel, at, inMono) ==
    LET target == Resolve(at, rel)
        repo   == Boundary(at, inMono)
    IN  target = repo \/ IsWithin(target, repo) \/ IsWithin(repo, target)

\* Mutant: the boundary is the project's own directory, in a monorepo too.
RefusesByOwnDir(req, at, inMono, occupied) ==
    \/ req.runtime \notin Runtimes
    \/ ~(req.wake \subseteq Slugs(Roster(req.personas)))
    \/ occupied
    \/ \E c \in req.code : Aliased(CodeRel(c, at, inMono), at, FALSE)

\* What scaffold refuses, all of it before the directory is made.
ScaffoldRefuses(req, at, inMono, occupied) ==
    \/ req.runtime \notin Runtimes
    \/ ~(req.wake \subseteq Slugs(Roster(req.personas)))
    \/ occupied
    \/ \E c \in req.code : Aliased(CodeRel(c, at, inMono), at, inMono)

-----------------------------------------------------------------------------
(* What it writes. *)

\* The files, in the order they are written: rules, README and the manifest; canon
\* and adapters; the persona specs; handoffs, ledgers and wiki, with a zone of its own
\* for an observer; CI, its owner and the signers' registry only where the project is
\* the repository; a runtime kit and a sidecar per persona.
Emitted(roster, inMono) ==
    LET when(holds, part) == IF holds THEN <<part>> ELSE <<>>
    IN  <<"rules", "manifest", "canon", "specs", "surfaces">>
        \o when(\E p \in roster : p.archetype = "observer", "observations")
        \o when(~inMono, "ci") \o <<"kits">>

\* The manifest: who is in it, who may wake, where the code is.
ManifestOf(req, at, inMono) ==
    [home |-> at, name |-> req.name, wake |-> req.wake,
     personas |-> Slugs(Roster(req.personas)),
     code |-> {CodeRel(c, at, inMono) : c \in req.code}]

\* _kit_paths: the collab root as seen from the working copy a kit is copied to, which is
\* the code repository's if there is one: it is expected beside the collab repository.
KitPaths(req, at, inMono) ==
    IF req.code = {} THEN [up |-> 0, down |-> <<>>]
    ELSE [up |-> 1, down |-> IF inMono THEN <<Last(Front(at)), Last(at)>> ELSE <<Last(at)>>]
=============================================================================
