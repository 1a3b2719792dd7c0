----------------------------- MODULE MCMonorepo -----------------------------
EXTENDS Monorepo

MCRoot == <<"w", "mono">>
MCBeside == <<"w">>

Url(base) == {[kind |-> "url", base |-> base, dir |-> <<>>]}
Path(dir) == {[kind |-> "path", base |-> "", dir |-> dir]}
Dev == <<[archetype |-> "dev", slug |-> "ada"]>>
Watchers == <<[archetype |-> "observer", slug |-> "eve"], [archetype |-> "librarian", slug |-> "iris"]>>
Ask(op, dir, code) ==
    [op |-> op, dir |-> dir, name |-> dir, named |-> FALSE, personas |-> Dev, noGit |-> FALSE,
     runtime |-> "claude", code |-> code, wake |-> {"ada"}]

\* A root with the portfolio project or with one that cannot be; projects with the code
\* beside the monorepo, elsewhere, in it, around it, or named as it; and adoptions.
MCRequests ==
    {Ask("init-monorepo", "_meta", {}),
     Ask("init-monorepo", "p", Url("mono")),
     [Ask("init", "p", Url("code")) EXCEPT !.personas = Watchers, !.wake = {"iris"}],
     Ask("init", "p", Path(<<"w", "p", "src">>)),
     Ask("add-project", "p", Url("p")),
     [Ask("add-project", "p", Path(<<"elsewhere", "code">>)) EXCEPT !.noGit = TRUE],
     Ask("add-project", "p", Path(<<"w", "mono", "code">>)),
     Ask("add-project", "q", Path(<<"w", "q">>)),
     Ask("add-project", "q", Path(<<"w">>)),
     [Ask("add-project", "q", {}) EXCEPT !.wake = {"nobody"}],
     [Ask("add-project", "q", {}) EXCEPT
        !.personas = <<[archetype |-> "dev", slug |-> "librarian"]>>, !.wake = {}],
     Ask("adopt-project", "p", {}),
     [Ask("adopt-project", "p", {}) EXCEPT !.name = "other", !.named = TRUE],
     Ask("adopt-project", "q", {})}
=============================================================================
