------------------------------ MODULE MCRequest ------------------------------
(***************************************************************************)
(* Instances of Request for TLC: families of inputs, each varied where the *)
(* code decides something and fixed elsewhere.                             *)
(***************************************************************************)
EXTENDS Request, TLC

UpTo(S, n) == UNION {[1 .. m -> S] : m \in 0 .. n}
Path(a, s) == [abs |-> a, segs |-> s]
Rel(n)     == Path(FALSE, <<n>>)
Abs(s)     == Path(TRUE, s)

SomeDotted == {"..x"}

SomeDir == <<"var", "artifacts">>

\* /data/link leads to /etc, /srv/www to /data/site, /data/up to /data; in the
\* artifact, `in' leads up to its top and a/in down to a/a/a.
SomeLinks == (<<"data", "link">> :> <<"etc">>) @@ (<<"srv", "www">> :> <<"data", "site">>)
               @@ (<<"data", "up">> :> <<"data">>)
               @@ (SomeDir \o <<"in">> :> SomeDir)
               @@ (SomeDir \o <<"a", "in">> :> SomeDir \o <<"a", "a", "a">>)

\* A path with a space and a quote in it.
SomeChars == <<"/", "a", SP, "b", SQ>>

Plain == [prefix |-> <<"host", Slash, "org">>, entry |-> <<"app">>, logs |-> <<>>,
          poll |-> 0, roots |-> {}]

App == [type |-> "jar", file |-> Rel("app"), dir |-> Rel("site"),
        target |-> Abs(<<"data", "site", "app">>), clear |-> "", clearParent |-> "",
        manager |-> "", service |-> "app", command |-> <<"a", SP, Placeholder>>,
        pre |-> Blank, post |-> Rel("post"), junk |-> {}]

-----------------------------------------------------------------------------
\* How a target and the roots may be written.
Targets ==
  {Abs(s) : s \in UpTo({"", "..", "etc", "data", "site"}, 3)
             \union UpTo({"data", "link", "up", "srv", "www", "..x", "."}, 3)
             \union {<<"srv", "www", "..">> \o b : b \in UpTo({"site", "app"}, 2)}
             \union {<<"var", "lib", n>> : n \in {"", "orascout", "app"}}
             \union {a \o b : a \in [1 .. 3 -> {"data", "site"}], b \in UpTo({"", ".", ".."}, 2)}}
    \union {Path(FALSE, s) : s \in UpTo({"..", "data", "site"}, 2)}

Roots == {{}, {Abs(<<"data", "">>)}, {Abs(<<"etc", "..", "", "data", "site", ".">>)},
          {Abs(<<"srv", "www">>), Abs(<<"var">>)}, {Abs(<<"data", "..">>)},
          {Path(FALSE, <<"data">>)}}

Family(cs, as) == [configs |-> cs, artifacts |-> as]

TargetInputs ==
  Family({[Plain EXCEPT !.roots = r] : r \in Roots},
         {[App EXCEPT !.type = t, !.target = p] : t \in {"jar", "war", "static"}, p \in Targets})

KeptInputs ==
  Family({[Plain EXCEPT !.roots = r] : r \in {{}, {Abs(<<"data">>)}}},
         {[App EXCEPT !.type = t, !.target = p, !.clear = "false", !.clearParent = "false"] :
            t \in {"war", "static"},
            p \in {Abs(s) : s \in UpTo({"", ".", "data", "link", "etc"}, 3)}})

\* Paths inside the artifact, and out of it.
Inner == {Path(a, s) : a \in BOOLEAN, s \in UpTo({"", ".", "..", "a", "in"}, 3)}

SourceInputs ==
  Family({Plain}, {[App EXCEPT !.type = t, !.file = i, !.dir = i] :
                     t \in {"war", "static"}, i \in Inner})

HookInputs ==
  Family({Plain}, {[App EXCEPT !.type = t, !.pre = i, !.post = j] :
                     t \in {"jar", "hook-only"}, i \in Inner, j \in {Blank, Rel(".."), Rel("a")}})

CommandInputs ==
  Family({Plain}, {[App EXCEPT !.type = "run-once", !.command = c] :
                     c \in UpTo({"a", SP, SQ, DQ, Placeholder}, 5)})

\* Annotations that are absent, or cannot be parsed.
KeyInputs ==
  Family({Plain},
    {[App EXCEPT !.type = t, !.manager = m, !.service = s, !.file = f, !.dir = f,
                 !.post = h, !.target = p, !.command = <<>>, !.junk = j] :
       t \in Types \union {"", "unknown"}, m \in Managers \union {""}, s \in {"", "app"},
       f \in {Blank, Rel("a")}, h \in {Blank, Rel("a")},
       p \in {Blank, Abs(<<"data", "site", "app">>)},
       j \in {{k} : k \in Optional} \union {{}}})

ConfigInputs ==
  Family(
    {[prefix |-> p, entry |-> e, logs |-> l, poll |-> n, roots |-> {}] :
       p \in {<<>>, <<"host">>, <<"host", Colon, "5000">>, <<"host", Colon, "5000", Slash>>,
              <<"host", Slash, "org", Slash>>, <<"https", Colon, Slash, Slash, "host">>},
       e \in {<<>>, <<"app">>, <<"app", Colon, "dev">>, <<"app", Colon>>,
              <<"team", Slash, "app">>, <<"team", Slash, "app", Colon, "dev">>},
       l \in {<<>>, <<"logs">>, <<"logs", Colon, "me">>},
       n \in {-1, 0, 1, 60}},
    {App})

SomeFamilies == {TargetInputs, KeptInputs, SourceInputs, HookInputs, CommandInputs,
                 KeyInputs, ConfigInputs}
=============================================================================
