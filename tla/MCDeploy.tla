------------------------------ MODULE MCDeploy ------------------------------
(***************************************************************************)
(* Instances of Deploy for TLC: the artifacts CI pushes to one tag.        *)
(***************************************************************************)
EXTENDS Deploy

Plain(t, files) ==
  [type |-> t, target |-> "ok", source |-> "ok", pre |-> "none",
   ships |-> files, links |-> {}, clear |-> TRUE, managed |-> TRUE,
   perms |-> FALSE, health |-> "none"]

Jar     == Plain("jar", {1})
War     == Plain("war", {1})
Static  == Plain("static", {1, 2})
RunOnce == Plain("run-once", {})
Hooks   == [Plain("hook-only", {}) EXCEPT !.pre = "ok"]

\* One jar of each kind that deploy.Run treats differently.
Jars == {Jar, [Jar EXCEPT !.managed = FALSE],
         [Jar EXCEPT !.perms = TRUE, !.health = "ok"],
         [Jar EXCEPT !.target = "denied"],
         [Jar EXCEPT !.source = "outside"],
         [Jar EXCEPT !.source = "missing", !.pre = "ok"],
         [Jar EXCEPT !.links = {1}], [Jar EXCEPT !.health = "sick"]}

Wars == {War, [War EXCEPT !.clear = FALSE, !.perms = TRUE],
         [War EXCEPT !.target = "linked"],
         [War EXCEPT !.managed = FALSE], [War EXCEPT !.links = {1}]}

\* Static trees of one file, of the other, of both, and reached by a symlink.
Statics == {Static, [Static EXCEPT !.clear = FALSE, !.perms = TRUE],
            [Static EXCEPT !.ships = {1}, !.clear = FALSE],
            [Static EXCEPT !.ships = {2}, !.perms = TRUE],
            [Static EXCEPT !.source = "link"],
            [Static EXCEPT !.links = {2}],
            [Static EXCEPT !.target = "linked"],
            [Static EXCEPT !.source = "outside", !.pre = "ok"],
            [Static EXCEPT !.pre = "outside"]}

Others == {RunOnce, Hooks, [RunOnce EXCEPT !.source = "outside", !.pre = "ok"],
           [RunOnce EXCEPT !.source = "missing"], [Hooks EXCEPT !.health = "sick"]}

AllSpecs == Jars \union Wars \union Statics \union Others
=============================================================================
