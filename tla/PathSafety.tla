------------------------------ MODULE PathSafety ------------------------------
(***************************************************************************)
(* internal/deploy/safety.go, and the allowed_target_roots of              *)
(* internal/config: which paths of an artifact are accepted.               *)
(*                                                                         *)
(* A path, as it is written, is a record: does it begin with a slash, and  *)
(* what stands between its slashes.  So "/srv//www/" is                    *)
(* [abs |-> TRUE, segs |-> <<"srv", "", "www", "">>], and the empty string *)
(* is not absolute and has no segments.  A place in the file system is the *)
(* sequence of the names that lead to it from the root.                    *)
(***************************************************************************)
EXTENDS Naturals, SequencesExt

CONSTANTS
  Dotted,  \* names with two dots in a row in them
  Links    \* symbolic links to directories: a function from place to place

Name == STRING

Paths == [abs : BOOLEAN, segs : Seq(Name)]

IsPlace(p) == \A i \in DOMAIN p : p[i] \notin {"", ".", ".."}

\* A link leads, in the end, to a directory.
ASSUME PathAssumption ==
  /\ Dotted \subseteq Name
  /\ \A p \in DOMAIN Links :
       /\ p # <<>> /\ Links[p] \notin DOMAIN Links
       /\ Links[p] \in Seq(Name) /\ IsPlace(Links[p])

Blank == [abs |-> FALSE, segs |-> <<>>]

-----------------------------------------------------------------------------
(* path.Clean, path.Dir and filepath.Dir.                                  *)

\* One segment more, read from left to right.
CleanStep(abs, done, s) ==
  CASE s \in {"", "."} -> done
    [] s = ".." /\ done # <<>> /\ Last(done) # ".." -> Front(done)
    [] s = ".." /\ done = <<>> /\ abs -> <<>>
    [] OTHER -> Append(done, s)

Clean(p) == FoldLeft(LAMBDA done, s : CleanStep(p.abs, done, s), <<>>, p.segs)

\* path.Dir(path.Clean(p)), the directory that is checked.
CheckedParent(p) == IF Clean(p) = <<>> THEN <<>> ELSE Front(Clean(p))

\* filepath.Dir(p), the directory that is cleared: all up to the last slash.
ClearedParent(p) == Clean([p EXCEPT !.segs = IF @ = <<>> THEN @ ELSE Front(@)])

-----------------------------------------------------------------------------
(* The lists.                                                              *)

deniedExact ==
  {<<>>} \union
  {<<n>> : n \in {"bin", "boot", "dev", "etc", "home", "lib", "lib64", "media",
                  "mnt", "opt", "proc", "root", "run", "sbin", "srv", "sys",
                  "tmp", "usr", "var"}} \union
  {<<"usr", "local">>} \union
  {<<"var", n>> : n \in {"lib", "log", "tmp", "www"}}

deniedSubtrees ==
  {<<n>> : n \in {"bin", "boot", "dev", "etc", "lib", "lib32", "lib64", "libx32",
                  "proc", "root", "run", "sbin", "sys"}} \union
  {<<"usr", n>> : n \in {"bin", "lib", "lib32", "lib64", "libexec", "sbin", "share"}} \union
  {<<"var", "lib", "orascout">>, <<"var", "log", "orascout">>, <<"var", "run">>,
   <<"var", "spool", "cron">>}

Under(p, r) == IsPrefix(r, p)

Protected(p) == p \in deniedExact \/ \E s \in deniedSubtrees : Under(p, s)

-----------------------------------------------------------------------------
(* The checks.                                                             *)

\* Mutant: path.Clean is left to deal with the dots.
HasDotsNever(p) == FALSE

\* strings.Contains(raw, "..").
HasDots(p) == \E i \in DOMAIN p.segs : p.segs[i] = ".." \/ p.segs[i] \in Dotted

validateTargetPath(p, roots) ==
  /\ p.abs /\ ~HasDots(p)
  /\ ~Protected(Clean(p))
  /\ roots # {} => \E r \in roots : Under(Clean(p), r)

validateClearPath(p, roots) ==
  validateTargetPath(p, roots) /\ Len(Clean(p)) >= 2

At(place) == [abs |-> TRUE, segs |-> place]

\* Where the kernel gets to from `from', following the given links.
Walk(links, from, segs) ==
  LET Enter(q) == IF q \in DOMAIN links THEN links[q] ELSE q
      Go(here, s) == CASE s \in {"", "."} -> here
                       [] s = ".." -> IF here = <<>> THEN here ELSE Front(here)
                       [] OTHER -> Enter(Append(here, s))
  IN FoldLeft(Go, from, segs)

\* Mutant: guardClearDir checks the name of the directory once more.
guardClearDirUnresolved(p) == validateClearPath(p, {})

\* EvalSymlinks, and the checks without the allowlist.
guardClearDir(p) == validateClearPath(At(Walk(Links, <<>>, p.segs)), {})

Join(base, rel) == Clean(At(base \o rel.segs))

securePathJoin(base, rel) ==
  rel # Blank /\ ~rel.abs /\ Under(Join(base, rel), base)

-----------------------------------------------------------------------------
(* Config.validate on allowed_target_roots: what it accepts and keeps.     *)

ValidRoots(raw) == \A r \in raw : r.abs /\ Clean(r) # <<>>

\* Mutant: the roots are kept as they are written.
CleanRootsNot(raw) == {r.segs : r \in raw}

CleanRoots(raw) == {Clean(r) : r \in raw}
=============================================================================
