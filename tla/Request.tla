------------------------------- MODULE Request -------------------------------
(***************************************************************************)
(* From the configuration and the annotations of one artifact to what the  *)
(* deploy touches: config.Load, annotations.Parse, validateRequest, and    *)
(* the paths, commands and units deploy.Run and the strategies use.        *)
(*                                                                         *)
(* Both inputs are chosen at the start.  What the file system and systemd  *)
(* make of the calls is the business of module Deploy; here every call     *)
(* succeeds, every directory exists, and only its arguments matter.        *)
(***************************************************************************)
EXTENDS Integers, PathSafety, ShellWords, RepoRefs

CONSTANTS
  Families,     \* sets of configurations, each with a set of artifacts
  ArtifactDir,  \* the place artifacts are pulled into: a directory, no link
  FileChars     \* the characters of the absolute path of source.file

Types    == {"jar", "war", "static", "run-once", "hook-only"}
Managers == {"systemd", "systemd-user", "none"}
Optional == {"target.mode", "target.clear", "target.clear-parent", "service.manager",
             "healthcheck.timeout", "healthcheck.interval"}

(***************************************************************************)
(* A configuration: the sequences of RepoRefs for registry_prefix, one     *)
(* entry of repos (blank: <<>>) and logs_push, poll_interval in seconds    *)
(* (0: not set), and the set of allowed_target_roots.                      *)
(*                                                                         *)
(* An artifact: its annotations, spaces around them trimmed; "", Blank and *)
(* <<>> stand for one that is absent.  junk: the keys of Optional whose    *)
(* value cannot be parsed.                                                 *)
(***************************************************************************)
ConfigFields   == {"prefix", "entry", "logs", "poll", "roots"}
ArtifactFields == {"type", "file", "dir", "target", "clear", "clearParent", "manager",
                   "service", "command", "pre", "post", "junk"}

\* A link in the artifact leads to a place in it: oras-go refuses to unpack
\* any other.
LinksStayInside ==
  \A p \in DOMAIN Links : Under(p, ArtifactDir) => Under(Links[p], ArtifactDir)

ASSUME RequestAssumption ==
  /\ \A f \in Families : \A c \in f.configs :
       /\ DOMAIN c = ConfigFields
       /\ \A s \in {c.prefix, c.entry, c.logs} : s \in Seq(Name)
       /\ c.poll \in Int /\ c.roots \subseteq Paths
  /\ \A f \in Families : \A a \in f.artifacts :
       /\ DOMAIN a = ArtifactFields
       /\ \A p \in {a.file, a.dir, a.target, a.pre, a.post} : p \in Paths
       /\ a.command \in Seq(Name)
       /\ a.manager \in Managers \union {""}
       /\ a.clear \in {"", "true", "false"} /\ a.clearParent \in {"", "true", "false"}
       /\ a.junk \subseteq Optional
  /\ ArtifactDir \in Seq(Name) /\ Walk(Links, <<>>, ArtifactDir) = ArtifactDir
  /\ LinksStayInside
  /\ FileChars \in Seq(Name) \ {<<>>}

VARIABLES
  config,    \* the configuration file (never changes)
  artifact,  \* the annotations (never change)
  stage,     \* how far the artifact has come
  roots,     \* cfg.AllowedTargetRoots after Load
  ref,       \* the RepoRef of the entry
  reads,     \* the names, from the root, that were opened or executed
  cleared,   \* directories that were emptied
  wrote,     \* the target paths that were written to
  called,    \* managers systemctlCmd was called with
  argv       \* the command that was run, if any

vars == <<config, artifact, stage, roots, ref, reads, cleared, wrote, called, argv>>
inputs  == <<config, artifact>>
touched == <<reads, cleared, wrote, called, argv>>

Init ==
  /\ \E f \in Families : config \in f.configs /\ artifact \in f.artifacts
  /\ stage = "load"
  /\ roots = {}
  /\ ref = RepoRef(<<>>, <<>>)
  /\ reads = {} /\ cleared = {} /\ wrote = {} /\ called = {}
  /\ argv = <<>>

Refuse == stage' = "refused" /\ UNCHANGED <<inputs, roots, ref, touched>>

-----------------------------------------------------------------------------
(* config.Load and ParsedRepos.                                            *)

HasScheme(s) ==
  \E i \in DOMAIN s : i + 2 \in DOMAIN s /\ SubSeq(s, i, i + 2) = <<Colon, Slash, Slash>>

\* applyDefaults: 5 minutes if it is not set.
PollInterval(c) == IF c.poll = 0 THEN 300 ELSE c.poll

ValidConfig(c) ==
  /\ c.prefix # <<>> /\ ~HasScheme(c.prefix)
  /\ PollInterval(c) >= 1
  /\ ValidRoots(c.roots)

\* A blank entry is passed over by ParsedRepos: nothing is watched.
Load ==
  /\ stage = "load" /\ ValidConfig(config) /\ config.entry # <<>>
  /\ stage' = "parse"
  /\ roots' = CleanRoots(config.roots)
  /\ ref' = ParsedRepo(config.entry)
  /\ UNCHANGED <<inputs, touched>>

LoadFails ==
  stage = "load" /\ (~ValidConfig(config) \/ config.entry = <<>>) /\ Refuse

-----------------------------------------------------------------------------
(* annotations.Parse.                                                      *)

\* Spec.validate: what each type needs.
Complete(a) ==
  CASE a.type \in {"jar", "war"} -> a.file # Blank /\ a.target # Blank /\ a.service # ""
    [] a.type = "static"   -> a.dir # Blank /\ a.target # Blank
    [] a.type = "run-once" -> a.file # Blank /\ a.command # <<>>
    [] OTHER               -> a.pre # Blank \/ a.post # Blank

\* Mutant: service.manager is taken as it is.
ParsesAnyManager(a) ==
  a.type \in Types /\ a.junk \subseteq {"service.manager"} /\ Complete(a)

Parses(a) == a.type \in Types /\ a.junk = {} /\ Complete(a)

Parse ==
  /\ stage = "parse" /\ Parses(artifact)
  /\ stage' = "validate"
  /\ UNCHANGED <<inputs, roots, ref, touched>>

ParseFails == stage = "parse" /\ ~Parses(artifact) /\ Refuse

\* EffectiveServiceManager.
Manager(a) ==
  CASE "service.manager" \in a.junk -> "unknown"
    [] a.manager = "" -> "systemd-user"
    [] OTHER -> a.manager

-----------------------------------------------------------------------------
(* deploy.Run.                                                             *)

\* The defaults of SPEC 3.2 and 3.3.
Clears(a) == IF a.type = "war" THEN a.clearParent # "false" ELSE a.clear # "false"

validateRequest(a) ==
  CASE a.type = "jar" -> validateTargetPath(a.target, roots)
    [] a.type = "war" ->
         /\ validateTargetPath(a.target, roots)
         /\ Clears(a) => validateClearPath(At(CheckedParent(a.target)), roots)
    [] a.type = "static" ->
         /\ validateTargetPath(a.target, roots)
         /\ Clears(a) => validateClearPath(At(Clean(a.target)), roots)
    [] OTHER -> TRUE

Validate ==
  /\ stage = "validate" /\ validateRequest(artifact)
  /\ stage' = "pre"
  /\ UNCHANGED <<inputs, roots, ref, touched>>

ValidateFails == stage = "validate" /\ ~validateRequest(artifact) /\ Refuse

\* Mutant: what is opened is the path as it is written, not the clean one
\* that was checked.
OpenAsWritten(rel) == reads' = reads \union {ArtifactDir \o rel.segs}

\* securePathJoin's result is what copyFile, copyDir and the shell are given.
Open(rel) == reads' = reads \union {Join(ArtifactDir, rel)}

\* runHook: a blank path is no hook.
Hook(rel, next) ==
  /\ IF rel = Blank THEN UNCHANGED reads
     ELSE securePathJoin(ArtifactDir, rel) /\ Open(rel)
  /\ stage' = next
  /\ UNCHANGED <<inputs, roots, ref, cleared, wrote, called, argv>>

PreHook == stage = "pre" /\ Hook(artifact.pre, "source")

PreHookFails ==
  /\ stage = "pre"
  /\ artifact.pre # Blank /\ ~securePathJoin(ArtifactDir, artifact.pre)
  /\ Refuse

Source(a) == IF a.type = "static" THEN a.dir ELSE a.file

\* The first thing Apply does, whatever the type.
OpenSource ==
  /\ stage = "source"
  /\ IF artifact.type = "hook-only" THEN UNCHANGED reads
     ELSE securePathJoin(ArtifactDir, Source(artifact)) /\ Open(Source(artifact))
  /\ stage' = CASE artifact.type \in {"jar", "war"} -> "stop"
                [] artifact.type = "static"         -> "clear"
                [] artifact.type = "run-once"       -> "command"
                [] OTHER                            -> "post"
  /\ UNCHANGED <<inputs, roots, ref, cleared, wrote, called, argv>>

OpenSourceFails ==
  /\ stage = "source"
  /\ artifact.type # "hook-only" /\ ~securePathJoin(ArtifactDir, Source(artifact))
  /\ Refuse

\* stopService and startService, with one manager: "none" is not asked.
Systemctl == called' = called \union ({Manager(artifact)} \ {"none"})

Stop ==
  /\ stage = "stop"
  /\ Systemctl
  /\ stage' = IF artifact.type = "war" THEN "clear" ELSE "write"
  /\ UNCHANGED <<inputs, roots, ref, reads, cleared, wrote, argv>>

\* war takes filepath.Dir of the path as it is written, static the path.
ClearedDir(a) == IF a.type = "war" THEN At(ClearedParent(a.target)) ELSE a.target

\* clearDirContents, or no clearing.
Clear ==
  /\ stage = "clear"
  /\ Clears(artifact) => guardClearDir(ClearedDir(artifact))
  /\ cleared' = IF Clears(artifact) THEN {ClearedDir(artifact)} ELSE {}
  /\ stage' = "write"
  /\ UNCHANGED <<inputs, roots, ref, reads, wrote, called, argv>>

ClearFails ==
  /\ stage = "clear"
  /\ Clears(artifact) /\ ~guardClearDir(ClearedDir(artifact))
  /\ Refuse

\* copyFile or copyDir, then startService.
Write ==
  /\ stage = "write"
  /\ wrote' = {artifact.target}
  /\ IF artifact.type = "static" THEN UNCHANGED called ELSE Systemctl
  /\ stage' = "post"
  /\ UNCHANGED <<inputs, roots, ref, reads, cleared, argv>>

Runs(s) == Terminated(s) /\ parseShellCommand(s) # <<>>

Command ==
  /\ stage = "command" /\ Runs(artifact.command)
  /\ argv' = Argv(artifact.command, FileChars)
  /\ stage' = "post"
  /\ UNCHANGED <<inputs, roots, ref, reads, cleared, wrote, called>>

CommandFails == stage = "command" /\ ~Runs(artifact.command) /\ Refuse

PostHook == stage = "post" /\ Hook(artifact.post, "done")

\* A post-hook that is refused is only logged.
PostHookFails ==
  /\ stage = "post"
  /\ artifact.post # Blank /\ ~securePathJoin(ArtifactDir, artifact.post)
  /\ stage' = "done"
  /\ UNCHANGED <<inputs, roots, ref, touched>>

Next ==
  \/ Load \/ LoadFails \/ Parse \/ ParseFails \/ Validate \/ ValidateFails
  \/ PreHook \/ PreHookFails \/ OpenSource \/ OpenSourceFails
  \/ Stop \/ Clear \/ ClearFails \/ Write \/ Command \/ CommandFails
  \/ PostHook \/ PostHookFails

Spec == Init /\ [][Next]_vars
-----------------------------------------------------------------------------
Stages == {"load", "parse", "validate", "pre", "source", "stop", "clear", "write",
           "command", "post", "done", "refused"}

TypeOK ==
  /\ stage \in Stages
  /\ \A r \in roots : r # <<>> /\ IsPlace(r)
  /\ DOMAIN ref = {"name", "tag"}
  /\ reads \subseteq Seq(Name)
  /\ Cardinality(cleared) <= 1
  /\ wrote \subseteq {artifact.target}
  /\ called \subseteq Managers \union {"unknown"}
  /\ \A i \in DOMAIN argv : argv[i] # <<>>

NoLinks == <<>>

\* The place a path names if there were no links, and the one it leads to.
Named(p) == Walk(NoLinks, <<>>, p.segs)
Real(p)  == Walk(Links, <<>>, p.segs)

UnderSomeRoot(place) ==
  config.roots # {} => \E r \in config.roots : Under(place, Named(r))

(***************************************************************************)
(* SPEC section 10, target paths: what a deploy writes to is, by its name, *)
(* no protected place and under one of the roots the operator wrote down,  *)
(* however path and roots are spelt; and the path as it is written leads   *)
(* where the clean name that was checked leads.  Where that is, with the   *)
(* host's own links followed, the code does not ask for a target; it does  *)
(* for a directory to be cleared, see ClearsStayAllowed                    *)
(* (validateRequest, validateTargetPath, Config.validate).                 *)
(***************************************************************************)
TargetsStayAllowed ==
  \A t \in wrote :
    /\ t.abs /\ ~Protected(Named(t)) /\ UnderSomeRoot(Named(t))
    /\ Real(t) = Real(At(Named(t)))

(***************************************************************************)
(* SPEC section 10, clear operations: the directory that is emptied is at  *)
(* least two levels deep, no protected place and under a root by its name, *)
(* although validateRequest checks the parent of the clean path and war    *)
(* clears the parent of the path as it is written; and with its links      *)
(* resolved it is still no protected place, and two levels deep            *)
(* (validateClearPath, guardClearDir, warStrategy.Apply).                  *)
(***************************************************************************)
ClearsStayAllowed ==
  \A c \in cleared :
    /\ UnderSomeRoot(Named(c))
    /\ \A place \in {Named(c), Real(c)} : Len(place) >= 2 /\ ~Protected(place)

(***************************************************************************)
(* SPEC section 10, source paths: the place whose file is read or executed *)
(* lies inside the artifact directory, with the links in the artifact      *)
(* followed as the kernel follows them.  securePathJoin compares names and *)
(* knows nothing of links; it is enough because the name it hands out is   *)
(* clean, so that no ".." is left for a link to come before, and because   *)
(* no link in the artifact leads out of it (LinksStayInside)               *)
(* (securePathJoin, runHook, Apply).                                       *)
(***************************************************************************)
ReadsStayInside == \A r \in reads : Under(Walk(Links, <<>>, r), ArtifactDir)

(***************************************************************************)
(* systemctlCmd panics for any manager but its two: no annotations that    *)
(* Parse accepts make it (Parse, EffectiveServiceManager, stopService,     *)
(* startService).                                                          *)
(***************************************************************************)
NeverPanics == called \subseteq {"systemd", "systemd-user"}

(***************************************************************************)
(* SPEC 3.4: {file} stands for the absolute path of the file.  It stays    *)
(* part of one argument, whatever characters the path has, and the command *)
(* has as many arguments as it was written with (parseShellCommand before  *)
(* applyTemplate).                                                         *)
(***************************************************************************)
FileStaysInOneArgument ==
  argv # <<>> =>
    LET words == parseShellCommand(artifact.command) IN
    /\ DOMAIN argv = DOMAIN words
    /\ \A i \in DOMAIN words :
         Placeholder \in ToSet(words[i]) =>
           \E j \in DOMAIN argv[i] : IsPrefix(FileChars, SubSeq(argv[i], j, Len(argv[i])))

(***************************************************************************)
(* The reference the configuration writes is the one the registry client   *)
(* reads: name and tag of the entry, under the prefix, with or without a   *)
(* port; the same for the reference logs are pushed to (ParsedRepos,       *)
(* pushLogs, splitRef).                                                    *)
(***************************************************************************)
Names(full, name, tag) ==
  LET s == splitRef(full) IN
  /\ s.tag = tag
  /\ s.host \o <<Slash>> \o s.path = Trimmed(config.prefix) \o <<Slash>> \o name

RefsAreReadBack ==
  stage \notin {"load", "refused"} =>
    /\ Names(FullRef(config.prefix, ref), ref.name, ref.tag)
    /\ LET l == ParsedRepo(config.logs) IN
         config.logs # <<>> => Names(LogsTarget(config.prefix, config.logs), l.name, l.tag)
=============================================================================
