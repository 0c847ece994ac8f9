------------------------------- MODULE RepoRefs -------------------------------
(***************************************************************************)
(* References as internal/config writes them and internal/registry reads   *)
(* them: sequences of words, ":" and "/".                                  *)
(***************************************************************************)
EXTENDS Naturals, SequencesExt, FiniteSetsExt

Colon == ":"
Slash == "/"

Places(s, c) == {i \in DOMAIN s : s[i] = c}
Before(s, i) == SubSeq(s, 1, i - 1)
After(s, i)  == SubSeq(s, i + 1, Len(s))

\* strings.Index and LastIndex; 0 is "not found".
IndexOf(s, c) == IF Places(s, c) = {} THEN 0 ELSE Min(Places(s, c))
\* Mutant: strings.Index instead of LastIndex.
LastIndexOfFirst(s, c) == IndexOf(s, c)

LastIndexOf(s, c) == IF Places(s, c) = {} THEN 0 ELSE Max(Places(s, c))

-----------------------------------------------------------------------------
(* Config.ParsedRepos, for one entry that is not blank.                    *)

RepoRef(name, tag) == [name |-> name, tag |-> tag]

ParsedRepo(entry) ==
  LET i == IndexOf(entry, Colon)
  IN IF i = 0 THEN RepoRef(entry, <<"latest">>) ELSE RepoRef(Before(entry, i), After(entry, i))

\* strings.TrimSuffix(RegistryPrefix, "/")
Trimmed(prefix) == IF prefix # <<>> /\ Last(prefix) = Slash THEN Front(prefix) ELSE prefix

FullRef(prefix, r) == Trimmed(prefix) \o <<Slash>> \o r.name \o <<Colon>> \o r.tag

\* pushLogs: where the log file goes.
LogsTarget(prefix, logs) ==
  LET target == Trimmed(prefix) \o <<Slash>> \o logs
  IN IF IndexOf(logs, Colon) = 0 THEN target \o <<Colon, "latest">> ELSE target

-----------------------------------------------------------------------------
(* splitRef.                                                               *)

\* A colon before the first slash belongs to the host.
HasTag(ref) == LastIndexOf(ref, Colon) > IndexOf(ref, Slash)

Untagged(ref) == IF HasTag(ref) THEN Before(ref, LastIndexOf(ref, Colon)) ELSE ref

TagOf(ref) == IF HasTag(ref) THEN After(ref, LastIndexOf(ref, Colon)) ELSE <<"latest">>

\* Every reference formed above has a slash, or there would be an error.
splitRef(ref) ==
  LET slash == IndexOf(Untagged(ref), Slash)
  IN [host |-> Before(Untagged(ref), slash), path |-> After(Untagged(ref), slash),
      tag  |-> TagOf(ref)]
=============================================================================
