# orascout: specifications, model checking and proofs

orascout polls tags of an OCI registry and deploys the artifact a tag points to
when its digest changes. These modules describe the program in TLA+ from its Go
source (paths below are relative to `src/`), check it on small instances with
TLC, and prove the main invariants with TLAPS for every instance.
`PROJECT.json` is the index: components, runs, mutants, the source lines each
definition stands for, findings, hazards and theorems.

## 1. The system

| Component | State it keeps | Operations | Talks to |
|---|---|---|---|
| PID lock, `internal/lockfile` | one file holding a pid | `Acquire`, `Release` (`isStale`, `writePID`) | other orascout processes, through the file system and signal 0 |
| Poll loop, `internal/watcher` | position in the list of repositories | `Run`, `RunOnce`, `cycleOne`, `pushLogs` | everything below, in one goroutine |
| State store, `internal/state` | map of `repo:tag` to the deployed digest, in memory and in a JSON file | `Open`, `Get`, `Set` | the poll loop; the file outlives the process |
| Registry client, `internal/registry` | none | `ResolveDigest`, `FetchAnnotations`, `Pull`, `PushFile` | the registry; each call resolves the tag anew |
| Deploy, `internal/deploy` | the target directory, the `.orascout.tmp` files in it, the service | `Run`: path checks, pre-hook, one of five strategies, healthcheck, post-hook | systemctl, the shell, hook scripts, the file system |
| Path safety, `internal/deploy/safety.go` | none | `validateRequest`, `guardClearDir`, `securePathJoin` | deploy |
| Annotations, `pkg/annotations` | none | `Parse` | the poll loop, deploy |
| Config, `internal/config` | none after start | `Load`, `ParsedRepos` | start-up |
| Command line, `cmd/orascout` | none | `run`, `run --once`, `check`; SIGINT and SIGTERM cancel the context | the poll loop |

Inside a process nothing runs concurrently: one goroutine works through the
list. What makes the program hard is outside that goroutine.

* **Several processes** (a daemon, a timer's `run --once`, somebody's `check`)
  share the lock file, the state file, the artifact directory and the targets.
  The lock is a sequence of separate system calls; the state file is read
  before it, once.
* **The registry moves**: a push may come between the three calls that each
  resolve the tag.
* **Anything may fail, or be the last thing the process does.** No deploy is
  rolled back; retrying from whatever is left is the recovery.
* **Cancellation** ends calls half-way, and what systemctl was asked to do may
  happen all the same.

What makes each component correct:

* lock: two cycles never overlap; the holder's file is the one at the path; an
  orphaned file does not block for ever, unless an unrelated program that was
  given its pid runs for ever; contention is no error;
* poll loop and store: what is recorded is deployed, completely; what is
  recorded is not deployed again; nothing goes back to an older artifact;
  `check` changes nothing; every deployable artifact gets deployed in the end;
* deploy: success means the target is whole; files are never torn; the service
  is down while they change; nothing is cleared that was not to be; a refused
  artifact changes no file of the target; a retry succeeds from any leftovers;
* healthcheck: it ends, within a bound and at once when cancelled, and a
  service that comes up in time passes;
* path safety, annotations, config: what is written, cleared, read or executed
  stays inside what the checks allow, however it is spelt; the file name stays
  one argument; a reference is read as it was written.

## 2. The modules

| Module | Models | Used by |
|---|---|---|
| `CycleLock` | the lock as the watcher may think of it: `Take`, `Drop` | `Lockfile` (refines it), `Watcher` (uses it) |
| `Lockfile` | `lockfile.go`, one action per system call | `LockfileProofs`, `MCLockfile` |
| `Watcher` | `watcher.go`, `state.go`, `cmdRun`, the three registry calls | `WatcherProofs`, `MCWatcher` |
| `Orascout` | the machine around one daemon: `Watcher` with `saveLocked` in steps, loss of power, `pushLogs`, `PushFile` | `OrascoutProofs`, `MCOrascout`; refines `Watcher` |
| `Deploy` | `deploy.go`, `strategy_*.go`, `fsutil.go`, `systemd.go`, and when the checks of `safety.go` run | `DeployProofs`, `MCDeploy` |
| `Healthcheck` | `healthcheck` in `deploy.go`, with time | `MCHealthcheck` |
| `PathSafety` | the checks and lists of `safety.go`, `allowed_target_roots` | `PathProofs`, `Request` |
| `ShellWords` | `parseShellCommand`, `applyTemplate` | `Request` |
| `RepoRefs` | `ParsedRepos`, the target of `pushLogs`, `splitRef` | `Request` |
| `Request` | one configuration and one set of annotations, from `Load` and `Parse` to the paths, units and commands of a deploy | `RequestProofs`, `MCRequest` |
| `LockfileProofs`, `WatcherProofs`, `OrascoutProofs`, `DeployProofs`, `HealthcheckProofs`, `RequestProofs` | theorems about these modules and their proofs | |
| `PathProofs` | what `Clean` and `Walk` compute for paths of any length | `RequestProofs` |
| `SetInduction` | induction with sets, and lemmas about folds, `FlattenSeq`, sequences | `DeployProofs`, `PathProofs` |
| `MCLockfile`, `MCWatcher`, `MCOrascout`, `MCDeploy`, `MCHealthcheck`, `MCRequest` | instances for TLC | the `.cfg` files |

### Lockfile

`creator` is the process whose `O_EXCL` open made the file the path names now
(`NoProc`: there is none), `content` the pid in it (`Blank` until `writePID`).
A process goes `idle -> write -> held` when the open succeeds, and otherwise
`check` (about to read) `-> probe` (about to send signal 0) `-> remove ->
recreate -> write -> held`, or ends in `skipped` (ErrLocked) or `failed`. The
write of a process whose file was removed meanwhile lands in an unlinked file
and changes nothing; the removals in `Release`, `writePID` and `Acquire` take
whatever file is at the path, as in the code. `ProbeStale` is enabled whenever
the process cannot deliver the signal, be it ESRCH or EPERM; an unrelated
program with that pid may or may not be signalled, so both outcomes are open.
Processes end and pids are reused (`StartProc`), also by programs that are not
orascout (`ForeignStart`), whose end is `ForeignExit`. `StartProc` is a
`Mishap`, beside kills and foreign programs: it may happen, and is owed by
nobody.

`OrphanReclaimed` says that the file of a killed creator goes. Its two
hypotheses are what the code needs for it. `CyclesGoOn`: somebody runs cycles;
it need not be the creator come back. `ForeignGone`: programs that are not
orascout do not keep the pid in the file for ever; `isStale` takes any pid it
can signal for an owner (`lockfile.go:105-108`) and says `locked` for as long
as such a program lives. Without either hypothesis TLC finds a counterexample.

`breaches` and `outdated` are history variables no action reads: `breaches`
records the three ways in which a verdict of `isStale` can be wrong, namely a
live owner whose file is still empty (`blank`), a live owner that may not be
signalled (`unsignalable`), and a stale file that was replaced by the time of
the removal (`replaced`). They divide the question "does the lock exclude?" into
two: with no such verdict it does (proved), and `lock_overlap` shows such a
verdict without any failure.

### Watcher

A digest is a number, 0 for none; the annotations and the files of an artifact
go by its digest. `Start` is `New`, which reads the state file; `Acquire`,
`Skip` and `Release` are the lock around `RunOnce`; `Resolve`, `Fetch`, `Pull`,
`Apply`, `Succeed`, `Save` are `cycleOne` up to each point where somebody else
may act, with one failing action for each; `NextRepo` is the loop of
`RunOnce`, which goes on after any failure. `host` is the target of a
repository: whose spec and whose files were applied, and whether completely.
`mem` is `Store.data`, which `Set` changes before the file. A `Crash` may come
anywhere; a cancelled process makes no further registry call, and what it was
deploying may fail or finish.

Repositories in the list are taken to be different. The lock is `CycleLock`:
the assumption that it excludes is exactly what `Lockfile` has to say about.

### Deploy

A target directory has a few files; `dir` and `tmp` give the version each file
and each `.orascout.tmp` was copied from (`Torn`: not to its end). An artifact
is a record of what deploy.Run branches on. Each system call or command that
changes something is an action; each has a failing one. A systemctl that fails,
or whose caller is killed, may have asked nothing, may have had its effect, or
may have it later: `job` is what systemd was asked for and has not come to
(`JobDone`), and a later systemctl takes its place. `verdict` is the version
that counts as deployed: it stands for the recorded digest, as the tag only
moves forward here, and is `Nothing` from the first step that touches the
target until Run returns nil. `ResolveSource` is the top of `Apply`; `Walked`
says what `filepath.Walk` meets, which for a source.dir that is a symlink is
nothing. `RejectClear` is the refusal of `guardClearDir`, which comes after the
stop; `ClearFails` is a clear that ends half-way with an error. A hook is a script of the artifact: what it does is not modelled.

`Publish` moves the tag, `Run` is the caller coming back in the next cycle
while the version the tag points to is not deployed.

### Orascout

`EXTENDS Watcher` and keeps its actions, conjoined with what they leave alone
of the new variables, except where it has more to say. `Save` becomes
`OpenDraft`, `FillDraft`, `RenameDraft` (or `DraftFails`, or a kill anywhere),
with the leftover of earlier attempts in `draft`. `did` is the count of deploys
in the cycle, as far as `RunOnce` looks at it; `PushLogs` is its end. `durable`
is the state file, the targets and the artifact directories as a loss of power
would leave them: `Flush` brings it up to date at any time, `PowerLoss` goes
back to it. The file system is taken to be ordered, so that all files come back
as they were at one moment. Without that nothing can be promised: the code
syncs neither the targets nor the state file. A state file that comes back
empty is taken by `Open` for a first start; one that is cut off is refused and
the daemon does not start. Neither is modelled.

`ImplementsWatcher` is the refinement: all variables of `Watcher` but the
counter of faults keep their meaning, and every step that is no power loss is a
step of `Watcher` or leaves them alone.

### Healthcheck

Discrete time, counted from the entry of `healthcheck`; `Tick` is possible only
where the code waits, and not past the end of the wait. `timeout` and
`interval` are any integers, as `Parse` takes negative durations. An attempt's
shell exits 0 (`Pass`), exits with an error (`Refused`) or is killed when a
context is done (`Kill`); `Passed` and `Reap` are the return of
`CombinedOutput`, up to `MaxLinger` later (`Linger`): in all three cases what
the shell has started may hold the pipe, and the code sets no `WaitDelay`, so
the code itself has no bound there. `readyAt` is when the
service begins to answer. An attempt that begins before may fail at once or
hang, one that begins later passes within `CmdTime`.

Two things follow from the code, and are no properties here: an attempt may
pass after the timeout, since the deadline is looked at only when one has
failed; and with an interval of -5s or less no attempt is ever run.

### PathSafety, ShellWords, RepoRefs, Request

A path is what stands between its slashes, so that empty segments, dots and a
trailing slash are there; `Walk` is what the kernel makes of it with the given
links, and independent of `Clean`, which is `path.Clean`. The properties of
`Request` compare the two: the checks use `Clean`, the deploy uses the target as
it is written, and what `securePathJoin` hands out. Links are those of the host
and those an artifact ships. The latter stay inside the artifact directory
(`LinksStayInside`, part of `RequestAssumption`): oras-go, which is external,
refuses to unpack others. The prefix of `securePathJoin`, the artifact directory
and a separator, is a prefix of segments here, so that a sibling directory whose
name begins the same way is not told apart. The lists are those of `safety.go`, entry by entry. (They name
`/var/spool/cron` and not its parent.) Directories are taken to exist and links
to stay; a missing directory is `nothing to clear` in `guardClearDir`.

A command is a sequence of characters of which the quotes, the blank and
`{file}` matter. An argument that is empty, quoted or not, is dropped by the
code, and so by `ReadChar`. A reference is a sequence of words, colons and
slashes; entries of `repos` have one colon at most.

`Request` chooses a configuration and annotations and follows the calls: which
check refuses first, what is read, cleared, written, run, and which manager
`systemctlCmd` is called with.

Each module also holds operators marked *Mutant*: one definition changed the
way a bug would. They are not used by the specification; `PROJECT.json` says
which property each one must break.

## 3. The runs

| Run | Instance | Shows |
|---|---|---|
| `lock_safety` | 3 processes, 4 pids, all of which other programs may have, disk errors, 2 kills; `Spec`, up to the first wrong verdict | `BreachFreeExclusion`, `HolderOwnsFile`, and that the file implements `CycleLock` |
| `lock_live` | 2 processes, 3 pids, all of which unrelated programs may have, 2 kills; `FairSpec` | `OrphanReclaimed` |
| `lock_overlap` | 2 processes, no kill, no disk error | finding: `MutualExclusion` is violated |
| `lock_contention` | the same | finding: `ContentionIsBenign` is violated |
| `watch_single` | a daemon and a check, 2 tags of one repository, 3 pushes each, 1 fault or kill or signal | `VouchedIsDeployed`, `RecordedIsNotRedeployed`, `DeploysOwnPull`, `NeverGoesBack`, `CheckChangesNothing` |
| `watch_two` | a daemon and a timer, the same list, pushes back and forth between cycles, one artifact refused, 4 pushes, faults and signals together | `RecordsWhatItDeployed`, `DeploysOwnPull` |
| `orascout` | one daemon, 2 tags, 2 digests of which the first cannot be deployed, 1 fault or kill, 1 loss of power; `SysFairSpec` | `VouchedIsDeployed`, `LogsKeepUp`, `ImplementsWatcher`, `Converges`, `ShutsDown` |
| `watch_moving_tag` | one daemon, one tag, 2 pushes, no fault | finding: `RecordsWhatItDeployed` is violated |
| `watch_rollback` | timer runs, one tag, pushes back and forth between cycles | finding: `Converges` is violated |
| `deploy` | 27 artifacts, 3 versions, 2 files, 1 failure or kill; `FairSpec` | `SuccessIsWhole`, `WholeFiles`, `ReplacedWhileStopped`, `ClearIsGuarded`, `CheckedBeforeTouched`, `RetriesSucceed` |
| `health` | 5 timeouts, 7 intervals (both with zero and negative ones), 5 times from which the service answers, a grace of 3, attempts of up to 2, children that linger up to 2; fair steps | `WithinBound`, `HealthyInTime`, `CancelIsPrompt`, `Decides` |
| `request` | some twenty thousand inputs in seven families (below) | `TargetsStayAllowed`, `ClearsStayAllowed`, `ReadsStayInside`, `NeverPanics`, `FileStaysInOneArgument`, `RefsAreReadBack` |

**Bounds.** Lock: two processes can disagree about a file, and a third is
needed to replace it between a verdict and a removal; a fourth pid lets a dead
owner's pid be nobody's, another orascout's and a foreign program's while all
three run. The proofs then hold for any number. `lock_safety` goes
no further once a verdict was wrong (`CONSTRAINT NoBreach`; these are the
executions of `QuietSpec`): the two invariants say nothing about what comes
after it, and every state before it is reached. `lock_live` and the violations
run under the full specification, and so do the proofs. In `lock_live` two
processes are an orphan's creator and somebody who finds the file; with three
pids the orphan's may be the finder's, an unrelated program's or nobody's while
the creator has another.
Watcher: two tags make the whole-map write of `Set` and the shared artifact
directory matter; a third digest gives a push between any two of the registry
calls. One fault is enough to leave any intermediate state behind.
Deploy: the third version comes after a deploy that succeeded and one that
failed in the middle; a version that can never succeed fails without counting
as a fault, so two failures in a row happen as well. Two files let a tree be
half copied, and let one version ship what the next does not.
Orascout: one fault and one loss of power give a kill in the middle of the
save and then the loss, or the other way round; two tags make a cycle deploy
twice. One process, because two that are told to stop, or a timer, add nothing
to saving and shipping that `watch_two` does not have.
Healthcheck: with a grace of 3 units there are intervals on each side of zero,
of minus the grace, and of the time an attempt needs; the numbers only matter
by how they compare.
Request: targets of up to three segments (five with dots at the end) over
names that are protected, allowed, links, dots or empty, under six sets of
roots; paths inside the artifact of up to three segments, over names with two
links of the artifact among them, one up to its top and one down; commands of up to
five characters; every type with every annotation absent, present or broken;
references with and without port, tag and trailing slash.
`CHECK_DEADLOCK FALSE` is in `deploy`, `health` and `request`, which end: the
last version is deployed, the check has decided, the request is through.

**Fairness.** Lockfile: a process that runs makes its next step, and takes the
lock again in the next cycle (weak fairness of `Step`, which the ticker
justifies for a daemon); nobody has to be started (`StartProc` is not in
`Step`), processes need not end, nothing has to fail. That there are cycles at
all, and that unrelated programs with the orphan's pid end, are hypotheses of
`OrphanReclaimed` itself. Watcher: calls
return, failing or not, and the ticker fires (weak fairness of `Work`); for the
end of a cancelled daemon `Run`'s select must not take the ticker for ever, and
Go's select chooses at random among ready cases (strong fairness of `Exit`).
Convergence is checked for one daemon alone: beside another process whose
cycles always fall on its ticks it may be skipped for ever. Deploy: weak
fairness of the next step; calls return. Orascout: as for Watcher; `Flush` and
`PowerLoss` are not fair, the machine owes neither. Healthcheck: weak fairness
of the function's own steps and of time, which is bounded by the timers and by
`MaxLinger`. With an interval of zero or less the timer is ready whenever the
context is, so `CancelIsPrompt` is about positive intervals only; that the check
ends for the others too is `Decides`. Hooks, commands and systemctl have no
timeout in the code, so a hung one is outside these results.

## 4. Findings

Each is a run that TLC must find violated, with the sentence it contradicts:

1. `lock_overlap`: the lock file is empty between its creation and the write of
   the pid, and an empty file counts as stale: two cycles run at once.
2. `lock_contention`: a lock released at the wrong moment makes `Acquire`
   return a hard error, so `run --once` exits 1 where SPEC section 9 says 0.
3. `watch_moving_tag`: resolve, fetch and pull each see the tag anew; the
   digest recorded may not be the artifact deployed.
4. `watch_rollback`: pushing the previous artifact after a deploy that failed
   half-way is "no change".

Three more divergences were seen while modelling, and have no run of their own:

* SPEC.md:238-240 says every path is validated before any side effect.
  `validateRequest` looks at `target.path` only; `source.file`, `source.dir`
  and the post-hook's path are checked when they are used, after the pre-hook,
  and `guardClearDir` runs after the service was stopped
  (`internal/deploy/deploy.go:71`), so that a war whose clear target is a link
  to a protected place leaves the service down. `Deploy` and `Request` have
  that order; `CheckedBeforeTouched` says what does hold.
* The comment at `internal/deploy/safety.go:13-16` has the guards keep a
  symlinked webroot from making orascout overwrite the host.
  `validateTargetPath` (`safety.go:101-131`) looks at names only; the one check
  that resolves links is `guardClearDir`, and only what is cleared gets there.
  A jar, or a war or static site with its clear switched off, whose target is
  reached through a link of the host to a protected place is accepted and
  written there; `request` has such inputs. `TargetsStayAllowed` is therefore
  about the name of the target, and `ClearsStayAllowed` about name and place.
* SPEC.md:265 says symlinks inside an artifact are rejected. A `source.dir`
  that is one is not: the walk ends at its root
  (`internal/deploy/fsutil.go:85`), the target is cleared, and a deploy of
  nothing succeeds (`Walked` in `Deploy`).

## 5. The proofs

Checked by TLAPS for every value of the constants the named assumptions
(`LockfileAssumption`, `WatcherAssumption`, `OrascoutAssumption`,
`DeployAssumption`, `HealthcheckAssumption`, `PathAssumption`,
`RequestAssumption`) allow. Every safety property of the runs that must pass is
stated by a theorem, and so are their action properties and the two refinements.

**Lockfile** (`LockfileProofs`): `LockTypes`, `LockExclusion`, `LockOwnership`,
`LockRefinement`. Exclusion is not inductive: it has to say what a process knows
while it decides. `IInv` adds that running processes have different pids
(`UniquePids`) and, while there is no breach, three facts. Whoever is in `write`
or `held` created the file at the path, still blank in `write` and with its own
pid in `held` (`ClaimsOwnFile`). A process that probes, and whose file has not
been replaced since, has read what is in the file now (`ProbesWhatItRead`). The
creator of a file that a process is about to remove claims nothing any more, if
that file has not been replaced (`RemovesNoClaim`). A removal on a verdict that
is not wrong then never meets a claimed file, so no second process gets
past `O_EXCL` while one claims. The refinement maps `holders` to the processes
in `write` or `held`: creation is `Take`, release, failed write and death are
`Drop`, everything else stutters.

**Watcher** (`WatcherProofs`): `WatcherTypes` and `WatcherCheck` (a check never
changes the state file, a target or an artifact directory), without further assumptions;
`WatcherOwnPull`, under `~Rollback` (CI pushes new artifacts only);
`WatcherVouches`, `WatcherNoRedeploy` and `WatcherNeverGoesBack`, under
`~Rollback` and `OneDeployer` (all processes but one are checks).

- `CycleInv`: a process inside a cycle is the lock's only holder, and a check
  never gets beyond the annotations.
- `FreshInv`: what was resolved, fetched and pulled increases in that order up
  to the tag (`OrderAt`), and from `applying` on the host is being given what
  was pulled (`HostAt`).
- `StoreInv`: nothing on file or in memory is ahead of the tag (`NotAhead`); the
  deployer's memory is never behind the file (`AheadOfFile`), it works only on
  what is newer than its memory (`WorksOnNew`), and the host holds all of
  what it remembers as current (`Vouches`).
- `PulledIsNews`: what is pulled is no older than what is applied, which gives
  `NeverGoesBack`.

Both assumptions are needed: `watch_rollback` needs the first to fail, and two
deployers make each other's memory stale.

`WatcherRecords` and `WatcherCalmOwnPull` ask for neither, but for calm: under
`Calm`, CI pushes only while no cycle is running, as `watch_two` has it. Any
number of processes, with pushes back to older artifacts and memories as stale
as they like, then record what the target holds. `CalmInv` says that in a cycle
the digest resolved, the annotations, what was pulled and, from `applying` on,
what the host is given are all the tag's; it needs `CycleInv`, since two cycles
at once would share the artifact directory. `watch_moving_tag` is the same
property without calm.

**Orascout** (`OrascoutProofs`). `SysInv` adds to `CycleInv` that a draft about
to be renamed holds what `Save` writes (`DraftInv`), that what a loss of power
leaves is of the right types, and that a log that is behind has a cycle under
way to ship it unless something has failed (`LogsInv`). From it come
`OrascoutTypes`, `OrascoutLogs` and `OrascoutImplementsWatcher`, one case per
action: only `RenameDraft` is `Save`, opening and filling the draft and shipping
the log stutter, and what remains are the steps of `Watcher` itself. This
refinement is why the invariants of `Watcher` carry over, except that a loss of
power is no step of it. For `OrascoutVouches`, under `~Rollback` and
`OneDeployer`, `DurableInv` says of the files a loss of power would leave what
`StoreInv` says of those there are; `Flush` carries the one over to the other,
and a tag that moves only makes them older. It takes the order of the writes
that section 2 assumes, and any number of losses.

**Deploy** (`DeployProofs`), for any number of files, versions, artifacts and
faults: `DeployTypes`, `DeployWholeFiles`, `DeployIsWhole`,
`DeployWhileStopped`, `DeployClearIsGuarded`, `DeployCheckedBeforeTouched`.
`DeployInv` says phase by phase which checks the artifact has passed
(`Admitted`), what is still to be copied (`Left`), what has been cleared, copied
and given its mode (`Copied`), and where the service is (`Unit`). The last is
what `SuccessIsWhole` hangs on: from the stop on no job of an earlier systemctl
is pending, because a systemctl that returns nil took its place, and a version
that counts as deployed leaves none behind. `Torn` may be in a
`.orascout.tmp` at any time, and gets to a final name never, since `rename` comes
only after the copy is complete.

**Request** (`PathProofs`, `RequestProofs`), for paths, commands and names of any
length, any links and any roots. The state machine is simple, and `RequestInv`
says no more than which checks the things used have passed. What is hard is what
the checks compute, by recursion over a path or a command. The induction
theorems of the library take an operator, which the provers cannot instantiate;
`SetInduction` states them with a set in its place (`EverySequence`: a set that
has the empty sequence and, with a sequence, each one that is longer by an
element, has all sequences), and shows from the definition of `FoldLeft` in the
community modules that it takes one element at a time. So

- `CleanIsWalk`: `path.Clean` of an absolute path is where the kernel gets to
  without links; `CleanLeadsThere`: without `..` it is so with any links. The
  refusal of names with two dots, which looks like one check too many, is what
  makes the checked path and the used path one place.
- `ParentsAgree`: `validateRequest` checks `Dir(Clean(p))`, war clears the
  `Dir` of the path as it is written; these differ after a trailing slash or
  dot, and then what is cleared is `Clean(p)`. That one was checked too, as the
  target, and is a level deeper than the parent that was checked to be deep
  enough (`WarClears`).
- `RequestTargets` and `RequestClears` follow.
- `RequestReads` is about the place a name inside the artifact leads to, with
  every link followed. `securePathJoin` compares names, and its guard alone
  gives no such thing: `in/..` is inside by its name, and with a link `in` the
  kernel leaves the directory. What it hands out is clean, though
  (`JoinIsPlace`: no dot, no empty segment), and a walk along such a name from
  the artifact directory goes from a place inside to a place inside, down by a
  name or along a link that stays inside (`CleanStaysInside`, by induction over
  the name).
- `RequestFileInOneArgument` is an induction over the characters of the command
  (`WordsAreWords`: no argument is empty) and one over those of an argument
  (`PutInWell`: putting in the file leaves it in one piece).
- `RequestRefs` cuts a reference at its first and last colon and joins it again.
  It assumes `SingleTags`, at most one colon in an entry of `repos` and in
  `logs_push`. `validate` does not see to that: in `a:b:c` config takes the tag
  `b:c`, and `splitRef` would read the name `a:b` from it. A tag of the registry
  has no colon.
- `RequestNeverPanics`, `RequestTypes`.

`PathAssumption` and `RequestAssumption` say of the constants that paths are
sequences of strings, that a link leads in the end to a directory that is no
link, and that the artifact directory is a directory, which an operating system
gives; and that a link in the artifact leads to a place in it, which oras-go
gives.

**Healthcheck** (`HealthcheckProofs`): `HealthTypes`, `HealthBound`,
`HealthVerdict`, `HealthCancel`, for all durations, positive or not, and every
behaviour of the command. None of the three properties is inductive: each needs
to know where the code is. `BoundInv` says that an attempt begins no later than
`LastTry` (the timeout and one sleep) and ends no later than `LastEnd`, since a
sleep begins only before the deadline. `VerdictInv` says that an attempt the
service could answer is answered before its limit, so that only one begun
earlier is cut off, and that one is judged before the deadline. `CancelInv` says
that after the cancellation time stands still but for the wait for the shell's
children, so that a sleep begun after it cannot end by its timer. The constant
`MaxLinger` is what the proofs assume of those children.

**Model-checked only**: liveness (`OrphanReclaimed`, `Converges`, `ShutsDown`,
`RetriesSucceed`, `Decides`), as everything that needs fairness and `ENABLED` is
outside this prover. The findings need no proof: TLC shows their
counterexamples.

## 6. Not modelled

* YAML and JSON: how a configuration, a manifest or a state file is parsed, and
  what happens if it cannot be; environment variables in credentials.
* Credentials, oras-go and its retries, the bytes of an artifact.
* A file system that does not keep the order of writes after a loss of power.
* Hooks, commands and a chown that hang: there is no timeout in the code, and
  the fairness assumed is that calls return.
* Other actors on the service or the target directory; links that change
  between a check and its use.
* The bits of a file mode, so also `applyTreePerms` giving directories the
  mode meant for files.
* Logging, flags, packaging, examples: no state of the program.

## 7. Plan

1. `Watcher` with several deploying processes: what `VouchedIsDeployed` becomes
   when memories may be stale, the record perhaps behind the target but not
   ahead of it.
2. `Lockfile` and `Watcher` together: the invariants of `Watcher` under the lock
   as it is, up to the first wrong verdict, from `LockRefinement`.
3. The steps of the liveness arguments that need no fairness: that each phase of
   a deploy, and each attempt of the healthcheck, gets smaller in a measure.
