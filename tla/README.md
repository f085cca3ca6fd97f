# A TLA+ model of sanity-gravity

sanity-gravity runs agent IDEs in docker sandboxes. Its own logic is a CLI
(`src/sanity_gravity`) that plans image builds, writes compose files, drives
`docker` and `docker compose`, migrates old containers and sets up an SSH agent
proxy, and the shell scripts that are PID 1 of a sandbox (`src/sandbox`,
`src/plugins`). This directory models that logic in TLA+, checks it with TLC on
small instances and proves with TLAPS, for every value of the constants, each
safety property that the passing runs check.

- [Inventory](#inventory): the parts of the system and what makes each correct
- [Modules](#modules): what models what, run by run
- [Proofs](#proofs)
- [Findings](#findings)
- [Not modelled](#not-modelled)
- [Plan](#plan)

To run: `tlc -config Kernel.cfg MCKernel.tla` (the pairs are in the tables
below), and `tlapm` with each of `KernelProofs`, `UpgradeProofs`, `SandboxesProofs`,
`ConnectionProofs`, `ReporterProofs`, `BuildPlanProofs`, `ContainerProofs` and
`PullProofs`.

## Inventory

| Component | State | Operations | Hard about it | Correct when |
|---|---|---|---|---|
| **kernel** `core/orchestrator.py`, `core/eventbus.py`, `effects/executor.py` | the bus of one run, `ctx.actions`, the executor's history, `actions.jsonl` | publish a phase, isolate a plugin hook, drain the queue, run one action, log it, close | half-done hooks, an action that fails in the middle, a log that breaks, Ctrl-C anywhere | an action runs once, in hook order and before the next hook; a raising plugin leaves nothing behind; the log has no gap |
| **upgrade** `verbs/upgrade.py` | containers, their writable layers, volumes, backup images | list, snapshot, remove, recreate, find volume, seed, start | every step can fail with half of it done; kills and reruns; agents that keep writing | no home is lost; what is reported after a failure is true, clause by clause |
| **sandbox verbs** `verbs/up.py`, `hooks/up.py`, `verbs/lifecycle.py`, `hooks/lifecycle.py` | docker's containers and volumes, the shared directory `config/` | up, down, stop, start, restart, clean | any number of processes without a lock; each looks, decides and acts in separate steps | homes survive everything but a consented clean; no unasked replacement; announcements are true; parallel projects do not meet |
| **compose generation** `compose/` | `config/*.yml` | write main, git and resources file | a file another process truncates or overwrites | compose reads what this process wrote |
| **ports** `plugins/manifest.py`, `hooks/up.py`, `compose/generators.py`, `verbs/upgrade.py` | `ctx.resolved_ports`, the environment of compose, docker's bindings | declare, publish, allocate, bind, probe, announce, recover | one port has a label, a slug, a variable and a container port; five tables, each with its own rule for duplicates | what is announced is what is bound; nobody gets a fixed port unasked; an upgrade keeps the ports |
| **build** `domain/layers.py`, `domain/plan.py`, `hooks/build.py` | the image store | closure, plan with cache probe, queue of docker builds | shared layers; concurrent builds; images that go between probe and use | parents first; nothing rebuilt twice; `--no-cache` means fresh |
| **SSH proxy** `infra/proxy_manager.py` | unit file, systemd, the socket path | setup, remove | systemd, socat and docker work on the same path; stale sockets; reboots | success reported means listening; setup repairs; removal is complete |
| **container shutdown** `entrypoint.sh`, `10-ag-shutdown.sh` | PID 1, the trap, supervisord, the IDE | boot, trap, hooks, end supervisord | signals at any moment, three nested time limits | the IDE gets its time; supervisord gets its share; exit 0 means it has ended |
| **batch verbs** `verbs/pull.py` | images | loop over items | one item of several fails; others change the same images | exit 0 means all of it landed; a failure is reported with the rest |
| **verbs on live containers** `verbs/sync.py`, `verbs/snapshot.py`, `hooks/snapshot.py` | containers, their layers and volumes, images, `config/` | look for projects and containers, copy the configuration, commit | what was found is stopped, paused, removed or replaced before it is used; one project of several fails; polling without an answer | "synced" is true; every project gets its verdict; a snapshot is of the sandbox that was meant |
| **tags, naming, capabilities** `domain/`, `core/registry.py` | none (pure) | parse, render, solve, resolve | names joined with the separator they contain | a name identifies what it names; every view of the matrix is the same |
| **plugin registry** `plugins/` | TOML manifests read once, at import | discover, validate, enumerate | what a plugin more does to the existing tags | only trees whose tags mean what they say are accepted |
| **reporter** `core/reporter.py`, `events.py`, `cli/io.py` | two sinks, `events.jsonl`, the executor's `actions.jsonl` | fan out, warn, give up, close | a sink that fails in the middle of a command, a stderr that is gone when the warning is due, Ctrl-C inside `emit` | the story has no gap; the files say which command a killed run was at; a broken log ends nothing |
| **CLI** `cli/` | none | parse, dispatch, error boundary | - | every domain error has an exit code |
| **read-only verbs** status, open, shell, ide, check, test-suite | none | query, exec | - | - |

How they meet. The CLI starts one process per command. A verb makes a
**context**, subscribes its **hooks** on a fresh **bus**, merges the plugins'
hooks into it, and lets the **orchestrator** run its phase tuple. Hooks read
docker and enqueue **actions**; the **executor** runs them after each hook.
Processes share nothing in memory: they meet in docker's containers, volumes
and images, in `config/`, and at the proxy's socket path, and none of these is
locked. `upgrade`, `proxy`, `pull` and `sync_config` do not use the phase loop.
A container meets the CLI only through `docker stop` and its volumes.

The hazards, each at its line, with the properties that would notice, are listed
in `PROJECT.json`.

## Modules

Every component has one module with its state, actions and properties, and an
`MC` module with finite values for its constants. Where a bound is needed it is
a constant whose name starts with `Max`, and its comment says BOUND. `Kernel` has a
type invariant that TLC checks. The types of the other modules are stated where
they are needed, in their proof modules, and proved there. Definitions
called `X_Something` directly before `X` are faulty variants of `X`; none of them
is used by a specification. They show that the properties can fail: put in `X`'s
place, each breaks the property it is listed with in `PROJECT.json`.

### Kernel, Pipeline

`Kernel` is `Orchestrator.run` with `EventBus.hooks_for` and `Executor.drain`.

| Kernel | code |
|---|---|
| `bus`, `MergeInto`, `Precedes`, `IsNext` | subscriptions in order, `merge_into(isolate=True)`, the sort key of `hooks_for` |
| `queue`, `baseline` | `ctx.actions`, its length before a hook |
| `pending`, `history`, `log`, `log_broken` | the list `drain` iterates, `Executor.history`, the lines of `actions.jsonl`, `_actions_broken` |
| `SkipHook`, `CallHook`, `HookAppends`, `HookReturns`, `IsolatedHookRaises`, `BuiltinHookRaises`, `EndPhase` | the body of the two nested loops, one action per way through it |
| `PreviewAction`, `StartAction`, `FinishAction`, `Record` | `Executor.run`; started and finished are two steps, so that an interrupt fits between |
| `Interrupt`, `InterruptWhileRecording`, `CloseExecutor` | a `BaseException` anywhere, and `__exit__` |

What a hook computes is abstracted to how many actions it appends, with or
without `check`, and whether it then raises. `Pipeline` is what a caller relies
on: hooks are called in order, each at most once, and commands run as blocks
behind their hook. `Kernel!ImplementsPipeline` is the refinement: the queue, the
rollback and the executor's list are invisible.

| run | module, cfg | shows |
|---|---|---|
| kernel | MCKernel, Kernel.cfg | all properties, and termination (2.2 million states) |

*Bounds.* Two phases; two builtin hooks, one of them left out of dry runs; every
bus of at most two plugin hooks that come before a builtin or tie with it; three
actions. A hook can then enqueue several actions and fail after one of them, two
hooks can fill a phase, and a third has actions that must not run.
Everything else about a bus is a matter of order, and three positions in a phase
show any two and one between.

*Fairness.* Only `RunTerminates` needs it: weak fairness of `Step`, the loop's
own next step. The loop is one thread that does nothing but its next step, and a
hook or a command that never comes back is outside what the loop can answer for.
Neither interrupts nor faults are fair.

### Upgrade

`_migrate_one` line by line over a docker daemon that holds containers (`old`,
`new`), writable layers (`home`), `volumes` and backup `images`. `pc` is the next
docker command, `stage` is the local of the same name, `report` is what the
`except` clause prints, with the step that failed. Every command may fail with or
without having done its work (`RemoveOldFails`, `CreateFails`, `SeedFails` with part
of the files copied), `Killed` is SIGKILL or Ctrl-C, agents go on writing
(`AgentWrites`), somebody else removes a container that is listed and not yet used
(`RemovedByOther`), and upgrade is run again. `Repository` joins project and service
as the code does, so two containers may share the name of a backup image.

`GeneratorTakesTag` says whether `generate_compose_for_tag` accepts what
`_migrate_one` passes to it. It does not: see Findings. The tests replace the
generator, and run *upgrade* checks the transaction as they see it (TRUE); run
*upgrade_tag_value* is the code (FALSE).

| run | shows |
|---|---|
| upgrade (MCUpgrade, Upgrade.cfg) | a home is lost only to whoever removes its container or to another one of its project and tag; a migrated home is on its volume; what is reported after a failure is true, with one exception (1.5 million states) |
| upgrade_tag_value (MCUpgrade, UpgradeTagValue.cfg) | a violation, see Findings |

Two containers of one project whose target is the same tag get one volume and one
container name; `compose create --force-recreate` for the first destroys the other if it
is already named so, before its snapshot, and a later one seeds over the home of an
earlier. `displaced` remembers to whom that happened (`Displaced`), and `removed` whose
container somebody else took; the properties speak of all others. No document promises
anything for these two. `late` has what is written between `docker commit` and
`docker rm -f`, since upgrade does not stop the container first: `Holds` is content with
an earlier version of such a file, never with none.

What is printed after a failure (`verbs/upgrade.py:328-338`) has two forms. "The old
container was NOT touched" is false only where another migration or somebody else
removed it. "Your data is safe in image ... The old container was already removed" is
true in its first half always, but in its second half not when `docker rm -f` is what
failed: `stage` is set before the command is run, so the message says "removed" of a
container that may be there. That is a flaw of the code; `ReportIsTrue` names this
one case (`r.step = "rm"`) and claims both halves everywhere else. "Rollback image
kept", printed at the end of a *successful* migration, is no property here: the image
is overwritten if a later container of the run has the same `Repository`.

*Bounds.* Five containers in two projects: a flat one and a managed one that share a
tag, a flat one whose backup image has the name of that managed one's, a managed one
that maps to no tag, and one of the new model. Two runs (a kill and its rerun), two
faults, one removal by somebody else (two would only be two containers, and each is
looked at by itself), one rewrite of each file. One path is enough because files of one
home do not affect each other; a partial copy is then nothing or everything, and both
are tried.

`UpgradeAssumption` has what the transaction takes for granted: there are finitely
many containers, and the `home_volume` label is only on services named after a tag,
since only the compose generator writes it.

*Fairness.* None: all properties are safety.

### Sandboxes

All `up`, `down`, `stop`, `start`, `restart` and `clean` processes of a host, over
one daemon and one `config/`. A process goes through the phases that touch
anything shared, one step per look or write: `Collision` (`docker ps -a`),
`WriteFiles` (`Open` truncates; `Close` completes the file, or leaves a mixture if
another process has written to it since: `Written`), `AllocatePort`
(`auto_port_alloc`), `ComposeUp` and its failures, `Resolve` (`docker compose
port`), `Provision`; `CleanPrompt`, `CheckExistence`, `Act`. `Stops` is an error
or a kill between any two. Containers and home volumes are known by the process
that made them, so "the same container" can be said.

| run | shows |
|---|---|
| sandboxes (MCSandboxes, Sandboxes.cfg) | three overlapping processes of nine command lines: homes survive; up without `--recreate` changes only what an overlapping process made after it began; what an up announces is so unless another process works on its own project, its limits unless an overlapping one asks for limits too; named projects never fail for a port; who asked for limits gets those of an overlapping process at worst, never none (3.6 million states) |

*Bounds.* Two projects (the default one and a named one), two tags, one port slug, three
processes, and a free port for each of the three sandboxes that the command lines
launch, which is what `ZeroConflict` needs. Every property is about one process, or one
and a container left by an earlier one, or one and another that overlaps; three
processes allow a predecessor and an overlapping one at once. All five properties are
proved for any number of each. One slug is enough here: how several are told apart is
the subject of `Ports`. The ports docker picks from are model values that nothing tells
apart, so `SYMMETRY FreePortsAlike` is sound: all properties are safety, and none names
one of these ports.

Two things the model shows that no document rules out, and that no property
therefore claims: two `up` of the *same* instance both pass the collision check,
and the later one takes over (`NoUnaskedReplacement` says that nothing older is
affected); `up --recreate` of the default project finds the
default port held by its own container and moves to an ephemeral one.

*Fairness.* None.

### Ports

All host ports of one sandbox, through the five places that name them. A tree is its
port declarations in the order of `all_manifests()` and the lines of its announce
templates.

| Ports | code |
|---|---|
| `published`, `GenerateCompose` | `generate_compose_for_tag`: a container port once, connector first |
| `Slugs`, `Wish`, `MaySwap`, `AllocatePorts` | `auto_port_alloc` with `_port_specs_by_slug`, the parser's defaults and `_explicit` |
| `env`, `Wanted` | `${VAR:-default}` in the compose file |
| `DockerUp`, `DockerUpFails`, `OthersBind` | docker binding all of them or failing; other programs of the host |
| `NeedsProbe`, `ResolveEphemeral` | `resolve_ephemeral`: every slug is asked for again, `"?"` where docker does not say |
| `LabelPort`, `LastLine`, `Announce`, `AnnounceFails` | `_ports_for_announce`, `_render_announce`, `announce` |
| `Inherited`, `Recover`, `RecoverFails`, `Fallback` | `_recover_env` of upgrade: `get_project_env`, whose variables come first and which may raise, then `get_published_ports`, then 0 |

`Coherent` is what the shipped plugins have in common and `_port_specs_by_slug` says
in its docstring: a slug, a variable, and within a tag a container port and a label,
each mean one port, and the parser's defaults and upgrade's table agree with the
manifests. Nothing checks it when a tree is loaded. None of its parts can be
left out: with a tree that breaks any one of them TLC finds one of the three
properties violated (two slugs with one variable, for instance, and one of
them gets the other's port).

| run | shows |
|---|---|
| ports (MCPorts, Ports.cfg) | what is announced is what docker bound, or "?"; a named project gets no fixed port that nobody asked for; a migrated container keeps its ports as far as upgrade's table knows them and no container of its project has the variable of one (81 thousand states) |

*Bounds.* The three shipped connectors, alone and with a plugin that adds a port,
declares one again, shares one with another plugin, or speaks of a port that only
some connectors have (then `announce` raises after the container runs). Eleven
command lines: every spelling of a flag, a default that is taken, a dry run, and
old containers with fixed, ephemeral, unknown and missing ports, and with a port
variable in the environment. The three
properties are proved for every coherent tree and every command line.

*Fairness.* None: the process may stop after any step.

### Reporter

One process and what it says: `emit` hands an event to the visible sink, then to the
file sink; the executor puts a command between two events and writes a record of its
own; `main` opens and closes the story.

| Reporter | code |
|---|---|
| `at`, `event`, `then` | how far `Reporter.emit` is with which event, and where it returns to |
| `events`, `actions`, `Written`, `Closed` | a log file with `_fp`, `_broken` and what its buffer holds |
| `Show`, `ShowFails` | `AnsiSink` and `JsonlSink`, and the warning of `emit`'s except clause |
| `FileTakes`, `FileSkips`, `FileCannotOpen` | `FileSink.consume`, `_ensure_open` |
| `Begin`, `Execute`, `Record`, `Finish`, `Fail` | `Executor.run` |
| `Unwind` ... `Exit` | `Executor.__exit__`, what `up` adds after a failed action (`Aside`), the except clauses of `main` with the hint (`Hint`), `Reporter.close` at exit |
| `Raise`, `CutShort` | an exception that leaves `emit`: an isolated hook or the sync of one project catches it, otherwise it ends the run |
| `Remark`, `PlainFails`, `PrintFails` | `cli/io.py`: what goes through the reporter, and the bare `print()`s that do not, in either log format |
| `StderrDies`, `Interrupt` | the reader of stderr going away; Ctrl-C at any step of the run |

A write may fail before or after the line is on disk, and a line that could not be
flushed stays in the buffer until the file is closed, which may or may not write it.

| run | shows |
|---|---|
| reporter (MCReporter, Reporter.cfg) | `events.jsonl` is a prefix of what was emitted, and all of it if it was not given up; a run that was killed anywhere leaves at most the last announced command in doubt; no sink ends a run while stderr works (819 thousand states) |

`NarrationIsHarmless` has to mention stderr: the warning about a sink that failed is
itself a write to stderr with nothing around it (`core/reporter.py:347`, `:242`,
`effects/executor.py:152`), so with stderr gone a full disk ends the run.

*Bounds.* Two commands and two remarks: one that is done before the one that
breaks, and something said between and around them. All three properties are proved
for any number of both. Ctrl-C while the logs are being closed is left out.

*Fairness.* None.

### BuildPlan

`LayerRef` as sequences of slugs, `Parent`, `SortKey`, `Closure`; `plan()` with
its cache probe one layer at a time; the queue of builds one at a time. An image
is known by its layer and the run that built it, and `from` keeps what it was built
FROM.

| run | shows |
|---|---|
| build_plan (MCBuildPlan, BuildPlan.cfg) | plans are parents first, complete and without repetition; a build lacks its parent only if the user removed an image while it was at work; a `--no-cache` build leaves nothing older than itself that an overlapping build has not put there; a requested image stands on the agent layer of the store unless an overlapping build or the user replaced one of the two (2.2 million states) |

`met` is whom a run overlaps with: other runs, and `Absent`, the user, once he has
removed an image while the run was at work. So the properties hold in runs that are
disturbed too; they only allow the image that was disturbed to be the disturber's.

`FinalOnCurrentAgent` claims only the agent layer and the final one, because the
cached rest of a chain may be stale by design: a `--no-cache` build of a sibling
replaces the shared desktop layer and leaves the agent layer built from the old
one.

*Bounds.* Three tags: two share all but the connector, the third shares only the
base and has a layer whose Dockerfile is missing. Two runs overlap; one removal.

*Fairness.* None.

### ProxyManager

`setup` and `remove` check by check and command by command, with systemd
(`service`), socat (`SocatListens`, `SocatDies`, `SocatRetries`), docker
(`DockerMakesDir`: a missing bind source becomes a directory) and `Reboot`. `at` is
where each process is; the specification is `ProxySpec`.

| run | shows |
|---|---|
| proxy_manager (MCProxyManager, ProxyManager.cfg) | a setup that says ok has an enabled service that runs or starts and no directory in its way; setup repairs what any earlier process left, also a service without a unit file; a remove that says ok has removed unit file and socket, also where its own `disable --now` failed in silence (2.1 million states) |

`alone` is true of a process as long as nothing has interfered with it: no other process,
no crash of socat, no directory made by docker. `failed` is the processes one of whose
commands failed. `RemoveOkMeansGone` claims the service to be off only where no remove
has failed and no process was interfered with: `remove` stops the service only if it is
*enabled*, so one that lost its unit file, or was started and not enabled, goes on
listening on a path that is unlinked under it, and a remove whose `disable --now` fails
says "removed" all the same. The next setup repairs that (`SetupRepairs`), the next
remove does not.

*Bounds.* Three processes, one fault, one stray directory; the ten looks for the
socket are one, since a look changes nothing but the count.

*Fairness.* None: whether socat comes up in ten seconds is up to the host, which
is why `setup` may time out.

### Container

One life of a container: boot, trap, fork, wait, `graceful_shutdown` and
`10-ag-shutdown.sh` under `timeout 22s`, against a user who opens and closes the
IDE, a supervisord that may end by itself, and Docker, which kills after `Grace`
seconds. A second passes per iteration of a polling loop, per second of
searching windows and per second of waiting; commands themselves take none.

| run | shows |
|---|---|
| container (MCContainer, Container.cfg) | the IDE has twelve seconds after ctrl+q; a shutdown heard at once leaves supervisord eight of thirty seconds; exit 0 cuts supervisord short in two windows only (739 thousand states) |

The conditions are the code's limits. A stop that comes before the trap is set is
ignored by PID 1 (`StopIgnored`), so the two timing properties speak of a first
stop heard at once (`heardAt = 0`). `CleanExitMeansStopped` is about the step that
exits with 0 while supervisord runs, and says that only two can be it: the handler
came between the fork of supervisord and `SUPERVISOR_PID=$!` and does not know whom to
end, or another stop interrupts the handler's wait for supervisord (which it may or
may not do, bash does not say, and both are allowed). Anywhere else, whatever the number
of stops, 0 means that it has ended.

*Bounds.* `Grace` is 30 as in the manifests, the loops have their real lengths,
two stops: one and one at every moment after it.

*Fairness.* None.

### Tags, Registry, Pull

`Tags` and `Registry` have no state: they are the grammars and the rules as
operators. A string is the sequence of what stands between its `-`s, so
`s.split("-")` is the sequence and joining is concatenation; a plugin tree is a
set of directories with manifests, and a manifest is a record of what the checks
tell apart (one flag stands for the shape of ports, compose, announce and ide).

| module | code |
|---|---|
| `Tags`: `WellFormed`, `Parse`, `Str` | `Tag.parse` with `__post_init__`, `__str__` |
| `Tags`: `LayerName`, `ParseLayer`, `Container`, `VolumeExternal`, `Ghcr` | `Naming` |
| `Registry`: `ManifestOK`, `PluginOK`, `DefaultsOK`, `Loads` | `load_manifest`, `PluginRegistry.from_dir`, `_validate_defaults` |
| `Registry`: `Missing`, `TagTier`, `ValidTags`, `Resolve` | `solve`, `tag_tier`, `valid_tags`, `resolve_tag` |
| `Pull`: `ImportFails`, `Begin`, `Variant`, `Finish` | the import of `core/registry.py`; `pull` and `pull_cmd`; `up` until it has its image |

`Pull` composes them into processes: each loads the tree of the checkout, is asked
for variants or for `all`, and goes through its list one docker command at a time,
while another process and the user change the same local names. `local` says of
each `sanity-gravity:<tag>` which remote image it is, so that "landed" can be said;
`touched` remembers what someone else did to an image after this process had dealt
with it.

| run | shows |
|---|---|
| pull (MCPull, Pull.cfg) | exit 0 means every image that was asked for landed, from the repository and in the version this process resolved; for 28 plugin trees `resolve_tag`, `valid_tags` and the import-time matrix agree and a plugin more changes no existing tag; no two sandboxes share a container or volume and no two layers an image (144 thousand states) |

`NamesIdentify` has an exception it spells out, `Overlap`: the grammar elides the
default base, so project `x` with the four segments `a-d-c-b` and project `x-a` with the
three segments `d-c-b` would be one, if `b` were a base and a connector. The registry
does not forbid that (one of the trees has such a base). The alphabet of the run
contains the prefix `sg` and projects that end in the first segments of a tag.

*Bounds.* Two processes, eight requests (all, one variant, several, malformed,
unknown, dry), one removed image. Two of a process's steps can be separated by any
step of one other, and an image that is touched once is touched. Ten trees are
accepted: the shipped shape, the empty one, and each with one plugin changed so
that the matrix changes; eighteen are refused, each by a check of its own.

*Fairness.* None.

### LiveVerbs, Batch

`LiveVerbs` is `sync_config`, the same sync as the last phase of `up`, and
`snapshot`. They have in common that they look for containers, decide, and act one
docker command later on what they found. A run is a process (`at` is where it is, the
specification is `VerbsSpec`); `cont`, `layer`,
`volume`, `volumes` and `images` are docker's, and `config` is the shared directory.

| LiveVerbs | code |
|---|---|
| `Active`, `Of`, `Live` | `get_active_projects`; `find_project_containers` with and without stopped ones, as sets |
| `Earliest`, `FirstOf`, `Current` | what comes first of them: projects are sorted, containers are in `VALID_TAGS` order |
| `todo`, `verdict` | `projects_to_sync` and how far the loop is; what was said of each project |
| `GetEnv`, `Find`, `FindNone` | the body of the loop: the user of the *first* container, running or not, then the first *running* one |
| `HasConfig` ... `Chown` | `sync_config`, one action per docker command or way through the prompt |
| `FailProject`, `Report` | the `except` of the loop, and the end of `sync_config_cmd` |
| `UpBegins` | `docker compose up -d` of the container a sync then follows, from the default image or a snapshot; the home is a volume, seeded if it is new |
| `ResolveProject` ... `Commit` | `snapshot_resolve_project`, `snapshot_resolve_container` with its prompt, `docker commit` |
| `Boot` | the entrypoint making the user; the group of that name only if the id is free |
| `Switch`, `RemoveContainer`, `LogIn` | pause, stop, start; down and clean; what a user does inside |

`Batch` is what `sync_config_cmd` promises: a run takes up a set of projects, gives
each one verdict, and ends with 0 only when all have theirs and none has failed.
`LiveVerbs!ImplementsBatch` is the refinement; the sync of `up` is a batch of one.

| run | shows |
|---|---|
| live_verbs (MCLiveVerbs, LiveVerbs.cfg) | a failing project does not take the others along; "synced successfully" means that the container has the whole configuration in its own user's home and owned by him, unless it was replaced meanwhile or a file of `./config` is unreadable; a snapshot is of the project and variant that were given, and where one is left out, of the only one there was all the time (2.2 million states) |
| snapshot_logins (MCLiveVerbs, SnapshotLogins.cfg) | a violation, see Findings |

`SyncedMeansDelivered` has two conditions because the code has two limits. The
container may be removed and made again between two `docker exec`, with an empty
home. And the pipe `tar | docker exec tar` has the exit status of its right side,
so a file the left side cannot read is left out and nobody is told.

*Bounds.* Two runs of seven jobs, two projects (one of them the default name), two
variants, and one thing a user does at any moment. Two runs show one step of another
between any two of this one; two projects with two variants make every resolution
ambiguous that can be.

*Fairness.* None.

## Proofs

### Kernel

`Kernel` first, for every phase tuple, every list of builtin
hooks, every plugin bus and every bound on actions, from `KernelAssumption`
alone (the constants have their types). All safety properties of run *kernel* are
proved, and so is the refinement.

| theorem | module | property |
|---|---|---|
| `TypeCorrect` | KernelProofs | `TypeOK` |
| `FailureIsLast` | KernelProofs | `CheckedFailureIsLast` |
| `LogHasNoGap` | KernelProofs | `LogIsPrefixOfHistory` |
| `EffectsAudited` | KernelProofs | `NoUnauditedEffect` |
| `RollbackIsComplete` | KernelProofs | `DiscardedNeverRuns` |
| `DrainedBetweenHooks` | KernelProofs | `LaterHookSeesEarlierActions` |
| `OkIsComplete` | KernelProofs | `OkMeansComplete` |
| `KernelImplementsPipeline` | KernelProofs | `ImplementsPipeline` |

*The argument.* None of these is inductive. What they share is `Control`: the
place in the loop tells which lists can be filled. While actions are executed the
queue is empty; between hooks an executor leaves nothing queued; so under an
executor a hook starts at baseline 0. The types need it (`Head(pending)` is an
action only if there is one).

*Audit* (`AuditInv`). As long as the run is on, nothing checked has failed
(`NothingFailedYet`), so the record that fails is the last one; and what was
started is what was recorded, plus the head of the executor's list while it is
under way (`EffectsMatch`). `AuditFrame` says which steps touch the audit trail.

*Flow* (`FlowInv`). `Provenance`: every action comes from a hook that was met.
When a hook is called it is new, so nothing anywhere is its own, and
`Attribution` follows: its actions are behind the baseline and nowhere else. That
is why the rollback, which cuts by position, drops exactly what belongs to the
raising hook, and why `Conservation` (an action is discarded, waiting or done,
never two of these by way of a discard) survives it. The lemma `Moves` reduces
the steps of the kernel to five ways of moving actions, so each of these
invariants has five cases. `Order` says that the hooks met are a prefix of the
sorted ones; with `Block` (the executor's list belongs to the hook called last) it
gives the refinement step by step (`PromiseStep`).

### Upgrade

| theorem | property |
|---|---|
| `HomesAreKept` | `NothingLost` |
| `MigratedHomes` | `MigratedMeansSeeded` |
| `ReportsAreTrue` | `ReportIsTrue` |

For every finite set of containers, every number of runs, faults, removals and rewrites,
from `UpgradeAssumption`; whether `GeneratorTakesTag` does not matter to them. *The
argument.* A home is in one place after the other: in the container until `rm`, in this
run's image from `commit` on, on the volume once it is seeded. `Place` says which of them
hold it at each step of the container that is being migrated, `Away` that it stays
somewhere when upgrade has gone on, has failed or was killed: it is `Kept` as long as the
container is there, migrated or taken away, and otherwise an image that is `Safe` has it,
which no later commit of the run overwrites. What a step can destroy is bounded by the
lemmas `Removed`, `StillHeld`, `ImagesKept` and `VolumesKept`; only a container with the
same project and target can be hit by `create --force-recreate`, and `displaced`
remembers it. `Planned`, `Waiting` and `Once` say of the rest of the plan that each
container is in it once and still there, unless it was taken away. `ReportsAreTrue`
follows at the step that fails (`Failing`, `Reported`), and stays true (`ReportKept`).

### Sandboxes

| theorem | property |
|---|---|
| `HomesAreSafe` | `HomesSurvive` |
| `NobodyIsReplaced` | `NoUnaskedReplacement` |
| `LimitsAreAskedFor` | `LimitsFromOverlappingRun` |
| `AnnouncedIsSo` | `AsAnnounced` |
| `NoConflict` | `ZeroConflict`, given a free port for everything that is launched |

For any number of processes, projects, tags, ports and command lines, from
`SandboxesAssumption`: a port docker picks is not one that a user names, and no tag is
called like an overlay. *The argument.* The lemmas `Moves`, `ContainerMoves`,
`HomeMoves` and `FileMoves` say what one step of one process can do to each shared
thing; the invariants need nothing else of the actions. `Makers`: a process makes a
container in one step only, so who made one is past that step and never makes another.
So the container that was there when an `up` began, once seen to be gone, does not come
back (`Left`), and `NoUnaskedReplacement` follows although the look and the act are far
apart. `Met`: processes that are active together have met. So the overlay that a process
is about to use was written by itself or by one it met (`Overlay`), and what a process
has made that met nobody on its own project stays as it made it (`Alone`, with
`Published`: a container is bound to the port it is configured with, or to one docker
chose). `NoConflict` counts: what is bound is a container, and a container is of a
project and tag that some command line launches (`Launchers`), so if these are at most
as many as the ports docker picks from, all others hold fewer ports than there are
(`FreePortLeft`, by the library's pigeonhole theorem). Without that condition docker
itself has no port to give; the run satisfies it.

### Ports, ProxyManager (ConnectionProofs)

| theorem | property |
|---|---|
| `AnnouncementsAreTrue` | `AnnouncedIsPublished` |
| `ZeroConflict` | `OnlyAskedPortsAreFixed` |
| `PortsSurviveUpgrade` | `UpgradeKeepsPorts` |
| `SetupMends` | `SetupRepairs` |
| `SetupIsTrue` | `SetupOkMeansRunning` |
| `RemoveIsTrue` | `RemoveOkMeansGone` |

Ports: for every coherent tree, every tag and every command line, from
`PortsAssumption`. *The argument.* The first and the last of several declarations exist
because the merge order is a linear order (`FirstLoadedIn`, `FirstMergedIn`,
`LastMergedIn`, by well-founded induction of the library on sets of indices). `Coherent`
then says that it does not matter which one a table took. `Chain` follows a port from
name to name: `FileInv` (a container port is published from a declaration of its own),
`EnvInv` and `RecoverInv` (a variable says what its slug was allocated, or the old
container had), `ResolvedInv` (after the probe a slug of the tag says what docker
bound).

The proxy: for any number of processes, faults, stray directories and reboots. *The
argument.* `ProxyInv` says of a process that nothing has interfered with what the host
is like at each of its steps (`SetupGoesOn`, `RemoveGoesOn`), whatever it was like
before: each step of setup establishes one part and keeps those before it. `OnlyOne`
says that there is no other process to break it. As long as no command of a remove
has failed and no process was interfered with (`Untroubled`), what runs is enabled and
what is enabled has a unit file (`Traces`), also where a process was killed or a setup
failed, so that `remove` finds all there is.

### Reporter

| theorem | property |
|---|---|
| `StoryHasNoGap` | `EventsHaveNoGap` |
| `CrashIsInTheFiles` | `CrashIsLocated` |
| `LogsAreHarmless` | `NarrationIsHarmless` |

For any number of commands and remarks. *The argument.* A line that could not be
flushed may get out when the file is closed, so the invariants speak of `Pages(w)`, the
lines of a file with those it may yet get. `StoryInv`: they are a prefix of what was
emitted, and short of it by the current event at most while the file is intact; an
event that an exception cuts short in `emit` does not count (`StoryCut`).
`Tally`: how far the last command is. `AuditInv`: what both files say of commands,
which needs that a command is begun only when the one before it has been settled.

### BuildPlan

| theorem | property |
|---|---|
| `ClosureIsSorted` | (`closure()`: each layer needed, once, in the order of `sort_key`) |
| `PlansAreParentsFirst` | `PlanIsParentsFirst` |
| `ParentIsThere` | `NeverWithoutParent` |
| `FreshChains` | `NoCacheMeansFresh` |
| `FinalsAreCurrent` | `FinalOnCurrentAgent` |

For every finite matrix of tags, every set of missing Dockerfiles and any number of
runs, from `BuildPlanAssumption`. *The argument.* `Closure` puts a layer at the place
given by how many come before it; that this is a sorted list of all of them follows
from `SortKey` being a linear order and from the library's facts about cardinalities
of finite sets: places differ because one set of predecessors includes the
other, and every place is taken because as many layers cannot go into fewer places.
No induction is needed. `Planning` then says what of the closure is in a plan so far,
and `Position` where in the plan its builds are. `InStore`: a layer the plan left out
was in the store when it was probed, what the run has built is there too, and only the
user takes images out, who then has been met (`RemovedMeanwhile`). `Meeting`, `Own` and
`Current` say whose each image is: the run's own or that of one it has met (`Fresh`).

### Container, LiveVerbs (ContainerProofs)

| theorem | property |
|---|---|
| `CleanExit` | `CleanExitMeansStopped` |
| `IdeTime` | `IdeGetsItsTime`, given `Grace >= HookLimit` |
| `SupervisorTime` | `RoomForSupervisor`, given `Grace >= HookLimit + 8` |
| `SyncIsTrue` | `SyncedMeansDelivered` |
| `SnapshotIsMeant` | `SnapshotOfTheOneMeant` |
| `VerbsImplementBatch` | `ImplementsBatch` |

One life of a container: for every grace period and any number of stops. The two
timing properties need a grace period that leaves room: 22 seconds are what `timeout`
gives the hooks, and 22 + 8 = 30 is what the connectors declare as `stop_grace_period`.
*The argument.* Time passes only in the hook, until it ends, and then for supervisord.
`Hook` ties the seconds of its loops to `age`, `age` never passes `HookLimit`, and for
a stop that is heard at once the clock is the age (`Answer`); so supervisord is asked
at second 22 at the latest (`Term`). `Shell` says what PID 1 has started and knows at
each place, which is why only the two windows lead to status 0 with a supervisord that
has not ended.

The verbs: for any number of runs, projects, variants, users and events, from
`LiveVerbsAssumption` (both orders are sequences of what they order). *The argument.*
The containers change under a run at any time, so `VerbsInv` only claims what a
change cannot take back: `Placed` (the container it works on is of the project it has
got to, which comes from the first of a non-empty set being in the set,
`EarliestIn`), `Steady` (the history of a run holds containers that are there),
`Transferred` (between the pipe and the `chown` the files stay in the same home, layer
or volume, unless the container is replaced: `WholeStays`) and `Narrowed` (what
snapshot has excluded so far). Other runs and the user only shrink the history of a
run (`OthersUntouched`, `UserTouchesNone`), and a claim about fewer containers is
weaker. For the refinement, `OwnBatch` says that a step changes the batch of one
run; then each step is a step of that batch (`Handling`, `Becoming`) or unseen.

### Tags, Registry and Pull

| theorem | module | says, for every alphabet of slugs, tree, project and string |
|---|---|---|
| `TagRoundTrip`, `ParseIsCanonical` | PullProofs | parsing and printing a tag are inverse, but for a default base that is spelled out |
| `LayerRoundTrip` | PullProofs | `layer` and `parse_layer` are inverse, so no two layers share an image |
| `SandboxNames` | PullProofs | one container or one volume means one sandbox, unless `Overlap` |
| `ResolveIsTheMatrix` | PullProofs | `resolve_tag` accepts a string exactly if it parses to a member of `valid_tags` |
| `NamesAlwaysIdentify` | PullProofs | `Spec => []NamesIdentify` |
| `MatrixAlwaysAgrees` | PullProofs | `Spec => []MatrixAgrees`: every way to ask which tags there are agrees, and a plugin more changes no tag there was |
| `ZeroMeansLanded` | PullProofs | `Spec => []ExitZeroMeansLanded` |

*The argument.* Names are told apart from the end: a printed tag has three or four
segments (`StrShape`). If two names are equal and the tags have the same length, the
projects have it too and both parts are equal. If one tag is shorter, the last segment
is the connector of one and the base of the other: that is `Overlap`, and the lemma
`Suffix` says there is nothing else. A layer name is either a tag, which begins with a
slug, or begins with the mark, which is none. The assumptions are `TagsAssumption` (a
slug is not the mark, the default base is a slug) and, of the trees, only that they
load: `IdentityOK` makes their slugs slugs of the grammar. For the matrix, `GetIs` says
that a slug names one directory of a tree, `OneLess` that taking a directory away from a
tree that loads leaves the manifests of the others as they were, and `OfficialTier` that
a tag is official exactly if its plugins are. For `ZeroMeansLanded` the trees are
finite, as directories are (`all` is a list of the matrix). `Looping`: the list of a
process is what was asked for, resolved; `Landed`: what is behind it in the list is the
image it pulled, was touched by someone else, or has failed, and a failure is remembered
until the exit status.

### What is only model-checked

`RunTerminates`, because liveness under fairness is beyond the prover. The properties
that a run refutes, `LoginsAreKept` and `FailsOnlyOnFault`, are not the code's and have
no theorem. Every other property of a run is a theorem, under the ASSUMEs of its modules
and the conditions the tables name. No module declares a RECURSIVE operator, and no
proof needs induction over data: where a list is made from a set, the place of an
element is a count, and what comes first is the least index.

## Findings

Two places where the code does not do what it or its documents say, each with a run
that is expected to fail.

| run | what |
|---|---|
| upgrade_tag_value | `_migrate_one` passes a `Tag` to `generate_compose_for_tag` (`verbs/upgrade.py:184`), which parses it as a string: AttributeError, so every migration stops after the snapshot. `verbs/upgrade.py:8-10` says the container is recreated. |
| snapshot_logins | `snapshot` is one `docker commit` (`hooks/snapshot.py:144-146`), which takes nothing that is mounted, and `compose/generators.py:112-113` mounts the whole home on a named volume: a sandbox launched from the snapshot has no login. `README.md:215`: "Freeze your configured environment — installed software, login sessions, custom settings — into a reusable image." |

Further divergences the models contain, without a run of their own:

- "The old container was already removed" (`verbs/upgrade.py:335`) is also printed when
  `docker rm -f` is what failed: `stage` is set before the command is run
  (`verbs/upgrade.py:191-193`, `Upgrade!RemoveOldFails`). The rest of the message, that
  the data is safe in the image, is true (`Upgrade!ReportIsTrue`).
- `proxy remove` prints "SSH Proxy service and socket removed." although its
  `disable --now` may have failed and the service goes on (`infra/proxy_manager.py:203`,
  `verbs/proxy.py:89`, `ProxyManager!Disable` and `RemoveOkMeansGone`).
- An isolated hook that raises is contained, but a checked *action* it enqueued is
  drained outside the `try` (`core/orchestrator.py:216-219`), and its failure aborts the
  verb. `core/eventbus.py:17-18`: "A buggy third-party plugin must not be able to abort
  an ``up`` flow midway." (`Kernel!FinishAction` ends the run whoever enqueued the action).
- `pull` without an argument asks for `OFFICIAL_TAG_VALUES`, which are `Tag` values; if
  one fails, `', '.join(report.failed)` (`verbs/pull.py:195`) raises TypeError: a
  traceback instead of the summary that `tests/unit/test_pull.py:209` expects. The tests
  type their variants (`Pull!Finish`).
- `auto_port_alloc` says that "default values [...] come from the plugin manifests
  [...], not a kernel-side table" (`hooks/up.py:75-79`), but the ports that have a flag
  take theirs from `cli/parser.py:38-45`: a manifest that changes the default of such a
  port keeps the parser's, as if the user had wished it (`Ports!Wish`, ruled out by `Coherent`).
- upgrade recovers the ports of two tables of its own (`verbs/upgrade.py:85-88`,
  `:128-131`), while `docs/architecture.md:55` says that a plugin with ports is "a
  directory + a manifest [...] no Python edits required". Any other port of a migrated
  container gets its default, in a named project too (`Ports!TableVar`; the exception
  in `OnlyAskedPortsAreFixed`).
- An announce template that names a label of another plugin raises KeyError where the
  tag has no such plugin (`hooks/up.py:253`), after the container runs
  (`Ports!AnnounceFails`).
- What is best-effort by its comments ("Failures are non-fatal", `core/reporter.py`) ends
  the run with a traceback if stderr is gone when it warns (`Reporter!ShowFails`,
  `FileCannotOpen`, `RecordCannotOpen`).
- `config/docker-compose.resources.yml` is one file for all projects
  (`compose/generators.py:261`): two overlapping `up` can run with each other's
  limits, while `README.md:83` promises "Parallel isolated sandboxes"
  (`Sandboxes!LimitsFromOverlappingRun` says what is left of it).
- `up --dry-run` writes the compose files (`hooks/up.py:28`); the option's help,
  `cli/parser.py:83`, says "no Docker / FS calls are made" (`Sandboxes!ComposeFiles`
  does not look at the flag).
- `--ssh-port=2222` is not recognised as explicit (`verbs/up.py:147` looks for the
  bare flag) and becomes ephemeral for a named project; `docs/cli-reference.md:84`
  says "unless explicitly provided" (`Sandboxes!Explicit`).
- A `ManifestError` is a SanityError "so the CLI boundary renders it"
  (`plugins/manifest.py:160-167`), but the registry is loaded when
  `core/registry.py` is imported, before `main()`: any verb ends in a traceback
  (`Pull!ImportFails`).
- `up --pull --dry-run` pulls: `verbs/up.py:100` asks for `--pull` before the dry run
  (`Pull!UpBegins`).
- A failing `docker tag` is not collected with the failed variants but ends the
  batch, the variants that are left untried (`verbs/pull.py:177`,
  `Pull!DockerTagFails`).
- A `chown` that fails in a sync is a warning; the run goes on to "Sync complete." and
  exit 0 (`verbs/sync.py:130-140`, the verdict `partial`). It fails for every user whose
  group id exists in the image: the entrypoint then makes no group of his name
  (`LiveVerbs!Boot`, `Known`).
- `sync_config` takes HOST_USER from the first container of a project, running or not,
  and copies to the first running one, and to no other (`LiveVerbs!GetEnv`, `Find`).
- `--name sanity-gravity` is not the name of a project to these verbs, although
  `docs/cli-reference.md:178` and `:186` show it as one: `sync_config` then syncs every
  project, and `snapshot` takes the only project there is, whatever its name, and
  refuses if there are several (`LiveVerbs!SyncBegins`, `ResolveProject`, `NoProject`).
- A snapshot that finds no container, or several, says so and exits 0
  (`LiveVerbs!Cancel`).

## Not modelled

- The text of compose files, Dockerfiles and messages: layout, not control.
- status, list, open, shell, ide, check and test-suite: each looks for a project and a
  container with the functions `LiveVerbs` models (`get_active_projects`,
  `find_project_containers`) and prints, or hands the terminal to another program. They
  change nothing that another process reads, so no property of a history is about them.
- The fields of a manifest that neither the tags nor the ports depend on (compose,
  environment, ide): one flag says whether they have their shape. The hooks of a plugin
  are in `Kernel`.
- The passwords and user names that upgrade recovers, and the parser of the command
  line, which is a table.
- Ctrl-C while the logs are being closed.
- Image contents, browser installation and CI probes: installation scripts.

## Plan

Done first, in this order: `Kernel` with `Pipeline` (everything runs on it),
`Upgrade` (user data), `Sandboxes`, `BuildPlan`, `ProxyManager`, `Container`, then
`Tags` and `Registry` with `Pull` (what every verb's names and tags mean), and
`LiveVerbs` with `Batch`, `Reporter` (what is left of a run that broke), `Ports`
(manifest to announcement), and the proofs, component by component.

Modules to come: `legacy_target_tag` of `Upgrade` in terms of `Tags` and `Registry`,
and `Coherent` of `Ports` derived from what `Registry` accepts, which needs the
[ports] section there.

Theorems to come:

1. `Upgrade`: that a second run finishes what a first one left (so far only that
   nothing is lost in between).
2. `Reporter`: both files together as a refinement of one list of commands.
3. `Ports`: `Coherent` from the acceptance rules of `Registry`, so that
   `AnnouncementsAreTrue` speaks of every tree that loads.
