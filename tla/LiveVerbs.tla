------------------------------ MODULE LiveVerbs ------------------------------
(***************************************************************************)
(* The verbs that work on containers they find: sync_config, the same sync *)
(* as the last phase of up, and snapshot (verbs/sync.py, verbs/snapshot.py,*)
(* hooks/snapshot.py, the discovery of verbs/lifecycle.py).  They look, and*)
(* act on what they saw one docker command after the other, while the user *)
(* and other runs stop, pause, remove and replace the same containers.     *)
(* Of an image only the logins in it matter here, of ./config whether it   *)
(* is there and readable.  A dry run changes nothing and is left out.      *)
(***************************************************************************)
EXTENDS Naturals, SequencesExt

CONSTANTS
  Runs,            (* runs of the CLI                                         *)
  Projects,        (* project names in the order sorted() gives               *)
  Variants,        (* tags in the order of VALID_TAGS                         *)
  DefaultProject,  (* "sanity-gravity", which means every or the only project *)
  Users,           (* names of host users                                     *)
  Caller,          (* the user who starts each run                            *)
  Targets,         (* image tags given to snapshots                           *)
  Jobs,            (* what a run may be asked for                             *)
  Initial,         (* containers there at first                               *)
  MaxEvents        (* BOUND: things the user does to containers               *)

Project  == ToSet(Projects)
Instance == Project \X ToSet(Variants)

\* up: --name, --variant and --image; sync_config: --name; snapshot: --name,
\* --variant and --tag.  "" is an option left out.
Job ==
  [verb : {"sync", "up", "snapshot"}, name : Project \cup {DefaultProject},
   variant : ToSet(Variants) \cup {""}, tag : Targets \cup {""}, tty : BOOLEAN]

\* user: HOST_USER in its environment; mounted: /home/<user> is on its volume;
\* account: what its entrypoint has made of the user so far.
Containers ==
  [state : {"absent", "running", "paused", "exited"}, user : Users \cup {""},
   mounted : BOOLEAN, account : {"none", "user", "user and group"}]

NoContainer == [state |-> "absent", user |-> "", mounted |-> FALSE, account |-> "none"]

ASSUME LiveVerbsAssumption ==
  /\ Projects \in Seq(Project) /\ Variants \in Seq(ToSet(Variants))
  /\ Caller \in [Runs -> Users]
  /\ Jobs \subseteq Job
  /\ \A q \in Jobs : /\ q.verb = "up" => <<q.name, q.variant>> \in Instance
                     /\ q.verb = "snapshot" => q.tag # ""
  /\ Initial \subseteq [Instance -> Containers]
  /\ MaxEvents \in Nat

-----------------------------------------------------------------------------
VARIABLES
  cont,     (* the container <project>-<tag>-1 of each instance               *)
  volumes,  (* instances whose volume sg-<project>-<tag> exists               *)
  volume,   (* what is on it                                                  *)
  layer,    (* what is in the container's writable layer                      *)
  images,   (* the images of the snapshots                                    *)
  config,   (* ./config: "missing", "there", or "torn": one file unreadable   *)
  job, at,  (* what each run was asked for, and where it is                   *)
  todo,     (* projects it has still to sync                                  *)
  user,     (* the user it syncs to                                           *)
  inst,     (* the container it has found                                     *)
  project,  (* the project of a snapshot                                      *)
  found,    (* the containers it may choose from                              *)
  verdict,  (* what it has said of each project                               *)
  steady,   (* history: containers there since it looked, not replaced     *)
  logged,   (* history: sandboxes whose user has logged in                 *)
  events    (* things the user has done                                       *)

docker  == <<cont, volumes, volume, layer, images>>
run     == <<todo, user, inst, project, found, verdict>>
past    == <<steady, logged, events>>
verbsVars == <<docker, config, job, at, run, past>>

\* files: the config in ~/.gemini; own: chown has run since the last transfer;
\* login: the session of an agent.
Empty   == [files |-> "none", own |-> FALSE, login |-> FALSE]
NoImage == [from |-> <<>>, login |-> FALSE, logged |-> FALSE]
NoJob   == [verb |-> "none"]

VerbsInit ==
  /\ cont \in Initial
  /\ volumes = {i \in Instance : cont[i].mounted}
  /\ volume = [i \in Instance |-> Empty]
  /\ layer = [i \in Instance |-> Empty]
  /\ images = [t \in Targets |-> NoImage]
  /\ config \in {"missing", "there", "torn"}
  /\ job = [r \in Runs |-> NoJob]
  /\ at = [r \in Runs |-> "idle"]
  /\ todo = [r \in Runs |-> {}]
  /\ user = [r \in Runs |-> ""]
  /\ inst = [r \in Runs |-> <<>>]
  /\ project = [r \in Runs |-> ""]
  /\ found = [r \in Runs |-> {}]
  /\ verdict = [r \in Runs |-> [p \in Project |-> "none"]]
  /\ steady = [r \in Runs |-> {}]
  /\ logged = {}
  /\ events = 0

Exists(i) == cont[i].state # "absent"
Sandboxes == {i \in Instance : Exists(i)}

\* get_managed_projects, get_active_projects: stopped ones count.
Active == {p \in Project : \E i \in Sandboxes : i[1] = p}

\* find_project_containers, with and without include_stopped; paused is running.
Of(p)   == {i \in Sandboxes : i[1] = p}
Live(p) == {i \in Of(p) : cont[i].state # "exited"}

\* Both come in an order: projects are sorted, containers as in VALID_TAGS.
Earliest(order, S) == order[Min({k \in DOMAIN order : order[k] \in S})]
FirstOf(p, S)      == Earliest([k \in DOMAIN Variants |-> <<p, Variants[k]>>], S)

\* docker exec works in a container that runs and is not paused.
Execs(i) == cont[i].state = "running"

\* chown u:u needs the user and a group of that name.
Known(i, u) == cont[i].user = u /\ cont[i].account = "user and group"

OnVolume(i, u) == cont[i].mounted /\ cont[i].user = u
Home(i, u)     == IF OnVolume(i, u) THEN volume[i] ELSE layer[i]

\* /home/u of the container i becomes h.
SetHome(i, u, h) ==
  IF OnVolume(i, u) THEN volume' = [volume EXCEPT ![i] = h] /\ UNCHANGED layer
                    ELSE layer' = [layer EXCEPT ![i] = h] /\ UNCHANGED volume

Goto(r, label) == at' = [at EXCEPT ![r] = label]
Look(r)        == steady' = [steady EXCEPT ![r] = Sandboxes]

\* For everyone else i is no longer the container it was.
Replaced(i) == [r \in Runs |-> steady[r] \ {i}]

Ask(r, q) == at[r] = "idle" /\ job' = [job EXCEPT ![r] = q]

-----------------------------------------------------------------------------
(* sync_config_cmd: which projects *)

SyncBegins(r, q) ==
  /\ q.verb = "sync" /\ Ask(r, q)
  /\ LET batch == IF q.name = DefaultProject THEN Active ELSE Active \cap {q.name} IN
     /\ todo' = [todo EXCEPT ![r] = batch]
     /\ Goto(r, IF batch = {} THEN "ok" ELSE "next")
  /\ UNCHANGED <<docker, config, user, inst, project, found, verdict, past>>

\* docker ps fails: CommandError.
SyncNoDocker(r, q) ==
  /\ q.verb = "sync" /\ Ask(r, q) /\ Goto(r, "error")
  /\ UNCHANGED <<docker, config, run, past>>

-----------------------------------------------------------------------------
(* The loop over the projects *)

Current(r) == Earliest(Projects, todo[r])

Verdict(r, v) ==
  /\ verdict' = [verdict EXCEPT ![r][Current(r)] = v]
  /\ todo' = [todo EXCEPT ![r] = @ \ {Current(r)}]
  /\ Goto(r, "next")

\* get_project_env: HOST_USER of the first container, running or not.
GetEnv(r) ==
  /\ at[r] = "next" /\ todo[r] # {}
  /\ LET p == Current(r) IN
     user' = [user EXCEPT ![r] = IF Of(p) = {} THEN Caller[r] ELSE cont[FirstOf(p, Of(p))].user]
  /\ Goto(r, "find")
  /\ UNCHANGED <<docker, config, job, todo, inst, project, found, verdict, past>>

Find(r) ==
  /\ at[r] = "find" /\ Live(Current(r)) # {}
  /\ inst' = [inst EXCEPT ![r] = FirstOf(Current(r), Live(Current(r)))]
  /\ Look(r) /\ Goto(r, "config")
  /\ UNCHANGED <<docker, config, job, todo, user, project, found, verdict, logged, events>>

FindNone(r) ==
  /\ at[r] = "find" /\ Live(Current(r)) = {}
  /\ Verdict(r, "skipped")
  /\ UNCHANGED <<docker, config, job, user, inst, project, found, past>>

\* Mutant: the error leaves the loop.
FailProject_Aborts(r) ==
  /\ at[r] \in {"next", "find", "config", "mkdir", "tar"} /\ todo[r] # {}
  /\ Goto(r, "error")
  /\ UNCHANGED <<docker, config, job, run, past>>

\* A docker command, or a file operation on the host, fails: one project less.
FailProject(r) ==
  /\ at[r] \in {"next", "find", "config", "mkdir", "tar"} /\ todo[r] # {}
  /\ Verdict(r, "failed")
  /\ UNCHANGED <<docker, config, job, user, inst, project, found, past>>

\* The end of sync_config_cmd; in up, a sync that fails raises out of the hook.
Report(r) ==
  /\ at[r] = "next" /\ todo[r] = {}
  /\ Goto(r, IF \E p \in Project : verdict[r][p] = "failed" THEN "failed" ELSE "ok")
  /\ UNCHANGED <<docker, config, job, run, past>>

-----------------------------------------------------------------------------
(* sync_config: one container *)

HasConfig(r) ==
  /\ at[r] = "config" /\ config # "missing"
  /\ Goto(r, "poll")
  /\ UNCHANGED <<docker, config, job, run, past>>

\* No terminal, or the user answers C.
SkipConfig(r) ==
  /\ at[r] = "config" /\ config = "missing"
  /\ Verdict(r, "skipped")
  /\ UNCHANGED <<docker, config, job, user, inst, project, found, past>>

\* A copies the host's files, B writes empty ones; either may fail half way.
MakeConfig(r) ==
  /\ at[r] = "config" /\ config = "missing" /\ job[r].tty
  /\ config' = "there"
  /\ \/ Goto(r, "poll") /\ UNCHANGED <<todo, verdict>>
     \/ Verdict(r, "failed")
  /\ UNCHANGED <<docker, job, user, inst, project, found, past>>

\* Thirty polls of id -u: the user is there, or the sync goes on without.
WaitForUser(r) ==
  /\ at[r] = "poll"
  /\ Goto(r, "mkdir")
  /\ UNCHANGED <<docker, config, job, run, past>>

Mkdir(r) ==
  /\ at[r] = "mkdir" /\ Execs(inst[r])
  /\ LET h == Home(inst[r], user[r]) IN
     SetHome(inst[r], user[r], [h EXCEPT !.files = IF @ = "none" THEN "dir" ELSE @])
  /\ Goto(r, "tar")
  /\ UNCHANGED <<cont, volumes, images, config, job, run, past>>

\* run_shell of tar | docker exec tar: the status of the pipe is that of the
\* right side, so a file the left side cannot read is only left out.
Tar(r) ==
  /\ at[r] = "tar" /\ Execs(inst[r])
  /\ LET h == Home(inst[r], user[r]) IN
     /\ h.files # "none"
     /\ SetHome(inst[r], user[r],
          [h EXCEPT !.own = FALSE,
                    !.files = IF config = "torn" /\ @ # "whole" THEN "part" ELSE "whole"])
  /\ Goto(r, "chown")
  /\ UNCHANGED <<cont, volumes, images, config, job, run, past>>

Chowns(r) ==
  /\ Execs(inst[r]) /\ Known(inst[r], user[r])
  /\ Home(inst[r], user[r]).files # "none"

\* Mutant: the code before, which looked at stdout and took silence for success.
Chown_Stdout(r) ==
  /\ at[r] = "chown"
  /\ IF Chowns(r) THEN SetHome(inst[r], user[r], [Home(inst[r], user[r]) EXCEPT !.own = TRUE])
                  ELSE UNCHANGED <<volume, layer>>
  /\ Verdict(r, "synced")
  /\ UNCHANGED <<cont, volumes, images, config, job, user, inst, project, found, past>>

Chown(r) ==
  /\ at[r] = "chown"
  /\ \/ /\ Chowns(r)
        /\ SetHome(inst[r], user[r], [Home(inst[r], user[r]) EXCEPT !.own = TRUE])
        /\ Verdict(r, "synced")
     \/ UNCHANGED <<volume, layer>> /\ Verdict(r, "partial")
  /\ UNCHANGED <<cont, volumes, images, config, job, user, inst, project, found, past>>

-----------------------------------------------------------------------------
(* up: the container, then the sync *)

\* docker compose up of an instance that is not there, or is replaced with
\* --recreate.  The volume is kept, or filled from the image if it is new.
UpBegins(r, q) ==
  /\ q.verb = "up" /\ Ask(r, q)
  /\ q.tag # "" => images[q.tag] # NoImage
  /\ LET i     == <<q.name, q.variant>>
         under == q.tag # "" /\ images[q.tag].login
         first == i \notin volumes IN
     /\ cont' = [cont EXCEPT ![i] = [state |-> "running", user |-> Caller[r],
                                     mounted |-> TRUE, account |-> "none"]]
     /\ layer' = [layer EXCEPT ![i] = [Empty EXCEPT !.login = under]]
     /\ volumes' = volumes \cup {i}
     /\ volume' = [volume EXCEPT ![i].login = @ \/ (first /\ under)]
     /\ logged' = {j \in Instance : IF j = i /\ first
                                     THEN q.tag # "" /\ images[q.tag].logged
                                     ELSE j \in logged}
     /\ steady' = [Replaced(i) EXCEPT ![r] = Sandboxes \cup {i}]
     /\ inst' = [inst EXCEPT ![r] = i]
     /\ user' = [user EXCEPT ![r] = Caller[r]]
     /\ todo' = [todo EXCEPT ![r] = {q.name}]
  \* The compose files are written to ./config.
  /\ config' = IF config = "missing" THEN "there" ELSE config
  /\ Goto(r, "config")
  /\ UNCHANGED <<images, project, found, verdict, events>>

-----------------------------------------------------------------------------
(* snapshot *)

SnapshotBegins(r, q) ==
  /\ q.verb = "snapshot" /\ Ask(r, q)
  /\ Look(r) /\ Goto(r, "project")
  /\ UNCHANGED <<docker, config, run, logged, events>>

Cancel(r) ==
  /\ Goto(r, "cancelled")
  /\ UNCHANGED <<docker, config, job, run, past>>

\* Mutant: take the first of several projects, as shell does.
ResolveProject_First(r) ==
  /\ at[r] = "project"
  /\ job[r].name # DefaultProject \/ Active # {}
  /\ project' = [project EXCEPT ![r] = IF job[r].name = DefaultProject
                                       THEN Earliest(Projects, Active) ELSE job[r].name]
  /\ Goto(r, "variant")
  /\ UNCHANGED <<docker, config, job, todo, user, inst, found, verdict, past>>

\* snapshot_resolve_project: ctx.project becomes the only active one.
ResolveProject(r) ==
  /\ at[r] = "project"
  /\ \E p \in Project :
       /\ IF job[r].name = DefaultProject THEN Active = {p} ELSE p = job[r].name
       /\ project' = [project EXCEPT ![r] = p]
  /\ Goto(r, "variant")
  /\ UNCHANGED <<docker, config, job, todo, user, inst, found, verdict, past>>

NoProject(r) ==
  /\ at[r] = "project"
  /\ job[r].name = DefaultProject /\ \A p \in Project : Active # {p}
  /\ Cancel(r)

\* snapshot_resolve_container: --variant, or the only container there is.
ResolveContainer(r) ==
  /\ at[r] = "variant"
  /\ \E i \in Of(project[r]) :
       /\ IF job[r].variant # "" THEN i[2] = job[r].variant ELSE Of(project[r]) = {i}
       /\ inst' = [inst EXCEPT ![r] = i]
  /\ Goto(r, "commit")
  /\ UNCHANGED <<docker, config, job, todo, user, project, found, verdict, past>>

Several(p) == \E i, j \in Of(p) : i # j

\* Several: a list to choose from, at a terminal.
OffersChoice(r) ==
  /\ at[r] = "variant" /\ job[r].variant = "" /\ job[r].tty
  /\ Several(project[r])
  /\ found' = [found EXCEPT ![r] = Of(project[r])]
  /\ Goto(r, "choose")
  /\ UNCHANGED <<docker, config, job, todo, user, inst, project, verdict, past>>

Choose(r) ==
  /\ at[r] = "choose"
  /\ \E i \in found[r] : inst' = [inst EXCEPT ![r] = i]
  /\ Goto(r, "commit")
  /\ UNCHANGED <<docker, config, job, todo, user, project, found, verdict, past>>

\* None, or several and no terminal; a probe that fails counts as none.
NoContainerFound(r) ==
  /\ at[r] = "variant"
  /\ \/ job[r].variant # ""
     \/ Of(project[r]) = {}
     \/ Several(project[r]) /\ ~job[r].tty
  /\ Cancel(r)

\* docker ps or docker commit fails.
SnapshotFails(r) ==
  /\ job[r].verb = "snapshot" /\ at[r] \in {"project", "variant", "commit"}
  /\ at[r] = "project" => job[r].name = DefaultProject
  /\ at[r] = "variant" => job[r].variant = ""
  /\ Goto(r, "error")
  /\ UNCHANGED <<docker, config, job, run, past>>

\* docker commit takes the writable layer; what is mounted is not in it.
Commit(r) ==
  /\ at[r] = "commit" /\ Exists(inst[r])
  /\ images' = [images EXCEPT ![job[r].tag] =
       [from |-> inst[r], login |-> layer[inst[r]].login, logged |-> inst[r] \in logged]]
  /\ Goto(r, "ok")
  /\ UNCHANGED <<cont, volumes, volume, layer, config, job, run, past>>

Interrupt(r) ==
  /\ at[r] \in {"next", "find", "config", "poll", "mkdir", "tar", "chown",
                "project", "variant", "choose", "commit"}
  /\ Goto(r, "interrupted")
  /\ UNCHANGED <<docker, config, job, run, past>>

-----------------------------------------------------------------------------
(* The containers, and what the user does to them *)

\* The entrypoint makes the user; a group of that name only if its id is free.
Boot(i) ==
  /\ cont[i].state = "running" /\ cont[i].account = "none"
  /\ \E a \in {"user", "user and group"} : cont' = [cont EXCEPT ![i].account = a]
  /\ UNCHANGED <<volumes, volume, layer, images, config, job, at, run, past>>

Event == events < MaxEvents /\ events' = events + 1

\* docker pause and unpause, stop and start.
Switch(i) ==
  /\ Event /\ Exists(i)
  /\ \E s \in {"running", "paused", "exited"} \ {cont[i].state} :
       cont' = [cont EXCEPT ![i].state = s]
  /\ UNCHANGED <<volumes, volume, layer, images, config, job, at, run, steady, logged>>

\* down, and clean, which takes the volume too.
RemoveContainer(i) ==
  /\ Event /\ Exists(i)
  /\ cont' = [cont EXCEPT ![i] = NoContainer]
  /\ layer' = [layer EXCEPT ![i] = Empty]
  /\ steady' = Replaced(i)
  /\ \/ UNCHANGED <<volumes, volume>>
     \/ volumes' = volumes \ {i} /\ volume' = [volume EXCEPT ![i] = Empty]
  /\ logged' = IF i \in volumes' THEN logged ELSE logged \ {i}
  /\ UNCHANGED <<images, config, job, at, run>>

LogIn(i) ==
  /\ Event /\ Execs(i) /\ cont[i].account # "none"
  /\ SetHome(i, cont[i].user, [Home(i, cont[i].user) EXCEPT !.login = TRUE])
  /\ logged' = logged \cup {i}
  /\ UNCHANGED <<cont, volumes, images, config, job, at, run, steady>>

Begins(r, q) ==
  SyncBegins(r, q) \/ SyncNoDocker(r, q) \/ UpBegins(r, q) \/ SnapshotBegins(r, q)

Syncs(r) ==
  \/ GetEnv(r) \/ Find(r) \/ FindNone(r) \/ FailProject(r) \/ Report(r)
  \/ HasConfig(r) \/ SkipConfig(r) \/ MakeConfig(r)
  \/ WaitForUser(r) \/ Mkdir(r) \/ Tar(r) \/ Chown(r)

Snapshots(r) ==
  \/ ResolveProject(r) \/ NoProject(r)
  \/ ResolveContainer(r) \/ OffersChoice(r) \/ Choose(r) \/ NoContainerFound(r)
  \/ SnapshotFails(r) \/ Commit(r)

VerbsNext ==
  \/ \E r \in Runs : Syncs(r) \/ Snapshots(r) \/ Interrupt(r)
  \/ \E r \in Runs, q \in Jobs : Begins(r, q)
  \/ \E i \in Instance : Boot(i) \/ Switch(i) \/ RemoveContainer(i) \/ LogIn(i)

VerbsSpec == VerbsInit /\ [][VerbsNext]_verbsVars

-----------------------------------------------------------------------------
(* Properties *)

Working == {"next", "find", "config", "poll", "mkdir", "tar", "chown"}

\* Every sync, the one of up too, is a batch: each project it took up gets one
\* verdict, one that fails does not keep the others from theirs, and the run
\* says 0 only if none has failed.
Result(r) ==
  IF job[r].verb \notin {"sync", "up"} THEN "none"
  ELSE IF at[r] \in Working THEN "running" ELSE at[r]

Told(r, p) ==
  IF verdict[r][p] \in {"synced", "partial", "skipped"} THEN "done" ELSE verdict[r][p]

Syncing == INSTANCE Batch WITH
  Items   <- Project,
  pending <- todo,
  verdict <- [r \in Runs |-> [p \in Project |-> Told(r, p)]],
  result  <- [r \in Runs |-> Result(r)]

ImplementsBatch == Syncing!Spec

\* "Configuration synced successfully." is true: the container that was found
\* for the project has the configuration, in the home of its own user and
\* owned by him, whatever happened between the steps, unless the container was
\* replaced in the meantime or a file of ./config cannot be read.
SyncedMeansDelivered ==
  [][\A r \in Runs, p \in Project :
       verdict[r][p] = "none" /\ verdict'[r][p] = "synced" =>
         LET i == inst[r] IN
         /\ i[1] = p /\ user[r] = cont[i].user
         /\ Home(i, user[r])'.own
         /\ i \in steady[r] /\ config # "torn" => Home(i, user[r])'.files = "whole"]_verbsVars

\* A snapshot is of the sandbox that was meant: of the project and the variant
\* that were typed; and where one was left out, no other sandbox it could have
\* meant was there all the time - except that at a terminal the variant is
\* chosen from a list.
SnapshotOfTheOneMeant ==
  [][\A r \in Runs : at[r] = "commit" /\ at'[r] = "ok" =>
       LET i == images'[job[r].tag].from
           q == job[r] IN
       /\ IF q.name # DefaultProject THEN i[1] = q.name
          ELSE \A j \in steady[r] : j[1] = i[1]
       /\ IF q.variant # "" THEN i[2] = q.variant
          ELSE q.tty \/ \A j \in steady[r] : j[1] = i[1] => j = i]_verbsVars

\* README.md: "Freeze your configured environment - installed software, login
\* sessions, custom settings - into a reusable image."  A sandbox whose user
\* has logged in, or that was launched from a snapshot of such a one, has the
\* login, until its volume is removed.
LoginsAreKept ==
  \A i \in Sandboxes \cap logged : Home(i, cont[i].user).login
=============================================================================
