------------------------------- MODULE Upgrade -------------------------------
(***************************************************************************)
(* verbs/upgrade.py: move the home directory of every container that keeps *)
(* it in its writable layer onto a volume, one container at a time:        *)
(*                                                                         *)
(*   commit -> env + compose files -> rm -f -> compose create              *)
(*          -> find volume -> seed it from the snapshot -> start -> verify *)
(*                                                                         *)
(* The docker daemon is modelled by what it holds: containers, the homes   *)
(* in their writable layers, volumes and backup images.  Every docker      *)
(* command may fail, with or without having done its work.  A running      *)
(* agent may write to its home between any two commands, and somebody else *)
(* may remove a container that upgrade has listed.  upgrade may be killed  *)
(* at any point and run again.                                             *)
(*                                                                         *)
(* A home is a set of files: the container whose agent wrote it, its path  *)
(* and how often it was written.  A project and a service are the slugs    *)
(* their names are joined from.                                            *)
(***************************************************************************)
EXTENDS Naturals, Sequences, FiniteSets

CONSTANTS
  Cids,        (* the containers that exist when upgrade is first run       *)
  Container,   (* what docker ps -a says of each of them                    *)
  Projects, Services,
  ValidTags,   (* VALID_TAGS: the services that are tags                    *)
  FlatTarget,  (* LEGACY_SERVICES to the tag of _LEGACY_CONNECTOR           *)
  Paths,       (* the paths an agent writes below its home                  *)
  GeneratorTakesTag,
    (* Does generate_compose_for_tag accept the Tag value that              *)
    (* legacy_target_tag returns?  FALSE in the code: resolve_tag hands it  *)
    (* to Tag.parse, which calls str.split on it.  TRUE in the tests, which *)
    (* replace the generator.                                               *)
  MaxRuns,     (* BOUND: how often upgrade is run                           *)
  MaxWrites,   (* BOUND: how often an agent rewrites one file               *)
  MaxRemovals, (* BOUND: containers that somebody else removes              *)
  MaxFaults    (* BOUND: docker commands that fail                          *)

NoTag == <<>>

File == [owner : Cids, path : Paths, version : 0..MaxWrites]
FirstFiles(c) == [owner : {c}, path : Paths, version : {0}]

Labels == [project : Projects, service : Services, managed : BOOLEAN, home_volume : BOOLEAN]

Project(c) == Container[c].project

\* The name of a backup image without its timestamp: project and service,
\* joined with the hyphen both may contain.
Repository(c) == Project(c) \o Container[c].service

ASSUME UpgradeAssumption ==
  /\ IsFiniteSet(Cids)
  /\ Container \in [Cids -> Labels]
  /\ ValidTags \subseteq Services \ {NoTag}
  /\ DOMAIN FlatTarget \subseteq Services \ ValidTags
  /\ FlatTarget \in [DOMAIN FlatTarget -> ValidTags]
     \* The compose generator writes the label on the service of a tag only.
  /\ \A c \in Cids : Container[c].home_volume => Container[c].service \in ValidTags
  /\ GeneratorTakesTag \in BOOLEAN
  /\ MaxRuns \in Nat /\ MaxFaults \in Nat /\ MaxWrites \in Nat /\ MaxRemovals \in Nat

Volume == Projects \X ValidTags
Backup == {Repository(c) : c \in Cids} \X (1..MaxRuns)

VARIABLES
  old,       (* cids of Cids that still exist                                *)
  new,       (* the (project, tag) pairs with a container made by upgrade    *)
  home,      (* files in the writable layer of each container of Cids, the   *)
             (* last ones if the container is gone                           *)
  volumes,   (* files in each home volume                                    *)
  images,    (* files in each backup image                                   *)
  pc,        (* the next thing upgrade does, "idle" between its runs         *)
  run,       (* number of the run, which stands for its timestamp            *)
  plan,      (* the containers still to migrate, in docker ps order          *)
  stage,     (* _migrate_one's local                                         *)
  report,    (* what the last run printed of its failure, if it failed       *)
  migrated,  (* history: containers reported as migrated                     *)
  late,      (* history: paths written after the container's last snapshot   *)
  removed,   (* history: containers that somebody else removed               *)
  displaced, (* history: containers of whose container or volume upgrade     *)
             (* made that of another one with the same project and tag       *)
  faults     (* docker commands that failed                                  *)

docker == <<old, new, home, volumes, images>>
others == <<removed, displaced>>
ghosts == <<migrated, late, others>>
vars   == <<docker, pc, run, plan, stage, report, ghosts, faults>>

-----------------------------------------------------------------------------
(* Naming, and what docker ps -a lets upgrade see. *)

\* legacy_target_tag.
Target(c) ==
  LET s == Container[c].service IN
  IF s \in ValidTags THEN s
  ELSE IF s \in DOMAIN FlatTarget THEN FlatTarget[s] ELSE NoTag

\* The volume sg-<project>-<tag>, and the container of the same pair.
VolumeOf(c) == <<Project(c), Target(c)>>

\* backup_img: the service for a flat one, the tag (the same string) for a
\* managed one, and the time of the run.
BackupOf(c) == <<Repository(c), run>>

\* get_legacy_containers.  A container made by upgrade carries the
\* home-volume label, so it is never listed.
IsOurs(c) ==
  \/ Container[c].managed
  \/ Container[c].service \in DOMAIN FlatTarget \cup ValidTags

Listed == {c \in old : IsOurs(c) /\ ~Container[c].home_volume}

\* The plan: the listed containers, of one project or of all, that map to a
\* tag.  docker ps gives the order.
Plans ==
  LET Sel(P) == {c \in Listed : Project(c) \in P /\ Target(c) # NoTag} IN
  UNION {{s \in [1..Cardinality(Sel(P)) -> Sel(P)] :
            \A i, j \in DOMAIN s : i # j => s[i] # s[j]} :
         P \in {Projects} \cup {{p} : p \in Projects}}

-----------------------------------------------------------------------------
Init ==
  /\ old = Cids
  /\ new = {}
  /\ home = [c \in Cids |->
               IF Container[c].home_volume THEN {} ELSE FirstFiles(c)]
  /\ volumes = [v \in Volume |->
       UNION {FirstFiles(c) : c \in {d \in Cids : Container[d].home_volume
                                                    /\ VolumeOf(d) = v}}]
  /\ images = [b \in Backup |-> {}]
  /\ pc = "idle"
  /\ run = 0
  /\ plan = <<>>
  /\ stage = "none"
  /\ report = <<>>
  /\ migrated = {}
  /\ late = [c \in Cids |-> {}]
  /\ removed = {} /\ displaced = {}
  /\ faults = 0

Cur == Head(plan)

\* upgrade(): list, plan, print, confirm.
Upgrade(p) ==
  /\ pc = "idle" /\ run < MaxRuns /\ p # <<>>
  /\ run' = run + 1
  /\ plan' = p
  /\ pc' = "confirm"
  /\ report' = <<>>
  /\ UNCHANGED <<docker, stage, ghosts, faults>>

Decline ==
  /\ pc = "confirm"
  /\ pc' = "idle" /\ plan' = <<>>
  /\ UNCHANGED <<docker, run, stage, report, ghosts, faults>>

Confirm ==
  /\ pc = "confirm"
  /\ pc' = "commit" /\ stage' = "snapshot"
  /\ UNCHANGED <<docker, run, plan, report, ghosts, faults>>

\* The except clauses of _migrate_one and upgrade: name the stage, name the
\* image, stop.
Fail(at) ==
  /\ report' = <<[cid |-> Cur, stage |-> at, step |-> pc, backup |-> BackupOf(Cur)]>>
  /\ pc' = "idle" /\ plan' = <<>> /\ stage' = at
  /\ UNCHANGED run

Goto(label) == pc' = label /\ UNCHANGED <<run, plan, report>>

Fault == faults < MaxFaults /\ faults' = faults + 1

\* 1. docker commit: the snapshot is the whole writable layer as it is now.
Commit ==
  /\ pc = "commit" /\ Cur \in old
  /\ images' = [images EXCEPT ![BackupOf(Cur)] = home[Cur]]
  /\ late' = [late EXCEPT ![Cur] = {}]
  /\ Goto("prepare")
  /\ UNCHANGED <<old, new, home, volumes, stage, migrated, others, faults>>

\* Mutant: the exit status of docker commit is ignored.
CommitFails_Ignored ==
  /\ pc = "commit" /\ Cur \notin old
  /\ Goto("prepare")
  /\ UNCHANGED <<docker, stage, ghosts, faults>>

CommitFails ==
  /\ pc = "commit"
  /\ IF Cur \in old THEN Fault ELSE UNCHANGED faults
  /\ Fail("snapshot")
  /\ UNCHANGED <<docker, ghosts>>

\* 2. and 3. _recover_env, validate_username, generate_compose_for_tag,
\* generate_git_compose.
Prepare ==
  /\ pc = "prepare" /\ GeneratorTakesTag
  /\ Goto("rm")
  /\ UNCHANGED <<docker, stage, ghosts, faults>>

PrepareFails ==
  /\ pc = "prepare"
  /\ IF GeneratorTakesTag THEN Fault ELSE UNCHANGED faults
  /\ Fail("snapshot")
  /\ UNCHANGED <<docker, ghosts>>

\* 4. docker rm -f: stage is set before the command is run.  Whether it fails on
\* a container that is gone depends on the version of docker.
RemoveOld ==
  /\ pc = "rm"
  /\ stage' = "old-removed"
  /\ old' = old \ {Cur}
  /\ Goto("create")
  /\ UNCHANGED <<new, home, volumes, images, ghosts, faults>>

\* Mutant: stage is set after the command.
RemoveOldFails_Stage ==
  /\ pc = "rm" /\ (Fault \/ (Cur \notin old /\ UNCHANGED faults))
  /\ old' \in {old, old \ {Cur}}
  /\ Fail(stage)
  /\ UNCHANGED <<new, home, volumes, images, ghosts>>

RemoveOldFails ==
  /\ pc = "rm" /\ (Fault \/ (Cur \notin old /\ UNCHANGED faults))
  /\ old' \in {old, old \ {Cur}}
  /\ Fail("old-removed")
  /\ UNCHANGED <<new, home, volumes, images, ghosts>>

\* Mutant: the whole project is recreated, orphans removed.
Recreated_Project == old \ {d \in Cids : Project(d) = Project(Cur)}

\* 5. compose create --force-recreate: whatever container the project has for
\* this service is removed and made anew; its volume is kept.
Recreated ==
  old \ {d \in Cids : Project(d) = Project(Cur) /\ Container[d].service = Target(Cur)}

\* Whose container is recreated, and whose volume is the one to be seeded.
Displaced ==
  {d \in Cids \ {Cur} :
     /\ VolumeOf(d) = VolumeOf(Cur)
     /\ d \in (old \ Recreated) \cup migrated \/ Container[d].home_volume}

Create ==
  /\ pc = "create"
  /\ old' = Recreated /\ displaced' = displaced \cup Displaced
  /\ new' = new \cup {VolumeOf(Cur)}
  /\ Goto("inspect")
  /\ UNCHANGED <<home, volumes, images, stage, migrated, late, removed, faults>>

CreateFails ==
  /\ pc = "create" /\ Fault
  /\ \/ UNCHANGED <<old, new, displaced>>
     \/ /\ old' = Recreated /\ displaced' = displaced \cup Displaced
        /\ new' \in {new, new \cup {VolumeOf(Cur)}}
  /\ Fail(stage)
  /\ UNCHANGED <<home, volumes, images, migrated, late, removed>>

\* 6. docker inspect of the new container's mount at the home directory.
FindVolume ==
  /\ pc = "inspect"
  /\ stage' = "seeding"
  /\ Goto("seed")
  /\ UNCHANGED <<docker, ghosts, faults>>

FindVolumeFails ==
  /\ pc = "inspect" /\ Fault
  /\ Fail(stage)
  /\ UNCHANGED <<docker, ghosts>>

\* 7. cp -a: a file of the snapshot replaces the one at its path.
CopyInto(v, files) ==
  [volumes EXCEPT ![v] =
     {f \in volumes[v] : \A g \in files : g.path # f.path} \cup files]

Seed ==
  /\ pc = "seed"
  /\ volumes' = CopyInto(VolumeOf(Cur), images[BackupOf(Cur)])
  /\ stage' = "starting"
  /\ Goto("start")
  /\ UNCHANGED <<old, new, home, images, ghosts, faults>>

SeedFails ==
  /\ pc = "seed" /\ Fault
  /\ \E part \in SUBSET images[BackupOf(Cur)] :
       volumes' = CopyInto(VolumeOf(Cur), part)
  /\ Fail(stage)
  /\ UNCHANGED <<old, new, home, images, ghosts>>

\* 8. compose start, then docker ps must list the new container.
Start ==
  /\ pc = "start"
  /\ migrated' = migrated \cup {Cur}
  /\ plan' = Tail(plan)
  /\ IF Tail(plan) = <<>>
     THEN pc' = "idle" /\ UNCHANGED stage
     ELSE pc' = "commit" /\ stage' = "snapshot"
  /\ UNCHANGED <<docker, run, report, late, others, faults>>

StartFails ==
  /\ pc = "start" /\ Fault
  /\ Fail(stage)
  /\ UNCHANGED <<docker, ghosts>>

-----------------------------------------------------------------------------
(* The world around upgrade. *)

\* The agent of an old container rewrites a file; a snapshot taken before has
\* the version before.
AgentWrites(f) ==
  LET c == f.owner IN
  /\ c \in old /\ f \in home[c] /\ f.version < MaxWrites
  /\ home' = [home EXCEPT ![c] = (@ \ {f}) \cup {[f EXCEPT !.version = @ + 1]}]
  /\ late' = [late EXCEPT ![c] = @ \cup {f.path}]
  /\ UNCHANGED <<old, new, volumes, images, pc, run, plan, stage, report, migrated, others, faults>>

\* docker rm or compose down by the user or by another process, which keeps the
\* volumes.
RemovedByOther(c) ==
  /\ c \in old /\ Cardinality(removed) < MaxRemovals
  /\ old' = old \ {c} /\ removed' = removed \cup {c}
  /\ UNCHANGED <<new, home, volumes, images, pc, run, plan, stage, report, migrated, late,
                 displaced, faults>>

\* SIGKILL, or a KeyboardInterrupt that `except Exception` lets through.
Killed ==
  /\ pc # "idle"
  /\ pc' = "idle" /\ plan' = <<>>
  /\ UNCHANGED <<docker, run, stage, report, ghosts, faults>>

Work ==
  \/ Confirm \/ Commit \/ CommitFails \/ Prepare \/ PrepareFails
  \/ RemoveOld \/ RemoveOldFails \/ Create \/ CreateFails
  \/ FindVolume \/ FindVolumeFails \/ Seed \/ SeedFails \/ Start \/ StartFails

Next ==
  \/ \E p \in Plans : Upgrade(p)
  \/ Decline
  \/ Work
  \/ \E f \in UNION {home[c] : c \in Cids} : AgentWrites(f)
  \/ \E c \in Cids : RemovedByOther(c)
  \/ Killed

Spec == Init /\ [][Next]_vars

-----------------------------------------------------------------------------
(* Properties *)

Backups(c) == {b \in Backup : b[1] = Repository(c)}

\* Every path of the container's home, as it is now or, where the agent wrote
\* after the last snapshot, at least an earlier version of it.
Holds(files, c) ==
  \A p \in Paths : \E f \in files :
    f.owner = c /\ f.path = p /\ (f \in home[c] \/ p \in late[c])

\* "Losslessly migrate": whatever fails and wherever upgrade is killed, a home
\* is in its container, on its volume or in a backup image, and what is on a
\* volume already stays there.  Two things can take a home away: somebody else
\* removes the container, or upgrade migrates another one of its project for the
\* same tag, whose compose create replaces it.
NothingLost ==
  \A c \in Cids \ displaced :
    IF Container[c].home_volume
    THEN FirstFiles(c) \subseteq volumes[VolumeOf(c)]
    ELSE c \in old \cup migrated \cup removed \/ \E b \in Backups(c) : Holds(images[b], c)

\* A container reported as migrated is gone, and the volume that its successor
\* mounts has its whole home, also if somebody removed it on the way; until
\* another one of its project is migrated for the same tag.
MigratedMeansSeeded ==
  \A c \in migrated \ displaced :
    c \notin old /\ VolumeOf(c) \in new /\ Holds(volumes[VolumeOf(c)], c)

\* What a failed run says.  At stage "snapshot", "The old container was NOT
\* touched -- it is still intact": not by this migration, though by another one's
\* compose create or by somebody else it may have been.  At a later stage, "Your
\* data is safe in image ...  The old container was already removed": it was,
\* unless what failed is its removal.
ReportIsTrue ==
  \A i \in DOMAIN report :
    LET r == report[i] IN
    IF r.stage = "snapshot" THEN r.cid \in old \cup removed \cup displaced
    ELSE Holds(images[r.backup], r.cid) /\ (r.cid \notin old \/ r.step = "rm")

\* A migration fails only where docker failed, or the container was taken away.
FailsOnlyOnFault ==
  report # <<>> => faults > 0 \/ report[1].cid \in removed \cup displaced
=============================================================================
