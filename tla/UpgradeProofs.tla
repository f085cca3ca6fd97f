----------------------------- MODULE UpgradeProofs -----------------------------
(***************************************************************************)
(* That upgrade loses nothing and reports the truth, for any set of        *)
(* containers, any number of runs, and whatever fails or is killed.        *)
(*                                                                         *)
(* A home is in one place after the other: in the container until rm, in   *)
(* the image of this run from commit on, on the volume once it is seeded.  *)
(* Place says which of them hold it at each step of the container that is  *)
(* being migrated; Away that it stays somewhere when upgrade has gone on   *)
(* to the next container, has failed, or was killed.  The image of this    *)
(* run may be overwritten when its name is also that of another container  *)
(* of the plan; by then the home is on the volume, or is the current one's.*)
(***************************************************************************)
EXTENDS Upgrade, TLAPS, FiniteSetTheorems

Steps   == {"commit", "prepare", "rm", "create", "inspect", "seed", "start"}
Movable == {c \in Cids : ~Container[c].home_volume /\ Target(c) # NoTag}

Types ==
  /\ old \subseteq Cids /\ migrated \subseteq Movable
  /\ home \in [Cids -> SUBSET File]
  /\ volumes \in [Volume -> SUBSET File]
  /\ images \in [Backup -> SUBSET File]
  /\ late \in [Cids -> SUBSET Paths]
  /\ pc \in Steps \cup {"idle", "confirm"}
  /\ run \in 0..MaxRuns /\ (pc # "idle" => run > 0)
  /\ faults \in Nat

\* The containers still to migrate, each of them once.
Planned ==
  pc # "idle" =>
    /\ plan \in Seq(Movable) /\ plan # <<>>
    /\ \A i, j \in DOMAIN plan : i # j => plan[i] # plan[j]

\* A container is there until its turn comes, or was taken away.
Waiting ==
  pc # "idle" =>
    \A i \in DOMAIN plan :
      i > 1 \/ pc \in {"confirm", "commit", "prepare", "rm"} =>
        plan[i] \in old \cup removed \cup displaced

\* One that is reported as migrated is gone, and not migrated again.
Once ==
  /\ migrated \cap old = {}
  /\ pc # "idle" => \A i \in DOMAIN plan : plan[i] \notin migrated

\* A home has every path, if it is not on a volume, and only files of its own.
Whole ==
  \A c \in Cids :
    /\ \A f \in home[c] : f.owner = c
    /\ ~Container[c].home_volume => \A p \in Paths : \E f \in home[c] : f.path = p

Place ==
  /\ pc \in Steps \ {"commit"} => Holds(images[BackupOf(Cur)], Cur)
  /\ pc \in {"create", "inspect", "seed", "start"} => Cur \notin old /\ stage # "snapshot"
  /\ pc \in {"inspect", "seed", "start"} =>
       /\ VolumeOf(Cur) \in new
       /\ \A d \in Cids \ {Cur} :
            /\ VolumeOf(d) = VolumeOf(Cur)
            /\ d \in migrated \/ Container[d].home_volume
            => d \in displaced
  /\ pc = "start" => Holds(volumes[VolumeOf(Cur)], Cur)

\* An image of an earlier run, or one that this run does not write again.
Safe(b, c) ==
  /\ Holds(images[b], c) /\ b[2] <= run
  /\ b[2] = run => pc = "idle" \/ (c = Cur /\ pc # "commit" /\ pc # "confirm")

Kept ==
  \A c \in Cids \ displaced :
    IF Container[c].home_volume
    THEN FirstFiles(c) \subseteq volumes[VolumeOf(c)]
    ELSE c \in old \cup migrated \cup removed \/ \E b \in Backups(c) : Safe(b, c)

Away == Kept /\ MigratedMeansSeeded

\* What is on the screen is of the run before, with its backup image.
Reported ==
  \/ report = <<>>
  \/ /\ pc = "idle" /\ DOMAIN report = {1}
     /\ report[1].cid \in Cids /\ report[1].backup \in Backup

-----------------------------------------------------------------------------
(* Names *)

LEMMA Names ==
  ASSUME NEW c \in Movable
  PROVE  /\ c \in Cids /\ Target(c) \in ValidTags
         /\ VolumeOf(c) \in Volume
         /\ run \in 1..MaxRuns => BackupOf(c) \in Backups(c)
<1>1. Container[c].project \in Projects /\ c \in Cids
  BY UpgradeAssumption DEF Movable, Labels
<1>2. Target(c) \in ValidTags
  BY UpgradeAssumption DEF Movable, Target
<1> QED BY <1>1, <1>2 DEF VolumeOf, Volume, BackupOf, Backups, Backup, Project

-----------------------------------------------------------------------------
(* The plan *)

LEMMA PlanOf ==
  ASSUME old \subseteq Cids, NEW p \in Plans
  PROVE  /\ p \in Seq(Movable)
         /\ \A i, j \in DOMAIN p : i # j => p[i] # p[j]
         /\ \A i \in DOMAIN p : p[i] \in old
<1> DEFINE Sel(P) == {c \in Listed : Project(c) \in P /\ Target(c) # NoTag}
<1>1. PICK P \in {Projects} \cup {{q} : q \in Projects} :
        /\ p \in [1..Cardinality(Sel(P)) -> Sel(P)]
        /\ \A i, j \in DOMAIN p : i # j => p[i] # p[j]
  BY DEF Plans
<1>2. Sel(P) \subseteq Movable /\ Sel(P) \subseteq old /\ Sel(P) \subseteq Cids
  BY DEF Listed, Movable
<1>3. Cardinality(Sel(P)) \in Nat
  BY <1>2, UpgradeAssumption, FS_Subset, FS_CardinalityType
<1> HIDE DEF Sel
<1>4. p \in Seq(Sel(P))
  BY <1>1, <1>3
<1>5. p \in Seq(Movable)
  BY <1>1, <1>2, <1>3
<1> QED BY <1>1, <1>2, <1>5

LEMMA PlanTail ==
  ASSUME Planned, pc # "idle"
  PROVE  /\ plan \in Seq(Movable) /\ Cur = plan[1] /\ Cur \in Movable /\ Cur \in Cids
         /\ 1 \in DOMAIN plan
         /\ Tail(plan) \in Seq(Movable)
         /\ \A i \in DOMAIN Tail(plan) : i + 1 \in DOMAIN plan /\ Tail(plan)[i] = plan[i + 1]
         /\ \A i \in DOMAIN Tail(plan) : i \in Nat /\ i > 0
<1>1. plan \in Seq(Movable) /\ plan # <<>>
  BY DEF Planned
<1>2. DOMAIN plan = 1..Len(plan) /\ Len(plan) \in Nat /\ Len(plan) > 0
  BY <1>1
<1>3. Cur = plan[1] /\ plan[1] \in Movable
  BY <1>1, <1>2 DEF Cur
<1>4. Tail(plan) \in Seq(Movable) /\ Len(Tail(plan)) = Len(plan) - 1
  BY <1>1, <1>2
<1>5. \A i \in 1..(Len(plan) - 1) : Tail(plan)[i] = plan[i + 1]
  BY <1>1, <1>2
<1>6. DOMAIN Tail(plan) = 1..(Len(plan) - 1)
  BY <1>2, <1>4
<1> QED BY <1>1, <1>2, <1>3, <1>4, <1>5, <1>6 DEF Movable

-----------------------------------------------------------------------------
(* Types and plan *)

LEMMA FirstFilesOf ==
  ASSUME NEW c \in Cids
  PROVE  /\ FirstFiles(c) \subseteq File
         /\ \A f \in FirstFiles(c) : f.owner = c
         /\ \A p \in Paths : \E f \in FirstFiles(c) : f.path = p
<1>1. MaxWrites \in Nat
  BY UpgradeAssumption
<1>2. FirstFiles(c) \subseteq File
  BY <1>1 DEF FirstFiles, File
<1>3. ASSUME NEW p \in Paths PROVE \E f \in FirstFiles(c) : f.path = p
  <2>1. [owner |-> c, path |-> p, version |-> 0] \in FirstFiles(c)
    BY <1>3 DEF FirstFiles
  <2> QED BY <2>1
<1>4. \A f \in FirstFiles(c) : f.owner = c
  BY DEF FirstFiles
<1> QED BY <1>2, <1>3, <1>4

LEMMA Starts ==
  Init => Types /\ Planned /\ Waiting /\ Once /\ Whole /\ Place /\ Away /\ Reported
<1> SUFFICES ASSUME Init
             PROVE  Types /\ Planned /\ Waiting /\ Once /\ Whole /\ Place /\ Away /\ Reported
  OBVIOUS
<1>1. pc = "idle" /\ report = <<>> /\ migrated = {} /\ old = Cids
  BY DEF Init
<1>2. Types
  <2>1. home \in [Cids -> SUBSET File]
    BY FirstFilesOf DEF Init
  <2>2. volumes \in [Volume -> SUBSET File]
    BY FirstFilesOf DEF Init
  <2>3. /\ images \in [Backup -> SUBSET File] /\ late \in [Cids -> SUBSET Paths]
        /\ run \in 0..MaxRuns /\ faults \in Nat
    BY UpgradeAssumption DEF Init
  <2> QED BY <1>1, <2>1, <2>2, <2>3 DEF Types
<1>3. Whole
  BY FirstFilesOf DEF Init, Whole
<1>4. ASSUME NEW c \in Cids, Container[c].home_volume
      PROVE  FirstFiles(c) \subseteq volumes[VolumeOf(c)]
  <2>1. VolumeOf(c) \in Volume
    BY <1>4, UpgradeAssumption DEF VolumeOf, Volume, Project, Target, Labels
  <2>2. volumes[VolumeOf(c)] =
          UNION {FirstFiles(d) : d \in {e \in Cids : Container[e].home_volume
                                                       /\ VolumeOf(e) = VolumeOf(c)}}
    BY <2>1 DEF Init
  <2> QED BY <1>4, <2>2
<1>5. Away
  BY <1>1, <1>4 DEF Away, Kept, MigratedMeansSeeded
<1> QED BY <1>1, <1>2, <1>3, <1>5 DEF Planned, Waiting, Once, Place, Reported, Steps

\* A file is rewritten in place.
LEMMA Rewritten ==
  ASSUME Types, NEW f, AgentWrites(f)
  PROVE  /\ f.owner \in old /\ f.owner \in Cids /\ f \in home[f.owner]
         /\ home' \in [Cids -> SUBSET File] /\ late' \in [Cids -> SUBSET Paths]
         /\ \E g : /\ g.path = f.path /\ g.owner = f.owner
                   /\ home'[f.owner] = (home[f.owner] \ {f}) \cup {g}
         /\ late'[f.owner] = late[f.owner] \cup {f.path}
         /\ \A c \in Cids \ {f.owner} : home'[c] = home[c] /\ late'[c] = late[c]
<1> DEFINE g == [f EXCEPT !.version = @ + 1]
<1>1. f.owner \in old /\ f.owner \in Cids /\ f \in home[f.owner] /\ f.version < MaxWrites
  BY DEF AgentWrites, Types
<1>2. f \in File
  BY <1>1 DEF Types
<1>3. f.version + 1 \in 0..MaxWrites
  BY <1>1, <1>2, UpgradeAssumption DEF File
<1>4. g \in File /\ g.path = f.path /\ g.owner = f.owner /\ f.path \in Paths
  BY <1>2, <1>3 DEF File
<1>5. /\ home' = [home EXCEPT ![f.owner] = (@ \ {f}) \cup {g}]
      /\ late' = [late EXCEPT ![f.owner] = @ \cup {f.path}]
  BY DEF AgentWrites
<1> HIDE DEF g
<1>6. /\ home'[f.owner] = (home[f.owner] \ {f}) \cup {g}
      /\ \A c \in Cids \ {f.owner} : home'[c] = home[c]
      /\ home' \in [Cids -> SUBSET File]
  BY <1>1, <1>4, <1>5 DEF Types
<1>7. /\ late'[f.owner] = late[f.owner] \cup {f.path}
      /\ \A c \in Cids \ {f.owner} : late'[c] = late[c]
      /\ late' \in [Cids -> SUBSET Paths]
  BY <1>1, <1>4, <1>5 DEF Types
<1> QED BY <1>1, <1>4, <1>6, <1>7

LEMMA TypesKept == Types /\ Planned /\ [Next]_vars => Types'
<1> SUFFICES ASSUME Types, Planned, [Next]_vars PROVE Types'
  OBVIOUS
<1> USE DEF docker, ghosts, others
<1>1. CASE UNCHANGED vars
  BY <1>1 DEF vars, Types
<1>2. CASE \E p \in Plans : Upgrade(p)
  BY <1>2, UpgradeAssumption DEF Upgrade, Types, Steps
<1>3. CASE Decline \/ Killed
  BY <1>3 DEF Decline, Killed, Types
<1>4. CASE Confirm \/ Prepare \/ FindVolume
  BY <1>4 DEF Confirm, Prepare, FindVolume, Goto, Types, Steps
<1>5. CASE CommitFails \/ PrepareFails \/ FindVolumeFails \/ StartFails
  BY <1>5 DEF CommitFails, PrepareFails, FindVolumeFails, StartFails, Fail, Fault, Types
<1>6. CASE Commit
  <2>1. Cur \in Cids /\ home[Cur] \subseteq File
    BY <1>6, PlanTail DEF Commit, Types
  <2>2. images' \in [Backup -> SUBSET File] /\ late' \in [Cids -> SUBSET Paths]
    BY <1>6, <2>1 DEF Commit, Types
  <2> QED BY <1>6, <2>2 DEF Commit, Goto, Types, Steps
<1>7. CASE RemoveOld \/ RemoveOldFails \/ Create \/ CreateFails \/ \E c \in Cids : RemovedByOther(c)
  BY <1>7 DEF RemoveOld, RemoveOldFails, Create, CreateFails, Recreated, RemovedByOther, Goto,
     Fail, Fault, Types, Steps
<1>8. CASE Seed \/ SeedFails
  <2>1. Cur \in Movable /\ BackupOf(Cur) \in Backup
    <3>1. pc = "seed" /\ run \in 1..MaxRuns
      BY <1>8, UpgradeAssumption DEF Seed, SeedFails, Types
    <3>2. Cur \in Movable
      BY <3>1, PlanTail
    <3> QED BY <3>1, <3>2, Names DEF Backups
  <2>2. \A part \in SUBSET images[BackupOf(Cur)] :
          CopyInto(VolumeOf(Cur), part) \in [Volume -> SUBSET File]
    BY <2>1 DEF CopyInto, Types
  <2>3. volumes' \in [Volume -> SUBSET File]
    BY <1>8, <2>2 DEF Seed, SeedFails
  <2> QED BY <1>8, <2>3 DEF Seed, SeedFails, Goto, Fail, Fault, Types, Steps
<1>9. CASE Start
  BY <1>9, PlanTail DEF Start, Types, Steps
<1>10. CASE \E f \in UNION {home[c] : c \in Cids} : AgentWrites(f)
  <2>1. PICK f : AgentWrites(f)
    BY <1>10
  <2>2. home' \in [Cids -> SUBSET File] /\ late' \in [Cids -> SUBSET Paths]
    BY <2>1, Rewritten
  <2> QED BY <2>1, <2>2 DEF AgentWrites, Types
<1> QED
  BY <1>1, <1>2, <1>3, <1>4, <1>5, <1>6, <1>7, <1>8, <1>9, <1>10 DEF Next, Work

LEMMA PlannedKept == Types /\ Planned /\ [Next]_vars => Planned'
<1> SUFFICES ASSUME Types, Planned, [Next]_vars, pc' # "idle" PROVE Planned'
  BY DEF Planned
<1> USE DEF docker, ghosts, others
<1>1. CASE UNCHANGED plan /\ pc # "idle"
  BY <1>1 DEF Planned
<1>2. CASE \E p \in Plans : Upgrade(p)
  <2>1. PICK p \in Plans : Upgrade(p)
    BY <1>2
  <2> QED BY <2>1, PlanOf DEF Upgrade, Planned, Types
<1>3. CASE Start
  <2>1. pc = "start" /\ plan' = Tail(plan) /\ Tail(plan) # <<>>
    BY <1>3 DEF Start
  <2>2. \A i, j \in DOMAIN Tail(plan) : i # j => Tail(plan)[i] # Tail(plan)[j]
    BY <2>1, PlanTail DEF Planned
  <2> QED BY <2>1, <2>2, PlanTail DEF Planned
<1>4. CASE UNCHANGED <<plan, pc>>
  BY <1>4 DEF Planned
<1> QED
  BY <1>1, <1>2, <1>3, <1>4 DEF Next, Work, vars, Decline, Killed, Confirm, Prepare,
     FindVolume, CommitFails, PrepareFails, FindVolumeFails, StartFails, Fail, Goto, Commit,
     RemoveOld, RemoveOldFails, Create, CreateFails, Seed, SeedFails, AgentWrites,
     RemovedByOther

-----------------------------------------------------------------------------
(* What a step can take away *)

\* A container goes by rm of its own turn, or is taken away.
LEMMA Removed ==
  ASSUME Types, Planned, Place, [Next]_vars, NEW c \in Cids, c \in old, c \notin old'
  PROVE  c \in removed' \cup displaced' \/ (pc = "rm" /\ c = Cur)
<1> USE DEF docker, ghosts, others
<1>1. CASE RemoveOld \/ RemoveOldFails
  BY <1>1 DEF RemoveOld, RemoveOldFails
<1>2. CASE Create \/ CreateFails
  <2>1. pc = "create" /\ old' \in {old, Recreated}
        /\ (old' # old => displaced' = displaced \cup Displaced)
    BY <1>2 DEF Create, CreateFails
  <2>2. Cur \in Movable /\ Cur \notin old
    BY <2>1, PlanTail DEF Place
  <2>3. c # Cur /\ Project(c) = Project(Cur) /\ Container[c].service = Target(Cur)
    BY <2>1, <2>2 DEF Recreated
  <2>4. Target(c) = Target(Cur)
    BY <2>2, <2>3, Names DEF Target
  <2>5. c \in Displaced
    BY <2>1, <2>3, <2>4 DEF Displaced, VolumeOf
  <2> QED BY <2>1, <2>5
<1>3. CASE \E d \in Cids : RemovedByOther(d)
  BY <1>3 DEF RemovedByOther
<1> QED
  BY <1>1, <1>2, <1>3 DEF Next, Work, vars, Upgrade, Decline, Killed, Confirm, Prepare,
     FindVolume, CommitFails, PrepareFails, FindVolumeFails, StartFails, Start, Commit, Seed,
     SeedFails, AgentWrites

\* Containers are not made in the old model, nor removed in the new one.
LEMMA OneWay ==
  ASSUME [Next]_vars
  PROVE  /\ old' \subseteq old /\ new \subseteq new' /\ migrated \subseteq migrated'
         /\ removed \subseteq removed' /\ displaced \subseteq displaced'
BY DEF Next, Work, vars, docker, ghosts, others, Upgrade, Decline, Killed, Confirm, Prepare,
   FindVolume, CommitFails, PrepareFails, FindVolumeFails, StartFails, Start, Commit,
   RemoveOld, RemoveOldFails, Create, CreateFails, Recreated, Seed, SeedFails, AgentWrites,
   RemovedByOther

\* Whatever holds a home goes on holding it, until the next snapshot is taken
\* of it: what the agent writes meanwhile is late.
LEMMA StillHeld ==
  ASSUME Types, Planned, [Next]_vars, NEW c \in Cids, ~(Commit /\ c = Cur),
         NEW files, Holds(files, c)
  PROVE  \A p \in Paths : \E f \in files :
           f.owner = c /\ f.path = p /\ (f \in home'[c] \/ p \in late'[c])
<1> USE DEF docker, ghosts, others
<1>1. CASE UNCHANGED <<home, late>>
  BY <1>1 DEF Holds
<1>2. CASE Commit
  <2>1. home' = home /\ late'[c] = late[c]
    BY <1>2 DEF Commit, Types
  <2> QED BY <2>1 DEF Holds
<1>3. ASSUME NEW g, AgentWrites(g), NEW p \in Paths
      PROVE  \E f \in files : f.owner = c /\ f.path = p /\ (f \in home'[c] \/ p \in late'[c])
  <2>1. PICK f \in files : f.owner = c /\ f.path = p /\ (f \in home[c] \/ p \in late[c])
    BY DEF Holds
  <2>2. CASE c # g.owner
    BY <1>3, <2>1, <2>2, Rewritten
  <2>3. CASE c = g.owner
    <3>1. late'[c] = late[c] \cup {g.path} /\ home[c] \ {g} \subseteq home'[c]
      BY <1>3, <2>3, Rewritten
    <3> QED BY <2>1, <3>1
  <2> QED BY <2>2, <2>3
<1> QED
  BY <1>1, <1>2, <1>3 DEF Next, Work, vars, Upgrade, Decline, Killed, Confirm, Prepare,
     FindVolume, CommitFails, PrepareFails, FindVolumeFails, StartFails, Start, RemoveOld,
     RemoveOldFails, Create, CreateFails, Seed, SeedFails, RemovedByOther

LEMMA ImagesKept ==
  ASSUME Types, [Next]_vars, NEW b, ~(Commit /\ b = BackupOf(Cur))
  PROVE  b \in Backup => images'[b] = images[b]
<1>1. CASE UNCHANGED images
  BY <1>1
<1>2. CASE Commit
  BY <1>2 DEF Commit, Types
<1> QED
  BY <1>1, <1>2 DEF Next, Work, vars, docker, ghosts, others, Upgrade, Decline, Killed,
     Confirm, Prepare, FindVolume, CommitFails, PrepareFails, FindVolumeFails, StartFails,
     Start, RemoveOld, RemoveOldFails, Create, CreateFails, Seed, SeedFails, AgentWrites,
     RemovedByOther

LEMMA VolumesKept ==
  ASSUME Types, [Next]_vars, NEW v \in Volume, ~(pc = "seed" /\ v = VolumeOf(Cur))
  PROVE  volumes'[v] = volumes[v]
<1>1. CASE UNCHANGED volumes
  BY <1>1
<1>2. CASE Seed \/ SeedFails
  BY <1>2 DEF Seed, SeedFails, CopyInto, Types
<1> QED
  BY <1>1, <1>2 DEF Next, Work, vars, docker, ghosts, others, Upgrade, Decline, Killed,
     Confirm, Prepare, FindVolume, CommitFails, PrepareFails, FindVolumeFails, StartFails,
     Start, RemoveOld, RemoveOldFails, Create, CreateFails, Commit, AgentWrites, RemovedByOther

LEMMA WholeKept == Types /\ Planned /\ Whole /\ [Next]_vars => Whole'
<1> SUFFICES ASSUME Types, Planned, Whole, [Next]_vars PROVE Whole'
  OBVIOUS
<1>1. CASE UNCHANGED home
  BY <1>1 DEF Whole
<1>2. ASSUME NEW g, AgentWrites(g) PROVE Whole'
  <2>1. PICK h : /\ h.path = g.path /\ h.owner = g.owner
                 /\ home'[g.owner] = (home[g.owner] \ {g}) \cup {h}
    BY <1>2, Rewritten
  <2>2. ASSUME NEW c \in Cids, ~Container[c].home_volume, NEW p \in Paths
        PROVE  \E f \in home'[c] : f.path = p
    <3>1. PICK f \in home[c] : f.path = p
      BY <2>2 DEF Whole
    <3>2. CASE c # g.owner
      BY <1>2, <3>1, <3>2, Rewritten
    <3>3. CASE c = g.owner
      <4>1. home'[c] = (home[c] \ {g}) \cup {h}
        BY <2>1, <3>3
      <4>2. CASE f = g
        BY <2>1, <3>1, <4>1, <4>2
      <4> QED BY <3>1, <4>1, <4>2
    <3> QED BY <3>2, <3>3
  <2>3. ASSUME NEW c \in Cids, NEW f \in home'[c]
        PROVE  f.owner = c
    <3>1. CASE c # g.owner
      BY <1>2, <2>3, <3>1, Rewritten DEF Whole
    <3>2. CASE c = g.owner
      <4>1. f \in home[c] \/ f = h
        BY <2>1, <2>3, <3>2
      <4> QED BY <2>1, <2>3, <3>2, <4>1 DEF Whole
    <3> QED BY <3>1, <3>2
  <2> QED BY <2>2, <2>3 DEF Whole
<1> QED
  BY <1>1, <1>2 DEF Next, Work, vars, docker, ghosts, others, Upgrade, Decline, Killed,
     Confirm, Prepare, FindVolume, CommitFails, PrepareFails, FindVolumeFails, StartFails,
     Start, RemoveOld, RemoveOldFails, Create, CreateFails, Commit, Seed, SeedFails,
     RemovedByOther

-----------------------------------------------------------------------------
(* The container that is being migrated *)

\* Within a turn, the plan and the run stay.
LEMMA Turn ==
  ASSUME [Next]_vars, pc' \in Steps \ {"commit"}
  PROVE  /\ pc \in Steps /\ UNCHANGED <<plan, run, migrated>>
         /\ pc = "commit" => Commit \/ UNCHANGED pc
         /\ pc' \in {"prepare", "rm"} => pc \in {"commit", "prepare", "rm"}
BY DEF Next, Work, vars, docker, ghosts, others, Steps, Upgrade, Decline, Killed, Confirm,
   Prepare, FindVolume, CommitFails, PrepareFails, FindVolumeFails, StartFails, Start, Commit,
   RemoveOld, RemoveOldFails, Create, CreateFails, Seed, SeedFails, AgentWrites,
   RemovedByOther, Goto, Fail

LEMMA WaitingKept ==
  Types /\ Planned /\ Waiting /\ Place /\ [Next]_vars => Waiting'
<1> SUFFICES ASSUME Types, Planned, Waiting, Place, [Next]_vars, pc' # "idle" PROVE Waiting'
  BY DEF Waiting
<1>1. CASE \E p \in Plans : Upgrade(p)
  <2>1. PICK p \in Plans : Upgrade(p)
    BY <1>1
  <2>2. /\ plan' = p /\ old' = old
        /\ \A i \in DOMAIN p : p[i] \in old
    BY <2>1, PlanOf DEF Upgrade, docker, Types
  <2> QED BY <2>2 DEF Waiting
<1>2. CASE Start
  <2>1. pc = "start" /\ plan' = Tail(plan) /\ UNCHANGED <<old, removed, displaced>>
    BY <1>2 DEF Start, docker, others
  <2>2. \A i \in DOMAIN Tail(plan) : Tail(plan)[i] \in old \cup removed \cup displaced
    <3>1. \A i \in DOMAIN Tail(plan) :
            i + 1 > 1 /\ i + 1 \in DOMAIN plan /\ Tail(plan)[i] = plan[i + 1]
      BY <2>1, PlanTail
    <3> QED BY <2>1, <3>1 DEF Waiting
  <2> QED BY <2>1, <2>2 DEF Waiting
<1>3. CASE /\ pc # "idle" /\ UNCHANGED plan
           /\ pc' \in {"confirm", "commit", "prepare", "rm"}
                => pc \in {"confirm", "commit", "prepare", "rm"}
           /\ pc = "rm" => \/ pc' = "create"
                           \/ \A c \in old \ old' : c \in removed'
  <2> SUFFICES ASSUME NEW i \in DOMAIN plan,
                      i > 1 \/ pc' \in {"confirm", "commit", "prepare", "rm"}
               PROVE  plan[i] \in old' \cup removed' \cup displaced'
    BY <1>3 DEF Waiting
  <2>1. plan[i] \in old \cup removed \cup displaced
    BY <1>3 DEF Waiting
  <2>2. plan[i] \in Cids /\ plan \in Seq(Movable) /\ 1 \in DOMAIN plan /\ Cur = plan[1]
    BY <1>3, PlanTail DEF Movable
  <2>3. CASE plan[i] \in old /\ plan[i] \notin old' /\ plan[i] \notin removed' \cup displaced'
    <3>1. pc = "rm" /\ plan[i] = Cur
      BY <2>2, <2>3, Removed
    <3>2. i = 1
      BY <1>3, <2>2, <3>1 DEF Planned
    <3>3. pc' = "create"
      BY <1>3, <2>3, <3>1
    <3> QED BY <3>2, <3>3
  <2> QED BY <2>1, <2>3, OneWay
<1> QED
  BY <1>1, <1>2, <1>3 DEF Next, Work, vars, docker, ghosts, others, Decline, Killed, Confirm,
     Prepare, FindVolume, CommitFails, PrepareFails, FindVolumeFails, StartFails, Commit,
     RemoveOld, RemoveOldFails, Create, CreateFails, Seed, SeedFails, AgentWrites,
     RemovedByOther, Goto, Fail, Waiting

LEMMA OnceKept == Types /\ Planned /\ Once /\ Place /\ [Next]_vars => Once'
<1> SUFFICES ASSUME Types, Planned, Once, Place, [Next]_vars PROVE Once'
  OBVIOUS
<1>1. CASE \E p \in Plans : Upgrade(p)
  <2>1. PICK p \in Plans : Upgrade(p)
    BY <1>1
  <2>2. /\ plan' = p /\ migrated' = migrated /\ old' = old
        /\ \A i \in DOMAIN p : p[i] \in old
    BY <2>1, PlanOf DEF Upgrade, docker, ghosts, Types
  <2> QED BY <2>2 DEF Once
<1>2. CASE Start
  <2>1. /\ pc = "start" /\ plan' = Tail(plan) /\ migrated' = migrated \cup {Cur}
        /\ old' = old /\ Cur \notin old
    BY <1>2 DEF Start, docker, Place
  <2>2. \A i \in DOMAIN Tail(plan) :
          i + 1 \in DOMAIN plan /\ Tail(plan)[i] = plan[i + 1] /\ i + 1 # 1
    BY <2>1, PlanTail
  <2>3. Cur = plan[1] /\ 1 \in DOMAIN plan
    BY <2>1, PlanTail
  <2>4. \A i \in DOMAIN Tail(plan) : Tail(plan)[i] # Cur
    BY <2>1, <2>2, <2>3 DEF Planned
  <2> QED BY <2>1, <2>2, <2>4 DEF Once
<1>3. CASE UNCHANGED migrated /\ (pc' = "idle" \/ (pc # "idle" /\ UNCHANGED plan))
  BY <1>3, OneWay DEF Once
<1>4. CASE UNCHANGED <<migrated, plan, pc>>
  BY <1>4, OneWay DEF Once
<1> QED
  BY <1>1, <1>2, <1>3, <1>4 DEF Next, Work, vars, ghosts, Decline, Killed, Confirm, Prepare,
     FindVolume, CommitFails, PrepareFails, FindVolumeFails, StartFails, Commit, RemoveOld,
     RemoveOldFails, Create, CreateFails, Seed, SeedFails, AgentWrites, RemovedByOther, Goto,
     Fail

LEMMA PlaceKept ==
  Types /\ Planned /\ Whole /\ Place /\ [Next]_vars => Place'
<1> SUFFICES ASSUME Types, Planned, Whole, Place, [Next]_vars, pc' \in Steps \ {"commit"}
             PROVE  Place'
  BY DEF Place, Steps
<1> USE DEF docker, ghosts, others
<1>1. /\ pc \in Steps /\ pc # "idle" /\ UNCHANGED <<plan, run>>
      /\ pc = "commit" => Commit
  BY Turn DEF Steps
<1>2. /\ Cur \in Movable /\ Cur \in Cids /\ Cur' = Cur
      /\ BackupOf(Cur)' = BackupOf(Cur) /\ VolumeOf(Cur)' = VolumeOf(Cur)
  BY <1>1, PlanTail DEF Cur, BackupOf, VolumeOf
<1>3. BackupOf(Cur) \in Backup /\ VolumeOf(Cur) \in Volume
  <2>1. run \in 1..MaxRuns
    BY <1>1, UpgradeAssumption DEF Types
  <2> QED BY <1>2, <2>1, Names DEF Backups
<1>4. Holds(images[BackupOf(Cur)], Cur)'
  <2>1. CASE Commit
    <3>1. /\ images'[BackupOf(Cur)] = home[Cur] /\ home' = home
      BY <1>3, <2>1 DEF Commit, Types
    <3>2. \A p \in Paths : \E f \in home[Cur] : f.path = p /\ f.owner = Cur
      BY <1>2 DEF Whole, Movable
    <3> QED BY <1>2, <3>1, <3>2 DEF Holds
  <2>2. CASE ~Commit
    <3>1. images'[BackupOf(Cur)] = images[BackupOf(Cur)]
      BY <1>3, <2>2, ImagesKept
    <3>2. Holds(images[BackupOf(Cur)], Cur)
      BY <1>1, <2>2 DEF Place
    <3> QED BY <1>2, <2>2, <3>1, <3>2, StillHeld DEF Holds
  <2> QED BY <2>1, <2>2
<1>5. (pc \in {"create", "inspect", "seed", "start"} => Cur \notin old /\ stage # "snapshot")'
  <2> SUFFICES ASSUME pc' \in {"create", "inspect", "seed", "start"}
               PROVE  Cur \notin old' /\ stage' # "snapshot"
    BY <1>2
  <2>1. CASE RemoveOld
    BY <2>1 DEF RemoveOld
  <2>2. CASE ~RemoveOld
    <3>1. pc \in {"create", "inspect", "seed", "start"}
      BY <2>2 DEF Next, Work, vars, Upgrade, Decline, Killed, Confirm, Prepare, FindVolume,
         CommitFails, PrepareFails, FindVolumeFails, StartFails, Start, Commit, RemoveOldFails,
         Create, CreateFails, Seed, SeedFails, AgentWrites, RemovedByOther, Goto, Fail
    <3>2. UNCHANGED stage \/ stage' \in {"seeding", "starting"}
      BY <3>1 DEF Next, Work, vars, Upgrade, Decline, Killed, Confirm, Prepare, FindVolume,
         CommitFails, PrepareFails, FindVolumeFails, StartFails, Start, Commit, RemoveOld,
         RemoveOldFails, Create, CreateFails, Seed, SeedFails, AgentWrites, RemovedByOther,
         Goto, Fail
    <3> QED BY <3>1, <3>2, OneWay DEF Place
  <2> QED BY <2>1, <2>2
<1>6. (pc \in {"inspect", "seed", "start"} =>
        /\ VolumeOf(Cur) \in new
        /\ \A d \in Cids \ {Cur} :
             /\ VolumeOf(d) = VolumeOf(Cur)
             /\ d \in migrated \/ Container[d].home_volume
             => d \in displaced)'
  <2>1. \A d : VolumeOf(d)' = VolumeOf(d)
    BY DEF VolumeOf, Project, Target
  <2>2. migrated' = migrated
    BY Turn
  <2>3. CASE Create
    <3>1. /\ VolumeOf(Cur) \in new' /\ displaced' = displaced \cup Displaced
      BY <2>3 DEF Create
    <3>2. \A d \in Cids \ {Cur} :
            /\ VolumeOf(d) = VolumeOf(Cur)
            /\ d \in migrated \/ Container[d].home_volume
            => d \in Displaced
      BY DEF Displaced
    <3> QED BY <1>2, <2>1, <2>2, <3>1, <3>2
  <2>4. CASE ~Create
    <3>1. pc' \in {"inspect", "seed", "start"} => pc \in {"inspect", "seed", "start"}
      BY <2>4 DEF Next, Work, vars, Upgrade, Decline, Killed, Confirm, Prepare, FindVolume,
         CommitFails, PrepareFails, FindVolumeFails, StartFails, Start, Commit, RemoveOld,
         RemoveOldFails, CreateFails, Seed, SeedFails, AgentWrites, RemovedByOther, Goto, Fail
    <3> QED BY <1>2, <2>1, <2>2, <3>1, OneWay DEF Place
  <2> QED BY <2>3, <2>4
<1>7. (pc = "start" => Holds(volumes[VolumeOf(Cur)], Cur))'
  <2>1. CASE Seed
    <3>1. images[BackupOf(Cur)] \subseteq volumes'[VolumeOf(Cur)] /\ images' = images
      BY <1>3, <2>1 DEF Seed, CopyInto, Types
    <3> QED BY <1>2, <1>4, <3>1 DEF Holds
  <2>2. CASE ~Seed
    <3> SUFFICES ASSUME pc' = "start" PROVE Holds(volumes[VolumeOf(Cur)], Cur)'
      OBVIOUS
    <3>1. pc = "start"
      BY <2>2 DEF Next, Work, vars, Upgrade, Decline, Killed, Confirm, Prepare, FindVolume,
         CommitFails, PrepareFails, FindVolumeFails, StartFails, Start, Commit, RemoveOld,
         RemoveOldFails, Create, CreateFails, SeedFails, AgentWrites, RemovedByOther, Goto,
         Fail
    <3>2. volumes'[VolumeOf(Cur)] = volumes[VolumeOf(Cur)]
      BY <1>3, <3>1, VolumesKept
    <3>3. ~Commit /\ Holds(volumes[VolumeOf(Cur)], Cur)
      BY <3>1 DEF Commit, Place
    <3> QED BY <1>2, <3>2, <3>3, StillHeld DEF Holds
  <2> QED BY <2>1, <2>2
<1> QED BY <1>4, <1>5, <1>6, <1>7 DEF Place

-----------------------------------------------------------------------------
(* The containers that are not *)

\* A run begins, or goes on with the container it is at.
LEMMA Moves ==
  ASSUME [Next]_vars
  PROVE  \/ pc = "idle" /\ run' = run + 1
         \/ /\ run' = run /\ (pc = "idle" => pc' = "idle")
            /\ pc \in Steps \ {"commit"} =>
                 \/ pc' = "idle" \/ Start
                 \/ plan' = plan /\ pc' \in Steps \ {"commit"}
<1> USE DEF docker, ghosts, others
<1>1. CASE \E p \in Plans : Upgrade(p)
  BY <1>1 DEF Upgrade
<1>2. CASE UNCHANGED <<pc, run, plan>>
  BY <1>2
<1>3. CASE run' = run /\ pc # "idle" /\ pc' = "idle"
  BY <1>3
<1>4. CASE run' = run /\ pc # "idle" /\ plan' = plan /\ pc' \in Steps \ {"commit"}
  BY <1>4
<1>5. CASE Confirm \/ Start
  BY <1>5 DEF Confirm, Start, Steps
<1> QED
  BY <1>1, <1>2, <1>3, <1>4, <1>5 DEF Next, Work, vars, Decline, Killed, Prepare, FindVolume,
     CommitFails, PrepareFails, FindVolumeFails, StartFails, Commit, RemoveOld, RemoveOldFails,
     Create, CreateFails, Seed, SeedFails, AgentWrites, RemovedByOther, Goto, Fail, Steps

LEMMA AwayKept ==
  Types /\ Planned /\ Once /\ Place /\ Away /\ [Next]_vars => Away'
<1> SUFFICES ASSUME Types, Planned, Once, Place, Away, [Next]_vars PROVE Away'
  OBVIOUS
<1> USE DEF docker, ghosts, others
<1>0. \A d : VolumeOf(d)' = VolumeOf(d)
  BY DEF VolumeOf, Project, Target
<1>1. ASSUME NEW c \in Cids \ displaced', Container[c].home_volume
      PROVE  FirstFiles(c) \subseteq volumes'[VolumeOf(c)]
  <2>1. c \notin displaced /\ FirstFiles(c) \subseteq volumes[VolumeOf(c)] /\ c \notin Movable
    BY <1>1, OneWay DEF Away, Kept, Movable
  <2>2. VolumeOf(c) \in Volume
    BY <1>1, UpgradeAssumption DEF VolumeOf, Volume, Project, Target, Labels
  <2>3. ~(pc = "seed" /\ VolumeOf(c) = VolumeOf(Cur))
    BY <1>1, <2>1, PlanTail DEF Place
  <2> QED BY <2>1, <2>2, <2>3, VolumesKept
<1>2. ASSUME NEW c \in Cids \ displaced', ~Container[c].home_volume,
             c \notin old' \cup migrated' \cup removed'
      PROVE  \E b \in Backups(c) : Safe(b, c)'
  <2>1. CASE c \in old
    <3>1. pc = "rm" /\ c = Cur
      BY <1>2, <2>1, Removed
    <3>2. run \in 1..MaxRuns
      BY <3>1, UpgradeAssumption DEF Types
    <3>3. PICK b : b = BackupOf(Cur)
      OBVIOUS
    <3>4. b \in Backups(c) /\ b \in Backup /\ b[2] = run
      BY <3>1, <3>2, <3>3, PlanTail, Names DEF Backups, BackupOf
    <3>5. images'[b] = images[b] /\ ~Commit /\ Holds(images[b], c)
      BY <3>1, <3>3, <3>4, ImagesKept DEF Commit, Place, Steps
    <3>6. Holds(images[b], c)'
      BY <1>2, <3>5, StillHeld DEF Holds
    <3>7. run' = run /\ (pc' = "idle" \/ (c = Cur' /\ pc' \in Steps \ {"commit"}))
      BY <3>1, Moves DEF Steps, Start, Cur
    <3>8. b[2] <= run' /\ (pc' # "idle" => c = Cur' /\ pc' # "commit" /\ pc' # "confirm")
      BY <3>2, <3>4, <3>7 DEF Steps
    <3> QED BY <3>4, <3>6, <3>8 DEF Safe
  <2>2. CASE c \notin old
    <3>1. PICK b \in Backups(c) : Safe(b, c)
      BY <1>2, <2>2, OneWay DEF Away, Kept
    <3>2. b \in Backup /\ b[2] \in 1..MaxRuns
      BY DEF Backups, Backup
    <3>3. ~(Commit /\ c = Cur)
      BY <2>2 DEF Commit
    <3>4. ~(Commit /\ b = BackupOf(Cur))
      BY <3>1, <3>3 DEF Safe, Commit, BackupOf
    <3>5. images'[b] = images[b] /\ Holds(images[b], c)
      BY <3>1, <3>2, <3>4, ImagesKept DEF Safe
    <3>6. Holds(images[b], c)'
      BY <1>2, <3>3, <3>5, StillHeld DEF Holds
    <3>7. run \in Nat /\ pc \in Steps \cup {"idle", "confirm"} /\ b[2] \in Nat
      BY <3>2, UpgradeAssumption DEF Types
    <3>8. CASE run' = run + 1
      <4>1. b[2] <= run' /\ b[2] # run'
        BY <3>1, <3>7, <3>8 DEF Safe
      <4> QED BY <3>6, <4>1 DEF Safe
    <3>9. CASE run' = run /\ b[2] # run
      BY <3>1, <3>6, <3>9 DEF Safe
    <3>10. CASE run' = run /\ b[2] = run
      <4>1. pc = "idle" \/ (c = Cur /\ pc \in Steps \ {"commit"})
        BY <3>1, <3>7, <3>10 DEF Safe
      <4>2. ~(Start /\ c = Cur)
        BY <1>2 DEF Start
      <4>3. pc = "idle" => pc' = "idle"
        BY <3>7, <3>10, Moves
      <4>4. pc' = "idle" \/ (c = Cur' /\ pc' \in Steps \ {"commit"})
        BY <3>7, <3>10, <4>1, <4>2, <4>3, Moves DEF Cur
      <4> QED BY <3>1, <3>6, <3>10, <4>4 DEF Safe, Steps
    <3> QED BY <3>8, <3>9, <3>10, Moves
  <2> QED BY <2>1, <2>2
<1>3. Kept'
  BY <1>0, <1>1, <1>2 DEF Kept
<1>4. ASSUME NEW c \in migrated', c \notin displaced'
      PROVE  c \notin old' /\ VolumeOf(c) \in new' /\ Holds(volumes[VolumeOf(c)], c)'
  <2>0. c \in migrated \/ (Start /\ c = Cur)
    BY <1>4 DEF Next, Work, vars, Upgrade, Decline, Killed, Confirm, Prepare, FindVolume,
       CommitFails, PrepareFails, FindVolumeFails, StartFails, Start, Commit, RemoveOld,
       RemoveOldFails, Create, CreateFails, Seed, SeedFails, AgentWrites, RemovedByOther
  <2>1. c \in Movable /\ c \in Cids /\ VolumeOf(c) \in Volume /\ c \notin displaced
    BY <1>4, <2>0, PlanTail, Names, OneWay DEF Types, Start, Movable
  <2>2. c \notin old /\ VolumeOf(c) \in new /\ Holds(volumes[VolumeOf(c)], c)
    <3>1. CASE c \in migrated
      BY <2>1, <3>1 DEF Away, MigratedMeansSeeded
    <3>2. CASE Start /\ c = Cur
      BY <3>2 DEF Start, Place
    <3> QED BY <2>0, <3>1, <3>2
  <2>3. ~(pc = "seed" /\ VolumeOf(c) = VolumeOf(Cur))
    <3> SUFFICES ASSUME pc = "seed", VolumeOf(c) = VolumeOf(Cur) PROVE FALSE
      OBVIOUS
    <3>1. c \in migrated
      BY <2>0 DEF Start
    <3>2. c # Cur
      BY <3>1, PlanTail DEF Once
    <3> QED BY <2>1, <3>1, <3>2 DEF Place
  <2>4. volumes'[VolumeOf(c)] = volumes[VolumeOf(c)]
    BY <2>1, <2>3, VolumesKept
  <2>5. ~(Commit /\ c = Cur)
    BY <2>2 DEF Commit
  <2>6. Holds(volumes[VolumeOf(c)], c)'
    BY <1>0, <2>1, <2>2, <2>4, <2>5, StillHeld DEF Holds
  <2> QED BY <2>2, <2>6, OneWay
<1>5. MigratedMeansSeeded'
  BY <1>0, <1>4 DEF MigratedMeansSeeded
<1> QED BY <1>3, <1>5 DEF Away

-----------------------------------------------------------------------------
(* What is reported *)

\* A migration fails at stage "snapshot" before rm, at a later one after commit,
\* and after rm of a container that is gone.
FailedAt(at) ==
  /\ report' = <<[cid |-> Cur, stage |-> at, step |-> pc, backup |-> BackupOf(Cur)]>>
  /\ pc' = "idle" /\ pc \in Steps
  /\ at = "snapshot" => pc \in {"commit", "prepare"} /\ UNCHANGED old
  /\ at # "snapshot" => pc \in Steps \ {"commit", "prepare"}

\* A step reports nothing new, clears the report, or fails.
LEMMA Failing ==
  ASSUME Types, Planned, Place, [Next]_vars
  PROVE  \/ UNCHANGED report /\ (report # <<>> /\ pc = "idle" => pc' = "idle")
         \/ report' = <<>>
         \/ \E at : FailedAt(at)
<1> USE DEF docker, ghosts, others
<1>1. CASE UNCHANGED vars
  BY <1>1 DEF vars
<1>2. CASE CommitFails \/ PrepareFails
  <2>1. FailedAt("snapshot")
    BY <1>2 DEF FailedAt, CommitFails, PrepareFails, Fail, Steps
  <2> QED BY <2>1
<1>3. CASE RemoveOldFails
  <2>1. FailedAt("old-removed")
    BY <1>3 DEF FailedAt, RemoveOldFails, Fail, Steps
  <2> QED BY <2>1
<1>4. CASE CreateFails \/ FindVolumeFails \/ SeedFails \/ StartFails
  <2>1. pc \in {"create", "inspect", "seed", "start"} /\ Fail(stage)
    BY <1>4 DEF CreateFails, FindVolumeFails, SeedFails, StartFails
  <2>2. stage # "snapshot"
    BY <2>1 DEF Place
  <2>3. FailedAt(stage)
    BY <2>1, <2>2 DEF FailedAt, Fail, Steps
  <2> QED BY <2>3
<1>5. CASE \E p \in Plans : Upgrade(p)
  BY <1>5 DEF Upgrade
<1> QED
  BY <1>1, <1>2, <1>3, <1>4, <1>5 DEF Next, Work, vars, Decline, Killed, Confirm, Prepare,
     FindVolume, Start, Commit, RemoveOld, Create, Seed, AgentWrites, RemovedByOther, Goto

LEMMA ReportedKept ==
  Types /\ Planned /\ Place /\ Reported /\ [Next]_vars => Reported'
<1> SUFFICES ASSUME Types, Planned, Place, Reported, [Next]_vars PROVE Reported'
  OBVIOUS
<1>1. ASSUME NEW at, FailedAt(at)
      PROVE  Reported'
  <2>1. Cur \in Movable /\ Cur \in Cids
    BY <1>1, PlanTail DEF FailedAt, Steps
  <2>2. BackupOf(Cur) \in Backup
    <3>1. run \in 1..MaxRuns
      BY <1>1, UpgradeAssumption DEF FailedAt, Types, Steps
    <3> QED BY <2>1, <3>1, Names DEF Backups
  <2> QED BY <1>1, <2>1, <2>2 DEF FailedAt, Reported
<1> QED BY <1>1, Failing DEF Reported

LEMMA ReportKept ==
  /\ Types /\ Planned /\ Waiting /\ Place /\ Reported /\ ReportIsTrue
  /\ [Next]_vars
  => ReportIsTrue'
<1> SUFFICES ASSUME Types, Planned, Waiting, Place, Reported, ReportIsTrue, [Next]_vars
             PROVE  ReportIsTrue'
  OBVIOUS
<1> USE DEF docker, ghosts, others
<1>1. CASE UNCHANGED report /\ (report # <<>> /\ pc = "idle" => pc' = "idle")
  <2> SUFFICES ASSUME report # <<>>
               PROVE  ReportIsTrue'
    BY <1>1 DEF ReportIsTrue
  <2> DEFINE r == report[1]
  <2>1. /\ pc = "idle" /\ DOMAIN report = {1} /\ r.cid \in Cids /\ r.backup \in Backup
    BY DEF Reported
  <2>2. IF r.stage = "snapshot" THEN r.cid \in old \cup removed \cup displaced
        ELSE Holds(images[r.backup], r.cid) /\ (r.cid \notin old \/ r.step = "rm")
    BY <2>1 DEF ReportIsTrue
  <2>3. r' = r
    BY <1>1
  <2> HIDE DEF r
  <2>4. r.stage = "snapshot" => r.cid \in old' \cup removed' \cup displaced'
    BY <2>1, <2>2, Removed, OneWay
  <2>5. r.stage # "snapshot" => Holds(images[r.backup], r.cid)'
    <3>1. images'[r.backup] = images[r.backup] /\ ~Commit
      BY <2>1, ImagesKept DEF Commit
    <3>2. ASSUME r.stage # "snapshot"
          PROVE  \A p \in Paths : \E f \in images[r.backup] :
                   f.owner = r.cid /\ f.path = p /\ (f \in home'[r.cid] \/ p \in late'[r.cid])
      BY <2>1, <2>2, <3>1, <3>2, StillHeld
    <3> QED BY <2>3, <3>1, <3>2 DEF Holds
  <2>6. (IF r.stage = "snapshot" THEN r.cid \in old \cup removed \cup displaced
         ELSE Holds(images[r.backup], r.cid) /\ (r.cid \notin old \/ r.step = "rm"))'
    BY <2>2, <2>3, <2>4, <2>5, OneWay
  <2>7. DOMAIN report' = {1}
    BY <1>1, <2>1
  <2> QED BY <2>6, <2>7 DEF ReportIsTrue, r
<1>2. CASE report' = <<>>
  BY <1>2 DEF ReportIsTrue
<1>3. ASSUME NEW at, FailedAt(at)
      PROVE  ReportIsTrue'
  <2>1. Cur \in Movable /\ Cur \in Cids /\ Cur = plan[1] /\ 1 \in DOMAIN plan
    BY <1>3, PlanTail DEF FailedAt, Steps
  <2>2. BackupOf(Cur) \in Backup
    <3>1. run \in 1..MaxRuns
      BY <1>3, UpgradeAssumption DEF FailedAt, Types, Steps
    <3> QED BY <2>1, <3>1, Names DEF Backups
  <2>3. at = "snapshot" => Cur \in old' \cup removed' \cup displaced'
    BY <1>3, <2>1, OneWay DEF FailedAt, Waiting
  <2>4. at # "snapshot" =>
          \A p \in Paths : \E f \in images'[BackupOf(Cur)] :
            f.owner = Cur /\ f.path = p /\ (f \in home'[Cur] \/ p \in late'[Cur])
    <3> SUFFICES ASSUME at # "snapshot"
                 PROVE  \A p \in Paths : \E f \in images'[BackupOf(Cur)] :
                          f.owner = Cur /\ f.path = p /\ (f \in home'[Cur] \/ p \in late'[Cur])
      OBVIOUS
    <3>1. ~Commit /\ Holds(images[BackupOf(Cur)], Cur)
      BY <1>3 DEF FailedAt, Commit, Place
    <3>2. images'[BackupOf(Cur)] = images[BackupOf(Cur)]
      BY <2>2, <3>1, ImagesKept
    <3> QED BY <2>1, <3>1, <3>2, StillHeld
  <2>5. at # "snapshot" => Cur \notin old' \/ pc = "rm"
    BY <1>3, OneWay DEF FailedAt, Place, Steps
  <2>6. /\ DOMAIN report' = {1} /\ report'[1].cid = Cur /\ report'[1].stage = at
        /\ report'[1].step = pc /\ report'[1].backup = BackupOf(Cur)
    BY <1>3 DEF FailedAt
  <2> QED BY <2>3, <2>4, <2>5, <2>6 DEF ReportIsTrue, Holds
<1> QED BY <1>1, <1>2, <1>3, Failing

-----------------------------------------------------------------------------
(* The theorems *)

LEMMA UpgradeHolds ==
  Spec => [](/\ Types /\ Planned /\ Waiting /\ Once /\ Whole /\ Place /\ Away
             /\ Reported /\ ReportIsTrue)
<1> DEFINE IInv == /\ Types /\ Planned /\ Waiting /\ Once /\ Whole /\ Place /\ Away
                   /\ Reported /\ ReportIsTrue
<1>1. Init => IInv
  <2>1. Init => ReportIsTrue
    BY DEF Init, ReportIsTrue
  <2> QED BY <2>1, Starts
<1>2. IInv /\ [Next]_vars => IInv'
  BY TypesKept, PlannedKept, WaitingKept, OnceKept, WholeKept, PlaceKept, AwayKept,
     ReportedKept, ReportKept
<1> QED BY <1>1, <1>2, PTL DEF Spec

\* Whatever fails and whenever upgrade is killed, a home is somewhere, unless
\* somebody else removes its container or upgrade gives its place to another one.
THEOREM HomesAreKept == Spec => []NothingLost
<1>1. Away => NothingLost
  BY DEF Away, Kept, Safe, NothingLost
<1> QED BY <1>1, UpgradeHolds, PTL

\* A container that is reported as migrated has its home on its volume, until
\* another one of its project is migrated for the same tag.
THEOREM MigratedHomes == Spec => []MigratedMeansSeeded
BY UpgradeHolds, PTL DEF Away

\* What upgrade says of a failure is so and remains so: that the old container is
\* intact, unless it was taken away by somebody else or for another one; that the
\* image has the home; and that the old container is gone, unless rm failed.
THEOREM ReportsAreTrue == Spec => []ReportIsTrue
BY UpgradeHolds, PTL
================================================================================
