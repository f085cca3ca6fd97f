------------------------------ MODULE Sandboxes ------------------------------
(***************************************************************************)
(* Any number of sanity-cli processes (up, down, stop, start, restart,     *)
(* clean) on one host.  They share the docker daemon and the directory     *)
(* config/ and take no lock on either: every process reads, decides and    *)
(* then acts in separate steps (verbs/up.py, hooks/up.py,                  *)
(* compose/generators.py, verbs/lifecycle.py, hooks/lifecycle.py).         *)
(*                                                                         *)
(* An instance is a (project, tag) pair.  A container is known by the      *)
(* process that made it.  Of its settings the model keeps the host port of *)
(* one declared slug and the resource limits; of its home volume, which    *)
(* process created it.                                                     *)
(***************************************************************************)
EXTENDS Naturals, FiniteSets

CONSTANTS
  Projects, Tags,
  DefaultProject,  (* "sanity-gravity"                                        *)
  DefaultPort,     (* PortSpec.default of the slug                            *)
  OtherPorts,      (* further fixed host ports a user may name                *)
  FreePorts,       (* the host ports docker picks from for "0"                *)
  Foreign,         (* host ports held by programs other than the sandboxes    *)
  Limits,          (* values of --cpus and --memory                           *)
  HostHasGit,      (* is there a ~/.gitconfig or an agent socket to mount?    *)
  Commands,        (* the command lines that are run                          *)
  MaxRuns          (* BOUND: processes started                                *)

Ephemeral == "0"     \* ports are strings, as in ctx.resolved_ports
NoPort    == "none"
NoLimits  == "no limits"
Nobody    == 0

Runs  == 1..MaxRuns
Fixed == {DefaultPort} \cup OtherPorts
Instances == Projects \X Tags
Files == Tags \cup {"git", "resources"}
Verbs == {"up", "down", "stop", "start", "restart", "clean"}

\* A parsed command line.  port is the value of the port flag, spelled how it
\* was given: not at all (the value is the default), as two arguments, or as
\* --flag=value.
Command == [verb : Verbs, project : Projects, tag : Tags, dry : BOOLEAN,
            recreate : BOOLEAN, limits : Limits \cup {NoLimits}, port : Fixed,
            spelled : {"absent", "apart", "joined"}, force : BOOLEAN]

ASSUME SandboxesAssumption ==
  /\ DefaultProject \in Projects
  /\ Fixed \cap FreePorts = {}
  /\ {Ephemeral, NoPort} \cap (Fixed \cup FreePorts) = {}
  /\ Foreign \subseteq Fixed
  /\ NoLimits \notin Limits
  /\ Tags \cap {"git", "resources"} = {}
  /\ HostHasGit \in BOOLEAN
  /\ Commands \subseteq Command
  /\ \A c \in Commands : c.spelled = "absent" => c.port = DefaultPort
  /\ MaxRuns \in Nat

VARIABLES
  cont,      (* docker: the container of each instance                        *)
  home,      (* docker: the process that created each home volume, or Nobody  *)
  file,      (* config/: the compose file of each tag and the two overlays    *)
  job,       (* the command line of each process                              *)
  pc,        (* the next thing each process does                              *)
  port,      (* ctx.resolved_ports, later what is announced                   *)
  consent,   (* history: may this process destroy the project's homes?        *)
  met,       (* history: the processes each one overlapped with               *)
  atBegin    (* history: the maker of the instance's container when the       *)
             (* process began, or Nobody                                      *)

docker == <<cont, home>>
ghosts == <<consent, met, atBegin>>
vars   == <<cont, home, file, job, pc, port, ghosts>>

NoContainer == [by |-> Nobody, port |-> NoPort, bound |-> NoPort, limits |-> NoLimits]

\* What is in a compose file: the tag of its service, and the limits.
Text(tag, state, limits) == [tag |-> tag, state |-> state, limits |-> limits]
NoCommand == [verb |-> "none"]

Ended == {"ok", "cancelled", "not found", "collision found", "port taken", "failed"}

Active(r) == pc[r] \notin Ended \cup {"idle"}
Inst(r)   == <<job[r].project, job[r].tag>>

\* Mutant: the volume is named after the tag alone.
HomeOf_TagOnly(i) == <<DefaultProject, i[2]>>

\* Naming.volume_external.
HomeOf(i) == i

Exists(i)  == cont[i].by # Nobody
Running(i) == cont[i].bound # NoPort
Bound      == {cont[i].bound : i \in Instances} \ {NoPort}
InUse      == Bound \cup Foreign

-----------------------------------------------------------------------------
Init ==
  /\ cont = [i \in Instances |-> NoContainer]
  /\ home = [i \in Instances |-> Nobody]
  /\ file = [f \in Files |-> Text("", "missing", NoLimits)]
  /\ job = [r \in Runs |-> NoCommand]
  /\ pc = [r \in Runs |-> "idle"]
  /\ port = [r \in Runs |-> NoPort]
  /\ consent = [r \in Runs |-> FALSE]
  /\ met = [r \in Runs |-> {}]
  /\ atBegin = [r \in Runs |-> Nobody]

Goto(r, label) == pc' = [pc EXCEPT ![r] = label]

FirstStep(c) ==
  IF c.verb = "up" THEN (IF c.dry THEN "main" ELSE "collision")
  ELSE IF c.verb = "clean" /\ ~c.force THEN "prompt"
  ELSE IF c.verb = "down" /\ ~c.dry THEN "exists"
  ELSE "act"

\* A process is started: its command line is parsed, resolve_tag and the
\* project's name are good, the image is there.
Begin(r, c) ==
  /\ pc[r] = "idle" /\ \A s \in 1..(r - 1) : pc[s] # "idle"
  /\ job' = [job EXCEPT ![r] = c]
  /\ Goto(r, FirstStep(c))
  /\ consent' = [consent EXCEPT ![r] = c.verb = "clean" /\ c.force]
  /\ met' = [s \in Runs |-> IF s = r THEN {o \in Runs : Active(o)}
                            ELSE IF Active(s) THEN met[s] \cup {r} ELSE met[s]]
  /\ atBegin' = [atBegin EXCEPT ![r] = cont[<<c.project, c.tag>>].by]
  /\ UNCHANGED <<docker, file, port>>

-----------------------------------------------------------------------------
(* up *)

\* Mutant: docker ps without -a does not list a stopped container.
Collision_RunningOnly(r) ==
  /\ pc[r] = "collision"
  /\ Goto(r, IF Running(Inst(r)) /\ ~job[r].recreate THEN "collision found" ELSE "main")
  /\ UNCHANGED <<docker, file, job, port, ghosts>>

\* docker ps -a, run before the phases; left out of a dry run.
Collision(r) ==
  /\ pc[r] = "collision"
  /\ Goto(r, IF Exists(Inst(r)) /\ ~job[r].recreate THEN "collision found" ELSE "main")
  /\ UNCHANGED <<docker, file, job, port, ghosts>>

\* ComposeBuilder.write: open(path, "w") leaves an empty file, which has its
\* text when it is closed.
Open(r, label, f, text_label) ==
  /\ pc[r] = label
  /\ file' = [file EXCEPT ![f] = Text("", "empty", NoLimits)]
  /\ Goto(r, text_label)
  /\ UNCHANGED <<docker, job, port, ghosts>>

\* What a file has when "own" is written over what others have written since it
\* was last truncated.  The tail of a longer text stays behind the own one: it
\* may be garbage, nothing that matters, or a limit that is read.
Written(there, own) ==
  IF there.state = "empty" \/ there = own THEN {own}
  ELSE {Text(own.tag, state, limits) :
          state \in {"whole", "mixed"}, limits \in {own.limits, there.limits}}

Close(r, label, f, limits, next) ==
  /\ pc[r] = label
  /\ \E text \in Written(file[f], Text(job[r].tag, "whole", limits)) :
       file' = [file EXCEPT ![f] = text]
  /\ Goto(r, next)
  /\ UNCHANGED <<docker, job, port, ghosts>>

AfterGit(r)  == IF job[r].limits = NoLimits THEN "ports" ELSE "limits"
AfterMain(r) == IF HostHasGit THEN "git" ELSE AfterGit(r)

\* gen_main_compose, gen_git_compose, gen_resource_compose.  They run in a dry
\* run too.
WriteFiles(r) ==
  \/ Open(r, "main", job[r].tag, "main text")
  \/ Close(r, "main text", job[r].tag, NoLimits, AfterMain(r))
  \/ Open(r, "git", "git", "git text")
  \/ Close(r, "git text", "git", NoLimits, AfterGit(r))
  \/ Open(r, "limits", "resources", "limits text")
  \/ Close(r, "limits text", "resources", job[r].limits, "ports")

\* verbs/up._explicit looks for the bare flag in sys.argv.
Explicit(r) == job[r].spelled = "apart"

\* Mutant: a custom project tries the default port first.
Allocated_DefaultIfFree(r) ==
  IF ~Explicit(r) /\ job[r].port = DefaultPort /\ DefaultPort \in InUse
  THEN Ephemeral ELSE job[r].port

\* auto_port_alloc.
Allocated(r) ==
  IF /\ ~Explicit(r) /\ job[r].port = DefaultPort
     /\ job[r].project # DefaultProject \/ DefaultPort \in InUse
  THEN Ephemeral ELSE job[r].port

AllocatePort(r) ==
  /\ pc[r] = "ports"
  /\ port' = [port EXCEPT ![r] = Allocated(r)]
  /\ Goto(r, "compose")
  /\ UNCHANGED <<docker, file, job, ghosts>>

\* Mutant: the overlay of an earlier run is passed too.
ComposeFiles_Leftover(r) ==
  {job[r].tag} \cup {f \in {"git", "resources"} : file[f].state # "missing"}

\* ctx.compose_files.
ComposeFiles(r) ==
  {job[r].tag} \cup (IF HostHasGit THEN {"git"} ELSE {})
               \cup (IF job[r].limits # NoLimits THEN {"resources"} ELSE {})

\* Compose rejects an empty or a mixed file, and a service that has no image because the
\* overlay was written for another tag.
Readable(r) ==
  \A f \in ComposeFiles(r) : file[f].state = "whole" /\ file[f].tag = job[r].tag

LimitsRead(r) ==
  IF "resources" \in ComposeFiles(r) THEN file["resources"].limits ELSE NoLimits

\* The host ports docker may bind for instance i, whose own port is let go.
Bindable(configured, i) ==
  (IF configured = Ephemeral THEN FreePorts ELSE {configured})
    \ (InUse \ {cont[i].bound})

\* The container compose wants, bound to b.  An existing one whose settings
\* are the same is kept.
Wanted(r, b) ==
  LET old == cont[Inst(r)] IN
  IF Exists(Inst(r)) /\ old.port = port[r] /\ old.limits = LimitsRead(r)
  THEN [old EXCEPT !.bound = IF @ = NoPort THEN b ELSE @]
  ELSE [by |-> r, port |-> port[r], bound |-> b, limits |-> LimitsRead(r)]

MakeHome(r) ==
  home' = [home EXCEPT ![HomeOf(Inst(r))] = IF @ = Nobody THEN r ELSE @]

\* Mutant: the ports docker chose are not asked for.
ComposeUp_NoResolve(r) ==
  /\ pc[r] = "compose" /\ ~job[r].dry /\ Readable(r)
  /\ \E b \in Bindable(port[r], Inst(r)) :
       cont' = [cont EXCEPT ![Inst(r)] = Wanted(r, b)]
  /\ MakeHome(r)
  /\ Goto(r, "provision")
  /\ UNCHANGED <<file, job, port, ghosts>>

\* docker compose up -d <service>.
ComposeUp(r) ==
  /\ pc[r] = "compose" /\ ~job[r].dry /\ Readable(r)
  /\ \E b \in Bindable(port[r], Inst(r)) :
       cont' = [cont EXCEPT ![Inst(r)] = Wanted(r, b)]
  /\ MakeHome(r)
  /\ Goto(r, IF port[r] = Ephemeral THEN "resolve" ELSE "provision")
  /\ UNCHANGED <<file, job, port, ghosts>>

\* The port is taken: the container is made but does not run.
ComposeUpNoPort(r) ==
  /\ pc[r] = "compose" /\ ~job[r].dry /\ Readable(r)
  /\ Bindable(port[r], Inst(r)) = {}
  /\ cont' = [cont EXCEPT ![Inst(r)] = Wanted(r, NoPort)]
  /\ MakeHome(r)
  /\ Goto(r, "port taken")
  /\ UNCHANGED <<file, job, port, ghosts>>

\* Files that do not parse, or a docker fault before or after the volume and
\* the container were made.
ComposeUpFails(r) ==
  /\ pc[r] = "compose" /\ ~job[r].dry
  /\ \/ UNCHANGED docker
     \/ Readable(r) /\ MakeHome(r) /\ UNCHANGED cont
     \/ /\ Readable(r) /\ MakeHome(r)
        /\ cont' = [cont EXCEPT ![Inst(r)] = Wanted(r, NoPort)]
  /\ Goto(r, "failed")
  /\ UNCHANGED <<file, job, port, ghosts>>

\* resolve_ephemeral: docker compose port, with the same files; "?" if it fails.
Resolve(r) ==
  /\ pc[r] = "resolve"
  /\ \E p \in {"?"} \cup (IF Readable(r) /\ Running(Inst(r))
                          THEN {cont[Inst(r)].bound} ELSE {}) :
       port' = [port EXCEPT ![r] = p]
  /\ Goto(r, "provision")
  /\ UNCHANGED <<docker, file, job, ghosts>>

\* sync_config, which needs the container running; announce prints.
Provision(r) ==
  /\ pc[r] = "provision" /\ Running(Inst(r))
  /\ Goto(r, "ok")
  /\ UNCHANGED <<docker, file, job, port, ghosts>>

-----------------------------------------------------------------------------
(* down, stop, start, restart, clean *)

OfProject(r) == {i \in Instances : i[1] = job[r].project}

\* lifecycle_clean_prompt: at a terminal "y" goes on, anything else cancels.
\* With no terminal it goes on, which counts as consent.
CleanPrompt(r) ==
  /\ pc[r] = "prompt"
  /\ \E yes \in BOOLEAN :
       /\ consent' = [consent EXCEPT ![r] = yes]
       /\ Goto(r, IF yes THEN "act" ELSE "cancelled")
  /\ UNCHANGED <<docker, file, job, port, met, atBegin>>

\* lifecycle_check_existence: the project of a container, running or not.
CheckExistence(r) ==
  /\ pc[r] = "exists"
  /\ Goto(r, IF \E i \in OfProject(r) : Exists(i) THEN "act" ELSE "not found")
  /\ UNCHANGED <<docker, file, job, port, ghosts>>

\* What docker compose -p <project> <action> makes of the containers in S.
Removed(S) ==
  cont' = [i \in Instances |-> IF i \in S THEN NoContainer ELSE cont[i]]

Stopped(S) ==
  cont' = [i \in Instances |-> IF i \in S THEN [cont[i] EXCEPT !.bound = NoPort] ELSE cont[i]]

\* A start binds every container in S to a port that nobody else has.
Started(S) ==
  LET T    == {i \in S : Exists(i)}
      busy == Foreign \cup ({cont[i].bound : i \in Instances \ T} \ {NoPort})
  IN \E b \in [T -> FreePorts \cup Fixed] :
       /\ \A i \in T : /\ b[i] \notin busy
                       /\ b[i] \in (IF cont[i].port = Ephemeral THEN FreePorts
                                    ELSE {cont[i].port})
                       /\ \A j \in T \ {i} : b[i] # b[j]
       /\ cont' = [i \in Instances |->
                     IF i \in T THEN [cont[i] EXCEPT !.bound = b[i]] ELSE cont[i]]

\* clean is "down" with -v, which removes the volumes labelled with the
\* project after its containers.
Destroyed(V) == home' = [h \in Instances |-> IF h \in {HomeOf(i) : i \in V} THEN Nobody
                                             ELSE home[h]]

\* lifecycle_compose_action and lifecycle_announce.
Act(r) ==
  /\ pc[r] = "act" /\ ~job[r].dry
  /\ \/ job[r].verb = "down" /\ Removed(OfProject(r)) /\ UNCHANGED home
     \/ job[r].verb = "clean" /\ Removed(OfProject(r)) /\ Destroyed(OfProject(r))
     \/ job[r].verb = "stop" /\ Stopped(OfProject(r)) /\ UNCHANGED home
     \/ /\ job[r].verb = "start" /\ UNCHANGED home
        /\ Started({i \in OfProject(r) : ~Running(i)})
     \/ job[r].verb = "restart" /\ Started(OfProject(r)) /\ UNCHANGED home
  /\ Goto(r, "ok")
  /\ UNCHANGED <<file, job, port, ghosts>>

\* docker does part of it, or nothing, and fails.
ActFails(r) ==
  /\ pc[r] = "act" /\ ~job[r].dry
  /\ \E S \in SUBSET OfProject(r) :
       \/ job[r].verb \in {"down", "clean"} /\ Removed(S) /\ UNCHANGED home
       \/ /\ job[r].verb = "clean" /\ Removed(OfProject(r)) /\ Destroyed(S)
       \/ job[r].verb \in {"stop", "restart"} /\ Stopped(S) /\ UNCHANGED home
       \/ /\ job[r].verb = "start" /\ UNCHANGED home
          /\ Started({i \in S : ~Running(i)})
  /\ Goto(r, "failed")
  /\ UNCHANGED <<file, job, port, ghosts>>

\* The dry-run executor prints the command; the hooks that follow are left
\* out or only say what they would do.
Would(r) ==
  /\ pc[r] \in {"compose", "act"} /\ job[r].dry
  /\ Goto(r, "ok")
  /\ UNCHANGED <<docker, file, job, port, ghosts>>

-----------------------------------------------------------------------------
\* A command that only asks docker fails, the proxy cannot be set up, the files
\* cannot be synced, and the error flies to the CLI's boundary; or Ctrl-C or
\* SIGKILL.  What was done stays done.
Stops(r) ==
  /\ Active(r)
  /\ Goto(r, "failed")
  /\ UNCHANGED <<docker, file, job, port, ghosts>>

Up(r) ==
  \/ Collision(r) \/ WriteFiles(r) \/ AllocatePort(r)
  \/ ComposeUp(r) \/ ComposeUpNoPort(r) \/ ComposeUpFails(r)
  \/ Resolve(r) \/ Provision(r)

Lifecycle(r) ==
  CleanPrompt(r) \/ CheckExistence(r) \/ Act(r) \/ ActFails(r)

Next ==
  \E r \in Runs :
    \/ \E c \in Commands : Begin(r, c)
    \/ Up(r) \/ Lifecycle(r) \/ Would(r) \/ Stops(r)

Spec == Init /\ [][Next]_vars

-----------------------------------------------------------------------------
(* Properties *)

Steps(r) == pc'[r] # pc[r]

\* The home an instance mounts goes away only with a clean of its own project
\* that was forced, confirmed, or had nobody to ask; down, stop, restart and
\* up --recreate keep it whatever else is running
\* (docs/sandbox-lifecycle.md, the isolation guarantee and "down").
HomesSurvive ==
  [][\A i \in Instances :
       home[HomeOf(i)] # Nobody /\ home'[HomeOf(i)] # home[HomeOf(i)] =>
         \E r \in Runs : /\ Steps(r) /\ pc[r] = "act" /\ consent[r]
                         /\ job[r].verb = "clean" /\ job[r].project = i[1]]_vars

\* up without --recreate changes a container only if an overlapping process made
\* it after up began: what was there before, running or not, it leaves alone,
\* although others may work on the instance between its look and its act.
NoUnaskedReplacement ==
  [][\A r \in Runs :
       /\ Steps(r) /\ pc[r] = "compose" /\ ~job[r].recreate /\ Exists(Inst(r))
       /\ cont'[Inst(r)] # cont[Inst(r)]
       => cont[Inst(r)].by \in met[r] \ {atBegin[r]}]_vars

\* A container's limits were asked for by the process that made it or by one
\* that ran at the same time, never left over from an earlier one.  Whoever asks
\* for none applies none, and whoever asks for some applies some, also where
\* another process has truncated the overlay or written over it.
LimitsFromOverlappingRun ==
  \A i \in Instances : Exists(i) =>
    LET l == cont[i].limits
        r == cont[i].by
    IN IF job[r].limits = NoLimits THEN l = NoLimits
       ELSE l # NoLimits /\ \E s \in {r} \cup met[r] : job[s].limits = l

\* The processes that a process has met on its own project.
Peers(r) == {s \in met[r] : job[s].project = job[r].project}

OverlayIsOwn(r) ==
  job[r].limits = NoLimits \/ \A s \in met[r] : job[s].limits = NoLimits

\* What up announces is so, whatever runs at the same time on other projects and
\* shares the directory and the docker daemon: its container runs on the host
\* port announced and has a home, and it has the limits asked for as long as no
\* overlapping process writes the one overlay as well.
AsAnnounced ==
  [][\A r \in Runs :
       Steps(r) /\ pc[r] = "provision" /\ pc'[r] = "ok" /\ Peers(r) = {} =>
         LET c == cont[Inst(r)] IN
         /\ Running(Inst(r)) /\ port[r] \in {c.bound, "?"}
         /\ home[HomeOf(Inst(r))] # Nobody
         /\ OverlayIsOwn(r) => c.limits = job[r].limits]_vars

\* README's "Zero-Conflict Guarantee": a project with a name of its own never
\* fails for a port the user did not name, whatever starts at the same time.
ZeroConflict ==
  \A r \in Runs :
    pc[r] = "port taken" =>
      job[r].project = DefaultProject \/ job[r].spelled # "absent"
=============================================================================
