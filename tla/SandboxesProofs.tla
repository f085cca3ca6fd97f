---------------------------- MODULE SandboxesProofs ----------------------------
(***************************************************************************)
(* What overlapping processes cannot do to each other, for any number of   *)
(* processes, projects, tags and command lines.                            *)
(*                                                                         *)
(* Two ideas carry the proofs.  A process makes a container in one step    *)
(* only, so who made a container is past that step and never makes it      *)
(* again (Makers).  And two processes that are active together have met    *)
(* (Met), so what a process that met nobody has looked at is still as it   *)
(* was.                                                                    *)
(***************************************************************************)
EXTENDS Sandboxes, FiniteSetTheorems, TLAPS

Writing == {"main", "main text", "git", "git text", "limits", "limits text"}
Upping  == {"collision"} \cup Writing \cup {"ports", "compose"}
Early   == {"idle"} \cup Upping
Labels  == Early \cup {"resolve", "provision", "prompt", "exists", "act"} \cup Ended

Ports == Fixed \cup FreePorts \cup {Ephemeral, NoPort, "?"}
Cont  == [by : Runs \cup {Nobody}, port : Ports, bound : Ports, limits : Limits \cup {NoLimits}]
Texts == [tag : Tags \cup {""}, state : {"missing", "empty", "mixed", "whole"},
          limits : Limits \cup {NoLimits}]

Types ==
  /\ cont \in [Instances -> Cont]
  /\ home \in [Instances -> Runs \cup {Nobody}]
  /\ file \in [Files -> Texts]
  /\ job \in [Runs -> Commands \cup {NoCommand}]
  /\ pc \in [Runs -> Labels]
  /\ port \in [Runs -> Ports]
  /\ consent \in [Runs -> BOOLEAN]
  /\ met \in [Runs -> SUBSET Runs]
  /\ atBegin \in [Runs -> Runs \cup {Nobody}]
  /\ \A r \in Runs : pc[r] # "idle" => job[r] \in Commands

\* A step of a process that has begun.
Works(r) == Up(r) \/ Lifecycle(r) \/ Would(r) \/ Stops(r)

-----------------------------------------------------------------------------
(* What one step can do *)

\* The command line of a process at work.
LEMMA JobIs ==
  ASSUME Types, NEW r \in Runs, pc[r] # "idle"
  PROVE  /\ job[r] \in Commands /\ job[r].project \in Projects /\ job[r].tag \in Tags
         /\ job[r].limits \in Limits \cup {NoLimits} /\ job[r].port \in Fixed
         /\ job[r].verb \in Verbs /\ job[r].dry \in BOOLEAN /\ job[r].recreate \in BOOLEAN
         /\ Inst(r) \in Instances /\ HomeOf(Inst(r)) = Inst(r)
         /\ Inst(r)[1] = job[r].project /\ Inst(r)[2] = job[r].tag
BY SandboxesAssumption DEF Types, Command, Inst, Instances, HomeOf

\* A process moves alone, forward, and through "compose" once.
LEMMA Moves ==
  ASSUME Types, NEW r \in Runs, Works(r)
  PROVE  /\ Active(r) /\ pc[r] # "idle"
         /\ pc' = [pc EXCEPT ![r] = pc'[r]]
         /\ job' = job /\ met' = met /\ atBegin' = atBegin
         /\ pc'[r] \in Labels \ {"idle", "collision"}
         /\ pc'[r] \in Early => pc[r] \in Upping \ {"compose"}
         /\ pc'[r] \in {"resolve", "provision"} => pc[r] \in {"compose", "resolve"}
<1>1. pc[r] \in Labels
  BY DEF Types
<1>2. DOMAIN pc = Runs
  BY DEF Types
<1> USE DEF Goto, ghosts, docker, Active, Ended, Labels, Early, Upping, Writing
<1>3. CASE Collision(r) \/ AllocatePort(r) \/ Resolve(r) \/ Provision(r)
  BY <1>2, <1>3 DEF Collision, AllocatePort, Resolve, Provision
<1>4. CASE WriteFiles(r)
  BY <1>2, <1>4 DEF WriteFiles, Open, Close, AfterMain, AfterGit
<1>5. CASE ComposeUp(r) \/ ComposeUpNoPort(r) \/ ComposeUpFails(r)
  BY <1>2, <1>5 DEF ComposeUp, ComposeUpNoPort, ComposeUpFails
<1>6. CASE Lifecycle(r)
  BY <1>2, <1>6 DEF Lifecycle, CleanPrompt, CheckExistence, Act, ActFails
<1>7. CASE Would(r) \/ Stops(r)
  BY <1>1, <1>2, <1>7 DEF Would, Stops
<1> QED
  BY <1>3, <1>4, <1>5, <1>6, <1>7 DEF Works, Up

\* What the container of an instance becomes: it stays one maker's with the same
\* limits, goes away, or is made by compose from the files as they are.
LEMMA ContainerMoves ==
  ASSUME Types, NEW r \in Runs, Works(r), NEW i \in Instances
  PROVE  /\ cont'[i] \in Cont
         /\ \/ cont'[i].by = cont[i].by /\ cont'[i].limits = cont[i].limits
            \/ cont'[i] = NoContainer
            \/ /\ pc[r] = "compose" /\ ~job[r].dry /\ Readable(r) /\ i = Inst(r)
               /\ cont'[i].by = r /\ cont'[i].limits = LimitsRead(r)
<1>1. cont[i] \in Cont /\ NoContainer \in Cont
  BY DEF Types, Cont, NoContainer, Ports
<1>2. CASE UNCHANGED cont
  BY <1>1, <1>2
<1>3. ASSUME pc[r] = "compose", ~job[r].dry, Readable(r), NEW b \in Ports,
             cont' = [cont EXCEPT ![Inst(r)] = Wanted(r, b)]
      PROVE  /\ cont'[i] \in Cont
             /\ \/ cont'[i].by = cont[i].by /\ cont'[i].limits = cont[i].limits
                \/ i = Inst(r) /\ cont'[i].by = r /\ cont'[i].limits = LimitsRead(r)
  <2>1. Inst(r) \in Instances /\ port[r] \in Ports
    BY <1>3, JobIs DEF Types
  <2>2. LimitsRead(r) \in Limits \cup {NoLimits}
    BY <1>3, SandboxesAssumption DEF LimitsRead, Types, Texts, Files
  <2>3. CASE i # Inst(r)
    BY <1>1, <1>3, <2>1, <2>3 DEF Types
  <2>4. CASE i = Inst(r)
    <3>1. cont'[i] = Wanted(r, b)
      BY <1>3, <2>1, <2>4 DEF Types
    <3>2. CASE Wanted(r, b) = [cont[i] EXCEPT !.bound = IF @ = NoPort THEN b ELSE @]
      BY <1>1, <3>1, <3>2 DEF Cont
    <3>3. CASE Wanted(r, b) = [by |-> r, port |-> port[r], bound |-> b, limits |-> LimitsRead(r)]
      BY <2>1, <2>2, <2>4, <3>1, <3>3 DEF Cont
    <3> QED
      BY <2>4, <3>2, <3>3 DEF Wanted
  <2> QED
    BY <2>3, <2>4
<1>4. CASE ComposeUp(r) \/ ComposeUpNoPort(r) \/ ComposeUpFails(r)
  <2>1. \A b \in Bindable(port[r], Inst(r)) : b \in Ports
    BY DEF Bindable, Types, Ports
  <2>2. NoPort \in Ports
    BY DEF Ports
  <2> QED
    BY <1>2, <1>3, <1>4, <2>1, <2>2 DEF ComposeUp, ComposeUpNoPort, ComposeUpFails, docker
<1>5. ASSUME NEW S, Removed(S)
      PROVE  cont'[i] = cont[i] \/ cont'[i] = NoContainer
  BY <1>5 DEF Removed
<1>6. ASSUME NEW S, Stopped(S)
      PROVE  cont'[i] \in Cont /\ cont'[i].by = cont[i].by /\ cont'[i].limits = cont[i].limits
  <2>1. cont'[i] = cont[i] \/ cont'[i] = [cont[i] EXCEPT !.bound = NoPort]
    BY <1>6 DEF Stopped
  <2>2. NoPort \in Ports
    BY DEF Ports
  <2> QED
    BY <1>1, <2>1, <2>2 DEF Cont
<1>7. ASSUME NEW S, Started(S)
      PROVE  cont'[i] \in Cont /\ cont'[i].by = cont[i].by /\ cont'[i].limits = cont[i].limits
  <2>1. cont'[i] = cont[i] \/ \E b \in FreePorts \cup Fixed : cont'[i] = [cont[i] EXCEPT !.bound = b]
    BY <1>7 DEF Started
  <2>2. FreePorts \cup Fixed \subseteq Ports
    BY DEF Ports
  <2> QED
    BY <1>1, <2>1, <2>2 DEF Cont
<1>8. CASE Act(r) \/ ActFails(r)
  <2>1. \E S : Removed(S) \/ Stopped(S) \/ Started(S)
    BY <1>8 DEF Act, ActFails
  <2> QED
    BY <1>1, <1>5, <1>6, <1>7, <2>1
<1> QED
  BY <1>2, <1>4, <1>8
     DEF Works, Up, Lifecycle, Collision, WriteFiles, Open, Close, AllocatePort, Resolve,
         Provision, CleanPrompt, CheckExistence, Would, Stops, docker

\* A home volume is made by compose where there is none, and goes away with a
\* clean of its project.
LEMMA HomeMoves ==
  ASSUME Types, NEW r \in Runs, Works(r), NEW h \in Instances
  PROVE  /\ home'[h] \in Runs \cup {Nobody}
         /\ \/ home'[h] = home[h]
            \/ home[h] = Nobody /\ home'[h] = r
            \/ pc[r] = "act" /\ job[r].verb = "clean" /\ h[1] = job[r].project
<1>0. home[h] \in Runs \cup {Nobody}
  BY DEF Types
<1>1. CASE UNCHANGED home
  BY <1>0, <1>1
<1>2. ASSUME MakeHome(r), pc[r] = "compose"
      PROVE  home'[h] = home[h] \/ (home[h] = Nobody /\ home'[h] = r)
  <2>1. Inst(r) \in Instances /\ HomeOf(Inst(r)) = Inst(r)
    BY <1>2, JobIs
  <2> QED
    BY <1>2, <2>1 DEF MakeHome, Types
<1>3. CASE ComposeUp(r) \/ ComposeUpNoPort(r) \/ ComposeUpFails(r)
  BY <1>0, <1>1, <1>2, <1>3 DEF ComposeUp, ComposeUpNoPort, ComposeUpFails, docker
<1>4. ASSUME NEW V \in SUBSET OfProject(r), Destroyed(V)
      PROVE  home'[h] = home[h] \/ (home'[h] = Nobody /\ h[1] = job[r].project)
  BY <1>4 DEF Destroyed, OfProject, HomeOf
<1>5. CASE Act(r) \/ ActFails(r)
  <2>1. CASE \E V \in SUBSET OfProject(r) : Destroyed(V) /\ job[r].verb = "clean"
    BY <1>0, <1>4, <1>5, <2>1 DEF Act, ActFails
  <2>2. CASE UNCHANGED home
    BY <1>1, <2>2
  <2> QED
    BY <1>5, <2>1, <2>2 DEF Act, ActFails
<1> QED
  BY <1>1, <1>2, <1>3, <1>5
     DEF Works, Up, Lifecycle, Collision, WriteFiles, Open, Close, AllocatePort, Resolve,
         Provision, CleanPrompt, CheckExistence, Would, Stops, docker

\* A process leaves alone the containers and the homes of other projects.
LEMMA ElsewhereStays ==
  ASSUME Types, NEW r \in Runs, Works(r), NEW i \in Instances, i[1] # job[r].project
  PROVE  /\ cont'[i] = cont[i]
         /\ home[i] # Nobody => home'[i] # Nobody
<1> SUFFICES cont'[i] = cont[i]
  BY HomeMoves
<1>0. cont \in [Instances -> Cont]
  BY DEF Types
<1>1. i # Inst(r) /\ Inst(r) \in Instances
  BY Moves, JobIs
<1>2. CASE UNCHANGED cont
  BY <1>2
<1>3. ASSUME NEW b, cont' = [cont EXCEPT ![Inst(r)] = Wanted(r, b)]
      PROVE  cont'[i] = cont[i]
  BY <1>0, <1>1, <1>3
<1>4. CASE ComposeUp(r) \/ ComposeUpNoPort(r) \/ ComposeUpFails(r)
  BY <1>2, <1>3, <1>4 DEF ComposeUp, ComposeUpNoPort, ComposeUpFails, docker
<1>5. ASSUME NEW S, S \subseteq OfProject(r), Removed(S) \/ Stopped(S) \/ Started(S)
      PROVE  cont'[i] = cont[i]
  BY <1>5 DEF Removed, Stopped, Started, OfProject
<1>6. CASE Act(r) \/ ActFails(r)
  <2>1. \A S : S \subseteq OfProject(r) => {j \in S : ~Running(j)} \subseteq OfProject(r)
    OBVIOUS
  <2>2. \E S : S \subseteq OfProject(r) /\ (Removed(S) \/ Stopped(S) \/ Started(S))
    BY <1>6, <2>1 DEF Act, ActFails
  <2> QED
    BY <1>5, <2>2
<1> QED
  BY <1>2, <1>4, <1>6
     DEF Works, Up, Lifecycle, Collision, WriteFiles, Open, Close, AllocatePort, Resolve,
         Provision, CleanPrompt, CheckExistence, Would, Stops, docker

\* The resources overlay is truncated, or written by who has truncated it, with
\* the limits of that process or, behind its own, with those that were there.
LEMMA FileMoves ==
  ASSUME Types, NEW r \in Runs, Works(r)
  PROVE  /\ file' \in [Files -> Texts]
         /\ \/ file'["resources"] = file["resources"]
            \/ file'["resources"].state = "empty"
            \/ /\ pc[r] = "limits text"
               /\ \/ file'["resources"].limits = job[r].limits
                  \/ /\ file["resources"].state # "empty"
                     /\ file'["resources"].limits = file["resources"].limits
         /\ pc'[r] = "limits" => job[r].limits # NoLimits
         /\ pc'[r] = "limits text" =>
              pc[r] = "limits" /\ file'["resources"].state = "empty"
         /\ pc'[r] = "ports" => pc[r] = "limits text" \/ job[r].limits = NoLimits
         /\ pc'[r] = "compose" => pc[r] = "ports" /\ file' = file
<1>1. file \in [Files -> Texts] /\ "resources" \in Files /\ "git" \in Files
  BY DEF Types, Files
<1>2. Tags \subseteq Files /\ "resources" \notin Tags
  BY SandboxesAssumption DEF Files
<1> USE DEF Goto, ghosts, docker
<1>3. CASE WriteFiles(r)
  <2>1. pc[r] # "idle"
    BY <1>3, Moves DEF Works, Up
  <2>2. job[r].tag \in Tags /\ job[r].limits \in Limits \cup {NoLimits}
    BY <2>1, JobIs
  <2>3. ASSUME NEW f \in Files, NEW l \in Limits \cup {NoLimits},
               NEW text \in Written(file[f], Text(job[r].tag, "whole", l))
        PROVE  /\ text \in Texts
               /\ text.limits = l \/ (file[f].state # "empty" /\ text.limits = file[f].limits)
    <3>1. file[f] \in Texts
      BY <1>1
    <3>2. \/ text = Text(job[r].tag, "whole", l)
          \/ /\ file[f].state # "empty"
             /\ \E state \in {"whole", "mixed"}, limits \in {l, file[f].limits} :
                  text = Text(job[r].tag, state, limits)
      BY <2>3 DEF Written, Text
    <3>3. CASE text = Text(job[r].tag, "whole", l)
      BY <2>2, <2>3, <3>3 DEF Text, Texts
    <3>4. ASSUME file[f].state # "empty", NEW state \in {"whole", "mixed"},
                 NEW limits \in {l, file[f].limits}, text = Text(job[r].tag, state, limits)
          PROVE  /\ text \in Texts
                 /\ text.limits = l \/ text.limits = file[f].limits
      BY <2>2, <2>3, <3>1, <3>4 DEF Text, Texts
    <3> QED
      BY <3>2, <3>3, <3>4 DEF Text
  <2>4. Text("", "empty", NoLimits) \in Texts /\ Text("", "empty", NoLimits).state = "empty"
    BY DEF Text, Texts
  <2>5. DOMAIN pc = Runs
    BY DEF Types
  <2>6. job[r].tag \in Files /\ job[r].tag # "resources" /\ "git" # "resources"
    BY <1>2, <2>2
  <2>7. \/ AfterGit(r) = "ports" /\ job[r].limits = NoLimits
        \/ AfterGit(r) = "limits" /\ job[r].limits # NoLimits
    BY DEF AfterGit
  <2>8. AfterMain(r) = "git" \/ AfterMain(r) = AfterGit(r)
    BY DEF AfterMain
  <2>9. CASE Open(r, "main", job[r].tag, "main text")
    BY <1>1, <2>4, <2>5, <2>6, <2>9 DEF Open
  <2>10. CASE Close(r, "main text", job[r].tag, NoLimits, AfterMain(r))
    <3>1. PICK text \in Written(file[job[r].tag], Text(job[r].tag, "whole", NoLimits)) :
            file' = [file EXCEPT ![job[r].tag] = text]
      BY <2>10 DEF Close
    <3>2. text \in Texts
      BY <2>3, <2>6
    <3>3. file' \in [Files -> Texts] /\ file'["resources"] = file["resources"]
      BY <1>1, <2>6, <3>1, <3>2
    <3> QED
      BY <2>5, <2>7, <2>8, <2>10, <3>3 DEF Close
  <2>11. CASE Open(r, "git", "git", "git text")
    BY <1>1, <2>4, <2>5, <2>11 DEF Open
  <2>12. CASE Close(r, "git text", "git", NoLimits, AfterGit(r))
    <3>1. PICK text \in Written(file["git"], Text(job[r].tag, "whole", NoLimits)) :
            file' = [file EXCEPT !["git"] = text]
      BY <2>12 DEF Close
    <3>2. text \in Texts
      BY <1>1, <2>3
    <3>3. file' \in [Files -> Texts] /\ file'["resources"] = file["resources"]
      BY <1>1, <2>6, <3>1, <3>2
    <3> QED
      BY <2>5, <2>7, <2>12, <3>3 DEF Close
  <2>13. CASE Open(r, "limits", "resources", "limits text")
    <3>1. file' = [file EXCEPT !["resources"] = Text("", "empty", NoLimits)]
      BY <2>13 DEF Open
    <3>2. file' \in [Files -> Texts] /\ file'["resources"].state = "empty"
      BY <1>1, <2>4, <3>1
    <3> QED
      BY <2>5, <2>13, <3>2 DEF Open
  <2>14. CASE Close(r, "limits text", "resources", job[r].limits, "ports")
    <3>1. PICK text \in Written(file["resources"], Text(job[r].tag, "whole", job[r].limits)) :
            file' = [file EXCEPT !["resources"] = text]
      BY <2>14 DEF Close
    <3>2. /\ text \in Texts
          /\ \/ text.limits = job[r].limits
             \/ file["resources"].state # "empty" /\ text.limits = file["resources"].limits
      BY <1>1, <2>2, <2>3
    <3>3. file' \in [Files -> Texts] /\ file'["resources"] = text
      BY <1>1, <3>1, <3>2
    <3> QED
      BY <2>5, <2>14, <3>2, <3>3 DEF Close
  <2> QED
    BY <1>3, <2>14, <2>9, <2>10, <2>11, <2>12, <2>13 DEF WriteFiles
<1>4. CASE AllocatePort(r)
  BY <1>1, <1>4 DEF AllocatePort, Types
<1>5. CASE Collision(r) \/ Resolve(r) \/ Provision(r)
  BY <1>1, <1>5 DEF Collision, Resolve, Provision, Types
<1>6. CASE ComposeUp(r) \/ ComposeUpNoPort(r) \/ ComposeUpFails(r)
  BY <1>1, <1>6 DEF ComposeUp, ComposeUpNoPort, ComposeUpFails, Types
<1>7. CASE Lifecycle(r)
  BY <1>1, <1>7 DEF Lifecycle, CleanPrompt, CheckExistence, Act, ActFails, Types
<1>8. CASE Would(r) \/ Stops(r)
  BY <1>1, <1>8 DEF Would, Stops, Types
<1> QED
  BY <1>3, <1>4, <1>5, <1>6, <1>7, <1>8 DEF Works, Up

\* A process begins.
LEMMA Begins ==
  ASSUME Types, NEW r \in Runs, NEW c \in Commands, Begin(r, c)
  PROVE  /\ pc[r] = "idle" /\ job' = [job EXCEPT ![r] = c]
         /\ pc' = [pc EXCEPT ![r] = pc'[r]]
         /\ pc'[r] \in {"main", "collision", "prompt", "exists", "act"}
         /\ pc'[r] = "main" => c.dry
         /\ pc'[r] = "exists" => c.verb = "down"
         /\ pc'[r] = "act" /\ c.verb = "clean" => c.force
         /\ cont' = cont /\ home' = home /\ file' = file /\ port' = port
         /\ \A s \in Runs : /\ Active(s) => met'[s] = met[s] \cup {r}
                            /\ s # r /\ ~Active(s) => met'[s] = met[s]
         /\ met'[r] = {o \in Runs : Active(o)}
<1>1. ~Active(r)
  BY DEF Begin, Active
<1>2. pc[r] = "idle" /\ DOMAIN pc = Runs
  BY DEF Begin, Types
<1>3. pc'[r] = FirstStep(c) /\ pc' = [pc EXCEPT ![r] = pc'[r]]
  BY <1>2 DEF Begin, Goto
<1>4. \A s \in Runs : met'[s] = IF s = r THEN {o \in Runs : Active(o)}
                                ELSE IF Active(s) THEN met[s] \cup {r} ELSE met[s]
  BY DEF Begin
<1>5. c.dry \in BOOLEAN /\ c.force \in BOOLEAN
  BY SandboxesAssumption DEF Command
<1> QED
  BY <1>1, <1>2, <1>3, <1>4, <1>5 DEF Begin, FirstStep, docker

\* A step is one of these.
LEMMA StepIs ==
  ASSUME [Next]_vars
  PROVE  \/ UNCHANGED vars
         \/ \E r \in Runs : \E c \in Commands : Begin(r, c)
         \/ \E r \in Runs : Works(r)
BY DEF Next, Works

LEMMA TypesInit == Init => Types
<1> SUFFICES ASSUME Init PROVE Types
  OBVIOUS
<1>1. NoContainer \in Cont /\ Text("", "missing", NoLimits) \in Texts
  BY DEF NoContainer, Cont, Ports, Text, Texts
<1>2. NoPort \in Ports /\ "idle" \in Labels
  BY DEF Ports, Labels, Early
<1> QED
  BY <1>1, <1>2 DEF Init, Types

LEMMA TypesKept == Types /\ [Next]_vars => Types'
<1> SUFFICES ASSUME Types, [Next]_vars PROVE Types'
  OBVIOUS
<1>1. CASE UNCHANGED vars
  BY <1>1 DEF Types, vars, ghosts
<1>2. ASSUME NEW r \in Runs, NEW c \in Commands, Begin(r, c)
      PROVE  Types'
  <2>1. cont[<<c.project, c.tag>>].by \in Runs \cup {Nobody} /\ c.force \in BOOLEAN
    BY SandboxesAssumption DEF Types, Command, Instances, Cont
  <2>2. pc'[r] \in Labels
    BY <1>2, Begins DEF Labels, Early, Upping, Writing
  <2>3. met' \in [Runs -> SUBSET Runs]
    BY <1>2 DEF Begin, Types
  <2>4. consent' \in [Runs -> BOOLEAN]
    BY <1>2 DEF Begin, Types
  <2>5. atBegin' \in [Runs -> Runs \cup {Nobody}]
    BY <1>2, <2>1 DEF Begin, Types
  <2>6. job' \in [Runs -> Commands \cup {NoCommand}] /\ pc' \in [Runs -> Labels]
    BY <1>2, <2>2, Begins DEF Types
  <2> QED
    BY <1>2, <2>3, <2>4, <2>5, <2>6, Begins DEF Types
<1>3. ASSUME NEW r \in Runs, Works(r)
      PROVE  Types'
  <2>1. cont' \in [Instances -> Cont]
    <3>1. cont' = [i \in Instances |-> cont'[i]]
      BY <1>3
         DEF Works, Up, Lifecycle, Collision, WriteFiles, Open, Close, AllocatePort, Resolve,
             Provision, CleanPrompt, CheckExistence, Would, Stops, docker, ComposeUp,
             ComposeUpNoPort, ComposeUpFails, Act, ActFails, Removed, Stopped, Started, Types
    <3> QED
      BY <1>3, <3>1, ContainerMoves
  <2>2. home' \in [Instances -> Runs \cup {Nobody}]
    <3>1. home' = [i \in Instances |-> home'[i]]
      BY <1>3
         DEF Works, Up, Lifecycle, Collision, WriteFiles, Open, Close, AllocatePort, Resolve,
             Provision, CleanPrompt, CheckExistence, Would, Stops, docker, ComposeUp,
             ComposeUpNoPort, ComposeUpFails, Act, ActFails, Destroyed, MakeHome, Types
    <3> QED
      BY <1>3, <3>1, HomeMoves
  <2>3. file' \in [Files -> Texts]
    BY <1>3, FileMoves
  <2>4. port' \in [Runs -> Ports]
    <3>1. CASE UNCHANGED port
      BY <3>1 DEF Types
    <3>2. CASE AllocatePort(r)
      <4>1. pc[r] # "idle"
        BY <1>3, Moves
      <4>2. Allocated(r) \in Ports
        BY <4>1, JobIs DEF Allocated, Ports
      <4> QED
        BY <3>2, <4>2 DEF AllocatePort, Types
    <3>3. CASE Resolve(r)
      <4>1. pc[r] # "idle"
        BY <1>3, Moves
      <4>2. cont[Inst(r)].bound \in Ports /\ "?" \in Ports
        BY <4>1, JobIs DEF Types, Cont, Ports
      <4> QED
        BY <3>3, <4>2 DEF Resolve, Types
    <3> QED
      BY <1>3, <3>1, <3>2, <3>3
         DEF Works, Up, Lifecycle, Collision, WriteFiles, Open, Close, Provision, CleanPrompt,
             CheckExistence, Would, Stops, ComposeUp, ComposeUpNoPort, ComposeUpFails, Act, ActFails
  <2>5. consent' \in [Runs -> BOOLEAN]
    BY <1>3
       DEF Works, Up, Lifecycle, Collision, WriteFiles, Open, Close, AllocatePort, Resolve,
           Provision, CleanPrompt, CheckExistence, Would, Stops, ComposeUp, ComposeUpNoPort,
           ComposeUpFails, Act, ActFails, Types, ghosts
  <2>6. pc' \in [Runs -> Labels] /\ UNCHANGED <<job, met, atBegin>>
        /\ \A s \in Runs : pc'[s] # "idle" => pc[s] # "idle"
    BY <1>3, Moves DEF Types
  <2> QED
    BY <2>1, <2>2, <2>3, <2>4, <2>5, <2>6 DEF Types
<1> QED
  BY <1>1, <1>2, <1>3, StepIs

-----------------------------------------------------------------------------
(* The invariants *)

\* Who made a container will not make one again.
Makers ==
  /\ \A i \in Instances : cont[i].by # Nobody => pc[cont[i].by] \notin Early
  /\ \A r \in Runs : atBegin[r] # Nobody => pc[atBegin[r]] \notin Early

\* A clean that acts may.
Consented ==
  \A r \in Runs :
    /\ pc[r] = "act" /\ job[r].verb = "clean" => consent[r]
    /\ pc[r] = "exists" => job[r].verb # "clean"

\* Behind the look for collisions there is only what somebody has made meanwhile.
Left ==
  \A r \in Runs :
    /\ pc[r] \in Upping \ {"collision"} /\ ~job[r].dry /\ ~job[r].recreate
    /\ Exists(Inst(r))
    => cont[Inst(r)].by \in met[r] \ {atBegin[r]}

\* Processes that are active together have met.
Met ==
  \A r, s \in Runs :
    /\ r # s /\ Active(r) /\ Active(s) => s \in met[r]
    /\ s \in met[r] => pc[s] # "idle" /\ s # r

\* The overlay that a process has truncated is empty, or it has limits that the
\* process asked for or one it has met.
OverlayOf(r) ==
  \/ file["resources"].state = "empty"
  \/ /\ file["resources"].limits # NoLimits
     /\ \E s \in {r} \cup met[r] : job[s].limits = file["resources"].limits

Overlay ==
  \A r \in Runs :
    /\ pc[r] \in {"limits", "limits text"} => job[r].limits # NoLimits
    /\ pc[r] \in {"limits text", "ports", "compose"} /\ job[r].limits # NoLimits
         => OverlayOf(r)

\* A container has the port it is configured with, or one that docker chose.
Published ==
  /\ \A i \in Instances :
       Running(i) => cont[i].port = Ephemeral \/ cont[i].bound = cont[i].port
  /\ \A r \in Runs : pc[r] = "compose" => port[r] \in Fixed \cup {Ephemeral}

\* What an up has made stays so while nobody else works on its project.
Alone ==
  \A r \in Runs :
    pc[r] \in {"resolve", "provision"} /\ Peers(r) = {} =>
      /\ Running(Inst(r)) /\ (OverlayIsOwn(r) => cont[Inst(r)].limits = job[r].limits)
      /\ home[Inst(r)] # Nobody
      /\ pc[r] = "provision" => port[r] \in {cont[Inst(r)].bound, "?"}

Inv ==
  /\ Types /\ Makers /\ Consented /\ Left /\ Met /\ Overlay
  /\ LimitsFromOverlappingRun /\ Published /\ Alone

LEMMA MakersKept == Types /\ Makers /\ [Next]_vars => Makers'
<1> SUFFICES ASSUME Types, Makers, [Next]_vars PROVE Makers'
  OBVIOUS
<1>1. CASE UNCHANGED vars
  BY <1>1 DEF Makers, vars, ghosts
<1>2. ASSUME NEW r \in Runs, NEW c \in Commands, Begin(r, c)
      PROVE  Makers'
  <2>1. pc[r] = "idle" /\ pc' = [pc EXCEPT ![r] = pc'[r]] /\ cont' = cont
    BY <1>2, Begins
  <2>2. \A s \in Runs : pc[s] \notin Early => pc'[s] \notin Early
    BY <2>1 DEF Types, Early
  <2>3. \A i \in Instances : cont[i].by \in Runs \cup {Nobody}
    BY DEF Types, Cont
  <2>4. <<c.project, c.tag>> \in Instances
    BY SandboxesAssumption DEF Command, Instances
  <2>5. \A s \in Runs : \/ atBegin'[s] = atBegin[s]
                        \/ atBegin'[s] = cont[<<c.project, c.tag>>].by
    BY <1>2 DEF Begin, Types
  <2>6. \A s \in Runs : atBegin[s] \in Runs \cup {Nobody}
    BY DEF Types
  <2>7. \A s \in Runs : atBegin'[s] # Nobody => pc'[atBegin'[s]] \notin Early
    BY <2>2, <2>3, <2>4, <2>5, <2>6 DEF Makers
  <2>8. \A i \in Instances : cont'[i].by # Nobody => pc'[cont'[i].by] \notin Early
    BY <2>1, <2>2, <2>3 DEF Makers
  <2> QED
    BY <2>7, <2>8 DEF Makers
<1>3. ASSUME NEW r \in Runs, Works(r)
      PROVE  Makers'
  <2>1. \A s \in Runs : pc[s] \notin Early => pc'[s] \notin Early
    BY <1>3, Moves DEF Types, Early
  <2>2. pc[r] = "compose" => pc'[r] \notin Early
    BY <1>3, Moves
  <2>3. \A i \in Instances : cont'[i].by # Nobody => pc'[cont'[i].by] \notin Early
    <3> SUFFICES ASSUME NEW i \in Instances, cont'[i].by # Nobody
                 PROVE  pc'[cont'[i].by] \notin Early
      OBVIOUS
    <3>1. cont[i].by \in Runs \cup {Nobody}
      BY DEF Types, Cont
    <3>2. \/ cont'[i].by = cont[i].by
          \/ pc[r] = "compose" /\ cont'[i].by = r
      BY <1>3, ContainerMoves DEF NoContainer
    <3> QED
      BY <2>1, <2>2, <3>1, <3>2 DEF Makers
  <2>4. atBegin' = atBegin
    BY <1>3, Moves
  <2>5. \A s \in Runs : atBegin[s] \in Runs \cup {Nobody}
    BY DEF Types
  <2> QED
    BY <2>1, <2>3, <2>4, <2>5 DEF Makers
<1> QED
  BY <1>1, <1>2, <1>3, StepIs

LEMMA ConsentedKept == Types /\ Consented /\ [Next]_vars => Consented'
<1> SUFFICES ASSUME Types, Consented, [Next]_vars PROVE Consented'
  OBVIOUS
<1>1. CASE UNCHANGED vars
  BY <1>1 DEF Consented, vars, ghosts
<1>2. ASSUME NEW r \in Runs, NEW c \in Commands, Begin(r, c)
      PROVE  Consented'
  <2>1. /\ pc' = [pc EXCEPT ![r] = pc'[r]] /\ job' = [job EXCEPT ![r] = c]
        /\ pc'[r] = "exists" => c.verb = "down"
        /\ pc'[r] = "act" /\ c.verb = "clean" => c.force
    BY <1>2, Begins
  <2>2. consent' = [consent EXCEPT ![r] = c.verb = "clean" /\ c.force]
    BY <1>2 DEF Begin
  <2> QED
    BY <2>1, <2>2 DEF Consented, Types
<1>3. ASSUME NEW r \in Runs, Works(r)
      PROVE  Consented'
  <2>1. pc' = [pc EXCEPT ![r] = pc'[r]] /\ job' = job
    BY <1>3, Moves
  <2>2. CASE CleanPrompt(r)
    <3>1. PICK yes \in BOOLEAN : /\ consent' = [consent EXCEPT ![r] = yes]
                                 /\ Goto(r, IF yes THEN "act" ELSE "cancelled")
      BY <2>2 DEF CleanPrompt
    <3>2. pc'[r] = (IF yes THEN "act" ELSE "cancelled")
      BY <3>1 DEF Goto, Types
    <3> QED
      BY <2>1, <3>1, <3>2 DEF Consented, Types
  <2>3. CASE CheckExistence(r)
    <3>1. consent' = consent /\ pc[r] = "exists" /\ pc'[r] \in {"act", "not found"}
      BY <2>3 DEF CheckExistence, Goto, ghosts, Types
    <3> QED
      BY <2>1, <3>1 DEF Consented, Types
  <2>4. CASE consent' = consent /\ pc'[r] \notin {"act", "exists"}
    BY <2>1, <2>4 DEF Consented, Types
  <2>5. CASE WriteFiles(r)
    BY <2>1, <2>4, <2>5 DEF WriteFiles, Open, Close, AfterMain, AfterGit, Goto, ghosts, Types
  <2>6. DOMAIN pc = Runs
    BY DEF Types
  <2> QED
    BY <1>3, <2>2, <2>3, <2>4, <2>5, <2>6
       DEF Works, Up, Lifecycle, Collision, AllocatePort, Resolve, Provision, Would, Stops,
           ComposeUp, ComposeUpNoPort, ComposeUpFails, Act, ActFails, Goto, ghosts
<1> QED
  BY <1>1, <1>2, <1>3, StepIs

LEMMA LeftKept == Types /\ Makers /\ Met /\ Left /\ [Next]_vars => Left'
<1> SUFFICES ASSUME Types, Makers, Met, Left, [Next]_vars PROVE Left'
  OBVIOUS
<1>1. CASE UNCHANGED vars
  BY <1>1 DEF Left, vars, ghosts, Inst, Exists
<1> SUFFICES ASSUME ~UNCHANGED vars,
                    NEW q \in Runs, pc'[q] \in Upping \ {"collision"}, ~job'[q].dry,
                    ~job'[q].recreate, cont'[Inst(q)'].by # Nobody
             PROVE  cont'[Inst(q)'].by \in met'[q] \ {atBegin'[q]}
  BY <1>1 DEF Left, Exists
<1>2. ASSUME NEW r \in Runs, NEW c \in Commands, Begin(r, c)
      PROVE  cont'[Inst(q)'].by \in met'[q] \ {atBegin'[q]}
  <2>1. /\ pc[r] = "idle" /\ job' = [job EXCEPT ![r] = c] /\ cont' = cont
        /\ pc' = [pc EXCEPT ![r] = pc'[r]]
        /\ pc'[r] \in {"main", "collision", "prompt", "exists", "act"}
        /\ pc'[r] = "main" => c.dry
        /\ \A s \in Runs : /\ Active(s) => met'[s] = met[s] \cup {r}
                           /\ s # r /\ ~Active(s) => met'[s] = met[s]
    BY <1>2, Begins
  <2>2. q # r
    BY <2>1 DEF Types, Upping, Writing
  <2>3. atBegin'[q] = atBegin[q] /\ met[q] \subseteq met'[q]
    BY <1>2, <2>1, <2>2 DEF Begin, Types
  <2>4. pc'[q] = pc[q] /\ job'[q] = job[q]
    BY <2>1, <2>2 DEF Types
  <2>5. Inst(q)' = Inst(q) /\ cont'[Inst(q)'] = cont[Inst(q)]
    BY <2>1, <2>4 DEF Inst
  <2>6. cont[Inst(q)].by \in met[q] \ {atBegin[q]}
    BY <2>4, <2>5 DEF Left, Exists
  <2> QED
    BY <2>3, <2>5, <2>6
<1>3. ASSUME NEW r \in Runs, Works(r)
      PROVE  cont'[Inst(q)'].by \in met'[q] \ {atBegin'[q]}
  <2>1. /\ pc' = [pc EXCEPT ![r] = pc'[r]] /\ job' = job /\ atBegin' = atBegin /\ met' = met
        /\ pc'[r] # "idle" /\ pc'[r] # "collision" /\ pc[r] # "idle" /\ Active(r)
        /\ pc'[r] \in Early => pc[r] \in Upping \ {"compose"}
    BY <1>3, Moves
  <2>2. pc[q] \in Upping /\ pc[q] # "idle" /\ Inst(q)' = Inst(q)
    BY <2>1 DEF Types, Early, Upping, Writing, Inst
  <2>3. Inst(q) \in Instances
    BY <2>2, JobIs
  <2>4. CASE pc[q] = "collision"
    <3>1. q = r
      BY <2>1, <2>4 DEF Types
    <3>2. Collision(r) \/ Stops(r)
      BY <1>3, <2>4, <3>1
         DEF Works, Up, Lifecycle, WriteFiles, Open, Close, AllocatePort, Resolve, Provision,
             CleanPrompt, CheckExistence, Would, ComposeUp, ComposeUpNoPort, ComposeUpFails,
             Act, ActFails
    <3>3. Collision(r) /\ ~Exists(Inst(r))
      BY <2>1, <3>1, <3>2 DEF Collision, Stops, Goto, Types, Upping, Writing
    <3>4. cont' = cont
      BY <3>3 DEF Collision, docker
    <3> QED
      BY <2>2, <3>1, <3>3, <3>4 DEF Exists
  <2>5. CASE pc[q] # "collision"
    <3>1. cont[Inst(q)].by # Nobody => cont[Inst(q)].by \in met[q] \ {atBegin[q]}
      BY <2>1, <2>2, <2>5 DEF Left, Exists
    <3>2. \/ cont'[Inst(q)].by = cont[Inst(q)].by
          \/ cont'[Inst(q)].by = Nobody
          \/ pc[r] = "compose" /\ cont'[Inst(q)].by = r
      BY <1>3, <2>3, ContainerMoves DEF NoContainer
    <3>3. CASE pc[r] = "compose" /\ cont'[Inst(q)].by = r
      <4>1. r # q
        BY <2>1, <3>3 DEF Types, Early
      <4>2. Active(q)
        BY <2>2 DEF Active, Ended, Upping, Writing
      <4>3. r \in met[q]
        BY <2>1, <4>1, <4>2 DEF Met
      <4>4. r # atBegin[q]
        <5>1. pc[r] \in Early /\ r # Nobody
          BY <3>3 DEF Early, Upping, Runs, Nobody
        <5> QED
          BY <5>1 DEF Makers
      <4> QED
        BY <2>1, <2>2, <3>3, <4>3, <4>4
    <3> QED
      BY <2>1, <2>2, <3>1, <3>2, <3>3
  <2> QED
    BY <2>4, <2>5
<1> QED
  BY <1>2, <1>3, StepIs

LEMMA MetKept == Types /\ Met /\ [Next]_vars => Met'
<1> SUFFICES ASSUME Types, Met, [Next]_vars PROVE Met'
  OBVIOUS
<1>1. CASE UNCHANGED vars
  BY <1>1 DEF Met, vars, ghosts, Active
<1>2. ASSUME NEW r \in Runs, NEW c \in Commands, Begin(r, c)
      PROVE  Met'
  <2>1. /\ pc[r] = "idle" /\ pc' = [pc EXCEPT ![r] = pc'[r]]
        /\ pc'[r] \in {"main", "collision", "prompt", "exists", "act"}
        /\ \A s \in Runs : /\ Active(s) => met'[s] = met[s] \cup {r}
                           /\ s # r /\ ~Active(s) => met'[s] = met[s]
        /\ met'[r] = {o \in Runs : Active(o)}
    BY <1>2, Begins
  <2>2. ~Active(r)
    BY <2>1 DEF Active
  <2>3. \A s \in Runs : s # r => pc'[s] = pc[s] /\ (Active(s)' <=> Active(s))
    BY <2>1 DEF Types, Active
  <2>4. \A s \in Runs : Active(s) => pc[s] # "idle"
    BY DEF Active
  <2>5. \A p, s \in Runs : p # s /\ Active(p)' /\ Active(s)' => s \in met'[p]
    BY <2>1, <2>2, <2>3 DEF Met, Active
  <2>6. \A p, s \in Runs : s \in met'[p] => pc'[s] # "idle" /\ s # p
    <3> SUFFICES ASSUME NEW p \in Runs, NEW s \in Runs, s \in met'[p]
                 PROVE  pc'[s] # "idle" /\ s # p
      OBVIOUS
    <3>1. CASE p = r
      BY <2>1, <2>2, <2>3, <2>4, <3>1
    <3>2. CASE p # r /\ s = r
      BY <2>1, <3>2
    <3>3. CASE p # r /\ s # r
      <4>1. s \in met[p]
        BY <2>1, <3>3
      <4> QED
        BY <2>3, <3>3, <4>1 DEF Met
    <3> QED
      BY <3>1, <3>2, <3>3
  <2> QED
    BY <2>5, <2>6 DEF Met
<1>3. ASSUME NEW r \in Runs, Works(r)
      PROVE  Met'
  <2>1. Active(r) /\ pc' = [pc EXCEPT ![r] = pc'[r]] /\ met' = met /\ pc'[r] # "idle"
    BY <1>3, Moves
  <2>2. \A s \in Runs : /\ Active(s)' => Active(s)
                        /\ pc[s] # "idle" => pc'[s] # "idle"
    BY <2>1 DEF Types, Active
  <2> QED
    BY <2>1, <2>2 DEF Met, Active
<1> QED
  BY <1>1, <1>2, <1>3, StepIs

LEMMA OverlayKept == Types /\ Met /\ Overlay /\ [Next]_vars => Overlay'
<1> SUFFICES ASSUME Types, Met, Overlay, [Next]_vars PROVE Overlay'
  OBVIOUS
<1>1. CASE UNCHANGED vars
  BY <1>1 DEF Overlay, OverlayOf, vars, ghosts
<1>2. ASSUME NEW r \in Runs, NEW c \in Commands, Begin(r, c)
      PROVE  Overlay'
  <2>1. /\ pc[r] = "idle" /\ pc' = [pc EXCEPT ![r] = pc'[r]] /\ job' = [job EXCEPT ![r] = c]
        /\ pc'[r] \in {"main", "collision", "prompt", "exists", "act"} /\ file' = file
        /\ \A s \in Runs : /\ Active(s) => met'[s] = met[s] \cup {r}
                           /\ s # r /\ ~Active(s) => met'[s] = met[s]
    BY <1>2, Begins
  <2>2. ASSUME NEW q \in Runs, q # r
        PROVE  pc'[q] = pc[q] /\ job'[q] = job[q] /\ (OverlayOf(q) => OverlayOf(q)')
    <3>1. pc'[q] = pc[q] /\ job'[q] = job[q] /\ met[q] \subseteq met'[q]
      BY <2>1, <2>2 DEF Types
    <3>2. \A s \in {q} \cup met[q] : job'[s] = job[s]
      BY <2>1, <2>2 DEF Types, Met
    <3> QED
      BY <2>1, <3>1, <3>2 DEF OverlayOf
  <2>3. pc'[r] \notin {"limits", "limits text", "ports", "compose"}
    BY <2>1
  <2> QED
    BY <2>2, <2>3 DEF Overlay
<1>3. ASSUME NEW r \in Runs, Works(r), NEW q \in Runs
      PROVE  /\ pc'[q] \in {"limits", "limits text"} => job'[q].limits # NoLimits
             /\ pc'[q] \in {"limits text", "ports", "compose"} /\ job'[q].limits # NoLimits
                  => OverlayOf(q)'
  <2>1. Active(r) /\ pc' = [pc EXCEPT ![r] = pc'[r]] /\ job' = job /\ met' = met
    BY <1>3, Moves
  <2>2. /\ \/ file'["resources"] = file["resources"]
           \/ file'["resources"].state = "empty"
           \/ /\ pc[r] = "limits text"
              /\ \/ file'["resources"].limits = job[r].limits
                 \/ /\ file["resources"].state # "empty"
                    /\ file'["resources"].limits = file["resources"].limits
        /\ pc'[r] = "limits" => job[r].limits # NoLimits
        /\ pc'[r] = "limits text" => pc[r] = "limits" /\ file'["resources"].state = "empty"
        /\ pc'[r] = "ports" => pc[r] = "limits text" \/ job[r].limits = NoLimits
        /\ pc'[r] = "compose" => pc[r] = "ports" /\ file' = file
    BY <1>3, FileMoves
  <2>3. pc'[q] \in {"limits", "limits text"} => job'[q].limits # NoLimits
    BY <2>1, <2>2 DEF Overlay, Types
  <2>4. ASSUME pc'[q] \in {"limits text", "ports", "compose"}, job[q].limits # NoLimits,
               file'["resources"].state # "empty"
        PROVE  OverlayOf(q)'
    <3>1. pc[q] \in {"limits text", "ports", "compose"}
      BY <2>1, <2>2, <2>4 DEF Types
    <3>2. OverlayOf(q)
      BY <2>4, <3>1 DEF Overlay
    <3>3. CASE file'["resources"] = file["resources"]
      BY <2>1, <3>2, <3>3 DEF OverlayOf
    <3>4. CASE pc[r] = "limits text" /\ file'["resources"].limits = job[r].limits
      <4>1. r \in {q} \cup met[q]
        <5>1. Active(q)
          BY <3>1 DEF Active, Ended
        <5> QED
          BY <2>1, <5>1 DEF Met
      <4>2. job[r].limits # NoLimits
        BY <3>4 DEF Overlay
      <4> QED
        BY <2>1, <3>4, <4>1, <4>2 DEF OverlayOf
    <3>5. CASE /\ file["resources"].state # "empty"
               /\ file'["resources"].limits = file["resources"].limits
      BY <2>1, <3>2, <3>5 DEF OverlayOf
    <3> QED
      BY <2>2, <2>4, <3>3, <3>4, <3>5
  <2> QED
    BY <2>1, <2>3, <2>4 DEF OverlayOf
<1> QED
  BY <1>1, <1>2, <1>3, StepIs DEF Overlay

LEMMA LimitsKept ==
  Types /\ Makers /\ Met /\ Overlay /\ LimitsFromOverlappingRun /\ [Next]_vars
    => LimitsFromOverlappingRun'
<1> SUFFICES ASSUME Types, Makers, Met, Overlay, LimitsFromOverlappingRun, [Next]_vars
             PROVE  LimitsFromOverlappingRun'
  OBVIOUS
<1>1. CASE UNCHANGED vars
  BY <1>1 DEF LimitsFromOverlappingRun, Exists, vars, ghosts
<1> SUFFICES ASSUME ~UNCHANGED vars, NEW i \in Instances, cont'[i].by # Nobody
             PROVE  IF job'[cont'[i].by].limits = NoLimits THEN cont'[i].limits = NoLimits
                    ELSE /\ cont'[i].limits # NoLimits
                         /\ \E s \in {cont'[i].by} \cup met'[cont'[i].by] :
                              job'[s].limits = cont'[i].limits
  BY <1>1 DEF LimitsFromOverlappingRun, Exists
<1>2. cont[i].by \in Runs \cup {Nobody}
  BY DEF Types, Cont
<1>3. cont[i].by # Nobody =>
        IF job[cont[i].by].limits = NoLimits THEN cont[i].limits = NoLimits
        ELSE /\ cont[i].limits # NoLimits
             /\ \E s \in {cont[i].by} \cup met[cont[i].by] : job[s].limits = cont[i].limits
  BY DEF LimitsFromOverlappingRun, Exists
<1>4. ASSUME NEW r \in Runs, NEW c \in Commands, Begin(r, c)
      PROVE  IF job'[cont'[i].by].limits = NoLimits THEN cont'[i].limits = NoLimits
             ELSE /\ cont'[i].limits # NoLimits
                  /\ \E s \in {cont'[i].by} \cup met'[cont'[i].by] :
                       job'[s].limits = cont'[i].limits
  <2>1. /\ pc[r] = "idle" /\ job' = [job EXCEPT ![r] = c] /\ cont' = cont
        /\ \A s \in Runs : /\ Active(s) => met'[s] = met[s] \cup {r}
                           /\ s # r /\ ~Active(s) => met'[s] = met[s]
    BY <1>4, Begins
  <2>2. cont[i].by \in Runs /\ cont[i].by # r
    BY <1>2, <2>1 DEF Makers, Early
  <2>3. job'[cont[i].by] = job[cont[i].by] /\ met[cont[i].by] \subseteq met'[cont[i].by]
    BY <2>1, <2>2 DEF Types
  <2>4. \A s \in {cont[i].by} \cup met[cont[i].by] : job'[s] = job[s]
    BY <2>1, <2>2 DEF Types, Met
  <2> QED
    BY <1>3, <2>1, <2>2, <2>3, <2>4
<1>5. ASSUME NEW r \in Runs, Works(r)
      PROVE  IF job'[cont'[i].by].limits = NoLimits THEN cont'[i].limits = NoLimits
             ELSE /\ cont'[i].limits # NoLimits
                  /\ \E s \in {cont'[i].by} \cup met'[cont'[i].by] :
                       job'[s].limits = cont'[i].limits
  <2>1. job' = job /\ met' = met /\ pc[r] # "idle"
    BY <1>5, Moves
  <2>2. CASE cont'[i].by = cont[i].by /\ cont'[i].limits = cont[i].limits
    BY <1>3, <2>1, <2>2
  <2>3. CASE cont'[i] = NoContainer
    BY <2>3 DEF NoContainer
  <2>4. CASE /\ pc[r] = "compose" /\ Readable(r) /\ i = Inst(r)
             /\ cont'[i].by = r /\ cont'[i].limits = LimitsRead(r)
    <3>1. job[r].tag # "resources"
      BY <2>1, JobIs, SandboxesAssumption
    <3>2. CASE job[r].limits = NoLimits
      BY <2>1, <2>4, <3>1, <3>2 DEF LimitsRead, ComposeFiles
    <3>3. CASE job[r].limits # NoLimits
      <4>1. "resources" \in ComposeFiles(r)
        BY <3>3 DEF ComposeFiles
      <4>2. file["resources"].state = "whole" /\ LimitsRead(r) = file["resources"].limits
        BY <2>4, <4>1 DEF Readable, LimitsRead
      <4>3. OverlayOf(r)
        BY <2>4, <3>3 DEF Overlay
      <4> QED
        BY <2>1, <2>4, <3>3, <4>2, <4>3 DEF OverlayOf
    <3> QED
      BY <3>2, <3>3
  <2> QED
    BY <1>5, <2>2, <2>3, <2>4, ContainerMoves
<1> QED
  BY <1>4, <1>5, StepIs

LEMMA PublishedKept == Types /\ Published /\ [Next]_vars => Published'
<1> SUFFICES ASSUME Types, Published, [Next]_vars PROVE Published'
  OBVIOUS
<1>1. CASE UNCHANGED vars
  BY <1>1 DEF Published, Running, vars, ghosts
<1>2. ASSUME NEW r \in Runs, NEW c \in Commands, Begin(r, c)
      PROVE  Published'
  <2>1. /\ pc' = [pc EXCEPT ![r] = pc'[r]] /\ cont' = cont /\ port' = port
        /\ pc'[r] # "compose"
    BY <1>2, Begins
  <2> QED
    BY <2>1 DEF Published, Running, Types
<1>3. ASSUME NEW r \in Runs, Works(r)
      PROVE  Published'
  <2>1. pc' = [pc EXCEPT ![r] = pc'[r]] /\ pc[r] # "idle"
    BY <1>3, Moves
  <2>2. \A q \in Runs : pc'[q] = "compose" => port'[q] \in Fixed \cup {Ephemeral}
    <3>1. pc'[r] = "compose" => AllocatePort(r)
      BY <1>3, FileMoves
         DEF Works, Up, Lifecycle, Collision, WriteFiles, Open, Close, Resolve, Provision,
             CleanPrompt, CheckExistence, Would, Stops, ComposeUp, ComposeUpNoPort,
             ComposeUpFails, Act, ActFails, Goto, Types, AfterMain, AfterGit
    <3>2. Allocated(r) \in Fixed \cup {Ephemeral}
      BY <2>1, JobIs DEF Allocated
    <3>3. AllocatePort(r) => port'[r] = Allocated(r)
      BY DEF AllocatePort, Types
    <3>4. \A q \in Runs : q # r => port'[q] = port[q]
      BY <1>3
         DEF Works, Up, Lifecycle, Collision, WriteFiles, Open, Close, AllocatePort, Resolve,
             Provision, CleanPrompt, CheckExistence, Would, Stops, ComposeUp, ComposeUpNoPort,
             ComposeUpFails, Act, ActFails, Types
    <3> QED
      BY <2>1, <3>1, <3>2, <3>3, <3>4 DEF Published, Types
  <2>3. \A i \in Instances :
          Running(i)' => cont'[i].port = Ephemeral \/ cont'[i].bound = cont'[i].port
    <3> SUFFICES ASSUME NEW i \in Instances, cont'[i].bound # NoPort
                 PROVE  cont'[i].port = Ephemeral \/ cont'[i].bound = cont'[i].port
      BY DEF Running
    <3>0. cont[i] \in Cont /\ DOMAIN cont = Instances
      BY DEF Types
    <3>1. CASE cont'[i] = cont[i]
      BY <3>1 DEF Published, Running
    <3>2. ASSUME pc[r] = "compose", NEW b, cont' = [cont EXCEPT ![Inst(r)] = Wanted(r, b)],
                 b = NoPort \/ port[r] = Ephemeral \/ b = port[r]
          PROVE  cont'[i].port = Ephemeral \/ cont'[i].bound = cont'[i].port
      <4>1. CASE i # Inst(r)
        BY <3>0, <3>1, <3>2, <4>1
      <4>2. CASE i = Inst(r)
        <5>1. cont'[i] = Wanted(r, b)
          BY <3>0, <3>2, <4>2
        <5>2. CASE /\ cont[i].port = port[r]
                   /\ Wanted(r, b) = [cont[i] EXCEPT !.bound = IF @ = NoPort THEN b ELSE @]
          <6>1. cont'[i].port = port[r]
            BY <3>0, <5>1, <5>2 DEF Cont
          <6>2. cont'[i].bound = (IF cont[i].bound = NoPort THEN b ELSE cont[i].bound)
            BY <3>0, <5>1, <5>2 DEF Cont
          <6>3. cont[i].bound # NoPort => port[r] = Ephemeral \/ cont[i].bound = port[r]
            BY <5>2 DEF Published, Running
          <6> QED
            BY <3>2, <6>1, <6>2, <6>3
        <5>3. CASE Wanted(r, b) = [by |-> r, port |-> port[r], bound |-> b,
                                   limits |-> LimitsRead(r)]
          BY <3>2, <5>1, <5>3
        <5> QED
          BY <4>2, <5>2, <5>3 DEF Wanted
      <4> QED
        BY <4>1, <4>2
    <3>3. CASE ComposeUp(r) \/ ComposeUpNoPort(r) \/ ComposeUpFails(r)
      <4>1. \A b \in Bindable(port[r], Inst(r)) : port[r] = Ephemeral \/ b = port[r]
        BY DEF Bindable
      <4> QED
        BY <3>1, <3>2, <3>3, <4>1 DEF ComposeUp, ComposeUpNoPort, ComposeUpFails, docker
    <3>4. ASSUME NEW S, Removed(S) \/ Stopped(S)
          PROVE  cont'[i].port = Ephemeral \/ cont'[i].bound = cont'[i].port
      <4>1. \/ cont'[i] = cont[i]
            \/ cont'[i] = NoContainer
            \/ cont'[i] = [cont[i] EXCEPT !.bound = NoPort]
        BY <3>4 DEF Removed, Stopped
      <4> QED
        BY <3>0, <3>1, <4>1 DEF NoContainer, Cont
    <3>5. ASSUME NEW S, Started(S)
          PROVE  cont'[i].port = Ephemeral \/ cont'[i].bound = cont'[i].port
      <4>1. \/ cont'[i] = cont[i]
            \/ \E b : /\ cont'[i] = [cont[i] EXCEPT !.bound = b]
                      /\ cont[i].port = Ephemeral \/ b = cont[i].port
        BY <3>5 DEF Started
      <4> QED
        BY <3>0, <3>1, <4>1 DEF Cont
    <3>6. CASE Act(r) \/ ActFails(r)
      <4>1. \E S : Removed(S) \/ Stopped(S) \/ Started(S)
        BY <3>6 DEF Act, ActFails
      <4> QED
        BY <3>4, <3>5, <4>1
    <3> QED
      BY <1>3, <3>1, <3>3, <3>6
         DEF Works, Up, Lifecycle, Collision, WriteFiles, Open, Close, AllocatePort, Resolve,
             Provision, CleanPrompt, CheckExistence, Would, Stops, docker
  <2> QED
    BY <2>2, <2>3 DEF Published
<1> QED
  BY <1>1, <1>2, <1>3, StepIs

LEMMA AloneKept ==
  Types /\ Met /\ Overlay /\ Published /\ Alone /\ [Next]_vars => Alone'
<1> SUFFICES ASSUME Types, Met, Overlay, Published, Alone, [Next]_vars PROVE Alone'
  OBVIOUS
<1>1. CASE UNCHANGED vars
  BY <1>1 DEF Alone, Running, Inst, Peers, OverlayIsOwn, vars, ghosts
<1> SUFFICES ASSUME ~UNCHANGED vars,
                    NEW q \in Runs, pc'[q] \in {"resolve", "provision"}, Peers(q)' = {}
             PROVE  /\ cont'[Inst(q)'].bound # NoPort
                    /\ OverlayIsOwn(q)' => cont'[Inst(q)'].limits = job'[q].limits
                    /\ home'[Inst(q)'] # Nobody
                    /\ pc'[q] = "provision" => port'[q] \in {cont'[Inst(q)'].bound, "?"}
  BY <1>1 DEF Alone, Running
<1>2. ASSUME NEW r \in Runs, NEW c \in Commands, Begin(r, c)
      PROVE  /\ cont'[Inst(q)'].bound # NoPort
             /\ OverlayIsOwn(q)' => cont'[Inst(q)'].limits = job'[q].limits
             /\ home'[Inst(q)'] # Nobody
             /\ pc'[q] = "provision" => port'[q] \in {cont'[Inst(q)'].bound, "?"}
  <2>1. /\ pc[r] = "idle" /\ pc' = [pc EXCEPT ![r] = pc'[r]] /\ job' = [job EXCEPT ![r] = c]
        /\ pc'[r] \in {"main", "collision", "prompt", "exists", "act"}
        /\ cont' = cont /\ home' = home /\ port' = port
        /\ \A s \in Runs : Active(s) => met'[s] = met[s] \cup {r}
    BY <1>2, Begins
  <2>2. q # r /\ pc'[q] = pc[q] /\ job'[q] = job[q]
    BY <2>1 DEF Types
  <2>3. met[q] \subseteq met'[q] /\ \A s \in met[q] : job'[s] = job[s]
    <3>1. Active(q)
      BY <2>2 DEF Active, Ended
    <3> QED
      BY <2>1, <3>1 DEF Types, Met
  <2>4. Peers(q) = {} /\ (OverlayIsOwn(q)' => OverlayIsOwn(q)) /\ Inst(q)' = Inst(q)
    BY <2>2, <2>3 DEF Peers, OverlayIsOwn, Inst
  <2> QED
    BY <2>1, <2>2, <2>4 DEF Alone, Running
<1>3. ASSUME NEW r \in Runs, Works(r)
      PROVE  /\ cont'[Inst(q)'].bound # NoPort
             /\ OverlayIsOwn(q)' => cont'[Inst(q)'].limits = job'[q].limits
             /\ home'[Inst(q)'] # Nobody
             /\ pc'[q] = "provision" => port'[q] \in {cont'[Inst(q)'].bound, "?"}
  <2>1. /\ pc' = [pc EXCEPT ![r] = pc'[r]] /\ job' = job /\ met' = met /\ Active(r)
        /\ pc[r] # "idle"
        /\ pc'[r] \in {"resolve", "provision"} => pc[r] \in {"compose", "resolve"}
    BY <1>3, Moves
  <2>2. Peers(q) = {} /\ (OverlayIsOwn(q)' <=> OverlayIsOwn(q)) /\ Inst(q)' = Inst(q)
    BY <2>1 DEF Peers, OverlayIsOwn, Inst
  <2>20. CASE q # r
    <3>1. pc'[q] = pc[q] /\ Active(q) /\ pc[q] # "idle"
      BY <2>1, <2>20 DEF Types, Active, Ended
    <3>2. r \in met[q] /\ job[r].project # job[q].project
      BY <2>1, <2>2, <2>20, <3>1 DEF Met, Peers
    <3>3. Inst(q) \in Instances /\ Inst(q)[1] # job[r].project
      BY <3>1, <3>2, JobIs
    <3>4. cont'[Inst(q)] = cont[Inst(q)] /\ (home[Inst(q)] # Nobody => home'[Inst(q)] # Nobody)
      BY <1>3, <3>3, ElsewhereStays
    <3>5. port'[q] = port[q]
      BY <1>3, <2>20
         DEF Works, Up, Lifecycle, Collision, WriteFiles, Open, Close, AllocatePort, Resolve,
             Provision, CleanPrompt, CheckExistence, Would, Stops, ComposeUp, ComposeUpNoPort,
             ComposeUpFails, Act, ActFails, Types
    <3> QED
      BY <2>1, <2>2, <3>1, <3>4, <3>5 DEF Alone, Running
  <2>3. Inst(r)' = Inst(r) /\ Inst(r) \in Instances /\ HomeOf(Inst(r)) = Inst(r)
    BY <2>1, JobIs DEF Inst
  <2>4. cont[Inst(r)] \in Cont
    BY <2>3 DEF Types
  <2>5. CASE q = r /\ pc[r] = "resolve"
    <3>1. Resolve(r)
      BY <1>3, <2>5
         DEF Works, Up, Lifecycle, Collision, WriteFiles, Open, Close, AllocatePort,
             Provision, CleanPrompt, CheckExistence, Would, Stops, ComposeUp, ComposeUpNoPort,
             ComposeUpFails, Act, ActFails, Goto, Types
    <3> QED
      BY <2>1, <2>2, <2>3, <2>5, <3>1 DEF Resolve, Alone, docker, Types, Running
  <2>6. CASE q = r /\ pc[r] = "compose"
    <3>1. ComposeUp(r)
      BY <1>3, <2>6
         DEF Works, Up, Lifecycle, Collision, WriteFiles, Open, Close, AllocatePort, Resolve,
             Provision, CleanPrompt, CheckExistence, Would, Stops, ComposeUpNoPort,
             ComposeUpFails, Act, ActFails, Goto, Types
    <3>2. PICK b \in Bindable(port[r], Inst(r)) :
            cont' = [cont EXCEPT ![Inst(r)] = Wanted(r, b)]
      BY <3>1 DEF ComposeUp
    <3>3. b # NoPort /\ (port[r] = Ephemeral \/ b = port[r])
      <4>1. port[r] \in Fixed \cup {Ephemeral}
        BY <2>6 DEF Published
      <4>2. b \in FreePorts \/ b = port[r]
        BY <3>2 DEF Bindable
      <4>3. NoPort # Ephemeral
        BY DEF NoPort, Ephemeral
      <4> QED
        BY <3>2, <4>1, <4>2, <4>3, SandboxesAssumption DEF Bindable
    <3>4. OverlayIsOwn(r) => LimitsRead(r) = job[r].limits
      <4>1. job[r].tag # "resources" /\ job[r].tag \in Tags
        BY <2>1, JobIs, SandboxesAssumption
      <4>2. CASE job[r].limits = NoLimits
        BY <4>1, <4>2 DEF LimitsRead, ComposeFiles
      <4>3. CASE job[r].limits # NoLimits /\ OverlayIsOwn(r)
        <5>1. "resources" \in ComposeFiles(r)
          BY <4>3 DEF ComposeFiles
        <5>2. file["resources"].state = "whole"
          BY <3>1, <5>1 DEF ComposeUp, Readable
        <5>3. OverlayOf(r)
          BY <2>6, <4>3 DEF Overlay
        <5>4. file["resources"].limits = job[r].limits
          BY <4>3, <5>2, <5>3 DEF OverlayOf, OverlayIsOwn
        <5> QED
          BY <5>1, <5>4 DEF LimitsRead
      <4> QED
        BY <4>2, <4>3
    <3>5. cont'[Inst(r)] = Wanted(r, b)
      BY <2>3, <3>2 DEF Types
    <3>6. /\ cont'[Inst(r)].bound # NoPort
          /\ OverlayIsOwn(r) => cont'[Inst(r)].limits = job[r].limits
          /\ port[r] # Ephemeral => cont'[Inst(r)].bound = port[r]
      <4>1. CASE /\ cont[Inst(r)].port = port[r] /\ cont[Inst(r)].limits = LimitsRead(r)
                 /\ Wanted(r, b) = [cont[Inst(r)] EXCEPT !.bound = IF @ = NoPort THEN b ELSE @]
        <5>1. cont'[Inst(r)].bound = IF cont[Inst(r)].bound = NoPort THEN b
                                     ELSE cont[Inst(r)].bound
          BY <2>4, <3>5, <4>1 DEF Cont
        <5>2. cont'[Inst(r)].limits = cont[Inst(r)].limits
          BY <2>4, <3>5, <4>1 DEF Cont
        <5>3. cont[Inst(r)].bound # NoPort => port[r] = Ephemeral \/ cont[Inst(r)].bound = port[r]
          BY <2>3, <4>1 DEF Published, Running
        <5> QED
          BY <3>3, <3>4, <4>1, <5>1, <5>2, <5>3
      <4>2. CASE Wanted(r, b) = [by |-> r, port |-> port[r], bound |-> b,
                                 limits |-> LimitsRead(r)]
        BY <3>3, <3>4, <3>5, <4>2
      <4> QED
        BY <4>1, <4>2 DEF Wanted
    <3>7. home'[Inst(r)] # Nobody
      <4>1. home' = [home EXCEPT ![Inst(r)] = IF @ = Nobody THEN r ELSE @]
        BY <2>3, <3>1 DEF ComposeUp, MakeHome
      <4>2. r # Nobody
        BY SandboxesAssumption DEF Runs, Nobody
      <4> QED
        BY <2>3, <4>1, <4>2 DEF Types
    <3>8. port' = port /\ (pc'[r] = "provision" => port[r] # Ephemeral)
      BY <3>1 DEF ComposeUp, Goto, Types
    <3> QED
      BY <2>1, <2>2, <2>3, <2>6, <3>6, <3>7, <3>8
  <2> QED
    BY <2>1, <2>20, <2>5, <2>6
<1> QED
  BY <1>2, <1>3, StepIs

LEMMA Inductive == Spec => []Inv
<1>1. Init => Inv
  <2> SUFFICES ASSUME Init PROVE Inv
    OBVIOUS
  <2>1. Types
    BY TypesInit
  <2>2. /\ \A r \in Runs : pc[r] = "idle" /\ atBegin[r] = Nobody /\ met[r] = {}
        /\ \A i \in Instances : cont[i].by = Nobody
    BY DEF Init, NoContainer
  <2>3. Makers /\ Consented /\ Left
    BY <2>2 DEF Makers, Consented, Left, Upping, Writing
  <2>4. Met /\ Overlay /\ LimitsFromOverlappingRun
    BY <2>2 DEF Met, Overlay, LimitsFromOverlappingRun, Active, Exists
  <2>5. Published /\ Alone
    BY <2>2 DEF Init, Published, Alone, Running, NoContainer
  <2> QED
    BY <2>1, <2>3, <2>4, <2>5 DEF Inv
<1>2. Inv /\ [Next]_vars => Inv'
  BY TypesKept, MakersKept, ConsentedKept, LeftKept, MetKept, OverlayKept, LimitsKept,
     PublishedKept, AloneKept DEF Inv
<1> QED
  BY <1>1, <1>2, PTL DEF Spec

-----------------------------------------------------------------------------
(* Theorems *)

\* Nobody's home goes away but with a clean of its own project that may, however
\* many processes work on the host and wherever they stop or fail
\* (verbs/lifecycle.py, hooks/lifecycle.py).
THEOREM HomesAreSafe == Spec => HomesSurvive
<1>1. Inv /\ [Next]_vars =>
        [\A i \in Instances :
           home[HomeOf(i)] # Nobody /\ home'[HomeOf(i)] # home[HomeOf(i)] =>
             \E r \in Runs : /\ Steps(r) /\ pc[r] = "act" /\ consent[r]
                             /\ job[r].verb = "clean" /\ job[r].project = i[1]]_vars
  <2> SUFFICES ASSUME Types, Consented, [Next]_vars, NEW i \in Instances,
                      home[i] # Nobody, home'[i] # home[i]
               PROVE  \E r \in Runs : /\ Steps(r) /\ pc[r] = "act" /\ consent[r]
                                      /\ job[r].verb = "clean" /\ job[r].project = i[1]
    BY DEF Inv, HomeOf
  <2>1. home' # home
    OBVIOUS
  <2>2. \A r \in Runs : \A c \in Commands : ~Begin(r, c)
    BY <2>1, Begins
  <2>3. PICK r \in Runs : Works(r)
    BY <2>1, <2>2, StepIs DEF vars
  <2>4. pc[r] = "act" /\ job[r].verb = "clean" /\ i[1] = job[r].project
    BY <2>3, HomeMoves
  <2>5. Act(r) \/ ActFails(r)
    BY <2>1, <2>3, <2>4
       DEF Works, Up, Lifecycle, Collision, WriteFiles, Open, Close, AllocatePort, Resolve,
           Provision, CleanPrompt, CheckExistence, Would, Stops, docker, ComposeUp,
           ComposeUpNoPort, ComposeUpFails
  <2>6. Steps(r)
    BY <2>4, <2>5 DEF Act, ActFails, Goto, Types, Steps
  <2> QED
    BY <2>4, <2>6 DEF Consented
<1> QED
  BY <1>1, Inductive, PTL DEF Spec, HomesSurvive

\* What an up without --recreate replaces or starts was made by an overlapping
\* process after that up began: between its look for collisions and its docker
\* compose up, what was there before may go away but never comes back
\* (verbs/up.py, hooks/up.py).
THEOREM NobodyIsReplaced == Spec => NoUnaskedReplacement
<1>1. Inv /\ [Next]_vars =>
        [\A r \in Runs :
           /\ Steps(r) /\ pc[r] = "compose" /\ ~job[r].recreate /\ Exists(Inst(r))
           /\ cont'[Inst(r)] # cont[Inst(r)]
           => cont[Inst(r)].by \in met[r] \ {atBegin[r]}]_vars
  <2> SUFFICES ASSUME Types, Left, [Next]_vars, NEW r \in Runs, Steps(r), pc[r] = "compose",
                      ~job[r].recreate, Exists(Inst(r)), cont'[Inst(r)] # cont[Inst(r)]
               PROVE  cont[Inst(r)].by \in met[r] \ {atBegin[r]}
    BY DEF Inv
  <2>1. \A c \in Commands : ~Begin(r, c)
    BY DEF Begin
  <2>2. ASSUME NEW q \in Runs, q # r
        PROVE  ~Works(q) /\ \A c \in Commands : ~Begin(q, c)
    BY <2>2, Moves, Begins DEF Steps, Types
  <2>3. Works(r)
    BY <2>1, <2>2, StepIs DEF Steps, vars
  <2>4. CASE job[r].dry
    <3>1. Would(r) \/ Stops(r)
      BY <2>3, <2>4
         DEF Works, Up, Lifecycle, Collision, WriteFiles, Open, Close, AllocatePort, Resolve,
             Provision, CleanPrompt, CheckExistence, ComposeUp, ComposeUpNoPort,
             ComposeUpFails, Act, ActFails
    <3> QED
      BY <3>1 DEF Would, Stops, docker
  <2>5. CASE ~job[r].dry
    BY <2>5 DEF Left, Upping, Writing
  <2> QED
    BY <2>4, <2>5
<1> QED
  BY <1>1, Inductive, PTL DEF Spec, NoUnaskedReplacement

\* Limits in config/docker-compose.resources.yml never outlive the processes that
\* overlap with the one that wrote them, although every process shares the one
\* file, truncates it, writes over it and never deletes it; and who asked for
\* limits never runs without (compose/generators.py, hooks/up.py).
THEOREM LimitsAreAskedFor == Spec => []LimitsFromOverlappingRun
BY Inductive, PTL DEF Inv

\* Whoever runs up while others work on other projects only is told the truth:
\* when it returns 0 its container runs, on the host port announced (or on one it
\* could not find out, "?"), and has a home, and the limits asked for unless an
\* overlapping process asked for limits too (verbs/up.py, hooks/up.py).
THEOREM AnnouncedIsSo == Spec => AsAnnounced
<1>1. Inv =>
        [\A r \in Runs :
           Steps(r) /\ pc[r] = "provision" /\ pc'[r] = "ok" /\ Peers(r) = {} =>
             LET c == cont[Inst(r)] IN
             /\ Running(Inst(r)) /\ port[r] \in {c.bound, "?"}
             /\ home[HomeOf(Inst(r))] # Nobody
             /\ OverlayIsOwn(r) => c.limits = job[r].limits]_vars
  BY DEF Inv, Alone, HomeOf
<1> QED
  BY <1>1, Inductive, PTL DEF AsAnnounced

-----------------------------------------------------------------------------
(* Ports *)

\* A process about to run compose for a named project, whose user named no
\* port, asks docker to choose.
Unasked(r) == job[r].project # DefaultProject /\ job[r].spelled = "absent"
Chosen     == \A r \in Runs : pc[r] = "compose" /\ Unasked(r) => port[r] = Ephemeral

\* What each of the steps that matter here does to one process.
LEMMA ToCompose ==
  ASSUME Types, NEW r \in Runs, Works(r)
  PROVE  /\ pc'[r] = "compose" => AllocatePort(r)
         /\ pc'[r] = "port taken" => ComposeUpNoPort(r)
         /\ \A q \in Runs : q # r => port'[q] = port[q]
<1>1. pc'[r] = "compose" => AllocatePort(r)
  BY FileMoves
     DEF Works, Up, Lifecycle, Collision, WriteFiles, Open, Close, Resolve, Provision,
         CleanPrompt, CheckExistence, Would, Stops, ComposeUp, ComposeUpNoPort,
         ComposeUpFails, Act, ActFails, Goto, Types, AfterMain, AfterGit
<1>2. pc'[r] = "port taken" => ComposeUpNoPort(r)
  BY DEF Works, Up, Lifecycle, Collision, WriteFiles, Open, Close, AllocatePort, Resolve,
     Provision, CleanPrompt, CheckExistence, Would, Stops, ComposeUp, ComposeUpFails, Act,
     ActFails, Goto, Types, AfterMain, AfterGit
<1>3. \A q \in Runs : q # r => port'[q] = port[q]
  BY DEF Works, Up, Lifecycle, Collision, WriteFiles, Open, Close, AllocatePort, Resolve,
     Provision, CleanPrompt, CheckExistence, Would, Stops, ComposeUp, ComposeUpNoPort,
     ComposeUpFails, Act, ActFails, Types
<1> QED
  BY <1>1, <1>2, <1>3

LEMMA ChosenKept == Types /\ Chosen /\ [Next]_vars => Chosen'
<1> SUFFICES ASSUME Types, Chosen, [Next]_vars, NEW q \in Runs, pc'[q] = "compose",
                    Unasked(q)'
             PROVE  port'[q] = Ephemeral
  BY DEF Chosen
<1>1. CASE UNCHANGED vars
  BY <1>1 DEF Chosen, Unasked, vars
<1>2. ASSUME NEW r \in Runs, NEW c \in Commands, Begin(r, c)
      PROVE  port'[q] = Ephemeral
  <2>1. /\ pc' = [pc EXCEPT ![r] = pc'[r]] /\ job' = [job EXCEPT ![r] = c] /\ port' = port
        /\ pc'[r] # "compose"
    BY <1>2, Begins
  <2> QED
    BY <2>1 DEF Chosen, Unasked, Types
<1>3. ASSUME NEW r \in Runs, Works(r)
      PROVE  port'[q] = Ephemeral
  <2>1. pc' = [pc EXCEPT ![r] = pc'[r]] /\ pc[r] # "idle" /\ job' = job
    BY <1>3, Moves
  <2>2. Unasked(q)
    BY <2>1 DEF Unasked
  <2>3. CASE q # r
    BY <1>3, <2>1, <2>2, <2>3, ToCompose DEF Chosen, Types
  <2>4. CASE q = r
    <3>1. AllocatePort(r)
      BY <1>3, <2>4, ToCompose
    <3>2. job[r].port = DefaultPort /\ ~Explicit(r)
      BY <2>1, <2>2, <2>4, JobIs, SandboxesAssumption DEF Unasked, Explicit
    <3> QED
      BY <2>2, <2>4, <3>1, <3>2 DEF AllocatePort, Allocated, Unasked, Types
  <2> QED
    BY <2>3, <2>4
<1> QED
  BY <1>1, <1>2, <1>3, StepIs

\* What the commands launch; only that has containers, and only containers
\* hold ports.
Launched  == {<<c.project, c.tag>> : c \in {d \in Commands : d.verb = "up"}}
Launchers ==
  /\ \A r \in Runs : pc[r] \in Upping => job[r].verb = "up"
  /\ \A i \in Instances : (Running(i) => Exists(i)) /\ (Exists(i) => i \in Launched)

\* Nothing but a container is bound.
LEMMA HolderExists ==
  ASSUME Types, NEW r \in Runs, Works(r), NEW i \in Instances, Running(i) => Exists(i)
  PROVE  Running(i)' => Exists(i)'
<1>0. cont[i] \in Cont /\ DOMAIN cont = Instances /\ r # Nobody
  BY DEF Types, Runs, Nobody
<1>1. CASE cont'[i] = cont[i]
  BY <1>1 DEF Running, Exists
<1>2. ASSUME NEW b, cont' = [cont EXCEPT ![Inst(r)] = Wanted(r, b)], pc[r] # "idle"
      PROVE  Running(i)' => Exists(i)'
  <2>1. CASE i # Inst(r)
    BY <1>0, <1>1, <1>2, <2>1
  <2>2. CASE i = Inst(r)
    <3>1. cont'[i] = Wanted(r, b)
      BY <1>0, <1>2, <2>2
    <3>2. CASE /\ Exists(i)
               /\ Wanted(r, b) = [cont[i] EXCEPT !.bound = IF @ = NoPort THEN b ELSE @]
      BY <1>0, <3>1, <3>2 DEF Exists, Cont
    <3>3. CASE Wanted(r, b) = [by |-> r, port |-> port[r], bound |-> b, limits |-> LimitsRead(r)]
      BY <1>0, <3>1, <3>3 DEF Exists
    <3> QED
      BY <2>2, <3>2, <3>3 DEF Wanted
  <2> QED
    BY <2>1, <2>2
<1>3. CASE ComposeUp(r) \/ ComposeUpNoPort(r) \/ ComposeUpFails(r)
  BY <1>1, <1>2, <1>3 DEF ComposeUp, ComposeUpNoPort, ComposeUpFails, docker
<1>4. ASSUME NEW S, Removed(S) \/ Stopped(S) PROVE Running(i)' => Exists(i)'
  <2>1. \/ cont'[i] = cont[i]
        \/ cont'[i] = NoContainer
        \/ cont'[i] = [cont[i] EXCEPT !.bound = NoPort]
    BY <1>4 DEF Removed, Stopped
  <2> QED
    BY <1>0, <1>1, <2>1 DEF NoContainer, Cont, Running
<1>5. ASSUME NEW S, Started(S) PROVE Running(i)' => Exists(i)'
  <2>1. \/ cont'[i] = cont[i]
        \/ Exists(i) /\ \E b : cont'[i] = [cont[i] EXCEPT !.bound = b]
    BY <1>5 DEF Started
  <2> QED
    BY <1>0, <1>1, <2>1 DEF Cont, Exists
<1>6. CASE Act(r) \/ ActFails(r)
  <2>1. \E S : Removed(S) \/ Stopped(S) \/ Started(S)
    BY <1>6 DEF Act, ActFails
  <2> QED
    BY <1>4, <1>5, <2>1
<1> QED
  BY <1>1, <1>3, <1>6
     DEF Works, Up, Lifecycle, Collision, WriteFiles, Open, Close, AllocatePort, Resolve,
         Provision, CleanPrompt, CheckExistence, Would, Stops, docker

LEMMA LaunchersKept == Types /\ Launchers /\ [Next]_vars => Launchers'
<1> SUFFICES ASSUME Types, Launchers, [Next]_vars PROVE Launchers'
  OBVIOUS
<1>1. CASE UNCHANGED vars
  BY <1>1 DEF Launchers, Running, Exists, vars
<1>2. ASSUME NEW r \in Runs, NEW c \in Commands, Begin(r, c) PROVE Launchers'
  <2>1. /\ pc' = [pc EXCEPT ![r] = pc'[r]] /\ job' = [job EXCEPT ![r] = c] /\ cont' = cont
    BY <1>2, Begins
  <2>2. pc'[r] \in Upping => c.verb = "up"
    <3>1. pc'[r] = FirstStep(c)
      BY <1>2 DEF Begin, Goto, Types
    <3> QED
      BY <3>1 DEF FirstStep, Upping, Writing
  <2> QED
    BY <2>1, <2>2 DEF Launchers, Running, Exists, Types
<1>3. ASSUME NEW r \in Runs, Works(r) PROVE Launchers'
  <2>1. /\ pc' = [pc EXCEPT ![r] = pc'[r]] /\ job' = job /\ pc[r] # "idle"
        /\ pc'[r] \in Early => pc[r] \in Upping
    BY <1>3, Moves
  <2>2. \A q \in Runs : pc'[q] \in Upping => job'[q].verb = "up"
    BY <2>1 DEF Launchers, Types, Early
  <2>3. ASSUME NEW i \in Instances, Exists(i)' PROVE i \in Launched
    <3>1. CASE cont'[i].by = cont[i].by
      BY <2>3, <3>1 DEF Exists, Launchers
    <3>2. CASE cont'[i] = NoContainer
      BY <2>3, <3>2 DEF Exists, NoContainer
    <3>3. CASE pc[r] = "compose" /\ i = Inst(r)
      BY <2>1, <3>3, JobIs DEF Launchers, Launched, Upping, Inst
    <3> QED
      BY <1>3, <3>1, <3>2, <3>3, ContainerMoves
  <2>4. \A i \in Instances : Running(i)' => Exists(i)'
    BY <1>3, HolderExists DEF Launchers
  <2> QED
    BY <2>2, <2>3, <2>4 DEF Launchers
<1> QED
  BY <1>1, <1>2, <1>3, StepIs

\* Where docker has a free port for everything that is launched, one is left
\* for this one: the others hold one port each.
LEMMA FreePortLeft ==
  ASSUME IsFiniteSet(Launched), IsFiniteSet(FreePorts),
         Cardinality(Launched) <= Cardinality(FreePorts), Launchers, NEW i \in Launched
  PROVE  Bindable(Ephemeral, i) # {}
<1> SUFFICES ASSUME Bindable(Ephemeral, i) = {} PROVE FALSE
  OBVIOUS
<1> DEFINE Others    == Launched \ {i}
           holder[p \in FreePorts] == CHOOSE j \in Others : cont[j].bound = p
<1>1. ASSUME NEW p \in FreePorts PROVE \E j \in Others : cont[j].bound = p
  <2>1. p \in InUse /\ p # cont[i].bound
    BY <1>1 DEF Bindable
  <2>2. p \notin Foreign
    BY <1>1, SandboxesAssumption
  <2>3. PICK j \in Instances : cont[j].bound = p /\ p # NoPort
    BY <2>1, <2>2 DEF InUse, Bound
  <2>4. j \in Launched
    BY <2>3 DEF Launchers, Running
  <2> QED
    BY <2>1, <2>3, <2>4
<1>2. ASSUME NEW p \in FreePorts
      PROVE  holder[p] \in Others /\ cont[holder[p]].bound = p
  <2>1. holder[p] = CHOOSE j \in Others : cont[j].bound = p
    BY <1>2
  <2> HIDE DEF holder
  <2> QED
    BY <1>1, <1>2, <2>1
<1>3. holder \in [FreePorts -> Others]
  <2>1. holder = [p \in FreePorts |-> holder[p]]
    OBVIOUS
  <2> HIDE DEF holder
  <2> QED
    BY <1>2, <2>1
<1>4. IsFiniteSet(Others) /\ Cardinality(Others) < Cardinality(FreePorts)
  <2>1. IsFiniteSet(Others) /\ Cardinality(Others) = Cardinality(Launched) - 1
    BY FS_RemoveElement
  <2>2. Cardinality(Launched) \in Nat /\ Cardinality(FreePorts) \in Nat
    BY FS_CardinalityType
  <2> HIDE DEF Others
  <2> QED
    BY <2>1, <2>2
<1> HIDE DEF holder, Others
<1>5. \E p, q \in FreePorts : p # q /\ holder[p] = holder[q]
  BY <1>3, <1>4, FS_PigeonHole
<1> QED
  BY <1>2, <1>5

\* The "Zero-Conflict Guarantee" for any projects, tags, processes and foreign
\* programs, as long as docker has at least as many free ports as there are
\* sandboxes to launch: what docker chooses is free, whoever else starts at that
\* moment (hooks/up.py, auto_port_alloc).
THEOREM NoConflict ==
  ASSUME IsFiniteSet(Launched), IsFiniteSet(FreePorts),
         Cardinality(Launched) <= Cardinality(FreePorts)
  PROVE  Spec => []ZeroConflict
<1>1. Init => Chosen /\ Launchers /\ ZeroConflict
  <2> SUFFICES ASSUME Init PROVE Chosen /\ Launchers /\ ZeroConflict
    OBVIOUS
  <2>1. \A r \in Runs : pc[r] = "idle"
    BY DEF Init
  <2>2. Chosen /\ ZeroConflict /\ \A r \in Runs : pc[r] \notin Upping
    BY <2>1 DEF Chosen, ZeroConflict, Upping, Writing
  <2>3. \A i \in Instances : ~Running(i) /\ ~Exists(i)
    BY DEF Init, NoContainer, Running, Exists
  <2> QED
    BY <2>2, <2>3 DEF Launchers
<1>2. Types /\ Chosen /\ Launchers /\ ZeroConflict /\ [Next]_vars => ZeroConflict'
  <2> SUFFICES ASSUME Types, Chosen, Launchers, ZeroConflict, [Next]_vars, NEW q \in Runs,
                      pc'[q] = "port taken", Unasked(q)'
               PROVE  FALSE
    BY DEF ZeroConflict, Unasked
  <2>1. CASE UNCHANGED vars
    BY <2>1 DEF ZeroConflict, Unasked, vars
  <2>2. ASSUME NEW r \in Runs, NEW c \in Commands, Begin(r, c) PROVE FALSE
    <3>1. /\ pc' = [pc EXCEPT ![r] = pc'[r]] /\ job' = [job EXCEPT ![r] = c]
          /\ pc'[r] # "port taken"
      BY <2>2, Begins
    <3> QED
      BY <3>1 DEF ZeroConflict, Unasked, Types
  <2>3. ASSUME NEW r \in Runs, Works(r) PROVE FALSE
    <3>1. pc' = [pc EXCEPT ![r] = pc'[r]] /\ pc[r] # "idle" /\ job' = job
      BY <2>3, Moves
    <3>2. Unasked(q)
      BY <3>1 DEF Unasked
    <3>3. CASE q # r
      BY <3>1, <3>2, <3>3 DEF ZeroConflict, Unasked, Types
    <3>4. CASE q = r
      <4>1. ComposeUpNoPort(r) /\ Inst(r) \in Instances
        BY <2>3, <3>1, <3>4, ToCompose, JobIs
      <4>2. port[r] = Ephemeral
        BY <3>2, <3>4, <4>1 DEF Chosen, ComposeUpNoPort
      <4>3. Inst(r) \in Launched
        BY <3>1, <4>1, JobIs DEF ComposeUpNoPort, Launchers, Launched, Upping, Inst
      <4> QED
        BY <4>1, <4>2, <4>3, FreePortLeft DEF ComposeUpNoPort
    <3> QED
      BY <3>3, <3>4
  <2> QED
    BY <2>1, <2>2, <2>3, StepIs
<1>3. Inv => Types
  BY DEF Inv
<1> QED
  BY <1>1, <1>2, <1>3, ChosenKept, LaunchersKept, Inductive, PTL DEF Spec

===============================================================================
