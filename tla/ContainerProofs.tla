--------------------------- MODULE ContainerProofs ---------------------------
(***************************************************************************)
(* A container from the inside (Container) and from the outside            *)
(* (LiveVerbs).                                                            *)
(*                                                                         *)
(* Inside, for every grace period and any number of stops: a clean exit    *)
(* status after one stop, the time of the IDE and the time of supervisord. *)
(* The last two need the grace period the connectors declare, and say how  *)
(* much of it each one uses.                                               *)
(*                                                                         *)
(* Outside, for any number of runs, projects, variants and events: a sync  *)
(* that reports success has delivered, and a snapshot is of the sandbox    *)
(* that was meant, because of what VerbsInv says each run still knows of   *)
(* the containers it has looked at; and the batch is that of Batch.        *)
(***************************************************************************)
EXTENDS Container, LiveVerbs, TLAPS, WellFoundedInduction

-----------------------------------------------------------------------------
(* The end of a container: the inductive invariant *)

Before == {"boot", "trapped", "forked", "waiting"}

Types ==
    /\ pc \in Before \cup {"hooks", "reap", "gone"}
    /\ shuttingDown \in BOOLEAN /\ knowsPid \in BOOLEAN /\ pending \in BOOLEAN
    /\ supervisor \in {"none", "up", "stopping", "gone", "cut"}
    /\ ide \in {"none", "window", "hidden", "gone"}
    /\ hook \in {"idle", "search", "quit", "term", "done"}
    /\ status \in {"running", "hook", "supervisor", "0", "137"}
    /\ waited \in Nat /\ age \in 0..HookLimit /\ stops \in Nat /\ clock \in 0..Grace
    /\ heardAt \in 0..NotYet /\ askedAt \in 0..NotYet /\ askedAge \in Nat
    /\ signalledAt \in 0..NotYet /\ termAt \in 0..NotYet

\* The shell: what it knows and has started at each place, and that the
\* handler has run before its second half and never twice.
Shell ==
    /\ status = "running" <=> Alive
    /\ knowsPid \/ pc \in {"forked", "waiting"} => supervisor # "none"
    /\ supervisor = "stopping" => pc = "reap"
    /\ supervisor = "cut" => pc = "gone"
    /\ pc \in Before =>
         /\ ~shuttingDown /\ hook = "idle"
         /\ heardAt = NotYet /\ askedAt = NotYet /\ signalledAt = NotYet
    /\ InHandler => shuttingDown /\ hook # "idle" /\ stops > 0
    /\ pc = "reap" => hook = "done"

\* The hook: the seconds of its loops are seconds of the clock, and while it
\* searches the IDE has been neither asked nor signalled.
Hook ==
    /\ pc = "hooks" /\ heardAt = 0 => clock = age
    /\ hook = "search" => askedAt = NotYet /\ signalledAt = NotYet
    /\ hook = "quit" =>
         /\ signalledAt = NotYet /\ askedAt <= Grace /\ ide # "none"
         /\ waited <= QuitWait /\ clock = askedAt + waited /\ age = askedAge + waited
    /\ askedAt # NotYet /\ heardAt = 0 => askedAt = askedAge

\* After the question: the IDE is gone by itself, or has had its time.
Answer ==
    /\ InHandler /\ hook \in {"term", "done"}
    /\ heardAt = 0 /\ askedAt # NotYet /\ askedAge <= HookLimit - 12
    => \/ signalledAt = NotYet /\ (ide = "gone" \/ clock >= askedAt + 12)
       \/ signalledAt # NotYet /\ signalledAt >= askedAt + 12

\* supervisord is sent SIGTERM within the hook's time limit.
Term == pc = "reap" /\ heardAt = 0 => termAt <= HookLimit

LifeInv == Types /\ Shell /\ Hook /\ Answer /\ Term

LEMMA LifeInvInit == Init => LifeInv
<1> SUFFICES ASSUME Init PROVE LifeInv
  OBVIOUS
<1>1. 0 \in 0..Grace /\ NotYet \in Nat /\ NotYet \in 0..NotYet /\ NotYet # 0
  BY ContainerAssumption DEF NotYet
<1>2. Types
  <2>1. /\ waited \in Nat /\ age \in 0..HookLimit /\ stops \in Nat /\ clock \in 0..Grace
        /\ heardAt \in 0..NotYet /\ askedAt \in 0..NotYet /\ askedAge \in Nat
        /\ signalledAt \in 0..NotYet /\ termAt \in 0..NotYet
    BY <1>1 DEF Init, HookLimit
  <2> QED
    BY <2>1 DEF Init, Types, Before
<1>3. Shell /\ Hook /\ Answer /\ Term
  BY <1>1 DEF Init, Shell, Hook, Answer, Term, Before, Alive, InHandler
<1> QED
  BY <1>2, <1>3 DEF LifeInv

LEMMA LifeInvStep == LifeInv /\ [Next]_vars => LifeInv'
<1> SUFFICES ASSUME LifeInv, [Next]_vars PROVE LifeInv'
  OBVIOUS
<1> USE ContainerAssumption
    DEF NotYet, HookLimit, QuitWait, TermWait, LifeInv, Types, Shell, Hook, Answer, Term,
        Before, Alive, InHandler, IdeRuns, shell, script, history, InHook, Signalled
<1>1. CASE SetTrap
  BY <1>1 DEF SetTrap
<1>2. CASE BootFails
  BY <1>2 DEF BootFails, Exit
<1>3. CASE Fork
  BY <1>3 DEF Fork
<1>4. CASE RememberPid
  BY <1>4 DEF RememberPid
<1>5. CASE ExitWithSupervisor
  BY <1>5 DEF ExitWithSupervisor, Exit
<1>6. CASE Idle
  BY <1>6 DEF Idle, Second
<1>7. CASE StopIgnored
  BY <1>7 DEF StopIgnored, Stop
<1>8. CASE StopHeard
  <2>1. /\ pc' = "hooks" /\ shuttingDown' /\ hook' = "search" /\ waited' = 0 /\ age' = 0
        /\ heardAt' = clock
    BY <1>8 DEF StopHeard, Handler
  <2>2. Types'
    BY <1>8, <2>1 DEF StopHeard, Stop
  <2>3. Shell'
    BY <1>8, <2>1 DEF StopHeard, Stop
  <2>4. Hook' /\ Answer' /\ Term'
    BY <1>8, <2>1 DEF StopHeard, Stop
  <2> QED
    BY <2>2, <2>3, <2>4
<1>9. CASE StopDeferred
  BY <1>9 DEF StopDeferred, Stop
<1>10. CASE StopInterruptsReap
  BY <1>10 DEF StopInterruptsReap, Stop, Exit
<1>11. CASE NestedHandler
  BY <1>11 DEF NestedHandler, Handler
<1>12. CASE EndSupervisor
  BY <1>12 DEF EndSupervisor
<1>13. CASE NoSupervisorToEnd
  BY <1>13 DEF NoSupervisorToEnd, Exit
<1>14. CASE Reap
  BY <1>14 DEF Reap, Exit, Second
<1>15. CASE Search
  BY <1>15 DEF Search, HookSecond, Second
<1>16. CASE AskIde
  BY <1>16 DEF AskIde
<1>17. CASE NothingToAsk
  BY <1>17 DEF NothingToAsk, TermIde
<1>18. CASE QuitPoll
  BY <1>18 DEF QuitPoll, Poll, HookSecond, Second
<1>19. CASE QuitExpires
  BY <1>19 DEF QuitExpires, TermIde
<1>20. CASE TermPoll
  BY <1>20 DEF TermPoll, Poll, HookSecond, Second
<1>21. CASE TermExpires
  BY <1>21 DEF TermExpires
<1>22. CASE HookTimesOut
  BY <1>22 DEF HookTimesOut
<1>23. CASE OpenIde
  BY <1>23 DEF OpenIde
<1>24. CASE HideIde
  BY <1>24 DEF HideIde
<1>25. CASE CloseIde
  BY <1>25 DEF CloseIde
<1>26. CASE SupervisorEnds
  BY <1>26 DEF SupervisorEnds
<1>27. CASE DockerKill
  BY <1>27 DEF DockerKill, Exit
<1>28. CASE UNCHANGED vars
  BY <1>28 DEF vars
<1> QED
  BY <1>1, <1>2, <1>3, <1>4, <1>5, <1>6, <1>7, <1>8, <1>9, <1>10, <1>11,
     <1>12, <1>13, <1>14, <1>15, <1>16, <1>17, <1>18, <1>19, <1>20, <1>21,
     <1>22, <1>23, <1>24, <1>25, <1>26, <1>27, <1>28 DEF Next

LEMMA LifeAlways == Spec => []LifeInv
BY LifeInvInit, LifeInvStep, PTL DEF Spec

-----------------------------------------------------------------------------
(* The end *)

\* What the runs check, with the part of the grace period each one needs.
GoodEnd ==
    /\ Grace >= HookLimit => IdeGetsItsTime
    /\ Grace >= HookLimit + 8 => RoomForSupervisor

LEMMA GoodEndStep == LifeInv /\ GoodEnd /\ [Next]_vars => GoodEnd'
<1> SUFFICES ASSUME LifeInv, GoodEnd, [Next]_vars PROVE GoodEnd'
  OBVIOUS
<1> USE ContainerAssumption
    DEF NotYet, HookLimit, QuitWait, TermWait, LifeInv, Types, Shell, Hook, Answer, Term,
        GoodEnd, IdeGetsItsTime, RoomForSupervisor,
        Before, Alive, InHandler, IdeRuns, shell, script, history, InHook, Signalled
<1>1. CASE SetTrap
  BY <1>1 DEF SetTrap
<1>2. CASE BootFails
  BY <1>2 DEF BootFails, Exit
<1>3. CASE Fork
  BY <1>3 DEF Fork
<1>4. CASE RememberPid
  BY <1>4 DEF RememberPid
<1>5. CASE ExitWithSupervisor
  BY <1>5 DEF ExitWithSupervisor, Exit
<1>6. CASE Idle
  BY <1>6 DEF Idle, Second
<1>7. CASE StopIgnored
  BY <1>7 DEF StopIgnored, Stop
<1>8. CASE StopHeard
  BY <1>8 DEF StopHeard, Stop, Handler
<1>9. CASE StopDeferred
  BY <1>9 DEF StopDeferred, Stop
<1>10. CASE StopInterruptsReap
  BY <1>10 DEF StopInterruptsReap, Stop, Exit
<1>11. CASE NestedHandler
  BY <1>11 DEF NestedHandler, Handler
<1>12. CASE EndSupervisor
  BY <1>12 DEF EndSupervisor
<1>13. CASE NoSupervisorToEnd
  BY <1>13 DEF NoSupervisorToEnd, Exit
<1>14. CASE Reap
  BY <1>14 DEF Reap, Exit, Second
<1>15. CASE Search
  BY <1>15 DEF Search, HookSecond, Second
<1>16. CASE AskIde
  BY <1>16 DEF AskIde
<1>17. CASE NothingToAsk
  BY <1>17 DEF NothingToAsk, TermIde
<1>18. CASE QuitPoll
  BY <1>18 DEF QuitPoll, Poll, HookSecond, Second
<1>19. CASE QuitExpires
  BY <1>19 DEF QuitExpires, TermIde
<1>20. CASE TermPoll
  BY <1>20 DEF TermPoll, Poll, HookSecond, Second
<1>21. CASE TermExpires
  BY <1>21 DEF TermExpires
<1>22. CASE HookTimesOut
  BY <1>22 DEF HookTimesOut
<1>23. CASE OpenIde
  BY <1>23 DEF OpenIde
<1>24. CASE HideIde
  BY <1>24 DEF HideIde
<1>25. CASE CloseIde
  BY <1>25 DEF CloseIde
<1>26. CASE SupervisorEnds
  BY <1>26 DEF SupervisorEnds
<1>27. CASE DockerKill
  BY <1>27 DEF DockerKill, Exit
<1>28. CASE UNCHANGED vars
  BY <1>28 DEF vars
<1> QED
  BY <1>1, <1>2, <1>3, <1>4, <1>5, <1>6, <1>7, <1>8, <1>9, <1>10, <1>11,
     <1>12, <1>13, <1>14, <1>15, <1>16, <1>17, <1>18, <1>19, <1>20, <1>21,
     <1>22, <1>23, <1>24, <1>25, <1>26, <1>27, <1>28 DEF Next

LEMMA GoodEndAlways == Spec => []GoodEnd
<1>1. Init => GoodEnd
  BY DEF Init, GoodEnd, IdeGetsItsTime, RoomForSupervisor
<1> QED
  BY <1>1, GoodEndStep, LifeAlways, PTL DEF Spec

\* Whatever the number of stops and whenever supervisord crashes, an exit 0
\* leaves it running in two windows only: a handler that began before the shell
\* knew the pid, and a further stop during the handler's wait.
THEOREM CleanExit == Spec => CleanExitMeansStopped
<1> DEFINE Cut == status # "0" /\ status' = "0" /\ supervisor' = "cut"
                    => \/ pc = "hooks" /\ ~knowsPid
                       \/ pc = "reap" /\ stops' = stops + 1
<1>1. LifeInv /\ [Next]_vars => [Cut]_vars
  <2> SUFFICES ASSUME LifeInv, Next, status # "0", status' = "0", supervisor' = "cut"
               PROVE  \/ pc = "hooks" /\ ~knowsPid
                      \/ pc = "reap" /\ stops' = stops + 1
    BY DEF vars
  <2>1. Shell
    BY DEF LifeInv
  <2>2. StopInterruptsReap \/ NoSupervisorToEnd \/ Reap
    BY DEF Next, SetTrap, BootFails, Fork, RememberPid, ExitWithSupervisor, Idle, StopIgnored,
       StopHeard, StopDeferred, NestedHandler, EndSupervisor, Search, AskIde, NothingToAsk,
       QuitPoll, QuitExpires, TermPoll, TermExpires, HookTimesOut, OpenIde, HideIde, CloseIde,
       SupervisorEnds, DockerKill, Exit, shell
  <2>3. CASE StopInterruptsReap
    BY <2>3 DEF StopInterruptsReap, Stop
  <2>4. CASE NoSupervisorToEnd
    BY <2>1, <2>4 DEF NoSupervisorToEnd, Exit, Shell
  <2>5. CASE Reap
    BY <2>1, <2>5 DEF Reap, Exit, Shell
  <2> QED
    BY <2>2, <2>3, <2>4, <2>5
<1>2. [Next]_vars /\ LifeInv => [Cut]_vars
  BY <1>1
<1> QED
  BY <1>2, LifeAlways, PTL DEF Spec, CleanExitMeansStopped

\* For every grace period of at least the time limit of the hooks, an IDE that
\* was asked to quit has twelve seconds before any signal: PID 1 does not end,
\* and Docker does not kill, while the hook waits for it.
THEOREM IdeTime ==
  ASSUME Grace >= HookLimit
  PROVE  Spec => []IdeGetsItsTime
<1>1. GoodEnd => IdeGetsItsTime
  BY DEF GoodEnd
<1> QED
  BY <1>1, GoodEndAlways, PTL

\* For every grace period of at least the hooks' time limit and eight seconds:
\* supervisord is asked to stop those eight seconds before the SIGKILL.
THEOREM SupervisorTime ==
  ASSUME Grace >= HookLimit + 8
  PROVE  Spec => []RoomForSupervisor
<1>1. GoodEnd => RoomForSupervisor
  BY DEF GoodEnd
<1> QED
  BY <1>1, GoodEndAlways, PTL

-----------------------------------------------------------------------------
(* The verbs: the inductive invariant *)

Delivering == {"config", "poll", "mkdir", "tar", "chown"}
Picking    == {"project", "variant", "choose", "commit"}
Over       == {"ok", "failed", "error", "interrupted", "cancelled"}

Homes == [files : {"none", "dir", "part", "whole"}, own : BOOLEAN, login : BOOLEAN]

DockerTypes ==
  /\ cont \in [Instance -> Containers]
  /\ volume \in [Instance -> Homes]
  /\ layer \in [Instance -> Homes]
  /\ DOMAIN images = Targets
  /\ config \in {"missing", "there", "torn"}
  /\ steady \in [Runs -> SUBSET Instance]

VerbTypes ==
  /\ job \in [Runs -> Jobs \cup {NoJob}]
  /\ at \in [Runs -> {"idle"} \cup Working \cup Picking \cup Over]
  /\ todo \in [Runs -> SUBSET Project]
  /\ user \in [Runs -> Users \cup {""}]
  /\ inst \in [Runs -> Instance \cup {<<>>}]
  /\ project \in [Runs -> Project \cup {""}]
  /\ found \in [Runs -> SUBSET Instance]
  /\ verdict \in [Runs -> [Project -> {"none", "synced", "partial", "skipped", "failed"}]]

\* Each place belongs to a verb, and what has been looked for has been found.
Placed(r) ==
  /\ at[r] = "idle" => job[r] = NoJob /\ todo[r] = {}
  /\ at[r] \in Working => job[r].verb \in {"sync", "up"}
  /\ at[r] \in Picking => job[r] \in Jobs /\ job[r].verb = "snapshot"
  /\ at[r] \in Working \ {"next"} => todo[r] # {}
  /\ at[r] \in Delivering => inst[r] \in Instance /\ inst[r][1] = Current(r)

\* A run's history speaks of containers that are there.
Steady(r) == steady[r] \subseteq Sandboxes

\* Between the transfer and the chown, the files stay where they are.
Transferred(r) ==
  at[r] = "chown" /\ inst[r] \in steady[r] /\ config # "torn" =>
    Home(inst[r], user[r]).files = "whole"

\* What snapshot has narrowed its choice to.
Narrowed(r) ==
  /\ at[r] \in {"variant", "choose", "commit"} =>
       IF job[r].name # DefaultProject THEN project[r] = job[r].name
       ELSE \A j \in steady[r] : j[1] = project[r]
  /\ at[r] = "choose" => /\ job[r].tty /\ job[r].variant = ""
                         /\ \A i \in found[r] : i[1] = project[r]
  /\ at[r] = "commit" =>
       /\ inst[r] \in Instance /\ inst[r][1] = project[r]
       /\ IF job[r].variant # "" THEN inst[r][2] = job[r].variant
          ELSE job[r].tty \/ \A j \in steady[r] : j[1] = project[r] => j = inst[r]

VerbsInv ==
  /\ DockerTypes /\ VerbTypes
  /\ \A r \in Runs : Placed(r) /\ Steady(r) /\ Transferred(r) /\ Narrowed(r)

-----------------------------------------------------------------------------
(* Orders *)

LEMMA EarliestIn ==
  ASSUME NEW order, DOMAIN order \subseteq Nat, NEW S, \E k \in DOMAIN order : order[k] \in S
  PROVE  Earliest(order, S) \in S
<1> DEFINE T == {k \in DOMAIN order : order[k] \in S}
           R == {ss \in Nat \X Nat : ss[1] < ss[2]}
<1>1. IsWellFoundedOn(R, Nat)
  BY NatLessThanWellFounded DEF OpToRel
<1>2. T \subseteq Nat /\ T # {}
  OBVIOUS
<1> HIDE DEF R, T
<1>3. PICK x \in T : \A y \in T : ~(<<y, x>> \in R)
  BY <1>1, <1>2, WFMin
<1>4. \A y \in T : x <= y
  <2>1. \A y \in T : ~(y < x)
    BY <1>2, <1>3 DEF R
  <2> QED
    BY <1>2, <2>1
<1>5. Min(T) \in T
  BY <1>4 DEF Min
<1> QED
  BY <1>5 DEF Earliest, T

LEMMA InOrder == DOMAIN Projects \subseteq Nat /\ DOMAIN Variants \subseteq Nat
<1>1. ASSUME NEW S, NEW s \in Seq(S) PROVE DOMAIN s \subseteq Nat
  OBVIOUS
<1>2. Projects \in Seq(Project) /\ Variants \in Seq(ToSet(Variants))
  BY LiveVerbsAssumption, Zenon
<1> QED
  BY <1>1, <1>2

LEMMA FirstIn ==
  ASSUME NEW p, NEW S \in SUBSET Instance, S # {}, \A i \in S : i[1] = p
  PROVE  FirstOf(p, S) \in S
<1> DEFINE order == [k \in DOMAIN Variants |-> <<p, Variants[k]>>]
<1>1. PICK i \in S : TRUE
  OBVIOUS
<1>2. PICK k \in DOMAIN Variants : i[2] = Variants[k]
  BY <1>1 DEF Instance, ToSet
<1>3. i = <<p, Variants[k]>>
  BY <1>1, <1>2 DEF Instance
<1>4. DOMAIN Variants \subseteq Nat
  BY InOrder
<1> QED
  BY <1>1, <1>3, <1>4, EarliestIn DEF FirstOf

LEMMA CurrentIn ==
  ASSUME NEW r \in Runs, todo[r] \subseteq Project, todo[r] # {}
  PROVE  Current(r) \in todo[r]
<1>1. DOMAIN Projects \subseteq Nat
  BY InOrder
<1>2. \E k \in DOMAIN Projects : Projects[k] \in todo[r]
  BY DEF Project, ToSet
<1> QED
  BY <1>1, <1>2, EarliestIn DEF Current

LEMMA JobFields ==
  ASSUME NEW q \in Jobs
  PROVE  /\ q.verb \in {"sync", "up", "snapshot"} /\ q # NoJob
         /\ q.name \in Project \cup {DefaultProject} /\ q.tty \in BOOLEAN
         /\ q.verb = "up" => <<q.name, q.variant>> \in Instance /\ q.name \in Project
         /\ q.verb = "snapshot" => q.tag \in Targets
<1>1. q \in Job
  BY LiveVerbsAssumption
<1>2. q.verb \in {"sync", "up", "snapshot"}
  BY <1>1 DEF Job
<1>5. q.name \in Project \cup {DefaultProject} /\ q.tty \in BOOLEAN
  BY <1>1 DEF Job
<1>6. q # NoJob
  BY <1>2 DEF NoJob
<1>3. q.verb = "up" => <<q.name, q.variant>> \in Instance /\ q.name \in Project
  BY LiveVerbsAssumption DEF Instance
<1>4. q.verb = "snapshot" => q.tag \in Targets
  <2>1. q.tag \in Targets \cup {""}
    BY <1>1 DEF Job
  <2> QED
    BY <2>1, LiveVerbsAssumption
<1> QED
  BY <1>2, <1>3, <1>4, <1>5, <1>6

-----------------------------------------------------------------------------
(* Types *)

LEMMA VerbsInvInit == VerbsInit => VerbsInv
<1> SUFFICES ASSUME VerbsInit PROVE VerbsInv
  OBVIOUS
<1>1. DockerTypes
  BY LiveVerbsAssumption DEF VerbsInit, DockerTypes, Empty, Homes
<1>2. VerbTypes
  BY DEF VerbsInit, VerbTypes
<1>3. \A r \in Runs : at[r] = "idle" /\ job[r] = NoJob /\ todo[r] = {} /\ steady[r] = {}
  BY DEF VerbsInit
<1>4. \A r \in Runs : Placed(r) /\ Steady(r) /\ Transferred(r) /\ Narrowed(r)
  BY <1>3 DEF Placed, Steady, Transferred, Narrowed, Working, Picking, Delivering
<1> QED
  BY <1>1, <1>2, <1>4 DEF VerbsInv

LEMMA HomeTypes ==
  ASSUME DockerTypes, NEW i \in Instance, NEW u
  PROVE  /\ Home(i, u) \in Homes
         /\ \A h \in Homes : SetHome(i, u, h) =>
              volume' \in [Instance -> Homes] /\ layer' \in [Instance -> Homes]
BY DEF DockerTypes, Home, SetHome

Verdicts == {"none", "synced", "partial", "skipped", "failed"}

LEMMA VerdictTypes ==
  ASSUME VerbTypes, NEW r \in Runs, NEW v \in Verdicts, Verdict(r, v)
  PROVE  /\ verdict' \in [Runs -> [Project -> Verdicts]]
         /\ todo' \in [Runs -> SUBSET Project]
         /\ at' = [at EXCEPT ![r] = "next"]
<1>1. [verdict[r] EXCEPT ![Current(r)] = v] \in [Project -> Verdicts]
  BY DEF VerbTypes, Verdicts
<1>2. verdict' = [verdict EXCEPT ![r] = [verdict[r] EXCEPT ![Current(r)] = v]]
  BY DEF Verdict, VerbTypes
<1>3. verdict' \in [Runs -> [Project -> Verdicts]]
  BY <1>1, <1>2 DEF VerbTypes, Verdicts
<1>4. todo' \in [Runs -> SUBSET Project] /\ at' = [at EXCEPT ![r] = "next"]
  BY DEF Verdict, VerbTypes, Goto
<1> QED
  BY <1>3, <1>4

LEMMA VerbsTypesStep ==
  ASSUME VerbsInv, [VerbsNext]_verbsVars
  PROVE  DockerTypes' /\ VerbTypes'
<1>0. DockerTypes /\ VerbTypes
  BY DEF VerbsInv
<1>H. Empty \in Homes /\ NoContainer \in Containers
  BY DEF Empty, Homes, NoContainer, Containers
<1>1. ASSUME NEW r \in Runs, GetEnv(r) PROVE DockerTypes' /\ VerbTypes'
  <2>1. Of(Current(r)) # {} => cont[FirstOf(Current(r), Of(Current(r)))].user \in Users \cup {""}
    <3>1. Of(Current(r)) \subseteq Instance /\ \A i \in Of(Current(r)) : i[1] = Current(r)
      BY DEF Of, Sandboxes
    <3> QED
      BY <1>0, <3>1, FirstIn DEF DockerTypes, Containers
  <2>2. Caller[r] \in Users
    BY LiveVerbsAssumption
  <2> QED
    BY <1>0, <1>1, <2>1, <2>2 DEF GetEnv, docker, past, DockerTypes, VerbTypes, Working,
       Picking, Over, Goto
<1>2. ASSUME NEW r \in Runs, Find(r) PROVE DockerTypes' /\ VerbTypes'
  <2>1. Live(Current(r)) \subseteq Instance /\ \A i \in Live(Current(r)) : i[1] = Current(r)
    BY DEF Live, Of, Sandboxes
  <2>2. FirstOf(Current(r), Live(Current(r))) \in Instance
    BY <1>2, <2>1, FirstIn DEF Find
  <2> QED
    BY <1>0, <1>2, <2>2 DEF Find, Look, Sandboxes, docker, DockerTypes, VerbTypes, Working,
       Picking, Over, Goto
<1>3. ASSUME NEW r \in Runs, FindNone(r) PROVE DockerTypes' /\ VerbTypes'
  BY <1>0, <1>3 DEF FindNone, DockerTypes, VerbTypes, Working, Picking, Over, docker, run,
     past, Goto, Verdict
<1>4. ASSUME NEW r \in Runs, FailProject(r) PROVE DockerTypes' /\ VerbTypes'
  BY <1>0, <1>4 DEF FailProject, DockerTypes, VerbTypes, Working, Picking, Over, docker, run,
     past, Goto, Verdict
<1>5. ASSUME NEW r \in Runs, Report(r) PROVE DockerTypes' /\ VerbTypes'
  BY <1>0, <1>5 DEF Report, DockerTypes, VerbTypes, Working, Picking, Over, docker, run, past,
     Goto
<1>6. ASSUME NEW r \in Runs, HasConfig(r) PROVE DockerTypes' /\ VerbTypes'
  BY <1>0, <1>6 DEF HasConfig, DockerTypes, VerbTypes, Working, Picking, Over, docker, run,
     past, Goto
<1>7. ASSUME NEW r \in Runs, SkipConfig(r) PROVE DockerTypes' /\ VerbTypes'
  BY <1>0, <1>7 DEF SkipConfig, DockerTypes, VerbTypes, Working, Picking, Over, docker, run,
     past, Goto, Verdict
<1>8. ASSUME NEW r \in Runs, MakeConfig(r) PROVE DockerTypes' /\ VerbTypes'
  <2>1. DockerTypes' /\ UNCHANGED <<job, user, inst, project, found>>
    BY <1>0, <1>8 DEF MakeConfig, docker, past, DockerTypes
  <2>2. CASE Verdict(r, "failed")
    BY <1>0, <2>1, <2>2, VerdictTypes DEF VerbTypes, Verdicts, Working
  <2>3. CASE Goto(r, "poll") /\ UNCHANGED <<todo, verdict>>
    BY <1>0, <2>1, <2>3 DEF Goto, VerbTypes, Working
  <2> QED
    BY <1>8, <2>2, <2>3 DEF MakeConfig
<1>9. ASSUME NEW r \in Runs, WaitForUser(r) PROVE DockerTypes' /\ VerbTypes'
  BY <1>0, <1>9 DEF WaitForUser, DockerTypes, VerbTypes, Working, Picking, Over, docker, run,
     past, Goto
<1>10. ASSUME NEW r \in Runs, Mkdir(r) PROVE DockerTypes' /\ VerbTypes'
  <2>1. inst[r] \in Instance
    BY <1>10 DEF Mkdir, VerbsInv, Placed, Delivering
  <2>2. Home(inst[r], user[r]) \in Homes
    BY <1>0, <2>1, HomeTypes
  <2>3. [Home(inst[r], user[r]) EXCEPT !.files = IF @ = "none" THEN "dir" ELSE @] \in Homes
    BY <2>2 DEF Homes
  <2>4. volume' \in [Instance -> Homes] /\ layer' \in [Instance -> Homes]
    BY <1>0, <1>10, <2>1, <2>3, HomeTypes DEF Mkdir
  <2> QED
    BY <1>0, <1>10, <2>4 DEF Mkdir, run, past, DockerTypes, VerbTypes, Working, Picking, Over,
       Goto
<1>11. ASSUME NEW r \in Runs, Tar(r) PROVE DockerTypes' /\ VerbTypes'
  <2>1. inst[r] \in Instance
    BY <1>11 DEF Tar, VerbsInv, Placed, Delivering
  <2>2. Home(inst[r], user[r]) \in Homes
    BY <1>0, <2>1, HomeTypes
  <2>3. [Home(inst[r], user[r]) EXCEPT
           !.own = FALSE,
           !.files = IF config = "torn" /\ @ # "whole" THEN "part" ELSE "whole"] \in Homes
    BY <2>2 DEF Homes
  <2>4. volume' \in [Instance -> Homes] /\ layer' \in [Instance -> Homes]
    BY <1>0, <1>11, <2>1, <2>3, HomeTypes DEF Tar
  <2> QED
    BY <1>0, <1>11, <2>4 DEF Tar, run, past, DockerTypes, VerbTypes, Working, Picking, Over,
       Goto
<1>12. ASSUME NEW r \in Runs, Chown(r) PROVE DockerTypes' /\ VerbTypes'
  <2>1. inst[r] \in Instance
    BY <1>12 DEF Chown, VerbsInv, Placed, Delivering
  <2>2. Home(inst[r], user[r]) \in Homes
    BY <1>0, <2>1, HomeTypes
  <2>3. [Home(inst[r], user[r]) EXCEPT !.own = TRUE] \in Homes
    BY <2>2 DEF Homes
  <2>4. volume' \in [Instance -> Homes] /\ layer' \in [Instance -> Homes]
    BY <1>0, <1>12, <2>1, <2>3, HomeTypes DEF Chown, DockerTypes
  <2>5. Verdict(r, "synced") \/ Verdict(r, "partial")
    BY <1>12 DEF Chown
  <2>6. /\ verdict' \in [Runs -> [Project -> Verdicts]]
        /\ todo' \in [Runs -> SUBSET Project]
        /\ at' = [at EXCEPT ![r] = "next"]
    BY <1>0, <2>5, VerdictTypes DEF Verdicts
  <2> QED
    BY <1>0, <1>12, <2>4, <2>6 DEF Chown, past, DockerTypes, VerbTypes, Working, Verdicts
<1>13. ASSUME NEW r \in Runs, ResolveProject(r) PROVE DockerTypes' /\ VerbTypes'
  <2>1. DockerTypes'
    BY <1>0, <1>13 DEF ResolveProject, docker, past, DockerTypes
  <2>2. VerbTypes'
    BY <1>0, <1>13 DEF ResolveProject, VerbTypes, Picking, Goto
  <2> QED
    BY <2>1, <2>2
<1>14. ASSUME NEW r \in Runs, NoProject(r) PROVE DockerTypes' /\ VerbTypes'
  BY <1>0, <1>14 DEF NoProject, DockerTypes, VerbTypes, Working, Picking, Over, docker, run,
     past, Goto, Cancel
<1>15. ASSUME NEW r \in Runs, ResolveContainer(r) PROVE DockerTypes' /\ VerbTypes'
  <2>1. DockerTypes'
    BY <1>0, <1>15 DEF ResolveContainer, docker, past, DockerTypes
  <2>2. PICK i \in Instance : inst' = [inst EXCEPT ![r] = i]
    BY <1>15 DEF ResolveContainer, Of, Sandboxes
  <2>3. VerbTypes'
    BY <1>0, <1>15, <2>2 DEF ResolveContainer, VerbTypes, Picking, Goto
  <2> QED
    BY <2>1, <2>3
<1>16. ASSUME NEW r \in Runs, OffersChoice(r) PROVE DockerTypes' /\ VerbTypes'
  <2>1. DockerTypes'
    BY <1>0, <1>16 DEF OffersChoice, docker, past, DockerTypes
  <2>2. Of(project[r]) \subseteq Instance
    BY DEF Of, Sandboxes
  <2>3. VerbTypes'
    BY <1>0, <1>16, <2>2 DEF OffersChoice, VerbTypes, Picking, Goto
  <2> QED
    BY <2>1, <2>3
<1>17. ASSUME NEW r \in Runs, Choose(r) PROVE DockerTypes' /\ VerbTypes'
  <2>1. DockerTypes'
    BY <1>0, <1>17 DEF Choose, docker, past, DockerTypes
  <2>2. VerbTypes'
    BY <1>0, <1>17, ZenonT(40) DEF Choose, VerbTypes, Picking, Goto
  <2> QED
    BY <2>1, <2>2
<1>18. ASSUME NEW r \in Runs, NoContainerFound(r) PROVE DockerTypes' /\ VerbTypes'
  BY <1>0, <1>18 DEF NoContainerFound, DockerTypes, VerbTypes, Working, Picking, Over, docker,
     run, past, Goto, Cancel
<1>19. ASSUME NEW r \in Runs, SnapshotFails(r) PROVE DockerTypes' /\ VerbTypes'
  BY <1>0, <1>19 DEF SnapshotFails, DockerTypes, VerbTypes, Working, Picking, Over, docker,
     run, past, Goto
<1>20. ASSUME NEW r \in Runs, Commit(r) PROVE DockerTypes' /\ VerbTypes'
  BY <1>0, <1>20 DEF Commit, DockerTypes, VerbTypes, Working, Picking, Over, docker, run, past,
     Goto
<1>21. ASSUME NEW r \in Runs, Interrupt(r) PROVE DockerTypes' /\ VerbTypes'
  BY <1>0, <1>21 DEF Interrupt, DockerTypes, VerbTypes, Working, Picking, Over, docker, run,
     past, Goto
<1>22. ASSUME NEW r \in Runs, NEW q \in Jobs, SyncBegins(r, q) PROVE DockerTypes' /\ VerbTypes'
  BY <1>0, <1>22, LiveVerbsAssumption DEF SyncBegins, DockerTypes, VerbTypes, Working, Picking,
     Over, docker, run, past, Goto, Ask, Active
<1>23. ASSUME NEW r \in Runs, NEW q \in Jobs, SyncNoDocker(r, q) PROVE DockerTypes' /\ VerbTypes'
  BY <1>0, <1>23, LiveVerbsAssumption DEF SyncNoDocker, DockerTypes, VerbTypes, Working,
     Picking, Over, docker, run, past, Goto, Ask
<1>24. ASSUME NEW r \in Runs, NEW q \in Jobs, UpBegins(r, q) PROVE DockerTypes' /\ VerbTypes'
  <2>1. LET i == <<q.name, q.variant>>
            c == [state |-> "running", user |-> Caller[r], mounted |-> TRUE, account |-> "none"]
        IN  i \in Instance /\ q.name \in Project /\ c \in Containers
    BY <1>24, JobFields, LiveVerbsAssumption DEF UpBegins, Containers
  <2>2. \A b \in BOOLEAN : [Empty EXCEPT !.login = b] \in Homes
    BY DEF Homes, Empty
  <2>3. cont' \in [Instance -> Containers]
    BY <1>0, <1>24, <2>1 DEF UpBegins, DockerTypes
  <2>4. layer' \in [Instance -> Homes]
    <3>1. PICK b \in BOOLEAN :
            layer' = [layer EXCEPT ![<<q.name, q.variant>>] = [Empty EXCEPT !.login = b]]
      BY <1>24, Zenon DEF UpBegins
    <3> QED
      BY <1>0, <2>2, <3>1 DEF DockerTypes
  <2>5. volume' \in [Instance -> Homes]
    <3> DEFINE i == <<q.name, q.variant>>
    <3>1. PICK b : volume' = [volume EXCEPT ![i].login = @ \/ b]
      BY <1>24, Zenon DEF UpBegins
    <3>2. PICK c \in BOOLEAN : volume' = [volume EXCEPT ![i].login = c]
      BY <3>1
    <3>3. \A h \in Homes : [h EXCEPT !.login = c] \in Homes
      BY DEF Homes
    <3> QED
      BY <1>0, <3>2, <3>3 DEF DockerTypes
  <2>6. steady' \in [Runs -> SUBSET Instance]
    BY <1>0, <1>24, <2>1 DEF UpBegins, DockerTypes, Replaced, Sandboxes
  <2>7. VerbTypes'
    BY <1>0, <1>24, <2>1, LiveVerbsAssumption DEF UpBegins, Ask, VerbTypes, Working, Goto
  <2> QED
    BY <1>0, <1>24, <2>3, <2>4, <2>5, <2>6, <2>7 DEF UpBegins, DockerTypes
<1>25. ASSUME NEW r \in Runs, NEW q \in Jobs, SnapshotBegins(r, q) PROVE DockerTypes' /\ VerbTypes'
  BY <1>0, <1>25, LiveVerbsAssumption DEF SnapshotBegins, DockerTypes, VerbTypes, Working,
     Picking, Over, docker, run, past, Goto, Ask, Look, Sandboxes
<1>26. ASSUME NEW i \in Instance, Boot(i) PROVE DockerTypes' /\ VerbTypes'
  <2>1. \A a \in {"user", "user and group"} : [cont[i] EXCEPT !.account = a] \in Containers
    BY <1>0 DEF DockerTypes, Containers
  <2> QED
    BY <1>0, <1>26, <2>1 DEF Boot, run, past, DockerTypes, VerbTypes
<1>27. ASSUME NEW i \in Instance, Switch(i) PROVE DockerTypes' /\ VerbTypes'
  <2>1. \A s \in {"running", "paused", "exited"} : [cont[i] EXCEPT !.state = s] \in Containers
    BY <1>0 DEF DockerTypes, Containers
  <2>2. cont' \in [Instance -> Containers]
    BY <1>0, <1>27, <2>1 DEF Switch, DockerTypes
  <2>3. DockerTypes'
    BY <1>0, <1>27, <2>2 DEF Switch, DockerTypes
  <2>4. VerbTypes'
    BY <1>0, <1>27 DEF Switch, run, VerbTypes
  <2> QED
    BY <2>3, <2>4
<1>28. ASSUME NEW i \in Instance, RemoveContainer(i) PROVE DockerTypes' /\ VerbTypes'
  <2>1. cont' \in [Instance -> Containers] /\ layer' \in [Instance -> Homes]
    BY <1>0, <1>H, <1>28 DEF RemoveContainer, DockerTypes
  <2>2. volume' \in [Instance -> Homes]
    BY <1>0, <1>H, <1>28 DEF RemoveContainer, DockerTypes
  <2>3. steady' \in [Runs -> SUBSET Instance]
    BY <1>0, <1>28 DEF RemoveContainer, Replaced, DockerTypes
  <2>4. DockerTypes'
    BY <1>0, <1>28, <2>1, <2>2, <2>3 DEF RemoveContainer, DockerTypes
  <2>5. VerbTypes'
    BY <1>0, <1>28 DEF RemoveContainer, run, VerbTypes
  <2> QED
    BY <2>4, <2>5
<1>29. ASSUME NEW i \in Instance, LogIn(i) PROVE DockerTypes' /\ VerbTypes'
  <2>1. [Home(i, cont[i].user) EXCEPT !.login = TRUE] \in Homes
    BY <1>0, HomeTypes DEF Homes
  <2>2. volume' \in [Instance -> Homes] /\ layer' \in [Instance -> Homes]
    BY <1>0, <1>29, <2>1, HomeTypes DEF LogIn
  <2> QED
    BY <1>0, <1>29, <2>2 DEF LogIn, Event, run, DockerTypes, VerbTypes, Working, Picking, Over
<1>30. CASE UNCHANGED verbsVars
  BY <1>0, <1>30 DEF verbsVars, DockerTypes, VerbTypes, Working, Picking, Over, docker, run,
     past, Goto
<1> QED
  BY <1>1, <1>2, <1>3, <1>4, <1>5, <1>6, <1>7, <1>8, <1>9, <1>10, <1>11, <1>12, <1>13,
     <1>14, <1>15, <1>16, <1>17, <1>18, <1>19, <1>20, <1>21, <1>22, <1>23, <1>24, <1>25,
     <1>26, <1>27, <1>28, <1>29, <1>30 DEF VerbsNext, Syncs, Snapshots, Begins

-----------------------------------------------------------------------------
(* Whose step it is *)

Acts(r) ==
  Syncs(r) \/ Snapshots(r) \/ Interrupt(r) \/ \E q \in Jobs : Begins(r, q)

UserActs == \E i \in Instance : Boot(i) \/ Switch(i) \/ RemoveContainer(i) \/ LogIn(i)

Untouched(o) ==
  /\ at'[o] = at[o] /\ job'[o] = job[o] /\ todo'[o] = todo[o] /\ user'[o] = user[o]
  /\ inst'[o] = inst[o] /\ project'[o] = project[o] /\ found'[o] = found[o]
  /\ verdict'[o] = verdict[o]
  /\ steady'[o] \subseteq steady[o]

\* A run changes nothing of another one, except that it takes a container that
\* it replaces out of its history.
LEMMA OthersUntouched ==
  ASSUME VerbsInv, NEW r \in Runs, Acts(r), NEW o \in Runs \ {r}
  PROVE  Untouched(o)
<1>0. DockerTypes /\ VerbTypes
  BY DEF VerbsInv
<1>1. ASSUME Syncs(r) PROVE Untouched(o)
  BY <1>0, <1>1 DEF Syncs, GetEnv, Find, FindNone, FailProject, Report, HasConfig, SkipConfig,
     MakeConfig, WaitForUser, Mkdir, Tar, Chown, Verdict, Look, Goto, run, past, Untouched,
     DockerTypes, VerbTypes
<1>2. ASSUME Snapshots(r) \/ Interrupt(r) PROVE Untouched(o)
  BY <1>0, <1>2 DEF Snapshots, ResolveProject, NoProject, ResolveContainer, OffersChoice,
     Choose, NoContainerFound, SnapshotFails, Commit, Interrupt, Cancel, Goto, run, past,
     Untouched, DockerTypes, VerbTypes
<1>3. ASSUME NEW q \in Jobs, Begins(r, q) PROVE Untouched(o)
  <2>1. CASE UpBegins(r, q)
    <3>1. steady'[o] = steady[o] \ {<<q.name, q.variant>>}
      BY <1>0, <2>1 DEF UpBegins, Replaced, DockerTypes
    <3> QED
      BY <1>0, <2>1, <3>1 DEF UpBegins, Ask, Goto, Untouched, VerbTypes
  <2>2. CASE ~UpBegins(r, q)
    BY <1>0, <1>3, <2>2 DEF Begins, SyncBegins, SyncNoDocker, SnapshotBegins, Ask, Look, Goto,
       run, past, Untouched, DockerTypes, VerbTypes
  <2> QED
    BY <2>1, <2>2
<1> QED
  BY <1>1, <1>2, <1>3 DEF Acts

LEMMA UserTouchesNone ==
  ASSUME VerbsInv, UserActs \/ UNCHANGED verbsVars, NEW o \in Runs
  PROVE  Untouched(o)
<1>1. ASSUME NEW i \in Instance, Boot(i) \/ Switch(i) \/ RemoveContainer(i) \/ LogIn(i)
      PROVE  Untouched(o)
  <2>1. CASE Boot(i)
    BY <2>1 DEF Boot, run, past, Untouched
  <2>2. CASE Switch(i)
    BY <2>2 DEF Switch, run, Untouched
  <2>3. CASE RemoveContainer(i)
    <3>1. steady'[o] \subseteq steady[o]
      BY <2>3 DEF RemoveContainer, Replaced
    <3> QED
      BY <2>3, <3>1 DEF RemoveContainer, run, Untouched
  <2>4. CASE LogIn(i)
    BY <2>4 DEF LogIn, run, Untouched
  <2> QED
    BY <1>1, <2>1, <2>2, <2>3, <2>4
<1>2. CASE UNCHANGED verbsVars
  BY <1>2 DEF verbsVars, run, past, Untouched
<1> QED
  BY <1>1, <1>2 DEF UserActs

\* docker is changed only by these.
Transfers(r) == Mkdir(r) \/ Tar(r) \/ Chown(r)

LEMMA DockerUnchanged ==
  ASSUME VerbsInv, NEW r \in Runs, Acts(r), ~Transfers(r), \A q \in Jobs : ~UpBegins(r, q)
  PROVE  /\ cont' = cont /\ volume' = volume /\ layer' = layer
         /\ config' = config \/ (config = "missing" /\ config' = "there")
         /\ \A o \in Runs : steady'[o] = steady[o] \/ steady'[o] = Sandboxes
<1>0. DockerTypes
  BY DEF VerbsInv
<1>1. CASE Syncs(r)
  BY <1>0, <1>1 DEF Syncs, GetEnv, Find, FindNone, FailProject, Report, HasConfig, SkipConfig,
     MakeConfig, WaitForUser, Look, docker, past, Transfers, DockerTypes
<1>2. CASE Snapshots(r) \/ Interrupt(r)
  BY <1>0, <1>2 DEF Snapshots, ResolveProject, NoProject, ResolveContainer, OffersChoice,
     Choose, NoContainerFound, SnapshotFails, Commit, Interrupt, Cancel, docker, past
<1>3. CASE \E q \in Jobs : Begins(r, q)
  BY <1>0, <1>3 DEF Begins, SyncBegins, SyncNoDocker, SnapshotBegins, Look, docker, past,
     DockerTypes
<1> QED
  BY <1>1, <1>2, <1>3 DEF Acts

-----------------------------------------------------------------------------
(* Homes *)

\* What is written to one home is what is found there, and nowhere else.
LEMMA HomeAfter ==
  ASSUME DockerTypes, NEW i \in Instance, NEW u, NEW h \in Homes, SetHome(i, u, h), cont' = cont,
         NEW j \in Instance, NEW w
  PROVE  Home(j, w)' = IF j = i /\ (OnVolume(j, w) <=> OnVolume(i, u)) THEN h ELSE Home(j, w)
BY DEF DockerTypes, SetHome, Home, OnVolume

LEMMA SameHome ==
  ASSUME NEW i, NEW u, NEW w, OnVolume(i, w) <=> OnVolume(i, u)
  PROVE  Home(i, w) = Home(i, u)
BY DEF Home

\* A home that has the whole configuration keeps it, unless the container is
\* replaced or removed.
StaysWhole(j, w) ==
  config # "torn" /\ Home(j, w).files = "whole" =>
    \/ Home(j, w)'.files = "whole"
    \/ \A o \in Runs : j \in steady'[o] => at'[o] # "chown"

LEMMA TornStays ==
  ASSUME VerbsInv, [VerbsNext]_verbsVars
  PROVE  config = "torn" => config' = "torn"
<1>1. ASSUME NEW r \in Runs, Transfers(r) PROVE config' = config
  BY <1>1 DEF Transfers, Mkdir, Tar, Chown
<1>2. ASSUME NEW r \in Runs, NEW q \in Jobs, UpBegins(r, q), config = "torn"
      PROVE  config' = "torn"
  BY <1>2 DEF UpBegins
<1>3. ASSUME NEW i \in Instance, Boot(i) \/ Switch(i) \/ RemoveContainer(i) \/ LogIn(i)
      PROVE  config' = config
  BY <1>3 DEF Boot, Switch, RemoveContainer, LogIn
<1>4. ASSUME NEW r \in Runs, Acts(r), ~Transfers(r), \A q \in Jobs : ~UpBegins(r, q),
             config = "torn"
      PROVE  config' = "torn"
  BY <1>4, DockerUnchanged
<1>5. CASE UNCHANGED verbsVars
  BY <1>5 DEF verbsVars
<1> QED
  BY <1>1, <1>2, <1>3, <1>4, <1>5 DEF VerbsNext, Acts

LEMMA WholeStays ==
  ASSUME VerbsInv, [VerbsNext]_verbsVars, NEW j \in Instance, NEW w
  PROVE  StaysWhole(j, w)
<1>0. DockerTypes
  BY DEF VerbsInv
<1>1. ASSUME UNCHANGED <<volume, layer>>, cont'[j].user = cont[j].user,
             cont'[j].mounted = cont[j].mounted
      PROVE  StaysWhole(j, w)
  BY <1>1 DEF StaysWhole, Home, OnVolume
<1>2. ASSUME NEW i \in Instance, NEW u, NEW h \in Homes, SetHome(i, u, h), cont' = cont,
             config # "torn" /\ Home(i, u).files = "whole" => h.files = "whole"
      PROVE  StaysWhole(j, w)
  <2>1. Home(j, w)' = IF j = i /\ (OnVolume(j, w) <=> OnVolume(i, u)) THEN h ELSE Home(j, w)
    BY <1>0, <1>2, HomeAfter
  <2>2. j = i /\ (OnVolume(j, w) <=> OnVolume(i, u)) => Home(j, w) = Home(i, u)
    BY SameHome
  <2> QED
    BY <1>2, <2>1, <2>2 DEF StaysWhole
<1>3. ASSUME NEW r \in Runs, Transfers(r) PROVE StaysWhole(j, w)
  <2>1. inst[r] \in Instance
    BY <1>3 DEF Transfers, Mkdir, Tar, Chown, VerbsInv, Placed, Delivering
  <2>2. Home(inst[r], user[r]) \in Homes
    BY <1>0, <2>1, HomeTypes
  <2>3. CASE Mkdir(r)
    <3> DEFINE h == [Home(inst[r], user[r]) EXCEPT !.files = IF @ = "none" THEN "dir" ELSE @]
    <3>1. h \in Homes /\ (Home(inst[r], user[r]).files = "whole" => h.files = "whole")
      BY <2>2 DEF Homes
    <3> QED
      BY <1>2, <2>1, <2>3, <3>1 DEF Mkdir
  <2>4. CASE Tar(r)
    <3> DEFINE h == [Home(inst[r], user[r]) EXCEPT
                       !.own = FALSE,
                       !.files = IF config = "torn" /\ @ # "whole" THEN "part" ELSE "whole"]
    <3>1. h \in Homes /\ (config # "torn" => h.files = "whole")
      BY <2>2 DEF Homes
    <3> QED
      BY <1>2, <2>1, <2>4, <3>1 DEF Tar
  <2>5. CASE Chown(r)
    <3> DEFINE h == [Home(inst[r], user[r]) EXCEPT !.own = TRUE]
    <3>1. h \in Homes /\ (Home(inst[r], user[r]).files = "whole" => h.files = "whole")
      BY <2>2 DEF Homes
    <3>2. cont' = cont /\ (SetHome(inst[r], user[r], h) \/ UNCHANGED <<volume, layer>>)
      BY <2>5 DEF Chown
    <3> QED
      BY <1>1, <1>2, <2>1, <3>1, <3>2
  <2> QED
    BY <1>3, <2>3, <2>4, <2>5 DEF Transfers
<1>4. ASSUME NEW r \in Runs, NEW q \in Jobs, UpBegins(r, q) PROVE StaysWhole(j, w)
  <2> DEFINE i == <<q.name, q.variant>>
  <2>1. CASE j = i
    <3>1. /\ \A o \in Runs \ {r} : j \notin steady'[o]
          /\ at'[r] = "config"
      BY <1>0, <1>4, <2>1 DEF UpBegins, Replaced, DockerTypes, Goto, VerbsInv, VerbTypes
    <3> QED
      BY <3>1 DEF StaysWhole
  <2>2. CASE j # i
    <3>1. /\ cont'[j] = cont[j] /\ layer'[j] = layer[j]
          /\ volume'[j] = volume[j]
      BY <1>0, <1>4, <2>2 DEF UpBegins, DockerTypes
    <3> QED
      BY <3>1 DEF StaysWhole, Home, OnVolume
  <2> QED
    BY <2>1, <2>2
<1>5. ASSUME NEW i \in Instance, Boot(i) \/ Switch(i) PROVE StaysWhole(j, w)
  <2>1. /\ cont'[j].user = cont[j].user /\ cont'[j].mounted = cont[j].mounted
        /\ UNCHANGED <<volume, layer>>
    <3>1. \E c : /\ cont' = [cont EXCEPT ![i] = c]
                 /\ c.user = cont[i].user /\ c.mounted = cont[i].mounted
      <4>1. CASE Boot(i)
        <5>1. PICK a : cont' = [cont EXCEPT ![i].account = a]
          BY <4>1 DEF Boot
        <5> DEFINE c == [cont[i] EXCEPT !.account = a]
        <5>2. c.user = cont[i].user /\ c.mounted = cont[i].mounted
          BY <1>0 DEF DockerTypes, Containers
        <5>3. cont' = [cont EXCEPT ![i] = c]
          BY <5>1
        <5> QED
          BY <5>2, <5>3
      <4>2. CASE Switch(i)
        <5>1. PICK s : cont' = [cont EXCEPT ![i].state = s]
          BY <4>2 DEF Switch
        <5> DEFINE c == [cont[i] EXCEPT !.state = s]
        <5>2. c.user = cont[i].user /\ c.mounted = cont[i].mounted
          BY <1>0 DEF DockerTypes, Containers
        <5>3. cont' = [cont EXCEPT ![i] = c]
          BY <5>1
        <5> QED
          BY <5>2, <5>3
      <4> QED
        BY <1>5, <4>1, <4>2
    <3>2. UNCHANGED <<volume, layer>>
      BY <1>5 DEF Boot, Switch
    <3> QED
      BY <1>0, <3>1, <3>2 DEF DockerTypes
  <2> QED
    BY <1>1, <2>1
<1>6. ASSUME NEW i \in Instance, RemoveContainer(i) PROVE StaysWhole(j, w)
  <2>1. CASE j = i
    BY <1>0, <1>6, <2>1 DEF RemoveContainer, Replaced, StaysWhole, DockerTypes
  <2>2. CASE j # i
    <3>1. cont'[j] = cont[j] /\ layer'[j] = layer[j] /\ volume'[j] = volume[j]
      BY <1>0, <1>6, <2>2 DEF RemoveContainer, DockerTypes
    <3> QED
      BY <3>1 DEF StaysWhole, Home, OnVolume
  <2> QED
    BY <2>1, <2>2
<1>7. ASSUME NEW i \in Instance, LogIn(i) PROVE StaysWhole(j, w)
  <2> DEFINE h == [Home(i, cont[i].user) EXCEPT !.login = TRUE]
  <2>1. h \in Homes /\ (Home(i, cont[i].user).files = "whole" => h.files = "whole")
    BY <1>0, HomeTypes DEF Homes
  <2> QED
    BY <1>2, <1>7, <2>1 DEF LogIn
<1>8. ASSUME NEW r \in Runs, Acts(r) PROVE StaysWhole(j, w)
  <2>1. CASE ~Transfers(r) /\ \A q \in Jobs : ~UpBegins(r, q)
    <3>1. UNCHANGED <<cont, volume, layer>>
      BY <1>8, <2>1, DockerUnchanged
    <3> QED
      BY <1>1, <3>1
  <2> QED
    BY <1>3, <1>4, <2>1
<1>9. CASE UNCHANGED verbsVars
  BY <1>1, <1>9 DEF verbsVars, docker
<1> QED
  BY <1>5, <1>6, <1>7, <1>8, <1>9 DEF VerbsNext, Acts

LEMMA SteadyStays ==
  ASSUME VerbsInv, [VerbsNext]_verbsVars, NEW o \in Runs
  PROVE  Steady(o)'
<1>0. DockerTypes /\ Steady(o)
  BY DEF VerbsInv
<1>1. ASSUME \A j \in Instance : cont[j].state # "absent" => cont'[j].state # "absent",
             steady'[o] = steady[o] \/ steady'[o] = Sandboxes
      PROVE  Steady(o)'
  BY <1>0, <1>1 DEF Steady, Sandboxes, Exists
<1>2. ASSUME NEW r \in Runs, NEW q \in Jobs, UpBegins(r, q) PROVE Steady(o)'
  <2>1. <<q.name, q.variant>> \in Instance
    BY <1>2, JobFields DEF UpBegins
  <2>2. Sandboxes' = Sandboxes \cup {<<q.name, q.variant>>}
    BY <1>0, <1>2, <2>1 DEF UpBegins, Sandboxes, Exists, DockerTypes
  <2>3. steady'[o] \subseteq steady[o] \cup Sandboxes \cup {<<q.name, q.variant>>}
    BY <1>0, <1>2 DEF UpBegins, Replaced, DockerTypes
  <2> QED
    BY <1>0, <2>2, <2>3 DEF Steady
<1>3. ASSUME NEW i \in Instance, Boot(i) \/ Switch(i) \/ LogIn(i) PROVE Steady(o)'
  BY <1>0, <1>1, <1>3 DEF Boot, Switch, LogIn, Event, past, DockerTypes, Containers
<1>4. ASSUME NEW i \in Instance, RemoveContainer(i) PROVE Steady(o)'
  BY <1>0, <1>4 DEF RemoveContainer, Replaced, Steady, Sandboxes, Exists, DockerTypes
<1>5. ASSUME NEW r \in Runs, Transfers(r) PROVE Steady(o)'
  BY <1>1, <1>5 DEF Transfers, Mkdir, Tar, Chown, past
<1>6. ASSUME NEW r \in Runs, Acts(r), ~Transfers(r), \A q \in Jobs : ~UpBegins(r, q)
      PROVE  Steady(o)'
  BY <1>1, <1>6, DockerUnchanged
<1>7. CASE UNCHANGED verbsVars
  BY <1>1, <1>7 DEF verbsVars, docker, past
<1> QED
  BY <1>2, <1>3, <1>4, <1>5, <1>6, <1>7 DEF VerbsNext, Acts

-----------------------------------------------------------------------------
(* The run that acts *)

LEMMA OthersStay ==
  ASSUME VerbsInv, [VerbsNext]_verbsVars, NEW o \in Runs, Untouched(o)
  PROVE  Placed(o)' /\ Transferred(o)' /\ Narrowed(o)'
<1>0. Placed(o) /\ Transferred(o) /\ Narrowed(o) /\ VerbTypes /\ DockerTypes
  BY DEF VerbsInv
<1>1. Placed(o)'
  BY <1>0 DEF Placed, Untouched, Current
<1>2. Narrowed(o)'
  BY <1>0 DEF Narrowed, Untouched
<1>3. Transferred(o)'
  <2> SUFFICES ASSUME at[o] = "chown", inst[o] \in steady'[o], config' # "torn"
               PROVE  Home(inst[o], user[o])'.files = "whole"
    BY DEF Transferred, Untouched, Home, OnVolume
  <2>1. inst[o] \in Instance /\ inst[o] \in steady[o]
    BY <1>0 DEF Placed, Untouched, Delivering
  <2>2. config # "torn"
    BY <1>0, TornStays
  <2>3. StaysWhole(inst[o], user[o])
    BY <2>1, WholeStays
  <2> QED
    BY <1>0, <2>1, <2>2, <2>3 DEF StaysWhole, Transferred, Untouched
<1> QED
  BY <1>1, <1>2, <1>3

LEMMA Placing ==
  ASSUME VerbsInv, NEW r \in Runs, Acts(r)
  PROVE  Placed(r)'
<1>0. Placed(r) /\ VerbTypes
  BY DEF VerbsInv
<1>1. ASSUME at'[r] \in Over \cup {"next"}, job'[r] = job[r],
             at'[r] = "next" => at[r] \in Working
      PROVE  Placed(r)'
  BY <1>0, <1>1 DEF Placed, Over, Working, Picking, Delivering
<1>2. CASE Interrupt(r) \/ Report(r) \/ SnapshotFails(r) \/ NoProject(r) \/ NoContainerFound(r)
           \/ Commit(r)
  <2>1. at'[r] \in Over /\ job' = job
    BY <1>0, <1>2 DEF Interrupt, Report, SnapshotFails, NoProject, NoContainerFound, Commit,
       Cancel, Goto, Over, VerbTypes
  <2> QED
    BY <1>1, <2>1 DEF Over
<1>3. CASE \E v \in Verdicts : Verdict(r, v) /\ at[r] \in Working /\ job' = job
  BY <1>0, <1>1, <1>3 DEF Verdict, Goto, VerbTypes
<1>4. CASE FindNone(r) \/ FailProject(r) \/ SkipConfig(r) \/ Chown(r)
  BY <1>3, <1>4 DEF FindNone, FailProject, SkipConfig, Chown, Verdicts, Working
<1>5. CASE GetEnv(r)
  BY <1>0, <1>5 DEF GetEnv, Goto, Placed, Working, Picking, Delivering, VerbTypes
<1>6. CASE Find(r)
  <2>1. Live(Current(r)) \subseteq Instance /\ \A i \in Live(Current(r)) : i[1] = Current(r)
    BY DEF Live, Of, Sandboxes
  <2>2. FirstOf(Current(r), Live(Current(r))) \in Live(Current(r))
    BY <1>6, <2>1, FirstIn DEF Find
  <2>3. inst'[r] \in Instance /\ inst'[r][1] = Current(r)
    BY <1>0, <1>6, <2>1, <2>2 DEF Find, VerbTypes
  <2>4. /\ at'[r] = "config" /\ job' = job /\ todo' = todo /\ at[r] = "find"
    BY <1>0, <1>6 DEF Find, Goto, VerbTypes
  <2> QED
    BY <1>0, <2>3, <2>4 DEF Placed, Current, Working, Picking, Delivering
<1>7. CASE at[r] \in Delivering /\ at'[r] \in Delivering /\ UNCHANGED <<job, todo, inst>>
  BY <1>0, <1>7 DEF Placed, Current, Working, Picking, Delivering
<1>8. CASE HasConfig(r) \/ WaitForUser(r) \/ Mkdir(r) \/ Tar(r)
  <2>1. at[r] \in Delivering /\ at'[r] \in Delivering /\ UNCHANGED <<job, todo, inst>>
    BY <1>0, <1>8 DEF HasConfig, WaitForUser, Mkdir, Tar, Goto, run, Delivering, VerbTypes
  <2> QED
    BY <1>7, <2>1
<1>9. CASE MakeConfig(r)
  <2>1. at[r] = "config" /\ UNCHANGED <<job, inst>>
    BY <1>9 DEF MakeConfig
  <2>2. CASE Verdict(r, "failed")
    BY <1>3, <2>1, <2>2 DEF Verdicts, Working
  <2>3. CASE Goto(r, "poll") /\ UNCHANGED <<todo, verdict>>
    BY <1>0, <1>7, <2>1, <2>3 DEF Goto, Delivering, VerbTypes
  <2> QED
    BY <1>9, <2>2, <2>3 DEF MakeConfig
<1>10. CASE ResolveProject(r) \/ ResolveContainer(r) \/ OffersChoice(r) \/ Choose(r)
  <2>1. at[r] \in Picking /\ at'[r] \in Picking /\ UNCHANGED job
    BY <1>0, <1>10 DEF ResolveProject, ResolveContainer, OffersChoice, Choose, Goto, Picking,
       VerbTypes
  <2> QED
    BY <1>0, <2>1 DEF Placed, Picking, Working, Delivering
<1>11. ASSUME NEW q \in Jobs, Begins(r, q) PROVE Placed(r)'
  <2>1. /\ q.verb \in {"sync", "up", "snapshot"}
        /\ q.verb = "up" => <<q.name, q.variant>> \in Instance /\ q.name \in Project
    BY JobFields
  <2>2. job'[r] = q /\ at[r] = "idle"
    BY <1>0, <1>11 DEF Begins, SyncBegins, SyncNoDocker, UpBegins, SnapshotBegins, Ask,
       VerbTypes
  <2>3. CASE SyncBegins(r, q) \/ SyncNoDocker(r, q)
    BY <1>0, <2>2, <2>3 DEF SyncBegins, SyncNoDocker, Goto, Placed, Working, Picking,
       Delivering, VerbTypes
  <2>4. CASE SnapshotBegins(r, q)
    BY <1>0, <2>2, <2>4 DEF SnapshotBegins, Goto, Placed, Working, Picking, Delivering,
       VerbTypes
  <2>5. CASE UpBegins(r, q)
    <3>1. /\ at'[r] = "config" /\ todo'[r] = {q.name} /\ inst'[r] = <<q.name, q.variant>>
          /\ q.verb = "up"
      BY <1>0, <2>5 DEF UpBegins, Goto, VerbTypes
    <3>2. Earliest(Projects, {q.name}) \in {q.name}
      <4>1. \E k \in DOMAIN Projects : Projects[k] \in {q.name}
        BY <2>1, <3>1 DEF Project, ToSet
      <4> QED
        BY <4>1, InOrder, EarliestIn
    <3> QED
      BY <2>1, <2>2, <3>1, <3>2 DEF Placed, Current, Working, Picking, Delivering
  <2> QED
    BY <1>11, <2>3, <2>4, <2>5 DEF Begins
<1> QED
  BY <1>2, <1>4, <1>5, <1>6, <1>8, <1>9, <1>10, <1>11 DEF Acts, Syncs, Snapshots

LEMMA Transferring ==
  ASSUME VerbsInv, NEW r \in Runs, Acts(r)
  PROVE  Transferred(r)'
<1>0. Placed(r) /\ VerbTypes /\ DockerTypes
  BY DEF VerbsInv
<1>1. CASE Tar(r)
  <2> DEFINE h == [Home(inst[r], user[r]) EXCEPT
                     !.own = FALSE,
                     !.files = IF config = "torn" /\ @ # "whole" THEN "part" ELSE "whole"]
  <2>1. inst[r] \in Instance
    BY <1>0, <1>1 DEF Tar, Placed, Delivering
  <2>2. h \in Homes /\ (config # "torn" => h.files = "whole")
    BY <1>0, <2>1, HomeTypes, ZenonT(40) DEF Homes
  <2>3. SetHome(inst[r], user[r], h) /\ cont' = cont /\ UNCHANGED <<inst, user, config>>
    BY <1>1 DEF Tar, run
  <2>4. Home(inst[r], user[r])' = h
    <3>1. ASSUME NEW i \in Instance, NEW u, i = inst[r], u = user[r] PROVE Home(i, u)' = h
      BY <1>0, <2>2, <2>3, <3>1, HomeAfter
    <3> QED
      BY <2>1, <2>3, <3>1 DEF Home, OnVolume
  <2> QED
    BY <2>2, <2>3, <2>4 DEF Transferred
<1>2. CASE ~Tar(r)
  <2>1. at'[r] # "chown"
    BY <1>0, <1>2 DEF Acts, Syncs, Snapshots, Begins, GetEnv, Find, FindNone, FailProject,
       Report, HasConfig, SkipConfig, MakeConfig, WaitForUser, Mkdir, Chown, ResolveProject,
       NoProject, ResolveContainer, OffersChoice, Choose, NoContainerFound, SnapshotFails,
       Commit, Interrupt, SyncBegins, SyncNoDocker, UpBegins, SnapshotBegins, Cancel, Verdict,
       Goto, VerbTypes
  <2> QED
    BY <2>1 DEF Transferred
<1> QED
  BY <1>1, <1>2

LEMMA Narrowing ==
  ASSUME VerbsInv, NEW r \in Runs, Acts(r)
  PROVE  Narrowed(r)'
<1>0. Narrowed(r) /\ Placed(r) /\ Steady(r) /\ VerbTypes /\ DockerTypes
  BY DEF VerbsInv
<1>1. CASE ResolveProject(r)
  <2>1. /\ at'[r] = "variant" /\ job' = job /\ steady' = steady
        /\ job[r].name # DefaultProject => project'[r] = job[r].name
        /\ job[r].name = DefaultProject => Active = {project'[r]}
    BY <1>0, <1>1 DEF ResolveProject, Goto, past, VerbTypes
  <2>2. \A j \in steady[r] : j[1] \in Active
    BY <1>0 DEF Steady, Sandboxes, Active, Instance
  <2> QED
    BY <2>1, <2>2 DEF Narrowed
<1>2. CASE ResolveContainer(r)
  <2>1. /\ at'[r] = "commit" /\ job' = job /\ steady' = steady /\ project' = project
        /\ at[r] = "variant"
    BY <1>0, <1>2 DEF ResolveContainer, Goto, past, VerbTypes
  <2>2. PICK i \in Of(project[r]) :
          /\ IF job[r].variant # "" THEN i[2] = job[r].variant ELSE Of(project[r]) = {i}
          /\ inst'[r] = i
    BY <1>0, <1>2 DEF ResolveContainer, VerbTypes
  <2>3. i \in Instance /\ i[1] = project[r]
    BY <2>2 DEF Of, Sandboxes
  <2>4. \A j \in steady[r] : j[1] = project[r] => j \in Of(project[r])
    BY <1>0 DEF Steady, Of
  <2> QED
    BY <1>0, <2>1, <2>2, <2>3, <2>4 DEF Narrowed
<1>3. CASE OffersChoice(r)
  BY <1>0, <1>3 DEF OffersChoice, Goto, past, VerbTypes, Narrowed, Of
<1>4. CASE Choose(r)
  <2>1. /\ at'[r] = "commit" /\ job' = job /\ steady' = steady /\ project' = project
        /\ at[r] = "choose" /\ inst'[r] \in found[r] /\ found[r] \subseteq Instance
    BY <1>0, <1>4 DEF Choose, Goto, past, VerbTypes
  <2> QED
    BY <1>0, <2>1 DEF Narrowed
<1>5. CASE ~(ResolveProject(r) \/ ResolveContainer(r) \/ OffersChoice(r) \/ Choose(r))
  <2>1. at'[r] \notin {"variant", "choose", "commit"}
    <3>1. CASE Syncs(r)
      BY <1>0, <3>1 DEF Syncs, GetEnv, Find, FindNone, FailProject, Report, HasConfig,
         SkipConfig, MakeConfig, WaitForUser, Mkdir, Tar, Chown, Verdict, Goto, VerbTypes
    <3>2. CASE Snapshots(r) \/ Interrupt(r)
      BY <1>0, <1>5, <3>2 DEF Snapshots, NoProject, NoContainerFound, SnapshotFails, Commit,
         Interrupt, Cancel, Goto, VerbTypes
    <3>3. CASE \E q \in Jobs : Begins(r, q)
      BY <1>0, <3>3, ZenonT(40) DEF Begins, SyncBegins, SyncNoDocker, UpBegins, SnapshotBegins,
         Goto, VerbTypes
    <3> QED
      BY <1>0, <3>1, <3>2, <3>3 DEF Acts
  <2> QED
    BY <2>1 DEF Narrowed
<1> QED
  BY <1>1, <1>2, <1>3, <1>4, <1>5

LEMMA VerbsInvStep == VerbsInv /\ [VerbsNext]_verbsVars => VerbsInv'
<1> SUFFICES ASSUME VerbsInv, [VerbsNext]_verbsVars PROVE VerbsInv'
  OBVIOUS
<1>1. DockerTypes' /\ VerbTypes'
  BY VerbsTypesStep
<1>2. ASSUME NEW o \in Runs PROVE Placed(o)' /\ Transferred(o)' /\ Narrowed(o)'
  <2>1. CASE Acts(o)
    BY <2>1, Placing, Transferring, Narrowing
  <2>2. CASE \E r \in Runs : Acts(r) /\ r # o
    BY <2>2, OthersUntouched, OthersStay
  <2>3. CASE UserActs \/ UNCHANGED verbsVars
    BY <2>3, UserTouchesNone, OthersStay
  <2> QED
    BY <2>1, <2>2, <2>3 DEF VerbsNext, Acts, UserActs
<1> QED
  BY <1>1, <1>2, SteadyStays DEF VerbsInv

LEMMA VerbsInvAlways == VerbsSpec => []VerbsInv
BY VerbsInvInit, VerbsInvStep, PTL DEF VerbsSpec

-----------------------------------------------------------------------------
(* What the verbs say *)

LEMMA SyncedIsChowned ==
  ASSUME VerbsInv, [VerbsNext]_verbsVars, NEW r \in Runs, NEW p \in Project,
         verdict[r][p] = "none", verdict'[r][p] = "synced"
  PROVE  /\ at[r] = "chown" /\ p = Current(r) /\ Chowns(r)
         /\ SetHome(inst[r], user[r], [Home(inst[r], user[r]) EXCEPT !.own = TRUE])
         /\ UNCHANGED <<cont, inst, user, config>>
<1>0. VerbTypes
  BY DEF VerbsInv
<1>1. Acts(r)
  <2>1. ~Untouched(r)
    BY DEF Untouched
  <2> QED
    BY <2>1, OthersUntouched, UserTouchesNone DEF VerbsNext, Acts, UserActs
<1>2. verdict' # verdict
  OBVIOUS
<1>3. ASSUME NEW v, Verdict(r, v) PROVE v = "synced" /\ p = Current(r)
  <2>1. verdict'[r] = [verdict[r] EXCEPT ![Current(r)] = v]
    BY <1>0, <1>3 DEF Verdict, VerbTypes
  <2>2. verdict[r] \in [Project -> Verdicts]
    BY <1>0 DEF VerbTypes, Verdicts
  <2> QED
    BY <2>1, <2>2
<1>4. Chown(r) /\ Verdict(r, "synced")
  <2>1. CASE Syncs(r)
    BY <1>2, <1>3, <2>1 DEF Syncs, GetEnv, Find, FindNone, FailProject, Report, HasConfig,
       SkipConfig, MakeConfig, WaitForUser, Mkdir, Tar, Chown, run
  <2>2. CASE ~Syncs(r)
    BY <1>1, <1>2, <2>2 DEF Acts, Snapshots, Begins, ResolveProject, NoProject,
       ResolveContainer, OffersChoice, Choose, NoContainerFound, SnapshotFails, Commit,
       Interrupt, SyncBegins, SyncNoDocker, UpBegins, SnapshotBegins, Cancel, run
  <2> QED
    BY <2>1, <2>2
<1>5. ~Verdict(r, "partial")
  BY <1>3
<1> QED
  BY <1>3, <1>4, <1>5 DEF Chown

\* "Configuration synced successfully.": for any number of runs, users and
\* containers, whatever is stopped, replaced or logged in to between the steps.
THEOREM SyncIsTrue == VerbsSpec => SyncedMeansDelivered
<1>1. VerbsInv /\ [VerbsNext]_verbsVars =>
        \A r \in Runs, p \in Project :
          verdict[r][p] = "none" /\ verdict'[r][p] = "synced" =>
            LET i == inst[r] IN
            /\ i[1] = p /\ user[r] = cont[i].user
            /\ Home(i, user[r])'.own
            /\ i \in steady[r] /\ config # "torn" => Home(i, user[r])'.files = "whole"
  <2> SUFFICES ASSUME VerbsInv, [VerbsNext]_verbsVars, NEW r \in Runs, NEW p \in Project,
                      verdict[r][p] = "none", verdict'[r][p] = "synced"
               PROVE  /\ inst[r][1] = p /\ user[r] = cont[inst[r]].user
                      /\ Home(inst[r], user[r])'.own
                      /\ inst[r] \in steady[r] /\ config # "torn" =>
                           Home(inst[r], user[r])'.files = "whole"
    OBVIOUS
  <2> DEFINE h == [Home(inst[r], user[r]) EXCEPT !.own = TRUE]
  <2>1. /\ at[r] = "chown" /\ p = Current(r) /\ Chowns(r)
        /\ SetHome(inst[r], user[r], h)
        /\ UNCHANGED <<cont, inst, user, config>>
    BY SyncedIsChowned
  <2>2. inst[r] \in Instance /\ inst[r][1] = p
    BY <2>1 DEF VerbsInv, Placed, Delivering
  <2>3. user[r] = cont[inst[r]].user
    BY <2>1 DEF Chowns, Known
  <2>4. Home(inst[r], user[r]) \in Homes /\ h \in Homes
    BY <2>2, HomeTypes, ZenonT(40) DEF VerbsInv, Homes
  <2>5. h.own /\ h.files = Home(inst[r], user[r]).files
    BY <2>4 DEF Homes
  <2>6. Home(inst[r], user[r])' = h
    <3>1. ASSUME NEW i \in Instance, NEW u, i = inst[r], u = user[r] PROVE Home(i, u)' = h
      BY <2>1, <2>4, <3>1, HomeAfter DEF VerbsInv
    <3> QED
      BY <2>1, <2>2, <3>1 DEF Home, OnVolume
  <2> QED
    BY <2>1, <2>2, <2>3, <2>5, <2>6 DEF VerbsInv, Transferred
<1> QED
  BY <1>1, VerbsInvAlways, PTL DEF VerbsSpec, SyncedMeansDelivered

\* The image is of the sandbox that was named, or of the only one there was.
THEOREM SnapshotIsMeant == VerbsSpec => SnapshotOfTheOneMeant
<1>1. VerbsInv /\ [VerbsNext]_verbsVars =>
        \A r \in Runs : at[r] = "commit" /\ at'[r] = "ok" =>
          LET i == images'[job[r].tag].from
              q == job[r] IN
          /\ IF q.name # DefaultProject THEN i[1] = q.name
             ELSE \A j \in steady[r] : j[1] = i[1]
          /\ IF q.variant # "" THEN i[2] = q.variant
             ELSE q.tty \/ \A j \in steady[r] : j[1] = i[1] => j = i
  <2> SUFFICES ASSUME VerbsInv, [VerbsNext]_verbsVars, NEW r \in Runs,
                      at[r] = "commit", at'[r] = "ok"
               PROVE  LET i == images'[job[r].tag].from
                          q == job[r] IN
                      /\ IF q.name # DefaultProject THEN i[1] = q.name
                         ELSE \A j \in steady[r] : j[1] = i[1]
                      /\ IF q.variant # "" THEN i[2] = q.variant
                         ELSE q.tty \/ \A j \in steady[r] : j[1] = i[1] => j = i
    OBVIOUS
  <2>1. Acts(r)
    BY OthersUntouched, UserTouchesNone DEF VerbsNext, Acts, UserActs, Untouched
  <2>2. Commit(r)
    BY <2>1 DEF Acts, Syncs, Snapshots, Begins, GetEnv, Find, FindNone, FailProject, Report,
       HasConfig, SkipConfig, MakeConfig, WaitForUser, Mkdir, Tar, Chown, ResolveProject,
       NoProject, ResolveContainer, OffersChoice, Choose, NoContainerFound, SnapshotFails,
       Interrupt, SyncBegins, SyncNoDocker, UpBegins, SnapshotBegins, Cancel, Goto, VerbsInv,
       VerbTypes, Ask
  <2>3. job[r].tag \in Targets
    BY JobFields DEF VerbsInv, Placed, Picking
  <2>4. images'[job[r].tag].from = inst[r]
    BY <2>2, <2>3 DEF Commit, VerbsInv, DockerTypes
  <2>5. Narrowed(r)
    BY DEF VerbsInv
  <2>6. IF job[r].name # DefaultProject THEN inst[r][1] = job[r].name
        ELSE \A j \in steady[r] : j[1] = inst[r][1]
    BY <2>5 DEF Narrowed
  <2>7. IF job[r].variant # "" THEN inst[r][2] = job[r].variant
        ELSE job[r].tty \/ \A j \in steady[r] : j[1] = inst[r][1] => j = inst[r]
    BY <2>5 DEF Narrowed
  <2> QED
    BY <2>4, <2>6, <2>7
<1> QED
  BY <1>1, VerbsInvAlways, PTL DEF VerbsSpec, SnapshotOfTheOneMeant

-----------------------------------------------------------------------------
(* The refinement of Batch *)

\* What Batch sees of the runs.
Results == [r \in Runs |-> Result(r)]
Said    == [r \in Runs |-> [p \in Project |-> Told(r, p)]]

LEMMA BatchInit == VerbsInit => Syncing!Init
<1> SUFFICES ASSUME VerbsInit PROVE Syncing!Init
  OBVIOUS
<1>1. \A r \in Runs : Result(r) = "none" /\ \A p \in Project : Told(r, p) = "none"
  BY DEF VerbsInit, Result, Told, NoJob
<1>2. todo = [r \in Runs |-> {}]
  BY DEF VerbsInit
<1> QED
  BY <1>1, <1>2 DEF Syncing!Init

LEMMA UntouchedIsSame ==
  ASSUME NEW o \in Runs, Untouched(o)
  PROVE  Result(o)' = Result(o) /\ \A p \in Project : Told(o, p)' = Told(o, p)
BY DEF Untouched, Result, Told

\* Of what Batch sees, a run changes only its own.
LEMMA OwnBatch ==
  ASSUME VerbsInv, VerbTypes', NEW r \in Runs, Acts(r)
  PROVE  /\ todo' = [todo EXCEPT ![r] = todo'[r]]
         /\ Results' = [Results EXCEPT ![r] = Result(r)']
         /\ Said' = [Said EXCEPT ![r] = [p \in Project |-> Told(r, p)']]
<1>1. \A o \in Runs \ {r} : /\ todo'[o] = todo[o]
                            /\ Result(o)' = Result(o)
                            /\ \A p \in Project : Told(o, p)' = Told(o, p)
  BY OthersUntouched, UntouchedIsSame DEF Untouched
<1>2. todo' = [todo EXCEPT ![r] = todo'[r]]
  BY <1>1 DEF VerbsInv, VerbTypes
<1>3. Results' = [Results EXCEPT ![r] = Result(r)']
  BY <1>1 DEF Results
<1>4. Said' = [Said EXCEPT ![r] = [p \in Project |-> Told(r, p)']]
  BY <1>1 DEF Said
<1> QED
  BY <1>2, <1>3, <1>4

LEMMA NothingSaid ==
  ASSUME VerbsInv, VerbTypes', NEW r \in Runs, Acts(r), verdict'[r] = verdict[r]
  PROVE  Said' = Said
<1>1. [p \in Project |-> Told(r, p)'] = Said[r]
  BY DEF Told, Said
<1>2. Said' = [Said EXCEPT ![r] = Said[r]]
  BY <1>1, OwnBatch
<1> QED
  BY <1>2 DEF Said

\* A step that changes neither the result nor the batch.
LEMMA Unseen ==
  ASSUME VerbsInv, VerbTypes', NEW r \in Runs, Acts(r),
         verdict'[r] = verdict[r], todo'[r] = todo[r], Result(r)' = Result(r)
  PROVE  UNCHANGED Syncing!vars
<1>1. Said' = Said
  BY NothingSaid
<1>2. todo' = todo
  <2>1. todo' = [todo EXCEPT ![r] = todo[r]]
    BY OwnBatch
  <2>2. todo = [o \in Runs |-> todo[o]]
    BY DEF VerbsInv, VerbTypes
  <2> QED
    BY <2>1, <2>2
<1>3. Results' = Results
  <2>1. Results' = [Results EXCEPT ![r] = Results[r]]
    BY OwnBatch DEF Results
  <2> QED
    BY <2>1 DEF Results
<1> QED
  BY <1>1, <1>2, <1>3 DEF Syncing!vars, Said, Results

\* A step that changes only the result.
LEMMA Becoming ==
  ASSUME VerbsInv, VerbTypes', NEW r \in Runs, Acts(r),
         verdict'[r] = verdict[r], NEW from, NEW to, Result(r) = from, Result(r)' = to
  PROVE  Syncing!Becomes(r, from, to) /\ Said' = Said
<1>1. Said' = Said /\ Results' = [Results EXCEPT ![r] = to] /\ Results[r] = from
  BY NothingSaid, OwnBatch DEF Results
<1> QED
  BY <1>1 DEF Syncing!Becomes, Results

LEMMA Handling ==
  ASSUME VerbsInv, VerbTypes', NEW r \in Runs, Acts(r), at[r] \in Working, todo[r] # {},
         NEW v \in {"synced", "partial", "skipped", "failed"}, Verdict(r, v), job' = job
  PROVE  Syncing!Handle(r)
<1>0. VerbTypes /\ job[r].verb \in {"sync", "up"}
  BY DEF VerbsInv, Placed
<1>1. Current(r) \in todo[r] /\ Current(r) \in Project
  BY <1>0, CurrentIn DEF VerbTypes
<1>2. at'[r] = "next" /\ todo'[r] = todo[r] \ {Current(r)}
  BY <1>0 DEF Verdict, Goto, VerbTypes
<1>3. Result(r) = "running" /\ Result(r)' = "running"
  BY <1>0, <1>2 DEF Result, Working
<1>4. verdict'[r] = [verdict[r] EXCEPT ![Current(r)] = v]
  BY <1>0 DEF Verdict, VerbTypes
<1> DEFINE w == IF v = "failed" THEN "failed" ELSE "done"
<1>5. verdict[r] \in [Project -> Verdicts]
  BY <1>0 DEF VerbTypes, Verdicts
<1>6. \A p \in Project : Told(r, p)' = IF p = Current(r) THEN w ELSE Told(r, p)
  BY <1>4, <1>5 DEF Told
<1>7. Said' = [Said EXCEPT ![r][Current(r)] = w]
  <2>1. [p \in Project |-> Told(r, p)'] = [Said[r] EXCEPT ![Current(r)] = w]
    BY <1>6 DEF Said
  <2> QED
    BY <2>1, OwnBatch
<1>8. todo' = [todo EXCEPT ![r] = @ \ {Current(r)}]
  BY <1>0, <1>2, OwnBatch
<1>9. Results' = Results /\ Results[r] = "running"
  BY <1>3, OwnBatch DEF Results
<1> QED
  BY <1>1, <1>7, <1>8, <1>9 DEF Syncing!Handle, Said, Results

LEMMA BatchStep ==
  ASSUME VerbsInv, [VerbsNext]_verbsVars
  PROVE  [Syncing!Next]_(Syncing!vars)
<1>0. VerbTypes /\ VerbTypes'
  BY VerbsTypesStep DEF VerbsInv
<1>1. CASE UserActs \/ UNCHANGED verbsVars
  <2>1. \A o \in Runs : Untouched(o)
    BY <1>1, UserTouchesNone
  <2>2. \A o \in Runs : todo'[o] = todo[o]
    BY <2>1 DEF Untouched
  <2>3. todo' = todo
    <3>1. todo = [o \in Runs |-> todo[o]] /\ todo' = [o \in Runs |-> todo'[o]]
      BY <1>0 DEF VerbTypes
    <3> QED
      BY <2>2, <3>1
  <2>4. \A o \in Runs : Result(o)' = Result(o) /\ \A p \in Project : Told(o, p)' = Told(o, p)
    BY <2>1, UntouchedIsSame
  <2>5. Results' = Results /\ Said' = Said
    BY <2>4 DEF Results, Said
  <2> QED
    BY <2>3, <2>5 DEF Syncing!vars, Results, Said
<1>2. ASSUME NEW r \in Runs, Acts(r) PROVE Syncing!Next \/ UNCHANGED Syncing!vars
  <2>0. Placed(r)
    BY DEF VerbsInv
  <2>1. CASE \/ GetEnv(r) \/ Find(r) \/ HasConfig(r) \/ WaitForUser(r) \/ Mkdir(r) \/ Tar(r)
             \/ MakeConfig(r) /\ UNCHANGED <<todo, verdict>>
    <3>1. /\ at[r] \in Working /\ at'[r] \in Working /\ job' = job
          /\ UNCHANGED <<todo, verdict>>
      <4>1. CASE GetEnv(r) \/ Find(r)
        BY <1>0, <4>1 DEF GetEnv, Find, Goto, Working, VerbTypes
      <4>2. CASE HasConfig(r) \/ WaitForUser(r)
        BY <1>0, <4>2 DEF HasConfig, WaitForUser, Goto, run, Working, VerbTypes
      <4>3. CASE Mkdir(r) \/ Tar(r)
        BY <1>0, <4>3 DEF Mkdir, Tar, Goto, run, Working, VerbTypes
      <4>4. CASE MakeConfig(r) /\ UNCHANGED <<todo, verdict>>
        <5>1. at' = [at EXCEPT ![r] = "poll"] \/ at' = [at EXCEPT ![r] = "next"]
          BY <4>4 DEF MakeConfig, Goto, Verdict
        <5>2. at[r] = "config" /\ job' = job
          BY <4>4 DEF MakeConfig
        <5> QED
          BY <1>0, <4>4, <5>1, <5>2 DEF Working, VerbTypes
      <4> QED
        BY <2>1, <4>1, <4>2, <4>3, <4>4
    <3>2. Result(r)' = Result(r)
      BY <3>1 DEF Result, Working
    <3> QED
      BY <1>0, <1>2, <3>1, <3>2, Unseen
  <2>2. CASE \/ FindNone(r) \/ FailProject(r) \/ SkipConfig(r) \/ Chown(r)
             \/ MakeConfig(r) /\ Verdict(r, "failed")
    <3>1. /\ at[r] \in Working /\ todo[r] # {} /\ job' = job
          /\ \E v \in {"synced", "partial", "skipped", "failed"} : Verdict(r, v)
      <4>1. CASE FindNone(r)
        BY <2>0, <4>1 DEF FindNone, Placed, Working
      <4>2. CASE FailProject(r)
        BY <2>0, <4>2 DEF FailProject, Working
      <4>3. CASE SkipConfig(r)
        BY <2>0, <4>3 DEF SkipConfig, Placed, Working
      <4>4. CASE Chown(r)
        BY <2>0, <4>4 DEF Chown, Placed, Working
      <4>5. CASE MakeConfig(r) /\ Verdict(r, "failed")
        BY <2>0, <4>5 DEF MakeConfig, Placed, Working
      <4> QED
        BY <2>2, <4>1, <4>2, <4>3, <4>4, <4>5
    <3> QED
      BY <1>0, <1>2, <3>1, Handling DEF Syncing!Next
  <2>3. CASE Report(r)
    <3>1. /\ todo[r] = {} /\ job' = job /\ todo' = todo /\ verdict' = verdict
          /\ at[r] = "next" /\ job[r].verb \in {"sync", "up"}
      BY <2>0, <2>3 DEF Report, run, Placed, Working
    <3> DEFINE to == IF \E p \in Project : Said[r][p] = "failed" THEN "failed" ELSE "ok"
    <3>2. (\E p \in Project : Said[r][p] = "failed")
            <=> \E p \in Project : verdict[r][p] = "failed"
      BY DEF Said, Told
    <3>3. at'[r] = to
      BY <1>0, <2>3, <3>2 DEF Report, Goto, VerbTypes
    <3>4. Result(r) = "running" /\ Result(r)' = to
      BY <3>1, <3>3 DEF Result, Working
    <3>5. Syncing!Becomes(r, "running", to) /\ Said' = Said
      BY <1>0, <1>2, <3>1, <3>4, Becoming
    <3> QED
      BY <3>1, <3>5 DEF Syncing!Next, Syncing!Finish, Said
  <2>4. CASE Interrupt(r)
    <3>1. at'[r] = "interrupted" /\ job' = job /\ todo' = todo /\ verdict' = verdict
      BY <1>0, <2>4 DEF Interrupt, Goto, run, VerbTypes
    <3>2. CASE at[r] \in Working
      <4>1. Result(r) = "running" /\ Result(r)' = "interrupted"
        BY <2>0, <3>1, <3>2 DEF Result, Working, Placed
      <4>2. Syncing!Becomes(r, "running", "interrupted") /\ Said' = Said
        BY <1>0, <1>2, <3>1, <4>1, Becoming
      <4> QED
        BY <3>1, <4>2 DEF Syncing!Next, Syncing!Interrupt, Said
    <3>3. CASE at[r] \in Picking
      <4>1. Result(r)' = Result(r)
        BY <2>0, <3>1, <3>3 DEF Result, Placed
      <4> QED
        BY <1>0, <1>2, <3>1, <4>1, Unseen
    <3> QED
      BY <2>4, <3>2, <3>3 DEF Interrupt, Working, Picking
  <2>5. CASE Snapshots(r)
    <3>1. job[r].verb = "snapshot" /\ job' = job /\ todo' = todo /\ verdict' = verdict
      BY <2>0, <2>5 DEF Snapshots, ResolveProject, NoProject, ResolveContainer, OffersChoice,
         Choose, NoContainerFound, SnapshotFails, Commit, Cancel, run, Placed, Picking
    <3>2. Result(r)' = Result(r)
      BY <3>1 DEF Result
    <3> QED
      BY <1>0, <1>2, <3>1, <3>2, Unseen
  <2>6. ASSUME NEW q \in Jobs, Begins(r, q) PROVE Syncing!Next \/ UNCHANGED Syncing!vars
    <3>1. /\ q.verb \in {"sync", "up", "snapshot"}
          /\ q.verb = "up" => q.name \in Project
      BY JobFields
    <3>2. /\ job'[r] = q /\ verdict' = verdict /\ at[r] = "idle" /\ todo[r] = {}
          /\ Result(r) = "none"
      <4>1. verdict' = verdict /\ Ask(r, q)
        BY <2>6 DEF Begins, SyncBegins, SyncNoDocker, UpBegins, SnapshotBegins, run
      <4>2. job'[r] = q /\ at[r] = "idle"
        BY <1>0, <4>1 DEF Ask, VerbTypes
      <4>3. job[r] = NoJob /\ todo[r] = {}
        BY <2>0, <4>2 DEF Placed
      <4>4. Result(r) = "none"
        BY <4>3 DEF Result, NoJob
      <4> QED
        BY <4>1, <4>2, <4>3, <4>4
    <3>3. CASE SnapshotBegins(r, q)
      <4>1. todo' = todo /\ Result(r)' = Result(r)
        BY <3>2, <3>3 DEF SnapshotBegins, run, Result
      <4> QED
        BY <1>0, <1>2, <3>2, <4>1, Unseen
    <3>4. ASSUME q.verb \in {"sync", "up"}, at'[r] \in Working PROVE Syncing!Next
      <4>1. Result(r)' = "running"
        BY <3>2, <3>4 DEF Result, Working
      <4>2. Syncing!Becomes(r, "none", "running") /\ Said' = Said
        BY <1>0, <1>2, <3>2, <4>1, Becoming
      <4>3. todo' = [todo EXCEPT ![r] = todo'[r]] /\ todo'[r] \in SUBSET Project
        BY <1>0, <1>2, OwnBatch DEF VerbTypes
      <4> QED
        BY <4>2, <4>3 DEF Syncing!Next, Syncing!Start, Said
    <3>5. ASSUME q.verb = "sync", at'[r] \in {"ok", "error"}, todo'[r] = {} PROVE Syncing!Next
      <4>1. Result(r)' = at'[r]
        BY <3>2, <3>5 DEF Result, Working
      <4>2. Syncing!Becomes(r, "none", at'[r]) /\ Said' = Said
        BY <1>0, <1>2, <3>2, <4>1, Becoming
      <4>3. todo' = todo
        <5>1. todo' = [todo EXCEPT ![r] = {}]
          BY <1>0, <1>2, <3>5, OwnBatch
        <5>2. todo[r] = {}
          BY <3>2
        <5> QED
          BY <1>0, <5>1, <5>2 DEF VerbTypes
      <4> QED
        BY <3>5, <4>2, <4>3 DEF Syncing!Next, Syncing!NoBatch, Said
    <3>6. CASE SyncBegins(r, q)
      <4>1. /\ q.verb = "sync"
            /\ \/ at'[r] = "ok" /\ todo'[r] = {}
               \/ at'[r] = "next"
        BY <1>0, <3>6 DEF SyncBegins, Goto, VerbTypes
      <4> QED
        BY <3>4, <3>5, <4>1 DEF Working
    <3>7. CASE SyncNoDocker(r, q)
      <4>1. q.verb = "sync" /\ at'[r] = "error" /\ todo'[r] = {}
        BY <1>0, <3>2, <3>7 DEF SyncNoDocker, Goto, run, VerbTypes
      <4> QED
        BY <3>5, <4>1
    <3>8. CASE UpBegins(r, q)
      <4>1. q.verb = "up" /\ at'[r] = "config"
        BY <1>0, <3>8 DEF UpBegins, Goto, VerbTypes
      <4> QED
        BY <3>4, <4>1 DEF Working
    <3> QED
      BY <2>6, <3>3, <3>6, <3>7, <3>8 DEF Begins
  <2> QED
    BY <1>2, <2>1, <2>2, <2>3, <2>4, <2>5, <2>6 DEF Acts, Syncs, MakeConfig
<1> QED
  BY <1>1, <1>2 DEF VerbsNext, Acts, UserActs

\* sync_config_cmd and the sync of up implement the batch of Batch: no project
\* is lost, none is told twice, and a run says 0 only if none has failed.
THEOREM VerbsImplementBatch == VerbsSpec => ImplementsBatch
<1>1. VerbsInv /\ [VerbsNext]_verbsVars => [Syncing!Next]_(Syncing!vars)
  BY BatchStep
<1> QED
  BY <1>1, BatchInit, VerbsInvAlways, PTL DEF VerbsSpec, ImplementsBatch, Syncing!Spec

=============================================================================
