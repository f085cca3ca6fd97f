------------------------------ MODULE Container ------------------------------
(***************************************************************************)
(* One life of a sandbox container, from the entrypoint's first line to    *)
(* the death of its PID 1.  Three parties interleave with the shell: the   *)
(* user (who opens and closes the IDE), supervisord (which may end by      *)
(* itself) and Docker, which answers "docker stop" with a SIGTERM now and  *)
(* a SIGKILL Grace seconds later.                                          *)
(*                                                                         *)
(*   entrypoint.sh           installs the trap, starts CMD, waits          *)
(*   graceful_shutdown       runs /etc/shutdown.d, then ends supervisord   *)
(*   10-ag-shutdown.sh       asks the IDE to quit before signalling it     *)
(*                                                                         *)
(* Time is counted in seconds and passes only in the steps that take some: *)
(* the sleeps of the hook, its search of the window tree, and the waits.   *)
(***************************************************************************)
EXTENDS Naturals

CONSTANTS
    Grace,      \* stop_grace_period of the compose service, in seconds
    MaxStops    \* bound: how many times the container is asked to stop

ASSUME ContainerAssumption == Grace \in Nat /\ MaxStops \in Nat \ {0}

VARIABLES
    pc,             \* where PID 1 is
    shuttingDown,   \* SHUTTING_DOWN
    knowsPid,       \* SUPERVISOR_PID is set
    supervisor,     \* the CMD process
    ide,            \* the IDE: none | window | hidden | gone
    hook,           \* where 10-ag-shutdown.sh is
    waited,         \* iterations of its current polling loop
    age,            \* seconds since "timeout" started the hook
    pending,        \* a SIGTERM waits for the foreground command to end
    clock,          \* seconds since the first "docker stop", at most Grace
    stops,          \* "docker stop" requests so far
    status,         \* exit status of PID 1: running | hook's | 0 | ...
    heardAt,        \* history: clock when the handler began, or NotYet
    askedAge,       \* history: age when the IDE was sent ctrl+q, or NotYet
    askedAt,        \* history: clock at that moment, or NotYet
    signalledAt,    \* history: clock when a signal first reached the IDE
    termAt          \* history: clock when supervisord was sent SIGTERM

shell   == <<pc, shuttingDown, knowsPid, pending, status>>
script  == <<hook, waited, age>>
history == <<heardAt, askedAge, askedAt, signalledAt, termAt>>
vars    == <<shell, script, supervisor, ide, clock, stops, history>>

NotYet == Grace + 1

\* Mutant: longer than the grace period allows.
HookLimit_Thirty == 30

\* timeout 22s
HookLimit == 22

\* for i in $(seq 1 12)
QuitWait == 12

\* for i in $(seq 1 8)
TermWait == 8

InHandler == pc \in {"hooks", "reap"}
Alive     == pc # "gone"
IdeRuns   == ide \in {"window", "hidden"}

Init ==
    /\ pc = "boot" /\ shuttingDown = FALSE /\ knowsPid = FALSE
    /\ pending = FALSE /\ status = "running"
    /\ hook = "idle" /\ waited = 0 /\ age = 0
    /\ supervisor = "none" /\ ide = "none"
    /\ clock = 0 /\ stops = 0
    /\ heardAt = NotYet /\ askedAge = NotYet
    /\ askedAt = NotYet /\ signalledAt = NotYet /\ termAt = NotYet

-----------------------------------------------------------------------------
(* Time, signals and exits                                                 *)

\* One second, once somebody counts.
Second ==
    /\ clock < Grace
    /\ clock' = IF stops > 0 THEN clock + 1 ELSE 0

Signalled == IF IdeRuns /\ signalledAt = NotYet THEN clock ELSE signalledAt

\* PID 1 ends: the kernel kills whatever still runs in its namespace.
Exit(code) ==
    /\ pc' = "gone"
    /\ status' = code
    /\ signalledAt' = Signalled
    /\ ide' = IF IdeRuns THEN "gone" ELSE ide
    /\ supervisor' = IF supervisor \in {"up", "stopping"} THEN "cut" ELSE supervisor
    /\ hook' = "idle"

-----------------------------------------------------------------------------
(* entrypoint.sh, main line                                                *)

\* trap graceful_shutdown SIGTERM SIGINT, after the entrypoint.d hooks
SetTrap ==
    /\ pc = "boot"
    /\ pc' = "trapped"
    /\ UNCHANGED <<shuttingDown, knowsPid, pending, status, script, supervisor,
                   ide, clock, stops, history>>

\* set -e: a failing entrypoint.d hook ends the shell before there is a CMD.
BootFails ==
    /\ pc = "boot"
    /\ Exit("hook")
    /\ UNCHANGED <<shuttingDown, knowsPid, pending, waited, age, clock, stops,
                   heardAt, askedAge, askedAt, termAt>>

\* "$@" &
Fork ==
    /\ pc = "trapped"
    /\ pc' = "forked"
    /\ supervisor' = "up"
    /\ UNCHANGED <<shuttingDown, knowsPid, pending, status, script, ide, clock,
                   stops, history>>

\* SUPERVISOR_PID=$!
RememberPid ==
    /\ pc = "forked"
    /\ pc' = "waiting"
    /\ knowsPid' = TRUE
    /\ UNCHANGED <<shuttingDown, pending, status, script, supervisor, ide,
                   clock, stops, history>>

\* wait returned because supervisord ended by itself
ExitWithSupervisor ==
    /\ pc = "waiting"
    /\ supervisor = "gone"
    /\ Exit("supervisor")
    /\ UNCHANGED <<shuttingDown, knowsPid, pending, waited, age, clock, stops,
                   heardAt, askedAge, askedAt, termAt>>

\* Booting and waiting take time too: a stop that nobody heard runs out.
Idle ==
    /\ Alive
    /\ ~InHandler
    /\ stops > 0
    /\ Second
    /\ UNCHANGED <<shell, script, supervisor, ide, stops, history>>

-----------------------------------------------------------------------------
(* graceful_shutdown                                                       *)

\* Entering the handler: the SHUTTING_DOWN guard, then the hooks start.
Handler ==
    IF shuttingDown
    THEN UNCHANGED <<pc, shuttingDown, hook, waited, age, heardAt>>
    ELSE /\ shuttingDown' = TRUE
         /\ pc' = "hooks"
         /\ hook' = "search"
         /\ waited' = 0
         /\ age' = 0
         /\ heardAt' = IF heardAt = NotYet THEN clock ELSE heardAt


Stop == stops < MaxStops /\ Alive /\ stops' = stops + 1

\* docker stop while PID 1 has no handler: the kernel drops the signal.
StopIgnored ==
    /\ Stop
    /\ pc = "boot"
    /\ UNCHANGED <<shell, script, supervisor, ide, clock, history>>

\* docker stop once the trap is set and no handler runs yet
StopHeard ==
    /\ Stop
    /\ pc \in {"trapped", "forked", "waiting"}
    /\ Handler
    /\ UNCHANGED <<knowsPid, pending, status, supervisor, ide, clock, askedAge,
                   askedAt, signalledAt, termAt>>

\* docker stop while the handler runs a hook in the foreground: bash keeps
\* the signal until the hook returns.
StopDeferred ==
    /\ Stop
    /\ pc = "hooks"
    /\ pending' = TRUE
    /\ UNCHANGED <<pc, shuttingDown, knowsPid, status, script, supervisor, ide,
                   clock, history>>

\* docker stop while the handler waits for supervisord: bash may return from
\* that wait at once (and exit 0 follows), or not run a trap inside a trap.
StopInterruptsReap ==
    /\ Stop
    /\ pc = "reap"
    /\ \/ Exit("0") /\ UNCHANGED <<heardAt, askedAge, askedAt, termAt>>
       \/ UNCHANGED <<pc, status, ide, supervisor, hook, history>>
    /\ UNCHANGED <<shuttingDown, knowsPid, pending, waited, age, clock>>

\* A deferred SIGTERM runs the handler again, inside the first one.
NestedHandler ==
    /\ pc = "hooks"
    /\ hook = "done"
    /\ pending
    /\ pending' = FALSE
    /\ Handler
    /\ UNCHANGED <<knowsPid, status, supervisor, ide, clock, stops, askedAge,
                   askedAt, signalledAt, termAt>>

\* [ -n "$SUPERVISOR_PID" ] && kill -0 && kill -TERM
EndSupervisor ==
    /\ pc = "hooks"
    /\ hook = "done"
    /\ ~pending
    /\ knowsPid /\ supervisor = "up"
    /\ pc' = "reap"
    /\ supervisor' = "stopping"
    /\ termAt' = clock
    /\ UNCHANGED <<shuttingDown, knowsPid, pending, status, script, ide, clock,
                   stops, heardAt, askedAge, askedAt, signalledAt>>

\* the same test fails: exit 0 with whatever is running left to the kernel
NoSupervisorToEnd ==
    /\ pc = "hooks"
    /\ hook = "done"
    /\ ~pending
    /\ ~(knowsPid /\ supervisor = "up")
    /\ Exit("0")
    /\ UNCHANGED <<shuttingDown, knowsPid, pending, waited, age, clock, stops,
                   heardAt, askedAge, askedAt, termAt>>

\* Mutant: exits as soon as SIGTERM is sent
Reap_NoWait ==
    /\ pc = "reap"
    /\ Exit("0")
    /\ UNCHANGED <<shuttingDown, knowsPid, pending, waited, age, stops, clock,
                   heardAt, askedAge, askedAt, termAt>>

\* wait "$SUPERVISOR_PID"
Reap ==
    /\ pc = "reap"
    /\ \/ supervisor = "gone"
          /\ Exit("0")
          /\ UNCHANGED <<clock, heardAt, askedAge, askedAt, termAt>>
       \/ supervisor = "stopping"
          /\ Second
          /\ UNCHANGED <<pc, status, ide, supervisor, hook, history>>
    /\ UNCHANGED <<shuttingDown, knowsPid, pending, waited, age, stops>>

-----------------------------------------------------------------------------
(* 10-ag-shutdown.sh, under "timeout 22s"                                  *)

InHook == pc = "hooks" /\ hook \notin {"idle", "done"}

\* A second spent inside the hook: the timer of "timeout" runs as well.
HookSecond ==
    /\ age < HookLimit
    /\ age' = age + 1
    /\ Second

\* xdotool search and getwindowname take their time (a busy X server).
Search ==
    /\ InHook /\ hook = "search"
    /\ HookSecond
    /\ UNCHANGED <<shell, hook, waited, supervisor, ide, stops, history>>

\* An editor window was found: it is sent ctrl+q.
AskIde ==
    /\ InHook /\ hook = "search"
    /\ ide = "window"
    /\ hook' = "quit"
    /\ waited' = 0
    /\ askedAge' = age
    /\ askedAt' = clock
    /\ UNCHANGED <<shell, age, supervisor, ide, clock, stops, heardAt, signalledAt, termAt>>

\* pkill -TERM -f $AG_DIR
TermIde ==
    /\ hook' = "term"
    /\ waited' = 0
    /\ signalledAt' = Signalled

\* No window, or no X server to answer (|| true): straight to the processes.
NothingToAsk ==
    /\ InHook /\ hook = "search"
    /\ TermIde
    /\ UNCHANGED <<shell, age, supervisor, ide, clock, stops, heardAt, askedAge, askedAt, termAt>>

\* One iteration of a polling loop of at most "limit": it ends early when
\* pgrep finds nothing, and otherwise sleeps one second.
Poll(limit) ==
    \/ /\ ~IdeRuns
       /\ hook' = "done"
       /\ UNCHANGED <<waited, age, clock>>
    \/ /\ IdeRuns
       /\ waited < limit
       /\ waited' = waited + 1
       /\ HookSecond
       /\ UNCHANGED hook

QuitPoll ==
    /\ InHook /\ hook = "quit"
    /\ Poll(QuitWait)
    /\ UNCHANGED <<shell, supervisor, ide, stops, history>>

\* Mutant: the loop is left as if its condition were inverted.
QuitExpires_AtOnce ==
    /\ InHook /\ hook = "quit"
    /\ IdeRuns /\ waited < QuitWait
    /\ TermIde
    /\ UNCHANGED <<shell, age, supervisor, ide, clock, stops, heardAt, askedAge, askedAt, termAt>>

\* twelve iterations and the IDE is still there
QuitExpires ==
    /\ InHook /\ hook = "quit"
    /\ IdeRuns /\ waited = QuitWait
    /\ TermIde
    /\ UNCHANGED <<shell, age, supervisor, ide, clock, stops, heardAt, askedAge, askedAt, termAt>>

TermPoll ==
    /\ InHook /\ hook = "term"
    /\ Poll(TermWait)
    /\ UNCHANGED <<shell, supervisor, ide, stops, history>>

\* "leaving final termination to supervisor/Docker"
TermExpires ==
    /\ InHook /\ hook = "term"
    /\ IdeRuns /\ waited = TermWait
    /\ hook' = "done"
    /\ UNCHANGED <<shell, waited, age, supervisor, ide, clock, stops, history>>

\* timeout kills the hook; "|| echo" swallows its status.
HookTimesOut ==
    /\ InHook
    /\ age = HookLimit
    /\ hook' = "done"
    /\ UNCHANGED <<shell, waited, age, supervisor, ide, clock, stops, history>>

-----------------------------------------------------------------------------
(* The others                                                              *)

OpenIde ==
    /\ ide = "none" /\ supervisor = "up" /\ Alive
    /\ ide' = "window"
    /\ UNCHANGED <<shell, script, supervisor, clock, stops, history>>

\* The last window closes and background processes stay.
HideIde ==
    /\ ide = "window"
    /\ ide' = "hidden"
    /\ UNCHANGED <<shell, script, supervisor, clock, stops, history>>

CloseIde ==
    /\ IdeRuns
    /\ ide' = "gone"
    /\ UNCHANGED <<shell, script, supervisor, clock, stops, history>>

\* supervisord ends: on request, or because it crashed.
SupervisorEnds ==
    /\ supervisor \in {"up", "stopping"}
    /\ supervisor' = "gone"
    /\ UNCHANGED <<shell, script, ide, clock, stops, history>>

\* The grace period is over.
DockerKill ==
    /\ Alive /\ stops > 0 /\ clock = Grace
    /\ Exit("137")
    /\ UNCHANGED <<shuttingDown, knowsPid, pending, waited, age, clock, stops,
                   heardAt, askedAge, askedAt, termAt>>

Next ==
    \/ SetTrap \/ BootFails \/ Fork \/ RememberPid \/ ExitWithSupervisor \/ Idle
    \/ StopIgnored \/ StopHeard \/ StopDeferred \/ StopInterruptsReap
    \/ NestedHandler \/ EndSupervisor \/ NoSupervisorToEnd \/ Reap
    \/ Search \/ AskIde \/ NothingToAsk \/ QuitPoll \/ QuitExpires
    \/ TermPoll \/ TermExpires \/ HookTimesOut
    \/ OpenIde \/ HideIde \/ CloseIde \/ SupervisorEnds \/ DockerKill

Spec == Init /\ [][Next]_vars

-----------------------------------------------------------------------------
(* Properties                                                              *)

\* An IDE that was sent ctrl+q is left alone for twelve seconds, by the hook,
\* by the exit of PID 1 and by Docker's SIGKILL, provided the first stop was
\* heard and the search left the hook that much of its own time limit
\* (10-ag-shutdown.sh: "asked to close itself before anything signals it").
IdeGetsItsTime ==
    (/\ heardAt = 0
     /\ askedAt # NotYet /\ askedAge <= HookLimit - 12
     /\ signalledAt # NotYet)
    => signalledAt >= askedAt + 12

\* The SIGKILL that ends the grace period never hits a shutdown that was heard
\* at once before supervisord has had eight seconds of its own
\* (graceful_shutdown: "leaving room for supervisord").
RoomForSupervisor ==
    heardAt = 0 /\ status = "137" => termAt <= Grace - 8

\* An exit status 0 cuts supervisord short in exactly two windows: the stop
\* came between the fork and SUPERVISOR_PID=$!, so that the handler has no pid
\* to end (entrypoint.sh:211), or a further stop arrives while the handler waits
\* for it (entrypoint.sh:206).  Otherwise 0 means that it has ended.
CleanExitMeansStopped ==
    [][status # "0" /\ status' = "0" /\ supervisor' = "cut"
        => \/ pc = "hooks" /\ ~knowsPid
           \/ pc = "reap" /\ stops' = stops + 1]_vars

=============================================================================
