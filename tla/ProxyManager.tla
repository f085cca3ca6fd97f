---------------------------- MODULE ProxyManager ----------------------------
(***************************************************************************)
(* infra/proxy_manager.py: set up and remove the systemd user service that *)
(* bridges the host's SSH agent to a fixed socket path (verbs/proxy.py, and *)
(* up, which may set it up from generate_git_compose).                     *)
(*                                                                         *)
(* Four parties work on the same path: the CLI processes, systemd, socat   *)
(* and docker, which makes a directory where a volume's source is missing. *)
(* No lock is taken; setup and remove look and act in separate steps.      *)
(***************************************************************************)
EXTENDS Naturals, FiniteSets

CONSTANTS
  MaxRuns,   (* BOUND: CLI processes                                          *)
  MaxPolls,  (* BOUND: times the socket is looked for; 10 in the code         *)
  MaxFaults, (* BOUND: CLI processes of which a command fails                   *)
  MaxDirs    (* BOUND: directories made by docker                             *)

ASSUME ProxyManagerAssumption ==
  MaxRuns \in Nat /\ MaxPolls \in Nat /\ MaxFaults \in Nat /\ MaxDirs \in Nat

Runs == 1..MaxRuns

VARIABLES
  path,     (* what is at socket_path: "none", the socket of the running      *)
            (* socat ("live") or of a dead one ("stale"), or a "dir"          *)
  unit,     (* does the unit file exist?                                      *)
  enabled,  (* is the service enabled?                                        *)
  service,  (* "off", "starting" and "up" (both active), or "retry":          *)
            (* Restart=always waits for RestartSec                            *)
  verb, at, (* what each process does, and where it is                        *)
  polls,    (* how often it has looked for the socket                         *)
  alone,    (* history: nobody else has interfered with this process          *)
  failed,   (* history: the processes of which a command has failed           *)
  dirs

host  == <<path, unit, enabled, service>>
local == <<verb, polls>>
proxyVars  == <<host, local, at, alone, failed, dirs>>

Ended     == {"ok", "not active", "timeout", "error", "killed"}
Active(r) == at[r] \notin Ended \cup {"idle"}
Listening == service = "up" /\ path = "live"

ProxyInit ==
  /\ path = "none" /\ unit = FALSE /\ enabled = FALSE /\ service = "off"
  /\ verb = [r \in Runs |-> "none"]
  /\ at = [r \in Runs |-> "idle"]
  /\ polls = [r \in Runs |-> 0]
  /\ alone = [r \in Runs |-> TRUE]
  /\ failed = {} /\ dirs = 0

Goto(r, label) == at' = [at EXCEPT ![r] = label]
Keep == UNCHANGED <<alone, failed, dirs>>

Begin(r, v) ==
  /\ at[r] = "idle" /\ \A s \in 1..(r - 1) : at[s] # "idle"
  /\ verb' = [verb EXCEPT ![r] = v]
  /\ Goto(r, IF v = "setup" THEN "look" ELSE "enabled?")
  /\ alone' = [s \in Runs |-> IF s = r THEN \A o \in Runs : ~Active(o)
                              ELSE alone[s] /\ ~Active(s)]
  /\ UNCHANGED <<host, polls, failed, dirs>>

-----------------------------------------------------------------------------
(* setup.  socat is installed; otherwise it raises and touches nothing. *)

\* Mutant: whatever is at the path is left for socat to replace.
LookForStale_Leaves(r) ==
  /\ at[r] = "look"
  /\ Goto(r, "write unit")
  /\ UNCHANGED <<host, local>> /\ Keep

LookForStale(r) ==
  /\ at[r] = "look"
  /\ Goto(r, IF path = "none" THEN "write unit" ELSE "unlink")
  /\ UNCHANGED <<host, local>> /\ Keep

\* Mutant: a directory is not expected there.
RemoveStale_FileOnly(r) ==
  /\ at[r] = "unlink"
  /\ IF path = "dir" THEN Goto(r, "error") /\ UNCHANGED path
     ELSE Goto(r, "write unit") /\ path' = "none"
  /\ UNCHANGED <<unit, enabled, service, local>> /\ Keep

\* rmtree or remove of what is there now; that it is gone by now is an OSError
\* that is ignored.
RemoveStale(r) ==
  /\ at[r] = "unlink"
  /\ path' = "none"
  /\ Goto(r, "write unit")
  /\ UNCHANGED <<unit, enabled, service, local>> /\ Keep

WriteUnit(r) ==
  /\ at[r] = "write unit"
  /\ unit' = TRUE
  /\ Goto(r, "enable")
  /\ UNCHANGED <<path, enabled, service, local>> /\ Keep

\* daemon-reload and enable: systemd has to find the unit file.
Enable(r) ==
  /\ at[r] = "enable"
  /\ IF unit THEN enabled' = TRUE /\ Goto(r, "restart")
     ELSE UNCHANGED enabled /\ Goto(r, "error")
  /\ UNCHANGED <<path, unit, service, local>> /\ Keep

\* systemctl restart comes back as soon as a new socat is forked.  The old one
\* may unlink its socket.
Restart(r) ==
  /\ at[r] = "restart"
  /\ IF unit
     THEN /\ service' = "starting"
          /\ path' \in (IF path = "live" THEN {"none", "stale"} ELSE {path})
          /\ Goto(r, "poll")
     ELSE Goto(r, "error") /\ UNCHANGED <<path, service>>
  /\ UNCHANGED <<unit, enabled, local>> /\ Keep

\* Ten times, a second apart, os.path.exists; then is the service active?
PollSocket(r) ==
  /\ at[r] = "poll" /\ verb[r] = "setup"
  /\ IF path # "none" THEN Goto(r, "ok") /\ UNCHANGED polls
     ELSE IF polls[r] < MaxPolls
     THEN polls' = [polls EXCEPT ![r] = @ + 1] /\ UNCHANGED at
     ELSE /\ UNCHANGED polls
          /\ Goto(r, IF unit /\ enabled /\ service \in {"starting", "up"}
                     THEN "timeout" ELSE "not active")
  /\ UNCHANGED <<host, verb>> /\ Keep

Setup(r) ==
  LookForStale(r) \/ RemoveStale(r) \/ WriteUnit(r) \/ Enable(r) \/ Restart(r)
    \/ PollSocket(r)

-----------------------------------------------------------------------------
(* remove *)

IsEnabled(r) ==
  /\ at[r] = "enabled?"
  /\ Goto(r, IF unit /\ enabled THEN "disable" ELSE "unit?")
  /\ UNCHANGED <<host, local>> /\ Keep

\* Mutant: disable without --now.
Disable_NotNow(r) ==
  /\ at[r] = "disable"
  /\ enabled' = FALSE
  /\ Goto(r, "unit?")
  /\ UNCHANGED <<path, unit, service, local>> /\ Keep

\* disable --now: socat is stopped and may unlink its socket.
Disable(r) ==
  /\ at[r] = "disable"
  /\ enabled' = FALSE
  /\ service' = "off"
  /\ path' \in (IF path = "live" THEN {"none", "stale"} ELSE {path})
  /\ Goto(r, "unit?")
  /\ UNCHANGED <<unit, local>> /\ Keep

UnitExists(r) ==
  /\ at[r] = "unit?"
  /\ Goto(r, IF unit THEN "remove unit" ELSE "socket?")
  /\ UNCHANGED <<host, local>> /\ Keep

\* os.remove of the unit file raises if it is gone by now.
RemoveUnit(r) ==
  /\ at[r] = "remove unit"
  /\ unit' = FALSE
  /\ Goto(r, IF unit THEN "socket?" ELSE "error")
  /\ UNCHANGED <<path, enabled, service, local>> /\ Keep

SocketExists(r) ==
  /\ at[r] = "socket?"
  /\ Goto(r, IF path = "none" THEN "poll" ELSE "remove socket")
  /\ UNCHANGED <<host, local>> /\ Keep

\* os.remove of the socket raises if it is gone by now, or a directory.
RemoveSocket(r) ==
  /\ at[r] = "remove socket"
  /\ IF path \in {"live", "stale"} THEN path' = "none" /\ Goto(r, "poll")
     ELSE UNCHANGED path /\ Goto(r, "error")
  /\ UNCHANGED <<unit, enabled, service, local>> /\ Keep

PollGone(r) ==
  /\ at[r] = "poll" /\ verb[r] = "remove"
  /\ IF path = "none" THEN Goto(r, "ok") /\ UNCHANGED polls
     ELSE IF polls[r] < MaxPolls
     THEN polls' = [polls EXCEPT ![r] = @ + 1] /\ UNCHANGED at
     ELSE Goto(r, "timeout") /\ UNCHANGED polls
  /\ UNCHANGED <<host, verb>> /\ Keep

Remove(r) ==
  IsEnabled(r) \/ Disable(r) \/ UnitExists(r) \/ RemoveUnit(r) \/ SocketExists(r)
    \/ RemoveSocket(r) \/ PollGone(r)
-----------------------------------------------------------------------------
(* What goes wrong, and the other parties *)

\* A command or a removal fails: most raise; is-enabled then means no; disable
\* is best effort and may have worked in part; a stale socket that cannot be
\* removed is left there.
Fault(r) ==
  /\ failed' = failed \cup {r} /\ Cardinality(failed') <= MaxFaults
  /\ \/ /\ at[r] \in {"write unit", "enable", "restart", "remove socket"}
        /\ Goto(r, "error") /\ UNCHANGED host
     \/ /\ at[r] = "remove unit"
        /\ Goto(r, "error") /\ unit' \in {unit, FALSE}
        /\ UNCHANGED <<path, enabled, service>>
     \/ at[r] = "enabled?" /\ Goto(r, "unit?") /\ UNCHANGED host
     \/ /\ at[r] = "unlink"
        /\ Goto(r, IF path = "dir" THEN "error" ELSE "write unit") /\ UNCHANGED host
     \/ /\ at[r] = "disable"
        /\ Goto(r, "unit?") /\ enabled' \in BOOLEAN /\ UNCHANGED <<path, unit, service>>
  /\ UNCHANGED <<local, alone, dirs>>

Killed(r) ==
  /\ Active(r)
  /\ Goto(r, "killed")
  /\ UNCHANGED <<host, local>> /\ Keep

\* socat unlinks what is there (unlink-early) and listens; the agent it is to
\* connect to matters only to a later client.
SocatListens ==
  /\ service = "starting" /\ path # "dir"
  /\ service' = "up" /\ path' = "live"
  /\ UNCHANGED <<unit, enabled, local, at>> /\ Keep

Disturb == alone' = [r \in Runs |-> alone[r] /\ ~Active(r)]

\* It cannot replace a directory, and it may crash.
SocatDies ==
  /\ service' = "retry"
  /\ \/ service = "starting" /\ path = "dir" /\ UNCHANGED <<path, alone>>
     \/ /\ service = "up" /\ Disturb
        /\ path' = IF path = "live" THEN "stale" ELSE path
  /\ UNCHANGED <<unit, enabled, local, at, failed, dirs>>

SocatRetries ==
  /\ service = "retry"
  /\ service' = "starting"
  /\ UNCHANGED <<path, unit, enabled, local, at>> /\ Keep

\* A container that mounts the socket is started while there is none.
DockerMakesDir ==
  /\ path = "none" /\ dirs < MaxDirs
  /\ dirs' = dirs + 1
  /\ path' = "dir"
  /\ Disturb
  /\ UNCHANGED <<unit, enabled, service, local, at, failed>>

Reboot ==
  /\ \A r \in Runs : ~Active(r)
  /\ service' = IF unit /\ enabled THEN "starting" ELSE "off"
  /\ path' = IF path = "live" THEN "stale" ELSE path
  /\ UNCHANGED <<unit, enabled, local, at>> /\ Keep

Step(r) == Setup(r) \/ Remove(r)

ProxyNext ==
  \/ \E r \in Runs :
       \/ \E v \in {"setup", "remove"} : Begin(r, v)
       \/ Step(r) \/ Fault(r) \/ Killed(r)
  \/ SocatListens \/ SocatDies \/ SocatRetries \/ DockerMakesDir \/ Reboot

ProxySpec == ProxyInit /\ [][ProxyNext]_proxyVars

-----------------------------------------------------------------------------
(* Properties *)

EndsAs(r, v, how) == verb[r] = v /\ at[r] \notin Ended /\ at'[r] = how

\* "SSH Proxy enabled at ...": setup that nothing interferes with succeeds only
\* when the service runs, enabled for the next login, and what it saw at the
\* path is not a leftover that makes socat fail - also where it could not remove
\* such a leftover and went on.
SetupOkMeansRunning ==
  [][\A r \in Runs :
       EndsAs(r, "setup", "ok") /\ alone[r] =>
         unit /\ enabled /\ service \in {"starting", "up"} /\ path # "dir"]_proxyVars

\* "Restart / fix proxy": whatever earlier processes, killed, failing or at
\* odds with each other, left behind - also a service that runs without a unit
\* file, because the disable of a remove failed in silence - setup alone does
\* not fail, though it may run out of time.
SetupRepairs ==
  \A r \in Runs :
    verb[r] = "setup" /\ alone[r] /\ r \notin failed =>
      at[r] \notin {"error", "not active"}

\* "SSH Proxy service and socket removed": the unit file and the socket are, in
\* every remove that nobody interferes with, whichever of its commands failed in
\* silence.  The service is off and disabled as well, unless a command of some
\* remove has failed or some process was interfered with: after such a mishap a
\* unit that is not enabled, or has no file, is not stopped.
RemoveOkMeansGone ==
  [][\A r \in Runs :
       EndsAs(r, "remove", "ok") /\ alone[r] =>
         /\ ~unit /\ path = "none"
         /\ \/ service = "off" /\ ~enabled
            \/ \E s \in Runs : ~alone[s] \/ (s \in failed /\ verb[s] = "remove")]_proxyVars
=============================================================================
