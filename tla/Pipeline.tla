------------------------------ MODULE Pipeline ------------------------------
(***************************************************************************)
(* What core/orchestrator.py promises of a run, without its queues: the    *)
(* hooks of the bus are called in (phase, priority, registration) order,   *)
(* each at most once, and the commands of a hook run as one block between  *)
(* its call and the next one.                                              *)
(***************************************************************************)
EXTENDS Naturals, Sequences

VARIABLES
  bus,      (* the subscribed hooks, in registration order *)
  current,  (* the hook called last, 0 before the first    *)
  ran,      (* for each command started, the hook it is of *)
  outcome   (* how the run ended                           *)

vars == <<bus, current, ran, outcome>>

Before(g, h) ==
  \/ bus[g].phase < bus[h].phase
  \/ /\ bus[g].phase = bus[h].phase
     /\ \/ bus[g].priority < bus[h].priority
        \/ bus[g].priority = bus[h].priority /\ g < h

Init ==
  /\ current = 0
  /\ ran = <<>>
  /\ outcome = "running"

Call(h) ==
  /\ outcome = "running"
  /\ current = 0 \/ Before(current, h)
  /\ current' = h
  /\ UNCHANGED <<bus, ran, outcome>>

Run ==
  /\ outcome = "running" /\ current # 0
  /\ ran' = Append(ran, current)
  /\ UNCHANGED <<bus, current, outcome>>

Stop ==
  /\ outcome = "running"
  /\ outcome' \in {"ok", "raised", "failed", "interrupted"}
  /\ UNCHANGED <<bus, current, ran>>

Next == (\E h \in DOMAIN bus : Call(h)) \/ Run \/ Stop

Spec == Init /\ [][Next]_vars
=============================================================================
