-------------------------------- MODULE Batch --------------------------------
(***************************************************************************)
(* What sync_config_cmd promises (verbs/sync.py, "so one broken project    *)
(* does not abort the batch"): a run takes up a set of projects, each of   *)
(* them gets one verdict, and it ends with 0 only after all of them have   *)
(* theirs and none has failed.                                             *)
(***************************************************************************)
CONSTANTS Runs, Items
VARIABLES pending, verdict, result

vars == <<pending, verdict, result>>

Init ==
  /\ pending = [r \in Runs |-> {}]
  /\ verdict = [r \in Runs |-> [p \in Items |-> "none"]]
  /\ result = [r \in Runs |-> "none"]

Becomes(r, from, to) == result[r] = from /\ result' = [result EXCEPT ![r] = to]

Start(r) ==
  /\ Becomes(r, "none", "running")
  /\ \E batch \in SUBSET Items : pending' = [pending EXCEPT ![r] = batch]
  /\ UNCHANGED verdict

Handle(r) ==
  /\ result[r] = "running"
  /\ \E p \in pending[r], v \in {"done", "failed"} :
       /\ pending' = [pending EXCEPT ![r] = @ \ {p}]
       /\ verdict' = [verdict EXCEPT ![r][p] = v]
  /\ UNCHANGED result

Finish(r) ==
  /\ pending[r] = {}
  /\ Becomes(r, "running", IF \E p \in Items : verdict[r][p] = "failed" THEN "failed" ELSE "ok")
  /\ UNCHANGED <<pending, verdict>>

\* docker does not answer before the batch is known, or there is none to do.
NoBatch(r) ==
  /\ \E how \in {"error", "ok"} : Becomes(r, "none", how)
  /\ UNCHANGED <<pending, verdict>>

Interrupt(r) ==
  /\ Becomes(r, "running", "interrupted")
  /\ UNCHANGED <<pending, verdict>>

Next == \E r \in Runs : Start(r) \/ Handle(r) \/ Finish(r) \/ NoBatch(r) \/ Interrupt(r)

Spec == Init /\ [][Next]_vars
=============================================================================
