------------------------------- MODULE Kernel -------------------------------
(***************************************************************************)
(* The microkernel every kernelized verb runs on: the phase loop of        *)
(* core/orchestrator.py, the priority bus of core/eventbus.py and the      *)
(* action runner of effects/executor.py.                                   *)
(*                                                                         *)
(* A verb subscribes its builtin hooks on a fresh bus, splices the plugin  *)
(* hooks in as isolated ones, and runs its phase tuple.  A hook enqueues   *)
(* actions on the context; the kernel hands the queue to the executor      *)
(* after every hook, the executor runs the actions one by one, records     *)
(* each in its history and in actions.jsonl, and raises on a checked       *)
(* failure.  What a hook computes is abstracted to how many actions it     *)
(* enqueues and how it ends; what a command does, to its exit status.      *)
(*                                                                         *)
(* An interrupt (KeyboardInterrupt, SystemExit) may arrive at any point.   *)
(* MaxActions bounds the actions one run enqueues.                         *)
(***************************************************************************)
EXTENDS Naturals, Sequences, FiniteSets

CONSTANTS
  NPhases,      (* length of the verb's phase tuple                          *)
  Builtins,     (* what register_builtin_*_hooks subscribes, in order        *)
  PluginBuses,  (* the default buses the plugin tree may have filled         *)
  MaxActions    (* BOUND: actions enqueued in one run                         *)

Phases == 1..NPhases

Hook == [phase : Phases, priority : Nat,
         isolated : BOOLEAN, skip_in_dry_run : BOOLEAN]

ASSUME KernelAssumption ==
  /\ NPhases \in Nat \ {0}
  /\ Builtins \in Seq(Hook)
  /\ PluginBuses \subseteq Seq(Hook)
  /\ MaxActions \in Nat

VARIABLES
  bus,        (* the per-run bus: a hook's position is its _seq              *)
  dry_run,    (* ctx.dry_run and Executor.dry_run, set from the same flag    *)
  executor,   (* is an executor attached to the orchestrator?                *)
  pc,         (* where the run is                                            *)
  phase,      (* the phase being published; NPhases + 1 after the last       *)
  visited,    (* hooks the loop has passed (called or skipped)               *)
  hook,       (* the hook called last, 0 before the first call               *)
  queue,      (* ctx.actions                                                 *)
  baseline,   (* Len(ctx.actions) when the hook was called                   *)
  pending,    (* the drained list the executor is working through            *)
  history,    (* Executor.history                                            *)
  log,        (* the records of actions.jsonl                                *)
  log_broken, (* Executor._actions_broken                                    *)
  outcome,    (* how run() ended                                             *)
  enqueued,   (* history variable: every action ever appended to ctx.actions *)
  discarded,  (* history variable: actions dropped by isolation              *)
  effects     (* history variable: actions whose execute() was entered       *)

busVars   == <<bus, dry_run, executor>>
loopVars  == <<phase, visited, hook>>
auditVars == <<history, log, log_broken>>
ghostVars == <<enqueued, discarded, effects>>
vars == <<busVars, pc, loopVars, queue, baseline, pending, auditVars, outcome,
          ghostVars>>

-----------------------------------------------------------------------------
(* EventBus *)

\* merge_into(isolate=True): plugin hooks are re-subscribed as isolated.
MergeInto(plugin) ==
  [i \in DOMAIN plugin |-> [plugin[i] EXCEPT !.isolated = TRUE]]

HooksFor(p) == {h \in DOMAIN bus : bus[h].phase = p}

\* The sort key (priority, _seq) of hooks_for.
Precedes(g, h) ==
  \/ bus[g].priority < bus[h].priority
  \/ bus[g].priority = bus[h].priority /\ g < h

\* The order in which a whole run meets its hooks.
Earlier(g, h) ==
  \/ bus[g].phase < bus[h].phase
  \/ bus[g].phase = bus[h].phase /\ Precedes(g, h)

\* Mutant: the order of subscription instead of the sorted copy.
IsNext_Unsorted(h) ==
  h \in HooksFor(phase) \ visited /\ \A g \in HooksFor(phase) \ visited : h <= g

IsNext(h) ==
  /\ h \in HooksFor(phase) \ visited
  /\ \A g \in HooksFor(phase) \ visited : g = h \/ Precedes(h, g)

-----------------------------------------------------------------------------
Action == [hook : Nat, n : Nat, check : BOOLEAN]

Init ==
  /\ \E plugin \in PluginBuses : bus = Builtins \o MergeInto(plugin)
  /\ dry_run \in BOOLEAN
  /\ executor \in BOOLEAN
  /\ pc = "dispatch"
  /\ phase = 1
  /\ visited = {}
  /\ hook = 0
  /\ queue = <<>>
  /\ baseline = 0
  /\ pending = <<>>
  /\ history = <<>>
  /\ log = <<>>
  /\ log_broken = FALSE
  /\ outcome = "running"
  /\ enqueued = {}
  /\ discarded = {}
  /\ effects = <<>>

\* ctx.drain_actions() followed by executor.drain(); without an executor the
\* actions stay on the context.
DrainActions(q) ==
  IF executor /\ q # <<>>
  THEN pending' = q /\ queue' = <<>> /\ pc' = "drain"
  ELSE pending' = <<>> /\ queue' = q /\ pc' = "dispatch"

-----------------------------------------------------------------------------
(* Orchestrator.run *)

SkipHook(h) ==
  /\ pc = "dispatch" /\ IsNext(h)
  /\ dry_run /\ bus[h].skip_in_dry_run
  /\ visited' = visited \cup {h}
  /\ UNCHANGED <<busVars, pc, phase, hook, queue, baseline, pending, auditVars,
                 outcome, ghostVars>>

CallHook(h) ==
  /\ pc = "dispatch" /\ IsNext(h)
  /\ ~(dry_run /\ bus[h].skip_in_dry_run)
  /\ visited' = visited \cup {h}
  /\ hook' = h
  /\ baseline' = Len(queue)
  /\ pc' = "hook"
  /\ UNCHANGED <<busVars, phase, queue, pending, auditVars, outcome, ghostVars>>

\* The hook body appends one more action to ctx.actions.
HookAppends(check) ==
  LET a == [hook |-> hook, n |-> Len(queue) + 1 - baseline, check |-> check] IN
  /\ pc = "hook" /\ Cardinality(enqueued) < MaxActions
  /\ queue' = Append(queue, a)
  /\ enqueued' = enqueued \cup {a}
  /\ UNCHANGED <<busVars, pc, loopVars, baseline, pending, auditVars, outcome,
                 discarded, effects>>

\* Mutant: one drain per phase, not one per hook.
HookReturns_NoDrain ==
  /\ pc = "hook"
  /\ pc' = "dispatch"
  /\ UNCHANGED <<busVars, loopVars, queue, baseline, pending, auditVars, outcome,
                 ghostVars>>

HookReturns ==
  /\ pc = "hook"
  /\ DrainActions(queue)
  /\ UNCHANGED <<busVars, loopVars, baseline, auditVars, outcome, ghostVars>>

\* Mutant: no snapshot of the queue, what the hook appended is drained.
IsolatedHookRaises_KeepsQueue ==
  /\ pc = "hook" /\ bus[hook].isolated
  /\ discarded' = discarded \cup
                    {queue[i] : i \in {j \in DOMAIN queue : j > baseline}}
  /\ DrainActions(queue)
  /\ UNCHANGED <<busVars, loopVars, baseline, auditVars, outcome, enqueued,
                 effects>>

\* Mutant: the except clause sits outside the loop over the hooks.
IsolatedHookRaises_EndsPhase ==
  /\ pc = "hook" /\ bus[hook].isolated
  /\ discarded' = discarded \cup
                    {queue[i] : i \in {j \in DOMAIN queue : j > baseline}}
  /\ phase' = phase + 1
  /\ DrainActions(SubSeq(queue, 1, baseline))
  /\ UNCHANGED <<busVars, visited, hook, baseline, auditVars, outcome, enqueued,
                 effects>>

\* Mutant: the hook is retried.
IsolatedHookRaises_Retries ==
  /\ pc = "hook" /\ bus[hook].isolated
  /\ visited' = visited \ {hook}
  /\ discarded' = discarded \cup
                    {queue[i] : i \in {j \in DOMAIN queue : j > baseline}}
  /\ DrainActions(SubSeq(queue, 1, baseline))
  /\ UNCHANGED <<busVars, phase, hook, baseline, auditVars, outcome, enqueued,
                 effects>>

\* An isolated hook raised: drop what it appended, report, carry on.
IsolatedHookRaises ==
  /\ pc = "hook" /\ bus[hook].isolated
  /\ discarded' = discarded \cup
                    {queue[i] : i \in {j \in DOMAIN queue : j > baseline}}
  /\ DrainActions(SubSeq(queue, 1, baseline))
  /\ UNCHANGED <<busVars, loopVars, baseline, auditVars, outcome, enqueued,
                 effects>>

BuiltinHookRaises ==
  /\ pc = "hook" /\ ~bus[hook].isolated
  /\ outcome' = "raised"
  /\ pc' = "exit"
  /\ UNCHANGED <<busVars, loopVars, queue, baseline, pending, auditVars,
                 ghostVars>>

\* Mutant: the phase index runs past the tuple.
EndPhase_Unbounded ==
  /\ pc = "dispatch" /\ HooksFor(phase) \subseteq visited
  /\ phase' = phase + 1
  /\ DrainActions(queue)
  /\ UNCHANGED <<busVars, visited, hook, baseline, auditVars, outcome,
                 ghostVars>>

\* No hook of the phase is left: the final drain, then the next phase.
EndPhase ==
  /\ pc = "dispatch" /\ phase \in Phases /\ HooksFor(phase) \subseteq visited
  /\ phase' = phase + 1
  /\ DrainActions(queue)
  /\ UNCHANGED <<busVars, visited, hook, baseline, auditVars, outcome,
                 ghostVars>>

EndRun ==
  /\ pc = "dispatch" /\ phase = NPhases + 1
  /\ outcome' = "ok"
  /\ pc' = "exit"
  /\ UNCHANGED <<busVars, loopVars, queue, baseline, pending, auditVars,
                 ghostVars>>

-----------------------------------------------------------------------------
(* Executor *)

\* Mutant: a broken log is tried again for the next record.
Record_Reopens(a, exit) ==
  LET r == [action |-> a, exit |-> exit] IN
  /\ history' = Append(history, r)
  /\ \/ log' = Append(log, r) /\ UNCHANGED log_broken
     \/ UNCHANGED log /\ log_broken' = TRUE

\* history.append and _append_actions_log: a failing open, write or flush
\* breaks the log for the rest of the run; the record itself may or may not
\* have reached the file.
Record(a, exit) ==
  LET r == [action |-> a, exit |-> exit] IN
  /\ history' = Append(history, r)
  /\ IF log_broken THEN UNCHANGED <<log, log_broken>>
     ELSE \/ log' = Append(log, r) /\ UNCHANGED log_broken
          \/ log' \in {log, Append(log, r)} /\ log_broken' = TRUE

\* dry_run short-circuits execute().
PreviewAction ==
  /\ pc = "drain" /\ pending # <<>> /\ dry_run
  /\ Record(Head(pending), 0)
  /\ pending' = Tail(pending)
  /\ UNCHANGED <<busVars, pc, loopVars, queue, baseline, outcome, ghostVars>>

StartAction ==
  /\ pc = "drain" /\ pending # <<>> /\ ~dry_run
  /\ effects' = Append(effects, Head(pending))
  /\ pc' = "action"
  /\ UNCHANGED <<busVars, loopVars, queue, baseline, pending, auditVars, outcome,
                 enqueued, discarded>>

\* Mutant: a checked failure raises before it is recorded.
FinishAction_Unrecorded(exit) ==
  LET a == Head(pending) IN
  /\ pc = "action"
  /\ IF a.check /\ exit # 0
     THEN outcome' = "failed" /\ pc' = "exit" /\ UNCHANGED <<pending, auditVars>>
     ELSE Record(a, exit) /\ pending' = Tail(pending) /\ pc' = "drain" /\ UNCHANGED outcome
  /\ UNCHANGED <<busVars, loopVars, queue, baseline, ghostVars>>

\* Mutant: drain collects the results and goes on.
FinishAction_KeepsGoing(exit) ==
  /\ pc = "action"
  /\ Record(Head(pending), exit)
  /\ pending' = Tail(pending)
  /\ pc' = "drain"
  /\ UNCHANGED <<busVars, loopVars, queue, baseline, outcome, ghostVars>>

\* execute() came back; OSError and every other Exception became an exit code.
FinishAction(exit) ==
  LET a == Head(pending) IN
  /\ pc = "action"
  /\ Record(a, exit)
  /\ IF a.check /\ exit # 0
     THEN outcome' = "failed" /\ pc' = "exit" /\ UNCHANGED pending
     ELSE pending' = Tail(pending) /\ pc' = "drain" /\ UNCHANGED outcome
  /\ UNCHANGED <<busVars, loopVars, queue, baseline, ghostVars>>

DrainDone ==
  /\ pc = "drain" /\ pending = <<>>
  /\ pc' = "dispatch"
  /\ UNCHANGED <<busVars, loopVars, queue, baseline, pending, auditVars, outcome,
                 ghostVars>>

\* A BaseException that is not an Exception: nothing in the loop catches it.
Interrupt ==
  /\ pc \in {"dispatch", "hook", "drain", "action"}
  /\ outcome' = "interrupted"
  /\ pc' = "exit"
  /\ UNCHANGED <<busVars, loopVars, queue, baseline, pending, auditVars,
                 ghostVars>>

\* The same inside Executor.run, once the command is in the history: its line
\* may or may not have been written.
InterruptWhileRecording(exit) ==
  LET r == [action |-> Head(pending), exit |-> exit] IN
  /\ \/ pc = "action"
     \/ pc = "drain" /\ pending # <<>> /\ dry_run /\ exit = 0
  /\ history' = Append(history, r)
  /\ log' \in IF log_broken THEN {log} ELSE {log, Append(log, r)}
  /\ outcome' = "interrupted"
  /\ pc' = "exit"
  /\ UNCHANGED <<busVars, loopVars, queue, baseline, pending, log_broken, ghostVars>>

\* Orchestrator.__exit__ closes the executor on every path out of run().
CloseExecutor ==
  /\ pc = "exit"
  /\ pc' = "closed"
  /\ UNCHANGED <<busVars, loopVars, queue, baseline, pending, auditVars, outcome,
                 ghostVars>>

-----------------------------------------------------------------------------
Step ==
  \/ \E h \in DOMAIN bus : SkipHook(h) \/ CallHook(h)
  \/ \E check \in BOOLEAN : HookAppends(check)
  \/ HookReturns
  \/ IsolatedHookRaises
  \/ BuiltinHookRaises
  \/ EndPhase
  \/ EndRun
  \/ PreviewAction
  \/ StartAction
  \/ \E exit \in {0, 1} : FinishAction(exit)
  \/ DrainDone
  \/ CloseExecutor

Next == Step \/ Interrupt \/ \E exit \in {0, 1} : InterruptWhileRecording(exit)

Spec == Init /\ [][Next]_vars

\* Hooks and commands return, so the process itself keeps going; nothing
\* makes a user interrupt it.
FairSpec == Spec /\ WF_vars(Step)

-----------------------------------------------------------------------------
(* Properties *)

Entry == [action : Action, exit : {0, 1}]

\* Type invariant of the kernel's state (types only).
TypeOK ==
  /\ bus \in Seq(Hook)
  /\ dry_run \in BOOLEAN /\ executor \in BOOLEAN
  /\ pc \in {"dispatch", "hook", "drain", "action", "exit", "closed"}
  /\ phase \in 1..(NPhases + 1)
  /\ visited \subseteq DOMAIN bus
  /\ hook \in Nat
  /\ queue \in Seq(Action)
  /\ baseline \in Nat
  /\ pending \in Seq(Action)
  /\ history \in Seq(Entry)
  /\ log \in Seq(Entry)
  /\ log_broken \in BOOLEAN
  /\ outcome \in {"running", "ok", "raised", "failed", "interrupted"}
  /\ enqueued \subseteq Action
  /\ discarded \subseteq Action
  /\ effects \in Seq(Action)

ActionsOf(entries) == {entries[i].action : i \in DOMAIN entries}

\* Orchestrator docstring: a later hook must observe the state produced by
\* the actions of earlier hooks.  While a hook runs under an executor, every
\* action an earlier hook left behind has been executed already.
LaterHookSeesEarlierActions ==
  pc = "hook" /\ executor =>
    \A a \in enqueued \ discarded : a.hook # hook => a \in ActionsOf(history)

\* The actions of an isolated hook that raised never take effect and are
\* never left for a later drain.
DiscardedNeverRuns ==
  /\ discarded \cap ({effects[i] : i \in DOMAIN effects} \cup ActionsOf(history)) = {}
  /\ discarded \cap {queue[i] : i \in DOMAIN queue} = {}
  /\ discarded \cap {pending[i] : i \in DOMAIN pending} = {}

\* A checked failure is the last thing an executor ever does: nothing that
\* was queued behind it runs.
CheckedFailureIsLast ==
  \A i \in DOMAIN history :
    history[i].action.check /\ history[i].exit # 0 =>
      i = Len(history) /\ outcome \in {"failed", "interrupted"}

\* actions.jsonl never has a gap: it is the history up to the point where
\* the log broke, all of it when it did not and no interrupt came between
\* the two appends.
LogIsPrefixOfHistory ==
  /\ Len(log) <= Len(history)
  /\ \A i \in DOMAIN log : log[i] = history[i]
  /\ ~log_broken /\ outcome # "interrupted" => Len(log) = Len(history)

\* The audit trail has every command that ran, in order, but for the last one
\* while it runs or when an interrupt came before its record: Ctrl-C never
\* costs more than that one, and nothing else costs any.
NoUnauditedEffect ==
  ~dry_run =>
    /\ \A i \in DOMAIN history : i \in DOMAIN effects /\ effects[i] = history[i].action
    /\ \/ Len(effects) = Len(history)
       \/ /\ Len(effects) = Len(history) + 1
          /\ pc = "action" \/ outcome = "interrupted"

\* A run that ends well has met every subscribed hook and executed every
\* action that was not discarded.
OkMeansComplete ==
  outcome = "ok" =>
    /\ visited = DOMAIN bus
    /\ executor => enqueued \ discarded = ActionsOf(history)

\* Every run ends with its executor closed: neither a raising plugin hook nor
\* a hook that enqueues nothing can leave the phase loop spinning.
RunTerminates == <>(pc = "closed")

\* The phase loop as a caller sees it: hooks in dispatch order, and the
\* commands of a hook as one block right behind it.
Promise == INSTANCE Pipeline
             WITH current <- hook, ran <- [i \in DOMAIN effects |-> effects[i].hook]

\* The batching through ctx.actions, the isolation rollback and the
\* executor's list are invisible: the run implements the pipeline.
ImplementsPipeline == Promise!Spec
=============================================================================
