---------------------------- MODULE KernelProofs ----------------------------
(***************************************************************************)
(* Proofs about the kernel, for every phase tuple, every set of builtin    *)
(* hooks and every plugin bus: the types, the audit trail, what becomes of *)
(* the actions of a hook, and the refinement of Pipeline.                  *)
(***************************************************************************)
EXTENDS Kernel, TLAPS

Elems(s) == {s[i] : i \in DOMAIN s}

Live == {"dispatch", "hook", "drain", "action"}

\* Control: where the run is decides which of its lists can be filled.
Control ==
  /\ outcome = "running" <=> pc \in Live
  /\ pc \in {"drain", "action"} => executor /\ queue = <<>>
  /\ pc = "action" => ~dry_run /\ pending # <<>>
  /\ pc \in {"dispatch", "hook"} => pending = <<>>
  /\ executor /\ pc = "dispatch" => queue = <<>>
  /\ pc = "hook" => baseline <= Len(queue) /\ (executor => baseline = 0)
  /\ pc \in {"hook", "drain", "action"} => hook \in visited

\* Audit: what history and actions.jsonl say of what was started.
NothingFailedYet ==
  outcome = "running" =>
    \A i \in DOMAIN history : history[i].action.check => history[i].exit = 0

Done == [i \in DOMAIN history |-> history[i].action]

EffectsMatch ==
  ~dry_run =>
    /\ outcome = "running" /\ pc = "action" => effects = Append(Done, Head(pending))
    /\ outcome # "interrupted" /\ pc # "action" => effects = Done
    /\ outcome = "interrupted" => \/ effects = Done
                                  \/ \E a \in Action : effects = Append(Done, a)

Audit == NothingFailedYet /\ CheckedFailureIsLast /\ LogIsPrefixOfHistory /\ EffectsMatch

AuditInv == TypeOK /\ Control /\ Audit

-----------------------------------------------------------------------------
(* Sequences as the kernel uses them. *)

\* What Append, Tail and Head do to the elements of a list.
LEMMA ElemsAppend ==
  ASSUME NEW S, NEW s \in Seq(S), NEW e \in S
  PROVE  Elems(Append(s, e)) = Elems(s) \cup {e}
  <1>1. /\ DOMAIN Append(s, e) = 1..(Len(s) + 1) /\ DOMAIN s = 1..Len(s)
        /\ Len(s) \in Nat
        /\ \A i \in 1..Len(s) : Append(s, e)[i] = s[i]
        /\ Append(s, e)[Len(s) + 1] = e
    OBVIOUS
  <1>2. 1..(Len(s) + 1) = 1..Len(s) \cup {Len(s) + 1}
    BY <1>1
  <1> QED BY <1>1, <1>2 DEF Elems

\* Taking the first action off a list loses no other.
LEMMA ElemsTail ==
  ASSUME NEW S, NEW s \in Seq(S), s # <<>>
  PROVE  /\ Tail(s) \in Seq(S) /\ Head(s) \in S
         /\ Elems(s) = {Head(s)} \cup Elems(Tail(s))
  <1>1. /\ Len(s) \in Nat \ {0} /\ DOMAIN s = 1..Len(s)
        /\ Tail(s) \in Seq(S) /\ Head(s) \in S /\ Head(s) = s[1]
        /\ DOMAIN Tail(s) = 1..(Len(s) - 1)
        /\ \A i \in 1..(Len(s) - 1) : Tail(s)[i] = s[i + 1]
    OBVIOUS
  <1>2. \A i \in 1..Len(s) : i = 1 \/ i - 1 \in 1..(Len(s) - 1)
    BY <1>1
  <1>3. \A i \in 1..(Len(s) - 1) : i + 1 \in 1..Len(s)
    BY <1>1
  <1>4. \A i \in 1..Len(s) : i = 1 \/ s[i] = Tail(s)[i - 1]
    BY <1>1, <1>2
  <1>5. \A i \in 1..Len(s) : s[i] \in {Head(s)} \cup Elems(Tail(s))
    <2> TAKE i \in 1..Len(s)
    <2>1. CASE i = 1
      BY <2>1, <1>1
    <2>2. CASE i # 1
      BY <2>2, <1>1, <1>2, <1>4 DEF Elems
    <2> QED BY <2>1, <2>2
  <1>6. {Head(s)} \cup Elems(Tail(s)) \subseteq Elems(s)
    BY <1>1, <1>3 DEF Elems
  <1> QED BY <1>1, <1>5, <1>6 DEF Elems

\* The rollback keeps exactly what stood in front of the baseline.
LEMMA ElemsPrefix ==
  ASSUME NEW S, NEW s \in Seq(S), NEW n \in Nat, n <= Len(s)
  PROVE  /\ SubSeq(s, 1, n) \in Seq(S) /\ Len(SubSeq(s, 1, n)) = n
         /\ Elems(SubSeq(s, 1, n)) = {s[i] : i \in 1..n}
         /\ Elems(s) = Elems(SubSeq(s, 1, n)) \cup {s[i] : i \in {j \in DOMAIN s : j > n}}
  <1>1. /\ Len(s) \in Nat /\ DOMAIN s = 1..Len(s)
        /\ SubSeq(s, 1, n) \in Seq(S) /\ Len(SubSeq(s, 1, n)) = n
        /\ DOMAIN SubSeq(s, 1, n) = 1..n
        /\ \A i \in 1..n : SubSeq(s, 1, n)[i] = s[i]
    OBVIOUS
  <1>2. 1..Len(s) = 1..n \cup {j \in 1..Len(s) : j > n}
    BY <1>1
  <1>3. Elems(SubSeq(s, 1, n)) = {s[i] : i \in 1..n}
    BY <1>1 DEF Elems
  <1> QED BY <1>1, <1>2, <1>3 DEF Elems

\* One more record is one more recorded action.
LEMMA ActionsOfAppend ==
  ASSUME NEW s \in Seq(Entry), NEW r \in Entry
  PROVE  ActionsOf(Append(s, r)) = ActionsOf(s) \cup {r.action}
  <1>1. /\ DOMAIN Append(s, r) = 1..(Len(s) + 1) /\ DOMAIN s = 1..Len(s)
        /\ Len(s) \in Nat
        /\ \A i \in 1..Len(s) : Append(s, r)[i] = s[i]
        /\ Append(s, r)[Len(s) + 1] = r
    OBVIOUS
  <1>2. 1..(Len(s) + 1) = 1..Len(s) \cup {Len(s) + 1}
    BY <1>1
  <1> QED BY <1>1, <1>2 DEF ActionsOf

\* A sequence of entries seen as the sequence of their actions.
LEMMA ProjectAppend ==
  ASSUME NEW s \in Seq(Entry), NEW r \in Entry
  PROVE  [i \in DOMAIN Append(s, r) |-> Append(s, r)[i].action] =
           Append([i \in DOMAIN s |-> s[i].action], r.action)
  <1> DEFINE p == [i \in DOMAIN s |-> s[i].action]
             q == [i \in DOMAIN Append(s, r) |-> Append(s, r)[i].action]
  <1>1. /\ DOMAIN Append(s, r) = 1..(Len(s) + 1) /\ DOMAIN s = 1..Len(s)
        /\ Len(s) \in Nat
        /\ \A i \in 1..Len(s) : Append(s, r)[i] = s[i]
        /\ Append(s, r)[Len(s) + 1] = r
        /\ \A i \in 1..Len(s) : s[i] \in Entry
    OBVIOUS
  <1>2. p \in Seq(Action) /\ Len(p) = Len(s)
    BY <1>1 DEF Entry
  <1>3. r.action \in Action
    BY DEF Entry
  <1>4. /\ DOMAIN Append(p, r.action) = 1..(Len(s) + 1)
        /\ \A i \in 1..Len(s) : Append(p, r.action)[i] = p[i]
        /\ Append(p, r.action)[Len(s) + 1] = r.action
    BY <1>1, <1>2, <1>3
  <1>5. \A i \in 1..(Len(s) + 1) : q[i] = Append(p, r.action)[i]
    BY <1>1, <1>4
  <1>6. q \in Seq(Action) /\ Append(p, r.action) \in Seq(Action) /\ Len(q) = Len(Append(p, r.action))
    BY <1>1, <1>2, <1>3 DEF Entry
  <1> QED BY <1>1, <1>4, <1>5, <1>6

-----------------------------------------------------------------------------
(* Types. *)

\* A plugin bus is still a list of hooks once it is isolated.
LEMMA MergeIntoType ==
  ASSUME NEW plugin \in Seq(Hook)
  PROVE  MergeInto(plugin) \in Seq(Hook)
  <1>1. ASSUME NEW k \in Hook PROVE [k EXCEPT !.isolated = TRUE] \in Hook
    BY DEF Hook
  <1>2. \A i \in DOMAIN plugin : [plugin[i] EXCEPT !.isolated = TRUE] \in Hook
    BY <1>1
  <1> QED BY <1>2 DEF MergeInto

\* The types hold of a fresh run.
LEMMA TypeInit == Init => TypeOK
  <1> SUFFICES ASSUME Init PROVE TypeOK
    OBVIOUS
  <1>1. bus \in Seq(Hook)
    BY KernelAssumption, MergeIntoType DEF Init
  <1>2. phase \in 1..(NPhases + 1) /\ hook \in Nat /\ baseline \in Nat
    BY KernelAssumption DEF Init
  <1>3. /\ queue \in Seq(Action) /\ pending \in Seq(Action) /\ effects \in Seq(Action)
        /\ history \in Seq(Entry) /\ log \in Seq(Entry)
    BY DEF Init
  <1> QED BY <1>1, <1>2, <1>3 DEF Init, TypeOK

\* Handing the queue over keeps the lists well typed.
LEMMA DrainTypes ==
  ASSUME NEW q \in Seq(Action), DrainActions(q)
  PROVE  /\ pending' \in Seq(Action) /\ queue' \in Seq(Action)
         /\ pc' \in {"drain", "dispatch"}
  <1>1. CASE executor /\ q # <<>>
    BY <1>1 DEF DrainActions
  <1>2. CASE ~(executor /\ q # <<>>)
    <2>1. pending' = <<>> /\ queue' = q /\ pc' = "dispatch"
      BY <1>2 DEF DrainActions
    <2> QED BY <2>1
  <1> QED BY <1>1, <1>2

\* A list of records grows by a record.
LEMMA AppendEntry ==
  ASSUME NEW s \in Seq(Entry), NEW r \in Entry
  PROVE  Append(s, r) \in Seq(Entry)
  OBVIOUS

\* Recording keeps history and log lists of records.
LEMMA RecordTypes ==
  ASSUME TypeOK, NEW a \in Action, NEW exit \in {0, 1}, Record(a, exit)
  PROVE  history' \in Seq(Entry) /\ log' \in Seq(Entry) /\ log_broken' \in BOOLEAN
  <1>1. [action |-> a, exit |-> exit] \in Entry
    BY DEF Entry
  <1>2. Append(history, [action |-> a, exit |-> exit]) \in Seq(Entry)
        /\ Append(log, [action |-> a, exit |-> exit]) \in Seq(Entry)
    BY <1>1, AppendEntry DEF TypeOK
  <1>3. /\ history' = Append(history, [action |-> a, exit |-> exit])
        /\ log' = log \/ log' = Append(log, [action |-> a, exit |-> exit])
        /\ log_broken' = log_broken \/ log_broken' = TRUE
    BY DEF Record
  <1> QED BY <1>2, <1>3 DEF TypeOK

\* Every step keeps the types; Control says the lists it takes from are not empty.
LEMMA TypeStep == TypeOK /\ Control /\ [Next]_vars => TypeOK'
  <1> SUFFICES ASSUME TypeOK, Control, [Next]_vars
               PROVE  TypeOK'
    OBVIOUS
  <1> USE DEF busVars, loopVars, auditVars, ghostVars
  <1>1. ASSUME NEW h \in DOMAIN bus, SkipHook(h) PROVE TypeOK'
    BY <1>1 DEF SkipHook, TypeOK
  <1>2. ASSUME NEW h \in DOMAIN bus, CallHook(h) PROVE TypeOK'
    BY <1>2 DEF CallHook, TypeOK
  <1>3. ASSUME NEW check \in BOOLEAN, HookAppends(check) PROVE TypeOK'
    <2>1. Len(queue) \in Nat /\ baseline \in Nat /\ baseline <= Len(queue)
      BY <1>3 DEF HookAppends, TypeOK, Control
    <2>2. [hook |-> hook, n |-> Len(queue) + 1 - baseline, check |-> check] \in Action
      BY <2>1 DEF TypeOK, Action
    <2> QED BY <1>3, <2>2 DEF HookAppends, TypeOK
  <1>4. CASE HookReturns
    BY <1>4, DrainTypes DEF HookReturns, TypeOK
  <1>5. CASE IsolatedHookRaises
    <2>1. SubSeq(queue, 1, baseline) \in Seq(Action)
      BY <1>5, ElemsPrefix DEF IsolatedHookRaises, TypeOK, Control
    <2>2. {queue[i] : i \in {j \in DOMAIN queue : j > baseline}} \subseteq Action
      BY DEF TypeOK
    <2> QED BY <1>5, <2>1, <2>2, DrainTypes DEF IsolatedHookRaises, TypeOK
  <1>6. CASE BuiltinHookRaises
    BY <1>6 DEF BuiltinHookRaises, TypeOK
  <1>7. CASE EndPhase
    <2>1. phase + 1 \in 1..(NPhases + 1)
      BY <1>7, KernelAssumption DEF EndPhase, Phases
    <2> QED BY <1>7, <2>1, DrainTypes DEF EndPhase, TypeOK
  <1>8. CASE EndRun
    BY <1>8 DEF EndRun, TypeOK
  <1>9. CASE PreviewAction
    <2>1. Head(pending) \in Action /\ Tail(pending) \in Seq(Action)
      BY <1>9, ElemsTail DEF PreviewAction, TypeOK
    <2> QED BY <1>9, <2>1, RecordTypes DEF PreviewAction, TypeOK
  <1>10. CASE StartAction
    <2>1. Head(pending) \in Action
      BY <1>10, ElemsTail DEF StartAction, TypeOK
    <2> QED BY <1>10, <2>1 DEF StartAction, TypeOK
  <1>11. ASSUME NEW exit \in {0, 1}, FinishAction(exit) PROVE TypeOK'
    <2>1. Head(pending) \in Action /\ Tail(pending) \in Seq(Action)
      BY <1>11, ElemsTail DEF FinishAction, TypeOK, Control
    <2>2. history' \in Seq(Entry) /\ log' \in Seq(Entry) /\ log_broken' \in BOOLEAN
      BY <1>11, <2>1, RecordTypes DEF FinishAction
    <2> QED BY <1>11, <2>1, <2>2 DEF FinishAction, TypeOK
  <1>12. CASE DrainDone
    BY <1>12 DEF DrainDone, TypeOK
  <1>13. CASE CloseExecutor
    BY <1>13 DEF CloseExecutor, TypeOK
  <1>14. CASE Interrupt
    BY <1>14 DEF Interrupt, TypeOK
  <1>15. ASSUME NEW exit \in {0, 1}, InterruptWhileRecording(exit) PROVE TypeOK'
    <2>1. Head(pending) \in Action
      BY <1>15, ElemsTail DEF InterruptWhileRecording, TypeOK, Control
    <2>2. [action |-> Head(pending), exit |-> exit] \in Entry
      BY <2>1 DEF Entry
    <2>3. /\ history' = Append(history, [action |-> Head(pending), exit |-> exit])
          /\ log' = log \/ log' = Append(log, [action |-> Head(pending), exit |-> exit])
      BY <1>15 DEF InterruptWhileRecording
    <2>4. log' \in Seq(Entry) /\ history' \in Seq(Entry)
      BY <2>2, <2>3, AppendEntry DEF TypeOK
    <2>5. /\ pc' = "exit" /\ outcome' = "interrupted"
          /\ UNCHANGED <<bus, dry_run, executor, phase, visited, hook, queue, baseline,
                         pending, log_broken, enqueued, discarded, effects>>
      BY <1>15 DEF InterruptWhileRecording
    <2> QED BY <2>4, <2>5 DEF TypeOK
  <1>16. CASE UNCHANGED vars
    BY <1>16 DEF vars, TypeOK
  <1> QED
    BY <1>1, <1>2, <1>3, <1>4, <1>5, <1>6, <1>7, <1>8, <1>9, <1>10, <1>11, <1>12,
       <1>13, <1>14, <1>15, <1>16 DEF Next, Step

-----------------------------------------------------------------------------
(* Control. *)

\* A fresh run dispatches, with nothing queued.
LEMMA ControlInit == Init => Control
  BY DEF Init, Control, Live

\* Every step keeps the lists filled where the run is.
LEMMA ControlStep == TypeOK /\ Control /\ [Next]_vars => Control'
  <1> SUFFICES ASSUME TypeOK, Control, [Next]_vars
               PROVE  Control'
    OBVIOUS
  <1> USE DEF busVars, loopVars, auditVars, ghostVars, Live
  <1>1. ASSUME NEW h \in DOMAIN bus, SkipHook(h) PROVE Control'
    BY <1>1 DEF SkipHook, Control
  <1>2. ASSUME NEW h \in DOMAIN bus, CallHook(h) PROVE Control'
    <2>1. Len(queue) \in Nat /\ (executor => Len(queue) = 0)
      BY <1>2 DEF CallHook, TypeOK, Control
    <2> QED BY <1>2, <2>1 DEF CallHook, Control
  <1>3. ASSUME NEW check \in BOOLEAN, HookAppends(check) PROVE Control'
    <2>1. /\ Len(queue) \in Nat /\ baseline \in Nat /\ baseline <= Len(queue)
          /\ Len(queue') = Len(queue) + 1
      BY <1>3 DEF HookAppends, TypeOK, Control
    <2> QED BY <1>3, <2>1 DEF HookAppends, Control
  <1>4. CASE HookReturns
    BY <1>4 DEF HookReturns, DrainActions, Control, TypeOK
  <1>5. CASE IsolatedHookRaises
    BY <1>5 DEF IsolatedHookRaises, DrainActions, Control, TypeOK
  <1>6. CASE BuiltinHookRaises
    BY <1>6 DEF BuiltinHookRaises, Control
  <1>7. CASE EndPhase
    BY <1>7 DEF EndPhase, DrainActions, Control, TypeOK
  <1>8. CASE EndRun
    BY <1>8 DEF EndRun, Control
  <1>9. CASE PreviewAction
    BY <1>9 DEF PreviewAction, Control
  <1>10. CASE StartAction
    BY <1>10 DEF StartAction, Control
  <1>11. ASSUME NEW exit \in {0, 1}, FinishAction(exit) PROVE Control'
    BY <1>11 DEF FinishAction, Control
  <1>12. CASE DrainDone
    BY <1>12 DEF DrainDone, Control
  <1>13. CASE CloseExecutor
    BY <1>13 DEF CloseExecutor, Control
  <1>14. CASE Interrupt
    BY <1>14 DEF Interrupt, Control
  <1>15. ASSUME NEW exit \in {0, 1}, InterruptWhileRecording(exit) PROVE Control'
    BY <1>15 DEF InterruptWhileRecording, Control
  <1>16. CASE UNCHANGED vars
    BY <1>16 DEF vars, Control
  <1> QED
    BY <1>1, <1>2, <1>3, <1>4, <1>5, <1>6, <1>7, <1>8, <1>9, <1>10, <1>11, <1>12,
       <1>13, <1>14, <1>15, <1>16 DEF Next, Step

-----------------------------------------------------------------------------
(* Audit: history, actions.jsonl and what was started. *)

\* Only an action that is recorded touches the audit trail, and it does so
\* while the run is on; every other step may at most end the run.
LEMMA AuditFrame ==
  ASSUME TypeOK, Control, [Next]_vars
  PROVE  \/ UNCHANGED auditVars /\ (outcome' = outcome \/ outcome = "running")
         \/ PreviewAction
         \/ \E exit \in {0, 1} : FinishAction(exit) \/ InterruptWhileRecording(exit)
  <1> USE DEF busVars, loopVars, auditVars, ghostVars
  <1>1. ASSUME NEW h \in DOMAIN bus, SkipHook(h) \/ CallHook(h)
        PROVE  UNCHANGED auditVars /\ outcome' = outcome
    BY <1>1 DEF SkipHook, CallHook
  <1>2. ASSUME NEW check \in BOOLEAN, HookAppends(check)
        PROVE  UNCHANGED auditVars /\ outcome' = outcome
    BY <1>2 DEF HookAppends
  <1>3. CASE HookReturns \/ IsolatedHookRaises \/ EndPhase
    BY <1>3 DEF HookReturns, IsolatedHookRaises, EndPhase
  <1>4. CASE BuiltinHookRaises \/ EndRun \/ Interrupt
    BY <1>4 DEF BuiltinHookRaises, EndRun, Interrupt, Control, Live
  <1>5. CASE StartAction \/ DrainDone \/ CloseExecutor
    BY <1>5 DEF StartAction, DrainDone, CloseExecutor
  <1>6. CASE UNCHANGED vars
    BY <1>6 DEF vars
  <1> QED
    BY <1>1, <1>2, <1>3, <1>4, <1>5, <1>6 DEF Next, Step

\* The steps that record are steps of a live run with an action at hand.
LEMMA Recording ==
  ASSUME TypeOK, Control, NEW exit \in {0, 1},
         PreviewAction \/ FinishAction(exit) \/ InterruptWhileRecording(exit)
  PROVE  /\ outcome = "running" /\ pending # <<>> /\ Head(pending) \in Action
         /\ [action |-> Head(pending), exit |-> exit] \in Entry
  <1>1. pc \in {"drain", "action"} /\ pending # <<>>
    BY DEF PreviewAction, FinishAction, InterruptWhileRecording, Control
  <1>2. Head(pending) \in Action
    BY <1>1, ElemsTail DEF TypeOK
  <1> QED BY <1>1, <1>2 DEF Control, Live, Entry

\* Comparing two lists after one or both grew.
LEMMA PrefixAppend ==
  ASSUME NEW s \in Seq(Entry), NEW t \in Seq(Entry), NEW r \in Entry,
         Len(s) <= Len(t), \A i \in DOMAIN s : s[i] = t[i]
  PROVE  /\ Len(Append(t, r)) = Len(t) + 1
         /\ Len(s) <= Len(Append(t, r)) /\ \A i \in DOMAIN s : s[i] = Append(t, r)[i]
         /\ Len(s) = Len(t) =>
              /\ Len(Append(s, r)) = Len(Append(t, r))
              /\ \A i \in DOMAIN Append(s, r) : Append(s, r)[i] = Append(t, r)[i]
  <1>1. /\ Len(s) \in Nat /\ Len(t) \in Nat
        /\ DOMAIN s = 1..Len(s) /\ DOMAIN t = 1..Len(t)
        /\ Len(Append(t, r)) = Len(t) + 1 /\ Len(Append(s, r)) = Len(s) + 1
        /\ DOMAIN Append(s, r) = 1..(Len(s) + 1)
        /\ \A i \in 1..Len(t) : Append(t, r)[i] = t[i]
        /\ \A i \in 1..Len(s) : Append(s, r)[i] = s[i]
        /\ Append(t, r)[Len(t) + 1] = r /\ Append(s, r)[Len(s) + 1] = r
    OBVIOUS
  <1>2. \A i \in 1..Len(s) : i \in 1..Len(t)
    BY <1>1
  <1>3. \A i \in DOMAIN s : s[i] = Append(t, r)[i]
    BY <1>1, <1>2
  <1>4. ASSUME Len(s) = Len(t), NEW i \in 1..(Len(s) + 1)
        PROVE  Append(s, r)[i] = Append(t, r)[i]
    <2>1. CASE i = Len(s) + 1
      BY <2>1, <1>1, <1>4
    <2>2. CASE i \in 1..Len(s)
      BY <2>2, <1>1, <1>2
    <2> QED BY <1>1, <2>1, <2>2
  <1>5. Len(s) <= Len(Append(t, r))
    BY <1>1
  <1> QED BY <1>1, <1>3, <1>4, <1>5

\* One record keeps the log a prefix of the history.
LEMMA RecordLog ==
  ASSUME TypeOK, LogIsPrefixOfHistory, outcome = "running",
         NEW r \in Entry, history' = Append(history, r),
         \/ log_broken /\ log' = log /\ log_broken'
         \/ log' = Append(log, r) /\ ~log_broken
         \/ log' = log /\ log_broken'
         \/ log' = log /\ outcome' = "interrupted"
  PROVE  LogIsPrefixOfHistory'
  <1>1. history \in Seq(Entry) /\ log \in Seq(Entry)
    BY DEF TypeOK
  <1>2. Len(log) <= Len(history) /\ \A i \in DOMAIN log : log[i] = history[i]
    BY DEF LogIsPrefixOfHistory
  <1>3. ~log_broken => Len(log) = Len(history)
    BY DEF LogIsPrefixOfHistory
  <1>4. CASE log' = log /\ (log_broken' \/ outcome' = "interrupted")
    BY <1>1, <1>2, <1>4, PrefixAppend DEF LogIsPrefixOfHistory
  <1>5. CASE log' = Append(log, r) /\ ~log_broken
    <2>1. /\ Len(Append(log, r)) = Len(Append(history, r))
          /\ \A i \in DOMAIN Append(log, r) : Append(log, r)[i] = Append(history, r)[i]
      BY <1>1, <1>2, <1>3, <1>5, PrefixAppend
    <2>2. Len(history') \in Nat
      BY <1>1, AppendEntry
    <2> QED BY <1>5, <2>1, <2>2 DEF LogIsPrefixOfHistory
  <1> QED BY <1>4, <1>5

\* Nothing is logged at the start.
LEMMA LogInit == Init => LogIsPrefixOfHistory
  BY DEF Init, LogIsPrefixOfHistory

\* Every step keeps the log a prefix of the history.
LEMMA LogStep ==
  TypeOK /\ Control /\ LogIsPrefixOfHistory /\ [Next]_vars => LogIsPrefixOfHistory'
  <1> SUFFICES ASSUME TypeOK, Control, LogIsPrefixOfHistory, [Next]_vars
               PROVE  LogIsPrefixOfHistory'
    OBVIOUS
  <1>1. CASE UNCHANGED auditVars /\ (outcome' = outcome \/ outcome = "running")
    BY <1>1 DEF auditVars, LogIsPrefixOfHistory
  <1>2. ASSUME NEW a \in Action, NEW exit \in {0, 1}, Record(a, exit), outcome = "running"
        PROVE  LogIsPrefixOfHistory'
    <2>1. [action |-> a, exit |-> exit] \in Entry
      BY DEF Entry
    <2>2. CASE log_broken
      BY <1>2, <2>1, <2>2, RecordLog DEF Record
    <2>3. CASE ~log_broken
      BY <1>2, <2>1, <2>3, RecordLog DEF Record
    <2> QED BY <2>2, <2>3
  <1>3. CASE PreviewAction
    BY <1>2, <1>3, Recording DEF PreviewAction
  <1>4. ASSUME NEW exit \in {0, 1}, FinishAction(exit) PROVE LogIsPrefixOfHistory'
    BY <1>2, <1>4, Recording DEF FinishAction
  <1>5. ASSUME NEW exit \in {0, 1}, InterruptWhileRecording(exit)
        PROVE  LogIsPrefixOfHistory'
    <2>1. /\ outcome = "running" /\ [action |-> Head(pending), exit |-> exit] \in Entry
      BY <1>5, Recording
    <2>2. /\ history' = Append(history, [action |-> Head(pending), exit |-> exit])
          /\ outcome' = "interrupted"
          /\ \/ log' = log
             \/ log' = Append(log, [action |-> Head(pending), exit |-> exit]) /\ ~log_broken
      BY <1>5 DEF InterruptWhileRecording
    <2> QED BY <2>1, <2>2, RecordLog
  <1> QED BY <1>1, <1>3, <1>4, <1>5, AuditFrame

\* Nothing has failed at the start.
LEMMA FailureInit == Init => NothingFailedYet /\ CheckedFailureIsLast
  BY DEF Init, NothingFailedYet, CheckedFailureIsLast

\* A live run that records one more action has at most that one failed.
LEMMA RecordFailure ==
  ASSUME TypeOK, NothingFailedYet, outcome = "running",
         NEW r \in Entry, history' = Append(history, r),
         r.action.check /\ r.exit # 0 => outcome' \in {"failed", "interrupted"}
  PROVE  (NothingFailedYet /\ CheckedFailureIsLast)'
  <1>1. /\ DOMAIN history' = 1..(Len(history) + 1) /\ DOMAIN history = 1..Len(history)
        /\ Len(history) \in Nat /\ Len(history') = Len(history) + 1
        /\ \A i \in 1..Len(history) : history'[i] = history[i]
        /\ history'[Len(history) + 1] = r
    BY DEF TypeOK
  <1>2. \A i \in 1..Len(history) : ~(history'[i].action.check /\ history'[i].exit # 0)
    BY <1>1 DEF NothingFailedYet
  <1>3. \A i \in DOMAIN history' :
          history'[i].action.check /\ history'[i].exit # 0 =>
            i = Len(history') /\ outcome' \in {"failed", "interrupted"}
    BY <1>1, <1>2
  <1>4. CheckedFailureIsLast'
    BY <1>3 DEF CheckedFailureIsLast
  <1>5. NothingFailedYet'
    BY <1>3 DEF NothingFailedYet
  <1> QED BY <1>4, <1>5

\* Every step keeps a checked failure last.
LEMMA FailureStep ==
  /\ TypeOK /\ Control /\ NothingFailedYet /\ CheckedFailureIsLast
  /\ [Next]_vars
  => NothingFailedYet' /\ CheckedFailureIsLast'
  <1> SUFFICES ASSUME TypeOK, Control, NothingFailedYet, CheckedFailureIsLast, [Next]_vars
               PROVE  NothingFailedYet' /\ CheckedFailureIsLast'
    OBVIOUS
  <1>1. CASE UNCHANGED auditVars /\ outcome' = outcome
    BY <1>1 DEF auditVars, NothingFailedYet, CheckedFailureIsLast
  <1>2. CASE UNCHANGED auditVars /\ outcome = "running"
    BY <1>2 DEF auditVars, NothingFailedYet, CheckedFailureIsLast
  <1>3. CASE PreviewAction
    <2>1. /\ outcome = "running" /\ [action |-> Head(pending), exit |-> 0] \in Entry
          /\ history' = Append(history, [action |-> Head(pending), exit |-> 0])
      BY <1>3, Recording DEF PreviewAction, Record
    <2> QED BY <2>1, RecordFailure
  <1>4. ASSUME NEW exit \in {0, 1}, FinishAction(exit)
        PROVE  NothingFailedYet' /\ CheckedFailureIsLast'
    <2>1. /\ outcome = "running" /\ [action |-> Head(pending), exit |-> exit] \in Entry
          /\ history' = Append(history, [action |-> Head(pending), exit |-> exit])
          /\ Head(pending).check /\ exit # 0 => outcome' = "failed"
      BY <1>4, Recording DEF FinishAction, Record
    <2> QED BY <2>1, RecordFailure
  <1>5. ASSUME NEW exit \in {0, 1}, InterruptWhileRecording(exit)
        PROVE  NothingFailedYet' /\ CheckedFailureIsLast'
    <2>1. /\ outcome = "running" /\ [action |-> Head(pending), exit |-> exit] \in Entry
          /\ history' = Append(history, [action |-> Head(pending), exit |-> exit])
          /\ outcome' = "interrupted"
      BY <1>5, Recording DEF InterruptWhileRecording
    <2> QED BY <2>1, RecordFailure
  <1> QED BY <1>1, <1>2, <1>3, <1>4, <1>5, AuditFrame

\* What was started is what was recorded, but for the one under way.
LEMMA EffectsInit == Init => EffectsMatch
  <1> SUFFICES ASSUME Init PROVE EffectsMatch
    OBVIOUS
  <1>1. history = <<>> /\ effects = <<>> /\ pc = "dispatch"
    BY DEF Init
  <1>2. Done = <<>>
    BY <1>1 DEF Done
  <1> QED BY <1>1, <1>2 DEF EffectsMatch

\* Every step keeps what was started and what was recorded in line.
LEMMA EffectsStep ==
  TypeOK /\ Control /\ EffectsMatch /\ [Next]_vars => EffectsMatch'
  <1> SUFFICES ASSUME TypeOK, Control, EffectsMatch, [Next]_vars, ~dry_run'
               PROVE  EffectsMatch'
    BY DEF EffectsMatch
  <1> USE DEF busVars, loopVars, auditVars, ghostVars, Live
  <1>1. ASSUME history' = history, effects' = effects, dry_run' = dry_run,
               pc # "action", pc' # "action",
               outcome' = outcome \/ outcome = "running"
        PROVE  EffectsMatch'
    <2>1. Done' = Done
      BY <1>1 DEF Done
    <2>2. \/ effects = Done
          \/ outcome' = "interrupted" /\ \E a \in Action : effects = Append(Done, a)
      BY <1>1 DEF EffectsMatch
    <2> QED BY <1>1, <2>1, <2>2 DEF EffectsMatch
  <1>2. ASSUME NEW h \in DOMAIN bus, SkipHook(h) \/ CallHook(h) PROVE EffectsMatch'
    BY <1>2, <1>1 DEF SkipHook, CallHook
  <1>3. ASSUME NEW check \in BOOLEAN, HookAppends(check) PROVE EffectsMatch'
    BY <1>3, <1>1 DEF HookAppends
  <1>4. CASE HookReturns
    <2>1. pc' # "action"
      BY <1>4 DEF HookReturns, DrainActions
    <2> QED BY <1>4, <2>1, <1>1 DEF HookReturns
  <1>5. CASE IsolatedHookRaises
    <2>1. pc' # "action"
      BY <1>5 DEF IsolatedHookRaises, DrainActions
    <2> QED BY <1>5, <2>1, <1>1 DEF IsolatedHookRaises
  <1>6. CASE EndPhase
    <2>1. pc' # "action"
      BY <1>6 DEF EndPhase, DrainActions
    <2> QED BY <1>6, <2>1, <1>1 DEF EndPhase
  <1>7. CASE BuiltinHookRaises \/ EndRun
    BY <1>7, <1>1 DEF BuiltinHookRaises, EndRun, Control
  <1>8. CASE DrainDone \/ CloseExecutor
    BY <1>8, <1>1 DEF DrainDone, CloseExecutor
  <1>9. CASE Interrupt
    <2>1. Done' = Done /\ effects' = effects /\ outcome' = "interrupted" /\ pc' = "exit"
      BY <1>9 DEF Interrupt, Done
    <2>2. CASE pc = "action"
      <3>1. effects = Append(Done, Head(pending)) /\ Head(pending) \in Action
        BY <2>2, <1>9, ElemsTail DEF EffectsMatch, Control, TypeOK
      <3> QED BY <2>1, <3>1 DEF EffectsMatch
    <2>3. CASE pc # "action"
      BY <2>1, <2>3, <1>9 DEF Interrupt, EffectsMatch, Control
    <2> QED BY <2>2, <2>3
  <1>10. ASSUME NEW exit \in {0, 1}, InterruptWhileRecording(exit) PROVE EffectsMatch'
    <2> DEFINE r == [action |-> Head(pending), exit |-> exit]
    <2>1. /\ pc = "action" /\ outcome = "running" /\ effects' = effects
          /\ pc' = "exit" /\ outcome' = "interrupted"
      BY <1>10 DEF InterruptWhileRecording, Control
    <2>2. r \in Entry /\ history \in Seq(Entry) /\ history' = Append(history, r)
      BY <1>10, Recording DEF InterruptWhileRecording, TypeOK
    <2>3. Done' = Append(Done, Head(pending))
      BY <2>2, ProjectAppend DEF Done
    <2>4. effects = Append(Done, Head(pending))
      BY <2>1, <1>10 DEF InterruptWhileRecording, EffectsMatch
    <2> QED BY <2>1, <2>3, <2>4 DEF EffectsMatch
  <1>12. CASE PreviewAction
    BY <1>12 DEF PreviewAction
  <1>13. CASE StartAction
    <2>1. Done' = Done
      BY <1>13 DEF StartAction, Done
    <2>2. effects = Done
      BY <1>13 DEF StartAction, EffectsMatch, Control
    <2>3. /\ pc' = "action" /\ outcome' = "running"
          /\ effects' = Append(effects, Head(pending)) /\ pending' = pending
      BY <1>13 DEF StartAction, Control
    <2> QED BY <2>1, <2>2, <2>3 DEF EffectsMatch
  <1>14. ASSUME NEW exit \in {0, 1}, FinishAction(exit) PROVE EffectsMatch'
    <2> DEFINE r == [action |-> Head(pending), exit |-> exit]
    <2>1. r \in Entry /\ history \in Seq(Entry) /\ history' = Append(history, r)
      BY <1>14, Recording DEF FinishAction, Record, TypeOK
    <2>2. Done' = Append(Done, Head(pending))
      BY <2>1, ProjectAppend DEF Done
    <2>3. effects = Append(Done, Head(pending))
      BY <1>14, Recording DEF FinishAction, EffectsMatch
    <2>4. effects' = effects /\ pc' # "action"
      BY <1>14 DEF FinishAction
    <2> QED BY <2>2, <2>3, <2>4 DEF EffectsMatch
  <1>15. CASE UNCHANGED vars
    <2>1. Done' = Done
      BY <1>15 DEF vars, Done
    <2> QED BY <1>15, <2>1 DEF vars, EffectsMatch
  <1> QED
    BY <1>2, <1>3, <1>4, <1>5, <1>6, <1>7, <1>8, <1>9, <1>10, <1>12, <1>13, <1>14,
       <1>15 DEF Next, Step

-----------------------------------------------------------------------------
(* Theorems. *)

\* Every variable keeps its type along every run, for every bus.
THEOREM TypeCorrect == Spec => []TypeOK
  <1>1. Init => TypeOK /\ Control
    BY TypeInit, ControlInit
  <1>2. TypeOK /\ Control /\ [Next]_vars => (TypeOK /\ Control)'
    BY TypeStep, ControlStep
  <1> QED BY <1>1, <1>2, PTL DEF Spec

\* The audit invariant holds along every run.
LEMMA AuditInvariant == Spec => []AuditInv
  <1>1. Init => AuditInv
    BY TypeInit, ControlInit, LogInit, FailureInit, EffectsInit DEF AuditInv, Audit
  <1>2. AuditInv /\ [Next]_vars => AuditInv'
    BY TypeStep, ControlStep, LogStep, FailureStep, EffectsStep DEF AuditInv, Audit
  <1> QED BY <1>1, <1>2, PTL DEF Spec

\* Nothing runs behind a checked failure, in any run of any verb.
THEOREM FailureIsLast == Spec => []CheckedFailureIsLast
  <1>1. AuditInv => CheckedFailureIsLast
    BY DEF AuditInv, Audit
  <1> QED BY <1>1, AuditInvariant, PTL

\* actions.jsonl has no gap, wherever its file breaks or an interrupt falls.
THEOREM LogHasNoGap == Spec => []LogIsPrefixOfHistory
  <1>1. AuditInv => LogIsPrefixOfHistory
    BY DEF AuditInv, Audit
  <1> QED BY <1>1, AuditInvariant, PTL

\* Every command that ran is in the history, in order, but for the last one while
\* it runs or where an interrupt cut it short.
THEOREM EffectsAudited == Spec => []NoUnauditedEffect
  <1>1. AuditInv => NoUnauditedEffect
    <2> SUFFICES ASSUME TypeOK, Control, EffectsMatch, ~dry_run
                 PROVE  /\ \A i \in DOMAIN history :
                             i \in DOMAIN effects /\ effects[i] = history[i].action
                        /\ \/ Len(effects) = Len(history)
                           \/ /\ Len(effects) = Len(history) + 1
                              /\ pc = "action" \/ outcome = "interrupted"
      BY DEF AuditInv, Audit, NoUnauditedEffect
    <2>1. Done \in Seq(Action) /\ Len(Done) = Len(history) /\ Len(history) \in Nat
      <3>1. /\ history \in Seq(Entry) /\ Len(history) \in Nat
            /\ DOMAIN history = 1..Len(history)
        BY DEF TypeOK
      <3>2. \A i \in 1..Len(history) : history[i] \in Entry
        BY <3>1
      <3>3. Done = [i \in 1..Len(history) |-> history[i].action]
        BY <3>1 DEF Done
      <3>4. \A i \in 1..Len(history) : history[i].action \in Action
        BY <3>2 DEF Entry
      <3> QED BY <3>1, <3>3, <3>4
    <2>2. \A i \in DOMAIN history : i \in DOMAIN Done /\ Done[i] = history[i].action
      BY DEF Done
    <2>3. CASE effects = Done
      BY <2>1, <2>2, <2>3
    <2>4. CASE /\ \E a \in Action : effects = Append(Done, a)
               /\ pc = "action" \/ outcome = "interrupted"
      BY <2>1, <2>2, <2>4
    <2>5. pc = "action" => outcome = "running" /\ Head(pending) \in Action
      BY ElemsTail DEF Control, TypeOK, Live
    <2> QED BY <2>3, <2>4, <2>5 DEF EffectsMatch
  <1> QED BY <1>1, AuditInvariant, PTL

-----------------------------------------------------------------------------
(* What becomes of the actions that hooks enqueue, and in which order the  *)
(* hooks are met: the rest of the kernel's inductive invariant, its safety *)
(* properties, and the refinement of Pipeline.                             *)

\* Order: the loop has met a prefix of the sorted hooks.
Order ==
  /\ hook # 0 => hook \in visited
  /\ \A g \in visited :
       /\ bus[g].phase <= phase
       /\ bus[g].phase = phase => \A h \in HooksFor(phase) \ visited : Precedes(g, h)
  /\ \A h \in DOMAIN bus : bus[h].phase < phase => h \in visited

Waiting == Elems(queue) \cup Elems(pending)
Touched == Elems(effects) \cup ActionsOf(history)

\* Provenance: every action anywhere was enqueued, by a hook the loop has met.
Provenance ==
  /\ Touched \cup Waiting \cup discarded \subseteq enqueued
  /\ \A a \in enqueued : a.hook \in visited

\* Attribution: while a hook runs, its own actions are behind the baseline
\* and nowhere else.
Attribution ==
  pc = "hook" =>
    /\ \A a \in Touched \cup discarded : a.hook # hook
    /\ \A i \in DOMAIN queue : queue[i].hook = hook <=> i > baseline

\* The executor works for the hook called last.
Block == pc \in {"drain", "action"} => \A a \in Elems(pending) : a.hook = hook

\* Conservation: an enqueued action is discarded, waiting or done, and what
\* is discarded is neither.
Conservation ==
  /\ enqueued \ discarded \subseteq ActionsOf(history) \cup Waiting
  /\ discarded \cap (Touched \cup Waiting) = {}

Flow == Order /\ Provenance /\ Attribution /\ Block /\ Conservation

FlowInv == TypeOK /\ Control /\ Flow /\ OkMeansComplete

-----------------------------------------------------------------------------
(* Order. *)

\* Two hooks apart, the loop's bookkeeping moves when a hook is passed or a
\* phase ends.
LEMMA LoopFrame ==
  ASSUME [Next]_vars
  PROVE  /\ bus' = bus
         /\ \/ UNCHANGED loopVars
            \/ \E h \in DOMAIN bus : SkipHook(h) \/ CallHook(h)
            \/ EndPhase
  <1> USE DEF busVars, loopVars, auditVars, ghostVars
  <1>1. ASSUME NEW h \in DOMAIN bus, SkipHook(h) \/ CallHook(h) PROVE bus' = bus
    BY <1>1 DEF SkipHook, CallHook
  <1>2. CASE EndPhase
    BY <1>2 DEF EndPhase
  <1>3. ASSUME \/ \E check \in BOOLEAN : HookAppends(check)
               \/ HookReturns \/ IsolatedHookRaises \/ BuiltinHookRaises \/ EndRun
        PROVE  bus' = bus /\ UNCHANGED loopVars
    BY <1>3 DEF HookAppends, HookReturns, IsolatedHookRaises, BuiltinHookRaises, EndRun
  <1>4. ASSUME \/ PreviewAction \/ StartAction \/ DrainDone \/ CloseExecutor \/ Interrupt
               \/ \E exit \in {0, 1} : FinishAction(exit) \/ InterruptWhileRecording(exit)
        PROVE  bus' = bus /\ UNCHANGED loopVars
    BY <1>4 DEF PreviewAction, StartAction, DrainDone, CloseExecutor, Interrupt, FinishAction,
       InterruptWhileRecording
  <1>5. CASE UNCHANGED vars
    BY <1>5 DEF vars
  <1> QED BY <1>1, <1>2, <1>3, <1>4, <1>5 DEF Next, Step

\* No hook has been met at the start.
LEMMA OrderInit == Init => Order
  <1> SUFFICES ASSUME Init PROVE Order
    OBVIOUS
  <1>1. bus \in Seq(Hook) /\ visited = {} /\ hook = 0 /\ phase = 1
    BY TypeInit DEF TypeOK, Init
  <1>2. \A h \in DOMAIN bus : bus[h].phase \in Phases
    <2>1. \A h \in DOMAIN bus : bus[h] \in Hook
      BY <1>1
    <2> QED BY <2>1 DEF Hook
  <1>3. \A h \in DOMAIN bus : ~(bus[h].phase < phase)
    BY <1>1, <1>2, KernelAssumption DEF Phases
  <1> QED BY <1>1, <1>3 DEF Order

\* Every step keeps the hooks met a prefix of the sorted ones.
LEMMA OrderStep == TypeOK /\ Order /\ [Next]_vars => Order'
  <1> SUFFICES ASSUME TypeOK, Order, [Next]_vars PROVE Order'
    OBVIOUS
  <1> USE DEF busVars, loopVars, auditVars, ghostVars
  <1>1. /\ bus' = bus /\ visited \subseteq DOMAIN bus /\ phase \in Nat
        /\ \A h \in DOMAIN bus : bus[h].phase \in Nat
    <2>1. \A h \in DOMAIN bus : bus[h] \in Hook
      BY DEF TypeOK
    <2> QED BY <2>1, LoopFrame, KernelAssumption, SMTT(20) DEF TypeOK, Hook, Phases
  <1>2. CASE UNCHANGED loopVars
    <2>1. bus' = bus /\ visited' = visited /\ hook' = hook /\ phase' = phase
      BY <1>1, <1>2
    <2> QED BY <2>1 DEF Order, HooksFor, Precedes
  <1>3. ASSUME NEW h \in DOMAIN bus, SkipHook(h) \/ CallHook(h) PROVE Order'
    <2>1. /\ visited' = visited \cup {h} /\ phase' = phase
          /\ hook' = hook \/ hook' = h
          /\ h \in HooksFor(phase) \ visited
          /\ \A g \in HooksFor(phase) \ visited : g = h \/ Precedes(h, g)
      BY <1>3 DEF SkipHook, CallHook, IsNext
    <2>2. bus[h].phase = phase
      BY <2>1 DEF HooksFor
    <2>3. hook' # 0 => hook' \in visited'
      BY <2>1 DEF Order
    <2>4. ASSUME NEW g \in visited'
          PROVE  /\ bus[g].phase <= phase
                 /\ bus[g].phase = phase => \A k \in HooksFor(phase) \ visited' : Precedes(g, k)
      <3>1. CASE g = h
        BY <3>1, <1>1, <2>1, <2>2
      <3>2. CASE g \in visited
        BY <3>2, <2>1 DEF Order
      <3> QED BY <2>1, <3>1, <3>2
    <2>5. \A k \in DOMAIN bus : bus[k].phase < phase => k \in visited'
      BY <2>1 DEF Order
    <2> QED BY <1>1, <2>1, <2>3, <2>4, <2>5 DEF Order, HooksFor, Precedes
  <1>4. CASE EndPhase
    <2>1. /\ visited' = visited /\ phase' = phase + 1 /\ hook' = hook
          /\ HooksFor(phase) \subseteq visited
      BY <1>4 DEF EndPhase
    <2>2. \A g \in visited : bus[g].phase <= phase
      BY DEF Order
    <2>3. \A g \in visited : bus[g].phase <= phase' /\ bus[g].phase # phase'
      BY <1>1, <2>1, <2>2
    <2>4. \A h \in DOMAIN bus : bus[h].phase < phase' => h \in visited
      <3> SUFFICES ASSUME NEW h \in DOMAIN bus, bus[h].phase < phase + 1
                   PROVE  h \in visited
        BY <2>1
      <3>1. bus[h].phase < phase \/ bus[h].phase = phase
        BY <1>1
      <3> QED BY <2>1, <3>1 DEF Order, HooksFor
    <2> QED BY <1>1, <2>1, <2>3, <2>4 DEF Order
  <1> QED BY <1>2, <1>3, <1>4, LoopFrame

-----------------------------------------------------------------------------
(* Where the actions are. *)

\* Handing the queue over moves its actions and loses none; the executor only
\* gets them all.
LEMMA DrainMoves ==
  ASSUME NEW q \in Seq(Action), DrainActions(q)
  PROVE  /\ Waiting' = Elems(q)
         /\ Elems(pending)' \subseteq Elems(q)
         /\ pc' = "drain" => executor
         /\ pc' \in {"drain", "dispatch"}
  <1>1. Elems(<<>>) = {}
    BY DEF Elems
  <1>2. CASE executor /\ q # <<>>
    <2>1. pending' = q /\ queue' = <<>> /\ pc' = "drain"
      BY <1>2 DEF DrainActions
    <2> QED BY <1>1, <1>2, <2>1 DEF Waiting, Elems
  <1>3. CASE ~(executor /\ q # <<>>)
    <2>1. pending' = <<>> /\ queue' = q /\ pc' = "dispatch"
      BY <1>3 DEF DrainActions
    <2> QED BY <1>1, <2>1 DEF Waiting, Elems
  <1> QED BY <1>2, <1>3

\* No action is anywhere at the start.
LEMMA FlowInit == Init => Provenance /\ Attribution /\ Block /\ Conservation
  <1> SUFFICES ASSUME Init PROVE Provenance /\ Attribution /\ Block /\ Conservation
    OBVIOUS
  <1>1. /\ queue = <<>> /\ pending = <<>> /\ effects = <<>> /\ history = <<>>
        /\ enqueued = {} /\ discarded = {} /\ pc = "dispatch"
    BY DEF Init
  <1>2. Waiting = {} /\ Touched = {} /\ ActionsOf(history) = {}
    BY <1>1 DEF Waiting, Touched, Elems, ActionsOf
  <1> QED BY <1>1, <1>2 DEF Provenance, Attribution, Block, Conservation

Cut == {queue[i] : i \in {j \in DOMAIN queue : j > baseline}}

\* Every step moves actions in one of five ways.
Still ==
  UNCHANGED <<enqueued, discarded, Touched, ActionsOf(history), Waiting>>

Enqueues ==
  \E a \in Action :
    /\ a.hook = hook /\ pc = "hook"
    /\ enqueued' = enqueued \cup {a} /\ Waiting' = Waiting \cup {a}
    /\ UNCHANGED <<discarded, Touched, ActionsOf(history)>>

Discards ==
  /\ pc = "hook" /\ pending = <<>>
  /\ discarded' = discarded \cup Cut
  /\ Waiting' = Elems(SubSeq(queue, 1, baseline))
  /\ Waiting = Waiting' \cup Cut
  /\ UNCHANGED <<enqueued, Touched, ActionsOf(history)>>

Starts ==
  /\ Touched' = Touched \cup {Head(pending)} /\ Head(pending) \in Waiting
  /\ UNCHANGED <<enqueued, discarded, ActionsOf(history), Waiting>>

Finishes ==
  /\ Head(pending) \in Waiting
  /\ Touched' = Touched \cup {Head(pending)}
  /\ ActionsOf(history)' = ActionsOf(history) \cup {Head(pending)}
  /\ Waiting' \subseteq Waiting /\ Waiting \subseteq Waiting' \cup {Head(pending)}
  /\ UNCHANGED <<enqueued, discarded>>

\* Recording takes the first waiting action to the history.
LEMMA RecordMoves ==
  ASSUME TypeOK, Control, NEW exit \in {0, 1},
         PreviewAction \/ FinishAction(exit) \/ InterruptWhileRecording(exit),
         \E e \in {0, 1} :
           history' = Append(history, [action |-> Head(pending), exit |-> e]),
         queue' = queue, pending' \in {pending, Tail(pending)},
         UNCHANGED ghostVars
  PROVE  Finishes
  <1>1. pending # <<>> /\ Head(pending) \in Action /\ pending \in Seq(Action)
    BY Recording DEF TypeOK
  <1>2. Elems(pending) = {Head(pending)} \cup Elems(Tail(pending))
    BY <1>1, ElemsTail
  <1>3. PICK e \in {0, 1} :
          history' = Append(history, [action |-> Head(pending), exit |-> e])
    OBVIOUS
  <1>4. /\ [action |-> Head(pending), exit |-> e] \in Entry
        /\ [action |-> Head(pending), exit |-> e].action = Head(pending)
        /\ history \in Seq(Entry)
    BY <1>1 DEF Entry, TypeOK
  <1>5. ActionsOf(history') = ActionsOf(history) \cup {Head(pending)}
    BY <1>3, <1>4, ActionsOfAppend
  <1>6. ActionsOf(history)' = ActionsOf(history) \cup {Head(pending)}
    BY <1>5 DEF ActionsOf
  <1>7. effects' = effects /\ enqueued' = enqueued /\ discarded' = discarded
    BY DEF ghostVars
  <1>8. Touched' = Touched \cup {Head(pending)}
    BY <1>6, <1>7 DEF Touched, Elems
  <1>9. CASE pending' = pending
    BY <1>2, <1>6, <1>7, <1>8, <1>9 DEF Finishes, Waiting, Elems
  <1>10. CASE pending' = Tail(pending)
    <2>1. Elems(pending)' = Elems(Tail(pending)) /\ Elems(queue)' = Elems(queue)
      BY <1>10 DEF Elems
    <2> QED BY <1>2, <1>6, <1>7, <1>8, <2>1 DEF Finishes, Waiting
  <1> QED BY <1>9, <1>10

\* Every step of the kernel is one of the five.
LEMMA Moves ==
  ASSUME TypeOK, Control, [Next]_vars
  PROVE  Still \/ Enqueues \/ Discards \/ Starts \/ Finishes
  <1> USE DEF busVars, loopVars, auditVars, ghostVars
  <1>1. ASSUME UNCHANGED <<history, enqueued, discarded, effects>>, Waiting' = Waiting
        PROVE  Still
    BY <1>1 DEF Still, Touched, Elems, ActionsOf
  <1>2. ASSUME UNCHANGED <<history, enqueued, discarded, effects, queue, pending>>
        PROVE  Still
    BY <1>1, <1>2 DEF Waiting, Elems
  <1>3. ASSUME NEW h \in DOMAIN bus, SkipHook(h) \/ CallHook(h) PROVE Still
    BY <1>2, <1>3 DEF SkipHook, CallHook
  <1>4. CASE BuiltinHookRaises \/ EndRun \/ DrainDone \/ CloseExecutor \/ Interrupt
    BY <1>2, <1>4 DEF BuiltinHookRaises, EndRun, DrainDone, CloseExecutor, Interrupt
  <1>5. CASE UNCHANGED vars
    BY <1>2, <1>5 DEF vars
  <1>6. CASE HookReturns \/ EndPhase
    <2>1. DrainActions(queue) /\ pc \in {"dispatch", "hook"} /\ queue \in Seq(Action)
      BY <1>6 DEF HookReturns, EndPhase, TypeOK
    <2>2. Waiting' = Elems(queue)
      BY <2>1, DrainMoves
    <2>3. Elems(pending) = {}
      BY <2>1 DEF Control, Elems
    <2>4. UNCHANGED <<history, enqueued, discarded, effects>>
      BY <1>6 DEF HookReturns, EndPhase
    <2> QED BY <1>1, <2>2, <2>3, <2>4 DEF Waiting
  <1>7. ASSUME NEW check \in BOOLEAN, HookAppends(check) PROVE Enqueues
    <2> DEFINE a == [hook |-> hook, n |-> Len(queue) + 1 - baseline, check |-> check]
    <2>1. Len(queue) \in Nat /\ baseline \in Nat /\ baseline <= Len(queue)
      BY <1>7 DEF HookAppends, TypeOK, Control
    <2>2. a \in Action /\ a.hook = hook /\ queue \in Seq(Action)
      BY <2>1 DEF TypeOK, Action
    <2>3. /\ pc = "hook" /\ queue' = Append(queue, a) /\ enqueued' = enqueued \cup {a}
          /\ UNCHANGED <<history, pending, discarded, effects>>
      BY <1>7 DEF HookAppends
    <2> HIDE DEF a
    <2>4. Elems(queue)' = Elems(queue) \cup {a}
      <3>1. Elems(Append(queue, a)) = Elems(queue) \cup {a}
        BY <2>2, ElemsAppend
      <3> QED BY <2>3, <3>1 DEF Elems
    <2>5. UNCHANGED <<Touched, ActionsOf(history)>> /\ Waiting' = Waiting \cup {a}
      BY <2>3, <2>4 DEF Touched, ActionsOf, Waiting, Elems
    <2> QED BY <2>2, <2>3, <2>5 DEF Enqueues
  <1>8. CASE IsolatedHookRaises
    <2>1. /\ pc = "hook" /\ pending = <<>> /\ queue \in Seq(Action)
          /\ baseline \in Nat /\ baseline <= Len(queue)
          /\ discarded' = discarded \cup Cut
          /\ DrainActions(SubSeq(queue, 1, baseline))
          /\ UNCHANGED <<history, enqueued, effects>>
      BY <1>8 DEF IsolatedHookRaises, Control, TypeOK, Cut
    <2>2. /\ SubSeq(queue, 1, baseline) \in Seq(Action)
          /\ Elems(queue) = Elems(SubSeq(queue, 1, baseline)) \cup Cut
      BY <2>1, ElemsPrefix DEF Cut
    <2>3. Waiting' = Elems(SubSeq(queue, 1, baseline))
      BY <2>1, <2>2, DrainMoves
    <2>4. Waiting = Elems(queue)
      BY <2>1 DEF Waiting, Elems
    <2>5. UNCHANGED <<Touched, ActionsOf(history)>>
      BY <2>1 DEF Touched, ActionsOf, Elems
    <2> QED BY <2>1, <2>2, <2>3, <2>4, <2>5 DEF Discards
  <1>9. CASE StartAction
    <2>1. /\ pending # <<>> /\ pending \in Seq(Action) /\ effects \in Seq(Action)
          /\ effects' = Append(effects, Head(pending))
          /\ UNCHANGED <<history, enqueued, discarded, queue, pending>>
      BY <1>9 DEF StartAction, TypeOK
    <2>2. Head(pending) \in Action /\ Head(pending) \in Elems(pending)
      BY <2>1, ElemsTail
    <2>3. Elems(effects') = Elems(effects) \cup {Head(pending)}
      BY <2>1, <2>2, ElemsAppend
    <2>4. Touched' = Touched \cup {Head(pending)}
      BY <2>1, <2>3 DEF Touched, Elems, ActionsOf
    <2>5. UNCHANGED <<ActionsOf(history), Waiting>>
      BY <2>1 DEF ActionsOf, Waiting, Elems
    <2> QED BY <2>1, <2>2, <2>4, <2>5 DEF Starts, Waiting
  <1>10. CASE PreviewAction
    <2>1. /\ history' = Append(history, [action |-> Head(pending), exit |-> 0])
          /\ queue' = queue /\ pending' = Tail(pending) /\ UNCHANGED ghostVars
      BY <1>10 DEF PreviewAction, Record
    <2> QED BY <1>10, <2>1, RecordMoves
  <1>11. ASSUME NEW exit \in {0, 1}, FinishAction(exit) PROVE Finishes
    <2>1. /\ history' = Append(history, [action |-> Head(pending), exit |-> exit])
          /\ queue' = queue /\ pending' \in {pending, Tail(pending)} /\ UNCHANGED ghostVars
      BY <1>11 DEF FinishAction, Record
    <2> QED BY <1>11, <2>1, RecordMoves
  <1>12. ASSUME NEW exit \in {0, 1}, InterruptWhileRecording(exit) PROVE Finishes
    <2>1. /\ history' = Append(history, [action |-> Head(pending), exit |-> exit])
          /\ queue' = queue /\ pending' = pending /\ UNCHANGED ghostVars
      BY <1>12 DEF InterruptWhileRecording
    <2> QED BY <1>12, <2>1, RecordMoves
  <1> QED
    BY <1>3, <1>4, <1>5, <1>6, <1>7, <1>8, <1>9, <1>10, <1>11, <1>12 DEF Next, Step

-----------------------------------------------------------------------------
(* Provenance, attribution, blocks and conservation are kept. *)

\* A hook once met stays met.
LEMMA VisitedGrows == [Next]_vars => visited \subseteq visited'
  BY LoopFrame DEF loopVars, SkipHook, CallHook, EndPhase

\* Every step keeps the provenance of every action.
LEMMA ProvenanceStep ==
  TypeOK /\ Control /\ Provenance /\ [Next]_vars => Provenance'
  <1> SUFFICES ASSUME TypeOK, Control, Provenance, [Next]_vars PROVE Provenance'
    OBVIOUS
  <1>1. /\ visited \subseteq visited'
        /\ Touched \cup Waiting \cup discarded \subseteq enqueued
        /\ \A a \in enqueued : a.hook \in visited
    BY VisitedGrows DEF Provenance
  <1>2. CASE Still \/ Starts \/ Finishes
    BY <1>1, <1>2 DEF Still, Starts, Finishes, Provenance
  <1>3. CASE Enqueues
    <2>1. hook \in visited
      BY <1>3 DEF Enqueues, Control
    <2> QED BY <1>1, <1>3, <2>1 DEF Enqueues, Provenance
  <1>4. CASE Discards
    BY <1>1, <1>4 DEF Discards, Provenance
  <1> QED BY <1>2, <1>3, <1>4, Moves

\* The three lists of a hook that raises are told apart by the hook's name.
LEMMA CutIsOwn ==
  ASSUME TypeOK, Control, Attribution, pc = "hook"
  PROVE  /\ \A a \in Cut : a.hook = hook
         /\ \A a \in Elems(SubSeq(queue, 1, baseline)) : a.hook # hook
  <1>1. /\ queue \in Seq(Action) /\ baseline \in Nat /\ baseline <= Len(queue)
        /\ \A i \in DOMAIN queue : queue[i].hook = hook <=> i > baseline
    BY DEF TypeOK, Control, Attribution
  <1>2. Elems(SubSeq(queue, 1, baseline)) = {queue[i] : i \in 1..baseline}
    BY <1>1, ElemsPrefix
  <1>3. DOMAIN queue = 1..Len(queue) /\ Len(queue) \in Nat
    BY <1>1
  <1>4. \A i \in 1..baseline : i \in DOMAIN queue /\ ~(i > baseline)
    BY <1>1, <1>3
  <1> QED BY <1>1, <1>2, <1>4 DEF Cut

\* No step loses an action or brings a discarded one back.
LEMMA ConservationStep ==
  TypeOK /\ Control /\ Attribution /\ Conservation /\ [Next]_vars => Conservation'
  <1> SUFFICES ASSUME TypeOK, Control, Attribution, Conservation, [Next]_vars
               PROVE  Conservation'
    OBVIOUS
  <1>1. /\ enqueued \ discarded \subseteq ActionsOf(history) \cup Waiting
        /\ discarded \cap (Touched \cup Waiting) = {}
    BY DEF Conservation
  <1>2. CASE Still
    BY <1>1, <1>2 DEF Still, Conservation
  <1>3. CASE Enqueues
    <2>1. \A a \in discarded : a.hook # hook
      BY <1>3 DEF Enqueues, Attribution
    <2> QED BY <1>1, <1>3, <2>1 DEF Enqueues, Conservation
  <1>4. CASE Discards
    <2>1. /\ \A a \in Cut : a.hook = hook
          /\ \A a \in Waiting' : a.hook # hook
          /\ \A a \in Touched : a.hook # hook
      BY <1>4, CutIsOwn DEF Discards, Attribution
    <2>2. Cut \cap (Waiting' \cup Touched) = {}
      BY <2>1
    <2> QED BY <1>1, <1>4, <2>2 DEF Discards, Conservation
  <1>5. CASE Starts
    BY <1>1, <1>5 DEF Starts, Conservation
  <1>6. CASE Finishes
    BY <1>1, <1>6 DEF Finishes, Conservation
  <1> QED BY <1>2, <1>3, <1>4, <1>5, <1>6, Moves

\* A hook is running because it was just called or has just appended.
LEMMA HookFrame ==
  ASSUME [Next]_vars, pc' = "hook"
  PROVE  \/ \E h \in DOMAIN bus : CallHook(h)
         \/ \E check \in BOOLEAN : HookAppends(check)
         \/ UNCHANGED vars
  <1>1. ASSUME NEW h \in DOMAIN bus PROVE ~SkipHook(h)
    BY DEF SkipHook
  <1>2. ~(HookReturns \/ IsolatedHookRaises \/ EndPhase)
    BY DEF HookReturns, IsolatedHookRaises, EndPhase, DrainActions
  <1>3. ~(BuiltinHookRaises \/ EndRun \/ StartAction \/ DrainDone \/ CloseExecutor
            \/ Interrupt \/ PreviewAction)
    BY DEF BuiltinHookRaises, EndRun, StartAction, DrainDone, CloseExecutor, Interrupt,
       PreviewAction
  <1>4. ASSUME NEW exit \in {0, 1}
        PROVE  ~(FinishAction(exit) \/ InterruptWhileRecording(exit))
    BY DEF FinishAction, InterruptWhileRecording
  <1> QED BY <1>1, <1>2, <1>3, <1>4 DEF Next, Step

\* Calling a hook starts its list, appending extends it.
LEMMA AttributionStep ==
  TypeOK /\ Control /\ Provenance /\ Attribution /\ [Next]_vars => Attribution'
  <1> SUFFICES ASSUME TypeOK, Control, Provenance, Attribution, [Next]_vars, pc' = "hook"
               PROVE  Attribution'
    BY DEF Attribution
  <1> USE DEF busVars, loopVars, auditVars, ghostVars
  <1>1. ASSUME NEW h \in DOMAIN bus, CallHook(h) PROVE Attribution'
    <2>1. /\ h \notin visited /\ hook' = h /\ baseline' = Len(queue)
          /\ UNCHANGED <<queue, pending, history, effects, discarded>>
      BY <1>1 DEF CallHook, IsNext
    <2>2. \A a \in Touched \cup Waiting \cup discarded : a.hook # h
      BY <2>1 DEF Provenance
    <2>3. \A a \in Touched' \cup discarded' : a.hook # hook'
      BY <2>1, <2>2 DEF Touched, Elems, ActionsOf
    <2>4. \A i \in DOMAIN queue : queue[i].hook # h /\ ~(i > Len(queue))
      <3>1. DOMAIN queue = 1..Len(queue) /\ Len(queue) \in Nat
        BY DEF TypeOK
      <3>2. \A i \in DOMAIN queue : queue[i] \in Waiting
        BY DEF Waiting, Elems
      <3> QED BY <2>2, <3>1, <3>2
    <2> QED BY <2>1, <2>3, <2>4 DEF Attribution
  <1>2. ASSUME NEW check \in BOOLEAN, HookAppends(check) PROVE Attribution'
    <2> DEFINE a == [hook |-> hook, n |-> Len(queue) + 1 - baseline, check |-> check]
    <2>1. /\ pc = "hook" /\ queue' = Append(queue, a)
          /\ UNCHANGED <<hook, baseline, history, effects, discarded>>
      BY <1>2 DEF HookAppends
    <2>2. /\ \A b \in Touched \cup discarded : b.hook # hook
          /\ \A i \in DOMAIN queue : queue[i].hook = hook <=> i > baseline
      BY <2>1 DEF Attribution
    <2>3. \A b \in Touched' \cup discarded' : b.hook # hook'
      BY <2>1, <2>2 DEF Touched, Elems, ActionsOf
    <2>4. /\ queue \in Seq(Action) /\ Len(queue) \in Nat /\ baseline \in Nat
          /\ baseline <= Len(queue) /\ a.hook = hook /\ hook \in Nat
      BY <2>1 DEF TypeOK, Control
    <2>5. a \in Action
      BY <2>4 DEF Action
    <2> HIDE DEF a
    <2>6. /\ DOMAIN queue' = 1..(Len(queue) + 1) /\ DOMAIN queue = 1..Len(queue)
          /\ \A i \in 1..Len(queue) : queue'[i] = queue[i]
          /\ queue'[Len(queue) + 1] = a
      BY <2>1, <2>4, <2>5
    <2>7. ASSUME NEW i \in DOMAIN queue'
          PROVE  queue'[i].hook = hook' <=> i > baseline'
      <3>1. CASE i \in 1..Len(queue)
        BY <3>1, <2>1, <2>2, <2>6
      <3>2. CASE i = Len(queue) + 1
        <4>1. queue'[i].hook = hook /\ i > baseline
          BY <3>2, <2>4, <2>6
        <4> QED BY <4>1, <2>1
      <3> QED BY <3>1, <3>2, <2>4, <2>6
    <2> QED BY <2>3, <2>7 DEF Attribution
  <1>3. CASE UNCHANGED vars
    BY <1>3 DEF vars, Attribution, Touched, Elems, ActionsOf
  <1> QED BY <1>1, <1>2, <1>3, HookFrame

\* What the executor gets is of one hook: nothing stays behind for a later one.
LEMMA BlockStep ==
  TypeOK /\ Control /\ Attribution /\ Block /\ [Next]_vars => Block'
  <1> SUFFICES ASSUME TypeOK, Control, Attribution, Block, [Next]_vars,
                      pc' \in {"drain", "action"}
               PROVE  \A a \in Elems(pending)' : a.hook = hook'
    BY DEF Block
  <1> USE DEF busVars, loopVars, auditVars, ghostVars
  <1>1. ASSUME hook' = hook, pc \in {"drain", "action"},
               pending' = pending \/ (pending # <<>> /\ pending' = Tail(pending))
        PROVE  \A a \in Elems(pending)' : a.hook = hook'
    <2>1. \A a \in Elems(pending) : a.hook = hook
      BY <1>1 DEF Block
    <2>2. Elems(pending') \subseteq Elems(pending)
      BY <1>1, ElemsTail DEF TypeOK
    <2> QED BY <1>1, <2>1, <2>2 DEF Elems
  <1>2. CASE HookReturns
    <2>1. /\ pc = "hook" /\ hook' = hook /\ DrainActions(queue) /\ queue \in Seq(Action)
      BY <1>2 DEF HookReturns, TypeOK
    <2>2. executor /\ baseline = 0 /\ Elems(pending)' \subseteq Elems(queue)
      BY <2>1, DrainMoves DEF Control
    <2>3. \A i \in DOMAIN queue : i > 0
      BY <2>1
    <2>4. \A a \in Elems(queue) : a.hook = hook
      BY <2>1, <2>2, <2>3 DEF Attribution, Elems
    <2> QED BY <2>1, <2>2, <2>4
  <1>3. CASE IsolatedHookRaises
    <2>1. /\ pc = "hook" /\ DrainActions(SubSeq(queue, 1, baseline))
          /\ queue \in Seq(Action) /\ baseline \in Nat /\ baseline <= Len(queue)
      BY <1>3 DEF IsolatedHookRaises, TypeOK, Control
    <2>2. executor /\ baseline = 0
      BY <2>1, ElemsPrefix, DrainMoves DEF Control
    <2>3. SubSeq(queue, 1, baseline) = <<>>
      BY <2>1, <2>2
    <2>4. pc' = "dispatch"
      BY <2>1, <2>3 DEF DrainActions
    <2> QED BY <2>4
  <1>4. CASE EndPhase
    <2>1. pc = "dispatch" /\ DrainActions(queue)
      BY <1>4 DEF EndPhase
    <2>2. pc' = "dispatch"
      BY <2>1 DEF DrainActions, Control
    <2> QED BY <2>2
  <1>5. CASE PreviewAction
    BY <1>1, <1>5 DEF PreviewAction
  <1>6. CASE StartAction
    BY <1>1, <1>6 DEF StartAction
  <1>7. ASSUME NEW exit \in {0, 1}, FinishAction(exit)
        PROVE  \A a \in Elems(pending)' : a.hook = hook'
    BY <1>1, <1>7 DEF FinishAction, Control
  <1>8. CASE UNCHANGED vars
    BY <1>1, <1>8 DEF vars
  <1>9. ASSUME NEW h \in DOMAIN bus PROVE ~SkipHook(h) /\ ~CallHook(h)
    BY DEF SkipHook, CallHook
  <1>10. ASSUME NEW check \in BOOLEAN PROVE ~HookAppends(check)
    BY DEF HookAppends
  <1>11. ~(BuiltinHookRaises \/ EndRun \/ DrainDone \/ CloseExecutor \/ Interrupt)
    BY DEF BuiltinHookRaises, EndRun, DrainDone, CloseExecutor, Interrupt
  <1>12. ASSUME NEW exit \in {0, 1} PROVE ~InterruptWhileRecording(exit)
    BY DEF InterruptWhileRecording
  <1> QED
    BY <1>2, <1>3, <1>4, <1>5, <1>6, <1>7, <1>8, <1>9, <1>10, <1>11, <1>12 DEF Next, Step

-----------------------------------------------------------------------------
(* A run that ends well. *)

\* Only the end of the phases makes a run end well.
LEMMA OkFrame ==
  ASSUME Control, [Next]_vars, outcome' = "ok"
  PROVE  EndRun \/ UNCHANGED <<outcome, bus, executor, visited, enqueued, discarded, history>>
  <1> USE DEF busVars, loopVars, auditVars, ghostVars
  <1>1. ASSUME NEW h \in DOMAIN bus PROVE ~SkipHook(h) /\ ~CallHook(h)
    BY DEF SkipHook, CallHook, Control, Live
  <1>2. ASSUME NEW check \in BOOLEAN PROVE ~HookAppends(check)
    BY DEF HookAppends, Control, Live
  <1>3. ~(HookReturns \/ IsolatedHookRaises \/ EndPhase)
    BY DEF HookReturns, IsolatedHookRaises, EndPhase, Control, Live
  <1>4. ~(BuiltinHookRaises \/ PreviewAction \/ StartAction \/ DrainDone \/ Interrupt)
    BY DEF BuiltinHookRaises, PreviewAction, StartAction, DrainDone, Interrupt, Control, Live
  <1>5. ASSUME NEW exit \in {0, 1}
        PROVE  ~FinishAction(exit) /\ ~InterruptWhileRecording(exit)
    BY DEF FinishAction, InterruptWhileRecording, Control, Live
  <1>6. CASE CloseExecutor
    BY <1>6 DEF CloseExecutor
  <1>7. CASE UNCHANGED vars
    BY <1>7 DEF vars
  <1> QED BY <1>1, <1>2, <1>3, <1>4, <1>5, <1>6, <1>7 DEF Next, Step

\* At the end of the phases every hook is met and every list is empty.
LEMMA OkStep ==
  TypeOK /\ Control /\ Flow /\ OkMeansComplete /\ [Next]_vars => OkMeansComplete'
  <1> SUFFICES ASSUME TypeOK, Control, Flow, OkMeansComplete, [Next]_vars, outcome' = "ok"
               PROVE  OkMeansComplete'
    BY DEF OkMeansComplete
  <1>1. CASE EndRun
    <2>1. /\ pc = "dispatch" /\ phase = NPhases + 1
          /\ UNCHANGED <<bus, executor, visited, enqueued, discarded, history>>
      BY <1>1 DEF EndRun, busVars, loopVars, auditVars, ghostVars
    <2>2. \A h \in DOMAIN bus : bus[h].phase \in 1..NPhases
      <3>1. \A h \in DOMAIN bus : bus[h] \in Hook
        BY DEF TypeOK
      <3> QED BY <3>1 DEF Hook, Phases
    <2>3. \A h \in DOMAIN bus : bus[h].phase < phase
      BY <2>1, <2>2, KernelAssumption
    <2>4. visited = DOMAIN bus
      BY <2>3 DEF Flow, Order, TypeOK
    <2>5. executor => Waiting = {}
      BY <2>1 DEF Control, Waiting, Elems
    <2>6. executor => enqueued \ discarded = ActionsOf(history)
      BY <2>5 DEF Flow, Conservation, Provenance, Touched
    <2> QED BY <2>1, <2>4, <2>6 DEF OkMeansComplete, ActionsOf
  <1>2. CASE UNCHANGED <<outcome, bus, executor, visited, enqueued, discarded, history>>
    BY <1>2 DEF OkMeansComplete, ActionsOf
  <1> QED BY <1>1, <1>2, OkFrame

-----------------------------------------------------------------------------
(* Theorems. *)

\* The flow invariant holds along every run.
LEMMA FlowInvariant == Spec => []FlowInv
  <1>1. Init => FlowInv
    <2>1. Init => OkMeansComplete
      BY DEF Init, OkMeansComplete
    <2> QED BY <2>1, TypeInit, ControlInit, OrderInit, FlowInit DEF FlowInv, Flow
  <1>2. FlowInv /\ [Next]_vars => FlowInv'
    BY TypeStep, ControlStep, OrderStep, ProvenanceStep, AttributionStep, BlockStep,
       ConservationStep, OkStep DEF FlowInv, Flow
  <1> QED BY <1>1, <1>2, PTL DEF Spec

\* Whatever a raising isolated hook had enqueued never runs, is never reported
\* and never waits for a later drain.
THEOREM RollbackIsComplete == Spec => []DiscardedNeverRuns
  <1>1. FlowInv => DiscardedNeverRuns
    BY DEF FlowInv, Flow, Conservation, Touched, Waiting, Elems, DiscardedNeverRuns
  <1> QED BY <1>1, FlowInvariant, PTL

\* A hook under an executor finds every earlier hook's actions done.
THEOREM DrainedBetweenHooks == Spec => []LaterHookSeesEarlierActions
  <1>1. FlowInv => LaterHookSeesEarlierActions
    <2> SUFFICES ASSUME FlowInv, pc = "hook", executor,
                        NEW a \in enqueued \ discarded, a.hook # hook
                 PROVE  a \in ActionsOf(history)
      BY DEF LaterHookSeesEarlierActions
    <2>1. a \in ActionsOf(history) \cup Waiting
      BY DEF FlowInv, Flow, Conservation
    <2>2. /\ pending = <<>> /\ baseline = 0 /\ queue \in Seq(Action)
          /\ \A i \in DOMAIN queue : queue[i].hook = hook <=> i > baseline
      BY DEF FlowInv, Flow, Attribution, Control, TypeOK
    <2>3. \A i \in DOMAIN queue : i > 0
      BY <2>2
    <2>4. a \notin Waiting
      BY <2>2, <2>3 DEF Waiting, Elems
    <2> QED BY <2>1, <2>4
  <1> QED BY <1>1, FlowInvariant, PTL

\* A run that ends well has met every hook and done every action.
THEOREM OkIsComplete == Spec => []OkMeansComplete
  <1>1. FlowInv => OkMeansComplete
    BY DEF FlowInv
  <1> QED BY <1>1, FlowInvariant, PTL

-----------------------------------------------------------------------------
(* The refinement of Pipeline. *)

Ran == [i \in DOMAIN effects |-> effects[i].hook]

\* Starting an action adds its hook to what the pipeline has run.
LEMMA RanAppend ==
  ASSUME TypeOK, NEW a \in Action, effects' = Append(effects, a)
  PROVE  Ran' = Append(Ran, a.hook)
  <1>1. /\ effects \in Seq(Action) /\ Len(effects) \in Nat
        /\ DOMAIN effects' = 1..(Len(effects) + 1) /\ DOMAIN effects = 1..Len(effects)
        /\ \A i \in 1..Len(effects) : effects'[i] = effects[i]
        /\ effects'[Len(effects) + 1] = a
        /\ \A i \in 1..Len(effects) : effects[i] \in Action
    BY DEF TypeOK
  <1>2. Ran \in Seq(Nat) /\ Len(Ran) = Len(effects) /\ a.hook \in Nat
    BY <1>1 DEF Ran, Action
  <1>3. /\ Append(Ran, a.hook) \in Seq(Nat) /\ Len(Append(Ran, a.hook)) = Len(effects) + 1
        /\ DOMAIN Append(Ran, a.hook) = 1..(Len(effects) + 1)
        /\ \A i \in 1..Len(effects) : Append(Ran, a.hook)[i] = Ran[i]
        /\ Append(Ran, a.hook)[Len(effects) + 1] = a.hook
    BY <1>1, <1>2
  <1>4. Ran' = [i \in 1..(Len(effects) + 1) |-> effects'[i].hook]
    BY <1>1 DEF Ran
  <1>5. \A i \in 1..(Len(effects) + 1) : effects'[i].hook = Append(Ran, a.hook)[i]
    BY <1>1, <1>3 DEF Ran
  <1>6. Append(Ran, a.hook) =
          [i \in 1..(Len(effects) + 1) |-> Append(Ran, a.hook)[i]]
    BY <1>3
  <1> QED BY <1>4, <1>5, <1>6

\* A fresh run is a fresh pipeline.
LEMMA PromiseInit == Init => Promise!Init
  <1> SUFFICES ASSUME Init PROVE Promise!Init
    OBVIOUS
  <1>1. hook = 0 /\ outcome = "running" /\ effects = <<>>
    BY DEF Init
  <1>2. Ran = <<>>
    BY <1>1 DEF Ran
  <1> QED BY <1>1, <1>2 DEF Ran, Promise!Init

\* Every step of the kernel is a step of the pipeline or none.
LEMMA PromiseStep == FlowInv /\ [Next]_vars => [Promise!Next]_(Promise!vars)
  <1> SUFFICES ASSUME FlowInv, [Next]_vars PROVE [Promise!Next]_(Promise!vars)
    OBVIOUS
  <1> USE DEF busVars, loopVars, auditVars, ghostVars
  <1>1. ASSUME UNCHANGED <<bus, hook, effects, outcome>>
        PROVE  UNCHANGED Promise!vars
    BY <1>1 DEF Promise!vars
  <1>2. ASSUME UNCHANGED <<bus, hook, effects>>, outcome = "running",
               outcome' \in {"ok", "raised", "failed", "interrupted"}
        PROVE  Promise!Stop
    BY <1>2 DEF Promise!Stop
  <1>3. ASSUME NEW h \in DOMAIN bus, CallHook(h) PROVE Promise!Call(h)
    <2>1. /\ outcome = "running" /\ hook' = h /\ h \in HooksFor(phase) \ visited
          /\ UNCHANGED <<bus, effects, outcome>>
      BY <1>3 DEF CallHook, IsNext, FlowInv, Control, Live
    <2>2. hook = 0 \/ Promise!Before(hook, h)
      <3> SUFFICES ASSUME hook # 0 PROVE Promise!Before(hook, h)
        OBVIOUS
      <3>1. /\ hook \in visited /\ bus[hook].phase <= phase
            /\ bus[hook].phase = phase => Precedes(hook, h)
        BY <2>1 DEF FlowInv, Flow, Order
      <3>2. bus[h].phase = phase
        BY <2>1 DEF HooksFor
      <3>3. bus[hook].phase \in Nat /\ phase \in Nat
        <4>1. bus[hook] \in Hook
          BY <3>1 DEF FlowInv, TypeOK
        <4> QED BY <4>1, KernelAssumption, SMTT(20) DEF FlowInv, TypeOK, Hook, Phases
      <3>4. CASE bus[hook].phase = phase
        BY <3>1, <3>2, <3>4 DEF Precedes, Promise!Before
      <3>5. CASE bus[hook].phase < phase
        BY <3>2, <3>5 DEF Promise!Before
      <3> QED BY <3>1, <3>3, <3>4, <3>5
    <2> QED BY <2>1, <2>2 DEF Promise!Call
  <1>4. CASE StartAction
    <2>1. /\ pc = "drain" /\ pending # <<>> /\ effects' = Append(effects, Head(pending))
          /\ UNCHANGED <<bus, hook, outcome>>
      BY <1>4 DEF StartAction
    <2>2. Head(pending) \in Action /\ Head(pending) \in Elems(pending)
      BY <2>1, ElemsTail DEF FlowInv, TypeOK
    <2>3. Head(pending).hook = hook
      BY <2>1, <2>2 DEF FlowInv, Flow, Block
    <2>4. Ran' = Append(Ran, hook)
      BY <2>1, <2>2, <2>3, RanAppend DEF FlowInv
    <2>5. hook # 0 /\ outcome = "running"
      <3>1. hook \in DOMAIN bus /\ bus \in Seq(Hook)
        BY <2>1 DEF FlowInv, Control, TypeOK
      <3>2. hook # 0
        BY <3>1
      <3> QED BY <2>1, <3>2 DEF FlowInv, Control, Live
    <2> QED BY <2>1, <2>4, <2>5 DEF Promise!Next, Promise!Run, Ran
  <1>5. ASSUME NEW h \in DOMAIN bus, SkipHook(h) PROVE UNCHANGED Promise!vars
    BY <1>1, <1>5 DEF SkipHook
  <1>6. ASSUME NEW check \in BOOLEAN, HookAppends(check) PROVE UNCHANGED Promise!vars
    BY <1>1, <1>6 DEF HookAppends
  <1>7. CASE HookReturns \/ IsolatedHookRaises \/ EndPhase
    BY <1>1, <1>7 DEF HookReturns, IsolatedHookRaises, EndPhase
  <1>8. CASE PreviewAction \/ DrainDone \/ CloseExecutor
    BY <1>1, <1>8 DEF PreviewAction, DrainDone, CloseExecutor
  <1>9. ASSUME BuiltinHookRaises \/ EndRun \/ Interrupt PROVE Promise!Stop
    BY <1>2, <1>9 DEF BuiltinHookRaises, EndRun, Interrupt, FlowInv, Control, Live
  <1>10. ASSUME NEW exit \in {0, 1}, FinishAction(exit)
         PROVE  Promise!Stop \/ UNCHANGED Promise!vars
    BY <1>1, <1>2, <1>10 DEF FinishAction, FlowInv, Control, Live
  <1>11. ASSUME NEW exit \in {0, 1}, InterruptWhileRecording(exit) PROVE Promise!Stop
    BY <1>2, <1>11 DEF InterruptWhileRecording, FlowInv, Control, Live
  <1>12. CASE UNCHANGED vars
    BY <1>1, <1>12 DEF vars
  <1>13. ASSUME NEW h \in DOMAIN bus, CallHook(h) PROVE Promise!Next
    BY <1>3, <1>13 DEF Promise!Next
  <1>14. Promise!Stop => Promise!Next
    BY DEF Promise!Next
  <1> QED
    BY <1>4, <1>5, <1>6, <1>7, <1>8, <1>9, <1>10, <1>11, <1>12, <1>13, <1>14
       DEF Next, Step

\* The phase loop implements the pipeline: hooks are called in (phase,
\* priority, registration) order, and commands run as the block of the hook
\* called last, whatever is queued, rolled back, skipped or interrupted.
THEOREM KernelImplementsPipeline == Spec => ImplementsPipeline
  <1>1. FlowInv /\ [Next]_vars => [Promise!Next]_(Promise!vars)
    BY PromiseStep
  <1> QED BY <1>1, PromiseInit, FlowInvariant, PTL DEF Spec, ImplementsPipeline, Promise!Spec

=============================================================================
