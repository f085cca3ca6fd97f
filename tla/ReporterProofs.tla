---------------------------- MODULE ReporterProofs ----------------------------
(***************************************************************************)
(* What events.jsonl and actions.jsonl tell of a run, for any number of    *)
(* commands and remarks.                                                   *)
(*                                                                         *)
(* StoryInv says where events.jsonl is in what was emitted, Tally how far  *)
(* the process is with its last command, AuditInv what both files say of   *)
(* the commands.  A line may still be in the buffer of a file that was     *)
(* given up, and get out when it is closed: so they speak of Pages(w), the *)
(* lines of a file with those it may yet get.                              *)
(***************************************************************************)
EXTENDS Reporter, TLAPS

What   == { "none", "run started", "remark", "would", "started", "finished", "failed",
            "error", "stderr", "interrupted" }
Event  == [what : What, n : Nat]
States == {"new", "open", "no file", "torn", "broken", "closed"}
LogOf(S) == [state : States, lines : Seq(S), buffer : Seq(S)]

Pages(w) == w.lines \o w.buffer
Neat(w)  == w.state # "torn" => w.buffer = <<>>

\* The steps of a process that go through emit(), and where it returns to.
Returns ==
  { <<"start", "verb">>, <<"verb", "verb">>, <<"verb", "execute">>, <<"verb", "record">>,
    <<"finished", "verb">>, <<"finished", "failed">>, <<"failed", "unwind">>,
    <<"aside", "report">>, <<"report", "hints">>, <<"hints", "hints">>, <<"hints", "exit">>,
    <<"print", "exit">> }

Types ==
  /\ mode \in {"text", "json"} /\ dry_run \in BOOLEAN /\ stderr \in BOOLEAN
  /\ events \in LogOf(Event) /\ Neat(events)
  /\ actions \in LogOf(Nat) /\ Neat(actions)
  /\ n \in Nat /\ ran \in Nat
  /\ at \in 0..2 /\ event \in Event /\ emitted \in Seq(Event)

Control ==
  /\ at # 0 => <<pc, then>> \in Returns /\ (then = "record" => dry_run)
  /\ pc = "start" => n = 0
  /\ how = "traceback" => at = 0 /\ pc \in {"unwind", "exit", "done"}
  /\ actions.state = "closed" => pc \in {"aside", "report", "hints", "print", "exit", "done"}

\* The event that emit() is busy with.
Current == IF at = 0 THEN 0 ELSE 1

StoryInv ==
  /\ Len(Pages(events)) + Current <= Len(emitted)
  /\ \A i \in DOMAIN Pages(events) : Pages(events)[i] = emitted[i]
  /\ Intact(events) => Len(events.lines) + Current = Len(emitted)
  /\ at # 0 => emitted[Len(emitted)] = event

\* A command is begun and not yet executed.
Underway == pc = "execute" \/ (at # 0 /\ then = "execute")
Settled  == pc \in {"verb", "record", "finished", "failed"} /\ ~Underway

Tally ==
  ~dry_run =>
    /\ ran <= n
    /\ Underway => n = ran + 1
    /\ Settled  => ran = n
    /\ pc \in {"record", "finished"} => n > 0
    /\ at # 0 /\ then = "execute" => event = [what |-> "started", n |-> n]

\* What actions.jsonl says, or may yet say, and what was said of a command.
Noted == {Pages(actions)[i] : i \in DOMAIN Pages(actions)}
Told(what) == {emitted[i].n : i \in {j \in DOMAIN emitted : emitted[j].what = what}}

AuditInv ==
  ~dry_run =>
    /\ Noted \subseteq 1..ran
    /\ Told("started") \subseteq 1..n
    /\ Intact(actions) =>
         /\ 1..(n - 1) \subseteq Recorded
         /\ pc \in {"verb", "finished", "failed"} /\ ~Underway => 1..n \subseteq Recorded
         /\ Told("finished") \subseteq Recorded
    /\ Intact(events) =>
         /\ 1..ran \subseteq Named(events, "started")
         /\ pc = "execute" => n \in Named(events, "started")

-----------------------------------------------------------------------------
(* Log files *)

LEMMA NoMore ==
  ASSUME NEW S, NEW l \in Seq(S)
  PROVE  l \o <<>> = l /\ <<>> \in Seq(S)
OBVIOUS

LEMMA Longer ==
  ASSUME NEW S, NEW l \in Seq(S), NEW m \in Seq(S)
  PROVE  /\ l \o m \in Seq(S) /\ Len(l) <= Len(l \o m)
         /\ \A i \in DOMAIN l : i \in DOMAIN (l \o m) /\ (l \o m)[i] = l[i]
<1>1. l \o m \in Seq(S) /\ Len(l \o m) = Len(l) + Len(m) /\ Len(l) \in Nat /\ Len(m) \in Nat
  OBVIOUS
<1>2. DOMAIN l = 1..Len(l) /\ DOMAIN (l \o m) = 1..Len(l \o m)
  BY <1>1
<1>3. \A i \in 1..Len(l) : (l \o m)[i] = l[i]
  OBVIOUS
<1> QED BY <1>1, <1>2, <1>3

\* However a write ends, the pages have one line more.
LEMMA WrittenPages ==
  ASSUME NEW S, NEW w \in LogOf(S), NEW x \in S, Neat(w), Writable(w),
         NEW v, v \in Written(w, x) \/ v = Line(w, x)
  PROVE  /\ v \in LogOf(S) /\ Neat(v)
         /\ Pages(v) = Append(Pages(w), x)
         /\ v.state # "closed"
         /\ Intact(v) => Intact(w) /\ v.lines = Append(w.lines, x)
<1> DEFINE longer == Append(w.lines, x)
<1>1. w.buffer = <<>> /\ Intact(w) /\ w.lines \in Seq(S)
  BY DEF Neat, Writable, Intact, GivenUp, LogOf
<1>2. longer \in Seq(S) /\ <<>> \in Seq(S) /\ <<x>> \in Seq(S)
      /\ w.lines \o <<x>> = longer
  BY <1>1
<1>3. Pages(w) = w.lines /\ longer \o <<>> = longer
  BY <1>1, <1>2, NoMore DEF Pages
<1> HIDE DEF longer
<1>4. CASE v = Log("open", longer, <<>>) \/ v = Log("broken", longer, <<>>)
  <2>1. PICK s \in {"open", "broken"} : v = Log(s, longer, <<>>)
    BY <1>4
  <2>2. /\ v \in LogOf(S) /\ v.lines = longer /\ v.buffer = <<>>
        /\ v.state \in {"open", "broken"}
    <3>1. s \in States
      BY DEF States
    <3> QED BY <1>2, <2>1, <3>1 DEF Log, LogOf
  <2>3. Pages(v) = longer
    BY <1>3, <2>2 DEF Pages
  <2> QED BY <1>1, <1>3, <2>2, <2>3 DEF longer, Neat
<1>5. CASE v = Log("torn", w.lines, <<x>>)
  <2>1. v \in LogOf(S) /\ v.state = "torn" /\ v.lines = w.lines /\ v.buffer = <<x>>
    BY <1>1, <1>2, <1>5 DEF States, Log, LogOf
  <2>2. Pages(v) = longer
    BY <1>2, <2>1 DEF Pages
  <2> QED BY <1>3, <2>1, <2>2 DEF longer, Neat, Intact, GivenUp
<1> QED BY <1>4, <1>5 DEF Written, Line, longer

\* Closing a file changes none of its pages.
LEMMA ClosedPages ==
  ASSUME NEW S, NEW w \in LogOf(S), Neat(w), NEW v \in Closed(w)
  PROVE  /\ v \in LogOf(S) /\ Neat(v)
         /\ Pages(v) = Pages(w)
         /\ Intact(v) => Intact(w) /\ v.lines = w.lines
<1>1. w.lines \in Seq(S) /\ w.buffer \in Seq(S) /\ w.lines \o w.buffer \in Seq(S)
      /\ <<>> \in Seq(S)
  BY DEF LogOf
<1>2. CASE w.state = "open" /\ v = Log("closed", w.lines, <<>>)
  <2>1. v \in LogOf(S) /\ v.state = "closed" /\ v.lines = w.lines /\ v.buffer = <<>>
    BY <1>1, <1>2 DEF States, Log, LogOf
  <2>2. w.buffer = <<>> /\ Intact(w)
    BY <1>2 DEF Neat, Intact, GivenUp
  <2> QED BY <2>1, <2>2 DEF Neat, Pages
<1>3. CASE w.state = "torn" /\ v = Log("broken", w.lines \o w.buffer, <<>>)
  <2>1. v \in LogOf(S) /\ v.state = "broken" /\ v.lines = w.lines \o w.buffer /\ v.buffer = <<>>
    BY <1>1, <1>3 DEF States, Log, LogOf
  <2>2. Pages(v) = w.lines \o w.buffer
    BY <1>1, <2>1, NoMore DEF Pages
  <2> QED BY <2>1, <2>2 DEF Neat, Pages, Intact, GivenUp
<1>4. CASE v = w
  BY <1>4
<1> QED BY <1>2, <1>3, <1>4 DEF Closed

\* The lines of a file are its first pages.
LEMMA LinesArePages ==
  ASSUME NEW S, NEW w \in LogOf(S)
  PROVE  /\ Pages(w) \in Seq(S) /\ Len(w.lines) <= Len(Pages(w))
         /\ \A i \in DOMAIN w.lines : i \in DOMAIN Pages(w) /\ Pages(w)[i] = w.lines[i]
         /\ Neat(w) /\ Intact(w) => Pages(w) = w.lines
<1>1. w.lines \in Seq(S) /\ w.buffer \in Seq(S)
  BY DEF LogOf
<1>2. Neat(w) /\ Intact(w) => w.buffer = <<>>
  BY DEF Neat, Intact, GivenUp
<1>3. w.buffer = <<>> => Pages(w) = w.lines
  BY <1>1, NoMore DEF Pages
<1> QED BY <1>1, <1>2, <1>3, Longer DEF Pages

-----------------------------------------------------------------------------
(* Types and control *)

LEMMA Starts == Init => Types /\ Control /\ StoryInv
<1> SUFFICES ASSUME Init PROVE Types /\ Control /\ StoryInv
  OBVIOUS
<1>1. /\ NewLog \in LogOf(Event) /\ NewLog \in LogOf(Nat) /\ Neat(NewLog)
      /\ NewLog.state = "new" /\ NewLog.lines = <<>> /\ Pages(NewLog) = <<>>
  BY DEF NewLog, Log, LogOf, States, Neat, Pages
<1>2. Of("none") \in Event
  BY DEF Of, Event, What
<1>3. Types
  BY <1>1, <1>2 DEF Init, Types
<1>4. Control
  BY <1>1 DEF Init, Control
<1>5. StoryInv
  BY <1>1 DEF Init, StoryInv, Current
<1> QED BY <1>3, <1>4, <1>5

\* What emit() does to its own variables, and what it leaves as it is.
LEMMA EmitTypes ==
  ASSUME Types, NEW e \in Event, NEW next, Emit(e, next)
  PROVE  at' = 1 /\ event' \in Event /\ emitted' \in Seq(Event)
BY DEF Types, Emit

LEMMA FileTypes ==
  ASSUME Types
  PROVE  /\ \A v \in Written(events, event) : Writable(events) => v \in LogOf(Event) /\ Neat(v)
         /\ Writable(events) => Line(events, event) \in LogOf(Event) /\ Neat(Line(events, event))
         /\ \A v \in Closed(events) : v \in LogOf(Event) /\ Neat(v)
         /\ \A v \in Written(actions, n) :
              Writable(actions) => v \in LogOf(Nat) /\ Neat(v) /\ v.state # "closed"
         /\ Writable(actions) =>
              /\ Line(actions, n) \in LogOf(Nat) /\ Neat(Line(actions, n))
              /\ Line(actions, n).state # "closed"
         /\ \A v \in Closed(actions) : v \in LogOf(Nat) /\ Neat(v)
         /\ NoFile \in LogOf(Event) /\ NoFile \in LogOf(Nat) /\ Neat(NoFile)
         /\ NoFile.state = "no file"
<1>1. /\ events \in LogOf(Event) /\ Neat(events) /\ event \in Event
      /\ actions \in LogOf(Nat) /\ Neat(actions) /\ n \in Nat
  BY DEF Types
<1>2. /\ NoFile \in LogOf(Event) /\ NoFile \in LogOf(Nat) /\ Neat(NoFile)
      /\ NoFile.state = "no file"
  BY DEF NoFile, Log, LogOf, States, Neat
<1>3. \A v \in Closed(events) : v \in LogOf(Event) /\ Neat(v)
  BY <1>1, ClosedPages
<1>4. \A v \in Closed(actions) : v \in LogOf(Nat) /\ Neat(v)
  BY <1>1, ClosedPages
<1>5. \A v : Writable(events) /\ (v \in Written(events, event) \/ v = Line(events, event))
              => v \in LogOf(Event) /\ Neat(v)
  BY <1>1, WrittenPages
<1>6. \A v : Writable(actions) /\ (v \in Written(actions, n) \/ v = Line(actions, n))
              => v \in LogOf(Nat) /\ Neat(v) /\ v.state # "closed"
  BY <1>1, WrittenPages
<1> QED BY <1>2, <1>3, <1>4, <1>5, <1>6

LEMMA TypesKept == Types /\ [Next]_vars => Types'
<1> SUFFICES ASSUME Types, [Next]_vars PROVE Types'
  OBVIOUS
<1> USE DEF setup, files, emitVars
<1>e. \A what \in What : Of(what) \in Event /\ About(what) \in Event
      /\ [what |-> what, n |-> n + 1] \in Event
  BY DEF Types, Of, About, Event
<1>n. Of("none") \in Event
  BY DEF Of, Event, What
<1>l. Leave => at' \in 0..2 /\ event' \in Event
  BY <1>n DEF Leave
<1>1. CASE UNCHANGED vars
  BY <1>1 DEF Types, vars
<1>c. CutShort /\ at # 0 => emitted' \in Seq(Event)
  BY DEF CutShort, Types
<1>2. CASE Show \/ ShowFails \/ FileSkips
  BY <1>2, <1>c, <1>l DEF Show, ShowFails, FileSkips, NextSink, Raise, Return, Types
<1>3. CASE FileTakes
  BY <1>3, <1>l, FileTypes DEF FileTakes, Return, Types
<1>4. CASE FileCannotOpen
  <2>1. emitted' \in Seq(Event) /\ at' \in 0..2 /\ event' \in Event
    BY <1>4, <1>c, <1>l DEF FileCannotOpen, Return, Raise, Types
  <2>2. events' \in LogOf(Event) /\ Neat(events)'
    BY <1>4, FileTypes DEF FileCannotOpen, Types, Neat
  <2>3. UNCHANGED <<setup, stderr, actions, n, ran>>
    BY <1>4 DEF FileCannotOpen
  <2> QED BY <2>1, <2>2, <2>3 DEF Types, Neat
<1>5. CASE Start \/ Remark \/ Finish \/ Fail \/ Report \/ Aside \/ Hint \/ PrintInterrupted
  <2>1. at' = 1 /\ event' \in Event /\ emitted' \in Seq(Event)
    BY <1>5, <1>e, EmitTypes DEF Start, Remark, Finish, Fail, Report, Aside, Hint,
       PrintInterrupted, What
  <2>2. UNCHANGED <<setup, stderr, files, n, ran>>
    BY <1>5 DEF Start, Remark, Finish, Fail, Report, Aside, Hint, PrintInterrupted
  <2> QED BY <2>1, <2>2 DEF Types, Neat
<1>6. CASE Begin
  <2>1. at' = 1 /\ event' \in Event /\ emitted' \in Seq(Event)
    <3>1. /\ [what |-> "would", n |-> n + 1] \in Event
          /\ [what |-> "started", n |-> n + 1] \in Event
      <4>1. n + 1 \in Nat /\ "would" \in What /\ "started" \in What
        BY DEF Types, What
      <4> QED BY <4>1 DEF Event
    <3> QED BY <1>6, <3>1, EmitTypes DEF Begin
  <2>2. UNCHANGED <<setup, stderr, files, ran>> /\ n' = n + 1
    BY <1>6 DEF Begin
  <2> QED BY <2>1, <2>2 DEF Types, Neat
<1>7. CASE ReportStderr
  <2>0. Of("stderr") \in Event
    BY <1>e DEF What
  <2>1. at' \in 0..2 /\ event' \in Event /\ emitted' \in Seq(Event)
    <3>1. CASE Emit(Of("stderr"), "exit")
      BY <2>0, <3>1, EmitTypes
    <3>2. CASE UNCHANGED emitVars
      BY <3>2 DEF Types
    <3> QED BY <1>7, <3>1, <3>2 DEF ReportStderr
  <2>2. UNCHANGED <<setup, stderr, files, n, ran>>
    BY <1>7 DEF ReportStderr
  <2> QED BY <2>1, <2>2 DEF Types, Neat
<1>8. CASE Execute \/ PlainFails \/ VerbEnds \/ PrintFails \/ StderrDies
  BY <1>8 DEF Execute, PlainFails, VerbEnds, PrintFails, StderrDies, Types
<1>9. CASE Record \/ RecordCannotOpen
  <2>1. actions' \in LogOf(Nat) /\ Neat(actions)'
    BY <1>9, FileTypes DEF Record, RecordCannotOpen, Types, Neat
  <2> QED BY <1>9, <2>1 DEF Record, RecordCannotOpen, Types, Neat
<1>10. CASE Unwind \/ Exit
  BY <1>10, FileTypes DEF Unwind, Exit, Types, Neat
<1>11. CASE Interrupt
  <2>1. emitted' \in Seq(Event)
    BY <1>11, <1>c DEF Interrupt, Types
  <2>2. events' \in LogOf(Event) /\ Neat(events)'
    BY <1>11, FileTypes DEF Interrupt, Types, Neat
  <2>3. actions' \in LogOf(Nat) /\ Neat(actions)'
    BY <1>11, FileTypes DEF Interrupt, Types, Neat
  <2> QED BY <1>11, <1>l, <2>1, <2>2, <2>3 DEF Interrupt, Types
<1> QED
  BY <1>1, <1>2, <1>3, <1>4, <1>5, <1>6, <1>7, <1>8, <1>9, <1>10, <1>11
  DEF Next, Sinks, Executor, Main

LEMMA ControlKept == Types /\ Control /\ [Next]_vars => Control'
<1> SUFFICES ASSUME Types, Control, [Next]_vars PROVE Control'
  OBVIOUS
<1> USE DEF setup, files, emitVars, Idle
<1>1. CASE UNCHANGED vars
  BY <1>1 DEF Control, vars
<1>2. CASE Show \/ ShowFails \/ FileTakes \/ FileSkips \/ FileCannotOpen
  <2>1. CASE NextSink /\ UNCHANGED <<n, actions, dry_run>>
    BY <1>2, <2>1 DEF Show, ShowFails, FileTakes, FileSkips, FileCannotOpen, NextSink, Control
  <2>2. CASE Raise /\ UNCHANGED <<n, actions>> /\ at # 0
    BY <2>2 DEF Raise, Leave, Control, Returns, InVerb
  <2>3. CASE Return /\ UNCHANGED <<n, actions>> /\ at # 0
    BY <2>3 DEF Return, Leave, Control, Returns
  <2> QED BY <1>2, <2>1, <2>2, <2>3 DEF Show, ShowFails, FileTakes, FileSkips, FileCannotOpen
<1>3. CASE Start \/ Remark \/ Finish \/ Report \/ Aside \/ Hint \/ PrintInterrupted
  BY <1>3 DEF Start, Remark, Finish, Report, Aside, Hint, PrintInterrupted, Emit, Returns, Control
<1>4. CASE Fail
  BY <1>4 DEF Fail, Emit, Returns, Control
<1>5. CASE Begin
  BY <1>5 DEF Begin, Emit, Returns, Control, Types
<1>6. CASE ReportStderr \/ Execute \/ PlainFails \/ VerbEnds \/ PrintFails \/ StderrDies
  BY <1>6 DEF ReportStderr, Aside, Hint, Execute, PlainFails, VerbEnds, PrintFails, StderrDies,
     Emit, Returns, Control
<1>7. CASE Record \/ RecordCannotOpen
  BY <1>7, FileTypes DEF Record, RecordCannotOpen, AfterRecord, Control
<1>8. CASE Unwind \/ Exit
  BY <1>8 DEF Unwind, Exit, Control
<1>9. CASE Interrupt
  BY <1>9, FileTypes DEF Interrupt, Leave, InVerb, Control
<1> QED
  BY <1>1, <1>2, <1>3, <1>4, <1>5, <1>6, <1>7, <1>8, <1>9
  DEF Next, Sinks, Executor, Main

-----------------------------------------------------------------------------
(* Where events.jsonl is in the story *)

LEMMA StoryEmit ==
  ASSUME Types, StoryInv, NEW e \in Event, NEW next, Emit(e, next), at = 0,
         UNCHANGED events
  PROVE  StoryInv'
<1>1. /\ emitted \in Seq(Event) /\ emitted' = Append(emitted, e)
      /\ Len(emitted') = Len(emitted) + 1 /\ Len(emitted) \in Nat
      /\ emitted'[Len(emitted')] = e
      /\ \A i \in 1..Len(emitted) : emitted'[i] = emitted[i]
  BY DEF Types, Emit
<1>2. Current = 0 /\ Current' = 1 /\ event' = e
  BY DEF Current, Emit
<1>3. Pages(events) \in Seq(Event) /\ Pages(events)' = Pages(events)
  BY LinesArePages DEF Types, Pages
<1>4. DOMAIN Pages(events) = 1..Len(Pages(events)) /\ Len(Pages(events)) \in Nat
  BY <1>3
<1>5. Len(Pages(events)) + 1 <= Len(emitted')
  BY <1>1, <1>2, <1>4 DEF StoryInv
<1>6. \A i \in DOMAIN Pages(events) : Pages(events)[i] = emitted'[i]
  BY <1>1, <1>2, <1>4 DEF StoryInv
<1>7. Intact(events) => Len(events.lines) + 1 = Len(emitted')
  BY <1>1, <1>2 DEF StoryInv
<1>8. Intact(events)' = Intact(events)
  BY DEF Intact, GivenUp
<1> QED BY <1>1, <1>2, <1>3, <1>5, <1>6, <1>7, <1>8 DEF StoryInv

\* A step that takes the event off emit() and writes none, or none of which
\* there is.
LEMMA StoryQuiet ==
  ASSUME Types, StoryInv, UNCHANGED emitted,
         \/ UNCHANGED <<events, event>> /\ (at = 0 <=> at' = 0)
         \/ UNCHANGED events /\ at = 0 /\ at' = 0
         \/ UNCHANGED events /\ at' = 0 /\ GivenUp(events)
         \/ events' = NoFile /\ at' = 0
  PROVE  StoryInv'
<1>1. Pages(events) \in Seq(Event) /\ emitted \in Seq(Event)
      /\ Len(Pages(events)) \in Nat /\ Len(emitted) \in Nat
  BY LinesArePages DEF Types
<1>2. Current' <= Current /\ Current \in 0..1 /\ Current' \in 0..1 /\ (at' = 0 => Current' = 0)
  BY DEF Current
<1>3. CASE \/ UNCHANGED <<events, event>> /\ (at = 0 <=> at' = 0)
           \/ UNCHANGED events /\ at = 0 /\ at' = 0
  <2>1. Current' = Current /\ Pages(events)' = Pages(events) /\ Intact(events)' = Intact(events)
    BY <1>3 DEF Current, Pages, Intact, GivenUp
  <2> QED BY <1>3, <2>1 DEF StoryInv
<1>4. CASE UNCHANGED events /\ at' = 0 /\ GivenUp(events)
  <2>1. Pages(events)' = Pages(events) /\ ~Intact(events)'
    BY <1>4 DEF Pages, Intact, GivenUp
  <2> QED BY <1>1, <1>2, <1>4, <2>1 DEF StoryInv
<1>5. CASE events' = NoFile /\ at' = 0
  <2>0. NoFile.state = "no file" /\ NoFile.lines = <<>> /\ NoFile.buffer = <<>>
    BY DEF NoFile, Log
  <2>1. /\ Pages(events)' = <<>> \o <<>>
        /\ ~Intact(events)'
    BY <1>5, <2>0 DEF Pages, Intact, GivenUp
  <2>2. <<>> \o <<>> = <<>>
    OBVIOUS
  <2> QED BY <1>1, <1>2, <1>5, <2>1, <2>2 DEF StoryInv
<1> QED BY <1>3, <1>4, <1>5

\* The sink writes what emit() is busy with.
LEMMA StoryWritten ==
  ASSUME Types, Control, StoryInv, at # 0, at' = 0, Writable(events), UNCHANGED emitted,
         events' \in Written(events, event) \/ events' = Line(events, event)
  PROVE  StoryInv'
<1> DEFINE old == Pages(events)
           new == Pages(events')
<1>1. /\ events \in LogOf(Event) /\ Neat(events) /\ event \in Event
      /\ events' \in LogOf(Event) /\ Neat(events')
      /\ new = Append(old, event)
      /\ Intact(events') => Intact(events) /\ events'.lines = Append(events.lines, event)
  BY WrittenPages DEF Types
<1>2. old \in Seq(Event) /\ Intact(events) /\ old = events.lines
  BY <1>1, LinesArePages DEF Writable, Intact, GivenUp
<1> HIDE DEF old
<1>3. /\ DOMAIN new = 1..Len(new) /\ Len(new) = Len(old) + 1 /\ Len(old) \in Nat
      /\ DOMAIN old = 1..Len(old)
      /\ \A i \in 1..Len(old) : new[i] = old[i]
      /\ new[Len(old) + 1] = event
  BY <1>1, <1>2
<1>4. Len(old) + 1 = Len(emitted) /\ emitted[Len(emitted)] = event
  BY <1>2 DEF StoryInv, Current, Control
<1>5. \A i \in DOMAIN old : old[i] = emitted[i]
  BY DEF StoryInv, old
<1>6. \A i \in DOMAIN new : new[i] = emitted[i]
  BY <1>3, <1>4, <1>5
<1>7. Intact(events') => Len(events'.lines) = Len(emitted)
  BY <1>1, <1>2, <1>3, <1>4
<1>8. Pages(events)' = new /\ Intact(events)' = Intact(events')
  BY DEF Pages, Intact, GivenUp
<1> HIDE DEF new
<1> QED BY <1>3, <1>4, <1>6, <1>7, <1>8 DEF StoryInv, Current

\* An event that is cut short has not been written.
LEMMA StoryCut ==
  ASSUME Types, StoryInv, at # 0, at' = 0, UNCHANGED events, CutShort
  PROVE  StoryInv'
<1>1. /\ Current = 1 /\ Current' = 0 /\ at' = 0
      /\ Pages(events)' = Pages(events) /\ Intact(events)' = Intact(events)
  BY DEF Current, Pages, Intact, GivenUp
<1>2. /\ Pages(events) \in Seq(Event) /\ Len(Pages(events)) \in Nat
      /\ DOMAIN Pages(events) = 1..Len(Pages(events))
      /\ emitted \in Seq(Event) /\ Len(emitted) \in Nat
  BY LinesArePages DEF Types
<1>3. Len(Pages(events)) + 1 <= Len(emitted)
  BY <1>1 DEF StoryInv
<1>4. /\ Len(emitted') = Len(emitted) - 1
      /\ \A i \in 1..Len(emitted) - 1 : emitted'[i] = emitted[i]
  <2> DEFINE k == Len(emitted) - 1
  <2>1. k \in Nat /\ k <= Len(emitted)
    BY <1>2, <1>3
  <2>2. emitted' = SubSeq(emitted, 1, k)
    BY DEF CutShort
  <2> HIDE DEF k
  <2>3. Len(SubSeq(emitted, 1, k)) = k
    BY <1>2, <2>1
  <2>4. \A i \in 1..k : SubSeq(emitted, 1, k)[i] = emitted[i]
    BY <1>2, <2>1
  <2>5. Len(emitted') = k /\ \A i \in 1..k : emitted'[i] = emitted[i]
    BY <2>2, <2>3, <2>4
  <2> QED BY <2>5 DEF k
<1>5. \A i \in DOMAIN Pages(events) : Pages(events)[i] = emitted'[i]
  BY <1>2, <1>3, <1>4 DEF StoryInv
<1>6. Intact(events) => Len(events.lines) = Len(emitted')
  <2>1. Intact(events) => Len(events.lines) + 1 = Len(emitted)
    BY <1>1 DEF StoryInv
  <2>2. Len(events.lines) \in Nat
    BY DEF Types, LogOf
  <2> QED BY <1>2, <1>4, <2>1, <2>2
<1> QED BY <1>1, <1>2, <1>3, <1>4, <1>5, <1>6 DEF StoryInv

LEMMA StoryKept == Types /\ Control /\ StoryInv /\ [Next]_vars => StoryInv'
<1> SUFFICES ASSUME Types, Control, StoryInv, [Next]_vars PROVE StoryInv'
  OBVIOUS
<1> USE DEF setup, files, emitVars, Idle
<1>e. \A what \in What : Of(what) \in Event /\ About(what) \in Event
      /\ [what |-> what, n |-> n + 1] \in Event
  BY DEF Types, Of, About, Event
<1>1. CASE UNCHANGED <<events, event, emitted, at>>
  BY <1>1, StoryQuiet
<1>2. CASE Show \/ ShowFails \/ FileSkips \/ FileCannotOpen
  <2>1. CASE NextSink /\ at = 1 /\ UNCHANGED events
    BY <2>1, StoryQuiet DEF NextSink
  <2>2. CASE Raise /\ at # 0 /\ UNCHANGED events
    BY <2>2, StoryCut DEF Raise, Leave
  <2>3. CASE Return /\ at # 0 /\ UNCHANGED events /\ GivenUp(events)
    BY <2>3, StoryQuiet DEF Return, Leave
  <2>4. CASE Return /\ events' = NoFile
    BY <2>4, StoryQuiet DEF Return, Leave
  <2> QED BY <1>2, <2>1, <2>2, <2>3, <2>4 DEF Show, ShowFails, FileSkips, FileCannotOpen
<1>3. CASE FileTakes
  BY <1>3, StoryWritten DEF FileTakes, Return, Leave
<1>4. CASE \E e \in Event, next \in {"verb", "execute", "record", "failed", "unwind",
                                     "report", "hints", "exit"} :
             Emit(e, next) /\ at = 0 /\ UNCHANGED events
  BY <1>4, StoryEmit
<1>5. CASE Exit
  <2>1. /\ Pages(events') = Pages(events)
        /\ Intact(events') => Intact(events) /\ events'.lines = events.lines
    BY <1>5, ClosedPages DEF Exit, Types
  <2>2. /\ Pages(events)' = Pages(events') /\ Intact(events)' = Intact(events')
        /\ Current' = Current /\ UNCHANGED <<at, event, emitted, how>>
    BY <1>5 DEF Exit, Pages, Intact, GivenUp, Current
  <2> QED BY <2>1, <2>2 DEF StoryInv
<1>6. CASE Interrupt
  <2>1. CASE at = 0 /\ UNCHANGED <<events, emitted>>
    BY <1>6, <2>1, StoryQuiet DEF Interrupt, Leave
  <2>2. CASE at # 0 /\ UNCHANGED events /\ CutShort
    BY <1>6, <2>2, StoryCut DEF Interrupt, Leave
  <2>3. CASE at = 2 /\ Writable(events) /\ UNCHANGED emitted /\ events' = Line(events, event)
    BY <1>6, <2>3, StoryWritten DEF Interrupt, Leave
  <2> QED BY <1>6, <2>1, <2>2, <2>3 DEF Interrupt
<1>7. CASE Start \/ Remark \/ Finish \/ Fail \/ Report \/ Aside \/ Hint \/ PrintInterrupted
  BY <1>4, <1>7, <1>e DEF Start, Remark, Finish, Fail, Report, Aside, Hint, PrintInterrupted, What
<1>8. CASE Begin
  <2>1. /\ [what |-> "would", n |-> n + 1] \in Event
        /\ [what |-> "started", n |-> n + 1] \in Event
    BY <1>e DEF What
  <2> QED BY <1>4, <1>8, <2>1 DEF Begin
<1>9. CASE ReportStderr
  <2>1. Of("stderr") \in Event
    BY <1>e DEF What
  <2> QED BY <1>1, <1>4, <1>9, <2>1 DEF ReportStderr
<1> QED
  BY <1>1, <1>2, <1>3, <1>5, <1>6, <1>7, <1>8, <1>9
  DEF Next, Sinks, Executor, Main, vars, PlainFails, VerbEnds, Execute, Record,
      RecordCannotOpen, Unwind, PrintFails, StderrDies

-----------------------------------------------------------------------------
(* What the files say of the commands *)

LEMMA SetupKept == [Next]_vars => UNCHANGED dry_run
BY DEF Next, Sinks, Executor, Main, vars, setup, Show, ShowFails, FileTakes, FileSkips,
   FileCannotOpen, Start, Remark, PlainFails, VerbEnds, Begin, Execute, Record,
   RecordCannotOpen, Finish, Fail, Unwind, Report, ReportStderr, Aside, Hint, PrintInterrupted,
   PrintFails, Exit, Interrupt, StderrDies

LEMMA TallyKept == Types /\ Control /\ Tally /\ [Next]_vars => Tally'
<1> SUFFICES ASSUME Types, Control, Tally, [Next]_vars, ~dry_run PROVE Tally'
  BY SetupKept DEF Tally
<1> USE DEF setup, files, emitVars, Idle
<1>n. n \in Nat /\ ran \in Nat
  BY DEF Types
<1>1. CASE UNCHANGED vars
  BY <1>1 DEF Tally, Underway, Settled, vars
<1>2. CASE Sinks
  <2>1. CASE NextSink /\ at = 1 /\ UNCHANGED <<n, ran, dry_run>>
    BY <2>1 DEF NextSink, Tally, Underway, Settled
  <2>2. CASE Raise /\ at # 0 /\ UNCHANGED <<n, ran, dry_run>>
    BY <2>2 DEF Raise, Leave, InVerb, Tally, Underway, Settled
  <2>3. CASE Return /\ at # 0 /\ UNCHANGED <<n, ran, dry_run>>
    <3>1. at' = 0 /\ pc' = then
      BY <2>3 DEF Return, Leave
    <3>2. then = "execute" => Underway
      BY <2>3 DEF Underway
    <3>3. then \in {"verb", "failed"} /\ pc # "start" => Settled
      BY <2>3 DEF Settled, Underway, Control, Returns
    <3>4. pc = "start" => n = 0 /\ ran = 0
      BY <1>n DEF Control, Tally
    <3>5. then # "record" /\ then # "finished"
      BY <2>3 DEF Control, Returns
    <3> QED BY <1>n, <2>3, <3>1, <3>2, <3>3, <3>4, <3>5 DEF Tally, Underway, Settled
  <2> QED
    BY <1>2, <2>1, <2>2, <2>3
    DEF Sinks, Show, ShowFails, FileTakes, FileSkips, FileCannotOpen
<1>3. CASE \/ Start \/ Remark \/ Finish \/ Fail \/ Report \/ PrintInterrupted
           \/ ReportStderr \/ Aside \/ Hint
  BY <1>3 DEF Start, Remark, Finish, Fail, Report, PrintInterrupted, ReportStderr, Aside, Hint,
     Emit, Tally, Underway, Settled
<1>4. CASE Begin
  <2>1. /\ n' = n + 1 /\ ran' = ran /\ pc = "verb" /\ pc' = "verb" /\ at = 0
        /\ at' = 1 /\ then' = "execute" /\ event' = [what |-> "started", n |-> n + 1]
    BY <1>4 DEF Begin, Emit
  <2>2. ran = n
    BY <2>1 DEF Tally, Settled, Underway
  <2>3. Underway' /\ ~Settled'
    BY <2>1 DEF Settled, Underway
  <2> QED BY <1>n, <2>1, <2>2, <2>3 DEF Tally
<1>5. CASE Execute \/ Record \/ RecordCannotOpen
  BY <1>n, <1>5 DEF Execute, Record, RecordCannotOpen, AfterRecord, Tally, Underway, Settled
<1>6. CASE PlainFails \/ VerbEnds \/ PrintFails \/ Unwind \/ Exit \/ StderrDies
  BY <1>6 DEF PlainFails, VerbEnds, PrintFails, Unwind, Exit, StderrDies, Tally, Underway,
     Settled
<1>7. CASE Interrupt
  BY <1>n, <1>7 DEF Interrupt, Leave, InVerb, Tally, Underway, Settled
<1> QED
  BY <1>1, <1>2, <1>3, <1>4, <1>5, <1>6, <1>7 DEF Next, Executor, Main

\* What an event adds to what was said.
LEMMA ToldEmit ==
  ASSUME Types, NEW e \in Event, NEW next, Emit(e, next), NEW what
  PROVE  /\ Told(what)' \subseteq Told(what) \cup {e.n}
         /\ e.what # what => Told(what)' \subseteq Told(what)
<1>1. /\ DOMAIN emitted = 1..Len(emitted) /\ Len(emitted) \in Nat
      /\ emitted' = Append(emitted, e)
      /\ DOMAIN emitted' = 1..(Len(emitted) + 1)
      /\ emitted'[Len(emitted) + 1] = e
      /\ \A i \in 1..Len(emitted) : emitted'[i] = emitted[i]
  BY DEF Types, Emit
<1>2. ASSUME NEW i \in DOMAIN emitted', emitted'[i].what = what
      PROVE  \/ emitted'[i].n \in Told(what)
             \/ e.what = what /\ emitted'[i].n = e.n
  BY <1>1, <1>2 DEF Told
<1> QED BY <1>2 DEF Told

\* No other step adds anything.
LEMMA ToldKept ==
  ASSUME Types, StoryInv, NEW what,
         \/ UNCHANGED emitted
         \/ at # 0 /\ CutShort
  PROVE  Told(what)' \subseteq Told(what)
<1>1. CASE UNCHANGED emitted
  BY <1>1 DEF Told
<1>2. CASE at # 0 /\ CutShort
  <2> DEFINE k == Len(emitted) - 1
  <2>1. /\ emitted \in Seq(Event) /\ Len(emitted) \in Nat
        /\ Pages(events) \in Seq(Event) /\ Len(Pages(events)) \in Nat
    BY LinesArePages DEF Types
  <2>2. k \in Nat /\ k <= Len(emitted) /\ emitted' = SubSeq(emitted, 1, k)
    <3>1. Len(emitted) >= 1
      BY <1>2, <2>1 DEF StoryInv, Current
    <3> QED BY <1>2, <2>1, <3>1 DEF CutShort
  <2> HIDE DEF k
  <2>3. SubSeq(emitted, 1, k) \in Seq(Event) /\ Len(SubSeq(emitted, 1, k)) = k
    BY <2>1, <2>2
  <2>4. \A i \in 1..k : SubSeq(emitted, 1, k)[i] = emitted[i]
    BY <2>1, <2>2
  <2>5. DOMAIN emitted' = 1..k /\ DOMAIN emitted = 1..Len(emitted)
    BY <2>1, <2>2, <2>3
  <2>6. \A i \in DOMAIN emitted' : i \in DOMAIN emitted /\ emitted'[i] = emitted[i]
    <3>1. \A i \in 1..k : i \in 1..Len(emitted)
      BY <2>1, <2>2
    <3> QED BY <2>2, <2>4, <2>5, <3>1
  <2> QED BY <2>6 DEF Told
<1> QED BY <1>1, <1>2

\* events.jsonl, as long as it is not given up, only grows.
LEMMA EventsGrow ==
  ASSUME Types, [Next]_vars, Intact(events)', NEW what
  PROVE  /\ Intact(events)
         /\ Named(events, what) \subseteq Named(events, what)'
<1> USE DEF setup, files, emitVars
<1>1. CASE UNCHANGED events
  BY <1>1 DEF Intact, GivenUp, Named
<1>2. CASE /\ Writable(events)
           /\ events' \in Written(events, event) \/ events' = Line(events, event)
  <2>1. /\ events \in LogOf(Event) /\ Neat(events) /\ event \in Event
    BY DEF Types
  <2>2. Intact(events') => Intact(events) /\ events'.lines = Append(events.lines, event)
    BY <1>2, <2>1, WrittenPages
  <2>3. Intact(events) /\ events'.lines = Append(events.lines, event)
    BY <2>2 DEF Intact, GivenUp
  <2>4. \A i \in DOMAIN events.lines :
          i \in DOMAIN events'.lines /\ events'.lines[i] = events.lines[i]
    <3>1. events.lines \in Seq(Event)
      BY <2>1 DEF LogOf
    <3> QED BY <2>1, <2>3, <3>1
  <2> QED BY <2>3, <2>4 DEF Named
<1>3. CASE events' = NoFile
  BY <1>3 DEF NoFile, Log, Intact, GivenUp
<1>4. CASE events' \in Closed(events)
  <2>1. Intact(events') => Intact(events) /\ events'.lines = events.lines
    BY <1>4, ClosedPages DEF Types
  <2>2. Intact(events) /\ events'.lines = events.lines
    BY <2>1 DEF Intact, GivenUp
  <2> QED BY <2>2 DEF Named
<1> QED
  BY <1>1, <1>2, <1>3, <1>4 DEF Next, Sinks, Executor, Main, vars, Show, ShowFails, FileTakes,
     FileSkips, FileCannotOpen, Start, Remark, PlainFails, VerbEnds, Begin, Execute, Record,
     RecordCannotOpen, Finish, Fail, Unwind, Report, ReportStderr, Aside, Hint,
     PrintInterrupted, PrintFails, Exit, Interrupt, StderrDies

\* So does actions.jsonl, by the command that is being recorded.
LEMMA ActionsGrow ==
  ASSUME Types, [Next]_vars
  PROVE  /\ Noted' \subseteq Noted \cup {n}
         /\ pc # "record" \/ at # 0 => Noted' \subseteq Noted
         /\ Intact(actions)' => Intact(actions) /\ Recorded \subseteq Recorded'
<1> USE DEF setup, files, emitVars, Idle
<1>0. actions \in LogOf(Nat) /\ Neat(actions) /\ n \in Nat
  BY DEF Types
<1>1. CASE UNCHANGED actions
  BY <1>1 DEF Intact, GivenUp, Recorded, Noted, Pages
<1>2. CASE /\ Idle("record") /\ Writable(actions)
           /\ actions' \in Written(actions, n) \/ actions' = Line(actions, n)
  <2>1. /\ Pages(actions') = Append(Pages(actions), n)
        /\ Intact(actions') => Intact(actions) /\ actions'.lines = Append(actions.lines, n)
    BY <1>0, <1>2, WrittenPages
  <2>2. Pages(actions) \in Seq(Nat) /\ actions.lines \in Seq(Nat)
    BY <1>0, LinesArePages DEF LogOf
  <2>3. \A i \in DOMAIN Append(Pages(actions), n) :
          \/ i \in DOMAIN Pages(actions) /\ Append(Pages(actions), n)[i] = Pages(actions)[i]
          \/ Append(Pages(actions), n)[i] = n
    BY <1>0, <2>2
  <2>4. Noted' \subseteq Noted \cup {n}
    BY <2>1, <2>3 DEF Noted, Pages
  <2>5. \A i \in DOMAIN actions.lines : /\ i \in DOMAIN Append(actions.lines, n)
                                        /\ Append(actions.lines, n)[i] = actions.lines[i]
    BY <1>0, <2>2
  <2>6. Intact(actions)' => Intact(actions) /\ Recorded \subseteq Recorded'
    BY <2>1, <2>5 DEF Intact, GivenUp, Recorded
  <2> QED BY <1>2, <2>4, <2>6
<1>3. CASE actions' = NoFile
  <2>1. NoFile.state = "no file" /\ NoFile.lines = <<>> /\ NoFile.buffer = <<>>
    BY DEF NoFile, Log
  <2>2. <<>> \o <<>> = <<>>
    OBVIOUS
  <2>3. Noted' = {}
    <3>1. Pages(actions)' = <<>>
      BY <1>3, <2>1, <2>2 DEF Pages
    <3>2. DOMAIN <<>> = {}
      OBVIOUS
    <3> QED BY <3>1, <3>2 DEF Noted
  <2>4. ~Intact(actions)'
    BY <1>3, <2>1 DEF Intact, GivenUp
  <2> QED BY <2>3, <2>4
<1>4. CASE actions' \in Closed(actions)
  <2>1. /\ Pages(actions') = Pages(actions)
        /\ Intact(actions') => Intact(actions) /\ actions'.lines = actions.lines
    BY <1>0, <1>4, ClosedPages
  <2>2. Noted' = Noted
    BY <2>1 DEF Noted, Pages
  <2> QED BY <2>1, <2>2 DEF Intact, GivenUp, Recorded
<1> QED
  BY <1>1, <1>2, <1>3, <1>4 DEF Next, Sinks, Executor, Main, vars, Show, ShowFails, FileTakes,
     FileSkips, FileCannotOpen, Start, Remark, PlainFails, VerbEnds, Begin, Execute, Record,
     RecordCannotOpen, Finish, Fail, Unwind, Report, ReportStderr, Aside, Hint,
     PrintInterrupted, PrintFails, Exit, Interrupt, StderrDies

\* What is said of a command is said when it begins and when it finishes.
LEMMA ToldGrow ==
  ASSUME Types, StoryInv, [Next]_vars, NEW what \in {"started", "finished"}
  PROVE  \/ Told(what)' \subseteq Told(what)
         \/ what = "started" /\ Begin
         \/ what = "finished" /\ Finish
<1> USE DEF setup, files, emitVars
<1>1. CASE UNCHANGED emitted
  BY <1>1, ToldKept
<1>2. CASE \E e \in Event, next \in {"verb", "unwind", "report", "hints", "exit"} :
             Emit(e, next) /\ e.what # what
  BY <1>2, ToldEmit
<1>3. CASE Start \/ Remark \/ Report \/ PrintInterrupted \/ ReportStderr \/ Aside \/ Hint \/ Fail
  <2>1. \A x \in {"run started", "remark", "error", "interrupted", "stderr"} :
          Of(x) \in Event /\ Of(x).what # what
    BY DEF Of, Event, What
  <2>2. About("failed") \in Event /\ About("failed").what # what
    BY DEF About, Event, What, Types
  <2> QED
    BY <1>1, <1>2, <1>3, <2>1, <2>2
    DEF Start, Remark, Report, PrintInterrupted, ReportStderr, Aside, Hint, Fail
<1>4. CASE Begin /\ what = "finished"
  <2>1. \A x \in {"would", "started"} :
          [what |-> x, n |-> n + 1] \in Event /\ [what |-> x, n |-> n + 1].what # what
    <3>1. "would" \in What /\ "started" \in What /\ n + 1 \in Nat
      BY DEF What, Types
    <3> QED BY <1>4, <3>1 DEF Event
  <2>2. \E x \in {"would", "started"} : \E next : Emit([what |-> x, n |-> n + 1], next)
    BY <1>4 DEF Begin
  <2> QED BY <2>1, <2>2, ToldEmit
<1>5. CASE Finish /\ what = "started"
  <2>1. About("finished") \in Event /\ About("finished").what # what
    BY <1>5 DEF About, Event, What, Types
  <2> QED BY <1>2, <1>5, <2>1, ToldEmit DEF Finish
<1>6. CASE Interrupt
  BY <1>6, ToldKept DEF Interrupt
<1>7. CASE Raise /\ at # 0
  BY <1>7, ToldKept DEF Raise
<1>8. CASE Sinks
  BY <1>1, <1>7, <1>8 DEF Sinks, Show, ShowFails, FileTakes, FileSkips, FileCannotOpen,
     NextSink, Return
<1> QED
  BY <1>1, <1>3, <1>4, <1>5, <1>6, <1>8 DEF Next, Executor, Main, vars, PlainFails, VerbEnds,
     Execute, Record, RecordCannotOpen, Unwind, PrintFails, Exit, StderrDies

LEMMA CountsGrow ==
  ASSUME Types, Tally, ~dry_run, [Next]_vars
  PROVE  /\ n \in Nat /\ ran \in Nat /\ n' \in Nat /\ ran' \in Nat
         /\ ran <= ran' /\ n <= n'
         /\ n' = n \/ (Begin /\ n' = n + 1 /\ pc = "verb" /\ at = 0)
         /\ ran' = ran \/ (ran' = n /\ n' = n /\ pc = "execute" /\ at = 0)
<1> USE DEF setup, files, emitVars, Idle
<1>1. n \in Nat /\ ran \in Nat /\ n' \in Nat /\ ran' \in Nat
  BY TypesKept DEF Types
<1>2. CASE UNCHANGED <<n, ran>>
  BY <1>1, <1>2
<1>3. CASE Begin
  BY <1>1, <1>3 DEF Begin
<1>4. CASE Execute \/ Interrupt
  <2>1. UNCHANGED n /\ (UNCHANGED ran \/ (pc = "execute" /\ at = 0 /\ ran' = n))
    BY <1>4 DEF Execute, Interrupt
  <2>2. pc = "execute" => n = ran + 1
    BY DEF Tally, Underway
  <2> QED BY <1>1, <2>1, <2>2
<1> QED
  BY <1>2, <1>3, <1>4 DEF Next, Sinks, Executor, Main, vars, Show, ShowFails, FileTakes,
     FileSkips, FileCannotOpen, Start, Remark, PlainFails, VerbEnds, Record, RecordCannotOpen,
     Finish, Fail, Unwind, Report, ReportStderr, Aside, Hint, PrintInterrupted, PrintFails,
     Exit, StderrDies

LEMMA RecordedLast ==
  ASSUME Types, Control, Record \/ RecordCannotOpen, pc' # "unwind", Intact(actions)'
  PROVE  n \in Recorded'
<1> USE DEF Idle
<1>1. /\ actions \in LogOf(Nat) /\ Neat(actions) /\ n \in Nat
  BY DEF Types
<1>2. actions' # NoFile
  <2>1. NoFile.state = "no file"
    BY DEF NoFile, Log
  <2> QED BY <2>1 DEF Intact, GivenUp
<1>3. pc = "record" /\ Record
  BY <1>2 DEF Record, RecordCannotOpen
<1>4. CASE Writable(actions)
  <2>1. actions'.lines = Append(actions.lines, n)
    <3>1. Intact(actions') => actions'.lines = Append(actions.lines, n)
      BY <1>1, <1>3, <1>4, WrittenPages DEF Record
    <3> QED BY <3>1 DEF Intact, GivenUp
  <2>2. actions.lines \in Seq(Nat)
    BY <1>1 DEF LogOf
  <2>3. /\ Len(actions.lines) + 1 \in DOMAIN actions'.lines
        /\ actions'.lines[Len(actions.lines) + 1] = n
    BY <1>1, <2>1, <2>2
  <2> QED BY <2>3 DEF Recorded
<1>5. CASE ~Writable(actions)
  <2>1. actions' = actions /\ actions.state \in States
    BY <1>1, <1>3, <1>5 DEF Record, LogOf
  <2>2. actions.state # "closed"
    BY <1>3 DEF Control
  <2> QED BY <1>5, <2>1, <2>2 DEF Writable, Intact, GivenUp, States
<1> QED BY <1>4, <1>5

LEMMA AuditKept ==
  Types /\ Control /\ StoryInv /\ Tally /\ AuditInv /\ [Next]_vars => AuditInv'
<1> SUFFICES ASSUME Types, Control, StoryInv, Tally, AuditInv, [Next]_vars, ~dry_run
             PROVE  AuditInv'
  BY SetupKept DEF AuditInv
<1> USE DEF setup, files, emitVars, Idle
<1>n. n \in Nat /\ ran \in Nat /\ n' \in Nat /\ ran' \in Nat
  BY CountsGrow
<1>r. /\ ran <= ran' /\ n <= n'
      /\ n' = n \/ (Begin /\ n' = n + 1 /\ pc = "verb" /\ at = 0)
      /\ ran' = ran \/ (ran' = n /\ n' = n /\ pc = "execute" /\ at = 0)
  BY CountsGrow
<1>1. (Noted \subseteq 1..ran)'
  <2>1. CASE pc # "record" \/ at # 0
    BY <1>n, <1>r, <2>1, ActionsGrow DEF AuditInv
  <2>2. CASE pc = "record" /\ at = 0
    <3>1. n \in 1..ran
      BY <1>n, <2>2 DEF Tally, Settled, Underway
    <3> QED BY <1>n, <1>r, <3>1, ActionsGrow DEF AuditInv
  <2> QED BY <2>1, <2>2
<1>2. (Told("started") \subseteq 1..n)'
  <2>1. CASE Told("started")' \subseteq Told("started")
    BY <1>n, <1>r, <2>1 DEF AuditInv
  <2>2. CASE Begin
    <3>1. Emit([what |-> "started", n |-> n + 1], "execute") /\ n' = n + 1
      BY <2>2 DEF Begin
    <3>2. [what |-> "started", n |-> n + 1] \in Event
      <4>1. n + 1 \in Nat /\ "started" \in What
        BY <1>n DEF What
      <4> QED BY <4>1 DEF Event
    <3>3. Told("started")' \subseteq Told("started") \cup {n + 1}
      BY <3>1, <3>2, ToldEmit
    <3> QED BY <1>n, <3>1, <3>3 DEF AuditInv
  <2> QED BY <2>1, <2>2, ToldGrow
<1>3. Intact(actions)' => (1..(n - 1) \subseteq Recorded)'
  <2> SUFFICES ASSUME Intact(actions)' PROVE (1..(n - 1) \subseteq Recorded)'
    OBVIOUS
  <2>1. Intact(actions) /\ Recorded \subseteq Recorded'
    BY ActionsGrow
  <2>2. CASE n' = n
    BY <2>1, <2>2 DEF AuditInv
  <2>3. CASE n' = n + 1 /\ pc = "verb" /\ at = 0
    <3>1. 1..n \subseteq Recorded
      BY <2>1, <2>3 DEF AuditInv, Underway
    <3> QED BY <1>n, <2>1, <2>3, <3>1
  <2> QED BY <1>r, <2>2, <2>3
<1>4. /\ Intact(actions)' 
      /\ (pc \in {"verb", "finished", "failed"} /\ ~Underway)'
      => (1..n \subseteq Recorded)'
  <2> SUFFICES ASSUME Intact(actions)', pc' \in {"verb", "finished", "failed"}, ~Underway'
               PROVE  (1..n \subseteq Recorded)'
    OBVIOUS
  <2>1. Intact(actions) /\ Recorded \subseteq Recorded'
    BY ActionsGrow
  <2>2. CASE pc \in {"verb", "finished", "failed"} /\ ~Underway /\ n' = n
    BY <2>1, <2>2 DEF AuditInv
  <2>3. CASE Record \/ RecordCannotOpen
    BY <1>n, <2>1, <2>3, RecordedLast DEF AuditInv, Record, RecordCannotOpen
  <2>4. CASE n' = 0
    BY <2>4
  <2>5. CASE UNCHANGED vars
    BY <2>2, <2>5 DEF vars, Underway
  <2>6. CASE Sinks
    <3>1. CASE NextSink /\ at = 1 /\ UNCHANGED n
      BY <2>2, <3>1 DEF NextSink, Underway
    <3>2. CASE Raise /\ at # 0 /\ UNCHANGED n
      BY <2>2, <3>2 DEF Raise, Leave, InVerb, Underway, Tally
    <3>3. CASE Return /\ at # 0 /\ UNCHANGED n
      BY <2>2, <2>4, <3>3 DEF Return, Leave, Underway, Control, Returns
    <3> QED
      BY <2>6, <3>1, <3>2, <3>3
      DEF Sinks, Show, ShowFails, FileTakes, FileSkips, FileCannotOpen
  <2>7. CASE \/ Start \/ Remark \/ Finish \/ Fail \/ Report \/ PrintInterrupted
             \/ ReportStderr \/ Aside \/ Hint
    BY <2>2, <2>7 DEF Start, Remark, Finish, Fail, Report, PrintInterrupted, ReportStderr,
       Aside, Hint, Emit, Underway, Control
  <2>8. CASE Begin
    BY <2>8 DEF Begin, Emit, Underway
  <2>9. CASE \/ Execute \/ PlainFails \/ VerbEnds \/ PrintFails \/ Unwind \/ Exit
             \/ StderrDies \/ Interrupt
    BY <2>2, <2>9 DEF Execute, PlainFails, VerbEnds, PrintFails, Unwind, Exit, StderrDies,
       Interrupt, InVerb, Underway
  <2> QED
    BY <2>3, <2>5, <2>6, <2>7, <2>8, <2>9 DEF Next, Executor, Main
<1>5. Intact(actions)' => (Told("finished") \subseteq Recorded)'
  <2> SUFFICES ASSUME Intact(actions)' PROVE (Told("finished") \subseteq Recorded)'
    OBVIOUS
  <2>1. Intact(actions) /\ Recorded \subseteq Recorded'
    BY ActionsGrow
  <2>2. CASE Told("finished")' \subseteq Told("finished")
    BY <2>1, <2>2 DEF AuditInv
  <2>3. CASE Finish
    <3>1. n \in Recorded
      <4>1. pc = "finished" /\ at = 0
        BY <2>3 DEF Finish
      <4> QED BY <1>n, <2>1, <4>1 DEF AuditInv, Underway, Tally
    <3>2. About("finished") \in Event /\ About("finished").n = n
      BY <1>n DEF About, Event, What
    <3>3. Told("finished")' \subseteq Told("finished") \cup {n}
      BY <2>3, <3>2, ToldEmit DEF Finish
    <3> QED BY <2>1, <3>1, <3>3 DEF AuditInv
  <2> QED BY <2>2, <2>3, ToldGrow
<1>6. Intact(events)' => (1..ran \subseteq Named(events, "started"))'
  <2> SUFFICES ASSUME Intact(events)' PROVE (1..ran \subseteq Named(events, "started"))'
    OBVIOUS
  <2>1. Intact(events) /\ Named(events, "started") \subseteq Named(events, "started")'
    BY EventsGrow
  <2>2. CASE ran' = ran
    BY <2>1, <2>2 DEF AuditInv
  <2>3. CASE ran' = n /\ pc = "execute" /\ at = 0
    BY <1>n, <2>1, <2>3 DEF AuditInv, Tally, Underway
  <2> QED BY <1>r, <2>2, <2>3
<1>7. Intact(events)' /\ pc' = "execute" => (n \in Named(events, "started"))'
  <2> SUFFICES ASSUME Intact(events)', pc' = "execute"
               PROVE  (n \in Named(events, "started"))'
    OBVIOUS
  <2>1. Intact(events) /\ Named(events, "started") \subseteq Named(events, "started")'
    BY EventsGrow
  <2>2. CASE pc = "execute" /\ n' = n
    BY <2>1, <2>2 DEF AuditInv
  <2>3. CASE FileTakes
    <3>1. event = [what |-> "started", n |-> n] /\ n' = n
      BY <2>3 DEF FileTakes, Return, Leave, Tally
    <3>2. events'.lines = Append(events.lines, event)
      <4>1. events \in LogOf(Event) /\ Neat(events) /\ event \in Event
        BY DEF Types
      <4>2. Intact(events') => events'.lines = Append(events.lines, event)
        BY <2>3, <4>1, WrittenPages DEF FileTakes
      <4> QED BY <4>2 DEF Intact, GivenUp
    <3>3. events.lines \in Seq(Event) /\ event \in Event
      BY DEF Types, LogOf
    <3>4. /\ Len(events.lines) + 1 \in DOMAIN events'.lines
          /\ events'.lines[Len(events.lines) + 1] = event
      BY <3>2, <3>3
    <3>5. event.what = "started" /\ event.n = n
      BY <3>1
    <3> QED BY <3>1, <3>4, <3>5 DEF Named
  <2>4. CASE Sinks /\ ~FileTakes
    <3>1. CASE NextSink /\ UNCHANGED n
      BY <2>2, <3>1 DEF NextSink
    <3>2. CASE Raise
      BY <3>2 DEF Raise
    <3>3. CASE UNCHANGED events /\ GivenUp(events)
      BY <3>3 DEF Intact, GivenUp
    <3>4. CASE events' = NoFile
      BY <3>4 DEF NoFile, Log, Intact, GivenUp
    <3> QED
      BY <2>4, <3>1, <3>2, <3>3, <3>4
      DEF Sinks, Show, ShowFails, FileSkips, FileCannotOpen
  <2>5. CASE UNCHANGED <<pc, n>>
    BY <2>2, <2>5
  <2> QED
    BY <2>3, <2>4, <2>5 DEF Next, Executor, Main, vars, Start, Remark, PlainFails, VerbEnds,
       Begin, Execute, Record, RecordCannotOpen, AfterRecord, Finish, Fail, Unwind, Report,
       ReportStderr, Aside, Hint, PrintInterrupted, PrintFails, Exit, Interrupt, StderrDies
<1> QED BY <1>1, <1>2, <1>3, <1>4, <1>5, <1>6, <1>7 DEF AuditInv

-----------------------------------------------------------------------------
(* The theorems *)

LEMMA AuditStarts == Init => Tally /\ AuditInv
<1> SUFFICES ASSUME Init PROVE Tally /\ AuditInv
  OBVIOUS
<1>1. NewLog.lines = <<>> /\ Pages(NewLog) = <<>>
  BY DEF NewLog, Log, Pages
<1>2. DOMAIN <<>> = {}
  OBVIOUS
<1>3. Noted = {} /\ \A what : Told(what) = {}
  BY <1>1, <1>2 DEF Init, Noted, Told
<1>4. /\ n = 0 /\ ran = 0 /\ pc = "start" /\ at = 0
      /\ 1..ran = {} /\ 1..n = {} /\ 1..(n - 1) = {}
  BY DEF Init
<1> QED BY <1>3, <1>4 DEF Tally, AuditInv, Underway, Settled

LEMMA AuditHolds == Spec => [](Types /\ Control /\ StoryInv /\ Tally /\ AuditInv)
<1>1. Init => Types /\ Control /\ StoryInv /\ Tally /\ AuditInv
  BY Starts, AuditStarts
<1>2. Types /\ Control /\ StoryInv /\ Tally /\ AuditInv /\ [Next]_vars
      => (Types /\ Control /\ StoryInv /\ Tally /\ AuditInv)'
  BY TypesKept, ControlKept, StoryKept, TallyKept, AuditKept
<1> QED BY <1>1, <1>2, PTL DEF Spec

\* events.jsonl is what was emitted, in order, up to where the sink gave up.
THEOREM StoryHasNoGap == Spec => []EventsHaveNoGap
<1>1. Types /\ StoryInv => EventsHaveNoGap
  <2> SUFFICES ASSUME Types, StoryInv PROVE EventsHaveNoGap
    OBVIOUS
  <2>1. /\ Len(events.lines) <= Len(Pages(events))
        /\ \A i \in DOMAIN events.lines :
             i \in DOMAIN Pages(events) /\ Pages(events)[i] = events.lines[i]
    BY LinesArePages DEF Types
  <2>2. /\ Pages(events) \in Seq(Event) /\ events.lines \in Seq(Event)
        /\ emitted \in Seq(Event)
    BY LinesArePages DEF Types, LogOf
  <2>3. Len(events.lines) <= Len(emitted)
    BY <2>1, <2>2 DEF StoryInv, Current
  <2>4. \A i \in DOMAIN events.lines : events.lines[i] = emitted[i]
    BY <2>1 DEF StoryInv
  <2>5. Intact(events) /\ at = 0 => Len(events.lines) = Len(emitted)
    BY <2>2 DEF StoryInv, Current
  <2> QED BY <2>3, <2>4, <2>5 DEF EventsHaveNoGap
<1> QED BY <1>1, AuditHolds, PTL

\* A run that was killed can be located in its two files.
THEOREM CrashIsInTheFiles == Spec => []CrashIsLocated
<1>1. Types /\ StoryInv /\ Tally /\ AuditInv => CrashIsLocated
  <2> SUFFICES ASSUME Types, StoryInv, Tally, AuditInv, ~dry_run
               PROVE  CrashIsLocated
    BY DEF CrashIsLocated
  <2>1. n \in Nat /\ ran \in Nat
    BY DEF Types
  <2>2. Recorded \subseteq Noted
    BY LinesArePages DEF Types, Recorded, Noted
  <2>3. \A what : Named(events, what) \subseteq Told(what)
    <3>1. \A i \in DOMAIN events.lines : i \in DOMAIN emitted /\ events.lines[i] = emitted[i]
      <4>1. \A i \in DOMAIN events.lines :
              i \in DOMAIN Pages(events) /\ Pages(events)[i] = events.lines[i]
        BY LinesArePages DEF Types
      <4>2. Pages(events) \in Seq(Event) /\ emitted \in Seq(Event)
        BY LinesArePages DEF Types
      <4>3. DOMAIN Pages(events) = 1..Len(Pages(events)) /\ DOMAIN emitted = 1..Len(emitted)
            /\ Len(Pages(events)) \in Nat /\ Len(emitted) \in Nat
        BY <4>2
      <4>4. Len(Pages(events)) <= Len(emitted)
        <5>1. Current \in 0..1
          BY DEF Current
        <5>2. Len(Pages(events)) + Current <= Len(emitted)
          BY DEF StoryInv
        <5> QED BY <4>3, <5>1, <5>2
      <4> QED BY <4>1, <4>3, <4>4 DEF StoryInv
    <3> QED BY <3>1 DEF Named, Told
  <2>4. Recorded \subseteq 1..ran
    BY <2>2 DEF AuditInv
  <2>5. Intact(events) => 1..ran \subseteq Named(events, "started")
    BY DEF AuditInv
  <2>6. Intact(actions) => Named(events, "started") \ Recorded \subseteq {n}
    <3>1. Named(events, "started") \subseteq 1..n
      BY <2>3 DEF AuditInv
    <3>2. 1..n \subseteq 1..(n - 1) \cup {n}
      BY <2>1
    <3>3. Intact(actions) => 1..(n - 1) \subseteq Recorded
      BY DEF AuditInv
    <3> QED BY <3>1, <3>2, <3>3
  <2>7. Intact(actions) => Named(events, "finished") \subseteq Recorded
    BY <2>3 DEF AuditInv
  <2> QED BY <2>4, <2>5, <2>6, <2>7 DEF CrashIsLocated
<1> QED BY <1>1, AuditHolds, PTL

\* A run does not fail for the sake of its logs, as long as stderr is there.
THEOREM LogsAreHarmless == Spec => []NarrationIsHarmless
<1>1. Init => NarrationIsHarmless
  BY DEF Init, NarrationIsHarmless
<1>2. NarrationIsHarmless /\ [Next]_vars => NarrationIsHarmless'
  BY DEF NarrationIsHarmless, Next, Sinks, Executor, Main, vars, Show, ShowFails, FileTakes,
     FileSkips, FileCannotOpen, NextSink, Raise, Return, Start, Remark, PlainFails, VerbEnds,
     Begin, Execute, Record, RecordCannotOpen, Finish, Fail, Unwind, Report, ReportStderr,
     Aside, Hint, PrintInterrupted, PrintFails, Exit, Interrupt, StderrDies
<1> QED BY <1>1, <1>2, PTL DEF Spec
=============================================================================
