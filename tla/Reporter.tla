------------------------------- MODULE Reporter -------------------------------
(***************************************************************************)
(* What a CLI process tells of itself: the reporter, which hands every     *)
(* event to the visible sink and then to the file sink                     *)
(* (core/reporter.py), the executor, which surrounds a command with events *)
(* and keeps a record of its own (effects/executor.py), and main(), which  *)
(* opens and closes the story (cli/main.py).                               *)
(*                                                                         *)
(* A process leaves three traces: the visible stream, events.jsonl and     *)
(* actions.jsonl.  Each of them may stop taking lines at any time.         *)
(***************************************************************************)
EXTENDS Naturals, Sequences

CONSTANTS
  MaxActions,   (* BOUND: commands the verb runs                              *)
  MaxRemarks    (* BOUND: events of the verb itself, its headers and ticks,   *)
                (* and lines of the hint                                      *)

ASSUME ReporterAssumption == MaxActions \in Nat /\ MaxRemarks \in Nat

VARIABLES
  mode,      (* --log-format                                                  *)
  dry_run,
  stderr,    (* does it take writes?  Once it does not, it never does again   *)
  events,    (* FileSink and its events.jsonl                                 *)
  actions,   (* the executor's actions.jsonl                                  *)
  pc,        (* where the process is                                          *)
  at,        (* the sink that consumes the event next, 0 outside emit()       *)
  event,     (* the event emit() is busy with                                 *)
  then,      (* where emit() returns to                                       *)
  n,         (* commands begun; the n-th is command n                         *)
  fatal,     (* the command failed, and its result is checked                 *)
  how,       (* how the process ends                                          *)
  remarks,
  ran,       (* history: commands that were executed                          *)
  emitted,   (* history: the events handed to emit(), less those that an      *)
             (* exception or Ctrl-C cut short                                 *)
  blame      (* history: "Ctrl-C", or "print()": one of the bare ones failed   *)

setup   == <<mode, dry_run>>
files   == <<events, actions>>
emitVars == <<at, event, then, emitted>>
vars == <<setup, stderr, files, pc, emitVars, n, fatal, how, remarks, ran, blame>>

Of(what) == [what |-> what, n |-> 0]
About(what) == [what |-> what, n |-> n]

\* A log file of the run: not opened yet, open, never opened because it cannot
\* be, given up with its last line still in the buffer, given up, closed.
Log(state, lines, buffer) == [state |-> state, lines |-> lines, buffer |-> buffer]
NewLog     == Log("new", <<>>, <<>>)
NoFile     == Log("no file", <<>>, <<>>)
Line(w, x) == Log("open", Append(w.lines, x), <<>>)
Writable(w) == w.state \in {"new", "open"}
GivenUp(w)  == w.state \in {"no file", "torn", "broken"}
Intact(w)   == ~GivenUp(w)

\* Mutant: a write that fails does not set _broken.
Written_Retried(w, x) ==
  {Line(w, x), Log("open", w.lines, <<>>)}

\* write and flush of one line, which may fail before or after it is on disk.
Written(w, x) ==
  {Line(w, x), Log("broken", Append(w.lines, x), <<>>), Log("torn", w.lines, <<x>>)}

\* close() of the file object flushes what is still in its buffer.
Closed(w) ==
  CASE w.state = "open" -> {Log("closed", w.lines, <<>>)}
    [] w.state = "torn" -> {w, Log("broken", w.lines \o w.buffer, <<>>)}
    [] OTHER            -> {w}

Init ==
  /\ mode \in {"text", "json"} /\ dry_run \in BOOLEAN
  /\ stderr \in BOOLEAN
  /\ events = NewLog /\ actions = NewLog
  /\ pc = "start"
  /\ at = 0 /\ event = Of("none") /\ then = "start"
  /\ n = 0 /\ fatal = FALSE
  /\ how = "ok"
  /\ remarks = 0
  /\ ran = 0
  /\ emitted = <<>>
  /\ blame = "nothing"

-----------------------------------------------------------------------------
(* Reporter.emit *)

Emit(e, next) ==
  /\ at' = 1 /\ event' = e /\ then' = next
  /\ emitted' = Append(emitted, e)

\* Inside args.func(args), where main() has its except clauses.
InVerb == pc \in {"verb", "execute", "record", "finished", "failed"}

Leave  == at' = 0 /\ event' = Of("none") /\ then' = "start"
Return == Leave /\ pc' = then /\ UNCHANGED <<emitted, how>>

CutShort == emitted' = SubSeq(emitted, 1, Len(emitted) - 1)

\* An exception leaves emit().  What the verb itself says may be said in a
\* plugin's hook or in the sync of one project, which catch it; otherwise it
\* leaves the verb and main().
Raise ==
  /\ Leave /\ CutShort
  /\ \/ /\ pc' = (IF InVerb THEN "unwind" ELSE "exit") /\ how' = "traceback"
     \/ /\ pc = "verb" /\ event.what = "remark"
        /\ UNCHANGED <<pc, how>>

NextSink == at' = 2 /\ UNCHANGED <<pc, event, then, emitted, how>>

\* What may come of an event that is written to stdout, and to stderr.
AnsiSink  == {"shown", "raised"}
JsonlSink == IF stderr THEN {"shown"} ELSE {"raised"}
VisibleSink == IF mode = "text" THEN AnsiSink ELSE JsonlSink

Show ==
  /\ at = 1 /\ "shown" \in VisibleSink
  /\ NextSink
  /\ UNCHANGED <<setup, stderr, files, n, fatal, remarks, ran, blame>>

\* Mutant: the exception of a sink is not caught.
ShowFails_Uncaught ==
  /\ at = 1 /\ "raised" \in VisibleSink
  /\ Raise
  /\ UNCHANGED <<setup, stderr, files, n, fatal, remarks, ran, blame>>

\* The sink raises.  emit() catches it and says so on stderr, which may raise
\* in its turn; in json mode it is the stream that has just failed.
ShowFails ==
  /\ at = 1 /\ "raised" \in VisibleSink
  /\ IF stderr THEN NextSink ELSE Raise
  /\ UNCHANGED <<setup, stderr, files, n, fatal, remarks, ran, blame>>

\* FileSink.consume.
FileTakes ==
  /\ at = 2 /\ Writable(events)
  /\ events' \in Written(events, event)
  /\ Return
  /\ UNCHANGED <<setup, stderr, actions, n, fatal, remarks, ran, blame>>

FileSkips ==
  /\ at = 2 /\ GivenUp(events)
  /\ Return
  /\ UNCHANGED <<setup, stderr, files, n, fatal, remarks, ran, blame>>

\* FileSink._ensure_open cannot make the directory or the file.  The warning
\* comes before _broken is set.
FileCannotOpen ==
  /\ at = 2 /\ events.state = "new"
  /\ IF stderr THEN events' = NoFile /\ Return
               ELSE UNCHANGED events /\ Raise
  /\ UNCHANGED <<setup, stderr, actions, n, fatal, remarks, ran, blame>>

-----------------------------------------------------------------------------
(* main() up to the verb, and the verb *)

Idle(label) == at = 0 /\ pc = label

\* Reporter.start
Start ==
  /\ Idle("start")
  /\ Emit(Of("run started"), "verb")
  /\ UNCHANGED <<setup, stderr, files, pc, n, fatal, how, remarks, ran, blame>>

\* The ticks of the orchestrator and what the hooks say.
Remark ==
  /\ Idle("verb") /\ remarks < MaxRemarks
  /\ remarks' = remarks + 1
  /\ Emit(Of("remark"), "verb")
  /\ UNCHANGED <<setup, stderr, files, pc, n, fatal, how, ran, blame>>

\* print_plain in text mode is a bare print() to stdout, and some hooks print in
\* either mode.  Where it succeeds it leaves no trace here; print_plain in json
\* mode is a Remark.
PlainFails ==
  /\ Idle("verb")
  /\ pc' = "unwind" /\ how' = "traceback" /\ blame' = "print()"
  /\ UNCHANGED <<setup, stderr, files, emitVars, n, fatal, remarks, ran>>

\* The verb is done, or fails with a SanityError of its own, which for a
\* CommandError brings the stderr of the command along.
VerbEnds ==
  /\ Idle("verb")
  /\ how' \in {"ok", "failed", "command failed"}
  /\ pc' = "unwind"
  /\ UNCHANGED <<setup, stderr, files, emitVars, n, fatal, remarks, ran, blame>>

-----------------------------------------------------------------------------
(* Executor.run *)

\* Mutant: the command is announced when it has been executed.
Begin_Silent ==
  /\ Idle("verb") /\ n < MaxActions
  /\ n' = n + 1
  /\ IF dry_run THEN Emit([what |-> "would", n |-> n + 1], "record") /\ UNCHANGED pc
     ELSE pc' = "execute" /\ UNCHANGED emitVars
  /\ UNCHANGED <<setup, stderr, files, fatal, how, remarks, ran, blame>>

Begin ==
  /\ Idle("verb") /\ n < MaxActions
  /\ n' = n + 1
  /\ IF dry_run THEN Emit([what |-> "would", n |-> n + 1], "record")
                ELSE Emit([what |-> "started", n |-> n + 1], "execute")
  /\ UNCHANGED <<setup, stderr, files, pc, fatal, how, remarks, ran, blame>>

\* action.execute: every Exception becomes an exit code.
Execute ==
  /\ Idle("execute")
  /\ ran' = n
  /\ fatal' \in BOOLEAN
  /\ pc' = "record"
  /\ UNCHANGED <<setup, stderr, files, emitVars, n, how, remarks, blame>>

AfterRecord == IF dry_run THEN "verb" ELSE "finished"

\* _append_actions_log.
Record ==
  /\ Idle("record")
  /\ IF Writable(actions) THEN actions' \in Written(actions, n) ELSE UNCHANGED actions
  /\ pc' = AfterRecord
  /\ UNCHANGED <<setup, stderr, events, emitVars, n, fatal, how, remarks, ran, blame>>

\* _ensure_actions_log warns on stderr, with nothing around it.
RecordCannotOpen ==
  /\ Idle("record") /\ actions.state = "new"
  /\ IF stderr THEN /\ actions' = NoFile /\ pc' = AfterRecord
                    /\ UNCHANGED how
               ELSE /\ pc' = "unwind" /\ how' = "traceback"
                    /\ UNCHANGED actions
  /\ UNCHANGED <<setup, stderr, events, emitVars, n, fatal, remarks, ran, blame>>

Finish ==
  /\ Idle("finished")
  /\ Emit(About("finished"), IF fatal THEN "failed" ELSE "verb")
  /\ fatal' = FALSE
  /\ UNCHANGED <<setup, stderr, files, pc, n, how, remarks, ran, blame>>

\* A checked failure: ActionFailed, then ActionFailedError.
Fail ==
  /\ Idle("failed")
  /\ Emit(About("failed"), "unwind")
  /\ how' = "action failed"
  /\ UNCHANGED <<setup, stderr, files, pc, n, fatal, remarks, ran, blame>>

-----------------------------------------------------------------------------
(* main() after the verb *)

\* Orchestrator.__exit__ closes the executor; then the except clauses, in main
\* and, for a failed action, in up before it.
Unwind ==
  /\ Idle("unwind")
  /\ actions' \in Closed(actions)
  /\ \/ how = "action failed" /\ pc' = "aside"
     \/ how \in {"action failed", "failed", "command failed"} /\ pc' = "report"
     \/ how = "interrupted" /\ pc' = "print"
     \/ how \in {"ok", "traceback"} /\ pc' = "exit"
  /\ UNCHANGED <<setup, stderr, events, emitVars, n, fatal, how, remarks, ran, blame>>

\* up says where the run's state is.
Aside ==
  /\ Idle("aside")
  /\ Emit(Of("remark"), "report")
  /\ UNCHANGED <<setup, stderr, files, pc, n, fatal, how, remarks, ran, blame>>

\* print_error, and print_info for each line of the hint.
Report ==
  /\ Idle("report")
  /\ Emit(Of("error"), "hints")
  /\ UNCHANGED <<setup, stderr, files, pc, n, fatal, how, remarks, ran, blame>>

Hint ==
  /\ Idle("hints") /\ remarks < MaxRemarks
  /\ remarks' = remarks + 1
  /\ Emit(Of("remark"), "hints")
  /\ UNCHANGED <<setup, stderr, files, pc, n, fatal, how, ran, blame>>

\* print_plain with the stderr of the command.
ReportStderr ==
  /\ Idle("hints")
  /\ IF how = "command failed" /\ mode = "json" THEN Emit(Of("stderr"), "exit") /\ UNCHANGED pc
     ELSE pc' = "exit" /\ UNCHANGED emitVars
  /\ UNCHANGED <<setup, stderr, files, n, fatal, how, remarks, ran, blame>>

\* A bare print() to stdout, in json mode too; then print_warning.
PrintInterrupted ==
  /\ Idle("print")
  /\ Emit(Of("interrupted"), "exit")
  /\ UNCHANGED <<setup, stderr, files, pc, n, fatal, how, remarks, ran, blame>>

PrintFails ==
  /\ \/ Idle("print")
     \/ Idle("hints") /\ how = "command failed" /\ mode = "text"
  /\ pc' = "exit" /\ how' = "traceback" /\ blame' = "print()"
  /\ UNCHANGED <<setup, stderr, files, emitVars, n, fatal, remarks, ran>>

\* atexit: Reporter.close closes the sinks that can be closed.
Exit ==
  /\ Idle("exit")
  /\ events' \in Closed(events)
  /\ pc' = "done"
  /\ UNCHANGED <<setup, stderr, actions, emitVars, n, fatal, how, remarks, ran, blame>>

-----------------------------------------------------------------------------
(* The environment *)

\* Ctrl-C: no Exception, so neither emit() nor the executor catches it.  What
\* the process was writing is written or not; a line that is left in a buffer
\* goes out in front of the next one, or when the file is closed.  Outside the
\* verb there is no except clause for it.
Interrupt ==
  /\ pc \notin {"unwind", "exit", "done"}
  /\ \/ at = 0 /\ UNCHANGED <<events, emitted>>
     \/ at # 0 /\ UNCHANGED events /\ CutShort
     \/ /\ at = 2 /\ Writable(events) /\ UNCHANGED emitted
        /\ events' = Line(events, event)
  /\ \/ UNCHANGED actions
     \/ Idle("record") /\ Writable(actions) /\ actions' = Line(actions, n)
  /\ Leave
  /\ how' = IF InVerb \/ pc = "aside" THEN "interrupted" ELSE "traceback"
  /\ pc' = IF InVerb THEN "unwind" ELSE IF pc = "aside" THEN "print" ELSE "exit"
  /\ \/ UNCHANGED ran
     \/ Idle("execute") /\ ran' = n
  /\ blame' = "Ctrl-C"
  /\ UNCHANGED <<setup, stderr, n, fatal, remarks>>

\* Its reader goes away, or it is closed.
StderrDies ==
  /\ stderr /\ stderr' = FALSE
  /\ UNCHANGED <<setup, files, pc, emitVars, n, fatal, how, remarks, ran, blame>>

Sinks    == Show \/ ShowFails \/ FileTakes \/ FileSkips \/ FileCannotOpen
Executor == Begin \/ Execute \/ Record \/ RecordCannotOpen \/ Finish \/ Fail
Main     == \/ Start \/ Remark \/ PlainFails \/ VerbEnds
            \/ Unwind \/ Aside \/ Report \/ Hint \/ ReportStderr
            \/ PrintInterrupted \/ PrintFails \/ Exit

Next == Sinks \/ Executor \/ Main \/ Interrupt \/ StderrDies

Spec == Init /\ [][Next]_vars
-----------------------------------------------------------------------------
(* Properties *)

Named(w, what) == {w.lines[i].n : i \in {j \in DOMAIN w.lines : w.lines[j].what = what}}
Recorded == {actions.lines[i] : i \in DOMAIN actions.lines}

\* FileSink: events.jsonl is what was emitted, in order and without a gap, up
\* to the line at which the sink gave up; it gives up for good.  As long as it
\* has not, nothing is missing, also after an exception or Ctrl-C went through
\* emit() itself, whose event does not count.
EventsHaveNoGap ==
  /\ Len(events.lines) <= Len(emitted)
  /\ \A i \in DOMAIN events.lines : events.lines[i] = emitted[i]
  /\ Intact(events) /\ at = 0 => Len(events.lines) = Len(emitted)

\* What can be read off the two files of a run that was killed at any point, if
\* neither had been given up: the commands in actions.jsonl ran, those that are
\* not announced in events.jsonl did not, and at most the last one announced
\* is in doubt.
CrashIsLocated ==
  ~dry_run =>
    /\ Recorded \subseteq 1..ran
    /\ Intact(events) => 1..ran \subseteq Named(events, "started")
    /\ Intact(actions) => /\ Named(events, "started") \ Recorded \subseteq {n}
                          /\ Named(events, "finished") \subseteq Recorded

\* FileSink: "Failures are non-fatal: this sink is best-effort, not
\* load-bearing", and likewise of the visible sink and of actions.jsonl: as
\* long as stderr can be written to, nothing that goes through the reporter or
\* the executor's log ends a run with a traceback; that takes Ctrl-C outside
\* the verb, or a print() that bypasses the reporter.
NarrationIsHarmless == how = "traceback" => ~stderr \/ blame # "nothing"
=============================================================================
