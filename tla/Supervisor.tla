----------------------------- MODULE Supervisor -----------------------------
(***************************************************************************)
(* One live run (run_live in pirml/runtime/exec.py): the supervisor spawns *)
(* the program as a subprocess, a reader thread pumps the program's stdout *)
(* into an unbounded queue, and the supervisor's loop takes frames from    *)
(* the queue, stamps and validates them, executes the tool of each call    *)
(* and writes the result to the program's stdin.  The loop ends with the   *)
(* program's final, with the end of its output, with an error, or with the *)
(* global timeout; the process is then reaped and the trace is finished.   *)
(*                                                                         *)
(* The program is arbitrary: it writes any frame of Emittable at any time, *)
(* reads or ignores what it is sent, closes its pipes, starts a process    *)
(* that inherits them, exits, or never exits.                              *)
(*                                                                         *)
(* Abstracted: payloads, hashes and timestamps.  A line is known by        *)
(* whether it passes the byte cap; time by whether a deadline has passed.  *)
(***************************************************************************)
EXTENDS Protocol, Integers

CONSTANTS
  Tools,       \* names of the tools a call may ask for
  Policy,      \* the runtime policy of each tool
  Emittable,   \* the lines a program may write
  PipeCap,     \* lines the operating system buffers in one pipe
  RowCap,      \* result rows for which a made-up final stays under the byte cap
  MaxLines,    \* bound: lines the program writes in a run
  MayFork      \* bound: whether the program may leave a process behind

\* A line of the program: op "junk" is a line read_frame cannot parse; big says
\* that the stamped frame exceeds the byte cap; well that a call has its fields;
\* ok is a final's result.ok; room is how many result rows fit in that final.
Lines == [op : Ops \cup {"bogus", "junk"}, id : Nat, tool : Tools, well : BOOLEAN,
          big : BOOLEAN, ok : BOOLEAN, room : Nat]

ASSUME SupervisorAssumption ==
  /\ Policy \in [Tools -> [declared : BOOLEAN, idempotent : BOOLEAN,
                           cacheable : BOOLEAN, retry_n : Int]]
  /\ Emittable \subseteq Lines
  /\ PipeCap \in Nat \ {0}
  /\ RowCap \in Nat
  /\ MaxLines \in Nat
  /\ MayFork \in BOOLEAN

VARIABLES
  \* the program and the pipes
  alive,           \* the program has not exited
  fds,             \* which of its ends of "stdin", "stdout" it holds open
  heir,            \* a process it started still holds its pipes
  stdout,          \* lines it wrote that the reader thread has not read
  stdin,           \* ids of the results it has not read
  written,         \* how many lines it wrote
  \* the reader thread
  reader,          \* "reading" or "done"
  events,          \* the queue: [kind, line]
  \* the supervisor
  pc,              \* where run_live stands
  line,            \* the frame being served
  tries,           \* execute_with_retry: retries so far
  validator,       \* the StreamValidator
  seq,             \* the envelope's sequence number
  frames,          \* the trace so far
  result_rows,     \* one row per answered call
  protocol_error,
  unflushed,       \* the writer to stdin holds a line it could not write
  expired,         \* the global deadline has passed
  final_result,    \* what final.json will say
  outcome,         \* "running", "returned" (a RunOutput) or "raised"
  executed         \* history: how often the tool of each call id was run

progVars == <<alive, fds, heir, stdout, stdin, written>>
readerVars == <<reader, events>>
traceVars == <<validator, seq, frames, result_rows>>
callVars == <<line, tries, executed>>
endVars == <<final_result, outcome>>
vars == <<progVars, readerVars, pc, callVars, traceVars, protocol_error, unflushed,
          expired, endVars>>

-----------------------------------------------------------------------------
(* Values                                                                  *)

NoLine == [op |-> "none"]
NoFinal == [ok |-> FALSE, rows |-> << >>]

Ids == {l.id : l \in Emittable}
CallIds == {l.id : l \in {m \in Emittable : m.op = "call"}} \ {NoId}
Row(id, ok) == [id |-> id, ok |-> ok]

\* exec.py calls execute_with_retry with max_retries=2.
MaxRetries == 2

\* clamp_retry_budget
Budget(t) ==
  IF ~Policy[t].declared THEN MaxRetries
  ELSE IF Policy[t].retry_n < 0 THEN 0
  ELSE IF Policy[t].retry_n < MaxRetries THEN Policy[t].retry_n ELSE MaxRetries

\* execution_policy_error: the tool is not run at all.
Refused(t) ==
  /\ Policy[t].declared
  /\ Policy[t].cacheable \/ (Policy[t].retry_n > 0 /\ ~Policy[t].idempotent)

\* Slips in the retry loop: no budget at all, and one retry too many.
RetriesForever(t, retryable) == retryable
RetriesOnceMore(t, retryable) == retryable /\ tries <= Budget(t)

\* A failure that says it is retryable is retried within the budget, unless the
\* policy declares the tool not idempotent.
Retries(t, retryable) ==
  /\ retryable
  /\ ~(Policy[t].declared /\ ~Policy[t].idempotent)
  /\ tries < Budget(t)

\* Somebody can still read the program's stdin, or write its stdout.
StdinHeld == "stdin" \in fds \/ heir
StdoutHeld == "stdout" \in fds \/ heir

\* A slip: the envelope stamps the number before it counts.
StampedEarly(op, id, dir) == [op |-> op, id |-> id, dir |-> dir, seq |-> seq]

\* _EnvelopeState.apply
Stamped(op, id, dir) == [op |-> op, id |-> id, dir |-> dir, seq |-> seq + 1]

\* A slip: the first frame is looked at in place of the last.
HasFinalFirst == frames # << >> /\ Head(frames).op = "final"

HasFinal == frames # << >> /\ Last(frames).op = "final"

-----------------------------------------------------------------------------
(* The program                                                             *)

ProgramWrites ==
  /\ alive /\ "stdout" \in fds
  /\ written < MaxLines /\ Len(stdout) < PipeCap
  /\ \E l \in Emittable : stdout' = Append(stdout, l)
  /\ written' = written + 1
  /\ UNCHANGED <<alive, fds, heir, stdin>>

ProgramReads ==
  /\ alive /\ "stdin" \in fds /\ stdin # << >>
  /\ stdin' = Tail(stdin)
  /\ UNCHANGED <<alive, fds, heir, stdout, written>>

ProgramCloses ==
  /\ alive
  /\ \E fd \in fds : fds' = fds \ {fd}
  /\ UNCHANGED <<alive, heir, stdout, stdin, written>>

\* It starts a process that inherits its three standard pipes.
ProgramForks ==
  /\ MayFork /\ alive /\ ~heir
  /\ fds = {"stdin", "stdout"}
  /\ heir' = TRUE
  /\ UNCHANGED <<alive, fds, stdout, stdin, written>>

ProgramExits ==
  /\ alive
  /\ alive' = FALSE
  /\ fds' = {}
  /\ UNCHANGED <<heir, stdout, stdin, written>>

HeirExits ==
  /\ heir
  /\ heir' = FALSE
  /\ UNCHANGED <<alive, fds, stdout, stdin, written>>

SupervisorSame ==
  UNCHANGED <<readerVars, pc, callVars, traceVars, protocol_error, unflushed, expired,
              endVars>>

Program ==
  /\ \/ ProgramWrites \/ ProgramReads \/ ProgramCloses
     \/ ProgramForks \/ ProgramExits \/ HeirExits
  /\ SupervisorSame

-----------------------------------------------------------------------------
(* The reader thread (_start_frame_reader's _pump)                         *)

\* A line becomes a frame event, a line that cannot be parsed an error event
\* that ends the thread.
ReaderReads ==
  /\ reader = "reading" /\ stdout # << >>
  /\ stdout' = Tail(stdout)
  /\ IF Head(stdout).op = "junk"
       THEN /\ events' = Append(events, [kind |-> "error", line |-> Head(stdout)])
            /\ reader' = "done"
       ELSE /\ events' = Append(events, [kind |-> "frame", line |-> Head(stdout)])
            /\ UNCHANGED reader
  /\ UNCHANGED <<alive, fds, heir, stdin, written>>

\* The end of the stream needs every holder of the write end gone.
ReaderEnds ==
  /\ reader = "reading" /\ stdout = << >> /\ ~StdoutHeld
  /\ events' = Append(events, [kind |-> "eof", line |-> NoLine])
  /\ reader' = "done"
  /\ UNCHANGED progVars

Reader ==
  /\ ReaderReads \/ ReaderEnds
  /\ UNCHANGED <<pc, callVars, traceVars, protocol_error, unflushed, expired, endVars>>

\* The global timeout passes; it is looked at only where the code looks.
Deadline ==
  /\ outcome = "running" /\ ~expired
  /\ expired' = TRUE
  /\ UNCHANGED <<progVars, readerVars, pc, callVars, traceVars, protocol_error,
                 unflushed, endVars>>

-----------------------------------------------------------------------------
(* The supervisor                                                          *)

\* A slip: the error is printed and forgotten.
FatalForgotten ==
  /\ pc' = "shutdown"
  /\ UNCHANGED protocol_error

\* An exception inside the loop: run_live leaves it for the shutdown.
Fatal ==
  /\ protocol_error' = TRUE
  /\ pc' = "shutdown"

\* _read_program_frame returned a frame: it is stamped, which uses up a
\* sequence number, then validated, then logged.
TakeFrame ==
  /\ pc = "read" /\ ~expired
  /\ events # << >> /\ Head(events).kind = "frame"
  /\ events' = Tail(events)
  /\ line' = Head(events).line
  /\ seq' = seq + 1
  /\ IF ~line'.big /\ Accepts(validator, line')
       THEN /\ validator' = Record(validator, line')
            /\ frames' = Append(frames, Stamped(line'.op, line'.id, "in"))
            /\ pc' = IF line'.op = "call" THEN "call"
                     ELSE IF line'.op = "final" THEN "wait" ELSE "read"
            /\ UNCHANGED protocol_error
       ELSE /\ Fatal
            /\ UNCHANGED <<validator, frames>>
  /\ UNCHANGED <<progVars, reader, tries, executed, result_rows, unflushed, expired,
                 endVars>>

\* The end of the program's output is not an error.
TakeEof ==
  /\ pc = "read" /\ ~expired
  /\ events # << >> /\ Head(events).kind = "eof"
  /\ events' = Tail(events)
  /\ pc' = "wait"
  /\ UNCHANGED <<progVars, reader, callVars, traceVars, protocol_error, unflushed,
                 expired, endVars>>

\* A slip: the loop polls the queue without looking at the deadline.
TakeErrorNoDeadline ==
  /\ pc = "read" /\ events # << >> /\ Head(events).kind = "error"
  /\ events' = Tail(events)
  /\ protocol_error' = TRUE
  /\ pc' = "wait"
  /\ UNCHANGED <<progVars, reader, callVars, traceVars, unflushed, expired, endVars>>

\* The reader failed, or _remaining_timeout_seconds raised: the loop ends, and
\* run_live still waits for the program.
TakeError ==
  /\ pc = "read"
  /\ \/ expired /\ UNCHANGED events
     \/ /\ ~expired
        /\ events # << >> /\ Head(events).kind = "error"
        /\ events' = Tail(events)
  /\ protocol_error' = TRUE
  /\ pc' = "wait"
  /\ UNCHANGED <<progVars, reader, callVars, traceVars, unflushed, expired, endVars>>

\* _require_call_fields and the deadline can refuse the call; a policy can
\* refuse the tool, which is an answer like any other.
Dispatch ==
  /\ pc = "call"
  /\ IF ~line.well \/ expired
       THEN Fatal /\ UNCHANGED tries
       ELSE /\ pc' = IF Refused(line.tool) THEN "fit_error" ELSE "tool"
            /\ tries' = 0
            /\ UNCHANGED protocol_error
  /\ UNCHANGED <<progVars, readerVars, line, executed, traceVars, unflushed, expired,
                 endVars>>

\* One registry.execute of execute_with_retry, ending with a result to send
\* (success, or the failure that is not retried) or with another try.
RunTool ==
  /\ pc = "tool"
  /\ executed' = [executed EXCEPT ![line.id] = @ + 1]
  /\ \E how \in {"success", "retryable", "failure"} :
       IF Retries(line.tool, how = "retryable")
         THEN tries' = tries + 1 /\ UNCHANGED pc
         ELSE pc' = (IF how = "success" THEN "fit_ok" ELSE "fit_error") /\ UNCHANGED tries
  /\ UNCHANGED <<progVars, readerVars, line, traceVars, protocol_error, unflushed,
                 expired, endVars>>

\* _fit_result_frame brings the result under the byte cap, or cannot: only a text output or
\* an error message is ever cut, not other output and not the metadata.  That is settled
\* before the write, which a program that does not read holds up for as long as it likes.
Fitting == pc \in {"fit_ok", "fit_error"}

ResultFits ==
  /\ Fitting
  /\ pc' = IF pc = "fit_ok" THEN "reply_ok" ELSE "reply_error"
  /\ UNCHANGED <<progVars, readerVars, callVars, traceVars, protocol_error, unflushed,
                 expired, endVars>>

\* Its number is spent.
ResultUnfit ==
  /\ Fitting
  /\ seq' = seq + 1
  /\ Fatal
  /\ UNCHANGED <<progVars, readerVars, callVars, validator, frames, result_rows,
                 unflushed, expired, endVars>>

\* The stamp and the validator's verdict, which only the supervisor knows of, are taken
\* together with the write; when the write is through the result is logged.
Answering == pc \in {"reply_ok", "reply_error"}
Answer == Stamped("result", line.id, "out")

SendResult ==
  /\ Answering
  /\ Accepts(validator, Answer)
  /\ StdinHeld /\ Len(stdin) < PipeCap
  /\ stdin' = Append(stdin, line.id)
  /\ seq' = seq + 1
  /\ validator' = Record(validator, Answer)
  /\ frames' = Append(frames, Answer)
  /\ result_rows' = Append(result_rows, Row(line.id, pc = "reply_ok"))
  /\ pc' = "read"
  /\ UNCHANGED <<alive, fds, heir, stdout, written, readerVars, callVars,
                 protocol_error, unflushed, expired, endVars>>

\* A slip: the row is recorded before the write.
SendBreaksWithRow ==
  /\ Answering /\ ~StdinHeld
  /\ seq' = seq + 1
  /\ validator' = Record(validator, Answer)
  /\ result_rows' = Append(result_rows, Row(line.id, pc = "reply_ok"))
  /\ unflushed' \in BOOLEAN
  /\ Fatal
  /\ UNCHANGED <<progVars, readerVars, callVars, frames, expired, endVars>>

\* Nobody reads stdin any more: the validator has seen the result and its
\* number is spent, but it is not logged.  Depending on the line's length the
\* writer keeps it buffered.
SendBreaks ==
  /\ Answering
  /\ Accepts(validator, Answer)
  /\ ~StdinHeld
  /\ seq' = seq + 1
  /\ validator' = Record(validator, Answer)
  /\ unflushed' \in BOOLEAN
  /\ Fatal
  /\ UNCHANGED <<progVars, readerVars, callVars, frames, result_rows, expired, endVars>>

\* proc.wait(timeout=5), then proc.kill().
WaitEnds ==
  /\ pc = "wait"
  /\ alive' = FALSE
  /\ fds' = {}
  /\ pc' = "shutdown"
  /\ UNCHANGED <<heir, stdout, stdin, written, readerVars, callVars, traceVars,
                 protocol_error, unflushed, expired, endVars>>

\* _shutdown_process terminates, then kills the program.
Terminate ==
  /\ pc = "shutdown"
  /\ alive' = FALSE
  /\ fds' = {}
  /\ pc' = "close"
  /\ UNCHANGED <<heir, stdout, stdin, written, readerVars, callVars, traceVars,
                 protocol_error, unflushed, expired, endVars>>

\* Closing stdin flushes its writer once more; the error that raises leaves
\* run_live.
CloseRaises ==
  /\ pc = "close" /\ unflushed
  /\ outcome' = "raised"
  /\ pc' = "done"
  /\ UNCHANGED <<progVars, readerVars, callVars, traceVars, protocol_error, unflushed,
                 expired, final_result>>

\* Otherwise stderr is read to its end, for which every process that inherited
\* it has to be gone.
CloseEnds ==
  /\ pc = "close" /\ ~unflushed /\ ~heir
  /\ pc' = "finish"
  /\ UNCHANGED <<progVars, readerVars, callVars, traceVars, protocol_error, unflushed,
                 expired, endVars>>

\* The program's final is projected on the supervisor's own rows, or a final is
\* made up; normalize_frames checks the whole trace, and a final whose rows no
\* longer fit makes it raise.
Finish ==
  /\ pc = "finish"
  /\ IF HasFinal
       THEN /\ UNCHANGED <<seq, frames>>
            /\ final_result' = [ok |-> line.ok, rows |-> result_rows]
       ELSE /\ seq' = seq + 1
            /\ frames' = Append(frames, Stamped("final", NoId, "in"))
            /\ final_result' = [ok |-> FALSE, rows |-> result_rows]
  /\ outcome' = IF /\ Len(result_rows) <= (IF HasFinal THEN line.room ELSE RowCap)
                   /\ ValidateTrace(frames')
                THEN "returned" ELSE "raised"
  /\ pc' = "done"
  /\ UNCHANGED <<progVars, readerVars, callVars, validator, result_rows,
                 protocol_error, unflushed, expired>>

Supervise ==
  \/ TakeFrame \/ TakeEof \/ TakeError
  \/ Dispatch \/ RunTool
  \/ ResultFits \/ ResultUnfit \/ SendResult \/ SendBreaks
  \/ WaitEnds \/ Terminate \/ CloseRaises \/ CloseEnds \/ Finish

-----------------------------------------------------------------------------
(* The run                                                                 *)

Init ==
  /\ alive = TRUE
  /\ fds = {"stdin", "stdout"}
  /\ heir = FALSE
  /\ stdout = << >> /\ stdin = << >> /\ written = 0
  /\ reader = "reading" /\ events = << >>
  /\ pc = "read" /\ line = NoLine /\ tries = 0
  /\ executed = [i \in CallIds |-> 0]
  /\ validator = NewValidator
  /\ seq = 0 /\ frames = << >> /\ result_rows = << >>
  /\ protocol_error = FALSE /\ unflushed = FALSE /\ expired = FALSE
  /\ final_result = NoFinal /\ outcome = "running"

\* The run is over; what the operating system does with leftovers is not ours.
Over == pc = "done" /\ UNCHANGED vars

Next == Program \/ Reader \/ Deadline \/ Supervise \/ Over

Spec == Init /\ [][Next]_vars

\* The supervisor and its reader are threads that run, time passes (the global
\* deadline, the five seconds of WaitEnds) and tools return.  Of the program
\* nothing is known.
SupervisorFairness ==
  /\ WF_vars(Reader)
  /\ WF_vars(Deadline)
  /\ WF_vars(Supervise)

LiveSpec == Spec /\ SupervisorFairness

\* The exit code _run_legacy derives from a run, and whether it left artifacts.
Verdict ==
  IF outcome = "running" THEN "running"
  ELSE IF outcome = "raised" THEN "lost"
  ELSE IF protocol_error THEN "fatal"
  ELSE IF final_result.ok THEN "ok" ELSE "failed"

-----------------------------------------------------------------------------
(* Properties                                                              *)

PCs == {"read", "call", "tool", "fit_ok", "fit_error", "reply_ok", "reply_error",
        "wait", "shutdown", "close", "finish", "done"}

EventType ==
  [kind : {"frame"}, line : Emittable]
    \cup [kind : {"error", "eof"}, line : Emittable \cup {NoLine}]
ValidatorType ==
  [seen_calls : SUBSET CallIds, seen_results : SUBSET CallIds,
   last_call_id : CallIds \cup {NoId}, final_count : {0, 1}]
FrameType == [op : Ops, id : Nat, dir : {"in", "out"}, seq : Nat]
RowType == [id : CallIds, ok : BOOLEAN]

\* Retries stay within the bound the code passes, every row is of a call the
\* program made, a trace never has two finals counted.
TypeOK ==
  /\ alive \in BOOLEAN /\ fds \subseteq {"stdin", "stdout"} /\ heir \in BOOLEAN
  /\ stdout \in Seq(Emittable) /\ stdin \in Seq(Nat) /\ written \in Nat
  /\ reader \in {"reading", "done"}
  /\ events \in Seq(EventType)
  /\ pc \in PCs
  /\ line \in Emittable \cup {NoLine}
  /\ tries \in 0..MaxRetries
  /\ executed \in [CallIds -> Nat]
  /\ validator \in ValidatorType
  /\ seq \in Nat
  /\ frames \in Seq(FrameType)
  /\ result_rows \in Seq(RowType)
  /\ protocol_error \in BOOLEAN /\ unflushed \in BOOLEAN /\ expired \in BOOLEAN
  /\ final_result \in [ok : BOOLEAN, rows : Seq(RowType)]
  /\ outcome \in {"running", "returned", "raised"}

\* Whatever the program writes, the trace obeys the protocol at every moment,
\* as the definition that does not mention the validator has it; and the trace
\* of a finished run ends with its final.  run_live accepts frames one by one
\* and leaves some it validated out.
TraceWellFormed ==
  /\ WellFormed(frames)
  /\ outcome = "returned" => HasFinal

\* A result in the trace, and a result the program can read, comes from the
\* supervisor: a result line of the program never gets through, because every
\* call is answered before the next frame is looked at.
NoForgedResult ==
  /\ \A k \in DOMAIN frames : frames[k].op = "result" <=> frames[k].dir = "out"
  /\ \A k \in DOMAIN stdin :
        \E j \in DOMAIN frames : frames[j].op = "result" /\ frames[j].id = stdin[k]

\* A run that reports no protocol error answered every call at once: the
\* result is the entry after the call.  An unanswered call is the last thing
\* before the made-up final, and the run says protocol error.
CallsAnswered ==
  \A k \in DOMAIN frames :
    frames[k].op = "call" =>
      \/ k = Len(frames)
      \/ frames[k + 1].op = "result" /\ frames[k + 1].id = frames[k].id
      \/ k + 1 = Len(frames) /\ HasFinal /\ protocol_error

\* final.json reports the supervisor's own results, all of them, in the order of the
\* trace, which is the order of their ids, and never success after a protocol error:
\* the two artifacts and the exit code tell the same story.
ResultsAt == {n \in DOMAIN frames : frames[n].op = "result"}
FinalMatchesTrace ==
  outcome = "returned" =>
    LET rows == final_result.rows IN
    /\ {frames[n].id : n \in ResultsAt} = {rows[k].id : k \in DOMAIN rows}
    /\ \A m, n \in ResultsAt : m < n => frames[m].id < frames[n].id
    /\ \A j, k \in DOMAIN rows : j < k => rows[j].id < rows[k].id
    /\ protocol_error => ~final_result.ok

\* A run that ended without a protocol error left a trace run_replay accepts.
CleanRunReplayable ==
  outcome = "returned" /\ ~protocol_error => ValidateStrictTrace(frames)

\* No tool runs for a call that is not in the trace; it runs at most once more
\* than its retry budget, not at all if the policy refuses it, and never twice
\* if the policy declares it not idempotent.
ToolRunsAudited ==
  \A i \in CallIds :
    executed[i] > 0 =>
      /\ \E k \in DOMAIN frames : frames[k].op = "call" /\ frames[k].id = i
      /\ \E l \in Emittable :
            /\ l.op = "call" /\ l.id = i
            /\ executed[i] <= 1 + Budget(l.tool)
            /\ ~Refused(l.tool)
            /\ Policy[l.tool].declared /\ ~Policy[l.tool].idempotent => executed[i] = 1

\* The trace as RunLog's log: a custom frame or a final has no call id.
Logged(f) == [op |-> f.op, id |-> IF f.op \in {"call", "result"} THEN f.id ELSE NoId]
LogOf(trace) == [k \in DOMAIN trace |-> Logged(trace[k])]

\* A live run keeps the promises of RunLog: its trace is the log, its exit code
\* the verdict.
Log == INSTANCE RunLog WITH
  log <- LogOf(frames), highest <- validator.last_call_id, verdict <- Verdict
RunContract == Log!LogSpec

\* Where the program can hold the supervisor up: a write to a pipe that is full and that
\* nobody reads, and the closing of pipes that a process left behind holds open.
HeldInWrite == Answering /\ StdinHeld /\ Len(stdin) = PipeCap
HeldInClose == pc = "close" /\ heir

\* The run ends, whatever the program does, unless it holds the supervisor for ever in one of
\* these two places; there the global timeout does not reach (run_live, _shutdown_process).
RunEnds == <>(outcome # "running") \/ <>[]HeldInWrite \/ <>[]HeldInClose

\* "Every run emits trace.ndjson + final.json" (docs/handoff/002).
EveryRunEmits == outcome # "raised"

=============================================================================
