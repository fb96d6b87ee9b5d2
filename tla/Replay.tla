------------------------------- MODULE Replay -------------------------------
(***************************************************************************)
(* One replay (run_replay in pirml/runtime/exec.py): a program runs again, *)
(* no tool does; each call is answered from the trace of an earlier run,   *)
(* and the final is compared with that run's.                              *)
(*                                                                         *)
(* The earlier run is a live run of a script: the lines a program writes   *)
(* when it gets these answers.  The program replayed is either the same    *)
(* one (it writes the script again) or one that has changed since, which   *)
(* may write any line at any time.  The pipes, the reader thread and the   *)
(* shutdown are those of Supervisor and are reduced here to what the loop  *)
(* sees of them: the next line, the end of the output, or an error.        *)
(* A recorded answer is taken to fit under the byte cap as it did live.    *)
(***************************************************************************)
EXTENDS Protocol

CONSTANTS
  Scripts,      \* what a program may write in the live run
  Drift,        \* lines a changed program may write
  RowCap,       \* result rows for which a made-up final stays under the byte cap
  MetaCap,      \* the same when it carries the parity metadata
  MaxFrames     \* bound: frames of a replayed trace

Frame(op, id, dir, n) == [op |-> op, id |-> id, dir |-> dir, seq |-> n]

\* run_live without an error: every call is answered at once.
Exchange(run, l) ==
  IF l.op = "call"
    THEN [frames |-> run.frames \o <<Frame("call", l.id, "in", Len(run.frames) + 1),
                                     Frame("result", l.id, "out", Len(run.frames) + 2)>>,
          calls  |-> Append(run.calls, l)]
    ELSE [frames |-> Append(run.frames, Frame(l.op, l.id, "in", Len(run.frames) + 1)),
          calls  |-> run.calls]

\* The frames and the calls of a live run when it has read n lines of its script.
Exchanged(s) ==
  LET run[n \in 0..Len(s)] ==
        IF n = 0 THEN [frames |-> << >>, calls |-> << >>] ELSE Exchange(run[n - 1], s[n])
  IN  run

\* The calls of a script.
Calls(s) == Exchanged(s)[Len(s)].calls

\* A line: tool of a call; well that the call has its fields; ok a final's
\* result.ok; room how many rows fit in that final, and metaRoom how many with
\* the parity metadata.  The live run accepted every line of its script: the ids
\* of the calls ascend, and a final is the last line.
ASSUME ReplayAssumption ==
  /\ RowCap \in Nat /\ MetaCap \in 0..RowCap /\ MaxFrames \in Nat
  /\ \A s \in Scripts :
        /\ s \in Seq(ToSet(s))
        /\ \A k \in DOMAIN s :
             /\ s[k].op \in {"call", "custom", "final"} /\ s[k].id \in Nat
             /\ s[k].op = "final" => k = Len(s)
             /\ s[k].op = "call" => s[k].well /\ s[k].id # NoId
        /\ \A j, k \in DOMAIN s :
             j < k /\ s[j].op = "call" /\ s[k].op = "call" => s[j].id < s[k].id

VARIABLES
  script,           \* what the live run's program wrote
  source,           \* its run: [frames, calls, rows, final]
  faithful,         \* the program replayed is the same
  next,             \* the program: how many lines it wrote
  pc,               \* where run_replay stands
  line,             \* the call being served
  planned,          \* the plan was built
  call_index,       \* how many calls were answered
  validator, seq, frames, result_rows, protocol_error,
  final_result, outcome,
  disturbed         \* history: a timeout or a broken pipe

sourceVars == <<script, source, faithful>>
traceVars == <<validator, seq, frames, result_rows>>
endVars == <<final_result, outcome>>
vars == <<sourceVars, next, pc, line, planned, call_index, traceVars, protocol_error,
          endVars, disturbed>>

NoLine == [op |-> "none"]
NoFinal == [ok |-> FALSE, rows |-> << >>]
Row(l, answer) == [id |-> l.id, tool |-> l.tool, answer |-> answer]

-----------------------------------------------------------------------------
(* The live run                                                            *)

Concluded(s) == s # << >> /\ Last(s).op = "final"

\* Of a run that was not cut short the trace holds the script; otherwise a
\* final is made up, after the call whose answer failed ("unanswered") or after
\* a number that went to no frame ("gap").
LiveRun(s, answers, damage) ==
  LET whole == Exchanged(s)[Len(s)].frames
      calls == Calls(s)
      cut   == IF damage = "unanswered" THEN 1 ELSE 0
      kept  == SubSeq(whole, 1, Len(whole) - cut)
      rows  == [k \in 1..(Len(calls) - cut) |-> Row(calls[k], answers[k])]
      skip  == IF damage = "gap" THEN 2 ELSE 1
  IN  [frames |-> IF Concluded(s) THEN kept
                  ELSE Append(kept, Frame("final", NoId, "in", Len(kept) + skip)),
       calls  |-> [k \in DOMAIN calls |-> calls[k].id],
       rows   |-> rows,
       final  |-> [ok |-> Concluded(s) /\ Last(s).ok, rows |-> rows]]

\* A live run whose final does not fit leaves no trace to replay.
FitsLive(s) ==
  Len(Calls(s)) <= (IF Concluded(s) THEN Last(s).room ELSE RowCap)

\* The damage a run of the script can have taken.
Damages(s) ==
  {"none"} \cup (IF Concluded(s) THEN {} ELSE {"gap"})
    \cup (IF s # << >> /\ Last(s).op = "call" THEN {"unanswered"} ELSE {})

-----------------------------------------------------------------------------
(* _build_replay_plan                                                      *)

Cassette(id) == CHOOSE r \in ToSet(source.rows) : r.id = id
InCassette(id) == \E r \in ToSet(source.rows) : r.id = id

\* The trace is validated before anything is spawned; if it fails, only a made-up
\* final is left to write.
BuildPlan ==
  /\ pc = "plan"
  /\ IF ValidateStrictTrace(source.frames)
       THEN planned' = TRUE /\ pc' = "read" /\ UNCHANGED protocol_error
       ELSE protocol_error' = TRUE /\ pc' = "finish" /\ UNCHANGED planned
  /\ UNCHANGED <<sourceVars, next, line, call_index, traceVars, endVars, disturbed>>

-----------------------------------------------------------------------------
(* The loop                                                                *)

\* The line the program writes next.
Writes(l) == IF faithful THEN next < Len(script) /\ l = script[next + 1] ELSE l \in Drift

\* An exception inside the loop.
Fatal ==
  /\ protocol_error' = TRUE
  /\ pc' = "finish"

\* A slip: a final is good at any time.
FinalAnyTime == TRUE

\* A final has to come after the last call of the plan.
FinalInTime == call_index = Len(source.calls)

\* A frame is stamped, validated and logged, and then looked at.
TakeFrame(l) ==
  /\ pc = "read" /\ Writes(l) /\ Len(frames) < MaxFrames
  /\ next' = next + 1
  /\ line' = l
  /\ seq' = seq + 1
  /\ IF Accepts(validator, l)
       THEN /\ validator' = Record(validator, l)
            /\ frames' = Append(frames, Frame(l.op, l.id, "in", seq'))
            /\ IF l.op = "final" /\ ~FinalInTime
                 THEN Fatal
                 ELSE /\ pc' = IF l.op = "call" THEN "call"
                               ELSE IF l.op = "final" THEN "finish" ELSE "read"
                      /\ UNCHANGED protocol_error
       ELSE Fatal /\ UNCHANGED <<validator, frames>>
  /\ UNCHANGED <<sourceVars, planned, call_index, result_rows, endVars, disturbed>>

\* The end of the output is not an error.
TakeEof ==
  /\ pc = "read"
  /\ faithful => next = Len(script)
  /\ pc' = "finish"
  /\ UNCHANGED <<sourceVars, next, line, planned, call_index, traceVars, protocol_error,
                 endVars, disturbed>>

\* The global timeout, or a line that cannot be parsed.
TakeError ==
  /\ pc = "read"
  /\ Fatal
  /\ disturbed' = TRUE
  /\ UNCHANGED <<sourceVars, next, line, planned, call_index, traceVars, endVars>>

\* Slips: any id that has an answer will do; the last call of the plan is one too
\* many.
ExpectsAnyId(l) == call_index < Len(source.calls) /\ InCassette(l.id)
ExpectsFewer(l) ==
  /\ l.well
  /\ call_index + 1 < Len(source.calls)
  /\ l.id = source.calls[call_index + 1]
  /\ InCassette(l.id)

\* The call is the next one of the plan, and has a result.
Expected(l) ==
  /\ l.well
  /\ call_index < Len(source.calls)
  /\ l.id = source.calls[call_index + 1]
  /\ InCassette(l.id)

Refuse ==
  /\ pc = "call" /\ ~Expected(line)
  /\ Fatal
  /\ UNCHANGED <<sourceVars, next, line, planned, call_index, traceVars, endVars,
                 disturbed>>

\* The recorded answer is stamped, validated, written and logged.
SendResult ==
  /\ pc = "call" /\ Expected(line)
  /\ LET answer == Frame("result", line.id, "out", seq + 1) IN
       /\ Accepts(validator, answer)
       /\ validator' = Record(validator, answer)
       /\ frames' = Append(frames, answer)
  /\ seq' = seq + 1
  /\ result_rows' = Append(result_rows, Row(line, Cassette(line.id).answer))
  /\ call_index' = call_index + 1
  /\ pc' = "read"
  /\ UNCHANGED <<sourceVars, next, line, planned, protocol_error, endVars, disturbed>>

\* The write fails: the validator has seen the result, the trace has not.  If the
\* writer keeps the line, closing stdin in _shutdown_process fails once more,
\* and that error leaves run_replay.
SendBreaks ==
  /\ pc = "call" /\ Expected(line)
  /\ seq' = seq + 1
  /\ validator' = Record(validator, Frame("result", line.id, "out", seq'))
  /\ protocol_error' = TRUE
  /\ disturbed' = TRUE
  /\ \/ pc' = "finish" /\ UNCHANGED outcome
     \/ pc' = "done" /\ outcome' = "raised"
  /\ UNCHANGED <<sourceVars, next, line, planned, call_index, frames, result_rows,
                 final_result>>

\* A slip: the first frame is looked at in place of the last.
HasFinalFirst == frames # << >> /\ Head(frames).op = "final"

HasFinal == frames # << >> /\ Last(frames).op = "final"

\* A slip: the rows are left out of the comparison.
SameOk(final) == final.ok = source.final.ok

\* _replay_parity_meta: the hashes of the two finals.
Parity(final) == final = source.final

\* The final is projected or made up; once there was a plan it is compared with
\* the source's and the comparison added to it; normalize_frames raises when
\* the final has become too long.
Finish ==
  /\ pc = "finish"
  /\ final_result' = [ok |-> HasFinal /\ line.ok, rows |-> result_rows]
  /\ IF HasFinal
       THEN UNCHANGED <<seq, frames>>
       ELSE /\ seq' = seq + 1
            /\ frames' = Append(frames, Frame("final", NoId, "in", seq'))
  /\ protocol_error' = (protocol_error \/ (planned /\ ~Parity(final_result')))
  /\ LET room == IF HasFinal THEN line.metaRoom ELSE IF planned THEN MetaCap ELSE RowCap
     IN outcome' = IF Len(result_rows) <= room /\ ValidateTrace(frames')
                   THEN "returned" ELSE "raised"
  /\ pc' = "done"
  /\ UNCHANGED <<sourceVars, next, line, planned, call_index, validator, result_rows,
                 disturbed>>

-----------------------------------------------------------------------------

Init ==
  /\ script \in {s \in Scripts : FitsLive(s)}
  /\ \E answers \in [1..Len(Calls(script)) -> {"ok", "error"}],
        damage \in Damages(script) : source = LiveRun(script, answers, damage)
  /\ faithful \in BOOLEAN
  /\ next = 0 /\ pc = "plan" /\ line = NoLine /\ planned = FALSE /\ call_index = 0
  /\ validator = NewValidator /\ seq = 0 /\ frames = << >> /\ result_rows = << >>
  /\ protocol_error = FALSE /\ final_result = NoFinal /\ outcome = "running"
  /\ disturbed = FALSE

Over == pc = "done" /\ UNCHANGED vars

Next ==
  \/ BuildPlan
  \/ \E l \in Drift \cup ToSet(script) : TakeFrame(l)
  \/ TakeEof \/ TakeError \/ Refuse \/ SendResult \/ SendBreaks \/ Finish
  \/ Over

Spec == Init /\ [][Next]_vars

Verdict ==
  IF outcome = "running" THEN "running"
  ELSE IF outcome = "raised" THEN "lost"
  ELSE IF protocol_error THEN "fatal"
  ELSE IF final_result.ok THEN "ok" ELSE "failed"

-----------------------------------------------------------------------------
(* Properties                                                              *)

\* A replay without an error means something: the program made the calls of the
\* source that have an answer, in their order, with the same tools, got the
\* same answers and came to the same result; and its trace holds these answers in
\* that order, which is the order of their ids.
ResultsAt == {n \in DOMAIN frames : frames[n].op = "result"}
ReplayFaithful ==
  outcome = "returned" /\ ~protocol_error =>
    /\ result_rows = source.rows
    /\ final_result = source.final
    /\ {frames[n].id : n \in ResultsAt} = {r.id : r \in ToSet(source.rows)}
    /\ \A m, n \in ResultsAt : m < n => frames[m].id < frames[n].id

\* At no time has a program been given an answer that the source did not give to
\* the same call after the same calls.
AnswersInOrder ==
  \A k \in DOMAIN result_rows :
    result_rows[k].id = source.rows[k].id /\ result_rows[k].answer = source.rows[k].answer

\* Replaying the same program finds no difference, unless something disturbed
\* the replay, the source is damaged, or the final has no room for the parity
\* metadata.
Undamaged == ValidateStrictTrace(source.frames) /\ Len(source.rows) = Len(source.calls)
MetaFits ==
  Len(source.rows) <= (IF Concluded(script) THEN Last(script).metaRoom ELSE MetaCap)
SameProgramMatches ==
  outcome # "running" /\ faithful /\ ~disturbed /\ Undamaged /\ MetaFits =>
    outcome = "returned" /\ ~protocol_error

\* A replay keeps the promises of RunLog as a live run does.
Logged(f) == [op |-> f.op, id |-> IF f.op \in {"call", "result"} THEN f.id ELSE NoId]
LogOf(trace) == [k \in DOMAIN trace |-> Logged(trace[k])]
CallIds == {l.id : l \in Drift \cup UNION {ToSet(s) : s \in Scripts}} \ {NoId}
Log == INSTANCE RunLog WITH
  log <- LogOf(frames), highest <- validator.last_call_id, verdict <- Verdict
ReplayContract == Log!LogSpec

=============================================================================
