------------------------------ MODULE Protocol ------------------------------
(***************************************************************************)
(* The line protocol between a pirml program and its supervisor            *)
(* (pirml/runtime/rpc.py).  A frame is a record with at least the fields   *)
(* op and id.  An id that matches ^c\d{5}$ is known by its rank (the code    *)
(* only compares ids): c00000 is 1, c00001 is 2, and so on.  NoId stands   *)
(* for every other id, and for the ids of frames that carry none.          *)
(*                                                                         *)
(* StreamValidator is the progressive state machine every frame passes     *)
(* through; validate_trace and validate_strict_trace replay it over a      *)
(* whole trace.                                                            *)
(***************************************************************************)
EXTENDS Naturals, Sequences, SequencesExt

NoId == 0

\* The operations validate_frame knows.
Ops == {"call", "result", "final", "custom"}

\* StreamValidator.__init__
NewValidator ==
  [seen_calls |-> {}, seen_results |-> {}, last_call_id |-> NoId, final_count |-> 0]

\* Slips: ids only have to be new, and a result may be repeated.
AcceptsAnyNewCall(v, f) == f.id # NoId /\ f.id \notin v.seen_calls
AcceptsResultTwice(v, f) == f.id # NoId /\ f.id \in v.seen_calls

\* A call id is new and greater than the last one.
AcceptsCall(v, f) ==
  /\ f.id # NoId
  /\ f.id \notin v.seen_calls
  /\ f.id > v.last_call_id

\* A result names a call that was seen and has no result yet.
AcceptsResult(v, f) ==
  /\ f.id # NoId
  /\ f.id \in v.seen_calls
  /\ f.id \notin v.seen_results

\* StreamValidator.validate_frame does not raise (the byte cap apart: a frame
\* over it never reaches these checks).
Accepts(v, f) ==
  /\ f.op \in Ops
  /\ v.final_count = 0
  /\ f.op = "call" => AcceptsCall(v, f)
  /\ f.op = "result" => AcceptsResult(v, f)

\* What validate_frame records of a frame it accepts.
Record(v, f) ==
  [seen_calls   |-> IF f.op = "call" THEN v.seen_calls \cup {f.id} ELSE v.seen_calls,
   seen_results |-> IF f.op = "result" THEN v.seen_results \cup {f.id}
                    ELSE v.seen_results,
   last_call_id |-> IF f.op = "call" THEN f.id ELSE v.last_call_id,
   final_count  |-> IF f.op = "final" THEN v.final_count + 1 ELSE v.final_count]

\* One step of validate_trace: a rejected frame fails the whole trace.
ValidateNext(run, f) ==
  [valid |-> run.valid /\ Accepts(run.validator, f), validator |-> Record(run.validator, f)]

\* validate_trace: every frame is accepted in turn and the trace has one final.
\* "final frame must be last" adds nothing: a frame after it is rejected.
ValidateTrace(frames) ==
  LET run == FoldLeft(ValidateNext, [valid |-> TRUE, validator |-> NewValidator], frames)
  IN  run.valid /\ run.validator.final_count = 1

\* validate_strict_trace: moreover seq counts 1, 2, ... without a gap and dir is
\* one of the two directions (ts, ms and the hashes are always stamped).
ValidateStrictTrace(frames) ==
  /\ ValidateTrace(frames)
  /\ \A k \in DOMAIN frames : frames[k].seq = k /\ frames[k].dir \in {"in", "out"}

\* What a trace that the validator accepted so far means, stated without the
\* state machine: call ids ascend, a result follows the call of its id and is
\* the only one, nothing follows a final.
WellFormed(frames) ==
  /\ \A j, k \in DOMAIN frames :
        j < k => /\ frames[j].op # "final"
                 /\ frames[j].op = "call" /\ frames[k].op = "call"
                      => frames[j].id < frames[k].id
                 /\ frames[j].op = "result" /\ frames[k].op = "result"
                      => frames[j].id # frames[k].id
  /\ \A k \in DOMAIN frames :
        frames[k].op = "result" =>
          \E j \in 1..(k - 1) : frames[j].op = "call" /\ frames[j].id = frames[k].id
=============================================================================
