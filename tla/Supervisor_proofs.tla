-------------------------- MODULE Supervisor_proofs --------------------------
(***************************************************************************)
(* Theorems about Supervisor, for every program, policy and bound: types;  *)
(* the trace, which obeys the protocol, has no result but the supervisor's *)
(* and answers calls at once; the final, which tells the same; and the     *)
(* promises of RunLog.                                                     *)
(***************************************************************************)
EXTENDS Supervisor, SequenceTheorems, TLAPS

-----------------------------------------------------------------------------
(* Lines, frames, the validator                                            *)

LEMMA LineTypes ==
  ASSUME NEW l \in Emittable
  PROVE  /\ l.op \in Ops \cup {"bogus", "junk"}
         /\ l.id \in Nat
         /\ l.tool \in Tools
         /\ l.big \in BOOLEAN
         /\ l.ok \in BOOLEAN
         /\ l.room \in Nat
         /\ l.op = "call" /\ l.id # NoId => l.id \in CallIds
  BY SupervisorAssumption DEF Lines, CallIds

LEMMA CallIdsNat == CallIds \subseteq Nat /\ NoId \notin CallIds
  BY LineTypes DEF CallIds

\* What validate_frame records of an accepted frame keeps its type.
LEMMA RecordType ==
  ASSUME NEW v \in ValidatorType, NEW f, f.id \in Nat, Accepts(v, f),
         f.op = "call" => f.id \in CallIds
  PROVE  Record(v, f) \in ValidatorType
<1>1. CASE f.op = "call"
  BY <1>1 DEF ValidatorType, Record, Accepts, AcceptsCall
<1>2. CASE f.op = "result"
  BY <1>2 DEF ValidatorType, Record, Accepts, AcceptsResult
<1>3. CASE f.op = "final"
  BY <1>3 DEF ValidatorType, Record, Accepts
<1>4. CASE f.op = "custom"
  BY <1>4 DEF ValidatorType, Record, Accepts
<1> QED BY <1>1, <1>2, <1>3, <1>4 DEF Accepts, Ops

LEMMA StampedType ==
  ASSUME NEW op \in Ops, NEW id \in Nat, NEW dir \in {"in", "out"}, seq \in Nat
  PROVE  /\ Stamped(op, id, dir) \in FrameType
         /\ Stamped(op, id, dir).op = op
         /\ Stamped(op, id, dir).id = id
         /\ Stamped(op, id, dir).dir = dir
         /\ Stamped(op, id, dir).seq = seq + 1
  BY DEF Stamped, FrameType

\* The event a step takes from the queue, and what it leaves.
LEMMA HeadEvent ==
  ASSUME TypeOK, events # << >>
  PROVE  /\ Head(events) \in EventType
         /\ Tail(events) \in Seq(EventType)
         /\ Head(events).kind = "frame" => Head(events).line \in Emittable
<1>1. events \in Seq(EventType)
  BY DEF TypeOK
<1>2. Head(events) \in EventType /\ Tail(events) \in Seq(EventType)
  BY <1>1
<1> QED BY <1>2 DEF EventType

-----------------------------------------------------------------------------
(* Type correctness                                                        *)

\* While a call is served, the line at hand is that call; and a trace that is
\* not empty began with a line of the program.
Serving == pc \in {"call", "tool", "fit_ok", "fit_error", "reply_ok", "reply_error"}
LineInv ==
  /\ Serving => line \in Emittable /\ line.op = "call" /\ line.id \in CallIds
  /\ pc # "done" /\ frames # << >> => line \in Emittable

TypeInv == TypeOK /\ LineInv

LEMMA InitTypeInv == Init => TypeInv
<1> SUFFICES ASSUME Init PROVE TypeInv
  OBVIOUS
<1>1. validator \in ValidatorType
  BY DEF Init, NewValidator, ValidatorType
<1>2. final_result \in [ok : BOOLEAN, rows : Seq(RowType)]
  BY DEF Init, NoFinal
<1>3. executed \in [CallIds -> Nat] /\ tries \in 0..MaxRetries
  BY DEF Init, MaxRetries
<1>4. /\ stdout \in Seq(Emittable) /\ stdin \in Seq(Nat) /\ events \in Seq(EventType)
      /\ frames \in Seq(FrameType) /\ result_rows \in Seq(RowType)
  BY DEF Init
<1>5. TypeOK
  BY <1>1, <1>2, <1>3, <1>4 DEF Init, TypeOK, PCs
<1> QED BY <1>5 DEF Init, TypeInv, LineInv, Serving

LEMMA ProgramTypeInv == TypeInv /\ Program => TypeInv'
<1> SUFFICES ASSUME TypeInv, Program PROVE TypeInv'
  OBVIOUS
<1> USE DEF TypeInv, SupervisorSame, readerVars, callVars, traceVars, endVars
<1>1. LineInv'
  BY DEF LineInv, Serving, Program
<1>2. /\ alive' \in BOOLEAN /\ fds' \subseteq {"stdin", "stdout"} /\ heir' \in BOOLEAN
      /\ stdout' \in Seq(Emittable) /\ stdin' \in Seq(Nat) /\ written' \in Nat
  <2>1. CASE ProgramWrites
    BY <2>1 DEF ProgramWrites, TypeOK
  <2>2. CASE ProgramReads
    BY <2>2 DEF ProgramReads, TypeOK
  <2>3. CASE ProgramCloses
    BY <2>3 DEF ProgramCloses, TypeOK
  <2>4. CASE ProgramForks
    BY <2>4 DEF ProgramForks, TypeOK
  <2>5. CASE ProgramExits
    BY <2>5 DEF ProgramExits, TypeOK
  <2>6. CASE HeirExits
    BY <2>6 DEF HeirExits, TypeOK
  <2> QED BY <2>1, <2>2, <2>3, <2>4, <2>5, <2>6 DEF Program
<1> QED BY <1>1, <1>2 DEF Program, TypeOK

LEMMA ReaderTypeInv == TypeInv /\ Reader => TypeInv'
<1> SUFFICES ASSUME TypeInv, Reader PROVE TypeInv'
  OBVIOUS
<1> USE DEF TypeInv
<1>1. LineInv'
  BY DEF LineInv, Serving, Reader, callVars, traceVars
<1>2. /\ alive' \in BOOLEAN /\ fds' \subseteq {"stdin", "stdout"} /\ heir' \in BOOLEAN
      /\ stdout' \in Seq(Emittable) /\ stdin' \in Seq(Nat) /\ written' \in Nat
  <2>1. CASE ReaderReads
    BY <2>1 DEF TypeOK, ReaderReads
  <2>2. CASE ReaderEnds
    BY <2>2 DEF TypeOK, ReaderEnds, progVars
  <2> QED BY <2>1, <2>2 DEF Reader
<1>3. \E e \in EventType : events' = Append(events, e)
  <2>1. CASE ReaderReads
    <3>1. stdout \in Seq(Emittable) /\ stdout # << >>
      BY <2>1 DEF ReaderReads, TypeOK
    <3>2. Head(stdout) \in Emittable
      BY <3>1
    <3> QED BY <2>1, <3>2 DEF ReaderReads, EventType
  <2>2. CASE ReaderEnds
    BY <2>2 DEF ReaderEnds, EventType
  <2> QED BY <2>1, <2>2 DEF Reader
<1>4. events' \in Seq(EventType)
  BY <1>3, AppendProperties DEF TypeOK
<1>5. reader' \in {"reading", "done"}
  BY DEF TypeOK, Reader, ReaderReads, ReaderEnds
<1> QED BY <1>1, <1>2, <1>4, <1>5 DEF Reader, TypeOK, callVars, traceVars, endVars

LEMMA TakeFrameTypeInv == TypeInv /\ TakeFrame => TypeInv'
<1> SUFFICES ASSUME TypeInv, TakeFrame PROVE TypeInv'
  OBVIOUS
<1> USE DEF TypeInv
<1>1. line' \in Emittable /\ events' \in Seq(EventType)
  BY HeadEvent DEF TakeFrame
<1>2. seq' \in Nat
  BY DEF TakeFrame, TypeOK
<1>3. CASE ~line'.big /\ Accepts(validator, line')
  <2>1. line'.id \in Nat /\ line'.op \in Ops /\ (line'.op = "call" => line'.id \in CallIds)
    BY <1>1, <1>3, LineTypes DEF Accepts, AcceptsCall
  <2>2. validator' \in ValidatorType
    BY <1>3, <2>1, RecordType DEF TakeFrame, TypeOK
  <2>3. Stamped(line'.op, line'.id, "in") \in FrameType
    BY <2>1, StampedType DEF TypeOK
  <2>4. frames' \in Seq(FrameType)
    <3>1. frames' = Append(frames, Stamped(line'.op, line'.id, "in"))
      BY <1>3 DEF TakeFrame
    <3>2. frames \in Seq(FrameType)
      BY DEF TypeOK
    <3> QED BY <2>3, <3>1, <3>2, AppendProperties
  <2>5. pc' \in {"call", "wait", "read"} /\ (pc' = "call" => line'.op = "call")
    BY <1>3 DEF TakeFrame
  <2>6. LineInv'
    BY <1>1, <2>1, <2>5 DEF LineInv, Serving
  <2> QED BY <1>1, <1>2, <1>3, <2>2, <2>4, <2>5, <2>6
          DEF TakeFrame, TypeOK, PCs, progVars, endVars
<1>4. CASE ~(~line'.big /\ Accepts(validator, line'))
  <2>1. /\ pc' = "shutdown" /\ protocol_error' = TRUE
        /\ UNCHANGED <<validator, frames>>
    BY <1>4 DEF TakeFrame, Fatal
  <2>2. LineInv'
    BY <1>1, <2>1 DEF LineInv, Serving
  <2> QED BY <1>1, <1>2, <2>1, <2>2 DEF TakeFrame, TypeOK, PCs, progVars, endVars
<1> QED BY <1>3, <1>4

LEMMA SendTypeInv == TypeInv /\ (SendResult \/ SendBreaks) => TypeInv'
<1> SUFFICES ASSUME TypeInv, SendResult \/ SendBreaks PROVE TypeInv'
  OBVIOUS
<1> USE DEF TypeInv
<1>1. line \in Emittable /\ line.id \in CallIds /\ line.id \in Nat
  BY CallIdsNat DEF SendResult, SendBreaks, Answering, LineInv, Serving
<1>2. Answer \in FrameType /\ Answer.id = line.id /\ Answer.op = "result"
  BY <1>1, StampedType DEF Answer, Ops, TypeOK
<1>3. validator' \in ValidatorType
  BY <1>1, <1>2, RecordType DEF SendResult, SendBreaks, TypeOK
<1>4. seq' \in Nat
  BY DEF SendResult, SendBreaks, TypeOK
<1>5. frames' \in Seq(FrameType)
  <2>1. frames' = frames \/ frames' = Append(frames, Answer)
    BY DEF SendResult, SendBreaks
  <2>2. frames \in Seq(FrameType)
    BY DEF TypeOK
  <2>3. Append(frames, Answer) \in Seq(FrameType)
    BY <1>2, <2>2, AppendProperties
  <2> QED BY <2>1, <2>2, <2>3
<1>6. stdin' \in Seq(Nat)
  <2>1. stdin' = stdin \/ stdin' = Append(stdin, line.id)
    BY DEF SendResult, SendBreaks, progVars
  <2>2. stdin \in Seq(Nat)
    BY DEF TypeOK
  <2>3. Append(stdin, line.id) \in Seq(Nat)
    BY <1>1, <2>2, AppendProperties
  <2> QED BY <2>1, <2>2, <2>3
<1>7. result_rows' \in Seq(RowType)
  <2>1. (pc = "reply_ok") \in BOOLEAN
    OBVIOUS
  <2>2. Row(line.id, pc = "reply_ok") \in RowType
    BY <1>1, <2>1 DEF Row, RowType
  <2>3. result_rows' = result_rows
        \/ result_rows' = Append(result_rows, Row(line.id, pc = "reply_ok"))
    BY DEF SendResult, SendBreaks
  <2>4. result_rows \in Seq(RowType)
    BY DEF TypeOK
  <2> QED BY <2>2, <2>3, <2>4, AppendProperties
<1>8. LineInv'
  BY <1>1 DEF LineInv, Serving, SendResult, SendBreaks, Fatal, callVars
<1>9. CASE SendResult
  BY <1>3, <1>4, <1>5, <1>6, <1>7, <1>8, <1>9
  DEF SendResult, readerVars, callVars, endVars, TypeOK, PCs
<1>10. CASE SendBreaks
  BY <1>3, <1>4, <1>5, <1>6, <1>7, <1>8, <1>10
  DEF SendBreaks, Fatal, progVars, readerVars, callVars, endVars, TypeOK, PCs
<1> QED BY <1>9, <1>10

LEMMA FinishTypeInv == TypeInv /\ Finish => TypeInv'
<1> SUFFICES ASSUME TypeInv, Finish PROVE TypeInv'
  OBVIOUS
<1> USE DEF TypeInv
<1>1. HasFinal => line.ok \in BOOLEAN
  BY LineTypes DEF Finish, LineInv, HasFinal
<1>2. final_result' \in [ok : BOOLEAN, rows : Seq(RowType)]
  <2>1. result_rows \in Seq(RowType)
    BY DEF TypeOK
  <2>2. \E b \in BOOLEAN : final_result' = [ok |-> b, rows |-> result_rows]
    BY <1>1 DEF Finish
  <2> QED BY <2>1, <2>2
<1>3. Stamped("final", NoId, "in") \in FrameType
  BY StampedType DEF Ops, NoId, TypeOK
<1>4. frames' \in Seq(FrameType)
  <2>1. frames' = frames \/ frames' = Append(frames, Stamped("final", NoId, "in"))
    BY DEF Finish
  <2>2. frames \in Seq(FrameType)
    BY DEF TypeOK
  <2> QED BY <1>3, <2>1, <2>2, AppendProperties
<1>5. seq' \in Nat
  BY DEF Finish, TypeOK
<1>6. outcome' \in {"running", "returned", "raised"} /\ pc' = "done"
  BY DEF Finish
<1>7. LineInv'
  BY <1>6 DEF LineInv, Serving
<1> QED BY <1>2, <1>4, <1>5, <1>6, <1>7
        DEF Finish, progVars, readerVars, callVars, TypeOK, PCs

\* The steps that neither log nor send.
LEMMA OtherTypeInv ==
  TypeInv /\ (\/ TakeEof \/ TakeError \/ Dispatch \/ RunTool \/ ResultFits \/ ResultUnfit
              \/ WaitEnds \/ Terminate \/ CloseRaises \/ CloseEnds)
    => TypeInv'
<1> SUFFICES ASSUME TypeInv PROVE (\/ TakeEof \/ TakeError \/ Dispatch \/ RunTool
              \/ ResultFits \/ ResultUnfit \/ WaitEnds \/ Terminate \/ CloseRaises
              \/ CloseEnds) => TypeInv'
  OBVIOUS
<1> USE DEF TypeInv, progVars, readerVars, callVars, traceVars, endVars
<1>1. CASE TakeEof
  <2>1. events' \in Seq(EventType)
    BY <1>1, HeadEvent DEF TakeEof
  <2> QED BY <1>1, <2>1 DEF TakeEof, TypeOK, LineInv, Serving, PCs
<1>2. CASE TakeError
  <2>1. events' \in Seq(EventType)
    BY <1>2, HeadEvent DEF TakeError, TypeOK
  <2> QED BY <1>2, <2>1 DEF TakeError, TypeOK, LineInv, Serving, PCs
<1>3. CASE Dispatch
  <2>1. /\ pc' \in {"tool", "fit_error", "shutdown"}
        /\ protocol_error' \in BOOLEAN
        /\ tries' = 0 \/ tries' = tries
    BY <1>3 DEF Dispatch, Fatal, TypeOK
  <2>2. LineInv'
    BY <1>3, <2>1 DEF Dispatch, LineInv, Serving
  <2>3. tries' \in 0..MaxRetries
    BY <2>1 DEF TypeOK, MaxRetries
  <2> QED BY <1>3, <2>1, <2>2, <2>3 DEF Dispatch, TypeOK, PCs
<1>4. CASE RunTool
  <2>1. executed' \in [CallIds -> Nat]
    BY <1>4 DEF RunTool, TypeOK, LineInv, Serving
  <2>2. tries' \in 0..MaxRetries /\ pc' \in {"tool", "fit_ok", "fit_error"}
    <3>1. line.tool \in Tools
      BY <1>4, LineTypes DEF RunTool, LineInv, Serving
    <3>2. Budget(line.tool) \in 0..MaxRetries
      BY <3>1, SupervisorAssumption DEF Budget, MaxRetries
    <3> QED BY <1>4, <3>2 DEF RunTool, Retries, TypeOK, MaxRetries
  <2> QED BY <1>4, <2>1, <2>2 DEF RunTool, TypeOK, LineInv, Serving, PCs
<1>5. CASE ResultUnfit
  <2>1. pc' = "shutdown" /\ protocol_error' = TRUE /\ seq' \in Nat
    BY <1>5 DEF ResultUnfit, Fatal, TypeOK
  <2>2. LineInv'
    BY <1>5, <2>1 DEF ResultUnfit, Fitting, LineInv, Serving
  <2> QED BY <1>5, <2>1, <2>2 DEF ResultUnfit, TypeOK, PCs
<1>6. CASE WaitEnds
  BY <1>6 DEF WaitEnds, TypeOK, LineInv, Serving, PCs
<1>7. CASE Terminate
  BY <1>7 DEF Terminate, TypeOK, LineInv, Serving, PCs
<1>8. CASE CloseRaises
  BY <1>8 DEF CloseRaises, TypeOK, LineInv, Serving, PCs
<1>9. CASE CloseEnds
  BY <1>9 DEF CloseEnds, TypeOK, LineInv, Serving, PCs
<1>10. CASE ResultFits
  BY <1>10 DEF ResultFits, Fitting, TypeOK, LineInv, Serving, PCs
<1> QED BY <1>1, <1>2, <1>3, <1>4, <1>5, <1>6, <1>7, <1>8, <1>9, <1>10

LEMMA NextTypeInv == TypeInv /\ [Next]_vars => TypeInv'
<1> SUFFICES ASSUME TypeInv, [Next]_vars PROVE TypeInv'
  OBVIOUS
<1>1. CASE Deadline
  BY <1>1 DEF Deadline, TypeInv, TypeOK, LineInv, Serving, progVars, readerVars,
              callVars, traceVars, endVars
<1>2. CASE UNCHANGED vars
  BY <1>2 DEF vars, TypeInv, TypeOK, LineInv, Serving, progVars, readerVars,
              callVars, traceVars, endVars
<1>3. CASE Supervise
  BY <1>3, TakeFrameTypeInv, SendTypeInv, FinishTypeInv, OtherTypeInv DEF Supervise
<1> QED BY <1>1, <1>2, <1>3, ProgramTypeInv, ReaderTypeInv DEF Next, Over

\* Every value of the run keeps its type, whatever the program does: in
\* particular a retry never goes past the budget run_live passes, and only
\* calls the program made get a row.
THEOREM TypeCorrect == Spec => []TypeOK
<1>1. TypeInv => TypeOK
  BY DEF TypeInv
<1> QED BY <1>1, InitTypeInv, NextTypeInv, PTL DEF Spec

-----------------------------------------------------------------------------
(* The trace and the validator                                             *)

\* How the trace and the validator's memory relate.  The validator may be
\* ahead of the trace by one result (SendBreaks), never the trace ahead of it.
FramesInv ==
  /\ WellFormed(frames)
  /\ \A k \in DOMAIN frames : frames[k].op = "result" <=> frames[k].dir = "out"
  /\ \A k \in DOMAIN frames :
        frames[k].op = "call" =>
          frames[k].id \in validator.seen_calls /\ frames[k].id <= validator.last_call_id
  /\ \A k \in DOMAIN frames :
        frames[k].op = "result" => frames[k].id \in validator.seen_results
  /\ \A i \in validator.seen_calls :
        \E k \in DOMAIN frames : frames[k].op = "call" /\ frames[k].id = i

\* The trace ends with a call.
AtCall == frames # << >> /\ frames[Len(frames)].op = "call"

\* What each stage of the loop knows: every call is answered when a frame is
\* taken, and the one being served is the last entry of the trace.
StageInv ==
  /\ pc = "done" <=> outcome # "running"
  /\ pc = "read" \/ Serving => ~protocol_error /\ ~HasFinal
  /\ pc = "read" => validator.seen_calls = validator.seen_results
  /\ Serving => /\ validator.seen_calls = validator.seen_results \cup {line.id}
                /\ line.id \notin validator.seen_results
                /\ AtCall /\ frames[Len(frames)].id = line.id
  /\ pc # "done" /\ AtCall => Serving \/ protocol_error

\* Numbers have no gap until an error, and a returned trace was validated.
NumberInv ==
  /\ ~protocol_error => seq = Len(frames) /\ \A k \in DOMAIN frames : frames[k].seq = k
  /\ outcome = "returned" => HasFinal /\ ValidateTrace(frames)

RunInv == TypeInv /\ FramesInv /\ StageInv /\ NumberInv /\ NoForgedResult /\ CallsAnswered

-----------------------------------------------------------------------------
(* Sequences                                                               *)

LEMMA Appended ==
  ASSUME NEW S, NEW s \in Seq(S), NEW e \in S
  PROVE  /\ Append(s, e) \in Seq(S)
         /\ Append(s, e) # << >>
         /\ Len(Append(s, e)) = Len(s) + 1
         /\ DOMAIN Append(s, e) = 1..(Len(s) + 1)
         /\ DOMAIN s = 1..Len(s)
         /\ \A k \in 1..Len(s) : Append(s, e)[k] = s[k]
         /\ Append(s, e)[Len(s) + 1] = e
  BY AppendProperties

LEMMA FrameIds ==
  ASSUME NEW s \in Seq(FrameType), NEW k \in DOMAIN s
  PROVE  s[k].id \in Nat /\ s[k].op \in Ops
<1>1. s[k] \in FrameType
  OBVIOUS
<1> QED BY <1>1 DEF FrameType

LEMMA LastOfTrace ==
  ASSUME TypeOK
  PROVE  /\ Len(frames) \in Nat /\ DOMAIN frames = 1..Len(frames)
         /\ frames # << >> => Len(frames) \in DOMAIN frames /\ Len(frames) > 0
         /\ HasFinal <=> frames # << >> /\ frames[Len(frames)].op = "final"
         /\ AtCall => Len(frames) \in DOMAIN frames /\ ~HasFinal
<1>1. frames \in Seq(FrameType)
  BY DEF TypeOK
<1>2. Len(frames) \in Nat /\ DOMAIN frames = 1..Len(frames)
  BY <1>1
<1>3. frames # << >> => Len(frames) > 0
  BY <1>1, EmptySeq
<1> QED BY <1>2, <1>3 DEF HasFinal, Last, AtCall

\* A well-formed trace without a final stays well formed if the next frame is
\* a call above all others, a new result of a call it holds, or another frame.
LEMMA AppendWellFormed ==
  ASSUME NEW s \in Seq(FrameType), NEW f \in FrameType,
         WellFormed(s),
         \A k \in DOMAIN s : s[k].op # "final",
         \A k \in DOMAIN s : f.op = "call" /\ s[k].op = "call" => s[k].id < f.id,
         \A k \in DOMAIN s : f.op = "result" /\ s[k].op = "result" => s[k].id # f.id,
         f.op = "result" => \E k \in DOMAIN s : s[k].op = "call" /\ s[k].id = f.id
  PROVE  WellFormed(Append(s, f))
<1> DEFINE t == Append(s, f)
           n == Len(s)
<1>1. /\ n \in Nat /\ DOMAIN t = 1..(n + 1) /\ DOMAIN s = 1..n
      /\ \A k \in 1..n : t[k] = s[k]
      /\ t[n + 1] = f
  BY Appended
<1> HIDE DEF t, n
<1>2. ASSUME NEW j \in DOMAIN t, NEW k \in DOMAIN t, j < k
      PROVE  /\ t[j].op # "final"
             /\ t[j].op = "call" /\ t[k].op = "call" => t[j].id < t[k].id
             /\ t[j].op = "result" /\ t[k].op = "result" => t[j].id # t[k].id
  <2>1. j \in 1..n /\ t[j] = s[j]
    BY <1>1, <1>2
  <2>2. CASE k \in 1..n
    BY <1>1, <1>2, <2>1, <2>2 DEF WellFormed
  <2>3. CASE k = n + 1
    BY <1>1, <2>1, <2>3
  <2> QED BY <1>1, <2>2, <2>3
<1>3. ASSUME NEW k \in DOMAIN t, t[k].op = "result"
      PROVE  \E j \in 1..(k - 1) : t[j].op = "call" /\ t[j].id = t[k].id
  <2>1. CASE k \in 1..n
    <3>1. PICK j \in 1..(k - 1) : s[j].op = "call" /\ s[j].id = s[k].id
      BY <1>1, <1>3, <2>1 DEF WellFormed
    <3> QED BY <1>1, <2>1, <3>1
  <2>2. CASE k = n + 1
    <3>1. PICK j \in 1..n : s[j].op = "call" /\ s[j].id = f.id
      BY <1>1, <1>3, <2>2
    <3> QED BY <1>1, <2>2, <3>1
  <2> QED BY <1>1, <2>1, <2>2
<1>4. WellFormed(t)
  BY <1>2, <1>3 DEF WellFormed
<1> QED BY <1>4 DEF t

-----------------------------------------------------------------------------
(* The invariant holds at first and is kept by each step                   *)

LEMMA InitRunInv == Init => RunInv
<1> SUFFICES ASSUME Init PROVE RunInv
  OBVIOUS
<1>1. /\ frames = << >> /\ stdin = << >> /\ seq = 0 /\ pc = "read" /\ outcome = "running"
      /\ protocol_error = FALSE /\ validator.seen_calls = {} /\ validator.seen_results = {}
  BY DEF Init, NewValidator
<1>2. DOMAIN frames = {} /\ DOMAIN stdin = {} /\ Len(frames) = 0 /\ ~HasFinal /\ ~AtCall
  BY <1>1 DEF HasFinal, AtCall
<1>3. FramesInv
  BY <1>1, <1>2 DEF FramesInv, WellFormed
<1>4. StageInv /\ NumberInv
  BY <1>1, <1>2 DEF StageInv, NumberInv, Serving
<1>5. NoForgedResult /\ CallsAnswered
  BY <1>2 DEF NoForgedResult, CallsAnswered
<1> QED BY InitTypeInv, <1>3, <1>4, <1>5 DEF RunInv

\* The program can take a result off its stdin; it changes nothing else that
\* the invariant speaks of.  The same goes for the reader and the clock.
LEMMA OutsideRunInv ==
  RunInv /\ (Program \/ Reader \/ Deadline \/ UNCHANGED vars) => RunInv'
<1> SUFFICES ASSUME RunInv, Program \/ Reader \/ Deadline \/ UNCHANGED vars
             PROVE  RunInv'
  OBVIOUS
<1>1. TypeInv'
  BY NextTypeInv DEF RunInv, Next
<1>2. /\ UNCHANGED <<pc, line, validator, seq, frames, protocol_error, outcome>>
      /\ UNCHANGED stdin \/ (stdin # << >> /\ stdin' = Tail(stdin))
  BY DEF Program, ProgramWrites, ProgramReads, ProgramCloses, ProgramForks, ProgramExits,
         HeirExits, SupervisorSame, Reader, ReaderReads, ReaderEnds, Deadline, vars,
         progVars, readerVars, callVars, traceVars, endVars
<1>3. HasFinal' = HasFinal /\ AtCall' = AtCall /\ Serving' = Serving
  BY <1>2 DEF HasFinal, AtCall, Serving
<1>4. FramesInv' /\ StageInv' /\ NumberInv'
  BY <1>2, <1>3 DEF RunInv, FramesInv, StageInv, NumberInv
<1>5. CallsAnswered'
  BY <1>2, <1>3 DEF RunInv, CallsAnswered
<1>6. NoForgedResult'
  <2>1. stdin \in Seq(Nat)
    BY DEF RunInv, TypeInv, TypeOK
  <2>2. ASSUME NEW k \in DOMAIN stdin'
        PROVE  \E m \in DOMAIN stdin : stdin'[k] = stdin[m]
    <3>1. CASE UNCHANGED stdin
      BY <3>1
    <3>2. CASE stdin # << >> /\ stdin' = Tail(stdin)
      <4>1. k \in 1..(Len(stdin) - 1) /\ stdin'[k] = stdin[k + 1] /\ Len(stdin) \in Nat
        BY <2>1, <3>2
      <4> QED BY <2>1, <4>1
    <3> QED BY <1>2, <3>1, <3>2
  <2> QED BY <1>2, <2>2 DEF RunInv, NoForgedResult
<1> QED BY <1>1, <1>4, <1>5, <1>6 DEF RunInv

\* Steps of the loop that log nothing: they may drop out of serving a call, but
\* then with an error.
LEMMA QuietRunInv ==
  ASSUME RunInv, TypeInv',
         UNCHANGED <<frames, stdin>>,
         UNCHANGED validator \/ (pc' = "shutdown" /\ validator' = Record(validator, Answer)
                                 /\ Answer.op = "result"),
         protocol_error => protocol_error',
         UNCHANGED seq \/ protocol_error',
         pc # "done",
         pc' = "done" <=> outcome' # "running",
         outcome' # "returned",
         pc' = "read" => pc = "read" /\ ~protocol_error',
         Serving' => Serving /\ ~protocol_error' /\ UNCHANGED <<validator, line>>,
         Serving /\ ~Serving' => protocol_error',
         pc' = "done" => outcome' = "raised"
  PROVE  RunInv'
<1>1. HasFinal' = HasFinal /\ AtCall' = AtCall
  BY DEF HasFinal, AtCall
<1>2. FramesInv'
  <2>1. /\ validator.seen_calls = validator'.seen_calls
        /\ validator.last_call_id = validator'.last_call_id
        /\ validator.seen_results \subseteq validator'.seen_results
    BY DEF Record
  <2> QED BY <2>1 DEF RunInv, FramesInv
<1>3. StageInv'
  BY <1>1 DEF RunInv, StageInv, Serving
<1>4. NumberInv'
  BY <1>1 DEF RunInv, NumberInv
<1>5. NoForgedResult' /\ CallsAnswered'
  BY <1>1 DEF RunInv, NoForgedResult, CallsAnswered
<1> QED BY <1>2, <1>3, <1>4, <1>5 DEF RunInv

LEMMA OtherRunInv ==
  RunInv /\ (\/ TakeEof \/ TakeError \/ Dispatch \/ RunTool \/ SendBreaks
             \/ ResultFits \/ ResultUnfit \/ WaitEnds \/ Terminate \/ CloseRaises \/ CloseEnds)
    => RunInv'
<1> SUFFICES ASSUME RunInv,
                    \/ TakeEof \/ TakeError \/ Dispatch \/ RunTool \/ SendBreaks
                    \/ ResultFits \/ ResultUnfit \/ WaitEnds \/ Terminate
                    \/ CloseRaises \/ CloseEnds
             PROVE  RunInv'
  OBVIOUS
<1> USE DEF Serving, progVars, readerVars, callVars, traceVars, endVars
<1>1. TypeInv'
  BY NextTypeInv DEF RunInv, Next, Supervise
<1>2. /\ pc = "done" <=> outcome # "running"
      /\ pc = "read" \/ Serving => ~protocol_error
  BY DEF RunInv, StageInv
<1>3. CASE TakeEof
  BY <1>1, <1>2, <1>3, QuietRunInv DEF TakeEof
<1>4. CASE TakeError
  BY <1>1, <1>2, <1>4, QuietRunInv DEF TakeError
<1>5. CASE Dispatch
  BY <1>1, <1>2, <1>5, QuietRunInv DEF Dispatch, Fatal
<1>6. CASE RunTool
  BY <1>1, <1>2, <1>6, QuietRunInv DEF RunTool
<1>7. CASE SendBreaks
  <2>1. Answer.op = "result"
    BY DEF Answer, Stamped
  <2> QED BY <1>1, <1>2, <1>7, <2>1, QuietRunInv DEF SendBreaks, Answering, Fatal
<1>8. CASE ResultUnfit
  BY <1>1, <1>2, <1>8, QuietRunInv DEF ResultUnfit, Fitting, Fatal
<1>9. CASE WaitEnds
  BY <1>1, <1>2, <1>9, QuietRunInv DEF WaitEnds
<1>10. CASE Terminate
  BY <1>1, <1>2, <1>10, QuietRunInv DEF Terminate
<1>11. CASE CloseRaises
  BY <1>1, <1>2, <1>11, QuietRunInv DEF CloseRaises
<1>12. CASE CloseEnds
  BY <1>1, <1>2, <1>12, QuietRunInv DEF CloseEnds
<1>13. CASE ResultFits
  BY <1>1, <1>2, <1>13, QuietRunInv DEF ResultFits, Fitting
<1> QED BY <1>3, <1>4, <1>5, <1>6, <1>7, <1>8, <1>9, <1>10, <1>11, <1>12, <1>13

\* An entry appended to a trace that does not end with a call or a final: every
\* call in it stays answered; and to one that ends with a call: if it answers it.
LEMMA AppendAnswered ==
  ASSUME RunInv, TypeInv', NEW f \in FrameType,
         frames' = Append(frames, f),
         ~HasFinal,
         protocol_error => protocol_error',
         AtCall => \/ f.op = "result" /\ f.id = frames[Len(frames)].id
                   \/ f.op = "final" /\ protocol_error'
  PROVE  CallsAnswered'
<1>1. frames \in Seq(FrameType)
  BY DEF RunInv, TypeInv, TypeOK
<1> DEFINE n == Len(frames)
<1>2. /\ n \in Nat /\ DOMAIN frames' = 1..(n + 1) /\ DOMAIN frames = 1..n
      /\ \A k \in 1..n : frames'[k] = frames[k]
      /\ frames'[n + 1] = f
      /\ Len(frames') = n + 1
      /\ frames' # << >>
  BY <1>1, Appended
<1>3. HasFinal' <=> f.op = "final"
  BY <1>2 DEF HasFinal, Last
<1>4. AtCall <=> n > 0 /\ frames[n].op = "call"
  BY <1>1, EmptySeq DEF AtCall
<1> HIDE DEF n
<1>5. ASSUME NEW k \in 1..(n + 1), frames'[k].op = "call"
      PROVE  \/ k = n + 1
             \/ frames'[k + 1].op = "result" /\ frames'[k + 1].id = frames'[k].id
             \/ k + 1 = n + 1 /\ HasFinal' /\ protocol_error'
  <2>1. CASE k = n + 1
    BY <2>1
  <2>2. CASE k = n
    <3>1. AtCall /\ frames'[k] = frames[n] /\ frames'[k + 1] = f
      BY <1>2, <1>4, <1>5, <2>2
    <3> QED BY <1>3, <2>2, <3>1 DEF n
  <2>3. CASE k < n
    <3>1. k \in 1..n /\ k + 1 \in 1..n /\ frames'[k] = frames[k] /\ frames'[k + 1] = frames[k + 1]
      BY <1>2, <2>3
    <3> QED BY <1>2, <1>5, <2>3, <3>1 DEF RunInv, CallsAnswered, n
  <2> QED BY <1>2, <2>1, <2>2, <2>3
<1> QED BY <1>2, <1>5 DEF CallsAnswered

LEMMA TakeFrameRunInv == RunInv /\ TakeFrame => RunInv'
<1> SUFFICES ASSUME RunInv, TakeFrame PROVE RunInv'
  OBVIOUS
<1>1. TypeInv'
  BY NextTypeInv DEF RunInv, Next, Supervise
<1>2. /\ pc = "read" /\ outcome = "running" /\ outcome' = outcome
      /\ ~protocol_error /\ ~HasFinal /\ ~AtCall
      /\ validator.seen_calls = validator.seen_results
      /\ seq' = seq + 1 /\ stdin' = stdin
  BY DEF TakeFrame, RunInv, StageInv, Serving, endVars, progVars
<1>3. CASE ~(~line'.big /\ Accepts(validator, line'))
  <2>1. pc' = "shutdown" /\ protocol_error' /\ UNCHANGED <<frames, stdin, validator>>
    BY <1>2, <1>3 DEF TakeFrame, Fatal
  <2> QED BY <1>1, <1>2, <2>1, QuietRunInv DEF Serving
<1>4. CASE ~line'.big /\ Accepts(validator, line')
  <2> DEFINE f == Stamped(line'.op, line'.id, "in")
             n == Len(frames)
  <2>1. /\ frames' = Append(frames, f)
        /\ validator' = Record(validator, line')
        /\ pc' = IF line'.op = "call" THEN "call"
                 ELSE IF line'.op = "final" THEN "wait" ELSE "read"
        /\ protocol_error' = protocol_error
    BY <1>4 DEF TakeFrame
  <2>2. line'.op \in Ops /\ line'.id \in Nat /\ line'.op # "result"
    BY <1>1, <1>2, <1>4, LineTypes, SMTT(30) DEF TakeFrame, TypeInv, TypeOK, LineInv, Serving,
       Accepts, AcceptsResult
  <2>3. /\ f \in FrameType /\ f.op = line'.op /\ f.id = line'.id /\ f.dir = "in"
        /\ f.seq = seq + 1
    BY <2>2, StampedType DEF RunInv, TypeInv, TypeOK
  <2> HIDE DEF f
  <2>4. frames \in Seq(FrameType)
    BY DEF RunInv, TypeInv, TypeOK
  <2>5. /\ n \in Nat /\ DOMAIN frames' = 1..(n + 1) /\ DOMAIN frames = 1..n
        /\ \A k \in 1..n : frames'[k] = frames[k]
        /\ frames'[n + 1] = f
        /\ Len(frames') = n + 1
        /\ frames' # << >>
    BY <2>1, <2>3, <2>4, Appended
  <2>6. \A k \in DOMAIN frames : frames[k].op # "final"
    <3>1. WellFormed(frames) /\ (n > 0 => frames[n].op # "final")
      BY <1>2, <2>4, LastOfTrace DEF RunInv, FramesInv, TypeInv
    <3> QED BY <2>5, <3>1 DEF WellFormed
  <2>7. line'.op = "call" =>
          /\ line'.id \notin validator.seen_calls
          /\ line'.id > validator.last_call_id
          /\ validator'.seen_calls = validator.seen_calls \cup {line'.id}
          /\ validator'.last_call_id = line'.id
    BY <1>4, <2>1 DEF Accepts, AcceptsCall, Record
  <2>8. /\ line'.op # "call" => /\ validator'.seen_calls = validator.seen_calls
                                /\ validator'.last_call_id = validator.last_call_id
        /\ validator'.seen_results = validator.seen_results
    BY <2>1, <2>2 DEF Record
  <2>9. \A k \in DOMAIN frames : frames[k].op = "call" /\ line'.op = "call" =>
          frames[k].id < line'.id
    <3>1. validator.last_call_id \in Nat
      <4>1. validator \in ValidatorType
        BY DEF RunInv, TypeInv, TypeOK
      <4>2. validator.last_call_id \in CallIds \cup {NoId}
        BY <4>1 DEF ValidatorType
      <4>3. NoId \in Nat
        BY DEF NoId
      <4> QED BY <4>2, <4>3, CallIdsNat
    <3>2. \A k \in DOMAIN frames : frames[k].id \in Nat
      BY <2>4, FrameIds
    <3>3. ASSUME NEW k \in DOMAIN frames, frames[k].op = "call", line'.op = "call"
          PROVE  frames[k].id < line'.id
      <4>1. frames[k].id <= validator.last_call_id
        BY <3>3 DEF RunInv, FramesInv
      <4>2. line'.id > validator.last_call_id
        BY <2>7, <3>3
      <4> QED BY <2>2, <3>1, <3>2, <4>1, <4>2
    <3> QED BY <3>3
  <2>10. FramesInv'
    <3>1. WellFormed(frames')
      BY <2>1, <2>2, <2>3, <2>4, <2>6, <2>9, AppendWellFormed DEF RunInv, FramesInv
    <3>2. \A k \in DOMAIN frames' : frames'[k].op = "result" <=> frames'[k].dir = "out"
      BY <2>2, <2>3, <2>5 DEF RunInv, FramesInv
    <3>3. ASSUME NEW k \in DOMAIN frames', frames'[k].op = "call"
          PROVE  /\ frames'[k].id \in validator'.seen_calls
                 /\ frames'[k].id <= validator'.last_call_id
      <4>1. CASE k = n + 1
        BY <2>2, <2>3, <2>5, <2>7, <3>3, <4>1
      <4>2. CASE k \in 1..n
        <5>1. frames[k].op = "call" /\ frames'[k] = frames[k] /\ frames[k].id \in Nat
          BY <2>4, <2>5, <3>3, <4>2, FrameIds
        <5>2. /\ frames[k].id \in validator.seen_calls
              /\ frames[k].id <= validator.last_call_id
          BY <2>5, <4>2, <5>1 DEF RunInv, FramesInv
        <5>3. CASE line'.op = "call"
          BY <2>2, <2>5, <2>7, <2>9, <4>2, <5>1, <5>2, <5>3
        <5>4. CASE line'.op # "call"
          BY <2>8, <5>1, <5>2, <5>4
        <5> QED BY <5>3, <5>4
      <4> QED BY <2>5, <4>1, <4>2
    <3>4. \A k \in DOMAIN frames' :
            frames'[k].op = "result" => frames'[k].id \in validator'.seen_results
      BY <2>2, <2>3, <2>5, <2>8 DEF RunInv, FramesInv
    <3>5. ASSUME NEW i \in validator'.seen_calls
          PROVE  \E k \in DOMAIN frames' : frames'[k].op = "call" /\ frames'[k].id = i
      <4>1. CASE i \in validator.seen_calls
        BY <2>5, <4>1 DEF RunInv, FramesInv
      <4>2. CASE i \notin validator.seen_calls
        BY <2>3, <2>5, <2>7, <2>8, <3>5, <4>2
      <4> QED BY <4>1, <4>2
    <3> QED BY <3>1, <3>2, <3>3, <3>4, <3>5 DEF FramesInv
  <2>11. (HasFinal' <=> f.op = "final") /\ (AtCall' <=> f.op = "call")
    BY <2>5 DEF HasFinal, Last, AtCall
  <2>12. StageInv'
    <3>1. line'.op = "call" => line'.id \notin validator'.seen_results
      BY <1>2, <2>7, <2>8
    <3> QED BY <1>2, <2>1, <2>2, <2>3, <2>5, <2>7, <2>8, <2>11, <3>1
            DEF StageInv, Serving
  <2>13. NumberInv'
    BY <1>2, <2>1, <2>3, <2>5 DEF RunInv, NumberInv
  <2>14. CallsAnswered'
    BY <1>1, <1>2, <2>1, <2>3, AppendAnswered
  <2>15. NoForgedResult'
    BY <1>2, <2>2, <2>3, <2>5 DEF RunInv, NoForgedResult
  <2> QED BY <1>1, <2>10, <2>12, <2>13, <2>14, <2>15 DEF RunInv
<1> QED BY <1>3, <1>4

LEMMA SendResultRunInv == RunInv /\ SendResult => RunInv'
<1> SUFFICES ASSUME RunInv, SendResult PROVE RunInv'
  OBVIOUS
<1> DEFINE f == Answer
           n == Len(frames)
<1>1. TypeInv'
  BY NextTypeInv DEF RunInv, Next, Supervise
<1>2. /\ Serving /\ pc' = "read" /\ outcome = "running" /\ outcome' = outcome
      /\ ~protocol_error /\ protocol_error' = protocol_error /\ ~HasFinal /\ AtCall
      /\ validator.seen_calls = validator.seen_results \cup {line.id}
      /\ line.id \notin validator.seen_results
      /\ frames[n].id = line.id
      /\ seq' = seq + 1 /\ stdin' = Append(stdin, line.id)
      /\ frames' = Append(frames, f)
      /\ validator' = Record(validator, f)
  BY DEF SendResult, Answering, RunInv, StageInv, Serving, endVars
<1>3. line.id \in Nat
  BY <1>2, CallIdsNat DEF RunInv, TypeInv, LineInv
<1>4. /\ f \in FrameType /\ f.op = "result" /\ f.id = line.id /\ f.dir = "out"
      /\ f.seq = seq + 1
  BY <1>3, StampedType DEF Answer, Ops, RunInv, TypeInv, TypeOK
<1>5. frames \in Seq(FrameType) /\ stdin \in Seq(Nat)
  BY DEF RunInv, TypeInv, TypeOK
<1> HIDE DEF f
<1>6. /\ n \in Nat /\ DOMAIN frames' = 1..(n + 1) /\ DOMAIN frames = 1..n
      /\ \A k \in 1..n : frames'[k] = frames[k]
      /\ frames'[n + 1] = f
      /\ Len(frames') = n + 1
      /\ frames' # << >>
  BY <1>2, <1>4, <1>5, Appended
<1>7. n > 0 /\ frames[n].op = "call"
  BY <1>2, <1>5, EmptySeq DEF AtCall
<1>8. \A k \in DOMAIN frames : frames[k].op # "final"
  BY <1>6, <1>7 DEF RunInv, FramesInv, WellFormed
<1>9. /\ validator'.seen_calls = validator.seen_calls
      /\ validator'.last_call_id = validator.last_call_id
      /\ validator'.seen_results = validator.seen_results \cup {line.id}
  BY <1>2, <1>4 DEF Record
<1>10. FramesInv'
  <2>1. \A k \in DOMAIN frames : frames[k].op = "result" => frames[k].id # f.id
    BY <1>2, <1>4 DEF RunInv, FramesInv
  <2>2. \E k \in DOMAIN frames : frames[k].op = "call" /\ frames[k].id = f.id
    BY <1>2, <1>4, <1>6, <1>7
  <2>3. WellFormed(frames')
    BY <1>2, <1>4, <1>5, <1>8, <2>1, <2>2, AppendWellFormed DEF RunInv, FramesInv
  <2>4. \A k \in DOMAIN frames' : frames'[k].op = "result" <=> frames'[k].dir = "out"
    BY <1>4, <1>6 DEF RunInv, FramesInv
  <2>5. \A k \in DOMAIN frames' :
          frames'[k].op = "call" => /\ frames'[k].id \in validator'.seen_calls
                                    /\ frames'[k].id <= validator'.last_call_id
    BY <1>4, <1>6, <1>9 DEF RunInv, FramesInv
  <2>6. \A k \in DOMAIN frames' :
          frames'[k].op = "result" => frames'[k].id \in validator'.seen_results
    BY <1>4, <1>6, <1>9 DEF RunInv, FramesInv
  <2>7. \A i \in validator'.seen_calls :
          \E k \in DOMAIN frames' : frames'[k].op = "call" /\ frames'[k].id = i
    BY <1>6, <1>9 DEF RunInv, FramesInv
  <2> QED BY <2>3, <2>4, <2>5, <2>6, <2>7 DEF FramesInv
<1>11. ~HasFinal' /\ ~AtCall'
  BY <1>4, <1>6 DEF HasFinal, Last, AtCall
<1>12. StageInv'
  BY <1>2, <1>9, <1>11 DEF StageInv, Serving
<1>13. NumberInv'
  BY <1>2, <1>4, <1>6 DEF RunInv, NumberInv
<1>14. CallsAnswered'
  BY <1>1, <1>2, <1>4, AppendAnswered
<1>15. NoForgedResult'
  <2>1. \A k \in DOMAIN frames' : frames'[k].op = "result" <=> frames'[k].dir = "out"
    BY <1>10 DEF FramesInv
  <2>2. ASSUME NEW k \in DOMAIN stdin'
        PROVE  \E j \in DOMAIN frames' :
                  frames'[j].op = "result" /\ frames'[j].id = stdin'[k]
    <3>1. /\ DOMAIN stdin' = 1..(Len(stdin) + 1) /\ DOMAIN stdin = 1..Len(stdin)
          /\ \A m \in 1..Len(stdin) : stdin'[m] = stdin[m]
          /\ stdin'[Len(stdin) + 1] = line.id
      BY <1>2, <1>3, <1>5, Appended
    <3>2. CASE k = Len(stdin) + 1
      BY <1>4, <1>6, <3>1, <3>2
    <3>3. CASE k \in DOMAIN stdin
      BY <1>6, <3>1, <3>3 DEF RunInv, NoForgedResult
    <3>4. Len(stdin) \in Nat
      BY <1>5
    <3> QED BY <3>1, <3>2, <3>3, <3>4
  <2> QED BY <2>1, <2>2 DEF NoForgedResult
<1> QED BY <1>1, <1>10, <1>12, <1>13, <1>14, <1>15 DEF RunInv

LEMMA FinishRunInv == RunInv /\ Finish => RunInv'
<1> SUFFICES ASSUME RunInv, Finish PROVE RunInv'
  OBVIOUS
<1> DEFINE f == Stamped("final", NoId, "in")
           n == Len(frames)
<1>1. TypeInv'
  BY NextTypeInv DEF RunInv, Next, Supervise
<1>2. /\ pc = "finish" /\ pc' = "done" /\ stdin' = stdin
      /\ outcome' \in {"returned", "raised"}
      /\ outcome' = "returned" => ValidateTrace(frames')
      /\ UNCHANGED <<validator, protocol_error>>
  BY DEF Finish, progVars
<1>3. CASE HasFinal
  <2>1. UNCHANGED <<seq, frames>>
    BY <1>3 DEF Finish
  <2>2. HasFinal' = HasFinal /\ AtCall' = AtCall
    BY <2>1 DEF HasFinal, AtCall
  <2>3. FramesInv' /\ CallsAnswered' /\ NoForgedResult'
    BY <1>2, <2>1, <2>2 DEF RunInv, FramesInv, CallsAnswered, NoForgedResult
  <2>4. StageInv' /\ NumberInv'
    BY <1>2, <1>3, <2>1, <2>2 DEF RunInv, StageInv, NumberInv, Serving
  <2> QED BY <1>1, <2>3, <2>4 DEF RunInv
<1>4. CASE ~HasFinal
  <2>1. seq' = seq + 1 /\ frames' = Append(frames, f)
    BY <1>4 DEF Finish
  <2>2. f \in FrameType /\ f.op = "final" /\ f.dir = "in" /\ f.seq = seq + 1
    BY StampedType DEF Ops, NoId, RunInv, TypeInv, TypeOK
  <2>3. frames \in Seq(FrameType)
    BY DEF RunInv, TypeInv, TypeOK
  <2> HIDE DEF f
  <2>4. /\ n \in Nat /\ DOMAIN frames' = 1..(n + 1) /\ DOMAIN frames = 1..n
        /\ \A k \in 1..n : frames'[k] = frames[k]
        /\ frames'[n + 1] = f
        /\ Len(frames') = n + 1
        /\ frames' # << >>
    BY <2>1, <2>2, <2>3, Appended
  <2>5. \A k \in DOMAIN frames : frames[k].op # "final"
    <3>1. WellFormed(frames) /\ (n > 0 => frames[n].op # "final")
      BY <1>4, <2>3, LastOfTrace DEF RunInv, FramesInv, TypeInv
    <3> QED BY <2>4, <3>1 DEF WellFormed
  <2>6. FramesInv'
    <3>1. WellFormed(frames')
      BY <2>1, <2>2, <2>3, <2>5, AppendWellFormed DEF RunInv, FramesInv
    <3> QED BY <1>2, <2>2, <2>4, <3>1 DEF RunInv, FramesInv
  <2>7. HasFinal' /\ ~AtCall'
    BY <2>2, <2>4 DEF HasFinal, Last, AtCall
  <2>8. StageInv' /\ NumberInv'
    BY <1>2, <2>1, <2>2, <2>4, <2>7 DEF RunInv, StageInv, NumberInv, Serving
  <2>9. CallsAnswered'
    <3>1. AtCall => protocol_error
      BY <1>2 DEF RunInv, StageInv, Serving
    <3> QED BY <1>1, <1>2, <1>4, <2>1, <2>2, <3>1, AppendAnswered
  <2>10. NoForgedResult'
    BY <1>2, <2>2, <2>4 DEF RunInv, NoForgedResult
  <2> QED BY <1>1, <2>6, <2>8, <2>9, <2>10 DEF RunInv
<1> QED BY <1>3, <1>4

LEMMA NextRunInv == RunInv /\ [Next]_vars => RunInv'
BY OutsideRunInv, OtherRunInv, TakeFrameRunInv, SendResultRunInv, FinishRunInv
   DEF Next, Supervise, Over

LEMMA RunInvAlways == Spec => []RunInv
BY InitRunInv, NextRunInv, PTL DEF Spec

-----------------------------------------------------------------------------
(* What follows                                                            *)

\* The trace obeys the protocol at every moment, and ends with its final when
\* the run returned: what StreamValidator lets through, and what run_live adds
\* or leaves out, never breaks it.
THEOREM TraceIsWellFormed == Spec => []TraceWellFormed
<1>1. RunInv => TraceWellFormed
  BY DEF RunInv, FramesInv, NumberInv, TraceWellFormed
<1> QED BY <1>1, RunInvAlways, PTL

\* No result in the trace, and none the program reads, is the program's own.
THEOREM ResultsAreTheSupervisors == Spec => []NoForgedResult
<1>1. RunInv => NoForgedResult
  BY DEF RunInv
<1> QED BY <1>1, RunInvAlways, PTL

\* Each call is answered by the next entry, or is the last before a made-up
\* final in a run that says protocol error.
THEOREM EachCallAnswered == Spec => []CallsAnswered
<1>1. RunInv => CallsAnswered
  BY DEF RunInv
<1> QED BY <1>1, RunInvAlways, PTL

\* A run without a protocol error saves a trace that run_replay accepts.
THEOREM CleanRunsReplay == Spec => []CleanRunReplayable
<1>1. RunInv => CleanRunReplayable
  <2> SUFFICES ASSUME RunInv, outcome = "returned", ~protocol_error
               PROVE  ValidateStrictTrace(frames)
    BY DEF CleanRunReplayable
  <2>1. ValidateTrace(frames) /\ \A k \in DOMAIN frames : frames[k].seq = k
    BY DEF RunInv, NumberInv
  <2>2. \A k \in DOMAIN frames : frames[k].dir \in {"in", "out"}
    <3>1. frames \in Seq(FrameType)
      BY DEF RunInv, TypeInv, TypeOK
    <3>2. \A k \in DOMAIN frames : frames[k] \in FrameType
      BY <3>1
    <3> QED BY <3>2 DEF FrameType
  <2> QED BY <2>1, <2>2 DEF ValidateStrictTrace
<1> QED BY <1>1, RunInvAlways, PTL

-----------------------------------------------------------------------------
(* The rows of the final                                                   *)

\* The rows kept so far are the results in the trace, both in the order of their ids; and
\* an accepted final means that nothing went wrong before it.
RowsInv ==
  /\ {frames[n].id : n \in ResultsAt} = {result_rows[k].id : k \in DOMAIN result_rows}
  /\ \A m, n \in ResultsAt : m < n => frames[m].id < frames[n].id
  /\ \A j, k \in DOMAIN result_rows : j < k => result_rows[j].id < result_rows[k].id
  /\ pc # "done" /\ HasFinal => ~protocol_error
  /\ outcome = "returned" =>
       final_result.rows = result_rows /\ (protocol_error => ~final_result.ok)

\* What RowsInv says of trace and rows stays with them.
LEMMA SameRows ==
  ASSUME UNCHANGED result_rows, ResultsAt' = ResultsAt,
         \A n \in ResultsAt : frames'[n].id = frames[n].id, RowsInv
  PROVE  /\ {frames'[n].id : n \in ResultsAt'} = {result_rows'[k].id : k \in DOMAIN result_rows'}
         /\ \A m, n \in ResultsAt' : m < n => frames'[m].id < frames'[n].id
         /\ \A j, k \in DOMAIN result_rows' : j < k => result_rows'[j].id < result_rows'[k].id
<1>1. {frames'[n].id : n \in ResultsAt'} = {frames[n].id : n \in ResultsAt}
  OBVIOUS
<1> QED BY <1>1 DEF RowsInv

\* A step that keeps both, and what the run has said.
LEMMA RowsStay ==
  ASSUME RowsInv, UNCHANGED <<frames, result_rows>>,
         HasFinal => UNCHANGED protocol_error,
         UNCHANGED <<pc, outcome, final_result, protocol_error>>
           \/ (pc # "done" /\ outcome' # "returned")
  PROVE  RowsInv'
<1>1. HasFinal' = HasFinal /\ ResultsAt' = ResultsAt
  BY DEF HasFinal, ResultsAt
<1>2. /\ pc' # "done" /\ HasFinal' => ~protocol_error'
      /\ outcome' # "returned" \/ UNCHANGED <<outcome, final_result, protocol_error>>
  BY <1>1 DEF RowsInv
<1>3. \A n \in ResultsAt : frames'[n].id = frames[n].id
  OBVIOUS
<1>4. /\ {frames'[n].id : n \in ResultsAt'} = {result_rows'[k].id : k \in DOMAIN result_rows'}
      /\ \A m, n \in ResultsAt' : m < n => frames'[m].id < frames'[n].id
      /\ \A j, k \in DOMAIN result_rows' : j < k => result_rows'[j].id < result_rows'[k].id
  BY <1>1, <1>3, SameRows
<1>5. outcome' = "returned" =>
        final_result'.rows = result_rows' /\ (protocol_error' => ~final_result'.ok)
  BY <1>2 DEF RowsInv
<1> QED BY <1>2, <1>4, <1>5 DEF RowsInv

\* A frame that is no result adds none.
LEMMA ResultsStay ==
  ASSUME frames \in Seq(FrameType), NEW f \in FrameType, frames' = Append(frames, f),
         f.op # "result"
  PROVE  /\ ResultsAt' = ResultsAt /\ \A n \in ResultsAt : frames'[n] = frames[n]
         /\ HasFinal' <=> f.op = "final"
<1>1. /\ Len(frames) \in Nat /\ DOMAIN frames = 1..Len(frames)
      /\ DOMAIN frames' = 1..(Len(frames) + 1) /\ Len(frames') = Len(frames) + 1
      /\ \A n \in 1..Len(frames) : frames'[n] = frames[n]
      /\ frames'[Len(frames) + 1] = f /\ frames' # << >>
  BY Appended
<1>2. Len(frames) + 1 \notin ResultsAt'
  BY <1>1 DEF ResultsAt
<1>3. ResultsAt' = ResultsAt
  BY <1>1, <1>2 DEF ResultsAt
<1> QED BY <1>1, <1>3 DEF ResultsAt, HasFinal, Last

LEMMA TakeFrameRows == RunInv /\ RowsInv /\ TakeFrame => RowsInv'
<1> SUFFICES ASSUME RunInv, RowsInv, TakeFrame PROVE RowsInv'
  OBVIOUS
<1>1. TypeInv'
  BY NextTypeInv DEF RunInv, Next, Supervise
<1>2. /\ pc = "read" /\ outcome = "running" /\ outcome' = outcome /\ ~HasFinal
      /\ ~protocol_error /\ validator.seen_calls = validator.seen_results
      /\ UNCHANGED <<result_rows, final_result>>
  BY DEF TakeFrame, RunInv, StageInv, endVars
<1>3. CASE ~(~line'.big /\ Accepts(validator, line'))
  BY <1>2, <1>3, RowsStay DEF TakeFrame
<1>4. CASE ~line'.big /\ Accepts(validator, line')
  <2> DEFINE f == Stamped(line'.op, line'.id, "in")
  <2>1. frames' = Append(frames, f) /\ protocol_error' = protocol_error
    BY <1>4 DEF TakeFrame
  <2>2. line'.op \in Ops /\ line'.id \in Nat /\ line'.op # "result"
    BY <1>1, <1>2, <1>4, LineTypes, SMTT(30) DEF TakeFrame, TypeInv, TypeOK, LineInv, Serving,
       Accepts, AcceptsResult
  <2>3. f \in FrameType /\ f.op = line'.op
    BY <2>2, StampedType DEF RunInv, TypeInv, TypeOK
  <2> HIDE DEF f
  <2>4. frames \in Seq(FrameType)
    BY DEF RunInv, TypeInv, TypeOK
  <2>5. ResultsAt' = ResultsAt /\ \A n \in ResultsAt : frames'[n] = frames[n]
    BY <2>1, <2>2, <2>3, <2>4, ResultsStay
  <2>6. \A n \in ResultsAt : frames'[n].id = frames[n].id
    BY <2>5
  <2> QED BY <1>2, <2>1, <2>5, <2>6, SameRows DEF RowsInv
<1> QED BY <1>3, <1>4

\* The result that is logged is of the last call, so that it comes last in order too.
LEMMA SendResultRows == RunInv /\ RowsInv /\ SendResult => RowsInv'
<1> SUFFICES ASSUME RunInv, RowsInv, SendResult PROVE RowsInv'
  OBVIOUS
<1> DEFINE f == Answer
           n == Len(frames)
           row == Row(line.id, pc = "reply_ok")
           m == Len(result_rows)
<1>1. /\ Serving /\ outcome = "running" /\ outcome' = outcome
      /\ AtCall /\ frames[n].id = line.id
      /\ frames' = Append(frames, f) /\ result_rows' = Append(result_rows, row)
  BY DEF SendResult, Answering, RunInv, StageInv, Serving, endVars
<1>2. line.id \in Nat /\ line.id \in CallIds
  BY <1>1, CallIdsNat DEF RunInv, TypeInv, LineInv
<1>3. f \in FrameType /\ f.op = "result" /\ f.id = line.id
  BY <1>2, StampedType DEF Answer, Ops, RunInv, TypeInv, TypeOK
<1>4. row \in RowType /\ row.id = line.id
  BY <1>2 DEF Row, RowType
<1>5. frames \in Seq(FrameType) /\ result_rows \in Seq(RowType)
  BY DEF RunInv, TypeInv, TypeOK
<1> HIDE DEF f, row
<1>6. /\ n \in Nat /\ DOMAIN frames' = 1..(n + 1) /\ DOMAIN frames = 1..n
      /\ \A k \in 1..n : frames'[k] = frames[k]
      /\ frames'[n + 1] = f /\ Len(frames') = n + 1 /\ frames' # << >>
  BY <1>1, <1>3, <1>5, Appended
<1>7. /\ m \in Nat /\ DOMAIN result_rows' = 1..(m + 1) /\ DOMAIN result_rows = 1..m
      /\ \A k \in 1..m : result_rows'[k] = result_rows[k]
      /\ result_rows'[m + 1] = row
  BY <1>1, <1>4, <1>5, Appended
<1>8. n > 0 /\ frames[n].op = "call"
  BY <1>1, <1>5, EmptySeq DEF AtCall
<1>9. ASSUME NEW k \in ResultsAt PROVE frames[k].id < line.id
  <2>1. k \in 1..n /\ frames[k].op = "result"
    BY <1>6 DEF ResultsAt
  <2>2. PICK j \in 1..(k - 1) : frames[j].op = "call" /\ frames[j].id = frames[k].id
    BY <1>6, <2>1 DEF RunInv, FramesInv, WellFormed
  <2>3. j \in DOMAIN frames /\ n \in DOMAIN frames /\ j < n
    BY <1>6, <1>8, <2>1, <2>2
  <2> QED BY <1>1, <1>8, <2>2, <2>3 DEF RunInv, FramesInv, WellFormed
<1> HIDE DEF n, m
<1>10. ResultsAt' = ResultsAt \cup {n + 1} /\ n + 1 \notin ResultsAt /\ ResultsAt \subseteq 1..n
  BY <1>3, <1>6 DEF ResultsAt
<1>11. ASSUME NEW k \in DOMAIN result_rows PROVE result_rows[k].id < line.id
  <2>1. PICK i \in ResultsAt : frames[i].id = result_rows[k].id
    BY DEF RowsInv
  <2> QED BY <1>9, <2>1
<1>12. {frames'[i].id : i \in ResultsAt'} = {frames[i].id : i \in ResultsAt} \cup {line.id}
  BY <1>3, <1>6, <1>10
<1>13. {result_rows'[k].id : k \in DOMAIN result_rows'}
         = {result_rows[k].id : k \in DOMAIN result_rows} \cup {line.id}
  BY <1>4, <1>7
<1>14. \A i, k \in ResultsAt' : i < k => frames'[i].id < frames'[k].id
  BY <1>3, <1>6, <1>9, <1>10 DEF RowsInv
<1>15. \A j, k \in DOMAIN result_rows' : j < k => result_rows'[j].id < result_rows'[k].id
  BY <1>4, <1>7, <1>11 DEF RowsInv
<1>16. ~HasFinal'
  BY <1>3, <1>6 DEF HasFinal, Last
<1> QED BY <1>1, <1>12, <1>13, <1>14, <1>15, <1>16 DEF RowsInv

\* The final takes over all the rows, and says ok only if the program did.
LEMMA FinishRows == RunInv /\ RowsInv /\ Finish => RowsInv'
<1> SUFFICES ASSUME RunInv, RowsInv, Finish PROVE RowsInv'
  OBVIOUS
<1>1. /\ pc = "finish" /\ pc' = "done" /\ UNCHANGED <<result_rows, protocol_error>>
      /\ final_result'.rows = result_rows
      /\ protocol_error => ~final_result'.ok
  BY DEF Finish, RowsInv
<1>2. ResultsAt' = ResultsAt /\ \A n \in ResultsAt : frames'[n] = frames[n]
  <2>1. CASE HasFinal
    BY <2>1 DEF Finish, ResultsAt
  <2>2. CASE ~HasFinal
    <3> DEFINE f == Stamped("final", NoId, "in")
    <3>1. frames' = Append(frames, f)
      BY <2>2 DEF Finish
    <3>2. f \in FrameType /\ f.op = "final"
      BY StampedType DEF Ops, NoId, RunInv, TypeInv, TypeOK
    <3> HIDE DEF f
    <3> QED BY <3>1, <3>2, ResultsStay DEF RunInv, TypeInv, TypeOK
  <2> QED BY <2>1, <2>2
<1>3. \A n \in ResultsAt : frames'[n].id = frames[n].id
  BY <1>2
<1> QED BY <1>1, <1>2, <1>3, SameRows DEF RowsInv

\* Nobody else touches the trace or the rows, and an error ends the loop before a final.
LEMMA OtherRows ==
  ASSUME RunInv, RowsInv,
         \/ Program \/ Reader \/ Deadline \/ UNCHANGED vars
         \/ TakeEof \/ TakeError \/ Dispatch \/ RunTool \/ SendBreaks
         \/ ResultFits \/ ResultUnfit \/ WaitEnds \/ Terminate \/ CloseRaises \/ CloseEnds
  PROVE  RowsInv'
<1> USE DEF progVars, readerVars, callVars, traceVars, endVars
<1>1. pc = "read" \/ Serving => ~HasFinal
  BY DEF RunInv, StageInv
<1>2. pc = "done" <=> outcome # "running"
  BY DEF RunInv, StageInv
<1>3. CASE Program \/ Reader \/ Deadline \/ UNCHANGED vars
  <2>1. UNCHANGED <<frames, result_rows, pc, outcome, final_result, protocol_error>>
    BY <1>3 DEF Program, ProgramWrites, ProgramReads, ProgramCloses, ProgramForks, ProgramExits,
         HeirExits, SupervisorSame, Reader, ReaderReads, ReaderEnds, Deadline, vars
  <2> QED BY <2>1, RowsStay
<1>4. CASE TakeEof \/ TakeError
  BY <1>1, <1>2, <1>4, RowsStay DEF TakeEof, TakeError
<1>5. CASE Dispatch \/ RunTool
  BY <1>1, <1>2, <1>5, RowsStay DEF Dispatch, RunTool, Fatal, Serving
<1>6. CASE SendBreaks \/ ResultFits \/ ResultUnfit
  BY <1>1, <1>2, <1>6, RowsStay DEF SendBreaks, ResultFits, ResultUnfit, Answering, Fitting,
     Fatal, Serving
<1>7. CASE WaitEnds \/ Terminate \/ CloseRaises \/ CloseEnds
  BY <1>1, <1>2, <1>7, RowsStay DEF WaitEnds, Terminate, CloseRaises, CloseEnds
<1> QED BY <1>3, <1>4, <1>5, <1>6, <1>7

\* final.json and the trace tell the same: the rows are the results in the trace, in its
\* order, and a run that failed by the protocol is not ok.
THEOREM FinalsTellTheTrace == Spec => []FinalMatchesTrace
<1>1. Init => RowsInv
  <2> SUFFICES ASSUME Init PROVE RowsInv
    OBVIOUS
  <2>1. frames = << >> /\ result_rows = << >> /\ outcome = "running"
    BY DEF Init
  <2>2. ResultsAt = {} /\ DOMAIN result_rows = {} /\ ~HasFinal
    BY <2>1 DEF ResultsAt, HasFinal
  <2> QED BY <2>1, <2>2 DEF RowsInv
<1>2. RunInv /\ RowsInv /\ [Next]_vars => RowsInv'
  BY TakeFrameRows, SendResultRows, FinishRows, OtherRows DEF Next, Supervise, Over
<1>3. RowsInv => FinalMatchesTrace
  BY DEF RowsInv, FinalMatchesTrace
<1> QED BY <1>1, <1>2, <1>3, RunInvAlways, PTL DEF Spec

-----------------------------------------------------------------------------
(* Tools                                                                   *)

\* A call id that was not taken has not run a tool; one that is being served
\* has run it once and once more for each retry.
Within(i) ==
  \E l \in Emittable :
    /\ l.op = "call" /\ l.id = i
    /\ executed[i] <= 1 + Budget(l.tool)
    /\ ~Refused(l.tool)
    /\ Policy[l.tool].declared /\ ~Policy[l.tool].idempotent => executed[i] = 1

ToolInv ==
  /\ \A i \in CallIds : executed[i] > 0 => i \in validator.seen_calls
  /\ pc = "call" => executed[line.id] = 0
  /\ pc = "tool" => /\ executed[line.id] = tries
                    /\ tries <= Budget(line.tool)
                    /\ ~Refused(line.tool)
                    /\ Policy[line.tool].declared /\ ~Policy[line.tool].idempotent => tries = 0
  /\ \A i \in CallIds : executed[i] > 0 => Within(i)

LEMMA BudgetType ==
  ASSUME NEW t \in Tools
  PROVE  Budget(t) \in 0..MaxRetries
BY SupervisorAssumption DEF Budget, MaxRetries

LEMMA InitToolInv == Init => ToolInv
BY DEF Init, ToolInv, Within

LEMMA RunToolToolInv == RunInv /\ ToolInv /\ RunTool => ToolInv'
<1> SUFFICES ASSUME RunInv, ToolInv, RunTool PROVE ToolInv'
  OBVIOUS
<1>1. /\ line \in Emittable /\ line.op = "call" /\ line.id \in CallIds /\ line.tool \in Tools
      /\ line.id \in validator.seen_calls
  BY LineTypes DEF RunTool, RunInv, TypeInv, LineInv, StageInv, Serving
<1>2. /\ executed \in [CallIds -> Nat] /\ tries \in Nat
      /\ executed' = [executed EXCEPT ![line.id] = @ + 1]
      /\ line' = line /\ validator' = validator
  BY DEF RunTool, RunInv, TypeInv, TypeOK, MaxRetries, traceVars
<1>3. /\ executed'[line.id] = tries + 1
      /\ \A i \in CallIds : i # line.id => executed'[i] = executed[i]
  BY <1>1, <1>2 DEF RunTool, ToolInv
<1>4. /\ tries <= Budget(line.tool) /\ Budget(line.tool) \in Nat
      /\ ~Refused(line.tool)
      /\ Policy[line.tool].declared /\ ~Policy[line.tool].idempotent => tries = 0
  BY <1>1, BudgetType DEF RunTool, ToolInv, MaxRetries
<1>5. Within(line.id)'
  BY <1>1, <1>2, <1>3, <1>4 DEF Within
<1>6. ASSUME NEW i \in CallIds, executed'[i] > 0 PROVE i \in validator'.seen_calls /\ Within(i)'
  <2>1. CASE i = line.id
    BY <1>1, <1>2, <1>5, <2>1
  <2>2. CASE i # line.id
    BY <1>2, <1>3, <1>6, <2>2 DEF ToolInv, Within
  <2> QED BY <2>1, <2>2
<1>7. pc' = "tool" => /\ tries' = tries + 1 /\ tries + 1 <= Budget(line.tool)
                      /\ ~(Policy[line.tool].declared /\ ~Policy[line.tool].idempotent)
  BY <1>2, <1>4 DEF RunTool, Retries
<1>8. pc' # "call"
  BY DEF RunTool
<1> QED BY <1>2, <1>3, <1>4, <1>6, <1>7, <1>8 DEF ToolInv

\* Every other step leaves the tools alone and takes at most a new call.
LEMMA OtherToolInv ==
  ASSUME RunInv, ToolInv, [Next]_vars, ~RunTool PROVE ToolInv'
<1>1. executed' = executed
  BY DEF Next, Supervise, Program, SupervisorSame, Reader, Deadline, Over, vars, callVars,
         TakeFrame, TakeEof, TakeError, Dispatch, SendResult, SendBreaks,
         ResultFits, ResultUnfit, WaitEnds, Terminate, CloseRaises, CloseEnds, Finish
<1>2. \A i \in CallIds : Within(i)' <=> Within(i)
  BY <1>1 DEF Within
<1>3. CASE TakeFrame
  <2>1. validator.seen_calls \subseteq validator'.seen_calls /\ pc' # "tool"
    BY <1>3 DEF TakeFrame, Record, Fatal
  <2>2. pc' = "call" =>
          line'.id \in CallIds /\ line'.id \notin validator.seen_calls
    BY <1>3, NextTypeInv DEF RunInv, TypeInv, LineInv, Serving, TakeFrame, Fatal, Accepts,
       AcceptsCall
  <2>3. executed \in [CallIds -> Nat]
    BY DEF RunInv, TypeInv, TypeOK
  <2> QED BY <1>1, <1>2, <2>1, <2>2, <2>3 DEF ToolInv
<1>4. CASE Dispatch
  <2>1. /\ pc = "call" /\ UNCHANGED <<line, validator>> /\ pc' # "call"
        /\ pc' = "tool" => tries' = 0 /\ ~Refused(line.tool)
    BY <1>4 DEF Dispatch, Fatal, traceVars
  <2>2. line.tool \in Tools /\ Budget(line.tool) \in 0..MaxRetries
    BY <2>1, LineTypes, BudgetType DEF RunInv, TypeInv, LineInv, Serving
  <2> QED BY <1>1, <1>2, <2>1, <2>2 DEF ToolInv
<1>5. CASE SendResult \/ SendBreaks
  <2>1. pc' \notin {"call", "tool"} /\ validator'.seen_calls = validator.seen_calls
    BY <1>5 DEF SendResult, SendBreaks, Fatal, Record, Answer, Stamped
  <2> QED BY <1>1, <1>2, <2>1 DEF ToolInv
<1>6. CASE \/ TakeEof \/ TakeError \/ ResultFits \/ ResultUnfit \/ WaitEnds \/ Terminate
           \/ CloseRaises \/ CloseEnds \/ Finish
  <2>1. pc' \notin {"call", "tool"} /\ validator' = validator
    BY <1>6 DEF TakeEof, TakeError, ResultFits, ResultUnfit, WaitEnds, Terminate, CloseRaises,
       CloseEnds, Finish, Fatal, traceVars
  <2> QED BY <1>1, <1>2, <2>1 DEF ToolInv
<1>7. CASE Program \/ Reader \/ Deadline \/ UNCHANGED vars
  <2>1. UNCHANGED <<pc, line, tries, validator>>
    BY <1>7 DEF Program, SupervisorSame, Reader, Deadline, vars, callVars, traceVars
  <2> QED BY <1>1, <1>2, <2>1 DEF ToolInv
<1> QED BY <1>3, <1>4, <1>5, <1>6, <1>7 DEF Next, Supervise, Over

\* A tool runs only for a call that is in the trace, within the budget of its
\* policy, never if the policy refuses it, and once if it is not idempotent.
THEOREM ToolsAreAudited == Spec => []ToolRunsAudited
<1>1. RunInv /\ ToolInv => ToolRunsAudited
  BY DEF RunInv, FramesInv, ToolInv, Within, ToolRunsAudited
<1>2. RunInv /\ ToolInv /\ [Next]_vars => ToolInv'
  BY RunToolToolInv, OtherToolInv
<1> QED BY <1>1, <1>2, InitToolInv, RunInvAlways, PTL DEF Spec

-----------------------------------------------------------------------------
(* The run implements RunLog                                               *)

EntryType == [op : Ops, id : Nat]

LEMMA LogOfType ==
  ASSUME NEW s \in Seq(FrameType)
  PROVE  /\ LogOf(s) \in Seq(EntryType)
         /\ Len(LogOf(s)) = Len(s) /\ DOMAIN LogOf(s) = 1..Len(s)
         /\ \A k \in 1..Len(s) : LogOf(s)[k] = Logged(s[k])
<1>1. Len(s) \in Nat /\ DOMAIN s = 1..Len(s)
  OBVIOUS
<1>2. \A k \in 1..Len(s) : Logged(s[k]) \in EntryType
  BY <1>1, FrameIds DEF Logged, EntryType, NoId
<1>3. LogOf(s) = [k \in 1..Len(s) |-> Logged(s[k])]
  BY <1>1 DEF LogOf
<1>4. LogOf(s) \in [1..Len(s) -> EntryType]
  BY <1>2, <1>3
<1>5. LogOf(s) \in Seq(EntryType)
  BY <1>1, <1>4, SeqDef
<1>6. DOMAIN LogOf(s) = 1..Len(s)
  BY <1>3
<1>7. Len(LogOf(s)) = Len(s)
  BY <1>1, <1>5, <1>6, LenProperties
<1> QED BY <1>3, <1>5, <1>6, <1>7

\* Logging a frame adds its entry to the log.
LEMMA LogOfAppend ==
  ASSUME NEW s \in Seq(FrameType), NEW f \in FrameType
  PROVE  LogOf(Append(s, f)) = Append(LogOf(s), Logged(f))
<1> DEFINE a == LogOf(Append(s, f))
           b == Append(LogOf(s), Logged(f))
           n == Len(s)
<1>1. /\ Append(s, f) \in Seq(FrameType) /\ Len(Append(s, f)) = n + 1 /\ n \in Nat
      /\ \A k \in 1..n : Append(s, f)[k] = s[k]
      /\ Append(s, f)[n + 1] = f
  BY Appended
<1>2. Logged(f) \in EntryType
  BY DEF Logged, EntryType, FrameType, NoId
<1>3. /\ a \in Seq(EntryType) /\ Len(a) = n + 1
      /\ \A k \in 1..(n + 1) : a[k] = Logged(Append(s, f)[k])
  BY <1>1, LogOfType
<1>4. /\ b \in Seq(EntryType) /\ Len(b) = n + 1
      /\ \A k \in 1..n : b[k] = LogOf(s)[k]
      /\ b[n + 1] = Logged(f)
  BY <1>2, LogOfType, AppendProperties
<1> HIDE DEF a, b, n
<1>5. \A k \in 1..n : LogOf(s)[k] = Logged(s[k])
  BY LogOfType DEF n
<1>6. ASSUME NEW k \in 1..Len(a) PROVE a[k] = b[k]
  <2>1. CASE k = n + 1
    BY <1>1, <1>3, <1>4, <2>1
  <2>2. CASE k \in 1..n
    BY <1>1, <1>3, <1>4, <1>5, <2>2
  <2> QED BY <1>1, <1>3, <2>1, <2>2
<1>7. a = b
  BY <1>3, <1>4, <1>6, SeqEqual
<1> QED BY <1>7 DEF a, b

\* How the log's own notions read in the supervisor's state.
LEMMA LogNotions ==
  ASSUME RunInv
  PROVE  /\ Log!Sealed <=> HasFinal
         /\ Log!Open = (IF AtCall THEN frames[Len(frames)].id ELSE NoId)
         /\ Verdict = "running" <=> outcome = "running"
         /\ Log!Accepting <=> outcome = "running" /\ ~HasFinal
<1>1. frames \in Seq(FrameType)
  BY DEF RunInv, TypeInv, TypeOK
<1>2. /\ LogOf(frames) # << >> <=> frames # << >>
      /\ frames # << >> =>
           /\ LogOf(frames)[Len(LogOf(frames))] = Logged(frames[Len(frames)])
           /\ Len(frames) \in DOMAIN frames
  <2>1. /\ LogOf(frames) \in Seq(EntryType)
        /\ Len(LogOf(frames)) = Len(frames) /\ Len(frames) \in Nat
        /\ DOMAIN frames = 1..Len(frames)
        /\ \A k \in 1..Len(frames) : LogOf(frames)[k] = Logged(frames[k])
    BY <1>1, LogOfType
  <2>2. /\ frames # << >> => Len(frames) > 0
        /\ LogOf(frames) # << >> => Len(LogOf(frames)) > 0
        /\ frames = << >> => Len(frames) = 0
        /\ LogOf(frames) = << >> => Len(LogOf(frames)) = 0
    BY <1>1, <2>1, EmptySeq
  <2> QED BY <2>1, <2>2
<1>3. \A f : Logged(f).op = f.op /\ (f.op = "call" => Logged(f).id = f.id)
  BY DEF Logged
<1>4. Log!Sealed <=> HasFinal
  BY <1>2, <1>3 DEF Log!Sealed, HasFinal, Last
<1>5. Log!Open = (IF AtCall THEN frames[Len(frames)].id ELSE NoId)
  BY <1>2, <1>3 DEF Log!Open, Log!NoCall, AtCall, NoId
<1>6. Verdict = "running" <=> outcome = "running"
  BY DEF Verdict
<1> QED BY <1>4, <1>5, <1>6 DEF Log!Accepting

\* Steps that leave the trace and the verdict alone do not show in the log.
LEMMA Unseen ==
  ASSUME UNCHANGED <<frames, outcome>>, outcome = "running",
         validator'.last_call_id = validator.last_call_id
  PROVE  UNCHANGED Log!logVars
<1>1. Verdict' = Verdict
  BY DEF Verdict
<1> QED BY <1>1 DEF Log!logVars

LEMMA InitContract == Init => Log!LogInit
<1> SUFFICES ASSUME Init PROVE Log!LogInit
  OBVIOUS
<1>1. LogOf(frames) = << >>
  BY DEF Init, LogOf
<1> QED BY <1>1 DEF Init, Log!LogInit, Log!NoCall, NewValidator, NoId, Verdict

\* A frame that is accepted is the next entry.
LEMMA TakeFrameContract ==
  ASSUME RunInv, RunInv', TakeFrame PROVE [Log!LogNext]_(Log!logVars)
<1>1. /\ outcome = "running" /\ outcome' = outcome /\ ~HasFinal /\ ~AtCall
      /\ validator.seen_calls = validator.seen_results
  BY DEF TakeFrame, RunInv, StageInv, Serving, endVars
<1>2. CASE ~(~line'.big /\ Accepts(validator, line'))
  <2>1. UNCHANGED <<frames, validator>>
    BY <1>2 DEF TakeFrame
  <2> QED BY <1>1, <2>1, Unseen
<1>3. CASE ~line'.big /\ Accepts(validator, line')
  <2> DEFINE f == Stamped(line'.op, line'.id, "in")
  <2>1. frames' = Append(frames, f) /\ validator' = Record(validator, line')
    BY <1>3 DEF TakeFrame
  <2>2. line' \in Emittable
    BY HeadEvent DEF TakeFrame, RunInv, TypeInv
  <2>3. line'.op \in {"call", "final", "custom"} /\ line'.id \in Nat
    <3>1. line'.op \in Ops /\ line'.id \in Nat
      BY <1>3, <2>2, LineTypes DEF Accepts
    <3>2. line'.op # "result"
      BY <1>1, <1>3 DEF Accepts, AcceptsResult
    <3> QED BY <3>1, <3>2 DEF Ops
  <2>4. f \in FrameType /\ f.op = line'.op /\ f.id = line'.id
    <3>1. line'.op \in Ops /\ seq \in Nat
      BY <2>3 DEF Ops, RunInv, TypeInv, TypeOK
    <3> QED BY <2>3, <3>1, StampedType
  <2>5. LogOf(frames)' = Append(LogOf(frames), Logged(f))
    <3>1. frames \in Seq(FrameType)
      BY DEF RunInv, TypeInv, TypeOK
    <3> QED BY <2>1, <2>4, <3>1, LogOfAppend
  <2>6. Log!Accepting /\ Log!Open = Log!NoCall
    BY <1>1, LogNotions DEF NoId, Log!NoCall
  <2>7. Verdict' = Verdict
    BY <1>1 DEF Verdict
  <2> HIDE DEF f
  <2>8. CASE line'.op = "call"
    <3>1. /\ line'.id \in CallIds /\ line'.id > validator.last_call_id
          /\ validator'.last_call_id = line'.id
      BY <1>3, <2>1, <2>2, <2>8, LineTypes DEF Accepts, AcceptsCall, Record
    <3>2. Logged(f) = Log!Entry("call", line'.id)
      BY <2>4, <2>8 DEF Logged, Log!Entry
    <3>3. Log!LogCall(line'.id)
      BY <2>5, <2>6, <2>7, <3>1, <3>2 DEF Log!LogCall
    <3> QED BY <3>1, <3>3 DEF Log!LogNext
  <2>9. CASE line'.op # "call"
    <3>1. validator'.last_call_id = validator.last_call_id
      BY <2>1, <2>9 DEF Record
    <3>2. Logged(f) = Log!Entry(line'.op, Log!NoCall) /\ line'.op \in {"custom", "final"}
      BY <2>3, <2>4, <2>9 DEF Logged, Log!Entry, Log!NoCall, NoId
    <3>3. Log!LogOther(line'.op)
      BY <2>5, <2>6, <2>7, <3>1, <3>2 DEF Log!LogOther
    <3> QED BY <3>2, <3>3 DEF Log!LogNext
  <2> QED BY <2>8, <2>9
<1> QED BY <1>2, <1>3

\* The result that is sent answers the open call.
LEMMA SendResultContract ==
  ASSUME RunInv, SendResult PROVE [Log!LogNext]_(Log!logVars)
<1>1. /\ Serving /\ outcome = "running" /\ outcome' = outcome /\ ~HasFinal /\ AtCall
      /\ frames[Len(frames)].id = line.id
      /\ frames' = Append(frames, Answer)
      /\ validator' = Record(validator, Answer)
  BY DEF SendResult, Answering, RunInv, StageInv, Serving, endVars
<1>2. line.id \in CallIds /\ line.id \in Nat /\ line.id # NoId
  BY <1>1, CallIdsNat DEF RunInv, TypeInv, LineInv
<1>3. Answer \in FrameType /\ Answer.op = "result" /\ Answer.id = line.id
  BY <1>2, StampedType DEF Answer, Ops, RunInv, TypeInv, TypeOK
<1>4. frames \in Seq(FrameType)
  BY DEF RunInv, TypeInv, TypeOK
<1>5. LogOf(frames)' = Append(LogOf(frames), Logged(Answer))
  BY <1>1, <1>3, <1>4, LogOfAppend
<1>6. Log!Accepting /\ Log!Open = line.id /\ Log!Open # Log!NoCall
  BY <1>1, <1>2, LogNotions DEF NoId, Log!NoCall
<1>7. Logged(Answer) = Log!Entry("result", line.id)
  BY <1>3 DEF Logged, Log!Entry
<1>8. Verdict' = Verdict /\ validator'.last_call_id = validator.last_call_id
  BY <1>1, <1>3 DEF Verdict, Record
<1>9. Log!LogResult
  BY <1>5, <1>6, <1>7, <1>8 DEF Log!LogResult
<1> QED BY <1>9 DEF Log!LogNext

\* The end of the run is the verdict, with a final made up if there is none.
LEMMA FinishContract ==
  ASSUME RunInv, Finish PROVE [Log!LogNext]_(Log!logVars)
<1> DEFINE f == Stamped("final", NoId, "in")
<1>1. /\ outcome = "running" /\ outcome' \in {"returned", "raised"}
      /\ protocol_error \in BOOLEAN
      /\ UNCHANGED <<validator, protocol_error>>
      /\ AtCall => protocol_error
  BY DEF Finish, RunInv, StageInv, Serving, TypeInv, TypeOK
<1>2. Verdict' \in Log!Verdicts /\ Verdict = "running"
  BY <1>1 DEF Verdict, Log!Verdicts
<1>3. CASE HasFinal
  <2>1. UNCHANGED frames
    BY <1>3 DEF Finish
  <2>2. Log!Sealed
    BY <1>3, LogNotions
  <2>3. Log!Conclude(Verdict')
    BY <1>1, <1>2, <2>1, <2>2 DEF Log!Conclude
  <2> QED BY <1>2, <2>3 DEF Log!LogNext
<1>4. CASE ~HasFinal
  <2>1. frames' = Append(frames, f) /\ final_result'.ok = FALSE
    BY <1>4 DEF Finish
  <2>2. f \in FrameType /\ f.op = "final"
    BY StampedType DEF Ops, NoId, RunInv, TypeInv, TypeOK
  <2>3. frames \in Seq(FrameType)
    BY DEF RunInv, TypeInv, TypeOK
  <2>4. LogOf(frames)' = Append(LogOf(frames), Logged(f))
    BY <2>1, <2>2, <2>3, LogOfAppend
  <2> HIDE DEF f
  <2>5. Logged(f) = Log!Entry("final", Log!NoCall)
    BY <2>2 DEF Logged, Log!Entry, Log!NoCall, NoId
  <2>6. Log!Accepting /\ (Log!Open # Log!NoCall => AtCall)
    BY <1>1, <1>4, LogNotions DEF NoId, Log!NoCall
  <2>7. Verdict' # "ok" /\ (AtCall => Verdict' # "failed")
    BY <1>1, <2>1 DEF Verdict
  <2>8. Log!Abort(Verdict')
    BY <1>1, <2>4, <2>5, <2>6, <2>7 DEF Log!Abort
  <2> QED BY <1>2, <2>8 DEF Log!LogNext
<1> QED BY <1>3, <1>4

LEMMA StepContract ==
  ASSUME RunInv, RunInv', [Next]_vars PROVE [Log!LogNext]_(Log!logVars)
<1>1. CASE CloseRaises
  <2>1. /\ outcome = "running" /\ outcome' = "raised" /\ UNCHANGED <<frames, validator>>
    BY <1>1 DEF CloseRaises, RunInv, StageInv, traceVars
  <2>2. Log!Lose
    BY <2>1 DEF Log!Lose, Verdict
  <2> QED BY <2>2 DEF Log!LogNext
<1>2. CASE Program \/ Reader \/ Deadline \/ UNCHANGED vars
  <2>1. UNCHANGED <<frames, validator, outcome, protocol_error, final_result>>
    BY <1>2 DEF Program, SupervisorSame, Reader, Deadline, vars, traceVars, endVars
  <2>2. UNCHANGED Log!logVars
    BY <2>1 DEF Log!logVars, Verdict
  <2> QED BY <2>2
<1>3. CASE SendBreaks
  <2>1. /\ outcome = "running" /\ UNCHANGED <<frames, outcome>>
        /\ validator'.last_call_id = validator.last_call_id
    BY <1>3 DEF SendBreaks, Answering, RunInv, StageInv, endVars, Record, Answer, Stamped
  <2> QED BY <2>1, Unseen
<1>4. CASE \/ TakeEof \/ TakeError \/ Dispatch \/ RunTool \/ ResultFits \/ ResultUnfit \/ WaitEnds
           \/ Terminate \/ CloseEnds
  <2>1. outcome = "running" /\ UNCHANGED <<frames, validator, outcome>>
    BY <1>4 DEF TakeEof, TakeError, Dispatch, RunTool, ResultFits, ResultUnfit, Fitting, WaitEnds,
       Terminate, CloseEnds, RunInv, StageInv, traceVars, endVars
  <2> QED BY <2>1, Unseen
<1> QED BY <1>1, <1>2, <1>3, <1>4, TakeFrameContract, SendResultContract, FinishContract
        DEF Next, Supervise, Over

\* A live run keeps the promises of RunLog: its trace only grows, one call is
\* open at a time, an ok verdict needs the program's own final, and a call left
\* without its answer never ends in an ok or failed run.
THEOREM RunKeepsContract == Spec => RunContract
<1>1. RunInv /\ RunInv' /\ [Next]_vars => [Log!LogNext]_(Log!logVars)
  BY StepContract
<1> QED BY <1>1, InitContract, RunInvAlways, PTL DEF Spec, RunContract, Log!LogSpec
=============================================================================
