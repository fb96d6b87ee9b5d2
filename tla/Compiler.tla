------------------------------ MODULE Compiler ------------------------------
(***************************************************************************)
(* The program compiler (compiler/compile.py, scripts/compile.py): a       *)
(* model's text is taken apart, verified, tried out in a process of its    *)
(* own where every tool is a dummy and the contract's budgets are counted  *)
(* (compiler/smoke.py), and published as a program and its contract, or    *)
(* refused with an error file, in a directory that may hold an earlier     *)
(* attempt's.                                                              *)
(*                                                                         *)
(* The generated program is anything: its coroutines call the tools of the *)
(* contract, overlap, are cancelled, catch the harness's own exit and go   *)
(* on, and print frames of their own through pirml.runtime.rpc, which the  *)
(* verifier lets them import; only the harness's variables, which are      *)
(* globals of the same module, they leave alone.  Sizes stand for bytes; a *)
(* file is known by the attempt that wrote it; a write empties the file    *)
(* first and may fail or be cut off.                                       *)
(***************************************************************************)
EXTENDS Verifier

CONSTANTS
  Submissions,    \* what the model may answer: a frame, a program, a contract
  Sizes,          \* of a call's arguments or result
  OwnIds,         \* ids in the frames the program prints itself
  Attempts,       \* bound: attempts in the directory
  MaxLines        \* bound: lines a program prints while it is tried out

SubType == [frame : {"framed", "prose", "cardinality", "order"},
            prog : ProgType, contract : ContractType]

ASSUME CompilerAssumption ==
  /\ Submissions \subseteq SubType
  /\ Sizes \subseteq Nat \ {0} /\ OwnIds \subseteq Nat
  /\ Attempts \in Nat /\ MaxLines \in Nat

VARIABLES
  attempt,        \* the attempt under way and what came of the last one
  smoke,          \* the process in which the program is tried out
  out             \* the directory

vars == <<attempt, smoke, out>>

Files == {"raw", "trace", "prog", "contract", "error"}
NoFile == [run |-> 0, whole |-> FALSE]
NoSub == [frame |-> "none"]
NoSmoke == [lines |-> <<>>, calls |-> 0, now |-> 0, peak |-> 0, in |-> 0, out |-> 0,
            flying |-> {}]
NoAttempt == [n |-> 0, at |-> "done", open |-> FALSE, try |-> FALSE, sub |-> NoSub,
              passed |-> FALSE, stage |-> "none", code |-> "none", raised |-> FALSE]

At(where) == attempt.at = where

\* The attempt ends with an error file for a stage of the pipeline.
Refused(stage) == [attempt EXCEPT !.at = "error", !.open = FALSE, !.stage = stage]

\* The attempt is forgotten but for what came of it; what main does not catch leaves it by
\* a traceback, for which Python's exit code is 1.
Ended(n, code) == [NoAttempt EXCEPT !.n = n, !.code = code]
Traceback(n) == [NoAttempt EXCEPT !.n = n, !.code = "1", !.raised = TRUE]

-----------------------------------------------------------------------------
(* From the task to a verified program                                     *)

\* The directory is made before anything is caught.
Begins ==
  /\ At("done") /\ attempt.n < Attempts
  /\ \/ \E try \in BOOLEAN :
          attempt' = [NoAttempt EXCEPT !.n = attempt.n + 1, !.at = "tools", !.try = try]
     \/ attempt' = Traceback(attempt.n + 1)
  /\ smoke' = NoSmoke
  /\ UNCHANGED out

\* The search over the tool manifests, which may be broken or deny code as a caller.
FindsTools ==
  /\ At("tools")
  /\ attempt' \in {[attempt EXCEPT !.at = "model"], Refused("internal")}
  /\ UNCHANGED <<smoke, out>>

\* The model's answer, or a file of it that is not there.
Answers ==
  /\ At("model")
  /\ \/ \E s \in Submissions : attempt' = [attempt EXCEPT !.at = "raw", !.sub = s]
     \/ attempt' = Refused("internal")
  /\ UNCHANGED <<smoke, out>>

\* Two sentinels, the program's first, and nothing before them.
Extracts ==
  /\ At("extract")
  /\ attempt' = IF attempt.sub.frame = "framed" THEN [attempt EXCEPT !.at = "verify"]
                ELSE Refused("extract")
  /\ UNCHANGED <<smoke, out>>

Verifies ==
  /\ At("verify")
  /\ LET v == Verified(attempt.sub.prog, attempt.sub.contract) IN
     attempt' =
       IF AliasRaises(attempt.sub.contract) THEN Refused("internal")
       ELSE IF v.errors # {} THEN Refused("verify")
       ELSE [attempt EXCEPT !.sub.contract = v.contract,
                            !.at = IF attempt.try THEN "smoke" ELSE "prog"]
  /\ UNCHANGED <<smoke, out>>

-----------------------------------------------------------------------------
(* The try-out                                                             *)

Budget(k) == attempt.sub.contract.budgets.of[k]
\* A line of the harness's, whose send_final the program's runtime is given, or of the
\* program's; both look the same to who reads them.
Frame(op, id) == [op |-> op, by |-> "harness", id |-> id, ok |-> TRUE]
Own(op, id) == [op |-> op, by |-> "program", id |-> id, ok |-> TRUE]
Final(ok) == [op |-> "final", by |-> "harness", id |-> 0, ok |-> ok]

\* Bound: the program is followed as long as what it prints may change the verdict.
Decided(lines) ==
  \E i \in DOMAIN lines : \/ lines[i].op = "chatter"
                          \/ lines[i].op = "final" /\ i < Len(lines)

\* The program may print while there is room.
Prints(more) ==
  /\ At("smoke") /\ ~Decided(smoke.lines)
  /\ Len(smoke.lines) + Len(more) <= MaxLines
  /\ UNCHANGED <<attempt, out>>

\* A call is printed first and counted then: arguments, calls, calls at a time.  The
\* budget it breaks ends the program with a final that says so, unless it catches that.
\* A slip: a call is given its place among the calls at a time when it is answered.
CountedAtAnswer(size) ==
  LET s == [smoke EXCEPT !.in = @ + size, !.calls = @ + 1, !.now = @ + 1]
  IN IF s.in > Budget("max_bytes_in") THEN [s EXCEPT !.calls = smoke.calls, !.now = smoke.now]
     ELSE IF s.calls > Budget("max_calls") THEN [s EXCEPT !.now = smoke.now]
     ELSE [s EXCEPT !.peak = IF @ < smoke.now THEN smoke.now ELSE @]

Counted(size) ==
  LET s == [smoke EXCEPT !.in = @ + size, !.calls = @ + 1, !.now = @ + 1]
  IN IF s.in > Budget("max_bytes_in") THEN [s EXCEPT !.calls = smoke.calls, !.now = smoke.now]
     ELSE IF s.calls > Budget("max_calls") THEN [s EXCEPT !.now = smoke.now]
     ELSE [s EXCEPT !.peak = IF @ < s.now THEN s.now ELSE @]

OverBudget(s) ==
  \/ s.in > Budget("max_bytes_in")
  \/ s.calls > Budget("max_calls")
  \/ s.peak > Budget("max_parallel")

SmokeCalls ==
  /\ At("smoke") /\ Deps(attempt.sub.contract) # {}
  /\ \E size \in Sizes :
       LET s == Counted(size)
           call == Frame("call", smoke.calls + 1)
           more == IF OverBudget(s) THEN <<call, Final(FALSE)>> ELSE <<call>>
       IN /\ Prints(more)
          /\ smoke' = [s EXCEPT !.lines = @ \o more,
                                !.flying = IF OverBudget(s) THEN @
                                           ELSE @ \cup {smoke.calls + 1}]

\* The dummy's result, unless it takes the results past their budget.
SmokeAnswers ==
  /\ At("smoke")
  /\ \E id \in smoke.flying, size \in Sizes :
       LET more == IF smoke.out + size > Budget("max_bytes_out") THEN <<Final(FALSE)>>
                   ELSE <<Frame("result", id)>>
       IN /\ Prints(more)
          /\ smoke' = [smoke EXCEPT !.lines = @ \o more, !.out = @ + size,
                                    !.now = @ - 1, !.flying = @ \ {id}]

\* The program cancels a call, or gave it arguments that are no mapping.
SmokeDrops ==
  /\ Prints(<<>>)
  /\ \E id \in smoke.flying :
       smoke' = [smoke EXCEPT !.now = @ - 1, !.flying = @ \ {id}]

\* The program's own final, from wherever its one send_final is reached; a call or result
\* it prints through the runtime's call or write_frame, which no harness counts; or a line
\* that is no frame.
OwnLines ==
  {Final(TRUE), Final(FALSE), Own("chatter", 0)}
    \cup {Own("call", id) : id \in OwnIds} \cup {Own("result", id) : id \in OwnIds}

SmokePrints ==
  \E line \in OwnLines :
    /\ Prints(<<line>>)
    /\ smoke' = [smoke EXCEPT !.lines = Append(@, line)]

\* parse_smoke_output: frames only, one final, and that the last and ok; ids are not looked
\* at.
\* A slip: what the last line says.
LastWord(lines) ==
  /\ \A i \in DOMAIN lines : lines[i].op # "chatter"
  /\ lines # <<>> /\ Last(lines) = Final(TRUE)
Passes(lines) ==
  /\ \A i \in DOMAIN lines : lines[i].op # "chatter"
  /\ lines # <<>> /\ Last(lines) = Final(TRUE)
  /\ \A i \in 1..(Len(lines) - 1) : lines[i].op # "final"

\* The process has ended, with whatever exit code, and what it printed is judged.
SmokeEnds ==
  /\ At("smoke")
  /\ attempt' = [attempt EXCEPT !.at = "trace", !.passed = Passes(smoke.lines)]
  /\ UNCHANGED <<smoke, out>>

\* It is killed after the contract's time, and its output is lost.
\* A slip: the time starts again with every line.
SilentFor(lines) == lines = <<>>
TimeIsUp(lines) == TRUE

SmokeTimesOut ==
  /\ At("smoke") /\ TimeIsUp(smoke.lines)
  /\ attempt' = [attempt EXCEPT !.at = "trace", !.passed = FALSE]
  /\ smoke' = NoSmoke
  /\ UNCHANGED out

Judges ==
  /\ At("judged")
  /\ attempt' = IF attempt.passed THEN [attempt EXCEPT !.at = "prog"] ELSE Refused("smoke")
  /\ smoke' = NoSmoke
  /\ UNCHANGED out

-----------------------------------------------------------------------------
(* The files                                                               *)

\* The file written at each place and what comes after it.
\* A slip: the attempt ends with the program.
EndsWithProg == [raw |-> "extract", trace |-> "judged", contract |-> "done",
                 prog |-> "done", error |-> "done"]
AfterWrite == [raw |-> "extract", trace |-> "judged", prog |-> "contract",
               contract |-> "done", error |-> "done"]

\* The command line's exit code.
Code ==
  IF ~At("error") THEN "0" ELSE IF attempt.stage = "internal" THEN "2" ELSE "1"

Opens ==
  /\ attempt.at \in Files /\ ~attempt.open
  /\ out' = [out EXCEPT ![attempt.at] = [run |-> attempt.n, whole |-> FALSE]]
  /\ attempt' = [attempt EXCEPT !.open = TRUE]
  /\ UNCHANGED smoke

Writes ==
  /\ attempt.open
  /\ out' = [out EXCEPT ![attempt.at] = [run |-> attempt.n, whole |-> TRUE]]
  /\ attempt' = IF AfterWrite[attempt.at] = "done" THEN Ended(attempt.n, Code)
                ELSE [attempt EXCEPT !.at = AfterWrite[attempt.at], !.open = FALSE]
  /\ UNCHANGED smoke

\* A write fails, before or after the file was emptied: an internal error, unless it was
\* an error file written while an error was handled already.
WriteFails ==
  /\ attempt.at \in Files
  /\ attempt' = IF At("error") /\ attempt.stage \in {"extract", "internal"}
                THEN Traceback(attempt.n) ELSE Refused("internal")
  /\ smoke' = NoSmoke
  /\ UNCHANGED out

\* The compiler is killed; the process it leaves behind has nobody who reads it.
Killed ==
  /\ ~At("done")
  /\ attempt' = Ended(attempt.n, "killed")
  /\ smoke' = NoSmoke
  /\ UNCHANGED out

-----------------------------------------------------------------------------
Init ==
  /\ attempt = NoAttempt
  /\ smoke = NoSmoke
  /\ out = [f \in Files |-> NoFile]

\* What compile.py does of its own accord; that the process it waits for ends is only
\* its timeout's doing.
Works ==
  \/ FindsTools \/ Answers \/ Extracts \/ Verifies
  \/ SmokeTimesOut \/ Judges \/ Opens \/ Writes

Program == SmokeCalls \/ SmokeAnswers \/ SmokeDrops \/ SmokePrints \/ SmokeEnds

Next == Begins \/ Works \/ Program \/ WriteFails \/ Killed

Spec == Init /\ [][Next]_vars /\ WF_vars(Works)

-----------------------------------------------------------------------------
(* Properties                                                              *)

\* Types: the process is empty unless the attempt tries out, a file is open only where
\* one is written, and no more than the calls in flight, or counted out by the budget
\* they broke, run at a time.
TypeOK ==
  /\ attempt.n \in 0..Attempts
  /\ attempt.at \in Files \cup {"tools", "model", "extract", "verify", "smoke", "judged", "done"}
  /\ attempt.open \in BOOLEAN /\ (attempt.open => attempt.at \in Files)
  /\ attempt.try \in BOOLEAN /\ attempt.passed \in BOOLEAN
  /\ attempt.at \in {"done", "tools", "model"} => attempt.sub = NoSub
  /\ attempt.at \in {"smoke", "trace", "judged", "prog", "contract"} =>
       attempt.sub.frame = "framed"
  /\ attempt.stage \in {"none", "extract", "verify", "smoke", "internal"}
  /\ attempt.code \in {"none", "0", "1", "2", "killed"} /\ attempt.raised \in BOOLEAN
  /\ out \in [Files -> [run : 0..Attempts, whole : BOOLEAN]]
  /\ smoke.lines \in Seq([op : {"call", "result", "final", "chatter"},
                         by : {"harness", "program"}, id : Nat, ok : BOOLEAN])
  /\ {smoke.calls, smoke.now, smoke.peak, smoke.in, smoke.out} \subseteq Nat
  /\ smoke.flying \subseteq 1..smoke.calls
  /\ Cardinality(smoke.flying) <= smoke.now /\ smoke.now <= smoke.peak

\* Where the harness, or anybody, has printed a kind of line, and the id a line bears.
Printed(op) ==
  {i \in DOMAIN smoke.lines : smoke.lines[i].op = op /\ smoke.lines[i].by = "harness"}
Lines(op) == {i \in DOMAIN smoke.lines : smoke.lines[i].op = op}
Id(i) == smoke.lines[i].id

\* A program that passed its try-out kept to every budget of its contract in the calls it
\* made through its tools, although it may have caught the exit with which the harness
\* answers a broken one and gone on; the harness's lines count these calls without a gap
\* and answer each at most once and after it was made, whatever the program prints
\* between them; and the trace ends with its only final (smoke.py, _harness_call_tool).
AcceptedTrace ==
  (attempt.passed /\ attempt.at \in {"trace", "judged"}) =>
    /\ \A j \in Printed("call") :
         /\ Id(j) \in 1..Budget("max_calls")
         /\ \A n \in 1..Id(j) : \E i \in Printed("call") : i <= j /\ Id(i) = n
         /\ \A i \in Printed("call") : i < j => Id(i) < Id(j)
    /\ smoke.peak <= Budget("max_parallel")
    /\ smoke.in <= Budget("max_bytes_in") /\ smoke.out <= Budget("max_bytes_out")
    /\ \A j \in Printed("result") :
         /\ \E i \in Printed("call") : i < j /\ Id(i) = Id(j)
         /\ \A i \in Printed("result") : i < j => Id(i) # Id(j)
    /\ Lines("final") = {Len(smoke.lines)}

\* Every tool the program names has a function, which calls a declared tool that was found
\* for the task; the runtime, which looks at the policies anew, refuses to run none
\* of them, and no payload cap is above the budget.
Runs(prog, c) ==
  /\ \A k \in ToSet(prog.calls) :
       Wrapped(c, k.name) # {} /\ Wrapped(c, k.name) \subseteq Selected
  /\ \A t \in Tools : c.policies[t].declared =>
       /\ t \in Deps(c) /\ ~RuntimeRefuses(c.policies[t])
       /\ c.policies[t].max_payload_bytes <= c.budgets.of["max_bytes_out"]

\* No byte of prog.py is of an attempt whose program would not run as its contract says,
\* or that failed the try-out it was asked to pass, whose trace is then beside it
\* (verify.py, smoke.py, assemble.py, runtime/policy.py).
PublishedRuns ==
  (out["prog"].run = attempt.n /\ ~At("done")) =>
    /\ Runs(attempt.sub.prog, attempt.sub.contract)
    /\ attempt.try => attempt.passed /\ out["trace"] = [run |-> attempt.n, whole |-> TRUE]

\* The attempt's own, whole.
Left(f) == out[f] = [run |-> attempt.n, whole |-> TRUE]

\* The exit code and the directory agree, whatever an earlier attempt left and whichever
\* write failed: 0 means this attempt's program and contract, both whole; 2 means its
\* error file, whole; and so does 1, with neither of the two touched, unless main left by
\* a traceback: then there is no such file, by which a 1 of the one kind can be told from
\* a 1 of the other (compile_task, scripts/compile.py).
VerdictOnFile ==
  At("done") =>
    /\ attempt.code = "0" => Left("prog") /\ Left("contract")
    /\ attempt.code = "2" => Left("error")
    /\ attempt.code = "1" => (Left("error") <=> ~attempt.raised)
    /\ attempt.code = "1" /\ ~attempt.raised =>
         out["prog"].run # attempt.n /\ out["contract"].run # attempt.n

\* Every attempt ends, whatever the program it tries out does.
CompileEnds == (~At("done")) ~> At("done")
=============================================================================
