------------------------------- MODULE RunLog -------------------------------
(***************************************************************************)
(* What one pirml run promises to whoever reads its artifacts: a log that  *)
(* only grows, in which calls are taken one at a time and answered before  *)
(* anything else is taken, that ends with exactly one final entry, and a   *)
(* verdict given once.  The verdict is what the command line leaves        *)
(* behind: exit code 0 or 1 with artifacts ("ok", "failed"), exit code 2   *)
(* with artifacts ("fatal"), or no artifact ("lost"), with exit code 2 for *)
(* what main catches and Python's 1 for what it does not.                  *)
(*                                                                         *)
(* Supervisor (a live run) implements this module; it says nothing of      *)
(* pipes, threads, tools, retries or timeouts.                             *)
(***************************************************************************)
EXTENDS Naturals, Sequences

CONSTANT CallIds        \* the call ids a program may use, positive numbers

VARIABLES
  log,        \* the entries, in order: [op, id]
  highest,    \* the highest call id logged, 0 before the first
  verdict     \* "running" until the run ends

logVars == <<log, highest, verdict>>

NoCall == 0
Verdicts == {"ok", "failed", "fatal", "lost"}
Entry(op, id) == [op |-> op, id |-> id]

\* The log ends with a final.
Sealed == log # << >> /\ log[Len(log)].op = "final"

\* The call that waits for its answer, if there is one.
Open == IF log # << >> /\ log[Len(log)].op = "call" THEN log[Len(log)].id ELSE NoCall

Accepting == verdict = "running" /\ ~Sealed

LogCall(i) ==
  /\ Accepting /\ Open = NoCall
  /\ i > highest
  /\ log' = Append(log, Entry("call", i))
  /\ highest' = i
  /\ UNCHANGED verdict

LogResult ==
  /\ Accepting /\ Open # NoCall
  /\ log' = Append(log, Entry("result", Open))
  /\ UNCHANGED <<highest, verdict>>

\* A custom entry, or the program's own final.
LogOther(op) ==
  /\ Accepting /\ Open = NoCall
  /\ log' = Append(log, Entry(op, NoCall))
  /\ UNCHANGED <<highest, verdict>>

\* The program said final: the verdict follows from it.
Conclude(how) ==
  /\ verdict = "running" /\ Sealed
  /\ verdict' = how
  /\ UNCHANGED <<log, highest>>

\* It did not: a final is made up.  An unanswered call makes the run fatal, and
\* nothing makes such a run ok.
Abort(how) ==
  /\ Accepting
  /\ how # "ok"
  /\ Open # NoCall => how # "failed"
  /\ log' = Append(log, Entry("final", NoCall))
  /\ verdict' = how
  /\ UNCHANGED highest

\* The run gives up without artifacts.
Lose ==
  /\ verdict = "running"
  /\ verdict' = "lost"
  /\ UNCHANGED <<log, highest>>

LogInit == log = << >> /\ highest = NoCall /\ verdict = "running"

LogNext ==
  \/ \E i \in CallIds : LogCall(i)
  \/ LogResult
  \/ \E op \in {"custom", "final"} : LogOther(op)
  \/ \E how \in Verdicts : Conclude(how) \/ Abort(how)
  \/ Lose

LogSpec == LogInit /\ [][LogNext]_logVars
=============================================================================
