---------------------------- MODULE MCSupervisor ----------------------------
(* Instances of Supervisor for TLC. *)
EXTENDS Supervisor

CONSTANTS Plain, Pure, Deed, Banned

MCPolicy ==
  Plain :> [declared |-> FALSE, idempotent |-> FALSE, cacheable |-> FALSE, retry_n |-> 0]
  @@ Pure :> [declared |-> TRUE, idempotent |-> TRUE, cacheable |-> FALSE, retry_n |-> 1]
  @@ Deed :> [declared |-> TRUE, idempotent |-> FALSE, cacheable |-> FALSE, retry_n |-> 0]
  @@ Banned :> [declared |-> TRUE, idempotent |-> FALSE, cacheable |-> FALSE, retry_n |-> 2]

MCLine(op, id, tool) ==
  [op |-> op, id |-> id, tool |-> tool, well |-> TRUE, big |-> FALSE, ok |-> TRUE,
   room |-> 1]

\* A call of every kind of tool, ids in and out of order, the results a program
\* could forge, both ends of a final, and each way a line can be refused.
MCEmittable ==
  {MCLine("call", 1, Plain), MCLine("call", 2, Pure), MCLine("call", 2, Deed),
   MCLine("call", 3, Banned),
   [MCLine("call", 3, Plain) EXCEPT !.well = FALSE],
   MCLine("result", 1, Plain),
   MCLine("final", NoId, Plain),
   [MCLine("final", NoId, Plain) EXCEPT !.ok = FALSE, !.room = 2],
   MCLine("custom", NoId, Plain), MCLine("bogus", NoId, Plain), MCLine("junk", NoId, Plain),
   [MCLine("custom", NoId, Plain) EXCEPT !.big = TRUE]}

\* For the runs about termination.
MCFewLines ==
  {MCLine("call", 1, Plain), MCLine("call", 2, Pure), MCLine("final", NoId, Plain)}
=============================================================================
