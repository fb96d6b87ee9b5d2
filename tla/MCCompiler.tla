----------------------------- MODULE MCCompiler -----------------------------
(* An instance of Compiler for TLC: every program below with a sound contract, some of *)
(* them with every other. *)
EXTENDS Compiler

SafeDef == ("a.b" :> "a_b") @@ ("a_b" :> "a_b") @@ ("c" :> "c")

\* A contract that passes, with small budgets, and what may be wrong with one.
Policy == [declared |-> TRUE, typed |-> TRUE, idempotent |-> FALSE, cacheable |-> FALSE,
           max_payload_bytes |-> 1, retry_n |-> 0]
NoPolicy == [Policy EXCEPT !.declared = FALSE]
For(t, some, none) == [u \in Tools |-> IF u = t THEN some ELSE none]
Budgets == ("max_calls" :> 2) @@ ("max_parallel" :> 2) @@ ("max_bytes_in" :> 3)
             @@ ("max_bytes_out" :> 1) @@ ("timeout_s" :> 1)

Good == [form |-> "object", keys |-> RootAllowed,
         budgets |-> [object |-> TRUE, more |-> FALSE, of |-> Budgets],
         deps |-> [isList |-> TRUE, list |-> <<"a.b">>],
         io |-> [object |-> TRUE, keys |-> IoKeys, typed |-> TRUE],
         assertions |-> TRUE, writes |-> <<"one">>,
         policies |-> For("a.b", Policy, NoPolicy),
         timeouts |-> [default |-> "some", of |-> For("a.b", "some", "none")]]

Sound ==
  {Good,
   [Good EXCEPT !.budgets.of["max_parallel"] = 1, !.budgets.of["max_bytes_in"] = 2,
                !.budgets.of["max_bytes_out"] = 3, !.deps.list = <<"a.b", "a_b">>,
                !.policies["a.b"].retry_n = 1, !.policies["a.b"].idempotent = TRUE,
                !.keys = @ \cup {"final_schema"}, !.io.keys = IoKeys \ {"final_schema"}]}
Unsound ==
  {[Good EXCEPT !.form = "text"], [Good EXCEPT !.form = "value"],
   [Good EXCEPT !.keys = @ \ {"budgets"}], [Good EXCEPT !.keys = @ \cup {"extra"}],
   [Good EXCEPT !.keys = (@ \ {"io_schema"}) \cup {"final_schema"}],
   [Good EXCEPT !.keys = @ \cup {"final_schema"}, !.io.object = FALSE],
   [Good EXCEPT !.budgets.object = FALSE],
   [Good EXCEPT !.budgets.of["max_calls"] = 0],
   [Good EXCEPT !.budgets.more = TRUE],
   [Good EXCEPT !.deps.isList = FALSE],
   [Good EXCEPT !.deps.list = <<"a.b", "c">>],
   [Good EXCEPT !.deps.list = <<>>],
   [Good EXCEPT !.io.object = FALSE], [Good EXCEPT !.io.typed = FALSE],
   [Good EXCEPT !.io.keys = {"trace_ptr"}],
   [Good EXCEPT !.assertions = FALSE],
   [Good EXCEPT !.writes = <<"one", "one">>], [Good EXCEPT !.writes = <<"outside">>],
   [Good EXCEPT !.policies["a.b"].retry_n = 1],
   [Good EXCEPT !.policies["a.b"].cacheable = TRUE],
   [Good EXCEPT !.policies["a.b"].typed = FALSE],
   [Good EXCEPT !.policies["a.b"].max_payload_bytes = 2],
   [Good EXCEPT !.policies = For("a_b", Policy, NoPolicy)],
   [Good EXCEPT !.timeouts.default = "bad"],
   [Good EXCEPT !.timeouts.of["a_b"] = "some"]}

Call(name, target, uses) ==
  [name |-> name, awaited |-> TRUE, target |-> target, uses |-> uses]
GoodProg == [parses |-> TRUE, imports |-> {"asyncio", "rpc"}, banned |-> FALSE, mains |-> 1,
             emits |-> 1, calls |-> <<Call("a_b", "x", {})>>, gathers |-> FALSE,
             serial |-> "none"]
TwoCalls == <<Call("a_b", "x", {}), Call("a_b", "y", {})>>

\* The first passes with a sound contract, and the others with none.
SomeProgs ==
  {[GoodProg EXCEPT !.calls = TwoCalls, !.gathers = TRUE],
   [GoodProg EXCEPT !.calls = <<>>],
   [GoodProg EXCEPT !.parses = FALSE]}
Progs ==
  SomeProgs \cup
  {[GoodProg EXCEPT !.calls = <<Call("a_b", "x", {}), Call("c", "y", {"x"})>>],
   [GoodProg EXCEPT !.calls = TwoCalls], [GoodProg EXCEPT !.calls = TwoCalls, !.serial = "other"],
   [GoodProg EXCEPT !.imports = {"os"}],
   [GoodProg EXCEPT !.banned = TRUE], [GoodProg EXCEPT !.mains = 0],
   [GoodProg EXCEPT !.emits = 2], [GoodProg EXCEPT !.calls[1].awaited = FALSE]}

SubmissionsDef ==
  {[frame |-> "framed", prog |-> p, contract |-> c] : p \in Progs, c \in Sound}
    \cup {[frame |-> "framed", prog |-> p, contract |-> c] : p \in SomeProgs, c \in Unsound}
    \cup {[frame |-> f, prog |-> GoodProg, contract |-> Good] :
            f \in {"prose", "cardinality", "order"}}

-----------------------------------------------------------------------------
(* What a document says and the code does not do: each has a .cfg, with     *)
(* which TLC finds the counterexample.                                      *)

\* The trace of a passed try-out satisfies the protocol's validator: ids of calls ascend,
\* results answer a call before them, each once (smoke.py, parse_smoke_output).
\* docs/adr/004-compiler-l1-smoke-verifier/03-smoke-determinism.md:8 says so; a program that
\* prints a call of its own through the runtime breaks it.
SmokeTraceLints ==
  (attempt.passed /\ attempt.at \in {"trace", "judged"}) =>
    /\ \A i, j \in Lines("call") : i < j => Id(i) < Id(j)
    /\ \A j \in Lines("result") :
         /\ \E i \in Lines("call") : i < j /\ Id(i) = Id(j)
         /\ \A i \in Lines("result") : i < j => Id(i) # Id(j)

\* An attempt that ends in good order leaves its program and its contract, or its error
\* file, and nothing of the other (docs/adr/004-compiler-l1-smoke-verifier.md:17).  A contract
\* that cannot be written leaves a whole program beside the error file.
BranchLaw ==
  (At("done") /\ attempt.code \in {"0", "1", "2"} /\ ~attempt.raised) =>
    \/ Left("prog") /\ Left("contract") /\ out["error"].run # attempt.n
    \/ Left("error") /\ out["prog"].run # attempt.n /\ out["contract"].run # attempt.n
=============================================================================
