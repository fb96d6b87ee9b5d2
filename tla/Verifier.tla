------------------------------ MODULE Verifier ------------------------------
(***************************************************************************)
(* What the program compiler demands of a generated program and of its     *)
(* contract before it runs or publishes either (compiler/verify.py, with   *)
(* the runtime policies of runtime/policy.py).  Every check that fails     *)
(* adds its code; nothing is refused by order.                             *)
(*                                                                         *)
(* A contract and a program are records of what the checks tell apart: a   *)
(* value of the wrong type is a flag, a size a number, the syntax tree the *)
(* list of its tool calls in the order of their lines.                     *)
(***************************************************************************)
EXTENDS Naturals, Sequences, SequencesExt, FiniteSets, Functions

CONSTANTS
  Tools,          \* tool names
  Safe,           \* each name as an identifier: TOOL_<name>, a dot as an underscore
  Selected        \* the tools found for the task and shown to the model

ASSUME VerifierAssumption ==
  Selected \subseteq Tools /\ IsFiniteSet(Tools) /\ DOMAIN Safe = Tools

RootKeys == {"tool_deps", "io_schema", "budgets", "assertions"}
RootAllowed == RootKeys \cup {"artifact_writes", "tool_policies", "timeouts"}
BudgetKeys == {"max_calls", "max_parallel", "max_bytes_in", "max_bytes_out", "timeout_s"}
IoKeys == {"trace_ptr", "final_schema", "citations_schema"}

AllowImports == {"asyncio", "json", "rpc"}
AllowSerialReasons == {"dependency_chain", "rate_limit", "ordering_required"}

\* Contracts and programs as the checks see them; a budget that is not there, or no
\* positive number, is 0, a cap that is not there as well; any other key is "extra".
PolicyType ==
  [declared : BOOLEAN, typed : BOOLEAN, idempotent : BOOLEAN, cacheable : BOOLEAN,
   max_payload_bytes : Nat, retry_n : Nat]

ContractType ==
  [form : {"text", "value", "object"}, keys : SUBSET (RootAllowed \cup {"final_schema", "extra"}),
   budgets : [object : BOOLEAN, more : BOOLEAN, of : [BudgetKeys -> Nat]],
   deps : [isList : BOOLEAN, list : Seq(Tools)],
   io : [object : BOOLEAN, keys : SUBSET (IoKeys \cup {"extra"}), typed : BOOLEAN],
   assertions : BOOLEAN, writes : Seq(STRING),
   policies : [Tools -> PolicyType],
   timeouts : [default : {"none", "some", "bad"}, of : [Tools -> {"none", "some", "bad"}]]]

ProgType ==
  [parses : BOOLEAN, imports : SUBSET STRING, banned : BOOLEAN, mains : Nat, emits : Nat,
   calls : Seq([name : Range(Safe), awaited : BOOLEAN, target : STRING,
                uses : SUBSET STRING]),
   gathers : BOOLEAN, serial : STRING]

If(bad, code) == IF bad THEN {code} ELSE {}
Deps(c) == ToSet(c.deps.list)

-----------------------------------------------------------------------------
(* The contract                                                            *)

\* The schema of the final moves under io_schema, unless there is one already; an
\* io_schema that is no object cannot take it, and the compiler's own code raises.
AliasRaises(c) ==
  /\ c.form = "object"
  /\ {"final_schema", "io_schema"} \subseteq c.keys
  /\ ~c.io.object

Moved(c, io) ==
  [c EXCEPT !.keys = (@ \ {"final_schema"}) \cup {"io_schema"},
            !.io = [object |-> TRUE, keys |-> io \cup {"final_schema"}, typed |-> @.typed]]

Aliased(c) ==
  IF "final_schema" \notin c.keys THEN c
  ELSE Moved(c, IF "io_schema" \in c.keys THEN c.io.keys ELSE {})

RootErrors(c) ==
  If(~(RootKeys \subseteq c.keys), "contract_missing_keys")
    \cup If(~(c.keys \subseteq RootAllowed), "contract_extra_keys")

\* Every budget is there and positive, and nothing else is.
BudgetErrors(c) ==
  IF ~c.budgets.object THEN {"invalid_budget_shape"}
  ELSE If(c.budgets.more \/ \E k \in BudgetKeys : c.budgets.of[k] = 0, "invalid_budget")

DepErrors(c) ==
  IF ~c.deps.isList THEN {"invalid_tool_deps"}
  ELSE If(~(Deps(c) \subseteq Selected), "unknown_tool_deps")

IoErrors(c) ==
  IF ~c.io.object THEN {"invalid_io_schema_shape"}
  ELSE If(c.io.keys # IoKeys \/ ~c.io.typed, "invalid_io_schema")

-----------------------------------------------------------------------------
(* The runtime policies in it                                              *)

\* Artifact paths stay below artifacts/ and are named once.
WriteErrors(c) ==
  If(\E i, j \in DOMAIN c.writes : i # j /\ c.writes[i] = c.writes[j],
     "invalid_artifact_writes")
    \cup If("outside" \in ToSet(c.writes), "artifact_path_denied")

\* A retry asks for an idempotent tool, whichever of the two keys comes first.
\* A slip: a retry asks for nothing.
RetryNeedsNothing(p) == FALSE
RetryDenied(p) == p.retry_n > 0 /\ ~p.idempotent

PolicyErrors(c, t) ==
  LET p == c.policies[t]
      \* without budgets of the right form there is nothing to compare the cap with
      most == IF c.budgets.object THEN c.budgets.of["max_bytes_out"] ELSE 0
  IN If(c.deps.isList /\ t \notin Deps(c), "unknown_tool_policy")
       \cup If(~p.typed \/ RetryDenied(p), "invalid_tool_policy")
       \cup If(p.cacheable, "unsupported_policy_variant")
       \cup If(most > 0 /\ p.max_payload_bytes > most, "policy_budget_conflict")

TimeoutErrors(c) ==
  LET overridden == {t \in Tools : c.timeouts.of[t] # "none"} IN
  If("bad" \in {c.timeouts.default} \cup Range(c.timeouts.of), "invalid_timeouts")
    \cup If(c.deps.isList /\ ~(overridden \subseteq Deps(c)), "unknown_timeout_tool")

\* With a key missing the rest is not looked at.
ContractErrors(contract) ==
  LET c == Aliased(contract) IN
  IF c.form = "text" THEN {"invalid_contract_json"}
  ELSE IF c.form = "value" THEN {"invalid_contract_shape"}
  ELSE IF "contract_missing_keys" \in RootErrors(c) THEN RootErrors(c)
  ELSE RootErrors(c) \cup BudgetErrors(c) \cup DepErrors(c) \cup IoErrors(c)
         \cup If(~c.assertions, "invalid_assertions")
         \cup WriteErrors(c) \cup TimeoutErrors(c)
         \cup UNION {PolicyErrors(c, t) : t \in {u \in Tools : c.policies[u].declared}}

-----------------------------------------------------------------------------
(* The program                                                             *)

\* The identifiers of the contract's tools.
Names(c) == {Safe[t] : t \in Deps(c)}

\* A slip: the program may use what the contract does not declare.
UndeclaredPasses(prog, c) == ~(Names(c) \subseteq {k.name : k \in ToSet(prog.calls)})
DepMismatch(prog, c) == {k.name : k \in ToSet(prog.calls)} # Names(c)

\* Awaited calls that take no earlier one's result: without a gather, or a reason to be
\* serial, they are refused.  An assignment to a name is all that counts as a result.
Awaited(prog) == SelectSeq(prog.calls, LAMBDA k : k.awaited)

IndependentSerial(prog) ==
  LET s == Awaited(prog) IN
  \E i \in 2..Len(s) : \A j \in 1..(i - 1) : s[j].target \notin s[i].uses

SerialErrors(prog) ==
  IF prog.gathers \/ ~IndependentSerial(prog) \/ prog.serial \in AllowSerialReasons THEN {}
  ELSE {IF prog.serial = "none" THEN "missing_gather" ELSE "invalid_serial_reason"}

ProgErrors(prog, c) ==
  IF ~prog.parses THEN {"syntax_error"}
  ELSE If(~(prog.imports \subseteq AllowImports), "ast_import_denied")
         \cup If(prog.banned, "banned_call")
         \cup If(prog.mains # 1, "missing_async_main")
         \cup If(prog.emits # 1, "invalid_final_emit")
         \cup If(\E k \in ToSet(prog.calls) : ~k.awaited, "unawaited_tool_call")
         \cup If(DepMismatch(prog, c), "tool_dep_mismatch")
         \cup SerialErrors(prog)

\* The program is looked at only with a contract that passed.
Errors(prog, contract) ==
  LET e == ContractErrors(contract) IN
  IF e # {} THEN e ELSE ProgErrors(prog, Aliased(contract))

-----------------------------------------------------------------------------
(* A second look after a repair                                            *)

TrivialRepair == {"contract_missing_keys", "invalid_io_schema", "invalid_final_emit"}

\* The repair does what the verifier's own alias does, to contracts the verifier has
\* refused all the same; a program is stripped that the extractor has stripped.
Repaired(contract, errors) ==
  IF /\ errors \cap {"contract_missing_keys", "invalid_io_schema"} # {}
     /\ "final_schema" \in contract.keys /\ "io_schema" \notin contract.keys
  THEN Moved(contract, {})
  ELSE contract

\* The contract in the form that is verified last, and what is wrong with it.
Verified(prog, contract) ==
  LET e == Errors(prog, contract) IN
  IF e # {} /\ e \subseteq TrivialRepair
  THEN [contract |-> Aliased(Repaired(contract, e)),
        errors |-> Errors(prog, Repaired(contract, e))]
  ELSE [contract |-> Aliased(contract), errors |-> e]

-----------------------------------------------------------------------------
(* The tools a program reaches (assemble.py and the smoke harness)          *)

\* One function for each declared tool, in the contract's order: of tools with the same
\* identifier the last is the one that is called, which of them that is we leave open.
Wrapped(c, name) == {t \in Deps(c) : Safe[t] = name}

\* execution_policy_error: what the runtime would refuse to run at all.
RuntimeRefuses(p) == p.cacheable \/ (p.retry_n > 0 /\ ~p.idempotent)
=============================================================================
