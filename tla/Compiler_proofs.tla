--------------------------- MODULE Compiler_proofs ---------------------------
(***************************************************************************)
(* What the compiler publishes, for every set of tools, every answer of    *)
(* the model and every program's behaviour while it is tried out.          *)
(***************************************************************************)
EXTENDS Compiler, FiniteSetTheorems, TLAPS

-----------------------------------------------------------------------------
(* The verifier                                                            *)

\* The alias moves the final's schema and touches nothing else (verify.py:120-127).
LEMMA AliasKeeps ==
  ASSUME NEW c \in ContractType
  PROVE  /\ Aliased(c).form = c.form /\ Aliased(c).budgets = c.budgets
         /\ Aliased(c).deps = c.deps /\ Aliased(c).policies = c.policies
         /\ Deps(Aliased(c)) = Deps(c) /\ Names(Aliased(c)) = Names(c)
  <1>. DEFINE d == Aliased(c)
  <1>1. /\ d.form = c.form /\ d.budgets = c.budgets
        /\ d.deps = c.deps /\ d.policies = c.policies
    BY DEF Aliased, Moved, ContractType
  <1>. QED
    BY <1>1 DEF Deps, Names

\* What the repair does to a contract the alias does to it anyway.
LEMMA RepairIsAlias ==
  ASSUME NEW c \in ContractType, NEW e
  PROVE  Aliased(Repaired(c, e)) = Aliased(c)
  <1>1. CASE Repaired(c, e) = c
    BY <1>1
  <1>2. CASE Repaired(c, e) # c
    <2>1. "final_schema" \in c.keys /\ "io_schema" \notin c.keys
      BY <1>2 DEF Repaired
    <2>2. Repaired(c, e) = Moved(c, {})
      BY <1>2 DEF Repaired
    <2>3. "final_schema" \notin Moved(c, {}).keys
      BY DEF ContractType, Moved
    <2>4. Aliased(Moved(c, {})) = Moved(c, {})
      BY <2>3 DEF Aliased
    <2>5. Aliased(c) = Moved(c, {})
      BY <2>1 DEF Aliased
    <2>. QED
      BY <2>2, <2>4, <2>5
  <1>. QED
    BY <1>1, <1>2

\* The second look after a repair finds what the first has found: repair_once, which
\* compile_task calls for errors it takes for trivial, never saves a compilation
\* (compile.py:113-119, repair.py).
THEOREM RepairIsIdle ==
  ASSUME NEW prog, NEW c \in ContractType
  PROVE  Verified(prog, c) = [contract |-> Aliased(c), errors |-> Errors(prog, c)]
  <1>1. ASSUME NEW e PROVE Errors(prog, Repaired(c, e)) = Errors(prog, c)
    <2>1. Aliased(Repaired(c, e)) = Aliased(c)
      BY RepairIsAlias
    <2>. QED
      BY ONLY <2>1 DEF Errors, ContractErrors
  <1>2. Aliased(Repaired(c, Errors(prog, c))) = Aliased(c)
    BY RepairIsAlias
  <1>3. Errors(prog, Repaired(c, Errors(prog, c))) = Errors(prog, c)
    BY <1>1
  <1>. QED
    BY ONLY <1>2, <1>3 DEF Verified

\* A contract without errors declares only tools found for the task, and policies of
\* declared tools that the runtime does not refuse.
LEMMA AcceptedContract ==
  ASSUME NEW c \in ContractType, ContractErrors(c) = {}
  PROVE  /\ Deps(c) \subseteq Selected
         /\ \A t \in Tools : c.policies[t].declared =>
              /\ t \in Deps(c) /\ ~RuntimeRefuses(c.policies[t])
              /\ c.policies[t].max_payload_bytes <= c.budgets.of["max_bytes_out"]
  <1>. DEFINE a == Aliased(c)
  <1>1. /\ a.budgets = c.budgets /\ a.deps = c.deps /\ a.policies = c.policies
        /\ Deps(a) = Deps(c)
    BY AliasKeeps
  <1>2. /\ BudgetErrors(a) = {} /\ DepErrors(a) = {}
        /\ UNION {PolicyErrors(a, t) : t \in {u \in Tools : a.policies[u].declared}} = {}
    <2>. HIDE DEF a
    <2>. QED
      BY DEF ContractErrors, a
  <1>3. c.budgets.object /\ c.budgets.of["max_bytes_out"] # 0
    BY <1>1, <1>2 DEF BudgetErrors, If, BudgetKeys
  <1>4. c.deps.isList /\ Deps(c) \subseteq Selected
    BY <1>1, <1>2 DEF DepErrors, If
  <1>5. ASSUME NEW t \in Tools, c.policies[t].declared
        PROVE  /\ t \in Deps(c) /\ ~RuntimeRefuses(c.policies[t])
               /\ c.policies[t].max_payload_bytes <= c.budgets.of["max_bytes_out"]
    <2>. DEFINE p == c.policies[t]
                most == c.budgets.of["max_bytes_out"]
    <2>1. PolicyErrors(a, t) = {}
      <3>. HIDE DEF a
      <3>. QED
        BY <1>1, <1>2, <1>5
    <2>2. /\ t \in Deps(c) /\ ~RetryDenied(p) /\ ~p.cacheable
          /\ ~(most > 0 /\ p.max_payload_bytes > most)
      BY <2>1, <1>1, <1>3, <1>4 DEF PolicyErrors, If
    <2>3. p \in PolicyType /\ most \in Nat
      BY DEF ContractType, BudgetKeys
    <2>4. p.max_payload_bytes <= most
      BY <2>2, <2>3, <1>3 DEF PolicyType
    <2>. QED
      BY <2>2, <2>4 DEF RetryDenied, RuntimeRefuses
  <1>. QED
    BY <1>4, <1>5

\* What the verifier accepts runs as its contract says.
LEMMA AcceptedRuns ==
  ASSUME NEW prog \in ProgType, NEW c \in ContractType, Errors(prog, c) = {}
  PROVE  Runs(prog, Aliased(c))
  <1>. DEFINE a == Aliased(c)
  <1>1. /\ a.budgets = c.budgets /\ a.policies = c.policies /\ a.deps = c.deps
        /\ Deps(a) = Deps(c) /\ Names(a) = Names(c)
    BY AliasKeeps
  <1>2. ContractErrors(c) = {} /\ ProgErrors(prog, a) = {}
    <2>. HIDE DEF a
    <2>. QED
      BY DEF Errors, a
  <1>3. ~DepMismatch(prog, a)
    BY <1>2 DEF ProgErrors, If
  <1>4. ASSUME NEW k \in ToSet(prog.calls)
        PROVE  Wrapped(c, k.name) # {} /\ Wrapped(c, k.name) \subseteq Selected
    <2>1. k.name \in Names(c)
      BY <1>1, <1>3 DEF DepMismatch
    <2>. QED
      BY <2>1, <1>2, AcceptedContract DEF Wrapped, Names
  <1>5. \A name : Wrapped(a, name) = Wrapped(c, name)
    BY <1>1 DEF Wrapped
  <1>. HIDE DEF a
  <1>6. \A t \in Tools : a.policies[t].declared =>
          /\ t \in Deps(a) /\ ~RuntimeRefuses(a.policies[t])
          /\ a.policies[t].max_payload_bytes <= a.budgets.of["max_bytes_out"]
    BY <1>1, <1>2, AcceptedContract
  <1>. QED
    BY <1>1, <1>4, <1>5, <1>6 DEF Runs, a

\* A record with two fields replaced, whatever its fields hold.
LEMMA TwoReplaced ==
  ASSUME NEW F, NEW K, NEW B, NEW D, NEW I, NEW A, NEW W, NEW P, NEW T,
         NEW c \in [form : F, keys : K, budgets : B, deps : D, io : I, assertions : A,
                    writes : W, policies : P, timeouts : T],
         NEW keys \in K, NEW io \in I
  PROVE  [c EXCEPT !.keys = keys, !.io = io]
           \in [form : F, keys : K, budgets : B, deps : D, io : I, assertions : A,
                writes : W, policies : P, timeouts : T]
  OBVIOUS

\* The alias of the final's schema keeps the type of a contract.
LEMMA AliasTyped ==
  ASSUME NEW c \in ContractType
  PROVE  Aliased(c) \in ContractType
  <1>1. ASSUME NEW io \in SUBSET (IoKeys \cup {"extra"}) PROVE Moved(c, io) \in ContractType
    <2>. DEFINE keys == (c.keys \ {"final_schema"}) \cup {"io_schema"}
                new == [object |-> TRUE, keys |-> io \cup {"final_schema"},
                        typed |-> c.io.typed]
    <2>1. keys \in SUBSET (RootAllowed \cup {"final_schema", "extra"})
      BY DEF ContractType, RootAllowed, RootKeys
    <2>2. new \in [object : BOOLEAN, keys : SUBSET (IoKeys \cup {"extra"}), typed : BOOLEAN]
      BY DEF ContractType, IoKeys
    <2>3. Moved(c, io) = [c EXCEPT !.keys = keys, !.io = new]
      BY ONLY DEF Moved
    <2>. HIDE DEF keys, new
    <2>4. [c EXCEPT !.keys = keys, !.io = new] \in ContractType
      BY ONLY c \in ContractType, <2>1, <2>2, TwoReplaced DEF ContractType
    <2>. QED
      BY <2>3, <2>4
  <1>2. (IF "io_schema" \in c.keys THEN c.io.keys ELSE {}) \in SUBSET (IoKeys \cup {"extra"})
    BY DEF ContractType
  <1>. QED
    BY <1>1, <1>2 DEF Aliased

-----------------------------------------------------------------------------
(* The attempt and its directory                                           *)

Stages == {"none", "extract", "verify", "smoke", "internal"}

AttemptType ==
  [n : Nat, at : Files \cup {"tools", "model", "extract", "verify", "smoke", "judged", "done"},
   open : BOOLEAN, try : BOOLEAN, sub : SubType \cup {NoSub}, passed : BOOLEAN,
   stage : Stages, code : {"none", "0", "1", "2", "killed"}, raised : BOOLEAN]

OutType == [Files -> [run : Nat, whole : BOOLEAN]]

Mine(f) == out[f].run = attempt.n
Emptied(f) == out[f] = [run |-> attempt.n, whole |-> FALSE]

\* The program may be published.
Cleared ==
  /\ Runs(attempt.sub.prog, attempt.sub.contract)
  /\ attempt.try => attempt.passed /\ Left("trace")

\* Where the attempt is tells what it has left: the two files are those of an earlier one
\* until the program is opened, and afterwards only a failed write leads to the error file.
IInv ==
  /\ attempt \in AttemptType /\ out \in OutType
  /\ \A f \in Files : out[f].run <= attempt.n
  /\ attempt.open => Emptied(attempt.at)
  /\ attempt.open => attempt.at \in Files
  /\ attempt.at \in {"raw", "extract", "verify"} => attempt.sub \in Submissions
  /\ attempt.at \in {"smoke", "trace", "judged"} =>
       Runs(attempt.sub.prog, attempt.sub.contract)
  /\ At("judged") => Left("trace")
  /\ attempt.at \in {"prog", "contract"} => Cleared
  /\ attempt.at \in {"tools", "model", "raw", "extract", "verify", "smoke", "trace", "judged"}
       => ~Mine("prog") /\ ~Mine("contract")
  /\ At("prog") => (attempt.open \/ ~Mine("prog")) /\ ~Mine("contract")
  /\ At("contract") => Left("prog")
  /\ At("error") =>
       /\ attempt.stage # "none"
       /\ Mine("prog") => Cleared
       /\ attempt.stage # "internal" => ~Mine("prog") /\ ~Mine("contract")
  /\ At("done") => ~attempt.open
  /\ ~At("done") => ~Left("error")
  /\ VerdictOnFile

\* What is left of an attempt that has ended.
LEMMA EndedShape ==
  ASSUME NEW n \in Nat, NEW code \in {"0", "1", "2", "killed"}
  PROVE  /\ Ended(n, code) \in AttemptType /\ Ended(n, code).at = "done"
         /\ ~Ended(n, code).open /\ Ended(n, code).n = n /\ Ended(n, code).code = code
         /\ ~Ended(n, code).raised
         /\ Traceback(n) \in AttemptType /\ Traceback(n).at = "done" /\ ~Traceback(n).open
         /\ Traceback(n).n = n /\ Traceback(n).code = "1" /\ Traceback(n).raised
  <1>1. NoAttempt \in AttemptType
    BY DEF AttemptType, NoAttempt, Stages
  <1>2. NoAttempt.at = "done" /\ ~NoAttempt.open /\ ~NoAttempt.raised
    BY DEF NoAttempt
  <1>. QED
    BY <1>1, <1>2 DEF AttemptType, Ended, Traceback

LEMMA InitIInv == Init => IInv
  <1>. SUFFICES ASSUME Init PROVE IInv
    OBVIOUS
  <1>1. attempt \in AttemptType /\ out \in OutType
    BY DEF Init, NoAttempt, AttemptType, OutType, NoFile, Stages
  <1>. QED
    BY <1>1 DEF Init, IInv, NoAttempt, NoFile, At, VerdictOnFile, Files

\* An attempt begins, or comes to nothing at once, when no file is its own yet.
LEMMA BeginsKeeps == IInv /\ Begins => IInv'
  <1>. SUFFICES ASSUME IInv, Begins PROVE IInv'
    OBVIOUS
  <1>1. /\ attempt' \in AttemptType /\ attempt'.n = attempt.n + 1 /\ ~attempt'.open
        /\ \/ attempt'.at = "tools"
           \/ attempt'.at = "done" /\ attempt'.code = "1" /\ attempt'.raised
    <2>1. NoAttempt \in AttemptType /\ attempt.n + 1 \in Nat
      BY DEF IInv, AttemptType, NoAttempt, Stages
    <2>2. ~NoAttempt.open
      BY DEF NoAttempt
    <2>3. ASSUME NEW try \in BOOLEAN,
                 attempt' = [NoAttempt EXCEPT !.n = attempt.n + 1, !.at = "tools", !.try = try]
          PROVE  /\ attempt' \in AttemptType /\ attempt'.n = attempt.n + 1 /\ ~attempt'.open
                 /\ attempt'.at = "tools"
      BY <2>1, <2>2, <2>3 DEF AttemptType
    <2>4. CASE attempt' = Traceback(attempt.n + 1)
      BY <2>1, <2>4, EndedShape
    <2>. QED
      BY <2>3, <2>4 DEF Begins
  <1>2. out' = out /\ out \in OutType /\ attempt.n \in Nat
    BY DEF Begins, IInv, AttemptType
  <1>3. \A f \in Files : out[f].run \in Nat /\ out[f].run <= attempt.n
    BY DEF IInv, OutType
  <1>4. \A f \in Files : ~Mine(f)' /\ ~Left(f)' /\ out'[f].run <= attempt'.n
    BY <1>1, <1>2, <1>3 DEF Mine, Left
  <1>. QED
    BY <1>1, <1>2, <1>4 DEF IInv, At, VerdictOnFile, Files, Mine, Left

\* An attempt that goes on without touching a file.
LEMMA SameFiles ==
  ASSUME attempt'.n = attempt.n, out' = out
  PROVE  \A f : (Mine(f)' <=> Mine(f)) /\ (Left(f)' <=> Left(f))
                  /\ (Emptied(f)' <=> Emptied(f))
  BY DEF Mine, Left, Emptied

\* Refused where nothing is published yet, or by a failure while that is done.
LEMMA RefusedKeeps ==
  ASSUME IInv, ~At("done"),
         NEW stage \in Stages \ {"none"}, attempt' = Refused(stage), out' = out,
         Mine("prog") => Cleared /\ stage = "internal",
         Mine("contract") => stage = "internal"
  PROVE  IInv'
  <1>1. /\ attempt' \in AttemptType /\ attempt'.at = "error" /\ ~attempt'.open
        /\ attempt'.n = attempt.n /\ attempt'.stage = stage /\ attempt'.sub = attempt.sub
        /\ attempt'.try = attempt.try /\ attempt'.passed = attempt.passed
    BY DEF IInv, AttemptType, Refused, Files
  <1>2. Cleared' <=> Cleared
    BY <1>1, SameFiles DEF Cleared
  <1>3. \A f \in Files : out'[f].run <= attempt'.n
    BY <1>1 DEF IInv
  <1>. QED
    BY <1>1, <1>2, <1>3, SameFiles DEF IInv, At, VerdictOnFile

\* The process the program is tried out in is over.
LEMMA LeavesSmoke ==
  ASSUME IInv, At("smoke"), NEW passed \in BOOLEAN, out' = out,
         attempt' = [attempt EXCEPT !.at = "trace", !.passed = passed]
  PROVE  IInv'
  <1>1. /\ attempt' \in AttemptType /\ attempt'.at = "trace" /\ ~attempt'.open
        /\ attempt'.n = attempt.n /\ attempt'.sub = attempt.sub
    BY DEF IInv, AttemptType, At, Files
  <1>. QED
    BY <1>1, SameFiles DEF IInv, At, VerdictOnFile

\* Cut off, with nobody to say so.
LEMMA EndsKeeps ==
  ASSUME IInv, ~At("done"), out' = out,
         attempt' \in {Ended(attempt.n, "killed"), Traceback(attempt.n)}
  PROVE  IInv'
  <1>1. /\ attempt' \in AttemptType /\ attempt'.at = "done" /\ ~attempt'.open
        /\ attempt'.n = attempt.n
        /\ \/ attempt'.code = "killed"
           \/ attempt'.code = "1" /\ attempt'.raised
    <2>1. PICK code \in {"0", "1", "2", "killed"} : code = "killed"
      OBVIOUS
    <2>2. attempt.n \in Nat
      BY DEF IInv, AttemptType
    <2>3. Ended(attempt.n, code) = Ended(attempt.n, "killed") /\ code \in {"0", "1", "2", "killed"}
      BY <2>1
    <2>4. CASE attempt' = Ended(attempt.n, "killed")
      <3>1. attempt' = Ended(attempt.n, code)
        BY <2>3, <2>4
      <3>2. /\ Ended(attempt.n, code) \in AttemptType /\ Ended(attempt.n, code).at = "done"
            /\ ~Ended(attempt.n, code).open /\ Ended(attempt.n, code).n = attempt.n
            /\ Ended(attempt.n, code).code = code
        BY <2>2, EndedShape
      <3>. QED
        BY ONLY <2>1, <3>1, <3>2
    <2>5. CASE attempt' = Traceback(attempt.n)
      BY <2>2, <2>5, EndedShape
    <2>. QED
      BY <2>4, <2>5
  <1>2. ~Left("error")'
    BY <1>1 DEF IInv, Left
  <1>3. \A f \in Files : out'[f].run <= attempt'.n
    BY <1>1 DEF IInv
  <1>. QED
    BY <1>1, <1>2, <1>3 DEF IInv, At, VerdictOnFile, Files

LEMMA FindsToolsKeeps == IInv /\ FindsTools => IInv'
  <1>. SUFFICES ASSUME IInv, FindsTools PROVE IInv'
    OBVIOUS
  <1>1. CASE attempt' = Refused("internal")
    <2>1. ~At("done") /\ ~Mine("prog") /\ ~Mine("contract") /\ out' = out
      BY DEF IInv, FindsTools, At
    <2>. QED
      BY <1>1, <2>1, RefusedKeeps DEF Stages
  <1>2. CASE attempt' = [attempt EXCEPT !.at = "model"]
    <2>1. /\ attempt' \in AttemptType /\ attempt'.at = "model" /\ ~attempt'.open
          /\ attempt'.n = attempt.n /\ out' = out
      BY <1>2 DEF IInv, AttemptType, FindsTools, At, Files
    <2>. QED
      BY <2>1, SameFiles DEF IInv, At, VerdictOnFile, FindsTools, Files
  <1>. QED
    BY <1>1, <1>2 DEF FindsTools

LEMMA AnswersKeeps == IInv /\ Answers => IInv'
  <1>. SUFFICES ASSUME IInv, Answers PROVE IInv'
    OBVIOUS
  <1>0. /\ ~Mine("prog") /\ ~Mine("contract") /\ out' = out /\ ~attempt.open
        /\ ~At("done") /\ ~Left("error")
    BY DEF IInv, Answers, At, Files
  <1>1. CASE attempt' = Refused("internal")
    BY <1>0, <1>1, RefusedKeeps DEF Stages
  <1>2. ASSUME NEW s \in Submissions, attempt' = [attempt EXCEPT !.at = "raw", !.sub = s]
        PROVE  IInv'
    <2>0. s \in SubType
      BY CompilerAssumption DEF SubType
    <2>1. /\ attempt' \in AttemptType /\ attempt'.at = "raw" /\ ~attempt'.open
          /\ attempt'.n = attempt.n /\ attempt'.sub = s
      BY <1>0, <1>2, <2>0 DEF IInv, AttemptType, Files
    <2>. QED
      BY <1>0, <2>1, SameFiles DEF IInv, At, VerdictOnFile
  <1>. QED
    BY <1>1, <1>2 DEF Answers

LEMMA ExtractsKeeps == IInv /\ Extracts => IInv'
  <1>. SUFFICES ASSUME IInv, Extracts PROVE IInv'
    OBVIOUS
  <1>0. /\ ~Mine("prog") /\ ~Mine("contract") /\ out' = out /\ ~attempt.open
        /\ attempt.sub \in Submissions /\ ~At("done") /\ ~Left("error")
    BY DEF IInv, Extracts, At, Files
  <1>1. CASE attempt' = Refused("extract")
    BY <1>0, <1>1, RefusedKeeps DEF Stages
  <1>2. CASE attempt' = [attempt EXCEPT !.at = "verify"]
    <2>1. /\ attempt' \in AttemptType /\ attempt'.at = "verify" /\ ~attempt'.open
          /\ attempt'.n = attempt.n /\ attempt'.sub = attempt.sub
      BY <1>0, <1>2 DEF IInv, AttemptType
    <2>. QED
      BY <1>0, <2>1, SameFiles DEF IInv, At, VerdictOnFile
  <1>. QED
    BY <1>1, <1>2 DEF Extracts

LEMMA VerifiesKeeps == IInv /\ Verifies => IInv'
  <1>. SUFFICES ASSUME IInv, Verifies PROVE IInv'
    OBVIOUS
  <1>. DEFINE prog == attempt.sub.prog
              c == attempt.sub.contract
  <1>0. /\ ~Mine("prog") /\ ~Mine("contract") /\ out' = out /\ ~attempt.open
        /\ attempt.sub \in Submissions /\ attempt \in AttemptType
        /\ ~At("done") /\ ~Left("error")
    BY DEF IInv, Verifies, At, Files
  <1>1. CASE attempt' = Refused("internal") \/ attempt' = Refused("verify")
    BY <1>0, <1>1, RefusedKeeps DEF Stages
  <1>2. CASE /\ Verified(prog, c).errors = {}
             /\ attempt' = [attempt EXCEPT !.sub.contract = Verified(prog, c).contract,
                                           !.at = IF attempt.try THEN "smoke" ELSE "prog"]
    <2>1. attempt.sub \in SubType /\ prog \in ProgType /\ c \in ContractType
      BY <1>0, CompilerAssumption DEF SubType
    <2>2. Verified(prog, c).errors = Errors(prog, c) /\ Verified(prog, c).contract = Aliased(c)
      BY <2>1, RepairIsIdle
    <2>3. Runs(prog, Aliased(c)) /\ Aliased(c) \in ContractType
      BY <1>2, <2>1, <2>2, AcceptedRuns, AliasTyped
    <2>. DEFINE sub == [attempt.sub EXCEPT !.contract = Aliased(c)]
                at == IF attempt.try THEN "smoke" ELSE "prog"
    <2>4. sub \in SubType /\ sub.prog = prog /\ sub.contract = Aliased(c)
      BY <2>1, <2>3 DEF SubType
    <2>5. attempt' = [attempt EXCEPT !.sub = sub, !.at = at]
      BY <1>2, <2>2, <1>0 DEF AttemptType
    <2>6. /\ at \in {"smoke", "prog"} /\ (at = "prog" => ~attempt.try)
      BY <1>0 DEF AttemptType
    <2>. HIDE DEF sub, at, prog, c
    <2>7. /\ attempt' \in AttemptType /\ attempt'.at = at /\ attempt'.sub = sub
          /\ ~attempt'.open /\ attempt'.n = attempt.n /\ attempt'.try = attempt.try
      BY <1>0, <2>4, <2>5, <2>6 DEF AttemptType, Files
    <2>8. at = "prog" => Cleared'
      BY <2>3, <2>4, <2>6, <2>7 DEF Cleared
    <2>9. Runs(attempt'.sub.prog, attempt'.sub.contract)
      BY <2>3, <2>4, <2>7
    <2>. QED
      BY <1>0, <2>6, <2>7, <2>8, <2>9, SameFiles DEF IInv, At, VerdictOnFile
  <1>. QED
    BY <1>1, <1>2 DEF Verifies

\* What the generated program does while it is tried out leaves the attempt alone.
LEMMA ProgramKeeps == IInv /\ Program => IInv'
  <1>. SUFFICES ASSUME IInv, Program PROVE IInv'
    OBVIOUS
  <1>1. CASE SmokeEnds
    <2>1. attempt' = [attempt EXCEPT !.at = "trace", !.passed = Passes(smoke.lines)]
      BY <1>1 DEF SmokeEnds
    <2>2. Passes(smoke.lines) \in BOOLEAN
      BY DEF Passes
    <2>3. At("smoke") /\ out' = out
      BY <1>1 DEF SmokeEnds
    <2>. QED
      BY <2>1, <2>2, <2>3, LeavesSmoke
  <1>2. CASE SmokeCalls \/ SmokeAnswers \/ SmokeDrops \/ SmokePrints
    <2>1. \E more : Prints(more)
      <3>1. CASE SmokeCalls
        BY <3>1 DEF SmokeCalls
      <3>2. CASE SmokeAnswers
        BY <3>2 DEF SmokeAnswers
      <3>3. CASE SmokeDrops
        BY <3>3 DEF SmokeDrops
      <3>4. CASE SmokePrints
        BY <3>4 DEF SmokePrints
      <3>. QED
        BY <1>2, <3>1, <3>2, <3>3, <3>4
    <2>2. attempt' = attempt /\ out' = out
      BY <2>1 DEF Prints
    <2>. QED
      BY <2>2, SameFiles DEF IInv, Cleared, At, VerdictOnFile
  <1>. QED
    BY <1>1, <1>2 DEF Program

LEMMA SmokeTimesOutKeeps == IInv /\ SmokeTimesOut => IInv'
  BY LeavesSmoke DEF SmokeTimesOut

LEMMA JudgesKeeps == IInv /\ Judges => IInv'
  <1>. SUFFICES ASSUME IInv, Judges PROVE IInv'
    OBVIOUS
  <1>0. /\ ~Mine("prog") /\ ~Mine("contract") /\ Left("trace") /\ out' = out
        /\ ~attempt.open /\ attempt \in AttemptType
        /\ Runs(attempt.sub.prog, attempt.sub.contract) /\ ~At("done") /\ ~Left("error")
    BY DEF IInv, Judges, At, Files
  <1>1. CASE attempt' = Refused("smoke")
    BY <1>0, <1>1, RefusedKeeps DEF Stages
  <1>2. CASE attempt.passed /\ attempt' = [attempt EXCEPT !.at = "prog"]
    <2>1. /\ attempt' \in AttemptType /\ attempt'.at = "prog" /\ ~attempt'.open
          /\ attempt'.n = attempt.n /\ attempt'.sub = attempt.sub /\ attempt'.passed
      BY <1>0, <1>2 DEF AttemptType, Files
    <2>2. Cleared'
      BY <1>0, <2>1, SameFiles DEF Cleared
    <2>. QED
      BY <1>0, <2>1, <2>2, SameFiles DEF IInv, At, VerdictOnFile
  <1>. QED
    BY <1>1, <1>2 DEF Judges

LEMMA WriteFailsKeeps == IInv /\ WriteFails => IInv'
  <1>. SUFFICES ASSUME IInv, WriteFails PROVE IInv'
    OBVIOUS
  <1>1. CASE attempt' = Traceback(attempt.n)
    BY <1>1, EndsKeeps DEF WriteFails, At, Files
  <1>2. CASE attempt' = Refused("internal")
    <2>1. out' = out /\ (Mine("prog") => Cleared) /\ ~At("done")
      BY <1>2 DEF WriteFails, IInv, At, Files
    <2>. QED
      BY <1>2, <2>1, RefusedKeeps DEF Stages
  <1>. QED
    BY <1>1, <1>2 DEF WriteFails

LEMMA KilledKeeps == IInv /\ Killed => IInv'
  BY EndsKeeps DEF Killed

LEMMA OpensKeeps == IInv /\ Opens => IInv'
  <1>. SUFFICES ASSUME IInv, Opens PROVE IInv'
    OBVIOUS
  <1>. DEFINE f == attempt.at
              empty == [run |-> attempt.n, whole |-> FALSE]
  <1>0. f \in Files /\ ~attempt.open /\ attempt \in AttemptType /\ out \in OutType
    BY DEF Opens, IInv
  <1>1. /\ attempt' \in AttemptType /\ attempt'.at = f /\ attempt'.open
        /\ attempt'.n = attempt.n /\ attempt'.sub = attempt.sub /\ attempt'.try = attempt.try
        /\ attempt'.passed = attempt.passed /\ attempt'.stage = attempt.stage
    BY <1>0 DEF Opens, AttemptType
  <1>2. /\ out'[f] = empty
        /\ \A g \in Files : g # f => out'[g] = out[g]
        /\ out' \in OutType
    BY <1>0 DEF Opens, OutType, AttemptType
  <1>3. \A g \in Files \ {f} : (Mine(g)' <=> Mine(g)) /\ (Left(g)' <=> Left(g))
    BY <1>1, <1>2 DEF Mine, Left
  <1>4. Emptied(f)'
    BY <1>1, <1>2 DEF Emptied
  <1>5. \A g \in Files : out'[g].run <= attempt'.n
    BY <1>0, <1>1, <1>2 DEF IInv, AttemptType
  <1>6. f # "trace" => (Cleared' <=> Cleared)
    BY <1>1, <1>3 DEF Cleared, Files
  <1>9. ~Left("error")'
    <2>1. CASE f = "error"
      BY <1>1, <1>2, <2>1 DEF Left
    <2>2. CASE f # "error"
      BY <1>0, <1>3, <2>2 DEF IInv, At, Files
    <2>. QED
      BY <2>1, <2>2
  <1>. HIDE DEF f
  <1>7. CASE f \in {"raw", "trace"}
    BY <1>0, <1>1, <1>2, <1>3, <1>4, <1>5, <1>7, <1>9 DEF IInv, At, VerdictOnFile, Files, f
  <1>8. CASE f \in {"prog", "contract", "error"}
    BY <1>0, <1>1, <1>2, <1>3, <1>4, <1>5, <1>6, <1>8, <1>9
      DEF IInv, At, VerdictOnFile, Files, f
  <1>. QED
    BY <1>0, <1>7, <1>8 DEF Files

LEMMA WritesKeeps == IInv /\ Writes => IInv'
  <1>. SUFFICES ASSUME IInv, Writes, NEW f, f = attempt.at PROVE IInv'
    OBVIOUS
  <1>0. /\ attempt.open /\ f \in Files /\ Emptied(f)
        /\ attempt \in AttemptType /\ out \in OutType
    BY DEF Writes, IInv
  <1>1. /\ out'[f] = [run |-> attempt.n, whole |-> TRUE]
        /\ \A g \in Files : g # f => out'[g] = out[g]
        /\ out' \in OutType
    BY <1>0 DEF Writes, OutType, Emptied
  <1>2. CASE f \in {"raw", "trace", "prog"}
    <2>1. attempt' = [attempt EXCEPT !.at = AfterWrite[f], !.open = FALSE]
      BY <1>2 DEF Writes, AfterWrite
    <2>2. /\ f = "raw" => AfterWrite[f] = "extract"
          /\ f = "trace" => AfterWrite[f] = "judged"
          /\ f = "prog" => AfterWrite[f] = "contract"
      BY DEF AfterWrite
    <2>3. /\ attempt' \in AttemptType /\ attempt'.at = AfterWrite[f] /\ ~attempt'.open
          /\ attempt'.n = attempt.n /\ attempt'.sub = attempt.sub /\ attempt'.try = attempt.try
          /\ attempt'.passed = attempt.passed /\ attempt'.stage = attempt.stage
      BY <1>0, <1>2, <2>1, <2>2 DEF AttemptType, Files
    <2>4. /\ \A g \in Files \ {f} : (Mine(g)' <=> Mine(g)) /\ (Left(g)' <=> Left(g))
          /\ Left(f)'
      BY <1>1, <2>3 DEF Mine, Left
    <2>5. \A g \in Files : out'[g].run <= attempt'.n
      BY <1>0, <1>1, <2>3 DEF IInv, AttemptType
    <2>6. f = "prog" => Cleared'
      BY <1>0, <2>3, <2>4 DEF Cleared, Files, IInv
    <2>. QED
      BY <1>0, <1>1, <1>2, <2>2, <2>3, <2>4, <2>5, <2>6
        DEF IInv, At, VerdictOnFile, Files
  <1>3. CASE f \in {"contract", "error"}
    <2>1. attempt' = Ended(attempt.n, Code)
      BY <1>3 DEF Writes, AfterWrite
    <2>2. Code \in {"0", "1", "2"}
      BY DEF Code
    <2>3. /\ attempt' \in AttemptType /\ attempt'.at = "done" /\ ~attempt'.open
          /\ attempt'.n = attempt.n /\ attempt'.code = Code /\ ~attempt'.raised
      BY <1>0, <2>1, <2>2, EndedShape DEF AttemptType
    <2>4. \A g \in Files : out'[g].run <= attempt'.n
      BY <1>0, <1>1, <2>3 DEF IInv, AttemptType
    <2>5. VerdictOnFile'
      <3>1. CASE f = "contract"
        <4>1. Code = "0" /\ Left("prog")
          BY <3>1 DEF Code, IInv, At
        <4>. QED
          BY <1>1, <2>3, <3>1, <4>1 DEF VerdictOnFile, Left, Files
      <3>2. CASE f = "error"
        <4>1. /\ Code \in {"1", "2"}
              /\ Code = "1" => ~Mine("prog") /\ ~Mine("contract")
          BY <3>2 DEF Code, IInv, At
        <4>. QED
          BY <1>1, <2>3, <3>2, <4>1 DEF VerdictOnFile, Mine, Left, Files
      <3>. QED
        BY <1>3, <3>1, <3>2
    <2>. QED
      BY <1>1, <2>3, <2>4, <2>5 DEF IInv, At, Files
  <1>. QED
    BY <1>0, <1>2, <1>3 DEF Files

LEMMA Inductive == IInv /\ [Next]_vars => IInv'
  <1>. SUFFICES ASSUME IInv, [Next]_vars PROVE IInv'
    OBVIOUS
  <1>1. CASE UNCHANGED vars
    BY <1>1, SameFiles DEF vars, IInv, Cleared, At, VerdictOnFile
  <1>2. CASE Works
    BY <1>2, FindsToolsKeeps, AnswersKeeps, ExtractsKeeps, VerifiesKeeps, SmokeTimesOutKeeps,
       JudgesKeeps, OpensKeeps, WritesKeeps DEF Works
  <1>. QED
    BY <1>1, <1>2, BeginsKeeps, ProgramKeeps, WriteFailsKeeps, KilledKeeps DEF Next

\* Whatever the model answers, the program does while it is tried out and a write fails:
\* what of prog.py is this attempt's was verified, runs as its contract says, and has
\* passed the try-out if there was one (compile_task).
THEOREM NothingUnverifiedIsPublished == Spec => []PublishedRuns
  <1>1. IInv => PublishedRuns
    <2>. SUFFICES ASSUME IInv, Mine("prog"), ~At("done") PROVE Cleared
      BY DEF PublishedRuns, Cleared, Mine, Left
    <2>1. attempt.at \in {"prog", "contract", "error"}
      BY DEF IInv, AttemptType, Files, At
    <2>. QED
      BY <2>1 DEF IInv, At
  <1>. QED
    BY InitIInv, Inductive, <1>1, PTL DEF Spec

\* The exit code never contradicts the directory (scripts/compile.py, compile_task).
THEOREM ExitCodeMatchesFiles == Spec => []VerdictOnFile
  <1>1. IInv => VerdictOnFile
    BY DEF IInv
  <1>. QED
    BY InitIInv, Inductive, <1>1, PTL DEF Spec
-----------------------------------------------------------------------------
(* The try-out                                                             *)

LineType == [op : {"call", "result", "final", "chatter"}, by : {"harness", "program"},
             id : Nat, ok : BOOLEAN]

\* The process counts, and at least as many calls run as are in flight.
SmokeTypes ==
  /\ smoke \in [lines : Seq(LineType), calls : Nat, now : Nat, peak : Nat, in : Nat,
                out : Nat, flying : SUBSET Nat]
  /\ \A k \in smoke.flying : 1 <= k /\ k <= smoke.calls
  /\ IsFiniteSet(smoke.flying) /\ Cardinality(smoke.flying) <= smoke.now
  /\ smoke.now <= smoke.peak

\* The harness has said that a budget is broken, or the program that it failed.
Failed == \E i \in Printed("final") : ~smoke.lines[i].ok

\* What the process has counted, what it has printed, and who waits for an answer.
Tidy ==
  /\ smoke.calls <= Budget("max_calls") /\ smoke.peak <= Budget("max_parallel")
  /\ smoke.in <= Budget("max_bytes_in") /\ smoke.out <= Budget("max_bytes_out")
  /\ \A j \in Printed("call") :
       /\ 1 <= Id(j) /\ Id(j) <= smoke.calls
       /\ \A i \in Printed("call") : i < j => Id(i) < Id(j)
  /\ \A n \in 1..smoke.calls : \E i \in Printed("call") : Id(i) = n
  /\ \A j \in Printed("result") :
       /\ \E i \in Printed("call") : i < j /\ Id(i) = Id(j)
       /\ \A i \in Printed("result") : i < j => Id(i) # Id(j)
       /\ Id(j) \notin smoke.flying

\* Before the try-out nothing is counted; in it the books are right as long as no final
\* says otherwise; and a process that passed has said so last, and once.
TraceInv ==
  /\ SmokeTypes
  /\ attempt.at \notin {"smoke", "trace", "judged"} => smoke = NoSmoke
  /\ attempt.at \in {"smoke", "trace", "judged"} =>
       \A k \in BudgetKeys : Budget(k) \in Nat
  /\ At("smoke") => Failed \/ Tidy
  /\ attempt.passed /\ attempt.at \in {"trace", "judged"} =>
       (Failed \/ Tidy) /\ Passes(smoke.lines)

\* A process that passed never broke a budget: the line that says so would be a final,
\* and there is one only, which says ok.
LEMMA TraceIsAccepted == TraceInv => AcceptedTrace
  <1>. SUFFICES ASSUME TraceInv, attempt.passed, attempt.at \in {"trace", "judged"}
                PROVE  AcceptedTrace
    BY DEF AcceptedTrace
  <1>. DEFINE lines == smoke.lines
              last == Len(lines)
  <1>1. lines \in Seq(LineType) /\ Passes(lines)
    BY DEF TraceInv, SmokeTypes
  <1>2. /\ last \in DOMAIN lines /\ lines[last] = Final(TRUE)
        /\ \A i \in 1..(last - 1) : lines[i].op # "final"
    BY <1>1 DEF Passes, Last
  <1>3. Lines("final") = {last} /\ Printed("final") \subseteq {last}
    BY <1>1, <1>2 DEF Lines, Printed, Final
  <1>4. ~Failed
    BY <1>2, <1>3 DEF Failed, Final
  <1>5. Tidy
    BY <1>4 DEF TraceInv
  <1>6. \A k \in BudgetKeys : Budget(k) \in Nat
    BY DEF TraceInv
  <1>7. \A i \in Printed("call") : i \in Nat /\ Id(i) \in Nat
    <2>1. \A i \in DOMAIN lines : i \in Nat /\ lines[i] \in LineType
      BY <1>1
    <2>. QED
      BY <2>1 DEF Printed, Id, LineType
  <1>8. ASSUME NEW j \in Printed("call")
        PROVE  /\ Id(j) \in 1..Budget("max_calls")
               /\ \A n \in 1..Id(j) : \E i \in Printed("call") : i <= j /\ Id(i) = n
               /\ \A i \in Printed("call") : i < j => Id(i) < Id(j)
    <2>1. Id(j) \in 1..smoke.calls /\ smoke.calls \in Nat
      BY <1>5, <1>7 DEF Tidy, TraceInv, SmokeTypes
    <2>2. Id(j) \in 1..Budget("max_calls")
      BY <1>5, <1>6, <2>1 DEF Tidy, BudgetKeys
    <2>3. ASSUME NEW n \in 1..Id(j) PROVE \E i \in Printed("call") : i <= j /\ Id(i) = n
      <3>1. PICK i \in Printed("call") : Id(i) = n
        BY <1>5, <2>1 DEF Tidy
      <3>2. ~(j < i)
        BY <1>5, <1>7, <3>1 DEF Tidy
      <3>. QED
        BY <1>7, <3>1, <3>2
    <2>. QED
      BY <1>5, <2>2, <2>3 DEF Tidy
  <1>. QED
    BY <1>3, <1>5, <1>8 DEF AcceptedTrace, Tidy

\* Without a try-out, before it and after it, the process has counted nothing.
LEMMA NotTried ==
  ASSUME smoke' = NoSmoke, attempt'.at \notin {"smoke", "trace", "judged"}
  PROVE  TraceInv'
  <1>1. PICK zero \in Nat : zero = 0
    OBVIOUS
  <1>2. IsFiniteSet({}) /\ Cardinality({}) = 0
    BY FS_EmptySet
  <1>3. SmokeTypes'
    BY <1>1, <1>2 DEF SmokeTypes, NoSmoke
  <1>. QED
    BY <1>3 DEF TraceInv, At

\* Nothing is broken by a process that has not begun.
LEMMA TidyAtFirst ==
  ASSUME smoke = NoSmoke, \A k \in BudgetKeys : Budget(k) \in Nat
  PROVE  Tidy
  BY DEF Tidy, NoSmoke, Printed, BudgetKeys

\* The process is over, or its output on its way to the file.
LEMMA TriedKeeps ==
  ASSUME TraceInv, attempt.at \in {"smoke", "trace", "judged"}, smoke' = smoke,
         attempt'.sub = attempt.sub, attempt'.at \in {"trace", "judged"},
         attempt'.passed => \/ At("smoke") /\ Passes(smoke.lines)
                            \/ attempt.passed /\ attempt.at \in {"trace", "judged"}
  PROVE  TraceInv'
  <1>1. \A k : Budget(k)' = Budget(k)
    BY DEF Budget
  <1>2. (Tidy' <=> Tidy) /\ (Failed' <=> Failed) /\ (SmokeTypes' <=> SmokeTypes)
    <2>1. \A op : Printed(op)' = Printed(op)
      BY DEF Printed
    <2>2. \A i : Id(i)' = Id(i)
      BY DEF Id
    <2>. QED
      BY <1>1, <2>1, <2>2 DEF Tidy, Failed, SmokeTypes
  <1>. QED
    BY <1>1, <1>2 DEF TraceInv, At

\* What may be printed: a frame, or a final, and one line or two.
LEMMA LineTyped ==
  ASSUME NEW op \in {"call", "result", "final", "chatter"}, NEW by \in {"harness", "program"},
         NEW id \in Nat, NEW ok \in BOOLEAN
  PROVE  [op |-> op, by |-> by, id |-> id, ok |-> ok] \in LineType
  BY DEF LineType

LEMMA FinalTyped ==
  ASSUME NEW ok \in BOOLEAN
  PROVE  /\ Final(ok) \in LineType /\ Final(ok).op = "final" /\ Final(ok).ok = ok
         /\ Final(ok).by = "harness"
  <1>1. PICK zero \in Nat : zero = 0
    OBVIOUS
  <1>2. PICK op \in {"call", "result", "final", "chatter"} : op = "final"
    OBVIOUS
  <1>3. PICK by \in {"harness", "program"} : by = "harness"
    OBVIOUS
  <1>4. Final(ok) = [op |-> op, by |-> by, id |-> zero, ok |-> ok]
    BY <1>1, <1>2, <1>3 DEF Final
  <1>. QED
    BY <1>2, <1>3, <1>4, LineTyped

LEMMA FrameTyped ==
  ASSUME NEW op \in {"call", "result", "final", "chatter"}, NEW id \in Nat
  PROVE  /\ Frame(op, id) \in LineType /\ Frame(op, id).op = op /\ Frame(op, id).id = id
         /\ Frame(op, id).by = "harness"
  <1>1. PICK ok \in BOOLEAN : ok = TRUE
    OBVIOUS
  <1>2. PICK by \in {"harness", "program"} : by = "harness"
    OBVIOUS
  <1>3. Frame(op, id) = [op |-> op, by |-> by, id |-> id, ok |-> ok]
    BY <1>1, <1>2 DEF Frame
  <1>. QED
    BY <1>2, <1>3, LineTyped

LEMMA OwnTyped ==
  ASSUME NEW op \in {"call", "result", "final", "chatter"}, NEW id \in Nat
  PROVE  Own(op, id) \in LineType /\ Own(op, id).by = "program"
  <1>1. PICK ok \in BOOLEAN : ok = TRUE
    OBVIOUS
  <1>2. PICK by \in {"harness", "program"} : by = "program"
    OBVIOUS
  <1>3. Own(op, id) = [op |-> op, by |-> by, id |-> id, ok |-> ok]
    BY <1>1, <1>2 DEF Own
  <1>. QED
    BY <1>2, <1>3, LineTyped

LEMMA OwnLineTyped ==
  ASSUME NEW l \in OwnLines
  PROVE  l \in LineType /\ (l.by = "harness" => l.op = "final")
  <1>1. CASE l = Final(TRUE) \/ l = Final(FALSE)
    BY <1>1, FinalTyped
  <1>2. CASE l = Own("chatter", 0)
    <2>1. PICK zero \in Nat : zero = 0
      OBVIOUS
    <2>. QED
      BY <1>2, <2>1, OwnTyped
  <1>3. ASSUME NEW id \in OwnIds, l = Own("call", id) \/ l = Own("result", id)
        PROVE  l \in LineType /\ l.by = "program"
    <2>1. id \in Nat
      BY CompilerAssumption
    <2>. QED
      BY <1>3, <2>1, OwnTyped
  <1>. QED
    BY <1>1, <1>2, <1>3 DEF OwnLines

LEMMA OneOrTwo ==
  ASSUME NEW S, NEW a \in S, NEW b \in S
  PROVE  <<a>> \in Seq(S) /\ <<a, b>> \in Seq(S)
  OBVIOUS

\* What the process prints is added to what it printed.
LEMMA Prolonged ==
  ASSUME smoke.lines \in Seq(LineType), NEW more \in Seq(LineType),
         smoke'.lines = smoke.lines \o more
  PROVE  /\ smoke'.lines \in Seq(LineType)
         /\ Failed => Failed'
         /\ (\E k \in DOMAIN more : more[k] = Final(FALSE)) => Failed'
  <1>. DEFINE n == Len(smoke.lines)
  <1>1. /\ smoke'.lines \in Seq(LineType)
        /\ \A i \in DOMAIN smoke.lines : i \in DOMAIN smoke'.lines /\ smoke'.lines[i] = smoke.lines[i]
        /\ \A k \in DOMAIN more : n + k \in DOMAIN smoke'.lines /\ smoke'.lines[n + k] = more[k]
    OBVIOUS
  <1>2. Failed => Failed'
    BY <1>1 DEF Failed, Printed
  <1>3. ASSUME NEW k \in DOMAIN more, more[k] = Final(FALSE) PROVE Failed'
    <2>1. Final(FALSE).op = "final" /\ ~Final(FALSE).ok /\ Final(FALSE).by = "harness"
      BY DEF Final
    <2>. QED
      BY <1>1, <1>3, <2>1 DEF Failed, Printed
  <1>. QED
    BY <1>1, <1>2, <1>3

\* A line more.
LEMMA Added ==
  ASSUME smoke.lines \in Seq(LineType), NEW l \in LineType, NEW n,
         n = Len(smoke.lines) + 1, smoke'.lines = smoke.lines \o <<l>>
  PROVE  /\ n \in Nat /\ \A i \in DOMAIN smoke.lines : i \in Nat /\ i < n
         /\ \A i \in DOMAIN smoke.lines : Id(i)' = Id(i) /\ Id(i) \in Nat
         /\ Id(n)' = l.id
         /\ \A op : Printed(op) \subseteq DOMAIN smoke.lines
         /\ \A op : Printed(op)' = Printed(op) \cup (IF l.op = op /\ l.by = "harness" THEN {n} ELSE {})
  <1>1. /\ DOMAIN smoke'.lines = DOMAIN smoke.lines \cup {n}
        /\ \A i \in DOMAIN smoke.lines : smoke'.lines[i] = smoke.lines[i]
        /\ smoke'.lines[n] = l /\ n \notin DOMAIN smoke.lines
    OBVIOUS
  <1>2. \A i \in DOMAIN smoke.lines : smoke.lines[i] \in LineType
    OBVIOUS
  <1>3. \A i \in DOMAIN smoke.lines : Id(i)' = Id(i) /\ Id(i) \in Nat
    BY <1>1, <1>2 DEF Id, LineType
  <1>4. Id(n)' = l.id
    BY <1>1 DEF Id
  <1>5. ASSUME NEW op PROVE Printed(op)' = Printed(op) \cup (IF l.op = op /\ l.by = "harness" THEN {n} ELSE {})
    BY <1>1 DEF Printed
  <1>. QED
    BY <1>1, <1>3, <1>4, <1>5 DEF Printed

\* What is counted is what the call takes; a call that breaks no budget is counted in all.
LEMMA CountsRight ==
  ASSUME SmokeTypes, NEW size \in Sizes, NEW s, s = Counted(size)
  PROVE  /\ s \in [lines : Seq(LineType), calls : Nat, now : Nat, peak : Nat, in : Nat,
                   out : Nat, flying : SUBSET Nat]
         /\ s.lines = smoke.lines /\ s.out = smoke.out /\ s.flying = smoke.flying
         /\ smoke.calls <= s.calls /\ smoke.now <= s.now /\ s.now <= s.peak
         /\ ~OverBudget(s) => s.calls = smoke.calls + 1 /\ s.now = smoke.now + 1
  <1>. DEFINE in == smoke.in + size
              calls == smoke.calls + 1
              now == smoke.now + 1
              t == [smoke EXCEPT !.in = in, !.calls = calls, !.now = now]
              Type == [lines : Seq(LineType), calls : Nat, now : Nat, peak : Nat, in : Nat,
                       out : Nat, flying : SUBSET Nat]
  <1>1. size \in Nat /\ smoke \in Type /\ smoke.now <= smoke.peak
    BY CompilerAssumption DEF SmokeTypes
  <1>2. in \in Nat /\ calls \in Nat /\ now \in Nat /\ smoke.calls <= calls /\ smoke.now <= now
    BY <1>1
  <1>3. s = IF t.in > Budget("max_bytes_in")
              THEN [t EXCEPT !.calls = smoke.calls, !.now = smoke.now]
            ELSE IF t.calls > Budget("max_calls") THEN [t EXCEPT !.now = smoke.now]
            ELSE [t EXCEPT !.peak = IF t.peak < t.now THEN t.now ELSE t.peak]
    BY DEF Counted
  <1>4. calls = smoke.calls + 1 /\ now = smoke.now + 1
    OBVIOUS
  <1>. HIDE DEF in, calls, now
  <1>5. /\ t \in Type /\ t.in = in /\ t.calls = calls
        /\ t.now = now /\ t.peak = smoke.peak /\ t.lines = smoke.lines
        /\ t.out = smoke.out /\ t.flying = smoke.flying
    BY <1>1, <1>2
  <1>. HIDE DEF t
  <1>6. CASE t.in > Budget("max_bytes_in")
    <2>1. s = [t EXCEPT !.calls = smoke.calls, !.now = smoke.now]
      BY <1>3, <1>6
    <2>2. /\ s \in Type /\ s.in = in /\ s.calls = smoke.calls /\ s.now = smoke.now
          /\ s.peak = smoke.peak /\ s.lines = smoke.lines /\ s.out = smoke.out
          /\ s.flying = smoke.flying
      BY <1>1, <1>5, <2>1
    <2>. QED
      BY <1>1, <1>5, <1>6, <2>2 DEF OverBudget
  <1>7. CASE ~(t.in > Budget("max_bytes_in")) /\ t.calls > Budget("max_calls")
    <2>1. s = [t EXCEPT !.now = smoke.now]
      BY <1>3, <1>7
    <2>2. /\ s \in Type /\ s.in = in /\ s.calls = calls /\ s.now = smoke.now
          /\ s.peak = smoke.peak /\ s.lines = smoke.lines /\ s.out = smoke.out
          /\ s.flying = smoke.flying
      BY <1>1, <1>5, <2>1
    <2>. QED
      BY <1>1, <1>2, <1>5, <1>7, <2>2 DEF OverBudget
  <1>8. CASE ~(t.in > Budget("max_bytes_in")) /\ ~(t.calls > Budget("max_calls"))
    <2>. DEFINE peak == IF smoke.peak < now THEN now ELSE smoke.peak
    <2>1. s = [t EXCEPT !.peak = peak]
      BY <1>3, <1>5, <1>8
    <2>2. peak \in Nat /\ now <= peak
      BY <1>1, <1>2
    <2>. HIDE DEF peak
    <2>3. /\ s \in Type /\ s.calls = calls /\ s.now = now /\ s.peak = peak
          /\ s.lines = smoke.lines /\ s.out = smoke.out /\ s.flying = smoke.flying
      BY <1>1, <1>5, <2>1, <2>2
    <2>. QED
      BY <1>1, <1>2, <1>4, <2>2, <2>3
  <1>. QED
    BY <1>6, <1>7, <1>8

\* The process goes on, and its books are kept unless it has failed.
LEMMA TryingKeeps ==
  ASSUME TraceInv, At("smoke"), attempt' = attempt, SmokeTypes', Failed' \/ Tidy'
  PROVE  TraceInv'
  <1>1. \A k \in BudgetKeys : Budget(k)' \in Nat
    BY DEF TraceInv, Budget, At
  <1>. QED
    BY <1>1 DEF TraceInv, At

\* A call's id is the next one, so that ids ascend without a gap.
LEMMA SmokeCallsTraced == TraceInv /\ SmokeCalls => TraceInv'
  <1>. SUFFICES ASSUME TraceInv, SmokeCalls PROVE TraceInv'
    OBVIOUS
  <1>1. /\ At("smoke") /\ attempt' = attempt
        /\ \A k : Budget(k)' = Budget(k)
    BY DEF SmokeCalls, Prints, Budget
  <1>2. PICK size, s, c, more :
          /\ size \in Sizes /\ s = Counted(size) /\ c = Frame("call", smoke.calls + 1)
          /\ more = IF OverBudget(s) THEN <<c, Final(FALSE)>> ELSE <<c>>
          /\ smoke' = [s EXCEPT !.lines = s.lines \o more,
                                !.flying = IF OverBudget(s) THEN s.flying
                                           ELSE s.flying \cup {smoke.calls + 1}]
    BY DEF SmokeCalls
  <1>3. PICK id \in Nat : id = smoke.calls + 1
    BY DEF TraceInv, SmokeTypes
  <1>. DEFINE flying == IF OverBudget(s) THEN smoke.flying ELSE smoke.flying \cup {id}
  <1>4. /\ s \in [lines : Seq(LineType), calls : Nat, now : Nat, peak : Nat, in : Nat,
                  out : Nat, flying : SUBSET Nat]
        /\ s.lines = smoke.lines /\ s.out = smoke.out /\ s.flying = smoke.flying
        /\ smoke.calls <= s.calls /\ smoke.now <= s.now /\ s.now <= s.peak
        /\ ~OverBudget(s) => s.calls = id /\ s.now = smoke.now + 1
    <2>1. SmokeTypes
      BY DEF TraceInv
    <2>. QED
      BY <1>2, <1>3, <2>1, CountsRight
  <1>5. /\ c \in LineType /\ c.op = "call" /\ c.by = "harness" /\ c.id = id
        /\ Final(FALSE) \in LineType
    <2>1. c = Frame("call", id)
      BY <1>2, <1>3
    <2>2. /\ Frame("call", id) \in LineType /\ Frame("call", id).op = "call"
          /\ Frame("call", id).id = id /\ Frame("call", id).by = "harness"
      BY FrameTyped
    <2>. QED
      BY <2>1, <2>2, FinalTyped
  <1>6. more \in Seq(LineType)
    BY <1>2, <1>5, OneOrTwo
  <1>7. /\ smoke'.lines = smoke.lines \o more /\ smoke'.flying = flying
        /\ smoke'.calls = s.calls /\ smoke'.now = s.now /\ smoke'.peak = s.peak
        /\ smoke'.in = s.in /\ smoke'.out = smoke.out
        /\ smoke' \in [lines : Seq(LineType), calls : Nat, now : Nat, peak : Nat, in : Nat,
                       out : Nat, flying : SUBSET Nat]
    <2>1. flying \in SUBSET Nat /\ smoke.lines \o more \in Seq(LineType)
      BY <1>3, <1>4, <1>6 DEF TraceInv, SmokeTypes
    <2>2. smoke' = [s EXCEPT !.lines = smoke.lines \o more, !.flying = flying]
      BY <1>2, <1>3, <1>4
    <2>. HIDE DEF flying
    <2>. QED
      BY <1>4, <2>1, <2>2
  <1>8. SmokeTypes'
    <2>1. /\ \A k \in smoke.flying : 1 <= k /\ k <= smoke.calls
          /\ IsFiniteSet(smoke.flying) /\ Cardinality(smoke.flying) <= smoke.now
          /\ smoke.calls \in Nat /\ smoke.now \in Nat /\ smoke.flying \subseteq Nat
      BY DEF TraceInv, SmokeTypes
    <2>2. \A k \in flying : 1 <= k /\ k <= s.calls
      BY <1>3, <1>4, <2>1
    <2>3. IsFiniteSet(flying) /\ Cardinality(flying) <= s.now
      <3>1. CASE OverBudget(s)
        <4>1. Cardinality(smoke.flying) \in Nat
          BY <2>1, FS_CardinalityType
        <4>. QED
          BY <1>4, <2>1, <3>1, <4>1
      <3>2. CASE ~OverBudget(s)
        <4>1. id \notin smoke.flying
          BY <1>3, <2>1
        <4>2. /\ IsFiniteSet(smoke.flying \cup {id})
              /\ Cardinality(smoke.flying \cup {id}) = Cardinality(smoke.flying) + 1
          BY <2>1, <4>1, FS_AddElement
        <4>3. Cardinality(smoke.flying) \in Nat
          BY <2>1, FS_CardinalityType
        <4>. QED
          BY <1>4, <2>1, <3>2, <4>2, <4>3
      <3>. QED
        BY <3>1, <3>2
    <2>. HIDE DEF flying
    <2>. QED
      BY <1>4, <1>7, <2>2, <2>3 DEF SmokeTypes
  <1>9. Failed' \/ Tidy'
    <2>0. smoke.lines \in Seq(LineType) /\ smoke.calls \in Nat
      BY DEF TraceInv, SmokeTypes
    <2>1. CASE OverBudget(s)
      <3>1. more = <<c, Final(FALSE)>>
        BY <1>2, <2>1
      <3>2. \E k \in DOMAIN more : more[k] = Final(FALSE)
        <4>1. 2 \in DOMAIN more /\ more[2] = Final(FALSE)
          BY <3>1
        <4>. QED
          BY <4>1
      <3>. QED
        BY <1>6, <1>7, <2>0, <3>2, Prolonged
    <2>2. CASE Failed
      BY <1>6, <1>7, <2>0, <2>2, Prolonged
    <2>3. CASE ~OverBudget(s) /\ Tidy
      <3>0. PICK n : n = Len(smoke.lines) + 1
        OBVIOUS
      <3>1. /\ smoke'.lines = smoke.lines \o <<c>> /\ smoke'.flying = smoke.flying \cup {id}
            /\ smoke'.calls = id
        BY <1>2, <1>4, <1>7, <2>3
      <3>2. /\ n \in Nat /\ \A i \in DOMAIN smoke.lines : i \in Nat /\ i < n
            /\ \A i \in DOMAIN smoke.lines : Id(i)' = Id(i) /\ Id(i) \in Nat
            /\ Id(n)' = c.id
            /\ \A op : Printed(op) \subseteq DOMAIN smoke.lines
            /\ \A op : Printed(op)' = Printed(op) \cup (IF c.op = op /\ c.by = "harness" THEN {n} ELSE {})
        BY <1>5, <2>0, <3>0, <3>1, Added
      <3>3. /\ Printed("call")' = Printed("call") \cup {n} /\ Id(n)' = id
            /\ Printed("result")' = Printed("result")
        BY <1>5, <3>2
      <3>4. /\ smoke'.calls <= Budget("max_calls") /\ smoke'.peak <= Budget("max_parallel")
            /\ smoke'.in <= Budget("max_bytes_in") /\ smoke'.out <= Budget("max_bytes_out")
        <4>1. \A k \in BudgetKeys : Budget(k) \in Nat
          BY <1>1 DEF TraceInv, At
        <4>2. smoke.out <= Budget("max_bytes_out")
          BY <2>3 DEF Tidy
        <4>. QED
          BY <1>4, <1>7, <2>3, <4>1, <4>2 DEF OverBudget, BudgetKeys
      <3>5. \A j \in Printed("call")' :
              /\ 1 <= Id(j)' /\ Id(j)' <= smoke'.calls
              /\ \A i \in Printed("call")' : i < j => Id(i)' < Id(j)'
        <4>1. \A j \in Printed("call") :
                /\ 1 <= Id(j) /\ Id(j) <= smoke.calls
                /\ \A i \in Printed("call") : i < j => Id(i) < Id(j)
          BY <2>3 DEF Tidy
        <4>2. \A i \in Printed("call") : i < n /\ i \in Nat /\ Id(i)' = Id(i) /\ Id(i) \in Nat
          BY <3>2
        <4>3. ASSUME NEW j \in Printed("call")
              PROVE  /\ 1 <= Id(j)' /\ Id(j)' <= id
                     /\ \A i \in Printed("call") \cup {n} : i < j => Id(i)' < Id(j)'
          BY <1>3, <2>0, <3>2, <4>1, <4>2
        <4>4. /\ 1 <= Id(n)' /\ Id(n)' <= id
              /\ \A i \in Printed("call") \cup {n} : i < n => Id(i)' < Id(n)'
          BY <1>3, <2>0, <3>2, <3>3, <4>1, <4>2
        <4>. QED
          BY <3>1, <3>3, <4>3, <4>4
      <3>6. \A m \in 1..smoke'.calls : \E i \in Printed("call")' : Id(i)' = m
        <4>1. \A m \in 1..smoke.calls : \E i \in Printed("call") : Id(i) = m
          BY <2>3 DEF Tidy
        <4>2. ASSUME NEW m \in 1..id
              PROVE  \E i \in Printed("call") \cup {n} : Id(i)' = m
          <5>1. CASE m = id
            BY <3>3, <5>1
          <5>2. CASE m # id
            <6>1. m \in 1..smoke.calls
              BY <1>3, <2>0, <5>2
            <6>2. PICK i \in Printed("call") : Id(i) = m
              BY <4>1, <6>1
            <6>3. Id(i)' = m
              BY <3>2, <6>2
            <6>. QED
              BY <6>3
          <5>. QED
            BY <5>1, <5>2
        <4>. QED
          BY <3>1, <3>3, <4>2
      <3>7. \A j \in Printed("result")' :
              /\ \E i \in Printed("call")' : i < j /\ Id(i)' = Id(j)'
              /\ \A i \in Printed("result")' : i < j => Id(i)' # Id(j)'
              /\ Id(j)' \notin smoke'.flying
        <4>1. \A j \in Printed("result") :
                /\ \E i \in Printed("call") : i < j /\ Id(i) = Id(j)
                /\ \A i \in Printed("result") : i < j => Id(i) # Id(j)
                /\ Id(j) \notin smoke.flying
          BY <2>3 DEF Tidy
        <4>2. \A i \in Printed("call") : Id(i) <= smoke.calls
          BY <2>3 DEF Tidy
        <4>. QED
          BY <1>3, <2>0, <3>1, <3>2, <3>3, <4>1, <4>2
      <3>. QED
        BY <1>1, <3>4, <3>5, <3>6, <3>7 DEF Tidy
    <2>. QED
      BY <1>1, <2>1, <2>2, <2>3 DEF TraceInv
  <1>. QED
    BY <1>1, <1>8, <1>9, TryingKeeps

\* A process whose counts of calls stand, while a line is added.
LEMMA LineKeeps ==
  ASSUME TraceInv, At("smoke"), NEW l \in LineType, smoke'.lines = smoke.lines \o <<l>>,
         smoke'.calls = smoke.calls, smoke'.peak = smoke.peak, smoke'.in = smoke.in,
         smoke'.flying \subseteq smoke.flying, attempt' = attempt,
         l = Final(FALSE) \/ smoke'.out <= Budget("max_bytes_out"),
         l.by = "harness" => /\ l.op # "call"
                             /\ l.op = "result" => l.id \in smoke.flying \ smoke'.flying
  PROVE  Failed' \/ Tidy'
  <1>. SUFFICES ASSUME l # Final(FALSE), Tidy PROVE Tidy'
    <2>0. smoke.lines \in Seq(LineType)
      BY DEF TraceInv, SmokeTypes
    <2>1. ASSUME l = Final(FALSE) PROVE Failed'
      <3>1. 1 \in DOMAIN <<l>> /\ <<l>>[1] = l /\ <<l>> \in Seq(LineType)
        OBVIOUS
      <3>. QED
        BY <2>0, <2>1, <3>1, Prolonged
    <2>2. ASSUME Failed PROVE Failed'
      BY <2>0, <2>2, Prolonged, OneOrTwo
    <2>3. Failed \/ Tidy
      BY DEF TraceInv
    <2>. QED
      BY <2>1, <2>2, <2>3
  <1>0. PICK n : n = Len(smoke.lines) + 1
    OBVIOUS
  <1>1. smoke.lines \in Seq(LineType) /\ \A k \in smoke.flying : 1 <= k /\ k <= smoke.calls
    BY DEF TraceInv, SmokeTypes
  <1>2. /\ n \in Nat /\ \A i \in DOMAIN smoke.lines : i \in Nat /\ i < n
        /\ \A i \in DOMAIN smoke.lines : Id(i)' = Id(i) /\ Id(i) \in Nat
        /\ Id(n)' = l.id
        /\ \A op : Printed(op) \subseteq DOMAIN smoke.lines
        /\ \A op : Printed(op)' = Printed(op) \cup (IF l.op = op /\ l.by = "harness" THEN {n} ELSE {})
    BY <1>0, <1>1, Added
  <1>3. Printed("call")' = Printed("call")
    BY <1>2
  <1>4. \A k : Budget(k)' = Budget(k)
    BY DEF Budget
  <1>5. /\ smoke'.calls <= Budget("max_calls") /\ smoke'.peak <= Budget("max_parallel")
        /\ smoke'.in <= Budget("max_bytes_in") /\ smoke'.out <= Budget("max_bytes_out")
    BY DEF Tidy
  <1>6. /\ \A j \in Printed("call")' :
             /\ 1 <= Id(j)' /\ Id(j)' <= smoke'.calls
             /\ \A i \in Printed("call")' : i < j => Id(i)' < Id(j)'
        /\ \A m \in 1..smoke'.calls : \E i \in Printed("call")' : Id(i)' = m
    <2>1. /\ \A j \in Printed("call") :
               /\ 1 <= Id(j) /\ Id(j) <= smoke.calls
               /\ \A i \in Printed("call") : i < j => Id(i) < Id(j)
          /\ \A m \in 1..smoke.calls : \E i \in Printed("call") : Id(i) = m
      BY DEF Tidy
    <2>2. \A i \in Printed("call") : Id(i)' = Id(i)
      BY <1>2
    <2>. QED
      BY <1>3, <2>1, <2>2
  <1>7. \A j \in Printed("result")' :
          /\ \E i \in Printed("call")' : i < j /\ Id(i)' = Id(j)'
          /\ \A i \in Printed("result")' : i < j => Id(i)' # Id(j)'
          /\ Id(j)' \notin smoke'.flying
    <2>1. \A j \in Printed("result") :
            /\ \E i \in Printed("call") : i < j /\ Id(i) = Id(j)
            /\ \A i \in Printed("result") : i < j => Id(i) # Id(j)
            /\ Id(j) \notin smoke.flying
      BY DEF Tidy
    <2>2. \A m \in 1..smoke.calls : \E i \in Printed("call") : Id(i) = m
      BY DEF Tidy
    <2>3. \A op, i : i \in Printed(op) => i < n /\ i \in Nat /\ Id(i)' = Id(i)
      BY <1>2
    <2>4. ASSUME NEW j \in Printed("result")
          PROVE  /\ \E i \in Printed("call") : i < j /\ Id(i)' = Id(j)'
                 /\ \A i \in Printed("result") \cup {n} : i < j => Id(i)' # Id(j)'
                 /\ Id(j)' \notin smoke'.flying
      BY <1>2, <2>1, <2>3
    <2>5. ASSUME l.op = "result", l.by = "harness"
          PROVE  /\ \E i \in Printed("call") : i < n /\ Id(i)' = Id(n)'
                 /\ \A i \in Printed("result") \cup {n} : i < n => Id(i)' # Id(n)'
                 /\ Id(n)' \notin smoke'.flying
      <3>1. l.id \in smoke.flying /\ l.id \notin smoke'.flying
        BY <2>5
      <3>2. l.id \in 1..smoke.calls
        BY <1>1, <3>1 DEF LineType
      <3>3. PICK i \in Printed("call") : Id(i) = l.id
        BY <2>2, <3>2
      <3>. QED
        BY <1>2, <2>1, <2>3, <3>1, <3>3
    <2>6. Printed("result")' = Printed("result") \cup (IF l.op = "result" /\ l.by = "harness" THEN {n} ELSE {})
      BY <1>2
    <2>. QED
      BY <1>3, <2>4, <2>5, <2>6
  <1>. QED
    BY <1>4, <1>5, <1>6, <1>7 DEF Tidy

\* A call that is no longer in flight does not run.
LEMMA OneLess ==
  ASSUME SmokeTypes, NEW id \in smoke.flying
  PROVE  /\ smoke.now - 1 \in Nat /\ smoke.now - 1 <= smoke.now
         /\ IsFiniteSet(smoke.flying \ {id})
         /\ Cardinality(smoke.flying \ {id}) <= smoke.now - 1
  <1>1. /\ IsFiniteSet(smoke.flying) /\ Cardinality(smoke.flying) <= smoke.now
        /\ smoke.now \in Nat
    BY DEF SmokeTypes
  <1>2. /\ IsFiniteSet(smoke.flying \ {id})
        /\ Cardinality(smoke.flying \ {id}) = Cardinality(smoke.flying) - 1
    BY <1>1, FS_RemoveElement
  <1>3. Cardinality(smoke.flying \ {id}) \in Nat /\ Cardinality(smoke.flying) \in Nat
    BY <1>1, <1>2, FS_CardinalityType
  <1>. QED
    BY <1>1, <1>2, <1>3

LEMMA SmokeAnswersTraced == TraceInv /\ SmokeAnswers => TraceInv'
  <1>. SUFFICES ASSUME TraceInv, SmokeAnswers PROVE TraceInv'
    OBVIOUS
  <1>1. /\ At("smoke") /\ attempt' = attempt /\ \A k \in BudgetKeys : Budget(k) \in Nat
    BY DEF SmokeAnswers, Prints, TraceInv, At
  <1>2. PICK id, size, l :
          /\ id \in smoke.flying /\ size \in Sizes
          /\ l = IF smoke.out + size > Budget("max_bytes_out") THEN Final(FALSE)
                 ELSE Frame("result", id)
          /\ smoke' = [smoke EXCEPT !.lines = smoke.lines \o <<l>>, !.out = smoke.out + size,
                                    !.now = smoke.now - 1, !.flying = smoke.flying \ {id}]
    BY DEF SmokeAnswers
  <1>3. SmokeTypes /\ size \in Nat /\ id \in Nat
    BY <1>2, CompilerAssumption DEF TraceInv, SmokeTypes
  <1>. DEFINE lines == smoke.lines \o <<l>>
              sum == smoke.out + size
              now == smoke.now - 1
              flying == smoke.flying \ {id}
  <1>4. /\ now \in Nat /\ now <= smoke.now
        /\ IsFiniteSet(flying) /\ Cardinality(flying) <= now
    BY <1>2, <1>3, OneLess
  <1>5. /\ l \in LineType /\ l.op # "call" /\ (l.op = "result" => l.id = id)
        /\ l = Final(FALSE) \/ ~(sum > Budget("max_bytes_out"))
    BY <1>2, <1>3, FinalTyped, FrameTyped
  <1>6. lines \in Seq(LineType) /\ sum \in Nat /\ flying \in SUBSET Nat
    <2>1. <<l>> \in Seq(LineType) /\ smoke.lines \in Seq(LineType)
      BY <1>3, <1>5, OneOrTwo DEF SmokeTypes
    <2>. QED
      BY <1>3, <2>1 DEF SmokeTypes
  <1>. HIDE DEF lines, sum, now, flying
  <1>7. smoke' = [smoke EXCEPT !.lines = lines, !.out = sum, !.now = now, !.flying = flying]
    BY <1>2 DEF lines, sum, now, flying
  <1>8. /\ smoke' \in [lines : Seq(LineType), calls : Nat, now : Nat, peak : Nat, in : Nat,
                       out : Nat, flying : SUBSET Nat]
        /\ smoke'.lines = lines /\ smoke'.out = sum /\ smoke'.now = now
        /\ smoke'.flying = flying /\ smoke'.calls = smoke.calls /\ smoke'.peak = smoke.peak
        /\ smoke'.in = smoke.in
    BY <1>3, <1>4, <1>6, <1>7 DEF SmokeTypes
  <1>9. SmokeTypes'
    BY <1>3, <1>4, <1>8 DEF SmokeTypes, flying
  <1>10. Failed' \/ Tidy'
    <2>1. l = Final(FALSE) \/ smoke'.out <= Budget("max_bytes_out")
      <3>1. Budget("max_bytes_out") \in Nat
        BY <1>1 DEF BudgetKeys
      <3>2. ASSUME NEW b \in Nat, ~(sum > b) PROVE sum <= b
        BY <1>6, <3>2
      <3>. QED
        BY <1>5, <1>8, <3>1, <3>2
    <2>2. /\ smoke'.flying \subseteq smoke.flying /\ id \in smoke.flying \ smoke'.flying
          /\ smoke'.lines = smoke.lines \o <<l>>
      BY <1>2, <1>8 DEF flying, lines
    <2>. QED
      BY <1>1, <1>5, <1>8, <2>1, <2>2, LineKeeps
  <1>. QED
    BY <1>1, <1>9, <1>10, TryingKeeps

LEMMA SmokeDropsTraced == TraceInv /\ SmokeDrops => TraceInv'
  <1>. SUFFICES ASSUME TraceInv, SmokeDrops PROVE TraceInv'
    OBVIOUS
  <1>1. At("smoke") /\ attempt' = attempt
    BY DEF SmokeDrops, Prints
  <1>2. PICK id \in smoke.flying :
          smoke' = [smoke EXCEPT !.now = smoke.now - 1, !.flying = smoke.flying \ {id}]
    BY DEF SmokeDrops
  <1>3. SmokeTypes
    BY DEF TraceInv
  <1>. DEFINE now == smoke.now - 1
              flying == smoke.flying \ {id}
  <1>4. /\ now \in Nat /\ now <= smoke.now /\ flying \in SUBSET Nat
        /\ IsFiniteSet(flying) /\ Cardinality(flying) <= now
    BY <1>3, OneLess DEF SmokeTypes
  <1>. HIDE DEF now, flying
  <1>5. /\ smoke' \in [lines : Seq(LineType), calls : Nat, now : Nat, peak : Nat, in : Nat,
                       out : Nat, flying : SUBSET Nat]
        /\ smoke'.lines = smoke.lines /\ smoke'.out = smoke.out /\ smoke'.now = now
        /\ smoke'.flying = flying /\ smoke'.calls = smoke.calls /\ smoke'.peak = smoke.peak
        /\ smoke'.in = smoke.in
    <2>1. smoke' = [smoke EXCEPT !.now = now, !.flying = flying]
      BY <1>2 DEF now, flying
    <2>. QED
      BY <1>3, <1>4, <2>1 DEF SmokeTypes
  <1>6. SmokeTypes'
    BY <1>3, <1>4, <1>5 DEF SmokeTypes, flying
  <1>7. Failed' \/ Tidy'
    <2>1. /\ \A op : Printed(op)' = Printed(op)
          /\ \A i : Id(i)' = Id(i)
          /\ \A k : Budget(k)' = Budget(k)
      BY <1>1, <1>5 DEF Printed, Id, Budget
    <2>2. Failed \/ Tidy
      BY <1>1 DEF TraceInv
    <2>3. Failed => Failed'
      BY <1>5, <2>1 DEF Failed
    <2>4. Tidy => Tidy'
      BY <1>5, <2>1 DEF Tidy, flying
    <2>. QED
      BY <2>2, <2>3, <2>4
  <1>. QED
    BY <1>1, <1>6, <1>7, TryingKeeps

LEMMA SmokePrintsTraced == TraceInv /\ SmokePrints => TraceInv'
  <1>. SUFFICES ASSUME TraceInv, SmokePrints PROVE TraceInv'
    OBVIOUS
  <1>1. At("smoke") /\ attempt' = attempt
    BY DEF SmokePrints, Prints
  <1>2. PICK l \in OwnLines : smoke' = [smoke EXCEPT !.lines = Append(smoke.lines, l)]
    BY DEF SmokePrints
  <1>3. l \in LineType /\ (l.by = "harness" => l.op = "final")
    BY OwnLineTyped
  <1>4. SmokeTypes
    BY DEF TraceInv
  <1>. DEFINE lines == smoke.lines \o <<l>>
  <1>5. lines = Append(smoke.lines, l) /\ lines \in Seq(LineType)
    BY <1>3, <1>4 DEF SmokeTypes
  <1>. HIDE DEF lines
  <1>6. /\ smoke' \in [lines : Seq(LineType), calls : Nat, now : Nat, peak : Nat, in : Nat,
                       out : Nat, flying : SUBSET Nat]
        /\ smoke'.lines = lines /\ smoke'.out = smoke.out /\ smoke'.now = smoke.now
        /\ smoke'.flying = smoke.flying /\ smoke'.calls = smoke.calls
        /\ smoke'.peak = smoke.peak /\ smoke'.in = smoke.in
    BY <1>2, <1>4, <1>5 DEF SmokeTypes
  <1>7. SmokeTypes'
    BY <1>4, <1>6 DEF SmokeTypes
  <1>8. Failed' \/ Tidy'
    <2>1. CASE Failed
      BY <1>3, <1>4, <1>6, <2>1, Prolonged, OneOrTwo DEF SmokeTypes, lines
    <2>2. CASE Tidy
      <3>1. smoke'.out <= Budget("max_bytes_out")
        BY <1>6, <2>2 DEF Tidy
      <3>2. smoke'.lines = smoke.lines \o <<l>>
        BY <1>6 DEF lines
      <3>. QED
        BY <1>1, <1>3, <1>6, <3>1, <3>2, LineKeeps
    <2>. QED
      BY <1>1, <2>1, <2>2 DEF TraceInv
  <1>. QED
    BY <1>1, <1>7, <1>8, TryingKeeps

\* Only what the verifier passed is tried out, by a process that begins with nothing.
LEMMA VerifiesTraced == IInv /\ TraceInv /\ Verifies => TraceInv'
  <1>. SUFFICES ASSUME IInv, TraceInv, Verifies PROVE TraceInv'
    OBVIOUS
  <1>. DEFINE prog == attempt.sub.prog
              c == attempt.sub.contract
  <1>1. /\ attempt.sub \in Submissions /\ attempt \in AttemptType /\ smoke' = smoke
        /\ smoke = NoSmoke
    BY DEF IInv, TraceInv, Verifies, At
  <1>2. CASE attempt' = Refused("internal") \/ attempt' = Refused("verify")
    <2>1. attempt'.at = "error"
      BY <1>1, <1>2 DEF Refused, AttemptType
    <2>. QED
      BY <1>1, <2>1, NotTried
  <1>3. CASE attempt' = [attempt EXCEPT !.sub.contract = Verified(prog, c).contract,
                                        !.at = IF attempt.try THEN "smoke" ELSE "prog"]
    <2>1. attempt.sub \in SubType /\ c \in ContractType
      BY <1>1, CompilerAssumption DEF SubType
    <2>. DEFINE sub == [attempt.sub EXCEPT !.contract = Aliased(c)]
                at == IF attempt.try THEN "smoke" ELSE "prog"
    <2>2. attempt' = [attempt EXCEPT !.sub = sub, !.at = at]
      <3>1. Verified(prog, c).contract = Aliased(c)
        BY <2>1, RepairIsIdle
      <3>. QED
        BY <1>1, <1>3, <3>1 DEF AttemptType
    <2>3. sub.contract = Aliased(c) /\ Aliased(c) \in ContractType
      BY <2>1, AliasTyped DEF SubType
    <2>4. at \in {"smoke", "prog"}
      OBVIOUS
    <2>. HIDE DEF sub, at, c
    <2>5. attempt'.at = at /\ attempt'.sub = sub
      BY <1>1, <2>2 DEF AttemptType
    <2>6. \A k \in BudgetKeys : Budget(k)' \in Nat
      BY <2>3, <2>5 DEF Budget, ContractType
    <2>7. CASE at = "smoke"
      <3>1. Tidy'
        BY <1>1, <2>6, TidyAtFirst DEF Tidy, NoSmoke, Printed, BudgetKeys
      <3>2. SmokeTypes'
        BY <1>1 DEF TraceInv, SmokeTypes
      <3>. QED
        BY <2>5, <2>6, <2>7, <3>1, <3>2 DEF TraceInv, At
    <2>8. CASE at = "prog"
      BY <1>1, <2>5, <2>8, NotTried
    <2>. QED
      BY <2>4, <2>7, <2>8
  <1>. QED
    BY <1>2, <1>3 DEF Verifies

\* The other steps of the compiler, and those of the directory.
LEMMA OthersTraced ==
  ASSUME IInv, TraceInv,
         Begins \/ FindsTools \/ Answers \/ Extracts \/ SmokeTimesOut \/ Judges \/ Opens
           \/ Writes \/ WriteFails \/ Killed \/ SmokeEnds
  PROVE  TraceInv'
  <1>1. attempt \in AttemptType /\ (attempt.open => attempt.at \in Files)
    BY DEF IInv
  <1>2. CASE Begins
    <2>1. smoke' = NoSmoke /\ attempt'.at \in {"tools", "done"}
      BY <1>2 DEF Begins, Traceback, NoAttempt
    <2>. QED
      BY <2>1, NotTried
  <1>3. CASE FindsTools \/ Answers \/ Extracts
    <2>1. attempt'.at \in {"model", "raw", "verify", "error"} /\ smoke' = smoke
      BY <1>1, <1>3 DEF FindsTools, Answers, Extracts, Refused, AttemptType
    <2>2. smoke = NoSmoke
      BY <1>3 DEF FindsTools, Answers, Extracts, At, TraceInv
    <2>. QED
      BY <2>1, <2>2, NotTried
  <1>4. CASE SmokeTimesOut
    <2>1. /\ smoke' = NoSmoke /\ attempt'.at = "trace" /\ attempt'.sub = attempt.sub
          /\ ~attempt'.passed /\ At("smoke")
      BY <1>1, <1>4 DEF SmokeTimesOut, AttemptType
    <2>2. \A k \in BudgetKeys : Budget(k)' \in Nat
      BY <2>1 DEF TraceInv, At, Budget
    <2>3. SmokeTypes'
      <3>1. IsFiniteSet({}) /\ Cardinality({}) = 0
        BY FS_EmptySet
      <3>2. PICK zero \in Nat : zero = 0
        OBVIOUS
      <3>. QED
        BY <2>1, <3>1, <3>2 DEF SmokeTypes, NoSmoke
    <2>. QED
      BY <2>1, <2>2, <2>3 DEF TraceInv, At
  <1>5. CASE Judges \/ WriteFails
    <2>1. smoke' = NoSmoke /\ attempt'.at \in {"prog", "error", "done"}
      BY <1>1, <1>5 DEF Judges, WriteFails, Refused, Traceback, NoAttempt, AttemptType
    <2>. QED
      BY <2>1, NotTried
  <1>6. CASE Killed
    <2>1. smoke' = NoSmoke /\ attempt'.at = "done"
      BY <1>6 DEF Killed, Ended, NoAttempt
    <2>. QED
      BY <2>1, NotTried
  <1>7. CASE SmokeEnds
    <2>1. /\ smoke' = smoke /\ attempt'.sub = attempt.sub /\ attempt'.at = "trace"
          /\ attempt.at = "smoke" /\ (attempt'.passed <=> Passes(smoke.lines))
      <3>1. Passes(smoke.lines) \in BOOLEAN
        BY DEF Passes
      <3>. QED
        BY <1>1, <1>7, <3>1 DEF SmokeEnds, At, AttemptType
    <2>. QED
      BY <2>1, TriedKeeps DEF At
  <1>8. CASE Opens \/ Writes
    <2>1. smoke' = smoke /\ attempt.at \in Files
      BY <1>1, <1>8 DEF Opens, Writes
    <2>2. \/ attempt' = [attempt EXCEPT !.open = TRUE]
          \/ attempt' = Ended(attempt.n, Code) /\ AfterWrite[attempt.at] = "done"
          \/ attempt' = [attempt EXCEPT !.at = AfterWrite[attempt.at], !.open = FALSE]
      BY <1>8 DEF Opens, Writes
    <2>3. /\ AfterWrite["raw"] = "extract" /\ AfterWrite["trace"] = "judged"
          /\ AfterWrite["prog"] = "contract" /\ AfterWrite["contract"] = "done"
          /\ AfterWrite["error"] = "done"
      BY DEF AfterWrite
    <2>4. Ended(attempt.n, Code).at = "done"
      BY DEF Ended, NoAttempt
    <2>5. CASE attempt.at = "trace"
      <3>1. /\ attempt'.sub = attempt.sub /\ attempt'.at \in {"trace", "judged"}
            /\ attempt'.passed = attempt.passed
        <4>1. AfterWrite[attempt.at] = "judged"
          BY <2>3, <2>5
        <4>2. \/ attempt' = [attempt EXCEPT !.open = TRUE]
              \/ attempt' = [attempt EXCEPT !.at = "judged", !.open = FALSE]
          BY <2>2, <4>1
        <4>3. CASE attempt' = [attempt EXCEPT !.open = TRUE]
          BY <1>1, <2>5, <4>3 DEF AttemptType
        <4>4. CASE attempt' = [attempt EXCEPT !.at = "judged", !.open = FALSE]
          BY <1>1, <4>4 DEF AttemptType
        <4>. QED
          BY <4>2, <4>3, <4>4
      <3>. QED
        BY <2>1, <2>5, <3>1, TriedKeeps
    <2>6. CASE attempt.at # "trace"
      <3>1. smoke = NoSmoke
        BY <2>1, <2>6 DEF TraceInv, Files
      <3>2. attempt.at \in {"raw", "prog", "contract", "error"}
        BY <2>1, <2>6 DEF Files
      <3>3. attempt'.at \in {"raw", "prog", "contract", "error", "extract", "done"}
        <4>1. CASE attempt' = [attempt EXCEPT !.open = TRUE]
          BY <1>1, <3>2, <4>1 DEF AttemptType
        <4>2. CASE attempt' = Ended(attempt.n, Code)
          BY <2>4, <4>2
        <4>3. CASE attempt' = [attempt EXCEPT !.at = AfterWrite[attempt.at], !.open = FALSE]
          <5>1. attempt'.at = AfterWrite[attempt.at]
            BY <1>1, <4>3 DEF AttemptType
          <5>. QED
            BY <2>3, <3>2, <5>1
        <4>. QED
          BY <2>2, <4>1, <4>2, <4>3
      <3>. QED
        BY <2>1, <3>1, <3>3, NotTried
    <2>. QED
      BY <2>5, <2>6
  <1>. QED
    BY <1>2, <1>3, <1>4, <1>5, <1>6, <1>7, <1>8

LEMMA TraceInductive == IInv /\ TraceInv /\ [Next]_vars => TraceInv'
  <1>. SUFFICES ASSUME IInv, TraceInv, [Next]_vars PROVE TraceInv'
    OBVIOUS
  <1>1. CASE UNCHANGED vars
    <2>1. attempt' = attempt /\ smoke' = smoke
      BY <1>1 DEF vars
    <2>2. /\ (Failed' <=> Failed) /\ (Tidy' <=> Tidy) /\ (SmokeTypes' <=> SmokeTypes)
          /\ \A k : Budget(k)' = Budget(k)
      BY <2>1 DEF SmokeTypes, Failed, Tidy, Printed, Id, Budget
    <2>. QED
      BY <2>1, <2>2 DEF TraceInv, At
  <1>2. CASE Works
    BY <1>2, VerifiesTraced, OthersTraced DEF Works
  <1>3. CASE Program
    BY <1>3, SmokeCallsTraced, SmokeAnswersTraced, SmokeDropsTraced, SmokePrintsTraced,
       OthersTraced DEF Program
  <1>. QED
    BY <1>1, <1>2, <1>3, OthersTraced DEF Next

\* A program that passed its try-out kept to every budget of its contract and left an
\* orderly trace, whatever it caught, cancelled and printed on the way (smoke.py).
THEOREM PassedMeansOrderly == Spec => []AcceptedTrace
  <1>1. Init => TraceInv
    <2>. SUFFICES ASSUME Init PROVE TraceInv
      OBVIOUS
    <2>1. smoke = NoSmoke /\ attempt.at = "done"
      BY DEF Init, NoAttempt
    <2>2. SmokeTypes
      <3>1. IsFiniteSet({}) /\ Cardinality({}) = 0
        BY FS_EmptySet
      <3>2. PICK zero \in Nat : zero = 0
        OBVIOUS
      <3>. QED
        BY <2>1, <3>1, <3>2 DEF SmokeTypes, NoSmoke
    <2>. QED
      BY <2>1, <2>2 DEF TraceInv, At
  <1>. QED
    BY InitIInv, Inductive, TraceInductive, TraceIsAccepted, <1>1, PTL DEF Spec
=============================================================================
