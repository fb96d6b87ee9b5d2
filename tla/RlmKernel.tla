------------------------------ MODULE RlmKernel ------------------------------
(***************************************************************************)
(* The recursive kernel (pirml/rlm/): a run asks the root model for code,  *)
(* executes it, and repeats until the code sets Final.  The code is        *)
(* generated and may do anything its helpers allow; it shares one event    *)
(* loop with the tasks of its maps, which gather does not cancel when one  *)
(* of them fails, so they go on into later iterations and runs.            *)
(*                                                                         *)
(* Abstracted: an answer is named by its map and its place in it; the bulk *)
(* variables are one, SUMS; texts are a cost and a relevance; the timeout  *)
(* is one event of a run.  A kernel is run up to Runs times.               *)
(***************************************************************************)
EXTENDS Governor

CONSTANTS
  MaxIters, MaxSubcalls, MaxParallel,  \* the budget
  Cap,            \* K_CAP_TOKENS
  GoalCost,       \* tokens of the prompt P
  Prints,         \* what an iteration may print: costs and relevances
  Widths,         \* lengths of the lists code maps over
  CodeSteps,      \* bound: helper calls of one piece of code
  Runs            \* bound: runs of the kernel

ASSUME KernelAssumption ==
  /\ MaxIters \in Nat /\ MaxSubcalls \in Nat /\ MaxParallel \in Nat \ {0}
  /\ Cap \in Nat /\ GoalCost \in Nat /\ Widths \subseteq Nat
  /\ Prints \subseteq [cost : Nat, rel : Nat] /\ CodeSteps \in Nat /\ Runs \in Nat

\* est_tokens counts one token for three characters or fewer, tokenize a token for a word,
\* and words are kept apart by a character; 1000000 is far more than twice 8000.
ASSUME TokenAssumption ==
  /\ \A p \in Prints : p.rel <= 2 * p.cost
  /\ 2 * (Cap + 1) < Boost

VARIABLES
  run,            \* runs begun
  at,             \* where the run is
  iters,
  subcalls,       \* subcall_count
  late,           \* timeout_s has passed since the run began
  state,          \* RlmState
  globs,          \* the globals of the code: a copy of the state
  code,           \* steps it may still do, the map it waits for, what was raised in it
  history,        \* RlmHistory: cost and relevance of each frame
  tasks,          \* sub-calls of maps that are not finished, or whose map is waited for
  maps,           \* maps begun
  prompt,         \* the items offered to the governor
  answer,         \* web_output.json
  reached           \* history: sub-calls of this run that reached the model

vars == <<run, at, iters, subcalls, late, state, globs, code, history, tasks, maps,
          prompt, answer, reached>>

NoFinal == {}     \* Final is the empty set or the set of what it is
Fresh == [Final |-> NoFinal, SUMS |-> << >>]
NoCode == [left |-> 0, map |-> 0, raised |-> "no"]
Running == at \notin {"idle", "returned", "timeout", "max_iters", "raised"}

-----------------------------------------------------------------------------
(* The loop of run                                                         *)

Begins ==
  /\ ~Running /\ run < Runs
  /\ run' = run + 1 /\ at' = "check" /\ iters' = 0 /\ subcalls' = 0 /\ late' = FALSE
  /\ state' = Fresh /\ history' = << >> /\ reached' = 0
  /\ UNCHANGED <<globs, code, tasks, maps, prompt, answer>>

TimePasses ==
  /\ Running /\ ~late
  /\ late' = TRUE
  /\ UNCHANGED <<run, at, iters, subcalls, state, globs, code, history, tasks, maps,
                 prompt, answer, reached>>

\* build_rlm_prompt: the goal, which alone is critical, Final, the list with an
\* excerpt of each element, and the history, in which the kernel has log events only.
Items ==
  << Item(1, GoalCost, GoalCost, TRUE, ""), Item(2, 1, 0, FALSE, ""), Item(3, 1, 0, FALSE, "") >>
  \o [i \in DOMAIN state.SUMS |-> Item(3 + i, 1, 1, FALSE, "")]
  \o [i \in DOMAIN history |->
        Item(3 + Len(state.SUMS) + i, history[i].cost, history[i].rel, FALSE, "log")]

\* What the governor keeps of them, and the tokens of the prompt, which begins with the goal
\* once more.
Kept == PackedUnder(prompt, Cap)
Sent == PromptCost(GoalCost, prompt, Cap)

Checks ==
  /\ at = "check"
  /\ IF iters >= MaxIters THEN at' = "max_iters" /\ UNCHANGED prompt
     ELSE IF late THEN at' = "timeout" /\ UNCHANGED prompt
     ELSE at' = "root" /\ prompt' = Items
  /\ UNCHANGED <<run, iters, subcalls, late, state, globs, code, history, tasks, maps,
                 answer, reached>>

\* The root model answers with code, or fails and the run with it.
RootAnswers ==
  /\ at = "root"
  /\ \/ at' = "code" /\ globs' = state /\ code' = [NoCode EXCEPT !.left = CodeSteps]
     \/ at' = "raised" /\ UNCHANGED <<globs, code>>
  /\ UNCHANGED <<run, iters, subcalls, late, state, history, tasks, maps, prompt, answer, reached>>

-----------------------------------------------------------------------------
(* The generated code                                                      *)

\* A next step of the code, which has not raised or has caught what was raised.
Does ==
  /\ at = "code" /\ code.left > 0 /\ code.raised = "no"
  /\ UNCHANGED <<run, iters, late, state, history, prompt, answer>>

SetsFinal ==
  /\ Does
  /\ globs' = [globs EXCEPT !.Final = {globs.SUMS}]
  /\ code' = [code EXCEPT !.left = @ - 1]
  /\ UNCHANGED <<at, subcalls, tasks, maps, reached>>

\* get of what is not in the store, or put of what it refuses; what they find or
\* store is the artifact store's.
StoreRaises ==
  /\ Does
  /\ \E e \in {"kernel", "plain"} : code' = [left |-> code.left - 1, map |-> 0, raised |-> e]
  /\ UNCHANGED <<at, subcalls, globs, tasks, maps, reached>>

\* llm_query_helper counts before it looks.  A slip: one call too many goes out.
OverBudgetLater(n) == n > MaxSubcalls + 1
OverBudget(n) == n > MaxSubcalls

LlmQuery ==
  /\ Does
  /\ subcalls' = subcalls + 1
  /\ IF OverBudget(subcalls + 1)
       THEN /\ code' = [left |-> code.left - 1, map |-> 0, raised |-> "kernel"]
            /\ UNCHANGED <<at, reached>>
       ELSE /\ code' = [code EXCEPT !.left = @ - 1]
            /\ at' = "query" /\ reached' = reached + 1
  /\ UNCHANGED <<globs, tasks, maps>>

QueryReturns ==
  /\ at = "query"
  /\ \E e \in {"no", "plain"} : code' = [code EXCEPT !.raised = e]
  /\ at' = "code"
  /\ UNCHANGED <<run, iters, subcalls, late, state, globs, history, tasks, maps,
                 prompt, answer, reached>>

\* amap: a task for each prompt, and the code waits for gather.
Maps ==
  /\ Does
  /\ maps' = maps + 1
  /\ \E n \in Widths :
       tasks' = tasks \cup {[map |-> maps + 1, index |-> i, at |-> "wait"] : i \in 1..n}
  /\ code' = [code EXCEPT !.left = @ - 1, !.map = maps + 1]
  /\ at' = "map"
  /\ UNCHANGED <<subcalls, globs, reached>>

-----------------------------------------------------------------------------
(* The tasks of a map                                                      *)

Ended(t) == t.at \in {"done", "raised"}
MapOf(m) == {t \in tasks : t.map = m}
InModel == {t \in tasks : t.at = "model"}
Before(t, u) == t.map < u.map \/ (t.map = u.map /\ t.index < u.index)

\* What is left of the tasks when t goes to "to": of a map nobody waits for only
\* the unfinished.
Moved(t, to) ==
  LET u == [t EXCEPT !.at = to]
  IN (tasks \ {t}) \cup {v \in {u} : ~Ended(u) \/ (at = "map" /\ code.map = t.map)}

\* The first exception is the one gather raises.  A slip: it is lost.
RaisesLost(t, e) == code' = code
Raises(t, e) ==
  code' = IF at = "map" /\ code.map = t.map /\ code.raised = "no"
            THEN [code EXCEPT !.raised = e] ELSE code

\* The semaphore is the kernel's and admits in order.  A slip: each map has one of its own.
AdmitsPerMap(t) ==
  /\ Cardinality({u \in InModel : u.map = t.map}) < MaxParallel
  /\ \A u \in tasks : u.at = "wait" /\ u.map = t.map => ~Before(u, t)
Admits(t) ==
  /\ Cardinality(InModel) < MaxParallel
  /\ \A u \in tasks : u.at = "wait" => ~Before(u, t)

TaskEnters(t) ==
  /\ t.at = "wait" /\ Admits(t)
  /\ subcalls' = subcalls + 1
  /\ IF OverBudget(subcalls + 1)
       THEN tasks' = Moved(t, "raised") /\ Raises(t, "kernel") /\ UNCHANGED reached
       ELSE tasks' = Moved(t, "model") /\ reached' = reached + 1 /\ UNCHANGED code
  /\ UNCHANGED <<run, at, iters, late, state, globs, history, maps, prompt, answer>>

TaskReturns(t) ==
  /\ t.at = "model"
  /\ \/ tasks' = Moved(t, "done") /\ UNCHANGED code
     \/ tasks' = Moved(t, "raised") /\ Raises(t, "plain")
  /\ UNCHANGED <<run, at, iters, subcalls, late, state, globs, history, maps, prompt,
                 answer, reached>>

\* gather: all answers in the order of the prompts, or the first exception while
\* the rest go on.
InOrder(m) == [i \in 1..Cardinality(MapOf(m)) |-> <<m, i>>]

MapReturns ==
  /\ at = "map"
  /\ \/ code.raised # "no" /\ UNCHANGED globs
     \/ /\ code.raised = "no" /\ \A t \in MapOf(code.map) : t.at = "done"
        /\ globs' = [globs EXCEPT !.SUMS = InOrder(code.map)]
  /\ tasks' = {t \in tasks : ~Ended(t)}
  /\ at' = "code" /\ code' = [code EXCEPT !.map = 0]
  /\ UNCHANGED <<run, iters, subcalls, late, state, history, maps, prompt, answer, reached>>

-----------------------------------------------------------------------------
(* The end of an iteration                                                 *)

Catches ==
  /\ at = "code" /\ code.raised # "no"
  /\ code' = [code EXCEPT !.raised = "no"]
  /\ UNCHANGED <<run, at, iters, subcalls, late, state, globs, history, tasks, maps,
                 prompt, answer, reached>>

\* The state takes over the globals of code that ran to its end.  A slip: of any code.
TakenOverAlways == globs
TakenOver == IF code.raised = "no" THEN globs ELSE state

\* The code ends or fails, what it printed becomes a frame, and a Final is projected and
\* returned.
CodeEnds ==
  /\ at = "code" /\ code.raised \in {"no", "plain"}
  /\ state' = TakenOver
  /\ \E printed \in Prints : history' = Append(history, printed)
  /\ IF state'.Final # NoFinal
       THEN at' = "returned" /\ answer' = state'.Final /\ UNCHANGED iters
       ELSE at' = "check" /\ iters' = iters + 1 /\ UNCHANGED answer
  /\ globs' = Fresh /\ code' = [NoCode EXCEPT !.raised = code.raised]
  /\ UNCHANGED <<run, subcalls, late, tasks, maps, prompt, reached>>

\* A kernel error is not the code's: it ends the run.
CodeBreaks ==
  /\ at = "code" /\ code.raised = "kernel"
  /\ at' = "raised" /\ globs' = Fresh /\ code' = NoCode
  /\ UNCHANGED <<run, iters, subcalls, late, state, history, tasks, maps,
                 prompt, answer, reached>>

-----------------------------------------------------------------------------
Init ==
  /\ run = 0 /\ at = "idle" /\ iters = 0 /\ subcalls = 0 /\ late = FALSE
  /\ state = Fresh /\ globs = Fresh /\ code = NoCode /\ history = << >>
  /\ tasks = {} /\ maps = 0 /\ prompt = << >>
  /\ answer = NoFinal /\ reached = 0

CodeStep ==
  SetsFinal \/ StoreRaises \/ LlmQuery \/ Maps \/ Catches \/ CodeEnds \/ CodeBreaks
KernelStep == Checks \/ RootAnswers \/ QueryReturns \/ MapReturns
TaskStep == \E t \in tasks : TaskEnters(t) \/ TaskReturns(t)

Next == Begins \/ TimePasses \/ CodeStep \/ KernelStep \/ TaskStep

\* Models answer or fail, and what waits for them goes on.  Of the generated code nothing is
\* assumed: exec may never come back.
Spec == Init /\ [][Next]_vars /\ WF_vars(KernelStep) /\ WF_vars(TaskStep)

-----------------------------------------------------------------------------
(* Properties                                                              *)

\* In no run do more than max_subcalls sub-calls reach the model, and never more than
\* max_parallel of maps at once, whatever tasks earlier maps and runs left behind
\* (llm_query_helper, amap_recursive).
WithinBudget == reached <= MaxSubcalls /\ Cardinality(InModel) <= MaxParallel

\* A run returns what code that ran to its end made Final, and web_output.json has that
\* (_repl_exec, run).
ReturnsWholeCode == at = "returned" => code.raised = "no" /\ answer = state.Final

\* What the governor weighs stays within the cap, so that a prompt is at most the line of the
\* goal longer; and among what is weighed the goal is kept whenever it fits, however much of
\* the history is about it (pack_ctx, apply_cohesion_rule, build_rlm_prompt).
GoalAnchored ==
  /\ Sent <= GoalCost + Cap
  /\ prompt # << >> /\ prompt[1].cost <= Cap => 1 \in {it.id : it \in ToSet(Kept)}

\* A run whose code always comes back ends: no query or map leaves the code waiting, and no
\* code makes more iterations than max_iters (run, amap_recursive).
CodeReturns == []<>(at # "code")
RunEnds == CodeReturns => (Running ~> ~Running)
=============================================================================
