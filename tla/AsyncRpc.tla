------------------------------ MODULE AsyncRpc ------------------------------
(***************************************************************************)
(* The program's side of the protocol (call and AsyncRpcClient in          *)
(* pirml/runtime/rpc.py) against a supervisor that answers one call at a   *)
(* time (run_live in pirml/runtime/exec.py, reduced to what the program    *)
(* sees of it).                                                            *)
(*                                                                         *)
(* A program starts an AsyncRpcClient, runs some tasks that make a call    *)
(* each, all on one event loop, stops the client when they have ended, and *)
(* then makes a blocking call, as a program that mixes the two helpers     *)
(* may.  A task may be cancelled while it waits.  The client's reader loop *)
(* reads stdin in an executor thread, which a cancellation cannot          *)
(* interrupt once it runs.                                                 *)
(*                                                                         *)
(* A write to a full pipe blocks the whole event loop.  The supervisor may *)
(* kill the program at any time (its timeout).  Call ids are numbered      *)
(* 1, 2, ... in the order next_call_id hands them out.                     *)
(***************************************************************************)
EXTENDS Protocol, FiniteSets

CONSTANTS
  Tasks,       \* tasks of the event loop, one call each
  PipeCap,     \* frames the operating system buffers in one pipe
  MayCancel    \* whether tasks are cancelled while they wait

Nobody == "nobody"

ASSUME AsyncRpcAssumption ==
  /\ IsFiniteSet(Tasks) /\ Tasks # {} /\ Nobody \notin Tasks
  /\ PipeCap \in Nat \ {0}
  /\ MayCancel \in BOOLEAN

VARIABLES
  \* the program
  count,       \* _program_call_count
  task,        \* each task: where it is, and the id of its call
  futures,     \* the future of each id handed out by the client
  pending,     \* ids in the client's _pending
  client,      \* the reader loop: "running", "poisoned" or "stopped"
  read,        \* its read: "queued", "reading", "fetched" or "none"
  fetched,     \* the answer that read brought back
  orphan,      \* a stopped client's read is still running
  holder,      \* the task whose write holds the event loop
  main,        \* the program's main: "tasks", then the blocking call
  \* the pipes and the supervisor
  stdout,      \* calls in the pipe to the supervisor
  stdin,       \* results in the pipe to the program
  queue,       \* the supervisor's queue of calls
  serving,     \* the call being served
  stream,      \* its StreamValidator
  killed       \* it gave up on the program

programVars == <<count, task, futures, pending, client, read, fetched, orphan, holder,
                 main>>
supervisorVars == <<queue, serving, stream, killed>>
rpcVars == <<programVars, stdout, stdin, supervisorVars>>

Call(i) == [op |-> "call", id |-> i]
Result(i) == [op |-> "result", id |-> i]

\* The event loop runs something only while no write blocks it and main is not
\* inside the blocking call.
LoopFree == ~killed /\ holder = Nobody /\ main = "tasks"

TaskEnded(t) == task[t].at \in {"returned", "failed", "cancelled"}

-----------------------------------------------------------------------------
(* The tasks                                                               *)

\* A slip: without the lock a count is lost.
IdOnce == count + (IF count = 1 THEN 0 ELSE 1)

\* next_call_id
NextCallId == count + 1

\* AsyncRpcClient.call up to its write: a new id, and its future in _pending.
CallStarts(t) ==
  /\ LoopFree /\ task[t].at = "ready"
  /\ count' = NextCallId
  /\ task' = [task EXCEPT ![t] = [at |-> "writing", id |-> count']]
  /\ futures' = [i \in DOMAIN futures \cup {count'} |->
                   IF i = count' THEN "open" ELSE futures[i]]
  /\ pending' = pending \cup {count'}
  /\ holder' = t
  /\ UNCHANGED <<client, read, fetched, orphan, main, stdout, stdin,
                 supervisorVars>>

\* The write goes through; the task awaits the future.
CallWritten(t) ==
  /\ ~killed /\ holder = t
  /\ Len(stdout) < PipeCap
  /\ stdout' = Append(stdout, Call(task[t].id))
  /\ task' = [task EXCEPT ![t].at = "waiting"]
  /\ holder' = Nobody
  /\ UNCHANGED <<count, futures, pending, client, read, fetched, orphan, main,
                 stdin, supervisorVars>>

\* The future is done: the task goes on with the answer or the exception.
TaskResumes(t) ==
  /\ LoopFree /\ task[t].at = "waiting"
  /\ futures[task[t].id] \in {"result", "error"}
  /\ task' = [task EXCEPT ![t].at = IF futures[task[t].id] = "result" THEN "returned"
                                    ELSE "failed"]
  /\ UNCHANGED <<count, futures, pending, client, read, fetched, orphan, holder, main,
                 stdout, stdin, supervisorVars>>

\* The task is cancelled while it waits: an open future is cancelled with it and
\* stays in _pending.
TaskCancelled(t) ==
  /\ LoopFree /\ MayCancel /\ task[t].at = "waiting"
  /\ task' = [task EXCEPT ![t].at = "cancelled"]
  /\ futures' = [futures EXCEPT ![task[t].id] = IF @ = "open" THEN "cancelled" ELSE @]
  /\ UNCHANGED <<count, pending, client, read, fetched, orphan, holder, main,
                 stdout, stdin, supervisorVars>>

-----------------------------------------------------------------------------
(* The reader loop and its thread                                          *)

\* The executor's thread picks the read up and blocks in readline.
ReadStarts ==
  /\ ~killed /\ read = "queued"
  /\ read' = "reading"
  /\ UNCHANGED <<count, task, futures, pending, client, fetched, orphan, holder, main,
                 stdout, stdin, supervisorVars>>

\* A line arrives.  A read left behind by a stopped client takes it first, and
\* nobody gets it.
ReadReturns ==
  /\ ~killed /\ stdin # << >>
  /\ \/ /\ orphan
        /\ orphan' = FALSE
        /\ UNCHANGED <<read, fetched>>
     \/ /\ read = "reading"
        /\ read' = "fetched" /\ fetched' = Head(stdin).id
        /\ UNCHANGED orphan
  /\ stdin' = Tail(stdin)
  /\ UNCHANGED <<count, task, futures, pending, client, holder, main, stdout,
                 supervisorVars>>

\* A slip: the entry is taken out and its future forgotten.
DeliverForgets(i) ==
  /\ pending' = pending \ {i}
  /\ read' = "queued"
  /\ UNCHANGED <<futures, client>>

\* The future of call i gets its answer.
Deliver(i) ==
  /\ futures' = [futures EXCEPT ![i] = "result"]
  /\ pending' = pending \ {i}
  /\ read' = "queued"
  /\ UNCHANGED client

\* A slip: the loop ends without telling anyone.
PoisonsQuietly ==
  /\ client' = "poisoned" /\ read' = "none"
  /\ UNCHANGED <<futures, pending>>

\* The exception goes to every open future, and the loop ends.
Poisons ==
  /\ futures' = [i \in DOMAIN futures |->
                   IF i \in pending /\ futures[i] = "open" THEN "error" ELSE futures[i]]
  /\ client' = "poisoned" /\ read' = "none"
  /\ UNCHANGED pending

\* The reader loop looks at the answer.  A future that was cancelled in the
\* meantime refuses it; an answer nobody registered for is dropped.
LoopHandles ==
  /\ LoopFree /\ read = "fetched"
  /\ IF fetched \notin pending
       THEN read' = "queued" /\ UNCHANGED <<futures, pending, client>>
       ELSE IF futures[fetched] = "open" THEN Deliver(fetched) ELSE Poisons
  /\ fetched' = NoId
  /\ UNCHANGED <<count, task, orphan, holder, main, stdout, stdin, supervisorVars>>

-----------------------------------------------------------------------------
(* The end of the client, and the blocking call                            *)

\* AsyncRpcClient.stop: the reader loop is cancelled; a read that has not
\* started is dropped, one that has not been looked at is lost, and one that is
\* running goes on.
ClientStops ==
  /\ LoopFree /\ \A t \in Tasks : TaskEnded(t)
  /\ client' = "stopped"
  /\ orphan' = (read = "reading")
  /\ read' = "none" /\ fetched' = NoId
  /\ main' = "calling"
  /\ UNCHANGED <<count, task, futures, pending, holder, stdout, stdin,
                 supervisorVars>>

\* call(): the same counter, a write, then a read of stdin in a loop.
MainCalls ==
  /\ ~killed /\ main = "calling"
  /\ Len(stdout) < PipeCap
  /\ count' = NextCallId
  /\ stdout' = Append(stdout, Call(count'))
  /\ main' = "waiting"
  /\ UNCHANGED <<task, futures, pending, client, read, fetched, orphan, holder,
                 stdin, supervisorVars>>

\* The result of another call is an error; its own is returned.
MainReturns ==
  /\ ~killed /\ main = "waiting" /\ ~orphan
  /\ stdin # << >>
  /\ stdin' = Tail(stdin)
  /\ IF Head(stdin).id = count
       THEN main' = "returned"
       ELSE main' = "failed"
  /\ UNCHANGED <<count, task, futures, pending, client, read, fetched, orphan, holder,
                 stdout, supervisorVars>>

-----------------------------------------------------------------------------
(* The supervisor                                                          *)

\* _pump: the reader thread empties the program's stdout at any time.
Pumps ==
  /\ ~killed /\ stdout # << >>
  /\ queue' = Append(queue, Head(stdout))
  /\ stdout' = Tail(stdout)
  /\ UNCHANGED <<programVars, stdin, serving, stream, killed>>

\* The next call is validated and its tool runs; a call that is rejected ends
\* the run and the program.
Takes ==
  /\ ~killed /\ serving = NoId /\ queue # << >>
  /\ queue' = Tail(queue)
  /\ IF Accepts(stream, Head(queue))
       THEN /\ stream' = Record(stream, Head(queue))
            /\ serving' = Head(queue).id
            /\ UNCHANGED killed
       ELSE killed' = TRUE /\ UNCHANGED <<stream, serving>>
  /\ UNCHANGED <<programVars, stdout, stdin>>

Answers ==
  /\ ~killed /\ serving # NoId
  /\ Len(stdin) < PipeCap
  /\ stdin' = Append(stdin, Result(serving))
  /\ stream' = Record(stream, Result(serving))
  /\ serving' = NoId
  /\ UNCHANGED <<programVars, stdout, queue, killed>>

\* The global timeout, or an error of another kind.
Kills ==
  /\ ~killed
  /\ killed' = TRUE
  /\ UNCHANGED <<programVars, stdout, stdin, queue, serving, stream>>

-----------------------------------------------------------------------------

RpcInit ==
  /\ count = 0
  /\ task = [t \in Tasks |-> [at |-> "ready", id |-> NoId]]
  /\ futures = << >> /\ pending = {}
  /\ client = "running" /\ read = "queued" /\ fetched = NoId /\ orphan = FALSE
  /\ holder = Nobody /\ main = "tasks"
  /\ stdout = << >> /\ stdin = << >> /\ queue = << >>
  /\ serving = NoId /\ stream = NewValidator /\ killed = FALSE

TaskStep(t) == CallStarts(t) \/ CallWritten(t) \/ TaskResumes(t)
Client == ReadStarts \/ ReadReturns \/ LoopHandles
Main == ClientStops \/ MainCalls \/ MainReturns
Supervisor == Pumps \/ Takes \/ Answers

RpcOver == (killed \/ main \in {"returned", "failed"}) /\ UNCHANGED rpcVars

RpcNext ==
  \/ \E t \in Tasks : TaskStep(t) \/ TaskCancelled(t)
  \/ Client \/ Main \/ Supervisor \/ Kills
  \/ RpcOver

RpcSpec == RpcInit /\ [][RpcNext]_rpcVars

\* The event loop, the executor's thread and the two processes run; nothing
\* makes anyone cancel a task or kill the program.
FairRpcSpec ==
  /\ RpcSpec
  /\ \A t \in Tasks : WF_rpcVars(TaskStep(t))
  /\ WF_rpcVars(Client) /\ WF_rpcVars(Main)
  /\ WF_rpcVars(Pumps) /\ WF_rpcVars(Takes) /\ WF_rpcVars(Answers)

-----------------------------------------------------------------------------
(* Properties                                                              *)

\* The ids under way: of the calls the supervisor has not taken, up to the one that is
\* being written, and in front of them of the answers, from the one looked at next.
Only(i) == IF i = NoId THEN << >> ELSE <<i>>
IdsOf(frames) == [k \in DOMAIN frames |-> frames[k].id]
Writing == IF holder = Nobody THEN << >> ELSE <<task[holder].id>>
Untaken == IdsOf(queue) \o IdsOf(stdout) \o Writing
UnderWay == Only(fetched) \o IdsOf(stdin) \o Only(serving) \o Untaken

\* Calls go out and answers come back in one order, none twice; and while the
\* reader loop runs, the call or the answer of every future that is waited for
\* is somewhere under way: through two pipes, a queue, a thread and an event
\* loop no answer gets lost.
RoundTrip ==
  /\ \A j, k \in DOMAIN UnderWay : j < k => UnderWay[j] < UnderWay[k]
  /\ client = "running" =>
       \A i \in DOMAIN futures :
         futures[i] = "open" => \E k \in DOMAIN UnderWay : UnderWay[k] = i

\* However the tasks' calls interleave, and when a blocking call follows them,
\* the supervisor accepts each call in turn: the program's own helpers never
\* make the run fatal.
CallsAccepted ==
  serving = NoId /\ queue # << >> => Accepts(stream, Head(queue))

\* When a late answer ends the reader loop, no task is left waiting for a
\* future that nobody will ever complete.
PoisonWakesWaiters ==
  [][client' = "poisoned" /\ client # "poisoned" =>
       \A i \in DOMAIN futures' : futures'[i] # "open"]_rpcVars

\* The blocking call waits for an answer that is not under way any more.
Starved == main = "waiting" /\ \A k \in DOMAIN UnderWay : UnderWay[k] # count

\* Neither a full pipe on either side nor the order of the answers keeps a call from
\* coming to its end, a cancelled one's neighbours included; and without a cancellation
\* all return.  What may stop them is the supervisor's timeout, the read a stopped client
\* leaves behind, and a reader loop that a late answer has ended: a call made after that
\* waits for ever.
EveryCallReturns ==
  <>(\/ killed \/ Starved \/ client = "poisoned"
     \/ /\ main \in {"returned", "failed"} /\ \A t \in Tasks : TaskEnded(t)
        /\ (\A t \in Tasks : task[t].at # "cancelled") =>
             main = "returned" /\ \A t \in Tasks : task[t].at = "returned")
=============================================================================
