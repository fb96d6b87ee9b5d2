------------------------------ MODULE EvalShard ------------------------------
(***************************************************************************)
(* The evaluation runner (pirml/eval_runner/, eval.py) and the report over *)
(* its rows (report.py, reporting.py).  A runner judges the tasks of its   *)
(* shard one after the other and appends a row for each to the shard's     *)
(* NDJSON file; started again, it resumes from what the file says.  The    *)
(* report merges the files of all shards.  Nothing is locked: runners,     *)
(* their successors after a crash and the report meet in the files only.   *)
(*                                                                         *)
(* Abstracted: a row keeps what resumption and report look at; the answer  *)
(* of a task is its kind.  The dataset does not change.                    *)
(***************************************************************************)
EXTENDS Naturals, Sequences, SequencesExt, FiniteSets

CONSTANTS
  Runners,        \* runner processes
  Dataset,        \* the tasks, sorted by id
  Kind,           \* each task: what the stub runner finds out about it
  Shard,          \* for a number of shards, the shard of each task (sha1)
  Configs,        \* the configurations runners are started with
  MaxRows,        \* bound: rows in a shard's file
  MaxStarts,      \* bound: runners started
  MaxCrashes      \* bound: runners that die

Tasks == ToSet(Dataset)
Tags == {"", "TIMEOUT", "CTX_BLOAT", "OUTPUT_INVALID", "REPLAY_MISMATCH"}
Shards == {c.shard : c \in Configs}

ASSUME EvalAssumption ==
  /\ Dataset \in Seq(Tasks) /\ IsInjective(Dataset)
  /\ Kind \in [Tasks -> {"match", "differs", "slow", "long"}]
  /\ \A c \in Configs :
        /\ c.jobs \in Nat /\ c.shards \in Nat \ {0} /\ c.shard \in Nat
        /\ c.shards \in DOMAIN Shard /\ Shard[c.shards] \in [Tasks -> 0..(c.shards - 1)]
        /\ c.brief \in BOOLEAN /\ c.tight \in BOOLEAN /\ c.forced \subseteq Tasks
  /\ MaxRows \in Nat /\ MaxStarts \in Nat /\ MaxCrashes \in Nat

VARIABLES
  files,          \* each shard: the lines of its file
  stubs,          \* each shard and task: the number in its trace stub, 0 if none
  run,            \* each runner: where it is
  report,         \* the report process
  out,            \* the files the report writes: pointers, report, pareto
  starts, crashes,\* counters for the bounds
  faulty          \* history: shards with a torn row or with two runners at once

vars == <<files, stubs, run, report, out, starts, crashes, faulty>>

-----------------------------------------------------------------------------
(* The shard file                                                          *)

\* The write of a row may be cut: nothing of it is there, part of it, all but
\* its newline, or all.
Cuts == {"nothing", "part", "line", "all"}

\* A line that lacks its newline is continued by the next row.
Appended(lines, row, cut) ==
  LET ended == cut = "all"
      joins == lines # << >> /\ ~Last(lines).ended
  IN CASE cut = "nothing" -> lines
       [] cut # "nothing" /\ joins ->
            Append(Front(lines), [Last(lines) EXCEPT !.whole = FALSE, !.ended = ended])
       [] OTHER -> Append(lines, [row EXCEPT !.whole = cut # "part", !.ended = ended])

\* A slip: a task that failed is not done yet.
TerminalOk(row) == row.terminal /\ row.tag = ""

NextSeq(lines) == Len(lines) + 1
Terminal(row) == row.terminal

Verdicts(lines) == {i \in DOMAIN lines : lines[i].whole /\ lines[i].terminal}
Once(lines) ==
  \A i, j \in Verdicts(lines) : lines[i].task = lines[j].task => i = j

\* _load_existing takes the file.
Loadable(lines) ==
  /\ \A i \in DOMAIN lines : lines[i].whole /\ lines[i].seq = i
  /\ Once(lines)
Judged(lines) ==
  {lines[i].task : i \in {k \in DOMAIN lines : lines[k].whole /\ Terminal(lines[k])}}

-----------------------------------------------------------------------------
(* One task                                                                *)

\* The tag of a task, "" when it is ok.
Evaluate(t, cfg) ==
  CASE Kind[t] = "slow" \/ cfg.brief -> "TIMEOUT"
    [] Kind[t] = "long" /\ cfg.tight -> "CTX_BLOAT"
    [] Kind[t] = "differs" -> "OUTPUT_INVALID"
    [] OTHER -> ""

\* check_task_replay: evaluated again under the same configuration the task gives
\* the same, so only PIRML_REPLAY_FORCE_MISMATCH makes a mismatch.
ReplayMatches(t, cfg) == t \notin cfg.forced

Row(n, t, terminal, tag, ptr) ==
  [seq |-> n, task |-> t, terminal |-> terminal, tag |-> tag, ptr |-> ptr,
   whole |-> TRUE, ended |-> TRUE]

\* Slips: the pointer keeps the tag of the first evaluation; a mismatch is tried again.
TaskRowStalePointer(n, t, cfg) ==
  Row(n, t, TRUE, IF ReplayMatches(t, cfg) THEN Evaluate(t, cfg) ELSE "REPLAY_MISMATCH",
      Evaluate(t, cfg))
TaskRowUnsettled(n, t, cfg) ==
  LET tag == IF ReplayMatches(t, cfg) THEN Evaluate(t, cfg) ELSE "REPLAY_MISMATCH"
  IN Row(n, t, ReplayMatches(t, cfg), tag, tag)

\* A mismatch replaces tag and pointer.
TaskRow(n, t, cfg) ==
  LET tag == IF ReplayMatches(t, cfg) THEN Evaluate(t, cfg) ELSE "REPLAY_MISMATCH"
  IN Row(n, t, TRUE, tag, tag)

SkipRow(n, t) == Row(n, t, FALSE, "", "")

-----------------------------------------------------------------------------
(* The runner                                                              *)

NoRow == Row(0, Dataset[1], FALSE, "", "")
Quiet == [at |-> "idle", shard |-> 0, cfg |-> CHOOSE c \in Configs : TRUE, seq |-> 0,
          judged |-> {}, todo |-> {}, row |-> NoRow]
Running(r) == run[r].at # "idle"

Accepted(c) == c.jobs = 1 /\ c.shard < c.shards

\* The places of a shard's tasks in the dataset; of those left the first is at hand.
Mine(c) == {i \in DOMAIN Dataset : Shard[c.shards][Dataset[i]] = c.shard}
AtHand(r) == Dataset[Min(run[r].todo)]

\* The file is read once, before the dataset; a file that is not as it should be
\* ends the runner with "integrity".
Starts(r, c) ==
  /\ ~Running(r) /\ starts < MaxStarts
  /\ starts' = starts + 1
  /\ IF Accepted(c) /\ Loadable(files[c.shard])
       THEN /\ run' = [run EXCEPT ![r] =
                 [Quiet EXCEPT !.at = "loop", !.shard = c.shard, !.cfg = c,
                  !.seq = NextSeq(files[c.shard]), !.judged = Judged(files[c.shard]),
                  !.todo = Mine(c)]]
            /\ faulty' = faulty \cup
                 {s \in {c.shard} : \E q \in Runners : Running(q) /\ run[q].shard = s}
       ELSE UNCHANGED <<run, faulty>>
  /\ UNCHANGED <<files, stubs, report, out, crashes>>

\* The row the runner appends next: of a task found judged, or of the task at hand.
Skipping(r) ==
  run[r].at = "loop" /\ run[r].todo # {} /\ AtHand(r) \in run[r].judged
Pending(r) ==
  IF Skipping(r) THEN SkipRow(run[r].seq, AtHand(r)) ELSE run[r].row

\* The append that finishes the task at hand.
Settles(r) ==
  /\ Len(files[run[r].shard]) < MaxRows
  /\ files' = [files EXCEPT ![run[r].shard] = Appended(@, Pending(r), "all")]
  /\ run' = [run EXCEPT ![r] =
             [@ EXCEPT !.at = "loop", !.seq = run[r].seq + 1,
                       !.todo = run[r].todo \ {Min(run[r].todo)},
                       !.judged = run[r].judged \cup {Pending(r).task}]]
  /\ UNCHANGED <<stubs, report, out, starts, crashes, faulty>>

Skips(r) == Skipping(r) /\ Settles(r)

\* The task is evaluated and its trace stub written, then its row appended.
Judges(r) ==
  /\ run[r].at = "loop" /\ run[r].todo # {} /\ ~Skipping(r)
  /\ LET t == AtHand(r) IN
       /\ stubs' = [stubs EXCEPT ![run[r].shard] = [@ EXCEPT ![t] = run[r].seq]]
       /\ run' = [run EXCEPT ![r] =
                   [@ EXCEPT !.at = "append", !.row = TaskRow(run[r].seq, t, run[r].cfg)]]
  /\ UNCHANGED <<files, report, out, starts, crashes, faulty>>

Appends(r) == run[r].at = "append" /\ Settles(r)

Finishes(r) ==
  /\ run[r].at = "loop" /\ run[r].todo = {}
  /\ run' = [run EXCEPT ![r] = Quiet]
  /\ UNCHANGED <<files, stubs, report, out, starts, crashes, faulty>>

\* The runner dies, maybe in the middle of a row.
Dies(r) ==
  /\ Running(r) /\ crashes < MaxCrashes
  /\ crashes' = crashes + 1
  /\ run' = [run EXCEPT ![r] = Quiet]
  /\ LET f == run[r].shard IN
       \E cut \in Cuts \ {"all"} :
         /\ cut # "nothing" =>
              (run[r].at = "append" \/ Skipping(r)) /\ Len(files[f]) < MaxRows
         /\ files' = [files EXCEPT ![f] = Appended(@, Pending(r), cut)]
         /\ faulty' = faulty \cup {s \in {f} : cut # "nothing"}
  /\ UNCHANGED <<stubs, report, out, starts>>

-----------------------------------------------------------------------------
(* The report                                                              *)

NoReport == [at |-> "idle", rows |-> {}]

\* Of all files; a verdict remembers where it stands.
AllVerdicts ==
  UNION {{[shard |-> s, line |-> i, row |-> files[s][i]] : i \in Verdicts(files[s])}
         : s \in Shards}

\* merge_rows and _terminal_rows take what is there.
Reportable ==
  /\ \A s \in Shards : \A i \in DOMAIN files[s] : files[s][i].whole
  /\ AllVerdicts # {}
  /\ \A v, w \in AllVerdicts : v.row.task = w.row.task => v = w

Reports ==
  /\ report.at = "idle" /\ Reportable
  /\ report' = [at |-> "pointers", rows |-> AllVerdicts]
  /\ UNCHANGED <<files, stubs, run, out, starts, crashes, faulty>>

NextFile(f) == CASE f = "pointers" -> "report" [] f = "report" -> "pareto"
                 [] f = "pareto" -> "check"

\* aggregate_report: how many verdicts there are, and how many failed with which tag.
Failures(rows) == [tag \in Tags \ {""} |-> Cardinality({v \in rows : v.row.tag = tag})]
Written(f, rows) ==
  CASE f = "pointers" -> rows
    [] f = "report" -> [total |-> Cardinality(rows), failed |-> Failures(rows)]
    [] f = "pareto" -> Failures(rows)

\* The three files are written one after the other.
ReportWrites ==
  /\ report.at \in DOMAIN out
  /\ out' = [out EXCEPT ![report.at] = Written(report.at, report.rows)]
  /\ report' = [report EXCEPT !.at = NextFile(@)]
  /\ UNCHANGED <<files, stubs, run, starts, crashes, faulty>>

\* validate_eval_pointer_refs looks up the trace of every row; whether it is
\* there or not, or a threshold is missed, the files stay written.
ReportChecks ==
  /\ report.at = "check"
  /\ report' = NoReport
  /\ UNCHANGED <<files, stubs, run, out, starts, crashes, faulty>>

ReportDies ==
  /\ report.at # "idle" /\ crashes < MaxCrashes
  /\ crashes' = crashes + 1
  /\ report' = NoReport
  /\ UNCHANGED <<files, stubs, run, out, starts, faulty>>

Init ==
  /\ files = [s \in Shards |-> << >>]
  /\ stubs = [s \in Shards |-> [t \in Tasks |-> 0]]
  /\ run = [r \in Runners |-> Quiet]
  /\ report = NoReport
  /\ out = [f \in {"pointers", "report", "pareto"} |-> Written(f, {})]
  /\ starts = 0 /\ crashes = 0 /\ faulty = {}

Runner(r) ==
  \/ \E c \in Configs : Starts(r, c)
  \/ Skips(r) \/ Judges(r) \/ Appends(r) \/ Finishes(r) \/ Dies(r)

Next ==
  \/ \E r \in Runners : Runner(r)
  \/ Reports \/ ReportWrites \/ ReportChecks \/ ReportDies

Spec == Init /\ [][Next]_vars

-----------------------------------------------------------------------------
(* Properties                                                              *)

\* A shard whose rows were written whole and by one runner at a time can be
\* resumed for ever: whatever configurations, interruptions between rows and
\* resumptions follow each other, its numbers have no gap and no task of it has
\* two verdicts (_load_existing never raises).
ShardResumable == \A s \in Shards \ faulty : Loadable(files[s])

\* A runner that comes to its end has left a verdict for every task of its
\* shard, whether it judged the task itself or found it judged.
FinishedMeansJudged ==
  [][\A r \in Runners : Finishes(r) /\ run[r].shard \notin faulty =>
       {Dataset[i] : i \in Mine(run[r].cfg)} \subseteq Judged(files[run[r].shard])]_vars

\* Whatever was ever published stays true: a verdict a pointer leads to is still
\* in the shard's file, with the tag its pointer tells, and the trace it leads to
\* is the trace of that very row; and unless the report died between its files,
\* the numbers of the report and of the pareto are those of the verdicts listed.
PublishedStands ==
  /\ \A v \in out.pointers : v.shard \notin faulty =>
        /\ files[v.shard][v.line] = v.row
        /\ v.row.ptr = v.row.tag
        /\ stubs[v.shard][v.row.task] = v.row.seq
  /\ report.at = "idle" /\ crashes = 0 =>
        \A f \in DOMAIN out : out[f] = Written(f, out.pointers)
=============================================================================
