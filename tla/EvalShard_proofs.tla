--------------------------- MODULE EvalShard_proofs ---------------------------
(***************************************************************************)
(* Theorems about EvalShard, for every dataset, set of configurations,     *)
(* number of runners, of their starts and of their deaths.                 *)
(***************************************************************************)
EXTENDS EvalShard, SequenceTheorems, WellFoundedInduction, TLAPS

-----------------------------------------------------------------------------
(* Types                                                                   *)

LineType ==
  [seq : Nat, task : Tasks, terminal : BOOLEAN, tag : Tags, ptr : Tags, whole : BOOLEAN,
   ended : BOOLEAN]
RunType ==
  [at : {"idle", "loop", "append"}, shard : Nat, cfg : Configs \cup {Quiet.cfg}, seq : Nat,
   judged : SUBSET Tasks, todo : SUBSET (DOMAIN Dataset), row : LineType \cup {NoRow}]
VerdictType == [shard : Shards, line : Nat, row : LineType]
Outputs == {"pointers", "report", "pareto"}

\* A runner at work has a configuration and a shard; one that appends has a row for the
\* task at hand.
RunOK(r) ==
  /\ run[r] \in RunType
  /\ Running(r) => run[r].cfg \in Configs /\ run[r].shard = run[r].cfg.shard
  /\ run[r].at = "append" =>
       run[r].todo # {} /\ run[r].row = TaskRow(run[r].seq, AtHand(r), run[r].cfg)

Types ==
  /\ files \in [Shards -> Seq(LineType)]
  /\ stubs \in [Shards -> [Tasks -> Nat]]
  /\ DOMAIN run = Runners /\ \A r \in Runners : RunOK(r)
  /\ report \in [at : {"idle", "check"} \cup Outputs, rows : SUBSET VerdictType]
  /\ DOMAIN out = Outputs
  /\ starts \in Nat /\ crashes \in Nat

\* Of the places that are left one is the first.
LEMMA Least ==
  ASSUME NEW T, T \subseteq Nat, T # {}
  PROVE  Min(T) \in T /\ \A y \in T : Min(T) <= y
  <1>. DEFINE R == {p \in Nat \X Nat : p[1] < p[2]}
  <1>1. IsWellFoundedOn(R, Nat)
    BY NatLessThanWellFounded, Zenon DEF OpToRel
  <1>. HIDE DEF R
  <1>2. PICK x \in T : \A y \in T : <<y, x>> \notin R
    BY <1>1, WFMin
  <1>3. \A y \in T : ~(y < x)
    BY <1>2 DEF R
  <1>4. \A y \in T : x <= y
    BY <1>3
  <1>. QED
    BY <1>4, Zenon DEF Min

LEMMA Places == DOMAIN Dataset \subseteq Nat /\ \A i \in DOMAIN Dataset : Dataset[i] \in Tasks
  BY EvalAssumption

LEMMA HandType ==
  ASSUME NEW r, run[r].todo \subseteq DOMAIN Dataset, run[r].todo # {}
  PROVE  Min(run[r].todo) \in run[r].todo /\ AtHand(r) \in Tasks
  BY Least, Places DEF AtHand

LEMMA RowTypes ==
  ASSUME NEW n \in Nat, NEW t \in Tasks
  PROVE  /\ SkipRow(n, t) \in LineType
         /\ \A c \in Configs : TaskRow(n, t, c) \in LineType
  <1>1. "" \in Tags
    BY DEF Tags
  <1>2. ASSUME NEW c \in Configs
        PROVE  TaskRow(n, t, c) \in LineType
    <2>1. Evaluate(t, c) \in Tags
      BY DEF Evaluate, Tags
    <2>2. PICK tag \in Tags : TaskRow(n, t, c) = Row(n, t, TRUE, tag, tag)
      BY <2>1 DEF TaskRow, Tags
    <2>. QED
      BY <2>2 DEF Row, LineType
  <1>. QED
    BY <1>1, <1>2 DEF SkipRow, Row, LineType

\* What a write, whole or cut, makes of a file.
LEMMA AppendedType ==
  ASSUME NEW lines \in Seq(LineType), NEW row \in LineType, NEW cut \in Cuts
  PROVE  /\ Appended(lines, row, cut) \in Seq(LineType)
         /\ cut = "nothing" => Appended(lines, row, cut) = lines
         /\ (\A i \in DOMAIN lines : lines[i].ended) /\ cut = "all" =>
              Appended(lines, row, cut) = Append(lines, [row EXCEPT !.whole = TRUE, !.ended = TRUE])
  <1>. DEFINE joins == lines # << >> /\ ~Last(lines).ended
              ended == cut = "all"
  <1>1. CASE cut = "nothing"
    BY <1>1 DEF Appended
  <1>2. CASE cut # "nothing" /\ joins
    <2>1. Len(lines) \in 1..Len(lines) /\ Last(lines) = lines[Len(lines)]
      BY <1>2, LenProperties, EmptySeq DEF Last
    <2>2. Last(lines) \in LineType /\ ~(\A i \in DOMAIN lines : lines[i].ended)
      BY <1>2, <2>1, ElementOfSeq, LenProperties
    <2>3. Front(lines) \in Seq(LineType)
      BY SubSeqProperties, LenProperties DEF Front
    <2>4. [Last(lines) EXCEPT !.whole = FALSE, !.ended = ended] \in LineType
      BY <2>2 DEF LineType
    <2>5. Appended(lines, row, cut) =
            Append(Front(lines), [Last(lines) EXCEPT !.whole = FALSE, !.ended = ended])
      BY <1>2 DEF Appended
    <2>6. Appended(lines, row, cut) \in Seq(LineType)
      BY <2>3, <2>4, <2>5, AppendProperties
    <2>. QED
      BY <2>2, <2>6, <1>2
  <1>3. CASE cut # "nothing" /\ ~joins
    <2>1. Appended(lines, row, cut) = Append(lines, [row EXCEPT !.whole = cut # "part", !.ended = ended])
      BY <1>3 DEF Appended
    <2>2. [row EXCEPT !.whole = cut # "part", !.ended = ended] \in LineType
      BY DEF LineType
    <2>3. Appended(lines, row, cut) \in Seq(LineType)
      BY <2>1, <2>2, AppendProperties
    <2>4. cut = "all" => [row EXCEPT !.whole = cut # "part", !.ended = ended]
                           = [row EXCEPT !.whole = TRUE, !.ended = TRUE]
      OBVIOUS
    <2>. QED
      BY <1>3, <2>1, <2>3, <2>4
  <1>. QED
    BY <1>1, <1>2, <1>3

LEMMA QuietType == Quiet \in RunType /\ Quiet.at = "idle"
  <1>. DEFINE cfg == CHOOSE c \in Configs : TRUE
  <1>1. PICK n \in Nat : n = 0
    OBVIOUS
  <1>2. Quiet = [at |-> "idle", shard |-> n, cfg |-> cfg, seq |-> n, judged |-> {}, todo |-> {},
                 row |-> NoRow]
    BY <1>1 DEF Quiet
  <1>3. Quiet.cfg = cfg
    BY <1>2
  <1>. HIDE DEF cfg
  <1>. QED
    BY <1>2, <1>3 DEF RunType

\* The row a runner at work appends next.
LEMMA PendingType ==
  ASSUME NEW r, RunOK(r), run[r].at = "append" \/ Skipping(r)
  PROVE  Pending(r) \in LineType /\ Pending(r).task = AtHand(r) /\ run[r].todo # {}
  <1>1. run[r].todo # {} /\ run[r].seq \in Nat /\ run[r].todo \subseteq DOMAIN Dataset
    BY DEF RunOK, RunType, Skipping
  <1>2. AtHand(r) \in Tasks
    BY <1>1, HandType
  <1>3. CASE Skipping(r)
    <2>1. Pending(r) = SkipRow(run[r].seq, AtHand(r))
      BY <1>3 DEF Pending
    <2>2. SkipRow(run[r].seq, AtHand(r)).task = AtHand(r)
      BY DEF SkipRow, Row
    <2>. QED
      BY <1>1, <1>2, <2>1, <2>2, RowTypes
  <1>4. CASE ~Skipping(r)
    <2>1. Pending(r) = TaskRow(run[r].seq, AtHand(r), run[r].cfg) /\ run[r].cfg \in Configs
      BY <1>4 DEF Pending, RunOK, Running
    <2>2. TaskRow(run[r].seq, AtHand(r), run[r].cfg).task = AtHand(r)
      BY DEF TaskRow, Row
    <2>. QED
      BY <1>1, <1>2, <2>1, <2>2, RowTypes
  <1>. QED
    BY <1>3, <1>4

LEMMA TypesInit == Init => Types
  <1>. SUFFICES ASSUME Init PROVE Types
    OBVIOUS
  <1>1. PICK n \in Nat : n = 0
    OBVIOUS
  <1>2. files \in [Shards -> Seq(LineType)]
    BY EmptySeq DEF Init
  <1>3. stubs \in [Shards -> [Tasks -> Nat]]
    BY DEF Init
  <1>4. DOMAIN run = Runners /\ \A r \in Runners : RunOK(r)
    BY QuietType DEF Init, RunOK, Running
  <1>5. report \in [at : {"idle", "check"} \cup Outputs, rows : SUBSET VerdictType]
    BY DEF Init, NoReport
  <1>. QED
    BY <1>2, <1>3, <1>4, <1>5 DEF Init, Types, Outputs

LEMMA StartsType ==
  ASSUME Types, NEW r \in Runners, NEW c \in Configs, Starts(r, c)
  PROVE  Types'
  <1>1. CASE UNCHANGED run
    BY <1>1 DEF Starts, Types, RunOK, Running, AtHand
  <1>2. CASE Accepted(c) /\ Loadable(files[c.shard])
    <2>. DEFINE s == c.shard
                begun == [Quiet EXCEPT !.at = "loop", !.shard = s, !.cfg = c,
                            !.seq = NextSeq(files[s]), !.judged = Judged(files[s]),
                            !.todo = Mine(c)]
    <2>1. run' = [run EXCEPT ![r] = begun]
      BY <1>2 DEF Starts
    <2>2. s \in Shards /\ s \in Nat /\ files[s] \in Seq(LineType)
      BY EvalAssumption DEF Shards, Types
    <2>3. NextSeq(files[s]) \in Nat
      BY <2>2, LenProperties DEF NextSeq
    <2>4. Judged(files[s]) \subseteq Tasks
      <3>1. \A i \in DOMAIN files[s] : files[s][i] \in LineType
        BY <2>2, LenProperties, ElementOfSeq
      <3>2. \A i \in DOMAIN files[s] : files[s][i].task \in Tasks
        BY <3>1 DEF LineType
      <3>. QED
        BY <3>2 DEF Judged
    <2>5. Mine(c) \subseteq DOMAIN Dataset
      BY DEF Mine
    <2>6. begun \in RunType /\ begun.at = "loop" /\ begun.cfg = c /\ begun.shard = s
      BY <2>2, <2>3, <2>4, <2>5, QuietType DEF RunType
    <2>. HIDE DEF begun
    <2>7. run'[r] = begun /\ DOMAIN run' = Runners /\ \A q \in Runners : q # r => run'[q] = run[q]
      BY <2>1 DEF Types
    <2>8. RunOK(r)'
      BY <2>6, <2>7 DEF RunOK, Running
    <2>9. ASSUME NEW q \in Runners, q # r
          PROVE  RunOK(q)'
      BY <2>7, <2>9 DEF Types, RunOK, Running, AtHand
    <2>. QED
      BY <2>7, <2>8, <2>9 DEF Starts, Types
  <1>. QED
    BY <1>1, <1>2 DEF Starts

\* What an append that succeeds does.
LEMMA SettlesEffect ==
  ASSUME Types, NEW r \in Runners, Settles(r), run[r].at = "append" \/ Skipping(r)
  PROVE  LET s == run[r].shard IN
         /\ s \in Shards /\ files[s] \in Seq(LineType) /\ Pending(r) \in LineType
         /\ files' = [files EXCEPT ![s] = Appended(files[s], Pending(r), "all")]
         /\ run'[r] \in RunType /\ run'[r].at = "loop"
         /\ run'[r].cfg = run[r].cfg /\ run'[r].shard = s /\ run'[r].seq = run[r].seq + 1
         /\ run'[r].judged = run[r].judged \cup {AtHand(r)}
         /\ run'[r].todo = run[r].todo \ {Min(run[r].todo)}
         /\ DOMAIN run' = Runners /\ \A q \in Runners : q # r => run'[q] = run[q]
  <1>1. RunOK(r) /\ Running(r) /\ DOMAIN run = Runners
    BY DEF Types, Running, Skipping
  <1>2. Pending(r) \in LineType /\ Pending(r).task = AtHand(r) /\ AtHand(r) \in Tasks
    BY <1>1, PendingType DEF LineType
  <1>3. run[r].shard \in Shards
    BY <1>1 DEF RunOK, Shards
  <1>. DEFINE x == [run[r] EXCEPT !.at = "loop", !.seq = run[r].seq + 1,
                      !.todo = run[r].todo \ {Min(run[r].todo)},
                      !.judged = run[r].judged \cup {Pending(r).task}]
  <1>4. run' = [run EXCEPT ![r] = x]
    BY DEF Settles
  <1>5. run[r].seq + 1 \in Nat
    BY <1>1 DEF RunOK, RunType
  <1>6. /\ x \in RunType /\ x.at = "loop" /\ x.cfg = run[r].cfg /\ x.shard = run[r].shard
        /\ x.seq = run[r].seq + 1 /\ x.todo = run[r].todo \ {Min(run[r].todo)}
        /\ x.judged = run[r].judged \cup {AtHand(r)}
    BY <1>1, <1>2, <1>5 DEF RunOK, RunType
  <1>. HIDE DEF x
  <1>7. run'[r] = x /\ DOMAIN run' = Runners /\ \A q \in Runners : q # r => run'[q] = run[q]
    BY <1>1, <1>4
  <1>8. files' = [files EXCEPT ![run[r].shard] = Appended(files[run[r].shard], Pending(r), "all")]
    BY DEF Settles
  <1>. QED
    BY <1>2, <1>3, <1>6, <1>7, <1>8 DEF Types

LEMMA SettlesType ==
  ASSUME Types, NEW r \in Runners, Settles(r), run[r].at = "append" \/ Skipping(r)
  PROVE  Types'
  <1>. DEFINE s == run[r].shard
  <1>1. files' \in [Shards -> Seq(LineType)]
    <2>1. Appended(files[s], Pending(r), "all") \in Seq(LineType)
      BY SettlesEffect, AppendedType DEF Cuts
    <2>2. files' = [files EXCEPT ![s] = Appended(files[s], Pending(r), "all")] /\ s \in Shards
      BY SettlesEffect
    <2>. QED
      BY <2>1, <2>2 DEF Types
  <1>2. RunOK(r)'
    <2>1. RunOK(r) /\ Running(r)
      BY DEF Types, Running, Skipping
    <2>. QED
      BY <2>1, SettlesEffect DEF RunOK, Running
  <1>3. ASSUME NEW q \in Runners, q # r
        PROVE  RunOK(q)'
    BY <1>3, SettlesEffect DEF Types, RunOK, Running, AtHand
  <1>. QED
    BY <1>1, <1>2, <1>3, SettlesEffect DEF Settles, Types

\* What judging a task does.
LEMMA JudgesEffect ==
  ASSUME Types, NEW r \in Runners, Judges(r)
  PROVE  LET s == run[r].shard IN
         /\ s \in Shards /\ AtHand(r) \in Tasks /\ run[r].at = "loop" /\ run[r].todo # {}
         /\ AtHand(r) \notin run[r].judged
         /\ stubs' = [stubs EXCEPT ![s] = [stubs[s] EXCEPT ![AtHand(r)] = run[r].seq]]
         /\ run'[r] \in RunType /\ run'[r].at = "append"
         /\ run'[r].cfg = run[r].cfg /\ run'[r].shard = s /\ run'[r].seq = run[r].seq
         /\ run'[r].judged = run[r].judged /\ run'[r].todo = run[r].todo
         /\ run'[r].row = TaskRow(run[r].seq, AtHand(r), run[r].cfg)
         /\ DOMAIN run' = Runners /\ \A q \in Runners : q # r => run'[q] = run[q]
  <1>1. RunOK(r) /\ Running(r) /\ DOMAIN run = Runners
    BY DEF Types, Running, Judges
  <1>2. AtHand(r) \in Tasks
    BY <1>1, HandType DEF Judges, RunOK, RunType
  <1>3. run[r].shard \in Shards
    BY <1>1 DEF RunOK, Shards
  <1>. DEFINE row == TaskRow(run[r].seq, AtHand(r), run[r].cfg)
              x == [run[r] EXCEPT !.at = "append", !.row = row]
  <1>4. run' = [run EXCEPT ![r] = x]
    BY DEF Judges
  <1>5. row \in LineType
    BY <1>1, <1>2, RowTypes DEF RunOK, RunType
  <1>. HIDE DEF row
  <1>6. /\ x \in RunType /\ x.at = "append" /\ x.cfg = run[r].cfg /\ x.shard = run[r].shard
        /\ x.seq = run[r].seq /\ x.todo = run[r].todo /\ x.judged = run[r].judged /\ x.row = row
    BY <1>1, <1>5 DEF RunOK, RunType
  <1>. HIDE DEF x
  <1>7. run'[r] = x /\ DOMAIN run' = Runners /\ \A q \in Runners : q # r => run'[q] = run[q]
    BY <1>1, <1>4
  <1>8. AtHand(r) \notin run[r].judged
    BY DEF Judges, Skipping
  <1>. QED
    BY <1>2, <1>3, <1>6, <1>7, <1>8 DEF Judges, row

LEMMA JudgesType == ASSUME Types, NEW r \in Runners, Judges(r) PROVE Types'
  <1>. DEFINE s == run[r].shard
  <1>1. stubs' \in [Shards -> [Tasks -> Nat]]
    <2>1. run[r].seq \in Nat
      BY DEF Types, RunOK, RunType
    <2>2. /\ stubs' = [stubs EXCEPT ![s] = [stubs[s] EXCEPT ![AtHand(r)] = run[r].seq]]
          /\ s \in Shards /\ AtHand(r) \in Tasks
      BY JudgesEffect
    <2>3. [stubs[s] EXCEPT ![AtHand(r)] = run[r].seq] \in [Tasks -> Nat]
      BY <2>1, <2>2 DEF Types
    <2>. QED
      BY <2>2, <2>3 DEF Types
  <1>2. RunOK(r)'
    <2>1. RunOK(r) /\ Running(r)
      BY DEF Types, Running, Judges
    <2>2. AtHand(r)' = AtHand(r)
      BY JudgesEffect DEF AtHand
    <2>. QED
      BY <2>1, <2>2, JudgesEffect DEF RunOK, Running
  <1>3. ASSUME NEW q \in Runners, q # r
        PROVE  RunOK(q)'
    <2>1. run'[q] = run[q] /\ RunOK(q)
      <3>1. run'[q] = run[q]
        BY <1>3, JudgesEffect
      <3>. QED
        BY <3>1 DEF Types
    <2>. QED
      BY <2>1 DEF RunOK, Running, AtHand
  <1>. QED
    BY <1>1, <1>2, <1>3, JudgesEffect DEF Judges, Types

\* A runner that ends or dies.
LEMMA QuitsType ==
  ASSUME Types, NEW r \in Runners, run' = [run EXCEPT ![r] = Quiet]
  PROVE  /\ DOMAIN run' = Runners /\ run'[r].at = "idle"
         /\ \A q \in Runners : q # r => run'[q] = run[q]
         /\ \A q \in Runners : RunOK(q)'
  <1>1. DOMAIN run' = Runners /\ run'[r] = Quiet /\ \A q \in Runners : q # r => run'[q] = run[q]
    BY DEF Types
  <1>2. RunOK(r)'
    BY <1>1, QuietType DEF RunOK, Running
  <1>3. ASSUME NEW q \in Runners, q # r
        PROVE  RunOK(q)'
    BY <1>1, <1>3 DEF Types, RunOK, Running, AtHand
  <1>. QED
    BY <1>1, <1>2, <1>3, QuietType

LEMMA DiesType == ASSUME Types, NEW r \in Runners, Dies(r) PROVE Types'
  <1>. DEFINE s == run[r].shard
  <1>1. PICK cut \in Cuts \ {"all"} :
          /\ cut # "nothing" => run[r].at = "append" \/ Skipping(r)
          /\ files' = [files EXCEPT ![s] = Appended(files[s], Pending(r), cut)]
    BY DEF Dies
  <1>2. RunOK(r) /\ s \in Shards /\ files[s] \in Seq(LineType)
    BY DEF Dies, Types, RunOK, Shards
  <1>3. Appended(files[s], Pending(r), cut) \in Seq(LineType)
    <2>1. CASE cut = "nothing"
      BY <1>2, <2>1 DEF Appended
    <2>2. CASE cut # "nothing"
      BY <1>1, <1>2, <2>2, PendingType, AppendedType
    <2>. QED
      BY <2>1, <2>2
  <1>4. files' \in [Shards -> Seq(LineType)]
    BY <1>1, <1>2, <1>3 DEF Types
  <1>5. run' = [run EXCEPT ![r] = Quiet]
    BY DEF Dies
  <1>6. /\ DOMAIN run' = Runners /\ (\A q \in Runners : RunOK(q)')
        /\ UNCHANGED <<stubs, report, out, starts>> /\ crashes' = crashes + 1
    BY <1>5, QuitsType DEF Dies
  <1>. QED
    BY <1>4, <1>6 DEF Types

LEMMA VerdictTypes == ASSUME Types PROVE AllVerdicts \subseteq VerdictType
  <1>1. ASSUME NEW s \in Shards, NEW i \in Verdicts(files[s])
        PROVE  [shard |-> s, line |-> i, row |-> files[s][i]] \in VerdictType
    <2>1. files[s] \in Seq(LineType) /\ i \in DOMAIN files[s]
      BY DEF Types, Verdicts
    <2>2. i \in Nat /\ files[s][i] \in LineType
      BY <2>1, LenProperties, ElementOfSeq
    <2>. QED
      BY <2>2 DEF VerdictType
  <1>. QED
    BY <1>1 DEF AllVerdicts

LEMMA ReportType ==
  ASSUME Types, Reports \/ ReportWrites \/ ReportChecks \/ ReportDies
  PROVE  Types'
  <1>1. UNCHANGED <<files, stubs, run>> /\ starts' = starts
    BY DEF Reports, ReportWrites, ReportChecks, ReportDies
  <1>2. crashes' \in Nat
    BY DEF Types, Reports, ReportWrites, ReportChecks, ReportDies
  <1>3. DOMAIN out' = Outputs
    BY DEF Types, Reports, ReportWrites, ReportChecks, ReportDies
  <1>4. report' \in [at : {"idle", "check"} \cup Outputs, rows : SUBSET VerdictType]
    <2>1. CASE Reports
      BY <2>1, VerdictTypes DEF Reports, Outputs
    <2>2. CASE ReportWrites
      <3>1. NextFile(report.at) \in {"check"} \cup Outputs
        BY <2>2 DEF ReportWrites, NextFile, Types, Outputs
      <3>2. report' = [report EXCEPT !.at = NextFile(report.at)]
        BY <2>2 DEF ReportWrites
      <3>. QED
        BY <3>1, <3>2 DEF Types
    <2>3. CASE ReportChecks \/ ReportDies
      BY <2>3 DEF ReportChecks, ReportDies, NoReport
    <2>. QED
      BY <2>1, <2>2, <2>3
  <1>5. \A r \in Runners : RunOK(r)'
    BY <1>1 DEF Types, RunOK, Running, AtHand
  <1>. QED
    BY <1>1, <1>2, <1>3, <1>4, <1>5 DEF Types

LEMMA TypesStep == Types /\ [Next]_vars => Types'
  <1>. SUFFICES ASSUME Types, [Next]_vars PROVE Types'
    OBVIOUS
  <1>1. ASSUME NEW r \in Runners, Skips(r) \/ Appends(r)
        PROVE  Types'
    BY <1>1, SettlesType DEF Skips, Appends
  <1>2. ASSUME NEW r \in Runners, Finishes(r)
        PROVE  Types'
    BY <1>2, QuitsType DEF Finishes, Types
  <1>3. CASE UNCHANGED vars
    BY <1>3 DEF vars, Types, RunOK, Running, AtHand
  <1>. QED
    BY <1>1, <1>2, <1>3, StartsType, JudgesType, DiesType, ReportType DEF Next, Runner

\* Files, stubs, runners and reports keep their types; a runner at work holds a
\* configuration it was started with, and the row it appends is of the task at hand.
THEOREM EvalTypes == Spec => []Types
  <1>. QED
    BY TypesInit, TypesStep, PTL DEF Spec

-----------------------------------------------------------------------------
(* The inductive invariant                                                 *)

\* A file that was written whole and by one runner at a time: it loads, and the trace
\* stub of a task with a verdict is that verdict's.
SoundFile(lines, stub) ==
  /\ Loadable(lines)
  /\ \A i \in DOMAIN lines : lines[i].ended
  /\ \A i \in Verdicts(lines) :
        lines[i].ptr = lines[i].tag /\ stub[lines[i].task] = lines[i].seq

\* A runner alone on a sound shard knows what the file holds: where it ends, and which
\* tasks are judged; the tasks of its shard are judged or left; the one it is about to
\* append is not judged and has its stub.
Aware(r) ==
  LET s == run[r].shard IN
  /\ \A q \in Runners : Running(q) /\ run[q].shard = s => q = r
  /\ run[r].seq = Len(files[s]) + 1
  /\ run[r].judged = Judged(files[s])
  /\ \A i \in Mine(run[r].cfg) : Dataset[i] \in run[r].judged \/ i \in run[r].todo
  /\ run[r].at = "append" =>
       AtHand(r) \notin run[r].judged /\ stubs[s][AtHand(r)] = run[r].seq

\* A verdict stands in its file, where it is said to stand.
Stands(v) == v.line \in Verdicts(files[v.shard]) /\ files[v.shard][v.line] = v.row

\* How many of its files the report has written of its rows.
Wrote(f) == out[f] = Written(f, report.rows)
Reporting ==
  CASE report.at = "idle" -> \A f \in Outputs : out[f] = Written(f, out.pointers)
    [] report.at = "report" -> Wrote("pointers")
    [] report.at = "pareto" -> Wrote("pointers") /\ Wrote("report")
    [] report.at = "check" -> \A f \in Outputs : Wrote(f)
    [] OTHER -> TRUE

SoundFiles == \A s \in Shards \ faulty : SoundFile(files[s], stubs[s])
AwareRunners ==
  \A r \in Runners : Running(r) /\ run[r].shard \notin faulty => Aware(r)
Published == out.pointers \subseteq VerdictType
Standing ==
  \A v \in report.rows \cup out.pointers : v.shard \notin faulty => Stands(v)

EvalInv ==
  Types /\ SoundFiles /\ AwareRunners /\ Published /\ Standing
        /\ (crashes = 0 => Reporting)

\* A row appended to a file that is whole.
LEMMA RowAdded ==
  ASSUME NEW lines \in Seq(LineType), NEW row \in LineType, row.whole, row.ended,
         row.seq = Len(lines) + 1,
         Loadable(lines), row.terminal => row.task \notin Judged(lines)
  PROVE  LET longer == Append(lines, row) IN
         /\ DOMAIN longer = DOMAIN lines \cup {Len(lines) + 1} /\ Len(longer) = Len(lines) + 1
         /\ longer[Len(lines) + 1] = row /\ Len(lines) + 1 \notin DOMAIN lines
         /\ \A i \in DOMAIN lines : longer[i] = lines[i]
         /\ Verdicts(longer) = Verdicts(lines) \cup {i \in {Len(lines) + 1} : row.terminal}
         /\ Judged(longer) = Judged(lines) \cup {t \in {row.task} : row.terminal}
         /\ Loadable(longer)
  <1>. DEFINE longer == Append(lines, row)
              n == Len(lines) + 1
  <1>1. /\ Len(lines) \in Nat /\ DOMAIN lines = 1..Len(lines)
        /\ Len(longer) = n /\ DOMAIN longer = 1..n
    BY LenProperties, AppendProperties
  <1>2. /\ DOMAIN longer = DOMAIN lines \cup {n} /\ n \notin DOMAIN lines
        /\ longer[n] = row /\ \A i \in DOMAIN lines : longer[i] = lines[i]
    BY <1>1, AppendProperties
  <1>. HIDE DEF longer, n
  <1>3. Verdicts(longer) = Verdicts(lines) \cup {i \in {n} : row.terminal}
    BY <1>2 DEF Verdicts
  <1>4. \A l : Judged(l) = {l[i].task : i \in Verdicts(l)}
    BY DEF Judged, Verdicts, Terminal
  <1>5. Judged(longer) = Judged(lines) \cup {t \in {row.task} : row.terminal}
    <2>1. \A i \in Verdicts(lines) : longer[i] = lines[i]
      BY <1>2 DEF Verdicts
    <2>. QED
      BY <1>2, <1>3, <1>4, <2>1
  <1>6. Once(longer)
    <2>1. SUFFICES ASSUME NEW i \in Verdicts(longer), NEW j \in Verdicts(longer),
                          longer[i].task = longer[j].task
                   PROVE  i = j
      BY DEF Once
    <2>2. \A k \in Verdicts(lines) : longer[k] = lines[k] /\ lines[k].task \in Judged(lines)
      BY <1>2, <1>4 DEF Verdicts
    <2>3. Once(lines)
      BY DEF Loadable
    <2>. QED
      BY <1>2, <1>3, <2>1, <2>2, <2>3 DEF Once
  <1>7. Loadable(longer)
    BY <1>2, <1>6 DEF Loadable, n
  <1>. QED
    BY <1>1, <1>2, <1>3, <1>5, <1>7 DEF longer, n

\* The row a runner appends fits the end of a file it is aware of.
LEMMA PendingFits ==
  ASSUME Types, NEW r \in Runners, run[r].at = "append" \/ Skipping(r), Aware(r)
  PROVE  LET row == Pending(r) IN
         /\ row \in LineType /\ row.whole /\ row.ended /\ row.task = AtHand(r)
         /\ row.seq = Len(files[run[r].shard]) + 1
         /\ row.terminal => /\ row.task \notin Judged(files[run[r].shard])
                            /\ row.ptr = row.tag
                            /\ stubs[run[r].shard][row.task] = row.seq
         /\ ~row.terminal => row.task \in Judged(files[run[r].shard])
  <1>1. RunOK(r)
    BY DEF Types
  <1>2. Pending(r) \in LineType /\ Pending(r).task = AtHand(r)
    BY <1>1, PendingType
  <1>3. CASE Skipping(r)
    <2>1. Pending(r) = SkipRow(run[r].seq, AtHand(r))
      BY <1>3 DEF Pending
    <2>. DEFINE row == SkipRow(run[r].seq, AtHand(r))
    <2>2. row.whole /\ row.ended /\ ~row.terminal /\ row.seq = run[r].seq
      BY DEF SkipRow, Row
    <2>. QED
      BY <1>2, <1>3, <2>1, <2>2 DEF Aware, Skipping
  <1>4. CASE ~Skipping(r)
    <2>1. Pending(r) = TaskRow(run[r].seq, AtHand(r), run[r].cfg)
      BY <1>1, <1>4 DEF Pending, RunOK
    <2>2. /\ Pending(r).whole /\ Pending(r).ended /\ Pending(r).terminal
          /\ Pending(r).seq = run[r].seq /\ Pending(r).ptr = Pending(r).tag
      BY <2>1 DEF TaskRow, Row
    <2>. QED
      BY <1>2, <1>4, <2>2 DEF Aware
  <1>. QED
    BY <1>3, <1>4

LEMMA InvInit == Init => EvalInv
  <1>. SUFFICES ASSUME Init PROVE EvalInv
    OBVIOUS
  <1>1. Types
    BY TypesInit
  <1>2. ASSUME NEW s \in Shards
        PROVE  SoundFile(files[s], stubs[s])
    BY DOMAIN << >> = {} DEF Init, SoundFile, Loadable, Once, Verdicts
  <1>3. \A r \in Runners : ~Running(r)
    BY QuietType DEF Init, Running
  <1>4. out.pointers = {} /\ report.rows = {} /\ report.at = "idle"
    BY DEF Init, Written, NoReport
  <1>5. \A f \in Outputs : out[f] = Written(f, {})
    BY DEF Init, Outputs
  <1>. QED
    BY <1>1, <1>2, <1>3, <1>4, <1>5
       DEF EvalInv, SoundFiles, AwareRunners, Published, Standing, Reporting

\* What a runner is aware of stays, where nobody else comes or writes.
LEMMA StaysAware ==
  ASSUME NEW q \in Runners, Aware(q), run'[q] = run[q],
         files'[run[q].shard] = files[run[q].shard], stubs'[run[q].shard] = stubs[run[q].shard],
         \A p \in Runners : run'[p].at # "idle" /\ run'[p].shard = run[q].shard =>
           p = q \/ (run[p].at # "idle" /\ run[p].shard = run[q].shard)
  PROVE  Aware(q)'
  BY DEF Aware, Running, AtHand

\* What the report has said stands, where files only grow.
LEMMA StillStands ==
  ASSUME NEW v, Stands(v), DOMAIN files[v.shard] \subseteq DOMAIN files'[v.shard],
         \A i \in DOMAIN files[v.shard] : files'[v.shard][i] = files[v.shard][i]
  PROVE  Stands(v)'
  BY DEF Stands, Verdicts

\* The report is not disturbed by runners.
LEMMA ReportUndisturbed ==
  ASSUME EvalInv, UNCHANGED <<report, out>>, crashes' = 0 => crashes = 0
  PROVE  Published' /\ (crashes' = 0 => Reporting')
  BY DEF EvalInv, Published, Reporting, Wrote

LEMMA SettlesInv ==
  ASSUME EvalInv, NEW r \in Runners, Settles(r), run[r].at = "append" \/ Skipping(r)
  PROVE  EvalInv'
  <1>. DEFINE s == run[r].shard
              row == Pending(r)
  <1>1. Types /\ Types' /\ Running(r)
    BY SettlesType DEF EvalInv, Running, Skipping
  <1>2. UNCHANGED <<stubs, report, out, starts, crashes, faulty>>
    BY DEF Settles
  <1>3. /\ s \in Shards /\ files[s] \in Seq(LineType)
        /\ files' = [files EXCEPT ![s] = Appended(files[s], row, "all")]
        /\ run'[r].at = "loop" /\ run'[r].shard = s
        /\ run'[r].cfg = run[r].cfg /\ run'[r].seq = run[r].seq + 1
        /\ run'[r].judged = run[r].judged \cup {AtHand(r)}
        /\ run'[r].todo = run[r].todo \ {Min(run[r].todo)}
        /\ \A q \in Runners : q # r => run'[q] = run[q]
    BY <1>1, SettlesEffect
  <1>4. \A t \in Shards : t # s => files'[t] = files[t]
    BY <1>1, <1>3 DEF Types
  <1>. HIDE DEF s, row
  <1>5. ASSUME s \notin faulty
        PROVE  /\ SoundFile(files'[s], stubs[s]) /\ Aware(r)'
               /\ DOMAIN files[s] \subseteq DOMAIN files'[s]
               /\ \A i \in DOMAIN files[s] : files'[s][i] = files[s][i]
               /\ \A q \in Runners : Running(q) /\ run[q].shard = s => q = r
    <2>1. Aware(r) /\ SoundFile(files[s], stubs[s])
      BY <1>1, <1>3, <1>5 DEF EvalInv, SoundFiles, AwareRunners, s
    <2>2. /\ row \in LineType /\ row.whole /\ row.ended /\ row.task = AtHand(r)
          /\ row.seq = Len(files[s]) + 1
          /\ row.terminal => /\ row.task \notin Judged(files[s]) /\ row.ptr = row.tag
                             /\ stubs[s][row.task] = row.seq
          /\ ~row.terminal => row.task \in Judged(files[s])
      BY <1>1, <2>1, PendingFits DEF s, row
    <2>. DEFINE longer == Append(files[s], row)
                n == Len(files[s]) + 1
    <2>3. files'[s] = longer
      <3>1. [row EXCEPT !.whole = TRUE, !.ended = TRUE] = row
        <4>1. row.whole = TRUE /\ row.ended = TRUE
          BY <2>2 DEF LineType
        <4>. QED
          BY <2>2, <4>1 DEF LineType
      <3>2. "all" \in Cuts /\ \A i \in DOMAIN files[s] : files[s][i].ended
        BY <2>1 DEF SoundFile, Cuts
      <3>3. files[s] \in Seq(LineType) /\ row \in LineType
        BY <1>3, <2>2
      <3>4. Appended(files[s], row, "all")
              = Append(files[s], [row EXCEPT !.whole = TRUE, !.ended = TRUE])
        BY <3>2, <3>3, AppendedType, Zenon
      <3>. QED
        BY <1>1, <1>3, <3>1, <3>4 DEF Types
    <2>4. /\ DOMAIN longer = DOMAIN files[s] \cup {n} /\ Len(longer) = n
          /\ longer[n] = row /\ n \notin DOMAIN files[s]
          /\ \A i \in DOMAIN files[s] : longer[i] = files[s][i]
          /\ Verdicts(longer) = Verdicts(files[s]) \cup {i \in {n} : row.terminal}
          /\ Judged(longer) = Judged(files[s]) \cup {t \in {row.task} : row.terminal}
          /\ Loadable(longer)
      BY <1>3, <2>1, <2>2, RowAdded DEF SoundFile
    <2>. HIDE DEF longer, n
    <2>5. SoundFile(longer, stubs[s])
      <3>1. \A i \in DOMAIN longer : longer[i].ended
        BY <2>1, <2>2, <2>4 DEF SoundFile
      <3>2. ASSUME NEW i \in Verdicts(longer)
            PROVE  longer[i].ptr = longer[i].tag /\ stubs[s][longer[i].task] = longer[i].seq
        <4>1. CASE i \in Verdicts(files[s])
          BY <2>1, <2>4, <4>1 DEF SoundFile, Verdicts
        <4>2. CASE i = n /\ row.terminal
          BY <2>2, <2>4, <4>2
        <4>. QED
          BY <2>4, <4>1, <4>2
      <3>. QED
        BY <2>4, <3>1, <3>2 DEF SoundFile
    <2>6. Aware(r)'
      <3>1. \A q \in Runners : Running(q)' /\ run'[q].shard = s => q = r
        BY <1>3, <2>1 DEF Aware, Running, s
      <3>2. run'[r].seq = Len(longer) + 1
        BY <1>3, <2>1, <2>4 DEF Aware, s, n
      <3>3. run'[r].judged = Judged(longer)
        BY <1>3, <2>1, <2>2, <2>4 DEF Aware, s
      <3>4. \A i \in Mine(run'[r].cfg) : Dataset[i] \in run'[r].judged \/ i \in run'[r].todo
        <4>1. AtHand(r) = Dataset[Min(run[r].todo)]
          BY DEF AtHand
        <4>. QED
          BY <1>3, <2>1, <4>1 DEF Aware, s
      <3>. QED
        BY <1>3, <2>3, <3>1, <3>2, <3>3, <3>4 DEF Aware
    <2>7. \A q \in Runners : Running(q) /\ run[q].shard = s => q = r
      BY <2>1 DEF Aware, s
    <2>. QED
      BY <2>3, <2>4, <2>5, <2>6, <2>7
  <1>6. SoundFiles'
    BY <1>1, <1>2, <1>4, <1>5 DEF EvalInv, SoundFiles
  <1>7. AwareRunners'
    <2>1. SUFFICES ASSUME NEW q \in Runners, run'[q].at # "idle", run'[q].shard \notin faulty
                   PROVE  Aware(q)'
      BY <1>2 DEF AwareRunners, Running
    <2>2. CASE q = r
      BY <1>3, <1>5, <2>1, <2>2
    <2>3. CASE q # r
      <3>1. run'[q] = run[q] /\ Aware(q) /\ run[q].shard # s
        BY <1>3, <1>5, <2>1, <2>3 DEF EvalInv, AwareRunners, Running
      <3>2. run[q].shard \in Shards
        BY <1>1, <2>1, <3>1 DEF Types, RunOK, Running, Shards
      <3>. QED
        BY <1>2, <1>3, <1>4, <3>1, <3>2, StaysAware
    <2>. QED
      BY <2>2, <2>3
  <1>8. Standing'
    <2>1. SUFFICES ASSUME NEW v \in report.rows \cup out.pointers, v.shard \notin faulty
                   PROVE  Stands(v)'
      BY <1>2 DEF Standing
    <2>2. Stands(v) /\ v.shard \in Shards
      BY <2>1 DEF EvalInv, Standing, Types, Published, VerdictType
    <2>3. CASE v.shard = s
      BY <1>5, <2>1, <2>2, <2>3, StillStands
    <2>4. CASE v.shard # s
      BY <1>4, <2>2, <2>4, StillStands
    <2>. QED
      BY <2>3, <2>4
  <1>9. Published' /\ (crashes' = 0 => Reporting')
    BY <1>2, ReportUndisturbed
  <1>. QED
    BY <1>1, <1>6, <1>7, <1>8, <1>9 DEF EvalInv

LEMMA JudgesInv == ASSUME EvalInv, NEW r \in Runners, Judges(r) PROVE EvalInv'
  <1>. DEFINE s == run[r].shard
              t == AtHand(r)
  <1>1. Types /\ Types' /\ Running(r)
    BY JudgesType DEF EvalInv, Judges, Running
  <1>2. UNCHANGED <<files, report, out, starts, crashes, faulty>>
    BY DEF Judges
  <1>3. /\ s \in Shards /\ t \in Tasks /\ run[r].at = "loop" /\ t \notin run[r].judged
        /\ stubs' = [stubs EXCEPT ![s] = [stubs[s] EXCEPT ![t] = run[r].seq]]
        /\ run'[r].at = "append" /\ run'[r].cfg = run[r].cfg /\ run'[r].shard = s
        /\ run'[r].seq = run[r].seq /\ run'[r].judged = run[r].judged
        /\ run'[r].todo = run[r].todo
        /\ \A q \in Runners : q # r => run'[q] = run[q]
    BY <1>1, JudgesEffect
  <1>4. t = Dataset[Min(run[r].todo)]
    BY DEF AtHand
  <1>. HIDE DEF s, t
  <1>5. /\ \A u \in Shards : u # s => stubs'[u] = stubs[u]
        /\ stubs'[s][t] = run[r].seq
        /\ \A u \in Tasks : u # t => stubs'[s][u] = stubs[s][u]
    BY <1>1, <1>3 DEF Types
  <1>6. ASSUME s \notin faulty
        PROVE  /\ SoundFile(files[s], stubs'[s]) /\ Aware(r)'
               /\ \A q \in Runners : Running(q) /\ run[q].shard = s => q = r
    <2>1. Aware(r) /\ SoundFile(files[s], stubs[s]) /\ files[s] \in Seq(LineType)
      BY <1>1, <1>3, <1>6 DEF EvalInv, SoundFiles, AwareRunners, s, Types
    <2>2. ASSUME NEW i \in Verdicts(files[s])
          PROVE  stubs'[s][files[s][i].task] = files[s][i].seq
      <3>1. files[s][i].task \in Judged(files[s])
        BY DEF Judged, Verdicts, Terminal
      <3>2. files[s][i].task # t
        BY <1>3, <2>1, <3>1 DEF Aware, s
      <3>3. files[s][i] \in LineType
        BY <2>1, LenProperties, ElementOfSeq DEF Verdicts
      <3>. QED
        BY <1>5, <2>1, <3>2, <3>3 DEF SoundFile, LineType
    <2>3. SoundFile(files[s], stubs'[s])
      BY <2>1, <2>2 DEF SoundFile
    <2>4. Aware(r)'
      <3>1. \A q \in Runners : Running(q)' /\ run'[q].shard = s => q = r
        BY <1>3, <2>1 DEF Aware, Running, s
      <3>2. AtHand(r)' = t
        BY <1>3, <1>4 DEF AtHand
      <3>. QED
        BY <1>2, <1>3, <1>5, <2>1, <3>1, <3>2 DEF Aware, s
    <2>. QED
      BY <2>1, <2>3, <2>4 DEF Aware, s
  <1>7. SoundFiles'
    BY <1>2, <1>5, <1>6 DEF EvalInv, SoundFiles
  <1>8. AwareRunners'
    <2>1. SUFFICES ASSUME NEW q \in Runners, run'[q].at # "idle", run'[q].shard \notin faulty
                   PROVE  Aware(q)'
      BY <1>2 DEF AwareRunners, Running
    <2>2. CASE q = r
      BY <1>3, <1>6, <2>1, <2>2
    <2>3. CASE q # r
      <3>1. run'[q] = run[q] /\ Aware(q) /\ run[q].shard # s
        BY <1>3, <1>6, <2>1, <2>3 DEF EvalInv, AwareRunners, Running
      <3>2. run[q].shard \in Shards
        BY <1>1, <2>1, <3>1 DEF Types, RunOK, Running, Shards
      <3>. QED
        BY <1>2, <1>3, <1>5, <3>1, <3>2, StaysAware
    <2>. QED
      BY <2>2, <2>3
  <1>9. Standing'
    BY <1>2 DEF EvalInv, Standing, Stands
  <1>10. Published' /\ (crashes' = 0 => Reporting')
    BY <1>2, ReportUndisturbed
  <1>. QED
    BY <1>1, <1>7, <1>8, <1>9, <1>10 DEF EvalInv

\* A runner that comes finds out where its file ends and what is judged in it; where
\* another is at work the shard is faulty from now on.
LEMMA StartsInv ==
  ASSUME EvalInv, NEW r \in Runners, NEW c \in Configs, Starts(r, c)
  PROVE  EvalInv'
  <1>1. Types /\ Types'
    BY StartsType DEF EvalInv
  <1>2. UNCHANGED <<files, stubs, report, out, crashes>> /\ ~Running(r)
    BY DEF Starts
  <1>3. faulty \subseteq faulty'
    BY DEF Starts
  <1>4. SoundFiles' /\ Standing'
    BY <1>2, <1>3 DEF EvalInv, SoundFiles, Standing, Stands
  <1>5. Published' /\ (crashes' = 0 => Reporting')
    BY <1>2, ReportUndisturbed
  <1>6. AwareRunners'
    <2>1. CASE UNCHANGED run
      <3>1. SUFFICES ASSUME NEW q \in Runners, run[q].at # "idle", run[q].shard \notin faulty'
                     PROVE  Aware(q)'
        BY <2>1 DEF AwareRunners, Running
      <3>2. Aware(q)
        BY <1>3, <3>1 DEF EvalInv, AwareRunners, Running
      <3>. QED
        BY <1>2, <2>1, <3>2, StaysAware
    <2>2. CASE Accepted(c) /\ Loadable(files[c.shard])
      <3>. DEFINE s == c.shard
                  begun == [Quiet EXCEPT !.at = "loop", !.shard = s, !.cfg = c,
                              !.seq = NextSeq(files[s]), !.judged = Judged(files[s]),
                              !.todo = Mine(c)]
      <3>1. run' = [run EXCEPT ![r] = begun]
        BY <2>2 DEF Starts
      <3>2. /\ begun.at = "loop" /\ begun.shard = s /\ begun.cfg = c
            /\ begun.seq = Len(files[s]) + 1 /\ begun.judged = Judged(files[s])
            /\ begun.todo = Mine(c)
        BY DEF Quiet, NextSeq
      <3>. HIDE DEF begun
      <3>3. run'[r] = begun /\ \A q \in Runners : q # r => run'[q] = run[q]
        BY <1>1, <3>1 DEF Types
      <3>4. faulty' = faulty \cup {u \in {s} : \E q \in Runners : Running(q) /\ run[q].shard = u}
        BY <2>2 DEF Starts
      <3>5. SUFFICES ASSUME NEW q \in Runners, run'[q].at # "idle", run'[q].shard \notin faulty'
                     PROVE  Aware(q)'
        BY DEF AwareRunners, Running
      <3>6. CASE q = r
        <4>1. \A p \in Runners : ~(Running(p) /\ run[p].shard = s)
          BY <3>2, <3>3, <3>4, <3>5, <3>6
        <4>2. \A p \in Runners : Running(p)' /\ run'[p].shard = s => p = r
          BY <3>3, <4>1 DEF Running
        <4>. QED
          BY <1>2, <3>2, <3>3, <3>6, <4>2 DEF Aware
      <3>7. CASE q # r
        <4>1. run'[q] = run[q] /\ Aware(q) /\ run[q].shard # s
          BY <1>3, <3>3, <3>4, <3>5, <3>7 DEF EvalInv, AwareRunners, Running
        <4>2. \A p \in Runners : run'[p].at # "idle" /\ run'[p].shard = run[q].shard =>
                p = q \/ (run[p].at # "idle" /\ run[p].shard = run[q].shard)
          BY <3>2, <3>3, <4>1
        <4>. QED
          BY <1>2, <4>1, <4>2, StaysAware
      <3>. QED
        BY <3>6, <3>7
    <2>. QED
      BY <2>1, <2>2 DEF Starts
  <1>. QED
    BY <1>1, <1>4, <1>5, <1>6 DEF EvalInv

\* A runner that ends, or dies with its file as it was or the shard called faulty.
LEMMA QuitsInv ==
  ASSUME EvalInv, NEW r \in Runners, Finishes(r) \/ Dies(r)
  PROVE  EvalInv'
  <1>. DEFINE s == run[r].shard
  <1>1. Types /\ Types' /\ Running(r)
    <2>1. Types
      BY DEF EvalInv
    <2>2. CASE Finishes(r)
      BY <2>1, <2>2, QuitsType DEF Finishes, Types, Running
    <2>3. CASE Dies(r)
      BY <2>1, <2>3, DiesType DEF Dies
    <2>. QED
      BY <2>1, <2>2, <2>3
  <1>2. UNCHANGED <<stubs, report, out>> /\ faulty \subseteq faulty' /\ run' = [run EXCEPT ![r] = Quiet]
    BY DEF Finishes, Dies
  <1>3. crashes' = 0 => crashes = 0
    BY <1>1 DEF Finishes, Dies, Types
  <1>4. run'[r].at = "idle" /\ \A q \in Runners : q # r => run'[q] = run[q]
    BY <1>1, <1>2, QuitsType
  <1>5. \A u \in Shards : u \notin faulty' => files'[u] = files[u]
    <2>1. CASE Finishes(r)
      BY <2>1 DEF Finishes
    <2>2. CASE Dies(r)
      <3>1. PICK cut \in Cuts \ {"all"} :
              /\ files' = [files EXCEPT ![s] = Appended(files[s], Pending(r), cut)]
              /\ faulty' = faulty \cup {u \in {s} : cut # "nothing"}
        BY <2>2 DEF Dies
      <3>2. s \in Shards
        BY <1>1 DEF Types, RunOK, Shards
      <3>3. cut = "nothing" => Appended(files[s], Pending(r), cut) = files[s]
        BY DEF Appended
      <3>. HIDE DEF s
      <3>. QED
        BY <1>1, <3>1, <3>2, <3>3 DEF Types
    <2>. QED
      BY <2>1, <2>2
  <1>6. SoundFiles'
    BY <1>2, <1>5 DEF EvalInv, SoundFiles
  <1>7. AwareRunners'
    <2>1. SUFFICES ASSUME NEW q \in Runners, run'[q].at # "idle", run'[q].shard \notin faulty'
                   PROVE  Aware(q)'
      BY DEF AwareRunners, Running
    <2>2. run'[q] = run[q] /\ Aware(q)
      BY <1>2, <1>4, <2>1 DEF EvalInv, AwareRunners, Running
    <2>3. run[q].shard \in Shards
      BY <1>1, <2>1, <2>2 DEF Types, RunOK, Running, Shards
    <2>. QED
      BY <1>2, <1>4, <1>5, <2>1, <2>2, <2>3, StaysAware
  <1>8. Standing'
    <2>1. SUFFICES ASSUME NEW v \in report.rows \cup out.pointers, v.shard \notin faulty'
                   PROVE  Stands(v)'
      BY <1>2 DEF Standing
    <2>2. Stands(v) /\ v.shard \in Shards
      BY <1>2, <2>1 DEF EvalInv, Standing, Types, Published, VerdictType
    <2>. QED
      BY <1>5, <2>1, <2>2, StillStands
  <1>9. Published' /\ (crashes' = 0 => Reporting')
    BY <1>2, <1>3, ReportUndisturbed
  <1>. QED
    BY <1>1, <1>6, <1>7, <1>8, <1>9 DEF EvalInv

\* The report only repeats what stands, and writes its files in their order.
LEMMA ReportInv ==
  ASSUME EvalInv, Reports \/ ReportWrites \/ ReportChecks \/ ReportDies
  PROVE  EvalInv'
  <1>1. Types /\ Types'
    BY ReportType DEF EvalInv
  <1>2. UNCHANGED <<files, stubs, run, faulty>>
    BY DEF Reports, ReportWrites, ReportChecks, ReportDies
  <1>3. SoundFiles' /\ AwareRunners'
    BY <1>2 DEF EvalInv, SoundFiles, AwareRunners, Running, Aware, AtHand
  <1>4. \A v \in AllVerdicts : Stands(v)
    BY DEF AllVerdicts, Stands
  <1>5. CASE Reports
    <2>1. report'.rows = AllVerdicts /\ report'.at = "pointers" /\ UNCHANGED <<out, crashes>>
      BY <1>5 DEF Reports
    <2>2. Standing'
      BY <1>2, <1>4, <2>1 DEF EvalInv, Standing, Stands
    <2>. QED
      BY <1>1, <1>3, <2>1, <2>2 DEF EvalInv, Published, Reporting
  <1>6. CASE ReportWrites
    <2>1. report.at \in Outputs /\ DOMAIN out = Outputs /\ crashes' = crashes
      BY <1>1, <1>6 DEF ReportWrites, Types
    <2>2. report'.rows = report.rows /\ report'.at = NextFile(report.at)
      BY <1>1, <1>6 DEF ReportWrites, Types
    <2>3. /\ out'[report.at] = Written(report.at, report.rows)
          /\ \A f \in Outputs : f # report.at => out'[f] = out[f]
      BY <1>6, <2>1 DEF ReportWrites
    <2>4. \/ out'.pointers = report.rows
          \/ out'.pointers = out.pointers
      <3>1. CASE report.at = "pointers"
        BY <2>3, <3>1 DEF Written
      <3>2. CASE report.at # "pointers"
        BY <2>3, <3>2 DEF Outputs
      <3>. QED
        BY <3>1, <3>2
    <2>5. Published'
      BY <1>1, <2>4 DEF EvalInv, Published, Types
    <2>6. Standing'
      BY <1>2, <2>2, <2>4 DEF EvalInv, Standing, Stands
    <2>7. ASSUME crashes = 0
          PROVE  Reporting'
      <3>1. Reporting
        BY <2>7 DEF EvalInv
      <3>2. CASE report.at = "pointers"
        BY <2>2, <2>3, <3>2 DEF Reporting, Wrote, NextFile
      <3>3. CASE report.at = "report"
        BY <2>2, <2>3, <3>1, <3>3 DEF Reporting, Wrote, NextFile, Outputs
      <3>4. CASE report.at = "pareto"
        BY <2>2, <2>3, <3>1, <3>4 DEF Reporting, Wrote, NextFile, Outputs
      <3>. QED
        BY <2>1, <3>2, <3>3, <3>4 DEF Outputs
    <2>. QED
      BY <1>1, <1>3, <2>1, <2>5, <2>6, <2>7 DEF EvalInv
  <1>7. CASE ReportChecks \/ ReportDies
    <2>1. report'.at = "idle" /\ report'.rows = {} /\ out' = out
      BY <1>7 DEF ReportChecks, ReportDies, NoReport
    <2>2. Standing' /\ Published'
      BY <1>2, <2>1 DEF EvalInv, Standing, Stands, Published
    <2>3. ASSUME crashes' = 0
          PROVE  Reporting'
      <3>1. report.at = "check" /\ crashes = 0
        BY <1>1, <1>7, <2>3 DEF ReportChecks, ReportDies, Types
      <3>2. \A f \in Outputs : out[f] = Written(f, report.rows)
        BY <3>1 DEF EvalInv, Reporting, Wrote
      <3>3. out.pointers = report.rows
        BY <3>2 DEF Outputs, Written
      <3>. QED
        BY <2>1, <3>2, <3>3 DEF Reporting
    <2>. QED
      BY <1>1, <1>3, <2>2, <2>3 DEF EvalInv
  <1>. QED
    BY <1>5, <1>6, <1>7

LEMMA InvStep == EvalInv /\ [Next]_vars => EvalInv'
  <1>. SUFFICES ASSUME EvalInv, [Next]_vars PROVE EvalInv'
    OBVIOUS
  <1>1. ASSUME NEW r \in Runners, Skips(r) \/ Appends(r)
        PROVE  EvalInv'
    BY <1>1, SettlesInv DEF Skips, Appends
  <1>2. CASE UNCHANGED vars
    <2>1. Types'
      BY TypesStep DEF EvalInv
    <2>. QED
      BY <1>2, <2>1
         DEF vars, EvalInv, SoundFiles, AwareRunners, Running, Aware, AtHand, Published,
             Standing, Stands, Reporting, Wrote
  <1>. QED
    BY <1>1, <1>2, StartsInv, JudgesInv, QuitsInv, ReportInv DEF Next, Runner

-----------------------------------------------------------------------------
(* The theorems                                                            *)

\* A shard whose rows were written whole and by one runner at a time can be resumed
\* for ever: the runner's load (_load_existing) finds no gap and no task judged twice.
THEOREM ShardsResumable == Spec => []ShardResumable
  <1>1. EvalInv => ShardResumable
    BY DEF EvalInv, SoundFiles, SoundFile, ShardResumable
  <1>. QED
    BY <1>1, InvInit, InvStep, PTL DEF Spec

\* Whatever the report published stays true: the verdict is where the pointer says, the
\* trace stub is that verdict's, and the numbers are those of the verdicts listed.
THEOREM PublishedStandsFast == Spec => []PublishedStands
  <1>1. ASSUME EvalInv
        PROVE  PublishedStands
    <2>1. ASSUME NEW v \in out.pointers, v.shard \notin faulty
          PROVE  /\ files[v.shard][v.line] = v.row
                 /\ v.row.ptr = v.row.tag /\ stubs[v.shard][v.row.task] = v.row.seq
      <3>1. Stands(v) /\ v.shard \in Shards
        BY <1>1, <2>1 DEF EvalInv, Standing, Published, VerdictType
      <3>. QED
        BY <1>1, <2>1, <3>1 DEF EvalInv, SoundFiles, SoundFile, Stands
    <2>2. report.at = "idle" /\ crashes = 0 =>
            \A f \in DOMAIN out : out[f] = Written(f, out.pointers)
      BY <1>1 DEF EvalInv, Types, Reporting
    <2>. QED
      BY <2>1, <2>2 DEF PublishedStands
  <1>. QED
    BY <1>1, InvInit, InvStep, PTL DEF Spec

\* A runner that comes to its end has left a verdict for every task of its shard, found
\* or made.
THEOREM FinishersJudgedAll == Spec => FinishedMeansJudged
  <1>1. ASSUME EvalInv, NEW r \in Runners, Finishes(r), run[r].shard \notin faulty
        PROVE  {Dataset[i] : i \in Mine(run[r].cfg)} \subseteq Judged(files[run[r].shard])
    <2>1. run[r].todo = {} /\ Aware(r)
      BY <1>1 DEF Finishes, EvalInv, AwareRunners, Running
    <2>. QED
      BY <2>1 DEF Aware
  <1>2. EvalInv =>
          \A r \in Runners : Finishes(r) /\ run[r].shard \notin faulty =>
            {Dataset[i] : i \in Mine(run[r].cfg)} \subseteq Judged(files[run[r].shard])
    BY <1>1
  <1>. QED
    BY <1>2, InvInit, InvStep, PTL DEF Spec, FinishedMeansJudged
=============================================================================
