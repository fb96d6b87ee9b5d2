--------------------------- MODULE RunBridge_proofs ---------------------------
(***************************************************************************)
(* The host bridge tells a run's own result, and the projection names the  *)
(* files of one run, for any directories, any number of runs and any       *)
(* command lines left over from bridges that were killed.                  *)
(***************************************************************************)
EXTENDS RunBridge, TLAPS

-----------------------------------------------------------------------------
(* Types                                                                   *)

LEMMA NamesSet == ToSet(Names) = {"trace", "final", "artifacts"}
  BY DEF ToSet, Names

LEMMA NoneTypes == NoFile \in FileType /\ NoCli \in CliType /\ NoBridge \in BridgeType
  BY BridgeAssumption DEF NoFile, NoCli, NoBridge, FileType, CliType, BridgeType

LEMMA InitType == Init => TypeOK
  <1>. SUFFICES ASSUME Init PROVE TypeOK
    OBVIOUS
  <1>1. disk \in [Dirs -> DirType]
    <2>1. [trace |-> NoFile, final |-> NoFile, rows |-> << >>] \in DirType
      BY NoneTypes DEF DirType
    <2>. QED
      BY <2>1 DEF Init
  <1>2. cli \in [1..Runs -> CliType] /\ bridge \in BridgeType
    BY NoneTypes DEF Init
  <1>. QED
    BY <1>1, <1>2 DEF Init, TypeOK

\* A busy bridge has a run, which has begun, and projects in six steps.
RunOK ==
  /\ bridge.at # "idle" => Run \in 1..Runs /\ cli[Run].at # "none"
  /\ bridge.at = "project" => bridge.step \in 1..6
\* What has begun has a directory.
DirOK == \A r \in 1..Runs : cli[r].at # "none" => cli[r].dir \in Dirs

LEMMA CliStepType ==
  ASSUME TypeOK, RunOK, DirOK, NEW r \in 1..Runs, CliStep(r)
  PROVE  TypeOK' /\ RunOK' /\ DirOK'
  <1>. USE DEF TypeOK
  <1>1. cli[r] \in CliType /\ cli[r].at # "none" /\ cli[r].dir \in Dirs
    BY DEF CliStep, RunEnded, CliWrites, CliEnds, CliRaises, Writes, DirOK
  <1>2. PICK d : d = cli[r].dir
    OBVIOUS
  <1>3. disk[d] \in DirType
    BY <1>1, <1>2
  <1>4. \E c \in CliType : cli' = [cli EXCEPT ![r] = c] /\ c.dir = cli[r].dir /\ c.at # "none"
    <2>1. CASE RunEnded(r)
      <3>1. PICK o \in {[code |-> 0, ok |-> TRUE], [code |-> 1, ok |-> FALSE],
                        [code |-> 2, ok |-> FALSE], [code |-> 2, ok |-> TRUE]} :
              cli' = [cli EXCEPT ![r] = [cli[r] EXCEPT !.at = "ran", !.code = o.code, !.ok = o.ok]]
        BY <2>1 DEF RunEnded
      <3>2. o.code \in 0..2 /\ o.ok \in BOOLEAN
        <4>1. \/ o = [code |-> 0, ok |-> TRUE] \/ o = [code |-> 1, ok |-> FALSE]
              \/ o = [code |-> 2, ok |-> FALSE] \/ o = [code |-> 2, ok |-> TRUE]
          BY <3>1
        <4>2. o.code \in {0, 1, 2}
          BY ONLY <4>1
        <4>3. o.ok = TRUE \/ o.ok = FALSE
          BY ONLY <4>1
        <4>4. o.code \in 0..2
          BY ONLY <4>2
        <4>5. o.ok \in BOOLEAN
          BY ONLY <4>3
        <4>. QED
          BY <4>4, <4>5
      <3>3. [cli[r] EXCEPT !.at = "ran", !.code = o.code, !.ok = o.ok] \in CliType
        BY <1>1, <3>2 DEF CliType
      <3>. QED
        BY <3>1, <3>3, <1>1 DEF CliType
    <2>2. CASE CliWrites(r)
      <3>1. cli' = [cli EXCEPT ![r] = [cli[r] EXCEPT !.at = Writes[cli[r].at]]]
        BY <2>2 DEF CliWrites
      <3>2. Writes[cli[r].at] \in {"trace", "traced", "final", "finalised", "metrics"}
        BY <2>2 DEF CliWrites, Writes
      <3>3. [cli[r] EXCEPT !.at = Writes[cli[r].at]] \in CliType
        BY <1>1, <3>2 DEF CliType
      <3>. QED
        BY <3>1, <3>2, <3>3, <1>1 DEF CliType
    <2>3. CASE CliEnds(r)
      <3>1. cli' = [cli EXCEPT ![r] = [cli[r] EXCEPT !.at = "gone", !.returned = TRUE]]
        BY <2>3 DEF CliEnds
      <3>2. PICK c : c = [cli[r] EXCEPT !.at = "gone", !.returned = TRUE]
        OBVIOUS
      <3>3. c \in CliType /\ c.dir = cli[r].dir /\ c.at # "none"
        BY <3>2, <1>1 DEF CliType
      <3>. QED
        BY <3>1, <3>2, <3>3
    <2>4. CASE CliRaises(r)
      <3>0. RaisedCodes \subseteq 0..2
        BY DEF RaisedCodes
      <3>1. PICK code \in 0..2 : cli' = [cli EXCEPT ![r] = [cli[r] EXCEPT !.at = "gone", !.code = code]]
        BY <2>4, <3>0 DEF CliRaises
      <3>2. PICK c : c = [cli[r] EXCEPT !.at = "gone", !.code = code]
        OBVIOUS
      <3>3. c \in CliType /\ c.dir = cli[r].dir /\ c.at # "none"
        BY <3>2, <1>1 DEF CliType
      <3>. QED
        BY <3>1, <3>2, <3>3
    <2>. QED
      BY <2>1, <2>2, <2>3, <2>4 DEF CliStep
  <1>5. disk' \in [Dirs -> DirType]
    <2>1. CASE CliWrites(r)
      <3>. DEFINE to == Writes[cli[r].at]
      <3>1. File(r, TRUE) \in FileType /\ File(r, FALSE) \in FileType
        BY <1>1 DEF File, FileType, CliType
      <3>2. PICK x : x = CASE to \in {"trace", "traced"} -> [disk[d] EXCEPT !.trace = File(r, to = "traced")]
                          [] to \in {"final", "finalised"} -> [disk[d] EXCEPT !.final = File(r, to = "finalised")]
                          [] OTHER -> disk[d]
        OBVIOUS
      <3>3. disk' = [disk EXCEPT ![d] = x]
        BY <2>1, <3>2, <1>2, <1>1 DEF CliWrites
      <3>4. x \in DirType
        <4>1. \A b \in BOOLEAN : File(r, b) \in FileType
          BY <3>1
        <4>2. \A f \in FileType : /\ [disk[d] EXCEPT !.trace = f] \in DirType
                                  /\ [disk[d] EXCEPT !.final = f] \in DirType
          BY <1>3 DEF DirType
        <4>. HIDE DEF to
        <4>3. (to = "traced") \in BOOLEAN /\ (to = "finalised") \in BOOLEAN
          OBVIOUS
        <4>. QED
          BY <3>2, <4>1, <4>2, <4>3, <1>3
      <3>. QED
        BY <3>3, <3>4
    <2>2. CASE CliEnds(r)
      <3>1. PICK rows : rows = Append(disk[d].rows, r)
        OBVIOUS
      <3>2. rows \in Seq(1..Runs)
        BY <3>1, <1>3 DEF DirType
      <3>3. PICK x : x = [disk[d] EXCEPT !.rows = rows]
        OBVIOUS
      <3>4. x \in DirType
        BY <3>2, <3>3, <1>3 DEF DirType
      <3>5. disk' = [disk EXCEPT ![d] = x]
        <4>1. disk' = [disk EXCEPT ![cli[r].dir] = [disk[cli[r].dir] EXCEPT
                                     !.rows = Append(disk[cli[r].dir].rows, r)]]
          BY <2>2, <1>1 DEF CliEnds
        <4>. QED
          BY ONLY <4>1, <1>2, <3>1, <3>3
      <3>. QED
        BY <3>4, <3>5
    <2>3. CASE RunEnded(r) \/ CliRaises(r)
      BY <2>3 DEF RunEnded, CliRaises
    <2>. QED
      BY <2>1, <2>2, <2>3 DEF CliStep
  <1>6. UNCHANGED <<bridge, links>>
    BY DEF CliStep, RunEnded, CliWrites, CliEnds, CliRaises
  <1>. QED
    BY <1>1, <1>4, <1>5, <1>6 DEF RunOK, DirOK, Run

LEMMA BeginsType ==
  ASSUME TypeOK, RunOK, DirOK, NEW d \in Dirs, Begins(d)
  PROVE  TypeOK' /\ RunOK' /\ DirOK' /\ bridge'.run = bridge.run + 1
           /\ cli'[bridge.run + 1].dir = d /\ bridge'.at = "wait" /\ bridge'.result = "none"
           /\ cli'[bridge.run + 1].at = "run"
  <1>. USE DEF TypeOK
  <1>1. bridge.run + 1 \in 1..Runs
    BY BridgeAssumption DEF Begins, BridgeType
  <1>2. PICK s \in BOOLEAN : s = (\E q \in 1..Runs : Alive(q) /\ cli[q].dir = d)
    OBVIOUS
  <1>3. bridge' = [NoBridge EXCEPT !.at = "wait", !.run = bridge.run + 1, !.shared = s]
    BY <1>2 DEF Begins
  <1>4. bridge' \in BridgeType /\ bridge'.run = bridge.run + 1 /\ bridge'.at = "wait"
          /\ bridge'.result = "none"
    <2>1. PICK n \in 0..Runs : n = bridge.run + 1
      BY <1>1
    <2>2. bridge' = [NoBridge EXCEPT !.at = "wait", !.run = n, !.shared = s]
      BY <1>3, <2>1
    <2>3. NoBridge.result = "none"
      BY DEF NoBridge
    <2>4. /\ bridge' \in BridgeType /\ bridge'.run = n /\ bridge'.at = "wait"
          /\ bridge'.result = NoBridge.result
      BY ONLY <2>2, NoneTypes DEF BridgeType
    <2>. QED
      BY <2>1, <2>3, <2>4
  <1>5. PICK c : c = [NoCli EXCEPT !.at = "run", !.dir = d]
    OBVIOUS
  <1>6. c \in CliType /\ c.at = "run" /\ c.dir = d
    BY <1>5, NoneTypes DEF CliType, NoCli
  <1>7. cli' = [cli EXCEPT ![bridge.run + 1] = c]
    BY <1>5 DEF Begins
  <1>8. UNCHANGED <<disk, links>>
    BY DEF Begins
  <1>. QED
    BY <1>1, <1>4, <1>6, <1>7, <1>8 DEF RunOK, DirOK, Run

LEMMA BridgeStepType ==
  ASSUME TypeOK, RunOK, DirOK, BridgeStep \/ ExtensionKills
  PROVE  TypeOK' /\ RunOK' /\ DirOK' /\ bridge'.run = bridge.run /\ bridge'.shared = bridge.shared
  <1>. USE DEF TypeOK
  <1>1. bridge.at # "idle" /\ Run \in 1..Runs /\ cli[Run].at # "none" /\ Dir \in Dirs
    BY DEF RunOK, DirOK, Run, Dir, BridgeStep, CliExited, TimesOut, Reaps, ReadsFinal, Points,
           Projects, ReadsRow, Summarises, Shows, ExtensionKills
  <1>2. disk[Dir] \in DirType /\ disk[Dir].final \in FileType /\ disk[Dir].final.run \in 0..Runs
    BY <1>1 DEF DirType, FileType
  <1>3. ASSUME NEW b, bridge' = b, b \in BridgeType, b.run = bridge.run, b.at # "idle",
               b.at = "project" => b.step \in 1..6, b.shared = bridge.shared,
               UNCHANGED <<disk, cli>>, links' \in [ToSet(Names) -> Dirs \cup {NoLink, Foreign}]
        PROVE  TypeOK' /\ RunOK' /\ DirOK' /\ bridge'.run = bridge.run /\ bridge'.shared = bridge.shared
    BY <1>1, <1>3 DEF RunOK, DirOK, Run
  <1>4. \A x \in {"reap", "read", "pointer", "rows", "summary", "exit", "done"} :
          /\ [bridge EXCEPT !.at = x] \in BridgeType
          /\ [bridge EXCEPT !.at = x].run = bridge.run
          /\ [bridge EXCEPT !.at = x].at = x
          /\ [bridge EXCEPT !.at = x].shared = bridge.shared
    BY DEF BridgeType
  <1>5. \A x \in {"timeout", "artifact", "integrity", "killed"} :
          /\ [bridge EXCEPT !.at = "done", !.result = x] \in BridgeType
          /\ [bridge EXCEPT !.at = "done", !.result = x].run = bridge.run
          /\ [bridge EXCEPT !.at = "done", !.result = x].at = "done"
          /\ [bridge EXCEPT !.at = "done", !.result = x].shared = bridge.shared
    BY DEF BridgeType
  <1>6. CASE CliExited
    BY <1>3, <1>4, <1>6 DEF CliExited, Goes
  <1>7. CASE TimesOut
    <2>1. PICK c : c = [cli[Run] EXCEPT !.at = "gone"]
      OBVIOUS
    <2>2. c \in CliType /\ c.dir = cli[Run].dir /\ c.at = "gone"
      BY <2>1, <1>1 DEF CliType
    <2>3. cli' = [cli EXCEPT ![Run] = c]
      BY <1>7, <2>1, <1>1 DEF TimesOut, Killed
    <2>4. bridge' = [bridge EXCEPT !.at = "reap"] /\ UNCHANGED <<disk, links>>
      BY <1>7 DEF TimesOut, Goes
    <2>. QED
      BY <2>2, <2>3, <2>4, <1>1, <1>4 DEF RunOK, DirOK, Run
  <1>8. CASE Reaps \/ ExtensionKills
    BY <1>3, <1>5, <1>8 DEF Reaps, ExtensionKills, Ends
  <1>9. CASE ReadsFinal
    <2>1. \/ bridge' = [bridge EXCEPT !.at = "done", !.result = "artifact"]
          \/ bridge' = [bridge EXCEPT !.at = "summary"]
          \/ bridge' = [bridge EXCEPT !.at = "done", !.result = "integrity"]
          \/ bridge' = [bridge EXCEPT !.at = "pointer", !.final = disk[Dir].final]
      BY <1>9 DEF ReadsFinal, Goes, Ends
    <2>2. \A f \in FileType :
            /\ [bridge EXCEPT !.at = "pointer", !.final = f] \in BridgeType
            /\ [bridge EXCEPT !.at = "pointer", !.final = f].run = bridge.run
            /\ [bridge EXCEPT !.at = "pointer", !.final = f].at = "pointer"
            /\ [bridge EXCEPT !.at = "pointer", !.final = f].shared = bridge.shared
      BY DEF BridgeType
    <2>. QED
      BY <1>3, <1>4, <1>5, <1>2, <1>9, <2>1, <2>2 DEF ReadsFinal
  <1>10. CASE Points
    <2>1. PICK n \in 0..Runs : n = disk[Dir].final.run
      BY <1>2
    <2>2. PICK k \in 0..7 : k = 1
      OBVIOUS
    <2>3. bridge' = [bridge EXCEPT !.at = "project", !.sha = n, !.step = k]
      BY <1>10, <2>1, <2>2 DEF Points
    <2>4. bridge' \in BridgeType /\ bridge'.run = bridge.run /\ bridge'.at = "project"
            /\ bridge'.shared = bridge.shared /\ bridge'.step = k
      BY ONLY n \in 0..Runs, k \in 0..7, <2>3, bridge \in BridgeType DEF BridgeType
    <2>5. k \in 1..6
      BY <2>2
    <2>. QED
      BY <2>4, <2>5, <1>3, <1>10 DEF Points
  <1>11. CASE Projects
    <2>1. bridge.at = "project" /\ UNCHANGED <<disk, cli>>
      BY <1>11 DEF Projects
    <2>2. links' \in [ToSet(Names) -> Dirs \cup {NoLink, Foreign}]
      <3>. DEFINE name == Names[Projection[bridge.step]]
      <3>1. \/ links' = links
            \/ links' = [links EXCEPT ![name] = NoLink]
            \/ links' = [links EXCEPT ![name] = Dir]
            \/ links' = [links EXCEPT ![name] = links[name]]
        BY <1>11 DEF Projects
      <3>. HIDE DEF name
      <3>. QED
        BY <3>1, <1>1
    <2>3. bridge' \in BridgeType /\ bridge'.run = bridge.run /\ bridge'.at # "idle"
            /\ bridge'.shared = bridge.shared /\ (bridge'.at = "project" => bridge'.step \in 1..6)
      <3>1. CASE bridge' = [bridge EXCEPT !.at = "done", !.result = "integrity"]
        BY <3>1, <1>5
      <3>2. CASE bridge' # [bridge EXCEPT !.at = "done", !.result = "integrity"]
        <4>1. PICK x \in {"rows", "project"} :
                /\ bridge' = [bridge EXCEPT !.at = x, !.step = bridge.step + 1]
                /\ bridge.step = 6 => x = "rows"
          BY <1>11, <3>2 DEF Projects, Ends, Projection
        <4>2. bridge.step \in 1..6
          BY <2>1 DEF RunOK
        <4>3. PICK k \in 0..7 : k = bridge.step + 1
          BY <4>2
        <4>4. /\ bridge' \in BridgeType /\ bridge'.run = bridge.run /\ bridge'.at = x
              /\ bridge'.shared = bridge.shared /\ bridge'.step = k
          BY ONLY x \in {"rows", "project"}, <4>1, k \in 0..7, <4>3, bridge \in BridgeType DEF BridgeType
        <4>. QED
          BY <4>1, <4>2, <4>3, <4>4
      <3>. QED
        BY <3>1, <3>2
    <2>. QED
      BY <2>1, <2>2, <2>3, <1>3
  <1>12. CASE ReadsRow
    <2>1. PICK n \in 0..Runs : bridge' = [bridge EXCEPT !.at = "summary", !.row = n]
      <3>1. disk[Dir].rows \in Seq(1..Runs)
        BY <1>2 DEF DirType
      <3>2. PICK n : n = IF disk[Dir].rows = << >> THEN 0 ELSE Head(disk[Dir].rows)
        OBVIOUS
      <3>3. n \in 0..Runs
        BY <3>1, <3>2, BridgeAssumption
      <3>4. bridge' = [bridge EXCEPT !.at = "summary", !.row = n]
        BY <3>2, <1>12 DEF ReadsRow
      <3>. QED
        BY <3>3, <3>4
    <2>2. bridge' \in BridgeType /\ bridge'.run = bridge.run /\ bridge'.at = "summary"
            /\ bridge'.shared = bridge.shared
      BY <2>1 DEF BridgeType
    <2>. QED
      BY <2>2, <1>3, <1>12 DEF ReadsRow
  <1>13. CASE Summarises
    <2>1. PICK n \in 0..Runs : bridge' = [bridge EXCEPT !.at = "exit", !.summary = n]
      <3>1. PICK n : n = IF Dir \notin WebOut /\ disk[Dir].final.whole
                           THEN disk[Dir].final.run ELSE 0
        OBVIOUS
      <3>2. n \in 0..Runs
        BY <1>2, <3>1, BridgeAssumption
      <3>3. bridge' = [bridge EXCEPT !.at = "exit", !.summary = n]
        BY <3>1, <1>13 DEF Summarises
      <3>. QED
        BY <3>2, <3>3
    <2>2. bridge' \in BridgeType /\ bridge'.run = bridge.run /\ bridge'.at = "exit"
            /\ bridge'.shared = bridge.shared
      BY <2>1 DEF BridgeType
    <2>. QED
      BY <2>2, <1>3, <1>13 DEF Summarises
  <1>14. CASE Shows
    <2>1. PICK n \in 0..Runs :
            bridge' = [bridge EXCEPT !.at = "done", !.result = "returned", !.shown = n]
      <3>1. PICK n : n = IF Ok THEN disk[Dir].final.run ELSE 0
        OBVIOUS
      <3>2. n \in 0..Runs
        BY <1>2, <3>1, BridgeAssumption
      <3>3. bridge' = [bridge EXCEPT !.at = "done", !.result = "returned", !.shown = n]
        BY <3>1, <1>14 DEF Shows
      <3>. QED
        BY <3>2, <3>3
    <2>2. bridge' \in BridgeType /\ bridge'.run = bridge.run /\ bridge'.at = "done"
            /\ bridge'.shared = bridge.shared
      BY <2>1 DEF BridgeType
    <2>. QED
      BY <2>2, <1>3, <1>14 DEF Shows
  <1>. QED
    BY <1>6, <1>7, <1>8, <1>9, <1>10, <1>11, <1>12, <1>13, <1>14 DEF BridgeStep

Inv0 == TypeOK /\ RunOK /\ DirOK

LEMMA TypeStep == Inv0 /\ [Next]_vars => Inv0'
  <1>. SUFFICES ASSUME Inv0, [Next]_vars PROVE Inv0'
    OBVIOUS
  <1>1. CASE \E d \in Dirs : Begins(d)
    BY <1>1, BeginsType DEF Inv0
  <1>2. CASE \E r \in 1..Runs : CliStep(r)
    BY <1>2, CliStepType DEF Inv0
  <1>3. CASE BridgeStep \/ ExtensionKills
    BY <1>3, BridgeStepType DEF Inv0
  <1>4. CASE UNCHANGED vars
    BY <1>4 DEF vars, Inv0, TypeOK, RunOK, DirOK, Run
  <1>. QED
    BY <1>1, <1>2, <1>3, <1>4 DEF Next

LEMMA Inv0Init == Init => Inv0
  <1>. SUFFICES ASSUME Init PROVE Inv0
    OBVIOUS
  <1>1. bridge.at = "idle" /\ \A r \in 1..Runs : cli[r].at = "none"
    BY DEF Init, NoBridge, NoCli
  <1>. QED
    BY <1>1, InitType DEF Inv0, RunOK, DirOK

\* The types of all that is kept (run_once, spawn.ts).
THEOREM BridgeTypes == Spec => []TypeOK
  <1>1. Inv0 => TypeOK
    BY DEF Inv0
  <1>. QED
    BY <1>1, Inv0Init, TypeStep, PTL DEF Spec

-----------------------------------------------------------------------------
(* What a step of a command line does                                      *)

Same(r) == disk'[cli[r].dir].trace = disk[cli[r].dir].trace
             /\ disk'[cli[r].dir].final = disk[cli[r].dir].final

LEMMA CliEffect ==
  ASSUME Inv0, NEW r \in 1..Runs, CliStep(r)
  PROVE  /\ cli[r].at \notin {"none", "gone"} /\ cli[r].dir \in Dirs
         /\ cli'[r].dir = cli[r].dir
         /\ \A q \in 1..Runs : q # r => cli'[q] = cli[q]
         /\ \A d \in Dirs : d # cli[r].dir => disk'[d] = disk[d]
         /\ UNCHANGED <<bridge, links>>
         /\ \/ cli'[r].at = "ran" /\ Same(r)
            \/ cli'[r].at = "metrics" /\ cli[r].at = "finalised" /\ Same(r)
            \/ /\ cli'[r].at \in {"trace", "traced"} /\ disk'[cli[r].dir].trace.run = r
               /\ disk'[cli[r].dir].final = disk[cli[r].dir].final
            \/ /\ cli'[r].at \in {"final", "finalised"} /\ disk'[cli[r].dir].final.run = r
               /\ disk'[cli[r].dir].trace = disk[cli[r].dir].trace
               /\ cli[r].at \in {"traced", "final"}
               /\ cli'[r].at = "finalised" => disk'[cli[r].dir].final.whole
            \/ cli'[r].at = "gone" /\ Same(r)
         /\ \/ cli'[r].returned = cli[r].returned
            \/ cli[r].at = "metrics" /\ cli'[r].at = "gone"
  <1>. USE DEF Inv0, TypeOK
  <1>1. cli[r] \in CliType /\ cli[r].at \notin {"none", "gone"} /\ cli[r].dir \in Dirs
    BY DEF CliStep, RunEnded, CliWrites, CliEnds, CliRaises, Writes, DirOK
  <1>2. PICK d \in Dirs : d = cli[r].dir
    BY <1>1
  <1>3. disk[d] \in DirType
    OBVIOUS
  <1>4. UNCHANGED <<bridge, links>>
    BY DEF CliStep, RunEnded, CliWrites, CliEnds, CliRaises
  <1>5. CASE RunEnded(r)
    <2>1. PICK o : cli' = [cli EXCEPT ![r] = [cli[r] EXCEPT !.at = "ran", !.code = o.code, !.ok = o.ok]]
      BY <1>5 DEF RunEnded
    <2>2. PICK c : c = [cli[r] EXCEPT !.at = "ran", !.code = o.code, !.ok = o.ok]
      OBVIOUS
    <2>3. c.at = "ran" /\ c.dir = cli[r].dir /\ c.returned = cli[r].returned
      BY <2>2, <1>1 DEF CliType
    <2>4. cli'[r] = c /\ \A q \in 1..Runs : q # r => cli'[q] = cli[q]
      BY <2>1, <2>2
    <2>5. disk' = disk
      BY <1>5 DEF RunEnded
    <2>. QED
      BY <1>1, <1>4, <2>3, <2>4, <2>5 DEF Same
  <1>6. CASE CliEnds(r)
    <2>1. PICK c : c = [cli[r] EXCEPT !.at = "gone", !.returned = TRUE]
      OBVIOUS
    <2>2. c.at = "gone" /\ c.dir = cli[r].dir
      BY <2>1, <1>1 DEF CliType
    <2>3. cli[r].at = "metrics" /\ cli'[r] = c /\ \A q \in 1..Runs : q # r => cli'[q] = cli[q]
      BY <2>1, <1>6 DEF CliEnds
    <2>4. PICK rows : disk' = [disk EXCEPT ![d] = [disk[d] EXCEPT !.rows = rows]]
      BY <1>2, <1>6 DEF CliEnds
    <2>5. PICK x : x = [disk[d] EXCEPT !.rows = rows]
      OBVIOUS
    <2>6. x.trace = disk[d].trace /\ x.final = disk[d].final
      BY <2>5, <1>3 DEF DirType
    <2>7. disk'[d] = x /\ \A e \in Dirs : e # d => disk'[e] = disk[e]
      BY <2>4, <2>5
    <2>. QED
      BY <1>1, <1>2, <1>4, <2>2, <2>3, <2>6, <2>7 DEF Same
  <1>7. CASE CliRaises(r)
    <2>1. PICK code : cli' = [cli EXCEPT ![r] = [cli[r] EXCEPT !.at = "gone", !.code = code]]
      BY <1>7 DEF CliRaises
    <2>2. PICK c : c = [cli[r] EXCEPT !.at = "gone", !.code = code]
      OBVIOUS
    <2>3. c.at = "gone" /\ c.dir = cli[r].dir /\ c.returned = cli[r].returned
      BY <2>2, <1>1 DEF CliType
    <2>4. cli'[r] = c /\ \A q \in 1..Runs : q # r => cli'[q] = cli[q]
      BY <2>1, <2>2
    <2>5. disk' = disk
      BY <1>7 DEF CliRaises
    <2>. QED
      BY <1>1, <1>4, <2>1, <2>3, <2>4, <2>5 DEF Same
  <1>8. CASE CliWrites(r)
    <2>1. PICK to : to = Writes[cli[r].at]
      OBVIOUS
    <2>2. \/ cli[r].at = "ran" /\ to = "trace"
          \/ cli[r].at = "trace" /\ to = "traced"
          \/ cli[r].at = "traced" /\ to = "final"
          \/ cli[r].at = "final" /\ to = "finalised"
          \/ cli[r].at = "finalised" /\ to = "metrics"
      <3>1. DOMAIN Writes = {"ran", "trace", "traced", "final", "finalised"}
        BY DEF Writes
      <3>2. cli[r].at \in {"ran", "trace", "traced", "final", "finalised"}
        BY <1>8, <3>1 DEF CliWrites
      <3>3. PICK a : a = cli[r].at
        OBVIOUS
      <3>4. to = Writes[a] /\ a \in {"ran", "trace", "traced", "final", "finalised"}
        BY <2>1, <3>2, <3>3
      <3>. QED
        BY ONLY <3>3, <3>4 DEF Writes
    <2>3. PICK c : c = [cli[r] EXCEPT !.at = to]
      OBVIOUS
    <2>4. c.at = to /\ c.dir = cli[r].dir /\ c.returned = cli[r].returned
      BY <2>3, <1>1 DEF CliType
    <2>5. cli'[r] = c /\ \A q \in 1..Runs : q # r => cli'[q] = cli[q]
      BY <2>1, <2>3, <1>8 DEF CliWrites
    <2>6. PICK f : f = File(r, to \in {"traced", "finalised"})
      OBVIOUS
    <2>7. f.run = r /\ (to = "finalised" => f.whole)
      BY <2>6 DEF File
    <2>8. PICK x : x = CASE to \in {"trace", "traced"} -> [disk[d] EXCEPT !.trace = f]
                         [] to \in {"final", "finalised"} -> [disk[d] EXCEPT !.final = f]
                         [] OTHER -> disk[d]
      OBVIOUS
    <2>9. /\ to \in {"trace", "traced"} => x.trace = f /\ x.final = disk[d].final
          /\ to \in {"final", "finalised"} => x.final = f /\ x.trace = disk[d].trace
          /\ to = "metrics" => x = disk[d]
      <3>1. to \in {"trace", "traced"} => x = [disk[d] EXCEPT !.trace = f]
        BY <2>8
      <3>2. to \in {"final", "finalised"} => x = [disk[d] EXCEPT !.final = f]
        BY <2>8
      <3>3. to = "metrics" => x = disk[d]
        BY <2>8
      <3>. QED
        BY <3>1, <3>2, <3>3, <1>3 DEF DirType
    <2>10. disk' = [disk EXCEPT ![d] = x]
      <3>1. /\ to = "trace" => f = File(r, to = "traced")
            /\ to = "traced" => f = File(r, to = "traced")
            /\ to = "final" => f = File(r, to = "finalised")
            /\ to = "finalised" => f = File(r, to = "finalised")
        BY <2>6
      <3>2. disk' = [disk EXCEPT ![d] =
              CASE to \in {"trace", "traced"} -> [disk[d] EXCEPT !.trace = File(r, to = "traced")]
                [] to \in {"final", "finalised"} -> [disk[d] EXCEPT !.final = File(r, to = "finalised")]
                [] OTHER -> disk[d]]
        BY <1>8, <1>2, <2>1 DEF CliWrites
      <3>. QED
        BY ONLY <2>2, <2>8, <3>1, <3>2
    <2>11. disk'[d] = x /\ \A e \in Dirs : e # d => disk'[e] = disk[e]
      BY <2>10
    <2>. QED
      BY <1>1, <1>2, <1>4, <2>2, <2>4, <2>5, <2>7, <2>9, <2>11 DEF Same
  <1>. QED
    BY <1>5, <1>6, <1>7, <1>8 DEF CliStep

-----------------------------------------------------------------------------
(* Files                                                                   *)

\* A file keeps the number of a run; a directory has its trace before its final.
FilesOK ==
  /\ \A d \in Dirs :
       /\ disk[d].final = NoFile \/ disk[d].final.run # 0
       /\ disk[d].final.run # 0 => disk[d].trace.run # 0
  /\ \A r \in 1..Runs :
       cli[r].at \in {"trace", "traced", "final", "finalised", "metrics"} =>
         disk[cli[r].dir].trace.run # 0

LEMMA FilesInit == Init => FilesOK
  <1>. SUFFICES ASSUME Init PROVE FilesOK
    OBVIOUS
  <1>1. \A d \in Dirs : disk[d].final = NoFile /\ disk[d].final.run = 0
    BY DEF Init, NoFile
  <1>2. \A r \in 1..Runs : cli[r].at = "none"
    BY DEF Init, NoCli
  <1>. QED
    BY <1>1, <1>2 DEF FilesOK

\* No file disappears.
LEMMA FilesStay ==
  ASSUME Inv0, FilesOK, [Next]_vars, NEW d \in Dirs
  PROVE  /\ disk[d].final.run # 0 => disk'[d].final.run # 0
         /\ disk[d].trace.run # 0 => disk'[d].trace.run # 0
  <1>1. CASE \E r \in 1..Runs : CliStep(r)
    <2>1. PICK r \in 1..Runs : CliStep(r)
      BY <1>1
    <2>2. CASE d # cli[r].dir
      BY <2>1, <2>2, CliEffect
    <2>3. CASE d = cli[r].dir
      <3>1. /\ \/ disk'[d].final = disk[d].final
               \/ disk'[d].final.run = r
            /\ \/ disk'[d].trace = disk[d].trace
               \/ disk'[d].trace.run = r
        BY <2>1, <2>3, CliEffect DEF Same
      <3>. QED
        BY <3>1
    <2>. QED
      BY <2>2, <2>3
  <1>2. CASE ~(\E r \in 1..Runs : CliStep(r))
    <2>1. disk' = disk
      BY <1>2 DEF Next, vars, Begins, BridgeStep, CliExited, TimesOut, Reaps, ReadsFinal, Points,
                  Projects, ReadsRow, Summarises, Shows, ExtensionKills
    <2>. QED
      BY <2>1
  <1>. QED
    BY <1>1, <1>2

LEMMA FilesStep == Inv0 /\ FilesOK /\ [Next]_vars => FilesOK'
  <1>. SUFFICES ASSUME Inv0, FilesOK, [Next]_vars PROVE FilesOK'
    OBVIOUS
  <1>1. CASE \E r \in 1..Runs : CliStep(r)
    <2>1. PICK r \in 1..Runs : CliStep(r)
      BY <1>1
    <2>2. PICK c : c = cli[r].dir
      OBVIOUS
    <2>3. ASSUME NEW d \in Dirs
          PROVE  /\ disk'[d].final = NoFile \/ disk'[d].final.run # 0
                 /\ disk'[d].final.run # 0 => disk'[d].trace.run # 0
      <3>1. CASE d # cli[r].dir
        BY <3>1, <2>1, CliEffect DEF FilesOK
      <3>2. CASE d = cli[r].dir
        BY <3>2, <2>1, CliEffect DEF FilesOK, Same
      <3>. QED
        BY <3>1, <3>2
    <2>4. ASSUME NEW q \in 1..Runs,
                 cli'[q].at \in {"trace", "traced", "final", "finalised", "metrics"}
          PROVE  disk'[cli'[q].dir].trace.run # 0
      <3>1. CASE q # r
        <4>1. cli'[q] = cli[q] /\ cli[q].at # "none"
          BY <3>1, <2>1, <2>4, CliEffect
        <4>2. cli[q].dir \in Dirs /\ disk[cli[q].dir].trace.run # 0
          BY <4>1, <2>4 DEF FilesOK, Inv0, DirOK
        <4>. QED
          BY <4>1, <4>2, FilesStay
      <3>2. CASE q = r
        BY <3>2, <2>1, <2>4, CliEffect DEF FilesOK, Same
      <3>. QED
        BY <3>1, <3>2
    <2>. QED
      BY <2>3, <2>4 DEF FilesOK
  <1>2. CASE \E d \in Dirs : Begins(d)
    <2>1. PICK d \in Dirs : Begins(d)
      BY <1>2
    <2>2. disk' = disk
      BY <2>1 DEF Begins
    <2>3. cli'[bridge.run + 1].at = "run"
      BY <2>1, BeginsType DEF Inv0
    <2>4. \A q \in 1..Runs : q # bridge.run + 1 => cli'[q] = cli[q]
      BY <2>1 DEF Begins, Inv0, TypeOK
    <2>. QED
      BY <2>2, <2>3, <2>4 DEF FilesOK
  <1>3. CASE TimesOut
    <2>1. disk' = disk /\ Run \in 1..Runs
      BY <1>3 DEF TimesOut, Inv0, RunOK
    <2>2. cli'[Run].at = "gone" /\ \A q \in 1..Runs : q # Run => cli'[q] = cli[q]
      BY <1>3, <2>1 DEF TimesOut, Killed, Inv0, TypeOK, CliType
    <2>. QED
      BY <2>1, <2>2 DEF FilesOK
  <1>4. CASE UNCHANGED <<disk, cli>>
    BY <1>4 DEF FilesOK
  <1>. QED
    BY <1>1, <1>2, <1>3, <1>4 DEF Next, vars, BridgeStep, CliExited, Reaps, ReadsFinal, Points,
                  Projects, ReadsRow, Summarises, Shows, ExtensionKills

-----------------------------------------------------------------------------
(* What a run is told                                                      *)

Reading == {"read", "pointer", "project", "rows", "summary", "exit"}
Returned == bridge.result = "returned"

\* Nobody else writes where the run of a bridge writes.
Alone ==
  bridge.at \in {"wait"} \cup Reading /\ ~bridge.shared =>
    \A q \in 1..Runs : q # Run /\ Alive(q) => cli[q].dir # Dir

\* The command line is over before anything is read.
Over ==
  /\ bridge.result # "none" => bridge.at = "done"
  /\ bridge.at \in Reading \/ Returned => cli[Run].at = "gone"

\* A run whose command line came to its end has left its own final.
Left ==
  /\ bridge.at \in {"wait"} \cup Reading /\ ~bridge.shared
  /\ \/ cli[Run].at \in {"finalised", "metrics"}
     \/ cli[Run].at = "gone" /\ cli[Run].returned
Written == Left => disk[Dir].final.run = Run /\ disk[Dir].final.whole

\* What has been read is of the run.
Told ==
  cli[Run].returned /\ ~bridge.shared =>
    /\ bridge.at \in Reading \ {"read"} \/ Returned => bridge.final.run = Run
    /\ bridge.at \in Reading \ {"read", "pointer"} \/ Returned => bridge.sha = Run
    /\ bridge.at = "exit" \/ Returned => bridge.summary \in {0, Run}
    /\ Returned => bridge.shown \in {0, Run}

OwnInv == Alone /\ Over /\ Written /\ Told

\* A command line that came to its end is gone.
EndedGone == \A r \in 1..Runs : cli[r].returned => cli[r].at = "gone"

LEMMA EndedInit == Init => EndedGone
  BY DEF Init, NoCli, EndedGone

LEMMA EndedStep == Inv0 /\ EndedGone /\ [Next]_vars => EndedGone'
  <1>. SUFFICES ASSUME Inv0, EndedGone, [Next]_vars, NEW r \in 1..Runs, cli'[r].returned
                PROVE  cli'[r].at = "gone"
    BY DEF EndedGone
  <1>. USE DEF Inv0, TypeOK
  <1>0. cli \in [1..Runs -> CliType] /\ (cli[r].returned => cli[r].at = "gone")
    BY DEF EndedGone
  <1>1. ASSUME NEW q \in 1..Runs, CliStep(q) PROVE cli'[r].at = "gone"
    <2>1. CASE q = r
      BY <1>0, <1>1, <2>1, CliEffect
    <2>2. CASE q # r
      BY <1>0, <1>1, <2>2, CliEffect
    <2>. QED
      BY <2>1, <2>2
  <1>2. ASSUME NEW d \in Dirs, Begins(d) PROVE cli'[r].at = "gone"
    <2>1. PICK c : c = [NoCli EXCEPT !.at = "run", !.dir = d]
      OBVIOUS
    <2>2. ~c.returned /\ cli' = [cli EXCEPT ![bridge.run + 1] = c]
      BY <1>2, <2>1 DEF Begins, NoCli
    <2>. QED
      BY <1>0, <2>2
  <1>3. CASE TimesOut
    <2>1. PICK c : c = [cli[Run] EXCEPT !.at = "gone"]
      OBVIOUS
    <2>2. cli' = [cli EXCEPT ![Run] = c]
      BY <1>3, <2>1 DEF TimesOut, Killed
    <2>3. CASE r = Run
      <3>1. cli'[r].at = "gone"
        BY <1>0, <2>1, <2>2, <2>3 DEF CliType
      <3>. QED
        BY <3>1
    <2>4. CASE r # Run
      BY <1>0, <2>2, <2>4
    <2>. QED
      BY <2>3, <2>4
  <1>4. CASE cli' = cli
    BY <1>0, <1>4
  <1>. QED
    BY <1>1, <1>2, <1>3, <1>4 DEF Next, vars, BridgeStep, CliExited, Reaps, ReadsFinal, Points,
       Projects, ReadsRow, Summarises, Shows, ExtensionKills

LEMMA OwnInit == Init => OwnInv
  <1>. SUFFICES ASSUME Init PROVE OwnInv
    OBVIOUS
  <1>1. bridge.at = "idle" /\ bridge.result = "none"
    BY DEF Init, NoBridge
  <1>. QED
    BY <1>1 DEF OwnInv, Alone, Over, Written, Left, Told, Returned, Reading

LEMMA OwnCli ==
  ASSUME Inv0, EndedGone, OwnInv, NEW r \in 1..Runs, CliStep(r)
  PROVE  OwnInv'
  <1>1. /\ cli[r].at \notin {"none", "gone"} /\ cli'[r].dir = cli[r].dir
        /\ \A q \in 1..Runs : q # r => cli'[q] = cli[q]
        /\ \A d \in Dirs : d # cli[r].dir => disk'[d] = disk[d]
        /\ bridge' = bridge
    BY CliEffect
  <1>2. CASE bridge.at = "idle"
    BY <1>1, <1>2 DEF OwnInv, Alone, Over, Written, Left, Told, Returned, Reading
  <1>3. CASE bridge.at # "idle"
    <2>1. Run \in 1..Runs /\ cli[Run].at # "none" /\ Dir \in Dirs /\ Run' = Run /\ Dir' = Dir
      BY <1>1, <1>3 DEF Inv0, RunOK, DirOK, Dir, Run
    <2>2. Alone'
      BY <1>1, <2>1 DEF OwnInv, Alone, Alive
    <2>3. CASE r = Run
      <3>1. ~Returned /\ bridge.at \notin Reading
        BY <2>3, <1>1 DEF OwnInv, Over
      <3>2. Written'
        <4>. SUFFICES ASSUME Left' PROVE disk'[Dir].final.run = Run /\ disk'[Dir].final.whole
          BY <2>1 DEF Written
        <4>1. bridge.at \in {"wait"} \cup Reading /\ ~bridge.shared
          BY <1>1 DEF Left
        <4>2. \/ cli'[r].at \in {"finalised", "metrics"}
              \/ cli'[r].at = "gone" /\ cli'[r].returned
          BY <2>1, <2>3 DEF Left
        <4>3. cli[r].dir = Dir
          BY <2>3 DEF Dir
        <4>4. CASE cli[r].at \in {"finalised", "metrics"} /\ Same(r)
          <5>1. disk[Dir].final.run = Run /\ disk[Dir].final.whole
            BY <4>1, <4>4, <2>3 DEF OwnInv, Written, Left
          <5>. QED
            BY <4>3, <4>4, <5>1 DEF Same
        <4>5. CASE cli'[r].at = "finalised"
          BY <4>3, <4>5, <2>3, CliEffect
        <4>6. ~cli[r].returned
          BY <1>1 DEF EndedGone
        <4>. QED
          BY <4>2, <4>4, <4>5, <4>6, CliEffect
      <3>. QED
        BY <1>1, <2>1, <2>2, <3>1, <3>2 DEF OwnInv, Over, Told, Returned, Reading
    <2>4. CASE r # Run
      <3>1. cli'[Run] = cli[Run]
        BY <1>1, <2>1, <2>4
      <3>2. Written'
        <4>. SUFFICES ASSUME Left' PROVE disk'[Dir].final.run = Run /\ disk'[Dir].final.whole
          BY <2>1 DEF Written
        <4>1. Left
          BY <1>1, <2>1, <3>1 DEF Left
        <4>2. cli[r].dir # Dir
          BY <4>1, <1>1, <2>4 DEF Left, OwnInv, Alone, Alive
        <4>. QED
          BY <4>1, <4>2, <1>1, <2>1 DEF OwnInv, Written
      <3>. QED
        BY <1>1, <2>1, <2>2, <3>1, <3>2 DEF OwnInv, Over, Told, Returned
    <2>. QED
      BY <2>3, <2>4
  <1>. QED
    BY <1>2, <1>3

LEMMA OwnBegins ==
  ASSUME Inv0, OwnInv, NEW d \in Dirs, Begins(d)
  PROVE  OwnInv'
  <1>1. /\ bridge'.run = bridge.run + 1 /\ bridge'.at = "wait" /\ bridge'.result = "none"
        /\ cli'[bridge.run + 1].dir = d /\ cli'[bridge.run + 1].at = "run"
    BY BeginsType DEF Inv0
  <1>2. PICK sh \in BOOLEAN : sh = (\E q \in 1..Runs : Alive(q) /\ cli[q].dir = d)
    OBVIOUS
  <1>3. bridge'.shared = sh
    <2>1. bridge' = [NoBridge EXCEPT !.at = "wait", !.run = bridge.run + 1, !.shared = sh]
      BY <1>2 DEF Begins
    <2>. QED
      BY <2>1 DEF NoBridge
  <1>4. \A q \in 1..Runs : q # bridge.run + 1 => cli'[q] = cli[q]
    BY DEF Begins, Inv0, TypeOK
  <1>5. Alone'
    BY <1>1, <1>2, <1>3, <1>4 DEF Alone, Alive, Run, Dir
  <1>. QED
    BY <1>1, <1>5 DEF OwnInv, Over, Written, Left, Told, Returned, Reading, Run

LEMMA OwnBridge ==
  ASSUME Inv0, FilesOK, OwnInv, BridgeStep \/ ExtensionKills
  PROVE  OwnInv'
  <1>1. bridge \in BridgeType /\ Run \in 1..Runs /\ cli[Run].at # "none" /\ Dir \in Dirs
    BY DEF Inv0, TypeOK, RunOK, DirOK, Run, Dir, BridgeStep, CliExited, TimesOut, Reaps, ReadsFinal,
           Points, Projects, ReadsRow, Summarises, Shows, ExtensionKills
  <1>2. bridge'.run = bridge.run /\ bridge'.shared = bridge.shared /\ Run' = Run
    BY BridgeStepType DEF Inv0, Run
  <1>3. bridge.at # "done" /\ bridge.result = "none"
    BY DEF OwnInv, Over, BridgeStep, CliExited, TimesOut, Reaps, ReadsFinal,
           Points, Projects, ReadsRow, Summarises, Shows, ExtensionKills
  \* Nothing is said of a bridge that ends without having returned.
  <1>4. ASSUME bridge'.at \in {"reap", "done"}, bridge'.result # "returned",
               bridge'.result # "none" => bridge'.at = "done"
        PROVE  OwnInv'
    BY <1>4 DEF OwnInv, Alone, Over, Written, Left, Told, Returned, Reading
  \* A bridge that reads on.
  <1>5. ASSUME bridge.at \in Reading, bridge'.at \in Reading, bridge'.result = "none",
               UNCHANGED <<disk, cli>>, Told'
        PROVE  OwnInv'
    <2>1. Dir' = Dir
      BY <1>2, <1>5 DEF Dir
    <2>2. Alone'
      BY <1>2, <1>5, <2>1 DEF OwnInv, Alone, Alive
    <2>3. Written'
      BY <1>2, <1>5, <2>1 DEF OwnInv, Written, Left
    <2>4. Over'
      BY <1>2, <1>5 DEF OwnInv, Over, Returned
    <2>. QED
      BY <1>5, <2>2, <2>3, <2>4 DEF OwnInv
  \* What a command line that came to its end has left.
  <1>6. bridge.at \in Reading /\ cli[Run].returned /\ ~bridge.shared
          => disk[Dir].final.run = Run /\ disk[Dir].final # NoFile /\ disk[Dir].final.whole
    BY <1>1 DEF OwnInv, Over, Written, Left, NoFile
  <1>7. CASE CliExited
    <2>1. bridge' = [bridge EXCEPT !.at = "read"] /\ UNCHANGED <<disk, cli>> /\ cli[Run].at = "gone"
            /\ bridge.at = "wait"
      BY <1>7, <1>1 DEF CliExited, Goes, Alive
    <2>2. bridge'.at = "read" /\ bridge'.result = "none"
      BY <2>1, <1>1, <1>3 DEF BridgeType
    <2>3. Dir' = Dir
      BY <1>2, <2>1 DEF Dir
    <2>4. Alone'
      BY <1>2, <2>1, <2>2, <2>3 DEF OwnInv, Alone, Alive
    <2>5. Written'
      BY <1>2, <2>1, <2>2, <2>3 DEF OwnInv, Written, Left
    <2>. QED
      BY <1>2, <2>1, <2>2, <2>4, <2>5 DEF OwnInv, Over, Told, Returned
  <1>8. CASE TimesOut
    <2>1. bridge' = [bridge EXCEPT !.at = "reap"]
      BY <1>8 DEF TimesOut, Goes
    <2>2. bridge'.at = "reap" /\ bridge'.result = "none"
      BY <2>1, <1>1, <1>3 DEF BridgeType
    <2>. QED
      BY <2>2, <1>4
  <1>9. ASSUME NEW x \in {"timeout", "artifact", "integrity", "killed"},
               bridge' = [bridge EXCEPT !.at = "done", !.result = x]
        PROVE  OwnInv'
    <2>1. bridge'.at = "done" /\ bridge'.result = x
      BY <1>9, <1>1 DEF BridgeType
    <2>. QED
      BY <2>1, <1>4
  <1>10. CASE Reaps \/ ExtensionKills
    BY <1>9, <1>10 DEF Reaps, ExtensionKills, Ends
  <1>11. CASE ReadsFinal
    <2>1. bridge.at = "read" /\ UNCHANGED <<disk, cli>>
      BY <1>11 DEF ReadsFinal
    <2>2. CASE disk[Dir].final = NoFile /\ bridge' = [bridge EXCEPT !.at = "summary"]
      <3>1. bridge'.at = "summary" /\ bridge'.result = "none"
        BY <2>2, <1>1, <1>3 DEF BridgeType
      <3>2. ~(cli[Run].returned /\ ~bridge.shared)
        BY <1>6, <2>1, <2>2 DEF Reading
      <3>3. Told'
        BY <3>2, <2>1, <1>2 DEF Told
      <3>. QED
        BY <1>5, <2>1, <3>1, <3>3 DEF Reading
    <2>3. CASE bridge' = [bridge EXCEPT !.at = "pointer", !.final = disk[Dir].final]
      <3>1. bridge'.at = "pointer" /\ bridge'.result = "none" /\ bridge'.final = disk[Dir].final
        BY <2>3, <1>1, <1>3 DEF BridgeType
      <3>2. Told'
        BY <3>1, <1>6, <2>1, <1>2 DEF Told, Returned, Reading
      <3>. QED
        BY <1>5, <2>1, <3>1, <3>2 DEF Reading
    <2>. QED
      BY <1>9, <1>11, <2>2, <2>3 DEF ReadsFinal, Goes, Ends
  <1>12. CASE Points
    <2>1. PICK n, k : bridge' = [bridge EXCEPT !.at = "project", !.sha = n, !.step = k]
                        /\ n = disk[Dir].final.run
      BY <1>12 DEF Points
    <2>2. bridge'.at = "project" /\ bridge'.result = "none" /\ bridge'.sha = n
            /\ bridge'.final = bridge.final
      BY <2>1, <1>1, <1>3 DEF BridgeType
    <2>3. bridge.at = "pointer" /\ UNCHANGED <<disk, cli>>
      BY <1>12 DEF Points
    <2>4. Told'
      BY <2>1, <2>2, <2>3, <1>6, <1>2 DEF OwnInv, Told, Returned, Reading
    <2>. QED
      BY <1>5, <2>2, <2>3, <2>4 DEF Reading
  <1>13. CASE Projects
    <2>1. bridge.at = "project" /\ UNCHANGED <<disk, cli>>
      BY <1>13 DEF Projects
    <2>2. CASE bridge' = [bridge EXCEPT !.at = "done", !.result = "integrity"]
      BY <2>2, <1>9
    <2>3. CASE bridge' # [bridge EXCEPT !.at = "done", !.result = "integrity"]
      <3>1. PICK x \in {"rows", "project"} :
              bridge' = [bridge EXCEPT !.at = x, !.step = bridge.step + 1]
        BY <2>3, <1>13 DEF Projects, Ends
      <3>2. bridge'.at = x /\ bridge'.result = "none" /\ bridge'.sha = bridge.sha
              /\ bridge'.final = bridge.final
        BY <3>1, <1>1, <1>3 DEF BridgeType
      <3>3. Told'
        BY <3>2, <2>1, <1>2 DEF OwnInv, Told, Returned, Reading
      <3>. QED
        BY <1>5, <2>1, <3>2, <3>3 DEF Reading
    <2>. QED
      BY <2>2, <2>3
  <1>14. CASE ReadsRow
    <2>1. PICK n : bridge' = [bridge EXCEPT !.at = "summary", !.row = n]
      BY <1>14 DEF ReadsRow
    <2>2. bridge'.at = "summary" /\ bridge'.result = "none" /\ bridge'.sha = bridge.sha
            /\ bridge'.final = bridge.final
      BY <2>1, <1>1, <1>3 DEF BridgeType
    <2>3. bridge.at = "rows" /\ UNCHANGED <<disk, cli>>
      BY <1>14 DEF ReadsRow
    <2>4. Told'
      BY <2>2, <2>3, <1>2 DEF OwnInv, Told, Returned, Reading
    <2>. QED
      BY <1>5, <2>2, <2>3, <2>4 DEF Reading
  <1>15. CASE Summarises
    <2>1. PICK n : /\ bridge' = [bridge EXCEPT !.at = "exit", !.summary = n]
                   /\ n = IF Dir \notin WebOut /\ disk[Dir].final.whole
                             THEN disk[Dir].final.run ELSE 0
      BY <1>15 DEF Summarises
    <2>2. bridge'.at = "exit" /\ bridge'.result = "none" /\ bridge'.sha = bridge.sha
            /\ bridge'.final = bridge.final /\ bridge'.summary = n
      BY <2>1, <1>1, <1>3 DEF BridgeType
    <2>3. bridge.at = "summary" /\ UNCHANGED <<disk, cli>>
      BY <1>15 DEF Summarises
    <2>4. Told'
      BY <2>1, <2>2, <2>3, <1>6, <1>2 DEF OwnInv, Told, Returned, Reading
    <2>. QED
      BY <1>5, <2>2, <2>3, <2>4 DEF Reading
  <1>16. CASE Shows
    <2>1. PICK n : /\ bridge' = [bridge EXCEPT !.at = "done", !.result = "returned", !.shown = n]
                   /\ n = IF Ok THEN disk[Dir].final.run ELSE 0
      BY <1>16 DEF Shows
    <2>2. bridge'.at = "done" /\ bridge'.result = "returned" /\ bridge'.sha = bridge.sha
            /\ bridge'.final = bridge.final /\ bridge'.summary = bridge.summary /\ bridge'.shown = n
      BY <2>1, <1>1 DEF BridgeType
    <2>3. bridge.at = "exit" /\ UNCHANGED <<disk, cli>>
      BY <1>16 DEF Shows
    <2>4. Told'
      BY <2>1, <2>2, <2>3, <1>6, <1>2 DEF OwnInv, Told, Returned, Reading
    <2>5. Over'
      BY <2>2, <2>3, <1>2 DEF OwnInv, Over, Returned, Reading
    <2>. QED
      BY <2>2, <2>4, <2>5 DEF OwnInv, Alone, Written, Left, Reading
  <1>. QED
    BY <1>7, <1>8, <1>10, <1>11, <1>12, <1>13, <1>14, <1>15, <1>16 DEF BridgeStep

LEMMA OwnStep == Inv0 /\ FilesOK /\ EndedGone /\ OwnInv /\ [Next]_vars => OwnInv'
  <1>. SUFFICES ASSUME Inv0, FilesOK, EndedGone, OwnInv, [Next]_vars PROVE OwnInv'
    OBVIOUS
  <1>1. CASE UNCHANGED vars
    BY <1>1 DEF vars, OwnInv, Alone, Over, Written, Left, Told, Returned, Run, Dir, Alive
  <1>. QED
    BY <1>1, OwnCli, OwnBegins, OwnBridge DEF Next

\* A run whose command line came to its end, whatever its exit code, is told its own result,
\* hash and summary, unless the command line of a bridge that was killed still writes to its
\* directory (run_once, create_pointer_payload, derive_summary).
THEOREM RunsAreToldTheirOwn == Spec => []OwnResult
  <1>1. OwnInv => OwnResult
    BY DEF OwnInv, Told, Returned, OwnResult
  <1>. QED
    BY <1>1, Inv0Init, TypeStep, FilesInit, FilesStep, EndedInit, EndedStep, OwnInit, OwnStep,
       PTL DEF Spec

-----------------------------------------------------------------------------
(* The projection                                                          *)

\* Where the projection is while it is made, and after.
LinksInv ==
  /\ {links["trace"], links["final"]} \subseteq Dirs => links["trace"] = links["final"]
  /\ bridge.at \in {"wait", "reap", "read"} => bridge.sha = 0
  /\ bridge.at \in {"pointer", "project"} => disk[Dir].final.run # 0
  /\ bridge.at = "project" =>
       /\ bridge.step \in 2..4 => links["trace"] = NoLink
       /\ bridge.step \in 3..5 => links["final"] = NoLink
       /\ bridge.step \in 5..6 => links["trace"] = Dir
       /\ bridge.step = 6 => links["final"] = Dir
  /\ (bridge.at \in {"rows", "summary", "exit"} \/ Returned) /\ bridge.sha # 0 =>
       links["trace"] = Dir /\ links["final"] = Dir

LEMMA LinksInit == Init => LinksInv
  <1>. SUFFICES ASSUME Init PROVE LinksInv
    OBVIOUS
  <1>1. bridge.at = "idle" /\ bridge.result = "none"
    BY DEF Init, NoBridge
  <1>2. links["trace"] \in {NoLink, Foreign}
    BY NamesSet DEF Init
  <1>3. links["trace"] \notin Dirs
    BY <1>2, BridgeAssumption
  <1>. QED
    BY <1>1, <1>3 DEF LinksInv, Returned

\* The six steps: three names are unlinked, then linked.
LEMMA ProjectionSteps ==
  ASSUME NEW st \in 1..6
  PROVE  /\ Unlinks(st) <=> st \in 1..3
         /\ Names[Projection[st]] = IF st \in {1, 4} THEN "trace"
                                    ELSE IF st \in {2, 5} THEN "final" ELSE "artifacts"
         /\ Len(Projection) = 6
  <1>1. Projection = <<1, 2, 3, 1, 2, 3>> /\ Names = <<"trace", "final", "artifacts">>
    BY DEF Projection, Names
  <1>2. /\ Projection[1] = 1 /\ Projection[2] = 2 /\ Projection[3] = 3
        /\ Projection[4] = 1 /\ Projection[5] = 2 /\ Projection[6] = 3
        /\ Len(Projection) = 6
    BY <1>1
  <1>3. Names[1] = "trace" /\ Names[2] = "final" /\ Names[3] = "artifacts"
    BY <1>1
  <1>4. st = 1 \/ st = 2 \/ st = 3 \/ st = 4 \/ st = 5 \/ st = 6
    OBVIOUS
  <1>5. Unlinks(st) <=> st \in 1..3
    BY <1>2, <1>4 DEF Unlinks
  <1>. QED
    BY <1>2, <1>3, <1>4, <1>5

LEMMA LinksProject ==
  ASSUME Inv0, FilesOK, OwnInv, LinksInv, Projects
  PROVE  LinksInv'
  <1>1. /\ bridge \in BridgeType /\ Run \in 1..Runs /\ Dir \in Dirs /\ bridge.at = "project"
        /\ bridge.step \in 1..6 /\ UNCHANGED <<disk, cli>>
        /\ bridge'.run = bridge.run
    BY BridgeStepType DEF BridgeStep, Projects, Inv0, TypeOK, RunOK, DirOK, Run, Dir
  <1>2. /\ links \in [{"trace", "final", "artifacts"} -> Dirs \cup {NoLink, Foreign}]
        /\ Dir' = Dir /\ disk[Dir].final.run # 0
        /\ Dirs \cap {NoLink, Foreign} = {}
    BY <1>1, NamesSet, BridgeAssumption DEF Inv0, TypeOK, Dir, Run, LinksInv
  <1>3. Source("trace") /\ Source("final")
    BY <1>1, <1>2 DEF FilesOK, Source, NoFile
  <1>4. PICK st \in 1..6 : st = bridge.step
    BY <1>1
  <1>5. CASE /\ bridge' = [bridge EXCEPT !.at = "done", !.result = "integrity"] /\ links' = links
    <2>1. bridge'.at = "done" /\ bridge'.result = "integrity"
      BY <1>1, <1>5 DEF BridgeType
    <2>. QED
      BY <1>5, <2>1 DEF LinksInv, Returned
  <1>6. CASE ~(/\ bridge' = [bridge EXCEPT !.at = "done", !.result = "integrity"] /\ links' = links)
    <2>1. PICK x, k, n :
            /\ bridge' = [bridge EXCEPT !.at = x, !.step = k]
            /\ x = IF st = 6 THEN "rows" ELSE "project"
            /\ k = st + 1
            /\ n = Names[Projection[st]]
            /\ links' = [links EXCEPT ![n] = IF Unlinks(st) THEN NoLink
                                             ELSE IF Source(n) THEN Dir ELSE links[n]]
      <3>1. PICK n, x, k : /\ n = Names[Projection[bridge.step]] /\ k = bridge.step + 1
                           /\ x = IF bridge.step = Len(Projection) THEN "rows" ELSE "project"
        OBVIOUS
      <3>2. links[n] # Foreign
        BY <1>6, <3>1 DEF Projects, Ends
      <3>3. /\ bridge' = [bridge EXCEPT !.at = x, !.step = k]
            /\ links' = [links EXCEPT ![n] = IF Unlinks(bridge.step) THEN NoLink
                                             ELSE IF Source(n) THEN Dir ELSE links[n]]
        BY <3>1, <3>2 DEF Projects
      <3>4. Len(Projection) = 6
        BY ProjectionSteps
      <3>. QED
        BY <3>1, <3>3, <3>4, <1>4
    <2>2. bridge'.at = x /\ bridge'.step = k /\ bridge'.result = bridge.result
            /\ bridge'.sha = bridge.sha
      BY <2>1, <1>1 DEF BridgeType
    <2>3. /\ links["trace"] \in Dirs /\ links["final"] \in Dirs => links["trace"] = links["final"]
          /\ st \in 2..4 => links["trace"] = NoLink
          /\ st \in 3..5 => links["final"] = NoLink
          /\ st \in 5..6 => links["trace"] = Dir
          /\ st = 6 => links["final"] = Dir
      BY <1>1, <1>4 DEF LinksInv
    <2>4. n = IF st \in {1, 4} THEN "trace" ELSE IF st \in {2, 5} THEN "final" ELSE "artifacts"
      BY <2>1, ProjectionSteps
    <2>5. /\ st = 1 => links'["trace"] = NoLink /\ links'["final"] = links["final"]
          /\ st = 2 => links'["final"] = NoLink /\ links'["trace"] = links["trace"]
          /\ st = 4 => links'["trace"] = Dir /\ links'["final"] = links["final"]
          /\ st = 5 => links'["final"] = Dir /\ links'["trace"] = links["trace"]
          /\ st \in {3, 6} => links'["final"] = links["final"] /\ links'["trace"] = links["trace"]
      BY <1>2, <1>3, <2>1, <2>4, ProjectionSteps
    <2>6. NoLink \notin Dirs
      BY <1>2
    <2>7. st = 1 \/ st = 2 \/ st = 3 \/ st = 4 \/ st = 5 \/ st = 6
      OBVIOUS
    <2>8. {links'["trace"], links'["final"]} \subseteq Dirs => links'["trace"] = links'["final"]
      BY <2>3, <2>5, <2>6, <2>7
    <2>9. st # 6 => /\ k \in 2..4 => links'["trace"] = NoLink
                    /\ k \in 3..5 => links'["final"] = NoLink
                    /\ k \in 5..6 => links'["trace"] = Dir
                    /\ k = 6 => links'["final"] = Dir
      BY <2>1, <2>3, <2>5, <2>7
    <2>10. st = 6 => links'["trace"] = Dir /\ links'["final"] = Dir
      BY <2>3, <2>5
    <2>11. bridge'.at = IF st = 6 THEN "rows" ELSE "project"
      BY <2>1, <2>2
    <2>12. bridge.result = "none"
      BY <1>1 DEF OwnInv, Over
    <2>13. (bridge'.at \in {"rows", "summary", "exit"} \/ Returned') /\ bridge'.sha # 0 =>
             links'["trace"] = Dir /\ links'["final"] = Dir
      <3>1. CASE st = 6
        BY <3>1, <2>10
      <3>2. CASE st # 6
        <4>1. bridge'.at = "project"
          BY <3>2, <2>11
        <4>. QED
          BY <4>1, <2>2, <2>12 DEF Returned
      <3>. QED
        BY <3>1, <3>2
    <2>. QED
      BY <1>1, <1>2, <2>2, <2>8, <2>9, <2>11, <2>13 DEF LinksInv
  <1>. QED
    BY <1>5, <1>6

LEMMA LinksStep == Inv0 /\ FilesOK /\ OwnInv /\ LinksInv /\ [Next]_vars => LinksInv'
  <1>. SUFFICES ASSUME Inv0, FilesOK, OwnInv, LinksInv, [Next]_vars PROVE LinksInv'
    OBVIOUS
  <1>1. CASE \E r \in 1..Runs : CliStep(r)
    <2>1. PICK r \in 1..Runs : CliStep(r)
      BY <1>1
    <2>2. /\ bridge' = bridge /\ links' = links
          /\ \A q \in 1..Runs : cli'[q].dir = cli[q].dir
      BY <2>1, CliEffect
    <2>3. bridge.at # "idle" => Dir \in Dirs /\ Dir' = Dir
      BY <2>2 DEF Inv0, RunOK, DirOK, Run, Dir
    <2>4. \A d \in Dirs : disk[d].final.run # 0 => disk'[d].final.run # 0
      BY FilesStay
    <2>5. Returned => bridge.at = "done"
      BY DEF OwnInv, Over, Returned
    <2>. QED
      BY <2>2, <2>3, <2>4, <2>5 DEF LinksInv, Returned
  <1>2. CASE \E d \in Dirs : Begins(d)
    <2>1. PICK d \in Dirs : Begins(d)
      BY <1>2
    <2>2. bridge'.at = "wait" /\ bridge'.result = "none"
      BY <2>1, BeginsType DEF Inv0
    <2>3. PICK n, sh : bridge' = [NoBridge EXCEPT !.at = "wait", !.run = n, !.shared = sh]
      BY <2>1 DEF Begins
    <2>4. bridge'.sha = 0 /\ links' = links
      BY <2>1, <2>3 DEF NoBridge, Begins
    <2>. QED
      BY <2>2, <2>4 DEF LinksInv, Returned
  <1>3. CASE Projects
    BY <1>3, LinksProject
  <1>4. CASE (BridgeStep /\ ~Projects) \/ ExtensionKills
    <2>1. bridge \in BridgeType /\ Run \in 1..Runs /\ Dir \in Dirs
      BY <1>4 DEF Inv0, TypeOK, RunOK, DirOK, Run, Dir, BridgeStep, CliExited, TimesOut, Reaps,
           ReadsFinal, Points, Projects, ReadsRow, Summarises, Shows, ExtensionKills
    <2>2. links' = links /\ disk' = disk /\ bridge'.run = bridge.run /\ bridge.result = "none"
      <3>1. links' = links /\ disk' = disk /\ bridge.at # "done"
        BY <1>4 DEF BridgeStep, CliExited, TimesOut, Reaps, ReadsFinal, Points, ReadsRow, Summarises,
                    Shows, ExtensionKills
      <3>2. bridge'.run = bridge.run
        BY <1>4, BridgeStepType DEF Inv0
      <3>. QED
        BY <3>1, <3>2 DEF OwnInv, Over
    <2>3. cli'[Run].dir = cli[Run].dir
      <3>1. CASE TimesOut
        BY <3>1, <2>1 DEF TimesOut, Inv0, TypeOK, CliType
      <3>2. CASE ~TimesOut
        BY <3>2, <1>4 DEF BridgeStep, CliExited, Reaps, ReadsFinal, Points, ReadsRow, Summarises,
                    Shows, ExtensionKills
      <3>. QED
        BY <3>1, <3>2
    <2>4. Dir' = Dir
      BY <2>2, <2>3 DEF Dir, Run
    <2>5. ASSUME bridge'.at = "done", bridge'.result # "returned" PROVE LinksInv'
      BY <2>2, <2>5 DEF LinksInv, Returned
    <2>6. ASSUME NEW x, bridge' = [bridge EXCEPT !.at = "done", !.result = x], x # "returned"
          PROVE  LinksInv'
      <3>1. bridge'.at = "done" /\ bridge'.result = x
        BY <2>1, <2>6 DEF BridgeType
      <3>. QED
        BY <2>5, <2>6, <3>1
    <2>7. CASE CliExited \/ TimesOut
      <3>1. PICK x \in {"read", "reap"} : bridge' = [bridge EXCEPT !.at = x]
        BY <2>7 DEF CliExited, TimesOut, Goes
      <3>2. bridge'.at = x /\ bridge'.sha = bridge.sha /\ bridge'.result = "none" /\ bridge.at = "wait"
        BY <2>1, <2>2, <2>7, <3>1 DEF BridgeType, CliExited, TimesOut
      <3>. QED
        BY <2>2, <3>2 DEF LinksInv, Returned
    <2>8. CASE Reaps \/ ExtensionKills
      BY <2>6, <2>8 DEF Reaps, ExtensionKills, Ends
    <2>9. CASE ReadsFinal
      <3>1. bridge.at = "read" /\ bridge.sha = 0
        BY <2>9 DEF ReadsFinal, LinksInv
      <3>2. CASE bridge' = [bridge EXCEPT !.at = "summary"]
        <4>1. bridge'.at = "summary" /\ bridge'.sha = 0
          BY <3>1, <3>2, <2>1 DEF BridgeType
        <4>. QED
          BY <4>1, <2>2 DEF LinksInv
      <3>3. CASE bridge' = [bridge EXCEPT !.at = "pointer", !.final = disk[Dir].final]
                   /\ disk[Dir].final # NoFile
        <4>1. bridge'.at = "pointer" /\ bridge'.result = "none"
          BY <3>3, <2>1, <2>2 DEF BridgeType
        <4>2. disk[Dir].final.run # 0
          BY <3>3, <2>1 DEF FilesOK
        <4>. QED
          BY <4>1, <4>2, <2>2, <2>4 DEF LinksInv, Returned
      <3>. QED
        BY <3>2, <3>3, <2>6, <2>9 DEF ReadsFinal, Goes, Ends
    <2>10. CASE Points
      <3>1. PICK n, k : bridge' = [bridge EXCEPT !.at = "project", !.sha = n, !.step = k] /\ k = 1
        BY <2>10 DEF Points
      <3>2. bridge'.at = "project" /\ bridge'.step = k /\ bridge'.result = "none"
              /\ bridge.at = "pointer"
        BY <3>1, <2>1, <2>2, <2>10 DEF BridgeType, Points
      <3>. QED
        BY <3>1, <3>2, <2>2, <2>4 DEF LinksInv, Returned
    <2>11. CASE ReadsRow \/ Summarises \/ Shows
      <3>1. \/ \E n : bridge' = [bridge EXCEPT !.at = "summary", !.row = n]
            \/ \E n : bridge' = [bridge EXCEPT !.at = "exit", !.summary = n]
            \/ \E n : bridge' = [bridge EXCEPT !.at = "done", !.result = "returned", !.shown = n]
        BY <2>11 DEF ReadsRow, Summarises, Shows
      <3>2. bridge'.at \in {"summary", "exit", "done"} /\ bridge'.sha = bridge.sha
              /\ bridge.at \in {"rows", "summary", "exit"}
        BY <3>1, <2>1, <2>11 DEF BridgeType, ReadsRow, Summarises, Shows
      <3>. QED
        BY <3>2, <2>2, <2>4 DEF LinksInv
    <2>. QED
      BY <1>4, <2>7, <2>8, <2>9, <2>10, <2>11 DEF BridgeStep
  <1>5. CASE UNCHANGED vars
    BY <1>5 DEF vars, LinksInv, Returned, Dir, Run
  <1>. QED
    BY <1>1, <1>2, <1>3, <1>4, <1>5 DEF Next

\* The projection never names the trace of one run and the final of another, and names the
\* run's after it, wherever an earlier bridge was killed (project_last_run).
THEOREM ProjectionNamesOneRun == Spec => []ProjectionOfOneRun
  <1>1. LinksInv => ProjectionOfOneRun
    BY DEF LinksInv, Returned, ProjectionOfOneRun
  <1>. QED
    BY <1>1, Inv0Init, TypeStep, FilesInit, FilesStep, EndedInit, EndedStep, OwnInit, OwnStep,
       LinksInit, LinksStep, PTL DEF Spec
=============================================================================
