------------------------------ MODULE RunBridge ------------------------------
(***************************************************************************)
(* The host bridge (pirml/ux/, scripts/pirml_run.py, the extension's       *)
(* spawn.ts): the extension spawns the bridge, which spawns the command    *)
(* line as a process of its own; that writes the artifacts of the run into *)
(* an output directory, from which bridge and extension read them.  Each   *)
(* of the two waits with the same timeout and kills only its own child.    *)
(*                                                                         *)
(* Runs come one after another, but a command line whose bridge was killed *)
(* goes on.  Abstracted: what a run does (module Supervisor) is its exit   *)
(* code and the ok of its final; a file is known by the run that wrote it. *)
(***************************************************************************)
EXTENDS Naturals, Sequences, SequencesExt, FiniteSets

CONSTANTS
  Dirs,           \* output directories
  WebOut,         \* those with a web_output.json, which is no file of a run
  Runs            \* bound: runs

Names == <<"trace", "final", "artifacts">>
NoLink == "none"
Foreign == "directory"     \* what is no link and not replaced

ASSUME BridgeAssumption ==
  WebOut \subseteq Dirs /\ Runs \in Nat /\ Dirs \cap {NoLink, Foreign} = {}

VARIABLES
  disk,           \* each directory: trace.ndjson, final.json, the rows of metrics.csv
  cli,            \* each run: its command line, its exit code, the ok of its final, and
                  \* whether it came to its end or raised
  bridge,         \* the bridge and what it has read
  links           \* .pirml: each name's target

vars == <<disk, cli, bridge, links>>

NoFile == [run |-> 0, whole |-> FALSE, ok |-> FALSE]
NoCli == [at |-> "none", dir |-> NoLink, code |-> 0, ok |-> FALSE, returned |-> FALSE]
NoBridge == [at |-> "idle", run |-> 0, shared |-> FALSE, final |-> NoFile, sha |-> 0,
             step |-> 0, row |-> 0, summary |-> 0, shown |-> 0, result |-> "none"]

Run == bridge.run
Dir == cli[Run].dir
Alive(r) == cli[r].at \notin {"none", "gone"}

-----------------------------------------------------------------------------
(* The command line                                                        *)

\* The run is over: ok or not, and a replay that differs is an error whatever the
\* program's final says.
RunEnded(r) ==
  /\ cli[r].at = "run"
  /\ \E o \in {[code |-> 0, ok |-> TRUE], [code |-> 1, ok |-> FALSE],
               [code |-> 2, ok |-> FALSE], [code |-> 2, ok |-> TRUE]} :
       cli' = [cli EXCEPT ![r] = [@ EXCEPT !.at = "ran", !.code = o.code, !.ok = o.ok]]
  /\ UNCHANGED <<disk, bridge, links>>

File(r, whole) == [run |-> r, whole |-> whole, ok |-> cli[r].ok]

\* A slip: a run writes its trace and its metrics only.
WritesNoFinal == [ran |-> "trace", trace |-> "traced", traced |-> "metrics"]

\* The files in the order they are written: each is opened, which empties it, and closed.
Writes == [ran |-> "trace", trace |-> "traced", traced |-> "final",
           final |-> "finalised", finalised |-> "metrics"]

CliWrites(r) ==
  /\ cli[r].at \in DOMAIN Writes
  /\ LET to == Writes[cli[r].at]  d == cli[r].dir
     IN /\ cli' = [cli EXCEPT ![r] = [@ EXCEPT !.at = to]]
        /\ disk' = [disk EXCEPT ![d] =
                      CASE to \in {"trace", "traced"} -> [@ EXCEPT !.trace = File(r, to = "traced")]
                        [] to \in {"final", "finalised"} -> [@ EXCEPT !.final = File(r, to = "finalised")]
                        [] OTHER -> @]
  /\ UNCHANGED <<bridge, links>>

\* write_metrics appends.
CliEnds(r) ==
  /\ cli[r].at = "metrics"
  /\ LET rows == disk[cli[r].dir].rows
     IN disk' = [disk EXCEPT ![cli[r].dir] = [@ EXCEPT !.rows = Append(rows, r)]]
  /\ cli' = [cli EXCEPT ![r] = [@ EXCEPT !.at = "gone", !.returned = TRUE]]
  /\ UNCHANGED <<bridge, links>>

\* main reports what it catches, a failure of its own, a bad value, the system's or the
\* protocol's, with 2; anything else, like a program that outlasts its kill, leaves by
\* traceback, which is Python's 1.  Either way no more files are written.
RaisedCodes == {1, 2}

CliRaises(r) ==
  /\ cli[r].at \in {"run", "ran", "trace", "traced", "final", "finalised", "metrics"}
  /\ \E code \in RaisedCodes :
       cli' = [cli EXCEPT ![r] = [@ EXCEPT !.at = "gone", !.code = code]]
  /\ UNCHANGED <<disk, bridge, links>>

CliStep(r) == RunEnded(r) \/ CliWrites(r) \/ CliEnds(r) \/ CliRaises(r)

-----------------------------------------------------------------------------
(* run_once                                                                *)

\* The extension spawns the bridge and that the command line.
Begins(d) ==
  /\ bridge.at \in {"idle", "done"} /\ bridge.run < Runs
  /\ bridge' = [NoBridge EXCEPT !.at = "wait", !.run = bridge.run + 1,
                  !.shared = \E q \in 1..Runs : Alive(q) /\ cli[q].dir = d]
  /\ cli' = [cli EXCEPT ![bridge.run + 1] = [NoCli EXCEPT !.at = "run", !.dir = d]]
  /\ UNCHANGED <<disk, links>>

Goes(to) == bridge' = [bridge EXCEPT !.at = to]
Ends(result) == bridge' = [bridge EXCEPT !.at = "done", !.result = result]

CliExited ==
  /\ bridge.at = "wait" /\ ~Alive(Run)
  /\ Goes("read")
  /\ UNCHANGED <<disk, cli, links>>

\* proc.kill.  A slip: a process that does not attend to the signal lives on.
KilledByTerm(at) == at
Killed(at) == "gone"

TimesOut ==
  /\ bridge.at = "wait"
  /\ cli' = [cli EXCEPT ![Run] = [@ EXCEPT !.at = Killed(cli[Run].at)]]
  /\ Goes("reap")
  /\ UNCHANGED <<disk, links>>

Reaps ==
  /\ bridge.at = "reap" /\ ~Alive(Run)
  /\ Ends("timeout")
  /\ UNCHANGED <<disk, cli, links>>

\* final.json, if there is one, whoever wrote it.
ReadsFinal ==
  /\ bridge.at = "read"
  /\ LET f == disk[Dir].final
     IN IF f = NoFile THEN IF cli[Run].code = 0 THEN Ends("artifact") ELSE Goes("summary")
        ELSE IF ~f.whole THEN Ends("integrity")
        ELSE bridge' = [bridge EXCEPT !.at = "pointer", !.final = f]
  /\ UNCHANGED <<disk, cli, links>>

\* create_pointer_payload reads it again.
Points ==
  /\ bridge.at = "pointer"
  /\ bridge' = [bridge EXCEPT !.at = "project", !.sha = disk[Dir].final.run, !.step = 1]
  /\ UNCHANGED <<disk, cli, links>>

\* project_last_run: all names are unlinked, then linked.  A slip: one after the other.
ProjectionRelinks == <<1, 1, 2, 2, 3, 3>>
Projection == <<1, 2, 3, 1, 2, 3>>

Unlinks(step) == \A k \in 1..(step - 1) : Projection[k] # Projection[step]
Source(name) == name = "artifacts" \/ disk[Dir][name] # NoFile

Projects ==
  /\ bridge.at = "project"
  /\ LET name == Names[Projection[bridge.step]]
         next == IF bridge.step = Len(Projection) THEN "rows" ELSE "project"
     IN IF links[name] = Foreign
          THEN Ends("integrity") /\ UNCHANGED links
          ELSE /\ bridge' = [bridge EXCEPT !.at = next, !.step = @ + 1]
               /\ links' = [links EXCEPT ![name] =
                              IF Unlinks(bridge.step) THEN NoLink
                              ELSE IF Source(name) THEN Dir ELSE @]
  /\ UNCHANGED <<disk, cli>>

\* _load_metrics: the first row.
ReadsRow ==
  /\ bridge.at = "rows"
  /\ bridge' = [bridge EXCEPT !.at = "summary",
                  !.row = IF disk[Dir].rows = << >> THEN 0 ELSE Head(disk[Dir].rows)]
  /\ UNCHANGED <<disk, cli, links>>

\* derive_summary: of web_output.json if there is one, and else of final.json.
Summarises ==
  /\ bridge.at = "summary"
  /\ bridge' = [bridge EXCEPT !.at = "exit",
                  !.summary = IF Dir \notin WebOut /\ disk[Dir].final.whole
                                THEN disk[Dir].final.run ELSE 0]
  /\ UNCHANGED <<disk, cli, links>>

\* pirml_run prints the summary; the extension reads final.json once more when the
\* exit code is 0, and else has no hash.
Ok == bridge.final.ok
Shows ==
  /\ bridge.at = "exit"
  /\ bridge' = [bridge EXCEPT !.at = "done", !.result = "returned",
                  !.shown = IF Ok THEN disk[Dir].final.run ELSE 0]
  /\ UNCHANGED <<disk, cli, links>>

\* The extension's own timer kills the bridge, whose child goes on.
ExtensionKills ==
  /\ bridge.at \notin {"idle", "done"}
  /\ Ends("killed")
  /\ UNCHANGED <<disk, cli, links>>

-----------------------------------------------------------------------------
Init ==
  /\ disk = [d \in Dirs |-> [trace |-> NoFile, final |-> NoFile, rows |-> << >>]]
  /\ cli = [r \in 1..Runs |-> NoCli]
  /\ bridge = NoBridge
  /\ links \in [ToSet(Names) -> {NoLink, Foreign}]

BridgeStep == CliExited \/ TimesOut \/ Reaps \/ ReadsFinal \/ Points \/ Projects
              \/ ReadsRow \/ Summarises \/ Shows

Next == \/ \E d \in Dirs : Begins(d)
        \/ \E r \in 1..Runs : CliStep(r)
        \/ BridgeStep
        \/ ExtensionKills

\* Of the command line nothing is assumed.
Spec == Init /\ [][Next]_vars /\ WF_vars(BridgeStep)

-----------------------------------------------------------------------------
(* Properties                                                              *)

FileType == [run : 0..Runs, whole : BOOLEAN, ok : BOOLEAN]
DirType == [trace : FileType, final : FileType, rows : Seq(1..Runs)]
CliType ==
  [at : {"none", "run", "ran", "trace", "traced", "final", "finalised", "metrics", "gone"},
   dir : Dirs \cup {NoLink}, code : 0..2, ok : BOOLEAN, returned : BOOLEAN]
BridgeType ==
  [at : {"idle", "wait", "reap", "read", "pointer", "project", "rows", "summary", "exit", "done"},
   run : 0..Runs, shared : BOOLEAN, final : FileType, sha : 0..Runs, step : 0..7, row : 0..Runs,
   summary : 0..Runs, shown : 0..Runs,
   result : {"none", "timeout", "artifact", "integrity", "returned", "killed"}]

\* Types of all that is kept.
TypeOK ==
  /\ disk \in [Dirs -> DirType]
  /\ cli \in [1..Runs -> CliType]
  /\ bridge \in BridgeType
  /\ links \in [ToSet(Names) -> Dirs \cup {NoLink, Foreign}]

\* A run whose command line came to its end, whatever its exit code, is told its own result,
\* hash and summary, unless an abandoned command line still writes to its directory
\* (run_once, create_pointer_payload, derive_summary, readFinalSha).
OwnResult ==
  bridge.result = "returned" /\ cli[Run].returned /\ ~bridge.shared
    => /\ bridge.final.run = Run /\ bridge.sha = Run
       /\ bridge.summary \in {0, Run} /\ bridge.shown \in {0, Run}

\* The projection never names the trace of one run's directory and the final of another's,
\* and after a run that has a final it names that run's, wherever an earlier bridge was
\* killed (project_last_run).
ProjectionOfOneRun ==
  /\ {links["trace"], links["final"]} \subseteq Dirs => links["trace"] = links["final"]
  /\ bridge.result = "returned" /\ bridge.sha # 0
       => links["trace"] = Dir /\ links["final"] = Dir

\* A bridge ends, though its command line may hang (run_once).
BridgeEnds == bridge.at # "done" /\ bridge.at # "idle" ~> bridge.at = "done"
=============================================================================
