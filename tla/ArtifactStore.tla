---------------------------- MODULE ArtifactStore ----------------------------
(***************************************************************************)
(* The artifact store (pirml/artifacts/store.py, index_sqlite.py, io.py,   *)
(* trace.py): content-addressed files, a SQLite index and an append-only   *)
(* ledger trace.ndjson under one root, shared by every process that opens  *)
(* the root.  A put writes the file, the index and the ledger one after    *)
(* the other, each for itself; the index can be rebuilt from the ledger.   *)
(*                                                                         *)
(* A process may fail between any two steps: the put raises (disk full,    *)
(* database locked), or the process dies.  SQLite commits every statement  *)
(* by itself; a rebuild unlinks the database file under the connections    *)
(* that other processes hold to it.                                        *)
(*                                                                         *)
(* Abstracted: an artifact is its id (the hash of its bytes, or the view   *)
(* id of an artifact and a slice); of its record the kind and the parents  *)
(* are kept.                                                               *)
(***************************************************************************)
EXTENDS Naturals, Sequences, SequencesExt

CONSTANTS
  Processes,      \* processes that may open the store
  Requests,       \* what put_raw, put_json and materialize are asked to store
  MaxPuts,        \* bound: puts started
  MaxRebuilds,    \* bound: rebuilds started
  MaxFailures     \* bound: failures

\* ev is the event the ledger will hold; long that the frame exceeds the buffer
\* of a text file, whose newline then reaches the file by a write of its own.
ASSUME ArtifactAssumption ==
  /\ \A r \in Requests :
        /\ r.ev \in {"put", "view"}
        /\ r.ev = "view" => Len(r.parents) = 1
        /\ r.parents \in Seq({s.id : s \in Requests})
        /\ r.long \in BOOLEAN
  /\ MaxPuts \in Nat /\ MaxRebuilds \in Nat /\ MaxFailures \in Nat

VARIABLES
  files,          \* ids with a file under obj/ or views/
  dbs,            \* the index: the database files so far, the last is ndx.sqlite
  trace,          \* the ledger: frames and newlines
  conn,           \* each process: the database it has open, 0 if it is not running
  op,             \* each process: what it is doing
  puts, failures, \* counters for the bounds
  failed          \* history: ids of puts and rebuilds that did not come to their end

vars == <<files, dbs, trace, conn, op, puts, failures, failed>>

Newline == [ev |-> "newline"]
NoRequest == [ev |-> "none"]
Idle == [at |-> "idle", req |-> NoRequest, k |-> 0, scan |-> 0]

EmptyDb == [rows |-> << >>, links |-> {}]
Current == Len(dbs)
Rows(g) == DOMAIN dbs[g].rows
Rebuilding(p) == op[p].scan > 0

-----------------------------------------------------------------------------
(* Opening, and failing                                                    *)

Opens(p) ==
  /\ conn[p] = 0
  /\ conn' = [conn EXCEPT ![p] = Current]
  /\ UNCHANGED <<files, dbs, trace, op, puts, failures, failed>>

Closes(p) ==
  /\ conn[p] # 0 /\ op[p] = Idle
  /\ conn' = [conn EXCEPT ![p] = 0]
  /\ UNCHANGED <<files, dbs, trace, op, puts, failures, failed>>

\* The put or the rebuild raises, or its process dies with it.
Fails(p) ==
  /\ op[p].at # "idle"
  /\ failures < MaxFailures
  /\ failures' = failures + 1
  /\ op' = [op EXCEPT ![p] = Idle]
  /\ \E g \in {0, conn[p]} : conn' = [conn EXCEPT ![p] = g]
  /\ failed' = failed \cup (IF op[p].req = NoRequest THEN {} ELSE {op[p].req.id})
  /\ UNCHANGED <<files, dbs, trace, puts>>

-----------------------------------------------------------------------------
(* put_raw, and put_view_stream under materialize                          *)

\* materialize returns a view the index knows, and needs its artifact there.
MayStart(p, r) ==
  r.ev = "view" => r.id \notin Rows(conn[p]) /\ r.parents[1] \in Rows(conn[p])

\* A slip: the row is written, the file some other time.
FileLater(r) == files

\* atomic_write: the file is there in whole or not at all.
FileWritten(r) == files \cup {r.id}

PutStarts(p, r) ==
  /\ conn[p] # 0 /\ op[p] = Idle
  /\ puts < MaxPuts
  /\ MayStart(p, r)
  /\ puts' = puts + 1
  /\ files' = FileWritten(r)
  /\ op' = [op EXCEPT ![p] = [at |-> "row", req |-> r, k |-> 0, scan |-> 0]]
  /\ UNCHANGED <<dbs, trace, conn, failures, failed>>

\* Slips: the parents, which are in another table, are left out; a view is not
\* written to the ledger.
AfterRowNoParents(o) == IF o.scan > 0 THEN [Idle EXCEPT !.at = "scan", !.scan = o.scan]
                        ELSE [o EXCEPT !.at = "trace"]
AfterLinksPutsOnly(o) == IF o.scan > 0 THEN [Idle EXCEPT !.at = "scan", !.scan = o.scan]
                         ELSE IF o.req.ev = "put" THEN [o EXCEPT !.at = "trace"] ELSE Idle

\* After the row come its parents; after them, the ledger, or, when a rebuild
\* put the row, the next line.
AfterRow(o) == [o EXCEPT !.at = "link", !.k = 1]
AfterLinks(o) == IF o.scan > 0 THEN [Idle EXCEPT !.at = "scan", !.scan = o.scan]
                 ELSE [o EXCEPT !.at = "trace"]

\* INSERT OR IGNORE: the row of an id that is there stays as it is.
WithRow(rows, r) ==
  [i \in DOMAIN rows \cup {r.id} |-> IF i \in DOMAIN rows THEN rows[i] ELSE r.kind]

\* A slip: the columns of the parents table are taken in another order.
LinkRowSwapped(r, k) == <<r.id, k, r.parents[k]>>

\* child, parent, pos
LinkRow(r, k) == <<r.id, r.parents[k], k>>

\* INSERT OR IGNORE INTO artifacts
InsertRow(p) ==
  /\ op[p].at = "row"
  /\ dbs' = [dbs EXCEPT ![conn[p]].rows = WithRow(@, op[p].req)]
  /\ op' = [op EXCEPT ![p] = AfterRow(@)]
  /\ UNCHANGED <<files, trace, conn, puts, failures, failed>>

\* INSERT OR IGNORE INTO parents, one statement for each parent
InsertLink(p) ==
  /\ op[p].at = "link"
  /\ LET r == op[p].req  k == op[p].k IN
       IF k > Len(r.parents)
         THEN /\ op' = [op EXCEPT ![p] = AfterLinks(@)]
              /\ UNCHANGED dbs
         ELSE /\ op' = [op EXCEPT ![p].k = k + 1]
              /\ dbs' = [dbs EXCEPT ![conn[p]].links = @ \cup {LinkRow(r, k)}]
  /\ UNCHANGED <<files, trace, conn, puts, failures, failed>>

\* ArtifactTraceWriter.append
Appends(p) ==
  /\ op[p].at = "trace"
  /\ IF op[p].req.long
       THEN /\ trace' = Append(trace, op[p].req)
            /\ op' = [op EXCEPT ![p].at = "newline"]
       ELSE /\ trace' = trace \o <<op[p].req, Newline>>
            /\ op' = [op EXCEPT ![p] = Idle]
  /\ UNCHANGED <<files, dbs, conn, puts, failures, failed>>

AppendsNewline(p) ==
  /\ op[p].at = "newline"
  /\ trace' = Append(trace, Newline)
  /\ op' = [op EXCEPT ![p] = Idle]
  /\ UNCHANGED <<files, dbs, conn, puts, failures, failed>>

-----------------------------------------------------------------------------
(* rebuild_index                                                           *)

\* The database file is unlinked and created anew.
RebuildStarts(p) ==
  /\ conn[p] # 0 /\ op[p] = Idle
  /\ Len(dbs) <= MaxRebuilds
  /\ dbs' = Append(dbs, EmptyDb)
  /\ conn' = [conn EXCEPT ![p] = Len(dbs')]
  /\ op' = [op EXCEPT ![p] = [Idle EXCEPT !.at = "scan", !.scan = 1]]
  /\ UNCHANGED <<files, trace, puts, failures, failed>>

\* A line holds one frame; it may lack its newline at the end of the file.
LineAt(k) == trace[k] # Newline /\ (k < Len(trace) => trace[k + 1] = Newline)

\* A slip: view events are not handled.
IndexedPutsOnly(r) == r.ev = "put"

\* Both kinds of event are put into the index.
Indexed(r) == r.ev \in {"put", "view"}

\* The next line of the ledger goes into the index as a put would have it.
ScanLine(p) ==
  /\ op[p].at = "scan" /\ op[p].scan <= Len(trace)
  /\ LineAt(op[p].scan)
  /\ LET k == op[p].scan
         next == IF k < Len(trace) THEN k + 2 ELSE k + 1
     IN op' = [op EXCEPT ![p] =
                 IF Indexed(trace[k])
                   THEN [at |-> "row", req |-> trace[k], k |-> 0, scan |-> next]
                   ELSE [@ EXCEPT !.scan = next]]
  /\ UNCHANGED <<files, dbs, trace, conn, puts, failures, failed>>

\* A blank line, or two frames on one line: json.loads raises, and the index
\* stays as far as it came.
ScanRaises(p) ==
  /\ op[p].at = "scan" /\ op[p].scan <= Len(trace)
  /\ ~LineAt(op[p].scan)
  /\ op' = [op EXCEPT ![p] = Idle]
  /\ UNCHANGED <<files, dbs, trace, conn, puts, failures, failed>>

ScanEnds(p) ==
  /\ op[p].at = "scan" /\ op[p].scan > Len(trace)
  /\ op' = [op EXCEPT ![p] = Idle]
  /\ UNCHANGED <<files, dbs, trace, conn, puts, failures, failed>>

-----------------------------------------------------------------------------

Init ==
  /\ files = {} /\ dbs = <<EmptyDb>> /\ trace = << >>
  /\ conn = [p \in Processes |-> 0]
  /\ op = [p \in Processes |-> Idle]
  /\ puts = 0 /\ failures = 0 /\ failed = {}

Put(p) ==
  \/ \E r \in Requests : PutStarts(p, r)
  \/ InsertRow(p) \/ InsertLink(p) \/ Appends(p) \/ AppendsNewline(p)

Rebuild(p) == RebuildStarts(p) \/ ScanLine(p) \/ ScanRaises(p) \/ ScanEnds(p)

Next == \E p \in Processes : Opens(p) \/ Closes(p) \/ Put(p) \/ Rebuild(p) \/ Fails(p)

Spec == Init /\ [][Next]_vars

-----------------------------------------------------------------------------
(* Properties                                                              *)

Ids == {r.id : r \in Requests}
Kinds == {r.kind : r \in Requests}

Traced == ToSet(trace) \ {Newline}
LinksOf(r) == {LinkRow(r, k) : k \in DOMAIN r.parents}

\* The index has the artifact of a frame, with the parents the frame names.
Covers(db, r) == r.id \in DOMAIN db.rows /\ LinksOf(r) \subseteq db.links

TypeOK ==
  /\ files \subseteq Ids /\ failed \subseteq Ids
  /\ \A g \in 1..Current :
        /\ Rows(g) \subseteq Ids
        /\ \A i \in Rows(g) : dbs[g].rows[i] \in Kinds
        /\ dbs[g].links \subseteq Ids \X Ids \X (Nat \ {0})
  /\ trace \in Seq(Requests \cup {Newline})
  /\ conn \in [Processes -> 0..Current]
  /\ \A p \in Processes :
        /\ op[p].at \in {"idle", "row", "link", "trace", "newline", "scan"}
        /\ op[p].req \in Requests \cup {NoRequest}
        /\ op[p].at # "idle" => conn[p] # 0
        /\ op[p].scan \in 0..(Len(trace) + 2)
  /\ puts \in 0..MaxPuts /\ failures \in 0..MaxFailures

\* Whatever fails and whoever rebuilds, an id that the index or the ledger
\* names has its bytes: get_bytes and get_view_text of an indexed artifact
\* never meet a missing file.
Resolvable ==
  /\ \A g \in 1..Current : Rows(g) \subseteq files
  /\ \A r \in Traced : r.id \in files

\* An artifact that can be looked up is in the ledger too, unless its put is
\* still under way or failed: concurrent puts of the same bytes, the early
\* return of materialize and INSERT OR IGNORE lose no event between them.
LedgerComplete ==
  \A i \in Rows(Current) :
    \/ \E r \in Traced : r.id = i
    \/ i \in failed
    \/ \E p \in Processes : op[p].at # "idle" /\ op[p].req # NoRequest /\ op[p].req.id = i

\* Until somebody rebuilds it, the index covers the ledger: what the ledger
\* names can be looked up, with all its parents, even after a crash.
IndexCoversLedger == Len(dbs) = 1 => \A r \in Traced : Covers(dbs[1], r)

\* A rebuild that comes to its end has put everything the ledger then holds
\* into the new index, though other processes went on appending to it.
RebuildComplete ==
  [][\A p \in Processes : ScanEnds(p) => \A r \in Traced : Covers(dbs[conn[p]], r)]_vars

=============================================================================
