------------------------ MODULE ArtifactStore_proofs ------------------------
(***************************************************************************)
(* Theorems about ArtifactStore, for any number of processes, requests,    *)
(* rebuilds and failures.                                                  *)
(***************************************************************************)
EXTENDS ArtifactStore, SequenceTheorems, TLAPS

Ats == {"idle", "row", "link", "trace", "newline", "scan"}
DbType == [rows : UNION {[D -> Kinds] : D \in SUBSET Ids},
           links : SUBSET (Ids \X Ids \X (Nat \ {0}))]
OpType == [at : Ats, req : Requests \cup {NoRequest}, k : Nat, scan : Nat]

\* What an operation knows of itself: which steps have a request, where the
\* parents start, how far a scan can be.
OpShape(p) ==
  /\ op[p].at \in {"idle", "scan"} <=> op[p].req = NoRequest
  /\ op[p].at = "link" => op[p].k > 0
  /\ op[p].at = "scan" => op[p].scan > 0
  /\ op[p].at \in {"idle", "trace", "newline"} => op[p].scan = 0
  /\ op[p].at # "idle" => conn[p] > 0
  /\ op[p].scan <= Len(trace) + 1

TypeInv ==
  /\ files \subseteq Ids /\ failed \subseteq Ids
  /\ dbs \in Seq(DbType) /\ Len(dbs) > 0
  /\ trace \in Seq(Requests \cup {Newline})
  /\ conn \in [Processes -> 0..Len(dbs)]
  /\ op \in [Processes -> OpType]
  /\ \A p \in Processes : OpShape(p)
  /\ puts \in 0..MaxPuts /\ failures \in 0..MaxFailures

-----------------------------------------------------------------------------
(* Requests, rows and links                                                *)

\* A request is made of ids and kinds of the model, and is none of the sentinels.
LEMMA RequestTypes ==
  ASSUME NEW r \in Requests
  PROVE  /\ r.id \in Ids /\ r.kind \in Kinds
         /\ r.parents \in Seq(Ids)
         /\ r.ev \in {"put", "view"}
         /\ r # NoRequest /\ r # Newline
         /\ \A k \in DOMAIN r.parents : LinkRow(r, k) \in Ids \X Ids \X (Nat \ {0})
<1>1. r.id \in Ids /\ r.kind \in Kinds
  BY DEF Ids, Kinds
<1>2. r.parents \in Seq(Ids) /\ r.ev \in {"put", "view"}
  BY ArtifactAssumption DEF Ids
<1>3. r # NoRequest /\ r # Newline
  BY <1>2 DEF NoRequest, Newline
<1>4. ASSUME NEW k \in DOMAIN r.parents
      PROVE  LinkRow(r, k) \in Ids \X Ids \X (Nat \ {0})
  <2>1. k \in Nat \ {0} /\ r.parents[k] \in Ids
    BY <1>2
  <2> QED BY <1>1, <2>1 DEF LinkRow
<1> QED BY <1>1, <1>2, <1>3, <1>4

\* Putting a row keeps the rows that are there.
LEMMA WithRowType ==
  ASSUME NEW r \in Requests, NEW D \in SUBSET Ids, NEW rows \in [D -> Kinds]
  PROVE  /\ WithRow(rows, r) \in [D \cup {r.id} -> Kinds]
         /\ D \cup {r.id} \in SUBSET Ids
         /\ DOMAIN WithRow(rows, r) = DOMAIN rows \cup {r.id}
  BY RequestTypes DEF WithRow

\* An operation that has a request has an open database.
LEMMA Busy ==
  ASSUME TypeInv, NEW p \in Processes
  PROVE  /\ op[p] \in OpType
         /\ op[p].at \notin {"idle", "scan"} => op[p].req \in Requests
         /\ op[p].at # "idle" => conn[p] \in 1..Len(dbs)
<1>1. op[p] \in OpType /\ conn[p] \in 0..Len(dbs) /\ OpShape(p)
  BY DEF TypeInv
<1>2. Len(dbs) \in Nat
  BY DEF TypeInv
<1>3. op[p].at \notin {"idle", "scan"} => op[p].req \in Requests
  BY <1>1 DEF OpType, OpShape
<1>4. op[p].at # "idle" => conn[p] \in 1..Len(dbs)
  BY <1>1, <1>2 DEF OpShape
<1> QED BY <1>1, <1>3, <1>4

\* A database stays one when a row or a link goes in, and loses nothing.
LEMMA InsertRowGrows ==
  ASSUME TypeInv, NEW p \in Processes, InsertRow(p)
  PROVE  /\ dbs' \in Seq(DbType) /\ Len(dbs') = Len(dbs)
         /\ \A g \in 1..Len(dbs) :
              /\ DOMAIN dbs'[g].rows =
                   Rows(g) \cup (IF g = conn[p] THEN {op[p].req.id} ELSE {})
              /\ dbs'[g].links = dbs[g].links
<1> DEFINE c == conn[p]  r == op[p].req
<1>1. c \in 1..Len(dbs) /\ r \in Requests
  BY Busy DEF InsertRow
<1>5. dbs[c] \in DbType
  BY <1>1 DEF TypeInv
<1>2. PICK D \in SUBSET Ids : dbs[c].rows \in [D -> Kinds]
  BY <1>5 DEF DbType
<1>3. WithRow(dbs[c].rows, r) \in [D \cup {r.id} -> Kinds]
         /\ D \cup {r.id} \in SUBSET Ids
         /\ DOMAIN WithRow(dbs[c].rows, r) = DOMAIN dbs[c].rows \cup {r.id}
  BY <1>1, <1>2, WithRowType
<1>4. dbs' = [dbs EXCEPT ![c] = [dbs[c] EXCEPT !.rows = WithRow(dbs[c].rows, r)]]
  BY DEF InsertRow
<1>6. [dbs[c] EXCEPT !.rows = WithRow(dbs[c].rows, r)] \in DbType
  BY <1>3, <1>5 DEF DbType
<1>7. dbs' \in Seq(DbType) /\ Len(dbs') = Len(dbs)
  BY <1>1, <1>4, <1>6, ExceptSeq DEF TypeInv
<1>8. ASSUME NEW g \in 1..Len(dbs)
      PROVE  /\ DOMAIN dbs'[g].rows = Rows(g) \cup (IF g = c THEN {r.id} ELSE {})
             /\ dbs'[g].links = dbs[g].links
  <2>1. dbs'[g] = IF g = c THEN [dbs[c] EXCEPT !.rows = WithRow(dbs[c].rows, r)]
                  ELSE dbs[g]
    BY <1>1, <1>4, <1>8 DEF TypeInv
  <2> QED BY <2>1, <1>3, <1>5 DEF Rows, DbType
<1> QED BY <1>7, <1>8

\* A parent put in, or none left to put: nothing that was there is lost.
LEMMA InsertLinkGrows ==
  ASSUME TypeInv, NEW p \in Processes, InsertLink(p)
  PROVE  /\ dbs' \in Seq(DbType) /\ Len(dbs') = Len(dbs)
         /\ \A g \in 1..Len(dbs) :
              DOMAIN dbs'[g].rows = Rows(g) /\ dbs[g].links \subseteq dbs'[g].links
         /\ op[p].k <= Len(op[p].req.parents) =>
              LinkRow(op[p].req, op[p].k) \in dbs'[conn[p]].links
<1> DEFINE c == conn[p]  r == op[p].req  k == op[p].k
<1>1. c \in 1..Len(dbs) /\ r \in Requests /\ k \in Nat \ {0}
  <2>1. op[p].at = "link" /\ op[p] \in OpType /\ OpShape(p)
    BY DEF InsertLink, TypeInv
  <2>2. k \in Nat \ {0}
    BY <2>1 DEF OpType, OpShape
  <2> QED BY <2>1, <2>2, Busy
<1>2. dbs[c] \in DbType /\ r.parents \in Seq(Ids)
  BY <1>1, RequestTypes DEF TypeInv
<1>3. CASE k > Len(r.parents)
  BY <1>1, <1>2, <1>3 DEF TypeInv, InsertLink, Rows
<1>4. CASE ~(k > Len(r.parents))
  <2> DEFINE d == [dbs[c] EXCEPT !.links = dbs[c].links \cup {LinkRow(r, k)}]
  <2>1. dbs' = [dbs EXCEPT ![c] = d]
    BY <1>4 DEF InsertLink
  <2>2. k \in DOMAIN r.parents
    BY <1>1, <1>2, <1>4
  <2>3. LinkRow(r, k) \in Ids \X Ids \X (Nat \ {0})
    BY <1>1, <2>2, RequestTypes
  <2>4. d \in DbType /\ d.rows = dbs[c].rows
          /\ d.links = dbs[c].links \cup {LinkRow(r, k)}
    BY <1>2, <2>3 DEF DbType
  <2>5. dbs' \in Seq(DbType) /\ Len(dbs') = Len(dbs)
    BY <1>1, <2>1, <2>4, ExceptSeq DEF TypeInv
  <2>6. \A g \in 1..Len(dbs) : dbs'[g] = IF g = c THEN d ELSE dbs[g]
    BY <1>1, <2>1 DEF TypeInv
  <2> QED BY <1>1, <2>4, <2>5, <2>6 DEF Rows
<1> QED BY <1>3, <1>4

-----------------------------------------------------------------------------
(* Any step is one process's, and loses nothing                            *)

Acts(p) == Opens(p) \/ Closes(p) \/ Put(p) \/ Rebuild(p) \/ Fails(p)

\* The processes that do not move keep their operation and their connection.
LEMMA OthersStay ==
  ASSUME TypeInv, NEW p \in Processes, Acts(p), NEW q \in Processes, q # p
  PROVE  op'[q] = op[q] /\ conn'[q] = conn[q]
<1>1. op \in [Processes -> OpType] /\ conn \in [Processes -> 0..Len(dbs)]
  BY DEF TypeInv
<1>2. CASE Opens(p) \/ Closes(p) \/ Fails(p)
  BY <1>1, <1>2 DEF Opens, Closes, Fails
<1>3. CASE Put(p)
  BY <1>1, <1>3 DEF Put, PutStarts, InsertRow, InsertLink, Appends, AppendsNewline
<1>4. CASE Rebuild(p)
  BY <1>1, <1>4 DEF Rebuild, RebuildStarts, ScanLine, ScanRaises, ScanEnds
<1> QED BY <1>2, <1>3, <1>4 DEF Acts

\* No database loses a row or a link.
LEMMA DbsGrow ==
  ASSUME TypeInv, NEW p \in Processes, Acts(p)
  PROVE  /\ dbs' \in Seq(DbType) /\ Len(dbs') >= Len(dbs)
         /\ \A g \in 1..Len(dbs) :
              Rows(g) \subseteq DOMAIN dbs'[g].rows /\ dbs[g].links \subseteq dbs'[g].links
<1>1. dbs \in Seq(DbType)
  BY DEF TypeInv
<1>2. CASE UNCHANGED dbs
  BY <1>1, <1>2 DEF Rows
<1>3. CASE InsertRow(p)
  BY <1>1, <1>3, InsertRowGrows
<1>4. CASE InsertLink(p)
  BY <1>1, <1>4, InsertLinkGrows
<1>5. CASE RebuildStarts(p)
  <2>1. EmptyDb \in DbType
    <3>1. << >> \in [{} -> Kinds] /\ {} \in SUBSET Ids
      OBVIOUS
    <3> QED BY <3>1 DEF EmptyDb, DbType
  <2>2. dbs' = Append(dbs, EmptyDb)
    BY <1>5 DEF RebuildStarts
  <2> QED BY <1>1, <2>1, <2>2, AppendProperties DEF Rows
<1>6. Acts(p) => UNCHANGED dbs \/ InsertRow(p) \/ InsertLink(p) \/ RebuildStarts(p)
  BY DEF Acts, Put, Rebuild, Opens, Closes, Fails, PutStarts, Appends, AppendsNewline,
         ScanLine, ScanRaises, ScanEnds
<1> QED BY <1>2, <1>3, <1>4, <1>5, <1>6

\* The ledger is append-only.
LEMMA TraceGrows ==
  ASSUME TypeInv, NEW p \in Processes, Acts(p)
  PROVE  /\ trace' \in Seq(Requests \cup {Newline}) /\ Len(trace') >= Len(trace)
         /\ \A k \in 1..Len(trace) : trace'[k] = trace[k]
<1>1. trace \in Seq(Requests \cup {Newline})
  BY DEF TypeInv
<1>2. CASE UNCHANGED trace
  BY <1>1, <1>2
<1>3. CASE Appends(p)
  <2>1. op[p].req \in Requests
    BY <1>3, Busy DEF Appends
  <2>2. CASE trace' = Append(trace, op[p].req)
    BY <1>1, <2>1, <2>2, AppendProperties
  <2>3. CASE trace' = trace \o <<op[p].req, Newline>>
    <3>1. <<op[p].req, Newline>> \in Seq(Requests \cup {Newline})
            /\ Len(<<op[p].req, Newline>>) = 2
      BY <2>1
    <3> QED BY <1>1, <2>3, <3>1, ConcatProperties
  <2> QED BY <1>3, <2>2, <2>3 DEF Appends
<1>4. CASE AppendsNewline(p)
  BY <1>1, <1>4, AppendProperties DEF AppendsNewline
<1>5. Acts(p) => UNCHANGED trace \/ Appends(p) \/ AppendsNewline(p)
  BY DEF Acts, Put, Rebuild, Opens, Closes, Fails, PutStarts, InsertRow, InsertLink,
         RebuildStarts, ScanLine, ScanRaises, ScanEnds
<1> QED BY <1>2, <1>3, <1>4, <1>5

-----------------------------------------------------------------------------
(* The types                                                               *)

\* What the mover knows of itself is enough for the types of everybody.
LEMMA MoverTyped ==
  ASSUME TypeInv, NEW p \in Processes, Acts(p),
         op'[p] \in OpType, conn'[p] \in 0..Len(dbs'), OpShape(p)'
  PROVE  /\ op' \in [Processes -> OpType] /\ conn' \in [Processes -> 0..Len(dbs')]
         /\ \A q \in Processes : OpShape(q)'
<1>1. op \in [Processes -> OpType] /\ conn \in [Processes -> 0..Len(dbs)]
        /\ \A q \in Processes : OpShape(q)
  BY DEF TypeInv
<1>2. /\ op' = [q \in Processes |-> op'[q]]
      /\ conn' = [q \in Processes |-> conn'[q]]
  <2>1. CASE Opens(p) \/ Closes(p) \/ Fails(p)
    BY <1>1, <2>1 DEF Opens, Closes, Fails
  <2>2. CASE Put(p)
    BY <1>1, <2>2 DEF Put, PutStarts, InsertRow, InsertLink, Appends, AppendsNewline
  <2>3. CASE Rebuild(p)
    BY <1>1, <2>3 DEF Rebuild, RebuildStarts, ScanLine, ScanRaises, ScanEnds
  <2> QED BY <2>1, <2>2, <2>3 DEF Acts
<1>3. /\ Len(dbs) \in Nat /\ Len(dbs') \in Nat /\ Len(dbs') >= Len(dbs)
      /\ Len(trace) \in Nat /\ Len(trace') \in Nat /\ Len(trace') >= Len(trace)
  BY DbsGrow, TraceGrows DEF TypeInv
<1>4. ASSUME NEW q \in Processes
      PROVE  op'[q] \in OpType /\ conn'[q] \in 0..Len(dbs') /\ OpShape(q)'
  <2>1. CASE q = p
    BY <2>1
  <2>2. CASE q # p
    <3>1. op'[q] = op[q] /\ conn'[q] = conn[q]
      BY <2>2, OthersStay
    <3>2. op[q] \in OpType /\ conn[q] \in 0..Len(dbs) /\ OpShape(q)
      BY <1>1
    <3> QED BY <1>3, <3>1, <3>2 DEF OpShape, OpType
  <2> QED BY <2>1, <2>2
<1> QED BY <1>2, <1>4

\* One process's step, as far as its own operation goes.
LEMMA MoverKnows ==
  ASSUME TypeInv, NEW p \in Processes, Acts(p)
  PROVE  op'[p] \in OpType /\ conn'[p] \in 0..Len(dbs') /\ OpShape(p)'
<1>1. /\ op \in [Processes -> OpType] /\ conn \in [Processes -> 0..Len(dbs)]
      /\ op[p] \in OpType /\ conn[p] \in 0..Len(dbs) /\ OpShape(p)
      /\ Len(dbs) \in Nat \ {0}
      /\ op[p].at \in Ats /\ op[p].k \in Nat /\ op[p].scan \in Nat
      /\ op[p].req \in Requests \cup {NoRequest}
  <2>1. op \in [Processes -> OpType] /\ conn \in [Processes -> 0..Len(dbs)]
          /\ OpShape(p) /\ Len(dbs) \in Nat \ {0}
    BY DEF TypeInv
  <2> QED BY <2>1 DEF OpType
<1>2. /\ Len(dbs') \in Nat /\ Len(dbs') >= Len(dbs)
      /\ Len(trace) \in Nat /\ Len(trace') \in Nat /\ Len(trace') >= Len(trace)
  BY DbsGrow, TraceGrows DEF TypeInv
<1>3. Idle \in OpType /\ Idle.at = "idle" /\ Idle.req = NoRequest /\ Idle.scan = 0
        /\ Idle.k = 0
  BY DEF Idle, OpType, Ats
<1>4. ASSUME op'[p] = Idle, conn'[p] \in 0..Len(dbs')
      PROVE  op'[p] \in OpType /\ conn'[p] \in 0..Len(dbs') /\ OpShape(p)'
  BY <1>2, <1>3, <1>4 DEF OpShape
<1>5. CASE Opens(p) \/ Closes(p)
  <2>1. op'[p] = op[p] /\ conn'[p] \in 0..Len(dbs')
          /\ (conn'[p] = 0 => op[p].at = "idle") /\ UNCHANGED trace
    BY <1>1, <1>2, <1>3, <1>5 DEF Opens, Closes, Current
  <2> QED BY <1>1, <1>2, <2>1 DEF OpShape
<1>6. CASE Fails(p)
  BY <1>1, <1>2, <1>4, <1>6 DEF Fails
<1>7. CASE \E r \in Requests : PutStarts(p, r)
  <2>1. PICK r \in Requests : PutStarts(p, r)
    BY <1>7
  <2>2. op'[p] = [at |-> "row", req |-> r, k |-> 0, scan |-> 0]
          /\ conn'[p] = conn[p] /\ conn[p] # 0
    BY <1>1, <2>1 DEF PutStarts
  <2> QED BY <1>1, <1>2, <2>2, RequestTypes DEF OpShape, OpType, Ats
<1>8. ASSUME op[p].at # "idle", conn'[p] = conn[p], op'[p] \in OpType,
             (op'[p].at \in {"idle", "scan"}) <=> (op'[p].req = NoRequest),
             op'[p].at = "link" => op'[p].k > 0,
             op'[p].at = "scan" => op'[p].scan > 0,
             op'[p].at \in {"idle", "trace", "newline"} => op'[p].scan = 0,
             op'[p].scan = op[p].scan
      PROVE  op'[p] \in OpType /\ conn'[p] \in 0..Len(dbs') /\ OpShape(p)'
  <2>1. conn'[p] \in 0..Len(dbs') /\ conn'[p] > 0
    BY <1>1, <1>2, <1>8 DEF OpShape
  <2>2. op'[p].scan <= Len(trace') + 1
    BY <1>1, <1>2, <1>8 DEF OpShape
  <2> QED BY <1>8, <2>1, <2>2 DEF OpShape
<1>9. CASE InsertRow(p)
  <2>1. op'[p] = [op[p] EXCEPT !.at = "link", !.k = 1] /\ conn'[p] = conn[p]
          /\ op[p].at = "row" /\ op[p].req # NoRequest
    BY <1>1, <1>9 DEF InsertRow, AfterRow, OpShape
  <2>2. op'[p] \in OpType /\ op'[p].at = "link" /\ op'[p].req = op[p].req
          /\ op'[p].k = 1 /\ op'[p].scan = op[p].scan
    <3>1. "link" \in Ats /\ 1 \in Nat
      BY DEF Ats
    <3> QED BY <1>1, <2>1, <3>1 DEF OpType
  <2> QED BY <1>8, <2>1, <2>2
<1>10. CASE InsertLink(p)
  <2>1. conn'[p] = conn[p] /\ op[p].at = "link" /\ op[p].k > 0 /\ op[p].req # NoRequest
    BY <1>1, <1>10 DEF InsertLink, OpShape
  <2>2. CASE op'[p] = [op[p] EXCEPT !.k = op[p].k + 1]
    <3>1. op'[p] \in OpType /\ op'[p].at = "link" /\ op'[p].req = op[p].req
            /\ op'[p].k = op[p].k + 1 /\ op'[p].scan = op[p].scan
      <4> DEFINE n == op[p].k + 1
      <4>1. n \in Nat /\ op'[p] = [op[p] EXCEPT !.k = n]
        BY <1>1, <2>2
      <4> HIDE DEF n
      <4>2. op'[p] \in OpType /\ op'[p].at = op[p].at /\ op'[p].req = op[p].req
              /\ op'[p].k = n /\ op'[p].scan = op[p].scan
        BY <1>1, <4>1 DEF OpType
      <4> QED BY <2>1, <4>2 DEF n
    <3>2. op'[p].k > 0
      BY <1>1, <3>1
    <3> QED BY <1>8, <1>1, <2>1, <3>1, <3>2 DEF OpShape
  <2>3. CASE op[p].scan > 0 /\ op'[p] = [Idle EXCEPT !.at = "scan", !.scan = op[p].scan]
    <3>1. op'[p] \in OpType /\ op'[p].at = "scan" /\ op'[p].req = NoRequest
            /\ op'[p].scan = op[p].scan
      <4>1. "scan" \in Ats
        BY DEF Ats
      <4> QED BY <1>1, <1>3, <2>3, <4>1 DEF OpType
    <3> QED BY <1>8, <2>1, <2>3, <3>1
  <2>4. CASE op[p].scan = 0 /\ op'[p] = [op[p] EXCEPT !.at = "trace"]
    <3>1. op'[p] \in OpType /\ op'[p].at = "trace" /\ op'[p].req = op[p].req
            /\ op'[p].scan = op[p].scan
      <4>1. "trace" \in Ats
        BY DEF Ats
      <4> QED BY <1>1, <2>4, <4>1 DEF OpType
    <3> QED BY <1>8, <2>1, <2>4, <3>1
  <2> QED BY <1>1, <1>10, <2>2, <2>3, <2>4, SMTT(30) DEF InsertLink, AfterLinks
<1>14. CASE Appends(p)
  <2>1. conn'[p] = conn[p] /\ op[p].at = "trace" /\ op[p].req # NoRequest /\ op[p].scan = 0
    BY <1>1, <1>14 DEF Appends, OpShape
  <2>2. CASE op'[p] = [op[p] EXCEPT !.at = "newline"]
    <3>1. op'[p] \in OpType /\ op'[p].at = "newline" /\ op'[p].req = op[p].req
            /\ op'[p].scan = op[p].scan
      <4>1. "newline" \in Ats
        BY DEF Ats
      <4> QED BY <1>1, <2>2, <4>1 DEF OpType
    <3> QED BY <1>8, <2>1, <3>1
  <2>3. CASE op'[p] = Idle
    BY <1>1, <1>2, <1>4, <2>1, <2>3
  <2> QED BY <1>1, <1>14, <2>2, <2>3 DEF Appends
<1>11. CASE AppendsNewline(p) \/ ScanRaises(p) \/ ScanEnds(p)
  BY <1>1, <1>2, <1>4, <1>11 DEF AppendsNewline, ScanRaises, ScanEnds
<1>12. CASE RebuildStarts(p)
  <2>1. op'[p] = [Idle EXCEPT !.at = "scan", !.scan = 1] /\ conn'[p] = Len(dbs')
          /\ UNCHANGED trace
    BY <1>1, <1>12 DEF RebuildStarts
  <2>2. op'[p] \in OpType /\ op'[p].at = "scan" /\ op'[p].req = NoRequest
          /\ op'[p].scan = 1
    <3>1. "scan" \in Ats /\ 1 \in Nat
      BY DEF Ats
    <3> QED BY <1>3, <2>1, <3>1 DEF OpType
  <2> QED BY <1>1, <1>2, <2>1, <2>2 DEF OpShape
<1>13. CASE ScanLine(p)
  <2> DEFINE k == op[p].scan  next == IF k < Len(trace) THEN k + 2 ELSE k + 1
  <2>1. conn'[p] = conn[p] /\ op[p].at = "scan" /\ UNCHANGED trace
          /\ k <= Len(trace) /\ k > 0 /\ trace[k] # Newline
    BY <1>1, <1>13 DEF ScanLine, LineAt, OpShape
  <2>2. trace[k] \in Requests
    BY <1>1, <2>1 DEF TypeInv
  <2>3. op'[p] = [at |-> "row", req |-> trace[k], k |-> 0, scan |-> next]
    BY <1>1, <1>13, <2>2, RequestTypes DEF ScanLine, Indexed
  <2>4. next \in Nat /\ next <= Len(trace) + 1 /\ next > 0
    BY <1>1, <1>2, <2>1, SMTT(30)
  <2> HIDE DEF next
  <2> QED BY <1>1, <1>2, <2>1, <2>2, <2>3, <2>4, RequestTypes DEF OpShape, OpType, Ats
<1> QED
  BY <1>5, <1>6, <1>7, <1>9, <1>10, <1>11, <1>12, <1>13, <1>14 DEF Acts, Put, Rebuild

\* TypeInv is inductive.
LEMMA TypeStep == TypeInv /\ [Next]_vars => TypeInv'
<1>1. ASSUME TypeInv, UNCHANGED vars  PROVE TypeInv'
  BY <1>1 DEF TypeInv, OpShape, vars
<1>2. ASSUME TypeInv, NEW p \in Processes, Acts(p)  PROVE TypeInv'
  <2>1. op'[p] \in OpType /\ conn'[p] \in 0..Len(dbs') /\ OpShape(p)'
    BY <1>2, MoverKnows
  <2>2. /\ op' \in [Processes -> OpType] /\ conn' \in [Processes -> 0..Len(dbs')]
        /\ \A q \in Processes : OpShape(q)'
    BY <1>2, <2>1, MoverTyped
  <2>3. dbs' \in Seq(DbType) /\ Len(dbs') > 0
    BY <1>2, DbsGrow DEF TypeInv
  <2>4. trace' \in Seq(Requests \cup {Newline})
    BY <1>2, TraceGrows
  <2>5. /\ files' \subseteq Ids /\ failed' \subseteq Ids
        /\ puts' \in 0..MaxPuts /\ failures' \in 0..MaxFailures
    <3>1. /\ files \subseteq Ids /\ failed \subseteq Ids
          /\ puts \in 0..MaxPuts /\ failures \in 0..MaxFailures
      BY <1>2 DEF TypeInv
    <3>2. CASE Fails(p)
      <4>1. op[p].req # NoRequest => op[p].req.id \in Ids
        BY <1>2, <3>2, RequestTypes DEF Fails, TypeInv, OpType
      <4> QED BY <3>1, <3>2, <4>1, ArtifactAssumption DEF Fails
    <3>3. CASE \E r \in Requests : PutStarts(p, r)
      BY <3>1, <3>3, RequestTypes, ArtifactAssumption DEF PutStarts, FileWritten
    <3>4. CASE UNCHANGED <<files, failed, puts, failures>>
      BY <3>1, <3>4
    <3> QED
      BY <1>2, <3>2, <3>3, <3>4 DEF Acts, Put, Rebuild, Opens, Closes, InsertRow,
         InsertLink, Appends, AppendsNewline, RebuildStarts, ScanLine, ScanRaises, ScanEnds
  <2> QED BY <2>2, <2>3, <2>4, <2>5 DEF TypeInv
<1> QED BY <1>1, <1>2 DEF Next, Acts

\* A store that was just made is well typed.
LEMMA TypeInit == Init => TypeInv
<1> SUFFICES ASSUME Init PROVE TypeInv
  OBVIOUS
<1>1. EmptyDb \in DbType
  <2>1. << >> \in [{} -> Kinds] /\ {} \in SUBSET Ids
    OBVIOUS
  <2> QED BY <2>1 DEF EmptyDb, DbType
<1>2. dbs \in Seq(DbType) /\ Len(dbs) = 1
  BY <1>1 DEF Init
<1>3. Idle \in OpType /\ Idle.at = "idle" /\ Idle.req = NoRequest /\ Idle.scan = 0
  BY DEF Idle, OpType, Ats
<1>4. trace \in Seq(Requests \cup {Newline}) /\ Len(trace) = 0
  BY DEF Init
<1>5. op \in [Processes -> OpType] /\ conn \in [Processes -> 0..Len(dbs)]
  BY <1>2, <1>3 DEF Init
<1>6. \A p \in Processes : OpShape(p)
  BY <1>3, <1>4 DEF Init, OpShape
<1> QED BY <1>2, <1>4, <1>5, <1>6, ArtifactAssumption DEF Init, TypeInv

\* The type invariant holds throughout.
LEMMA TypeAlways == Spec => []TypeInv
  BY TypeInit, TypeStep, PTL DEF Spec

\* Files, index, ledger and operations are of their kinds: no link or row of an
\* unknown artifact, no step without an open database, no scan beyond the ledger.
THEOREM StoreTypes == Spec => []TypeOK
<1>1. TypeInv => TypeOK
  <2> SUFFICES ASSUME TypeInv PROVE TypeOK
    OBVIOUS
  <2>1. ASSUME NEW g \in 1..Current
        PROVE  /\ Rows(g) \subseteq Ids
               /\ \A i \in Rows(g) : dbs[g].rows[i] \in Kinds
               /\ dbs[g].links \subseteq Ids \X Ids \X (Nat \ {0})
    <3>1. dbs[g] \in DbType
      BY <2>1 DEF TypeInv, Current
    <3>2. PICK D \in SUBSET Ids : dbs[g].rows \in [D -> Kinds]
      BY <3>1 DEF DbType
    <3> QED BY <3>1, <3>2 DEF DbType, Rows
  <2>2. ASSUME NEW p \in Processes
        PROVE  /\ op[p].at \in {"idle", "row", "link", "trace", "newline", "scan"}
               /\ op[p].req \in Requests \cup {NoRequest}
               /\ op[p].at # "idle" => conn[p] # 0
               /\ op[p].scan \in 0..(Len(trace) + 2)
    BY <2>2 DEF TypeInv, OpType, OpShape, Ats
  <2> QED BY <2>1, <2>2 DEF TypeInv, TypeOK, Current
<1> QED BY <1>1, TypeAlways, PTL

-----------------------------------------------------------------------------
(* Bytes first                                                             *)

\* What a step adds to the rows of the index, and to the ledger.
LEMMA RowsAfter ==
  ASSUME TypeInv, NEW p \in Processes, Acts(p), NEW g \in 1..Len(dbs'),
         NEW i \in DOMAIN dbs'[g].rows
  PROVE  \/ g \in 1..Len(dbs) /\ i \in Rows(g)
         \/ InsertRow(p) /\ g = conn[p] /\ i = op[p].req.id
<1>1. dbs \in Seq(DbType)
  BY DEF TypeInv
<1>2. CASE UNCHANGED dbs
  BY <1>2 DEF Rows
<1>3. CASE InsertRow(p)
  <2>1. g \in 1..Len(dbs)
    BY <1>3, InsertRowGrows
  <2>2. DOMAIN dbs'[g].rows = Rows(g) \cup (IF g = conn[p] THEN {op[p].req.id} ELSE {})
    BY <1>3, <2>1, InsertRowGrows
  <2> QED BY <1>3, <2>1, <2>2
<1>4. CASE InsertLink(p)
  BY <1>4, InsertLinkGrows
<1>5. CASE RebuildStarts(p)
  <2>1. dbs' = Append(dbs, EmptyDb)
    BY <1>5 DEF RebuildStarts
  <2>2. CASE g \in 1..Len(dbs)
    <3>1. dbs'[g] = dbs[g]
      BY <1>1, <2>1, <2>2
    <3> QED BY <2>2, <3>1 DEF Rows
  <2>3. CASE g \notin 1..Len(dbs)
    <3>1. dbs'[g] = EmptyDb
      BY <1>1, <2>1, <2>3
    <3>2. DOMAIN EmptyDb.rows = {}
      BY DEF EmptyDb
    <3> QED BY <3>1, <3>2
  <2> QED BY <2>2, <2>3
<1>6. Acts(p) => UNCHANGED dbs \/ InsertRow(p) \/ InsertLink(p) \/ RebuildStarts(p)
  BY DEF Acts, Put, Rebuild, Opens, Closes, Fails, PutStarts, Appends, AppendsNewline,
         ScanLine, ScanRaises, ScanEnds
<1> QED BY <1>2, <1>3, <1>4, <1>5, <1>6

\* Appending to a sequence adds one element to its set.
LEMMA AppendToSet ==
  ASSUME NEW S, NEW s \in Seq(S), NEW e \in S
  PROVE  Append(s, e) \in Seq(S) /\ ToSet(Append(s, e)) = ToSet(s) \cup {e}
<1> DEFINE t == Append(s, e)
<1>1. t \in Seq(S) /\ Len(t) = Len(s) + 1 /\ t[Len(s) + 1] = e
        /\ \A i \in 1..Len(s) : t[i] = s[i]
  BY AppendProperties
<1>2. DOMAIN t = 1..(Len(s) + 1) /\ DOMAIN s = 1..Len(s) /\ Len(s) \in Nat
  BY <1>1
<1> HIDE DEF t
<1>3. \A x : x \in ToSet(t) <=> \E i \in 1..(Len(s) + 1) : t[i] = x
  BY <1>2 DEF ToSet
<1>4. \A x : x \in ToSet(s) <=> \E i \in 1..Len(s) : s[i] = x
  BY <1>2 DEF ToSet
<1>5. ASSUME NEW x, x \in ToSet(t)  PROVE x \in ToSet(s) \cup {e}
  <2>1. PICK i \in 1..(Len(s) + 1) : t[i] = x
    BY <1>3, <1>5
  <2>2. CASE i = Len(s) + 1
    BY <1>1, <2>1, <2>2
  <2>3. CASE i \in 1..Len(s)
    BY <1>1, <1>4, <2>1, <2>3
  <2> QED BY <1>2, <2>2, <2>3
<1>6. ASSUME NEW x, x \in ToSet(s)  PROVE x \in ToSet(t)
  <2>1. PICK i \in 1..Len(s) : s[i] = x
    BY <1>4, <1>6
  <2>2. i \in 1..(Len(s) + 1) /\ t[i] = x
    BY <1>1, <1>2, <2>1
  <2> QED BY <1>3, <2>2
<1>7. e \in ToSet(t)
  <2>1. Len(s) + 1 \in 1..(Len(s) + 1)
    BY <1>2
  <2> QED BY <1>1, <1>3, <2>1
<1>8. ToSet(t) = ToSet(s) \cup {e}
  BY <1>5, <1>6, <1>7
<1> QED BY <1>1, <1>8 DEF t

\* Only an append adds an event to the ledger, and it adds the request.
LEMMA TracedAfter ==
  ASSUME TypeInv, NEW p \in Processes, Acts(p)
  PROVE  /\ Traced' = Traced \cup (IF Appends(p) THEN {op[p].req} ELSE {})
         /\ Traced \subseteq Requests
<1>1. trace \in Seq(Requests \cup {Newline})
  BY DEF TypeInv
<1>6. Traced \subseteq Requests
  BY <1>1 DEF Traced, ToSet
<1>2. CASE UNCHANGED trace /\ ~Appends(p)
  BY <1>2, <1>6 DEF Traced, ToSet
<1>3. CASE Appends(p)
  <2>1. op[p].req \in Requests /\ op[p].req # Newline
    BY <1>3, Busy, RequestTypes DEF Appends
  <2> DEFINE r == op[p].req
  <2>2. CASE trace' = Append(trace, r)
    <3>1. ToSet(trace') = ToSet(trace) \cup {r}
      BY <1>1, <2>1, <2>2, AppendToSet, r \in Requests \cup {Newline}
    <3> QED BY <1>3, <1>6, <2>1, <3>1 DEF Traced
  <2>3. CASE trace' = trace \o <<r, Newline>>
    <3>1. ToSet(trace') = ToSet(trace) \cup {r, Newline}
      <4>1. trace' = Append(Append(trace, r), Newline)
        BY <1>1, <2>1, <2>3
      <4>2. Append(trace, r) \in Seq(Requests \cup {Newline})
              /\ ToSet(Append(trace, r)) = ToSet(trace) \cup {r}
        BY <1>1, <2>1, AppendToSet, r \in Requests \cup {Newline}
      <4> DEFINE t == Append(trace, r)
      <4> HIDE DEF t
      <4>4. t \in Seq(Requests \cup {Newline}) /\ Newline \in Requests \cup {Newline}
        BY <4>2 DEF t
      <4>5. ToSet(Append(t, Newline)) = ToSet(t) \cup {Newline}
        BY <4>4, AppendToSet
      <4>3. ToSet(trace') = ToSet(Append(trace, r)) \cup {Newline}
        BY <4>1, <4>5 DEF t
      <4> QED BY <4>2, <4>3
    <3> QED BY <1>3, <1>6, <2>1, <3>1 DEF Traced
  <2> QED BY <1>3, <2>2, <2>3 DEF Appends
<1>4. CASE AppendsNewline(p)
  <2>1. ToSet(trace') = ToSet(trace) \cup {Newline}
    BY <1>1, <1>4, AppendToSet, Newline \in Requests \cup {Newline} DEF AppendsNewline
  <2>2. ~Appends(p)
    BY <1>4 DEF Appends, AppendsNewline
  <2> QED BY <1>6, <2>1, <2>2 DEF Traced
<1>5. Acts(p) => (UNCHANGED trace /\ ~Appends(p)) \/ Appends(p) \/ AppendsNewline(p)
  BY DEF Acts, Put, Rebuild, Opens, Closes, Fails, PutStarts, InsertRow, InsertLink,
         RebuildStarts, ScanLine, ScanRaises, ScanEnds, Appends
<1> QED BY <1>2, <1>3, <1>4, <1>5, <1>6

\* The bytes are written before the row, the row before the event: what the
\* index, the ledger and the operations under way name has a file.
FileInv ==
  /\ \A g \in 1..Len(dbs) : Rows(g) \subseteq files
  /\ \A r \in Traced : r.id \in files
  /\ \A p \in Processes : op[p].req # NoRequest => op[p].req.id \in files

\* The request of the mover after its step: the one it had, the one it puts, or
\* the frame it reads.
LEMMA RequestAfter ==
  ASSUME TypeInv, NEW p \in Processes, Acts(p), op'[p].req # NoRequest
  PROVE  \/ op'[p].req = op[p].req
         \/ \E r \in Requests : PutStarts(p, r) /\ op'[p].req = r
         \/ ScanLine(p) /\ op'[p].req \in Traced /\ op'[p].req = trace[op[p].scan]
<1>1. op \in [Processes -> OpType] /\ op[p] \in OpType
  BY Busy DEF TypeInv
<1>2. Idle.req = NoRequest /\ [Idle EXCEPT !.at = "scan", !.scan = 1].req = NoRequest
  BY DEF Idle
<1>3. CASE Opens(p) \/ Closes(p)
  BY <1>3 DEF Opens, Closes
<1>4. CASE Fails(p) \/ AppendsNewline(p) \/ ScanRaises(p) \/ ScanEnds(p)
  <2>1. op'[p] = Idle
    BY <1>1, <1>4 DEF Fails, AppendsNewline, ScanRaises, ScanEnds
  <2> QED BY <1>2, <2>1
<1>5. CASE \E r \in Requests : PutStarts(p, r)
  <2>1. PICK r \in Requests : PutStarts(p, r)
    BY <1>5
  <2>2. op'[p].req = r
    BY <1>1, <2>1 DEF PutStarts
  <2> QED BY <2>1, <2>2
<1>6. CASE InsertRow(p)
  <2>1. op'[p] = [op[p] EXCEPT !.at = "link", !.k = 1]
    BY <1>1, <1>6 DEF InsertRow, AfterRow
  <2> QED BY <1>1, <2>1 DEF OpType
<1>7. CASE InsertLink(p)
  <2>1. CASE op'[p] = [op[p] EXCEPT !.k = op[p].k + 1]
    BY <1>1, <2>1 DEF OpType
  <2>2. CASE op'[p] = [Idle EXCEPT !.at = "scan", !.scan = op[p].scan]
    BY <2>2 DEF Idle
  <2>3. CASE op'[p] = [op[p] EXCEPT !.at = "trace"]
    BY <1>1, <2>3 DEF OpType
  <2> QED BY <1>1, <1>7, <2>1, <2>2, <2>3 DEF InsertLink, AfterLinks
<1>8. CASE Appends(p)
  <2>1. CASE op'[p] = [op[p] EXCEPT !.at = "newline"]
    BY <1>1, <2>1 DEF OpType
  <2>2. CASE op'[p] = Idle
    BY <1>2, <2>2
  <2> QED BY <1>1, <1>8, <2>1, <2>2 DEF Appends
<1>9. CASE RebuildStarts(p)
  <2>1. op'[p] = [Idle EXCEPT !.at = "scan", !.scan = 1]
    BY <1>1, <1>9 DEF RebuildStarts
  <2> QED BY <1>2, <2>1
<1>10. CASE ScanLine(p)
  <2> DEFINE k == op[p].scan
  <2>1. k \in DOMAIN trace /\ trace[k] # Newline
    BY <1>10 DEF ScanLine, LineAt, TypeInv, OpShape, OpType
  <2>2. trace[k] \in Requests /\ trace[k] \in Traced
    BY <2>1 DEF TypeInv, Traced, ToSet
  <2>3. op'[p].req = trace[k]
    BY <1>1, <1>10, <2>2, RequestTypes DEF ScanLine, Indexed
  <2> QED BY <1>10, <2>2, <2>3
<1> QED
  BY <1>3, <1>4, <1>5, <1>6, <1>7, <1>8, <1>9, <1>10 DEF Acts, Put, Rebuild

\* FileInv is inductive, given the types.
LEMMA FileStep == TypeInv /\ FileInv /\ [Next]_vars => FileInv'
<1>1. ASSUME TypeInv, FileInv, UNCHANGED vars  PROVE FileInv'
  BY <1>1 DEF FileInv, Rows, Traced, ToSet, vars
<1>2. ASSUME TypeInv, FileInv, NEW p \in Processes, Acts(p)  PROVE FileInv'
  <2>6. \A r \in Requests : PutStarts(p, r) => files' = files \cup {r.id}
    BY DEF PutStarts, FileWritten
  <2>7. (\E r \in Requests : PutStarts(p, r)) \/ files' = files
    BY <1>2 DEF Acts, Put, Rebuild, Opens, Closes, Fails, InsertRow,
       InsertLink, Appends, AppendsNewline, RebuildStarts, ScanLine, ScanRaises, ScanEnds
  <2>1. files \subseteq files' /\ \A r \in Requests : PutStarts(p, r) => r.id \in files'
    BY <2>6, <2>7
  <2>2. InsertRow(p) \/ Appends(p) => op[p].req.id \in files
    <3>1. InsertRow(p) \/ Appends(p) => op[p].req # NoRequest
      BY <1>2, Busy, RequestTypes DEF InsertRow, Appends
    <3> QED BY <1>2, <3>1 DEF FileInv
  <2>3. ASSUME NEW g \in 1..Len(dbs'), NEW i \in DOMAIN dbs'[g].rows
        PROVE  i \in files'
    <3>1. \/ g \in 1..Len(dbs) /\ i \in Rows(g)
          \/ InsertRow(p) /\ g = conn[p] /\ i = op[p].req.id
      BY <1>2, <2>3, RowsAfter
    <3> QED BY <1>2, <2>1, <2>2, <3>1 DEF FileInv
  <2>4. ASSUME NEW r \in Traced'  PROVE r.id \in files'
    <3>1. r \in Traced \/ (Appends(p) /\ r = op[p].req)
      <4>1. Traced' = Traced \cup (IF Appends(p) THEN {op[p].req} ELSE {})
        BY <1>2, TracedAfter
      <4> QED BY <2>4, <4>1
    <3>2. r.id \in files
      <4>1. CASE r \in Traced
        BY <1>2, <4>1 DEF FileInv
      <4>2. CASE Appends(p) /\ r = op[p].req
        BY <2>2, <4>2
      <4> QED BY <3>1, <4>1, <4>2
    <3> QED BY <2>1, <3>2
  <2>5. ASSUME NEW q \in Processes, op'[q].req # NoRequest
        PROVE  op'[q].req.id \in files'
    <3>1. CASE q # p
      <4>1. op'[q] = op[q]
        BY <1>2, <3>1, OthersStay
      <4> QED BY <1>2, <2>1, <2>5, <4>1 DEF FileInv
    <3>2. CASE q = p
      <4>1. \/ op'[p].req = op[p].req
            \/ \E r \in Requests : PutStarts(p, r) /\ op'[p].req = r
            \/ op'[p].req \in Traced
        BY <1>2, <2>5, <3>2, RequestAfter
      <4> QED BY <1>2, <2>1, <2>5, <3>2, <4>1 DEF FileInv
    <3> QED BY <3>1, <3>2
  <2> QED BY <2>3, <2>4, <2>5 DEF FileInv, Rows
<1> QED BY <1>1, <1>2 DEF Next, Acts

\* A store that was just made names nothing.
LEMMA FileInit == Init => FileInv
<1> SUFFICES ASSUME Init PROVE FileInv
  OBVIOUS
<1>1. Len(dbs) = 1 /\ Rows(1) = {}
  BY DEF Init, Rows, EmptyDb
<1>2. Traced = {}
  BY DEF Init, Traced, ToSet
<1>3. \A p \in Processes : op[p].req = NoRequest
  BY DEF Init, Idle
<1> QED BY <1>1, <1>2, <1>3 DEF FileInv

\* Whatever fails and whoever rebuilds, with any number of processes, no row of
\* any database file and no frame of the ledger names bytes that are not there:
\* _put writes the file before either.
THEOREM StoreResolvable == Spec => []Resolvable
<1>1. TypeInv /\ FileInv => Resolvable
  BY DEF FileInv, Resolvable, Current
<1> QED BY <1>1, TypeInit, TypeStep, FileInit, FileStep, PTL DEF Spec

-----------------------------------------------------------------------------
(* What the index covers                                                   *)

\* The operation keeps its request, its place in a scan and its database.
Same(p) == op'[p].req = op[p].req /\ op'[p].scan = op[p].scan /\ conn'[p] = conn[p]

\* The row goes in, and the parents are next.
LEMMA RowSteps ==
  ASSUME TypeInv, NEW p \in Processes, InsertRow(p)
  PROVE  op'[p].at = "link" /\ op'[p].k = 1 /\ Same(p)
<1>1. op \in [Processes -> OpType] /\ op[p] \in OpType
  BY Busy DEF TypeInv
<1>2. op'[p] = [op[p] EXCEPT !.at = "link", !.k = 1] /\ conn'[p] = conn[p]
  BY <1>1 DEF InsertRow, AfterRow
<1> QED BY <1>1, <1>2 DEF OpType, Same

\* A parent goes in; or, with no parent left, the next line or the ledger is next.
LEMMA LinkSteps ==
  ASSUME TypeInv, NEW p \in Processes, InsertLink(p)
  PROVE  \/ /\ op[p].k <= Len(op[p].req.parents)
            /\ op'[p].at = "link" /\ op'[p].k = op[p].k + 1 /\ Same(p)
         \/ /\ op[p].k > Len(op[p].req.parents) /\ op[p].scan > 0
            /\ op'[p].at = "scan" /\ op'[p].req = NoRequest
            /\ op'[p].scan = op[p].scan /\ conn'[p] = conn[p]
         \/ /\ op[p].k > Len(op[p].req.parents) /\ op[p].scan = 0
            /\ op'[p].at = "trace" /\ Same(p)
<1>1. op \in [Processes -> OpType] /\ op[p] \in OpType /\ op[p].req \in Requests
  BY Busy DEF TypeInv, InsertLink
<1>2. op[p].at = "link" /\ conn'[p] = conn[p] /\ op[p].scan \in Nat /\ op[p].k \in Nat
        /\ Len(op[p].req.parents) \in Nat
  BY <1>1, RequestTypes DEF InsertLink, OpType
<1>3. CASE op[p].k <= Len(op[p].req.parents)
  <2> DEFINE n == op[p].k + 1
  <2>1. op'[p] = [op[p] EXCEPT !.k = n]
    BY <1>1, <1>2, <1>3 DEF InsertLink
  <2> HIDE DEF n
  <2>2. op'[p].at = "link" /\ op'[p].k = n /\ Same(p)
    BY <1>1, <1>2, <2>1 DEF OpType, Same
  <2> QED BY <1>3, <2>2 DEF n
<1>4. CASE op[p].k > Len(op[p].req.parents) /\ op[p].scan > 0
  <2>1. op'[p] = [Idle EXCEPT !.at = "scan", !.scan = op[p].scan]
    BY <1>1, <1>2, <1>4 DEF InsertLink, AfterLinks
  <2> QED BY <1>2, <1>4, <2>1 DEF Idle
<1>5. CASE op[p].k > Len(op[p].req.parents) /\ op[p].scan = 0
  <2>1. op'[p] = [op[p] EXCEPT !.at = "trace"]
    BY <1>1, <1>2, <1>5 DEF InsertLink, AfterLinks
  <2> QED BY <1>1, <1>2, <1>5, <2>1 DEF OpType, Same
<1> QED BY <1>2, <1>3, <1>4, <1>5

\* The rebuild passes one frame, with its newline.
LEMMA ScanSteps ==
  ASSUME TypeInv, NEW p \in Processes, ScanLine(p)
  PROVE  /\ op[p].at = "scan" /\ op[p].scan \in 1..Len(trace)
         /\ trace[op[p].scan] \in Traced
         /\ op'[p].at = "row" /\ op'[p].req = trace[op[p].scan] /\ conn'[p] = conn[p]
         /\ \/ op'[p].scan = op[p].scan + 1
            \/ op'[p].scan = op[p].scan + 2 /\ trace[op[p].scan + 1] = Newline
<1> DEFINE k == op[p].scan
<1>1. op \in [Processes -> OpType] /\ op[p].at = "scan" /\ conn'[p] = conn[p]
  BY DEF TypeInv, ScanLine
<1>2. k \in 1..Len(trace) /\ trace[k] # Newline
        /\ (k < Len(trace) => trace[k + 1] = Newline)
  BY DEF ScanLine, LineAt, TypeInv, OpShape, OpType
<1>3. trace[k] \in Requests /\ trace[k] \in Traced
  BY <1>2 DEF TypeInv, Traced, ToSet
<1>4. op'[p] = [at |-> "row", req |-> trace[k], k |-> 0,
                scan |-> IF k < Len(trace) THEN k + 2 ELSE k + 1]
  BY <1>1, <1>3, RequestTypes DEF ScanLine, Indexed
<1> QED BY <1>1, <1>2, <1>3, <1>4

\* A rebuild starts on the first line of a new database; the rest scan nothing.
LEMMA OtherSteps ==
  ASSUME TypeInv, NEW p \in Processes
  PROVE  /\ RebuildStarts(p) =>
              op'[p].at = "scan" /\ op'[p].scan = 1 /\ op'[p].req = NoRequest
              /\ Len(dbs') > 1
         /\ \/ Opens(p) \/ Closes(p) \/ Fails(p) \/ \E r \in Requests : PutStarts(p, r)
            \/ Appends(p) \/ AppendsNewline(p) \/ ScanRaises(p) \/ ScanEnds(p)
            => op'[p].at \in {"idle", "row", "newline"} /\ op'[p].scan = 0
<1>1. op \in [Processes -> OpType] /\ op[p] \in OpType /\ OpShape(p)
        /\ dbs \in Seq(DbType) /\ Len(dbs) > 0 /\ conn[p] \in 0..Len(dbs)
  BY DEF TypeInv
<1>2. Idle.at = "idle" /\ Idle.scan = 0
  BY DEF Idle
<1>3. ASSUME RebuildStarts(p)
      PROVE  op'[p].at = "scan" /\ op'[p].scan = 1 /\ op'[p].req = NoRequest
             /\ Len(dbs') > 1
  <2>1. op'[p] = [Idle EXCEPT !.at = "scan", !.scan = 1] /\ dbs' = Append(dbs, EmptyDb)
    BY <1>1, <1>3 DEF RebuildStarts
  <2>2. Len(dbs') = Len(dbs) + 1
    BY <1>1, <2>1
  <2> QED BY <1>1, <2>1, <2>2 DEF Idle
<1>4. ASSUME Opens(p) \/ Closes(p)
      PROVE  op'[p].at = "idle" /\ op'[p].scan = 0
  <2>1. op'[p] = op[p] /\ op[p].at = "idle"
    BY <1>1, <1>2, <1>4 DEF Opens, Closes, OpShape
  <2> QED BY <1>1, <2>1 DEF OpShape
<1>5. ASSUME Fails(p) \/ AppendsNewline(p) \/ ScanRaises(p) \/ ScanEnds(p)
      PROVE  op'[p] = Idle
  BY <1>1, <1>5 DEF Fails, AppendsNewline, ScanRaises, ScanEnds
<1>6. ASSUME NEW r \in Requests, PutStarts(p, r)
      PROVE  op'[p].at = "row" /\ op'[p].scan = 0
  BY <1>1, <1>6 DEF PutStarts
<1>7. ASSUME Appends(p)
      PROVE  op'[p].at \in {"idle", "newline"} /\ op'[p].scan = 0
  <2>1. op'[p] = Idle \/ op'[p] = [op[p] EXCEPT !.at = "newline"]
    BY <1>1, <1>7 DEF Appends
  <2>2. op[p].scan = 0
    BY <1>1, <1>7 DEF Appends, OpShape
  <2> QED BY <1>1, <1>2, <2>1, <2>2 DEF OpType
<1> QED BY <1>2, <1>3, <1>4, <1>5, <1>6, <1>7

\* The row is there, and the links before the n-th.
Linked(db, r, n) ==
  /\ r.id \in DOMAIN db.rows
  /\ \A j \in DOMAIN r.parents : j < n => LinkRow(r, j) \in db.links

\* A line that a rebuild has passed: covered, or still going in.
Scanned(p, k) ==
  \/ trace[k] = Newline
  \/ Covers(dbs[conn[p]], trace[k])
  \/ op[p].at \in {"row", "link"} /\ trace[k] = op[p].req

\* What an operation has put into the database it has open.
Knows(p) ==
  /\ op[p].at = "link" => Linked(dbs[conn[p]], op[p].req, op[p].k)
  /\ op[p].at = "trace" => Covers(dbs[conn[p]], op[p].req)
  /\ op[p].scan > 0 => \A k \in 1..Len(trace) : k < op[p].scan => Scanned(p, k)

CoverInv ==
  /\ \A p \in Processes : Knows(p)
  /\ Len(dbs) = 1 => \A r \in Traced : Covers(dbs[1], r)

\* What a database covers it goes on covering.
LEMMA CoversStay ==
  ASSUME TypeInv, NEW p \in Processes, Acts(p), NEW g \in 1..Len(dbs), NEW r
  PROVE  /\ Covers(dbs[g], r) => Covers(dbs'[g], r)
         /\ \A n : Linked(dbs[g], r, n) => Linked(dbs'[g], r, n)
<1>1. DOMAIN dbs[g].rows \subseteq DOMAIN dbs'[g].rows /\ dbs[g].links \subseteq dbs'[g].links
  BY DbsGrow DEF Rows
<1> QED BY <1>1 DEF Covers, Linked

\* The process that does not move knows what it knew.
LEMMA OthersKnow ==
  ASSUME TypeInv, NEW p \in Processes, Acts(p), NEW q \in Processes, q # p, Knows(q)
  PROVE  Knows(q)'
<1>1. op'[q] = op[q] /\ conn'[q] = conn[q]
  BY OthersStay
<1>2. OpShape(q) /\ op[q] \in OpType /\ (op[q].at # "idle" => conn[q] \in 1..Len(dbs))
  BY Busy DEF TypeInv
<1>3. op[q].at = "link" => Linked(dbs'[conn[q]], op[q].req, op[q].k)
  BY <1>2, CoversStay DEF Knows
<1>4. op[q].at = "trace" => Covers(dbs'[conn[q]], op[q].req)
  BY <1>2, CoversStay DEF Knows
<1>5. ASSUME op[q].scan > 0, NEW k \in 1..Len(trace'), k < op[q].scan
      PROVE  Scanned(q, k)'
  <2>1. op[q].at # "idle" /\ conn[q] \in 1..Len(dbs) /\ op[q].scan \in Nat
    BY <1>2, <1>5 DEF OpShape, OpType
  <2>2. Len(trace) \in Nat /\ op[q].scan <= Len(trace) + 1
    BY <1>2 DEF TypeInv, OpShape
  <2>3. k \in 1..Len(trace) /\ trace'[k] = trace[k]
    <3>1. k \in Int /\ k >= 1 /\ k <= Len(trace)
      BY <1>5, <2>1, <2>2
    <3>2. k \in 1..Len(trace)
      BY <2>2, <3>1
    <3> QED BY <3>2, TraceGrows
  <2>4. Scanned(q, k)
    BY <1>5, <2>3 DEF Knows
  <2>5. Covers(dbs[conn[q]], trace[k]) => Covers(dbs'[conn[q]], trace[k])
    BY <2>1, CoversStay
  <2> QED BY <1>1, <2>3, <2>4, <2>5 DEF Scanned
<1> QED BY <1>1, <1>3, <1>4, <1>5 DEF Knows

\* Once every parent is linked, the database covers the request.
LEMMA LinkedCovers ==
  ASSUME NEW r \in Requests, NEW db, NEW n \in Nat, n > Len(r.parents), Linked(db, r, n)
  PROVE  Covers(db, r)
<1>1. r.parents \in Seq(Ids)
  BY RequestTypes
<1>2. \A j \in DOMAIN r.parents : LinkRow(r, j) \in db.links
  <2> SUFFICES ASSUME NEW j \in DOMAIN r.parents PROVE j < n
    BY DEF Linked
  <2> QED BY <1>1
<1>3. r.id \in DOMAIN db.rows
  BY DEF Linked
<1> QED BY <1>2, <1>3 DEF Covers, LinksOf

\* Nothing the mover had passed in its scan is lost.
LEMMA MoverScanned ==
  ASSUME TypeInv, NEW p \in Processes, Acts(p), Knows(p), op[p].scan > 0,
         conn'[p] = conn[p],
         NEW k \in 1..Len(trace), k < op[p].scan
  PROVE  /\ trace'[k] = trace[k]
         /\ \/ trace[k] = Newline \/ Covers(dbs'[conn'[p]], trace[k])
            \/ op[p].at \in {"row", "link"} /\ trace[k] = op[p].req
<1>1. trace'[k] = trace[k]
  BY TraceGrows
<1>2. Scanned(p, k)
  BY DEF Knows
<1>3. conn[p] \in 1..Len(dbs)
  <2>1. op[p].at # "idle"
    BY DEF TypeInv, OpShape
  <2> QED BY <2>1, Busy
<1>4. Covers(dbs[conn[p]], trace[k]) => Covers(dbs'[conn'[p]], trace[k])
  BY <1>3, CoversStay
<1> QED BY <1>1, <1>2, <1>4 DEF Scanned

\* The process that moves knows as much after its step, one case for each step.
LEMMA MoverCovers ==
  ASSUME TypeInv, NEW p \in Processes, Acts(p), Knows(p)
  PROVE  Knows(p)'
<1> DEFINE r == op[p].req  c == conn[p]
<1>1. OpShape(p) /\ op[p].at \in Ats /\ op[p].scan \in Nat /\ op[p].k \in Nat
        /\ Len(trace) \in Nat
  BY Busy DEF TypeInv, OpType
<1>2. CASE op'[p].at \in {"idle", "row", "newline"} /\ op'[p].scan = 0
  BY <1>2 DEF Knows
<1>3. CASE InsertRow(p)
  <2>1. c \in 1..Len(dbs) /\ op[p].at = "row" /\ r \in Requests /\ UNCHANGED trace
    BY <1>3, Busy DEF InsertRow
  <2>2. op'[p].at = "link" /\ op'[p].k = 1 /\ op'[p].req = r /\ op'[p].scan = op[p].scan
          /\ conn'[p] = c
    BY <1>3, RowSteps DEF Same
  <2>3. Linked(dbs'[c], r, 1)
    <3>1. r.id \in DOMAIN dbs'[c].rows
      BY <1>3, <2>1, InsertRowGrows
    <3>2. \A j \in DOMAIN r.parents : ~(j < 1)
      BY <2>1, RequestTypes
    <3> QED BY <3>1, <3>2 DEF Linked
  <2>4. ASSUME op[p].scan > 0, NEW k \in 1..Len(trace), k < op[p].scan
        PROVE  Scanned(p, k)'
    BY <2>1, <2>2, <2>4, MoverScanned DEF Scanned
  <2> QED BY <2>1, <2>2, <2>3, <2>4 DEF Knows
<1>4. CASE InsertLink(p)
  <2>1. c \in 1..Len(dbs) /\ op[p].at = "link" /\ r \in Requests /\ UNCHANGED trace
          /\ Linked(dbs[c], r, op[p].k)
    BY <1>4, Busy DEF InsertLink, Knows
  <2>2. Linked(dbs'[c], r, op[p].k)
    BY <2>1, CoversStay
  <2>3. CASE /\ op[p].k <= Len(r.parents)
             /\ op'[p].at = "link" /\ op'[p].k = op[p].k + 1 /\ Same(p)
    <3>1. LinkRow(r, op[p].k) \in dbs'[c].links
      BY <1>4, <2>3, InsertLinkGrows
    <3>2. ASSUME NEW j \in DOMAIN r.parents, j < op[p].k + 1
          PROVE  j < op[p].k \/ j = op[p].k
      <4>1. r.parents \in Seq(Ids)
        BY <2>1, RequestTypes
      <4>2. j \in Nat
        BY <4>1
      <4> QED BY <1>1, <3>2, <4>2
    <3>3. Linked(dbs'[c], r, op[p].k + 1)
      BY <2>2, <3>1, <3>2 DEF Linked
    <3>4. ASSUME op[p].scan > 0, NEW k \in 1..Len(trace), k < op[p].scan
          PROVE  Scanned(p, k)'
      BY <2>1, <2>3, <3>4, MoverScanned DEF Scanned, Same
    <3> QED BY <2>1, <2>3, <3>3, <3>4 DEF Knows, Same
  <2>4. op[p].k > Len(r.parents) => Covers(dbs'[c], r)
    BY <1>1, <2>1, <2>2, LinkedCovers
  <2>5. CASE /\ op[p].k > Len(r.parents) /\ op[p].scan > 0
             /\ op'[p].at = "scan" /\ op'[p].req = NoRequest
             /\ op'[p].scan = op[p].scan /\ conn'[p] = conn[p]
    <3>1. ASSUME NEW k \in 1..Len(trace), k < op[p].scan
          PROVE  Scanned(p, k)'
      BY <2>1, <2>4, <2>5, <3>1, MoverScanned DEF Scanned
    <3> QED BY <2>1, <2>5, <3>1 DEF Knows
  <2>6. CASE /\ op[p].k > Len(r.parents) /\ op[p].scan = 0
             /\ op'[p].at = "trace" /\ Same(p)
    BY <2>4, <2>6 DEF Knows, Same
  <2> QED BY <1>4, <2>3, <2>5, <2>6, LinkSteps
<1>5. CASE RebuildStarts(p)
  <2>1. op'[p].at = "scan" /\ op'[p].scan = 1
    BY <1>5, OtherSteps
  <2>2. \A k \in 1..Len(trace') : ~(k < 1)
    OBVIOUS
  <2> QED BY <2>1, <2>2 DEF Knows
<1>6. CASE ScanLine(p)
  <2> DEFINE s == op[p].scan
  <2>1. /\ op[p].at = "scan" /\ s \in 1..Len(trace)
        /\ op'[p].at = "row" /\ op'[p].req = trace[s] /\ conn'[p] = c
        /\ \/ op'[p].scan = s + 1
           \/ op'[p].scan = s + 2 /\ trace[s + 1] = Newline
    BY <1>6, ScanSteps
  <2>2. UNCHANGED trace
    BY <1>6 DEF ScanLine
  <2>3. ASSUME NEW k \in 1..Len(trace), k < op'[p].scan
        PROVE  Scanned(p, k)'
    <3>1. k < s \/ k = s \/ (k = s + 1 /\ trace[k] = Newline)
      BY <1>1, <2>1, <2>3
    <3>2. CASE k < s
      BY <1>1, <2>1, <2>2, <3>2, MoverScanned DEF Scanned
    <3>3. CASE k = s
      BY <2>1, <2>2, <3>3 DEF Scanned
    <3>4. CASE trace[k] = Newline
      BY <2>2, <3>4 DEF Scanned
    <3> QED BY <3>1, <3>2, <3>3, <3>4
  <2> QED BY <2>1, <2>2, <2>3 DEF Knows
<1> QED BY <1>2, <1>3, <1>4, <1>5, <1>6, OtherSteps DEF Acts, Put, Rebuild

\* CoverInv is inductive, given the types.
LEMMA CoverStep == TypeInv /\ CoverInv /\ [Next]_vars => CoverInv'
<1>1. ASSUME TypeInv, CoverInv, UNCHANGED vars  PROVE CoverInv'
  BY <1>1 DEF CoverInv, Knows, Scanned, Traced, ToSet, vars
<1>2. ASSUME TypeInv, CoverInv, NEW p \in Processes, Acts(p)  PROVE CoverInv'
  <2>1. ASSUME NEW q \in Processes  PROVE Knows(q)'
    <3>1. Knows(q)
      BY <1>2 DEF CoverInv
    <3>2. CASE q = p
      BY <1>2, <3>1, <3>2, MoverCovers
    <3>3. CASE q # p
      BY <1>2, <3>1, <3>3, OthersKnow
    <3> QED BY <3>2, <3>3
  <2>2. ASSUME Len(dbs') = 1, NEW r \in Traced'  PROVE Covers(dbs'[1], r)
    <3>1. Len(dbs) = 1
      <4>1. Len(dbs) \in Nat \ {0} /\ Len(dbs') >= Len(dbs)
        BY <1>2, DbsGrow DEF TypeInv
      <4> QED BY <2>2, <4>1
    <3>2. Covers(dbs[1], r)
      <4>1. CASE r \in Traced
        BY <1>2, <3>1, <4>1 DEF CoverInv
      <4>2. CASE r \notin Traced
        <5>1. Appends(p) /\ r = op[p].req
          <6>1. Traced' = Traced \cup (IF Appends(p) THEN {op[p].req} ELSE {})
            BY <1>2, TracedAfter
          <6> QED BY <2>2, <4>2, <6>1
        <5>2. op[p].at = "trace" /\ conn[p] = 1
          BY <1>2, <3>1, <5>1, Busy DEF Appends
        <5> QED BY <1>2, <5>1, <5>2 DEF CoverInv, Knows
      <4> QED BY <4>1, <4>2
    <3> QED BY <1>2, <3>1, <3>2, CoversStay
  <2> QED BY <2>1, <2>2 DEF CoverInv
<1> QED BY <1>1, <1>2 DEF Next, Acts

\* At the start there is nothing to cover.
LEMMA CoverInit == Init => CoverInv
<1> SUFFICES ASSUME Init PROVE CoverInv
  OBVIOUS
<1>1. Traced = {}
  BY DEF Init, Traced, ToSet
<1>2. \A p \in Processes : op[p].at = "idle" /\ op[p].scan = 0
  BY DEF Init, Idle
<1> QED BY <1>1, <1>2 DEF CoverInv, Knows

\* As long as nobody has rebuilt it, the index covers the ledger, whatever put
\* failed in between: the row and its parents are committed before the event.
THEOREM StoreCovers == Spec => []IndexCoversLedger
<1>1. CoverInv => IndexCoversLedger
  BY DEF CoverInv, IndexCoversLedger
<1> QED BY <1>1, TypeInit, TypeStep, CoverInit, CoverStep, PTL DEF Spec

\* A rebuild that ends has indexed every frame of the ledger, however many other
\* processes put, fail and rebuild meanwhile.
THEOREM StoreRebuilds == Spec => RebuildComplete
<1> DEFINE Ended == \A p \in Processes :
                       ScanEnds(p) => \A r \in Traced : Covers(dbs[conn[p]], r)
<1>1. TypeInv /\ CoverInv => [Ended]_vars
  <2> SUFFICES ASSUME TypeInv, CoverInv, NEW p \in Processes, ScanEnds(p), NEW r \in Traced
               PROVE  Covers(dbs[conn[p]], r)
    OBVIOUS
  <2>1. op[p].at = "scan" /\ op[p].scan > Len(trace) /\ op[p].scan \in Nat
          /\ trace \in Seq(Requests \cup {Newline})
    BY DEF ScanEnds, TypeInv, OpType
  <2>2. PICK k \in 1..Len(trace) : trace[k] = r
    BY <2>1 DEF Traced, ToSet
  <2>3. r # Newline
    BY DEF Traced
  <2>4. Scanned(p, k)
    BY <2>1, <2>2 DEF CoverInv, Knows
  <2> QED BY <2>1, <2>2, <2>3, <2>4 DEF Scanned
<1>2. Spec => [](TypeInv /\ CoverInv)
  BY TypeInit, TypeStep, CoverInit, CoverStep, PTL DEF Spec
<1> QED BY <1>1, <1>2, PTL DEF RebuildComplete, Spec

-----------------------------------------------------------------------------
(* What the ledger knows                                                   *)

\* An id the ledger has, or will have, or that was given up.
Named(i) ==
  \/ \E r \in Traced : r.id = i
  \/ i \in failed
  \/ \E p \in Processes : op[p].at # "idle" /\ op[p].req # NoRequest /\ op[p].req.id = i

\* What a rebuild puts, and what a put has appended, is in the ledger.
Told(p) ==
  (op[p].scan > 0 \/ op[p].at = "newline") /\ op[p].req # NoRequest => op[p].req \in Traced

LedgerInv ==
  /\ \A g \in 1..Len(dbs) : \A i \in Rows(g) : Named(i)
  /\ \A p \in Processes : Told(p)

\* An operation that gives up its request failed, or has told the ledger.
LEMMA RequestLost ==
  ASSUME TypeInv, NEW p \in Processes, Acts(p), Told(p), op[p].req # NoRequest
  PROVE  \/ op'[p].req = op[p].req /\ op'[p].at # "idle"
         \/ op[p].req.id \in failed'
         \/ op[p].req \in Traced'
<1>1. op \in [Processes -> OpType] /\ op[p] \in OpType /\ OpShape(p)
  BY Busy DEF TypeInv
<1>2. op[p].at \notin {"idle", "scan"} /\ op[p] # Idle
  BY <1>1 DEF OpShape, Idle
<1>3. Traced' = Traced \cup (IF Appends(p) THEN {op[p].req} ELSE {})
  BY TracedAfter
<1>4. CASE Fails(p)
  BY <1>4 DEF Fails
<1>5. CASE InsertRow(p)
  BY <1>5, RowSteps DEF Same
<1>6. CASE InsertLink(p)
  BY <1>2, <1>3, <1>6, LinkSteps DEF Same, Told
<1>7. CASE Appends(p)
  BY <1>3, <1>7
<1>8. CASE AppendsNewline(p)
  BY <1>3, <1>8 DEF AppendsNewline, Told
<1>9. CASE Opens(p)
  BY <1>2, <1>9 DEF Opens
<1> QED
  BY <1>2, <1>4, <1>5, <1>6, <1>7, <1>8, <1>9
  DEF Acts, Put, Rebuild, Closes, PutStarts, RebuildStarts, ScanLine, ScanRaises, ScanEnds

\* An id stays accounted for.
LEMMA NamedStays ==
  ASSUME TypeInv, NEW p \in Processes, Acts(p), Told(p), NEW i, Named(i)
  PROVE  Named(i)'
<1>1. Traced \subseteq Traced'
  BY TracedAfter
<1>2. failed \subseteq failed'
  BY DEF Acts, Put, Rebuild, Opens, Closes, Fails, PutStarts, InsertRow, InsertLink,
         Appends, AppendsNewline, RebuildStarts, ScanLine, ScanRaises, ScanEnds
<1>3. ASSUME NEW q \in Processes, op[q].at # "idle", op[q].req # NoRequest, op[q].req.id = i
      PROVE  Named(i)'
  <2>1. CASE q # p
    <3>1. op'[q] = op[q]
      BY <2>1, OthersStay
    <3> QED BY <1>3, <3>1 DEF Named
  <2>2. CASE q = p
    BY <1>3, <2>2, RequestLost DEF Named
  <2> QED BY <2>1, <2>2
<1> QED BY <1>1, <1>2, <1>3 DEF Named

\* Only an append waits for its newline.
LEMMA NewlineAfter ==
  ASSUME TypeInv, NEW p \in Processes, Acts(p), op'[p].at = "newline"
  PROVE  Appends(p) /\ op'[p].req = op[p].req
<1>1. op \in [Processes -> OpType] /\ op[p] \in OpType /\ Idle.at = "idle"
  BY Busy DEF TypeInv, Idle
<1>2. CASE Appends(p)
  <2>1. op'[p] = Idle \/ op'[p] = [op[p] EXCEPT !.at = "newline"]
    BY <1>1, <1>2 DEF Appends
  <2> QED BY <1>1, <1>2, <2>1 DEF OpType
<1>3. CASE Opens(p) \/ Closes(p)
  <2>1. op'[p] = op[p] /\ OpShape(p) /\ conn[p] \in 0..Len(dbs)
    BY <1>1, <1>3 DEF Opens, Closes, TypeInv
  <2> QED BY <1>1, <1>3, <2>1 DEF Opens, Closes, OpShape
<1>4. CASE Fails(p) \/ AppendsNewline(p) \/ ScanRaises(p) \/ ScanEnds(p)
  <2>1. op'[p] = Idle
    BY <1>1, <1>4 DEF Fails, AppendsNewline, ScanRaises, ScanEnds
  <2> QED BY <1>1, <2>1
<1>5. CASE \E r \in Requests : PutStarts(p, r)
  BY <1>1, <1>5 DEF PutStarts
<1>6. ~InsertRow(p) /\ ~InsertLink(p) /\ ~RebuildStarts(p) /\ ~ScanLine(p)
  BY RowSteps, LinkSteps, ScanSteps, OtherSteps
<1> QED BY <1>2, <1>3, <1>4, <1>5, <1>6 DEF Acts, Put, Rebuild

\* The process that moves has told the ledger what it should have.
LEMMA MoverTold ==
  ASSUME TypeInv, NEW p \in Processes, Acts(p), Told(p)
  PROVE  Told(p)'
<1>1. Traced' = Traced \cup (IF Appends(p) THEN {op[p].req} ELSE {})
  BY TracedAfter
<1>2. CASE op'[p].at = "newline"
  BY <1>1, <1>2, NewlineAfter DEF Told
<1>3. CASE op'[p].at # "newline" /\ ~(op'[p].scan > 0)
  BY <1>3 DEF Told
<1>4. CASE op'[p].at # "newline" /\ op'[p].scan > 0
  <2>1. CASE InsertRow(p)
    BY <1>1, <1>4, <2>1, RowSteps DEF Told, Same
  <2>2. CASE InsertLink(p)
    BY <1>1, <1>4, <2>2, LinkSteps DEF Told, Same
  <2>3. CASE RebuildStarts(p)
    BY <2>3, OtherSteps DEF Told
  <2>4. CASE ScanLine(p)
    BY <1>1, <2>4, ScanSteps DEF Told
  <2>5. ~(0 > 0)
    OBVIOUS
  <2> QED
    BY <1>4, <2>1, <2>2, <2>3, <2>4, <2>5, OtherSteps DEF Acts, Put, Rebuild
<1> QED BY <1>2, <1>3, <1>4

\* LedgerInv is inductive, given the types.
LEMMA LedgerStep == TypeInv /\ LedgerInv /\ [Next]_vars => LedgerInv'
<1>1. ASSUME TypeInv, LedgerInv, UNCHANGED vars  PROVE LedgerInv'
  BY <1>1 DEF LedgerInv, Told, Named, Rows, Traced, ToSet, vars
<1>2. ASSUME TypeInv, LedgerInv, NEW p \in Processes, Acts(p)  PROVE LedgerInv'
  <2>1. Told(p)
    BY <1>2 DEF LedgerInv
  <2>2. ASSUME NEW q \in Processes  PROVE Told(q)'
    <3>1. CASE q = p
      BY <1>2, <2>1, <3>1, MoverTold
    <3>2. CASE q # p
      <4>1. op'[q] = op[q] /\ Traced \subseteq Traced'
        BY <1>2, <3>2, OthersStay, TracedAfter
      <4> QED BY <1>2, <4>1 DEF LedgerInv, Told
    <3> QED BY <3>1, <3>2
  <2>3. ASSUME NEW g \in 1..Len(dbs'), NEW i \in DOMAIN dbs'[g].rows
        PROVE  Named(i)'
    <3>1. \/ g \in 1..Len(dbs) /\ i \in Rows(g)
          \/ InsertRow(p) /\ i = op[p].req.id
      BY <1>2, <2>3, RowsAfter
    <3>2. CASE g \in 1..Len(dbs) /\ i \in Rows(g)
      <4>1. Named(i)
        BY <1>2, <3>2 DEF LedgerInv
      <4> QED BY <1>2, <2>1, <4>1, NamedStays
    <3>3. CASE InsertRow(p) /\ i = op[p].req.id
      <4>1. op'[p].at = "link" /\ op'[p].req = op[p].req
        BY <1>2, <3>3, RowSteps DEF Same
      <4>2. op[p].req # NoRequest
        BY <1>2, <3>3, Busy, RequestTypes DEF InsertRow
      <4> QED BY <3>3, <4>1, <4>2 DEF Named
    <3> QED BY <3>1, <3>2, <3>3
  <2> QED BY <2>2, <2>3 DEF LedgerInv, Rows
<1> QED BY <1>1, <1>2 DEF Next, Acts

\* At the start the index is empty.
LEMMA LedgerInit == Init => LedgerInv
<1> SUFFICES ASSUME Init PROVE LedgerInv
  OBVIOUS
<1>1. Len(dbs) = 1 /\ Rows(1) = {}
  BY DEF Init, Rows, EmptyDb
<1>2. \A p \in Processes : op[p].req = NoRequest
  BY DEF Init, Idle
<1> QED BY <1>1, <1>2 DEF LedgerInv, Told

\* No event is lost between concurrent puts of the same bytes, the early return of
\* materialize and INSERT OR IGNORE: an id with a row is in the ledger, or its put
\* or rebuild is under way or failed.
THEOREM StoreTells == Spec => []LedgerComplete
<1>1. TypeInv /\ LedgerInv => LedgerComplete
  <2> SUFFICES ASSUME TypeInv, LedgerInv PROVE LedgerComplete
    OBVIOUS
  <2>1. Len(dbs) \in 1..Len(dbs)
    BY DEF TypeInv
  <2> QED BY <2>1 DEF LedgerInv, LedgerComplete, Named, Current
<1> QED BY <1>1, TypeInit, TypeStep, LedgerInit, LedgerStep, PTL DEF Spec
=============================================================================
