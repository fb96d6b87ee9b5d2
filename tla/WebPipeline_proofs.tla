-------------------------- MODULE WebPipeline_proofs --------------------------
(***************************************************************************)
(* Theorems about WebPipeline, for every set of shards, their queries and  *)
(* every history of the pages.                                             *)
(***************************************************************************)
EXTENDS WebPipeline, SequenceTheorems, FiniteSetTheorems, TLAPS

-----------------------------------------------------------------------------
(* Types                                                                   *)

BodyType == Bodies \cup {NoBody}
CacheRow == [body : BodyType, tag : Nat]
ReplyType == [status : Nat, body : BodyType, tag : Nat]
JobType ==
  [at : {"none", "wait", "request", "mark", "read", "body", "meta", "done"},
   hit : CacheRow, since : Nat, reply : ReplyType, doc : BodyType]
FrameType == [url : Urls, body : BodyType, cached : BOOLEAN]
ResultType ==
  [fetches : Nat, hits : Nat, cites : SUBSET [url : Urls, body : BodyType],
   tag : {"", "NO_CITE"}]
ShardType ==
  [at : {"search", "fetch", "written", "failed", "raised", "dead"}, query : Nat, rows : Seq(ResultType)]

Types ==
  /\ version \in [Urls -> Nat] /\ \A u \in Urls : version[u] \in DOMAIN Page[u]
  /\ bodies \subseteq BodyType
  /\ meta \in [Urls -> CacheRow]
  /\ shard \in [Shards -> ShardType]
  /\ job \in [Shards -> [Urls -> JobType]]
  /\ DOMAIN trace = Shards
  /\ \A s \in Shards : trace[s] \subseteq FrameType /\ IsFiniteSet(trace[s])

LEMMA NoTypes ==
  NoRow \in CacheRow /\ NoReply \in ReplyType /\ NoJob \in JobType /\ NoJob.doc = NoBody
    /\ NoJob.at = "none"
  <1>1. None \in Nat
    BY DEF None
  <1>2. NoRow \in CacheRow
    BY <1>1 DEF NoRow, CacheRow, BodyType
  <1>3. NoReply \in ReplyType
    <2>1. PICK n \in Nat : n = 0
      OBVIOUS
    <2>2. NoReply = [status |-> n, body |-> NoBody, tag |-> None]
      BY <2>1 DEF NoReply
    <2>. QED
      BY <1>1, <2>2 DEF ReplyType, BodyType
  <1>4. NoBody \in BodyType
    BY DEF BodyType
  <1>. QED
    BY <1>1, <1>2, <1>3, <1>4 DEF NoJob, JobType

\* What a step of a fetch does to the fetches.
LEMMA MovesEffect ==
  ASSUME Types, NEW s \in Shards, NEW u \in Urls, NEW j \in JobType, Moves(s, u, j)
  PROVE  /\ job' \in [Shards -> [Urls -> JobType]] /\ job'[s][u] = j
         /\ \A w \in Urls : w # u => job'[s][w] = job[s][w]
         /\ \A q \in Shards : q # s => job'[q] = job[q]
  <1>. DEFINE x == [job[s] EXCEPT ![u] = j]
  <1>1. job[s] \in [Urls -> JobType] /\ job \in [Shards -> [Urls -> JobType]]
    BY DEF Types
  <1>2. x \in [Urls -> JobType] /\ x[u] = j /\ \A w \in Urls : w # u => x[w] = job[s][w]
    BY <1>1
  <1>3. job' = [job EXCEPT ![s] = x]
    BY DEF Moves
  <1>. HIDE DEF x
  <1>. QED
    BY <1>1, <1>2, <1>3

\* What a site answers: the current content, or that the copy is current.
LEMMA RepliesAre ==
  ASSUME Types, NEW u \in Urls, NEW tag, NEW reply \in Replies(u, tag)
  PROVE  /\ reply \in ReplyType
         /\ reply.status = 200 =>
              reply.body = Page[u][version[u]] /\ reply.tag \in {None, version[u]}
         /\ reply.status = 304 =>
              tag # None /\ tag = version[u] /\ reply.tag \in {None, version[u]}
  <1>. DEFINE current == version[u]
  <1>1. current \in Nat /\ None \in Nat /\ Page[u][current] \in BodyType /\ NoBody \in BodyType
    BY WebAssumption, ElementOfSeq, LenProperties DEF Types, None, BodyType
  <1>2. CASE \E t \in {None, current} :
               reply = [status |-> IF tag # None /\ tag = current THEN 304 ELSE 200,
                        body |-> IF tag # None /\ tag = current THEN NoBody ELSE Page[u][current],
                        tag |-> t]
    <2>1. PICK t \in {None, current} :
               reply = [status |-> IF tag # None /\ tag = current THEN 304 ELSE 200,
                        body |-> IF tag # None /\ tag = current THEN NoBody ELSE Page[u][current],
                        tag |-> t]
      BY <1>2
    <2>2. t \in Nat
      BY <1>1
    <2>3. PICK n \in Nat : n = IF tag # None /\ tag = current THEN 304 ELSE 200
      OBVIOUS
    <2>4. PICK b \in BodyType :
            b = IF tag # None /\ tag = current THEN NoBody ELSE Page[u][current]
      BY <1>1
    <2>5. reply = [status |-> n, body |-> b, tag |-> t]
      BY <2>1, <2>3, <2>4
    <2>6. reply \in ReplyType /\ reply.status = n /\ reply.body = b /\ reply.tag = t
      BY <2>2, <2>5 DEF ReplyType
    <2>. QED
      BY <2>1, <2>3, <2>4, <2>6
  <1>3. CASE reply \in {[NoReply EXCEPT !.status = 204], NoReply}
    <2>1. PICK n \in Nat : n = 0
      OBVIOUS
    <2>2. PICK m \in Nat : m = 204
      OBVIOUS
    <2>3. PICK k \in {n, m} : reply = [status |-> k, body |-> NoBody, tag |-> None]
      BY <1>3, <2>1, <2>2 DEF NoReply
    <2>4. reply \in ReplyType /\ reply.status = k
      BY <1>1, <2>3 DEF ReplyType
    <2>. QED
      BY <2>1, <2>2, <2>4
  <1>. QED
    BY <1>2, <1>3 DEF Replies

-----------------------------------------------------------------------------
(* The inductive invariant                                                 *)

\* A body was the page's content at some moment of the fetch.
Was(s, u, body) == \E v \in job[s][u].since..version[u] : Page[u][v] = body

\* A validator beside a body is the number of a version with that body.
Tells(u, row) == row.tag # None => row.tag \in DOMAIN Page[u] /\ Page[u][row.tag] = row.body

RowSound(u) == Tells(u, meta[u]) /\ (meta[u] = NoRow \/ meta[u].body \in bodies)

\* What a fetch relies on between its steps, of a page nobody else fetches meanwhile.
JobSound(s, u) ==
  LET j == job[s][u] IN
  /\ u \in InFlight(s) => j.since \in 1..version[u] /\ j.doc = NoBody
  /\ j.at \in {"none", "wait"} => j.doc = NoBody
  /\ j.doc # NoBody => Was(s, u, j.doc)
  /\ j.at \in {"request", "mark"} => j.hit = meta[u]
  /\ j.at = "mark" => /\ j.hit # NoRow /\ Was(s, u, meta[u].body)
                      /\ j.reply.tag \in {None, meta[u].tag}
  /\ j.at = "read" => Was(s, u, meta[u].body)
  /\ j.at \in {"body", "meta"} => Was(s, u, j.reply.body) /\ Tells(u, j.reply)
  /\ j.at = "meta" => j.reply.body \in bodies

Alone ==
  \A u \in Urls \ raced : \A s, q \in Shards : u \in InFlight(s) /\ u \in InFlight(q) => s = q
SoundRows == \A u \in Urls \ raced : RowSound(u)
SoundJobs == \A s \in Shards : \A u \in Urls \ raced : JobSound(s, u)

\* A document has its frame; a shard that does not fetch has no fetches.
Framed ==
  \A s \in Shards : \A u \in Docs(s) :
    \E f \in trace[s] : f.url = u /\ f.body = job[s][u].doc
Unbusy == \A s \in Shards : shard[s].at # "fetch" => job[s] = [u \in Urls |-> NoJob]

WebInv == Types /\ Alone /\ SoundRows /\ SoundJobs /\ Framed /\ Unbusy

LEMMA InvInit == Init => WebInv
  <1>. SUFFICES ASSUME Init PROVE WebInv
    OBVIOUS
  <1>1. PICK n \in Nat : n = 1
    OBVIOUS
  <1>2. version \in [Urls -> Nat] /\ \A u \in Urls : version[u] \in DOMAIN Page[u]
    BY <1>1, WebAssumption, LenProperties, EmptySeq DEF Init
  <1>3. meta \in [Urls -> CacheRow] /\ \A u \in Urls : meta[u] = NoRow
    BY NoTypes DEF Init
  <1>4. shard \in [Shards -> ShardType]
    <2>1. [at |-> "search", query |-> n, rows |-> << >>] \in ShardType
      BY <1>1, EmptySeq DEF ShardType
    <2>. QED
      BY <1>1, <2>1 DEF Init
  <1>5. job \in [Shards -> [Urls -> JobType]] /\ \A s \in Shards : \A u \in Urls : job[s][u] = NoJob
    BY NoTypes DEF Init
  <1>6. DOMAIN trace = Shards /\ \A s \in Shards : trace[s] = {}
    BY DEF Init
  <1>7. IsFiniteSet({})
    BY FS_EmptySet
  <1>8. Types
    BY <1>2, <1>3, <1>4, <1>5, <1>6, <1>7 DEF Types, Init
  <1>9. \A s \in Shards : InFlight(s) = {} /\ Docs(s) = {}
    BY <1>5, NoTypes DEF InFlight, Docs
  <1>10. SoundRows
    BY <1>3 DEF SoundRows, RowSound, Tells, NoRow
  <1>11. SoundJobs
    BY <1>5, <1>9, NoTypes DEF SoundJobs, JobSound
  <1>12. Unbusy
    BY DEF Unbusy, Init
  <1>. QED
    BY <1>8, <1>9, <1>10, <1>11, <1>12 DEF WebInv, Alone, Framed

\* What holds of a fetch goes on holding while others do not touch its row, or where the
\* row no longer matters to it.
LEMMA JobStays ==
  ASSUME NEW q \in Shards, NEW w \in Urls, JobSound(q, w), job'[q][w] = job[q][w],
         version'[w] = version[w], bodies \subseteq bodies',
         meta'[w] = meta[w] \/ job[q][w].at \in {"none", "wait", "done"}
  PROVE  JobSound(q, w)'
  BY DEF JobSound, InFlight, Was, Tells

LEMMA RowStays ==
  ASSUME NEW w, RowSound(w), meta'[w] = meta[w], bodies \subseteq bodies'
  PROVE  RowSound(w)'
  BY DEF RowSound, Tells

\* A step of one fetch leaves everything else as it should be: what is left to show of it
\* is about that page and that fetch.
LEMMA FetchFrame ==
  ASSUME WebInv, NEW s \in Shards, NEW u \in Urls, NEW j \in JobType,
         Moves(s, u, j), job[s][u].at # "none",
         version' = version, shard' = shard,
         bodies \subseteq bodies', bodies' \subseteq BodyType,
         meta' \in [Urls -> CacheRow], \A w \in Urls : w # u => meta'[w] = meta[w],
         meta'[u] = meta[u] \/ u \in InFlight(s),
         raced \subseteq raced',
         u \in InFlight(s) \/ u \in raced' \/ \A q \in Shards : q # s => u \notin InFlight(q),
         DOMAIN trace' = Shards, \A q \in Shards : q # s => trace'[q] = trace[q],
         trace[s] \subseteq trace'[s], trace'[s] \subseteq FrameType, IsFiniteSet(trace'[s]),
         j.doc # NoBody => \E f \in trace'[s] : f.url = u /\ f.body = j.doc,
         u \notin raced' => RowSound(u)' /\ JobSound(s, u)'
  PROVE  WebInv'
  <1>1. /\ Types /\ job' \in [Shards -> [Urls -> JobType]] /\ job'[s][u] = j
        /\ \A w \in Urls : w # u => job'[s][w] = job[s][w]
        /\ \A q \in Shards : q # s => job'[q] = job[q]
    BY MovesEffect DEF WebInv
  <1>2. Types'
    BY <1>1 DEF Types
  <1>3. \A q \in Shards : \A w \in Urls : w \in InFlight(q)' =>
          w \in InFlight(q) \/ (q = s /\ w = u)
    BY <1>1 DEF InFlight
  <1>4. Alone'
    <2>1. SUFFICES ASSUME NEW w \in Urls \ raced', NEW p \in Shards, NEW q \in Shards,
                          w \in InFlight(p)', w \in InFlight(q)'
                   PROVE  p = q
      BY DEF Alone
    <2>2. CASE w # u
      BY <1>3, <2>1, <2>2 DEF WebInv, Alone
    <2>3. CASE w = u
      BY <1>3, <2>1, <2>3 DEF WebInv, Alone
    <2>. QED
      BY <2>2, <2>3
  <1>5. SoundRows'
    <2>1. ASSUME NEW w \in Urls \ raced', w # u
          PROVE  RowSound(w)'
      BY <2>1, RowStays DEF WebInv, SoundRows
    <2>. QED
      BY <2>1 DEF SoundRows
  <1>6. SoundJobs'
    <2>1. ASSUME NEW q \in Shards, NEW w \in Urls \ raced', w # u \/ q # s
          PROVE  JobSound(q, w)'
      <3>1. JobSound(q, w) /\ job'[q][w] = job[q][w] /\ version'[w] = version[w]
        BY <1>1, <2>1 DEF WebInv, SoundJobs
      <3>2. CASE w # u
        BY <3>1, <3>2, JobStays
      <3>3. CASE w = u
        <4>1. meta'[w] = meta[w] \/ w \notin InFlight(q)
          BY <2>1, <3>3 DEF WebInv, Alone
        <4>. QED
          BY <3>1, <4>1, JobStays DEF InFlight
      <3>. QED
        BY <3>2, <3>3
    <2>. QED
      BY <2>1 DEF SoundJobs
  <1>7. Framed'
    <2>1. SUFFICES ASSUME NEW q \in Shards, NEW w \in Urls, job'[q][w].doc # NoBody
                   PROVE  \E f \in trace'[q] : f.url = w /\ f.body = job'[q][w].doc
      BY DEF Framed, Docs
    <2>2. CASE q = s /\ w = u
      BY <1>1, <2>1, <2>2
    <2>3. CASE ~(q = s /\ w = u)
      <3>1. job'[q][w] = job[q][w] /\ trace[q] \subseteq trace'[q]
        BY <1>1, <2>3
      <3>. QED
        BY <2>1, <3>1 DEF WebInv, Framed, Docs
    <2>. QED
      BY <2>2, <2>3
  <1>8. Unbusy'
    <2>1. shard[s].at = "fetch"
      BY NoTypes DEF WebInv, Unbusy
    <2>. QED
      BY <1>1, <2>1 DEF WebInv, Unbusy
  <1>. QED
    BY <1>2, <1>4, <1>5, <1>6, <1>7, <1>8 DEF WebInv

\* What is known of a fetch that goes on.
LEMMA FetchKnows ==
  ASSUME WebInv, NEW s \in Shards, NEW u \in Urls
  PROVE  /\ job[s][u] \in JobType /\ version[u] \in Nat /\ version[u] \in 1..version[u]
         /\ version[u] \in DOMAIN Page[u] /\ meta[u] \in CacheRow
         /\ bodies \subseteq BodyType /\ meta \in [Urls -> CacheRow]
         /\ DOMAIN trace = Shards /\ trace[s] \subseteq FrameType /\ IsFiniteSet(trace[s])
         /\ u \notin raced => RowSound(u) /\ JobSound(s, u)
         /\ job[s][u].doc # NoBody =>
              \E f \in trace[s] : f.url = u /\ f.body = job[s][u].doc
  <1>1. version[u] \in Nat /\ version[u] >= 1
    BY WebAssumption, LenProperties DEF WebInv, Types
  <1>. QED
    BY <1>1 DEF WebInv, Types, SoundRows, SoundJobs, Framed, Docs

\* Frames added to a trace.
LEMMA FramesAdded ==
  ASSUME NEW old, NEW x \in FrameType, NEW y \in FrameType, NEW new \in SUBSET {x, y},
         old \subseteq FrameType, IsFiniteSet(old)
  PROVE  old \cup new \subseteq FrameType /\ IsFiniteSet(old \cup new)
  <1>1. IsFiniteSet({x, y})
    <2>1. IsFiniteSet({x} \cup {y})
      BY FS_Singleton, FS_Union
    <2>2. {x} \cup {y} = {x, y}
      OBVIOUS
    <2>. QED
      BY <2>1, <2>2
  <1>2. IsFiniteSet(new)
    BY <1>1, FS_Subset
  <1>. QED
    BY <1>2, FS_Union

LEMMA RequestsInv ==
  ASSUME WebInv, NEW s \in Shards, NEW u \in Urls, Requests(s, u)
  PROVE  WebInv'
  <1>. DEFINE j == [job[s][u] EXCEPT !.at = "request", !.hit = Hit(u), !.since = version[u]]
  <1>1. job[s][u].at = "wait" /\ Moves(s, u, j) /\ UNCHANGED <<version, bodies, meta, shard, trace>>
    BY DEF Requests
  <1>2. raced' = raced \cup {v \in {u} : Others(s, u)}
    BY DEF Requests
  <1>3. Hit(u) \in CacheRow
    BY FetchKnows, NoTypes DEF Hit
  <1>4. /\ j \in JobType /\ j.at = "request" /\ j.hit = Hit(u) /\ j.since = version[u]
        /\ j.doc = job[s][u].doc
    <2>1. job[s][u] \in JobType /\ version[u] \in Nat
      BY FetchKnows
    <2>. QED
      BY <1>3, <2>1 DEF JobType
  <1>. HIDE DEF j
  <1>5. job'[s][u] = j
    BY <1>1, <1>4, MovesEffect DEF WebInv
  <1>6. ASSUME u \notin raced'
        PROVE  RowSound(u)' /\ JobSound(s, u)'
    <2>1. RowSound(u) /\ JobSound(s, u)
      BY <1>2, <1>6, FetchKnows
    <2>2. Hit(u) = meta[u]
      BY <2>1 DEF RowSound, Hit
    <2>3. j.since \in 1..version[u] /\ j.doc = NoBody
      BY <1>1, <1>4, <2>1, FetchKnows DEF JobSound
    <2>. QED
      BY <1>1, <1>4, <1>5, <2>1, <2>2, <2>3, RowStays DEF JobSound
  <1>7. u \in raced' \/ \A q \in Shards : q # s => u \notin InFlight(q)
    BY <1>2 DEF Others
  <1>. QED
    BY <1>1, <1>2, <1>4, <1>6, <1>7, FetchKnows, FetchFrame

LEMMA AnsweredInv ==
  ASSUME WebInv, NEW s \in Shards, NEW u \in Urls, Answered(s, u)
  PROVE  WebInv'
  <1>1. PICK reply \in Replies(u, job[s][u].hit.tag) :
          /\ Moves(s, u, [job[s][u] EXCEPT !.reply = reply,
                                           !.at = AfterReply(job[s][u].hit, reply)])
          /\ trace' = [trace EXCEPT ![s] = trace[s] \cup
                         {f \in {[url |-> u, body |-> NoBody, cached |-> FALSE]} :
                            reply.status = 0}]
    BY DEF Answered
  <1>. DEFINE hit == job[s][u].hit
              at == AfterReply(hit, reply)
              j == [job[s][u] EXCEPT !.reply = reply, !.at = at]
              x == [url |-> u, body |-> NoBody, cached |-> FALSE]
              new == {f \in {x} : reply.status = 0}
  <1>2. job[s][u].at = "request" /\ UNCHANGED <<version, bodies, meta, shard, raced>>
    BY DEF Answered
  <1>3. /\ reply \in ReplyType
        /\ reply.status = 200 =>
              reply.body = Page[u][version[u]] /\ reply.tag \in {None, version[u]}
        /\ reply.status = 304 =>
              hit.tag # None /\ hit.tag = version[u] /\ reply.tag \in {None, version[u]}
    BY RepliesAre DEF WebInv
  <1>4. /\ at \in {"mark", "body", "done"}
        /\ at = "mark" => reply.status = 304 /\ hit # NoRow
        /\ at = "body" => reply.status = 200
    BY DEF AfterReply
  <1>. HIDE DEF at
  <1>5. /\ j \in JobType /\ j.at = at /\ j.hit = hit /\ j.since = job[s][u].since
        /\ j.reply = reply /\ j.doc = job[s][u].doc
    <2>1. job[s][u] \in JobType
      BY FetchKnows
    <2>. QED
      BY <1>3, <1>4, <2>1 DEF JobType
  <1>6. Moves(s, u, j)
    BY <1>1 DEF at
  <1>. HIDE DEF j, hit
  <1>7. job'[s][u] = j
    BY <1>5, <1>6, MovesEffect DEF WebInv
  <1>8. u \in InFlight(s)
    BY <1>2 DEF InFlight
  <1>9. /\ DOMAIN trace' = Shards /\ \A q \in Shards : q # s => trace'[q] = trace[q]
        /\ trace'[s] = trace[s] \cup new
    BY <1>1, FetchKnows
  <1>10. trace'[s] \subseteq FrameType /\ IsFiniteSet(trace'[s])
    <2>1. x \in FrameType /\ new \in SUBSET {x, x}
      BY DEF FrameType, BodyType
    <2>. HIDE DEF x, new
    <2>2. trace[s] \subseteq FrameType /\ IsFiniteSet(trace[s])
      BY FetchKnows
    <2>3. trace[s] \cup new \subseteq FrameType /\ IsFiniteSet(trace[s] \cup new)
      BY <2>1, <2>2, FramesAdded, Zenon
    <2>. QED
      BY <1>9, <2>3
  <1>. HIDE DEF x, new
  <1>11. ASSUME u \notin raced'
         PROVE  RowSound(u)' /\ JobSound(s, u)'
    <2>1. RowSound(u) /\ JobSound(s, u)
      BY <1>2, <1>11, FetchKnows
    <2>2. hit = meta[u] /\ j.since \in 1..version[u] /\ j.doc = NoBody
      BY <1>2, <1>5, <1>8, <2>1 DEF JobSound, hit
    <2>3. version[u] \in j.since..version[u] /\ version[u] \in DOMAIN Page[u]
      BY <2>2, FetchKnows
    <2>4. ASSUME at = "mark"
          PROVE  /\ hit # NoRow /\ reply.tag \in {None, meta[u].tag}
                 /\ \E v \in j.since..version[u] : Page[u][v] = meta[u].body
      <3>1. hit # NoRow /\ hit.tag # None /\ hit.tag = version[u] /\ reply.tag \in {None, version[u]}
        BY <1>3, <1>4, <2>4
      <3>2. Page[u][version[u]] = meta[u].body
        BY <2>1, <2>2, <3>1 DEF RowSound, Tells
      <3>. QED
        BY <2>2, <2>3, <3>1, <3>2
    <2>5. ASSUME at = "body"
          PROVE  /\ \E v \in j.since..version[u] : Page[u][v] = reply.body
                 /\ Tells(u, reply)
      BY <1>3, <1>4, <2>3, <2>5 DEF Tells
    <2>6. RowSound(u)'
      BY <1>2, <2>1, RowStays
    <2>7. JobSound(s, u)'
      BY <1>2, <1>4, <1>5, <1>7, <2>2, <2>4, <2>5 DEF JobSound, Was, Tells
    <2>. QED
      BY <2>6, <2>7
  <1>12. j.doc # NoBody => \E f \in trace'[s] : f.url = u /\ f.body = j.doc
    BY <1>5, <1>9, FetchKnows
  <1>. QED
    BY <1>2, <1>5, <1>6, <1>8, <1>9, <1>10, <1>11, <1>12, FetchKnows, FetchFrame

LEMMA MarksInv ==
  ASSUME WebInv, NEW s \in Shards, NEW u \in Urls, Marks(s, u)
  PROVE  WebInv'
  <1>. DEFINE j == [job[s][u] EXCEPT !.at = "read"]
              tag == job[s][u].reply.tag
              row == [meta[u] EXCEPT !.tag = tag]
  <1>1. /\ job[s][u].at = "mark" /\ Moves(s, u, j)
        /\ meta' = [meta EXCEPT ![u] = row]
        /\ UNCHANGED <<version, bodies, shard, trace, raced>>
    BY DEF Marks
  <1>2. /\ j \in JobType /\ j.at = "read" /\ j.since = job[s][u].since /\ j.doc = job[s][u].doc
    BY FetchKnows DEF JobType
  <1>3. tag \in Nat
    BY FetchKnows DEF JobType, ReplyType
  <1>4. row \in CacheRow /\ row.tag = tag /\ row.body = meta[u].body
    BY <1>3, FetchKnows DEF CacheRow
  <1>. HIDE DEF j, row
  <1>5. job'[s][u] = j
    BY <1>1, <1>2, MovesEffect DEF WebInv
  <1>6. /\ meta' \in [Urls -> CacheRow] /\ meta'[u] = row
        /\ \A w \in Urls : w # u => meta'[w] = meta[w]
    BY <1>1, <1>4, FetchKnows
  <1>7. u \in InFlight(s)
    BY <1>1 DEF InFlight
  <1>8. ASSUME u \notin raced'
        PROVE  RowSound(u)' /\ JobSound(s, u)'
    <2>1. RowSound(u) /\ JobSound(s, u)
      BY <1>1, <1>8, FetchKnows
    <2>2. /\ meta[u] # NoRow /\ Was(s, u, meta[u].body) /\ tag \in {None, meta[u].tag}
          /\ j.since \in 1..version[u] /\ j.doc = NoBody
      BY <1>1, <1>2, <1>7, <2>1 DEF JobSound
    <2>3. RowSound(u)'
      BY <1>1, <1>4, <1>6, <2>1, <2>2 DEF RowSound, Tells
    <2>4. JobSound(s, u)'
      BY <1>1, <1>2, <1>4, <1>5, <1>6, <2>2 DEF JobSound, Was
    <2>. QED
      BY <2>3, <2>4
  <1>. QED
    BY <1>1, <1>2, <1>6, <1>7, <1>8, FetchKnows, FetchFrame

\* A document that reaches the pipeline brings its frame.
Brings(s, u, body) ==
  \E j \in JobType :
    /\ job' = [job EXCEPT ![s] = [job[s] EXCEPT ![u] = j]] /\ job'[s][u] = j
    /\ j.at = "done" /\ j.doc = body /\ j.since = job[s][u].since
    /\ DOMAIN trace' = Shards /\ \A q \in Shards : q # s => trace'[q] = trace[q]
    /\ trace[s] \subseteq trace'[s] /\ trace'[s] \subseteq FrameType
    /\ IsFiniteSet(trace'[s])
    /\ \E f \in trace'[s] : f.url = u /\ f.body = body

LEMMA DeliveredEffect ==
  ASSUME WebInv, NEW s \in Shards, NEW u \in Urls, NEW body \in BodyType,
         Delivered(s, u, body, TRUE) \/ Delivered(s, u, body, FALSE)
  PROVE  Brings(s, u, body)
  <1>0. PICK cached \in BOOLEAN : Delivered(s, u, body, cached)
    OBVIOUS
  <1>. DEFINE j == [job[s][u] EXCEPT !.at = "done", !.doc = body]
              x == [url |-> u, body |-> body, cached |-> cached]
              y == [url |-> u, body |-> NoBody, cached |-> FALSE]
              new == {x} \cup {f \in {y} : Extract[body] = "empty"}
  <1>1. job[s][u] \in JobType /\ DOMAIN trace = Shards
        /\ trace[s] \subseteq FrameType /\ IsFiniteSet(trace[s])
    BY FetchKnows
  <1>2. Moves(s, u, j) /\ trace' = [trace EXCEPT ![s] = trace[s] \cup new]
    BY <1>0 DEF Delivered
  <1>3. j \in JobType /\ j.at = "done" /\ j.doc = body /\ j.since = job[s][u].since
    BY <1>1 DEF JobType
  <1>. HIDE DEF j
  <1>4. job'[s][u] = j
    BY <1>2, <1>3, MovesEffect DEF WebInv
  <1>5. /\ x \in FrameType /\ y \in FrameType /\ new \in SUBSET {x, y} /\ x \in new
        /\ x.url = u /\ x.body = body
    BY DEF FrameType, BodyType
  <1>. HIDE DEF x, y, new
  <1>6. trace[s] \cup new \subseteq FrameType /\ IsFiniteSet(trace[s] \cup new)
    BY <1>1, <1>5, FramesAdded, Zenon
  <1>7. /\ DOMAIN trace' = Shards /\ \A q \in Shards : q # s => trace'[q] = trace[q]
        /\ trace'[s] = trace[s] \cup new
    BY <1>1, <1>2
  <1>. QED
    BY <1>2, <1>3, <1>4, <1>5, <1>6, <1>7 DEF Moves, Brings

LEMMA ReadsBackInv ==
  ASSUME WebInv, NEW s \in Shards, NEW u \in Urls, ReadsBack(s, u)
  PROVE  WebInv'
  <1>1. /\ job[s][u].at = "read" /\ Delivered(s, u, meta[u].body, TRUE)
        /\ UNCHANGED <<version, bodies, meta, shard, raced>>
    BY DEF ReadsBack
  <1>2. PICK body \in BodyType : body = meta[u].body
    <2>1. meta[u].body \in BodyType
      BY FetchKnows DEF CacheRow
    <2>. QED
      BY <2>1
  <1>3. PICK j \in JobType :
         /\ job' = [job EXCEPT ![s] = [job[s] EXCEPT ![u] = j]] /\ job'[s][u] = j
         /\ j.at = "done" /\ j.doc = body /\ j.since = job[s][u].since
         /\ DOMAIN trace' = Shards /\ \A q \in Shards : q # s => trace'[q] = trace[q]
         /\ trace[s] \subseteq trace'[s] /\ trace'[s] \subseteq FrameType
         /\ IsFiniteSet(trace'[s])
         /\ \E f \in trace'[s] : f.url = u /\ f.body = body
    <2>1. Delivered(s, u, body, TRUE)
      BY <1>1, <1>2 DEF Delivered
    <2>2. Brings(s, u, body)
      BY <2>1, DeliveredEffect
    <2>. QED
      BY <2>2 DEF Brings
  <1>4. u \in InFlight(s)
    BY <1>1 DEF InFlight
  <1>5. ASSUME u \notin raced'
        PROVE  RowSound(u)' /\ JobSound(s, u)'
    <2>1. RowSound(u) /\ JobSound(s, u)
      BY <1>1, <1>5, FetchKnows
    <2>2. u \notin InFlight(s)'
      BY <1>3 DEF InFlight
    <2>3. Was(s, u, j.doc)
      BY <1>1, <1>2, <1>3, <2>1 DEF JobSound
    <2>4. JobSound(s, u)'
      BY <1>1, <1>3, <2>2, <2>3 DEF JobSound, Was
    <2>. QED
      BY <1>1, <2>1, <2>4, RowStays
  <1>6. Moves(s, u, j)
    BY <1>3 DEF Moves
  <1>. QED
    BY <1>1, <1>3, <1>4, <1>5, <1>6, FetchKnows, FetchFrame

LEMMA PutsBodyInv ==
  ASSUME WebInv, NEW s \in Shards, NEW u \in Urls, PutsBody(s, u)
  PROVE  WebInv'
  <1>. DEFINE j == [job[s][u] EXCEPT !.at = "meta"]
  <1>1. /\ job[s][u].at = "body" /\ Moves(s, u, j)
        /\ bodies' = bodies \cup {job[s][u].reply.body}
        /\ UNCHANGED <<version, meta, shard, trace, raced>>
    BY DEF PutsBody
  <1>2. job[s][u] \in JobType /\ job[s][u].reply.body \in BodyType
    <2>1. job[s][u] \in JobType
      BY FetchKnows
    <2>. QED
      BY <2>1 DEF JobType, ReplyType
  <1>3. /\ j \in JobType /\ j.at = "meta" /\ j.since = job[s][u].since
        /\ j.reply = job[s][u].reply /\ j.doc = job[s][u].doc
    BY <1>2 DEF JobType
  <1>. HIDE DEF j
  <1>4. job'[s][u] = j
    BY <1>1, <1>3, MovesEffect DEF WebInv
  <1>5. u \in InFlight(s)
    BY <1>1 DEF InFlight
  <1>6. bodies \subseteq bodies' /\ bodies' \subseteq BodyType
    BY <1>1, <1>2, FetchKnows
  <1>7. ASSUME u \notin raced'
        PROVE  RowSound(u)' /\ JobSound(s, u)'
    <2>1. RowSound(u) /\ JobSound(s, u)
      BY <1>1, <1>7, FetchKnows
    <2>2. /\ Was(s, u, j.reply.body) /\ Tells(u, j.reply) /\ j.doc = NoBody
          /\ j.since \in 1..version[u]
      BY <1>1, <1>3, <1>5, <2>1 DEF JobSound
    <2>3. JobSound(s, u)'
      BY <1>1, <1>3, <1>4, <2>2 DEF JobSound, Was, Tells
    <2>. QED
      BY <1>1, <1>6, <2>1, <2>3, RowStays
  <1>. QED
    BY <1>1, <1>3, <1>4, <1>5, <1>6, <1>7, FetchKnows, FetchFrame

LEMMA PutsMetaInv ==
  ASSUME WebInv, NEW s \in Shards, NEW u \in Urls, PutsMeta(s, u)
  PROVE  WebInv'
  <1>. DEFINE row == RowOf(u, job[s][u].reply)
  <1>1. /\ job[s][u].at = "meta" /\ meta' = [meta EXCEPT ![u] = row]
        /\ Delivered(s, u, job[s][u].reply.body, FALSE)
        /\ UNCHANGED <<version, bodies, shard, raced>>
    BY DEF PutsMeta
  <1>2. job[s][u].reply \in ReplyType
    <2>1. job[s][u] \in JobType
      BY FetchKnows
    <2>. QED
      BY <2>1 DEF JobType
  <1>3. row \in CacheRow /\ row.body = job[s][u].reply.body /\ row.tag = job[s][u].reply.tag
    BY <1>2 DEF RowOf, CacheRow, ReplyType
  <1>4. PICK body \in BodyType : body = job[s][u].reply.body
    BY <1>2 DEF ReplyType
  <1>5. PICK j \in JobType :
         /\ job' = [job EXCEPT ![s] = [job[s] EXCEPT ![u] = j]] /\ job'[s][u] = j
         /\ j.at = "done" /\ j.doc = body /\ j.since = job[s][u].since
         /\ DOMAIN trace' = Shards /\ \A q \in Shards : q # s => trace'[q] = trace[q]
         /\ trace[s] \subseteq trace'[s] /\ trace'[s] \subseteq FrameType
         /\ IsFiniteSet(trace'[s])
         /\ \E f \in trace'[s] : f.url = u /\ f.body = body
    <2>1. Delivered(s, u, body, FALSE)
      BY <1>1, <1>4 DEF Delivered
    <2>2. Brings(s, u, body)
      BY <2>1, DeliveredEffect
    <2>. QED
      BY <2>2 DEF Brings
  <1>. HIDE DEF row
  <1>6. /\ meta' \in [Urls -> CacheRow] /\ meta'[u] = row
        /\ \A w \in Urls : w # u => meta'[w] = meta[w]
    <2>1. meta \in [Urls -> CacheRow]
      BY FetchKnows
    <2>. QED
      BY <1>1, <1>3, <2>1
  <1>7. u \in InFlight(s)
    BY <1>1 DEF InFlight
  <1>8. ASSUME u \notin raced'
        PROVE  RowSound(u)' /\ JobSound(s, u)'
    <2>1. JobSound(s, u)
      BY <1>1, <1>8, FetchKnows
    <2>2. /\ Was(s, u, body) /\ Tells(u, job[s][u].reply) /\ body \in bodies
      BY <1>1, <1>4, <2>1 DEF JobSound
    <2>3. RowSound(u)'
      BY <1>1, <1>3, <1>4, <1>6, <2>2 DEF RowSound, Tells
    <2>4. u \notin InFlight(s)'
      BY <1>5 DEF InFlight
    <2>5. JobSound(s, u)'
      BY <1>1, <1>5, <2>2, <2>4 DEF JobSound, Was
    <2>. QED
      BY <2>3, <2>5
  <1>9. Moves(s, u, j)
    BY <1>5 DEF Moves
  <1>. QED
    BY <1>1, <1>5, <1>6, <1>7, <1>8, <1>9, FetchKnows, FetchFrame

\* A citation is of a page, and its body is the document fetched for that page.
LEMMA CitesDocs ==
  ASSUME NEW s, NEW c \in Citations(s)
  PROVE  c.url \in Docs(s) /\ c.body = job[s][c.url].doc
  <1>1. PICK b \in {job[s][u].doc : u \in Usable(s)} :
          c = [url |-> CHOOSE u \in Usable(s) : job[s][u].doc = b, body |-> b]
    BY DEF Citations
  <1>. DEFINE w == CHOOSE u \in Usable(s) : job[s][u].doc = b
  <1>2. w \in Usable(s) /\ job[s][w].doc = b
    BY <1>1, Zenon
  <1>3. c.url = w /\ c.body = b
    BY <1>1
  <1>. QED
    BY <1>2, <1>3 DEF Usable, Chunked

\* A shard that begins its fetches, or gives them up.
LEMMA ClearFrame ==
  ASSUME WebInv, NEW s \in Shards, NEW x \in [Urls -> JobType], NEW y \in ShardType,
         job' = [job EXCEPT ![s] = x], shard' = [shard EXCEPT ![s] = y],
         UNCHANGED <<version, bodies, meta, raced>>,
         \A u \in Urls : x[u].at \in {"none", "wait"} /\ x[u].doc = NoBody,
         y.at # "fetch" => x = [u \in Urls |-> NoJob],
         trace' = trace \/ trace' = [trace EXCEPT ![s] = {}]
  PROVE  WebInv'
  <1>1. /\ job' \in [Shards -> [Urls -> JobType]] /\ job'[s] = x
        /\ \A q \in Shards : q # s => job'[q] = job[q]
        /\ shard' \in [Shards -> ShardType] /\ shard'[s] = y
        /\ \A q \in Shards : q # s => shard'[q] = shard[q]
    BY DEF WebInv, Types
  <1>2. /\ DOMAIN trace' = Shards /\ \A q \in Shards : q # s => trace'[q] = trace[q]
        /\ trace'[s] \in {trace[s], {}} /\ IsFiniteSet({})
    BY FS_EmptySet DEF WebInv, Types
  <1>3. Types'
    <2>1. \A q \in Shards : trace'[q] \subseteq FrameType /\ IsFiniteSet(trace'[q])
      BY <1>2 DEF WebInv, Types
    <2>. QED
      BY <1>1, <1>2, <2>1 DEF WebInv, Types
  <1>4. /\ \A q \in Shards : q # s => InFlight(q)' = InFlight(q) /\ Docs(q)' = Docs(q)
        /\ InFlight(s)' = {} /\ Docs(s)' = {}
    BY <1>1 DEF InFlight, Docs
  <1>5. Alone'
    BY <1>4 DEF WebInv, Alone
  <1>6. SoundRows'
    BY DEF WebInv, SoundRows, RowSound, Tells
  <1>7. SoundJobs'
    <2>1. ASSUME NEW q \in Shards, NEW u \in Urls \ raced', q # s
          PROVE  JobSound(q, u)'
      <3>1. JobSound(q, u) /\ job'[q][u] = job[q][u]
        BY <1>1, <2>1 DEF WebInv, SoundJobs
      <3>. QED
        BY <3>1, JobStays
    <2>2. ASSUME NEW u \in Urls
          PROVE  JobSound(s, u)'
      <3>1. job'[s][u].at \in {"none", "wait"} /\ job'[s][u].doc = NoBody
        BY <1>1
      <3>. QED
        BY <1>4, <3>1 DEF JobSound
    <2>. QED
      BY <2>1, <2>2 DEF SoundJobs
  <1>8. Framed'
    <2>1. ASSUME NEW q \in Shards, NEW u \in Docs(q)'
          PROVE  \E f \in trace'[q] : f.url = u /\ f.body = job'[q][u].doc
      <3>1. q # s /\ u \in Docs(q)
        BY <1>4, <2>1
      <3>. QED
        BY <1>1, <1>2, <3>1 DEF WebInv, Framed
    <2>. QED
      BY <2>1 DEF Framed
  <1>9. Unbusy'
    BY <1>1 DEF WebInv, Unbusy
  <1>. QED
    BY <1>3, <1>5, <1>6, <1>7, <1>8, <1>9 DEF WebInv

LEMMA SearchesInv == ASSUME WebInv, NEW s \in Shards, Searches(s) PROVE WebInv'
  <1>1. /\ shard[s].at = "search" /\ trace' = [trace EXCEPT ![s] = {}]
        /\ UNCHANGED <<version, bodies, meta, raced>>
    BY DEF Searches
  <1>2. shard[s] \in ShardType /\ job[s] \in [Urls -> JobType] /\ shard \in [Shards -> ShardType]
        /\ job \in [Shards -> [Urls -> JobType]]
    BY DEF WebInv, Types
  <1>. DEFINE waits == [NoJob EXCEPT !.at = "wait"]
              x == [u \in Urls |-> IF u \in ToSet(Selected(Query(s))) THEN waits ELSE NoJob]
              y == [shard[s] EXCEPT !.at = "fetch"]
              z == [shard[s] EXCEPT !.at = "failed"]
  <1>3. CASE shard' = [shard EXCEPT ![s] = y] /\ job' = [job EXCEPT ![s] = x]
    <2>1. waits \in JobType /\ waits.at = "wait" /\ waits.doc = NoBody
      BY NoTypes DEF JobType
    <2>. HIDE DEF waits
    <2>2. /\ x \in [Urls -> JobType]
          /\ \A u \in Urls : x[u].at \in {"none", "wait"} /\ x[u].doc = NoBody
      BY <2>1, NoTypes
    <2>3. y \in ShardType /\ y.at = "fetch"
      BY <1>2 DEF ShardType
    <2>. HIDE DEF x, y
    <2>. QED
      BY <1>1, <1>3, <2>2, <2>3, ClearFrame
  <1>4. CASE shard' = [shard EXCEPT ![s] = z] /\ UNCHANGED job
    <2>1. job[s] = [u \in Urls |-> NoJob]
      BY <1>1 DEF WebInv, Unbusy
    <2>2. \A u \in Urls : job[s][u].at \in {"none", "wait"} /\ job[s][u].doc = NoBody
      BY <2>1, NoTypes
    <2>3. z \in ShardType
      BY <1>2 DEF ShardType
    <2>4. job' = [job EXCEPT ![s] = job[s]]
      BY <1>2, <1>4
    <2>5. PICK idle \in [Urls -> JobType] : idle = job[s]
      BY <1>2
    <2>. HIDE DEF z
    <2>. QED
      BY <1>1, <1>4, <2>1, <2>2, <2>3, <2>4, <2>5, ClearFrame
  <1>. QED
    BY <1>3, <1>4 DEF Searches

\* A row of results, with the citations of what was fetched.
LEMMA ResultTypes ==
  ASSUME WebInv, NEW s \in Shards
  PROVE  ResultRow(s, Citations(s)) \in ResultType
         /\ ResultRow(s, Citations(s)).cites = Citations(s)
  <1>. DEFINE hits == {f \in trace[s] : f.cached}
  <1>1. IsFiniteSet(trace[s]) /\ job[s] \in [Urls -> JobType]
    BY DEF WebInv, Types
  <1>2. IsFiniteSet(hits)
    BY <1>1, FS_Subset
  <1>3. Cardinality(trace[s]) \in Nat /\ Cardinality(hits) \in Nat
    BY <1>1, <1>2, FS_CardinalityType
  <1>4. Citations(s) \subseteq [url : Urls, body : BodyType]
    <2>1. ASSUME NEW c \in Citations(s)
          PROVE  c \in [url : Urls, body : BodyType]
      <3>1. c.url \in Urls /\ c.body \in BodyType
        BY <1>1, CitesDocs DEF Docs, JobType
      <3>2. \E a, b : c = [url |-> a, body |-> b]
        BY DEF Citations
      <3>. QED
        BY <3>1, <3>2
    <2>. QED
      BY <2>1
  <1>5. PICK n \in Nat, m \in Nat : n = Cardinality(trace[s]) /\ m = Cardinality(hits)
    BY <1>3
  <1>6. PICK cites \in SUBSET [url : Urls, body : BodyType] : cites = Citations(s)
    BY <1>4
  <1>7. PICK tag \in {"", "NO_CITE"} : tag = IF Citations(s) = {} THEN "NO_CITE" ELSE ""
    OBVIOUS
  <1>8. ResultRow(s, Citations(s)) = [fetches |-> n, hits |-> m, cites |-> cites, tag |-> tag]
    BY <1>5, <1>6, <1>7 DEF ResultRow
  <1>. DEFINE row == [fetches |-> n, hits |-> m, cites |-> cites, tag |-> tag]
  <1>9. row \in ResultType /\ row.cites = cites
    BY DEF ResultType
  <1>. HIDE DEF row
  <1>10. ResultRow(s, Citations(s)) = row
    BY <1>8 DEF row
  <1>. QED
    BY <1>6, <1>9, <1>10

LEMMA AnswersInv == ASSUME WebInv, NEW s \in Shards, Answers(s) \/ Dies(s) PROVE WebInv'
  <1>. DEFINE x == [u \in Urls |-> NoJob]
              raised == [shard[s] EXCEPT !.at = "raised"]
              dead == [shard[s] EXCEPT !.at = "dead"]
              at == IF shard[s].query = Len(Queries[s]) THEN "written" ELSE "search"
              row == ResultRow(s, Citations(s))
              next == [at |-> at, query |-> shard[s].query + 1, rows |-> Append(shard[s].rows, row)]
  <1>1. /\ job' = [job EXCEPT ![s] = x] /\ UNCHANGED <<version, bodies, meta, trace, raced>>
        /\ \/ shard' = [shard EXCEPT ![s] = dead]
           \/ shard' = [shard EXCEPT ![s] = raised]
           \/ shard' = [shard EXCEPT ![s] = next]
    BY DEF Answers, Dies
  <1>2. x \in [Urls -> JobType] /\ \A u \in Urls : x[u].at \in {"none", "wait"} /\ x[u].doc = NoBody
    BY NoTypes
  <1>3. shard[s] \in ShardType
    BY DEF WebInv, Types
  <1>4. dead \in ShardType /\ raised \in ShardType
    BY <1>3 DEF ShardType
  <1>5. next \in ShardType
    <2>1. row \in ResultType
      BY ResultTypes
    <2>2. at \in {"search", "fetch", "written", "failed", "raised", "dead"}
      OBVIOUS
    <2>. HIDE DEF row, at
    <2>3. shard[s].query + 1 \in Nat /\ Append(shard[s].rows, row) \in Seq(ResultType)
      BY <1>3, <2>1, AppendProperties DEF ShardType
    <2>. QED
      BY <2>2, <2>3 DEF ShardType
  <1>6. x = [u \in Urls |-> NoJob]
    OBVIOUS
  <1>7. PICK y \in ShardType : shard' = [shard EXCEPT ![s] = y]
    BY <1>1, <1>4, <1>5
  <1>. HIDE DEF x, dead, raised, next
  <1>. QED
    BY <1>1, <1>2, <1>6, <1>7, ClearFrame

\* A page that changes stays what it was while a fetch began.
LEMMA ChangesInv == ASSUME WebInv, NEW u \in Urls, Changes(u) PROVE WebInv'
  <1>1. /\ version[u] < Len(Page[u]) /\ version' = [version EXCEPT ![u] = version[u] + 1]
        /\ UNCHANGED <<bodies, meta, shard, job, trace, raced>>
    BY DEF Changes
  <1>2. version \in [Urls -> Nat] /\ \A w \in Urls : Page[w] \in Seq(Bodies)
    BY WebAssumption DEF WebInv, Types
  <1>3. /\ version' \in [Urls -> Nat] /\ version'[u] = version[u] + 1
        /\ \A w \in Urls : version'[w] \in {version[w], version[w] + 1}
    BY <1>1, <1>2
  <1>4. version'[u] \in DOMAIN Page[u] /\ \A w \in Urls : w # u => version'[w] = version[w]
    BY <1>1, <1>2, LenProperties
  <1>5. Types'
    BY <1>1, <1>3, <1>4 DEF WebInv, Types
  <1>6. ASSUME NEW s \in Shards, NEW w \in Urls, JobSound(s, w)
        PROVE  JobSound(s, w)'
    <2>1. version[w] \in Nat /\ version'[w] \in Nat /\ version[w] <= version'[w]
      BY <1>2, <1>3
    <2>2. job[s][w] \in JobType
      BY DEF WebInv, Types
    <2>3. job[s][w].since \in Nat
      BY <2>2 DEF JobType
    <2>4. \A b : Was(s, w, b) => Was(s, w, b)'
      BY <1>1, <2>1, <2>3 DEF Was
    <2>5. job[s][w].since \in 1..version[w] => job[s][w].since \in 1..version'[w]
      BY <2>1
    <2>. QED
      BY <1>1, <1>6, <2>4, <2>5 DEF JobSound, InFlight, Tells
  <1>7. SoundJobs'
    BY <1>1, <1>6 DEF WebInv, SoundJobs
  <1>8. Alone' /\ SoundRows' /\ Framed' /\ Unbusy'
    BY <1>1 DEF WebInv, Alone, InFlight, SoundRows, RowSound, Tells, Framed, Docs, Unbusy
  <1>. QED
    BY <1>5, <1>7, <1>8 DEF WebInv

LEMMA InvStep == WebInv /\ [Next]_vars => WebInv'
  <1>. SUFFICES ASSUME WebInv, [Next]_vars PROVE WebInv'
    OBVIOUS
  <1>1. ASSUME NEW s \in Shards, NEW u \in Urls, Fetch(s, u)
        PROVE  WebInv'
    BY <1>1, RequestsInv, AnsweredInv, MarksInv, ReadsBackInv, PutsBodyInv, PutsMetaInv DEF Fetch
  <1>2. CASE UNCHANGED vars
    BY <1>2 DEF vars, WebInv, Types, Alone, InFlight, SoundRows, RowSound, Tells, SoundJobs,
                JobSound, Was, Framed, Docs, Unbusy
  <1>. QED
    BY <1>1, <1>2, SearchesInv, AnswersInv, ChangesInv DEF Next, Work

\* Rows come from answers only, one at a time.
LEMMA RowsAnswer ==
  ASSUME WebInv, [Next]_vars, NEW s \in Shards,
         NEW k \in DOMAIN shard'[s].rows \ DOMAIN shard[s].rows
  PROVE  shard'[s].rows[k] = ResultRow(s, Citations(s))
  <1>1. shard \in [Shards -> ShardType] /\ shard[s] \in ShardType
    BY DEF WebInv, Types
  <1>2. shard'[s].rows # shard[s].rows
    OBVIOUS
  <1>3. ASSUME NEW q \in Shards, q # s, Work(q) \/ Dies(q)
        PROVE  FALSE
    <2>1. shard'[s] = shard[s]
      BY <1>1, <1>3 DEF Work, Searches, Answers, Dies, Fetch, Requests, Answered, Marks,
                        ReadsBack, PutsBody, PutsMeta
    <2>. QED
      BY <1>2, <2>1
  <1>4. ASSUME shard'[s].rows = shard[s].rows
        PROVE  FALSE
    BY <1>2, <1>4
  <1>5. CASE Searches(s) \/ Dies(s)
    <2>. DEFINE y == [shard[s] EXCEPT !.at = "fetch"]
                z == [shard[s] EXCEPT !.at = "failed"]
                d == [shard[s] EXCEPT !.at = "dead"]
    <2>1. \/ shard' = [shard EXCEPT ![s] = y]
          \/ shard' = [shard EXCEPT ![s] = z]
          \/ shard' = [shard EXCEPT ![s] = d]
      BY <1>5 DEF Searches, Dies
    <2>2. y.rows = shard[s].rows /\ z.rows = shard[s].rows /\ d.rows = shard[s].rows
      BY <1>1 DEF ShardType
    <2>. HIDE DEF y, z, d
    <2>. QED
      BY <1>1, <1>4, <2>1, <2>2
  <1>6. CASE \E u \in Urls : Fetch(s, u) \/ Changes(u)
    BY <1>4, <1>6 DEF Fetch, Requests, Answered, Marks, ReadsBack, PutsBody, PutsMeta, Changes
  <1>7. CASE Answers(s)
    <2>. DEFINE dead == [shard[s] EXCEPT !.at = "raised"]
                row == ResultRow(s, Citations(s))
                rows == Append(shard[s].rows, row)
                next == [at |-> IF shard[s].query = Len(Queries[s]) THEN "written" ELSE "search",
                         query |-> shard[s].query + 1, rows |-> rows]
    <2>1. shard' = [shard EXCEPT ![s] = dead] \/ shard' = [shard EXCEPT ![s] = next]
      BY <1>7 DEF Answers
    <2>2. dead.rows = shard[s].rows /\ next.rows = rows
      BY <1>1 DEF ShardType
    <2>. HIDE DEF dead, next
    <2>3. shard'[s].rows = rows
      BY <1>1, <1>4, <2>1, <2>2
    <2>4. shard[s].rows \in Seq(ResultType)
      BY <1>1 DEF ShardType
    <2>5. row \in ResultType
      BY ResultTypes
    <2>. HIDE DEF row
    <2>6. /\ DOMAIN rows = 1..(Len(shard[s].rows) + 1) /\ rows[Len(shard[s].rows) + 1] = row
          /\ DOMAIN shard[s].rows = 1..Len(shard[s].rows) /\ Len(shard[s].rows) \in Nat
      BY <2>4, <2>5, AppendProperties, LenProperties
    <2>7. k = Len(shard[s].rows) + 1
      BY <2>3, <2>6
    <2>. QED
      BY <2>3, <2>6, <2>7 DEF row
  <1>8. CASE UNCHANGED vars
    BY <1>4, <1>8 DEF vars
  <1>9. CASE \E u \in Urls : Changes(u)
    BY <1>6, <1>9
  <1>. QED
    BY <1>3, <1>5, <1>6, <1>7, <1>8, <1>9 DEF Next, Work

-----------------------------------------------------------------------------
(* The theorems                                                            *)

\* Cache, fetches, traces and results keep their types, and versions are of the page.
THEOREM WebTypes == Spec => []Types
  <1>1. WebInv => Types
    BY DEF WebInv
  <1>. QED
    BY <1>1, InvInit, InvStep, PTL DEF Spec

\* A document was the page's content at some moment of its fetch, through any history of
\* conditional GETs (fetch.py), rows of the cache and deaths between its statements,
\* unless two shards raced on the page.
THEOREM DocumentsFresh == Spec => []Fresh
  <1>1. WebInv => Fresh
    <2>1. ASSUME WebInv, NEW s \in Shards, NEW u \in Docs(s) \ raced
          PROVE  \E v \in job[s][u].since..version[u] : Page[u][v] = job[s][u].doc
      BY <2>1 DEF WebInv, SoundJobs, JobSound, Was, Docs
    <2>. QED
      BY <2>1 DEF Fresh
  <1>. QED
    BY <1>1, InvInit, InvStep, PTL DEF Spec

\* Every citation of a row that is added has its document in a fetch result frame of its
\* query.
THEOREM CitationsHaveFrames == Spec => EvidenceParity
  <1>1. ASSUME WebInv, [Next]_vars, NEW s \in Shards,
               NEW k \in DOMAIN shard'[s].rows \ DOMAIN shard[s].rows,
               NEW c \in shard'[s].rows[k].cites
        PROVE  \E f \in trace[s] : f.url = c.url /\ f.body = c.body
    <2>1. c \in Citations(s)
      BY <1>1, RowsAnswer, ResultTypes
    <2>. QED
      BY <1>1, <2>1, CitesDocs DEF WebInv, Framed
  <1>. DEFINE Parity == \A s \in Shards : \A k \in DOMAIN shard'[s].rows \ DOMAIN shard[s].rows :
                          \A c \in shard'[s].rows[k].cites :
                            \E f \in trace[s] : f.url = c.url /\ f.body = c.body
  <1>2. WebInv /\ [Next]_vars => Parity
    BY <1>1
  <1>. QED
    BY <1>2, InvInit, InvStep, PTL DEF Spec, EvidenceParity
===============================================================================
