----------------------------- MODULE WebPipeline -----------------------------
(***************************************************************************)
(* The web pipeline (pirml/web/): a shard answers its queries one after    *)
(* the other; a query is a search, a bounded fan-out of conditional GETs   *)
(* through a cache, and the choice of citations from what was fetched.     *)
(* Shards are processes of their own and share the SQLite cache, in which  *)
(* every statement commits by itself.                                      *)
(*                                                                         *)
(* Pages change while shards run.  A site numbers its versions; the number *)
(* is the validator (ETag or Last-Modified) it sends, if it sends one.     *)
(*                                                                         *)
(* Abstracted: a URL is its normalised form; a body is a model value, its  *)
(* hash too; of extraction what becomes of a body is kept, not how.        *)
(***************************************************************************)
EXTENDS Naturals, Sequences, SequencesExt, FiniteSets, FiniteSetsExt

CONSTANTS
  Shards,         \* processes that run eval_shard
  Queries,        \* each shard: its queries, each the SERP rows in order of rank
  Domain,         \* each URL: its domain
  Page,           \* each URL: the bodies of its versions
  Extract,        \* each body: what extraction makes of it; of "thin" ones it drops all
  Parallel,       \* plan.max_parallel_fetch
  DomainCap,      \* plan.per_domain_cap
  SerpK           \* min(plan.serp_k, 8)

Urls == DOMAIN Page
Bodies == DOMAIN Extract
Versions(u) == DOMAIN Page[u]
None == 0        \* no version
NoBody == ""     \* no body

ASSUME WebAssumption ==
  /\ Queries \in [Shards -> Seq(Seq(Urls)) \ {<< >>}]
  /\ Page \in [Urls -> Seq(Bodies)] /\ \A u \in Urls : Page[u] # << >>
  /\ Extract \in [Bodies -> {"text", "thin", "bare", "empty"}]
  /\ Parallel \in Nat /\ DomainCap \in Nat /\ SerpK \in Nat \ {0}

VARIABLES
  version,        \* each URL: its version on the web
  bodies,         \* the cache: bodies stored
  meta,           \* the cache: for each URL a row, or none
  shard,          \* each shard: its query, its phase, its results
  job,            \* each shard and URL: the fetch of that URL for the query
  trace,          \* each shard: the fetch_result frames of the query
  raced           \* history: URLs whose row two shards changed or used at once

vars == <<version, bodies, meta, shard, job, trace, raced>>

NoRow == [body |-> NoBody, tag |-> None]
NoReply == [status |-> 0, body |-> NoBody, tag |-> None]
NoJob == [at |-> "none", hit |-> NoRow, since |-> None, reply |-> NoReply, doc |-> NoBody]

-----------------------------------------------------------------------------
(* Search                                                                  *)

\* rank_and_diversify: the first row of each URL, as long as its domain is not
\* used up, and not more than k.
Selected(rows) ==
  LET pick(sel, u) ==
        LET ofDomain == {i \in DOMAIN sel : Domain[sel[i]] = Domain[u]}
        IN IF u \in ToSet(sel) \/ Cardinality(ofDomain) >= DomainCap \/ Len(sel) >= SerpK
             THEN sel ELSE Append(sel, u)
  IN FoldLeft(pick, << >>, rows)

Query(s) == Queries[s][shard[s].query]

\* The provider answers, or fails and the shard with it.
Searches(s) ==
  /\ shard[s].at = "search"
  /\ \/ /\ shard' = [shard EXCEPT ![s] = [@ EXCEPT !.at = "fetch"]]
        /\ job' = [job EXCEPT ![s] =
                     [u \in Urls |-> IF u \in ToSet(Selected(Query(s)))
                                       THEN [NoJob EXCEPT !.at = "wait"] ELSE NoJob]]
     \/ /\ shard' = [shard EXCEPT ![s] = [@ EXCEPT !.at = "failed"]]
        /\ UNCHANGED job
  /\ trace' = [trace EXCEPT ![s] = {}]
  /\ UNCHANGED <<version, bodies, meta, raced>>

-----------------------------------------------------------------------------
(* Fetch                                                                   *)

\* A slip: a fetch that fails keeps its place.
InFlightUnreleased(s) ==
  {u \in Urls : \/ job[s][u].at \notin {"none", "wait", "done"}
                \/ job[s][u].at = "done" /\ job[s][u].reply.status = 0}

InFlight(s) == {u \in Urls : job[s][u].at \notin {"none", "wait", "done"}}
Others(s, u) == \E q \in Shards \ {s} : u \in InFlight(q)

\* get: the row joined with its body.
Hit(u) == IF meta[u].body \in bodies THEN meta[u] ELSE NoRow

\* A step of one fetch.
Moves(s, u, j) == job' = [job EXCEPT ![s] = [@ EXCEPT ![u] = j]]

\* The semaphore lets the fetch in; the cache is read and the request goes out
\* with the validator of what it holds.
Requests(s, u) ==
  /\ job[s][u].at = "wait"
  /\ Cardinality(InFlight(s)) < (IF Parallel = 0 THEN 1 ELSE Parallel)
  /\ Moves(s, u, [job[s][u] EXCEPT !.at = "request", !.hit = Hit(u), !.since = version[u]])
  /\ raced' = raced \cup {v \in {u} : Others(s, u)}
  /\ UNCHANGED <<version, bodies, meta, shard, trace>>

\* What the site answers, with a validator or without; or another status, which
\* the fetcher passes on; or nothing good, which raises.
Replies(u, tag) ==
  LET current == version[u]
  IN {[status |-> IF tag # None /\ tag = current THEN 304 ELSE 200,
       body |-> IF tag # None /\ tag = current THEN NoBody ELSE Page[u][current],
       tag |-> t] : t \in {None, current}}
     \cup {[NoReply EXCEPT !.status = 204], NoReply}

AfterReply(hit, reply) ==
  CASE reply.status = 304 /\ hit # NoRow -> "mark"
    [] reply.status = 200 -> "body"
    [] OTHER -> "done"

\* A frame for a failure is written by the pipeline; none for another status.
Answered(s, u) ==
  /\ job[s][u].at = "request"
  /\ \E reply \in Replies(u, job[s][u].hit.tag) :
       /\ Moves(s, u, [job[s][u] EXCEPT !.reply = reply, !.at = AfterReply(job[s][u].hit, reply)])
       /\ trace' = [trace EXCEPT ![s] = @ \cup
                      {f \in {[url |-> u, body |-> NoBody, cached |-> FALSE]} : reply.status = 0}]
  /\ UNCHANGED <<version, bodies, meta, shard, raced>>

\* mark_304: the validators of the answer replace those of the row, and the row
\* is read back.
Marks(s, u) ==
  /\ job[s][u].at = "mark"
  /\ meta' = [meta EXCEPT ![u] = [@ EXCEPT !.tag = job[s][u].reply.tag]]
  /\ Moves(s, u, [job[s][u] EXCEPT !.at = "read"])
  /\ UNCHANGED <<version, bodies, shard, trace, raced>>

\* The document reaches the pipeline: an empty one makes extraction raise, which
\* is one more frame.
Delivered(s, u, body, cached) ==
  /\ Moves(s, u, [job[s][u] EXCEPT !.at = "done", !.doc = body])
  /\ trace' = [trace EXCEPT ![s] = @ \cup {[url |-> u, body |-> body, cached |-> cached]} \cup
                      {f \in {[url |-> u, body |-> NoBody, cached |-> FALSE]} :
                         Extract[body] = "empty"}]

ReadsBack(s, u) ==
  /\ job[s][u].at = "read"
  /\ Delivered(s, u, meta[u].body, TRUE)
  /\ UNCHANGED <<version, bodies, meta, shard, raced>>

\* put: INSERT OR IGNORE the body, then INSERT OR REPLACE the row.
PutsBody(s, u) ==
  /\ job[s][u].at = "body"
  /\ bodies' = bodies \cup {job[s][u].reply.body}
  /\ Moves(s, u, [job[s][u] EXCEPT !.at = "meta"])
  /\ UNCHANGED <<version, meta, shard, trace, raced>>

\* A slip: a row that is there gets the new validators only.
RowOfOldBody(u, reply) ==
  [body |-> IF meta[u].body = NoBody THEN reply.body ELSE meta[u].body, tag |-> reply.tag]

RowOf(u, reply) == [body |-> reply.body, tag |-> reply.tag]

PutsMeta(s, u) ==
  /\ job[s][u].at = "meta"
  /\ meta' = [meta EXCEPT ![u] = RowOf(u, job[s][u].reply)]
  /\ Delivered(s, u, job[s][u].reply.body, FALSE)
  /\ UNCHANGED <<version, bodies, shard, raced>>

-----------------------------------------------------------------------------
(* Answer                                                                  *)

Docs(s) == {u \in Urls : job[s][u].doc # NoBody}
Chunked(s) == {u \in Docs(s) : Extract[job[s][u].doc] \in {"text", "thin"}}

\* kill_boilerplate drops chunks that are short or repeated.
Usable(s) == {u \in Chunked(s) : Extract[job[s][u].doc] = "text"}

\* A slip: a citation takes its document from the page's row in the cache.
CitationsOfCache(s) == {[url |-> u, body |-> meta[u].body] : u \in Usable(s)}

\* join_chunks keeps one of equal texts.
Citations(s) ==
  {[url |-> CHOOSE u \in Usable(s) : job[s][u].doc = b, body |-> b]
     : b \in {job[s][u].doc : u \in Usable(s)}}

\* classify_fail_tag on the row of the query.
ResultRow(s, cites) ==
  [fetches |-> Cardinality(trace[s]), hits |-> Cardinality({f \in trace[s] : f.cached}),
   cites |-> cites, tag |-> IF cites = {} THEN "NO_CITE" ELSE ""]

\* All fetches are gathered.  Without any chunk there is an answer that says so;
\* when every chunk is dropped later, pack_citations raises, and no row of the
\* shard is written, since rows are written at its end.
Answers(s) ==
  /\ shard[s].at = "fetch"
  /\ \A u \in Urls : job[s][u].at \in {"none", "done"}
  /\ IF Chunked(s) # {} /\ Usable(s) = {}
       THEN shard' = [shard EXCEPT ![s] = [@ EXCEPT !.at = "raised"]]
       ELSE shard' = [shard EXCEPT ![s] =
              [at |-> IF shard[s].query = Len(Queries[s]) THEN "written" ELSE "search",
               query |-> shard[s].query + 1,
               rows |-> Append(shard[s].rows, ResultRow(s, Citations(s)))]]
  /\ job' = [job EXCEPT ![s] = [u \in Urls |-> NoJob]]
  /\ UNCHANGED <<version, bodies, meta, trace, raced>>

\* The process dies anywhere.
Dies(s) ==
  /\ shard[s].at \in {"search", "fetch"}
  /\ shard' = [shard EXCEPT ![s] = [@ EXCEPT !.at = "dead"]]
  /\ job' = [job EXCEPT ![s] = [u \in Urls |-> NoJob]]
  /\ UNCHANGED <<version, bodies, meta, trace, raced>>

\* The site publishes the next version of a page.
Changes(u) ==
  /\ version[u] < Len(Page[u])
  /\ version' = [version EXCEPT ![u] = @ + 1]
  /\ UNCHANGED <<bodies, meta, shard, job, trace, raced>>

Init ==
  /\ version = [u \in Urls |-> 1]
  /\ bodies = {} /\ meta = [u \in Urls |-> NoRow]
  /\ shard = [s \in Shards |-> [at |-> "search", query |-> 1, rows |-> << >>]]
  /\ job = [s \in Shards |-> [u \in Urls |-> NoJob]]
  /\ trace = [s \in Shards |-> {}]
  /\ raced = {}

Fetch(s, u) ==
  \/ Requests(s, u) \/ Answered(s, u) \/ Marks(s, u) \/ ReadsBack(s, u)
  \/ PutsBody(s, u) \/ PutsMeta(s, u)

Work(s) == Searches(s) \/ Answers(s) \/ (\E u \in Urls : Fetch(s, u))

Next == (\E s \in Shards : Work(s) \/ Dies(s)) \/ (\E u \in Urls : Changes(u))

\* Steps of a process and of its threads happen; urlopen has a timeout, so that
\* a request is answered or fails.
Fairness == \A s \in Shards : WF_vars(Work(s))

Spec == Init /\ [][Next]_vars /\ Fairness

-----------------------------------------------------------------------------
(* Properties                                                              *)

\* A document handed to the pipeline was the page's content at some moment of
\* the fetch, however old the row it came from is and whatever process died
\* between two statements, unless two shards fetched the page at once: then the
\* validator of one version may stand beside the body of another, and every 304
\* after that brings the wrong body.
Fresh ==
  \A s \in Shards : \A u \in Docs(s) \ raced :
    \E v \in job[s][u].since..version[u] : Page[u][v] = job[s][u].doc

\* Every citation's document appears in a fetch result frame of its query
\* (docs/adr/005-web-substrate-determinism-matrix/02-pipeline-trace.md:37),
\* also when the row changed under the fetch.
EvidenceParity ==
  [][\A s \in Shards : \A k \in DOMAIN shard'[s].rows \ DOMAIN shard[s].rows :
       \A c \in shard'[s].rows[k].cites :
         \E f \in trace[s] : f.url = c.url /\ f.body = c.body]_vars

\* A shard comes to an end, with more pages to fetch than the semaphore lets in and whatever
\* fetches fail: each gives its place back and gather hears of all of them.  The end is its
\* rows, or without them a search that failed, an answer that raised, or death.
ShardEnds == \A s \in Shards : <>(shard[s].at \in {"written", "failed", "raised", "dead"})
=============================================================================
