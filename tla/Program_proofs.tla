---------------------------- MODULE Program_proofs ----------------------------
(***************************************************************************)
(* The program's side of the protocol, for every number of tasks and every *)
(* size of the pipes; and the replay of a program, for every script, every *)
(* change of the program and every damage of the trace.                    *)
(***************************************************************************)
EXTENDS AsyncRpc, Replay, SequenceTheorems, WellFoundedInduction, TLAPS

-----------------------------------------------------------------------------
(* Sequences of ids                                                        *)

Ascends(s) == \A j, k \in DOMAIN s : j < k => s[j] < s[k]
Holds(s, x) == \E k \in DOMAIN s : s[k] = x

LEMMA OneId == ASSUME NEW x \in Nat PROVE <<x>> \in Seq(Nat)
  OBVIOUS

LEMMA Joins ==
  ASSUME NEW a \in Seq(Nat), NEW b \in Seq(Nat), NEW c \in Seq(Nat)
  PROVE  (a \o b) \o c = a \o (b \o c)
  BY ConcatAssociative

\* An id before three stretches, joined from the left.
Leads(x, s1, s2, s3) == ((<<x>> \o s1) \o s2) \o s3 = <<x>> \o ((s1 \o s2) \o s3)
LEMMA InFront ==
  ASSUME NEW x \in Nat, NEW s1 \in Seq(Nat), NEW s2 \in Seq(Nat), NEW s3 \in Seq(Nat)
  PROVE  Leads(x, s1, s2, s3)
  <1>1. <<x>> \in Seq(Nat) /\ s1 \o s2 \in Seq(Nat)
    BY OneId
  <1>2. (<<x>> \o s1) \o s2 = <<x>> \o (s1 \o s2)
    BY <1>1, Joins
  <1>3. (<<x>> \o (s1 \o s2)) \o s3 = <<x>> \o ((s1 \o s2) \o s3)
    BY <1>1, Joins
  <1>. QED
    BY <1>2, <1>3 DEF Leads

\* Whatever is written up to one place and begins at the next may be cut anywhere.
LEMMA Shifted ==
  ASSUME NEW s \in Seq(Nat), NEW x \in Nat, NEW t \in Seq(Nat)
  PROVE  (s \o <<x>>) \o t = s \o (<<x>> \o t)
  BY OneId, Joins

LEMMA FirstGone ==
  ASSUME NEW s \in Seq(Nat), NEW x \in Nat, Ascends(<<x>> \o s)
  PROVE  /\ Ascends(s)
         /\ \A k \in DOMAIN s : x < s[k]
         /\ \A y : Holds(<<x>> \o s, y) <=> y = x \/ Holds(s, y)
         /\ \A k \in DOMAIN s : \E j \in DOMAIN (<<x>> \o s) : (<<x>> \o s)[j] = s[k]
  <1>. DEFINE t == <<x>> \o s
  <1>1. /\ Len(t) = Len(s) + 1 /\ Len(s) \in Nat /\ t[1] = x
        /\ DOMAIN t = 1..(Len(s) + 1) /\ DOMAIN s = 1..Len(s)
        /\ \A k \in DOMAIN s : t[k + 1] = s[k]
        /\ \A k \in DOMAIN t : k = 1 \/ (k - 1 \in DOMAIN s /\ t[k] = s[k - 1])
    OBVIOUS
  <1>. HIDE DEF t
  <1>2. \A j, k \in DOMAIN t : j < k => t[j] < t[k]
    BY DEF Ascends, t
  <1>3. \A k \in DOMAIN s : k + 1 \in DOMAIN t /\ 1 \in DOMAIN t /\ 1 < k + 1
    BY <1>1
  <1>4. \A k \in DOMAIN s : x < s[k]
    BY <1>1, <1>2, <1>3
  <1>5. Ascends(s)
    <2>. SUFFICES ASSUME NEW j \in DOMAIN s, NEW k \in DOMAIN s, j < k PROVE s[j] < s[k]
      BY DEF Ascends
    <2>1. j + 1 < k + 1
      BY <1>1
    <2>. QED
      BY <1>1, <1>2, <1>3, <2>1
  <1>6. ASSUME NEW y PROVE Holds(t, y) <=> y = x \/ Holds(s, y)
    <2>1. ASSUME NEW k \in DOMAIN t, t[k] = y PROVE y = x \/ Holds(s, y)
      BY <1>1, <2>1 DEF Holds
    <2>2. Holds(t, x)
      BY <1>3, <1>1 DEF Holds
    <2>3. ASSUME NEW k \in DOMAIN s, s[k] = y PROVE Holds(t, y)
      BY <1>1, <1>3, <2>3 DEF Holds
    <2>. QED
      BY <2>1, <2>2, <2>3 DEF Holds
  <1>. QED
    BY <1>1, <1>3, <1>4, <1>5, <1>6 DEF t

LEMMA LastAdded ==
  ASSUME NEW s \in Seq(Nat), NEW x \in Nat, Ascends(s), \A k \in DOMAIN s : s[k] < x
  PROVE  /\ s \o <<x>> \in Seq(Nat) /\ Ascends(s \o <<x>>)
         /\ \A y : Holds(s \o <<x>>, y) <=> y = x \/ Holds(s, y)
         /\ \A k \in DOMAIN (s \o <<x>>) :
              (s \o <<x>>)[k] = x \/ \E j \in DOMAIN s : (s \o <<x>>)[k] = s[j]
  <1>. DEFINE t == s \o <<x>>
  <1>1. /\ t \in Seq(Nat) /\ Len(s) \in Nat /\ t[Len(s) + 1] = x
        /\ DOMAIN t = 1..(Len(s) + 1) /\ DOMAIN s = 1..Len(s)
        /\ \A k \in DOMAIN s : t[k] = s[k]
    OBVIOUS
  <1>. HIDE DEF t
  <1>2. \A k \in DOMAIN t : k = Len(s) + 1 \/ k \in DOMAIN s
    BY <1>1
  <1>3. Ascends(t)
    <2>1. ASSUME NEW j \in DOMAIN t, NEW k \in DOMAIN t, j < k PROVE t[j] < t[k]
      <3>1. j \in DOMAIN s /\ t[j] = s[j]
        BY <1>1, <1>2, <2>1
      <3>. QED
        BY <1>1, <1>2, <2>1, <3>1 DEF Ascends
    <2>. QED
      BY <2>1 DEF Ascends
  <1>4. ASSUME NEW y PROVE Holds(t, y) <=> y = x \/ Holds(s, y)
    <2>1. ASSUME NEW k \in DOMAIN t, t[k] = y PROVE y = x \/ Holds(s, y)
      BY <1>1, <1>2, <2>1 DEF Holds
    <2>2. Holds(t, x)
      <3>1. Len(s) + 1 \in DOMAIN t /\ t[Len(s) + 1] = x
        BY <1>1
      <3>. QED
        BY <3>1 DEF Holds
    <2>3. ASSUME NEW k \in DOMAIN s, s[k] = y PROVE Holds(t, y)
      <3>1. k \in DOMAIN t /\ t[k] = y
        BY <1>1, <2>3
      <3>. QED
        BY <3>1 DEF Holds
    <2>. QED
      BY <2>1, <2>2, <2>3 DEF Holds
  <1>. QED
    BY <1>1, <1>2, <1>3, <1>4 DEF t

\* The ids of frames, calls or results.
FrameType(op) == [op : {op}, id : Nat \ {NoId}]

LEMMA IdsTyped ==
  ASSUME NEW op, NEW s \in Seq(FrameType(op))
  PROVE  IdsOf(s) \in Seq(Nat) /\ Len(IdsOf(s)) = Len(s) /\ DOMAIN IdsOf(s) = DOMAIN s
  <1>1. \A k \in 1..Len(s) : s[k].id \in Nat
    <2>1. \A k \in 1..Len(s) : s[k] \in FrameType(op)
      OBVIOUS
    <2>. QED
      BY <2>1 DEF FrameType
  <1>2. IdsOf(s) = [k \in 1..Len(s) |-> s[k].id]
    BY DEF IdsOf
  <1>. QED
    BY <1>1, <1>2

LEMMA IdsAppended ==
  ASSUME NEW op, NEW s \in Seq(FrameType(op)), NEW f \in FrameType(op)
  PROVE  IdsOf(Append(s, f)) = IdsOf(s) \o <<f.id>>
  <1>. DEFINE a == IdsOf(Append(s, f))
              b == IdsOf(s) \o <<f.id>>
  <1>0. f.id \in Nat
    BY DEF FrameType
  <1>1. /\ Append(s, f) \in Seq(FrameType(op)) /\ Len(Append(s, f)) = Len(s) + 1
        /\ \A i \in 1..Len(s) : Append(s, f)[i] = s[i]
        /\ Append(s, f)[Len(s) + 1] = f
    BY AppendProperties
  <1>2. /\ a \in Seq(Nat) /\ Len(a) = Len(s) + 1
        /\ IdsOf(s) \in Seq(Nat) /\ Len(IdsOf(s)) = Len(s)
    BY <1>1, IdsTyped
  <1>3. b \in Seq(Nat) /\ Len(b) = Len(s) + 1
    BY <1>0, <1>2
  <1>4. ASSUME NEW i \in 1..Len(a) PROVE a[i] = b[i]
    <2>1. a[i] = Append(s, f)[i].id
      BY <1>1, <1>2 DEF IdsOf
    <2>2. CASE i \in 1..Len(s)
      <3>1. b[i] = IdsOf(s)[i] /\ IdsOf(s)[i] = s[i].id
        BY <1>0, <1>2, <2>2 DEF IdsOf
      <3>. QED
        BY <1>1, <2>1, <2>2, <3>1
    <2>3. CASE i = Len(s) + 1
      <3>1. \A u \in Seq(Nat), x \in Nat : (u \o <<x>>)[Len(u) + 1] = x
        OBVIOUS
      <3>2. b[i] = f.id
        BY <1>0, <1>2, <2>3, <3>1
      <3>. QED
        BY <1>1, <2>1, <2>3, <3>2
    <2>. QED
      BY <1>2, <2>2, <2>3
  <1>. HIDE DEF a, b
  <1>5. a = b
    BY <1>2, <1>3, <1>4, SeqEqual
  <1>. QED
    BY <1>5 DEF a, b

LEMMA IdsTail ==
  ASSUME NEW op, NEW s \in Seq(FrameType(op)), s # << >>
  PROVE  /\ IdsOf(s) = <<Head(s).id>> \o IdsOf(Tail(s)) /\ Head(s) \in FrameType(op)
         /\ Tail(s) \in Seq(FrameType(op))
  <1>. DEFINE a == IdsOf(s)
              h == Head(s)
              t == Tail(s)
              b == <<h.id>> \o IdsOf(t)
  <1>1. /\ h \in FrameType(op) /\ h = s[1] /\ t \in Seq(FrameType(op)) /\ Len(t) = Len(s) - 1
        /\ \A i \in 1..Len(t) : t[i] = s[i + 1]
    BY HeadTailProperties
  <1>2. Len(s) \in Nat /\ Len(s) # 0
    OBVIOUS
  <1>. HIDE DEF h, t
  <1>3. /\ a \in Seq(Nat) /\ Len(a) = Len(s)
        /\ IdsOf(t) \in Seq(Nat) /\ Len(IdsOf(t)) = Len(t) /\ h.id \in Nat
    BY <1>1, IdsTyped DEF FrameType
  <1>4. b \in Seq(Nat) /\ Len(b) = Len(s)
    BY <1>1, <1>2, <1>3
  <1>5. ASSUME NEW i \in 1..Len(a) PROVE a[i] = b[i]
    <2>1. a[i] = s[i].id
      BY <1>3 DEF IdsOf
    <2>2. CASE i = 1
      BY <1>1, <1>3, <2>1, <2>2
    <2>3. CASE i # 1
      <3>1. i - 1 \in 1..Len(t) /\ i = (i - 1) + 1
        BY <1>1, <1>2, <1>3, <2>3
      <3>2. b[i] = IdsOf(t)[i - 1]
        BY <1>3, <3>1
      <3>3. IdsOf(t)[i - 1] = t[i - 1].id
        BY <1>1, <3>1 DEF IdsOf
      <3>. QED
        BY <1>1, <2>1, <3>1, <3>2, <3>3
    <2>. QED
      BY <2>2, <2>3
  <1>. HIDE DEF a, b
  <1>6. a = b
    BY <1>3, <1>4, <1>5, SeqEqual
  <1>. QED
    BY <1>1, <1>6 DEF a, b, h, t

-----------------------------------------------------------------------------
(* What a step does to the ids under way                                   *)

TaskType ==
  [at : {"ready", "writing", "waiting", "returned", "failed", "cancelled"}, id : Nat \ {NoId}]
FreshTask == [at |-> "ready", id |-> NoId]

RpcTypes ==
  /\ count \in Nat /\ task \in [Tasks -> TaskType \cup {FreshTask}]
  /\ DOMAIN futures \subseteq 1..count /\ pending \subseteq DOMAIN futures
  /\ fetched \in Nat /\ serving \in Nat
  /\ stdout \in Seq(FrameType("call")) /\ queue \in Seq(FrameType("call"))
  /\ stdin \in Seq(FrameType("result"))
  /\ holder \in Tasks \cup {Nobody} /\ (holder # Nobody => task[holder].id # NoId)

\* Where main and the reader loop stand.
Places ==
  /\ main # "tasks" =>
       client = "stopped" /\ holder = Nobody /\ fetched = NoId /\ read = "none"
  /\ main = "tasks" => client # "stopped" /\ ~orphan
  /\ read # "fetched" => fetched = NoId

LEMMA PiecesTyped ==
  ASSUME RpcTypes
  PROVE  /\ Only(fetched) \in Seq(Nat) /\ IdsOf(stdin) \in Seq(Nat) /\ Only(serving) \in Seq(Nat)
         /\ IdsOf(queue) \in Seq(Nat) /\ IdsOf(stdout) \in Seq(Nat) /\ Writing \in Seq(Nat)
         /\ Untaken \in Seq(Nat) /\ UnderWay \in Seq(Nat)
  <1>1. \A i \in Nat : Only(i) \in Seq(Nat)
    BY DEF Only
  <1>2. IdsOf(stdin) \in Seq(Nat) /\ IdsOf(queue) \in Seq(Nat) /\ IdsOf(stdout) \in Seq(Nat)
    BY IdsTyped DEF RpcTypes
  <1>3. Writing \in Seq(Nat)
    <2>1. CASE holder = Nobody
      BY <2>1 DEF Writing
    <2>2. CASE holder # Nobody
      <3>1. task[holder].id \in Nat
        BY <2>2 DEF RpcTypes, TaskType, FreshTask, NoId
      <3>. QED
        BY <2>2, <3>1 DEF Writing
    <2>. QED
      BY <2>1, <2>2
  <1>4. \A s, t \in Seq(Nat) : s \o t \in Seq(Nat)
    OBVIOUS
  <1>. QED
    BY <1>1, <1>2, <1>3, <1>4 DEF RpcTypes, Untaken, UnderWay

\* An id comes last, one goes from the front, one is taken, or all stay.
Stays == UnderWay' = UnderWay /\ Untaken' = Untaken
Grows == UnderWay' = UnderWay \o <<count'>> /\ Untaken' = Untaken \o <<count'>>
Drops(x) == UnderWay' \in Seq(Nat) /\ UnderWay = <<x>> \o UnderWay' /\ Untaken' = Untaken
Passes(x) == Untaken' \in Seq(Nat) /\ UnderWay' = UnderWay /\ Untaken = <<x>> \o Untaken'

\* Equal pieces make equal rows of ids.
LEMMA SamePieces ==
  ASSUME fetched' = fetched, stdin' = stdin, serving' = serving, queue' = queue,
         stdout' = stdout, Writing' = Writing
  PROVE  Stays
  BY DEF Stays, UnderWay, Untaken, Only, IdsOf

LEMMA StartsGrows ==
  ASSUME RpcTypes, NEW t \in Tasks, CallStarts(t)
  PROVE  Grows
  <1>1. Writing = << >> /\ Writing' = <<count'>>
    BY AsyncRpcAssumption DEF CallStarts, LoopFree, Writing, RpcTypes
  <1>2. /\ fetched' = fetched /\ stdin' = stdin /\ serving' = serving /\ queue' = queue
        /\ stdout' = stdout
    BY DEF CallStarts, supervisorVars
  <1>3. PICK n : n = count' /\ n \in Nat
    BY DEF CallStarts, NextCallId, RpcTypes
  <1>. DEFINE a == Only(fetched) \o IdsOf(stdin) \o Only(serving)
              b == IdsOf(queue) \o IdsOf(stdout)
  <1>4. a \in Seq(Nat) /\ b \in Seq(Nat) /\ <<n>> \in Seq(Nat) /\ b \o <<n>> \in Seq(Nat)
    <2>1. \A s, u \in Seq(Nat) : s \o u \in Seq(Nat)
      OBVIOUS
    <2>. QED
      BY <1>3, <2>1, PiecesTyped, OneId
  <1>5. Untaken = b \o << >> /\ UnderWay = a \o Untaken
    BY <1>1 DEF Untaken, UnderWay
  <1>6. Untaken' = b \o <<n>> /\ UnderWay' = a \o (b \o <<n>>)
    BY <1>1, <1>2, <1>3 DEF Untaken, UnderWay, Only, IdsOf
  <1>. HIDE DEF a, b
  <1>7. Untaken = b
    BY <1>4, <1>5, ConcatEmptySeq
  <1>8. a \o (b \o <<n>>) = (a \o b) \o <<n>>
    BY <1>4, Joins
  <1>. QED
    BY <1>3, <1>5, <1>6, <1>7, <1>8 DEF Grows

LEMMA CallSent ==
  ASSUME NEW i \in Nat \ {NoId}
  PROVE  Call(i) \in FrameType("call") /\ Call(i).id = i /\ Call(i).op = "call"
  BY DEF Call, FrameType

LEMMA ResultSent ==
  ASSUME NEW i \in Nat \ {NoId}
  PROVE  Result(i) \in FrameType("result") /\ Result(i).id = i
  BY DEF Result, FrameType

LEMMA WrittenStays ==
  ASSUME RpcTypes, NEW t \in Tasks, CallWritten(t)
  PROVE  Stays
  <1>1. PICK i \in Nat \ {NoId} : i = task[t].id
    BY AsyncRpcAssumption DEF CallWritten, RpcTypes, TaskType, FreshTask
  <1>2. Writing = <<i>> /\ Writing' = << >>
    BY <1>1, AsyncRpcAssumption DEF CallWritten, Writing
  <1>3. /\ fetched' = fetched /\ stdin' = stdin /\ serving' = serving /\ queue' = queue
        /\ stdout' = Append(stdout, Call(i))
    BY <1>1 DEF CallWritten, supervisorVars
  <1>. DEFINE q == IdsOf(queue)
              s == IdsOf(stdout)
  <1>4. q \in Seq(Nat) /\ s \in Seq(Nat) /\ <<i>> \in Seq(Nat)
    BY PiecesTyped, OneId
  <1>5. IdsOf(stdout') = s \o <<i>>
    <2>1. stdout \in Seq(FrameType("call"))
      BY DEF RpcTypes
    <2>. QED
      BY <1>3, <2>1, CallSent, IdsAppended
  <1>6. Untaken = (q \o s) \o <<i>>
    BY <1>2 DEF Untaken
  <1>7. IdsOf(queue') = q
    BY <1>3 DEF IdsOf
  <1>8. Untaken' = (q \o (s \o <<i>>)) \o << >>
    BY <1>2, <1>5, <1>7 DEF Untaken
  <1>. HIDE DEF q, s
  <1>9. Untaken' = (q \o s) \o <<i>>
    <2>1. q \o (s \o <<i>>) = (q \o s) \o <<i>>
      BY <1>4, Joins
    <2>2. (q \o s) \o <<i>> \in Seq(Nat)
      BY <1>4
    <2>. QED
      BY <1>8, <2>1, <2>2, ConcatEmptySeq
  <1>10. Untaken' = Untaken
    BY <1>6, <1>9
  <1>. QED
    BY <1>3, <1>10 DEF Stays, UnderWay, Only, IdsOf

LEMMA PumpsStays ==
  ASSUME RpcTypes, Pumps
  PROVE  Stays
  <1>0. stdout # << >> /\ stdout \in Seq(FrameType("call")) /\ queue \in Seq(FrameType("call"))
    BY DEF RpcTypes, Pumps
  <1>1. PICK f : f = Head(stdout)
    OBVIOUS
  <1>2. /\ f \in FrameType("call") /\ IdsOf(stdout) = <<f.id>> \o IdsOf(Tail(stdout))
        /\ Tail(stdout) \in Seq(FrameType("call"))
    BY <1>0, <1>1, IdsTail
  <1>3. PICK i \in Nat : i = f.id
    BY <1>2 DEF FrameType
  <1>. DEFINE q == IdsOf(queue)
              s == IdsOf(Tail(stdout))
              w == Writing
  <1>4. q \in Seq(Nat) /\ s \in Seq(Nat) /\ w \in Seq(Nat) /\ <<i>> \in Seq(Nat)
    BY <1>2, PiecesTyped, IdsTyped, OneId
  <1>5. IdsOf(queue') = q \o <<i>>
    <2>1. queue' = Append(queue, f)
      BY <1>1 DEF Pumps
    <2>. QED
      BY <1>0, <1>2, <1>3, <2>1, IdsAppended
  <1>6. /\ fetched' = fetched /\ stdin' = stdin /\ serving' = serving /\ Writing' = w
        /\ IdsOf(stdout') = s
    BY DEF Pumps, Writing, programVars, IdsOf
  <1>7. Untaken = (q \o (<<i>> \o s)) \o w /\ Untaken' = ((q \o <<i>>) \o s) \o w
    BY <1>2, <1>3, <1>5, <1>6 DEF Untaken
  <1>. HIDE DEF q, s, w
  <1>8. Untaken' = Untaken
    BY <1>4, <1>7, Shifted
  <1>. QED
    BY <1>6, <1>8 DEF Stays, UnderWay, Only, IdsOf

\* The call taken goes from one row to the other.
LEMMA TakesPasses ==
  ASSUME RpcTypes, Takes, Accepts(stream, Head(queue))
  PROVE  Passes(Head(queue).id)
  <1>0. queue # << >> /\ queue \in Seq(FrameType("call"))
    BY DEF RpcTypes, Takes
  <1>1. PICK f : f = Head(queue)
    OBVIOUS
  <1>2. /\ f \in FrameType("call") /\ IdsOf(queue) = <<f.id>> \o IdsOf(Tail(queue))
        /\ Tail(queue) \in Seq(FrameType("call"))
    BY <1>0, <1>1, IdsTail
  <1>3. PICK i \in Nat \ {NoId} : i = f.id
    BY <1>2 DEF FrameType
  <1>. DEFINE a == Only(fetched) \o IdsOf(stdin)
              q == IdsOf(Tail(queue))
              s == IdsOf(stdout)
              w == Writing
              u == (q \o s) \o w
  <1>4. /\ q \in Seq(Nat) /\ s \in Seq(Nat) /\ w \in Seq(Nat) /\ <<i>> \in Seq(Nat)
        /\ a \in Seq(Nat) /\ u \in Seq(Nat) /\ q \o s \in Seq(Nat)
    <2>1. \A x, y \in Seq(Nat) : x \o y \in Seq(Nat)
      OBVIOUS
    <2>. QED
      BY <1>2, <2>1, PiecesTyped, IdsTyped, OneId
  <1>5. /\ fetched' = fetched /\ stdin' = stdin /\ serving' = i /\ Writing' = w
        /\ IdsOf(stdout') = s /\ IdsOf(queue') = q /\ serving = NoId
    BY <1>1, <1>3 DEF Takes, Writing, programVars, IdsOf
  <1>6. Only(serving) = << >> /\ Only(serving') = <<i>>
    BY <1>3, <1>5 DEF Only
  <1>7. Only(fetched') = Only(fetched) /\ IdsOf(stdin') = IdsOf(stdin)
    BY <1>5 DEF IdsOf
  <1>8. /\ Untaken = ((<<i>> \o q) \o s) \o w /\ UnderWay = (a \o << >>) \o Untaken
        /\ Untaken' = u /\ UnderWay' = (a \o <<i>>) \o u
    BY <1>2, <1>3, <1>5, <1>6, <1>7 DEF Untaken, UnderWay
  <1>. HIDE DEF a, q, s, w
  <1>9. Untaken = <<i>> \o u
    <2>1. i \in Nat /\ q \in Seq(Nat) /\ s \in Seq(Nat) /\ w \in Seq(Nat)
      BY <1>3, <1>4
    <2>2. ((<<i>> \o q) \o s) \o w = <<i>> \o u
      <3>1. Leads(i, q, s, w)
        BY <2>1, InFront
      <3>. QED
        BY <3>1 DEF Leads
    <2>. QED
      BY <1>8, <2>2
  <1>. HIDE DEF u
  <1>10. UnderWay' = UnderWay
    <2>1. a \o << >> = a
      BY <1>4, ConcatEmptySeq
    <2>2. (a \o <<i>>) \o u = a \o (<<i>> \o u)
      BY <1>4, Shifted
    <2>. QED
      BY <1>8, <1>9, <2>1, <2>2
  <1>. QED
    BY <1>1, <1>3, <1>4, <1>8, <1>9, <1>10 DEF Passes

LEMMA AnswersStays ==
  ASSUME RpcTypes, Answers
  PROVE  Stays
  <1>1. PICK i \in Nat \ {NoId} : i = serving
    BY DEF RpcTypes, Answers
  <1>. DEFINE f == Only(fetched)
              b == IdsOf(stdin)
              u == Untaken
  <1>2. f \in Seq(Nat) /\ b \in Seq(Nat) /\ u \in Seq(Nat) /\ <<i>> \in Seq(Nat)
    BY PiecesTyped, OneId
  <1>3. IdsOf(stdin') = b \o <<i>>
    <2>1. stdin' = Append(stdin, Result(i)) /\ stdin \in Seq(FrameType("result"))
      BY <1>1 DEF Answers, RpcTypes
    <2>. QED
      BY <2>1, ResultSent, IdsAppended
  <1>4. fetched' = fetched /\ serving' = NoId /\ Untaken' = u
    BY DEF Answers, programVars, Untaken, Writing, IdsOf
  <1>5. Only(serving) = <<i>> /\ Only(serving') = << >> /\ Only(fetched') = f
    BY <1>1, <1>4 DEF Only
  <1>6. /\ UnderWay = ((f \o b) \o <<i>>) \o u
        /\ UnderWay' = ((f \o (b \o <<i>>)) \o << >>) \o u
    BY <1>3, <1>4, <1>5 DEF UnderWay
  <1>. HIDE DEF f, b, u
  <1>7. f \o (b \o <<i>>) = (f \o b) \o <<i>> /\ f \o (b \o <<i>>) \in Seq(Nat)
    <2>1. b \o <<i>> \in Seq(Nat)
      BY <1>2
    <2>. QED
      BY <1>2, <2>1, Joins
  <1>8. (f \o (b \o <<i>>)) \o << >> = f \o (b \o <<i>>)
    BY <1>7, ConcatEmptySeq
  <1>. QED
    BY <1>4, <1>6, <1>7, <1>8 DEF Stays, u

\* A result leaves the pipe for the program.
LEMMA ResultRead ==
  ASSUME RpcTypes, stdin # << >>
  PROVE  /\ Head(stdin).id \in Nat \ {NoId} /\ Tail(stdin) \in Seq(FrameType("result"))
         /\ IdsOf(stdin) = <<Head(stdin).id>> \o IdsOf(Tail(stdin))
         /\ IdsOf(Tail(stdin)) \in Seq(Nat)
  <1>1. stdin \in Seq(FrameType("result"))
    BY DEF RpcTypes
  <1>2. /\ Head(stdin) \in FrameType("result") /\ Tail(stdin) \in Seq(FrameType("result"))
        /\ IdsOf(stdin) = <<Head(stdin).id>> \o IdsOf(Tail(stdin))
    BY <1>1, IdsTail
  <1>. QED
    BY <1>2, IdsTyped DEF FrameType

\* It is the first, when the reader loop holds none.
LEMMA FrontGone ==
  ASSUME RpcTypes, stdin # << >>, fetched = NoId, fetched' \in {NoId, Head(stdin).id},
         stdin' = Tail(stdin), serving' = serving, Untaken' = Untaken
  PROVE  /\ fetched' = NoId => Drops(Head(stdin).id)
         /\ fetched' # NoId => Stays
  <1>1. PICK i \in Nat \ {NoId} : i = Head(stdin).id
    BY ResultRead
  <1>. DEFINE b == IdsOf(Tail(stdin))
              c == Only(serving)
              u == Untaken
  <1>2. /\ b \in Seq(Nat) /\ c \in Seq(Nat) /\ u \in Seq(Nat) /\ <<i>> \in Seq(Nat)
        /\ b \o c \in Seq(Nat) /\ (b \o c) \o u \in Seq(Nat) /\ << >> \in Seq(Nat)
    <2>1. \A x, y \in Seq(Nat) : x \o y \in Seq(Nat)
      OBVIOUS
    <2>. QED
      BY <2>1, ResultRead, PiecesTyped, OneId
  <1>3. IdsOf(stdin) = <<i>> \o b /\ IdsOf(stdin') = b /\ Only(serving') = c
    BY <1>1, ResultRead DEF IdsOf
  <1>4. Only(fetched) = << >>
    BY DEF Only
  <1>5. UnderWay = ((<< >> \o (<<i>> \o b)) \o c) \o u
    BY <1>3, <1>4 DEF UnderWay
  <1>6. UnderWay' = ((Only(fetched)' \o b) \o c) \o u
    BY <1>3 DEF UnderWay
  <1>7. Only(fetched)' = IF fetched' = NoId THEN << >> ELSE <<i>>
    BY <1>1 DEF Only
  <1>. HIDE DEF b, c, u
  <1>8. UnderWay = <<i>> \o ((b \o c) \o u)
    <2>1. << >> \o (<<i>> \o b) = <<i>> \o b
      BY <1>2, ConcatEmptySeq
    <2>2. ((<<i>> \o b) \o c) \o u = <<i>> \o ((b \o c) \o u)
      <3>1. i \in Nat /\ b \in Seq(Nat) /\ c \in Seq(Nat) /\ u \in Seq(Nat)
        BY <1>2
      <3>2. Leads(i, b, c, u)
        BY <3>1, InFront
      <3>. QED
        BY <3>2 DEF Leads
    <2>. QED
      BY <1>5, <2>1, <2>2
  <1>9. CASE fetched' = NoId
    <2>1. << >> \o b = b
      BY <1>2, ConcatEmptySeq
    <2>2. UnderWay' = (b \o c) \o u
      BY <1>6, <1>7, <1>9, <2>1
    <2>. QED
      BY <1>1, <1>2, <1>8, <1>9, <2>2 DEF Drops
  <1>10. CASE fetched' # NoId
    <2>1. UnderWay' = ((<<i>> \o b) \o c) \o u
      BY <1>6, <1>7, <1>10
    <2>2. << >> \o (<<i>> \o b) = <<i>> \o b
      BY <1>2, ConcatEmptySeq
    <2>. QED
      BY <1>5, <1>10, <2>1, <2>2 DEF Stays
  <1>. QED
    BY <1>9, <1>10

\* The reader loop lets go of the answer it holds.
LEMMA HeldGone ==
  ASSUME RpcTypes, fetched' = NoId, stdin' = stdin, serving' = serving, Untaken' = Untaken
  PROVE  IF fetched = NoId THEN Stays ELSE Drops(fetched)
  <1>. DEFINE b == IdsOf(stdin)
              c == Only(serving)
              u == Untaken
  <1>1. IdsOf(stdin') = b /\ Only(serving') = c /\ Only(fetched') = << >>
    BY DEF IdsOf, Only
  <1>2. UnderWay' = ((<< >> \o b) \o c) \o u
    BY <1>1 DEF UnderWay
  <1>3. CASE fetched = NoId
    BY <1>2, <1>3 DEF Stays, UnderWay, Only
  <1>4. CASE fetched # NoId
    <2>1. PICK i \in Nat : i = fetched
      BY DEF RpcTypes
    <2>2. UnderWay = ((<<i>> \o b) \o c) \o u
      BY <1>4, <2>1 DEF UnderWay, Only
    <2>3. /\ b \in Seq(Nat) /\ c \in Seq(Nat) /\ u \in Seq(Nat) /\ <<i>> \in Seq(Nat)
          /\ b \o c \in Seq(Nat)
      <3>1. \A x, y \in Seq(Nat) : x \o y \in Seq(Nat)
        OBVIOUS
      <3>. QED
        BY <2>1, <3>1, PiecesTyped, OneId
    <2>. HIDE DEF b, c, u
    <2>4. << >> \o b = b
      BY <2>3, ConcatEmptySeq
    <2>5. ((<<i>> \o b) \o c) \o u = <<i>> \o ((b \o c) \o u)
      <3>1. i \in Nat /\ b \in Seq(Nat) /\ c \in Seq(Nat) /\ u \in Seq(Nat)
        BY <2>3
      <3>2. Leads(i, b, c, u)
        BY <3>1, InFront
      <3>. QED
        BY <3>2 DEF Leads
    <2>7. UnderWay = <<i>> \o UnderWay' /\ UnderWay' \in Seq(Nat)
      <3>1. UnderWay' = (b \o c) \o u
        BY <1>2, <2>4
      <3>2. UnderWay = <<i>> \o ((b \o c) \o u)
        BY <2>2, <2>5
      <3>3. (b \o c) \o u \in Seq(Nat)
        BY <2>3
      <3>. QED
        BY <3>1, <3>2, <3>3
    <2>. QED
      BY <1>4, <2>1, <2>7 DEF Drops
  <1>. QED
    BY <1>3, <1>4

LEMMA MainGrows ==
  ASSUME RpcTypes, Places, MainCalls
  PROVE  Grows
  <1>1. PICK n \in Nat \ {NoId} : n = count'
    BY DEF MainCalls, NextCallId, RpcTypes, NoId
  <1>2. Writing = << >> /\ Writing' = << >>
    BY DEF MainCalls, Places, Writing
  <1>3. /\ fetched' = fetched /\ stdin' = stdin /\ serving' = serving /\ queue' = queue
        /\ stdout' = Append(stdout, Call(n))
    BY <1>1 DEF MainCalls, supervisorVars
  <1>. DEFINE a == Only(fetched) \o IdsOf(stdin) \o Only(serving)
              q == IdsOf(queue)
              s == IdsOf(stdout)
  <1>4. /\ a \in Seq(Nat) /\ q \in Seq(Nat) /\ s \in Seq(Nat) /\ <<n>> \in Seq(Nat)
        /\ q \o s \in Seq(Nat) /\ (q \o s) \o <<n>> \in Seq(Nat)
    <2>1. \A x, y \in Seq(Nat) : x \o y \in Seq(Nat)
      OBVIOUS
    <2>. QED
      BY <1>1, <2>1, PiecesTyped, OneId
  <1>5. IdsOf(stdout') = s \o <<n>>
    <2>1. stdout \in Seq(FrameType("call"))
      BY DEF RpcTypes
    <2>. QED
      BY <1>3, <2>1, CallSent, IdsAppended
  <1>6. /\ Untaken = (q \o s) \o << >> /\ UnderWay = a \o Untaken
        /\ Untaken' = (q \o (s \o <<n>>)) \o << >> /\ UnderWay' = a \o Untaken'
    BY <1>2, <1>3, <1>5 DEF Untaken, UnderWay, Only, IdsOf
  <1>. HIDE DEF a, q, s
  <1>7. Untaken = q \o s
    BY <1>4, <1>6, ConcatEmptySeq
  <1>8. Untaken' = (q \o s) \o <<n>>
    <2>1. q \o (s \o <<n>>) = (q \o s) \o <<n>>
      BY <1>4, Joins
    <2>. QED
      BY <1>4, <1>6, <2>1, ConcatEmptySeq
  <1>9. a \o ((q \o s) \o <<n>>) = (a \o (q \o s)) \o <<n>>
    BY <1>4, Joins
  <1>. QED
    BY <1>1, <1>6, <1>7, <1>8, <1>9 DEF Grows

-----------------------------------------------------------------------------
(* Types                                                                   *)

LEMMA FutureMade ==
  ASSUME NEW n, n = count', NEW t \in Tasks, CallStarts(t)
  PROVE  /\ DOMAIN futures' = DOMAIN futures \cup {n}
         /\ futures'[n] = "open" /\ \A i \in DOMAIN futures \ {n} : futures'[i] = futures[i]
  BY DEF CallStarts

LEMMA RpcTypesStep == RpcTypes /\ Places /\ [RpcNext]_rpcVars => RpcTypes' /\ Places'
  <1>. SUFFICES ASSUME RpcTypes, Places, [RpcNext]_rpcVars PROVE RpcTypes' /\ Places'
    OBVIOUS
  <1>. USE DEF programVars, supervisorVars
  <1>1. CASE UNCHANGED rpcVars
    BY <1>1 DEF rpcVars, RpcTypes, Places
  <1>2. ASSUME NEW t \in Tasks, CallStarts(t) PROVE RpcTypes' /\ Places'
    <2>1. PICK n \in Nat \ {NoId} : n = count' /\ count <= n
      BY <1>2 DEF CallStarts, NextCallId, RpcTypes, NoId
    <2>2. DOMAIN futures' = DOMAIN futures \cup {n}
      BY <1>2, <2>1, FutureMade
    <2>3. DOMAIN futures' \subseteq 1..count'
      BY <2>1, <2>2 DEF RpcTypes, NoId
    <2>4. pending' \subseteq DOMAIN futures'
      BY <1>2, <2>1, <2>2 DEF CallStarts, RpcTypes
    <2>5. task' = [task EXCEPT ![t] = [at |-> "writing", id |-> n]] /\ holder' = t
      BY <1>2, <2>1 DEF CallStarts
    <2>6. task' \in [Tasks -> TaskType \cup {FreshTask}] /\ task'[t].id = n
      BY <2>5 DEF RpcTypes, TaskType
    <2>7. t # Nobody
      BY AsyncRpcAssumption
    <2>. QED
      BY <1>2, <2>1, <2>3, <2>4, <2>5, <2>6, <2>7 DEF CallStarts, LoopFree, RpcTypes, Places
  <1>3. ASSUME NEW t \in Tasks, CallWritten(t) PROVE RpcTypes' /\ Places'
    <2>1. PICK r : r = [task[t] EXCEPT !.at = "waiting"]
      OBVIOUS
    <2>2. t # Nobody /\ holder = t
      BY <1>3, AsyncRpcAssumption DEF CallWritten
    <2>3. task[t] \in TaskType /\ r \in TaskType
      BY <2>1, <2>2 DEF RpcTypes, TaskType, FreshTask
    <2>4. task' = [task EXCEPT ![t] = r] /\ stdout' = Append(stdout, Call(task[t].id))
      BY <1>3, <2>1 DEF CallWritten
    <2>5. stdout' \in Seq(FrameType("call"))
      <3>1. Call(task[t].id) \in FrameType("call")
        BY <2>3, CallSent DEF TaskType
      <3>. QED
        BY <2>4, <3>1, AppendProperties DEF RpcTypes
    <2>6. task' \in [Tasks -> TaskType \cup {FreshTask}]
      BY <2>3, <2>4 DEF RpcTypes
    <2>. QED
      BY <1>3, <2>2, <2>5, <2>6 DEF CallWritten, RpcTypes, Places
  <1>4. ASSUME NEW t \in Tasks, TaskResumes(t) \/ TaskCancelled(t) PROVE RpcTypes' /\ Places'
    <2>1. PICK at \in {"returned", "failed", "cancelled"} :
            task' = [task EXCEPT ![t].at = at]
      BY <1>4 DEF TaskResumes, TaskCancelled
    <2>2. PICK r : r = [task[t] EXCEPT !.at = at]
      OBVIOUS
    <2>3. task[t] \in TaskType /\ r \in TaskType
      BY <1>4, <2>2 DEF TaskResumes, TaskCancelled, RpcTypes, TaskType, FreshTask
    <2>4. task' = [task EXCEPT ![t] = r] /\ holder = Nobody /\ holder' = Nobody
      BY <1>4, <2>1, <2>2 DEF TaskResumes, TaskCancelled, LoopFree
    <2>5. DOMAIN futures' = DOMAIN futures
      BY <1>4 DEF TaskResumes, TaskCancelled
    <2>6. task' \in [Tasks -> TaskType \cup {FreshTask}]
      BY <2>3, <2>4 DEF RpcTypes
    <2>. QED
      BY <1>4, <2>4, <2>5, <2>6 DEF TaskResumes, TaskCancelled, RpcTypes, Places
  <1>5. CASE Client
    <2>1. CASE ReadStarts
      BY <2>1 DEF ReadStarts, RpcTypes, Places
    <2>2. CASE ReadReturns
      <3>1. Head(stdin).id \in Nat \ {NoId} /\ stdin' \in Seq(FrameType("result"))
        BY <2>2, ResultRead DEF ReadReturns
      <3>. QED
        BY <2>2, <3>1 DEF ReadReturns, RpcTypes, Places
    <2>3. CASE LoopHandles
      <3>1. /\ DOMAIN futures' = DOMAIN futures /\ pending' \subseteq pending /\ fetched' = NoId
            /\ client' \in {client, "poisoned"}
        BY <2>3 DEF LoopHandles, Deliver, Poisons
      <3>2. NoId \in Nat
        BY DEF NoId
      <3>. QED
        BY <2>3, <3>1, <3>2 DEF LoopHandles, LoopFree, RpcTypes, Places
    <2>. QED
      BY <1>5, <2>1, <2>2, <2>3 DEF Client
  <1>6. CASE Main
    <2>0. NoId \in Nat
      BY DEF NoId
    <2>1. CASE ClientStops
      BY <2>0, <2>1 DEF ClientStops, LoopFree, RpcTypes, Places
    <2>2. CASE MainCalls
      <3>1. PICK n \in Nat \ {NoId} : n = count' /\ count <= n
        BY <2>2 DEF MainCalls, NextCallId, RpcTypes, NoId
      <3>2. stdout' \in Seq(FrameType("call"))
        <4>1. stdout' = Append(stdout, Call(n)) /\ Call(n) \in FrameType("call")
          BY <2>2, <3>1, CallSent DEF MainCalls
        <4>. QED
          BY <4>1, AppendProperties DEF RpcTypes
      <3>3. DOMAIN futures' \subseteq 1..count'
        BY <2>2, <3>1 DEF MainCalls, RpcTypes
      <3>. QED
        BY <2>2, <3>1, <3>2, <3>3 DEF MainCalls, RpcTypes, Places
    <2>3. CASE MainReturns
      <3>1. stdin' \in Seq(FrameType("result"))
        BY <2>3, ResultRead DEF MainReturns
      <3>. QED
        BY <2>3, <3>1 DEF MainReturns, RpcTypes, Places
    <2>. QED
      BY <1>6, <2>1, <2>2, <2>3 DEF Main
  <1>7. CASE Supervisor
    <2>1. CASE Pumps
      <3>1. Head(stdout) \in FrameType("call") /\ Tail(stdout) \in Seq(FrameType("call"))
        BY <2>1, IdsTail DEF Pumps, RpcTypes
      <3>2. queue' \in Seq(FrameType("call"))
        BY <2>1, <3>1, AppendProperties DEF Pumps, RpcTypes
      <3>. QED
        BY <2>1, <3>1, <3>2 DEF Pumps, RpcTypes, Places
    <2>2. CASE Takes
      <3>1. Head(queue) \in FrameType("call") /\ Tail(queue) \in Seq(FrameType("call"))
        BY <2>2, IdsTail DEF Takes, RpcTypes
      <3>2. serving' \in Nat
        BY <2>2, <3>1 DEF Takes, RpcTypes, FrameType
      <3>. QED
        BY <2>2, <3>1, <3>2 DEF Takes, RpcTypes, Places
    <2>3. CASE Answers
      <3>1. Result(serving) \in FrameType("result")
        BY <2>3, ResultSent DEF Answers, RpcTypes
      <3>2. stdin' \in Seq(FrameType("result"))
        BY <2>3, <3>1, AppendProperties DEF Answers, RpcTypes
      <3>3. NoId \in Nat
        BY DEF NoId
      <3>. QED
        BY <2>3, <3>2, <3>3 DEF Answers, RpcTypes, Places
    <2>. QED
      BY <1>7, <2>1, <2>2, <2>3 DEF Supervisor
  <1>8. CASE Kills
    BY <1>8 DEF Kills, RpcTypes, Places
  <1>. QED
    BY <1>1, <1>2, <1>3, <1>4, <1>5, <1>6, <1>7, <1>8 DEF RpcNext, RpcOver, TaskStep

LEMMA RpcTypesInit == RpcInit => RpcTypes /\ Places
  <1>. SUFFICES ASSUME RpcInit PROVE RpcTypes /\ Places
    OBVIOUS
  <1>1. /\ count = 0 /\ futures = << >> /\ pending = {} /\ fetched = 0 /\ serving = 0
        /\ stdout = << >> /\ queue = << >> /\ stdin = << >> /\ holder = Nobody
        /\ main = "tasks" /\ client = "running" /\ orphan = FALSE
    BY DEF RpcInit, NoId
  <1>2. task = [t \in Tasks |-> FreshTask]
    BY DEF RpcInit, FreshTask
  <1>3. task \in [Tasks -> TaskType \cup {FreshTask}]
    BY <1>2
  <1>. QED
    BY <1>1, <1>3 DEF RpcTypes, Places, NoId

-----------------------------------------------------------------------------
(* The order of the ids                                                    *)

StreamType ==
  [seen_calls : SUBSET Nat, seen_results : SUBSET Nat, last_call_id : Nat, final_count : {0}]

\* The ids under way ascend up to the last one handed out, and those of the calls the
\* supervisor has yet to take are beyond every one it took.
Order ==
  /\ Ascends(UnderWay) /\ Ascends(Untaken)
  /\ \A k \in DOMAIN UnderWay : UnderWay[k] <= count
  /\ \A k \in DOMAIN Untaken : stream.last_call_id < Untaken[k] /\ Untaken[k] <= count
  /\ stream \in StreamType /\ stream.last_call_id <= count
  /\ \A i \in stream.seen_calls : i <= stream.last_call_id

\* A future that is waited for is registered, and while the reader loop runs its call or
\* its answer is under way.
Awaited ==
  /\ \A i \in DOMAIN futures : futures[i] = "open" => i \in pending
  /\ client = "running" =>
       \A i \in DOMAIN futures : futures[i] = "open" => Holds(UnderWay, i)

RpcInv == RpcTypes /\ Places /\ Order /\ Awaited

\* The first call in the queue is the first of the calls not taken.
LEMMA FirstOfQueue ==
  ASSUME RpcTypes, queue # << >>
  PROVE  /\ Head(queue) \in FrameType("call")
         /\ Head(queue).id \in DOMAIN Untaken \cup {Head(queue).id}
         /\ \E u \in Seq(Nat) : Untaken = <<Head(queue).id>> \o u
  <1>1. /\ Head(queue) \in FrameType("call")
        /\ IdsOf(queue) = <<Head(queue).id>> \o IdsOf(Tail(queue))
        /\ Tail(queue) \in Seq(FrameType("call"))
    BY IdsTail DEF RpcTypes
  <1>2. PICK i \in Nat : i = Head(queue).id
    BY <1>1 DEF FrameType
  <1>. DEFINE q == IdsOf(Tail(queue))
              s == IdsOf(stdout)
              w == Writing
  <1>3. q \in Seq(Nat) /\ s \in Seq(Nat) /\ w \in Seq(Nat) /\ <<i>> \in Seq(Nat)
    BY <1>1, PiecesTyped, IdsTyped, OneId
  <1>4. Untaken = ((<<i>> \o q) \o s) \o w
    BY <1>1, <1>2 DEF Untaken
  <1>. HIDE DEF q, s, w
  <1>5. q \o s \in Seq(Nat) /\ (q \o s) \o w \in Seq(Nat)
    BY <1>3
  <1>6. Untaken = <<i>> \o ((q \o s) \o w)
    <2>1. (<<i>> \o q) \o s = <<i>> \o (q \o s)
      BY <1>3, Joins
    <2>2. (<<i>> \o (q \o s)) \o w = <<i>> \o ((q \o s) \o w)
      BY <1>3, <1>5, Joins
    <2>. QED
      BY <1>4, <2>1, <2>2
  <1>. QED
    BY <1>1, <1>2, <1>5, <1>6

\* Its id is beyond all the supervisor has seen, so that it is accepted.
LEMMA OrderAccepts ==
  ASSUME RpcTypes, Order, queue # << >>
  PROVE  Accepts(stream, Head(queue))
  <1>1. PICK u \in Seq(Nat) : Untaken = <<Head(queue).id>> \o u
    BY FirstOfQueue
  <1>2. PICK i \in Nat \ {NoId} : i = Head(queue).id
    BY FirstOfQueue DEF FrameType
  <1>3. 1 \in DOMAIN (<<i>> \o u) /\ (<<i>> \o u)[1] = i
    OBVIOUS
  <1>4. stream.last_call_id < i
    BY <1>1, <1>2, <1>3 DEF Order
  <1>5. stream.last_call_id \in Nat /\ stream.final_count = 0
    BY DEF Order, StreamType
  <1>6. i \notin stream.seen_calls
    BY <1>4, <1>5 DEF Order
  <1>7. Head(queue).op = "call"
    BY FirstOfQueue DEF FrameType
  <1>. QED
    BY <1>2, <1>4, <1>5, <1>6, <1>7 DEF Accepts, AcceptsCall, Ops

LEMMA OrderStays ==
  ASSUME Order, Stays, count' = count, stream' \in StreamType,
         stream'.last_call_id = stream.last_call_id, stream'.seen_calls = stream.seen_calls
  PROVE  Order'
  BY DEF Order, Stays

LEMMA OrderGrows ==
  ASSUME RpcTypes, Order, Grows, count' = count + 1, stream' = stream
  PROVE  Order'
  <1>1. PICK n \in Nat : n = count' /\ count < n /\ count \in Nat
    BY DEF RpcTypes
  <1>2. /\ UnderWay \in Seq(Nat) /\ Untaken \in Seq(Nat)
        /\ Ascends(UnderWay) /\ Ascends(Untaken) /\ stream.last_call_id \in Nat
    BY PiecesTyped DEF Order, StreamType
  <1>3. UnderWay' = UnderWay \o <<n>> /\ Untaken' = Untaken \o <<n>>
    BY <1>1 DEF Grows
  <1>4. \A x, y \in Nat : x <= count => x < n /\ x <= n
    BY <1>1
  <1>5. /\ \A k \in DOMAIN UnderWay : UnderWay[k] \in Nat
        /\ \A k \in DOMAIN Untaken : Untaken[k] \in Nat
    BY <1>2
  <1>6. /\ \A k \in DOMAIN UnderWay : UnderWay[k] < n /\ UnderWay[k] <= n
        /\ \A k \in DOMAIN Untaken : Untaken[k] < n /\ Untaken[k] <= n
    BY <1>4, <1>5 DEF Order
  <1>7. /\ Ascends(UnderWay')
        /\ \A k \in DOMAIN UnderWay' :
              UnderWay'[k] = n \/ \E j \in DOMAIN UnderWay : UnderWay'[k] = UnderWay[j]
    <2>1. PICK s \in Seq(Nat) : s = UnderWay
      BY <1>2
    <2>2. Ascends(s) /\ \A k \in DOMAIN s : s[k] < n
      BY <1>2, <1>6, <2>1
    <2>3. /\ Ascends(s \o <<n>>)
          /\ \A k \in DOMAIN (s \o <<n>>) :
                (s \o <<n>>)[k] = n \/ \E j \in DOMAIN s : (s \o <<n>>)[k] = s[j]
      BY <2>2, LastAdded
    <2>. QED
      BY <1>3, <2>1, <2>3
  <1>8. /\ Ascends(Untaken')
        /\ \A k \in DOMAIN Untaken' :
              Untaken'[k] = n \/ \E j \in DOMAIN Untaken : Untaken'[k] = Untaken[j]
    <2>1. PICK s \in Seq(Nat) : s = Untaken
      BY <1>2
    <2>2. Ascends(s) /\ \A k \in DOMAIN s : s[k] < n
      BY <1>2, <1>6, <2>1
    <2>3. /\ Ascends(s \o <<n>>)
          /\ \A k \in DOMAIN (s \o <<n>>) :
                (s \o <<n>>)[k] = n \/ \E j \in DOMAIN s : (s \o <<n>>)[k] = s[j]
      BY <2>2, LastAdded
    <2>. QED
      BY <1>3, <2>1, <2>3
  <1>9. \A k \in DOMAIN UnderWay' : UnderWay'[k] <= n
    BY <1>1, <1>6, <1>7
  <1>10. stream.last_call_id <= count /\ stream.last_call_id < n /\ stream.last_call_id <= n
    BY <1>1, <1>2 DEF Order
  <1>11. \A k \in DOMAIN Untaken' : stream.last_call_id < Untaken'[k] /\ Untaken'[k] <= n
    BY <1>1, <1>6, <1>8, <1>10 DEF Order
  <1>. QED
    BY <1>1, <1>7, <1>8, <1>9, <1>10, <1>11 DEF Order

LEMMA OrderDrops ==
  ASSUME NEW x \in Nat, Order, Drops(x), count' = count, stream' = stream
  PROVE  Order'
  <1>1. UnderWay' \in Seq(Nat) /\ UnderWay = <<x>> \o UnderWay' /\ Ascends(UnderWay)
    BY DEF Drops, Order
  <1>2. PICK u \in Seq(Nat) : u = UnderWay'
    BY <1>1
  <1>3. /\ Ascends(u)
        /\ \A k \in DOMAIN u : \E j \in DOMAIN UnderWay : UnderWay[j] = u[k]
    BY <1>1, <1>2, FirstGone
  <1>4. \A k \in DOMAIN u : u[k] <= count
    BY <1>3 DEF Order
  <1>. QED
    BY <1>2, <1>3, <1>4 DEF Order, Drops

LEMMA OrderPasses ==
  ASSUME NEW i \in Nat \ {NoId}, Order, Passes(i), count' = count,
         stream' = Record(stream, Head(queue)), Head(queue).op = "call", Head(queue).id = i
  PROVE  Order'
  <1>1. Untaken' \in Seq(Nat) /\ Untaken = <<i>> \o Untaken' /\ Ascends(Untaken)
    BY DEF Passes, Order
  <1>2. PICK u \in Seq(Nat) : u = Untaken'
    BY <1>1
  <1>3. /\ Ascends(u) /\ \A k \in DOMAIN u : i < u[k]
        /\ \A k \in DOMAIN u : \E j \in DOMAIN Untaken : Untaken[j] = u[k]
    BY <1>1, <1>2, FirstGone
  <1>4. \A k \in DOMAIN u : u[k] <= count
    BY <1>3 DEF Order
  <1>5. 1 \in DOMAIN Untaken /\ Untaken[1] = i
    BY <1>1
  <1>6. stream.last_call_id < i /\ i <= count
    BY <1>5 DEF Order
  <1>7. /\ stream'.last_call_id = i /\ stream'.seen_calls = stream.seen_calls \cup {i}
        /\ stream' \in StreamType
    BY DEF Order, StreamType, Record
  <1>8. \A k \in stream'.seen_calls : k <= i
    BY <1>6, <1>7 DEF Order, StreamType
  <1>. QED
    BY <1>2, <1>3, <1>4, <1>6, <1>7, <1>8 DEF Order, Passes

-----------------------------------------------------------------------------
(* The invariant                                                           *)

\* The rows of ids start empty.
LEMMA RpcInvInit == RpcInit => RpcInv
  <1>. SUFFICES ASSUME RpcInit PROVE RpcInv
    OBVIOUS
  <1>1. RpcTypes /\ Places
    BY RpcTypesInit
  <1>2. /\ fetched = NoId /\ serving = NoId /\ holder = Nobody
        /\ stdin = << >> /\ queue = << >> /\ stdout = << >>
        /\ futures = << >> /\ stream = NewValidator /\ count = 0
    BY DEF RpcInit
  <1>3. Only(fetched) = << >> /\ Only(serving) = << >> /\ Writing = << >>
    BY <1>2 DEF Only, Writing
  <1>4. /\ IdsOf(stdin) = << >> /\ IdsOf(queue) = << >> /\ IdsOf(stdout) = << >>
    <2>1. DOMAIN << >> = {} /\ \A s \in Seq(Nat) : Len(s) = 0 => s = << >>
      OBVIOUS
    <2>2. \A s : s = << >> => IdsOf(s) \in Seq(Nat) /\ Len(IdsOf(s)) = 0
      BY DEF IdsOf
    <2>. QED
      BY <1>2, <2>1, <2>2
  <1>5. Untaken = << >> /\ UnderWay = << >>
    BY <1>3, <1>4 DEF Untaken, UnderWay
  <1>6. DOMAIN << >> = {}
    OBVIOUS
  <1>7. Order
    BY <1>2, <1>5, <1>6 DEF Order, Ascends, NewValidator, StreamType, NoId
  <1>8. Awaited
    BY <1>2, <1>6 DEF Awaited
  <1>. QED
    BY <1>1, <1>7, <1>8 DEF RpcInv

\* No future comes to be waited for, and what is under way stays.
LEMMA AwaitedStays ==
  ASSUME Awaited, pending' = pending, client' \in {client, "stopped"},
         DOMAIN futures' = DOMAIN futures,
         \A i \in DOMAIN futures : futures'[i] = "open" => futures[i] = "open",
         client' = "running" => Stays
  PROVE  Awaited'
  BY DEF Awaited, Stays, Holds

LEMMA CallStartsInv ==
  ASSUME RpcInv, NEW t \in Tasks, CallStarts(t)
  PROVE  Order' /\ Awaited'
  <1>1. PICK n \in Nat : n = count' /\ n = count + 1 /\ count \in Nat
    BY DEF CallStarts, NextCallId, RpcInv, RpcTypes
  <1>2. Grows /\ stream' = stream /\ client' = client /\ pending' = pending \cup {n}
    BY <1>1, StartsGrows DEF RpcInv, CallStarts, supervisorVars
  <1>3. Order'
    BY <1>1, <1>2, OrderGrows DEF RpcInv
  <1>4. /\ DOMAIN futures' = DOMAIN futures \cup {n}
        /\ futures'[n] = "open" /\ \A i \in DOMAIN futures \ {n} : futures'[i] = futures[i]
    BY <1>1, FutureMade
  <1>5. \A y : Holds(UnderWay', y) <=> y = n \/ Holds(UnderWay, y)
    <2>1. PICK s \in Seq(Nat) : s = UnderWay
      BY PiecesTyped DEF RpcInv
    <2>2. Ascends(s) /\ \A k \in DOMAIN s : s[k] < n
      <3>1. \A k \in DOMAIN s : s[k] \in Nat /\ s[k] <= count
        BY <2>1 DEF RpcInv, Order
      <3>. QED
        BY <1>1, <2>1, <3>1 DEF RpcInv, Order
    <2>3. \A y : Holds(s \o <<n>>, y) <=> y = n \/ Holds(s, y)
      BY <2>2, LastAdded
    <2>. QED
      BY <1>1, <1>2, <2>1, <2>3 DEF Grows
  <1>6. Awaited'
    BY <1>2, <1>4, <1>5 DEF Awaited, RpcInv
  <1>. QED
    BY <1>3, <1>6

LEMMA TasksInv ==
  ASSUME RpcInv, NEW t \in Tasks, CallWritten(t) \/ TaskResumes(t) \/ TaskCancelled(t)
  PROVE  Order' /\ Awaited'
  <1>1. Stays
    <2>1. CASE CallWritten(t)
      BY <2>1, WrittenStays DEF RpcInv
    <2>2. CASE TaskResumes(t) \/ TaskCancelled(t)
      <3>1. Writing' = Writing
        BY <2>2 DEF TaskResumes, TaskCancelled, LoopFree, Writing
      <3>. QED
        BY <2>2, <3>1, SamePieces DEF TaskResumes, TaskCancelled, supervisorVars
    <2>. QED
      BY <2>1, <2>2
  <1>2. count' = count /\ stream' = stream /\ pending' = pending /\ client' = client
    BY DEF CallWritten, TaskResumes, TaskCancelled, supervisorVars
  <1>3. /\ DOMAIN futures' = DOMAIN futures
        /\ \A i \in DOMAIN futures : futures'[i] = "open" => futures[i] = "open"
    <2>1. CASE CallWritten(t) \/ TaskResumes(t)
      BY <2>1 DEF CallWritten, TaskResumes
    <2>2. CASE TaskCancelled(t)
      BY <2>2 DEF TaskCancelled
    <2>. QED
      BY <2>1, <2>2
  <1>4. Order'
    BY <1>1, <1>2, OrderStays DEF RpcInv, Order
  <1>5. Awaited'
    BY <1>1, <1>2, <1>3, AwaitedStays DEF RpcInv
  <1>. QED
    BY <1>4, <1>5

\* An id that is let go of and that no open future bears is missed by nobody.
LEMMA AwaitedDrops ==
  ASSUME RpcInv, NEW x \in Nat, Drops(x), client' \in {client, "poisoned", "stopped"},
         DOMAIN futures' = DOMAIN futures,
         \A i \in DOMAIN futures :
            futures'[i] = "open" => futures[i] = "open" /\ i \in pending' /\ i # x
  PROVE  Awaited'
  <1>1. PICK u \in Seq(Nat) : u = UnderWay' /\ UnderWay = <<x>> \o u
    BY DEF Drops
  <1>2. \A y : Holds(UnderWay, y) <=> y = x \/ Holds(u, y)
    BY <1>1, FirstGone DEF RpcInv, Order
  <1>. QED
    BY <1>1, <1>2 DEF RpcInv, Awaited

LEMMA ClientInv ==
  ASSUME RpcInv, Client
  PROVE  Order' /\ Awaited'
  <1>. USE DEF supervisorVars
  <1>1. CASE ReadStarts
    <2>1. Stays
      BY <1>1, SamePieces DEF ReadStarts, Writing
    <2>. QED
      BY <1>1, <2>1, OrderStays, AwaitedStays DEF ReadStarts, RpcInv, Order
  <1>2. CASE ReadReturns
    <2>1. /\ stdin # << >> /\ stdin' = Tail(stdin) /\ serving' = serving /\ Untaken' = Untaken
          /\ count' = count /\ stream' = stream /\ futures' = futures /\ pending' = pending
          /\ client' = client /\ fetched' \in {NoId, Head(stdin).id}
          /\ fetched' = NoId => client = "stopped"
      <3>1. Untaken' = Untaken
        BY <1>2 DEF ReadReturns, Untaken, Writing, IdsOf
      <3>2. /\ fetched' \in {NoId, Head(stdin).id} /\ (fetched' = NoId => client = "stopped")
            /\ stdin # << >>
        <4>1. CASE orphan /\ UNCHANGED <<read, fetched>>
          BY <1>2, <4>1 DEF ReadReturns, RpcInv, Places
        <4>2. CASE fetched' = Head(stdin).id
          BY <1>2, <4>2, ResultRead DEF ReadReturns, RpcInv
        <4>. QED
          BY <1>2, <4>1, <4>2 DEF ReadReturns
      <3>. QED
        BY <1>2, <3>1, <3>2 DEF ReadReturns
    <2>2. fetched = NoId
      BY <1>2 DEF ReadReturns, RpcInv, Places
    <2>3. CASE fetched' = NoId
      <3>1. PICK x \in Nat : x = Head(stdin).id
        BY <2>1, ResultRead DEF RpcInv
      <3>2. Drops(x)
        BY <2>1, <2>2, <2>3, <3>1, FrontGone DEF RpcInv
      <3>3. Order'
        BY <2>1, <3>2, OrderDrops DEF RpcInv
      <3>4. Awaited'
        BY <2>1, <2>3 DEF RpcInv, Awaited
      <3>. QED
        BY <3>3, <3>4
    <2>4. CASE fetched' # NoId
      <3>1. Stays
        BY <2>1, <2>2, <2>4, FrontGone DEF RpcInv
      <3>. QED
        BY <2>1, <3>1, OrderStays, AwaitedStays DEF RpcInv, Order
    <2>. QED
      BY <2>3, <2>4
  <1>3. CASE LoopHandles
    <2>1. /\ fetched' = NoId /\ stdin' = stdin /\ serving' = serving /\ count' = count
          /\ stream' = stream
      BY <1>3 DEF LoopHandles
    <2>2. Untaken' = Untaken
      BY <1>3 DEF LoopHandles, Untaken, Writing, IdsOf
    <2>3. PICK x \in Nat : x = fetched
      BY DEF RpcInv, RpcTypes
    <2>4. /\ DOMAIN futures' = DOMAIN futures /\ client' \in {client, "poisoned", "stopped"}
          /\ \A i \in DOMAIN futures :
               futures'[i] = "open" => futures[i] = "open" /\ i \in pending' /\ i # x
      <3>0. \A i \in DOMAIN futures : futures[i] = "open" => i \in pending
        BY DEF RpcInv, Awaited
      <3>1. CASE fetched \notin pending
        BY <1>3, <2>3, <3>0, <3>1 DEF LoopHandles
      <3>2. CASE fetched \in pending /\ futures[fetched] = "open"
        <4>1. Deliver(fetched)
          BY <1>3, <3>2 DEF LoopHandles
        <4>. QED
          BY <2>3, <3>0, <3>2, <4>1 DEF Deliver
      <3>3. CASE fetched \in pending /\ futures[fetched] # "open"
        <4>1. Poisons
          BY <1>3, <3>3 DEF LoopHandles
        <4>. QED
          BY <2>3, <3>0, <3>3, <4>1 DEF Poisons
      <3>. QED
        BY <3>1, <3>2, <3>3
    <2>5. IF fetched = NoId THEN Stays ELSE Drops(fetched)
      BY <2>1, <2>2, HeldGone DEF RpcInv
    <2>6. CASE fetched = NoId
      <3>1. Order'
        BY <2>1, <2>5, <2>6, OrderStays DEF RpcInv, Order
      <3>2. Awaited'
        BY <2>4, <2>5, <2>6 DEF RpcInv, Awaited, Stays
      <3>. QED
        BY <3>1, <3>2
    <2>7. CASE fetched # NoId
      <3>1. Drops(x)
        BY <2>3, <2>5, <2>7
      <3>. QED
        BY <2>1, <2>4, <3>1, OrderDrops, AwaitedDrops DEF RpcInv
    <2>. QED
      BY <2>6, <2>7
  <1>. QED
    BY <1>1, <1>2, <1>3 DEF Client

LEMMA MainInv ==
  ASSUME RpcInv, Main
  PROVE  Order' /\ Awaited'
  <1>. USE DEF supervisorVars
  <1>1. CASE ClientStops
    <2>1. /\ fetched' = NoId /\ stdin' = stdin /\ serving' = serving /\ count' = count
          /\ stream' = stream /\ futures' = futures /\ pending' = pending /\ client' = "stopped"
      BY <1>1 DEF ClientStops
    <2>2. Untaken' = Untaken
      BY <1>1 DEF ClientStops, Untaken, Writing, IdsOf
    <2>3. IF fetched = NoId THEN Stays ELSE Drops(fetched)
      BY <2>1, <2>2, HeldGone DEF RpcInv
    <2>4. PICK x \in Nat : x = fetched
      BY DEF RpcInv, RpcTypes
    <2>5. Order'
      <3>1. CASE fetched = NoId
        BY <2>1, <2>3, <3>1, OrderStays DEF RpcInv, Order
      <3>2. CASE fetched # NoId
        BY <2>1, <2>3, <2>4, <3>2, OrderDrops DEF RpcInv
      <3>. QED
        BY <3>1, <3>2
    <2>6. Awaited'
      BY <2>1 DEF RpcInv, Awaited
    <2>. QED
      BY <2>5, <2>6
  <1>2. CASE MainCalls
    <2>1. Grows
      BY <1>2, MainGrows DEF RpcInv
    <2>2. count' = count + 1 /\ stream' = stream
      BY <1>2 DEF MainCalls, NextCallId
    <2>3. Order'
      BY <2>1, <2>2, OrderGrows DEF RpcInv
    <2>4. futures' = futures /\ pending' = pending /\ client' = "stopped"
      BY <1>2 DEF MainCalls, RpcInv, Places
    <2>5. Awaited'
      BY <2>4 DEF RpcInv, Awaited
    <2>. QED
      BY <2>3, <2>5
  <1>3. CASE MainReturns
    <2>1. /\ stdin # << >> /\ stdin' = Tail(stdin) /\ serving' = serving /\ count' = count
          /\ stream' = stream /\ futures' = futures /\ pending' = pending
          /\ client' = "stopped" /\ fetched = NoId /\ fetched' = NoId
      BY <1>3 DEF MainReturns, RpcInv, Places
    <2>2. Untaken' = Untaken
      BY <1>3 DEF MainReturns, Untaken, Writing, IdsOf
    <2>3. PICK x \in Nat : x = Head(stdin).id
      BY <2>1, ResultRead DEF RpcInv
    <2>4. Drops(x)
      BY <2>1, <2>2, <2>3, FrontGone DEF RpcInv
    <2>5. Order'
      BY <2>1, <2>4, OrderDrops DEF RpcInv
    <2>6. Awaited'
      BY <2>1 DEF RpcInv, Awaited
    <2>. QED
      BY <2>5, <2>6
  <1>. QED
    BY <1>1, <1>2, <1>3 DEF Main

LEMMA SupervisorInv ==
  ASSUME RpcInv, Supervisor
  PROVE  Order' /\ Awaited'
  <1>. USE DEF programVars
  <1>0. /\ count' = count /\ futures' = futures /\ pending' = pending /\ client' = client
    BY DEF Supervisor, Pumps, Takes, Answers
  <1>1. CASE Pumps
    <2>1. Stays /\ stream' = stream
      BY <1>1, PumpsStays DEF Pumps, RpcInv
    <2>. QED
      BY <1>0, <2>1, OrderStays, AwaitedStays DEF RpcInv, Order
  <1>2. CASE Takes
    <2>1. queue # << >>
      BY <1>2 DEF Takes
    <2>2. Accepts(stream, Head(queue))
      BY <2>1, OrderAccepts DEF RpcInv
    <2>3. PICK i \in Nat \ {NoId} : i = Head(queue).id
      BY <2>1, FirstOfQueue DEF RpcInv, FrameType
    <2>4. Head(queue).op = "call"
      BY <2>1, FirstOfQueue DEF RpcInv, FrameType
    <2>5. Passes(i) /\ stream' = Record(stream, Head(queue))
      BY <1>2, <2>2, <2>3, TakesPasses DEF Takes, RpcInv
    <2>6. Order'
      BY <1>0, <2>3, <2>4, <2>5, OrderPasses DEF RpcInv
    <2>7. Awaited'
      BY <1>0, <2>5 DEF Passes, RpcInv, Awaited
    <2>. QED
      BY <2>6, <2>7
  <1>3. CASE Answers
    <2>1. Stays /\ stream' = Record(stream, Result(serving))
      BY <1>3, AnswersStays DEF Answers, RpcInv
    <2>2. PICK i \in Nat \ {NoId} : i = serving
      BY <1>3 DEF Answers, RpcInv, RpcTypes
    <2>3. /\ stream' \in StreamType /\ stream'.last_call_id = stream.last_call_id
          /\ stream'.seen_calls = stream.seen_calls
      BY <2>1, <2>2 DEF Record, Result, RpcInv, Order, StreamType
    <2>. QED
      BY <1>0, <2>1, <2>3, OrderStays, AwaitedStays DEF RpcInv
  <1>. QED
    BY <1>1, <1>2, <1>3 DEF Supervisor

LEMMA RpcInvStep == RpcInv /\ [RpcNext]_rpcVars => RpcInv'
  <1>. SUFFICES ASSUME RpcInv, [RpcNext]_rpcVars PROVE RpcInv'
    OBVIOUS
  <1>1. RpcTypes' /\ Places'
    BY RpcTypesStep DEF RpcInv
  <1>2. Order' /\ Awaited'
    <2>1. CASE UNCHANGED rpcVars \/ Kills
      <3>1. /\ UNCHANGED programVars /\ stdin' = stdin /\ stdout' = stdout /\ queue' = queue
            /\ serving' = serving /\ stream' = stream
        BY <2>1 DEF rpcVars, supervisorVars, Kills
      <3>2. Stays
        BY <3>1, SamePieces DEF programVars, Writing
      <3>. QED
        BY <3>1, <3>2, OrderStays, AwaitedStays DEF programVars, RpcInv, Order
    <2>2. ASSUME NEW t \in Tasks, TaskStep(t) \/ TaskCancelled(t) PROVE Order' /\ Awaited'
      BY <2>2, CallStartsInv, TasksInv DEF TaskStep
    <2>3. CASE Client
      BY <2>3, ClientInv
    <2>4. CASE Main
      BY <2>4, MainInv
    <2>5. CASE Supervisor
      BY <2>5, SupervisorInv
    <2>. QED
      BY <2>1, <2>2, <2>3, <2>4, <2>5 DEF RpcNext, RpcOver
  <1>. QED
    BY <1>1, <1>2 DEF RpcInv

LEMMA RpcAlways == RpcSpec => []RpcInv
  BY RpcInvInit, RpcInvStep, PTL DEF RpcSpec

-----------------------------------------------------------------------------
(* The theorems                                                            *)

\* Through two pipes, a queue, a thread and an event loop, whatever their sizes and
\* however many tasks call at once, ids go one way round in order, and the call or the
\* answer of whatever is waited for is under way (AsyncRpcClient in
\* pirml/runtime/rpc.py, _pump in pirml/runtime/exec.py).
THEOREM NoAnswerIsLost == RpcSpec => []RoundTrip
  <1>1. RpcInv => RoundTrip
    BY DEF RpcInv, Order, Awaited, Ascends, Holds, RoundTrip
  <1>. QED
    BY <1>1, RpcAlways, PTL

\* The supervisor accepts each call in turn: ids are handed out and written in one
\* order (next_call_id and AsyncRpcClient.call in pirml/runtime/rpc.py).
THEOREM HelpersNeverMakeFatal == RpcSpec => []CallsAccepted
  <1>1. RpcInv => CallsAccepted
    BY OrderAccepts DEF RpcInv, CallsAccepted
  <1>. QED
    BY <1>1, RpcAlways, PTL

\* The late answer that ends the reader loop leaves no future open: each that was
\* open was registered, and gets the exception (AsyncRpcClient._read_loop in
\* pirml/runtime/rpc.py).
THEOREM PoisonLeavesNobody == RpcSpec => PoisonWakesWaiters
  <1>. DEFINE Wakes == client' = "poisoned" /\ client # "poisoned" =>
                         \A i \in DOMAIN futures' : futures'[i] # "open"
  <1>1. RpcInv /\ [RpcNext]_rpcVars => [Wakes]_rpcVars
    <2>. SUFFICES ASSUME RpcInv, RpcNext, client' = "poisoned", client # "poisoned"
                  PROVE  \A i \in DOMAIN futures' : futures'[i] # "open"
      OBVIOUS
    <2>1. LoopHandles
      BY DEF RpcNext, TaskStep, CallStarts, CallWritten, TaskResumes, TaskCancelled, Client,
             ReadStarts, ReadReturns, Main, ClientStops, MainCalls, MainReturns, Supervisor,
             Pumps, Takes, Answers, Kills, RpcOver, rpcVars, programVars
    <2>2. Poisons
      BY <2>1 DEF LoopHandles, Deliver
    <2>. QED
      BY <2>2 DEF Poisons, RpcInv, Awaited
  <1>. QED
    BY <1>1, RpcAlways, PTL DEF RpcSpec, PoisonWakesWaiters

-----------------------------------------------------------------------------
(* Recursion                                                               *)

\* What holds of 0 and passes on holds up to n.
LEMMA UpTo ==
  ASSUME NEW n \in Nat, NEW S, 0 \in S, \A k \in 1..n : k - 1 \in S => k \in S
  PROVE  0..n \subseteq S
  <1>. SUFFICES ASSUME NEW i \in 0..n, i \notin S PROVE FALSE
    OBVIOUS
  <1>. DEFINE B == {k \in 0..n : k \notin S}
  <1>1. B \subseteq Nat /\ i \in B
    OBVIOUS
  <1>2. \A k \in 0..n : k \notin B => k \in S
    OBVIOUS
  <1>3. B \subseteq 0..n /\ \A k \in B : k \notin S
    OBVIOUS
  <1>. HIDE DEF B
  <1>. DEFINE R == {p \in Nat \X Nat : p[1] < p[2]}
  <1>0. IsWellFoundedOn(R, Nat)
    BY NatLessThanWellFounded, Zenon DEF OpToRel
  <1>. HIDE DEF R
  <1>4. PICK m \in B : \A k \in B : <<k, m>> \notin R
    BY <1>0, <1>1, WFMin
  <1>5. m \in 0..n /\ m \notin S /\ m \in Nat
    BY <1>3, <1>4
  <1>6. \A k \in 0..n : k < m => k \in S
    <2>. TAKE k \in 0..n
    <2>. HAVE k < m
    <2>1. <<k, m>> \in R
      BY <1>5 DEF R
    <2>. QED
      BY <1>2, <1>4, <2>1
  <1>7. m - 1 \in 0..n /\ m - 1 < m /\ m \in 1..n
    BY <1>5
  <1>. QED
    BY <1>5, <1>6, <1>7

\* f begins with base and takes a step to each next value.
Follows(f, base, step, n) ==
  f[0] = base /\ \A k \in 1..n : f[k] = step[<<f[k - 1], k>>]

LEMMA Recursion ==
  ASSUME NEW T, NEW base \in T, NEW n \in Nat, NEW step \in [T \X (1..n) -> T]
  PROVE  \E f \in [0..n -> T] : Follows(f, base, step, n)
  <1>. DEFINE S == {k \in 0..n : \E f \in [0..k -> T] : Follows(f, base, step, k)}
  <1>1. 0 \in S
    <2>. DEFINE f == [i \in 0..0 |-> base]
    <2>1. f \in [0..0 -> T] /\ Follows(f, base, step, 0)
      BY DEF Follows
    <2>. HIDE DEF f
    <2>. QED
      BY <2>1
  <1>2. ASSUME NEW k \in 1..n, k - 1 \in S PROVE k \in S
    <2>1. PICK f \in [0..(k - 1) -> T] : Follows(f, base, step, k - 1)
      BY <1>2
    <2>2. k - 1 \in 0..(k - 1) /\ f[k - 1] \in T /\ step[<<f[k - 1], k>>] \in T
      BY <2>1
    <2>. DEFINE g == [i \in 0..k |-> IF i = k THEN step[<<f[k - 1], k>>] ELSE f[i]]
    <2>3. \A i \in 0..k : g[i] = IF i = k THEN step[<<f[k - 1], k>>] ELSE f[i]
      OBVIOUS
    <2>4. g \in [0..k -> T]
      BY <2>1, <2>2
    <2>. HIDE DEF g
    <2>5. g[0] = base
      BY <2>1, <2>3 DEF Follows
    <2>6. \A i \in 1..k : g[i] = step[<<g[i - 1], i>>]
      <3>. TAKE i \in 1..k
      <3>1. i - 1 \in 0..k /\ i - 1 # k /\ g[i - 1] = f[i - 1]
        BY <2>3
      <3>2. CASE i = k
        <4>0. k \in 0..k
          OBVIOUS
        <4>1. g[k] = step[<<f[k - 1], k>>]
          BY <2>3, <4>0
        <4>2. g[k - 1] = f[k - 1]
          BY <3>1, <3>2
        <4>. QED
          BY <3>2, <4>1, <4>2
      <3>3. CASE i # k
        <4>1. i \in 1..(k - 1) /\ g[i] = f[i]
          BY <2>3, <3>3
        <4>2. f[i] = step[<<f[i - 1], i>>]
          BY <2>1, <4>1 DEF Follows
        <4>. QED
          BY <3>1, <4>1, <4>2
      <3>. QED
        BY <3>2, <3>3
    <2>7. Follows(g, base, step, k)
      BY <2>5, <2>6 DEF Follows
    <2>. QED
      BY <2>4, <2>7
  <1>. HIDE DEF S
  <1>3. n \in S
    BY <1>1, <1>2, UpTo
  <1>. QED
    BY <1>3 DEF S

-----------------------------------------------------------------------------
(* The source of a replay                                                  *)

Lines == Drift \cup UNION {ToSet(s) : s \in Scripts}
LineIds == {l.id : l \in Lines} \cup {NoId}
TraceFrame == [op : Ops, id : LineIds, dir : {"in", "out"}, seq : Nat]
RowType == [id : LineIds, tool : {l.tool : l \in Lines}, answer : {"ok", "error"}]

\* The calls of the source ascend, and its rows are the answers of the first ones.
SourceOK ==
  /\ script \in Scripts
  /\ Len(source.calls) \in Nat /\ DOMAIN source.calls = 1..Len(source.calls)
  /\ \A k \in DOMAIN source.calls : source.calls[k] \in Nat
  /\ \A j, k \in DOMAIN source.calls : j < k => source.calls[j] < source.calls[k]
  /\ \A k \in DOMAIN source.rows :
       /\ k \in DOMAIN source.calls /\ source.rows[k].id = source.calls[k]
       /\ source.rows[k].answer \in {"ok", "error"}
  /\ source.final.rows = source.rows

\* What a live run of s is made of.
LiveType(s) == [frames : Seq(TraceFrame), calls : Seq(ToSet(s))]

LEMMA ScriptLines ==
  ASSUME NEW s \in Scripts
  PROVE  /\ s \in Seq(ToSet(s)) /\ Len(s) \in Nat /\ DOMAIN s = 1..Len(s)
         /\ \A k \in 1..Len(s) : s[k] \in ToSet(s)
         /\ \A l \in ToSet(s) :
              l \in Lines /\ l.id \in Nat /\ l.id \in LineIds /\ l.op \in {"call", "custom", "final"}
  <1>1. s \in Seq(ToSet(s))
    BY ReplayAssumption
  <1>2. Len(s) \in Nat /\ DOMAIN s = 1..Len(s) /\ \A k \in 1..Len(s) : s[k] \in ToSet(s)
    BY <1>1
  <1>3. \A l \in ToSet(s) : l \in Lines
    BY DEF Lines
  <1>4. \A l \in ToSet(s) : l.id \in Nat /\ l.op \in {"call", "custom", "final"}
    BY ReplayAssumption DEF ToSet
  <1>. QED
    BY <1>1, <1>2, <1>3, <1>4 DEF LineIds

LEMMA ExchangeTyped ==
  ASSUME NEW s \in Scripts, NEW run \in LiveType(s), NEW l \in ToSet(s)
  PROVE  Exchange(run, l) \in LiveType(s)
  <1>1. PICK n \in Nat : n = Len(run.frames)
    BY DEF LiveType
  <1>2. /\ Frame(l.op, l.id, "in", n + 1) \in TraceFrame
        /\ l.op = "call" => Frame("call", l.id, "in", n + 1) \in TraceFrame
        /\ Frame("result", l.id, "out", n + 2) \in TraceFrame
    BY ScriptLines DEF Frame, TraceFrame, Ops
  <1>3. run.frames \in Seq(TraceFrame) /\ run.calls \in Seq(ToSet(s))
    BY DEF LiveType
  <1>4. CASE l.op = "call"
    <2>. DEFINE two == <<Frame("call", l.id, "in", n + 1), Frame("result", l.id, "out", n + 2)>>
    <2>1. two \in Seq(TraceFrame)
      BY <1>2, <1>4
    <2>2. Exchange(run, l) = [frames |-> run.frames \o two, calls |-> Append(run.calls, l)]
      BY <1>1, <1>4 DEF Exchange
    <2>. HIDE DEF two
    <2>3. run.frames \o two \in Seq(TraceFrame) /\ Append(run.calls, l) \in Seq(ToSet(s))
      BY <1>3, <2>1
    <2>. QED
      BY <2>2, <2>3 DEF LiveType
  <1>5. CASE l.op # "call"
    BY <1>1, <1>2, <1>3, <1>5 DEF Exchange, LiveType
  <1>. QED
    BY <1>4, <1>5

LEMMA ExchangeCalls ==
  ASSUME NEW run, NEW l
  PROVE  Exchange(run, l).calls = IF l.op = "call" THEN Append(run.calls, l) ELSE run.calls
  <1>1. CASE l.op = "call"
    <2>. DEFINE fs == run.frames \o <<Frame("call", l.id, "in", Len(run.frames) + 1),
                                      Frame("result", l.id, "out", Len(run.frames) + 2)>>
                cs == Append(run.calls, l)
    <2>1. Exchange(run, l) = [frames |-> fs, calls |-> cs]
      BY <1>1 DEF Exchange
    <2>. HIDE DEF fs, cs
    <2>2. Exchange(run, l).calls = cs
      BY <2>1
    <2>. QED
      BY <1>1, <2>2 DEF cs
  <1>2. CASE l.op # "call"
    BY <1>2 DEF Exchange
  <1>. QED
    BY <1>1, <1>2

\* A live run goes line by line.
LEMMA ExchangedUnrolls ==
  ASSUME NEW s \in Scripts
  PROVE  /\ Exchanged(s)[0] = [frames |-> << >>, calls |-> << >>]
         /\ \A n \in 1..Len(s) : Exchanged(s)[n] = Exchange(Exchanged(s)[n - 1], s[n])
         /\ \A n \in 0..Len(s) : Exchanged(s)[n] \in LiveType(s)
  <1>. DEFINE none == [frames |-> << >>, calls |-> << >>]
              step == [p \in LiveType(s) \X (1..Len(s)) |-> Exchange(p[1], s[p[2]])]
              E(f) == f = [n \in 0..Len(s) |-> IF n = 0 THEN none ELSE Exchange(f[n - 1], s[n])]
  <1>1. Len(s) \in Nat /\ \A k \in 1..Len(s) : s[k] \in ToSet(s)
    BY ScriptLines
  <1>2. none \in LiveType(s)
    BY DEF LiveType
  <1>3. step \in [LiveType(s) \X (1..Len(s)) -> LiveType(s)]
    <2>1. ASSUME NEW p \in LiveType(s) \X (1..Len(s)) PROVE Exchange(p[1], s[p[2]]) \in LiveType(s)
      BY <1>1, ExchangeTyped
    <2>. QED
      BY <2>1
  <1>4. \A r \in LiveType(s), n \in 1..Len(s) : step[<<r, n>>] = Exchange(r, s[n])
    OBVIOUS
  <1>. HIDE DEF step, none
  <1>5. PICK f \in [0..Len(s) -> LiveType(s)] : Follows(f, none, step, Len(s))
    BY <1>1, <1>2, <1>3, Recursion
  <1>6. E(f)
    <2>1. ASSUME NEW n \in 1..Len(s) PROVE f[n] = Exchange(f[n - 1], s[n])
      <3>1. f[n - 1] \in LiveType(s)
        BY <1>1
      <3>. QED
        BY <1>4, <1>5, <3>1 DEF Follows
    <2>2. \A n \in 0..Len(s) : f[n] = IF n = 0 THEN none ELSE Exchange(f[n - 1], s[n])
      BY <1>1, <1>5, <2>1 DEF Follows
    <2>. QED
      BY <2>2
  <1>7. Exchanged(s) = CHOOSE g : E(g)
    BY DEF Exchanged, none
  <1>. HIDE DEF E
  <1>8. E(Exchanged(s))
    BY <1>6, <1>7
  <1>9. /\ Exchanged(s)[0] = none
        /\ \A n \in 1..Len(s) : Exchanged(s)[n] = Exchange(Exchanged(s)[n - 1], s[n])
    BY <1>1, <1>8 DEF E
  <1>. DEFINE S == {n \in 0..Len(s) : Exchanged(s)[n] \in LiveType(s)}
  <1>10. 0..Len(s) \subseteq S
    <2>1. 0 \in S
      BY <1>1, <1>2, <1>9
    <2>2. \A k \in 1..Len(s) : k - 1 \in S => k \in S
      BY <1>1, <1>9, ExchangeTyped
    <2>. HIDE DEF S
    <2>. QED
      BY <1>1, <2>1, <2>2, UpTo
  <1>. QED
    BY <1>9, <1>10 DEF none

\* The calls of the lines up to n are calls of the script, in its order.
LEMMA CallsSoFar ==
  ASSUME NEW s \in Scripts, NEW n \in 0..Len(s), NEW c, c = Exchanged(s)[n].calls
  PROVE  /\ c \in Seq(ToSet(s)) /\ Len(c) \in Nat /\ DOMAIN c = 1..Len(c)
         /\ \A i \in 1..Len(c) : \E k \in 1..n : s[k].op = "call" /\ c[i] = s[k]
         /\ \A i, j \in 1..Len(c) : i < j => c[i].id < c[j].id
  <1>. DEFINE C(m) == Exchanged(s)[m].calls
              Of(m) == \A i \in 1..Len(C(m)) : \E k \in 1..m : s[k].op = "call" /\ C(m)[i] = s[k]
              Up(m) == \A i, j \in 1..Len(C(m)) : i < j => C(m)[i].id < C(m)[j].id
              S == {m \in 0..Len(s) : Of(m) /\ Up(m)}
  <1>1. Len(s) \in Nat /\ DOMAIN s = 1..Len(s) /\ \A l \in ToSet(s) : l.id \in Nat
    BY ScriptLines
  <1>2. \A m \in 0..Len(s) : C(m) \in Seq(ToSet(s))
    BY ExchangedUnrolls DEF LiveType
  <1>3. 0 \in S
    <2>1. C(0) = << >> /\ Len(C(0)) = 0
      BY ExchangedUnrolls
    <2>. QED
      BY <1>1, <2>1
  <1>4. ASSUME NEW k \in 1..Len(s), k - 1 \in S PROVE k \in S
    <2>1. /\ Exchanged(s)[k] = Exchange(Exchanged(s)[k - 1], s[k])
          /\ C(k - 1) \in Seq(ToSet(s)) /\ k - 1 \in 0..Len(s) /\ k \in 0..Len(s)
      BY <1>1, <1>2, ExchangedUnrolls
    <2>2. Of(k - 1) /\ Up(k - 1)
      BY <1>4
    <2>3. CASE s[k].op # "call"
      <3>1. C(k) = C(k - 1)
        BY <2>1, <2>3, ExchangeCalls
      <3>2. Of(k) /\ Up(k)
        BY <2>1, <2>2, <3>1
      <3>. QED
        BY <2>1, <3>2
    <2>4. CASE s[k].op = "call"
      <3>1. C(k) = Append(C(k - 1), s[k])
        <4>1. Exchange(Exchanged(s)[k - 1], s[k]).calls = Append(Exchanged(s)[k - 1].calls, s[k])
          BY <2>4, ExchangeCalls
        <4>. QED
          BY <2>1, <4>1
      <3>2. PICK d : d = C(k - 1)
        OBVIOUS
      <3>3. PICK e : e = C(k)
        OBVIOUS
      <3>4. s[k] \in ToSet(s)
        BY ScriptLines
      <3>5. /\ Len(d) \in Nat /\ Len(e) = Len(d) + 1 /\ e[Len(d) + 1] = s[k]
            /\ \A i \in 1..Len(d) : e[i] = d[i]
        <4>1. d \in Seq(ToSet(s)) /\ e = Append(d, s[k])
          BY <2>1, <3>1, <3>2, <3>3
        <4>2. Len(d) \in Nat
          BY <4>1
        <4>. HIDE DEF C
        <4>. QED
          BY <3>4, <4>1, <4>2, AppendProperties
      <3>. HIDE DEF C
      <3>6. \A i \in 1..Len(d) : \E m \in 1..(k - 1) : s[m].op = "call" /\ d[i] = s[m]
        BY <2>2, <3>2
      <3>7. Of(k)
        <4>1. ASSUME NEW i \in 1..Len(e) PROVE \E m \in 1..k : s[m].op = "call" /\ e[i] = s[m]
          <5>1. CASE i = Len(d) + 1
            BY <2>4, <3>5, <5>1
          <5>2. CASE i # Len(d) + 1
            <6>1. i \in 1..Len(d)
              BY <3>5, <5>2
            <6>2. PICK m \in 1..(k - 1) : s[m].op = "call" /\ d[i] = s[m]
              BY <3>6, <6>1
            <6>. QED
              BY <3>5, <6>1, <6>2
          <5>. QED
            BY <5>1, <5>2
        <4>. QED
          BY <3>3, <4>1
      <3>8. \A i \in 1..Len(d) : d[i].id \in Nat /\ d[i].id < s[k].id
        <4>. TAKE i \in 1..Len(d)
        <4>1. PICK m \in 1..(k - 1) : s[m].op = "call" /\ d[i] = s[m]
          BY <3>6
        <4>2. m \in DOMAIN s /\ k \in DOMAIN s /\ m < k
          BY <1>1
        <4>3. s[m].id < s[k].id
          BY <2>4, <4>1, <4>2, ReplayAssumption
        <4>4. s[m].id \in Nat
          BY <4>2, ReplayAssumption
        <4>. QED
          BY <4>1, <4>3, <4>4
      <3>9. Up(k)
        <4>1. \A i, j \in 1..Len(d) : i < j => d[i].id < d[j].id
          BY <2>2, <3>2
        <4>2. ASSUME NEW i \in 1..Len(e), NEW j \in 1..Len(e), i < j PROVE e[i].id < e[j].id
          <5>1. i \in 1..Len(d)
            BY <3>5, <4>2
          <5>2. CASE j = Len(d) + 1
            BY <3>5, <3>8, <5>1, <5>2
          <5>3. CASE j # Len(d) + 1
            <6>1. j \in 1..Len(d)
              BY <3>5, <5>3
            <6>. QED
              BY <3>5, <4>1, <4>2, <5>1, <6>1
          <5>. QED
            BY <5>2, <5>3
        <4>. QED
          BY <3>3, <4>2
      <3>. QED
        BY <2>1, <3>7, <3>9
    <2>. QED
      BY <2>3, <2>4
  <1>. HIDE DEF S, C
  <1>5. n \in S
    BY <1>1, <1>3, <1>4, UpTo
  <1>. QED
    BY <1>2, <1>5 DEF S, C

\* The calls of fewer lines are the first ones.
LEMMA CallsGrow ==
  ASSUME NEW s \in Scripts, NEW m \in 0..Len(s), NEW n \in m..Len(s),
         NEW c, c = Exchanged(s)[m].calls, NEW d, d = Exchanged(s)[n].calls
  PROVE  Len(c) <= Len(d) /\ \A i \in 1..Len(c) : d[i] = c[i]
  <1>. DEFINE C(k) == Exchanged(s)[k].calls
              In(k) == Len(c) <= Len(C(k)) /\ \A i \in 1..Len(c) : C(k)[i] = c[i]
              S == {k \in 0..Len(s) : k >= m => In(k)}
  <1>1. Len(s) \in Nat /\ \A k \in 1..Len(s) : s[k] \in ToSet(s)
    BY ScriptLines
  <1>2. \A k \in 0..Len(s) : C(k) \in Seq(ToSet(s))
    BY ExchangedUnrolls DEF LiveType
  <1>3. Len(c) \in Nat /\ In(m)
    <2>1. c = C(m) /\ c \in Seq(ToSet(s))
      BY <1>2
    <2>. QED
      BY <2>1
  <1>4. 0 \in S
    BY <1>1, <1>3
  <1>5. ASSUME NEW k \in 1..Len(s), k - 1 \in S PROVE k \in S
    <2>1. /\ Exchanged(s)[k] = Exchange(Exchanged(s)[k - 1], s[k])
          /\ C(k - 1) \in Seq(ToSet(s)) /\ k - 1 \in 0..Len(s) /\ k \in 0..Len(s)
      BY <1>1, <1>2, ExchangedUnrolls
    <2>2. CASE k - 1 >= m
      <3>1. In(k - 1)
        BY <1>5, <2>2
      <3>2. C(k) = C(k - 1) \/ C(k) = Append(C(k - 1), s[k])
        <4>1. \/ Exchange(Exchanged(s)[k - 1], s[k]).calls = Append(Exchanged(s)[k - 1].calls, s[k])
              \/ Exchange(Exchanged(s)[k - 1], s[k]).calls = Exchanged(s)[k - 1].calls
          BY ExchangeCalls
        <4>. QED
          BY <2>1, <4>1
      <3>3. PICK d1 : d1 = C(k - 1)
        OBVIOUS
      <3>4. PICK e : e = C(k)
        OBVIOUS
      <3>5. /\ Len(d1) \in Nat /\ Len(d1) <= Len(e)
            /\ \A i \in 1..Len(d1) : e[i] = d1[i]
        <4>1. d1 \in Seq(ToSet(s)) /\ (e = d1 \/ e = Append(d1, s[k]))
          BY <2>1, <3>2, <3>3, <3>4
        <4>2. Len(d1) \in Nat /\ s[k] \in ToSet(s)
          BY <4>1, ScriptLines
        <4>. HIDE DEF C
        <4>3. CASE e = d1
          BY <4>2, <4>3
        <4>4. CASE e = Append(d1, s[k])
          BY <4>1, <4>2, <4>4, AppendProperties
        <4>. QED
          BY <4>1, <4>3, <4>4
      <3>. HIDE DEF C
      <3>6. In(k)
        <4>1. Len(c) <= Len(d1) /\ \A i \in 1..Len(c) : d1[i] = c[i]
          BY <3>1, <3>3
        <4>2. Len(c) \in Nat /\ Len(d1) \in Nat /\ Len(e) \in Nat
          BY <1>2, <1>3, <2>1, <3>3, <3>4, <3>5
        <4>3. Len(c) <= Len(e)
          BY <3>5, <4>1, <4>2
        <4>4. ASSUME NEW i \in 1..Len(c) PROVE e[i] = c[i]
          <5>1. i \in 1..Len(d1)
            BY <4>1, <4>2
          <5>. QED
            BY <3>5, <4>1, <5>1
        <4>. QED
          BY <3>4, <4>3, <4>4
      <3>. QED
        BY <2>1, <3>6
    <2>3. CASE k = m
      BY <1>3, <2>1, <2>3
    <2>4. CASE k < m
      BY <2>1, <2>4
    <2>. QED
      BY <2>2, <2>3, <2>4
  <1>. HIDE DEF S, C
  <1>6. n \in S /\ n >= m
    <2>1. 0..Len(s) \subseteq S
      BY <1>1, <1>4, <1>5, UpTo
    <2>. QED
      BY <1>1, <2>1
  <1>. QED
    BY <1>6 DEF S, C

LEMMA SourceMade ==
  ASSUME NEW s \in Scripts, NEW answers \in [1..Len(Calls(s)) -> {"ok", "error"}],
         NEW damage \in Damages(s), script = s, source = LiveRun(s, answers, damage)
  PROVE  SourceOK
  <1>. DEFINE c == Calls(s)
              cut == IF damage = "unanswered" THEN 1 ELSE 0
              rows == [k \in 1..(Len(c) - cut) |-> Row(c[k], answers[k])]
  <1>1. /\ source.calls = [k \in DOMAIN c |-> c[k].id]
        /\ source.rows = rows /\ source.final.rows = rows
    BY DEF LiveRun
  <1>2. /\ c \in Seq(ToSet(s))
        /\ \A j, k \in DOMAIN c : j < k => c[j].id < c[k].id
    <2>1. Len(s) \in 0..Len(s) /\ c = Exchanged(s)[Len(s)].calls
      BY ScriptLines DEF Calls
    <2>. QED
      BY <2>1, CallsSoFar
  <1>3. \A l \in ToSet(s) : l.id \in Nat
    BY ScriptLines
  <1>. HIDE DEF c
  <1>4. Len(c) \in Nat /\ DOMAIN c = 1..Len(c) /\ \A k \in DOMAIN c : c[k].id \in Nat
    BY <1>2, <1>3
  <1>5. Len(source.calls) = Len(c) /\ DOMAIN source.calls = 1..Len(c)
    <2>1. source.calls \in Seq(Nat) /\ DOMAIN source.calls = 1..Len(c)
      BY <1>1, <1>4
    <2>. QED
      BY <1>4, <2>1
  <1>6. \A k \in DOMAIN rows :
          k \in DOMAIN c /\ rows[k].id = c[k].id /\ rows[k].answer \in {"ok", "error"}
    BY <1>4 DEF Row, c
  <1>. HIDE DEF rows
  <1>. QED
    BY <1>1, <1>2, <1>4, <1>5, <1>6 DEF SourceOK

\* The answer of the next call of the plan, when it has one, is the next row.
LEMMA NextRow ==
  ASSUME SourceOK, NEW n \in Nat, n < Len(source.calls), InCassette(source.calls[n + 1])
  PROVE  /\ n + 1 \in DOMAIN source.rows
         /\ Cassette(source.calls[n + 1]) = source.rows[n + 1]
  <1>1. n + 1 \in DOMAIN source.calls
    BY DEF SourceOK
  <1>2. \A r \in ToSet(source.rows) :
          r.id = source.calls[n + 1] => n + 1 \in DOMAIN source.rows /\ r = source.rows[n + 1]
    <2>1. ASSUME NEW k \in DOMAIN source.rows, source.rows[k].id = source.calls[n + 1]
          PROVE  k = n + 1
      <3>1. k \in DOMAIN source.calls /\ source.calls[k] = source.calls[n + 1]
        BY <2>1 DEF SourceOK
      <3>2. k \in Nat /\ ~(k < n + 1) /\ ~(n + 1 < k)
        <4>1. \A j \in DOMAIN source.calls : j \in Nat /\ source.calls[j] \in Nat
          BY DEF SourceOK
        <4>2. \A i, j \in DOMAIN source.calls : i < j => source.calls[i] # source.calls[j]
          BY <4>1 DEF SourceOK
        <4>. QED
          BY <1>1, <3>1, <4>1, <4>2
      <3>. QED
        BY <3>2
    <2>. QED
      BY <2>1 DEF ToSet
  <1>3. \E r \in ToSet(source.rows) : r.id = source.calls[n + 1]
    BY DEF InCassette
  <1>. QED
    BY <1>2, <1>3 DEF Cassette

-----------------------------------------------------------------------------
(* The loop of a replay                                                    *)

\* The trace ends with the call being served.
Unanswered == frames # << >> /\ frames[Len(frames)].op = "call"

\* How far the loop is, and what it has when it is there.
StageOK ==
  /\ seq \in Nat /\ call_index \in Nat
  /\ frames \in Seq(TraceFrame) /\ result_rows \in Seq(RowType)
  /\ Len(result_rows) = call_index
  /\ pc \in {"plan", "read", "call", "finish", "done"}
  /\ outcome \in {"running", "returned", "raised"} /\ (outcome = "running" <=> pc # "done")
  /\ protocol_error \in BOOLEAN /\ planned \in BOOLEAN
  /\ pc \in {"read", "call"} \/ (pc = "finish" /\ ~protocol_error) => planned
  /\ pc \in {"plan", "read", "call"} => ~protocol_error /\ ~HasFinal
  /\ pc \in {"plan", "read"} \/ (pc = "finish" /\ ~protocol_error) => ~Unanswered
  /\ pc \in {"plan", "read"} => validator.seen_calls \subseteq validator.seen_results
  /\ pc = "call" =>
       /\ line \in Lines /\ line.op = "call" /\ Unanswered /\ frames[Len(frames)].id = line.id
       /\ validator.seen_calls \subseteq validator.seen_results \cup {line.id}

\* Each row is the source's, and each has its frame, in order.
RowsOK ==
  /\ \A k \in 1..call_index :
       /\ k \in DOMAIN source.rows
       /\ result_rows[k].id = source.rows[k].id /\ result_rows[k].answer = source.rows[k].answer
  /\ \A n \in ResultsAt : \E k \in 1..call_index : frames[n].id = source.calls[k]
  /\ \A k \in 1..call_index : \E n \in ResultsAt : frames[n].id = source.calls[k]
  /\ \A m, n \in ResultsAt : m < n => frames[m].id < frames[n].id

\* A replay that returned without an error found no difference.
SameAsSource ==
  outcome = "returned" /\ ~protocol_error =>
    final_result = source.final /\ final_result.rows = result_rows

ReplayInv == SourceOK /\ StageOK /\ RowsOK /\ SameAsSource

\* A frame that is logged comes last.
LEMMA FrameLogged ==
  ASSUME frames \in Seq(TraceFrame), NEW f \in TraceFrame, frames' = Append(frames, f)
  PROVE  /\ frames' \in Seq(TraceFrame) /\ frames' # << >>
         /\ Len(frames) \in Nat /\ Len(frames') = Len(frames) + 1
         /\ DOMAIN frames = 1..Len(frames) /\ DOMAIN frames' = 1..(Len(frames) + 1)
         /\ \A n \in DOMAIN frames : frames'[n] = frames[n]
         /\ frames'[Len(frames')] = f
         /\ HasFinal' <=> f.op = "final"
         /\ Unanswered' <=> f.op = "call"
  <1>1. PICK t : t = Append(frames, f)
    OBVIOUS
  <1>2. /\ t \in Seq(TraceFrame) /\ t # << >> /\ Len(t) = Len(frames) + 1
        /\ Len(frames) \in Nat /\ DOMAIN frames = 1..Len(frames) /\ DOMAIN t = 1..(Len(frames) + 1)
        /\ \A n \in 1..Len(frames) : t[n] = frames[n]
        /\ t[Len(frames) + 1] = f
    BY <1>1, AppendProperties
  <1>. QED
    BY <1>1, <1>2 DEF HasFinal, Unanswered, Last

\* A frame that is no result leaves the results where they are.
LEMMA NoNewResult ==
  ASSUME frames \in Seq(TraceFrame), NEW f \in TraceFrame, frames' = Append(frames, f),
         f.op # "result"
  PROVE  /\ ResultsAt' = ResultsAt /\ \A n \in ResultsAt : frames'[n].id = frames[n].id
         /\ ResultsAt \subseteq Nat
  BY FrameLogged DEF ResultsAt

LEMMA RowsStay ==
  ASSUME RowsOK, UNCHANGED <<source, call_index, result_rows>>,
         ResultsAt' = ResultsAt, \A n \in ResultsAt : frames'[n].id = frames[n].id
  PROVE  RowsOK'
  BY DEF RowsOK

LEMMA ReplayInvInit == Init => ReplayInv
  <1>. SUFFICES ASSUME Init PROVE ReplayInv
    OBVIOUS
  <1>1. SourceOK
    BY SourceMade DEF Init
  <1>2. /\ seq = 0 /\ call_index = 0 /\ frames = << >> /\ result_rows = << >> /\ pc = "plan"
        /\ outcome = "running" /\ protocol_error = FALSE /\ planned = FALSE
        /\ validator.seen_calls = {}
    BY DEF Init, NewValidator
  <1>3. Len(<< >>) = 0 /\ \A S : << >> \in Seq(S)
    OBVIOUS
  <1>4. StageOK
    <2>1. ~HasFinal /\ ~Unanswered
      BY <1>2 DEF HasFinal, Unanswered
    <2>. QED
      BY <1>2, <1>3, <2>1 DEF StageOK
  <1>5. RowsOK
    BY <1>2 DEF RowsOK, ResultsAt
  <1>. QED
    BY <1>1, <1>2, <1>4, <1>5 DEF ReplayInv, SameAsSource

LEMMA WrittenLine ==
  ASSUME SourceOK, NEW l \in Drift \cup ToSet(script)
  PROVE  l \in Lines
  BY DEF SourceOK, Lines

LEMMA TakeFrameReplays ==
  ASSUME ReplayInv, NEW l \in Drift \cup ToSet(script), TakeFrame(l)
  PROVE  ReplayInv'
  <1>. USE DEF sourceVars, endVars
  <1>0. SourceOK' /\ l \in Lines /\ SameAsSource'
    BY WrittenLine DEF TakeFrame, ReplayInv, SourceOK, SameAsSource, StageOK
  <1>1. /\ pc = "read" /\ planned /\ planned' = planned /\ protocol_error = FALSE
        /\ outcome' = outcome /\ outcome = "running" /\ call_index' = call_index
        /\ result_rows' = result_rows /\ source' = source /\ line' = l
        /\ seq' = seq + 1 /\ seq' \in Nat /\ ~HasFinal /\ ~Unanswered
    BY DEF TakeFrame, ReplayInv, StageOK
  <1>2. CASE ~Accepts(validator, l)
    <2>1. pc' = "finish" /\ protocol_error' = TRUE /\ frames' = frames /\ validator' = validator
      BY <1>2 DEF TakeFrame, Fatal
    <2>2. StageOK'
      BY <1>1, <2>1 DEF ReplayInv, StageOK, HasFinal, Unanswered
    <2>3. RowsOK'
      BY <1>1, <2>1, RowsStay DEF ReplayInv, ResultsAt
    <2>. QED
      BY <1>0, <2>2, <2>3 DEF ReplayInv
  <1>3. CASE Accepts(validator, l)
    <2>. DEFINE f == Frame(l.op, l.id, "in", seq + 1)
    <2>1. /\ validator' = Record(validator, l) /\ frames' = Append(frames, f)
      BY <1>1, <1>3 DEF TakeFrame
    <2>2. l.op # "result" /\ l.op \in Ops
      BY <1>1, <1>3 DEF Accepts, AcceptsResult, ReplayInv, StageOK
    <2>3. f \in TraceFrame /\ f.op = l.op /\ f.id = l.id
      BY <1>0, <1>1, <2>2 DEF Frame, TraceFrame, LineIds
    <2>. HIDE DEF f
    <2>4. frames \in Seq(TraceFrame)
      BY DEF ReplayInv, StageOK
    <2>5. RowsOK'
      BY <1>1, <2>1, <2>2, <2>3, <2>4, NoNewResult, RowsStay DEF ReplayInv
    <2>6. /\ frames' \in Seq(TraceFrame) /\ frames'[Len(frames')].id = l.id
          /\ HasFinal' <=> l.op = "final"
          /\ Unanswered' <=> l.op = "call"
      BY <2>1, <2>3, <2>4, FrameLogged
    <2>7. /\ validator'.seen_results = validator.seen_results
          /\ validator'.seen_calls = IF l.op = "call" THEN validator.seen_calls \cup {l.id}
                                     ELSE validator.seen_calls
      BY <2>1, <2>2 DEF Record
    <2>8. CASE l.op = "final" /\ ~FinalInTime
      <3>1. pc' = "finish" /\ protocol_error' = TRUE
        BY <1>3, <2>8 DEF TakeFrame, Fatal
      <3>2. StageOK'
        BY <1>1, <2>6, <3>1 DEF ReplayInv, StageOK
      <3>. QED
        BY <1>0, <2>5, <3>2 DEF ReplayInv
    <2>9. CASE ~(l.op = "final" /\ ~FinalInTime)
      <3>1. /\ protocol_error' = protocol_error
            /\ pc' = IF l.op = "call" THEN "call" ELSE IF l.op = "final" THEN "finish" ELSE "read"
        BY <1>3, <2>9 DEF TakeFrame
      <3>2. StageOK'
        BY <1>0, <1>1, <2>6, <2>7, <3>1 DEF ReplayInv, StageOK
      <3>. QED
        BY <1>0, <2>5, <3>2 DEF ReplayInv
    <2>. QED
      BY <2>8, <2>9
  <1>. QED
    BY <1>2, <1>3

LEMMA SendResultReplays == ASSUME ReplayInv, SendResult PROVE ReplayInv'
  <1>. USE DEF sourceVars, endVars
  <1>. DEFINE f == Frame("result", line.id, "out", seq + 1)
              n == call_index
              r == Row(line, Cassette(line.id).answer)
  <1>0. SourceOK' /\ SameAsSource'
    BY DEF SendResult, ReplayInv, SourceOK, SameAsSource, StageOK
  <1>1. /\ pc = "call" /\ pc' = "read" /\ planned /\ planned' = planned
        /\ protocol_error = FALSE /\ protocol_error' = FALSE
        /\ outcome' = outcome /\ outcome = "running" /\ call_index' = n + 1
        /\ source' = source /\ line' = line /\ seq' = seq + 1 /\ ~HasFinal
        /\ n \in Nat /\ seq \in Nat /\ line \in Lines
        /\ validator.seen_calls \subseteq validator.seen_results \cup {line.id}
    BY DEF SendResult, ReplayInv, StageOK
  <1>2. /\ validator' = Record(validator, f) /\ frames' = Append(frames, f)
        /\ result_rows' = Append(result_rows, r)
    BY DEF SendResult
  <1>3. n < Len(source.calls) /\ line.id = source.calls[n + 1] /\ InCassette(line.id)
    BY DEF SendResult, Expected
  <1>4. n + 1 \in DOMAIN source.rows /\ Cassette(line.id) = source.rows[n + 1]
    BY <1>1, <1>3, NextRow DEF ReplayInv
  <1>5. /\ source.rows[n + 1].id = line.id /\ source.rows[n + 1].answer \in {"ok", "error"}
        /\ \A j, k \in 1..(n + 1) :
              /\ source.calls[j] \in Nat
              /\ j < k => source.calls[j] < source.calls[k]
    BY <1>1, <1>3, <1>4 DEF ReplayInv, SourceOK
  <1>6. f \in TraceFrame /\ f.op = "result" /\ f.id = line.id
    BY <1>1 DEF Frame, TraceFrame, LineIds, Ops
  <1>7. r \in RowType /\ r.id = line.id /\ r.answer = source.rows[n + 1].answer
    BY <1>1, <1>4, <1>5 DEF Row, RowType, LineIds
  <1>. HIDE DEF f, r
  <1>8. /\ frames \in Seq(TraceFrame) /\ result_rows \in Seq(RowType) /\ Len(result_rows) = n
    BY DEF ReplayInv, StageOK
  <1>9. /\ frames' \in Seq(TraceFrame) /\ ~HasFinal' /\ ~Unanswered'
        /\ DOMAIN frames = 1..Len(frames) /\ DOMAIN frames' = 1..(Len(frames) + 1)
        /\ Len(frames) \in Nat
        /\ \A k \in DOMAIN frames : frames'[k] = frames[k]
        /\ frames'[Len(frames) + 1] = f
    BY <1>2, <1>6, <1>8, FrameLogged
  <1>10. /\ result_rows' \in Seq(RowType) /\ Len(result_rows') = n + 1
         /\ \A k \in 1..n : result_rows'[k] = result_rows[k]
         /\ result_rows'[n + 1] = r
    BY <1>2, <1>7, <1>8, AppendProperties
  <1>11. /\ validator'.seen_calls = validator.seen_calls
         /\ validator'.seen_results = validator.seen_results \cup {line.id}
    BY <1>2, <1>6 DEF Record
  <1>12. StageOK'
    <2>1. validator'.seen_calls \subseteq validator'.seen_results
      BY <1>1, <1>11
    <2>2. seq' \in Nat /\ call_index' \in Nat /\ Len(result_rows') = call_index'
      BY <1>1, <1>10
    <2>3. outcome' = "running" /\ pc' = "read" /\ planned' /\ planned' \in BOOLEAN
      BY <1>1 DEF ReplayInv, StageOK
    <2>. QED
      BY <1>1, <1>9, <1>10, <2>1, <2>2, <2>3 DEF StageOK
  <1>. HIDE DEF n
  <1>13. ResultsAt' = ResultsAt \cup {Len(frames) + 1} /\ ResultsAt \subseteq 1..Len(frames)
    BY <1>6, <1>9 DEF ResultsAt
  <1>14. \A k \in ResultsAt : frames'[k] = frames[k]
    BY <1>9 DEF ResultsAt
  <1>15. frames'[Len(frames) + 1].id = source.calls[n + 1]
    BY <1>3, <1>6, <1>9
  <1>16. RowsOK'
    <2>1. \A k \in 1..(n + 1) : k \in 1..n \/ k = n + 1
      BY <1>1
    <2>2. \A k \in 1..(n + 1) :
            /\ k \in DOMAIN source.rows
            /\ result_rows'[k].id = source.rows[k].id
            /\ result_rows'[k].answer = source.rows[k].answer
      BY <1>4, <1>5, <1>7, <1>10, <2>1 DEF ReplayInv, RowsOK, n
    <2>3. \A m \in ResultsAt : \E k \in 1..n : frames'[m].id = source.calls[k]
      BY <1>14 DEF ReplayInv, RowsOK, n
    <2>4. \A m \in ResultsAt' : \E k \in 1..(n + 1) : frames'[m].id = source.calls[k]
      <3>1. n + 1 \in 1..(n + 1) /\ 1..n \subseteq 1..(n + 1)
        BY <1>1
      <3>. QED
        BY <1>13, <1>15, <2>3, <3>1
    <2>5. \A k \in 1..(n + 1) : \E m \in ResultsAt' : frames'[m].id = source.calls[k]
      <3>1. \A k \in 1..n : \E m \in ResultsAt : frames'[m].id = source.calls[k]
        BY <1>14 DEF ReplayInv, RowsOK, n
      <3>. QED
        BY <1>13, <1>15, <2>1, <3>1
    <2>6. ASSUME NEW i \in ResultsAt', NEW j \in ResultsAt', i < j
          PROVE  frames'[i].id < frames'[j].id
      <3>1. CASE j \in ResultsAt
        <4>1. i \in ResultsAt
          BY <1>9, <1>13, <2>6, <3>1
        <4>. QED
          BY <1>14, <2>6, <3>1, <4>1 DEF ReplayInv, RowsOK
      <3>2. CASE j = Len(frames) + 1
        <4>1. i \in ResultsAt
          BY <1>9, <1>13, <2>6, <3>2
        <4>2. PICK k \in 1..n : frames'[i].id = source.calls[k]
          BY <2>3, <4>1
        <4>3. k < n + 1 /\ k \in 1..(n + 1) /\ n + 1 \in 1..(n + 1)
          BY <1>1
        <4>. QED
          BY <1>5, <1>15, <3>2, <4>2, <4>3
      <3>. QED
        BY <1>13, <3>1, <3>2
    <2>. QED
      BY <1>1, <2>2, <2>4, <2>5, <2>6 DEF RowsOK
  <1>. QED
    BY <1>0, <1>12, <1>16 DEF ReplayInv

LEMMA FinishReplays == ASSUME ReplayInv, Finish PROVE ReplayInv'
  <1>. USE DEF sourceVars
  <1>0. SourceOK'
    BY DEF Finish, ReplayInv, SourceOK
  <1>1. /\ pc = "finish" /\ pc' = "done" /\ planned' = planned /\ call_index' = call_index
        /\ outcome' \in {"returned", "raised"} /\ result_rows' = result_rows
        /\ source' = source /\ line' = line
        /\ protocol_error \in BOOLEAN /\ planned \in BOOLEAN /\ seq \in Nat
    BY DEF Finish, ReplayInv, StageOK
  <1>2. protocol_error' \in BOOLEAN /\ (~protocol_error' => ~protocol_error)
    <2>1. protocol_error' = (protocol_error \/ (planned /\ ~Parity(final_result')))
      BY DEF Finish
    <2>. QED
      BY <1>1, <2>1
  <1>3. /\ frames' \in Seq(TraceFrame) /\ seq' \in Nat
        /\ ResultsAt' = ResultsAt /\ \A n \in ResultsAt : frames'[n].id = frames[n].id
    <2>1. frames \in Seq(TraceFrame)
      BY DEF ReplayInv, StageOK
    <2>2. CASE HasFinal
      BY <1>1, <2>1, <2>2 DEF Finish, ResultsAt
    <2>3. CASE ~HasFinal
      <3>1. seq' = seq + 1 /\ frames' = Append(frames, Frame("final", NoId, "in", seq'))
        BY <2>3 DEF Finish
      <3>2. PICK f : f = Frame("final", NoId, "in", seq')
        OBVIOUS
      <3>3. f \in TraceFrame /\ f.op # "result"
        BY <1>1, <3>1, <3>2 DEF Frame, TraceFrame, LineIds, Ops
      <3>. QED
        <4>1. frames' = Append(frames, f) /\ seq' \in Nat
          BY <1>1, <3>1, <3>2
        <4>2. frames' \in Seq(TraceFrame)
          BY <2>1, <3>3, <4>1, FrameLogged
        <4>. QED
          BY <2>1, <3>3, <4>1, <4>2, NoNewResult
    <2>. QED
      BY <2>2, <2>3
  <1>4. RowsOK'
    BY <1>1, <1>3, RowsStay DEF ReplayInv
  <1>5. StageOK'
    BY <1>1, <1>2, <1>3 DEF ReplayInv, StageOK
  <1>6. SameAsSource'
    <2>1. final_result'.rows = result_rows
      BY DEF Finish
    <2>2. ~protocol_error' => final_result' = source.final
      <3>1. protocol_error' = (protocol_error \/ (planned /\ ~Parity(final_result')))
        BY DEF Finish
      <3>2. ~protocol_error => planned
        BY <1>1 DEF ReplayInv, StageOK
      <3>. QED
        BY <1>1, <3>1, <3>2 DEF Parity
    <2>. QED
      BY <1>1, <2>1, <2>2 DEF SameAsSource
  <1>. QED
    BY <1>0, <1>4, <1>5, <1>6 DEF ReplayInv

LEMMA OthersReplay ==
  ASSUME ReplayInv,
         BuildPlan \/ TakeEof \/ TakeError \/ Refuse \/ SendBreaks \/ Over \/ UNCHANGED vars
  PROVE  ReplayInv'
  <1>. USE DEF sourceVars, traceVars, endVars
  <1>1. SourceOK' /\ UNCHANGED <<source, call_index, result_rows, frames, final_result>>
    BY DEF BuildPlan, TakeEof, TakeError, Refuse, SendBreaks, Over, vars, ReplayInv, SourceOK
  <1>2. RowsOK'
    BY <1>1, RowsStay DEF ReplayInv, ResultsAt
  <1>3. StageOK' /\ SameAsSource'
    <2>. USE DEF StageOK, SameAsSource, HasFinal, Unanswered
    <2>1. CASE BuildPlan
      BY <1>1, <2>1 DEF BuildPlan, ReplayInv
    <2>2. CASE TakeEof
      BY <1>1, <2>2 DEF TakeEof, ReplayInv
    <2>3. CASE TakeError \/ Refuse
      BY <1>1, <2>3 DEF TakeError, Refuse, Fatal, ReplayInv
    <2>4. CASE SendBreaks
      BY <1>1, <2>4 DEF SendBreaks, ReplayInv
    <2>5. CASE Over \/ UNCHANGED vars
      BY <1>1, <2>5 DEF Over, vars, ReplayInv
    <2>. QED
      BY <2>1, <2>2, <2>3, <2>4, <2>5
  <1>. QED
    BY <1>1, <1>2, <1>3 DEF ReplayInv

LEMMA ReplayAlways == Spec => []ReplayInv
  <1>1. ReplayInv /\ [Next]_vars => ReplayInv'
    BY TakeFrameReplays, SendResultReplays, FinishReplays, OthersReplay DEF Next
  <1>. QED
    BY <1>1, ReplayInvInit, PTL DEF Spec

\* No program is given an answer that the source did not give to the same call, at the
\* same place (run_replay in pirml/runtime/exec.py).
THEOREM AnswersAreTheSources == Spec => []AnswersInOrder
  <1>1. ReplayInv => AnswersInOrder
    <2>. SUFFICES ASSUME ReplayInv PROVE AnswersInOrder
      OBVIOUS
    <2>1. DOMAIN result_rows = 1..call_index
      BY DEF ReplayInv, StageOK
    <2>. QED
      BY <2>1 DEF ReplayInv, RowsOK, AnswersInOrder
  <1>. QED
    BY <1>1, ReplayAlways, PTL

\* A replay that ends without an error has reproduced the source: its rows, its final,
\* and the answers in the trace (run_replay and _replay_parity_meta in
\* pirml/runtime/exec.py), whatever the program and whatever the damage.
THEOREM CleanReplayReproduces == Spec => []ReplayFaithful
  <1>1. ReplayInv => ReplayFaithful
    <2>. SUFFICES ASSUME ReplayInv, outcome = "returned", ~protocol_error
                  PROVE  /\ result_rows = source.rows /\ final_result = source.final
                         /\ {frames[n].id : n \in ResultsAt} = {r.id : r \in ToSet(source.rows)}
                         /\ \A m, n \in ResultsAt : m < n => frames[m].id < frames[n].id
      BY DEF ReplayFaithful
    <2>1. final_result = source.final /\ result_rows = source.rows
      BY DEF ReplayInv, SameAsSource, SourceOK
    <2>2. DOMAIN source.rows = 1..call_index
      BY <2>1 DEF ReplayInv, StageOK
    <2>3. \A k \in 1..call_index : source.rows[k].id = source.calls[k]
      BY <2>2 DEF ReplayInv, SourceOK
    <2>4. ASSUME NEW n \in ResultsAt PROVE frames[n].id \in {r.id : r \in ToSet(source.rows)}
      <3>1. PICK k \in 1..call_index : frames[n].id = source.calls[k]
        BY DEF ReplayInv, RowsOK
      <3>. QED
        BY <2>2, <2>3, <3>1 DEF ToSet
    <2>5. ASSUME NEW r \in ToSet(source.rows) PROVE r.id \in {frames[n].id : n \in ResultsAt}
      <3>1. PICK k \in 1..call_index : r = source.rows[k]
        BY <2>2 DEF ToSet
      <3>2. \E n \in ResultsAt : frames[n].id = source.calls[k]
        BY DEF ReplayInv, RowsOK
      <3>. QED
        BY <2>3, <3>1, <3>2
    <2>. QED
      BY <2>1, <2>4, <2>5 DEF ReplayInv, RowsOK
  <1>. QED
    BY <1>1, ReplayAlways, PTL

-----------------------------------------------------------------------------
(* The same program                                                        *)

\* The run of a script up to line n.
Upto(s, n) == Exchanged(s)[n]

\* A validator that has seen these calls and their results.
Seen(v, c) ==
  /\ v.seen_calls = {c[i].id : i \in 1..Len(c)}
  /\ v.seen_results = {c[i].id : i \in 1..Len(c)}
  /\ v.final_count = 0
  /\ v.last_call_id \in {NoId} \cup {c[i].id : i \in 1..Len(c)}

\* The source is a live run of the script.
SourceIsLive ==
  /\ script \in Scripts
  /\ \E answers \in [1..Len(Calls(script)) -> {"ok", "error"}], damage \in Damages(script) :
       source = LiveRun(script, answers, damage)

\* The same program: the replay is where the live run was, before a line is
\* read, while a call is being answered, and when the final is there.
InStep ==
  /\ next \in 0..Len(script) /\ seq = Len(frames)
  /\ \A k \in 1..call_index : result_rows[k] = source.rows[k]
  /\ pc = "plan" => next = 0

AtRead ==
  pc \in {"plan", "read"} =>
    /\ frames = Upto(script, next).frames
    /\ call_index = Len(Upto(script, next).calls)
    /\ Seen(validator, Upto(script, next).calls)
    /\ next = Len(script) => ~Concluded(script)

AtCall ==
  pc = "call" =>
    /\ next # 0 /\ line = script[next]
    /\ frames = Append(Upto(script, next - 1).frames,
                       Frame("call", line.id, "in", Len(Upto(script, next - 1).frames) + 1))
    /\ call_index = Len(Upto(script, next - 1).calls)
    /\ validator.seen_results = {Upto(script, next - 1).calls[i].id : i \in 1..call_index}
    /\ validator.seen_calls = validator.seen_results \cup {line.id}
    /\ validator.last_call_id = line.id /\ validator.final_count = 0

AtFinish ==
  pc = "finish" =>
    /\ ~protocol_error /\ planned /\ next = Len(script)
    /\ frames = Upto(script, next).frames
    /\ call_index = Len(Upto(script, next).calls)
    /\ HasFinal <=> Concluded(script)
    /\ Concluded(script) => line = Last(script)

AtDone ==
  pc = "done" => (MetaFits => outcome = "returned" /\ ~protocol_error)

WithLive == InStep /\ AtRead /\ AtCall /\ AtFinish /\ AtDone

Same == faithful /\ ~disturbed /\ Undamaged
SameInv == SourceIsLive /\ (Same => WithLive)

\* Where the script is over there is no more to come.
LEMMA WholeScript ==
  ASSUME script \in Scripts
  PROVE  /\ Len(script) \in Nat /\ Len(script) \in 0..Len(script)
         /\ Calls(script) = Upto(script, Len(script)).calls
         /\ Calls(script) \in Seq(ToSet(script))
         /\ Concluded(script) <=> Len(script) # 0 /\ script[Len(script)].op = "final"
         /\ script # << >> => Last(script) = script[Len(script)] /\ Len(script) # 0
  <1>1. script \in Seq(ToSet(script)) /\ Len(script) \in Nat
    BY ScriptLines
  <1>2. Calls(script) \in Seq(ToSet(script))
    BY <1>1, ExchangedUnrolls DEF Calls, LiveType
  <1>3. script = << >> <=> Len(script) = 0
    BY <1>1, EmptySeq
  <1>. QED
    BY <1>1, <1>2, <1>3 DEF Calls, Upto, Concluded, Last

\* The run after a line that is a call, and after any other.
LEMMA LineByLine ==
  ASSUME script \in Scripts, NEW n \in 1..Len(script), NEW r, r = Upto(script, n - 1)
  PROVE  /\ n \in 0..Len(script) /\ n - 1 \in 0..Len(script)
         /\ r \in LiveType(script) /\ Upto(script, n) \in LiveType(script)
         /\ script[n].op = "call" =>
              /\ Upto(script, n).calls = Append(r.calls, script[n])
              /\ Upto(script, n).frames = r.frames \o
                   <<Frame("call", script[n].id, "in", Len(r.frames) + 1),
                     Frame("result", script[n].id, "out", Len(r.frames) + 2)>>
         /\ script[n].op # "call" =>
              /\ Upto(script, n).calls = r.calls
              /\ Upto(script, n).frames
                   = Append(r.frames, Frame(script[n].op, script[n].id, "in", Len(r.frames) + 1))
  <1>1. n \in 0..Len(script) /\ n - 1 \in 0..Len(script)
    BY ScriptLines
  <1>2. Upto(script, n) = Exchange(r, script[n]) /\ r \in LiveType(script) /\ Upto(script, n) \in LiveType(script)
    BY <1>1, ExchangedUnrolls DEF Upto
  <1>3. Upto(script, n).calls = IF script[n].op = "call" THEN Append(r.calls, script[n]) ELSE r.calls
    BY <1>2, ExchangeCalls
  <1>4. ASSUME script[n].op = "call"
        PROVE  Upto(script, n).frames = r.frames \o
                   <<Frame("call", script[n].id, "in", Len(r.frames) + 1),
                     Frame("result", script[n].id, "out", Len(r.frames) + 2)>>
    <2>. DEFINE fs == r.frames \o
                        <<Frame("call", script[n].id, "in", Len(r.frames) + 1),
                          Frame("result", script[n].id, "out", Len(r.frames) + 2)>>
                cs == Append(r.calls, script[n])
    <2>1. Exchange(r, script[n]) = [frames |-> fs, calls |-> cs]
      BY <1>4 DEF Exchange
    <2>. HIDE DEF fs, cs
    <2>2. Upto(script, n).frames = fs
      BY <1>2, <2>1
    <2>. QED
      BY <2>2 DEF fs
  <1>5. ASSUME script[n].op # "call"
        PROVE  Upto(script, n).frames
                 = Append(r.frames, Frame(script[n].op, script[n].id, "in", Len(r.frames) + 1))
    <2>. DEFINE fs == Append(r.frames, Frame(script[n].op, script[n].id, "in", Len(r.frames) + 1))
    <2>1. Exchange(r, script[n]) = [frames |-> fs, calls |-> r.calls]
      BY <1>5 DEF Exchange
    <2>. HIDE DEF fs
    <2>2. Upto(script, n).frames = fs
      BY <1>2, <2>1
    <2>. QED
      BY <2>2 DEF fs
  <1>. QED
    BY <1>1, <1>2, <1>3, <1>4, <1>5

\* The frames of a source without damage.
WholeTrace ==
  IF Concluded(script) THEN Upto(script, Len(script)).frames
  ELSE Append(Upto(script, Len(script)).frames,
              Frame("final", NoId, "in", Len(Upto(script, Len(script)).frames) + 1))

LEMMA WholeSource ==
  ASSUME SourceIsLive, Undamaged
  PROVE  /\ source.frames = WholeTrace
         /\ Len(source.calls) = Len(Calls(script)) /\ Len(source.rows) = Len(Calls(script))
         /\ source.rows = [k \in 1..Len(Calls(script)) |-> source.rows[k]]
         /\ \A k \in 1..Len(Calls(script)) :
              /\ source.calls[k] = Calls(script)[k].id
              /\ source.rows[k].id = Calls(script)[k].id
              /\ source.rows[k] = Row(Calls(script)[k], source.rows[k].answer)
         /\ source.final = [ok |-> Concluded(script) /\ Last(script).ok, rows |-> source.rows]
  <1>1. script \in Scripts
    BY DEF SourceIsLive
  <1>2. PICK answers \in [1..Len(Calls(script)) -> {"ok", "error"}], damage \in Damages(script) :
          source = LiveRun(script, answers, damage)
    BY DEF SourceIsLive
  <1>3. PICK c : c = Calls(script)
    OBVIOUS
  <1>4. PICK whole : whole = Upto(script, Len(script)).frames
    OBVIOUS
  <1>5. /\ c \in Seq(ToSet(script)) /\ whole \in Seq(TraceFrame)
        /\ Len(c) \in Nat /\ DOMAIN c = 1..Len(c) /\ Len(whole) \in Nat
    <2>1. Upto(script, Len(script)) \in LiveType(script)
      BY <1>1, WholeScript, ExchangedUnrolls DEF Upto
    <2>. QED
      BY <1>1, <1>3, <1>4, <2>1, WholeScript DEF LiveType
  <1>. DEFINE cut == IF damage = "unanswered" THEN 1 ELSE 0
              skip == IF damage = "gap" THEN 2 ELSE 1
              kept == SubSeq(whole, 1, Len(whole) - cut)
              rows == [k \in 1..(Len(c) - cut) |-> Row(c[k], answers[k])]
  <1>6. source = [frames |-> IF Concluded(script) THEN kept
                             ELSE Append(kept, Frame("final", NoId, "in", Len(kept) + skip)),
                  calls  |-> [k \in DOMAIN c |-> c[k].id],
                  rows   |-> rows,
                  final  |-> [ok |-> Concluded(script) /\ Last(script).ok, rows |-> rows]]
    BY <1>2, <1>3, <1>4 DEF LiveRun, Upto
  <1>7. source.calls = [k \in DOMAIN c |-> c[k].id] /\ Len(source.calls) = Len(c)
    <2>1. source.calls = [k \in DOMAIN c |-> c[k].id]
      BY <1>6
    <2>2. \A k \in 1..Len(c) : c[k].id \in Nat
      BY <1>1, <1>5, ScriptLines
    <2>3. source.calls \in Seq(Nat) /\ DOMAIN source.calls = 1..Len(c)
      BY <1>5, <2>1, <2>2
    <2>. QED
      BY <1>5, <2>1, <2>3
  <1>8. damage # "unanswered"
    <2>. SUFFICES ASSUME damage = "unanswered" PROVE FALSE
      OBVIOUS
    <2>1. script # << >> /\ Last(script).op = "call"
      BY DEF Damages
    <2>2. script[Len(script)].op = "call" /\ Len(script) \in 1..Len(script)
      BY <1>1, <2>1, WholeScript
    <2>3. PICK r : r = Upto(script, Len(script) - 1)
      OBVIOUS
    <2>4. c = Append(r.calls, script[Len(script)]) /\ r.calls \in Seq(ToSet(script))
      BY <1>1, <1>3, <2>2, <2>3, LineByLine, WholeScript DEF LiveType
    <2>5. Len(c) - 1 \in Nat
      BY <1>1, <2>2, <2>4, ScriptLines, AppendProperties
    <2>6. source.rows = [k \in 1..(Len(c) - 1) |-> Row(c[k], answers[k])]
      BY <1>6
    <2>7. Len(source.rows) = Len(c) - 1
      BY <2>5, <2>6
    <2>8. Len(source.rows) = Len(source.calls)
      BY DEF Undamaged
    <2>9. Len(c) \in Nat
      BY <1>5
    <2>. QED
      BY <1>7, <2>7, <2>8, <2>9
  <1>9. cut = 0 /\ kept = whole
    <2>1. SubSeq(whole, 1, Len(whole)) = whole
      BY <1>5
    <2>. QED
      BY <1>5, <1>8, <2>1
  <1>. HIDE DEF cut, kept
  <1>10. source.rows = [k \in 1..Len(c) |-> Row(c[k], answers[k])] /\ rows = source.rows
    BY <1>5, <1>6, <1>9
  <1>. HIDE DEF rows
  <1>11. source.frames = WholeTrace
    <2>1. CASE Concluded(script)
      BY <1>4, <1>6, <1>9, <2>1 DEF WholeTrace
    <2>2. CASE ~Concluded(script)
      <3>1. source.frames = Append(whole, Frame("final", NoId, "in", Len(whole) + skip))
        BY <1>6, <1>9, <2>2
      <3>2. source.frames[Len(whole) + 1] = Frame("final", NoId, "in", Len(whole) + skip)
            /\ Len(whole) + 1 \in DOMAIN source.frames
        BY <1>5, <3>1
      <3>3. Len(whole) + skip = Len(whole) + 1
        BY <3>2 DEF Undamaged, ValidateStrictTrace, Frame
      <3>. QED
        BY <1>4, <2>2, <3>1, <3>3 DEF WholeTrace
    <2>. QED
      BY <2>1, <2>2
  <1>12. \A k \in 1..Len(c) :
           /\ source.rows[k] = Row(c[k], answers[k]) /\ source.rows[k].answer = answers[k]
           /\ source.rows[k].id = c[k].id
    BY <1>10 DEF Row
  <1>13. Len(source.rows) = Len(c) 
    BY <1>7 DEF Undamaged
  <1>. QED
    BY <1>3, <1>5, <1>6, <1>7, <1>10, <1>11, <1>12, <1>13

\* What does not change: the script, its run and the source.
LEMMA SameStays ==
  ASSUME UNCHANGED sourceVars
  PROVE  /\ SourceIsLive => SourceIsLive'
         /\ Undamaged' = Undamaged /\ MetaFits' = MetaFits
         /\ Concluded(script)' = Concluded(script) /\ Last(script)' = Last(script)
  BY DEF sourceVars, SourceIsLive, Undamaged, MetaFits

\* The validator accepts the next line of the script.
LEMMA NextAccepted ==
  ASSUME script \in Scripts, NEW n \in 1..Len(script), Seen(validator, Upto(script, n - 1).calls)
  PROVE  Accepts(validator, script[n])
  <1>1. PICK l : l = script[n]
    OBVIOUS
  <1>2. PICK c : c = Upto(script, n - 1).calls
    OBVIOUS
  <1>3. l.op \in {"call", "custom", "final"} /\ (l.op = "call" => l.id # NoId) /\ l.id \in Nat
    BY <1>1, ScriptLines, ReplayAssumption
  <1>4. l.op = "call" => \A i \in 1..Len(c) : c[i].id \in Nat /\ c[i].id < l.id
    <2>. SUFFICES ASSUME l.op = "call", NEW i \in 1..Len(c) PROVE c[i].id \in Nat /\ c[i].id < l.id
      OBVIOUS
    <2>1. n - 1 \in 0..Len(script) /\ n \in 0..Len(script) /\ n \in DOMAIN script
      BY ScriptLines
    <2>2. \A j \in 1..Len(c) : \E k \in 1..(n - 1) : script[k].op = "call" /\ c[j] = script[k]
      <3>1. PICK m \in 0..Len(script) : m = n - 1
        BY <2>1
      <3>2. c = Exchanged(script)[m].calls
        BY <1>2, <3>1 DEF Upto
      <3>3. \A j \in 1..Len(c) : \E k \in 1..m : script[k].op = "call" /\ c[j] = script[k]
        BY <3>2, CallsSoFar, SMTT(30)
      <3>. QED
        BY <3>1, <3>3
    <2>3. PICK k \in 1..(n - 1) : script[k].op = "call" /\ c[i] = script[k]
      BY <2>2
    <2>4. k \in DOMAIN script /\ k < n
      BY <2>1, ScriptLines
    <2>5. script[k].id < script[n].id /\ script[k].id \in Nat
      BY <1>1, <2>1, <2>3, <2>4, ReplayAssumption
    <2>. QED
      BY <1>1, <2>3, <2>5
  <1>5. Seen(validator, c)
    BY <1>2
  <1>6. l.op = "call" => AcceptsCall(validator, l)
    <2>. SUFFICES ASSUME l.op = "call" PROVE AcceptsCall(validator, l)
      OBVIOUS
    <2>1. l.id \notin validator.seen_calls
      <3>1. \A i \in 1..Len(c) : c[i].id \in Nat /\ c[i].id < l.id
        BY <1>4
      <3>2. \A i \in 1..Len(c) : c[i].id # l.id
        BY <1>3, <3>1
      <3>3. validator.seen_calls = {c[i].id : i \in 1..Len(c)}
        BY <1>5 DEF Seen
      <3>. QED
        BY <3>2, <3>3
    <2>2. l.id > validator.last_call_id
      <3>1. validator.last_call_id = NoId \/ \E i \in 1..Len(c) : validator.last_call_id = c[i].id
        BY <1>5 DEF Seen
      <3>. QED
        BY <1>3, <1>4, <3>1 DEF NoId
    <2>. QED
      BY <1>3, <2>1, <2>2 DEF AcceptsCall
  <1>. QED
    BY <1>1, <1>3, <1>5, <1>6 DEF Accepts, Ops, Seen

LEMMA TakeFrameInStep ==
  ASSUME ReplayInv, SourceIsLive, Same, WithLive,
         NEW l \in Drift \cup ToSet(script), TakeFrame(l)
  PROVE  WithLive'
  <1>1. PICK n : n = next + 1
    OBVIOUS
  <1>2. PICK r : r = Upto(script, n - 1)
    OBVIOUS
  <1>3. script \in Scripts /\ Len(script) \in Nat /\ next \in 0..Len(script)
    BY WholeScript DEF SourceIsLive, WithLive, InStep
  <1>4. /\ pc = "read" /\ n \in 1..Len(script) /\ n - 1 = next /\ l = script[n]
        /\ n \in 0..Len(script)
    BY <1>1, <1>3 DEF TakeFrame, Writes, Same
  <1>5. /\ frames = r.frames /\ call_index = Len(r.calls) /\ Seen(validator, r.calls)
        /\ seq = Len(frames)
    BY <1>2, <1>4 DEF WithLive, InStep, AtRead
  <1>6. Accepts(validator, l)
    BY <1>2, <1>3, <1>4, <1>5, NextAccepted
  <1>7. /\ UNCHANGED sourceVars
        /\ source' = source /\ script' = script /\ call_index' = call_index
        /\ result_rows' = result_rows /\ planned' = planned /\ outcome' = outcome
        /\ next' = n /\ line' = l /\ seq' = seq + 1
        /\ validator' = Record(validator, l)
        /\ frames' = Append(frames, Frame(l.op, l.id, "in", seq + 1))
    BY <1>1, <1>6 DEF TakeFrame, sourceVars, endVars
  <1>8. frames \in Seq(TraceFrame) /\ frames' \in Seq(TraceFrame) /\ ~protocol_error /\ planned
    <2>1. ReplayInv'
      BY TakeFrameReplays
    <2>. QED
      BY <1>4, <2>1 DEF ReplayInv, StageOK
  <1>9. seq' = Len(frames')
    <2>1. PICK f : f = Frame(l.op, l.id, "in", seq + 1)
      OBVIOUS
    <2>2. PICK g : g = frames'
      OBVIOUS
    <2>3. g = Append(frames, f)
      BY <1>7, <2>1, <2>2
    <2>4. Len(g) = Len(frames) + 1
      BY <1>8, <2>3
    <2>. QED
      BY <1>5, <1>7, <2>2, <2>4
  <1>10. InStep' \/ pc' = "plan"
    BY <1>4, <1>7, <1>9 DEF WithLive, InStep
  <1>11. l.op \in {"call", "custom", "final"}
    BY <1>3, <1>4, ScriptLines
  <1>12. CASE l.op = "call"
    <2>1. pc' = "call"
      BY <1>6, <1>12 DEF TakeFrame
    <2>2. frames' = Append(r.frames, Frame("call", l.id, "in", Len(r.frames) + 1))
      BY <1>5, <1>7, <1>12
    <2>3. /\ validator'.seen_results = validator.seen_results
          /\ validator'.seen_calls = validator.seen_calls \cup {l.id}
          /\ validator'.last_call_id = l.id /\ validator'.final_count = validator.final_count
      BY <1>7, <1>12 DEF Record
    <2>4. /\ validator'.seen_results = {r.calls[i].id : i \in 1..call_index}
          /\ validator'.seen_calls = validator'.seen_results \cup {l.id}
          /\ validator'.last_call_id = l.id /\ validator'.final_count = 0
      BY <1>5, <2>3 DEF Seen
    <2>5. Upto(script', next' - 1) = r /\ next' # 0 /\ l = script'[next']
      BY <1>2, <1>4, <1>7
    <2>6. AtCall'
      BY <1>5, <1>7, <2>2, <2>4, <2>5 DEF AtCall
    <2>. QED
      BY <1>10, <2>1, <2>6 DEF WithLive, AtRead, AtFinish, AtDone
  <1>13. CASE l.op # "call"
    <2>1. /\ Upto(script, n).calls = r.calls
          /\ Upto(script, n).frames
               = Append(r.frames, Frame(l.op, l.id, "in", Len(r.frames) + 1))
      BY <1>2, <1>3, <1>4, <1>13, LineByLine
    <2>2. /\ frames' = Upto(script', next').frames
          /\ call_index' = Len(Upto(script', next').calls)
      BY <1>5, <1>7, <2>1
    <2>3. /\ l.op = "final" => n = Len(script)
          /\ n = Len(script) => (Concluded(script) <=> l.op = "final")
      BY <1>3, <1>4, ScriptLines, WholeScript, ReplayAssumption
    <2>4. CASE l.op = "final"
      <3>1. FinalInTime
        BY <1>3, <1>5, <2>1, <2>3, <2>4, WholeScript, WholeSource DEF FinalInTime, Same
      <3>2. pc' = "finish" /\ protocol_error' = protocol_error
        BY <1>6, <2>4, <3>1 DEF TakeFrame
      <3>3. HasFinal'
        <4>1. PICK f : f = Frame(l.op, l.id, "in", seq + 1)
          OBVIOUS
        <4>2. PICK g : g = frames'
          OBVIOUS
        <4>3. g = Append(frames, f) /\ f.op = "final"
          BY <1>7, <2>4, <4>1, <4>2 DEF Frame
        <4>4. g # << >> /\ g[Len(g)] = f
          BY <1>8, <4>3
        <4>. QED
          BY <4>2, <4>3, <4>4 DEF HasFinal, Last
      <3>4. Concluded(script) /\ Last(script) = l
        <4>1. Concluded(script)
          BY <2>3, <2>4
        <4>. QED
          BY <1>3, <1>4, <2>3, <2>4, <4>1, WholeScript DEF Concluded
      <3>5. AtFinish'
        BY <1>7, <1>8, <2>2, <2>3, <2>4, <3>2, <3>3, <3>4 DEF AtFinish
      <3>. QED
        BY <1>10, <3>2, <3>5 DEF WithLive, AtRead, AtCall, AtDone
    <2>5. CASE l.op = "custom"
      <3>1. pc' = "read"
        BY <1>6, <2>5 DEF TakeFrame
      <3>2. Seen(validator', r.calls)
        <4>1. /\ validator'.seen_results = validator.seen_results
              /\ validator'.seen_calls = validator.seen_calls
              /\ validator'.last_call_id = validator.last_call_id
              /\ validator'.final_count = validator.final_count
          BY <1>7, <2>5 DEF Record
        <4>. QED
          BY <1>5, <4>1 DEF Seen
      <3>3. next' = Len(script') => ~Concluded(script')
        BY <1>7, <2>3, <2>5
      <3>4. AtRead'
        BY <1>7, <2>1, <2>2, <3>2, <3>3 DEF AtRead
      <3>. QED
        BY <1>10, <3>1, <3>4 DEF WithLive, AtCall, AtFinish, AtDone
    <2>. QED
      BY <1>11, <1>13, <2>4, <2>5
  <1>. QED
    BY <1>12, <1>13

\* The line of a call is the next call of the plan, and the source has its row.
LEMMA CallServed ==
  ASSUME ReplayInv, SourceIsLive, Same, WithLive, pc = "call"
  PROVE  /\ Expected(line) /\ call_index + 1 \in 1..Len(source.rows)
         /\ Row(line, Cassette(line.id).answer) = source.rows[call_index + 1]
  <1>1. PICK n : n = next
    OBVIOUS
  <1>2. PICK r : r = Upto(script, n - 1)
    OBVIOUS
  <1>3. script \in Scripts /\ Len(script) \in Nat /\ n \in 1..Len(script) /\ line = script[n]
    BY <1>1, WholeScript DEF SourceIsLive, WithLive, InStep, AtCall
  <1>4. call_index = Len(r.calls) /\ call_index \in Nat /\ line.op = "call" /\ SourceOK
    BY <1>1, <1>2 DEF WithLive, AtCall, ReplayInv, StageOK
  <1>5. PICK c : c = Calls(script)
    OBVIOUS
  <1>6. PICK d : d = Upto(script, n).calls
    OBVIOUS
  <1>7. /\ d = Append(r.calls, line) /\ r.calls \in Seq(ToSet(script)) /\ line \in ToSet(script)
        /\ n \in 0..Len(script)
    BY <1>2, <1>3, <1>4, <1>6, LineByLine, ScriptLines DEF LiveType
  <1>8. Len(d) = call_index + 1 /\ d[call_index + 1] = line
    BY <1>4, <1>7, AppendProperties
  <1>9. Len(d) <= Len(c) /\ \A i \in 1..Len(d) : c[i] = d[i]
    <2>1. Len(script) \in n..Len(script)
      BY <1>3
    <2>2. d = Exchanged(script)[n].calls /\ c = Exchanged(script)[Len(script)].calls
      BY <1>5, <1>6 DEF Upto, Calls
    <2>. QED
      BY <1>3, <1>7, <2>1, <2>2, CallsGrow
  <1>10. Len(c) \in Nat
    BY <1>3, <1>5, WholeScript
  <1>11. PICK k : k = call_index + 1
    OBVIOUS
  <1>12. k \in Nat /\ k \in 1..Len(d) /\ k \in 1..Len(c) /\ c[k] = line
    <2>1. k \in Nat /\ k \in 1..Len(d)
      BY <1>4, <1>8, <1>11
    <2>2. k \in 1..Len(c)
      BY <1>8, <1>9, <1>10, <1>11, <2>1
    <2>. QED
      BY <1>8, <1>9, <1>11, <2>1, <2>2
  <1>13. /\ Len(source.calls) = Len(c) /\ Len(source.rows) = Len(c)
         /\ DOMAIN source.rows = 1..Len(c)
         /\ source.calls[k] = line.id /\ source.rows[k].id = line.id
         /\ source.rows[k] = Row(line, source.rows[k].answer)
    BY <1>5, <1>12, WholeSource DEF Same
  <1>14. InCassette(line.id)
    BY <1>12, <1>13 DEF InCassette, ToSet
  <1>15. line.well
    BY <1>3, <1>4, ReplayAssumption, ScriptLines
  <1>16. call_index < Len(source.calls)
    BY <1>4, <1>10, <1>11, <1>12, <1>13
  <1>17. Expected(line)
    BY <1>11, <1>13, <1>14, <1>15, <1>16 DEF Expected
  <1>18. Cassette(line.id) = source.rows[k]
    BY <1>4, <1>11, <1>13, <1>14, <1>16, NextRow
  <1>. QED
    BY <1>11, <1>12, <1>13, <1>17, <1>18

\* A call and its result are logged one after the other.
LEMMA LogBoth ==
  ASSUME NEW S, NEW s \in Seq(S), NEW a \in S, NEW b \in S
  PROVE  Append(Append(s, a), b) = s \o <<a, b>> /\ Len(Append(s, a)) = Len(s) + 1
  <1>. DEFINE p == Append(Append(s, a), b)
              q == s \o <<a, b>>
  <1>1. p \in Seq(S) /\ q \in Seq(S) /\ Len(p) = Len(s) + 2 /\ Len(q) = Len(s) + 2
        /\ Len(s) \in Nat /\ Len(Append(s, a)) = Len(s) + 1
    OBVIOUS
  <1>2. ASSUME NEW k \in 1..Len(p) PROVE p[k] = q[k]
    <2>1. k \in 1..Len(s) \/ k = Len(s) + 1 \/ k = Len(s) + 2
      BY <1>1
    <2>. QED
      BY <1>1, <2>1
  <1>. HIDE DEF p, q
  <1>3. p = q
    BY <1>1, <1>2, SeqEqual
  <1>. QED
    BY <1>1, <1>3 DEF p, q

LEMMA SendResultInStep ==
  ASSUME ReplayInv, SourceIsLive, Same, WithLive, SendResult
  PROVE  WithLive'
  <1>1. PICK n : n = next
    OBVIOUS
  <1>2. PICK r : r = Upto(script, n - 1)
    OBVIOUS
  <1>3. PICK row : row = Row(line, Cassette(line.id).answer)
    OBVIOUS
  <1>4. pc = "call" /\ line.op = "call" /\ frames \in Seq(TraceFrame) /\ call_index \in Nat
        /\ result_rows \in Seq(RowType) /\ Len(result_rows) = call_index
    BY DEF SendResult, ReplayInv, StageOK
  <1>5. /\ script \in Scripts /\ Len(script) \in Nat /\ n \in 1..Len(script)
        /\ n \in 0..Len(script) /\ line = script[n] /\ line \in ToSet(script)
    BY <1>1, <1>4, WholeScript, ScriptLines DEF SourceIsLive, WithLive, InStep, AtCall
  <1>6. PICK a : a = Frame("call", line.id, "in", Len(r.frames) + 1)
    OBVIOUS
  <1>7. PICK b : b = Frame("result", line.id, "out", Len(r.frames) + 2)
    OBVIOUS
  <1>8. /\ frames = Append(r.frames, a) /\ call_index = Len(r.calls) /\ seq = Len(frames)
        /\ validator.seen_results = {r.calls[i].id : i \in 1..Len(r.calls)}
        /\ validator.seen_calls = validator.seen_results \cup {line.id}
        /\ validator.last_call_id = line.id /\ validator.final_count = 0
    BY <1>1, <1>2, <1>4, <1>6 DEF WithLive, InStep, AtCall
  <1>9. /\ Upto(script, n).calls = Append(r.calls, line)
        /\ Upto(script, n).frames = r.frames \o <<a, b>>
        /\ r.calls \in Seq(ToSet(script)) /\ r.frames \in Seq(TraceFrame)
    <2>1. r \in LiveType(script)
      BY <1>2, <1>5, LineByLine
    <2>2. script[n].op = "call"
      BY <1>4, <1>5
    <2>3. /\ Upto(script, n).calls = Append(r.calls, script[n])
          /\ Upto(script, n).frames = r.frames \o
               <<Frame("call", script[n].id, "in", Len(r.frames) + 1),
                 Frame("result", script[n].id, "out", Len(r.frames) + 2)>>
      BY <1>2, <1>5, <2>2, LineByLine
    <2>4. r.calls \in Seq(ToSet(script)) /\ r.frames \in Seq(TraceFrame)
      BY <2>1 DEF LiveType
    <2>. QED
      BY <1>5, <1>6, <1>7, <2>3, <2>4
  <1>10. a \in TraceFrame /\ b \in TraceFrame /\ Len(r.frames) \in Nat
    <2>1. line.id \in LineIds /\ Len(r.frames) \in Nat
      BY <1>5, <1>9, ScriptLines
    <2>. QED
      BY <1>6, <1>7, <2>1 DEF Frame, TraceFrame, Ops
  <1>11. seq = Len(r.frames) + 1 /\ seq + 1 = Len(r.frames) + 2
         /\ Append(frames, b) = Upto(script, n).frames
    BY <1>8, <1>9, <1>10, LogBoth
  <1>12. /\ pc' = "read" /\ next' = n /\ script' = script /\ source' = source
         /\ seq' = seq + 1 /\ call_index' = call_index + 1
         /\ frames' = Append(frames, b) /\ validator' = Record(validator, b)
         /\ result_rows' = Append(result_rows, row)
    BY <1>1, <1>3, <1>7, <1>11 DEF SendResult, sourceVars
  <1>13. frames' = Upto(script, n).frames /\ seq' = Len(frames')
    <2>1. frames' = r.frames \o <<a, b>>
      BY <1>9, <1>11, <1>12
    <2>2. Len(r.frames \o <<a, b>>) = Len(r.frames) + 2
      BY <1>9, <1>10
    <2>. QED
      BY <1>9, <1>11, <1>12, <2>1, <2>2
  <1>14. row = source.rows[call_index + 1] /\ row \in RowType
    <2>1. row = source.rows[call_index + 1]
      BY <1>3, <1>4, CallServed
    <2>2. result_rows' \in Seq(RowType) /\ Len(result_rows') = call_index + 1
      BY <1>12, SendResultReplays DEF ReplayInv, StageOK
    <2>3. PICK t : t = result_rows'
      OBVIOUS
    <2>4. t \in Seq(RowType) /\ Len(t) = Len(result_rows) + 1 /\ t = Append(result_rows, row)
      BY <1>4, <1>12, <2>2, <2>3
    <2>5. row = t[Len(result_rows) + 1] /\ Len(result_rows) + 1 \in 1..Len(t)
      BY <1>4, <2>4
    <2>6. t[Len(result_rows) + 1] \in RowType
      BY <2>4, <2>5
    <2>. QED
      BY <2>1, <2>5, <2>6
  <1>15. \A k \in 1..(call_index + 1) : result_rows'[k] = source.rows[k]
    <2>1. /\ \A k \in 1..call_index : Append(result_rows, row)[k] = result_rows[k]
          /\ Append(result_rows, row)[call_index + 1] = row
      BY <1>4, <1>14, AppendProperties
    <2>2. \A k \in 1..call_index : result_rows[k] = source.rows[k]
      BY DEF WithLive, InStep
    <2>3. \A k \in 1..(call_index + 1) : k \in 1..call_index \/ k = call_index + 1
      BY <1>4
    <2>. QED
      BY <1>12, <1>14, <2>1, <2>2, <2>3
  <1>16. InStep'
    BY <1>5, <1>12, <1>13, <1>15 DEF InStep
  <1>17. PICK d : d = Upto(script, n).calls
    OBVIOUS
  <1>18. Len(d) = Len(r.calls) + 1 /\ Len(r.calls) \in Nat
         /\ (\A i \in 1..Len(r.calls) : d[i] = r.calls[i]) /\ d[Len(r.calls) + 1] = line
    BY <1>5, <1>9, <1>17, AppendProperties
  <1>19. Seen(validator', d)
    <2>1. /\ validator'.seen_calls = validator.seen_calls
          /\ validator'.seen_results = validator.seen_results \cup {line.id}
          /\ validator'.last_call_id = line.id /\ validator'.final_count = 0
      BY <1>7, <1>8, <1>12 DEF Record, Frame
    <2>2. {d[i].id : i \in 1..Len(d)} = {r.calls[i].id : i \in 1..Len(r.calls)} \cup {line.id}
      <3>1. \A i \in 1..Len(d) : i \in 1..Len(r.calls) \/ i = Len(r.calls) + 1
        BY <1>18
      <3>2. 1..Len(r.calls) \subseteq 1..Len(d) /\ Len(r.calls) + 1 \in 1..Len(d)
        BY <1>18
      <3>. QED
        BY <1>18, <3>1, <3>2
    <2>. QED
      BY <1>8, <2>1, <2>2 DEF Seen
  <1>20. next' = Len(script') => ~Concluded(script')
    BY <1>4, <1>5, <1>12, WholeScript
  <1>21. AtRead'
    BY <1>8, <1>12, <1>13, <1>17, <1>18, <1>19, <1>20 DEF AtRead
  <1>. QED
    BY <1>12, <1>16, <1>21 DEF WithLive, AtCall, AtFinish, AtDone

LEMMA FinishInStep ==
  ASSUME ReplayInv, SourceIsLive, Same, WithLive, Finish
  PROVE  WithLive'
  <1>1. PICK n : n = Len(script)
    OBVIOUS
  <1>2. PICK r : r = Upto(script, n)
    OBVIOUS
  <1>3. pc = "finish" /\ frames \in Seq(TraceFrame) /\ call_index \in Nat /\ seq \in Nat
        /\ result_rows \in Seq(RowType) /\ Len(result_rows) = call_index
    BY DEF Finish, ReplayInv, StageOK
  <1>4. /\ ~protocol_error /\ planned /\ next = n /\ frames = r.frames
        /\ call_index = Len(r.calls) /\ (HasFinal <=> Concluded(script))
        /\ Concluded(script) => line = Last(script)
    BY <1>1, <1>2, <1>3 DEF WithLive, AtFinish
  <1>5. script \in Scripts /\ Undamaged /\ seq = Len(frames) /\ next \in 0..Len(script)
        /\ \A k \in 1..call_index : result_rows[k] = source.rows[k]
    BY DEF SourceIsLive, Same, WithLive, InStep
  <1>6. Calls(script) = r.calls
    BY <1>1, <1>2, <1>5, WholeScript
  <1>7. result_rows = source.rows
    <2>1. DOMAIN source.rows = 1..call_index
          /\ source.rows = [k \in 1..call_index |-> source.rows[k]]
      BY <1>4, <1>5, <1>6, WholeSource
    <2>2. result_rows = [k \in 1..call_index |-> result_rows[k]]
      BY <1>3
    <2>. QED
      BY <1>5, <2>1, <2>2
  <1>8. /\ pc' = "done" /\ next' = n /\ script' = script /\ source' = source
        /\ call_index' = call_index /\ result_rows' = result_rows
        /\ final_result' = [ok |-> HasFinal /\ line.ok, rows |-> result_rows]
    BY <1>4 DEF Finish, sourceVars
  <1>9. final_result' = source.final
    <2>1. source.final = [ok |-> Concluded(script) /\ Last(script).ok, rows |-> source.rows]
      BY <1>5, WholeSource
    <2>2. CASE Concluded(script)
      BY <1>4, <1>7, <1>8, <2>1, <2>2
    <2>3. CASE ~Concluded(script)
      BY <1>4, <1>7, <1>8, <2>1, <2>3
    <2>. QED
      BY <2>2, <2>3
  <1>10. ~protocol_error'
    <2>1. protocol_error' = (protocol_error \/ (planned /\ ~Parity(final_result')))
      BY DEF Finish
    <2>. QED
      BY <1>4, <1>9, <2>1 DEF Parity
  <1>11. frames' = source.frames /\ seq' = Len(frames')
    <2>1. source.frames = WholeTrace
      BY <1>5, WholeSource
    <2>2. CASE HasFinal
      BY <1>1, <1>2, <1>4, <1>5, <2>1, <2>2 DEF Finish, WholeTrace
    <2>3. CASE ~HasFinal
      <3>1. seq' = seq + 1 /\ frames' = Append(frames, Frame("final", NoId, "in", seq'))
        BY <2>3 DEF Finish
      <3>2. PICK f : f = Frame("final", NoId, "in", seq + 1)
        OBVIOUS
      <3>3. frames' = Append(frames, f)
        BY <3>1, <3>2
      <3>4. Len(Append(frames, f)) = Len(frames) + 1
        BY <1>3
      <3>. QED
        BY <1>1, <1>2, <1>4, <1>5, <2>1, <2>3, <3>1, <3>2, <3>3, <3>4 DEF WholeTrace
    <2>. QED
      BY <2>2, <2>3
  <1>12. MetaFits => outcome' = "returned"
    <2>1. ValidateTrace(frames')
      BY <1>5, <1>11 DEF Undamaged, ValidateStrictTrace
    <2>2. PICK room : room = IF HasFinal THEN line.metaRoom ELSE IF planned THEN MetaCap ELSE RowCap
      OBVIOUS
    <2>3. outcome' = IF Len(result_rows) <= room /\ ValidateTrace(frames')
                     THEN "returned" ELSE "raised"
      BY <2>2 DEF Finish
    <2>4. MetaFits => Len(result_rows) <= room
      BY <1>4, <1>7, <2>2 DEF MetaFits
    <2>. QED
      BY <2>1, <2>3, <2>4
  <1>13. InStep'
    BY <1>4, <1>5, <1>8, <1>11 DEF InStep
  <1>14. AtDone'
    BY <1>8, <1>10, <1>12 DEF AtDone, MetaFits
  <1>. QED
    BY <1>8, <1>13, <1>14 DEF WithLive, AtRead, AtCall, AtFinish

LEMMA OthersInStep ==
  ASSUME ReplayInv, SourceIsLive, Same, WithLive,
         BuildPlan \/ TakeEof \/ Refuse \/ Over \/ UNCHANGED vars
  PROVE  WithLive'
  <1>. USE DEF sourceVars, traceVars, endVars
  <1>1. CASE BuildPlan
    <2>1. ValidateStrictTrace(source.frames)
      BY DEF Same, Undamaged
    <2>2. /\ pc = "plan" /\ pc' = "read" /\ next' = next /\ script' = script /\ seq' = seq
          /\ source' = source /\ call_index' = call_index /\ frames' = frames
          /\ result_rows' = result_rows /\ validator' = validator
      BY <1>1, <2>1 DEF BuildPlan
    <2>3. InStep' /\ AtRead'
      BY <2>2 DEF WithLive, InStep, AtRead
    <2>. QED
      BY <2>2, <2>3 DEF WithLive, AtCall, AtFinish, AtDone
  <1>2. CASE TakeEof
    <2>1. /\ pc = "read" /\ pc' = "finish" /\ next' = next /\ script' = script /\ seq' = seq
          /\ source' = source /\ call_index' = call_index /\ frames' = frames
          /\ result_rows' = result_rows /\ validator' = validator /\ line' = line
          /\ protocol_error' = protocol_error /\ planned' = planned /\ next = Len(script)
      BY <1>2 DEF TakeEof, Same
    <2>2. ~protocol_error /\ planned /\ ~HasFinal
      BY <2>1 DEF ReplayInv, StageOK
    <2>3. InStep'
      BY <2>1 DEF WithLive, InStep
    <2>4. AtFinish'
      BY <2>1, <2>2 DEF WithLive, AtRead, AtFinish, HasFinal
    <2>. QED
      BY <2>1, <2>3, <2>4 DEF WithLive, AtRead, AtCall, AtDone
  <1>3. CASE Refuse
    BY <1>3, CallServed DEF Refuse
  <1>4. CASE Over \/ UNCHANGED vars
    <2>1. UNCHANGED vars
      BY <1>4 DEF Over
    <2>. QED
      BY <2>1 DEF vars, WithLive, InStep, AtRead, AtCall, AtFinish, AtDone, HasFinal, MetaFits
  <1>. QED
    BY <1>1, <1>2, <1>3, <1>4

LEMMA SameStep == ReplayInv /\ SameInv /\ [Next]_vars => SameInv'
  <1>. SUFFICES ASSUME ReplayInv, SameInv, [Next]_vars PROVE SameInv'
    OBVIOUS
  <1>1. UNCHANGED sourceVars
    BY DEF Next, BuildPlan, TakeFrame, TakeEof, TakeError, Refuse, SendResult, SendBreaks,
           Finish, Over, vars
  <1>2. SourceIsLive'
    BY <1>1, SameStays DEF SameInv
  <1>3. ASSUME Same' PROVE WithLive'
    <2>1. Same /\ ~disturbed'
      <3>1. faithful' = faithful /\ Undamaged' = Undamaged /\ (disturbed => disturbed')
        <4>1. disturbed => disturbed'
          BY DEF Next, BuildPlan, TakeFrame, TakeEof, TakeError, Refuse, SendResult, SendBreaks,
                 Finish, Over, vars
        <4>. QED
          BY <1>1, <4>1, SameStays DEF sourceVars
      <3>. QED
        BY <1>3, <3>1 DEF Same
    <2>2. SourceIsLive /\ WithLive
      BY <2>1 DEF SameInv
    <2>3. ~TakeError /\ ~SendBreaks
      BY <2>1 DEF TakeError, SendBreaks
    <2>4. CASE \E l \in Drift \cup ToSet(script) : TakeFrame(l)
      BY <2>1, <2>2, <2>4, TakeFrameInStep
    <2>5. CASE SendResult
      BY <2>1, <2>2, <2>5, SendResultInStep
    <2>6. CASE Finish
      BY <2>1, <2>2, <2>6, FinishInStep
    <2>7. CASE BuildPlan \/ TakeEof \/ Refuse \/ Over \/ UNCHANGED vars
      BY <2>1, <2>2, <2>7, OthersInStep
    <2>. QED
      BY <2>3, <2>4, <2>5, <2>6, <2>7 DEF Next
  <1>. QED
    BY <1>2, <1>3 DEF SameInv

LEMMA SameInit == Init => SameInv
  <1>. SUFFICES ASSUME Init PROVE SameInv
    OBVIOUS
  <1>1. SourceIsLive /\ script \in Scripts
    BY DEF Init, SourceIsLive
  <1>2. PICK r : r = Upto(script, 0)
    OBVIOUS
  <1>3. r = [frames |-> << >>, calls |-> << >>] /\ Len(script) \in Nat
    BY <1>1, <1>2, ExchangedUnrolls, ScriptLines DEF Upto
  <1>4. r.frames = << >> /\ r.calls = << >>
    BY <1>3
  <1>5. PICK z \in Nat : z = 0
    OBVIOUS
  <1>6. /\ next = z /\ pc = "plan" /\ call_index = z /\ seq = z /\ frames = << >>
        /\ validator = NewValidator
    BY <1>5 DEF Init
  <1>7. InStep
    BY <1>3, <1>5, <1>6 DEF InStep
  <1>8. Seen(validator, r.calls)
    <2>1. {r.calls[i].id : i \in 1..Len(r.calls)} = {}
      BY <1>4
    <2>. QED
      BY <1>6, <2>1 DEF Seen, NewValidator
  <1>9. z = Len(script) => ~Concluded(script)
    BY <1>1, <1>5, WholeScript
  <1>10. AtRead
    BY <1>2, <1>4, <1>5, <1>6, <1>8, <1>9 DEF AtRead
  <1>. QED
    BY <1>1, <1>6, <1>7, <1>10 DEF SameInv, WithLive, AtCall, AtFinish, AtDone

\* Replaying a program that has not changed finds no difference from the run it is
\* replayed from, unless a timeout or a broken pipe disturbs it, the source is damaged or
\* the final has no room for the parity metadata (run_replay in pirml/runtime/exec.py).
THEOREM SameProgramSameTrace == Spec => []SameProgramMatches
  <1>1. ReplayInv /\ SameInv => SameProgramMatches
    <2>. SUFFICES ASSUME ReplayInv, SameInv, outcome # "running", faithful, ~disturbed,
                         Undamaged, MetaFits
                  PROVE  outcome = "returned" /\ ~protocol_error
      BY DEF SameProgramMatches
    <2>1. pc = "done"
      BY DEF ReplayInv, StageOK
    <2>. QED
      BY <2>1 DEF SameInv, Same, WithLive, AtDone
  <1>2. Spec => []SameInv
    <2>1. (ReplayInv /\ SameInv) /\ [Next]_vars => SameInv'
      BY SameStep
    <2>. QED
      BY <2>1, SameInit, ReplayAlways, PTL DEF Spec
  <1>. QED
    BY <1>1, <1>2, ReplayAlways, PTL

-----------------------------------------------------------------------------
(* A replay implements RunLog                                              *)

LogEntry == [op : Ops, id : LineIds]

LEMMA LogTyped ==
  ASSUME NEW s \in Seq(TraceFrame)
  PROVE  /\ LogOf(s) \in Seq(LogEntry) /\ Len(LogOf(s)) = Len(s)
         /\ \A k \in 1..Len(s) : LogOf(s)[k] = Logged(s[k])
  <1>1. \A k \in 1..Len(s) : s[k] \in TraceFrame
    OBVIOUS
  <1>2. \A k \in 1..Len(s) : Logged(s[k]) \in LogEntry
    BY <1>1 DEF Logged, TraceFrame, LogEntry, LineIds
  <1>3. LogOf(s) = [k \in 1..Len(s) |-> Logged(s[k])]
    BY DEF LogOf
  <1>. QED
    BY <1>2, <1>3

\* Logging a frame adds its entry to the log.
LEMMA LogAppended ==
  ASSUME NEW s \in Seq(TraceFrame), NEW f \in TraceFrame
  PROVE  LogOf(Append(s, f)) = Append(LogOf(s), Logged(f))
  <1>. DEFINE a == LogOf(Append(s, f))
              b == Append(LogOf(s), Logged(f))
              n == Len(s)
  <1>1. /\ Append(s, f) \in Seq(TraceFrame) /\ Len(Append(s, f)) = n + 1 /\ n \in Nat
        /\ \A k \in 1..n : Append(s, f)[k] = s[k]
        /\ Append(s, f)[n + 1] = f
    BY AppendProperties
  <1>2. Logged(f) \in LogEntry
    BY DEF Logged, LogEntry, TraceFrame, LineIds
  <1>3. /\ a \in Seq(LogEntry) /\ Len(a) = n + 1
        /\ \A k \in 1..(n + 1) : a[k] = Logged(Append(s, f)[k])
    BY <1>1, LogTyped
  <1>4. /\ b \in Seq(LogEntry) /\ Len(b) = n + 1
        /\ \A k \in 1..n : b[k] = LogOf(s)[k]
        /\ b[n + 1] = Logged(f)
    BY <1>2, LogTyped, AppendProperties
  <1>. HIDE DEF a, b, n
  <1>5. \A k \in 1..n : LogOf(s)[k] = Logged(s[k])
    BY LogTyped DEF n
  <1>6. ASSUME NEW k \in 1..Len(a) PROVE a[k] = b[k]
    <2>1. CASE k = n + 1
      BY <1>1, <1>3, <1>4, <2>1
    <2>2. CASE k \in 1..n
      BY <1>1, <1>3, <1>4, <1>5, <2>2
    <2>. QED
      BY <1>1, <1>3, <2>1, <2>2
  <1>7. a = b
    BY <1>3, <1>4, <1>6, SeqEqual
  <1>. QED
    BY <1>7 DEF a, b

\* The log's own notions in the state of a replay.
LEMMA LogReads ==
  ASSUME ReplayInv
  PROVE  /\ Log!Sealed <=> HasFinal
         /\ Log!Open = (IF Unanswered THEN frames[Len(frames)].id ELSE NoId)
         /\ Verdict = "running" <=> outcome = "running"
         /\ Log!Accepting <=> outcome = "running" /\ ~HasFinal
  <1>1. frames \in Seq(TraceFrame)
    BY DEF ReplayInv, StageOK
  <1>2. /\ LogOf(frames) # << >> <=> frames # << >>
        /\ frames # << >> => LogOf(frames)[Len(LogOf(frames))] = Logged(frames[Len(frames)])
    <2>1. /\ LogOf(frames) \in Seq(LogEntry)
          /\ Len(LogOf(frames)) = Len(frames) /\ Len(frames) \in Nat
          /\ \A k \in 1..Len(frames) : LogOf(frames)[k] = Logged(frames[k])
      BY <1>1, LogTyped
    <2>2. /\ frames # << >> <=> Len(frames) > 0
          /\ LogOf(frames) # << >> <=> Len(LogOf(frames)) > 0
      BY <1>1, <2>1, EmptySeq
    <2>. QED
      BY <2>1, <2>2
  <1>3. \A f : Logged(f).op = f.op /\ (f.op = "call" => Logged(f).id = f.id)
    BY DEF Logged
  <1>4. Log!Sealed <=> HasFinal
    BY <1>2, <1>3 DEF Log!Sealed, HasFinal, Last
  <1>5. Log!Open = (IF Unanswered THEN frames[Len(frames)].id ELSE NoId)
    BY <1>2, <1>3 DEF Log!Open, Log!NoCall, Unanswered, NoId
  <1>6. Verdict = "running" <=> outcome = "running"
    BY DEF Verdict
  <1>. QED
    BY <1>4, <1>5, <1>6 DEF Log!Accepting

\* What leaves trace and verdict alone does not show in the log.
LEMMA NotLogged ==
  ASSUME UNCHANGED <<frames, outcome>>, outcome = "running",
         validator'.last_call_id = validator.last_call_id
  PROVE  UNCHANGED Log!logVars
  <1>1. Verdict' = Verdict
    BY DEF Verdict
  <1>. QED
    BY <1>1 DEF Log!logVars

\* A frame that is accepted is the next entry.
LEMMA TakeFrameLogs ==
  ASSUME ReplayInv, NEW l \in Drift \cup ToSet(script), TakeFrame(l)
  PROVE  [Log!LogNext]_(Log!logVars)
  <1>1. /\ outcome = "running" /\ outcome' = outcome /\ ~HasFinal /\ ~Unanswered
        /\ validator.seen_calls \subseteq validator.seen_results /\ seq \in Nat
        /\ frames \in Seq(TraceFrame)
    BY DEF TakeFrame, ReplayInv, StageOK, endVars
  <1>2. CASE ~Accepts(validator, l)
    <2>1. UNCHANGED <<frames, validator>>
      BY <1>2 DEF TakeFrame
    <2>. QED
      BY <1>1, <2>1, NotLogged
  <1>3. CASE Accepts(validator, l)
    <2>. DEFINE f == Frame(l.op, l.id, "in", seq + 1)
    <2>1. frames' = Append(frames, f) /\ validator' = Record(validator, l)
      BY <1>3 DEF TakeFrame
    <2>2. l.op \in {"call", "final", "custom"} /\ l \in Lines
      <3>1. l.op \in Ops /\ l.op # "result"
        BY <1>1, <1>3 DEF Accepts, AcceptsResult
      <3>2. l \in Lines
        BY WrittenLine DEF ReplayInv
      <3>. QED
        BY <3>1, <3>2 DEF Ops
    <2>3. f \in TraceFrame /\ f.op = l.op /\ f.id = l.id
      BY <1>1, <2>2 DEF Frame, TraceFrame, LineIds, Ops
    <2>. HIDE DEF f
    <2>4. LogOf(frames)' = Append(LogOf(frames), Logged(f))
      BY <1>1, <2>1, <2>3, LogAppended
    <2>5. Log!Accepting /\ Log!Open = Log!NoCall
      BY <1>1, LogReads DEF NoId, Log!NoCall
    <2>6. Verdict' = Verdict
      BY <1>1 DEF Verdict
    <2>7. CASE l.op = "call"
      <3>1. /\ l.id \in CallIds /\ l.id > validator.last_call_id
            /\ validator'.last_call_id = l.id
        <4>1. l.id # NoId /\ l.id > validator.last_call_id
          BY <1>3, <2>7 DEF Accepts, AcceptsCall
        <4>2. l.id \in CallIds
          BY <2>2, <4>1 DEF CallIds, Lines
        <4>. QED
          BY <2>1, <2>7, <4>1, <4>2 DEF Record
      <3>2. Logged(f) = Log!Entry("call", l.id)
        BY <2>3, <2>7 DEF Logged, Log!Entry
      <3>3. Log!LogCall(l.id)
        BY <2>4, <2>5, <2>6, <3>1, <3>2 DEF Log!LogCall
      <3>. QED
        BY <3>1, <3>3 DEF Log!LogNext
    <2>8. CASE l.op # "call"
      <3>1. validator'.last_call_id = validator.last_call_id
        BY <2>1, <2>8 DEF Record
      <3>2. Logged(f) = Log!Entry(l.op, Log!NoCall) /\ l.op \in {"custom", "final"}
        BY <2>2, <2>3, <2>8 DEF Logged, Log!Entry, Log!NoCall, NoId
      <3>3. Log!LogOther(l.op)
        BY <2>4, <2>5, <2>6, <3>1, <3>2 DEF Log!LogOther
      <3>. QED
        BY <3>2, <3>3 DEF Log!LogNext
    <2>. QED
      BY <2>7, <2>8
  <1>. QED
    BY <1>2, <1>3

\* The recorded answer is that of the open call.
LEMMA SendResultLogs ==
  ASSUME ReplayInv, SendResult
  PROVE  [Log!LogNext]_(Log!logVars)
  <1>. DEFINE f == Frame("result", line.id, "out", seq + 1)
  <1>1. /\ outcome = "running" /\ outcome' = outcome /\ ~HasFinal /\ Unanswered
        /\ frames[Len(frames)].id = line.id /\ line \in Lines /\ seq \in Nat
        /\ frames \in Seq(TraceFrame)
    BY DEF SendResult, ReplayInv, StageOK, endVars
  <1>2. Accepts(validator, f) /\ validator' = Record(validator, f) /\ frames' = Append(frames, f)
    BY DEF SendResult
  <1>3. f \in TraceFrame /\ f.op = "result" /\ f.id = line.id
    BY <1>1 DEF Frame, TraceFrame, LineIds, Ops
  <1>. HIDE DEF f
  <1>4. line.id # NoId
    BY <1>2, <1>3 DEF Accepts, AcceptsResult
  <1>5. LogOf(frames)' = Append(LogOf(frames), Logged(f))
    BY <1>1, <1>2, <1>3, LogAppended
  <1>6. Log!Accepting /\ Log!Open = line.id /\ Log!Open # Log!NoCall
    BY <1>1, <1>4, LogReads DEF NoId, Log!NoCall
  <1>7. Logged(f) = Log!Entry("result", line.id)
    BY <1>3 DEF Logged, Log!Entry
  <1>8. Verdict' = Verdict /\ validator'.last_call_id = validator.last_call_id
    BY <1>1, <1>2, <1>3 DEF Verdict, Record
  <1>9. Log!LogResult
    BY <1>5, <1>6, <1>7, <1>8 DEF Log!LogResult
  <1>. QED
    BY <1>9 DEF Log!LogNext

\* The end of the replay is the verdict, with a final made up if there is none.
LEMMA FinishLogs ==
  ASSUME ReplayInv, Finish
  PROVE  [Log!LogNext]_(Log!logVars)
  <1>1. /\ outcome = "running" /\ outcome' \in {"returned", "raised"} /\ validator' = validator
        /\ protocol_error \in BOOLEAN /\ seq \in Nat /\ frames \in Seq(TraceFrame)
        /\ Unanswered => protocol_error
    BY DEF Finish, ReplayInv, StageOK
  <1>2. protocol_error => protocol_error'
    BY DEF Finish
  <1>3. Verdict' \in Log!Verdicts /\ Verdict = "running"
    BY <1>1 DEF Verdict, Log!Verdicts
  <1>4. CASE HasFinal
    <2>1. UNCHANGED frames
      BY <1>4 DEF Finish
    <2>2. Log!Sealed
      BY <1>4, LogReads
    <2>3. Log!Conclude(Verdict')
      BY <1>1, <1>3, <2>1, <2>2 DEF Log!Conclude
    <2>. QED
      BY <1>3, <2>3 DEF Log!LogNext
  <1>5. CASE ~HasFinal
    <2>. DEFINE f == Frame("final", NoId, "in", seq + 1)
    <2>1. frames' = Append(frames, f) /\ final_result'.ok = FALSE
      BY <1>5 DEF Finish
    <2>2. f \in TraceFrame /\ f.op = "final"
      BY <1>1 DEF Frame, TraceFrame, LineIds, Ops
    <2>. HIDE DEF f
    <2>3. LogOf(frames)' = Append(LogOf(frames), Logged(f))
      BY <1>1, <2>1, <2>2, LogAppended
    <2>4. Logged(f) = Log!Entry("final", Log!NoCall)
      BY <2>2 DEF Logged, Log!Entry, Log!NoCall, NoId
    <2>5. Log!Accepting /\ (Log!Open # Log!NoCall => Unanswered)
      BY <1>1, <1>5, LogReads DEF NoId, Log!NoCall
    <2>6. Verdict' # "ok" /\ (Unanswered => Verdict' # "failed")
      BY <1>1, <1>2, <2>1 DEF Verdict
    <2>7. Log!Abort(Verdict')
      BY <1>1, <2>3, <2>4, <2>5, <2>6 DEF Log!Abort
    <2>. QED
      BY <1>3, <2>7 DEF Log!LogNext
  <1>. QED
    BY <1>4, <1>5

LEMMA OthersLog ==
  ASSUME ReplayInv,
         BuildPlan \/ TakeEof \/ TakeError \/ Refuse \/ SendBreaks \/ Over \/ UNCHANGED vars
  PROVE  [Log!LogNext]_(Log!logVars)
  <1>. USE DEF traceVars, endVars
  <1>1. CASE BuildPlan \/ TakeEof \/ TakeError \/ Refuse
    <2>1. UNCHANGED <<frames, outcome, validator>> /\ outcome = "running"
      BY <1>1 DEF BuildPlan, TakeEof, TakeError, Refuse, ReplayInv, StageOK
    <2>. QED
      BY <2>1, NotLogged
  <1>2. CASE SendBreaks
    <2>1. /\ UNCHANGED frames /\ outcome = "running" /\ outcome' \in {"running", "raised"}
          /\ validator'.last_call_id = validator.last_call_id
      <3>1. validator' = Record(validator, Frame("result", line.id, "out", seq'))
        BY <1>2 DEF SendBreaks
      <3>2. validator'.last_call_id = validator.last_call_id
        BY <3>1 DEF Record, Frame
      <3>. QED
        BY <1>2, <3>2 DEF SendBreaks, ReplayInv, StageOK
    <2>2. CASE outcome' = outcome
      BY <2>1, <2>2, NotLogged
    <2>3. CASE outcome' = "raised"
      <3>1. Log!Lose
        BY <2>1, <2>3 DEF Log!Lose, Verdict
      <3>. QED
        BY <3>1 DEF Log!LogNext
    <2>. QED
      BY <2>1, <2>2, <2>3
  <1>3. CASE Over \/ UNCHANGED vars
    <2>1. UNCHANGED <<frames, validator, outcome, protocol_error, final_result>>
      BY <1>3 DEF Over, vars
    <2>2. UNCHANGED Log!logVars
      BY <2>1 DEF Log!logVars, Verdict
    <2>. QED
      BY <2>2
  <1>. QED
    BY <1>1, <1>2, <1>3

\* A replay keeps the promises of RunLog, as a live run does.
THEOREM ReplayKeepsContract == Spec => ReplayContract
  <1>1. Init => Log!LogInit
    <2>. SUFFICES ASSUME Init PROVE Log!LogInit
      OBVIOUS
    <2>1. frames = << >> /\ validator = NewValidator /\ outcome = "running"
      BY DEF Init
    <2>2. LogOf(frames) = << >>
      BY <2>1 DEF LogOf
    <2>. QED
      BY <2>1, <2>2 DEF Log!LogInit, Log!NoCall, NewValidator, NoId, Verdict
  <1>2. ReplayInv /\ [Next]_vars => [Log!LogNext]_(Log!logVars)
    BY TakeFrameLogs, SendResultLogs, FinishLogs, OthersLog DEF Next
  <1>. QED
    BY <1>1, <1>2, ReplayAlways, PTL DEF Spec, ReplayContract, Log!LogSpec
=============================================================================
