------------------------ MODULE AnswerServer_proofs ------------------------
(***************************************************************************)
(* Theorems about AnswerServer for any number of slots, requests and       *)
(* tasks, and the lemmas about its deques.                                 *)
(***************************************************************************)
EXTENDS AnswerServer, Subsequences_proofs
-----------------------------------------------------------------------------
(***************************************************************************)
(* What the operations on a deque keep.                                    *)
(***************************************************************************)
(* cleanup_pending_task erases the tasks whose id_target is among the      *)
(* targets and nothing else.                                               *)
LEMMA CleanupKeeps ==
  ASSUME NEW M, NEW q \in Seq(M), NEW targets
  PROVE  /\ CleanupPending(q, targets) \in Seq(M)
         /\ Held(CleanupPending(q, targets)) = {m \in Held(q) : IdTarget(m) \notin targets}
<1> DEFINE kept == Kept(q, targets)
           n == Cardinality(kept)
           c == CleanupPending(q, targets)
<1>1. kept \in SUBSET DOMAIN q /\ c = Picked(q, kept)
  BY DEF Kept, CleanupPending
<1>2. PICK place \in [1 .. n -> kept] :
        /\ c \in Seq(M) /\ DOMAIN c = 1 .. n
        /\ \A k \in 1 .. n : c[k] = q[place[k]]
        /\ \A i \in kept : \E k \in 1 .. n : place[k] = i
  <2> HIDE DEF kept, c
  <2> QED
    BY <1>1, PickedIs
<1>3. ASSUME NEW m \in Held(c)
      PROVE  m \in Held(q) /\ IdTarget(m) \notin targets
  <2>1. PICK k \in 1 .. n : m = q[place[k]]
    BY <1>2 DEF Held
  <2>2. place[k] \in kept
    BY <2>1
  <2> QED
    BY <2>1, <2>2 DEF Held, Kept
<1>4. ASSUME NEW m \in Held(q), IdTarget(m) \notin targets
      PROVE  m \in Held(c)
  <2>1. PICK i \in kept : m = q[i]
    BY <1>4 DEF Held, Kept
  <2> QED
    BY <1>2, <2>1 DEF Held
<1> QED
  BY <1>2, <1>3, <1>4

(* What the deques hold after push_back, pop_front and a bulk post.        *)
LEMMA HeldAppend ==
  ASSUME NEW M, NEW q \in Seq(M), NEW m \in M
  PROVE  Append(q, m) \in Seq(M) /\ Held(Append(q, m)) = Held(q) \cup {m}
BY AppendProperties DEF Held

LEMMA HeldTail ==
  ASSUME NEW M, NEW q \in Seq(M), q # <<>>
  PROVE  /\ Head(q) \in M /\ Tail(q) \in Seq(M)
         /\ Held(q) = {Head(q)} \cup Held(Tail(q))
<1>1. /\ Head(q) \in M /\ Tail(q) \in Seq(M) /\ Len(q) \in Nat \ {0}
      /\ Head(q) = q[1] /\ DOMAIN q = 1 .. Len(q)
      /\ DOMAIN Tail(q) = 1 .. (Len(q) - 1)
      /\ \A i \in 1 .. (Len(q) - 1) : Tail(q)[i] = q[i + 1]
  BY HeadTailProperties, LenProperties, EmptySeq
<1>2. ASSUME NEW m \in Held(q)
      PROVE  m \in {Head(q)} \cup Held(Tail(q))
  <2>1. PICK i \in 1 .. Len(q) : m = q[i]
    BY <1>1 DEF Held
  <2>2. CASE i = 1
    BY <1>1, <2>1, <2>2
  <2>3. CASE i # 1
    <3>1. i - 1 \in 1 .. (Len(q) - 1) /\ Tail(q)[i - 1] = q[i]
      BY <1>1, <2>1, <2>3
    <3> QED
      BY <1>1, <2>1, <3>1 DEF Held
  <2> QED
    BY <2>2, <2>3
<1>3. ASSUME NEW m \in {Head(q)} \cup Held(Tail(q))
      PROVE  m \in Held(q)
  <2>1. CASE m = Head(q)
    <3>1. 1 \in DOMAIN q
      BY <1>1
    <3> QED
      BY <1>1, <2>1, <3>1 DEF Held
  <2>2. CASE m \in Held(Tail(q))
    <3>1. PICK i \in 1 .. (Len(q) - 1) : m = Tail(q)[i]
      BY <1>1, <2>2 DEF Held
    <3>2. i + 1 \in 1 .. Len(q) /\ m = q[i + 1]
      BY <1>1, <3>1
    <3> QED
      BY <1>1, <3>2 DEF Held
  <2> QED
    BY <1>3, <2>1, <2>2
<1> QED
  BY <1>1, <1>2, <1>3

LEMMA HeldConcat ==
  ASSUME NEW M, NEW p \in Seq(M), NEW q \in Seq(M)
  PROVE  p \o q \in Seq(M) /\ Held(p \o q) = Held(p) \cup Held(q)
<1>1. /\ p \o q \in Seq(M) /\ Len(p) \in Nat /\ Len(q) \in Nat
      /\ DOMAIN p = 1 .. Len(p) /\ DOMAIN q = 1 .. Len(q)
      /\ DOMAIN (p \o q) = 1 .. (Len(p) + Len(q))
      /\ \A i \in 1 .. (Len(p) + Len(q)) :
           (p \o q)[i] = IF i <= Len(p) THEN p[i] ELSE q[i - Len(p)]
  BY ConcatProperties, LenProperties
<1>2. ASSUME NEW m \in Held(p \o q)
      PROVE  m \in Held(p) \cup Held(q)
  <2>1. PICK i \in 1 .. (Len(p) + Len(q)) : m = (p \o q)[i]
    BY <1>1 DEF Held
  <2>2. CASE i <= Len(p)
    BY <1>1, <2>1, <2>2 DEF Held
  <2>3. CASE ~(i <= Len(p))
    <3>1. i - Len(p) \in 1 .. Len(q) /\ m = q[i - Len(p)]
      BY <1>1, <2>1, <2>3
    <3> QED
      BY <1>1, <3>1 DEF Held
  <2> QED
    BY <2>2, <2>3
<1>3. ASSUME NEW m \in Held(p)
      PROVE  m \in Held(p \o q)
  <2>1. PICK i \in 1 .. Len(p) : m = p[i]
    BY <1>1, <1>3 DEF Held
  <2>2. i \in 1 .. (Len(p) + Len(q)) /\ m = (p \o q)[i]
    BY <1>1, <2>1
  <2> QED
    BY <1>1, <2>2 DEF Held
<1>4. ASSUME NEW m \in Held(q)
      PROVE  m \in Held(p \o q)
  <2>1. PICK i \in 1 .. Len(q) : m = q[i]
    BY <1>1, <1>4 DEF Held
  <2>2. i + Len(p) \in 1 .. (Len(p) + Len(q)) /\ m = (p \o q)[i + Len(p)]
    BY <1>1, <2>1
  <2> QED
    BY <1>1, <2>2 DEF Held
<1> QED
  BY <1>1, <1>2, <1>3, <1>4
-----------------------------------------------------------------------------
(* The messages that make the main thread work for a task, as opposed to   *)
(* cancellations and NEXT_RESPONSE, and the tasks they are about.          *)
IsWork(msg)  == msg.type \in {"completion", "metrics"}
WorkIds(S)   == {msg.id : msg \in {x \in S : IsWork(x)}}

(* No task is in the deque twice. *)
Once(q) ==
  \A i, j \in DOMAIN q : IsWork(q[i]) /\ IsWork(q[j]) /\ q[i].id = q[j].id => i = j

LEMMA WorkIdsUnion ==
  ASSUME NEW S, NEW T
  PROVE  WorkIds(S \cup T) = WorkIds(S) \cup WorkIds(T)
BY DEF WorkIds

LEMMA OnceAppend ==
  ASSUME NEW M, NEW q \in Seq(M), NEW m \in M, Once(q),
         IsWork(m) => m.id \notin WorkIds(Held(q))
  PROVE  Once(Append(q, m))
<1>1. /\ Len(q) \in Nat /\ DOMAIN q = 1 .. Len(q)
      /\ DOMAIN Append(q, m) = 1 .. Len(q) + 1
      /\ \A i \in 1 .. Len(q) : Append(q, m)[i] = q[i]
      /\ Append(q, m)[Len(q) + 1] = m
  BY AppendProperties, LenProperties
<1>2. \A i \in DOMAIN q : IsWork(q[i]) => q[i].id \in WorkIds(Held(q))
  BY DEF WorkIds, Held
<1>3. \A i \in 1 .. Len(q) + 1 : i \in 1 .. Len(q) \/ i = Len(q) + 1
  BY <1>1
<1> QED
  BY <1>1, <1>2, <1>3 DEF Once

LEMMA OnceTail ==
  ASSUME NEW M, NEW q \in Seq(M), q # <<>>, Once(q)
  PROVE  /\ Once(Tail(q))
         /\ IsWork(Head(q)) => Head(q).id \notin WorkIds(Held(Tail(q)))
<1>1. /\ Len(q) \in Nat \ {0} /\ DOMAIN q = 1 .. Len(q) /\ Head(q) = q[1]
      /\ DOMAIN Tail(q) = 1 .. (Len(q) - 1)
      /\ \A i \in 1 .. (Len(q) - 1) : Tail(q)[i] = q[i + 1]
  BY HeadTailProperties, LenProperties, EmptySeq
<1>2. \A i \in 1 .. (Len(q) - 1) : i + 1 \in 1 .. Len(q) /\ i + 1 # 1
  BY <1>1
<1>3. 1 \in DOMAIN q
  BY <1>1
<1>4. ASSUME NEW i \in DOMAIN Tail(q), NEW j \in DOMAIN Tail(q),
             IsWork(Tail(q)[i]), IsWork(Tail(q)[j]), Tail(q)[i].id = Tail(q)[j].id
      PROVE  i = j
  <2>1. i \in 1 .. (Len(q) - 1) /\ j \in 1 .. (Len(q) - 1)
    BY <1>1
  <2>2. i + 1 = j + 1
    BY <1>1, <1>2, <1>4, <2>1 DEF Once
  <2> QED
    BY <1>1, <2>1, <2>2
<1>5. ASSUME IsWork(Head(q)), Head(q).id \in WorkIds(Held(Tail(q)))
      PROVE  FALSE
  <2>1. PICK i \in DOMAIN Tail(q) : IsWork(Tail(q)[i]) /\ Tail(q)[i].id = Head(q).id
    BY <1>5 DEF WorkIds, Held
  <2> QED
    BY <1>1, <1>2, <1>3, <1>5, <2>1 DEF Once
<1> QED
  BY <1>4, <1>5 DEF Once

LEMMA OnceConcat ==
  ASSUME NEW M, NEW p \in Seq(M), NEW q \in Seq(M), Once(p), Once(q),
         WorkIds(Held(p)) \cap WorkIds(Held(q)) = {}
  PROVE  Once(p \o q)
<1>1. /\ Len(p) \in Nat /\ Len(q) \in Nat
      /\ DOMAIN p = 1 .. Len(p) /\ DOMAIN q = 1 .. Len(q)
      /\ DOMAIN (p \o q) = 1 .. (Len(p) + Len(q))
      /\ \A i \in 1 .. (Len(p) + Len(q)) :
           (p \o q)[i] = IF i <= Len(p) THEN p[i] ELSE q[i - Len(p)]
  BY ConcatProperties, LenProperties
<1>2. \A i \in DOMAIN p : IsWork(p[i]) => p[i].id \in WorkIds(Held(p))
  BY DEF WorkIds, Held
<1>3. \A i \in DOMAIN q : IsWork(q[i]) => q[i].id \in WorkIds(Held(q))
  BY DEF WorkIds, Held
<1>4. ASSUME NEW i \in DOMAIN (p \o q), NEW j \in DOMAIN (p \o q),
             IsWork((p \o q)[i]), IsWork((p \o q)[j]), (p \o q)[i].id = (p \o q)[j].id
      PROVE  i = j
  <2>1. \A k \in DOMAIN (p \o q) :
          \/ k \in DOMAIN p /\ (p \o q)[k] = p[k]
          \/ k - Len(p) \in DOMAIN q /\ (p \o q)[k] = q[k - Len(p)]
    BY <1>1
  <2>2. CASE i \in DOMAIN p /\ (p \o q)[i] = p[i]
    BY <1>2, <1>3, <1>4, <2>1, <2>2 DEF Once
  <2>3. CASE i - Len(p) \in DOMAIN q /\ (p \o q)[i] = q[i - Len(p)]
    <3>1. CASE j \in DOMAIN p /\ (p \o q)[j] = p[j]
      BY <1>2, <1>3, <1>4, <2>3, <3>1
    <3>2. CASE j - Len(p) \in DOMAIN q /\ (p \o q)[j] = q[j - Len(p)]
      <4>1. i - Len(p) = j - Len(p)
        BY <1>4, <2>3, <3>2 DEF Once
      <4> QED
        BY <1>1, <4>1
    <3> QED
      BY <2>1, <3>1, <3>2
  <2> QED
    BY <2>1, <2>2, <2>3
<1> QED
  BY <1>4 DEF Once

(* cleanup_pending_task duplicates nothing. *)
LEMMA OnceCleanup ==
  ASSUME NEW M, NEW q \in Seq(M), NEW targets, Once(q)
  PROVE  Once(CleanupPending(q, targets))
<1> DEFINE kept == Kept(q, targets)
           n == Cardinality(kept)
           c == CleanupPending(q, targets)
<1>1. kept \in SUBSET DOMAIN q /\ c = Picked(q, kept)
  BY DEF Kept, CleanupPending
<1>2. PICK place \in [1 .. n -> kept] :
        /\ DOMAIN c = 1 .. n
        /\ \A k \in 1 .. n : c[k] = q[place[k]]
        /\ \A k, l \in 1 .. n : place[k] = place[l] => k = l
  <2> HIDE DEF kept, c
  <2> QED
    BY <1>1, PickedIs, SMTT(60)
<1> HIDE DEF kept, n, c
<1>3. \A k \in 1 .. n : place[k] \in DOMAIN q
  BY <1>1, <1>2
<1>4. ASSUME NEW i \in DOMAIN c, NEW j \in DOMAIN c,
             IsWork(c[i]), IsWork(c[j]), c[i].id = c[j].id
      PROVE  i = j
  <2>1. place[i] = place[j]
    BY <1>2, <1>3, <1>4 DEF Once
  <2> QED
    BY <1>2, <1>4, <2>1
<1>5. Once(c)
  BY <1>4 DEF Once
<1> QED
  BY <1>5 DEF c
-----------------------------------------------------------------------------

(* A busy slot works for a task, and a batch is made of busy slots.        *)
SlotsHoldTasks ==
  /\ \A s \in Slots : Busy(s) => slotTask[s] \in TaskIds
  /\ pc = "slots" => \A s \in todo : Busy(s)

TInv == TypeOK /\ SlotsHoldTasks
-----------------------------------------------------------------------------
(* The messages made for a task, and the tasks of a request.               *)
LEMMA MessageTypes ==
  /\ NextResponse \in Message
  /\ \A t \in TaskIds : {Completion(t), Cancel(t), Metrics(t)} \subseteq Message
  /\ \A msg \in Message : msg # NextResponse => msg.id \in TaskIds
BY DEF Message, Completion, Cancel, Metrics, NextResponse

LEMMA TaskTypes ==
  ASSUME NEW r \in Requests
  PROVE  /\ TasksOf[r] \in Seq(TaskIds)
         /\ TasksOf[r][1] \in TaskIds
         /\ DOMAIN TasksOf[r] = 1 .. Len(TasksOf[r])
         /\ Len(TasksOf[r]) \in Nat
         /\ OwnTasks(r) \subseteq TaskIds
         /\ \A i \in DOMAIN TasksOf[r] : TasksOf[r][i] \in TaskIds
<1>1. TasksOf[r] \in Seq(TaskIds) /\ TasksOf[r] # <<>>
  BY RequestAssumption
<1>2. Len(TasksOf[r]) \in Nat \ {0} /\ DOMAIN TasksOf[r] = 1 .. Len(TasksOf[r])
  BY <1>1, LenProperties, EmptySeq
<1>3. \A i \in 1 .. Len(TasksOf[r]) : TasksOf[r][i] \in TaskIds
  BY <1>1, ElementOfSeq
<1>4. 1 \in 1 .. Len(TasksOf[r])
  BY <1>2
<1> QED
  BY <1>1, <1>2, <1>3, <1>4 DEF OwnTasks, Held

(* The messages post builds from the tasks of a request.                   *)
LEMMA PostedTypes ==
  ASSUME NEW r \in Requests
  PROVE  /\ [i \in DOMAIN TasksOf[r] |-> Completion(TasksOf[r][i])] \in Seq(Message)
         /\ [i \in DOMAIN TasksOf[r] |-> Cancel(TasksOf[r][i])] \in Seq(Message)
         /\ <<Metrics(TasksOf[r][1])>> \in Seq(Message)
<1> DEFINE n == Len(TasksOf[r])
           posted == [i \in DOMAIN TasksOf[r] |-> Completion(TasksOf[r][i])]
           cancels == [i \in DOMAIN TasksOf[r] |-> Cancel(TasksOf[r][i])]
<1>1. posted \in [1 .. n -> Message] /\ cancels \in [1 .. n -> Message]
  BY TaskTypes, MessageTypes
<1>2. posted \in Seq(Message) /\ cancels \in Seq(Message)
  BY <1>1, TaskTypes, SeqDef
<1> QED
  BY <1>2, TaskTypes, MessageTypes

LEMMA SendType ==
  ASSUME TypeOK, NEW t, NEW kinds \in Seq(Kinds), Send(t, kinds)
  PROVE  results' \in [TaskIds -> Seq(Kinds)]
<1>1. CASE t \in waiting
  <2>1. results[t] \o kinds \in Seq(Kinds)
    BY <1>1, ConcatProperties DEF TypeOK
  <2> QED
    BY <1>1, <2>1 DEF Send, TypeOK
<1>2. CASE t \notin waiting
  BY <1>2 DEF Send, TypeOK
<1> QED
  BY <1>1, <1>2

LEMMA PopResultType ==
  ASSUME TypeOK, NEW t \in TaskIds, results[t] # <<>>,
         results' = [results EXCEPT ![t] = Tail(@)]
  PROVE  results' \in [TaskIds -> Seq(Kinds)]
BY HeadTailProperties DEF TypeOK

LEMMA ReleaseType ==
  ASSUME TypeOK, NEW s \in Slots, Release(s)
  PROVE  /\ queue' \in Seq(Message) /\ deferred' \in Seq(Message)
         /\ slotState' = [slotState EXCEPT ![s] = "idle"]
         /\ slotState' \in [Slots -> {"idle", "prompt", "gen"}]
<1>1. slotState' = [slotState EXCEPT ![s] = "idle"]
  <2>1. CASE Busy(s)
    BY <2>1 DEF Release
  <2>2. CASE ~Busy(s)
    <3>1. slotState' = slotState /\ slotState[s] = "idle"
      BY <2>2 DEF Release, Busy
    <3>2. slotState \in [Slots -> {"idle", "prompt", "gen"}]
      BY DEF TypeOK
    <3> QED
      BY <3>1, <3>2
  <2> QED
    BY <2>1, <2>2
<1>2. CASE ~Busy(s) \/ deferred = <<>>
  <2>1. queue' = queue /\ deferred' = deferred
    BY <1>2 DEF Release, PopDeferred, queueVars
  <2> QED
    BY <1>1, <2>1 DEF TypeOK
<1>3. CASE Busy(s) /\ deferred # <<>>
  <2>1. Head(deferred) \in Message /\ Tail(deferred) \in Seq(Message)
    BY <1>3, HeldTail DEF TypeOK
  <2>2. Append(queue, Head(deferred)) \in Seq(Message)
    BY <2>1, AppendProperties DEF TypeOK
  <2> QED
    BY <1>1, <1>3, <2>1, <2>2 DEF Release, PopDeferred, TypeOK
<1> QED
  BY <1>1, <1>2, <1>3 DEF TypeOK

LEMMA KindTypes ==
  /\ <<"final">> \in Seq(Kinds) /\ <<"error">> \in Seq(Kinds)
  /\ <<"metrics">> \in Seq(Kinds)
  /\ \A t : \A piece \in Piece(t) :
       piece \in Seq(Kinds) /\ piece \o <<"final">> \in Seq(Kinds)
<1>1. <<"final">> \in Seq(Kinds) /\ <<"error">> \in Seq(Kinds) /\ <<"metrics">> \in Seq(Kinds)
      /\ <<"partial">> \in Seq(Kinds) /\ <<>> \in Seq(Kinds)
  BY DEF Kinds
<1>2. \A t : \A piece \in Piece(t) : piece \in Seq(Kinds)
  BY <1>1 DEF Piece
<1> QED
  BY <1>1, <1>2, ConcatProperties
-----------------------------------------------------------------------------
LEMMA TypeInit == Init => TInv
<1> SUFFICES ASSUME Init PROVE TInv
  OBVIOUS
<1>1. queue \in Seq(Message) /\ deferred \in Seq(Message) /\ cur \in Message
  BY MessageTypes, EmptySeq DEF Init
<1>2. results \in [TaskIds -> Seq(Kinds)] /\ received \in [Requests -> Seq(TaskIds)]
  BY EmptySeq DEF Init
<1>3. /\ slotState \in [Slots -> {"idle", "prompt", "gen"}]
      /\ slotTask \in [Slots -> TaskIds \cup {NoTask}]
      /\ left \in [Slots -> Nat]
      /\ hpc \in [Requests -> {"new", "registered", "headers", "waiting", "cancelling",
                               "unregister", "done", "aborted"}]
      /\ answer \in [Requests -> {"none", "ok", "error", "closed"}]
  BY DEF Init
<1>4. TypeOK
  BY <1>1, <1>2, <1>3 DEF Init, TypeOK
<1> QED
  BY <1>4 DEF Init, TInv, SlotsHoldTasks, Busy

(* The main thread's steps keep the types. *)
LEMMA LoopType == TInv /\ Loop => TInv'
<1> SUFFICES ASSUME TInv, Loop PROVE TInv'
  OBVIOUS
<1> USE DEF loopVars, queueVars, slotVars, resultVars, handlerVars, history
<1>1. CASE StartLoop \/ EndDrain \/ Wake \/ EndLoop
  BY <1>1 DEF TInv, TypeOK, SlotsHoldTasks, Busy, StartLoop, EndDrain, Wake, EndLoop
<1>2. CASE TakeTask
  <2>1. cur' \in Message /\ queue' \in Seq(Message)
    BY <1>2, HeldTail DEF TInv, TypeOK, TakeTask
  <2> QED
    BY <1>2, <2>1 DEF TInv, TypeOK, SlotsHoldTasks, Busy, TakeTask
<1>3. ASSUME NEW s \in Slots, LaunchSlot(s)
      PROVE  TInv'
  <2>1. cur.id \in TaskIds /\ PromptBatches \in Nat
    BY <1>3, MessageTypes, SlotAssumption DEF TInv, TypeOK, LaunchSlot, Process, NextResponse
  <2> QED
    BY <1>3, <2>1 DEF TInv, TypeOK, SlotsHoldTasks, Busy, LaunchSlot, Process
<1>4. ASSUME NEW s \in Slots, LaunchFails(s)
      PROVE  TInv'
  <2>1. cur.id \in TaskIds
    BY <1>4, MessageTypes DEF TInv, TypeOK, LaunchFails, Process, NextResponse
  <2>2. results' \in [TaskIds -> Seq(Kinds)]
    BY <1>4, SendType, KindTypes DEF TInv, LaunchFails
  <2> QED
    BY <1>4, <2>1, <2>2 DEF TInv, TypeOK, SlotsHoldTasks, Busy, LaunchFails, Process
<1>5. CASE Defer
  <2>1. deferred' \in Seq(Message)
    BY <1>5, AppendProperties DEF TInv, TypeOK, Defer
  <2> QED
    BY <1>5, <2>1 DEF TInv, TypeOK, SlotsHoldTasks, Busy, Defer, Process
<1>6. ASSUME NEW s \in Slots, CancelSlot(s)
      PROVE  TInv'
  <2>1. /\ queue' \in Seq(Message) /\ deferred' \in Seq(Message)
        /\ slotState' = [slotState EXCEPT ![s] = "idle"]
        /\ slotState' \in [Slots -> {"idle", "prompt", "gen"}]
    BY <1>6, ReleaseType DEF TInv, CancelSlot
  <2> QED
    BY <1>6, <2>1 DEF TInv, TypeOK, SlotsHoldTasks, Busy, CancelSlot, Process
<1>7. CASE CancelNothing \/ SkipNext
  BY <1>7 DEF TInv, TypeOK, SlotsHoldTasks, Busy, CancelNothing, SkipNext, Process
<1>8. CASE ReportMetrics
  <2>1. results' \in [TaskIds -> Seq(Kinds)]
    BY <1>8, SendType, KindTypes DEF TInv, ReportMetrics
  <2> QED
    BY <1>8, <2>1 DEF TInv, TypeOK, SlotsHoldTasks, Busy, ReportMetrics, Process
<1>9. CASE AllIdle \/ DecodeFails \/ EndBatch
  BY <1>9 DEF TInv, TypeOK, SlotsHoldTasks, Busy, AllIdle, DecodeFails, EndBatch
<1>10. CASE StartBatch
  <2>1. queue' \in Seq(Message)
    BY <1>10, AppendProperties, MessageTypes DEF TInv, TypeOK, StartBatch
  <2> QED
    BY <1>10, <2>1 DEF TInv, TypeOK, SlotsHoldTasks, Busy, StartBatch
<1>11. ASSUME NEW s \in Slots, PromptAdvances(s)
       PROVE  TInv'
  BY <1>11 DEF TInv, TypeOK, SlotsHoldTasks, Busy, PromptAdvances, Visit
<1>12. ASSUME NEW s \in Slots, PromptEmpty(s) \/ PromptRejected(s) \/ ContextFull(s) \/ SampleLast(s)
       PROVE  TInv'
  <2>1. Visit(s) /\ Release(s)
    BY <1>12 DEF PromptEmpty, PromptRejected, ContextFull, SampleLast
  <2>2. /\ queue' \in Seq(Message) /\ deferred' \in Seq(Message)
        /\ slotState' = [slotState EXCEPT ![s] = "idle"]
        /\ slotState' \in [Slots -> {"idle", "prompt", "gen"}]
    BY <2>1, ReleaseType DEF TInv
  <2>3. results' \in [TaskIds -> Seq(Kinds)]
    BY <1>12, SendType, KindTypes DEF TInv, PromptEmpty, PromptRejected, ContextFull, SampleLast
  <2>4. slotTask[s] \in TaskIds
    BY <2>1 DEF Visit, TInv, SlotsHoldTasks
  <2>5. left' = left /\ finished' \subseteq TaskIds /\ failed' \subseteq TaskIds
    BY <1>12, <2>4 DEF TInv, TypeOK, PromptEmpty, PromptRejected, ContextFull,
       SampleLast
  <2> QED
    BY <2>1, <2>2, <2>3, <2>5 DEF TInv, TypeOK, SlotsHoldTasks, Busy, Visit
<1>13. ASSUME NEW s \in Slots, SampleToken(s)
       PROVE  TInv'
  <2>1. results' \in [TaskIds -> Seq(Kinds)]
    BY <1>13, SendType, KindTypes DEF TInv, SampleToken
  <2>2. Remaining(s) - 1 \in Nat
    BY <1>13, SlotAssumption DEF TInv, TypeOK, SampleToken, Remaining
  <2>3. slotTask[s] \in TaskIds
    BY <1>13 DEF SampleToken, Visit, TInv, SlotsHoldTasks
  <2> QED
    BY <1>13, <2>1, <2>2, <2>3 DEF TInv, TypeOK, SlotsHoldTasks, Busy, SampleToken, Visit
<1>14. ASSUME NEW s \in Slots, FailSlot(s)
       PROVE  TInv'
  <2>1. /\ queue' \in Seq(Message) /\ deferred' \in Seq(Message)
        /\ slotState' = [slotState EXCEPT ![s] = "idle"]
        /\ slotState' \in [Slots -> {"idle", "prompt", "gen"}]
    BY <1>14, ReleaseType DEF TInv, FailSlot
  <2>2. results' \in [TaskIds -> Seq(Kinds)]
    BY <1>14, SendType, KindTypes DEF TInv, FailSlot
  <2> QED
    BY <1>14, <2>1, <2>2 DEF TInv, TypeOK, SlotsHoldTasks, Busy, FailSlot
<1> QED
  BY <1>1, <1>2, <1>3, <1>4, <1>5, <1>6, <1>7, <1>8, <1>9, <1>10, <1>11, <1>12, <1>13, <1>14
     DEF Loop, ProcessTask, UpdateSlots

(* So do the steps of the handlers, the clients and the signal handler.    *)
LEMMA HandlerType ==
  ASSUME TInv, NEW r \in Requests,
         Register(r) \/ Handler(r) \/ StreamDropped(r) \/ ConnectionClosed(r)
  PROVE  TInv'
<1> USE DEF loopVars, queueVars, slotVars, resultVars, handlerVars, history
<1>1. OwnTasks(r) \subseteq TaskIds
  BY TaskTypes
<1>2. CASE Register(r)
  BY <1>1, <1>2 DEF TInv, TypeOK, SlotsHoldTasks, Busy, Register, Goto
<1>3. CASE Post(r) \/ PostThrows(r)
  <2>1. queue' = Posted(r)
    BY <1>3 DEF Post, PostThrows
  <2>2. queue' \in Seq(Message)
    BY <2>1, PostedTypes, ConcatProperties DEF TInv, TypeOK, Posted
  <2> QED
    BY <1>3, <2>2 DEF TInv, TypeOK, SlotsHoldTasks, Busy, Post, PostThrows, Goto
<1>4. ASSUME NEW told \in {"error", "closed"}, GiveUp(r, told)
      PROVE  TInv'
  BY <1>1, <1>4 DEF TInv, TypeOK, SlotsHoldTasks, Busy, GiveUp, Goto
<1>5. CASE ConnectionClosed(r)
  BY <1>4, <1>5 DEF ConnectionClosed
<1>6. CASE PostCancels(r)
  <2>1. queue' \in Seq(Message) /\ deferred' \in Seq(Message)
    BY <1>6, PostedTypes, ConcatProperties, CleanupKeeps DEF TInv, TypeOK, PostCancels
  <2> QED
    BY <1>6, <2>1 DEF TInv, TypeOK, SlotsHoldTasks, Busy, PostCancels, Goto
<1>7. ASSUME NEW t \in OwnTasks(r),
             ReceiveFinal(r, t) \/ ReceivePartial(r, t) \/ ReceiveMetrics(r, t)
      PROVE  TInv'
  <2>1. t \in TaskIds
    BY <1>1
  <2>2. results' \in [TaskIds -> Seq(Kinds)]
    BY <1>7, <2>1, PopResultType
       DEF TInv, ReceiveFinal, ReceivePartial, ReceiveMetrics, Pop
  <2>3. Append(received[r], t) \in Seq(TaskIds)
    BY <2>1, AppendProperties DEF TInv, TypeOK
  <2> QED
    BY <1>7, <2>2, <2>3 DEF TInv, TypeOK, SlotsHoldTasks, Busy,
       ReceiveFinal, ReceivePartial, ReceiveMetrics, Goto
<1>8. CASE Receive(r)
  BY <1>4, <1>7, <1>8 DEF Receive, ReceiveError
<1>9. CASE Unregister(r)
  BY <1>1, <1>9 DEF TInv, TypeOK, SlotsHoldTasks, Busy, Unregister, Goto
<1>10. CASE StreamBegins(r) \/ StreamDropped(r)
  BY <1>10 DEF TInv, TypeOK, SlotsHoldTasks, Busy, StreamBegins, StreamDropped, Goto
<1> QED
  BY <1>2, <1>3, <1>5, <1>6, <1>8, <1>9, <1>10 DEF Handler

LEMMA TypeStep == TInv /\ [Next]_vars => TInv'
<1> SUFFICES ASSUME TInv, [Next]_vars PROVE TInv'
  OBVIOUS
<1> USE DEF loopVars, queueVars, slotVars, resultVars, handlerVars, history
<1>1. CASE Terminate \/ TerminateStuck
  BY <1>1 DEF TInv, TypeOK, SlotsHoldTasks, Busy, Terminate, TerminateStuck
<1>2. CASE UNCHANGED vars
  BY <1>2 DEF vars, TInv, TypeOK, SlotsHoldTasks, Busy
<1> QED
  BY <1>1, <1>2, LoopType, HandlerType DEF Next

(* Every variable of the server keeps its type: in particular a slot's     *)
(* token budget never goes below zero.                                     *)
THEOREM TypeCorrect == Spec => []TypeOK
<1>1. TInv => TypeOK
  BY DEF TInv
<1> QED
  BY TypeInit, TypeStep, <1>1, PTL DEF Spec
-----------------------------------------------------------------------------
(***************************************************************************)
(* No task is lost: the theorem that a handler in its receive loop never   *)
(* waits for a result that nothing will produce.                           *)
(*                                                                         *)
(* The invariant is inductive together with two facts about the handlers:  *)
(* the ids of a waiting handler stay registered, so that send drops no     *)
(* result of it, and cancellations are only queued for tasks whose handler *)
(* has left, so that none takes a slot from an awaited task.               *)
(*                                                                         *)
(* Deferred tasks are never stranded, as long as every completion that is  *)
(* given a slot occupies it: no launch fails and every "id_slot" names a   *)
(* slot.  (The run LaunchStrands shows why the first is needed.)  And the  *)
(* loop never falls asleep over a busy slot, whatever fails.               *)
(***************************************************************************)
(* The ways in which the result of a task is still to come, or there. *)
Work(t)        == \E msg \in Pending : msg.type \in {"completion", "metrics"} /\ msg.id = t
Ended(t)       == Held(results[t]) \cap Terminal # {}
Outstanding(t) == Work(t) \/ Running(t) \/ Ended(t)

Deques == Held(queue) \cup Held(deferred)

(* No pending cancellation aims at t. *)
Undisturbed(t) == \A msg \in Pending : msg.type = "cancel" => msg.id # t

DInv == TInv /\ NoTaskLost /\ StaysRegistered /\ CancelsFollow
-----------------------------------------------------------------------------
(* Sending keeps what was queued, and a terminal result sent for an id     *)
(* that is waited for ends its task.                                       *)
LEMMA SendEnds ==
  ASSUME TypeOK, NEW t, NEW kinds \in Seq(Kinds), Send(t, kinds)
  PROVE  /\ \A u \in TaskIds : Ended(u) => Ended(u)'
         /\ t \in waiting /\ Held(kinds) \cap Terminal # {} => Ended(t)'
<1>1. CASE t \in waiting
  <2>1. results[t] \in Seq(Kinds)
    BY <1>1 DEF TypeOK
  <2>2. Held(results[t] \o kinds) = Held(results[t]) \cup Held(kinds)
    BY <2>1, HeldConcat
  <2>3. t \in TaskIds /\ results' = [results EXCEPT ![t] = results[t] \o kinds]
    BY <1>1 DEF Send, TypeOK
  <2>4. Held(results[t])' = Held(results[t]) \cup Held(kinds)
    BY <2>2, <2>3 DEF Held, TypeOK
  <2>5. \A u \in TaskIds \ {t} : results'[u] = results[u]
    BY <2>3 DEF TypeOK
  <2> QED
    BY <2>4, <2>5 DEF Ended
<1>2. CASE t \notin waiting
  BY <1>2 DEF Send, Ended
<1> QED
  BY <1>1, <1>2

(* Taking the head of a task's results, when it is partial, ends nothing.  *)
LEMMA PopKeepsEnd ==
  ASSUME TypeOK, NEW t \in TaskIds, results[t] # <<>>, Head(results[t]) = "partial",
         results' = [results EXCEPT ![t] = Tail(@)]
  PROVE  \A u \in TaskIds : Ended(u) => Ended(u)'
<1>1. Held(results[t]) = {"partial"} \cup Held(Tail(results[t]))
  BY HeldTail DEF TypeOK
<1>2. "partial" \notin Terminal
  BY DEF Terminal
<1>3. results'[t] = Tail(results[t]) /\ \A u \in TaskIds \ {t} : results'[u] = results[u]
  BY DEF TypeOK
<1> QED
  BY <1>1, <1>2, <1>3 DEF Ended

(* A release moves tasks between the two deques and drops none. *)
LEMMA ReleaseKeeps ==
  ASSUME TypeOK, NEW s \in Slots, Release(s)
  PROVE  Deques' = Deques
<1>1. CASE Busy(s) /\ deferred # <<>>
  <2>1. /\ Head(deferred) \in Message
        /\ Held(deferred) = {Head(deferred)} \cup Held(Tail(deferred))
    BY <1>1, HeldTail DEF TypeOK
  <2>2. Held(Append(queue, Head(deferred))) = Held(queue) \cup {Head(deferred)}
    BY <2>1, HeldAppend DEF TypeOK
  <2>3. queue' = Append(queue, Head(deferred)) /\ deferred' = Tail(deferred)
    BY <1>1 DEF Release, PopDeferred
  <2> QED
    BY <2>1, <2>2, <2>3 DEF Deques
<1>2. CASE ~Busy(s) \/ deferred = <<>>
  BY <1>2 DEF Release, PopDeferred, queueVars, Deques
<1> QED
  BY <1>1, <1>2
-----------------------------------------------------------------------------
(* What a step of the main thread may do to the tasks: no cancellation     *)
(* appears, and an awaited task that no cancellation aims at is kept.      *)
KeepsTasks ==
  /\ \A msg \in Pending' : msg \in Pending \/ msg = NextResponse
  /\ \A t \in waiting : Undisturbed(t) /\ Outstanding(t) => Outstanding(t)'

(* The steps of start_loop, and those of update_slots that touch no slot.  *)
LEMMA LoopMovesKeep ==
  ASSUME TInv,
         \/ StartLoop \/ TakeTask \/ EndDrain \/ Wake \/ EndLoop
         \/ AllIdle \/ StartBatch \/ DecodeFails \/ EndBatch
  PROVE  KeepsTasks
<1> USE DEF loopVars, queueVars, slotVars, resultVars, handlerVars, history
<1>1. CASE TakeTask
  <2>1. Held(queue) = {Head(queue)} \cup Held(Tail(queue))
    BY <1>1, HeldTail DEF TInv, TypeOK, TakeTask
  <2>2. Pending' = Pending
    BY <1>1, <2>1 DEF TakeTask, Pending, InHand
  <2> QED
    BY <1>1, <2>2 DEF KeepsTasks, Outstanding, Work, Running, Ended, Busy, TakeTask
<1>2. CASE StartBatch
  <2>1. Held(queue)' = Held(queue) \cup {NextResponse}
    BY <1>2, HeldAppend, MessageTypes DEF TInv, TypeOK, StartBatch
  <2>2. Pending' = Pending \cup {NextResponse}
    BY <1>2, <2>1 DEF StartBatch, Pending, InHand
  <2> QED
    BY <1>2, <2>2 DEF KeepsTasks, Outstanding, Work, Running, Ended, Busy, StartBatch
<1>3. CASE \/ StartLoop \/ EndDrain \/ Wake \/ EndLoop
           \/ AllIdle \/ DecodeFails \/ EndBatch
  <2>1. Pending' = Pending
    BY <1>3 DEF StartLoop, EndDrain, Wake, EndLoop, AllIdle, DecodeFails, EndBatch,
       Pending, InHand
  <2>2. UNCHANGED <<slotState, slotTask, results>>
    BY <1>3 DEF StartLoop, EndDrain, Wake, EndLoop, AllIdle, DecodeFails, EndBatch
  <2> QED
    BY <2>1, <2>2 DEF KeepsTasks, Outstanding, Work, Running, Ended, Busy
<1> QED
  BY <1>1, <1>2, <1>3

(* process_single_task: the task in hand is run, deferred or answered.     *)
LEMMA ProcessKeeps ==
  ASSUME TInv, ProcessTask
  PROVE  KeepsTasks
<1> USE DEF loopVars, queueVars, slotVars, resultVars, handlerVars, history
<1>1. Pending = Deques \cup {cur} /\ Pending' = Deques'
  BY DEF ProcessTask, LaunchSlot, LaunchFails, CancelSlot, Defer, CancelNothing, SkipNext,
     ReportMetrics, Process, Pending, InHand, Deques
<1>2. waiting \subseteq TaskIds
  BY DEF TInv, TypeOK
<1>3. ASSUME NEW s \in Slots, LaunchSlot(s)
      PROVE  KeepsTasks
  <2>1. Deques' = Deques /\ results' = results
    BY <1>3 DEF LaunchSlot, Deques
  <2>2. PICK c : c = cur.id
    OBVIOUS
  <2>3. /\ slotState' = [slotState EXCEPT ![s] = "prompt"]
        /\ slotTask' = [slotTask EXCEPT ![s] = c]
        /\ slotState[s] = "idle"
    BY <1>3, <2>2 DEF LaunchSlot, Busy
  <2>4. Running(c)'
    BY <2>3 DEF Running, Busy, TInv, TypeOK
  <2>5. \A t \in TaskIds : Running(t) => Running(t)'
    BY <2>3 DEF Running, Busy, TInv, TypeOK
  <2> QED
    BY <1>1, <1>2, <2>1, <2>2, <2>4, <2>5 DEF KeepsTasks, Outstanding, Work, Ended
<1>4. ASSUME NEW s \in Slots, LaunchFails(s)
      PROVE  KeepsTasks
  <2>1. Deques' = Deques
    BY <1>4 DEF LaunchFails, Deques
  <2>2. Held(<<"error">>) \cap Terminal # {}
    BY DEF Held, Terminal
  <2>3. PICK c : c = cur.id
    OBVIOUS
  <2>4. /\ \A u \in TaskIds : Ended(u) => Ended(u)'
        /\ c \in waiting => Ended(c)'
    BY <1>4, <2>2, <2>3, SendEnds, KindTypes DEF LaunchFails, TInv
  <2>5. /\ slotTask' = [slotTask EXCEPT ![s] = c]
        /\ slotState' = slotState /\ slotState[s] = "idle"
    BY <1>4, <2>3 DEF LaunchFails, Busy
  <2>6. \A t \in TaskIds : Running(t) => Running(t)'
    BY <2>5 DEF Running, Busy, TInv, TypeOK
  <2> QED
    BY <1>1, <1>2, <2>1, <2>3, <2>4, <2>6 DEF KeepsTasks, Outstanding, Work
<1>5. CASE Defer
  <2>1. Deques' = Deques \cup {cur}
    BY <1>5, HeldAppend DEF Defer, TInv, TypeOK, Deques
  <2> QED
    BY <1>1, <1>5, <2>1 DEF Defer, KeepsTasks, Outstanding, Work, Running, Busy, Ended
<1>6. ASSUME NEW s \in Slots, CancelSlot(s)
      PROVE  KeepsTasks
  <2>1. Deques' = Deques
    BY <1>6, ReleaseKeeps DEF CancelSlot, TInv
  <2>2. /\ slotState' = [slotState EXCEPT ![s] = "idle"]
        /\ UNCHANGED <<slotTask, results>>
    BY <1>6, ReleaseType DEF CancelSlot, TInv
  <2>3. cur.type = "cancel" /\ slotTask[s] = cur.id
    BY <1>6 DEF CancelSlot, Process
  <2>4. \A t : Undisturbed(t) => t # slotTask[s]
    BY <1>1, <2>3 DEF Undisturbed
  <2>5. \A t : Undisturbed(t) /\ Running(t) => Running(t)'
    BY <2>2, <2>4 DEF Running, Busy, TInv, TypeOK
  <2> QED
    BY <1>1, <2>1, <2>2, <2>3, <2>5 DEF KeepsTasks, Outstanding, Work, Ended
<1>7. CASE CancelNothing \/ SkipNext
  <2>1. UNCHANGED <<queue, deferred, slotState, slotTask, results>>
    BY <1>7 DEF CancelNothing, SkipNext
  <2>2. cur.type \in {"cancel", "next"}
    BY <1>7 DEF CancelNothing, SkipNext, Process
  <2> QED
    BY <1>1, <2>1, <2>2 DEF KeepsTasks, Outstanding, Work, Running, Busy, Ended, Deques
<1>8. CASE ReportMetrics
  <2>1. Held(<<"metrics">>) \cap Terminal # {}
    BY DEF Held, Terminal
  <2>2. PICK c : c = cur.id
    OBVIOUS
  <2>3. /\ \A u \in TaskIds : Ended(u) => Ended(u)'
        /\ c \in waiting => Ended(c)'
    BY <1>8, <2>1, <2>2, SendEnds, KindTypes DEF ReportMetrics, TInv
  <2>4. UNCHANGED <<queue, deferred, slotState, slotTask>>
    BY <1>8 DEF ReportMetrics
  <2>5. Deques' = Deques /\ \A t : Running(t) => Running(t)'
    BY <2>4 DEF Deques, Running, Busy
  <2> QED
    BY <1>1, <1>2, <2>2, <2>3, <2>5 DEF KeepsTasks, Outstanding, Work
<1> QED
  BY <1>3, <1>4, <1>5, <1>6, <1>7, <1>8 DEF ProcessTask

(* The steps of update_slots on one slot: a slot that stops working for a  *)
(* task has sent its end.                                                  *)
LEMMA SlotStepKeeps ==
  ASSUME TInv, NEW s \in Slots,
         \/ PromptAdvances(s) \/ PromptEmpty(s) \/ PromptRejected(s) \/ ContextFull(s)
         \/ SampleToken(s) \/ SampleLast(s) \/ FailSlot(s)
  PROVE  KeepsTasks
<1> USE DEF loopVars, queueVars, slotVars, resultVars, handlerVars, history
<1>1. waiting \subseteq TaskIds
  BY DEF TInv, TypeOK
<1>2. CASE PromptAdvances(s)
  BY <1>2 DEF PromptAdvances, Visit, KeepsTasks, Outstanding, Work, Pending, InHand,
     Running, Busy, Ended
<1>3. CASE SampleToken(s)
  <2>1. Pending' = Pending /\ slotTask' = slotTask
    BY <1>3 DEF SampleToken, Visit, Pending, InHand
  <2>2. \A t : Running(t) => Running(t)'
    BY <1>3 DEF SampleToken, Visit, Running, Busy, TInv, TypeOK
  <2>3. PICK piece \in Piece(slotTask[s]) : Send(slotTask[s], piece)
    BY <1>3 DEF SampleToken
  <2>4. \A u \in TaskIds : Ended(u) => Ended(u)'
    BY <2>3, SendEnds, KindTypes DEF TInv
  <2> QED
    BY <1>1, <2>1, <2>2, <2>4 DEF KeepsTasks, Outstanding, Work
<1>4. ASSUME Release(s), slotTask' = slotTask, pc' = pc, pc # "task",
             NEW kinds \in Seq(Kinds), Send(slotTask[s], kinds),
             Held(kinds) \cap Terminal # {}
      PROVE  KeepsTasks
  <2>1. Pending' = Pending
    BY <1>4, ReleaseKeeps DEF TInv, Pending, InHand, Deques
  <2>2. slotState' = [slotState EXCEPT ![s] = "idle"]
    BY <1>4, ReleaseType DEF TInv
  <2>3. PICK c : c = slotTask[s]
    OBVIOUS
  <2>4. /\ \A u \in TaskIds : Ended(u) => Ended(u)'
        /\ c \in waiting => Ended(c)'
    BY <1>4, <2>3, SendEnds DEF TInv
  <2>5. \A t : Running(t) /\ t # c => Running(t)'
    BY <1>4, <2>2, <2>3 DEF Running, Busy, TInv, TypeOK
  <2> QED
    BY <1>1, <2>1, <2>4, <2>5 DEF KeepsTasks, Outstanding, Work
<1>5. Held(<<"final">>) \cap Terminal # {} /\ Held(<<"error">>) \cap Terminal # {}
  <2>1. ASSUME NEW kind
        PROVE  kind \in Held(<<kind>>)
    <3>1. 1 \in DOMAIN <<kind>> /\ <<kind>>[1] = kind
      OBVIOUS
    <3> QED
      BY <3>1 DEF Held
  <2> QED
    BY <2>1 DEF Terminal
<1>6. CASE PromptEmpty(s) \/ PromptRejected(s) \/ ContextFull(s)
  BY <1>4, <1>5, <1>6, KindTypes DEF PromptEmpty, PromptRejected, ContextFull, Visit
<1>7. CASE SampleLast(s)
  <2>1. PICK piece \in Piece(slotTask[s]) : Send(slotTask[s], piece \o <<"final">>)
    BY <1>7 DEF SampleLast
  <2>2. piece \in Seq(Kinds) /\ <<"final">> \in Seq(Kinds)
        /\ piece \o <<"final">> \in Seq(Kinds)
    BY KindTypes
  <2>3. Held(piece \o <<"final">>) = Held(piece) \cup Held(<<"final">>)
    BY <2>2, HeldConcat, ZenonT(60)
  <2>4. Held(piece \o <<"final">>) \cap Terminal # {}
    BY <1>5, <2>3
  <2> QED
    BY <1>4, <1>7, <2>1, <2>2, <2>4 DEF SampleLast, Visit
<1>8. CASE FailSlot(s)
  BY <1>4, <1>5, <1>8, KindTypes DEF FailSlot
<1> QED
  BY <1>2, <1>3, <1>6, <1>7, <1>8

LEMMA LoopKeeps == TInv /\ Loop => KeepsTasks
BY LoopMovesKeep, ProcessKeeps, SlotStepKeeps DEF Loop, UpdateSlots
-----------------------------------------------------------------------------
(* The messages post makes for a request carry its tasks. *)
LEMMA PostedHeld ==
  ASSUME NEW r \in Requests
  PROVE  /\ Held([i \in DOMAIN TasksOf[r] |-> Completion(TasksOf[r][i])])
              = {Completion(t) : t \in OwnTasks(r)}
         /\ Held([i \in DOMAIN TasksOf[r] |-> Cancel(TasksOf[r][i])])
              = {Cancel(t) : t \in OwnTasks(r)}
         /\ Held(<<Metrics(TasksOf[r][1])>>) = {Metrics(TasksOf[r][1])}
<1> DEFINE D == DOMAIN TasksOf[r]
           posted == [i \in D |-> Completion(TasksOf[r][i])]
           cancels == [i \in D |-> Cancel(TasksOf[r][i])]
<1>1. DOMAIN posted = D /\ \A i \in D : posted[i] = Completion(TasksOf[r][i])
  OBVIOUS
<1>2. DOMAIN cancels = D /\ \A i \in D : cancels[i] = Cancel(TasksOf[r][i])
  OBVIOUS
<1>3. OwnTasks(r) = {TasksOf[r][i] : i \in D}
  BY DEF OwnTasks, Held
<1> HIDE DEF posted, cancels, D
<1>4. Held(posted) = {Completion(t) : t \in OwnTasks(r)}
  BY <1>1, <1>3 DEF Held
<1>5. Held(cancels) = {Cancel(t) : t \in OwnTasks(r)}
  BY <1>2, <1>3 DEF Held
<1>6. Held(<<Metrics(TasksOf[r][1])>>) = {Metrics(TasksOf[r][1])}
  BY DEF Held
<1> QED
  BY <1>4, <1>5, <1>6 DEF posted, cancels, D

(* The three facts, request by request. *)
Served(r) ==
  /\ hpc[r] \in {"headers", "waiting"} =>
       \A t \in OwnTasks(r) \ Held(received[r]) : Outstanding(t)
  /\ hpc[r] \in {"registered", "headers", "waiting", "unregister"} =>
       OwnTasks(r) \subseteq waiting
  /\ \A msg \in Pending : msg.type = "cancel" /\ msg.id \in OwnTasks(r) => hpc[r] = "done"

LEMMA ServedIsInv ==
  NoTaskLost /\ StaysRegistered /\ CancelsFollow <=> \A r \in Requests : Served(r)
BY DEF NoTaskLost, StaysRegistered, CancelsFollow, Served, Outstanding, Work, Ended

LEMMA ServedIsInvNext ==
  (NoTaskLost /\ StaysRegistered /\ CancelsFollow)' <=> \A r \in Requests : Served(r)'
BY DEF NoTaskLost, StaysRegistered, CancelsFollow, Served, Outstanding, Work, Ended

(* A step of the main thread leaves the handlers where they are. *)
LEMMA LoopServes ==
  ASSUME DInv, Loop
  PROVE  \A r \in Requests : Served(r)'
<1>1. UNCHANGED <<hpc, received, waiting>>
  BY DEF Loop, StartLoop, TakeTask, EndDrain, Wake, EndLoop, ProcessTask, LaunchSlot,
     LaunchFails, CancelSlot, Defer, CancelNothing, SkipNext, ReportMetrics, Process,
     UpdateSlots, AllIdle, StartBatch, DecodeFails, EndBatch, PromptAdvances, PromptEmpty,
     PromptRejected, ContextFull, SampleToken, SampleLast, FailSlot, Visit, handlerVars, resultVars
<1>2. KeepsTasks
  BY LoopKeeps DEF DInv
<1>3. \A r \in Requests : Served(r)
  BY ServedIsInv DEF DInv
<1>4. SUFFICES ASSUME NEW r \in Requests PROVE Served(r)'
  OBVIOUS
<1>5. ASSUME hpc[r] \in {"headers", "waiting"}, NEW t \in OwnTasks(r) \ Held(received[r])
      PROVE  Outstanding(t)'
  <2>1. Outstanding(t) /\ t \in waiting
    BY <1>3, <1>5 DEF Served
  <2>2. Undisturbed(t)
    BY <1>3, <1>5 DEF Served, Undisturbed
  <2> QED
    BY <1>2, <2>1, <2>2 DEF KeepsTasks
<1>6. \A msg \in Pending' : msg.type = "cancel" => msg \in Pending
  BY <1>2 DEF KeepsTasks, NextResponse
<1> QED
  BY <1>1, <1>3, <1>5, <1>6 DEF Served

(* A step of one handler leaves the tasks of the others alone. *)
LEMMA OthersServed ==
  ASSUME DInv, NEW r \in Requests,
         \A r2 \in Requests \ {r} : hpc'[r2] = hpc[r2] /\ received'[r2] = received[r2],
         UNCHANGED <<slotState, slotTask>>,
         \A msg \in Pending : msg.type # "cancel" => msg \in Pending',
         \A msg \in Pending' :
           msg.type = "cancel" => msg \in Pending \/ msg.id \in OwnTasks(r),
         \A t \in TaskIds \ OwnTasks(r) : /\ Ended(t) => Ended(t)'
                                          /\ t \in waiting => t \in waiting'
  PROVE  \A r2 \in Requests \ {r} : Served(r2)'
<1> SUFFICES ASSUME NEW r2 \in Requests \ {r} PROVE Served(r2)'
  OBVIOUS
<1>1. OwnTasks(r2) \subseteq TaskIds \ OwnTasks(r)
  BY TaskTypes, RequestAssumption
<1>2. Served(r2)
  BY ServedIsInv DEF DInv
<1>3. \A t \in TaskIds \ OwnTasks(r) : Outstanding(t) => Outstanding(t)'
  BY DEF Outstanding, Work, Running, Busy
<1> QED
  BY <1>1, <1>2, <1>3 DEF Served

LEMMA HandlerServes ==
  ASSUME DInv, NEW r \in Requests,
         Register(r) \/ Handler(r) \/ StreamDropped(r) \/ ConnectionClosed(r)
  PROVE  \A r2 \in Requests : Served(r2)'
<1> USE DEF loopVars, queueVars, slotVars, resultVars, handlerVars, history
<1>1. TypeOK /\ Served(r) /\ OwnTasks(r) \subseteq TaskIds
  BY ServedIsInv, TaskTypes DEF DInv, TInv
<1>2. CASE Register(r)
  <2>1. Pending' = Pending /\ UNCHANGED <<slotState, slotTask, results, received>>
    BY <1>2 DEF Register, Pending, InHand
  <2>2. hpc' = [hpc EXCEPT ![r] = "registered"] /\ waiting' = waiting \cup OwnTasks(r)
        /\ hpc[r] = "new"
    BY <1>2 DEF Register, Goto
  <2>3. \A r2 \in Requests \ {r} : Served(r2)'
    BY <2>1, <2>2, OthersServed DEF Ended, TypeOK, TInv, DInv
  <2>4. Served(r)'
    BY <1>1, <2>1, <2>2 DEF Served, TypeOK
  <2> QED
    BY <2>3, <2>4
<1>3. CASE Post(r) \/ PostThrows(r)
  <2> DEFINE posted == [i \in DOMAIN TasksOf[r] |-> Completion(TasksOf[r][i])]
             query == <<Metrics(TasksOf[r][1])>>
             new == IF r \in Monitor THEN Held(query) ELSE Held(posted)
  <2>1. /\ UNCHANGED <<pc, cur, deferred, slotState, slotTask, results, received, waiting>>
        /\ \E to \in {"done", "headers", "waiting"} : hpc' = [hpc EXCEPT ![r] = to]
        /\ hpc[r] = "registered"
    BY <1>3 DEF Post, PostThrows, Goto
  <2>2. Held(query \o queue) = Held(query) \cup Held(queue)
        /\ Held(queue \o posted) = Held(queue) \cup Held(posted)
    <3>1. query \in Seq(Message) /\ posted \in Seq(Message) /\ queue \in Seq(Message)
      BY <1>1, PostedTypes DEF TypeOK
    <3> HIDE DEF query, posted
    <3> QED
      BY <3>1, HeldConcat
  <2>3. Pending' = Pending \cup new
    BY <1>3, <2>1, <2>2 DEF Post, PostThrows, Posted, Pending, InHand
  <2>4. /\ \A msg \in new : msg.type # "cancel"
        /\ \A t \in OwnTasks(r) : \E msg \in new :
             msg.type \in {"completion", "metrics"} /\ msg.id = t
    <3>1. CASE r \in Monitor
      <4>1. DOMAIN TasksOf[r] = {1}
        BY <3>1, TaskTypes, RequestAssumption
      <4>2. OwnTasks(r) = {TasksOf[r][1]} /\ Held(query) = {Metrics(TasksOf[r][1])}
        BY <4>1, PostedHeld DEF OwnTasks, Held
      <4> QED
        BY <3>1, <4>2 DEF Metrics
    <3>2. CASE r \notin Monitor
      <4>1. new = {Completion(t) : t \in OwnTasks(r)}
        BY <3>2, PostedHeld
      <4>2. \A t : Completion(t).type = "completion" /\ Completion(t).id = t
        BY DEF Completion
      <4> HIDE DEF new
      <4> QED
        BY <4>1, <4>2
    <3> QED
      BY <3>1, <3>2
  <2> HIDE DEF new
  <2>5. \A r2 \in Requests \ {r} : Served(r2)'
    BY <2>1, <2>3, <2>4, OthersServed DEF Ended, TypeOK, TInv, DInv
  <2>6. \A t \in OwnTasks(r) : Outstanding(t)'
    BY <2>3, <2>4 DEF Outstanding, Work
  <2>7. Served(r)'
    BY <1>1, <2>1, <2>3, <2>4, <2>6 DEF Served, TypeOK
  <2> QED
    BY <2>5, <2>7
<1>4. ASSUME NEW told, GiveUp(r, told)
      PROVE  \A r2 \in Requests : Served(r2)'
  <2>1. Pending' = Pending /\ UNCHANGED <<slotState, slotTask, received>>
    BY <1>4 DEF GiveUp, Pending, InHand
  <2>2. /\ hpc' = [hpc EXCEPT ![r] = "cancelling"] /\ hpc[r] = "waiting"
        /\ waiting' = waiting \ OwnTasks(r)
        /\ \A t \in TaskIds \ OwnTasks(r) : results'[t] = results[t]
    BY <1>4 DEF GiveUp, Goto
  <2>3. \A r2 \in Requests \ {r} : Served(r2)'
    BY <2>1, <2>2, OthersServed DEF Ended, TypeOK, TInv, DInv
  <2>4. Served(r)'
    BY <1>1, <2>1, <2>2 DEF Served, TypeOK
  <2> QED
    BY <2>3, <2>4
<1>5. CASE ConnectionClosed(r)
  BY <1>4, <1>5 DEF ConnectionClosed
<1>6. CASE PostCancels(r)
  <2> DEFINE cancels == [i \in DOMAIN TasksOf[r] |-> Cancel(TasksOf[r][i])]
             rest(q) == CleanupPending(q, OwnTasks(r))
  <2>1. /\ UNCHANGED <<pc, cur, slotState, slotTask, results, received, waiting>>
        /\ queue' = cancels \o rest(queue) /\ deferred' = rest(deferred)
        /\ hpc' = [hpc EXCEPT ![r] = "done"]
    BY <1>6 DEF PostCancels, Goto
  <2>2. /\ rest(queue) \in Seq(Message)
        /\ Held(rest(queue)) = {msg \in Held(queue) : IdTarget(msg) \notin OwnTasks(r)}
        /\ Held(rest(deferred)) = {msg \in Held(deferred) : IdTarget(msg) \notin OwnTasks(r)}
    BY <1>1, CleanupKeeps DEF TypeOK
  <2>3. Held(cancels \o rest(queue)) = Held(cancels) \cup Held(rest(queue))
    <3>1. cancels \in Seq(Message)
      BY PostedTypes
    <3> HIDE DEF cancels, rest
    <3> QED
      BY <2>2, <3>1, HeldConcat
  <2>4. \A msg \in Held(cancels) : msg.type = "cancel" /\ msg.id \in OwnTasks(r)
    <3>1. Held(cancels) = {Cancel(t) : t \in OwnTasks(r)}
      BY PostedHeld
    <3> HIDE DEF cancels
    <3> QED
      BY <3>1 DEF Cancel
  <2>5. Pending' = Held(cancels) \cup Held(rest(queue)) \cup Held(rest(deferred)) \cup InHand
    BY <2>1, <2>3 DEF Pending, InHand
  <2>6. \A msg \in Pending : msg.type # "cancel" => msg \in Pending'
    BY <1>1, <2>2, <2>5, NoTaskAssumption DEF Pending, IdTarget
  <2>7. \A msg \in Pending' :
          msg.type = "cancel" => msg \in Pending \/ msg.id \in OwnTasks(r)
    BY <2>2, <2>4, <2>5 DEF Pending
  <2> HIDE DEF cancels, rest
  <2>8. \A r2 \in Requests \ {r} : Served(r2)'
    BY <2>1, <2>6, <2>7, OthersServed DEF Ended, TypeOK, TInv, DInv
  <2>9. Served(r)'
    BY <1>1, <2>1 DEF Served, TypeOK
  <2> QED
    BY <2>8, <2>9
<1>7. ASSUME NEW t \in OwnTasks(r),
             ReceiveFinal(r, t) \/ ReceivePartial(r, t) \/ ReceiveMetrics(r, t)
      PROVE  \A r2 \in Requests : Served(r2)'
  <2>1. /\ Pending' = Pending /\ UNCHANGED <<slotState, slotTask, waiting>>
        /\ hpc[r] = "waiting" /\ results[t] # <<>> /\ t \in TaskIds
        /\ results' = [results EXCEPT ![t] = Tail(@)]
    BY <1>1, <1>7 DEF ReceiveFinal, ReceivePartial, ReceiveMetrics, Pop, Pending, InHand
  <2>2. \A u \in TaskIds \ {t} : results'[u] = results[u]
    BY <1>1, <2>1 DEF TypeOK
  <2>3. /\ \A r2 \in Requests \ {r} : hpc'[r2] = hpc[r2] /\ received'[r2] = received[r2]
        /\ hpc'[r] \in {"waiting", "unregister", "aborted"}
    BY <1>1, <1>7, <2>1 DEF ReceiveFinal, ReceivePartial, ReceiveMetrics, Goto, TypeOK
  <2>4. \A r2 \in Requests \ {r} : Served(r2)'
    BY <2>1, <2>2, <2>3, OthersServed DEF Ended
  <2>5. \A msg \in Pending' : msg.type = "cancel" => msg.id \notin OwnTasks(r)
    BY <1>1, <2>1 DEF Served
  <2>6. OwnTasks(r) \subseteq waiting'
    BY <1>1, <2>1 DEF Served
  <2>7. hpc'[r] \in {"headers", "waiting"} =>
          \A u \in OwnTasks(r) \ Held(received'[r]) : Outstanding(u)'
    <3>1. CASE ReceiveFinal(r, t)
      <4>1. received'[r] = Append(received[r], t)
        BY <1>1, <3>1 DEF ReceiveFinal, TypeOK
      <4>2. Held(received'[r]) = Held(received[r]) \cup {t}
        BY <1>1, <2>1, <4>1, HeldAppend DEF TypeOK
      <4>3. \A u \in OwnTasks(r) \ Held(received'[r]) : Outstanding(u) /\ u \in TaskIds \ {t}
        BY <1>1, <2>1, <4>2 DEF Served
      <4> QED
        BY <2>1, <2>2, <4>3 DEF Outstanding, Work, Running, Busy, Ended
    <3>2. CASE ReceivePartial(r, t)
      <4>1. \A u \in TaskIds : Ended(u) => Ended(u)'
        BY <1>1, <2>1, <3>2, PopKeepsEnd DEF ReceivePartial, Pop
      <4>2. received' = received
        BY <3>2 DEF ReceivePartial
      <4> QED
        BY <1>1, <2>1, <4>1, <4>2 DEF Served, Outstanding, Work, Running, Busy
    <3>3. CASE ReceiveMetrics(r, t)
      BY <1>1, <3>3 DEF ReceiveMetrics, Goto, TypeOK
    <3> QED
      BY <1>7, <3>1, <3>2, <3>3
  <2>8. Served(r)'
    BY <2>5, <2>6, <2>7 DEF Served
  <2> QED
    BY <2>4, <2>8
<1>8. CASE Receive(r)
  BY <1>4, <1>7, <1>8 DEF Receive, ReceiveError
<1>9. CASE Unregister(r)
  <2>1. Pending' = Pending /\ UNCHANGED <<slotState, slotTask, received>>
    BY <1>9 DEF Unregister, Pending, InHand
  <2>2. /\ hpc' = [hpc EXCEPT ![r] = "done"]
        /\ waiting' = waiting \ OwnTasks(r)
        /\ \A t \in TaskIds \ OwnTasks(r) : results'[t] = results[t]
    BY <1>9 DEF Unregister, Goto
  <2>3. \A r2 \in Requests \ {r} : Served(r2)'
    BY <2>1, <2>2, OthersServed DEF Ended, TypeOK, TInv, DInv
  <2>4. Served(r)'
    BY <1>1, <2>2 DEF Served, TypeOK
  <2> QED
    BY <2>3, <2>4
<1>10. CASE StreamBegins(r) \/ StreamDropped(r)
  <2>1. Pending' = Pending /\ UNCHANGED <<slotState, slotTask, results, received, waiting>>
    BY <1>10 DEF StreamBegins, StreamDropped, Pending, InHand
  <2>2. \E next \in {"waiting", "unregister"} : hpc' = [hpc EXCEPT ![r] = next]
        /\ hpc[r] = "headers"
    BY <1>10 DEF StreamBegins, StreamDropped, Goto
  <2>3. \A r2 \in Requests \ {r} : Served(r2)'
    BY <2>1, <2>2, OthersServed DEF Ended, TypeOK, TInv, DInv
  <2>4. \A t \in OwnTasks(r) : Outstanding(t) => Outstanding(t)'
    BY <2>1 DEF Outstanding, Work, Running, Busy, Ended
  <2>5. Served(r)'
    BY <1>1, <2>1, <2>2, <2>4 DEF Served, TypeOK
  <2> QED
    BY <2>3, <2>5
<1> QED
  BY <1>2, <1>3, <1>5, <1>6, <1>8, <1>9, <1>10 DEF Handler
-----------------------------------------------------------------------------
LEMMA DeliveryInit == Init => DInv
<1> SUFFICES ASSUME Init PROVE DInv
  OBVIOUS
<1>1. TInv /\ \A r \in Requests : hpc[r] = "new"
  BY TypeInit DEF Init
<1>2. Pending = {}
  BY DEF Init, Pending, InHand, Held
<1> QED
  BY <1>1, <1>2 DEF DInv, NoTaskLost, StaysRegistered, CancelsFollow

LEMMA DeliveryStep == DInv /\ [Next]_vars => DInv'
<1> SUFFICES ASSUME DInv, [Next]_vars PROVE DInv'
  OBVIOUS
<1> USE DEF loopVars, queueVars, slotVars, resultVars, handlerVars, history
<1>1. TInv'
  BY TypeStep DEF DInv
<1>2. \A r \in Requests : Served(r)
  BY ServedIsInv DEF DInv
<1>3. CASE Terminate \/ TerminateStuck \/ UNCHANGED vars
  <2>1. UNCHANGED <<pc, cur, queue, deferred, slotState, slotTask, waiting, results, hpc, received>>
    BY <1>3 DEF Terminate, TerminateStuck, vars
  <2>2. \A r \in Requests : Served(r)'
    BY <1>2, <2>1 DEF Served, Outstanding, Work, Running, Busy, Ended, Pending, InHand
  <2> QED
    BY <1>1, <2>2, ServedIsInvNext DEF DInv
<1> QED
  BY <1>1, <1>3, LoopServes, HandlerServes, ServedIsInvNext DEF Next, DInv

(* For every number of slots, clients and prompts, whatever fails: the     *)
(* result of a task that a handler waits for is always still to come.      *)
THEOREM NoTaskIsLost == Spec => []NoTaskLost
<1>1. DInv => NoTaskLost
  BY DEF DInv
<1> QED
  BY DeliveryInit, DeliveryStep, <1>1, PTL DEF Spec

(* No result of a waiting handler is dropped by send. *)
THEOREM IdsStayRegistered == Spec => []StaysRegistered
<1>1. DInv => StaysRegistered
  BY DEF DInv
<1> QED
  BY DeliveryInit, DeliveryStep, <1>1, PTL DEF Spec

(* No cancellation is queued while its handler still waits. *)
THEOREM CancelsComeAfter == Spec => []CancelsFollow
<1>1. DInv => CancelsFollow
  BY DEF DInv
<1> QED
  BY DeliveryInit, DeliveryStep, <1>1, PTL DEF Spec
-----------------------------------------------------------------------------
(* Only completions are deferred. *)
DeferredAreCompletions == \A msg \in Held(deferred) : msg.type = "completion"

(* What will call pop_deferred_task. *)
BusySlot == \E s \in Slots : Busy(s)
Coming   == \E msg \in Held(queue) \cup InHand : msg.type = "completion"

FInv == TInv /\ DeferredAreCompletions /\ DeferredHasWaker

AllLaunch ==
  /\ LaunchMayFail = FALSE
  /\ Slots # {}
  /\ \A t \in TaskIds : WantSlot[t] \in Slots \cup {AnySlot}
-----------------------------------------------------------------------------
(* A release puts a deferred completion back, or there was none. *)
LEMMA ReleaseWakes ==
  ASSUME FInv, NEW s \in Slots, Release(s), UNCHANGED <<pc, cur>>, pc # "task"
  PROVE  DeferredAreCompletions' /\ DeferredHasWaker'
<1>1. TypeOK /\ DeferredAreCompletions /\ DeferredHasWaker
  BY DEF FInv, TInv
<1>2. CASE ~Busy(s)
  BY <1>1, <1>2 DEF Release, queueVars, DeferredAreCompletions, DeferredHasWaker, InHand, Busy
<1>3. CASE Busy(s) /\ deferred = <<>>
  BY <1>1, <1>3 DEF Release, PopDeferred, queueVars, DeferredAreCompletions, DeferredHasWaker
<1>4. CASE Busy(s) /\ deferred # <<>>
  <2>1. /\ Head(deferred) \in Message
        /\ Held(deferred) = {Head(deferred)} \cup Held(Tail(deferred))
    BY <1>1, <1>4, HeldTail DEF TypeOK
  <2>2. Held(Append(queue, Head(deferred))) = Held(queue) \cup {Head(deferred)}
    BY <1>1, <2>1, HeldAppend DEF TypeOK
  <2>3. queue' = Append(queue, Head(deferred)) /\ deferred' = Tail(deferred)
    BY <1>4 DEF Release, PopDeferred
  <2> QED
    BY <1>1, <2>1, <2>2, <2>3 DEF DeferredAreCompletions, DeferredHasWaker
<1> QED
  BY <1>2, <1>3, <1>4

(* Steps that keep the queues, the slots and the task in hand. *)
LEMMA StillWoken ==
  ASSUME FInv, deferred' = deferred,
         BusySlot => BusySlot',
         Coming => Coming' \/ BusySlot'
  PROVE  DeferredAreCompletions' /\ DeferredHasWaker'
BY DEF FInv, DeferredAreCompletions, DeferredHasWaker, BusySlot, Coming

LEMMA LoopWakes ==
  ASSUME AllLaunch, FInv, Loop
  PROVE  DeferredAreCompletions' /\ DeferredHasWaker'
<1> USE DEF loopVars, queueVars, slotVars, resultVars, handlerVars, history
<1>1. TypeOK /\ SlotsHoldTasks
  BY DEF FInv, TInv
<1>2. CASE \/ StartLoop \/ EndDrain \/ Wake \/ EndLoop
           \/ AllIdle \/ DecodeFails \/ EndBatch
  <2>1. InHand' = InHand /\ UNCHANGED <<queue, deferred, slotState>>
    BY <1>2 DEF StartLoop, EndDrain, Wake, EndLoop, AllIdle, DecodeFails, EndBatch, InHand
  <2> QED
    BY <2>1, StillWoken DEF BusySlot, Coming, Busy
<1>3. CASE TakeTask
  <2>1. Held(queue) = {Head(queue)} \cup Held(Tail(queue))
    BY <1>1, <1>3, HeldTail DEF TypeOK, TakeTask
  <2> QED
    BY <1>3, <2>1, StillWoken DEF TakeTask, BusySlot, Coming, Busy, InHand
<1>4. CASE StartBatch
  <2>1. Held(queue)' = Held(queue) \cup {NextResponse}
    BY <1>1, <1>4, HeldAppend, MessageTypes DEF TypeOK, StartBatch
  <2> QED
    BY <1>4, <2>1, StillWoken DEF StartBatch, BusySlot, Coming, Busy, InHand
<1>5. ASSUME NEW s \in Slots, LaunchSlot(s)
      PROVE  DeferredAreCompletions' /\ DeferredHasWaker'
  <2>1. deferred' = deferred /\ slotState' = [slotState EXCEPT ![s] = "prompt"]
    BY <1>5 DEF LaunchSlot
  <2>2. BusySlot'
    BY <1>1, <2>1 DEF BusySlot, Busy, TypeOK
  <2> QED
    BY <2>1, <2>2, StillWoken
<1>6. ASSUME NEW s \in Slots, LaunchFails(s)
      PROVE  FALSE
  BY <1>6 DEF LaunchFails, AllLaunch
<1>7. CASE Defer
  <2>1. cur.type = "completion" /\ cur \in Message /\ slotState' = slotState
        /\ deferred' = Append(deferred, cur)
        /\ \A s \in Candidates(cur.id) : Busy(s)
    BY <1>1, <1>7 DEF Defer, Process, TypeOK
  <2>2. Held(deferred') = Held(deferred) \cup {cur}
    BY <1>1, <2>1, HeldAppend DEF TypeOK
  <2>3. cur.id \in TaskIds
    BY <2>1, MessageTypes DEF NextResponse
  <2>4. BusySlot
    BY <2>1, <2>3, SlotAssumption DEF BusySlot, Candidates, AllLaunch
  <2> QED
    BY <2>1, <2>2, <2>4
       DEF FInv, DeferredAreCompletions, DeferredHasWaker, BusySlot, Busy
<1>8. ASSUME NEW s \in Slots, CancelSlot(s)
      PROVE  DeferredAreCompletions' /\ DeferredHasWaker'
  <2>1. Release(s) /\ cur.type = "cancel" /\ pc = "task" /\ pc' = "drain"
    BY <1>8 DEF CancelSlot, Process
  <2>2. CASE ~Busy(s)
    BY <2>1, <2>2, StillWoken DEF Release, BusySlot, Coming, Busy, InHand
  <2>3. CASE Busy(s) /\ deferred = <<>>
    BY <2>1, <2>3 DEF Release, PopDeferred, FInv, DeferredAreCompletions, DeferredHasWaker
  <2>4. CASE Busy(s) /\ deferred # <<>>
    <3>1. /\ Head(deferred) \in Message
          /\ Held(deferred) = {Head(deferred)} \cup Held(Tail(deferred))
      BY <1>1, <2>4, HeldTail DEF TypeOK
    <3>2. Held(Append(queue, Head(deferred))) = Held(queue) \cup {Head(deferred)}
      BY <1>1, <3>1, HeldAppend DEF TypeOK
    <3>3. queue' = Append(queue, Head(deferred)) /\ deferred' = Tail(deferred)
      BY <2>1, <2>4 DEF Release, PopDeferred
    <3> QED
      BY <3>1, <3>2, <3>3 DEF FInv, DeferredAreCompletions, DeferredHasWaker
  <2> QED
    BY <2>2, <2>3, <2>4
<1>9. CASE CancelNothing \/ SkipNext \/ ReportMetrics
  <2>1. cur.type # "completion" /\ UNCHANGED <<queue, deferred, slotState>>
    BY <1>9 DEF CancelNothing, SkipNext, ReportMetrics, Process
  <2> QED
    BY <2>1, StillWoken DEF BusySlot, Coming, Busy, InHand
<1>10. ASSUME NEW s \in Slots, PromptAdvances(s) \/ SampleToken(s)
       PROVE  DeferredAreCompletions' /\ DeferredHasWaker'
  <2>1. UNCHANGED <<pc, cur, queue, deferred>>
    BY <1>10 DEF PromptAdvances, SampleToken, Visit
  <2>2. \A s2 \in Slots : Busy(s2) => Busy(s2)'
    BY <1>1, <1>10 DEF PromptAdvances, SampleToken, Busy, TypeOK
  <2> QED
    BY <2>1, <2>2, StillWoken DEF BusySlot, Coming, InHand
<1>11. ASSUME NEW s \in Slots,
              \/ PromptEmpty(s) \/ PromptRejected(s) \/ ContextFull(s)
              \/ SampleLast(s) \/ FailSlot(s)
       PROVE  DeferredAreCompletions' /\ DeferredHasWaker'
  <2>1. Release(s) /\ UNCHANGED <<pc, cur>> /\ pc # "task"
    BY <1>11 DEF PromptEmpty, PromptRejected, ContextFull, SampleLast, FailSlot, Visit
  <2> QED
    BY <2>1, ReleaseWakes
<1> QED
  BY <1>2, <1>3, <1>4, <1>5, <1>6, <1>7, <1>8, <1>9, <1>10, <1>11
     DEF Loop, ProcessTask, UpdateSlots

(* Handlers add to the queue, and take only cancellations away. *)
LEMMA HandlerWakes ==
  ASSUME FInv, NEW r \in Requests,
         Register(r) \/ Handler(r) \/ StreamDropped(r) \/ ConnectionClosed(r)
  PROVE  DeferredAreCompletions' /\ DeferredHasWaker'
<1> USE DEF loopVars, queueVars, slotVars, resultVars, handlerVars, history
<1>1. TypeOK
  BY DEF FInv, TInv
<1>2. InHand' = InHand /\ BusySlot' = BusySlot
  BY DEF Register, StreamDropped, ConnectionClosed, Handler, StreamBegins, Receive, ReceiveError, GiveUp, ReceiveFinal,
     ReceivePartial, ReceiveMetrics, Post, PostThrows, PostCancels, Unregister, InHand, BusySlot, Busy
<1>3. CASE Post(r) \/ PostThrows(r)
  <2> DEFINE posted == [i \in DOMAIN TasksOf[r] |-> Completion(TasksOf[r][i])]
             query == <<Metrics(TasksOf[r][1])>>
  <2>1. posted \in Seq(Message) /\ query \in Seq(Message) /\ queue \in Seq(Message)
    BY <1>1, PostedTypes DEF TypeOK
  <2>2. queue' \in {query \o queue, queue \o posted} /\ deferred' = deferred
    BY <1>3 DEF Post, PostThrows, Posted
  <2> HIDE DEF posted, query
  <2>3. Held(query \o queue) = Held(query) \cup Held(queue)
        /\ Held(queue \o posted) = Held(queue) \cup Held(posted)
    BY <2>1, HeldConcat
  <2>4. Held(queue) \subseteq Held(queue')
    BY <2>2, <2>3
  <2>5. Coming => Coming'
    BY <1>2, <2>4 DEF Coming
  <2> QED
    BY <1>2, <2>2, <2>5, StillWoken
<1>4. CASE PostCancels(r)
  <2> DEFINE cancels == [i \in DOMAIN TasksOf[r] |-> Cancel(TasksOf[r][i])]
             rest(q) == CleanupPending(q, OwnTasks(r))
  <2>1. queue' = cancels \o rest(queue) /\ deferred' = rest(deferred)
    BY <1>4 DEF PostCancels
  <2>2. /\ rest(queue) \in Seq(Message) /\ rest(deferred) \in Seq(Message)
        /\ Held(rest(queue)) = {msg \in Held(queue) : IdTarget(msg) \notin OwnTasks(r)}
        /\ Held(rest(deferred)) = {msg \in Held(deferred) : IdTarget(msg) \notin OwnTasks(r)}
    BY <1>1, CleanupKeeps DEF TypeOK
  <2>3. cancels \in Seq(Message)
    BY PostedTypes
  <2>4. deferred = <<>> => Held(rest(deferred)) = {}
    BY <2>2 DEF Held
  <2>5. \A msg : msg.type = "completion" => IdTarget(msg) \notin OwnTasks(r)
    BY TaskTypes, NoTaskAssumption DEF IdTarget
  <2> HIDE DEF cancels, rest
  <2>6. Held(cancels \o rest(queue)) = Held(cancels) \cup Held(rest(queue))
    BY <2>2, <2>3, HeldConcat
  <2>7. deferred' # <<>> => Held(deferred') # {}
    <3>1. SUFFICES ASSUME deferred' # <<>> PROVE Held(deferred') # {}
      OBVIOUS
    <3>2. rest(deferred) # <<>>
      BY <2>1, <3>1
    <3>3. Head(rest(deferred)) \in Held(rest(deferred))
      BY <2>2, <3>2, HeldTail
    <3> QED
      BY <2>1, <3>3
  <2>8. Coming => Coming'
    BY <1>2, <2>1, <2>2, <2>5, <2>6 DEF Coming
  <2> QED
    BY <1>2, <2>1, <2>2, <2>4, <2>7, <2>8
       DEF FInv, DeferredAreCompletions, DeferredHasWaker, BusySlot, Coming
<1>5. CASE ~Post(r) /\ ~PostThrows(r) /\ ~PostCancels(r)
  <2>1. UNCHANGED <<queue, deferred>>
    BY <1>5 DEF Register, StreamDropped, ConnectionClosed, Handler, StreamBegins, Receive, ReceiveError, GiveUp,
       ReceiveFinal, ReceivePartial, ReceiveMetrics, Unregister
  <2> QED
    BY <1>2, <2>1, StillWoken DEF Coming
<1> QED
  BY <1>3, <1>4, <1>5
-----------------------------------------------------------------------------
LEMMA DeferralInit == Init => FInv
<1>1. Init => DeferredAreCompletions /\ DeferredHasWaker
  BY DEF Init, DeferredAreCompletions, DeferredHasWaker, Held
<1> QED
  BY <1>1, TypeInit DEF FInv

LEMMA DeferralStep == AllLaunch /\ FInv /\ [Next]_vars => FInv'
<1> SUFFICES ASSUME AllLaunch, FInv, [Next]_vars PROVE FInv'
  OBVIOUS
<1> USE DEF loopVars, queueVars, slotVars, resultVars, handlerVars, history
<1>1. TInv'
  BY TypeStep DEF FInv
<1>2. CASE Terminate \/ TerminateStuck \/ UNCHANGED vars
  <2>1. UNCHANGED <<pc, cur, queue, deferred, slotState>>
    BY <1>2 DEF Terminate, TerminateStuck, vars
  <2> QED
    BY <1>1, <2>1 DEF FInv, DeferredAreCompletions, DeferredHasWaker, InHand, Busy
<1> QED
  BY <1>1, <1>2, LoopWakes, HandlerWakes DEF Next, FInv

(* If every completion that is given a slot occupies it, a deferred task   *)
(* always has a busy slot, or a completion on its way to one, whose        *)
(* release will move it back to the main queue.                            *)
THEOREM DeferredIsWoken ==
  ASSUME AllLaunch
  PROVE  Spec => []DeferredHasWaker
<1>1. FInv => DeferredHasWaker
  BY DEF FInv
<1>2. FInv /\ [Next]_vars => FInv'
  BY DeferralStep
<1> QED
  BY DeferralInit, <1>1, <1>2, PTL DEF Spec
-----------------------------------------------------------------------------
(* From the start of a batch until the queue is looked at again, the       *)
(* NEXT_RESPONSE that was posted for the busy slots stays queued.          *)
NextIsQueued ==
  pc \in {"slots", "fail", "wait"} /\ BusySlot => NextResponse \in Held(queue)

AInv == TInv /\ NextIsQueued

(* A release neither occupies a slot nor takes anything off the queue.     *)
LEMMA ReleaseKeepsNext ==
  ASSUME AInv, NEW s \in Slots, Release(s), UNCHANGED pc
  PROVE  NextIsQueued'
<1>1. TypeOK /\ NextIsQueued
  BY DEF AInv, TInv
<1>2. slotState' = [slotState EXCEPT ![s] = "idle"]
  BY <1>1, ReleaseType
<1>3. BusySlot' => BusySlot
  BY <1>1, <1>2 DEF BusySlot, Busy, TypeOK
<1>4. Held(queue) \subseteq Held(queue')
  <2>1. CASE Busy(s) /\ deferred # <<>>
    <3>1. Head(deferred) \in Message /\ queue' = Append(queue, Head(deferred))
      BY <1>1, <2>1, HeldTail DEF Release, PopDeferred, TypeOK
    <3> QED
      BY <1>1, <3>1, HeldAppend DEF TypeOK
  <2>2. CASE ~Busy(s) \/ deferred = <<>>
    BY <2>2 DEF Release, PopDeferred, queueVars
  <2> QED
    BY <2>1, <2>2
<1> QED
  BY <1>1, <1>3, <1>4 DEF NextIsQueued

LEMMA LoopKeepsNext ==
  ASSUME AInv, Loop
  PROVE  NextIsQueued'
<1> USE DEF loopVars, queueVars, slotVars, resultVars, handlerVars, history
<1>1. TypeOK /\ NextIsQueued
  BY DEF AInv, TInv
<1>2. CASE StartLoop \/ TakeTask \/ EndDrain \/ Wake \/ EndLoop \/ ProcessTask
  <2>1. pc' \notin {"slots", "fail", "wait"}
    BY <1>2 DEF StartLoop, TakeTask, EndDrain, Wake, EndLoop, ProcessTask, LaunchSlot,
       LaunchFails, CancelSlot, Defer, CancelNothing, SkipNext, ReportMetrics, Process
  <2> QED
    BY <2>1 DEF NextIsQueued
<1>3. CASE AllIdle
  BY <1>3 DEF AllIdle, NextIsQueued, BusySlot, Busy
<1>4. CASE StartBatch
  <2>1. Held(queue)' = Held(queue) \cup {NextResponse}
    BY <1>1, <1>4, HeldAppend, MessageTypes DEF TypeOK, StartBatch
  <2> QED
    BY <2>1 DEF NextIsQueued
<1>5. CASE DecodeFails \/ EndBatch
  BY <1>1, <1>5 DEF DecodeFails, EndBatch, NextIsQueued, BusySlot, Busy
<1>6. ASSUME NEW s \in Slots, PromptAdvances(s) \/ SampleToken(s)
      PROVE  NextIsQueued'
  <2>1. UNCHANGED <<pc, queue>> /\ pc = "slots" /\ Busy(s)
    BY <1>6 DEF PromptAdvances, SampleToken, Visit, AInv, TInv, SlotsHoldTasks
  <2> QED
    BY <1>1, <2>1 DEF NextIsQueued, BusySlot
<1>7. ASSUME NEW s \in Slots,
             \/ PromptEmpty(s) \/ PromptRejected(s) \/ ContextFull(s)
             \/ SampleLast(s) \/ FailSlot(s)
      PROVE  NextIsQueued'
  <2>1. Release(s) /\ UNCHANGED pc
    BY <1>7 DEF PromptEmpty, PromptRejected, ContextFull, SampleLast, FailSlot, Visit
  <2> QED
    BY <2>1, ReleaseKeepsNext
<1> QED
  BY <1>2, <1>3, <1>4, <1>5, <1>6, <1>7 DEF Loop, UpdateSlots

(* Handlers add to the queue, and cleanup_pending_task erases only         *)
(* cancellations.                                                          *)
LEMMA HandlerKeepsNext ==
  ASSUME AInv, NEW r \in Requests,
         Register(r) \/ Handler(r) \/ StreamDropped(r) \/ ConnectionClosed(r)
  PROVE  NextIsQueued'
<1> USE DEF loopVars, queueVars, slotVars, resultVars, handlerVars, history
<1>1. TypeOK /\ NextIsQueued
  BY DEF AInv, TInv
<1>2. pc' = pc /\ BusySlot' = BusySlot
  BY DEF Register, StreamDropped, ConnectionClosed, Handler, StreamBegins, Receive,
     ReceiveError, GiveUp, ReceiveFinal, ReceivePartial, ReceiveMetrics, Post, PostThrows,
     PostCancels, Unregister, BusySlot, Busy
<1>3. CASE Post(r) \/ PostThrows(r)
  <2> DEFINE posted == [i \in DOMAIN TasksOf[r] |-> Completion(TasksOf[r][i])]
             query == <<Metrics(TasksOf[r][1])>>
  <2>1. posted \in Seq(Message) /\ query \in Seq(Message) /\ queue \in Seq(Message)
    BY <1>1, PostedTypes DEF TypeOK
  <2>2. queue' \in {query \o queue, queue \o posted}
    BY <1>3 DEF Post, PostThrows, Posted
  <2> HIDE DEF posted, query
  <2>3. Held(query \o queue) = Held(query) \cup Held(queue)
        /\ Held(queue \o posted) = Held(queue) \cup Held(posted)
    BY <2>1, HeldConcat
  <2>4. Held(queue) \subseteq Held(queue')
    BY <2>2, <2>3
  <2> QED
    BY <1>1, <1>2, <2>4 DEF NextIsQueued
<1>4. CASE PostCancels(r)
  <2> DEFINE cancels == [i \in DOMAIN TasksOf[r] |-> Cancel(TasksOf[r][i])]
             rest == CleanupPending(queue, OwnTasks(r))
  <2>1. cancels \in Seq(Message) /\ queue' = cancels \o rest
    BY <1>4, PostedTypes DEF PostCancels
  <2>2. /\ rest \in Seq(Message)
        /\ Held(rest) = {msg \in Held(queue) : IdTarget(msg) \notin OwnTasks(r)}
    BY <1>1, CleanupKeeps DEF TypeOK
  <2>3. IdTarget(NextResponse) \notin OwnTasks(r)
    BY TaskTypes, NoTaskAssumption DEF IdTarget, NextResponse
  <2> HIDE DEF cancels, rest
  <2>4. NextResponse \in Held(queue) => NextResponse \in Held(queue')
    BY <2>1, <2>2, <2>3, HeldConcat
  <2> QED
    BY <1>1, <1>2, <2>4 DEF NextIsQueued
<1>5. CASE ~Post(r) /\ ~PostThrows(r) /\ ~PostCancels(r)
  <2>1. queue' = queue
    BY <1>5 DEF Register, StreamDropped, ConnectionClosed, Handler, StreamBegins, Receive,
       ReceiveError, GiveUp, ReceiveFinal, ReceivePartial, ReceiveMetrics, Unregister
  <2> QED
    BY <1>1, <1>2, <2>1 DEF NextIsQueued
<1> QED
  BY <1>3, <1>4, <1>5

LEMMA AwakeStep == AInv /\ [Next]_vars => AInv'
<1> SUFFICES ASSUME AInv, [Next]_vars PROVE AInv'
  OBVIOUS
<1>1. TInv'
  BY TypeStep DEF AInv
<1>2. CASE Terminate \/ TerminateStuck \/ UNCHANGED vars
  <2>1. UNCHANGED <<pc, queue, slotState>>
    BY <1>2 DEF Terminate, TerminateStuck, vars, loopVars, queueVars, slotVars
  <2> QED
    BY <1>1, <2>1 DEF AInv, NextIsQueued, BusySlot, Busy
<1> QED
  BY <1>1, <1>2, LoopKeepsNext, HandlerKeepsNext DEF Next, AInv

(* The main thread never waits on an empty queue while a slot is busy:     *)
(* the NEXT_RESPONSE it posted to itself is there, or a newer task.        *)
THEOREM LoopStaysAwake == Spec => []LoopAwake
<1>1. Init => AInv
  BY TypeInit DEF Init, AInv, NextIsQueued
<1>2. AInv => LoopAwake
  BY DEF AInv, NextIsQueued, LoopAwake, BusySlot, Held
<1> QED
  BY AwakeStep, <1>1, <1>2, PTL DEF Spec
=============================================================================
