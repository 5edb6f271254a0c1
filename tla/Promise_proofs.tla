---------------------------- MODULE Promise_proofs ----------------------------
(***************************************************************************)
(* What the clients are told is true: no completion is run again after its *)
(* client was told its outcome, a client told "ok" has every one of its    *)
(* results, and the server implements Answering.                           *)
(***************************************************************************)
EXTENDS AnswerServer_proofs

-----------------------------------------------------------------------------
(***************************************************************************)
(* One run per completion.  The invariant gives every task one place: it   *)
(* is queued, deferred or in hand at most once, and a slot keeps the id of *)
(* a task only after it has left the queues.  While a task is in one of    *)
(* these places nothing was told about it, and before its request is       *)
(* posted it is nowhere.                                                   *)
(***************************************************************************)
(* The tasks the main thread is still going to process. *)
Todo == WorkIds(Pending)

DequesApart ==
  /\ Once(queue) /\ Once(deferred)
  /\ WorkIds(Held(queue)) \cap WorkIds(Held(deferred)) = {}

OnePlace ==
  /\ DequesApart
  /\ WorkIds(InHand) \cap WorkIds(Deques) = {}
  /\ \A s \in Slots : slotTask[s] \notin Todo
  /\ \A s1, s2 \in Slots : slotTask[s1] = slotTask[s2] /\ slotTask[s1] # NoTask => s1 = s2

(* The tasks that are completions, and those that are queries for metrics. *)
IsPrompt(t) == \E r \in Requests \ Monitor : t \in OwnTasks(r)
IsQuery(t)  == \E r \in Monitor : t \in OwnTasks(r)

RightKind ==
  /\ \A msg \in Pending : msg.type = "completion" => IsPrompt(msg.id)
  /\ \A msg \in Pending : msg.type = "metrics" => IsQuery(msg.id)
  /\ \A s \in Slots : slotTask[s] # NoTask => IsPrompt(slotTask[s])
  /\ \A t \in finished \cup failed : IsPrompt(t)

(* Something was said about how the task ended. *)
Settled(t) == t \in finished \cup failed \/ Ended(t)

OpenUnsettled == \A t \in TaskIds : t \in Todo \/ Running(t) => ~Settled(t)

Unposted ==
  \A r \in Requests : hpc[r] \in {"new", "registered"} =>
    \A t \in OwnTasks(r) :
      t \notin Todo /\ ~Settled(t) /\ \A s \in Slots : slotTask[s] # t

OInv == TInv /\ OnePlace /\ RightKind /\ OpenUnsettled /\ Unposted
-----------------------------------------------------------------------------
(***************************************************************************)
(* What a step of the main thread does to the tasks, in five ways.         *)
(***************************************************************************)
NoneStarted == \A u \in TaskIds : Running(u)' => Running(u)

(* Tasks are moved, or taken off a slot by a cancellation. *)
Quiet ==
  /\ Todo' = Todo /\ NoneStarted
  /\ UNCHANGED <<slotTask, results, finished, failed>>

(* A piece of a running task's text is sent. *)
Streams(t) ==
  /\ Running(t) /\ IsPrompt(t)
  /\ Todo' = Todo /\ NoneStarted
  /\ \E piece \in Piece(t) : Send(t, piece)
  /\ UNCHANGED <<slotTask, finished, failed>>

(* A queued task gets a slot. *)
Launches(t) ==
  /\ t \in Todo /\ IsPrompt(t)
  /\ Todo' = Todo \ {t}
  /\ \A u \in TaskIds : Running(u)' => Running(u) \/ u = t
  /\ \A s \in Slots : slotTask'[s] \in {slotTask[s], t}
  /\ UNCHANGED <<results, finished, failed>>

(* What may be told at the end of a task. *)
Finishes(t) ==
  /\ IsPrompt(t)
  /\ \E piece \in Piece(t) \cup {<<>>} : Send(t, piece \o <<"final">>)
  /\ finished' = finished \cup {t} /\ failed' = failed

Fails(t) ==
  /\ IsPrompt(t)
  /\ Send(t, <<"error">>)
  /\ finished' = finished /\ failed' = failed \cup {t}

Reports(t) ==
  /\ IsQuery(t)
  /\ Send(t, <<"metrics">>)
  /\ UNCHANGED <<finished, failed>>

(* A task ends: it leaves its place and its outcome is told. *)
Ends(t) ==
  /\ t \in Todo \/ Running(t)
  /\ Todo' = Todo \ {t} /\ ~Running(t)' /\ NoneStarted
  /\ \A s \in Slots : slotTask'[s] = slotTask[s] \/ (slotTask'[s] = t /\ IsPrompt(t))
  /\ Finishes(t) \/ Fails(t) \/ Reports(t)

(* llama_decode has failed, and an idle slot gives an error to the task it *)
(* had before.                                                             *)
FailsAgain(t) ==
  /\ pc = "fail"
  /\ t \notin Todo /\ ~Running(t) /\ \E s \in Slots : slotTask[s] = t
  /\ Todo' = Todo /\ NoneStarted
  /\ Fails(t)
  /\ UNCHANGED slotTask

Affects(t) == Streams(t) \/ Launches(t) \/ Ends(t) \/ FailsAgain(t)
Effect     == Quiet \/ \E t \in TaskIds : Affects(t)
-----------------------------------------------------------------------------
LEMMA TodoIs ==
  /\ Pending = Deques \cup InHand
  /\ Todo = WorkIds(Deques) \cup WorkIds(InHand)
  /\ WorkIds(Deques) = WorkIds(Held(queue)) \cup WorkIds(Held(deferred))
BY WorkIdsUnion DEF Todo, Pending, Deques

LEMMA TodoIsNext ==
  /\ Pending' = Deques' \cup InHand'
  /\ Todo' = WorkIds(Deques') \cup WorkIds(InHand')
  /\ WorkIds(Deques') = WorkIds(Held(queue')) \cup WorkIds(Held(deferred'))
BY WorkIdsUnion DEF Todo, Pending, Deques

(* The task in hand, if it is work. *)
LEMMA WorkInHand ==
  ASSUME NEW msg
  PROVE  /\ WorkIds({}) = {}
         /\ IsWork(msg) => WorkIds({msg}) = {msg.id}
         /\ ~IsWork(msg) => WorkIds({msg}) = {}
BY DEF WorkIds

(* Work is about tasks. *)
LEMMA TodoTypes ==
  ASSUME TypeOK
  PROVE  Todo \subseteq TaskIds
<1>1. Pending \subseteq Message
  BY ElementOfSeq, LenProperties DEF TypeOK, Pending, Held, InHand
<1>2. \A msg \in Message : IsWork(msg) => msg.id \in TaskIds
  BY MessageTypes DEF IsWork, NextResponse
<1> QED
  BY <1>1, <1>2 DEF Todo, WorkIds

(* A release moves one deferred task, and duplicates none. *)
LEMMA ReleaseApart ==
  ASSUME TypeOK, DequesApart, NEW s \in Slots, Release(s)
  PROVE  DequesApart' /\ Deques' = Deques
<1>1. Deques' = Deques
  BY ReleaseKeeps
<1>2. CASE ~Busy(s) \/ deferred = <<>>
  BY <1>1, <1>2 DEF Release, PopDeferred, queueVars, DequesApart
<1>3. CASE Busy(s) /\ deferred # <<>>
  <2> DEFINE h == Head(deferred)
  <2>1. queue' = Append(queue, h) /\ deferred' = Tail(deferred)
    BY <1>3 DEF Release, PopDeferred
  <2>2. /\ h \in Message /\ Tail(deferred) \in Seq(Message)
        /\ Held(deferred) = {h} \cup Held(Tail(deferred))
    BY <1>3, HeldTail DEF TypeOK
  <2>3. Once(Tail(deferred)) /\ (IsWork(h) => h.id \notin WorkIds(Held(Tail(deferred))))
    BY <1>3, OnceTail DEF TypeOK, DequesApart
  <2>4. WorkIds(Held(deferred)) = WorkIds({h}) \cup WorkIds(Held(Tail(deferred)))
    BY <2>2, WorkIdsUnion
  <2>5. IsWork(h) => h.id \notin WorkIds(Held(queue))
    BY <2>4, WorkInHand DEF DequesApart
  <2>6. Once(Append(queue, h)) /\ Held(Append(queue, h)) = Held(queue) \cup {h}
    BY <2>2, <2>5, OnceAppend, HeldAppend DEF TypeOK, DequesApart
  <2>7. WorkIds(Held(Append(queue, h))) = WorkIds(Held(queue)) \cup WorkIds({h})
    BY <2>6, WorkIdsUnion
  <2>8. WorkIds({h}) \cap WorkIds(Held(Tail(deferred))) = {}
    BY <2>3, WorkInHand
  <2> HIDE DEF h
  <2>9. WorkIds(Held(queue')) \cap WorkIds(Held(deferred')) = {}
    BY <2>1, <2>4, <2>7, <2>8 DEF DequesApart
  <2> QED
    BY <1>1, <2>1, <2>3, <2>6, <2>9 DEF DequesApart
<1> QED
  BY <1>2, <1>3

(* The steps of start_loop, and those of update_slots that touch no slot.  *)
LEMMA MovesEffect ==
  ASSUME OInv,
         \/ StartLoop \/ TakeTask \/ EndDrain \/ Wake \/ EndLoop
         \/ AllIdle \/ StartBatch \/ DecodeFails \/ EndBatch
  PROVE  OnePlace' /\ Quiet
<1> USE DEF loopVars, queueVars, slotVars, resultVars, handlerVars, history
<1>1. TypeOK /\ OnePlace
  BY DEF OInv, TInv
<1>2. UNCHANGED <<deferred, slotState, slotTask, results, finished, failed>>
  BY DEF StartLoop, TakeTask, EndDrain, Wake, EndLoop, AllIdle, StartBatch, DecodeFails, EndBatch
<1>3. NoneStarted
  BY <1>2 DEF NoneStarted, Running, Busy
<1>4. CASE TakeTask
  <2>1. cur' = Head(queue) /\ queue' = Tail(queue) /\ InHand = {} /\ InHand' = {cur'}
        /\ queue # <<>>
    BY <1>4 DEF TakeTask, InHand
  <2>2. Held(queue) = {cur'} \cup Held(queue')
    BY <1>1, <2>1, HeldTail DEF TypeOK
  <2>3. Once(queue') /\ (IsWork(cur') => cur'.id \notin WorkIds(Held(queue')))
    BY <1>1, <2>1, OnceTail DEF TypeOK, OnePlace, DequesApart
  <2>4. WorkIds(Held(queue)) = WorkIds({cur'}) \cup WorkIds(Held(queue'))
    BY <2>2, WorkIdsUnion
  <2>5. Todo' = Todo
    BY <1>2, <2>1, <2>4, TodoIs, TodoIsNext, WorkInHand
  <2>6. WorkIds({cur'}) \cap WorkIds(Held(queue')) = {}
    BY <2>3, WorkInHand
  <2>7. DequesApart'
    BY <1>1, <1>2, <2>3, <2>4 DEF OnePlace, DequesApart
  <2>8. WorkIds(InHand') \cap WorkIds(Deques') = {}
    BY <1>1, <1>2, <2>1, <2>4, <2>6, TodoIsNext DEF OnePlace, DequesApart
  <2> QED
    BY <1>1, <1>2, <1>3, <2>5, <2>7, <2>8 DEF OnePlace, Quiet
<1>5. CASE StartBatch
  <2>1. queue' = Append(queue, NextResponse) /\ InHand' = InHand
    BY <1>5 DEF StartBatch, InHand
  <2>2. ~IsWork(NextResponse)
    BY DEF IsWork, NextResponse
  <2>3. Once(queue') /\ Held(queue') = Held(queue) \cup {NextResponse}
    BY <1>1, <2>1, <2>2, OnceAppend, HeldAppend, MessageTypes DEF TypeOK, OnePlace, DequesApart
  <2>4. WorkIds(Held(queue')) = WorkIds(Held(queue))
    <3>1. WorkIds(Held(queue) \cup {NextResponse})
            = WorkIds(Held(queue)) \cup WorkIds({NextResponse})
      BY WorkIdsUnion
    <3>2. WorkIds({NextResponse}) = {}
      BY <2>2, WorkInHand
    <3> QED
      BY <2>3, <3>1, <3>2
  <2>5. WorkIds(Deques') = WorkIds(Deques) /\ Todo' = Todo
    BY <1>2, <2>1, <2>4, TodoIs, TodoIsNext
  <2> QED
    BY <1>1, <1>2, <1>3, <2>1, <2>3, <2>4, <2>5 DEF OnePlace, DequesApart, Quiet
<1>6. CASE ~TakeTask /\ ~StartBatch
  <2>1. InHand' = InHand /\ queue' = queue
    BY <1>6 DEF StartLoop, EndDrain, Wake, EndLoop, AllIdle, DecodeFails, EndBatch, InHand
  <2>2. Deques' = Deques /\ Todo' = Todo
    BY <1>2, <2>1 DEF Deques, Todo, Pending
  <2> QED
    BY <1>1, <1>2, <1>3, <2>1, <2>2 DEF OnePlace, DequesApart, Quiet
<1> QED
  BY <1>4, <1>5, <1>6

(* process_single_task: the task in hand leaves its place for another one, *)
(* or ends.                                                                *)
LEMMA ProcessEffect ==
  ASSUME OInv, ProcessTask
  PROVE  OnePlace' /\ Effect
<1> USE DEF loopVars, queueVars, slotVars, resultVars, handlerVars, history
<1>1. TypeOK /\ OnePlace /\ RightKind
  BY DEF OInv, TInv
<1>2. InHand = {cur} /\ InHand' = {} /\ cur \in Pending /\ cur \in Message
  BY <1>1 DEF ProcessTask, LaunchSlot, LaunchFails, CancelSlot, Defer, CancelNothing, SkipNext,
     ReportMetrics, Process, Pending, InHand, TypeOK
<1>3. PICK c : c = cur.id
  OBVIOUS
<1>4. cur.type \in {"completion", "metrics"} =>
        WorkIds(InHand) = {c} /\ c \in TaskIds /\ c \in Todo /\ c \notin WorkIds(Deques)
  BY <1>1, <1>2, <1>3, WorkInHand, MessageTypes, TodoIs DEF IsWork, NextResponse, OnePlace
<1>5. cur.type \in {"cancel", "next"} => WorkIds(InHand) = {}
  BY <1>2, WorkInHand DEF IsWork
<1>6. WorkIds(InHand') = {}
  BY <1>2, WorkInHand
<1>7. ASSUME NEW s \in Slots, cur.type = "completion", UNCHANGED <<queue, deferred>>,
             slotState[s] = "idle", slotTask' = [slotTask EXCEPT ![s] = c]
      PROVE  /\ OnePlace' /\ Todo' = Todo \ {c} /\ IsPrompt(c)
             /\ \A s2 \in Slots : slotTask'[s2] \in {slotTask[s2], c}
             /\ \A s2 \in Slots : slotTask'[s2] = c <=> s2 = s
  <2>1. Deques' = Deques
    BY <1>7 DEF Deques
  <2>2. Todo' = Todo \ {c} /\ Todo = WorkIds(Deques) \cup {c} /\ Todo' = WorkIds(Deques)
    BY <1>4, <1>6, <1>7, <2>1, TodoIs, TodoIsNext
  <2>3. \A s2 \in Slots : slotTask[s2] # c
    BY <1>1, <1>4, <1>7 DEF OnePlace
  <2>4. \A s2 \in Slots : slotTask'[s2] = IF s2 = s THEN c ELSE slotTask[s2]
    BY <1>1, <1>7 DEF TypeOK
  <2>5. \A s2 \in Slots : slotTask'[s2] \notin Todo'
    BY <1>1, <2>2, <2>4 DEF OnePlace
  <2>6. \A s1, s2 \in Slots : slotTask'[s1] = slotTask'[s2] /\ slotTask'[s1] # NoTask => s1 = s2
    BY <1>1, <2>3, <2>4 DEF OnePlace
  <2>7. DequesApart' /\ WorkIds(InHand') \cap WorkIds(Deques') = {}
    BY <1>1, <1>6, <1>7 DEF OnePlace, DequesApart
  <2>8. IsPrompt(c)
    BY <1>1, <1>2, <1>3, <1>7 DEF RightKind
  <2> QED
    BY <2>2, <2>3, <2>4, <2>5, <2>6, <2>7, <2>8 DEF OnePlace
<1>8. ASSUME NEW s \in Slots, LaunchSlot(s)
      PROVE  OnePlace' /\ Effect
  <2>1. /\ cur.type = "completion" /\ slotState[s] = "idle"
        /\ UNCHANGED <<queue, deferred, results, finished, failed>>
        /\ slotState' = [slotState EXCEPT ![s] = "prompt"]
        /\ slotTask' = [slotTask EXCEPT ![s] = c]
    BY <1>3, <1>8 DEF LaunchSlot, Process, Busy
  <2>2. /\ OnePlace' /\ Todo' = Todo \ {c} /\ IsPrompt(c)
        /\ \A s2 \in Slots : slotTask'[s2] \in {slotTask[s2], c}
    BY <1>7, <2>1
  <2>3. \A u \in TaskIds : Running(u)' => Running(u) \/ u = c
    BY <1>1, <2>1, <2>2 DEF Running, Busy, TypeOK
  <2>4. Launches(c)
    BY <1>4, <2>1, <2>2, <2>3 DEF Launches
  <2> QED
    BY <1>4, <2>1, <2>2, <2>4 DEF Effect, Affects
<1>9. ASSUME NEW s \in Slots, LaunchFails(s)
      PROVE  OnePlace' /\ Effect
  <2>1. /\ cur.type = "completion" /\ slotState[s] = "idle"
        /\ UNCHANGED <<queue, deferred, slotState, finished>>
        /\ slotTask' = [slotTask EXCEPT ![s] = c]
        /\ Send(c, <<"error">>) /\ failed' = failed \cup {c}
    BY <1>3, <1>9 DEF LaunchFails, Process, Busy
  <2>2. /\ OnePlace' /\ Todo' = Todo \ {c} /\ IsPrompt(c)
        /\ \A s2 \in Slots : slotTask'[s2] \in {slotTask[s2], c}
        /\ \A s2 \in Slots : slotTask'[s2] = c <=> s2 = s
    BY <1>7, <2>1
  <2>3. \A s2 \in Slots : s2 # s => slotTask'[s2] = slotTask[s2]
    BY <2>2
  <2>4. NoneStarted /\ ~Running(c)'
    BY <2>1, <2>2, <2>3 DEF NoneStarted, Running, Busy
  <2>5. Ends(c)
    BY <1>4, <2>1, <2>2, <2>4 DEF Ends, Fails
  <2> QED
    BY <1>4, <2>1, <2>2, <2>5 DEF Effect, Affects
<1>10. CASE Defer
  <2>1. /\ deferred' = Append(deferred, cur) /\ cur.type = "completion"
        /\ UNCHANGED <<queue, slotState, slotTask, results, finished, failed>>
    BY <1>10 DEF Defer, Process
  <2>2. IsWork(cur) /\ c \notin WorkIds(Held(queue)) /\ c \notin WorkIds(Held(deferred))
    BY <1>4, <2>1, TodoIs DEF IsWork
  <2>3. Once(deferred') /\ Held(deferred') = Held(deferred) \cup {cur}
    BY <1>1, <1>2, <1>3, <2>1, <2>2, OnceAppend, HeldAppend DEF TypeOK, OnePlace, DequesApart
  <2>4. WorkIds(Held(deferred')) = WorkIds(Held(deferred)) \cup {c}
    <3>1. WorkIds(Held(deferred) \cup {cur}) = WorkIds(Held(deferred)) \cup WorkIds({cur})
      BY WorkIdsUnion
    <3>2. WorkIds({cur}) = {c}
      BY <1>3, <2>2, WorkInHand
    <3> QED
      BY <2>3, <3>1, <3>2
  <2>5. DequesApart'
    BY <1>1, <2>1, <2>2, <2>3, <2>4 DEF OnePlace, DequesApart
  <2>6. Todo' = Todo
    BY <1>4, <1>6, <2>1, <2>4, TodoIs, TodoIsNext
  <2>7. OnePlace'
    BY <1>1, <1>6, <2>1, <2>5, <2>6 DEF OnePlace
  <2> QED
    BY <2>1, <2>6, <2>7 DEF Effect, Quiet, NoneStarted, Running, Busy
<1>11. ASSUME NEW s \in Slots, CancelSlot(s)
       PROVE  OnePlace' /\ Effect
  <2>1. Release(s) /\ UNCHANGED <<slotTask, results, finished, failed>> /\ cur.type = "cancel"
    BY <1>11 DEF CancelSlot, Process
  <2>2. DequesApart' /\ Deques' = Deques
    BY <1>1, <2>1, ReleaseApart DEF OnePlace
  <2>3. Todo' = Todo
    BY <1>5, <1>6, <2>1, <2>2, TodoIs, TodoIsNext
  <2>4. slotState' = [slotState EXCEPT ![s] = "idle"]
    BY <1>1, <2>1, ReleaseType
  <2>5. NoneStarted
    BY <1>1, <2>1, <2>4 DEF NoneStarted, Running, Busy, TypeOK
  <2> QED
    BY <1>1, <1>6, <2>1, <2>2, <2>3, <2>5 DEF OnePlace, Effect, Quiet
<1>12. CASE CancelNothing \/ SkipNext
  <2>1. /\ UNCHANGED <<queue, deferred, slotState, slotTask, results, finished, failed>>
        /\ cur.type \in {"cancel", "next"}
    BY <1>12 DEF CancelNothing, SkipNext, Process
  <2>2. Deques' = Deques /\ DequesApart'
    BY <1>1, <2>1 DEF Deques, OnePlace, DequesApart
  <2>3. Todo' = Todo
    BY <1>5, <1>6, <2>1, <2>2, TodoIs, TodoIsNext
  <2> QED
    BY <1>1, <1>6, <2>1, <2>2, <2>3 DEF OnePlace, Effect, Quiet, NoneStarted, Running, Busy
<1>13. CASE ReportMetrics
  <2>1. /\ UNCHANGED <<queue, deferred, slotState, slotTask, finished, failed>>
        /\ cur.type = "metrics" /\ Send(c, <<"metrics">>)
    BY <1>3, <1>13 DEF ReportMetrics, Process
  <2>2. Deques' = Deques /\ DequesApart'
    BY <1>1, <2>1 DEF Deques, OnePlace, DequesApart
  <2>3. Todo' = Todo \ {c}
    BY <1>4, <1>6, <2>1, <2>2, TodoIs, TodoIsNext
  <2>4. OnePlace'
    BY <1>1, <1>6, <2>1, <2>2, <2>3 DEF OnePlace
  <2>5. IsQuery(c)
    BY <1>1, <1>2, <1>3, <2>1 DEF RightKind
  <2>6. ~Running(c)' /\ NoneStarted
    BY <1>1, <1>4, <2>1 DEF OnePlace, NoneStarted, Running, Busy
  <2>7. Ends(c)
    BY <1>4, <2>1, <2>3, <2>5, <2>6 DEF Ends, Reports
  <2> QED
    BY <1>4, <2>1, <2>4, <2>7 DEF Effect, Affects
<1> QED
  BY <1>8, <1>9, <1>10, <1>11, <1>12, <1>13 DEF ProcessTask

(* The steps of update_slots on one slot. *)
LEMMA SlotEffect ==
  ASSUME OInv, NEW s \in Slots,
         \/ PromptAdvances(s) \/ PromptEmpty(s) \/ PromptRejected(s) \/ ContextFull(s)
         \/ SampleToken(s) \/ SampleLast(s) \/ FailSlot(s)
  PROVE  OnePlace' /\ Effect
<1> USE DEF loopVars, queueVars, slotVars, resultVars, handlerVars, history
<1>1. TypeOK /\ OnePlace /\ RightKind /\ SlotsHoldTasks
  BY DEF OInv, TInv
<1>2. /\ pc # "task" /\ InHand = {} /\ InHand' = {} /\ slotTask' = slotTask
      /\ pc # "fail" => Busy(s)
  BY <1>1 DEF PromptAdvances, PromptEmpty, PromptRejected, ContextFull, SampleToken, SampleLast,
     FailSlot, Visit, InHand, SlotsHoldTasks
<1>3. PICK c : c = slotTask[s]
  OBVIOUS
<1>4. Busy(s) => c \in TaskIds /\ Running(c) /\ IsPrompt(c)
  BY <1>1, <1>3, NoTaskAssumption DEF SlotsHoldTasks, Running, RightKind
<1>5. c \notin Todo
  BY <1>1, <1>3 DEF OnePlace
<1>6. CASE PromptAdvances(s) \/ SampleToken(s)
  <2>1. UNCHANGED <<queue, deferred, finished, failed>> /\ Busy(s)
    BY <1>2, <1>6 DEF PromptAdvances, SampleToken, Visit
  <2>2. Todo' = Todo /\ OnePlace'
    BY <1>1, <1>2, <2>1 DEF Todo, Pending, OnePlace, DequesApart, Deques
  <2>3. \A s2 \in Slots : Busy(s2)' => Busy(s2)
    BY <1>1, <1>6, <2>1 DEF PromptAdvances, SampleToken, Busy, TypeOK
  <2>4. NoneStarted
    BY <1>2, <2>3 DEF NoneStarted, Running
  <2>5. CASE PromptAdvances(s)
    BY <1>2, <2>1, <2>2, <2>4, <2>5 DEF PromptAdvances, Effect, Quiet
  <2>6. CASE SampleToken(s)
    <3>1. \E piece \in Piece(c) : Send(c, piece)
      BY <1>3, <2>6 DEF SampleToken
    <3>2. Streams(c)
      BY <1>2, <1>4, <2>1, <2>2, <2>4, <3>1 DEF Streams
    <3> QED
      BY <1>4, <2>1, <2>2, <3>2 DEF Effect, Affects
  <2> QED
    BY <1>6, <2>5, <2>6
<1>7. ASSUME Release(s)
      PROVE  /\ OnePlace' /\ Todo' = Todo /\ NoneStarted
             /\ c # NoTask => ~Running(c)'
  <2>1. DequesApart' /\ Deques' = Deques
    BY <1>1, <1>7, ReleaseApart DEF OnePlace
  <2>2. Todo' = Todo
    BY <1>2, <2>1, TodoIs, TodoIsNext
  <2>3. slotState' = [slotState EXCEPT ![s] = "idle"]
    BY <1>1, <1>7, ReleaseType
  <2>4. \A s2 \in Slots : slotState'[s2] = IF s2 = s THEN "idle" ELSE slotState[s2]
    BY <1>1, <2>3 DEF TypeOK
  <2>5. NoneStarted
    BY <1>2, <2>4 DEF NoneStarted, Running, Busy
  <2>6. c # NoTask => \A s2 \in Slots : slotTask[s2] = c => s2 = s
    BY <1>1, <1>3 DEF OnePlace
  <2>7. c # NoTask => ~Running(c)'
    BY <1>2, <2>4, <2>6 DEF Running, Busy
  <2>8. OnePlace'
    BY <1>1, <1>2, <2>1, <2>2 DEF OnePlace
  <2> QED
    BY <2>2, <2>5, <2>7, <2>8
<1>8. CASE PromptEmpty(s) \/ PromptRejected(s) \/ ContextFull(s) \/ SampleLast(s)
  <2>1. Release(s) /\ Busy(s)
    BY <1>2, <1>8 DEF PromptEmpty, PromptRejected, ContextFull, SampleLast, Visit
  <2>2. c \in TaskIds /\ c # NoTask /\ Todo' = Todo \ {c}
    BY <1>4, <1>5, <1>7, <2>1, NoTaskAssumption
  <2>3. Finishes(c) \/ Fails(c)
    <3>1. CASE PromptEmpty(s)
      <4>1. Send(c, <<"final">>) /\ finished' = finished \cup {c} /\ failed' = failed
        BY <1>3, <3>1 DEF PromptEmpty
      <4>2. <<>> \o <<"final">> = <<"final">>
        OBVIOUS
      <4> QED
        BY <1>4, <2>1, <4>1, <4>2 DEF Finishes
    <3>2. CASE SampleLast(s)
      <4>1. /\ \E piece \in Piece(c) : Send(c, piece \o <<"final">>)
            /\ finished' = finished \cup {c} /\ failed' = failed
        BY <1>3, <3>2 DEF SampleLast
      <4> QED
        BY <1>4, <2>1, <4>1 DEF Finishes
    <3>3. CASE PromptRejected(s) \/ ContextFull(s)
      <4>1. Send(c, <<"error">>) /\ finished' = finished /\ failed' = failed \cup {c}
        BY <1>3, <3>3 DEF PromptRejected, ContextFull
      <4> QED
        BY <1>4, <2>1, <4>1 DEF Fails
    <3> QED
      BY <1>8, <3>1, <3>2, <3>3
  <2>4. Ends(c)
    BY <1>2, <1>4, <1>7, <2>1, <2>2, <2>3 DEF Ends
  <2> QED
    BY <1>7, <2>1, <2>2, <2>4 DEF Effect, Affects
<1>9. CASE FailSlot(s)
  <2>1. /\ Release(s) /\ pc = "fail" /\ Send(c, <<"error">>) /\ finished' = finished
        /\ failed' = failed \cup ({c} \ {NoTask})
    BY <1>3, <1>9 DEF FailSlot
  <2>2. /\ OnePlace' /\ Todo' = Todo /\ NoneStarted
        /\ c # NoTask => ~Running(c)'
    BY <1>7, <2>1
  <2>3. CASE c = NoTask
    <3>1. c \notin waiting
      BY <1>1, <2>3, NoTaskAssumption DEF TypeOK
    <3>2. UNCHANGED <<results, finished, failed>>
      BY <2>1, <2>3, <3>1 DEF Send
    <3> QED
      BY <1>2, <2>2, <3>2 DEF Effect, Quiet
  <2>4. CASE c # NoTask
    <3>1. c \in TaskIds /\ IsPrompt(c)
      BY <1>1, <1>3, <2>4 DEF TypeOK, RightKind
    <3>2. Fails(c)
      BY <2>1, <2>4, <3>1 DEF Fails
    <3>3. CASE Running(c)
      <4>1. Ends(c)
        BY <1>2, <1>5, <2>2, <2>4, <3>2, <3>3 DEF Ends
      <4> QED
        BY <2>2, <3>1, <4>1 DEF Effect, Affects
    <3>4. CASE ~Running(c)
      <4>1. FailsAgain(c)
        BY <1>2, <1>3, <1>5, <2>1, <2>2, <3>2, <3>4 DEF FailsAgain
      <4> QED
        BY <2>2, <3>1, <4>1 DEF Effect, Affects
    <3> QED
      BY <3>3, <3>4
  <2> QED
    BY <2>3, <2>4
<1> QED
  BY <1>6, <1>8, <1>9

LEMMA LoopEffect ==
  ASSUME OInv, Loop
  PROVE  OnePlace' /\ Effect
BY MovesEffect, ProcessEffect, SlotEffect DEF Loop, UpdateSlots, Effect
-----------------------------------------------------------------------------
(* What a step of the handler of r does to the tasks: it may post those of *)
(* its request and take results.                                           *)
Posts(r) ==
  /\ hpc[r] = "registered" /\ hpc'[r] \notin {"new", "registered"}
  /\ Todo' = Todo \cup OwnTasks(r)

HandlerEffect(r) ==
  /\ UNCHANGED <<pc, cur, slotState, slotTask, finished, failed>>
  /\ \A t \in TaskIds : Held(results'[t]) \subseteq Held(results[t])
  /\ \A r2 \in Requests \ {r} : hpc'[r2] = hpc[r2]
  /\ hpc'[r] \in {"new", "registered"} => hpc[r] \in {"new", "registered"}
  /\ Todo' = Todo \/ Posts(r)

LEMMA TailHeld ==
  ASSUME TypeOK, NEW t \in TaskIds, results[t] # <<>>,
         results' = [results EXCEPT ![t] = Tail(@)]
  PROVE  /\ \A u \in TaskIds : Held(results'[u]) \subseteq Held(results[u])
         /\ \A u \in TaskIds \ {t} : results'[u] = results[u]
         /\ results'[t] = Tail(results[t])
<1>1. results'[t] = Tail(results[t]) /\ \A u \in TaskIds \ {t} : results'[u] = results[u]
  BY DEF TypeOK
<1>2. Held(Tail(results[t])) \subseteq Held(results[t])
  BY HeldTail DEF TypeOK
<1> QED
  BY <1>1, <1>2

(* The deques after a post, and after the post of the cancellations. *)
LEMMA PostPlaces ==
  ASSUME OInv, NEW r \in Requests, Post(r) \/ PostThrows(r)
  PROVE  OnePlace' /\ RightKind' /\ Todo' = Todo \cup OwnTasks(r)
<1> USE DEF loopVars, queueVars, slotVars, resultVars, handlerVars, history
<1> DEFINE D == DOMAIN TasksOf[r]
           posted == [i \in D |-> Completion(TasksOf[r][i])]
           query == <<Metrics(TasksOf[r][1])>>
           new == IF r \in Monitor THEN query ELSE posted
<1>1. TypeOK /\ OnePlace /\ RightKind
  BY DEF OInv, TInv
<1>2. /\ UNCHANGED <<pc, cur, deferred, slotState, slotTask, finished, failed>>
      /\ hpc[r] = "registered" /\ InHand' = InHand
      /\ queue' \in {new \o queue, queue \o new}
  BY DEF Post, PostThrows, Posted, Goto, InHand
<1>3. /\ new \in Seq(Message)
      /\ Held(new) = IF r \in Monitor THEN {Metrics(TasksOf[r][1])}
                     ELSE {Completion(t) : t \in OwnTasks(r)}
  BY PostedTypes, PostedHeld
<1>4. r \in Monitor => OwnTasks(r) = {TasksOf[r][1]}
  <2>1. r \in Monitor => D = {1}
    BY TaskTypes, RequestAssumption
  <2> QED
    BY <2>1 DEF OwnTasks, Held
<1>5. \A msg \in Held(new) :
        /\ IsWork(msg) /\ msg.id \in OwnTasks(r)
        /\ msg.type = IF r \in Monitor THEN "metrics" ELSE "completion"
  BY <1>3, <1>4 DEF IsWork, Metrics, Completion
<1>6. WorkIds(Held(new)) = OwnTasks(r)
  <2>1. CASE r \in Monitor
    BY <1>3, <1>4, <2>1 DEF WorkIds, IsWork, Metrics
  <2>2. CASE r \notin Monitor
    <3>1. \A t : Completion(t).id = t /\ IsWork(Completion(t))
      BY DEF Completion, IsWork
    <3>2. Held(new) = {Completion(t) : t \in OwnTasks(r)}
      BY <1>3, <2>2
    <3> HIDE DEF new
    <3> QED
      BY <3>1, <3>2 DEF WorkIds
  <2> QED
    BY <2>1, <2>2
<1>7. Once(new)
  <2>1. CASE r \in Monitor
    BY <2>1 DEF Once
  <2>2. CASE r \notin Monitor
    <3>1. \A i \in D : posted[i].id = TasksOf[r][i]
      BY DEF Completion
    <3>2. \A i, j \in D : TasksOf[r][i] = TasksOf[r][j] => i = j
      BY RequestAssumption
    <3>3. DOMAIN posted = D
      OBVIOUS
    <3> HIDE DEF posted, D
    <3> QED
      BY <2>2, <3>1, <3>2, <3>3 DEF Once
  <2> QED
    BY <2>1, <2>2
<1>8. OwnTasks(r) \cap Todo = {} /\ \A s \in Slots : slotTask[s] \notin OwnTasks(r)
  BY <1>2 DEF OInv, Unposted
<1> HIDE DEF new, query, posted, D
<1>9. /\ Once(queue') /\ queue' \in Seq(Message)
      /\ Held(queue') = Held(queue) \cup Held(new)
  <2>1. /\ Once(queue) /\ queue \in Seq(Message)
        /\ WorkIds(Held(new)) \cap WorkIds(Held(queue)) = {}
        /\ WorkIds(Held(queue)) \cap WorkIds(Held(new)) = {}
    BY <1>1, <1>6, <1>8, TodoIs DEF OnePlace, DequesApart, TypeOK
  <2>2. /\ Once(new \o queue) /\ new \o queue \in Seq(Message)
        /\ Held(new \o queue) = Held(new) \cup Held(queue)
    <3>1. Once(new \o queue)
      BY <1>3, <1>7, <2>1, OnceConcat
    <3> QED
      BY <1>3, <2>1, <3>1, HeldConcat
  <2>3. /\ Once(queue \o new) /\ queue \o new \in Seq(Message)
        /\ Held(queue \o new) = Held(queue) \cup Held(new)
    <3>1. Once(queue \o new)
      BY <1>3, <1>7, <2>1, OnceConcat
    <3> QED
      BY <1>3, <2>1, <3>1, HeldConcat
  <2> QED
    BY <1>2, <2>2, <2>3
<1>10. WorkIds(Held(queue')) = WorkIds(Held(queue)) \cup OwnTasks(r)
  BY <1>6, <1>9, WorkIdsUnion
<1>11. Todo' = Todo \cup OwnTasks(r)
  BY <1>2, <1>10, TodoIs, TodoIsNext
<1>12. OnePlace'
  BY <1>1, <1>2, <1>8, <1>9, <1>10, <1>11, TodoIs, TodoIsNext DEF OnePlace, DequesApart
<1>13. RightKind'
  <2>1. \A msg \in Pending' : msg \in Pending \/ msg \in Held(new)
    BY <1>2, <1>9, TodoIs, TodoIsNext DEF Deques
  <2>2. \A msg \in Held(new) : IF r \in Monitor THEN msg.type = "metrics" /\ IsQuery(msg.id)
                               ELSE msg.type = "completion" /\ IsPrompt(msg.id)
    BY <1>5 DEF IsQuery, IsPrompt
  <2> QED
    BY <1>1, <1>2, <2>1, <2>2 DEF RightKind
<1> QED
  BY <1>11, <1>12, <1>13

LEMMA CancelPlaces ==
  ASSUME OInv, NEW r \in Requests, PostCancels(r)
  PROVE  OnePlace' /\ RightKind' /\ Todo' = Todo
<1> USE DEF loopVars, queueVars, slotVars, resultVars, handlerVars, history
<1> DEFINE cancels == [i \in DOMAIN TasksOf[r] |-> Cancel(TasksOf[r][i])]
           rest(q) == CleanupPending(q, OwnTasks(r))
<1>1. TypeOK /\ OnePlace /\ RightKind
  BY DEF OInv, TInv
<1>2. /\ UNCHANGED <<pc, cur, slotState, slotTask, finished, failed>> /\ InHand' = InHand
      /\ queue' = cancels \o rest(queue) /\ deferred' = rest(deferred)
  BY DEF PostCancels, InHand
<1>3. cancels \in Seq(Message) /\ Held(cancels) = {Cancel(t) : t \in OwnTasks(r)}
  BY PostedTypes, PostedHeld
<1> HIDE DEF cancels
<1>4. \A msg \in Held(cancels) : msg.type = "cancel"
  BY <1>3 DEF Cancel
<1>5. WorkIds(Held(cancels)) = {} /\ Once(cancels)
  BY <1>4 DEF WorkIds, IsWork, Once, Held
<1>6. \A msg : IsWork(msg) => IdTarget(msg) \notin OwnTasks(r)
  BY TaskTypes, NoTaskAssumption DEF IsWork, IdTarget
<1>7. ASSUME NEW dq \in Seq(Message), Once(dq)
      PROVE  /\ rest(dq) \in Seq(Message) /\ Once(rest(dq)) /\ Held(rest(dq)) \subseteq Held(dq)
             /\ WorkIds(Held(rest(dq))) = WorkIds(Held(dq))
  <2>1. /\ rest(dq) \in Seq(Message) /\ Once(rest(dq))
        /\ Held(rest(dq)) = {msg \in Held(dq) : IdTarget(msg) \notin OwnTasks(r)}
    BY <1>7, CleanupKeeps, OnceCleanup
  <2> HIDE DEF rest
  <2>2. WorkIds(Held(rest(dq))) = WorkIds(Held(dq))
    BY <1>6, <2>1 DEF WorkIds
  <2> QED
    BY <2>1, <2>2
<1> HIDE DEF rest
<1>8. /\ Once(deferred') /\ WorkIds(Held(deferred')) = WorkIds(Held(deferred))
      /\ Held(deferred') \subseteq Held(deferred)
  BY <1>1, <1>2, <1>7 DEF TypeOK, OnePlace, DequesApart
<1>9. /\ rest(queue) \in Seq(Message) /\ Once(rest(queue))
      /\ Held(rest(queue)) \subseteq Held(queue)
      /\ WorkIds(Held(rest(queue))) = WorkIds(Held(queue))
  BY <1>1, <1>7 DEF TypeOK, OnePlace, DequesApart
<1>10. Once(queue') /\ Held(queue') = Held(cancels) \cup Held(rest(queue))
  <2>1. Once(cancels \o rest(queue))
    BY <1>3, <1>5, <1>9, OnceConcat
  <2>2. Held(cancels \o rest(queue)) = Held(cancels) \cup Held(rest(queue))
    BY <1>3, <1>9, HeldConcat
  <2> QED
    BY <1>2, <2>1, <2>2
<1>11. WorkIds(Held(queue')) = WorkIds(Held(queue))
  BY <1>5, <1>9, <1>10, WorkIdsUnion
<1>12. Todo' = Todo /\ WorkIds(Deques') = WorkIds(Deques)
  BY <1>2, <1>8, <1>11, TodoIs, TodoIsNext
<1>13. OnePlace'
  BY <1>1, <1>2, <1>8, <1>10, <1>11, <1>12 DEF OnePlace, DequesApart
<1>14. \A msg \in Pending' : msg \in Pending \/ msg \in Held(cancels)
  BY <1>2, <1>8, <1>9, <1>10, TodoIs, TodoIsNext DEF Deques
<1>15. RightKind'
  BY <1>1, <1>2, <1>4, <1>14 DEF RightKind
<1> QED
  BY <1>12, <1>13, <1>15

LEMMA HandlersEffect ==
  ASSUME OInv, NEW r \in Requests,
         Register(r) \/ Handler(r) \/ StreamDropped(r) \/ ConnectionClosed(r)
  PROVE  OnePlace' /\ RightKind' /\ HandlerEffect(r)
<1> USE DEF loopVars, queueVars, slotVars, resultVars, handlerVars, history
<1>1. TypeOK /\ OnePlace /\ RightKind /\ OwnTasks(r) \subseteq TaskIds
  BY TaskTypes DEF OInv, TInv
<1>2. UNCHANGED <<pc, cur, slotState, slotTask, finished, failed>>
  BY DEF Register, StreamDropped, ConnectionClosed, Handler, StreamBegins, Receive, ReceiveError,
     GiveUp, ReceiveFinal, ReceivePartial, ReceiveMetrics, Post, PostThrows, PostCancels, Unregister
<1>3. /\ \A r2 \in Requests \ {r} : hpc'[r2] = hpc[r2]
      /\ hpc'[r] \in {"new", "registered"} => hpc[r] \in {"new", "registered"}
  BY <1>1 DEF Register, StreamDropped, ConnectionClosed, Handler, StreamBegins, Receive,
     ReceiveError, GiveUp, ReceiveFinal, ReceivePartial, ReceiveMetrics, Post, PostThrows,
     PostCancels, Unregister, Goto, TypeOK
<1>4. \A t \in TaskIds : Held(results'[t]) \subseteq Held(results[t])
  <2>1. ASSUME NEW t \in OwnTasks(r),
               ReceiveFinal(r, t) \/ ReceivePartial(r, t) \/ ReceiveMetrics(r, t)
        PROVE  \A u \in TaskIds : Held(results'[u]) \subseteq Held(results[u])
    <3>1. results[t] # <<>> /\ results' = [results EXCEPT ![t] = Tail(@)]
      BY <2>1 DEF ReceiveFinal, ReceivePartial, ReceiveMetrics, Pop
    <3> QED
      BY <1>1, <3>1, TailHeld
  <2>2. ASSUME NEW told, GiveUp(r, told)
        PROVE  \A u \in TaskIds : Held(results'[u]) \subseteq Held(results[u])
    BY <2>2 DEF GiveUp, Held
  <2>3. CASE Unregister(r)
    BY <2>3 DEF Unregister, Held
  <2>4. CASE Receive(r) \/ ConnectionClosed(r)
    BY <2>1, <2>2, <2>4 DEF Receive, ReceiveError, ConnectionClosed
  <2>5. CASE ~Receive(r) /\ ~ConnectionClosed(r) /\ ~Unregister(r)
    BY <2>5 DEF Register, StreamDropped, Handler, StreamBegins, Post, PostThrows, PostCancels
  <2> QED
    BY <2>3, <2>4, <2>5
<1>5. CASE Post(r) \/ PostThrows(r)
  <2>1. OnePlace' /\ RightKind' /\ Todo' = Todo \cup OwnTasks(r)
    BY <1>5, PostPlaces
  <2>2. hpc[r] = "registered" /\ hpc'[r] \notin {"new", "registered"}
    BY <1>1, <1>5 DEF Post, PostThrows, Goto, TypeOK
  <2> QED
    BY <1>2, <1>3, <1>4, <2>1, <2>2 DEF HandlerEffect, Posts
<1>6. CASE PostCancels(r)
  BY <1>2, <1>3, <1>4, <1>6, CancelPlaces DEF HandlerEffect
<1>7. CASE ~Post(r) /\ ~PostThrows(r) /\ ~PostCancels(r)
  <2>1. UNCHANGED <<queue, deferred>>
    BY <1>7 DEF Register, StreamDropped, ConnectionClosed, Handler, StreamBegins, Receive,
       ReceiveError, GiveUp, ReceiveFinal, ReceivePartial, ReceiveMetrics, Unregister
  <2>2. InHand' = InHand /\ Deques' = Deques /\ Pending' = Pending /\ Todo' = Todo
    BY <1>2, <2>1 DEF InHand, Deques, Pending, Todo
  <2>3. OnePlace' /\ RightKind'
    BY <1>1, <1>2, <2>1, <2>2 DEF OnePlace, DequesApart, RightKind
  <2> QED
    BY <1>2, <1>3, <1>4, <2>2, <2>3 DEF HandlerEffect
<1> QED
  BY <1>5, <1>6, <1>7
-----------------------------------------------------------------------------
(* What is sent for one task changes nothing for the others. *)
LEMMA SendHeld ==
  ASSUME TypeOK, NEW t \in TaskIds, NEW kinds \in Seq(Kinds), Send(t, kinds)
  PROVE  /\ \A u \in TaskIds \ {t} : results'[u] = results[u]
         /\ results'[t] \in {results[t], results[t] \o kinds}
         /\ Held(results[t]) \subseteq Held(results'[t])
         /\ Held(results'[t]) \subseteq Held(results[t]) \cup Held(kinds)
<1>1. Held(results[t] \o kinds) = Held(results[t]) \cup Held(kinds)
  BY HeldConcat DEF TypeOK
<1>2. /\ \A u \in TaskIds \ {t} : results'[u] = results[u]
      /\ results'[t] \in {results[t], results[t] \o kinds}
  BY DEF Send, TypeOK
<1> QED
  BY <1>1, <1>2

LEMMA PieceHeld ==
  ASSUME NEW t, NEW piece \in Piece(t) \cup {<<>>}
  PROVE  /\ piece \in Seq(Kinds) /\ piece \o <<"final">> \in Seq(Kinds)
         /\ \A x \in Held(piece) : x = "partial" /\ IsStream(t)
<1>1. <<>> \in Seq(Kinds) /\ <<>> \o <<"final">> \in Seq(Kinds)
  BY DEF Kinds
<1>2. piece \in Seq(Kinds) /\ piece \o <<"final">> \in Seq(Kinds)
  BY <1>1, KindTypes
<1>3. \A x \in Held(piece) : x = "partial" /\ IsStream(t)
  BY DEF Piece, Held
<1> QED
  BY <1>2, <1>3

(* Only the end of a task settles it. *)
LEMMA EffectSettles ==
  ASSUME TypeOK, NEW t \in TaskIds, Affects(t)
  PROVE  /\ \A u \in TaskIds \ {t} : Settled(u)' => Settled(u)
         /\ Streams(t) \/ Launches(t) => (Settled(t)' => Settled(t))
<1>1. CASE Launches(t)
  BY <1>1 DEF Launches, Settled, Ended
<1>2. CASE Streams(t)
  <2>1. PICK piece \in Piece(t) : Send(t, piece)
    BY <1>2 DEF Streams
  <2>2. piece \in Seq(Kinds) /\ Held(piece) \cap Terminal = {}
    BY PieceHeld DEF Terminal
  <2>3. /\ \A u \in TaskIds \ {t} : results'[u] = results[u]
        /\ Held(results'[t]) \subseteq Held(results[t]) \cup Held(piece)
    BY <2>1, <2>2, SendHeld
  <2>4. UNCHANGED <<finished, failed>>
    BY <1>2 DEF Streams
  <2> QED
    BY <2>2, <2>3, <2>4 DEF Settled, Ended
<1>3. CASE ~Launches(t) /\ ~Streams(t)
  <2>1. Finishes(t) \/ Fails(t) \/ Reports(t)
    BY <1>3 DEF Affects, Ends, FailsAgain
  <2>2. \E kinds \in Seq(Kinds) : Send(t, kinds)
    BY <2>1, KindTypes, PieceHeld DEF Finishes, Fails, Reports
  <2>3. \A u \in TaskIds \ {t} : results'[u] = results[u]
    BY <2>2, SendHeld
  <2>4. finished' \subseteq finished \cup {t} /\ failed' \subseteq failed \cup {t}
    BY <2>1 DEF Finishes, Fails, Reports
  <2> QED
    BY <1>3, <2>3, <2>4 DEF Settled, Ended
<1> QED
  BY <1>1, <1>2, <1>3

LEMMA LoopOutcomes ==
  ASSUME OInv, Loop
  PROVE  RightKind' /\ OpenUnsettled' /\ Unposted'
<1>1. TypeOK /\ OnePlace /\ RightKind /\ OpenUnsettled /\ Unposted /\ TInv
  BY DEF OInv, TInv
<1>2. Effect
  BY LoopEffect
<1>3. hpc' = hpc
  BY DEF Loop, StartLoop, TakeTask, EndDrain, Wake, EndLoop, ProcessTask, LaunchSlot,
     LaunchFails, CancelSlot, Defer, CancelNothing, SkipNext, ReportMetrics, Process,
     UpdateSlots, AllIdle, StartBatch, DecodeFails, EndBatch, PromptAdvances, PromptEmpty,
     PromptRejected, ContextFull, SampleToken, SampleLast, FailSlot, Visit, handlerVars
<1>4. \A msg \in Pending' : msg \in Pending \/ msg = NextResponse
  BY <1>1, LoopKeeps DEF KeepsTasks
<1>5. CASE Quiet
  <2>1. \A u \in TaskIds : (u \in Todo' => u \in Todo) /\ (Running(u)' => Running(u))
    BY <1>5 DEF Quiet, NoneStarted
  <2>2. \A u : Settled(u)' => Settled(u)
    BY <1>5 DEF Quiet, Settled, Ended
  <2>3. RightKind'
    BY <1>1, <1>4, <1>5 DEF RightKind, Quiet, NextResponse
  <2>4. OpenUnsettled'
    BY <1>1, <2>1, <2>2 DEF OpenUnsettled
  <2>5. Unposted'
    BY <1>1, <1>3, <1>5, <2>2 DEF Unposted, Quiet
  <2> QED
    BY <2>3, <2>4, <2>5
<1>6. ASSUME NEW t \in TaskIds, Affects(t)
      PROVE  RightKind' /\ OpenUnsettled' /\ Unposted'
  <2>1. Todo' \subseteq Todo /\ \A s \in Slots : slotTask'[s] \in {slotTask[s], t}
    BY <1>6 DEF Affects, Streams, Launches, Ends, FailsAgain
  <2>2. \A s \in Slots : slotTask'[s] # slotTask[s] => IsPrompt(slotTask'[s])
    BY <1>6 DEF Affects, Streams, Launches, Ends, FailsAgain
  <2>3. \A u \in finished' \cup failed' : u \in finished \cup failed \/ IsPrompt(u)
    BY <1>6 DEF Affects, Streams, Launches, Ends, FailsAgain, Finishes, Fails, Reports
  <2>4. RightKind'
    BY <1>1, <1>4, <2>2, <2>3 DEF RightKind, NextResponse, IsPrompt, IsQuery
  <2>5. \A u \in TaskIds \ {t} : Settled(u)' => Settled(u)
    BY <1>1, <1>6, EffectSettles
  <2>6. \A u \in TaskIds \ {t} : Running(u)' => Running(u)
    BY <1>6 DEF Affects, Streams, Launches, Ends, FailsAgain, NoneStarted
  <2>7. (t \in Todo' \/ Running(t)') /\ Settled(t)' => Settled(t)
    BY <1>1, <1>6, EffectSettles DEF Affects, Ends, FailsAgain, NoneStarted
  <2>8. (t \in Todo' \/ Running(t)') => (t \in Todo \/ Running(t))
    BY <1>6 DEF Affects, Streams, Launches, Ends, FailsAgain, NoneStarted
  <2>9. OpenUnsettled'
    BY <1>1, <2>1, <2>5, <2>6, <2>7, <2>8 DEF OpenUnsettled
  <2>10. t \in Todo \/ \E s \in Slots : slotTask[s] = t
    BY <1>6 DEF Affects, Streams, Launches, Ends, FailsAgain, Running
  <2>11. Unposted'
    <3>1. SUFFICES ASSUME NEW r \in Requests, hpc[r] \in {"new", "registered"},
                          NEW u \in OwnTasks(r)
                   PROVE  (u \notin Todo /\ ~Settled(u) /\ \A s \in Slots : slotTask[s] # u)'
      BY <1>3 DEF Unposted
    <3>2. u \notin Todo /\ ~Settled(u) /\ \A s \in Slots : slotTask[s] # u
      BY <1>1, <3>1 DEF Unposted
    <3>3. u \in TaskIds \ {t}
      BY <2>10, <3>2, TaskTypes
    <3> QED
      BY <2>1, <2>5, <3>2, <3>3
  <2> QED
    BY <2>4, <2>9, <2>11
<1> QED
  BY <1>2, <1>5, <1>6 DEF Effect

LEMMA HandlerOutcomes ==
  ASSUME OInv, NEW r \in Requests,
         Register(r) \/ Handler(r) \/ StreamDropped(r) \/ ConnectionClosed(r)
  PROVE  OpenUnsettled' /\ Unposted'
<1>1. TypeOK /\ OpenUnsettled /\ Unposted
  BY DEF OInv, TInv
<1>2. HandlerEffect(r)
  BY HandlersEffect
<1>3. UNCHANGED <<slotState, slotTask, finished, failed>>
  BY <1>2 DEF HandlerEffect
<1>4. \A u \in TaskIds : (Settled(u)' => Settled(u)) /\ (Running(u)' => Running(u))
  BY <1>2, <1>3 DEF HandlerEffect, Settled, Ended, Running, Busy
<1>5. \A u \in TaskIds : u \in Todo' => u \in Todo \/ ~Settled(u)
  BY <1>1, <1>2 DEF HandlerEffect, Posts, Unposted
<1>6. OpenUnsettled'
  BY <1>1, <1>4, <1>5 DEF OpenUnsettled
<1>7. Unposted'
  <2>1. SUFFICES ASSUME NEW r2 \in Requests, hpc'[r2] \in {"new", "registered"},
                        NEW u \in OwnTasks(r2)
                 PROVE  (u \notin Todo /\ ~Settled(u) /\ \A s \in Slots : slotTask[s] # u)'
    BY DEF Unposted
  <2>2. hpc[r2] \in {"new", "registered"}
    BY <1>2, <2>1 DEF HandlerEffect
  <2>3. u \notin Todo /\ ~Settled(u) /\ (\A s \in Slots : slotTask[s] # u) /\ u \in TaskIds
    BY <1>1, <2>1, <2>2, TaskTypes DEF Unposted
  <2>4. u \notin Todo'
    BY <1>2, <2>1, <2>3, RequestAssumption DEF HandlerEffect, Posts
  <2> QED
    BY <1>3, <1>4, <2>3, <2>4
<1> QED
  BY <1>6, <1>7

LEMMA OutcomesInit == Init => OInv
<1> SUFFICES ASSUME Init PROVE OInv
  OBVIOUS
<1>1. TInv
  BY TypeInit
<1>2. queue = <<>> /\ deferred = <<>> /\ InHand = {} /\ Pending = {}
  BY DEF Init, Pending, InHand, Held
<1>3. Todo = {} /\ WorkIds(InHand) = {} /\ Held(queue) = {} /\ WorkIds(Held(queue)) = {}
  <2>1. Held(queue) = {}
    BY <1>2 DEF Held
  <2>2. WorkIds({}) = {}
    BY WorkInHand
  <2> QED
    BY <1>2, <2>1, <2>2 DEF Todo
<1>4. OnePlace
  <2>1. \A s \in Slots : slotTask[s] = NoTask
    BY DEF Init
  <2>2. DequesApart
    BY <1>2, <1>3 DEF DequesApart, Once
  <2> QED
    BY <1>3, <2>1, <2>2 DEF OnePlace
<1>5. \A t \in TaskIds : ~Settled(t) /\ ~Running(t)
  BY DEF Init, Settled, Ended, Held, Running, Busy
<1>6. \A s \in Slots : slotTask[s] = NoTask
  BY DEF Init
<1>7. Unposted
  BY <1>3, <1>5, <1>6, TaskTypes, NoTaskAssumption DEF Unposted
<1>8. OpenUnsettled /\ RightKind
  BY <1>2, <1>5, <1>6 DEF Init, OpenUnsettled, RightKind
<1> QED
  BY <1>1, <1>4, <1>7, <1>8 DEF OInv

LEMMA OutcomesStep == OInv /\ [Next]_vars => OInv'
<1> SUFFICES ASSUME OInv, [Next]_vars PROVE OInv'
  OBVIOUS
<1>1. TInv'
  BY TypeStep DEF OInv
<1>2. CASE Terminate \/ TerminateStuck \/ UNCHANGED vars
  <2>1. UNCHANGED <<pc, cur, queue, deferred, slotState, slotTask, results, hpc, finished, failed>>
    BY <1>2 DEF Terminate, TerminateStuck, vars, loopVars, queueVars, slotVars, resultVars,
       handlerVars, history
  <2>2. /\ UNCHANGED <<InHand, Deques, Pending, Todo>>
        /\ \A t : (Settled(t)' <=> Settled(t)) /\ (Running(t)' <=> Running(t))
    BY <2>1 DEF InHand, Deques, Pending, Todo, Settled, Ended, Running, Busy
  <2>3. OnePlace' /\ RightKind'
    BY <2>1, <2>2 DEF OInv, OnePlace, DequesApart, RightKind
  <2>4. OpenUnsettled' /\ Unposted'
    BY <2>1, <2>2 DEF OInv, OpenUnsettled, Unposted
  <2> QED
    BY <1>1, <2>3, <2>4 DEF OInv
<1>3. CASE Loop
  BY <1>1, <1>3, LoopEffect, LoopOutcomes DEF OInv
<1>4. ASSUME NEW r \in Requests,
             Register(r) \/ Handler(r) \/ StreamDropped(r) \/ ConnectionClosed(r)
      PROVE  OInv'
  BY <1>1, <1>4, HandlersEffect, HandlerOutcomes DEF OInv
<1> QED
  BY <1>2, <1>3, <1>4 DEF Next
-----------------------------------------------------------------------------
(* A set whose elements are all equal has at most one. *)
LEMMA AtMostOne ==
  ASSUME NEW S, \A x, y \in S : x = y
  PROVE  Cardinality(S) \in {0, 1} /\ (S = {} => Cardinality(S) = 0)
<1>1. CASE S = {}
  BY <1>1, FS_EmptySet
<1>2. CASE S # {}
  <2>1. PICK x \in S : S = {x}
    BY <1>2
  <2> QED
    BY <1>2, <2>1, FS_Singleton
<1> QED
  BY <1>1, <1>2

(* The copies of a completion that RunOnce counts are in one place. *)
LEMMA OnePlaceCounts ==
  ASSUME OInv, NEW t \in TaskIds
  PROVE  /\ Copies(t) \in {0, 1}
         /\ t \notin Todo /\ ~Running(t) => Copies(t) = 0
<1> DEFINE Q == {i \in DOMAIN queue : queue[i] = Completion(t)}
           D == {i \in DOMAIN deferred : deferred[i] = Completion(t)}
           H == {msg \in InHand : msg = Completion(t)}
           R == {s \in Slots : Busy(s) /\ slotTask[s] = t}
<1>1. TypeOK /\ OnePlace
  BY DEF OInv, TInv
<1>2. IsWork(Completion(t)) /\ Completion(t).id = t /\ t # NoTask
  BY NoTaskAssumption DEF IsWork, Completion
<1>3. \A S : Completion(t) \in S => t \in WorkIds(S)
  BY <1>2 DEF WorkIds
<1>4. /\ Q # {} => t \in WorkIds(Held(queue))
      /\ D # {} => t \in WorkIds(Held(deferred))
      /\ H # {} => t \in WorkIds(InHand)
  <2>1. Q # {} => Completion(t) \in Held(queue)
    BY DEF Held
  <2>2. D # {} => Completion(t) \in Held(deferred)
    BY DEF Held
  <2>3. H # {} => Completion(t) \in InHand
    OBVIOUS
  <2> QED
    BY <1>3, <2>1, <2>2, <2>3
<1>5. R # {} => Running(t) /\ t \notin Todo
  BY <1>1 DEF Running, OnePlace
<1>6. /\ \A x, y \in Q : x = y
      /\ \A x, y \in D : x = y
      /\ \A x, y \in H : x = y
      /\ \A x, y \in R : x = y
  BY <1>1, <1>2 DEF OnePlace, DequesApart, Once
<1> HIDE DEF Q, D, H, R
<1>7. /\ Cardinality(Q) \in {0, 1} /\ (Q = {} => Cardinality(Q) = 0)
      /\ Cardinality(D) \in {0, 1} /\ (D = {} => Cardinality(D) = 0)
      /\ Cardinality(H) \in {0, 1} /\ (H = {} => Cardinality(H) = 0)
      /\ Cardinality(R) \in {0, 1} /\ (R = {} => Cardinality(R) = 0)
  BY <1>6, AtMostOne
<1>8. Copies(t) = Cardinality(Q) + Cardinality(D) + Cardinality(H) + Cardinality(R)
  BY DEF Copies, Q, D, H, R
<1>9. /\ Q # {} => D = {} /\ H = {} /\ R = {}
      /\ D # {} => H = {} /\ R = {}
      /\ H # {} => R = {}
  BY <1>1, <1>4, <1>5, TodoIs DEF OnePlace, DequesApart
<1>10. t \notin Todo /\ ~Running(t) => Q = {} /\ D = {} /\ H = {} /\ R = {}
  BY <1>4, <1>5, TodoIs
<1> QED
  BY <1>7, <1>8, <1>9, <1>10

(* For every number of slots, clients and prompts, whatever fails and      *)
(* whoever leaves: no completion is queued, deferred or run twice, and     *)
(* none is once its client was sent an outcome.                            *)
THEOREM CompletionsRunOnce == Spec => []RunOnce
<1>1. OInv => RunOnce
  <2>1. SUFFICES ASSUME OInv, NEW t \in TaskIds
                 PROVE  Copies(t) <= IF t \in finished \cup failed THEN 0 ELSE 1
    BY DEF RunOnce
  <2>2. t \in finished \cup failed => t \notin Todo /\ ~Running(t)
    BY <2>1 DEF OInv, OpenUnsettled, Settled
  <2> QED
    BY <2>1, <2>2, OnePlaceCounts
<1> QED
  BY OutcomesInit, OutcomesStep, <1>1, PTL DEF Spec

-----------------------------------------------------------------------------
(***************************************************************************)
(* What is told.  The invariant says that the queued results tell what     *)
(* really became of their tasks, that nothing follows the end of a task    *)
(* but the error of a decoder that failed for good, and that the receive   *)
(* loop counts tasks that were generated to their end, each of them once.  *)
(***************************************************************************)
(* After a terminal result only the error of a failed decode may follow.   *)
EndsLast(seq) ==
  \A i, j \in DOMAIN seq : seq[i] \in Terminal /\ i < j => DecodeMayFail /\ seq[j] = "error"

(* A queued result is what became of its task. *)
Truthful(t) ==
  /\ "final" \in Held(results[t]) => t \in finished
  /\ "error" \in Held(results[t]) => t \in failed
  /\ "metrics" \in Held(results[t]) => IsQuery(t)
  /\ "partial" \in Held(results[t]) => IsStream(t)
  /\ EndsLast(results[t])

TellsTruth == \A t \in TaskIds : Truthful(t)

OneEnd ==
  /\ \A t \in finished \cap failed : DecodeMayFail
  /\ pc = "fail" => DecodeMayFail

OnlyErrors(t) == \A x \in Held(results[t]) : x = "error" /\ DecodeMayFail

(* The receive loop of r has counted tasks of r, each once and to its end. *)
Counts(r) ==
  /\ Held(received[r]) \subseteq OwnTasks(r) \cap finished
  /\ \A t \in Held(received[r]) : OnlyErrors(t)
  /\ \A i, j \in DOMAIN received[r] : received[r][i] = received[r][j] => i = j

Answered(r) ==
  /\ hpc[r] \in {"new", "registered", "headers", "waiting"} => answer[r] = "none"
  /\ hpc[r] = "unregister" => answer[r] = "ok" \/ StreamMayDrop
  /\ answer[r] = "ok" /\ r \notin Monitor => Held(received[r]) = OwnTasks(r)

VInv ==
  /\ OInv
  /\ TellsTruth
  /\ OneEnd
  /\ \A r \in Requests : Counts(r) /\ Answered(r)
-----------------------------------------------------------------------------
(* The order of the results of a task, as they are sent and taken.         *)
LEMMA EndsLastConcat ==
  ASSUME NEW p1 \in Seq(Kinds), NEW p2 \in Seq(Kinds),
         Held(p1) \cap Terminal = {}, EndsLast(p2)
  PROVE  EndsLast(p1 \o p2)
<1>1. /\ Len(p1) \in Nat /\ Len(p2) \in Nat
      /\ DOMAIN p1 = 1 .. Len(p1) /\ DOMAIN p2 = 1 .. Len(p2)
      /\ DOMAIN (p1 \o p2) = 1 .. (Len(p1) + Len(p2))
      /\ \A i \in 1 .. (Len(p1) + Len(p2)) :
           (p1 \o p2)[i] = IF i <= Len(p1) THEN p1[i] ELSE p2[i - Len(p1)]
  BY ConcatProperties, LenProperties
<1>2. ASSUME NEW i \in DOMAIN (p1 \o p2), NEW j \in DOMAIN (p1 \o p2),
             (p1 \o p2)[i] \in Terminal, i < j
      PROVE  DecodeMayFail /\ (p1 \o p2)[j] = "error"
  <2>1. ~(i <= Len(p1))
    <3>1. i <= Len(p1) => (p1 \o p2)[i] \in Held(p1)
      BY <1>1, <1>2 DEF Held
    <3> QED
      BY <1>2, <3>1
  <2>2. /\ i - Len(p1) \in DOMAIN p2 /\ j - Len(p1) \in DOMAIN p2
        /\ i - Len(p1) < j - Len(p1)
        /\ (p1 \o p2)[i] = p2[i - Len(p1)] /\ (p1 \o p2)[j] = p2[j - Len(p1)]
    BY <1>1, <1>2, <2>1
  <2> QED
    BY <1>2, <2>2 DEF EndsLast
<1> QED
  BY <1>2 DEF EndsLast

LEMMA EndsLastError ==
  ASSUME NEW p1 \in Seq(Kinds), EndsLast(p1), DecodeMayFail
  PROVE  EndsLast(p1 \o <<"error">>)
<1>1. /\ Len(p1) \in Nat /\ DOMAIN p1 = 1 .. Len(p1)
      /\ DOMAIN (p1 \o <<"error">>) = 1 .. (Len(p1) + 1)
      /\ \A i \in 1 .. Len(p1) : (p1 \o <<"error">>)[i] = p1[i]
      /\ (p1 \o <<"error">>)[Len(p1) + 1] = "error"
  <2>1. p1 \o <<"error">> = Append(p1, "error")
    OBVIOUS
  <2> QED
    BY <2>1, AppendProperties, LenProperties DEF Kinds
<1>2. ASSUME NEW i \in 1 .. (Len(p1) + 1), NEW j \in 1 .. (Len(p1) + 1),
             (p1 \o <<"error">>)[i] \in Terminal, i < j
      PROVE  (p1 \o <<"error">>)[j] = "error"
  <2>1. i \in 1 .. Len(p1)
    BY <1>1, <1>2
  <2>2. CASE j = Len(p1) + 1
    BY <1>1, <2>2
  <2>3. CASE j # Len(p1) + 1
    <3>1. j \in 1 .. Len(p1)
      BY <1>1, <2>3
    <3> QED
      BY <1>1, <1>2, <2>1, <3>1 DEF EndsLast
  <2> QED
    BY <2>2, <2>3
<1> QED
  BY <1>1, <1>2 DEF EndsLast

LEMMA EndsLastTail ==
  ASSUME NEW p1 \in Seq(Kinds), p1 # <<>>, EndsLast(p1)
  PROVE  /\ EndsLast(Tail(p1))
         /\ Head(p1) \in Terminal =>
              \A x \in Held(Tail(p1)) : x = "error" /\ DecodeMayFail
<1>1. /\ Len(p1) \in Nat \ {0} /\ DOMAIN p1 = 1 .. Len(p1) /\ Head(p1) = p1[1]
      /\ DOMAIN Tail(p1) = 1 .. (Len(p1) - 1)
      /\ \A i \in 1 .. (Len(p1) - 1) : Tail(p1)[i] = p1[i + 1]
  BY HeadTailProperties, LenProperties, EmptySeq
<1>2. \A i \in 1 .. (Len(p1) - 1) : i + 1 \in 1 .. Len(p1) /\ 1 < i + 1
  BY <1>1
<1>3. \A i, j \in 1 .. (Len(p1) - 1) : i < j => i + 1 < j + 1
  BY <1>1
<1>4. EndsLast(Tail(p1))
  BY <1>1, <1>2, <1>3 DEF EndsLast
<1>5. ASSUME Head(p1) \in Terminal, NEW x \in Held(Tail(p1))
      PROVE  x = "error" /\ DecodeMayFail
  <2>1. PICK i \in 1 .. (Len(p1) - 1) : x = p1[i + 1]
    BY <1>1, <1>5 DEF Held
  <2>2. 1 \in DOMAIN p1 /\ i + 1 \in DOMAIN p1 /\ 1 < i + 1
    BY <1>1, <1>2, <2>1
  <2> QED
    BY <1>1, <1>5, <2>1, <2>2 DEF EndsLast
<1> QED
  BY <1>4, <1>5
-----------------------------------------------------------------------------
(* What the main thread says about a task is true, and only the error of a *)
(* failed decode comes after its end.                                      *)
LEMMA AffectsTells ==
  ASSUME VInv, NEW t \in TaskIds, Affects(t)
  PROVE  /\ \A u \in TaskIds \ {t} : results'[u] = results[u]
         /\ finished \subseteq finished' /\ finished' \subseteq finished \cup {t}
         /\ failed \subseteq failed' /\ failed' \subseteq failed \cup {t}
         /\ Truthful(t)'
         /\ Settled(t) => /\ DecodeMayFail /\ finished' = finished
                          /\ Held(results'[t]) \subseteq Held(results[t]) \cup {"error"}
         /\ t \in finished' \cap failed' => DecodeMayFail
<1>1. TypeOK /\ Truthful(t) /\ OneEnd /\ OpenUnsettled /\ results[t] \in Seq(Kinds)
  BY DEF VInv, OInv, TInv, TellsTruth, TypeOK
<1>2. t \in Todo \/ Running(t) =>
        /\ Held(results[t]) \cap Terminal = {} /\ t \notin finished \cup failed /\ ~Settled(t)
  BY <1>1 DEF OpenUnsettled, Settled, Ended
<1>3. ASSUME NEW kinds \in Seq(Kinds), Send(t, kinds)
      PROVE  /\ \A u \in TaskIds \ {t} : results'[u] = results[u]
             /\ results'[t] \in {results[t], results[t] \o kinds}
             /\ Held(results'[t]) \subseteq Held(results[t]) \cup Held(kinds)
  BY <1>1, <1>3, SendHeld
<1>4. ASSUME NEW kinds \in Seq(Kinds), Send(t, kinds), EndsLast(kinds),
             t \in Todo \/ Running(t)
      PROVE  EndsLast(results'[t])
  <2>1. EndsLast(results[t] \o kinds)
    BY <1>1, <1>2, <1>4, EndsLastConcat
  <2> QED
    BY <1>1, <1>3, <1>4, <2>1 DEF Truthful
<1>5. CASE Launches(t)
  BY <1>1, <1>2, <1>5 DEF Launches, Truthful
<1>6. CASE Streams(t)
  <2>1. PICK piece \in Piece(t) : Send(t, piece)
    BY <1>6 DEF Streams
  <2>2. piece \in Seq(Kinds) /\ \A x \in Held(piece) : x = "partial" /\ IsStream(t)
    BY PieceHeld
  <2>3. EndsLast(piece)
    BY <2>2 DEF EndsLast, Held, Terminal
  <2>4. EndsLast(results'[t])
    BY <1>4, <1>6, <2>1, <2>2, <2>3 DEF Streams
  <2>5. /\ \A u \in TaskIds \ {t} : results'[u] = results[u]
        /\ Held(results'[t]) \subseteq Held(results[t]) \cup Held(piece)
    BY <1>3, <2>1, <2>2
  <2>6. UNCHANGED <<finished, failed>> /\ Running(t)
    BY <1>6 DEF Streams
  <2>7. Truthful(t)'
    BY <1>1, <2>2, <2>4, <2>5, <2>6 DEF Truthful
  <2> QED
    BY <1>2, <2>5, <2>6, <2>7
<1>7. CASE Ends(t) /\ Finishes(t)
  <2>1. PICK piece \in Piece(t) \cup {<<>>} : Send(t, piece \o <<"final">>)
    BY <1>7 DEF Finishes
  <2>2. /\ piece \in Seq(Kinds) /\ piece \o <<"final">> \in Seq(Kinds)
        /\ \A x \in Held(piece) : x = "partial" /\ IsStream(t)
    BY PieceHeld
  <2>3. <<"final">> \in Seq(Kinds) /\ Held(<<"final">>) = {"final"} /\ EndsLast(<<"final">>)
    BY KindTypes DEF Held, EndsLast
  <2>4. Held(piece \o <<"final">>) = Held(piece) \cup {"final"}
    <3>1. \A p1, p2 \in Seq(Kinds) : Held(p1 \o p2) = Held(p1) \cup Held(p2)
      BY HeldConcat
    <3>2. Held(piece \o <<"final">>) = Held(piece) \cup Held(<<"final">>)
      BY <2>2, <2>3, <3>1, Zenon
    <3> QED
      BY <2>3, <3>2
  <2>5. EndsLast(piece \o <<"final">>)
    BY <2>2, <2>3, EndsLastConcat DEF Terminal
  <2>6. /\ finished' = finished \cup {t} /\ failed' = failed
        /\ t \in Todo \/ Running(t)
    BY <1>7 DEF Ends, Finishes
  <2>7. EndsLast(results'[t])
    BY <1>4, <2>1, <2>2, <2>5, <2>6
  <2>8. /\ \A u \in TaskIds \ {t} : results'[u] = results[u]
        /\ Held(results'[t]) \subseteq Held(results[t]) \cup Held(piece \o <<"final">>)
    BY <1>3, <2>1, <2>2
  <2>9. Truthful(t)'
    BY <1>1, <2>2, <2>4, <2>6, <2>7, <2>8 DEF Truthful
  <2> QED
    BY <1>2, <2>6, <2>8, <2>9
<1>8. CASE (Ends(t) \/ FailsAgain(t)) /\ Fails(t)
  <2>1. /\ Send(t, <<"error">>) /\ finished' = finished /\ failed' = failed \cup {t}
    BY <1>8 DEF Fails
  <2>2. <<"error">> \in Seq(Kinds) /\ Held(<<"error">>) = {"error"} /\ EndsLast(<<"error">>)
    BY KindTypes DEF Held, EndsLast
  <2>3. /\ \A u \in TaskIds \ {t} : results'[u] = results[u]
        /\ results'[t] \in {results[t], results[t] \o <<"error">>}
        /\ Held(results'[t]) \subseteq Held(results[t]) \cup {"error"}
    BY <1>3, <2>1, <2>2
  <2>4. t \in Todo \/ Running(t) \/ DecodeMayFail
    BY <1>1, <1>8 DEF Ends, FailsAgain, OneEnd
  <2>5. EndsLast(results'[t])
    <3>1. CASE t \in Todo \/ Running(t)
      BY <1>4, <2>1, <2>2, <3>1
    <3>2. CASE DecodeMayFail
      <4>1. EndsLast(results[t] \o <<"error">>)
        BY <1>1, <3>2, EndsLastError DEF Truthful
      <4> QED
        BY <1>1, <2>3, <4>1 DEF Truthful
    <3> QED
      BY <2>4, <3>1, <3>2
  <2>6. Truthful(t)'
    BY <1>1, <2>1, <2>3, <2>5 DEF Truthful
  <2> QED
    BY <1>2, <2>1, <2>3, <2>4, <2>6
<1>9. CASE Ends(t) /\ Reports(t)
  <2>1. Send(t, <<"metrics">>) /\ IsQuery(t) /\ UNCHANGED <<finished, failed>>
        /\ (t \in Todo \/ Running(t))
    BY <1>9 DEF Ends, Reports
  <2>2. /\ <<"metrics">> \in Seq(Kinds) /\ Held(<<"metrics">>) = {"metrics"}
        /\ EndsLast(<<"metrics">>)
    BY KindTypes DEF Held, EndsLast
  <2>3. /\ \A u \in TaskIds \ {t} : results'[u] = results[u]
        /\ Held(results'[t]) \subseteq Held(results[t]) \cup {"metrics"}
    BY <1>3, <2>1, <2>2
  <2>4. EndsLast(results'[t])
    BY <1>4, <2>1, <2>2
  <2>5. Truthful(t)'
    BY <1>1, <2>1, <2>3, <2>4 DEF Truthful
  <2> QED
    BY <1>2, <2>1, <2>3, <2>5
<1> QED
  BY <1>5, <1>6, <1>7, <1>8, <1>9 DEF Affects, Ends, FailsAgain

LEMMA LoopTells ==
  ASSUME VInv, Loop
  PROVE  TellsTruth' /\ OneEnd' /\ \A r \in Requests : Counts(r)' /\ Answered(r)'
<1> USE DEF loopVars, queueVars, slotVars, resultVars, handlerVars, history
<1>1. OInv /\ TypeOK /\ TellsTruth /\ OneEnd /\ \A r \in Requests : Counts(r) /\ Answered(r)
  BY DEF VInv, OInv, TInv
<1>2. UNCHANGED <<hpc, received, answer>>
  BY DEF Loop, StartLoop, TakeTask, EndDrain, Wake, EndLoop, ProcessTask, LaunchSlot,
     LaunchFails, CancelSlot, Defer, CancelNothing, SkipNext, ReportMetrics, Process,
     UpdateSlots, AllIdle, StartBatch, DecodeFails, EndBatch, PromptAdvances, PromptEmpty,
     PromptRejected, ContextFull, SampleToken, SampleLast, FailSlot, Visit
<1>3. pc' = "fail" => DecodeMayFail
  BY <1>1 DEF OneEnd, Loop, StartLoop, TakeTask, EndDrain, Wake, EndLoop, ProcessTask,
     LaunchSlot, LaunchFails, CancelSlot, Defer, CancelNothing, SkipNext, ReportMetrics, Process,
     UpdateSlots, AllIdle, StartBatch, DecodeFails, EndBatch, PromptAdvances, PromptEmpty,
     PromptRejected, ContextFull, SampleToken, SampleLast, FailSlot, Visit
<1>4. Effect
  BY <1>1, LoopEffect
<1>5. \A r \in Requests : Answered(r)'
  BY <1>1, <1>2 DEF Answered
<1>6. CASE Quiet
  <2>1. UNCHANGED <<results, finished, failed>>
    BY <1>6 DEF Quiet
  <2>2. TellsTruth' /\ OneEnd'
    BY <1>1, <1>3, <2>1 DEF TellsTruth, Truthful, OneEnd
  <2>3. \A r \in Requests : Counts(r)'
    BY <1>1, <1>2, <2>1 DEF Counts, OnlyErrors
  <2> QED
    BY <1>5, <2>2, <2>3
<1>7. ASSUME NEW t \in TaskIds, Affects(t)
      PROVE  TellsTruth' /\ OneEnd' /\ \A r \in Requests : Counts(r)' /\ Answered(r)'
  <2>1. /\ \A u \in TaskIds \ {t} : results'[u] = results[u]
        /\ finished \subseteq finished' /\ finished' \subseteq finished \cup {t}
        /\ failed \subseteq failed' /\ failed' \subseteq failed \cup {t}
        /\ Truthful(t)'
        /\ Settled(t) => /\ DecodeMayFail /\ finished' = finished
                         /\ Held(results'[t]) \subseteq Held(results[t]) \cup {"error"}
        /\ t \in finished' \cap failed' => DecodeMayFail
    BY <1>7, AffectsTells
  <2>2. TellsTruth'
    <3>1. ASSUME NEW u \in TaskIds \ {t}
          PROVE  Truthful(u)'
      BY <1>1, <2>1 DEF TellsTruth, Truthful
    <3> QED
      BY <2>1, <3>1 DEF TellsTruth
  <2>3. OneEnd'
    BY <1>1, <1>3, <2>1 DEF OneEnd
  <2>4. ASSUME NEW r \in Requests
        PROVE  Counts(r)'
    <3>1. /\ Held(received[r]) \subseteq OwnTasks(r) \cap finished
          /\ \A u \in Held(received[r]) : OnlyErrors(u)
      BY <1>1 DEF Counts
    <3>2. ASSUME NEW u \in Held(received[r])
          PROVE  OnlyErrors(u)'
      <4>1. u \in TaskIds /\ Settled(u) /\ OnlyErrors(u)
        BY <3>1, <3>2, TaskTypes DEF Settled
      <4>2. CASE u = t
        BY <2>1, <4>1, <4>2 DEF OnlyErrors
      <4>3. CASE u # t
        BY <2>1, <4>1, <4>3 DEF OnlyErrors
      <4> QED
        BY <4>2, <4>3
    <3> QED
      BY <1>1, <1>2, <2>1, <3>1, <3>2 DEF Counts
  <2> QED
    BY <1>5, <2>2, <2>3, <2>4
<1> QED
  BY <1>4, <1>6, <1>7 DEF Effect
-----------------------------------------------------------------------------
(* A receive loop that has counted as many tasks as its request has, each  *)
(* once, has counted them all.                                             *)
LEMMA CountedAll ==
  ASSUME NEW r \in Requests, NEW seq \in Seq(TaskIds),
         Held(seq) \subseteq OwnTasks(r),
         \A i, j \in DOMAIN seq : seq[i] = seq[j] => i = j,
         Len(seq) = Len(TasksOf[r])
  PROVE  Held(seq) = OwnTasks(r)
<1> DEFINE n == Len(TasksOf[r])
           own == TasksOf[r]
           pos == [t \in OwnTasks(r) |-> CHOOSE i \in 1 .. n : own[i] = t]
           f == [i \in 1 .. n |-> pos[seq[i]]]
<1>1. n \in Nat /\ DOMAIN own = 1 .. n /\ DOMAIN seq = 1 .. n
  BY TaskTypes, LenProperties
<1>2. \A t \in OwnTasks(r) : pos[t] \in 1 .. n /\ own[pos[t]] = t
  BY <1>1 DEF OwnTasks, Held
<1>3. \A i \in 1 .. n : seq[i] \in OwnTasks(r)
  BY <1>1 DEF Held
<1> HIDE DEF pos
<1>4. f \in [1 .. n -> 1 .. n]
  BY <1>2, <1>3
<1>5. \A i, j \in 1 .. n : f[i] = f[j] => i = j
  <2>1. ASSUME NEW i \in 1 .. n, NEW j \in 1 .. n, f[i] = f[j]
        PROVE  i = j
    <3>1. own[pos[seq[i]]] = own[pos[seq[j]]]
      BY <2>1
    <3>2. seq[i] = seq[j]
      BY <1>2, <1>3, <3>1
    <3> QED
      BY <1>1, <3>2
  <2> QED
    BY <2>1
<1>6. f \in Injection(1 .. n, 1 .. n)
  BY <1>4, <1>5 DEF Injection, IsInjective
<1>7. IsFiniteSet(1 .. n) /\ Cardinality(1 .. n) = n
  BY <1>1, FS_Interval
<1>8. f \in Surjection(1 .. n, 1 .. n)
  <2> HIDE DEF f
  <2> QED
    BY <1>6, <1>7, FS_Injection
<1>9. \A k \in 1 .. n : \E i \in 1 .. n : f[i] = k
  BY <1>8 DEF Surjection
<1>10. ASSUME NEW t \in OwnTasks(r)
       PROVE  t \in Held(seq)
  <2>1. PICK i \in 1 .. n : f[i] = pos[t]
    BY <1>2, <1>9
  <2>2. pos[seq[i]] = pos[t]
    BY <2>1
  <2>3. seq[i] = t
    BY <1>2, <1>3, <2>2
  <2> QED
    BY <1>1, <2>3 DEF Held
<1> QED
  BY <1>10

(* A handler only takes results, from the front or all of a task.          *)
LEMMA HandlerTakes ==
  ASSUME VInv, NEW r \in Requests,
         Register(r) \/ Handler(r) \/ StreamDropped(r) \/ ConnectionClosed(r)
  PROVE  \A t \in TaskIds : EndsLast(results'[t])
<1> USE DEF loopVars, queueVars, slotVars, resultVars, handlerVars, history
<1>1. /\ TypeOK /\ OwnTasks(r) \subseteq TaskIds /\ EndsLast(<<>>)
      /\ \A t \in TaskIds : EndsLast(results[t])
  BY TaskTypes DEF VInv, OInv, TInv, TellsTruth, Truthful, EndsLast
<1>2. ASSUME NEW t \in OwnTasks(r),
             ReceiveFinal(r, t) \/ ReceivePartial(r, t) \/ ReceiveMetrics(r, t)
      PROVE  \A u \in TaskIds : EndsLast(results'[u])
  <2>1. results[t] # <<>> /\ results' = [results EXCEPT ![t] = Tail(@)]
    BY <1>2 DEF ReceiveFinal, ReceivePartial, ReceiveMetrics, Pop
  <2>2. results[t] \in Seq(Kinds) /\ EndsLast(Tail(results[t]))
    BY <1>1, <2>1, EndsLastTail DEF TypeOK
  <2>3. \A u \in TaskIds : results'[u] = IF u = t THEN Tail(results[t]) ELSE results[u]
    BY <1>1, <2>1 DEF TypeOK
  <2> QED
    BY <1>1, <2>2, <2>3
<1>3. ASSUME NEW told, GiveUp(r, told)
      PROVE  \A u \in TaskIds : EndsLast(results'[u])
  <2>1. \A u \in TaskIds : results'[u] \in {<<>>, results[u]}
    BY <1>3 DEF GiveUp
  <2> QED
    BY <1>1, <2>1
<1>4. CASE Unregister(r)
  <2>1. \A u \in TaskIds : results'[u] \in {<<>>, results[u]}
    BY <1>4 DEF Unregister
  <2> QED
    BY <1>1, <2>1
<1>5. CASE Receive(r) \/ ConnectionClosed(r)
  BY <1>2, <1>3, <1>5 DEF Receive, ReceiveError, ConnectionClosed
<1>6. CASE ~Receive(r) /\ ~ConnectionClosed(r) /\ ~Unregister(r)
  <2>1. results' = results
    BY <1>6 DEF Register, StreamDropped, Handler, StreamBegins, Post, PostThrows, PostCancels
  <2> QED
    BY <1>1, <2>1
<1> QED
  BY <1>4, <1>5, <1>6

(* A final result is counted once, and after the last one all are counted. *)
LEMMA FinalCounted ==
  ASSUME VInv, NEW r \in Requests, NEW t \in OwnTasks(r), ReceiveFinal(r, t)
  PROVE  /\ Counts(r)'
         /\ answer'[r] = "ok" => Held(received'[r]) = OwnTasks(r)
<1> USE DEF loopVars, queueVars, slotVars, resultVars, handlerVars, history
<1>1. /\ TypeOK /\ Truthful(t) /\ Counts(r) /\ t \in TaskIds
      /\ OwnTasks(r) \subseteq TaskIds /\ Answered(r)
  BY TaskTypes DEF VInv, OInv, TInv, TellsTruth
<1>2. /\ results[t] # <<>> /\ Head(results[t]) = "final" /\ results[t] \in Seq(Kinds)
      /\ results' = [results EXCEPT ![t] = Tail(@)]
      /\ received' = [received EXCEPT ![r] = Append(@, t)]
      /\ finished' = finished /\ hpc[r] = "waiting"
  BY <1>1 DEF ReceiveFinal, Pop, TypeOK
<1>3. /\ Held(results[t]) = {"final"} \cup Held(Tail(results[t]))
  BY <1>2, HeldTail
<1>4. t \in finished /\ t \notin Held(received[r])
  BY <1>1, <1>3 DEF Truthful, Counts, OnlyErrors
<1>5. \A x \in Held(Tail(results[t])) : x = "error" /\ DecodeMayFail
  BY <1>1, <1>2, EndsLastTail DEF Truthful, Terminal
<1>6. \A u \in TaskIds : results'[u] = IF u = t THEN Tail(results[t]) ELSE results[u]
  BY <1>1, <1>2 DEF TypeOK
<1>7. received[r] \in Seq(TaskIds) /\ received'[r] = Append(received[r], t)
  BY <1>1, <1>2 DEF TypeOK
<1>8. /\ received'[r] \in Seq(TaskIds)
      /\ Held(received'[r]) = Held(received[r]) \cup {t}
      /\ Len(received[r]) \in Nat /\ Len(received'[r]) = Len(received[r]) + 1
      /\ DOMAIN received[r] = 1 .. Len(received[r])
      /\ DOMAIN received'[r] = 1 .. Len(received[r]) + 1
      /\ \A i \in 1 .. Len(received[r]) : received'[r][i] = received[r][i]
      /\ received'[r][Len(received[r]) + 1] = t
  <2>1. /\ received'[r] \in Seq(TaskIds)
        /\ Held(received'[r]) = Held(received[r]) \cup {t}
    BY <1>1, <1>7, HeldAppend
  <2> QED
    BY <1>1, <1>7, <2>1, AppendProperties, LenProperties
<1>9. \A i \in DOMAIN received[r] : received[r][i] # t
  BY <1>4 DEF Held
<1>10. \A i, j \in DOMAIN received'[r] : received'[r][i] = received'[r][j] => i = j
  <2>1. ASSUME NEW i \in DOMAIN received'[r], NEW j \in DOMAIN received'[r],
               received'[r][i] = received'[r][j]
        PROVE  i = j
    <3>1. \A k \in DOMAIN received'[r] : k \in DOMAIN received[r] \/ k = Len(received[r]) + 1
      BY <1>8
    <3> QED
      BY <1>1, <1>8, <1>9, <2>1, <3>1 DEF Counts
  <2> QED
    BY <2>1
<1>11. \A u \in Held(received'[r]) : OnlyErrors(u)'
  <2>1. \A u \in Held(received[r]) : u \in TaskIds /\ u # t /\ OnlyErrors(u)
    BY <1>1, <1>4 DEF Counts
  <2> QED
    BY <1>1, <1>5, <1>6, <1>8, <2>1 DEF OnlyErrors
<1>12. Held(received'[r]) \subseteq OwnTasks(r) \cap finished'
  BY <1>1, <1>2, <1>4, <1>8 DEF Counts
<1>13. Counts(r)'
  BY <1>10, <1>11, <1>12 DEF Counts
<1>14. ASSUME answer'[r] = "ok"
       PROVE  Held(received'[r]) = OwnTasks(r)
  <2>1. answer[r] # "ok"
    BY <1>1, <1>2 DEF Answered
  <2>2. Len(received[r]) + 1 = Len(TasksOf[r])
    BY <1>14, <2>1 DEF ReceiveFinal
  <2> QED
    BY <1>8, <1>10, <1>12, <2>2, CountedAll
<1> QED
  BY <1>13, <1>14

LEMMA HandlerTells ==
  ASSUME VInv, NEW r \in Requests,
         Register(r) \/ Handler(r) \/ StreamDropped(r) \/ ConnectionClosed(r)
  PROVE  TellsTruth' /\ OneEnd' /\ \A r2 \in Requests : Counts(r2)' /\ Answered(r2)'
<1> USE DEF loopVars, queueVars, slotVars, resultVars, handlerVars, history
<1>1. /\ OInv /\ TypeOK /\ TellsTruth /\ OneEnd
      /\ \A r2 \in Requests : Counts(r2) /\ Answered(r2)
  BY DEF VInv, OInv, TInv
<1>2. /\ UNCHANGED <<pc, finished, failed>>
      /\ \A t \in TaskIds : Held(results'[t]) \subseteq Held(results[t])
      /\ \A r2 \in Requests \ {r} : hpc'[r2] = hpc[r2]
  BY <1>1, HandlersEffect DEF HandlerEffect
<1>3. TellsTruth'
  BY <1>1, <1>2, HandlerTakes DEF TellsTruth, Truthful
<1>4. OneEnd'
  BY <1>1, <1>2 DEF OneEnd
<1>5. \A r2 \in Requests \ {r} : received'[r2] = received[r2] /\ answer'[r2] = answer[r2]
  BY <1>1 DEF Register, StreamDropped, ConnectionClosed, Handler, StreamBegins, Receive,
     ReceiveError, GiveUp, ReceiveFinal, ReceivePartial, ReceiveMetrics, Post, PostThrows,
     PostCancels, Unregister, TypeOK
<1>6. \A t \in TaskIds : OnlyErrors(t) => OnlyErrors(t)'
  BY <1>2 DEF OnlyErrors
<1>7. ASSUME NEW r2 \in Requests, received'[r2] = received[r2]
      PROVE  Counts(r2)'
  <2>1. \A t \in Held(received[r2]) : t \in TaskIds /\ OnlyErrors(t)
    BY <1>1, TaskTypes DEF Counts
  <2> QED
    BY <1>1, <1>2, <1>6, <1>7, <2>1 DEF Counts
<1>8. \A r2 \in Requests \ {r} : Counts(r2)' /\ Answered(r2)'
  BY <1>1, <1>2, <1>5, <1>7 DEF Answered
<1>9. Counts(r)' /\ Answered(r)'
  <2>1. ASSUME NEW t \in OwnTasks(r), ReceiveFinal(r, t)
        PROVE  Counts(r)' /\ Answered(r)'
    <3>1. Counts(r)' /\ (answer'[r] = "ok" => Held(received'[r]) = OwnTasks(r))
      BY <2>1, FinalCounted
    <3>2. hpc[r] = "waiting" /\ answer[r] = "none"
      BY <1>1, <2>1 DEF ReceiveFinal, Pop, Answered
    <3>3. \/ hpc'[r] = "unregister" /\ answer'[r] = "ok"
          \/ hpc'[r] = "waiting" /\ answer'[r] = "none"
      BY <1>1, <2>1, <3>2 DEF ReceiveFinal, Goto, TypeOK
    <3> QED
      BY <3>1, <3>3 DEF Answered
  <2>2. ASSUME NEW t \in OwnTasks(r), ReceiveMetrics(r, t)
        PROVE  Counts(r)' /\ Answered(r)'
    <3>1. /\ results[t] # <<>> /\ Head(results[t]) = "metrics" /\ t \in TaskIds
          /\ received' = received /\ hpc' = [hpc EXCEPT ![r] = "unregister"]
          /\ answer' = [answer EXCEPT ![r] = "ok"]
      BY <2>2, TaskTypes DEF ReceiveMetrics, Pop, Goto
    <3>2. "metrics" \in Held(results[t])
      BY <1>1, <3>1, HeldTail DEF TypeOK
    <3>3. IsQuery(t)
      BY <1>1, <3>1, <3>2 DEF TellsTruth, Truthful
    <3>4. r \in Monitor
      BY <2>2, <3>3, RequestAssumption DEF IsQuery
    <3>5. Answered(r)'
      BY <1>1, <3>1, <3>4 DEF Answered, TypeOK
    <3> QED
      BY <1>7, <3>1, <3>5
  <2>3. ASSUME NEW t \in OwnTasks(r), ReceiveError(r, t) \/ ReceivePartial(r, t)
        PROVE  Counts(r)' /\ Answered(r)'
    <3>1. received' = received
      BY <2>3 DEF ReceiveError, GiveUp, ReceivePartial
    <3>2. Answered(r)'
      BY <1>1, <2>3 DEF Answered, ReceiveError, GiveUp, ReceivePartial, Goto, TypeOK
    <3> QED
      BY <1>7, <3>1, <3>2
  <2>4. CASE \/ Register(r) \/ Post(r) \/ PostThrows(r) \/ StreamBegins(r) \/ StreamDropped(r)
             \/ ConnectionClosed(r) \/ PostCancels(r) \/ Unregister(r)
    <3>1. received' = received
      BY <2>4 DEF Register, Post, PostThrows, StreamBegins, StreamDropped, ConnectionClosed,
         GiveUp, PostCancels, Unregister
    <3>2. Answered(r)'
      BY <1>1, <2>4, SlotAssumption DEF Answered, Register, Post, PostThrows, StreamBegins,
         StreamDropped, ConnectionClosed, GiveUp, PostCancels, Unregister, Goto, TypeOK
    <3> QED
      BY <1>7, <3>1, <3>2
  <2> QED
    BY <2>1, <2>2, <2>3, <2>4 DEF Handler, Receive
<1> QED
  BY <1>3, <1>4, <1>8, <1>9

LEMMA TruthInit == Init => VInv
<1> SUFFICES ASSUME Init PROVE VInv
  OBVIOUS
<1>1. OInv
  BY OutcomesInit
<1>2. TellsTruth /\ OneEnd
  BY DEF Init, TellsTruth, Truthful, EndsLast, Held, OneEnd
<1>3. \A r \in Requests : Counts(r) /\ Answered(r)
  BY DEF Init, Counts, Answered, Held
<1> QED
  BY <1>1, <1>2, <1>3 DEF VInv

LEMMA TruthStep == VInv /\ [Next]_vars => VInv'
<1> SUFFICES ASSUME VInv, [Next]_vars PROVE VInv'
  OBVIOUS
<1>1. OInv'
  BY OutcomesStep DEF VInv
<1>2. CASE Terminate \/ TerminateStuck \/ UNCHANGED vars
  <2>1. UNCHANGED <<pc, results, hpc, received, answer, finished, failed>>
    BY <1>2 DEF Terminate, TerminateStuck, vars, loopVars, queueVars, slotVars, resultVars,
       handlerVars, history
  <2>2. TellsTruth' /\ OneEnd'
    BY <2>1 DEF VInv, TellsTruth, Truthful, OneEnd
  <2>3. \A r \in Requests : Counts(r)' /\ Answered(r)'
    BY <2>1 DEF VInv, Counts, OnlyErrors, Answered
  <2> QED
    BY <1>1, <2>2, <2>3 DEF VInv
<1>3. CASE Loop
  BY <1>1, <1>3, LoopTells DEF VInv
<1>4. ASSUME NEW r \in Requests,
             Register(r) \/ Handler(r) \/ StreamDropped(r) \/ ConnectionClosed(r)
      PROVE  VInv'
  BY <1>1, <1>4, HandlerTells DEF VInv
<1> QED
  BY <1>2, <1>3, <1>4 DEF Next

(* For every number of slots, clients and prompts, whatever fails and      *)
(* whoever leaves: a client told "ok" has one result of each of its        *)
(* prompts, every one generated to its end.                                *)
THEOREM AnswersComplete == Spec => []CompleteAnswer
<1>1. VInv => CompleteAnswer
  BY DEF VInv, Answered, Counts, CompleteAnswer
<1> QED
  BY TruthInit, TruthStep, <1>1, PTL DEF Spec

(* Unless llama_decode fails for good, every task has one end and one      *)
(* terminal result, after its pieces: only the failed decode gives errors  *)
(* to the tasks its idle slots had before.                                 *)
THEOREM VerdictsOnce ==
  ASSUME DecodeMayFail = FALSE
  PROVE  Spec => []OneVerdict
<1>1. VInv => OneVerdict
  <2>1. SUFFICES ASSUME VInv, NEW t \in TaskIds
                 PROVE  /\ t \notin finished \cap failed
                        /\ \A i \in DOMAIN results[t] :
                             results[t][i] \in Terminal => i = Len(results[t])
    BY DEF OneVerdict
  <2>2. results[t] \in Seq(Kinds) /\ EndsLast(results[t]) /\ t \notin finished \cap failed
    BY <2>1 DEF VInv, OInv, TInv, TypeOK, TellsTruth, Truthful, OneEnd
  <2>3. Len(results[t]) \in Nat /\ DOMAIN results[t] = 1 .. Len(results[t])
    BY <2>2, LenProperties
  <2>4. ASSUME NEW i \in DOMAIN results[t], results[t][i] \in Terminal, i # Len(results[t])
        PROVE  FALSE
    <3>1. Len(results[t]) \in DOMAIN results[t] /\ i < Len(results[t])
      BY <2>3, <2>4
    <3> QED
      BY <2>2, <2>4, <3>1 DEF EndsLast
  <2> QED
    BY <2>2, <2>4
<1> QED
  BY TruthInit, TruthStep, <1>1, PTL DEF Spec
-----------------------------------------------------------------------------
(* Results are kept only for ids that are waited for, as long as no error  *)
(* follows the end of a task and no client leaves before its stream        *)
(* begins: then a handler that unregisters its ids has taken every result. *)
LEMMA AwaitedStep ==
  ASSUME DecodeMayFail = FALSE, StreamMayDrop = FALSE,
         VInv, ResultsAwaited, [Next]_vars
  PROVE  ResultsAwaited'
<1> USE DEF loopVars, queueVars, slotVars, resultVars, handlerVars, history
<1>1. OInv /\ TypeOK /\ \A r \in Requests : Counts(r) /\ Answered(r)
  BY DEF VInv, OInv, TInv
<1>2. CASE Terminate \/ TerminateStuck \/ UNCHANGED vars
  BY <1>2 DEF Terminate, TerminateStuck, vars, ResultsAwaited
<1>3. CASE Loop
  <2>1. waiting' = waiting
    BY <1>3 DEF Loop, StartLoop, TakeTask, EndDrain, Wake, EndLoop, ProcessTask, LaunchSlot,
       LaunchFails, CancelSlot, Defer, CancelNothing, SkipNext, ReportMetrics, Process,
       UpdateSlots, AllIdle, StartBatch, DecodeFails, EndBatch, PromptAdvances, PromptEmpty,
       PromptRejected, ContextFull, SampleToken, SampleLast, FailSlot, Visit
  <2>2. ASSUME NEW t, NEW kinds, Send(t, kinds)
        PROVE  ResultsAwaited'
    BY <1>1, <2>1, <2>2 DEF Send, ResultsAwaited, TypeOK
  <2>3. results' = results \/ \E t, kinds : Send(t, kinds)
    BY <1>1, <1>3, LoopEffect DEF Effect, Quiet, Affects, Streams, Launches, Ends, FailsAgain,
       Finishes, Fails, Reports
  <2> QED
    BY <2>1, <2>2, <2>3 DEF ResultsAwaited
<1>4. ASSUME NEW r \in Requests,
             Register(r) \/ Handler(r) \/ StreamDropped(r) \/ ConnectionClosed(r)
      PROVE  ResultsAwaited'
  <2>1. OwnTasks(r) \subseteq TaskIds
    BY TaskTypes
  <2>2. ASSUME NEW t \in OwnTasks(r),
               ReceiveFinal(r, t) \/ ReceivePartial(r, t) \/ ReceiveMetrics(r, t)
        PROVE  ResultsAwaited'
    <3>1. /\ results[t] # <<>> /\ results' = [results EXCEPT ![t] = Tail(@)]
          /\ waiting' = waiting
      BY <2>2 DEF ReceiveFinal, ReceivePartial, ReceiveMetrics, Pop
    <3> QED
      BY <1>1, <2>1, <3>1 DEF ResultsAwaited, TypeOK
  <2>3. ASSUME NEW told, GiveUp(r, told)
        PROVE  ResultsAwaited'
    BY <1>1, <2>1, <2>3 DEF GiveUp, ResultsAwaited
  <2>4. CASE Unregister(r)
    <3>1. CASE r \in Monitor
      BY <1>1, <2>1, <2>4, <3>1 DEF Unregister, ResultsAwaited
    <3>2. CASE r \notin Monitor
      <4>1. answer[r] = "ok" /\ Held(received[r]) = OwnTasks(r)
        BY <1>1, <2>4, <3>2 DEF Unregister, Goto, Answered
      <4>2. ASSUME NEW t \in OwnTasks(r)
            PROVE  results[t] = <<>>
        <5>1. Held(results[t]) = {}
          BY <1>1, <4>1, <4>2 DEF Counts, OnlyErrors
        <5>2. results[t] \in Seq(Kinds)
          BY <1>1, <2>1, <4>2 DEF TypeOK
        <5>3. results[t] # <<>> => Head(results[t]) \in Held(results[t])
          BY <5>2, HeldTail
        <5> QED
          BY <5>1, <5>3
      <4>3. results' = results /\ waiting' = waiting \ OwnTasks(r)
        BY <2>4, <3>2 DEF Unregister
      <4> QED
        BY <4>2, <4>3 DEF ResultsAwaited
    <3> QED
      BY <3>1, <3>2
  <2>5. CASE \/ Register(r) \/ Post(r) \/ PostThrows(r) \/ StreamBegins(r) \/ StreamDropped(r)
             \/ PostCancels(r)
    <3>1. results' = results /\ waiting \subseteq waiting'
      BY <2>5 DEF Register, Post, PostThrows, StreamBegins, StreamDropped, PostCancels
    <3> QED
      BY <3>1 DEF ResultsAwaited
  <2> QED
    BY <1>4, <2>2, <2>3, <2>4, <2>5 DEF Handler, Receive, ReceiveError, ConnectionClosed
<1> QED
  BY <1>2, <1>3, <1>4 DEF Next

(* queue_results never keeps what nobody will take, if no decode fails for *)
(* good and no client leaves before its stream begins.  Both exceptions    *)
(* are real: remove_waiting_task_ids leaves queued results behind.         *)
THEOREM NoResultLeftBehind ==
  ASSUME DecodeMayFail = FALSE, StreamMayDrop = FALSE
  PROVE  Spec => []ResultsAwaited
<1> DEFINE RInv == VInv /\ ResultsAwaited
<1>1. Init => RInv
  BY TruthInit DEF Init, ResultsAwaited
<1>2. RInv /\ [Next]_vars => RInv'
  BY TruthStep, AwaitedStep
<1>3. RInv => ResultsAwaited
  OBVIOUS
<1> HIDE DEF RInv
<1> QED
  BY <1>1, <1>2, <1>3, PTL DEF Spec
-----------------------------------------------------------------------------
(* A request has one owner. *)
LEMMA OwnerIs ==
  ASSUME NEW r \in Requests, NEW t \in OwnTasks(r)
  PROVE  Owner(t) = r
BY RequestAssumption DEF Owner

(* A receive loop that takes no stream never finds a piece of text. *)
LEMMA NoPieceForCallback ==
  ASSUME Callback \cap Stream = {}, VInv, NEW r \in Callback, NEW t \in OwnTasks(r)
  PROVE  ~ReceivePartial(r, t)
<1> SUFFICES ASSUME ReceivePartial(r, t) PROVE FALSE
  OBVIOUS
<1>1. r \in Requests /\ Stream \subseteq Requests
  BY RequestAssumption
<1>2. t \in TaskIds /\ results[t] # <<>> /\ Head(results[t]) = "partial"
  BY <1>1, TaskTypes DEF ReceivePartial, Pop
<1>3. "partial" \in Held(results[t])
  BY <1>2, HeldTail DEF VInv, OInv, TInv, TypeOK
<1>4. PICK r2 \in Stream : t \in OwnTasks(r2)
  BY <1>2, <1>3 DEF VInv, TellsTruth, Truthful, IsStream
<1>5. r2 = r
  BY <1>1, <1>4, RequestAssumption
<1> QED
  BY <1>4, <1>5

(* The assertion of receive_multi_results holds: no request is aborted     *)
(* unless it asks both for a callback and for a stream.                    *)
THEOREM AssertionHolds ==
  ASSUME Callback \cap Stream = {}
  PROVE  Spec => []NoAbort
<1> DEFINE NInv == VInv /\ NoAbort
<1>1. Init => NInv
  BY TruthInit DEF Init, NoAbort
<1>2. ASSUME VInv, NoAbort, [Next]_vars
      PROVE  NoAbort'
  <2> USE DEF loopVars, queueVars, slotVars, resultVars, handlerVars, history
  <2>1. CASE Terminate \/ TerminateStuck \/ UNCHANGED vars \/ Loop
    <3>1. hpc' = hpc
      BY <2>1 DEF Terminate, TerminateStuck, vars, Loop, StartLoop, TakeTask, EndDrain, Wake,
         EndLoop, ProcessTask, LaunchSlot, LaunchFails, CancelSlot, Defer, CancelNothing,
         SkipNext, ReportMetrics, Process, UpdateSlots, AllIdle, StartBatch, DecodeFails,
         EndBatch, PromptAdvances, PromptEmpty, PromptRejected, ContextFull, SampleToken,
         SampleLast, FailSlot, Visit
    <3> QED
      BY <1>2, <3>1 DEF NoAbort
  <2>2. ASSUME NEW r \in Requests,
               Register(r) \/ Handler(r) \/ StreamDropped(r) \/ ConnectionClosed(r)
        PROVE  NoAbort'
    <3>1. \A r2 \in Requests \ {r} : hpc'[r2] = hpc[r2]
      BY <1>2, <2>2, HandlersEffect DEF HandlerEffect, VInv
    <3>2. hpc'[r] # "aborted"
      BY <1>2, <2>2, NoPieceForCallback DEF NoAbort, VInv, OInv, TInv, TypeOK, Register,
         StreamDropped, ConnectionClosed, Handler, StreamBegins, Receive, ReceiveError, GiveUp,
         ReceiveFinal, ReceivePartial, ReceiveMetrics, Post, PostThrows, PostCancels,
         Unregister, Goto
    <3> QED
      BY <1>2, <3>1, <3>2 DEF NoAbort
  <2> QED
    BY <1>2, <2>1, <2>2 DEF Next
<1>3. NInv /\ [Next]_vars => NInv'
  BY <1>2, TruthStep
<1>4. NInv => NoAbort
  OBVIOUS
<1> HIDE DEF NInv
<1> QED
  BY <1>1, <1>3, <1>4, PTL DEF Spec

(* Every id that is waited for belongs to a request whose handler is still *)
(* going to remove it.                                                     *)
Attended ==
  \A t \in waiting : \E r \in Requests :
    t \in OwnTasks(r) /\ hpc[r] \in {"registered", "headers", "waiting", "unregister"}

LEMMA AttendedStep ==
  ASSUME BadCallback = {}, Callback \cap Stream = {}, VInv, Attended, [Next]_vars
  PROVE  Attended'
<1> USE DEF loopVars, queueVars, slotVars, resultVars, handlerVars, history
<1>1. CASE Terminate \/ TerminateStuck \/ UNCHANGED vars \/ Loop
  <2>1. UNCHANGED <<waiting, hpc>>
    BY <1>1 DEF Terminate, TerminateStuck, vars, Loop, StartLoop, TakeTask, EndDrain, Wake,
       EndLoop, ProcessTask, LaunchSlot, LaunchFails, CancelSlot, Defer, CancelNothing,
       SkipNext, ReportMetrics, Process, UpdateSlots, AllIdle, StartBatch, DecodeFails,
       EndBatch, PromptAdvances, PromptEmpty, PromptRejected, ContextFull, SampleToken,
       SampleLast, FailSlot, Visit
  <2> QED
    BY <2>1 DEF Attended
<1>2. ASSUME NEW r \in Requests,
             Register(r) \/ Handler(r) \/ StreamDropped(r) \/ ConnectionClosed(r)
      PROVE  Attended'
  <2>1. TypeOK /\ \A r2 \in Requests \ {r} : hpc'[r2] = hpc[r2]
    BY <1>2, HandlersEffect DEF HandlerEffect, VInv, OInv, TInv
  <2>2. \/ waiting' = waiting \ OwnTasks(r)
        \/ /\ waiting' = waiting
           /\ hpc'[r] \in {"registered", "headers", "waiting", "unregister"} \/ hpc'[r] = "done"
           /\ hpc'[r] = "done" => hpc[r] = "cancelling"
        \/ /\ waiting' = waiting \cup OwnTasks(r)
           /\ hpc'[r] = "registered"
    <3>1. CASE Unregister(r) \/ ConnectionClosed(r) \/ \E t \in OwnTasks(r) : ReceiveError(r, t)
      BY <3>1 DEF Unregister, ConnectionClosed, ReceiveError, GiveUp
    <3>2. CASE Register(r)
      BY <2>1, <3>2 DEF Register, Goto, TypeOK
    <3>3. CASE PostCancels(r)
      BY <2>1, <3>3 DEF PostCancels, Goto, TypeOK
    <3>4. CASE Post(r) \/ PostThrows(r) \/ StreamBegins(r) \/ StreamDropped(r)
      BY <1>2, <2>1, <3>4 DEF Post, PostThrows, StreamBegins, StreamDropped, Goto, TypeOK
    <3>5. ASSUME NEW t \in OwnTasks(r),
                 ReceiveFinal(r, t) \/ ReceivePartial(r, t) \/ ReceiveMetrics(r, t)
          PROVE  waiting' = waiting /\ hpc'[r] \in {"waiting", "unregister"}
      <4>1. hpc[r] = "waiting"
        BY <3>5 DEF ReceiveFinal, ReceivePartial, ReceiveMetrics, Pop
      <4>2. r \notin Callback \/ ~ReceivePartial(r, t)
        BY NoPieceForCallback
      <4> QED
        BY <2>1, <3>5, <4>1, <4>2 DEF ReceiveFinal, ReceivePartial, ReceiveMetrics, Goto, TypeOK
    <3> QED
      BY <1>2, <3>1, <3>2, <3>3, <3>4, <3>5 DEF Handler, Receive
  <2>3. ASSUME NEW t \in waiting'
        PROVE  \E r2 \in Requests :
                 /\ t \in OwnTasks(r2)
                 /\ hpc'[r2] \in {"registered", "headers", "waiting", "unregister"}
    <3>1. CASE t \in OwnTasks(r)
      <4>1. t \in waiting => hpc[r] # "cancelling"
        BY <3>1, RequestAssumption DEF Attended
      <4> QED
        BY <2>2, <2>3, <3>1, <4>1
    <3>2. CASE t \notin OwnTasks(r)
      <4>1. t \in waiting
        BY <2>2, <2>3, <3>2
      <4>2. PICK r2 \in Requests :
              t \in OwnTasks(r2) /\ hpc[r2] \in {"registered", "headers", "waiting", "unregister"}
        BY <4>1 DEF Attended
      <4>3. hpc'[r2] = hpc[r2]
        BY <2>1, <3>2, <4>2
      <4> QED
        BY <4>2, <4>3
    <3> QED
      BY <3>1, <3>2
  <2> QED
    BY <2>3 DEF Attended
<1> QED
  BY <1>1, <1>2 DEF Next

(* An id is waited for only while its handler will still remove it, if no  *)
(* callback makes the handler throw or abort.                              *)
THEOREM NoIdLeftBehind ==
  ASSUME BadCallback = {}, Callback \cap Stream = {}
  PROVE  Spec => []WaitingHasHandler
<1> DEFINE WInv == VInv /\ Attended
<1>1. Init => WInv
  BY TruthInit DEF Init, Attended
<1>2. WInv /\ [Next]_vars => WInv'
  BY TruthStep, AttendedStep
<1>3. WInv => WaitingHasHandler
  BY OwnerIs DEF Attended, WaitingHasHandler
<1> HIDE DEF WInv
<1> QED
  BY <1>1, <1>2, <1>3, PTL DEF Spec
-----------------------------------------------------------------------------
(***************************************************************************)
(* The refinement.  Post is Ask, a step that ends a task is Generate or    *)
(* Refuse, and the steps that fix what a client is told are the others.    *)
(***************************************************************************)
(* The state of Answering, as Promise maps it. *)
PromptsFn == [r \in Requests |-> IF r \in Monitor THEN {} ELSE OwnTasks(r)]
Status(r) ==
  IF answer[r] # "none" THEN answer[r]
  ELSE IF hpc[r] \in {"new", "registered"} THEN "new" ELSE "asked"
StatusFn == [r \in Requests |-> Status(r)]

LEMMA StatusIs ==
  /\ DOMAIN StatusFn = Requests /\ \A r \in Requests : StatusFn[r] = Status(r)
  /\ DOMAIN StatusFn' = Requests /\ \A r \in Requests : StatusFn'[r] = Status(r)'
BY DEF StatusFn, Status

(* A step that changes what one client knows, and no task. *)
LEMMA TurnIs ==
  ASSUME NEW r \in Requests, NEW from, NEW to,
         Status(r) = from, Status(r)' = to,
         \A r2 \in Requests \ {r} : hpc'[r2] = hpc[r2] /\ answer'[r2] = answer[r2],
         UNCHANGED <<finished, failed>>
  PROVE  Promise!Turn(r, from, to)
<1>1. \A r2 \in Requests \ {r} : StatusFn'[r2] = StatusFn[r2]
  BY DEF StatusFn, Status
<1>2. StatusFn[r] = from /\ StatusFn'[r] = to
  BY StatusIs
<1>3. StatusFn' = [StatusFn EXCEPT ![r] = to]
  BY <1>1, <1>2 DEF StatusFn, Status
<1> QED
  BY <1>2, <1>3 DEF Promise!Turn, StatusFn, Status

(* What the main thread does to a task of a posted request. *)
LEMMA LoopPromise ==
  ASSUME VInv, Loop
  PROVE  Promise!PromiseNext \/ UNCHANGED Promise!promised
<1> USE DEF loopVars, queueVars, slotVars, resultVars, handlerVars, history
<1>1. OInv /\ TypeOK /\ OneEnd /\ Unposted /\ OpenUnsettled /\ Effect
  BY LoopEffect DEF VInv, OInv, TInv
<1>2. UNCHANGED <<hpc, answer>>
  BY DEF Loop, StartLoop, TakeTask, EndDrain, Wake, EndLoop, ProcessTask, LaunchSlot,
     LaunchFails, CancelSlot, Defer, CancelNothing, SkipNext, ReportMetrics, Process,
     UpdateSlots, AllIdle, StartBatch, DecodeFails, EndBatch, PromptAdvances, PromptEmpty,
     PromptRejected, ContextFull, SampleToken, SampleLast, FailSlot, Visit
<1>3. StatusFn' = StatusFn
  BY <1>2 DEF StatusFn, Status
<1>4. CASE UNCHANGED <<finished, failed>>
  BY <1>3, <1>4 DEF Promise!promised, StatusFn, Status
<1>5. ASSUME NEW t \in TaskIds, IsPrompt(t),
             t \in Todo \/ \E s \in Slots : slotTask[s] = t
      PROVE  /\ Promise!Asked(t)
             /\ \E r \in Requests : t \in PromptsFn[r]
  <2>1. PICK r \in Requests \ Monitor : t \in OwnTasks(r)
    BY <1>5 DEF IsPrompt
  <2>2. hpc[r] \notin {"new", "registered"}
    BY <1>1, <1>5, <2>1 DEF Unposted
  <2>3. Status(r) # "new" /\ PromptsFn[r] = OwnTasks(r)
    BY <1>1, <2>1, <2>2 DEF Status, TypeOK, PromptsFn
  <2>4. StatusFn[r] # "new" /\ t \in PromptsFn[r]
    BY <2>1, <2>3, StatusIs
  <2> QED
    BY <2>4 DEF Promise!Asked, StatusFn, Status, PromptsFn
<1>6. ASSUME NEW t \in TaskIds, Ends(t), Finishes(t)
      PROVE  Promise!PromiseNext
  <2>1. IsPrompt(t) /\ (t \in Todo \/ \E s \in Slots : slotTask[s] = t)
    BY <1>6 DEF Ends, Finishes, Running
  <2>2. t \notin finished \cup failed /\ finished' = finished \cup {t} /\ failed' = failed
    BY <1>1, <1>6 DEF Ends, Finishes, OpenUnsettled, Settled
  <2>3. Promise!Generate(t)
    BY <1>3, <1>5, <2>1, <2>2 DEF Promise!Generate, StatusFn, Status
  <2> QED
    BY <1>5, <2>1, <2>3 DEF Promise!PromiseNext, PromptsFn
<1>7. ASSUME NEW t \in TaskIds, Ends(t) \/ FailsAgain(t), Fails(t)
      PROVE  Promise!PromiseNext \/ UNCHANGED Promise!promised
  <2>1. IsPrompt(t) /\ (t \in Todo \/ \E s \in Slots : slotTask[s] = t)
    BY <1>7 DEF Ends, FailsAgain, Fails, Running
  <2>2. finished' = finished /\ failed' = failed \cup {t}
    BY <1>7 DEF Fails
  <2>3. CASE t \in failed
    BY <1>4, <2>2, <2>3
  <2>4. CASE t \notin failed
    <3>1. t \in finished => DecodeMayFail
      BY <1>1, <1>7 DEF Ends, FailsAgain, OpenUnsettled, Settled, OneEnd
    <3>2. Promise!Refuse(t)
      BY <1>3, <1>5, <2>1, <2>2, <2>4, <3>1 DEF Promise!Refuse, StatusFn, Status
    <3> QED
      BY <1>5, <2>1, <3>2 DEF Promise!PromiseNext, PromptsFn
  <2> QED
    BY <2>3, <2>4
<1>8. ASSUME NEW t \in TaskIds, Affects(t)
      PROVE  Promise!PromiseNext \/ UNCHANGED Promise!promised
  <2>1. CASE UNCHANGED <<finished, failed>>
    BY <1>4, <2>1
  <2>2. CASE ~UNCHANGED <<finished, failed>>
    BY <1>6, <1>7, <1>8, <2>2 DEF Affects, Streams, Launches, Ends, FailsAgain, Reports
  <2> QED
    BY <2>1, <2>2
<1> QED
  BY <1>1, <1>4, <1>8 DEF Effect, Quiet

(* What a client is told follows from what became of its prompts. *)
LEMMA HandlerPromise ==
  ASSUME VInv, NEW r \in Requests,
         Register(r) \/ Handler(r) \/ StreamDropped(r) \/ ConnectionClosed(r)
  PROVE  Promise!PromiseNext \/ UNCHANGED Promise!promised
<1> USE DEF loopVars, queueVars, slotVars, resultVars, handlerVars, history
<1>1. /\ TypeOK /\ TellsTruth /\ RightKind /\ Counts(r) /\ Answered(r)
      /\ OwnTasks(r) \subseteq TaskIds
  BY TaskTypes DEF VInv, OInv, TInv
<1>2. /\ UNCHANGED <<finished, failed>>
      /\ \A r2 \in Requests \ {r} : hpc'[r2] = hpc[r2]
  BY <1>1, HandlersEffect DEF VInv, HandlerEffect
<1>3. \A r2 \in Requests \ {r} : answer'[r2] = answer[r2]
  BY <1>1 DEF Register, StreamDropped, ConnectionClosed, Handler, StreamBegins, Receive,
     ReceiveError, GiveUp, ReceiveFinal, ReceivePartial, ReceiveMetrics, Post, PostThrows,
     PostCancels, Unregister, TypeOK
<1>4. ASSUME NEW from, NEW to, Status(r) = from, Status(r)' = to
      PROVE  Promise!Turn(r, from, to)
  BY <1>2, <1>3, <1>4, TurnIs
<1>5. ASSUME Status(r)' = Status(r)
      PROVE  UNCHANGED Promise!promised
  <2>1. \A r2 \in Requests : Status(r2)' = Status(r2)
    BY <1>2, <1>3, <1>5 DEF Status
  <2>2. StatusFn' = StatusFn
    BY <2>1, StatusIs DEF StatusFn, Status
  <2> QED
    BY <1>2, <2>2 DEF Promise!promised, StatusFn, Status
<1>6. CASE Register(r) \/ StreamBegins(r) \/ PostCancels(r) \/ Unregister(r)
  <2>1. Status(r)' = Status(r)
    BY <1>1, <1>6 DEF Register, StreamBegins, PostCancels, Unregister, Goto, Status, TypeOK
  <2> QED
    BY <1>5, <2>1
<1>7. CASE Post(r)
  <2>1. Status(r) = "new" /\ Status(r)' = "asked"
    BY <1>1, <1>7 DEF Post, Goto, Status, Answered, TypeOK
  <2> QED
    BY <1>4, <2>1 DEF Promise!PromiseNext, Promise!Ask
<1>8. CASE PostThrows(r)
  <2>1. Status(r) = "new" /\ Status(r)' = "error" /\ r \in BadCallback
    BY <1>1, <1>8 DEF PostThrows, Goto, Status, Answered, TypeOK
  <2> QED
    BY <1>4, <2>1 DEF Promise!PromiseNext, Promise!TellMalformed
<1>9. CASE StreamDropped(r) \/ ConnectionClosed(r)
  <2>1. Status(r) = "asked" /\ Status(r)' = "closed"
    BY <1>1, <1>9 DEF StreamDropped, ConnectionClosed, GiveUp, Goto, Status, Answered, TypeOK
  <2> QED
    BY <1>4, <2>1 DEF Promise!PromiseNext, Promise!Leave
<1>10. ASSUME NEW t \in OwnTasks(r), NEW kind, Pop(r, t, kind)
       PROVE  t \in TaskIds /\ kind \in Held(results[t]) /\ Status(r) = "asked"
  <2>1. t \in TaskIds /\ kind \in Held(results[t])
    BY <1>1, <1>10, HeldTail DEF Pop, TypeOK
  <2>2. Status(r) = "asked"
    BY <1>1, <1>10 DEF Pop, Status, Answered
  <2> QED
    BY <2>1, <2>2
<1>11. ASSUME NEW t \in OwnTasks(r), ReceiveError(r, t)
       PROVE  Promise!PromiseNext
  <2>1. t \in failed /\ Status(r) = "asked"
    BY <1>1, <1>10, <1>11 DEF ReceiveError, TellsTruth, Truthful
  <2>2. PromptsFn[r] = OwnTasks(r)
    <3>1. PICK r2 \in Requests \ Monitor : t \in OwnTasks(r2)
      BY <1>1, <2>1 DEF RightKind, IsPrompt
    <3>2. r2 = r
      BY <1>11, <3>1, RequestAssumption
    <3> QED
      BY <3>1, <3>2 DEF PromptsFn
  <2>3. Status(r)' = "error"
    BY <1>1, <1>11 DEF ReceiveError, GiveUp, Status, TypeOK
  <2>4. Promise!TellError(r)
    BY <1>4, <1>11, <2>1, <2>2, <2>3 DEF Promise!TellError, PromptsFn
  <2> QED
    BY <2>4 DEF Promise!PromiseNext
<1>12. ASSUME Status(r) = "asked", Status(r)' = "ok", PromptsFn[r] \subseteq finished
       PROVE  Promise!PromiseNext
  BY <1>4, <1>12 DEF Promise!PromiseNext, Promise!Answer, PromptsFn
<1>13. ASSUME NEW t \in OwnTasks(r), ReceiveFinal(r, t)
       PROVE  Promise!PromiseNext \/ UNCHANGED Promise!promised
  <2>1. /\ Status(r) = "asked" /\ hpc[r] = "waiting" /\ answer[r] = "none"
        /\ Counts(r)' /\ (answer'[r] = "ok" => Held(received'[r]) = OwnTasks(r))
    BY <1>1, <1>10, <1>13, FinalCounted DEF ReceiveFinal, Pop, Answered
  <2>2. CASE UNCHANGED <<hpc, answer>>
    BY <1>5, <2>2 DEF Status
  <2>3. CASE answer' = [answer EXCEPT ![r] = "ok"]
    <3>1. answer'[r] = "ok" /\ Status(r)' = "ok"
      BY <1>1, <2>3 DEF Status, TypeOK
    <3>2. PromptsFn[r] \subseteq finished
      BY <1>2, <2>1, <3>1 DEF Counts, PromptsFn
    <3> QED
      BY <1>12, <2>1, <3>1, <3>2
  <2> QED
    BY <1>13, <2>2, <2>3 DEF ReceiveFinal
<1>14. ASSUME NEW t \in OwnTasks(r), ReceivePartial(r, t)
       PROVE  UNCHANGED Promise!promised
  <2>1. Status(r)' = Status(r)
    BY <1>1, <1>14 DEF ReceivePartial, Pop, Goto, Status, TypeOK
  <2> QED
    BY <1>5, <2>1
<1>15. ASSUME NEW t \in OwnTasks(r), ReceiveMetrics(r, t)
       PROVE  Promise!PromiseNext
  <2>1. IsQuery(t) /\ Status(r) = "asked"
    BY <1>1, <1>10, <1>15 DEF ReceiveMetrics, TellsTruth, Truthful
  <2>2. r \in Monitor
    BY <1>15, <2>1, RequestAssumption DEF IsQuery
  <2>3. Status(r)' = "ok"
    BY <1>1, <1>15 DEF ReceiveMetrics, Status, TypeOK
  <2> QED
    BY <1>12, <2>1, <2>2, <2>3 DEF PromptsFn
<1> QED
  BY <1>6, <1>7, <1>8, <1>9, <1>11, <1>13, <1>14, <1>15 DEF Handler, Receive

(* The server implements Answering, whatever the threads and the clients   *)
(* do: each prompt is generated or refused once (refused after it was      *)
(* generated only when llama_decode fails for good), a client is answered  *)
(* after all of its prompts were generated and told an error after one of  *)
(* them was refused.                                                       *)
THEOREM ServerKeepsPromise == Spec => KeepsPromise
<1>1. Init => Promise!PromiseInit
  BY DEF Init, Promise!PromiseInit
<1>2. VInv /\ [Next]_vars => [Promise!PromiseNext]_(Promise!promised)
  <2> SUFFICES ASSUME VInv, [Next]_vars
               PROVE  Promise!PromiseNext \/ UNCHANGED Promise!promised
    OBVIOUS
  <2>1. CASE Terminate \/ TerminateStuck \/ UNCHANGED vars
    <3>1. UNCHANGED <<hpc, answer, finished, failed>>
      BY <2>1 DEF Terminate, TerminateStuck, vars, handlerVars, history
    <3> QED
      BY <3>1 DEF Promise!promised
  <2>2. CASE Loop
    BY <2>2, LoopPromise
  <2>3. ASSUME NEW r \in Requests,
               Register(r) \/ Handler(r) \/ StreamDropped(r) \/ ConnectionClosed(r)
        PROVE  Promise!PromiseNext \/ UNCHANGED Promise!promised
    BY <2>3, HandlerPromise
  <2> QED
    BY <2>1, <2>2, <2>3 DEF Next
<1> QED
  BY <1>1, <1>2, TruthInit, TruthStep, PTL DEF Spec, KeepsPromise, Promise!PromiseSpec
=============================================================================
