---------------------------- MODULE AnswerServer ----------------------------
(***************************************************************************)
(* The core of the LLM service (llm-service/server/server.cpp): HTTP       *)
(* handler threads register the ids of their tasks with server_response,   *)
(* post the tasks on server_queue and wait for results; the main thread    *)
(* takes the tasks one by one, gives each a slot, and in update_slots      *)
(* advances the busy slots by one batch, sending results as they appear.   *)
(*                                                                         *)
(* Abstracted: the tokens.  A slot keeps only how many batches its prompt  *)
(* and how many tokens its generation may still take; which token comes    *)
(* next (end of text, a stop word, an incomplete UTF-8 sequence) is a      *)
(* choice.  The choice of an idle slot by prompt similarity or least       *)
(* recent use is any idle slot; the clock is assumed to advance between a  *)
(* slot's release and the next selection.                                  *)
(***************************************************************************)
EXTENDS Tasks

CONSTANTS
  Slots,         (* n_parallel slots                                       *)
  Requests,      (* the HTTP requests clients may make, one handler each   *)
  TasksOf,       (* the tasks of a request, one per prompt, in order       *)
  Monitor,       (* the requests to GET /metrics                           *)
  Callback,      (* the requests whose body has "callback"                 *)
  BadCallback,   (* those of them whose "callback" may not be a string     *)
  Stream,        (* the requests whose body has "stream": true             *)
  WantSlot,      (* "id_slot" of a task                                    *)
  AnySlot,       (* -1, the default of "id_slot"                           *)
  PromptBatches, (* batches the longest prompt takes                       *)
  Predict,       (* n_predict                                              *)
  CtxShift,      (* params_base.ctx_shift                                  *)
  LaunchMayFail, (* a request may carry a grammar that does not parse      *)
  DecodeMayFail, (* llama_decode may fail for good                         *)
  StreamMayDrop, (* a client may close before its stream has begun         *)
  MayTerminate   (* SIGINT or SIGTERM may arrive                           *)

OwnTasks(r) == Held(TasksOf[r])

ASSUME RequestAssumption ==
  /\ TasksOf \in [Requests -> Seq(TaskIds) \ {<<>>}]
  /\ \A r \in Requests : \A i, j \in DOMAIN TasksOf[r] :
       TasksOf[r][i] = TasksOf[r][j] => i = j
  /\ \A r1, r2 \in Requests : r1 # r2 => OwnTasks(r1) \cap OwnTasks(r2) = {}
  /\ Monitor \cup Callback \cup Stream \subseteq Requests
  /\ Monitor \cap (Callback \cup Stream) = {}
  /\ \A r \in Monitor : Len(TasksOf[r]) = 1
  /\ BadCallback \subseteq Callback

ASSUME SlotAssumption ==
  /\ AnySlot \notin Slots
  /\ PromptBatches \in Nat \ {0}
  /\ Predict \in Nat \ {0}
  /\ {CtxShift, LaunchMayFail, DecodeMayFail, StreamMayDrop, MayTerminate} \subseteq BOOLEAN

VARIABLES
  pc,        (* where the main thread is in start_loop                     *)
  running,   (* server_queue::running                                      *)
  signalled, (* what the signal handler has done                           *)
  queue,     (* server_queue::queue_tasks                                  *)
  deferred,  (* server_queue::queue_tasks_deferred                         *)
  cur,       (* the task popped and not yet processed                      *)
  slotState, (* server_slot::state                                         *)
  slotTask,  (* server_slot::id_task, kept after the release               *)
  left,      (* batches of prompt, or tokens, the slot may still take      *)
  todo,      (* slots this iteration of update_slots has still to visit    *)
  waiting,   (* server_response::waiting_task_ids                          *)
  results,   (* server_response::queue_results, in order per task id       *)
  hpc,       (* where the handler of a request is                          *)
  received,  (* the final results its receive loop has counted             *)
  answer,    (* what the client was told                                   *)
  finished,  (* history: tasks that send_final_response was called for     *)
  failed     (* history: tasks that send_error was called for              *)

loopVars    == <<pc, running, signalled, cur, todo>>
queueVars   == <<queue, deferred>>
slotVars    == <<slotState, slotTask, left>>
resultVars  == <<waiting, results>>
handlerVars == <<hpc, received, answer>>
history     == <<finished, failed>>
vars == <<loopVars, queueVars, slotVars, resultVars, handlerVars, history>>

(* server_task_result_cmpl_partial, _cmpl_final, _error and _metrics.      *)
Kinds == {"partial", "final", "error", "metrics"}

TypeOK ==
  /\ pc \in {"start", "drain", "task", "update", "slots", "fail", "wait", "ended"}
  /\ running \in BOOLEAN
  /\ signalled \in {"no", "terminated", "stuck"}
  /\ queue \in Seq(Message)
  /\ deferred \in Seq(Message)
  /\ cur \in Message
  /\ slotState \in [Slots -> {"idle", "prompt", "gen"}]
  /\ slotTask \in [Slots -> TaskIds \cup {NoTask}]
  /\ left \in [Slots -> Nat]
  /\ todo \subseteq Slots
  /\ waiting \subseteq TaskIds
  /\ results \in [TaskIds -> Seq(Kinds)]
  /\ hpc \in [Requests -> {"new", "registered", "headers", "waiting", "cancelling",
                           "unregister", "done", "aborted"}]
  /\ received \in [Requests -> Seq(TaskIds)]
  /\ answer \in [Requests -> {"none", "ok", "error", "closed"}]
  /\ finished \subseteq TaskIds
  /\ failed \subseteq TaskIds

Init ==
  /\ pc = "start"
  /\ running \in BOOLEAN                   \* not initialised before start_loop
  /\ signalled = "no"
  /\ queue = <<>>
  /\ deferred = <<>>
  /\ cur = NextResponse
  /\ slotState = [s \in Slots |-> "idle"]
  /\ slotTask = [s \in Slots |-> NoTask]
  /\ left = [s \in Slots |-> 0]
  /\ todo = {}
  /\ waiting = {}
  /\ results = [t \in TaskIds |-> <<>>]
  /\ hpc = [r \in Requests |-> "new"]
  /\ received = [r \in Requests |-> <<>>]
  /\ answer = [r \in Requests |-> "none"]
  /\ finished = {}
  /\ failed = {}
-----------------------------------------------------------------------------
(* Fault: send without looking at waiting_task_ids. *)
SendUnchecked(t, kinds) ==
  results' = IF t \in TaskIds THEN [results EXCEPT ![t] = @ \o kinds] ELSE results

(***************************************************************************)
(* server_response::send: a result is kept only while its id is waited     *)
(* for.                                                                    *)
(***************************************************************************)
Send(t, kinds) ==
  results' = IF t \in waiting THEN [results EXCEPT ![t] = @ \o kinds] ELSE results

Busy(s) == slotState[s] # "idle"

(* mutex_tasks can be taken: no signal has found it held by the thread it  *)
(* interrupted.                                                            *)
TasksFree == signalled # "stuck"

(* Fault: pop_deferred_task without emplace_back. *)
PopDeferredLoses ==
  IF deferred = <<>>
  THEN UNCHANGED queueVars
  ELSE deferred' = Tail(deferred) /\ UNCHANGED queue

(* pop_deferred_task: one deferred task goes back to the main queue. *)
PopDeferred ==
  /\ TasksFree
  /\ IF deferred = <<>>
     THEN UNCHANGED queueVars
     ELSE /\ queue' = Append(queue, Head(deferred))
          /\ deferred' = Tail(deferred)

(* Fault: release without callback_on_release. *)
ReleaseSilently(s) ==
  /\ slotState' = [slotState EXCEPT ![s] = "idle"]
  /\ UNCHANGED queueVars

(* server_slot::release, with its callback_on_release. *)
Release(s) ==
  IF Busy(s)
  THEN /\ slotState' = [slotState EXCEPT ![s] = "idle"]
       /\ PopDeferred
  ELSE UNCHANGED <<slotState, queueVars>>

(* The slots get_slot_by_id or get_available_slot may return for t. *)
Candidates(t) ==
  IF WantSlot[t] = AnySlot
  THEN {s \in Slots : ~Busy(s)}
  ELSE Slots \cap {WantSlot[t]}

IsStream(t) == \E r \in Stream : t \in OwnTasks(r)
-----------------------------------------------------------------------------
(***************************************************************************)
(* The main thread: start_loop and process_single_task.                    *)
(***************************************************************************)
StartLoop ==
  /\ pc = "start"
  /\ running' = TRUE
  /\ pc' = "drain"
  /\ UNCHANGED <<signalled, cur, todo, queueVars, slotVars, resultVars, handlerVars, history>>

TakeTask ==
  /\ pc = "drain"
  /\ TasksFree
  /\ running
  /\ queue # <<>>
  /\ cur' = Head(queue)
  /\ queue' = Tail(queue)
  /\ pc' = "task"
  /\ UNCHANGED <<running, signalled, todo, deferred, slotVars, resultVars, handlerVars, history>>

EndDrain ==
  /\ pc = "drain"
  /\ TasksFree
  /\ running
  /\ queue = <<>>
  /\ pc' = "update"
  /\ UNCHANGED <<running, signalled, cur, todo, queueVars, slotVars, resultVars, handlerVars, history>>

Wake ==
  /\ pc = "wait"
  /\ TasksFree
  /\ running
  /\ queue # <<>>
  /\ pc' = "drain"
  /\ UNCHANGED <<running, signalled, cur, todo, queueVars, slotVars, resultVars, handlerVars, history>>

(* Fault: the wait predicate tests the queue only. *)
EndLoopDraining ==
  /\ pc = "drain"
  /\ ~running
  /\ pc' = "ended"
  /\ UNCHANGED <<running, signalled, cur, todo, queueVars, slotVars, resultVars, handlerVars, history>>

EndLoop ==
  /\ pc \in {"drain", "wait"}
  /\ TasksFree
  /\ ~running
  /\ pc' = "ended"
  /\ UNCHANGED <<running, signalled, cur, todo, queueVars, slotVars, resultVars, handlerVars, history>>

(* A step of process_single_task on cur; the loop then looks for the next. *)
Process(type) ==
  /\ pc = "task"
  /\ cur.type = type
  /\ pc' = "drain"
  /\ UNCHANGED <<running, signalled, cur, todo, waiting, handlerVars, finished>>

LaunchSlot(s) ==
  /\ Process("completion")
  /\ s \in Candidates(cur.id)
  /\ ~Busy(s)
  /\ slotState' = [slotState EXCEPT ![s] = "prompt"]
  /\ slotTask' = [slotTask EXCEPT ![s] = cur.id]
  /\ left' = [left EXCEPT ![s] = PromptBatches]
  /\ UNCHANGED <<queueVars, results, failed>>

(* launch_slot_with_task when the sampler cannot be built: the slot keeps  *)
(* the id but stays idle.                                                  *)
LaunchFails(s) ==
  /\ LaunchMayFail
  /\ Process("completion")
  /\ s \in Candidates(cur.id)
  /\ ~Busy(s)
  /\ slotTask' = [slotTask EXCEPT ![s] = cur.id]
  /\ Send(cur.id, <<"error">>)
  /\ failed' = failed \cup {cur.id}
  /\ UNCHANGED <<slotState, left, queueVars>>

Defer ==
  /\ Process("completion")
  /\ TasksFree
  /\ \A s \in Candidates(cur.id) : Busy(s)
  /\ deferred' = Append(deferred, cur)
  /\ UNCHANGED <<queue, slotVars, results, failed>>

(* The first slot whose id_task is the target is released, if it is busy.  *)
CancelSlot(s) ==
  /\ Process("cancel")
  /\ slotTask[s] = cur.id
  /\ Release(s)
  /\ UNCHANGED <<slotTask, left, results, failed>>

CancelNothing ==
  /\ Process("cancel")
  /\ \A s \in Slots : slotTask[s] # cur.id
  /\ UNCHANGED <<queueVars, slotVars, results, failed>>

SkipNext ==
  /\ Process("next")
  /\ UNCHANGED <<queueVars, slotVars, results, failed>>

ReportMetrics ==
  /\ Process("metrics")
  /\ Send(cur.id, <<"metrics">>)
  /\ UNCHANGED <<queueVars, slotVars, failed>>
-----------------------------------------------------------------------------
(***************************************************************************)
(* The main thread: update_slots.  todo holds the slots whose tokens are   *)
(* in this iteration's batch; generations and prompts share the batch, so  *)
(* a slot may be left out of it, but never all of them.                    *)
(***************************************************************************)
AllIdle ==
  /\ pc = "update"
  /\ \A s \in Slots : ~Busy(s)
  /\ pc' = "wait"
  /\ UNCHANGED <<running, signalled, cur, todo, queueVars, slotVars, resultVars, handlerVars, history>>

(* Fault: update_slots does not post NEXT_RESPONSE. *)
StartBatchOnly ==
  /\ pc = "update"
  /\ todo' \in (SUBSET {s \in Slots : Busy(s)}) \ {{}}
  /\ pc' = "slots"
  /\ UNCHANGED <<running, signalled, cur, queueVars, slotVars, resultVars, handlerVars, history>>

StartBatch ==
  /\ pc = "update"
  /\ TasksFree
  /\ queue' = Append(queue, NextResponse)
  /\ todo' \in (SUBSET {s \in Slots : Busy(s)}) \ {{}}
  /\ pc' = "slots"
  /\ UNCHANGED <<running, signalled, cur, deferred, slotVars, resultVars, handlerVars, history>>

(* One slot of the batch is dealt with. *)
Visit(s) ==
  /\ pc = "slots"
  /\ s \in todo
  /\ todo' = todo \ {s}
  /\ UNCHANGED <<pc, running, signalled, cur, slotTask, waiting, handlerVars>>

PromptAdvances(s) ==
  /\ Visit(s)
  /\ slotState[s] = "prompt"
  /\ left[s] > 1
  /\ left' = [left EXCEPT ![s] = @ - 1]
  /\ UNCHANGED <<slotState, queueVars, results, history>>

(* An empty prompt is answered at once. *)
PromptEmpty(s) ==
  /\ Visit(s)
  /\ slotState[s] = "prompt"
  /\ left[s] = PromptBatches
  /\ Release(s)
  /\ Send(slotTask[s], <<"final">>)
  /\ finished' = finished \cup {slotTask[s]}
  /\ UNCHANGED <<left, failed>>

(* Without context shift a prompt longer than the context is refused. *)
PromptRejected(s) ==
  /\ ~CtxShift
  /\ Visit(s)
  /\ slotState[s] = "prompt"
  /\ left[s] = PromptBatches
  /\ Release(s)
  /\ Send(slotTask[s], <<"error">>)
  /\ failed' = failed \cup {slotTask[s]}
  /\ UNCHANGED <<left, finished>>

(* Without context shift a generation that fills the context is given an   *)
(* error, at the next round: process_token's own test of the context limit *)
(* comes one token too late to stop it.                                    *)
ContextFull(s) ==
  /\ ~CtxShift
  /\ Visit(s)
  /\ slotState[s] = "gen"
  /\ Release(s)
  /\ Send(slotTask[s], <<"error">>)
  /\ failed' = failed \cup {slotTask[s]}
  /\ UNCHANGED <<left, finished>>

(* Tokens the slot may still sample, the next one included. *)
Remaining(s) == IF slotState[s] = "prompt" THEN Predict ELSE left[s]

(* process_token streams the text of a token unless it ends in the middle  *)
(* of a character.                                                         *)
Piece(t) == IF IsStream(t) THEN {<<"partial">>, <<>>} ELSE {<<>>}

(* Fault: process_token does not ask has_budget. *)
SampleOverBudget(s) ==
  /\ Visit(s)
  /\ slotState' = [slotState EXCEPT ![s] = "gen"]
  /\ left' = [left EXCEPT ![s] = Remaining(s) - 1]
  /\ \E piece \in Piece(slotTask[s]) : Send(slotTask[s], piece)
  /\ UNCHANGED <<queueVars, history>>

(* Fault: n_decoded is not counted. *)
SampleUncounted(s) ==
  /\ Visit(s)
  /\ Remaining(s) > 1
  /\ slotState' = [slotState EXCEPT ![s] = "gen"]
  /\ left' = [left EXCEPT ![s] = Remaining(s)]
  /\ \E piece \in Piece(slotTask[s]) : Send(slotTask[s], piece)
  /\ UNCHANGED <<queueVars, history>>

SampleToken(s) ==
  /\ Visit(s)
  /\ Remaining(s) > 1
  /\ slotState' = [slotState EXCEPT ![s] = "gen"]
  /\ left' = [left EXCEPT ![s] = Remaining(s) - 1]
  /\ \E piece \in Piece(slotTask[s]) : Send(slotTask[s], piece)
  /\ UNCHANGED <<queueVars, history>>

(* Fault: the final response is sent but the slot not released. *)
SampleLastKeepsSlot(s) ==
  /\ Visit(s)
  /\ \E piece \in Piece(slotTask[s]) : Send(slotTask[s], piece \o <<"final">>)
  /\ finished' = finished \cup {slotTask[s]}
  /\ UNCHANGED <<slotState, left, queueVars, failed>>

(* Fault: an error is sent for a generation that has ended well. *)
SampleLastSendsError(s) ==
  /\ Visit(s)
  /\ Release(s)
  /\ Send(slotTask[s], <<"error">>)
  /\ finished' = finished \cup {slotTask[s]}
  /\ UNCHANGED <<left, failed>>

(* The token ends the generation: process_token returns false. *)
SampleLast(s) ==
  /\ Visit(s)
  /\ Release(s)
  /\ \E piece \in Piece(slotTask[s]) : Send(slotTask[s], piece \o <<"final">>)
  /\ finished' = finished \cup {slotTask[s]}
  /\ UNCHANGED <<left, failed>>

(* llama_decode fails and the batch cannot be halved any more: the slots   *)
(* of the chunks decoded before have been dealt with, every slot is now    *)
(* released and sent an error.                                             *)
DecodeFails ==
  /\ DecodeMayFail
  /\ pc = "slots"
  /\ todo # {}
  /\ pc' = "fail"
  /\ todo' = Slots
  /\ UNCHANGED <<running, signalled, cur, queueVars, slotVars, resultVars, handlerVars, history>>

(* Fault: the error is sent but the slot not released. *)
FailSlotKeepsSlot(s) ==
  /\ pc = "fail"
  /\ s \in todo
  /\ todo' = todo \ {s}
  /\ Send(slotTask[s], <<"error">>)
  /\ failed' = failed \cup ({slotTask[s]} \ {NoTask})
  /\ UNCHANGED <<pc, running, signalled, cur, queueVars, slotVars, waiting, handlerVars, finished>>

FailSlot(s) ==
  /\ pc = "fail"
  /\ s \in todo
  /\ todo' = todo \ {s}
  /\ Release(s)
  /\ Send(slotTask[s], <<"error">>)
  /\ failed' = failed \cup ({slotTask[s]} \ {NoTask})
  /\ UNCHANGED <<pc, running, signalled, cur, slotTask, left, waiting, handlerVars, finished>>

EndBatch ==
  /\ pc \in {"slots", "fail"}
  /\ todo = {}
  /\ pc' = "wait"
  /\ UNCHANGED <<running, signalled, cur, todo, queueVars, slotVars, resultVars, handlerVars, history>>
-----------------------------------------------------------------------------
(***************************************************************************)
(* The handler threads: handle_answer_impl and handle_metrics.             *)
(***************************************************************************)
Goto(r, from, to) ==
  /\ hpc[r] = from
  /\ hpc' = [hpc EXCEPT ![r] = to]

(* The tasks get their ids, under mutex_tasks, and are registered.          *)
Register(r) ==
  /\ TasksFree
  /\ Goto(r, "new", "registered")
  /\ waiting' = waiting \cup OwnTasks(r)
  /\ UNCHANGED <<loopVars, queueVars, slotVars, results, received, answer, history>>

(* server_queue::post: the metrics go to the front, completions to the     *)
(* back.                                                                   *)
Posted(r) ==
  IF r \in Monitor
  THEN <<Metrics(TasksOf[r][1])>> \o queue
  ELSE queue \o [i \in DOMAIN TasksOf[r] |-> Completion(TasksOf[r][i])]

(* The receive loop of a stream is run by httplib, once the handler has    *)
(* returned and the headers are written.                                   *)
Post(r) ==
  /\ TasksFree
  /\ Goto(r, "registered", IF r \in Stream \ Callback THEN "headers" ELSE "waiting")
  /\ queue' = Posted(r)
  /\ UNCHANGED <<loopVars, deferred, slotVars, resultVars, received, answer, history>>

(* A "callback" that is not a string makes the handler throw after the     *)
(* post.                                                                   *)
PostThrows(r) ==
  /\ r \in BadCallback
  /\ TasksFree
  /\ Goto(r, "registered", "done")
  /\ queue' = Posted(r)
  /\ answer' = [answer EXCEPT ![r] = "error"]
  /\ UNCHANGED <<loopVars, deferred, slotVars, resultVars, received, history>>

(* httplib calls the chunked content provider. *)
StreamBegins(r) ==
  /\ Goto(r, "headers", "waiting")
  /\ UNCHANGED <<loopVars, queueVars, slotVars, resultVars, received, answer, history>>

(* httplib finds the connection closed before it calls the provider: only  *)
(* on_complete runs.                                                       *)
StreamDropped(r) ==
  /\ StreamMayDrop
  /\ Goto(r, "headers", "unregister")
  /\ answer' = [answer EXCEPT ![r] = "closed"]
  /\ UNCHANGED <<loopVars, queueVars, slotVars, resultVars, received, history>>

(* Fault: cancel_tasks leaves the ids in waiting_task_ids. *)
GiveUpWaiting(r, told) ==
  /\ Goto(r, "waiting", "cancelling")
  /\ results' = [t \in TaskIds |-> IF t \in OwnTasks(r) THEN <<>> ELSE results[t]]
  /\ answer' = [answer EXCEPT ![r] = told]
  /\ UNCHANGED <<loopVars, queueVars, slotVars, waiting, received, history>>

(* cancel_tasks, first half: remove_waiting_task_id of every task. *)
GiveUp(r, told) ==
  /\ Goto(r, "waiting", "cancelling")
  /\ waiting' = waiting \ OwnTasks(r)
  /\ results' = [t \in TaskIds |-> IF t \in OwnTasks(r) THEN <<>> ELSE results[t]]
  /\ answer' = [answer EXCEPT ![r] = told]
  /\ UNCHANGED <<loopVars, queueVars, slotVars, received, history>>

(* The connection is found closed, with or without a result in hand, or a  *)
(* chunk cannot be written.  Callbacks and metrics do not look.            *)
ConnectionClosed(r) ==
  /\ r \notin Callback \cup Monitor
  /\ GiveUp(r, "closed")

(* Fault: after cancel_tasks the receive loop goes on. *)
PostCancelsContinues(r) ==
  /\ Goto(r, "cancelling", "waiting")
  /\ queue' = [i \in DOMAIN TasksOf[r] |-> Cancel(TasksOf[r][i])]
                \o CleanupPending(queue, OwnTasks(r))
  /\ deferred' = CleanupPending(deferred, OwnTasks(r))
  /\ UNCHANGED <<loopVars, slotVars, resultVars, received, answer, history>>

(* cancel_tasks, second half: the cancellations go to the front. *)
PostCancels(r) ==
  /\ TasksFree
  /\ Goto(r, "cancelling", "done")
  /\ queue' = [i \in DOMAIN TasksOf[r] |-> Cancel(TasksOf[r][i])]
                \o CleanupPending(queue, OwnTasks(r))
  /\ deferred' = CleanupPending(deferred, OwnTasks(r))
  /\ UNCHANGED <<loopVars, slotVars, resultVars, received, answer, history>>

(* recv or recv_with_timeout has found a result of the given kind. *)
Pop(r, t, kind) ==
  /\ hpc[r] = "waiting"
  /\ t \in OwnTasks(r)
  /\ results[t] # <<>>
  /\ Head(results[t]) = kind

ReceiveError(r, t) ==
  /\ Pop(r, t, "error")
  /\ GiveUp(r, "error")

(* Fault: the first final result ends the receive loop. *)
ReceiveFirstFinal(r, t) ==
  /\ Pop(r, t, "final")
  /\ results' = [results EXCEPT ![t] = Tail(@)]
  /\ received' = [received EXCEPT ![r] = Append(@, t)]
  /\ Goto(r, "waiting", "unregister")
  /\ answer' = [answer EXCEPT ![r] = "ok"]
  /\ UNCHANGED <<loopVars, queueVars, slotVars, waiting, history>>

(* Fault: an id is forgotten when its own result is received. *)
ReceiveFinalForgets(r, t) ==
  /\ Pop(r, t, "final")
  /\ results' = [results EXCEPT ![t] = Tail(@)]
  /\ waiting' = waiting \ {t}
  /\ received' = [received EXCEPT ![r] = Append(@, t)]
  /\ IF Len(received[r]) + 1 = Len(TasksOf[r])
     THEN /\ Goto(r, "waiting", "unregister")
          /\ answer' = [answer EXCEPT ![r] = "ok"]
     ELSE UNCHANGED <<hpc, answer>>
  /\ UNCHANGED <<loopVars, queueVars, slotVars, history>>

(* A final result is counted; after the last one the client is answered. *)
ReceiveFinal(r, t) ==
  /\ Pop(r, t, "final")
  /\ results' = [results EXCEPT ![t] = Tail(@)]
  /\ received' = [received EXCEPT ![r] = Append(@, t)]
  /\ IF Len(received[r]) + 1 = Len(TasksOf[r])
     THEN /\ Goto(r, "waiting", "unregister")
          /\ answer' = [answer EXCEPT ![r] = "ok"]
     ELSE UNCHANGED <<hpc, answer>>
  /\ UNCHANGED <<loopVars, queueVars, slotVars, waiting, history>>

(* receive_cmpl_results_stream passes a partial result on; in              *)
(* receive_multi_results it fails the assertion and the process aborts.    *)
ReceivePartial(r, t) ==
  /\ Pop(r, t, "partial")
  /\ results' = [results EXCEPT ![t] = Tail(@)]
  /\ IF r \in Callback THEN Goto(r, "waiting", "aborted") ELSE UNCHANGED hpc
  /\ UNCHANGED <<loopVars, queueVars, slotVars, waiting, received, answer, history>>

ReceiveMetrics(r, t) ==
  /\ Pop(r, t, "metrics")
  /\ Goto(r, "waiting", "unregister")
  /\ results' = [results EXCEPT ![t] = Tail(@)]
  /\ answer' = [answer EXCEPT ![r] = "ok"]
  /\ UNCHANGED <<loopVars, queueVars, slotVars, waiting, received, history>>

(* remove_waiting_task_ids, which leaves queued results behind, or for     *)
(* metrics remove_waiting_task_id, which does not.                         *)
Unregister(r) ==
  /\ Goto(r, "unregister", "done")
  /\ waiting' = waiting \ OwnTasks(r)
  /\ results' = IF r \in Monitor
                THEN [t \in TaskIds |-> IF t \in OwnTasks(r) THEN <<>> ELSE results[t]]
                ELSE results
  /\ UNCHANGED <<loopVars, queueVars, slotVars, received, answer, history>>

(* The first signal: shutdown_handler calls server_queue::terminate, on    *)
(* whatever thread the signal interrupts.                                  *)
Terminate ==
  /\ MayTerminate
  /\ signalled = "no"
  /\ signalled' = "terminated"
  /\ running' = FALSE
  /\ UNCHANGED <<pc, cur, todo, queueVars, slotVars, resultVars, handlerVars, history>>

(* A thread that takes mutex_tasks in the step it is at.                   *)
MayHoldTasks ==
  \/ pc \notin {"start", "ended"}
  \/ \E r \in Requests : hpc[r] \in {"new", "registered", "cancelling"}

(* The interrupted thread holds mutex_tasks: terminate waits for it on     *)
(* that same thread, for ever.  The other threads go on to their next use  *)
(* of the mutex.                                                           *)
TerminateStuck ==
  /\ MayTerminate
  /\ signalled = "no"
  /\ MayHoldTasks
  /\ signalled' = "stuck"
  /\ UNCHANGED <<pc, running, cur, todo, queueVars, slotVars, resultVars, handlerVars, history>>
-----------------------------------------------------------------------------
ProcessTask ==
  \/ \E s \in Slots : LaunchSlot(s) \/ LaunchFails(s) \/ CancelSlot(s)
  \/ Defer \/ CancelNothing \/ SkipNext \/ ReportMetrics

UpdateSlots ==
  \/ AllIdle \/ StartBatch \/ DecodeFails \/ EndBatch
  \/ \E s \in Slots : \/ PromptAdvances(s) \/ PromptEmpty(s) \/ PromptRejected(s)
                      \/ ContextFull(s) \/ SampleToken(s) \/ SampleLast(s) \/ FailSlot(s)

Loop == StartLoop \/ TakeTask \/ EndDrain \/ Wake \/ EndLoop \/ ProcessTask \/ UpdateSlots

Receive(r) ==
  \E t \in OwnTasks(r) : \/ ReceiveError(r, t) \/ ReceiveFinal(r, t)
                         \/ ReceivePartial(r, t) \/ ReceiveMetrics(r, t)

Handler(r) ==
  \/ Post(r) \/ PostThrows(r) \/ StreamBegins(r)
  \/ Receive(r) \/ PostCancels(r) \/ Unregister(r)

Next ==
  \/ Loop
  \/ \E r \in Requests : \/ Register(r) \/ Handler(r)
                        \/ StreamDropped(r) \/ ConnectionClosed(r)
  \/ Terminate \/ TerminateStuck

Spec == Init /\ [][Next]_vars

(***************************************************************************)
(* The main thread and the handler threads are scheduled by the operating  *)
(* system and never block while they have something to do; clients need    *)
(* not send a request nor close a connection.                              *)
(***************************************************************************)
FairSpec == Spec /\ WF_vars(Loop) /\ \A r \in Requests : WF_vars(Handler(r))
-----------------------------------------------------------------------------
(***************************************************************************)
(* Properties.                                                             *)
(***************************************************************************)
Terminal == {"final", "error", "metrics"}

Owner(t) == CHOOSE r \in Requests : t \in OwnTasks(r)

(* The messages that are going to be processed. *)
InHand  == IF pc = "task" THEN {cur} ELSE {}
Pending == Held(queue) \cup Held(deferred) \cup InHand

Running(t) == \E s \in Slots : Busy(s) /\ slotTask[s] = t

(* A task somebody waits for is never lost: until its receive loop has     *)
(* counted its result, it is queued, deferred, in the main thread's hands, *)
(* in a slot, or its result is queued.  Otherwise the handler of           *)
(* handle_answer_impl would sit in recv_with_timeout for ever.             *)
NoTaskLost ==
  \A r \in Requests : hpc[r] \in {"headers", "waiting"} =>
    \A t \in OwnTasks(r) \ Held(received[r]) :
      \/ \E m \in Pending : m.type \in {"completion", "metrics"} /\ m.id = t
      \/ Running(t)
      \/ Held(results[t]) \cap Terminal # {}

(* The ids of a request are registered before its tasks are posted and     *)
(* until its last result is taken: send never drops a result that a        *)
(* handler still needs.                                                    *)
StaysRegistered ==
  \A r \in Requests :
    hpc[r] \in {"registered", "headers", "waiting", "unregister"} =>
      OwnTasks(r) \subseteq waiting

(* A cancellation reaches the main thread only after the handler has left, *)
(* so it never takes a slot from a task that is still awaited.             *)
CancelsFollow ==
  \A m \in Pending : m.type = "cancel" =>
    \A r \in Requests : m.id \in OwnTasks(r) => hpc[r] = "done"

(* Copies of a completion that will still run or are running. *)
Copies(t) ==
  Cardinality({i \in DOMAIN queue : queue[i] = Completion(t)})
  + Cardinality({i \in DOMAIN deferred : deferred[i] = Completion(t)})
  + Cardinality({m \in InHand : m = Completion(t)})
  + Cardinality({s \in Slots : Busy(s) /\ slotTask[s] = t})

(* No completion is run twice, and none is left to run once its client was *)
(* sent an outcome: defer, pop_deferred_task and release never duplicate.  *)
RunOnce ==
  \A t \in TaskIds : Copies(t) <= IF t \in finished \cup failed THEN 0 ELSE 1

(* The end of a task is told once: it does not both finish and fail, and   *)
(* at most one terminal result for it is ever queued, after its pieces.    *)
OneVerdict ==
  \A t \in TaskIds :
    /\ t \notin finished \cap failed
    /\ \A i \in DOMAIN results[t] : results[t][i] \in Terminal => i = Len(results[t])

(* queue_results holds results only for ids that a handler still waits     *)
(* for: what a finished request left behind is cleaned up.                 *)
ResultsAwaited == \A t \in TaskIds : results[t] # <<>> => t \in waiting

(* An id is waited for only while its handler will still remove it.        *)
WaitingHasHandler ==
  \A t \in waiting :
    hpc[Owner(t)] \in {"registered", "headers", "waiting", "unregister"}

(* A client told "ok" gets one result for each of its prompts, every one   *)
(* generated to its end.                                                   *)
CompleteAnswer ==
  \A r \in Requests \ Monitor : answer[r] = "ok" =>
    /\ Held(received[r]) = OwnTasks(r)
    /\ OwnTasks(r) \subseteq finished

(* While tasks are deferred, something will move one of them back: a busy  *)
(* slot, whose release calls pop_deferred_task, or a completion about to   *)
(* occupy a slot.                                                          *)
DeferredHasWaker ==
  deferred # <<>> =>
    \/ \E s \in Slots : Busy(s)
    \/ \E m \in Held(queue) \cup InHand : m.type = "completion"

(* While a slot is busy the loop does not fall asleep: NEXT_RESPONSE or    *)
(* another task is queued when the main thread waits.                      *)
LoopAwake == pc = "wait" /\ (\E s \in Slots : Busy(s)) => queue # <<>>

(* The tasks of a request that was cancelled do not start any more: the    *)
(* comment of post says a cancellation cleans up pending tasks.  It does   *)
(* not hold, and no run checks it.                                         *)
CancelledStaysOut ==
  \A r \in Requests : hpc[r] = "done" /\ answer[r] \in {"closed", "error"} =>
    \A t \in OwnTasks(r) : Completion(t) \notin Held(queue) \cup Held(deferred)

(* receive_multi_results never sees a partial result: its assertion holds. *)
(* Not so for a request in Callback and Stream; no run has one.            *)
NoAbort == \A r \in Requests : hpc[r] # "aborted"

(* The server keeps the promise of Answering: what a client is told, and   *)
(* when, follows from what became of its prompts.                          *)
Promise ==
  INSTANCE Answering WITH
    PromptsOf <- [r \in Requests |-> IF r \in Monitor THEN {} ELSE OwnTasks(r)],
    status    <- [r \in Requests |->
                    IF answer[r] # "none" THEN answer[r]
                    ELSE IF hpc[r] \in {"new", "registered"} THEN "new" ELSE "asked"],
    generated <- finished,
    refused   <- failed,
    Malformed <- BadCallback,
    Revocable <- DecodeMayFail

KeepsPromise == Promise!PromiseSpec

(* A signal has ended the loop, or stopped all use of the task queue.      *)
ShutDown == pc = "ended" \/ ~TasksFree

(* Every registered request is eventually answered, or found closed, and   *)
(* its handler returns, unless a signal comes in between.                  *)
EventuallyAnswered ==
  \A r \in Requests : hpc[r] = "registered" ~> (hpc[r] = "done" \/ ShutDown)

(* When the last handler is done every slot is given back, also those that *)
(* worked for clients that went away, unless a signal comes in between.    *)
SlotsReturn ==
  (\A r \in Requests : hpc[r] = "done")
    ~> ((\A s \in Slots : ~Busy(s)) \/ ShutDown)

(* Once terminate has run while the loop turns, the loop ends, wherever    *)
(* the main thread is.                                                     *)
TerminateEndsLoop == (~running /\ pc # "start") ~> pc = "ended"

(* The comment of shutdown_handler: a signal "will unblock start_loop()".  *)
(* It does not hold, and no run checks it: the signal may find mutex_tasks *)
(* held by the thread it interrupts, or come before running = true.        *)
SignalEndsLoop == signalled # "no" ~> pc = "ended"
=============================================================================
