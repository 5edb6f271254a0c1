------------------------------- MODULE Tasks -------------------------------
(***************************************************************************)
(* The tasks that travel through server_queue (server.cpp, server_task)    *)
(* and the pure operators on the two deques that hold them.                *)
(*                                                                         *)
(* A task is known by the id that get_new_id() gave it; ids are never      *)
(* reused, so they are model values here.  Only the task types that a      *)
(* registered route can produce appear: a completion, the cancellation of  *)
(* a completion, a metrics query, and the NEXT_RESPONSE that keeps the     *)
(* loop turning.                                                           *)
(***************************************************************************)
EXTENDS Subsequences

CONSTANTS TaskIds,   (* the ids the server hands out to results' receivers *)
          NoTask     (* -1, the id_target of a task that targets no other   *)

ASSUME NoTaskAssumption == NoTask \notin TaskIds

Completion(t) == [type |-> "completion", id |-> t]
Metrics(t)    == [type |-> "metrics", id |-> t]
Cancel(t)     == [type |-> "cancel", id |-> t]
NextResponse  == [type |-> "next", id |-> NoTask]

Message == [type : {"completion", "metrics", "cancel"}, id : TaskIds]
             \cup {NextResponse}

(* server_task::id_target: set on cancellations only, -1 elsewhere.        *)
IdTarget(m) == IF m.type = "cancel" THEN m.id ELSE NoTask

(* The places in q of the tasks that target none of the targets.           *)
Kept(q, targets) == {i \in DOMAIN q : IdTarget(q[i]) \notin targets}

(***************************************************************************)
(* cleanup_pending_task: erase every task whose id_target is one of the    *)
(* targets, keep the others in order.                                      *)
(***************************************************************************)
CleanupPending(q, targets) == Picked(q, Kept(q, targets))

(* The tasks of a deque, as a set. *)
Held(q) == {q[i] : i \in DOMAIN q}
=============================================================================
