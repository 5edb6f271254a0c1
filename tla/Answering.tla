----------------------------- MODULE Answering -----------------------------
(***************************************************************************)
(* What the LLM service promises the backend, without queues, slots or     *)
(* threads.  A client asks, each of its prompts is generated or refused    *)
(* once, and the client is answered after all of its prompts were          *)
(* generated, refused after one of them was, or it leaves.  Prompts of a   *)
(* client that was refused or left may still be generated.                 *)
(***************************************************************************)
CONSTANTS
  Requests, PromptsOf,
  Malformed, (* requests that may fail when they are posted                *)
  Revocable  (* a prompt may be refused also after it was generated         *)

VARIABLES
  status,    (* what each client knows                                     *)
  generated, (* prompts with a generated text                              *)
  refused    (* prompts with an error                                      *)

promised == <<status, generated, refused>>

Asked(t) == \E r \in Requests : t \in PromptsOf[r] /\ status[r] # "new"

PromiseInit ==
  /\ status = [r \in Requests |-> "new"]
  /\ generated = {}
  /\ refused = {}

Turn(r, from, to) ==
  /\ status[r] = from
  /\ status' = [status EXCEPT ![r] = to]
  /\ UNCHANGED <<generated, refused>>

Ask(r) == Turn(r, "new", "asked")

Generate(t) ==
  /\ Asked(t)
  /\ t \notin generated \cup refused
  /\ generated' = generated \cup {t}
  /\ UNCHANGED <<status, refused>>

Refuse(t) ==
  /\ Asked(t)
  /\ t \notin refused
  /\ t \in generated => Revocable
  /\ refused' = refused \cup {t}
  /\ UNCHANGED <<status, generated>>

Answer(r) ==
  /\ PromptsOf[r] \subseteq generated
  /\ Turn(r, "asked", "ok")

TellError(r) ==
  /\ PromptsOf[r] \cap refused # {}
  /\ Turn(r, "asked", "error")

(* A request that cannot be posted is told so at once, whatever becomes of *)
(* the prompts it has posted.                                              *)
TellMalformed(r) ==
  /\ r \in Malformed
  /\ Turn(r, "new", "error")

Leave(r) == Turn(r, "asked", "closed")

PromiseNext ==
  \E r \in Requests :
    \/ Ask(r) \/ Answer(r) \/ TellError(r) \/ TellMalformed(r) \/ Leave(r)
    \/ \E t \in PromptsOf[r] : Generate(t) \/ Refuse(t)

PromiseSpec == PromiseInit /\ [][PromiseNext]_promised
=============================================================================
