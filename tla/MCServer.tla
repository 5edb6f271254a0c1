------------------------------ MODULE MCServer ------------------------------
(***************************************************************************)
(* Instances of AnswerServer for TLC.  Three clients: p sends two prompts  *)
(* and waits, q one prompt and streams or asks for a callback, m reads the *)
(* metrics.                                                                *)
(***************************************************************************)
EXTENDS AnswerServer, TLC

CONSTANTS s1, s2, p, q, m, tp1, tp2, tq, tm

OneEach      == [r \in {p, q} |-> IF r = p THEN <<tp1>> ELSE <<tq>>]
TwoClients   == [r \in {p, q} |-> IF r = p THEN <<tp1, tp2>> ELSE <<tq>>]
ThreeClients == TwoClients @@ (m :> <<tm>>)

AnyWanted == [t \in TaskIds |-> AnySlot]
(* q insists on the first slot. *)
FirstWanted == [t \in TaskIds |-> IF t = tq THEN s1 ELSE AnySlot]
=============================================================================
