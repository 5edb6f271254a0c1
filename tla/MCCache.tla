------------------------------ MODULE MCCache ------------------------------
(* Instances of PromptCache for TLC. *)
EXTENDS PromptCache

(* Prompts that share prefixes and, at other positions, chunks. *)
FewPrompts == {<<1, 2, 2>>, <<2, 2, 1>>, <<1, 2, 1, 2, 2, 1>>}

(* Prompts that fill the context and share prefixes of every length, and   *)
(* two that are answered without being decoded.                            *)
SteppedPrompts ==
  {<<>>, [i \in 1 .. 8 |-> 1]} \cup
  {[i \in 1 .. 7 |-> IF i <= k THEN 1 ELSE 2] : k \in 1 .. 5}

(* n_keep -1 keeps as much of the prompt as the code allows. *)
KeepPrompt == {-1}
=============================================================================
