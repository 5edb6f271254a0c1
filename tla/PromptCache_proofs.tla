------------------------- MODULE PromptCache_proofs -------------------------
(***************************************************************************)
(* The prompt cache: the theorems about update_slots.                      *)
(*                                                                         *)
(* First the invariant that holds whatever happens, RInv, with one lemma   *)
(* per action; then what the cells hold of a text, TInv; that they hold it *)
(* once, Once; that they hold all of it, CInv; and that they do so for a   *)
(* request without cache_prompt whatever happened before, UInv.            *)
(***************************************************************************)
EXTENDS CacheOperators_proofs

(***************************************************************************)
(* The invariant of update_slots.                                          *)
(***************************************************************************)
SlotRec ==
  [state: {"idle", "started", "prompt", "done", "gen"},
   prompt: Seq(Nat), keep: Int, discard: Nat, caching: BOOLEAN,
   cached: Seq(Nat), nPast: 0 .. Ctx, sampled: Nat, iBatch: Int]

(* A request of the slot has begun to fill the cells. *)
Working(s) == slot[s].state \in {"prompt", "done", "gen"}

(* The cells of the slot follow its text, not what its last request left. *)
Active(s) == Working(s) /\ ~(pc = "reuse" /\ turn = s)

(* The context shift has seen to it that the slot has room for a token. *)
Shifted(s) == (pc = "shift" /\ s < turn) \/ (pc = "gen" /\ turn <= s)

(* A slot without a prompt in work has no past, and the others stay below  *)
(* the context, so that a context shift always has something to discard.   *)
SlotOK(s) ==
  /\ ~Working(s) => slot[s].nPast = 0
  /\ slot[s].discard \in 0 .. 2
  /\ slot[s].nPast < Ctx /\ Len(slot[s].cached) <= Ctx
  /\ Working(s) => slot[s].keep \in 0 .. Ctx - 4
  /\ slot[s].state = "prompt" => 0 < Len(slot[s].prompt) /\ Len(slot[s].prompt) < Ctx
  /\ Shifted(s) => slot[s].nPast + 1 < Ctx

(* n_past and cache_tokens keep up with the text of the slot, which is the *)
(* part of its prompt that has been evaluated as long as there is a rest.  *)
TextOK(s) ==
  Active(s) =>
    /\ Len(text[s]) = slot[s].nPast
    /\ slot[s].caching => Len(slot[s].cached) = slot[s].nPast
    /\ slot[s].state = "prompt" => /\ slot[s].nPast < Len(slot[s].prompt)
                                   /\ text[s] = SubSeq(slot[s].prompt, 1, slot[s].nPast)

(* While chunks are reused, the heads stand behind what has been compared. *)
ReuseOK ==
  pc = "reuse" =>
    /\ slot[turn].state = "prompt"
    /\ slot[turn].nPast = hp
    /\ hp <= Len(slot[turn].prompt) /\ hc <= Len(slot[turn].cached)

(* The indices of the tokens in the batch that may still get cells. *)
Pending == {j \in 1 .. Len(batch) : j > at /\ (pc = "sample" => j > at + Chunk)}

(* A token in the batch is the text of its slot at that position, and the  *)
(* logits of the slot are computed with or behind its last token.          *)
TokenOK(j) ==
  LET s == batch[j].seq
  IN  /\ Active(s) /\ batch[j].pos < Len(text[s])
      /\ batch[j].tok = text[s][batch[j].pos + 1]
      /\ slot[s].state # "prompt" => j <= slot[s].iBatch + 1

BatchOK == \A j \in Pending : TokenOK(j)

(* Between two rounds there is no batch, and while it is decoded there is  *)
(* something left to do.                                                   *)
RoundOK ==
  /\ pc = "tasks" => turn = 1
  /\ pc \in {"tasks", "shift"} => batch = <<>>
  /\ pc \notin {"decode", "sample"} => at = 0 /\ placed = 0
  /\ pc \in {"decode", "sample"} => at < Len(batch)
  /\ pc = "decode" => placed < Chunk

(* The cells of a slot lie in the context, and within its text. *)
CellsOK ==
  \A i \in Cells : \A s \in Slots :
    kv.cells[i].seq = s =>
      kv.cells[i].pos < Ctx /\ (Active(s) => kv.cells[i].pos < Len(text[s]))

RInv ==
  /\ TypeOK
  /\ \A s \in Slots : SlotOK(s) /\ TextOK(s)
  /\ ReuseOK /\ RoundOK /\ BatchOK /\ CellsOK

(* The types of what the steps read. *)
LEMMA Typed ==
  ASSUME TypeOK
  PROVE  /\ turn \in Slots /\ turn \in Nat /\ kv \in Caches
         /\ slot \in [Slots -> SlotRec]
         /\ hc \in 0 .. Ctx /\ hp \in 0 .. hc
         /\ batch \in Seq([seq : Slots, pos : Nat, tok : Nat]) /\ Len(batch) \in Nat
         /\ at \in Nat /\ chunk \in 1 .. Batch /\ placed \in 0 .. Batch
         /\ saved \in [head : 0 .. Size, boundaries : SUBSET (Nat \X Nat)]
         /\ text \in [Slots -> Seq(Nat)]
<1>1. turn \in Slots /\ turn \in Nat
  BY SlotsAre DEF TypeOK
<1>2. Len(batch) \in Nat
  BY LenProperties DEF TypeOK
<1> QED
  BY <1>1, <1>2 DEF TypeOK, SlotRec, Caches, Size

(* The same of a slot. *)
LEMMA SlotTyped ==
  ASSUME NEW r \in SlotRec
  PROVE  /\ r.state \in {"idle", "started", "prompt", "done", "gen"}
         /\ r.prompt \in Seq(Nat) /\ Len(r.prompt) \in Nat /\ r.keep \in Int
         /\ r.discard \in Nat /\ r.caching \in BOOLEAN
         /\ r.cached \in Seq(Nat) /\ Len(r.cached) \in Nat
         /\ r.nPast \in 0 .. Ctx /\ r.nPast \in Nat /\ r.sampled \in Nat /\ r.iBatch \in Int
<1>1. r.prompt \in Seq(Nat) /\ r.cached \in Seq(Nat)
  BY DEF SlotRec
<1>2. Len(r.prompt) \in Nat /\ Len(r.cached) \in Nat
  BY <1>1, LenProperties
<1> QED
  BY <1>1, <1>2, Options DEF SlotRec

(* What is written to a slot. *)
LEMMA SlotsAfter ==
  ASSUME slot \in [Slots -> SlotRec], NEW s \in Slots, NEW r \in SlotRec,
         slot' = [slot EXCEPT ![s] = r]
  PROVE  /\ slot' \in [Slots -> SlotRec] /\ slot'[s] = r
         /\ \A t \in Slots : t # s => slot'[t] = slot[t]
OBVIOUS

(* server_slot::release *)
LEMMA ReleasedIs ==
  ASSUME NEW r \in SlotRec
  PROVE  LET q == Released(r)
         IN  /\ q \in SlotRec
             /\ q.state = "idle" /\ q.nPast = 0 /\ q.discard = 0
             /\ q.cached = r.cached /\ q.iBatch = r.iBatch /\ q.caching = TRUE
<1>1. PICK none : none = <<>>
  OBVIOUS
<1>2. none \in Seq(Nat)
  BY <1>1, EmptySeq
<1>3. 0 \in 0 .. Ctx
  BY Options
<1>4. Released(r) = [state |-> "idle", prompt |-> none, keep |-> 0, discard |-> 0,
                     caching |-> TRUE, cached |-> r.cached, nPast |-> 0, sampled |-> 0,
                     iBatch |-> r.iBatch]
  <2>1. Released(r) = [r EXCEPT !.state = "idle", !.prompt = none, !.keep = 0, !.discard = 0,
                                !.caching = TRUE, !.nPast = 0, !.sampled = 0]
    BY <1>1 DEF Released
  <2>2. r = [state |-> r.state, prompt |-> r.prompt, keep |-> r.keep, discard |-> r.discard,
             caching |-> r.caching, cached |-> r.cached, nPast |-> r.nPast,
             sampled |-> r.sampled, iBatch |-> r.iBatch]
    BY DEF SlotRec
  <2> QED
    BY <2>1, <2>2
<1>5. r.cached \in Seq(Nat) /\ r.iBatch \in Int
  BY DEF SlotRec
<1> QED
  BY <1>2, <1>3, <1>4, <1>5 DEF SlotRec

(* A slot that the step leaves alone. *)
LEMMA SlotStays ==
  ASSUME NEW t \in Slots, slot'[t] = slot[t], text'[t] = text[t], SlotOK(t), TextOK(t),
         Active(t)' => Active(t),
         Shifted(t)' => slot[t].nPast + 1 < Ctx
  PROVE  SlotOK(t)' /\ TextOK(t)'
BY DEF SlotOK, TextOK, Working

(* Cells that a step leaves alone or frees. *)
LEMMA CellsStay ==
  ASSUME CellsOK, \A i \in Cells : kv'.cells[i] \in {KV!Free, kv.cells[i]},
         \A t \in Slots : Active(t)' => Active(t) /\ text'[t] = text[t]
  PROVE  CellsOK'
<1>1. KV!Free.seq \notin Slots
  BY CachesAre
<1> QED
  BY <1>1 DEF CellsOK

(* Tokens of the batch that a step leaves alone. *)
LEMMA TokensStay ==
  ASSUME TypeOK, TypeOK', BatchOK, batch' = batch, Pending' \subseteq Pending,
         \A t \in Slots : \/ slot'[t] = slot[t] /\ text'[t] = text[t] /\ (Active(t) => Active(t)')
                          \/ \A j \in Pending' : batch[j].seq # t
  PROVE  \A j \in Pending' : TokenOK(j)'
<1> TAKE j \in Pending'
<1>1. j \in Pending /\ TokenOK(j)
  BY DEF BatchOK
<1>2. batch[j].seq \in Slots
  <2>1. j \in 1 .. Len(batch)
    BY <1>1 DEF Pending
  <2>2. batch \in Seq([seq : Slots, pos : Nat, tok : Nat])
    BY Typed
  <2>3. batch[j] \in [seq : Slots, pos : Nat, tok : Nat]
    BY <2>1, <2>2, ElementOfSeq
  <2> QED
    BY <2>3
<1>3. PICK t \in Slots : t = batch[j].seq
  BY <1>2
<1>4. slot'[t] = slot[t] /\ text'[t] = text[t] /\ (Active(t) => Active(t)')
  BY <1>3
<1> QED
  BY <1>1, <1>3, <1>4 DEF TokenOK

(* Steps that put slots to rest, or touch none. *)
LEMMA Resting ==
  ASSUME RInv, TypeOK', NEW R \in SUBSET Slots, pc # "reuse", pc' # "reuse",
         \A t \in R : /\ slot'[t].state \in {"idle", "started"} /\ slot'[t].nPast = 0
                      /\ slot'[t].discard \in 0 .. 2 /\ slot'[t].cached = slot[t].cached,
         \A t \in Slots \ R : slot'[t] = slot[t] /\ text'[t] = text[t],
         \A t \in Slots : Shifted(t)' => slot'[t].nPast + 1 < Ctx,
         \/ Pending' = {}
         \/ /\ batch' = batch /\ Pending' \subseteq Pending
            /\ \A j \in Pending' : batch[j].seq \notin R,
         RoundOK', CellsOK'
  PROVE  RInv'
<1>1. ASSUME NEW t \in Slots
      PROVE  SlotOK(t)' /\ TextOK(t)'
  <2>1. CASE t \in R
    <3>1. ~Working(t)' /\ ~Active(t)'
      BY <2>1 DEF Working, Active
    <3> QED
      BY <2>1, <3>1, Options DEF SlotOK, TextOK, RInv, Working
  <2>2. CASE t \notin R
    <3>1. slot'[t] = slot[t] /\ text'[t] = text[t]
      BY <2>2
    <3>2. Active(t)' => Active(t)
      BY <3>1 DEF Active, Working
    <3>3. SlotOK(t) /\ TextOK(t)
      BY DEF RInv
    <3> QED
      BY <3>1, <3>2, <3>3, SlotStays
  <2> QED
    BY <2>1, <2>2
<1>4. \A j \in Pending' : TokenOK(j)'
  <2>1. CASE Pending' = {}
    BY <2>1
  <2>2. CASE /\ batch' = batch /\ Pending' \subseteq Pending
             /\ \A j \in Pending' : batch[j].seq \notin R
    <3>1. \A t \in Slots \ R : Active(t) => Active(t)'
      BY DEF Active, Working
    <3>2. \A t \in Slots :
            \/ slot'[t] = slot[t] /\ text'[t] = text[t] /\ (Active(t) => Active(t)')
            \/ \A j \in Pending' : batch[j].seq # t
      BY <2>2, <3>1
    <3> QED
      BY <2>2, <3>2, TokensStay DEF RInv
  <2> QED
    BY <2>1, <2>2
<1>5. BatchOK'
  BY <1>4 DEF BatchOK
<1>6. ReuseOK'
  BY DEF ReuseOK
<1> QED
  BY <1>1, <1>5, <1>6 DEF RInv

(* The same for one slot. *)
LEMMA RestingOne ==
  ASSUME RInv, TypeOK', NEW s \in Slots, pc # "reuse", pc' # "reuse",
         slot'[s].state \in {"idle", "started"} /\ slot'[s].nPast = 0,
         slot'[s].discard \in 0 .. 2 /\ slot'[s].cached = slot[s].cached,
         \A t \in Slots : t # s => slot'[t] = slot[t] /\ text'[t] = text[t],
         \A t \in Slots : Shifted(t)' => slot'[t].nPast + 1 < Ctx,
         \A i \in Cells : kv'.cells[i] \in {KV!Free, kv.cells[i]},
         batch' = batch /\ Pending' \subseteq Pending,
         \A j \in Pending' : batch[j].seq # s,
         RoundOK'
  PROVE  RInv'
<1>1. PICK R \in SUBSET Slots : R = {s}
  OBVIOUS
<1>2. \A t \in R : /\ slot'[t].state \in {"idle", "started"} /\ slot'[t].nPast = 0
                   /\ slot'[t].discard \in 0 .. 2 /\ slot'[t].cached = slot[t].cached
  BY <1>1
<1>3. \A t \in Slots \ R : slot'[t] = slot[t] /\ text'[t] = text[t]
  BY <1>1
<1>4. \/ Pending' = {}
      \/ /\ batch' = batch /\ Pending' \subseteq Pending
         /\ \A j \in Pending' : batch[j].seq \notin R
  BY <1>1
<1>5. \A t \in Slots : Active(t)' => Active(t) /\ text'[t] = text[t]
  BY DEF Active, Working
<1>6. CellsOK'
  BY <1>5, CellsStay DEF RInv
<1> QED
  BY <1>2, <1>3, <1>4, <1>6, Resting

(* And for none. *)
LEMMA RestingNone ==
  ASSUME RInv, TypeOK', pc # "reuse", pc' # "reuse",
         slot' = slot /\ text' = text,
         \A t \in Slots : Shifted(t)' => slot'[t].nPast + 1 < Ctx,
         \A i \in Cells : kv'.cells[i] \in {KV!Free, kv.cells[i]},
         Pending' = {} \/ (batch' = batch /\ Pending' \subseteq Pending),
         RoundOK'
  PROVE  RInv'
<1>1. PICK R \in SUBSET Slots : R = {}
  OBVIOUS
<1>2. \A t \in R : /\ slot'[t].state \in {"idle", "started"} /\ slot'[t].nPast = 0
                   /\ slot'[t].discard \in 0 .. 2 /\ slot'[t].cached = slot[t].cached
  BY <1>1
<1>3. \A t \in Slots \ R : slot'[t] = slot[t] /\ text'[t] = text[t]
  OBVIOUS
<1>4. \/ Pending' = {}
      \/ /\ batch' = batch /\ Pending' \subseteq Pending
         /\ \A j \in Pending' : batch[j].seq \notin R
  BY <1>1
<1>5. \A t \in Slots : Active(t)' => Active(t) /\ text'[t] = text[t]
  BY DEF Active, Working
<1>6. CellsOK'
  BY <1>5, CellsStay DEF RInv
<1> QED
  BY <1>2, <1>3, <1>4, <1>6, Resting

(* The next turn. *)
LEMMA TurnIs ==
  ASSUME turn \in Slots, NEW phase, NEW after, Turn(phase, after)
  PROVE  /\ turn' \in Slots /\ pc' \in {phase, after}
         /\ \/ turn' = turn + 1 /\ pc' = phase
            \/ turn = NSlots /\ turn' = 1 /\ pc' = after
BY Options DEF Turn, Slots

(* The batch is untouched. *)
LEMMA SameBatch ==
  ASSUME batch' = batch, at' = at, chunk' = chunk, pc = "sample" => pc' = "sample"
  PROVE  Chunk' = Chunk /\ Pending' \subseteq Pending
BY DEF Pending, Chunk

(* llama_kv_cache_clear *)
LEMMA ClearedIs == KV!Cleared \in Caches /\ \A i \in Cells : KV!Cleared.cells[i] = KV!Free
<1>1. KV!Cleared = [cells |-> [i \in Cells |-> KV!Free], head |-> 0]
  BY DEF KV!Cleared, Cells
<1>2. 0 \in 0 .. Size
  BY SizeIs
<1>3. [i \in Cells |-> KV!Free] \in [Cells -> Cell]
  BY DEF Cell
<1> QED
  BY <1>1, <1>2, <1>3, CachesAre

(* Nothing is saved. *)
LEMMA UnsavedIs == Unsaved \in [head : 0 .. NSlots * Ctx, boundaries : SUBSET (Nat \X Nat)]
<1>1. 0 \in 0 .. NSlots * Ctx
  BY SizeIs DEF Size
<1> QED
  BY <1>1 DEF Unsaved

(* The invariant holds initially. *)
LEMMA RInvInit == Init => RInv
<1> SUFFICES ASSUME Init
             PROVE  RInv
  OBVIOUS
<1> USE DEF Init
<1>1. PICK none : none = <<>>
  OBVIOUS
<1>2. none \in Seq(Nat) /\ Len(none) = 0
  BY <1>1, EmptySeq
<1>3. \A t \in Slots :
        slot[t] = [state |-> "idle", prompt |-> none, keep |-> 0, discard |-> 0,
                   caching |-> TRUE, cached |-> none, nPast |-> 0, sampled |-> 0,
                   iBatch |-> -1]
  BY <1>1
<1>4. kv \in Caches /\ \A i \in Cells : kv.cells[i] = KV!Free
  BY ClearedIs
<1>5. TypeOK
  <2>1. slot \in [Slots -> SlotRec]
    <3>1. 0 \in 0 .. Ctx
      BY Options
    <3>2. [state |-> "idle", prompt |-> none, keep |-> 0, discard |-> 0,
           caching |-> TRUE, cached |-> none, nPast |-> 0, sampled |-> 0,
           iBatch |-> -1] \in SlotRec
      BY <1>2, <3>1 DEF SlotRec
    <3>3. slot = [t \in Slots |-> [state |-> "idle", prompt |-> none, keep |-> 0, discard |-> 0,
                   caching |-> TRUE, cached |-> none, nPast |-> 0, sampled |-> 0,
                   iBatch |-> -1]]
      BY <1>1
    <3> QED
      BY <3>2, <3>3
  <2>2. text \in [Slots -> Seq(Nat)]
    BY <1>1, <1>2
  <2>3. turn \in Slots /\ launched \in 0 .. MaxRequests /\ hc \in 0 .. Ctx /\ hp \in 0 .. hc
        /\ chunk \in 1 .. Batch /\ placed \in 0 .. Batch
    BY Options DEF Slots
  <2>4. batch \in Seq([seq : Slots, pos : Nat, tok : Nat])
    BY EmptySeq
  <2>5. saved \in [head : 0 .. NSlots * Ctx, boundaries : SUBSET (Nat \X Nat)]
    BY UnsavedIs
  <2> QED
    BY <1>4, <2>1, <2>2, <2>3, <2>4, <2>5 DEF TypeOK, SlotRec, Caches
<1>6. \A t \in Slots : SlotOK(t) /\ TextOK(t)
  <2> TAKE t \in Slots
  <2>1. /\ slot[t].state = "idle" /\ slot[t].nPast = 0 /\ slot[t].discard = 0
        /\ Len(slot[t].cached) = 0
    BY <1>2, <1>3
  <2>2. ~Working(t) /\ ~Active(t) /\ ~Shifted(t)
    BY <2>1 DEF Working, Active, Shifted
  <2> QED
    BY <2>1, <2>2, Options DEF SlotOK, TextOK
<1>7. CellsOK
  BY <1>4, CachesAre DEF CellsOK
<1>8. BatchOK /\ RoundOK
  <2>1. Len(batch) = 0
    BY EmptySeq
  <2> QED
    BY <2>1 DEF BatchOK, RoundOK, Pending
<1> QED
  BY <1>5, <1>6, <1>7, <1>8 DEF RInv, ReuseOK
-----------------------------------------------------------------------------
(***************************************************************************)
(* The steps one by one.  First those that put slots to rest or only go    *)
(* on.                                                                     *)
(***************************************************************************)
(* Between two rounds. *)
LEMMA BeginRoundKeeps == RInv /\ BeginRound => RInv'
<1> SUFFICES ASSUME RInv, BeginRound
             PROVE  RInv'
  OBVIOUS
<1> USE DEF BeginRound, server, reuseVars, decodeVars
<1>1. TypeOK'
  BY DEF RInv, TypeOK
<1>2. \A t \in Slots : Shifted(t)' => slot'[t].nPast + 1 < Ctx
  <2>1. turn = 1
    BY DEF RInv, RoundOK
  <2> QED
    BY <2>1, SlotsAre DEF Shifted
<1>3. batch' = batch /\ Chunk' = Chunk /\ Pending' \subseteq Pending
  BY SameBatch
<1>4. RoundOK'
  BY <1>3 DEF RInv, RoundOK
<1>5. \A i \in Cells : kv'.cells[i] \in {KV!Free, kv.cells[i]}
  OBVIOUS
<1> QED
  BY <1>1, <1>2, <1>3, <1>4, <1>5, RestingNone

LEMMA ClearCacheKeeps == RInv /\ ClearCache => RInv'
<1> SUFFICES ASSUME RInv, ClearCache
             PROVE  RInv'
  OBVIOUS
<1> USE DEF ClearCache, reuseVars, decodeVars
<1>1. kv' \in Caches /\ \A i \in Cells : kv'.cells[i] = KV!Free
  BY ClearedIs
<1>2. TypeOK'
  BY <1>1 DEF RInv, TypeOK, Caches
<1>3. \A t \in Slots : ~Shifted(t)'
  BY DEF Shifted
<1>4. batch' = batch /\ Chunk' = Chunk /\ Pending' \subseteq Pending
  BY SameBatch
<1>5. RoundOK'
  BY <1>4 DEF RInv, RoundOK
<1> QED
  BY <1>1, <1>2, <1>3, <1>4, <1>5, RestingNone

(* No token is pending between two rounds. *)
LEMMA NothingPending == ASSUME RInv, pc \in {"tasks", "shift"} PROVE Pending = {}
<1>1. batch = <<>>
  BY DEF RInv, RoundOK
<1>2. Len(batch) = 0
  BY <1>1, EmptySeq
<1> QED
  BY <1>2 DEF Pending

LEMMA LaunchSlotKeeps == ASSUME NEW s \in Slots, RInv, LaunchSlot(s) PROVE RInv'
<1> USE DEF reuseVars, decodeVars
<1>1. PICK prompt \in Prompts, keep \in Keeps, discard \in Discards, caching \in Caching :
        slot' = [slot EXCEPT ![s].state = "started", ![s].prompt = prompt,
                             ![s].keep = keep, ![s].discard = discard,
                             ![s].caching = caching]
  BY DEF LaunchSlot
<1>2. slot[s] \in SlotRec /\ slot \in [Slots -> SlotRec] /\ text \in [Slots -> Seq(Nat)]
  BY Typed DEF RInv
<1>3. PICK r : r = [slot[s] EXCEPT !.state = "started", !.prompt = prompt, !.keep = keep,
                                   !.discard = discard, !.caching = caching]
  OBVIOUS
<1>4. /\ r \in SlotRec /\ r.state = "started" /\ r.nPast = slot[s].nPast
      /\ r.cached = slot[s].cached /\ r.discard = discard
  <2>1. prompt \in Seq(Nat) /\ keep \in Int /\ discard \in Nat /\ caching \in BOOLEAN
    BY <1>1, Options
  <2> QED
    BY <1>2, <1>3, <2>1 DEF SlotRec
<1>5. slot' = [slot EXCEPT ![s] = r]
  BY <1>1, <1>2, <1>3
<1>6. /\ slot' \in [Slots -> SlotRec] /\ slot'[s] = r
      /\ \A t \in Slots : t # s => slot'[t] = slot[t]
  BY <1>2, <1>4, <1>5, SlotsAfter
<1>7. text' \in [Slots -> Seq(Nat)] /\ \A t \in Slots : t # s => text'[t] = text[t]
  <2>1. PICK none : none = <<>> /\ none \in Seq(Nat)
    BY EmptySeq
  <2>2. text' = [text EXCEPT ![s] = none]
    BY <2>1 DEF LaunchSlot
  <2> QED
    BY <1>2, <2>1, <2>2
<1>8. TypeOK'
  <2>1. launched' \in 0 .. MaxRequests
    <3>1. launched < MaxRequests /\ launched' = launched + 1
      BY DEF LaunchSlot
    <3>2. launched \in 0 .. MaxRequests
      BY DEF RInv, TypeOK
    <3> QED
      BY <3>1, <3>2, Options
  <2>2. UNCHANGED <<pc, turn, ctxShift, clean, kv, hc, hp, batch, at, chunk, placed, saved>>
    BY DEF LaunchSlot
  <2> QED
    BY <1>6, <1>7, <2>1, <2>2 DEF RInv, TypeOK, SlotRec
<1>9. slot'[s].state \in {"idle", "started"} /\ slot'[s].nPast = 0
  <2>1. slot[s].nPast = 0
    BY DEF LaunchSlot, Busy, RInv, SlotOK, Working
  <2> QED
    BY <1>4, <1>6, <2>1
<1>10. slot'[s].discard \in 0 .. 2 /\ slot'[s].cached = slot[s].cached
  BY <1>1, <1>4, <1>6, Options
<1>11. \A t \in Slots : ~Shifted(t)'
  BY DEF LaunchSlot, Shifted
<1>12. batch' = batch /\ Chunk' = Chunk /\ Pending' \subseteq Pending
  BY SameBatch DEF LaunchSlot
<1>13. \A j \in Pending' : batch[j].seq # s
  BY <1>12, NothingPending DEF LaunchSlot
<1>14. RoundOK'
  BY <1>12 DEF RInv, RoundOK, LaunchSlot
<1>15. pc # "reuse" /\ pc' # "reuse" /\ \A i \in Cells : kv'.cells[i] \in {KV!Free, kv.cells[i]}
  BY DEF LaunchSlot
<1> QED
  BY <1>6, <1>7, <1>8, <1>9, <1>10, <1>11, <1>12, <1>13, <1>14, <1>15, RestingOne

(* A slot is released. *)
LEMMA Releasing ==
  ASSUME RInv, NEW s \in Slots, slot' = [slot EXCEPT ![s] = Released(@)],
         text' = [text EXCEPT ![s] = <<>>] \/ text' = text
  PROVE  /\ slot' \in [Slots -> SlotRec] /\ text' \in [Slots -> Seq(Nat)]
         /\ slot'[s].state = "idle" /\ slot'[s].nPast = 0
         /\ slot'[s].discard = 0 /\ slot'[s].cached = slot[s].cached
         /\ \A t \in Slots : t # s => slot'[t] = slot[t] /\ text'[t] = text[t]
<1>1. slot[s] \in SlotRec /\ slot \in [Slots -> SlotRec] /\ text \in [Slots -> Seq(Nat)]
  BY Typed DEF RInv
<1>2. PICK r : r = Released(slot[s])
  OBVIOUS
<1>3. /\ r \in SlotRec /\ r.state = "idle" /\ r.nPast = 0 /\ r.discard = 0
      /\ r.cached = slot[s].cached
  BY <1>1, <1>2, ReleasedIs
<1>4. slot' = [slot EXCEPT ![s] = r]
  BY <1>1, <1>2
<1>5. /\ slot' \in [Slots -> SlotRec] /\ slot'[s] = r
      /\ \A t \in Slots : t # s => slot'[t] = slot[t]
  BY <1>1, <1>3, <1>4, SlotsAfter
<1>6. text' \in [Slots -> Seq(Nat)] /\ \A t \in Slots : t # s => text'[t] = text[t]
  <2>1. PICK none : none = <<>> /\ none \in Seq(Nat)
    BY EmptySeq
  <2>2. text' = [text EXCEPT ![s] = none] \/ text' = text
    BY <2>1
  <2> QED
    BY <1>1, <2>1, <2>2
<1> QED
  BY <1>3, <1>5, <1>6

(* Steps that release a slot with no token pending. *)
LEMMA ReleasingKeeps ==
  ASSUME RInv, NEW s \in Slots, slot' = [slot EXCEPT ![s] = Released(@)],
         text' = [text EXCEPT ![s] = <<>>] \/ text' = text,
         UNCHANGED <<server, kv, reuseVars, batch, decodeVars>>,
         turn' \in Slots, pc # "reuse", pc' \in {"tasks", "shift", "gen", "prompts", "decode", "sample"},
         pc = "sample" => pc' = "sample",
         \A t \in Slots : Shifted(t)' => t = s \/ slot[t].nPast + 1 < Ctx,
         \A j \in Pending : batch[j].seq # s,
         RoundOK'
  PROVE  RInv'
<1> USE DEF server, reuseVars, decodeVars
<1>1. /\ slot' \in [Slots -> SlotRec] /\ text' \in [Slots -> Seq(Nat)]
      /\ slot'[s].state = "idle" /\ slot'[s].nPast = 0
      /\ slot'[s].discard = 0 /\ slot'[s].cached = slot[s].cached
      /\ \A t \in Slots : t # s => slot'[t] = slot[t] /\ text'[t] = text[t]
  BY Releasing
<1>2. TypeOK'
  BY <1>1 DEF RInv, TypeOK, SlotRec
<1>3. \A t \in Slots : Shifted(t)' => slot'[t].nPast + 1 < Ctx
  BY <1>1, Options
<1>4. batch' = batch /\ Chunk' = Chunk /\ Pending' \subseteq Pending
  BY SameBatch
<1>5. \A j \in Pending' : batch[j].seq # s
  BY <1>4
<1>6. slot'[s].state \in {"idle", "started"} /\ slot'[s].discard \in 0 .. 2
  BY <1>1
<1>7. pc' # "reuse" /\ \A i \in Cells : kv'.cells[i] \in {KV!Free, kv.cells[i]}
  OBVIOUS
<1> QED
  BY <1>1, <1>2, <1>3, <1>4, <1>5, <1>6, <1>7, RestingOne

LEMMA CancelSlotKeeps == ASSUME NEW s \in Slots, RInv, CancelSlot(s) PROVE RInv'
<1> USE DEF CancelSlot, server, reuseVars, decodeVars
<1>1. \A t \in Slots : ~Shifted(t)'
  BY DEF Shifted
<1>2. \A j \in Pending : batch[j].seq # s
  BY NothingPending
<1>3. RoundOK'
  BY DEF RInv, RoundOK, Chunk
<1>4. turn' \in Slots /\ pc' = "tasks"
  BY DEF RInv, TypeOK
<1> QED
  BY <1>1, <1>2, <1>3, <1>4, ReleasingKeeps

(* The slots that the shift has seen to: those before, and that of the     *)
(* turn.                                                                   *)
LEMMA ShiftedOn ==
  ASSUME TypeOK, \A t \in Slots : SlotOK(t), pc = "shift",
         \/ turn' = turn + 1 /\ pc' = "shift"
         \/ turn = NSlots /\ turn' = 1 /\ pc' = "gen"
  PROVE  \A t \in Slots : Shifted(t)' => t = turn \/ slot[t].nPast + 1 < Ctx
<1> TAKE t \in Slots
<1>1. t \in Nat /\ t <= NSlots /\ NSlots \in Nat /\ turn \in Nat
  BY Typed, SlotsAre, Options
<1>2. Shifted(t)' => t = turn \/ Shifted(t)
  BY <1>1 DEF Shifted
<1> QED
  BY <1>2 DEF SlotOK

LEMMA ShiftedGen ==
  ASSUME TypeOK, \A t \in Slots : SlotOK(t), pc = "gen",
         \/ turn' = turn + 1 /\ pc' = "gen"
         \/ turn = NSlots /\ turn' = 1 /\ pc' = "prompts"
  PROVE  \A t \in Slots : Shifted(t)' => t # turn /\ slot[t].nPast + 1 < Ctx
<1> TAKE t \in Slots
<1>1. t \in Nat /\ t <= NSlots /\ NSlots \in Nat /\ turn \in Nat
  BY Typed, SlotsAre, Options
<1>2. Shifted(t)' => t # turn /\ Shifted(t)
  BY <1>1 DEF Shifted
<1> QED
  BY <1>2 DEF SlotOK

(* Context shift. *)
LEMMA StopFullKeeps == ASSUME NEW s \in Slots, RInv, StopFull(s) PROVE RInv'
<1>1. pc = "shift" /\ turn = s /\ turn \in Slots /\ turn \in Nat /\ Turn("shift", "gen")
      /\ UNCHANGED <<server, kv, reuseVars, batch, decodeVars>>
  BY Typed DEF StopFull, RInv
<1>2. /\ turn' \in Slots /\ pc' \in {"shift", "gen"}
      /\ \/ turn' = turn + 1 /\ pc' = "shift"
         \/ turn = NSlots /\ turn' = 1 /\ pc' = "gen"
  BY <1>1, TurnIs
<1>3. \A t \in Slots : Shifted(t)' => t = s \/ slot[t].nPast + 1 < Ctx
  BY <1>1, <1>2, ShiftedOn DEF RInv
<1>4. \A j \in Pending : batch[j].seq # s
  BY <1>1, NothingPending
<1>5. RoundOK'
  BY <1>1, <1>2 DEF RInv, RoundOK, Chunk, decodeVars
<1>6. slot' = [slot EXCEPT ![s] = Released(@)] /\ text' = [text EXCEPT ![s] = <<>>]
  BY DEF StopFull
<1> QED
  BY <1>1, <1>2, <1>3, <1>4, <1>5, <1>6, ReleasingKeeps

LEMMA KeepContextKeeps == ASSUME NEW s \in Slots, RInv, KeepContext(s) PROVE RInv'
<1>1. pc = "shift" /\ turn = s /\ turn \in Slots /\ turn \in Nat /\ Turn("shift", "gen")
      /\ UNCHANGED <<server, kv, slot, reuseVars, batch, decodeVars, text>>
  BY Typed DEF KeepContext, RInv
<1>2. /\ turn' \in Slots /\ pc' \in {"shift", "gen"}
      /\ \/ turn' = turn + 1 /\ pc' = "shift"
         \/ turn = NSlots /\ turn' = 1 /\ pc' = "gen"
  BY <1>1, TurnIs
<1>3. slot[s].nPast + 1 < Ctx
  <2>1. slot[s] \in SlotRec
    BY Typed DEF RInv
  <2>2. slot[s].nPast \in Nat /\ Ctx \in Nat /\ Ctx >= 4
    BY <2>1, SlotTyped, Options
  <2>3. slot[s].nPast = 0 \/ Busy(s)
    BY DEF RInv, SlotOK, Working, Busy
  <2> QED
    BY <2>2, <2>3 DEF KeepContext, Full
<1>4. \A t \in Slots : Shifted(t)' => slot'[t].nPast + 1 < Ctx
  BY <1>1, <1>2, <1>3, ShiftedOn DEF RInv
<1>5. batch' = batch /\ Chunk' = Chunk /\ Pending' \subseteq Pending
  BY <1>1, SameBatch DEF decodeVars
<1>6. RoundOK'
  BY <1>1, <1>2 DEF RInv, RoundOK, Chunk, decodeVars
<1>7. TypeOK'
  BY <1>1, <1>2 DEF RInv, TypeOK, server, reuseVars, decodeVars
<1>8. pc # "reuse" /\ pc' # "reuse" /\ \A i \in Cells : kv'.cells[i] \in {KV!Free, kv.cells[i]}
  BY <1>1, <1>2
<1> QED
  BY <1>1, <1>4, <1>5, <1>6, <1>7, <1>8, RestingNone

(* The batch gets no sampled token of the slot. *)
LEMMA SkipSampledKeeps == ASSUME NEW s \in Slots, RInv, SkipSampled(s) PROVE RInv'
<1>1. pc = "gen" /\ turn = s /\ turn \in Slots /\ turn \in Nat /\ Turn("gen", "prompts")
      /\ UNCHANGED <<server, kv, slot, reuseVars, batch, decodeVars, text>>
  BY Typed DEF SkipSampled, RInv
<1>2. /\ turn' \in Slots /\ pc' \in {"gen", "prompts"}
      /\ \/ turn' = turn + 1 /\ pc' = "gen"
         \/ turn = NSlots /\ turn' = 1 /\ pc' = "prompts"
  BY <1>1, TurnIs
<1>3. \A t \in Slots : Shifted(t)' => slot'[t].nPast + 1 < Ctx
  BY <1>1, <1>2, ShiftedGen DEF RInv
<1>4. batch' = batch /\ Chunk' = Chunk /\ Pending' \subseteq Pending
  BY <1>1, SameBatch DEF decodeVars
<1>5. RoundOK'
  BY <1>1, <1>2 DEF RInv, RoundOK, Chunk, decodeVars
<1>6. TypeOK'
  BY <1>1, <1>2 DEF RInv, TypeOK, server, reuseVars, decodeVars
<1>7. pc # "reuse" /\ pc' # "reuse" /\ \A i \in Cells : kv'.cells[i] \in {KV!Free, kv.cells[i]}
  BY <1>1, <1>2
<1> QED
  BY <1>1, <1>3, <1>4, <1>5, <1>6, <1>7, RestingNone

(* The chunk to decode. *)
LEMMA ChunkIs ==
  ASSUME TypeOK
  PROVE  /\ Chunk \in Int /\ Chunk <= chunk /\ Chunk <= Batch /\ Chunk <= Len(batch) - at
         /\ Chunk = chunk \/ Chunk = Len(batch) - at
         /\ at < Len(batch) => Chunk \in 1 .. Batch
<1>1. chunk \in 1 .. Batch /\ at \in Nat /\ Len(batch) \in Nat /\ Batch \in Nat
  BY Typed, Options
<1>2. PICK rest \in Int : rest = Len(batch) - at
  BY <1>1
<1>3. Chunk = IF chunk <= rest THEN chunk ELSE rest
  BY <1>1, <1>2, MinOfTwo DEF Chunk
<1> QED
  BY <1>1, <1>2, <1>3

(* The end of the loop over the prompts. *)
LEMMA VisitedIs ==
  ASSUME TypeOK, NEW s \in Slots, batch' \in Seq([seq : Slots, pos : Nat, tok : Nat]), Visited(s)
  PROVE  /\ turn' \in Slots /\ pc' \in {"prompts", "tasks", "decode"}
         /\ pc' = "tasks" => turn' = 1 /\ batch' = <<>>
         /\ pc' = "decode" => 0 < Len(batch')
<1>1. Len(batch') \in Nat /\ Batch \in Nat \ {0} /\ turn \in Slots
  BY Options, LenProperties, Typed
<1>2. 1 \in Slots
  BY Options DEF Slots
<1>3. CASE Len(batch') >= Batch
  BY <1>1, <1>2, <1>3 DEF Visited
<1>4. CASE ~(Len(batch') >= Batch)
  <2>1. PICK after : after = IF batch' = <<>> THEN "tasks" ELSE "decode"
    OBVIOUS
  <2>2. Turn("prompts", after)
    BY <1>4, <2>1 DEF Visited
  <2>3. /\ turn' \in Slots /\ pc' \in {"prompts", after}
        /\ \/ turn' = turn + 1 /\ pc' = "prompts"
           \/ turn = NSlots /\ turn' = 1 /\ pc' = after
    BY <1>1, <2>2, TurnIs
  <2>4. batch' # <<>> => Len(batch') # 0
    BY EmptySeq
  <2> QED
    BY <1>1, <2>1, <2>3, <2>4
<1> QED
  BY <1>3, <1>4

(* The rounds, behind the loop over the prompts. *)
LEMMA VisitedRounds ==
  ASSUME TypeOK', at' = 0, placed' = 0, pc' \in {"prompts", "tasks", "decode"},
         pc' = "tasks" => turn' = 1 /\ batch' = <<>>,
         pc' = "decode" => 0 < Len(batch')
  PROVE  RoundOK'
<1>1. chunk' \in 1 .. Batch /\ Len(batch') \in Nat /\ Batch \in Nat
  BY Options, LenProperties DEF TypeOK
<1>2. PICK rest \in Int : rest = Len(batch') - at'
  BY <1>1
<1>3. Chunk' = IF chunk' <= rest THEN chunk' ELSE rest
  BY <1>1, <1>2, MinOfTwo DEF Chunk
<1> QED
  BY <1>1, <1>2, <1>3 DEF RoundOK

LEMMA SkipPromptKeeps == ASSUME NEW s \in Slots, RInv, SkipPrompt(s) PROVE RInv'
<1>1. pc = "prompts" /\ Visited(s) /\ TypeOK
      /\ UNCHANGED <<server, kv, slot, reuseVars, batch, decodeVars, text>>
  BY DEF SkipPrompt, RInv
<1>2. /\ turn' \in Slots /\ pc' \in {"prompts", "tasks", "decode"}
      /\ pc' = "tasks" => turn' = 1 /\ batch' = <<>>
      /\ pc' = "decode" => 0 < Len(batch')
  <2>1. batch' \in Seq([seq : Slots, pos : Nat, tok : Nat])
    BY <1>1, Typed
  <2> QED
    BY <1>1, <2>1, VisitedIs
<1>3. \A t \in Slots : ~Shifted(t)'
  BY <1>2 DEF Shifted
<1>4. batch' = batch /\ Chunk' = Chunk /\ Pending' \subseteq Pending
  BY <1>1, SameBatch DEF decodeVars
<1>5. TypeOK'
  BY <1>1, <1>2 DEF RInv, TypeOK, server, reuseVars, decodeVars
<1>6. RoundOK'
  <2>1. at' = 0 /\ placed' = 0
    BY <1>1 DEF RInv, RoundOK, decodeVars
  <2> QED
    BY <1>2, <1>5, <2>1, VisitedRounds
<1>7. pc # "reuse" /\ pc' # "reuse" /\ \A i \in Cells : kv'.cells[i] \in {KV!Free, kv.cells[i]}
  BY <1>1, <1>2
<1> QED
  BY <1>1, <1>3, <1>4, <1>5, <1>6, <1>7, RestingNone

LEMMA RejectPromptKeeps == ASSUME NEW s \in Slots, RInv, RejectPrompt(s) PROVE RInv'
<1>1. pc = "prompts" /\ turn = s /\ slot[s].state = "started" /\ turn \in Slots /\ turn \in Nat
      /\ UNCHANGED <<server, kv, reuseVars, batch, decodeVars, text>> /\ TypeOK
  BY Typed DEF RejectPrompt, RInv
<1>2. PICK after : after = IF batch = <<>> THEN "tasks" ELSE "decode"
  OBVIOUS
<1>3. /\ turn' \in Slots /\ pc' \in {"prompts", after}
      /\ \/ turn' = turn + 1 /\ pc' = "prompts"
         \/ turn = NSlots /\ turn' = 1 /\ pc' = after
  <2>1. Turn("prompts", after)
    BY <1>2 DEF RejectPrompt
  <2> QED
    BY <1>1, <2>1, TurnIs
<1>4. \A t \in Slots : ~Shifted(t)'
  BY <1>2, <1>3 DEF Shifted
<1>5. \A j \in Pending : batch[j].seq # s
  <2>1. ~Active(s)
    BY <1>1 DEF Active, Working
  <2> QED
    BY <2>1 DEF RInv, BatchOK, TokenOK
<1>6. RoundOK'
  <2>1. at' = 0 /\ placed' = 0 /\ batch' = batch /\ chunk' = chunk
    BY <1>1 DEF RInv, RoundOK, decodeVars
  <2>2. batch # <<>> => 0 < Len(batch)
    <3>1. Len(batch) \in Nat
      BY <1>1, Typed
    <3>2. Len(batch) = 0 => batch = <<>>
      BY <1>1, EmptySeq, Typed
    <3> QED
      BY <3>1, <3>2
  <2>3. Chunk' = Chunk /\ (at < Len(batch) => Chunk \in 1 .. Batch)
    BY <1>1, <2>1, ChunkIs DEF Chunk, decodeVars
  <2>4. at = 0
    BY <1>1 DEF RInv, RoundOK
  <2> QED
    BY <1>2, <1>3, <2>1, <2>2, <2>3, <2>4 DEF RoundOK
<1>7. slot' = [slot EXCEPT ![s] = Released(@)]
  BY DEF RejectPrompt
<1>8. text' = text /\ pc' \in {"tasks", "shift", "gen", "prompts", "decode", "sample"}
  BY <1>1, <1>2, <1>3
<1> QED
  BY <1>1, <1>3, <1>4, <1>5, <1>6, <1>7, <1>8, ReleasingKeeps

(* Every slot is released. *)
LEMMA FailBatchKeeps ==
  ASSUME RInv, FailBatch, pc = "decode", UNCHANGED <<server, reuseVars>>, kv' \in Caches,
         \A i \in Cells, t \in Slots : kv'.cells[i].seq = t => kv'.cells[i].pos < Ctx
  PROVE  RInv'
<1>1. slot \in [Slots -> SlotRec] /\ \A t \in Slots : slot[t] \in SlotRec
  BY Typed DEF RInv
<1>2. \A t \in Slots : /\ slot'[t] \in SlotRec /\ slot'[t].state = "idle"
                       /\ slot'[t].nPast = 0 /\ slot'[t].discard \in 0 .. 2
                       /\ slot'[t].cached = slot[t].cached
  <2> TAKE t \in Slots
  <2>1. slot'[t] = IF Busy(t) THEN Released(slot[t]) ELSE slot[t]
    BY DEF FailBatch
  <2>2. PICK r : r = Released(slot[t])
    OBVIOUS
  <2>3. /\ r \in SlotRec /\ r.state = "idle" /\ r.nPast = 0 /\ r.discard = 0
        /\ r.cached = slot[t].cached
    BY <1>1, <2>2, ReleasedIs
  <2>4. SlotOK(t) /\ slot[t] \in SlotRec
    BY <1>1 DEF RInv
  <2>5. CASE Busy(t)
    BY <2>1, <2>2, <2>3, <2>5
  <2>6. CASE ~Busy(t)
    BY <2>1, <2>4, <2>6 DEF Busy, SlotOK, Working
  <2> QED
    BY <2>5, <2>6
<1>3. slot' \in [Slots -> SlotRec]
  <2>1. slot' = [t \in Slots |-> slot'[t]]
    BY DEF FailBatch
  <2> QED
    BY <1>2, <2>1
<1>4. text' \in [Slots -> Seq(Nat)]
  <2>1. PICK none : none = <<>> /\ none \in Seq(Nat)
    BY EmptySeq
  <2>2. text' = [t \in Slots |-> none]
    BY <2>1 DEF FailBatch
  <2> QED
    BY <2>1, <2>2
<1>5. pc' = "tasks" /\ turn' = 1 /\ batch' = <<>> /\ at' = 0 /\ chunk' = Batch
      /\ placed' = 0 /\ saved' = Unsaved
  BY DEF FailBatch, EndRound
<1>6. TypeOK'
  <2>1. turn' \in Slots /\ chunk' \in 1 .. Batch /\ placed' \in 0 .. Batch
    BY <1>5, Options DEF Slots
  <2>2. batch' \in Seq([seq : Slots, pos : Nat, tok : Nat])
    BY <1>5, EmptySeq
  <2>3. saved' \in [head : 0 .. NSlots * Ctx, boundaries : SUBSET (Nat \X Nat)]
    BY <1>5, UnsavedIs
  <2>4. /\ launched' \in 0 .. MaxRequests /\ ctxShift' \in CtxShifts /\ clean' \in BOOLEAN
        /\ hc' \in 0 .. Ctx /\ hp' \in 0 .. hc'
    BY DEF RInv, TypeOK, server, reuseVars
  <2> QED
    BY <1>3, <1>4, <1>5, <2>1, <2>2, <2>3, <2>4 DEF TypeOK, SlotRec, Caches
<1>7. Pending' = {}
  <2>1. Len(batch') = 0
    BY <1>5, EmptySeq
  <2> QED
    BY <2>1 DEF Pending
<1>8. RoundOK'
  BY <1>5 DEF RoundOK
<1>9. \A t \in Slots : Shifted(t)' => slot'[t].nPast + 1 < Ctx
  BY <1>5 DEF Shifted
<1>10. PICK R \in SUBSET Slots : R = Slots
  OBVIOUS
<1>11. \A t \in R : /\ slot'[t].state \in {"idle", "started"} /\ slot'[t].nPast = 0
                    /\ slot'[t].discard \in 0 .. 2 /\ slot'[t].cached = slot[t].cached
  BY <1>2
<1>12. \A t \in Slots \ R : slot'[t] = slot[t] /\ text'[t] = text[t]
  BY <1>10
<1>13. pc # "reuse" /\ pc' # "reuse"
  BY <1>5
<1>14. CellsOK'
  <2>1. \A t \in Slots : ~Active(t)'
    BY <1>2 DEF Active, Working
  <2> QED
    BY <2>1 DEF CellsOK
<1> QED
  BY <1>6, <1>7, <1>8, <1>9, <1>11, <1>12, <1>13, <1>14, Resting

LEMMA DecodeRejectsKeeps == RInv /\ DecodeRejects => RInv'
<1> SUFFICES ASSUME RInv, DecodeRejects
             PROVE  RInv'
  OBVIOUS
<1>1. kv' \in Caches
      /\ \A i \in Cells, t \in Slots : kv'.cells[i].seq = t => kv'.cells[i].pos < Ctx
  BY Typed DEF RInv, CellsOK, DecodeRejects
<1>2. pc = "decode" /\ FailBatch /\ UNCHANGED <<server, reuseVars>>
  BY DEF DecodeRejects
<1> QED
  BY <1>1, <1>2, FailBatchKeeps

(* Only the head moves. *)
LEMMA HeadIs ==
  ASSUME NEW cache \in Caches, NEW h \in 0 .. Size
  PROVE  LET r == [cache EXCEPT !.head = h]
         IN  r \in Caches /\ r.cells = cache.cells
BY CachesAre

(* The search for the cells of a ubatch. *)
LEMMA RoomIs ==
  ASSUME TypeOK, BatchOK, RoundOK, pc = "decode"
  PROVE  /\ Ubatch \in Seq([seq : Slots, pos : Nat, tok : Nat])
         /\ Len(Ubatch) \in 1 .. UBatch /\ placed + Len(Ubatch) <= Chunk
         /\ \A i \in 1 .. Len(Ubatch) : Ubatch[i] = batch[at + placed + i]
         /\ Len(Ubatch) = UBatch \/ placed + Len(Ubatch) = Chunk
         /\ Room \in [found : BOOLEAN, head : 0 .. Size]
         /\ Room.found => /\ Room.head + Len(Ubatch) <= Size
                          /\ KV!Taken(kv, Room.head, Len(Ubatch)) = {}
         /\ ~Room.found => \A h \in 0 .. Size - Len(Ubatch) : KV!Taken(kv, h, Len(Ubatch)) # {}
<1>1. /\ batch \in Seq([seq : Slots, pos : Nat, tok : Nat]) /\ at \in Nat
      /\ Len(batch) \in Nat /\ placed \in Nat /\ UBatch \in Nat \ {0} /\ UBatch <= Size
      /\ Size \in Nat /\ kv \in Caches
  BY Typed, Options, SizeIs
<1>2. /\ Chunk \in Nat /\ placed < Chunk /\ Chunk <= Len(batch) - at
  BY ChunkIs, <1>1 DEF RoundOK
<1>3. PICK a \in Int, c \in Int : a = placed + UBatch /\ c = Chunk
  BY <1>1, <1>2
<1>4. PICK m \in Nat : /\ m = Min({placed + UBatch, Chunk})
                      /\ placed < m /\ m <= a /\ m <= c /\ (m = a \/ m = c)
  <2>1. Min({a, c}) = IF a <= c THEN a ELSE c
    BY <1>3, MinOfTwo
  <2>2. a \in Nat /\ c \in Nat /\ placed < a /\ placed < c
    BY <1>1, <1>2, <1>3
  <2> QED
    BY <1>3, <2>1, <2>2
<1>5. PICK from, to, T : from = at + placed + 1 /\ to = at + m
                         /\ T = [seq : Slots, pos : Nat, tok : Nat]
  OBVIOUS
<1>6. from \in 1 .. Len(batch) + 1 /\ to \in from - 1 .. Len(batch) /\ batch \in Seq(T)
  <2>1. PICK l \in Nat : l = Len(batch)
    BY <1>1
  <2>2. at + m <= l /\ placed < m /\ m \in Nat /\ at \in Nat /\ placed \in Nat
    BY <1>1, <1>2, <1>3, <1>4, <2>1
  <2>3. from \in 1 .. l + 1 /\ to \in from - 1 .. l
    BY <1>5, <2>1, <2>2
  <2> QED
    BY <1>1, <1>5, <2>1, <2>3
<1>7. PICK u : u = SubSeq(batch, from, to)
  OBVIOUS
<1>8. u \in Seq(T) /\ Len(u) = to + 1 - from
      /\ \A i \in 1 .. to + 1 - from : u[i] = batch[from + i - 1]
  BY <1>6, <1>7, PartIs
<1>9. Ubatch = u
  BY <1>4, <1>5, <1>7 DEF Ubatch
<1>10. to + 1 - from = m - placed
  BY <1>1, <1>4, <1>5
<1>11. Len(u) \in 1 .. UBatch /\ placed + Len(u) <= Chunk
       /\ (Len(u) = UBatch \/ placed + Len(u) = Chunk)
  BY <1>1, <1>2, <1>3, <1>4, <1>8, <1>10
<1>12. \A i \in 1 .. Len(u) : u[i] = batch[at + placed + i]
  <2> TAKE i \in 1 .. Len(u)
  <2>1. u[i] = batch[from + i - 1] /\ i \in Nat
    BY <1>8, <1>10, <1>11
  <2>2. from + i - 1 = at + placed + i
    BY <1>1, <1>5, <2>1
  <2> QED
    BY <2>1, <2>2
<1>13. PICK n \in 0 .. Size : n = Len(u)
  BY <1>1, <1>11
<1>14. PICK r : r = KV!FindSlot(kv, n)
  OBVIOUS
<1>15. kv.head \in 0 .. Size
  BY <1>1, CachesAre
<1>16. /\ r \in [found : BOOLEAN, head : 0 .. Size]
       /\ r.found => r.head + n <= Size /\ KV!Taken(kv, r.head, n) = {}
       /\ ~r.found => \A h \in 0 .. Size - n : KV!Taken(kv, h, n) # {}
  BY <1>14, <1>15, SearchIs
<1>17. Room = r
  BY <1>9, <1>13, <1>14 DEF Room
<1> QED
  BY <1>5, <1>8, <1>9, <1>11, <1>12, <1>13, <1>16, <1>17

(* A ubatch gets free cells in a row. *)
LEMMA FillOfUbatch ==
  ASSUME RInv, NEW h \in Cells, RoomAt(h)
  PROVE  LET r == KV!Fill(kv, h, Ubatch)
             j(i) == at + placed + (i - h + 1)
         IN  /\ r \in Caches /\ h + Len(Ubatch) <= Size
             /\ \A i \in Cells :
                  IF h <= i /\ i < h + Len(Ubatch)
                  THEN /\ r.cells[i] = batch[j(i)] /\ kv.cells[i] = KV!Free
                       /\ j(i) \in Pending /\ TokenOK(j(i))
                       /\ batch[j(i)] \in [seq : Slots, pos : Nat, tok : Nat]
                  ELSE r.cells[i] = kv.cells[i]
<1>1. pc = "decode" /\ Room = [found |-> TRUE, head |-> h]
  BY DEF RoomAt
<1>2. /\ TypeOK /\ kv \in Caches /\ at \in Nat /\ placed \in Nat /\ Len(batch) \in Nat
      /\ batch \in Seq([seq : Slots, pos : Nat, tok : Nat])
  BY Typed DEF RInv
<1>3. /\ Ubatch \in Seq([seq : Slots, pos : Nat, tok : Nat])
      /\ Len(Ubatch) \in 1 .. UBatch /\ placed + Len(Ubatch) <= Chunk
      /\ \A i \in 1 .. Len(Ubatch) : Ubatch[i] = batch[at + placed + i]
      /\ h + Len(Ubatch) <= Size /\ KV!Taken(kv, h, Len(Ubatch)) = {}
  BY <1>1, RoomIs DEF RInv
<1>4. PICK n \in Nat : n = Len(Ubatch) /\ n <= UBatch
  BY <1>3
<1>5. PICK r : r = KV!Fill(kv, h, Ubatch)
  OBVIOUS
<1>6. /\ r \in Caches
      /\ \A i \in Cells : r.cells[i] = IF h <= i /\ i < h + n THEN Ubatch[i - h + 1]
                                       ELSE kv.cells[i]
  <2>1. PICK u \in Seq([seq : Slots, pos : Nat, tok : Nat]) : u = Ubatch
    BY <1>3
  <2>2. PICK q : q = KV!Fill(kv, h, u)
    OBVIOUS
  <2>3. /\ q \in Caches
        /\ \A i \in Cells : q.cells[i] = IF h <= i /\ i < h + Len(u) THEN u[i - h + 1]
                                         ELSE kv.cells[i]
    BY <1>2, <2>2, FillIs
  <2> QED
    BY <1>4, <1>5, <2>1, <2>2, <2>3
<1>7. h \in Nat /\ Cells \in SUBSET Nat /\ Chunk \in Int /\ Chunk <= Len(batch) - at
  BY <1>2, CachesAre, ChunkIs
<1>8. ASSUME NEW i \in Cells, h <= i, i < h + n
      PROVE  /\ r.cells[i] = batch[at + placed + (i - h + 1)] /\ kv.cells[i] = KV!Free
             /\ at + placed + (i - h + 1) \in Pending
             /\ TokenOK(at + placed + (i - h + 1))
             /\ batch[at + placed + (i - h + 1)] \in [seq : Slots, pos : Nat, tok : Nat]
  <2>1. PICK k \in 1 .. n : k = i - h + 1
    <3>1. i - h + 1 \in 1 .. n
      BY <1>4, <1>7, <1>8
    <3> QED
      BY <3>1
  <2>2. r.cells[i] = batch[at + placed + k]
    <3>1. r.cells[i] = Ubatch[k]
      BY <1>6, <1>8, <2>1
    <3> QED
      BY <1>3, <1>4, <2>1, <3>1
  <2>3. kv.cells[i] = KV!Free
    <3>1. PICK o \in 0 .. n - 1 : o = i - h /\ h + o = i
      <4>1. i - h \in 0 .. n - 1 /\ h + (i - h) = i
        BY <1>4, <1>7, <1>8
      <4> QED
        BY <4>1
    <3>2. KV!Taken(kv, h, n) = {}
      BY <1>3, <1>4
    <3> QED
      BY <3>1, <3>2 DEF KV!Taken
  <2>4. PICK j \in 1 .. Len(batch) : j = at + placed + k /\ j > at
    <3>1. placed + k <= Chunk
      BY <1>2, <1>3, <1>4, <1>7, <2>1
    <3>2. at + placed + k \in 1 .. Len(batch) /\ at + placed + k > at
      BY <1>2, <1>7, <2>1, <3>1
    <3> QED
      BY <3>2
  <2>5. j \in Pending
    BY <1>1, <2>4 DEF Pending
  <2>6. TokenOK(j)
    BY <2>5 DEF RInv, BatchOK
  <2>7. batch[j] \in [seq : Slots, pos : Nat, tok : Nat]
    BY <1>2, ElementOfSeq
  <2> QED
    BY <2>1, <2>2, <2>3, <2>4, <2>5, <2>6, <2>7
<1> QED
  BY <1>3, <1>4, <1>5, <1>6, <1>8

(* Cells that get the tokens of a ubatch lie in the context. *)
LEMMA FilledCells ==
  ASSUME RInv, NEW h \in Cells, RoomAt(h)
  PROVE  LET r == KV!Fill(kv, h, Ubatch)
         IN  \A i \in Cells, t \in Slots :
               r.cells[i].seq = t =>
                 r.cells[i].pos < Ctx /\ (Active(t) => r.cells[i].pos < Len(text[t]))
<1> SUFFICES ASSUME NEW i \in Cells, NEW t \in Slots, KV!Fill(kv, h, Ubatch).cells[i].seq = t
             PROVE  /\ KV!Fill(kv, h, Ubatch).cells[i].pos < Ctx
                    /\ Active(t) => KV!Fill(kv, h, Ubatch).cells[i].pos < Len(text[t])
  OBVIOUS
<1>1. PICK r : r = KV!Fill(kv, h, Ubatch)
  OBVIOUS
<1>2. r.cells[i].seq = t
  BY <1>1
<1>3. CASE h <= i /\ i < h + Len(Ubatch)
  <2>1. PICK j : /\ r.cells[i] = batch[j] /\ TokenOK(j)
                 /\ batch[j] \in [seq : Slots, pos : Nat, tok : Nat]
    BY <1>1, <1>3, FillOfUbatch
  <2>2. Active(t) /\ r.cells[i].pos < Len(text[t]) /\ r.cells[i].pos \in Nat
    BY <1>2, <2>1 DEF TokenOK
  <2>3. Len(text[t]) = slot[t].nPast /\ slot[t].nPast < Ctx
    BY <2>2 DEF RInv, TextOK, SlotOK
  <2>4. slot[t].nPast \in Nat /\ Ctx \in Nat
    <3>1. slot[t] \in SlotRec
      BY Typed DEF RInv
    <3> QED
      BY <3>1, SlotTyped, Options
  <2> QED
    BY <1>1, <2>2, <2>3, <2>4
<1>4. CASE ~(h <= i /\ i < h + Len(Ubatch))
  <2>1. r.cells[i] = kv.cells[i]
    BY <1>1, <1>4, FillOfUbatch
  <2> QED
    BY <1>1, <1>2, <2>1 DEF RInv, CellsOK
<1> QED
  BY <1>3, <1>4

(* What is saved for the restorer. *)
LEMMA SavedIs ==
  ASSUME RInv, NEW h \in Cells, RoomAt(h)
  PROVE  Saved(h) \in [head : 0 .. Size, boundaries : SUBSET (Nat \X Nat)]
<1>1. kv.head \in 0 .. Size /\ h \in Nat
  BY Typed, CachesAre DEF RInv
<1>2. h + Len(Ubatch) \in Nat
  BY <1>1, RoomIs, Options DEF RInv, RoomAt
<1>3. saved \in [head : 0 .. Size, boundaries : SUBSET (Nat \X Nat)]
  BY Typed DEF RInv
<1>4. saved.boundaries \cup {<<h, h + Len(Ubatch)>>} \in SUBSET (Nat \X Nat)
  BY <1>1, <1>2, <1>3
<1> QED
  BY <1>1, <1>3, <1>4 DEF Saved

LEMMA ComputeFailsKeeps == ASSUME NEW h \in Cells, RInv, ComputeFails(h) PROVE RInv'
<1>1. /\ pc = "decode" /\ RoomAt(h) /\ FailBatch /\ UNCHANGED <<server, reuseVars>>
      /\ kv' = KV!Restore(KV!Fill(kv, h, Ubatch), Saved(h).head, Saved(h).boundaries)
  BY DEF ComputeFails, RoomAt
<1>2. PICK r : r = KV!Fill(kv, h, Ubatch)
  OBVIOUS
<1>3. r \in Caches
  BY <1>1, <1>2, FillOfUbatch
<1>4. PICK head \in 0 .. Size, boundaries \in SUBSET (Nat \X Nat) :
             head = Saved(h).head /\ boundaries = Saved(h).boundaries
  BY <1>1, SavedIs
<1>5. kv' \in Caches /\ \A i \in Cells : kv'.cells[i] \in {KV!Free, r.cells[i]}
  BY <1>1, <1>2, <1>3, <1>4, RestoreIs
<1>6. \A i \in Cells, t \in Slots : r.cells[i].seq = t => r.cells[i].pos < Ctx
  BY <1>1, <1>2, FilledCells
<1>7. \A i \in Cells, t \in Slots : kv'.cells[i].seq = t => kv'.cells[i].pos < Ctx
  BY <1>5, <1>6, CachesAre
<1> QED
  BY <1>1, <1>5, <1>7, FailBatchKeeps

LEMMA PlaceUbatchKeeps == ASSUME NEW h \in Cells, RInv, PlaceUbatch(h) PROVE RInv'
<1>1. /\ pc = "decode" /\ RoomAt(h) /\ saved' = Saved(h)
      /\ placed' = placed + Len(Ubatch) /\ pc' = (IF placed' = Chunk THEN "sample" ELSE "decode")
      /\ kv' = KV!Advance(KV!Fill(kv, h, Ubatch), h, Len(Ubatch))
      /\ UNCHANGED <<turn, server, slot, reuseVars, batch, at, chunk, text>>
  BY DEF PlaceUbatch, RoomAt
<1>2. /\ Len(Ubatch) \in Nat /\ placed + Len(Ubatch) <= Chunk /\ placed \in Nat
      /\ Chunk <= Batch /\ Chunk \in Int /\ Batch \in Nat
  BY <1>1, RoomIs, ChunkIs, Typed, Options DEF RInv
<1>3. PICK r : r = KV!Fill(kv, h, Ubatch)
  OBVIOUS
<1>4. r \in Caches
  BY <1>1, <1>3, FillOfUbatch
<1>5. kv' \in Caches /\ kv'.cells = r.cells
  BY <1>1, <1>2, <1>3, <1>4, AdvanceIs
<1>6. TypeOK'
  <2>1. placed' \in 0 .. Batch /\ pc' \in {"decode", "sample"}
    BY <1>1, <1>2
  <2>2. saved' \in [head : 0 .. Size, boundaries : SUBSET (Nat \X Nat)]
    BY <1>1, SavedIs
  <2> QED
    BY <1>1, <1>5, <2>1, <2>2 DEF RInv, TypeOK, server, reuseVars, Caches, Size
<1>7. Chunk' = Chunk
  BY <1>1 DEF Chunk
<1>8. Pending' \subseteq Pending
  BY <1>1, <1>7 DEF Pending
<1>9. RoundOK'
  <2>1. at < Len(batch)
    BY <1>1 DEF RInv, RoundOK
  <2>2. pc' = "decode" => placed' < Chunk'
    BY <1>1, <1>2, <1>7
  <2> QED
    BY <1>1, <2>1, <2>2 DEF RoundOK
<1>10. CellsOK'
  <2>1. \A t \in Slots : Active(t)' => Active(t)
    BY <1>1 DEF Active, Working
  <2>2. \A i \in Cells, t \in Slots :
          r.cells[i].seq = t =>
            r.cells[i].pos < Ctx /\ (Active(t) => r.cells[i].pos < Len(text[t]))
    BY <1>1, <1>3, FilledCells
  <2> QED
    BY <1>1, <1>5, <2>1, <2>2 DEF CellsOK
<1>11. PICK R \in SUBSET Slots : R = {}
  OBVIOUS
<1>12. \A t \in R : /\ slot'[t].state \in {"idle", "started"} /\ slot'[t].nPast = 0
                    /\ slot'[t].discard \in 0 .. 2 /\ slot'[t].cached = slot[t].cached
  BY <1>11
<1>13. \/ Pending' = {}
       \/ /\ batch' = batch /\ Pending' \subseteq Pending
          /\ \A j \in Pending' : batch[j].seq \notin R
  BY <1>1, <1>8, <1>11
<1>14. (\A t \in Slots : ~Shifted(t)') /\ pc # "reuse" /\ pc' # "reuse"
       /\ \A t \in Slots \ R : slot'[t] = slot[t] /\ text'[t] = text[t]
  BY <1>1 DEF Shifted
<1> QED
  BY <1>6, <1>9, <1>10, <1>12, <1>13, <1>14, Resting

LEMMA NoRoomKeeps == RInv /\ NoRoom => RInv'
<1> SUFFICES ASSUME RInv, NoRoom
             PROVE  RInv'
  OBVIOUS
<1>1. pc = "decode" /\ kv' = [kv EXCEPT !.head = Room.head] /\ UNCHANGED <<server, reuseVars>>
  BY DEF NoRoom
<1>2. kv' \in Caches /\ kv'.cells = kv.cells
  <2>1. PICK h \in 0 .. Size : h = Room.head
    BY <1>1, RoomIs DEF RInv
  <2>2. kv \in Caches
    BY Typed DEF RInv
  <2> QED
    BY <1>1, <2>1, <2>2, HeadIs
<1>3. CASE chunk = 1
  <2>1. \A i \in Cells, t \in Slots : kv'.cells[i].seq = t => kv'.cells[i].pos < Ctx
    BY <1>2 DEF RInv, CellsOK
  <2>2. FailBatch
    BY <1>3 DEF NoRoom
  <2> QED
    BY <1>1, <1>2, <2>1, <2>2, FailBatchKeeps
<1>4. CASE chunk # 1
  <2>1. /\ chunk' = chunk \div 2 /\ placed' = 0 /\ saved' = Unsaved
        /\ UNCHANGED <<pc, turn, slot, batch, at, text>>
    BY <1>4 DEF NoRoom
  <2>2. chunk \in 1 .. Batch /\ Batch \in Nat
    BY Typed, Options DEF RInv
  <2>3. chunk' \in 1 .. Batch
    <3>1. PICK c \in Nat : c = chunk /\ c <= Batch /\ c >= 2
      BY <1>4, <2>2
    <3>2. c \div 2 \in 1 .. Batch
      BY <2>2, <3>1
    <3> QED
      BY <2>1, <3>1, <3>2
  <2>4. TypeOK'
    <3>1. placed' \in 0 .. Batch
      BY <2>1, <2>2
    <3> QED
      BY <1>1, <1>2, <2>1, <2>3, <3>1, UnsavedIs
         DEF RInv, TypeOK, server, reuseVars, Caches
  <2>5. batch' = batch /\ Pending' \subseteq Pending
    BY <1>1, <2>1 DEF Pending
  <2>6. RoundOK'
    <3>1. at < Len(batch) /\ at \in Nat /\ Len(batch) \in Nat
      BY <1>1, Typed DEF RInv, RoundOK
    <3>2. PICK rest \in Int : rest = Len(batch) - at /\ rest > 0
      <4>1. Len(batch) - at \in Int /\ Len(batch) - at > 0
        BY <3>1
      <4> QED
        BY <4>1
    <3>3. PICK c \in Int : c = chunk' /\ c > 0
      BY <2>2, <2>3
    <3>4. Chunk' = IF c <= rest THEN c ELSE rest
      <4>1. Chunk' = Min({c, rest})
        BY <2>1, <3>2, <3>3 DEF Chunk
      <4> QED
        BY <3>2, <3>3, <4>1, MinOfTwo
    <3>5. 0 < Chunk'
      BY <3>2, <3>3, <3>4
    <3> QED
      BY <1>1, <2>1, <3>1, <3>5 DEF RoundOK
  <2>7. (\A t \in Slots : ~Shifted(t)') /\ pc # "reuse" /\ pc' # "reuse" /\ slot' = slot /\ text' = text
    BY <1>1, <2>1 DEF Shifted
  <2>8. \A i \in Cells : kv'.cells[i] \in {KV!Free, kv.cells[i]}
    BY <1>2
  <2> QED
    BY <2>4, <2>5, <2>6, <2>7, <2>8, RestingNone
<1> QED
  BY <1>3, <1>4

(* The next chunk begins behind the last one, if there is one. *)
LEMMA NextChunkKeeps == RInv /\ NextChunk => RInv'
<1> SUFFICES ASSUME RInv, NextChunk
             PROVE  RInv'
  OBVIOUS
<1>1. pc = "sample" /\ UNCHANGED <<server, kv, slot, reuseVars, text>>
  BY DEF NextChunk
<1>2. /\ at \in Nat /\ chunk \in 1 .. Batch /\ Len(batch) \in Nat /\ Batch \in Nat
      /\ (Chunk = chunk \/ Chunk = Len(batch) - at) /\ TypeOK
  BY Typed, ChunkIs, Options DEF RInv
<1>3. (\A t \in Slots : Shifted(t)' => slot'[t].nPast + 1 < Ctx)
      /\ \A i \in Cells : kv'.cells[i] \in {KV!Free, kv.cells[i]}
  <2>1. pc' \in {"decode", "tasks"}
    BY DEF NextChunk, EndRound
  <2> QED
    BY <1>1, <2>1 DEF Shifted
<1>4. CASE at + chunk < Len(batch)
  <2>1. /\ pc' = "decode" /\ at' = at + chunk /\ placed' = 0 /\ saved' = Unsaved
        /\ UNCHANGED <<turn, batch, chunk>>
    BY <1>4 DEF NextChunk
  <2>2. at' \in Nat /\ placed' \in 0 .. Batch
    BY <1>2, <2>1
  <2>3. TypeOK'
    BY <1>1, <2>1, <2>2, UnsavedIs DEF RInv, TypeOK, server, reuseVars
  <2>4. Pending' \subseteq Pending
    <3>1. Chunk = chunk
      <4>1. PICK c \in Int, rest \in Int : c = chunk /\ rest = Len(batch) - at
        <5>1. chunk \in Int /\ Len(batch) - at \in Int
          BY <1>2
        <5> QED
          BY <5>1
      <4>2. Chunk = IF c <= rest THEN c ELSE rest
        BY <4>1, MinOfTwo DEF Chunk
      <4> QED
        BY <1>2, <1>4, <4>1, <4>2
    <3> QED
      BY <1>1, <1>2, <2>1, <3>1 DEF Pending
  <2>5. RoundOK'
    <3>1. PICK rest \in Int : rest = Len(batch) - at' /\ rest > 0
      <4>1. Len(batch) - at' \in Int /\ Len(batch) - at' > 0
        BY <1>2, <1>4, <2>1, <2>2
      <4> QED
        BY <4>1
    <3>2. PICK c \in Int : c = chunk' /\ c > 0
      BY <1>2, <2>1
    <3>3. Chunk' = IF c <= rest THEN c ELSE rest
      <4>1. Chunk' = Min({c, rest})
        BY <2>1, <3>1, <3>2 DEF Chunk
      <4> QED
        BY <3>1, <3>2, <4>1, MinOfTwo
    <3>4. 0 < Chunk'
      BY <3>1, <3>2, <3>3
    <3>5. at' < Len(batch')
      BY <1>4, <2>1
    <3> QED
      BY <2>1, <3>4, <3>5 DEF RoundOK
  <2> QED
    BY <1>1, <1>3, <2>1, <2>3, <2>4, <2>5, RestingNone
<1>5. CASE ~(at + chunk < Len(batch))
  <2>1. pc' = "tasks" /\ turn' = 1 /\ batch' = <<>> /\ at' = 0 /\ chunk' = Batch
        /\ placed' = 0 /\ saved' = Unsaved
    BY <1>5 DEF NextChunk, EndRound
  <2>2. turn' \in Slots /\ chunk' \in 1 .. Batch /\ placed' \in 0 .. Batch
    BY <2>1, Options DEF Slots
  <2>3. batch' \in Seq([seq : Slots, pos : Nat, tok : Nat]) /\ Len(batch') = 0
    BY <2>1, EmptySeq
  <2>4. TypeOK'
    BY <1>1, <2>1, <2>2, <2>3, UnsavedIs DEF RInv, TypeOK, server, reuseVars
  <2>5. Pending' = {}
    BY <2>3 DEF Pending
  <2>6. RoundOK'
    BY <2>1 DEF RoundOK
  <2> QED
    BY <1>1, <1>3, <2>1, <2>4, <2>5, <2>6, RestingNone
<1> QED
  BY <1>4, <1>5

(* A slot whose logits have been computed has no token pending. *)
LEMMA SampledIs ==
  ASSUME RInv, pc = "sample", Sampling # {}, NEW s, s = Min(Sampling)
  PROVE  /\ s \in Slots /\ slot[s].state \in {"done", "gen"} /\ s \in Sampling
         /\ \A j \in Pending : batch[j].seq # s
<1>1. Sampling \in SUBSET Slots /\ Slots \in SUBSET Nat /\ IsFiniteSet(Slots)
  <2>1. Slots = 1 .. NSlots /\ Slots \in SUBSET Nat /\ 1 \in Int /\ NSlots \in Int
    BY SlotsAre, Options
  <2>2. IsFiniteSet(Slots)
    BY <2>1, FS_Interval
  <2> QED
    BY <2>1, <2>2 DEF Sampling
<1>2. IsFiniteSet(Sampling) /\ Sampling \in SUBSET Nat
  <2>1. IsFiniteSet(Sampling)
    BY <1>1, FS_Subset
  <2> QED
    BY <1>1, <2>1
<1>3. s \in Sampling
  BY <1>2, MinIs
<1>4. s \in Slots /\ slot[s].state \in {"done", "gen"} /\ slot[s].iBatch \in at .. at + Chunk - 1
  BY <1>3 DEF Sampling
<1>5. ASSUME NEW j \in Pending, batch[j].seq = s
      PROVE  FALSE
  <2>1. j <= slot[s].iBatch + 1
    BY <1>4, <1>5 DEF RInv, BatchOK, TokenOK
  <2>2. j \in Nat /\ at \in Nat /\ Chunk \in Int /\ j > at + Chunk
    BY Typed, ChunkIs DEF RInv, Pending
  <2> QED
    BY <1>4, <2>1, <2>2
<1> QED
  BY <1>3, <1>4, <1>5

LEMMA SampleTokenKeeps == ASSUME NEW s \in Slots, RInv, SampleToken(s) PROVE RInv'
<1>1. /\ pc = "sample" /\ Sampling # {} /\ s = Min(Sampling)
      /\ UNCHANGED <<pc, turn, server, kv, reuseVars, batch, decodeVars, text>>
  BY DEF SampleToken
<1>2. slot[s].state \in {"done", "gen"} /\ \A j \in Pending : batch[j].seq # s
  BY <1>1, SampledIs
<1>3. PICK tok \in Vocab :
        slot' = [slot EXCEPT ![s].state = "gen", ![s].sampled = tok, ![s].iBatch = -1]
  BY DEF SampleToken
<1>4. slot[s] \in SlotRec /\ slot \in [Slots -> SlotRec]
  BY Typed DEF RInv
<1>5. PICK r : r = [slot[s] EXCEPT !.state = "gen", !.sampled = tok, !.iBatch = -1]
  OBVIOUS
<1>6. /\ r \in SlotRec /\ r.state = "gen" /\ r.nPast = slot[s].nPast /\ r.cached = slot[s].cached
      /\ r.discard = slot[s].discard /\ r.keep = slot[s].keep /\ r.caching = slot[s].caching
  <2>1. tok \in Nat /\ -1 \in Int
    BY <1>3, Options
  <2>2. PICK q \in SlotRec : q = slot[s]
    BY <1>4
  <2>3. r = [q EXCEPT !.state = "gen", !.sampled = tok, !.iBatch = -1]
    BY <1>5, <2>2
  <2>4. /\ r \in SlotRec /\ r.state = "gen" /\ r.nPast = q.nPast /\ r.cached = q.cached
        /\ r.discard = q.discard /\ r.keep = q.keep /\ r.caching = q.caching
    BY <2>1, <2>3 DEF SlotRec
  <2> QED
    BY <2>2, <2>4
<1>7. slot' = [slot EXCEPT ![s] = r]
  BY <1>3, <1>4, <1>5
<1>8. /\ slot' \in [Slots -> SlotRec] /\ slot'[s] = r
      /\ \A t \in Slots : t # s => slot'[t] = slot[t]
  BY <1>4, <1>6, <1>7, SlotsAfter
<1>9. TypeOK'
  BY <1>1, <1>8 DEF RInv, TypeOK, SlotRec, server, reuseVars, decodeVars
<1>10. \A t \in Slots : ~Shifted(t)' /\ (Active(t)' <=> Active(t))
  BY <1>1, <1>2, <1>6, <1>8 DEF Active, Working, Shifted
<1>11. ASSUME NEW t \in Slots
       PROVE  SlotOK(t)' /\ TextOK(t)'
  <2>1. SlotOK(t) /\ TextOK(t) /\ text'[t] = text[t]
    BY <1>1 DEF RInv
  <2>2. CASE t = s
    <3>1. Working(s) /\ Active(s)
      BY <1>1, <1>2 DEF Working, Active
    <3> QED
      BY <1>6, <1>8, <1>10, <2>1, <2>2, <3>1 DEF SlotOK, TextOK, Working
  <2>3. CASE t # s
    BY <1>8, <1>10, <2>1, <2>3, SlotStays
  <2> QED
    BY <2>2, <2>3
<1>12. batch' = batch /\ Chunk' = Chunk /\ Pending' \subseteq Pending
  BY <1>1, SameBatch DEF decodeVars
<1>13. BatchOK'
  <2>1. \A t \in Slots : \/ slot'[t] = slot[t] /\ text'[t] = text[t] /\ (Active(t) => Active(t)')
                         \/ \A j \in Pending' : batch[j].seq # t
    BY <1>1, <1>2, <1>8, <1>10, <1>12
  <2>2. \A j \in Pending' : TokenOK(j)'
    BY <1>9, <1>12, <2>1, TokensStay DEF RInv
  <2> QED
    BY <2>2 DEF BatchOK
<1>14. RoundOK' /\ ReuseOK'
  BY <1>1, <1>12 DEF RInv, RoundOK, ReuseOK, decodeVars
<1>15. CellsOK'
  BY <1>1, <1>10 DEF RInv, CellsOK
<1> QED
  BY <1>9, <1>11, <1>13, <1>14, <1>15 DEF RInv

LEMMA SampleLastKeeps == ASSUME NEW s \in Slots, RInv, SampleLast(s) PROVE RInv'
<1>1. /\ pc = "sample" /\ Sampling # {} /\ s = Min(Sampling)
      /\ UNCHANGED <<pc, turn, server, kv, reuseVars, batch, decodeVars>>
      /\ slot' = [slot EXCEPT ![s] = [Released(@) EXCEPT !.iBatch = -1]]
      /\ text' = [text EXCEPT ![s] = <<>>]
  BY DEF SampleLast
<1>2. \A j \in Pending : batch[j].seq # s
  BY <1>1, SampledIs
<1>3. slot[s] \in SlotRec /\ slot \in [Slots -> SlotRec] /\ text \in [Slots -> Seq(Nat)]
  BY Typed DEF RInv
<1>4. PICK r, q : q = Released(slot[s]) /\ r = [q EXCEPT !.iBatch = -1]
  OBVIOUS
<1>5. /\ r \in SlotRec /\ r.state = "idle" /\ r.nPast = 0 /\ r.discard = 0
      /\ r.cached = slot[s].cached
  <2>1. /\ q \in SlotRec /\ q.state = "idle" /\ q.nPast = 0 /\ q.discard = 0
        /\ q.cached = slot[s].cached
    BY <1>3, <1>4, ReleasedIs
  <2> QED
    BY <1>4, <2>1, SMTT(60) DEF SlotRec
<1>6. slot' = [slot EXCEPT ![s] = r]
  BY <1>1, <1>3, <1>4
<1>7. /\ slot' \in [Slots -> SlotRec] /\ slot'[s] = r
      /\ \A t \in Slots : t # s => slot'[t] = slot[t]
  BY <1>3, <1>5, <1>6, SlotsAfter
<1>8. text' \in [Slots -> Seq(Nat)] /\ \A t \in Slots : t # s => text'[t] = text[t]
  <2>1. PICK none : none = <<>> /\ none \in Seq(Nat)
    BY EmptySeq
  <2>2. text' = [text EXCEPT ![s] = none]
    BY <1>1, <2>1
  <2> QED
    BY <1>3, <2>1, <2>2
<1>9. TypeOK'
  <2>1. UNCHANGED <<pc, turn, launched, ctxShift, clean, kv, hc, hp, batch, at, chunk, placed, saved>>
    BY <1>1 DEF server, reuseVars, decodeVars
  <2> QED
    BY <1>7, <1>8, <2>1 DEF RInv, TypeOK, SlotRec
<1>10. batch' = batch /\ Chunk' = Chunk /\ Pending' \subseteq Pending
  BY <1>1, SameBatch DEF decodeVars
<1>11. RoundOK' /\ pc # "reuse" /\ pc' # "reuse" /\ \A t \in Slots : ~Shifted(t)'
  BY <1>1, <1>10 DEF RInv, RoundOK, decodeVars, Shifted
<1>12. slot'[s].state \in {"idle", "started"} /\ slot'[s].nPast = 0
       /\ slot'[s].discard \in 0 .. 2 /\ slot'[s].cached = slot[s].cached
  BY <1>5, <1>7
<1>13. \A i \in Cells : kv'.cells[i] \in {KV!Free, kv.cells[i]}
  BY <1>1
<1>14. \A j \in Pending' : batch[j].seq # s
  BY <1>2, <1>10
<1> QED
  BY <1>7, <1>8, <1>9, <1>10, <1>11, <1>12, <1>13, <1>14, RestingOne

(* The token sampled in the last round goes into the batch. *)
LEMMA AddSampledKeeps == ASSUME NEW s \in Slots, RInv, AddSampled(s) PROVE RInv'
<1>1. /\ pc = "gen" /\ turn = s /\ slot[s].state = "gen" /\ Turn("gen", "prompts")
      /\ UNCHANGED <<server, kv, reuseVars, decodeVars>>
  BY DEF AddSampled
<1>2. slot[s] \in SlotRec /\ slot \in [Slots -> SlotRec] /\ text \in [Slots -> Seq(Nat)]
      /\ batch \in Seq([seq : Slots, pos : Nat, tok : Nat]) /\ Len(batch) \in Nat /\ turn \in Slots
  BY Typed DEF RInv
<1>3. /\ turn' \in Slots /\ pc' \in {"gen", "prompts"}
      /\ \/ turn' = turn + 1 /\ pc' = "gen"
         \/ turn = NSlots /\ turn' = 1 /\ pc' = "prompts"
  BY <1>1, <1>2, TurnIs
<1>4. PICK tok \in Nat, pos \in Nat, old \in Seq(Nat), oldText \in Seq(Nat), n \in Nat :
        /\ tok = slot[s].sampled /\ pos = slot[s].nPast /\ old = slot[s].cached
        /\ oldText = text[s] /\ n = Len(batch)
  BY <1>2, SlotTyped
<1>5. /\ Working(s) /\ Active(s) /\ pos + 1 < Ctx /\ Len(oldText) = pos
      /\ slot[s].caching => Len(old) = pos
      /\ Len(old) <= Ctx /\ Ctx \in Nat
  <2>1. Working(s) /\ Active(s) /\ Shifted(s)
    BY <1>1, <1>2, SlotsAre DEF Working, Active, Shifted
  <2> QED
    BY <1>4, <2>1, Options DEF RInv, SlotOK, TextOK
<1>6. PICK cached : cached = IF slot[s].caching THEN Append(old, tok) ELSE old
  OBVIOUS
<1>7. /\ cached \in Seq(Nat) /\ Len(cached) \in Nat /\ Len(cached) <= Ctx
      /\ slot[s].caching => Len(cached) = pos + 1
  <2>1. Append(old, tok) \in Seq(Nat) /\ Len(Append(old, tok)) = Len(old) + 1
    BY AppendProperties
  <2>2. Len(old) \in Nat
    BY LenProperties
  <2> QED
    BY <1>4, <1>5, <1>6, <2>1, <2>2
<1>8. PICK r : r = [slot[s] EXCEPT !.iBatch = n, !.nPast = pos + 1, !.cached = cached]
  OBVIOUS
<1>9. /\ r \in SlotRec /\ r.state = "gen" /\ r.nPast = pos + 1 /\ r.cached = cached
      /\ r.discard = slot[s].discard /\ r.keep = slot[s].keep /\ r.caching = slot[s].caching
      /\ r.iBatch = n
  <2>1. pos + 1 \in 0 .. Ctx /\ n \in Int
    BY <1>4, <1>5
  <2> QED
    BY <1>1, <1>2, <1>7, <1>8, <2>1 DEF SlotRec
<1>10. slot' = [slot EXCEPT ![s] = r]
  <2>1. slot' = [slot EXCEPT ![s].iBatch = n, ![s].nPast = @ + 1,
                             ![s].cached = IF slot[s].caching THEN Append(@, slot[s].sampled) ELSE @]
    BY <1>4 DEF AddSampled
  <2> QED
    BY <1>2, <1>4, <1>6, <1>8, <2>1
<1>11. /\ slot' \in [Slots -> SlotRec] /\ slot'[s] = r
       /\ \A t \in Slots : t # s => slot'[t] = slot[t]
  BY <1>2, <1>9, <1>10, SlotsAfter
<1>12. /\ text' \in [Slots -> Seq(Nat)] /\ \A t \in Slots : t # s => text'[t] = text[t]
       /\ Len(text'[s]) = pos + 1 /\ text'[s][pos + 1] = tok
       /\ \A k \in 1 .. pos : text'[s][k] = text[s][k]
  <2>1. PICK new : new = Append(oldText, tok)
    OBVIOUS
  <2>2. /\ new \in Seq(Nat) /\ Len(new) = pos + 1 /\ new[pos + 1] = tok
        /\ \A k \in 1 .. pos : new[k] = oldText[k]
    BY <1>5, <2>1, AppendProperties
  <2>3. text' = [text EXCEPT ![s] = new]
    BY <1>2, <1>4, <2>1 DEF AddSampled
  <2> QED
    BY <1>2, <1>4, <2>2, <2>3
<1>23. PICK new : /\ new = text'[s] /\ Len(new) = pos + 1 /\ new[pos + 1] = tok
                  /\ \A k \in 1 .. pos : new[k] = oldText[k]
  BY <1>4, <1>12
<1>13. PICK e \in [seq : Slots, pos : Nat, tok : Nat] : e = [seq |-> s, pos |-> pos, tok |-> tok]
  OBVIOUS
<1>14. /\ batch' \in Seq([seq : Slots, pos : Nat, tok : Nat]) /\ Len(batch') = n + 1
       /\ batch'[n + 1] = e /\ \A j \in 1 .. n : batch'[j] = batch[j]
  <2>1. batch' = Append(batch, e)
    BY <1>4, <1>13 DEF AddSampled
  <2> QED
    BY <1>2, <1>4, <2>1, AppendProperties
<1>15. TypeOK'
  <2>1. UNCHANGED <<launched, ctxShift, clean, kv, hc, hp, at, chunk, placed, saved>>
    BY <1>1 DEF server, reuseVars, decodeVars
  <2> QED
    BY <1>3, <1>11, <1>12, <1>14, <2>1 DEF RInv, TypeOK, SlotRec
<1>16. \A t \in Slots : Active(t)' <=> Active(t)
  BY <1>1, <1>3, <1>9, <1>11 DEF Active, Working
<1>17. \A t \in Slots : Shifted(t)' => t # s /\ slot[t].nPast + 1 < Ctx
  BY <1>1, <1>3, ShiftedGen DEF RInv
<1>18. ASSUME NEW t \in Slots
       PROVE  SlotOK(t)' /\ TextOK(t)'
  <2>1. SlotOK(t) /\ TextOK(t)
    BY DEF RInv
  <2>2. CASE t = s
    <3>1. Working(s)'
      BY <1>9, <1>11 DEF Working
    <3>2. SlotOK(s)'
      BY <1>5, <1>7, <1>9, <1>11, <1>17, <2>1, <2>2, <3>1 DEF SlotOK
    <3>3. TextOK(s)'
      BY <1>7, <1>9, <1>11, <1>12 DEF TextOK
    <3> QED
      BY <2>2, <3>2, <3>3
  <2>3. CASE t # s
    BY <1>11, <1>12, <1>16, <1>17, <2>1, <2>3, SlotStays
  <2> QED
    BY <2>2, <2>3
<1>19. at = 0 /\ placed = 0
  BY <1>1 DEF RInv, RoundOK
<1>20. ASSUME NEW j \in Pending'
       PROVE  TokenOK(j)'
  <2>1. j \in 1 .. n + 1
    BY <1>14 DEF Pending
  <2>2. CASE j = n + 1
    <3>1. PICK t \in Slots, p \in Nat, u \in Nat :
            /\ t = batch'[j].seq /\ p = batch'[j].pos /\ u = batch'[j].tok
            /\ t = s /\ p = pos /\ u = tok
      BY <1>13, <1>14, <2>2
    <3>2. Active(t)' /\ slot'[t].iBatch = n /\ p < Len(text'[t]) /\ j <= n + 1
      BY <1>4, <1>5, <1>9, <1>11, <1>16, <1>23, <2>2, <3>1
    <3>3. u = text'[t][p + 1]
      BY <1>23, <3>1
    <3> QED
      BY <3>1, <3>2, <3>3 DEF TokenOK
  <2>3. CASE j # n + 1
    <3>1. j \in 1 .. n /\ batch'[j] = batch[j]
      <4>1. \A k \in 1 .. n + 1 : k # n + 1 => k \in 1 .. n
        BY <1>4
      <4>2. j \in 1 .. n
        BY <2>1, <2>3, <4>1
      <4> QED
        BY <1>14, <4>2
    <3>2. j \in Pending
      BY <1>1, <1>4, <1>19, <3>1 DEF Pending
    <3>3. TokenOK(j)
      BY <3>2 DEF RInv, BatchOK
    <3>4. batch[j] \in [seq : Slots, pos : Nat, tok : Nat]
      BY <1>2, <1>4, <3>1, ElementOfSeq
    <3>5. PICK t \in Slots, p \in Nat : t = batch[j].seq /\ p = batch[j].pos
      BY <3>4
    <3>6. CASE t = s
      <4>1. p < pos /\ batch[j].tok = text[s][p + 1]
        BY <1>4, <1>5, <3>3, <3>5, <3>6 DEF TokenOK
      <4>2. p + 1 \in 1 .. pos /\ p < pos + 1
        BY <1>4, <3>5, <4>1, SMTT(60)
      <4>5. text'[s][p + 1] = text[s][p + 1] /\ p < Len(text'[s])
        BY <1>4, <1>23, <4>2
      <4>3. j <= n + 1
        BY <1>4, <3>1
      <4> QED
        BY <1>5, <1>9, <1>11, <1>16, <3>1, <3>5, <3>6, <4>1, <4>3, <4>5 DEF TokenOK
    <3>7. CASE t # s
      <4>1. (Active(t)' <=> Active(t)) /\ text'[t] = text[t] /\ slot'[t] = slot[t]
        BY <1>11, <1>12, <1>16, <3>5, <3>7
      <4> QED
        BY ONLY <3>1, <3>3, <3>5, <4>1 DEF TokenOK
    <3> QED
      BY <3>6, <3>7
  <2> QED
    BY <2>2, <2>3
<1>21. RoundOK' /\ ReuseOK'
  BY <1>1, <1>3, <1>19 DEF RoundOK, ReuseOK, decodeVars
<1>22. CellsOK'
  <2>1. ASSUME NEW i \in Cells, NEW t \in Slots, kv'.cells[i].seq = t
        PROVE  kv'.cells[i].pos < Ctx /\ (Active(t)' => kv'.cells[i].pos < Len(text'[t]))
    <3>1. kv.cells[i].pos < Ctx /\ (Active(t) => kv.cells[i].pos < Len(text[t]))
      BY <1>1, <2>1 DEF RInv, CellsOK
    <3>2. CASE t # s
      BY <1>1, <1>12, <1>16, <3>1, <3>2
    <3>3. CASE t = s
      <4>1. kv.cells[i].pos \in Int
        BY Typed, CachesAre, CellTyped DEF RInv
      <4>2. kv.cells[i].pos < pos
        BY <1>4, <1>5, <3>1, <3>3
      <4>3. kv.cells[i].pos < Len(text'[s])
        BY <1>4, <1>23, <4>1, <4>2
      <4> QED
        BY <1>1, <3>1, <3>3, <4>3
    <3> QED
      BY <3>2, <3>3
  <2> QED
    BY <2>1 DEF CellsOK
<1> QED
  BY <1>15, <1>18, <1>20, <1>21, <1>22 DEF RInv, BatchOK
-----------------------------------------------------------------------------
(***************************************************************************)
(* The prompts.                                                            *)
(***************************************************************************)
(* A new prompt begins. *)
LEMMA StartPromptIs ==
  ASSUME NEW s \in Slots, RInv, StartPrompt(s)
  PROVE  \E prompt \in Seq(Nat), keep \in 0 .. Ctx - 4, common \in Nat, r \in SlotRec :
           /\ Len(prompt) \in 1 .. Ctx - 1
           /\ common <= Len(prompt) /\ common <= Len(slot[s].cached)
           /\ ~slot[s].caching => common = 0
           /\ \A i \in 1 .. common : slot[s].cached[i] = prompt[i]
           /\ \A i \in 1 .. Len(prompt) :
                \E j \in 1 .. Len(slot[s].prompt) : prompt[i] = slot[s].prompt[j]
           /\ r.state = "prompt" /\ r.prompt = prompt /\ r.keep = keep /\ r.nPast = common
           /\ r.cached = slot[s].cached /\ r.caching = slot[s].caching
           /\ r.discard = slot[s].discard /\ r.iBatch = slot[s].iBatch
           /\ slot' \in [Slots -> SlotRec] /\ slot'[s] = r
           /\ \A t \in Slots : t # s => slot'[t] = slot[t]
           /\ hc' = common /\ hp' = common
<1> DEFINE old    == slot[s].prompt
           keep   == Min({Ctx - 4, IF slot[s].keep < 0 THEN Len(old) ELSE slot[s].keep})
           prompt == Truncated(old, keep)
           common == IF slot[s].caching THEN Lcp(slot[s].cached, prompt) ELSE 0
           r      == [slot[s] EXCEPT !.state = "prompt", !.prompt = prompt,
                                     !.keep = keep, !.nPast = common]
<1>1. slot' = [slot EXCEPT ![s].state = "prompt", ![s].prompt = prompt,
                           ![s].keep = keep, ![s].nPast = common]
      /\ hc' = common /\ hp' = common /\ old # <<>> /\ pc = "prompts"
  BY DEF StartPrompt
<1>2. slot[s] \in SlotRec /\ slot \in [Slots -> SlotRec]
  BY Typed DEF RInv
<1>3. /\ old \in Seq(Nat) /\ Len(old) \in Nat /\ slot[s].keep \in Int /\ slot[s].cached \in Seq(Nat)
      /\ slot[s].caching \in BOOLEAN /\ Len(slot[s].cached) \in Nat
      /\ Len(slot[s].cached) <= Ctx /\ Ctx \in Nat /\ Ctx >= 4
  BY <1>2, SlotTyped, Options DEF RInv, SlotOK
<1>4. keep \in 0 .. Ctx - 4
  <2>1. PICK a \in Int, b \in Int : a = Ctx - 4 /\ b = IF slot[s].keep < 0 THEN Len(old) ELSE slot[s].keep
    <3>1. Ctx - 4 \in Int /\ (IF slot[s].keep < 0 THEN Len(old) ELSE slot[s].keep) \in Int
      BY <1>3
    <3> QED
      BY <3>1
  <2>2. a >= 0 /\ b >= 0
    BY <1>3, <2>1
  <2>3. Min({a, b}) = IF a <= b THEN a ELSE b
    BY <2>1, MinOfTwo
  <2>4. keep = Min({a, b})
    BY <2>1
  <2> HIDE DEF keep
  <2> QED
    BY <2>1, <2>2, <2>3, <2>4
<1> HIDE DEF keep
<1>5. /\ prompt \in Seq(Nat) /\ Len(prompt) \in 1 .. Ctx - 1
      /\ \A i \in 1 .. Len(prompt) : \E j \in 1 .. Len(old) : prompt[i] = old[j]
  <2>1. PICK o \in Seq(Nat) : o = old /\ o # <<>>
    BY <1>1, <1>3
  <2>2. PICK t : t = Truncated(o, keep)
    OBVIOUS
  <2>3. /\ t \in Seq(Nat) /\ Len(t) \in 1 .. Ctx - 1
        /\ \A i \in 1 .. Len(t) : \E j \in 1 .. Len(o) : t[i] = o[j]
    BY <1>4, <2>1, <2>2, TruncatedIs, ZenonT(30)
  <2> QED
    BY <2>1, <2>2, <2>3
<1> HIDE DEF prompt
<1>6. /\ common \in Nat /\ common <= Len(prompt) /\ common <= Len(slot[s].cached)
      /\ (~slot[s].caching => common = 0)
      /\ \A i \in 1 .. common : slot[s].cached[i] = prompt[i]
  <2>1. PICK a \in Seq(Nat), b \in Seq(Nat) : a = slot[s].cached /\ b = prompt
    BY <1>3, <1>5
  <2>2. /\ Lcp(a, b) \in Nat /\ Lcp(a, b) <= Len(a) /\ Lcp(a, b) <= Len(b)
        /\ \A i \in 1 .. Lcp(a, b) : a[i] = b[i]
    BY LcpIs
  <2>3. common = IF slot[s].caching THEN Lcp(a, b) ELSE 0
    BY <2>1
  <2> HIDE DEF common
  <2>4. 0 <= Len(prompt) /\ 0 <= Len(slot[s].cached) /\ 1 .. 0 = {}
    BY <1>3, <1>5
  <2>5. CASE slot[s].caching
    BY <2>1, <2>2, <2>3, <2>5
  <2>6. CASE ~slot[s].caching
    BY <2>3, <2>4, <2>6
  <2> QED
    BY <2>5, <2>6
<1> HIDE DEF common
<1>7. common \in 0 .. Ctx
  BY <1>3, <1>5, <1>6
<1>8. /\ r \in SlotRec
      /\ r.state = "prompt" /\ r.prompt = prompt /\ r.keep = keep /\ r.nPast = common
      /\ r.cached = slot[s].cached /\ r.caching = slot[s].caching
      /\ r.discard = slot[s].discard /\ r.iBatch = slot[s].iBatch
  <2>1. PICK q \in SlotRec : q = slot[s]
    BY <1>2
  <2>2. keep \in Int
    BY <1>4
  <2>3. PICK n : n = [q EXCEPT !.state = "prompt", !.prompt = prompt, !.keep = keep, !.nPast = common]
    OBVIOUS
  <2>4. /\ n \in SlotRec
        /\ n.state = "prompt" /\ n.prompt = prompt /\ n.keep = keep /\ n.nPast = common
        /\ n.cached = q.cached /\ n.caching = q.caching
        /\ n.discard = q.discard /\ n.iBatch = q.iBatch
    BY <1>5, <1>7, <2>2, <2>3 DEF SlotRec
  <2> QED
    BY <2>1, <2>3, <2>4
<1>9. slot' = [slot EXCEPT ![s] = r]
  BY <1>1, <1>2
<1> HIDE DEF r
<1>10. /\ slot' \in [Slots -> SlotRec] /\ slot'[s] = r
       /\ \A t \in Slots : t # s => slot'[t] = slot[t]
  BY <1>2, <1>8, <1>9, SlotsAfter
<1>11. PICK p \in Seq(Nat), k \in 0 .. Ctx - 4, c \in Nat, n \in SlotRec :
         p = prompt /\ k = keep /\ c = common /\ n = r
  BY <1>4, <1>5, <1>6, <1>8
<1>12. hc' = c /\ hp' = c
  BY <1>1, <1>11
<1>13. /\ Len(p) \in 1 .. Ctx - 1
       /\ c <= Len(p) /\ c <= Len(slot[s].cached)
       /\ ~slot[s].caching => c = 0
       /\ \A i \in 1 .. c : slot[s].cached[i] = p[i]
       /\ \A i \in 1 .. Len(p) : \E j \in 1 .. Len(slot[s].prompt) : p[i] = slot[s].prompt[j]
  BY <1>5, <1>6, <1>11
<1>14. /\ n.state = "prompt" /\ n.prompt = p /\ n.keep = k /\ n.nPast = c
       /\ n.cached = slot[s].cached /\ n.caching = slot[s].caching
       /\ n.discard = slot[s].discard /\ n.iBatch = slot[s].iBatch
       /\ slot' \in [Slots -> SlotRec] /\ slot'[s] = n
       /\ \A t \in Slots : t # s => slot'[t] = slot[t]
  BY <1>8, <1>10, <1>11
<1> QED
  BY <1>12, <1>13, <1>14

LEMMA StartPromptKeeps == ASSUME NEW s \in Slots, RInv, StartPrompt(s) PROVE RInv'
<1>1. /\ pc = "prompts" /\ turn = s /\ slot[s].state = "started" /\ pc' = "reuse"
      /\ UNCHANGED <<turn, server, kv, batch, decodeVars, text>>
  BY DEF StartPrompt
<1>2. PICK prompt \in Seq(Nat), keep \in 0 .. Ctx - 4, common \in Nat, r \in SlotRec :
        /\ Len(prompt) \in 1 .. Ctx - 1
        /\ common <= Len(prompt) /\ common <= Len(slot[s].cached)
        /\ r.state = "prompt" /\ r.prompt = prompt /\ r.keep = keep /\ r.nPast = common
        /\ r.cached = slot[s].cached /\ r.discard = slot[s].discard
        /\ slot' \in [Slots -> SlotRec] /\ slot'[s] = r
        /\ \A t \in Slots : t # s => slot'[t] = slot[t]
        /\ hc' = common /\ hp' = common
  BY StartPromptIs, SMTT(60)
<1>3. Ctx \in Nat /\ Ctx >= 4 /\ Len(slot[s].cached) <= Ctx /\ slot[s].discard \in 0 .. 2
      /\ Len(slot[s].cached) \in Nat
  <2>1. slot[s] \in SlotRec
    BY Typed DEF RInv
  <2> QED
    BY <2>1, SlotTyped, Options DEF RInv, SlotOK
<1>4. TypeOK'
  <2>1. hc' \in 0 .. Ctx /\ hp' \in 0 .. hc'
    BY <1>2, <1>3
  <2>2. UNCHANGED <<turn, launched, ctxShift, clean, kv, batch, at, chunk, placed, saved, text>>
    BY <1>1 DEF server, decodeVars
  <2> QED
    BY <1>1, <1>2, <2>1, <2>2 DEF RInv, TypeOK, SlotRec
<1>5. \A t \in Slots : ~Shifted(t)' /\ (Active(t)' <=> Active(t)) /\ (t = s => ~Active(t))
  BY <1>1, <1>2 DEF Active, Working, Shifted
<1>6. ASSUME NEW t \in Slots
      PROVE  SlotOK(t)' /\ TextOK(t)'
  <2>1. CASE t = s
    <3>1. Working(s)' /\ common < Ctx /\ Len(prompt) > 0 /\ Len(prompt) < Ctx
      BY <1>2, <1>3 DEF Working
    <3>2. SlotOK(s)'
      BY <1>2, <1>3, <1>5, <3>1 DEF SlotOK
    <3> QED
      BY <1>5, <2>1, <3>2 DEF TextOK
  <2>2. CASE t # s
    <3>1. SlotOK(t) /\ TextOK(t)
      BY DEF RInv
    <3> QED
      BY <1>1, <1>2, <1>5, <2>2, <3>1, SlotStays
  <2> QED
    BY <2>1, <2>2
<1>7. batch' = batch /\ Pending' \subseteq Pending
  BY <1>1, SameBatch DEF decodeVars
<1>8. BatchOK'
  <2>1. \A j \in Pending : batch[j].seq # s
    BY <1>5 DEF RInv, BatchOK, TokenOK
  <2>2. \A t \in Slots : \/ slot'[t] = slot[t] /\ text'[t] = text[t] /\ (Active(t) => Active(t)')
                         \/ \A j \in Pending' : batch[j].seq # t
    BY <1>1, <1>2, <1>5, <1>7, <2>1
  <2>3. \A j \in Pending' : TokenOK(j)'
    BY <1>4, <1>7, <2>2, TokensStay DEF RInv
  <2> QED
    BY <2>3 DEF BatchOK
<1>9. RoundOK'
  BY <1>1 DEF RInv, RoundOK, decodeVars
<1>10. ReuseOK'
  BY <1>1, <1>2 DEF ReuseOK
<1>11. CellsOK'
  BY <1>1, <1>5 DEF RInv, CellsOK
<1> QED
  BY <1>4, <1>6, <1>8, <1>9, <1>10, <1>11 DEF RInv

(* While chunks of cache_tokens are reused. *)
LEMMA ReusingIs ==
  ASSUME RInv, NEW s \in Slots, pc = "reuse", turn = s
  PROVE  /\ slot[s] \in SlotRec /\ slot[s].state = "prompt" /\ slot[s].prompt \in Seq(Nat)
         /\ slot[s].cached \in Seq(Nat) /\ Len(slot[s].cached) \in Nat /\ Len(slot[s].prompt) \in Nat
         /\ Len(slot[s].cached) <= Ctx /\ Len(slot[s].prompt) \in 1 .. Ctx - 1 /\ Ctx \in Nat
         /\ slot[s].nPast = hp /\ hp <= Len(slot[s].prompt) /\ hc <= Len(slot[s].cached)
         /\ hc \in Nat /\ hp \in Nat /\ hp <= hc
         /\ ~Active(s) /\ Working(s) /\ \A t \in Slots : t # s => (Active(t) <=> Working(t))
<1>1. slot[s] \in SlotRec /\ hc \in Nat /\ hp \in Nat /\ hp <= hc /\ Ctx \in Nat
  BY Typed, Options DEF RInv
<1>2. slot[s].state = "prompt" /\ slot[s].nPast = hp
      /\ hp <= Len(slot[s].prompt) /\ hc <= Len(slot[s].cached)
  BY DEF RInv, ReuseOK
<1>3. /\ slot[s].prompt \in Seq(Nat)
      /\ slot[s].cached \in Seq(Nat) /\ Len(slot[s].cached) \in Nat /\ Len(slot[s].prompt) \in Nat
  BY <1>1, SlotTyped
<1>4. Len(slot[s].cached) <= Ctx /\ Len(slot[s].prompt) \in 1 .. Ctx - 1
  BY <1>1, <1>2, <1>3 DEF RInv, SlotOK
<1>5. ~Active(s) /\ Working(s) /\ \A t \in Slots : t # s => (Active(t) <=> Working(t))
  BY <1>2 DEF Active, Working
<1> QED
  BY <1>1, <1>2, <1>3, <1>4, <1>5

(* How many tokens match at the heads. *)
LEMMA MatchingIs ==
  ASSUME RInv, NEW s \in Slots, Reusing(s)
  PROVE  /\ Matching(s) \in Nat /\ hc + Matching(s) <= Len(slot[s].cached)
         /\ hp + Matching(s) <= Len(slot[s].prompt)
         /\ \A i \in 1 .. Matching(s) : slot[s].cached[hc + i] = slot[s].prompt[hp + i]
<1>1. /\ slot[s].prompt \in Seq(Nat) /\ slot[s].cached \in Seq(Nat)
      /\ Len(slot[s].cached) \in Nat /\ Len(slot[s].prompt) \in Nat
      /\ hc < Len(slot[s].cached) /\ hp < Len(slot[s].prompt)
      /\ hc \in Nat /\ hp \in Nat
  BY ReusingIs DEF Reusing
<1>2. PICK a \in Seq(Nat), b \in Seq(Nat), la \in Nat, lb \in Nat :
        a = slot[s].cached /\ b = slot[s].prompt /\ la = Len(a) /\ lb = Len(b)
  BY <1>1
<1>3. PICK p, q : p = SubSeq(a, hc + 1, la) /\ q = SubSeq(b, hp + 1, lb)
  OBVIOUS
<1>4. p \in Seq(Nat) /\ Len(p) = la - hc /\ \A i \in 1 .. la - hc : p[i] = a[hc + i]
  <2>1. PICK m \in 1 .. la + 1 : m = hc + 1 /\ la \in m - 1 .. la
    <3>1. hc + 1 \in 1 .. la + 1 /\ la \in hc + 1 - 1 .. la
      BY <1>1, <1>2
    <3> QED
      BY <3>1
  <2>2. p \in Seq(Nat) /\ Len(p) = la + 1 - m /\ \A i \in 1 .. la + 1 - m : p[i] = a[m + i - 1]
    <3>1. SubSeq(a, m, la) \in Seq(Nat) /\ Len(SubSeq(a, m, la)) = la + 1 - m
          /\ \A i \in 1 .. la + 1 - m : SubSeq(a, m, la)[i] = a[m + i - 1]
      <4>1. m \in 1 .. Len(a) + 1 /\ la \in m - 1 .. Len(a)
        BY <1>2, <2>1
      <4> QED
        BY <4>1, PartIs
    <3> QED
      BY <1>3, <2>1, <3>1
  <2>3. la + 1 - m = la - hc /\ \A i \in Nat : m + i - 1 = hc + i
    BY <1>1, <2>1
  <2>4. \A i \in 1 .. la - hc : i \in Nat
    OBVIOUS
  <2> QED
    BY <2>2, <2>3, <2>4
<1>5. q \in Seq(Nat) /\ Len(q) = lb - hp /\ \A i \in 1 .. lb - hp : q[i] = b[hp + i]
  <2>1. PICK m \in 1 .. lb + 1 : m = hp + 1 /\ lb \in m - 1 .. lb
    <3>1. hp + 1 \in 1 .. lb + 1 /\ lb \in hp + 1 - 1 .. lb
      BY <1>1, <1>2
    <3> QED
      BY <3>1
  <2>2. q \in Seq(Nat) /\ Len(q) = lb + 1 - m /\ \A i \in 1 .. lb + 1 - m : q[i] = b[m + i - 1]
    <3>1. SubSeq(b, m, lb) \in Seq(Nat) /\ Len(SubSeq(b, m, lb)) = lb + 1 - m
          /\ \A i \in 1 .. lb + 1 - m : SubSeq(b, m, lb)[i] = b[m + i - 1]
      <4>1. m \in 1 .. Len(b) + 1 /\ lb \in m - 1 .. Len(b)
        BY <1>2, <2>1
      <4> QED
        BY <4>1, PartIs
    <3> QED
      BY <1>3, <2>1, <3>1
  <2>3. lb + 1 - m = lb - hp /\ \A i \in Nat : m + i - 1 = hp + i
    BY <1>1, <2>1
  <2>4. \A i \in 1 .. lb - hp : i \in Nat
    OBVIOUS
  <2> QED
    BY <2>2, <2>3, <2>4
<1>6. PICK n : n = Lcp(p, q)
  OBVIOUS
<1>7. n \in Nat /\ n <= Len(p) /\ n <= Len(q) /\ \A i \in 1 .. n : p[i] = q[i]
  BY <1>4, <1>5, <1>6, LcpIs
<1>8. Matching(s) = n
  BY <1>2, <1>3, <1>6 DEF Matching
<1>9. hc + n <= la /\ hp + n <= lb
  BY <1>1, <1>2, <1>4, <1>5, <1>7
<1>10. \A i \in 1 .. n : a[hc + i] = b[hp + i]
  <2> TAKE i \in 1 .. n
  <2>1. i \in 1 .. la - hc /\ i \in 1 .. lb - hp
    <3>1. la - hc \in Int /\ lb - hp \in Int /\ n <= la - hc /\ n <= lb - hp /\ n \in Int
      BY <1>1, <1>4, <1>5, <1>7
    <3> QED
      BY <3>1
  <2> QED
    BY <1>4, <1>5, <1>7, <2>1
<1> QED
  BY <1>2, <1>7, <1>8, <1>9, <1>10

LEMMA SkipCachedKeeps == ASSUME NEW s \in Slots, RInv, SkipCached(s) PROVE RInv'
<1>1. /\ pc = "reuse" /\ turn = s /\ hc' = hc + 1 /\ hc < Len(slot[s].cached)
      /\ UNCHANGED <<pc, turn, launched, ctxShift, clean, kv, slot, hp, batch, at, chunk, placed,
                     saved, text>>
  BY DEF SkipCached, Reusing, server, decodeVars
<1>2. /\ hc \in Nat /\ hp \in Nat /\ hp <= hc /\ Len(slot[s].cached) \in Nat
      /\ Len(slot[s].cached) <= Ctx /\ Ctx \in Nat
  BY <1>1, ReusingIs
<1>3. hc' \in 0 .. Ctx /\ hp' \in 0 .. hc' /\ hc' <= Len(slot[s].cached)
  BY <1>1, <1>2
<1>4. TypeOK'
  BY <1>1, <1>3 DEF RInv, TypeOK
<1>5. \A t \in Slots : SlotOK(t)' /\ TextOK(t)'
  BY <1>1 DEF RInv, SlotOK, TextOK, Working, Active, Shifted
<1>6. ReuseOK'
  BY <1>1, <1>3 DEF RInv, ReuseOK
<1>7. RoundOK' /\ CellsOK'
  BY <1>1 DEF RInv, RoundOK, CellsOK, Active, Working, Chunk
<1>8. BatchOK'
  <2>1. batch' = batch /\ Pending' \subseteq Pending
    BY <1>1, SameBatch
  <2>2. \A t \in Slots : \/ slot'[t] = slot[t] /\ text'[t] = text[t] /\ (Active(t) => Active(t)')
                         \/ \A j \in Pending' : batch[j].seq # t
    BY <1>1 DEF Active, Working
  <2>3. \A j \in Pending' : TokenOK(j)'
    BY <1>4, <2>1, <2>2, TokensStay DEF RInv
  <2> QED
    BY <2>3 DEF BatchOK
<1> QED
  BY <1>4, <1>5, <1>6, <1>7, <1>8 DEF RInv

(* Every cell of the sequence is before the position. *)
Below(cache, s, e) == \A i \in Cells : cache.cells[i].seq = s => cache.cells[i].pos < e

(* The cells of the sequence from position a on: those before b are freed, *)
(* and the others take their place.                                        *)
MovedDown(old, new, s, a, b) ==
  \A i \in Cells :
    IF old.cells[i].seq = s /\ old.cells[i].pos >= a
    THEN IF old.cells[i].pos < b THEN new.cells[i] = KV!Free
         ELSE /\ new.cells[i].seq = s /\ new.cells[i].tok = old.cells[i].tok
              /\ new.cells[i].pos = old.cells[i].pos - (b - a)
    ELSE new.cells[i] = old.cells[i]

(* Cells whose positions move down over a gap. *)
LEMMA MovedIs ==
  ASSUME NEW cache \in Caches, NEW s \in Slots, NEW a \in Nat, NEW b \in Nat, a <= b,
         NEW e \in Int, NEW d \in Int, d = a - b, e < 0 \/ Below(cache, s, e),
         NEW z, z = KV!SeqAdd(KV!SeqRm(cache, s, a, b), s, b, e, d)
  PROVE  z \in Caches /\ MovedDown(cache, z, s, a, b)
<1>1. PICK q : q = KV!SeqRm(cache, s, a, b)
  OBVIOUS
<1>2. /\ q \in Caches
      /\ \A i \in Cells :
           q.cells[i] = IF /\ cache.cells[i].seq = s
                           /\ cache.cells[i].pos >= a /\ (b < 0 \/ cache.cells[i].pos < b)
                        THEN KV!Free ELSE cache.cells[i]
  BY <1>1, SeqRmIs
<1>3. d <= 0
  OBVIOUS
<1>4. PICK r : r = KV!SeqAdd(q, s, b, e, d)
  OBVIOUS
<1>5. /\ r \in Caches
      /\ b = e => r = q
      /\ b # e =>
           \A i \in Cells :
             IF /\ q.cells[i].seq = s
                /\ q.cells[i].pos >= b /\ (e < 0 \/ q.cells[i].pos < e)
             THEN IF q.cells[i].pos + d < 0 THEN r.cells[i] = KV!Free
                  ELSE /\ r.cells[i].seq = s /\ r.cells[i].tok = q.cells[i].tok
                       /\ r.cells[i].pos = q.cells[i].pos + d
             ELSE r.cells[i] = q.cells[i]
  <2>1. q \in Caches /\ b \in Int /\ e \in Int /\ d \in Int
    BY <1>2
  <2> QED
    BY <1>4, <2>1, SeqAddIs
<1>6. ASSUME NEW i \in Cells
      PROVE  IF cache.cells[i].seq = s /\ cache.cells[i].pos >= a
             THEN IF cache.cells[i].pos < b THEN r.cells[i] = KV!Free
                  ELSE /\ r.cells[i].seq = s /\ r.cells[i].tok = cache.cells[i].tok
                       /\ r.cells[i].pos = cache.cells[i].pos - (b - a)
             ELSE r.cells[i] = cache.cells[i]
  <2>1. PICK c \in Cell : c = cache.cells[i]
    BY CachesAre
  <2>2. c.pos \in Int /\ (c.seq \in Slots => c \in [seq : Slots, pos : Nat, tok : Nat])
    BY CellTyped
  <2>3. KV!Free.seq # s
    BY CachesAre
  <2>4. CASE c.seq # s
    <3>1. q.cells[i] = c
      BY <1>2, <2>1, <2>4
    <3>2. r.cells[i] = c
      BY <1>5, <2>4, <3>1
    <3> QED
      BY <2>1, <2>4, <3>2
  <2>5. CASE c.seq = s /\ c.pos < a
    <3>1. q.cells[i] = c
      BY <1>2, <2>1, <2>2, <2>5
    <3>2. ~(c.pos >= b)
      BY <2>2, <2>5
    <3>3. r.cells[i] = c
      BY <1>5, <3>1, <3>2
    <3> QED
      BY <2>1, <2>2, <2>5, <3>3
  <2>6. CASE c.seq = s /\ c.pos >= a /\ c.pos < b
    <3>1. q.cells[i] = KV!Free
      BY <1>2, <2>1, <2>2, <2>6
    <3>2. r.cells[i] = KV!Free
      BY <1>5, <2>3, <3>1
    <3> QED
      BY <2>1, <2>6, <3>2
  <2>7. CASE c.seq = s /\ c.pos >= b
    <3>1. c.pos >= a /\ ~(c.pos < b) /\ c.pos \in Nat
      BY <2>2, <2>7
    <3>2. q.cells[i] = c
      BY <1>2, <2>1, <2>7, <3>1
    <3>3. e < 0 \/ c.pos < e
      BY <2>1, <2>7 DEF Below
    <3>4. b # e
      BY <2>2, <2>7, <3>1, <3>3
    <3>5. ~(c.pos + d < 0) /\ c.pos + d = c.pos - (b - a)
      BY <1>3, <2>7, <3>1
    <3>6. r.cells[i].seq = s /\ r.cells[i].tok = c.tok /\ r.cells[i].pos = c.pos + d
      BY <1>5, <2>7, <3>2, <3>3, <3>4, <3>5
    <3> QED
      BY <2>1, <2>7, <3>1, <3>5, <3>6
  <2>8. c.pos < a \/ (c.pos >= a /\ c.pos < b) \/ c.pos >= b
    BY <2>2
  <2> QED
    BY <2>4, <2>5, <2>6, <2>7, <2>8
<1> QED
  <2>1. r = z
    BY <1>1, <1>4
  <2> QED
    BY <1>5, <1>6, <2>1 DEF MovedDown

(* A chunk of cache_tokens is reused. *)
LEMMA ReuseChunkIs ==
  ASSUME RInv, NEW s \in Slots, ReuseChunk(s)
  PROVE  /\ kv' \in Caches
         /\ \A i \in Cells :
              IF kv.cells[i].seq = s /\ kv.cells[i].pos >= hp
              THEN IF kv.cells[i].pos < hc THEN kv'.cells[i] = KV!Free
                   ELSE /\ kv'.cells[i].seq = s /\ kv'.cells[i].tok = kv.cells[i].tok
                        /\ kv'.cells[i].pos = kv.cells[i].pos - (hc - hp)
              ELSE kv'.cells[i] = kv.cells[i]
         /\ \E n \in Nat, r \in SlotRec :
              /\ hc' = hc + n /\ hp' = hp + n /\ hc' <= Len(slot[s].cached)
              /\ hp' <= Len(slot[s].prompt)
              /\ r.state = "prompt" /\ r.prompt = slot[s].prompt /\ r.keep = slot[s].keep
              /\ r.nPast = hp' /\ r.caching = slot[s].caching /\ r.discard = slot[s].discard
              /\ r.iBatch = slot[s].iBatch /\ Len(r.cached) = Len(slot[s].cached)
              /\ slot' \in [Slots -> SlotRec] /\ slot'[s] = r
              /\ \A t \in Slots : t # s => slot'[t] = slot[t]
<1>1. pc = "reuse" /\ turn = s /\ Reusing(s)
  BY DEF ReuseChunk, Reusing
<1>2. /\ slot[s] \in SlotRec /\ slot[s].state = "prompt" /\ slot[s].cached \in Seq(Nat)
      /\ Len(slot[s].cached) \in Nat /\ Len(slot[s].prompt) \in Nat /\ Ctx \in Nat
      /\ Len(slot[s].prompt) \in 1 .. Ctx - 1
      /\ slot[s].nPast = hp /\ hc \in Nat /\ hp \in Nat /\ hp <= hc
  BY <1>1, ReusingIs
<1>3. PICK n \in Nat : /\ n = Matching(s) /\ hc + n <= Len(slot[s].cached)
                       /\ hp + n <= Len(slot[s].prompt)
  BY <1>1, MatchingIs
<1>4. PICK l \in Nat, old \in Seq(Nat) : l = Len(old) /\ old = slot[s].cached
  BY <1>2
<1>5. PICK cached : cached = [i \in 1 .. l |-> IF i \in hp + 1 .. hp + n THEN old[i - hp + hc]
                                               ELSE old[i]]
  OBVIOUS
<1>6. cached \in Seq(Nat) /\ Len(cached) = l
  <2>1. \A i \in 1 .. l : old[i] \in Nat
    BY <1>4, ElementOfSeq
  <2>2. ASSUME NEW i \in 1 .. l, i \in hp + 1 .. hp + n
        PROVE  old[i - hp + hc] \in Nat
    <3>1. PICK a \in Nat, b \in Nat : a = hp /\ b = hc /\ a <= b /\ b + n <= l
      BY <1>2, <1>3, <1>4
    <3>2. i \in a + 1 .. a + n
      BY <2>2, <3>1
    <3>3. i - a + b \in 1 .. l
      BY ONLY a \in Nat, b \in Nat, n \in Nat, l \in Nat, i \in 1 .. l, <3>1, <3>2
    <3>4. PICK k \in 1 .. l : k = i - hp + hc
      BY <3>1, <3>3
    <3> QED
      BY <2>1, <3>4
  <2>3. cached \in [1 .. l -> Nat]
    BY <1>5, <2>1, <2>2
  <2> QED
    BY <2>3, ListIs
<1>17. PICK q \in SlotRec : q = slot[s]
  BY <1>2
<1>7. PICK r : q = slot[s] /\ r = [q EXCEPT !.cached = cached, !.nPast = hp + n]
  BY <1>17
<1>8. /\ r \in SlotRec /\ r.state = q.state /\ r.prompt = q.prompt /\ r.keep = q.keep
      /\ r.nPast = hp + n /\ r.caching = q.caching /\ r.discard = q.discard
      /\ r.iBatch = q.iBatch /\ r.cached = cached
  <2>1. hp + n \in 0 .. Ctx
    <3>1. PICK lp \in Nat : lp = Len(slot[s].prompt) /\ lp < Ctx /\ hp + n <= lp
      BY <1>2, <1>3
    <3> QED
      BY <1>2, <3>1
  <2> QED
    BY <1>6, <1>7, <2>1 DEF SlotRec
<1>9. slot' = [slot EXCEPT ![s] = r]
  <2>1. slot' = [slot EXCEPT
                   ![s].cached = [i \in DOMAIN @ |-> IF i \in hp + 1 .. hp + n
                                                    THEN @[i - hp + hc] ELSE @[i]],
                   ![s].nPast = @ + n]
    BY <1>3 DEF ReuseChunk
  <2>2. DOMAIN old = 1 .. l
    BY <1>4, LenProperties
  <2>3. slot' = [slot EXCEPT ![s] = [q EXCEPT
                   !.cached = [i \in DOMAIN q.cached |-> IF i \in hp + 1 .. hp + n
                                                    THEN q.cached[i - hp + hc] ELSE q.cached[i]],
                   !.nPast = q.nPast + n]]
    BY <1>7, <2>1, Typed DEF RInv
  <2>4. [i \in DOMAIN q.cached |-> IF i \in hp + 1 .. hp + n
                                   THEN q.cached[i - hp + hc] ELSE q.cached[i]] = cached
    BY <1>4, <1>5, <1>7, <2>2
  <2>5. q.nPast + n = hp + n
    BY <1>2, <1>7
  <2> QED
    BY <1>7, <2>3, <2>4, <2>5
<1>10. /\ slot' \in [Slots -> SlotRec] /\ slot'[s] = r
       /\ \A t \in Slots : t # s => slot'[t] = slot[t]
  BY <1>8, <1>9, SlotsAfter, Typed DEF RInv
<1>11. hc' = hc + n /\ hp' = hp + n
       /\ kv' = KV!SeqAdd(KV!SeqRm(kv, s, hp, hc), s, hc, -1, hp - hc)
  BY <1>3 DEF ReuseChunk
<1>12. /\ kv' \in Caches
       /\ \A i \in Cells :
            IF kv.cells[i].seq = s /\ kv.cells[i].pos >= hp
            THEN IF kv.cells[i].pos < hc THEN kv'.cells[i] = KV!Free
                 ELSE /\ kv'.cells[i].seq = s /\ kv'.cells[i].tok = kv.cells[i].tok
                      /\ kv'.cells[i].pos = kv.cells[i].pos - (hc - hp)
            ELSE kv'.cells[i] = kv.cells[i]
  <2>1. PICK a \in Nat, b \in Nat, e \in Int, d \in Int :
          a = hp /\ b = hc /\ a <= b /\ e = -1 /\ e < 0 /\ d = a - b
    <3>1. hp \in Nat /\ hc \in Nat /\ hp <= hc /\ -1 \in Int /\ -1 < 0 /\ hp - hc \in Int
      BY <1>2
    <3> QED
      BY <3>1
  <2>2. PICK c \in Caches : c = kv
    BY Typed DEF RInv
  <2>3. kv' = KV!SeqAdd(KV!SeqRm(c, s, a, b), s, b, e, d)
    BY <1>11, <2>1, <2>2
  <2>4. kv' \in Caches /\ MovedDown(c, kv', s, a, b)
    <3>1. c \in Caches /\ a \in Nat /\ b \in Nat /\ a <= b /\ e \in Int /\ d \in Int
          /\ d = a - b /\ (e < 0 \/ Below(c, s, e))
      BY <2>1, <2>2
    <3> QED
      BY ONLY s \in Slots, <2>3, <3>1, MovedIs
  <2> QED
    BY <2>1, <2>2, <2>4 DEF MovedDown
<1>13. /\ hc' <= Len(slot[s].cached) /\ hp' <= Len(slot[s].prompt) /\ r.state = "prompt"
       /\ r.prompt = slot[s].prompt /\ r.keep = slot[s].keep
       /\ r.nPast = hp' /\ r.caching = slot[s].caching /\ r.discard = slot[s].discard
       /\ r.iBatch = slot[s].iBatch /\ Len(r.cached) = Len(slot[s].cached)
  BY <1>2, <1>3, <1>4, <1>6, <1>7, <1>8, <1>11
<1>14. PICK m \in Nat, p \in SlotRec : m = n /\ p = r
  BY <1>8
<1>15. hc' = hc + m /\ hp' = hp + m
  BY <1>11, <1>14
<1>16. /\ p.state = "prompt"
       /\ p.prompt = slot[s].prompt /\ p.keep = slot[s].keep
       /\ p.nPast = hp' /\ p.caching = slot[s].caching /\ p.discard = slot[s].discard
       /\ p.iBatch = slot[s].iBatch /\ Len(p.cached) = Len(slot[s].cached)
       /\ slot' \in [Slots -> SlotRec] /\ slot'[s] = p
       /\ \A t \in Slots : t # s => slot'[t] = slot[t]
  BY <1>10, <1>13, <1>14
<1> QED
  BY <1>12, <1>13, <1>15, <1>16

LEMMA ReuseChunkKeeps == ASSUME NEW s \in Slots, RInv, ReuseChunk(s) PROVE RInv'
<1>1. /\ pc = "reuse" /\ turn = s
      /\ UNCHANGED <<pc, turn, launched, ctxShift, clean, batch, at, chunk, placed, saved, text>>
  BY DEF ReuseChunk, Reusing, server, decodeVars
<1>2. PICK n \in Nat, r \in SlotRec :
        /\ hc' = hc + n /\ hp' = hp + n /\ hc' <= Len(slot[s].cached)
        /\ hp' <= Len(slot[s].prompt)
        /\ r.state = "prompt" /\ r.prompt = slot[s].prompt /\ r.keep = slot[s].keep
        /\ r.nPast = hp' /\ r.caching = slot[s].caching /\ r.discard = slot[s].discard
        /\ r.iBatch = slot[s].iBatch /\ Len(r.cached) = Len(slot[s].cached)
        /\ slot' \in [Slots -> SlotRec] /\ slot'[s] = r
        /\ \A t \in Slots : t # s => slot'[t] = slot[t]
  BY ReuseChunkIs
<1>3. /\ hc \in Nat /\ hp \in Nat /\ hp <= hc /\ Len(slot[s].cached) \in Nat
      /\ Len(slot[s].cached) <= Ctx /\ Ctx \in Nat /\ slot[s].state = "prompt"
      /\ Len(slot[s].prompt) \in 1 .. Ctx - 1 /\ ~Active(s) /\ Working(s)
  BY <1>1, ReusingIs
<1>4. hc' \in 0 .. Ctx /\ hp' \in 0 .. hc' /\ hp' < Ctx
  BY <1>2, <1>3
<1>5. kv' \in Caches
  BY ReuseChunkIs
<1>6. TypeOK'
  BY <1>1, <1>2, <1>4, <1>5 DEF RInv, TypeOK, SlotRec, Caches
<1>7. \A t \in Slots : ~Shifted(t)' /\ (Active(t)' <=> Active(t))
  BY <1>1, <1>2, <1>3 DEF Active, Working, Shifted
<1>8. ASSUME NEW t \in Slots
      PROVE  SlotOK(t)' /\ TextOK(t)'
  <2>1. SlotOK(t) /\ TextOK(t)
    BY DEF RInv
  <2>2. CASE t = s
    <3>1. Working(s)' /\ ~Active(s)'
      BY <1>2, <1>3, <1>7 DEF Working
    <3>2. SlotOK(s)'
      BY <1>2, <1>3, <1>4, <1>7, <2>1, <2>2, <3>1 DEF SlotOK
    <3> QED
      BY <2>2, <3>1, <3>2 DEF TextOK
  <2>3. CASE t # s
    BY <1>1, <1>2, <1>7, <2>1, <2>3, SlotStays
  <2> QED
    BY <2>2, <2>3
<1>9. ReuseOK'
  BY <1>1, <1>2 DEF ReuseOK
<1>10. RoundOK'
  BY <1>1 DEF RInv, RoundOK, Chunk
<1>11. CellsOK'
  <2>1. ASSUME NEW i \in Cells, NEW t \in Slots, kv'.cells[i].seq = t
        PROVE  kv'.cells[i].pos < Ctx /\ (Active(t)' => kv'.cells[i].pos < Len(text'[t]))
    <3>1. CASE kv'.cells[i] = kv.cells[i]
      BY <1>1, <1>7, <2>1, <3>1 DEF RInv, CellsOK
    <3>2. CASE kv'.cells[i] = KV!Free
      BY <2>1, <3>2, CachesAre
    <3>3. CASE /\ kv.cells[i].seq = s /\ kv'.cells[i].seq = s
               /\ kv'.cells[i].pos = kv.cells[i].pos - (hc - hp)
      <4>1. kv.cells[i].pos < Ctx /\ kv.cells[i].pos \in Int
        BY <3>3, Typed, CachesAre, CellTyped DEF RInv, CellsOK
      <4>2. kv'.cells[i].pos < Ctx
        BY <1>3, <3>3, <4>1
      <4> QED
        BY <1>3, <1>7, <2>1, <3>3, <4>2
    <3> QED
      BY <3>1, <3>2, <3>3, ReuseChunkIs
  <2> QED
    BY <2>1 DEF CellsOK
<1>12. BatchOK'
  <2>1. batch' = batch /\ Pending' \subseteq Pending
    BY <1>1, SameBatch
  <2>2. \A j \in Pending : batch[j].seq # s
    BY <1>3 DEF RInv, BatchOK, TokenOK
  <2>3. \A t \in Slots : \/ slot'[t] = slot[t] /\ text'[t] = text[t] /\ (Active(t) => Active(t)')
                         \/ \A j \in Pending' : batch[j].seq # t
    BY <1>1, <1>2, <1>7, <2>1, <2>2
  <2>4. \A j \in Pending' : TokenOK(j)'
    BY <1>6, <2>1, <2>3, TokensStay DEF RInv
  <2> QED
    BY <2>4 DEF BatchOK
<1> QED
  BY <1>6, <1>8, <1>9, <1>10, <1>11, <1>12 DEF RInv

(* The first n tokens of the prompt are kept, and k more of them go into   *)
(* the batch.                                                              *)
LEMMA FillBatchIs ==
  ASSUME RInv, NEW s \in Slots, NEW n \in Nat, slot[s].state = "prompt",
         n < Len(slot[s].prompt), Len(slot[s].prompt) < Ctx, FillBatch(s, n)
  PROVE  /\ kv' \in Caches
         /\ \A i \in Cells :
              kv'.cells[i] = IF kv.cells[i].seq = s /\ kv.cells[i].pos >= n
                             THEN KV!Free ELSE kv.cells[i]
         /\ \E k \in Nat, r \in SlotRec, new \in Seq(Nat) :
              /\ n + k <= Len(slot[s].prompt)
              /\ r.state = IF n + k = Len(slot[s].prompt) THEN "done" ELSE "prompt"
              /\ r.prompt = slot[s].prompt /\ r.keep = slot[s].keep
              /\ r.discard = slot[s].discard /\ r.caching = slot[s].caching
              /\ r.nPast = n + k
              /\ r.state = "done" => r.iBatch = Len(batch) + k - 1
              /\ Len(r.cached) = IF r.caching THEN n + k ELSE n
              /\ \A i \in 1 .. n :
                   r.cached[i] = IF i <= Len(slot[s].cached) THEN slot[s].cached[i] ELSE 0
              /\ r.caching => \A i \in 1 .. k : r.cached[n + i] = r.prompt[n + i]
              /\ slot' \in [Slots -> SlotRec] /\ slot'[s] = r
              /\ \A t \in Slots : t # s => slot'[t] = slot[t]
              /\ new = SubSeq(r.prompt, 1, n + k) /\ Len(new) = n + k
              /\ \A i \in 1 .. n + k : new[i] = r.prompt[i]
              /\ text' \in [Slots -> Seq(Nat)] /\ text'[s] = new
              /\ \A t \in Slots : t # s => text'[t] = text[t]
              /\ batch' \in Seq([seq : Slots, pos : Nat, tok : Nat])
              /\ Len(batch') = Len(batch) + k
              /\ \A j \in 1 .. Len(batch) : batch'[j] = batch[j]
              /\ \A i \in 1 .. k :
                   batch'[Len(batch) + i] = [seq |-> s, pos |-> n + i - 1, tok |-> new[n + i]]
<1> DEFINE Token == [seq : Slots, pos : Nat, tok : Nat]
<1>1. /\ slot[s] \in SlotRec /\ slot \in [Slots -> SlotRec] /\ text \in [Slots -> Seq(Nat)]
      /\ batch \in Seq(Token) /\ Len(batch) \in Nat /\ kv \in Caches
  BY Typed DEF RInv
<1>2. PICK prompt \in Seq(Nat), old \in Seq(Nat), l \in Nat, b \in Nat :
        prompt = slot[s].prompt /\ old = slot[s].cached /\ l = Len(prompt) /\ b = Len(batch)
        /\ l < Ctx /\ n < l /\ l = Len(slot[s].prompt)
  <2>1. slot[s].prompt \in Seq(Nat) /\ slot[s].cached \in Seq(Nat)
        /\ Len(slot[s].prompt) \in Nat
    BY <1>1, SlotTyped
  <2> QED
    BY <1>1, <2>1
<1>3. PICK k \in Nat : k = Min({l - n, Max({Batch - b, 0})}) /\ n + k <= l
  <2>1. Batch \in Nat /\ 0 \in Int /\ n < l
    BY <1>2, Options
  <2>2. PICK x \in Int, z \in Int : x = Batch - b /\ z = 0
    BY <2>1
  <2>3. PICK y \in Int : y = Max({x, z}) /\ y >= 0
    <3>1. Max({x, z}) = IF x <= z THEN z ELSE x
      BY MaxOfTwo
    <3> QED
      BY <2>2, <3>1
  <2>4. PICK w \in Int : w = l - n /\ w >= 0
    BY <2>1
  <2>5. Min({w, y}) = IF w <= y THEN w ELSE y
    BY MinOfTwo
  <2>6. Min({w, y}) \in Nat /\ n + Min({w, y}) <= l
    BY <2>3, <2>4, <2>5
  <2> QED
    BY <2>2, <2>3, <2>4, <2>6
<1>4. PICK part \in Seq(Nat), new \in Seq(Nat) :
        /\ part = SubSeq(prompt, n + 1, n + k) /\ Len(part) = k
        /\ \A i \in 1 .. k : part[i] = prompt[n + i]
        /\ new = SubSeq(prompt, 1, n + k) /\ Len(new) = n + k
        /\ \A i \in 1 .. n + k : new[i] = prompt[i]
  <2>1. PICK p1 \in 1 .. Len(prompt) + 1, p2 \in 1 .. Len(prompt) + 1, e \in Nat :
          /\ p1 = n + 1 /\ p2 = 1 /\ e = n + k
          /\ e \in p1 - 1 .. Len(prompt) /\ e \in p2 - 1 .. Len(prompt)
    <3>1. n + 1 \in 1 .. Len(prompt) + 1 /\ 1 \in 1 .. Len(prompt) + 1 /\ n + k \in Nat
          /\ n + k \in n + 1 - 1 .. Len(prompt) /\ n + k \in 1 - 1 .. Len(prompt)
      BY <1>2, <1>3, SMTT(60)
    <3> QED
      BY <3>1
  <2>2. PICK x, y : x = SubSeq(prompt, p1, e) /\ y = SubSeq(prompt, p2, e)
    OBVIOUS
  <2>3. p1 \in 1 .. Len(prompt) + 1 /\ e \in p1 - 1 .. Len(prompt)
        /\ p2 \in 1 .. Len(prompt) + 1 /\ e \in p2 - 1 .. Len(prompt)
    BY <2>1
  <2>4. /\ x \in Seq(Nat) /\ Len(x) = e + 1 - p1
        /\ \A i \in 1 .. e + 1 - p1 : x[i] = prompt[p1 + i - 1]
    BY <2>2, <2>3, PartIs, SMTT(60)
  <2>5. /\ y \in Seq(Nat) /\ Len(y) = e + 1 - p2
        /\ \A i \in 1 .. e + 1 - p2 : y[i] = prompt[p2 + i - 1]
    BY <2>2, <2>3, PartIs, SMTT(60)
  <2>6. e + 1 - p1 = k /\ e + 1 - p2 = n + k
        /\ (\A i \in 1 .. k : p1 + i - 1 = n + i) /\ (\A i \in 1 .. n + k : p2 + i - 1 = i)
    BY <2>1
  <2>7. Len(x) = k /\ \A i \in 1 .. k : x[i] = prompt[n + i]
    BY <2>4, <2>6
  <2>8. Len(y) = n + k /\ \A i \in 1 .. n + k : y[i] = prompt[i]
    BY <2>5, <2>6
  <2>9. x = SubSeq(prompt, n + 1, n + k) /\ y = SubSeq(prompt, 1, n + k)
    BY <2>1, <2>2
  <2> QED
    BY <2>4, <2>5, <2>7, <2>8, <2>9
<1>5. PICK none \in Seq(Nat) : none = <<>> /\ Len(none) = 0
  BY EmptySeq
<1>6. PICK short \in Seq(Nat) :
        /\ short = Resize(old, n) /\ Len(short) = n
        /\ \A i \in 1 .. n : short[i] = IF i <= Len(old) THEN old[i] ELSE 0
  BY ResizeIs
<1>30. PICK tail : tail = IF slot[s].caching THEN SubSeq(prompt, n + 1, n + k) ELSE <<>>
  OBVIOUS
<1>7. /\ tail \in Seq(Nat)
      /\ slot[s].caching => tail = part
      /\ Len(tail) = IF slot[s].caching THEN k ELSE 0
  <2>2. CASE slot[s].caching
    <3>1. tail = part
      BY <1>4, <1>30, <2>2
    <3> QED
      BY <1>4, <2>2, <3>1
  <2>3. CASE ~slot[s].caching
    <3>1. tail = none
      BY <1>5, <1>30, <2>3
    <3> QED
      BY <1>5, <2>3, <3>1
  <2> QED
    BY <2>2, <2>3
<1>31. PICK cached : cached = short \o tail
  OBVIOUS
<1>8. /\ cached \in Seq(Nat)
      /\ Len(cached) = IF slot[s].caching THEN n + k ELSE n
      /\ \A i \in 1 .. n : cached[i] = short[i]
      /\ slot[s].caching => \A i \in 1 .. k : cached[n + i] = prompt[n + i]
  <2>1. Len(short) = n /\ Len(tail) \in Nat
    BY <1>6, <1>7
  <2>2. /\ cached \in Seq(Nat) /\ Len(cached) = Len(short) + Len(tail)
        /\ \A i \in 1 .. Len(short) + Len(tail) :
             cached[i] = IF i <= Len(short) THEN short[i] ELSE tail[i - Len(short)]
    BY <1>7, <1>31, ConcatProperties
  <2>3. ASSUME NEW i \in 1 .. n
        PROVE  cached[i] = short[i]
    <3>1. i \in 1 .. Len(short) + Len(tail) /\ i <= Len(short)
      BY <2>1
    <3> QED
      BY <2>2, <3>1
  <2>4. ASSUME slot[s].caching, NEW i \in 1 .. k
        PROVE  cached[n + i] = prompt[n + i]
    <3>1. /\ n + i \in 1 .. Len(short) + Len(tail) /\ ~(n + i <= Len(short))
          /\ n + i - Len(short) = i
      BY <1>7, <2>1, <2>4
    <3>2. cached[n + i] = tail[n + i - Len(short)]
      BY <2>2, <3>1, SMTT(40)
    <3> QED
      BY <1>4, <1>7, <2>4, <3>1, <3>2
  <2>5. Len(cached) = IF slot[s].caching THEN n + k ELSE n
    BY <1>7, <2>1, <2>2
  <2> QED
    BY <2>2, <2>3, <2>4, <2>5
<1>9. PICK state \in {"done", "prompt"}, iBatch \in Int :
        /\ state = IF n + k = l THEN "done" ELSE "prompt"
        /\ iBatch = IF n + k = l THEN b + k - 1 ELSE slot[s].iBatch
  <2>1. slot[s].iBatch \in Int
    BY <1>1, SlotTyped
  <2>2. (IF n + k = l THEN b + k - 1 ELSE slot[s].iBatch) \in Int
    BY <2>1
  <2> QED
    BY <2>2
<1>10. PICK r : r = [slot[s] EXCEPT !.cached = cached, !.nPast = n + k, !.state = state,
                                    !.iBatch = iBatch]
  OBVIOUS
<1>11. /\ r \in SlotRec /\ r.state = state /\ r.iBatch = iBatch /\ r.nPast = n + k
       /\ r.cached = cached /\ r.prompt = prompt /\ r.keep = slot[s].keep
       /\ r.discard = slot[s].discard /\ r.caching = slot[s].caching
  <2>1. n + k \in 0 .. Ctx
    <3>1. n + k <= l /\ l < Ctx /\ l \in Nat /\ Ctx \in Nat
      BY <1>2, <1>3, Options
    <3> HIDE DEF Token
    <3> QED
      BY <3>1
  <2> QED
    BY <1>1, <1>2, <1>8, <1>10, <2>1 DEF SlotRec
<1>12. PICK added \in Seq(Token) :
         /\ added = [i \in 1 .. k |-> [seq |-> s, pos |-> n + i - 1, tok |-> prompt[n + i]]]
         /\ Len(added) = k
         /\ \A i \in 1 .. k : added[i] = [seq |-> s, pos |-> n + i - 1, tok |-> new[n + i]]
  <2>1. PICK a : a = [i \in 1 .. k |-> [seq |-> s, pos |-> n + i - 1, tok |-> prompt[n + i]]]
    OBVIOUS
  <2>2. \A i \in 1 .. k : /\ n + i - 1 \in Nat /\ n + i \in 1 .. Len(prompt)
                          /\ n + i \in 1 .. n + k
    <3>1. n + k <= Len(prompt) /\ Len(prompt) \in Nat
      BY <1>2, <1>3
    <3> QED
      BY <3>1
  <2>3. \A i \in 1 .. k : prompt[n + i] \in Nat /\ new[n + i] = prompt[n + i]
    <3>1. \A i \in 1 .. Len(prompt) : prompt[i] \in Nat
      BY ElementOfSeq
    <3>2. \A i \in 1 .. n + k : new[i] = prompt[i]
      BY <1>4
    <3> QED
      BY <2>2, <3>1, <3>2
  <2>4. a \in [1 .. k -> Token]
    BY <2>1, <2>2, <2>3
  <2> HIDE DEF Token
  <2>5. a \in Seq(Token) /\ Len(a) = k
    BY <2>4, ListIs
  <2> QED
    BY <2>1, <2>3, <2>5
<1>13. /\ kv' = KV!SeqRm(kv, s, n, -1)
       /\ batch' = batch \o added
       /\ text' = [text EXCEPT ![s] = new]
       /\ slot' = [slot EXCEPT ![s].cached = short \o tail, ![s].nPast = n + k,
                               ![s].state = IF n + k = l THEN "done" ELSE @,
                               ![s].iBatch = IF n + k = l THEN b + k - 1 ELSE @]
  BY <1>2, <1>3, <1>4, <1>6, <1>12, <1>30 DEF FillBatch
<1>14. slot' = [slot EXCEPT ![s] = r]
  BY <1>1, <1>9, <1>10, <1>13, <1>31
<1>15. /\ slot' \in [Slots -> SlotRec] /\ slot'[s] = r
       /\ \A t \in Slots : t # s => slot'[t] = slot[t]
  BY <1>1, <1>11, <1>14, SlotsAfter
<1>16. /\ batch' \in Seq(Token) /\ Len(batch') = b + k
       /\ \A j \in 1 .. b : batch'[j] = batch[j]
       /\ \A i \in 1 .. k : batch'[b + i] = added[i]
  <2> HIDE DEF Token
  <2>1. /\ batch' \in Seq(Token) /\ Len(batch') = b + k
        /\ \A i \in 1 .. b + k : batch'[i] = IF i <= b THEN batch[i] ELSE added[i - b]
    <3>1. PICK old1 \in Seq(Token), add1 \in Seq(Token) :
            old1 = batch /\ add1 = added /\ Len(old1) = b /\ Len(add1) = k
      BY <1>1, <1>2, <1>12
    <3>3. PICK c : c = old1 \o add1
      OBVIOUS
    <3>2. /\ c \in Seq(Token) /\ Len(c) = Len(old1) + Len(add1)
          /\ \A i \in 1 .. Len(old1) + Len(add1) :
               c[i] = IF i <= Len(old1) THEN old1[i] ELSE add1[i - Len(old1)]
      BY <3>3, ConcatProperties
    <3>4. batch' = c
      BY <1>13, <3>1, <3>3
    <3> QED
      BY <3>1, <3>2, <3>4
  <2>2. ASSUME NEW j \in 1 .. b
        PROVE  batch'[j] = batch[j]
    <3>1. j \in 1 .. b + k /\ j <= b
      OBVIOUS
    <3> QED
      BY <2>1, <3>1
  <2>3. ASSUME NEW i \in 1 .. k
        PROVE  batch'[b + i] = added[i]
    <3>1. b + i \in 1 .. b + k /\ ~(b + i <= b) /\ b + i - b = i
      OBVIOUS
    <3>2. batch'[b + i] = added[b + i - b]
      BY <2>1, <3>1
    <3> QED
      BY <3>1, <3>2
  <2> QED
    BY <2>1, <2>2, <2>3
<1>17. /\ text' \in [Slots -> Seq(Nat)] /\ text'[s] = new
       /\ \A t \in Slots : t # s => text'[t] = text[t]
  BY <1>1, <1>13
<1>18. /\ kv' \in Caches
       /\ \A i \in Cells :
            kv'.cells[i] = IF kv.cells[i].seq = s /\ kv.cells[i].pos >= n
                           THEN KV!Free ELSE kv.cells[i]
  <2>1. PICK p1 \in Int : p1 = -1 /\ p1 < 0
    OBVIOUS
  <2>2. PICK m \in Int : m = n
    OBVIOUS
  <2>3. kv' = KV!SeqRm(kv, s, m, p1)
    BY <1>13, <2>1, <2>2
  <2>4. PICK c : c = KV!SeqRm(kv, s, m, p1)
    OBVIOUS
  <2>5. /\ c \in Caches
        /\ \A i \in Cells :
             c.cells[i] = IF /\ kv.cells[i].seq = s
                             /\ kv.cells[i].pos >= m /\ (p1 < 0 \/ kv.cells[i].pos < p1)
                          THEN KV!Free ELSE kv.cells[i]
    BY <1>1, <2>1, <2>2, <2>4, SeqRmIs, SMTT(60)
  <2> QED
    BY <2>1, <2>2, <2>3, <2>4, <2>5
<1>19. \A i \in 1 .. k :
         batch'[Len(batch) + i] = [seq |-> s, pos |-> n + i - 1, tok |-> new[n + i]]
  BY <1>2, <1>12, <1>16
<1>20. /\ n + k <= Len(slot[s].prompt)
       /\ r.state = IF n + k = Len(slot[s].prompt) THEN "done" ELSE "prompt"
       /\ r.state = "done" => r.iBatch = Len(batch) + k - 1
       /\ Len(r.cached) = IF r.caching THEN n + k ELSE n
  BY <1>2, <1>3, <1>8, <1>9, <1>11
<1>21. /\ \A i \in 1 .. n :
            r.cached[i] = IF i <= Len(slot[s].cached) THEN slot[s].cached[i] ELSE 0
       /\ r.caching => \A i \in 1 .. k : r.cached[n + i] = r.prompt[n + i]
  <2>1. \A i \in 1 .. n : r.cached[i] = short[i]
    BY <1>8, <1>11
  <2>2. \A i \in 1 .. n :
          short[i] = IF i <= Len(slot[s].cached) THEN slot[s].cached[i] ELSE 0
    BY <1>2, <1>6
  <2>3. r.caching => \A i \in 1 .. k : r.cached[n + i] = r.prompt[n + i]
    BY <1>8, <1>11
  <2> QED
    BY <2>1, <2>2, <2>3
<1>22. new = SubSeq(r.prompt, 1, n + k) /\ \A i \in 1 .. n + k : new[i] = r.prompt[i]
  BY <1>4, <1>11
<1>23. batch' \in Seq([seq : Slots, pos : Nat, tok : Nat]) /\ Len(batch') = Len(batch) + k
       /\ \A j \in 1 .. Len(batch) : batch'[j] = batch[j]
  BY <1>2, <1>16
<1>24. /\ r.prompt = slot[s].prompt /\ r.keep = slot[s].keep /\ r.nPast = n + k
       /\ r.discard = slot[s].discard /\ r.caching = slot[s].caching /\ Len(new) = n + k
  BY <1>2, <1>4, <1>11
<1>25. r \in SlotRec
  BY <1>11
<1> HIDE DEF Token
<1> QED
  BY <1>15, <1>17, <1>18, <1>19, <1>20, <1>21, <1>22, <1>23, <1>24, <1>25

LEMMA FillBatchKeeps ==
  ASSUME RInv, NEW s \in Slots, NEW n \in Nat, slot[s].state = "prompt",
         n < Len(slot[s].prompt), FillBatch(s, n), Visited(s), turn = s,
         pc = "reuse" \/ (pc = "prompts" /\ n = slot[s].nPast),
         hc' \in 0 .. Ctx, hp' \in 0 .. hc'
  PROVE  RInv'
<1>1. UNCHANGED <<launched, ctxShift, clean, at, chunk, placed, saved>>
  BY DEF FillBatch, server, decodeVars
<1>2. /\ Working(s) /\ Len(slot[s].prompt) < Ctx /\ slot[s].keep \in 0 .. Ctx - 4
      /\ slot[s].discard \in 0 .. 2 /\ slot[s].nPast < Ctx /\ Len(slot[s].cached) <= Ctx
      /\ Ctx \in Nat /\ Len(slot[s].prompt) \in Nat
  <2>1. slot[s] \in SlotRec
    BY Typed DEF RInv
  <2> QED
    BY <2>1, SlotTyped, Options DEF RInv, SlotOK, Working
<1>3. /\ kv' \in Caches
      /\ \A i \in Cells :
           kv'.cells[i] = IF kv.cells[i].seq = s /\ kv.cells[i].pos >= n
                          THEN KV!Free ELSE kv.cells[i]
  BY <1>2, FillBatchIs
<1>4. PICK k \in Nat, r \in SlotRec, new \in Seq(Nat) :
        /\ n + k <= Len(slot[s].prompt)
        /\ r.state = IF n + k = Len(slot[s].prompt) THEN "done" ELSE "prompt"
        /\ r.prompt = slot[s].prompt /\ r.keep = slot[s].keep
        /\ r.discard = slot[s].discard /\ r.caching = slot[s].caching
        /\ r.nPast = n + k
        /\ r.state = "done" => r.iBatch = Len(batch) + k - 1
        /\ Len(r.cached) = IF r.caching THEN n + k ELSE n
        /\ \A i \in 1 .. n :
             r.cached[i] = IF i <= Len(slot[s].cached) THEN slot[s].cached[i] ELSE 0
        /\ r.caching => \A i \in 1 .. k : r.cached[n + i] = r.prompt[n + i]
        /\ slot' \in [Slots -> SlotRec] /\ slot'[s] = r
        /\ \A t \in Slots : t # s => slot'[t] = slot[t]
        /\ new = SubSeq(r.prompt, 1, n + k) /\ Len(new) = n + k
        /\ \A i \in 1 .. n + k : new[i] = r.prompt[i]
        /\ text' \in [Slots -> Seq(Nat)] /\ text'[s] = new
        /\ \A t \in Slots : t # s => text'[t] = text[t]
        /\ batch' \in Seq([seq : Slots, pos : Nat, tok : Nat])
        /\ Len(batch') = Len(batch) + k
        /\ \A j \in 1 .. Len(batch) : batch'[j] = batch[j]
        /\ \A i \in 1 .. k :
             batch'[Len(batch) + i] = [seq |-> s, pos |-> n + i - 1, tok |-> new[n + i]]
  <2>1. /\ slot[s].state = "prompt" /\ n < Len(slot[s].prompt)
        /\ Len(slot[s].prompt) < Ctx /\ FillBatch(s, n)
    BY <1>2
  <2> QED
    BY ONLY RInv, s \in Slots, n \in Nat, <2>1, FillBatchIs, ZenonT(60)
<1>5. /\ turn' \in Slots /\ pc' \in {"prompts", "tasks", "decode"}
      /\ pc' = "tasks" => turn' = 1 /\ batch' = <<>>
      /\ pc' = "decode" => 0 < Len(batch')
  <2>1. batch' \in Seq([seq : Slots, pos : Nat, tok : Nat])
    BY <1>4
  <2> QED
    BY <2>1, VisitedIs DEF RInv
<1>6. TypeOK'
  BY <1>1, <1>3, <1>4, <1>5 DEF RInv, TypeOK, SlotRec, Caches
<1>7. at = 0 /\ placed = 0
  BY DEF RInv, RoundOK
<1>8. RoundOK' /\ ReuseOK'
  <2>1. at' = 0 /\ placed' = 0
    BY <1>1, <1>7
  <2> QED
    BY <1>5, <1>6, <2>1, VisitedRounds DEF ReuseOK
<1>9. /\ \A t \in Slots : ~Shifted(t)'
      /\ \A t \in Slots : t # s => (Active(t)' <=> Active(t))
      /\ Working(s)' /\ Active(s)'
  <2>1. r.state \in {"prompt", "done"}
    BY <1>4
  <2> QED
    BY <1>4, <1>5, <2>1 DEF Active, Working, Shifted
<1>10. PICK m \in Nat, b \in Nat, l \in Nat :
         m = n + k /\ b = Len(batch) /\ l = Len(slot[s].prompt) /\ m <= l /\ l < Ctx /\ n < l
  <2>1. Len(batch) \in Nat
    BY Typed DEF RInv
  <2>2. n + k <= Len(slot[s].prompt) /\ n + k \in Nat
    BY <1>4
  <2> QED
    BY <1>2, <2>1, <2>2
<1>16. /\ r.state = IF m = l THEN "done" ELSE "prompt"
       /\ r.state = "done" => r.iBatch = b + k - 1
       /\ Len(r.cached) = IF r.caching THEN m ELSE n
  BY <1>4, <1>10
<1>11. ASSUME NEW t \in Slots
       PROVE  SlotOK(t)' /\ TextOK(t)'
  <2>1. SlotOK(t) /\ TextOK(t)
    BY DEF RInv
  <2>2. CASE t = s
    <3>1. m < Ctx /\ 0 < l
      BY <1>2, <1>10
    <3>2. Len(r.cached) <= Ctx
      BY <1>2, <1>10, <1>16
    <3>3. SlotOK(s)'
      BY <1>2, <1>4, <1>9, <1>10, <3>1, <3>2 DEF SlotOK
    <3>4. r.state = "prompt" => m < l
      BY <1>10, <1>16
    <3>5. TextOK(s)'
      BY <1>4, <1>10, <3>4 DEF TextOK
    <3> QED
      BY <2>2, <3>3, <3>5
  <2>3. CASE t # s
    BY <1>4, <1>9, <2>1, <2>3, SlotStays
  <2> QED
    BY <2>2, <2>3
<1>12. CellsOK'
  <2>1. ASSUME NEW i \in Cells, NEW t \in Slots, kv'.cells[i].seq = t
        PROVE  kv'.cells[i].pos < Ctx /\ (Active(t)' => kv'.cells[i].pos < Len(text'[t]))
    <3>1. kv'.cells[i] = kv.cells[i] /\ ~(kv.cells[i].seq = s /\ kv.cells[i].pos >= n)
      BY <1>3, <2>1, CachesAre
    <3>2. kv.cells[i].pos < Ctx /\ (Active(t) => kv.cells[i].pos < Len(text[t]))
      BY <2>1, <3>1 DEF RInv, CellsOK
    <3>3. CASE t # s
      BY <1>4, <1>9, <3>1, <3>2, <3>3
    <3>4. CASE t = s
      <4>1. kv.cells[i].pos \in Int
        BY Typed, CachesAre, CellTyped DEF RInv
      <4>2. kv.cells[i].pos < m
        BY <1>10, <2>1, <3>1, <3>4, <4>1
      <4> QED
        BY <1>4, <1>10, <3>1, <3>2, <3>4, <4>2
    <3> QED
      BY <3>3, <3>4
  <2> QED
    BY <2>1 DEF CellsOK
<1>13. pc \notin {"sample"} /\ pc' # "sample" /\ at' = 0
  BY <1>1, <1>5, <1>7
<1>14. ASSUME NEW j \in 1 .. b, batch[j].seq = s
       PROVE  /\ batch[j].pos < n /\ batch[j].tok = new[batch[j].pos + 1]
  <2>1. j \in Pending
    BY <1>7, <1>10, <1>13 DEF Pending
  <2>2. TokenOK(j)
    BY <2>1 DEF RInv, BatchOK
  <2>3. Active(s) /\ batch[j].pos < Len(text[s]) /\ batch[j].tok = text[s][batch[j].pos + 1]
    BY <1>14, <2>2 DEF TokenOK
  <2>4. pc = "prompts" /\ n = slot[s].nPast
    BY <2>3 DEF Active
  <2>5. Len(text[s]) = n /\ text[s] = SubSeq(slot[s].prompt, 1, n)
    BY <2>3, <2>4 DEF RInv, TextOK
  <2>6. batch[j].pos \in Nat
    <3>1. batch \in Seq([seq : Slots, pos : Nat, tok : Nat])
      BY Typed DEF RInv
    <3>2. batch[j] \in [seq : Slots, pos : Nat, tok : Nat]
      BY <1>10, <3>1, ElementOfSeq
    <3> QED
      BY <3>2
  <2>7. PICK p \in Nat, q \in 1 .. n : p = batch[j].pos /\ q = p + 1 /\ p < n
    BY <2>3, <2>5, <2>6
  <2>8. text[s][q] = slot[s].prompt[q]
    <3>1. slot[s].prompt \in Seq(Nat)
      <4>1. slot[s] \in SlotRec
        BY Typed DEF RInv
      <4> QED
        BY <4>1, SlotTyped
    <3>5. PICK prompt \in Seq(Nat) : prompt = slot[s].prompt
      BY <3>1
    <3>2. PICK one \in 1 .. Len(prompt) + 1, e \in Nat :
            one = 1 /\ e = n /\ e \in one - 1 .. Len(prompt)
            /\ \A i \in 1 .. n : i \in 1 .. e + 1 - one /\ one + i - 1 = i
      <4>1. 1 \in 1 .. Len(prompt) + 1 /\ n \in 1 - 1 .. Len(prompt)
            /\ \A i \in 1 .. n : i \in 1 .. n + 1 - 1 /\ 1 + i - 1 = i
        BY <1>10, <3>5
      <4> QED
        BY <4>1
    <3>3. \A i \in 1 .. e + 1 - one : SubSeq(prompt, one, e)[i] = prompt[one + i - 1]
      BY <3>2, PartIs
    <3>4. SubSeq(prompt, one, e) = text[s]
      BY <2>5, <3>2, <3>5
    <3> QED
      BY <2>7, <3>2, <3>3, <3>4, <3>5
  <2>9. new[q] = slot[s].prompt[q]
    <3>1. q \in 1 .. n + k
      BY <2>7
    <3> QED
      BY <1>4, <3>1
  <2> QED
    BY <2>3, <2>7, <2>8, <2>9
<1>15. ASSUME NEW j \in Pending'
       PROVE  TokenOK(j)'
  <2>1. j \in 1 .. b + k
    BY <1>4, <1>10 DEF Pending
  <2>2. r.state # "prompt" => j <= r.iBatch + 1
    BY <1>16, <2>1
  <2>3. slot'[s].state # "prompt" => j <= slot'[s].iBatch + 1
    BY <1>4, <2>2
  <2>4. CASE j \in 1 .. b
    <3>1. batch'[j] = batch[j]
      BY <1>4, <1>10, <2>4
    <3>2. PICK t \in Slots, p \in Nat : t = batch[j].seq /\ p = batch[j].pos
      <4>1. batch \in Seq([seq : Slots, pos : Nat, tok : Nat])
        BY Typed DEF RInv
      <4>2. batch[j] \in [seq : Slots, pos : Nat, tok : Nat]
        BY <1>10, <2>4, <4>1, ElementOfSeq
      <4> QED
        BY <4>2
    <3>3. CASE t = s
      <4>1. p < n /\ batch[j].tok = new[p + 1]
        BY <1>14, <2>4, <3>2, <3>3
      <4>2. p < Len(new)
        BY <1>4, <4>1, SMTT(60)
      <4> QED
        BY <1>4, <1>9, <2>3, <3>1, <3>2, <3>3, <4>1, <4>2, ZenonT(60) DEF TokenOK
    <3>4. CASE t # s
      <4>1. j \in Pending
        BY <1>7, <1>10, <1>13, <2>4 DEF Pending
      <4>2. TokenOK(j)
        BY <4>1 DEF RInv, BatchOK
      <4> QED
        BY <1>4, <1>9, <3>1, <3>2, <3>4, <4>2, ZenonT(60) DEF TokenOK
    <3> QED
      BY <3>3, <3>4
  <2>5. CASE j \notin 1 .. b
    <3>1. PICK i \in 1 .. k : j = b + i
      <4>1. j - b \in 1 .. k /\ j = b + (j - b)
        BY <2>1, <2>5
      <4> QED
        BY <4>1
    <3>2. PICK p \in Nat : p = n + i - 1 /\ p < n + k /\ p + 1 = n + i
      <4>1. n + i - 1 \in Nat /\ n + i - 1 < n + k /\ n + i - 1 + 1 = n + i
        OBVIOUS
      <4> QED
        BY <4>1
    <3>3. batch'[j] = [seq |-> s, pos |-> p, tok |-> new[p + 1]]
      BY <1>4, <1>10, <3>1, <3>2
    <3>4. batch'[j].seq = s /\ batch'[j].pos = p /\ batch'[j].tok = new[p + 1]
      BY <3>3
    <3>5. p < Len(new)
      BY <1>4, <3>2
    <3> QED
      BY <1>4, <1>9, <2>3, <3>4, <3>5 DEF TokenOK
  <2> QED
    BY <2>4, <2>5
<1> QED
  BY <1>6, <1>8, <1>11, <1>12, <1>15 DEF RInv, BatchOK

(* The rest of the prompt goes into the batch. *)
LEMMA ContinuePromptKeeps == ASSUME NEW s \in Slots, RInv, ContinuePrompt(s) PROVE RInv'
<1>1. /\ pc = "prompts" /\ turn = s /\ slot[s].state = "prompt"
      /\ FillBatch(s, slot[s].nPast) /\ hc' = hc /\ hp' = hp /\ Visited(s)
  BY DEF ContinuePrompt, reuseVars
<1>2. slot[s] \in SlotRec /\ hc \in 0 .. Ctx /\ hp \in 0 .. hc
  BY Typed DEF RInv
<1>3. PICK n \in Nat : n = slot[s].nPast
  BY <1>2, SlotTyped
<1>4. Active(s)
  BY <1>1 DEF Active, Working
<1>5. n < Len(slot[s].prompt)
  BY <1>1, <1>3, <1>4 DEF RInv, TextOK
<1>6. FillBatch(s, n)
  BY <1>1, <1>3
<1>7. hc' \in 0 .. Ctx /\ hp' \in 0 .. hc'
  BY <1>1, <1>2
<1> QED
  BY <1>1, <1>3, <1>5, <1>6, <1>7, FillBatchKeeps

LEMMA EndReuseKeeps == ASSUME NEW s \in Slots, RInv, EndReuse(s) PROVE RInv'
<1>1. /\ pc = "reuse" /\ turn = s /\ hc' = 0 /\ hp' = 0 /\ Visited(s)
      /\ FillBatch(s, IF slot[s].nPast = Len(slot[s].prompt)
                      THEN slot[s].nPast - 1 ELSE slot[s].nPast)
  BY DEF EndReuse
<1>2. /\ slot[s].state = "prompt" /\ Len(slot[s].prompt) \in 1 .. Ctx - 1
      /\ slot[s].nPast = hp /\ hp <= Len(slot[s].prompt) /\ hp \in Nat
  BY <1>1, ReusingIs
<1>3. PICK n \in Nat : /\ n = IF slot[s].nPast = Len(slot[s].prompt)
                              THEN slot[s].nPast - 1 ELSE slot[s].nPast
                       /\ n < Len(slot[s].prompt)
  <2>1. PICK l \in Nat, p \in Nat : l = Len(slot[s].prompt) /\ p = slot[s].nPast /\ 1 <= l /\ p <= l
    BY <1>2
  <2>2. (IF p = l THEN p - 1 ELSE p) \in Nat /\ (IF p = l THEN p - 1 ELSE p) < l
    BY <2>1
  <2> QED
    BY <2>1, <2>2
<1>4. FillBatch(s, n)
  BY <1>1, <1>3
<1>5. hc' \in 0 .. Ctx /\ hp' \in 0 .. hc'
  BY <1>1, Options
<1> QED
  BY <1>1, <1>2, <1>3, <1>4, <1>5, FillBatchKeeps

(* The d tokens behind the first f ones are dropped. *)
LEMMA ShiftContextIs ==
  ASSUME RInv, NEW s \in Slots, ShiftContext(s)
  PROVE  /\ Active(s) /\ slot[s].state \in {"done", "gen"}
         /\ kv' \in Caches
         /\ slot' \in [Slots -> SlotRec] /\ \A t \in Slots : t # s => slot'[t] = slot[t]
         /\ text' \in [Slots -> Seq(Nat)] /\ \A t \in Slots : t # s => text'[t] = text[t]
         /\ slot'[s].state = slot[s].state /\ slot'[s].prompt = slot[s].prompt
         /\ slot'[s].keep = slot[s].keep /\ slot'[s].discard = slot[s].discard
         /\ slot'[s].caching = slot[s].caching /\ slot'[s].iBatch = slot[s].iBatch
         /\ ~slot[s].caching => slot'[s].cached = slot[s].cached
         /\ \E f \in Nat, d \in Nat, l \in Nat :
             /\ 0 < d /\ l = Len(text[s]) /\ f + d <= l /\ l < Ctx /\ f <= l - d /\ 0 <= l - d
             /\ slot'[s].nPast = l - d
             /\ slot[s].caching =>
                  /\ Len(slot'[s].cached) = l - d
                  /\ \A i \in 1 .. l - d :
                       slot'[s].cached[i] = IF i <= f THEN slot[s].cached[i]
                                            ELSE slot[s].cached[i + d]
             /\ Len(text'[s]) = l - d
             /\ \A i \in 1 .. l - d : text'[s][i] = IF i <= f THEN text[s][i] ELSE text[s][i + d]
             /\ \A i \in Cells :
                  IF kv.cells[i].seq = s /\ kv.cells[i].pos >= f
                  THEN IF kv.cells[i].pos < f + d THEN kv'.cells[i] = KV!Free
                       ELSE /\ kv'.cells[i].seq = s /\ kv'.cells[i].tok = kv.cells[i].tok
                            /\ kv'.cells[i].pos = kv.cells[i].pos - d
                  ELSE kv'.cells[i] = kv.cells[i]
<1> DEFINE from    == slot[s].keep + AddBos
           discard == IF slot[s].discard # 0 THEN slot[s].discard
                      ELSE (slot[s].nPast - from) \div 2
<1> HIDE DEF from, discard
<1>1. /\ slot[s] \in SlotRec /\ slot \in [Slots -> SlotRec] /\ text \in [Slots -> Seq(Nat)]
      /\ kv \in Caches
  BY Typed DEF RInv
<1>2. PICK keep \in Int, nPast \in Nat, prompt \in Seq(Nat), cached \in Seq(Nat), old \in Seq(Nat) :
        /\ keep = slot[s].keep /\ nPast = slot[s].nPast /\ prompt = slot[s].prompt
        /\ cached = slot[s].cached /\ old = text[s]
  BY <1>1, SlotTyped
<1>3. /\ Ctx \in Nat /\ Ctx >= 4 /\ AddBos \in 0 .. 1 /\ pc = "shift" /\ turn = s
      /\ nPast + 1 >= Ctx
  BY <1>2, Options DEF ShiftContext, Full
<1>4. /\ Working(s) /\ Active(s) /\ nPast = Ctx - 1 /\ keep \in 0 .. Ctx - 4
      /\ slot[s].discard \in 0 .. 2
  <2>1. SlotOK(s)
    BY DEF RInv
  <2>2. slot[s].discard \in 0 .. 2 /\ nPast < Ctx /\ (~Working(s) => nPast = 0)
        /\ (Working(s) => keep \in 0 .. Ctx - 4)
    BY <1>2, <2>1 DEF SlotOK
  <2>3. Working(s)
    BY <1>3, <2>2
  <2> QED
    BY <1>3, <2>2, <2>3 DEF Active
<1>5. /\ Len(old) = nPast
      /\ slot[s].caching => Len(cached) = nPast
      /\ slot[s].state \in {"done", "gen"}
  <2>1. /\ Len(text[s]) = slot[s].nPast
        /\ slot[s].caching => Len(slot[s].cached) = slot[s].nPast
        /\ slot[s].state = "prompt" => slot[s].nPast < Len(slot[s].prompt)
        /\ slot[s].state = "prompt" => Len(slot[s].prompt) < Ctx
    BY <1>4 DEF RInv, SlotOK, TextOK
  <2>2. Len(prompt) \in Nat
    BY LenProperties
  <2>3. slot[s].state # "prompt"
    BY <1>2, <1>3, <1>4, <2>1, <2>2
  <2> QED
    BY <1>2, <1>4, <2>1, <2>3 DEF Working
<1>6. PICK f \in Nat : f = from /\ f <= Ctx - 3
  <2>1. keep + AddBos \in Nat /\ keep + AddBos <= Ctx - 3
    BY <1>3, <1>4
  <2> QED
    BY <1>2, <2>1 DEF from
<1>7. PICK d \in Nat \ {0} : d = discard /\ f + d <= nPast
  <2>1. PICK w \in Nat : w = nPast - f /\ w >= 2
    <3>1. nPast = Ctx - 1 /\ Ctx \in Nat /\ f <= Ctx - 3
      BY <1>3, <1>4, <1>6
    <3>2. nPast - f \in Nat /\ nPast - f >= 2
      BY <3>1
    <3> QED
      BY <3>2
  <2>2. PICK h \in Nat : h = w \div 2 /\ h <= w /\ h >= 1
    <3>1. w \div 2 \in Nat /\ w \div 2 <= w /\ w \div 2 >= 1
      BY <2>1
    <3> QED
      BY <3>1
  <2>3. discard = IF slot[s].discard # 0 THEN slot[s].discard ELSE h
    BY <1>2, <1>6, <2>1, <2>2 DEF discard
  <2>4. PICK x \in 0 .. 2 : x = slot[s].discard
    BY <1>4
  <2>5. discard = IF x # 0 THEN x ELSE h
    BY <2>3, <2>4
  <2>6. (IF x # 0 THEN x ELSE h) \in Nat \ {0} /\ f + (IF x # 0 THEN x ELSE h) <= nPast
    BY <2>1, <2>2
  <2> QED
    BY <2>5, <2>6
<1>8. PICK m \in Nat : m = nPast - d /\ f <= m
  <2>1. nPast - d \in Nat /\ f <= nPast - d
    BY <1>7
  <2> QED
    BY <2>1
<1>9. PICK new : new = Without(old, f, d)
  OBVIOUS
<1>26. f + d <= nPast
  BY <1>7
<1>10. /\ new \in Seq(Nat) /\ Len(new) = m
       /\ \A i \in 1 .. m : new[i] = IF i <= f THEN old[i] ELSE old[i + d]
  <2>1. f + d <= Len(old)
    BY <1>5, <1>26
  <2>2. d \in Nat /\ Len(old) - d = m
    BY <1>5, <1>8
  <2>3. /\ new \in Seq(Nat) /\ Len(new) = Len(old) - d
        /\ \A i \in 1 .. Len(old) - d : new[i] = IF i <= f THEN old[i] ELSE old[i + d]
    <3>1. old \in Seq(Nat) /\ f \in Nat /\ d \in Nat
      BY <1>2, <1>6, <1>7
    <3>2. /\ Without(old, f, d) \in Seq(Nat) /\ Len(Without(old, f, d)) = Len(old) - d
          /\ \A i \in 1 .. Len(old) - d :
               Without(old, f, d)[i] = IF i <= f THEN old[i] ELSE old[i + d]
      BY ONLY <2>1, <3>1, WithoutIs, ZenonT(60)
    <3> QED
      BY <1>9, <3>2
  <2> QED
    BY <2>2, <2>3
<1>11. PICK less : less = IF slot[s].caching THEN Without(cached, f, d) ELSE cached
  OBVIOUS
<1>12. /\ less \in Seq(Nat)
       /\ ~slot[s].caching => less = cached
       /\ slot[s].caching =>
            /\ Len(less) = m
            /\ \A i \in 1 .. m : less[i] = IF i <= f THEN cached[i] ELSE cached[i + d]
  <2>1. CASE slot[s].caching
    <3>1. f + d <= Len(cached) /\ less = Without(cached, f, d)
      BY <1>5, <1>26, <1>11, <2>1
    <3>4. f + d <= Len(cached)
      BY <3>1
    <3>2. d \in Nat /\ Len(cached) - d = m
      BY <1>5, <1>8, <2>1
    <3>3. /\ less \in Seq(Nat) /\ Len(less) = Len(cached) - d
          /\ \A i \in 1 .. Len(cached) - d :
               less[i] = IF i <= f THEN cached[i] ELSE cached[i + d]
      <4>1. cached \in Seq(Nat) /\ f \in Nat /\ d \in Nat
        BY <1>2, <1>6, <1>7
      <4>2. /\ Without(cached, f, d) \in Seq(Nat)
            /\ Len(Without(cached, f, d)) = Len(cached) - d
            /\ \A i \in 1 .. Len(cached) - d :
                 Without(cached, f, d)[i] = IF i <= f THEN cached[i] ELSE cached[i + d]
        BY ONLY <3>4, <4>1, WithoutIs
      <4> QED
        BY <3>1, <4>2
    <3> QED
      BY <2>1, <3>2, <3>3
  <2>2. CASE ~slot[s].caching
    <3>1. less = cached
      BY <1>11, <2>2
    <3> QED
      BY <2>2, <3>1
  <2> QED
    BY <2>1, <2>2
<1>13. /\ kv' = KV!SeqAdd(KV!SeqRm(kv, s, f, f + d), s, f + d, nPast, -d)
       /\ slot' = [slot EXCEPT ![s].cached = IF slot[s].caching THEN Without(@, f, d) ELSE @,
                               ![s].nPast = @ - d]
       /\ text' = [text EXCEPT ![s] = Without(@, f, d)]
  <2>1. f = from /\ d = discard /\ nPast = slot[s].nPast
    BY <1>2, <1>6, <1>7
  <2> QED
    BY <2>1 DEF ShiftContext, from, discard
<1>14. PICK r : r = [slot[s] EXCEPT !.cached = less, !.nPast = m]
  OBVIOUS
<1>15. /\ r \in SlotRec /\ r.nPast = m /\ r.cached = less
       /\ r.state = slot[s].state /\ r.prompt = slot[s].prompt /\ r.keep = slot[s].keep
       /\ r.discard = slot[s].discard /\ r.caching = slot[s].caching
       /\ r.iBatch = slot[s].iBatch
  <2>1. m \in 0 .. Ctx
    BY <1>3, <1>4, <1>8
  <2>2. less \in Seq(Nat)
    BY <1>12
  <2> QED
    BY <1>1, <1>14, <2>1, <2>2 DEF SlotRec
<1>16. slot' = [slot EXCEPT ![s] = r]
  BY <1>1, <1>2, <1>8, <1>11, <1>13, <1>14
<1>17. /\ slot' \in [Slots -> SlotRec] /\ slot'[s] = r
       /\ \A t \in Slots : t # s => slot'[t] = slot[t]
  BY <1>1, <1>15, <1>16, SlotsAfter
<1>18. /\ text' \in [Slots -> Seq(Nat)] /\ text'[s] = new
       /\ \A t \in Slots : t # s => text'[t] = text[t]
  BY <1>1, <1>2, <1>9, <1>10, <1>13
<1>19. /\ kv' \in Caches
       /\ \A i \in Cells :
            IF kv.cells[i].seq = s /\ kv.cells[i].pos >= f
            THEN IF kv.cells[i].pos < f + d THEN kv'.cells[i] = KV!Free
                 ELSE /\ kv'.cells[i].seq = s /\ kv'.cells[i].tok = kv.cells[i].tok
                      /\ kv'.cells[i].pos = kv.cells[i].pos - d
            ELSE kv'.cells[i] = kv.cells[i]
  <2>1. \A i \in Cells : kv.cells[i].seq = s => kv.cells[i].pos < nPast
    <3>1. Len(text[s]) = nPast /\ Active(s)
      BY <1>2, <1>4, <1>5
    <3> QED
      BY <3>1 DEF RInv, CellsOK
  <2>2. PICK b \in Nat, e \in Int, x \in Int :
          b = f + d /\ e = nPast /\ x = -d /\ x = f - b /\ f <= b /\ b - f = d
    <3>1. f + d \in Nat /\ nPast \in Int /\ -d \in Int /\ -d = f - (f + d) /\ f <= f + d
          /\ f + d - f = d
      OBVIOUS
    <3> QED
      BY <3>1
  <2>3. kv' = KV!SeqAdd(KV!SeqRm(kv, s, f, b), s, b, e, x)
    BY <1>13, <2>2
  <2>4. /\ kv \in Caches /\ f \in Nat /\ b \in Nat /\ e \in Int /\ x \in Int
        /\ f <= b /\ x = f - b
    BY <1>1, <1>6, <2>2
  <2>5. Below(kv, s, e)
    BY <2>1, <2>2 DEF Below
  <2>6. kv' \in Caches /\ MovedDown(kv, kv', s, f, b)
    BY ONLY s \in Slots, <2>3, <2>4, <2>5, MovedIs
  <2> QED
    BY <2>2, <2>6 DEF MovedDown
<1>20. PICK l \in Nat : l = nPast /\ l = Len(text[s]) /\ m = l - d
  BY <1>2, <1>5, <1>8
<1>21. /\ slot'[s].state = slot[s].state /\ slot'[s].prompt = slot[s].prompt
       /\ slot'[s].keep = slot[s].keep /\ slot'[s].discard = slot[s].discard
       /\ slot'[s].caching = slot[s].caching /\ slot'[s].iBatch = slot[s].iBatch
       /\ slot'[s].nPast = l - d /\ slot'[s].cached = less
  BY <1>15, <1>17, <1>20
<1>22. /\ ~slot[s].caching => slot'[s].cached = slot[s].cached
       /\ slot[s].caching =>
            /\ Len(slot'[s].cached) = l - d
            /\ \A i \in 1 .. l - d :
                 slot'[s].cached[i] = IF i <= f THEN slot[s].cached[i]
                                      ELSE slot[s].cached[i + d]
  BY <1>2, <1>12, <1>20, <1>21
<1>23. /\ Len(text'[s]) = l - d
       /\ \A i \in 1 .. l - d : text'[s][i] = IF i <= f THEN text[s][i] ELSE text[s][i + d]
  BY <1>2, <1>10, <1>18, <1>20
<1>24. l < Ctx
  BY <1>3, <1>4, <1>20
<1>25. 0 < d /\ l = Len(text[s]) /\ f + d <= l /\ l < Ctx /\ f <= l - d /\ 0 <= l - d
  BY <1>8, <1>20, <1>24, <1>26
<1>27. Active(s) /\ slot[s].state \in {"done", "gen"}
  BY <1>4, <1>5
<1>28. f \in Nat /\ d \in Nat /\ l \in Nat
  BY <1>6, <1>7, <1>20
<1>29. \E f0 \in Nat, d0 \in Nat, l0 \in Nat :
     /\ 0 < d0 /\ l0 = Len(text[s]) /\ f0 + d0 <= l0 /\ l0 < Ctx /\ f0 <= l0 - d0 /\ 0 <= l0 - d0
     /\ slot'[s].nPast = l0 - d0
     /\ slot[s].caching =>
          /\ Len(slot'[s].cached) = l0 - d0
          /\ \A i \in 1 .. l0 - d0 :
               slot'[s].cached[i] = IF i <= f0 THEN slot[s].cached[i]
                                    ELSE slot[s].cached[i + d0]
     /\ Len(text'[s]) = l0 - d0
     /\ \A i \in 1 .. l0 - d0 : text'[s][i] = IF i <= f0 THEN text[s][i] ELSE text[s][i + d0]
     /\ \A i \in Cells :
          IF kv.cells[i].seq = s /\ kv.cells[i].pos >= f0
          THEN IF kv.cells[i].pos < f0 + d0 THEN kv'.cells[i] = KV!Free
               ELSE /\ kv'.cells[i].seq = s /\ kv'.cells[i].tok = kv.cells[i].tok
                    /\ kv'.cells[i].pos = kv.cells[i].pos - d0
          ELSE kv'.cells[i] = kv.cells[i]
  BY ONLY <1>19, <1>21, <1>22, <1>23, <1>25, <1>28
<1>30. /\ slot'[s].state = slot[s].state /\ slot'[s].prompt = slot[s].prompt
       /\ slot'[s].keep = slot[s].keep /\ slot'[s].discard = slot[s].discard
       /\ slot'[s].caching = slot[s].caching /\ slot'[s].iBatch = slot[s].iBatch
       /\ ~slot[s].caching => slot'[s].cached = slot[s].cached
  BY <1>21, <1>22
<1> QED
  BY <1>17, <1>18, <1>19, <1>27, <1>29, <1>30

LEMMA ShiftContextKeeps == ASSUME NEW s \in Slots, RInv, ShiftContext(s) PROVE RInv'
<1>1. /\ pc = "shift" /\ turn = s /\ turn \in Slots /\ turn \in Nat /\ Turn("shift", "gen")
      /\ UNCHANGED <<server, reuseVars, batch, decodeVars>>
  BY Typed DEF ShiftContext, RInv
<1>2. /\ turn' \in Slots /\ pc' \in {"shift", "gen"}
      /\ \/ turn' = turn + 1 /\ pc' = "shift"
         \/ turn = NSlots /\ turn' = 1 /\ pc' = "gen"
  BY <1>1, TurnIs
<1>3. UNCHANGED <<launched, ctxShift, clean, hc, hp, batch, at, chunk, placed, saved>>
  BY <1>1 DEF server, reuseVars, decodeVars
<1>4. /\ Active(s) /\ slot[s].state \in {"done", "gen"}
      /\ kv' \in Caches
      /\ slot' \in [Slots -> SlotRec] /\ \A t \in Slots : t # s => slot'[t] = slot[t]
      /\ text' \in [Slots -> Seq(Nat)] /\ \A t \in Slots : t # s => text'[t] = text[t]
      /\ slot'[s].state = slot[s].state /\ slot'[s].prompt = slot[s].prompt
      /\ slot'[s].keep = slot[s].keep /\ slot'[s].discard = slot[s].discard
      /\ slot'[s].caching = slot[s].caching /\ slot'[s].iBatch = slot[s].iBatch
      /\ ~slot[s].caching => slot'[s].cached = slot[s].cached
  BY ShiftContextIs
<1>5. PICK f \in Nat, d \in Nat, l \in Nat :
        /\ 0 < d /\ l = Len(text[s]) /\ f + d <= l /\ l < Ctx /\ f <= l - d /\ 0 <= l - d
        /\ slot'[s].nPast = l - d
        /\ slot[s].caching =>
             /\ Len(slot'[s].cached) = l - d
             /\ \A i \in 1 .. l - d :
                  slot'[s].cached[i] = IF i <= f THEN slot[s].cached[i]
                                       ELSE slot[s].cached[i + d]
        /\ Len(text'[s]) = l - d
        /\ \A i \in 1 .. l - d : text'[s][i] = IF i <= f THEN text[s][i] ELSE text[s][i + d]
        /\ \A i \in Cells :
             IF kv.cells[i].seq = s /\ kv.cells[i].pos >= f
             THEN IF kv.cells[i].pos < f + d THEN kv'.cells[i] = KV!Free
                  ELSE /\ kv'.cells[i].seq = s /\ kv'.cells[i].tok = kv.cells[i].tok
                       /\ kv'.cells[i].pos = kv.cells[i].pos - d
             ELSE kv'.cells[i] = kv.cells[i]
  BY ShiftContextIs
<1>6. PICK m \in Nat : /\ m = l - d /\ m + 1 < Ctx /\ f <= m
                       /\ slot'[s].nPast = m /\ Len(text'[s]) = m
                       /\ slot[s].caching => Len(slot'[s].cached) = m
  <2>1. 0 < d /\ l < Ctx /\ f <= l - d /\ 0 <= l - d /\ Ctx \in Nat
    BY <1>5, Options
  <2>2. l - d \in Nat /\ l - d + 1 < Ctx /\ f <= l - d
    BY <2>1
  <2>3. /\ slot'[s].nPast = l - d /\ Len(text'[s]) = l - d
        /\ slot[s].caching => Len(slot'[s].cached) = l - d
    BY <1>5
  <2> QED
    BY <2>2, <2>3
<1>7. TypeOK'
  BY <1>2, <1>3, <1>4 DEF RInv, TypeOK, SlotRec, Caches
<1>8. RoundOK' /\ ReuseOK'
  BY <1>1, <1>2, <1>3 DEF RInv, RoundOK, ReuseOK, Chunk
<1>9. \A t \in Slots : Active(t)' <=> Active(t)
  BY <1>1, <1>2, <1>4 DEF Active, Working
<1>10. \A t \in Slots : Shifted(t)' => t = s \/ slot[t].nPast + 1 < Ctx
  BY <1>1, <1>2, ShiftedOn DEF RInv
<1>11. ASSUME NEW t \in Slots
       PROVE  SlotOK(t)' /\ TextOK(t)'
  <2>1. SlotOK(t) /\ TextOK(t)
    BY DEF RInv
  <2>2. CASE t = s
    <3>1. Working(s) /\ Working(s)'
      BY <1>4 DEF Active, Working
    <3>2. m < Ctx /\ m <= Ctx /\ Ctx \in Nat
      BY <1>6, Options
    <3>3. Len(slot'[s].cached) <= Ctx
      BY <1>4, <1>6, <2>1, <2>2, <3>2 DEF SlotOK
    <3>4. slot'[s].state # "prompt"
      BY <1>4
    <3>5. SlotOK(s)'
      BY <1>4, <1>6, <2>1, <2>2, <3>1, <3>2, <3>3, <3>4 DEF SlotOK
    <3>6. TextOK(s)'
      BY <1>4, <1>6, <3>4 DEF TextOK
    <3> QED
      BY <2>2, <3>5, <3>6
  <2>3. CASE t # s
    BY <1>4, <1>9, <1>10, <2>1, <2>3, SlotStays
  <2> QED
    BY <2>2, <2>3
<1>12. Pending' = {}
  <2>1. Pending = {} /\ Pending' \subseteq Pending
    BY <1>1, <1>3, NothingPending, SameBatch
  <2> QED
    BY <2>1
<1>13. CellsOK'
  <2>1. ASSUME NEW i \in Cells, NEW t \in Slots, kv'.cells[i].seq = t
        PROVE  kv'.cells[i].pos < Ctx /\ (Active(t)' => kv'.cells[i].pos < Len(text'[t]))
    <3>1. /\ kv.cells[i].seq = t => /\ kv.cells[i].pos < Ctx
                                    /\ Active(t) => kv.cells[i].pos < Len(text[t])
          /\ kv.cells[i].pos \in Int
      BY Typed, CachesAre, CellTyped DEF RInv, CellsOK
    <3>2. CASE kv.cells[i].seq # s
      BY <1>4, <1>5, <1>9, <2>1, <3>1, <3>2
    <3>3. CASE kv.cells[i].seq = s
      <4>1. kv.cells[i].pos < l
        BY <1>4, <1>5, <3>1, <3>3 DEF CellsOK, RInv
      <4>2. CASE kv.cells[i].pos >= f
        <5>1. kv'.cells[i] # KV!Free
          BY <2>1, CachesAre
        <5>2. kv'.cells[i].seq = s /\ kv'.cells[i].pos = kv.cells[i].pos - d
          BY <1>5, <3>3, <4>2, <5>1
        <5>3. kv.cells[i].pos - d < m /\ kv.cells[i].pos - d < Ctx
          BY <1>6, <3>1, <4>1, Options, SMTT(60)
        <5> QED
          BY <1>6, <2>1, <5>2, <5>3
      <4>3. CASE ~(kv.cells[i].pos >= f)
        <5>1. kv'.cells[i] = kv.cells[i]
          BY <1>5, <4>3
        <5>2. kv.cells[i].pos < m /\ kv.cells[i].pos < Ctx
          BY <1>6, <3>1, <4>3, Options
        <5> QED
          BY <1>6, <2>1, <3>3, <5>1, <5>2
      <4> QED
        BY <4>2, <4>3
    <3> QED
      BY <3>2, <3>3
  <2> QED
    BY <2>1 DEF CellsOK
<1>14. BatchOK'
  BY <1>12 DEF BatchOK
<1> QED
  BY <1>7, <1>8, <1>11, <1>13, <1>14 DEF RInv
-----------------------------------------------------------------------------
(* Every step keeps the invariant. *)
LEMMA RInvNext == RInv /\ [Next]_vars => RInv'
<1> SUFFICES ASSUME RInv, [Next]_vars
             PROVE  RInv'
  OBVIOUS
<1>1. CASE BeginRound
  BY <1>1, BeginRoundKeeps
<1>2. CASE NoRoom
  BY <1>2, NoRoomKeeps
<1>3. CASE NextChunk
  BY <1>3, NextChunkKeeps
<1>4. ASSUME NEW h \in KV!Cells, PlaceUbatch(h) \/ ComputeFails(h)
      PROVE  RInv'
  BY <1>4, PlaceUbatchKeeps, ComputeFailsKeeps DEF Cells
<1>5. ASSUME NEW s \in Slots, ShiftContext(s) \/ StopFull(s) \/ KeepContext(s)
      PROVE  RInv'
  BY <1>5, ShiftContextKeeps, StopFullKeeps, KeepContextKeeps
<1>6. ASSUME NEW s \in Slots, AddSampled(s) \/ SkipSampled(s)
      PROVE  RInv'
  BY <1>6, AddSampledKeeps, SkipSampledKeeps
<1>7. ASSUME NEW s \in Slots,
             SkipPrompt(s) \/ RejectPrompt(s) \/ StartPrompt(s) \/ ContinuePrompt(s)
      PROVE  RInv'
  BY <1>7, SkipPromptKeeps, RejectPromptKeeps, StartPromptKeeps, ContinuePromptKeeps
<1>8. ASSUME NEW s \in Slots, ReuseChunk(s) \/ SkipCached(s) \/ EndReuse(s)
      PROVE  RInv'
  BY <1>8, ReuseChunkKeeps, SkipCachedKeeps, EndReuseKeeps
<1>9. ASSUME NEW s \in Slots, SampleToken(s) \/ SampleLast(s)
      PROVE  RInv'
  BY <1>9, SampleTokenKeeps, SampleLastKeeps
<1>10. CASE ClearCache
  BY <1>10, ClearCacheKeeps
<1>11. CASE DecodeRejects
  BY <1>11, DecodeRejectsKeeps
<1>12. ASSUME NEW s \in Slots, LaunchSlot(s) \/ CancelSlot(s)
       PROVE  RInv'
  BY <1>12, LaunchSlotKeeps, CancelSlotKeeps
<1>13. CASE UNCHANGED vars
  <2>1. UNCHANGED <<pc, turn, launched, ctxShift, clean, kv, slot, hc, hp, batch, at, chunk,
                    placed, saved, text>>
    BY <1>13 DEF vars, server, reuseVars, decodeVars
  <2>2. TypeOK' /\ ReuseOK' /\ RoundOK' /\ CellsOK'
    BY <2>1 DEF RInv, TypeOK, ReuseOK, RoundOK, CellsOK, Chunk, Active, Working
  <2>3. \A s \in Slots : SlotOK(s)' /\ TextOK(s)'
    BY <2>1 DEF RInv, SlotOK, TextOK, Active, Working, Shifted
  <2>4. BatchOK'
    BY <2>1 DEF RInv, BatchOK, Pending, TokenOK, Chunk, Active, Working
  <2> QED
    BY <2>2, <2>3, <2>4 DEF RInv
<1> QED
  BY <1>1, <1>2, <1>3, <1>4, <1>5, <1>6, <1>7, <1>8, <1>9, <1>10, <1>11, <1>12, <1>13
     DEF Next, Round

(* Whatever is launched, cancelled, shifted, reused or fails: the types of *)
(* update_slots are kept.  A position stays in the context, and the heads  *)
(* of the reuse, the chunk and the head of the cache in their bounds.      *)
THEOREM RoundsTyped == Spec => []TypeOK
<1>1. RInv => TypeOK
  BY DEF RInv
<1> QED
  BY <1>1, RInvInit, RInvNext, PTL DEF Spec

(* llama_kv_cache_find_slot finds n free cells in a row exactly when there *)
(* are such cells, wherever the head is and however the cells are used.    *)
THEOREM SearchFindsRoom == Spec => []RoomIsFound
<1>1. TypeOK => RoomIsFound
  <2> SUFFICES ASSUME TypeOK, NEW n \in 1 .. UBatch
               PROVE  KV!FindSlot(kv, n).found <=>
                        \E h \in 0 .. NSlots * Ctx - n :
                          \A i \in h .. h + n - 1 : kv.cells[i] = KV!Free
    BY DEF RoomIsFound
  <2>1. PICK m \in 0 .. Size : m = n /\ Size \in Nat
    <3>1. UBatch \in Nat /\ UBatch <= Size /\ Size \in Nat
      BY Options, SizeIs DEF Size
    <3>2. n \in 0 .. Size
      BY <3>1
    <3> QED
      BY <3>1, <3>2
  <2>2. kv.head \in 0 .. Size
    BY Typed, CachesAre
  <2>3. PICK r : r = KV!FindSlot(kv, m)
    OBVIOUS
  <2>4. /\ r \in [found : BOOLEAN, head : 0 .. Size]
        /\ r.found => r.head + m <= Size /\ KV!Taken(kv, r.head, m) = {}
        /\ ~r.found => \A h \in 0 .. Size - m : KV!Taken(kv, h, m) # {}
    BY <2>1, <2>2, <2>3, SearchIs
  <2>5. ASSUME NEW h \in 0 .. Size - m
        PROVE  KV!Taken(kv, h, m) = {} <=> \A i \in h .. h + m - 1 : kv.cells[i] = KV!Free
    <3>1. KV!Taken(kv, h, m) = {i \in 0 .. m - 1 : kv.cells[h + i] # KV!Free}
      BY DEF KV!Taken
    <3>2. ASSUME KV!Taken(kv, h, m) = {}, NEW i \in h .. h + m - 1
          PROVE  kv.cells[i] = KV!Free
      <4>1. PICK j \in 0 .. m - 1 : i = h + j
        <5>1. i - h \in 0 .. m - 1 /\ i = h + (i - h)
          BY <2>1
        <5> QED
          BY <5>1
      <4> QED
        BY <3>1, <3>2, <4>1
    <3>3. ASSUME \A i \in h .. h + m - 1 : kv.cells[i] = KV!Free
          PROVE  KV!Taken(kv, h, m) = {}
      <4>1. \A j \in 0 .. m - 1 : h + j \in h .. h + m - 1
        BY <2>1
      <4> QED
        BY <3>1, <3>3, <4>1
    <3> QED
      BY <3>2, <3>3
  <2>6. r.found => r.head \in 0 .. Size - m
    <3>1. r.head \in 0 .. Size
      BY <2>4
    <3> QED
      BY <2>1, <2>4, <3>1
  <2>7. r.found <=> \E h \in 0 .. Size - m : KV!Taken(kv, h, m) = {}
    BY <2>4, <2>6
  <2>8. (\E h \in 0 .. Size - m : KV!Taken(kv, h, m) = {})
          <=> \E h \in 0 .. Size - m : \A i \in h .. h + m - 1 : kv.cells[i] = KV!Free
    BY <2>5
  <2> QED
    BY <2>1, <2>3, <2>7, <2>8 DEF Size
<1> QED
  BY <1>1, RoundsTyped, PTL
-----------------------------------------------------------------------------
(***************************************************************************)
(* No wrong token.                                                         *)
(***************************************************************************)
(* No chunks are reused, and no prompt has the token that cache_tokens is  *)
(* padded with where a request does without the cache.                     *)
PlainCache ==
  /\ CacheReuse = 0
  /\ FALSE \in Caching =>
       \A prompt \in Prompts : \A n \in 1 .. Len(prompt) : prompt[n] # 0

(* A prompt that is not evaluated yet has tokens of its request. *)
PromptTold(s) ==
  /\ slot[s].caching \/ FALSE \in Caching
  /\ slot[s].state \in {"started", "prompt"} /\ FALSE \in Caching =>
       \A n \in 1 .. Len(slot[s].prompt) : slot[s].prompt[n] # 0

(* The cells of a slot that works hold its text, and cache_tokens says so, *)
(* or is padding.                                                          *)
TextHeld(s) ==
  Active(s) =>
    /\ slot[s].caching => \A n \in 1 .. Len(text[s]) : slot[s].cached[n] = text[s][n]
    /\ ~slot[s].caching => \A n \in 1 .. Len(slot[s].cached) : slot[s].cached[n] = 0
    /\ \A i \in Cells : kv.cells[i].seq = s => kv.cells[i].tok = text[s][kv.cells[i].pos + 1]

(* What other slots have left in their cells has the name it has in        *)
(* cache_tokens, or one that no prompt asks for.                           *)
LeftNamed(s) ==
  ~Active(s) =>
    \A i \in Cells :
      kv.cells[i].seq = s /\ kv.cells[i].pos < Len(slot[s].cached) =>
        \/ slot[s].cached[kv.cells[i].pos + 1] = kv.cells[i].tok
        \/ slot[s].cached[kv.cells[i].pos + 1] = 0 /\ FALSE \in Caching

(* What is reused of cache_tokens is the beginning of the prompt. *)
PrefixReused(s) ==
  pc = "reuse" /\ turn = s =>
    /\ ~slot[s].caching => slot[s].nPast = 0
    /\ slot[s].nPast <= Len(slot[s].cached)
    /\ \A n \in 1 .. slot[s].nPast : slot[s].cached[n] = slot[s].prompt[n]

TokensOK(s) == PromptTold(s) /\ TextHeld(s) /\ LeftNamed(s) /\ PrefixReused(s)

TInv == RInv /\ \A s \in Slots : TokensOK(s)

(* A cell that a step gives to a slot holds the text of the slot. *)
Follows(s) ==
  \A i \in Cells :
    kv'.cells[i].seq = s =>
      \/ kv'.cells[i] = kv.cells[i]
      \/ /\ Active(s) /\ kv'.cells[i].pos < Len(text[s])
         /\ kv'.cells[i].tok = text[s][kv'.cells[i].pos + 1]

(* Cells that are left alone or freed. *)
LEMMA FreedFollow ==
  ASSUME \A i \in Cells : kv'.cells[i] \in {KV!Free, kv.cells[i]}
  PROVE  \A s \in Slots : Follows(s)
BY CachesAre DEF Follows

(* A slot that the step leaves alone. *)
LEMMA TokensRest ==
  ASSUME NEW s \in Slots, TokensOK(s), slot'[s] = slot[s], text'[s] = text[s], Follows(s),
         Active(s)' <=> Active(s), pc' = "reuse" /\ turn' = s => pc = "reuse" /\ turn = s
  PROVE  TokensOK(s)'
<1>1. PromptTold(s)' /\ PrefixReused(s)'
  BY DEF TokensOK, PromptTold, PrefixReused
<1>2. TextHeld(s)'
  BY DEF TokensOK, TextHeld, Follows
<1>3. LeftNamed(s)'
  BY DEF TokensOK, LeftNamed, Follows
<1> QED
  BY <1>1, <1>2, <1>3 DEF TokensOK

(* A slot that is released, or was idle. *)
LEMMA TokensLeft ==
  ASSUME NEW s \in Slots, RInv, TokensOK(s), Follows(s), kv' \in Caches,
         slot'[s].state = "idle", slot'[s].cached = slot[s].cached, slot'[s].caching \in {TRUE, slot[s].caching},
         ~(pc' = "reuse" /\ turn' = s)
  PROVE  TokensOK(s)'
<1>1. PromptTold(s)' /\ PrefixReused(s)' /\ ~Active(s)'
  BY DEF TokensOK, PromptTold, PrefixReused, Active, Working
<1>2. TextHeld(s)'
  BY <1>1 DEF TextHeld
<1>3. ASSUME NEW i \in Cells, kv'.cells[i].seq = s, kv'.cells[i].pos < Len(slot[s].cached)
      PROVE  \/ slot[s].cached[kv'.cells[i].pos + 1] = kv'.cells[i].tok
             \/ slot[s].cached[kv'.cells[i].pos + 1] = 0 /\ FALSE \in Caching
  <2>1. PICK c \in [seq : Slots, pos : Nat, tok : Nat] : c = kv'.cells[i]
    BY <1>3, CachesAre, CellTyped
  <2>2. PICK p \in Nat : p = c.pos /\ p + 1 \in Nat
    BY <2>1
  <2>3. CASE Active(s)
    <3>1. c.tok = text[s][p + 1] /\ p < Len(text[s])
      <4>1. CASE c = kv.cells[i]
        BY <1>3, <2>1, <2>2, <2>3, <4>1 DEF TokensOK, TextHeld, RInv, CellsOK
      <4>2. CASE c # kv.cells[i]
        BY <1>3, <2>1, <2>2, <2>3, <4>2 DEF Follows
      <4> QED
        BY <4>1, <4>2
    <3>2. Len(text[s]) \in Nat /\ p + 1 \in 1 .. Len(text[s])
      <4>1. Len(text[s]) \in Nat
        BY Typed, LenProperties DEF RInv
      <4> QED
        BY <2>2, <3>1, <4>1
    <3>3. slot[s] \in SlotRec
      BY Typed DEF RInv
    <3>4. CASE slot[s].caching
      BY <2>1, <2>2, <2>3, <3>1, <3>2, <3>4 DEF TokensOK, TextHeld
    <3>5. CASE ~slot[s].caching
      <4>1. Len(slot[s].cached) \in Nat /\ p < Len(slot[s].cached)
        BY <1>3, <2>1, <2>2, <3>3, SlotTyped
      <4>2. p + 1 \in 1 .. Len(slot[s].cached)
        BY <2>2, <4>1
      <4> QED
        BY <2>1, <2>2, <2>3, <3>5, <4>2 DEF TokensOK, TextHeld, PromptTold
    <3> QED
      BY <3>4, <3>5
  <2>4. CASE ~Active(s)
    BY <1>3, <2>4 DEF TokensOK, LeftNamed, Follows
  <2> QED
    BY <2>3, <2>4
<1>4. LeftNamed(s)'
  BY <1>3 DEF LeftNamed
<1> QED
  BY <1>1, <1>2, <1>4 DEF TokensOK

(* Steps that only release slots or give the cells to what was batched. *)
LEMMA TokensQuiet ==
  ASSUME TInv, RInv', pc # "reuse", pc' # "reuse", \A s \in Slots : Follows(s),
         \A s \in Slots :
           \/ slot'[s] = slot[s] /\ text'[s] = text[s]
           \/ /\ slot'[s].state = "idle" /\ slot'[s].cached = slot[s].cached
              /\ slot'[s].caching \in {TRUE, slot[s].caching}
  PROVE  \A s \in Slots : TokensOK(s)'
<1> TAKE s \in Slots
<1>1. TokensOK(s) /\ RInv /\ Follows(s) /\ kv' \in Caches
  BY DEF TInv, RInv, TypeOK, Caches
<1>2. CASE slot'[s] = slot[s] /\ text'[s] = text[s]
  <2>1. Active(s)' <=> Active(s)
    BY <1>2 DEF Active, Working
  <2> QED
    BY <1>1, <1>2, <2>1, TokensRest
<1>3. CASE /\ slot'[s].state = "idle" /\ slot'[s].cached = slot[s].cached
           /\ slot'[s].caching \in {TRUE, slot[s].caching}
  BY <1>1, <1>3, TokensLeft
<1> QED
  BY <1>2, <1>3

(* The other slots, where one is changed. *)
LEMMA TokensOthers ==
  ASSUME TInv, NEW s \in Slots, \A t \in Slots : t # s => slot'[t] = slot[t] /\ text'[t] = text[t],
         pc = "reuse" => turn = s, pc' = "reuse" => turn' = s, \A t \in Slots : t # s => Follows(t)
  PROVE  \A t \in Slots : t # s => TokensOK(t)'
<1> SUFFICES ASSUME NEW t \in Slots, t # s
             PROVE  TokensOK(t)'
  OBVIOUS
<1>1. TokensOK(t) /\ Follows(t)
  BY DEF TInv
<1>2. Active(t)' <=> Active(t)
  BY DEF Active, Working
<1> QED
  BY <1>1, <1>2, TokensRest

(* What release leaves of a slot. *)
LEMMA ReleasedLeaves ==
  ASSUME TypeOK, NEW s \in Slots, slot' = [slot EXCEPT ![s] = Released(@)]
  PROVE  /\ slot'[s].state = "idle" /\ slot'[s].cached = slot[s].cached /\ slot'[s].caching = TRUE
         /\ \A t \in Slots : t # s => slot'[t] = slot[t]
<1>1. slot[s] \in SlotRec /\ slot \in [Slots -> SlotRec]
  BY Typed
<1>2. PICK r : r = Released(slot[s])
  OBVIOUS
<1>3. r \in SlotRec /\ r.state = "idle" /\ r.cached = slot[s].cached /\ r.caching = TRUE
  BY <1>1, <1>2, ReleasedIs
<1>4. slot' = [slot EXCEPT ![s] = r]
  BY <1>1, <1>2
<1> QED
  BY <1>1, <1>3, <1>4, SlotsAfter

(* Steps that change no slot. *)
LEMMA QuietSteps ==
  ASSUME TInv, RInv',
         \/ BeginRound \/ ClearCache \/ NextChunk
         \/ \E s \in Slots : KeepContext(s) \/ SkipSampled(s) \/ SkipPrompt(s)
  PROVE  \A s \in Slots : TokensOK(s)'
<1>1. slot' = slot /\ text' = text
  BY DEF BeginRound, ClearCache, NextChunk, KeepContext, SkipSampled, SkipPrompt
<1>2. \A i \in Cells : kv'.cells[i] \in {KV!Free, kv.cells[i]}
  BY ClearedIs DEF BeginRound, ClearCache, NextChunk, KeepContext, SkipSampled, SkipPrompt
<1>3. pc # "reuse"
  BY DEF BeginRound, ClearCache, NextChunk, KeepContext, SkipSampled, SkipPrompt
<1>4. pc' # "reuse"
  <2>1. CASE BeginRound \/ ClearCache \/ NextChunk
    BY <2>1 DEF BeginRound, ClearCache, NextChunk, EndRound
  <2>2. ASSUME NEW s \in Slots, KeepContext(s) \/ SkipSampled(s)
        PROVE  pc' # "reuse"
    BY <2>2 DEF KeepContext, SkipSampled, Turn
  <2>3. ASSUME NEW s \in Slots, SkipPrompt(s)
        PROVE  pc' # "reuse"
    BY <2>3 DEF SkipPrompt, Visited, Turn
  <2> QED
    BY <2>1, <2>2, <2>3
<1>5. \A s \in Slots : Follows(s)
  BY <1>2, FreedFollow
<1> QED
  BY <1>1, <1>3, <1>4, <1>5, TokensQuiet

(* What is left of a slot that a step releases. *)
LEMMA ReleasedSlot ==
  ASSUME TypeOK, NEW s \in Slots,
         CancelSlot(s) \/ StopFull(s) \/ RejectPrompt(s) \/ SampleLast(s)
  PROVE  /\ slot'[s].state = "idle" /\ slot'[s].cached = slot[s].cached /\ slot'[s].caching = TRUE
         /\ \A t \in Slots : t # s => slot'[t] = slot[t] /\ text'[t] = text[t]
<1>1. text \in [Slots -> Seq(Nat)]
  BY Typed
<1>2. \A t \in Slots : t # s => text'[t] = text[t]
  BY <1>1 DEF CancelSlot, StopFull, RejectPrompt, SampleLast
<1>3. /\ slot'[s].state = "idle" /\ slot'[s].cached = slot[s].cached /\ slot'[s].caching = TRUE
      /\ \A t \in Slots : t # s => slot'[t] = slot[t]
  <2>1. CASE SampleLast(s)
    <3>1. slot[s] \in SlotRec /\ slot \in [Slots -> SlotRec]
      BY Typed
    <3>2. PICK r, q : q = Released(slot[s]) /\ r = [q EXCEPT !.iBatch = -1]
      OBVIOUS
    <3>3. q \in SlotRec /\ q.state = "idle" /\ q.cached = slot[s].cached /\ q.caching = TRUE
      BY <3>1, <3>2, ReleasedIs
    <3>4. r \in SlotRec /\ r.state = "idle" /\ r.cached = slot[s].cached /\ r.caching = TRUE
      <4>1. r \in SlotRec /\ r.state = q.state /\ r.cached = q.cached
        <5>1. PICK none \in Int : none = -1
          OBVIOUS
        <5>2. q \in SlotRec /\ r = [q EXCEPT !.iBatch = none]
          BY <3>2, <3>3, <5>1
        <5> QED
          BY ONLY <5>1, <5>2 DEF SlotRec
      <4>2. r.caching = q.caching
        BY <3>2, <3>3, Zenon DEF SlotRec
      <4> QED
        BY <3>3, <4>1, <4>2
    <3>5. slot' = [slot EXCEPT ![s] = r]
      BY <2>1, <3>1, <3>2 DEF SampleLast
    <3> QED
      BY <3>1, <3>4, <3>5, SlotsAfter
  <2>2. CASE ~SampleLast(s)
    <3>1. slot' = [slot EXCEPT ![s] = Released(@)]
      BY <2>2 DEF CancelSlot, StopFull, RejectPrompt
    <3> QED
      BY <3>1, ReleasedLeaves
  <2> QED
    BY <2>1, <2>2
<1> QED
  BY <1>2, <1>3

(* Steps that release a slot. *)
LEMMA ReleaseSteps ==
  ASSUME TInv, RInv', NEW s \in Slots,
         CancelSlot(s) \/ StopFull(s) \/ RejectPrompt(s) \/ SampleLast(s)
  PROVE  \A t \in Slots : TokensOK(t)'
<1>1. kv' = kv /\ pc # "reuse"
  BY DEF CancelSlot, StopFull, RejectPrompt, SampleLast
<1>2. pc' # "reuse"
  BY DEF CancelSlot, StopFull, RejectPrompt, SampleLast, Turn
<1>3. /\ slot'[s].state = "idle" /\ slot'[s].cached = slot[s].cached /\ slot'[s].caching = TRUE
      /\ \A t \in Slots : t # s => slot'[t] = slot[t] /\ text'[t] = text[t]
  BY ReleasedSlot DEF TInv, RInv
<1>4. \A t \in Slots : Follows(t)
  BY <1>1 DEF Follows
<1>5. \A t \in Slots :
        \/ slot'[t] = slot[t] /\ text'[t] = text[t]
        \/ /\ slot'[t].state = "idle" /\ slot'[t].cached = slot[t].cached
           /\ slot'[t].caching \in {TRUE, slot[t].caching}
  BY <1>3
<1> QED
  BY <1>1, <1>2, <1>4, <1>5, TokensQuiet

(* A batch that fails releases every slot. *)
LEMMA FailLeaves ==
  ASSUME TypeOK, FailBatch
  PROVE  \A s \in Slots :
           /\ slot'[s].state = "idle" /\ slot'[s].cached = slot[s].cached
           /\ slot'[s].caching \in {TRUE, slot[s].caching}
<1> TAKE s \in Slots
<1>1. slot[s] \in SlotRec
  BY Typed
<1>2. slot'[s] = IF Busy(s) THEN Released(slot[s]) ELSE slot[s]
  BY DEF FailBatch
<1>3. CASE Busy(s)
  <2>1. PICK r : r = Released(slot[s])
    OBVIOUS
  <2>2. r.state = "idle" /\ r.cached = slot[s].cached /\ r.caching = TRUE
    BY <1>1, <2>1, ReleasedIs
  <2> QED
    BY <1>2, <1>3, <2>1, <2>2
<1>4. CASE ~Busy(s)
  BY <1>2, <1>4 DEF Busy
<1> QED
  BY <1>3, <1>4

(* The tokens that get cells are the text of their slots. *)
LEMMA FilledFollow ==
  ASSUME RInv, NEW h \in Cells, RoomAt(h), pc = "decode",
         \A i \in Cells : kv'.cells[i] \in {KV!Free, KV!Fill(kv, h, Ubatch).cells[i]}
  PROVE  \A s \in Slots : Follows(s)
<1>1. PICK r : r = KV!Fill(kv, h, Ubatch)
  OBVIOUS
<1>2. \A i \in Cells :
        \/ r.cells[i] = kv.cells[i]
        \/ \E j \in Pending : r.cells[i] = batch[j] /\ TokenOK(j)
  <2> DEFINE j(i) == at + placed + (i - h + 1)
  <2>1. \A i \in Cells :
          IF h <= i /\ i < h + Len(Ubatch)
          THEN /\ r.cells[i] = batch[j(i)] /\ kv.cells[i] = KV!Free
               /\ j(i) \in Pending /\ TokenOK(j(i))
               /\ batch[j(i)] \in [seq : Slots, pos : Nat, tok : Nat]
          ELSE r.cells[i] = kv.cells[i]
    BY <1>1, FillOfUbatch
  <2> HIDE DEF j
  <2> QED
    BY <2>1
<1> SUFFICES ASSUME NEW s \in Slots, NEW i \in Cells, kv'.cells[i].seq = s, kv'.cells[i] # kv.cells[i]
             PROVE  /\ Active(s) /\ kv'.cells[i].pos < Len(text[s])
                    /\ kv'.cells[i].tok = text[s][kv'.cells[i].pos + 1]
  BY DEF Follows
<1>3. kv'.cells[i] = r.cells[i]
  BY <1>1, CachesAre
<1>4. PICK j \in Pending : r.cells[i] = batch[j] /\ TokenOK(j)
  BY <1>2, <1>3
<1> QED
  BY <1>3, <1>4 DEF TokenOK

(* Steps of llama_decode. *)
LEMMA DecodeSteps ==
  ASSUME TInv, RInv',
         \/ NoRoom \/ DecodeRejects
         \/ \E h \in Cells : PlaceUbatch(h) \/ ComputeFails(h)
  PROVE  \A s \in Slots : TokensOK(s)'
<1>1. pc = "decode"
  BY DEF NoRoom, DecodeRejects, PlaceUbatch, ComputeFails, RoomAt
<1>2. \/ slot' = slot /\ text' = text /\ pc' # "reuse"
      \/ FailBatch
  BY <1>1 DEF NoRoom, DecodeRejects, PlaceUbatch, ComputeFails
<1>3. pc' # "reuse"
  BY <1>2 DEF FailBatch, EndRound
<1>4. \A s \in Slots :
        \/ slot'[s] = slot[s] /\ text'[s] = text[s]
        \/ /\ slot'[s].state = "idle" /\ slot'[s].cached = slot[s].cached
           /\ slot'[s].caching \in {TRUE, slot[s].caching}
  BY <1>2, FailLeaves DEF TInv, RInv
<1>5. \A s \in Slots : Follows(s)
  <2>1. CASE NoRoom
    <3>1. kv' = [kv EXCEPT !.head = Room.head] /\ Room.head \in 0 .. Size /\ kv \in Caches
      BY <1>1, <2>1, RoomIs, Typed DEF NoRoom, TInv, RInv
    <3>2. PICK head \in 0 .. Size : head = Room.head
      BY <3>1
    <3>3. kv'.cells = kv.cells
      BY <3>1, <3>2, HeadIs
    <3> QED
      BY <3>3 DEF Follows
  <2>2. CASE DecodeRejects
    BY <2>2 DEF DecodeRejects, Follows
  <2>3. ASSUME NEW h \in Cells, PlaceUbatch(h) \/ ComputeFails(h)
        PROVE  \A s \in Slots : Follows(s)
    <3>1. RoomAt(h) /\ RInv
      BY <2>3 DEF PlaceUbatch, ComputeFails, TInv
    <3>2. PICK r : r = KV!Fill(kv, h, Ubatch)
      OBVIOUS
    <3>3. r \in Caches
      BY <3>1, <3>2, FillOfUbatch
    <3>4. \A i \in Cells : kv'.cells[i] \in {KV!Free, r.cells[i]}
      <4>1. CASE PlaceUbatch(h)
        <5>1. PICK n \in Nat : n = Len(Ubatch)
          BY <1>1, <3>1, RoomIs DEF RInv
        <5>2. kv' = KV!Advance(r, h, n)
          BY <3>2, <4>1, <5>1 DEF PlaceUbatch
        <5>3. kv'.cells = r.cells
          BY <3>3, <5>2, AdvanceIs
        <5> QED
          BY <5>3
      <4>2. CASE ComputeFails(h)
        <5>1. PICK head \in 0 .. Size, boundaries \in SUBSET (Nat \X Nat) :
                head = Saved(h).head /\ boundaries = Saved(h).boundaries
          BY <3>1, SavedIs
        <5>2. kv' = KV!Restore(r, head, boundaries)
          BY <3>2, <4>2, <5>1 DEF ComputeFails
        <5> QED
          BY <3>3, <5>2, RestoreIs
      <4> QED
        BY <2>3, <4>1, <4>2
    <3> QED
      BY <1>1, <3>1, <3>2, <3>4, FilledFollow
  <2> QED
    BY <2>1, <2>2, <2>3
<1> QED
  BY <1>1, <1>3, <1>4, <1>5, TokensQuiet

(* A request comes with its prompt. *)
LEMMA LaunchTokens ==
  ASSUME PlainCache, TInv, RInv', NEW s \in Slots, LaunchSlot(s)
  PROVE  \A t \in Slots : TokensOK(t)'
<1>1. PICK prompt \in Prompts, keep \in Keeps, discard \in Discards, caching \in Caching :
        slot' = [slot EXCEPT ![s].state = "started", ![s].prompt = prompt,
                             ![s].keep = keep, ![s].discard = discard,
                             ![s].caching = caching]
  BY DEF LaunchSlot
<1>2. slot[s] \in SlotRec /\ slot \in [Slots -> SlotRec] /\ text \in [Slots -> Seq(Nat)]
  BY Typed DEF TInv, RInv
<1>3. PICK r : r = [slot[s] EXCEPT !.state = "started", !.prompt = prompt, !.keep = keep,
                                   !.discard = discard, !.caching = caching]
  OBVIOUS
<1>4. /\ r \in SlotRec /\ r.state = "started" /\ r.cached = slot[s].cached
      /\ r.prompt = prompt
  <2>1. prompt \in Seq(Nat) /\ keep \in Int /\ discard \in Nat /\ caching \in BOOLEAN
    BY <1>1, Options
  <2> QED
    BY <1>2, <1>3, <2>1 DEF SlotRec
<1>5. r.caching = caching
  BY <1>2, <1>3, Zenon DEF SlotRec
<1>6. slot' = [slot EXCEPT ![s] = r]
  BY <1>1, <1>2, <1>3
<1>7. slot'[s] = r /\ \A t \in Slots : t # s => slot'[t] = slot[t]
  BY <1>2, <1>4, <1>6, SlotsAfter
<1>8. kv' = kv /\ pc = "tasks" /\ pc' = "tasks" /\ \A t \in Slots : t # s => text'[t] = text[t]
  BY <1>2 DEF LaunchSlot
<1>9. \A t \in Slots : Follows(t)
  BY <1>8 DEF Follows
<1>10. ~Active(s) /\ ~Active(s)'
  BY <1>4, <1>7 DEF LaunchSlot, Busy, Active, Working
<1>11. PromptTold(s)'
  <2>1. caching = FALSE => FALSE \in Caching
    BY <1>1
  <2>2. caching \in BOOLEAN
    BY <1>1, Options
  <2>3. r.caching \/ FALSE \in Caching
    BY <1>5, <2>1, <2>2
  <2>4. FALSE \in Caching => \A n \in 1 .. Len(r.prompt) : r.prompt[n] # 0
    BY <1>1, <1>4 DEF PlainCache
  <2> QED
    BY <1>7, <2>3, <2>4 DEF PromptTold
<1>12. TextHeld(s)' /\ PrefixReused(s)'
  BY <1>8, <1>10 DEF TextHeld, PrefixReused
<1>13. LeftNamed(s)'
  BY <1>4, <1>7, <1>8, <1>10, ZenonT(60) DEF TInv, TokensOK, LeftNamed
<1>14. \A t \in Slots : t # s => TokensOK(t)'
  BY <1>7, <1>8, <1>9, TokensOthers
<1> QED
  BY <1>11, <1>12, <1>13, <1>14 DEF TokensOK

(* A sampled token is not yet in the text. *)
LEMMA SampleTokens ==
  ASSUME TInv, RInv', NEW s \in Slots, SampleToken(s)
  PROVE  \A t \in Slots : TokensOK(t)'
<1>1. /\ pc = "sample" /\ Sampling # {} /\ s = Min(Sampling)
      /\ UNCHANGED <<pc, turn, server, kv, reuseVars, batch, decodeVars, text>>
  BY DEF SampleToken
<1>2. slot[s].state \in {"done", "gen"}
  BY <1>1, SampledIs DEF TInv
<1>3. PICK tok \in Vocab :
        slot' = [slot EXCEPT ![s].state = "gen", ![s].sampled = tok, ![s].iBatch = -1]
  BY DEF SampleToken
<1>4. slot[s] \in SlotRec /\ slot \in [Slots -> SlotRec]
  BY Typed DEF TInv, RInv
<1>5. PICK q \in SlotRec, none \in Int : q = slot[s] /\ none = -1
  BY <1>4
<1>6. PICK r : r = [q EXCEPT !.state = "gen", !.sampled = tok, !.iBatch = none]
  OBVIOUS
<1>7. r \in SlotRec /\ r.state = "gen" /\ r.cached = q.cached
  <2>1. tok \in Nat
    BY <1>3, Options
  <2> QED
    BY ONLY <1>5, <1>6, <2>1 DEF SlotRec
<1>8. r.caching = q.caching
  BY <1>5, <1>6, Zenon DEF SlotRec
<1>9. slot' = [slot EXCEPT ![s] = r]
  BY <1>3, <1>4, <1>5, <1>6
<1>10. slot'[s] = r /\ \A t \in Slots : t # s => slot'[t] = slot[t]
  BY <1>4, <1>7, <1>9, SlotsAfter
<1>11. \A t \in Slots : Follows(t)
  BY <1>1 DEF Follows
<1>12. \A t \in Slots : t # s => TokensOK(t)'
  BY <1>1, <1>10, <1>11, TokensOthers
<1>13. Active(s) /\ Active(s)' /\ TokensOK(s)
  BY <1>1, <1>2, <1>7, <1>10 DEF Active, Working, TInv
<1>14. PromptTold(s)'
  BY <1>5, <1>7, <1>8, <1>10, <1>13 DEF TokensOK, PromptTold
<1>15. TextHeld(s)'
  BY <1>1, <1>5, <1>7, <1>8, <1>10, <1>13 DEF TokensOK, TextHeld
<1>16. LeftNamed(s)' /\ PrefixReused(s)'
  BY <1>1, <1>13 DEF LeftNamed, PrefixReused
<1> QED
  BY <1>12, <1>14, <1>15, <1>16 DEF TokensOK

(* The prefix that is reused is part of the prompt. *)
LEMMA StartTokens ==
  ASSUME TInv, RInv', NEW s \in Slots, StartPrompt(s)
  PROVE  \A t \in Slots : TokensOK(t)'
<1>1. /\ pc = "prompts" /\ pc' = "reuse" /\ turn = s /\ turn' = s /\ kv' = kv /\ text' = text
      /\ slot[s].state = "started"
  BY DEF StartPrompt
<1>2. RInv
  BY DEF TInv
<1>3. PICK prompt \in Seq(Nat), keep \in 0 .. Ctx - 4, common \in Nat, r \in SlotRec :
            /\ Len(prompt) \in 1 .. Ctx - 1
            /\ common <= Len(prompt) /\ common <= Len(slot[s].cached)
            /\ ~slot[s].caching => common = 0
            /\ \A i \in 1 .. common : slot[s].cached[i] = prompt[i]
            /\ \A i \in 1 .. Len(prompt) :
                 \E j \in 1 .. Len(slot[s].prompt) : prompt[i] = slot[s].prompt[j]
            /\ r.state = "prompt" /\ r.prompt = prompt /\ r.keep = keep /\ r.nPast = common
            /\ r.cached = slot[s].cached /\ r.caching = slot[s].caching
            /\ r.discard = slot[s].discard /\ r.iBatch = slot[s].iBatch
            /\ slot' \in [Slots -> SlotRec] /\ slot'[s] = r
            /\ \A t \in Slots : t # s => slot'[t] = slot[t]
            /\ hc' = common /\ hp' = common
  BY <1>2, StartPromptIs
<1>4. \A t \in Slots : Follows(t)
  BY <1>1 DEF Follows
<1>5. \A t \in Slots : t # s => TokensOK(t)'
  BY <1>1, <1>3, <1>4, TokensOthers
<1>6. ~Active(s) /\ ~Active(s)' /\ TokensOK(s)
  BY <1>1 DEF Active, Working, TInv
<1>7. PromptTold(s)'
  <2>1. FALSE \in Caching => \A n \in 1 .. Len(slot[s].prompt) : slot[s].prompt[n] # 0
    BY <1>1, <1>6 DEF TokensOK, PromptTold
  <2>2. FALSE \in Caching => \A n \in 1 .. Len(r.prompt) : r.prompt[n] # 0
    BY <1>3, <2>1, SMTT(30)
  <2>3. r.caching \/ FALSE \in Caching
    BY <1>3, <1>6, Zenon DEF TokensOK, PromptTold
  <2> QED
    BY <1>3, <2>2, <2>3 DEF PromptTold
<1>8. TextHeld(s)'
  BY <1>6 DEF TextHeld
<1>9. LeftNamed(s)'
  BY <1>1, <1>3, <1>6, ZenonT(60) DEF TokensOK, LeftNamed
<1>10. PrefixReused(s)'
  BY <1>3 DEF PrefixReused
<1> QED
  BY <1>5, <1>7, <1>8, <1>9, <1>10 DEF TokensOK

(* What AddSampled writes. *)
LEMMA AddSampledIs ==
  ASSUME RInv, NEW s \in Slots, AddSampled(s)
  PROVE  \E tok \in Nat, l \in Nat :
           /\ l = Len(text[s]) /\ (slot[s].caching => Len(slot[s].cached) = l)
           /\ slot'[s].state = "gen" /\ slot'[s].prompt = slot[s].prompt
           /\ slot'[s].caching = slot[s].caching
           /\ ~slot[s].caching => slot'[s].cached = slot[s].cached
           /\ slot[s].caching => /\ slot'[s].cached[l + 1] = tok
                                 /\ \A k \in 1 .. l : slot'[s].cached[k] = slot[s].cached[k]
           /\ Len(text'[s]) = l + 1 /\ text'[s][l + 1] = tok
           /\ \A k \in 1 .. l : text'[s][k] = text[s][k]
           /\ \A t \in Slots : t # s => slot'[t] = slot[t] /\ text'[t] = text[t]
<1>1. slot[s] \in SlotRec /\ slot \in [Slots -> SlotRec] /\ text \in [Slots -> Seq(Nat)]
      /\ Len(batch) \in Nat
  BY Typed DEF RInv
<1>2. PICK tok \in Nat, pos \in Nat, old \in Seq(Nat), oldText \in Seq(Nat), n \in Nat :
        /\ tok = slot[s].sampled /\ pos = slot[s].nPast /\ old = slot[s].cached
        /\ oldText = text[s] /\ n = Len(batch)
  BY <1>1, SlotTyped
<1>3. /\ pos + 1 < Ctx /\ Len(oldText) = pos
      /\ slot[s].caching => Len(old) = pos
  <2>1. pc = "gen" /\ turn = s /\ slot[s].state = "gen"
    BY DEF AddSampled
  <2>2. Working(s) /\ Active(s) /\ Shifted(s)
    BY <2>1, SlotsAre DEF Working, Active, Shifted
  <2> QED
    BY <1>2, <2>2, Options DEF RInv, SlotOK, TextOK
<1>4. PICK cached : cached = IF slot[s].caching THEN Append(old, tok) ELSE old
  OBVIOUS
<1>5. /\ cached \in Seq(Nat)
      /\ slot[s].caching => /\ cached[pos + 1] = tok
                            /\ \A k \in 1 .. pos : cached[k] = old[k]
  <2>1. Append(old, tok) \in Seq(Nat) /\ Append(old, tok)[Len(old) + 1] = tok
        /\ \A k \in 1 .. Len(old) : Append(old, tok)[k] = old[k]
    BY AppendProperties
  <2> QED
    BY <1>2, <1>3, <1>4, <2>1
<1>6. PICK q \in SlotRec : q = slot[s]
  BY <1>1
<1>7. PICK next \in 0 .. Ctx : next = pos + 1
  BY <1>3, Options
<1>8. PICK r : r = [q EXCEPT !.iBatch = n, !.nPast = next, !.cached = cached]
  OBVIOUS
<1>9. r \in SlotRec /\ r.state = q.state /\ r.prompt = q.prompt /\ r.cached = cached
  <2>1. n \in Int
    BY <1>2
  <2> QED
    BY ONLY <1>5, <1>6, <1>7, <1>8, <2>1 DEF SlotRec
<1>10. r.caching = q.caching
  BY <1>6, <1>8, Zenon DEF SlotRec
<1>11. slot' = [slot EXCEPT ![s] = r]
  <2>1. slot' = [slot EXCEPT ![s].iBatch = n, ![s].nPast = @ + 1,
                             ![s].cached = IF slot[s].caching THEN Append(@, slot[s].sampled) ELSE @]
    BY <1>2 DEF AddSampled
  <2> QED
    BY <1>1, <1>2, <1>4, <1>6, <1>7, <1>8, <2>1
<1>12. slot'[s] = r /\ \A t \in Slots : t # s => slot'[t] = slot[t]
  BY <1>1, <1>9, <1>11, SlotsAfter
<1>13. PICK new : new = Append(oldText, tok)
  OBVIOUS
<1>14. /\ new \in Seq(Nat) /\ Len(new) = pos + 1 /\ new[pos + 1] = tok
       /\ \A k \in 1 .. pos : new[k] = oldText[k]
  BY <1>3, <1>13, AppendProperties
<1>15. text' = [text EXCEPT ![s] = new]
  BY <1>1, <1>2, <1>13 DEF AddSampled
<1>16. text'[s] = new /\ \A t \in Slots : t # s => text'[t] = text[t]
  BY <1>1, <1>14, <1>15
<1>17. slot[s].state = "gen"
  BY DEF AddSampled
<1>18. /\ slot'[s].state = "gen" /\ slot'[s].prompt = slot[s].prompt
       /\ ~slot[s].caching => slot'[s].cached = slot[s].cached
       /\ slot[s].caching => /\ slot'[s].cached[pos + 1] = tok
                             /\ \A k \in 1 .. pos : slot'[s].cached[k] = slot[s].cached[k]
  BY <1>2, <1>4, <1>5, <1>6, <1>9, <1>12, <1>17
<1>19. slot'[s].caching = slot[s].caching
  BY <1>6, <1>10, <1>12
<1>20. /\ Len(text'[s]) = pos + 1 /\ text'[s][pos + 1] = tok
       /\ \A k \in 1 .. pos : text'[s][k] = text[s][k]
       /\ pos = Len(text[s]) /\ (slot[s].caching => Len(slot[s].cached) = pos)
  BY <1>2, <1>3, <1>14, <1>16
<1> QED
  BY <1>12, <1>16, <1>18, <1>19, <1>20

(* The sampled token goes into the batch, the text and cache_tokens. *)
LEMMA AddTokens ==
  ASSUME TInv, RInv', NEW s \in Slots, AddSampled(s)
  PROVE  \A t \in Slots : TokensOK(t)'
<1>1. pc = "gen" /\ pc' # "reuse" /\ kv' = kv /\ slot[s].state = "gen"
  BY DEF AddSampled, Turn
<1>2. PICK tok \in Nat, l \in Nat :
           /\ l = Len(text[s]) /\ (slot[s].caching => Len(slot[s].cached) = l)
           /\ slot'[s].state = "gen" /\ slot'[s].prompt = slot[s].prompt
           /\ slot'[s].caching = slot[s].caching
           /\ ~slot[s].caching => slot'[s].cached = slot[s].cached
           /\ slot[s].caching => /\ slot'[s].cached[l + 1] = tok
                                 /\ \A k \in 1 .. l : slot'[s].cached[k] = slot[s].cached[k]
           /\ Len(text'[s]) = l + 1 /\ text'[s][l + 1] = tok
           /\ \A k \in 1 .. l : text'[s][k] = text[s][k]
           /\ \A t \in Slots : t # s => slot'[t] = slot[t] /\ text'[t] = text[t]
  BY AddSampledIs DEF TInv
<1>3. \A t \in Slots : Follows(t)
  BY <1>1 DEF Follows
<1>4. \A t \in Slots : t # s => TokensOK(t)'
  BY <1>1, <1>2, <1>3, TokensOthers
<1>5. Active(s) /\ Active(s)' /\ TokensOK(s)
  BY <1>1, <1>2 DEF Active, Working, TInv
<1>6. PromptTold(s)'
  BY <1>2, <1>5 DEF TokensOK, PromptTold
<1>7. TextHeld(s)'
  <2>1. /\ slot[s].caching => \A n \in 1 .. l : slot[s].cached[n] = text[s][n]
        /\ ~slot[s].caching => \A n \in 1 .. Len(slot[s].cached) : slot[s].cached[n] = 0
        /\ \A i \in Cells : kv.cells[i].seq = s => kv.cells[i].tok = text[s][kv.cells[i].pos + 1]
    BY <1>2, <1>5 DEF TokensOK, TextHeld
  <2>2. ASSUME slot[s].caching, NEW n \in 1 .. l + 1
        PROVE  slot'[s].cached[n] = text'[s][n]
    BY <1>2, <2>1, <2>2
  <2>3. ASSUME NEW i \in Cells, kv.cells[i].seq = s
        PROVE  kv.cells[i].tok = text'[s][kv.cells[i].pos + 1]
    <3>1. PICK c \in [seq : Slots, pos : Nat, tok : Nat] : c = kv.cells[i]
      BY <2>3, CachesAre, CellTyped, Typed DEF TInv, RInv
    <3>2. PICK p \in Nat : p = c.pos
      BY <3>1
    <3>3. p < l
      BY <1>2, <1>5, <2>3, <3>1, <3>2 DEF TInv, RInv, CellsOK
    <3>4. p + 1 \in 1 .. l
      BY <3>2, <3>3
    <3> QED
      BY <1>2, <2>1, <2>3, <3>1, <3>2, <3>4, SMTT(60)
  <2>4. ~slot[s].caching => \A n \in 1 .. Len(slot'[s].cached) : slot'[s].cached[n] = 0
    BY <1>2, <2>1
  <2> QED
    BY <1>1, <1>2, <2>2, <2>3, <2>4 DEF TextHeld
<1>8. LeftNamed(s)' /\ PrefixReused(s)'
  BY <1>1, <1>5 DEF LeftNamed, PrefixReused
<1> QED
  BY <1>4, <1>6, <1>7, <1>8 DEF TokensOK

(* The prompt goes into the batch, behind what is reused of it. *)
LEMMA FillTokens ==
  ASSUME TInv, RInv', NEW s \in Slots, NEW n \in Nat, slot[s].state = "prompt",
         n < Len(slot[s].prompt), FillBatch(s, n), turn = s, pc' # "reuse",
         \/ pc = "reuse" /\ n <= slot[s].nPast
         \/ pc = "prompts" /\ n = slot[s].nPast
  PROVE  \A t \in Slots : TokensOK(t)'
<1>1. RInv /\ TokensOK(s) /\ Len(slot[s].prompt) < Ctx
  BY DEF TInv, RInv, SlotOK
<1>2. /\ kv' \in Caches
      /\ \A i \in Cells :
           kv'.cells[i] = IF kv.cells[i].seq = s /\ kv.cells[i].pos >= n
                          THEN KV!Free ELSE kv.cells[i]
  BY <1>1, FillBatchIs
<1>3. PICK k \in Nat, r \in SlotRec, new \in Seq(Nat) :
        /\ n + k <= Len(slot[s].prompt)
        /\ r.state = IF n + k = Len(slot[s].prompt) THEN "done" ELSE "prompt"
        /\ r.prompt = slot[s].prompt /\ r.keep = slot[s].keep
        /\ r.discard = slot[s].discard /\ r.caching = slot[s].caching
        /\ r.nPast = n + k
        /\ r.state = "done" => r.iBatch = Len(batch) + k - 1
        /\ Len(r.cached) = IF r.caching THEN n + k ELSE n
        /\ \A i \in 1 .. n :
             r.cached[i] = IF i <= Len(slot[s].cached) THEN slot[s].cached[i] ELSE 0
        /\ r.caching => \A i \in 1 .. k : r.cached[n + i] = r.prompt[n + i]
        /\ slot' \in [Slots -> SlotRec] /\ slot'[s] = r
        /\ \A t \in Slots : t # s => slot'[t] = slot[t]
        /\ new = SubSeq(r.prompt, 1, n + k) /\ Len(new) = n + k
        /\ \A i \in 1 .. n + k : new[i] = r.prompt[i]
        /\ text' \in [Slots -> Seq(Nat)] /\ text'[s] = new
        /\ \A t \in Slots : t # s => text'[t] = text[t]
        /\ batch' \in Seq([seq : Slots, pos : Nat, tok : Nat])
        /\ Len(batch') = Len(batch) + k
        /\ \A j \in 1 .. Len(batch) : batch'[j] = batch[j]
        /\ \A i \in 1 .. k :
             batch'[Len(batch) + i] = [seq |-> s, pos |-> n + i - 1, tok |-> new[n + i]]
  BY <1>1, FillBatchIs, ZenonT(60)
<1>4. \A t \in Slots : t # s => TokensOK(t)'
  <2>1. \A i \in Cells : kv'.cells[i] \in {KV!Free, kv.cells[i]}
    BY <1>2
  <2>2. \A t \in Slots : Follows(t)
    BY <2>1, FreedFollow
  <2> QED
    BY <1>3, <2>2, TokensOthers
<1>5. Active(s)'
  BY <1>3 DEF Active, Working
<1>6. PromptTold(s)'
  BY <1>1, <1>3 DEF TokensOK, PromptTold
<1>7. /\ slot[s] \in SlotRec /\ Len(slot[s].cached) \in Nat /\ Len(slot[s].prompt) \in Nat
      /\ slot[s].nPast \in Nat /\ slot[s].nPast <= Len(slot[s].prompt)
  <2>1. slot[s] \in SlotRec
    BY <1>1, Typed DEF RInv
  <2>2. slot[s].nPast <= Len(slot[s].prompt)
    <3>1. CASE pc = "reuse"
      BY <1>1, <3>1, ReusingIs
    <3>2. CASE pc = "prompts"
      BY <3>2, <2>1, SlotTyped
    <3> QED
      BY <3>1, <3>2
  <2> QED
    BY <2>1, <2>2, SlotTyped
<1>8. ~slot[s].caching => \A i \in 1 .. Len(r.cached) : r.cached[i] = 0
  <2> SUFFICES ASSUME ~slot[s].caching, NEW i \in 1 .. n
               PROVE  r.cached[i] = 0
    BY <1>3
  <2>1. CASE pc = "reuse"
    <3>1. slot[s].nPast = 0
      BY <1>1, <2>1 DEF TokensOK, PrefixReused
    <3>2. n = 0
      BY <2>1, <3>1
    <3> QED
      BY <3>2
  <2>2. CASE pc = "prompts"
    <3>1. Active(s)
      BY <2>2 DEF Active, Working
    <3>2. \A m \in 1 .. Len(slot[s].cached) : slot[s].cached[m] = 0
      BY <1>1, <3>1 DEF TokensOK, TextHeld
    <3>3. i <= Len(slot[s].cached) => i \in 1 .. Len(slot[s].cached)
      BY <1>7
    <3> QED
      BY <1>3, <3>2, <3>3
  <2> QED
    BY <2>1, <2>2
<1>9. slot[s].caching => n <= Len(slot[s].cached)
                         /\ \A i \in 1 .. n : slot[s].cached[i] = slot[s].prompt[i]
  <2>1. CASE pc = "reuse"
    <3>1. /\ slot[s].nPast <= Len(slot[s].cached) /\ n <= slot[s].nPast
          /\ \A i \in 1 .. slot[s].nPast : slot[s].cached[i] = slot[s].prompt[i]
      BY <1>1, <2>1 DEF TokensOK, PrefixReused
    <3> QED
      BY <1>7, <3>1
  <2>2. CASE pc = "prompts"
    <3>1. Active(s)
      BY <2>2 DEF Active, Working
    <3>2. /\ Len(text[s]) = n /\ text[s] = SubSeq(slot[s].prompt, 1, n)
          /\ slot[s].caching => Len(slot[s].cached) = n
      BY <1>1, <2>2, <3>1 DEF RInv, TextOK
    <3>3. slot[s].caching => \A i \in 1 .. n : slot[s].cached[i] = text[s][i]
      BY <1>1, <3>1, <3>2 DEF TokensOK, TextHeld
    <3>4. \A i \in 1 .. n : text[s][i] = slot[s].prompt[i]
      <4>1. PICK prompt \in Seq(Nat) : prompt = slot[s].prompt
        BY <1>7, SlotTyped
      <4>2. n \in 1 - 1 .. Len(prompt) /\ 1 \in 1 .. Len(prompt) + 1 /\ n + 1 - 1 = n
        BY <1>7, <4>1
      <4>3. \A i \in 1 .. n + 1 - 1 : SubSeq(prompt, 1, n)[i] = prompt[1 + i - 1]
        BY <4>2, PartIs
      <4>4. \A i \in 1 .. n : 1 + i - 1 = i
        OBVIOUS
      <4> QED
        BY <3>2, <4>1, <4>2, <4>3, <4>4
    <3> QED
      BY <1>7, <3>2, <3>3, <3>4
  <2> QED
    BY <2>1, <2>2
<1>21. /\ \A i \in 1 .. n :
            r.cached[i] = IF i <= Len(slot[s].cached) THEN slot[s].cached[i] ELSE 0
       /\ r.prompt = slot[s].prompt /\ r.caching = slot[s].caching
       /\ r.caching => \A i \in 1 .. k : r.cached[n + i] = r.prompt[n + i]
       /\ \A i \in 1 .. n + k : new[i] = r.prompt[i]
  BY <1>3
<1>22. slot'[s] = r /\ text'[s] = new /\ Len(new) = n + k
  BY <1>3
<1>10. slot[s].caching => \A i \in 1 .. n + k : r.cached[i] = new[i]
  <2> SUFFICES ASSUME slot[s].caching, NEW i \in 1 .. n + k
               PROVE  r.cached[i] = r.prompt[i]
    BY <1>21
  <2>1. CASE i <= n
    <3>1. i \in 1 .. n /\ i <= Len(slot[s].cached)
      BY <1>7, <1>9, <2>1
    <3> QED
      BY <1>21, <1>9, <3>1
  <2>2. CASE n < i
    <3>1. PICK m \in 1 .. k : i = n + m
      <4>1. i - n \in 1 .. k /\ i = n + (i - n)
        BY <2>2
      <4> QED
        BY <4>1
    <3> QED
      BY <1>21, <3>1
  <2> QED
    BY <2>1, <2>2
<1>11. ASSUME NEW i \in Cells, kv'.cells[i].seq = s
       PROVE  kv'.cells[i].tok = new[kv'.cells[i].pos + 1]
  <2>1. kv'.cells[i] = kv.cells[i] /\ kv.cells[i].seq = s /\ ~(kv.cells[i].pos >= n)
    BY <1>2, <1>11, CachesAre
  <2>2. PICK c \in [seq : Slots, pos : Nat, tok : Nat] : c = kv.cells[i]
    BY <2>1, <1>1, CachesAre, CellTyped, Typed DEF RInv
  <2>3. PICK p \in Nat : p = c.pos /\ p < n
    BY <2>1, <2>2
  <2>4. p + 1 \in 1 .. n /\ p + 1 \in 1 .. n + k
    BY <2>3
  <2>5. new[p + 1] = slot[s].prompt[p + 1]
    <3>1. r.prompt = slot[s].prompt /\ \A m \in 1 .. n + k : new[m] = r.prompt[m]
      BY <1>3
    <3> QED
      BY ONLY <2>4, <3>1
  <2>6. c.tok = slot[s].prompt[p + 1]
    <3>1. CASE pc = "reuse"
      <4>1. ~Active(s) /\ n <= slot[s].nPast
        BY <3>1 DEF Active
      <4>2. slot[s].caching /\ n <= Len(slot[s].cached)
        <5>1. CASE slot[s].caching
          BY <1>9, <5>1
        <5>2. CASE ~slot[s].caching
          <6>1. slot[s].nPast = 0
            BY <1>1, <3>1, <5>2 DEF TokensOK, PrefixReused
          <6> QED
            BY <1>7, <2>3, <4>1, <6>1
        <5> QED
          BY <5>1, <5>2
      <4>3. p < Len(slot[s].cached)
        BY <1>7, <2>3, <4>2
      <4>4. \/ slot[s].cached[p + 1] = c.tok
            \/ slot[s].cached[p + 1] = 0 /\ FALSE \in Caching
        BY <1>1, <2>1, <2>2, <2>3, <4>1, <4>3 DEF TokensOK, LeftNamed
      <4>5. slot[s].cached[p + 1] = slot[s].prompt[p + 1]
        BY <1>9, <2>4, <4>2
      <4>6. FALSE \in Caching => slot[s].prompt[p + 1] # 0
        <5>1. p + 1 \in 1 .. Len(slot[s].prompt)
          BY <1>7, <2>3
        <5> QED
          BY <1>1, <5>1 DEF TokensOK, PromptTold
      <4> QED
        BY <4>4, <4>5, <4>6
    <3>2. CASE pc = "prompts"
      <4>1. Active(s)
        BY <3>2 DEF Active, Working
      <4>2. c.tok = text[s][p + 1]
        BY <1>1, <2>1, <2>2, <2>3, <4>1 DEF TokensOK, TextHeld
      <4>3. text[s] = SubSeq(slot[s].prompt, 1, n)
        BY <1>1, <3>2, <4>1 DEF RInv, TextOK
      <4>4. PICK prompt \in Seq(Nat) : prompt = slot[s].prompt
        BY <1>7, SlotTyped
      <4>5. n \in 1 - 1 .. Len(prompt) /\ 1 \in 1 .. Len(prompt) + 1 /\ n + 1 - 1 = n
        BY <1>7, <4>4, SMTT(60)
      <4>6. \A m \in 1 .. n + 1 - 1 : SubSeq(prompt, 1, n)[m] = prompt[1 + m - 1]
        BY <4>5, PartIs
      <4>7. 1 + (p + 1) - 1 = p + 1
        OBVIOUS
      <4> QED
        BY <2>4, <4>2, <4>3, <4>4, <4>5, <4>6, <4>7
    <3> QED
      BY <3>1, <3>2
  <2> QED
    BY <2>1, <2>2, <2>3, <2>5, <2>6
<1>12. TextHeld(s)'
  BY <1>8, <1>10, <1>11, <1>21, <1>22 DEF TextHeld
<1>13. LeftNamed(s)' /\ PrefixReused(s)'
  BY <1>5 DEF LeftNamed, PrefixReused
<1> QED
  BY <1>4, <1>6, <1>12, <1>13 DEF TokensOK

(* Both ways to fill the batch: from where the reused prefix ends, but with *)
(* one token at least, or from where the last round has stopped.           *)
LEMMA FillOf ==
  ASSUME RInv, NEW s \in Slots, ContinuePrompt(s) \/ EndReuse(s)
  PROVE  /\ slot[s].state = "prompt" /\ turn = s /\ pc' \notin {"reuse", "sample"}
         /\ \E n \in Nat : /\ n < Len(slot[s].prompt) /\ FillBatch(s, n)
                          /\ \/ pc = "reuse" /\ n <= slot[s].nPast
                             \/ pc = "prompts" /\ n = slot[s].nPast
<1>1. slot[s] \in SlotRec
  BY Typed DEF RInv
<1>2. CASE ContinuePrompt(s)
  <2>1. /\ pc = "prompts" /\ turn = s /\ slot[s].state = "prompt"
        /\ FillBatch(s, slot[s].nPast)
    BY <1>2 DEF ContinuePrompt
  <2>2. pc' \notin {"reuse", "sample"}
    BY <1>2 DEF ContinuePrompt, Visited, Turn
  <2>3. PICK n \in Nat : n = slot[s].nPast
    BY <1>1, SlotTyped
  <2>4. Active(s)
    BY <2>1 DEF Active, Working
  <2>5. n < Len(slot[s].prompt)
    BY <2>1, <2>3, <2>4 DEF RInv, TextOK
  <2>6. FillBatch(s, n)
    BY <2>1, <2>3
  <2> QED
    BY <2>1, <2>2, <2>3, <2>5, <2>6
<1>3. CASE EndReuse(s)
  <2>1. /\ pc = "reuse" /\ turn = s
        /\ FillBatch(s, IF slot[s].nPast = Len(slot[s].prompt)
                        THEN slot[s].nPast - 1 ELSE slot[s].nPast)
    BY <1>3 DEF EndReuse
  <2>2. pc' \notin {"reuse", "sample"}
    BY <1>3 DEF EndReuse, Visited, Turn
  <2>3. /\ slot[s].state = "prompt" /\ Len(slot[s].prompt) \in 1 .. Ctx - 1
        /\ slot[s].nPast = hp /\ hp <= Len(slot[s].prompt) /\ hp \in Nat
    BY <2>1, ReusingIs
  <2>4. PICK n \in Nat : /\ n = IF slot[s].nPast = Len(slot[s].prompt)
                                THEN slot[s].nPast - 1 ELSE slot[s].nPast
                         /\ n < Len(slot[s].prompt) /\ n <= slot[s].nPast
    <3>1. PICK l \in Nat, p \in Nat : l = Len(slot[s].prompt) /\ p = slot[s].nPast /\ 1 <= l /\ p <= l
      BY <2>3
    <3>2. /\ (IF p = l THEN p - 1 ELSE p) \in Nat /\ (IF p = l THEN p - 1 ELSE p) < l
          /\ (IF p = l THEN p - 1 ELSE p) <= p
      BY <3>1
    <3> QED
      BY <3>1, <3>2
  <2>5. FillBatch(s, n)
    BY <2>1, <2>4
  <2> QED
    BY <2>1, <2>2, <2>3, <2>4, <2>5
<1> QED
  BY <1>2, <1>3

LEMMA PromptSteps ==
  ASSUME TInv, RInv', NEW s \in Slots, ContinuePrompt(s) \/ EndReuse(s)
  PROVE  \A t \in Slots : TokensOK(t)'
<1>1. RInv
  BY DEF TInv
<1>2. /\ slot[s].state = "prompt" /\ turn = s /\ pc' # "reuse"
      /\ \E n \in Nat : /\ n < Len(slot[s].prompt) /\ FillBatch(s, n)
                        /\ \/ pc = "reuse" /\ n <= slot[s].nPast
                           \/ pc = "prompts" /\ n = slot[s].nPast
  BY <1>1, FillOf
<1>3. PICK n \in Nat : /\ n < Len(slot[s].prompt) /\ FillBatch(s, n)
                       /\ \/ pc = "reuse" /\ n <= slot[s].nPast
                          \/ pc = "prompts" /\ n = slot[s].nPast
  BY <1>2
<1> QED
  BY <1>2, <1>3, FillTokens

(* A context shift moves cells, cache_tokens and the text alike. *)
LEMMA ShiftTokens ==
  ASSUME TInv, RInv', NEW s \in Slots, ShiftContext(s)
  PROVE  \A t \in Slots : TokensOK(t)'
<1>1. pc = "shift" /\ pc' # "reuse" /\ RInv /\ TokensOK(s)
  BY DEF ShiftContext, Turn, TInv
<1>2. /\ Active(s) /\ slot[s].state \in {"done", "gen"}
      /\ \A t \in Slots : t # s => slot'[t] = slot[t]
      /\ \A t \in Slots : t # s => text'[t] = text[t]
      /\ slot'[s].state = slot[s].state /\ slot'[s].prompt = slot[s].prompt
      /\ slot'[s].caching = slot[s].caching
      /\ ~slot[s].caching => slot'[s].cached = slot[s].cached
      /\ kv' \in Caches
  BY <1>1, ShiftContextIs
<1>3. PICK f \in Nat, d \in Nat, l \in Nat :
        /\ 0 < d /\ l = Len(text[s]) /\ f + d <= l /\ l < Ctx /\ f <= l - d /\ 0 <= l - d
        /\ slot'[s].nPast = l - d
        /\ slot[s].caching =>
             /\ Len(slot'[s].cached) = l - d
             /\ \A i \in 1 .. l - d :
                  slot'[s].cached[i] = IF i <= f THEN slot[s].cached[i]
                                       ELSE slot[s].cached[i + d]
        /\ Len(text'[s]) = l - d
        /\ \A i \in 1 .. l - d : text'[s][i] = IF i <= f THEN text[s][i] ELSE text[s][i + d]
        /\ \A i \in Cells :
             IF kv.cells[i].seq = s /\ kv.cells[i].pos >= f
             THEN IF kv.cells[i].pos < f + d THEN kv'.cells[i] = KV!Free
                  ELSE /\ kv'.cells[i].seq = s /\ kv'.cells[i].tok = kv.cells[i].tok
                       /\ kv'.cells[i].pos = kv.cells[i].pos - d
             ELSE kv'.cells[i] = kv.cells[i]
  BY <1>1, ShiftContextIs
<1>4. \A t \in Slots : t # s => Follows(t)
  <2> SUFFICES ASSUME NEW t \in Slots, t # s, NEW i \in Cells, kv'.cells[i].seq = t
               PROVE  kv'.cells[i] = kv.cells[i]
    BY DEF Follows
  <2> QED
    BY <1>3, CachesAre
<1>5. \A t \in Slots : t # s => TokensOK(t)'
  BY <1>1, <1>2, <1>4, TokensOthers
<1>6. Active(s)'
  BY <1>1, <1>2 DEF Active, Working
<1>7. PromptTold(s)'
  BY <1>1, <1>2 DEF TokensOK, PromptTold
<1>8. /\ slot[s].caching => \A n \in 1 .. l : slot[s].cached[n] = text[s][n]
      /\ ~slot[s].caching => \A n \in 1 .. Len(slot[s].cached) : slot[s].cached[n] = 0
      /\ \A i \in Cells : kv.cells[i].seq = s => kv.cells[i].tok = text[s][kv.cells[i].pos + 1]
  BY <1>1, <1>2, <1>3 DEF TokensOK, TextHeld
<1>9. ASSUME slot[s].caching, NEW n \in 1 .. Len(text'[s])
      PROVE  slot'[s].cached[n] = text'[s][n]
  <2>1. n \in 1 .. l - d /\ n \in 1 .. l /\ n + d \in 1 .. l
    BY <1>3
  <2>2. slot[s].cached[n] = text[s][n] /\ slot[s].cached[n + d] = text[s][n + d]
    BY <1>8, <1>9, <2>1
  <2> QED
    BY <1>3, <1>9, <2>1, <2>2
<1>13. \A m \in 1 .. l - d : text'[s][m] = IF m <= f THEN text[s][m] ELSE text[s][m + d]
  BY <1>3
<1>10. ASSUME NEW i \in Cells, kv'.cells[i].seq = s
       PROVE  kv'.cells[i].tok = text'[s][kv'.cells[i].pos + 1]
  <2>1. IF kv.cells[i].seq = s /\ kv.cells[i].pos >= f
        THEN IF kv.cells[i].pos < f + d THEN kv'.cells[i] = KV!Free
             ELSE /\ kv'.cells[i].seq = s /\ kv'.cells[i].tok = kv.cells[i].tok
                  /\ kv'.cells[i].pos = kv.cells[i].pos - d
        ELSE kv'.cells[i] = kv.cells[i]
    BY <1>3
  <2>2. kv'.cells[i] # KV!Free
    BY <1>10, CachesAre
  <2>3. kv.cells[i].seq = s
    BY <1>10, <2>1, <2>2
  <2>4. PICK c \in [seq : Slots, pos : Nat, tok : Nat] : c = kv.cells[i]
    BY <1>1, <2>3, CachesAre, CellTyped, Typed DEF RInv
  <2>5. PICK p \in Nat : p = c.pos /\ p < l
    BY <1>1, <1>2, <1>3, <2>3, <2>4 DEF RInv, CellsOK
  <2>6. c.tok = text[s][p + 1]
    BY <1>8, <2>3, <2>4, <2>5
  <2>7. CASE p < f
    <3>1. kv'.cells[i] = c
      BY <2>1, <2>4, <2>5, <2>7
    <3>2. p + 1 \in 1 .. l - d /\ p + 1 <= f
      BY <1>3, <2>7
    <3>3. text'[s][p + 1] = text[s][p + 1]
      BY <1>3, <3>2
    <3> QED
      BY <2>5, <2>6, <3>1, <3>3
  <2>8. CASE f <= p
    <3>1. /\ ~(p < f + d) /\ kv'.cells[i].tok = c.tok
          /\ kv'.cells[i].pos = p - d
      BY <2>1, <2>2, <2>3, <2>4, <2>5, <2>8
    <3>2. PICK q \in Nat : q = p - d
      <4>1. p - d \in Nat
        BY <3>1
      <4> QED
        BY <4>1
    <3>3. q + 1 \in 1 .. l - d /\ ~(q + 1 <= f) /\ (q + 1) + d = p + 1
      BY <2>5, <3>1, <3>2
    <3>4. text'[s][q + 1] = text[s][p + 1]
      <4>1. PICK m \in 1 .. l - d : m = q + 1 /\ ~(m <= f) /\ m + d = p + 1
        BY <3>3
      <4>2. text'[s][m] = text[s][m + d]
        BY <1>13, <4>1
      <4> QED
        BY <4>1, <4>2
    <3> QED
      BY <2>6, <3>1, <3>2, <3>4
  <2> QED
    BY <2>5, <2>7, <2>8
<1>11. TextHeld(s)'
  BY <1>2, <1>8, <1>9, <1>10 DEF TextHeld
<1>12. LeftNamed(s)' /\ PrefixReused(s)'
  BY <1>1, <1>6 DEF LeftNamed, PrefixReused
<1> QED
  BY <1>5, <1>7, <1>11, <1>12 DEF TokensOK

(* The first state: nothing is in the cells. *)
LEMMA TokensInit == Init => TInv
<1> SUFFICES ASSUME Init
             PROVE  TInv
  OBVIOUS
<1>1. RInv
  BY RInvInit
<1>2. ASSUME NEW s \in Slots
      PROVE  TokensOK(s)
  <2>1. slot[s].state = "idle" /\ slot[s].caching = TRUE /\ pc = "tasks"
    BY DEF Init
  <2>2. \A i \in Cells : kv.cells[i].seq # s
    BY ClearedIs, CachesAre DEF Init
  <2> QED
    BY <2>1, <2>2 DEF TokensOK, PromptTold, TextHeld, LeftNamed, PrefixReused, Active, Working
<1> QED
  BY <1>1, <1>2 DEF TInv

LEMMA TokensNext == ASSUME PlainCache, TInv, [Next]_vars PROVE TInv'
<1>1. RInv'
  BY RInvNext DEF TInv
<1> SUFFICES \A t \in Slots : TokensOK(t)'
  BY <1>1 DEF TInv
<1>2. CASE BeginRound \/ ClearCache \/ NextChunk
  BY <1>1, <1>2, QuietSteps
<1>3. CASE NoRoom \/ DecodeRejects
  BY <1>1, <1>3, DecodeSteps
<1>4. ASSUME NEW h \in KV!Cells, PlaceUbatch(h) \/ ComputeFails(h)
      PROVE  \A t \in Slots : TokensOK(t)'
  BY <1>1, <1>4, DecodeSteps DEF Cells
<1>5. ASSUME NEW s \in Slots, KeepContext(s) \/ SkipSampled(s) \/ SkipPrompt(s)
      PROVE  \A t \in Slots : TokensOK(t)'
  BY <1>1, <1>5, QuietSteps
<1>6. ASSUME NEW s \in Slots, CancelSlot(s) \/ StopFull(s) \/ RejectPrompt(s) \/ SampleLast(s)
      PROVE  \A t \in Slots : TokensOK(t)'
  BY <1>1, <1>6, ReleaseSteps
<1>7. ASSUME NEW s \in Slots, ShiftContext(s) \/ AddSampled(s) \/ StartPrompt(s)
      PROVE  \A t \in Slots : TokensOK(t)'
  BY <1>1, <1>7, ShiftTokens, AddTokens, StartTokens
<1>8. ASSUME NEW s \in Slots, ContinuePrompt(s) \/ EndReuse(s)
      PROVE  \A t \in Slots : TokensOK(t)'
  BY <1>1, <1>8, PromptSteps
<1>9. ASSUME NEW s \in Slots, ReuseChunk(s) \/ SkipCached(s)
      PROVE  FALSE
  BY <1>9, Options DEF ReuseChunk, SkipCached, Reusing, PlainCache
<1>10. ASSUME NEW s \in Slots, LaunchSlot(s) \/ SampleToken(s)
       PROVE  \A t \in Slots : TokensOK(t)'
  BY <1>1, <1>10, LaunchTokens, SampleTokens
<1>11. CASE UNCHANGED vars
  <2>1. UNCHANGED <<pc, turn, kv, slot, text>>
    BY <1>11 DEF vars
  <2> QED
    <3>1. ASSUME NEW t \in Slots
          PROVE  /\ (PromptTold(t)' <=> PromptTold(t)) /\ (TextHeld(t)' <=> TextHeld(t))
                 /\ (LeftNamed(t)' <=> LeftNamed(t))
      BY <2>1 DEF PromptTold, TextHeld, LeftNamed, Active, Working
    <3>2. ASSUME NEW t \in Slots
          PROVE  PrefixReused(t)' <=> PrefixReused(t)
      BY <2>1 DEF PrefixReused
    <3> QED
      BY <3>1, <3>2 DEF TInv, TokensOK
<1> QED
  BY <1>2, <1>3, <1>4, <1>5, <1>6, <1>7, <1>8, <1>9, <1>10, <1>11 DEF Next, Round

(* Without chunk reuse, and with prompts that do not use the token that    *)
(* cache_tokens is padded with: whatever batch fails, whatever was reused, *)
(* shifted or cancelled before, no slot attends to a token that its text   *)
(* does not have at that position.                                         *)
THEOREM NothingWrong ==
  ASSUME PlainCache
  PROVE  Spec => []NoWrongToken
<1>1. TInv => NoWrongToken
  <2> SUFFICES ASSUME TInv, pc = "sample", NEW s \in Sampling, NEW n \in DOMAIN text[s],
                      NEW i \in At(s, n - 1)
               PROVE  kv.cells[i].tok = text[s][n]
    BY DEF NoWrongToken
  <2>1. s \in Slots /\ Active(s)
    BY DEF Sampling, Active, Working
  <2>2. n \in Nat
    BY <2>1, Typed, LenProperties DEF TInv, RInv
  <2>3. i \in Cells /\ kv.cells[i].seq = s /\ kv.cells[i].pos + 1 = n
    BY <2>2 DEF At, Cells
  <2> QED
    BY <2>1, <2>3 DEF TInv, TokensOK, TextHeld
<1>2. Init => TInv
  BY TokensInit
<1>3. TInv /\ [Next]_vars => TInv'
  BY TokensNext
<1> QED
  BY <1>1, <1>2, <1>3, PTL DEF Spec
-----------------------------------------------------------------------------
(***************************************************************************)
(* Each token in one cell.                                                 *)
(***************************************************************************)
(* No token of a slot is in two cells, none that waits in the batch is in  *)
(* one, and none waits twice.                                              *)

(* The indices of the tokens in the batch that no ubatch has placed. *)
Waiting == {j \in Pending : pc = "decode" => j > at + placed}

OnceInCells ==
  \A i, k \in Cells :
    /\ kv.cells[i].seq \in Slots
    /\ kv.cells[i].seq = kv.cells[k].seq /\ kv.cells[i].pos = kv.cells[k].pos
    => i = k

NotInCells ==
  \A j \in Waiting : \A i \in Cells :
    ~(kv.cells[i].seq = batch[j].seq /\ kv.cells[i].pos = batch[j].pos)

OnceInBatch ==
  \A j, l \in Waiting : batch[j].seq = batch[l].seq /\ batch[j].pos = batch[l].pos => j = l

Once == OnceInCells /\ NotInCells /\ OnceInBatch

(* An ubatch behind the first of its chunk finds no room, and the chunk is *)
(* tried again: the first ones keep their cells and get others.            *)
PlacedInPart == NoRoom /\ placed > 0

(* The sequence that owns a cell, and the ones in the batch. *)
LEMMA PendingTyped ==
  ASSUME TypeOK, NEW j \in Pending
  PROVE  j \in 1 .. Len(batch) /\ batch[j] \in [seq : Slots, pos : Nat, tok : Nat]
<1>1. batch \in Seq([seq : Slots, pos : Nat, tok : Nat]) /\ j \in 1 .. Len(batch)
  BY Typed DEF Pending
<1> QED
  BY <1>1, ElementOfSeq

(* Cells that are left alone or freed, and nothing new in the batch. *)
LEMMA OnceStays ==
  ASSUME TypeOK, Once, \A i \in Cells : kv'.cells[i] \in {KV!Free, kv.cells[i]},
         \/ batch' = batch /\ Waiting' \subseteq Waiting
         \/ Waiting' = {}
  PROVE  Once'
<1>1. ASSUME NEW i \in Cells, kv'.cells[i].seq \in Slots
      PROVE  kv'.cells[i] = kv.cells[i]
  BY <1>1, CachesAre
<1>2. OnceInCells'
  <2> SUFFICES ASSUME NEW i \in Cells, NEW k \in Cells, kv'.cells[i].seq \in Slots,
                      kv'.cells[i].seq = kv'.cells[k].seq, kv'.cells[i].pos = kv'.cells[k].pos
               PROVE  i = k
    BY DEF OnceInCells
  <2> QED
    BY <1>1 DEF Once, OnceInCells
<1>3. NotInCells'
  <2> SUFFICES ASSUME NEW j \in Waiting', NEW i \in Cells,
                      kv'.cells[i].seq = batch'[j].seq, kv'.cells[i].pos = batch'[j].pos
               PROVE  FALSE
    BY DEF NotInCells
  <2>1. j \in Waiting /\ batch'[j] = batch[j] /\ batch[j].seq \in Slots
    BY PendingTyped DEF Waiting
  <2> QED
    BY <1>1, <2>1 DEF Once, NotInCells
<1>4. OnceInBatch'
  BY DEF Once, OnceInBatch
<1> QED
  BY <1>2, <1>3, <1>4 DEF Once

(* Cells of a sequence that are removed or moved down behind what is left, *)
(* while none of its tokens is in the batch.                               *)
LEMMA OnceMoved ==
  ASSUME TypeOK, Once, NEW s \in Slots, NEW f \in Nat, NEW d \in Nat,
         \A i \in Cells :
           IF kv.cells[i].seq = s /\ kv.cells[i].pos >= f
           THEN IF kv.cells[i].pos < f + d THEN kv'.cells[i] = KV!Free
                ELSE /\ kv'.cells[i].seq = s
                     /\ kv'.cells[i].pos = kv.cells[i].pos - d
           ELSE kv'.cells[i] = kv.cells[i],
         batch' = batch /\ Waiting' \subseteq Waiting, \A j \in Pending : batch[j].seq # s
  PROVE  Once'
<1>1. ASSUME NEW i \in Cells, kv'.cells[i].seq = s
      PROVE  /\ kv.cells[i].seq = s /\ kv.cells[i].pos \in Nat
             /\ kv'.cells[i].pos = IF kv.cells[i].pos >= f THEN kv.cells[i].pos - d
                                   ELSE kv.cells[i].pos
             /\ kv.cells[i].pos >= f => kv.cells[i].pos >= f + d
  <2>1. kv.cells[i].seq = s
    BY <1>1, CachesAre
  <2>2. kv.cells[i].pos \in Nat
    BY <2>1, CachesAre, CellTyped, Typed
  <2> QED
    BY <1>1, <2>1, <2>2, CachesAre
<1>2. ASSUME NEW i \in Cells, kv'.cells[i].seq \in Slots, kv'.cells[i].seq # s
      PROVE  kv'.cells[i] = kv.cells[i]
  BY <1>2, CachesAre
<1>3. OnceInCells'
  <2> SUFFICES ASSUME NEW i \in Cells, NEW k \in Cells, kv'.cells[i].seq \in Slots,
                      kv'.cells[i].seq = kv'.cells[k].seq, kv'.cells[i].pos = kv'.cells[k].pos
               PROVE  i = k
    BY DEF OnceInCells
  <2>1. CASE kv'.cells[i].seq = s
    <3>1. kv.cells[i].seq = s /\ kv.cells[k].seq = s /\ kv.cells[i].pos = kv.cells[k].pos
      <4>1. PICK p \in Nat, q \in Nat : p = kv.cells[i].pos /\ q = kv.cells[k].pos
        BY <1>1, <2>1
      <4>2. /\ p >= f => p >= f + d
            /\ q >= f => q >= f + d
            /\ (IF p >= f THEN p - d ELSE p) = (IF q >= f THEN q - d ELSE q)
        BY <1>1, <2>1, <4>1
      <4>3. p = q
        BY <4>2
      <4> QED
        BY <1>1, <2>1, <4>1, <4>3
    <3> QED
      BY <3>1 DEF Once, OnceInCells
  <2>2. CASE kv'.cells[i].seq # s
    BY <1>2, <2>2 DEF Once, OnceInCells
  <2> QED
    BY <2>1, <2>2
<1>4. NotInCells'
  <2> SUFFICES ASSUME NEW j \in Waiting', NEW i \in Cells,
                      kv'.cells[i].seq = batch'[j].seq, kv'.cells[i].pos = batch'[j].pos
               PROVE  FALSE
    BY DEF NotInCells
  <2>1. j \in Waiting /\ batch'[j] = batch[j] /\ batch[j].seq \in Slots /\ batch[j].seq # s
    BY PendingTyped DEF Waiting
  <2> QED
    BY <1>2, <2>1 DEF Once, NotInCells
<1>5. OnceInBatch'
  BY DEF Once, OnceInBatch
<1> QED
  BY <1>3, <1>4, <1>5 DEF Once

(* Steps that free cells and empty the batch, or leave both alone. *)
LEMMA OnceQuiet ==
  ASSUME RInv, RInv', Once, ~PlacedInPart,
         \/ BeginRound \/ ClearCache \/ NextChunk \/ NoRoom \/ DecodeRejects
         \/ \E s \in Slots :
              \/ KeepContext(s) \/ SkipSampled(s) \/ SkipPrompt(s) \/ StopFull(s)
              \/ RejectPrompt(s) \/ StartPrompt(s) \/ SkipCached(s)
              \/ SampleToken(s) \/ SampleLast(s) \/ LaunchSlot(s) \/ CancelSlot(s)
  PROVE  Once'
<1>1. CASE NextChunk
  <2>1. kv' = kv /\ pc = "sample"
    BY <1>1 DEF NextChunk
  <2>2. CASE at + chunk < Len(batch)
    <3>1. pc' = "decode" /\ at' = at + chunk /\ placed' = 0 /\ batch' = batch /\ chunk' = chunk
      BY <1>1, <2>2 DEF NextChunk
    <3>2. Chunk = chunk /\ at \in Nat /\ chunk \in Nat
      <4>1. /\ Chunk <= Len(batch) - at /\ (Chunk = chunk \/ Chunk = Len(batch) - at)
            /\ Chunk <= chunk /\ Chunk \in Int
        BY ChunkIs DEF RInv
      <4>2. at \in Nat /\ chunk \in 1 .. Batch /\ Len(batch) \in Nat
        BY Typed DEF RInv
      <4> QED
        BY <2>2, <4>1, <4>2, Options
    <3>3. Pending' \subseteq Pending
      BY <2>1, <3>1, <3>2 DEF Pending
    <3>4. Waiting' \subseteq Waiting
      BY <2>1, <3>3 DEF Waiting
    <3> QED
      BY <2>1, <3>1, <3>4, OnceStays DEF RInv
  <2>3. CASE ~(at + chunk < Len(batch))
    <3>1. pc' = "tasks" /\ batch' = <<>>
      BY <1>1, <2>3 DEF NextChunk, EndRound
    <3>2. Waiting' = {}
      BY <3>1 DEF Pending, Waiting
    <3> QED
      BY <2>1, <3>2, OnceStays DEF RInv
  <2> QED
    BY <2>2, <2>3
<1>2. CASE NoRoom \/ DecodeRejects
  <2>1. pc = "decode"
    BY <1>2 DEF NoRoom, DecodeRejects
  <2>2. kv'.cells = kv.cells
    <3>1. CASE NoRoom
      <4>1. kv' = [kv EXCEPT !.head = Room.head] /\ Room.head \in 0 .. Size /\ kv \in Caches
        BY <2>1, <3>1, RoomIs, Typed DEF NoRoom, RInv
      <4>2. PICK head \in 0 .. Size : head = Room.head
        BY <4>1
      <4> QED
        BY <4>1, <4>2, HeadIs
    <3>2. CASE DecodeRejects
      BY <3>2 DEF DecodeRejects
    <3> QED
      BY <1>2, <3>1, <3>2
  <2>3. \/ pc' = "decode" /\ placed' = placed /\ batch' = batch /\ at' = at
        \/ pc' = "tasks" /\ batch' = <<>>
    <3>1. CASE NoRoom
      <4>1. placed = 0
        BY <3>1, Typed DEF RInv, PlacedInPart
      <4> QED
        BY <3>1, <2>1, <4>1 DEF NoRoom, FailBatch, EndRound
    <3>2. CASE DecodeRejects
      BY <3>2 DEF DecodeRejects, FailBatch, EndRound
    <3> QED
      BY <1>2, <3>1, <3>2
  <2>4. \/ batch' = batch /\ Waiting' \subseteq Waiting
        \/ Waiting' = {}
    BY <2>1, <2>3 DEF Pending, Waiting
  <2> QED
    BY <2>2, <2>4, OnceStays DEF RInv
<1>3. CASE /\ ~(NextChunk \/ NoRoom \/ DecodeRejects)
  <2>1. \A i \in Cells : kv'.cells[i] \in {KV!Free, kv.cells[i]}
    BY <1>3, ClearedIs
       DEF BeginRound, ClearCache, KeepContext, SkipSampled, SkipPrompt, StopFull,
           RejectPrompt, StartPrompt, SkipCached, SampleToken, SampleLast, LaunchSlot, CancelSlot
  <2>2. UNCHANGED <<batch, at, chunk, placed>> /\ pc # "decode" /\ (pc = "sample" => pc' = "sample")
    <3>1. CASE BeginRound \/ ClearCache
      BY <3>1 DEF BeginRound, ClearCache, decodeVars
    <3>2. ASSUME NEW s \in Slots,
                 \/ KeepContext(s) \/ SkipSampled(s) \/ SkipPrompt(s)
                 \/ StopFull(s) \/ RejectPrompt(s) \/ StartPrompt(s)
          PROVE  /\ UNCHANGED <<batch, at, chunk, placed>> /\ pc # "decode"
                 /\ pc = "sample" => pc' = "sample"
      BY <3>2 DEF KeepContext, SkipSampled, SkipPrompt, StopFull, RejectPrompt, StartPrompt,
                  decodeVars
    <3>3. ASSUME NEW s \in Slots,
                 SkipCached(s) \/ SampleToken(s) \/ SampleLast(s) \/ LaunchSlot(s) \/ CancelSlot(s)
          PROVE  /\ UNCHANGED <<batch, at, chunk, placed>> /\ pc # "decode"
                 /\ pc = "sample" => pc' = "sample"
      BY <3>3 DEF SkipCached, Reusing, SampleToken, SampleLast, LaunchSlot, CancelSlot, decodeVars
    <3> QED
      BY <1>3, <3>1, <3>2, <3>3
  <2>3. Pending' \subseteq Pending
    BY <2>2, SameBatch
  <2>4. Waiting' \subseteq Waiting
    BY <2>2, <2>3 DEF Waiting
  <2> QED
    BY <2>1, <2>2, <2>4, OnceStays DEF RInv
<1> QED
  BY <1>1, <1>2, <1>3

(* Tokens are added to the batch. *)
LEMMA Grown ==
  ASSUME RInv, NEW k \in Nat, Len(batch') = Len(batch) + k, at' = at,
         pc \in {"gen", "prompts", "reuse"}, pc' # "sample"
  PROVE  /\ Len(batch) \in Nat /\ Pending = 1 .. Len(batch)
         /\ Pending' = 1 .. Len(batch) + k
         /\ \A j \in Pending' : j \in Pending \/ \E m \in 1 .. k : j = Len(batch) + m
<1>1. at = 0 /\ Len(batch) \in Nat
  BY Typed DEF RInv, RoundOK
<1>2. Pending = 1 .. Len(batch) /\ Pending' = 1 .. Len(batch) + k
  BY <1>1 DEF Pending
<1>3. ASSUME NEW j \in 1 .. Len(batch) + k, j \notin 1 .. Len(batch)
      PROVE  \E m \in 1 .. k : j = Len(batch) + m
  <2>1. j - Len(batch) \in 1 .. k /\ j = Len(batch) + (j - Len(batch))
    BY <1>1, <1>3
  <2> QED
    BY <2>1
<1> QED
  BY <1>1, <1>2, <1>3

(* Tokens behind everything a slot has in its cells and in the batch. *)
LEMMA OnceAdded ==
  ASSUME RInv, Once, NEW s \in Slots, NEW n \in Nat, NEW k \in Nat,
         Len(batch') = Len(batch) + k, at' = at,
         pc \in {"gen", "prompts", "reuse"}, pc' # "sample",
         \A j \in 1 .. Len(batch) : batch'[j] = batch[j],
         \A m \in 1 .. k : batch'[Len(batch) + m].seq = s /\ batch'[Len(batch) + m].pos = n + m - 1,
         \A i \in Cells : kv'.cells[i] \in {KV!Free, kv.cells[i]},
         \A i \in Cells : kv'.cells[i].seq = s => kv'.cells[i].pos < n,
         \A j \in Pending : batch[j].seq = s => batch[j].pos < n
  PROVE  Once'
<1>1. /\ Len(batch) \in Nat /\ Pending = 1 .. Len(batch)
      /\ \A j \in Waiting' : j \in Waiting \/ \E m \in 1 .. k : j = Len(batch) + m
  BY Grown DEF Waiting
<1>2. ASSUME NEW i \in Cells, kv'.cells[i].seq \in Slots
      PROVE  kv'.cells[i] = kv.cells[i] /\ kv.cells[i].pos \in Nat
  <2>1. kv'.cells[i] = kv.cells[i]
    BY <1>2, CachesAre
  <2>2. kv.cells[i].pos \in Nat
    BY <1>2, <2>1, CachesAre, CellTyped, Typed DEF RInv
  <2> QED
    BY <2>1, <2>2
<1>3. OnceInCells'
  <2> SUFFICES ASSUME NEW i \in Cells, NEW l \in Cells, kv'.cells[i].seq \in Slots,
                      kv'.cells[i].seq = kv'.cells[l].seq, kv'.cells[i].pos = kv'.cells[l].pos
               PROVE  i = l
    BY DEF OnceInCells
  <2> QED
    BY <1>2 DEF Once, OnceInCells
<1>4. ASSUME NEW j \in Waiting
      PROVE  batch'[j] = batch[j] /\ batch[j].seq \in Slots /\ batch[j].pos \in Nat
  BY <1>1, <1>4, PendingTyped DEF RInv, Waiting
<1>5. ASSUME NEW j \in Waiting', j \notin Waiting
      PROVE  \E m \in 1 .. k : /\ j = Len(batch) + m
                               /\ batch'[j].seq = s /\ batch'[j].pos = n + m - 1
  BY <1>1, <1>5
<1>6. NotInCells'
  <2> SUFFICES ASSUME NEW j \in Waiting', NEW i \in Cells,
                      kv'.cells[i].seq = batch'[j].seq, kv'.cells[i].pos = batch'[j].pos
               PROVE  FALSE
    BY DEF NotInCells
  <2>1. CASE j \in Waiting
    BY <1>2, <1>4, <2>1 DEF Once, NotInCells
  <2>2. CASE j \notin Waiting
    <3>1. PICK m \in 1 .. k : batch'[j].seq = s /\ batch'[j].pos = n + m - 1
      BY <1>5, <2>2
    <3>2. kv'.cells[i].seq = s /\ kv'.cells[i].pos < n /\ kv'.cells[i].pos = n + m - 1
      BY <3>1
    <3> QED
      BY <3>2
  <2> QED
    BY <2>1, <2>2
<1>7. OnceInBatch'
  <2> SUFFICES ASSUME NEW j \in Waiting', NEW l \in Waiting',
                      batch'[j].seq = batch'[l].seq, batch'[j].pos = batch'[l].pos
               PROVE  j = l
    BY DEF OnceInBatch
  <2>1. CASE j \in Waiting /\ l \in Waiting
    BY <1>4, <2>1 DEF Once, OnceInBatch
  <2>2. ASSUME NEW a \in Waiting, NEW b \in Waiting', b \notin Waiting,
               batch'[a].seq = batch'[b].seq, batch'[a].pos = batch'[b].pos
        PROVE  FALSE
    <3>1. PICK m \in 1 .. k : batch'[b].seq = s /\ batch'[b].pos = n + m - 1
      BY <1>5, <2>2
    <3>2. batch[a].pos < n /\ batch[a].pos = n + m - 1 /\ batch[a].pos \in Nat
      BY <1>4, <2>2, <3>1 DEF Waiting
    <3> QED
      BY <3>2
  <2>3. CASE j \notin Waiting /\ l \notin Waiting
    <3>1. PICK m \in 1 .. k : j = Len(batch) + m /\ batch'[j].pos = n + m - 1
      BY <1>5, <2>3
    <3>2. PICK o \in 1 .. k : l = Len(batch) + o /\ batch'[l].pos = n + o - 1
      BY <1>5, <2>3
    <3>3. n + m - 1 = n + o - 1
      BY <3>1, <3>2
    <3> QED
      BY <3>1, <3>2, <3>3
  <2> QED
    BY <2>1, <2>2, <2>3
<1> QED
  BY <1>3, <1>6, <1>7 DEF Once

(* The token that was sampled goes behind the text of its slot. *)
LEMMA SampledAdded ==
  ASSUME RInv, NEW s \in Slots, AddSampled(s)
  PROVE  /\ Active(s) /\ Len(text[s]) \in Nat
         /\ Len(batch') = Len(batch) + 1
         /\ \A j \in 1 .. Len(batch) : batch'[j] = batch[j]
         /\ batch'[Len(batch) + 1].seq = s /\ batch'[Len(batch) + 1].pos = Len(text[s])
<1>1. /\ slot[s].state = "gen" /\ pc = "gen"
      /\ batch' = Append(batch, [seq |-> s, pos |-> slot[s].nPast, tok |-> slot[s].sampled])
  BY DEF AddSampled
<1>2. Active(s)
  BY <1>1 DEF Active, Working
<1>3. PICK n \in Nat : n = slot[s].nPast /\ n = Len(text[s]) /\ slot[s].sampled \in Nat
  BY <1>2, Typed, SlotTyped DEF RInv, TextOK
<1>4. PICK c \in [seq : Slots, pos : Nat, tok : Nat] :
        c = [seq |-> s, pos |-> slot[s].nPast, tok |-> slot[s].sampled] /\ c.seq = s /\ c.pos = n
  <2>1. PICK tok \in Nat : tok = slot[s].sampled
    BY <1>3
  <2>2. PICK c : c = [seq |-> s, pos |-> n, tok |-> tok]
    OBVIOUS
  <2>3. c \in [seq : Slots, pos : Nat, tok : Nat] /\ c.seq = s /\ c.pos = n
    BY ONLY <2>2, s \in Slots, n \in Nat, tok \in Nat
  <2> QED
    BY <1>3, <2>1, <2>2, <2>3
<1>5. /\ batch \in Seq([seq : Slots, pos : Nat, tok : Nat]) /\ Len(batch) \in Nat
      /\ batch' = Append(batch, c)
  BY <1>1, <1>4, Typed DEF RInv
<1>6. /\ Len(batch') = Len(batch) + 1 /\ batch'[Len(batch) + 1] = c
      /\ \A j \in 1 .. Len(batch) : batch'[j] = batch[j]
  BY <1>5, AppendProperties
<1> QED
  BY <1>2, <1>3, <1>4, <1>6

LEMMA OnceSampled == ASSUME RInv, Once, NEW s \in Slots, AddSampled(s) PROVE Once'
<1>1. /\ pc = "gen" /\ Turn("gen", "prompts") /\ UNCHANGED <<kv, at>>
  BY DEF AddSampled, decodeVars
<1>2. /\ Active(s) /\ Len(batch') = Len(batch) + 1
      /\ \A j \in 1 .. Len(batch) : batch'[j] = batch[j]
  BY SampledAdded
<1>3. PICK n \in Nat : /\ n = Len(text[s])
                       /\ batch'[Len(batch) + 1].seq = s /\ batch'[Len(batch) + 1].pos = n
  BY SampledAdded
<1>4. pc' # "sample"
  BY <1>1 DEF Turn
<1>5. \A m \in 1 .. 1 : batch'[Len(batch) + m].seq = s /\ batch'[Len(batch) + m].pos = n + m - 1
  <2>1. \A m \in 1 .. 1 : m = 1 /\ n + m - 1 = n
    OBVIOUS
  <2> QED
    BY <1>3, <2>1
<1>6. /\ \A i \in Cells : kv'.cells[i].seq = s => kv'.cells[i].pos < n
      /\ \A i \in Cells : kv'.cells[i] \in {KV!Free, kv.cells[i]}
  BY <1>1, <1>2, <1>3 DEF RInv, CellsOK
<1>7. \A j \in Pending : batch[j].seq = s => batch[j].pos < n
  BY <1>3 DEF RInv, BatchOK, TokenOK
<1>8. pc \in {"gen", "prompts", "reuse"} /\ at' = at /\ 1 \in Nat
  BY <1>1
<1> QED
  BY <1>2, <1>4, <1>5, <1>6, <1>7, <1>8, OnceAdded

(* What filling the batch puts into it. *)
LEMMA FillAdded ==
  ASSUME RInv, NEW s \in Slots, NEW n \in Nat, slot[s].state = "prompt",
         n < Len(slot[s].prompt), FillBatch(s, n)
  PROVE  /\ kv' \in Caches
         /\ \A i \in Cells :
              kv'.cells[i] = IF kv.cells[i].seq = s /\ kv.cells[i].pos >= n
                             THEN KV!Free ELSE kv.cells[i]
         /\ \E k \in Nat :
              /\ Len(text'[s]) = n + k /\ slot'[s].state \in {"prompt", "done"}
              /\ \A t \in Slots : t # s => slot'[t] = slot[t] /\ text'[t] = text[t]
              /\ Len(batch') = Len(batch) + k
              /\ \A j \in 1 .. Len(batch) : batch'[j] = batch[j]
              /\ \A m \in 1 .. k :
                   batch'[Len(batch) + m].seq = s /\ batch'[Len(batch) + m].pos = n + m - 1
<1>1. Len(slot[s].prompt) < Ctx
  BY DEF RInv, SlotOK
<1>2. kv' \in Caches
      /\ \A i \in Cells :
           kv'.cells[i] = IF kv.cells[i].seq = s /\ kv.cells[i].pos >= n
                          THEN KV!Free ELSE kv.cells[i]
  BY <1>1, FillBatchIs
<1>3. \E k \in Nat :
        /\ Len(text'[s]) = n + k /\ slot'[s].state \in {"prompt", "done"}
        /\ \A t \in Slots : t # s => slot'[t] = slot[t] /\ text'[t] = text[t]
        /\ Len(batch') = Len(batch) + k
        /\ \A j \in 1 .. Len(batch) : batch'[j] = batch[j]
        /\ \A m \in 1 .. k :
             batch'[Len(batch) + m].seq = s /\ batch'[Len(batch) + m].pos = n + m - 1
  <2>1. PICK k \in Nat, r \in SlotRec, new \in Seq(Nat) :
        /\ n + k <= Len(slot[s].prompt)
        /\ r.state = IF n + k = Len(slot[s].prompt) THEN "done" ELSE "prompt"
        /\ r.prompt = slot[s].prompt /\ r.keep = slot[s].keep
        /\ r.discard = slot[s].discard /\ r.caching = slot[s].caching
        /\ r.nPast = n + k
        /\ r.state = "done" => r.iBatch = Len(batch) + k - 1
        /\ Len(r.cached) = IF r.caching THEN n + k ELSE n
        /\ \A i \in 1 .. n :
             r.cached[i] = IF i <= Len(slot[s].cached) THEN slot[s].cached[i] ELSE 0
        /\ r.caching => \A i \in 1 .. k : r.cached[n + i] = r.prompt[n + i]
        /\ slot' \in [Slots -> SlotRec] /\ slot'[s] = r
        /\ \A t \in Slots : t # s => slot'[t] = slot[t]
        /\ new = SubSeq(r.prompt, 1, n + k) /\ Len(new) = n + k
        /\ \A i \in 1 .. n + k : new[i] = r.prompt[i]
        /\ text' \in [Slots -> Seq(Nat)] /\ text'[s] = new
        /\ \A t \in Slots : t # s => text'[t] = text[t]
        /\ batch' \in Seq([seq : Slots, pos : Nat, tok : Nat])
        /\ Len(batch') = Len(batch) + k
        /\ \A j \in 1 .. Len(batch) : batch'[j] = batch[j]
        /\ \A i \in 1 .. k :
             batch'[Len(batch) + i] = [seq |-> s, pos |-> n + i - 1, tok |-> new[n + i]]
    BY <1>1, FillBatchIs, ZenonT(60)
  <2>2. /\ Len(text'[s]) = n + k /\ slot'[s].state \in {"prompt", "done"}
        /\ \A t \in Slots : t # s => slot'[t] = slot[t] /\ text'[t] = text[t]
        /\ Len(batch') = Len(batch) + k
        /\ \A j \in 1 .. Len(batch) : batch'[j] = batch[j]
        /\ \A i \in 1 .. k :
             batch'[Len(batch) + i] = [seq |-> s, pos |-> n + i - 1, tok |-> new[n + i]]
    BY ONLY <2>1
  <2>3. \A m \in 1 .. k :
          batch'[Len(batch) + m].seq = s /\ batch'[Len(batch) + m].pos = n + m - 1
    <3> TAKE m \in 1 .. k
    <3>1. batch'[Len(batch) + m] = [seq |-> s, pos |-> n + m - 1, tok |-> new[n + m]]
      BY <2>2
    <3> QED
      BY ONLY <3>1
  <2> QED
    BY ONLY <2>2, <2>3, k \in Nat
<1> QED
  BY <1>2, <1>3

LEMMA OnceFilled ==
  ASSUME RInv, Once, NEW s \in Slots, NEW n \in Nat, slot[s].state = "prompt",
         n < Len(slot[s].prompt), FillBatch(s, n), turn = s, pc' # "sample",
         pc = "reuse" \/ (pc = "prompts" /\ n = slot[s].nPast)
  PROVE  Once'
<1>1. kv' \in Caches
      /\ \A i \in Cells :
           kv'.cells[i] = IF kv.cells[i].seq = s /\ kv.cells[i].pos >= n
                          THEN KV!Free ELSE kv.cells[i]
  BY FillAdded
<1>2. PICK k \in Nat :
        /\ Len(text'[s]) = n + k /\ slot'[s].state \in {"prompt", "done"}
        /\ \A t \in Slots : t # s => slot'[t] = slot[t] /\ text'[t] = text[t]
        /\ Len(batch') = Len(batch) + k
        /\ \A j \in 1 .. Len(batch) : batch'[j] = batch[j]
        /\ \A m \in 1 .. k :
             batch'[Len(batch) + m].seq = s /\ batch'[Len(batch) + m].pos = n + m - 1
  BY FillAdded
<1>3. at' = at /\ pc \in {"gen", "prompts", "reuse"}
  BY DEF FillBatch, decodeVars
<1>4. \A i \in Cells : kv'.cells[i].seq = s => kv'.cells[i].pos < n
  <2> SUFFICES ASSUME NEW i \in Cells, kv'.cells[i].seq = s
               PROVE  kv'.cells[i].pos < n
    OBVIOUS
  <2>1. kv'.cells[i] = kv.cells[i] /\ ~(kv.cells[i].pos >= n)
    BY <1>1, CachesAre
  <2>2. kv'.cells[i].pos \in Nat
    BY <1>1, CachesAre, CellTyped
  <2> QED
    BY <2>1, <2>2
<1>5. \A i \in Cells : kv'.cells[i] \in {KV!Free, kv.cells[i]}
  BY <1>1
<1>6. \A j \in Pending : batch[j].seq = s => batch[j].pos < n
  <2>1. CASE pc = "reuse"
    BY <2>1 DEF RInv, BatchOK, TokenOK, Active
  <2>2. CASE pc = "prompts" /\ n = slot[s].nPast
    <3>1. Active(s)
      BY <2>2 DEF Active, Working
    <3> QED
      BY <2>2, <3>1 DEF RInv, BatchOK, TokenOK, TextOK
  <2> QED
    BY <2>1, <2>2
<1> QED
  BY <1>2, <1>3, <1>4, <1>5, <1>6, OnceAdded, ZenonT(60)

(* Tokens of the batch get cells. *)
LEMMA OncePlaced ==
  ASSUME RInv, Once, NEW h \in Cells, RoomAt(h),
         \A i \in Cells : kv'.cells[i] \in {KV!Free, KV!Fill(kv, h, Ubatch).cells[i]},
         \/ /\ batch' = batch /\ Waiting' \subseteq Waiting
            /\ \A j \in Waiting' : j > at + placed + Len(Ubatch)
         \/ Waiting' = {}
  PROVE  Once'
<1>1. PICK a \in Nat, n \in Nat : a = at + placed /\ n = Len(Ubatch) /\ h \in Nat
  <2>1. Len(Ubatch) \in Nat
    BY RoomIs DEF RInv, RoomAt
  <2>2. at \in Nat /\ placed \in Nat /\ h \in Nat
    BY Typed, CachesAre, Options DEF RInv
  <2>3. at + placed \in Nat
    BY <2>2
  <2> QED
    BY <2>1, <2>2, <2>3
<1>2. PICK r : r = KV!Fill(kv, h, Ubatch)
  OBVIOUS
<1>3. \A i \in Cells :
        IF h <= i /\ i < h + n
        THEN /\ r.cells[i] = batch[a + (i - h + 1)] /\ kv.cells[i] = KV!Free
             /\ a + (i - h + 1) \in Waiting
        ELSE r.cells[i] = kv.cells[i]
  <2> DEFINE j(i) == at + placed + (i - h + 1)
  <2>1. \A i \in Cells :
          IF h <= i /\ i < h + Len(Ubatch)
          THEN /\ r.cells[i] = batch[j(i)] /\ kv.cells[i] = KV!Free
               /\ j(i) \in Waiting
          ELSE r.cells[i] = kv.cells[i]
    <3>1. \A i \in Cells :
            IF h <= i /\ i < h + Len(Ubatch)
            THEN /\ r.cells[i] = batch[j(i)] /\ kv.cells[i] = KV!Free
                 /\ j(i) \in Pending /\ TokenOK(j(i))
                 /\ batch[j(i)] \in [seq : Slots, pos : Nat, tok : Nat]
            ELSE r.cells[i] = kv.cells[i]
      BY <1>2, FillOfUbatch
    <3>2. ASSUME NEW i \in Cells, h <= i
          PROVE  j(i) > at + placed
      BY <1>1, <3>2, CachesAre
    <3> HIDE DEF j
    <3> QED
      BY <3>1, <3>2 DEF Waiting
  <2> QED
    BY <1>1, <2>1
<1>4. ASSUME NEW i \in Cells, kv'.cells[i].seq \in Slots
      PROVE  /\ i \in Nat
             /\ \/ kv'.cells[i] = kv.cells[i]
                \/ \E j \in Waiting : /\ kv'.cells[i] = batch[j]
                                      /\ j = a + (i - h + 1) /\ j <= a + n
  <2>1. kv'.cells[i] = r.cells[i] /\ i \in Nat
    BY <1>2, <1>4, CachesAre
  <2>2. CASE h <= i /\ i < h + n
    <3>1. r.cells[i] = batch[a + (i - h + 1)] /\ a + (i - h + 1) \in Waiting
      BY <1>3, <2>2
    <3>2. a + (i - h + 1) <= a + n
      BY <1>1, <2>1, <2>2
    <3> QED
      BY <2>1, <3>1, <3>2
  <2>3. CASE ~(h <= i /\ i < h + n)
    BY <1>3, <2>1, <2>3
  <2> QED
    BY <2>1, <2>2, <2>3
<1>5. OnceInCells'
  <2> SUFFICES ASSUME NEW i \in Cells, NEW k \in Cells, kv'.cells[i].seq \in Slots,
                      kv'.cells[i].seq = kv'.cells[k].seq, kv'.cells[i].pos = kv'.cells[k].pos
               PROVE  i = k
    BY DEF OnceInCells
  <2>1. i \in Nat /\ k \in Nat /\ kv'.cells[k].seq \in Slots
    BY <1>4
  <2>2. CASE kv'.cells[i] = kv.cells[i] /\ kv'.cells[k] = kv.cells[k]
    BY <2>2 DEF Once, OnceInCells
  <2>3. CASE kv'.cells[i] # kv.cells[i] /\ kv'.cells[k] # kv.cells[k]
    <3>1. PICK j \in Waiting : kv'.cells[i] = batch[j] /\ j = a + (i - h + 1)
      BY <1>4, <2>3
    <3>2. PICK l \in Waiting : kv'.cells[k] = batch[l] /\ l = a + (k - h + 1)
      BY <1>4, <2>1, <2>3
    <3>3. j = l
      BY <3>1, <3>2 DEF Once, OnceInBatch
    <3> QED
      BY <1>1, <2>1, <3>1, <3>2, <3>3
  <2>4. CASE kv'.cells[i] # kv.cells[i] /\ kv'.cells[k] = kv.cells[k]
    BY <1>4, <2>4 DEF Once, NotInCells
  <2>5. CASE kv'.cells[i] = kv.cells[i] /\ kv'.cells[k] # kv.cells[k]
    BY <1>4, <2>1, <2>5 DEF Once, NotInCells
  <2> QED
    BY <2>2, <2>3, <2>4, <2>5
<1>6. CASE Waiting' = {}
  BY <1>5, <1>6 DEF Once, NotInCells, OnceInBatch
<1>7. CASE /\ batch' = batch /\ Waiting' \subseteq Waiting
           /\ \A j \in Waiting' : j > a + n
  <2>1. OnceInBatch'
    BY <1>7 DEF Once, OnceInBatch
  <2>2. NotInCells'
    <3> SUFFICES ASSUME NEW j \in Waiting', NEW i \in Cells,
                        kv'.cells[i].seq = batch[j].seq, kv'.cells[i].pos = batch[j].pos
                 PROVE  FALSE
      BY <1>7 DEF NotInCells
    <3>1. j \in Waiting /\ batch[j].seq \in Slots /\ j > a + n /\ j \in Nat
      BY <1>7, PendingTyped DEF RInv, Waiting, Pending
    <3>2. CASE kv'.cells[i] = kv.cells[i]
      BY <3>1, <3>2 DEF Once, NotInCells
    <3>3. CASE kv'.cells[i] # kv.cells[i]
      <4>1. PICK l \in Waiting : kv'.cells[i] = batch[l] /\ l <= a + n
        BY <1>4, <3>1, <3>3
      <4>2. j = l
        BY <3>1, <4>1 DEF Once, OnceInBatch
      <4> QED
        BY <1>1, <3>1, <4>1, <4>2
    <3> QED
      BY <3>2, <3>3
  <2> QED
    BY <1>5, <2>1, <2>2 DEF Once
<1> QED
  BY <1>1, <1>6, <1>7

(* What an ubatch leaves to be placed. *)
LEMMA UbatchPlaced ==
  ASSUME RInv, NEW h \in Cells, PlaceUbatch(h)
  PROVE  /\ Len(Ubatch) \in Nat /\ pc = "decode" /\ RoomAt(h)
         /\ kv'.cells = KV!Fill(kv, h, Ubatch).cells
         /\ batch' = batch /\ at' = at /\ chunk' = chunk /\ Chunk' = Chunk
         /\ placed' = placed + Len(Ubatch) /\ at + placed' = at + placed + Len(Ubatch)
         /\ pc' = IF placed' = Chunk THEN "sample" ELSE "decode"
<1>1. RoomAt(h) /\ pc = "decode"
  BY DEF PlaceUbatch, RoomAt
<1>2. PICK n \in Nat : n = Len(Ubatch)
  BY <1>1, RoomIs DEF RInv
<1>3. PICK r : r = KV!Fill(kv, h, Ubatch)
  OBVIOUS
<1>4. r \in Caches
  BY <1>1, <1>3, FillOfUbatch
<1>5. kv' = KV!Advance(r, h, n)
  BY <1>2, <1>3 DEF PlaceUbatch
<1>6. kv'.cells = r.cells
  BY <1>4, <1>5, AdvanceIs
<1>7. /\ batch' = batch /\ at' = at /\ chunk' = chunk /\ placed' = placed + Len(Ubatch)
      /\ pc' = IF placed' = Chunk THEN "sample" ELSE "decode"
  BY DEF PlaceUbatch
<1>8. Chunk' = Chunk
  BY <1>7 DEF Chunk
<1>9. at + placed' = at + placed + Len(Ubatch)
  <2>1. PICK a \in Nat, o \in Nat : a = at /\ o = placed
    BY Typed, Options DEF RInv
  <2>2. a + (o + n) = a + o + n
    OBVIOUS
  <2> QED
    BY <1>2, <1>7, <2>1, <2>2
<1> QED
  BY <1>1, <1>2, <1>3, <1>6, <1>7, <1>8, <1>9

LEMMA OnceDecoded ==
  ASSUME RInv, Once, NEW h \in Cells, PlaceUbatch(h) \/ ComputeFails(h)
  PROVE  Once'
<1>1. RoomAt(h) /\ pc = "decode"
  BY DEF PlaceUbatch, ComputeFails, RoomAt
<1>2. CASE PlaceUbatch(h)
  <2>1. /\ kv'.cells = KV!Fill(kv, h, Ubatch).cells
        /\ batch' = batch /\ at' = at /\ Chunk' = Chunk
        /\ at + placed' = at + placed + Len(Ubatch)
        /\ pc' = IF placed' = Chunk THEN "sample" ELSE "decode"
    BY <1>2, UbatchPlaced
  <2>2. \A j \in Waiting' : j \in Pending /\ j > at + placed + Len(Ubatch)
    <3>1. Pending' \subseteq Pending
      BY <1>1, <2>1 DEF Pending
    <3>2. CASE placed' = Chunk
      BY <2>1, <3>1, <3>2 DEF Waiting, Pending
    <3>3. CASE placed' # Chunk
      BY <2>1, <3>1, <3>3 DEF Waiting
    <3> QED
      BY <3>2, <3>3
  <2>3. Waiting' \subseteq Waiting
    <3>1. PICK n \in Nat, a \in Nat, o \in Nat : n = Len(Ubatch) /\ a = at /\ o = placed
      BY <1>2, UbatchPlaced, Typed, Options DEF RInv
    <3>2. \A j \in Pending : j \in Nat
      BY DEF Pending
    <3>3. \A j \in Nat : j > a + o + n => j > a + o
      OBVIOUS
    <3> QED
      BY <2>2, <3>1, <3>2, <3>3 DEF Waiting
  <2> QED
    BY <1>1, <2>1, <2>2, <2>3, OncePlaced
<1>3. CASE ComputeFails(h)
  <2>1. PICK head \in 0 .. Size, boundaries \in SUBSET (Nat \X Nat) :
          head = Saved(h).head /\ boundaries = Saved(h).boundaries
    BY <1>1, SavedIs
  <2>2. PICK r : r = KV!Fill(kv, h, Ubatch)
    OBVIOUS
  <2>3. r \in Caches
    BY <1>1, <2>2, FillOfUbatch
  <2>4. kv' = KV!Restore(r, head, boundaries)
    BY <1>3, <2>1, <2>2 DEF ComputeFails
  <2>5. \A i \in Cells : kv'.cells[i] \in {KV!Free, KV!Fill(kv, h, Ubatch).cells[i]}
    BY <2>2, <2>3, <2>4, RestoreIs
  <2>6. batch' = <<>> /\ pc' = "tasks"
    BY <1>3 DEF ComputeFails, FailBatch, EndRound
  <2>7. Waiting' = {}
    BY <2>6 DEF Pending, Waiting
  <2> QED
    BY <1>1, <2>5, <2>7, OncePlaced
<1> QED
  BY <1>2, <1>3

LEMMA OnceShifted ==
  ASSUME RInv, RInv', Once, NEW s \in Slots, ShiftContext(s) \/ ReuseChunk(s)
  PROVE  Once'
<1>1. CASE ShiftContext(s)
  <2>1. pc = "shift" /\ pc' \in {"shift", "gen"} /\ batch' = batch /\ at' = at /\ chunk' = chunk
    BY <1>1 DEF ShiftContext, Turn, decodeVars
  <2>2. \E f \in Nat, d \in Nat :
          \A i \in Cells :
            IF kv.cells[i].seq = s /\ kv.cells[i].pos >= f
            THEN IF kv.cells[i].pos < f + d THEN kv'.cells[i] = KV!Free
                 ELSE /\ kv'.cells[i].seq = s
                      /\ kv'.cells[i].pos = kv.cells[i].pos - d
            ELSE kv'.cells[i] = kv.cells[i]
    <3>1. PICK f \in Nat, d \in Nat, l \in Nat :
        /\ 0 < d /\ l = Len(text[s]) /\ f + d <= l /\ l < Ctx /\ f <= l - d /\ 0 <= l - d
        /\ slot'[s].nPast = l - d
        /\ slot[s].caching =>
             /\ Len(slot'[s].cached) = l - d
             /\ \A i \in 1 .. l - d :
                  slot'[s].cached[i] = IF i <= f THEN slot[s].cached[i]
                                       ELSE slot[s].cached[i + d]
        /\ Len(text'[s]) = l - d
        /\ \A i \in 1 .. l - d : text'[s][i] = IF i <= f THEN text[s][i] ELSE text[s][i + d]
        /\ \A i \in Cells :
             IF kv.cells[i].seq = s /\ kv.cells[i].pos >= f
             THEN IF kv.cells[i].pos < f + d THEN kv'.cells[i] = KV!Free
                  ELSE /\ kv'.cells[i].seq = s /\ kv'.cells[i].tok = kv.cells[i].tok
                       /\ kv'.cells[i].pos = kv.cells[i].pos - d
             ELSE kv'.cells[i] = kv.cells[i]
      BY <1>1, ShiftContextIs
    <3> QED
      BY ONLY <3>1
  <2>3. Waiting' \subseteq Waiting /\ \A j \in Pending : batch[j].seq # s
    BY <2>1, SameBatch, NothingPending DEF Waiting
  <2> QED
    BY <2>1, <2>2, <2>3, OnceMoved DEF RInv
<1>2. CASE ReuseChunk(s)
  <2>1. /\ pc = "reuse" /\ pc' = "reuse" /\ turn = s /\ batch' = batch /\ at' = at /\ chunk' = chunk
    BY <1>2 DEF ReuseChunk, Reusing, decodeVars
  <2>2. hc \in Nat /\ hp \in Nat /\ hp <= hc /\ ~Active(s)
    BY <2>1, ReusingIs
  <2>3. PICK d \in Nat : d = hc - hp /\ hp + d = hc
    <3>1. hc - hp \in Nat /\ hp + (hc - hp) = hc
      BY <2>2
    <3> QED
      BY <3>1
  <2>4. \A i \in Cells :
          IF kv.cells[i].seq = s /\ kv.cells[i].pos >= hp
          THEN IF kv.cells[i].pos < hp + d THEN kv'.cells[i] = KV!Free
               ELSE /\ kv'.cells[i].seq = s
                    /\ kv'.cells[i].pos = kv.cells[i].pos - d
          ELSE kv'.cells[i] = kv.cells[i]
    BY <1>2, <2>3, ReuseChunkIs
  <2>5. \A j \in Pending : batch[j].seq # s
    BY <2>2 DEF RInv, BatchOK, TokenOK
  <2>6. Waiting' \subseteq Waiting
    BY <2>1, SameBatch DEF Waiting
  <2> QED
    BY <2>1, <2>2, <2>4, <2>5, <2>6, OnceMoved DEF RInv
<1> QED
  BY <1>1, <1>2

LEMMA OnceInit == Init => Once
<1> SUFFICES ASSUME Init
             PROVE  Once
  OBVIOUS
<1>1. \A i \in Cells : kv.cells[i].seq \notin Slots
  BY ClearedIs, CachesAre DEF Init
<1>2. Waiting = {}
  BY DEF Init, Pending, Waiting
<1> QED
  BY <1>1, <1>2 DEF Once, OnceInCells, NotInCells, OnceInBatch

LEMMA OnceStutters == ASSUME Once, UNCHANGED vars PROVE Once'
<1>1. UNCHANGED <<pc, kv, batch, at, chunk, placed>>
  BY DEF vars, decodeVars
<1>2. Waiting' = Waiting
  BY <1>1 DEF Chunk, Pending, Waiting
<1> QED
  BY <1>1, <1>2 DEF Once, OnceInCells, NotInCells, OnceInBatch

(* A step that does not place a chunk in part keeps each token in one cell. *)
LEMMA OnceNext == ASSUME RInv, Once, [Next]_vars, ~PlacedInPart PROVE Once'
<1>1. RInv'
  BY RInvNext
<1>2. CASE BeginRound \/ ClearCache \/ NextChunk \/ NoRoom \/ DecodeRejects
  BY <1>1, <1>2, OnceQuiet
<1>3. ASSUME NEW h \in KV!Cells, PlaceUbatch(h) \/ ComputeFails(h)
      PROVE  Once'
  BY <1>3, OnceDecoded DEF Cells
<1>4. ASSUME NEW s \in Slots,
             \/ KeepContext(s) \/ SkipSampled(s) \/ SkipPrompt(s) \/ StopFull(s)
             \/ RejectPrompt(s) \/ StartPrompt(s) \/ SkipCached(s)
             \/ SampleToken(s) \/ SampleLast(s) \/ LaunchSlot(s) \/ CancelSlot(s)
      PROVE  Once'
  BY <1>1, <1>4, OnceQuiet
<1>5. ASSUME NEW s \in Slots, ShiftContext(s) \/ ReuseChunk(s)
      PROVE  Once'
  BY <1>1, <1>5, OnceShifted
<1>6. ASSUME NEW s \in Slots, AddSampled(s)
      PROVE  Once'
  BY <1>6, OnceSampled
<1>7. ASSUME NEW s \in Slots, ContinuePrompt(s) \/ EndReuse(s)
      PROVE  Once'
  BY <1>7, FillOf, OnceFilled
<1>8. CASE UNCHANGED vars
  BY <1>8, OnceStutters
<1> QED
  BY <1>2, <1>3, <1>4, <1>5, <1>6, <1>7, <1>8 DEF Next, Round
(* Between rounds nothing is lost: what is in the cells and what waits in  *)
(* the batch are different positions of the slots' contexts.               *)
LEMMA RoomLeft == ASSUME RInv, Once PROVE RoomForBatch
<1> SUFFICES ASSUME pc = "decode"
             PROVE  Cardinality({i \in Cells : kv.cells[i] = KV!Free}) >= Len(batch) - at - placed
  BY DEF RoomForBatch, Cells
<1>1. PICK a \in Nat, l \in Nat : a = at + placed /\ l = Len(batch) /\ a < l /\ l - a = l - at - placed
  <2>1. PICK b \in Nat, o \in Nat, l \in Nat, c \in Int :
          b = at /\ o = placed /\ l = Len(batch) /\ c = Chunk /\ o < c /\ c <= l - b
    BY ChunkIs, Typed, Options DEF RInv, RoundOK
  <2>2. b + o \in Nat /\ b + o < l /\ l - (b + o) = l - b - o
    BY <2>1
  <2> QED
    BY <2>1, <2>2
<1>2. PICK size \in Nat : size = Size
  BY SizeIs
<1> DEFINE Spare == {i \in Cells : kv.cells[i] = KV!Free}
           InUse == {i \in Cells : kv.cells[i] # KV!Free}
           Rest == size + a + 1 .. size + l
           Places == Slots \X (0 .. Ctx - 1)
           token(x) == IF x \in Cells THEN kv.cells[x] ELSE batch[x - size]
           F == [x \in InUse \cup Rest |-> <<token(x).seq, token(x).pos>>]
<1>3. Cells = 0 .. size - 1 /\ IsFiniteSet(Cells) /\ Cardinality(Cells) = size
  <2>1. Cells = 0 .. size - 1
    BY <1>2, CachesAre
  <2>2. Cardinality(0 .. size - 1) = IF 0 > size - 1 THEN 0 ELSE size - 1 - 0 + 1
    BY FS_Interval
  <2> QED
    BY <2>1, <2>2, CachesAre
<1>4. ASSUME NEW x \in Rest
      PROVE  /\ x \notin Cells /\ x - size \in Pending /\ x - size \in Waiting
             /\ token(x) = batch[x - size]
  <2>1. x \notin Cells /\ x - size \in 1 .. l /\ x - size > a
    BY <1>3, <1>4
  <2>2. x - size > at + placed
    BY <1>1, <2>1
  <2>3. x - size > at
    <3>1. PICK b \in Nat, o \in Nat : b = at /\ o = placed
      BY Typed, Options DEF RInv
    <3> QED
      BY <2>1, <2>2, <3>1
  <2> QED
    BY <1>1, <2>1, <2>2, <2>3 DEF Pending, Waiting
<1>5. ASSUME NEW x \in InUse
      PROVE  token(x) = kv.cells[x] /\ x \in Cells /\ kv.cells[x].seq \in Slots
  BY Typed, CachesAre DEF RInv, Cell
<1>6. ASSUME NEW x \in InUse \cup Rest
      PROVE  token(x).seq \in Slots /\ token(x).pos \in 0 .. Ctx - 1
  <2>1. CASE x \in InUse
    <3>1. PICK c \in Cell : c = kv.cells[x] /\ c.seq \in Slots /\ c.pos < Ctx
      BY <1>5, <2>1, Typed, CachesAre DEF RInv, CellsOK
    <3>2. c.pos \in Nat
      BY <3>1, CellTyped
    <3>3. c.pos \in 0 .. Ctx - 1
      BY <3>1, <3>2, Options
    <3> QED
      BY <1>5, <2>1, <3>1, <3>3
  <2>2. CASE x \in Rest
    <3>1. x - size \in Pending /\ token(x) = batch[x - size]
      BY <1>4, <2>2
    <3>2. PICK c \in [seq : Slots, pos : Nat, tok : Nat] : c = batch[x - size]
      BY <3>1, PendingTyped DEF RInv
    <3>3. Active(c.seq) /\ c.pos < Len(text[c.seq]) /\ c.seq \in Slots
      BY <3>1, <3>2 DEF RInv, BatchOK, TokenOK
    <3>4. PICK m \in Nat : m = Len(text[c.seq]) /\ m < Ctx
      <4>1. slot[c.seq] \in SlotRec /\ Len(text[c.seq]) = slot[c.seq].nPast /\ slot[c.seq].nPast < Ctx
        BY <3>3, Typed DEF RInv, SlotOK, TextOK
      <4> QED
        BY <4>1, SlotTyped
    <3>5. c.pos \in 0 .. Ctx - 1
      BY <3>3, <3>4, c.pos \in Nat, Options
    <3> QED
      BY <3>1, <3>2, <3>3, <3>5
  <2> QED
    BY <2>1, <2>2
<1>7. ASSUME NEW x \in InUse \cup Rest, NEW y \in InUse \cup Rest,
             token(x).seq = token(y).seq, token(x).pos = token(y).pos
      PROVE  x = y
  <2>1. CASE x \in InUse /\ y \in InUse
    BY <1>5, <1>7, <2>1 DEF Once, OnceInCells
  <2>2. ASSUME NEW u \in InUse, NEW w \in Rest,
               token(u).seq = token(w).seq, token(u).pos = token(w).pos
        PROVE  FALSE
    BY <1>4, <1>5, <2>2 DEF Once, NotInCells
  <2>3. CASE x \in Rest /\ y \in Rest
    <3>1. x - size = y - size
      BY <1>4, <1>7, <2>3 DEF Once, OnceInBatch
    <3> QED
      BY <2>3, <3>1
  <2> QED
    BY <1>7, <2>1, <2>2, <2>3
<1> HIDE DEF token
<1>8. F \in Injection(InUse \cup Rest, Places)
  <2>1. F \in [InUse \cup Rest -> Places]
    BY <1>6
  <2>2. ASSUME NEW x \in InUse \cup Rest, NEW y \in InUse \cup Rest, F[x] = F[y]
        PROVE  x = y
    BY <1>7, <2>2
  <2> HIDE DEF F, InUse, Rest, Places
  <2> QED
    BY <2>1, <2>2 DEF Injection, IsInjective
<1>9. IsFiniteSet(Places) /\ Cardinality(Places) = size
  <2>1. IsFiniteSet(Slots) /\ Cardinality(Slots) = NSlots
    <3>1. Cardinality(1 .. NSlots) = (IF 1 > NSlots THEN 0 ELSE NSlots - 1 + 1) /\ IsFiniteSet(1 .. NSlots)
      BY Options, FS_Interval
    <3> QED
      BY <3>1, Options DEF Slots
  <2>2. IsFiniteSet(0 .. Ctx - 1) /\ Cardinality(0 .. Ctx - 1) = Ctx
    <3>1. Ctx - 1 \in Int
      BY Options
    <3>2. /\ Cardinality(0 .. Ctx - 1) = IF 0 > Ctx - 1 THEN 0 ELSE Ctx - 1 - 0 + 1
          /\ IsFiniteSet(0 .. Ctx - 1)
      BY <3>1, FS_Interval
    <3> QED
      BY <3>2, Options
  <2>3. IsFiniteSet(Places) /\ Cardinality(Places) = Cardinality(Slots) * Cardinality(0 .. Ctx - 1)
    BY <2>1, <2>2, FS_Product
  <2> QED
    BY <1>2, <2>1, <2>2, <2>3 DEF Size
<1>10. IsFiniteSet(InUse) /\ Cardinality(InUse) \in Nat /\ IsFiniteSet(Spare) /\ Cardinality(Spare) \in Nat
  <2>1. InUse \in SUBSET Cells /\ Spare \in SUBSET Cells
    OBVIOUS
  <2>2. IsFiniteSet(InUse) /\ IsFiniteSet(Spare)
    BY <1>3, <2>1, FS_Subset
  <2> QED
    BY <2>2, FS_CardinalityType
<1>11. IsFiniteSet(Rest) /\ Cardinality(Rest) = l - a
  <2>1. size + a + 1 \in Int /\ size + l \in Int
    OBVIOUS
  <2>2. /\ Cardinality(Rest) = IF size + a + 1 > size + l THEN 0 ELSE size + l - (size + a + 1) + 1
        /\ IsFiniteSet(Rest)
    BY <2>1, FS_Interval
  <2> QED
    BY <1>1, <2>2
<1>12. Cardinality(InUse) + (l - a) <= size
  <2>1. InUse \cap Rest = {}
    BY <1>4
  <2> HIDE DEF InUse, Rest, F, Places
  <2>2. Cardinality(InUse \cup Rest) <= size
    BY <1>8, <1>9, FS_Injection
  <2>3. Cardinality(InUse \cup Rest)
          = Cardinality(InUse) + Cardinality(Rest) - Cardinality(InUse \cap Rest)
    BY <1>10, <1>11, FS_Union
  <2>4. Cardinality(InUse \cap Rest) = 0
    BY <2>1, FS_EmptySet
  <2> QED
    BY <1>10, <1>11, <2>2, <2>3, <2>4
<1>13. Cardinality(Spare) + Cardinality(InUse) = size
  <2>1. Spare \cap InUse = {} /\ Spare \cup InUse = Cells
    OBVIOUS
  <2> HIDE DEF InUse, Spare
  <2>2. Cardinality(Spare \cup InUse)
          = Cardinality(Spare) + Cardinality(InUse) - Cardinality(Spare \cap InUse)
    BY <1>10, FS_Union
  <2>3. Cardinality(Spare \cap InUse) = 0
    BY <2>1, FS_EmptySet
  <2>4. Cardinality(Spare \cup InUse) = size
    BY ONLY <1>3, <2>1
  <2>5. PICK m \in Nat, o \in Nat : m = Cardinality(Spare) /\ o = Cardinality(InUse)
    BY <1>10
  <2>6. size = m + o - 0
    BY ONLY <2>2, <2>3, <2>4, <2>5
  <2>7. size = m + o
    BY ONLY <2>6, m \in Nat, o \in Nat
  <2> QED
    BY ONLY <2>5, <2>7
<1>14. Cardinality(Spare) >= l - a
  <2> HIDE DEF InUse, Spare
  <2> QED
    BY <1>10, <1>12, <1>13
<1>15. l - a = Len(batch) - at - placed
  BY <1>1
<1> QED
  BY <1>14, <1>15

(* A chunk of one token finds its cell. *)
LEMMA RoomOfOne ==
  ASSUME RInv, Once, pc = "decode", chunk = 1
  PROVE  Room.found
<1>1. placed = 0
  BY ChunkIs, Typed, Options DEF RInv, RoundOK
<1>2. Len(Ubatch) = 1
  <2>1. PICK n \in Nat, c \in Int : n = Len(Ubatch) /\ c = Chunk /\ 1 <= n /\ 0 + n <= c /\ c <= 1
    <3>1. UBatch \in Nat /\ Len(Ubatch) \in 1 .. UBatch /\ placed + Len(Ubatch) <= Chunk
      BY RoomIs, Options DEF RInv
    <3>2. Chunk \in Int /\ Chunk <= chunk
      BY ChunkIs DEF RInv
    <3> QED
      BY <1>1, <3>1, <3>2
  <2>2. n = 1
    BY <2>1
  <2> QED
    BY <2>1, <2>2
<1>3. PICK m \in Nat : m = Len(batch) - at - placed /\ m >= 1
  <2>1. at \in Nat /\ Len(batch) \in Nat /\ at < Len(batch)
    BY Typed DEF RInv, RoundOK
  <2>2. Len(batch) - at - 0 \in Nat /\ Len(batch) - at - 0 >= 1
    BY <2>1
  <2> QED
    BY <1>1, <2>2
<1>4. {i \in Cells : kv.cells[i] = KV!Free} # {}
  <2>1. Cardinality({i \in Cells : kv.cells[i] = KV!Free}) >= m
    BY <1>3, RoomLeft DEF RoomForBatch, Cells
  <2>2. Cardinality({}) = 0
    BY FS_EmptySet
  <2>3. ~(0 >= m)
    BY <1>3
  <2> QED
    BY <2>1, <2>2, <2>3
<1>5. PICK i \in Cells : kv.cells[i] = KV!Free
  BY <1>4
<1>6. i \in 0 .. Size - 1 /\ i + 0 = i
  BY CachesAre, SizeIs
<1>7. KV!Taken(kv, i, 1) = {}
  <2>1. \A o \in 0 .. 1 - 1 : o = 0
    OBVIOUS
  <2> QED
    BY <1>5, <1>6, <2>1 DEF KV!Taken
<1>8. ~Room.found => \A h \in 0 .. Size - 1 : KV!Taken(kv, h, 1) # {}
  BY <1>2, RoomIs DEF RInv
<1> QED
  BY <1>6, <1>7, <1>8

(* There is room for the batch, as long as no ubatch behind the first of   *)
(* its chunk finds too few free cells in a row: no position of a context   *)
(* is held twice, so that the cells, as many as all contexts together have *)
(* positions, suffice for what waits to be decoded ("KV cache is full"     *)
(* cannot occur).  The first step that repeats such a chunk ends that.     *)
THEOREM RoomSuffices == Spec /\ [][~PlacedInPart]_vars => []RoomForBatch
<1>1. Init => RInv /\ Once
  BY RInvInit, OnceInit
<1>2. RInv /\ Once /\ [Next]_vars /\ [~PlacedInPart]_vars => (RInv /\ Once)'
  <2> SUFFICES ASSUME RInv, Once, [Next]_vars, [~PlacedInPart]_vars
               PROVE  (RInv /\ Once)'
    OBVIOUS
  <2>1. RInv'
    BY RInvNext
  <2>2. CASE ~PlacedInPart
    BY <2>1, <2>2, OnceNext
  <2>3. CASE UNCHANGED vars
    BY <2>1, <2>3, OnceStutters
  <2> QED
    BY <2>1, <2>2, <2>3
<1>3. RInv /\ Once => RoomForBatch
  BY RoomLeft
<1> QED
  BY <1>1, <1>2, <1>3, PTL DEF Spec
-----------------------------------------------------------------------------
(***************************************************************************)
(* Every token in a cell.                                                  *)
(***************************************************************************)
(* A token of a slot is in a cell, or waits in the batch. *)
InCells(s, p) == \E i \in Cells : kv.cells[i].seq = s /\ kv.cells[i].pos = p
InBatch(s, p) == \E j \in Waiting : batch[j].seq = s /\ batch[j].pos = p

(* All of the text of a slot that works, and all that cache_tokens names   *)
(* otherwise, except for padding.                                          *)
TextPlaced(s) ==
  Active(s) => \A p \in Nat : p < Len(text[s]) => InCells(s, p) \/ InBatch(s, p)

LeftPlaced(s) ==
  ~Active(s) =>
    \A p \in Nat : p < Len(slot[s].cached) =>
      InCells(s, p) \/ (slot[s].cached[p + 1] = 0 /\ FALSE \in Caching)

(* Nothing is in cache_tokens before the cells are cleared for the first   *)
(* time.                                                                   *)
NotClean == clean => \A s \in Slots : slot[s].state = "idle" /\ Len(slot[s].cached) = 0

Complete == NotClean /\ \A s \in Slots : TextPlaced(s) /\ LeftPlaced(s)

CInv == TInv /\ Complete

(* What a prompt reuses when it begins. *)
PrefixPlaced(s) ==
  pc = "reuse" /\ turn = s => \A p \in Nat : p < slot[s].nPast => InCells(s, p)

(* What a step keeps of a slot: its text, whatever the slot has left       *)
(* before, and what it leaves.                                             *)
TextKept(s) == TextPlaced(s) /\ PrefixPlaced(s) => TextPlaced(s)'
LeftKept(s) == TokensOK(s) /\ TextPlaced(s) /\ LeftPlaced(s) => LeftPlaced(s)'
Kept(s) == TextKept(s) /\ LeftKept(s)

(* What a step must leave of a slot that it does not concern. *)
Stays(s) ==
  /\ \A p \in Nat : InCells(s, p) => InCells(s, p)'
  /\ \A p \in Nat : InBatch(s, p) => InBatch(s, p)' \/ InCells(s, p)'

LEMMA PlacedRest ==
  ASSUME NEW s \in Slots, Stays(s), Active(s)' <=> Active(s),
         Active(s) => text'[s] = text[s], ~Active(s) => slot'[s].cached = slot[s].cached
  PROVE  Kept(s)
<1>1. TextPlaced(s) => TextPlaced(s)'
  BY DEF TextPlaced, Stays
<1>2. LeftPlaced(s) => LeftPlaced(s)'
  BY DEF LeftPlaced, Stays
<1> QED
  BY <1>1, <1>2 DEF Kept, TextKept, LeftKept

(* A slot that does not work after the step. *)
LEMMA TextIdle ==
  ASSUME NEW s \in Slots, slot'[s].state \notin {"prompt", "done", "gen"}
  PROVE  TextKept(s)
BY DEF TextKept, TextPlaced, Active, Working

(* Before the cells are cleared nothing happens to the slots. *)
LEMMA NotCleanStays ==
  ASSUME NotClean, clean' => clean, slot' = slot \/ \E s \in Slots : slot[s].state # "idle"
  PROVE  NotClean'
BY DEF NotClean

(* The cells are the same, and the batch has not lost anything. *)
LEMMA SameCells ==
  ASSUME NEW s \in Slots, kv'.cells = kv.cells, batch' = batch, Waiting \subseteq Waiting'
  PROVE  Stays(s)
BY DEF Stays, InCells, InBatch

(* The batch while it is made and sampled from. *)
LEMMA SameWaiting ==
  ASSUME RInv, UNCHANGED <<batch, at, chunk, placed>>, pc # "decode",
         (pc = "sample") <=> (pc' = "sample")
  PROVE  Waiting \subseteq Waiting'
<1>1. Pending' = Pending
  BY DEF Pending, Chunk
<1>2. CASE pc = "sample"
  BY <1>1, <1>2 DEF Waiting
<1>3. CASE pc # "sample"
  <2>1. at = 0 /\ placed = 0 /\ \A j \in Pending : j > 0 + 0
    BY <1>3, Typed DEF RInv, RoundOK, Pending
  <2> QED
    BY <1>1, <2>1 DEF Waiting
<1> QED
  BY <1>2, <1>3

(* A slot that is released while none of its tokens waits. *)
LEMMA PlacedLeft ==
  ASSUME RInv, NEW s \in Slots, kv'.cells = kv.cells, slot'[s].state = "idle",
         slot'[s].cached = slot[s].cached, \A j \in Pending : batch[j].seq # s
  PROVE  Kept(s)
<1>1. TextKept(s)
  BY TextIdle
<1> SUFFICES ASSUME TokensOK(s), TextPlaced(s), LeftPlaced(s)
             PROVE  LeftPlaced(s)'
  BY <1>1 DEF Kept, LeftKept
<1>2. TextHeld(s) /\ PromptTold(s) /\ TextOK(s)
  BY DEF TokensOK, RInv
<1>3. slot[s] \in SlotRec /\ Len(slot[s].cached) \in Nat
  BY Typed, SlotTyped DEF RInv
<1>4. ASSUME NEW p \in Nat, p < Len(slot[s].cached)
      PROVE  InCells(s, p) \/ (slot[s].cached[p + 1] = 0 /\ FALSE \in Caching)
  <2>1. CASE ~Active(s)
    BY <1>4, <2>1 DEF LeftPlaced
  <2>2. CASE Active(s) /\ slot[s].caching
    <3>1. p < Len(text[s])
      BY <1>2, <1>4, <2>2 DEF TextOK
    <3>2. InCells(s, p) \/ InBatch(s, p)
      BY <2>2, <3>1 DEF TextPlaced
    <3> QED
      BY <3>2 DEF InBatch, Waiting
  <2>3. CASE Active(s) /\ ~slot[s].caching
    <3>1. p + 1 \in 1 .. Len(slot[s].cached)
      BY <1>3, <1>4
    <3> QED
      BY <1>2, <2>3, <3>1 DEF TextHeld, PromptTold
  <2> QED
    BY <2>1, <2>2, <2>3
<1>5. \A p \in Nat : InCells(s, p) => InCells(s, p)'
  BY DEF InCells
<1> QED
  BY <1>4, <1>5 DEF LeftPlaced

(* Steps that leave the cells and the slots' texts alone. *)
LEMMA PlacedQuiet ==
  ASSUME RInv, NEW s \in Slots,
         \/ BeginRound \/ KeepContext(s) \/ SkipSampled(s) \/ SkipPrompt(s) \/ StartPrompt(s)
         \/ SampleToken(s) \/ LaunchSlot(s)
  PROVE  \A t \in Slots : Kept(t)
<1>1. slot[s] \in SlotRec /\ slot \in [Slots -> SlotRec] /\ text \in [Slots -> Seq(Nat)]
  BY Typed DEF RInv
<1>2. /\ kv' = kv /\ batch' = batch /\ at' = at /\ chunk' = chunk
      /\ placed' = placed /\ pc # "decode"
      /\ (pc = "sample") <=> (pc' = "sample")
  <2>1. CASE BeginRound \/ SkipPrompt(s) \/ KeepContext(s) \/ SkipSampled(s)
    BY <2>1 DEF BeginRound, SkipPrompt, Visited, KeepContext, SkipSampled, Turn, decodeVars
  <2>2. CASE StartPrompt(s) \/ SampleToken(s) \/ LaunchSlot(s)
    BY <2>2 DEF StartPrompt, SampleToken, LaunchSlot, decodeVars
  <2> QED
    BY <2>1, <2>2
<1>3. \A t \in Slots : Stays(t)
  BY <1>2, SameCells, SameWaiting
<1>4. ASSUME NEW t \in Slots
      PROVE  /\ slot'[t].cached = slot[t].cached
             /\ Active(t) => text'[t] = text[t]
             /\ Active(t)' <=> Active(t)
  <2>1. CASE BeginRound \/ KeepContext(s) \/ SkipSampled(s)
    <3>1. slot' = slot /\ text' = text /\ pc # "reuse" /\ pc' # "reuse"
      BY <2>1 DEF BeginRound, KeepContext, SkipSampled, Turn
    <3> QED
      BY <3>1 DEF Active, Working
  <2>2. CASE SkipPrompt(s)
    <3>1. slot' = slot /\ text' = text /\ pc # "reuse" /\ pc' # "reuse"
      BY <2>2 DEF SkipPrompt, Visited, Turn
    <3> QED
      BY <3>1 DEF Active, Working
  <2>3. CASE StartPrompt(s)
    <3>1. /\ slot[s].state = "started" /\ pc = "prompts" /\ pc' = "reuse" /\ turn' = s /\ text' = text
      BY <2>3 DEF StartPrompt
    <3>2. PICK prompt, keep, common :
            slot' = [slot EXCEPT ![s].state = "prompt", ![s].prompt = prompt,
                                 ![s].keep = keep, ![s].nPast = common]
      BY <2>3 DEF StartPrompt
    <3>3. /\ slot'[s].cached = slot[s].cached
          /\ t # s => slot'[t] = slot[t]
      BY ONLY <1>1, <3>2, t \in Slots, s \in Slots DEF SlotRec
    <3>4. ~Active(s) /\ ~Active(s)'
      BY <3>1 DEF Active, Working
    <3>5. t # s => (Active(t)' <=> Active(t))
      BY <3>1, <3>3 DEF Active, Working
    <3> QED
      BY <3>1, <3>3, <3>4, <3>5
  <2>4. CASE SampleToken(s)
    <3>1. pc = "sample" /\ pc' = "sample" /\ text' = text /\ slot[s].state \in {"done", "gen"}
      BY <1>1, <2>4, SampledIs DEF SampleToken
    <3>2. PICK tok : slot' = [slot EXCEPT ![s].state = "gen", ![s].sampled = tok, ![s].iBatch = -1]
      BY <2>4 DEF SampleToken
    <3>3. /\ slot'[s].cached = slot[s].cached /\ slot'[s].state = "gen"
          /\ t # s => slot'[t] = slot[t]
      <4>1. PICK none : none = -1
        OBVIOUS
      <4>2. slot' = [slot EXCEPT ![s].state = "gen", ![s].sampled = tok, ![s].iBatch = none]
        BY <3>2, <4>1
      <4> QED
        BY ONLY <1>1, <4>2, t \in Slots, s \in Slots DEF SlotRec
    <3> QED
      BY <3>1, <3>3 DEF Active, Working
  <2>5. CASE LaunchSlot(s)
    <3>1. /\ slot[s].state = "idle" /\ pc = "tasks" /\ pc' = "tasks" /\ text' = [text EXCEPT ![s] = <<>>]
      BY <2>5 DEF LaunchSlot, Busy
    <3>2. PICK prompt \in Prompts, keep \in Keeps, discard \in Discards, caching \in Caching :
            slot' = [slot EXCEPT ![s].state = "started", ![s].prompt = prompt,
                                 ![s].keep = keep, ![s].discard = discard,
                                 ![s].caching = caching]
      BY <2>5 DEF LaunchSlot
    <3>3. /\ slot'[s].cached = slot[s].cached /\ slot'[s].state = "started"
          /\ t # s => slot'[t] = slot[t]
      BY ONLY <1>1, <3>2, t \in Slots, s \in Slots DEF SlotRec
    <3>4. t # s => text'[t] = text[t]
      BY <1>1, <3>1
    <3> QED
      BY <3>1, <3>3, <3>4 DEF Active, Working
  <2> QED
    BY <2>1, <2>2, <2>3, <2>4, <2>5
<1> QED
  BY <1>3, <1>4, PlacedRest

(* Steps that release a slot. *)
LEMMA PlacedReleased ==
  ASSUME RInv, NEW s \in Slots, CancelSlot(s) \/ StopFull(s) \/ RejectPrompt(s) \/ SampleLast(s)
  PROVE  \A t \in Slots : Kept(t)
<1>1. TypeOK
  BY DEF RInv
<1>2. /\ kv' = kv /\ batch' = batch /\ at' = at /\ chunk' = chunk
      /\ placed' = placed /\ pc # "decode"
      /\ pc # "reuse" /\ pc' # "reuse" /\ ((pc = "sample") <=> (pc' = "sample"))
  <2>1. CASE CancelSlot(s) \/ SampleLast(s)
    BY <2>1 DEF CancelSlot, SampleLast, decodeVars
  <2>2. CASE StopFull(s) \/ RejectPrompt(s)
    BY <2>2 DEF StopFull, RejectPrompt, Turn, decodeVars
  <2> QED
    BY <2>1, <2>2
<1>3. \A t \in Slots : Stays(t)
  BY <1>2, SameCells, SameWaiting
<1>4. /\ slot'[s].state = "idle" /\ slot'[s].cached = slot[s].cached
      /\ \A t \in Slots : t # s => slot'[t] = slot[t] /\ text'[t] = text[t]
  BY <1>1, ReleasedSlot
<1>5. \A j \in Pending : batch[j].seq # s
  <2>1. CASE CancelSlot(s) \/ StopFull(s)
    <3>1. pc \in {"tasks", "shift"}
      BY <2>1 DEF CancelSlot, StopFull
    <3> QED
      BY <3>1, NothingPending
  <2>2. CASE RejectPrompt(s)
    <3>1. ~Active(s)
      BY <2>2 DEF RejectPrompt, Active, Working
    <3> QED
      BY <3>1 DEF RInv, BatchOK, TokenOK
  <2>3. CASE SampleLast(s)
    BY <2>3, SampledIs DEF SampleLast
  <2> QED
    BY <2>1, <2>2, <2>3
<1>6. Kept(s)
  BY <1>2, <1>4, <1>5, PlacedLeft
<1>7. ASSUME NEW t \in Slots, t # s
      PROVE  Kept(t)
  <2>1. Active(t)' <=> Active(t)
    BY <1>2, <1>4, <1>7 DEF Active, Working
  <2> QED
    BY <1>3, <1>4, <1>7, <2>1, PlacedRest
<1> QED
  BY <1>6, <1>7

(* The cells are cleared while no slot works, and before anything is in    *)
(* them.                                                                   *)
LEMMA PlacedCleared ==
  ASSUME ClearCache, NEW t \in Slots
  PROVE  TextKept(t) /\ (NotClean => LeftPlaced(t)')
<1>1. clean /\ slot' = slot /\ slot[t].state = "idle"
  BY DEF ClearCache, Busy
<1>2. TextKept(t)
  BY <1>1, TextIdle
<1>3. ASSUME NotClean
      PROVE  LeftPlaced(t)'
  <2>1. Len(slot'[t].cached) = 0 /\ \A p \in Nat : ~(p < 0)
    BY <1>1, <1>3 DEF NotClean
  <2> QED
    BY <2>1 DEF LeftPlaced
<1> QED
  BY <1>2, <1>3

(* No slot works after a batch that fails. *)
LEMMA TextFailed ==
  ASSUME FailBatch, NEW t \in Slots
  PROVE  slot'[t].state = "idle" /\ TextKept(t)
<1>1. slot'[t] = IF Busy(t) THEN Released(slot[t]) ELSE slot[t]
  BY DEF FailBatch
<1>2. slot'[t].state = "idle"
  <2>1. CASE Busy(t)
    BY <1>1, <2>1 DEF Released
  <2>2. CASE ~Busy(t)
    BY <1>1, <2>2 DEF Busy
  <2> QED
    BY <2>1, <2>2
<1> QED
  BY <1>2, TextIdle

(* Of the slots only the one whose turn it is changes. *)
LEMMA ReusedSlot ==
  ASSUME RInv, NEW s \in Slots, ReuseChunk(s) \/ SkipCached(s)
  PROVE  /\ slot'[s].caching = slot[s].caching
         /\ \A t \in Slots : t # s => slot'[t] = slot[t]
<1>1. CASE ReuseChunk(s)
  BY <1>1, ReuseChunkIs
<1>2. CASE SkipCached(s)
  BY <1>2 DEF SkipCached
<1> QED
  BY <1>1, <1>2

(* A slot whose chunks are reused does not work yet, and the others keep   *)
(* their cells.                                                            *)
LEMMA TextReused ==
  ASSUME RInv, NEW s \in Slots, ReuseChunk(s) \/ SkipCached(s), NEW t \in Slots
  PROVE  TextKept(t)
<1>1. /\ pc = "reuse" /\ turn = s /\ pc' = "reuse" /\ turn' = s
      /\ batch' = batch /\ at' = at /\ chunk' = chunk /\ placed' = placed
      /\ text' = text
  BY DEF ReuseChunk, SkipCached, Reusing, decodeVars
<1>2. CASE t = s
  BY <1>1, <1>2 DEF TextKept, TextPlaced, Active
<1>3. CASE t # s
  <2>1. slot'[t] = slot[t]
    BY <1>3, ReusedSlot
  <2>2. \A i \in Cells : kv.cells[i].seq # s => kv'.cells[i] = kv.cells[i]
    <3>1. CASE ReuseChunk(s)
      BY <3>1, ReuseChunkIs
    <3>2. CASE SkipCached(s)
      BY <3>2 DEF SkipCached
    <3> QED
      BY <3>1, <3>2
  <2>3. Waiting \subseteq Waiting'
    BY <1>1, SameWaiting
  <2>4. Stays(t)
    BY <1>1, <1>3, <2>2, <2>3 DEF Stays, InCells, InBatch
  <2>5. Active(t)' <=> Active(t)
    BY <1>1, <2>1 DEF Active, Working
  <2> QED
    BY <1>1, <2>1, <2>4, <2>5, PlacedRest DEF Kept
<1> QED
  BY <1>2, <1>3

(* A batch that grows. *)
LEMMA BatchGrows ==
  ASSUME RInv, NEW k \in Nat, Len(batch') = Len(batch) + k, at' = at, placed' = placed,
         pc \in {"gen", "prompts", "reuse"}, pc' # "sample",
         \A j \in 1 .. Len(batch) : batch'[j] = batch[j]
  PROVE  /\ \A t \in Slots : \A p \in Nat : InBatch(t, p) => InBatch(t, p)'
         /\ \A m \in 1 .. k : Len(batch) + m \in Waiting'
<1>1. /\ Len(batch) \in Nat /\ Pending = 1 .. Len(batch) /\ Pending' = 1 .. Len(batch) + k
  BY Grown
<1>2. at' = 0 /\ placed' = 0 /\ \A j \in Pending' : j > 0 + 0
  BY <1>1 DEF RInv, RoundOK
<1>3. Waiting' = Pending'
  BY <1>2 DEF Waiting
<1>4. \A j \in Waiting : j \in Waiting' /\ batch'[j] = batch[j]
  BY <1>1, <1>3 DEF Waiting
<1> QED
  BY <1>1, <1>3, <1>4 DEF InBatch

(* The sampled token. *)
LEMMA PlacedSampled ==
  ASSUME RInv, NEW s \in Slots, AddSampled(s)
  PROVE  \A t \in Slots : Kept(t)
<1>1. pc = "gen" /\ slot[s].state = "gen" /\ pc' \notin {"sample", "reuse"} /\ kv' = kv
      /\ at' = at /\ placed' = placed
  BY DEF AddSampled, Turn, decodeVars
<1>2. PICK tok \in Nat, l \in Nat :
           /\ l = Len(text[s]) /\ (slot[s].caching => Len(slot[s].cached) = l)
           /\ slot'[s].state = "gen" /\ slot'[s].prompt = slot[s].prompt
           /\ slot'[s].caching = slot[s].caching
           /\ ~slot[s].caching => slot'[s].cached = slot[s].cached
           /\ slot[s].caching => /\ slot'[s].cached[l + 1] = tok
                                 /\ \A k \in 1 .. l : slot'[s].cached[k] = slot[s].cached[k]
           /\ Len(text'[s]) = l + 1 /\ text'[s][l + 1] = tok
           /\ \A k \in 1 .. l : text'[s][k] = text[s][k]
           /\ \A t \in Slots : t # s => slot'[t] = slot[t] /\ text'[t] = text[t]
  BY <1>1, AddSampledIs
<1>3. /\ l = Len(text[s]) /\ slot'[s].state = "gen" /\ Len(text'[s]) = l + 1
      /\ \A t \in Slots : t # s => slot'[t] = slot[t] /\ text'[t] = text[t]
  BY ONLY <1>2
<1>4. /\ Active(s) /\ Len(batch') = Len(batch) + 1
      /\ \A j \in 1 .. Len(batch) : batch'[j] = batch[j]
      /\ batch'[Len(batch) + 1].seq = s /\ batch'[Len(batch) + 1].pos = l
  BY <1>1, <1>3, SampledAdded
<1>5. /\ \A t \in Slots : \A p \in Nat : InBatch(t, p) => InBatch(t, p)'
      /\ \A m \in 1 .. 1 : Len(batch) + m \in Waiting'
  BY <1>1, <1>4, BatchGrows
<1>6. \A t \in Slots : Stays(t)
  BY <1>1, <1>5 DEF Stays, InCells
<1>7. InBatch(s, l)'
  <2>1. 1 \in 1 .. 1
    OBVIOUS
  <2>2. Len(batch) + 1 \in Waiting'
    BY <1>5, <2>1
  <2> QED
    BY <1>4, <2>2 DEF InBatch
<1>8. ASSUME TextPlaced(s), NEW p \in Nat, p < Len(text'[s])
      PROVE  InCells(s, p)' \/ InBatch(s, p)'
  <2>1. CASE p = l
    BY <1>7, <2>1
  <2>2. CASE p # l
    <3>1. p < Len(text[s])
      BY <1>3, <1>8, <2>2
    <3>2. InCells(s, p) \/ InBatch(s, p)
      BY <1>4, <1>8, <3>1 DEF TextPlaced
    <3> QED
      BY <1>6, <3>2 DEF Stays
  <2> QED
    BY <2>1, <2>2
<1>9. Kept(s)
  <2>1. Active(s)'
    BY <1>1, <1>3 DEF Active, Working
  <2> QED
    BY <1>8, <2>1 DEF TextPlaced, LeftPlaced, Kept, TextKept, LeftKept
<1>10. ASSUME NEW t \in Slots, t # s
       PROVE  Kept(t)
  <2>1. (Active(t)' <=> Active(t)) /\ slot'[t] = slot[t] /\ text'[t] = text[t]
    BY <1>1, <1>3, <1>10 DEF Active, Working
  <2> QED
    BY <1>6, <2>1, PlacedRest
<1> QED
  BY <1>9, <1>10

(* The tokens of a prompt: what is not added to the batch is in the cells. *)
LEMMA PlacedFilled ==
  ASSUME RInv, NEW s \in Slots, NEW n \in Nat, slot[s].state = "prompt",
         n < Len(slot[s].prompt), FillBatch(s, n), turn = s, pc' \notin {"reuse", "sample"},
         \/ pc = "reuse" /\ n <= slot[s].nPast
         \/ pc = "prompts" /\ n = slot[s].nPast
  PROVE  \A t \in Slots : Kept(t)
<1>2. \A i \in Cells :
        kv'.cells[i] = IF kv.cells[i].seq = s /\ kv.cells[i].pos >= n
                       THEN KV!Free ELSE kv.cells[i]
  BY FillAdded
<1>3. PICK k \in Nat :
        /\ Len(text'[s]) = n + k /\ slot'[s].state \in {"prompt", "done"}
        /\ \A t \in Slots : t # s => slot'[t] = slot[t] /\ text'[t] = text[t]
        /\ Len(batch') = Len(batch) + k
        /\ \A j \in 1 .. Len(batch) : batch'[j] = batch[j]
        /\ \A m \in 1 .. k :
             batch'[Len(batch) + m].seq = s /\ batch'[Len(batch) + m].pos = n + m - 1
  BY FillAdded
<1>4. at' = at /\ placed' = placed /\ pc \in {"prompts", "reuse"}
  BY DEF FillBatch, decodeVars
<1>5. /\ \A t \in Slots : \A p \in Nat : InBatch(t, p) => InBatch(t, p)'
      /\ \A m \in 1 .. k : Len(batch) + m \in Waiting'
  BY <1>3, <1>4, BatchGrows
<1>6. ASSUME NEW t \in Slots, NEW p \in Nat, InCells(t, p), t # s \/ p < n
      PROVE  InCells(t, p)'
  <2>1. PICK i \in Cells : kv.cells[i].seq = t /\ kv.cells[i].pos = p
    BY <1>6 DEF InCells
  <2>2. kv'.cells[i] = kv.cells[i]
    BY <1>2, <1>6, <2>1
  <2> QED
    BY <2>1, <2>2 DEF InCells
<1>7. ASSUME TextPlaced(s), PrefixPlaced(s), NEW p \in Nat, p < n
      PROVE  InCells(s, p)' \/ InBatch(s, p)'
  <2>1. CASE pc = "prompts" /\ n = slot[s].nPast
    <3>1. Active(s)
      BY <2>1 DEF Active, Working
    <3>2. p < Len(text[s])
      BY <1>7, <2>1, <3>1 DEF RInv, TextOK
    <3>3. InCells(s, p) \/ InBatch(s, p)
      BY <1>7, <3>1, <3>2 DEF TextPlaced
    <3> QED
      BY <1>5, <1>6, <1>7, <3>3
  <2>2. CASE pc = "reuse" /\ n <= slot[s].nPast
    <3>1. PICK m \in Nat : m = slot[s].nPast /\ n <= m
      <4>1. slot[s] \in SlotRec
        BY Typed DEF RInv
      <4> QED
        BY <2>2, <4>1, SlotTyped
    <3>2. p < slot[s].nPast
      BY <1>7, <3>1
    <3>3. InCells(s, p)
      BY <1>7, <2>2, <3>2 DEF PrefixPlaced
    <3> QED
      BY <1>6, <1>7, <3>3
  <2> QED
    BY <2>1, <2>2
<1>8. ASSUME NEW p \in Nat, p < n + k, ~(p < n)
      PROVE  InBatch(s, p)'
  <2>1. PICK m \in 1 .. k : n + m - 1 = p
    <3>1. p - n + 1 \in 1 .. k /\ n + (p - n + 1) - 1 = p
      BY <1>8
    <3> QED
      BY <3>1
  <2>2. Len(batch) + m \in Waiting'
    BY <1>5
  <2>3. batch'[Len(batch) + m].seq = s /\ batch'[Len(batch) + m].pos = p
    BY <1>3, <2>1
  <2> QED
    BY <2>2, <2>3 DEF InBatch
<1>9. Kept(s)
  <2>1. Active(s)'
    BY <1>3 DEF Active, Working
  <2>2. TextPlaced(s) /\ PrefixPlaced(s) =>
          \A p \in Nat : p < Len(text'[s]) => InCells(s, p)' \/ InBatch(s, p)'
    BY <1>3, <1>7, <1>8
  <2> QED
    BY <2>1, <2>2 DEF TextPlaced, LeftPlaced, Kept, TextKept, LeftKept
<1>10. ASSUME NEW t \in Slots, t # s
       PROVE  Kept(t)
  <2>1. (Active(t)' <=> Active(t)) /\ slot'[t] = slot[t] /\ text'[t] = text[t]
    BY <1>3, <1>4, <1>10 DEF Active, Working
  <2>2. Stays(t)
    BY <1>5, <1>6, <1>10 DEF Stays
  <2> QED
    BY <2>1, <2>2, PlacedRest
<1> QED
  BY <1>9, <1>10

(* A context shift closes the gap it makes. *)
LEMMA PlacedShifted ==
  ASSUME RInv, NEW s \in Slots, ShiftContext(s)
  PROVE  \A t \in Slots : Kept(t)
<1>1. pc = "shift" /\ pc' # "reuse"
  BY DEF ShiftContext, Turn
<1>2. /\ Active(s) /\ slot'[s].state = slot[s].state
      /\ \A t \in Slots : t # s => slot'[t] = slot[t]
      /\ \A t \in Slots : t # s => text'[t] = text[t]
  BY <1>1, ShiftContextIs
<1>3. PICK f \in Nat, d \in Nat, l \in Nat :
        /\ 0 < d /\ l = Len(text[s]) /\ f + d <= l /\ l < Ctx /\ f <= l - d /\ 0 <= l - d
        /\ slot'[s].nPast = l - d
        /\ slot[s].caching =>
             /\ Len(slot'[s].cached) = l - d
             /\ \A i \in 1 .. l - d :
                  slot'[s].cached[i] = IF i <= f THEN slot[s].cached[i]
                                       ELSE slot[s].cached[i + d]
        /\ Len(text'[s]) = l - d
        /\ \A i \in 1 .. l - d : text'[s][i] = IF i <= f THEN text[s][i] ELSE text[s][i + d]
        /\ \A i \in Cells :
             IF kv.cells[i].seq = s /\ kv.cells[i].pos >= f
             THEN IF kv.cells[i].pos < f + d THEN kv'.cells[i] = KV!Free
                  ELSE /\ kv'.cells[i].seq = s /\ kv'.cells[i].tok = kv.cells[i].tok
                       /\ kv'.cells[i].pos = kv.cells[i].pos - d
             ELSE kv'.cells[i] = kv.cells[i]
  BY <1>1, ShiftContextIs
<1>4. l = Len(text[s]) /\ Len(text'[s]) = l - d
      /\ \A i \in Cells :
             IF kv.cells[i].seq = s /\ kv.cells[i].pos >= f
             THEN IF kv.cells[i].pos < f + d THEN kv'.cells[i] = KV!Free
                  ELSE /\ kv'.cells[i].seq = s /\ kv'.cells[i].tok = kv.cells[i].tok
                       /\ kv'.cells[i].pos = kv.cells[i].pos - d
             ELSE kv'.cells[i] = kv.cells[i]
  BY ONLY <1>3
<1>5. \A t \in Slots : \A p \in Nat : ~InBatch(t, p)
  BY <1>1, NothingPending DEF InBatch, Waiting
<1>6. ASSUME TextPlaced(s), NEW p \in Nat, p < l - d
      PROVE  InCells(s, p)'
  <2>1. PICK q \in Nat : q = (IF p < f THEN p ELSE p + d) /\ q < l
    <3>1. (IF p < f THEN p ELSE p + d) \in Nat /\ (IF p < f THEN p ELSE p + d) < l
      BY <1>6
    <3> QED
      BY <3>1
  <2>2. PICK i \in Cells : kv.cells[i].seq = s /\ kv.cells[i].pos = q
    BY <1>2, <1>4, <1>5, <1>6, <2>1 DEF TextPlaced, InCells
  <2>3. CASE p < f
    <3>1. q = p /\ ~(q >= f)
      BY <2>1, <2>3
    <3> QED
      BY <1>4, <2>2, <3>1 DEF InCells
  <2>4. CASE ~(p < f)
    <3>1. q >= f /\ ~(q < f + d) /\ q - d = p
      BY <2>1, <2>4
    <3> QED
      BY <1>4, <2>2, <3>1 DEF InCells
  <2> QED
    BY <2>3, <2>4
<1>7. Kept(s)
  <2>1. Active(s)'
    BY <1>1, <1>2 DEF Active, Working
  <2> QED
    BY <1>4, <1>6, <2>1 DEF TextPlaced, LeftPlaced, Kept, TextKept, LeftKept
<1>8. ASSUME NEW t \in Slots, t # s
      PROVE  Kept(t)
  <2>1. (Active(t)' <=> Active(t)) /\ slot'[t] = slot[t] /\ text'[t] = text[t]
    BY <1>1, <1>2, <1>8 DEF Active, Working
  <2>2. Stays(t)
    BY <1>4, <1>5, <1>8 DEF Stays, InCells
  <2> QED
    BY <2>1, <2>2, PlacedRest
<1> QED
  BY <1>7, <1>8

(* Decoding gives the tokens of the batch their cells. *)
LEMMA PlacedDecoded ==
  ASSUME RInv, NEW h \in Cells, PlaceUbatch(h)
  PROVE  \A t \in Slots : Kept(t)
<1>1. slot' = slot /\ text' = text
  BY DEF PlaceUbatch
<1>2. PICK n \in Nat : n = Len(Ubatch) /\ pc = "decode" /\ RoomAt(h)
  BY UbatchPlaced
<1>3. /\ kv'.cells = KV!Fill(kv, h, Ubatch).cells
      /\ batch' = batch /\ at' = at /\ Chunk' = Chunk
      /\ at + placed' = at + placed + n
      /\ pc' = IF placed' = Chunk THEN "sample" ELSE "decode"
  BY <1>2, UbatchPlaced
<1>4. PICK a \in Nat, l \in Nat, z \in Nat :
        a = at + placed /\ l = Len(batch) /\ z = Size /\ Cells = 0 .. z - 1 /\ h \in Nat
  <2>1. at + placed \in Nat
    <3>1. PICK b \in Nat, o \in Nat : b = at /\ o = placed
      BY Typed, Options DEF RInv
    <3> QED
      BY <3>1
  <2> QED
    BY <2>1, Typed, CachesAre, SizeIs DEF RInv
<1>5. /\ h + n <= z
      /\ \A i \in Cells :
           IF h <= i /\ i < h + n
           THEN kv'.cells[i] = batch[a + (i - h + 1)] /\ kv.cells[i] = KV!Free
           ELSE kv'.cells[i] = kv.cells[i]
  <2> DEFINE r == KV!Fill(kv, h, Ubatch)
             j(i) == at + placed + (i - h + 1)
  <2>1. /\ h + Len(Ubatch) <= Size
        /\ \A i \in Cells :
             IF h <= i /\ i < h + Len(Ubatch)
             THEN r.cells[i] = batch[j(i)] /\ kv.cells[i] = KV!Free
             ELSE r.cells[i] = kv.cells[i]
    BY <1>2, FillOfUbatch
  <2>2. \A i \in Cells : j(i) = a + (i - h + 1)
    BY <1>4
  <2> HIDE DEF j
  <2> QED
    BY <1>2, <1>3, <1>4, <2>1, <2>2
<1>6. ASSUME NEW t \in Slots, NEW p \in Nat, InCells(t, p)
      PROVE  InCells(t, p)'
  <2>1. PICK i \in Cells : kv.cells[i].seq = t /\ kv.cells[i].pos = p
    BY <1>6 DEF InCells
  <2>2. kv.cells[i] # KV!Free
    BY <2>1, CachesAre
  <2>3. kv'.cells[i] = kv.cells[i]
    BY <1>5, <2>2
  <2> QED
    BY <2>1, <2>3 DEF InCells
<1>7. ASSUME NEW t \in Slots, NEW p \in Nat, InBatch(t, p)
      PROVE  InBatch(t, p)' \/ InCells(t, p)'
  <2>1. PICK j \in Waiting : batch[j].seq = t /\ batch[j].pos = p
    BY <1>7 DEF InBatch
  <2>2. j \in 1 .. l /\ j \in Pending /\ j > a
    BY <1>2, <1>4, <2>1 DEF Pending, Waiting
  <2>3. CASE j > a + n
    <3>1. j > at + placed'
      BY <1>3, <1>4, <2>3
    <3>2. j \in Pending'
      BY <1>2, <1>3, <2>2, <3>1 DEF Pending
    <3>3. j \in Waiting'
      BY <1>3, <3>1, <3>2 DEF Waiting
    <3> QED
      BY <1>3, <2>1, <3>3 DEF InBatch
  <2>4. CASE ~(j > a + n)
    <3>1. PICK i \in Nat : i = h + (j - a - 1) /\ h <= i /\ i < h + n /\ a + (i - h + 1) = j
      <4>1. h + (j - a - 1) \in Nat
        BY <1>4, <2>2
      <4> QED
        BY <1>4, <2>2, <2>4, <4>1
    <3>2. i \in Cells
      BY <1>4, <1>5, <3>1
    <3>3. kv'.cells[i] = batch[j]
      BY <1>5, <3>1, <3>2
    <3> QED
      BY <2>1, <3>2, <3>3 DEF InCells
  <2> QED
    BY <2>3, <2>4
<1>8. \A t \in Slots : Stays(t)
  BY <1>6, <1>7 DEF Stays
<1>9. \A t \in Slots : Active(t)' <=> Active(t)
  BY <1>1, <1>2, <1>3 DEF Active, Working
<1> QED
  BY <1>1, <1>8, <1>9, PlacedRest

(* A step that gives up a batch whose last chunk of one token has no room. *)
GivesUp == NoRoom /\ chunk = 1

(* The next chunk, or the same again with half its length. *)
LEMMA PlacedAgain ==
  ASSUME RInv, NextChunk \/ NoRoom, ~GivesUp
  PROVE  slot' = slot /\ \A t \in Slots : Kept(t)
<1>1. TypeOK
  BY DEF RInv
<1>2. CASE NextChunk
  <2>1. kv' = kv /\ pc = "sample" /\ slot' = slot /\ text' = text /\ pc' # "reuse"
    BY <1>2 DEF NextChunk, EndRound
  <2>2. \A t \in Slots : \A p \in Nat : InBatch(t, p) => InBatch(t, p)'
    <3>1. PICK a \in Nat, c \in Nat, l \in Nat :
            /\ a = at /\ c = chunk /\ l = Len(batch) /\ Chunk \in Int
            /\ Chunk <= l - a /\ (Chunk = c \/ Chunk = l - a) /\ Chunk <= c
      <4>1. at \in Nat /\ chunk \in Nat /\ Len(batch) \in Nat
        BY <1>1, Typed, Options
      <4>2. /\ Chunk \in Int /\ Chunk <= chunk /\ Chunk <= Len(batch) - at
            /\ Chunk = chunk \/ Chunk = Len(batch) - at
        BY ChunkIs DEF RInv
      <4> QED
        BY <4>1, <4>2
    <3>2. CASE a + c < l
      <4>1. pc' = "decode" /\ at' = a + c /\ placed' = 0 /\ batch' = batch
        BY <1>2, <3>1, <3>2 DEF NextChunk
      <4>2. Chunk = c /\ a + c + 0 = a + c
        BY <3>1, <3>2
      <4>3. Waiting \subseteq Waiting'
        BY <2>1, <3>1, <4>1, <4>2 DEF Pending, Waiting
      <4> QED
        BY <4>1, <4>3 DEF InBatch
    <3>3. CASE ~(a + c < l)
      <4>1. Chunk = l - a /\ a + (l - a) = l
        BY <3>1, <3>3
      <4>2. Pending = {}
        BY <2>1, <3>1, <4>1 DEF Pending
      <4> QED
        BY <4>2 DEF InBatch, Waiting
    <3> QED
      BY <3>2, <3>3
  <2>3. \A t \in Slots : Stays(t) /\ (Active(t)' <=> Active(t))
    BY <2>1, <2>2 DEF Stays, InCells, Active, Working
  <2> QED
    BY <2>1, <2>3, PlacedRest
<1>3. CASE NoRoom
  <2>1. pc = "decode" /\ ~Room.found /\ kv' = [kv EXCEPT !.head = Room.head]
    BY <1>3 DEF NoRoom
  <2>2. chunk # 1
    BY <1>3 DEF GivesUp
  <2>3. slot' = slot /\ text' = text /\ batch' = batch /\ at' = at /\ pc' = pc
    BY <1>3, <2>2 DEF NoRoom
  <2>4. kv'.cells = kv.cells
    <3>1. PICK head \in 0 .. Size : head = Room.head
      BY <2>1, RoomIs DEF RInv
    <3>2. kv \in Caches
      BY <1>1, Typed
    <3> QED
      BY <2>1, <3>1, <3>2, HeadIs
  <2>5. Waiting \subseteq Waiting'
    <3>1. PICK a \in Nat, o \in Nat : a = at /\ o = placed
      BY <1>1, Typed, Options
    <3>2. \A j \in Nat : j > a + o => j > a + 0
      OBVIOUS
    <3>3. placed' = 0
      BY <1>3, <2>2 DEF NoRoom
    <3> QED
      BY <2>1, <2>3, <3>1, <3>2, <3>3 DEF Pending, Waiting
  <2>6. \A t \in Slots : Stays(t) /\ (Active(t)' <=> Active(t))
    BY <2>1, <2>3, <2>4, <2>5 DEF Stays, InCells, InBatch, Active, Working
  <2> QED
    BY <2>3, <2>6, PlacedRest
<1> QED
  BY <1>2, <1>3

LEMMA CompleteInit == Init => Complete
<1> SUFFICES ASSUME Init
             PROVE  Complete
  OBVIOUS
<1>1. ASSUME NEW s \in Slots
      PROVE  slot[s].state = "idle" /\ slot[s].cached = <<>>
  BY DEF Init
<1>2. ASSUME NEW s \in Slots
      PROVE  /\ slot[s].state = "idle" /\ Len(slot[s].cached) = 0
             /\ ~Active(s) /\ \A p \in Nat : ~(p < 0)
  BY <1>1, EmptySeq DEF Active, Working
<1> QED
  BY <1>2 DEF Complete, NotClean, TextPlaced, LeftPlaced

(* Until the cells are cleared nothing is asked of the slots, and the      *)
(* cells do not fail.                                                      *)
Undisturbed ==
  /\ PlainCache
  /\ ~EarlyRequest
  /\ ~DecodeMayFail

(* What a prompt reuses is what its slot has left. *)
LEMMA PrefixHeld ==
  ASSUME RInv, NEW s \in Slots, TokensOK(s), LeftPlaced(s)
  PROVE  PrefixPlaced(s)
<1> SUFFICES ASSUME pc = "reuse", turn = s, NEW p \in Nat, p < slot[s].nPast
             PROVE  InCells(s, p)
  BY DEF PrefixPlaced
<1>1. PICK m \in Nat, c \in Nat : m = slot[s].nPast /\ c = Len(slot[s].cached) /\ m <= c
  <2>1. slot[s] \in SlotRec
    BY Typed DEF RInv
  <2>2. slot[s].nPast <= Len(slot[s].cached)
    BY DEF TokensOK, PrefixReused
  <2> QED
    BY <2>1, <2>2, SlotTyped
<1>2. p < Len(slot[s].cached) /\ p + 1 \in 1 .. slot[s].nPast
  BY <1>1
<1>3. slot[s].cached[p + 1] = slot[s].prompt[p + 1]
  BY <1>2 DEF TokensOK, PrefixReused
<1>4. InCells(s, p) \/ (slot[s].cached[p + 1] = 0 /\ FALSE \in Caching)
  BY <1>2 DEF LeftPlaced, Active
<1>5. FALSE \in Caching => slot[s].prompt[p + 1] # 0
  <2>1. PICK l \in Nat : l = Len(slot[s].prompt) /\ slot[s].nPast <= l
    BY ReusingIs
  <2>2. p + 1 \in 1 .. l /\ slot[s].state = "prompt"
    BY <1>1, <2>1, ReusingIs
  <2> QED
    BY <2>1, <2>2 DEF TokensOK, PromptTold
<1> QED
  BY <1>3, <1>4, <1>5

(* What the steps keep of the slots. *)
LEMMA KeptNext ==
  ASSUME RInv, [Next]_vars, NEW t \in Slots
  PROVE  TextKept(t) /\ (Undisturbed /\ NotClean /\ ~GivesUp => LeftKept(t))
<1>1. Kept(t) => TextKept(t) /\ LeftKept(t)
  BY DEF Kept
<1>2. CASE BeginRound
  BY <1>1, <1>2, Typed, PlacedQuiet DEF RInv
<1>3. CASE ClearCache
  BY <1>3, PlacedCleared DEF LeftKept
<1>4. CASE NextChunk \/ NoRoom
  <2>1. CASE GivesUp
    BY <2>1, TextFailed DEF GivesUp, NoRoom
  <2>2. CASE ~GivesUp
    BY <1>1, <1>4, <2>2, PlacedAgain
  <2> QED
    BY <2>1, <2>2
<1>5. CASE DecodeRejects \/ \E h \in KV!Cells : ComputeFails(h)
  BY <1>5, TextFailed DEF DecodeRejects, ComputeFails, Undisturbed
<1>6. ASSUME NEW h \in KV!Cells, PlaceUbatch(h)
      PROVE  Kept(t)
  BY <1>6, PlacedDecoded DEF Cells
<1>7. ASSUME NEW s \in Slots,
             \/ KeepContext(s) \/ SkipSampled(s) \/ SkipPrompt(s) \/ StartPrompt(s)
             \/ SampleToken(s) \/ LaunchSlot(s)
      PROVE  Kept(t)
  BY <1>7, PlacedQuiet
<1>8. ASSUME NEW s \in Slots, CancelSlot(s) \/ StopFull(s) \/ RejectPrompt(s) \/ SampleLast(s)
      PROVE  Kept(t)
  BY <1>8, PlacedReleased
<1>9. ASSUME NEW s \in Slots, ShiftContext(s) \/ AddSampled(s)
      PROVE  Kept(t)
  BY <1>9, PlacedShifted, PlacedSampled
<1>10. ASSUME NEW s \in Slots, ContinuePrompt(s) \/ EndReuse(s)
       PROVE  Kept(t)
  <2>1. /\ slot[s].state = "prompt" /\ turn = s /\ pc' \notin {"reuse", "sample"}
        /\ \E n \in Nat : /\ n < Len(slot[s].prompt) /\ FillBatch(s, n)
                          /\ \/ pc = "reuse" /\ n <= slot[s].nPast
                             \/ pc = "prompts" /\ n = slot[s].nPast
    BY <1>10, FillOf
  <2>2. PICK n \in Nat : /\ n < Len(slot[s].prompt) /\ FillBatch(s, n)
                         /\ \/ pc = "reuse" /\ n <= slot[s].nPast
                            \/ pc = "prompts" /\ n = slot[s].nPast
    BY <2>1
  <2> QED
    BY <2>1, <2>2, PlacedFilled
<1>11. ASSUME NEW s \in Slots, ReuseChunk(s) \/ SkipCached(s)
       PROVE  TextKept(t) /\ ~Undisturbed
  <2>1. CacheReuse > 0
    BY <1>11 DEF ReuseChunk, SkipCached, Reusing
  <2>2. ~Undisturbed
    <3>1. Undisturbed => CacheReuse = 0
      BY Zenon DEF Undisturbed, PlainCache
    <3> QED
      BY <2>1, <3>1
  <2> QED
    BY <1>11, <2>2, TextReused
<1>12. CASE UNCHANGED vars
  <2>1. UNCHANGED <<pc, turn, kv, slot, text, batch, at, chunk, placed>>
    BY <1>12 DEF vars, decodeVars
  <2>2. Waiting' = Waiting
    BY <2>1 DEF Chunk, Pending, Waiting
  <2>3. Stays(t) /\ (Active(t)' <=> Active(t))
    BY <2>1, <2>2, SameCells DEF Active, Working
  <2> QED
    BY <1>1, <2>1, <2>3, PlacedRest
<1> QED
  BY <1>1, <1>2, <1>3, <1>4, <1>5, <1>6, <1>7, <1>8, <1>9, <1>10, <1>11, <1>12 DEF Next, Round

(* Whether the cells have been cleared. *)
LEMMA CleanNext == ASSUME Undisturbed, RInv, NotClean, [Next]_vars, ~GivesUp PROVE NotClean'
<1>2. CASE BeginRound \/ NextChunk \/ NoRoom \/ UNCHANGED vars
  <2>1. clean' = clean /\ slot' = slot
    <3>1. CASE NextChunk \/ NoRoom
      BY <3>1, PlacedAgain DEF NextChunk, NoRoom, server
    <3>2. CASE BeginRound \/ UNCHANGED vars
      BY <3>2 DEF BeginRound, vars, server
    <3> QED
      BY <1>2, <3>1, <3>2
  <2> QED
    BY <2>1, NotCleanStays
<1>3. CASE ClearCache
  BY <1>3 DEF ClearCache, NotClean
<1>4. CASE DecodeRejects \/ \E h \in KV!Cells : ComputeFails(h)
  BY <1>4 DEF DecodeRejects, ComputeFails, Undisturbed
<1>5. ASSUME NEW h \in KV!Cells, PlaceUbatch(h)
      PROVE  NotClean'
  <2>1. clean' = clean /\ slot' = slot
    BY <1>5 DEF PlaceUbatch, server
  <2> QED
    BY <2>1, NotCleanStays
<1>6. ASSUME NEW s \in Slots, KeepContext(s) \/ SkipSampled(s) \/ SkipPrompt(s)
      PROVE  NotClean'
  <2>1. clean' = clean /\ slot' = slot
    BY <1>6 DEF KeepContext, SkipSampled, SkipPrompt, server
  <2> QED
    BY <2>1, NotCleanStays
<1>7. ASSUME NEW s \in Slots, ShiftContext(s) \/ StopFull(s) \/ AddSampled(s) \/ RejectPrompt(s)
      PROVE  NotClean'
  <2>1. clean' = clean /\ slot[s].state # "idle"
    BY <1>7 DEF ShiftContext, StopFull, AddSampled, RejectPrompt, Full, Busy, server
  <2> QED
    BY <2>1, NotCleanStays
<1>8. ASSUME NEW s \in Slots, StartPrompt(s) \/ ContinuePrompt(s) \/ EndReuse(s)
      PROVE  NotClean'
  <2>1. CASE StartPrompt(s)
    <3>1. clean' = clean /\ slot[s].state # "idle"
      BY <2>1 DEF StartPrompt, server
    <3> QED
      BY <3>1, NotCleanStays
  <2>2. CASE ContinuePrompt(s) \/ EndReuse(s)
    <3>1. slot[s].state = "prompt"
      BY <2>2, FillOf
    <3>2. clean' = clean
      BY <2>2 DEF ContinuePrompt, EndReuse, FillBatch, server
    <3> QED
      BY <3>1, <3>2, NotCleanStays
  <2> QED
    BY <1>8, <2>1, <2>2
<1>9. ASSUME NEW s \in Slots, ReuseChunk(s) \/ SkipCached(s)
      PROVE  FALSE
  BY <1>9 DEF ReuseChunk, SkipCached, Reusing, Undisturbed, PlainCache
<1>10. ASSUME NEW s \in Slots, SampleToken(s) \/ SampleLast(s) \/ CancelSlot(s)
       PROVE  NotClean'
  <2>1. clean' = clean
    BY <1>10 DEF SampleToken, SampleLast, CancelSlot, server
  <2>2. slot[s].state # "idle"
    BY <1>10, SampledIs DEF SampleToken, SampleLast, CancelSlot, Busy
  <2> QED
    BY <2>1, <2>2, NotCleanStays
<1>11. ASSUME NEW s \in Slots, LaunchSlot(s)
       PROVE  NotClean'
  BY <1>11 DEF LaunchSlot, Undisturbed, NotClean
<1> QED
  BY <1>2, <1>3, <1>4, <1>5, <1>6, <1>7, <1>8, <1>9, <1>10, <1>11 DEF Next, Round

LEMMA CompleteNext == ASSUME Undisturbed, CInv, [Next]_vars, ~GivesUp PROVE CInv'
<1>1. RInv /\ TInv /\ NotClean /\ \A t \in Slots : TokensOK(t) /\ TextPlaced(t) /\ LeftPlaced(t)
  BY DEF CInv, TInv, Complete
<1>2. TInv'
  BY <1>1, TokensNext DEF Undisturbed
<1>3. NotClean'
  BY <1>1, CleanNext
<1>4. ASSUME NEW t \in Slots
      PROVE  TextPlaced(t)' /\ LeftPlaced(t)'
  <2>1. TextKept(t) /\ LeftKept(t)
    BY <1>1, KeptNext
  <2>2. PrefixPlaced(t)
    BY <1>1, PrefixHeld
  <2> QED
    BY <1>1, <2>1, <2>2 DEF TextKept, LeftKept
<1> QED
  BY <1>2, <1>3, <1>4 DEF CInv, Complete

(* A cell for each token: its whole text is what a slot that is sampled    *)
(* from attends to.                                                        *)
Attended(s) == \A n \in DOMAIN text[s] : At(s, n - 1) # {}

(* A slot that is sampled from works, and none of its tokens waits. *)
LEMMA SampledSlot ==
  ASSUME RInv, pc = "sample", NEW s \in Sampling
  PROVE  s \in Slots /\ Active(s) /\ \A j \in Pending : batch[j].seq # s
<1>1. s \in Slots /\ slot[s].state \in {"done", "gen"} /\ slot[s].iBatch \in at .. at + Chunk - 1
  BY DEF Sampling
<1>2. Active(s)
  BY <1>1 DEF Active, Working
<1>3. ASSUME NEW j \in Pending, batch[j].seq = s
      PROVE  FALSE
  <2>1. j <= slot[s].iBatch + 1
    BY <1>1, <1>3 DEF RInv, BatchOK, TokenOK
  <2>2. j \in Nat /\ at \in Nat /\ Chunk \in Int /\ j > at + Chunk
    BY Typed, ChunkIs DEF RInv, Pending
  <2> QED
    BY <1>1, <2>1, <2>2
<1> QED
  BY <1>1, <1>2, <1>3

(* The position before an index of a sequence. *)
LEMMA PositionOf ==
  ASSUME NEW tokens \in Seq(Nat), NEW n \in DOMAIN tokens
  PROVE  \E p \in Nat : p = n - 1 /\ p < Len(tokens) /\ p + 1 = n
<1>1. n \in 1 .. Len(tokens) /\ Len(tokens) \in Nat
  BY LenProperties
<1>2. n - 1 \in Nat /\ n - 1 < Len(tokens) /\ n - 1 + 1 = n
  BY <1>1
<1> QED
  BY <1>2

LEMMA AllAttended ==
  ASSUME RInv, pc = "sample", NEW s \in Sampling, TextPlaced(s)
  PROVE  Attended(s)
<1>1. s \in Slots /\ Active(s) /\ \A j \in Pending : batch[j].seq # s
  BY SampledSlot
<1>2. text[s] \in Seq(Nat)
  BY <1>1, Typed DEF RInv
<1> SUFFICES ASSUME NEW n \in DOMAIN text[s]
             PROVE  At(s, n - 1) # {}
  BY DEF Attended
<1>3. PICK p \in Nat : p = n - 1 /\ p < Len(text[s])
  BY <1>2, PositionOf
<1>4. InCells(s, p)
  BY <1>1, <1>3 DEF TextPlaced, InBatch, Waiting
<1> QED
  BY <1>3, <1>4 DEF InCells, At, Cells

(* What is in the cells once, token by token. *)
LEMMA HoldsAll ==
  ASSUME OnceInCells, NEW s \in Slots, NEW tokens \in Seq(Nat),
         \A p \in Nat : p < Len(tokens) =>
           InCells(s, p) /\ \A i \in Cells : kv.cells[i].seq = s /\ kv.cells[i].pos = p
                                             => kv.cells[i].tok = tokens[p + 1]
  PROVE  Holds(s, tokens)
<1> SUFFICES ASSUME NEW n \in DOMAIN tokens
             PROVE  \E i \in Cells : At(s, n - 1) = {i} /\ kv.cells[i].tok = tokens[n]
  BY DEF Holds, Cells
<1>1. PICK p \in Nat : p = n - 1 /\ p < Len(tokens) /\ p + 1 = n
  BY PositionOf
<1>2. PICK i \in Cells : kv.cells[i].seq = s /\ kv.cells[i].pos = p
  BY <1>1 DEF InCells
<1>3. kv.cells[i].tok = tokens[n]
  BY <1>1, <1>2
<1>4. \A k \in Cells : kv.cells[k].seq = s /\ kv.cells[k].pos = p => k = i
  BY <1>2 DEF OnceInCells
<1>5. At(s, n - 1) = {i}
  BY <1>1, <1>2, <1>4 DEF At, Cells
<1> QED
  BY <1>3, <1>5

(* The text of a slot that works, when none of it waits in the batch. *)
LEMMA TextHolds ==
  ASSUME CInv, Once, NEW s \in Slots, Active(s), \A j \in Pending : batch[j].seq # s
  PROVE  Holds(s, text[s]) /\ Len(text[s]) = slot[s].nPast
<1>1. /\ RInv /\ OnceInCells /\ TextPlaced(s) /\ TextHeld(s) /\ text[s] \in Seq(Nat)
      /\ Len(text[s]) = slot[s].nPast
  BY Typed DEF CInv, TInv, Once, Complete, TokensOK, RInv, TextOK
<1>2. ASSUME NEW p \in Nat, p < Len(text[s])
      PROVE  InCells(s, p) /\ \A i \in Cells : kv.cells[i].seq = s /\ kv.cells[i].pos = p
                                               => kv.cells[i].tok = text[s][p + 1]
  BY <1>1, <1>2 DEF TextPlaced, InBatch, Waiting, TextHeld
<1> QED
  BY <1>1, <1>2, HoldsAll

LEMMA SampledOnText == CInv /\ Once => Conditioned
<1> SUFFICES ASSUME CInv, Once, pc = "sample", NEW s \in Sampling
             PROVE  Holds(s, text[s]) /\ Len(text[s]) = slot[s].nPast
  BY DEF Conditioned
<1>1. RInv
  BY DEF CInv, TInv
<1> QED
  BY <1>1, SampledSlot, TextHolds

LEMMA NamedHolds == ASSUME Caching = {TRUE}, CInv, Once PROVE CacheNamed
<1> SUFFICES ASSUME pc = "tasks", NEW s \in Slots
             PROVE  Holds(s, slot[s].cached)
  BY DEF CacheNamed
<1>1. /\ RInv /\ OnceInCells /\ TextPlaced(s) /\ LeftPlaced(s) /\ TokensOK(s) /\ TextOK(s)
      /\ FALSE \notin Caching
  BY DEF CInv, TInv, Once, Complete, RInv
<1>2. slot[s] \in SlotRec /\ slot[s].cached \in Seq(Nat) /\ Len(slot[s].cached) \in Nat
  BY <1>1, Typed, SlotTyped DEF RInv
<1>3. ASSUME NEW p \in Nat, p < Len(slot[s].cached)
      PROVE  InCells(s, p) /\ \A i \in Cells : kv.cells[i].seq = s /\ kv.cells[i].pos = p
                                               => kv.cells[i].tok = slot[s].cached[p + 1]
  <2>1. CASE ~Active(s)
    BY <1>1, <1>3, <2>1 DEF LeftPlaced, TokensOK, LeftNamed
  <2>2. CASE Active(s)
    <3>1. slot[s].caching
      BY <1>1 DEF TokensOK, PromptTold
    <3>2. Len(slot[s].cached) = Len(text[s])
      BY <1>1, <2>2, <3>1 DEF TextOK
    <3>3. p < Len(text[s]) /\ p + 1 \in 1 .. Len(text[s])
      BY <1>2, <1>3, <3>2
    <3>4. slot[s].cached[p + 1] = text[s][p + 1]
      BY <1>1, <2>2, <3>1, <3>3 DEF TokensOK, TextHeld
    <3>5. ~InBatch(s, p)
      BY <1>1, NothingPending DEF InBatch, Waiting
    <3> QED
      BY <1>1, <2>2, <3>3, <3>4, <3>5 DEF TextPlaced, TokensOK, TextHeld
  <2> QED
    BY <2>1, <2>2
<1> QED
  BY <1>1, <1>2, <1>3, HoldsAll

LEMMA CompleteStart == Init => CInv /\ Once
BY TokensInit, OnceInit, CompleteInit DEF CInv

(* While no chunk is placed in part, none of one token is given up. *)
LEMMA CompleteOnceNext ==
  ASSUME Undisturbed, CInv, Once, [Next]_vars, [~PlacedInPart]_vars
  PROVE  CInv' /\ Once'
<1>1. RInv
  BY DEF CInv, TInv
<1>2. ~GivesUp
  BY <1>1, RoomOfOne DEF GivesUp, NoRoom
<1>3. CInv'
  BY <1>2, CompleteNext
<1>4. Once'
  <2>1. CASE ~PlacedInPart
    BY <1>1, <2>1, OnceNext
  <2>2. CASE UNCHANGED vars
    BY <2>2, OnceStutters
  <2> QED
    BY <2>1, <2>2
<1> QED
  BY <1>3, <1>4

(* A sampled token is conditioned on exactly the text of its slot: however *)
(* prefixes are reused, contexts shifted and batches split into chunks and *)
(* ubatches, each token of its prompt and of its answer is in one cell,    *)
(* and nothing else.  It holds up to the first chunk that is placed in     *)
(* part and repeated.                                                      *)
THEOREM SampledFromText ==
  ASSUME Undisturbed
  PROVE  Spec /\ [][~PlacedInPart]_vars => []Conditioned
<1>1. Init => CInv /\ Once
  BY CompleteStart
<1>2. CInv /\ Once /\ [Next]_vars /\ [~PlacedInPart]_vars => (CInv /\ Once)'
  BY CompleteOnceNext
<1>3. CInv /\ Once => Conditioned
  BY SampledOnText
<1> QED
  BY <1>1, <1>2, <1>3, PTL DEF Spec

(* Between rounds cache_tokens of a slot names what its cells hold, so     *)
(* that the next prompt may reuse any prefix of it.                        *)
THEOREM NamedTokensHeld ==
  ASSUME Undisturbed, Caching = {TRUE}
  PROVE  Spec /\ [][~PlacedInPart]_vars => []CacheNamed
<1>1. Init => CInv /\ Once
  BY CompleteStart
<1>2. CInv /\ Once /\ [Next]_vars /\ [~PlacedInPart]_vars => (CInv /\ Once)'
  BY CompleteOnceNext
<1>3. CInv /\ Once => CacheNamed
  BY NamedHolds
<1> QED
  BY <1>1, <1>2, <1>3, PTL DEF Spec

(* Also when chunks are placed in part: the tokens that are then in two    *)
(* cells do not keep others out, and what a slot attends to is its whole   *)
(* text, until the first batch is given up ("KV cache is full").           *)
THEOREM TextAttended ==
  ASSUME Undisturbed
  PROVE  Spec /\ [][~GivesUp]_vars =>
           [](pc = "sample" => \A s \in Sampling : Attended(s) /\ Len(text[s]) = slot[s].nPast)
<1>1. Init => CInv
  BY CompleteStart
<1>2. CInv /\ [Next]_vars /\ [~GivesUp]_vars => CInv'
  <2> SUFFICES ASSUME CInv, [Next]_vars, [~GivesUp]_vars
               PROVE  CInv'
    OBVIOUS
  <2>1. CASE ~GivesUp
    BY <2>1, CompleteNext
  <2>2. CASE GivesUp
    <3>1. UNCHANGED vars /\ pc = "decode" /\ FailBatch
      BY <2>2 DEF GivesUp, NoRoom
    <3>2. pc' = "tasks" /\ pc' = pc
      BY <3>1 DEF FailBatch, EndRound, vars
    <3> QED
      BY <3>1, <3>2
  <2> QED
    BY <2>1, <2>2
<1>3. CInv => (pc = "sample" =>
                 \A s \in Sampling : Attended(s) /\ Len(text[s]) = slot[s].nPast)
  <2> SUFFICES ASSUME CInv, pc = "sample", NEW s \in Sampling
               PROVE  Attended(s) /\ Len(text[s]) = slot[s].nPast
    OBVIOUS
  <2>1. RInv /\ s \in Slots /\ Active(s)
    BY SampledSlot DEF CInv, TInv
  <2>2. TextPlaced(s) /\ TextOK(s)
    BY <2>1 DEF CInv, Complete, RInv
  <2> QED
    BY <2>1, <2>2, AllAttended DEF TextOK
<1> QED
  BY <1>1, <1>2, <1>3, PTL DEF Spec
-----------------------------------------------------------------------------
(***************************************************************************)
(* Prompts that do without the cache.                                      *)
(***************************************************************************)
(* They begin with nothing, and their slots need not know what others, or  *)
(* earlier requests, have left.                                            *)
BareStart(s) == pc = "reuse" /\ turn = s => slot[s].nPast = 0

UInv == RInv /\ \A s \in Slots : ~slot[s].caching => TextPlaced(s) /\ BareStart(s)

(* The batch is filled from a prompt. *)
LEMMA FilledCaching ==
  ASSUME RInv, NEW s \in Slots, NEW n \in Nat, FillBatch(s, n), NEW t \in Slots
  PROVE  slot'[t].caching = slot[t].caching
<1>1. slot \in [Slots -> SlotRec]
  BY Typed DEF RInv
<1>2. PICK cached, nPast, state, iBatch :
        slot' = [slot EXCEPT ![s].cached = cached, ![s].nPast = nPast,
                             ![s].state = state, ![s].iBatch = iBatch]
  BY DEF FillBatch
<1> QED
  BY ONLY <1>1, <1>2, s \in Slots, t \in Slots DEF SlotRec

(* Steps between two prompts of a slot: whether it uses the cache is       *)
(* settled before it begins to work.                                       *)
LEMMA CachingQuiet ==
  ASSUME RInv, NEW s \in Slots, NEW t \in Slots,
         StartPrompt(s) \/ SampleToken(s) \/ LaunchSlot(s), ~slot'[t].caching
  PROVE  (Active(t)' => ~slot[t].caching) /\ BareStart(t)'
<1>1. slot \in [Slots -> SlotRec]
  BY Typed DEF RInv
<1>2. CASE StartPrompt(s)
  <2>1. PICK prompt \in Seq(Nat), keep \in 0 .. Ctx - 4, common \in Nat, r \in SlotRec :
            /\ Len(prompt) \in 1 .. Ctx - 1
            /\ common <= Len(prompt) /\ common <= Len(slot[s].cached)
            /\ ~slot[s].caching => common = 0
            /\ \A i \in 1 .. common : slot[s].cached[i] = prompt[i]
            /\ \A i \in 1 .. Len(prompt) :
                 \E j \in 1 .. Len(slot[s].prompt) : prompt[i] = slot[s].prompt[j]
            /\ r.state = "prompt" /\ r.prompt = prompt /\ r.keep = keep /\ r.nPast = common
            /\ r.cached = slot[s].cached /\ r.caching = slot[s].caching
            /\ r.discard = slot[s].discard /\ r.iBatch = slot[s].iBatch
            /\ slot' \in [Slots -> SlotRec] /\ slot'[s] = r
            /\ \A i \in Slots : i # s => slot'[i] = slot[i]
            /\ hc' = common /\ hp' = common
    BY <1>2, StartPromptIs
  <2>2. /\ slot'[s].caching = slot[s].caching /\ (~slot[s].caching => slot'[s].nPast = 0)
        /\ t # s => slot'[t] = slot[t]
    BY ONLY <2>1, t \in Slots
  <2>3. turn' = s
    BY <1>2 DEF StartPrompt
  <2> QED
    BY <2>2, <2>3 DEF BareStart
<1>3. CASE SampleToken(s)
  <2>1. PICK tok, none : slot' = [slot EXCEPT ![s].state = "gen", ![s].sampled = tok, ![s].iBatch = none]
    BY <1>3 DEF SampleToken
  <2>2. slot'[t].caching = slot[t].caching
    BY ONLY <1>1, <2>1, t \in Slots, s \in Slots DEF SlotRec
  <2>3. pc' = "sample"
    BY <1>3 DEF SampleToken
  <2> QED
    BY <2>2, <2>3 DEF BareStart
<1>4. CASE LaunchSlot(s)
  <2>1. PICK prompt \in Prompts, keep \in Keeps, discard \in Discards, caching \in Caching :
            slot' = [slot EXCEPT ![s].state = "started", ![s].prompt = prompt,
                                 ![s].keep = keep, ![s].discard = discard,
                                 ![s].caching = caching]
    BY <1>4 DEF LaunchSlot
  <2>2. /\ slot'[s].state = "started"
        /\ t # s => slot'[t] = slot[t]
    BY ONLY <1>1, <2>1, t \in Slots, s \in Slots DEF SlotRec
  <2>3. pc' = "tasks"
    BY <1>4 DEF LaunchSlot
  <2> QED
    BY <2>2, <2>3 DEF BareStart, Active, Working
<1> QED
  BY <1>2, <1>3, <1>4

LEMMA CachingNext ==
  ASSUME RInv, [Next]_vars, NEW t \in Slots, ~slot'[t].caching,
         ~slot[t].caching => BareStart(t)
  PROVE  (Active(t)' => ~slot[t].caching) /\ BareStart(t)'
<1> DEFINE Settled == (Active(t)' => ~slot[t].caching) /\ BareStart(t)'
<1>1. CASE BeginRound \/ ClearCache \/ NextChunk
  <2>1. slot' = slot /\ pc' # "reuse"
    BY <1>1 DEF BeginRound, ClearCache, NextChunk, EndRound
  <2> QED
    BY <2>1 DEF BareStart
<1>2. CASE NoRoom \/ DecodeRejects \/ \E h \in KV!Cells : ComputeFails(h)
  <2>1. CASE FailBatch
    <3>1. slot'[t].state = "idle" /\ pc' = "tasks"
      BY <2>1, TextFailed DEF FailBatch, EndRound
    <3> QED
      BY <3>1 DEF BareStart, Active, Working
  <2>2. CASE ~FailBatch
    <3>1. slot' = slot /\ pc' = "decode"
      BY <1>2, <2>2 DEF NoRoom, DecodeRejects, ComputeFails
    <3> QED
      BY <3>1 DEF BareStart
  <2> QED
    BY <2>1, <2>2
<1>3. ASSUME NEW h \in KV!Cells, PlaceUbatch(h)
      PROVE  Settled
  <2>1. slot' = slot /\ pc' # "reuse"
    BY <1>3 DEF PlaceUbatch
  <2> QED
    BY <2>1 DEF BareStart
<1>4. ASSUME NEW s \in Slots, KeepContext(s) \/ SkipSampled(s) \/ SkipPrompt(s)
      PROVE  Settled
  <2>1. slot' = slot /\ pc' # "reuse"
    BY <1>4 DEF KeepContext, SkipSampled, SkipPrompt, Visited, Turn
  <2> QED
    BY <2>1 DEF BareStart
<1>5. ASSUME NEW s \in Slots, CancelSlot(s) \/ StopFull(s) \/ RejectPrompt(s) \/ SampleLast(s)
      PROVE  Settled
  <2>1. slot'[s].caching = TRUE /\ (t # s => slot'[t] = slot[t])
    BY <1>5, ReleasedSlot DEF RInv
  <2>2. pc' # "reuse"
    BY <1>5 DEF CancelSlot, StopFull, RejectPrompt, SampleLast, Turn
  <2> QED
    BY <2>1, <2>2 DEF BareStart
<1>6. ASSUME NEW s \in Slots, StartPrompt(s) \/ SampleToken(s) \/ LaunchSlot(s)
      PROVE  Settled
  BY <1>6, CachingQuiet
<1>7. ASSUME NEW s \in Slots, ShiftContext(s)
      PROVE  Settled
  <2>1. slot'[s].caching = slot[s].caching /\ (t # s => slot'[t] = slot[t])
    BY <1>7, ShiftContextIs
  <2>2. pc' # "reuse"
    BY <1>7 DEF ShiftContext, Turn
  <2> QED
    BY <2>1, <2>2 DEF BareStart
<1>8. ASSUME NEW s \in Slots, AddSampled(s)
      PROVE  Settled
  <2>1. slot \in [Slots -> SlotRec]
    BY Typed DEF RInv
  <2>2. PICK iBatch, nPast, cached :
          slot' = [slot EXCEPT ![s].iBatch = iBatch, ![s].nPast = nPast, ![s].cached = cached]
    BY <1>8 DEF AddSampled
  <2>3. slot'[t].caching = slot[t].caching
    BY ONLY <2>1, <2>2, t \in Slots, s \in Slots DEF SlotRec
  <2>4. pc' # "reuse"
    BY <1>8 DEF AddSampled, Turn
  <2> QED
    BY <2>3, <2>4 DEF BareStart
<1>9. ASSUME NEW s \in Slots, ContinuePrompt(s) \/ EndReuse(s)
      PROVE  Settled
  <2>1. pc' # "reuse" /\ \E n \in Nat : FillBatch(s, n)
    BY <1>9, FillOf
  <2>2. slot'[t].caching = slot[t].caching
    BY <2>1, FilledCaching
  <2> QED
    BY <2>1, <2>2 DEF BareStart
<1>10. ASSUME NEW s \in Slots, ReuseChunk(s) \/ SkipCached(s)
       PROVE  Settled
  <2>1. /\ turn' = s /\ slot[s].caching /\ slot'[s].caching = slot[s].caching
        /\ t # s => slot'[t] = slot[t]
    <3>1. turn' = s /\ slot[s].caching
      BY <1>10 DEF ReuseChunk, SkipCached, Reusing
    <3> QED
      BY <1>10, <3>1, ReusedSlot
  <2> QED
    BY <2>1 DEF BareStart
<1>11. CASE UNCHANGED vars
  <2>1. pc' = pc /\ turn' = turn /\ slot' = slot
    BY <1>11 DEF vars
  <2> QED
    BY <2>1 DEF BareStart
<1> QED
  BY <1>1, <1>2, <1>3, <1>4, <1>5, <1>6, <1>7, <1>8, <1>9, <1>10, <1>11 DEF Next, Round

LEMMA UInvNext == ASSUME UInv, [Next]_vars PROVE UInv'
<1>1. RInv /\ RInv'
  BY RInvNext DEF UInv
<1>2. ASSUME NEW t \in Slots, ~slot'[t].caching
      PROVE  TextPlaced(t)' /\ BareStart(t)'
  <2>1. (Active(t)' => ~slot[t].caching) /\ BareStart(t)'
    BY <1>1, <1>2, CachingNext DEF UInv
  <2>2. CASE ~Active(t)'
    BY <2>1, <2>2 DEF TextPlaced
  <2>3. CASE Active(t)'
    <3>1. TextPlaced(t) /\ BareStart(t)
      BY <2>1, <2>3 DEF UInv
    <3>2. PrefixPlaced(t)
      BY <3>1 DEF BareStart, PrefixPlaced
    <3>3. TextKept(t)
      BY <1>1, KeptNext
    <3> QED
      BY <2>1, <3>1, <3>2, <3>3 DEF TextKept
  <2> QED
    BY <2>2, <2>3
<1> QED
  BY <1>1, <1>2 DEF UInv

(* A request without cache_prompt is answered from its whole text whatever *)
(* has happened before it: failed batches, chunks that were placed in part *)
(* or reused at other positions, requests before the cells were cleared.   *)
THEOREM UncachedAttended ==
  Spec => [](pc = "sample" => \A s \in Sampling : ~slot[s].caching => Attended(s))
<1>1. Init => UInv
  <2> SUFFICES ASSUME Init
               PROVE  UInv
    OBVIOUS
  <2>1. RInv
    BY RInvInit
  <2>2. \A s \in Slots : slot[s].caching
    BY DEF Init
  <2> QED
    BY <2>1, <2>2 DEF UInv
<1>2. UInv /\ [Next]_vars => UInv'
  BY UInvNext
<1>3. UInv => (pc = "sample" => \A s \in Sampling : ~slot[s].caching => Attended(s))
  BY AllAttended DEF UInv, Sampling
<1> QED
  BY <1>1, <1>2, <1>3, PTL DEF Spec
=============================================================================
