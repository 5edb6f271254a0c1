---------------------------- MODULE PromptCache ----------------------------
(***************************************************************************)
(* How the slots of the LLM service share the KV cache: update_slots       *)
(* (llm-service/server/server.cpp) reuses what a slot's last request left  *)
(* in its cells, shifts a full context, batches sampled and prompt tokens, *)
(* and hands the batch in chunks to llama_decode (src/llama.cpp), which    *)
(* finds cells for one ubatch after the other.  All of it runs on the main *)
(* thread; AnswerServer models what surrounds it.                          *)
(*                                                                         *)
(* Left out: speculative decoding, embeddings, reranking and LoRA, which   *)
(* /answer of the deployed service does not use, and disabled continuous   *)
(* batching.  Tokens are numbers; what the model samples is a choice.      *)
(***************************************************************************)
EXTENDS Integers, Sequences, FiniteSets, FiniteSetsExt

CONSTANTS
  NSlots,        (* n_parallel                                             *)
  Ctx,           (* n_ctx of a slot                                        *)
  Batch,         (* n_batch                                                *)
  UBatch,        (* n_ubatch                                               *)
  AddBos,        (* 1 if the vocabulary wants a BOS token, else 0          *)
  CacheReuse,    (* n_cache_reuse                                          *)
  CtxShifts,     (* what params_base.ctx_shift may be                      *)
  Prompts,       (* the prompts of requests, sequences of tokens           *)
  Keeps,         (* their "n_keep"                                         *)
  Discards,      (* their "n_discard"                                      *)
  Caching,       (* their "cache_prompt"                                   *)
  Vocab,         (* the tokens that may be sampled                         *)
  MaxRequests,   (* bound: requests that are launched                      *)
  EarlyRequest,  (* a request may be queued before the loop starts         *)
  DecodeMayFail  (* llama_decode may fail for good                         *)

ASSUME RoundAssumption ==
  /\ {NSlots, Ctx, Batch, UBatch} \subseteq Nat \ {0}
  /\ UBatch <= Batch /\ Batch <= NSlots * Ctx
  /\ Ctx >= 4 /\ AddBos \in {0, 1} /\ CacheReuse \in Nat
  /\ Prompts \subseteq Seq(Nat) /\ Vocab \subseteq Nat
  /\ MaxRequests \in Nat
  /\ Keeps \subseteq Int
  /\ Discards \subseteq 0 .. 2  \* more than there is to discard is not checked for
  /\ {EarlyRequest, DecodeMayFail} \cup CtxShifts \cup Caching \subseteq BOOLEAN

Slots == 1 .. NSlots
NoSlot == 0

VARIABLES
  pc,      (* where the main thread is: between rounds or in update_slots  *)
  launched, (* requests launched so far, for the bound                     *)
  turn,    (* the slot whose turn it is in a loop over the slots           *)
  ctxShift, (* params_base.ctx_shift                                       *)
  clean,   (* clean_kv_cache                                               *)
  kv,      (* the KV cache                                                 *)
  slot,    (* the slots                                                    *)
  hc, hp,  (* head_c and head_p while chunks are reused                    *)
  batch,   (* the tokens of this round                                     *)
  at,      (* index in batch of the chunk to decode                        *)
  chunk,   (* the local n_batch, halved when there is no room              *)
  placed,  (* tokens of the chunk that have got their cells                *)
  saved,   (* boundaries and head that kv_slot_restorer keeps              *)
  text     (* history: the tokens the next one of a slot is conditioned on *)

server     == <<launched, ctxShift, clean>>
reuseVars  == <<hc, hp>>
decodeVars == <<at, chunk, placed, saved>>
vars == <<pc, turn, server, kv, slot, reuseVars, batch, decodeVars, text>>

KV == INSTANCE KVCache WITH Size <- NSlots * Ctx, SeqIds <- Slots, NoSeq <- NoSlot

(* Nothing to restore yet. *)
Unsaved == [head |-> 0, boundaries |-> {}]

TypeOK ==
  /\ pc \in {"tasks", "shift", "gen", "prompts", "reuse", "decode", "sample"}
  /\ turn \in Slots
  /\ launched \in 0 .. MaxRequests
  /\ ctxShift \in CtxShifts
  /\ clean \in BOOLEAN
  /\ kv \in KV!Caches(Nat)
  /\ slot \in [Slots -> [state: {"idle", "started", "prompt", "done", "gen"},
                         prompt: Seq(Nat), keep: Int, discard: Nat, caching: BOOLEAN,
                         cached: Seq(Nat), nPast: 0 .. Ctx, sampled: Nat, iBatch: Int]]
  /\ hc \in 0 .. Ctx /\ hp \in 0 .. hc
  /\ batch \in Seq([seq: Slots, pos: Nat, tok: Nat])
  /\ at \in Nat /\ chunk \in 1 .. Batch /\ placed \in 0 .. Batch
  /\ saved \in [head: 0 .. NSlots * Ctx, boundaries: SUBSET (Nat \X Nat)]
  /\ text \in [Slots -> Seq(Nat)]

Init ==
  /\ pc = "tasks" /\ turn = 1
  /\ launched = 0
  /\ ctxShift \in CtxShifts
  /\ clean = TRUE
  /\ kv = KV!Cleared
  /\ slot = [s \in Slots |->
               [state |-> "idle", prompt |-> <<>>, keep |-> 0, discard |-> 0, caching |-> TRUE,
                cached |-> <<>>, nPast |-> 0, sampled |-> 0, iBatch |-> -1]]
  /\ hc = 0 /\ hp = 0
  /\ batch = <<>>
  /\ at = 0 /\ chunk = Batch /\ placed = 0 /\ saved = Unsaved
  /\ text = [s \in Slots |-> <<>>]
-----------------------------------------------------------------------------
(* Length of the longest common prefix (common_lcp).                       *)
Lcp(a, b) ==
  Max({n \in 0 .. Min({Len(a), Len(b)}) : \A i \in 1 .. n : a[i] = b[i]})

(* seq without the n elements behind the first k. *)
Without(seq, k, n) ==
  [i \in 1 .. Len(seq) - n |-> IF i <= k THEN seq[i] ELSE seq[i + n]]

(* std::vector::resize, which pads with zeros. *)
Resize(seq, n) == [i \in 1 .. n |-> IF i <= Len(seq) THEN seq[i] ELSE 0]

Busy(s) == slot[s].state # "idle"

(* server_slot::release.  Nothing reads what an idle slot keeps of its     *)
(* request, except for its cache_tokens and the stale i_batch.             *)
Released(sl) ==
  [sl EXCEPT !.state = "idle", !.prompt = <<>>, !.keep = 0, !.discard = 0,
             !.caching = TRUE, !.nPast = 0, !.sampled = 0]

(* The loops over the slots: the next slot has its turn, or what follows.  *)
Turn(phase, after) ==
  IF turn < NSlots
  THEN turn' = turn + 1 /\ pc' = phase
  ELSE turn' = 1 /\ pc' = after
-----------------------------------------------------------------------------
(* Between two rounds: tasks are processed.                                *)
LaunchSlot(s) ==
  /\ pc = "tasks"
  /\ ~Busy(s)
  /\ clean => EarlyRequest
  /\ launched < MaxRequests
  /\ launched' = launched + 1
  /\ \E prompt \in Prompts, keep \in Keeps, discard \in Discards, caching \in Caching :
       slot' = [slot EXCEPT ![s].state = "started", ![s].prompt = prompt,
                            ![s].keep = keep, ![s].discard = discard,
                            ![s].caching = caching]
  /\ text' = [text EXCEPT ![s] = <<>>]
  /\ UNCHANGED <<pc, turn, ctxShift, clean, kv, reuseVars, batch, decodeVars>>

CancelSlot(s) ==
  /\ pc = "tasks"
  /\ Busy(s)
  /\ slot' = [slot EXCEPT ![s] = Released(@)]
  /\ text' = [text EXCEPT ![s] = <<>>]
  /\ UNCHANGED <<pc, turn, server, kv, reuseVars, batch, decodeVars>>

(* update_slots finds all slots idle for the first time.                   *)
ClearCache ==
  /\ pc = "tasks"
  /\ \A s \in Slots : ~Busy(s)
  /\ clean
  /\ clean' = FALSE
  /\ kv' = KV!Cleared
  /\ UNCHANGED <<pc, turn, launched, ctxShift, slot, reuseVars, batch, decodeVars, text>>

BeginRound ==
  /\ pc = "tasks"
  /\ \E s \in Slots : Busy(s)
  /\ pc' = "shift"
  /\ UNCHANGED <<turn, server, kv, slot, reuseVars, batch, decodeVars, text>>
-----------------------------------------------------------------------------
(* Context shift.                                                          *)
Full(s) == Busy(s) /\ slot[s].nPast + 1 >= Ctx

(* Fault: cache_tokens is not shifted with the cells. *)
ShiftCellsOnly(s) ==
  /\ pc = "shift" /\ turn = s
  /\ ctxShift /\ Full(s)
  /\ LET from    == slot[s].keep + AddBos
         discard == IF slot[s].discard # 0 THEN slot[s].discard
                    ELSE (slot[s].nPast - from) \div 2
     IN  /\ \E rest \in {KV!SeqRm(kv, s, from, from + discard)} :
              kv' = KV!SeqAdd(rest, s, from + discard, slot[s].nPast, -discard)
         /\ slot' = [slot EXCEPT ![s].nPast = @ - discard]
         /\ text' = [text EXCEPT ![s] = Without(@, from, discard)]
  /\ Turn("shift", "gen")
  /\ UNCHANGED <<server, reuseVars, batch, decodeVars>>

ShiftContext(s) ==
  /\ pc = "shift" /\ turn = s
  /\ ctxShift /\ Full(s)
  /\ LET from    == slot[s].keep + AddBos
         discard == IF slot[s].discard # 0 THEN slot[s].discard
                    ELSE (slot[s].nPast - from) \div 2
     IN  /\ \E rest \in {KV!SeqRm(kv, s, from, from + discard)} :
              kv' = KV!SeqAdd(rest, s, from + discard, slot[s].nPast, -discard)
         /\ slot' = [slot EXCEPT
                       ![s].cached = IF slot[s].caching THEN Without(@, from, discard) ELSE @,
                       ![s].nPast = @ - discard]
         /\ text' = [text EXCEPT ![s] = Without(@, from, discard)]
  /\ Turn("shift", "gen")
  /\ UNCHANGED <<server, reuseVars, batch, decodeVars>>

(* Without context shift the slot gets an error.                           *)
StopFull(s) ==
  /\ pc = "shift" /\ turn = s
  /\ ~ctxShift /\ Full(s)
  /\ slot' = [slot EXCEPT ![s] = Released(@)]
  /\ text' = [text EXCEPT ![s] = <<>>]
  /\ Turn("shift", "gen")
  /\ UNCHANGED <<server, kv, reuseVars, batch, decodeVars>>

KeepContext(s) ==
  /\ pc = "shift" /\ turn = s
  /\ ~Full(s)
  /\ Turn("shift", "gen")
  /\ UNCHANGED <<server, kv, slot, reuseVars, batch, decodeVars, text>>

(* The token sampled in the last round goes into the batch.                *)
AddSampled(s) ==
  /\ pc = "gen" /\ turn = s
  /\ slot[s].state = "gen"
  /\ batch' = Append(batch, [seq |-> s, pos |-> slot[s].nPast, tok |-> slot[s].sampled])
  /\ slot' = [slot EXCEPT ![s].iBatch = Len(batch),
                          ![s].nPast = @ + 1,
                          ![s].cached = IF slot[s].caching THEN Append(@, slot[s].sampled) ELSE @]
  /\ text' = [text EXCEPT ![s] = Append(@, slot[s].sampled)]
  /\ Turn("gen", "prompts")
  /\ UNCHANGED <<server, kv, reuseVars, decodeVars>>

SkipSampled(s) ==
  /\ pc = "gen" /\ turn = s
  /\ slot[s].state # "gen"
  /\ Turn("gen", "prompts")
  /\ UNCHANGED <<server, kv, slot, reuseVars, batch, decodeVars, text>>
-----------------------------------------------------------------------------
(* Prompts.  After a slot has been visited the loop ends if the batch is   *)
(* full.                                                                   *)
Visited(s) ==
  IF Len(batch') >= Batch
  THEN turn' = 1 /\ pc' = "decode"
  ELSE Turn("prompts", IF batch' = <<>> THEN "tasks" ELSE "decode")

SkipPrompt(s) ==
  /\ pc = "prompts" /\ turn = s
  /\ slot[s].state \notin {"started", "prompt"}
  /\ UNCHANGED <<server, kv, slot, reuseVars, batch, decodeVars, text>>
  /\ Visited(s)

(* An empty prompt, or without context shift one that does not fit.        *)
RejectPrompt(s) ==
  /\ pc = "prompts" /\ turn = s
  /\ slot[s].state = "started"
  /\ slot[s].prompt = <<>> \/ (~ctxShift /\ Len(slot[s].prompt) >= Ctx)
  /\ slot' = [slot EXCEPT ![s] = Released(@)]
  /\ Turn("prompts", IF batch = <<>> THEN "tasks" ELSE "decode")
  /\ UNCHANGED <<server, kv, reuseVars, batch, decodeVars, text>>

(* Fault: one block too many is kept. *)
TruncatedLess(prompt, keep) ==
  LET block == (Ctx - keep) \div 2
  IN  IF Len(prompt) < Ctx
      THEN prompt
      ELSE Without(prompt, keep, ((Len(prompt) - keep - block) \div block - 1) * block)

(* The prompt when it is shorter than the context, otherwise without the   *)
(* fewest blocks of half the rest behind its first keep tokens.            *)
Truncated(prompt, keep) ==
  LET block == (Ctx - keep) \div 2
  IN  IF Len(prompt) < Ctx
      THEN prompt
      ELSE Without(prompt, keep, ((Len(prompt) - keep - block) \div block) * block)

(* A new prompt begins: the prefix it shares with cache_tokens is reused.  *)
StartPrompt(s) ==
  /\ pc = "prompts" /\ turn = s
  /\ slot[s].state = "started"
  /\ slot[s].prompt # <<>> /\ (ctxShift \/ Len(slot[s].prompt) < Ctx)
  /\ LET old    == slot[s].prompt
         keep   == Min({Ctx - 4, IF slot[s].keep < 0 THEN Len(old) ELSE slot[s].keep})
         prompt == Truncated(old, keep)
         common == IF slot[s].caching THEN Lcp(slot[s].cached, prompt) ELSE 0
     IN  /\ slot' = [slot EXCEPT ![s].state = "prompt", ![s].prompt = prompt,
                                 ![s].keep = keep, ![s].nPast = common]
         /\ hc' = common /\ hp' = common
  /\ pc' = "reuse"
  /\ UNCHANGED <<turn, server, kv, batch, decodeVars, text>>

(* While chunks of cache_tokens may be reused at other positions.          *)
Reusing(s) ==
  /\ pc = "reuse" /\ turn = s
  /\ slot[s].caching /\ CacheReuse > 0
  /\ hc < Len(slot[s].cached) /\ hp < Len(slot[s].prompt)

Matching(s) ==
  Lcp(SubSeq(slot[s].cached, hc + 1, Len(slot[s].cached)),
      SubSeq(slot[s].prompt, hp + 1, Len(slot[s].prompt)))

ReuseChunk(s) ==
  /\ Reusing(s)
  /\ LET n == Matching(s) IN
       /\ n >= CacheReuse
       /\ kv' = KV!SeqAdd(KV!SeqRm(kv, s, hp, hc), s, hc, -1, hp - hc)
       /\ slot' = [slot EXCEPT
                     ![s].cached = [i \in DOMAIN @ |-> IF i \in hp + 1 .. hp + n
                                                      THEN @[i - hp + hc] ELSE @[i]],
                     ![s].nPast = @ + n]
       /\ hc' = hc + n /\ hp' = hp + n
  /\ UNCHANGED <<pc, turn, server, batch, decodeVars, text>>

SkipCached(s) ==
  /\ Reusing(s)
  /\ Matching(s) < CacheReuse
  /\ hc' = hc + 1
  /\ UNCHANGED <<pc, turn, server, kv, slot, hp, batch, decodeVars, text>>

(* Fault: the cells behind the first n tokens of the prompt are kept. *)
FillBatchKeepsTail(s, n) ==
  LET prompt == slot[s].prompt
      k      == Min({Len(prompt) - n, Max({Batch - Len(batch), 0})})
      done   == n + k = Len(prompt)
  IN  /\ batch' = batch \o [i \in 1 .. k |-> [seq |-> s, pos |-> n + i - 1, tok |-> prompt[n + i]]]
      /\ slot' = [slot EXCEPT
                    ![s].cached = Resize(@, n) \o (IF slot[s].caching
                                                   THEN SubSeq(prompt, n + 1, n + k) ELSE <<>>),
                    ![s].nPast = n + k,
                    ![s].state = IF done THEN "done" ELSE @,
                    ![s].iBatch = IF done THEN Len(batch) + k - 1 ELSE @]
      /\ text' = [text EXCEPT ![s] = SubSeq(prompt, 1, n + k)]
      /\ UNCHANGED <<server, kv, decodeVars>>

(* Everything behind the first n tokens of the prompt is removed, and as   *)
(* many tokens as the batch has room for are added.                        *)
FillBatch(s, n) ==
  LET prompt == slot[s].prompt
      k      == Min({Len(prompt) - n, Max({Batch - Len(batch), 0})})
      done   == n + k = Len(prompt)
  IN  /\ kv' = KV!SeqRm(kv, s, n, -1)
      /\ batch' = batch \o [i \in 1 .. k |-> [seq |-> s, pos |-> n + i - 1, tok |-> prompt[n + i]]]
      /\ slot' = [slot EXCEPT
                    ![s].cached = Resize(@, n) \o (IF slot[s].caching
                                                   THEN SubSeq(prompt, n + 1, n + k) ELSE <<>>),
                    ![s].nPast = n + k,
                    ![s].state = IF done THEN "done" ELSE @,
                    ![s].iBatch = IF done THEN Len(batch) + k - 1 ELSE @]
      /\ text' = [text EXCEPT ![s] = SubSeq(prompt, 1, n + k)]
      /\ UNCHANGED <<server, decodeVars>>

(* At least one token of the prompt is evaluated.                          *)
EndReuse(s) ==
  /\ pc = "reuse" /\ turn = s
  /\ ~Reusing(s)
  /\ FillBatch(s, IF slot[s].nPast = Len(slot[s].prompt) THEN slot[s].nPast - 1 ELSE slot[s].nPast)
  /\ hc' = 0 /\ hp' = 0
  /\ Visited(s)

ContinuePrompt(s) ==
  /\ pc = "prompts" /\ turn = s
  /\ slot[s].state = "prompt"
  /\ FillBatch(s, slot[s].nPast)
  /\ UNCHANGED reuseVars
  /\ Visited(s)
-----------------------------------------------------------------------------
(* llama_decode of one chunk of the batch, ubatch by ubatch.               *)
Chunk == Min({chunk, Len(batch) - at})

Ubatch == SubSeq(batch, at + placed + 1, at + Min({placed + UBatch, Chunk}))

Room == KV!FindSlot(kv, Len(Ubatch))

(* The ubatch is to go to the cells from h on. *)
RoomAt(h) == pc = "decode" /\ Room = [found |-> TRUE, head |-> h]

(* What kv_slot_restorer keeps: the head before the first ubatch of the    *)
(* chunk, and where the ubatches went.                                     *)
Saved(h) ==
  [head       |-> IF placed = 0 THEN kv.head ELSE saved.head,
   boundaries |-> saved.boundaries \cup {<<h, h + Len(Ubatch)>>}]

(* Nothing of the round is left when update_slots returns.                 *)
EndRound ==
  /\ pc' = "tasks" /\ turn' = 1
  /\ batch' = <<>>
  /\ at' = 0 /\ chunk' = Batch /\ placed' = 0 /\ saved' = Unsaved

PlaceUbatch(h) ==
  /\ RoomAt(h)
  /\ kv' = KV!Advance(KV!Fill(kv, h, Ubatch), h, Len(Ubatch))
  /\ saved' = Saved(h)
  /\ placed' = placed + Len(Ubatch)
  /\ pc' = IF placed' = Chunk THEN "sample" ELSE "decode"
  /\ UNCHANGED <<turn, server, slot, reuseVars, batch, at, chunk, text>>

(* Every slot is released and sent an error.                               *)
FailBatch ==
  /\ slot' = [s \in Slots |-> IF Busy(s) THEN Released(slot[s]) ELSE slot[s]]
  /\ text' = [s \in Slots |-> <<>>]
  /\ EndRound

(* A prompt of token ids has one that the vocabulary does not.             *)
DecodeRejects ==
  /\ DecodeMayFail
  /\ pc = "decode" /\ placed = 0
  /\ FailBatch
  /\ UNCHANGED <<server, kv, reuseVars>>

(* The graph cannot be computed; kv_slot_restorer is asked to restore.     *)
ComputeFails(h) ==
  /\ DecodeMayFail
  /\ RoomAt(h)
  /\ kv' = KV!Restore(KV!Fill(kv, h, Ubatch), Saved(h).head, Saved(h).boundaries)
  /\ FailBatch
  /\ UNCHANGED <<server, reuseVars>>

(* Fault: the chunk is tried again with its full length. *)
NoRoomRetries ==
  /\ pc = "decode"
  /\ ~Room.found
  /\ kv' = [kv EXCEPT !.head = Room.head]
  /\ IF chunk = 1
     THEN FailBatch
     ELSE /\ placed' = 0
          /\ saved' = Unsaved
          /\ UNCHANGED <<pc, turn, slot, batch, at, chunk, text>>
  /\ UNCHANGED <<server, reuseVars>>

(* No room for the ubatch: the chunk is tried again with half its length,  *)
(* unless it is a single token.  What its first ubatches have placed stays.*)
NoRoom ==
  /\ pc = "decode"
  /\ ~Room.found
  /\ kv' = [kv EXCEPT !.head = Room.head]
  /\ IF chunk = 1
     THEN FailBatch
     ELSE /\ chunk' = chunk \div 2
          /\ placed' = 0
          /\ saved' = Unsaved
          /\ UNCHANGED <<pc, turn, slot, batch, at, text>>
  /\ UNCHANGED <<server, reuseVars>>

(* The slots whose logits the chunk has computed.                          *)
Sampling ==
  {s \in Slots : slot[s].iBatch \in at .. at + Chunk - 1 /\ slot[s].state \in {"done", "gen"}}

(* A token is sampled, and the generation goes on.                         *)
SampleToken(s) ==
  /\ pc = "sample"
  /\ Sampling # {} /\ s = Min(Sampling)
  /\ \E tok \in Vocab :
       slot' = [slot EXCEPT ![s].state = "gen", ![s].sampled = tok, ![s].iBatch = -1]
  /\ UNCHANGED <<pc, turn, server, kv, reuseVars, batch, decodeVars, text>>

(* The sampled token ends it.                                              *)
SampleLast(s) ==
  /\ pc = "sample"
  /\ Sampling # {} /\ s = Min(Sampling)
  /\ slot' = [slot EXCEPT ![s] = [Released(@) EXCEPT !.iBatch = -1]]
  /\ text' = [text EXCEPT ![s] = <<>>]
  /\ UNCHANGED <<pc, turn, server, kv, reuseVars, batch, decodeVars>>

NextChunk ==
  /\ pc = "sample"
  /\ Sampling = {}
  /\ IF at + chunk < Len(batch)
     THEN /\ pc' = "decode" /\ at' = at + chunk
          /\ placed' = 0 /\ saved' = Unsaved
          /\ UNCHANGED <<turn, batch, chunk>>
     ELSE EndRound
  /\ UNCHANGED <<server, kv, slot, reuseVars, text>>
-----------------------------------------------------------------------------
Round ==
  \/ BeginRound \/ NoRoom \/ NextChunk
  \/ \E h \in KV!Cells : PlaceUbatch(h)
  \/ \E s \in Slots :
       \/ ShiftContext(s) \/ StopFull(s) \/ KeepContext(s)
       \/ AddSampled(s) \/ SkipSampled(s)
       \/ SkipPrompt(s) \/ RejectPrompt(s) \/ StartPrompt(s) \/ ContinuePrompt(s)
       \/ ReuseChunk(s) \/ SkipCached(s) \/ EndReuse(s)
       \/ SampleToken(s) \/ SampleLast(s)

Next ==
  \/ Round
  \/ ClearCache
  \/ DecodeRejects
  \/ \E h \in KV!Cells : ComputeFails(h)
  \/ \E s \in Slots : LaunchSlot(s) \/ CancelSlot(s)

Spec == Init /\ [][Next]_vars

(* The main thread never blocks in update_slots.                           *)
FairSpec == Spec /\ WF_vars(Round)
-----------------------------------------------------------------------------
(***************************************************************************)
(* Properties.                                                             *)
(***************************************************************************)
At(s, pos) == {i \in KV!Cells : kv.cells[i].seq = s /\ kv.cells[i].pos = pos}

(* The cache holds each token once, at its position. *)
Holds(s, tokens) ==
  \A n \in DOMAIN tokens :
    \E i \in KV!Cells : At(s, n - 1) = {i} /\ kv.cells[i].tok = tokens[n]

(* A sampled token is conditioned on exactly what the client asked for and *)
(* was told so far: whatever was reused, shifted or split, the cells the   *)
(* slot attends to hold its prompt and its generated tokens, each once.    *)
Conditioned ==
  pc = "sample" => \A s \in Sampling : Holds(s, text[s]) /\ Len(text[s]) = slot[s].nPast

(* Between rounds cache_tokens names only tokens that are in the cells: a  *)
(* later prompt may rely on any prefix of it.                              *)
CacheNamed == pc = "tasks" => \A s \in Slots : Holds(s, slot[s].cached)

(* However many cells idle slots keep, there is room for the batch: the    *)
(* error "KV cache is full" cannot occur.                                  *)
RoomForBatch ==
  pc = "decode" =>
    Cardinality({i \in KV!Cells : kv.cells[i] = KV!Free}) >= Len(batch) - at - placed

(* llama_kv_cache_find_slot finds n free cells in a row when there are.    *)
RoomIsFound ==
  \A n \in 1 .. UBatch :
    KV!FindSlot(kv, n).found <=>
      \E h \in 0 .. NSlots * Ctx - n : \A i \in h .. h + n - 1 : kv.cells[i] = KV!Free

(* llama_decode that does not succeed leaves the cache as it was: when a   *)
(* chunk is tried, none of its tokens has a cell yet.  It does not hold    *)
(* when a later ubatch finds no room, and no run checks it.                *)
DecodeRollsBack ==
  pc = "decode" /\ placed = 0 =>
    \A j \in at + 1 .. Len(batch) : At(batch[j].seq, batch[j].pos) = {}

(* Even after failed decodes a slot never attends to a token that is not   *)
(* its own text at that position.                                          *)
NoWrongToken ==
  pc = "sample" =>
    \A s \in Sampling : \A n \in DOMAIN text[s] :
      \A i \in At(s, n - 1) : kv.cells[i].tok = text[s][n]

(* update_slots returns: halving a chunk that finds no room comes to an    *)
(* end.                                                                    *)
RoundEnds == pc # "tasks" ~> pc = "tasks"
=============================================================================
