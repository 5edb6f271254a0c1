------------------------------ MODULE KVCache ------------------------------
(***************************************************************************)
(* The cells of the KV cache (llm-service/src/llama-kv-cache.cpp) as the   *)
(* server uses them: every cell belongs to one sequence at most (nothing   *)
(* copies sequences), the model is not recurrent, and defragmentation,     *)
(* which starts at 2048 cells, is left out.  A cell remembers the token it *)
(* was computed for; its keys and values follow its position when it is    *)
(* shifted.                                                                *)
(*                                                                         *)
(* A cache is a record of its cells and its head, the index at which the   *)
(* next search for free cells begins.                                      *)
(***************************************************************************)
EXTENDS Integers, Sequences, FiniteSets, FiniteSetsExt

CONSTANTS
  Size,   (* number of cells, positive                                     *)
  SeqIds, (* sequences, one per server_slot                                *)
  NoSeq   (* the owner of a free cell, not a sequence                      *)

Cells == 0 .. Size - 1

Free == [seq |-> NoSeq, pos |-> -1, tok |-> 0]

Caches(tokens) ==
  [cells: [Cells -> {Free} \cup [seq: SeqIds, pos: Nat, tok: tokens]], head: 0 .. Size]

Cleared == [cells |-> [i \in Cells |-> Free], head |-> 0]

Used(kv) == Cardinality({i \in Cells : kv.cells[i] # Free})

(* pos is one of the positions p0 .. p1-1; a negative p1 stands for the    *)
(* largest position.                                                       *)
Within(pos, p0, p1) == pos >= 0 /\ pos >= p0 /\ (p1 < 0 \/ pos < p1)

Owned(kv, seq, p0, p1) ==
  {i \in Cells : kv.cells[i].seq = seq /\ Within(kv.cells[i].pos, p0, p1)}

(* Frees the given cells; the head moves back to the first of them.        *)
FreeCells(kv, gone) ==
  [cells |-> [i \in Cells |-> IF i \in gone THEN Free ELSE kv.cells[i]],
   head  |-> Min({kv.head} \cup gone)]

(* Fault: the last position is removed too. *)
SeqRmTooMuch(kv, seq, p0, p1) ==
  FreeCells(kv, Owned(kv, seq, p0, IF p1 < 0 THEN p1 ELSE p1 + 1))

(* llama_kv_cache_seq_rm *)
SeqRm(kv, seq, p0, p1) == FreeCells(kv, Owned(kv, seq, p0, p1))

(* llama_kv_cache_seq_add: positions move by delta, and cells that would   *)
(* get a negative one are freed.                                           *)
SeqAdd(kv, seq, p0, p1, delta) ==
  LET moved == Owned(kv, seq, p0, p1)
      gone  == {i \in moved : kv.cells[i].pos + delta < 0}
  IN  IF p0 = p1
      THEN kv
      ELSE [cells |-> [i \in Cells |->
                         IF i \in gone THEN Free
                         ELSE IF i \in moved THEN [kv.cells[i] EXCEPT !.pos = @ + delta]
                         ELSE kv.cells[i]],
            head  |-> IF gone = {} THEN 0 ELSE Min(gone)]

(* Offsets of the used cells among the n cells from h.                     *)
Taken(kv, h, n) == {i \in 0 .. n - 1 : kv.cells[h + i] # Free}

(* Fault: the search ends at the last cell instead of going round. *)
FindSlotOnce(kv, n) ==
  LET start == IF kv.head > Used(kv) + 2 * n THEN 0 ELSE kv.head
      search[h \in Nat] ==
        IF h + n > Size THEN [found |-> FALSE, head |-> 0]
        ELSE IF Taken(kv, h, n) = {} THEN [found |-> TRUE, head |-> h]
        ELSE search[h + Min(Taken(kv, h, n)) + 1]
  IN  search[start]

(***************************************************************************)
(* llama_kv_cache_find_slot: looks for n free cells in a row, from the     *)
(* head to the end and on from the first cell, until it has tested as many *)
(* cells as there are.  llama_prepare_ubatch first moves a head that has   *)
(* enough unused cells before it to the beginning.  search[head, n_tested] *)
(* is the loop, where going round does not take a turn of its own.         *)
(***************************************************************************)
FindSlot(kv, n) ==
  LET start == IF kv.head > Used(kv) + 2 * n THEN 0 ELSE kv.head
      search[p \in (0 .. Size) \X (0 .. Size)] ==
        LET round  == p[1] + n > Size
            h      == IF round THEN 0 ELSE p[1]
            tested == IF round THEN p[2] + Size - p[1] ELSE p[2]
            skip   == Min(Taken(kv, h, n)) + 1
        IN  IF Taken(kv, h, n) = {} THEN [found |-> TRUE, head |-> h]
            ELSE IF tested + skip >= Size THEN [found |-> FALSE, head |-> h + skip]
            ELSE search[<<h + skip, tested + skip>>]
  IN  search[<<start, 0>>]

(* Cells are filled with a ubatch of [seq, pos, tok] from h on.            *)
Fill(kv, h, ubatch) ==
  [kv EXCEPT !.cells = [i \in Cells |-> IF i \in h .. h + Len(ubatch) - 1
                                        THEN ubatch[i - h + 1]
                                        ELSE @[i]]]

(* After its computation the head stands behind the ubatch.                *)
Advance(kv, h, n) == [kv EXCEPT !.head = IF h + n >= Size THEN 0 ELSE h + n]

(* llama_kv_slot_restorer::restore.  The boundaries it saved are indices   *)
(* of cells, and it removes the positions of that name, of every sequence. *)
Restore(kv, oldHead, boundaries) ==
  FreeCells([kv EXCEPT !.head = oldHead],
            {i \in Cells : \E b \in boundaries : Within(kv.cells[i].pos, b[1], b[2])})
=============================================================================
