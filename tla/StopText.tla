------------------------------ MODULE StopText ------------------------------
(***************************************************************************)
(* What the LLM service makes of the text of the sampled tokens            *)
(* (server.cpp: process_token, find_stopping_strings; utils.hpp:           *)
(* find_partial_stop_string, validate_utf8): text that could be the        *)
(* beginning of a stop word or of a character is held back, text before a  *)
(* stop word is sent, and the rest is dropped.                             *)
(*                                                                         *)
(* A text is a sequence of bytes.  Of the bytes outside ASCII there are a  *)
(* lead byte of two, one of three, and a continuation byte.                *)
(***************************************************************************)
EXTENDS Integers, Sequences, SequencesExt, FiniteSetsExt

CONSTANTS
  Tokens,    (* texts of the tokens                                        *)
  StopWords, (* "stop" of the request                                      *)
  Indents,   (* "n_indent" of the request                                  *)
  Predict    (* n_predict                                                  *)

Byte == STRING
Lead2 == "lead2"
Lead3 == "lead3"
Continuation == "continuation"
Newline == "newline"
Blanks == {"space", "tab"}

BytesOf(lead) == CASE lead = Lead2 -> 2 [] lead = Lead3 -> 3 [] OTHER -> 1

(* No character reaches beyond the end. *)
EndsWhole(text) == \A i \in DOMAIN text : i - 1 + BytesOf(text[i]) <= Len(text)

(* The stop words come from JSON, so that they are made of characters.     *)
ASSUME TextAssumption ==
  /\ Tokens \subseteq Seq(Byte)
  /\ StopWords \subseteq Seq(Byte) \ {<<>>}
  /\ \A word \in StopWords : word[1] # Continuation /\ EndsWhole(word)
  /\ Indents \subseteq Nat
  /\ Predict \in Nat \ {0}

VARIABLES
  slot,     (* the fields of server_slot that process_token uses           *)
  streamed, (* the chunks of the partial responses, joined                 *)
  raw,      (* the texts of all tokens, joined                             *)
  mixed     (* a token had other text before the beginning of a character  *)

vars == <<slot, streamed, raw, mixed>>

Init ==
  /\ slot \in [text: {<<>>},    (* generated_text                          *)
               sent: {0},       (* n_sent_text                             *)
               more: {TRUE},    (* has_next_token                          *)
               stop: {"none"},  (* stop                                    *)
               decoded: {0},    (* n_decoded                               *)
               newline: {FALSE},(* has_new_line                            *)
               lastNl: {0},     (* last_nl_pos                             *)
               indent: Indents] (* params.n_indent                         *)
  /\ streamed = <<>>
  /\ raw = <<>>
  /\ mixed = FALSE
-----------------------------------------------------------------------------
(***************************************************************************)
(* Searching.  Positions count from 1.                                     *)
(***************************************************************************)
From(text, pos) == SubSeq(text, pos, Len(text))

(* Fault: only a lead byte at the very end is noticed. *)
IncompleteAtEnd(text) == text # <<>> /\ BytesOf(Last(text)) > 1

(* validate_utf8(text) < text.size(): one of the last four bytes leads a   *)
(* character that needs more bytes than there are.                         *)
Incomplete(text) ==
  \E i \in 1 .. 4 : i <= Len(text) /\ BytesOf(text[Len(text) + 1 - i]) > i

Occurrences(word, text, first) ==
  {p \in first .. Len(text) + 1 - Len(word) : SubSeq(text, p, p + Len(word) - 1) = word}

(* Fault: a word that began before the last token is not looked for. *)
FullStopsInToken(text, last) ==
  UNION {Occurrences(word, text, Max({Len(text) - last, 0}) + 1) : word \in StopWords}

(* find_stopping_strings, full: where a stop word begins that ends in the  *)
(* last bytes.                                                             *)
FullStops(text, last) ==
  UNION {Occurrences(word, text, Max({Len(text) - Len(word) - last, 0}) + 1)
          : word \in StopWords}

(* find_stopping_strings, partial: the text ends with the beginning of a   *)
(* stop word.                                                              *)
PartialStop(text) ==
  \E word \in StopWords : \E k \in DOMAIN word : IsSuffix(SubSeq(word, 1, k), text)
-----------------------------------------------------------------------------
(***************************************************************************)
(* process_token, in the order of its parts.  Each takes the slot as the   *)
(* part before has left it.                                                *)
(***************************************************************************)

Stopped(s, why) == [s EXCEPT !.more = FALSE, !.stop = why]

(* Fault: what is sent is not counted. *)
SendUncounted(s, kept) ==
  [slot |-> [s EXCEPT !.text = kept], chunk |-> From(kept, Min({s.sent, Len(kept)}) + 1)]

(* The text that is sent when the text is cut to kept. *)
Send(s, kept) ==
  LET chunk == From(kept, Min({s.sent, Len(kept)}) + 1)
  IN  [slot |-> [s EXCEPT !.text = kept, !.sent = @ + Len(chunk)], chunk |-> chunk]

(* A stop word at p ends the generation, and the text before it. *)
StopAt(s, p) ==
  Send(Stopped(s, "word"), SubSeq(s.text, 1, p - 1))

(* Fault: a stop word that has only begun does not hold text back. *)
ScanEager(s, last) ==
  LET pos  == Min({s.sent, Len(s.text)})
      full == FullStops(From(s.text, pos + 1), last)
  IN  IF Incomplete(s.text) THEN [slot |-> s, chunk |-> <<>>]
      ELSE IF full # {} THEN StopAt(s, pos + Min(full))
      ELSE Send(s, s.text)

(* Stop words are searched in the text that has not been sent. *)
Scan(s, last) ==
  LET pos  == Min({s.sent, Len(s.text)})
      test == From(s.text, pos + 1)
      full == FullStops(test, last)
  IN  IF Incomplete(s.text) THEN [slot |-> s, chunk |-> <<>>]
      ELSE IF full # {} THEN StopAt(s, pos + Min(full))
      ELSE IF PartialStop(test) THEN [slot |-> s, chunk |-> <<>>]
      ELSE Send(s, s.text)

(* Fault: one token too many. *)
BudgetLate(s) == IF s.more /\ s.decoded > Predict THEN Stopped(s, "limit") ELSE s

Budget(s) == IF s.more /\ s.decoded >= Predict THEN Stopped(s, "limit") ELSE s

(* Where the line that begins behind lastNl has its first character that   *)
(* is no blank, or would have one.                                         *)
FirstInLine(s) ==
  Min({p \in s.lastNl + 1 .. Len(s.text) + 1 :
         p = Len(s.text) + 1 \/ s.text[p] \notin Blanks})

(* A line with too small an indentation is cut off and ends the text; then *)
(* the next newline is looked for.                                         *)
Indentation(s) ==
  LET p    == FirstInLine(s)
      cut  == /\ 0 < s.lastNl /\ s.lastNl < Len(s.text)
              /\ p <= Len(s.text) /\ p - 1 - s.lastNl < s.indent
      t    == IF cut THEN [Stopped(s, "limit") EXCEPT !.text = SubSeq(s.text, 1, p - 1)] ELSE s
      next == Occurrences(<<Newline>>, t.text, s.lastNl + 1)
  IN  IF next = {} THEN t ELSE [t EXCEPT !.lastNl = Min(next)]

(* What is only done once a newline has been sent; late: t_max_predict_ms  *)
(* has passed.                                                             *)
AfterNewline(s, late) ==
  LET t == IF late THEN Stopped(s, "limit") ELSE s
  IN  IF ~s.newline THEN s ELSE IF s.indent > 0 THEN Indentation(t) ELSE t

Limits(s, late, full, eog) ==
  LET t == IF full THEN Stopped(AfterNewline(Budget(s), late), "limit")
           ELSE AfterNewline(Budget(s), late)
  IN  IF eog THEN Stopped(t, "eos") ELSE t

(* A token with this text was sampled.  The clock, the context and the     *)
(* model decide about late, full and eog; an end-of-generation token has   *)
(* no text.                                                                *)
ProcessToken(token, late, full, eog) ==
  /\ slot.more
  /\ eog => token = <<>>
  /\ \E s \in {[slot EXCEPT !.text = @ \o token, !.decoded = @ + 1]} :
     \E scanned \in {Scan(s, Len(token))} :
       LET text_to_send == IF Incomplete(s.text) THEN token ELSE scanned.chunk
           limited      == Limits(scanned.slot, late, full, eog)
       IN  /\ slot' = [limited EXCEPT !.newline =
                         @ \/ Contains(text_to_send, Newline)]
           /\ streamed' = streamed \o scanned.chunk
  /\ raw' = raw \o token
  /\ mixed' = (mixed \/ (Len(token) > 1 /\ Incomplete(token)))

Next ==
  \E token \in Tokens : \E late, full, eog \in BOOLEAN : ProcessToken(token, late, full, eog)

Spec == Init /\ [][Next]_vars
-----------------------------------------------------------------------------
(***************************************************************************)
(* Properties.                                                             *)
(***************************************************************************)
Stops == {"none", "word", "limit", "eos"}

ServerSlot ==
  [text : Seq(Byte), sent : Nat, more : BOOLEAN, stop : Stops, decoded : 0 .. Predict,
   newline : BOOLEAN, lastNl : Nat, indent : Indents]

(* The types of the fields; n_decoded never exceeds n_predict, and the     *)
(* generation has a reason to stop exactly when it stops.                  *)
TypeOK ==
  /\ slot \in ServerSlot
  /\ slot.more <=> slot.stop = "none"
  /\ streamed \in Seq(Byte) /\ raw \in Seq(Byte) /\ mixed \in BOOLEAN

(* The reference: the tokens' text up to where the first stop word in it   *)
(* begins, whatever tokens it comes in.                                    *)
BeforeStop(text) ==
  LET stops == UNION {Occurrences(word, text, 1) : word \in StopWords}
  IN  IF stops = {} THEN text ELSE SubSeq(text, 1, Min(stops) - 1)

(* No character is broken off by another. *)
WellFormed(text) ==
  \A i \in DOMAIN text : \A j \in i + 1 .. i - 1 + BytesOf(text[i]) :
    j \in DOMAIN text => text[j] = Continuation

(* The tokens spell characters, and begin one only at their own beginning. *)
Spelled == WellFormed(raw) /\ ~mixed

(* The content of the final response is the reference; n_indent may have   *)
(* cut more from its end.  This needs tokens that spell characters: while  *)
(* the text is incomplete no stop word is searched, and one that ended     *)
(* meanwhile, in the token that began the character or between its bytes,  *)
(* is missed for good if the next search does not reach back to it.        *)
ContentBeforeStop ==
  Spelled => IF slot.indent = 0 THEN slot.text = BeforeStop(raw)
             ELSE IsPrefix(slot.text, BeforeStop(raw))

(* A client that streams is never sent any byte of a stop word, also if    *)
(* the word comes in several tokens, nor text behind it; with the same     *)
(* exception.                                                              *)
StopWordWithheld == Spelled => IsPrefix(streamed, BeforeStop(raw))

(* As long as the model writes characters, the client has whole characters *)
(* after each chunk.                                                       *)
WholeCharacters == WellFormed(raw) => EndsWhole(streamed)

(* Text is only held back for a reason: what has not been sent ends in the *)
(* beginning of a stop word or of a character.                             *)
HeldForReason ==
  slot.indent = 0 /\ streamed # slot.text =>
    /\ IsPrefix(streamed, slot.text)
    /\ LET held == From(slot.text, Len(streamed) + 1) IN PartialStop(held) \/ Incomplete(held)

(* When the generation has stopped, the chunks make up the content. *)
StreamIsContent == ~slot.more => streamed = slot.text
=============================================================================
