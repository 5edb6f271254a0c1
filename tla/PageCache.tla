----------------------------- MODULE PageCache -----------------------------
(***************************************************************************)
(* The prediction endpoint of the Nougat service (nougat-service/app.py)   *)
(* and the directory in which it keeps the pages of one document, named by *)
(* the document's MD5.  predict is a coroutine that never awaits, so the   *)
(* event loop runs one request at a time; what can come between its steps  *)
(* is the end of the process or an error of the file system.               *)
(*                                                                         *)
(* Abstracted: the text of a page.  Only its origin is kept, and whether   *)
(* it is all of the text.  The model predicts the same text for the same   *)
(* page.  doc.pdf, thumb.jpg and doc.mmd are written and never read.       *)
(***************************************************************************)
EXTENDS Subsequences

CONSTANTS
  NPages,        (* pages of the document                                  *)
  Ranges,        (* the page ranges that requests name                     *)
  RasterMayStop, (* a page may not be rasterised                           *)
  MayInterrupt   (* the process may die, the disk may be full              *)

Page == 1 .. NPages

ASSUME PageAssumption ==
  /\ NPages \in Nat \ {0}
  /\ Ranges \subseteq Page \X Page
  /\ RasterMayStop \in BOOLEAN
  /\ MayInterrupt \in BOOLEAN

(***************************************************************************)
(* The text of a page: the whole of it, the beginning of it, or none; and  *)
(* what else a page file may be: absent, or cut inside a character, so     *)
(* that read_text raises.                                                  *)
(***************************************************************************)
Whole(p) == [page |-> p, part |-> "whole"]
Begun(p) == [page |-> p, part |-> "begun"]
Blank    == [page |-> 0, part |-> "none"]
Absent   == [page |-> 0, part |-> "absent"]
Cut      == [page |-> 0, part |-> "cut"]

Texts    == {Whole(p) : p \in Page} \cup {Begun(p) : p \in Page} \cup {Blank}
Contents == Texts \cup {Absent, Cut}

VARIABLES
  disk,    (* pages/NN.mmd                                                 *)
  at,      (* where the request is                                         *)
  pages,   (* its page numbers, in order                                   *)
  text,    (* its predictions, one for each of them                        *)
  written, (* how many page files it has written                           *)
  given,   (* the last answer for each page, since the last interruption   *)
  damaged  (* pages once not rasterised, or interrupted while written      *)

vars == <<disk, at, pages, text, written, given, damaged>>

TypeOK ==
  /\ disk \in [Page -> Contents]
  /\ at \in {"idle", "writing"}
  /\ pages \in Seq(Page)
  /\ text \in [DOMAIN pages -> Texts]
  /\ written \in 0 .. Len(pages)
  /\ given \in [Page -> Texts \cup {Absent}]
  /\ damaged \subseteq Page

Init ==
  /\ disk = [p \in Page |-> Absent]
  /\ at = "idle"
  /\ pages = <<>>
  /\ text = <<>>
  /\ written = 0
  /\ given = [p \in Page |-> Absent]
  /\ damaged = {}
-----------------------------------------------------------------------------
(* list(range(start - 1, stop)), counted from 1. *)
PageRange(r) == [i \in 1 .. r[2] + 1 - r[1] |-> r[1] + i - 1]

(* compute_pages: those whose file cannot be read, in order. *)
ToCompute(ps) == Picked(ps, {i \in DOMAIN ps : disk[ps[i]] \notin Texts})

(* Fault: the place among the pages to compute is taken for a place in ps. *)
PlaceOfImage(ps, k) == k

(* pages.index(compute_pages[k]); every batch but the last is full, so     *)
(* that idx * BATCHSIZE + j numbers the images.                            *)
PlaceOf(ps, k) == CHOOSE i \in DOMAIN ps : ps[i] = ToCompute(ps)[k]

(* Fault: cached pages are skipped, but their text is not taken. *)
PredictionsOfNew(ps, n) ==
  LET Image(i) == {k \in 1 .. n : PlaceOf(ps, k) = i}
  IN  [i \in DOMAIN ps |->
         IF Image(i) # {} THEN Whole(ToCompute(ps)[CHOOSE k \in Image(i) : TRUE]) ELSE Blank]

(* predictions once the first n pages to compute have become images, and   *)
(* the model has read them.                                                *)
Predictions(ps, n) ==
  LET Image(i) == {k \in 1 .. n : PlaceOf(ps, k) = i}
  IN  [i \in DOMAIN ps |->
         IF Image(i) # {} THEN Whole(ToCompute(ps)[CHOOSE k \in Image(i) : TRUE])
         ELSE IF disk[ps[i]] \in Texts THEN disk[ps[i]]
         ELSE Blank]

(* rasterize_paper draws the pages in order, stops at one it cannot draw   *)
(* and returns the images it has.                                          *)
Drawn(ps) == IF RasterMayStop THEN 0 .. Len(ps) ELSE {Len(ps)}

(* The request up to its first write.  If the loader or the model raises,  *)
(* the request fails here and leaves nothing.                              *)
Predict(r) ==
  /\ at = "idle"
  /\ \E ps \in {PageRange(r)} : \E n \in Drawn(ToCompute(ps)) :
       /\ pages' = ps
       /\ text' = Predictions(ps, n)
       /\ damaged' = damaged \cup {ToCompute(ps)[k] : k \in n + 1 .. Len(ToCompute(ps))}
  /\ at' = "writing"
  /\ written' = 0
  /\ UNCHANGED <<disk, given>>

Writing == at = "writing" /\ written < Len(pages)

(* Fault: page files are numbered by their place in the request. *)
WritePageByPlace ==
  /\ Writing
  /\ disk' = [disk EXCEPT ![written + 1] = text[written + 1]]
  /\ written' = written + 1
  /\ UNCHANGED <<at, pages, text, given, damaged>>

(* Every page file is written, also those that were read. *)
WritePage ==
  /\ Writing
  /\ disk' = [disk EXCEPT ![pages[written + 1]] = text[written + 1]]
  /\ written' = written + 1
  /\ UNCHANGED <<at, pages, text, given, damaged>>

(* Fault: the count of the request before is not reset. *)
DoneUncounted == at' = "idle" /\ pages' = <<>> /\ text' = <<>> /\ UNCHANGED written

Done == at' = "idle" /\ pages' = <<>> /\ text' = <<>> /\ written' = 0

(* The answer: the predictions, joined. *)
Respond ==
  /\ at = "writing" /\ written = Len(pages)
  /\ given' = [p \in Page |->
                 IF \E i \in DOMAIN pages : pages[i] = p
                 THEN text[CHOOSE i \in DOMAIN pages : pages[i] = p]
                 ELSE given[p]]
  /\ Done
  /\ UNCHANGED <<disk, damaged>>

(* What opening a page file for writing and not closing it leaves of new:  *)
(* nothing, or what the buffer has passed on.                              *)
Torn(p, new) == IF new = Blank THEN {Blank} ELSE {Blank, Begun(p), Cut}

(* The process dies, or the disk is full, while a page file is written.    *)
Interrupt ==
  /\ MayInterrupt /\ Writing
  /\ \E c \in Torn(pages[written + 1], text[written + 1]) :
       disk' = [disk EXCEPT ![pages[written + 1]] = c]
  /\ given' = [p \in Page |-> Absent]
  /\ damaged' = damaged \cup {pages[written + 1]}
  /\ Done

(* The process dies between two writes, or before it answers. *)
Die ==
  /\ MayInterrupt /\ at = "writing"
  /\ Done
  /\ UNCHANGED <<disk, given, damaged>>

Next == (\E r \in Ranges : Predict(r)) \/ WritePage \/ Respond \/ Interrupt \/ Die

Spec == Init /\ [][Next]_vars
-----------------------------------------------------------------------------
(***************************************************************************)
(* Properties.                                                             *)
(***************************************************************************)

(* Text is never kept or answered under the number of another page,        *)
(* although a request computes only some of its pages, stores them by      *)
(* number and numbers them by place.                                       *)
OwnText ==
  \A p \in Page : disk[p].page \in {0, p} /\ given[p].page \in {0, p}

(* An answer without the whole text of a page it names can be traced to a  *)
(* page that was not drawn, or to an interrupted write, in this request or *)
(* an earlier one.                                                         *)
LossTraced ==
  \A p \in Page \ damaged :
    disk[p] \in {Absent, Whole(p)} /\ given[p] \in {Absent, Whole(p)}

(* What was once read of a page is never revised: a request that is not    *)
(* interrupted leaves a readable page file as it is, though it writes all  *)
(* its page files again and may draw only some, and a page is answered the *)
(* same way whatever other pages its requests name.                        *)
NeverRevised ==
  [][\A p \in Page :
       /\ at' = "writing" /\ disk[p] \in Texts => disk'[p] = disk[p]
       /\ Absent \notin {given[p], given'[p]} => given'[p] = given[p]]_vars

(* Every answer has the whole text of its pages.  It does not hold, and no *)
(* run checks it.                                                          *)
AnswersWhole == \A p \in Page : given[p] \in {Absent, Whole(p)}
=============================================================================
