-------------------------- MODULE PageCache_proofs --------------------------
(***************************************************************************)
(* Theorems about PageCache for any document, any page ranges and any      *)
(* sequence of interruptions.                                              *)
(***************************************************************************)
EXTENDS PageCache, Subsequences_proofs
-----------------------------------------------------------------------------
(* No page number is in a request twice. *)
NoTwice(ps) == \A i, j \in DOMAIN ps : ps[i] = ps[j] => i = j

(* A text that may be kept for a page: none, or one of its own; none of    *)
(* another page, and what was readable before is left as it is.            *)
Fits(t, p) ==
  /\ t.page \in {0, p}
  /\ disk[p] \in Texts => t = disk[p]
  /\ p \notin damaged => t = Whole(p)

(***************************************************************************)
(* The inductive invariant.  It says what the predictions of the running   *)
(* request have to do with the directory: each fits the page it is for,    *)
(* the first ones are already in it, and an answered page is there as it   *)
(* was answered.                                                           *)
(***************************************************************************)
Resting == at = "idle" => pages = <<>> /\ text = <<>> /\ written = 0

Fitting == \A i \in DOMAIN pages : Fits(text[i], pages[i])

Written == \A i \in 1 .. written : disk[pages[i]] = text[i]

AnsweredKept == \A p \in Page : given[p] # Absent => disk[p] = given[p]

PInv == /\ TypeOK /\ Resting /\ NoTwice(pages) /\ Fitting /\ Written /\ AnsweredKept
        /\ OwnText /\ LossTraced
-----------------------------------------------------------------------------
(* The records that stand for texts are told apart. *)
LEMMA TextKinds ==
  /\ Blank \in Texts /\ Absent \notin Texts /\ Cut \notin Texts
  /\ \A p \in Page : {Whole(p), Begun(p)} \subseteq Texts
  /\ \A p \in Page : Whole(p).page = p /\ Begun(p).page = p
  /\ Blank.page = 0 /\ Absent.page = 0 /\ Cut.page = 0
<1>1. /\ Blank.part = "none" /\ Absent.part = "absent" /\ Cut.part = "cut"
      /\ \A p \in Page : Whole(p).part = "whole" /\ Begun(p).part = "begun"
  BY DEF Blank, Absent, Cut, Whole, Begun
<1>2. \A t \in Texts : t.part \in {"whole", "begun", "none"}
  BY <1>1 DEF Texts
<1>3. Absent \notin Texts /\ Cut \notin Texts
  BY <1>1, <1>2
<1>4. Blank \in Texts /\ \A p \in Page : {Whole(p), Begun(p)} \subseteq Texts
  BY DEF Texts
<1>5. /\ \A p \in Page : Whole(p).page = p /\ Begun(p).page = p
      /\ Blank.page = 0 /\ Absent.page = 0 /\ Cut.page = 0
  BY DEF Blank, Absent, Cut, Whole, Begun
<1> QED
  BY <1>3, <1>4, <1>5

(* A range names pages of the document, each once. *)
LEMMA RangeIs ==
  ASSUME NEW r \in Ranges
  PROVE  PageRange(r) \in Seq(Page) /\ NoTwice(PageRange(r))
<1> DEFINE ps == PageRange(r)
           n == r[2] + 1 - r[1]
<1>1. NPages \in Nat /\ r[1] \in 1 .. NPages /\ r[2] \in 1 .. NPages
  BY PageAssumption DEF Page
<1>2. n \in Int /\ \A i \in 1 .. n : r[1] + i - 1 \in 1 .. NPages
  BY <1>1
<1>3. ps \in [1 .. n -> Page]
  BY <1>2 DEF PageRange, Page
<1>4. \E m \in Nat : 1 .. m = 1 .. n
  <2>1. CASE n \in Nat
    BY <2>1
  <2>2. CASE n \notin Nat
    <3>1. 1 .. 0 = 1 .. n
      BY <1>2, <2>2
    <3> QED
      BY <3>1
  <2> QED
    BY <2>1, <2>2
<1>5. ps \in Seq(Page)
  <2>1. PICK m \in Nat : 1 .. m = 1 .. n
    BY <1>4
  <2>2. ps \in [1 .. m -> Page]
    BY <1>3, <2>1
  <2> HIDE DEF ps, n
  <2> QED
    BY <2>2, SeqDef
<1>6. \A i, j \in 1 .. n : r[1] + i - 1 = r[1] + j - 1 => i = j
  BY <1>1
<1>7. NoTwice(ps)
  <2>1. DOMAIN ps = 1 .. n /\ \A i \in 1 .. n : ps[i] = r[1] + i - 1
    BY DEF PageRange
  <2> HIDE DEF ps, n
  <2> QED
    BY <1>6, <2>1 DEF NoTwice
<1> QED
  BY <1>5, <1>7

(***************************************************************************)
(* The pages to compute are the unreadable ones of the request, and each   *)
(* is put back at its own place, for pages.index finds it.                 *)
(***************************************************************************)
LEMMA ComputedPages ==
  ASSUME NEW ps \in Seq(Page)
  PROVE  /\ ToCompute(ps) \in Seq(Page)
         /\ \A k \in DOMAIN ToCompute(ps) :
              /\ disk[ToCompute(ps)[k]] \notin Texts
              /\ PlaceOf(ps, k) \in DOMAIN ps
              /\ ps[PlaceOf(ps, k)] = ToCompute(ps)[k]
         /\ \A i \in DOMAIN ps : disk[ps[i]] \notin Texts =>
              \E k \in DOMAIN ToCompute(ps) : ToCompute(ps)[k] = ps[i]
<1> DEFINE S == {i \in DOMAIN ps : disk[ps[i]] \notin Texts}
           c == ToCompute(ps)
           n == Cardinality(S)
<1>1. S \in SUBSET DOMAIN ps /\ c = Picked(ps, S)
  BY DEF ToCompute
<1>2. PICK place \in [1 .. n -> S] :
        /\ c \in Seq(Page) /\ DOMAIN c = 1 .. n
        /\ \A k \in 1 .. n : c[k] = ps[place[k]]
        /\ \A i \in S : \E k \in 1 .. n : place[k] = i
  <2> HIDE DEF S, c
  <2> QED
    BY <1>1, PickedIs
<1>3. \A k \in 1 .. n : place[k] \in DOMAIN ps /\ disk[ps[place[k]]] \notin Texts
  OBVIOUS
<1> HIDE DEF c
<1>4. \A k \in DOMAIN c : disk[c[k]] \notin Texts /\ \E i \in DOMAIN ps : ps[i] = c[k]
  BY <1>2, <1>3
<1>5. \A k \in DOMAIN c : PlaceOf(ps, k) \in DOMAIN ps /\ ps[PlaceOf(ps, k)] = c[k]
  BY <1>4 DEF PlaceOf, c
<1>6. \A i \in DOMAIN ps : disk[ps[i]] \notin Texts => \E k \in DOMAIN c : c[k] = ps[i]
  BY <1>2
<1> QED
  BY <1>2, <1>4, <1>5, <1>6 DEF c

(***************************************************************************)
(* The prediction for each page of a request of which the first n pages to *)
(* compute were drawn: the text of its own file, or its whole text newly   *)
(* read, or nothing if it was not drawn.                                   *)
(***************************************************************************)
LEMMA PredictedTexts ==
  ASSUME NEW ps \in Seq(Page), NoTwice(ps), NEW n \in 0 .. Len(ToCompute(ps)),
         NEW i \in DOMAIN ps
  PROVE  LET t == Predictions(ps, n)[i]
             p == ps[i]
         IN  \/ disk[p] \in Texts /\ t = disk[p]
             \/ disk[p] \notin Texts /\ t = Whole(p)
             \/ /\ disk[p] \notin Texts /\ t = Blank
                /\ \E k \in n + 1 .. Len(ToCompute(ps)) : ToCompute(ps)[k] = p
<1> DEFINE c == ToCompute(ps)
           t == Predictions(ps, n)[i]
           p == ps[i]
           Image == {k \in 1 .. n : PlaceOf(ps, k) = i}
           one == CHOOSE k \in Image : TRUE
<1>1. Len(c) \in Nat /\ DOMAIN c = 1 .. Len(c) /\ n \in Nat /\ n <= Len(c)
  BY ComputedPages, LenProperties
<1>2. /\ \A k \in DOMAIN c : /\ disk[c[k]] \notin Texts
                             /\ PlaceOf(ps, k) \in DOMAIN ps
                             /\ ps[PlaceOf(ps, k)] = c[k]
      /\ disk[p] \notin Texts => \E k \in DOMAIN c : c[k] = p
  BY ComputedPages
<1>3. t = IF Image # {} THEN Whole(c[one])
          ELSE IF disk[p] \in Texts THEN disk[p] ELSE Blank
  BY DEF Predictions
<1>4. CASE Image # {}
  <2>1. one \in 1 .. n /\ PlaceOf(ps, one) = i
    BY <1>4
  <2>2. one \in DOMAIN c
    BY <1>1, <2>1
  <2>3. c[one] = p /\ disk[p] \notin Texts
    BY <1>2, <2>1, <2>2
  <2> QED
    BY <1>3, <1>4, <2>3
<1>5. CASE Image = {} /\ disk[p] \in Texts
  BY <1>3, <1>5
<1>6. CASE Image = {} /\ disk[p] \notin Texts
  <2>1. PICK k \in DOMAIN c : c[k] = p
    BY <1>2, <1>6
  <2>2. PlaceOf(ps, k) = i
    BY <1>2, <2>1 DEF NoTwice
  <2>3. k \notin 1 .. n
    BY <1>6, <2>2
  <2>4. k \in n + 1 .. Len(c)
    BY <1>1, <2>3
  <2> QED
    BY <1>3, <1>6, <2>1, <2>4
<1> QED
  BY <1>4, <1>5, <1>6
-----------------------------------------------------------------------------
LEMMA PInit == Init => PInv
<1> SUFFICES ASSUME Init PROVE PInv
  OBVIOUS
<1> USE DEF Init
<1>1. pages \in Seq(Page) /\ Len(pages) = 0 /\ DOMAIN pages = {}
  BY EmptySeq
<1>2. TypeOK
  <2>1. text \in [DOMAIN pages -> Texts]
    BY <1>1
  <2>2. disk \in [Page -> Contents] /\ given \in [Page -> Texts \cup {Absent}]
    BY DEF Contents
  <2> QED
    BY <1>1, <2>1, <2>2 DEF TypeOK
<1>3. OwnText /\ LossTraced
  BY TextKinds DEF OwnText, LossTraced
<1>4. Resting /\ AnsweredKept
  BY DEF Resting, AnsweredKept
<1>5. NoTwice(pages) /\ Fitting /\ Written
  BY <1>1 DEF NoTwice, Fitting, Written
<1> QED
  BY <1>2, <1>3, <1>4, <1>5 DEF PInv

(* The predictions of a new request fit its pages, with those that were    *)
(* not drawn counted among the damaged.                                    *)
LEMMA PPredict ==
  ASSUME PInv, NEW r \in Ranges, Predict(r)
  PROVE  PInv'
<1> DEFINE ps == PageRange(r)
           c == ToCompute(ps)
<1>1. PICK n \in Drawn(c) :
        /\ pages' = ps /\ text' = Predictions(ps, n)
        /\ damaged' = damaged \cup {c[k] : k \in n + 1 .. Len(c)}
        /\ at' = "writing" /\ written' = 0 /\ disk' = disk /\ given' = given
  BY DEF Predict
<1>2. ps \in Seq(Page) /\ NoTwice(ps) /\ Len(ps) \in Nat /\ DOMAIN ps = 1 .. Len(ps)
  BY RangeIs, LenProperties
<1>3. c \in Seq(Page) /\ Len(c) \in Nat /\ DOMAIN c = 1 .. Len(c)
  BY <1>2, ComputedPages, LenProperties
<1>4. n \in 0 .. Len(c)
  <2> HIDE DEF c
  <2>1. n \in 0 .. Len(c) \/ n = Len(c)
    BY DEF Drawn
  <2> QED
    BY <1>3, <2>1
<1>5. damaged \subseteq damaged' /\ damaged' \subseteq Page
  <2>1. \A k \in n + 1 .. Len(c) : c[k] \in Page
    BY <1>3, <1>4
  <2> QED
    BY <1>1, <2>1 DEF PInv, TypeOK
<1>6. \A i \in DOMAIN ps : text'[i] \in Texts /\ Fits(text[i], pages[i])'
  <2> SUFFICES ASSUME NEW i \in DOMAIN ps
               PROVE  text'[i] \in Texts /\ Fits(text[i], pages[i])'
    OBVIOUS
  <2> DEFINE p == ps[i]
  <2>1. p \in Page /\ pages'[i] = p /\ disk' = disk
    BY <1>1, <1>2
  <2>2. \/ disk[p] \in Texts /\ text'[i] = disk[p]
        \/ disk[p] \notin Texts /\ text'[i] = Whole(p)
        \/ /\ disk[p] \notin Texts /\ text'[i] = Blank
           /\ \E k \in n + 1 .. Len(c) : c[k] = p
    BY <1>1, <1>2, <1>4, PredictedTexts
  <2>3. disk[p].page \in {0, p} /\ (p \notin damaged => disk[p] \in {Absent, Whole(p)})
    BY <2>1 DEF PInv, OwnText, LossTraced
  <2>4. CASE disk[p] \in Texts /\ text'[i] = disk[p]
    BY <1>5, <2>1, <2>3, <2>4, TextKinds DEF Fits
  <2>5. CASE disk[p] \notin Texts /\ text'[i] = Whole(p)
    BY <2>1, <2>5, TextKinds DEF Fits
  <2>6. CASE disk[p] \notin Texts /\ text'[i] = Blank /\ \E k \in n + 1 .. Len(c) : c[k] = p
    <3>1. p \in damaged'
      BY <1>1, <2>6
    <3> QED
      BY <2>1, <2>6, <3>1, TextKinds DEF Fits
  <2> QED
    BY <2>2, <2>4, <2>5, <2>6
<1>7. TypeOK'
  <2>1. text' \in [DOMAIN ps -> Texts]
    <3>1. DOMAIN text' = DOMAIN ps /\ text' = [i \in DOMAIN ps |-> text'[i]]
      BY <1>1 DEF Predictions
    <3> QED
      BY <1>6, <3>1
  <2>2. written' \in 0 .. Len(pages')
    BY <1>1, <1>2
  <2> QED
    BY <1>1, <1>2, <1>5, <2>1, <2>2 DEF PInv, TypeOK
<1>8. Fitting'
  BY <1>1, <1>6 DEF Fitting
<1>9. Written'
  BY <1>1 DEF Written
<1>10. AnsweredKept' /\ OwnText' /\ LossTraced'
  BY <1>1, <1>5 DEF PInv, AnsweredKept, OwnText, LossTraced
<1> QED
  BY <1>1, <1>2, <1>7, <1>8, <1>9, <1>10 DEF PInv, Resting, NoTwice

(* A page file is written with a text that fits it: what was readable      *)
(* stays as it was, for this request and for the answers before it.        *)
LEMMA PWritePage ==
  ASSUME PInv, WritePage
  PROVE  PInv' /\ \A p \in Page : disk[p] \in Texts => disk'[p] = disk[p]
<1> DEFINE w == written + 1
           q == pages[w]
<1>1. /\ disk' = [disk EXCEPT ![q] = text[w]] /\ written' = w
      /\ UNCHANGED <<at, pages, text, given, damaged>> /\ at = "writing"
      /\ written < Len(pages)
  BY DEF WritePage, Writing
<1>2. /\ Len(pages) \in Nat /\ DOMAIN pages = 1 .. Len(pages) /\ written \in Nat
      /\ disk \in [Page -> Contents] /\ \A i \in DOMAIN pages : pages[i] \in Page
      /\ \A i \in DOMAIN pages : text[i] \in Texts
  BY LenProperties DEF PInv, TypeOK
<1>3. w \in DOMAIN pages /\ w \in 0 .. Len(pages) /\ 1 .. w = (1 .. written) \cup {w}
  BY <1>1, <1>2
<1>4. q \in Page /\ text[w] \in Texts /\ Fits(text[w], q)
  BY <1>2, <1>3 DEF PInv, Fitting
<1>5. \A p \in Page : disk'[p] = IF p = q THEN text[w] ELSE disk[p]
  BY <1>1, <1>2
<1> HIDE DEF q, w
<1>6. \A p \in Page : disk[p] \in Texts => disk'[p] = disk[p]
  BY <1>4, <1>5 DEF Fits
<1>7. TypeOK'
  <2>1. disk' \in [Page -> Contents]
    BY <1>1, <1>2, <1>4 DEF Contents
  <2> QED
    BY <1>1, <1>3, <2>1 DEF PInv, TypeOK
<1>8. Fitting'
  <2> SUFFICES ASSUME NEW i \in DOMAIN pages PROVE Fits(text[i], pages[i])'
    BY <1>1 DEF Fitting
  <2>1. Fits(text[i], pages[i]) /\ pages[i] \in Page
    BY <1>2 DEF PInv, Fitting
  <2>2. CASE pages[i] = q
    <3>1. i = w
      BY <1>3, <2>2 DEF PInv, NoTwice, q
    <3> QED
      BY <1>1, <1>5, <2>1, <2>2, <3>1 DEF Fits
  <2>3. CASE pages[i] # q
    BY <1>1, <1>5, <2>1, <2>3 DEF Fits
  <2> QED
    BY <2>2, <2>3
<1>9. Written'
  <2> SUFFICES ASSUME NEW i \in 1 .. w PROVE disk'[pages[i]] = text[i]
    BY <1>1 DEF Written
  <2>1. i \in DOMAIN pages /\ pages[i] \in Page
    BY <1>1, <1>2, <1>3
  <2>2. CASE i = w
    BY <1>4, <1>5, <2>2 DEF q
  <2>3. CASE i \in 1 .. written
    <3>1. disk[pages[i]] = text[i] /\ text[i] \in Texts
      BY <1>2, <2>1, <2>3 DEF PInv, Written
    <3> QED
      BY <1>6, <2>1, <3>1
  <2> QED
    BY <1>3, <2>2, <2>3
<1>10. AnsweredKept'
  <2> SUFFICES ASSUME NEW p \in Page, given[p] # Absent PROVE disk'[p] = given[p]
    BY <1>1 DEF AnsweredKept
  <2>1. disk[p] = given[p] /\ given[p] \in Texts
    BY DEF PInv, AnsweredKept, TypeOK
  <2> QED
    BY <1>6, <2>1
<1>11. OwnText' /\ LossTraced'
  BY <1>1, <1>4, <1>5 DEF PInv, OwnText, LossTraced, Fits
<1>12. Resting' /\ NoTwice(pages)'
  BY <1>1 DEF PInv, Resting, NoTwice
<1> QED
  BY <1>6, <1>7, <1>8, <1>9, <1>10, <1>11, <1>12 DEF PInv

(* After the request is gone, no page of it is left to fit anything. *)
LEMMA PDone ==
  ASSUME Done
  PROVE  /\ Resting' /\ NoTwice(pages)' /\ Fitting' /\ Written'
         /\ at' \in {"idle", "writing"} /\ pages' \in Seq(Page)
         /\ text' \in [DOMAIN pages' -> Texts] /\ written' \in 0 .. Len(pages')
<1>1. at' = "idle" /\ pages' = <<>> /\ text' = <<>> /\ written' = 0
  BY DEF Done
<1>2. pages' \in Seq(Page) /\ Len(pages') = 0 /\ DOMAIN pages' = {}
  BY <1>1, EmptySeq
<1>3. text' \in [DOMAIN pages' -> Texts] /\ written' \in 0 .. Len(pages')
  BY <1>1, <1>2
<1> QED
  BY <1>1, <1>2, <1>3 DEF Resting, NoTwice, Fitting, Written

(* When all page files are written, they are what is answered. *)
LEMMA PRespond ==
  ASSUME PInv, Respond
  PROVE  PInv'
<1> DEFINE Named(p) == \E i \in DOMAIN pages : pages[i] = p
           place(p) == CHOOSE i \in DOMAIN pages : pages[i] = p
<1>1. /\ given' = [p \in Page |-> IF Named(p) THEN text[place(p)] ELSE given[p]]
      /\ Done /\ disk' = disk /\ damaged' = damaged /\ written = Len(pages)
  BY DEF Respond
<1>2. DOMAIN pages = 1 .. written /\ \A i \in DOMAIN pages : text[i] \in Texts
  BY <1>1, LenProperties DEF PInv, TypeOK
<1>3. \A p \in Page : Named(p) =>
        /\ place(p) \in 1 .. written /\ pages[place(p)] = p
        /\ text[place(p)] \in Texts /\ disk[p] = text[place(p)]
        /\ Fits(text[place(p)], p)
  <2>1. \A p \in Page : Named(p) => place(p) \in DOMAIN pages /\ pages[place(p)] = p
    OBVIOUS
  <2> QED
    BY <1>2, <2>1 DEF PInv, Fitting, Written
<1> HIDE DEF Named, place
<1>4. \A p \in Page : given'[p] = IF Named(p) THEN text[place(p)] ELSE given[p]
  BY <1>1
<1>5. given' \in [Page -> Texts \cup {Absent}]
  BY <1>1, <1>3 DEF PInv, TypeOK
<1>6. TypeOK'
  BY <1>1, <1>5, PDone DEF PInv, TypeOK
<1>7. AnsweredKept'
  BY <1>1, <1>3, <1>4 DEF PInv, AnsweredKept
<1>8. OwnText'
  BY <1>1, <1>3, <1>4 DEF PInv, OwnText
<1>9. LossTraced'
  BY <1>1, <1>3, <1>4 DEF PInv, LossTraced, Fits
<1> QED
  BY <1>1, <1>6, <1>7, <1>8, <1>9, PDone DEF PInv

(* The page whose write is interrupted is damaged, and holds none but its  *)
(* own text; the others are left as they are.                              *)
LEMMA PInterrupt ==
  ASSUME PInv, Interrupt
  PROVE  PInv'
<1> DEFINE q == pages[written + 1]
<1>1. PICK c \in Torn(q, text[written + 1]) : disk' = [disk EXCEPT ![q] = c]
  BY DEF Interrupt
<1>2. /\ given' = [p \in Page |-> Absent] /\ damaged' = damaged \cup {q} /\ Done
      /\ written < Len(pages)
  BY DEF Interrupt, Writing
<1>3. q \in Page
  <2>1. Len(pages) \in Nat /\ DOMAIN pages = 1 .. Len(pages) /\ written \in Nat
    BY LenProperties DEF PInv, TypeOK
  <2>2. written + 1 \in DOMAIN pages
    BY <1>2, <2>1
  <2> QED
    BY <2>2 DEF PInv, TypeOK
<1>4. c \in {Blank, Begun(q), Cut}
  BY DEF Torn
<1>5. c \in Contents /\ c.page \in {0, q}
  BY <1>3, <1>4, TextKinds DEF Contents
<1> HIDE DEF q
<1>6. disk' \in [Page -> Contents] /\ \A p \in Page \ {q} : disk'[p] = disk[p]
  BY <1>1, <1>3, <1>5 DEF PInv, TypeOK
<1>7. disk'[q] = c
  BY <1>1, <1>3 DEF PInv, TypeOK
<1>8. TypeOK'
  BY <1>2, <1>3, <1>6, PDone DEF PInv, TypeOK
<1>9. AnsweredKept'
  BY <1>2 DEF AnsweredKept
<1>10. OwnText'
  BY <1>2, <1>5, <1>6, <1>7, TextKinds DEF PInv, OwnText
<1>11. LossTraced'
  BY <1>2, <1>6 DEF PInv, LossTraced
<1> QED
  BY <1>2, <1>8, <1>9, <1>10, <1>11, PDone DEF PInv

LEMMA PDie ==
  ASSUME PInv, Die
  PROVE  PInv'
<1>1. Done /\ UNCHANGED <<disk, given, damaged>>
  BY DEF Die
<1> QED
  BY <1>1, PDone DEF PInv, TypeOK, AnsweredKept, OwnText, LossTraced

LEMMA PNext == PInv /\ [Next]_vars => PInv'
<1> SUFFICES ASSUME PInv, [Next]_vars PROVE PInv'
  OBVIOUS
<1>1. CASE UNCHANGED vars
  BY <1>1 DEF vars, PInv, TypeOK, Resting, NoTwice, Fitting, Fits, Written, AnsweredKept,
              OwnText, LossTraced
<1>2. CASE \E r \in Ranges : Predict(r)
  BY <1>2, PPredict
<1>3. CASE WritePage
  BY <1>3, PWritePage
<1>4. CASE Respond
  BY <1>4, PRespond
<1>5. CASE Interrupt
  BY <1>5, PInterrupt
<1>6. CASE Die
  BY <1>6, PDie
<1> QED
  BY <1>1, <1>2, <1>3, <1>4, <1>5, <1>6 DEF Next

LEMMA PAlways == Spec => []PInv
BY PInit, PNext, PTL DEF Spec

(* The page directory and the running request stay well typed: each page   *)
(* has one prediction, and the write never runs past the last.             *)
THEOREM PagesTyped == Spec => []TypeOK
<1>1. PInv => TypeOK
  BY DEF PInv
<1> QED
  BY <1>1, PAlways, PTL

(* predict stores by page number what it numbers by place in the request,  *)
(* and computes only some places; the text never lands under another page. *)
THEOREM TextStaysWithItsPage == Spec => []OwnText
<1>1. PInv => OwnText
  BY DEF PInv
<1> QED
  BY <1>1, PAlways, PTL

(* A page that was drawn and written without interruption is whole in its  *)
(* file and in every answer, so that each loss goes back to a damaged page. *)
THEOREM LossesTraced == Spec => []LossTraced
<1>1. PInv => LossTraced
  BY DEF PInv
<1> QED
  BY <1>1, PAlways, PTL

(* What was read of a page stays what it is: predict writes all page files *)
(* again, and gives each readable one the text it has.                     *)
THEOREM ReadingsStand == Spec => NeverRevised
<1> DEFINE Stands ==
      \A p \in Page :
        /\ at' = "writing" /\ disk[p] \in Texts => disk'[p] = disk[p]
        /\ Absent \notin {given[p], given'[p]} => given'[p] = given[p]
<1>1. PInv /\ PInv' /\ [Next]_vars => [Stands]_vars
  <2> SUFFICES ASSUME PInv, PInv', Next, NEW p \in Page
               PROVE  /\ at' = "writing" /\ disk[p] \in Texts => disk'[p] = disk[p]
                      /\ Absent \notin {given[p], given'[p]} => given'[p] = given[p]
    OBVIOUS
  <2>1. CASE \E r \in Ranges : Predict(r)
    BY <2>1 DEF Predict
  <2>2. CASE WritePage
    <3>1. given' = given
      BY <2>2 DEF WritePage
    <3> QED
      BY <2>2, <3>1, PWritePage
  <2>3. CASE Respond
    <3>1. disk' = disk
      BY <2>3 DEF Respond
    <3>2. /\ given[p] # Absent => disk[p] = given[p]
          /\ given'[p] # Absent => disk'[p] = given'[p]
      BY DEF PInv, AnsweredKept
    <3> QED
      BY <3>1, <3>2
  <2>4. CASE Interrupt
    BY <2>4 DEF Interrupt, Done
  <2>5. CASE Die
    BY <2>5 DEF Die
  <2> QED
    BY <2>1, <2>2, <2>3, <2>4, <2>5 DEF Next
<1>2. Spec => [][Stands]_vars
  BY <1>1, PAlways, PTL DEF Spec
<1> QED
  BY <1>2 DEF NeverRevised
=============================================================================
