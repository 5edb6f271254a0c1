-------------------------- MODULE StopText_proofs --------------------------
(***************************************************************************)
(* Theorems about StopText for any tokens, stop words and limits.          *)
(***************************************************************************)
EXTENDS StopText, Subsequences_proofs
-----------------------------------------------------------------------------
(***************************************************************************)
(* Searching, place by place.                                              *)
(***************************************************************************)
(* The word is in the text at p; the text from q on is the beginning of    *)
(* the word, or all of it.                                                 *)
Found(word, text, p) ==
  /\ p + Len(word) - 1 <= Len(text)
  /\ \A j \in 1 .. Len(word) : text[p + j - 1] = word[j]

Opens(word, text, q) ==
  /\ Len(text) + 1 - q <= Len(word)
  /\ \A j \in 1 .. Len(text) + 1 - q : text[q + j - 1] = word[j]

(* A nonempty finite set of naturals has a smallest element. *)
LEMMA MinIs ==
  ASSUME NEW S \in SUBSET Nat, IsFiniteSet(S), S # {}
  PROVE  Min(S) \in S /\ \A y \in S : Min(S) <= y
<1>1. \E x \in S : \A y \in S : x <= y
  BY LeastElement
<1> QED
  BY <1>1 DEF Min

LEMMA MinOfTwo ==
  ASSUME NEW a \in Int, NEW b \in Int, a <= b
  PROVE  Min({a, b}) = a
BY DEF Min

LEMMA AtLeastZero ==
  ASSUME NEW a \in Int
  PROVE  Max({a, 0}) = IF a <= 0 THEN 0 ELSE a
BY DEF Max

(* The parts of a text. *)
LEMMA PartIs ==
  ASSUME NEW text \in Seq(Byte), NEW m \in 1 .. Len(text) + 1, NEW n \in m - 1 .. Len(text)
  PROVE  /\ SubSeq(text, m, n) \in Seq(Byte)
         /\ Len(SubSeq(text, m, n)) = n + 1 - m
         /\ DOMAIN SubSeq(text, m, n) = 1 .. n + 1 - m
         /\ \A i \in 1 .. n + 1 - m : SubSeq(text, m, n)[i] = text[m + i - 1]
<1>1. Len(text) \in Nat /\ \A i \in 1 .. Len(text) : text[i] \in Byte
  BY LenProperties, ElementOfSeq
<1>2. m \in Int /\ n \in Int /\ \A i \in m .. n : text[i] \in Byte
  BY <1>1
<1>3. /\ SubSeq(text, m, n) \in Seq(Byte)
      /\ Len(SubSeq(text, m, n)) = IF m <= n THEN n - m + 1 ELSE 0
      /\ \A i \in 1 .. n - m + 1 : SubSeq(text, m, n)[i] = text[m + i - 1]
  BY <1>2, SubSeqProperties
<1>4. Len(SubSeq(text, m, n)) = n + 1 - m /\ n - m + 1 = n + 1 - m
  BY <1>1, <1>3
<1> QED
  BY <1>3, <1>4, LenProperties

(* Equal length and equal bytes make equal texts. *)
LEMMA SameText ==
  ASSUME NEW s \in Seq(Byte), NEW t \in Seq(Byte)
  PROVE  s = t <=> Len(s) = Len(t) /\ \A j \in 1 .. Len(s) : s[j] = t[j]
BY SeqEqual

LEMMA PrefixIs ==
  ASSUME NEW s \in Seq(Byte), NEW t \in Seq(Byte)
  PROVE  IsPrefix(s, t) <=> Len(s) <= Len(t) /\ \A j \in 1 .. Len(s) : s[j] = t[j]
<1>1. Len(s) \in Nat /\ Len(t) \in Nat
  BY LenProperties
<1>2. CASE Len(s) <= Len(t)
  <2> DEFINE a == SubSeq(s, 1, Len(s))
             b == SubSeq(t, 1, Len(s))
  <2>1. a \in Seq(Byte) /\ Len(a) = Len(s) /\ \A j \in 1 .. Len(s) : a[j] = s[j]
    BY <1>1, PartIs
  <2>2. b \in Seq(Byte) /\ Len(b) = Len(s) /\ \A j \in 1 .. Len(s) : b[j] = t[j]
    BY <1>1, <1>2, PartIs
  <2>3. IsPrefix(s, t) <=> a = b
    BY <1>2 DEF IsPrefix
  <2> HIDE DEF a, b
  <2> QED
    BY <1>2, <2>1, <2>2, <2>3, SameText
<1>3. CASE ~(Len(s) <= Len(t))
  BY <1>3 DEF IsPrefix
<1> QED
  BY <1>2, <1>3

(* find: the occurrences are the places where the word is. *)
LEMMA OccurrencesAre ==
  ASSUME NEW word \in Seq(Byte), word # <<>>, NEW text \in Seq(Byte), NEW first \in Nat \ {0}
  PROVE  Occurrences(word, text, first) =
           {p \in 1 .. Len(text) : p >= first /\ Found(word, text, p)}
<1>1. Len(text) \in Nat /\ Len(word) \in Nat \ {0}
  BY LenProperties, EmptySeq
<1>2. ASSUME NEW p \in 1 .. Len(text) + 1 - Len(word)
      PROVE  SubSeq(text, p, p + Len(word) - 1) = word <=> Found(word, text, p)
  <2> DEFINE a == SubSeq(text, p, p + Len(word) - 1)
  <2>1. /\ a \in Seq(Byte) /\ Len(a) = Len(word)
        /\ \A j \in 1 .. Len(word) : a[j] = text[p + j - 1]
    BY <1>1, PartIs
  <2>2. p + Len(word) - 1 <= Len(text)
    BY <1>1
  <2> HIDE DEF a
  <2>3. a = word <=> \A j \in 1 .. Len(word) : a[j] = word[j]
    BY <2>1, SameText
  <2>4. a = word <=> Found(word, text, p)
    BY <2>1, <2>2, <2>3 DEF Found
  <2> QED
    BY <2>4 DEF a
<1>3. \A p \in first .. Len(text) + 1 - Len(word) : p \in 1 .. Len(text) + 1 - Len(word) /\ p >= first
  BY <1>1
<1>4. \A p \in 1 .. Len(text) : p >= first /\ Found(word, text, p) =>
        p \in first .. Len(text) + 1 - Len(word)
  BY <1>1 DEF Found
<1>5. \A p \in first .. Len(text) + 1 - Len(word) : p \in 1 .. Len(text)
  BY <1>1
<1> QED
  BY <1>2, <1>3, <1>4, <1>5 DEF Occurrences

(* find_partial_stop_string: the end of the text opens a word. *)
LEMMA PartialStopIs ==
  ASSUME NEW text \in Seq(Byte)
  PROVE  PartialStop(text) <=>
           \E word \in StopWords : \E q \in 1 .. Len(text) : Opens(word, text, q)
<1> SUFFICES ASSUME NEW word \in StopWords
             PROVE  (\E k \in DOMAIN word : IsSuffix(SubSeq(word, 1, k), text))
                      <=> \E q \in 1 .. Len(text) : Opens(word, text, q)
  BY DEF PartialStop
<1>1. /\ word \in Seq(Byte) /\ Len(word) \in Nat /\ DOMAIN word = 1 .. Len(word)
      /\ Len(text) \in Nat
  BY TextAssumption, LenProperties
<1>2. \A s, t \in Seq(Byte) :
        /\ Reverse(s) \in Seq(Byte) /\ Len(Reverse(s)) = Len(s)
        /\ \A i \in 1 .. Len(s) : Reverse(s)[i] = s[Len(s) - i + 1]
  <2> TAKE s, t \in Seq(Byte)
  <2>1. Len(s) \in Nat /\ \A i \in 1 .. Len(s) : s[i] \in Byte
    BY LenProperties, ElementOfSeq
  <2>2. \A i \in 1 .. Len(s) : Len(s) - i + 1 \in 1 .. Len(s)
    BY <2>1
  <2>3. /\ Reverse(s) \in [1 .. Len(s) -> Byte]
        /\ \A i \in 1 .. Len(s) : Reverse(s)[i] = s[Len(s) - i + 1]
    BY <2>1, <2>2 DEF Reverse
  <2>4. Reverse(s) \in Seq(Byte) /\ Len(Reverse(s)) = Len(s)
    <3>1. Reverse(s) \in Seq(Byte)
      BY <2>1, <2>3, SeqDef
    <3>2. DOMAIN Reverse(s) = 1 .. Len(s)
      BY <2>3
    <3> QED
      BY <2>1, <3>1, <3>2, LenProperties
  <2> QED
    BY <2>3, <2>4
<1>3. ASSUME NEW k \in 1 .. Len(word)
      PROVE  IsSuffix(SubSeq(word, 1, k), text) <=>
               k <= Len(text) /\ Opens(word, text, Len(text) + 1 - k)
  <2> DEFINE a == SubSeq(word, 1, k)
             q == Len(text) + 1 - k
  <2>1. a \in Seq(Byte) /\ Len(a) = k /\ \A j \in 1 .. k : a[j] = word[j]
    BY <1>1, PartIs
  <2>2. IsSuffix(a, text) <=>
          k <= Len(text) /\ \A j \in 1 .. k : Reverse(a)[j] = Reverse(text)[j]
    <3> HIDE DEF a
    <3>1. /\ Reverse(a) \in Seq(Byte) /\ Len(Reverse(a)) = k
          /\ Reverse(text) \in Seq(Byte) /\ Len(Reverse(text)) = Len(text)
      BY <1>2, <2>1
    <3> QED
      BY <3>1, PrefixIs DEF IsSuffix
  <2>3. ASSUME k <= Len(text)
        PROVE  (\A j \in 1 .. k : Reverse(a)[j] = Reverse(text)[j]) <=> Opens(word, text, q)
    <3> HIDE DEF a
    <3>1. \A j \in 1 .. k : /\ Reverse(a)[j] = word[k + 1 - j]
                            /\ Reverse(text)[j] = text[Len(text) + 1 - j]
      <4> TAKE j \in 1 .. k
      <4>1. k - j + 1 \in 1 .. k /\ k - j + 1 = k + 1 - j /\ j \in 1 .. Len(text)
            /\ Len(text) - j + 1 = Len(text) + 1 - j
        BY <1>1, <2>3
      <4>2. Reverse(a)[j] = a[k - j + 1] /\ Reverse(text)[j] = text[Len(text) - j + 1]
        BY <1>2, <2>1, <4>1
      <4> QED
        BY <2>1, <4>1, <4>2
    <3>2. \A j \in 1 .. k : /\ k + 1 - j \in 1 .. k /\ k + 1 - (k + 1 - j) = j
                            /\ q + (k + 1 - j) - 1 = Len(text) + 1 - j
      BY <1>1
    <3>3. Opens(word, text, q) <=> \A j \in 1 .. k : text[q + j - 1] = word[j]
      <4>1. Len(text) + 1 - q = k
        BY <1>1
      <4> QED
        BY <4>1 DEF Opens
    <3>4. (\A j \in 1 .. k : text[q + j - 1] = word[j]) <=>
            \A j \in 1 .. k : text[q + (k + 1 - j) - 1] = word[k + 1 - j]
      BY <3>2
    <3>5. (\A j \in 1 .. k : Reverse(a)[j] = Reverse(text)[j]) <=>
            \A j \in 1 .. k : text[Len(text) + 1 - j] = word[k + 1 - j]
      BY <3>1
    <3>6. \A j \in 1 .. k : q + (k + 1 - j) - 1 = Len(text) + 1 - j
      BY <3>2
    <3> HIDE DEF q
    <3>7. (\A j \in 1 .. k : text[q + (k + 1 - j) - 1] = word[k + 1 - j]) <=>
            \A j \in 1 .. k : text[Len(text) + 1 - j] = word[k + 1 - j]
      BY <3>6
    <3> QED
      BY <3>3, <3>4, <3>5, <3>7
  <2> QED
    BY <2>2, <2>3
<1>4. \A k \in 1 .. Len(word) : k <= Len(text) => Len(text) + 1 - k \in 1 .. Len(text)
  BY <1>1
<1>5. \A q \in 1 .. Len(text) : Opens(word, text, q) =>
        /\ Len(text) + 1 - q \in 1 .. Len(word) /\ Len(text) + 1 - q <= Len(text)
        /\ Len(text) + 1 - (Len(text) + 1 - q) = q
  BY <1>1 DEF Opens
<1>6. ASSUME NEW k \in DOMAIN word, IsSuffix(SubSeq(word, 1, k), text)
      PROVE  \E q \in 1 .. Len(text) : Opens(word, text, q)
  <2>1. k \in 1 .. Len(word)
    BY <1>1
  <2>2. k <= Len(text) /\ Opens(word, text, Len(text) + 1 - k)
    BY <1>3, <1>6, <2>1
  <2>3. Len(text) + 1 - k \in 1 .. Len(text)
    BY <1>4, <2>1, <2>2
  <2> QED
    BY <2>2, <2>3
<1>7. ASSUME NEW q \in 1 .. Len(text), Opens(word, text, q)
      PROVE  \E k \in DOMAIN word : IsSuffix(SubSeq(word, 1, k), text)
  <2>1. PICK k : k = Len(text) + 1 - q
    OBVIOUS
  <2>2. k \in 1 .. Len(word) /\ k <= Len(text) /\ Len(text) + 1 - k = q
    BY <1>5, <1>7, <2>1
  <2>3. IsSuffix(SubSeq(word, 1, k), text)
    BY <1>3, <1>7, <2>2
  <2> QED
    BY <1>1, <2>2, <2>3
<1> QED
  BY <1>6, <1>7
-----------------------------------------------------------------------------
(***************************************************************************)
(* What is known of a text that grows by tokens.                           *)
(***************************************************************************)
(* No stop word is in the text, or can still come of what begins in its    *)
(* first n bytes.                                                          *)
NoStop(text) == \A word \in StopWords : \A p \in 1 .. Len(text) : ~Found(word, text, p)

Safe(text, n) == \A word \in StopWords : \A q \in 1 .. n : ~Opens(word, text, q)

LEMMA Bytes == \A b : BytesOf(b) \in {1, 2, 3}
BY DEF BytesOf

LEMMA StopWordIs ==
  ASSUME NEW word \in StopWords
  PROVE  /\ word \in Seq(Byte) /\ word # <<>> /\ Len(word) \in Nat \ {0}
         /\ word[1] # Continuation
         /\ \A i \in 1 .. Len(word) : i - 1 + BytesOf(word[i]) <= Len(word)
<1>1. word \in Seq(Byte) /\ word # <<>> /\ word[1] # Continuation /\ EndsWhole(word)
  BY TextAssumption
<1>2. Len(word) \in Nat \ {0} /\ DOMAIN word = 1 .. Len(word)
  BY <1>1, LenProperties, EmptySeq
<1> QED
  BY <1>1, <1>2 DEF EndsWhole

LEMMA Grown ==
  ASSUME NEW T \in Seq(Byte), NEW token \in Seq(Byte)
  PROVE  /\ T \o token \in Seq(Byte) /\ Len(T \o token) = Len(T) + Len(token)
         /\ Len(T) \in Nat /\ Len(token) \in Nat
         /\ \A i \in 1 .. Len(T) : (T \o token)[i] = T[i]
         /\ \A i \in 1 .. Len(token) : (T \o token)[Len(T) + i] = token[i]
<1>1. /\ T \o token \in Seq(Byte) /\ Len(T \o token) = Len(T) + Len(token)
      /\ \A i \in 1 .. Len(T) + Len(token) :
           (T \o token)[i] = IF i <= Len(T) THEN T[i] ELSE token[i - Len(T)]
      /\ Len(T) \in Nat /\ Len(token) \in Nat
  BY ConcatProperties, LenProperties
<1>2. \A i \in 1 .. Len(T) : i \in 1 .. Len(T) + Len(token) /\ i <= Len(T)
  BY <1>1
<1>3. \A i \in 1 .. Len(token) : /\ Len(T) + i \in 1 .. Len(T) + Len(token)
                                 /\ ~(Len(T) + i <= Len(T)) /\ (Len(T) + i) - Len(T) = i
  BY <1>1
<1>4. \A i \in 1 .. Len(token) : (T \o token)[Len(T) + i] = token[(Len(T) + i) - Len(T)]
  BY <1>1, <1>3
<1> QED
  BY <1>1, <1>2, <1>3, <1>4

(* validate_utf8 looks at four bytes, and that is enough. *)
LEMMA IncompleteIs ==
  ASSUME NEW text \in Seq(Byte)
  PROVE  Incomplete(text) <=> ~EndsWhole(text)
<1>1. Len(text) \in Nat /\ DOMAIN text = 1 .. Len(text)
  BY LenProperties
<1>2. ASSUME NEW i \in 1 .. 4, i <= Len(text), BytesOf(text[Len(text) + 1 - i]) > i
      PROVE  ~EndsWhole(text)
  <2>1. PICK l : l = Len(text) + 1 - i
    OBVIOUS
  <2>2. l \in 1 .. Len(text) /\ i = Len(text) + 1 - l
    BY <1>1, <1>2, <2>1
  <2>3. BytesOf(text[l]) \in {1, 2, 3} /\ BytesOf(text[l]) > i
    BY <1>2, <2>1, Bytes
  <2>4. ~(l - 1 + BytesOf(text[l]) <= Len(text))
    BY <1>1, <2>2, <2>3
  <2> QED
    BY <1>1, <2>2, <2>4 DEF EndsWhole
<1>3. ASSUME NEW l \in 1 .. Len(text), ~(l - 1 + BytesOf(text[l]) <= Len(text))
      PROVE  Incomplete(text)
  <2>1. PICK i : i = Len(text) + 1 - l
    OBVIOUS
  <2>2. BytesOf(text[l]) \in {1, 2, 3}
    BY Bytes
  <2>3. i \in 1 .. 4 /\ i <= Len(text) /\ l = Len(text) + 1 - i /\ BytesOf(text[l]) > i
    BY <1>1, <1>3, <2>1, <2>2
  <2> QED
    BY <2>3 DEF Incomplete
<1> QED
  BY <1>1, <1>2, <1>3 DEF EndsWhole, Incomplete

(* More text takes nothing back. *)
LEMMA StaysSafe ==
  ASSUME NEW T \in Seq(Byte), NEW token \in Seq(Byte), NEW n \in 0 .. Len(T), Safe(T, n)
  PROVE  Safe(T \o token, n)
<1> DEFINE U == T \o token
<1>1. /\ Len(U) = Len(T) + Len(token) /\ Len(T) \in Nat /\ Len(token) \in Nat
      /\ \A i \in 1 .. Len(T) : U[i] = T[i]
  BY Grown
<1> HIDE DEF U
<1>2. ASSUME NEW word \in StopWords, NEW q \in 1 .. n, Opens(word, U, q)
      PROVE  FALSE
  <2>1. Len(word) \in Nat
    BY StopWordIs
  <2>2. Len(T) + 1 - q <= Len(word)
    BY <1>1, <1>2, <2>1 DEF Opens
  <2>3. \A j \in 1 .. Len(T) + 1 - q : j \in 1 .. Len(U) + 1 - q /\ q + j - 1 \in 1 .. Len(T)
    BY <1>1
  <2>4. \A j \in 1 .. Len(T) + 1 - q : T[q + j - 1] = word[j]
    BY <1>1, <1>2, <2>3 DEF Opens
  <2> QED
    BY <2>2, <2>4 DEF Safe, Opens
<1>3. Safe(U, n)
  BY <1>2 DEF Safe
<1> QED
  BY <1>3 DEF U

(* A stop word that is new begins behind what is safe and ends in the last *)
(* token.                                                                  *)
LEMMA StopsAreNew ==
  ASSUME NEW T \in Seq(Byte), NEW token \in Seq(Byte), NEW n \in 0 .. Len(T),
         Safe(T, n), NoStop(T),
         NEW word \in StopWords, NEW p \in 1 .. Len(T \o token), Found(word, T \o token, p)
  PROVE  p > n /\ p + Len(word) - 1 > Len(T)
<1> DEFINE U == T \o token
<1>1. /\ Len(U) = Len(T) + Len(token) /\ Len(T) \in Nat /\ Len(token) \in Nat
      /\ \A i \in 1 .. Len(T) : U[i] = T[i]
  BY Grown
<1>2. Len(word) \in Nat \ {0}
  BY StopWordIs
<1>3. /\ p + Len(word) - 1 <= Len(U)
      /\ \A j \in 1 .. Len(word) : U[p + j - 1] = word[j]
  BY DEF Found
<1> HIDE DEF U
<1>4. p \in Nat \ {0}
  OBVIOUS
<1>5. p + Len(word) - 1 > Len(T)
  <2> SUFFICES ASSUME p + Len(word) - 1 <= Len(T) PROVE FALSE
    BY <1>1, <1>2, <1>4
  <2>1. \A j \in 1 .. Len(word) : p + j - 1 \in 1 .. Len(T)
    BY <1>1, <1>2, <1>4
  <2>2. \A j \in 1 .. Len(word) : T[p + j - 1] = word[j]
    BY <1>1, <1>3, <2>1
  <2>3. p \in 1 .. Len(T)
    BY <1>1, <1>2, <1>4
  <2> QED
    BY <2>2, <2>3 DEF NoStop, Found
<1>6. p > n
  <2> SUFFICES ASSUME p <= n PROVE FALSE
    BY <1>1, <1>4
  <2>1. Len(T) + 1 - p <= Len(word) /\ p \in 1 .. n
    BY <1>1, <1>2, <1>4, <1>5
  <2>2. \A j \in 1 .. Len(T) + 1 - p : j \in 1 .. Len(word) /\ p + j - 1 \in 1 .. Len(T)
    BY <1>1, <1>2, <1>4, <2>1
  <2>3. \A j \in 1 .. Len(T) + 1 - p : T[p + j - 1] = word[j]
    BY <1>1, <1>3, <2>2
  <2> QED
    BY <2>1, <2>3 DEF Safe, Opens
<1> QED
  BY <1>5, <1>6

(***************************************************************************)
(* While the text ends inside a character no stop word is searched, and if *)
(* the tokens spell characters there is none to be found: a word that ends *)
(* in the last token would have to begin with a continuation byte, or to   *)
(* end inside a character, or to stand before one in the same token.       *)
(***************************************************************************)
LEMMA NoneUnsearched ==
  ASSUME NEW T \in Seq(Byte), NEW token \in Seq(Byte), NEW n \in 0 .. Len(T),
         Safe(T, n), NoStop(T),
         Incomplete(T \o token), WellFormed(T \o token),
         ~(Len(token) > 1 /\ Incomplete(token))
  PROVE  NoStop(T \o token)
<1> DEFINE U == T \o token
<1> SUFFICES ASSUME NEW word \in StopWords, NEW p \in 1 .. Len(U), Found(word, U, p)
             PROVE  FALSE
  BY DEF NoStop
<1>1. /\ U \in Seq(Byte) /\ Len(U) = Len(T) + Len(token)
      /\ Len(T) \in Nat /\ Len(token) \in Nat
      /\ \A i \in 1 .. Len(token) : U[Len(T) + i] = token[i]
      /\ DOMAIN U = 1 .. Len(U) /\ DOMAIN token = 1 .. Len(token)
  BY Grown, LenProperties
<1>2. /\ Len(word) \in Nat \ {0} /\ word[1] # Continuation
      /\ \A i \in 1 .. Len(word) : i - 1 + BytesOf(word[i]) <= Len(word)
  BY StopWordIs
<1>3. p + Len(word) - 1 > Len(T)
  BY StopsAreNew
<1>4. /\ p + Len(word) - 1 <= Len(U)
      /\ \A j \in 1 .. Len(word) : U[p + j - 1] = word[j]
  BY DEF Found
<1>5. PICK l \in 1 .. Len(U) : ~(l - 1 + BytesOf(U[l]) <= Len(U))
  BY <1>1, IncompleteIs DEF EndsWhole
<1>6. PICK b \in {1, 2, 3} : b = BytesOf(U[l])
  BY Bytes
<1>7. \A j \in 1 .. Len(U) : j > l => U[j] = Continuation
  <2>1. \A j \in 1 .. Len(U) : j > l => j \in l + 1 .. l - 1 + BytesOf(U[l])
    BY <1>1, <1>5, <1>6
  <2> QED
    BY <1>1, <2>1 DEF WellFormed
<1> HIDE DEF U
<1>8. CASE p > l
  <2>1. U[p] = word[1]
    <3>1. U[p + 1 - 1] = word[1]
      BY <1>2, <1>4
    <3> QED
      BY <3>1
  <2> QED
    BY <1>2, <1>7, <1>8, <2>1
<1>9. CASE p <= l /\ l <= p + Len(word) - 1
  <2>1. PICK i : i = l - p + 1
    OBVIOUS
  <2>2. i \in 1 .. Len(word) /\ p + i - 1 = l
    BY <1>2, <1>9, <2>1
  <2>3. BytesOf(word[i]) = b
    BY <1>4, <1>6, <2>2
  <2>4. i - 1 + b <= Len(word)
    BY <1>2, <2>2, <2>3
  <2> QED
    BY <1>1, <1>2, <1>4, <1>5, <1>6, <2>2, <2>4
<1>10. CASE p + Len(word) - 1 < l
  <2>1. PICK i : i = l - Len(T)
    OBVIOUS
  <2>2. i \in 1 .. Len(token) /\ l = Len(T) + i /\ Len(token) > 1
    BY <1>1, <1>2, <1>3, <1>10, <2>1
  <2>3. BytesOf(token[i]) = b
    BY <1>1, <1>6, <2>2
  <2>4. ~(i - 1 + BytesOf(token[i]) <= Len(token))
    BY <1>1, <1>5, <1>6, <2>2, <2>3
  <2>5. Incomplete(token)
    BY <1>1, <2>2, <2>4, IncompleteIs DEF EndsWhole
  <2> QED
    BY <2>2, <2>5
<1> QED
  BY <1>1, <1>2, <1>8, <1>9, <1>10

(* The full search in what follows the first n bytes. *)
LEMMA FullStopsAre ==
  ASSUME NEW U \in Seq(Byte), NEW n \in 0 .. Len(U), NEW last \in Nat
  PROVE  LET test == From(U, n + 1)
         IN  FullStops(test, last) =
               {p \in 1 .. Len(U) - n :
                  \E word \in StopWords :
                    /\ Found(word, U, n + p)
                    /\ p + Len(word) + last > Len(U) - n}
<1> DEFINE test == From(U, n + 1)
           first(word) == Max({Len(test) - Len(word) - last, 0}) + 1
<1>1. Len(U) \in Nat
  BY LenProperties
<1>2. /\ test \in Seq(Byte) /\ Len(test) = Len(U) - n
      /\ \A i \in 1 .. Len(U) - n : test[i] = U[n + i]
  <2>1. n + 1 \in 1 .. Len(U) + 1 /\ Len(U) \in n + 1 - 1 .. Len(U)
    BY <1>1
  <2>2. /\ test \in Seq(Byte) /\ Len(test) = Len(U) + 1 - (n + 1)
        /\ \A i \in 1 .. Len(U) + 1 - (n + 1) : test[i] = U[n + 1 + i - 1]
    BY <2>1, PartIs DEF From
  <2>3. Len(U) + 1 - (n + 1) = Len(U) - n /\ \A i \in 1 .. Len(U) - n : n + 1 + i - 1 = n + i
    BY <1>1
  <2> QED
    BY <2>2, <2>3
<1> HIDE DEF test
<1>3. ASSUME NEW word \in StopWords
      PROVE  /\ first(word) \in Nat \ {0}
             /\ \A p \in 1 .. Len(test) :
                  p >= first(word) <=> p + Len(word) + last > Len(U) - n
  <2>1. Len(word) \in Nat /\ Len(test) \in Nat
    BY <1>1, <1>2, StopWordIs
  <2>2. PICK d \in Int : d = Len(test) - Len(word) - last
    <3>1. Len(test) - Len(word) - last \in Int
      BY <2>1
    <3> HIDE DEF first
    <3> QED
      BY <3>1
  <2>3. Max({d, 0}) = IF d <= 0 THEN 0 ELSE d
    BY AtLeastZero
  <2>4. first(word) = IF d <= 0 THEN 1 ELSE d + 1
    <3>1. first(word) = Max({d, 0}) + 1
      BY <2>2
    <3> HIDE DEF first
    <3> QED
      BY <2>3, <3>1
  <2> HIDE DEF first
  <2>5. first(word) \in Nat \ {0}
    BY <2>4
  <2>6. \A p \in 1 .. Len(test) : p >= first(word) <=> p >= d + 1
    BY <2>1, <2>4
  <2>7. \A p \in 1 .. Len(test) : p >= d + 1 <=> p + Len(word) + last > Len(U) - n
    BY <1>1, <1>2, <2>1, <2>2
  <2> QED
    BY <2>5, <2>6, <2>7
<1>4. ASSUME NEW word \in StopWords, NEW p \in 1 .. Len(test)
      PROVE  Found(word, test, p) <=> Found(word, U, n + p)
  <2>1. Len(word) \in Nat
    BY StopWordIs
  <2>2. p + Len(word) - 1 <= Len(test) <=> n + p + Len(word) - 1 <= Len(U)
    BY <1>1, <1>2, <2>1
  <2>3. ASSUME p + Len(word) - 1 <= Len(test), NEW j \in 1 .. Len(word)
        PROVE  test[p + j - 1] = U[n + p + j - 1]
    <3>1. p + j - 1 \in 1 .. Len(U) - n /\ n + (p + j - 1) = n + p + j - 1
      BY <1>1, <1>2, <2>1, <2>3
    <3> QED
      BY <1>2, <3>1
  <2> QED
    BY <2>2, <2>3 DEF Found
<1>5. \A word \in StopWords :
        Occurrences(word, test, first(word)) =
          {p \in 1 .. Len(test) : p >= first(word) /\ Found(word, test, p)}
  BY <1>2, <1>3, OccurrencesAre, StopWordIs
<1> HIDE DEF first
<1>6. \A word \in StopWords :
        Occurrences(word, test, first(word)) =
          {p \in 1 .. Len(U) - n : Found(word, U, n + p) /\ p + Len(word) + last > Len(U) - n}
  BY <1>2, <1>3, <1>4, <1>5
<1>7. FullStops(test, last) = UNION {Occurrences(word, test, first(word)) : word \in StopWords}
  BY DEF FullStops, first
<1> QED
  BY <1>6, <1>7 DEF test

(* If no stop word was there before the last token, every one that is      *)
(* there now is found.                                                     *)
LEMMA SearchIsComplete ==
  ASSUME NEW T \in Seq(Byte), NEW token \in Seq(Byte), NEW n \in 0 .. Len(T),
         Safe(T, n), NoStop(T),
         NEW word \in StopWords, NEW p \in 1 .. Len(T \o token), Found(word, T \o token, p)
  PROVE  p > n /\ p - n \in FullStops(From(T \o token, n + 1), Len(token))
<1> DEFINE U == T \o token
<1>1. /\ U \in Seq(Byte) /\ Len(U) = Len(T) + Len(token)
      /\ Len(T) \in Nat /\ Len(token) \in Nat
  BY Grown
<1>2. p > n /\ p + Len(word) - 1 > Len(T) /\ Len(word) \in Nat
  BY StopsAreNew, StopWordIs
<1>3. n \in 0 .. Len(U)
  BY <1>1
<1>4. FullStops(From(U, n + 1), Len(token)) =
        {q \in 1 .. Len(U) - n :
           \E w \in StopWords : Found(w, U, n + q) /\ q + Len(w) + Len(token) > Len(U) - n}
  <2> HIDE DEF U
  <2>1. PICK last \in Nat : last = Len(token)
    BY <1>1
  <2>2. \A l \in Nat :
          FullStops(From(U, n + 1), l) =
            {q \in 1 .. Len(U) - n :
               \E w \in StopWords : Found(w, U, n + q) /\ q + Len(w) + l > Len(U) - n}
    BY <1>1, <1>3, FullStopsAre, Zenon
  <2> QED
    BY <2>1, <2>2
<1>5. PICK q : q = p - n
  OBVIOUS
<1>6. /\ q \in 1 .. Len(U) - n /\ n + q = p
      /\ q + Len(word) + Len(token) > Len(U) - n
  BY <1>1, <1>2, <1>5
<1>7. q \in FullStops(From(U, n + 1), Len(token))
  <2> HIDE DEF U
  <2>1. Found(word, U, n + q)
    BY <1>6 DEF U
  <2> QED
    BY <1>4, <1>6, <2>1
<1> QED
  BY <1>2, <1>5, <1>7

(* The reference, when there is no stop word and when the first is at p. *)
LEMMA BeforeStopIs ==
  ASSUME NEW text \in Seq(Byte)
  PROVE  /\ NoStop(text) => BeforeStop(text) = text
         /\ \A p \in 1 .. Len(text) :
              /\ \E word \in StopWords : Found(word, text, p)
              /\ \A word \in StopWords : \A q \in 1 .. Len(text) : Found(word, text, q) => p <= q
              => BeforeStop(text) = SubSeq(text, 1, p - 1)
<1> DEFINE stops == UNION {Occurrences(word, text, 1) : word \in StopWords}
<1>1. Len(text) \in Nat
  BY LenProperties
<1>2. \A word \in StopWords :
        Occurrences(word, text, 1) = {p \in 1 .. Len(text) : p >= 1 /\ Found(word, text, p)}
  BY OccurrencesAre, StopWordIs
<1>3. \A p : p \in stops <=> p \in 1 .. Len(text) /\ \E word \in StopWords : Found(word, text, p)
  BY <1>2
<1>4. BeforeStop(text) = IF stops = {} THEN text ELSE SubSeq(text, 1, Min(stops) - 1)
  BY DEF BeforeStop
<1> HIDE DEF stops
<1>5. ASSUME NoStop(text) PROVE BeforeStop(text) = text
  <2>1. stops = {}
    BY <1>3, <1>5 DEF NoStop
  <2> QED
    BY <1>4, <2>1
<1>6. ASSUME NEW p \in 1 .. Len(text),
             \E word \in StopWords : Found(word, text, p),
             \A word \in StopWords : \A q \in 1 .. Len(text) : Found(word, text, q) => p <= q
      PROVE  BeforeStop(text) = SubSeq(text, 1, p - 1)
  <2>1. p \in stops /\ \A q \in stops : p <= q
    BY <1>3, <1>6
  <2>2. stops \in SUBSET Nat /\ IsFiniteSet(stops)
    <3>1. stops \in SUBSET (1 .. Len(text)) /\ IsFiniteSet(1 .. Len(text))
      BY <1>1, <1>3, FS_Interval
    <3>2. IsFiniteSet(stops)
      BY <3>1, FS_Subset
    <3>3. stops \in SUBSET Nat
      BY <3>1
    <3> QED
      BY <3>2, <3>3
  <2>3. Min(stops) \in stops /\ Min(stops) <= p
    BY <2>1, <2>2, MinIs
  <2>4. Min(stops) = p
    <3>1. PICK m \in stops : m = Min(stops)
      BY <2>3
    <3>2. m \in Nat /\ p <= m /\ m <= p
      BY <2>1, <2>2, <2>3, <3>1
    <3> QED
      BY <3>1, <3>2
  <2>5. stops # {}
    BY <2>1
  <2> QED
    BY <1>4, <2>4, <2>5
<1> QED
  BY <1>5, <1>6

(* What is sent is whole: the text in front of a stop word cuts no         *)
(* character, because stop words begin with one.                           *)
LEMMA CutIsWhole ==
  ASSUME NEW U \in Seq(Byte), WellFormed(U), NEW word \in StopWords,
         NEW p \in 1 .. Len(U), Found(word, U, p)
  PROVE  EndsWhole(SubSeq(U, 1, p - 1))
<1>1. Len(U) \in Nat /\ DOMAIN U = 1 .. Len(U)
  BY LenProperties
<1>2. PICK kept : kept = SubSeq(U, 1, p - 1)
  OBVIOUS
<1>3. DOMAIN kept = 1 .. p - 1 /\ Len(kept) = p - 1 /\ \A i \in 1 .. p - 1 : kept[i] = U[i]
  BY <1>1, <1>2, PartIs
<1>4. U[p] = word[1] /\ word[1] # Continuation
  <2>1. U[p + 1 - 1] = word[1]
    BY StopWordIs DEF Found
  <2> QED
    BY <2>1, StopWordIs
<1>5. ASSUME NEW i \in 1 .. p - 1, ~(i - 1 + BytesOf(U[i]) <= p - 1)
      PROVE  FALSE
  <2>1. PICK b \in {1, 2, 3} : b = BytesOf(U[i])
    BY Bytes
  <2>2. p \in i + 1 .. i - 1 + BytesOf(U[i]) /\ i \in DOMAIN U
    BY <1>1, <1>5, <2>1
  <2> QED
    BY <1>1, <1>4, <2>2 DEF WellFormed
<1>6. EndsWhole(kept)
  BY <1>3, <1>5 DEF EndsWhole
<1> QED
  BY <1>2, <1>6
-----------------------------------------------------------------------------
(***************************************************************************)
(* The parts of process_token.                                             *)
(***************************************************************************)
(* The fields of a slot. *)
LEMMA Fields ==
  ASSUME NEW s \in ServerSlot
  PROVE  /\ s.text \in Seq(Byte) /\ s.sent \in Nat /\ s.more \in BOOLEAN /\ s.stop \in Stops
         /\ s.decoded \in 0 .. Predict /\ s.newline \in BOOLEAN /\ s.lastNl \in Nat
         /\ s.indent \in Indents /\ s.indent \in Nat
         /\ Len(s.text) \in Nat
BY TextAssumption, LenProperties DEF ServerSlot

LEMMA BothFields ==
  ASSUME NEW r, NEW x, NEW y, r = [slot |-> x, chunk |-> y]
  PROVE  r.slot = x /\ r.chunk = y
OBVIOUS

(* What is sent when the text is kept, or cut to kept. *)
LEMMA Sent ==
  ASSUME NEW s \in ServerSlot, NEW kept \in Seq(Byte), s.sent <= Len(kept)
  PROVE  /\ Send(s, kept).slot = [s EXCEPT !.text = kept, !.sent = Len(kept)]
         /\ Send(s, kept).chunk = SubSeq(kept, s.sent + 1, Len(kept))
<1>1. s.sent \in Nat /\ Len(kept) \in Nat
  BY Fields, LenProperties
<1>2. PICK chunk : chunk = From(kept, Min({s.sent, Len(kept)}) + 1)
  OBVIOUS
<1>3. Min({s.sent, Len(kept)}) = s.sent
  BY <1>1, MinOfTwo
<1>4. chunk = SubSeq(kept, s.sent + 1, Len(kept))
  BY <1>2, <1>3 DEF From
<1>5. Len(chunk) = Len(kept) + 1 - (s.sent + 1)
  BY <1>1, <1>4, PartIs
<1>6. s.sent + Len(chunk) = Len(kept)
  BY <1>1, <1>5
<1>7. Send(s, kept) =
        [slot |-> [s EXCEPT !.text = kept, !.sent = s.sent + Len(chunk)], chunk |-> chunk]
  BY <1>2 DEF Send
<1>8. PICK x : x = [s EXCEPT !.text = kept, !.sent = Len(kept)]
  OBVIOUS
<1>9. Send(s, kept) = [slot |-> x, chunk |-> chunk]
  BY <1>6, <1>7, <1>8
<1>10. Send(s, kept).slot = x /\ Send(s, kept).chunk = chunk
  BY <1>9, BothFields
<1> QED
  BY <1>4, <1>8, <1>10

(* A part of a beginning is a part of the whole. *)
LEMMA PartOfPart ==
  ASSUME NEW U \in Seq(Byte), NEW n \in 0 .. Len(U), NEW m \in 1 .. n + 1
  PROVE  SubSeq(SubSeq(U, 1, n), m, n) = SubSeq(U, m, n)
<1>1. Len(U) \in Nat
  BY LenProperties
<1>2. PICK kept : kept = SubSeq(U, 1, n)
  OBVIOUS
<1>3. kept \in Seq(Byte) /\ Len(kept) = n /\ \A i \in 1 .. n : kept[i] = U[1 + i - 1]
  <2>1. 1 \in 1 .. Len(U) + 1 /\ n \in 1 - 1 .. Len(U) /\ n + 1 - 1 = n
    BY <1>1
  <2> QED
    BY <1>2, <2>1, PartIs
<1>4. \A i \in 1 .. n : kept[i] = U[i]
  BY <1>3
<1>5. PICK a : a = SubSeq(kept, m, n)
  OBVIOUS
<1>6. PICK b : b = SubSeq(U, m, n)
  OBVIOUS
<1>7. m \in 1 .. Len(kept) + 1 /\ m \in 1 .. Len(U) + 1
      /\ n \in m - 1 .. Len(kept) /\ n \in m - 1 .. Len(U)
  BY <1>1, <1>3
<1>8. /\ a \in Seq(Byte) /\ Len(a) = n + 1 - m
      /\ \A i \in 1 .. n + 1 - m : a[i] = kept[m + i - 1]
  BY <1>3, <1>5, <1>7, PartIs
<1>9. /\ b \in Seq(Byte) /\ Len(b) = n + 1 - m
      /\ \A i \in 1 .. n + 1 - m : b[i] = U[m + i - 1]
  BY <1>6, <1>7, PartIs
<1>10. \A i \in 1 .. n + 1 - m : m + i - 1 \in 1 .. n
  BY <1>1
<1>11. \A i \in 1 .. n + 1 - m : a[i] = b[i]
  BY <1>4, <1>8, <1>9, <1>10
<1>12. a = b
  BY <1>8, <1>9, <1>11, SameText
<1> QED
  BY <1>2, <1>5, <1>6, <1>12

(***************************************************************************)
(* The four ways a scan can end: the text is incomplete, or it ends in the *)
(* beginning of a stop word, and nothing is sent; all of it is sent; or a  *)
(* stop word is found, and the text before it is kept and sent.            *)
(***************************************************************************)
Unscanned(s, n) == Incomplete(s.text) /\ n = s.sent

Withheld(s, last, n) ==
  /\ ~Incomplete(s.text) /\ FullStops(From(s.text, s.sent + 1), last) = {}
  /\ PartialStop(From(s.text, s.sent + 1)) /\ n = s.sent

AllSent(s, last, n) ==
  /\ ~Incomplete(s.text) /\ FullStops(From(s.text, s.sent + 1), last) = {}
  /\ ~PartialStop(From(s.text, s.sent + 1)) /\ n = Len(s.text)

CutAt(s, last, n) ==
  /\ ~Incomplete(s.text) /\ FullStops(From(s.text, s.sent + 1), last) # {}
  /\ n + 1 = s.sent + Min(FullStops(From(s.text, s.sent + 1), last))

LEMMA Scanned ==
  ASSUME NEW s \in ServerSlot, s.more, s.sent <= Len(s.text), NEW last \in Nat
  PROVE  \E n \in s.sent .. Len(s.text) :
           /\ Scan(s, last).chunk = SubSeq(s.text, s.sent + 1, n)
           /\ \/ /\ Unscanned(s, n) \/ Withheld(s, last, n) \/ AllSent(s, last, n)
                 /\ Scan(s, last).slot = [s EXCEPT !.sent = n]
              \/ /\ CutAt(s, last, n)
                 /\ Scan(s, last).slot =
                      [s EXCEPT !.more = FALSE, !.stop = "word",
                                !.text = SubSeq(s.text, 1, n), !.sent = n]
<1> DEFINE U == s.text
           test == From(U, s.sent + 1)
           full == FullStops(test, last)
<1>1. U \in Seq(Byte) /\ Len(U) \in Nat /\ s.sent \in Nat /\ s.sent \in s.sent .. Len(U)
  BY Fields
<1>2. Min({s.sent, Len(U)}) = s.sent
  BY <1>1, MinOfTwo
<1>3. Scan(s, last) =
        IF Incomplete(U) THEN [slot |-> s, chunk |-> <<>>]
        ELSE IF full # {} THEN StopAt(s, s.sent + Min(full))
        ELSE IF PartialStop(test) THEN [slot |-> s, chunk |-> <<>>]
        ELSE Send(s, U)
  BY <1>2 DEF Scan
<1>4. SubSeq(U, s.sent + 1, s.sent) = <<>> /\ s = [s EXCEPT !.sent = s.sent]
  <2>1. SubSeq(U, s.sent + 1, s.sent) = <<>>
    BY <1>1, SubSeqEmpty
  <2>2. s = [s EXCEPT !.sent = s.sent]
    BY DEF ServerSlot
  <2> QED
    BY <2>1, <2>2
<1>5. CASE Incomplete(U)
  <2>1. /\ Scan(s, last).chunk = SubSeq(U, s.sent + 1, s.sent)
        /\ Scan(s, last).slot = [s EXCEPT !.sent = s.sent]
    <3>1. Scan(s, last) = [slot |-> s, chunk |-> <<>>]
      BY <1>3, <1>5
    <3>2. Scan(s, last).slot = s /\ Scan(s, last).chunk = <<>>
      BY <3>1, BothFields
    <3> QED
      BY <1>4, <3>2
  <2>2. Unscanned(s, s.sent)
    BY <1>5 DEF Unscanned
  <2> QED
    BY <1>1, <2>1, <2>2
<1>6. CASE ~Incomplete(U) /\ full = {} /\ PartialStop(test)
  <2>1. /\ Scan(s, last).chunk = SubSeq(U, s.sent + 1, s.sent)
        /\ Scan(s, last).slot = [s EXCEPT !.sent = s.sent]
    <3>1. Scan(s, last) = [slot |-> s, chunk |-> <<>>]
      BY <1>3, <1>6
    <3>2. Scan(s, last).slot = s /\ Scan(s, last).chunk = <<>>
      BY <3>1, BothFields
    <3> QED
      BY <1>4, <3>2
  <2>2. Withheld(s, last, s.sent)
    BY <1>6 DEF Withheld
  <2> QED
    BY <1>1, <2>1, <2>2
<1>7. CASE ~Incomplete(U) /\ full = {} /\ ~PartialStop(test)
  <2>1. Scan(s, last) = Send(s, U) /\ Len(U) \in s.sent .. Len(U)
    BY <1>1, <1>3, <1>7
  <2>2. /\ Send(s, U).slot = [s EXCEPT !.text = U, !.sent = Len(U)]
        /\ Send(s, U).chunk = SubSeq(U, s.sent + 1, Len(U))
    BY <1>1, Sent
  <2>3. [s EXCEPT !.text = U, !.sent = Len(U)] = [s EXCEPT !.sent = Len(U)]
    BY DEF ServerSlot
  <2>4. AllSent(s, last, Len(U))
    BY <1>7 DEF AllSent
  <2> QED
    BY <2>1, <2>2, <2>3, <2>4
<1>8. CASE ~Incomplete(U) /\ full # {}
  <2>1. full \in SUBSET (1 .. Len(U) - s.sent)
    <3>1. s.sent \in 0 .. Len(U)
      BY <1>1
    <3>2. full = {p \in 1 .. Len(U) - s.sent :
                    \E word \in StopWords :
                      /\ Found(word, U, s.sent + p)
                      /\ p + Len(word) + last > Len(U) - s.sent}
      <4> HIDE DEF U
      <4> QED
        BY <1>1, <3>1, FullStopsAre
    <3> HIDE DEF full
    <3> QED
      BY <3>2
  <2> HIDE DEF full
  <2>2. Min(full) \in 1 .. Len(U) - s.sent
    <3>1. IsFiniteSet(full) /\ full \in SUBSET Nat
      <4>1. PICK n \in Int : n = Len(U) - s.sent
        BY <1>1
      <4>2. IsFiniteSet(1 .. n)
        BY FS_Interval
      <4>3. full \in SUBSET (1 .. n)
        BY <2>1, <4>1
      <4>4. IsFiniteSet(full)
        BY <4>2, <4>3, FS_Subset
      <4> QED
        BY <4>3, <4>4
    <3>2. Min(full) \in full
      BY <1>8, <3>1, MinIs
    <3> QED
      BY <2>1, <3>2
  <2>3. PICK m \in 1 .. Len(U) - s.sent : m = Min(full)
    BY <2>2
  <2>4. PICK n : n = s.sent + m - 1
    OBVIOUS
  <2>5. n \in s.sent .. Len(U) /\ n + 1 = s.sent + m /\ n \in Nat
        /\ (s.sent + m) - 1 = n
    BY <1>1, <2>3, <2>4
  <2> DEFINE t == Stopped(s, "word")
             kept == SubSeq(U, 1, n)
  <2>6. Scan(s, last) = Send(t, kept)
    BY <1>3, <1>8, <2>3, <2>5 DEF StopAt
  <2>7. t \in ServerSlot /\ t.sent = s.sent
        /\ t = [s EXCEPT !.more = FALSE, !.stop = "word"]
    BY DEF Stopped, ServerSlot, Stops
  <2>8. kept \in Seq(Byte) /\ Len(kept) = n /\ \A i \in 1 .. n : kept[i] = U[i]
    BY <1>1, <2>5, PartIs
  <2>9. SubSeq(kept, s.sent + 1, n) = SubSeq(U, s.sent + 1, n)
    <3>1. n \in 0 .. Len(U) /\ s.sent + 1 \in 1 .. n + 1
      BY <1>1, <2>5
    <3> QED
      BY <1>1, <3>1, PartOfPart
  <2>10. /\ Send(t, kept).slot = [t EXCEPT !.text = kept, !.sent = n]
         /\ Send(t, kept).chunk = SubSeq(kept, s.sent + 1, n)
    <3> HIDE DEF t, kept
    <3>1. t.sent <= Len(kept)
      BY <2>5, <2>7, <2>8
    <3>2. /\ Send(t, kept).slot = [t EXCEPT !.text = kept, !.sent = Len(kept)]
          /\ Send(t, kept).chunk = SubSeq(kept, t.sent + 1, Len(kept))
      BY <2>7, <2>8, <3>1, Sent
    <3>3. Len(kept) = n /\ t.sent = s.sent
      BY <2>7, <2>8
    <3> QED
      BY <3>2, <3>3
  <2>11. [t EXCEPT !.text = kept, !.sent = n] =
           [s EXCEPT !.more = FALSE, !.stop = "word", !.text = kept, !.sent = n]
    BY DEF Stopped, ServerSlot
  <2>12. CutAt(s, last, n)
    BY <1>8, <2>3, <2>5 DEF CutAt, full
  <2> QED
    BY <2>5, <2>6, <2>9, <2>10, <2>11, <2>12
<1> QED
  BY <1>5, <1>6, <1>7, <1>8

(***************************************************************************)
(* What the limits do to a slot: they may end the generation, and only     *)
(* with an indentation cut the end of the text.                            *)
(***************************************************************************)
Consistent(s) == s \in ServerSlot /\ (s.more <=> s.stop = "none")

Limited(s, t) ==
  /\ Consistent(t)
  /\ t.sent = s.sent /\ t.indent = s.indent /\ t.decoded = s.decoded
  /\ IsPrefix(t.text, s.text)
  /\ t.more \/ s.indent = 0 => t.text = s.text
  /\ t.more => s.more

LEMMA LimitedSelf ==
  ASSUME NEW s, Consistent(s)
  PROVE  Limited(s, s)
<1>1. s.text \in Seq(Byte) /\ Len(s.text) \in Nat
  BY Fields DEF Consistent
<1>2. IsPrefix(s.text, s.text)
  BY <1>1, PrefixIs
<1> QED
  BY <1>2 DEF Limited

LEMMA PrefixOfPrefix ==
  ASSUME NEW a \in Seq(Byte), NEW b \in Seq(Byte), NEW c \in Seq(Byte),
         IsPrefix(a, b), IsPrefix(b, c)
  PROVE  IsPrefix(a, c)
<1>1. Len(a) \in Nat /\ Len(b) \in Nat /\ Len(c) \in Nat
  BY LenProperties
<1>2. Len(a) <= Len(b) /\ \A j \in 1 .. Len(a) : a[j] = b[j]
  BY PrefixIs
<1>3. Len(b) <= Len(c) /\ \A j \in 1 .. Len(b) : b[j] = c[j]
  BY PrefixIs
<1>4. Len(a) <= Len(c) /\ \A j \in 1 .. Len(a) : j \in 1 .. Len(b)
  BY <1>1, <1>2, <1>3
<1>5. \A j \in 1 .. Len(a) : a[j] = c[j]
  BY <1>2, <1>3, <1>4
<1> QED
  BY <1>4, <1>5, PrefixIs

LEMMA LimitedTwice ==
  ASSUME NEW s, NEW t, NEW u, Consistent(s), Limited(s, t), Limited(t, u)
  PROVE  Limited(s, u)
<1>1. s.text \in Seq(Byte) /\ t.text \in Seq(Byte) /\ u.text \in Seq(Byte)
  BY Fields DEF Limited, Consistent
<1>2. IsPrefix(u.text, s.text)
  BY <1>1, PrefixOfPrefix DEF Limited
<1> QED
  BY <1>2 DEF Limited

LEMMA LimitedStop ==
  ASSUME NEW s, Consistent(s), NEW why \in Stops \ {"none"}
  PROVE  Limited(s, Stopped(s, why)) /\ ~Stopped(s, why).more
<1>1. PICK t : t = Stopped(s, why)
  OBVIOUS
<1>2. t = [s EXCEPT !.more = FALSE, !.stop = why]
  BY <1>1 DEF Stopped
<1>3. t \in ServerSlot
  BY <1>2 DEF Consistent, ServerSlot
<1>4. /\ t.more = FALSE /\ t.stop = why /\ t.text = s.text /\ t.sent = s.sent
      /\ t.indent = s.indent /\ t.decoded = s.decoded
  BY <1>2 DEF Consistent, ServerSlot
<1>5. IsPrefix(s.text, s.text)
  BY LimitedSelf DEF Limited
<1>6. Limited(s, t)
  BY <1>3, <1>4, <1>5 DEF Limited, Consistent
<1> QED
  BY <1>1, <1>4, <1>6

(* has_budget: a generation that goes on has tokens left. *)
LEMMA LimitedBudget ==
  ASSUME NEW s, Consistent(s)
  PROVE  Limited(s, Budget(s)) /\ (Budget(s).more => s.decoded < Predict)
<1>1. s.decoded \in Nat /\ Predict \in Nat
  BY Fields, TextAssumption DEF Consistent
<1>2. "limit" \in Stops \ {"none"}
  BY DEF Stops
<1>3. CASE s.more /\ s.decoded >= Predict
  BY <1>2, <1>3, LimitedStop DEF Budget
<1>4. CASE ~(s.more /\ s.decoded >= Predict)
  BY <1>1, <1>4, LimitedSelf DEF Budget
<1> QED
  BY <1>3, <1>4

(* The indentation of a line, counted in the text that is left. *)
LEMMA LimitedIndentation ==
  ASSUME NEW s, Consistent(s), s.indent > 0
  PROVE  Limited(s, Indentation(s))
<1> DEFINE p == FirstInLine(s)
           cut == /\ 0 < s.lastNl /\ s.lastNl < Len(s.text)
                  /\ p <= Len(s.text) /\ p - 1 - s.lastNl < s.indent
           t == IF cut THEN [Stopped(s, "limit") EXCEPT !.text = SubSeq(s.text, 1, p - 1)]
                ELSE s
           next == Occurrences(<<Newline>>, t.text, s.lastNl + 1)
<1>1. /\ s \in ServerSlot /\ s.text \in Seq(Byte) /\ Len(s.text) \in Nat
      /\ s.lastNl \in Nat /\ s.indent \in Nat
  BY Fields DEF Consistent
<1>2. Limited(s, t)
  <2>1. CASE cut
    <3>1. p \in 1 .. Len(s.text)
      <4> DEFINE S == {q \in s.lastNl + 1 .. Len(s.text) + 1 :
                        q = Len(s.text) + 1 \/ s.text[q] \notin Blanks}
      <4>1. Len(s.text) + 1 \in S /\ S \in SUBSET (1 .. Len(s.text) + 1)
        BY <1>1, <2>1
      <4>2. IsFiniteSet(S)
        <5>1. IsFiniteSet(1 .. Len(s.text) + 1)
          <6>1. 1 \in Int /\ Len(s.text) + 1 \in Int
            BY <1>1
          <6> HIDE DEF S, t, cut, p
          <6> QED
            BY <6>1, FS_Interval
        <5> QED
          BY <4>1, <5>1, FS_Subset
      <4>3. S \in SUBSET Nat /\ S # {}
        BY <1>1, <4>1
      <4>4. p = Min(S)
        BY DEF FirstInLine
      <4> HIDE DEF S
      <4>5. p \in S
        BY <4>2, <4>3, <4>4, MinIs
      <4>6. p <= Len(s.text)
        BY <2>1
      <4>7. p \in 1 .. Len(s.text) + 1
        BY <4>1, <4>5
      <4> HIDE DEF p, t, cut
      <4> QED
        BY <1>1, <4>6, <4>7
    <3>2. PICK m : m = p - 1
      OBVIOUS
    <3>3. m \in 0 .. Len(s.text)
      BY <1>1, <3>1, <3>2
    <3>4. PICK kept : kept = SubSeq(s.text, 1, m)
      OBVIOUS
    <3>5. kept \in Seq(Byte) /\ Len(kept) = m /\ \A i \in 1 .. m : kept[i] = s.text[i]
      <4>1. /\ kept \in Seq(Byte) /\ Len(kept) = m + 1 - 1
            /\ \A i \in 1 .. m + 1 - 1 : kept[i] = s.text[1 + i - 1]
        <5>1. 1 \in 1 .. Len(s.text) + 1 /\ m \in 1 - 1 .. Len(s.text)
          BY <1>1, <3>3
        <5> QED
          BY <1>1, <3>4, <5>1, PartIs
      <4> QED
        BY <1>1, <3>3, <4>1
    <3>6. IsPrefix(kept, s.text)
      BY <1>1, <3>3, <3>5, PrefixIs
    <3>7. PICK u : u = Stopped(s, "limit")
      OBVIOUS
    <3>8. Limited(s, u) /\ ~u.more
      <4>1. "limit" \in Stops \ {"none"}
        BY DEF Stops
      <4> QED
        BY <3>7, <4>1, LimitedStop
    <3>9. t = [u EXCEPT !.text = kept]
      BY <2>1, <3>2, <3>4, <3>7
    <3> HIDE DEF t
    <3>10. t \in ServerSlot
      BY <3>5, <3>8, <3>9 DEF Limited, Consistent, ServerSlot
    <3>11. /\ t.text = kept /\ t.more = u.more /\ t.stop = u.stop /\ t.sent = u.sent
           /\ t.indent = u.indent /\ t.decoded = u.decoded
      BY <3>8, <3>9 DEF Limited, Consistent, ServerSlot
    <3>12. s.indent # 0 /\ u.more = FALSE
      BY <1>1, <3>8 DEF Limited, Consistent, ServerSlot
    <3> QED
      BY <3>6, <3>8, <3>10, <3>11, <3>12 DEF Limited, Consistent
  <2>2. CASE ~cut
    BY <2>2, LimitedSelf
  <2> QED
    BY <2>1, <2>2
<1>3. Indentation(s) = IF next = {} THEN t ELSE [t EXCEPT !.lastNl = Min(next)]
  BY DEF Indentation
<1> HIDE DEF t
<1>4. ASSUME next # {}
      PROVE  Min(next) \in Nat
  <2>1. t.text \in Seq(Byte) /\ Len(t.text) \in Nat
    BY <1>2, Fields DEF Limited, Consistent
  <2>2. next \in SUBSET (s.lastNl + 1 .. Len(t.text) + 1 - Len(<<Newline>>))
    BY DEF Occurrences
  <2>3. next \in SUBSET (1 .. Len(t.text))
    <3>1. Len(<<Newline>>) = 1
      OBVIOUS
    <3> HIDE DEF next
    <3> QED
      BY <1>1, <2>1, <2>2, <3>1
  <2> HIDE DEF next
  <2>4. IsFiniteSet(next) /\ next \in SUBSET Nat
    <3>1. IsFiniteSet(1 .. Len(t.text))
      BY <2>1, FS_Interval
    <3>2. IsFiniteSet(next)
      BY <2>3, <3>1, FS_Subset
    <3> QED
      BY <2>3, <3>2
  <2> QED
    BY <1>4, <2>4, MinIs
<1>5. CASE next = {}
  BY <1>2, <1>3, <1>5
<1>6. CASE next # {}
  <2>1. PICK k \in Nat : k = Min(next)
    BY <1>4, <1>6
  <2>2. PICK u : u = [t EXCEPT !.lastNl = k]
    OBVIOUS
  <2>3. Indentation(s) = u
    BY <1>3, <1>6, <2>1, <2>2
  <2>4. u \in ServerSlot
    BY <1>2, <2>1, <2>2 DEF Limited, Consistent, ServerSlot
  <2>5. /\ u.text = t.text /\ u.more = t.more /\ u.stop = t.stop /\ u.sent = t.sent
        /\ u.indent = t.indent /\ u.decoded = t.decoded
    BY <1>2, <2>1, <2>2 DEF Limited, Consistent, ServerSlot
  <2>6. Limited(s, u)
    BY <1>2, <2>4, <2>5 DEF Limited, Consistent
  <2> QED
    BY <2>3, <2>6
<1> QED
  BY <1>5, <1>6

LEMMA LimitsAre ==
  ASSUME NEW s, Consistent(s), NEW late, NEW full, NEW eog
  PROVE  /\ Limited(s, Limits(s, late, full, eog))
         /\ Limits(s, late, full, eog).more => s.decoded < Predict
<1>1. \A t : Consistent(t) => Limited(t, Stopped(t, "limit")) /\ ~Stopped(t, "limit").more
                              /\ Limited(t, Stopped(t, "eos")) /\ ~Stopped(t, "eos").more
  <2>1. "limit" \in Stops \ {"none"} /\ "eos" \in Stops \ {"none"}
    BY DEF Stops
  <2> QED
    BY <2>1, LimitedStop
<1>2. \A t : Limited(s, t) => Consistent(t)
  BY DEF Limited
<1>3. PICK a : a = Budget(s)
  OBVIOUS
<1>4. Limited(s, a) /\ (a.more => s.decoded < Predict)
  BY <1>3, LimitedBudget
<1>5. PICK b : b = AfterNewline(a, late)
  OBVIOUS
<1>6. Limited(a, b)
  <2>1. PICK t : t = IF late THEN Stopped(a, "limit") ELSE a
    OBVIOUS
  <2>2. Consistent(a)
    BY <1>2, <1>4
  <2>3. Limited(a, t)
    <3>1. CASE late
      BY <1>1, <2>1, <2>2, <3>1
    <3>2. CASE ~late
      BY <2>1, <2>2, <3>2, LimitedSelf
    <3> QED
      BY <3>1, <3>2
  <2>4. b = IF ~a.newline THEN a ELSE IF a.indent > 0 THEN Indentation(t) ELSE t
    BY <1>5, <2>1 DEF AfterNewline
  <2>5. CASE ~a.newline
    BY <2>2, <2>4, <2>5, LimitedSelf
  <2>6. CASE a.newline /\ a.indent > 0
    <3>1. Consistent(t) /\ t.indent > 0 /\ b = Indentation(t)
      BY <2>3, <2>4, <2>6 DEF Limited
    <3>2. Limited(t, b)
      BY <3>1, LimitedIndentation
    <3> QED
      BY <2>2, <2>3, <3>2, LimitedTwice
  <2>7. CASE a.newline /\ ~(a.indent > 0)
    BY <2>3, <2>4, <2>7
  <2> QED
    BY <2>5, <2>6, <2>7
<1>7. Limited(s, b)
  BY <1>4, <1>6, LimitedTwice
<1>8. PICK c : c = IF full THEN Stopped(b, "limit") ELSE b
  OBVIOUS
<1>9. Limited(b, c)
  <2>1. CASE full
    BY <1>1, <1>2, <1>7, <1>8, <2>1
  <2>2. CASE ~full
    BY <1>2, <1>7, <1>8, <2>2, LimitedSelf
  <2> QED
    BY <2>1, <2>2
<1>10. Limited(s, c) /\ Consistent(c)
  BY <1>2, <1>7, <1>9, LimitedTwice
<1>11. PICK d : d = IF eog THEN Stopped(c, "eos") ELSE c
  OBVIOUS
<1>12. Limited(c, d)
  <2>1. CASE eog
    BY <1>1, <1>10, <1>11, <2>1
  <2>2. CASE ~eog
    BY <1>10, <1>11, <2>2, LimitedSelf
  <2> QED
    BY <2>1, <2>2
<1>13. Limits(s, late, full, eog) = d
  BY <1>3, <1>5, <1>8, <1>11 DEF Limits
<1>14. Limited(s, d)
  BY <1>10, <1>12, LimitedTwice
<1>15. d.more => a.more
  BY <1>6, <1>9, <1>12 DEF Limited
<1> QED
  BY <1>4, <1>13, <1>14, <1>15
-----------------------------------------------------------------------------
(***************************************************************************)
(* The inductive invariant.  While the generation goes on its text is all  *)
(* that was sampled, what is streamed is a part of it that ends with a     *)
(* whole character and where no stop word can still begin, and if the      *)
(* tokens spell characters there is no stop word in it.                    *)
(***************************************************************************)
Running ==
  /\ slot.text = raw /\ slot.sent <= Len(raw) /\ streamed = SubSeq(raw, 1, slot.sent)
  /\ slot.decoded < Predict
  /\ EndsWhole(streamed)
  /\ Safe(raw, slot.sent)
  /\ Spelled => NoStop(raw)

SInv ==
  /\ TypeOK
  /\ slot.more => Running
  /\ ContentBeforeStop /\ StopWordWithheld /\ WholeCharacters /\ HeldForReason

(* The bytes of the text, and of what follows the first n of them. *)
LEMMA Rest ==
  ASSUME NEW U \in Seq(Byte), NEW n \in 0 .. Len(U)
  PROVE  /\ From(U, n + 1) \in Seq(Byte) /\ Len(From(U, n + 1)) = Len(U) - n
         /\ \A i \in 1 .. Len(U) - n : From(U, n + 1)[i] = U[n + i]
         /\ SubSeq(U, 1, n) \in Seq(Byte) /\ Len(SubSeq(U, 1, n)) = n
         /\ DOMAIN SubSeq(U, 1, n) = 1 .. n
         /\ \A i \in 1 .. n : SubSeq(U, 1, n)[i] = U[i]
<1>1. Len(U) \in Nat
  BY LenProperties
<1>2. /\ n + 1 \in 1 .. Len(U) + 1 /\ Len(U) \in n + 1 - 1 .. Len(U)
      /\ 1 \in 1 .. Len(U) + 1 /\ n \in 1 - 1 .. Len(U)
      /\ Len(U) + 1 - (n + 1) = Len(U) - n /\ n + 1 - 1 = n
      /\ \A i \in 1 .. Len(U) - n : n + 1 + i - 1 = n + i
      /\ \A i \in 1 .. n : 1 + i - 1 = i
  BY <1>1
<1>3. /\ From(U, n + 1) \in Seq(Byte) /\ Len(From(U, n + 1)) = Len(U) - n
      /\ \A i \in 1 .. Len(U) - n : From(U, n + 1)[i] = U[n + i]
  <2>1. /\ From(U, n + 1) \in Seq(Byte) /\ Len(From(U, n + 1)) = Len(U) + 1 - (n + 1)
        /\ \A i \in 1 .. Len(U) + 1 - (n + 1) : From(U, n + 1)[i] = U[n + 1 + i - 1]
    BY <1>2, PartIs DEF From
  <2> QED
    BY <1>2, <2>1
<1>4. /\ SubSeq(U, 1, n) \in Seq(Byte) /\ Len(SubSeq(U, 1, n)) = n + 1 - 1
      /\ DOMAIN SubSeq(U, 1, n) = 1 .. n + 1 - 1
      /\ \A i \in 1 .. n + 1 - 1 : SubSeq(U, 1, n)[i] = U[1 + i - 1]
  BY <1>2, PartIs
<1> QED
  BY <1>2, <1>3, <1>4

(* Nothing is safe to send beyond a byte that may open a stop word; if no  *)
(* end of the rest does, all of the text is.                               *)
LEMMA AllSafe ==
  ASSUME NEW U \in Seq(Byte), NEW n \in 0 .. Len(U), Safe(U, n), ~PartialStop(From(U, n + 1))
  PROVE  Safe(U, Len(U))
<1> SUFFICES ASSUME NEW word \in StopWords, NEW q \in 1 .. Len(U), Opens(word, U, q)
             PROVE  FALSE
  BY DEF Safe
<1>1. Len(U) \in Nat
  BY LenProperties
<1>2. CASE q <= n
  <2>1. q \in 1 .. n
    BY <1>1, <1>2
  <2> QED
    BY <2>1 DEF Safe
<1>3. CASE ~(q <= n)
  <2>1. PICK test : test = From(U, n + 1)
    OBVIOUS
  <2>2. /\ test \in Seq(Byte) /\ Len(test) = Len(U) - n
        /\ \A i \in 1 .. Len(U) - n : test[i] = U[n + i]
    BY <2>1, Rest
  <2>3. PICK p : p = q - n
    OBVIOUS
  <2>4. p \in 1 .. Len(test) /\ Len(test) + 1 - p = Len(U) + 1 - q
    BY <1>1, <1>3, <2>2, <2>3
  <2>5. \A j \in 1 .. Len(U) + 1 - q :
          p + j - 1 \in 1 .. Len(U) - n /\ n + (p + j - 1) = q + j - 1
    BY <1>1, <1>3, <2>3
  <2>6. \A j \in 1 .. Len(U) + 1 - q : test[p + j - 1] = U[q + j - 1]
    BY <2>2, <2>5
  <2>7. Opens(word, test, p)
    BY <2>4, <2>6 DEF Opens
  <2> QED
    BY <2>1, <2>2, <2>4, <2>7, PartialStopIs
<1> QED
  BY <1>2, <1>3

(* The character in which the text ends begins behind what is whole. *)
LEMMA RestIncomplete ==
  ASSUME NEW U \in Seq(Byte), NEW n \in 0 .. Len(U), Incomplete(U), EndsWhole(SubSeq(U, 1, n))
  PROVE  Incomplete(From(U, n + 1))
<1>1. Len(U) \in Nat /\ DOMAIN U = 1 .. Len(U)
  BY LenProperties
<1>2. PICK l \in 1 .. Len(U) : ~(l - 1 + BytesOf(U[l]) <= Len(U))
  BY <1>1, IncompleteIs DEF EndsWhole
<1>3. PICK b \in {1, 2, 3} : b = BytesOf(U[l])
  BY Bytes
<1>4. l > n
  <2> SUFFICES ASSUME l \in 1 .. n PROVE FALSE
    BY <1>1
  <2>1. l - 1 + b <= n
    BY <1>3, Rest DEF EndsWhole
  <2> QED
    BY <1>1, <1>2, <1>3, <2>1
<1>5. PICK held : held = From(U, n + 1)
  OBVIOUS
<1>6. /\ held \in Seq(Byte) /\ Len(held) = Len(U) - n /\ DOMAIN held = 1 .. Len(held)
      /\ \A i \in 1 .. Len(U) - n : held[i] = U[n + i]
  BY <1>5, Rest, LenProperties
<1>7. PICK i : i = l - n
  OBVIOUS
<1>8. i \in 1 .. Len(U) - n /\ n + i = l
  BY <1>1, <1>4, <1>7
<1>9. BytesOf(held[i]) = b
  BY <1>3, <1>6, <1>8
<1>10. ~(i - 1 + b <= Len(held))
  BY <1>1, <1>2, <1>3, <1>6, <1>7
<1>11. Incomplete(held)
  BY <1>6, <1>8, <1>9, <1>10, IncompleteIs DEF EndsWhole
<1> QED
  BY <1>5, <1>11

(***************************************************************************)
(* A token by which no stop word is found: what is sent is whole and safe, *)
(* what is held back has a reason, and if the tokens spell characters      *)
(* there was no stop word to be found.                                     *)
(***************************************************************************)
LEMMA NotCut ==
  ASSUME NEW T \in Seq(Byte), NEW token \in Seq(Byte),
         NEW s \in ServerSlot, s.text = T \o token, s.sent \in 0 .. Len(T),
         Safe(T, s.sent), EndsWhole(SubSeq(T, 1, s.sent)),
         NEW n \in s.sent .. Len(T \o token),
         Unscanned(s, n) \/ Withheld(s, Len(token), n) \/ AllSent(s, Len(token), n)
  PROVE  /\ Safe(T \o token, n) /\ EndsWhole(SubSeq(T \o token, 1, n))
         /\ \/ n = Len(T \o token)
            \/ PartialStop(From(T \o token, n + 1)) \/ Incomplete(From(T \o token, n + 1))
         /\ /\ NoStop(T) /\ WellFormed(T \o token) /\ ~(Len(token) > 1 /\ Incomplete(token))
            => NoStop(T \o token)
<1> DEFINE U == T \o token
           k == s.sent
<1>1. /\ U \in Seq(Byte) /\ Len(U) = Len(T) + Len(token) /\ Len(T) \in Nat
      /\ Len(token) \in Nat /\ \A i \in 1 .. Len(T) : U[i] = T[i]
  BY Grown
<1>2. k \in 0 .. Len(T) /\ k \in 0 .. Len(U) /\ s.text = U
  BY <1>1
<1>3. Safe(U, k)
  BY <1>2, StaysSafe
<1>4. NoStop(T) /\ FullStops(From(U, k + 1), Len(token)) = {} => NoStop(U)
  BY <1>2, SearchIsComplete DEF NoStop
<1>5. Incomplete(U) /\ NoStop(T) /\ WellFormed(U) /\ ~(Len(token) > 1 /\ Incomplete(token))
      => NoStop(U)
  BY <1>2, NoneUnsearched
<1> HIDE DEF U
<1>6. SubSeq(U, 1, k) = SubSeq(T, 1, k)
  <2>1. PICK a : a = SubSeq(U, 1, k)
    OBVIOUS
  <2>2. PICK b : b = SubSeq(T, 1, k)
    OBVIOUS
  <2>3. a \in Seq(Byte) /\ Len(a) = k /\ \A i \in 1 .. k : a[i] = U[i]
    BY <1>1, <1>2, <2>1, Rest
  <2>4. b \in Seq(Byte) /\ Len(b) = k /\ \A i \in 1 .. k : b[i] = T[i]
    BY <1>2, <2>2, Rest
  <2>5. \A i \in 1 .. k : a[i] = b[i]
    BY <1>1, <1>2, <2>3, <2>4
  <2> QED
    BY <2>1, <2>2, <2>3, <2>4, <2>5, SameText
<1>7. CASE Unscanned(s, n)
  <2>1. Incomplete(U) /\ n = k
    BY <1>2, <1>7 DEF Unscanned
  <2>2. Incomplete(From(U, n + 1))
    BY <1>1, <1>2, <1>6, <2>1, RestIncomplete
  <2> QED
    BY <1>3, <1>5, <1>6, <2>1, <2>2 DEF U
<1>8. CASE Withheld(s, Len(token), n)
  <2>1. /\ FullStops(From(U, k + 1), Len(token)) = {}
        /\ PartialStop(From(U, k + 1)) /\ n = k
    BY <1>2, <1>8 DEF Withheld
  <2> QED
    BY <1>3, <1>4, <1>6, <2>1 DEF U
<1>9. CASE AllSent(s, Len(token), n)
  <2>1. /\ FullStops(From(U, k + 1), Len(token)) = {}
        /\ ~PartialStop(From(U, k + 1)) /\ n = Len(U) /\ ~Incomplete(U)
    BY <1>2, <1>9 DEF AllSent
  <2>2. Safe(U, n)
    BY <1>1, <1>2, <1>3, <2>1, AllSafe
  <2>3. EndsWhole(SubSeq(U, 1, n))
    <3>1. SubSeq(U, 1, Len(U)) = U
      BY <1>1, SubSeqFull
    <3> QED
      BY <1>1, <2>1, <3>1, IncompleteIs
  <2> QED
    BY <1>4, <2>1, <2>2, <2>3 DEF U
<1> QED
  BY <1>7, <1>8, <1>9

(* A token by which a stop word is found: the text is cut in front of the  *)
(* first one, and at the end of a character.                               *)
LEMMA IsCut ==
  ASSUME NEW T \in Seq(Byte), NEW token \in Seq(Byte),
         NEW s \in ServerSlot, s.text = T \o token, s.sent \in 0 .. Len(T),
         Safe(T, s.sent),
         NEW n \in s.sent .. Len(T \o token), CutAt(s, Len(token), n)
  PROVE  /\ WellFormed(T \o token) => EndsWhole(SubSeq(T \o token, 1, n))
         /\ NoStop(T) => BeforeStop(T \o token) = SubSeq(T \o token, 1, n)
<1> DEFINE U == T \o token
           k == s.sent
           full == FullStops(From(U, k + 1), Len(token))
<1>1. /\ U \in Seq(Byte) /\ Len(U) = Len(T) + Len(token) /\ Len(T) \in Nat
      /\ Len(token) \in Nat
  BY Grown
<1>2. k \in 0 .. Len(T) /\ k \in 0 .. Len(U) /\ s.text = U
  BY <1>1
<1>3. full # {} /\ n + 1 = k + Min(full)
  BY <1>2 DEF CutAt
<1>4. NoStop(T) => \A word \in StopWords : \A q \in 1 .. Len(U) :
                     Found(word, U, q) => q > k /\ q - k \in full
  BY <1>2, SearchIsComplete
<1>5. full = {p \in 1 .. Len(U) - k :
                \E word \in StopWords :
                  /\ Found(word, U, k + p)
                  /\ p + Len(word) + Len(token) > Len(U) - k}
  <2> HIDE DEF U, k
  <2>1. \A last \in Nat :
          FullStops(From(U, k + 1), last) =
            {p \in 1 .. Len(U) - k :
               \E word \in StopWords :
                 /\ Found(word, U, k + p)
                 /\ p + Len(word) + last > Len(U) - k}
    BY <1>1, <1>2, FullStopsAre
  <2> HIDE DEF full
  <2>2. PICK last \in Nat : last = Len(token)
    BY <1>1
  <2>3. full = FullStops(From(U, k + 1), last)
    BY <2>2 DEF full
  <2> QED
    BY <2>1, <2>2, <2>3
<1> HIDE DEF full, U
<1>6. full \in SUBSET Nat /\ IsFiniteSet(full)
  <2>1. full \in SUBSET (1 .. Len(U) - k)
    BY <1>5
  <2>2. IsFiniteSet(1 .. Len(U) - k)
    <3>1. 1 \in Int /\ Len(U) - k \in Int
      BY <1>1, <1>2
    <3> QED
      BY <3>1, FS_Interval
  <2>3. IsFiniteSet(full)
    BY <2>1, <2>2, FS_Subset
  <2> QED
    BY <2>1, <2>3
<1>7. PICK m \in full : m = Min(full) /\ \A y \in full : m <= y
  BY <1>3, <1>6, MinIs
<1>8. n + 1 = k + m /\ n + 1 \in 1 .. Len(U) /\ m \in Nat /\ n \in Nat
  <2>1. m \in 1 .. Len(U) - k
    BY <1>5, <1>7
  <2> HIDE DEF k
  <2>2. n + 1 = k + m /\ n \in Nat
    BY <1>1, <1>2, <1>3, <1>7
  <2> QED
    BY <1>1, <1>2, <2>1, <2>2
<1>9. PICK p : p = n + 1
  OBVIOUS
<1>10. p \in 1 .. Len(U) /\ p = k + m /\ p - 1 = n
  BY <1>8, <1>9
<1>11. PICK word \in StopWords : Found(word, U, p)
  BY <1>5, <1>7, <1>10
<1>12. WellFormed(U) => EndsWhole(SubSeq(U, 1, n))
  BY <1>1, <1>10, <1>11, CutIsWhole
<1>13. ASSUME NoStop(T) PROVE BeforeStop(U) = SubSeq(U, 1, n)
  <2>1. ASSUME NEW w \in StopWords, NEW q \in 1 .. Len(U), Found(w, U, q)
        PROVE  p <= q
    <3>1. q > k /\ q - k \in full
      BY <1>4, <1>13, <2>1
    <3>2. m <= q - k
      BY <1>7, <3>1
    <3>3. q \in Nat /\ k \in Nat /\ m \in Nat /\ p = k + m
      BY <1>1, <1>2, <1>8, <1>10
    <3> HIDE DEF k
    <3> QED
      BY <3>2, <3>3
  <2> QED
    BY <1>1, <1>10, <1>11, <2>1, BeforeStopIs
<1> QED
  BY <1>12, <1>13 DEF U
-----------------------------------------------------------------------------
LEMMA SInit == Init => SInv
<1> SUFFICES ASSUME Init PROVE SInv
  OBVIOUS
<1>1. /\ slot \in [text : {<<>>}, sent : {0}, more : {TRUE}, stop : {"none"}, decoded : {0},
                   newline : {FALSE}, lastNl : {0}, indent : Indents]
      /\ streamed = <<>> /\ raw = <<>> /\ mixed = FALSE
  BY DEF Init
<1>2. <<>> \in Seq(Byte) /\ Len(<<>>) = 0 /\ DOMAIN <<>> = {}
  BY EmptySeq
<1>3. /\ slot.text = <<>> /\ slot.sent = 0 /\ slot.more = TRUE /\ slot.stop = "none"
      /\ slot.decoded = 0
  BY <1>1
<1>4. slot \in ServerSlot
  <2>1. 0 \in 0 .. Predict
    BY TextAssumption
  <2>2. \A i \in Indents :
          [text |-> <<>>, sent |-> 0, more |-> TRUE, stop |-> "none", decoded |-> 0,
           newline |-> FALSE, lastNl |-> 0, indent |-> i] \in ServerSlot
    BY <1>2, <2>1 DEF ServerSlot, Stops
  <2>3. PICK i \in Indents :
          slot = [text |-> <<>>, sent |-> 0, more |-> TRUE, stop |-> "none", decoded |-> 0,
                  newline |-> FALSE, lastNl |-> 0, indent |-> i]
    BY <1>1
  <2> QED
    BY <2>2, <2>3
<1>5. TypeOK
  BY <1>1, <1>2, <1>3, <1>4 DEF TypeOK
<1>6. NoStop(<<>>) /\ Safe(<<>>, 0) /\ EndsWhole(<<>>)
  BY <1>2 DEF NoStop, Safe, EndsWhole
<1>7. Running
  <2>1. SubSeq(<<>>, 1, 0) = <<>>
    BY SubSeqEmpty
  <2>2. 0 < Predict
    BY TextAssumption
  <2> QED
    BY <1>1, <1>2, <1>3, <1>6, <2>1, <2>2 DEF Running
<1>8. BeforeStop(<<>>) = <<>> /\ IsPrefix(<<>>, <<>>)
  <2>1. BeforeStop(<<>>) = <<>>
    BY <1>2, <1>6, BeforeStopIs
  <2>2. IsPrefix(<<>>, <<>>)
    <3>1. PICK e \in Seq(Byte) : e = <<>> /\ Len(e) = 0
      BY <1>2
    <3>2. IsPrefix(e, e)
      <4>1. Len(e) <= Len(e) /\ \A j \in 1 .. Len(e) : e[j] = e[j]
        BY <3>1
      <4> QED
        BY <4>1, PrefixIs
    <3> QED
      BY <3>1, <3>2
  <2> QED
    BY <2>1, <2>2
<1>9. ContentBeforeStop /\ StopWordWithheld /\ WholeCharacters /\ HeldForReason
  BY <1>1, <1>3, <1>6, <1>8
     DEF ContentBeforeStop, StopWordWithheld, WholeCharacters, HeldForReason
<1> QED
  BY <1>5, <1>7, <1>9 DEF SInv

(* The joined parts of a text. *)
LEMMA JoinedParts ==
  ASSUME NEW U \in Seq(Byte), NEW k \in 0 .. Len(U), NEW n \in k .. Len(U)
  PROVE  SubSeq(U, 1, k) \o SubSeq(U, k + 1, n) = SubSeq(U, 1, n)
<1>1. Len(U) \in Nat
  BY LenProperties
<1>2. 1 \in 1 .. Len(U) + 1 /\ k \in 1 - 1 .. Len(U)
  BY <1>1
<1> QED
  BY <1>2, ConcatAdjacentSubSeq

(* A text that grows was well formed before. *)
LEMMA WasWellFormed ==
  ASSUME NEW T \in Seq(Byte), NEW token \in Seq(Byte), WellFormed(T \o token)
  PROVE  WellFormed(T)
<1> DEFINE U == T \o token
<1>1. /\ U \in Seq(Byte) /\ Len(U) = Len(T) + Len(token) /\ Len(T) \in Nat
      /\ Len(token) \in Nat /\ \A i \in 1 .. Len(T) : U[i] = T[i]
      /\ DOMAIN U = 1 .. Len(U) /\ DOMAIN T = 1 .. Len(T)
  BY Grown, LenProperties
<1>2. WellFormed(U)
  OBVIOUS
<1> HIDE DEF U
<1>3. \A i \in 1 .. Len(T) : i \in DOMAIN U
  BY <1>1
<1> QED
  BY <1>1, <1>2, <1>3 DEF WellFormed

(* What a sampled token does. *)
LEMMA SToken ==
  ASSUME SInv, NEW token \in Tokens,
         NEW late \in BOOLEAN, NEW full \in BOOLEAN, NEW eog \in BOOLEAN,
         ProcessToken(token, late, full, eog)
  PROVE  SInv'
<1> DEFINE T == raw
           U == T \o token
<1>1. /\ slot.more /\ slot \in ServerSlot /\ slot.stop = "none" /\ Running
      /\ raw \in Seq(Byte) /\ streamed \in Seq(Byte) /\ mixed \in BOOLEAN
  BY DEF ProcessToken, SInv, TypeOK
<1>2. token \in Seq(Byte) /\ Len(token) \in Nat
  BY TextAssumption, LenProperties
<1>3. U \in Seq(Byte) /\ Len(U) = Len(T) + Len(token) /\ Len(T) \in Nat
  BY <1>1, <1>2, Grown
<1>4. PICK s : s = [slot EXCEPT !.text = slot.text \o token, !.decoded = slot.decoded + 1]
  OBVIOUS
<1>5. /\ s \in ServerSlot /\ s.text = U /\ s.sent = slot.sent /\ s.more = TRUE
      /\ s.stop = "none" /\ s.indent = slot.indent
  <2>1. slot.decoded + 1 \in 0 .. Predict
    BY <1>1, Fields, TextAssumption DEF Running
  <2>2. slot.text \o token = U
    BY <1>1 DEF Running
  <2> HIDE DEF U
  <2> QED
    BY <1>1, <1>3, <1>4, <2>1, <2>2 DEF ServerSlot
<1>6. PICK scanned : scanned = Scan(s, Len(token))
  OBVIOUS
<1>7. PICK limited : limited = Limits(scanned.slot, late, full, eog)
  OBVIOUS
<1>8. PICK newline \in BOOLEAN : slot' = [limited EXCEPT !.newline = newline]
  <2>1. PICK text_to_send : slot' = [limited EXCEPT !.newline = @ \/ Contains(text_to_send, Newline)]
    BY <1>4, <1>6, <1>7 DEF ProcessToken
  <2>2. PICK nl \in BOOLEAN : nl = (limited.newline \/ Contains(text_to_send, Newline))
    OBVIOUS
  <2> QED
    BY <2>1, <2>2
<1>9. /\ streamed' = streamed \o scanned.chunk /\ raw' = U
      /\ mixed' = (mixed \/ (Len(token) > 1 /\ Incomplete(token)))
  BY <1>4, <1>6 DEF ProcessToken
<1>10. slot.sent \in 0 .. Len(T) /\ s.sent \in 0 .. Len(T) /\ s.sent <= Len(U)
       /\ s.sent \in 0 .. Len(U)
  BY <1>1, <1>2, <1>3, <1>5, Fields DEF Running
<1>11. PICK n \in s.sent .. Len(U) :
         /\ scanned.chunk = SubSeq(U, s.sent + 1, n)
         /\ \/ /\ Unscanned(s, n) \/ Withheld(s, Len(token), n) \/ AllSent(s, Len(token), n)
               /\ scanned.slot = [s EXCEPT !.sent = n]
            \/ /\ CutAt(s, Len(token), n)
               /\ scanned.slot =
                    [s EXCEPT !.more = FALSE, !.stop = "word",
                              !.text = SubSeq(U, 1, n), !.sent = n]
  <2> HIDE DEF U
  <2>1. s \in ServerSlot /\ s.more /\ s.sent <= Len(s.text) /\ Len(token) \in Nat
    BY <1>2, <1>5, <1>10
  <2>2. PICK n \in s.sent .. Len(s.text) :
           /\ Scan(s, Len(token)).chunk = SubSeq(s.text, s.sent + 1, n)
           /\ \/ /\ Unscanned(s, n) \/ Withheld(s, Len(token), n) \/ AllSent(s, Len(token), n)
                 /\ Scan(s, Len(token)).slot = [s EXCEPT !.sent = n]
              \/ /\ CutAt(s, Len(token), n)
                 /\ Scan(s, Len(token)).slot =
                      [s EXCEPT !.more = FALSE, !.stop = "word",
                                !.text = SubSeq(s.text, 1, n), !.sent = n]
    BY <2>1, Scanned
  <2> QED
    BY <1>5, <1>6, <2>2
<1>12. n \in 0 .. Len(U) /\ n \in Nat
  BY <1>3, <1>10
<1>13. streamed' = SubSeq(U, 1, n)
  <2>1. streamed = SubSeq(U, 1, slot.sent)
    <3>1. PICK a : a = SubSeq(U, 1, slot.sent)
      OBVIOUS
    <3>2. PICK b : b = SubSeq(T, 1, slot.sent)
      OBVIOUS
    <3>3. \A i \in 1 .. Len(T) : U[i] = T[i]
      BY <1>1, <1>2, Grown
    <3> HIDE DEF U
    <3>4. a \in Seq(Byte) /\ Len(a) = slot.sent /\ \A i \in 1 .. slot.sent : a[i] = U[i]
      BY <1>3, <1>5, <1>10, <3>1, Rest
    <3>5. b \in Seq(Byte) /\ Len(b) = slot.sent /\ \A i \in 1 .. slot.sent : b[i] = T[i]
      BY <1>1, <1>10, <3>2, Rest
    <3>6. \A i \in 1 .. slot.sent : a[i] = b[i]
      BY <1>3, <1>10, <3>3, <3>4, <3>5
    <3>7. a = b
      BY <3>4, <3>5, <3>6, SameText
    <3> QED
      BY <1>1, <3>1, <3>2, <3>7 DEF Running
  <2>2. SubSeq(U, 1, s.sent) \o SubSeq(U, s.sent + 1, n) = SubSeq(U, 1, n)
    <3> HIDE DEF U
    <3> QED
      BY <1>3, <1>10, JoinedParts
  <2> QED
    BY <1>5, <1>9, <1>11, <2>1, <2>2
<1>14. /\ Safe(T, s.sent) /\ EndsWhole(SubSeq(T, 1, s.sent))
       /\ Spelled' => /\ NoStop(T) /\ WellFormed(U)
                      /\ ~(Len(token) > 1 /\ Incomplete(token))
  <2>1. Safe(T, s.sent) /\ EndsWhole(SubSeq(T, 1, s.sent)) /\ (Spelled => NoStop(T))
    BY <1>1, <1>5 DEF Running
  <2>2. Spelled' => WellFormed(U) /\ ~mixed /\ ~(Len(token) > 1 /\ Incomplete(token))
    BY <1>9 DEF Spelled
  <2>3. WellFormed(U) => WellFormed(T)
    BY <1>1, <1>2, WasWellFormed
  <2> QED
    BY <2>1, <2>2, <2>3 DEF Spelled
<1>15. /\ SubSeq(U, 1, n) \in Seq(Byte) /\ Len(SubSeq(U, 1, n)) = n
       /\ \A i \in 1 .. n : SubSeq(U, 1, n)[i] = U[i]
  <2> HIDE DEF U
  <2> QED
    BY <1>3, <1>12, Rest
<1> HIDE DEF U, T
<1>16. IsPrefix(SubSeq(U, 1, n), U) /\ IsPrefix(SubSeq(U, 1, n), SubSeq(U, 1, n))
  <2>1. PICK kept : kept = SubSeq(U, 1, n)
    OBVIOUS
  <2>2. kept \in Seq(Byte) /\ Len(kept) = n /\ \A i \in 1 .. n : kept[i] = U[i]
    BY <1>15, <2>1
  <2>3. n <= Len(U)
    BY <1>3, <1>12
  <2>4. IsPrefix(kept, U)
    BY <1>3, <2>2, <2>3, PrefixIs
  <2>5. IsPrefix(kept, kept)
    BY <1>12, <2>2, PrefixIs
  <2> QED
    BY <2>1, <2>4, <2>5
<1>17. /\ scanned.slot \in ServerSlot /\ (scanned.slot.more <=> scanned.slot.stop = "none")
       /\ scanned.slot.indent = slot.indent /\ scanned.slot.sent = n
       /\ \/ scanned.slot.text = U
          \/ CutAt(s, Len(token), n) /\ scanned.slot.text = SubSeq(U, 1, n)
             /\ ~scanned.slot.more
  <2>1. CASE scanned.slot = [s EXCEPT !.sent = n]
    BY <1>5, <1>12, <2>1 DEF ServerSlot
  <2>2. CASE /\ CutAt(s, Len(token), n)
             /\ scanned.slot = [s EXCEPT !.more = FALSE, !.stop = "word",
                                         !.text = SubSeq(U, 1, n), !.sent = n]
    <3>1. PICK kept \in Seq(Byte) : kept = SubSeq(U, 1, n)
      BY <1>15
    <3>2. scanned.slot = [s EXCEPT !.more = FALSE, !.stop = "word", !.text = kept, !.sent = n]
      BY <2>2, <3>1
    <3>3. scanned.slot \in ServerSlot
      BY <1>5, <1>12, <3>2 DEF ServerSlot, Stops
    <3>4. /\ scanned.slot.more = FALSE /\ scanned.slot.stop = "word"
          /\ scanned.slot.text = kept /\ scanned.slot.sent = n
          /\ scanned.slot.indent = slot.indent
      BY <1>5, <3>2 DEF ServerSlot
    <3> QED
      BY <2>2, <3>1, <3>3, <3>4
  <2> QED
    BY <1>11, <2>1, <2>2
<1>18. Consistent(scanned.slot)
  BY <1>17 DEF Consistent
<1>19. Limited(scanned.slot, limited) /\ (limited.more => scanned.slot.decoded < Predict)
  BY <1>7, <1>18, LimitsAre
<1>20. /\ slot' \in ServerSlot /\ (slot'.more <=> slot'.stop = "none")
       /\ slot'.sent = n /\ slot'.indent = slot.indent
       /\ IsPrefix(slot'.text, scanned.slot.text)
       /\ slot'.more \/ slot.indent = 0 => slot'.text = scanned.slot.text
       /\ slot'.more => scanned.slot.more /\ slot'.decoded < Predict
  <2>1. /\ slot' \in ServerSlot /\ slot'.text = limited.text /\ slot'.sent = limited.sent
        /\ slot'.more = limited.more /\ slot'.stop = limited.stop
        /\ slot'.indent = limited.indent /\ slot'.decoded = limited.decoded
    BY <1>8, <1>19 DEF Limited, Consistent, ServerSlot
  <2> QED
    BY <1>17, <1>19, <2>1 DEF Limited, Consistent
<1>21. TypeOK'
  <2>1. streamed' \in Seq(Byte) /\ raw' \in Seq(Byte) /\ mixed' \in BOOLEAN
    BY <1>1, <1>3, <1>9, <1>13, <1>15
  <2> QED
    BY <1>20, <2>1 DEF TypeOK
<1>22. CASE CutAt(s, Len(token), n) /\ scanned.slot.text = SubSeq(U, 1, n) /\ ~scanned.slot.more
  <2>1. /\ WellFormed(U) => EndsWhole(SubSeq(U, 1, n))
        /\ NoStop(T) => BeforeStop(U) = SubSeq(U, 1, n)
    BY <1>1, <1>2, <1>5, <1>10, <1>14, <1>22, IsCut DEF U, T
  <2>2. ~slot'.more
    BY <1>20, <1>22
  <2>3. WholeCharacters'
    BY <1>9, <1>13, <2>1 DEF WholeCharacters
  <2>4. StopWordWithheld'
    BY <1>9, <1>13, <1>14, <1>16, <2>1 DEF StopWordWithheld
  <2>5. ContentBeforeStop'
    BY <1>9, <1>14, <1>20, <1>22, <2>1 DEF ContentBeforeStop
  <2>6. HeldForReason'
    BY <1>13, <1>20, <1>22 DEF HeldForReason
  <2> QED
    BY <1>21, <2>2, <2>3, <2>4, <2>5, <2>6 DEF SInv
<1>23. CASE /\ scanned.slot.text = U
            /\ Unscanned(s, n) \/ Withheld(s, Len(token), n) \/ AllSent(s, Len(token), n)
  <2>1. /\ Safe(U, n) /\ EndsWhole(SubSeq(U, 1, n))
        /\ n = Len(U) \/ PartialStop(From(U, n + 1)) \/ Incomplete(From(U, n + 1))
        /\ NoStop(T) /\ WellFormed(U) /\ ~(Len(token) > 1 /\ Incomplete(token)) => NoStop(U)
    BY <1>1, <1>2, <1>5, <1>10, <1>14, <1>23, NotCut DEF U, T
  <2>2. Spelled' => NoStop(U) /\ BeforeStop(U) = U
    BY <1>3, <1>14, <2>1, BeforeStopIs
  <2>3. slot'.more => Running'
    <3>1. n <= Len(U)
      BY <1>3, <1>12
    <3> QED
      BY <1>9, <1>13, <1>20, <1>23, <2>1, <2>2, <3>1 DEF Running
  <2>4. WholeCharacters'
    BY <1>13, <2>1 DEF WholeCharacters
  <2>5. StopWordWithheld'
    BY <1>9, <1>13, <1>16, <2>2 DEF StopWordWithheld
  <2>6. ContentBeforeStop'
    BY <1>9, <1>20, <1>23, <2>2 DEF ContentBeforeStop
  <2>7. HeldForReason'
    <3> SUFFICES ASSUME slot'.indent = 0, streamed' # slot'.text
                 PROVE  /\ IsPrefix(streamed', slot'.text)
                        /\ LET held == From(slot'.text, Len(streamed') + 1)
                           IN  PartialStop(held) \/ Incomplete(held)
      BY DEF HeldForReason
    <3>1. slot'.text = U
      BY <1>20, <1>23
    <3>2. n # Len(U)
      <4>1. SubSeq(U, 1, Len(U)) = U
        BY <1>3, SubSeqFull
      <4> QED
        BY <1>13, <3>1, <4>1
    <3>3. Len(streamed') = n
      BY <1>13, <1>15
    <3> QED
      BY <1>13, <1>16, <2>1, <3>1, <3>2, <3>3
  <2> QED
    BY <1>21, <2>3, <2>4, <2>5, <2>6, <2>7 DEF SInv
<1>24. \/ CutAt(s, Len(token), n) /\ scanned.slot.text = SubSeq(U, 1, n) /\ ~scanned.slot.more
       \/ /\ scanned.slot.text = U
          /\ Unscanned(s, n) \/ Withheld(s, Len(token), n) \/ AllSent(s, Len(token), n)
  <2>1. CASE CutAt(s, Len(token), n)
    <3>1. ~(Unscanned(s, n) \/ Withheld(s, Len(token), n) \/ AllSent(s, Len(token), n))
      BY <2>1 DEF CutAt, Unscanned, Withheld, AllSent
    <3>2. scanned.slot = [s EXCEPT !.more = FALSE, !.stop = "word",
                                   !.text = SubSeq(U, 1, n), !.sent = n]
      BY <1>11, <3>1 DEF U
    <3>3. scanned.slot.text = SubSeq(U, 1, n) /\ scanned.slot.more = FALSE
      BY <1>5, <3>2 DEF ServerSlot
    <3> QED
      BY <2>1, <3>3
  <2>2. CASE ~CutAt(s, Len(token), n)
    BY <1>11, <1>17, <2>2
  <2> QED
    BY <2>1, <2>2
<1> QED
  BY <1>22, <1>23, <1>24

LEMMA SNext == SInv /\ [Next]_vars => SInv'
<1> SUFFICES ASSUME SInv, [Next]_vars PROVE SInv'
  OBVIOUS
<1>1. CASE UNCHANGED vars
  BY <1>1 DEF vars, SInv, TypeOK, Running, Spelled, ContentBeforeStop, StopWordWithheld,
              WholeCharacters, HeldForReason
<1>2. CASE Next
  BY <1>2, SToken DEF Next
<1> QED
  BY <1>1, <1>2

LEMMA SAlways == Spec => []SInv
BY SInit, SNext, PTL DEF Spec

(* The slot's fields keep their types: no more than n_predict tokens are   *)
(* sampled, and a generation ends with a reason.                           *)
THEOREM SlotTyped == Spec => []TypeOK
<1>1. SInv => TypeOK
  BY DEF SInv
<1> QED
  BY <1>1, SAlways, PTL

(* The content of the answer ends where the first stop word begins, though *)
(* only the unsent text is searched, and only near its end.                *)
THEOREM ContentEndsBeforeStop == Spec => []ContentBeforeStop
<1>1. SInv => ContentBeforeStop
  BY DEF SInv
<1> QED
  BY <1>1, SAlways, PTL

(* No byte of a stop word is streamed, whatever tokens it comes in. *)
THEOREM StopWordsWithheld == Spec => []StopWordWithheld
<1>1. SInv => StopWordWithheld
  BY DEF SInv
<1> QED
  BY <1>1, SAlways, PTL

(* Chunks end with whole characters, also the one in front of a stop word. *)
THEOREM ChunksAreWhole == Spec => []WholeCharacters
<1>1. SInv => WholeCharacters
  BY DEF SInv
<1> QED
  BY <1>1, SAlways, PTL

(* Nothing is held back that could have been sent. *)
THEOREM NothingHeldIdly == Spec => []HeldForReason
<1>1. SInv => HeldForReason
  BY DEF SInv
<1> QED
  BY <1>1, SAlways, PTL
=============================================================================
