----------------------- MODULE CacheOperators_proofs ------------------------
(***************************************************************************)
(* What the operators of PromptCache and KVCache compute, for caches,      *)
(* prompts and batches of any size: the search for free cells, what frees, *)
(* moves and fills them, and what is taken from a sequence of tokens.      *)
(***************************************************************************)
EXTENDS PromptCache, Subsequences_proofs

Size == NSlots * Ctx

(* The options, as often as they are needed. *)
LEMMA Options ==
  /\ NSlots \in Nat \ {0} /\ Ctx \in Nat /\ Ctx >= 4
  /\ Batch \in Nat \ {0} /\ UBatch \in Nat \ {0} /\ UBatch <= Batch /\ Batch <= Size
  /\ AddBos \in {0, 1} /\ CacheReuse \in Nat /\ MaxRequests \in Nat
  /\ Discards \subseteq 0 .. 2 /\ Keeps \subseteq Int
  /\ Prompts \subseteq Seq(Nat) /\ Vocab \subseteq Nat
  /\ CtxShifts \subseteq BOOLEAN /\ Caching \subseteq BOOLEAN
  /\ DecodeMayFail \in BOOLEAN /\ EarlyRequest \in BOOLEAN
BY RoundAssumption DEF RoundAssumption, Size

LEMMA SizeIs == Size \in Nat \ {0} /\ KV!Cells = 0 .. Size - 1
<1>1. \A m, n \in Nat \ {0} : m * n \in Nat \ {0}
  OBVIOUS
<1>2. NSlots \in Nat \ {0} /\ Ctx \in Nat \ {0}
  BY Options
<1>3. Size \in Nat \ {0}
  BY <1>1, <1>2 DEF Size
<1> QED
  BY <1>3 DEF KV!Cells, Size

LEMMA SlotsAre == Slots = 1 .. NSlots /\ NoSlot \notin Slots /\ Slots \in SUBSET Nat
BY Options DEF Slots, NoSlot

(* A nonempty finite set of naturals has a smallest element. *)
LEMMA MinIs ==
  ASSUME NEW S \in SUBSET Nat, IsFiniteSet(S), S # {}
  PROVE  Min(S) \in S /\ \A y \in S : Min(S) <= y
<1>1. \E x \in S : \A y \in S : x <= y
  BY LeastElement
<1> QED
  BY <1>1 DEF Min

(* The smallest of two integers, the largest of two. *)
LEMMA MinOfTwo ==
  ASSUME NEW a \in Int, NEW b \in Int
  PROVE  Min({a, b}) = IF a <= b THEN a ELSE b
BY DEF Min

LEMMA MaxOfTwo ==
  ASSUME NEW a \in Int, NEW b \in Int
  PROVE  Max({a, b}) = IF a <= b THEN b ELSE a
BY DEF Max

(* A set of numbers up to n with an element has a largest one. *)
LEMMA MaxIs ==
  ASSUME NEW n \in Nat, NEW S \in SUBSET (0 .. n), S # {}
  PROVE  Max(S) \in S /\ \A y \in S : y <= Max(S)
<1> DEFINE R == {x \in 0 .. n : n - x \in S}
<1>1. R \in SUBSET Nat /\ IsFiniteSet(R)
  <2>1. IsFiniteSet(0 .. n)
    BY FS_Interval
  <2>2. R \in SUBSET (0 .. n)
    OBVIOUS
  <2> QED
    BY <2>1, <2>2, FS_Subset
<1>2. \A y \in S : n - y \in R
  OBVIOUS
<1>3. PICK x \in R : \A y \in R : x <= y
  <2>1. R # {}
    BY <1>2
  <2> HIDE DEF R
  <2> QED
    BY <1>1, <2>1, LeastElement
<1>4. \A y \in S : y <= n - x
  <2> TAKE y \in S
  <2>1. x <= n - y
    BY <1>2, <1>3
  <2> QED
    BY <1>3, <2>1
<1>5. \E z \in S : \A y \in S : z >= y
  BY <1>3, <1>4
<1> QED
  BY <1>5 DEF Max
-----------------------------------------------------------------------------
(***************************************************************************)
(* llama_kv_cache_find_slot.                                               *)
(***************************************************************************)
(* The search finds n free cells in a row, or there are none. *)
LEMMA SearchIs ==
  ASSUME NEW cache, cache.head \in 0 .. Size, NEW n \in 0 .. Size
  PROVE  LET r == KV!FindSlot(cache, n)
         IN  /\ r \in [found : BOOLEAN, head : 0 .. Size]
             /\ r.found => r.head + n <= Size /\ KV!Taken(cache, r.head, n) = {}
             /\ ~r.found => \A h \in 0 .. Size - n : KV!Taken(cache, h, n) # {}
<1> DEFINE D == (0 .. Size) \X (0 .. Size)
           start == IF cache.head > KV!Used(cache) + 2 * n THEN 0 ELSE cache.head
           Tk(h) == KV!Taken(cache, h, n)
           H(p) == IF p[1] + n > Size THEN 0 ELSE p[1]
           T(p) == IF p[1] + n > Size THEN p[2] + Size - p[1] ELSE p[2]
           Skip(p) == Min(Tk(H(p))) + 1
           Val(f, p) == IF Tk(H(p)) = {} THEN [found |-> TRUE, head |-> H(p)]
                        ELSE IF T(p) + Skip(p) >= Size
                             THEN [found |-> FALSE, head |-> H(p) + Skip(p)]
                             ELSE f[<<H(p) + Skip(p), T(p) + Skip(p)>>]
           Solves(f) == f = [p \in D |-> Val(f, p)]
           search == CHOOSE f : Solves(f)
<1>1. KV!FindSlot(cache, n) = search[<<start, 0>>]
  BY DEF KV!FindSlot, Size, KV!Min, Min
<1>2. Size \in Nat \ {0} /\ n \in Nat /\ start \in 0 .. Size
  BY SizeIs
<1>3. /\ \A h : Tk(h) \in SUBSET (0 .. n - 1)
      /\ \A h \in Nat, k \in Nat : \A i \in Tk(h) :
           h <= k /\ k <= h + i => h + i - k \in Tk(k)
  <2>1. \A h : Tk(h) = {i \in 0 .. n - 1 : cache.cells[h + i] # KV!Free}
    BY DEF KV!Taken
  <2> HIDE DEF Tk
  <2>2. ASSUME NEW h \in Nat, NEW k \in Nat, NEW i \in Tk(h), h <= k, k <= h + i
        PROVE  h + i - k \in Tk(k)
    <3>1. i \in 0 .. n - 1 /\ cache.cells[h + i] # KV!Free
      BY <2>1
    <3>2. PICK j : j = h + i - k
      OBVIOUS
    <3>3. j \in 0 .. n - 1 /\ k + j = h + i
      BY <1>2, <2>2, <3>1, <3>2
    <3>4. j \in Tk(k)
      BY <2>1, <3>1, <3>3
    <3> QED
      BY <3>2, <3>4
  <2> QED
    BY <2>1, <2>2
<1> HIDE DEF start, Tk
<1>4. ASSUME NEW p \in D
      PROVE  /\ H(p) \in 0 .. Size - n /\ T(p) \in Nat /\ T(p) >= p[2]
             /\ Tk(H(p)) # {} =>
                  /\ Skip(p) \in 1 .. n
                  /\ \A k \in H(p) .. H(p) + Skip(p) - 1 : Tk(k) # {}
                  /\ T(p) + Skip(p) < Size => <<H(p) + Skip(p), T(p) + Skip(p)>> \in D
  <2>1. H(p) \in 0 .. Size - n /\ T(p) \in Nat /\ T(p) >= p[2]
    BY <1>2
  <2>2. ASSUME Tk(H(p)) # {}
        PROVE  /\ Skip(p) \in 1 .. n
               /\ \A k \in H(p) .. H(p) + Skip(p) - 1 : Tk(k) # {}
    <3>1. PICK h \in 0 .. Size - n : h = H(p)
      BY <2>1
    <3>2. PICK m : m = Min(Tk(h))
      OBVIOUS
    <3>3. m \in Tk(h) /\ m \in 0 .. n - 1
      <4>1. IsFiniteSet(0 .. n - 1) /\ 0 .. n - 1 \in SUBSET Nat
        BY <1>2, FS_Interval
      <4>2. IsFiniteSet(Tk(h)) /\ Tk(h) \in SUBSET Nat
        BY <1>3, <4>1, FS_Subset
      <4>3. m \in Tk(h)
        BY <2>2, <3>1, <3>2, <4>2, MinIs
      <4> QED
        BY <1>3, <4>3
    <3>4. Skip(p) = m + 1
      BY <3>1, <3>2
    <3>5. ASSUME NEW k \in h .. h + m
          PROVE  Tk(k) # {}
      <4>1. h \in Nat /\ k \in Nat /\ h <= k /\ k <= h + m
        BY <1>2, <3>1, <3>3
      <4> QED
        BY <1>3, <3>3, <4>1
    <3> HIDE DEF H, Skip
    <3>6. H(p) .. H(p) + Skip(p) - 1 = h .. h + m
      BY <1>2, <3>1, <3>3, <3>4
    <3>7. Skip(p) \in 1 .. n
      BY <1>2, <3>3, <3>4
    <3> QED
      BY <3>5, <3>6, <3>7
  <2> HIDE DEF H, T, Skip
  <2> QED
    BY <1>2, <2>1, <2>2
<1> HIDE DEF H, T, Skip
<1> USE DEF Val, Solves
<1> HIDE DEF D
<1>5. \A p \in D : p[1] \in 0 .. Size /\ p[2] \in 0 .. Size
  BY DEF D
<1>6. \E f : Solves(f)
  <2> DEFINE Partly(k) == \E f : /\ f = [p \in D |-> f[p]]
                                 /\ \A p \in D : p[2] + k > Size => f[p] = Val(f, p)
             Bad == {k \in 0 .. Size + 1 : ~Partly(k)}
  <2>1. Partly(0)
    <3> DEFINE f == [p \in D |-> 0]
    <3>1. f = [p \in D |-> f[p]]
      OBVIOUS
    <3>2. \A p \in D : ~(p[2] + 0 > Size)
      BY <1>2, <1>5
    <3> HIDE DEF f
    <3> QED
      BY <3>1, <3>2
  <2>2. ASSUME NEW k \in 0 .. Size, Partly(k)
        PROVE  Partly(k + 1)
    <3>1. PICK f : /\ f = [p \in D |-> f[p]]
                   /\ \A p \in D : p[2] + k > Size => f[p] = Val(f, p)
      BY <2>2
    <3> HIDE DEF Val
    <3> DEFINE g == [p \in D |-> IF p[2] + k = Size THEN Val(f, p) ELSE f[p]]
    <3>2. g = [p \in D |-> g[p]]
      OBVIOUS
    <3>3. \A p \in D : g[p] = IF p[2] + k = Size THEN Val(f, p) ELSE f[p]
      OBVIOUS
    <3> HIDE DEF g
    <3>4. ASSUME NEW p \in D, p[2] + k >= Size
          PROVE  Val(g, p) = Val(f, p)
      <4>1. CASE Tk(H(p)) = {} \/ T(p) + Skip(p) >= Size
        BY <4>1 DEF Val
      <4>2. CASE Tk(H(p)) # {} /\ ~(T(p) + Skip(p) >= Size)
        <5>1. PICK q : q = <<H(p) + Skip(p), T(p) + Skip(p)>>
          OBVIOUS
        <5>2. /\ Skip(p) \in 1 .. n /\ T(p) \in Nat /\ T(p) >= p[2]
              /\ T(p) + Skip(p) < Size => q \in D
          BY <1>4, <4>2, <5>1
        <5>3. q \in D
          BY <1>2, <4>2, <5>2
        <5>4. q[2] = T(p) + Skip(p)
          BY <5>1
        <5>5. q[2] + k # Size
          BY <1>2, <1>5, <3>4, <5>2, <5>4
        <5>6. g[q] = f[q]
          BY <3>3, <5>3, <5>5
        <5> QED
          BY <4>2, <5>1, <5>6 DEF Val
      <4> QED
        BY <4>1, <4>2
    <3>5. ASSUME NEW p \in D, p[2] + (k + 1) > Size
          PROVE  g[p] = Val(g, p)
      <4>1. p[2] + k >= Size
        BY <1>2, <1>5, <3>5
      <4>2. Val(g, p) = Val(f, p)
        BY <3>4, <4>1
      <4>3. CASE p[2] + k = Size
        BY <3>3, <4>2, <4>3
      <4>4. CASE p[2] + k # Size
        <5>1. p[2] + k > Size
          BY <1>2, <1>5, <4>1, <4>4
        <5> QED
          BY <3>1, <3>3, <4>2, <4>4, <5>1
      <4> QED
        BY <4>3, <4>4
    <3> QED
      BY <3>2, <3>5 DEF Val
  <2> HIDE DEF Partly
  <2>3. Bad = {}
    <3> SUFFICES ASSUME Bad # {}
                 PROVE  FALSE
      OBVIOUS
    <3>1. Bad \in SUBSET Nat /\ IsFiniteSet(Bad)
      <4>1. IsFiniteSet(0 .. Size + 1)
        BY <1>2, FS_Interval
      <4> QED
        BY <1>2, <4>1, FS_Subset
    <3>2. PICK k \in Bad : \A y \in Bad : k <= y
      BY <3>1, LeastElement
    <3>3. k \in 1 .. Size + 1
      BY <1>2, <2>1, <3>2
    <3>4. k - 1 \in 0 .. Size /\ k - 1 \notin Bad /\ (k - 1) + 1 = k
      BY <1>2, <3>2, <3>3
    <3>5. Partly(k - 1)
      BY <1>2, <3>4
    <3>6. Partly((k - 1) + 1)
      BY <2>2, <3>4, <3>5
    <3> QED
      BY <3>2, <3>4, <3>6
  <2>4. Partly(Size + 1)
    BY <1>2, <2>3
  <2>5. PICK f : /\ f = [p \in D |-> f[p]]
                 /\ \A p \in D : p[2] + (Size + 1) > Size => f[p] = Val(f, p)
    BY <2>4 DEF Partly
  <2> HIDE DEF Val
  <2>6. \A p \in D : f[p] = Val(f, p)
    BY <1>2, <1>5, <2>5
  <2>7. f = [p \in D |-> Val(f, p)]
    BY <2>5, <2>6
  <2> QED
    BY <2>7
<1>7. \A p \in D : search[p] = Val(search, p)
  <2>1. Solves(search)
    <3> HIDE DEF Solves
    <3> QED
      BY <1>6, Zenon
  <2> HIDE DEF search, Val
  <2> QED
    BY <2>1
<1> HIDE DEF search
<1> DEFINE Ahead(p) == /\ start <= p[1] /\ p[2] = p[1] - start
                       /\ \A h \in 0 .. Size - n : start <= h /\ h < p[1] => Tk(h) # {}
           Around(p) == /\ p[2] = p[1] + Size - start
                        /\ \A h \in 0 .. Size - n : start <= h \/ h < p[1] => Tk(h) # {}
           Found(r) == /\ r \in [found : BOOLEAN, head : 0 .. Size]
                       /\ r.found => r.head + n <= Size /\ Tk(r.head) = {}
                       /\ ~r.found => \A h \in 0 .. Size - n : Tk(h) # {}
           Right(k) == \A p \in D : p[2] + k >= Size /\ (Ahead(p) \/ Around(p)) => Found(search[p])
           Wrong == {k \in 0 .. Size : ~Right(k)}
<1> HIDE DEF Val
<1>8. ASSUME NEW p \in D, Ahead(p) \/ Around(p),
             \A q \in D : q[2] > p[2] /\ (Ahead(q) \/ Around(q)) => Found(search[q])
      PROVE  Found(search[p])
  <2>1. PICK h \in 0 .. Size - n : h = H(p)
    BY <1>4
  <2>2. PICK t \in Nat : t = T(p) /\ t >= p[2]
    BY <1>4
  <2>3. p[1] \in 0 .. Size /\ p[2] \in 0 .. Size /\ start \in 0 .. Size
    BY <1>2, <1>5
  <2>4. CASE Tk(h) = {}
    <3>1. search[p] = [found |-> TRUE, head |-> h]
      BY <1>7, <2>1, <2>4 DEF Val
    <3>2. h \in 0 .. Size /\ h + n <= Size
      BY <1>2, <2>1
    <3> QED
      BY <2>4, <3>1, <3>2
  <2>5. CASE Tk(h) # {}
    <3>1. PICK k \in 1 .. n : k = Skip(p)
      BY <1>4, <2>1, <2>5
    <3>2. \A l \in h .. h + k - 1 : Tk(l) # {}
      BY <1>4, <2>1, <2>5, <3>1
    <3>3. /\ p[1] + n > Size => h = 0 /\ t = p[2] + Size - p[1]
          /\ ~(p[1] + n > Size) => h = p[1] /\ t = p[2]
      BY <2>1, <2>2 DEF H, T
    <3>4. h + k \in 0 .. Size
      BY <1>2, <2>1, <3>1
    <3> HIDE DEF Ahead, Around, Found
    <3>5. CASE t + k >= Size
      <4>1. search[p] = [found |-> FALSE, head |-> h + k]
        BY <1>7, <2>1, <2>2, <2>5, <3>1, <3>5 DEF Val
      <4>2. ASSUME NEW l \in 0 .. Size - n
            PROVE  Tk(l) # {}
        <5>1. CASE Ahead(p)
          <6>1. CASE p[1] + n > Size
            <7>1. h = 0 /\ t = Size - start
              BY <1>2, <2>3, <3>3, <5>1, <6>1 DEF Ahead
            <7>2. l < p[1] /\ (l < start => l \in h .. h + k - 1)
              BY <1>2, <2>3, <3>1, <3>5, <6>1, <7>1
            <7> QED
              BY <1>2, <2>3, <3>2, <5>1, <7>2 DEF Ahead
          <6>2. CASE ~(p[1] + n > Size)
            <7>1. start = 0 /\ h = p[1] /\ h + k = Size
              BY <1>2, <2>3, <3>1, <3>3, <3>4, <3>5, <5>1, <6>2 DEF Ahead
            <7>2. l < p[1] \/ l \in h .. h + k - 1
              BY <1>2, <2>3, <3>1, <7>1
            <7> QED
              BY <3>2, <5>1, <7>1, <7>2 DEF Ahead
          <6> QED
            BY <6>1, <6>2
        <5>2. CASE Around(p)
          <6>1. CASE p[1] + n > Size
            <7>1. l < p[1]
              BY <1>2, <2>3, <6>1
            <7> QED
              BY <5>2, <7>1 DEF Around
          <6>2. CASE ~(p[1] + n > Size)
            <7>1. h = p[1] /\ h + k >= start
              BY <1>2, <2>3, <3>1, <3>3, <3>5, <5>2, <6>2 DEF Around
            <7>2. l < p[1] \/ l \in h .. h + k - 1 \/ start <= l
              BY <1>2, <2>3, <3>1, <7>1
            <7> QED
              BY <3>2, <5>2, <7>2 DEF Around
          <6> QED
            BY <6>1, <6>2
        <5> QED
          BY <1>8, <5>1, <5>2
      <4> QED
        BY <3>4, <4>1, <4>2 DEF Found
    <3>6. CASE t + k < Size
      <4>1. PICK q : q = <<h + k, t + k>>
        OBVIOUS
      <4>2. q \in D /\ search[p] = search[q]
        <5>1. q \in D
          BY <1>4, <2>1, <2>2, <2>5, <3>1, <3>6, <4>1
        <5>2. ~(t + k >= Size)
          BY <1>2, <3>1, <3>6
        <5>3. Val(search, p) = search[<<h + k, t + k>>]
          BY <2>1, <2>2, <2>5, <3>1, <5>2 DEF Val
        <5> QED
          BY <1>7, <4>1, <5>1, <5>3
      <4>3. q[1] = h + k /\ q[2] = t + k /\ q[2] > p[2]
        BY <2>2, <2>3, <3>1, <4>1
      <4>4. Ahead(q) \/ Around(q)
        <5>1. CASE Ahead(p) /\ ~(p[1] + n > Size)
          <6>1. start <= q[1] /\ q[2] = q[1] - start
            BY <2>3, <3>1, <3>3, <4>3, <5>1 DEF Ahead
          <6>2. ASSUME NEW l \in 0 .. Size - n, start <= l, l < q[1]
                PROVE  Tk(l) # {}
            <7>1. l < p[1] \/ l \in h .. h + k - 1
              BY <1>2, <2>3, <3>1, <3>3, <4>3, <5>1, <6>2
            <7> QED
              BY <3>2, <5>1, <6>2, <7>1 DEF Ahead
          <6> QED
            BY <6>1, <6>2 DEF Ahead
        <5>2. CASE Ahead(p) /\ p[1] + n > Size
          <6>1. h = 0 /\ q[2] = q[1] + Size - start
            BY <1>2, <2>3, <3>1, <3>3, <4>3, <5>2 DEF Ahead
          <6>2. ASSUME NEW l \in 0 .. Size - n, start <= l \/ l < q[1]
                PROVE  Tk(l) # {}
            <7>1. l < p[1] /\ (start <= l \/ l \in h .. h + k - 1)
              BY <1>2, <2>3, <3>1, <4>3, <5>2, <6>1, <6>2
            <7> QED
              BY <3>2, <5>2, <7>1 DEF Ahead
          <6> QED
            BY <6>1, <6>2 DEF Around
        <5>3. CASE Around(p) /\ ~(p[1] + n > Size)
          <6>1. q[2] = q[1] + Size - start
            BY <1>2, <2>3, <3>1, <3>3, <4>3, <5>3 DEF Around
          <6>2. ASSUME NEW l \in 0 .. Size - n, start <= l \/ l < q[1]
                PROVE  Tk(l) # {}
            <7>1. l < p[1] \/ l \in h .. h + k - 1 \/ start <= l
              BY <1>2, <2>3, <3>1, <3>3, <4>3, <5>3, <6>2
            <7> QED
              BY <3>2, <5>3, <6>2, <7>1 DEF Around
          <6> QED
            BY <6>1, <6>2 DEF Around
        <5>4. CASE Around(p) /\ p[1] + n > Size
          <6>1. t >= Size
            BY <1>2, <2>3, <3>3, <5>4 DEF Around
          <6> QED
            BY <1>2, <3>1, <3>6, <6>1
        <5> QED
          BY <1>8, <5>1, <5>2, <5>3, <5>4
      <4> QED
        BY <1>8, <4>2, <4>3, <4>4
    <3> QED
      BY <1>2, <3>1, <3>5, <3>6
  <2> QED
    BY <2>4, <2>5
<1> HIDE DEF Ahead, Around, Found
<1>9. Wrong = {}
  <2> SUFFICES ASSUME Wrong # {}
               PROVE  FALSE
    OBVIOUS
  <2>1. Wrong \in SUBSET Nat /\ IsFiniteSet(Wrong)
    <3>1. IsFiniteSet(0 .. Size) /\ 0 .. Size \in SUBSET Nat
      BY <1>2, FS_Interval
    <3> QED
      BY <3>1, FS_Subset
  <2>2. PICK k \in Wrong : \A y \in Wrong : k <= y
    BY <2>1, LeastElement
  <2>3. PICK p \in D : p[2] + k >= Size /\ (Ahead(p) \/ Around(p)) /\ ~Found(search[p])
    BY <2>2
  <2>4. ASSUME NEW q \in D, q[2] > p[2], Ahead(q) \/ Around(q)
        PROVE  Found(search[q])
    <3>1. k \in 1 .. Size
      BY <1>2, <1>5, <2>2, <2>3, <2>4
    <3>2. k - 1 \in 0 .. Size /\ k - 1 \notin Wrong
      BY <1>2, <2>2, <3>1
    <3>3. q[2] + (k - 1) >= Size
      BY <1>2, <1>5, <2>3, <2>4, <3>1
    <3>4. Right(k - 1)
      BY <3>2
    <3> QED
      BY <2>4, <3>3, <3>4
  <2> QED
    BY <1>8, <2>3, <2>4
<1>10. PICK p : p = <<start, 0>>
  OBVIOUS
<1>11. p \in D /\ p[1] = start /\ p[2] = 0
  BY <1>2, <1>10 DEF D
<1>12. Ahead(p)
  BY <1>2, <1>11 DEF Ahead
<1>13. Right(Size)
  BY <1>2, <1>9
<1>14. Found(search[p])
  BY <1>2, <1>11, <1>12, <1>13
<1> QED
  BY <1>1, <1>10, <1>14 DEF Found, Tk
-----------------------------------------------------------------------------
(***************************************************************************)
(* The operators on cells.                                                 *)
(***************************************************************************)
Caches == KV!Caches(Nat)
Cells == KV!Cells
Cell == {KV!Free} \cup [seq : Slots, pos : Nat, tok : Nat]

LEMMA CachesAre ==
  /\ Caches = [cells : [Cells -> Cell], head : 0 .. Size]
  /\ Cells \in SUBSET Nat /\ IsFiniteSet(Cells) /\ Cells = 0 .. Size - 1
  /\ KV!Free.seq \notin Slots /\ KV!Free.pos = -1 /\ KV!Free.seq = NoSlot
<1>1. Cells = 0 .. Size - 1 /\ Size \in Nat
  BY SizeIs DEF Cells
<1>2. Cells \in SUBSET Nat /\ IsFiniteSet(Cells)
  BY <1>1, FS_Interval
<1> QED
  BY <1>1, <1>2, SlotsAre DEF Caches, KV!Caches, KV!Free, Cell, Cells, Size

LEMMA CellTyped ==
  ASSUME NEW c \in Cell
  PROVE  /\ c.pos \in Int
         /\ c.seq \in Slots => /\ c \in [seq : Slots, pos : Nat, tok : Nat]
                              /\ c.pos \in Nat /\ c.tok \in Nat
BY CachesAre DEF Cell

(* Cells that are freed. *)
LEMMA FreeCellsIs ==
  ASSUME NEW cells \in [Cells -> Cell], NEW head \in 0 .. Size, NEW gone \in SUBSET Cells,
         NEW cache, cache.cells = cells, cache.head = head
  PROVE  LET r == KV!FreeCells(cache, gone)
         IN  /\ r \in Caches
             /\ r.cells = [i \in Cells |-> IF i \in gone THEN KV!Free ELSE cells[i]]
<1>1. KV!FreeCells(cache, gone) =
        [cells |-> [i \in Cells |-> IF i \in gone THEN KV!Free ELSE cells[i]],
         head |-> Min({head} \cup gone)]
  BY DEF KV!FreeCells, Cells, KV!Min, Min
<1>2. Min({head} \cup gone) \in 0 .. Size
  <2>1. Size \in Nat /\ Cells = 0 .. Size - 1 /\ IsFiniteSet(Cells)
    BY SizeIs, CachesAre
  <2>2. IsFiniteSet(gone)
    BY <2>1, FS_Subset
  <2>3. IsFiniteSet({head} \cup gone)
    <3>1. IsFiniteSet(gone \cup {head})
      BY <2>2, FS_AddElement
    <3>2. gone \cup {head} = {head} \cup gone
      OBVIOUS
    <3> QED
      BY <3>1, <3>2
  <2>4. {head} \cup gone \in SUBSET Nat /\ {head} \cup gone \in SUBSET (0 .. Size)
        /\ {head} \cup gone # {}
    BY <2>1
  <2>5. Min({head} \cup gone) \in {head} \cup gone
    BY <2>3, <2>4, MinIs
  <2> QED
    BY <2>4, <2>5
<1>3. [i \in Cells |-> IF i \in gone THEN KV!Free ELSE cells[i]] \in [Cells -> Cell]
  BY DEF Cell
<1> QED
  BY <1>1, <1>2, <1>3, CachesAre

(* llama_kv_cache_seq_rm *)
LEMMA SeqRmIs ==
  ASSUME NEW cache \in Caches, NEW s \in Slots, NEW p0 \in Int, NEW p1 \in Int
  PROVE  LET r == KV!SeqRm(cache, s, p0, p1)
         IN  /\ r \in Caches
             /\ \A i \in Cells :
                  r.cells[i] =
                    IF /\ cache.cells[i].seq = s
                       /\ cache.cells[i].pos >= p0 /\ (p1 < 0 \/ cache.cells[i].pos < p1)
                    THEN KV!Free ELSE cache.cells[i]
<1> DEFINE gone == KV!Owned(cache, s, p0, p1)
           r == KV!SeqRm(cache, s, p0, p1)
<1>1. cache.cells \in [Cells -> Cell] /\ cache.head \in 0 .. Size
  BY CachesAre
<1>2. gone = {i \in Cells : cache.cells[i].seq = s /\ KV!Within(cache.cells[i].pos, p0, p1)}
  BY DEF KV!Owned, Cells
<1>3. r \in Caches
      /\ r.cells = [i \in Cells |-> IF i \in gone THEN KV!Free ELSE cache.cells[i]]
  <2>1. r = KV!FreeCells(cache, gone) /\ gone \in SUBSET Cells
    BY <1>2 DEF KV!SeqRm
  <2> HIDE DEF gone, r
  <2> QED
    BY <1>1, <2>1, FreeCellsIs
<1> HIDE DEF gone, r
<1>4. ASSUME NEW i \in Cells
      PROVE  i \in gone <=> /\ cache.cells[i].seq = s
                            /\ cache.cells[i].pos >= p0 /\ (p1 < 0 \/ cache.cells[i].pos < p1)
  <2>1. cache.cells[i].seq = s => cache.cells[i].pos \in Nat
    BY <1>1, CachesAre DEF Cell
  <2> QED
    BY <1>2, <2>1 DEF KV!Within
<1> QED
  BY <1>3, <1>4 DEF r

(* llama_kv_cache_seq_add *)
LEMMA SeqAddIs ==
  ASSUME NEW cache \in Caches, NEW s \in Slots, NEW p0 \in Int, NEW p1 \in Int, NEW delta \in Int
  PROVE  LET r == KV!SeqAdd(cache, s, p0, p1, delta)
         IN  /\ r \in Caches
             /\ p0 = p1 => r = cache
             /\ p0 # p1 =>
                  \A i \in Cells :
                    IF /\ cache.cells[i].seq = s
                       /\ cache.cells[i].pos >= p0 /\ (p1 < 0 \/ cache.cells[i].pos < p1)
                    THEN IF cache.cells[i].pos + delta < 0 THEN r.cells[i] = KV!Free
                         ELSE /\ r.cells[i].seq = s /\ r.cells[i].tok = cache.cells[i].tok
                              /\ r.cells[i].pos = cache.cells[i].pos + delta
                    ELSE r.cells[i] = cache.cells[i]
<1> DEFINE moved == KV!Owned(cache, s, p0, p1)
           gone == {i \in moved : cache.cells[i].pos + delta < 0}
           cells == [i \in Cells |-> IF i \in gone THEN KV!Free
                                     ELSE IF i \in moved THEN [cache.cells[i] EXCEPT !.pos = @ + delta]
                                     ELSE cache.cells[i]]
           head == IF gone = {} THEN 0 ELSE Min(gone)
           r == KV!SeqAdd(cache, s, p0, p1, delta)
<1>1. cache.cells \in [Cells -> Cell] /\ cache.head \in 0 .. Size
  BY CachesAre
<1>2. ASSUME NEW i \in Cells
      PROVE  i \in moved <=> /\ cache.cells[i].seq = s
                             /\ cache.cells[i].pos >= p0 /\ (p1 < 0 \/ cache.cells[i].pos < p1)
  <2>1. cache.cells[i].seq = s => cache.cells[i].pos \in Nat
    BY <1>1, CachesAre DEF Cell
  <2> QED
    BY <2>1 DEF KV!Within, KV!Owned, Cells
<1>3. r = IF p0 = p1 THEN cache ELSE [cells |-> cells, head |-> head]
  BY DEF KV!SeqAdd, Cells, KV!Min, Min
<1>4. moved \in SUBSET Cells
  BY DEF KV!Owned, Cells
<1> HIDE DEF moved, r
<1>5. head \in 0 .. Size
  <2>1. Size \in Nat /\ Cells = 0 .. Size - 1 /\ IsFiniteSet(Cells)
    BY SizeIs, CachesAre
  <2>2. gone \in SUBSET Cells
    BY <1>4
  <2> HIDE DEF gone
  <2>3. IsFiniteSet(gone)
    BY <2>1, <2>2, FS_Subset
  <2>4. gone \in SUBSET Nat /\ gone \in SUBSET (0 .. Size) /\ 0 \in 0 .. Size
    BY <2>1, <2>2
  <2>5. gone # {} => Min(gone) \in gone
    BY <2>3, <2>4, MinIs
  <2>6. gone # {} => Min(gone) \in 0 .. Size
    BY <2>4, <2>5
  <2> QED
    BY <2>4, <2>6
<1>6. ASSUME NEW i \in Cells
      PROVE  cells[i] \in Cell
  <2>1. cache.cells[i] \in Cell
    BY <1>1
  <2>2. CASE i \in gone
    BY <2>2 DEF Cell
  <2>3. CASE i \in moved /\ i \notin gone
    <3>1. cache.cells[i] \in [seq : Slots, pos : Nat, tok : Nat]
      BY <1>2, <2>1, <2>3, CachesAre DEF Cell
    <3>2. cache.cells[i].pos + delta \in Nat
      BY <2>3, <3>1
    <3>3. [cache.cells[i] EXCEPT !.pos = @ + delta] \in [seq : Slots, pos : Nat, tok : Nat]
      BY <3>1, <3>2
    <3> QED
      BY <2>3, <3>3 DEF Cell
  <2>4. CASE i \notin moved
    BY <2>1, <2>4
  <2> QED
    BY <2>2, <2>3, <2>4
<1>7. cells \in [Cells -> Cell]
  <2> DEFINE value(i) == IF i \in gone THEN KV!Free
                         ELSE IF i \in moved THEN [cache.cells[i] EXCEPT !.pos = @ + delta]
                         ELSE cache.cells[i]
  <2>1. \A i \in Cells : value(i) \in Cell
    BY <1>6
  <2>2. cells = [i \in Cells |-> value(i)]
    OBVIOUS
  <2> HIDE DEF value, cells
  <2> QED
    BY <2>1, <2>2
<1>8. \A i \in Cells : i \in gone <=> i \in moved /\ cache.cells[i].pos + delta < 0
  OBVIOUS
<1>9. r \in Caches
  <2> HIDE DEF cells, head
  <2> QED
    BY <1>3, <1>5, <1>7, CachesAre
<1>10. p0 # p1 => \A i \in Cells : r.cells[i] = cells[i]
  <2> HIDE DEF cells, head
  <2> QED
    BY <1>3
<1>11. p0 = p1 => r = cache
  BY <1>3
<1>12. ASSUME p0 # p1, NEW i \in Cells
       PROVE  r.cells[i] =
                IF /\ cache.cells[i].seq = s
                   /\ cache.cells[i].pos >= p0 /\ (p1 < 0 \/ cache.cells[i].pos < p1)
                THEN IF cache.cells[i].pos + delta < 0 THEN KV!Free
                     ELSE [cache.cells[i] EXCEPT !.pos = @ + delta]
                ELSE cache.cells[i]
  <2>1. r.cells[i] = cells[i]
    BY <1>10, <1>12
  <2>2. cells[i] = IF i \in gone THEN KV!Free
                   ELSE IF i \in moved THEN [cache.cells[i] EXCEPT !.pos = @ + delta]
                   ELSE cache.cells[i]
    OBVIOUS
  <2> HIDE DEF cells, gone
  <2> QED
    BY <1>2, <1>8, <2>1, <2>2
<1>13. ASSUME p0 # p1, NEW i \in Cells
       PROVE  IF /\ cache.cells[i].seq = s
                 /\ cache.cells[i].pos >= p0 /\ (p1 < 0 \/ cache.cells[i].pos < p1)
              THEN IF cache.cells[i].pos + delta < 0 THEN r.cells[i] = KV!Free
                   ELSE /\ r.cells[i].seq = s /\ r.cells[i].tok = cache.cells[i].tok
                        /\ r.cells[i].pos = cache.cells[i].pos + delta
              ELSE r.cells[i] = cache.cells[i]
  <2>1. PICK c \in Cell : c = cache.cells[i]
    BY <1>1
  <2>2. c.seq = s => c \in [seq : Slots, pos : Nat, tok : Nat]
    BY CellTyped
  <2>3. PICK q : q = [c EXCEPT !.pos = @ + delta]
    OBVIOUS
  <2>4. c.seq = s => q.seq = s /\ q.tok = c.tok /\ q.pos = c.pos + delta
    BY <2>2, <2>3
  <2>5. r.cells[i] = IF c.seq = s /\ c.pos >= p0 /\ (p1 < 0 \/ c.pos < p1)
                     THEN IF c.pos + delta < 0 THEN KV!Free ELSE q
                     ELSE c
    BY <1>12, <1>13, <2>1, <2>3
  <2> QED
    BY <2>1, <2>4, <2>5
<1> QED
  BY <1>9, <1>11, <1>13 DEF r
(* A ubatch gets its cells. *)
LEMMA FillIs ==
  ASSUME NEW cache \in Caches, NEW h \in Cells,
         NEW ubatch \in Seq([seq : Slots, pos : Nat, tok : Nat])
  PROVE  LET r == KV!Fill(cache, h, ubatch)
         IN  /\ r \in Caches
             /\ \A i \in Cells :
                  r.cells[i] = IF h <= i /\ i < h + Len(ubatch) THEN ubatch[i - h + 1]
                               ELSE cache.cells[i]
<1> DEFINE new(i) == IF i \in h .. h + Len(ubatch) - 1 THEN ubatch[i - h + 1]
                     ELSE cache.cells[i]
           r == KV!Fill(cache, h, ubatch)
<1>1. cache.cells \in [Cells -> Cell] /\ cache.head \in 0 .. Size
      /\ cache = [cells |-> cache.cells, head |-> cache.head]
  BY CachesAre
<1>2. h \in Nat /\ Cells \in SUBSET Nat /\ Len(ubatch) \in Nat
  BY CachesAre, LenProperties
<1>3. r = [cells |-> [i \in Cells |-> new(i)], head |-> cache.head]
  <2>1. PICK cells : cells = [i \in Cells |-> new(i)]
    OBVIOUS
  <2>2. r = [cache EXCEPT !.cells = cells]
    BY <2>1 DEF KV!Fill, Cells
  <2> HIDE DEF r, new
  <2>3. [cache EXCEPT !.cells = cells] = [cells |-> cells, head |-> cache.head]
    BY <1>1
  <2> QED
    BY <2>1, <2>2, <2>3
<1>4. \A i \in Cells : new(i) = IF h <= i /\ i < h + Len(ubatch) THEN ubatch[i - h + 1]
                                ELSE cache.cells[i]
  BY <1>2
<1>5. ASSUME NEW i \in Cells
      PROVE  new(i) \in Cell
  <2>1. CASE i \in h .. h + Len(ubatch) - 1
    <3>1. PICK j : j = i - h + 1
      OBVIOUS
    <3>2. j \in 1 .. Len(ubatch)
      BY <1>2, <2>1, <3>1
    <3>3. ubatch[j] \in [seq : Slots, pos : Nat, tok : Nat]
      BY <3>2, ElementOfSeq
    <3> QED
      BY <2>1, <3>1, <3>3 DEF Cell
  <2>2. CASE i \notin h .. h + Len(ubatch) - 1
    BY <1>1, <2>2
  <2> QED
    BY <2>1, <2>2
<1> HIDE DEF new, r
<1>6. [i \in Cells |-> new(i)] \in [Cells -> Cell]
  BY <1>5
<1> QED
  BY <1>1, <1>3, <1>4, <1>6, CachesAre DEF r

LEMMA AdvanceIs ==
  ASSUME NEW cache \in Caches, NEW h \in Cells, NEW n \in Nat
  PROVE  LET r == KV!Advance(cache, h, n)
         IN  r \in Caches /\ r.cells = cache.cells
<1>1. cache.cells \in [Cells -> Cell] /\ cache = [cells |-> cache.cells, head |-> cache.head]
  BY CachesAre
<1>2. h \in Nat /\ Size \in Nat
  BY CachesAre, SizeIs
<1>3. PICK head : head = IF h + n >= Size THEN 0 ELSE h + n
  OBVIOUS
<1>4. head \in 0 .. Size
  BY <1>2, <1>3
<1>5. KV!Advance(cache, h, n) = [cells |-> cache.cells, head |-> head]
  BY <1>1, <1>3 DEF KV!Advance, Size
<1> QED
  BY <1>1, <1>4, <1>5, CachesAre

(* The restorer only frees cells. *)
LEMMA RestoreIs ==
  ASSUME NEW cache \in Caches, NEW head \in 0 .. Size, NEW boundaries
  PROVE  LET r == KV!Restore(cache, head, boundaries)
         IN  /\ r \in Caches
             /\ \A i \in Cells : r.cells[i] \in {KV!Free, cache.cells[i]}
<1> DEFINE gone == {i \in Cells : \E b \in boundaries : KV!Within(cache.cells[i].pos, b[1], b[2])}
<1>1. PICK moved : moved = [cache EXCEPT !.head = head]
  OBVIOUS
<1>2. cache.cells \in [Cells -> Cell] /\ moved.cells = cache.cells /\ moved.head = head
  BY <1>1, CachesAre
<1>3. KV!Restore(cache, head, boundaries) = KV!FreeCells(moved, gone)
  BY <1>1 DEF KV!Restore, Cells
<1>4. gone \in SUBSET Cells
  OBVIOUS
<1> HIDE DEF gone
<1>5. PICK r : r = KV!FreeCells(moved, gone)
  OBVIOUS
<1>6. r \in Caches
      /\ r.cells = [i \in Cells |-> IF i \in gone THEN KV!Free ELSE cache.cells[i]]
  BY <1>2, <1>4, <1>5, FreeCellsIs
<1> QED
  BY <1>3, <1>5, <1>6
-----------------------------------------------------------------------------
(***************************************************************************)
(* The operators on sequences of tokens.                                   *)
(***************************************************************************)
LEMMA PartIs ==
  ASSUME NEW T, NEW a \in Seq(T), NEW m \in 1 .. Len(a) + 1, NEW n \in m - 1 .. Len(a)
  PROVE  /\ SubSeq(a, m, n) \in Seq(T)
         /\ Len(SubSeq(a, m, n)) = n + 1 - m
         /\ \A i \in 1 .. n + 1 - m : SubSeq(a, m, n)[i] = a[m + i - 1]
<1>1. Len(a) \in Nat /\ \A i \in 1 .. Len(a) : a[i] \in T
  BY LenProperties, ElementOfSeq
<1>2. m \in Int /\ n \in Int /\ \A i \in m .. n : a[i] \in T
  BY <1>1
<1>3. /\ SubSeq(a, m, n) \in Seq(T)
      /\ Len(SubSeq(a, m, n)) = IF m <= n THEN n - m + 1 ELSE 0
      /\ \A i \in 1 .. n - m + 1 : SubSeq(a, m, n)[i] = a[m + i - 1]
  BY <1>2, SubSeqProperties
<1>4. Len(SubSeq(a, m, n)) = n + 1 - m /\ n - m + 1 = n + 1 - m
  BY <1>1, <1>3
<1> QED
  BY <1>3, <1>4

(* A sequence that is given by its elements. *)
LEMMA ListIs ==
  ASSUME NEW T, NEW n \in Nat, NEW a, a \in [1 .. n -> T]
  PROVE  a \in Seq(T) /\ Len(a) = n /\ \A i \in 1 .. n : a[i] \in T
<1>1. a \in Seq(T)
  BY SeqDef
<1>2. DOMAIN a = 1 .. n
  OBVIOUS
<1> QED
  BY <1>1, <1>2, LenProperties

(* common_lcp *)
LEMMA LcpIs ==
  ASSUME NEW a \in Seq(Nat), NEW b \in Seq(Nat)
  PROVE  /\ Lcp(a, b) \in Nat /\ Lcp(a, b) <= Len(a) /\ Lcp(a, b) <= Len(b)
         /\ \A i \in 1 .. Lcp(a, b) : a[i] = b[i]
<1> DEFINE S == {n \in 0 .. Min({Len(a), Len(b)}) : \A i \in 1 .. n : a[i] = b[i]}
<1>1. Len(a) \in Nat /\ Len(b) \in Nat
  BY LenProperties
<1>2. PICK m \in Nat : m = Min({Len(a), Len(b)}) /\ m <= Len(a) /\ m <= Len(b)
  <2> HIDE DEF S
  <2>1. PICK la \in Int, lb \in Int : la = Len(a) /\ lb = Len(b)
    BY <1>1
  <2>2. Min({la, lb}) = IF la <= lb THEN la ELSE lb
    BY <2>1, MinOfTwo
  <2> QED
    BY <1>1, <2>1, <2>2
<1>3. S \in SUBSET (0 .. m)
  BY <1>2
<1>4. 0 \in S
  BY <1>2
<1>5. PICK n : n = Max(S)
  OBVIOUS
<1>6. n \in S
  <2> HIDE DEF S
  <2> QED
    BY <1>2, <1>3, <1>4, <1>5, MaxIs
<1>7. Lcp(a, b) = n
  BY <1>5 DEF Lcp
<1>8. n \in 0 .. m /\ \A i \in 1 .. n : a[i] = b[i]
  BY <1>2, <1>6
<1> QED
  BY <1>1, <1>2, <1>7, <1>8

LEMMA WithoutIs ==
  ASSUME NEW a \in Seq(Nat), NEW k \in Nat, NEW n \in Nat, k + n <= Len(a)
  PROVE  /\ Without(a, k, n) \in Seq(Nat) /\ Len(Without(a, k, n)) = Len(a) - n
         /\ \A i \in 1 .. Len(a) - n : Without(a, k, n)[i] = IF i <= k THEN a[i] ELSE a[i + n]
<1>1. Len(a) \in Nat /\ \A i \in 1 .. Len(a) : a[i] \in Nat
  BY LenProperties, ElementOfSeq
<1>2. PICK m \in Nat : m = Len(a) - n
  BY <1>1
<1>3. Without(a, k, n) = [i \in 1 .. m |-> IF i <= k THEN a[i] ELSE a[i + n]]
  BY <1>2 DEF Without
<1>4. \A i \in 1 .. m : i \in 1 .. Len(a) /\ i + n \in 1 .. Len(a)
  BY <1>1, <1>2
<1>5. Without(a, k, n) \in [1 .. m -> Nat]
  BY <1>1, <1>3, <1>4
<1>6. \A i \in 1 .. m : Without(a, k, n)[i] = IF i <= k THEN a[i] ELSE a[i + n]
  BY <1>3
<1> QED
  BY <1>2, <1>5, <1>6, ListIs

(* std::vector::resize *)
LEMMA ResizeIs ==
  ASSUME NEW a \in Seq(Nat), NEW n \in Nat
  PROVE  /\ Resize(a, n) \in Seq(Nat) /\ Len(Resize(a, n)) = n
         /\ \A i \in 1 .. n : Resize(a, n)[i] = IF i <= Len(a) THEN a[i] ELSE 0
<1>1. Len(a) \in Nat /\ \A i \in 1 .. Len(a) : a[i] \in Nat
  BY LenProperties, ElementOfSeq
<1>2. Resize(a, n) = [i \in 1 .. n |-> IF i <= Len(a) THEN a[i] ELSE 0]
  BY DEF Resize
<1>3. \A i \in 1 .. n : i <= Len(a) => i \in 1 .. Len(a)
  BY <1>1
<1>4. Resize(a, n) \in [1 .. n -> Nat]
  BY <1>1, <1>2, <1>3
<1>5. \A i \in 1 .. n : Resize(a, n)[i] = IF i <= Len(a) THEN a[i] ELSE 0
  BY <1>2
<1> QED
  BY <1>4, <1>5, ListIs

LEMMA DivisionIs ==
  ASSUME NEW a \in Nat, NEW b \in Nat \ {0}
  PROVE  /\ a \div b \in Nat
         /\ (a \div b) * b <= a /\ a < (a \div b) * b + b
OBVIOUS

(* A truncated prompt fits into the context and has only tokens of the     *)
(* prompt.                                                                 *)
LEMMA TruncatedIs ==
  ASSUME NEW prompt \in Seq(Nat), prompt # <<>>, NEW keep \in 0 .. Ctx - 4
  PROVE  LET t == Truncated(prompt, keep)
         IN  /\ t \in Seq(Nat) /\ Len(t) \in 1 .. Ctx - 1
             /\ \A i \in 1 .. Len(t) : \E j \in 1 .. Len(prompt) : t[i] = prompt[j]
<1>1. Len(prompt) \in Nat \ {0} /\ Ctx \in Nat /\ Ctx >= 4
  BY LenProperties, EmptySeq, Options
<1>2. CASE Len(prompt) < Ctx
  <2>1. Truncated(prompt, keep) = prompt
    BY <1>2 DEF Truncated
  <2> QED
    BY <1>1, <1>2, <2>1
<1>3. CASE ~(Len(prompt) < Ctx)
  <2>1. PICK block : block = (Ctx - keep) \div 2
    OBVIOUS
  <2>2. block \in Nat \ {0} /\ 2 * block <= Ctx - keep
    BY <1>1, <2>1
  <2>3. PICK rest \in Nat : rest = Len(prompt) - keep - block
    <3>1. Len(prompt) - keep - block \in Nat
      BY <1>1, <1>3, <2>2
    <3> QED
      BY <3>1
  <2>4. PICK n : n = (rest \div block) * block
    OBVIOUS
  <2>5. n \in Nat /\ n <= rest /\ rest < n + block
    <3>1. PICK q : q = rest \div block
      OBVIOUS
    <3>2. q \in Nat /\ q * block <= rest /\ rest < q * block + block
      BY <2>2, <2>3, <3>1, DivisionIs
    <3>3. q * block \in Nat
      BY <2>2, <3>2
    <3> QED
      BY <2>4, <3>1, <3>2, <3>3
  <2>6. Truncated(prompt, keep) = Without(prompt, keep, n)
    BY <1>3, <2>1, <2>3, <2>4 DEF Truncated
  <2>7. PICK t : t = Without(prompt, keep, n)
    OBVIOUS
  <2>8. /\ t \in Seq(Nat) /\ Len(t) = Len(prompt) - n
        /\ \A i \in 1 .. Len(prompt) - n : t[i] = IF i <= keep THEN prompt[i] ELSE prompt[i + n]
    <3>1. keep \in Nat /\ n \in Nat /\ keep + n <= Len(prompt)
      BY <1>1, <2>2, <2>3, <2>5
    <3> QED
      BY <2>7, <3>1, WithoutIs
  <2>9. Len(t) \in 1 .. Ctx - 1
    BY <1>1, <2>2, <2>3, <2>5, <2>8
  <2>10. ASSUME NEW i \in 1 .. Len(t)
         PROVE  \E j \in 1 .. Len(prompt) : t[i] = prompt[j]
    <3>1. i \in 1 .. Len(prompt) /\ i + n \in 1 .. Len(prompt)
      BY <1>1, <2>5, <2>8, <2>10
    <3>2. t[i] = prompt[i] \/ t[i] = prompt[i + n]
      BY <2>8
    <3> QED
      BY <3>1, <3>2
  <2> QED
    BY <2>6, <2>7, <2>8, <2>9, <2>10
<1> QED
  BY <1>2, <1>3
=============================================================================
