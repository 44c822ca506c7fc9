----------------------------- MODULE HeapProofs -----------------------------
(***************************************************************************)
(* Proofs about the heap, for a heap of any size and requests of any size  *)
(* in any order.                                                           *)
(***************************************************************************)
EXTENDS Heap, WellFoundedInduction, FiniteSetTheorems, TLAPS

-----------------------------------------------------------------------------
(* The inductive invariant.                                                *)

BlockEnd(h, a) == a + Hdr + h[a].size

\* A header with its links, in the list h.
HeaderOK(h, a) ==
    /\ h[a] \in [size : Nat, free : BOOLEAN,
                 next : DOMAIN h \union {NULL}, prev : DOMAIN h \union {NULL}]
    /\ BlockEnd(h, a) <= HeapSize
    /\ h[a].next = NULL => BlockEnd(h, a) = HeapSize
    /\ h[a].next # NULL => h[a].next = BlockEnd(h, a) /\ h[h[a].next].prev = a
    /\ a # heap_head => h[a].prev # NULL /\ h[h[a].prev].next = a

\* The headers tile the heap.  That no block reaches into a later one does
\* not follow from the links without walking along them, so it is stated.
Tiles(h) ==
    /\ h = [a \in DOMAIN h |-> h[a]]
    /\ DOMAIN h \subseteq Nat
    /\ heap_head \in DOMAIN h /\ h[heap_head].prev = NULL
    /\ \A a \in DOMAIN h : HeaderOK(h, a)
    /\ \A a, b \in DOMAIN h : a < b => BlockEnd(h, a) <= b

FreePair(h, a) == h[a].free /\ FreeAt(h, h[a].next)

InUse(h) == {a \in DOMAIN h : ~ h[a].free}

\* Every block in use has an owner, who got what was asked for.
AskedOK ==
    /\ DOMAIN asked = {a + Hdr : a \in InUse(hdr)}
    /\ \A a \in InUse(hdr) :
        asked[a + Hdr] \in Requests /\ asked[a + Hdr] <= hdr[a].size

\* What MapThenSumSet adds up in ListOK.
Weight(h, a) == h[a].size + Hdr
Total(h, S) == MapThenSumSet(LAMBDA a : h[a].size + Hdr, S)

HeapInv ==
    /\ Tiles(hdr)
    /\ \A a \in DOMAIN hdr : ~ FreePair(hdr, a)
    /\ AskedOK
    /\ heap_used = Total(hdr, InUse(hdr))
-----------------------------------------------------------------------------
(* Numbers.                                                                *)

\* A set of naturals has a least element.
LEMMA LeastNumber ==
    ASSUME NEW T \in SUBSET Nat, T # {}
    PROVE  \E m \in T : \A n \in T : m <= n
<1> DEFINE below == {ss \in Nat \X Nat : ss[1] < ss[2]}
<1>1. IsWellFoundedOn(below, Nat)
  BY NatLessThanWellFounded, Zenon DEF OpToRel
<1> HIDE DEF below
<1>2. PICK m \in T : \A n \in T : ~ (<<n, m>> \in below)
  BY <1>1, WFMin
<1>3. ASSUME NEW n \in T PROVE m <= n
  <2>1. <<n, m>> \in below <=> n < m
    BY DEF below
  <2>. QED
    BY <1>2, <2>1
<1>. QED
  BY <1>3

\* The first fit is one.
LEMMA MinFits == ASSUME NEW T \in SUBSET Nat, T # {} PROVE Min(T) \in T
BY LeastNumber DEF Min

\* A rounded size is no smaller.
LEMMA RoundedUp == ASSUME NEW n \in Nat PROVE Rounded(n) \in Nat /\ Rounded(n) >= n
<1> DEFINE q == (n + Align - 1) \div Align
<1>1. Align \in Nat \ {0}
  BY HeapAssumption
<1>2. q \in Int /\ q * Align <= n + Align - 1 /\ n + Align - 1 < (q + 1) * Align
  BY <1>1
<1>3. q * Align \in Int /\ (q + 1) * Align = q * Align + Align
  BY <1>1, <1>2
<1> HIDE DEF q
<1>4. q * Align > n - 1
  BY <1>1, <1>2, <1>3
<1>5. Rounded(n) = q * Align
  BY DEF Rounded, q
<1>. QED
  BY <1>3, <1>4, <1>5

\* NULL is no address.
LEMMA NullFacts == NULL \notin Int /\ Hdr \in Nat \ {0} /\ MinRest \in Nat \ {0} /\ HeapSize \in Nat
BY HeapAssumption
-----------------------------------------------------------------------------
(* Sums of block sizes, by induction on the number of blocks.              *)

\* The member MapThenSumSet takes out of a set next.
Chosen(s) == CHOOSE x \in s : TRUE

\* f is the recursion behind Total, on the subsets in D.
SumsUp(h, D, f) ==
    f = [s \in D |-> IF s = {} THEN 0 ELSE Weight(h, Chosen(s)) + f[s \ {Chosen(s)}]]

\* Weights are what MapThenSumSet adds up.
LEMMA TotalIs == \A h, S : Total(h, S) = (CHOOSE f : SumsUp(h, SUBSET S, f))[S]
BY Zenon DEF Total, SumsUp, Weight, Chosen, MapThenSumSet, MapThenFoldSet

\* The induction: what holds of 0 and of the next number holds of them all.
LEMMA SetInduction ==
    ASSUME NEW T, 0 \in T, \A n \in Nat : n \in T => n + 1 \in T
    PROVE  Nat \subseteq T
<1> SUFFICES ASSUME Nat \ T # {} PROVE FALSE
  OBVIOUS
<1>1. PICK m \in Nat \ T : \A n \in Nat \ T : m <= n
  BY LeastNumber
<1>2. m # 0 /\ m - 1 \in Nat
  BY <1>1
<1>3. m - 1 \in T
  BY <1>1, <1>2
<1>. QED
  BY <1>1, <1>2, <1>3

\* Taking a member out of a finite set.
LEMMA OneLess ==
    ASSUME NEW S, IsFiniteSet(S), NEW s \in SUBSET S
    PROVE  /\ IsFiniteSet(s) /\ Cardinality(s) \in Nat
           /\ Cardinality(s) = 0 <=> s = {}
           /\ s # {} => Chosen(s) \in s
           /\ \A x \in s : s \ {x} \in SUBSET S /\ Cardinality(s \ {x}) = Cardinality(s) - 1
<1>1. IsFiniteSet(s)
  BY FS_Subset
<1>2. s # {} => Chosen(s) \in s
  BY DEF Chosen
<1>. QED
  BY <1>1, <1>2, FS_CardinalityType, FS_EmptySet, FS_RemoveElement

\* There is a function that satisfies the recursion.
LEMMA SumsExist ==
    ASSUME NEW h, NEW S, IsFiniteSet(S), \A x \in S : h[x].size \in Nat
    PROVE  \E f \in [SUBSET S -> Nat] : SumsUp(h, SUBSET S, f)
<1> DEFINE Small(n) == {s \in SUBSET S : Cardinality(s) <= n}
           T == {n \in Nat : \E f \in [Small(n) -> Nat] : SumsUp(h, Small(n), f)}
<1>1. 0 \in T
  <2> DEFINE f == [s \in Small(0) |-> 0]
  <2>1. \A s \in Small(0) : s = {}
    <3> TAKE s \in Small(0)
    <3>1. Cardinality(s) \in Nat /\ Cardinality(s) <= 0
      BY OneLess
    <3>. QED
      BY <3>1, OneLess
  <2>2. f = [s \in Small(0) |-> IF s = {} THEN 0 ELSE Weight(h, Chosen(s)) + f[s \ {Chosen(s)}]]
    BY <2>1
  <2>3. f \in [Small(0) -> Nat] /\ SumsUp(h, Small(0), f)
    BY <2>2 DEF SumsUp
  <2>. QED
    BY <2>3
<1>2. ASSUME NEW n \in Nat, n \in T PROVE n + 1 \in T
  <2>1. PICK f \in [Small(n) -> Nat] : SumsUp(h, Small(n), f)
    BY <1>2
  <2> DEFINE g == [s \in Small(n + 1) |->
                     IF s = {} THEN 0 ELSE Weight(h, Chosen(s)) + f[s \ {Chosen(s)}]]
  <2>2. ASSUME NEW s \in Small(n + 1), s # {}
        PROVE  Chosen(s) \in S /\ s \ {Chosen(s)} \in Small(n) /\ s \ {Chosen(s)} \in Small(n + 1)
    <3>1. Cardinality(s) \in Nat /\ Cardinality(s) <= n + 1
      BY OneLess
    <3>2. Chosen(s) \in s
      BY <2>2, OneLess
    <3>3. s \ {Chosen(s)} \in SUBSET S /\ Cardinality(s \ {Chosen(s)}) = Cardinality(s) - 1
      BY <3>2, OneLess
    <3>. QED
      BY <3>1, <3>2, <3>3
  <2>3. \A s \in Small(n) : s \in Small(n + 1) /\ g[s] = f[s]
    <3> TAKE s \in Small(n)
    <3>1. s \in Small(n + 1)
      <4>1. Cardinality(s) \in Nat /\ Cardinality(s) <= n
        BY OneLess
      <4>. QED
        BY <4>1
    <3>2. f[s] = IF s = {} THEN 0 ELSE Weight(h, Chosen(s)) + f[s \ {Chosen(s)}]
      BY <2>1 DEF SumsUp
    <3>. QED
      BY <3>1, <3>2
  <2>4. ASSUME NEW s \in Small(n + 1) PROVE g[s] \in Nat
    <3>1. CASE s = {}
      BY <3>1
    <3>2. CASE s # {}
      <4>1. f[s \ {Chosen(s)}] \in Nat /\ h[Chosen(s)].size \in Nat
        BY <2>1, <2>2, <3>2
      <4>2. g[s] = Weight(h, Chosen(s)) + f[s \ {Chosen(s)}]
        BY <3>2
      <4>. QED
        BY <4>1, <4>2, NullFacts DEF Weight
    <3>. QED
      BY <3>1, <3>2
  <2>5. g = [s \in Small(n + 1) |->
               IF s = {} THEN 0 ELSE Weight(h, Chosen(s)) + g[s \ {Chosen(s)}]]
    <3> HIDE DEF Small
    <3>1. \A s \in Small(n + 1) : s # {} => f[s \ {Chosen(s)}] = g[s \ {Chosen(s)}]
      BY <2>2, <2>3
    <3>. QED
      BY <3>1
  <2>6. g \in [Small(n + 1) -> Nat]
    BY <2>4
  <2>7. SumsUp(h, Small(n + 1), g)
    BY <2>5 DEF SumsUp
  <2> HIDE DEF g, Small
  <2>. QED
    BY <2>6, <2>7
<1>3. Cardinality(S) \in T
  <2>1. Cardinality(S) \in Nat
    BY OneLess
  <2> HIDE DEF T
  <2>2. Nat \subseteq T
    BY <1>1, <1>2, SetInduction
  <2>. QED
    BY <2>1, <2>2
<1>4. Small(Cardinality(S)) = SUBSET S
  BY FS_Subset
<1>. QED
  BY <1>3, <1>4

\* f does so on all the subsets of S, agrees with e on t, and the lists h and
\* g have blocks of the same sizes there.
SumsOn(h, S, f) == IsFiniteSet(S) /\ SumsUp(h, SUBSET S, f)
SameOn(f, e, t) == f[t] = e[t]
SameSizes(h, g, t) == \A x \in t : h[x].size = g[x].size

\* The function's value depends on nothing but the blocks in the set.
LEMMA SumsAgree ==
    ASSUME NEW h, NEW S, NEW f, SumsOn(h, S, f), NEW g, NEW T, NEW e, SumsOn(g, T, e),
           NEW t, t \subseteq S, t \subseteq T, SameSizes(h, g, t)
    PROVE  SameOn(f, e, t)
<1>0. /\ IsFiniteSet(S) /\ SumsUp(h, SUBSET S, f) /\ IsFiniteSet(T) /\ SumsUp(g, SUBSET T, e)
      /\ \A x \in t : h[x].size = g[x].size
      /\ t \in SUBSET S /\ t \in SUBSET T
  BY DEF SumsOn, SameSizes
<1> DEFINE Bad == {n \in Nat : \E s \in SUBSET t : Cardinality(s) = n /\ f[s] # e[s]}
<1>1. SUFFICES ASSUME Bad # {} PROVE FALSE
  <2>1. Cardinality(t) \in Nat
    BY <1>0, OneLess
  <2>. QED
    BY <1>1, <2>1 DEF SameOn
<1>2. PICK n \in Bad : \A m \in Bad : n <= m
  BY <1>1, LeastNumber
<1>3. PICK s \in SUBSET t : Cardinality(s) = n /\ f[s] # e[s]
  BY <1>2
<1>4. /\ f[s] = IF s = {} THEN 0 ELSE Weight(h, Chosen(s)) + f[s \ {Chosen(s)}]
      /\ e[s] = IF s = {} THEN 0 ELSE Weight(g, Chosen(s)) + e[s \ {Chosen(s)}]
  BY <1>0 DEF SumsUp
<1>5. s # {}
  BY <1>3, <1>4
<1>6. Chosen(s) \in s /\ s \ {Chosen(s)} \in SUBSET t
  BY <1>0, <1>5, OneLess
<1>7. Cardinality(s \ {Chosen(s)}) = n - 1 /\ Cardinality(s \ {Chosen(s)}) \in Nat
  BY <1>0, <1>3, <1>6, OneLess
<1>8. f[s \ {Chosen(s)}] = e[s \ {Chosen(s)}]
  <2>1. n - 1 \notin Bad
    BY <1>2
  <2>. QED
    BY <1>6, <1>7, <2>1
<1>9. Weight(h, Chosen(s)) = Weight(g, Chosen(s))
  BY <1>0, <1>6 DEF Weight
<1>. QED
  BY <1>3, <1>4, <1>5, <1>8, <1>9

\* A member chosen first or last adds the same.
LEMMA SumsSplit ==
    ASSUME NEW h, NEW S, IsFiniteSet(S), \A x \in S : h[x].size \in Nat,
           NEW f \in [SUBSET S -> Nat], SumsUp(h, SUBSET S, f), NEW t \in SUBSET S, NEW y \in t
    PROVE  f[t] = Weight(h, y) + f[t \ {y}]
<1> DEFINE Bad == {n \in Nat : \E s \in SUBSET S : \E x \in s :
                      Cardinality(s) = n /\ f[s] # Weight(h, x) + f[s \ {x}]}
<1>1. SUFFICES ASSUME Bad # {} PROVE FALSE
  <2>1. Cardinality(t) \in Nat
    BY OneLess
  <2>. QED
    BY <1>1, <2>1
<1>2. PICK n \in Bad : \A m \in Bad : n <= m
  BY <1>1, LeastNumber
<1>3. PICK s \in SUBSET S : \E x \in s :
            Cardinality(s) = n /\ f[s] # Weight(h, x) + f[s \ {x}]
  BY <1>2
<1>4. PICK x \in s : Cardinality(s) = n /\ f[s] # Weight(h, x) + f[s \ {x}]
  BY <1>3
<1> DEFINE c == Chosen(s)
<1>5. c \in s /\ c \in S /\ x \in S
  BY OneLess
<1> HIDE DEF c
<1>6. f[s] = Weight(h, c) + f[s \ {c}] /\ x # c
  <2>1. f[s] = IF s = {} THEN 0 ELSE Weight(h, c) + f[s \ {c}]
    BY DEF SumsUp, c
  <2>. QED
    BY <1>4, <1>5, <2>1
<1>7. /\ s \ {c} \in SUBSET S /\ s \ {x} \in SUBSET S /\ x \in s \ {c} /\ c \in s \ {x}
      /\ Cardinality(s \ {c}) = n - 1 /\ Cardinality(s \ {x}) = n - 1 /\ n - 1 \in Nat
  <2>1. Cardinality(s \ {c}) \in Nat
    BY OneLess
  <2>. QED
    BY <1>4, <1>5, <1>6, <2>1, OneLess
<1>8. n - 1 \notin Bad
  <2>1. n \in Nat
    OBVIOUS
  <2> HIDE DEF Bad
  <2>. QED
    BY <1>2, <2>1
<1>9. /\ f[s \ {c}] = Weight(h, x) + f[(s \ {c}) \ {x}]
      /\ f[s \ {x}] = Weight(h, c) + f[(s \ {x}) \ {c}]
  <2>1. \A z \in SUBSET S : \A w \in z :
            Cardinality(z) = n - 1 => f[z] = Weight(h, w) + f[z \ {w}]
    BY <1>7, <1>8
  <2> HIDE DEF Bad
  <2>2. PICK z \in SUBSET S : z = s \ {c}
    BY <1>7
  <2>3. f[z] = Weight(h, x) + f[z \ {x}]
    BY <1>7, <2>1, <2>2
  <2>4. PICK u \in SUBSET S : u = s \ {x}
    BY <1>7
  <2>5. f[u] = Weight(h, c) + f[u \ {c}]
    BY <1>7, <2>1, <2>4
  <2>. QED
    BY <2>2, <2>3, <2>4, <2>5
<1>10. (s \ {c}) \ {x} = (s \ {x}) \ {c} /\ (s \ {x}) \ {c} \in SUBSET S
  OBVIOUS
<1>11. /\ Weight(h, c) \in Nat /\ Weight(h, x) \in Nat
       /\ f[(s \ {x}) \ {c}] \in Nat
  BY <1>5, <1>10, NullFacts DEF Weight
<1>12. f[s] = Weight(h, c) + (Weight(h, x) + f[(s \ {x}) \ {c}])
  BY <1>6, <1>9, <1>10
<1>13. f[s] # Weight(h, x) + (Weight(h, c) + f[(s \ {x}) \ {c}])
  BY <1>4, <1>9
<1>. QED
  BY <1>11, <1>12, <1>13

\* What Total adds up.
LEMMA TotalFacts ==
    ASSUME NEW h, NEW S, IsFiniteSet(S), \A x \in S : h[x].size \in Nat
    PROVE  /\ Total(h, S) \in Nat
           /\ S = {} => Total(h, S) = 0
           /\ \A y \in S : Total(h, S) = Weight(h, y) + Total(h, S \ {y})
<1>1. PICK f \in [SUBSET S -> Nat] : SumsUp(h, SUBSET S, f)
  BY SumsExist
<1>2. ASSUME NEW T \in SUBSET S PROVE Total(h, T) = f[T]
  <2>1. IsFiniteSet(T) /\ \A x \in T : h[x].size \in Nat
    BY OneLess
  <2>2. \E e : SumsUp(h, SUBSET T, e)
    BY <2>1, SumsExist
  <2> DEFINE d == CHOOSE e : SumsUp(h, SUBSET T, e)
  <2>3. SumsUp(h, SUBSET T, d)
    BY <2>2
  <2>4. Total(h, T) = d[T]
    BY TotalIs
  <2> HIDE DEF d
  <2>5. d[T] = f[T]
    <3>1. T \subseteq T /\ T \subseteq S /\ SameSizes(h, h, T)
      BY DEF SameSizes
    <3>2. SumsOn(h, S, f) /\ SumsOn(h, T, d)
      BY <1>1, <2>1, <2>3 DEF SumsOn
    <3>3. SameOn(d, f, T)
      BY <3>1, <3>2, SumsAgree
    <3>. QED
      BY <3>3 DEF SameOn
  <2>. QED
    BY <2>4, <2>5
<1>3. Total(h, S) = f[S] /\ f[S] \in Nat
  BY <1>2
<1>4. S = {} => f[S] = 0
  BY <1>1 DEF SumsUp
<1>5. ASSUME NEW y \in S PROVE Total(h, S) = Weight(h, y) + Total(h, S \ {y})
  <2>1. f[S] = Weight(h, y) + f[S \ {y}]
    BY <1>1, SumsSplit
  <2>2. Total(h, S \ {y}) = f[S \ {y}]
    BY <1>2
  <2>. QED
    BY <1>3, <2>1, <2>2
<1>. QED
  BY <1>3, <1>4, <1>5

\* Lists that agree on the sizes of some blocks agree on their total.
LEMMA TotalAgrees ==
    ASSUME NEW h, NEW g, NEW S, IsFiniteSet(S),
           \A x \in S : h[x].size \in Nat /\ g[x].size = h[x].size
    PROVE  Total(h, S) = Total(g, S)
<1> DEFINE d == CHOOSE f : SumsUp(h, SUBSET S, f)
           e == CHOOSE f : SumsUp(g, SUBSET S, f)
<1>1. \E f : SumsUp(h, SUBSET S, f)
  BY SumsExist
<1>2. \E f : SumsUp(g, SUBSET S, f)
  BY SumsExist
<1>3. SumsUp(h, SUBSET S, d) /\ SumsUp(g, SUBSET S, e)
  BY <1>1, <1>2
<1>4. Total(h, S) = d[S] /\ Total(g, S) = e[S]
  BY TotalIs
<1> HIDE DEF d, e
<1>5. S \subseteq S /\ SameSizes(h, g, S) /\ SumsOn(h, S, d) /\ SumsOn(g, S, e)
  BY <1>3 DEF SameSizes, SumsOn
<1>6. SameOn(d, e, S)
  BY <1>5, SumsAgree
<1>. QED
  BY <1>4, <1>6 DEF SameOn

\* Blocks that do not overlap and end at b at the latest take up no more
\* than b.
LEMMA TotalBounded ==
    ASSUME NEW h, NEW S \in SUBSET Nat, IsFiniteSet(S), \A x \in S : h[x].size \in Nat,
           \A x, y \in S : x < y => BlockEnd(h, x) <= y,
           NEW b \in Nat, \A x \in S : BlockEnd(h, x) <= b
    PROVE  Total(h, S) <= b
<1> DEFINE Bounded(s, d) == \A x \in s : BlockEnd(h, x) <= d
           Bad == {n \in Nat : \E s \in SUBSET S : \E d \in Nat :
                     Cardinality(s) = n /\ Bounded(s, d) /\ ~ (Total(h, s) <= d)}
<1>1. SUFFICES ASSUME Bad # {} PROVE FALSE
  <2>1. Cardinality(S) \in Nat
    BY OneLess
  <2>. QED
    BY <1>1, <2>1
<1>2. PICK n \in Bad : \A m \in Bad : n <= m
  BY <1>1, LeastNumber
<1>3. PICK s \in SUBSET S : \E d \in Nat :
            Cardinality(s) = n /\ Bounded(s, d) /\ ~ (Total(h, s) <= d)
  BY <1>2
<1>4. PICK d \in Nat : Cardinality(s) = n /\ Bounded(s, d) /\ ~ (Total(h, s) <= d)
  BY <1>3
<1>5. IsFiniteSet(s) /\ \A x \in s : h[x].size \in Nat /\ BlockEnd(h, x) \in Nat /\ x < BlockEnd(h, x)
  <2>1. IsFiniteSet(s)
    BY OneLess
  <2>2. ASSUME NEW x \in s
        PROVE  h[x].size \in Nat /\ BlockEnd(h, x) \in Nat /\ x < BlockEnd(h, x)
    BY NullFacts DEF BlockEnd
  <2>. QED
    BY <2>1, <2>2
<1>6. s # {}
  BY <1>4, <1>5, TotalFacts
<1>7. PICK m \in s : \A x \in s : x <= m
  <2> DEFINE below == {d - x : x \in s}
  <2>1. below \in SUBSET Nat /\ below # {}
    <3>1. ASSUME NEW x \in s PROVE d - x \in Nat
      <4>1. x \in Nat /\ BlockEnd(h, x) \in Nat /\ x < BlockEnd(h, x) /\ BlockEnd(h, x) <= d
        BY <1>4, <1>5
      <4>. QED
        BY <4>1
    <3>. QED
      BY <1>6, <3>1
  <2>2. PICK k \in below : \A j \in below : k <= j
    BY <2>1, LeastNumber
  <2>3. PICK m \in s : k = d - m
    BY <2>2
  <2>4. ASSUME NEW x \in s PROVE x <= m
    <3>1. d - m <= d - x /\ x \in Nat /\ m \in Nat
      BY <2>2, <2>3
    <3>. QED
      BY <3>1
  <2>. QED
    BY <2>4
<1>8. s \ {m} \in SUBSET S /\ Cardinality(s \ {m}) = n - 1 /\ n - 1 \in Nat
  <2> HIDE DEF Bounded, Bad
  <2>1. s \ {m} \in SUBSET S /\ Cardinality(s \ {m}) = Cardinality(s) - 1
    BY OneLess
  <2>2. Cardinality(s \ {m}) \in Nat
    BY <1>5, FS_Subset, FS_CardinalityType
  <2>. QED
    BY <1>4, <2>1, <2>2
<1>9. m \in Nat /\ Bounded(s \ {m}, m)
  <2>1. ASSUME NEW x \in s \ {m} PROVE BlockEnd(h, x) <= m
    <3>1. x \in S /\ m \in S /\ x \in Nat /\ m \in Nat /\ x < m
      BY <1>7
    <3>. QED
      BY <3>1
  <2>. QED
    BY <2>1
<1>10. Total(h, s \ {m}) <= m
  <2>1. n \in Nat
    OBVIOUS
  <2>2. n - 1 \notin Bad
    <3> HIDE DEF Bad
    <3>. QED
      BY <1>2, <2>1
  <2> HIDE DEF Bounded
  <2>. QED
    BY <1>8, <1>9, <2>2
<1>11. Total(h, s) = Weight(h, m) + Total(h, s \ {m})
  BY <1>5, TotalFacts
<1>12. Total(h, s \ {m}) \in Nat
  <2>1. IsFiniteSet(s \ {m})
    BY <1>5, FS_Subset
  <2>. QED
    BY <1>5, <2>1, TotalFacts
<1>13. m + Weight(h, m) <= d /\ Weight(h, m) \in Nat
  BY <1>4, <1>5, <1>9, NullFacts DEF BlockEnd, Weight
<1>. QED
  BY <1>4, <1>9, <1>10, <1>11, <1>12, <1>13
-----------------------------------------------------------------------------
(* The list's operations.                                                  *)

\* What a link leads to.
LEMMA Links ==
    ASSUME NEW h, Tiles(h), NEW a \in DOMAIN h
    PROVE  /\ a \in Nat /\ h[a].size \in Nat /\ BlockEnd(h, a) \in Nat /\ a < BlockEnd(h, a)
           /\ h[a].next # NULL =>
                /\ h[a].next \in DOMAIN h /\ h[a].next = BlockEnd(h, a)
                /\ h[h[a].next].prev = a
           /\ a # heap_head =>
                /\ h[a].prev \in DOMAIN h /\ h[h[a].prev].next = a
                /\ h[a].prev # NULL /\ h[a].prev < a
           /\ h[a].prev # NULL => a # heap_head
<1>1. a \in Nat /\ HeaderOK(h, a)
  BY DEF Tiles
<1>2. h[a].size \in Nat /\ BlockEnd(h, a) \in Nat /\ a < BlockEnd(h, a)
  BY <1>1, NullFacts DEF HeaderOK, BlockEnd
<1>3. h[a].next # NULL => h[a].next \in DOMAIN h
  BY <1>1 DEF HeaderOK
<1>4. a # heap_head => h[a].prev \in DOMAIN h /\ h[h[a].prev].next = a
  BY <1>1 DEF HeaderOK
<1>5. ASSUME a # heap_head PROVE h[a].prev < a
  <2>1. PICK b \in DOMAIN h : b = h[a].prev
    BY <1>4, <1>5
  <2>2. b \in Nat /\ h[b].next = a /\ HeaderOK(h, b)
    BY <1>4, <1>5, <2>1 DEF Tiles
  <2>3. a # NULL
    BY <1>1, NullFacts
  <2>4. a = BlockEnd(h, b)
    BY <2>2, <2>3 DEF HeaderOK
  <2>5. h[b].size \in Nat
    BY <2>2 DEF HeaderOK
  <2>. QED
    <3>1. b < b + Hdr + h[b].size
      BY <2>2, <2>5, NullFacts
    <3>. QED
      BY <2>1, <2>4, <3>1 DEF BlockEnd
<1>6. h[a].prev # NULL => a # heap_head
  BY DEF Tiles
<1>. QED
  BY <1>1, <1>2, <1>3, <1>4, <1>5, <1>6 DEF HeaderOK

\* Only the last block has none behind it, and none is in front of the
\* first.
LEMMA NoGap ==
    ASSUME NEW h, Tiles(h), NEW a \in DOMAIN h, NEW b \in DOMAIN h, a < b
    PROVE  h[a].next # NULL /\ h[a].next <= b
<1>1. /\ BlockEnd(h, a) <= b /\ b < BlockEnd(h, b) /\ BlockEnd(h, b) <= HeapSize
      /\ {a, b, BlockEnd(h, a), BlockEnd(h, b)} \subseteq Nat
  BY Links DEF Tiles, HeaderOK
<1>2. BlockEnd(h, a) # HeapSize
  BY <1>1, NullFacts
<1>3. h[a].next # NULL
  BY <1>2 DEF Tiles, HeaderOK
<1>. QED
  BY <1>1, <1>3, Links

\* What a list g is after block a of h has been marked free or in use ...
MarkedAs(h, a, v, g) ==
    /\ Tiles(g) /\ DOMAIN g = DOMAIN h
    /\ \A x \in DOMAIN h :
        /\ g[x].size = h[x].size /\ g[x].next = h[x].next /\ g[x].prev = h[x].prev
        /\ g[x].free <=> IF x = a THEN v ELSE h[x].free

\* ... after it was split for a request of that size ...
SplitInto(h, a, size, g) ==
    /\ Tiles(g) /\ DOMAIN h \subseteq DOMAIN g
    /\ g[a].free /\ g[a].size >= size
    /\ \A x \in DOMAIN h \ {a} : g[x].size = h[x].size /\ (g[x].free <=> h[x].free)
    /\ \A x \in DOMAIN g \ DOMAIN h : g[x].free
    /\ \A x \in DOMAIN g \ {a} : ~ FreePair(g, x)

\* ... and after it absorbed the next.
Merged(h, a, g) ==
    /\ Tiles(g) /\ DOMAIN g = DOMAIN h \ {h[a].next}
    /\ a \in DOMAIN g /\ (g[a].free <=> h[a].free)
    /\ g[a].next = h[h[a].next].next /\ g[a].prev = h[a].prev
    /\ \A x \in DOMAIN g \ {a} :
        g[x].size = h[x].size /\ (g[x].free <=> h[x].free) /\ g[x].next = h[x].next

\* If both were free, no block in use has changed, and no free blocks are
\* neighbours that were not before.
FreeMerged(h, a, g) ==
    /\ InUse(g) = InUse(h) /\ \A x \in InUse(h) : g[x].size = h[x].size
    /\ \A x \in DOMAIN g : FreePair(g, x) =>
        IF x = a THEN FreePair(h, h[a].next)
        ELSE FreePair(h, x) /\ h[x].next # h[a].next

\* Marking a block leaves the list as it is.
LEMMA Marked ==
    ASSUME NEW h, Tiles(h), NEW a \in DOMAIN h, NEW v \in BOOLEAN,
           NEW g, g = [h EXCEPT ![a].free = v]
    PROVE  MarkedAs(h, a, v, g)
<1>1. DOMAIN g = DOMAIN h /\ g = [x \in DOMAIN g |-> g[x]]
  BY DEF Tiles
<1>2. ASSUME NEW x \in DOMAIN h
      PROVE  /\ g[x].size = h[x].size /\ g[x].next = h[x].next /\ g[x].prev = h[x].prev
             /\ g[x].free <=> IF x = a THEN v ELSE h[x].free
             /\ g[x] \in [size : Nat, free : BOOLEAN,
                          next : DOMAIN h \union {NULL}, prev : DOMAIN h \union {NULL}]
  <2>1. h[x] \in [size : Nat, free : BOOLEAN,
                  next : DOMAIN h \union {NULL}, prev : DOMAIN h \union {NULL}]
    BY DEF Tiles, HeaderOK
  <2>2. g[x] = IF x = a THEN [h[x] EXCEPT !.free = v] ELSE h[x]
    BY DEF Tiles
  <2>. QED
    BY <2>1, <2>2
<1>3. ASSUME NEW x \in DOMAIN h PROVE HeaderOK(g, x)
  <2>1. HeaderOK(h, x) /\ BlockEnd(g, x) = BlockEnd(h, x)
    BY <1>2 DEF Tiles, BlockEnd
  <2>2. /\ h[x].next # NULL => h[x].next \in DOMAIN h
        /\ x # heap_head => h[x].prev \in DOMAIN h
    BY Links
  <2>. QED
    BY <1>1, <1>2, <2>1, <2>2 DEF HeaderOK
<1>4. Tiles(g)
  BY <1>1, <1>2, <1>3 DEF Tiles, BlockEnd
<1>. QED
  BY <1>1, <1>2, <1>4 DEF MarkedAs

\* A split cuts a free block in two and touches no other.
LEMMA SplitTiles ==
    ASSUME NEW h, Tiles(h), NEW a \in DOMAIN h, h[a].free, \A x \in DOMAIN h : ~ FreePair(h, x),
           NEW size \in Nat, h[a].size >= size,
           NEW g, g = split_block(h, a, size)
    PROVE  SplitInto(h, a, size, g)
<1> DEFINE rest == a + Hdr + size
<1>1. CASE h[a].size < size + Hdr + MinRest
  BY <1>1 DEF split_block, SplitInto
<1>2. CASE ~ (h[a].size < size + Hdr + MinRest)
  <2> DEFINE n == h[a].next
  <2>1. /\ a \in Nat /\ rest \in Nat /\ h[a].size - size - Hdr \in Nat /\ a < rest
        /\ rest + Hdr + (h[a].size - size - Hdr) = BlockEnd(h, a)
        /\ rest < BlockEnd(h, a)
    BY <1>2, Links, NullFacts DEF BlockEnd
  <2>2. \A x \in DOMAIN h : x # rest
    BY <2>1, Links DEF Tiles
  <2>3. rest # NULL /\ n # a /\ n # rest
    <3>1. n = NULL \/ (n \in DOMAIN h /\ n = BlockEnd(h, a))
      BY Links
    <3>. QED
      BY <2>1, <2>2, <3>1, NullFacts
  <2> HIDE DEF rest
  <2>4. g = [x \in DOMAIN h \union {rest} |->
               IF x = rest
               THEN [size |-> h[a].size - size - Hdr, free |-> TRUE, next |-> n, prev |-> a]
               ELSE IF x = a THEN [h[a] EXCEPT !.next = rest, !.size = size]
               ELSE IF x = n THEN [h[x] EXCEPT !.prev = rest]
               ELSE h[x]]
    BY <1>2 DEF split_block, rest
  <2>5. DOMAIN g = DOMAIN h \union {rest} /\ g = [x \in DOMAIN g |-> g[x]]
    BY <2>4
  <2>6. g[rest] = [size |-> h[a].size - size - Hdr, free |-> TRUE, next |-> n, prev |-> a]
    BY <2>4
  <2>7. \A x \in DOMAIN h : h[x] \in [size : Nat, free : BOOLEAN,
              next : DOMAIN h \union {NULL}, prev : DOMAIN h \union {NULL}]
    BY DEF Tiles, HeaderOK
  <2>8. /\ g[a] = [h[a] EXCEPT !.next = rest, !.size = size]
        /\ g[a].size = size /\ g[a].free /\ g[a].next = rest /\ g[a].prev = h[a].prev
        /\ g[a] \in [size : Nat, free : BOOLEAN,
                     next : DOMAIN g \union {NULL}, prev : DOMAIN g \union {NULL}]
    <3>1. g[a] = [h[a] EXCEPT !.next = rest, !.size = size]
      BY <2>1, <2>2, <2>4
    <3>. QED
      BY <2>5, <2>7, <3>1
  <2>9. ASSUME NEW x \in DOMAIN h \ {a}
        PROVE  /\ g[x].size = h[x].size /\ (g[x].free <=> h[x].free) /\ g[x].next = h[x].next
               /\ g[x].prev = IF x = n THEN rest ELSE h[x].prev
               /\ g[x] \in [size : Nat, free : BOOLEAN,
                            next : DOMAIN g \union {NULL}, prev : DOMAIN g \union {NULL}]
    <3>1. g[x] = IF x = n THEN [h[x] EXCEPT !.prev = rest] ELSE h[x]
      BY <2>2, <2>4
    <3>. QED
      BY <2>5, <2>7, <3>1
  <2>10. /\ BlockEnd(g, rest) = BlockEnd(h, a) /\ BlockEnd(g, a) = rest
         /\ \A x \in DOMAIN h \ {a} : BlockEnd(g, x) = BlockEnd(h, x)
    <3>1. BlockEnd(g, rest) = BlockEnd(h, a)
      BY <2>1, <2>6 DEF BlockEnd
    <3>2. BlockEnd(g, a) = rest
      BY <2>8 DEF BlockEnd, rest
    <3>3. \A x \in DOMAIN h \ {a} : BlockEnd(g, x) = BlockEnd(h, x)
      BY <2>9 DEF BlockEnd
    <3>. QED
      BY <3>1, <3>2, <3>3
  <2>11. ASSUME NEW x \in DOMAIN g PROVE HeaderOK(g, x)
    <3>1. HeaderOK(h, a) /\ a # heap_head => h[a].prev \in DOMAIN h
      BY DEF Tiles, HeaderOK
    <3>2. CASE x = rest
      <4>1. rest # heap_head
        BY <2>2 DEF Tiles
      <4>2. n # NULL => g[n].prev = rest
        BY <2>3, <2>9, Links
      <4>3. g[rest] \in [size : Nat, free : BOOLEAN,
                  next : DOMAIN g \union {NULL}, prev : DOMAIN g \union {NULL}]
        BY <2>1, <2>5, <2>6, <2>7
      <4>4. /\ a # NULL /\ BlockEnd(h, a) <= HeapSize
            /\ n = NULL => BlockEnd(h, a) = HeapSize
            /\ n # NULL => n = BlockEnd(h, a)
        BY <2>1, NullFacts DEF Tiles, HeaderOK
      <4>5. g[rest].next = n /\ g[rest].prev = a
        BY <2>6
      <4>. QED
        BY <2>8, <2>10, <3>2, <4>1, <4>2, <4>3, <4>4, <4>5 DEF HeaderOK
    <3>3. CASE x = a
      <4>1. BlockEnd(g, a) <= HeapSize
        <5>1. BlockEnd(h, a) <= HeapSize /\ BlockEnd(h, a) \in Nat
          BY Links DEF Tiles, HeaderOK
        <5>. QED
          BY <2>1, <2>10, <5>1, NullFacts
      <4>2. ASSUME a # heap_head PROVE g[a].prev # NULL /\ g[g[a].prev].next = a
        <5>1. h[a].prev \in DOMAIN h \ {a} /\ h[a].prev # NULL /\ h[h[a].prev].next = a
          BY <2>1, <4>2, Links
        <5>. QED
          BY <2>8, <2>9, <5>1
      <4>3. g[rest].prev = a
        BY <2>6
      <4>. QED
        BY <2>3, <2>8, <2>10, <3>3, <4>1, <4>2, <4>3 DEF HeaderOK
    <3>4. CASE x \in DOMAIN h \ {a}
      <4>1. HeaderOK(h, x)
        BY <3>4 DEF Tiles
      <4>2. ASSUME h[x].next # NULL PROVE g[h[x].next].prev = x
        <5>1. h[x].next \in DOMAIN h /\ h[h[x].next].prev = x
          BY <3>4, <4>2, Links
        <5>2. h[x].next # n
          <6>1. n # NULL => h[n].prev = a
            BY Links
          <6>. QED
            BY <3>4, <4>2, <5>1, <6>1
        <5>3. CASE h[x].next = a
          BY <2>8, <5>1, <5>3
        <5>4. CASE h[x].next # a
          BY <2>9, <5>1, <5>2, <5>4
        <5>. QED
          BY <5>3, <5>4
      <4>3. ASSUME x # heap_head PROVE g[x].prev # NULL /\ g[g[x].prev].next = x
        <5>1. CASE x = n
          BY <2>3, <2>6, <2>9, <3>4, <5>1
        <5>2. CASE x # n
          <6>1. h[x].prev \in DOMAIN h /\ h[x].prev # NULL /\ h[h[x].prev].next = x
            BY <3>4, <4>3, Links
          <6>2. h[x].prev # a
            BY <5>2, <6>1
          <6>. QED
            BY <2>9, <3>4, <5>2, <6>1, <6>2
        <5>. QED
          BY <5>1, <5>2
      <4>. QED
        BY <2>9, <2>10, <3>4, <4>1, <4>2, <4>3 DEF HeaderOK
    <3>. QED
      BY <2>5, <3>2, <3>3, <3>4
  <2>12. ASSUME NEW x \in DOMAIN g, NEW y \in DOMAIN g, x < y PROVE BlockEnd(g, x) <= y
    <3>1. /\ \A z \in DOMAIN h : z \in Nat
          /\ \A z, w \in DOMAIN h : z < w => BlockEnd(h, z) <= w
          /\ \A z \in DOMAIN h : BlockEnd(h, z) \in Nat /\ z < BlockEnd(h, z)
      BY Links DEF Tiles
    <3>2. CASE x = rest
      <4>1. y \in DOMAIN h /\ a < y
        BY <2>1, <2>5, <3>1, <3>2, <2>12
      <4>. QED
        BY <2>10, <3>1, <3>2, <4>1
    <3>3. CASE x = a
      <4>1. y = rest \/ (y \in DOMAIN h /\ BlockEnd(h, a) <= y)
        BY <2>5, <2>12, <3>1, <3>3
      <4>. QED
        BY <2>1, <2>5, <2>10, <3>1, <3>3, <4>1
    <3>4. CASE x \in DOMAIN h \ {a}
      <4>1. CASE y = rest
        <5>1. ~ (a < x)
          <6>1. a < x => BlockEnd(h, a) <= x
            BY <3>1, <3>4
          <6>. QED
            BY <2>1, <2>12, <3>1, <3>4, <4>1, <6>1
        <5>2. x < a /\ BlockEnd(h, x) <= a
          BY <2>1, <3>1, <3>4, <5>1
        <5>. QED
          BY <2>1, <2>10, <3>1, <3>4, <4>1, <5>2
      <4>2. CASE y \in DOMAIN h
        BY <2>10, <2>12, <3>1, <3>4, <4>2
      <4>. QED
        BY <2>5, <4>1, <4>2
    <3>. QED
      BY <2>5, <3>2, <3>3, <3>4
  <2>13. Tiles(g)
    <3>1. DOMAIN g \subseteq Nat /\ heap_head \in DOMAIN g
      BY <2>1, <2>5 DEF Tiles
    <3>2. g[heap_head].prev = NULL
      <4>1. heap_head \in DOMAIN h /\ h[heap_head].prev = NULL /\ heap_head # n
        BY Links, NullFacts, <2>1 DEF Tiles
      <4>2. CASE heap_head = a
        BY <2>8, <4>1, <4>2
      <4>3. CASE heap_head # a
        <5>1. heap_head \in DOMAIN h \ {a}
          BY <4>1, <4>3
        <5>2. g[heap_head].prev = h[heap_head].prev
          BY <2>9, <4>1, <5>1
        <5>. QED
          BY <4>1, <5>2
      <4>. QED
        BY <4>2, <4>3
    <3>. QED
      BY <2>5, <2>11, <2>12, <3>1, <3>2 DEF Tiles
  <2>14. ASSUME NEW x \in DOMAIN g \ {a} PROVE ~ FreePair(g, x)
    <3>1. CASE x = rest
      <4>1. ~ FreeAt(h, n)
        BY DEF FreePair
      <4>2. n # NULL => n \in DOMAIN h \ {a}
        BY <2>3, Links
      <4>. QED
        BY <2>6, <2>9, <3>1, <4>1, <4>2 DEF FreePair, FreeAt
    <3>2. CASE x \in DOMAIN h \ {a}
      <4>1. ~ FreePair(h, x) /\ (h[x].next # NULL => h[x].next \in DOMAIN h)
        BY <3>2, Links
      <4>2. h[x].next \in DOMAIN h => (g[h[x].next].free <=> h[h[x].next].free)
        BY <2>8, <2>9
      <4>. QED
        BY <2>9, <3>2, <4>1, <4>2 DEF FreePair, FreeAt
    <3>. QED
      BY <2>5, <3>1, <3>2
  <2>15. \A x \in DOMAIN g \ DOMAIN h : g[x].free
    BY <2>5, <2>6
  <2>16. g[a].size >= size
    BY <2>8
  <2>. QED
    BY <2>5, <2>8, <2>9, <2>13, <2>14, <2>15, <2>16 DEF SplitInto
<1>. QED
  BY <1>1, <1>2

\* Absorbing the next block leaves one block where there were two.
LEMMA AbsorbTiles ==
    ASSUME NEW h, Tiles(h), NEW a \in DOMAIN h, h[a].next # NULL,
           NEW g, g = Absorb(h, a)
    PROVE  Merged(h, a, g)
<1> DEFINE b == h[a].next
           n == h[b].next
<1>1. /\ a \in Nat /\ b \in DOMAIN h /\ b \in Nat /\ b = BlockEnd(h, a) /\ h[b].prev = a
      /\ h[a].size \in Nat /\ h[b].size \in Nat /\ a < b /\ b < BlockEnd(h, b)
      /\ a # NULL /\ b # NULL
  BY Links, NullFacts
<1>2. n # NULL => n \in DOMAIN h /\ n = BlockEnd(h, b) /\ n \in Nat /\ b < n /\ h[n].prev = b
  BY <1>1, Links
<1>3. n # a /\ n # b
  BY <1>1, <1>2
<1> HIDE DEF b, n
<1>4. g = [x \in DOMAIN h \ {b} |->
             IF x = a THEN [h[a] EXCEPT !.size = h[a].size + h[b].size + Hdr, !.next = n]
             ELSE IF x = n THEN [h[x] EXCEPT !.prev = a]
             ELSE h[x]]
  BY DEF Absorb, b, n
<1>5. DOMAIN g = DOMAIN h \ {b} /\ g = [x \in DOMAIN g |-> g[x]] /\ a \in DOMAIN g
  BY <1>1, <1>4
<1>6. \A x \in DOMAIN h : h[x] \in [size : Nat, free : BOOLEAN,
            next : DOMAIN h \union {NULL}, prev : DOMAIN h \union {NULL}]
  BY DEF Tiles, HeaderOK
<1>7. \A x \in DOMAIN h : (h[x].next = b => x = a) /\ (h[x].prev = b => x = n)
  <2> TAKE x \in DOMAIN h
  <2>1. h[x].next = b => x = a
    BY <1>1, Links
  <2>2. h[x].prev = b => x = n
    BY <1>1, Links DEF n
  <2>. QED
    BY <2>1, <2>2
<1>8. /\ g[a].size = h[a].size + h[b].size + Hdr /\ (g[a].free <=> h[a].free)
      /\ g[a].next = n /\ g[a].prev = h[a].prev
      /\ g[a] \in [size : Nat, free : BOOLEAN,
                   next : DOMAIN g \union {NULL}, prev : DOMAIN g \union {NULL}]
  <2>1. g[a] = [h[a] EXCEPT !.size = h[a].size + h[b].size + Hdr, !.next = n]
    BY <1>4, <1>5
  <2>2. h[a].prev # b
    BY <1>3, <1>7
  <2>3. n \in DOMAIN g \union {NULL}
    BY <1>2, <1>3, <1>5
  <2>4. h[a].size + h[b].size + Hdr \in Nat
    BY <1>1, NullFacts
  <2>5. h[a] \in [size : Nat, free : BOOLEAN,
                  next : DOMAIN h \union {NULL}, prev : DOMAIN g \union {NULL}]
    BY <1>5, <1>6, <2>2
  <2>. QED
    BY <2>1, <2>3, <2>4, <2>5
<1>9. ASSUME NEW x \in DOMAIN g \ {a}
      PROVE  /\ g[x].size = h[x].size /\ (g[x].free <=> h[x].free) /\ g[x].next = h[x].next
             /\ g[x].prev = IF x = n THEN a ELSE h[x].prev
             /\ g[x] \in [size : Nat, free : BOOLEAN,
                          next : DOMAIN g \union {NULL}, prev : DOMAIN g \union {NULL}]
  <2>1. g[x] = IF x = n THEN [h[x] EXCEPT !.prev = a] ELSE h[x]
    BY <1>4, <1>5
  <2>2. x \in DOMAIN h /\ h[x].next # b /\ (x # n => h[x].prev # b)
    BY <1>5, <1>7
  <2>. QED
    BY <1>5, <1>6, <2>1, <2>2
<1>10. /\ BlockEnd(g, a) = BlockEnd(h, b)
       /\ \A x \in DOMAIN g \ {a} : BlockEnd(g, x) = BlockEnd(h, x)
  <2>1. BlockEnd(g, a) = BlockEnd(h, b)
    BY <1>1, <1>8, NullFacts DEF BlockEnd
  <2>2. \A x \in DOMAIN g \ {a} : BlockEnd(g, x) = BlockEnd(h, x)
    BY <1>9 DEF BlockEnd
  <2>. QED
    BY <2>1, <2>2
<1>11. ASSUME NEW x \in DOMAIN g PROVE HeaderOK(g, x)
  <2>1. CASE x = a
    <3>1. /\ BlockEnd(h, b) <= HeapSize /\ (n = NULL => BlockEnd(h, b) = HeapSize)
      BY <1>1 DEF Tiles, HeaderOK, n
    <3>2. n # NULL => n = BlockEnd(h, b) /\ g[n].prev = a
      BY <1>2, <1>3, <1>5, <1>9
    <3>3. ASSUME a # heap_head PROVE g[a].prev # NULL /\ g[g[a].prev].next = a
      <4>1. h[a].prev \in DOMAIN h /\ h[a].prev # NULL /\ h[h[a].prev].next = a /\ h[a].prev < a
        BY <3>3, Links
      <4>2. h[a].prev \in DOMAIN g \ {a}
        <5>1. h[a].prev # b
          BY <1>3, <1>7
        <5>. QED
          BY <1>1, <1>5, <4>1, <5>1, Links
      <4>. QED
        BY <1>8, <1>9, <4>1, <4>2
    <3>. QED
      BY <1>8, <1>10, <2>1, <3>1, <3>2, <3>3 DEF HeaderOK
  <2>2. CASE x # a
    <3>1. HeaderOK(h, x) /\ x \in DOMAIN h
      BY <1>5 DEF Tiles
    <3>2. ASSUME h[x].next # NULL PROVE g[h[x].next].prev = x
      <4>1. h[x].next \in DOMAIN h \ {b} /\ h[h[x].next].prev = x
        BY <1>7, <2>2, <3>1, <3>2, Links
      <4>2. h[x].next # n
        <5>1. n # NULL => h[n].prev = b
          BY <1>2
        <5>. QED
          BY <1>5, <3>2, <4>1, <5>1
      <4>. QED
        BY <1>5, <1>8, <1>9, <4>1, <4>2
    <3>3. ASSUME x # heap_head PROVE g[x].prev # NULL /\ g[g[x].prev].next = x
      <4>1. CASE x = n
        BY <1>1, <1>8, <1>9, <2>2, <4>1
      <4>2. CASE x # n
        <5>1. h[x].prev \in DOMAIN h \ {b} /\ h[x].prev # NULL /\ h[h[x].prev].next = x
          BY <1>7, <3>1, <3>3, <4>2, Links
        <5>2. h[x].prev # a
          BY <1>5, <5>1 DEF b
        <5>. QED
          BY <1>5, <1>9, <2>2, <4>2, <5>1, <5>2
      <4>. QED
        BY <4>1, <4>2
    <3>. QED
      BY <1>9, <1>10, <2>2, <3>1, <3>2, <3>3 DEF HeaderOK
  <2>. QED
    BY <2>1, <2>2
<1>12. ASSUME NEW x \in DOMAIN g, NEW y \in DOMAIN g, x < y PROVE BlockEnd(g, x) <= y
  <2>1. x \in DOMAIN h /\ y \in DOMAIN h /\ y # b /\ x \in Nat /\ y \in Nat
    BY <1>5 DEF Tiles
  <2>2. \A z, w \in DOMAIN h : z < w => BlockEnd(h, z) <= w
    BY DEF Tiles
  <2>3. CASE x = a
    <3>1. b <= y
      BY <1>1, <1>12, <2>1, <2>2, <2>3
    <3>2. b < y
      BY <1>1, <2>1, <3>1
    <3>. QED
      BY <1>1, <1>10, <2>1, <2>2, <2>3, <3>2
  <2>4. CASE x # a
    BY <1>10, <1>12, <2>1, <2>2, <2>4
  <2>. QED
    BY <2>3, <2>4
<1>13. DOMAIN g \subseteq Nat /\ heap_head \in DOMAIN g /\ g[heap_head].prev = NULL
  <2>1. heap_head \in DOMAIN h /\ h[heap_head].prev = NULL /\ DOMAIN h \subseteq Nat
    BY DEF Tiles
  <2>2. heap_head # b /\ heap_head # n
    BY <1>1, <1>2, <2>1, NullFacts
  <2>. QED
    BY <1>5, <1>8, <1>9, <2>1, <2>2
<1>14. Tiles(g)
  BY <1>5, <1>11, <1>12, <1>13 DEF Tiles
<1>. QED
  BY <1>5, <1>8, <1>9, <1>14 DEF Merged, b, n

\* Absorbing a free block into a free block changes no block in use, and
\* makes neighbours of no free blocks but those around the two.
LEMMA AbsorbFree ==
    ASSUME NEW h, Tiles(h), NEW a \in DOMAIN h, FreePair(h, a),
           NEW g, g = Absorb(h, a)
    PROVE  FreeMerged(h, a, g)
<1> DEFINE b == h[a].next
<1>1. b # NULL /\ b \in DOMAIN h /\ h[a].free /\ h[b].free /\ h[b].prev = a
  BY Links DEF FreePair, FreeAt
<1>2. /\ DOMAIN g = DOMAIN h \ {b} /\ a \in DOMAIN g /\ g[a].free /\ g[a].next = h[b].next
      /\ \A x \in DOMAIN g \ {a} :
            g[x].size = h[x].size /\ (g[x].free <=> h[x].free) /\ g[x].next = h[x].next
  <2>1. Merged(h, a, g)
    BY <1>1, AbsorbTiles
  <2>. QED
    BY <1>1, <2>1 DEF Merged
<1>3. Tiles(g)
  BY <1>1, AbsorbTiles DEF Merged
<1> HIDE DEF b
<1>4. InUse(g) = InUse(h) /\ \A x \in InUse(h) : g[x].size = h[x].size
  BY <1>1, <1>2 DEF InUse
<1>5. ASSUME NEW x \in DOMAIN g, FreePair(g, x)
      PROVE  IF x = a THEN FreePair(h, b) ELSE FreePair(h, x) /\ h[x].next # b
  <2> DEFINE y == g[x].next
  <2>1. y # NULL /\ y \in DOMAIN g /\ g[y].free /\ g[x].free
    BY <1>3, <1>5, Links DEF FreePair, FreeAt
  <2>2. y \in DOMAIN h /\ y # b /\ h[y].free
    BY <1>1, <1>2, <2>1
  <2>3. CASE x = a
    BY <1>1, <1>2, <2>1, <2>2, <2>3 DEF FreePair, FreeAt
  <2>4. CASE x # a
    BY <1>2, <2>1, <2>2, <2>4 DEF FreePair, FreeAt
  <2>. QED
    BY <2>3, <2>4
<1>. QED
  BY <1>4, <1>5 DEF FreeMerged, b
-----------------------------------------------------------------------------
(* kmalloc and kfree.                                                      *)

\* What kmalloc(n) does with block a ...
Uses(n, a) ==
    /\ Tiles(hdr') /\ \A x \in DOMAIN hdr' : ~ FreePair(hdr', x)
    /\ a \in DOMAIN hdr /\ a \notin InUse(hdr) /\ InUse(hdr') = InUse(hdr) \union {a}
    /\ \A x \in InUse(hdr) : hdr'[x].size = hdr[x].size
    /\ hdr'[a].size >= n /\ heap_used' = heap_used + hdr'[a].size + Hdr
    /\ asked' = [p \in DOMAIN asked \union {a + Hdr} |->
                   IF p = a + Hdr THEN n ELSE asked[p]]

\* ... and kfree with the block behind which a pointer points.
Unuses(p, a) ==
    /\ Tiles(hdr') /\ \A x \in DOMAIN hdr' : ~ FreePair(hdr', x)
    /\ p = a + Hdr /\ a \in InUse(hdr) /\ InUse(hdr') = InUse(hdr) \ {a}
    /\ \A x \in InUse(hdr') : hdr'[x].size = hdr[x].size
    /\ heap_used' = heap_used - (hdr[a].size + Hdr)
    /\ asked' = [q \in DOMAIN asked \ {p} |-> asked[q]]

\* kmalloc makes one more block of the list a block in use.
LEMMA MallocUses ==
    ASSUME HeapInv, NEW n \in Requests, kmalloc(n)
    PROVE  \E a : Uses(n, a)
<1>1. /\ Tiles(hdr) /\ DOMAIN hdr \subseteq Nat /\ \A x \in DOMAIN hdr : ~ FreePair(hdr, x)
  BY DEF HeapInv, Tiles
<1>2. PICK size \in Nat : size = Rounded(n) /\ size >= n
  BY RoundedUp, HeapAssumption
<1>3. PICK a \in DOMAIN hdr : a = Min({x \in DOMAIN hdr : Fits(x, size)}) /\ Fits(a, size)
  <2> DEFINE fit == {x \in DOMAIN hdr : Fits(x, size)}
  <2>1. fit # {}
    BY <1>2 DEF kmalloc
  <2>2. fit \in SUBSET Nat
    BY <1>1
  <2>3. Min(fit) \in fit
    BY <2>1, <2>2, MinFits
  <2>. QED
    BY <2>3
<1> DEFINE h == split_block(hdr, a, size)
<1>4. /\ hdr' = [h EXCEPT ![a].free = FALSE]
      /\ heap_used' = heap_used + h[a].size + Hdr
      /\ asked' = [p \in DOMAIN asked \union {a + Hdr} |-> IF p = a + Hdr THEN n ELSE asked[p]]
  BY <1>2, <1>3 DEF kmalloc
<1>5. hdr[a].free /\ hdr[a].size >= size
  BY <1>3 DEF Fits
<1>6. /\ Tiles(h) /\ DOMAIN hdr \subseteq DOMAIN h
      /\ h[a].free /\ h[a].size >= size
      /\ \A x \in DOMAIN hdr \ {a} : h[x].size = hdr[x].size /\ (h[x].free <=> hdr[x].free)
      /\ \A x \in DOMAIN h \ DOMAIN hdr : h[x].free
      /\ \A x \in DOMAIN h \ {a} : ~ FreePair(h, x)
  <2>1. SplitInto(hdr, a, size, h)
    BY <1>1, <1>5, SplitTiles
  <2>. QED
    BY <2>1 DEF SplitInto
<1> HIDE DEF h
<1>7. /\ Tiles(hdr') /\ DOMAIN hdr' = DOMAIN h
      /\ \A x \in DOMAIN h :
            /\ hdr'[x].size = h[x].size /\ hdr'[x].next = h[x].next
            /\ hdr'[x].free <=> IF x = a THEN FALSE ELSE h[x].free
  <2>1. a \in DOMAIN h
    BY <1>6
  <2>2. MarkedAs(h, a, FALSE, hdr')
    BY <1>4, <1>6, <2>1, Marked
  <2>. QED
    BY <2>2 DEF MarkedAs
<1>8. ASSUME NEW x \in DOMAIN hdr' PROVE ~ FreePair(hdr', x)
  <2>1. h[x].next # NULL => h[x].next \in DOMAIN h
    BY <1>6, <1>7, Links
  <2>. QED
    BY <1>6, <1>7, <2>1 DEF FreePair, FreeAt
<1>9. a \notin InUse(hdr) /\ InUse(hdr') = InUse(hdr) \union {a}
  BY <1>5, <1>6, <1>7 DEF InUse
<1>10. \A x \in InUse(hdr) : hdr'[x].size = hdr[x].size
  BY <1>5, <1>6, <1>7 DEF InUse
<1>11. hdr'[a].size >= n /\ hdr'[a].size = h[a].size
  <2>1. h[a].size \in Nat /\ hdr'[a].size = h[a].size
    BY <1>6, <1>7, Links
  <2>. QED
    BY <1>2, <1>6, <2>1, HeapAssumption
<1>. QED
  BY <1>4, <1>7, <1>8, <1>9, <1>10, <1>11 DEF Uses

\* kfree makes one block of those in use a free one and merges it with its
\* free neighbours, on both sides.
LEMMA FreeUnuses ==
    ASSUME HeapInv, NEW p \in DOMAIN asked, kfree(p)
    PROVE  \E a : Unuses(p, a)
<1>1. PICK a \in InUse(hdr) : p = a + Hdr
  BY DEF HeapInv, AskedOK
<1>2. Tiles(hdr) /\ a \in DOMAIN hdr /\ a \in Nat /\ \A x \in DOMAIN hdr : ~ FreePair(hdr, x)
  BY DEF HeapInv, Tiles, InUse
<1>3. p - Hdr = a
  BY <1>1, <1>2, NullFacts
<1>11. /\ heap_used' = heap_used - (hdr[a].size + Hdr)
       /\ asked' = [q \in DOMAIN asked \ {p} |-> asked[q]]
  BY <1>3 DEF kfree
<1> DEFINE h0 == [hdr EXCEPT ![a].free = TRUE]
           b == h0[a].next
           h1 == IF FreeAt(h0, b) THEN Absorb(h0, a) ELSE h0
           c == h1[a].prev
<1>4. hdr' = IF FreeAt(h1, c) THEN Absorb(h1, c) ELSE h1
  <2>1. hdr' = coalesce(h0, a)
    BY <1>3 DEF kfree
  <2>. QED
    BY <2>1 DEF coalesce
<1>5. /\ Tiles(h0) /\ DOMAIN h0 = DOMAIN hdr
      /\ \A x \in DOMAIN hdr :
            /\ h0[x].size = hdr[x].size /\ h0[x].next = hdr[x].next
            /\ h0[x].free <=> IF x = a THEN TRUE ELSE hdr[x].free
  <2>1. MarkedAs(hdr, a, TRUE, h0)
    BY <1>2, Marked
  <2>. QED
    BY <2>1 DEF MarkedAs
<1> HIDE DEF h0
<1>6. InUse(h0) = InUse(hdr) \ {a} /\ \A x \in InUse(h0) : h0[x].size = hdr[x].size
  BY <1>5 DEF InUse
<1>7. ASSUME NEW x \in DOMAIN h0, FreePair(h0, x) PROVE x = a \/ h0[x].next = a
  <2>1. h0[x].next # NULL => h0[x].next \in DOMAIN h0
    BY <1>5, Links
  <2>. QED
    BY <1>2, <1>5, <1>7, <2>1 DEF FreePair, FreeAt
<1>8. /\ Tiles(h1) /\ a \in DOMAIN h1 /\ h1[a].free
      /\ InUse(h1) = InUse(h0) /\ \A x \in InUse(h0) : h1[x].size = h0[x].size
      /\ \A x \in DOMAIN h1 : FreePair(h1, x) => h1[x].next = a /\ x # a
  <2>1. CASE FreeAt(h0, b)
    <3>1. FreePair(h0, a) /\ b # NULL /\ a \in DOMAIN h0
      BY <1>2, <1>5, <2>1 DEF FreePair, FreeAt
    <3>2. h1 = Absorb(h0, a)
      BY <2>1
    <3> HIDE DEF h1
    <3>3. /\ Tiles(h1) /\ DOMAIN h1 = DOMAIN h0 \ {b} /\ a \in DOMAIN h1 /\ h1[a].free
          /\ \A x \in DOMAIN h1 \ {a} : h1[x].next = h0[x].next
      <4>1. Merged(h0, a, h1)
        BY <1>5, <3>1, <3>2, AbsorbTiles
      <4>. QED
        BY <3>1, <4>1 DEF Merged, FreePair
    <3>4. /\ InUse(h1) = InUse(h0) /\ \A x \in InUse(h0) : h1[x].size = h0[x].size
          /\ \A x \in DOMAIN h1 : FreePair(h1, x) =>
                IF x = a THEN FreePair(h0, b) ELSE FreePair(h0, x) /\ h0[x].next # b
      <4>1. FreeMerged(h0, a, h1)
        BY <1>5, <3>1, <3>2, AbsorbFree
      <4>. QED
        BY <4>1 DEF FreeMerged
    <3>5. ~ FreePair(h0, b)
      <4>1. b \in DOMAIN h0 /\ a < b /\ a \in Nat /\ b \in Nat
        BY <1>2, <1>5, <3>1, Links
      <4>2. h0[b].next # a
        <5>1. h0[b].next # NULL => h0[b].next = BlockEnd(h0, b) /\ BlockEnd(h0, b) \in Nat
                                   /\ b < BlockEnd(h0, b)
          BY <1>5, <4>1, Links
        <5>. QED
          BY <4>1, <5>1, NullFacts
      <4>. QED
        BY <1>7, <4>1, <4>2
    <3>6. ASSUME NEW x \in DOMAIN h1, FreePair(h1, x) PROVE h1[x].next = a /\ x # a
      <4>1. x # a /\ FreePair(h0, x)
        BY <3>4, <3>5, <3>6
      <4>. QED
        BY <1>7, <3>3, <4>1
    <3>. QED
      BY <3>3, <3>4, <3>6
  <2>2. CASE ~ FreeAt(h0, b)
    <3>1. h1 = h0 /\ ~ FreePair(h0, a)
      BY <2>2 DEF FreePair
    <3>. QED
      BY <1>2, <1>5, <1>7, <3>1
  <2>. QED
    BY <2>1, <2>2
<1> HIDE DEF h1
<1>9. CASE FreeAt(h1, c)
  <2>1. c # NULL /\ c \in DOMAIN h1 /\ h1[c].next = a /\ h1[c].free
    BY <1>8, <1>9, Links DEF FreeAt
  <2>2. FreePair(h1, c) /\ a # NULL
    BY <1>2, <1>8, <2>1, NullFacts DEF FreePair, FreeAt
  <2>3. hdr' = Absorb(h1, c)
    BY <1>4, <1>9
  <2> HIDE DEF c
  <2>4. Tiles(hdr') /\ DOMAIN hdr' = DOMAIN h1 \ {a}
    <3>1. Merged(h1, c, hdr')
      BY <1>8, <2>1, <2>2, <2>3, AbsorbTiles
    <3>. QED
      BY <2>1, <3>1 DEF Merged
  <2>5. /\ InUse(hdr') = InUse(h1) /\ \A x \in InUse(h1) : hdr'[x].size = h1[x].size
        /\ \A x \in DOMAIN hdr' : FreePair(hdr', x) =>
              IF x = c THEN FreePair(h1, a) ELSE FreePair(h1, x) /\ h1[x].next # a
    <3>1. FreeMerged(h1, c, hdr')
      BY <1>8, <2>1, <2>2, <2>3, AbsorbFree
    <3>. QED
      BY <2>1, <3>1 DEF FreeMerged
  <2>6. \A x \in DOMAIN hdr' : ~ FreePair(hdr', x)
    BY <1>8, <2>4, <2>5
  <2>. QED
    BY <1>1, <1>6, <1>8, <1>11, <2>4, <2>5, <2>6 DEF Unuses
<1>10. CASE ~ FreeAt(h1, c)
  <2>1. hdr' = h1
    BY <1>4, <1>10
  <2>2. ASSUME NEW x \in DOMAIN h1, FreePair(h1, x) PROVE FALSE
    <3>1. h1[x].next = a /\ h1[x].free /\ x \in Nat
      BY <1>8, <2>2 DEF FreePair, Tiles
    <3>2. c = x
      BY <1>2, <1>8, <3>1, Links, NullFacts
    <3>. QED
      BY <1>10, <3>1, <3>2, NullFacts DEF FreeAt
  <2>. QED
    BY <1>1, <1>6, <1>8, <1>11, <2>1, <2>2 DEF Unuses
<1>. QED
  BY <1>9, <1>10
-----------------------------------------------------------------------------
(* The invariant.                                                          *)

\* A heap has finitely many blocks, of known sizes.
LEMMA BlocksFinite ==
    ASSUME NEW h, Tiles(h), NEW S \in SUBSET (DOMAIN h)
    PROVE  IsFiniteSet(S) /\ S \in SUBSET Nat /\ \A x \in S : h[x].size \in Nat
<1>1. ASSUME NEW x \in DOMAIN h PROVE x \in 0 .. HeapSize
  <2>1. x \in Nat /\ BlockEnd(h, x) \in Nat /\ x < BlockEnd(h, x)
    BY Links
  <2>2. BlockEnd(h, x) <= HeapSize
    BY DEF Tiles, HeaderOK
  <2>. QED
    BY <2>1, <2>2, NullFacts
<1>2. IsFiniteSet(0 .. HeapSize)
  BY FS_Interval, NullFacts
<1>3. IsFiniteSet(S)
  <2>1. S \subseteq 0 .. HeapSize
    BY <1>1
  <2>. QED
    BY <1>2, <2>1, FS_Subset
<1>. QED
  BY <1>3, Links

\* kmalloc keeps the invariant.
LEMMA UsesKeeps ==
    ASSUME HeapInv, NEW n \in Requests, NEW a, Uses(n, a)
    PROVE  HeapInv'
<1>1. Tiles(hdr') /\ (\A x \in DOMAIN hdr' : ~ FreePair(hdr', x)) /\ Tiles(hdr)
  BY DEF Uses, HeapInv
<1>2. AskedOK'
  <2>1. DOMAIN asked' = {x + Hdr : x \in InUse(hdr')}
    <3>1. InUse(hdr') = InUse(hdr) \union {a}
      BY DEF Uses
    <3>2. DOMAIN asked' = DOMAIN asked \union {a + Hdr}
      BY DEF Uses
    <3>3. DOMAIN asked = {x + Hdr : x \in InUse(hdr)}
      BY DEF HeapInv, AskedOK
    <3>. QED
      BY <3>1, <3>2, <3>3
  <2>2. ASSUME NEW x \in InUse(hdr')
        PROVE  asked'[x + Hdr] \in Requests /\ asked'[x + Hdr] <= hdr'[x].size
    <3>1. CASE x = a
      <4>1. x + Hdr \in DOMAIN asked \union {a + Hdr} /\ asked'[x + Hdr] = n
        BY <3>1 DEF Uses
      <4>2. hdr'[a].size >= n /\ hdr'[a].size \in Nat /\ n \in Nat
        BY <1>1, Links, HeapAssumption DEF Uses, InUse
      <4>. QED
        BY <3>1, <4>1, <4>2
    <3>2. CASE x # a
      <4>1. x \in InUse(hdr) /\ a \in DOMAIN hdr
        BY <3>2 DEF Uses
      <4>2. x \in Nat /\ a \in Nat
        BY <1>1, <4>1 DEF Tiles, InUse
      <4>3. x + Hdr \in DOMAIN asked /\ x + Hdr # a + Hdr
        BY <3>2, <4>1, <4>2, NullFacts DEF HeapInv, AskedOK
      <4>4. asked'[x + Hdr] = asked[x + Hdr] /\ hdr'[x].size = hdr[x].size
        BY <4>1, <4>3 DEF Uses
      <4>. QED
        BY <4>1, <4>4 DEF HeapInv, AskedOK
    <3>. QED
      BY <3>1, <3>2
  <2>. QED
    BY <2>1, <2>2 DEF AskedOK
<1>3. heap_used' = Total(hdr', InUse(hdr'))
  <2>1. /\ InUse(hdr') = InUse(hdr) \union {a} /\ InUse(hdr') \ {a} = InUse(hdr)
        /\ heap_used' = heap_used + hdr'[a].size + Hdr
    BY DEF Uses
  <2>2. Total(hdr', InUse(hdr')) = Weight(hdr', a) + Total(hdr', InUse(hdr') \ {a})
    <3>1. InUse(hdr') \in SUBSET (DOMAIN hdr')
      BY DEF InUse
    <3>. QED
      BY <1>1, <2>1, <3>1, BlocksFinite, TotalFacts
  <2>3. Total(hdr, InUse(hdr)) = Total(hdr', InUse(hdr)) /\ Total(hdr, InUse(hdr)) \in Nat
    <3>1. InUse(hdr) \in SUBSET (DOMAIN hdr)
      BY DEF InUse
    <3>2. IsFiniteSet(InUse(hdr)) /\ \A x \in InUse(hdr) : hdr[x].size \in Nat
      BY <1>1, <3>1, BlocksFinite
    <3>3. \A x \in InUse(hdr) : hdr[x].size \in Nat /\ hdr'[x].size = hdr[x].size
      BY <3>2 DEF Uses
    <3>. QED
      BY <3>2, <3>3, TotalFacts, TotalAgrees
  <2>4. hdr'[a].size \in Nat
    BY <1>1, <2>1, Links DEF InUse
  <2>5. Total(hdr', InUse(hdr')) = hdr'[a].size + Hdr + Total(hdr, InUse(hdr))
    BY <2>1, <2>2, <2>3 DEF Weight
  <2>6. heap_used = Total(hdr, InUse(hdr))
    BY DEF HeapInv
  <2>. QED
    BY <2>1, <2>3, <2>4, <2>5, <2>6, NullFacts
<1>. QED
  BY <1>1, <1>2, <1>3 DEF HeapInv

\* kfree keeps the invariant.
LEMMA UnusesKeeps ==
    ASSUME HeapInv, NEW p, NEW a, Unuses(p, a)
    PROVE  HeapInv'
<1>1. Tiles(hdr') /\ (\A x \in DOMAIN hdr' : ~ FreePair(hdr', x)) /\ Tiles(hdr)
  BY DEF Unuses, HeapInv
<1>2. /\ InUse(hdr') = InUse(hdr) \ {a} /\ a \in InUse(hdr) /\ p = a + Hdr
      /\ \A x \in InUse(hdr') : hdr'[x].size = hdr[x].size
      /\ heap_used' = heap_used - (hdr[a].size + Hdr)
      /\ asked' = [q \in DOMAIN asked \ {p} |-> asked[q]]
  BY DEF Unuses
<1>3. \A x \in InUse(hdr) : x \in Nat
  BY <1>1 DEF Tiles, InUse
<1>4. AskedOK'
  <2>1. DOMAIN asked' = {x + Hdr : x \in InUse(hdr')}
    <3>1. DOMAIN asked' = DOMAIN asked \ {a + Hdr}
      BY <1>2
    <3>2. DOMAIN asked = {x + Hdr : x \in InUse(hdr)}
      BY DEF HeapInv, AskedOK
    <3>3. \A x \in InUse(hdr) : x + Hdr = a + Hdr => x = a
      BY <1>2, <1>3, NullFacts
    <3>. QED
      BY <1>2, <3>1, <3>2, <3>3
  <2>2. ASSUME NEW x \in InUse(hdr')
        PROVE  asked'[x + Hdr] \in Requests /\ asked'[x + Hdr] <= hdr'[x].size
    <3>1. x \in InUse(hdr) /\ hdr'[x].size = hdr[x].size
      BY <1>2
    <3>2. asked'[x + Hdr] = asked[x + Hdr]
      BY <1>2, <2>1
    <3>. QED
      BY <3>1, <3>2 DEF HeapInv, AskedOK
  <2>. QED
    BY <2>1, <2>2 DEF AskedOK
<1>5. heap_used' = Total(hdr', InUse(hdr'))
  <2>1. InUse(hdr) \in SUBSET (DOMAIN hdr)
    BY DEF InUse
  <2>2. Total(hdr, InUse(hdr)) = Weight(hdr, a) + Total(hdr, InUse(hdr) \ {a})
    <3>1. IsFiniteSet(InUse(hdr)) /\ \A x \in InUse(hdr) : hdr[x].size \in Nat
      BY <1>1, <2>1, BlocksFinite
    <3>. QED
      BY <1>2, <3>1, TotalFacts
  <2>3. IsFiniteSet(InUse(hdr')) /\ \A x \in InUse(hdr') : hdr[x].size \in Nat
    BY <1>1, <1>2, <2>1, BlocksFinite
  <2>4. Total(hdr, InUse(hdr')) = Total(hdr', InUse(hdr')) /\ Total(hdr, InUse(hdr')) \in Nat
    BY <1>2, <2>3, TotalFacts, TotalAgrees
  <2>5. hdr[a].size \in Nat
    BY <1>1, <1>2, Links DEF InUse
  <2>. QED
    BY <1>2, <2>2, <2>4, <2>5, NullFacts DEF Weight, HeapInv
<1>. QED
  BY <1>1, <1>4, <1>5 DEF HeapInv

\* mem_init makes one free block of the heap.
LEMMA HeapInit == Init => HeapInv
<1> SUFFICES ASSUME Init PROVE HeapInv
  OBVIOUS
<1>1. /\ hdr = [a \in {0} |-> [size |-> HeapSize - Hdr, free |-> TRUE,
                                next |-> NULL, prev |-> NULL]]
      /\ heap_used = 0 /\ asked = <<>>
  BY DEF Init, heap_head
<1>2. /\ DOMAIN hdr = {0} /\ hdr[0].size = HeapSize - Hdr /\ hdr[0].free
      /\ hdr[0].next = NULL /\ hdr[0].prev = NULL
  BY <1>1
<1>3. HeapSize - Hdr \in Nat
  BY HeapAssumption
<1>4. hdr[0] \in [size : Nat, free : BOOLEAN, next : {0} \union {NULL}, prev : {0} \union {NULL}]
  BY <1>1, <1>3
<1>5. BlockEnd(hdr, 0) = HeapSize
  BY <1>2, <1>3, NullFacts DEF BlockEnd
<1>6. HeaderOK(hdr, 0)
  BY <1>2, <1>4, <1>5, NullFacts DEF HeaderOK, heap_head
<1>7. Tiles(hdr)
  BY <1>1, <1>2, <1>6 DEF Tiles, heap_head
<1>8. InUse(hdr) = {} /\ ~ FreePair(hdr, 0)
  BY <1>2 DEF InUse, FreePair, FreeAt
<1>9. AskedOK
  BY <1>1, <1>8 DEF AskedOK
<1>10. Total(hdr, {}) = 0
  BY TotalFacts, FS_EmptySet
<1>. QED
  BY <1>1, <1>2, <1>7, <1>8, <1>9, <1>10 DEF HeapInv

\* Every step keeps the invariant.
LEMMA HeapStep == HeapInv /\ [Next]_vars => HeapInv'
<1> SUFFICES ASSUME HeapInv, [Next]_vars PROVE HeapInv'
  OBVIOUS
<1>1. CASE UNCHANGED vars
  BY <1>1 DEF vars, HeapInv, AskedOK
<1>2. ASSUME NEW n \in Requests, kmalloc(n) PROVE HeapInv'
  BY <1>2, MallocUses, UsesKeeps
<1>3. ASSUME NEW n \in Requests, kmalloc_fails(n) PROVE HeapInv'
  BY <1>1, <1>3 DEF kmalloc_fails
<1>4. ASSUME NEW p \in DOMAIN asked, kfree(p) PROVE HeapInv'
  BY <1>4, FreeUnuses, UnusesKeeps
<1>. QED
  BY <1>1, <1>2, <1>3, <1>4 DEF Next

\* The heap's inductive invariant (mem.c:100-186).
THEOREM HeapInvariant == Spec => []HeapInv
BY HeapInit, HeapStep, PTL DEF Spec
-----------------------------------------------------------------------------
(* What follows.                                                           *)

\* Every block lies in the heap, and so does every pointer.
LEMMA InHeap ==
    ASSUME HeapInv, NEW a \in DOMAIN hdr
    PROVE  /\ a \in 0 .. HeapSize /\ a + Hdr \in 0 .. HeapSize
           /\ hdr[a].size \in 0 .. HeapSize
<1>1. Tiles(hdr)
  BY DEF HeapInv
<1>2. a \in Nat /\ hdr[a].size \in Nat
  BY <1>1, Links
<1>3. a + Hdr + hdr[a].size <= HeapSize
  BY <1>1 DEF Tiles, HeaderOK, BlockEnd
<1>. QED
  BY <1>2, <1>3, NullFacts

\* The fields stay in their types; in particular the counter of used bytes
\* never goes below zero or above the size of the heap (mem.c:136, 183).
THEOREM HeapTypes == Spec => []TypeOK
<1>1. ASSUME HeapInv PROVE TypeOK
  <2>1. Tiles(hdr)
    BY <1>1 DEF HeapInv
  <2>2. \A a \in DOMAIN hdr :
            hdr[a] \in [size : 0 .. HeapSize, free : BOOLEAN,
                        next : DOMAIN hdr \union {NULL}, prev : DOMAIN hdr \union {NULL}]
    <3> TAKE a \in DOMAIN hdr
    <3>1. hdr[a] \in [size : Nat, free : BOOLEAN,
                next : DOMAIN hdr \union {NULL}, prev : DOMAIN hdr \union {NULL}]
      BY <2>1 DEF Tiles, HeaderOK
    <3>2. hdr[a].size \in 0 .. HeapSize
      BY <1>1, InHeap
    <3>. QED
      BY <3>1, <3>2
  <2>3. DOMAIN hdr \subseteq 0 .. HeapSize
    BY <1>1, InHeap
  <2>4. heap_used \in 0 .. HeapSize
    <3>1. InUse(hdr) \in SUBSET (DOMAIN hdr)
      BY DEF InUse
    <3>2. /\ IsFiniteSet(InUse(hdr)) /\ InUse(hdr) \in SUBSET Nat
          /\ \A x \in InUse(hdr) : hdr[x].size \in Nat
      BY <2>1, <3>1, BlocksFinite
    <3>3. \A x, y \in InUse(hdr) : x < y => BlockEnd(hdr, x) <= y
      BY <2>1 DEF InUse, Tiles
    <3>4. \A x \in InUse(hdr) : BlockEnd(hdr, x) <= HeapSize
      BY <2>1 DEF InUse, Tiles, HeaderOK
    <3>5. Total(hdr, InUse(hdr)) <= HeapSize
      BY <3>2, <3>3, <3>4, TotalBounded, NullFacts
    <3>6. Total(hdr, InUse(hdr)) \in Nat
      BY <3>2, TotalFacts
    <3>. QED
      BY <1>1, <3>5, <3>6, NullFacts DEF HeapInv
  <2>5. ASSUME NEW p \in DOMAIN asked PROVE p \in 0 .. HeapSize /\ asked[p] \in Requests
    <3>1. PICK a \in InUse(hdr) : p = a + Hdr
      BY <1>1 DEF HeapInv, AskedOK
    <3>2. a \in DOMAIN hdr
      BY DEF InUse
    <3>. QED
      BY <1>1, <3>1, <3>2, InHeap DEF HeapInv, AskedOK
  <2>. QED
    BY <2>2, <2>3, <2>4, <2>5 DEF TypeOK
<1>. QED
  BY <1>1, HeapInvariant, PTL

\* The list always tiles the heap, its links undo each other, and the counter
\* behind `free` is the sum of the blocks in use (mem.c:100-117, 136, 154-183).
THEOREM ListStays == Spec => []ListOK
<1>1. ASSUME HeapInv PROVE ListOK
  <2>1. Tiles(hdr)
    BY <1>1 DEF HeapInv
  <2>2. heap_head \in DOMAIN hdr /\ hdr[heap_head].prev = NULL
    BY <2>1 DEF Tiles
  <2>3. ASSUME NEW a \in DOMAIN hdr
        PROVE  /\ hdr[a].next = NULL => End(a) = HeapSize
               /\ hdr[a].next # NULL => hdr[a].next = End(a) /\ hdr[End(a)].prev = a
               /\ a # heap_head => hdr[a].prev # NULL /\ hdr[hdr[a].prev].next = a
    <3>1. HeaderOK(hdr, a) /\ End(a) = BlockEnd(hdr, a)
      BY <2>1 DEF Tiles, End, BlockEnd
    <3>. QED
      BY <3>1 DEF HeaderOK
  <2>4. heap_used = MapThenSumSet(LAMBDA a : hdr[a].size + Hdr,
                                  {a \in DOMAIN hdr : ~ hdr[a].free})
    BY <1>1, Zenon DEF HeapInv, Total, InUse
  <2>. QED
    BY <2>2, <2>3, <2>4, Zenon DEF ListOK
<1>. QED
  BY <1>1, HeapInvariant, PTL

\* When the last pointer has been given back, in whatever order, the heap is
\* one block again: no two free blocks are ever neighbours (mem.c:154-168).
THEOREM FreedIsWhole == Spec => []FullyCoalesced
<1>1. ASSUME HeapInv PROVE FullyCoalesced
  <2> SUFFICES ASSUME DOMAIN asked = {} PROVE DOMAIN hdr = {heap_head}
    BY DEF FullyCoalesced
  <2>1. Tiles(hdr) /\ InUse(hdr) = {}
    BY <1>1 DEF HeapInv, AskedOK
  <2>2. \A a \in DOMAIN hdr : hdr[a].free
    BY <2>1 DEF InUse
  <2>3. heap_head \in DOMAIN hdr /\ DOMAIN hdr \subseteq Nat
    BY <2>1 DEF Tiles
  <2>4. hdr[heap_head].next = NULL
    <3>1. hdr[heap_head].next # NULL => hdr[heap_head].next \in DOMAIN hdr
      BY <2>1, <2>3, Links
    <3>2. ~ FreePair(hdr, heap_head)
      BY <1>1, <2>3 DEF HeapInv
    <3>. QED
      BY <2>2, <2>3, <3>1, <3>2 DEF FreePair, FreeAt
  <2>5. ASSUME NEW a \in DOMAIN hdr PROVE a = heap_head
    <3>1. ~ (heap_head < a)
      BY <2>1, <2>3, <2>4, NoGap
    <3>. QED
      BY <2>3, <3>1 DEF heap_head
  <2>. QED
    BY <2>3, <2>5
<1>. QED
  BY <1>1, HeapInvariant, PTL
-----------------------------------------------------------------------------
(* The list implements the promise.                                        *)

\* The stretch of memory behind a header, as its owner sees it.
Piece(h, k, a) == [at |-> a + Hdr, size |-> h[a].size, asked |-> k[a + Hdr]]

\* What is handed out, before and after a step.
LEMMA LiveIs ==
    /\ Live = {Piece(hdr, asked, a) : a \in InUse(hdr)}
    /\ Live' = {Piece(hdr', asked', a) : a \in InUse(hdr')}
BY DEF Live, Piece, InUse

\* kmalloc hands out a block that overlaps no other.
LEMMA UsesAllocates ==
    ASSUME HeapInv, HeapInv', NEW n \in Requests, NEW a, Uses(n, a)
    PROVE  Promise!Alloc(n)
<1> DEFINE x == Piece(hdr', asked', a)
<1>1. /\ Tiles(hdr') /\ a \in InUse(hdr') /\ InUse(hdr') = InUse(hdr) \union {a}
      /\ a \notin InUse(hdr) /\ \A b \in InUse(hdr) : hdr'[b].size = hdr[b].size
      /\ hdr'[a].size >= n
      /\ asked' = [p \in DOMAIN asked \union {a + Hdr} |-> IF p = a + Hdr THEN n ELSE asked[p]]
  BY DEF Uses
<1>2. \A b \in InUse(hdr') : b \in Nat /\ b \in DOMAIN hdr'
  BY <1>1 DEF InUse, Tiles
<1>3. x.at = a + Hdr /\ x.size = hdr'[a].size /\ x.asked = n
  BY <1>1 DEF Piece
<1>4. ASSUME NEW b \in InUse(hdr) PROVE Piece(hdr', asked', b) = Piece(hdr, asked, b)
  <2>1. b + Hdr \in DOMAIN asked /\ b + Hdr # a + Hdr
    BY <1>1, <1>2, <1>4, NullFacts DEF HeapInv, AskedOK
  <2>2. asked'[b + Hdr] = asked[b + Hdr]
    BY <1>1, <2>1
  <2>. QED
    BY <1>1, <2>2 DEF Piece
<1>5. x \in Live' /\ Live' = Live \union {x}
  <2> HIDE DEF Piece
  <2>1. Live = {Piece(hdr', asked', b) : b \in InUse(hdr)}
    BY <1>4, LiveIs
  <2>2. Live' = {Piece(hdr', asked', b) : b \in InUse(hdr) \union {a}}
    BY <1>1, LiveIs
  <2>. QED
    BY <2>1, <2>2
<1>6. x.at >= 0 /\ x.at + x.size <= HeapSize
  <2>1. HeaderOK(hdr', a) /\ hdr'[a].size \in Nat
    BY <1>1, <1>2, Links DEF Tiles
  <2>. QED
    BY <1>1, <1>2, <1>3, <2>1, NullFacts DEF HeaderOK, BlockEnd
<1>7. ASSUME NEW y \in Live PROVE Promise!Disjoint(x, y)
  <2>1. PICK b \in InUse(hdr) : y = Piece(hdr', asked', b)
    BY <1>4, LiveIs
  <2>2. y.at = b + Hdr /\ y.size = hdr'[b].size
    BY <2>1 DEF Piece
  <2>3. /\ a \in Nat /\ b \in Nat /\ a # b /\ a \in DOMAIN hdr' /\ b \in DOMAIN hdr'
        /\ hdr'[a].size \in Nat /\ hdr'[b].size \in Nat
    BY <1>1, <1>2, Links
  <2>4. a < b => a + Hdr + hdr'[a].size <= b
    BY <1>1, <2>3 DEF Tiles, BlockEnd
  <2>5. b < a => b + Hdr + hdr'[b].size <= a
    BY <1>1, <2>3 DEF Tiles, BlockEnd
  <2> HIDE DEF x
  <2>6. x.at + x.size <= y.at \/ y.at + y.size <= x.at
    BY <1>3, <2>2, <2>3, <2>4, <2>5, NullFacts
  <2>. QED
    BY <2>6 DEF Promise!Disjoint
<1> HIDE DEF x
<1>. QED
  BY <1>1, <1>3, <1>5, <1>6, <1>7 DEF Promise!Alloc

\* kfree takes back one block and leaves the others.
LEMMA UnusesFrees ==
    ASSUME HeapInv, NEW p, NEW a, Unuses(p, a)
    PROVE  \E x \in Live : Promise!Free(x)
<1> DEFINE x == Piece(hdr, asked, a)
<1>1. /\ InUse(hdr') = InUse(hdr) \ {a} /\ a \in InUse(hdr) /\ p = a + Hdr
      /\ \A b \in InUse(hdr') : hdr'[b].size = hdr[b].size
      /\ asked' = [q \in DOMAIN asked \ {p} |-> asked[q]]
  BY DEF Unuses
<1>2. ASSUME NEW b \in InUse(hdr')
      PROVE  Piece(hdr', asked', b) = Piece(hdr, asked, b) /\ Piece(hdr, asked, b) # x
  <2>1. b \in InUse(hdr) /\ b # a /\ b \in Nat /\ a \in Nat
    BY <1>1 DEF HeapInv, Tiles, InUse
  <2>2. b + Hdr \in DOMAIN asked /\ b + Hdr # a + Hdr
    BY <2>1, NullFacts DEF HeapInv, AskedOK
  <2>3. asked'[b + Hdr] = asked[b + Hdr]
    BY <1>1, <2>2
  <2>. QED
    BY <1>1, <2>2, <2>3 DEF Piece
<1>3. x \in Live /\ Live' = Live \ {x}
  <2> HIDE DEF Piece
  <2>. QED
    BY <1>1, <1>2, LiveIs
<1>. QED
  BY <1>3 DEF Promise!Free

\* Every step of the heap is a step of the promise or leaves what is handed
\* out alone.
LEMMA HeapStepPromised == HeapInv /\ HeapInv' /\ [Next]_vars => [Promise!Next]_Live
<1> SUFFICES ASSUME HeapInv, HeapInv', [Next]_vars PROVE [Promise!Next]_Live
  OBVIOUS
<1>1. CASE UNCHANGED vars
  BY <1>1 DEF vars, Live
<1>2. ASSUME NEW n \in Requests, kmalloc(n) PROVE Promise!Alloc(n)
  BY <1>2, MallocUses, UsesAllocates
<1>3. ASSUME NEW n \in Requests, kmalloc_fails(n) PROVE UNCHANGED vars
  BY <1>3 DEF kmalloc_fails
<1>4. ASSUME NEW p \in DOMAIN asked, kfree(p) PROVE \E x \in Live : Promise!Free(x)
  BY <1>4, FreeUnuses, UnusesFrees
<1>. QED
  BY <1>1, <1>2, <1>3, <1>4 DEF Next, Promise!Next

\* The list keeps what kmalloc and kfree promise: every block returned lies in
\* the heap, is as long as asked for and overlaps no block in use, and a free
\* gives back that block only (mem.c:119-186).
THEOREM HeapImplements == Spec => Implements
<1>1. Init => Promise!Init
  <2> SUFFICES ASSUME Init PROVE Live = {}
    BY DEF Promise!Init
  <2>. QED
    BY LiveIs DEF Init, InUse
<1>. QED
  BY <1>1, HeapInvariant, HeapStepPromised, PTL DEF Spec, Implements, Promise!Spec
=============================================================================
