---------------------------- MODULE RamfsProofs ----------------------------
(***************************************************************************)
(* Proofs about the file tree, for trees of any size and shape, paths of   *)
(* any length and any names.                                               *)
(***************************************************************************)
EXTENDS Ramfs, WellFoundedInduction, FiniteSetTheorems, SequenceTheorems, TLAPS

-----------------------------------------------------------------------------
(* Numbers.                                                                *)

\* A set of naturals has a least element.
LEMMA LeastNumber ==
    ASSUME NEW T \in SUBSET Nat, T # {}
    PROVE  \E m \in T : \A n \in T : m <= n
<1> DEFINE below == {ss \in Nat \X Nat : ss[1] < ss[2]}
<1>1. IsWellFoundedOn(below, Nat)
  BY NatLessThanWellFounded, Zenon DEF OpToRel
<1> HIDE DEF below
<1>2. PICK m \in T : \A n \in T : ~ (<<n, m>> \in below)
  BY <1>1, WFMin
<1>3. ASSUME NEW n \in T PROVE m <= n
  <2>1. <<n, m>> \in below <=> n < m
    BY DEF below
  <2>. QED
    BY <1>2, <2>1
<1>. QED
  BY <1>3

\* Min finds it.
LEMMA MinIs ==
    ASSUME NEW T \in SUBSET Nat, T # {}
    PROVE  Min(T) \in T
<1>1. \E m \in T : \A n \in T : m <= n
  BY LeastNumber
<1>. QED
  BY <1>1, Zenon DEF Min

\* What holds of 0 and of the next number holds of them all.
LEMMA SetInduction ==
    ASSUME NEW T, 0 \in T, \A n \in Nat : n \in T => n + 1 \in T
    PROVE  Nat \subseteq T
<1> SUFFICES ASSUME Nat \ T # {} PROVE FALSE
  OBVIOUS
<1>1. PICK m \in Nat \ T : \A n \in Nat \ T : m <= n
  BY LeastNumber
<1>2. m # 0 /\ m - 1 \in Nat
  BY <1>1
<1>3. m - 1 \in T
  BY <1>1, <1>2
<1>. QED
  BY <1>1, <1>2, <1>3
-----------------------------------------------------------------------------
(* The tree.                                                               *)

Typed(t) ==
    /\ Root \in DOMAIN t /\ DOMAIN t \subseteq Ids
    /\ t \in [DOMAIN t -> File \union Dir]
    /\ \A n \in DOMAIN t \ {Root} : t[n].name \in Component

\* Children and parents agree, and every node but the root has a parent.
Linked(t) ==
    /\ t[Root].type = "dir"
    /\ \A n \in DOMAIN t : \A i \in DOMAIN t[n].kids :
        t[n].kids[i] \in DOMAIN t \ {Root} /\ t[t[n].kids[i]].parent = n
    /\ \A n \in DOMAIN t \ {Root} :
        /\ t[n].parent \in DOMAIN t
        /\ \E i \in DOMAIN t[t[n].parent].kids : t[t[n].parent].kids[i] = n

\* Siblings have different names, and so are different.
Apart(t) ==
    \A n \in DOMAIN t : \A i, j \in DOMAIN t[n].kids :
        t[t[n].kids[i]].name = t[t[n].kids[j]].name => i = j

\* No set of nodes goes round in a circle: it has a node whose parent is not
\* in it, if the root is not, and one without a child in it.
Grounded(t) ==
    \A S \in SUBSET DOMAIN t : S # {} =>
        /\ Root \notin S => \E n \in S : t[n].parent \notin S
        /\ \E n \in S : \A i \in DOMAIN t[n].kids : t[n].kids[i] \notin S

Tree(t) == Typed(t) /\ Linked(t) /\ Apart(t) /\ Grounded(t)

\* What the constants are.
LEMMA Constants ==
    /\ MaxNodes \in Nat /\ MaxNodes >= 1 /\ Root \in Ids /\ Ids \subseteq Nat
    /\ NULL \notin Nat /\ NULL \notin Ids /\ Empty \in Data
    /\ Names \subseteq Component
<1>1. MaxNodes \in Nat /\ MaxNodes > Len(Skeleton) /\ NULL \notin Nat /\ Empty \in Data
  BY RamfsAssumption, Zenon
<1>2. Len(Skeleton) \in Nat
  <2>1. Skeleton \in Seq(Seq(Names))
    BY RamfsAssumption, Zenon
  <2>. QED
    BY <2>1, LenProperties
<1>3. MaxNodes >= 1
  BY <1>1, <1>2
<1>4. Root \in Ids /\ Ids \subseteq Nat
  BY <1>1, <1>3 DEF Root, Ids
<1>. QED
  BY <1>1, <1>3, <1>4 DEF Component

NodeOK(t, n) ==
    /\ t[n].kids \in Seq(Ids) /\ DOMAIN t[n].kids = 1 .. Len(t[n].kids)
    /\ Len(t[n].kids) \in Nat
    /\ t[n].type \in {"dir", "file"} /\ t[n].data \in Data
    /\ t[n].type = "dir" => t[n] \in Dir /\ t[n].data = Empty
    /\ t[n].type = "file" => t[n] \in File /\ t[n].kids = <<>>

\* What a node is.
LEMMA NodeIs ==
    ASSUME NEW t, Typed(t), NEW n \in DOMAIN t
    PROVE  NodeOK(t, n)
<1>1. t[n] \in File \/ t[n] \in Dir
  BY DEF Typed
<1>2. CASE t[n] \in File
  <2>1. t[n].type = "file" /\ t[n].kids = <<>> /\ t[n].data \in Data
    BY <1>2 DEF File
  <2>2. <<>> \in Seq(Ids) /\ Len(<<>>) = 0 /\ DOMAIN <<>> = 1 .. 0
    OBVIOUS
  <2>. QED
    BY <1>2, <2>1, <2>2 DEF NodeOK
<1>3. CASE t[n] \in Dir
  <2>1. t[n].type = "dir" /\ t[n].kids \in Seq(Ids) /\ t[n].data = Empty
    BY <1>3 DEF Dir
  <2>2. DOMAIN t[n].kids = 1 .. Len(t[n].kids) /\ Len(t[n].kids) \in Nat
    BY <2>1, LenProperties
  <2>. QED
    BY <1>3, <2>1, <2>2, Constants DEF NodeOK
<1>. QED
  BY <1>1, <1>2, <1>3
-----------------------------------------------------------------------------
(* Looking up.                                                             *)

\* The answer of find_child: no child of that name, or one.
Found(t, dir, name, k) ==
    \/ /\ k = NULL
       /\ \A i \in DOMAIN t[dir].kids : t[t[dir].kids[i]].name # name
    \/ /\ t[dir].type = "dir"
       /\ \E i \in DOMAIN t[dir].kids : k = t[dir].kids[i] /\ t[k].name = name

\* find_child finds the child of that name if there is one.
LEMMA ChildIs ==
    ASSUME NEW t, Typed(t), NEW dir \in DOMAIN t, NEW name
    PROVE  Found(t, dir, name, find_child(t, dir, name))
<1> DEFINE found == {k \in Range(t[dir].kids) : t[k].name = name}
<1>1. NodeOK(t, dir)
  BY NodeIs
<1>2. found \subseteq Nat
  <2>1. \A i \in DOMAIN t[dir].kids : t[dir].kids[i] \in Nat
    <3>1. PICK kids : kids = t[dir].kids
      OBVIOUS
    <3>2. kids \in Seq(Ids) /\ DOMAIN kids = 1 .. Len(kids) /\ Ids \subseteq Nat
      BY <1>1, <3>1, Constants DEF NodeOK
    <3>3. \A i \in DOMAIN kids : kids[i] \in Ids
      BY <3>2, ElementOfSeq
    <3>. QED
      BY <3>1, <3>2, <3>3
  <2>. QED
    BY <2>1 DEF Range
<1>3. find_child(t, dir, name) = IF t[dir].type = "dir" /\ found # {} THEN Min(found) ELSE NULL
  BY DEF find_child
<1>4. CASE t[dir].type = "dir" /\ found # {}
  <2>1. Min(found) \in found
    BY <1>2, <1>4, MinIs
  <2> DEFINE m == Min(found)
  <2>2. m \in Range(t[dir].kids) /\ t[m].name = name
    BY <2>1
  <2>3. find_child(t, dir, name) = m
    BY <1>3, <1>4
  <2> HIDE DEF m
  <2>. QED
    BY <1>4, <2>2, <2>3 DEF Found, Range
<1>5. CASE t[dir].type # "dir"
  <2>1. t[dir].kids = <<>>
    BY <1>1, <1>5 DEF NodeOK
  <2>2. \A i \in DOMAIN t[dir].kids : FALSE
    BY <2>1
  <2>. QED
    BY <1>3, <1>5, <2>2 DEF Found
<1>6. CASE found = {}
  <2>1. \A i \in DOMAIN t[dir].kids : t[t[dir].kids[i]].name # name
    BY <1>6 DEF Range
  <2>. QED
    BY <1>3, <1>6, <2>1 DEF Found
<1>. QED
  BY <1>4, <1>5, <1>6

\* A step of a walk stays in the tree.
LEMMA StepStays ==
    ASSUME NEW t, Typed(t), Linked(t), NEW node \in DOMAIN t \union {NULL}, NEW c
    PROVE  WalkStep(t, node, c) \in DOMAIN t \union {NULL}
<1>0. NULL \notin DOMAIN t /\ Root \in DOMAIN t
  BY Constants DEF Typed
<1>1. CASE node = NULL
  BY <1>1 DEF WalkStep
<1>2. CASE node # NULL /\ c = "."
  BY <1>2 DEF WalkStep
<1>3. CASE node # NULL /\ c = ".."
  <2>1. WalkStep(t, node, c) = IF node = Root THEN Root ELSE t[node].parent
    BY <1>3 DEF WalkStep
  <2>. QED
    BY <1>0, <1>3, <2>1 DEF Linked
<1>4. CASE node # NULL /\ c # "." /\ c # ".."
  <2>1. WalkStep(t, node, c) = find_child(t, node, c)
    BY <1>4 DEF WalkStep
  <2>2. PICK k : k = find_child(t, node, c)
    OBVIOUS
  <2>3. Found(t, node, c, k)
    BY <1>4, <2>2, ChildIs
  <2>. QED
    BY <1>4, <2>1, <2>2, <2>3 DEF Found, Linked
<1>. QED
  BY <1>1, <1>2, <1>3, <1>4

\* at is the walk along the first n of comps.
Walk(t, start, comps, n, at) ==
    at = [i \in 0 .. n |-> IF i = 0 THEN start ELSE WalkStep(t, at[i - 1], comps[i])]

\* There is one of any length.
LEMMA WalkExists ==
    ASSUME NEW t, NEW start, NEW comps, NEW n \in Nat
    PROVE  \E at : Walk(t, start, comps, n, at)
<1> DEFINE T == {k \in Nat : \E at : Walk(t, start, comps, k, at)}
<1>1. 0 \in T
  <2> DEFINE at == [i \in 0 .. 0 |-> start]
  <2>1. at = [i \in 0 .. 0 |-> IF i = 0 THEN start ELSE WalkStep(t, at[i - 1], comps[i])]
    OBVIOUS
  <2> HIDE DEF at
  <2>. QED
    BY <2>1 DEF Walk
<1>2. ASSUME NEW k \in Nat, k \in T PROVE k + 1 \in T
  <2>1. PICK at : Walk(t, start, comps, k, at)
    BY <1>2
  <2> DEFINE v == [i \in 0 .. k + 1 |->
                     IF i = k + 1 THEN WalkStep(t, at[k], comps[k + 1]) ELSE at[i]]
  <2>2. \A i \in 0 .. k : v[i] = at[i]
    OBVIOUS
  <2>3. v[k + 1] = WalkStep(t, at[k], comps[k + 1])
    OBVIOUS
  <2>4. v = [i \in 0 .. k + 1 |-> v[i]]
    OBVIOUS
  <2> HIDE DEF v
  <2>5. ASSUME NEW i \in 0 .. k + 1
        PROVE  v[i] = IF i = 0 THEN start ELSE WalkStep(t, v[i - 1], comps[i])
    <3>1. CASE i = k + 1
      <4>1. i # 0 /\ i - 1 = k /\ k \in 0 .. k
        BY <3>1
      <4>. QED
        BY <2>2, <2>3, <3>1, <4>1
    <3>2. CASE i # k + 1
      <4>1. i \in 0 .. k /\ (i # 0 => i - 1 \in 0 .. k)
        BY <3>2
      <4>2. at[i] = IF i = 0 THEN start ELSE WalkStep(t, at[i - 1], comps[i])
        BY <2>1, <4>1 DEF Walk
      <4>. QED
        BY <2>2, <4>1, <4>2
    <3>. QED
      BY <3>1, <3>2
  <2>6. Walk(t, start, comps, k + 1, v)
    BY <2>4, <2>5 DEF Walk
  <2>. QED
    BY <2>6
<1> HIDE DEF T
<1>3. n \in T
  BY <1>1, <1>2, SetInduction
<1>. QED
  BY <1>3 DEF T

\* What WalkFrom computes.
LEMMA WalkIs ==
    ASSUME NEW t, NEW start, NEW S, NEW comps \in Seq(S)
    PROVE  \E at : /\ Walk(t, start, comps, Len(comps), at)
                   /\ WalkFrom(t, start, comps) = at[Len(comps)]
<1> DEFINE at == CHOOSE at : Walk(t, start, comps, Len(comps), at)
<1>1. Len(comps) \in Nat
  OBVIOUS
<1>2. Walk(t, start, comps, Len(comps), at)
  BY <1>1, WalkExists
<1>3. WalkFrom(t, start, comps) = at[Len(comps)]
  BY Zenon DEF WalkFrom, Walk
<1>. QED
  BY <1>2, <1>3

\* A walk that begins in the tree stays there.
LEMMA WalkStays ==
    ASSUME NEW t, Typed(t), Linked(t), NEW start \in DOMAIN t, NEW S, NEW comps \in Seq(S)
    PROVE  WalkFrom(t, start, comps) \in DOMAIN t \union {NULL}
<1>1. PICK at : Walk(t, start, comps, Len(comps), at) /\ WalkFrom(t, start, comps) = at[Len(comps)]
  BY WalkIs
<1>2. PICK n \in Nat : n = Len(comps)
  OBVIOUS
<1> DEFINE T == {k \in Nat : k <= n => at[k] \in DOMAIN t \union {NULL}}
<1>3. \A i \in 0 .. n : at[i] = IF i = 0 THEN start ELSE WalkStep(t, at[i - 1], comps[i])
  BY <1>1, <1>2 DEF Walk
<1>4. 0 \in T
  BY <1>2, <1>3
<1>5. ASSUME NEW k \in Nat, k \in T PROVE k + 1 \in T
  <2> SUFFICES ASSUME k + 1 <= n PROVE at[k + 1] \in DOMAIN t \union {NULL}
    OBVIOUS
  <2>1. k + 1 \in 0 .. n /\ k + 1 # 0 /\ (k + 1) - 1 = k /\ k <= n
    BY <1>2
  <2>2. at[k + 1] = WalkStep(t, at[k], comps[k + 1])
    BY <1>3, <2>1
  <2>3. at[k] \in DOMAIN t \union {NULL}
    BY <1>5, <2>1
  <2>. QED
    BY <2>2, <2>3, StepStays
<1> HIDE DEF T
<1>6. n \in T
  BY <1>2, <1>4, <1>5, SetInduction
<1>. QED
  BY <1>1, <1>2, <1>6 DEF T
-----------------------------------------------------------------------------
(* Creating a node.                                                        *)

\* u is t with a new node at the end of the children of p.
Made(t, p, name, type, new, u) ==
    /\ p \in DOMAIN t /\ t[p].type = "dir"
    /\ new \in Ids \ DOMAIN t /\ name \in Component /\ type \in {"dir", "file"}
    /\ \A i \in DOMAIN t[p].kids : t[t[p].kids[i]].name # name
    /\ DOMAIN u = DOMAIN t \union {new} /\ u \in [DOMAIN u -> File \union Dir]
    /\ u[new] = [name |-> name, type |-> type, parent |-> p, kids |-> <<>>, data |-> Empty]
    /\ u[p] = [t[p] EXCEPT !.kids = Append(@, new)]
    /\ \A n \in DOMAIN t \ {p} : u[n] = t[n]

\* What fs_create does when it succeeds.
LEMMA CreateMakes ==
    ASSUME NEW t, Typed(t), Linked(t), NEW start \in DOMAIN t, NEW comps \in Seq(Component),
           CanCreate(t, start, comps), NEW type \in {"dir", "file"}
    PROVE  \E p, new : /\ p = ParentOf(t, start, comps) /\ new = Min(Ids \ DOMAIN t)
                       /\ Made(t, p, Last(comps), type, new, Create(t, start, comps, type))
<1> DEFINE p == ParentOf(t, start, comps)
           new == Min(Ids \ DOMAIN t)
           name == Last(comps)
           u == Create(t, start, comps, type)
<1>1. comps # <<>> /\ p # NULL /\ t[p].type = "dir" /\ find_child(t, p, name) = NULL
      /\ DOMAIN t # Ids
  BY DEF CanCreate
<1>2. /\ DOMAIN u = DOMAIN t \union {new}
      /\ u = [n \in DOMAIN u |-> u[n]]
      /\ \A n \in DOMAIN t \union {new} : u[n] =
            IF n = new
            THEN [name |-> name, type |-> type, parent |-> p, kids |-> <<>>, data |-> Empty]
            ELSE IF n = p THEN [t[n] EXCEPT !.kids = Append(@, new)]
            ELSE t[n]
  BY DEF Create
<1>3. p \in DOMAIN t
  <2>1. Front(comps) \in Seq(Component)
    <3>1. comps \in Seq(Component) /\ Len(comps) \in Nat
      BY LenProperties
    <3>. QED
      BY <3>1 DEF Front
  <2>2. p \in DOMAIN t \union {NULL}
    BY <2>1, WalkStays DEF ParentOf
  <2>. QED
    BY <1>1, <2>2
<1>4. new \in Ids \ DOMAIN t
  <2>1. Ids \ DOMAIN t # {} /\ Ids \ DOMAIN t \in SUBSET Nat
    BY <1>1, Constants DEF Typed
  <2>. QED
    BY <2>1, MinIs
<1>5. name \in Component
  <2>1. Len(comps) \in Nat /\ Len(comps) # 0
    BY <1>1, EmptySeq, LenProperties
  <2>2. Len(comps) \in 1 .. Len(comps)
    BY <2>1
  <2>. QED
    BY <2>2, ElementOfSeq DEF Last
<1> HIDE DEF p, new, name, u
<1>6. \A i \in DOMAIN t[p].kids : t[t[p].kids[i]].name # name
  <2>1. Found(t, p, name, NULL)
    BY <1>1, <1>3, ChildIs
  <2>2. \A i \in DOMAIN t[p].kids : t[p].kids[i] # NULL
    BY <1>3, Constants DEF Linked, Typed
  <2>. QED
    BY <2>1, <2>2 DEF Found
<1>7. u[new] = [name |-> name, type |-> type, parent |-> p, kids |-> <<>>, data |-> Empty]
  BY <1>2
<1>8. u[p] = [t[p] EXCEPT !.kids = Append(@, new)] /\ \A n \in DOMAIN t \ {p} : u[n] = t[n]
  BY <1>2, <1>3, <1>4
<1>9. u \in [DOMAIN u -> File \union Dir]
  <2>1. u[new] \in File \union Dir
    <3>1. CASE type = "file"
      BY <1>3, <1>5, <1>7, <3>1, Constants DEF File, Typed
    <3>2. CASE type = "dir"
      <4>1. <<>> \in Seq(Ids)
        BY EmptySeq
      <4>. QED
        BY <1>3, <1>5, <1>7, <3>2, <4>1 DEF Dir, Typed
    <3>. QED
      BY <3>1, <3>2
  <2>2. u[p] \in Dir
    <3>1. t[p] \in Dir
      BY <1>1, <1>3, NodeIs DEF NodeOK
    <3>2. Append(t[p].kids, new) \in Seq(Ids)
      BY <1>4, <3>1, AppendProperties DEF Dir
    <3>3. u[p] = [t[p] EXCEPT !.kids = Append(t[p].kids, new)]
      BY <1>8
    <3>. QED
      BY <3>1, <3>2, <3>3 DEF Dir
  <2>3. \A n \in DOMAIN t \ {p} : u[n] \in File \union Dir
    BY <1>8 DEF Typed
  <2>. QED
    BY <1>2, <2>1, <2>2, <2>3
<1>10. Made(t, p, name, type, new, u)
  BY <1>1, <1>2, <1>3, <1>4, <1>5, <1>6, <1>7, <1>8, <1>9 DEF Made
<1>. QED
  BY <1>10 DEF p, new, name, u

MadeOK(t, p, name, type, new, u) ==
    /\ \A n \in DOMAIN t : /\ u[n].parent = t[n].parent /\ u[n].name = t[n].name
                           /\ u[n].type = t[n].type /\ u[n].data = t[n].data
                           /\ n # p => u[n].kids = t[n].kids
    /\ u[p].kids \in Seq(Ids) /\ DOMAIN u[p].kids = 1 .. Len(t[p].kids) + 1
    /\ Len(t[p].kids) \in Nat /\ DOMAIN t[p].kids = 1 .. Len(t[p].kids)
    /\ \A i \in 1 .. Len(t[p].kids) : u[p].kids[i] = t[p].kids[i]
    /\ u[p].kids[Len(t[p].kids) + 1] = new
    /\ u[new].parent = p /\ u[new].name = name /\ u[new].type = type /\ u[new].data = Empty
    /\ u[new].kids = <<>>

\* The tree after it, field by field.
LEMMA MadeIs ==
    ASSUME NEW t, Typed(t), NEW p, NEW name, NEW type, NEW new, NEW u,
           Made(t, p, name, type, new, u)
    PROVE  MadeOK(t, p, name, type, new, u)
<1>1. p \in DOMAIN t /\ new \in Ids /\ t[p] \in Dir
  BY NodeIs DEF Made, NodeOK
<1>2. PICK kids : kids = t[p].kids
  OBVIOUS
<1>3. kids \in Seq(Ids)
  BY <1>1, <1>2 DEF Dir
<1>4. /\ Append(kids, new) \in Seq(Ids) /\ Len(Append(kids, new)) = Len(kids) + 1
      /\ \A i \in 1 .. Len(kids) : Append(kids, new)[i] = kids[i]
      /\ Append(kids, new)[Len(kids) + 1] = new
  BY <1>1, <1>3, AppendProperties
<1>5. u[p] = [t[p] EXCEPT !.kids = Append(kids, new)]
  BY <1>2 DEF Made
<1>6. /\ u[p].kids = Append(kids, new) /\ u[p].parent = t[p].parent
      /\ u[p].name = t[p].name /\ u[p].type = t[p].type /\ u[p].data = t[p].data
  BY <1>1, <1>5 DEF Dir
<1>7. DOMAIN Append(kids, new) = 1 .. Len(kids) + 1 /\ DOMAIN kids = 1 .. Len(kids)
      /\ Len(kids) \in Nat
  BY <1>3, <1>4, LenProperties
<1>8. u[new] = [name |-> name, type |-> type, parent |-> p, kids |-> <<>>, data |-> Empty]
      /\ \A n \in DOMAIN t \ {p} : u[n] = t[n]
  BY DEF Made
<1>. QED
  BY <1>2, <1>4, <1>6, <1>7, <1>8 DEF MadeOK

\* A new node makes a tree of a tree.
LEMMA MadeKeeps ==
    ASSUME NEW t, Tree(t), NEW p, NEW name, NEW type, NEW new, NEW u,
           Made(t, p, name, type, new, u)
    PROVE  Tree(u)
<1>0. Typed(t) /\ Linked(t) /\ Apart(t) /\ Grounded(t)
  BY DEF Tree
<1>1. /\ \A n \in DOMAIN t : /\ u[n].parent = t[n].parent /\ u[n].name = t[n].name
                             /\ u[n].type = t[n].type
                             /\ n # p => u[n].kids = t[n].kids
      /\ DOMAIN u[p].kids = 1 .. Len(t[p].kids) + 1
      /\ Len(t[p].kids) \in Nat /\ DOMAIN t[p].kids = 1 .. Len(t[p].kids)
      /\ \A i \in 1 .. Len(t[p].kids) : u[p].kids[i] = t[p].kids[i]
      /\ u[p].kids[Len(t[p].kids) + 1] = new
      /\ u[new].parent = p /\ u[new].name = name /\ u[new].kids = <<>>
  BY <1>0, MadeIs DEF MadeOK
<1>2. /\ p \in DOMAIN t /\ new \in Ids \ DOMAIN t /\ DOMAIN u = DOMAIN t \union {new}
      /\ u \in [DOMAIN u -> File \union Dir]
      /\ \A i \in DOMAIN t[p].kids : t[t[p].kids[i]].name # name
  BY DEF Made
<1>3. Root \in DOMAIN t /\ new # Root /\ DOMAIN t \subseteq Ids
  BY <1>0, <1>2 DEF Typed
<1>4. Typed(u)
  <2>1. name \in Component /\ \A n \in DOMAIN t \ {Root} : u[n].name \in Component
    BY <1>0, <1>1 DEF Made, Typed
  <2>2. \A n \in DOMAIN u \ {Root} : u[n].name \in Component
    BY <1>1, <1>2, <2>1
  <2>. QED
    BY <1>2, <1>3, <2>2 DEF Typed
<1>5. ASSUME NEW n \in DOMAIN u, NEW i \in DOMAIN u[n].kids
      PROVE  \/ n \in DOMAIN t /\ i \in DOMAIN t[n].kids /\ u[n].kids[i] = t[n].kids[i]
             \/ n = p /\ i = Len(t[p].kids) + 1 /\ u[n].kids[i] = new
  <2>1. CASE n = new
    <3>1. DOMAIN u[n].kids = {}
      BY <1>1, <2>1
    <3>. QED
      BY <3>1
  <2>2. CASE n = p
    BY <1>1, <1>2, <2>2
  <2>3. CASE n # new /\ n # p
    BY <1>1, <1>2, <2>3
  <2>. QED
    BY <2>1, <2>2, <2>3
<1>6. ASSUME NEW n \in DOMAIN t, NEW i \in DOMAIN t[n].kids
      PROVE  i \in DOMAIN u[n].kids /\ u[n].kids[i] = t[n].kids[i]
  BY <1>1, <1>2
<1>7. Linked(u)
  <2>1. u[Root].type = "dir"
    BY <1>0, <1>1, <1>3 DEF Linked
  <2>2. ASSUME NEW n \in DOMAIN u, NEW i \in DOMAIN u[n].kids
        PROVE  u[n].kids[i] \in DOMAIN u \ {Root} /\ u[u[n].kids[i]].parent = n
    BY <1>0, <1>1, <1>2, <1>3, <1>5, <2>2 DEF Linked
  <2>3. ASSUME NEW n \in DOMAIN u \ {Root}
        PROVE  /\ u[n].parent \in DOMAIN u
               /\ \E i \in DOMAIN u[u[n].parent].kids : u[u[n].parent].kids[i] = n
    <3>1. CASE n = new
      <4>1. Len(t[p].kids) + 1 \in DOMAIN u[p].kids
        BY <1>1
      <4>. QED
        BY <1>1, <1>2, <3>1, <4>1
    <3>2. CASE n \in DOMAIN t \ {Root}
      <4>1. PICK q \in DOMAIN t : q = t[n].parent /\ \E i \in DOMAIN t[q].kids : t[q].kids[i] = n
        BY <1>0, <3>2 DEF Linked
      <4>2. u[n].parent = q /\ q \in DOMAIN u
        BY <1>1, <1>2, <3>2, <4>1
      <4>. QED
        BY <1>6, <4>1, <4>2
    <3>. QED
      BY <1>2, <3>1, <3>2
  <2>. QED
    BY <2>1, <2>2, <2>3 DEF Linked
<1>8. Apart(u)
  <2> SUFFICES ASSUME NEW n \in DOMAIN u, NEW i \in DOMAIN u[n].kids, NEW j \in DOMAIN u[n].kids,
                      u[u[n].kids[i]].name = u[u[n].kids[j]].name
               PROVE  i = j
    BY DEF Apart
  <2>1. \A k \in DOMAIN t[p].kids : t[p].kids[k] \in DOMAIN t
    BY <1>0, <1>2 DEF Linked
  <2>2. ASSUME NEW a \in DOMAIN u[n].kids, NEW b \in DOMAIN u[n].kids,
               n = p, a = Len(t[p].kids) + 1, b \in DOMAIN t[n].kids,
               u[n].kids[b] = t[n].kids[b], u[n].kids[a] = new
        PROVE  u[u[n].kids[a]].name # u[u[n].kids[b]].name
    BY <1>1, <1>2, <2>1, <2>2
  <2>3. CASE n \in DOMAIN t /\ i \in DOMAIN t[n].kids /\ u[n].kids[i] = t[n].kids[i]
    <3>1. CASE j \in DOMAIN t[n].kids /\ u[n].kids[j] = t[n].kids[j]
      <4>1. t[n].kids[i] \in DOMAIN t /\ t[n].kids[j] \in DOMAIN t
        BY <1>0, <2>3, <3>1 DEF Linked
      <4>2. t[t[n].kids[i]].name = t[t[n].kids[j]].name
        BY <1>1, <2>3, <3>1, <4>1
      <4>. QED
        BY <1>0, <2>3, <3>1, <4>2 DEF Apart
    <3>. QED
      BY <1>5, <2>2, <2>3, <3>1
  <2>4. CASE n = p /\ i = Len(t[p].kids) + 1 /\ u[n].kids[i] = new
    BY <1>5, <2>2, <2>4
  <2>. QED
    BY <1>5, <2>3, <2>4
<1>9. Grounded(u)
  <2> SUFFICES ASSUME NEW S \in SUBSET DOMAIN u, S # {}
               PROVE  /\ Root \notin S => \E n \in S : u[n].parent \notin S
                      /\ \E n \in S : \A i \in DOMAIN u[n].kids : u[n].kids[i] \notin S
    BY DEF Grounded
  <2>1. CASE new \in S
    <3>1. DOMAIN u[new].kids = {}
      BY <1>1
    <3>2. ASSUME Root \notin S PROVE \E n \in S : u[n].parent \notin S
      <4>1. CASE S = {new}
        BY <1>1, <1>2, <4>1
      <4>2. CASE S # {new}
        <5>1. S \ {new} \in SUBSET DOMAIN t /\ S \ {new} # {} /\ Root \notin S \ {new}
          BY <1>2, <2>1, <3>2, <4>2
        <5>2. PICK n \in S \ {new} : t[n].parent \notin S \ {new}
          BY <1>0, <5>1 DEF Grounded
        <5>3. t[n].parent \in DOMAIN t
          BY <1>0, <3>2, <5>1 DEF Linked
        <5>. QED
          BY <1>1, <1>2, <5>1, <5>2, <5>3
      <4>. QED
        BY <4>1, <4>2
    <3>. QED
      BY <2>1, <3>1, <3>2
  <2>2. CASE new \notin S
    <3>1. S \in SUBSET DOMAIN t
      BY <1>2, <2>2
    <3>2. Root \notin S => \E n \in S : u[n].parent \notin S
      BY <1>0, <1>1, <3>1 DEF Grounded
    <3>3. PICK n \in S : \A i \in DOMAIN t[n].kids : t[n].kids[i] \notin S
      BY <1>0, <3>1 DEF Grounded
    <3>4. \A i \in DOMAIN u[n].kids : u[n].kids[i] \notin S
      BY <1>2, <1>5, <2>2, <3>1, <3>3
    <3>. QED
      BY <3>2, <3>4
  <2>. QED
    BY <2>1, <2>2
<1>. QED
  BY <1>4, <1>7, <1>8, <1>9 DEF Tree
-----------------------------------------------------------------------------
(* Restoring.                                                              *)

Entry == Seq(Component) \X {"file", "dir"} \X Data

\* New contents of a file leave a tree a tree.
LEMMA WriteKeeps ==
    ASSUME NEW t, Tree(t), NEW file \in DOMAIN t, t[file].type = "file", NEW data \in Data
    PROVE  Tree([t EXCEPT ![file].data = data])
<1> DEFINE u == [t EXCEPT ![file].data = data]
<1>0. Typed(t) /\ Linked(t) /\ Apart(t) /\ Grounded(t)
  BY DEF Tree
<1>1. t[file] \in File
  BY <1>0, NodeIs DEF NodeOK
<1>2. /\ DOMAIN u = DOMAIN t
      /\ u = [n \in DOMAIN t |-> IF n = file THEN [t[file] EXCEPT !.data = data] ELSE t[n]]
  BY <1>0 DEF Typed
<1> HIDE DEF u
<1>3. u[file] \in File /\ \A n \in DOMAIN t \ {file} : u[n] = t[n]
  BY <1>1, <1>2 DEF File
<1>4. \A n \in DOMAIN t : /\ u[n].parent = t[n].parent /\ u[n].name = t[n].name
                          /\ u[n].type = t[n].type /\ u[n].kids = t[n].kids
  BY <1>1, <1>2 DEF File
<1>5. u = [n \in DOMAIN t |-> u[n]]
  BY <1>2
<1>6. Typed(u)
  BY <1>0, <1>2, <1>3, <1>4, <1>5 DEF Typed
<1>7. Linked(u)
  BY <1>0, <1>2, <1>4 DEF Linked, Typed
<1>8. Apart(u)
  BY <1>0, <1>2, <1>4 DEF Apart, Linked
<1>9. Grounded(u)
  <2> SUFFICES ASSUME NEW S \in SUBSET DOMAIN t, S # {}
               PROVE  /\ Root \notin S => \E n \in S : u[n].parent \notin S
                      /\ \E n \in S : \A i \in DOMAIN u[n].kids : u[n].kids[i] \notin S
    BY <1>2 DEF Grounded
  <2>1. /\ Root \notin S => \E n \in S : t[n].parent \notin S
        /\ \E n \in S : \A i \in DOMAIN t[n].kids : t[n].kids[i] \notin S
    BY <1>0 DEF Grounded
  <2>. QED
    BY <1>4, <2>1
<1>. QED
  BY <1>6, <1>7, <1>8, <1>9 DEF Tree, u

\* The root alone is a tree.
LEMMA BareTree == Tree(Bare)
<1> DEFINE root == [name |-> "/", type |-> "dir", parent |-> NULL, kids |-> <<>>, data |-> Empty]
<1>1. Bare = [n \in {Root} |-> root]
  BY DEF Bare
<1>2. <<>> \in Seq(Ids) /\ DOMAIN <<>> = {}
  BY EmptySeq
<1>3. root \in Dir
  BY <1>2 DEF Dir
<1>4. root.kids = <<>> /\ root.type = "dir"
  OBVIOUS
<1> HIDE DEF root
<1>5. Typed(Bare)
  BY <1>1, <1>3, Constants DEF Typed
<1>6. DOMAIN Bare = {Root} /\ DOMAIN Bare[Root].kids = {} /\ Bare[Root].type = "dir"
  BY <1>1, <1>2, <1>4
<1>7. Linked(Bare)
  BY <1>6 DEF Linked
<1>8. Apart(Bare)
  BY <1>6 DEF Apart
<1>9. Grounded(Bare)
  BY <1>6 DEF Grounded
<1>. QED
  BY <1>5, <1>7, <1>8, <1>9 DEF Tree

\* One entry of the snapshot, into a tree.
LEMMA RestoreKeeps ==
    ASSUME NEW t, Tree(t), NEW e \in Entry
    PROVE  Tree(RestoreNode(t, e))
<1> DEFINE made == IF CanCreate(t, Root, e[1]) THEN Create(t, Root, e[1], e[2]) ELSE t
           node == WalkFrom(made, Root, e[1])
<1>0. e[1] \in Seq(Component) /\ e[2] \in {"dir", "file"} /\ e[3] \in Data
  BY DEF Entry
<1>1. Tree(made)
  <2>1. CASE CanCreate(t, Root, e[1])
    <3>1. Typed(t) /\ Linked(t) /\ Root \in DOMAIN t
      BY DEF Tree, Typed
    <3>2. PICK u : u = Create(t, Root, e[1], e[2])
      OBVIOUS
    <3>3. \E p, new : Made(t, p, Last(e[1]), e[2], new, u)
      BY <1>0, <2>1, <3>1, <3>2, CreateMakes
    <3>4. Tree(u)
      BY <3>3, MadeKeeps
    <3>. QED
      BY <2>1, <3>2, <3>4
  <2>2. CASE ~ CanCreate(t, Root, e[1])
    BY <2>2
  <2>. QED
    BY <2>1, <2>2
<1>2. RestoreNode(t, e) = IF node # NULL /\ made[node].type = "file" /\ e[3] # Empty
                          THEN [made EXCEPT ![node].data = e[3]] ELSE made
  BY DEF RestoreNode
<1> HIDE DEF made
<1>3. node \in DOMAIN made \union {NULL}
  BY <1>0, <1>1, WalkStays DEF Tree, Typed
<1> HIDE DEF node
<1>4. CASE node # NULL /\ made[node].type = "file" /\ e[3] # Empty
  <2>1. node \in DOMAIN made
    BY <1>3, <1>4
  <2>2. Tree([made EXCEPT ![node].data = e[3]])
    BY <1>0, <1>1, <1>4, <2>1, WriteKeeps
  <2>. QED
    BY <1>2, <1>4, <2>2
<1>. QED
  BY <1>1, <1>2, <1>4
-----------------------------------------------------------------------------
(* Folds.                                                                  *)

\* The last of the first numbers.
LEMMA MaxOfFirst ==
    ASSUME NEW k \in Nat, NEW s \in SUBSET (1 .. k + 1), s # {}
    PROVE  /\ k + 1 \in s => Max(s) = k + 1
           /\ Max(s) \in s
<1>1. \E m \in s : \A n \in s : m >= n
  <2> DEFINE below == {(k + 1) - n : n \in s}
  <2>1. below \in SUBSET Nat /\ below # {}
    <3>1. ASSUME NEW n \in s PROVE (k + 1) - n \in Nat
      <4>1. n \in 1 .. k + 1
        OBVIOUS
      <4>. QED
        BY <4>1
    <3>. QED
      BY <3>1
  <2>2. PICK d \in below : \A c \in below : d <= c
    BY <2>1, LeastNumber
  <2>3. PICK m \in s : d = (k + 1) - m
    BY <2>2
  <2>4. ASSUME NEW n \in s PROVE m >= n
    <3>1. (k + 1) - m <= (k + 1) - n /\ m \in 1 .. k + 1 /\ n \in 1 .. k + 1
      BY <2>2, <2>3
    <3>. QED
      BY <3>1
  <2>. QED
    BY <2>4
<1> DEFINE m == Max(s)
<1>2. m \in s /\ \A n \in s : m >= n
  BY <1>1, Zenon DEF Max
<1> HIDE DEF m
<1>3. k + 1 \in s => m = k + 1
  <2>1. m \in 1 .. k + 1
    BY <1>2
  <2>. QED
    BY <1>2, <2>1
<1>. QED
  BY <1>2, <1>3 DEF m

\* f is the recursion behind a fold, on the sets of places in D; op takes the
\* result so far and a place.
Folding(b, op, D, f) == \A s \in D : f[s] = IF s = {} THEN b ELSE op[<<f[s \ {Max(s)}], Max(s)>>]

HasFolding(A, b, op, k) ==
    \E f \in [SUBSET (1 .. k) -> A] : Folding(b, op, SUBSET (1 .. k), f)

\* There is a function that satisfies it.
LEMMA FoldExists ==
    ASSUME NEW A, NEW b \in A, NEW n \in Nat, NEW op \in [A \X (1 .. n) -> A]
    PROVE  HasFolding(A, b, op, n)
<1> DEFINE T == {k \in Nat : k <= n => HasFolding(A, b, op, k)}
<1>1. 0 \in T
  <2> DEFINE f == [s \in SUBSET (1 .. 0) |-> b]
  <2>1. f \in [SUBSET (1 .. 0) -> A] /\ \A s \in SUBSET (1 .. 0) : s = {} /\ f[s] = b
    OBVIOUS
  <2> HIDE DEF f
  <2>2. Folding(b, op, SUBSET (1 .. 0), f)
    BY <2>1 DEF Folding
  <2>. QED
    BY <2>1, <2>2 DEF HasFolding
<1>2. ASSUME NEW k \in Nat, k \in T PROVE k + 1 \in T
  <2> SUFFICES ASSUME k + 1 <= n PROVE HasFolding(A, b, op, k + 1)
    OBVIOUS
  <2>0. k <= n /\ k + 1 \in 1 .. n
    OBVIOUS
  <2>1. PICK f \in [SUBSET (1 .. k) -> A] : Folding(b, op, SUBSET (1 .. k), f)
    BY <1>2, <2>0 DEF HasFolding
  <2> DEFINE v == [s \in SUBSET (1 .. k + 1) |->
                     IF k + 1 \in s THEN op[<<f[s \ {k + 1}], k + 1>>] ELSE f[s]]
  <2>2. \A s \in SUBSET (1 .. k) : s \in SUBSET (1 .. k + 1) /\ k + 1 \notin s /\ v[s] = f[s]
    OBVIOUS
  <2>3. ASSUME NEW s \in SUBSET (1 .. k + 1)
        PROVE  v[s] \in A /\ v[s] = IF s = {} THEN b ELSE op[<<v[s \ {Max(s)}], Max(s)>>]
    <3>1. CASE k + 1 \in s
      <4>1. Max(s) = k + 1
        BY <3>1, MaxOfFirst
      <4>2. s \ {k + 1} \in SUBSET (1 .. k)
        OBVIOUS
      <4>3. v[s] = op[<<f[s \ {k + 1}], k + 1>>]
        BY <3>1
      <4> HIDE DEF v
      <4>4. v[s \ {k + 1}] = f[s \ {k + 1}] /\ f[s \ {k + 1}] \in A
        BY <2>1, <2>2, <4>2
      <4>5. v[s] \in A
        BY <2>0, <4>3, <4>4
      <4>. QED
        BY <3>1, <4>1, <4>3, <4>4, <4>5
    <3>2. CASE k + 1 \notin s
      <4>1. s \in SUBSET (1 .. k)
        BY <3>2
      <4>2. v[s] = f[s]
        BY <3>2
      <4> HIDE DEF v
      <4>3. f[s] \in A /\ f[s] = IF s = {} THEN b ELSE op[<<f[s \ {Max(s)}], Max(s)>>]
        BY <2>1, <4>1 DEF Folding
      <4>4. s \ {Max(s)} \in SUBSET (1 .. k)
        BY <4>1
      <4>5. v[s \ {Max(s)}] = f[s \ {Max(s)}]
        BY <2>2, <4>4
      <4>. QED
        BY <4>2, <4>3, <4>5
    <3>. QED
      BY <3>1, <3>2
  <2>4. v = [s \in SUBSET (1 .. k + 1) |-> v[s]]
    OBVIOUS
  <2> HIDE DEF v
  <2>5. v \in [SUBSET (1 .. k + 1) -> A] /\ Folding(b, op, SUBSET (1 .. k + 1), v)
    BY <2>3, <2>4 DEF Folding
  <2>. QED
    BY <2>5 DEF HasFolding
<1> HIDE DEF T
<1>3. n \in T
  BY <1>1, <1>2, SetInduction
<1>. QED
  BY <1>3 DEF T

\* Place by place.
LEMMA FoldSteps ==
    ASSUME NEW n \in Nat, NEW k \in 0 .. n - 1
    PROVE  /\ 1 .. k + 1 \in SUBSET (1 .. n) /\ 1 .. k + 1 # {} /\ Max(1 .. k + 1) = k + 1
           /\ (1 .. k + 1) \ {Max(1 .. k + 1)} = 1 .. k
<1>1. k \in Nat /\ k + 1 <= n /\ k + 1 \in 1 .. k + 1
  OBVIOUS
<1>2. Max(1 .. k + 1) = k + 1
  BY <1>1, MaxOfFirst
<1>3. (1 .. k + 1) \ {k + 1} = 1 .. k
  BY <1>1
<1>. QED
  BY <1>1, <1>2, <1>3

Trees == {t \in UNION {[D -> File \union Dir] : D \in SUBSET Ids} : Tree(t)}

\* Every tree is one of a set.
LEMMA InTrees == \A t : Tree(t) <=> t \in Trees
<1>1. ASSUME NEW t, Tree(t) PROVE t \in Trees
  <2>1. DOMAIN t \in SUBSET Ids /\ t \in [DOMAIN t -> File \union Dir]
    BY <1>1 DEF Tree, Typed
  <2>2. t \in UNION {[D -> File \union Dir] : D \in SUBSET Ids}
    BY <2>1, Zenon
  <2>. QED
    BY <1>1, <2>2, Zenon DEF Trees
<1>2. ASSUME NEW t \in Trees PROVE Tree(t)
  BY <1>2, Zenon DEF Trees
<1>. QED
  BY <1>1, <1>2

\* f is the recursion behind Restore, on the sets of places in D.
Restores(es, D, f) ==
    f = [s \in D |-> IF s = {} THEN Bare ELSE RestoreNode(f[s \ {Max(s)}], es[Max(s)])]

\* What Restore does, in these terms.
LEMMA RestoreIs ==
    \A es : Restore(es) = (CHOOSE f : Restores(es, SUBSET DOMAIN es, f))[DOMAIN es]
BY Zenon DEF Restore, FoldLeft, MapThenFoldSet, Restores

\* r holds the trees after each round of the loop.
Rounds(es, r) ==
    /\ r[0] = Bare
    /\ \A k \in 0 .. Len(es) - 1 : r[k + 1] = RestoreNode(r[k], es[k + 1])
    /\ Restore(es) = r[Len(es)]

\* The loop of persist_mount, round by round.
LEMMA RestoreRounds ==
    ASSUME NEW es \in Seq(Entry)
    PROVE  \E r : Rounds(es, r)
<1> DEFINE n == Len(es)
           op == [x \in Trees \X (1 .. n) |-> RestoreNode(x[1], es[x[2]])]
<1>0. n \in Nat /\ DOMAIN es = 1 .. n /\ \A i \in 1 .. n : es[i] \in Entry
  BY LenProperties, ElementOfSeq
<1> HIDE DEF n
<1>1. \A x \in Trees \X (1 .. n) : op[x] \in Trees
  <2> SUFFICES ASSUME NEW x \in Trees \X (1 .. n) PROVE RestoreNode(x[1], es[x[2]]) \in Trees
    OBVIOUS
  <2>1. x[1] \in Trees /\ es[x[2]] \in Entry
    BY <1>0
  <2>. QED
    BY <2>1, InTrees, RestoreKeeps
<1>2. op = [x \in Trees \X (1 .. n) |-> op[x]]
  OBVIOUS
<1>3. \A t \in Trees, i \in 1 .. n : op[<<t, i>>] = RestoreNode(t, es[i])
  OBVIOUS
<1> HIDE DEF op
<1>4. op \in [Trees \X (1 .. n) -> Trees]
  BY <1>1, <1>2
<1>5. PICK f \in [SUBSET (1 .. n) -> Trees] : Folding(Bare, op, SUBSET (1 .. n), f)
  BY <1>0, <1>4, BareTree, InTrees, FoldExists DEF HasFolding
<1>6. Restores(es, SUBSET (1 .. n), f)
  <2>1. ASSUME NEW s \in SUBSET (1 .. n)
        PROVE  f[s] = IF s = {} THEN Bare ELSE RestoreNode(f[s \ {Max(s)}], es[Max(s)])
    <3>1. CASE s = {}
      BY <1>5, <3>1 DEF Folding
    <3>2. CASE s # {}
      <4>1. Max(s) \in s
        <5>1. s \in SUBSET (1 .. n + 1)
          BY <1>0
        <5>. QED
          BY <1>0, <3>2, <5>1, MaxOfFirst
      <4>2. f[s \ {Max(s)}] \in Trees /\ Max(s) \in 1 .. n
        BY <1>5, <4>1
      <4>3. f[s] = op[<<f[s \ {Max(s)}], Max(s)>>]
        BY <1>5, <3>2 DEF Folding
      <4>. QED
        BY <1>3, <3>2, <4>2, <4>3
    <3>. QED
      BY <3>1, <3>2
  <2>2. f = [s \in SUBSET (1 .. n) |-> f[s]]
    BY <1>5
  <2>. QED
    BY <2>1, <2>2 DEF Restores
<1> DEFINE g == CHOOSE g : Restores(es, SUBSET (1 .. n), g)
<1>7. Restores(es, SUBSET (1 .. n), g)
  BY <1>6
<1>8. Restore(es) = g[1 .. n]
  BY <1>0, RestoreIs
<1> HIDE DEF g
<1> DEFINE r == [k \in 0 .. n |-> g[1 .. k]]
<1>9. r[0] = Bare
  <2>1. 1 .. 0 = {} /\ {} \in SUBSET (1 .. n) /\ 0 \in 0 .. n
    BY <1>0
  <2>2. g[{}] = Bare
    BY <1>7, <2>1 DEF Restores
  <2>. QED
    BY <2>1, <2>2
<1>10. ASSUME NEW k \in 0 .. n - 1 PROVE r[k + 1] = RestoreNode(r[k], es[k + 1])
  <2>1. k \in 0 .. n /\ k + 1 \in 0 .. n
    BY <1>0
  <2>2. /\ 1 .. k + 1 \in SUBSET (1 .. n) /\ 1 .. k + 1 # {} /\ Max(1 .. k + 1) = k + 1
        /\ (1 .. k + 1) \ {Max(1 .. k + 1)} = 1 .. k
    BY <1>0, FoldSteps
  <2>3. g[1 .. k + 1] = RestoreNode(g[1 .. k], es[k + 1])
    BY <1>7, <2>2 DEF Restores
  <2>. QED
    BY <2>1, <2>3
<1>11. Restore(es) = r[n]
  BY <1>0, <1>8
<1>. QED
  BY <1>9, <1>10, <1>11 DEF Rounds, n

\* What is restored is a tree, whatever the snapshot holds.
LEMMA RestoreTree ==
    ASSUME NEW es \in Seq(Entry)
    PROVE  Tree(Restore(es))
<1>1. PICK r : Rounds(es, r)
  BY RestoreRounds
<1>2. PICK n \in Nat : n = Len(es)
  OBVIOUS
<1> DEFINE T == {k \in Nat : k <= n => Tree(r[k])}
<1>3. 0 \in T
  BY <1>1, BareTree DEF Rounds
<1>4. ASSUME NEW k \in Nat, k \in T PROVE k + 1 \in T
  <2> SUFFICES ASSUME k + 1 <= n PROVE Tree(r[k + 1])
    OBVIOUS
  <2>1. k \in 0 .. Len(es) - 1 /\ k + 1 \in 1 .. Len(es) /\ k <= n
    BY <1>2
  <2>2. Tree(r[k]) /\ es[k + 1] \in Entry
    BY <1>4, <2>1, ElementOfSeq
  <2>3. r[k + 1] = RestoreNode(r[k], es[k + 1])
    BY <1>1, <2>1 DEF Rounds
  <2>. QED
    BY <2>2, <2>3, RestoreKeeps
<1> HIDE DEF T
<1>5. n \in T
  BY <1>2, <1>3, <1>4, SetInduction
<1>. QED
  BY <1>1, <1>2, <1>5 DEF T, Rounds
-----------------------------------------------------------------------------
(* Induction over a tree.                                                  *)

\* A family of subsets of a finite set that has the empty set, and with each
\* set a larger one, has the whole set.
LEMMA GrowInduction ==
    ASSUME NEW D, IsFiniteSet(D), NEW Y \in SUBSET (SUBSET D), {} \in Y,
           \A X \in Y : X # D => \E n \in D \ X : X \union {n} \in Y
    PROVE  D \in Y
<1> DEFINE sizes == {Cardinality(D \ X) : X \in Y}
<1>1. \A X \in Y : IsFiniteSet(D \ X) /\ Cardinality(D \ X) \in Nat
  BY FS_Subset, FS_CardinalityType
<1>2. sizes \in SUBSET Nat /\ sizes # {}
  <2>1. ASSUME NEW s \in sizes PROVE s \in Nat
    <3>1. PICK X \in Y : s = Cardinality(D \ X)
      BY Zenon
    <3>. QED
      BY <1>1, <3>1, Zenon
  <2>2. Cardinality(D \ {}) \in sizes
    BY Zenon
  <2> HIDE DEF sizes
  <2>. QED
    BY <2>1, <2>2
<1>3. PICK m \in sizes : \A n \in sizes : m <= n
  BY <1>2, LeastNumber
<1>4. PICK X \in Y : m = Cardinality(D \ X)
  BY <1>3, Zenon
<1>5. CASE X # D
  <2>0. IsFiniteSet(D \ X) /\ m \in Nat
    BY <1>1, <1>4
  <2>1. PICK n \in D \ X : X \union {n} \in Y
    BY <1>5
  <2>2. (D \ X) \ {n} = D \ (X \union {n}) /\ n \in D \ X
    BY <2>1
  <2>3. Cardinality((D \ X) \ {n}) = m - 1
    BY <1>4, <2>0, <2>2, FS_RemoveElement
  <2>4. PICK Z \in Y : Z = X \union {n}
    BY <2>1
  <2>5. Cardinality(D \ Z) \in sizes
    BY Zenon
  <2>6. m <= Cardinality(D \ Z)
    BY <1>3, <2>5
  <2>7. D \ Z = (D \ X) \ {n}
    BY <2>4
  <2>8. m <= m - 1
    BY <2>3, <2>6, <2>7
  <2>. QED
    BY <2>0, <2>8
<1>. QED
  BY <1>4, <1>5

\* A tree is finite.
LEMMA Finite ==
    ASSUME NEW t, Typed(t)
    PROVE  /\ IsFiniteSet(DOMAIN t) /\ Cardinality(DOMAIN t) \in Nat
           /\ Cardinality(DOMAIN t) <= MaxNodes
<1>1. DOMAIN t \subseteq Ids /\ MaxNodes \in Nat /\ 0 <= MaxNodes - 1 + 1
  BY Constants DEF Typed
<1>2. IsFiniteSet(Ids) /\ Cardinality(Ids) = MaxNodes
  <2>1. 0 \in Int /\ MaxNodes - 1 \in Int /\ (0 > MaxNodes - 1 => MaxNodes = 0)
    BY <1>1
  <2>2. /\ IsFiniteSet(0 .. MaxNodes - 1)
        /\ Cardinality(0 .. MaxNodes - 1) = IF 0 > MaxNodes - 1 THEN 0 ELSE (MaxNodes - 1) - 0 + 1
    BY <2>1, FS_Interval
  <2>. QED
    BY <1>1, <2>1, <2>2 DEF Ids
<1>. QED
  BY <1>1, <1>2, FS_Subset, FS_CardinalityType

\* From the children to their directory.
LEMMA UpInduction ==
    ASSUME NEW t, Tree(t), NEW Y,
           \A n \in DOMAIN t : (\A i \in DOMAIN t[n].kids : t[n].kids[i] \in Y) => n \in Y
    PROVE  DOMAIN t \subseteq Y
<1>1. SUFFICES ASSUME DOMAIN t \ Y # {} PROVE FALSE
  OBVIOUS
<1>2. PICK n \in DOMAIN t \ Y : \A i \in DOMAIN t[n].kids : t[n].kids[i] \notin DOMAIN t \ Y
  BY <1>1 DEF Tree, Grounded
<1>3. \A i \in DOMAIN t[n].kids : t[n].kids[i] \in DOMAIN t
  BY <1>2 DEF Tree, Linked
<1>. QED
  BY <1>2, <1>3

\* From a directory to its children.
LEMMA DownInduction ==
    ASSUME NEW t, Tree(t), NEW Y, Root \in Y,
           \A n \in DOMAIN t \ {Root} : t[n].parent \in Y => n \in Y
    PROVE  DOMAIN t \subseteq Y
<1>1. SUFFICES ASSUME DOMAIN t \ Y # {} PROVE FALSE
  OBVIOUS
<1>2. PICK n \in DOMAIN t \ Y : t[n].parent \notin DOMAIN t \ Y
  BY <1>1 DEF Tree, Grounded
<1>3. n # Root /\ t[n].parent \in DOMAIN t
  BY <1>2 DEF Tree, Linked
<1>. QED
  BY <1>2, <1>3
-----------------------------------------------------------------------------
(* Subtrees.                                                               *)

\* b and behind it what u has for each of ks.
Joined(u, b, ks) == FoldLeft(LAMBDA acc, k : acc \o u[k], b, ks)

\* f is the recursion behind it, on the sets of places in D.
Joins(u, b, ks, D, f) ==
    f = [s \in D |-> IF s = {} THEN b ELSE f[s \ {Max(s)}] \o u[ks[Max(s)]]]

\* What Joined is, in these terms.
LEMMA JoinedIs ==
    \A u, b, ks : Joined(u, b, ks) = (CHOOSE f : Joins(u, b, ks, SUBSET DOMAIN ks, f))[DOMAIN ks]
BY Zenon DEF Joined, FoldLeft, MapThenFoldSet, Joins

\* g holds the sequence after each of ks.
Joining(u, b, ks, g) ==
    /\ g[0] = b
    /\ \A k \in 0 .. Len(ks) - 1 : g[k + 1] = g[k] \o u[ks[k + 1]]
    /\ Joined(u, b, ks) = g[Len(ks)]

\* Joining sequences, one by one.
LEMMA JoinedRounds ==
    ASSUME NEW V, NEW b \in Seq(V), NEW K, NEW ks \in Seq(K), NEW u,
           \A i \in DOMAIN ks : u[ks[i]] \in Seq(V)
    PROVE  \E g : Joining(u, b, ks, g)
<1> DEFINE n == Len(ks)
           S == Seq(V)
           op == [x \in S \X (1 .. n) |-> x[1] \o u[ks[x[2]]]]
<1>0. n \in Nat /\ DOMAIN ks = 1 .. n /\ \A i \in 1 .. n : u[ks[i]] \in S
  BY LenProperties
<1> HIDE DEF n
<1>1. \A x \in S \X (1 .. n) : op[x] \in S
  <2> SUFFICES ASSUME NEW x \in S \X (1 .. n) PROVE x[1] \o u[ks[x[2]]] \in S
    OBVIOUS
  <2>1. x[1] \in S /\ u[ks[x[2]]] \in S
    BY <1>0
  <2>. QED
    BY <2>1, ConcatProperties
<1>2. op = [x \in S \X (1 .. n) |-> op[x]]
  OBVIOUS
<1>3. \A t \in S, i \in 1 .. n : op[<<t, i>>] = t \o u[ks[i]]
  OBVIOUS
<1>a. b \in S
  OBVIOUS
<1> HIDE DEF op, S
<1>4. op \in [S \X (1 .. n) -> S]
  BY <1>1, <1>2
<1>5. PICK f \in [SUBSET (1 .. n) -> S] : Folding(b, op, SUBSET (1 .. n), f)
  BY <1>0, <1>4, <1>a, FoldExists DEF HasFolding
<1>6. Joins(u, b, ks, SUBSET (1 .. n), f)
  <2>1. ASSUME NEW s \in SUBSET (1 .. n)
        PROVE  f[s] = IF s = {} THEN b ELSE f[s \ {Max(s)}] \o u[ks[Max(s)]]
    <3>1. CASE s = {}
      BY <1>5, <3>1 DEF Folding
    <3>2. CASE s # {}
      <4>1. Max(s) \in s
        <5>1. s \in SUBSET (1 .. n + 1)
          BY <1>0
        <5>. QED
          BY <1>0, <3>2, <5>1, MaxOfFirst
      <4>2. f[s \ {Max(s)}] \in S /\ Max(s) \in 1 .. n
        BY <1>5, <4>1
      <4>3. f[s] = op[<<f[s \ {Max(s)}], Max(s)>>]
        BY <1>5, <3>2 DEF Folding
      <4>. QED
        BY <1>3, <3>2, <4>2, <4>3
    <3>. QED
      BY <3>1, <3>2
  <2>2. f = [s \in SUBSET (1 .. n) |-> f[s]]
    BY <1>5
  <2>. QED
    BY <2>1, <2>2 DEF Joins
<1> DEFINE h == CHOOSE h : Joins(u, b, ks, SUBSET (1 .. n), h)
<1>7. Joins(u, b, ks, SUBSET (1 .. n), h)
  BY <1>6
<1>8. Joined(u, b, ks) = h[1 .. n]
  BY <1>0, JoinedIs
<1> HIDE DEF h
<1> DEFINE g == [k \in 0 .. n |-> h[1 .. k]]
<1>9. g[0] = b
  <2>1. 1 .. 0 = {} /\ {} \in SUBSET (1 .. n) /\ 0 \in 0 .. n
    BY <1>0
  <2>2. h[{}] = b
    BY <1>7, <2>1 DEF Joins
  <2>. QED
    BY <2>1, <2>2
<1>10. ASSUME NEW k \in 0 .. n - 1 PROVE g[k + 1] = g[k] \o u[ks[k + 1]]
  <2>1. k \in 0 .. n /\ k + 1 \in 0 .. n
    BY <1>0
  <2>2. /\ 1 .. k + 1 \in SUBSET (1 .. n) /\ 1 .. k + 1 # {} /\ Max(1 .. k + 1) = k + 1
        /\ (1 .. k + 1) \ {Max(1 .. k + 1)} = 1 .. k
    BY <1>0, FoldSteps
  <2>3. h[1 .. k + 1] = h[1 .. k] \o u[ks[k + 1]]
    BY <1>7, <2>2 DEF Joins
  <2>. QED
    BY <2>1, <2>3
<1>11. Joined(u, b, ks) = g[n]
  BY <1>0, <1>8
<1>. QED
  BY <1>9, <1>10, <1>11 DEF Joining, n

Agree(u, v, ks, V) == \A i \in DOMAIN ks : u[ks[i]] \in Seq(V) /\ v[ks[i]] = u[ks[i]]

\* Only what u has for ks matters.
LEMMA JoinedAgree ==
    ASSUME NEW V, NEW b \in Seq(V), NEW K, NEW ks \in Seq(K), NEW u, NEW v, Agree(u, v, ks, V)
    PROVE  Joined(u, b, ks) = Joined(v, b, ks) /\ Joined(u, b, ks) \in Seq(V)
<1>1. PICK n \in Nat : n = Len(ks) /\ DOMAIN ks = 1 .. n
  BY LenProperties
<1>2. PICK g : Joining(u, b, ks, g)
  BY JoinedRounds DEF Agree
<1>3. PICK h : Joining(v, b, ks, h)
  BY JoinedRounds DEF Agree
<1> DEFINE T == {k \in Nat : k <= n => g[k] = h[k] /\ g[k] \in Seq(V)}
<1>4. 0 \in T
  BY <1>2, <1>3 DEF Joining
<1>5. ASSUME NEW k \in Nat, k \in T PROVE k + 1 \in T
  <2> SUFFICES ASSUME k + 1 <= n PROVE g[k + 1] = h[k + 1] /\ g[k + 1] \in Seq(V)
    OBVIOUS
  <2>1. k \in 0 .. Len(ks) - 1 /\ k + 1 \in DOMAIN ks /\ k <= n
    BY <1>1
  <2>2. g[k] = h[k] /\ g[k] \in Seq(V)
    BY <1>5, <2>1
  <2>3. g[k + 1] = g[k] \o u[ks[k + 1]] /\ h[k + 1] = h[k] \o v[ks[k + 1]]
    BY <1>2, <1>3, <2>1 DEF Joining
  <2>4. u[ks[k + 1]] \in Seq(V) /\ v[ks[k + 1]] = u[ks[k + 1]]
    BY <2>1 DEF Agree
  <2>5. g[k] \o u[ks[k + 1]] \in Seq(V)
    BY <2>2, <2>4, ConcatProperties
  <2>. QED
    BY <2>2, <2>3, <2>4, <2>5
<1> HIDE DEF T
<1>6. n \in T
  BY <1>4, <1>5, SetInduction
<1>. QED
  BY <1>1, <1>2, <1>3, <1>6 DEF T, Joining

\* f is the recursion behind Subtree, on the nodes in X.
Under(t, X, f) == f = [n \in X |-> Joined(f, <<n>>, t[n].kids)]

\* What Subtree is, in these terms.
LEMMA SubtreeIs ==
    \A t, node : Subtree(t, node) = (CHOOSE f : Under(t, DOMAIN t, f))[node]
BY Zenon DEF Subtree, Under, Joined

Grown(t, X) ==
    /\ \A n \in X : \A i \in DOMAIN t[n].kids : t[n].kids[i] \in X
    /\ \E f \in [X -> Seq(DOMAIN t)] : Under(t, X, f)

\* The children of a node, as a sequence of nodes in use.
LEMMA KidsAre ==
    ASSUME NEW t, Typed(t), Linked(t), NEW n \in DOMAIN t
    PROVE  /\ t[n].kids \in Seq(DOMAIN t) /\ Len(t[n].kids) \in Nat
           /\ DOMAIN t[n].kids = 1 .. Len(t[n].kids) /\ <<n>> \in Seq(DOMAIN t)
<1>1. t[n].kids \in Seq(Ids) /\ Len(t[n].kids) \in Nat /\ DOMAIN t[n].kids = 1 .. Len(t[n].kids)
  BY NodeIs DEF NodeOK
<1>2. PICK kids : kids = t[n].kids
  OBVIOUS
<1>3. \A i \in DOMAIN kids : kids[i] \in DOMAIN t
  BY <1>2 DEF Linked
<1>4. kids \in Seq(DOMAIN t)
  <2>1. kids \in Seq(Ids) /\ DOMAIN kids = 1 .. Len(kids) /\ Len(kids) \in Nat
    BY <1>1, <1>2
  <2>2. kids = [i \in 1 .. Len(kids) |-> kids[i]]
    BY <2>1
  <2>. QED
    BY <1>3, <2>1, <2>2, SeqDef
<1>. QED
  BY <1>1, <1>2, <1>4

\* One node more, when its children are there.
LEMMA GrowStep ==
    ASSUME NEW t, Typed(t), Linked(t), NEW X \in SUBSET DOMAIN t, Grown(t, X),
           NEW n \in DOMAIN t \ X, \A i \in DOMAIN t[n].kids : t[n].kids[i] \in X
    PROVE  Grown(t, X \union {n})
<1> DEFINE V == DOMAIN t
           Z == X \union {n}
<1>1. PICK f \in [X -> Seq(V)] : Under(t, X, f)
  BY DEF Grown
<1> DEFINE v == [m \in Z |-> IF m = n THEN Joined(f, <<n>>, t[n].kids) ELSE f[m]]
<1>2. \A m \in X : v[m] = f[m] /\ f[m] \in Seq(V)
  BY <1>1
<1>3. v[n] = Joined(f, <<n>>, t[n].kids) /\ v = [m \in Z |-> v[m]]
  OBVIOUS
<1> HIDE DEF v
<1>4. \A m \in X : \A i \in DOMAIN t[m].kids : t[m].kids[i] \in X
  BY DEF Grown
<1>5. ASSUME NEW m \in Z PROVE Joined(f, <<m>>, t[m].kids) = Joined(v, <<m>>, t[m].kids)
                               /\ Joined(f, <<m>>, t[m].kids) \in Seq(V)
  <2>1. t[m].kids \in Seq(V) /\ <<m>> \in Seq(V)
    BY KidsAre
  <2>2. \A i \in DOMAIN t[m].kids : t[m].kids[i] \in X
    BY <1>4
  <2>3. \A i \in DOMAIN t[m].kids : f[t[m].kids[i]] \in Seq(V) /\ v[t[m].kids[i]] = f[t[m].kids[i]]
    BY <1>2, <2>2
  <2> HIDE DEF V
  <2>4. PICK ks \in Seq(V) : ks = t[m].kids
    BY <2>1
  <2>5. PICK b \in Seq(V) : b = <<m>>
    BY <2>1
  <2>6. Agree(f, v, ks, V)
    BY <2>3, <2>4 DEF Agree
  <2>7. Joined(f, b, ks) = Joined(v, b, ks)
    BY <2>6, JoinedAgree
  <2>8. Joined(f, b, ks) \in Seq(V)
    BY <2>6, JoinedAgree
  <2>. QED
    BY <2>4, <2>5, <2>7, <2>8
<1>6. ASSUME NEW m \in X PROVE f[m] = Joined(f, <<m>>, t[m].kids)
  BY <1>1 DEF Under
<1>7. \A m \in Z : v[m] = Joined(v, <<m>>, t[m].kids) /\ v[m] \in Seq(V)
  BY <1>2, <1>3, <1>5, <1>6
<1>8. v \in [Z -> Seq(V)] /\ Under(t, Z, v)
  BY <1>3, <1>7 DEF Under
<1>9. \A m \in Z : \A i \in DOMAIN t[m].kids : t[m].kids[i] \in Z
  BY <1>4
<1>. QED
  BY <1>8, <1>9 DEF Grown

\* There is a function that gives every node its subtree.
LEMMA UnderExists ==
    ASSUME NEW t, Tree(t)
    PROVE  Grown(t, DOMAIN t)
<1> DEFINE V == DOMAIN t
           Y == {X \in SUBSET V : Grown(t, X)}
<1>0. Typed(t) /\ Linked(t) /\ Grounded(t)
  BY DEF Tree
<1>1. {} \in Y
  <2> DEFINE f == [n \in {} |-> Joined(<<>>, <<n>>, t[n].kids)]
  <2>1. f \in [{} -> Seq(V)] /\ f = [n \in {} |-> Joined(f, <<n>>, t[n].kids)]
    OBVIOUS
  <2> HIDE DEF f
  <2>. QED
    BY <2>1 DEF Grown, Under
<1>2. ASSUME NEW X \in Y, X # V PROVE \E n \in V \ X : X \union {n} \in Y
  <2>1. X \in SUBSET V /\ Grown(t, X) /\ V \ X \in SUBSET DOMAIN t /\ V \ X # {}
    BY <1>2
  <2>2. PICK n \in V \ X : \A i \in DOMAIN t[n].kids : t[n].kids[i] \notin V \ X
    BY <1>0, <2>1 DEF Grounded
  <2>3. \A i \in DOMAIN t[n].kids : t[n].kids[i] \in X
    BY <1>0, <2>2 DEF Linked
  <2>4. Grown(t, X \union {n})
    BY <1>0, <2>1, <2>2, <2>3, GrowStep
  <2>. QED
    BY <2>1, <2>2, <2>4
<1>3. IsFiniteSet(V) /\ Y \in SUBSET (SUBSET V)
  BY <1>0, Finite
<1> HIDE DEF Y
<1>4. V \in Y
  BY <1>1, <1>2, <1>3, GrowInduction
<1>. QED
  BY <1>4 DEF Y

\* A subtree is the node, and behind it the subtrees of its children.
LEMMA SubtreeRec ==
    ASSUME NEW t, Tree(t)
    PROVE  \E under \in [DOMAIN t -> Seq(DOMAIN t)] :
             \A n \in DOMAIN t : /\ Subtree(t, n) = under[n]
                                 /\ under[n] = Joined(under, <<n>>, t[n].kids)
<1> DEFINE V == DOMAIN t
           u == CHOOSE f : Under(t, V, f)
<1>1. Under(t, V, u)
  BY UnderExists DEF Grown
<1>2. \A n \in V : Subtree(t, n) = u[n]
  BY SubtreeIs
<1> HIDE DEF u
<1>3. u = [n \in V |-> u[n]] /\ \A n \in V : u[n] = Joined(u, <<n>>, t[n].kids)
  BY <1>1 DEF Under
<1> DEFINE Y == {n \in V : u[n] \in Seq(V)}
<1>4. ASSUME NEW n \in V, \A i \in DOMAIN t[n].kids : t[n].kids[i] \in Y PROVE n \in Y
  <2>1. t[n].kids \in Seq(V) /\ <<n>> \in Seq(V)
    BY KidsAre DEF Tree
  <2>2. Agree(u, u, t[n].kids, V)
    BY <1>4 DEF Agree
  <2>3. Joined(u, <<n>>, t[n].kids) \in Seq(V)
    <3> HIDE DEF V
    <3>. QED
      BY <2>1, <2>2, JoinedAgree
  <2>. QED
    BY <1>3, <2>3
<1> HIDE DEF Y
<1>5. V \subseteq Y
  BY <1>4, UpInduction
<1>6. u \in [V -> Seq(V)]
  BY <1>3, <1>5 DEF Y
<1>. QED
  BY <1>2, <1>3, <1>6

\* s holds no node twice, and behind the first one only nodes of the subtree.
Once(t, n, s) ==
    /\ s \in Seq(DOMAIN t) /\ Len(s) >= 1 /\ s[1] = n
    /\ \A i, j \in DOMAIN s : s[i] = s[j] => i = j
    /\ \A i \in DOMAIN s \ {1} : s[i] # Root /\ \E j \in DOMAIN s : s[j] = t[s[i]].parent

\* The children of the nodes in s, of the first one only the first m, come
\* behind it.
Closed(t, n, m, s) ==
    /\ \A i \in DOMAIN s : \A a \in DOMAIN t[s[i]].kids :
        (i = 1 => a <= m) => \E j \in DOMAIN s : j > i /\ s[j] = t[s[i]].kids[a]
    /\ \A i \in DOMAIN s \ {1} : \A a \in DOMAIN t[n].kids : s[i] = t[n].kids[a] => a <= m

\* Siblings come in their order.
InOrder(t, s) ==
    \A i, j, k \in DOMAIN s : \A a, b \in DOMAIN t[s[i]].kids :
        s[j] = t[s[i]].kids[a] /\ s[k] = t[s[i]].kids[b] /\ a < b => j < k

\* s is n followed by the subtrees of its first m children.
Part(t, n, m, s) == Once(t, n, s) /\ Closed(t, n, m, s) /\ InOrder(t, s)

\* Places in two sequences, one behind the other.
Behind(s, w, z) ==
    /\ DOMAIN s = 1 .. Len(s) /\ DOMAIN w = 1 .. Len(w) /\ DOMAIN z = 1 .. Len(s) + Len(w)
    /\ Len(s) \in Nat /\ Len(w) \in Nat
    /\ \A i \in DOMAIN s : i \in DOMAIN z /\ z[i] = s[i]
    /\ \A i \in DOMAIN w : Len(s) + i \in DOMAIN z /\ z[Len(s) + i] = w[i]
    /\ \A i \in DOMAIN z : \/ i \in DOMAIN s
                           \/ \E k \in DOMAIN w : i = Len(s) + k

\* Which places those are.
LEMMA Places ==
    ASSUME NEW V, NEW s \in Seq(V), NEW w \in Seq(V), NEW z, z = s \o w
    PROVE  z \in Seq(V) /\ Len(z) = Len(s) + Len(w) /\ Behind(s, w, z)
<1>1. /\ z \in Seq(V) /\ Len(z) = Len(s) + Len(w)
      /\ \A i \in 1 .. Len(s) + Len(w) : z[i] = IF i <= Len(s) THEN s[i] ELSE w[i - Len(s)]
  BY ConcatProperties
<1>2. /\ DOMAIN s = 1 .. Len(s) /\ DOMAIN w = 1 .. Len(w) /\ DOMAIN z = 1 .. Len(s) + Len(w)
      /\ Len(s) \in Nat /\ Len(w) \in Nat
  BY <1>1, LenProperties
<1>3. \A i \in DOMAIN s : i \in DOMAIN z /\ z[i] = s[i]
  BY <1>1, <1>2
<1>4. ASSUME NEW i \in DOMAIN w PROVE Len(s) + i \in DOMAIN z /\ z[Len(s) + i] = w[i]
  <2>1. Len(s) + i \in 1 .. Len(s) + Len(w) /\ ~ (Len(s) + i <= Len(s)) /\ (Len(s) + i) - Len(s) = i
    BY <1>2
  <2>. QED
    BY <1>1, <1>2, <2>1
<1>5. ASSUME NEW i \in DOMAIN z PROVE i \in DOMAIN s \/ \E k \in DOMAIN w : i = Len(s) + k
  <2>1. CASE i > Len(s)
    <3>1. i - Len(s) \in DOMAIN w /\ i = Len(s) + (i - Len(s))
      BY <1>2, <2>1
    <3>. QED
      BY <3>1
  <2>. QED
    BY <1>2, <2>1
<1>. QED
  BY <1>1, <1>2, <1>3, <1>4, <1>5 DEF Behind

\* The subtree of the next child has no node in common with what is there.
LEMMA Disjoint ==
    ASSUME NEW t, Tree(t), NEW n \in DOMAIN t, NEW m \in Nat, m + 1 \in DOMAIN t[n].kids,
           NEW s, Part(t, n, m, s), NEW c, c = t[n].kids[m + 1],
           NEW w, Once(t, c, w)
    PROVE  /\ \A i \in DOMAIN w : w[i] # n
           /\ \A i \in DOMAIN s, j \in DOMAIN w : s[i] # w[j]
<1>0. /\ DOMAIN s = 1 .. Len(s) /\ DOMAIN w = 1 .. Len(w) /\ 1 \in DOMAIN s /\ 1 \in DOMAIN w
      /\ \A i \in DOMAIN s : s[i] \in DOMAIN t
      /\ \A i \in DOMAIN w : w[i] \in DOMAIN t
  BY LenProperties, ElementOfSeq DEF Part, Once
<1>1. c \in DOMAIN t \ {Root} /\ t[c].parent = n
  BY DEF Tree, Linked
<1> DEFINE W == {w[i] : i \in DOMAIN w}
           S == {s[i] : i \in DOMAIN s}
<1>2. W \in SUBSET DOMAIN t /\ c \in W /\ Root \notin W
      /\ \A x \in W \ {c} : t[x].parent \in W
  BY <1>0, <1>1 DEF Once
<1>3. S \in SUBSET DOMAIN t /\ n \in S
      /\ \A x \in S \ {n} : t[x].parent \in S /\ \E i \in DOMAIN s \ {1} : x = s[i]
  BY <1>0 DEF Part, Once
<1> HIDE DEF W, S
<1>4. n \notin W
  <2> SUFFICES ASSUME n \in W PROVE FALSE
    OBVIOUS
  <2>1. \A x \in W : t[x].parent \in W
    BY <1>1, <1>2
  <2>. QED
    BY <1>2, <2>1 DEF Tree, Grounded
<1>5. S \intersect W = {}
  <2> SUFFICES ASSUME S \intersect W # {} PROVE FALSE
    OBVIOUS
  <2>1. S \intersect W \in SUBSET DOMAIN t /\ Root \notin S \intersect W
    BY <1>2, <1>3
  <2>2. PICK x \in S \intersect W : t[x].parent \notin S \intersect W
    BY <2>1 DEF Tree, Grounded
  <2>3. x # n /\ t[x].parent \in S
    BY <1>3, <1>4, <2>2
  <2>4. x = c
    BY <1>2, <2>2, <2>3
  <2>5. PICK i \in DOMAIN s \ {1} : s[i] = t[n].kids[m + 1]
    BY <1>3, <2>2, <2>3, <2>4
  <2>6. m + 1 <= m
    BY <2>5 DEF Part, Closed
  <2>. QED
    BY <2>6
<1>6. \A i \in DOMAIN w : w[i] # n
  BY <1>4 DEF W
<1>7. \A i \in DOMAIN s, j \in DOMAIN w : s[i] # w[j]
  BY <1>5 DEF S, W
<1>. QED
  BY <1>6, <1>7

\* No node is its own child.
LEMMA OwnParent ==
    ASSUME NEW t, Tree(t), NEW n \in DOMAIN t, NEW a \in DOMAIN t[n].kids
    PROVE  t[n].kids[a] # n
<1>1. {n} \in SUBSET DOMAIN t /\ {n} # {}
  OBVIOUS
<1>2. \E m \in {n} : \A i \in DOMAIN t[m].kids : t[m].kids[i] \notin {n}
  BY <1>1 DEF Tree, Grounded
<1>. QED
  BY <1>2

\* One child more.
LEMMA PartStep ==
    ASSUME NEW t, Tree(t), NEW n \in DOMAIN t, NEW m \in Nat, m + 1 \in DOMAIN t[n].kids,
           NEW s, Part(t, n, m, s), NEW c, c = t[n].kids[m + 1],
           NEW w, Part(t, c, Len(t[c].kids), w), NEW z, z = s \o w
    PROVE  Part(t, n, m + 1, z)
<1> DEFINE L == Len(s)
<1>0. /\ s \in Seq(DOMAIN t) /\ w \in Seq(DOMAIN t)
      /\ Len(s) >= 1 /\ Len(w) >= 1 /\ s[1] = n /\ w[1] = c
  BY DEF Part, Once
<1>1. z \in Seq(DOMAIN t) /\ Len(z) = L + Len(w) /\ Behind(s, w, z)
  <2>1. PICK V : V = DOMAIN t
    OBVIOUS
  <2>2. s \in Seq(V) /\ w \in Seq(V)
    BY <1>0, <2>1
  <2>3. z \in Seq(V) /\ Len(z) = L + Len(w)
    BY <2>2, Places
  <2>4. Behind(s, w, z)
    BY <2>2, Places
  <2>. QED
    BY <2>1, <2>3, <2>4
<1>2. /\ DOMAIN s = 1 .. L /\ DOMAIN w = 1 .. Len(w) /\ DOMAIN z = 1 .. L + Len(w)
      /\ L \in Nat /\ Len(w) \in Nat
      /\ \A i \in DOMAIN s : i \in DOMAIN z /\ z[i] = s[i]
      /\ \A i \in DOMAIN w : L + i \in DOMAIN z /\ z[L + i] = w[i]
      /\ \A i \in DOMAIN z : i \in DOMAIN s \/ \E k \in DOMAIN w : i = L + k
  BY <1>1 DEF Behind
<1> HIDE DEF L
<1>3. 1 \in DOMAIN s /\ 1 \in DOMAIN w /\ z[1] = n /\ L >= 1
  BY <1>0, <1>2 DEF L
<1>4. /\ \A i \in DOMAIN w : w[i] # n
      /\ \A i \in DOMAIN s, j \in DOMAIN w : s[i] # w[j]
  BY Disjoint DEF Part
<1>5. c \in DOMAIN t \ {Root} /\ t[c].parent = n
  BY DEF Tree, Linked
<1>6. DOMAIN t[c].kids = 1 .. Len(t[c].kids) /\ Len(t[c].kids) \in Nat
  BY <1>5, KidsAre DEF Tree
<1>7. /\ \A i \in DOMAIN s : s[i] \in DOMAIN t
      /\ \A i \in DOMAIN w : w[i] \in DOMAIN t
      /\ \A i \in DOMAIN z : z[i] \in DOMAIN t
  BY <1>0, <1>1, <1>2, ElementOfSeq DEF L
\* Children have their directory as their parent.
<1>8. \A x \in DOMAIN t : \A a \in DOMAIN t[x].kids :
        t[x].kids[a] \in DOMAIN t /\ t[t[x].kids[a]].parent = x
  BY DEF Tree, Linked
<1>a. ASSUME NEW x \in DOMAIN t, NEW a \in DOMAIN t[x].kids PROVE a \in Nat
  <2>1. DOMAIN t[x].kids = 1 .. Len(t[x].kids)
    BY KidsAre DEF Tree
  <2>. QED
    BY <2>1
\* The node at a place behind s.
<1>b. ASSUME NEW k \in DOMAIN w PROVE L + k \in DOMAIN z /\ z[L + k] = w[k] /\ k \in Nat
  <2>1. k \in 1 .. Len(w) /\ Len(w) \in Nat
    BY <1>2, Zenon
  <2>2. L + k \in DOMAIN z /\ z[L + k] = w[k]
    BY <1>2, Zenon
  <2>. QED
    BY <2>1, <2>2
<1>9. Once(t, n, z)
  <2>1. Len(z) >= 1
    BY <1>0, <1>1, <1>2
  <2>2. ASSUME NEW i \in DOMAIN z, NEW j \in DOMAIN z, z[i] = z[j] PROVE i = j
    <3>1. \A a, b \in DOMAIN s : s[a] = s[b] => a = b
      BY DEF Part, Once
    <3>2. \A a, b \in DOMAIN w : w[a] = w[b] => a = b
      BY DEF Part, Once
    <3>3. CASE i \in DOMAIN s /\ j \in DOMAIN s
      BY <1>2, <2>2, <3>1, <3>3
    <3>4. ASSUME NEW k \in DOMAIN w, i = L + k PROVE i = j
      <4>1. j \notin DOMAIN s
        BY <1>2, <1>4, <2>2, <3>4, <1>b
      <4>2. PICK q \in DOMAIN w : j = L + q
        BY <1>2, <4>1
      <4>3. w[k] = w[q]
        BY <2>2, <3>4, <4>2, <1>b
      <4>. QED
        BY <3>2, <3>4, <4>2, <4>3
    <3>5. CASE i \in DOMAIN s /\ j \notin DOMAIN s
      <4>1. PICK q \in DOMAIN w : j = L + q
        BY <1>2, <3>5
      <4>. QED
        BY <1>2, <1>4, <2>2, <3>5, <4>1, <1>b, SMTT(20)
    <3>. QED
      BY <1>2, <3>3, <3>4, <3>5
  <2>3. ASSUME NEW i \in DOMAIN z \ {1}
        PROVE  z[i] # Root /\ \E j \in DOMAIN z : z[j] = t[z[i]].parent
    <3>1. CASE i \in DOMAIN s
      <4>1. s[i] # Root /\ \E j \in DOMAIN s : s[j] = t[s[i]].parent
        BY <3>1 DEF Part, Once
      <4>. QED
        BY <1>2, <3>1, <4>1
    <3>2. ASSUME NEW k \in DOMAIN w, i = L + k
          PROVE  z[i] # Root /\ \E j \in DOMAIN z : z[j] = t[z[i]].parent
      <4>1. CASE k = 1
        BY <1>0, <1>2, <1>3, <1>5, <3>2, <4>1
      <4>2. CASE k # 1
        <5>1. PICK j \in DOMAIN w : w[k] # Root /\ w[j] = t[w[k]].parent
          BY <4>2 DEF Part, Once
        <5>2. z[i] = w[k] /\ L + j \in DOMAIN z /\ z[L + j] = w[j]
          BY <3>2, <1>b
        <5>. QED
          BY <5>1, <5>2
      <4>. QED
        BY <4>1, <4>2
    <3>. QED
      BY <1>2, <3>1, <3>2
  <2>. QED
    BY <1>1, <1>3, <2>1, <2>2, <2>3 DEF Once
<1>10. Closed(t, n, m + 1, z)
  <2>1. ASSUME NEW i \in DOMAIN z, NEW a \in DOMAIN t[z[i]].kids, i = 1 => a <= m + 1
        PROVE  \E j \in DOMAIN z : j > i /\ z[j] = t[z[i]].kids[a]
    <3>1. CASE i = 1 /\ a = m + 1
      <4>1. L + 1 \in DOMAIN z /\ z[L + 1] = c /\ L + 1 > i
        BY <1>0, <1>2, <1>3, <3>1
      <4>. QED
        BY <1>3, <3>1, <4>1
    <3>2. CASE i \in DOMAIN s /\ ~ (i = 1 /\ a = m + 1)
      <4>1. a \in DOMAIN t[s[i]].kids /\ (i = 1 => a <= m)
        <5>1. a \in DOMAIN t[z[i]].kids /\ z[i] \in DOMAIN t
          BY <1>7
        <5>2. a \in Nat
          BY <5>1, <1>a
        <5>. QED
          BY <1>2, <2>1, <3>2, <5>2
      <4>2. \E j \in DOMAIN s : j > i /\ s[j] = t[s[i]].kids[a]
        BY <3>2, <4>1 DEF Part, Closed
      <4>. QED
        BY <1>2, <3>2, <4>2
    <3>3. ASSUME NEW k \in DOMAIN w, i = L + k
          PROVE  \E j \in DOMAIN z : j > i /\ z[j] = t[z[i]].kids[a]
      <4>0. z[i] = w[k]
        BY <3>3, <1>b
      <4>1. a \in DOMAIN t[w[k]].kids /\ (k = 1 => a <= Len(t[c].kids))
        <5>1. k = 1 => a \in DOMAIN t[c].kids
          BY <1>0, <4>0
        <5>. QED
          BY <1>6, <4>0, <5>1
      <4>2. PICK j \in DOMAIN w : j > k /\ w[j] = t[w[k]].kids[a]
        BY <4>1 DEF Part, Closed
      <4>3. L + j \in DOMAIN z /\ z[L + j] = w[j] /\ j \in Nat /\ k \in Nat /\ L \in Nat
        BY <1>2, <1>b
      <4>4. L + j > i
        BY <3>3, <4>2, <4>3
      <4>. QED
        BY <4>0, <4>2, <4>3, <4>4
    <3>. QED
      BY <1>2, <1>3, <3>1, <3>2, <3>3
  <2>2. ASSUME NEW i \in DOMAIN z \ {1}, NEW a \in DOMAIN t[n].kids, z[i] = t[n].kids[a]
        PROVE  a <= m + 1
    <3>1. CASE i \in DOMAIN s
      <4>1. a <= m
        BY <1>2, <2>2, <3>1 DEF Part, Closed
      <4>2. a \in Nat
        BY KidsAre DEF Tree
      <4>. QED
        BY <4>1, <4>2
    <3>2. ASSUME NEW k \in DOMAIN w, i = L + k PROVE a <= m + 1
      <4>0. z[i] = w[k]
        BY <3>2, <1>b
      <4>1. t[w[k]].parent = n
        BY <1>8, <2>2, <4>0
      <4>2. k = 1
        BY <1>4, <4>1 DEF Part, Once
      <4>3. t[n].kids[a] = t[n].kids[m + 1]
        BY <1>0, <2>2, <4>0, <4>2
      <4>4. a = m + 1
        BY <4>3 DEF Tree, Apart
      <4>. QED
        BY <4>4
    <3>. QED
      BY <1>2, <3>1, <3>2
  <2>. QED
    BY <2>1, <2>2 DEF Closed
<1>11. InOrder(t, z)
  <2> USE DEF InOrder
  <2> TAKE i, j, k \in DOMAIN z
  <2> TAKE a, b \in DOMAIN t[z[i]].kids
  <2> HAVE z[j] = t[z[i]].kids[a] /\ z[k] = t[z[i]].kids[b] /\ a < b
  <2>1. t[z[j]].parent = z[i] /\ t[z[k]].parent = z[i]
    BY <1>7, <1>8, Zenon
  <2>2. CASE j \in DOMAIN s /\ k \notin DOMAIN s
    BY <1>2, <2>2
  <2>3. ASSUME NEW p \in DOMAIN w, NEW q \in DOMAIN w, j = L + p, k = L + q PROVE j < k
    <3>1. CASE i \in DOMAIN s
      <4>0. t[w[p]].parent = s[i] /\ t[w[q]].parent = s[i]
        BY <1>2, <2>1, <2>3, <3>1, <1>b
      <4>1. p = 1
        BY <1>4, <3>1, <4>0 DEF Part, Once
      <4>2. q = 1
        BY <1>4, <3>1, <4>0 DEF Part, Once
      <4>3. a = b
        <5>1. z[i] \in DOMAIN t /\ t[z[i]].kids[a] = t[z[i]].kids[b]
          BY <1>7, <2>3, <4>1, <4>2
        <5>. QED
          BY <5>1 DEF Tree, Apart
      <4>4. a \in Nat
        BY <1>7, <1>a
      <4>. QED
        BY <4>3, <4>4
    <3>2. ASSUME NEW r \in DOMAIN w, i = L + r PROVE j < k
      <4>1. /\ a \in DOMAIN t[w[r]].kids /\ b \in DOMAIN t[w[r]].kids
            /\ w[p] = t[w[r]].kids[a] /\ w[q] = t[w[r]].kids[b]
        BY <1>2, <2>3, <3>2
      <4>2. p < q
        BY <4>1 DEF Part, InOrder
      <4>. QED
        BY <1>2, <2>3, <4>2
    <3>. QED
      BY <1>2, <3>1, <3>2
  <2>4. CASE k \in DOMAIN s
    <3>1. i \in DOMAIN s
      <4>1. ASSUME NEW r \in DOMAIN w, i = L + r PROVE FALSE
        <5>1. b \in DOMAIN t[w[r]].kids /\ s[k] = t[w[r]].kids[b]
          BY <1>2, <2>4, <4>1, <1>b
        <5>2. r = 1 => b <= Len(t[c].kids)
          BY <1>0, <1>6, <5>1
        <5>3. \E q \in DOMAIN w : w[q] = t[w[r]].kids[b]
          BY <5>1, <5>2 DEF Part, Closed
        <5>. QED
          BY <1>4, <2>4, <5>1, <5>3
      <4>. QED
        BY <1>2, <4>1
    <3>2. i = 1 => a <= m
      <4>1. ASSUME i = 1 PROVE b <= m
        <5>1. s[k] = t[n].kids[b] /\ b \in DOMAIN t[n].kids
          BY <1>2, <1>3, <2>4, <4>1
        <5>2. k # 1
          BY <1>0, <1>8, <5>1, OwnParent
        <5>. QED
          BY <2>4, <5>1, <5>2 DEF Part, Closed
      <4>2. a \in Nat /\ b \in Nat
        BY <1>7, <1>a
      <4>. QED
        BY <4>1, <4>2
    <3>3. PICK q \in DOMAIN s : s[q] = t[s[i]].kids[a]
      BY <1>2, <3>1, <3>2 DEF Part, Closed
    <3>4. q = j
      <4>1. z[i] = s[i] /\ z[q] = s[q] /\ q \in DOMAIN z
        BY <1>2, <3>1, <3>3
      <4>2. z[q] = z[j]
        BY <3>3, <4>1
      <4>. QED
        BY <1>9, <4>1, <4>2 DEF Once
    <3>. QED
      BY <1>2, <2>4, <3>1, <3>4 DEF Part, InOrder
  <2>. QED
    BY <1>2, <2>2, <2>3, <2>4
<1>. QED
  BY <1>9, <1>10, <1>11 DEF Part

\* n alone is the part without any child.
LEMMA PartStart ==
    ASSUME NEW t, Tree(t), NEW n \in DOMAIN t
    PROVE  Part(t, n, 0, <<n>>)
<1> DEFINE s == <<n>>
<1>1. s \in Seq(DOMAIN t) /\ Len(s) = 1 /\ s[1] = n /\ DOMAIN s = {1}
  OBVIOUS
<1>2. \A a \in DOMAIN t[n].kids : a \in Nat /\ a >= 1 /\ t[n].kids[a] # n
  BY KidsAre, OwnParent DEF Tree
<1> HIDE DEF s
<1>3. Once(t, n, s)
  BY <1>1 DEF Once
<1>4. Closed(t, n, 0, s)
  <2>1. \A i \in DOMAIN s : \A a \in DOMAIN t[s[i]].kids : ~ (i = 1 => a <= 0)
    BY <1>1, <1>2
  <2>. QED
    BY <1>1, <2>1 DEF Closed
<1>5. InOrder(t, s)
  <2>1. \A i, j \in DOMAIN s : \A a \in DOMAIN t[s[i]].kids : s[j] # t[s[i]].kids[a]
    BY <1>1, <1>2
  <2>. QED
    BY <2>1 DEF InOrder
<1>6. Part(t, n, 0, s)
  BY <1>3, <1>4, <1>5 DEF Part
<1>. QED
  BY <1>6 DEF s

\* The subtree of a node is the node and the subtrees of all its children.
LEMMA SubtreePart ==
    ASSUME NEW t, Tree(t), NEW n \in DOMAIN t
    PROVE  Part(t, n, Len(t[n].kids), Subtree(t, n))
<1>1. PICK u \in [DOMAIN t -> Seq(DOMAIN t)] :
        \A m \in DOMAIN t : Subtree(t, m) = u[m] /\ u[m] = Joined(u, <<m>>, t[m].kids)
  BY SubtreeRec
<1> DEFINE Y == {m \in DOMAIN t : Part(t, m, Len(t[m].kids), u[m])}
<1>2. ASSUME NEW m \in DOMAIN t, \A i \in DOMAIN t[m].kids : t[m].kids[i] \in Y
      PROVE  m \in Y
  <2>1. PICK ks : ks = t[m].kids
    OBVIOUS
  <2>2. PICK V : V = DOMAIN t
    OBVIOUS
  <2>3. PICK b : b = <<m>>
    OBVIOUS
  <2>4. ks \in Seq(V) /\ Len(ks) \in Nat /\ DOMAIN ks = 1 .. Len(ks) /\ b \in Seq(V)
    BY <2>1, <2>2, <2>3, KidsAre DEF Tree
  <2>5. \A i \in DOMAIN ks : ks[i] \in V /\ u[ks[i]] \in Seq(V)
    BY <1>1, <1>2, <2>1, <2>2
  <2>6. PICK g : Joining(u, b, ks, g)
    BY <2>4, <2>5, JoinedRounds
  <2> DEFINE T == {k \in Nat : k <= Len(ks) => Part(t, m, k, g[k])}
  <2>7. 0 \in T
    <3>1. Part(t, m, 0, b)
      BY <2>3, PartStart
    <3>. QED
      BY <2>6, <3>1 DEF Joining
  <2>8. ASSUME NEW k \in Nat, k \in T PROVE k + 1 \in T
    <3> SUFFICES ASSUME k + 1 <= Len(ks) PROVE Part(t, m, k + 1, g[k + 1])
      OBVIOUS
    <3>1. k <= Len(ks) /\ k \in 0 .. Len(ks) - 1 /\ k + 1 \in DOMAIN ks
      BY <2>4
    <3>2. Part(t, m, k, g[k])
      BY <2>8, <3>1
    <3>3. PICK c : c = t[m].kids[k + 1] /\ c = ks[k + 1]
      BY <2>1
    <3>4. Part(t, c, Len(t[c].kids), u[c])
      BY <1>2, <2>1, <3>1, <3>3
    <3>5. g[k + 1] = g[k] \o u[c]
      BY <2>6, <3>1, <3>3 DEF Joining
    <3>6. k + 1 \in DOMAIN t[m].kids
      BY <2>1, <3>1
    <3> HIDE DEF T
    <3>. QED
      BY <3>2, <3>3, <3>4, <3>5, <3>6, PartStep
  <2> HIDE DEF T
  <2>9. Len(ks) \in T
    BY <2>4, <2>7, <2>8, SetInduction
  <2>10. Part(t, m, Len(ks), g[Len(ks)])
    BY <2>4, <2>9 DEF T
  <2>11. u[m] = g[Len(ks)]
    BY <1>1, <2>1, <2>3, <2>6 DEF Joining
  <2>. QED
    BY <2>1, <2>10, <2>11
<1> HIDE DEF Y
<1>3. DOMAIN t \subseteq Y
  BY <1>2, UpInduction
<1>. QED
  BY <1>1, <1>3 DEF Y

\* The subtree of the root has every node of the tree, once.
LEMMA WholeTree ==
    ASSUME NEW t, Tree(t)
    PROVE  /\ {Subtree(t, Root)[i] : i \in DOMAIN Subtree(t, Root)} = DOMAIN t
           /\ Len(Subtree(t, Root)) = Cardinality(DOMAIN t)
<1>0. Root \in DOMAIN t
  BY DEF Tree, Typed
<1>1. PICK s : s = Subtree(t, Root)
  OBVIOUS
<1>2. Part(t, Root, Len(t[Root].kids), s)
  BY <1>0, <1>1, SubtreePart
<1>3. /\ s \in Seq(DOMAIN t) /\ DOMAIN s = 1 .. Len(s) /\ Len(s) \in Nat /\ 1 \in DOMAIN s
      /\ s[1] = Root /\ \A i \in DOMAIN s : s[i] \in DOMAIN t
      /\ \A i, j \in DOMAIN s : s[i] = s[j] => i = j
  BY <1>2, LenProperties, ElementOfSeq DEF Part, Once
<1> DEFINE Y == {s[i] : i \in DOMAIN s}
<1>4. ASSUME NEW n \in DOMAIN t \ {Root}, t[n].parent \in Y PROVE n \in Y
  <2>1. PICK i \in DOMAIN s : s[i] = t[n].parent
    BY <1>4
  <2>2. PICK a \in DOMAIN t[s[i]].kids : t[s[i]].kids[a] = n
    BY <2>1 DEF Tree, Linked
  <2>3. i = 1 => a <= Len(t[Root].kids)
    BY <1>0, <1>3, <2>2, KidsAre DEF Tree
  <2>. QED
    BY <1>2, <2>2, <2>3 DEF Part, Closed
<1>5. DOMAIN t \subseteq Y
  <2>1. Root \in Y
    BY <1>3
  <2> HIDE DEF Y
  <2>. QED
    BY <1>4, <2>1, DownInduction
<1>6. Y = DOMAIN t
  <2>1. \A x \in Y : x \in DOMAIN t
    BY <1>3
  <2> HIDE DEF Y
  <2>. QED
    BY <1>5, <2>1
<1>7. Cardinality(DOMAIN t) = Len(s)
  <2>1. s \in Bijection(1 .. Len(s), DOMAIN t)
    BY <1>3, <1>6 DEF Bijection, Injection, Surjection, IsInjective
  <2>. QED
    BY <1>3, <2>1, FS_CountingElements DEF ExistsBijection
<1>. QED
  BY <1>1, <1>6, <1>7
-----------------------------------------------------------------------------
(* Paths.                                                                  *)

\* f is the recursion behind TruePath, on the nodes in X.
Ups(t, X, f) == f = [n \in X |-> IF n = Root THEN <<>> ELSE Append(f[t[n].parent], t[n].name)]

\* What TruePath is, in these terms.
LEMMA TruePathIs ==
    \A t, node : TruePath(t, node) = (CHOOSE f : Ups(t, DOMAIN t, f))[node]
BY Zenon DEF TruePath, Ups

Climbed(t, X) ==
    /\ \A n \in X \ {Root} : t[n].parent \in X
    /\ \E f : Ups(t, X, f)

\* One node more, when its directory is there.
LEMMA ClimbStep ==
    ASSUME NEW t, NEW X \in SUBSET DOMAIN t, Climbed(t, X),
           NEW n \in DOMAIN t \ X, n # Root => t[n].parent \in X
    PROVE  Climbed(t, X \union {n})
<1> DEFINE Z == X \union {n}
<1>1. PICK f : Ups(t, X, f)
  BY DEF Climbed
<1> DEFINE v == [m \in Z |-> IF m = n
                             THEN IF n = Root THEN <<>> ELSE Append(f[t[n].parent], t[n].name)
                             ELSE f[m]]
<1>2. \A m \in X : v[m] = f[m]
  OBVIOUS
<1>3. v[n] = (IF n = Root THEN <<>> ELSE Append(f[t[n].parent], t[n].name))
      /\ v = [m \in Z |-> v[m]]
  OBVIOUS
<1> HIDE DEF v
<1>4. \A m \in X \ {Root} : t[m].parent \in X
  BY DEF Climbed
<1>5. \A m \in X : f[m] = IF m = Root THEN <<>> ELSE Append(f[t[m].parent], t[m].name)
  BY <1>1 DEF Ups
<1>6. ASSUME NEW m \in Z
      PROVE  v[m] = IF m = Root THEN <<>> ELSE Append(v[t[m].parent], t[m].name)
  <2>1. CASE m = n
    BY <1>2, <1>3, <2>1
  <2>2. CASE m \in X
    BY <1>2, <1>4, <1>5, <2>2
  <2>. QED
    BY <2>1, <2>2
<1>7. Ups(t, Z, v)
  BY <1>3, <1>6 DEF Ups
<1>8. \A m \in Z \ {Root} : t[m].parent \in Z
  BY <1>4
<1>. QED
  BY <1>7, <1>8 DEF Climbed

\* There is a function that gives every node its path.
LEMMA UpsExist ==
    ASSUME NEW t, Tree(t)
    PROVE  \E f : Ups(t, DOMAIN t, f)
<1> DEFINE V == DOMAIN t
           Y == {X \in SUBSET V : Climbed(t, X)}
<1>0. Typed(t) /\ Linked(t) /\ Grounded(t)
  BY DEF Tree
<1>1. {} \in Y
  <2> DEFINE f == [n \in {} |-> <<>>]
  <2>1. f = [n \in {} |-> IF n = Root THEN <<>> ELSE Append(f[t[n].parent], t[n].name)]
    OBVIOUS
  <2> HIDE DEF f
  <2>. QED
    BY <2>1 DEF Climbed, Ups
<1>2. ASSUME NEW X \in Y, X # V PROVE \E n \in V \ X : X \union {n} \in Y
  <2>1. X \in SUBSET V /\ Climbed(t, X) /\ V \ X \in SUBSET DOMAIN t /\ V \ X # {}
    BY <1>2
  <2>2. PICK n \in V \ X : n # Root => t[n].parent \in X
    <3>1. CASE Root \in V \ X
      BY <3>1
    <3>2. CASE Root \notin V \ X
      <4>1. PICK n \in V \ X : t[n].parent \notin V \ X
        BY <1>0, <2>1, <3>2 DEF Grounded
      <4>2. n # Root => t[n].parent \in V
        BY <1>0, <4>1 DEF Linked
      <4>. QED
        BY <4>1, <4>2
    <3>. QED
      BY <3>1, <3>2
  <2>3. Climbed(t, X \union {n})
    BY <2>1, <2>2, ClimbStep
  <2>. QED
    BY <2>1, <2>2, <2>3
<1>3. IsFiniteSet(V) /\ Y \in SUBSET (SUBSET V)
  BY <1>0, Finite
<1> HIDE DEF Y
<1>4. V \in Y
  BY <1>1, <1>2, <1>3, GrowInduction
<1>. QED
  BY <1>4 DEF Y, Climbed

\* The path of a node, from that of its directory.
LEMMA PathRec ==
    ASSUME NEW t, Tree(t)
    PROVE  /\ TruePath(t, Root) = <<>>
           /\ \A n \in DOMAIN t \ {Root} :
                TruePath(t, n) = Append(TruePath(t, t[n].parent), t[n].name)
           /\ \A n \in DOMAIN t : TruePath(t, n) \in Seq(Component)
<1> DEFINE f == CHOOSE f : Ups(t, DOMAIN t, f)
<1>1. Ups(t, DOMAIN t, f)
  BY UpsExist
<1>2. \A n : TruePath(t, n) = f[n]
  BY TruePathIs
<1> HIDE DEF f
<1>3. \A n \in DOMAIN t : f[n] = IF n = Root THEN <<>> ELSE Append(f[t[n].parent], t[n].name)
  BY <1>1 DEF Ups
<1>4. Root \in DOMAIN t /\ \A n \in DOMAIN t \ {Root} : t[n].name \in Component
  BY DEF Tree, Typed
<1> DEFINE Y == {n \in DOMAIN t : f[n] \in Seq(Component)}
<1>5. Root \in Y
  <2>1. <<>> \in Seq(Component)
    BY EmptySeq
  <2>. QED
    BY <1>3, <1>4, <2>1
<1>6. ASSUME NEW n \in DOMAIN t \ {Root}, t[n].parent \in Y PROVE n \in Y
  <2>1. f[n] = Append(f[t[n].parent], t[n].name)
    BY <1>3
  <2>2. Append(f[t[n].parent], t[n].name) \in Seq(Component)
    BY <1>4, <1>6, AppendProperties
  <2>. QED
    BY <2>1, <2>2
<1> HIDE DEF Y
<1>7. DOMAIN t \subseteq Y
  BY <1>5, <1>6, DownInduction
<1>8. \A n \in DOMAIN t : TruePath(t, n) \in Seq(Component)
  BY <1>2, <1>7 DEF Y
<1>9. \A n \in DOMAIN t \ {Root} : TruePath(t, n) = Append(TruePath(t, t[n].parent), t[n].name)
  BY <1>2, <1>3
<1>. QED
  BY <1>2, <1>3, <1>4, <1>8, <1>9

\* What fs_abspath writes.
LEMMA Abspath ==
    ASSUME NEW t, Tree(t), NEW n \in DOMAIN t
    PROVE  fs_abspath(t, n) \in Seq(Component)
<1>1. PICK p \in Seq(Component) : p = TruePath(t, n)
  BY PathRec
<1>2. MaxDepth \in Nat
  BY RamfsAssumption, Zenon
<1> DEFINE from == Max({1, Len(p) - MaxDepth + 1})
<1>3. fs_abspath(t, n) = SubSeq(p, from, Len(p))
  BY <1>1 DEF fs_abspath
<1>4. from \in Int /\ from >= 1
  <2>1. Len(p) - MaxDepth + 1 \in Int
    BY <1>2
  <2>2. \E m \in {1, Len(p) - MaxDepth + 1} : \A k \in {1, Len(p) - MaxDepth + 1} : m >= k
    BY <2>1
  <2>3. from \in {1, Len(p) - MaxDepth + 1} /\ \A k \in {1, Len(p) - MaxDepth + 1} : from >= k
    BY <2>2, Zenon DEF Max
  <2> HIDE DEF from
  <2>. QED
    BY <2>1, <2>3
<1> HIDE DEF from
<1>5. \A i \in from .. Len(p) : p[i] \in Component
  <2>1. \A i \in from .. Len(p) : i \in 1 .. Len(p)
    BY <1>4
  <2>. QED
    BY <2>1, ElementOfSeq
<1>6. Len(p) \in Int
  OBVIOUS
<1>7. SubSeq(p, from, Len(p)) \in Seq(Component)
  BY <1>4, <1>5, <1>6, SubSeqProperties
<1>. QED
  BY <1>3, <1>7
-----------------------------------------------------------------------------
(* The snapshot.                                                           *)

\* What write_tree writes, node by node.
LEMMA SnapshotIs ==
    ASSUME NEW t, Tree(t), NEW s, s = Subtree(t, Root), NEW e, e = Snapshot(t)
    PROVE  /\ s \in Seq(DOMAIN t) /\ Len(s) >= 1
           /\ e \in Seq(Entry) /\ Len(e) = Len(s) - 1
           /\ \A i \in 1 .. Len(s) - 1 :
                e[i] = <<fs_abspath(t, s[i + 1]), t[s[i + 1]].type, t[s[i + 1]].data>>
<1>1. s \in Seq(DOMAIN t) /\ Len(s) >= 1 /\ Len(s) \in Nat
  BY SubtreePart, LenProperties DEF Part, Once, Tree, Typed
<1> DEFINE nodes == Tail(s)
<1>2. nodes = [i \in 1 .. Len(s) - 1 |-> s[i + 1]]
  <2>1. s # <<>>
    BY <1>1
  <2>2. Tail(s) \in Seq(DOMAIN t) /\ Len(Tail(s)) = Len(s) - 1
        /\ \A i \in 1 .. Len(Tail(s)) : Tail(s)[i] = s[i + 1]
    BY <1>1, <2>1, HeadTailProperties
  <2> HIDE DEF nodes
  <2>3. nodes \in Seq(DOMAIN t) /\ Len(nodes) = Len(s) - 1
        /\ \A i \in 1 .. Len(nodes) : nodes[i] = s[i + 1]
    BY <2>2 DEF nodes
  <2>4. nodes = [i \in 1 .. Len(nodes) |-> nodes[i]]
    BY <2>3
  <2>. QED
    BY <2>3, <2>4
<1>3. e = [i \in DOMAIN nodes |-> <<fs_abspath(t, nodes[i]), t[nodes[i]].type, t[nodes[i]].data>>]
  BY DEF Snapshot
<1> HIDE DEF nodes
<1>4. \A i \in 1 .. Len(s) - 1 : s[i + 1] \in DOMAIN t
  BY <1>1, ElementOfSeq
<1>5. /\ e = [i \in 1 .. Len(s) - 1 |-> e[i]]
      /\ \A i \in 1 .. Len(s) - 1 :
            e[i] = <<fs_abspath(t, s[i + 1]), t[s[i + 1]].type, t[s[i + 1]].data>>
  BY <1>2, <1>3
<1>6. ASSUME NEW i \in 1 .. Len(s) - 1 PROVE e[i] \in Entry
  <2>1. s[i + 1] \in DOMAIN t
    BY <1>4
  <2>2. NodeOK(t, s[i + 1]) /\ fs_abspath(t, s[i + 1]) \in Seq(Component)
    BY <2>1, NodeIs, Abspath DEF Tree
  <2>3. /\ t[s[i + 1]].type \in {"file", "dir"} /\ t[s[i + 1]].data \in Data
        /\ fs_abspath(t, s[i + 1]) \in Seq(Component)
    BY <2>2 DEF NodeOK
  <2>4. e[i] = <<fs_abspath(t, s[i + 1]), t[s[i + 1]].type, t[s[i + 1]].data>>
    BY <1>5
  <2>. QED
    BY <2>3, <2>4 DEF Entry
<1>7. Len(s) - 1 \in Nat
  BY <1>1
<1>8. e \in Seq(Entry) /\ Len(e) = Len(s) - 1
  BY <1>5, <1>6, <1>7
<1>. QED
  BY <1>1, <1>5, <1>8

\* A snapshot has room in a tree.
LEMMA SnapshotFits ==
    ASSUME NEW t, Tree(t)
    PROVE  Snapshot(t) \in Seq(Entry) /\ Len(Snapshot(t)) < MaxNodes
<1>1. PICK s : s = Subtree(t, Root)
  OBVIOUS
<1>2. PICK e : e = Snapshot(t)
  OBVIOUS
<1>3. e \in Seq(Entry) /\ Len(e) = Len(s) - 1
  BY <1>1, <1>2, SnapshotIs
<1>4. Len(s) = Cardinality(DOMAIN t)
  BY <1>1, WholeTree
<1>5. Cardinality(DOMAIN t) \in Nat /\ Cardinality(DOMAIN t) <= MaxNodes /\ MaxNodes \in Nat
  BY Finite, Constants DEF Tree
<1>. QED
  BY <1>2, <1>3, <1>4, <1>5
-----------------------------------------------------------------------------
(* Removing a node.                                                        *)

\* r is s without its place a.
Without(s, a, r) ==
    /\ DOMAIN r = 1 .. Len(s) - 1
    /\ \A i \in DOMAIN r : r[i] = IF i < a THEN s[i] ELSE s[i + 1]

\* What RemoveFirst takes out.
LEMMA RemoveFirstIs ==
    ASSUME NEW V, NEW s \in Seq(V), NEW a \in 1 .. Len(s),
           \A i, j \in 1 .. Len(s) : s[i] = s[j] => i = j
    PROVE  RemoveFirst(s, s[a]) \in Seq(V) /\ Without(s, a, RemoveFirst(s, s[a]))
<1> DEFINE I == {i \in 1 .. Len(s) : s[i] = s[a]}
           r == RemoveAt(s, a)
<1>0. Len(s) \in Nat /\ a \in Nat
  OBVIOUS
<1>1. I = {a}
  OBVIOUS
<1>2. Min(I) = a
  <2>1. I \in SUBSET Nat /\ I # {}
    BY <1>0, <1>1
  <2>2. Min(I) \in I
    BY <2>1, MinIs
  <2> HIDE DEF I
  <2>. QED
    BY <1>1, <2>2
<1>3. SelectInSeq(s, LAMBDA v : v = s[a]) = a
  <2>1. I # {}
    BY <1>1
  <2>. QED
    BY <1>2, <2>1, Zenon DEF SelectInSeq
<1>4. RemoveFirst(s, s[a]) = r
  BY <1>3, Zenon DEF RemoveFirst
<1> DEFINE x == SubSeq(s, 1, a - 1)
           y == SubSeq(s, a + 1, Len(s))
<1>5. x \in Seq(V) /\ Len(x) = a - 1 /\ \A i \in 1 .. a - 1 : x[i] = s[i]
  <2>1. 1 \in Int /\ a - 1 \in Int /\ \A i \in 1 .. a - 1 : s[i] \in V
    BY <1>0, ElementOfSeq
  <2>2. x \in Seq(V) /\ Len(x) = (IF 1 <= a - 1 THEN a - 1 - 1 + 1 ELSE 0)
    BY <2>1, SubSeqProperties
  <2>3. \A i \in 1 .. a - 1 : x[i] = s[i]
    BY <1>0
  <2>. QED
    BY <1>0, <2>2, <2>3
<1>6. y \in Seq(V) /\ Len(y) = Len(s) - a /\ \A i \in 1 .. Len(s) - a : y[i] = s[a + i]
  <2>1. a + 1 \in Int /\ Len(s) \in Int /\ \A i \in a + 1 .. Len(s) : s[i] \in V
    BY <1>0, ElementOfSeq
  <2>2. y \in Seq(V) /\ Len(y) = (IF a + 1 <= Len(s) THEN Len(s) - (a + 1) + 1 ELSE 0)
    BY <2>1, SubSeqProperties
  <2>3. \A i \in 1 .. Len(s) - a : y[i] = s[a + i]
    BY <1>0
  <2>. QED
    BY <1>0, <2>2, <2>3
<1>7. r = x \o y
  BY DEF RemoveAt
<1> HIDE DEF x, y, r
<1>8. r \in Seq(V) /\ Len(r) = Len(s) - 1 /\ Behind(x, y, r)
  <2>0. x \in Seq(V) /\ y \in Seq(V)
    BY <1>5, <1>6
  <2>1. r \in Seq(V) /\ Len(r) = Len(x) + Len(y)
    BY <1>7, <2>0, ConcatProperties
  <2>2. Behind(x, y, r)
    BY <1>7, <2>0, Places
  <2>. QED
    BY <1>0, <1>5, <1>6, <2>1, <2>2
<1>9. Without(s, a, r)
  <2>1. DOMAIN r = 1 .. Len(s) - 1
    BY <1>0, <1>8
  <2>2. ASSUME NEW i \in DOMAIN r PROVE r[i] = IF i < a THEN s[i] ELSE s[i + 1]
    <3>1. CASE i \in DOMAIN x
      BY <1>0, <1>5, <1>8, <3>1 DEF Behind
    <3>2. ASSUME NEW k \in DOMAIN y, i = Len(x) + k PROVE r[i] = IF i < a THEN s[i] ELSE s[i + 1]
      <4>1. k \in 1 .. Len(s) - a /\ k \in Nat /\ i = a - 1 + k
        BY <1>0, <1>5, <1>6, <1>8, <3>2 DEF Behind
      <4>2. r[i] = y[k]
        BY <1>8, <3>2 DEF Behind
      <4>3. ~ (i < a) /\ i + 1 = a + k
        BY <1>0, <4>1
      <4>. QED
        BY <1>6, <4>1, <4>2, <4>3
    <3>. QED
      BY <1>8, <3>1, <3>2 DEF Behind
  <2>. QED
    BY <2>1, <2>2 DEF Without
<1>. QED
  BY <1>4, <1>8, <1>9

\* S is a node that is not the root, and all below it.
Cut(t, node, S) ==
    /\ S \subseteq DOMAIN t /\ node \in S /\ Root \notin S
    /\ t[node].parent \in DOMAIN t \ S
    /\ \A n \in S : \A i \in DOMAIN t[n].kids : t[n].kids[i] \in S
    /\ \A n \in S \ {node} : t[n].parent \in S

\* What Unlink frees is.
LEMMA SubtreeCut ==
    ASSUME NEW t, Tree(t), NEW node \in DOMAIN t \ {Root}
    PROVE  Cut(t, node, Range(Subtree(t, node)))
<1>1. PICK s : s = Subtree(t, node)
  OBVIOUS
<1>2. Part(t, node, Len(t[node].kids), s)
  BY <1>1, SubtreePart
<1>3. PICK S : S = Range(s)
  OBVIOUS
<1>4. s \in Seq(DOMAIN t) /\ DOMAIN s = 1 .. Len(s) /\ 1 \in DOMAIN s /\ s[1] = node
      /\ \A i \in DOMAIN s : s[i] \in DOMAIN t
  BY <1>2, LenProperties, ElementOfSeq DEF Part, Once
<1>5. S = {s[i] : i \in DOMAIN s}
  BY <1>3 DEF Range
<1>6. S \in SUBSET DOMAIN t /\ node \in S
  BY <1>4, <1>5
<1>7. ASSUME NEW n \in S PROVE \A i \in DOMAIN t[n].kids : t[n].kids[i] \in S
  <2>1. PICK k \in DOMAIN s : n = s[k]
    BY <1>5
  <2>2. n \in DOMAIN t
    BY <1>6
  <2>3. DOMAIN t[n].kids = 1 .. Len(t[n].kids)
    BY <2>2, KidsAre DEF Tree
  <2>4. \A i \in DOMAIN t[n].kids : k = 1 => i <= Len(t[node].kids)
    BY <1>4, <2>1, <2>3
  <2>. QED
    BY <1>2, <1>5, <2>1, <2>4 DEF Part, Closed
<1>8. ASSUME NEW n \in S \ {node} PROVE n # Root /\ t[n].parent \in S
  <2>1. PICK k \in DOMAIN s \ {1} : n = s[k]
    BY <1>4, <1>5
  <2>. QED
    BY <1>2, <1>5, <2>1 DEF Part, Once
<1>9. Root \notin S
  BY <1>8
<1>10. t[node].parent \in DOMAIN t \ S
  <2>1. PICK n \in S : t[n].parent \notin S
    BY <1>6, <1>9 DEF Tree, Grounded
  <2>2. n = node
    BY <1>8, <2>1
  <2>. QED
    BY <2>1, <2>2 DEF Tree, Linked
<1>11. Cut(t, node, S)
  BY <1>6, <1>7, <1>8, <1>9, <1>10 DEF Cut
<1>. QED
  BY <1>1, <1>3, <1>11

\* u is t without the nodes in S, of which node is the first and the child of
\* p at place a.
Unlinked(t, node, S, p, a, u) ==
    /\ p = t[node].parent /\ a \in DOMAIN t[p].kids /\ t[p].kids[a] = node
    /\ DOMAIN u = DOMAIN t \ S /\ u \in [DOMAIN u -> File \union Dir]
    /\ \A n \in DOMAIN u : /\ u[n].parent = t[n].parent /\ u[n].name = t[n].name
                           /\ u[n].type = t[n].type /\ u[n].data = t[n].data
                           /\ n # p => u[n].kids = t[n].kids
    /\ Without(t[p].kids, a, u[p].kids)

\* What fs_remove leaves.
LEMMA UnlinkIs ==
    ASSUME NEW t, Tree(t), NEW node \in DOMAIN t \ {Root}
    PROVE  \E p, a : Unlinked(t, node, Range(Subtree(t, node)), p, a, Unlink(t, node))
<1>1. PICK S : S = Range(Subtree(t, node))
  OBVIOUS
<1>2. Cut(t, node, S)
  BY <1>1, SubtreeCut
<1>3. PICK p : p = t[node].parent
  OBVIOUS
<1>4. p \in DOMAIN t \ S
  BY <1>2, <1>3 DEF Cut
<1>5. PICK a \in DOMAIN t[p].kids : t[p].kids[a] = node
  BY <1>3 DEF Tree, Linked
<1>6. PICK u : u = Unlink(t, node)
  OBVIOUS
<1>7. u = [n \in DOMAIN t \ S |->
             IF n = p THEN [t[n] EXCEPT !.kids = RemoveFirst(@, node)] ELSE t[n]]
  BY <1>1, <1>3, <1>6 DEF Unlink
<1>8. PICK kids : kids = t[p].kids
  OBVIOUS
<1>9. kids \in Seq(Ids) /\ DOMAIN kids = 1 .. Len(kids) /\ t[p].kids # <<>>
  <2>1. NodeOK(t, p)
    BY <1>4, NodeIs DEF Tree
  <2>2. t[p].kids # <<>>
    BY <1>5
  <2>. QED
    BY <1>8, <2>1, <2>2 DEF NodeOK
<1>10. t[p] \in Dir
  BY <1>4, <1>9, NodeIs DEF NodeOK, Tree
<1>11. RemoveFirst(kids, node) \in Seq(Ids) /\ Without(kids, a, RemoveFirst(kids, node))
  <2>1. \A i, j \in 1 .. Len(kids) : kids[i] = kids[j] => i = j
    BY <1>4, <1>8, <1>9 DEF Tree, Apart
  <2>2. a \in 1 .. Len(kids) /\ kids[a] = node
    BY <1>5, <1>8, <1>9
  <2>. QED
    BY <1>9, <2>1, <2>2, RemoveFirstIs
<1> DEFINE r == RemoveFirst(kids, node)
<1> HIDE DEF r
<1>12. u[p] = [t[p] EXCEPT !.kids = r] /\ \A n \in DOMAIN u \ {p} : u[n] = t[n]
  BY <1>4, <1>7, <1>8 DEF r
<1>13. /\ u[p].kids = r /\ u[p].parent = t[p].parent /\ u[p].name = t[p].name
       /\ u[p].type = t[p].type /\ u[p].data = t[p].data /\ u[p] \in Dir
  BY <1>10, <1>11, <1>12 DEF Dir, r
<1>14. DOMAIN u = DOMAIN t \ S /\ u = [n \in DOMAIN u |-> u[n]]
  BY <1>7
<1>15. u \in [DOMAIN u -> File \union Dir]
  BY <1>12, <1>13, <1>14 DEF Tree, Typed
<1>16. Unlinked(t, node, S, p, a, u)
  BY <1>3, <1>5, <1>8, <1>11, <1>12, <1>13, <1>14, <1>15 DEF Unlinked, r
<1>. QED
  BY <1>1, <1>6, <1>16

\* Removing a node and all below it makes a tree of a tree.
LEMMA UnlinkKeeps ==
    ASSUME NEW t, Tree(t), NEW node \in DOMAIN t \ {Root}
    PROVE  Tree(Unlink(t, node))
<1>1. PICK S : S = Range(Subtree(t, node))
  OBVIOUS
<1>2. PICK u : u = Unlink(t, node)
  OBVIOUS
<1>3. PICK p, a : Unlinked(t, node, S, p, a, u)
  BY <1>1, <1>2, UnlinkIs
<1>4. /\ S \subseteq DOMAIN t /\ node \in S /\ Root \notin S /\ p \in DOMAIN t \ S
      /\ \A n \in S \ {node} : t[n].parent \in S
  BY <1>1, <1>3, SubtreeCut DEF Cut, Unlinked
<1>5. /\ a \in DOMAIN t[p].kids /\ t[p].kids[a] = node
      /\ DOMAIN u = DOMAIN t \ S /\ u \in [DOMAIN u -> File \union Dir]
      /\ \A n \in DOMAIN u : /\ u[n].parent = t[n].parent /\ u[n].name = t[n].name
                             /\ u[n].type = t[n].type
                             /\ n # p => u[n].kids = t[n].kids
      /\ DOMAIN u[p].kids = 1 .. Len(t[p].kids) - 1
      /\ \A i \in DOMAIN u[p].kids : u[p].kids[i] = IF i < a THEN t[p].kids[i] ELSE t[p].kids[i + 1]
  BY <1>3 DEF Unlinked, Without
<1>6. DOMAIN t[p].kids = 1 .. Len(t[p].kids) /\ Len(t[p].kids) \in Nat
  BY <1>4, KidsAre DEF Tree
<1>7. \A n \in DOMAIN t : \A i \in DOMAIN t[n].kids :
        t[n].kids[i] \in DOMAIN t \ {Root} /\ t[t[n].kids[i]].parent = n
  BY DEF Tree, Linked
\* The place a child had before.
<1> DEFINE Was(n, i) == IF n = p /\ i >= a THEN i + 1 ELSE i
<1>8. ASSUME NEW n \in DOMAIN u, NEW i \in DOMAIN u[n].kids
      PROVE  /\ Was(n, i) \in DOMAIN t[n].kids /\ u[n].kids[i] = t[n].kids[Was(n, i)]
             /\ u[n].kids[i] # node
  <2>1. CASE n = p
    <3>1. i \in Nat /\ a \in Nat /\ i + 1 \in DOMAIN t[p].kids /\ i \in DOMAIN t[p].kids
      BY <1>5, <1>6, <2>1
    <3>2. Was(n, i) \in DOMAIN t[n].kids /\ u[n].kids[i] = t[n].kids[Was(n, i)] /\ Was(n, i) # a
      BY <1>5, <2>1, <3>1
    <3> HIDE DEF Was
    <3>3. t[p].kids[Was(n, i)] # t[p].kids[a]
      BY <1>4, <1>5, <2>1, <3>2 DEF Tree, Apart
    <3>. QED
      BY <1>5, <2>1, <3>2, <3>3
  <2>2. CASE n # p
    <3>1. Was(n, i) = i /\ i \in DOMAIN t[n].kids /\ u[n].kids[i] = t[n].kids[i] /\ n \in DOMAIN t
      BY <1>5, <2>2
    <3>2. t[n].kids[i] # node
      BY <1>3, <1>7, <2>2, <3>1 DEF Unlinked
    <3>. QED
      BY <3>1, <3>2
  <2>. QED
    BY <2>1, <2>2
<1>9. ASSUME NEW n \in DOMAIN u, NEW i \in DOMAIN u[n].kids, NEW j \in DOMAIN u[n].kids,
             Was(n, i) = Was(n, j)
      PROVE  i = j
  <2>1. CASE n = p
    BY <1>5, <1>6, <1>9, <2>1
  <2>. QED
    BY <1>9, <2>1
<1>10. ASSUME NEW n \in DOMAIN u, NEW k \in DOMAIN t[n].kids, t[n].kids[k] # node
       PROVE  \E i \in DOMAIN u[n].kids : u[n].kids[i] = t[n].kids[k]
  <2>1. CASE n = p
    <3>1. k # a /\ k \in Nat /\ a \in Nat /\ k \in 1 .. Len(t[p].kids) /\ a \in 1 .. Len(t[p].kids)
      BY <1>5, <1>6, <1>10, <2>1
    <3>2. CASE k < a
      <4>1. k \in DOMAIN u[p].kids
        BY <1>5, <1>6, <3>1, <3>2
      <4>. QED
        BY <1>5, <2>1, <3>2, <4>1
    <3>3. CASE k > a
      <4>1. k - 1 \in DOMAIN u[p].kids /\ ~ (k - 1 < a) /\ (k - 1) + 1 = k
        BY <1>5, <1>6, <3>1, <3>3
      <4>. QED
        BY <1>5, <2>1, <4>1
    <3>. QED
      BY <3>1, <3>2, <3>3
  <2>. QED
    BY <1>5, <2>1
<1> HIDE DEF Was
<1>11. \A n \in DOMAIN u : \A i \in DOMAIN u[n].kids : u[n].kids[i] \in DOMAIN u
  <2> SUFFICES ASSUME NEW n \in DOMAIN u, NEW i \in DOMAIN u[n].kids PROVE u[n].kids[i] \in DOMAIN u
    OBVIOUS
  <2>1. PICK x : x = u[n].kids[i]
    OBVIOUS
  <2>2. x \in DOMAIN t /\ t[x].parent = n /\ x # node
    BY <1>5, <1>7, <1>8, <2>1
  <2>. QED
    BY <1>4, <1>5, <2>1, <2>2
<1>12. Typed(u)
  BY <1>4, <1>5 DEF Tree, Typed
<1>13. Linked(u)
  <2>1. u[Root].type = "dir"
    BY <1>4, <1>5 DEF Tree, Linked, Typed
  <2>2. \A n \in DOMAIN u : \A i \in DOMAIN u[n].kids :
          u[n].kids[i] \in DOMAIN u \ {Root} /\ u[u[n].kids[i]].parent = n
    BY <1>5, <1>7, <1>8, <1>11
  <2>3. ASSUME NEW n \in DOMAIN u \ {Root}
        PROVE  /\ u[n].parent \in DOMAIN u
               /\ \E i \in DOMAIN u[u[n].parent].kids : u[u[n].parent].kids[i] = n
    <3>1. n \in DOMAIN t /\ n # node /\ u[n].parent = t[n].parent
      BY <1>4, <1>5
    <3>2. PICK q \in DOMAIN t : q = t[n].parent /\ \E k \in DOMAIN t[q].kids : t[q].kids[k] = n
      BY <3>1 DEF Tree, Linked
    <3>3. q \in DOMAIN u
      <4>1. \A x \in S : \A k \in DOMAIN t[x].kids : t[x].kids[k] \in S
        BY <1>1, SubtreeCut DEF Cut
      <4>. QED
        BY <1>5, <3>2, <4>1
    <3>. QED
      BY <1>10, <3>1, <3>2, <3>3
  <2>. QED
    BY <2>1, <2>2, <2>3 DEF Linked
<1>14. Apart(u)
  <2> SUFFICES ASSUME NEW n \in DOMAIN u, NEW i \in DOMAIN u[n].kids, NEW j \in DOMAIN u[n].kids,
                      u[u[n].kids[i]].name = u[u[n].kids[j]].name
               PROVE  i = j
    BY DEF Apart
  <2>1. t[u[n].kids[i]].name = t[u[n].kids[j]].name /\ n \in DOMAIN t
    BY <1>5, <1>11
  <2>2. Was(n, i) = Was(n, j)
    BY <1>8, <2>1 DEF Tree, Apart
  <2>. QED
    BY <1>9, <2>2
<1>15. Grounded(u)
  <2> SUFFICES ASSUME NEW X \in SUBSET DOMAIN u, X # {}
               PROVE  /\ Root \notin X => \E n \in X : u[n].parent \notin X
                      /\ \E n \in X : \A i \in DOMAIN u[n].kids : u[n].kids[i] \notin X
    BY DEF Grounded
  <2>1. X \in SUBSET DOMAIN t
    BY <1>5
  <2>2. Root \notin X => \E n \in X : u[n].parent \notin X
    BY <1>5, <2>1 DEF Tree, Grounded
  <2>3. PICK n \in X : \A i \in DOMAIN t[n].kids : t[n].kids[i] \notin X
    BY <2>1 DEF Tree, Grounded
  <2>4. \A i \in DOMAIN u[n].kids : u[n].kids[i] \notin X
    BY <1>8, <2>3
  <2>. QED
    BY <2>2, <2>4
<1>16. Tree(u)
  BY <1>12, <1>13, <1>14, <1>15 DEF Tree
<1>. QED
  BY <1>2, <1>16
-----------------------------------------------------------------------------
(* The commands.                                                           *)

DiskOK == disk \in Seq(Entry) /\ Len(disk) < MaxNodes

\* The inductive invariant: the tree is one, and the snapshot can be read.
Inv ==
    /\ Tree(fs)
    /\ current_dir \in Ids /\ user \in Users /\ dirty \in BOOLEAN
    /\ DiskOK

\* What a path that is typed leads to.
LEMMA Resolves ==
    ASSUME Tree(fs), Prompt, NEW path \in Path
    PROVE  /\ Start(path) \in DOMAIN fs /\ path.comps \in Seq(Component)
           /\ fs_resolve(path) \in DOMAIN fs \union {NULL}
<1>1. Typed(fs) /\ Linked(fs) /\ Root \in DOMAIN fs /\ current_dir \in DOMAIN fs
  BY DEF Tree, Typed, Prompt
<1>2. Start(path) \in DOMAIN fs
  BY <1>1 DEF Start
<1>3. path.comps \in Seq(Component)
  <2>1. path.comps \in SeqOf(Component, MaxPath)
    BY DEF Path
  <2>2. PICK m \in 0 .. MaxPath : path.comps \in [1 .. m -> Component]
    BY <2>1, Zenon DEF SeqOf
  <2>3. m \in Nat
    BY <2>2
  <2>. QED
    BY <2>2, <2>3
<1>4. WalkFrom(fs, Start(path), path.comps) \in DOMAIN fs \union {NULL}
  BY <1>1, <1>2, <1>3, WalkStays
<1>. QED
  BY <1>2, <1>3, <1>4 DEF fs_resolve

\* The tree behind a command is the one that was made, and what is saved is it.
LEMMA FinishKeeps ==
    ASSUME DiskOK, NEW t, Tree(t), NEW dirtied \in BOOLEAN, Finish(t, dirtied)
    PROVE  Tree(fs') /\ dirty' \in BOOLEAN /\ DiskOK'
<1>1. fs' = t /\ dirty' \in BOOLEAN /\ (disk' = disk \/ disk' = Snapshot(t))
  BY DEF Finish
<1>2. Tree(fs')
  BY <1>1
<1>3. Snapshot(t) \in Seq(Entry) /\ Len(Snapshot(t)) < MaxNodes
  BY SnapshotFits
<1>4. disk' \in Seq(Entry) /\ Len(disk') < MaxNodes
  BY <1>1, <1>3 DEF DiskOK
<1>. QED
  BY <1>1, <1>2, <1>4 DEF DiskOK

\* A node made where the user may make one.
LEMMA CreateKeeps ==
    ASSUME Tree(fs), Prompt, NEW path \in Creatable, NEW type \in {"dir", "file"}, NEW t,
           t = Create(fs, Start(path), path.comps, type)
    PROVE  /\ Tree(t)
           /\ Min(Ids \ DOMAIN fs) \in DOMAIN t /\ t[Min(Ids \ DOMAIN fs)].type = type
<1>1. path \in Path /\ CanCreate(fs, Start(path), path.comps)
  BY DEF Creatable
<1>2. Start(path) \in DOMAIN fs /\ path.comps \in Seq(Component)
  BY <1>1, Resolves
<1>3. Typed(fs) /\ Linked(fs)
  BY DEF Tree
<1>4. PICK p, new : new = Min(Ids \ DOMAIN fs) /\ Made(fs, p, Last(path.comps), type, new, t)
  BY <1>1, <1>2, <1>3, CreateMakes
<1>5. Tree(t)
  BY <1>4, MadeKeeps
<1>6. new \in DOMAIN t /\ t[new].type = type
  BY <1>4 DEF Made
<1>. QED
  BY <1>4, <1>5, <1>6

\* A node where somebody's home should be.
LEMMA HomeStays ==
    ASSUME NEW t, Tree(t), NEW u \in Users
    PROVE  WalkFrom(t, Root, Home[u]) \in DOMAIN t \union {NULL}
<1>1. Home \in [Users -> Seq(STRING)]
  BY RamfsAssumption, Zenon
<1>2. Home[u] \in Seq(STRING)
  BY <1>1
<1>. QED
  BY <1>2, WalkStays DEF Tree, Typed

\* The tree at the start, and its snapshot.
LEMMA InitInv == Init => Inv
<1> SUFFICES ASSUME Init PROVE Inv
  OBVIOUS
<1> DEFINE es == [i \in DOMAIN Skeleton |-> <<Skeleton[i], "dir", Empty>>]
<1>1. es \in Seq(Entry)
  <2>1. PICK N : N = Seq(Names)
    OBVIOUS
  <2>2. Skeleton \in Seq(N)
    BY <2>1, RamfsAssumption, Zenon
  <2>3. DOMAIN Skeleton = 1 .. Len(Skeleton) /\ Len(Skeleton) \in Nat
        /\ \A i \in 1 .. Len(Skeleton) : Skeleton[i] \in N
    BY <2>2, LenProperties, ElementOfSeq
  <2>4. \A x \in N : x \in Seq(Component)
    <3> SUFFICES ASSUME NEW x \in Seq(Names) PROVE x \in Seq(Component)
      BY <2>1
    <3>1. Names \subseteq Component
      BY Constants
    <3>. QED
      BY <3>1
  <2>5. \A i \in 1 .. Len(Skeleton) : <<Skeleton[i], "dir", Empty>> \in Entry
    BY <2>3, <2>4, Constants DEF Entry
  <2>. QED
    BY <2>3, <2>5
<1>2. /\ fs = Restore(es) /\ disk = Snapshot(fs)
      /\ current_dir = Root /\ user = "root" /\ dirty = FALSE
  BY DEF Init
<1> HIDE DEF es
<1>3. Tree(fs)
  BY <1>1, <1>2, RestoreTree
<1>4. DiskOK
  BY <1>2, <1>3, SnapshotFits DEF DiskOK
<1>5. "root" \in Users
  BY RamfsAssumption, Zenon
<1>. QED
  BY <1>2, <1>3, <1>4, <1>5, Constants DEF Inv

\* Commands that leave the tree as it is.
LEMMA OtherInv ==
    ASSUME Inv, Other \/ Cd \/ Su
    PROVE  Inv'
<1>0. Tree(fs) /\ current_dir \in Ids /\ user \in Users /\ dirty \in BOOLEAN /\ DiskOK
  BY DEF Inv
<1>1. Prompt /\ Finish(fs, dirty)
  BY DEF Other, Cd, Su
<1>2. Tree(fs') /\ dirty' \in BOOLEAN /\ DiskOK'
  BY <1>0, <1>1, FinishKeeps
<1>3. Root \in DOMAIN fs /\ DOMAIN fs \subseteq Ids
  BY <1>0 DEF Tree, Typed
<1>4. \A path \in Path : Directory(path) \in DOMAIN fs \union {NULL}
  <2> SUFFICES ASSUME NEW path \in Path PROVE Directory(path) \in DOMAIN fs \union {NULL}
    OBVIOUS
  <2>1. PICK node \in DOMAIN fs \union {NULL} : node = fs_resolve(path)
    BY <1>0, <1>1, Resolves
  <2>. QED
    BY <2>1 DEF Directory
<1>5. \A u \in Users : WalkFrom(fs, Root, Home[u]) \in DOMAIN fs \union {NULL}
  BY <1>0, HomeStays
<1>6. current_dir' \in Ids /\ user' \in Users
  <2>1. CASE Other
    BY <1>0, <2>1 DEF Other
  <2>2. CASE Cd
    <3>1. user' = user
      BY <2>2 DEF Cd
    <3>2. CASE current_dir' \in {Directory(path) : path \in Path} \ {NULL}
      BY <1>0, <1>3, <1>4, <3>1, <3>2
    <3>3. ASSUME NEW home, home = WalkFrom(fs, Root, Home[user]),
                 current_dir' = IF home = NULL THEN Root
                                ELSE IF fs[home].type = "dir" THEN home ELSE current_dir
          PROVE  current_dir' \in Ids
      <4>1. home \in DOMAIN fs \union {NULL}
        BY <1>0, <1>5, <3>3
      <4>. QED
        BY <1>0, <1>3, <3>3, <4>1
    <3>. QED
      BY <1>0, <2>2, <3>1, <3>2, <3>3 DEF Cd
  <2>3. CASE Su
    <3> DEFINE At(u) == [abs |-> TRUE, comps |-> Home[u]]
    <3>1. PICK u \in Users :
            /\ user' = u
            /\ current_dir' \in {Directory(At(u)), current_dir}
            /\ Directory(At(u)) = NULL => current_dir' = current_dir
      BY <2>3 DEF Su
    <3>2. fs_resolve(At(u)) = WalkFrom(fs, Root, Home[u])
      BY DEF fs_resolve, Start
    <3>3. Directory(At(u)) \in DOMAIN fs \union {NULL}
      <4>1. PICK node \in DOMAIN fs \union {NULL} : node = fs_resolve(At(u))
        BY <1>5, <3>2
      <4>. QED
        BY <4>1 DEF Directory
    <3>. QED
      BY <1>0, <1>3, <3>1, <3>3
  <2>. QED
    BY <2>1, <2>2, <2>3
<1>. QED
  BY <1>2, <1>6 DEF Inv

\* mkdir and touch.
LEMMA MakeInv ==
    ASSUME Inv, Mkdir \/ Touch
    PROVE  Inv'
<1>0. Tree(fs) /\ current_dir \in Ids /\ user \in Users /\ DiskOK
  BY DEF Inv
<1>1. Prompt /\ current_dir' = current_dir /\ user' = user
  BY DEF Mkdir, Touch
<1>2. PICK type \in {"dir", "file"}, path \in Creatable :
        Finish(Create(fs, Start(path), path.comps, type), TRUE)
  BY DEF Mkdir, Touch
<1>3. PICK t : t = Create(fs, Start(path), path.comps, type)
  OBVIOUS
<1>4. Tree(t)
  BY <1>0, <1>1, <1>3, CreateKeeps
<1>5. Tree(fs') /\ dirty' \in BOOLEAN /\ DiskOK'
  BY <1>0, <1>2, <1>3, <1>4, FinishKeeps
<1>. QED
  BY <1>0, <1>1, <1>5 DEF Inv

\* Writing into a file, or failing to.
LEMMA WrittenKeeps ==
    ASSUME DiskOK, dirty \in BOOLEAN, NEW t, Tree(t), NEW file \in DOMAIN t, t[file].type = "file",
           NEW data \in Data, Written(t, file, data)
    PROVE  Tree(fs') /\ dirty' \in BOOLEAN /\ DiskOK'
<1>1. CASE Finish([t EXCEPT ![file].data = data], TRUE)
  <2>1. Tree([t EXCEPT ![file].data = data])
    BY WriteKeeps
  <2>2. PICK w : w = [t EXCEPT ![file].data = data]
    OBVIOUS
  <2>. QED
    BY <1>1, <2>1, <2>2, FinishKeeps
<1>2. CASE Finish(t, dirty)
  BY <1>2, FinishKeeps
<1>. QED
  BY <1>1, <1>2 DEF Written

\* echo into a file that is there, or a new one.
LEMMA EchoInv ==
    ASSUME Inv, Echo
    PROVE  Inv'
<1>0. Tree(fs) /\ current_dir \in Ids /\ user \in Users /\ dirty \in BOOLEAN /\ DiskOK
  BY DEF Inv
<1>1. Prompt /\ current_dir' = current_dir /\ user' = user
  BY DEF Echo
<1>2. PICK data \in Data \ {Empty} :
        \/ \E path \in Path : /\ fs_resolve(path) # NULL /\ fs[fs_resolve(path)].type = "file"
                              /\ Written(fs, fs_resolve(path), data)
        \/ \E path \in Creatable : Written(Create(fs, Start(path), path.comps, "file"),
                                           Min(Ids \ DOMAIN fs), data)
  BY DEF Echo
<1>3. ASSUME NEW path \in Path, fs_resolve(path) # NULL, fs[fs_resolve(path)].type = "file",
             Written(fs, fs_resolve(path), data)
      PROVE  Tree(fs') /\ dirty' \in BOOLEAN /\ DiskOK'
  <2>1. PICK file \in DOMAIN fs : file = fs_resolve(path)
    BY <1>0, <1>1, <1>3, Resolves
  <2>. QED
    BY <1>0, <1>3, <2>1, WrittenKeeps
<1>4. ASSUME NEW path \in Creatable,
             Written(Create(fs, Start(path), path.comps, "file"), Min(Ids \ DOMAIN fs), data)
      PROVE  Tree(fs') /\ dirty' \in BOOLEAN /\ DiskOK'
  <2>1. PICK t : t = Create(fs, Start(path), path.comps, "file")
    OBVIOUS
  <2>2. PICK file : file = Min(Ids \ DOMAIN fs)
    OBVIOUS
  <2>3. Tree(t) /\ file \in DOMAIN t /\ t[file].type = "file"
    BY <1>0, <1>1, <2>1, <2>2, CreateKeeps
  <2>. QED
    BY <1>0, <1>4, <2>1, <2>2, <2>3, WrittenKeeps
<1>5. Tree(fs') /\ dirty' \in BOOLEAN /\ DiskOK'
  BY <1>2, <1>3, <1>4
<1>. QED
  BY <1>0, <1>1, <1>5 DEF Inv

\* rm.
LEMMA RmInv ==
    ASSUME Inv, Rm
    PROVE  Inv'
<1>0. Tree(fs) /\ current_dir \in Ids /\ user \in Users /\ DiskOK
  BY DEF Inv
<1>1. Prompt /\ current_dir' = current_dir /\ user' = user
  BY DEF Rm
<1>2. PICK node \in Removable : Finish(Unlink(fs, node), TRUE)
  BY DEF Rm
<1>3. node \in DOMAIN fs \ {Root}
  <2>1. PICK path \in Path : node = fs_resolve(path) /\ node # NULL /\ node # Root
    BY DEF Removable
  <2>. QED
    BY <1>0, <1>1, <2>1, Resolves
<1>4. PICK t : t = Unlink(fs, node)
  OBVIOUS
<1>5. Tree(t)
  BY <1>0, <1>3, <1>4, UnlinkKeeps
<1>6. Tree(fs') /\ dirty' \in BOOLEAN /\ DiskOK'
  BY <1>0, <1>2, <1>4, <1>5, FinishKeeps
<1>. QED
  BY <1>0, <1>1, <1>6 DEF Inv

\* The mount at boot, and a login.
LEMMA RestartInv ==
    ASSUME Inv, Restart
    PROVE  Inv'
<1>1. fs' = Restore(disk) /\ disk' = disk /\ dirty' = FALSE
  BY DEF Restart
<1>2. PICK t : t = Restore(disk)
  OBVIOUS
<1>3. Tree(t)
  BY <1>2, RestoreTree DEF Inv, DiskOK
<1>4. Root \in Ids /\ DOMAIN t \subseteq Ids
  BY <1>3, Constants DEF Tree, Typed
<1>5. PICK u \in Users : user' = u /\ current_dir' \in {Root, WalkFrom(t, Root, Home[u])} \ {NULL}
  BY <1>1, <1>2, Constants DEF Restart
<1>6. WalkFrom(t, Root, Home[u]) \in DOMAIN t \union {NULL}
  BY <1>3, HomeStays
<1>7. current_dir' \in Ids
  BY <1>4, <1>5, <1>6
<1>. QED
  BY <1>1, <1>2, <1>3, <1>5, <1>7 DEF Inv, DiskOK

\* No step leads out of the invariant.
LEMMA NextInv == Inv /\ [Next]_vars => Inv'
<1> SUFFICES ASSUME Inv, [Next]_vars PROVE Inv'
  OBVIOUS
<1>1. CASE Other \/ Cd \/ Su
  BY <1>1, OtherInv
<1>2. CASE Mkdir \/ Touch
  BY <1>2, MakeInv
<1>3. CASE Echo
  BY <1>3, EchoInv
<1>4. CASE Rm
  BY <1>4, RmInv
<1>5. CASE Restart
  BY <1>5, RestartInv
<1>6. CASE UNCHANGED vars
  BY <1>6 DEF vars, Inv, DiskOK
<1>. QED
  BY <1>1, <1>2, <1>3, <1>4, <1>5, <1>6 DEF Next

\* The invariant holds in every state.
LEMMA AlwaysInv == Spec => []Inv
BY InitInv, NextInv, PTL DEF Spec

\* Every node has the fields of its type, and what is saved always fits: the
\* restore of a snapshot never runs out of nodes (ramfs.c:17-45,
\* persist.c:190-227).
THEOREM TypeCorrect == Spec => []TypeOK
<1>1. Inv => TypeOK
  BY DEF Inv, Tree, Typed, TypeOK, DiskOK
<1>. QED
  BY <1>1, AlwaysInv, PTL

\* The nodes in use are always those of one tree: lists of children and parent
\* pointers agree, no node is in two lists or lost, siblings have different
\* names, whatever was created, removed or restored (ramfs.c:62-76, 170-244).
THEOREM TreeCorrect == Spec => []TreeOK
<1>1. Inv => TreeOK
  <2> SUFFICES ASSUME Inv PROVE TreeOK
    OBVIOUS
  <2>1. Tree(fs)
    BY DEF Inv
  <2>2. \A n \in DOMAIN fs : ToSet(fs[n].kids) \subseteq DOMAIN fs
    BY <2>1 DEF ToSet, Tree, Linked
  <2>3. ToSet(Subtree(fs, Root)) = DOMAIN fs /\ Len(Subtree(fs, Root)) = Cardinality(DOMAIN fs)
    BY <2>1, WholeTree DEF ToSet
  <2>4. \A n \in DOMAIN fs : \A i \in DOMAIN fs[n].kids : fs[fs[n].kids[i]].parent = n
    BY <2>1 DEF Tree, Linked
  <2>5. \A n \in DOMAIN fs : \A i, j \in DOMAIN fs[n].kids :
          fs[fs[n].kids[i]].name = fs[fs[n].kids[j]].name => i = j
    BY <2>1 DEF Tree, Apart
  <2>. QED
    BY <2>2, <2>3, <2>4, <2>5, Zenon DEF TreeOK
<1>. QED
  BY <1>1, AlwaysInv, PTL
-----------------------------------------------------------------------------
(* Names that are not looked up.                                           *)

\* The walk along a path ends with a step from the directory before.
LEMMA WalkLast ==
    ASSUME NEW t, NEW start, NEW S, NEW comps \in Seq(S), comps # <<>>
    PROVE  WalkFrom(t, start, comps) = WalkStep(t, ParentOf(t, start, comps), Last(comps))
<1>1. PICK n \in Nat : n = Len(comps) - 1 /\ Len(comps) = n + 1 /\ Len(comps) \in Nat
  <2>1. Len(comps) \in Nat /\ Len(comps) # 0
    BY LenProperties, EmptySeq
  <2>. QED
    BY <2>1
<1> DEFINE front == Front(comps)
<1>2. front \in Seq(S) /\ Len(front) = n /\ \A i \in 1 .. n : front[i] = comps[i]
  <2>1. front = SubSeq(comps, 1, n)
    BY <1>1 DEF Front
  <2>2. 1 \in Int /\ n \in Int /\ \A i \in 1 .. n : comps[i] \in S
    BY <1>1, ElementOfSeq
  <2>3. /\ SubSeq(comps, 1, n) \in Seq(S)
        /\ Len(SubSeq(comps, 1, n)) = (IF 1 <= n THEN n - 1 + 1 ELSE 0)
    BY <2>2, SubSeqProperties
  <2>4. \A i \in 1 .. n : SubSeq(comps, 1, n)[i] = comps[i]
    BY <1>1
  <2> HIDE DEF front
  <2>. QED
    BY <1>1, <2>1, <2>3, <2>4
<1> HIDE DEF front
<1>3. PICK at : Walk(t, start, comps, Len(comps), at) /\ WalkFrom(t, start, comps) = at[Len(comps)]
  BY WalkIs
<1>4. PICK be : Walk(t, start, front, Len(front), be) /\ WalkFrom(t, start, front) = be[Len(front)]
  BY <1>2, WalkIs
<1>5. \A i \in 0 .. n + 1 : at[i] = IF i = 0 THEN start ELSE WalkStep(t, at[i - 1], comps[i])
  BY <1>1, <1>3 DEF Walk
<1>6. \A i \in 0 .. n : be[i] = IF i = 0 THEN start ELSE WalkStep(t, be[i - 1], front[i])
  BY <1>2, <1>4 DEF Walk
<1> DEFINE T == {k \in Nat : k <= n => at[k] = be[k]}
<1>7. 0 \in T
  BY <1>5, <1>6
<1>8. ASSUME NEW k \in Nat, k \in T PROVE k + 1 \in T
  <2> SUFFICES ASSUME k + 1 <= n PROVE at[k + 1] = be[k + 1]
    OBVIOUS
  <2>1. k + 1 \in 0 .. n /\ k + 1 \in 0 .. n + 1 /\ k + 1 \in 1 .. n /\ (k + 1) - 1 = k /\ k <= n
    OBVIOUS
  <2>2. at[k] = be[k] /\ front[k + 1] = comps[k + 1]
    BY <1>2, <1>8, <2>1
  <2>3. at[k + 1] = WalkStep(t, at[k], comps[k + 1])
    BY <1>5, <2>1
  <2>4. be[k + 1] = WalkStep(t, be[k], front[k + 1])
    BY <1>6, <2>1
  <2>. QED
    BY <2>2, <2>3, <2>4
<1> HIDE DEF T
<1>9. n \in T
  BY <1>7, <1>8, SetInduction
<1>10. at[n] = be[n]
  BY <1>9 DEF T
<1>11. n + 1 \in 0 .. n + 1 /\ (n + 1) - 1 = n /\ n + 1 # 0
  OBVIOUS
<1>12. at[n + 1] = WalkStep(t, at[n], comps[n + 1])
  BY <1>5, <1>11
<1>. QED
  BY <1>1, <1>2, <1>3, <1>4, <1>10, <1>12 DEF ParentOf, Last, front

\* An empty path leads nowhere else.
LEMMA WalkNone ==
    ASSUME NEW t, NEW start
    PROVE  WalkFrom(t, start, <<>>) = start
<1>1. <<>> \in Seq({}) /\ Len(<<>>) = 0
  BY EmptySeq
<1>2. PICK at : Walk(t, start, <<>>, 0, at) /\ WalkFrom(t, start, <<>>) = at[0]
  BY <1>1, WalkIs
<1>. QED
  BY <1>2 DEF Walk

Dots == {".", ".."}

\* The root, or a node that can be found by its name.
Undotted(t, n) == n = Root \/ t[n].name \notin Dots

\* A node that cannot be found is an empty directory.
Dotless(t) ==
    \A n \in DOMAIN t : Undotted(t, n) \/ (t[n].type = "dir" /\ DOMAIN t[n].kids = {})

\* A directory with a child can be found.
LEMMA ParentUndotted ==
    ASSUME NEW t, Linked(t), Dotless(t), NEW n \in DOMAIN t \ {Root}
    PROVE  t[n].parent \in DOMAIN t /\ Undotted(t, t[n].parent)
BY DEF Linked, Dotless

\* Walking leads to nodes that can be found.
LEMMA StepUndotted ==
    ASSUME NEW t, Typed(t), Linked(t), Dotless(t), NEW node \in DOMAIN t \union {NULL},
           node # NULL => Undotted(t, node), NEW c
    PROVE  WalkStep(t, node, c) # NULL => Undotted(t, WalkStep(t, node, c))
<1>0. NULL \notin DOMAIN t /\ Root \in DOMAIN t
  BY Constants DEF Typed
<1>1. CASE node = NULL
  BY <1>1 DEF WalkStep
<1>2. CASE node # NULL /\ c = "."
  BY <1>2 DEF WalkStep
<1>3. CASE node # NULL /\ c = ".."
  <2>1. WalkStep(t, node, c) = IF node = Root THEN Root ELSE t[node].parent
    BY <1>3 DEF WalkStep
  <2>. QED
    BY <1>0, <1>3, <2>1, ParentUndotted DEF Undotted
<1>4. CASE node # NULL /\ c # "." /\ c # ".."
  <2>1. WalkStep(t, node, c) = find_child(t, node, c)
    BY <1>4 DEF WalkStep
  <2>2. PICK k : k = find_child(t, node, c)
    OBVIOUS
  <2>3. Found(t, node, c, k)
    BY <1>4, <2>2, ChildIs
  <2>. QED
    BY <1>4, <2>1, <2>2, <2>3 DEF Found, Undotted, Dots
<1>. QED
  BY <1>1, <1>2, <1>3, <1>4

\* So does a whole walk.
LEMMA WalkUndotted ==
    ASSUME NEW t, Typed(t), Linked(t), Dotless(t), NEW start \in DOMAIN t, Undotted(t, start),
           NEW S, NEW comps \in Seq(S)
    PROVE  WalkFrom(t, start, comps) # NULL => Undotted(t, WalkFrom(t, start, comps))
<1>1. PICK at : Walk(t, start, comps, Len(comps), at) /\ WalkFrom(t, start, comps) = at[Len(comps)]
  BY WalkIs
<1>2. PICK n \in Nat : n = Len(comps)
  OBVIOUS
<1> DEFINE OK(x) == x \in DOMAIN t \union {NULL} /\ (x # NULL => Undotted(t, x))
           T == {k \in Nat : k <= n => OK(at[k])}
<1>3. \A i \in 0 .. n : at[i] = IF i = 0 THEN start ELSE WalkStep(t, at[i - 1], comps[i])
  BY <1>1, <1>2 DEF Walk
<1>4. 0 \in T
  BY <1>2, <1>3
<1>5. ASSUME NEW k \in Nat, k \in T PROVE k + 1 \in T
  <2> SUFFICES ASSUME k + 1 <= n PROVE OK(at[k + 1])
    OBVIOUS
  <2>1. k + 1 \in 0 .. n /\ k + 1 # 0 /\ (k + 1) - 1 = k /\ k <= n
    BY <1>2
  <2>2. at[k + 1] = WalkStep(t, at[k], comps[k + 1])
    BY <1>3, <2>1
  <2>3. at[k] \in DOMAIN t \union {NULL} /\ (at[k] # NULL => Undotted(t, at[k]))
    BY <1>5, <2>1
  <2>4. at[k + 1] \in DOMAIN t \union {NULL}
    BY <2>2, <2>3, StepStays
  <2>5. at[k + 1] # NULL => Undotted(t, at[k + 1])
    BY <2>2, <2>3, StepUndotted
  <2>. QED
    BY <2>4, <2>5
<1> HIDE DEF T
<1>6. n \in T
  BY <1>2, <1>4, <1>5, SetInduction
<1>. QED
  BY <1>1, <1>2, <1>6 DEF T

\* A node made where it can be found, and which can be found unless it is a
\* directory.
LEMMA MadeDotless ==
    ASSUME NEW t, Tree(t), Dotless(t), NEW p, NEW name, NEW type, NEW new, NEW u,
           Made(t, p, name, type, new, u), Undotted(t, p), name \in Dots => type = "dir"
    PROVE  Dotless(u) /\ \A n \in DOMAIN t : Undotted(t, n) => Undotted(u, n)
<1>1. /\ \A n \in DOMAIN t : /\ u[n].name = t[n].name /\ u[n].type = t[n].type
                             /\ n # p => u[n].kids = t[n].kids
      /\ u[new].name = name /\ u[new].type = type /\ u[new].kids = <<>>
  BY MadeIs DEF MadeOK, Tree
<1>2. p \in DOMAIN t /\ new \notin DOMAIN t /\ DOMAIN u = DOMAIN t \union {new}
  BY DEF Made
<1>3. \A n \in DOMAIN t : Undotted(t, n) => Undotted(u, n)
  BY <1>1 DEF Undotted
<1>4. ASSUME NEW n \in DOMAIN u PROVE Undotted(u, n) \/ (u[n].type = "dir" /\ DOMAIN u[n].kids = {})
  <2>1. CASE n = new
    <3>1. DOMAIN u[n].kids = {}
      BY <1>1, <2>1
    <3>. QED
      BY <1>1, <2>1, <3>1 DEF Undotted
  <2>2. CASE n = p
    BY <1>2, <1>3, <2>2
  <2>3. CASE n # new /\ n # p
    BY <1>1, <1>2, <1>3, <2>3 DEF Dotless
  <2>. QED
    BY <2>1, <2>2, <2>3
<1>. QED
  BY <1>3, <1>4 DEF Dotless

\* Contents do not matter for that.
LEMMA WriteDotless ==
    ASSUME NEW t, Tree(t), Dotless(t), NEW file \in DOMAIN t, NEW data
    PROVE  /\ Dotless([t EXCEPT ![file].data = data])
           /\ \A n \in DOMAIN t : Undotted(t, n) => Undotted([t EXCEPT ![file].data = data], n)
<1>1. PICK u : u = [t EXCEPT ![file].data = data]
  OBVIOUS
<1>2. t[file] \in File \/ t[file] \in Dir
  BY DEF Tree, Typed
<1>3. u[file] = [t[file] EXCEPT !.data = data] /\ DOMAIN u = DOMAIN t
      /\ \A n \in DOMAIN t \ {file} : u[n] = t[n]
  BY <1>1
<1>4. u[file].name = t[file].name /\ u[file].type = t[file].type /\ u[file].kids = t[file].kids
  BY <1>2, <1>3 DEF File, Dir
<1>5. \A n \in DOMAIN t : u[n].name = t[n].name /\ u[n].type = t[n].type /\ u[n].kids = t[n].kids
  BY <1>3, <1>4
<1>6. Dotless(u) /\ \A n \in DOMAIN t : Undotted(t, n) => Undotted(u, n)
  BY <1>3, <1>5 DEF Dotless, Undotted
<1>. QED
  BY <1>1, <1>6

\* Neither does removing.
LEMMA UnlinkDotless ==
    ASSUME NEW t, Tree(t), Dotless(t), NEW node \in DOMAIN t \ {Root}
    PROVE  /\ DOMAIN Unlink(t, node) \subseteq DOMAIN t /\ Dotless(Unlink(t, node))
           /\ \A n \in DOMAIN Unlink(t, node) : Undotted(t, n) => Undotted(Unlink(t, node), n)
<1>1. PICK S, u : S = Range(Subtree(t, node)) /\ u = Unlink(t, node)
  OBVIOUS
<1>2. PICK p, a : Unlinked(t, node, S, p, a, u)
  BY <1>1, UnlinkIs
<1>3. DOMAIN u \subseteq DOMAIN t
      /\ \A n \in DOMAIN u : /\ u[n].name = t[n].name /\ u[n].type = t[n].type
                             /\ n # p => u[n].kids = t[n].kids
  BY <1>2 DEF Unlinked
<1>4. Undotted(t, p)
  BY <1>2, ParentUndotted DEF Unlinked, Tree
<1>5. \A n \in DOMAIN u : Undotted(t, n) => Undotted(u, n)
  BY <1>3 DEF Undotted
<1>6. Dotless(u)
  BY <1>3, <1>4, <1>5 DEF Dotless
<1>. QED
  BY <1>1, <1>3, <1>5, <1>6

\* An entry that ends in "." or ".." is a directory.
DotEntry(e) == e[1] # <<>> /\ Last(e[1]) \in Dots => e[2] = "dir"

\* What is made along a path from a node that can be found.
LEMMA CreateDotless ==
    ASSUME NEW t, Tree(t), Dotless(t), NEW start \in DOMAIN t, Undotted(t, start),
           NEW comps \in Seq(Component), CanCreate(t, start, comps),
           NEW type \in {"dir", "file"}, Last(comps) \in Dots => type = "dir",
           NEW u, u = Create(t, start, comps, type)
    PROVE  Dotless(u) /\ \A n \in DOMAIN t : n \in DOMAIN u /\ (Undotted(t, n) => Undotted(u, n))
<1>1. Typed(t) /\ Linked(t)
  BY DEF Tree
<1>2. PICK p, new : p = ParentOf(t, start, comps) /\ Made(t, p, Last(comps), type, new, u)
  BY <1>1, CreateMakes
<1>3. Undotted(t, p)
  <2>1. Front(comps) \in Seq(Component)
    <3>1. comps \in Seq(Component) /\ Len(comps) \in Nat
      BY LenProperties
    <3>. QED
      BY <3>1 DEF Front
  <2>2. p # NULL
    BY <1>2 DEF CanCreate
  <2>. QED
    BY <1>1, <1>2, <2>1, <2>2, WalkUndotted DEF ParentOf
<1>4. Dotless(u) /\ \A n \in DOMAIN t : Undotted(t, n) => Undotted(u, n)
  BY <1>2, <1>3, MadeDotless
<1>. QED
  BY <1>2, <1>4 DEF Made

\* One entry of the snapshot.
LEMMA RestoreNodeDotless ==
    ASSUME NEW t, Tree(t), Dotless(t), NEW e \in Entry, DotEntry(e)
    PROVE  Dotless(RestoreNode(t, e))
<1> DEFINE made == IF CanCreate(t, Root, e[1]) THEN Create(t, Root, e[1], e[2]) ELSE t
           node == WalkFrom(made, Root, e[1])
<1>0. e[1] \in Seq(Component) /\ e[2] \in {"dir", "file"} /\ e[3] \in Data
  BY DEF Entry
<1>1. Tree(made) /\ Dotless(made)
  <2>1. CASE CanCreate(t, Root, e[1])
    <3>1. Typed(t) /\ Linked(t) /\ Root \in DOMAIN t /\ Undotted(t, Root)
      BY DEF Tree, Typed, Undotted
    <3>2. PICK u : u = Create(t, Root, e[1], e[2])
      OBVIOUS
    <3>3. \E p, new : Made(t, p, Last(e[1]), e[2], new, u)
      BY <1>0, <2>1, <3>1, <3>2, CreateMakes
    <3>4. Tree(u)
      BY <3>3, MadeKeeps
    <3>5. Last(e[1]) \in Dots => e[2] = "dir"
      BY <2>1 DEF DotEntry, CanCreate
    <3>6. Dotless(u)
      BY <1>0, <2>1, <3>1, <3>2, <3>5, CreateDotless
    <3>. QED
      BY <2>1, <3>2, <3>4, <3>6
  <2>2. CASE ~ CanCreate(t, Root, e[1])
    BY <2>2
  <2>. QED
    BY <2>1, <2>2
<1>2. RestoreNode(t, e) = IF node # NULL /\ made[node].type = "file" /\ e[3] # Empty
                           THEN [made EXCEPT ![node].data = e[3]] ELSE made
  BY DEF RestoreNode
<1> HIDE DEF made
<1>3. node \in DOMAIN made \union {NULL}
  BY <1>0, <1>1, WalkStays DEF Tree, Typed
<1> HIDE DEF node
<1>4. CASE node # NULL /\ made[node].type = "file" /\ e[3] # Empty
  <2>1. Dotless([made EXCEPT ![node].data = e[3]])
    BY <1>1, <1>3, <1>4, WriteDotless
  <2>. QED
    BY <1>2, <1>4, <2>1
<1>. QED
  BY <1>1, <1>2, <1>4

\* The root alone.
LEMMA BareDotless == Dotless(Bare)
BY DEF Bare, Dotless, Undotted

\* All entries.
LEMMA RestoreDotless ==
    ASSUME NEW es \in Seq(Entry), \A i \in DOMAIN es : DotEntry(es[i])
    PROVE  Dotless(Restore(es))
<1>1. PICK r : Rounds(es, r)
  BY RestoreRounds
<1>2. PICK n \in Nat : n = Len(es)
  OBVIOUS
<1> DEFINE T == {k \in Nat : k <= n => Tree(r[k]) /\ Dotless(r[k])}
<1>3. 0 \in T
  BY <1>1, BareTree, BareDotless DEF Rounds
<1>4. ASSUME NEW k \in Nat, k \in T PROVE k + 1 \in T
  <2> SUFFICES ASSUME k + 1 <= n PROVE Tree(r[k + 1]) /\ Dotless(r[k + 1])
    OBVIOUS
  <2>1. k \in 0 .. Len(es) - 1 /\ k + 1 \in 1 .. Len(es) /\ k <= n /\ k + 1 \in DOMAIN es
    BY <1>2
  <2>2. Tree(r[k]) /\ Dotless(r[k]) /\ es[k + 1] \in Entry /\ DotEntry(es[k + 1])
    BY <1>4, <2>1, ElementOfSeq
  <2>3. r[k + 1] = RestoreNode(r[k], es[k + 1])
    BY <1>1, <2>1 DEF Rounds
  <2>4. Tree(RestoreNode(r[k], es[k + 1]))
    BY <2>2, RestoreKeeps
  <2>5. Dotless(RestoreNode(r[k], es[k + 1]))
    BY <2>2, RestoreNodeDotless
  <2>. QED
    BY <2>3, <2>4, <2>5
<1> HIDE DEF T
<1>5. n \in T
  BY <1>2, <1>3, <1>4, SetInduction
<1>. QED
  BY <1>1, <1>2, <1>5 DEF T, Rounds

\* Where fs_abspath begins to copy.
From(p) == Max({1, Len(p) - MaxDepth + 1})

\* That is the first component, unless there are too many.
LEMMA FromIs ==
    ASSUME NEW p \in Seq(Component)
    PROVE  /\ From(p) \in Nat /\ From(p) >= 1 /\ Len(p) \in Nat
           /\ Len(p) >= 1 => From(p) <= Len(p)
           /\ Len(p) <= MaxDepth => From(p) = 1
<1>1. MaxDepth \in Nat \ {0}
  BY RamfsAssumption, Zenon
<1>2. Len(p) \in Nat
  OBVIOUS
<1> DEFINE from == From(p)
           set == {1, Len(p) - MaxDepth + 1}
<1>3. \E m \in set : \A k \in set : m >= k
  BY <1>1, <1>2
<1>4. from \in set /\ \A k \in set : from >= k
  BY <1>3, Zenon DEF Max, From
<1> HIDE DEF from
<1>. QED
  BY <1>1, <1>2, <1>4 DEF from

\* What fs_abspath writes of a path: its end, or all of it.
LEMMA AbspathIs ==
    ASSUME NEW t, Tree(t), NEW n \in DOMAIN t
    PROVE  /\ n # Root => /\ fs_abspath(t, n) # <<>>
                          /\ Last(fs_abspath(t, n)) = t[n].name
           /\ Len(TruePath(t, n)) <= MaxDepth => fs_abspath(t, n) = TruePath(t, n)
<1>1. PICK p \in Seq(Component) : p = TruePath(t, n)
  BY PathRec
<1>2. PICK from : from = From(p)
  OBVIOUS
<1>3. /\ from \in Nat /\ from >= 1 /\ Len(p) \in Nat
      /\ Len(p) >= 1 => from <= Len(p)
      /\ Len(p) <= MaxDepth => from = 1
  BY <1>2, FromIs
<1>4. fs_abspath(t, n) = SubSeq(p, from, Len(p))
  BY <1>1, <1>2 DEF fs_abspath, From
<1>5. ASSUME n # Root PROVE fs_abspath(t, n) # <<>> /\ Last(fs_abspath(t, n)) = t[n].name
  <2>1. PICK q \in Seq(Component) : q = TruePath(t, t[n].parent)
    BY <1>5, PathRec DEF Tree, Linked
  <2>2. t[n].name \in Component /\ p = Append(q, t[n].name)
    BY <1>1, <1>5, <2>1, PathRec DEF Tree, Typed
  <2>3. Len(p) = Len(q) + 1 /\ p[Len(q) + 1] = t[n].name /\ Len(q) \in Nat
    BY <2>2, AppendProperties
  <2> DEFINE a == SubSeq(p, from, Len(p))
  <2>4. from \in 1 .. Len(p) /\ Len(p) \in from .. Len(p)
    BY <1>3, <2>3
  <2>5. \A i \in from .. Len(p) : p[i] \in Component
    BY <1>3, ElementOfSeq
  <2>6. Len(a) = Len(p) - from + 1 /\ \A i \in 1 .. Len(p) - from + 1 : a[i] = p[from + i - 1]
    BY <1>3, <2>4, <2>5, SubSeqProperties
  <2> HIDE DEF a
  <2>7. Len(a) \in 1 .. Len(p) - from + 1 /\ from + Len(a) - 1 = Len(p)
    BY <1>3, <2>4, <2>6
  <2>8. a[Len(a)] = t[n].name /\ a # <<>>
    BY <2>3, <2>6, <2>7
  <2>. QED
    BY <1>4, <2>8 DEF Last, a
<1>6. ASSUME Len(p) <= MaxDepth PROVE fs_abspath(t, n) = p
  BY <1>3, <1>4, <1>6, SubSeqFull
<1>. QED
  BY <1>1, <1>5, <1>6

\* No snapshot has an entry that could not be restored as what it is.
LEMMA SnapshotDots ==
    ASSUME NEW t, Tree(t), Dotless(t)
    PROVE  \A i \in DOMAIN Snapshot(t) : DotEntry(Snapshot(t)[i])
<1>1. PICK s, e : s = Subtree(t, Root) /\ e = Snapshot(t)
  OBVIOUS
<1>2. /\ s \in Seq(DOMAIN t) /\ Len(s) >= 1
      /\ e \in Seq(Entry) /\ Len(e) = Len(s) - 1
      /\ \A i \in 1 .. Len(s) - 1 :
            e[i] = <<fs_abspath(t, s[i + 1]), t[s[i + 1]].type, t[s[i + 1]].data>>
  BY <1>1, SnapshotIs
<1>3. \A i \in DOMAIN s \ {1} : s[i] # Root
  BY <1>1, SubtreePart DEF Part, Once, Tree, Typed
<1>4. ASSUME NEW i \in DOMAIN e PROVE DotEntry(e[i])
  <2>1. i \in 1 .. Len(s) - 1 /\ i + 1 \in DOMAIN s \ {1} /\ i + 1 \in 1 .. Len(s)
    BY <1>2
  <2>2. PICK n \in DOMAIN t \ {Root} : n = s[i + 1]
    BY <1>2, <1>3, <2>1, ElementOfSeq
  <2>3. e[i][1] = fs_abspath(t, n) /\ e[i][2] = t[n].type
    BY <1>2, <2>1, <2>2
  <2>4. Last(fs_abspath(t, n)) = t[n].name
    BY <2>2, AbspathIs
  <2>. QED
    BY <2>2, <2>3, <2>4 DEF DotEntry, Dotless, Undotted
<1>. QED
  BY <1>1, <1>4

DiskDots == \A i \in DOMAIN disk : DotEntry(disk[i])

\* What is known of the nodes that cannot be found.
DotInv ==
    /\ Dotless(fs) /\ DiskDots
    /\ current_dir \in DOMAIN fs => Undotted(fs, current_dir)

\* The tree behind a command.
LEMMA FinishDots ==
    ASSUME DiskDots, NEW t, Tree(t), Dotless(t), NEW dirtied \in BOOLEAN, Finish(t, dirtied)
    PROVE  Dotless(fs') /\ DiskDots'
<1>1. fs' = t /\ (disk' = disk \/ disk' = Snapshot(t))
  BY DEF Finish
<1>2. \A i \in DOMAIN Snapshot(t) : DotEntry(Snapshot(t)[i])
  BY SnapshotDots
<1>3. \A i \in DOMAIN disk' : DotEntry(disk'[i])
  BY <1>1, <1>2 DEF DiskDots
<1>. QED
  BY <1>1, <1>3 DEF DiskDots

\* The node a path leads to can be found.
LEMMA ResolveDots ==
    ASSUME Tree(fs), Dotless(fs), Prompt, Undotted(fs, current_dir), NEW path \in Path
    PROVE  /\ Start(path) \in DOMAIN fs /\ Undotted(fs, Start(path))
           /\ fs_resolve(path) # NULL => Undotted(fs, fs_resolve(path))
<1>1. Typed(fs) /\ Linked(fs)
  BY DEF Tree
<1>2. Start(path) \in DOMAIN fs /\ path.comps \in Seq(Component)
  BY Resolves
<1>3. Undotted(fs, Start(path))
  BY DEF Start, Undotted
<1>4. WalkFrom(fs, Start(path), path.comps) # NULL
        => Undotted(fs, WalkFrom(fs, Start(path), path.comps))
  BY <1>1, <1>2, <1>3, WalkUndotted
<1>. QED
  BY <1>2, <1>3, <1>4 DEF fs_resolve

\* A new path does not end in "." or "..".
LEMMA NewName ==
    ASSUME Tree(fs), Prompt, NEW path \in Creatable, fs_resolve(path) = NULL
    PROVE  Last(path.comps) \notin Dots
<1>1. path \in Path /\ CanCreate(fs, Start(path), path.comps)
  BY DEF Creatable
<1>2. Start(path) \in DOMAIN fs /\ path.comps \in Seq(Component)
  BY <1>1, Resolves
<1>3. PICK c, start, p, name : /\ c = path.comps /\ start = Start(path)
                              /\ p = ParentOf(fs, start, c) /\ name = Last(c)
  OBVIOUS
<1>4. c # <<>> /\ p # NULL /\ fs[p].type = "dir"
  BY <1>1, <1>3 DEF CanCreate
<1>5. WalkStep(fs, p, name) = NULL
  BY <1>2, <1>3, <1>4, WalkLast DEF fs_resolve
<1>6. Typed(fs) /\ Linked(fs)
  BY DEF Tree
<1>7. p \in DOMAIN fs
  <2>1. Front(c) \in Seq(Component)
    <3>1. c \in Seq(Component) /\ Len(c) \in Nat
      BY <1>2, <1>3, LenProperties
    <3>. QED
      BY <3>1 DEF Front
  <2>. QED
    BY <1>2, <1>3, <1>4, <1>6, <2>1, WalkStays DEF ParentOf
<1>8. NULL \notin DOMAIN fs /\ Root \in DOMAIN fs
  BY <1>6, Constants DEF Typed
<1>9. name # "."
  BY <1>4, <1>5 DEF WalkStep
<1>10. ASSUME name = ".." PROVE FALSE
  <2>1. WalkStep(fs, p, name) = IF p = Root THEN Root ELSE fs[p].parent
    BY <1>4, <1>10 DEF WalkStep
  <2>. QED
    BY <1>5, <1>6, <1>7, <1>8, <2>1 DEF Linked
<1>. QED
  BY <1>3, <1>9, <1>10 DEF Dots

\* A node made where the user may make one: a directory or something new.
LEMMA CreatableDots ==
    ASSUME Tree(fs), Dotless(fs), Prompt, Undotted(fs, current_dir),
           NEW path \in Creatable, NEW type \in {"dir", "file"},
           type = "file" => fs_resolve(path) = NULL,
           NEW t, t = Create(fs, Start(path), path.comps, type)
    PROVE  Dotless(t) /\ \A n \in DOMAIN fs : n \in DOMAIN t /\ (Undotted(fs, n) => Undotted(t, n))
<1>1. path \in Path /\ CanCreate(fs, Start(path), path.comps)
  BY DEF Creatable
<1>2. Start(path) \in DOMAIN fs /\ path.comps \in Seq(Component) /\ Undotted(fs, Start(path))
  BY <1>1, Resolves, ResolveDots
<1>3. Last(path.comps) \in Dots => type = "dir"
  BY NewName
<1>. QED
  BY <1>1, <1>2, <1>3, CreateDotless

\* The skeleton has directories only.
LEMMA InitDots == Init => DotInv
<1> SUFFICES ASSUME Init PROVE DotInv
  OBVIOUS
<1> DEFINE es == [i \in DOMAIN Skeleton |-> <<Skeleton[i], "dir", Empty>>]
<1>1. fs = Restore(es) /\ disk = Snapshot(fs) /\ current_dir = Root
  BY DEF Init
<1>2. es \in Seq(Entry)
  <2>1. PICK N : N = Seq(Names)
    OBVIOUS
  <2>2. Skeleton \in Seq(N)
    BY <2>1, RamfsAssumption, Zenon
  <2>3. DOMAIN Skeleton = 1 .. Len(Skeleton) /\ Len(Skeleton) \in Nat
        /\ \A i \in 1 .. Len(Skeleton) : Skeleton[i] \in N
    BY <2>2, LenProperties, ElementOfSeq
  <2>4. \A x \in N : x \in Seq(Component)
    <3> SUFFICES ASSUME NEW x \in Seq(Names) PROVE x \in Seq(Component)
      BY <2>1
    <3>1. Names \subseteq Component
      BY Constants
    <3>. QED
      BY <3>1
  <2>5. \A i \in 1 .. Len(Skeleton) : <<Skeleton[i], "dir", Empty>> \in Entry
    BY <2>3, <2>4, Constants DEF Entry
  <2>. QED
    BY <2>3, <2>5
<1>3. \A i \in DOMAIN es : DotEntry(es[i])
  BY DEF DotEntry
<1> HIDE DEF es
<1>4. Tree(fs) /\ Dotless(fs)
  BY <1>1, <1>2, <1>3, RestoreTree, RestoreDotless
<1>5. DiskDots
  BY <1>1, <1>4, SnapshotDots DEF DiskDots
<1>. QED
  BY <1>1, <1>4, <1>5 DEF DotInv, Undotted

\* Where somebody's home should be.
LEMMA HomeDots ==
    ASSUME NEW t, Tree(t), Dotless(t), NEW u \in Users
    PROVE  WalkFrom(t, Root, Home[u]) # NULL => Undotted(t, WalkFrom(t, Root, Home[u]))
<1>1. Home \in [Users -> Seq(STRING)]
  BY RamfsAssumption, Zenon
<1>2. Home[u] \in Seq(STRING)
  BY <1>1
<1>3. Undotted(t, Root)
  BY DEF Undotted
<1>. QED
  BY <1>2, <1>3, WalkUndotted DEF Tree, Typed

\* Commands that leave the tree as it is.
LEMMA OtherDots ==
    ASSUME Inv, DotInv, Other \/ Cd \/ Su
    PROVE  DotInv'
<1>0. Tree(fs) /\ Dotless(fs) /\ DiskDots /\ user \in Users /\ dirty \in BOOLEAN
  BY DEF Inv, DotInv
<1>1. Prompt /\ Finish(fs, dirty) /\ current_dir \in DOMAIN fs
  BY DEF Other, Cd, Su, Prompt
<1>2. Undotted(fs, current_dir) /\ Undotted(fs, Root)
  BY <1>1 DEF DotInv, Undotted
<1>3. fs' = fs /\ Dotless(fs') /\ DiskDots'
  BY <1>0, <1>1, FinishDots DEF Finish
<1>4. \A path \in Path : Directory(path) # NULL => Undotted(fs, Directory(path))
  BY <1>0, <1>1, <1>2, ResolveDots DEF Directory
<1>5. \A u \in Users :
        WalkFrom(fs, Root, Home[u]) # NULL => Undotted(fs, WalkFrom(fs, Root, Home[u]))
  BY <1>0, HomeDots
<1>6. Undotted(fs, current_dir')
  <2>1. CASE Other
    BY <1>2, <2>1 DEF Other
  <2>2. CASE Cd
    <3>1. CASE current_dir' \in {Directory(path) : path \in Path} \ {NULL}
      BY <1>4, <3>1
    <3>2. ASSUME NEW home, home = WalkFrom(fs, Root, Home[user]),
                 current_dir' = IF home = NULL THEN Root
                                ELSE IF fs[home].type = "dir" THEN home ELSE current_dir
          PROVE  Undotted(fs, current_dir')
      BY <1>0, <1>2, <1>5, <3>2
    <3>. QED
      BY <2>2, <3>1, <3>2 DEF Cd
  <2>3. CASE Su
    <3> DEFINE At(u) == [abs |-> TRUE, comps |-> Home[u]]
    <3>1. PICK u \in Users :
            /\ current_dir' \in {Directory(At(u)), current_dir}
            /\ Directory(At(u)) = NULL => current_dir' = current_dir
      BY <2>3 DEF Su
    <3>2. fs_resolve(At(u)) = WalkFrom(fs, Root, Home[u])
      BY DEF fs_resolve, Start
    <3>3. Directory(At(u)) # NULL => Directory(At(u)) = WalkFrom(fs, Root, Home[u])
      BY <3>2 DEF Directory
    <3>. QED
      BY <1>2, <1>5, <3>1, <3>3
  <2>. QED
    BY <2>1, <2>2, <2>3
<1>. QED
  BY <1>3, <1>6 DEF DotInv, Undotted

\* mkdir, touch, and echo into a new file.
LEMMA MakeDots ==
    ASSUME Inv, DotInv, Mkdir \/ Touch
    PROVE  DotInv'
<1>0. Tree(fs) /\ Dotless(fs) /\ DiskDots
  BY DEF Inv, DotInv
<1>1. Prompt /\ current_dir' = current_dir /\ current_dir \in DOMAIN fs
  BY DEF Mkdir, Touch, Prompt
<1>2. Undotted(fs, current_dir)
  BY <1>1 DEF DotInv
<1>3. PICK type \in {"dir", "file"}, path \in Creatable :
        /\ Finish(Create(fs, Start(path), path.comps, type), TRUE)
        /\ type = "file" => fs_resolve(path) = NULL
  BY DEF Mkdir, Touch
<1>4. PICK t : t = Create(fs, Start(path), path.comps, type)
  OBVIOUS
<1>5. Tree(t)
  BY <1>0, <1>1, <1>4, CreateKeeps
<1>6. Dotless(t) /\ \A n \in DOMAIN fs : n \in DOMAIN t /\ (Undotted(fs, n) => Undotted(t, n))
  BY <1>0, <1>1, <1>2, <1>3, <1>4, CreatableDots
<1>7. fs' = t /\ Dotless(fs') /\ DiskDots'
  BY <1>0, <1>3, <1>4, <1>5, <1>6, FinishDots DEF Finish
<1>. QED
  BY <1>1, <1>2, <1>6, <1>7 DEF DotInv, Undotted

\* Writing into a file, or failing to.
LEMMA WrittenDots ==
    ASSUME DiskDots, dirty \in BOOLEAN, NEW t, Tree(t), Dotless(t), NEW file \in DOMAIN t,
           t[file].type = "file", NEW data \in Data, Written(t, file, data)
    PROVE  /\ Dotless(fs') /\ DiskDots'
           /\ \A n \in DOMAIN t : Undotted(t, n) => Undotted(fs', n)
<1>1. CASE Finish([t EXCEPT ![file].data = data], TRUE)
  <2>1. PICK w : w = [t EXCEPT ![file].data = data]
    OBVIOUS
  <2>2. Tree(w)
    BY <2>1, WriteKeeps
  <2>3. Dotless(w) /\ \A n \in DOMAIN t : Undotted(t, n) => Undotted(w, n)
    BY <2>1, WriteDotless
  <2>4. fs' = w /\ Dotless(fs') /\ DiskDots'
    BY <1>1, <2>1, <2>2, <2>3, FinishDots DEF Finish
  <2>. QED
    BY <2>3, <2>4
<1>2. CASE Finish(t, dirty)
  BY <1>2, FinishDots DEF Finish
<1>. QED
  BY <1>1, <1>2 DEF Written

\* echo.
LEMMA EchoDots ==
    ASSUME Inv, DotInv, Echo
    PROVE  DotInv'
<1>0. Tree(fs) /\ Dotless(fs) /\ DiskDots /\ dirty \in BOOLEAN
  BY DEF Inv, DotInv
<1>1. Prompt /\ current_dir' = current_dir /\ current_dir \in DOMAIN fs
  BY DEF Echo, Prompt
<1>2. Undotted(fs, current_dir)
  BY <1>1 DEF DotInv
<1>3. PICK data \in Data \ {Empty} :
        \/ \E path \in Path : /\ fs_resolve(path) # NULL /\ fs[fs_resolve(path)].type = "file"
                              /\ Written(fs, fs_resolve(path), data)
        \/ \E path \in Creatable : /\ fs_resolve(path) = NULL
                                   /\ Written(Create(fs, Start(path), path.comps, "file"),
                                              Min(Ids \ DOMAIN fs), data)
  BY DEF Echo
<1>4. ASSUME NEW path \in Path, fs_resolve(path) # NULL, fs[fs_resolve(path)].type = "file",
             Written(fs, fs_resolve(path), data)
      PROVE  Dotless(fs') /\ DiskDots' /\ Undotted(fs', current_dir)
  <2>1. PICK file \in DOMAIN fs : file = fs_resolve(path)
    BY <1>0, <1>1, <1>4, Resolves
  <2>. QED
    BY <1>0, <1>1, <1>2, <1>4, <2>1, WrittenDots
<1>5. ASSUME NEW path \in Creatable, fs_resolve(path) = NULL,
             Written(Create(fs, Start(path), path.comps, "file"), Min(Ids \ DOMAIN fs), data)
      PROVE  Dotless(fs') /\ DiskDots' /\ Undotted(fs', current_dir)
  <2>1. PICK t : t = Create(fs, Start(path), path.comps, "file")
    OBVIOUS
  <2>2. PICK file : file = Min(Ids \ DOMAIN fs)
    OBVIOUS
  <2>3. Tree(t) /\ file \in DOMAIN t /\ t[file].type = "file"
    BY <1>0, <1>1, <2>1, <2>2, CreateKeeps
  <2>4. Dotless(t) /\ current_dir \in DOMAIN t /\ Undotted(t, current_dir)
    BY <1>0, <1>1, <1>2, <1>5, <2>1, CreatableDots
  <2>. QED
    BY <1>0, <1>5, <2>1, <2>2, <2>3, <2>4, WrittenDots
<1>6. Dotless(fs') /\ DiskDots' /\ Undotted(fs', current_dir)
  BY <1>3, <1>4, <1>5
<1>. QED
  BY <1>1, <1>6 DEF DotInv, Undotted

\* rm.
LEMMA RmDots ==
    ASSUME Inv, DotInv, Rm
    PROVE  DotInv'
<1>0. Tree(fs) /\ Dotless(fs) /\ DiskDots
  BY DEF Inv, DotInv
<1>1. Prompt /\ current_dir' = current_dir /\ current_dir \in DOMAIN fs
  BY DEF Rm, Prompt
<1>2. PICK node \in Removable : Finish(Unlink(fs, node), TRUE)
  BY DEF Rm
<1>3. node \in DOMAIN fs \ {Root}
  <2>1. PICK path \in Path : node = fs_resolve(path) /\ node # NULL /\ node # Root
    BY DEF Removable
  <2>. QED
    BY <1>0, <1>1, <2>1, Resolves
<1>4. PICK t : t = Unlink(fs, node)
  OBVIOUS
<1>5. Tree(t)
  BY <1>0, <1>3, <1>4, UnlinkKeeps
<1>6. Dotless(t) /\ \A n \in DOMAIN t : Undotted(fs, n) => Undotted(t, n)
  BY <1>0, <1>3, <1>4, UnlinkDotless
<1>7. fs' = t /\ Dotless(fs') /\ DiskDots'
  BY <1>0, <1>2, <1>4, <1>5, <1>6, FinishDots DEF Finish
<1>8. current_dir' \in DOMAIN fs' => Undotted(fs', current_dir')
  BY <1>1, <1>6, <1>7 DEF DotInv
<1>. QED
  BY <1>7, <1>8 DEF DotInv, Undotted

\* The mount at boot, and a login.
LEMMA RestartDots ==
    ASSUME Inv, DotInv, Restart
    PROVE  DotInv'
<1>1. fs' = Restore(disk) /\ disk' = disk
  BY DEF Restart
<1>2. PICK t : t = Restore(disk)
  OBVIOUS
<1>3. Tree(t) /\ Dotless(t)
  BY <1>2, RestoreTree, RestoreDotless DEF Inv, DiskOK, DotInv, DiskDots
<1>4. PICK u \in Users : current_dir' \in {Root, WalkFrom(t, Root, Home[u])} \ {NULL}
  BY <1>1, <1>2, Constants DEF Restart
<1>5. WalkFrom(t, Root, Home[u]) # NULL => Undotted(t, WalkFrom(t, Root, Home[u]))
  BY <1>3, HomeDots
<1>6. Undotted(t, current_dir')
  BY <1>4, <1>5 DEF Undotted
<1>7. DiskDots'
  BY <1>1 DEF DotInv, DiskDots
<1>. QED
  BY <1>1, <1>2, <1>3, <1>6, <1>7 DEF DotInv, Undotted

\* No step makes a node with children, or a file, that could not be found.
LEMMA NextDots == Inv /\ DotInv /\ [Next]_vars => DotInv'
<1> SUFFICES ASSUME Inv, DotInv, [Next]_vars PROVE DotInv'
  OBVIOUS
<1>1. CASE Other \/ Cd \/ Su
  BY <1>1, OtherDots
<1>2. CASE Mkdir \/ Touch
  BY <1>2, MakeDots
<1>3. CASE Echo
  BY <1>3, EchoDots
<1>4. CASE Rm
  BY <1>4, RmDots
<1>5. CASE Restart
  BY <1>5, RestartDots
<1>6. CASE UNCHANGED vars
  BY <1>6 DEF vars, DotInv, DiskDots, Undotted
<1>. QED
  BY <1>1, <1>2, <1>3, <1>4, <1>5, <1>6 DEF Next

\* It holds in every state.
LEMMA AlwaysDots == Spec => [](Inv /\ DotInv)
BY InitInv, InitDots, NextInv, NextDots, PTL DEF Spec
-----------------------------------------------------------------------------
(* The way through the snapshot.                                           *)

\* The least number of a set.
LEMMA MinLeast ==
    ASSUME NEW T \in SUBSET Nat, T # {}
    PROVE  Min(T) \in T /\ \A n \in T : Min(T) <= n
<1>1. \E m \in T : \A n \in T : m <= n
  BY LeastNumber
<1>. QED
  BY <1>1, Zenon DEF Min

\* x lists the nodes of t, parents first and siblings in their order.
Listed(t, N, x) ==
    /\ N \in Nat /\ N >= 1 /\ N <= MaxNodes
    /\ x \in [0 .. N - 1 -> DOMAIN t] /\ x[0] = Root
    /\ \A i, j \in 0 .. N - 1 : x[i] = x[j] => i = j
    /\ \A n \in DOMAIN t : \E i \in 0 .. N - 1 : x[i] = n
    /\ \A i \in 0 .. N - 1 : \A a \in DOMAIN t[x[i]].kids :
        \E j \in 0 .. N - 1 : j > i /\ x[j] = t[x[i]].kids[a]
    /\ \A i, j, k \in 0 .. N - 1 : \A a, b \in DOMAIN t[x[i]].kids :
        x[j] = t[x[i]].kids[a] /\ x[k] = t[x[i]].kids[b] /\ a < b => j < k

\* The order of the snapshot is such a list.
LEMMA ListedIs ==
    ASSUME NEW t, Tree(t), NEW s, s = Subtree(t, Root), NEW N, N = Len(s),
           NEW x, x = [i \in 0 .. N - 1 |-> s[i + 1]]
    PROVE  Listed(t, N, x)
<1>1. Root \in DOMAIN t /\ Typed(t) /\ Linked(t)
  BY DEF Tree, Typed
<1>2. Part(t, Root, Len(t[Root].kids), s)
  BY <1>1, SubtreePart
<1>3. /\ s \in Seq(DOMAIN t) /\ N >= 1 /\ N \in Nat /\ DOMAIN s = 1 .. N /\ s[1] = Root
      /\ \A i, j \in 1 .. N : s[i] = s[j] => i = j
  <2>1. s \in Seq(DOMAIN t) /\ Len(s) >= 1 /\ s[1] = Root
    BY <1>2 DEF Part, Once
  <2>2. N >= 1 /\ N \in Nat /\ DOMAIN s = 1 .. N
    BY <2>1, LenProperties
  <2>3. \A i, j \in DOMAIN s : s[i] = s[j] => i = j
    BY <1>2 DEF Part, Once
  <2>. QED
    BY <2>1, <2>2, <2>3
<1>4. N <= MaxNodes
  BY <1>1, WholeTree, Finite
<1>5. /\ \A i \in 0 .. N - 1 : i + 1 \in 1 .. N /\ x[i] = s[i + 1]
      /\ \A i \in 1 .. N : i - 1 \in 0 .. N - 1 /\ x[i - 1] = s[i]
  BY <1>3
<1>6. x \in [0 .. N - 1 -> DOMAIN t] /\ x[0] = Root
  <2>1. \A i \in 1 .. N : s[i] \in DOMAIN t
    BY <1>3, ElementOfSeq
  <2>2. x[0] = s[1]
    BY <1>3, <1>5
  <2>. QED
    BY <1>3, <1>5, <2>1, <2>2
<1>7. \A i, j \in 0 .. N - 1 : x[i] = x[j] => i = j
  BY <1>3, <1>5
<1>8. \A n \in DOMAIN t : \E i \in 0 .. N - 1 : x[i] = n
  <2> SUFFICES ASSUME NEW n \in DOMAIN t PROVE \E i \in 0 .. N - 1 : x[i] = n
    OBVIOUS
  <2>0. {s[i] : i \in DOMAIN s} = DOMAIN t
    BY WholeTree
  <2>1. PICK i \in 1 .. N : s[i] = n
    BY <1>3, <2>0
  <2>. QED
    BY <1>5, <2>1
<1>9. ASSUME NEW i \in 0 .. N - 1, NEW a \in DOMAIN t[x[i]].kids
      PROVE  \E j \in 0 .. N - 1 : j > i /\ x[j] = t[x[i]].kids[a]
  <2>1. \A m \in 1 .. N : \A b \in DOMAIN t[s[m]].kids :
          (m = 1 => b <= Len(t[Root].kids)) => \E j \in 1 .. N : j > m /\ s[j] = t[s[m]].kids[b]
    <3>1. \A m \in DOMAIN s : \A b \in DOMAIN t[s[m]].kids :
            (m = 1 => b <= Len(t[Root].kids))
              => \E j \in DOMAIN s : j > m /\ s[j] = t[s[m]].kids[b]
      BY <1>2, Zenon DEF Part, Closed
    <3>2. DOMAIN s = 1 .. N
      BY <1>3, Zenon
    <3>. QED
      BY <3>1, <3>2
  <2>2. PICK m \in 1 .. N : m = i + 1 /\ x[i] = s[m]
    BY <1>5
  <2>3. a \in DOMAIN t[s[m]].kids
    BY <1>9, <2>2
  <2>4. m = 1 => a <= Len(t[Root].kids)
    <3> SUFFICES ASSUME m = 1 PROVE a <= Len(t[Root].kids)
      OBVIOUS
    <3>1. a \in DOMAIN t[Root].kids
      BY <1>3, <2>3
    <3>2. DOMAIN t[Root].kids = 1 .. Len(t[Root].kids) /\ Len(t[Root].kids) \in Nat
      BY <1>1, KidsAre
    <3>. QED
      BY <3>1, <3>2
  <2>5. PICK j \in 1 .. N : j > m /\ s[j] = t[s[m]].kids[a]
    BY <2>1, <2>3, <2>4
  <2>6. j - 1 \in 0 .. N - 1 /\ j - 1 > i /\ x[j - 1] = s[j]
    BY <1>5, <2>2, <2>5
  <2>. QED
    BY <2>2, <2>5, <2>6
<1>10. \A i, j, k \in 0 .. N - 1 : \A a, b \in DOMAIN t[x[i]].kids :
         x[j] = t[x[i]].kids[a] /\ x[k] = t[x[i]].kids[b] /\ a < b => j < k
  <2> TAKE i, j, k \in 0 .. N - 1
  <2> TAKE a, b \in DOMAIN t[x[i]].kids
  <2> HAVE x[j] = t[x[i]].kids[a] /\ x[k] = t[x[i]].kids[b] /\ a < b
  <2>1. \A m, q, w \in DOMAIN s : \A c, d \in DOMAIN t[s[m]].kids :
          s[q] = t[s[m]].kids[c] /\ s[w] = t[s[m]].kids[d] /\ c < d => q < w
    <3>1. InOrder(t, s)
      BY <1>2 DEF Part
    <3>. QED
      BY <3>1, Zenon DEF InOrder
  <2>2. PICK m \in 1 .. N, q \in 1 .. N, w \in 1 .. N :
          /\ m = i + 1 /\ q = j + 1 /\ w = k + 1
          /\ x[i] = s[m] /\ x[j] = s[q] /\ x[k] = s[w]
    BY <1>5
  <2>3. /\ s[q] = t[s[m]].kids[a] /\ s[w] = t[s[m]].kids[b] /\ a < b
        /\ a \in DOMAIN t[s[m]].kids /\ b \in DOMAIN t[s[m]].kids
        /\ m \in DOMAIN s /\ q \in DOMAIN s /\ w \in DOMAIN s
    BY <1>3, <2>2
  <2>4. q < w
    <3>1. m \in DOMAIN s /\ q \in DOMAIN s /\ w \in DOMAIN s
      BY <2>3
    <3>2. \A f, g \in DOMAIN s : \A c, d \in DOMAIN t[s[m]].kids :
            s[f] = t[s[m]].kids[c] /\ s[g] = t[s[m]].kids[d] /\ c < d => f < g
      BY <2>1, <3>1, Zenon
    <3>3. \A c, d \in DOMAIN t[s[m]].kids :
            s[q] = t[s[m]].kids[c] /\ s[w] = t[s[m]].kids[d] /\ c < d => q < w
      BY <3>1, <3>2, Zenon
    <3>. QED
      BY <2>3, <3>3, Zenon
  <2>. QED
    BY <2>2, <2>4
<1>11. \A i \in 0 .. N - 1 : \A a \in DOMAIN t[x[i]].kids :
         \E j \in 0 .. N - 1 : j > i /\ x[j] = t[x[i]].kids[a]
  BY <1>9
<1>. QED
  BY <1>3, <1>4, <1>6, <1>7, <1>8, <1>10, <1>11, Zenon DEF Listed

\* u is what t is as far as its first nodes go, k besides the root: a node of u
\* is a place in the list, and its children are the first ones of that node.
Shape(t, x, k, u) ==
    /\ Tree(u) /\ DOMAIN u = 0 .. k
    /\ \A i \in 0 .. k : u[i].type = t[x[i]].type
    /\ \A i \in 1 .. k : u[i].name = t[x[i]].name
    /\ \A i \in 0 .. k : \A a \in DOMAIN u[i].kids :
        a \in DOMAIN t[x[i]].kids /\ x[u[i].kids[a]] = t[x[i]].kids[a]

\* Parents are the ones of t.
LEMMA ParentPlaced ==
    ASSUME NEW t, Tree(t), NEW N, NEW x, Listed(t, N, x), NEW k \in 0 .. N - 1,
           NEW u, Shape(t, x, k, u), NEW j \in 1 .. k
    PROVE  /\ u[j].parent \in 0 .. k /\ x[j] \in DOMAIN t \ {Root}
           /\ x[u[j].parent] = t[x[j]].parent
           /\ \E a \in DOMAIN u[u[j].parent].kids : u[u[j].parent].kids[a] = j
<1>1. N \in Nat /\ j \in DOMAIN u \ {Root} /\ j \in 0 .. N - 1 /\ 0 \in 0 .. N - 1
  BY DEF Listed, Shape, Root
<1>2. PICK p \in 0 .. k : p = u[j].parent /\ \E a \in DOMAIN u[p].kids : u[p].kids[a] = j
  BY <1>1 DEF Shape, Tree, Linked
<1>3. PICK a \in DOMAIN u[p].kids : u[p].kids[a] = j
  BY <1>2
<1>4. a \in DOMAIN t[x[p]].kids /\ x[j] = t[x[p]].kids[a]
  BY <1>2, <1>3 DEF Shape
<1>5. x[p] \in DOMAIN t
  BY <1>1, <1>2 DEF Listed
<1>6. t[x[j]].parent = x[p] /\ x[j] \in DOMAIN t \ {Root}
  BY <1>4, <1>5 DEF Tree, Linked
<1>. QED
  BY <1>2, <1>3, <1>6

\* A child that is there is in its place.
LEMMA KidPlaced ==
    ASSUME NEW t, Tree(t), NEW N, NEW x, Listed(t, N, x), NEW k \in 0 .. N - 1,
           NEW u, Shape(t, x, k, u), NEW i \in 0 .. k, NEW b \in DOMAIN t[x[i]].kids,
           NEW j \in 0 .. k, x[j] = t[x[i]].kids[b]
    PROVE  b \in DOMAIN u[i].kids /\ u[i].kids[b] = j
<1>1. N \in Nat /\ i \in 0 .. N - 1 /\ j \in 0 .. N - 1 /\ x[i] \in DOMAIN t /\ x[0] = Root
  BY DEF Listed
<1>2. x[j] \in DOMAIN t \ {Root} /\ t[x[j]].parent = x[i]
  BY <1>1 DEF Tree, Linked
<1>3. j \in 1 .. k
  BY <1>1, <1>2
<1>4. PICK p : p = u[j].parent
  OBVIOUS
<1>9. p \in 0 .. k /\ x[p] = t[x[j]].parent
  BY <1>3, <1>4, ParentPlaced
<1>10. \E a \in DOMAIN u[p].kids : u[p].kids[a] = j
  BY <1>3, <1>4, ParentPlaced
<1>5. p = i
  BY <1>1, <1>2, <1>9 DEF Listed
<1>6. PICK a \in DOMAIN u[i].kids : u[i].kids[a] = j
  BY <1>5, <1>10
<1>7. a \in DOMAIN t[x[i]].kids /\ x[j] = t[x[i]].kids[a]
  BY <1>6 DEF Shape
<1>8. a = b
  BY <1>1, <1>7 DEF Tree, Apart
<1>. QED
  BY <1>6, <1>8

\* What comes before the last component, and that.
LEMMA FrontOfAppend ==
    ASSUME NEW S, NEW p \in Seq(S), NEW c \in S
    PROVE  /\ Append(p, c) \in Seq(S) /\ Append(p, c) # <<>>
           /\ Front(Append(p, c)) = p /\ Last(Append(p, c)) = c
<1>1. PICK q : q = Append(p, c)
  OBVIOUS
<1>2. /\ q \in Seq(S) /\ Len(q) = Len(p) + 1 /\ Len(p) \in Nat
      /\ q[Len(p) + 1] = c /\ \A i \in 1 .. Len(p) : q[i] = p[i]
  BY <1>1, AppendProperties, LenProperties
<1>3. Front(q) = SubSeq(q, 1, Len(p))
  BY <1>2 DEF Front
<1>4. /\ SubSeq(q, 1, Len(p)) \in Seq(S) /\ Len(SubSeq(q, 1, Len(p))) = Len(p)
      /\ \A i \in 1 .. Len(p) : SubSeq(q, 1, Len(p))[i] = q[i]
  <2>1. \A i \in 1 .. Len(p) : q[i] \in S
    BY <1>2, ElementOfSeq
  <2>. QED
    BY <1>2, <2>1, SubSeqProperties
<1>5. Front(q) = p
  <2>1. PICK f : f = Front(q)
    OBVIOUS
  <2>2. f \in Seq(S) /\ Len(f) = Len(p) /\ \A i \in 1 .. Len(p) : f[i] = p[i]
    BY <1>2, <1>3, <1>4, <2>1
  <2>. QED
    BY <2>1, <2>2, SeqEqual
<1>. QED
  BY <1>1, <1>2, <1>5 DEF Last

\* The path of a node that can be found leads to its place.
LEMMA Reach ==
    ASSUME NEW t, Tree(t), Dotless(t), NEW N, NEW x, Listed(t, N, x), NEW k \in 0 .. N - 1,
           NEW u, Shape(t, x, k, u), NEW q \in 0 .. k, Undotted(t, x[q])
    PROVE  WalkFrom(u, Root, TruePath(t, x[q])) = q
<1> DEFINE Y == {m \in 0 .. k : Undotted(t, x[m]) => WalkFrom(u, Root, TruePath(t, x[m])) = m}
<1>0. /\ N \in Nat /\ x[0] = Root /\ 0 \in 0 .. k /\ Tree(u) /\ DOMAIN u = 0 .. k
      /\ \A m \in 0 .. k : x[m] \in DOMAIN t
  BY DEF Listed, Shape
<1>1. Root \in Y
  <2>1. TruePath(t, x[0]) = <<>>
    BY <1>0, PathRec
  <2>. QED
    BY <1>0, <2>1, WalkNone DEF Root
<1>2. ASSUME NEW m \in DOMAIN u \ {Root}, u[m].parent \in Y PROVE m \in Y
  <2> SUFFICES ASSUME Undotted(t, x[m]) PROVE WalkFrom(u, Root, TruePath(t, x[m])) = m
    BY <1>0
  <2>1. m \in 1 .. k
    BY <1>0 DEF Root
  <2>2. PICK p : p = u[m].parent
    OBVIOUS
  <2>3. p \in 0 .. k /\ x[m] \in DOMAIN t \ {Root} /\ x[p] = t[x[m]].parent
    BY <2>1, <2>2, ParentPlaced
  <2>4. PICK a \in DOMAIN u[p].kids : u[p].kids[a] = m
    BY <2>1, <2>2, ParentPlaced
  <2>5. Undotted(t, x[p])
    BY <2>3, ParentUndotted DEF Tree
  <2>6. PICK P, Q, name : P = TruePath(t, x[p]) /\ Q = TruePath(t, x[m]) /\ name = t[x[m]].name
    OBVIOUS
  <2>7. WalkFrom(u, Root, P) = p
    BY <1>2, <2>2, <2>3, <2>5, <2>6
  <2>8. P \in Seq(Component) /\ name \in Component /\ Q = Append(P, name)
    BY <1>0, <2>3, <2>6, PathRec DEF Tree, Typed
  <2>9. Q \in Seq(Component) /\ Q # <<>> /\ Front(Q) = P /\ Last(Q) = name
    BY <2>8, FrontOfAppend
  <2>10. WalkFrom(u, Root, Q) = WalkStep(u, p, name)
    BY <2>7, <2>9, WalkLast DEF ParentOf
  <2>11. name \notin Dots /\ u[m].name = name
    BY <2>1, <2>3, <2>6 DEF Undotted, Shape
  <2>12. p # NULL
    BY <1>0, <2>3, Constants DEF Tree, Typed
  <2>13. WalkStep(u, p, name) = find_child(u, p, name)
    BY <2>11, <2>12 DEF WalkStep, Dots
  <2>14. PICK c : c = find_child(u, p, name)
    OBVIOUS
  <2>15. Found(u, p, name, c)
    BY <1>0, <2>3, <2>14, ChildIs DEF Tree
  <2>16. PICK b \in DOMAIN u[p].kids : c = u[p].kids[b] /\ u[c].name = name
    BY <2>4, <2>11, <2>15 DEF Found
  <2>17. b = a
    BY <1>0, <2>3, <2>4, <2>11, <2>16 DEF Tree, Apart
  <2>. QED
    BY <2>4, <2>6, <2>10, <2>13, <2>14, <2>16, <2>17
<1> HIDE DEF Y
<1>3. DOMAIN u \subseteq Y
  BY <1>0, <1>1, <1>2, DownInduction
<1>. QED
  BY <1>0, <1>3 DEF Y

\* n is the next child of the node at p, which has the children before it.
NextAt(t, x, u, n, p) ==
    /\ n \in DOMAIN t \ {Root} /\ t[n].parent = x[p] /\ t[x[p]].type = "dir"
    /\ Len(u[p].kids) + 1 \in DOMAIN t[x[p]].kids
    /\ t[x[p]].kids[Len(u[p].kids) + 1] = n
    /\ \A a \in DOMAIN u[p].kids : u[u[p].kids[a]].name # t[n].name

\* The directory the next node of the list goes into: it is there, and has the
\* children that come before it.
LEMMA NextPlace ==
    ASSUME NEW t, Tree(t), NEW N, NEW x, Listed(t, N, x), NEW k \in 0 .. N - 1, k + 1 <= N - 1,
           NEW u, Shape(t, x, k, u)
    PROVE  \E p \in 0 .. k : NextAt(t, x, u, x[k + 1], p)
<1>0. /\ N \in Nat /\ x[0] = Root /\ k \in Nat /\ k + 1 \in 0 .. N - 1 /\ 0 \in 0 .. N - 1
      /\ \A i \in 0 .. N - 1 : x[i] \in DOMAIN t
      /\ \A i, j \in 0 .. N - 1 : x[i] = x[j] => i = j
  BY DEF Listed
<1>1. PICK n : n = x[k + 1]
  OBVIOUS
<1>2. n \in DOMAIN t \ {Root}
  BY <1>0, <1>1
<1>3. PICK m \in DOMAIN t : m = t[n].parent /\ \E a \in DOMAIN t[m].kids : t[m].kids[a] = n
  BY <1>2 DEF Tree, Linked
<1>4. PICK a \in DOMAIN t[m].kids : t[m].kids[a] = n
  BY <1>3
<1>5. PICK p \in 0 .. N - 1 : x[p] = m
  BY <1>3 DEF Listed
<1>6. p <= k
  <2>1. PICK j \in 0 .. N - 1 : j > p /\ x[j] = n
    BY <1>4, <1>5 DEF Listed
  <2>2. j = k + 1
    BY <1>0, <1>1, <2>1
  <2>. QED
    BY <1>0, <2>1, <2>2
<1>7. p \in 0 .. k /\ p \in DOMAIN u /\ Typed(u) /\ Linked(u) /\ Typed(t) /\ Linked(t)
  BY <1>0, <1>6 DEF Shape, Tree
<1>8. PICK L \in Nat : L = Len(u[p].kids) /\ DOMAIN u[p].kids = 1 .. L
  BY <1>7, KidsAre
<1>9. PICK M \in Nat : M = Len(t[m].kids) /\ DOMAIN t[m].kids = 1 .. M
  BY <1>3, <1>7, KidsAre
<1>10. t[m].type = "dir"
  <2>1. NodeOK(t, m)
    BY <1>3, <1>7, NodeIs
  <2>2. t[m].type = "file" => DOMAIN t[m].kids = {}
    BY <2>1 DEF NodeOK
  <2>. QED
    BY <1>4, <2>1, <2>2 DEF NodeOK
<1>11. ASSUME NEW b \in DOMAIN u[p].kids PROVE u[u[p].kids[b]].name # t[n].name
  <2>1. PICK c : c = u[p].kids[b]
    OBVIOUS
  <2>2. c \in DOMAIN u \ {Root}
    BY <1>7, <1>11, <2>1 DEF Linked
  <2>3. c \in 1 .. k /\ c \in 0 .. N - 1
    BY <1>0, <2>2 DEF Shape, Root
  <2>4. u[c].name = t[x[c]].name
    BY <2>3 DEF Shape
  <2>5. b \in DOMAIN t[m].kids /\ x[c] = t[m].kids[b]
    BY <1>5, <1>7, <1>11, <2>1 DEF Shape
  <2>6. t[x[c]].name = t[n].name => b = a
    BY <1>3, <1>4, <2>5 DEF Tree, Apart
  <2>7. x[c] = n => c = k + 1
    BY <1>0, <1>1, <2>3
  <2>. QED
    BY <1>0, <1>4, <2>1, <2>3, <2>4, <2>5, <2>6, <2>7
<1>12. a > L
  <2> SUFFICES ASSUME a \in DOMAIN u[p].kids PROVE FALSE
    BY <1>8, <1>9
  <2>1. x[u[p].kids[a]] = n
    BY <1>4, <1>5, <1>7 DEF Shape
  <2>2. u[p].kids[a] \in DOMAIN u \ {Root}
    BY <1>7 DEF Linked
  <2>3. PICK c : c = u[p].kids[a]
    OBVIOUS
  <2>4. c \in 1 .. k /\ c \in 0 .. N - 1 /\ x[c] = n
    BY <1>0, <2>1, <2>2, <2>3 DEF Shape, Root
  <2>. QED
    BY <1>0, <1>1, <2>4
<1>13. L + 1 \in DOMAIN t[m].kids
  BY <1>8, <1>9, <1>12, SMTT(20)
<1>14. a = L + 1
  <2> SUFFICES ASSUME L + 1 < a PROVE FALSE
    BY <1>8, <1>9, <1>12
  <2>1. PICK b : b = L + 1
    OBVIOUS
  <2>2. b \in DOMAIN t[x[p]].kids /\ a \in DOMAIN t[x[p]].kids /\ b < a
    BY <1>5, <1>13, <2>1
  <2>3. PICK j \in 0 .. N - 1 : x[j] = t[x[p]].kids[b]
    BY <2>2 DEF Listed
  <2>4. j < k + 1
    BY <1>0, <1>1, <1>4, <1>5, <2>2, <2>3 DEF Listed
  <2>5. j \in 0 .. k
    BY <1>0, <2>4
  <2>6. b \in DOMAIN u[p].kids
    BY <1>7, <2>2, <2>3, <2>5, KidPlaced
  <2>. QED
    BY <1>8, <2>1, <2>6
<1>. QED
  BY <1>1, <1>2, <1>3, <1>4, <1>5, <1>7, <1>8, <1>10, <1>11, <1>13, <1>14 DEF NextAt

\* The node is made there, with the number of its place.
LEMMA ShapeMade ==
    ASSUME NEW t, Tree(t), Dotless(t), NEW N, NEW x, Listed(t, N, x),
           NEW k \in 0 .. N - 1, k + 1 <= N - 1, NEW u, Shape(t, x, k, u),
           NEW n, n = x[k + 1], NEW P, P = TruePath(t, n),
           NEW w, w = Create(u, Root, P, t[n].type)
    PROVE  /\ CanCreate(u, Root, P)
           /\ Shape(t, x, k + 1, w)
           /\ \A i \in 0 .. k : w[i].data = u[i].data
           /\ w[k + 1].data = Empty
<1>0. /\ N \in Nat /\ k \in Nat /\ N <= MaxNodes /\ k + 1 \in 0 .. N - 1
      /\ \A i \in 0 .. N - 1 : x[i] \in DOMAIN t
      /\ Tree(u) /\ Typed(u) /\ Linked(u) /\ Typed(t) /\ Linked(t) /\ DOMAIN u = 0 .. k
      /\ Root \in DOMAIN u /\ \A i \in 0 .. k : i \in 0 .. N - 1
  BY DEF Listed, Shape, Tree, Typed
<1>1. PICK p \in 0 .. k : /\ n \in DOMAIN t \ {Root} /\ t[n].parent = x[p]
                          /\ t[x[p]].type = "dir"
                          /\ Len(u[p].kids) + 1 \in DOMAIN t[x[p]].kids
                          /\ t[x[p]].kids[Len(u[p].kids) + 1] = n
                          /\ \A a \in DOMAIN u[p].kids : u[u[p].kids[a]].name # t[n].name
  <2>1. PICK p \in 0 .. k : NextAt(t, x, u, x[k + 1], p)
    BY NextPlace
  <2>. QED
    BY <2>1 DEF NextAt
<1>2. PICK Q, name : Q = TruePath(t, x[p]) /\ name = t[n].name
  OBVIOUS
<1>3. Q \in Seq(Component) /\ name \in Component /\ P = Append(Q, name)
  BY <1>0, <1>1, <1>2, PathRec DEF Typed
<1>4. P \in Seq(Component) /\ P # <<>> /\ Front(P) = Q /\ Last(P) = name
  BY <1>3, FrontOfAppend
<1>5. Undotted(t, x[p])
  BY <1>0, <1>1, ParentUndotted
<1>6. ParentOf(u, Root, P) = p
  BY <1>2, <1>4, <1>5, Reach DEF ParentOf
<1>7. p \in DOMAIN u /\ p # NULL /\ u[p].type = "dir"
  BY <1>0, <1>1, Constants DEF Shape, Typed
<1>8. find_child(u, p, name) = NULL
  <2>1. PICK c : c = find_child(u, p, name)
    OBVIOUS
  <2>2. Found(u, p, name, c)
    BY <1>0, <1>7, <2>1, ChildIs
  <2>. QED
    BY <1>1, <1>2, <2>1, <2>2 DEF Found
<1>9. k + 1 \in Ids \ DOMAIN u
  BY <1>0, Constants DEF Ids
<1>10. CanCreate(u, Root, P)
  BY <1>4, <1>6, <1>7, <1>8, <1>9 DEF CanCreate
<1>11. t[n].type \in {"dir", "file"}
  BY <1>0, <1>1, NodeIs DEF NodeOK
<1>12. PICK new : /\ new = Min(Ids \ DOMAIN u)
                  /\ Made(u, p, name, t[n].type, new, w)
  BY <1>0, <1>4, <1>6, <1>10, <1>11, CreateMakes
<1>13. new = k + 1
  <2>1. PICK T : T = Ids \ DOMAIN u
    OBVIOUS
  <2>2. T \in SUBSET Nat /\ k + 1 \in T
    BY <1>9, <2>1, Constants
  <2>3. new \in T /\ new <= k + 1
    BY <1>12, <2>1, <2>2, MinLeast
  <2>4. new \in Nat /\ ~ new <= k
    BY <1>0, <2>1, <2>2, <2>3
  <2>. QED
    BY <1>0, <2>3, <2>4
<1>14. Tree(w)
  BY <1>0, <1>12, MadeKeeps
<1>15. MadeOK(u, p, name, t[n].type, new, w)
  BY <1>0, <1>12, MadeIs
<1>16. DOMAIN w = 0 .. k + 1
  <2>1. DOMAIN w = (0 .. k) \union {k + 1}
    BY <1>0, <1>12, <1>13 DEF Made
  <2>. QED
    BY <1>0, <2>1
<1>17. \A i \in 0 .. k + 1 : w[i].type = t[x[i]].type
  <2>1. \A i \in 0 .. k : w[i].type = u[i].type
    <3>1. \A i \in 0 .. k : i \in DOMAIN u
      BY <1>0
    <3>2. \A i \in DOMAIN u : w[i].type = u[i].type
      BY <1>15, Zenon DEF MadeOK
    <3>. QED
      BY <3>1, <3>2, Zenon
  <2>2. w[k + 1].type = t[n].type
    BY <1>13, <1>15 DEF MadeOK
  <2>3. \A i \in 0 .. k + 1 : i = k + 1 \/ i \in 0 .. k
    BY <1>0
  <2>4. \A i \in 0 .. k : u[i].type = t[x[i]].type
    BY DEF Shape
  <2>. QED
    BY <2>1, <2>2, <2>3, <2>4
<1>18. \A i \in 1 .. k + 1 : w[i].name = t[x[i]].name
  <2>1. \A i \in 1 .. k : w[i].name = u[i].name
    <3>1. \A i \in 1 .. k : i \in DOMAIN u
      BY <1>0
    <3>2. \A i \in DOMAIN u : w[i].name = u[i].name
      BY <1>15, Zenon DEF MadeOK
    <3>. QED
      BY <3>1, <3>2, Zenon
  <2>2. w[k + 1].name = t[n].name
    BY <1>2, <1>13, <1>15 DEF MadeOK
  <2>3. \A i \in 1 .. k + 1 : i = k + 1 \/ i \in 1 .. k
    BY <1>0
  <2>4. \A i \in 1 .. k : u[i].name = t[x[i]].name
    BY DEF Shape
  <2>. QED
    BY <2>1, <2>2, <2>3, <2>4
<1>19. ASSUME NEW i \in 0 .. k + 1, NEW a \in DOMAIN w[i].kids
       PROVE  a \in DOMAIN t[x[i]].kids /\ x[w[i].kids[a]] = t[x[i]].kids[a]
  <2>1. CASE i = p
    <3>1. PICK L \in Nat : L = Len(u[p].kids) /\ DOMAIN u[p].kids = 1 .. L
      BY <1>15 DEF MadeOK
    <3>2. /\ DOMAIN w[p].kids = 1 .. L + 1 /\ w[p].kids[L + 1] = k + 1
          /\ \A b \in 1 .. L : w[p].kids[b] = u[p].kids[b]
      BY <1>13, <1>15, <3>1 DEF MadeOK
    <3>3. a \in 1 .. L \/ a = L + 1
      BY <1>19, <2>1, <3>1, <3>2, SMTT(20)
    <3>4. CASE a = L + 1
      BY <1>1, <2>1, <3>1, <3>2, <3>4
    <3>5. CASE a \in 1 .. L
      <4>1. a \in DOMAIN u[p].kids /\ w[p].kids[a] = u[p].kids[a]
        BY <3>1, <3>2, <3>5
      <4>. QED
        BY <2>1, <4>1 DEF Shape
    <3>. QED
      BY <3>3, <3>4, <3>5
  <2>2. CASE i = k + 1
    <3>1. w[i].kids = <<>>
      BY <1>13, <1>15, <2>2 DEF MadeOK
    <3>2. DOMAIN w[i].kids = {}
      BY <3>1
    <3>. QED
      BY <1>19, <3>2
  <2>3. CASE i \in 0 .. k /\ i # p
    <3>1. w[i].kids = u[i].kids
      BY <1>0, <1>15, <2>3 DEF MadeOK
    <3>. QED
      BY <1>19, <2>3, <3>1 DEF Shape
  <2>4. i = k + 1 \/ i \in 0 .. k
    BY <1>0
  <2>. QED
    BY <2>1, <2>2, <2>3, <2>4
<1>20. Shape(t, x, k + 1, w)
  BY <1>14, <1>16, <1>17, <1>18, <1>19 DEF Shape
<1>21. \A i \in 0 .. k : w[i].data = u[i].data
  BY <1>0, <1>15 DEF MadeOK
<1>22. w[k + 1].data = Empty
  BY <1>13, <1>15 DEF MadeOK
<1>. QED
  BY <1>10, <1>20, <1>21, <1>22

\* The contents are there too.
Full(t, x, k, u) == Shape(t, x, k, u) /\ \A i \in 0 .. k : u[i].data = t[x[i]].data

\* w is u with new contents in a file.
Rewritten(u, file, data, w) == w = [u EXCEPT ![file].data = data]

\* They leave the shape as it is.
LEMMA ShapeWritten ==
    ASSUME NEW t, NEW x, NEW k, NEW u, Shape(t, x, k, u),
           NEW file \in 0 .. k, u[file].type = "file", NEW data \in Data,
           NEW w, Rewritten(u, file, data, w)
    PROVE  /\ Shape(t, x, k, w) /\ w[file].data = data
           /\ \A i \in 0 .. k : i # file => w[i].data = u[i].data
<1>1. DOMAIN u = 0 .. k /\ Tree(u) /\ file \in DOMAIN u
  BY DEF Shape
<1>2. Tree(w)
  BY <1>1, WriteKeeps DEF Rewritten
<1>3. u[file] \in File \/ u[file] \in Dir
  BY <1>1 DEF Tree, Typed
<1>4. w[file] = [u[file] EXCEPT !.data = data] /\ DOMAIN w = DOMAIN u
      /\ \A i \in DOMAIN u \ {file} : w[i] = u[i]
  BY <1>1 DEF Rewritten
<1>5. /\ w[file].name = u[file].name /\ w[file].type = u[file].type
      /\ w[file].kids = u[file].kids /\ w[file].data = data
  BY <1>3, <1>4 DEF File, Dir
<1>6. \A i \in DOMAIN u : w[i].name = u[i].name /\ w[i].type = u[i].type /\ w[i].kids = u[i].kids
  BY <1>4, <1>5
<1>7. Shape(t, x, k, w)
  <2>1. \A i \in 0 .. k : w[i].type = t[x[i]].type
    BY <1>1, <1>6 DEF Shape
  <2>2. \A i \in 1 .. k : i \in 0 .. k
    OBVIOUS
  <2>3. \A i \in 1 .. k : w[i].name = t[x[i]].name
    BY <1>1, <1>6, <2>2 DEF Shape
  <2>4. \A i \in 0 .. k : \A a \in DOMAIN w[i].kids :
          a \in DOMAIN t[x[i]].kids /\ x[w[i].kids[a]] = t[x[i]].kids[a]
    BY <1>1, <1>6 DEF Shape
  <2>. QED
    BY <1>1, <1>2, <1>4, <2>1, <2>3, <2>4 DEF Shape
<1>. QED
  BY <1>1, <1>4, <1>5, <1>7

\* A round of the loop puts the next node where it was.
LEMMA FullStep ==
    ASSUME NEW t, Tree(t), Dotless(t), NEW N, NEW x, Listed(t, N, x),
           NEW k \in 0 .. N - 1, k + 1 <= N - 1, NEW u, Full(t, x, k, u),
           NEW n, n = x[k + 1], NEW e, e = <<TruePath(t, n), t[n].type, t[n].data>>
    PROVE  Full(t, x, k + 1, RestoreNode(u, e))
<1>1. PICK P, type, data : P = TruePath(t, n) /\ type = t[n].type /\ data = t[n].data
  OBVIOUS
<1>2. PICK w : w = Create(u, Root, P, type)
  OBVIOUS
<1>3. Shape(t, x, k, u)
  BY DEF Full
<1>4. CanCreate(u, Root, P)
  BY <1>1, <1>2, <1>3, ShapeMade
<1>5. Shape(t, x, k + 1, w)
  BY <1>1, <1>2, <1>3, ShapeMade
<1>6. \A i \in 0 .. k : w[i].data = u[i].data
  BY <1>1, <1>2, <1>3, ShapeMade
<1>7. w[k + 1].data = Empty
  BY <1>1, <1>2, <1>3, ShapeMade
<1>8. PICK node : node = WalkFrom(w, Root, P)
  OBVIOUS
<1>9. RestoreNode(u, e) = IF node # NULL /\ w[node].type = "file" /\ data # Empty
                          THEN [w EXCEPT ![node].data = data] ELSE w
  <2>1. e[1] = P /\ e[2] = type /\ e[3] = data
    BY <1>1
  <2>. QED
    BY <1>2, <1>4, <1>8, <2>1 DEF RestoreNode
<1>10. /\ N \in Nat /\ k \in Nat /\ k + 1 \in 0 .. N - 1 /\ k + 1 \in 0 .. k + 1
       /\ n \in DOMAIN t /\ Typed(t)
       /\ \A i \in 0 .. k + 1 : i = k + 1 \/ (i \in 0 .. k /\ i # k + 1)
  BY DEF Listed, Tree
<1>11. data \in Data /\ (type = "dir" => data = Empty)
  BY <1>1, <1>10, NodeIs DEF NodeOK
<1>12. \A i \in 0 .. k : w[i].data = t[x[i]].data
  BY <1>6 DEF Full
<1>13. CASE Undotted(t, n)
  <2>1. node = k + 1
    BY <1>1, <1>5, <1>8, <1>10, <1>13, Reach
  <2>2. w[node].type = type
    BY <1>1, <1>5, <1>10, <2>1 DEF Shape
  <2>3. node # NULL
    BY <1>10, <2>1, Constants
  <2>4. CASE type = "file" /\ data # Empty
    <3>1. PICK v, K : Rewritten(w, node, data, v) /\ K = k + 1
      BY Zenon DEF Rewritten
    <3>2. node \in 0 .. K /\ w[node].type = "file" /\ Shape(t, x, K, w)
      BY <1>5, <1>10, <2>1, <2>2, <2>4, <3>1
    <3>3. Shape(t, x, K, v)
      BY <1>11, <3>1, <3>2, ShapeWritten
    <3>4. v[node].data = data
      BY <1>11, <3>1, <3>2, ShapeWritten
    <3>5. \A i \in 0 .. K : i # node => v[i].data = w[i].data
      BY <1>11, <3>1, <3>2, ShapeWritten
    <3>6. \A i \in 0 .. k + 1 : v[i].data = t[x[i]].data
      BY <1>1, <1>10, <1>12, <2>1, <3>1, <3>4, <3>5
    <3>7. RestoreNode(u, e) = v
      BY <1>9, <2>2, <2>3, <2>4, <3>1 DEF Rewritten
    <3>. QED
      BY <3>1, <3>3, <3>6, <3>7 DEF Full
  <2>5. CASE type # "file" \/ data = Empty
    <3>1. RestoreNode(u, e) = w
      BY <1>9, <2>2, <2>5
    <3>2. data = Empty
      <4>1. type \in {"dir", "file"}
        BY <1>1, <1>10, NodeIs DEF NodeOK
      <4>. QED
        BY <1>11, <2>5, <4>1
    <3>3. \A i \in 0 .. k + 1 : w[i].data = t[x[i]].data
      BY <1>1, <1>7, <1>10, <1>12, <3>2
    <3>. QED
      BY <1>5, <3>1, <3>3 DEF Full
  <2>. QED
    BY <2>4, <2>5
<1>14. CASE ~ Undotted(t, n)
  <2>1. data = Empty
    BY <1>1, <1>10, <1>11, <1>14 DEF Dotless
  <2>2. RestoreNode(u, e) = w
    BY <1>9, <2>1
  <2>3. \A i \in 0 .. k + 1 : w[i].data = t[x[i]].data
    BY <1>1, <1>7, <1>10, <1>12, <2>1
  <2>. QED
    BY <1>5, <2>2, <2>3 DEF Full
<1>. QED
  BY <1>13, <1>14

\* The loop begins with the root.
LEMMA FullStart ==
    ASSUME NEW t, Tree(t), NEW N, NEW x, Listed(t, N, x)
    PROVE  Full(t, x, 0, Bare)
<1>1. x[0] = Root /\ t[Root].type = "dir" /\ Root \in DOMAIN t /\ Typed(t)
  BY DEF Listed, Tree, Linked, Typed
<1>2. t[Root].data = Empty
  BY <1>1, NodeIs DEF NodeOK
<1>3. /\ DOMAIN Bare = 0 .. 0 /\ Bare[0].type = "dir" /\ Bare[0].data = Empty
      /\ Bare[0].kids = <<>>
  BY DEF Bare, Root
<1>4. DOMAIN Bare[0].kids = {}
  BY <1>3
<1>5. \A i \in 0 .. 0 : i = 0
  OBVIOUS
<1>6. \A i \in 1 .. 0 : FALSE
  OBVIOUS
<1>7. Shape(t, x, 0, Bare)
  BY <1>1, <1>3, <1>4, <1>5, <1>6, BareTree DEF Shape
<1>. QED
  BY <1>1, <1>2, <1>3, <1>5, <1>7 DEF Full

\* All rounds: the tree is the one that was saved, its nodes numbered anew.
LEMMA FullRestored ==
    ASSUME NEW t, Tree(t), Dotless(t), \A n \in DOMAIN t : Len(TruePath(t, n)) <= MaxDepth,
           NEW s, s = Subtree(t, Root), NEW N, N = Len(s),
           NEW x, Listed(t, N, x), \A i \in 0 .. N - 1 : x[i] = s[i + 1]
    PROVE  Full(t, x, N - 1, Restore(Snapshot(t)))
<1>1. PICK es : es = Snapshot(t)
  OBVIOUS
<1>2. /\ es \in Seq(Entry) /\ Len(es) = N - 1
      /\ \A i \in 1 .. N - 1 :
            es[i] = <<fs_abspath(t, s[i + 1]), t[s[i + 1]].type, t[s[i + 1]].data>>
  <2>1. /\ es \in Seq(Entry) /\ Len(es) = Len(s) - 1
        /\ \A i \in 1 .. Len(s) - 1 :
              es[i] = <<fs_abspath(t, s[i + 1]), t[s[i + 1]].type, t[s[i + 1]].data>>
    BY <1>1, SnapshotIs, SMTT(30)
  <2>. QED
    BY <2>1
<1>4. N \in Nat /\ N >= 1 /\ \A i \in 0 .. N - 1 : x[i] \in DOMAIN t
  BY DEF Listed
<1>5. \A i \in 1 .. N - 1 : es[i] = <<TruePath(t, x[i]), t[x[i]].type, t[x[i]].data>>
  <2> SUFFICES ASSUME NEW i \in 1 .. N - 1
               PROVE  es[i] = <<TruePath(t, x[i]), t[x[i]].type, t[x[i]].data>>
    OBVIOUS
  <2>1. i \in 0 .. N - 1
    BY <1>4
  <2>2. x[i] = s[i + 1] /\ x[i] \in DOMAIN t
    BY <1>4, <2>1
  <2>3. fs_abspath(t, x[i]) = TruePath(t, x[i])
    BY <2>2, AbspathIs
  <2>. QED
    BY <1>2, <2>2, <2>3
<1>6. PICK r : Rounds(es, r)
  BY <1>2, RestoreRounds
<1> DEFINE T == {k \in Nat : k <= N - 1 => Full(t, x, k, r[k])}
<1>7. 0 \in T
  BY <1>6, FullStart DEF Rounds
<1>8. ASSUME NEW k \in Nat, k \in T PROVE k + 1 \in T
  <2> SUFFICES ASSUME k + 1 <= N - 1 PROVE Full(t, x, k + 1, r[k + 1])
    OBVIOUS
  <2>1. k \in 0 .. N - 1 /\ k \in 0 .. Len(es) - 1 /\ k <= N - 1 /\ k + 1 \in 1 .. N - 1
    BY <1>2, <1>4
  <2>2. Full(t, x, k, r[k])
    BY <1>8, <2>1
  <2>3. r[k + 1] = RestoreNode(r[k], es[k + 1])
    BY <1>6, <2>1 DEF Rounds
  <2>4. PICK n, e : n = x[k + 1] /\ e = es[k + 1]
    OBVIOUS
  <2>5. e = <<TruePath(t, n), t[n].type, t[n].data>>
    BY <1>5, <2>1, <2>4
  <2>6. Full(t, x, k + 1, RestoreNode(r[k], e))
    BY <2>1, <2>2, <2>4, <2>5, FullStep
  <2>. QED
    BY <2>3, <2>4, <2>6
<1> HIDE DEF T
<1>9. N - 1 \in Nat
  BY <1>4
<1>10. N - 1 \in T
  BY <1>7, <1>8, <1>9, SetInduction
<1>. QED
  BY <1>1, <1>2, <1>6, <1>9, <1>10 DEF T, Rounds

\* z is what x makes of w.
Same(x, w, z, W, Z) ==
    /\ w \in Seq(W) /\ z \in Seq(Z) /\ Len(z) = Len(w)
    /\ \A i \in 1 .. Len(w) : z[i] = x[w[i]]

\* One sequence behind another.
LEMMA ConcatSame ==
    ASSUME NEW x, NEW W, NEW Z, NEW w, NEW z, Same(x, w, z, W, Z),
           NEW v, NEW y, Same(x, v, y, W, Z)
    PROVE  Same(x, w \o v, z \o y, W, Z)
<1>1. PICK m \in Nat, n \in Nat : m = Len(w) /\ n = Len(v)
  BY LenProperties DEF Same
<1>2. /\ w \in Seq(W) /\ v \in Seq(W) /\ z \in Seq(Z) /\ y \in Seq(Z)
      /\ Len(w) = m /\ Len(z) = m /\ Len(v) = n /\ Len(y) = n
      /\ \A i \in 1 .. m : z[i] = x[w[i]]
      /\ \A i \in 1 .. n : y[i] = x[v[i]]
  BY <1>1 DEF Same
<1>3. /\ w \o v \in Seq(W) /\ Len(w \o v) = m + n
      /\ \A i \in 1 .. m + n : (w \o v)[i] = IF i <= m THEN w[i] ELSE v[i - m]
  <2>1. /\ w \o v \in Seq(W) /\ Len(w \o v) = Len(w) + Len(v)
        /\ \A i \in 1 .. Len(w) + Len(v) :
              (w \o v)[i] = IF i <= Len(w) THEN w[i] ELSE v[i - Len(w)]
    BY <1>2, ConcatProperties
  <2>. QED
    BY <1>2, <2>1
<1>4. /\ z \o y \in Seq(Z) /\ Len(z \o y) = m + n
      /\ \A i \in 1 .. m + n : (z \o y)[i] = IF i <= m THEN z[i] ELSE y[i - m]
  <2>1. /\ z \o y \in Seq(Z) /\ Len(z \o y) = Len(z) + Len(y)
        /\ \A i \in 1 .. Len(z) + Len(y) :
              (z \o y)[i] = IF i <= Len(z) THEN z[i] ELSE y[i - Len(z)]
    BY <1>2, ConcatProperties
  <2>. QED
    BY <1>2, <2>1
<1>5. PICK p, q : p = w \o v /\ q = z \o y
  OBVIOUS
<1>6. ASSUME NEW i \in 1 .. m + n PROVE q[i] = x[p[i]]
  <2>1. CASE i <= m
    BY <1>2, <1>3, <1>4, <1>5, <2>1
  <2>2. CASE ~ i <= m
    <3>1. i - m \in 1 .. n
      BY <2>2
    <3>2. p[i] = v[i - m] /\ q[i] = y[i - m]
      BY <1>3, <1>4, <1>5, <2>2
    <3>. QED
      BY <1>2, <3>1, <3>2
  <2>. QED
    BY <2>1, <2>2
<1>7. Same(x, p, q, W, Z)
  BY <1>3, <1>4, <1>5, <1>6 DEF Same
<1>. QED
  BY <1>5, <1>7

\* Sequences that are joined.
LEMMA JoinedSame ==
    ASSUME NEW x, NEW W, NEW Z, NEW b, NEW c, Same(x, b, c, W, Z),
           NEW K, NEW ks \in Seq(K), NEW M, NEW ms \in Seq(M), Len(ms) = Len(ks), NEW u, NEW v,
           \A i \in 1 .. Len(ks) : Same(x, u[ks[i]], v[ms[i]], W, Z)
    PROVE  Same(x, Joined(u, b, ks), Joined(v, c, ms), W, Z)
<1>1. PICK n \in Nat : n = Len(ks) /\ DOMAIN ks = 1 .. n /\ DOMAIN ms = 1 .. n
  BY LenProperties
<1>2. PICK g : Joining(u, b, ks, g)
  <2>1. b \in Seq(W) /\ \A i \in DOMAIN ks : u[ks[i]] \in Seq(W)
    BY <1>1 DEF Same
  <2>. QED
    BY <2>1, JoinedRounds
<1>3. PICK h : Joining(v, c, ms, h)
  <2>1. c \in Seq(Z) /\ \A i \in DOMAIN ms : v[ms[i]] \in Seq(Z)
    BY <1>1 DEF Same
  <2>. QED
    BY <2>1, JoinedRounds
<1> DEFINE T == {k \in Nat : k <= n => Same(x, g[k], h[k], W, Z)}
<1>4. 0 \in T
  BY <1>2, <1>3 DEF Joining
<1>5. ASSUME NEW k \in Nat, k \in T PROVE k + 1 \in T
  <2> SUFFICES ASSUME k + 1 <= n PROVE Same(x, g[k + 1], h[k + 1], W, Z)
    OBVIOUS
  <2>1. k \in 0 .. Len(ks) - 1 /\ k \in 0 .. Len(ms) - 1 /\ k + 1 \in 1 .. Len(ks) /\ k <= n
    BY <1>1
  <2>2. Same(x, g[k], h[k], W, Z)
    BY <1>5, <2>1
  <2>3. g[k + 1] = g[k] \o u[ks[k + 1]] /\ h[k + 1] = h[k] \o v[ms[k + 1]]
    BY <1>2, <1>3, <2>1 DEF Joining
  <2>4. Same(x, u[ks[k + 1]], v[ms[k + 1]], W, Z)
    BY <2>1
  <2>5. Same(x, g[k] \o u[ks[k + 1]], h[k] \o v[ms[k + 1]], W, Z)
    BY <2>2, <2>4, ConcatSame
  <2>. QED
    BY <2>3, <2>5
<1> HIDE DEF T
<1>6. n \in T
  BY <1>4, <1>5, SetInduction
<1>. QED
  BY <1>1, <1>2, <1>3, <1>6 DEF T, Joining

\* A tree with all the nodes has the children of each.
LEMMA KidsSame ==
    ASSUME NEW t, Tree(t), NEW N, NEW x, Listed(t, N, x), NEW u, Shape(t, x, N - 1, u),
           NEW i \in 0 .. N - 1
    PROVE  /\ Len(t[x[i]].kids) = Len(u[i].kids) /\ DOMAIN u[i].kids = 1 .. Len(u[i].kids)
           /\ Len(u[i].kids) \in Nat
           /\ \A a \in DOMAIN u[i].kids : t[x[i]].kids[a] = x[u[i].kids[a]]
<1>0. N \in Nat /\ N >= 1 /\ N - 1 \in 0 .. N - 1 /\ x[i] \in DOMAIN t
  BY DEF Listed
<1>1. i \in DOMAIN u /\ Typed(u) /\ Linked(u) /\ Typed(t) /\ Linked(t)
  BY DEF Shape, Tree
<1>2. PICK L \in Nat : L = Len(u[i].kids) /\ DOMAIN u[i].kids = 1 .. L
  BY <1>1, KidsAre
<1>3. PICK M \in Nat : M = Len(t[x[i]].kids) /\ DOMAIN t[x[i]].kids = 1 .. M
  BY <1>0, <1>1, KidsAre
<1>4. \A a \in 1 .. L : a \in 1 .. M /\ t[x[i]].kids[a] = x[u[i].kids[a]]
  BY <1>2, <1>3 DEF Shape
<1>5. \A b \in 1 .. M : b \in 1 .. L
  <2> SUFFICES ASSUME NEW b \in 1 .. M PROVE b \in 1 .. L
    OBVIOUS
  <2>1. b \in DOMAIN t[x[i]].kids
    BY <1>3
  <2>2. PICK j \in 0 .. N - 1 : x[j] = t[x[i]].kids[b]
    BY <2>1 DEF Listed
  <2>3. b \in DOMAIN u[i].kids
    BY <1>0, <2>1, <2>2, KidPlaced
  <2>. QED
    BY <1>2, <2>3
<1>6. L = M
  <2>1. L >= 1 => L <= M
    BY <1>4
  <2>2. M >= 1 => M <= L
    BY <1>5
  <2>. QED
    BY <2>1, <2>2
<1>. QED
  BY <1>2, <1>3, <1>4, <1>6

\* Its nodes have the same paths.
LEMMA PathsSame ==
    ASSUME NEW t, Tree(t), NEW N, NEW x, Listed(t, N, x), NEW u, Shape(t, x, N - 1, u)
    PROVE  \A i \in 0 .. N - 1 : TruePath(u, i) = TruePath(t, x[i])
<1> DEFINE Y == {i \in 0 .. N - 1 : TruePath(u, i) = TruePath(t, x[i])}
<1>0. N \in Nat /\ N - 1 \in 0 .. N - 1 /\ x[0] = Root /\ 0 \in 0 .. N - 1
      /\ Tree(u) /\ DOMAIN u = 0 .. N - 1
  BY DEF Listed, Shape
<1>1. Root \in Y
  <2>1. TruePath(u, Root) = <<>> /\ TruePath(t, Root) = <<>>
    BY <1>0, PathRec
  <2>. QED
    BY <1>0, <2>1 DEF Root
<1>2. ASSUME NEW i \in DOMAIN u \ {Root}, u[i].parent \in Y PROVE i \in Y
  <2>1. i \in 1 .. N - 1 /\ i \in 0 .. N - 1
    BY <1>0 DEF Root
  <2>2. x[i] \in DOMAIN t \ {Root} /\ x[u[i].parent] = t[x[i]].parent
    BY <1>0, <2>1, ParentPlaced
  <2>3. u[i].name = t[x[i]].name
    BY <2>1 DEF Shape
  <2>4. TruePath(u, i) = Append(TruePath(u, u[i].parent), u[i].name)
    BY <1>0, PathRec
  <2>5. TruePath(t, x[i]) = Append(TruePath(t, t[x[i]].parent), t[x[i]].name)
    BY <2>2, PathRec
  <2>. QED
    BY <1>2, <2>1, <2>2, <2>3, <2>4, <2>5
<1> HIDE DEF Y
<1>3. DOMAIN u \subseteq Y
  BY <1>0, <1>1, <1>2, DownInduction
<1>. QED
  BY <1>0, <1>3 DEF Y

\* It is gone through in the same order.
LEMMA SubtreeSame ==
    ASSUME NEW t, Tree(t), NEW N, NEW x, Listed(t, N, x), NEW u, Shape(t, x, N - 1, u)
    PROVE  \A i \in 0 .. N - 1 : Same(x, Subtree(u, i), Subtree(t, x[i]), DOMAIN u, DOMAIN t)
<1>0. /\ N \in Nat /\ Tree(u) /\ DOMAIN u = 0 .. N - 1
      /\ \A i \in 0 .. N - 1 : x[i] \in DOMAIN t
  BY DEF Listed, Shape
<1>1. PICK W, Z : W = DOMAIN u /\ Z = DOMAIN t
  OBVIOUS
<1>2. PICK f \in [DOMAIN u -> Seq(DOMAIN u)] :
        \A m \in DOMAIN u : Subtree(u, m) = f[m] /\ f[m] = Joined(f, <<m>>, u[m].kids)
  BY <1>0, SubtreeRec
<1>3. PICK h \in [DOMAIN t -> Seq(DOMAIN t)] :
        \A m \in DOMAIN t : Subtree(t, m) = h[m] /\ h[m] = Joined(h, <<m>>, t[m].kids)
  BY SubtreeRec
<1> DEFINE Y == {i \in 0 .. N - 1 : Same(x, f[i], h[x[i]], W, Z)}
<1>4. ASSUME NEW i \in DOMAIN u, \A a \in DOMAIN u[i].kids : u[i].kids[a] \in Y
      PROVE  i \in Y
  <2>1. i \in 0 .. N - 1 /\ x[i] \in DOMAIN t
    BY <1>0
  <2>2. PICK ks, ms, b, c : ks = u[i].kids /\ ms = t[x[i]].kids /\ b = <<i>> /\ c = <<x[i]>>
    OBVIOUS
  <2>3. ks \in Seq(W) /\ b \in Seq(W)
    BY <1>0, <1>1, <2>2, KidsAre DEF Tree
  <2>4. ms \in Seq(Z) /\ c \in Seq(Z)
    BY <1>1, <2>1, <2>2, KidsAre DEF Tree
  <2>5. Same(x, b, c, W, Z)
    BY <2>2, <2>3, <2>4 DEF Same
  <2>6. Len(ms) = Len(ks) /\ DOMAIN ks = 1 .. Len(ks) /\ \A a \in DOMAIN ks : ms[a] = x[ks[a]]
    BY <2>1, <2>2, KidsSame
  <2>7. \A a \in 1 .. Len(ks) : Same(x, f[ks[a]], h[ms[a]], W, Z)
    BY <1>4, <2>2, <2>6
  <2>8. Same(x, Joined(f, b, ks), Joined(h, c, ms), W, Z)
    BY <2>3, <2>4, <2>5, <2>6, <2>7, JoinedSame
  <2>. QED
    BY <1>2, <1>3, <2>1, <2>2, <2>8
<1> HIDE DEF Y
<1>5. DOMAIN u \subseteq Y
  BY <1>0, <1>4, UpInduction
<1>. QED
  BY <1>0, <1>1, <1>2, <1>3, <1>5 DEF Y

\* e has what is saved of the nodes in s.
Saves(t, s, e) ==
    /\ e \in Seq(Entry) /\ Len(e) = Len(s) - 1
    /\ \A i \in 1 .. Len(s) - 1 :
          e[i] = <<fs_abspath(t, s[i + 1]), t[s[i + 1]].type, t[s[i + 1]].data>>

\* The snapshot does.
LEMMA SnapshotSaves ==
    ASSUME NEW t, Tree(t)
    PROVE  Saves(t, Subtree(t, Root), Snapshot(t))
<1>1. PICK s, e : s = Subtree(t, Root) /\ e = Snapshot(t)
  OBVIOUS
<1>2. /\ s \in Seq(DOMAIN t) /\ Len(s) >= 1
      /\ e \in Seq(Entry) /\ Len(e) = Len(s) - 1
      /\ \A i \in 1 .. Len(s) - 1 :
            e[i] = <<fs_abspath(t, s[i + 1]), t[s[i + 1]].type, t[s[i + 1]].data>>
  BY <1>1, SnapshotIs
<1>3. Saves(t, s, e)
  BY <1>2, Zenon DEF Saves
<1>. QED
  BY <1>1, <1>3

\* What is restored is the tree that was saved.
LEMMA RestoredSame ==
    ASSUME NEW t, Tree(t), Dotless(t), \A n \in DOMAIN t : Len(TruePath(t, n)) <= MaxDepth,
           NEW back, back = Restore(Snapshot(t))
    PROVE  /\ Contents(back, DOMAIN back) = Contents(t, DOMAIN t)
           /\ Snapshot(back) = Snapshot(t)
<1>1. PICK s, N : s = Subtree(t, Root) /\ N = Len(s)
  OBVIOUS
<1>2. PICK x : x = [i \in 0 .. N - 1 |-> s[i + 1]]
  OBVIOUS
<1>3. Listed(t, N, x)
  BY <1>1, <1>2, ListedIs
<1>4. \A i \in 0 .. N - 1 : x[i] = s[i + 1]
  BY <1>2
<1>5. Full(t, x, N - 1, back)
  BY <1>1, <1>3, <1>4, FullRestored
<1>6. /\ N \in Nat /\ N >= 1 /\ Shape(t, x, N - 1, back) /\ Tree(back)
      /\ DOMAIN back = 0 .. N - 1 /\ x[0] = Root
      /\ \A i \in 0 .. N - 1 : /\ x[i] \in DOMAIN t /\ back[i].type = t[x[i]].type
                               /\ back[i].data = t[x[i]].data
      /\ \A n \in DOMAIN t : \E i \in 0 .. N - 1 : x[i] = n
  BY <1>3, <1>5 DEF Full, Shape, Listed
<1>7. \A i \in 0 .. N - 1 : TruePath(back, i) = TruePath(t, x[i])
  <2>1. Shape(t, x, N - 1, back)
    BY <1>6
  <2>. QED
    BY <1>3, <2>1, PathsSame
<1>8. Contents(back, DOMAIN back) = Contents(t, DOMAIN t)
  <2> DEFINE C(u, n) == <<TruePath(u, n), u[n].type, u[n].data>>
  <2>1. \A i \in 0 .. N - 1 : C(back, i) = C(t, x[i])
    BY <1>6, <1>7
  <2>2. Contents(back, DOMAIN back) = {C(back, i) : i \in 0 .. N - 1}
    BY <1>6 DEF Contents
  <2>3. Contents(t, DOMAIN t) = {C(t, n) : n \in DOMAIN t}
    BY DEF Contents
  <2> HIDE DEF C
  <2>4. {C(back, i) : i \in 0 .. N - 1} = {C(t, n) : n \in DOMAIN t}
    <3>1. \A i \in 0 .. N - 1 : x[i] \in DOMAIN t
      BY <1>6
    <3>2. \A n \in DOMAIN t : \E i \in 0 .. N - 1 : x[i] = n
      BY <1>6
    <3>3. ASSUME NEW i \in 0 .. N - 1 PROVE C(back, i) \in {C(t, n) : n \in DOMAIN t}
      BY <2>1, <3>1
    <3>4. ASSUME NEW n \in DOMAIN t PROVE C(t, n) \in {C(back, i) : i \in 0 .. N - 1}
      <4>1. PICK i \in 0 .. N - 1 : x[i] = n
        BY <3>2
      <4>2. C(back, i) = C(t, n)
        BY <2>1, <4>1
      <4>. QED
        BY <4>2
    <3>. QED
      BY <3>3, <3>4
  <2>. QED
    BY <2>2, <2>3, <2>4
<1>9. PICK w : w = Subtree(back, Root)
  OBVIOUS
<1>10. Same(x, w, s, DOMAIN back, DOMAIN t)
  <2>1. 0 \in 0 .. N - 1
    BY <1>6
  <2>2. Same(x, Subtree(back, 0), Subtree(t, x[0]), DOMAIN back, DOMAIN t)
    BY <1>3, <1>6, <2>1, SubtreeSame
  <2>. QED
    BY <1>1, <1>6, <1>9, <2>2 DEF Root
<1>11. Len(w) = N /\ w \in Seq(DOMAIN back) /\ \A i \in 1 .. N : s[i] = x[w[i]]
  BY <1>1, <1>10 DEF Same
<1>12. PICK e, d : e = Snapshot(t) /\ d = Snapshot(back)
  OBVIOUS
<1>13. Saves(t, s, e) /\ Len(e) = N - 1 /\ e \in Seq(Entry)
  <2>1. Saves(t, s, e)
    BY <1>1, <1>12, SnapshotSaves
  <2>. QED
    BY <1>1, <2>1 DEF Saves
<1>14. Saves(back, w, d) /\ Len(d) = N - 1 /\ d \in Seq(Entry)
  <2>1. Saves(back, w, d)
    BY <1>6, <1>9, <1>12, SnapshotSaves
  <2>. QED
    BY <1>11, <2>1 DEF Saves
<1>15. ASSUME NEW i \in 1 .. Len(d) PROVE d[i] = e[i]
  <2>1. i \in 1 .. Len(s) - 1 /\ i \in 1 .. Len(w) - 1 /\ i + 1 \in 1 .. N /\ i + 1 \in 1 .. Len(w)
    BY <1>1, <1>6, <1>11, <1>14
  <2>2. PICK m : m = w[i + 1]
    OBVIOUS
  <2>3. m \in 0 .. N - 1 /\ s[i + 1] = x[m]
    BY <1>6, <1>11, <2>1, <2>2, ElementOfSeq
  <2>4. fs_abspath(back, m) = fs_abspath(t, x[m])
    BY <1>7, <2>3 DEF fs_abspath
  <2>5. d[i] = <<fs_abspath(back, m), back[m].type, back[m].data>>
    BY <1>14, <2>1, <2>2 DEF Saves
  <2>6. e[i] = <<fs_abspath(t, x[m]), t[x[m]].type, t[x[m]].data>>
    BY <1>13, <2>1, <2>3 DEF Saves
  <2>7. back[m].type = t[x[m]].type /\ back[m].data = t[x[m]].data
    BY <1>6, <2>3
  <2>. QED
    BY <2>4, <2>5, <2>6, <2>7
<1>16. d = e
  BY <1>1, <1>11, <1>13, <1>14, <1>15, SeqEqual
<1>. QED
  BY <1>8, <1>12, <1>16

\* A restart right after a save finds the tree that was saved, in the same
\* order, whatever was created, removed or restored before, as long as every
\* path was written whole (persist.c:136-154, 190-227).
THEOREM RoundTripCorrect == Spec => []RoundTrip
<1>1. Inv /\ DotInv => RoundTrip
  <2> SUFFICES ASSUME Inv, DotInv, WithinReach PROVE RoundTrip
    BY DEF RoundTrip
  <2>1. Tree(fs) /\ Dotless(fs) /\ \A n \in DOMAIN fs : Len(TruePath(fs, n)) <= MaxDepth
    BY DEF Inv, DotInv, WithinReach
  <2>. QED
    BY <2>1, RestoredSame DEF RoundTrip
<1>. QED
  BY <1>1, AlwaysDots, PTL
-----------------------------------------------------------------------------
(* Who may change what.                                                    *)

\* q goes on where p ends, or is p.
Extends(p, q) == Len(p) <= Len(q) /\ \A i \in 1 .. Len(p) : q[i] = p[i]

\* That is what a prefix is.
LEMMA PrefixIs ==
    ASSUME NEW A, NEW p \in Seq(A), NEW B, NEW q \in Seq(B)
    PROVE  IsPrefix(p, q) <=> Extends(p, q)
<1>1. PICK m \in Nat, n \in Nat : m = Len(p) /\ n = Len(q)
  BY LenProperties
<1>2. /\ SubSeq(p, 1, m) \in Seq(A) /\ Len(SubSeq(p, 1, m)) = m
      /\ \A i \in 1 .. m : SubSeq(p, 1, m)[i] = p[i]
  <2>1. \A i \in 1 .. m : p[i] \in A
    BY <1>1, ElementOfSeq
  <2>. QED
    BY <2>1, SubSeqProperties
<1>3. ASSUME m <= n
      PROVE  /\ SubSeq(q, 1, m) \in Seq(B) /\ Len(SubSeq(q, 1, m)) = m
             /\ \A i \in 1 .. m : SubSeq(q, 1, m)[i] = q[i]
  <2>1. \A i \in 1 .. m : q[i] \in B
    BY <1>1, <1>3, ElementOfSeq
  <2>. QED
    BY <2>1, SubSeqProperties
<1>4. ASSUME m <= n, SubSeq(p, 1, m) = SubSeq(q, 1, m)
      PROVE  \A i \in 1 .. m : q[i] = p[i]
  BY <1>2, <1>3, <1>4
<1>5. ASSUME m <= n, \A i \in 1 .. m : q[i] = p[i]
      PROVE  SubSeq(p, 1, m) = SubSeq(q, 1, m)
  <2>1. PICK c, d : c = SubSeq(p, 1, m) /\ d = SubSeq(q, 1, m)
    OBVIOUS
  <2>2. /\ c \in Seq(A) /\ d \in Seq(B) /\ Len(c) = m /\ Len(d) = m
        /\ \A i \in 1 .. m : c[i] = d[i]
    BY <1>2, <1>3, <1>5, <2>1
  <2>3. PICK C : C = A \union B
    OBVIOUS
  <2>4. c \in Seq(C) /\ d \in Seq(C)
    BY <2>2, <2>3
  <2>5. c = d
    BY <2>2, <2>4, SeqEqual
  <2>. QED
    BY <2>1, <2>5
<1>. QED
  BY <1>1, <1>4, <1>5 DEF IsPrefix, Extends

\* Paths in a user's home directory, and in /tmp.
Free(p) == IsPrefix(Home[user], p) \/ IsPrefix(<<"tmp">>, p)

\* Below a path that may be written, all may.
LEMMA FreeBelow ==
    ASSUME user \in Users, NEW p \in Seq(Component), Free(p), NEW q \in Seq(Component),
           Extends(p, q)
    PROVE  Free(q)
<1>1. Home \in [Users -> Seq(STRING)]
  BY RamfsAssumption, Zenon
<1>2. Home[user] \in Seq(STRING)
  BY <1>1
<1>3. ASSUME NEW H, NEW h \in Seq(H), IsPrefix(h, p) PROVE IsPrefix(h, q)
  <2>1. Extends(h, p)
    BY <1>3, PrefixIs
  <2>2. Len(h) \in Nat /\ Len(p) \in Nat /\ Len(q) \in Nat
    BY LenProperties
  <2>3. Extends(h, q)
    BY <2>1, <2>2 DEF Extends
  <2>. QED
    BY <2>3, PrefixIs
<1>4. <<"tmp">> \in Seq({"tmp"})
  OBVIOUS
<1>5. CASE IsPrefix(Home[user], p)
  BY <1>2, <1>3, <1>5 DEF Free
<1>6. CASE IsPrefix(<<"tmp">>, p)
  BY <1>3, <1>4, <1>6 DEF Free
<1>. QED
  BY <1>5, <1>6 DEF Free

\* A path goes on with a component more.
LEMMA AppendExtends ==
    ASSUME NEW p \in Seq(Component), NEW c \in Component
    PROVE  Append(p, c) \in Seq(Component) /\ Extends(p, Append(p, c)) /\ Extends(p, p)
<1>1. PICK q : q = Append(p, c)
  OBVIOUS
<1>2. /\ q \in Seq(Component) /\ Len(q) = Len(p) + 1 /\ Len(p) \in Nat
      /\ \A i \in 1 .. Len(p) : q[i] = p[i]
  BY <1>1, AppendProperties, LenProperties
<1>3. Extends(p, q) /\ Extends(p, p)
  BY <1>2 DEF Extends
<1>. QED
  BY <1>1, <1>2, <1>3

\* What two trees have in common.
Shares(t, u, D) ==
    /\ D \subseteq DOMAIN t /\ D \subseteq DOMAIN u
    /\ \A n \in D : u[n].parent = t[n].parent /\ u[n].name = t[n].name
    /\ \A n \in D \ {Root} : t[n].parent \in D

\* The nodes they share, with their directories, have the same paths.
LEMMA SharedPaths ==
    ASSUME NEW t, Tree(t), NEW u, Tree(u), NEW D, Shares(t, u, D)
    PROVE  \A n \in D : TruePath(u, n) = TruePath(t, n)
<1> DEFINE Y == {n \in DOMAIN t : n \in D => TruePath(u, n) = TruePath(t, n)}
<1>1. Root \in Y
  <2>1. TruePath(u, Root) = <<>> /\ TruePath(t, Root) = <<>>
    BY PathRec
  <2>. QED
    BY <2>1 DEF Tree, Typed
<1>2. ASSUME NEW n \in DOMAIN t \ {Root}, t[n].parent \in Y PROVE n \in Y
  <2> SUFFICES ASSUME n \in D PROVE TruePath(u, n) = TruePath(t, n)
    OBVIOUS
  <2>1. n \in DOMAIN u \ {Root} /\ u[n].parent = t[n].parent /\ u[n].name = t[n].name
        /\ t[n].parent \in D
    BY DEF Shares
  <2>2. TruePath(u, n) = Append(TruePath(u, u[n].parent), u[n].name)
    BY <2>1, PathRec
  <2>3. TruePath(t, n) = Append(TruePath(t, t[n].parent), t[n].name)
    BY PathRec
  <2>. QED
    BY <1>2, <2>1, <2>2, <2>3
<1> HIDE DEF Y
<1>3. DOMAIN t \subseteq Y
  BY <1>1, <1>2, DownInduction
<1>. QED
  BY <1>3 DEF Y, Shares

\* All that is in only one of two trees, or differs, may be written.
Differ(t, u, D) ==
    /\ D \subseteq DOMAIN t /\ D \subseteq DOMAIN u
    /\ \A n \in D : /\ TruePath(u, n) = TruePath(t, n)
                    /\ u[n].type = t[n].type /\ u[n].data = t[n].data
    /\ \A n \in DOMAIN t \ D : Free(TruePath(t, n))
    /\ \A n \in DOMAIN u \ D : Free(TruePath(u, n))

\* Outside it they are the same.
LEMMA OutsideSame ==
    ASSUME NEW t, NEW u, NEW D, Differ(t, u, D)
    PROVE  Outside(u) = Outside(t)
<1> DEFINE C(v, n) == <<TruePath(v, n), v[n].type, v[n].data>>
           Out(v) == {n \in DOMAIN v : ~ Free(TruePath(v, n))}
<1>1. \A v : Outside(v) = {C(v, n) : n \in Out(v)}
  BY DEF Outside, Contents, Free
<1>2. \A n \in D : C(u, n) = C(t, n)
  BY DEF Differ
<1>3. \A n : n \in Out(t) <=> n \in Out(u)
  BY DEF Differ
<1>4. \A n \in Out(t) : n \in D
  BY DEF Differ
<1> HIDE DEF C, Out
<1>5. {C(t, n) : n \in Out(t)} = {C(u, n) : n \in Out(u)}
  <2>1. ASSUME NEW n \in Out(t) PROVE C(t, n) \in {C(u, m) : m \in Out(u)}
    BY <1>2, <1>3, <1>4
  <2>2. ASSUME NEW n \in Out(u) PROVE C(u, n) \in {C(t, m) : m \in Out(t)}
    BY <1>2, <1>3, <1>4
  <2>. QED
    BY <2>1, <2>2
<1>. QED
  BY <1>1, <1>5

\* Nothing in the tree is cut off by fs_abspath, and the user is not root.
Checked(t) ==
    /\ Tree(t) /\ \A n \in DOMAIN t : Len(TruePath(t, n)) <= MaxDepth
    /\ user \in Users /\ user # "root"

\* What users_may_write says of a node.
LEMMA MayWriteNode ==
    ASSUME Checked(fs), NEW n \in DOMAIN fs, users_may_write(fs_abspath(fs, n))
    PROVE  Free(TruePath(fs, n))
<1>1. fs_abspath(fs, n) = TruePath(fs, n)
  BY AbspathIs DEF Checked
<1>. QED
  BY <1>1 DEF users_may_write, Free, Checked

\* What is there already stays where it is.
LEMMA OldPaths ==
    ASSUME NEW t, Tree(t), NEW p, NEW name, NEW type, NEW new, NEW u,
           Made(t, p, name, type, new, u)
    PROVE  \A n \in DOMAIN t : TruePath(u, n) = TruePath(t, n)
<1>1. DOMAIN u = DOMAIN t \union {new}
  BY DEF Made
<1>2. MadeOK(t, p, name, type, new, u)
  BY MadeIs DEF Tree
<1>3. Shares(t, u, DOMAIN t)
  BY <1>1, <1>2 DEF Shares, MadeOK, Tree, Linked
<1>. QED
  BY <1>3, MadeKeeps, SharedPaths

\* A new node is where its path says.
LEMMA NewPath ==
    ASSUME NEW t, Tree(t), NEW p, NEW name, NEW type, NEW new, NEW u,
           Made(t, p, name, type, new, u)
    PROVE  TruePath(u, new) = Append(TruePath(t, p), name)
<1>1. /\ p \in DOMAIN t /\ new \in DOMAIN u /\ new \notin DOMAIN t
      /\ u[new].parent = p /\ u[new].name = name
  <2>1. MadeOK(t, p, name, type, new, u)
    BY MadeIs DEF Tree
  <2>. QED
    BY <2>1 DEF Made, MadeOK
<1>2. Tree(u) /\ Root \in DOMAIN t
  BY MadeKeeps DEF Tree, Typed
<1>3. TruePath(u, new) = Append(TruePath(u, u[new].parent), u[new].name)
  BY <1>1, <1>2, PathRec
<1>4. TruePath(u, p) = TruePath(t, p)
  BY <1>1, OldPaths
<1>. QED
  BY <1>1, <1>3, <1>4

\* Making one where the user may write.
LEMMA MadeOutside ==
    ASSUME NEW t, Tree(t), NEW p, NEW name, NEW type, NEW new, NEW u,
           Made(t, p, name, type, new, u), Free(Append(TruePath(t, p), name))
    PROVE  Differ(t, u, DOMAIN t)
<1>1. DOMAIN u = DOMAIN t \union {new}
  BY DEF Made
<1>2. MadeOK(t, p, name, type, new, u)
  BY MadeIs DEF Tree
<1>3. TruePath(u, new) = Append(TruePath(t, p), name)
  BY NewPath
<1>4. \A n \in DOMAIN t : TruePath(u, n) = TruePath(t, n)
  BY OldPaths
<1>5. \A n \in DOMAIN t : u[n].type = t[n].type /\ u[n].data = t[n].data
  BY <1>2 DEF MadeOK
<1>. QED
  BY <1>1, <1>3, <1>4, <1>5 DEF Differ

\* So the new one may be written too.
LEMMA MadeFree ==
    ASSUME NEW t, Tree(t), NEW p, NEW name, NEW type, NEW new, NEW u,
           Made(t, p, name, type, new, u), Free(Append(TruePath(t, p), name))
    PROVE  Free(TruePath(u, new))
<1>1. TruePath(u, new) = Append(TruePath(t, p), name)
  BY NewPath
<1>. QED
  BY <1>1

\* New contents.
LEMMA WriteOutside ==
    ASSUME NEW t, Tree(t), NEW file \in DOMAIN t, t[file].type = "file", NEW data \in Data,
           NEW u, Rewritten(t, file, data, u)
    PROVE  /\ DOMAIN u = DOMAIN t /\ \A n \in DOMAIN t : TruePath(u, n) = TruePath(t, n)
           /\ \A n \in DOMAIN t \ {file} : u[n].type = t[n].type /\ u[n].data = t[n].data
<1>1. Tree(u)
  BY WriteKeeps DEF Rewritten
<1>2. t[file] \in File \/ t[file] \in Dir
  BY DEF Tree, Typed
<1>3. u[file] = [t[file] EXCEPT !.data = data] /\ DOMAIN u = DOMAIN t
      /\ \A n \in DOMAIN t \ {file} : u[n] = t[n]
  BY DEF Rewritten
<1>4. u[file].name = t[file].name /\ u[file].parent = t[file].parent
  BY <1>2, <1>3 DEF File, Dir
<1>5. Shares(t, u, DOMAIN t)
  BY <1>3, <1>4 DEF Shares, Tree, Linked
<1>6. \A n \in DOMAIN t : TruePath(u, n) = TruePath(t, n)
  BY <1>1, <1>5, SharedPaths
<1>. QED
  BY <1>3, <1>6

\* A node that is removed, and all below it.
LEMMA UnlinkOutside ==
    ASSUME user \in Users, NEW t, Tree(t), NEW node \in DOMAIN t \ {Root},
           Free(TruePath(t, node)), NEW u, u = Unlink(t, node)
    PROVE  Differ(t, u, DOMAIN u)
<1>1. PICK S : S = Range(Subtree(t, node))
  OBVIOUS
<1>2. PICK p, a : Unlinked(t, node, S, p, a, u)
  BY <1>1, UnlinkIs
<1>3. Cut(t, node, S)
  BY <1>1, SubtreeCut
<1>4. Tree(u)
  BY UnlinkKeeps
<1>5. /\ DOMAIN u = DOMAIN t \ S
      /\ \A n \in DOMAIN u : /\ u[n].parent = t[n].parent /\ u[n].name = t[n].name
                             /\ u[n].type = t[n].type /\ u[n].data = t[n].data
  BY <1>2 DEF Unlinked
<1>6. Shares(t, u, DOMAIN u)
  BY <1>4, <1>5 DEF Shares, Tree, Linked
<1>7. \A n \in DOMAIN u : TruePath(u, n) = TruePath(t, n)
  BY <1>4, <1>6, SharedPaths
<1> DEFINE Y == {n \in DOMAIN t : n \in S => Free(TruePath(t, n))}
<1>8. Root \in Y
  BY <1>3 DEF Cut, Tree, Typed
<1>9. ASSUME NEW n \in DOMAIN t \ {Root}, t[n].parent \in Y PROVE n \in Y
  <2> SUFFICES ASSUME n \in S, n # node PROVE Free(TruePath(t, n))
    OBVIOUS
  <2>1. t[n].parent \in S /\ t[n].parent \in DOMAIN t
    BY <1>3 DEF Cut
  <2>2. PICK P, name : P = TruePath(t, t[n].parent) /\ name = t[n].name
    OBVIOUS
  <2>3. P \in Seq(Component) /\ name \in Component /\ TruePath(t, n) = Append(P, name)
    BY <2>1, <2>2, PathRec DEF Tree, Typed
  <2>4. Append(P, name) \in Seq(Component) /\ Extends(P, Append(P, name))
    BY <2>3, AppendExtends
  <2>5. Free(P)
    BY <1>9, <2>1, <2>2
  <2>. QED
    BY <2>3, <2>4, <2>5, FreeBelow
<1> HIDE DEF Y
<1>10. DOMAIN t \subseteq Y
  BY <1>8, <1>9, DownInduction
<1>11. \A n \in DOMAIN t \ DOMAIN u : Free(TruePath(t, n))
  BY <1>5, <1>10 DEF Y
<1>. QED
  BY <1>5, <1>7, <1>11 DEF Differ

\* What may_write says of a node that is there.
LEMMA MayWriteThere ==
    ASSUME Checked(fs), Prompt, NEW path \in Path, may_write(path), fs_resolve(path) # NULL
    PROVE  Free(TruePath(fs, fs_resolve(path)))
<1>1. PICK n : n = fs_resolve(path)
  OBVIOUS
<1>2. n \in DOMAIN fs
  BY <1>1, Resolves DEF Checked
<1>3. users_may_write(fs_abspath(fs, n))
  BY <1>1 DEF may_write
<1>. QED
  BY <1>1, <1>2, <1>3, MayWriteNode

\* What it says of one that fs_create would make: the new node may be written,
\* also when the name is "." or "..", and the node checked is another one.
LEMMA MayWriteNew ==
    ASSUME Checked(fs), Prompt, NEW path \in Creatable, NEW p,
           p = ParentOf(fs, Start(path), path.comps)
    PROVE  p \in DOMAIN fs /\ Free(Append(TruePath(fs, p), Last(path.comps)))
<1>1. path \in Path /\ CanCreate(fs, Start(path), path.comps) /\ may_write(path)
  BY DEF Creatable
<1>2. Start(path) \in DOMAIN fs /\ path.comps \in Seq(Component)
  BY <1>1, Resolves DEF Checked
<1>3. PICK c, start, name : c = path.comps /\ start = Start(path) /\ name = Last(c)
  OBVIOUS
<1>4. c # <<>> /\ p # NULL /\ fs[p].type = "dir" /\ find_child(fs, p, name) = NULL
  BY <1>1, <1>3 DEF CanCreate
<1>5. Tree(fs) /\ Typed(fs) /\ Linked(fs) /\ user \in Users
  BY DEF Checked, Tree
<1>6. c \in Seq(Component) /\ Len(c) \in Nat /\ Len(c) >= 1
  BY <1>2, <1>3, <1>4, LenProperties, EmptySeq
<1>7. p \in DOMAIN fs
  <2>1. Front(c) \in Seq(Component)
    BY <1>6 DEF Front
  <2>. QED
    BY <1>2, <1>3, <1>4, <1>5, <2>1, WalkStays DEF ParentOf
<1>8. name \in Component
  BY <1>3, <1>6, ElementOfSeq DEF Last
<1>9. PICK P : P = TruePath(fs, p)
  OBVIOUS
<1>10. /\ P \in Seq(Component) /\ Append(P, name) \in Seq(Component)
       /\ Extends(P, Append(P, name))
  BY <1>5, <1>7, <1>8, <1>9, PathRec, AppendExtends
<1>11. fs_resolve(path) = WalkStep(fs, p, name)
  BY <1>2, <1>3, <1>4, WalkLast DEF fs_resolve
<1>12. CASE fs_resolve(path) = NULL
  <2>1. users_may_write(Append(fs_abspath(fs, p), name))
    BY <1>1, <1>3, <1>12 DEF may_write
  <2>2. fs_abspath(fs, p) = P
    BY <1>5, <1>7, <1>9, AbspathIs DEF Checked
  <2>3. Free(Append(P, name))
    BY <2>1, <2>2 DEF users_may_write, Free, Checked
  <2>. QED
    BY <1>3, <1>7, <1>9, <2>3
<1>13. CASE fs_resolve(path) # NULL
  <2>1. PICK n : n = fs_resolve(path)
    OBVIOUS
  <2>2. Free(TruePath(fs, n))
    BY <1>1, <1>13, <2>1, MayWriteThere
  <2>3. name \in Dots
    BY <1>4, <1>11, <1>13 DEF WalkStep, Dots
  <2>4. n = p \/ (p = Root /\ n = Root) \/ (p # Root /\ n = fs[p].parent)
    BY <1>4, <1>11, <2>1, <2>3 DEF WalkStep, Dots
  <2>5. Free(P)
    <3>1. CASE n = p
      BY <1>9, <2>2, <3>1
    <3>2. CASE p # Root /\ n = fs[p].parent
      <4>1. PICK N, own : N = TruePath(fs, n) /\ own = fs[p].name
        OBVIOUS
      <4>2. N \in Seq(Component) /\ own \in Component /\ P = Append(N, own)
        BY <1>5, <1>7, <1>9, <3>2, <4>1, PathRec DEF Typed, Linked
      <4>3. Extends(N, P)
        BY <4>2, AppendExtends
      <4>. QED
        BY <1>5, <1>10, <2>2, <4>1, <4>2, <4>3, FreeBelow
    <3>. QED
      BY <2>4, <3>1, <3>2
  <2>6. Free(Append(P, name))
    BY <1>5, <1>10, <2>5, FreeBelow
  <2>. QED
    BY <1>3, <1>7, <1>9, <2>6
<1>. QED
  BY <1>12, <1>13

\* A node made where the user may make one.
LEMMA CreatableOutside ==
    ASSUME Checked(fs), Prompt, NEW path \in Creatable, NEW type \in {"dir", "file"}, NEW t,
           t = Create(fs, Start(path), path.comps, type),
           NEW new, new = Min(Ids \ DOMAIN fs)
    PROVE  /\ Differ(fs, t, DOMAIN fs) /\ new \notin DOMAIN fs
           /\ new \in DOMAIN t /\ Free(TruePath(t, new))
<1>1. path \in Path /\ CanCreate(fs, Start(path), path.comps)
  BY DEF Creatable
<1>2. Tree(fs) /\ Typed(fs) /\ Linked(fs) /\ user \in Users
  BY DEF Checked, Tree
<1>3. Start(path) \in DOMAIN fs /\ path.comps \in Seq(Component)
  BY <1>1, <1>2, Resolves
<1>4. PICK name : name = Last(path.comps)
  OBVIOUS
<1>5. PICK p : p = ParentOf(fs, Start(path), path.comps) /\ Made(fs, p, name, type, new, t)
  BY <1>1, <1>2, <1>3, <1>4, CreateMakes
<1>6. Free(Append(TruePath(fs, p), name))
  BY <1>4, <1>5, MayWriteNew
<1>7. Differ(fs, t, DOMAIN fs)
  BY <1>2, <1>5, <1>6, MadeOutside
<1>8. Free(TruePath(t, new))
  BY <1>2, <1>5, <1>6, MadeFree
<1>9. new \in DOMAIN t /\ new \notin DOMAIN fs
  BY <1>5 DEF Made
<1>. QED
  BY <1>7, <1>8, <1>9

\* Written, with a file the user may write.
LEMMA WrittenOutside ==
    ASSUME user \in Users, NEW t, Tree(t), NEW file \in DOMAIN t, t[file].type = "file",
           NEW data \in Data, Written(t, file, data),
           NEW r, NEW D, Differ(r, t, D), file \in D => Free(TruePath(r, file)),
           Free(TruePath(t, file))
    PROVE  Outside(fs') = Outside(r)
<1>1. CASE Finish(t, dirty)
  <2>1. fs' = t /\ Outside(t) = Outside(r)
    BY <1>1, OutsideSame DEF Finish
  <2>. QED
    BY <2>1
<1>2. CASE Finish([t EXCEPT ![file].data = data], TRUE)
  <2>1. PICK u : Rewritten(t, file, data, u)
    BY Zenon DEF Rewritten
  <2>2. /\ DOMAIN u = DOMAIN t /\ \A n \in DOMAIN t : TruePath(u, n) = TruePath(t, n)
        /\ \A n \in DOMAIN t \ {file} : u[n].type = t[n].type /\ u[n].data = t[n].data
    BY <2>1, WriteOutside
  <2>3. Differ(r, u, D \ {file})
    BY <2>2 DEF Differ
  <2>4. fs' = u
    BY <1>2, <2>1 DEF Finish, Rewritten
  <2>5. Outside(u) = Outside(r)
    BY <2>3, OutsideSame
  <2>. QED
    BY <2>4, <2>5
<1>. QED
  BY <1>1, <1>2 DEF Written

\* Each command.
LEMMA MakeConfined ==
    ASSUME Checked(fs), Mkdir \/ Touch
    PROVE  Outside(fs') = Outside(fs)
<1>1. Prompt
  BY DEF Mkdir, Touch
<1>2. PICK type \in {"dir", "file"}, path \in Creatable :
        Finish(Create(fs, Start(path), path.comps, type), TRUE)
  BY DEF Mkdir, Touch
<1>3. PICK t : t = Create(fs, Start(path), path.comps, type)
  OBVIOUS
<1>4. Differ(fs, t, DOMAIN fs)
  <2>1. PICK new : new = Min(Ids \ DOMAIN fs)
    OBVIOUS
  <2>. QED
    BY <1>1, <1>3, <2>1, CreatableOutside
<1>5. fs' = t
  BY <1>2, <1>3 DEF Finish
<1>. QED
  BY <1>4, <1>5, OutsideSame

\* echo.
LEMMA EchoConfined ==
    ASSUME Checked(fs), Echo
    PROVE  Outside(fs') = Outside(fs)
<1>0. Prompt /\ Tree(fs) /\ user \in Users
  BY DEF Echo, Checked
<1>1. PICK data \in Data \ {Empty} :
        \/ \E path \in Path : /\ fs_resolve(path) # NULL /\ fs[fs_resolve(path)].type = "file"
                              /\ may_write(path) /\ Written(fs, fs_resolve(path), data)
        \/ \E path \in Creatable : Written(Create(fs, Start(path), path.comps, "file"),
                                           Min(Ids \ DOMAIN fs), data)
  BY DEF Echo
<1>2. ASSUME NEW path \in Path, fs_resolve(path) # NULL, fs[fs_resolve(path)].type = "file",
             may_write(path), Written(fs, fs_resolve(path), data)
      PROVE  Outside(fs') = Outside(fs)
  <2>1. PICK file \in DOMAIN fs : file = fs_resolve(path)
    BY <1>0, <1>2, Resolves
  <2>2. Free(TruePath(fs, file))
    BY <1>0, <1>2, <2>1, MayWriteThere
  <2>3. PICK t, D : t = fs /\ D = DOMAIN fs
    OBVIOUS
  <2>4. Differ(fs, t, D)
    BY <2>3 DEF Differ
  <2>5. Tree(t) /\ file \in DOMAIN t /\ t[file].type = "file" /\ Written(t, file, data)
        /\ Free(TruePath(t, file))
    BY <1>0, <1>2, <2>1, <2>2, <2>3
  <2>. QED
    BY <1>0, <2>2, <2>4, <2>5, WrittenOutside
<1>3. ASSUME NEW path \in Creatable,
             Written(Create(fs, Start(path), path.comps, "file"), Min(Ids \ DOMAIN fs), data)
      PROVE  Outside(fs') = Outside(fs)
  <2>1. PICK t, new : /\ t = Create(fs, Start(path), path.comps, "file")
                      /\ new = Min(Ids \ DOMAIN fs)
    OBVIOUS
  <2>2. Tree(t) /\ t[new].type = "file"
    BY <1>0, <2>1, CreateKeeps
  <2>3. /\ Differ(fs, t, DOMAIN fs) /\ new \notin DOMAIN fs
        /\ new \in DOMAIN t /\ Free(TruePath(t, new))
    BY <1>0, <2>1, CreatableOutside
  <2>4. Written(t, new, data)
    BY <1>3, <2>1
  <2>. QED
    BY <1>0, <2>2, <2>3, <2>4, WrittenOutside
<1>. QED
  BY <1>1, <1>2, <1>3

\* rm.
LEMMA RmConfined ==
    ASSUME Checked(fs), Rm
    PROVE  Outside(fs') = Outside(fs)
<1>0. Prompt /\ Tree(fs) /\ user \in Users
  BY DEF Rm, Checked
<1>1. PICK node \in Removable : Finish(Unlink(fs, node), TRUE)
  BY DEF Rm
<1>2. PICK path \in Path : node = fs_resolve(path) /\ node # NULL /\ node # Root /\ may_write(path)
  BY DEF Removable
<1>3. node \in DOMAIN fs \ {Root}
  BY <1>0, <1>2, Resolves
<1>4. Free(TruePath(fs, node))
  BY <1>0, <1>2, MayWriteThere
<1>5. PICK u : u = Unlink(fs, node)
  OBVIOUS
<1>6. Differ(fs, u, DOMAIN u)
  BY <1>0, <1>3, <1>4, <1>5, UnlinkOutside
<1>7. fs' = u
  BY <1>1, <1>5 DEF Finish
<1>. QED
  BY <1>6, <1>7, OutsideSame

\* Users other than root change nothing outside their home directory and /tmp,
\* however they write the path: what is checked is the node the command then
\* works on, or the directory it goes into (shell.c:93-116, users.c:285-301), as
\* long as the paths that are checked are whole.
THEOREM ConfinedCorrect == Spec => Confined
<1>1. Inv /\ [Next]_vars => [WithinReach => ConfinedStep]_vars
  <2> SUFFICES ASSUME Inv, Next, WithinReach, user # "root"
               PROVE  ConfinedStep
    BY DEF ConfinedStep
  <2>1. Checked(fs)
    BY DEF Inv, WithinReach, Checked
  <2>2. CASE Other \/ Cd \/ Su
    BY <2>2 DEF Other, Cd, Su, Finish, ConfinedStep
  <2>3. CASE Mkdir \/ Touch
    BY <2>1, <2>3, MakeConfined DEF ConfinedStep
  <2>4. CASE Echo
    BY <2>1, <2>4, EchoConfined DEF ConfinedStep
  <2>5. CASE Rm
    BY <2>1, <2>5, RmConfined DEF ConfinedStep
  <2>6. CASE Restart
    BY <2>6 DEF ConfinedStep
  <2>. QED
    BY <2>2, <2>3, <2>4, <2>5, <2>6 DEF Next
<1>. QED
  BY <1>1, AlwaysInv, PTL DEF Spec, Confined
=============================================================================
