----------------------------- MODULE UsersProofs -----------------------------
(***************************************************************************)
(* Proofs about the account table, for a table of any size, any number of  *)
(* names and passwords and any sequence of commands and restarts.          *)
(***************************************************************************)
EXTENDS Users, WellFoundedInduction, SequenceTheorems, TLAPS

Table == [Slots -> Account \union {Vacant}]

\* The slots of t that are active, the first k of them, all of them.
Taken(t, k) == {i \in 0 .. k - 1 : t[i] # Vacant}

\* s lists the members of A in increasing order.
Enumerates(s, n, A) ==
    /\ s \in [1 .. n -> A]
    /\ \A i, j \in 1 .. n : i < j => s[i] < s[j]
    /\ \A a \in A : \E i \in 1 .. n : s[i] = a

\* q holds the active accounts among the first k slots of t, s says where.
ListedBy(t, k, q, s) ==
    /\ q \in Seq(Account) /\ Len(q) <= k
    /\ Enumerates(s, Len(q), Taken(t, k))
    /\ \A i \in 1 .. Len(q) : q[i] = t[s[i]]

Listed(t, k, q) == \E s : ListedBy(t, k, q, s)

SameAccount(x, y) == x.uid = y.uid \/ x.name = y.name

\* A table whose accounts differ in uid and in name, all uids below b.
TableOK(t, b) ==
    /\ t \in Table
    /\ \A i, j \in Slots :
        t[i] # Vacant /\ t[j] # Vacant /\ SameAccount(t[i], t[j]) => i = j
    /\ \A i \in Slots : t[i] # Vacant => t[i].uid < b

\* The same of a list of accounts that fits into the table.
AccountsOK(q) ==
    /\ q \in Seq(Account) /\ Len(q) <= UserMax
    /\ \A k, l \in 1 .. Len(q) : SameAccount(q[k], q[l]) => k = l
    /\ \A k \in 1 .. Len(q) : q[k].uid < MaxUid
-----------------------------------------------------------------------------
(* The inductive invariant.                                                *)

\* A snapshot with its own /etc/passwd, and a root unless it is empty.
SavedOK(x) ==
    /\ x = [accounts |-> x.accounts, passwd |-> x.passwd]
    /\ AccountsOK(x.accounts)
    /\ x.passwd = Lines(x.accounts)
    /\ x.accounts # <<>> => \E k \in 1 .. Len(x.accounts) : x.accounts[k].uid = 0

UsersInv ==
    /\ next_uid \in FirstUid .. MaxUid
    /\ TableOK(users, next_uid)
    /\ current \in Slots \union {NULL} /\ who \in Names \union {NULL}
    /\ pc \in {"setup", "everyday", "login", "shell", "flush"}
    /\ pc = "setup" => Active = {}
    /\ pc # "setup" => \E i \in Active : users[i].uid = 0
    /\ CurrentIsWho
    /\ PasswdTruthful
    /\ SavedOK(saved)
-----------------------------------------------------------------------------
(* Numbers.                                                                *)

\* A set of naturals has a least element.
LEMMA LeastNumber ==
    ASSUME NEW T \in SUBSET Nat, T # {}
    PROVE  \E m \in T : \A n \in T : m <= n
<1> DEFINE below == {ss \in Nat \X Nat : ss[1] < ss[2]}
<1>1. IsWellFoundedOn(below, Nat)
  BY NatLessThanWellFounded, Zenon DEF OpToRel
<1> HIDE DEF below
<1>2. PICK m \in T : \A n \in T : ~ (<<n, m>> \in below)
  BY <1>1, WFMin
<1>3. ASSUME NEW n \in T PROVE m <= n
  <2>1. <<n, m>> \in below <=> n < m
    BY DEF below
  <2>. QED
    BY <1>2, <2>1
<1>. QED
  BY <1>3

\* What holds of 0 and of the next number holds of them all.
LEMMA SetInduction ==
    ASSUME NEW T, 0 \in T, \A n \in Nat : n \in T => n + 1 \in T
    PROVE  Nat \subseteq T
<1> SUFFICES ASSUME Nat \ T # {} PROVE FALSE
  OBVIOUS
<1>1. PICK m \in Nat \ T : \A n \in Nat \ T : m <= n
  BY LeastNumber
<1>2. m # 0 /\ m - 1 \in Nat
  BY <1>1
<1>3. m - 1 \in T
  BY <1>1, <1>2
<1>. QED
  BY <1>1, <1>2, <1>3

SameOrder(n, m, s, z) == n = m /\ \A i \in 1 .. n : s[i] = z[i]

\* Only one function lists a set in order.
LEMMA OneOrder ==
    ASSUME NEW n \in Nat, NEW m \in Nat, NEW A \in SUBSET Nat, NEW s, NEW z,
           Enumerates(s, n, A), Enumerates(z, m, A)
    PROVE  SameOrder(n, m, s, z)
<1>1. /\ s \in [1 .. n -> A] /\ z \in [1 .. m -> A]
      /\ \A i, j \in 1 .. n : i < j => s[i] < s[j]
      /\ \A i, j \in 1 .. m : i < j => z[i] < z[j]
      /\ \A a \in A : \E i \in 1 .. n : s[i] = a
      /\ \A a \in A : \E i \in 1 .. m : z[i] = a
  BY DEF Enumerates
<1>2. ASSUME NEW i \in 1 .. n, NEW j \in 1 .. n, s[i] = s[j] PROVE i = j
  <2>1. s[i] \in Nat /\ s[j] \in Nat
    BY <1>1
  <2>2. ~ (i < j) /\ ~ (j < i)
    BY <1>1, <1>2, <2>1
  <2>. QED
    BY <2>2
<1>3. ASSUME NEW i \in 1 .. m, NEW j \in 1 .. m, z[i] = z[j] PROVE i = j
  <2>1. z[i] \in Nat /\ z[j] \in Nat
    BY <1>1
  <2>2. ~ (i < j) /\ ~ (j < i)
    BY <1>1, <1>3, <2>1
  <2>. QED
    BY <2>2
<1> DEFINE Apart == {i \in Nat : i \in 1 .. n /\ i \in 1 .. m /\ s[i] # z[i]}
<1>4. Apart = {}
  <2> SUFFICES ASSUME Apart # {} PROVE FALSE
    OBVIOUS
  <2>1. PICK i \in Apart : \A j \in Apart : i <= j
    BY LeastNumber
  <2>2. \A j \in 1 .. i - 1 : j \in 1 .. n /\ j \in 1 .. m /\ s[j] = z[j]
    BY <2>1
  <2>3. i \in 1 .. n /\ i \in 1 .. m /\ s[i] # z[i] /\ s[i] \in Nat /\ z[i] \in Nat
    BY <1>1
  <2>4. CASE s[i] < z[i]
    <3>1. PICK j \in 1 .. m : z[j] = s[i]
      BY <1>1, <2>3
    <3>2. j < i
      BY <1>1, <2>3, <2>4, <3>1
    <3>. QED
      BY <1>2, <2>2, <2>3, <3>1, <3>2
  <2>5. CASE z[i] < s[i]
    <3>1. PICK j \in 1 .. n : s[j] = z[i]
      BY <1>1, <2>3
    <3>2. j < i
      BY <1>1, <2>3, <2>5, <3>1
    <3>. QED
      BY <1>3, <2>2, <2>3, <3>1, <3>2
  <2>. QED
    BY <2>3, <2>4, <2>5
<1>5. ~ (n < m)
  <2> SUFFICES ASSUME n < m PROVE FALSE
    OBVIOUS
  <2>1. n + 1 \in 1 .. m /\ z[n + 1] \in A
    BY <1>1
  <2>2. PICK j \in 1 .. n : s[j] = z[n + 1]
    BY <1>1, <2>1
  <2>3. j \in 1 .. m /\ z[j] = s[j]
    BY <1>4
  <2>. QED
    BY <1>3, <2>1, <2>2, <2>3
<1>6. ~ (m < n)
  <2> SUFFICES ASSUME m < n PROVE FALSE
    OBVIOUS
  <2>1. m + 1 \in 1 .. n /\ s[m + 1] \in A
    BY <1>1
  <2>2. PICK j \in 1 .. m : z[j] = s[m + 1]
    BY <1>1, <2>1
  <2>3. j \in 1 .. n /\ z[j] = s[j]
    BY <1>4
  <2>4. s[j] = s[m + 1]
    BY <2>2, <2>3
  <2>5. j = m + 1
    BY <1>2, <2>1, <2>3, <2>4
  <2>. QED
    BY <2>5
<1>. QED
  BY <1>4, <1>5, <1>6 DEF SameOrder
-----------------------------------------------------------------------------
(* The walk over the table.                                                *)

\* u is the recursion behind AccountsOf, up to k.
Walks(t, k, u) ==
    u = [j \in 0 .. k |-> IF j = 0 THEN <<>>
                          ELSE IF t[j - 1] = Vacant THEN u[j - 1]
                          ELSE Append(u[j - 1], t[j - 1])]

\* The limits of the table and the numbers.
LEMMA Limits ==
    /\ UserMax \in Nat \ {0} /\ FirstUid \in Nat \ {0} /\ MaxUid \in Nat /\ MaxUid >= FirstUid
    /\ NULL \notin Nat /\ Vacant \notin Account
<1>1. \A u \in Account : u.name \in Names
  BY DEF Account
<1>2. Vacant.name = ""
  BY DEF Vacant
<1>. QED
  BY <1>1, <1>2, UsersAssumption

\* There is a function that satisfies the recursion.
LEMMA WalksExist == \A t : \E u : Walks(t, UserMax, u)
<1> SUFFICES ASSUME NEW t PROVE \E u : Walks(t, UserMax, u)
  OBVIOUS
<1> DEFINE T == {k \in Nat : \E u : Walks(t, k, u)}
<1>1. 0 \in T
  <2> DEFINE u == [j \in 0 .. 0 |-> <<>>]
  <2>1. u = [j \in 0 .. 0 |-> IF j = 0 THEN <<>>
                              ELSE IF t[j - 1] = Vacant THEN u[j - 1]
                              ELSE Append(u[j - 1], t[j - 1])]
    OBVIOUS
  <2>. QED
    BY <2>1 DEF Walks
<1>2. ASSUME NEW k \in Nat, k \in T PROVE k + 1 \in T
  <2>1. PICK u : Walks(t, k, u)
    BY <1>2
  <2> DEFINE v == [j \in 0 .. k + 1 |->
                     IF j <= k THEN u[j]
                     ELSE IF t[k] = Vacant THEN u[k] ELSE Append(u[k], t[k])]
  <2>2. ASSUME NEW j \in 0 .. k + 1
        PROVE  v[j] = IF j = 0 THEN <<>>
                      ELSE IF t[j - 1] = Vacant THEN v[j - 1]
                      ELSE Append(v[j - 1], t[j - 1])
    <3>1. CASE j = k + 1
      BY <3>1
    <3>2. CASE j # k + 1
      <4>1. j \in 0 .. k /\ (j # 0 => j - 1 \in 0 .. k)
        BY <3>2
      <4>2. u[j] = IF j = 0 THEN <<>>
                   ELSE IF t[j - 1] = Vacant THEN u[j - 1]
                   ELSE Append(u[j - 1], t[j - 1])
        BY <2>1, <4>1 DEF Walks
      <4>3. v[j] = u[j] /\ (j # 0 => v[j - 1] = u[j - 1])
        BY <4>1
      <4>. QED
        BY <4>2, <4>3
    <3>. QED
      BY <3>1, <3>2
  <2>3. v = [j \in 0 .. k + 1 |-> v[j]]
    OBVIOUS
  <2> HIDE DEF v
  <2>4. Walks(t, k + 1, v)
    BY <2>2, <2>3 DEF Walks
  <2>. QED
    BY <2>4
<1>3. Nat \subseteq T
  <2> HIDE DEF T
  <2>. QED
    BY <1>1, <1>2, SetInduction
<1>. QED
  BY <1>3, Limits

\* AccountsOf lists the accounts of the table.
LEMMA AccountsListed == \A t \in Table : Listed(t, UserMax, AccountsOf(t))
<1> SUFFICES ASSUME NEW t \in Table PROVE Listed(t, UserMax, AccountsOf(t))
  OBVIOUS
<1> DEFINE u == CHOOSE x : Walks(t, UserMax, x)
<1>1. AccountsOf(t) = u[UserMax]
  BY Zenon DEF AccountsOf, Walks
<1>2. Walks(t, UserMax, u)
  BY WalksExist
<1> HIDE DEF u
<1> DEFINE T == {k \in Nat : k <= UserMax => Listed(t, k, u[k])}
<1>3. 0 \in T
  <2>1. u[0] = <<>>
    BY <1>2, Limits DEF Walks
  <2>2. Taken(t, 0) = {}
    BY DEF Taken
  <2>3. ListedBy(t, 0, <<>>, [i \in 1 .. 0 |-> 0])
    BY <2>2 DEF ListedBy, Enumerates
  <2>. QED
    BY <2>1, <2>3 DEF Listed
<1>4. ASSUME NEW k \in Nat, k \in T PROVE k + 1 \in T
  <2> SUFFICES ASSUME k + 1 <= UserMax PROVE Listed(t, k + 1, u[k + 1])
    OBVIOUS
  <2> DEFINE q == u[k]
             n == Len(q)
  <2>1. PICK s : ListedBy(t, k, q, s)
    BY <1>4, Limits DEF Listed
  <2>2. k \in Slots /\ t[k] \in Account \union {Vacant}
    BY Limits DEF Slots, Table
  <2>3. u[k + 1] = IF t[k] = Vacant THEN q ELSE Append(q, t[k])
    <3>1. k + 1 \in 0 .. UserMax /\ k + 1 # 0 /\ (k + 1) - 1 = k
      BY Limits
    <3>2. u[k + 1] = IF t[(k + 1) - 1] = Vacant THEN u[(k + 1) - 1]
                     ELSE Append(u[(k + 1) - 1], t[(k + 1) - 1])
      BY <1>2, <3>1 DEF Walks
    <3>. QED
      BY <3>1, <3>2
  <2> HIDE DEF q
  <2>4. /\ q \in Seq(Account) /\ n \in Nat /\ n <= k
        /\ s \in [1 .. n -> Taken(t, k)]
        /\ \A i, j \in 1 .. n : i < j => s[i] < s[j]
        /\ \A a \in Taken(t, k) : \E i \in 1 .. n : s[i] = a
        /\ \A i \in 1 .. n : q[i] = t[s[i]]
    BY <2>1 DEF ListedBy, Enumerates
  <2>5. CASE t[k] = Vacant
    <3>1. Taken(t, k + 1) = Taken(t, k)
      BY <2>5 DEF Taken
    <3>2. ListedBy(t, k + 1, q, s)
      BY <2>1, <2>4, <3>1 DEF ListedBy
    <3>. QED
      BY <2>3, <2>5, <3>2 DEF Listed
  <2>6. CASE t[k] # Vacant
    <3> DEFINE r == Append(q, t[k])
               z == [i \in 1 .. n + 1 |-> IF i = n + 1 THEN k ELSE s[i]]
    <3>1. /\ r \in Seq(Account) /\ Len(r) = n + 1 /\ r[n + 1] = t[k]
          /\ \A i \in 1 .. n : r[i] = q[i]
      BY <2>2, <2>4, <2>6
    <3>2. Taken(t, k + 1) = Taken(t, k) \union {k} /\ \A a \in Taken(t, k) : a \in Nat /\ a < k
      BY <2>6 DEF Taken
    <3>3. /\ \A i \in 1 .. n : z[i] = s[i] /\ z[i] \in Taken(t, k)
          /\ z[n + 1] = k
      BY <2>4
    <3>4. \A i \in 1 .. n + 1 : i = n + 1 \/ i \in 1 .. n
      BY <2>4
    <3>5. z \in [1 .. n + 1 -> Taken(t, k + 1)]
      BY <3>2, <3>3, <3>4
    <3> HIDE DEF z, r
    <3>6. ASSUME NEW i \in 1 .. n + 1, NEW j \in 1 .. n + 1, i < j PROVE z[i] < z[j]
      <4>1. i \in 1 .. n /\ z[i] = s[i] /\ s[i] \in Nat /\ s[i] < k
        BY <2>4, <3>2, <3>3, <3>4, <3>6
      <4>2. CASE j = n + 1
        BY <3>3, <4>1, <4>2
      <4>3. CASE j \in 1 .. n
        BY <2>4, <3>3, <3>6, <4>1, <4>3
      <4>. QED
        BY <3>4, <4>2, <4>3
    <3>7. ASSUME NEW a \in Taken(t, k + 1) PROVE \E i \in 1 .. n + 1 : z[i] = a
      <4>1. n + 1 \in 1 .. n + 1 /\ \A i \in 1 .. n : i \in 1 .. n + 1
        BY <2>4
      <4>. QED
        BY <2>4, <3>2, <3>3, <4>1
    <3>8. \A i \in 1 .. n + 1 : r[i] = t[z[i]]
      BY <2>4, <3>1, <3>3, <3>4
    <3>9. ListedBy(t, k + 1, r, z)
      BY <2>4, <3>1, <3>5, <3>6, <3>7, <3>8 DEF ListedBy, Enumerates
    <3>. QED
      BY <2>3, <2>6, <3>9 DEF Listed, r
  <2>. QED
    BY <2>5, <2>6
<1>5. UserMax \in T
  <2>1. UserMax \in Nat
    BY Limits
  <2> HIDE DEF T
  <2>2. Nat \subseteq T
    BY <1>3, <1>4, SetInduction
  <2>. QED
    BY <2>1, <2>2
<1>. QED
  BY <1>1, <1>5, Limits

\* What the list q of the accounts of t says about t.
ListsTable(t, q) ==
    /\ AccountsOK(q)
    /\ \A i \in Slots : t[i] # Vacant => \E k \in 1 .. Len(q) : q[k] = t[i]
    /\ \A k \in 1 .. Len(q) : \E i \in Slots : t[i] # Vacant /\ t[i] = q[k]

\* The list has every account of the table once and no other.
LEMMA ListOfTable ==
    ASSUME NEW b \in Nat, b <= MaxUid, NEW t, TableOK(t, b), NEW q, q = AccountsOf(t)
    PROVE  ListsTable(t, q)
<1>1. t \in Table
  BY DEF TableOK
<1>2. PICK s : ListedBy(t, UserMax, q, s)
  BY <1>1, AccountsListed DEF Listed
<1>3. /\ q \in Seq(Account) /\ Len(q) <= UserMax
      /\ s \in [1 .. Len(q) -> Taken(t, UserMax)]
      /\ \A i, j \in 1 .. Len(q) : i < j => s[i] < s[j]
      /\ \A a \in Taken(t, UserMax) : \E i \in 1 .. Len(q) : s[i] = a
      /\ \A i \in 1 .. Len(q) : q[i] = t[s[i]]
  BY <1>2 DEF ListedBy, Enumerates
<1>4. \A i : i \in Taken(t, UserMax) <=> i \in Slots /\ t[i] # Vacant
  BY DEF Taken, Slots
<1>5. ASSUME NEW k \in 1 .. Len(q) PROVE s[k] \in Slots /\ t[s[k]] # Vacant /\ s[k] \in Nat
  BY <1>3, <1>4 DEF Slots
<1>6. ASSUME NEW k \in 1 .. Len(q), NEW l \in 1 .. Len(q), SameAccount(q[k], q[l]) PROVE k = l
  <2>1. s[k] = s[l]
    BY <1>3, <1>5, <1>6 DEF TableOK
  <2>2. ~ (k < l) /\ ~ (l < k)
    BY <1>3, <1>5, <2>1
  <2>. QED
    BY <2>2
<1>7. ASSUME NEW k \in 1 .. Len(q) PROVE q[k].uid < MaxUid
  <2>1. t[s[k]].uid < b /\ q[k] = t[s[k]] /\ q[k] \in Account
    BY <1>3, <1>5 DEF TableOK
  <2>. QED
    BY <2>1, Limits DEF Account
<1>8. AccountsOK(q)
  BY <1>3, <1>6, <1>7 DEF AccountsOK
<1>9. ASSUME NEW i \in Slots, t[i] # Vacant PROVE \E k \in 1 .. Len(q) : q[k] = t[i]
  BY <1>3, <1>4, <1>9
<1>10. ASSUME NEW k \in 1 .. Len(q) PROVE \E i \in Slots : t[i] # Vacant /\ t[i] = q[k]
  BY <1>3, <1>5
<1>. QED
  BY <1>8, <1>9, <1>10 DEF ListsTable

\* Tables that differ in passwords only have the same /etc/passwd.
LEMMA SameLines ==
    ASSUME NEW t \in Table, NEW g \in Table,
           \A i \in Slots : /\ t[i] = Vacant <=> g[i] = Vacant
                            /\ t[i].name = g[i].name /\ t[i].uid = g[i].uid
    PROVE  Lines(AccountsOf(t)) = Lines(AccountsOf(g))
<1> DEFINE q == AccountsOf(t)
           p == AccountsOf(g)
<1>1. PICK s : ListedBy(t, UserMax, q, s)
  BY AccountsListed DEF Listed
<1>2. PICK z : ListedBy(g, UserMax, p, z)
  BY AccountsListed DEF Listed
<1> HIDE DEF q, p
<1>3. Taken(t, UserMax) = Taken(g, UserMax) /\ Taken(t, UserMax) \in SUBSET Nat
  BY DEF Taken, Slots
<1>4. Len(q) \in Nat /\ Len(p) \in Nat /\ DOMAIN q = 1 .. Len(q) /\ DOMAIN p = 1 .. Len(p)
  BY <1>1, <1>2 DEF ListedBy
<1>5. Enumerates(s, Len(q), Taken(t, UserMax)) /\ Enumerates(z, Len(p), Taken(t, UserMax))
  BY <1>1, <1>2, <1>3 DEF ListedBy
<1>6. Len(q) = Len(p) /\ \A i \in 1 .. Len(q) : s[i] = z[i]
  <2>1. SameOrder(Len(q), Len(p), s, z)
    BY <1>3, <1>4, <1>5, OneOrder
  <2>. QED
    BY <2>1 DEF SameOrder
<1>7. ASSUME NEW i \in 1 .. Len(q) PROVE q[i].name = p[i].name /\ q[i].uid = p[i].uid
  <2>1. q[i] = t[s[i]] /\ p[i] = g[s[i]]
    BY <1>1, <1>2, <1>6 DEF ListedBy
  <2>2. s[i] \in Slots
    BY <1>5 DEF Enumerates, Taken, Slots
  <2>. QED
    BY <2>1, <2>2
<1>8. Lines(q) = Lines(p)
  BY <1>4, <1>6, <1>7 DEF Lines
<1>. QED
  BY <1>8 DEF q, p

\* A finite range has a greatest element.
LEMMA MaxIs ==
    ASSUME NEW b \in Nat, NEW T \in SUBSET (0 .. b), T # {}
    PROVE  Max(T) \in T /\ \A x \in T : x <= Max(T)
<1> DEFINE below == {b - x : x \in T}
<1>1. below \in SUBSET Nat /\ below # {}
  <2>1. ASSUME NEW x \in T PROVE b - x \in Nat
    <3>1. x \in 0 .. b
      OBVIOUS
    <3>. QED
      BY <3>1
  <2>. QED
    BY <2>1
<1>2. PICK m \in below : \A n \in below : m <= n
  BY <1>1, LeastNumber
<1>3. PICK x \in T : m = b - x
  BY <1>2
<1>4. ASSUME NEW y \in T PROVE y <= x
  <2>1. b - x <= b - y
    BY <1>2, <1>3
  <2>. QED
    BY <2>1
<1>. QED
  BY <1>4 DEF Max

\* The first free slot is one.
LEMMA MinFree == Free # {} => Min(Free) \in Free
<1> SUFFICES ASSUME Free # {} PROVE Min(Free) \in Free
  OBVIOUS
<1>1. Free \in SUBSET Nat
  BY DEF Free, Slots
<1>2. PICK m \in Free : \A n \in Free : m <= n
  BY <1>1, LeastNumber
<1>. QED
  BY <1>2 DEF Min

\* What a restart makes of the accounts q.
Imported(q, t, b) ==
    /\ b \in FirstUid .. MaxUid /\ TableOK(t, b) /\ AccountsOf(t) = q
    /\ \A k \in 1 .. Len(q) : k - 1 \in Slots /\ t[k - 1] = q[k] /\ q[k] # Vacant
    /\ \A i \in Slots : t[i] # Vacant => \E k \in 1 .. Len(q) : t[i] = q[k]

\* Importing accounts gives a table that lists the same ones again.
LEMMA ImportIs ==
    ASSUME NEW q, AccountsOK(q), NEW t, t = Import(q), NEW b, b = ImportUid(q)
    PROVE  Imported(q, t, b)
<1>1. /\ q \in Seq(Account) /\ Len(q) \in Nat /\ Len(q) <= UserMax
      /\ \A k, l \in 1 .. Len(q) : SameAccount(q[k], q[l]) => k = l
      /\ \A k \in 1 .. Len(q) : q[k].uid < MaxUid /\ q[k] \in Account /\ q[k] # Vacant
      /\ DOMAIN q = 1 .. Len(q)
  BY Limits DEF AccountsOK
<1>2. t = [i \in Slots |-> IF i + 1 <= Len(q) THEN q[i + 1] ELSE Vacant]
  BY DEF Import
<1>3. ASSUME NEW i \in Slots
      PROVE  t[i] = IF i + 1 \in 1 .. Len(q) THEN q[i + 1] ELSE Vacant
  BY <1>1, <1>2 DEF Slots
<1>4. t \in Table
  BY <1>1, <1>2, <1>3 DEF Table
<1>5. \A k \in 1 .. Len(q) : k - 1 \in Slots /\ t[k - 1] = q[k] /\ q[k] # Vacant
  <2> TAKE k \in 1 .. Len(q)
  <2>1. k - 1 \in Slots /\ (k - 1) + 1 = k
    BY <1>1, Limits DEF Slots
  <2>. QED
    BY <1>1, <1>3, <2>1
<1>6. ASSUME NEW i \in Slots, t[i] # Vacant PROVE i + 1 \in 1 .. Len(q) /\ t[i] = q[i + 1]
  BY <1>3, <1>6
<1>7. b \in FirstUid .. MaxUid /\ \A k \in 1 .. Len(q) : q[k].uid < b
  <2> DEFINE T == {FirstUid} \union {q[k].uid + 1 : k \in DOMAIN q}
  <2>1. ASSUME NEW k \in DOMAIN q PROVE q[k].uid \in Nat /\ q[k].uid + 1 \in 0 .. MaxUid
    <3>1. q[k].uid < MaxUid /\ q[k].uid \in 0 .. MaxUid
      BY <1>1 DEF Account
    <3>. QED
      BY <3>1, Limits
  <2>2. T \in SUBSET (0 .. MaxUid) /\ T # {} /\ MaxUid \in Nat
    BY <2>1, Limits
  <2> HIDE DEF T
  <2>3. Max(T) \in T /\ \A x \in T : x <= Max(T)
    BY <2>2, MaxIs
  <2>4. b = Max(T)
    BY DEF ImportUid, T
  <2>5. FirstUid \in T /\ \A k \in 1 .. Len(q) : q[k].uid + 1 \in T
    BY <1>1 DEF T
  <2>6. b \in 0 .. MaxUid /\ FirstUid <= b
    BY <2>2, <2>3, <2>4, <2>5
  <2>7. ASSUME NEW k \in 1 .. Len(q) PROVE q[k].uid < b
    <3>1. q[k].uid + 1 <= b /\ q[k].uid \in Nat
      BY <1>1, <2>1, <2>3, <2>4, <2>5
    <3>. QED
      BY <2>6, <3>1
  <2>. QED
    BY <2>6, <2>7, Limits
<1>8. TableOK(t, b)
  <2>1. ASSUME NEW i \in Slots, NEW j \in Slots,
               t[i] # Vacant, t[j] # Vacant, SameAccount(t[i], t[j])
        PROVE  i = j
    <3>1. i + 1 = j + 1
      BY <1>1, <1>6, <2>1
    <3>. QED
      BY <3>1 DEF Slots
  <2>2. \A i \in Slots : t[i] # Vacant => t[i].uid < b
    BY <1>6, <1>7
  <2>. QED
    BY <1>4, <2>1, <2>2 DEF TableOK
<1>9. AccountsOf(t) = q
  <2> DEFINE p == AccountsOf(t)
             z == [k \in 1 .. Len(q) |-> k - 1]
  <2>1. PICK s : ListedBy(t, UserMax, p, s)
    BY <1>4, AccountsListed DEF Listed
  <2> HIDE DEF p
  <2>2. p \in Seq(Account) /\ Len(p) \in Nat /\ Enumerates(s, Len(p), Taken(t, UserMax))
    BY <2>1 DEF ListedBy
  <2>3. Taken(t, UserMax) = 0 .. Len(q) - 1
    <3>1. \A i : i \in Taken(t, UserMax) <=> i \in Slots /\ t[i] # Vacant
      BY DEF Taken, Slots
    <3>2. ASSUME NEW i \in Taken(t, UserMax) PROVE i \in 0 .. Len(q) - 1
      <4>1. i + 1 \in 1 .. Len(q) /\ i \in Nat
        BY <1>6, <3>1 DEF Slots
      <4>. QED
        BY <1>1, <4>1
    <3>3. ASSUME NEW i \in 0 .. Len(q) - 1 PROVE i \in Taken(t, UserMax)
      <4>1. i + 1 \in 1 .. Len(q) /\ (i + 1) - 1 = i
        BY <1>1
      <4>. QED
        BY <1>5, <3>1, <4>1
    <3>. QED
      BY <3>2, <3>3
  <2>4. Enumerates(z, Len(q), Taken(t, UserMax))
    <3>1. \A a \in 0 .. Len(q) - 1 : a + 1 \in 1 .. Len(q) /\ z[a + 1] = a
      BY <1>1
    <3>2. z \in [1 .. Len(q) -> 0 .. Len(q) - 1]
      BY <1>1
    <3>3. \A i, j \in 1 .. Len(q) : i < j => z[i] < z[j]
      OBVIOUS
    <3> HIDE DEF z
    <3>. QED
      BY <2>3, <3>1, <3>2, <3>3 DEF Enumerates
  <2>5. Taken(t, UserMax) \in SUBSET Nat
    BY DEF Taken
  <2>6. Len(p) = Len(q) /\ \A i \in 1 .. Len(p) : s[i] = z[i]
    <3> HIDE DEF z
    <3>1. SameOrder(Len(p), Len(q), s, z)
      BY <1>1, <2>2, <2>4, <2>5, OneOrder
    <3>. QED
      BY <3>1 DEF SameOrder
  <2>7. \A i \in 1 .. Len(p) : p[i] = q[i]
    <3> TAKE i \in 1 .. Len(p)
    <3>1. p[i] = t[s[i]] /\ s[i] = i - 1 /\ i \in 1 .. Len(q)
      BY <2>1, <2>6 DEF ListedBy
    <3>. QED
      BY <1>5, <3>1
  <2>8. p = q
    BY <1>1, <2>2, <2>6, <2>7, SeqEqual
  <2>. QED
    BY <2>8 DEF p
<1>10. \A i \in Slots : t[i] # Vacant => \E k \in 1 .. Len(q) : t[i] = q[k]
  BY <1>6
<1>. QED
  BY <1>5, <1>7, <1>8, <1>9, <1>10 DEF Imported
-----------------------------------------------------------------------------
(* The steps.                                                              *)

\* A save of a table with a root in it.
LEMMA SaveIs ==
    ASSUME NEW b \in Nat, b <= MaxUid, NEW t, TableOK(t, b),
           \E i \in Slots : t[i] # Vacant /\ t[i].uid = 0,
           NEW x, x = [accounts |-> AccountsOf(t), passwd |-> Lines(AccountsOf(t))]
    PROVE  SavedOK(x)
<1>1. ListsTable(t, AccountsOf(t))
  BY ListOfTable
<1>2. \E k \in 1 .. Len(AccountsOf(t)) : AccountsOf(t)[k].uid = 0
  BY <1>1 DEF ListsTable
<1>. QED
  BY <1>1, <1>2 DEF SavedOK, ListsTable

\* What users_add does with slot i.
Adds(i, name, admin) ==
    /\ i \in Slots /\ users[i] = Vacant
    /\ users'[i] # Vacant /\ users'[i].name = name /\ (admin => users'[i].uid = 0)
    /\ \A j \in Slots \ {i} : users'[j] = users[j]
    /\ next_uid' \in FirstUid .. MaxUid /\ TableOK(users', next_uid')
    /\ passwd' = Lines(AccountsOf(users'))

\* A new account differs from the others: by its name because that was looked
\* up, by its uid because next_uid lies above all.
LEMMA AddKeeps ==
    ASSUME UsersInv, NEW name \in Names, NEW pw \in Passwords, NEW admin \in BOOLEAN,
           admin => Active = {}, users_add(name, pw, admin)
    PROVE  \E i : Adds(i, name, admin)
<1>1. /\ next_uid \in FirstUid .. MaxUid /\ users \in Table
      /\ \A i, j \in Slots :
            users[i] # Vacant /\ users[j] # Vacant /\ SameAccount(users[i], users[j]) => i = j
      /\ \A i \in Slots : users[i] # Vacant => users[i].uid < next_uid
  BY DEF UsersInv, TableOK
<1> DEFINE u == [name |-> name, uid |-> IF admin THEN 0 ELSE next_uid, pw |-> pw]
<1>2. PICK i \in Free : i = Min(Free)
  BY MinFree DEF users_add
<1>3. /\ users' = [users EXCEPT ![i] = u] /\ passwd' = Lines(AccountsOf(users'))
      /\ next_uid' = IF admin THEN next_uid ELSE next_uid + 1
      /\ admin \/ next_uid < MaxUid
      /\ Named(name) = {}
  BY <1>2 DEF users_add, sync_passwd_file
<1>4. i \in Slots /\ users[i] = Vacant
  BY DEF Free, Active
<1>5. u \in Account /\ u # Vacant /\ u.name = name /\ u.uid = IF admin THEN 0 ELSE next_uid
  <2>1. u \in Account
    BY <1>1, Limits DEF Account
  <2>. QED
    BY <2>1, Limits
<1> HIDE DEF u
<1>6. users'[i] = u /\ (\A j \in Slots \ {i} : users'[j] = users[j]) /\ users' \in Table
  BY <1>1, <1>3, <1>4, <1>5 DEF Table
<1>7. ASSUME NEW j \in Slots, j # i, users[j] # Vacant PROVE ~ SameAccount(users[j], u)
  <2>1. users[j].name # name
    BY <1>3, <1>7 DEF Named, Active
  <2>2. ~ admin
    BY <1>7 DEF Active
  <2>3. users[j] \in Account /\ users[j].uid < next_uid
    BY <1>1, <1>7 DEF Table
  <2>4. users[j].uid # next_uid
    BY <1>1, <2>3, Limits DEF Account
  <2>. QED
    BY <1>5, <2>1, <2>2, <2>4 DEF SameAccount
<1>8. next_uid' \in FirstUid .. MaxUid /\ next_uid <= next_uid' /\ u.uid < next_uid'
  BY <1>1, <1>3, <1>5, Limits
<1>9. ASSUME NEW j \in Slots, NEW k \in Slots, users'[j] # Vacant, users'[k] # Vacant,
             SameAccount(users'[j], users'[k])
      PROVE  j = k
  <2>1. CASE j = i /\ k # i
    <3>1. SameAccount(users[k], u)
      BY <1>6, <1>9, <2>1 DEF SameAccount
    <3>. QED
      BY <1>6, <1>7, <1>9, <2>1, <3>1
  <2>2. CASE j # i /\ k = i
    <3>1. SameAccount(users[j], u)
      BY <1>6, <1>9, <2>2 DEF SameAccount
    <3>. QED
      BY <1>6, <1>7, <1>9, <2>2, <3>1
  <2>3. CASE j # i /\ k # i
    BY <1>1, <1>6, <1>9, <2>3
  <2>. QED
    BY <2>1, <2>2, <2>3
<1>10. ASSUME NEW j \in Slots, users'[j] # Vacant PROVE users'[j].uid < next_uid'
  <2>1. CASE j = i
    BY <1>6, <1>8, <2>1
  <2>2. CASE j # i
    <3>1. users[j] \in Account /\ users[j].uid < next_uid /\ users'[j] = users[j]
      BY <1>1, <1>6, <1>10, <2>2 DEF Table
    <3>. QED
      BY <1>1, <1>8, <3>1, Limits DEF Account
  <2>. QED
    BY <2>1, <2>2
<1>11. TableOK(users', next_uid')
  BY <1>6, <1>9, <1>10 DEF TableOK
<1>. QED
  BY <1>3, <1>4, <1>5, <1>6, <1>8, <1>11 DEF Adds

\* The wizard's root account.
LEMMA SetupRootKeeps == ASSUME UsersInv, SetupRoot PROVE UsersInv'
<1>1. PICK pw \in Passwords : users_add("root", pw, TRUE)
  BY DEF SetupRoot
<1>2. Active = {} /\ "root" \in Names
  BY UsersAssumption DEF SetupRoot, UsersInv
<1>3. PICK i : Adds(i, "root", TRUE)
  BY <1>1, <1>2, AddKeeps
<1>4. pc' = "everyday" /\ UNCHANGED <<current, saved, who>>
  BY DEF SetupRoot
<1>5. \E j \in Active' : users'[j].uid = 0
  BY <1>3 DEF Adds, Active
<1>. QED
  BY <1>3, <1>4, <1>5 DEF UsersInv, Adds, CurrentIsWho, PasswdTruthful

\* The everyday account, or none, and the save behind the wizard.
LEMMA SetupUserKeeps == ASSUME UsersInv, SetupUser PROVE UsersInv'
<1>1. PICK i \in Active : users[i].uid = 0
  BY DEF SetupUser, UsersInv
<1>2. pc' = "login" /\ saved' \in {saved, Export'} /\ UNCHANGED <<current, who>>
  BY DEF SetupUser
<1>3. /\ next_uid' \in FirstUid .. MaxUid /\ TableOK(users', next_uid')
      /\ passwd' = Lines(AccountsOf(users'))
      /\ i \in Slots /\ users'[i] # Vacant /\ users'[i].uid = 0
  <2>1. CASE UNCHANGED <<users, next_uid, passwd>>
    BY <1>1, <2>1 DEF UsersInv, PasswdTruthful, Active
  <2>2. ASSUME NEW name \in Names, NEW pw \in Passwords, users_add(name, pw, FALSE)
        PROVE  /\ next_uid' \in FirstUid .. MaxUid /\ TableOK(users', next_uid')
               /\ passwd' = Lines(AccountsOf(users'))
               /\ i \in Slots /\ users'[i] # Vacant /\ users'[i].uid = 0
    <3>1. PICK j : Adds(j, name, FALSE)
      BY <2>2, AddKeeps
    <3>. QED
      BY <1>1, <3>1 DEF Adds, Active
  <2>. QED
    BY <2>1, <2>2 DEF SetupUser
<1>4. SavedOK(saved')
  <2>1. CASE saved' = saved
    BY <2>1 DEF UsersInv
  <2>2. CASE saved' = Export'
    <3>1. saved' = [accounts |-> AccountsOf(users'), passwd |-> Lines(AccountsOf(users'))]
      BY <1>3, <2>2 DEF Export
    <3>2. next_uid' \in Nat /\ next_uid' <= MaxUid
      BY <1>3, Limits
    <3>. QED
      BY <1>3, <3>1, <3>2, SaveIs
  <2>. QED
    BY <1>2, <2>1, <2>2
<1>. QED
  BY <1>2, <1>3, <1>4 DEF UsersInv, CurrentIsWho, PasswdTruthful, Active

\* A save of the table as it is, or none.
LEMMA SavesKeep ==
    ASSUME UsersInv, pc # "setup", saved' \in {saved, Export}
    PROVE  SavedOK(saved')
<1>1. CASE saved' = saved
  BY <1>1 DEF UsersInv
<1>2. CASE saved' = Export
  <2>1. saved' = [accounts |-> AccountsOf(users), passwd |-> Lines(AccountsOf(users))]
    BY <1>2 DEF Export, UsersInv, PasswdTruthful
  <2>2. next_uid \in Nat /\ next_uid <= MaxUid /\ TableOK(users, next_uid)
    BY Limits DEF UsersInv
  <2>3. \E i \in Slots : users[i] # Vacant /\ users[i].uid = 0
    BY DEF UsersInv, Active
  <2>. QED
    BY <2>1, <2>2, <2>3, SaveIs
<1>. QED
  BY <1>1, <1>2

\* Logins, logouts, su and flushes leave the table alone.
LEMMA SessionKeeps ==
    ASSUME UsersInv, Login \/ Logout \/ Su \/ Flush
    PROVE  UsersInv'
<1>1. /\ UNCHANGED <<users, next_uid, passwd>>
      /\ pc # "setup" /\ pc' \in {"login", "shell", "flush"}
      /\ saved' \in {saved, Export}
  BY DEF Login, Logout, Su, Flush
<1>2. SavedOK(saved')
  BY <1>1, SavesKeep
<1>3. /\ current' \in Slots \union {NULL} /\ who' \in Names \union {NULL}
      /\ pc' \in {"shell", "flush"} => current' \in Active /\ users[current'].name = who'
  <2>1. CASE Login \/ Su
    <3>1. PICK name \in Names, pw \in Passwords : users_switch(name, pw)
      BY <2>1 DEF Login, Su
    <3>. QED
      BY <3>1 DEF users_switch, Named, Active
  <2>2. CASE Logout
    BY <2>2 DEF Logout
  <2>3. CASE Flush
    BY <2>3 DEF Flush, UsersInv, CurrentIsWho
  <2>. QED
    BY <2>1, <2>2, <2>3
<1>. QED
  BY <1>1, <1>2, <1>3 DEF UsersInv, CurrentIsWho, PasswdTruthful, Active

\* useradd.
LEMMA UserAddKeeps == ASSUME UsersInv, UserAdd PROVE UsersInv'
<1>1. PICK name \in Names, pw \in Passwords : users_add(name, pw, FALSE)
  BY DEF UserAdd
<1>2. PICK i : Adds(i, name, FALSE)
  BY <1>1, AddKeeps
<1>3. pc = "shell" /\ pc' = "flush" /\ UNCHANGED <<current, saved, who>>
  BY DEF UserAdd
<1>4. current \in Active /\ users[current].name = who
  BY <1>3 DEF UsersInv, CurrentIsWho
<1>5. PICK j \in Active : users[j].uid = 0
  BY <1>3 DEF UsersInv
<1>6. \A k \in Active : k # i /\ k \in Active' /\ users'[k] = users[k]
  BY <1>2 DEF Adds, Active
<1>. QED
  BY <1>2, <1>3, <1>4, <1>5, <1>6 DEF UsersInv, Adds, CurrentIsWho, PasswdTruthful

\* userdel takes neither root nor whoever is logged in.
LEMMA UserDelKeeps == ASSUME UsersInv, UserDel PROVE UsersInv'
<1>1. PICK i \in Active : /\ users[i].uid # 0 /\ i # current
                         /\ users' = [users EXCEPT ![i] = Vacant]
  BY DEF UserDel, Named
<1>2. /\ pc = "shell" /\ pc' = "flush" /\ UNCHANGED <<current, next_uid, saved, who>>
      /\ passwd' = Lines(AccountsOf(users'))
  BY DEF UserDel, sync_passwd_file
<1>3. /\ i \in Slots /\ users \in Table /\ users' \in Table /\ users'[i] = Vacant
      /\ \A k \in Slots \ {i} : users'[k] = users[k]
  BY <1>1 DEF UsersInv, TableOK, Table, Active
<1>4. TableOK(users', next_uid)
  BY <1>3 DEF UsersInv, TableOK
<1>5. current \in Active /\ users[current].name = who
  BY <1>2 DEF UsersInv, CurrentIsWho
<1>6. PICK j \in Active : users[j].uid = 0
  BY <1>2 DEF UsersInv
<1>7. \A k \in Active : k # i => k \in Active' /\ users'[k] = users[k]
  BY <1>3 DEF Active
<1>. QED
  BY <1>1, <1>2, <1>4, <1>5, <1>6, <1>7 DEF UsersInv, CurrentIsWho, PasswdTruthful

\* passwd changes a password and nothing else.
LEMMA PasswdKeeps == ASSUME UsersInv, Passwd PROVE UsersInv'
<1>1. PICK i \in Active, pw \in Passwords : users' = [users EXCEPT ![i].pw = pw]
  BY DEF Passwd, Named
<1>2. pc = "shell" /\ pc' = "flush" /\ UNCHANGED <<current, next_uid, passwd, saved, who>>
  BY DEF Passwd
<1>3. i \in Slots /\ users \in Table /\ users[i] \in Account
  BY DEF UsersInv, TableOK, Table, Active
<1>4. /\ users'[i] \in Account /\ users'[i].name = users[i].name /\ users'[i].uid = users[i].uid
      /\ \A k \in Slots \ {i} : users'[k] = users[k]
      /\ users' \in Table
  <2>1. users'[i] = [users[i] EXCEPT !.pw = pw]
    BY <1>1, <1>3 DEF Table
  <2>2. users'[i] \in Account /\ users'[i].name = users[i].name /\ users'[i].uid = users[i].uid
    BY <1>3, <2>1 DEF Account
  <2>3. \A k \in Slots \ {i} : users'[k] = users[k]
    BY <1>1, <1>3 DEF Table
  <2>4. users' \in Table
    <3>1. users' = [k \in Slots |-> users'[k]]
      BY <1>1, <1>3 DEF Table
    <3>2. \A k \in Slots : users'[k] \in Account \union {Vacant}
      BY <1>3, <2>2, <2>3 DEF Table
    <3>. QED
      BY <3>1, <3>2 DEF Table
  <2>. QED
    BY <2>2, <2>3, <2>4
<1>5. \A k \in Slots : /\ users'[k] = Vacant <=> users[k] = Vacant
                      /\ users'[k].name = users[k].name /\ users'[k].uid = users[k].uid
  BY <1>3, <1>4, Limits
<1>6. TableOK(users', next_uid)
  BY <1>4, <1>5 DEF UsersInv, TableOK, SameAccount
<1>7. Lines(AccountsOf(users')) = Lines(AccountsOf(users))
  BY <1>3, <1>4, <1>5, SameLines
<1>8. Active' = Active
  BY <1>5 DEF Active
<1>9. /\ current \in Active /\ users[current].name = who
      /\ \E j \in Active : users[j].uid = 0
  BY <1>2 DEF UsersInv, CurrentIsWho
<1>10. \A k \in Active : users'[k].name = users[k].name /\ users'[k].uid = users[k].uid
  BY <1>5 DEF Active
<1>. QED
  BY <1>2, <1>6, <1>7, <1>8, <1>9, <1>10 DEF UsersInv, CurrentIsWho, PasswdTruthful

\* A restart brings back what was saved.
LEMMA RestartKeeps == ASSUME UsersInv, Restart PROVE UsersInv'
<1> DEFINE q == saved.accounts
<1>1. /\ users' = Import(q) /\ next_uid' = ImportUid(q) /\ passwd' = saved.passwd
      /\ current' = NULL /\ who' = NULL /\ saved' = saved
      /\ pc' = IF q = <<>> THEN "setup" ELSE "login"
  BY DEF Restart
<1>2. /\ AccountsOK(q) /\ saved.passwd = Lines(q) /\ SavedOK(saved)
      /\ q # <<>> => \E k \in 1 .. Len(q) : q[k].uid = 0
  BY DEF UsersInv, SavedOK
<1> HIDE DEF q
<1>3. Imported(q, users', next_uid')
  BY <1>1, <1>2, ImportIs
<1>4. /\ next_uid' \in FirstUid .. MaxUid /\ TableOK(users', next_uid')
      /\ AccountsOf(users') = q
      /\ \A k \in 1 .. Len(q) : k - 1 \in Slots /\ users'[k - 1] = q[k] /\ q[k] # Vacant
      /\ \A i \in Slots : users'[i] # Vacant => \E k \in 1 .. Len(q) : users'[i] = q[k]
  BY <1>3 DEF Imported
<1>5. q = <<>> => Active' = {}
  <2>1. q = <<>> => Len(q) = 0
    OBVIOUS
  <2>. QED
    BY <1>4, <2>1 DEF Active
<1>6. q # <<>> => \E i \in Active' : users'[i].uid = 0
  BY <1>2, <1>4 DEF Active
<1>. QED
  BY <1>1, <1>2, <1>4, <1>5, <1>6 DEF UsersInv, CurrentIsWho, PasswdTruthful

\* users_init.
LEMMA UsersInit == Init => UsersInv
<1> SUFFICES ASSUME Init PROVE UsersInv
  OBVIOUS
<1>1. /\ users = [i \in Slots |-> Vacant] /\ current = NULL /\ next_uid = FirstUid
      /\ pc = "setup" /\ passwd = <<>> /\ saved = Nothing /\ who = NULL
  BY DEF Init
<1>2. users \in Table /\ Active = {} /\ \A i \in Slots : users[i] = Vacant
  BY <1>1 DEF Table, Active
<1>3. next_uid \in FirstUid .. MaxUid
  BY <1>1, Limits
<1>4. TableOK(users, next_uid)
  BY <1>2 DEF TableOK
<1>5. Lines(<<>>) = <<>>
  BY DEF Lines
<1>6. AccountsOf(users) = <<>>
  <2>1. ListsTable(users, AccountsOf(users))
    BY <1>3, <1>4, ListOfTable, Limits
  <2>. QED
    BY <1>2, <2>1 DEF ListsTable, AccountsOK
<1>7. AccountsOK(<<>>)
  BY Limits DEF AccountsOK
<1>8. SavedOK(saved)
  BY <1>1, <1>5, <1>7 DEF SavedOK, Nothing
<1>. QED
  BY <1>1, <1>2, <1>3, <1>4, <1>5, <1>6, <1>8 DEF UsersInv, CurrentIsWho, PasswdTruthful

\* The account table's inductive invariant.
THEOREM UsersInvariant == Spec => []UsersInv
<1>1. UsersInv /\ [Next]_vars => UsersInv'
  <2> SUFFICES ASSUME UsersInv, [Next]_vars PROVE UsersInv'
    OBVIOUS
  <2>1. CASE UNCHANGED vars
    BY <2>1 DEF vars, UsersInv, CurrentIsWho, PasswdTruthful, Active
  <2>. QED
    BY <2>1, SetupRootKeeps, SetupUserKeeps, SessionKeeps, UserAddKeeps, UserDelKeeps,
       PasswdKeeps, RestartKeeps DEF Next
<1>. QED
  BY <1>1, UsersInit, PTL DEF Spec
-----------------------------------------------------------------------------
(* What follows.                                                           *)

\* The lines of /etc/passwd.
LEMMA LinesAre ==
    ASSUME NEW q \in Seq(Account)
    PROVE  Lines(q) \in Seq(Names \X (0 .. MaxUid))
<1>1. Len(q) \in Nat /\ DOMAIN q = 1 .. Len(q)
  OBVIOUS
<1>2. ASSUME NEW k \in 1 .. Len(q) PROVE <<q[k].name, q[k].uid>> \in Names \X (0 .. MaxUid)
  <2>1. q[k] \in Account
    OBVIOUS
  <2>. QED
    BY <2>1 DEF Account
<1>. QED
  BY <1>1, <1>2 DEF Lines

\* The variables stay in their types; in particular next_uid is never less
\* than 1000 nor more than what has been given out allows.
THEOREM UsersTypes == Spec => []TypeOK
<1>1. ASSUME UsersInv PROVE TypeOK
  <2>1. users \in Table /\ next_uid \in Nat /\ next_uid <= MaxUid
    BY <1>1, Limits DEF UsersInv, TableOK
  <2>2. AccountsOf(users) \in Seq(Account)
    <3>1. ListsTable(users, AccountsOf(users))
      BY <1>1, <2>1, ListOfTable DEF UsersInv
    <3>. QED
      BY <3>1 DEF ListsTable, AccountsOK
  <2>3. passwd \in Seq(Names \X (0 .. MaxUid))
    BY <1>1, <2>2, LinesAre DEF UsersInv, PasswdTruthful
  <2>4. saved.accounts \in Seq(Account)
    BY <1>1 DEF UsersInv, SavedOK, AccountsOK
  <2>5. saved.passwd \in Seq(Names \X (0 .. MaxUid))
    BY <1>1, <2>4, LinesAre DEF UsersInv, SavedOK
  <2>. QED
    BY <1>1, <2>1, <2>3, <2>4, <2>5 DEF TypeOK, UsersInv, Table
<1>. QED
  BY <1>1, UsersInvariant, PTL

\* No two accounts ever share a uid or a name, whatever was removed, saved and
\* restored in between (users.c:175, 230).
THEOREM UidsStayUnique == Spec => []UidsUnique
<1>1. ASSUME UsersInv PROVE UidsUnique
  BY <1>1 DEF UsersInv, TableOK, UidsUnique, SameAccount, Active
<1>. QED
  BY <1>1, UsersInvariant, PTL

\* There is always a root once setup made one, in RAM and in the snapshot, and
\* whoever is logged in keeps their slot (users.c:244-245, 275).
THEOREM RemovalsAreSafe == Spec => []RemovalsSafe
<1>1. ASSUME UsersInv PROVE RemovalsSafe
  <2>1. pc # "setup" => \E i \in Active : users[i].uid = 0
    BY <1>1 DEF UsersInv
  <2>2. /\ saved = [accounts |-> saved.accounts, passwd |-> saved.passwd]
        /\ saved.accounts \in Seq(Account) /\ saved.passwd = Lines(saved.accounts)
        /\ saved.accounts # <<>> =>
              \E k \in 1 .. Len(saved.accounts) : saved.accounts[k].uid = 0
    BY <1>1 DEF UsersInv, SavedOK, AccountsOK
  <2>3. saved.accounts = <<>> => saved = Nothing
    <3>1. Lines(<<>>) = <<>>
      BY DEF Lines
    <3>. QED
      BY <2>2, <3>1 DEF Nothing
  <2>4. DOMAIN saved.accounts = 1 .. Len(saved.accounts)
    BY <2>2
  <2>5. saved # Nothing => \E k \in DOMAIN saved.accounts : saved.accounts[k].uid = 0
    BY <2>2, <2>3, <2>4
  <2>6. CurrentIsWho
    BY <1>1 DEF UsersInv
  <2>. QED
    BY <2>1, <2>5, <2>6 DEF RemovalsSafe, RootRemains
<1>. QED
  BY <1>1, UsersInvariant, PTL

\* Saving and restoring the table as it is, gaps and all, gives the same
\* accounts (persist.c:163-173, 386-400).
THEOREM AccountsComeBack == Spec => []AccountsSurvive
<1>1. ASSUME UsersInv PROVE AccountsSurvive
  <2> DEFINE q == AccountsOf(users)
             t == Import(q)
  <2>1. next_uid \in Nat /\ next_uid <= MaxUid /\ TableOK(users, next_uid)
    BY <1>1, Limits DEF UsersInv
  <2>2. ListsTable(users, q)
    BY <2>1, ListOfTable
  <2>3. Imported(q, t, ImportUid(q))
    BY <2>2, ImportIs DEF ListsTable
  <2>4. Export.accounts = q
    BY DEF Export
  <2> HIDE DEF q
  <2>5. ASSUME NEW i \in Slots, t[i] # Vacant PROVE \E j \in Active : t[i] = users[j]
    <3>1. PICK k \in 1 .. Len(q) : t[i] = q[k]
      BY <2>3, <2>5 DEF Imported
    <3>. QED
      BY <2>2, <3>1 DEF ListsTable, Active
  <2>6. ASSUME NEW j \in Active PROVE \E i \in Slots : t[i] = users[j] /\ t[i] # Vacant
    <3>1. PICK k \in 1 .. Len(q) : q[k] = users[j]
      BY <2>2 DEF ListsTable, Active
    <3>2. k - 1 \in Slots /\ t[k - 1] = q[k] /\ q[k] # Vacant
      BY <2>3 DEF Imported
    <3>. QED
      BY <3>1, <3>2
  <2> HIDE DEF t
  <2>7. {t[i] : i \in Slots} \ {Vacant} = {users[i] : i \in Active}
    BY <2>5, <2>6
  <2>. QED
    BY <2>4, <2>7 DEF AccountsSurvive, t
<1>. QED
  BY <1>1, UsersInvariant, PTL

\* /etc/passwd shows the table, also right after a restart (users.c:53-77).
THEOREM PasswdStaysTruthful == Spec => []PasswdTruthful
<1>1. UsersInv => PasswdTruthful
  BY DEF UsersInv
<1>. QED
  BY <1>1, UsersInvariant, PTL
=============================================================================
