----------------------------- MODULE TaskProofs -----------------------------
(***************************************************************************)
(* Proofs about the scheduler, for every number of slots, every heap and   *)
(* every bound.                                                            *)
(***************************************************************************)
EXTENDS Task, NaturalsInduction, WellFoundedInduction, SequenceTheorems, TLAPS

\* A set of indices that is not empty has a least one.
LEMMA MinIndex ==
    ASSUME NEW S \in SUBSET Nat, S # {}
    PROVE  Min(S) \in S /\ \A i \in S : Min(S) <= i
<1> DEFINE R == OpToRel(<, Nat)
<1>1. \A m, n \in Nat : <<m, n>> \in R <=> m < n
  BY DEF OpToRel
<1>2. PICK x \in S : \A y \in S : ~ (<<y, x>> \in R)
  <2>1. IsWellFoundedOn(R, Nat)
    BY NatLessThanWellFounded
  <2> HIDE DEF R
  <2>. QED
    BY <2>1, WFMin
<1> HIDE DEF R
<1>3. \A y \in S : x <= y
  <2> TAKE y \in S
  <2>1. ~ (y < x)
    BY <1>1, <1>2
  <2>. QED
    BY <2>1
<1>. QED
  BY <1>2, <1>3 DEF Min
-----------------------------------------------------------------------------
(* The community modules' InsertAt and RemoveAt, element by element.       *)

\* What stands where in the concatenation of two sequences.
LEMMA JoinElements ==
    ASSUME NEW T, NEW x \in Seq(T), NEW y \in Seq(T)
    PROVE  /\ x \o y \in Seq(T)
           /\ Len(x \o y) = Len(x) + Len(y)
           /\ \A i \in 1 .. Len(x) : (x \o y)[i] = x[i]
           /\ \A i \in Len(x) + 1 .. Len(x) + Len(y) :
                (x \o y)[i] = y[i - Len(x)]
<1>1. /\ x \o y \in Seq(T)
      /\ Len(x \o y) = Len(x) + Len(y)
      /\ \A i \in 1 .. Len(x) + Len(y) :
            (x \o y)[i] = IF i <= Len(x) THEN x[i] ELSE y[i - Len(x)]
  BY ConcatProperties, Zenon
<1>2. Len(x) \in Nat /\ Len(y) \in Nat
  OBVIOUS
<1>3. ASSUME NEW i \in 1 .. Len(x) PROVE (x \o y)[i] = x[i]
  <2>1. i \in 1 .. Len(x) + Len(y) /\ i <= Len(x)
    BY <1>2
  <2>. QED
    BY <1>1, <2>1, Zenon
<1>4. ASSUME NEW i \in Len(x) + 1 .. Len(x) + Len(y)
      PROVE  (x \o y)[i] = y[i - Len(x)]
  <2>1. i \in 1 .. Len(x) + Len(y) /\ ~ (i <= Len(x))
    BY <1>2
  <2>. QED
    BY <1>1, <2>1, Zenon
<1>. QED
  BY <1>1, <1>3, <1>4, Zenon

\* r is s with e put in behind place p.
Inserted(T, s, p, e, r) ==
    /\ r \in Seq(T)
    /\ Len(r) = Len(s) + 1
    /\ \A i \in 1 .. p : r[i] = s[i]
    /\ r[p + 1] = e
    /\ \A i \in p + 2 .. Len(s) + 1 : r[i] = s[i - 1]

\* InsertAt, the model of list_insert (task.c:47-55), shifts what is behind p.
LEMMA InsertAtElements ==
    ASSUME NEW T, NEW s \in Seq(T), NEW p \in 1 .. Len(s), NEW e \in T,
           NEW r, r = InsertAt(s, p + 1, e)
    PROVE  Inserted(T, s, p, e, r)
<1> DEFINE u == SubSeq(s, 1, p)
           v == SubSeq(s, p + 1, Len(s))
           w == u \o <<e>>
<1>1. u \in Seq(T) /\ Len(u) = p /\ \A i \in 1 .. p : u[i] = s[i]
  OBVIOUS
<1>2. /\ v \in Seq(T) /\ Len(v) = Len(s) - p
      /\ \A i \in 1 .. Len(s) - p : v[i] = s[p + i]
  OBVIOUS
<1>3. r = w \o v
  <2>1. (p + 1) - 1 = p
    OBVIOUS
  <2>. QED
    BY <2>1, Zenon DEF InsertAt
<1>4. p \in Nat /\ p + 1 \in Nat /\ Len(s) - p \in Nat /\ 1 \in Nat
  OBVIOUS
<1>5. <<e>> \in Seq(T) /\ Len(<<e>>) = 1 /\ <<e>>[1] = e
  OBVIOUS
<1> HIDE DEF u, v
<1>6. /\ w \in Seq(T)
      /\ Len(w) = p + 1
      /\ \A i \in 1 .. p : w[i] = u[i]
      /\ \A i \in p + 1 .. p + 1 : w[i] = <<e>>[i - p]
  <2>1. /\ w \in Seq(T)
        /\ Len(w) = Len(u) + Len(<<e>>)
        /\ \A i \in 1 .. Len(u) : w[i] = u[i]
        /\ \A i \in Len(u) + 1 .. Len(u) + Len(<<e>>) : w[i] = <<e>>[i - Len(u)]
    BY <1>1, <1>5, JoinElements, ZenonT(30)
  <2> HIDE DEF w
  <2>. QED
    BY <1>1, <1>5, <2>1, Zenon
<1>7. w[p + 1] = e
  BY <1>4, <1>5, <1>6
<1> HIDE DEF w
<1>8. /\ r \in Seq(T)
      /\ Len(r) = (p + 1) + (Len(s) - p)
      /\ \A i \in 1 .. p + 1 : r[i] = w[i]
      /\ \A i \in (p + 1) + 1 .. (p + 1) + (Len(s) - p) : r[i] = v[i - (p + 1)]
  <2>1. /\ w \o v \in Seq(T)
        /\ Len(w \o v) = Len(w) + Len(v)
        /\ \A i \in 1 .. Len(w) : (w \o v)[i] = w[i]
        /\ \A i \in Len(w) + 1 .. Len(w) + Len(v) :
              (w \o v)[i] = v[i - Len(w)]
    BY <1>2, <1>6, JoinElements, Zenon
  <2>. QED
    BY <1>2, <1>3, <1>6, <2>1, Zenon
<1>9. ASSUME NEW i \in p + 2 .. Len(s) + 1 PROVE r[i] = s[i - 1]
  <2>1. /\ i \in (p + 1) + 1 .. (p + 1) + (Len(s) - p)
        /\ i - (p + 1) \in 1 .. Len(s) - p
        /\ p + (i - (p + 1)) = i - 1
    OBVIOUS
  <2>. QED
    BY <1>2, <1>8, <2>1, Zenon
<1>. QED
  BY <1>1, <1>6, <1>7, <1>8, <1>9 DEF Inserted

\* RemoveAt, the model of list_remove (task.c:57-65), closes the gap at p.
LEMMA RemoveAtElements ==
    ASSUME NEW T, NEW s \in Seq(T), NEW p \in 1 .. Len(s),
           NEW r, r = RemoveAt(s, p)
    PROVE  /\ r \in Seq(T)
           /\ Len(r) = Len(s) - 1
           /\ \A i \in 1 .. p - 1 : r[i] = s[i]
           /\ \A i \in p .. Len(s) - 1 : r[i] = s[i + 1]
<1> DEFINE u == SubSeq(s, 1, p - 1)
           v == SubSeq(s, p + 1, Len(s))
<1>1. u \in Seq(T) /\ Len(u) = p - 1 /\ \A i \in 1 .. p - 1 : u[i] = s[i]
  OBVIOUS
<1>2. /\ v \in Seq(T) /\ Len(v) = Len(s) - p
      /\ \A i \in 1 .. Len(s) - p : v[i] = s[p + i]
  OBVIOUS
<1>3. r = u \o v
  BY DEF RemoveAt
<1> HIDE DEF u, v
<1>4. r \in Seq(T) /\ Len(r) = Len(s) - 1
  BY <1>1, <1>2, <1>3, SMTT(30)
<1>5. \A i \in 1 .. p - 1 : r[i] = u[i]
  BY <1>1, <1>2, <1>3
<1>6. \A i \in p .. Len(s) - 1 : r[i] = v[i - (p - 1)]
  BY <1>1, <1>2, <1>3
<1>7. \A i \in p .. Len(s) - 1 : v[i - (p - 1)] = s[i + 1]
  BY <1>2
<1>. QED
  BY <1>1, <1>4, <1>5, <1>6, <1>7
-----------------------------------------------------------------------------
(* The run list and the choice of the next task.                           *)

\* The elements of a sequence are its values at its indices.
LEMMA SeqRange ==
    ASSUME NEW T, NEW s \in Seq(T)
    PROVE  Range(s) = {s[i] : i \in 1 .. Len(s)}
<1>1. DOMAIN s = 1 .. Len(s)
  OBVIOUS
<1>. QED
  BY <1>1, Zenon DEF Range

\* The run list lists exactly the tasks in use, each at some index.
LEMMA RingFacts ==
    ASSUME TypeOK, RingOK
    PROVE  /\ ring \in Seq(Slots)
           /\ Len(ring) \in Nat /\ 1 \in 1 .. Len(ring)
           /\ InUse = {ring[i] : i \in 1 .. Len(ring)}
           /\ \A i \in 1 .. Len(ring) : ring[i] \in InUse
           /\ \A t \in InUse : \E i \in 1 .. Len(ring) : ring[i] = t
<1>1. ring \in Seq(Slots) /\ ring # <<>>
  BY Zenon DEF TypeOK, RingOK
<1>2. Len(ring) \in Nat /\ 1 \in 1 .. Len(ring)
  BY <1>1
<1>3. InUse = {ring[i] : i \in 1 .. Len(ring)}
  <2>1. Range(ring) = {ring[i] : i \in 1 .. Len(ring)}
    BY <1>1, SeqRange
  <2>2. Range(ring) = InUse
    BY Zenon DEF RingOK
  <2>. QED
    BY <2>1, <2>2, Zenon
<1>. QED
  BY <1>1, <1>2, <1>3, Zenon

\* A task in use has a place in the run list.
LEMMA PosInRing ==
    ASSUME TypeOK, RingOK, NEW t \in InUse
    PROVE  Pos(t) \in 1 .. Len(ring) /\ ring[Pos(t)] = t
  BY RingFacts, Zenon DEF Pos

\* The next pointer of a task in use leads to a task in use, and, unless the
\* task is idle, to another one: the reap's walk stays in the list
\* (task.c:268-286).
LEMMA NextInUse ==
    ASSUME TypeOK, RingOK, NEW t \in InUse
    PROVE  /\ next(t) \in InUse
           /\ t # idle => next(t) # t
<1>1. Pos(t) \in 1 .. Len(ring) /\ ring[Pos(t)] = t
  BY PosInRing
<1>2. \A i \in 1 .. Len(ring) : ring[i] \in InUse
  BY RingFacts
<1>3. Len(ring) \in Nat /\ 1 \in 1 .. Len(ring)
  BY RingFacts
<1>4. CASE Pos(t) = Len(ring)
  <2>1. next(t) = ring[1]
    BY <1>4 DEF next
  <2>. QED
    BY <1>2, <1>3, <2>1 DEF RingOK
<1>5. CASE Pos(t) # Len(ring)
  <2>1. next(t) = ring[Pos(t) + 1] /\ Pos(t) + 1 \in 1 .. Len(ring)
    BY <1>1, <1>3, <1>5 DEF next
  <2>2. ring[Pos(t) + 1] # ring[Pos(t)]
    BY <1>1, <1>3, <2>1 DEF RingOK
  <2>. QED
    BY <1>1, <1>2, <2>1, <2>2
<1>. QED
  BY <1>4, <1>5

\* pick_next returns a READY task of the run list, or idle when no other
\* task of the run list is READY.
LEMMA PickNext ==
    ASSUME TypeOK, RingOK, current \in InUse, NEW st
    PROVE  LET n == pick_next(st) IN
           \/ n # idle /\ n \in InUse /\ st[n] = "READY"
           \/ n = idle /\ \A t \in InUse \ {idle} : st[t] # "READY"
<1> DEFINE p == Pos(current)
           Runnable(i) == ring[i] # idle /\ st[ring[i]] = "READY"
           behind == {i \in p + 1 .. Len(ring) : Runnable(i)}
           around == {i \in 1 .. p : Runnable(i)}
<1>1. p \in 1 .. Len(ring) /\ Len(ring) \in Nat
  BY PosInRing, SMTT(30) DEF TypeOK
<1>2. \A i \in 1 .. Len(ring) : ring[i] \in InUse
  BY RingFacts
<1>3. behind \in SUBSET Nat /\ around \in SUBSET Nat
  BY <1>1
<1>4. CASE behind # {}
  <2>1. Min(behind) \in behind
    BY <1>3, <1>4, MinIndex
  <2>2. pick_next(st) = ring[Min(behind)]
    BY <1>4 DEF pick_next
  <2>3. Min(behind) \in 1 .. Len(ring) /\ Runnable(Min(behind))
    BY <1>1, <2>1
  <2>. QED
    BY <1>2, <2>2, <2>3
<1>5. CASE behind = {} /\ around # {}
  <2>1. Min(around) \in around
    BY <1>3, <1>5, MinIndex
  <2>2. pick_next(st) = ring[Min(around)]
    BY <1>5 DEF pick_next
  <2>3. Min(around) \in 1 .. Len(ring) /\ Runnable(Min(around))
    BY <1>1, <2>1
  <2>. QED
    BY <1>2, <2>2, <2>3
<1>6. CASE behind = {} /\ around = {}
  <2>1. pick_next(st) = idle
    BY <1>6 DEF pick_next
  <2>2. \A i \in 1 .. Len(ring) : ~ Runnable(i)
    BY <1>1, <1>6
  <2>3. \A t \in InUse : \E i \in 1 .. Len(ring) : ring[i] = t
    BY RingFacts
  <2>. QED
    BY <2>1, <2>2, <2>3
<1>. QED
  BY <1>4, <1>5, <1>6

\* What task_schedule does to the tasks.
LEMMA Schedule ==
    ASSUME IInv, NEW wl \in [Slots -> Nat], task_schedule(wl)
    PROVE  /\ state' \in [Slots -> States]
           /\ \A t \in Slots : \/ state'[t] = state[t]
                               \/ /\ state[t] = "SLEEPING"
                                  /\ wl[t] = 0
                                  /\ state'[t] = "READY"
           /\ InUse' = InUse
           /\ current' \in InUse
           /\ state'[current'] = "READY"
           /\ current' = idle => \A t \in Slots \ {idle} : state'[t] # "READY"
<1>1. state' = wake_sleepers(wl) /\ current' = pick_next(state')
  BY DEF task_schedule
<1>2. \A t \in Slots : \/ state'[t] = state[t]
                       \/ state[t] = "SLEEPING" /\ wl[t] = 0 /\ state'[t] = "READY"
  BY <1>1 DEF wake_sleepers
<1>3. state' \in [Slots -> States]
  BY <1>1 DEF wake_sleepers, IInv, TypeOK, States
<1>4. InUse' = InUse
  BY <1>2 DEF InUse
<1>5. idle \in InUse /\ state'[idle] = "READY" /\ InUse \subseteq Slots
  BY <1>2, TaskAssumption DEF IInv, ReadyOK, InUse, Slots, idle
<1>6. \/ current' # idle /\ current' \in InUse /\ state'[current'] = "READY"
      \/ current' = idle /\ \A t \in InUse \ {idle} : state'[t] # "READY"
  BY <1>1, PickNext DEF IInv, StackSafe
<1>7. \A t \in Slots \ InUse : state'[t] # "READY"
  BY <1>4 DEF InUse
<1>. QED
  BY <1>2, <1>3, <1>4, <1>5, <1>6, <1>7
-----------------------------------------------------------------------------
(* The invariant holds initially and every step keeps it.                  *)

\* What task_init leaves satisfies the invariant (task.c:120-138).
LEMMA InitInv == Init => IInv
<1> SUFFICES ASSUME Init PROVE IInv
  OBVIOUS
<1>1. idle \in Slots /\ 0 \in 0 .. MaxId
  BY TaskAssumption DEF Slots, idle
<1>2. InUse = {idle}
  BY <1>1 DEF Init, InUse
<1>3. TypeOK
  BY <1>1 DEF Init, TypeOK, States, Entries, IdlePcs, TaskPcs
<1>4. RingOK
  <2>1. ring \in Seq(Slots) /\ Len(ring) = 1 /\ ring[1] = idle /\ ring # <<>>
    BY <1>1 DEF Init
  <2>2. Range(ring) = {ring[i] : i \in 1 .. Len(ring)}
    BY <2>1, SeqRange
  <2>. QED
    BY <1>2, <2>1, <2>2 DEF RingOK
<1>5. StackSafe
  BY <1>2 DEF Init, StackSafe
<1>6. walk \in InUse /\ PcsOK /\ ReadyOK
  BY <1>1, <1>2 DEF Init, PcsOK, ReadyOK, IdlePcs, TaskPcs
<1>7. PidsBelow /\ PidsUnique /\ DeadStaysGone
  BY <1>1, <1>2 DEF Init, PidsBelow, PidsUnique, DeadStaysGone
<1>. QED
  BY <1>3, <1>4, <1>5, <1>6, <1>7 DEF IInv

\* The parts of the invariant about the slots hold on when a step leaves the
\* run list, the stacks and the set of slots in use alone.
LEMMA SlotsKept ==
    ASSUME IInv, InUse' = InUse, current' \in InUse,
           UNCHANGED <<ring, stack, used, id, next_id, walk>>
    PROVE  /\ RingOK' /\ StackSafe' /\ (walk \in InUse)'
           /\ PidsBelow' /\ PidsUnique'
<1>1. RingOK'
  BY DEF IInv, RingOK
<1>2. StackSafe' /\ (walk \in InUse)'
  BY DEF IInv, StackSafe
<1>3. PidsBelow' /\ PidsUnique'
  BY DEF IInv, PidsBelow, PidsUnique
<1>. QED
  BY <1>1, <1>2, <1>3

\* A step that ends in task_schedule.
LEMMA SwitchKeeps ==
    ASSUME IInv, task_schedule(left'),
           left' \in [Slots -> Nat], \A t \in Slots : left[t] = 0 => left'[t] = 0,
           todo' \in [Slots -> Nat],
           pc' \in [Slots -> IdlePcs \union TaskPcs], PcsOK',
           \A t \in Slots : pc'[t] \in {"exit", "gone"} => pc[t] \in {"exit", "gone"},
           UNCHANGED <<ring, stack, used, id, next_id, entry, walk, handle>>
    PROVE  IInv'
<1>1. /\ state' \in [Slots -> States]
      /\ \A t \in Slots : \/ state'[t] = state[t]
                          \/ /\ state[t] = "SLEEPING"
                             /\ left'[t] = 0
                             /\ state'[t] = "READY"
      /\ InUse' = InUse
      /\ current' \in InUse
      /\ state'[current'] = "READY"
  BY Schedule
<1>2. InUse \subseteq Slots /\ idle \in Slots
  BY TaskAssumption DEF InUse, Slots, idle
<1>3. RingOK' /\ StackSafe' /\ (walk \in InUse)' /\ PidsBelow' /\ PidsUnique'
  BY <1>1, SlotsKept
<1>4. TypeOK'
  BY <1>1, <1>2 DEF IInv, TypeOK
<1>5. ReadyOK'
  <2>1. (state[idle] = "READY")'
    BY <1>1, <1>2 DEF IInv, ReadyOK
  <2>2. \A t \in Slots : state'[t] = "READY" => left'[t] = 0
    BY <1>1 DEF IInv, ReadyOK
  <2>3. \A t \in Slots : pc'[t] \in {"exit", "gone"} => state'[t] \in {"DEAD", "UNUSED"}
    BY <1>1 DEF IInv, ReadyOK
  <2>. QED
    BY <1>1, <2>1, <2>2, <2>3 DEF ReadyOK
<1>6. DeadStaysGone'
  BY <1>1, <1>2, <1>5 DEF ReadyOK, DeadStaysGone
<1>. QED
  BY <1>3, <1>4, <1>5, <1>6 DEF IInv

\* A timer tick, with the switch it may make, keeps the invariant
\* (timer.c:12-17, idt.c:191-205).
LEMMA TimerKeeps == IInv /\ TimerIrq => IInv'
<1> SUFFICES ASSUME IInv, TimerIrq PROVE IInv'
  OBVIOUS
<1>1. /\ left \in [Slots -> Nat] /\ todo \in [Slots -> Nat]
      /\ pc \in [Slots -> IdlePcs \union TaskPcs] /\ PcsOK
  BY DEF IInv, TypeOK
<1>2. \A n \in Nat : Elapse(n) \in Nat /\ (n = 0 => Elapse(n) = 0)
  BY DEF Elapse
<1>3. left' \in [Slots -> Nat] /\ \A t \in Slots : left[t] = 0 => left'[t] = 0
  BY <1>1, <1>2 DEF TimerIrq
<1>4. todo' \in [Slots -> Nat]
  BY <1>1, <1>2 DEF TimerIrq
<1>5. /\ pc' \in [Slots -> IdlePcs \union TaskPcs] /\ PcsOK'
      /\ \A t \in Slots : pc'[t] \in {"exit", "gone"} => pc[t] \in {"exit", "gone"}
  BY <1>1 DEF TimerIrq, IrqReturn, PcsOK, IdlePcs, TaskPcs
<1>6. task_schedule(left')
      /\ UNCHANGED <<ring, stack, used, id, next_id, entry, walk, handle>>
  BY DEF TimerIrq
<1>. QED
  BY <1>3, <1>4, <1>5, <1>6, SwitchKeeps

\* A keyboard or mouse interrupt keeps the invariant (idt.c:191-205).
LEMMA DeviceKeeps == IInv /\ DeviceIrq => IInv'
<1> SUFFICES ASSUME IInv, DeviceIrq PROVE IInv'
  OBVIOUS
<1>1. /\ left \in [Slots -> Nat] /\ todo \in [Slots -> Nat]
      /\ pc \in [Slots -> IdlePcs \union TaskPcs] /\ PcsOK
  BY DEF IInv, TypeOK
<1>2. left' = left /\ todo' = todo /\ task_schedule(left')
      /\ UNCHANGED <<ring, stack, used, id, next_id, entry, walk, handle>>
  BY DEF DeviceIrq
<1>3. /\ pc' \in [Slots -> IdlePcs \union TaskPcs] /\ PcsOK'
      /\ \A t \in Slots : pc'[t] \in {"exit", "gone"} => pc[t] \in {"exit", "gone"}
  BY <1>1 DEF DeviceIrq, IrqReturn, PcsOK, IdlePcs, TaskPcs
<1>. QED
  BY <1>1, <1>2, <1>3, SwitchKeeps

\* int 0x30, from a sleep, from an exit or by itself, keeps the invariant
\* (task.c:197-236).
LEMMA YieldKeeps ==
    ASSUME IInv, NEW t \in Slots,
           \/ SleepYield(t) \/ ExitYield(t) \/ SessionYield(t)
    PROVE  IInv'
<1>1. /\ left \in [Slots -> Nat] /\ todo \in [Slots -> Nat]
      /\ pc \in [Slots -> IdlePcs \union TaskPcs] /\ PcsOK
  BY DEF IInv, TypeOK
<1>2. t # idle
  BY <1>1 DEF SleepYield, ExitYield, SessionYield, AtPrompt, Running, PcsOK,
              IdlePcs
<1>3. left' = left /\ todo' = todo /\ task_schedule(left')
      /\ UNCHANGED <<ring, stack, used, id, next_id, entry, walk, handle>>
  BY DEF SleepYield, ExitYield, SessionYield, task_yield
<1>4. \/ pc' = [pc EXCEPT ![t] = "run"]
      \/ pc' = [pc EXCEPT ![t] = "gone"] /\ pc[t] = "exit"
  BY DEF SleepYield, ExitYield, SessionYield, Running, task_yield
<1>5. pc' \in [Slots -> IdlePcs \union TaskPcs] /\ idle \in Slots
  BY <1>1, <1>4, TaskAssumption, SMTT(30) DEF TaskPcs, Slots, idle
<1>6. PcsOK'
  BY <1>1, <1>2, <1>4, <1>5 DEF PcsOK, TaskPcs
<1>7. \A u \in Slots : pc'[u] \in {"exit", "gone"} => pc[u] \in {"exit", "gone"}
  BY <1>1, <1>4
<1>. QED
  BY <1>1, <1>3, <1>5, <1>6, <1>7, SwitchKeeps

\* A step of the running task that switches to nobody and leaves the slots
\* alone: what it may do to the states.
LEMMA LocalKeeps ==
    ASSUME IInv, TypeOK', PcsOK', ReadyOK', DeadStaysGone',
           InUse' = InUse,
           UNCHANGED <<ring, current, stack, used, id, next_id>>,
           walk' \in InUse
    PROVE  IInv'
<1>1. RingOK'
  BY DEF IInv, RingOK
<1>2. StackSafe' /\ (walk \in InUse)'
  BY DEF IInv, StackSafe
<1>3. PidsBelow' /\ PidsUnique'
  BY DEF IInv, PidsBelow, PidsUnique
<1>. QED
  BY <1>1, <1>2, <1>3 DEF IInv

\* The steps of the idle loop that free nothing.
LEMMA IdleKeeps ==
    ASSUME IInv, BootPanic \/ ReapBegin \/ ReapSkip \/ ReapEnd \/ Halt
    PROVE  IInv'
<1>1. idle \in Slots /\ current = idle /\ walk \in InUse /\ idle \in InUse
  BY TaskAssumption DEF IInv, ReadyOK, InUse, Slots, idle, BootPanic, ReapBegin,
     ReapSkip, ReapEnd, Halt, Running
<1>2. /\ UNCHANGED <<state, ring, current, stack, used, id, next_id, entry, left,
                     todo, handle>>
      /\ walk' \in {walk, next(walk), next(current)}
      /\ \/ pc' = pc
         \/ \E l \in IdlePcs : pc' = [pc EXCEPT ![idle] = l]
  BY DEF BootPanic, ReapBegin, ReapSkip, ReapEnd, Halt, IdlePcs
<1>3. walk' \in InUse /\ walk' \in Slots
  BY <1>1, <1>2, NextInUse DEF IInv, InUse
<1>4. pc' \in [Slots -> IdlePcs \union TaskPcs] /\ PcsOK'
      /\ \A t \in Slots \ {idle} : pc'[t] = pc[t]
  BY <1>1, <1>2 DEF IInv, TypeOK, PcsOK
<1>5. TypeOK'
  BY <1>2, <1>3, <1>4 DEF IInv, TypeOK
<1>6. ReadyOK'
  BY <1>1, <1>2, <1>4 DEF IInv, ReadyOK, PcsOK, IdlePcs
<1>7. DeadStaysGone'
  BY <1>1, <1>2, <1>4 DEF DeadStaysGone, PcsOK, IdlePcs
<1>8. InUse' = InUse
  BY <1>2 DEF InUse
<1>. QED
  BY <1>2, <1>3, <1>4, <1>5, <1>6, <1>7, <1>8, LocalKeeps

\* The steps of a task that change its own state at most.
LEMMA OwnKeeps ==
    ASSUME IInv, NEW t \in Slots,
           \/ Bootstrap(t) \/ SessionReport(t)
           \/ WorkerDone(t) \/ TickerDone(t) \/ TickerNap(t) \/ SessionSleep(t)
    PROVE  IInv'
<1>1. current = t /\ t # idle /\ idle \in Slots /\ pc[t] \in {"start", "report", "run"}
  BY TaskAssumption DEF IInv, PcsOK, IdlePcs, Slots, idle, Bootstrap,
     SessionReport, WorkerDone, TickerDone, TickerNap, SessionSleep, AtPrompt,
     Running
<1>2. state[t] = "READY"
  BY <1>1 DEF IInv, ReadyOK
<1>3. /\ UNCHANGED <<ring, current, stack, used, id, next_id, entry, walk, handle>>
      /\ \/ pc' = [pc EXCEPT ![t] = "run"] /\ UNCHANGED <<state, left>>
         \/ /\ pc' = [pc EXCEPT ![t] = "exit"]
            /\ state' = [state EXCEPT ![t] = "DEAD"]
            /\ UNCHANGED left
         \/ /\ pc' = [pc EXCEPT ![t] = "sleep"]
            /\ state' = [state EXCEPT ![t] = "SLEEPING"]
            /\ \E n \in SleepTicks : left' = [left EXCEPT ![t] = n]
  BY DEF Bootstrap, SessionReport, WorkerDone, TickerDone, TickerNap,
     SessionSleep, task_exit, task_sleep
<1>4. todo' \in [Slots -> Nat]
  <2>1. todo \in [Slots -> Nat] /\ WorkTicks \in Nat /\ Rounds \in Nat /\ 0 \in Nat
    BY TaskAssumption DEF IInv, TypeOK
  <2>2. CASE Bootstrap(t)
    BY <2>1, <2>2 DEF Bootstrap
  <2>3. CASE TickerNap(t)
    BY <2>1, <2>3 DEF TickerNap
  <2>4. CASE SessionReport(t) \/ WorkerDone(t) \/ TickerDone(t) \/ SessionSleep(t)
    BY <2>1, <2>4 DEF SessionReport, WorkerDone, TickerDone, SessionSleep, task_exit
  <2>. QED
    BY <2>2, <2>3, <2>4
<1>5. TypeOK'
  <2>1. state' \in [Slots -> States] /\ pc' \in [Slots -> IdlePcs \union TaskPcs]
    BY <1>3 DEF IInv, TypeOK, States, TaskPcs
  <2>2. left' \in [Slots -> Nat]
    BY <1>3, TaskAssumption, SMTT(30) DEF IInv, TypeOK
  <2>. QED
    BY <1>3, <1>4, <2>1, <2>2 DEF IInv, TypeOK
<1>6. PcsOK' /\ ReadyOK' /\ DeadStaysGone'
  <2>1. PcsOK'
    BY <1>1, <1>3 DEF IInv, TypeOK, PcsOK, TaskPcs
  <2>2. (state[idle] = "READY")'
    BY <1>1, <1>3 DEF IInv, TypeOK, ReadyOK
  <2>3. \A u \in Slots : state'[u] = "READY" => left'[u] = 0
    BY <1>1, <1>3 DEF IInv, TypeOK, ReadyOK
  <2>4. \A u \in Slots : pc'[u] \in {"exit", "gone"} => state'[u] \in {"DEAD", "UNUSED"}
    BY <1>1, <1>3 DEF IInv, TypeOK, ReadyOK
  <2>5. pc'[current'] \in {"start", "run", "report"} => state'[current'] = "READY"
    BY <1>1, <1>2, <1>3 DEF IInv, TypeOK
  <2>6. DeadStaysGone'
    BY <1>1, <1>3 DEF IInv, TypeOK, DeadStaysGone
  <2>. QED
    BY <2>1, <2>2, <2>3, <2>4, <2>5, <2>6 DEF ReadyOK
<1>7. InUse' = InUse
  BY <1>2, <1>3 DEF IInv, TypeOK, InUse
<1>8. walk' \in InUse
  BY <1>3 DEF IInv
<1>. QED
  BY <1>3, <1>5, <1>6, <1>7, <1>8, LocalKeeps

\* task_kill, of another task or of the caller, keeps the invariant
\* (task.c:238-264).
LEMMA KillKeeps ==
    ASSUME IInv, NEW t \in Slots, SessionKill(t)
    PROVE  IInv'
<1>1. /\ current = t /\ pc[t] = "run" /\ t # idle /\ idle \in Slots
  BY TaskAssumption DEF IInv, PcsOK, IdlePcs, Slots, idle, SessionKill,
     AtPrompt, Running
<1>2. PICK pid \in 1 .. MaxId : \E u \in Killable(pid) :
        /\ state' = [state EXCEPT ![u] = "DEAD"]
        /\ pc' = IF u = t THEN [pc EXCEPT ![t] = "exit"] ELSE pc
  BY DEF SessionKill
<1>3. PICK u \in Killable(pid) :
        /\ state' = [state EXCEPT ![u] = "DEAD"]
        /\ pc' = IF u = t THEN [pc EXCEPT ![t] = "exit"] ELSE pc
  BY <1>2
<1>4. u \in InUse /\ u \in Slots /\ u # idle
  BY <1>3 DEF Killable, IInv, RingOK, InUse
<1>5. UNCHANGED <<ring, current, stack, used, id, next_id, entry, left, todo,
                  walk, handle>>
  BY DEF SessionKill
<1>6. TypeOK'
  <2>1. state' \in [Slots -> States] /\ pc' \in [Slots -> IdlePcs \union TaskPcs]
    BY <1>3 DEF IInv, TypeOK, States, TaskPcs
  <2>. QED
    BY <1>5, <2>1 DEF IInv, TypeOK
<1>7. PcsOK'
  BY <1>1, <1>3 DEF IInv, TypeOK, PcsOK, TaskPcs
<1>8. ReadyOK'
  <2>1. (state[idle] = "READY")'
    BY <1>1, <1>3, <1>4 DEF IInv, TypeOK, ReadyOK
  <2>2. \A v \in Slots : state'[v] = "READY" => left'[v] = 0
    BY <1>3, <1>5 DEF IInv, TypeOK, ReadyOK
  <2>3. \A v \in Slots : pc'[v] \in {"exit", "gone"} => state'[v] \in {"DEAD", "UNUSED"}
    BY <1>3 DEF IInv, TypeOK, ReadyOK
  <2>4. pc'[current'] \in {"start", "run", "report"} => state'[current'] = "READY"
    BY <1>1, <1>3, <1>5 DEF IInv, TypeOK, ReadyOK
  <2>. QED
    BY <2>1, <2>2, <2>3, <2>4 DEF ReadyOK
<1>9. DeadStaysGone'
  BY <1>1, <1>3, <1>5 DEF IInv, TypeOK, DeadStaysGone
<1>10. InUse' = InUse /\ walk' \in InUse
  BY <1>3, <1>4, <1>5 DEF IInv, TypeOK, InUse
<1>. QED
  BY <1>5, <1>6, <1>7, <1>8, <1>9, <1>10, LocalKeeps

\* Spawning puts a new task into a free slot, on a free block, behind current.
LEMMA SpawnKeeps ==
    ASSUME IInv, NEW e \in Entries, NEW block \in Stacks \ used,
           NEW caller \in Slots, NEW resume,
           caller = current,
           \/ caller = idle /\ resume = "top"
           \/ caller # idle /\ resume = "report" /\ state[caller] = "READY",
           task_spawn(e, block, caller, resume)
    PROVE  IInv'
<1> DEFINE t == alloc_task
<1>1. t \in Slots /\ state[t] = "UNUSED"
  <2>1. Unused # {} /\ Unused \in SUBSET Nat
    BY DEF task_spawn, Unused, Slots
  <2>. QED
    BY <2>1, MinIndex DEF alloc_task, Unused
<1>2. /\ id' = [id EXCEPT ![t] = next_id + 1]
      /\ entry' = [entry EXCEPT ![t] = e]
      /\ stack' = [stack EXCEPT ![t] = block]
      /\ state' = [state EXCEPT ![t] = "READY"]
      /\ left' = [left EXCEPT ![t] = 0]
      /\ todo' = [todo EXCEPT ![t] = 0]
      /\ pc' = [pc EXCEPT ![t] = "start", ![caller] = resume]
      /\ handle' = [task |-> t, pid |-> next_id + 1]
      /\ ring' = InsertAt(ring, Pos(current) + 1, t)
      /\ used' = used \union {block}
      /\ next_id' = next_id + 1
      /\ current' = current /\ walk' = walk
      /\ next_id < MaxId
  BY DEF task_spawn, list_insert, NewPid
<1> HIDE DEF t
<1>3. /\ current \in InUse /\ walk \in InUse /\ InUse \subseteq Slots
      /\ idle \in InUse /\ t \notin InUse /\ t # caller /\ t # idle
  BY <1>1, TaskAssumption DEF IInv, StackSafe, ReadyOK, InUse, Slots, idle
<1>4. InUse' = InUse \union {t}
  BY <1>1, <1>2 DEF IInv, TypeOK, InUse
<1>5. next_id + 1 \in 0 .. MaxId
  BY <1>2, TaskAssumption DEF IInv, TypeOK
<1> DEFINE p == Pos(current)
<1>6. p \in 1 .. Len(ring) /\ ring \in Seq(Slots) /\ Len(ring) \in Nat
  BY <1>3, PosInRing, RingFacts DEF IInv
<1> HIDE DEF p
<1>7. /\ ring' \in Seq(Slots)
      /\ Len(ring') = Len(ring) + 1
      /\ \A i \in 1 .. p : ring'[i] = ring[i]
      /\ ring'[p + 1] = t
      /\ \A i \in p + 2 .. Len(ring) + 1 : ring'[i] = ring[i - 1]
  <2>1. ring' = InsertAt(ring, p + 1, t)
    BY <1>2 DEF p
  <2>2. t \in Slots
    BY <1>1
  <2>3. Inserted(Slots, ring, p, t, ring')
    BY <1>6, <2>1, <2>2, InsertAtElements, Zenon
  <2>. QED
    BY <2>3 DEF Inserted
<1>8. TypeOK'
  <2>1. resume \in IdlePcs \union TaskPcs
    BY DEF IdlePcs, TaskPcs
  <2>2. pc' \in [Slots -> IdlePcs \union TaskPcs]
    BY <1>2, <2>1 DEF IInv, TypeOK, TaskPcs
  <2>3. state' \in [Slots -> States] /\ entry' \in [Slots -> Entries]
        /\ stack' \in [Slots -> Stacks \union {NULL}] /\ used' \subseteq Stacks
    BY <1>2 DEF IInv, TypeOK, States
  <2>4. id' \in [Slots -> 0 .. MaxId] /\ next_id' \in 0 .. MaxId
    BY <1>2, <1>5 DEF IInv, TypeOK
  <2>5. left' \in [Slots -> Nat] /\ todo' \in [Slots -> Nat]
    BY <1>2 DEF IInv, TypeOK
  <2>6. handle' \in [task : Slots, pid : 0 .. MaxId]
    BY <1>1, <1>2, <1>5
  <2>. QED
    BY <1>2, <1>7, <2>2, <2>3, <2>4, <2>5, <2>6 DEF IInv, TypeOK
<1>9. RingOK'
  <2>1. ring' # <<>> /\ ring'[1] = idle
    BY <1>6, <1>7 DEF IInv, RingOK
  <2>2. \A i \in 1 .. Len(ring) : ring[i] \in InUse
    BY RingFacts DEF IInv
  <2>3. \A u \in InUse : \E i \in 1 .. Len(ring) : ring[i] = u
    BY RingFacts DEF IInv
  <2>4. ASSUME NEW i \in 1 .. Len(ring')
        PROVE  ring'[i] \in InUse \union {t}
    <3>1. CASE i <= p
      <4>1. i \in 1 .. p /\ i \in 1 .. Len(ring)
        BY <1>6, <3>1
      <4>. QED
        BY <1>7, <2>2, <4>1
    <3>2. CASE i = p + 1
      BY <1>7, <3>2
    <3>3. CASE i > p + 1
      <4>1. i \in p + 2 .. Len(ring) + 1 /\ i - 1 \in 1 .. Len(ring)
        BY <1>6, <1>7, <3>3
      <4>. QED
        BY <1>7, <2>2, <4>1
    <3>. QED
      BY <1>6, <1>7, <3>1, <3>2, <3>3
  <2>5. ASSUME NEW u \in InUse \union {t}
        PROVE  \E i \in 1 .. Len(ring') : ring'[i] = u
    <3>1. CASE u = t
      BY <1>6, <1>7, <3>1
    <3>2. CASE u \in InUse
      <4>1. PICK i \in 1 .. Len(ring) : ring[i] = u
        BY <2>3, <3>2
      <4>2. CASE i <= p
        BY <1>6, <1>7, <4>1, <4>2
      <4>3. CASE i > p
        <5>1. i + 1 \in p + 2 .. Len(ring) + 1 /\ (i + 1) - 1 = i
          BY <1>6, <4>1, <4>3
        <5>2. ring'[i + 1] = u
          BY <1>7, <4>1, <5>1
        <5>. QED
          BY <1>6, <1>7, <5>1, <5>2
      <4>. QED
        BY <1>6, <4>2, <4>3
    <3>. QED
      BY <3>1, <3>2
  <2>6. Range(ring') = {ring'[i] : i \in 1 .. Len(ring')}
    BY <1>7, SeqRange
  <2>7. Range(ring') = InUse'
    BY <1>4, <2>4, <2>5, <2>6
  <2>8. ASSUME NEW i \in 1 .. Len(ring'), NEW j \in 1 .. Len(ring'),
               ring'[i] = ring'[j]
        PROVE  i = j
    <3> DEFINE Old(k) == IF k <= p THEN k ELSE k - 1
    <3>1. \A k \in 1 .. Len(ring') : k # p + 1 =>
             Old(k) \in 1 .. Len(ring) /\ ring'[k] = ring[Old(k)] /\ ring'[k] # t
      BY <1>3, <1>6, <1>7, <2>2
    <3>2. CASE i = p + 1 \/ j = p + 1
      BY <1>7, <2>8, <3>1, <3>2
    <3>3. CASE i # p + 1 /\ j # p + 1
      <4>1. Old(i) = Old(j)
        BY <2>8, <3>1, <3>3, SMTT(30) DEF IInv, RingOK
      <4>. QED
        BY <1>6, <1>7, <3>3, <4>1
    <3>. QED
      BY <3>2, <3>3
  <2>. QED
    BY <2>1, <2>7, <2>8 DEF RingOK
<1>10. StackSafe'
  <2>1. \A u \in InUse \ {idle} : stack'[u] = stack[u] /\ stack[u] \in used
    BY <1>2, <1>3 DEF IInv, TypeOK, StackSafe
  <2>2. stack'[t] = block
    BY <1>1, <1>2 DEF IInv, TypeOK
  <2>3. \A u \in InUse' \ {idle} : stack'[u] \in used'
    BY <1>2, <1>4, <2>1, <2>2
  <2>4. \A u, v \in InUse' \ {idle} : stack'[u] = stack'[v] => u = v
    BY <1>4, <2>1, <2>2 DEF IInv, StackSafe
  <2>5. used' = {stack'[u] : u \in InUse' \ {idle}}
    BY <1>2, <1>3, <1>4, <2>1, <2>2 DEF IInv, StackSafe
  <2>. QED
    BY <1>2, <1>3, <1>4, <2>3, <2>4, <2>5 DEF StackSafe
<1>11. PcsOK'
  BY <1>1, <1>2, <1>3 DEF IInv, TypeOK, PcsOK, IdlePcs, TaskPcs
<1>12. ReadyOK'
  <2>1. (state[idle] = "READY")'
    BY <1>2, <1>3 DEF IInv, TypeOK, ReadyOK
  <2>2. \A u \in Slots : state'[u] = "READY" => left'[u] = 0
    BY <1>2 DEF IInv, TypeOK, ReadyOK
  <2>3. \A u \in Slots : pc'[u] \in {"exit", "gone"} => state'[u] \in {"DEAD", "UNUSED"}
    BY <1>1, <1>2, <1>3 DEF IInv, TypeOK, ReadyOK
  <2>4. current' # idle => state'[current'] = "READY"
    BY <1>2, <1>3 DEF IInv, TypeOK
  <2>. QED
    BY <2>1, <2>2, <2>3, <2>4 DEF ReadyOK
<1>13. PidsBelow' /\ PidsUnique'
  <2>1. \A u \in Slots : id[u] <= next_id /\ id[u] \in Nat /\ next_id \in Nat
    BY DEF IInv, TypeOK, PidsBelow
  <2>2. \A u \in Slots : id'[u] = IF u = t THEN next_id + 1 ELSE id[u]
    BY <1>2 DEF IInv, TypeOK
  <2>3. PidsBelow'
    BY <1>2, <2>1, <2>2 DEF PidsBelow
  <2>4. ASSUME NEW u \in InUse', NEW v \in InUse', id'[u] = id'[v]
        PROVE  u = v
    <3>1. CASE u = t \/ v = t
      BY <1>1, <1>3, <1>4, <2>1, <2>2, <2>4, <3>1
    <3>2. CASE u # t /\ v # t
      BY <1>3, <1>4, <2>2, <2>4, <3>2 DEF IInv, PidsUnique
    <3>. QED
      BY <3>1, <3>2
  <2>. QED
    BY <2>3, <2>4 DEF PidsUnique
<1>14. DeadStaysGone'
  BY <1>2, <1>3 DEF IInv, TypeOK, DeadStaysGone
<1>15. (walk \in InUse)'
  BY <1>2, <1>3, <1>4
<1>. QED
  BY <1>8, <1>9, <1>10, <1>11, <1>12, <1>13, <1>14, <1>15 DEF IInv

\* The reap takes a dead task out of the run list and frees its stack.
LEMMA ReapKeeps == IInv /\ ReapDead => IInv'
<1> SUFFICES ASSUME IInv, ReapDead PROVE IInv'
  OBVIOUS
<1>1. /\ current = idle /\ walk # idle /\ state[walk] = "DEAD"
      /\ walk' = next(walk)
      /\ ring' = RemoveAt(ring, Pos(walk))
      /\ used' = used \ {stack[walk]}
      /\ state' = [state EXCEPT ![walk] = "UNUSED"]
      /\ stack' = [stack EXCEPT ![walk] = NULL]
      /\ UNCHANGED <<current, id, next_id, entry, left, todo, pc, handle>>
  BY DEF ReapDead, Running, list_remove
<1>2. /\ walk \in InUse /\ walk \in Slots /\ idle \in InUse /\ idle \in Slots
      /\ InUse \subseteq Slots
  BY <1>1, TaskAssumption DEF IInv, ReadyOK, InUse, Slots, idle
<1>3. InUse' = InUse \ {walk}
  BY <1>1, <1>2 DEF IInv, TypeOK, InUse
<1>4. next(walk) \in InUse /\ next(walk) # walk
  BY <1>1, <1>2, NextInUse DEF IInv
<1>5. (walk \in InUse)'
  BY <1>1, <1>3, <1>4
<1> DEFINE p == Pos(walk)
<1>6. /\ p \in 1 .. Len(ring) /\ ring[p] = walk
      /\ ring \in Seq(Slots) /\ Len(ring) \in Nat /\ p # 1
  BY <1>1, <1>2, PosInRing, RingFacts DEF IInv, RingOK
<1>7. ring' = RemoveAt(ring, p)
  BY <1>1
<1> HIDE DEF p
<1>8. /\ ring' \in Seq(Slots)
      /\ Len(ring') = Len(ring) - 1
      /\ \A i \in 1 .. p - 1 : ring'[i] = ring[i]
      /\ \A i \in p .. Len(ring) - 1 : ring'[i] = ring[i + 1]
  BY <1>6, <1>7, RemoveAtElements, ZenonT(30)
<1>9. TypeOK'
  <2>1. state' \in [Slots -> States]
    BY <1>1 DEF IInv, TypeOK, States
  <2>2. stack' \in [Slots -> Stacks \union {NULL}] /\ used' \subseteq Stacks
    BY <1>1 DEF IInv, TypeOK
  <2>3. walk' \in Slots
    BY <1>1, <1>2, <1>4
  <2>. QED
    BY <1>1, <1>8, <2>1, <2>2, <2>3 DEF IInv, TypeOK
<1>10. RingOK'
  <2> DEFINE Old(k) == IF k < p THEN k ELSE k + 1
  <2>1. \A i, j \in 1 .. Len(ring) : ring[i] = ring[j] => i = j
    BY DEF IInv, RingOK
  <2>2. \A k \in 1 .. Len(ring') :
          Old(k) \in 1 .. Len(ring) /\ Old(k) # p /\ ring'[k] = ring[Old(k)]
    BY <1>6, <1>8
  <2>3. ring' # <<>> /\ ring'[1] = idle
    <3>1. ring'[1] = ring[1] /\ Len(ring') >= 1
      BY <1>6, <1>8
    <3>. QED
      BY <1>8, <3>1 DEF IInv, RingOK
  <2>4. \A k \in 1 .. Len(ring') : ring'[k] \in InUse'
    <3>1. \A i \in 1 .. Len(ring) : ring[i] \in InUse
      BY RingFacts DEF IInv
    <3>. QED
      BY <1>3, <1>6, <2>1, <2>2, <3>1
  <2>5. ASSUME NEW u \in InUse'
        PROVE  \E k \in 1 .. Len(ring') : ring'[k] = u
    <3>1. PICK i \in 1 .. Len(ring) : ring[i] = u
      BY <1>3, RingFacts DEF IInv
    <3>2. i # p
      BY <1>3, <1>6, <3>1
    <3>3. CASE i < p
      BY <1>6, <1>8, <3>1, <3>3
    <3>4. CASE i > p
      <4>1. i - 1 \in p .. Len(ring) - 1 /\ (i - 1) + 1 = i
        BY <1>6, <3>1, <3>4
      <4>2. ring'[i - 1] = u
        BY <1>8, <3>1, <4>1
      <4>. QED
        BY <1>6, <1>8, <4>1, <4>2
    <3>. QED
      BY <1>6, <3>2, <3>3, <3>4
  <2>6. Range(ring') = {ring'[i] : i \in 1 .. Len(ring')}
    BY <1>8, SeqRange
  <2>7. Range(ring') = InUse'
    BY <2>4, <2>5, <2>6
  <2>8. ASSUME NEW i \in 1 .. Len(ring'), NEW j \in 1 .. Len(ring'),
               ring'[i] = ring'[j]
        PROVE  i = j
    <3>1. Old(i) = Old(j)
      BY <2>1, <2>2, <2>8
    <3>. QED
      BY <1>6, <1>8, <3>1
  <2>. QED
    BY <2>3, <2>7, <2>8 DEF RingOK
<1>11. StackSafe'
  <2>1. \A u \in InUse \ {idle, walk} : stack'[u] = stack[u] /\ stack[u] # stack[walk]
    BY <1>1, <1>2 DEF IInv, TypeOK, StackSafe
  <2>2. \A u \in InUse' \ {idle} : stack'[u] \in used'
    BY <1>1, <1>3, <2>1 DEF IInv, StackSafe
  <2>3. \A u, v \in InUse' \ {idle} : stack'[u] = stack'[v] => u = v
    BY <1>3, <2>1 DEF IInv, StackSafe
  <2>4. used' = {stack'[u] : u \in InUse' \ {idle}}
    BY <1>1, <1>2, <1>3, <2>1 DEF IInv, StackSafe
  <2>. QED
    BY <1>1, <1>2, <1>3, <2>2, <2>3, <2>4 DEF StackSafe
<1>12. PcsOK' /\ DeadStaysGone'
  BY <1>1 DEF IInv, PcsOK, DeadStaysGone
<1>13. ReadyOK'
  <2>1. (state[idle] = "READY")'
    BY <1>1, <1>2 DEF IInv, TypeOK, ReadyOK
  <2>2. \A u \in Slots : state'[u] = "READY" => left'[u] = 0
    BY <1>1 DEF IInv, TypeOK, ReadyOK
  <2>3. \A u \in Slots : pc'[u] \in {"exit", "gone"} => state'[u] \in {"DEAD", "UNUSED"}
    BY <1>1 DEF IInv, TypeOK, ReadyOK
  <2>. QED
    BY <1>1, <2>1, <2>2, <2>3 DEF ReadyOK
<1>14. PidsBelow' /\ PidsUnique'
  BY <1>1, <1>3 DEF IInv, PidsBelow, PidsUnique
<1>. QED
  BY <1>5, <1>9, <1>10, <1>11, <1>12, <1>13, <1>14 DEF IInv
-----------------------------------------------------------------------------
\* Every step of the scheduler keeps the invariant.
LEMMA NextKeeps == IInv /\ [Next]_vars => IInv'
<1> SUFFICES ASSUME IInv, [Next]_vars PROVE IInv'
  OBVIOUS
<1>1. CASE UNCHANGED vars \/ PanicHalt
  <2>1. UNCHANGED vars
    BY <1>1 DEF PanicHalt
  <2>2. InUse' = InUse
    BY <2>1 DEF vars, InUse
  <2>3. TypeOK' /\ PcsOK' /\ ReadyOK' /\ DeadStaysGone'
    BY <2>1 DEF vars, IInv, TypeOK, PcsOK, ReadyOK, DeadStaysGone
  <2>4. UNCHANGED <<ring, current, stack, used, id, next_id>> /\ walk' \in InUse
    BY <2>1 DEF vars, IInv
  <2>. QED
    BY <2>2, <2>3, <2>4, LocalKeeps
<1>2. CASE TimerIrq
  BY <1>2, TimerKeeps
<1>3. CASE DeviceIrq
  BY <1>3, DeviceKeeps
<1>4. CASE BootSpawn
  <2>1. idle \in Slots /\ current = idle /\ "session" \in Entries
    BY <1>4, TaskAssumption DEF BootSpawn, Running, Slots, idle, Entries
  <2>2. PICK block \in Stacks \ used : task_spawn("session", block, idle, "top")
    BY <1>4 DEF BootSpawn
  <2>. QED
    BY <2>1, <2>2, SpawnKeeps
<1>5. CASE BootPanic \/ ReapBegin \/ ReapSkip \/ ReapEnd \/ Halt
  BY <1>5, IdleKeeps
<1>6. CASE ReapDead
  BY <1>6, ReapKeeps
<1>7. ASSUME NEW t \in Slots, TaskStep(t) \/ WorkerDone(t) \/ SessionStep(t)
      PROVE  IInv'
  <2>1. CASE \/ Bootstrap(t) \/ SessionReport(t)
             \/ WorkerDone(t) \/ TickerDone(t) \/ TickerNap(t) \/ SessionSleep(t)
    BY <2>1, OwnKeeps
  <2>2. CASE SleepYield(t) \/ ExitYield(t) \/ SessionYield(t)
    BY <2>2, YieldKeeps
  <2>3. CASE SessionKill(t)
    BY <2>3, KillKeeps
  <2>4. CASE SessionSpawn(t)
    <3>1. t = current /\ pc[t] = "run" /\ t # idle /\ state[t] = "READY"
      BY <2>4, TaskAssumption DEF SessionSpawn, AtPrompt, Running, IInv, PcsOK,
         ReadyOK, IdlePcs
    <3>2. PICK e \in {"worker", "ticker"}, block \in Stacks \ used :
            task_spawn(e, block, t, "report")
      BY <2>4 DEF SessionSpawn
    <3>3. e \in Entries
      BY <3>2 DEF Entries
    <3>. QED
      BY <3>1, <3>2, <3>3, SpawnKeeps
  <2>. QED
    BY <1>7, <2>1, <2>2, <2>3, <2>4 DEF TaskStep, SessionStep
<1>. QED
  BY <1>1, <1>2, <1>3, <1>4, <1>5, <1>6, <1>7 DEF Next, IdleStep

\* The inductive invariant holds in every reachable state.
THEOREM Invariant == Spec => []IInv
  BY InitInv, NextKeeps, PTL DEF Spec

\* The scheduler's variables always have their types.
THEOREM TypeCorrect == Spec => []TypeOK
<1>1. IInv => TypeOK
  BY DEF IInv
<1>. QED
  BY <1>1, Invariant, PTL

\* The run list holds exactly the slots in use, each once, behind idle.
THEOREM RingCorrect == Spec => []RingOK
<1>1. IInv => RingOK
  BY DEF IInv
<1>. QED
  BY <1>1, Invariant, PTL

\* Stack blocks are owned by one task each, none leaks, and the CPU is never
\* on the stack of a slot that has been given back.
THEOREM StacksCorrect == Spec => []StackSafe
<1>1. IInv => StackSafe
  BY DEF IInv
<1>. QED
  BY <1>1, Invariant, PTL

\* A pid names at most one task.
THEOREM PidsCorrect == Spec => []PidsUnique
<1>1. IInv => PidsUnique
  BY DEF IInv
<1>. QED
  BY <1>1, Invariant, PTL

\* The loop behind the last yield of task_exit is unreachable.
THEOREM DeadNeverRuns == Spec => []DeadStaysGone
<1>1. IInv => DeadStaysGone
  BY DEF IInv
<1>. QED
  BY <1>1, Invariant, PTL

\* A task that runs its own code is READY and past the deadline of its sleep.
THEOREM SleepsInFull == Spec => []SleepHonoured
<1>1. IInv => SleepHonoured
  <2>1. IInv => current \in Slots
    BY DEF IInv, TypeOK
  <2>. QED
    BY <2>1 DEF IInv, ReadyOK, SleepHonoured
<1>. QED
  BY <1>1, Invariant, PTL
-----------------------------------------------------------------------------
(* The life of a task.  A step switches tasks, spawns, reaps, or is a step *)
(* of the running task that spawns and reaps nothing.                      *)

Switch ==
    /\ \E wl \in [Slots -> Nat] : task_schedule(wl)
    /\ UNCHANGED <<ring, next_id, id, entry, handle>>
    /\ \A t \in Slots : pc'[t] # pc[t] => pc'[t] \in {"top", "run", "gone"}

Local ==
    /\ UNCHANGED <<current, ring, next_id, id, entry, handle>>
    /\ current = idle => state' = state
    /\ \A t \in Slots : pc'[t] # pc[t] => pc'[t] \notin {"boot", "report"}
    /\ \A t \in Slots : state'[t] # state[t] =>
          /\ pc[t] # "report"
          /\ state[t] \notin {"DEAD", "UNUSED"} /\ state'[t] # "UNUSED"

\* What a step can be, as far as a spawned slot is concerned: a switch, a
\* spawn, a reap of a dead task, or a step of the running task.
LEMMA StepKinds ==
    ASSUME IInv, SpawnInv, Next
    PROVE  Switch \/ BootSpawn \/ (\E t \in Slots : SessionSpawn(t)) \/ ReapDead \/ Local
<1>1. /\ left \in [Slots -> Nat] /\ state \in [Slots -> States]
      /\ pc \in [Slots -> IdlePcs \union TaskPcs]
  BY DEF IInv, TypeOK
<1>2. idle \in Slots
  BY TaskAssumption DEF Slots, idle
<1>3. CASE TimerIrq
  <2>1. \A n \in Nat : Elapse(n) \in Nat
    BY DEF Elapse
  <2>2. left' \in [Slots -> Nat]
    BY <1>1, <1>3, <2>1 DEF TimerIrq
  <2>3. \A t \in Slots : pc'[t] # pc[t] => pc'[t] \in {"top", "run", "gone"}
    BY <1>1, <1>3 DEF TimerIrq, IrqReturn
  <2>. QED
    BY <1>3, <2>2, <2>3 DEF TimerIrq, Switch
<1>4. CASE DeviceIrq
  <2>1. \A t \in Slots : pc'[t] # pc[t] => pc'[t] \in {"top", "run", "gone"}
    BY <1>1, <1>4 DEF DeviceIrq, IrqReturn
  <2>. QED
    BY <1>1, <1>4, <2>1 DEF DeviceIrq, Switch
<1>5. CASE BootPanic \/ ReapBegin \/ ReapSkip \/ ReapEnd \/ Halt \/ PanicHalt
  <2>1. /\ UNCHANGED <<state, current, ring, next_id, id, entry, handle>>
        /\ \E l \in {"panic", "reap", "reaped", "hlt"} :
              pc' = pc \/ pc' = [pc EXCEPT ![idle] = l]
    BY <1>5 DEF BootPanic, ReapBegin, ReapSkip, ReapEnd, Halt, PanicHalt, vars
  <2>. QED
    BY <1>1, <1>2, <2>1 DEF Local
<1>6. ASSUME NEW u \in Slots, SleepYield(u) \/ ExitYield(u) \/ SessionYield(u)
      PROVE  Switch
  <2>1. /\ task_schedule(left) /\ UNCHANGED <<ring, next_id, id, entry, handle>>
        /\ \E l \in {"run", "gone"} : pc' = [pc EXCEPT ![u] = l]
    BY <1>6 DEF SleepYield, ExitYield, SessionYield, task_yield
  <2>. QED
    BY <1>1, <2>1 DEF Switch
<1>7. ASSUME NEW u \in Slots,
             \/ Bootstrap(u) \/ SessionReport(u)
             \/ WorkerDone(u) \/ TickerDone(u) \/ TickerNap(u) \/ SessionSleep(u)
      PROVE  Local
  <2>1. /\ UNCHANGED <<current, ring, next_id, id, entry, handle>>
        /\ \E l \in {"run", "exit", "sleep"} : pc' = [pc EXCEPT ![u] = l]
        /\ \/ state' = state
           \/ /\ current = u /\ pc[u] = "run"
              /\ \E s \in {"DEAD", "SLEEPING"} : state' = [state EXCEPT ![u] = s]
    BY <1>7 DEF Bootstrap, SessionReport, WorkerDone, TickerDone, TickerNap,
       SessionSleep, AtPrompt, Running, task_exit, task_sleep
  <2>2. current = u /\ pc[u] = "run" => state[u] = "READY" /\ current # idle
    BY DEF IInv, ReadyOK, PcsOK, IdlePcs
  <2>. QED
    BY <1>1, <2>1, <2>2 DEF Local
<1>8. ASSUME NEW u \in Slots, SessionKill(u)
      PROVE  Local
  <2>1. PICK v \in InUse :
          /\ state[v] \notin {"DEAD", "UNUSED"}
          /\ state' = [state EXCEPT ![v] = "DEAD"]
          /\ pc' = IF v = u THEN [pc EXCEPT ![u] = "exit"] ELSE pc
    BY <1>8 DEF SessionKill, Killable, IInv, RingOK
  <2>2. /\ UNCHANGED <<current, ring, next_id, id, entry, handle>>
        /\ current = u /\ pc[u] = "run" /\ entry[u] = "session"
    BY <1>8 DEF SessionKill, AtPrompt, Running
  <2>3. v \in Slots /\ pc[v] # "report" /\ current # idle
    BY <2>1, <2>2 DEF InUse, SpawnInv, IInv, PcsOK, IdlePcs
  <2>. QED
    BY <1>1, <2>1, <2>2, <2>3 DEF Local
<1>. QED
  BY <1>3, <1>4, <1>5, <1>6, <1>7, <1>8 DEF Next, IdleStep, TaskStep, SessionStep

\* What a spawn does to the slots.
Spawned(t, e, caller, resume) ==
    /\ state[t] = "UNUSED" /\ state' = [state EXCEPT ![t] = "READY"]
    /\ entry' = [entry EXCEPT ![t] = e]
    /\ pc' = [pc EXCEPT ![t] = "start", ![caller] = resume]
    /\ handle' = [task |-> t, pid |-> next_id + 1]
    /\ id' = [id EXCEPT ![t] = next_id + 1]
    /\ current' = current

\* A spawn takes a slot that was UNUSED and fills it (task.c:78-118).
LEMMA SpawnSlots ==
    ASSUME IInv, NEW e, NEW block, NEW caller, NEW resume,
           task_spawn(e, block, caller, resume)
    PROVE  \E t \in Slots : Spawned(t, e, caller, resume)
<1>1. alloc_task \in Slots /\ state[alloc_task] = "UNUSED"
  <2>1. Unused # {} /\ Unused \in SUBSET Nat
    BY DEF task_spawn, Unused, Slots
  <2>. QED
    BY <2>1, MinIndex DEF alloc_task, Unused
<1>2. Spawned(alloc_task, e, caller, resume)
  BY <1>1 DEF task_spawn, Spawned, NewPid
<1>. QED
  BY <1>1, <1>2

\* While cmd_spawn is about to report, its session stays READY, so the reap
\* does not run (shell.c:647-652).
LEMMA SpawnInvKeeps == IInv /\ SpawnInv /\ [Next]_vars => SpawnInv'
<1> SUFFICES ASSUME IInv, SpawnInv, [Next]_vars PROVE SpawnInv'
  OBVIOUS
<1>1. /\ state \in [Slots -> States] /\ entry \in [Slots -> Entries]
      /\ id \in [Slots -> 0 .. MaxId] /\ handle.task \in Slots
      /\ pc \in [Slots -> IdlePcs \union TaskPcs]
  BY DEF IInv, TypeOK
<1>2. idle \in Slots /\ state[idle] = "READY"
  BY TaskAssumption DEF Slots, idle, IInv, ReadyOK
<1>3. CASE UNCHANGED vars
  BY <1>3 DEF vars, SpawnInv
<1>4. CASE Switch
  <2>1. /\ \A t \in Slots : \/ state'[t] = state[t]
                            \/ state[t] = "SLEEPING" /\ state'[t] = "READY"
        /\ current' = idle => \A t \in Slots \ {idle} : state'[t] # "READY"
    BY <1>4, Schedule DEF Switch
  <2>2. pc[idle] # "report"
    BY DEF IInv, PcsOK, IdlePcs
  <2>. QED
    BY <1>1, <1>2, <1>4, <2>1, <2>2 DEF Switch, SpawnInv
<1>5. CASE Local
  BY <1>1, <1>2, <1>5 DEF Local, SpawnInv
<1>6. CASE BootSpawn
  <2>1. pc[idle] = "boot" /\ \A t \in Slots : pc[t] # "report" /\ entry[t] = "idle"
    BY <1>6 DEF BootSpawn, Running, SpawnInv
  <2>2. PICK t \in Slots : Spawned(t, "session", idle, "top")
    BY <1>6, SpawnSlots, Zenon DEF BootSpawn
  <2>3. /\ state[t] = "UNUSED"
        /\ entry' = [entry EXCEPT ![t] = "session"]
        /\ pc' = [pc EXCEPT ![t] = "start", ![idle] = "top"]
    BY <2>2 DEF Spawned
  <2>. QED
    BY <1>1, <1>2, <2>1, <2>3 DEF SpawnInv
<1>7. ASSUME NEW u \in Slots, SessionSpawn(u)
      PROVE  SpawnInv'
  <2>1. current = u /\ pc[u] = "run" /\ entry[u] = "session"
    BY <1>7 DEF SessionSpawn, AtPrompt, Running
  <2>2. u # idle /\ state[u] = "READY" /\ pc[idle] # "boot"
    BY <1>1, <1>2, <2>1 DEF IInv, PcsOK, IdlePcs, ReadyOK, SpawnInv
  <2>3. \A t \in Slots : pc[t] # "report"
    BY <2>1 DEF SpawnInv
  <2>4. PICK e \in {"worker", "ticker"}, block \in Stacks \ used :
          task_spawn(e, block, u, "report")
    BY <1>7 DEF SessionSpawn
  <2>5. PICK t \in Slots : Spawned(t, e, u, "report")
    BY <2>4, SpawnSlots, Zenon
  <2>6. t # u /\ t # idle
    BY <1>2, <2>2, <2>5 DEF Spawned
  <2>7. pc'[idle] # "boot"
    BY <1>1, <1>2, <2>2, <2>5, <2>6 DEF Spawned
  <2>8. \A v, w \in Slots : entry'[v] = "session" /\ entry'[w] = "session" => v = w
    BY <1>1, <2>4, <2>5 DEF Spawned, SpawnInv
  <2>9. \A v \in Slots : pc'[v] = "report" => v = u
    BY <1>1, <2>3, <2>5 DEF Spawned
  <2>10. entry'[u] = "session" /\ state'[u] = "READY" /\ current' # idle
    BY <1>1, <2>1, <2>2, <2>5, <2>6 DEF Spawned
  <2>11. state'[handle'.task] # "UNUSED" /\ id'[handle'.task] = handle'.pid
    BY <1>1, <2>5 DEF Spawned
  <2>. QED
    BY <2>7, <2>8, <2>9, <2>10, <2>11 DEF SpawnInv
<1>8. CASE ReapDead
  <2>1. current = idle /\ UNCHANGED <<entry, pc>>
    BY <1>8 DEF ReapDead, Running
  <2>. QED
    BY <2>1 DEF SpawnInv
<1>. QED
  BY <1>3, <1>4, <1>5, <1>6, <1>7, <1>8, StepKinds

\* Both invariants together hold in every reachable state.
THEOREM FullInvariant == Spec => [](IInv /\ SpawnInv)
<1>1. Init => SpawnInv
  BY DEF Init, SpawnInv
<1>. QED
  BY <1>1, InitInv, NextKeeps, SpawnInvKeeps, PTL DEF Spec

\* When cmd_spawn reads the pid of the task it has started, the slot still
\* belongs to that task, however the shell was preempted since.
THEOREM SpawnReportsItsTask == Spec => []SpawnedPidStable
<1>1. IInv /\ SpawnInv => SpawnedPidStable
  BY DEF IInv, TypeOK, SpawnInv, SpawnedPidStable
<1>. QED
  BY <1>1, FullInvariant, PTL

\* A dead task leaves that state only through the reap, which idle runs.
THEOREM DeathIsFinal == Spec => DeadOnlyReaped
<1> DEFINE A == \A t \in Slots : state[t] = "DEAD" /\ state'[t] # "DEAD"
                   => state'[t] = "UNUSED" /\ current = idle
<1>1. IInv /\ SpawnInv /\ [Next]_vars => [A]_vars
  <2> SUFFICES ASSUME IInv, SpawnInv, Next PROVE A
    OBVIOUS
  <2>1. state \in [Slots -> States]
    BY DEF IInv, TypeOK
  <2>3. CASE Switch
    BY <2>3, Schedule DEF Switch
  <2>4. CASE Local
    BY <2>4 DEF Local
  <2>5. CASE ReapDead
    BY <2>1, <2>5 DEF ReapDead, Running
  <2>6. CASE BootSpawn
    <3>1. PICK t \in Slots : Spawned(t, "session", idle, "top")
      BY <2>6, SpawnSlots, Zenon DEF BootSpawn
    <3>. QED
      BY <2>1, <3>1 DEF Spawned
  <2>7. ASSUME NEW u \in Slots, SessionSpawn(u)
        PROVE  A
    <3>1. PICK e \in {"worker", "ticker"}, t \in Slots : Spawned(t, e, u, "report")
      BY <2>7, SpawnSlots, Zenon DEF SessionSpawn
    <3>. QED
      BY <2>1, <3>1 DEF Spawned
  <2>. QED
    BY <2>3, <2>4, <2>5, <2>6, <2>7, StepKinds
<1>. QED
  BY <1>1, FullInvariant, PTL DEF Spec, DeadOnlyReaped

\* A switch goes to a READY task, and to idle only when nobody else is READY.
THEOREM DispatchCorrect == Spec => DispatchOK
<1> DEFINE A == current' # current =>
                  /\ state'[current'] = "READY"
                  /\ current' = idle => \A t \in Slots \ {idle} : state'[t] # "READY"
<1>1. IInv /\ SpawnInv /\ [Next]_vars => [A]_vars
  <2> SUFFICES ASSUME IInv, SpawnInv, Next PROVE A
    OBVIOUS
  <2>1. CASE Switch
    BY <2>1, Schedule DEF Switch
  <2>2. CASE \/ BootSpawn \/ (\E t \in Slots : SessionSpawn(t))
             \/ ReapDead \/ Local
    BY <2>2 DEF BootSpawn, SessionSpawn, task_spawn, ReapDead, Local
  <2>. QED
    BY <2>1, <2>2, StepKinds
<1>. QED
  BY <1>1, FullInvariant, PTL DEF Spec, DispatchOK
-----------------------------------------------------------------------------
(* Round robin.                                                            *)

\* A task in use stands at one place only.
LEMMA PosIs ==
    ASSUME TypeOK, RingOK, NEW i \in 1 .. Len(ring)
    PROVE  Pos(ring[i]) = i
<1>1. ring[i] \in InUse
  BY RingFacts
<1>2. Pos(ring[i]) \in 1 .. Len(ring) /\ ring[Pos(ring[i])] = ring[i]
  BY <1>1, PosInRing
<1>. QED
  BY <1>2 DEF RingOK

\* The same as a formula, of which there is a primed form.
LEMMA PlacesFixed == TypeOK /\ RingOK => \A i \in 1 .. Len(ring) : Pos(ring[i]) = i
  BY PosIs

\* Whoever task_schedule picks, the search that starts at its place comes to
\* a READY task earlier than the one that started at current's
\* (task.c:154-168).
LEMMA Nearer ==
    ASSUME IInv, NEW wl, task_schedule(wl), ring' = ring,
           NEW t \in InUse \ {idle, current}, state'[t] = "READY"
    PROVE  Away(t) \in Nat /\ Away(t)' \in Nat /\ Away(t)' < Away(t)
<1> DEFINE p == Pos(current)
           q == Pos(t)
           L == Len(ring)
           Runnable(i) == ring[i] # idle /\ state'[ring[i]] = "READY"
           behind == {i \in p + 1 .. L : Runnable(i)}
           around == {i \in 1 .. p : Runnable(i)}
<1>1. TypeOK /\ RingOK /\ current \in InUse
  BY DEF IInv, StackSafe
<1>2. p \in 1 .. L /\ q \in 1 .. L /\ L \in Nat /\ ring[p] = current /\ ring[q] = t
  BY <1>1, PosInRing, RingFacts
<1>3. p # q /\ Runnable(q)
  BY <1>2
<1>4. current' = pick_next(state')
  BY DEF task_schedule
<1>5. Pos(t)' = q
  BY DEF Pos
<1>6. PICK c \in 1 .. L : /\ current' = ring[c]
                          /\ p < q => p < c /\ c <= q
                          /\ q < p => p < c \/ c <= q
  <2>1. CASE behind # {}
    <3>1. behind \in SUBSET Nat
      BY <1>2
    <3>2. Min(behind) \in behind /\ \A i \in behind : Min(behind) <= i
      BY <2>1, <3>1, MinIndex
    <3>3. current' = ring[Min(behind)]
      BY <1>4, <2>1 DEF pick_next
    <3>4. p < q => q \in behind
      BY <1>2, <1>3
    <3>5. PICK c : c = Min(behind)
      OBVIOUS
    <3>6. c \in 1 .. L /\ p < c /\ current' = ring[c]
      BY <1>2, <3>2, <3>3, <3>5
    <3>7. p < q => c <= q
      BY <3>2, <3>4, <3>5
    <3>. QED
      BY <3>6, <3>7
  <2>2. CASE behind = {}
    <3>1. q \in around /\ q < p
      BY <1>2, <1>3, <2>2
    <3>2. around \in SUBSET Nat
      BY <1>2
    <3>3. Min(around) \in around /\ \A i \in around : Min(around) <= i
      BY <3>1, <3>2, MinIndex
    <3>4. current' = ring[Min(around)]
      BY <1>4, <2>2, <3>1 DEF pick_next
    <3>5. PICK c : c = Min(around)
      OBVIOUS
    <3>6. c \in 1 .. L /\ c <= q /\ current' = ring[c]
      BY <1>2, <3>1, <3>3, <3>4, <3>5
    <3>7. ~ p < q
      BY <1>2, <3>1
    <3>. QED
      BY <3>1, <3>6, <3>7
  <2>. QED
    BY <2>1, <2>2
<1>7. Pos(current)' = c
  <2>1. Pos(current)' = Pos(ring[c])
    BY <1>6 DEF Pos
  <2>. QED
    BY <1>1, <2>1, PosIs
<1>8. /\ Away(t) = IF p <= q THEN q - p ELSE q + L - p
      /\ Away(t)' = IF c <= q THEN q - c ELSE q + L - c
  BY <1>5, <1>7 DEF Away
<1> HIDE DEF p, q, L
<1>. QED
  BY <1>2, <1>3, <1>6, <1>8

\* A spawn puts a waiting task off by one place at most.
LEMMA PutOff ==
    ASSUME IInv, IInv', NEW e, NEW block, NEW caller, NEW resume,
           task_spawn(e, block, caller, resume), NEW t \in InUse \ {current}
    PROVE  Away(t) \in Nat /\ Away(t)' \in Nat /\ Away(t)' <= Away(t) + 1
<1> DEFINE p == Pos(current)
           q == Pos(t)
           L == Len(ring)
           r == IF q <= p THEN q ELSE q + 1
<1>1. TypeOK /\ RingOK /\ current \in InUse
  BY DEF IInv, StackSafe
<1>2. p \in 1 .. L /\ q \in 1 .. L /\ L \in Nat /\ ring[p] = current /\ ring[q] = t
  BY <1>1, PosInRing, RingFacts
<1>3. ring' = InsertAt(ring, p + 1, alloc_task) /\ current' = current
  BY DEF task_spawn, list_insert
<1>4. ring \in Seq(Slots) /\ alloc_task \in Slots
  <2>1. Unused # {} /\ Unused \in SUBSET Nat
    BY DEF task_spawn, Unused, Slots
  <2>. QED
    BY <1>1, <2>1, MinIndex, RingFacts DEF alloc_task, Unused
<1>5. Inserted(Slots, ring, p, alloc_task, ring')
  BY <1>2, <1>3, <1>4, InsertAtElements, Zenon
<1>6. /\ Len(ring') = L + 1
      /\ \A i \in 1 .. p : ring'[i] = ring[i]
      /\ \A i \in p + 2 .. L + 1 : ring'[i] = ring[i - 1]
  BY <1>5 DEF Inserted
<1>7. /\ p \in 1 .. L + 1 /\ r \in 1 .. L + 1
      /\ ring'[p] = current' /\ ring'[r] = t
  <2>1. q <= p => q \in 1 .. p
    BY <1>2
  <2>2. ~ q <= p => q + 1 \in p + 2 .. L + 1 /\ (q + 1) - 1 = q
    BY <1>2
  <2>3. p \in 1 .. p /\ p \in 1 .. L + 1 /\ r \in 1 .. L + 1
    BY <1>2
  <2> HIDE DEF p, q, L
  <2>. QED
    BY <1>2, <1>3, <1>6, <2>1, <2>2, <2>3
<1>8. \A i \in 1 .. L + 1 : Pos(ring[i])' = i
  <2>1. (TypeOK /\ RingOK => \A i \in 1 .. Len(ring) : Pos(ring[i]) = i)'
    BY PlacesFixed, PTL
  <2>. QED
    BY <1>6, <2>1 DEF IInv
<1>9. Pos(current)' = p /\ Pos(t)' = r
  BY <1>7, <1>8
<1>10. /\ Away(t) = IF p <= q THEN q - p ELSE q + L - p
       /\ Away(t)' = IF p <= r THEN r - p ELSE r + (L + 1) - p
  BY <1>6, <1>9 DEF Away
<1> HIDE DEF p, q, L
<1>. QED
  BY <1>2, <1>10

\* Idle runs beside a READY task only right behind the boot's spawn, when no
\* other slot is in use (kernel.c:133-141).
LEMMA RestInvKeeps == IInv /\ SpawnInv /\ RestInv /\ [Next]_vars => RestInv'
<1> SUFFICES ASSUME IInv, SpawnInv, RestInv, [Next]_vars PROVE RestInv'
  OBVIOUS
<1>1. /\ state \in [Slots -> States] /\ pc \in [Slots -> IdlePcs \union TaskPcs]
      /\ idle \in Slots
  <2>1. idle \in Slots
    BY TaskAssumption DEF Slots, idle
  <2>. QED
    BY <2>1 DEF IInv, TypeOK
<1>2. CASE UNCHANGED vars
  BY <1>2 DEF vars, RestInv
<1>3. CASE Switch
  <2>1. /\ \A t \in Slots : \/ state'[t] = state[t]
                            \/ state[t] = "SLEEPING" /\ state'[t] = "READY"
        /\ current' = idle => \A t \in Slots \ {idle} : state'[t] # "READY"
    BY <1>3, Schedule DEF Switch
  <2>2. pc'[idle] = "boot" => pc[idle] = "boot"
    BY <1>1, <1>3 DEF Switch
  <2>. QED
    BY <2>1, <2>2 DEF RestInv
<1>4. CASE Local
  <2>1. pc'[idle] = "boot" => pc[idle] = "boot"
    BY <1>1, <1>4 DEF Local
  <2>2. \A t \in Slots : state[t] = "UNUSED" => state'[t] = "UNUSED"
    BY <1>4 DEF Local
  <2>3. current' = idle => current = idle /\ state' = state
    BY <1>4 DEF Local
  <2>. QED
    BY <2>1, <2>2, <2>3 DEF RestInv
<1>5. CASE ReapDead
  <2>1. /\ current = idle /\ pc[idle] = "reap" /\ pc' = pc
        /\ state' = [state EXCEPT ![walk] = "UNUSED"]
    BY <1>5 DEF ReapDead, Running
  <2>2. \A t \in Slots : state'[t] = state[t] \/ state'[t] = "UNUSED"
    BY <1>1, <2>1
  <2>. QED
    BY <2>1, <2>2 DEF RestInv
<1>6. CASE BootSpawn
  <2>1. pc[idle] = "boot" /\ \A t \in Slots \ {idle} : state[t] = "UNUSED"
    BY <1>6 DEF BootSpawn, Running, RestInv
  <2>2. PICK t \in Slots : Spawned(t, "session", idle, "top")
    BY <1>6, SpawnSlots, Zenon DEF BootSpawn
  <2>3. /\ state[t] = "UNUSED" /\ state' = [state EXCEPT ![t] = "READY"]
        /\ pc' = [pc EXCEPT ![t] = "start", ![idle] = "top"]
    BY <2>2 DEF Spawned
  <2>4. pc'[idle] # "boot"
    BY <1>1, <2>3
  <2>5. \A u \in Slots \ {idle} : state'[u] # "DEAD"
    BY <1>1, <2>1, <2>3
  <2>. QED
    BY <2>4, <2>5 DEF RestInv
<1>7. ASSUME NEW u \in Slots, SessionSpawn(u)
      PROVE  RestInv'
  <2>1. current = u /\ pc[u] = "run" /\ entry[u] = "session" /\ u # idle
    BY <1>7 DEF SessionSpawn, AtPrompt, Running, IInv, PcsOK, IdlePcs
  <2>2. PICK e \in {"worker", "ticker"}, t \in Slots : Spawned(t, e, u, "report")
    BY <1>7, SpawnSlots, Zenon DEF SessionSpawn
  <2>3. pc[idle] # "boot"
    BY <1>1, <2>1 DEF SpawnInv
  <2>4. pc'[idle] # "boot" /\ current' # idle
    BY <1>1, <2>1, <2>2, <2>3 DEF Spawned
  <2>. QED
    BY <2>4 DEF RestInv
<1>. QED
  BY <1>2, <1>3, <1>4, <1>5, <1>6, <1>7, StepKinds

\* Round robin, for every number of slots: each interrupt brings the turn of
\* a waiting task nearer, a spawn puts it off by one place, and no slot is
\* freed for further spawns meanwhile.
THEOREM TurnsComeNearer == Spec => TurnsComeRound
<1> DEFINE A == \A t \in Slots \ {idle, current} :
                  state[t] = "READY" /\ state'[t] = "READY" =>
                    /\ TimerIrq \/ DeviceIrq => Away(t)' < Away(t)
                    /\ Away(t)' <= Away(t) + (next_id' - next_id)
                    /\ \A u \in Slots : state'[u] = "UNUSED" => state[u] = "UNUSED"
<1>1. IInv /\ SpawnInv /\ RestInv /\ [Next]_vars /\ IInv' => [A]_vars
  <2> SUFFICES ASSUME IInv, SpawnInv, RestInv, IInv', Next,
                      NEW t \in Slots \ {idle, current},
                      state[t] = "READY", state'[t] = "READY"
               PROVE  /\ TimerIrq \/ DeviceIrq => Away(t)' < Away(t)
                      /\ Away(t)' <= Away(t) + (next_id' - next_id)
                      /\ \A u \in Slots : state'[u] = "UNUSED" => state[u] = "UNUSED"
    OBVIOUS
  <2>1. t \in InUse /\ next_id \in Nat /\ state \in [Slots -> States]
    BY TaskAssumption DEF InUse, IInv, TypeOK
  <2>2. TimerIrq \/ DeviceIrq => Away(t)' < Away(t)
    BY <2>1, Nearer DEF TimerIrq, DeviceIrq
  <2>3. CASE Switch
    <3>1. PICK wl \in [Slots -> Nat] : task_schedule(wl)
      BY <2>3 DEF Switch
    <3>2. ring' = ring /\ next_id' = next_id
      BY <2>3 DEF Switch
    <3>3. Away(t) \in Nat /\ Away(t)' \in Nat /\ Away(t)' < Away(t)
      BY <2>1, <3>1, <3>2, Nearer
    <3>4. Away(t)' <= Away(t) + (next_id' - next_id)
      BY <2>1, <3>2, <3>3
    <3>5. \A u \in Slots : state'[u] = "UNUSED" => state[u] = "UNUSED"
      BY <3>1, Schedule
    <3>. QED
      BY <2>2, <3>4, <3>5
  <2>4. CASE Local
    <3>1. Away(t)' = Away(t) /\ next_id' = next_id
      BY <2>4 DEF Local, Away, Pos
    <3>2. Away(t) \in Int
      BY <2>1, PosInRing, RingFacts DEF Away, IInv, StackSafe
    <3>3. Away(t)' <= Away(t) + (next_id' - next_id)
      BY <2>1, <3>1, <3>2
    <3>4. \A u \in Slots : state'[u] = "UNUSED" => state[u] = "UNUSED"
      BY <2>4 DEF Local
    <3>. QED
      BY <2>2, <3>3, <3>4
  <2>5. CASE ReapDead
    <3>1. current = idle /\ walk # idle /\ state[walk] = "DEAD" /\ walk \in Slots
      BY <2>5 DEF ReapDead, Running, IInv, TypeOK
    <3>2. FALSE
      BY <2>1, <3>1 DEF RestInv
    <3>. QED
      BY <3>2
  <2>6. ASSUME NEW e, NEW block, NEW caller, NEW resume,
               task_spawn(e, block, caller, resume)
        PROVE  /\ Away(t)' <= Away(t) + (next_id' - next_id)
               /\ \A u \in Slots : state'[u] = "UNUSED" => state[u] = "UNUSED"
    <3>1. Away(t) \in Nat /\ Away(t)' \in Nat /\ Away(t)' <= Away(t) + 1
      BY <2>1, <2>6, PutOff
    <3>2. next_id' = next_id + 1
      BY <2>6 DEF task_spawn
    <3>3. Away(t)' <= Away(t) + (next_id' - next_id)
      BY <2>1, <3>1, <3>2
    <3>4. PICK n \in Slots : Spawned(n, e, caller, resume)
      BY <2>6, SpawnSlots, Zenon
    <3>5. \A u \in Slots : state'[u] = "UNUSED" => state[u] = "UNUSED"
      BY <2>1, <3>4 DEF Spawned
    <3>. QED
      BY <3>3, <3>5
  <2>7. CASE BootSpawn \/ \E u \in Slots : SessionSpawn(u)
    <3>1. \E e, block, caller, resume : task_spawn(e, block, caller, resume)
      BY <2>7, Zenon DEF BootSpawn, SessionSpawn
    <3>. QED
      BY <2>2, <2>6, <3>1, Zenon
  <2>. QED
    BY <2>3, <2>4, <2>5, <2>7, StepKinds
<1>2. Init => RestInv
  BY DEF Init, RestInv
<1>3. Spec => [](IInv /\ SpawnInv /\ RestInv)
  BY <1>2, FullInvariant, RestInvKeeps, PTL DEF Spec
<1>. QED
  BY <1>1, <1>3, PTL DEF Spec, TurnsComeRound

=============================================================================
