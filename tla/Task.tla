-------------------------------- MODULE Task --------------------------------
(***************************************************************************)
(* The preemptive scheduler of kernel/task.c, with the interrupt paths of  *)
(* kernel/idt.c that call it and the tasks the kernel really runs: the     *)
(* idle loop of kmain, the session task and the workers and tickers that   *)
(* the shell's `spawn` starts.                                             *)
(*                                                                         *)
(* One machine, one CPU: exactly one task executes.  A step of this module *)
(* is either an interrupt (which may switch tasks) or a stretch of the     *)
(* running task's code up to the next point where an interrupt can matter. *)
(* A section between irq_save and irq_restore is one step, except the reap *)
(* loop, whose iterations are steps during which no interrupt is taken.    *)
(*                                                                         *)
(* Time is kept relative: left[t] is wake_at - ticks and todo[t] of a      *)
(* worker is deadline - ticks, both cut off at 0, so that `now >= wake_at` *)
(* is left[t] = 0.  The counters shown by `ps` are left out.               *)
(*                                                                         *)
(* A definition named after another one with a suffix (list_remove_Next)   *)
(* is a faulty variant that no specification uses: the property it would   *)
(* break is named in its comment.                                          *)
(***************************************************************************)
EXTENDS Integers, Sequences, FiniteSets, SequencesExt, FiniteSetsExt

CONSTANTS
    TaskMax,      \* TASK_MAX, the number of slots of tasks[]
    Stacks,       \* the heap blocks kmalloc(TASK_STACK_SIZE) can return
    MaxId,        \* bound: spawns stop when next_id reaches it
    SleepTicks,   \* the lengths a task sleeps for, in ticks (0 included)
    WorkTicks,    \* how long a worker burns, in ticks
    Rounds,       \* how many naps a ticker takes
    NULL

ASSUME TaskAssumption ==
    /\ TaskMax \in Nat \ {0, 1}
    /\ MaxId \in Nat \ {0}
    /\ SleepTicks \subseteq Nat
    /\ WorkTicks \in Nat
    /\ Rounds \in Nat
    /\ NULL \notin Stacks

Slots == 0 .. TaskMax - 1
idle == 0

States == {"UNUSED", "READY", "SLEEPING", "DEAD"}
Entries == {"idle", "session", "worker", "ticker"}

\* Where a task's code stands.  "sleep" and "exit" are the windows of
\* task_sleep_ms and of task_exit / task_kill between irq_restore and the
\* int 0x30; "gone" is the code behind the int 0x30 of a task that is dead.
IdlePcs == {"boot", "panic", "top", "reap", "reaped", "hlt"}
TaskPcs == {"start", "run", "report", "sleep", "exit", "gone"}

VARIABLES
    state,     \* tasks[t].state
    ring,      \* the circular run list, from idle along the next pointers
    current,   \* the task whose stack the CPU is on
    stack,     \* tasks[t].stack
    used,      \* the stack blocks that the heap has handed out
    id,        \* tasks[t].id
    next_id,
    entry,     \* tasks[t].entry
    left,      \* ticks until tasks[t].wake_at
    todo,      \* a worker's ticks to its deadline, a ticker's remaining naps
    pc,        \* where the task's code stands
    walk,      \* the loop variable of task_reap
    handle     \* cmd_spawn's local: the task pointer, and the pid it was given

vars == <<state, ring, current, stack, used, id, next_id, entry, left, todo,
          pc, walk, handle>>
-----------------------------------------------------------------------------
(* The run list.                                                           *)

Pos(t) == CHOOSE i \in 1 .. Len(ring) : ring[i] = t

next(t) == IF Pos(t) = Len(ring) THEN ring[1] ELSE ring[Pos(t) + 1]

list_insert(t) == ring' = InsertAt(ring, Pos(current) + 1, t)

\* Unlinks the task behind t (RingOK).
list_remove_Next(t) == ring' = RemoveAt(ring, Pos(next(t)))

list_remove(t) == ring' = RemoveAt(ring, Pos(t))

\* The slot alloc_task returns, when there is one.
Unused == {t \in Slots : state[t] = "UNUSED"}
alloc_task == Min(Unused)
-----------------------------------------------------------------------------
(* task_schedule.  wl is the time left to each task's wake_at as the       *)
(* handler reads the tick counter.                                         *)

\* Wakes a tick early (SleepHonoured).
wake_sleepers_Early(wl) ==
    [t \in Slots |->
        IF t \in Range(ring) /\ state[t] = "SLEEPING" /\ wl[t] <= 1
        THEN "READY" ELSE state[t]]

\* Does not look at the state, so it wakes the dead (DeadStaysGone).
wake_sleepers_Any(wl) ==
    [t \in Slots |->
        IF t \in Range(ring) /\ wl[t] = 0 THEN "READY" ELSE state[t]]

wake_sleepers(wl) ==
    [t \in Slots |->
        IF t \in Range(ring) /\ state[t] = "SLEEPING" /\ wl[t] = 0
        THEN "READY" ELSE state[t]]

\* Lets idle take its turn like any other task (SpawnedPidStable).
pick_next_Idle(st) ==
    LET p == Pos(current)
        Runnable(i) == st[ring[i]] = "READY"
        behind == {i \in p + 1 .. Len(ring) : Runnable(i)}
        around == {i \in 1 .. p : Runnable(i)}
    IN  IF behind # {} THEN ring[Min(behind)] ELSE ring[Min(around)]

\* Takes the first other task of the list, wherever current stands
\* (NoStarvation): right for two tasks, wrong for three.
pick_next_Other(st) ==
    LET ready == {i \in 2 .. Len(ring) : st[ring[i]] = "READY"}
        others == ready \ {Pos(current)}
    IN  IF others # {} THEN ring[Min(others)]
        ELSE IF ready # {} THEN current
        ELSE idle

\* Always searches from the head of the list (TurnsComeRound).
pick_next_Head(st) ==
    LET ready == {i \in 2 .. Len(ring) : st[ring[i]] = "READY"}
    IN  IF ready # {} THEN ring[Min(ready)] ELSE idle

\* Round robin from the task behind current, round to current itself.
pick_next(st) ==
    LET p == Pos(current)
        Runnable(i) == ring[i] # idle /\ st[ring[i]] = "READY"
        behind == {i \in p + 1 .. Len(ring) : Runnable(i)}
        around == {i \in 1 .. p : Runnable(i)}
    IN  IF behind # {} THEN ring[Min(behind)]
        ELSE IF around # {} THEN ring[Min(around)]
        ELSE idle

task_schedule(wl) ==
    /\ state' = wake_sleepers(wl)
    /\ current' = pick_next(state')
-----------------------------------------------------------------------------
(* Interrupts.  Every hardware interrupt ends in task_schedule.            *)

\* The reap loop runs with interrupts masked, and panic() after cli.
IrqEnabled == pc[current] \notin {"reap", "panic"}

\* An interrupt ends the hlt of the idle loop.
IrqReturn == pc' = IF pc[current] = "hlt" THEN [pc EXCEPT ![current] = "top"]
                                          ELSE pc

\* Counts on past the deadline (TypeOK).
Elapse_Wraps(n) == n - 1

Elapse(n) == IF n > 0 THEN n - 1 ELSE 0

TimerIrq ==
    /\ IrqEnabled
    /\ left' = [t \in Slots |-> Elapse(left[t])]
    /\ todo' = [t \in Slots |-> IF entry[t] = "worker" THEN Elapse(todo[t])
                                                       ELSE todo[t]]
    /\ task_schedule(left')
    /\ IrqReturn
    /\ UNCHANGED <<ring, stack, used, id, next_id, entry, walk, handle>>

\* The keyboard's and the mouse's interrupts; what their handlers do to the
\* devices' own state is not the scheduler's business.
DeviceIrq ==
    /\ IrqEnabled
    /\ task_schedule(left)
    /\ IrqReturn
    /\ UNCHANGED <<ring, stack, used, id, next_id, entry, left, todo, walk,
                   handle>>
-----------------------------------------------------------------------------
(* The calls a running task makes.                                         *)

Running(t, label) == current = t /\ pc[t] = label

\* int 0x30: the task will resume at label `to`.
task_yield(t, to) ==
    /\ task_schedule(left)
    /\ pc' = [pc EXCEPT ![t] = to]
    /\ UNCHANGED <<ring, stack, used, id, next_id, entry, left, todo, walk,
                   handle>>

\* task_sleep_ms up to irq_restore; SleepYield is the rest.
task_sleep(t, n) ==
    /\ left' = [left EXCEPT ![t] = n]
    /\ state' = [state EXCEPT ![t] = "SLEEPING"]
    /\ pc' = [pc EXCEPT ![t] = "sleep"]
    /\ UNCHANGED <<ring, current, stack, used, id, next_id, entry, walk>>

\* task_exit up to irq_restore; ExitYield is the rest.
task_exit(t) ==
    /\ t # idle
    /\ state' = [state EXCEPT ![t] = "DEAD"]
    /\ pc' = [pc EXCEPT ![t] = "exit"]
    /\ UNCHANGED <<ring, current, stack, used, id, next_id, entry, left, todo,
                   walk, handle>>

\* The pid a spawn hands out, ++next_id; with next_id++ the first task would
\* get the idle task's (PidsUnique).
NewPid_PostIncrement == next_id
NewPid == next_id + 1

\* A spawn that succeeds, on the block kmalloc gave.  The new task's first
\* iret lands in task_bootstrap.
task_spawn(e, block, caller, resume) ==
    /\ Unused # {}
    /\ next_id < MaxId
    /\ LET t == alloc_task IN
        /\ id' = [id EXCEPT ![t] = NewPid]
        /\ entry' = [entry EXCEPT ![t] = e]
        /\ stack' = [stack EXCEPT ![t] = block]
        /\ state' = [state EXCEPT ![t] = "READY"]
        /\ left' = [left EXCEPT ![t] = 0]
        /\ todo' = [todo EXCEPT ![t] = 0]
        /\ pc' = [pc EXCEPT ![t] = "start", ![caller] = resume]
        /\ handle' = [task |-> t, pid |-> NewPid]
        /\ list_insert(t)
    /\ used' = used \union {block}
    /\ next_id' = next_id + 1
    /\ UNCHANGED <<current, walk>>

SleepYield(t) == Running(t, "sleep") /\ task_yield(t, "run")

ExitYield(t) == Running(t, "exit") /\ task_yield(t, "gone")
-----------------------------------------------------------------------------
(* kmain after task_init: start the session, then reap and halt for ever.  *)

BootSpawn ==
    /\ Running(idle, "boot")
    /\ \E block \in Stacks \ used : task_spawn("session", block, idle, "top")

\* kmalloc may fail: the boot has used the heap for other things.
BootPanic ==
    /\ Running(idle, "boot")
    /\ pc' = [pc EXCEPT ![idle] = "panic"]
    /\ UNCHANGED <<state, ring, current, stack, used, id, next_id, entry, left,
                   todo, walk, handle>>

\* Starts the walk at its end (DeadReaped).
ReapBegin_AtEnd ==
    /\ Running(idle, "top")
    /\ walk' = current
    /\ pc' = [pc EXCEPT ![idle] = "reap"]
    /\ UNCHANGED <<state, ring, current, stack, used, id, next_id, entry, left,
                   todo, handle>>

ReapBegin ==
    /\ Running(idle, "top")
    /\ walk' = next(current)
    /\ pc' = [pc EXCEPT ![idle] = "reap"]
    /\ UNCHANGED <<state, ring, current, stack, used, id, next_id, entry, left,
                   todo, handle>>

\* Forgets the kfree (StackSafe).
ReapDead_Leaks ==
    /\ Running(idle, "reap")
    /\ walk # current
    /\ state[walk] = "DEAD"
    /\ walk' = next(walk)
    /\ list_remove(walk)
    /\ state' = [state EXCEPT ![walk] = "UNUSED"]
    /\ stack' = [stack EXCEPT ![walk] = NULL]
    /\ UNCHANGED <<used, current, id, next_id, entry, left, todo, pc, handle>>

ReapDead ==
    /\ Running(idle, "reap")
    /\ walk # current
    /\ state[walk] = "DEAD"
    /\ walk' = next(walk)
    /\ list_remove(walk)
    /\ used' = used \ {stack[walk]}
    /\ state' = [state EXCEPT ![walk] = "UNUSED"]
    /\ stack' = [stack EXCEPT ![walk] = NULL]
    /\ UNCHANGED <<current, id, next_id, entry, left, todo, pc, handle>>

ReapSkip ==
    /\ Running(idle, "reap")
    /\ walk # current
    /\ state[walk] # "DEAD"
    /\ walk' = next(walk)
    /\ UNCHANGED <<state, ring, current, stack, used, id, next_id, entry, left,
                   todo, pc, handle>>

ReapEnd ==
    /\ Running(idle, "reap")
    /\ walk = current
    /\ pc' = [pc EXCEPT ![idle] = "reaped"]
    /\ UNCHANGED <<state, ring, current, stack, used, id, next_id, entry, left,
                   todo, walk, handle>>

\* sti; hlt: no interrupt comes between the two.
Halt ==
    /\ Running(idle, "reaped")
    /\ pc' = [pc EXCEPT ![idle] = "hlt"]
    /\ UNCHANGED <<state, ring, current, stack, used, id, next_id, entry, left,
                   todo, walk, handle>>
-----------------------------------------------------------------------------
(* The bodies of the tasks.                                                *)

\* task_bootstrap enters the task's function, which reads its argument.
Bootstrap(t) ==
    /\ Running(t, "start")
    /\ pc' = [pc EXCEPT ![t] = "run"]
    /\ todo' = [todo EXCEPT ![t] = CASE entry[t] = "worker" -> WorkTicks
                                     [] entry[t] = "ticker" -> Rounds
                                     [] OTHER -> 0]
    /\ UNCHANGED <<state, ring, current, stack, used, id, next_id, entry, left,
                   walk, handle>>

\* A worker burns until its deadline, then returns into task_exit.
WorkerDone(t) ==
    /\ Running(t, "run")
    /\ entry[t] = "worker"
    /\ todo[t] = 0
    /\ task_exit(t)

TickerNap(t) ==
    /\ Running(t, "run")
    /\ entry[t] = "ticker"
    /\ todo[t] > 0
    /\ todo' = [todo EXCEPT ![t] = todo[t] - 1]
    /\ \E n \in SleepTicks : task_sleep(t, n)
    /\ UNCHANGED handle

TickerDone(t) ==
    /\ Running(t, "run")
    /\ entry[t] = "ticker"
    /\ todo[t] = 0
    /\ task_exit(t)

AtPrompt(t) == Running(t, "run") /\ entry[t] = "session"

\* keyboard_getchar with no key to return, and the `sleep` command.
SessionSleep(t) ==
    /\ AtPrompt(t)
    /\ \E n \in SleepTicks : task_sleep(t, n)
    /\ UNCHANGED <<todo, handle>>

SessionYield(t) == AtPrompt(t) /\ task_yield(t, "run")

\* `spawn`, up to the return of task_spawn.  When there is no slot or no
\* stack it prints an error and changes nothing.
SessionSpawn(t) ==
    /\ AtPrompt(t)
    /\ \E e \in {"worker", "ticker"}, block \in Stacks \ used :
          task_spawn(e, block, t, "report")

\* The rest of cmd_spawn reads task->id with interrupts on again.
SessionReport(t) ==
    /\ Running(t, "report")
    /\ pc' = [pc EXCEPT ![t] = "run"]
    /\ UNCHANGED <<state, ring, current, stack, used, id, next_id, entry, left,
                   todo, walk, handle>>

\* task_kill(pid): the tasks it finds.  Any pid of none of them, and the
\* idle task's pid, change nothing.
Killable(pid) == {u \in Range(ring) : /\ id[u] = pid
                                      /\ state[u] \notin {"UNUSED", "DEAD"}
                                      /\ u # idle}

SessionKill(t) ==
    /\ AtPrompt(t)
    /\ \E pid \in 1 .. MaxId : \E u \in Killable(pid) :
        /\ state' = [state EXCEPT ![u] = "DEAD"]
        /\ pc' = IF u = t THEN [pc EXCEPT ![t] = "exit"] ELSE pc
    /\ UNCHANGED <<ring, current, stack, used, id, next_id, entry, left, todo,
                   walk, handle>>
-----------------------------------------------------------------------------
\* task_init.
Init ==
    /\ state = [t \in Slots |-> IF t = idle THEN "READY" ELSE "UNUSED"]
    /\ ring = <<idle>>
    /\ current = idle
    /\ stack = [t \in Slots |-> NULL]
    /\ used = {}
    /\ id = [t \in Slots |-> 0]
    /\ next_id = 0
    /\ entry = [t \in Slots |-> "idle"]
    /\ left = [t \in Slots |-> 0]
    /\ todo = [t \in Slots |-> 0]
    /\ pc = [t \in Slots |-> IF t = idle THEN "boot" ELSE "start"]
    /\ walk = idle
    /\ handle = [task |-> idle, pid |-> 0]

IdleStep == ReapBegin \/ ReapDead \/ ReapSkip \/ ReapEnd \/ Halt

TaskStep(t) ==
    \/ Bootstrap(t) \/ SleepYield(t) \/ ExitYield(t)
    \/ TickerNap(t) \/ TickerDone(t) \/ SessionReport(t)

\* What the user makes the session do.
SessionStep(t) ==
    \/ SessionSleep(t) \/ SessionYield(t) \/ SessionSpawn(t) \/ SessionKill(t)

\* panic() never returns.
PanicHalt == pc[current] = "panic" /\ UNCHANGED vars

Next ==
    \/ TimerIrq \/ DeviceIrq
    \/ BootSpawn \/ BootPanic \/ IdleStep \/ PanicHalt
    \/ \E t \in Slots : TaskStep(t) \/ WorkerDone(t) \/ SessionStep(t)

Spec == Init /\ [][Next]_vars

\* The PIT fires for ever and a tick that comes while interrupts are masked
\* stays pending in the PIC until they are on again (so the timer's fairness
\* is strong: reaps cannot keep it off).  A task's time slice is long against the
\* stretch of code a step stands for: a task that is dispatched again and
\* again gets its step done.  The session always comes back to its prompt,
\* and what the user does there is not constrained.  Nor is how long a worker
\* burns: `spawn worker` takes any number of seconds an int holds.
Fairness ==
    /\ SF_vars(TimerIrq)
    /\ WF_vars(BootSpawn \/ BootPanic)
    /\ SF_vars(IdleStep)
    /\ \A t \in Slots \ {idle} : SF_vars(TaskStep(t))

FairSpec == Spec /\ Fairness
-----------------------------------------------------------------------------
(* Properties.                                                             *)

InUse == {t \in Slots : state[t] # "UNUSED"}

TypeOK ==
    /\ state \in [Slots -> States]
    /\ ring \in Seq(Slots)
    /\ current \in Slots
    /\ stack \in [Slots -> Stacks \union {NULL}]
    /\ used \subseteq Stacks
    /\ id \in [Slots -> 0 .. MaxId]
    /\ next_id \in 0 .. MaxId
    /\ entry \in [Slots -> Entries]
    /\ left \in [Slots -> Nat]
    /\ todo \in [Slots -> Nat]
    /\ pc \in [Slots -> IdlePcs \union TaskPcs]
    /\ walk \in Slots
    /\ handle \in [task : Slots, pid : 0 .. MaxId]

\* The run list holds every slot in use exactly once and starts at idle:
\* whatever the interleaving of spawns, deaths and reaps, list_insert and
\* list_remove lose no task and list none twice (task.c:47-65).
RingOK ==
    /\ ring # <<>> /\ ring[1] = idle
    /\ Range(ring) = InUse
    /\ \A i, j \in 1 .. Len(ring) : ring[i] = ring[j] => i = j

\* Every task but idle owns a stack block of its own, the heap has handed
\* out exactly those blocks, and the CPU is never on a freed one: a stack is
\* given back once, only by the reap, and nothing leaks (task.c:266-286).
StackSafe ==
    /\ \A t \in InUse \ {idle} : stack[t] \in used
    /\ \A t, u \in InUse \ {idle} : stack[t] = stack[u] => t = u
    /\ used = {stack[t] : t \in InUse \ {idle}}
    /\ current \in InUse

\* No two tasks in the run list share a pid, so `kill` hits the task that
\* was meant and never the idle task (task.c:96, 245).
PidsUnique == \A t, u \in InUse : id[t] = id[u] => t = u

\* The code behind the last yield of a task that exited or was killed is
\* never executed: "a dead task is never picked again, so this is
\* unreachable" (task.c:233), also when the interrupt comes in the window
\* between irq_restore and the yield.
DeadStaysGone == pc[current] # "gone"

\* task_sleep_ms returns only when its deadline has passed, also when the
\* timer preempts the task between going SLEEPING and its yield (task.c:213).
SleepHonoured ==
    current # idle /\ pc[current] \in {"start", "run", "report"}
        => state[current] = "READY" /\ left[current] = 0

\* The pointer task_spawn returned still means the new task when cmd_spawn
\* prints its pid: however often the shell is preempted in between, the
\* child can run and die but its slot cannot be reaped and taken again
\* (shell.c:647-652).
SpawnedPidStable ==
    pc[current] = "report"
        => state[handle.task] # "UNUSED" /\ id[handle.task] = handle.pid

\* The inductive invariant behind the safety properties: idle is always
\* READY and has a code of its own, only a task that is due is READY, and
\* the task on the CPU is READY unless it is in one of the two windows.
PcsOK == pc[idle] \in IdlePcs /\ \A t \in Slots \ {idle} : pc[t] \in TaskPcs

ReadyOK ==
    /\ state[idle] = "READY"
    /\ \A t \in Slots : state[t] = "READY" => left[t] = 0
    /\ \A t \in Slots : pc[t] \in {"exit", "gone"}
                            => state[t] \in {"DEAD", "UNUSED"}
    /\ current # idle /\ pc[current] \in {"start", "run", "report"}
            => state[current] = "READY"

PidsBelow == \A t \in Slots : id[t] <= next_id

IInv == /\ TypeOK /\ RingOK /\ StackSafe /\ walk \in InUse
        /\ PcsOK /\ ReadyOK /\ PidsBelow /\ PidsUnique /\ DeadStaysGone

\* The invariant behind SpawnedPidStable: there is one session, and while
\* it is about to report it stays READY, so idle, and with it the reap, does
\* not run.
SpawnInv ==
    /\ pc[idle] = "boot" => \A t \in Slots : entry[t] = "idle"
    /\ \A t, u \in Slots : entry[t] = "session" /\ entry[u] = "session" => t = u
    /\ \A t \in Slots : pc[t] = "report" =>
          /\ entry[t] = "session" /\ state[t] = "READY" /\ current # idle
          /\ state[handle.task] # "UNUSED" /\ id[handle.task] = handle.pid

\* The invariant behind TurnsComeRound: when idle runs although another task
\* is READY, it has just spawned the session, and there is nothing to reap.
RestInv ==
    /\ pc[idle] = "boot" => \A t \in Slots \ {idle} : state[t] = "UNUSED"
    /\ current = idle => \/ \A t \in Slots \ {idle} : state[t] # "READY"
                        \/ \A t \in Slots \ {idle} : state[t] # "DEAD"

\* A switch goes to a READY task, and to idle only when no other task is
\* READY (task.c:154-168).
DispatchOK ==
    [][current' # current =>
          /\ state'[current'] = "READY"
          /\ current' = idle => \A t \in Slots \ {idle} : state'[t] # "READY"]_vars

\* Dead is for ever, until the reap returns the slot (task.c:228, 250, 280).
DeadOnlyReaped ==
    [][\A t \in Slots : state[t] = "DEAD" /\ state'[t] # "DEAD"
          => state'[t] = "UNUSED" /\ current = idle]_vars

\* How many next pointers lead from the running task to t.
Away(t) == IF Pos(current) <= Pos(t) THEN Pos(t) - Pos(current)
                                     ELSE Pos(t) + Len(ring) - Pos(current)

\* "start after the task that just ran so nobody is starved" (task.c:154):
\* while a task waits for the CPU, every interrupt brings its turn nearer,
\* whoever is switched to, and only a spawn puts it off, by one place.  What
\* is spawned in front of it takes a slot, and no slot is freed meanwhile, so
\* its turn is put off less than TASK_MAX times.
TurnsComeRound ==
    [][\A t \in Slots \ {idle, current} :
          state[t] = "READY" /\ state'[t] = "READY" =>
            /\ TimerIrq \/ DeviceIrq => Away(t)' < Away(t)
            /\ Away(t)' <= Away(t) + (next_id' - next_id)
            /\ \A u \in Slots : state'[u] = "UNUSED" => state[u] = "UNUSED"]_vars

\* "Round robin: ... so nobody is starved" (task.c:154): a task that wants
\* the CPU, or will when its sleep ends, gets it or is killed, also when
\* others never give it up of themselves.
NoStarvation ==
    \A t \in Slots \ {idle} :
        state[t] \in {"READY", "SLEEPING"} ~> current = t \/ state[t] = "DEAD"

\* The slots and stacks of the dead come back: again and again nobody is dead
\* and not reaped, provided that again and again no worker wants the CPU while
\* the session has been switched away from, asleep at its prompt (or dead).
\* Only idle reaps, and idle runs only when nobody else wants to (task.c:266,
\* kernel.c:138).
AllWait == current # 1 /\ \A t \in Slots \ {idle} : state[t] # "READY"

DeadReaped ==
    []<>(AllWait \/ pc[idle] = "panic") =>
        []<>(\A t \in Slots \ {idle} : state[t] # "DEAD")
=============================================================================
