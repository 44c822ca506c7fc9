# A TLA+ model of LightningOS

LightningOS is a small 32-bit kernel: a preemptive scheduler on one CPU, a heap,
a tree of files in RAM that is written to an ATA disk as one snapshot, accounts
with a login, a shell, and an installer. This directory specifies the parts that
keep state, checks them with TLC on small instances and proves with TLAPS, for
every value of the constants, the safety properties of the scheduler, the
snapshot layer, the installer, the heap, the keyboard driver, the accounts, the
terminal and the file tree.

References such as `task.c:96` are to files of the repository (`kernel/`, `fs/`,
`drivers/`, `include/`). `PROJECT.json` maps every definition to its lines.

## 1. The system

| Component | State | Operations | Talks to |
|---|---|---|---|
| Scheduler, `kernel/task.c` | `tasks[16]`, circular run list, `current`, `next_id` | init, spawn, schedule, yield, sleep, exit, kill, reap | interrupt stubs call `task_schedule`; shell spawns and kills; idle loop reaps; heap gives the stacks |
| Interrupts, timer: `idt.c`, `interrupt.asm`, `timer.c` | `ticks`, handlers | IRQ0, IRQ1, IRQ12, `int 0x30` | scheduler, keyboard, mouse |
| Heap, `kernel/mem.c` | list of headers, `heap_used` | kmalloc, kfree | everybody |
| RAM filesystem, `fs/ramfs.c` | tree, `current_dir` | resolve, create, remove, write, abspath, reset | shell, accounts, snapshot layer |
| Accounts, `kernel/users.c` | `users[8]`, `current`, `next_uid` | setup, login, switch, add, delete, password, import | shell, kmain, snapshot layer, `/etc/passwd` |
| Snapshot layer, `fs/persist.c` | `state`, `dirty`, `sealed`, drive and base | mount, save, flush, format | ATA driver; kmain; shell |
| ATA driver, `drivers/ata.c` | drives found | read, write, polled | snapshot layer, installer |
| Installer, `kernel/install.c` | image captured at boot | menu, install to disk | ATA driver; `kmain` |
| Keyboard, `drivers/keyboard.c` | ring, modifier flags | interrupt handler, poll, getchar | interrupts, scheduler, console |
| Console, `kernel/console.c` | line, `drawn`, `browse`, history ring | read a line with each key's editing; push and read the history | keyboard, VGA, whoever asks for a line |
| VGA, `drivers/vga.c` | shadow screen, scrollback ring, `view_offset`, cursor; video memory | putc, clear, scroll the view, repaint | console and everybody who prints; the mouse's handler |
| Mouse, `drivers/mouse.c` | packet under way | interrupt handler | IRQ12; scrolls the VGA view |
| Serial, RTC | none | | |
| `kmain`, shell | | boot order, idle loop, session loop, commands | all of the above |

What is hard in it:

* **Preemption.** A tick may come between any two instructions outside
  `irq_save`/`irq_restore`, in particular between a task's change of its own
  state and its `int 0x30`, and while the shell holds a pointer to a task.
* **Power cuts and I/O errors** between any two sectors of a save, an
  installation or a format, and reads that fail at boot.
* **Two authors of one disk**: installer and snapshot layer have separate rules
  for the drive and sector they use.
* **Restarts** that rebuild accounts, tree and `next_uid` from a snapshot.
* **Linked structures** changed in any order: run list, heap headers, tree.
* **One display, two writers**: the session writes and scrolls, the mouse's handler
  scrolls in the middle of it; what is mirrored cell by cell and what is repainted
  must agree, and so must the line editor's count of cells with the screen.
* **Lost bytes** on the mouse's line.

`PROJECT.json` lists the hazards line by line with the properties that cover
them.

## 2. Modules

| Module | Models | Checked by |
|---|---|---|
| `Task` | scheduler, interrupts as far as they schedule, idle loop, session, workers, tickers | `MCTask`, proofs in `TaskProofs` |
| `Persist` | snapshot layer over the ATA driver, with kmain and the shell commands that call it | `MCPersist`, `MCPersistPowerSafe`, `MCPersistErrorWrites`, proofs in `PersistProofs` |
| `Install` | extends `Persist` by installer, boot medium and boot from disk | `MCInstall`, `MCInstallSlaveOnly`, proofs in `InstallProofs` |
| `Heap` | the block list of the heap; implements `Allocator` | `MCHeap`, proofs in `HeapProofs` |
| `Users` | accounts, setup, login and account commands, their way through a snapshot | `MCUsers`, proofs in `UsersProofs` |
| `Ramfs` | file tree, file commands with permissions, its way through a snapshot | `MCRamfs`, `MCRamfsCwd`, proofs in `RamfsProofs` |
| `Keyboard` | decoding, ring, poll; implements `KeyQueue` | `MCKeyboard`, proofs in `KeyboardProofs` |
| `Vga` | screen, scrollback, view, video memory | as part of `Terminal` |
| `Mouse` | the wheel mouse and its handler; extends `Vga` | as part of `Terminal` |
| `Console` | line editor and history; extends `Vga` | as part of `Terminal` |
| `Terminal` | `Console` and `Mouse` on the one `Vga`, interleaved | `MCTerminal`, proofs in `TerminalProofs` |

`Allocator` and `KeyQueue` say what heap and keyboard promise their callers and
are used as refinement targets. The `MC` modules only give constants their values.

A definition with a suffix (`list_remove_Next`, `Holds_Unchecked`) is a faulty
variant of the one it is named after. No specification uses it; it shows
that the property named in its comment can fail.

### Task

`ring` is the run list read from idle along `next`; `stack` and `used` are the
stack blocks and the heap's view of them; `left[t]` is `wake_at - ticks`, cut off
at 0, so that time needs no bound; `pc[t]` says where a task's code stands.
The windows between `irq_restore` and `int 0x30` are the labels `sleep`
and `exit`; `gone` is the code behind the last yield. `task_reap` runs with
interrupts masked, but is several steps, one per task of the list. `handle` is
the local variable of `cmd_spawn`, which reads `task->id` in a step of its own.
`DeviceIrq` stands for keyboard and mouse. The session is any sequence of
sleeps (waiting for a key), yields, spawns and kills, its own kill included.

### Persist and Install

A snapshot is a sequence of payload sectors behind a superblock that stands for
its length and checksum; two different payloads are taken to have different
checksums. `io` is the `ata_write` under way: each sector is a step, and power
may fail between any two. Reads fail by choice of the boot (`bad`), writes fail
before a sector (`detected`) or by a timeout behind the last one (`late`, the
data is down but the caller is told otherwise), kmalloc fails (`nomem`).
`promised` and `attempted` are history variables: what is known to be at a
place, and what has been tried there since. Behind a successful wipe `cmd_mkfs` only
restarts the machine, so that `sealed` has nothing to refuse: `MkfsMeansFresh` is about the
wipe, its failures and the power cuts around it.

`Install` adds the boot sector and kernel sectors, the menu and the three writes
of `install_to_disk`. A machine boots from the medium or, without it, from the
first disk with a boot sector if all of its kernel sectors are there.

### Heap, Users, Ramfs, Keyboard

`Heap` keeps the headers by address, so a block that is absorbed disappears and
an overlap would be visible. A call is one step, because it runs with interrupts masked.

`Users` and `Ramfs` each take a save as whole or not done, and a restart as
finding the last one done. This is what `Persist` shows where it holds; see
section 6 for where it does not. `Users` abstracts a password's hash to the
password, `Ramfs` a name to a value; `.` and `..`, relative and absolute paths
and the walk with and without the last component are those of `walk`. A file's
contents are a member of `Data`, which tells an empty file from one that is not;
`>` and `>>` both leave contents that are not empty.

`Keyboard` has the bytes on their way as external state. The handler may run
between the two steps of `keyboard_poll`; the refinement counts the key that
`keyboard_poll` holds as the first of the queue until it is returned.

### Terminal

`Vga` keeps `screen`, the ring `back` with its head and count, and `vram` and `crtc`,
what the hardware shows. `vga_putc` masks interrupts and is one step. `vga_clear`
and the scrolling functions do not: in the session they change the state and then repaint
line by line (`paint`, which also holds `view_offset` as it was loaded before the
loop), and the handler's own repaint may come between two lines. `torn` is a history
variable for the one case in which the display then stays mixed, see section 6.

`Mouse` sends reports byte by byte and may lose one. `packet_index` is where the
driver believes to be, `sent` where the device is. Only the low four bits of a
byte matter: bit 3 and the wheel.

`Console` has the state of `console_read_line` under its names. What the editor keeps
to itself changes with the key; what it writes is put on `agenda` and worked off
one call of `vga.c` after the other, with the mouse in between. No other task reads
the editor's variables or prints, so nothing can tell the moment they change. A call
ends with Enter or Ctrl-C and another begins, the shell's own or a question's
(`Calls`). `lead` and `log` are history variables: what the line stands
behind (a prompt, or nothing once Ctrl-L cleared a question, which cannot be
asked again), and every line ever put in the history.

## 3. Runs

| Run | Instance | What it shows |
|---|---|---|
| `MCTask` | 4 slots, 3 stacks, pids to 4, sleeps of 0 and 1 ticks | run list, stacks, pids, sleep and death, the pointer of `cmd_spawn`; turns come round and nobody starves; the dead are reaped |
| `MCPersist` | 2 drives of 4 and 6 sectors, snapshots of 1 and 2 sectors, a tree of 3 that is too large, 1 write failure, any read failures | saved stays saved; restores are whole; failed saves are retried |
| `MCInstall` | 1 disk (master): boot sector, 2 kernel sectors, data area of 3 | installed systems stay bootable and start fresh; live sessions write nothing |
| `MCHeap` | 36 units, header 3, requests of 1, 4 and 9 | headers tile the heap; refinement of `Allocator` |
| `MCUsers` | table of 3, names root, ada, bob, 3 uids to give out | uids, root, login, passwd file, restore |
| `MCRamfs` | 4 nodes, paths of 2 components, `fs_abspath` limited to 2, users root and ada, saves that fail | tree, permissions, snapshot round trip |
| `MCKeyboard` | ring of 3, a letter, an arrow, shift and both ctrl keys, 2 bytes on their way | FIFO; modifiers do not stick; refinement of `KeyQueue` |
| `MCTerminal` | screen of 2 by 2, scrollback of 2, lines of 2 behind a prompt of 1, history of 3, reports of 3 bytes, 1 lost | screen and line agree, display and view agree, scrollback and history keep the last lines, the mouse driver resynchronises |
| `MCPersistPowerSafe` | 1 drive, no faults but power cuts | **violated**, section 6 |
| `MCPersistErrorWrites` | 1 drive, blank or with a snapshot, read errors | **violated**, section 6 |
| `MCInstallSlaveOnly` | the only disk is the slave | **violated**, section 6 |
| `MCRamfsCwd` | as `MCRamfs`, with writes that fail | **violated**, section 6 |

Why the bounds are enough for the cases of interest: in `MCTask` idle, the session
and two workers share the CPU, so that a worker can wait behind another one and the session
can spawn ahead of it. With three slots a scheduler that merely alternates between two
tasks would starve nobody; with four it is found out (`pick_next_Other`). Workers may
compute for ever. Slots and stacks run out and are used again (four pids for
three slots); sleeps of 0 and 1 are the boundary cases. Stacks are
handed out first fit, as by `kmalloc` (`FirstFit`), which only spares states that differ in
the names of stacks. The safety properties and `TurnsComeRound` are proved for every
number of slots (section 4). Two
snapshots without a common sector and of different lengths make every mixture
visible, and two drives every choice of `choose_location`. The
heap fits up to four blocks with both neighbours free, one or none, and remainders
just too small to split. A table of three can be full and have gaps. Four nodes
are the root, two fixed directories and one more in, above or beside
them, named like one of them, like `.` or like `..`; three in a row are one more than
`fs_abspath` keeps, so their snapshot names a wrong path and the restart drops or
moves a node. The ring of three is full with two keys.

In `MCTerminal` a prompt and a full line need two rows, so that typing, going back and
redrawing cross the edge of a row and move the screen up; the scrollback wraps,
also by a clear that brings two lines at once; the history wraps with a
different line in the slot. All characters look the same, stars and prompt included: rows
and lines are told apart by their length, and a prompt that is eaten or a
character left over shows as a wrong length. Reports have one delta instead of two.
The constraint `Bounds` keeps the product small: the
wheel is turned only until the first line is in the history (the two do not share
state), and a byte is lost only while the session waits, because a packet out of step
scrolls by some other number of lines and is otherwise like any.

`MCRamfs` does not check deadlock: once the current directory has been freed
the model stops, because the code then reads freed memory. All others
check it.

### Fairness

`Task`: the PIT fires for ever, and a tick that comes with interrupts masked stays
pending; hence strong fairness of `TimerIrq`. A task that is dispatched again and
again gets a step done, as a time slice is 10 ms: strong fairness of its steps and of the
idle loop's. What the user does at the prompt is not constrained, and neither is how long
a worker computes: `NoStarvation` must hold beside workers that never end. `DeadReaped`
(again and again nobody is dead and not reaped) assumes that again and again nobody wants
the CPU (`AllWait`: no worker is burning and the session waits for a key); without this
idle never runs, and indeed nothing is reaped.

`Persist` (`RetriedUntilSaved`): the kernel runs on, and the user goes on
entering commands (weak fairness of `Command`), since a failed save
is retried behind the next command only. At most `MaxFaults` writes fail.

## 4. Proofs

Every theorem holds for all values of the constants that satisfy the named
assumptions of its module. These say what sort of thing a constant is (a number,
a set of names) and what the code fixes: there is room for a header, the kernel's
sectors end below the data area, arrow keys are neither shift nor ctrl, names are
not empty. `PROJECT.json` lists the theorems.

### Scheduler: `TaskProofs`

For every number of slots above one, every set of stacks, every bound on pids and
every set of sleep lengths (`TaskAssumption`):

* `Spec => []I` for `TypeOK`, `RingOK`, `StackSafe`, `PidsUnique`,
  `DeadStaysGone`, `SleepHonoured` and `SpawnedPidStable`;
* `Spec => TurnsComeRound`, what keeps round robin from starving anybody: an
  interrupt on a task that stays READY brings the turn of every READY task nearer,
  a spawn puts it off by one place, and nothing else puts it off;
* `Spec => DeadOnlyReaped` (only the reap ends death) and `Spec => DispatchOK` (a
  switch goes to a READY task, to idle only if there is no other) for the steps.

The inductive invariant `IInv` (in `Task`) adds to these what they rest on:
idle is always READY and only runs the idle loop's code (`PcsOK`); a READY task
has no time left to sleep, a task at `exit` or `gone` is dead, and the running
task is READY unless it is in one of the two windows (`ReadyOK`); no id is above
`next_id` (`PidsBelow`); and the reap's loop variable is in the list.
`PidsUnique` needs `PidsBelow` because a new pid is only known to be above
`next_id`; `DeadStaysGone` needs `ReadyOK`, as a scheduler that picks READY tasks
only cannot resume a dead one.

`SpawnedPidStable` is not about the list but about time: `SpawnInv` says that
there is one session and that while it is about to report it is READY. Then
`pick_next` never chooses idle, so nothing is reaped and no slot is reused.

`TurnsComeRound` measures a task's turn by the places between `current` and it along the
list (`Away`). `pick_next` goes past tasks that are not READY only, so a switch lands at or
before the task that waits (`Nearer`); a spawn inserts one task (`PutOff`); and nothing is
unlinked while a READY task other than idle waits, since only idle reaps (`RestInv`).
Slots are finite and none is freed meanwhile, so a task is put off a bounded number of times:
`TurnsComeRound` is the variant of `NoStarvation`, whose fairness is left to TLC.

Layout: lemmas on what `InsertAt` and `RemoveAt` do element by element; on the
run list and `pick_next`; one lemma for each kind of step (a switch, a step
of the idle loop, of a task, a spawn, a kill, a reap); `NextKeeps` combines them.

### Snapshot layer: `PersistProofs`

`TypeOK`, `CommittedIsOnDisk`, `RestoresWhole` and `CleanMeansSaved`, for drives of
any size, snapshots of any length and any number of faults and power cuts
(`PersistAssumption`, `NoneAssumption`). None of them is inductive. `PInv` adds

* what the history variables have to do with the disk (`PlaceOK`): a superblock that
  is found at a place belongs to the promised snapshot or to one attempted
  there, and the promised one is stored while nothing is attempted. The first half
  is about superblocks whose payload is gone, too, and is what makes
  `RestoresWhole` inductive: an old payload may come back under an old superblock.
* how far the write under way has come (`IoOK`): it stays in its place and inside the
  drive, and its first `done` sectors are on the disk, so that a save whose
  superblock is down has its whole payload down;
* that a clean session works on the promised snapshot (`SessionOK`).

The two places of `Locs` are on different drives, so what is written to one leaves the
other alone; this is a lemma (`LocFacts`), not an assumption.

### Installer: `InstallProofs`

The specification of `Install` keeps `PInv` and with it `CommittedIsOnDisk`; and

* `LiveLeavesDisks` on every machine;
* `SystemIntact` on every machine that has a master. Without one it is false
  (`MCInstallSlaveOnly`), so the hypothesis is the exact boundary of finding 3;
* `InstalledStartsFresh` and `MkfsMeansFresh` on machines with at most one
  disk. With two they are false, as section 6 tells.

`InstallInv` adds what each of the three writes has laid down (`InstallIoOK`),
that a live session's mount has given up, so it never saves (`LiveOK`), and that
behind an installation or `mkfs` nothing is promised or attempted at the place
(`FreshOK`, `WipedOK`). `SystemOK` says that only the master is ever installed on
and that its kernel lies below the data area: `KernelLba + KernelMax <= DataLba` is what
`install.h` fixes.

### Heap: `HeapProofs`

`TypeOK`, `ListOK`, `FullyCoalesced` and the refinement of `Allocator`, for a heap of
any size and requests of any size (`HeapAssumption`). `HeapInv` is: the headers tile
the heap (`Tiles`), no two neighbours are both free, each block in use has
an owner who asked for no more than its size, and `heap_used` is the sum of
the blocks in use.

`Tiles` states that no block reaches into a later one beside the links, since from the
links alone it follows only by walking along the list. `FullyCoalesced` is the
invariant at a heap with nothing in use: two headers would give two free neighbours
(`NoGap`). `AbsorbFree` is where `kfree` needs the invariant: it merges with
either side only once, which is enough because no neighbour of a neighbour is free.

The sum is `MapThenSumSet`, a fold. That it exists, does not depend on the order and
changes by one block's weight when one block changes are the lemmas `SumsExist`
to `TotalBounded`, by induction over finite sets (below).

Refinement: a `kmalloc` maps to `Alloc`, a `kfree` to `Free`, a `kmalloc` that finds no
room to a stutter. A split or merge of free blocks must not change any block in use.

### Keyboard: `KeyboardProofs`

`ModifierInv` proves `ModifiersFollow`, for any keys and any number of bytes on their way
(`KeyboardAssumption`, `StruckAssumption`, `KeysAssumption`). The property speaks only of
a quiet wire; the invariant says what the bytes still on the wire will make of a
modifier when they are read (`Will`): the last byte about it decides, and a
byte behind a prefix is about none. Then a key struck adds a byte that agrees with `held`,
and reading a byte only moves it from `Will` into the flag. For ctrl it
is an equivalence, for shift an implication, since two keys share the flag.

`RingInv` proves `TypeOK` and the refinement of `KeyQueue` for a ring of any length: what
lies between `tail` and `head`, read around the end, is the queue, and the key
`keyboard_poll` holds is still at `tail`, as the handler drops the newest key rather than
move `tail`. The remainders of the code become a case distinction (`Around`).

### Accounts: `UsersProofs`

`TypeOK`, `UidsUnique`, `RemovalsSafe`, `AccountsSurvive` and `PasswdTruthful`, for a table
of any size (`UsersAssumption`). `UsersInv` adds that every uid is below `next_uid`, and
of the snapshot (`SavedOK`) that it is a list of distinct accounts that fits,
with its own `/etc/passwd` and a root unless it is empty. Without the latter a restart could
lose root or make `/etc/passwd` disagree.

The walk over `users_at(0) .. users_at(n - 1)` is a recursive function. Its
value is characterised once (`AccountsListed`): the accounts of the active slots in increasing order
of slot. There is only one such order (`OneOrder`), so a table and the
table a restart makes of its list have the same list (`ListOfTable`), which is
what keeps `/etc/passwd` truthful across restarts.

### Terminal: `TerminalProofs`

All properties of the composed `Terminal`, for a screen, scrollback, line buffer and
history of any size (`VgaAssumption`, `ConsoleAssumption`, `MouseAssumption`,
`VgaNullAssumption`). Only `LineOnScreen` needs `OutputsAssumption` as well.

* `MouseResynchronises`: `Spec => []Resynchronises` for reports of any length
  above one byte, any wheel movements and any number of lost bytes. The property alone
  is not inductive, because it says nothing while a quiet report is under way.
  `MouseInv` adds that then the driver either waits for a header at index 0, and
  drops what comes since none of it has bit 3, or is at least as far in its packet as the
  device is in the report, and so reaches index 0 no later than the report's end.
* `HistoryCorrect`: `Spec => []HistoryIsLog`. `HistoryInv` says what each slot holds. The
  heart of it is `SlotsApart`: two line numbers less than `HISTORY_MAX` apart have
  different remainders, so a push overwrites only the line that is no longer kept.
* `TypeCorrect`: `Spec => []TypeOK`. `EditorInv` adds what `drawn` counts, without
  which a Backspace could take it below 0.
* `DisplayMirrors`: `Spec => []Mirrors`. `Mirrors` says nothing while the session repaints.
  `VgaInv` adds (`PaintedOK`) that, unless the view was moved meanwhile, the lines above
  `paint.row` are those of the view already, and the repaint works with the current
  `view_offset`. Behind a `vga_putc` the view is at the bottom, where it is the screen
  itself (`BottomView`); therefore one cell written to both keeps them equal.
* `ScrollbackKept`: `Spec => LinesKept`. `KeepsLast(b, all, n)` says that the ring `b` holds the
  last lines of the first `n` of `all`; a push takes it from `n` to `n + 1`
  (`PushKeepsLast`). `vga_clear` pushes a whole screen in a fold, whose value is reached
  by induction over the lines (`ArchiveKeepsLast`).
* `LineOnScreen`: `Spec => []ScreenIsLine`. The property speaks of the moments when the
  session waits for a key, the invariant `TextInv` of what is still on its agenda in
  between. The session is `Editing`: of the `n` characters before the cursor the
  first `m` are the start of what is to be shown (`Standing`), and the agenda is `n - m`
  backspaces and the rest of it (`Remaining`). Or it has a scroll to do first
  (`Scrolling`), or a command's output and the next prompt (`Printing`). Each key is shown to
  leave such an agenda, each call of `vga.c` to keep it. Nothing is ever behind the
  cursor (`BlankBehind`).

  When the screen moves up under a line, its first row must not be lost. It is not if
  line and prompt leave a row of the screen over, or if the line began at the left edge
  (`AtEdge`); `OutputsAssumption` asks for one of the two. On 80 by 25 cells the first holds:
  a line is below 256 characters, and the longest prompt has a path of 256. The instance
  TLC checks has the second.

### File tree: `RamfsProofs`

`TypeOK`, `TreeOK`, `RoundTrip` and `Confined`, for a heap with room for any number of
nodes, any names, and paths and a depth limit of any length (`RamfsAssumption`). `TreeOK` is stated by the walk over
the whole tree, as the code would do it; the inductive invariant `Inv` says of each node
only what its neighbours are (`Tree`): children and parents agree (`Linked`), siblings have
different names (`Apart`), and no set of nodes goes round in a circle (`Grounded`). The
latter also gives induction from the children to their directory (`UpInduction`)
and from a directory to its children (`DownInduction`).

* `MadeKeeps`, `WriteKeeps`, `UnlinkKeeps`: creating, writing and removing make a tree of a
  tree. Removing frees what `Subtree` finds, so it must be known that this is the
  node and all that is below it, and nothing else (`SubtreeCut`).
* `SubtreePart`: a subtree is listed with each node once, directories before their
  children, siblings in their order. It is reached by adding the subtrees of the
  children one by one (`PartStep`), which have no node in common (`Disjoint`).
* `WholeTree`: from the root this is every node in use. Hence `TreeOK`, and hence a
  snapshot has fewer entries than the heap has nodes (`SnapshotFits`).
* `RestoreTree`: what is restored is a tree whatever the entries are, also truncated
  ones from below the depth limit.
* `RoundTripCorrect`: a restore of what a save would write gives the tree back. Restoring
  numbers the nodes by their places in the snapshot, so the list of places is an
  isomorphism (`Listed`, `Shape`), built up round by round of the loop: the directory an
  entry goes into is there already, under the number of its place (`Reach`), has as many
  children as come before the new one (`NextPlace`), and the node is made with the next
  number (`ShapeMade`). In the end no child is missing (`KidsSame`), and paths
  (`PathsSame`) and the order of the whole walk (`SubtreeSame`) are those of the tree saved.

  This needs that every file, and every directory with children, can be found by
  its path, although `mkdir .` makes a node no path finds (`ramfs.c:97-101`). `DotInv` says
  that such a node is an empty directory, in the tree and in the snapshot, and that nobody is
  in one: a file is only made under a new path, which cannot end in "." or ".." (`NewName`).
* `ConfinedCorrect`: a user other than root changes only nodes in the home directory
  or in `/tmp`. `may_write` resolves the path and looks at where the node really is;
  `fs_create` walks again. The two agree (`MayWriteNew`), also when the last component is
  ".." and the node looked at is above the new one. What a command does not touch stays
  where it is (`SharedPaths`), and all that `rm` frees is below what was checked
  (`UnlinkOutside`).

`RoundTrip` and `Confined` are stated for trees within reach of `fs_abspath`, and do not
hold beyond (section 6).

`Subtree`, `TruePath` and `Restore` are recursive functions and folds; that such
functions exist is proved for each (`UnderExists`, `UpsExist`, `RestoreRounds`), for the
first two by adding nodes to the set on which they are defined (`GrowInduction`).

### Induction

The library's induction theorems take an operator as a parameter, which none of the
provers used here can instantiate. `HeapProofs`, `UsersProofs`, `TerminalProofs` and
`RamfsProofs` therefore prove induction in the form of sets: a set of naturals has a least element (`LeastNumber`, from
`NatLessThanWellFounded` and `WFMin`), so a set that contains 0 and with each number the next
contains all (`SetInduction`). The sums of the heap, the walk of
the accounts, the archive of the screen and the loop of a restore are defined and computed
with it.

### Only model-checked

* Liveness (`NoStarvation`, `DeadReaped`, `RetriedUntilSaved`): the prover does
  not do fairness. The variant behind `NoStarvation` is proved.

## 5. What is abstracted or left out

* Names, messages, formatting and colours; commands that only display.
* Byte formats: snapshot records, keymap, password hash, FNV collisions.
* Buffer lengths of names and paths.
* ATA registers; a transfer's split into commands of 255 sectors. The drive
  reports its errors and honours the cache flush.
* Descriptor tables, PIC and PIT programming, boot loaders beyond "the kernel's
  sectors are all there", serial port, real time clock, build scripts.
* Of the console: colours, tabs and carriage returns, the cursor's placement in
  the boot messages, the handshake that finds the mouse, and a mouse without a
  wheel, whose packets change nothing.

## 6. Disagreements between code and documents

Shown by a run:

1. **A power cut in a save loses both snapshots** (`PowerSafe`). The payload is
   written over the old one before the superblock, so the old superblock
   refers to overwritten sectors (`persist.c:200-207`, README lines 185-186).
   The checksum detects this, and nothing is restored.
2. **A session after a failed mount writes to the disk** (`ErrorLeavesDisk`), though
   the boot says "continuing in RAM only" (`kernel.c:107`, README 187-188). The run
   starts from a whole snapshot: one read of it fails at boot, and the save of the wizard
   goes over its payload.
3. **Installed on a lone slave drive, the system overwrites itself**
   (`SystemIntact`): the snapshot goes to sector 0 of any slave (`persist.c:309`).
4. **`rm` of a directory above the current one frees the current one**
   (`CwdAlive`, `ramfs.c:224`): in the run root makes `/home/tmp`, changes into it and
   removes `/home`.

Seen while modelling, without a run of their own:

* With two drives `mkfs` wipes one snapshot and the next boot restores the other
  drive's (`persist.h:32`); likewise an installation on the master does not start
  fresh when a slave has a snapshot (`install.c:103`).
* A read error in `probe` makes `choose_location` settle on the other drive, from which an
  older snapshot is restored without a word (`persist.c:286`). It is whole, so
  `RestoresWhole` holds.
* The wizard's save is not retried if it fails: nothing is marked dirty
  (`kernel.c:127`), and `reboot` then skips saving. `CleanMeansSaved` is therefore
  stated for a session that has read or written a snapshot.
* `ata_write` does not look at ERR behind the last sector (`ata.c:192-198`).
* A disk of exactly `INSTALL_DATA_LBA + 64` sectors is accepted by the installer
  and then rejected by `choose_location` (`install.c:82`, `persist.c:316`).
* `echo` into a new file whose contents find no memory leaves the tree changed
  and not dirty (`shell.c:417-433`), until another command changes something.
* Nodes deeper than 32 are saved under a truncated path, and `may_write` is given
  the same path (`ramfs.c:289`). `RoundTrip` and `Confined` are therefore stated for
  trees within reach (`WithinReach`).
* `mkdir .` and `mkdir ..` create a node that no path reaches (`ramfs.c:97-101`).
* Releasing one of two held shift keys ends the shift (`keyboard.c:76`).
* A notch of the wheel while the session itself repaints (Page Up, `clear`, the first key
  after scrolling back) leaves a display that is partly the old view, until the next
  whole repaint: repaint works with the `view_offset` it loaded before its loop, and the
  two may also interleave their writes to the CRTC's index and data ports
  (`vga.c:55-70`). `Mirrors` excepts this case (`torn`).
* "Resynchronise after a dropped byte instead of decoding garbage forever"
  (`mouse.c:96-97`) needs a report without bit 3 behind its header. If the wheel is
  turned steadily away from the user, its byte has bit 3 in every report, and the
  driver can take it for the header each time. `Resynchronises` states what does hold.
* Ctrl-L at a question clears the question, which is not written again
  (`console.c:103`).

## 7. Plan

Done: all components of section 2 modelled and checked; all safety properties of them
proved. Next:

1. `Ramfs` with writes that fail and a statement of what `dirty` then means.
