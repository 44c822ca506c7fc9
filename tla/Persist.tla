------------------------------ MODULE Persist ------------------------------
(***************************************************************************)
(* The snapshot layer of fs/persist.c over the polled driver of            *)
(* drivers/ata.c, with everything that calls it: kmain's mount and wizard, *)
(* the flush after every shell command, sync, mkfs, reboot and shutdown.   *)
(*                                                                         *)
(* A snapshot's payload is a sequence of blocks, one per sector.  Its      *)
(* superblock records the length and the checksum of the payload; the      *)
(* model records the payload they belong to (FNV collisions are left out), *)
(* so "the checksum matches" means "the sectors read are that payload".    *)
(* The sectors of a write reach the disk one step at a time, and power can *)
(* fail between any two steps.                                             *)
(*                                                                         *)
(* A definition named after another one with a suffix (Holds_Unchecked) is *)
(* a faulty variant that no specification uses: the property it would      *)
(* break is named in its comment.                                          *)
(***************************************************************************)
EXTENDS Integers, Sequences, FiniteSets

CONSTANTS
    Blocks,       \* what a payload sector can hold
    Contents,     \* the trees-with-accounts the session can reach, serialised
    FirstContents,\* ... and those the first time setup leaves behind
    MaxPayload,   \* MAX_PAYLOAD, in sectors
    Sectors,      \* Sectors[d]: size of drive d, 0 when there is none
    DataLba,      \* INSTALL_DATA_LBA
    Reserve,      \* the 64 sectors the data area needs at least
    Faults,       \* the kinds of failure that happen in this model
    MaxFaults,    \* bound: how many write failures happen at most
    None

Drives == {"master", "slave"}
FaultKinds == {"read", "nomem", "detected", "late"}

ASSUME PersistAssumption ==
    /\ Contents \subseteq Seq(Blocks) \ {<<>>}
    /\ None \notin Contents
    /\ FirstContents \subseteq {c \in Contents : Len(c) <= MaxPayload}
    /\ Sectors \in [Drives -> Nat]
    /\ DataLba \in Nat \ {0}
    /\ Reserve \in Nat \ {0}
    /\ MaxPayload \in Nat
    /\ Faults \subseteq FaultKinds
    /\ MaxFaults \in Nat

Zero == [kind |-> "zero"]
Super(c) == [kind |-> "super", sum |-> c]
Data(b) == [kind |-> "data", block |-> b]

\* "other" is any sector this layer did not write.
Sector == [kind : {"zero", "other", "boot", "kernel"}]
            \union {Super(c) : c \in Contents} \union {Data(b) : b \in Blocks}

\* The two places a snapshot can be at, in the order they are probed.
SlaveLoc == [drive |-> "slave", base |-> 0]
\* The data area one sector too early (SystemIntact).
MasterLoc_InKernel == [drive |-> "master", base |-> DataLba - 1]
MasterLoc == [drive |-> "master", base |-> DataLba]
Locs == {SlaveLoc, MasterLoc}

\* None is no place either.
ASSUME NoneAssumption == None \notin Locs

VARIABLES
    disk,     \* disk[d][lba]
    ram,      \* the tree and the accounts; None is the built-in skeleton
    state,    \* persist_state_t
    dirty,
    sealed,
    loc,      \* data_drive and data_base
    pc,       \* what the machine is doing
    caller,   \* who called persist_save
    io,       \* the ata_write in progress: where, what, sectors done
    faults,   \* write failures so far
    (* History: what a restore from each place may return. *)
    promised, \* the last snapshot known to be there, None if there is none
    attempted \* what was being written there since

ghosts == <<promised, attempted>>
vars == <<disk, ram, state, dirty, sealed, loc, pc, caller, io, faults,
          promised, attempted>>

Writing == {"payload", "super", "wipe"}
NoIo == [drive |-> "slave", lba |-> 0, data |-> <<>>, done |-> 0]
-----------------------------------------------------------------------------
(* The driver.                                                             *)

ata_present(d) == Sectors[d] > 0

\* transfer()'s bounds check.
InBounds(d, lba, n) == ata_present(d) /\ lba + n <= Sectors[d]

\* ata_write, when it gets past the checks.
ata_write(d, lba, data) ==
    io' = [drive |-> d, lba |-> lba, data |-> data, done |-> 0]

InFlight == io.done < Len(io.data)

\* One sector of transfer_chunk.
WriteSector ==
    /\ InFlight
    /\ disk' = [disk EXCEPT ![io.drive][io.lba + io.done] = io.data[io.done + 1]]
    /\ io' = [io EXCEPT !.done = io.done + 1]
    /\ UNCHANGED <<ram, state, dirty, sealed, loc, pc, caller, faults, ghosts>>

Fault(f) == f \in Faults /\ faults < MaxFaults /\ faults' = faults + 1

\* ata_write returns -1: on an error before the next sector, or on a timeout
\* after the last one.
WriteFails == IF InFlight THEN Fault("detected") ELSE Fault("late")
-----------------------------------------------------------------------------
(* persist_mount.  `bad` is the set of reads that fail in this boot.       *)

Reads == {"slave", "master", "super", "payload"}

\* probe(): is there one of our superblocks?
probe(l, bad) ==
    /\ ata_present(l.drive)
    /\ Sectors[l.drive] > l.base + 1
    /\ l.drive \notin bad
    /\ disk[l.drive][l.base].kind = "super"

\* The place choose_location settles on, None when there is none.
choose_location(bad) ==
    IF probe(SlaveLoc, bad) THEN SlaveLoc
    ELSE IF probe(MasterLoc, bad) THEN MasterLoc
    ELSE IF ata_present("slave") THEN SlaveLoc
    ELSE IF Sectors["master"] > DataLba + Reserve THEN MasterLoc
    ELSE None

\* The payload of n sectors at l, as it is read back.
ReadPayload(l, n) ==
    [i \in 1 .. n |-> LET s == disk[l.drive][l.base + i]
                      IN  IF s.kind = "data" THEN s.block ELSE None]

\* Does not compare the checksum (RestoresWhole).
Holds_Unchecked(l, c) == InBounds(l.drive, l.base + 1, Len(c))

\* The payload behind a superblock can be read and has its checksum.
Holds(l, c) ==
    /\ InBounds(l.drive, l.base + 1, Len(c))
    /\ ReadPayload(l, Len(c)) = c

\* The checks of persist_mount at l, and what it restores.
MountState(l, bad) ==
    IF l = None THEN "NO_DISK"
    ELSE IF "super" \in bad \/ ~ InBounds(l.drive, l.base, 1) THEN "ERROR"
    ELSE IF disk[l.drive][l.base].kind # "super" THEN "EMPTY"
    ELSE IF Len(disk[l.drive][l.base].sum) > MaxPayload THEN "ERROR"
    ELSE IF "payload" \in bad THEN "ERROR"
    ELSE IF Holds(l, disk[l.drive][l.base].sum) THEN "LOADED"
    ELSE "ERROR"

\* What a boot without read errors would find at l.
Snapshot(l) ==
    IF MountState(l, {}) = "LOADED" THEN disk[l.drive][l.base].sum ELSE None

\* Power on up to the login prompt, or up to the wizard when there are no
\* accounts.  The mount only reads, so nothing can interrupt it halfway.
Boot(bad) ==
    LET l == choose_location(bad)
        st == MountState(l, bad)
    IN  /\ pc = "off"
        /\ sealed' = FALSE
        /\ dirty' = FALSE
        /\ state' = st
        /\ loc' = IF l = None THEN SlaveLoc ELSE l
        /\ IF st = "LOADED"
           THEN LET c == ReadPayload(l, Len(disk[l.drive][l.base].sum)) IN
                /\ ram' = c
                /\ pc' = "shell"
                /\ promised' = [promised EXCEPT ![l] = c]
                /\ attempted' = [attempted EXCEPT ![l] = {}]
           ELSE /\ ram' = None
                /\ pc' = "wizard"
                /\ UNCHANGED ghosts
        /\ UNCHANGED <<disk, caller, io, faults>>

PowerOn == \E bad \in SUBSET (IF "read" \in Faults THEN Reads ELSE {}) : Boot(bad)
-----------------------------------------------------------------------------
(* persist_save.                                                           *)

\* Where the machine goes when persist_save returns.  Only the flush and the
\* sync look at the result, and only to print a message.
Return(who) ==
    CASE who = "wizard" -> "shell"
      [] who = "flush" -> "shell"
      [] who = "sync" -> "flush"
      [] OTHER -> "off"

Fits(c) ==
    /\ Len(c) <= MaxPayload
    /\ InBounds(loc.drive, loc.base + 1, Len(c))

\* Does not look at the size (CommittedIsOnDisk).
MaySave_AnySize(c) == ~ sealed /\ state # "NO_DISK"

MaySave(c) == ~ sealed /\ state # "NO_DISK" /\ Fits(c)

PayloadSectors(c) == [i \in 1 .. Len(c) |-> Data(c[i])]

\* The early returns: sealed, no disk, too large, or no memory.  c is the
\* tree at the time of the call.
SaveRefused(who, c) ==
    /\ IF MaySave(c) THEN Fault("nomem") ELSE UNCHANGED faults
    /\ pc' = Return(who)
    /\ UNCHANGED <<disk, state, sealed, loc, caller, io, ghosts>>

SaveBegins(who, c) ==
    /\ MaySave(c)
    /\ pc' = "payload"
    /\ caller' = who
    /\ ata_write(loc.drive, loc.base + 1, PayloadSectors(c))
    /\ attempted' = [attempted EXCEPT ![loc] = @ \union {c}]
    /\ UNCHANGED <<disk, state, sealed, loc, faults, promised>>

persist_save(who, c) == SaveRefused(who, c) \/ SaveBegins(who, c)

\* Leaves the checksum field of the superblock unset (TypeOK).
PayloadDone_NoSum ==
    /\ pc = "payload"
    /\ ~ InFlight
    /\ pc' = "super"
    /\ ata_write(loc.drive, loc.base, <<Super(None)>>)
    /\ UNCHANGED <<disk, ram, state, dirty, sealed, loc, caller, faults, ghosts>>

\* The payload is down: now the superblock.
PayloadDone ==
    /\ pc = "payload"
    /\ ~ InFlight
    /\ pc' = "super"
    /\ ata_write(loc.drive, loc.base, <<Super(ram)>>)
    /\ UNCHANGED <<disk, ram, state, dirty, sealed, loc, caller, faults, ghosts>>

\* Reports success without waiting for the superblock (CommittedIsOnDisk).
SuperDone_Early ==
    /\ pc = "super"
    /\ state' = "LOADED"
    /\ dirty' = FALSE
    /\ pc' = Return(caller)
    /\ io' = NoIo
    /\ promised' = [promised EXCEPT ![loc] = ram]
    /\ attempted' = [attempted EXCEPT ![loc] = {}]
    /\ UNCHANGED <<disk, ram, sealed, loc, caller, faults>>

SuperDone ==
    /\ pc = "super"
    /\ ~ InFlight
    /\ state' = "LOADED"
    /\ dirty' = FALSE
    /\ pc' = Return(caller)
    /\ io' = NoIo
    /\ promised' = [promised EXCEPT ![loc] = ram]
    /\ attempted' = [attempted EXCEPT ![loc] = {}]
    /\ UNCHANGED <<disk, ram, sealed, loc, caller, faults>>

\* Clears the dirty flag on every way out (RetriedUntilSaved).
SaveFails_Clean ==
    /\ pc \in {"payload", "super"}
    /\ WriteFails
    /\ pc' = Return(caller)
    /\ io' = NoIo
    /\ dirty' = FALSE
    /\ UNCHANGED <<disk, ram, state, sealed, loc, caller, ghosts>>

SaveFails ==
    /\ pc \in {"payload", "super"}
    /\ WriteFails
    /\ pc' = Return(caller)
    /\ io' = NoIo
    /\ UNCHANGED <<disk, ram, state, dirty, sealed, loc, caller, ghosts>>
-----------------------------------------------------------------------------
(* kmain and the shell.                                                    *)

\* The wizard creates the accounts and kmain saves them.  Nothing here marks
\* the tree dirty.
Wizard ==
    /\ pc = "wizard"
    /\ \E c \in FirstContents :
        /\ ram' = c
        /\ persist_save("wizard", c)
    /\ UNCHANGED dirty

\* Forgets persist_mark_dirty (CleanMeansSaved).
Modify_Unmarked ==
    /\ pc = "shell"
    /\ \E c \in Contents \ {ram} : ram' = c
    /\ pc' = "flush"
    /\ UNCHANGED <<disk, state, dirty, sealed, loc, caller, io, faults, ghosts>>

\* A command that changes the tree or the accounts, up to the flush.
Modify ==
    /\ pc = "shell"
    /\ \E c \in Contents \ {ram} : ram' = c
    /\ dirty' = TRUE
    /\ pc' = "flush"
    /\ UNCHANGED <<disk, state, sealed, loc, caller, io, faults, ghosts>>

\* Any other command.
Command ==
    /\ pc = "shell"
    /\ pc' = "flush"
    /\ UNCHANGED <<disk, ram, state, dirty, sealed, loc, caller, io, faults,
                   ghosts>>

\* persist_flush, behind every command.
Flush ==
    /\ pc = "flush"
    /\ IF dirty
       THEN persist_save("flush", ram)
       ELSE /\ pc' = "shell"
            /\ UNCHANGED <<disk, state, sealed, loc, caller, io, faults, ghosts>>
    /\ UNCHANGED <<ram, dirty>>

Sync ==
    /\ pc = "shell"
    /\ state # "NO_DISK"
    /\ persist_save("sync", ram)
    /\ UNCHANGED <<ram, dirty>>

\* RAM is gone.
Lost ==
    /\ pc' = "off"
    /\ ram' = None
    /\ state' = "NO_DISK"
    /\ dirty' = FALSE
    /\ sealed' = FALSE
    /\ loc' = SlaveLoc
    /\ caller' = "wizard"
    /\ io' = NoIo

Reboot ==
    /\ pc = "shell"
    /\ IF dirty
       THEN persist_save("reboot", ram) /\ UNCHANGED <<ram, dirty>>
       ELSE Lost /\ UNCHANGED <<disk, faults, ghosts>>

Shutdown ==
    /\ pc = "shell"
    /\ IF ~ sealed /\ state # "NO_DISK"
       THEN persist_save("shutdown", ram) /\ UNCHANGED <<ram, dirty>>
       ELSE Lost /\ UNCHANGED <<disk, faults, ghosts>>

PowerLoss ==
    /\ pc # "off"
    /\ Lost
    /\ UNCHANGED <<disk, faults, ghosts>>

\* Formats in RAM only (CommittedIsOnDisk).
Mkfs_InRam ==
    /\ pc = "shell"
    /\ state # "NO_DISK"
    /\ InBounds(loc.drive, loc.base, 1)
    /\ pc' = "wipe"
    /\ ata_write(loc.drive, loc.base, <<>>)
    /\ attempted' = [attempted EXCEPT ![loc] = @ \union {None}]
    /\ UNCHANGED <<disk, ram, state, dirty, sealed, loc, caller, faults,
                   promised>>

\* mkfs, confirmed: persist_format overwrites the superblock.
Mkfs ==
    /\ pc = "shell"
    /\ state # "NO_DISK"
    /\ InBounds(loc.drive, loc.base, 1)
    /\ pc' = "wipe"
    /\ ata_write(loc.drive, loc.base, <<Zero>>)
    /\ attempted' = [attempted EXCEPT ![loc] = @ \union {None}]
    /\ UNCHANGED <<disk, ram, state, dirty, sealed, loc, caller, faults,
                   promised>>

WipeFails ==
    /\ pc = "wipe"
    /\ WriteFails
    /\ pc' = "flush"
    /\ io' = NoIo
    /\ UNCHANGED <<disk, ram, state, dirty, sealed, loc, caller, ghosts>>

\* persist_format seals the layer and cmd_mkfs restarts the machine, which
\* takes machine_reboot 400 ms; only a power cut can come first.
WipeDone ==
    /\ pc = "wipe"
    /\ ~ InFlight
    /\ state' = "EMPTY"
    /\ dirty' = FALSE
    /\ sealed' = TRUE
    /\ pc' = "restart"
    /\ io' = NoIo
    /\ promised' = [promised EXCEPT ![loc] = None]
    /\ attempted' = [attempted EXCEPT ![loc] = {}]
    /\ UNCHANGED <<disk, ram, loc, caller, faults>>

\* The reset at the end of cmd_mkfs.
Restart ==
    /\ pc = "restart"
    /\ Lost
    /\ UNCHANGED <<disk, faults, ghosts>>
-----------------------------------------------------------------------------
(* Each place is blank or holds a complete snapshot when the story begins. *)

CanHold(l) ==
    {c \in Contents : Len(c) <= MaxPayload
                        /\ InBounds(l.drive, l.base + 1, Len(c))}

\* What drive d looks like with snapshot c (or none) at base.
Image(d, base, c) ==
    [lba \in 0 .. Sectors[d] - 1 |->
        IF c = None THEN [kind |-> "other"]
        ELSE IF lba = base THEN Super(c)
        ELSE IF lba - base \in 1 .. Len(c) THEN Data(c[lba - base])
        ELSE [kind |-> "other"]]

Init ==
    /\ \E s \in CanHold(SlaveLoc) \union {None},
          m \in CanHold(MasterLoc) \union {None} :
        /\ disk = [d \in Drives |-> IF d = "slave" THEN Image(d, 0, s)
                                                   ELSE Image(d, DataLba, m)]
        /\ promised = [l \in Locs |-> IF l = SlaveLoc THEN s ELSE m]
    /\ attempted = [l \in Locs |-> {}]
    /\ ram = None
    /\ state = "NO_DISK"
    /\ dirty = FALSE
    /\ sealed = FALSE
    /\ loc = SlaveLoc
    /\ pc = "off"
    /\ caller = "wizard"
    /\ io = NoIo
    /\ faults = 0

\* What the kernel does of itself.
KernelStep ==
    \/ WriteSector \/ PayloadDone \/ SuperDone \/ SaveFails
    \/ WipeDone \/ WipeFails \/ Restart \/ Flush

UserStep == Wizard \/ Modify \/ Command \/ Sync \/ Reboot \/ Shutdown \/ Mkfs

Next == PowerOn \/ KernelStep \/ UserStep \/ PowerLoss

Spec == Init /\ [][Next]_vars

\* The kernel runs on, and the user goes on typing commands.
FairSpec == Spec /\ WF_vars(KernelStep) /\ WF_vars(Command)
-----------------------------------------------------------------------------
(* Properties.                                                             *)

TypeOK ==
    /\ disk = [d \in Drives |-> disk[d]]
    /\ \A d \in Drives : disk[d] \in [0 .. Sectors[d] - 1 -> Sector]
    /\ ram \in Contents \union {None}
    /\ state \in {"NO_DISK", "EMPTY", "LOADED", "ERROR"}
    /\ dirty \in BOOLEAN
    /\ sealed \in BOOLEAN
    /\ loc \in Locs
    /\ pc \in {"off", "wizard", "shell", "flush", "restart"} \union Writing
    /\ caller \in {"wizard", "flush", "sync", "reboot", "shutdown"}
    /\ io \in [drive : Drives, lba : Nat, data : Seq(Sector), done : Nat]
    /\ faults \in 0 .. MaxFaults
    /\ promised \in [Locs -> Contents \union {None}]
    /\ attempted \in [Locs -> SUBSET (Contents \union {None})]

\* What was saved stays saved: as long as no later save or mkfs has touched
\* the place, the next boot finds there exactly what the last persist_save
\* that returned 0 wrote, or the last restore read ("Returns 0 on success",
\* persist.h:17), whatever failed or lost power elsewhere.
CommittedIsOnDisk ==
    \A l \in Locs : attempted[l] = {} => Snapshot(l) = promised[l]

\* A boot never restores a mixture of two snapshots or one that was
\* overwritten before: what it restores is the last one committed there or
\* one whose save was cut short ("a torn write is caught by the checksum",
\* persist.c:201).
RestoresWhole ==
    [][pc = "off" /\ state' = "LOADED"
         => ram' \in {promised[loc']} \union attempted[loc']]_vars

\* At the prompt, once a snapshot has been read or written, a clean flag
\* means that the disk holds what is in RAM, unless a save or a mkfs has
\* failed since: what `reboot` relies on when it skips the save (shell.c:949).
CleanMeansSaved ==
    pc = "shell" /\ state = "LOADED" /\ ~ dirty /\ attempted[loc] = {}
        => Snapshot(loc) = ram

\* A save that failed is tried again behind the next command, until it gets
\* through: if the snapshot fits, the change reaches the disk unless the
\* machine goes down first (shell.c:1196-1199).
RetriedUntilSaved ==
    \A c \in {x \in Contents : Len(x) <= MaxPayload} :
        dirty /\ ram = c /\ state # "NO_DISK" /\ Fits(c)
            ~> Snapshot(loc) = c \/ ram # c \/ pc = "off"

\* "If power is lost midway the old superblock still refers to the old
\* payload" (persist.c:200): with power off, a place that had a snapshot
\* still has a complete one, the old or the new.
PowerSafe ==
    pc = "off" => \A l \in Locs :
        promised[l] # None => Snapshot(l) \in {promised[l]} \union attempted[l]

\* "Data disk unreadable, continuing in RAM only" (kernel.c:107): while the
\* session of a failed mount runs, a snapshot that is whole on a disk stays
\* there as it is.
ErrorLeavesDisk ==
    [][state = "ERROR"
         => \A l \in Locs : Snapshot(l) # None => Snapshot(l)' = Snapshot(l)]_vars

\* persist_format "wipes the on-disk snapshot so the next boot starts from a
\* fresh system" (persist.h:32): once mkfs is done, no boot restores anything
\* until something is saved again.  (InstallProofs proves it for machines
\* with one drive; with two, the snapshot on the other one comes back.)
MkfsMeansFresh == pc = "restart" => Snapshot(choose_location({})) = None
=============================================================================
