------------------------------ MODULE Install ------------------------------
(***************************************************************************)
(* The installer of kernel/install.c, and the machine it installs: a drive *)
(* laid out as boot sector, kernel and data area, on which the snapshot    *)
(* layer of Persist then works.  The machine boots from the install medium *)
(* or, as the BIOS does, from the first drive with a boot sector.          *)
(***************************************************************************)
EXTENDS Persist

CONSTANTS
    KernelLba,   \* INSTALL_KERNEL_LBA
    KernelLen,   \* install_image_sectors()
    KernelMax    \* INSTALL_KERNEL_MAX

ASSUME InstallAssumption ==
    /\ KernelLba \in Nat \ {0}
    /\ KernelLen \in Nat \ {0}
    /\ KernelMax \in Nat
    /\ KernelLba + KernelMax <= DataLba

BootSector == [kind |-> "boot"]
KernelSector == [kind |-> "kernel"]

VARIABLES
    medium,     \* install_booted_from_medium()
    (* History. *)
    installed,  \* the drives on which install_to_disk has returned 0
    fresh       \* nothing has booted since it last did

ivars == <<medium, installed, fresh>>
allvars == <<vars, ivars>>

Installing == {"iboot", "ikernel", "iblank"}
-----------------------------------------------------------------------------
(* Booting.                                                                *)

HasBoot(d) == ata_present(d) /\ disk[d][0] = BootSector

KernelSectors(d) ==
    (KernelLba .. KernelLba + KernelLen - 1) \intersect DOMAIN disk[d]

Bootable(d) ==
    /\ HasBoot(d)
    /\ \A lba \in KernelSectors(d) : disk[d][lba] = KernelSector

\* What the BIOS starts, when there is no medium in the drive.
BootDrive == IF HasBoot("master") THEN "master" ELSE "slave"

BootDisk ==
    /\ Bootable(BootDrive)
    /\ PowerOn
    /\ medium' = FALSE
    /\ fresh' = FALSE
    /\ UNCHANGED installed

\* Does not give up the mount on the medium (LiveLeavesDisks).
BootMedium_Mounts ==
    /\ pc = "off"
    /\ pc' = "menu"
    /\ medium' = TRUE
    /\ fresh' = FALSE
    /\ ram' = None
    /\ state' = MountState(choose_location({}), {})
    /\ loc' = choose_location({})
    /\ dirty' = FALSE
    /\ sealed' = FALSE
    /\ UNCHANGED <<disk, caller, io, faults, ghosts, installed>>

\* persist_mount gives up at once and kmain goes to the installer's menu.
BootMedium ==
    /\ pc = "off"
    /\ pc' = "menu"
    /\ medium' = TRUE
    /\ fresh' = FALSE
    /\ ram' = None
    /\ state' = "NO_DISK"
    /\ dirty' = FALSE
    /\ sealed' = FALSE
    /\ UNCHANGED <<disk, loc, caller, io, faults, ghosts, installed>>
-----------------------------------------------------------------------------
(* The menu.                                                               *)

TryLive ==
    /\ pc = "menu"
    /\ pc' = "wizard"
    /\ UNCHANGED <<disk, ram, state, dirty, sealed, loc, caller, io, faults,
                   ghosts, ivars>>

MenuReboot ==
    /\ pc = "menu"
    /\ Lost
    /\ UNCHANGED <<disk, faults, ghosts, ivars>>

install_find_target == IF ata_present("master") THEN "master" ELSE "slave"

DataLoc(d) == CHOOSE l \in Locs : l.drive = d

\* install_to_disk writes three things; the writer of each is a pc.
InstallWrite(label, lba, data) ==
    /\ pc' = label
    /\ ata_write(install_find_target, lba, data)

\* The checks pass and the boot sector is on its way.
InstallBegin ==
    LET d == install_find_target IN
    /\ pc = "menu"
    /\ ata_present(d)
    /\ KernelLen <= KernelMax
    /\ Sectors[d] >= DataLba + Reserve
    /\ InstallWrite("iboot", 0, <<BootSector>>)
    /\ installed' = installed \ {d}
    /\ fresh' = FALSE
    /\ attempted' = [attempted EXCEPT ![DataLoc(d)] = @ \union {None}]
    /\ UNCHANGED <<disk, ram, state, dirty, sealed, loc, caller, faults,
                   promised, medium>>

InstallKernel ==
    /\ pc = "iboot"
    /\ ~ InFlight
    /\ InstallWrite("ikernel", KernelLba, [i \in 1 .. KernelLen |-> KernelSector])
    /\ UNCHANGED <<disk, ram, state, dirty, sealed, loc, caller, faults, ghosts,
                   ivars>>

\* Leaves the data area as it was (InstalledStartsFresh).
InstallBlank_Skipped ==
    /\ pc = "ikernel"
    /\ ~ InFlight
    /\ InstallWrite("iblank", DataLba, <<>>)
    /\ UNCHANGED <<disk, ram, state, dirty, sealed, loc, caller, faults, ghosts,
                   ivars>>

InstallBlank ==
    /\ pc = "ikernel"
    /\ ~ InFlight
    /\ InstallWrite("iblank", DataLba, <<Zero>>)
    /\ UNCHANGED <<disk, ram, state, dirty, sealed, loc, caller, faults, ghosts,
                   ivars>>

InstallDone ==
    LET d == install_find_target IN
    /\ pc = "iblank"
    /\ ~ InFlight
    /\ pc' = "menu"
    /\ io' = NoIo
    /\ installed' = installed \union {d}
    /\ fresh' = TRUE
    /\ promised' = [promised EXCEPT ![DataLoc(d)] = None]
    /\ attempted' = [attempted EXCEPT ![DataLoc(d)] = {}]
    /\ UNCHANGED <<disk, ram, state, dirty, sealed, loc, caller, faults, medium>>

\* A failed write, or no memory for the kernel's copy: the disk is left as it
\* is and the menu comes back.
InstallFails ==
    /\ pc \in Installing
    /\ WriteFails \/ (pc = "iboot" /\ ~ InFlight /\ Fault("nomem"))
    /\ pc' = "menu"
    /\ io' = NoIo
    /\ UNCHANGED <<disk, ram, state, dirty, sealed, loc, caller, ghosts, ivars>>
-----------------------------------------------------------------------------
InstallInit ==
    /\ Init
    /\ medium = FALSE
    /\ installed = {}
    /\ fresh = FALSE

InstallNext ==
    \/ BootDisk \/ BootMedium \/ TryLive \/ MenuReboot
    \/ InstallBegin \/ InstallKernel \/ InstallBlank \/ InstallDone
    \/ InstallFails
    \/ (KernelStep \/ UserStep \/ PowerLoss) /\ UNCHANGED ivars

InstallSpec == InstallInit /\ [][InstallNext]_allvars
-----------------------------------------------------------------------------
(* Properties.                                                             *)

\* A session started from the install medium writes to no disk, whatever the
\* user does in it; only a confirmed installation does ("a live session must
\* not start writing to somebody's hard disk on its own", persist.c:26-28).
LiveLeavesDisks ==
    [][medium /\ pc \notin Installing => disk' = disk]_allvars

\* An installed system stays bootable: no save, mkfs, crash or later
\* installation attempt elsewhere overwrites its boot sector or its kernel
\* ("the data area begins far enough past it", install.h:7-9).
SystemIntact == \A d \in installed : Bootable(d)

\* "the installed system comes up in first time setup rather than trying to
\* read somebody else's leftovers" (install.c:103).
InstalledStartsFresh == fresh => Snapshot(choose_location({})) = None
=============================================================================
