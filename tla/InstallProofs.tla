---------------------------- MODULE InstallProofs ----------------------------
(***************************************************************************)
(* Proofs about the installer and the systems it installs, for disks and   *)
(* kernels of any size.  Two of the theorems are about machines with one   *)
(* disk and one about machines with a master: on others the properties do  *)
(* not hold.                                                               *)
(***************************************************************************)
EXTENDS Install, PersistProofs

-----------------------------------------------------------------------------
(* The inductive invariant.                                                *)

Target == install_find_target

\* Boot sector and the first n sectors of the kernel are on the disk.
Laid(d, n) ==
    /\ disk[d][0] = BootSector
    /\ \A i \in 0 .. n - 1 : disk[d][KernelLba + i] = KernelSector

\* Boot sector, kernel and data area of d do not overlap.
Roomy(d) == KernelLen <= KernelMax /\ Sectors[d] >= DataLba + Reserve

InstallPcOK ==
    pc \in {"off", "wizard", "shell", "flush", "restart", "menu"} \union Writing \union Installing

\* The installer's writes, in their order.
InstallIoOK ==
    /\ pc = "menu" => io = NoIo
    /\ pc \in Installing =>
        /\ io.drive = Target /\ ata_present(Target) /\ Roomy(Target)
        /\ attempted[DataLoc(Target)] # {}
    /\ pc = "iboot" =>
        /\ io.lba = 0 /\ io.data = <<BootSector>>
        /\ io.done # 0 => disk[Target][0] = BootSector
    /\ pc = "ikernel" =>
        /\ io.lba = KernelLba /\ io.data = [i \in 1 .. KernelLen |-> KernelSector]
        /\ io.done \in 0 .. KernelLen /\ Laid(Target, io.done)
    /\ pc = "iblank" =>
        /\ io.lba = DataLba /\ io.data = <<Zero>>
        /\ Laid(Target, KernelLen)
        /\ io.done # 0 => disk[Target][DataLba] = Zero

\* A session from the medium has given up the mount, so it never saves.
LiveOK ==
    /\ pc \in {"menu"} \union Installing => medium
    /\ medium => state = "NO_DISK" /\ pc \notin Writing \union {"restart"}

\* Behind an installation nothing has been saved.
FreshOK ==
    fresh => /\ medium /\ pc \notin Installing
             /\ promised[DataLoc(Target)] = None /\ attempted[DataLoc(Target)] = {}

\* A wiped place has nothing to restore.
WipedOK ==
    pc = "restart" =>
        ata_present(loc.drive) /\ promised[loc] = None /\ attempted[loc] = {}

InstallInv ==
    PInv /\ InstallPcOK /\ InstallIoOK /\ LiveOK /\ FreshOK /\ WipedOK

\* With a master, it is the only disk that is ever installed on, and its
\* system is complete.
SystemOK ==
    /\ installed \subseteq {"master"}
    /\ installed # {} => Roomy("master") /\ Laid("master", KernelLen) /\ pc \notin Installing
-----------------------------------------------------------------------------
(* Drives, places and sectors.                                             *)

\* Every drive has one place, and the installer's target is a drive.
LEMMA DataLocFacts ==
    /\ \A d \in Drives : DataLoc(d) \in Locs /\ DataLoc(d).drive = d
    /\ Target \in Drives
<1>1. ASSUME NEW d \in Drives PROVE \E l \in Locs : l.drive = d
  BY DEF Drives, Locs, SlaveLoc, MasterLoc
<1>2. ASSUME NEW d \in Drives PROVE DataLoc(d) \in Locs /\ DataLoc(d).drive = d
  BY <1>1 DEF DataLoc
<1>. QED
  BY <1>2 DEF Target, install_find_target, Drives

\* The place of a drive is its data area, or the start of the slave.
LEMMA DataLocBase ==
    \A d \in Drives : DataLoc(d).base = IF d = "master" THEN DataLba ELSE 0
<1> SUFFICES ASSUME NEW d \in Drives
             PROVE  DataLoc(d).base = IF d = "master" THEN DataLba ELSE 0
  OBVIOUS
<1>1. DataLoc(d) \in {SlaveLoc, MasterLoc} /\ DataLoc(d).drive = d
  BY DataLocFacts DEF Locs
<1>. QED
  BY <1>1 DEF Drives, SlaveLoc, MasterLoc

\* The installer's sectors are no superblocks.
LEMMA InstallSectors ==
    /\ BootSector \in Sector /\ KernelSector \in Sector /\ BootSector # Zero
    /\ \A c \in Contents : Super(c) # BootSector /\ Super(c) # KernelSector /\ Super(c) # Zero
<1>1. BootSector.kind = "boot" /\ KernelSector.kind = "kernel" /\ Zero.kind = "zero"
  BY DEF BootSector, KernelSector, Zero
<1>2. /\ BootSector \in [kind : {"zero", "other", "boot", "kernel"}]
      /\ KernelSector \in [kind : {"zero", "other", "boot", "kernel"}]
  BY DEF BootSector, KernelSector
<1>3. BootSector \in Sector /\ KernelSector \in Sector
  BY <1>2 DEF Sector
<1>. QED
  BY <1>1, <1>3, SectorFacts

\* The kernel's copy is a sequence of sectors.
LEMMA KernelImage ==
    /\ [i \in 1 .. KernelLen |-> KernelSector] \in Seq(Sector)
    /\ Len([i \in 1 .. KernelLen |-> KernelSector]) = KernelLen
    /\ KernelLen \in Nat
<1> DEFINE image == [i \in 1 .. KernelLen |-> KernelSector]
<1>1. KernelLen \in Nat
  BY InstallAssumption
<1>2. image \in [1 .. KernelLen -> Sector]
  BY InstallSectors
<1>3. image \in Seq(Sector)
  BY <1>1, <1>2, SeqDef
<1>4. Len(image) = KernelLen
  BY <1>1, <1>2, <1>3, LenProperties
<1>. QED
  BY <1>1, <1>3, <1>4

\* On a disk with room for it, the kernel lies between the boot sector and
\* the data area.
LEMMA Layout ==
    ASSUME NEW d, Roomy(d), Sectors[d] \in Nat
    PROVE  /\ 0 \in 0 .. Sectors[d] - 1 /\ DataLba \in 0 .. Sectors[d] - 1 /\ DataLba # 0
           /\ \A i \in 0 .. KernelLen - 1 :
                /\ KernelLba + i \in 0 .. Sectors[d] - 1
                /\ KernelLba + i # 0 /\ KernelLba + i < DataLba
BY InstallAssumption, PersistAssumption DEF Roomy
-----------------------------------------------------------------------------
(* The installer's steps and the snapshot layer's invariant.               *)

\* While the installer works, only the history and the driver move.
LEMMA InstallerKeeps ==
    ASSUME PInv, InstallPcOK',
           pc' \in {"menu"} \union Installing,
           UNCHANGED <<disk, ram, state, dirty, sealed, loc, caller, promised>>,
           io' \in [drive : Drives, lba : Nat, data : Seq(Sector), done : Nat],
           faults' \in 0 .. MaxFaults,
           attempted' \in [Locs -> SUBSET (Contents \union {None})],
           \A l \in Locs : attempted[l] \subseteq attempted'[l]
    PROVE  PInv'
<1>1. Types'
  BY DEF PInv, Types
<1>2. PlacesOK'
  BY PlacesStay DEF PInv
<1>3. IoOK' /\ SessionOK'
  BY DEF IoOK, SessionOK, Writing, Installing
<1>. QED
  BY <1>1, <1>2, <1>3 DEF PInv

\* A sector of the installer's destroys no snapshot but the one it is meant
\* to.
LEMMA InstallWritePlaces ==
    ASSUME PInv, WriteSector, io.drive = Target, attempted[DataLoc(Target)] # {},
           io.data[io.done + 1] \in {BootSector, KernelSector, Zero}
    PROVE  PlacesOK'
<1>1. /\ \A d \in Drives : d # io.drive => disk'[d] = disk[d]
      /\ \A x \in 0 .. Sectors[io.drive] - 1 :
            disk'[io.drive][x] = IF x = io.lba + io.done THEN io.data[io.done + 1]
                                 ELSE disk[io.drive][x]
  BY OneSector DEF PInv
<1>2. promised' = promised /\ attempted' = attempted
  BY DEF WriteSector, ghosts
<1> SUFFICES ASSUME NEW l \in Locs PROVE PlaceOK(l)'
  BY DEF PlacesOK
<1>3. CASE l.drive # Target
  <2>1. disk'[l.drive] = disk[l.drive]
    BY <1>1, <1>3, LocFacts
  <2>. QED
    BY <1>2, <2>1, PlaceStays DEF PInv, PlacesOK
<1>4. CASE l.drive = Target
  <2>1. l = DataLoc(Target)
    BY <1>4, LocFacts, DataLocFacts
  <2>2. ASSUME NEW c \in Contents, InBounds(l.drive, l.base, 1), disk'[l.drive][l.base] = Super(c)
        PROVE  disk[l.drive][l.base] = Super(c)
    <3>1. l.base \in 0 .. Sectors[l.drive] - 1
      BY <2>2, LocFacts DEF InBounds
    <3>2. io.data[io.done + 1] # Super(c)
      BY InstallSectors
    <3>. QED
      BY <1>1, <1>4, <2>2, <3>1, <3>2
  <2>. QED
    BY <1>2, <2>1, <2>2 DEF PInv, PlacesOK, PlaceOK, InBounds
<1>. QED
  BY <1>3, <1>4

\* One sector of the installer's.
LEMMA InstallWriteKeeps ==
    ASSUME InstallInv, WriteSector, pc \in Installing, UNCHANGED ivars
    PROVE  InstallInv'
<1>1. PICK d \in Drives, n \in Nat : d = Target /\ n = io.done
  BY DataLocFacts DEF InstallInv, PInv, Types
<1>2. /\ io.drive = d /\ Roomy(d) /\ attempted[DataLoc(d)] # {} /\ ata_present(d)
      /\ medium /\ ~ fresh
  BY <1>1 DEF InstallInv, InstallIoOK, LiveOK, FreshOK
<1>3. /\ Types'
      /\ \A x \in 0 .. Sectors[d] - 1 :
            disk'[d][x] = IF x = io.lba + n THEN io.data[n + 1] ELSE disk[d][x]
  BY <1>1, <1>2, OneSector DEF InstallInv, PInv
<1>4. /\ UNCHANGED <<ram, state, dirty, sealed, loc, pc, caller, faults, promised, attempted>>
      /\ UNCHANGED <<medium, installed, fresh>>
  BY DEF WriteSector, ghosts, ivars
<1>5. io'.drive = d /\ io'.lba = io.lba /\ io'.data = io.data /\ io'.done = n + 1
  BY <1>1, <1>2 DEF WriteSector, InstallInv, PInv, Types
<1>6. Sectors[d] \in Nat
  BY LocFacts
<1>7. IoOK' /\ SessionOK' /\ LiveOK' /\ FreshOK' /\ WipedOK' /\ InstallPcOK'
  BY <1>2, <1>4 DEF IoOK, SessionOK, LiveOK, FreshOK, WipedOK, InstallPcOK, InstallInv,
     Writing, Installing
<1>8. ASSUME io.data[n + 1] \in {BootSector, KernelSector, Zero}
      PROVE  PInv'
  BY <1>1, <1>2, <1>3, <1>7, <1>8, InstallWritePlaces DEF PInv, InstallInv
<1>9. CASE pc = "iboot"
  <2>1. io.lba = 0 /\ io.data = <<BootSector>> /\ n = 0 /\ io.data[n + 1] = BootSector
    BY <1>1, <1>9 DEF InstallInv, InstallIoOK, WriteSector, InFlight
  <2>2. disk'[d][0] = BootSector
    BY <1>2, <1>3, <1>6, <2>1, Layout
  <2>3. InstallIoOK'
    BY <1>1, <1>2, <1>4, <1>5, <1>9, <2>1, <2>2 DEF InstallIoOK, Installing, Target
  <2>. QED
    BY <1>7, <1>8, <2>1, <2>3 DEF InstallInv
<1>10. CASE pc = "ikernel"
  <2>1. /\ io.lba = KernelLba /\ io.data = [i \in 1 .. KernelLen |-> KernelSector]
        /\ n \in 0 .. KernelLen /\ Laid(d, n)
    BY <1>1, <1>10 DEF InstallInv, InstallIoOK
  <2>2. n \in 0 .. KernelLen - 1 /\ io.data[n + 1] = KernelSector /\ n + 1 \in 0 .. KernelLen
    <3>1. n < KernelLen
      BY <1>1, <2>1, KernelImage DEF WriteSector, InFlight
    <3>. QED
      BY <2>1, <3>1, KernelImage
  <2>3. KernelLba \in Nat /\ KernelLen \in Nat
    BY InstallAssumption
  <2>4. Laid(d, n + 1)'
    <3>1. disk'[d][0] = BootSector
      <4>1. KernelLba + n # 0 /\ 0 \in 0 .. Sectors[d] - 1
        BY <1>2, <1>6, <2>2, Layout
      <4>. QED
        BY <1>3, <2>1, <4>1 DEF Laid
    <3>2. ASSUME NEW i \in 0 .. n PROVE disk'[d][KernelLba + i] = KernelSector
      <4>1. KernelLba + i \in 0 .. Sectors[d] - 1
        <5>1. i \in 0 .. KernelLen - 1
          BY <2>2, <2>3
        <5>. QED
          BY <1>2, <1>6, <5>1, Layout
      <4>2. CASE i = n
        BY <1>3, <2>1, <2>2, <4>1, <4>2
      <4>3. CASE i # n
        <5>1. KernelLba + i # KernelLba + n /\ i \in 0 .. n - 1
          BY <2>3, <4>3
        <5>. QED
          BY <1>3, <2>1, <4>1, <5>1 DEF Laid
      <4>. QED
        BY <4>2, <4>3
    <3>3. \A i \in 0 .. (n + 1) - 1 : i \in 0 .. n
      OBVIOUS
    <3>. QED
      BY <3>1, <3>2, <3>3 DEF Laid
  <2>5. Laid(Target, io.done)'
    BY <1>1, <1>5, <2>4 DEF Laid, Target
  <2>6. InstallIoOK'
    BY <1>1, <1>2, <1>4, <1>5, <1>10, <2>1, <2>2, <2>5 DEF InstallIoOK, Installing, Target
  <2>. QED
    BY <1>7, <1>8, <2>2, <2>6 DEF InstallInv
<1>11. CASE pc = "iblank"
  <2>0. io.lba = DataLba /\ io.data = <<Zero>> /\ Laid(d, KernelLen)
    BY <1>1, <1>11 DEF InstallInv, InstallIoOK
  <2>1. /\ io.lba = DataLba /\ io.data = <<Zero>> /\ n = 0 /\ io.data[n + 1] = Zero
        /\ Laid(d, KernelLen)
    BY <1>1, <2>0 DEF WriteSector, InFlight
  <2>2. disk'[d][DataLba] = Zero
    BY <1>2, <1>3, <1>6, <2>1, Layout, PersistAssumption
  <2>3. Laid(d, KernelLen)'
    <3>1. disk'[d][0] = BootSector
      BY <1>2, <1>3, <1>6, <2>1, Layout, PersistAssumption DEF Laid
    <3>2. ASSUME NEW i \in 0 .. KernelLen - 1 PROVE disk'[d][KernelLba + i] = KernelSector
      <4>1. /\ KernelLba + i \in 0 .. Sectors[d] - 1 /\ KernelLba + i < DataLba
            /\ KernelLba \in Nat /\ DataLba \in Nat
        BY <1>2, <1>6, Layout, InstallAssumption, PersistAssumption
      <4>2. KernelLba + i # DataLba + n
        BY <2>1, <4>1
      <4>. QED
        BY <1>3, <2>1, <4>1, <4>2 DEF Laid
    <3>. QED
      BY <3>1, <3>2 DEF Laid
  <2>4. InstallIoOK'
    <3>1. Laid(Target, KernelLen)'
      BY <1>1, <2>3 DEF Target
    <3>. QED
      BY <1>1, <1>2, <1>4, <1>5, <1>11, <2>1, <2>2, <3>1 DEF InstallIoOK, Installing, Target
  <2>. QED
    BY <1>7, <1>8, <2>1, <2>4 DEF InstallInv
<1>. QED
  BY <1>9, <1>10, <1>11 DEF Installing

\* The installed system starts.
LEMMA BootDiskKeeps == ASSUME InstallInv, BootDisk PROVE InstallInv'
<1>1. PICK bad : Boot(bad)
  BY DEF BootDisk, PowerOn
<1>2. PInv'
  BY <1>1, BootKeeps DEF InstallInv
<1>3. pc' \in {"shell", "wizard"} /\ medium' = FALSE /\ fresh' = FALSE
  BY <1>1 DEF Boot, BootDisk
<1>. QED
  BY <1>2, <1>3 DEF InstallInv, InstallPcOK, InstallIoOK, LiveOK, FreshOK, WipedOK,
     Writing, Installing

\* A boot from the medium gives up the mount.
LEMMA BootMediumKeeps == ASSUME InstallInv, BootMedium PROVE InstallInv'
<1>1. /\ pc = "off" /\ pc' = "menu" /\ medium' = TRUE /\ fresh' = FALSE /\ ram' = None
      /\ state' = "NO_DISK" /\ dirty' = FALSE /\ sealed' = FALSE
      /\ UNCHANGED <<disk, loc, caller, io, faults, promised, attempted>>
  BY DEF BootMedium, ghosts
<1>2. io' = NoIo
  BY <1>1 DEF InstallInv, PInv, IoOK
<1>3. Types'
  BY <1>1 DEF InstallInv, PInv, Types
<1>4. PlacesOK'
  BY <1>1, PlacesStay DEF InstallInv, PInv
<1>5. IoOK' /\ SessionOK'
  BY <1>1 DEF IoOK, SessionOK, Writing
<1>. QED
  BY <1>1, <1>2, <1>3, <1>4, <1>5 DEF PInv, InstallInv, InstallPcOK, InstallIoOK, LiveOK,
     FreshOK, WipedOK, Writing, Installing

\* A live session begins without a mount.
LEMMA TryLiveKeeps == ASSUME InstallInv, TryLive PROVE InstallInv'
<1>1. /\ pc = "menu" /\ pc' = "wizard" /\ io' = NoIo /\ medium /\ state = "NO_DISK"
      /\ UNCHANGED <<disk, ram, state, dirty, sealed, loc, caller, io, faults, promised,
                     attempted, medium, installed, fresh>>
  BY DEF TryLive, ghosts, ivars, InstallInv, InstallIoOK, LiveOK
<1>2. Types'
  BY <1>1 DEF InstallInv, PInv, Types
<1>3. PlacesOK'
  BY <1>1, PlacesStay DEF InstallInv, PInv
<1>4. IoOK' /\ SessionOK'
  BY <1>1 DEF IoOK, SessionOK, Writing
<1>. QED
  BY <1>1, <1>2, <1>3, <1>4 DEF PInv, InstallInv, InstallPcOK, InstallIoOK, LiveOK,
     FreshOK, WipedOK, Writing, Installing

\* A restart from the menu.
LEMMA MenuRebootKeeps == ASSUME InstallInv, MenuReboot PROVE InstallInv'
<1>1. /\ pc = "menu" /\ pc' = "off" /\ state' = "NO_DISK"
      /\ UNCHANGED <<promised, attempted, medium, installed, fresh>>
  BY DEF MenuReboot, Lost, ghosts, ivars
<1>2. PInv'
  BY LostKeeps DEF MenuReboot, InstallInv
<1>. QED
  BY <1>1, <1>2 DEF InstallInv, InstallPcOK, InstallIoOK, LiveOK, FreshOK, WipedOK,
     Writing, Installing

\* The installer begins with the boot sector of its target.
LEMMA InstallBeginKeeps == ASSUME InstallInv, InstallBegin PROVE InstallInv'
<1>1. /\ pc = "menu" /\ pc' = "iboot" /\ ata_present(Target) /\ Roomy(Target) /\ fresh' = FALSE
      /\ io' = [drive |-> Target, lba |-> 0, data |-> <<BootSector>>, done |-> 0]
      /\ attempted' = [attempted EXCEPT ![DataLoc(Target)] = @ \union {None}]
      /\ UNCHANGED <<disk, ram, state, dirty, sealed, loc, caller, faults, promised, medium>>
  BY DEF InstallBegin, InstallWrite, ata_write, Target, Roomy
<1>2. DataLoc(Target) \in Locs /\ Target \in Drives
  BY DataLocFacts
<1>3. /\ attempted' \in [Locs -> SUBSET (Contents \union {None})]
      /\ attempted'[DataLoc(Target)] # {}
      /\ \A l \in Locs : attempted[l] \subseteq attempted'[l]
  BY <1>1, <1>2 DEF InstallInv, PInv, Types
<1>4. io' \in [drive : Drives, lba : Nat, data : Seq(Sector), done : Nat]
  BY <1>1, <1>2, InstallSectors
<1>5. InstallPcOK' /\ faults' \in 0 .. MaxFaults
  BY <1>1 DEF InstallPcOK, Installing, InstallInv, PInv, Types
<1>6. PInv'
  BY <1>1, <1>3, <1>4, <1>5, InstallerKeeps DEF InstallInv, Installing
<1>7. InstallIoOK'
  BY <1>1, <1>3 DEF InstallIoOK, Installing, Target
<1>8. LiveOK' /\ FreshOK' /\ WipedOK'
  BY <1>1 DEF InstallInv, LiveOK, FreshOK, WipedOK, Writing, Installing
<1>. QED
  BY <1>5, <1>6, <1>7, <1>8 DEF InstallInv

\* The boot sector is down when the kernel's write begins.
LEMMA InstallKernelKeeps == ASSUME InstallInv, InstallKernel PROVE InstallInv'
<1> DEFINE image == [i \in 1 .. KernelLen |-> KernelSector]
<1>1. /\ pc = "iboot" /\ pc' = "ikernel" /\ ~ InFlight
      /\ io' = [drive |-> Target, lba |-> KernelLba, data |-> image, done |-> 0]
      /\ UNCHANGED <<disk, ram, state, dirty, sealed, loc, caller, faults, promised, attempted,
                     medium, installed, fresh>>
  BY DEF InstallKernel, InstallWrite, ata_write, Target, ghosts, ivars
<1>2. disk[Target][0] = BootSector
  <2>1. io.data = <<BootSector>> /\ io.done \in Nat
    BY <1>1 DEF InstallInv, InstallIoOK, PInv, Types
  <2>2. io.done # 0
    BY <1>1, <2>1 DEF InFlight
  <2>. QED
    BY <1>1, <2>2 DEF InstallInv, InstallIoOK
<1>3. io' \in [drive : Drives, lba : Nat, data : Seq(Sector), done : Nat]
  <2>1. KernelLba \in Nat
    BY InstallAssumption
  <2>. QED
    BY <1>1, <2>1, KernelImage, DataLocFacts
<1>4. InstallPcOK' /\ faults' \in 0 .. MaxFaults
  BY <1>1 DEF InstallPcOK, Installing, InstallInv, PInv, Types
<1>5. PInv'
  <2>1. attempted' \in [Locs -> SUBSET (Contents \union {None})]
    BY <1>1 DEF InstallInv, PInv, Types
  <2>. QED
    BY <1>1, <1>3, <1>4, <2>1, InstallerKeeps DEF InstallInv, Installing
<1>6. InstallIoOK'
  <2>1. io'.drive = Target /\ io'.lba = KernelLba /\ io'.data = image /\ io'.done = 0
    BY <1>1
  <2>2. Laid(Target, io.done)'
    BY <1>1, <1>2, <2>1 DEF Laid, Target
  <2>3. 0 \in 0 .. KernelLen
    BY KernelImage
  <2>. QED
    BY <1>1, <2>1, <2>2, <2>3 DEF InstallInv, InstallIoOK, Installing, Target
<1>7. LiveOK' /\ FreshOK' /\ WipedOK'
  BY <1>1 DEF InstallInv, LiveOK, FreshOK, WipedOK, Writing, Installing
<1>. QED
  BY <1>4, <1>5, <1>6, <1>7 DEF InstallInv

\* The kernel is down when the data area's first sector is blanked.
LEMMA InstallBlankKeeps == ASSUME InstallInv, InstallBlank PROVE InstallInv'
<1>1. /\ pc = "ikernel" /\ pc' = "iblank" /\ ~ InFlight
      /\ io' = [drive |-> Target, lba |-> DataLba, data |-> <<Zero>>, done |-> 0]
      /\ UNCHANGED <<disk, ram, state, dirty, sealed, loc, caller, faults, promised, attempted,
                     medium, installed, fresh>>
  BY DEF InstallBlank, InstallWrite, ata_write, Target, ghosts, ivars
<1>2. Laid(Target, KernelLen)
  <2>1. /\ io.data = [i \in 1 .. KernelLen |-> KernelSector]
        /\ io.done \in 0 .. KernelLen /\ Laid(Target, io.done)
    BY <1>1 DEF InstallInv, InstallIoOK
  <2>2. io.done = KernelLen
    BY <1>1, <2>1, KernelImage DEF InFlight
  <2>. QED
    BY <2>1, <2>2
<1>3. io' \in [drive : Drives, lba : Nat, data : Seq(Sector), done : Nat]
  <2>1. DataLba \in Nat
    BY PersistAssumption
  <2>. QED
    BY <1>1, <2>1, SectorFacts, DataLocFacts
<1>4. InstallPcOK' /\ faults' \in 0 .. MaxFaults
  BY <1>1 DEF InstallPcOK, Installing, InstallInv, PInv, Types
<1>5. PInv'
  <2>1. attempted' \in [Locs -> SUBSET (Contents \union {None})]
    BY <1>1 DEF InstallInv, PInv, Types
  <2>. QED
    BY <1>1, <1>3, <1>4, <2>1, InstallerKeeps DEF InstallInv, Installing
<1>6. InstallIoOK'
  <2>1. io'.drive = Target /\ io'.lba = DataLba /\ io'.data = <<Zero>> /\ io'.done = 0
    BY <1>1
  <2>2. Laid(Target, KernelLen)'
    BY <1>1, <1>2 DEF Laid, Target
  <2>. QED
    BY <1>1, <2>1, <2>2 DEF InstallInv, InstallIoOK, Installing, Target
<1>7. LiveOK' /\ FreshOK' /\ WipedOK'
  BY <1>1 DEF InstallInv, LiveOK, FreshOK, WipedOK, Writing, Installing
<1>. QED
  BY <1>4, <1>5, <1>6, <1>7 DEF InstallInv

\* The blank sector, or on a slave the boot sector, leaves nothing to
\* restore.
LEMMA InstallDoneKeeps == ASSUME InstallInv, InstallDone PROVE InstallInv'
<1>1. PICK d \in Drives, l \in Locs : d = Target /\ l = DataLoc(d) /\ l.drive = d
  BY DataLocFacts
<1>2. /\ pc = "iblank" /\ ~ InFlight /\ pc' = "menu" /\ io' = NoIo /\ fresh' = TRUE
      /\ promised' = [promised EXCEPT ![l] = None] /\ attempted' = [attempted EXCEPT ![l] = {}]
      /\ UNCHANGED <<disk, ram, state, dirty, sealed, loc, caller, faults, medium>>
  BY <1>1 DEF InstallDone, Target
<1>3. disk[d][0] = BootSector /\ disk[d][DataLba] = Zero
  <2>1. io.data = <<Zero>> /\ io.done \in Nat /\ Laid(d, KernelLen)
    BY <1>1, <1>2 DEF InstallInv, InstallIoOK, PInv, Types
  <2>2. io.done # 0
    BY <1>2, <2>1 DEF InFlight
  <2>. QED
    BY <1>1, <1>2, <2>1, <2>2 DEF InstallInv, InstallIoOK, Laid
<1>4. /\ promised'[l] = None /\ attempted'[l] = {}
      /\ \A m \in Locs : m # l => promised'[m] = promised[m] /\ attempted'[m] = attempted[m]
  BY <1>2 DEF InstallInv, PInv, Types
<1>5. Types'
  <2>1. io' \in [drive : Drives, lba : Nat, data : Seq(Sector), done : Nat]
    BY <1>2 DEF NoIo, Drives
  <2>. QED
    BY <1>2, <2>1 DEF InstallInv, PInv, Types
<1>6. ASSUME NEW m \in Locs PROVE PlaceOK(m)'
  <2>1. CASE m = l
    <3>1. disk[l.drive][l.base] \in {BootSector, Zero}
      BY <1>1, <1>3, DataLocBase
    <3>. QED
      BY <1>2, <1>4, <2>1, <3>1, InstallSectors DEF PlaceOK
  <2>2. CASE m # l
    <3>1. disk'[m.drive] = disk[m.drive]
      BY <1>2
    <3>. QED
      BY <1>4, <2>2, <3>1, PlaceStays DEF InstallInv, PInv, PlacesOK
  <2>. QED
    BY <2>1, <2>2
<1>7. IoOK' /\ SessionOK'
  BY <1>2 DEF IoOK, SessionOK, Writing
<1>8. PInv'
  BY <1>5, <1>6, <1>7 DEF PInv, PlacesOK
<1>9. FreshOK'
  BY <1>1, <1>2, <1>4 DEF InstallInv, LiveOK, FreshOK, Installing, Target
<1>. QED
  BY <1>2, <1>8, <1>9 DEF InstallInv, InstallPcOK, InstallIoOK, LiveOK, WipedOK,
     Writing, Installing

\* A failed write gives the menu back.
LEMMA InstallFailsKeeps == ASSUME InstallInv, InstallFails PROVE InstallInv'
<1>1. /\ pc \in Installing /\ pc' = "menu" /\ io' = NoIo
      /\ UNCHANGED <<disk, ram, state, dirty, sealed, loc, caller, promised, attempted,
                     medium, installed, fresh>>
  BY DEF InstallFails, ghosts, ivars
<1>2. faults' \in 0 .. MaxFaults
  BY FaultKeeps DEF InstallFails, WriteFails, InstallInv, PInv
<1>3. InstallPcOK' /\ io' \in [drive : Drives, lba : Nat, data : Seq(Sector), done : Nat]
  BY <1>1 DEF InstallPcOK, NoIo, Drives
<1>4. PInv'
  <2>1. attempted' \in [Locs -> SUBSET (Contents \union {None})]
    BY <1>1 DEF InstallInv, PInv, Types
  <2>. QED
    BY <1>1, <1>2, <1>3, <2>1, InstallerKeeps DEF InstallInv
<1>5. InstallIoOK' /\ LiveOK' /\ FreshOK' /\ WipedOK'
  BY <1>1 DEF InstallInv, InstallIoOK, LiveOK, FreshOK, WipedOK, Writing, Installing
<1>. QED
  BY <1>3, <1>4, <1>5 DEF InstallInv
-----------------------------------------------------------------------------
(* The snapshot layer's steps and the installer's invariant.               *)

SessionStep == KernelStep \/ UserStep \/ PowerLoss

\* Outside the installer's writes, a session from the medium touches neither
\* a disk nor what is known of it.
LEMMA LiveStep ==
    ASSUME InstallInv, medium, pc \notin Installing, SessionStep
    PROVE  /\ UNCHANGED <<disk, promised, attempted>> /\ state' = "NO_DISK"
           /\ pc' \notin Writing \union {"restart"}
<1>1. state = "NO_DISK" /\ pc \notin Writing \union {"restart"}
  BY DEF InstallInv, LiveOK
<1>2. ~ InFlight
  <2>1. io = NoIo
    BY <1>1 DEF InstallInv, InstallPcOK, InstallIoOK, PInv, IoOK
  <2>. QED
    BY <2>1 DEF InFlight, NoIo
<1>3. ASSUME NEW who, NEW c, persist_save(who, c)
      PROVE  /\ UNCHANGED <<disk, promised, attempted>> /\ state' = "NO_DISK"
             /\ pc' \notin Writing \union {"restart"}
  <2>1. SaveRefused(who, c)
    BY <1>1, <1>3 DEF persist_save, SaveBegins, MaySave
  <2>. QED
    BY <1>1, <2>1, ReturnPlaces DEF SaveRefused, ghosts, Writing
<1>4. CASE PowerLoss
  BY <1>4 DEF PowerLoss, Lost, ghosts, Writing
<1>5. CASE KernelStep
  BY <1>1, <1>2, <1>3, <1>5 DEF KernelStep, WriteSector, PayloadDone, SuperDone, SaveFails,
     WipeDone, WipeFails, Restart, Flush, ghosts, Writing
<1>6. CASE UserStep
  BY <1>1, <1>3, <1>6 DEF UserStep, Wizard, Modify, Command, Sync, Reboot, Shutdown, Mkfs,
     Lost, ghosts, Writing
<1>. QED
  BY <1>4, <1>5, <1>6 DEF SessionStep

\* Where a step of the snapshot layer leads.
LEMMA SessionPc ==
    ASSUME InstallInv, SessionStep
    PROVE  /\ pc' \in {"off", "wizard", "shell", "flush", "restart"} \union Writing \union Installing
           /\ pc' \in Installing => WriteSector /\ pc' = pc
           /\ pc' = "restart" => WipeDone
<1>1. ASSUME NEW who, NEW c, persist_save(who, c)
      PROVE  pc' \in {"off", "shell", "flush", "payload"}
  BY <1>1, ReturnPlaces DEF persist_save, SaveRefused, SaveBegins
<1>2. CASE PowerLoss
  BY <1>2 DEF PowerLoss, Lost, Writing, Installing
<1>3. CASE KernelStep
  <2>1. WriteSector => pc' = pc /\ pc # "menu" /\ pc # "restart"
    BY DEF WriteSector, InFlight, NoIo, InstallInv, InstallIoOK, PInv, IoOK
  <2>. QED
    BY <1>1, <1>3, <2>1, ReturnPlaces DEF KernelStep, PayloadDone, SuperDone, SaveFails,
       WipeDone, WipeFails, Restart, Lost, Flush, InstallInv, InstallPcOK, Writing, Installing
<1>4. CASE UserStep
  BY <1>1, <1>4 DEF UserStep, Wizard, Modify, Command, Sync, Reboot, Shutdown, Lost, Mkfs,
     Writing, Installing
<1>. QED
  BY <1>2, <1>3, <1>4 DEF SessionStep

\* The snapshot layer's steps keep the installer's invariant.
LEMMA SessionKeeps ==
    ASSUME InstallInv, SessionStep, UNCHANGED ivars
    PROVE  InstallInv'
<1>1. UNCHANGED <<medium, installed, fresh>>
  BY DEF ivars
<1>2. CASE PowerLoss
  <2>1. PInv'
    BY <1>2, LostKeeps DEF PowerLoss, InstallInv
  <2>2. pc' = "off" /\ state' = "NO_DISK" /\ UNCHANGED <<promised, attempted>>
    BY <1>2 DEF PowerLoss, Lost, ghosts
  <2>. QED
    BY <1>1, <2>1, <2>2 DEF InstallInv, InstallPcOK, InstallIoOK, LiveOK, FreshOK, WipedOK,
       Writing, Installing
<1>3. CASE pc \in Installing /\ ~ PowerLoss
  <2>1. WriteSector
    BY <1>3 DEF SessionStep, KernelStep, PayloadDone, SuperDone, SaveFails, WipeDone,
       WipeFails, Restart, Flush, UserStep, Wizard, Modify, Command, Sync, Reboot, Shutdown,
       Mkfs, Installing
  <2>. QED
    BY <1>3, <2>1, InstallWriteKeeps
<1>4. CASE pc \notin Installing /\ ~ PowerLoss
  <2>1. WriteSector => pc \in Writing
    BY <1>4 DEF WriteSector, InFlight, NoIo, InstallInv, InstallPcOK, InstallIoOK, PInv, IoOK
  <2>2. PInv'
    BY <1>4, <2>1, KernelKeeps, UserKeeps DEF SessionStep, InstallInv
  <2>3. pc' \notin Installing /\ pc' # "menu" /\ InstallPcOK'
    BY <1>4, SessionPc DEF InstallPcOK, Writing, Installing
  <2>4. InstallIoOK'
    BY <2>3 DEF InstallIoOK, Installing
  <2>5. LiveOK'
    BY <1>1, <1>4, <2>3, LiveStep DEF LiveOK
  <2>6. FreshOK'
    BY <1>1, <1>4, <2>3, LiveStep DEF InstallInv, FreshOK, Target, install_find_target,
       ata_present
  <2>7. WipedOK'
    <3> SUFFICES ASSUME pc' = "restart"
                 PROVE  (ata_present(loc.drive) /\ promised[loc] = None /\ attempted[loc] = {})'
      BY DEF WipedOK
    <3>1. PICK l \in Locs : l = loc
      BY DEF InstallInv, PInv, Types
    <3>2. WipeDone
      BY SessionPc
    <3>3. /\ loc' = l /\ promised' = [promised EXCEPT ![l] = None]
          /\ attempted' = [attempted EXCEPT ![l] = {}]
      BY <3>1, <3>2 DEF WipeDone
    <3>4. ata_present(l.drive)
      BY <3>1, <3>2 DEF WipeDone, InstallInv, PInv, IoOK, InBounds
    <3>5. promised'[l] = None /\ attempted'[l] = {}
      BY <3>3 DEF InstallInv, PInv, Types
    <3>. QED
      BY <3>3, <3>4, <3>5 DEF ata_present
  <2>. QED
    BY <2>2, <2>3, <2>4, <2>5, <2>6, <2>7 DEF InstallInv
<1>. QED
  BY <1>2, <1>3, <1>4

\* At the start no disk is being written.
LEMMA InstallInitOK == InstallInit => InstallInv
<1> SUFFICES ASSUME InstallInit PROVE InstallInv
  OBVIOUS
<1>1. PInv
  BY InitOK DEF InstallInit
<1>. QED
  BY <1>1 DEF InstallInit, Init, InstallInv, InstallPcOK, InstallIoOK, LiveOK, FreshOK,
     WipedOK, Writing, Installing

\* A step that changes nothing.
LEMMA StutterKeeps == ASSUME InstallInv, UNCHANGED allvars PROVE InstallInv'
<1>1. UNCHANGED vars /\ UNCHANGED <<disk, pc, state, loc, io, promised, attempted>>
                     /\ UNCHANGED <<medium, installed, fresh>>
  BY DEF allvars, vars, ivars
<1>2. PInv'
  <2>1. ~ WriteSector
    <3>1. io \in [drive : Drives, lba : Nat, data : Seq(Sector), done : Nat]
      BY DEF InstallInv, PInv, Types
    <3>2. WriteSector => io'.done = io.done + 1
      BY <3>1 DEF WriteSector
    <3>. QED
      BY <1>1, <3>1, <3>2
  <2>. QED
    BY <1>1, <2>1, StepKeeps DEF InstallInv
<1>. QED
  BY <1>1, <1>2 DEF InstallInv, InstallPcOK, InstallIoOK, LiveOK, FreshOK, WipedOK, Writing,
     Installing, Target, install_find_target, Roomy, Laid, ata_present

\* InstallInv is inductive.
LEMMA InstallStep == ASSUME InstallInv, [InstallNext]_allvars PROVE InstallInv'
<1>1. CASE UNCHANGED allvars
  BY <1>1, StutterKeeps
<1>2. CASE InstallNext
  BY <1>2, BootDiskKeeps, BootMediumKeeps, TryLiveKeeps, MenuRebootKeeps, InstallBeginKeeps,
     InstallKernelKeeps, InstallBlankKeeps, InstallDoneKeeps, InstallFailsKeeps, SessionKeeps
  DEF InstallNext, SessionStep
<1>. QED
  BY <1>1, <1>2
-----------------------------------------------------------------------------
(* The theorems.                                                           *)

\* The snapshot layer's and the installer's writes keep the places, the
\* installer's layout and the live session's promise, on any disks.
THEOREM InstallInvariant == InstallSpec => []InstallInv
BY InstallInitOK, InstallStep, PTL DEF InstallSpec

\* The installer disturbs no snapshot but the one its target's data area is
\* meant to lose: what was saved elsewhere stays saved (install.c:58-127).
THEOREM InstallCommitted == InstallSpec => []CommittedIsOnDisk
<1>1. InstallInv => CommittedIsOnDisk
  BY PlacesCommitted DEF InstallInv
<1>. QED
  BY <1>1, InstallInvariant, PTL

\* A session from the install medium writes to no disk until an installation
\* is confirmed (persist.c:26-28).
THEOREM LiveKeepsOff == InstallSpec => LiveLeavesDisks
<1>1. ASSUME InstallInv, [InstallNext]_allvars
      PROVE  [medium /\ pc \notin Installing => disk' = disk]_allvars
  <2> SUFFICES ASSUME InstallNext, medium, pc \notin Installing PROVE disk' = disk
    BY <1>1
  <2>1. CASE SessionStep
    BY <1>1, <2>1, LiveStep
  <2>2. CASE ~ SessionStep
    BY <2>2 DEF InstallNext, SessionStep, BootDisk, PowerOn, Boot, BootMedium, TryLive,
       MenuReboot, InstallBegin, InstallKernel, InstallBlank, InstallDone, InstallFails
  <2>. QED
    BY <2>1, <2>2
<1>. QED
  BY <1>1, InstallInvariant, PTL DEF InstallSpec, LiveLeavesDisks

\* What the snapshot layer writes on an installed master lies behind the
\* kernel.
LEMMA SnapshotsBehind ==
    ASSUME InstallInv, WriteSector, pc \notin Installing,
           Roomy("master"), Laid("master", KernelLen)
    PROVE  Laid("master", KernelLen)'
<1>1. PICK l \in Locs, n \in Nat : l = loc /\ n = io.lba + io.done
  BY DEF InstallInv, PInv, Types
<1>2. pc \in Writing
  BY DEF WriteSector, InFlight, NoIo, InstallInv, InstallPcOK, InstallIoOK, PInv, IoOK
<1>3. io.drive = l.drive /\ n >= l.base
  BY <1>1, <1>2, LocFacts DEF InstallInv, PInv, IoOK, Types, Writing
<1>4. /\ \A d \in Drives : d # l.drive => disk'[d] = disk[d]
      /\ \A x \in 0 .. Sectors[l.drive] - 1 : x # n => disk'[l.drive][x] = disk[l.drive][x]
  BY <1>1, <1>3, OneSector DEF InstallInv, PInv
<1>5. CASE l.drive # "master"
  <2>1. disk'["master"] = disk["master"]
    BY <1>4, <1>5 DEF Drives
  <2>. QED
    BY <2>1 DEF Laid
<1>6. CASE l.drive = "master"
  <2>1. n >= DataLba /\ DataLba \in Nat \ {0} /\ Sectors["master"] \in Nat
    BY <1>3, <1>6, LocFacts, PersistAssumption DEF Locs, SlaveLoc, MasterLoc, Drives
  <2>2. disk'["master"][0] = disk["master"][0]
    BY <1>4, <1>6, <2>1, Layout
  <2>3. ASSUME NEW i \in 0 .. KernelLen - 1
        PROVE  disk'["master"][KernelLba + i] = disk["master"][KernelLba + i]
    <3>1. KernelLba + i \in 0 .. Sectors["master"] - 1 /\ KernelLba + i < DataLba
      BY <2>1, Layout
    <3>2. KernelLba + i # n
      BY <2>1, <3>1
    <3>. QED
      BY <1>4, <1>6, <3>1, <3>2
  <2>. QED
    BY <2>2, <2>3 DEF Laid
<1>. QED
  BY <1>5, <1>6

\* On a machine with a master, the system installed there stays complete.
LEMMA SystemStep ==
    ASSUME Sectors["master"] > 0, InstallInv, SystemOK, [InstallNext]_allvars
    PROVE  SystemOK'
<1>1. Target = "master"
  BY DEF Target, install_find_target, ata_present
<1>2. ASSUME disk' = disk, installed' = installed, pc' \notin Installing \/ pc \in Installing
      PROVE  SystemOK'
  BY <1>2 DEF SystemOK, Roomy, Laid
<1>3. CASE UNCHANGED allvars
  BY <1>2, <1>3 DEF allvars, vars, ivars
<1>4. CASE BootDisk \/ BootMedium \/ TryLive \/ MenuReboot \/ InstallFails
  BY <1>2, <1>4 DEF BootDisk, PowerOn, Boot, BootMedium, TryLive, MenuReboot, Lost,
     InstallFails, ivars, Installing
<1>5. CASE InstallBegin
  <2>1. installed' = {}
    BY <1>1, <1>5 DEF InstallBegin, Target, SystemOK
  <2>. QED
    BY <2>1 DEF SystemOK
<1>6. CASE InstallKernel \/ InstallBlank
  BY <1>2, <1>6 DEF InstallKernel, InstallBlank, Installing, ivars
<1>7. CASE InstallDone
  <2>1. /\ installed' = installed \union {"master"} /\ pc' = "menu"
        /\ Roomy("master") /\ Laid("master", KernelLen) /\ disk' = disk
    BY <1>1, <1>7 DEF InstallDone, Target, InstallInv, InstallIoOK, Installing
  <2>2. (Roomy("master") /\ Laid("master", KernelLen))'
    BY <2>1 DEF Roomy, Laid
  <2>. QED
    BY <2>1, <2>2 DEF SystemOK, Installing
<1>8. CASE SessionStep /\ UNCHANGED ivars
  <2>1. installed' = installed
    BY <1>8 DEF ivars
  <2>2. CASE installed = {}
    BY <2>1, <2>2 DEF SystemOK
  <2>3. CASE installed # {}
    <3>1. pc' \notin Installing
      BY <1>8, <2>3, SessionPc DEF SystemOK, Installing
    <3>2. CASE WriteSector
      <4>1. Laid("master", KernelLen)'
        BY <2>3, <3>2, SnapshotsBehind DEF SystemOK
      <4>. QED
        BY <2>1, <2>3, <3>1, <4>1 DEF SystemOK, Roomy
    <3>3. CASE ~ WriteSector
      <4>1. ASSUME NEW who, NEW c, persist_save(who, c) PROVE disk' = disk
        BY <4>1 DEF persist_save, SaveRefused, SaveBegins
      <4>2. disk' = disk
        BY <1>8, <3>3, <4>1 DEF SessionStep, KernelStep, UserStep, PowerLoss, PayloadDone,
           SuperDone, SaveFails, WipeDone, WipeFails, Restart, Flush, Wizard, Modify, Command,
           Sync, Reboot, Shutdown, Mkfs
      <4>. QED
        BY <1>2, <2>1, <3>1, <4>2
    <3>. QED
      BY <3>2, <3>3
  <2>. QED
    BY <2>2, <2>3
<1>. QED
  BY <1>3, <1>4, <1>5, <1>6, <1>7, <1>8 DEF InstallNext, SessionStep

\* On a machine with a master, no save, mkfs, power cut or failed write
\* damages the system installed on it (install.h:7-9); a second drive does
\* not matter.
THEOREM SystemStays == Sectors["master"] > 0 => (InstallSpec => []SystemIntact)
<1> SUFFICES ASSUME Sectors["master"] > 0 PROVE InstallSpec => []SystemIntact
  OBVIOUS
<1>1. InstallInit => SystemOK
  BY DEF InstallInit, SystemOK
<1>2. InstallInv /\ SystemOK /\ [InstallNext]_allvars => SystemOK'
  BY SystemStep
<1>3. InstallInv /\ SystemOK => SystemIntact
  <2> SUFFICES ASSUME SystemOK, NEW d \in installed PROVE Bootable(d)
    BY DEF SystemIntact
  <2>1. d = "master" /\ Roomy(d) /\ Laid(d, KernelLen)
    BY DEF SystemOK
  <2>2. ASSUME NEW lba \in KernelSectors(d) PROVE disk[d][lba] = KernelSector
    <3>1. lba \in KernelLba .. KernelLba + KernelLen - 1
      BY DEF KernelSectors
    <3>2. lba - KernelLba \in 0 .. KernelLen - 1 /\ KernelLba + (lba - KernelLba) = lba
      BY <3>1, InstallAssumption
    <3>. QED
      BY <2>1, <3>2 DEF Laid
  <2>3. ata_present(d)
    BY <2>1 DEF ata_present
  <2>. QED
    BY <2>1, <2>2, <2>3 DEF Bootable, HasBoot, Laid
<1>. QED
  BY <1>1, <1>2, <1>3, InstallInvariant, PTL DEF InstallSpec

OneDrive == Sectors["master"] = 0 \/ Sectors["slave"] = 0

\* With one drive, the place a boot settles on is the one on it.
LEMMA OnlyPlace ==
    ASSUME OneDrive
    PROVE  /\ \A l \in Locs : ata_present(l.drive) => choose_location({}) \in {l, None}
           /\ choose_location({}) \in {DataLoc(Target), None}
<1>1. /\ Locs = {SlaveLoc, MasterLoc} /\ SlaveLoc.drive = "slave" /\ MasterLoc.drive = "master"
      /\ DataLba \in Nat /\ Reserve \in Nat /\ Sectors["slave"] \in Nat /\ Sectors["master"] \in Nat
  BY PersistAssumption DEF Locs, SlaveLoc, MasterLoc, Drives
<1>2. CASE Sectors["master"] = 0
  <2>1. choose_location({}) \in {SlaveLoc, None} /\ ~ ata_present("master")
    BY <1>1, <1>2 DEF choose_location, probe, ata_present
  <2>2. Target = "slave" /\ DataLoc(Target) = SlaveLoc
    BY <1>1, <2>1, DataLocFacts DEF Target, install_find_target
  <2>. QED
    BY <1>1, <2>1, <2>2
<1>3. CASE Sectors["master"] # 0 /\ Sectors["slave"] = 0
  <2>1. choose_location({}) \in {MasterLoc, None} /\ ~ ata_present("slave") /\ ata_present("master")
    BY <1>1, <1>3 DEF choose_location, probe, ata_present
  <2>2. Target = "master" /\ DataLoc(Target) = MasterLoc
    BY <1>1, <2>1, DataLocFacts DEF Target, install_find_target
  <2>. QED
    BY <1>1, <2>1, <2>2
<1>. QED
  BY <1>2, <1>3 DEF OneDrive

\* Nothing is found where there is no place.
LEMMA NowhereIsNone == Snapshot(None) = None
BY DEF Snapshot, MountState

\* On a machine with one drive, the first boot behind an installation finds
\* no snapshot (install.c:103).
THEOREM FreshStarts == OneDrive => (InstallSpec => []InstalledStartsFresh)
<1> SUFFICES ASSUME OneDrive PROVE InstallSpec => []InstalledStartsFresh
  OBVIOUS
<1>1. InstallInv => InstalledStartsFresh
  <2> SUFFICES ASSUME InstallInv, fresh PROVE Snapshot(choose_location({})) = None
    BY DEF InstalledStartsFresh
  <2>1. promised[DataLoc(Target)] = None /\ attempted[DataLoc(Target)] = {}
    BY DEF InstallInv, FreshOK
  <2>2. Snapshot(DataLoc(Target)) = None
    BY <2>1, PlacesCommitted, DataLocFacts DEF InstallInv, CommittedIsOnDisk
  <2>. QED
    BY <2>2, OnlyPlace, NowhereIsNone
<1>. QED
  BY <1>1, InstallInvariant, PTL

\* On a machine with one drive, nothing is restored behind a mkfs
\* (persist.h:32).
THEOREM MkfsFresh == OneDrive => (InstallSpec => []MkfsMeansFresh)
<1> SUFFICES ASSUME OneDrive PROVE InstallSpec => []MkfsMeansFresh
  OBVIOUS
<1>1. InstallInv => MkfsMeansFresh
  <2> SUFFICES ASSUME InstallInv, pc = "restart" PROVE Snapshot(choose_location({})) = None
    BY DEF MkfsMeansFresh
  <2>1. ata_present(loc.drive) /\ promised[loc] = None /\ attempted[loc] = {} /\ loc \in Locs
    BY DEF InstallInv, WipedOK, PInv, Types
  <2>2. Snapshot(loc) = None
    BY <2>1, PlacesCommitted DEF InstallInv, CommittedIsOnDisk
  <2>. QED
    BY <2>1, <2>2, OnlyPlace, NowhereIsNone
<1>. QED
  BY <1>1, InstallInvariant, PTL
=============================================================================
