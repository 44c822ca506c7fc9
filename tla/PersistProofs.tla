---------------------------- MODULE PersistProofs ----------------------------
(***************************************************************************)
(* Proofs about the snapshot layer, for drives of any size, snapshots of   *)
(* any length and any number of faults and power cuts.                     *)
(***************************************************************************)
EXTENDS Persist, SequenceTheorems, TLAPS

-----------------------------------------------------------------------------
(* The inductive invariant.                                                *)

Types ==
    /\ disk = [d \in Drives |-> disk[d]]
    /\ \A d \in Drives : disk[d] \in [0 .. Sectors[d] - 1 -> Sector]
    /\ ram \in Contents \union {None}
    /\ state \in {"NO_DISK", "EMPTY", "LOADED", "ERROR"}
    /\ dirty \in BOOLEAN
    /\ sealed \in BOOLEAN
    /\ loc \in Locs
    /\ caller \in {"wizard", "flush", "sync", "reboot", "shutdown"}
    /\ io \in [drive : Drives, lba : Nat, data : Seq(Sector), done : Nat]
    /\ faults \in 0 .. MaxFaults
    /\ promised \in [Locs -> Contents \union {None}]
    /\ attempted \in [Locs -> SUBSET (Contents \union {None})]

\* A superblock for c with the payload it was written for behind it.
Stored(l, c) ==
    /\ InBounds(l.drive, l.base, 1)
    /\ disk[l.drive][l.base] = Super(c)
    /\ Len(c) <= MaxPayload
    /\ Holds(l, c)

\* A superblock, wherever it is, is one the history knows of; and the
\* snapshot that was promised is there until something else is attempted.
PlaceOK(l) ==
    /\ \A c \in Contents :
        InBounds(l.drive, l.base, 1) /\ disk[l.drive][l.base] = Super(c)
            => c \in {promised[l]} \union attempted[l]
    /\ attempted[l] = {} /\ promised[l] # None => Stored(l, promised[l])

PlacesOK == \A l \in Locs : PlaceOK(l)

\* The first n blocks of c are on the disk behind the superblock's sector.
Down(c, n) == \A i \in 1 .. n : disk[loc.drive][loc.base + i] = Data(c[i])

\* The write in progress is the one its caller began, it stays inside the
\* drive, and what it has done so far is on the disk.
IoOK ==
    /\ pc \in {"off", "wizard", "shell", "flush", "restart"} => io = NoIo
    /\ pc \in Writing => io.drive = loc.drive /\ attempted[loc] # {}
    /\ pc \in {"payload", "super"} =>
        ram \in Contents /\ ram \in attempted[loc] /\ Fits(ram)
    /\ pc = "payload" =>
        /\ io.lba = loc.base + 1 /\ io.data = PayloadSectors(ram)
        /\ io.done \in 0 .. Len(ram) /\ Down(ram, io.done)
    /\ pc = "super" =>
        /\ io.lba = loc.base /\ io.data = <<Super(ram)>>
        /\ Down(ram, Len(ram))
        /\ io.done # 0 => disk[loc.drive][loc.base] = Super(ram)
    /\ pc = "wipe" =>
        /\ InBounds(loc.drive, loc.base, 1)
        /\ io.lba = loc.base /\ io.data = <<Zero>>
        /\ io.done # 0 => disk[loc.drive][loc.base] = Zero

\* A session works on a tree it can save; a clean one on the tree it last
\* saved or restored.
SessionOK ==
    /\ pc \in {"shell", "flush"} \union Writing => ram \in Contents
    /\ pc = "wizard" => state # "LOADED"
    /\ pc \in {"shell", "flush"} /\ state = "LOADED" /\ ~ dirty /\ attempted[loc] = {}
        => promised[loc] = ram

PInv == Types /\ PlacesOK /\ IoOK /\ SessionOK

-----------------------------------------------------------------------------
(* Places and sectors.                                                     *)

\* The two places are on different drives.
LEMMA LocFacts ==
    /\ \A l \in Locs : l.drive \in Drives /\ l.base \in Nat
    /\ \A l, m \in Locs : l.drive = m.drive => l = m
    /\ SlaveLoc \in Locs /\ MasterLoc \in Locs
    /\ None \notin Contents /\ None \notin Locs
    /\ \A d \in Drives : Sectors[d] \in Nat
BY PersistAssumption, NoneAssumption DEF Locs, SlaveLoc, MasterLoc, Drives

\* What kind of sector is what.
LEMMA SectorFacts ==
    /\ \A c \in Contents : Super(c) \in Sector /\ Super(c).kind = "super" /\ Super(c).sum = c
    /\ \A b \in Blocks : Data(b) \in Sector /\ Data(b).kind = "data" /\ Data(b).block = b
    /\ Zero \in Sector /\ Zero.kind = "zero"
    /\ \A s \in Sector : s.kind = "super" => s.sum \in Contents /\ s = Super(s.sum)
<1>1. /\ \A c : Super(c).kind = "super" /\ Super(c).sum = c
      /\ \A b : Data(b).kind = "data" /\ Data(b).block = b
      /\ Zero.kind = "zero"
  BY DEF Super, Data, Zero
<1>2. Zero \in [kind : {"zero", "other", "boot", "kernel"}]
  BY DEF Zero
<1>3. \A s \in [kind : {"zero", "other", "boot", "kernel"}] : s.kind # "super"
  OBVIOUS
<1>. QED
  BY <1>1, <1>2, <1>3 DEF Sector

\* A snapshot is a sequence of blocks that is not empty, and so is what is
\* written of it.
LEMMA PayloadFacts ==
    ASSUME NEW c \in Contents
    PROVE  /\ c \in Seq(Blocks) /\ Len(c) \in Nat \ {0}
           /\ \A i \in 1 .. Len(c) : c[i] \in Blocks
           /\ PayloadSectors(c) \in Seq(Sector)
           /\ Len(PayloadSectors(c)) = Len(c)
           /\ \A i \in 1 .. Len(c) : PayloadSectors(c)[i] = Data(c[i])
<1>1. c \in Seq(Blocks) /\ c # <<>>
  BY PersistAssumption
<1>2. Len(c) \in Nat \ {0} /\ \A i \in 1 .. Len(c) : c[i] \in Blocks
  BY <1>1, EmptySeq, ElementOfSeq
<1>3. PayloadSectors(c) \in [1 .. Len(c) -> Sector]
  BY <1>2, SectorFacts DEF PayloadSectors
<1>4. PayloadSectors(c) \in Seq(Sector)
  BY <1>2, <1>3, SeqDef
<1>5. Len(PayloadSectors(c)) = Len(c)
  BY <1>2, <1>3, <1>4, LenProperties
<1>. QED
  BY <1>1, <1>2, <1>4, <1>5 DEF PayloadSectors

\* The mount finds a snapshot exactly where one is stored.
LEMMA MountFinds ==
    ASSUME Types, NEW l \in Locs, NEW bad, MountState(l, bad) = "LOADED"
    PROVE  /\ disk[l.drive][l.base].sum \in Contents
           /\ Stored(l, disk[l.drive][l.base].sum)
<1> DEFINE s == disk[l.drive][l.base]
<1>1. InBounds(l.drive, l.base, 1) /\ s.kind = "super"
  BY DEF MountState, s
<1>2. s \in Sector
  BY <1>1, LocFacts DEF Types, InBounds
<1>3. s.sum \in Contents /\ s = Super(s.sum)
  BY <1>1, <1>2, SectorFacts, Zenon
<1>4. Len(s.sum) \in Int /\ MaxPayload \in Int
  BY <1>3, PayloadFacts, PersistAssumption
<1>5. Len(s.sum) <= MaxPayload /\ Holds(l, s.sum)
  BY <1>1, <1>4 DEF MountState, s
<1>. QED
  BY <1>1, <1>3, <1>5, Zenon DEF Stored

\* The other way round.
LEMMA SnapshotIs ==
    ASSUME Types, NEW l \in Locs, NEW c \in Contents, Stored(l, c)
    PROVE  Snapshot(l) = c
<1>1. disk[l.drive][l.base].kind = "super" /\ disk[l.drive][l.base].sum = c
  BY SectorFacts DEF Stored
<1>2. l # None
  BY LocFacts
<1>3. MountState(l, {}) = "LOADED"
  <2>1. Len(c) <= MaxPayload /\ Holds(l, c) /\ InBounds(l.drive, l.base, 1)
    BY DEF Stored
  <2>. QED
    BY <1>1, <1>2, <2>1, PayloadFacts, PersistAssumption DEF MountState
<1>. QED
  BY <1>1, <1>3 DEF Snapshot

\* Nothing happens to a place as long as its drive is left alone.
LEMMA PlaceStays ==
    ASSUME NEW l \in Locs, PlaceOK(l), disk'[l.drive] = disk[l.drive],
           promised'[l] = promised[l], attempted[l] \subseteq attempted'[l]
    PROVE  PlaceOK(l)'
BY DEF PlaceOK, Stored, Holds, ReadPayload, InBounds
-----------------------------------------------------------------------------
(* The driver.                                                             *)

\* One sector reaches the disk, and no other changes.
LEMMA OneSector ==
    ASSUME Types, WriteSector
    PROVE  /\ Types'
           /\ \A d \in Drives : d # io.drive => disk'[d] = disk[d]
           /\ \A x \in 0 .. Sectors[io.drive] - 1 :
                disk'[io.drive][x] = IF x = io.lba + io.done THEN io.data[io.done + 1]
                                     ELSE disk[io.drive][x]
<1> DEFINE d0 == io.drive
           x0 == io.lba + io.done
           v == io.data[io.done + 1]
<1>1. /\ d0 \in Drives /\ io.lba \in Nat /\ io.done \in Nat /\ io.data \in Seq(Sector)
      /\ io = [drive |-> d0, lba |-> io.lba, data |-> io.data, done |-> io.done]
  BY DEF Types
<1>2. v \in Sector
  BY <1>1, ElementOfSeq DEF WriteSector, InFlight
<1>3. disk' = [disk EXCEPT ![d0] = [disk[d0] EXCEPT ![x0] = v]]
  BY DEF WriteSector
<1>4. io' = [drive |-> d0, lba |-> io.lba, data |-> io.data, done |-> io.done + 1]
  BY <1>1 DEF WriteSector
<1> HIDE DEF d0, x0, v
<1>5. [disk[d0] EXCEPT ![x0] = v] \in [0 .. Sectors[d0] - 1 -> Sector]
  BY <1>1, <1>2 DEF Types
<1>6. /\ disk' = [d \in Drives |-> disk'[d]]
      /\ disk'[d0] = [disk[d0] EXCEPT ![x0] = v]
      /\ \A d \in Drives : d # d0 => disk'[d] = disk[d]
  BY <1>1, <1>3 DEF Types
<1>7. \A d \in Drives : disk'[d] \in [0 .. Sectors[d] - 1 -> Sector]
  BY <1>5, <1>6 DEF Types
<1>8. \A x \in 0 .. Sectors[d0] - 1 : disk'[d0][x] = IF x = x0 THEN v ELSE disk[d0][x]
  BY <1>1, <1>6 DEF Types
<1>9. io' \in [drive : Drives, lba : Nat, data : Seq(Sector), done : Nat]
  BY <1>1, <1>4
<1>10. UNCHANGED <<ram, state, dirty, sealed, loc, caller, faults, promised, attempted>>
  BY DEF WriteSector, ghosts
<1>11. Types'
  BY <1>6, <1>7, <1>9, <1>10 DEF Types
<1>. QED
  BY <1>6, <1>8, <1>11 DEF d0, x0, v

\* A write that is in progress has a caller that waits for it.
LEMMA InFlightWrites ==
    ASSUME IoOK, InFlight
    PROVE  pc \notin {"off", "wizard", "shell", "flush", "restart"}
<1>1. io # NoIo
  BY DEF InFlight, NoIo
<1>. QED
  BY <1>1 DEF IoOK

\* One sector of a save or of a wipe.
LEMMA WriteKeeps ==
    ASSUME PInv, WriteSector, pc \in Writing
    PROVE  PInv'
<1>1. /\ Types' /\ \A d \in Drives : d # io.drive => disk'[d] = disk[d]
      /\ \A x \in 0 .. Sectors[io.drive] - 1 :
            disk'[io.drive][x] = IF x = io.lba + io.done THEN io.data[io.done + 1]
                                 ELSE disk[io.drive][x]
  BY OneSector DEF PInv
<1>2. UNCHANGED <<ram, state, dirty, sealed, loc, pc, caller, faults, promised, attempted>>
  BY DEF WriteSector, ghosts
<1>3. PICK l \in Locs, c \in Contents \union {None}, n \in Nat : l = loc /\ c = ram /\ n = io.done
  BY DEF PInv, Types
<1>4. /\ io.drive = l.drive /\ attempted[l] # {}
      /\ l.base \in Nat /\ l.drive \in Drives /\ Sectors[l.drive] \in Nat
  BY <1>3, LocFacts DEF PInv, IoOK
<1>5. io'.drive = io.drive /\ io'.lba = io.lba /\ io'.data = io.data /\ io'.done = n + 1
  BY <1>3 DEF WriteSector, PInv, Types
<1>6. SessionOK'
  BY <1>2 DEF PInv, SessionOK, Writing
<1>7. \A x \in 0 .. Sectors[l.drive] - 1 :
        disk'[l.drive][x] = IF x = io.lba + n THEN io.data[n + 1] ELSE disk[l.drive][x]
  BY <1>1, <1>3, <1>4
<1>8. ASSUME PlaceOK(l)' PROVE PlacesOK'
  <2> SUFFICES ASSUME NEW m \in Locs, m # l PROVE PlaceOK(m)'
    BY <1>8 DEF PlacesOK
  <2>1. disk'[m.drive] = disk[m.drive]
    BY <1>1, <1>4, LocFacts
  <2>. QED
    BY <1>2, <2>1, PlaceStays DEF PInv, PlacesOK
<1>9. CASE pc = "payload"
  <2>1. /\ c \in Contents /\ c \in attempted[l] /\ Fits(c)
        /\ io.lba = l.base + 1 /\ io.data = PayloadSectors(c)
        /\ n \in 0 .. Len(c) /\ Down(c, n)
    BY <1>3, <1>9 DEF PInv, IoOK
  <2>2. n + 1 \in 1 .. Len(c) /\ io.data[n + 1] = Data(c[n + 1]) /\ Len(c) \in Nat
    <3>1. n < Len(c)
      BY <1>3, <2>1, PayloadFacts DEF WriteSector, InFlight
    <3>. QED
      BY <2>1, <3>1, PayloadFacts
  <2>3. l.base + 1 + Len(c) <= Sectors[l.drive]
    BY <1>3, <2>1 DEF Fits, InBounds
  <2>4. \A i \in 1 .. n + 1 : disk'[l.drive][l.base + i] = Data(c[i])
    <3> TAKE i \in 1 .. n + 1
    <3>1. l.base + i \in 0 .. Sectors[l.drive] - 1
      <4> DEFINE x == l.base
                 y == Sectors[l.drive]
                 z == Len(c)
      <4>1. x \in Nat /\ y \in Nat /\ n \in Nat /\ z \in Nat
        BY <1>4, <2>1, <2>2
      <4>2. n + 1 <= z /\ x + 1 + z <= y
        BY <2>2, <2>3
      <4> HIDE DEF x, y, z
      <4>3. i \in Nat /\ i <= n + 1
        BY <4>1
      <4>4. x + i \in 0 .. y - 1
        BY <4>1, <4>2, <4>3
      <4>. QED
        BY <4>4 DEF x, y
    <3>2. CASE i = n + 1
      <4>1. l.base + i = io.lba + n
        BY <1>4, <2>1, <3>2
      <4>. QED
        BY <1>7, <2>2, <3>1, <3>2, <4>1
    <3>3. CASE i # n + 1
      <4>1. l.base + i # io.lba + n /\ i \in 1 .. n
        BY <1>4, <2>1, <3>3
      <4>. QED
        BY <1>3, <1>7, <2>1, <3>1, <4>1 DEF Down
    <3>. QED
      BY <3>2, <3>3
  <2>5. disk'[l.drive][l.base] = disk[l.drive][l.base]
    <3>1. l.base \in 0 .. Sectors[l.drive] - 1 /\ l.base # io.lba + n
      BY <1>4, <2>1, <2>2, <2>3
    <3>. QED
      BY <1>7, <3>1
  <2>6. PlaceOK(l)'
    BY <1>2, <1>4, <2>5 DEF PInv, PlacesOK, PlaceOK, InBounds
  <2>7. IoOK'
    <3>1. Down(ram, io.done)'
      BY <1>2, <1>3, <1>5, <2>4 DEF Down
    <3>2. Fits(ram)' /\ PayloadSectors(ram)' = PayloadSectors(c)
      BY <1>2, <1>3, <2>1 DEF Fits, InBounds, PayloadSectors
    <3>. QED
      BY <1>2, <1>3, <1>4, <1>5, <1>9, <2>1, <2>2, <3>1, <3>2 DEF IoOK, Writing
  <2>. QED
    BY <1>1, <1>6, <1>8, <2>6, <2>7 DEF PInv
<1>10. CASE pc = "super"
  <2>1. /\ c \in Contents /\ c \in attempted[l] /\ Fits(c)
        /\ io.lba = l.base /\ io.data = <<Super(c)>> /\ Down(c, Len(c))
    BY <1>3, <1>10 DEF PInv, IoOK
  <2>2. n = 0 /\ io.data[n + 1] = Super(c) /\ Len(c) \in Nat
    BY <1>3, <2>1, PayloadFacts DEF WriteSector, InFlight
  <2>3. l.base + 1 + Len(c) <= Sectors[l.drive]
    BY <1>3, <2>1 DEF Fits, InBounds
  <2>4. disk'[l.drive][l.base] = Super(c)
    BY <1>4, <1>7, <2>1, <2>2, <2>3
  <2>5. \A i \in 1 .. Len(c) : disk'[l.drive][l.base + i] = Data(c[i])
    <3> TAKE i \in 1 .. Len(c)
    <3>1. l.base + i \in 0 .. Sectors[l.drive] - 1 /\ l.base + i # io.lba + n
      BY <1>4, <2>1, <2>2, <2>3
    <3>. QED
      BY <1>3, <1>7, <2>1, <3>1 DEF Down
  <2>6. PlaceOK(l)'
    <3>1. \A b \in Contents : Super(c) = Super(b) => b = c
      BY <2>1, SectorFacts
    <3>. QED
      BY <1>2, <1>4, <2>1, <2>4, <3>1 DEF PlaceOK
  <2>7. IoOK'
    <3>1. Down(ram, Len(ram))'
      BY <1>2, <1>3, <2>5 DEF Down
    <3>2. Fits(ram)'
      BY <1>2, <1>3, <2>1 DEF Fits, InBounds
    <3>. QED
      BY <1>2, <1>3, <1>4, <1>5, <1>10, <2>1, <2>4, <3>1, <3>2 DEF IoOK, Writing
  <2>. QED
    BY <1>1, <1>6, <1>8, <2>6, <2>7 DEF PInv
<1>11. CASE pc = "wipe"
  <2>1. InBounds(l.drive, l.base, 1) /\ io.lba = l.base /\ io.data = <<Zero>>
    BY <1>3, <1>11 DEF PInv, IoOK
  <2>2. n = 0 /\ io.data[n + 1] = Zero
    BY <1>3, <2>1 DEF WriteSector, InFlight
  <2>3. disk'[l.drive][l.base] = Zero
    BY <1>4, <1>7, <2>1, <2>2 DEF InBounds
  <2>4. PlaceOK(l)'
    <3>1. \A b \in Contents : Super(b) # Zero
      BY SectorFacts
    <3>. QED
      BY <1>2, <1>4, <2>3, <3>1 DEF PlaceOK
  <2>5. IoOK'
    BY <1>2, <1>3, <1>4, <1>5, <1>11, <2>1, <2>3 DEF IoOK, Writing, InBounds
  <2>. QED
    BY <1>1, <1>6, <1>8, <2>4, <2>5 DEF PInv
<1>. QED
  BY <1>9, <1>10, <1>11 DEF Writing
-----------------------------------------------------------------------------
(* The mount.                                                              *)

\* What is on no drive that is written to stays as it is, and so does what
\* was promised of it.
LEMMA PlacesStay ==
    ASSUME PlacesOK, disk' = disk, promised' = promised,
           \A l \in Locs : attempted[l] \subseteq attempted'[l]
    PROVE  PlacesOK'
BY PlaceStays DEF PlacesOK

\* A mount that succeeds restores the snapshot whose superblock it found.
LEMMA BootRestores ==
    ASSUME PInv, NEW bad, Boot(bad), state' = "LOADED"
    PROVE  \E l \in Locs, c \in Contents :
            /\ Stored(l, c) /\ c \in {promised[l]} \union attempted[l]
            /\ loc' = l /\ ram' = c /\ pc' = "shell"
            /\ promised' = [promised EXCEPT ![l] = c]
            /\ attempted' = [attempted EXCEPT ![l] = {}]
<1> DEFINE l == choose_location(bad)
           c == disk[l.drive][l.base].sum
<1>1. MountState(l, bad) = "LOADED"
  BY DEF Boot
<1>2. l # None
  BY <1>1 DEF MountState
<1>3. l \in Locs
  BY <1>2, LocFacts DEF choose_location
<1>4. /\ loc' = l /\ ram' = ReadPayload(l, Len(c)) /\ pc' = "shell"
      /\ promised' = [promised EXCEPT ![l] = ReadPayload(l, Len(c))]
      /\ attempted' = [attempted EXCEPT ![l] = {}]
  BY <1>1, <1>2 DEF Boot
<1> HIDE DEF l
<1>5. c \in Contents /\ Stored(l, c)
  BY <1>1, <1>3, MountFinds DEF PInv
<1> HIDE DEF c
<1>6. ReadPayload(l, Len(c)) = c
  BY <1>5 DEF Stored, Holds
<1>7. c \in {promised[l]} \union attempted[l]
  BY <1>3, <1>5 DEF PInv, PlacesOK, PlaceOK, Stored
<1>. QED
  BY <1>3, <1>4, <1>5, <1>6, <1>7

\* A boot, whatever it cannot read, leaves the places in order.
LEMMA BootKeeps == ASSUME PInv, NEW bad, Boot(bad) PROVE PInv'
<1>1. pc = "off" /\ io = NoIo /\ UNCHANGED <<disk, caller, io, faults>>
  BY DEF Boot, PInv, IoOK
<1>2. dirty' = FALSE /\ sealed' = FALSE
  BY DEF Boot
<1>3. CASE state' = "LOADED"
  <2>1. PICK l \in Locs, c \in Contents :
            /\ Stored(l, c) /\ c \in {promised[l]} \union attempted[l]
            /\ loc' = l /\ ram' = c /\ pc' = "shell"
            /\ promised' = [promised EXCEPT ![l] = c]
            /\ attempted' = [attempted EXCEPT ![l] = {}]
    BY <1>3, BootRestores
  <2>2. promised'[l] = c /\ attempted'[l] = {}
    BY <2>1 DEF PInv, Types
  <2>3. Types'
    BY <1>1, <1>2, <1>3, <2>1 DEF PInv, Types
  <2>4. ASSUME NEW m \in Locs PROVE PlaceOK(m)'
    <3>1. CASE m = l
      <4>1. Stored(l, c)'
        BY <1>1, <2>1 DEF Stored, Holds, ReadPayload, InBounds
      <4>2. \A b \in Contents : Super(c) = Super(b) => b = c
        BY <2>1, SectorFacts
      <4>. QED
        BY <1>1, <2>1, <2>2, <3>1, <4>1, <4>2 DEF PlaceOK, Stored
    <3>2. CASE m # l
      <4>1. promised'[m] = promised[m] /\ attempted'[m] = attempted[m]
        BY <2>1, <3>2 DEF PInv, Types
      <4>. QED
        BY <1>1, <4>1, PlaceStays DEF PInv, PlacesOK
    <3>. QED
      BY <3>1, <3>2
  <2>5. IoOK'
    BY <1>1, <2>1 DEF IoOK, Writing
  <2>6. SessionOK'
    BY <2>1, <2>2 DEF SessionOK
  <2>. QED
    BY <2>3, <2>4, <2>5, <2>6 DEF PInv, PlacesOK
<1>4. CASE state' # "LOADED"
  <2>1. ram' = None /\ pc' = "wizard" /\ promised' = promised /\ attempted' = attempted
    BY <1>4 DEF Boot, ghosts
  <2>2. loc' \in Locs
    BY LocFacts DEF Boot, choose_location
  <2>3. state' \in {"NO_DISK", "EMPTY", "LOADED", "ERROR"}
    BY DEF Boot, MountState
  <2>4. Types'
    BY <1>1, <1>2, <2>1, <2>2, <2>3 DEF PInv, Types
  <2>5. PlacesOK'
    BY <1>1, <2>1, PlacesStay DEF PInv
  <2>6. IoOK' /\ SessionOK'
    BY <1>1, <1>4, <2>1 DEF IoOK, SessionOK, Writing
  <2>. QED
    BY <2>4, <2>5, <2>6 DEF PInv
<1>. QED
  BY <1>3, <1>4
-----------------------------------------------------------------------------
(* persist_save and persist_format.                                        *)

\* The fault counter stays in range.
LEMMA FaultKeeps == ASSUME Types, NEW f, Fault(f) PROVE faults' \in 0 .. MaxFaults
BY PersistAssumption DEF Types, Fault

\* A save that is refused changes nothing; one that begins has written nothing yet.
LEMMA SaveKeeps ==
    ASSUME PInv, NEW c \in Contents, NEW who \in {"wizard", "flush", "sync", "reboot", "shutdown"},
           persist_save(who, c), ram' = c, dirty' = dirty,
           pc = "wizard" \/ (pc \in {"shell", "flush"} /\ who # "wizard" /\ ram = c)
    PROVE  PInv'
<1>1. io = NoIo /\ UNCHANGED <<disk, state, sealed, loc, promised>>
  BY DEF PInv, IoOK, persist_save, SaveRefused, SaveBegins, ghosts
<1>2. CASE SaveRefused(who, c)
  <2>1. /\ pc' = Return(who) /\ UNCHANGED <<caller, io, attempted>>
    BY <1>2 DEF SaveRefused, ghosts
  <2>2. faults' \in 0 .. MaxFaults
    BY <1>2, FaultKeeps DEF SaveRefused, PInv, Types
  <2>3. pc' \in {"shell", "flush", "off"}
    BY <2>1 DEF Return
  <2>4. Types'
    BY <1>1, <2>1, <2>2 DEF PInv, Types
  <2>5. PlacesOK'
    BY <1>1, <2>1, PlacesStay DEF PInv
  <2>6. IoOK'
    BY <1>1, <2>1, <2>3 DEF IoOK, Writing
  <2>7. SessionOK'
    BY <1>1, <2>1, <2>3 DEF PInv, SessionOK, Writing
  <2>. QED
    BY <2>4, <2>5, <2>6, <2>7 DEF PInv
<1>3. CASE SaveBegins(who, c)
  <2>1. /\ MaySave(c) /\ pc' = "payload" /\ caller' = who /\ faults' = faults
        /\ io' = [drive |-> loc.drive, lba |-> loc.base + 1,
                  data |-> PayloadSectors(c), done |-> 0]
        /\ attempted' = [attempted EXCEPT ![loc] = @ \union {c}]
    BY <1>3 DEF SaveBegins, ata_write
  <2>2. loc \in Locs /\ loc.drive \in Drives /\ loc.base \in Nat
    BY LocFacts DEF PInv, Types
  <2>3. /\ attempted'[loc] = attempted[loc] \union {c}
        /\ \A l \in Locs : attempted[l] \subseteq attempted'[l]
    BY <2>1, <2>2 DEF PInv, Types
  <2>4. io' \in [drive : Drives, lba : Nat, data : Seq(Sector), done : Nat]
    BY <2>1, <2>2, PayloadFacts
  <2>5. Types'
    BY <1>1, <2>1, <2>4 DEF PInv, Types
  <2>6. PlacesOK'
    BY <1>1, <2>3, PlacesStay DEF PInv
  <2>7. IoOK'
    <3>1. Fits(ram)'
      BY <1>1, <2>1 DEF MaySave, Fits, InBounds
    <3>2. io'.done = 0 /\ io'.data = PayloadSectors(ram)' /\ 0 \in 0 .. Len(c)
      BY <2>1, PayloadFacts DEF PayloadSectors
    <3>3. Down(ram, io.done)'
      BY <3>2 DEF Down
    <3>. QED
      BY <1>1, <2>1, <2>3, <3>1, <3>2, <3>3 DEF IoOK
  <2>8. SessionOK'
    BY <2>1 DEF SessionOK
  <2>. QED
    BY <2>5, <2>6, <2>7, <2>8 DEF PInv
<1>. QED
  BY <1>2, <1>3 DEF persist_save

\* The payload is on the disk when the superblock's write begins.
LEMMA PayloadDoneKeeps == ASSUME PInv, PayloadDone PROVE PInv'
<1>1. /\ pc = "payload" /\ pc' = "super" /\ ~ InFlight
      /\ io' = [drive |-> loc.drive, lba |-> loc.base, data |-> <<Super(ram)>>, done |-> 0]
      /\ UNCHANGED <<disk, ram, state, dirty, sealed, loc, caller, faults, promised, attempted>>
  BY DEF PayloadDone, ata_write, ghosts
<1>2. /\ loc.drive \in Drives /\ loc.base \in Nat /\ ram \in Contents
  BY <1>1, LocFacts DEF PInv, Types, IoOK
<1>3. Types'
  <2>1. io' \in [drive : Drives, lba : Nat, data : Seq(Sector), done : Nat]
    BY <1>1, <1>2, SectorFacts
  <2>. QED
    BY <1>1, <2>1 DEF PInv, Types
<1>4. io.done = Len(ram)
  BY <1>1, <1>2, PayloadFacts DEF PInv, IoOK, InFlight
<1>5. PlacesOK'
  BY <1>1, PlacesStay DEF PInv
<1>6. IoOK'
  <2>1. Fits(ram)' /\ Down(ram, Len(ram))'
    BY <1>1, <1>4 DEF PInv, IoOK, Fits, InBounds, Down
  <2>. QED
    BY <1>1, <1>2, <2>1 DEF PInv, IoOK, Writing
<1>7. SessionOK'
  BY <1>1, <1>2 DEF SessionOK
<1>. QED
  BY <1>3, <1>5, <1>6, <1>7 DEF PInv

\* A superblock and the blocks it speaks of make a stored snapshot.
LEMMA StoredWhenDown ==
    ASSUME NEW l \in Locs, NEW c \in Contents, Len(c) <= MaxPayload,
           InBounds(l.drive, l.base + 1, Len(c)),
           disk[l.drive][l.base] = Super(c),
           \A i \in 1 .. Len(c) : disk[l.drive][l.base + i] = Data(c[i])
    PROVE  Stored(l, c)
<1>1. ReadPayload(l, Len(c)) = [i \in 1 .. Len(c) |-> c[i]]
  <2>1. \A i \in 1 .. Len(c) : Data(c[i]).kind = "data" /\ Data(c[i]).block = c[i]
    BY PayloadFacts, SectorFacts
  <2>. QED
    BY <2>1 DEF ReadPayload
<1>2. c = [i \in 1 .. Len(c) |-> c[i]]
  BY PayloadFacts
<1>3. InBounds(l.drive, l.base, 1)
  BY PayloadFacts, LocFacts DEF InBounds
<1>. QED
  BY <1>1, <1>2, <1>3 DEF Stored, Holds

\* When the superblock is down, so is everything it says.
LEMMA SuperDoneStores ==
    ASSUME PInv, SuperDone
    PROVE  ram \in Contents /\ Stored(loc, ram)'
<1>1. PICK l \in Locs, c \in Contents : l = loc /\ c = ram
  BY DEF PInv, Types, IoOK, SuperDone
<1>2. /\ Fits(c) /\ io.data = <<Super(c)>> /\ Down(c, Len(c)) /\ ~ InFlight
      /\ io.done # 0 => disk[l.drive][l.base] = Super(c)
      /\ disk' = disk /\ loc' = loc /\ ram' = ram
  BY <1>1 DEF PInv, IoOK, SuperDone
<1>3. disk[l.drive][l.base] = Super(c)
  <2>1. io.done \in Nat
    BY DEF PInv, Types
  <2>. QED
    BY <1>2, <2>1 DEF InFlight
<1>4. \A i \in 1 .. Len(c) : disk[l.drive][l.base + i] = Data(c[i])
  BY <1>1, <1>2 DEF Down
<1>5. Len(c) <= MaxPayload /\ InBounds(l.drive, l.base + 1, Len(c))
  BY <1>1, <1>2 DEF Fits
<1>6. Stored(l, c)
  BY <1>3, <1>4, <1>5, StoredWhenDown
<1>. QED
  BY <1>1, <1>2, <1>6 DEF Stored, Holds, ReadPayload, InBounds

\* Where the machine is when persist_save returns.
LEMMA ReturnPlaces == \A who : Return(who) \in {"shell", "flush", "off"}
BY DEF Return

\* A finished save has stored what it promises.
LEMMA SuperDoneKeeps == ASSUME PInv, SuperDone PROVE PInv'
<1>1. PICK l \in Locs, c \in Contents : l = loc /\ c = ram
  BY DEF PInv, Types, IoOK, SuperDone
<1>2. /\ pc = "super" /\ pc' = Return(caller) /\ io' = NoIo /\ state' = "LOADED" /\ dirty' = FALSE
      /\ promised' = [promised EXCEPT ![l] = c] /\ attempted' = [attempted EXCEPT ![l] = {}]
      /\ UNCHANGED <<disk, ram, sealed, loc, caller, faults>>
  BY <1>1 DEF SuperDone
<1>3. /\ promised'[l] = c /\ attempted'[l] = {}
      /\ \A m \in Locs : m # l => promised'[m] = promised[m] /\ attempted'[m] = attempted[m]
  BY <1>2 DEF PInv, Types
<1>4. pc' \in {"shell", "flush", "off"}
  BY <1>2, ReturnPlaces
<1>5. Types'
  <2>1. io' \in [drive : Drives, lba : Nat, data : Seq(Sector), done : Nat]
    BY <1>2 DEF NoIo, Drives
  <2>. QED
    BY <1>2, <2>1 DEF PInv, Types
<1>6. ASSUME NEW m \in Locs PROVE PlaceOK(m)'
  <2>1. CASE m = l
    <3>1. Stored(l, c)'
      BY <1>1, <1>2, SuperDoneStores
    <3>2. \A b \in Contents : Super(c) = Super(b) => b = c
      BY SectorFacts
    <3>. QED
      BY <1>3, <2>1, <3>1, <3>2 DEF PlaceOK, Stored
  <2>2. CASE m # l
    BY <1>2, <1>3, <2>2, PlaceStays DEF PInv, PlacesOK
  <2>. QED
    BY <2>1, <2>2
<1>7. IoOK'
  BY <1>2, <1>4 DEF IoOK, Writing
<1>8. SessionOK'
  BY <1>1, <1>2, <1>3, <1>4 DEF SessionOK, Writing
<1>. QED
  BY <1>5, <1>6, <1>7, <1>8 DEF PInv, PlacesOK

\* A save cut short leaves its attempt in the history.
LEMMA SaveFailsKeeps == ASSUME PInv, SaveFails PROVE PInv'
<1>1. /\ pc \in {"payload", "super"} /\ pc' = Return(caller) /\ io' = NoIo
      /\ UNCHANGED <<disk, ram, state, dirty, sealed, loc, caller, promised, attempted>>
  BY DEF SaveFails, ghosts
<1>2. pc' \in {"shell", "flush", "off"}
  BY <1>1, ReturnPlaces
<1>3. faults' \in 0 .. MaxFaults
  BY FaultKeeps DEF SaveFails, WriteFails, PInv
<1>4. Types'
  <2>1. io' \in [drive : Drives, lba : Nat, data : Seq(Sector), done : Nat]
    BY <1>1 DEF NoIo, Drives
  <2>. QED
    BY <1>1, <1>3, <2>1 DEF PInv, Types
<1>5. PlacesOK'
  BY <1>1, PlacesStay DEF PInv
<1>6. IoOK'
  BY <1>1, <1>2 DEF IoOK, Writing
<1>7. SessionOK'
  BY <1>1, <1>2 DEF PInv, IoOK, SessionOK, Writing
<1>. QED
  BY <1>4, <1>5, <1>6, <1>7 DEF PInv

\* A wipe is an attempt at leaving nothing.
LEMMA MkfsKeeps == ASSUME PInv, Mkfs PROVE PInv'
<1>1. /\ pc = "shell" /\ pc' = "wipe" /\ InBounds(loc.drive, loc.base, 1)
      /\ io' = [drive |-> loc.drive, lba |-> loc.base, data |-> <<Zero>>, done |-> 0]
      /\ attempted' = [attempted EXCEPT ![loc] = @ \union {None}]
      /\ UNCHANGED <<disk, ram, state, dirty, sealed, loc, caller, faults, promised>>
  BY DEF Mkfs, ata_write
<1>2. loc \in Locs /\ loc.drive \in Drives /\ loc.base \in Nat
  BY LocFacts DEF PInv, Types
<1>3. /\ attempted'[loc] = attempted[loc] \union {None}
      /\ \A l \in Locs : attempted[l] \subseteq attempted'[l]
  BY <1>1, <1>2 DEF PInv, Types
<1>4. Types'
  <2>1. io' \in [drive : Drives, lba : Nat, data : Seq(Sector), done : Nat]
    BY <1>1, <1>2, SectorFacts
  <2>. QED
    BY <1>1, <2>1 DEF PInv, Types
<1>5. PlacesOK'
  BY <1>1, <1>3, PlacesStay DEF PInv
<1>6. IoOK'
  BY <1>1, <1>3 DEF IoOK, InBounds
<1>7. SessionOK'
  BY <1>1 DEF PInv, SessionOK, Writing
<1>. QED
  BY <1>4, <1>5, <1>6, <1>7 DEF PInv

\* A wipe that failed leaves its attempt in the history.
LEMMA WipeFailsKeeps == ASSUME PInv, WipeFails PROVE PInv'
<1>1. /\ pc = "wipe" /\ pc' = "flush" /\ io' = NoIo
      /\ UNCHANGED <<disk, ram, state, dirty, sealed, loc, caller, promised, attempted>>
  BY DEF WipeFails, ghosts
<1>2. faults' \in 0 .. MaxFaults
  BY FaultKeeps DEF WipeFails, WriteFails, PInv
<1>3. Types'
  <2>1. io' \in [drive : Drives, lba : Nat, data : Seq(Sector), done : Nat]
    BY <1>1 DEF NoIo, Drives
  <2>. QED
    BY <1>1, <1>2, <2>1 DEF PInv, Types
<1>4. PlacesOK'
  BY <1>1, PlacesStay DEF PInv
<1>5. IoOK' /\ SessionOK'
  BY <1>1 DEF PInv, IoOK, SessionOK, Writing
<1>. QED
  BY <1>3, <1>4, <1>5 DEF PInv

\* A finished wipe leaves no superblock.
LEMMA WipeDoneKeeps == ASSUME PInv, WipeDone PROVE PInv'
<1>1. PICK l \in Locs : l = loc
  BY DEF PInv, Types
<1>2. /\ pc = "wipe" /\ pc' = "restart" /\ io' = NoIo /\ state' = "EMPTY"
      /\ dirty' = FALSE /\ sealed' = TRUE /\ ~ InFlight
      /\ promised' = [promised EXCEPT ![l] = None] /\ attempted' = [attempted EXCEPT ![l] = {}]
      /\ UNCHANGED <<disk, ram, loc, caller, faults>>
  BY <1>1 DEF WipeDone
<1>3. /\ promised'[l] = None /\ attempted'[l] = {}
      /\ \A m \in Locs : m # l => promised'[m] = promised[m] /\ attempted'[m] = attempted[m]
  BY <1>2 DEF PInv, Types
<1>4. Types'
  <2>1. io' \in [drive : Drives, lba : Nat, data : Seq(Sector), done : Nat]
    BY <1>2 DEF NoIo, Drives
  <2>. QED
    BY <1>2, <2>1 DEF PInv, Types
<1>5. ASSUME NEW m \in Locs PROVE PlaceOK(m)'
  <2>1. CASE m = l
    <3>1. disk[l.drive][l.base] = Zero
      <4>1. io.data = <<Zero>> /\ io.done \in Nat
        BY <1>2 DEF PInv, Types, IoOK
      <4>2. io.done # 0
        BY <1>2, <4>1 DEF InFlight
      <4>. QED
        BY <1>1, <1>2, <4>2 DEF PInv, IoOK
    <3>2. \A b \in Contents : Super(b) # Zero
      BY SectorFacts
    <3>. QED
      BY <1>2, <1>3, <2>1, <3>1, <3>2 DEF PlaceOK
  <2>2. CASE m # l
    BY <1>2, <1>3, <2>2, PlaceStays DEF PInv, PlacesOK
  <2>. QED
    BY <2>1, <2>2
<1>6. IoOK' /\ SessionOK'
  BY <1>2 DEF IoOK, SessionOK, Writing
<1>. QED
  BY <1>4, <1>5, <1>6 DEF PInv, PlacesOK

\* RAM goes, the drives stay.
LEMMA LostKeeps == ASSUME PInv, Lost, UNCHANGED <<disk, faults, ghosts>> PROVE PInv'
<1>1. promised' = promised /\ attempted' = attempted
  BY DEF ghosts
<1>2. Types'
  <2>1. io' \in [drive : Drives, lba : Nat, data : Seq(Sector), done : Nat]
    BY DEF Lost, NoIo, Drives
  <2>. QED
    BY <1>1, <2>1, LocFacts DEF PInv, Types, Lost
<1>3. PlacesOK'
  BY <1>1, PlacesStay DEF PInv
<1>4. IoOK' /\ SessionOK'
  BY DEF Lost, IoOK, SessionOK, Writing
<1>. QED
  BY <1>2, <1>3, <1>4 DEF PInv
-----------------------------------------------------------------------------
(* The session.                                                            *)

\* A command that changes the tree or one that does not, up to the flush.
LEMMA CommandKeeps == ASSUME PInv, Modify \/ Command PROVE PInv'
<1>1. /\ pc = "shell" /\ pc' = "flush" /\ ram \in Contents /\ ram' \in Contents
      /\ (dirty' = dirty /\ ram' = ram) \/ dirty' = TRUE
      /\ UNCHANGED <<disk, state, sealed, loc, caller, io, faults, promised, attempted>>
  BY DEF Modify, Command, ghosts, PInv, SessionOK
<1>2. Types'
  BY <1>1 DEF PInv, Types
<1>3. PlacesOK'
  BY <1>1, PlacesStay DEF PInv
<1>4. IoOK' /\ SessionOK'
  BY <1>1 DEF PInv, IoOK, SessionOK, Writing
<1>. QED
  BY <1>2, <1>3, <1>4 DEF PInv

\* The kernel's own steps.
LEMMA KernelKeeps == ASSUME PInv, KernelStep, WriteSector => pc \in Writing PROVE PInv'
<1>1. CASE Flush
  <2>1. ram \in Contents
    BY <1>1 DEF Flush, PInv, SessionOK
  <2>2. CASE dirty
    <3>1. /\ pc = "flush" /\ persist_save("flush", ram) /\ ram' = ram /\ dirty' = dirty
      BY <1>1, <2>2 DEF Flush
    <3>. QED
      BY <2>1, <3>1, SaveKeeps
  <2>3. CASE ~ dirty
    <3>1. /\ pc = "flush" /\ pc' = "shell" 
          /\ UNCHANGED <<disk, ram, state, dirty, sealed, loc, caller, io, faults, promised, attempted>>
      BY <1>1, <2>3 DEF Flush, ghosts
    <3>2. Types'
      BY <3>1 DEF PInv, Types
    <3>3. PlacesOK'
      BY <3>1, PlacesStay DEF PInv
    <3>4. IoOK' /\ SessionOK'
      BY <3>1 DEF PInv, IoOK, SessionOK, Writing
    <3>. QED
      BY <3>2, <3>3, <3>4 DEF PInv
  <2>. QED
    BY <2>2, <2>3
<1>2. CASE Restart
  BY <1>2, LostKeeps DEF Restart
<1>. QED
  BY <1>1, <1>2, WriteKeeps, PayloadDoneKeeps, SuperDoneKeeps, SaveFailsKeeps,
     WipeDoneKeeps, WipeFailsKeeps DEF KernelStep

\* The user's steps.
LEMMA UserKeeps == ASSUME PInv, UserStep PROVE PInv'
<1>1. CASE Wizard
  <2>1. PICK c \in FirstContents : ram' = c /\ persist_save("wizard", c)
    BY <1>1 DEF Wizard
  <2>2. c \in Contents /\ pc = "wizard" /\ dirty' = dirty
    BY <1>1, PersistAssumption DEF Wizard
  <2>. QED
    BY <2>1, <2>2, SaveKeeps
<1>2. CASE Sync
  <2>1. /\ pc = "shell" /\ persist_save("sync", ram) /\ ram' = ram /\ dirty' = dirty
        /\ ram \in Contents
    BY <1>2 DEF Sync, PInv, SessionOK
  <2>. QED
    BY <2>1, SaveKeeps
<1>3. ASSUME NEW who \in {"reboot", "shutdown"}, pc = "shell", persist_save(who, ram),
             UNCHANGED <<ram, dirty>>
      PROVE  PInv'
  <2>1. ram \in Contents
    BY <1>3 DEF PInv, SessionOK
  <2>. QED
    BY <1>3, <2>1, SaveKeeps
<1>4. CASE Reboot
  BY <1>3, <1>4, LostKeeps DEF Reboot
<1>5. CASE Shutdown
  BY <1>3, <1>5, LostKeeps DEF Shutdown
<1>. QED
  BY <1>1, <1>2, <1>4, <1>5, CommandKeeps, MkfsKeeps DEF UserStep

\* A place that is blank or holds a complete snapshot is in order.
LEMMA ImageOK ==
    ASSUME NEW l \in Locs, NEW c \in CanHold(l) \union {None},
           disk[l.drive] = Image(l.drive, l.base, c),
           promised[l] = c, attempted[l] = {}
    PROVE  PlaceOK(l) /\ disk[l.drive] \in [0 .. Sectors[l.drive] - 1 -> Sector]
<1>1. /\ l.drive \in Drives /\ l.base \in Nat /\ Sectors[l.drive] \in Nat
      /\ None \notin Contents
  BY LocFacts
<1>2. [kind |-> "other"] \in Sector /\ \A b \in Contents : Super(b) # [kind |-> "other"]
  <2>1. [kind |-> "other"] \in [kind : {"zero", "other", "boot", "kernel"}]
    OBVIOUS
  <2>2. [kind |-> "other"].kind # "super"
    OBVIOUS
  <2>. QED
    BY <2>1, <2>2, SectorFacts DEF Sector
<1>3. CASE c = None
  <2>1. disk[l.drive] = [lba \in 0 .. Sectors[l.drive] - 1 |-> [kind |-> "other"]]
    BY <1>3 DEF Image
  <2>2. InBounds(l.drive, l.base, 1) => l.base \in 0 .. Sectors[l.drive] - 1
    BY <1>1 DEF InBounds
  <2>. QED
    BY <1>2, <1>3, <2>1, <2>2 DEF PlaceOK
<1>4. CASE c # None
  <2>1. /\ c \in Contents /\ Len(c) <= MaxPayload /\ InBounds(l.drive, l.base + 1, Len(c))
        /\ Len(c) \in Nat \ {0}
    BY <1>4, PayloadFacts DEF CanHold
  <2>2. /\ l.base \in 0 .. Sectors[l.drive] - 1
        /\ \A i \in 1 .. Len(c) : l.base + i \in 0 .. Sectors[l.drive] - 1
    BY <1>1, <2>1 DEF InBounds
  <2>3. disk[l.drive] = [lba \in 0 .. Sectors[l.drive] - 1 |->
            IF lba = l.base THEN Super(c)
            ELSE IF lba - l.base \in 1 .. Len(c) THEN Data(c[lba - l.base])
            ELSE [kind |-> "other"]]
    BY <1>4 DEF Image
  <2>4. disk[l.drive] \in [0 .. Sectors[l.drive] - 1 -> Sector]
    <3>1. \A i \in 1 .. Len(c) : Data(c[i]) \in Sector
      BY <2>1, PayloadFacts, SectorFacts
    <3>2. Super(c) \in Sector
      BY <2>1, SectorFacts
    <3>. QED
      BY <1>2, <2>3, <3>1, <3>2
  <2>5. disk[l.drive][l.base] = Super(c)
    BY <2>2, <2>3
  <2>6. \A i \in 1 .. Len(c) : disk[l.drive][l.base + i] = Data(c[i])
    <3> TAKE i \in 1 .. Len(c)
    <3>1. /\ l.base + i \in 0 .. Sectors[l.drive] - 1 /\ l.base + i # l.base
          /\ (l.base + i) - l.base = i
      BY <1>1, <2>1, <2>2
    <3>. QED
      BY <2>3, <3>1
  <2>7. Stored(l, c)
    BY <2>1, <2>5, <2>6, StoredWhenDown
  <2>8. \A b \in Contents : Super(b) = Super(c) => b = c
    BY <2>1, SectorFacts
  <2>. QED
    BY <2>4, <2>5, <2>7, <2>8 DEF PlaceOK
<1>. QED
  BY <1>3, <1>4

\* The invariant holds when the story begins.
LEMMA InitOK == Init => PInv
<1> SUFFICES ASSUME Init PROVE PInv
  OBVIOUS
<1>1. PICK s \in CanHold(SlaveLoc) \union {None}, m \in CanHold(MasterLoc) \union {None} :
        /\ disk = [d \in Drives |-> IF d = "slave" THEN Image(d, 0, s)
                                                   ELSE Image(d, DataLba, m)]
        /\ promised = [l \in Locs |-> IF l = SlaveLoc THEN s ELSE m]
  BY DEF Init
<1>2. attempted = [l \in Locs |-> {}]
  BY DEF Init
<1>3. /\ SlaveLoc \in Locs /\ MasterLoc \in Locs /\ SlaveLoc # MasterLoc
      /\ Locs = {SlaveLoc, MasterLoc} /\ Drives = {"slave", "master"}
      /\ SlaveLoc.drive = "slave" /\ SlaveLoc.base = 0
      /\ MasterLoc.drive = "master" /\ MasterLoc.base = DataLba
  BY DEF Locs, SlaveLoc, MasterLoc, Drives
<1>4. /\ disk["slave"] = Image("slave", 0, s) /\ disk["master"] = Image("master", DataLba, m)
      /\ promised[SlaveLoc] = s /\ promised[MasterLoc] = m
      /\ attempted[SlaveLoc] = {} /\ attempted[MasterLoc] = {}
  BY <1>1, <1>2, <1>3
<1>5. PlaceOK(SlaveLoc) /\ disk["slave"] \in [0 .. Sectors["slave"] - 1 -> Sector]
  BY <1>3, <1>4, ImageOK
<1>6. PlaceOK(MasterLoc) /\ disk["master"] \in [0 .. Sectors["master"] - 1 -> Sector]
  BY <1>3, <1>4, ImageOK
<1>7. PlacesOK
  BY <1>3, <1>5, <1>6 DEF PlacesOK
<1>8. Types
  <2>1. promised \in [Locs -> Contents \union {None}]
    BY <1>1 DEF CanHold
  <2>2. attempted \in [Locs -> SUBSET (Contents \union {None})]
    BY <1>2
  <2>3. io \in [drive : Drives, lba : Nat, data : Seq(Sector), done : Nat]
    BY DEF Init, NoIo, Drives
  <2>4. \A d \in Drives : disk[d] \in [0 .. Sectors[d] - 1 -> Sector]
    BY <1>3, <1>5, <1>6
  <2>5. disk = [d \in Drives |-> disk[d]]
    BY <1>1
  <2>6. faults \in 0 .. MaxFaults
    BY PersistAssumption DEF Init
  <2>. QED
    BY <1>3, <2>1, <2>2, <2>3, <2>4, <2>5, <2>6 DEF Init, Types
<1>9. IoOK /\ SessionOK
  BY DEF Init, IoOK, SessionOK, Writing
<1>. QED
  BY <1>7, <1>8, <1>9 DEF PInv
-----------------------------------------------------------------------------
(* The theorems.                                                           *)

\* What the invariant says of what a boot finds.
LEMMA PlacesCommitted == PInv => CommittedIsOnDisk
<1> SUFFICES ASSUME PInv, NEW l \in Locs, attempted[l] = {} PROVE Snapshot(l) = promised[l]
  BY DEF CommittedIsOnDisk
<1>1. promised[l] \in Contents \union {None}
  BY DEF PInv, Types
<1>2. CASE promised[l] # None
  BY <1>1, <1>2, SnapshotIs DEF PInv, PlacesOK, PlaceOK
<1>3. CASE promised[l] = None
  <2>1. SUFFICES ASSUME MountState(l, {}) = "LOADED" PROVE FALSE
    BY <1>3 DEF Snapshot
  <2>2. PICK c \in Contents : Stored(l, c)
    BY <2>1, MountFinds DEF PInv
  <2>3. c \in {promised[l]} \union attempted[l]
    BY <2>2 DEF PInv, PlacesOK, PlaceOK, Stored
  <2>. QED
    BY <1>3, <2>3, LocFacts
<1>. QED
  BY <1>2, <1>3

\* Every step of the snapshot layer keeps its invariant.
LEMMA StepKeeps ==
    ASSUME PInv, [Next]_vars, WriteSector => pc \in Writing
    PROVE  PInv'
<1>1. CASE UNCHANGED vars
  <2>1. UNCHANGED <<disk, ram, state, dirty, sealed, loc, pc, caller, io, faults,
                    promised, attempted>>
    BY <1>1 DEF vars
  <2>2. Types' /\ SessionOK'
    BY <2>1 DEF PInv, Types, SessionOK
  <2>3. PlacesOK'
    BY <2>1, PlacesStay DEF PInv
  <2>4. IoOK'
    BY <2>1 DEF PInv, IoOK, Down, Fits, InBounds, PayloadSectors
  <2>. QED
    BY <2>2, <2>3, <2>4 DEF PInv
<1>2. CASE Next
  <2>1. PowerOn => PInv'
    BY BootKeeps DEF PowerOn
  <2>2. PowerLoss => PInv'
    BY LostKeeps DEF PowerLoss
  <2>3. KernelStep => PInv'
    BY KernelKeeps
  <2>4. UserStep => PInv'
    BY UserKeeps
  <2>. QED
    BY <1>2, <2>1, <2>2, <2>3, <2>4 DEF Next
<1>. QED
  BY <1>1, <1>2

\* What the machine can be doing.
PcOK == pc \in {"off", "wizard", "shell", "flush", "restart"} \union Writing

\* The machine is always doing one of these things.
LEMMA StepPc == ASSUME PcOK, [Next]_vars PROVE PcOK'
<1>1. CASE UNCHANGED vars
  BY <1>1 DEF vars, PcOK
<1>2. CASE PowerOn \/ PowerLoss
  BY <1>2 DEF PowerOn, Boot, PowerLoss, Lost, PcOK
<1>3. ASSUME NEW who, NEW c, persist_save(who, c) PROVE PcOK'
  BY <1>3, ReturnPlaces DEF persist_save, SaveRefused, SaveBegins, PcOK, Writing
<1>4. CASE KernelStep
  BY <1>3, <1>4, ReturnPlaces DEF KernelStep, WriteSector, PayloadDone, SuperDone, SaveFails,
     WipeDone, WipeFails, Restart, Lost, Flush, PcOK, Writing
<1>5. CASE UserStep
  BY <1>3, <1>5 DEF UserStep, Wizard, Modify, Command, Sync, Reboot, Shutdown, Lost, Mkfs,
     PcOK, Writing
<1>. QED
  BY <1>1, <1>2, <1>4, <1>5 DEF Next

Inv == PInv /\ PcOK

\* Inv is inductive, in every behaviour of the snapshot layer.
THEOREM PersistInvariant == Spec => []Inv
<1>1. Init => Inv
  BY InitOK DEF Init, Inv, PcOK
<1>2. Inv /\ [Next]_vars => Inv'
  <2> SUFFICES ASSUME Inv, [Next]_vars PROVE Inv'
    OBVIOUS
  <2>1. WriteSector => pc \in Writing
    BY InFlightWrites DEF WriteSector, Inv, PInv, PcOK
  <2>. QED
    BY <2>1, StepKeeps, StepPc DEF Inv
<1>. QED
  BY <1>1, <1>2, PTL DEF Spec

\* The snapshot layer's variables have their types; no superblock is without
\* its checksum (persist.c:178-219).
THEOREM PersistTypes == Spec => []TypeOK
<1>1. Inv => TypeOK
  BY DEF Inv, PInv, PcOK, Types, TypeOK
<1>. QED
  BY <1>1, PersistInvariant, PTL

\* What a save that returned 0 wrote is what the next boot finds, unless a
\* later save or mkfs has begun at the place (persist.c:196-219, 325-444).
THEOREM CommittedStays == Spec => []CommittedIsOnDisk
<1>1. Inv => CommittedIsOnDisk
  BY PlacesCommitted DEF Inv
<1>. QED
  BY <1>1, PersistInvariant, PTL

\* A boot restores one of the snapshots written at the place it reads, never
\* a mixture of two (persist.c:201).
THEOREM RestoresAreWhole == Spec => RestoresWhole
<1>1. ASSUME Inv, [Next]_vars
      PROVE  [pc = "off" /\ state' = "LOADED"
                => ram' \in {promised[loc']} \union attempted[loc']]_vars
  <2> SUFFICES ASSUME Next, pc = "off", state' = "LOADED"
               PROVE  ram' \in {promised[loc']} \union attempted[loc']
    BY <1>1
  <2>1. ~ InFlight
    BY <1>1, InFlightWrites DEF Inv, PInv
  <2>2. PowerOn
    BY <2>1 DEF Next, KernelStep, UserStep, PowerLoss, WriteSector, PayloadDone, SuperDone,
       SaveFails, WipeDone, WipeFails, Restart, Flush, Wizard, Modify, Command, Sync, Reboot,
       Shutdown, Mkfs
  <2>3. PICK bad : Boot(bad)
    BY <2>2 DEF PowerOn
  <2>. QED
    BY <1>1, <2>3, BootRestores DEF Inv
<1>. QED
  BY <1>1, PersistInvariant, PTL DEF Spec, RestoresWhole

\* When `reboot` finds the dirty flag clear there is nothing to save, unless
\* a save or mkfs has failed since (shell.c:949).
THEOREM CleanIsSaved == Spec => []CleanMeansSaved
<1>1. Inv => CleanMeansSaved
  <2> SUFFICES ASSUME Inv, pc = "shell", state = "LOADED", ~ dirty, attempted[loc] = {}
               PROVE  Snapshot(loc) = ram
    BY DEF CleanMeansSaved
  <2>1. promised[loc] = ram /\ loc \in Locs
    BY DEF Inv, PInv, SessionOK, Types
  <2>. QED
    BY <2>1, PlacesCommitted DEF Inv, CommittedIsOnDisk
<1>. QED
  BY <1>1, PersistInvariant, PTL
=============================================================================
