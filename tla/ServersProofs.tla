---------------------------- MODULE ServersProofs ----------------------------
(***************************************************************************)
(* What a client of a server relies on, with the invariant it rests on: the *)
(* buffers of the FAT file server, the partitions, the console and tmpfs,   *)
(* for any number of buffers, sectors, blocks, requests and files.          *)
(***************************************************************************)
EXTENDS Servers, Integers, SequenceTheorems, TLAPS

-----------------------------------------------------------------------------
(* Fatbuf.  A sector is looked for up to the first unused buffer only, so  *)
(* the invariant says that the used buffers are the first ones: then a     *)
(* sector that was not found is in no buffer, and the replaced one may take*)
(* it.                                                                     *)
bufs == v1
device == v2
failed == v3
kept == v4
USE DEF bufs, device, kept, failed

BufTypeInv == /\ bufs \in [B!B -> [sector : BufSectors \cup {0}, uses : Nat, data : Nat]]
              /\ device \in [BufSectors -> Nat] /\ kept \subseteq BufSectors /\ failed \in BOOLEAN
UsedFirst == \A i, j \in B!B : i < j /\ bufs[i].uses = 0 => bufs[j].uses = 0
UnusedEmpty == \A i \in B!B : bufs[i].uses = 0 => bufs[i].sector = 0
BufIInv == BufTypeInv /\ (~failed => UsedFirst /\ UnusedEmpty) /\ B!BuffersTrue

(* A sector that is not found is in no buffer.                             *)
LEMMA MissIsAbsent ==
  ASSUME BufIInv, ~failed, NEW s \in BufSectors, B!HitBuf(s) = {}, B!FatbufAssumption, NEW i \in B!B
  PROVE  bufs[i].sector # s
<1> SUFFICES ASSUME bufs[i].sector = s PROVE FALSE
  OBVIOUS
<1>1. bufs[i].uses # 0
  BY DEF BufIInv, UnusedEmpty, B!FatbufAssumption
<1>2. i \in B!Scanned
  BY <1>1 DEF B!Scanned, BufIInv, UsedFirst
<1> QED BY <1>2 DEF B!HitBuf

LEMMA BufInitIInv == B!FatbufAssumption /\ B!Init => BufIInv
<1> SUFFICES ASSUME B!FatbufAssumption, B!Init PROVE BufIInv
  OBVIOUS
<1>1. /\ bufs \in [B!B -> [sector : BufSectors \cup {0}, uses : Nat, data : Nat]]
      /\ \A i \in B!B : bufs[i].sector = 0 /\ bufs[i].uses = 0
  BY DEF B!Init, B!Nobuf
<1> QED BY <1>1 DEF B!Init, BufIInv, BufTypeInv, UsedFirst, UnusedEmpty, B!BuffersTrue

(* A change of the data of one buffer, and of its sector on the device.    *)
LEMMA SameSlots ==
  ASSUME BufIInv, failed = FALSE, failed' = failed, B!FatbufAssumption,
         NEW i \in B!B, NEW s \in BufSectors, bufs[i].sector = s, NEW a \in Nat, NEW d \in Nat,
         bufs' = [bufs EXCEPT ![i].data = a], device' = [device EXCEPT ![s] = d],
         (kept' = kept \ {s} /\ a = d) \/ kept' = kept \cup {s}
  PROVE  BufIInv'
<1> USE DEF B!FatbufAssumption, BufIInv, BufTypeInv, UsedFirst, UnusedEmpty, B!BuffersTrue
<1>1. \A j \in B!B : /\ bufs'[j].sector = bufs[j].sector /\ bufs'[j].uses = bufs[j].uses
                    /\ bufs'[j].data = IF j = i THEN a ELSE bufs[j].data
  OBVIOUS
<1>5. BufTypeInv'
  OBVIOUS
<1>2. \A r \in BufSectors : device'[r] = IF r = s THEN d ELSE device[r]
  OBVIOUS
<1>3. kept' \subseteq {bufs'[j].sector : j \in B!B}
  BY <1>1
<1>4. ASSUME NEW j \in B!B, bufs'[j].sector # 0, bufs'[j].sector \notin kept'
      PROVE  bufs'[j].data = device'[bufs'[j].sector]
  <2>1. CASE j = i
    BY <1>1, <1>2, <1>4, <2>1
  <2>2. CASE j # i
    <3>1. bufs[j].sector # s /\ bufs[j].sector \in BufSectors /\ bufs[j].sector \notin kept
      BY <1>1, <1>4, <2>2
    <3> QED BY <1>1, <1>2, <1>4, <2>2, <3>1
  <2> QED BY <2>1, <2>2
<1> QED BY <1>1, <1>3, <1>4, <1>5

LEMMA BufNextIInv ==
  ASSUME B!FatbufAssumption, BufIInv, [B!Next]_(B!vars)
  PROVE  BufIInv'
<1> USE DEF B!FatbufAssumption, BufIInv, BufTypeInv, UsedFirst, UnusedEmpty, B!BuffersTrue
<1>1. ASSUME NEW s \in BufSectors, ~failed, B!Hit(s)
      PROVE  BufIInv'
  <2>1. PICK i \in B!HitBuf(s) : bufs' = [bufs EXCEPT ![i].uses = @ + 1]
    BY <1>1 DEF B!Hit
  <2>2. i \in B!B /\ bufs[i].uses # 0
    BY <1>1, <2>1 DEF B!HitBuf, B!Scanned
  <2>3. /\ bufs' \in [B!B -> [sector : BufSectors \cup {0}, uses : Nat, data : Nat]]
        /\ \A j \in B!B : /\ bufs'[j].sector = bufs[j].sector /\ bufs'[j].data = bufs[j].data
                          /\ bufs'[j].uses = 0 <=> bufs[j].uses = 0
    BY <2>1, <2>2
  <2>4. /\ device' = device /\ kept' = kept /\ failed' = failed
        /\ {bufs'[j].sector : j \in B!B} = {bufs[j].sector : j \in B!B}
    BY <1>1, <2>3 DEF B!Hit
  <2> QED BY <1>1, <2>3, <2>4
<1>2. ASSUME NEW s \in BufSectors, ~failed, B!Load(s)
      PROVE  BufIInv'
  <2>1. PICK v \in B!Victims :
          /\ bufs' = [bufs EXCEPT ![v] = [sector |-> s, uses |-> 1, data |-> device[s]]]
          /\ kept' = kept \ {bufs[v].sector}
    BY <1>2 DEF B!Load
  <2>2. \A j \in B!B : bufs[j].sector # s
    BY <1>2, MissIsAbsent DEF B!Load
  <2>3. v \in B!B /\ \A j \in B!B : j < v => bufs[j].uses # 0
    BY DEF B!Victims, B!Scanned
  <2>4. device' = device /\ failed' = failed /\ device[s] \in Nat
    BY <1>2 DEF B!Load
  <2>5. [sector |-> s, uses |-> 1, data |-> device[s]]
          \in [sector : BufSectors \cup {0}, uses : Nat, data : Nat]
    BY <2>4
  <2>6. BufTypeInv'
    BY <2>1, <2>3, <2>4, <2>5
  <2>7. \A j \in B!B : /\ bufs'[j].sector = IF j = v THEN s ELSE bufs[j].sector
                       /\ bufs'[j].uses = IF j = v THEN 1 ELSE bufs[j].uses
                       /\ bufs'[j].data = IF j = v THEN device[s] ELSE bufs[j].data
    BY <2>1, <2>3
  <2>8. ASSUME NEW i \in B!B, NEW j \in B!B, i < j, bufs'[i].uses = 0
        PROVE  bufs'[j].uses = 0
    <3>1. i # v /\ bufs[i].uses = 0
      BY <2>7, <2>8
    <3>2. j # v
      BY <2>3, <2>8, <3>1
    <3> QED BY <1>2, <2>7, <2>8, <3>1, <3>2
  <2>9. UnusedEmpty'
    BY <1>2, <2>7
  <2>10. kept' \subseteq {bufs'[j].sector : j \in B!B}
    <3>1. ASSUME NEW r \in kept' PROVE \E j \in B!B : r = bufs'[j].sector
      <4>1. PICK j \in B!B : r = bufs[j].sector
        BY <1>2, <2>1, <3>1
      <4>2. j # v
        BY <2>1, <3>1, <4>1
      <4> QED BY <2>7, <4>1, <4>2
    <3> QED BY <3>1
  <2>11. ASSUME NEW j \in B!B, bufs'[j].sector # 0
         PROVE  /\ bufs'[j].sector \notin kept' => bufs'[j].data = device'[bufs'[j].sector]
                /\ \A i \in B!B \ {j} : bufs'[i].sector # bufs'[j].sector
    <3>1. CASE j = v
      BY <2>2, <2>3, <2>4, <2>7, <3>1
    <3>2. CASE j # v
      <4>1. bufs[j].sector # bufs[v].sector /\ bufs[j].sector # 0
        BY <1>2, <2>3, <2>7, <2>11, <3>2
      <4>2. bufs'[j].sector \notin kept' => bufs[j].sector \notin kept
        BY <2>1, <2>7, <3>2, <4>1
      <4> QED BY <1>2, <2>2, <2>4, <2>7, <3>2, <4>1, <4>2
    <3> QED BY <3>1, <3>2
  <2>12. B!BuffersTrue'
    BY <2>10, <2>11
  <2> QED BY <2>6, <2>8, <2>9, <2>12
<1>3. ASSUME NEW s \in BufSectors, ~failed, B!LoadFails(s)
      PROVE  BufIInv'
  <2>1. PICK i \in B!Victims : /\ bufs' = [bufs EXCEPT ![i] = B!Nobuf]
                              /\ kept' = kept \ {bufs[i].sector}
    BY <1>3 DEF B!LoadFails
  <2>2. B!Nobuf \in [sector : BufSectors \cup {0}, uses : Nat, data : Nat]
    BY DEF B!Nobuf
  <2>3. failed' = TRUE /\ device' = device
    BY <1>3 DEF B!LoadFails
  <2> QED BY <2>1, <2>2, <2>3
<1>4. ASSUME NEW s \in BufSectors, ~failed, B!Write(s)
      PROVE  BufIInv'
  <2>1. PICK i \in B!HitBuf(s) : /\ bufs' = [bufs EXCEPT ![i].data = @ + 1]
                                 /\ device' = [device EXCEPT ![s] = bufs[i].data + 1]
                                 /\ kept' = kept \ {s}
    BY <1>4 DEF B!Write
  <2>2. i \in B!B /\ bufs[i].sector = s /\ bufs[i].data + 1 \in Nat
    BY <2>1 DEF B!HitBuf, B!Scanned
  <2>3. failed = FALSE /\ failed' = failed
    BY <1>4 DEF B!Write
  <2> QED BY <2>1, <2>2, <2>3, SameSlots
<1>5. ASSUME NEW s \in BufSectors, NEW d \in 0..MaxVersion, ~failed, B!WriteRereads(s, d)
      PROVE  BufIInv'
  <2>1. PICK i \in B!HitBuf(s) : bufs' = [bufs EXCEPT ![i].data = d]
    BY <1>5 DEF B!WriteRereads
  <2>2. i \in B!B /\ bufs[i].sector = s /\ d \in Nat
    BY <2>1 DEF B!HitBuf, B!Scanned
  <2>3. /\ device' = [device EXCEPT ![s] = d] /\ kept' = kept \ {s}
        /\ failed = FALSE /\ failed' = failed
    BY <1>5 DEF B!WriteRereads, B!DeviceFails
  <2> QED BY <2>1, <2>2, <2>3, SameSlots
<1>6. ASSUME NEW s \in BufSectors, NEW d \in 0..MaxVersion, ~failed, B!WriteExits(s, d)
      PROVE  BufIInv'
  BY <1>6 DEF B!WriteExits, B!DeviceFails
<1>7. ASSUME NEW s \in BufSectors, NEW d \in 0..MaxVersion, ~failed, B!WriteKeeps(s, d)
      PROVE  BufIInv'
  <2>1. PICK i \in B!HitBuf(s) : bufs' = [bufs EXCEPT ![i].data = @ + 1]
    BY <1>7 DEF B!WriteKeeps
  <2>2. i \in B!B /\ bufs[i].sector = s /\ bufs[i].data + 1 \in Nat
    BY <2>1 DEF B!HitBuf, B!Scanned
  <2>3. /\ device' = [device EXCEPT ![s] = d] /\ kept' = kept \cup {s}
        /\ failed = FALSE /\ failed' = failed
    BY <1>7 DEF B!WriteKeeps, B!DeviceFails
  <2> QED BY <2>1, <2>2, <2>3, SameSlots
<1>8. CASE UNCHANGED B!vars
  BY <1>8 DEF B!vars
<1> QED BY <1>1, <1>2, <1>3, <1>4, <1>5, <1>6, <1>7, <1>8 DEF B!Next
-----------------------------------------------------------------------------
(* Mbr.  The invariant compares own with the disk for every block of a     *)
(* partition, also for those that the server does not let its clients      *)
(* reach.                                                                  *)
disk == v1
own == v2
reply == v4
USE DEF disk, own, reply

Blocks == 0..NBlocks - 1
MbrTypeInv == /\ disk \in [Blocks -> [by : M!Files \cup {None}, at : Int]]
              /\ own \in [Parts -> [Blocks -> [by : M!Files \cup {None}, at : Int]]]
Agree == \A p \in Parts : \A k \in 0..PartSectors[p] - 1 : own[p][k] = disk[PartLba[p] + k]
MbrIInv == MbrTypeInv /\ Agree /\ M!PartsApart

LEMMA FileBounds ==
  ASSUME M!MbrAssumption, NEW f \in M!Files
  PROVE  M!lba(f) \in Nat /\ M!sectors(f) \in Nat /\ M!lba(f) + M!sectors(f) <= NBlocks
BY DEF M!MbrAssumption, M!Files, M!lba, M!sectors

(* What readblocks() and writeblocks() reach lies inside the file.         *)
LEMMA ReachedInside ==
  ASSUME M!MbrAssumption, NEW f \in M!Files, NEW blk \in Nat, NEW n \in Nat
  PROVE  /\ M!Reached(f, blk, n) \in 0..n
         /\ M!Reached(f, blk, n) > 0 => M!lba(f) + blk + M!Reached(f, blk, n) <= M!sectors(f)
BY FileBounds DEF M!Reached

(* Two partitions have no block in common.                                 *)
LEMMA Apart ==
  ASSUME M!MbrAssumption, NEW p \in Parts, NEW q \in Parts, p # q,
         NEW b \in Nat, PartLba[p] <= b, b < PartLba[p] + PartSectors[p],
         NEW k \in 0..PartSectors[q] - 1
  PROVE  b # PartLba[q] + k
<1>1. PartLba[p] \in Nat /\ PartLba[q] \in Nat /\ PartSectors[p] \in Nat /\ PartSectors[q] \in Nat
  BY DEF M!MbrAssumption
<1>2. PartLba[p] + PartSectors[p] <= PartLba[q] \/ PartLba[q] + PartSectors[q] <= PartLba[p]
  BY DEF M!MbrAssumption
<1> QED BY <1>1, <1>2

LEMMA MbrInitIInv == M!MbrAssumption /\ M!Init => MbrIInv
<1> SUFFICES ASSUME M!MbrAssumption, M!Init PROVE MbrIInv
  OBVIOUS
<1>1. M!Untouched \in [by : M!Files \cup {None}, at : Int]
  BY DEF M!Untouched
<1>2. MbrTypeInv
  BY <1>1 DEF M!Init, MbrTypeInv, Blocks
<1>3. ASSUME NEW p \in Parts, NEW k \in 0..PartSectors[p] - 1
      PROVE  k \in Blocks /\ PartLba[p] + k \in Blocks
  BY <1>3 DEF M!MbrAssumption, Blocks
<1>4. Agree
  BY <1>3 DEF M!Init, Agree, Blocks
<1> QED BY <1>2, <1>4 DEF M!Init, MbrIInv, M!PartsApart, M!NoReply

LEMMA ReadStep ==
  ASSUME M!MbrAssumption, MbrIInv, NEW f \in M!Files, NEW blk \in Nat, NEW n \in Nat, M!Read(f, blk, n)
  PROVE  MbrIInv'
<1> DEFINE m == M!Reached(f, blk, n)
<1>1. /\ reply' = [file |-> f, blk |-> blk, data |-> [i \in 1..m |-> disk[M!lba(f) + blk + i - 1]]]
      /\ UNCHANGED <<disk, own>>
  BY DEF M!Read
<1>2. m \in 0..n /\ (m > 0 => M!lba(f) + blk + m <= M!sectors(f))
  BY ReachedInside
<1> HIDE DEF m
<1>3. ASSUME f # Raw, NEW i \in 1..m
      PROVE  disk[M!lba(f) + blk + i - 1] = own[f][blk + i - 1]
  <2>1. f \in Parts /\ M!lba(f) = PartLba[f] /\ M!sectors(f) = PartSectors[f] /\ PartLba[f] \in Nat /\ PartSectors[f] \in Nat
    BY <1>3 DEF M!Files, M!lba, M!sectors, M!MbrAssumption
  <2>2. blk + i - 1 \in 0..PartSectors[f] - 1
    BY <1>2, <2>1
  <2>3. own[f][blk + i - 1] = disk[PartLba[f] + (blk + i - 1)]
    BY <2>1, <2>2 DEF MbrIInv, Agree
  <2>4. PartLba[f] + (blk + i - 1) = M!lba(f) + blk + i - 1
    BY <1>2, <2>1
  <2> QED BY <2>3, <2>4
<1>4. M!PartsApart'
  BY <1>1, <1>3 DEF M!PartsApart
<1> QED BY <1>1, <1>4 DEF MbrIInv, MbrTypeInv, Agree

LEMMA WriteStep ==
  ASSUME M!MbrAssumption, MbrIInv, NEW f \in M!Files, NEW blk \in Nat, NEW n \in Nat, M!Write(f, blk, n)
  PROVE  MbrIInv'
<1> DEFINE low == M!lba(f) + blk
           Hit(d, b) == b \in low..low + d - 1
           New(b) == M!Wrote(f, b - M!lba(f))
<1>1. PICK d \in 0..M!Reached(f, blk, n) :
        /\ disk' = [b \in DOMAIN disk |-> IF Hit(d, b) THEN New(b) ELSE disk[b]]
        /\ own' = [p \in Parts |-> [k \in DOMAIN own[p] |->
                     IF f \in {p, Raw} /\ Hit(d, PartLba[p] + k) THEN New(PartLba[p] + k) ELSE own[p][k]]]
  BY DEF M!Write
<1>2. /\ M!lba(f) \in Nat /\ low \in Nat /\ d \in Nat
      /\ d > 0 => low + d <= M!sectors(f)
  <2> DEFINE r == M!Reached(f, blk, n)
  <2>1. r \in 0..n /\ (r > 0 => M!lba(f) + blk + r <= M!sectors(f))
    BY ReachedInside
  <2>2. M!lba(f) \in Nat /\ M!sectors(f) \in Nat /\ d \in 0..r
    BY FileBounds
  <2> HIDE DEF r
  <2> QED BY <2>1, <2>2
<1>3. DOMAIN disk = Blocks /\ \A p \in Parts : DOMAIN own[p] = Blocks
  BY DEF MbrIInv, MbrTypeInv
<1>4. \A b \in Nat : New(b) \in [by : M!Files \cup {None}, at : Int]
  BY <1>2 DEF M!Wrote
<1>5. \A p \in Parts : PartLba[p] \in Nat /\ PartSectors[p] \in Nat /\ PartLba[p] + PartSectors[p] <= NBlocks
  BY DEF M!MbrAssumption
<1> HIDE DEF New
<1>6. MbrTypeInv'
  <2>1. disk' \in [Blocks -> [by : M!Files \cup {None}, at : Int]]
    BY <1>1, <1>3, <1>4 DEF MbrIInv, MbrTypeInv, Blocks
  <2>2. ASSUME NEW p \in Parts, NEW k \in Blocks
        PROVE  own'[p][k] \in [by : M!Files \cup {None}, at : Int]
    <3>1. own[p][k] \in [by : M!Files \cup {None}, at : Int]
      BY DEF MbrIInv, MbrTypeInv
    <3>3. PartLba[p] + k \in Nat
      BY <1>5 DEF Blocks
    <3>2. own'[p][k] = IF f \in {p, Raw} /\ Hit(d, PartLba[p] + k) THEN New(PartLba[p] + k) ELSE own[p][k]
      BY <1>1, <1>3
    <3> QED BY <1>4, <3>1, <3>2, <3>3
  <2>3. own' \in [Parts -> [Blocks -> [by : M!Files \cup {None}, at : Int]]]
    BY <1>1, <1>3, <2>2
  <2> QED BY <2>1, <2>3 DEF MbrTypeInv
<1>7. ASSUME NEW p \in Parts, NEW k \in 0..PartSectors[p] - 1
      PROVE  own'[p][k] = disk'[PartLba[p] + k]
  <2>1. k \in Blocks /\ PartLba[p] + k \in Blocks
    BY <1>5, <1>7 DEF M!MbrAssumption, Blocks
  <2>2. disk'[PartLba[p] + k] = IF Hit(d, PartLba[p] + k) THEN New(PartLba[p] + k) ELSE disk[PartLba[p] + k]
    BY <1>1, <1>3, <2>1
  <2>3. own'[p][k] = IF f \in {p, Raw} /\ Hit(d, PartLba[p] + k) THEN New(PartLba[p] + k) ELSE own[p][k]
    BY <1>1, <1>3, <2>1
  <2>4. own[p][k] = disk[PartLba[p] + k]
    BY <1>7 DEF MbrIInv, Agree
  <2>5. CASE f \notin {p, Raw}
    <3>1. f \in Parts /\ f # p /\ M!lba(f) = PartLba[f] /\ M!sectors(f) = PartSectors[f]
      BY <2>5 DEF M!Files, M!lba, M!sectors
    <3>2. ASSUME Hit(d, PartLba[p] + k) PROVE FALSE
      <4>1. PartLba[f] <= PartLba[p] + k /\ PartLba[p] + k < PartLba[f] + PartSectors[f] /\ PartLba[p] + k \in Nat
        BY <1>2, <1>5, <3>1, <3>2
      <4> QED BY <3>1, <4>1, Apart
    <3> QED BY <2>2, <2>3, <2>4, <3>2, <2>5
  <2>6. CASE f \in {p, Raw}
    BY <2>2, <2>3, <2>4, <2>6
  <2> QED BY <2>5, <2>6
<1>8. M!PartsApart'
  BY DEF M!Write, M!NoReply, M!PartsApart
<1> QED BY <1>6, <1>7, <1>8 DEF MbrIInv, Agree

LEMMA MbrNextIInv ==
  ASSUME M!MbrAssumption, MbrIInv, [M!Next]_(M!vars)
  PROVE  MbrIInv'
<1>1. ASSUME NEW f \in M!Files, M!GetFid(f) PROVE MbrIInv'
  BY <1>1 DEF M!GetFid, MbrIInv, MbrTypeInv, Agree, M!PartsApart
<1>2. ASSUME NEW offset, M!ReadRoot(offset) PROVE MbrIInv'
  BY <1>2 DEF M!ReadRoot, MbrIInv, MbrTypeInv, Agree, M!PartsApart
<1>3. ASSUME NEW f \in M!Files, NEW blk \in Nat, NEW n \in Nat, M!ReadFails(f, blk, n) PROVE MbrIInv'
  BY <1>3 DEF M!ReadFails, M!NoReply, MbrIInv, MbrTypeInv, Agree, M!PartsApart
<1>4. CASE UNCHANGED M!vars
  BY <1>4 DEF M!vars, MbrIInv, MbrTypeInv, Agree, M!PartsApart
<1>5. 0..MaxBlock \subseteq Nat /\ 0..MaxBlocks \subseteq Nat
  BY DEF M!MbrAssumption
<1> QED BY <1>1, <1>2, <1>3, <1>4, <1>5, ReadStep, WriteStep DEF M!Next, M!Request
-----------------------------------------------------------------------------
(* Console.  The lock orders what the two threads write and queue.  Reads  *)
(* wait in the order they were made, what was answered is older than what  *)
(* waits, and the characters of the answers and of the read in hand are    *)
(* all that came; only the reader, between its two writes, leaves the head *)
(* of a read last in the pipe.  Once the pipes are closed main carries out *)
(* its last request again and again, so this holds while they are open.    *)
readrequests == v1
lock == v2
pc == v3
req == v4
taken == v5
data == v6
typed == v7
asked == v8
unheard == v9
out == v10
link == v11
USE DEF readrequests, lock, pc, req, taken, data, typed, asked, unheard, out, link

MainLabels == {"request", "add", "malloc", "made", "append", "added", "respond", "write", "written"}
ReaderLabels == {"idle", "take", "pop", "popped", "chars", "free", "freed", "head", "data",
                 "answered"}
Places == [C!Threads -> MainLabels \cup ReaderLabels]
ConRead == [rid : Nat, len : Nat]
ConReq == [rid : Nat, type : C!Types, len : Nat]
ConOut == [part : {"head", "data"}, rid : Nat, data : Seq(Nat)]

ConTypeInv ==
  /\ readrequests \in Seq(ConRead) /\ Len(readrequests) <= MaxQueue
  /\ lock \in C!Threads \cup {"free"}
  /\ pc \in Places /\ pc["main"] \in MainLabels /\ pc["reader"] \in ReaderLabels
  /\ req \in ConReq /\ taken \in ConRead
  /\ data \in Seq(Nat) /\ typed \in Nat /\ typed <= MaxTyped
  /\ asked \in Seq(ConReq) /\ Len(asked) <= MaxRequests
  /\ out \in Seq(ConOut) /\ link \in BOOLEAN

(* The lock is held by the thread that is between its getlock() and its    *)
(* freelock(), and a read that was found is at the head until it is popped.*)
ConLockInv ==
  /\ lock = "main" <=> pc["main"] \in {"append", "added", "write", "written"}
  /\ lock = "reader" <=> pc["reader"] \in {"pop", "popped", "head", "data", "answered"}
  /\ pc["reader"] \in {"take", "pop"} => readrequests # <<>> /\ taken = Head(readrequests)

(* Requests are numbered; the one that is carried out is the last.         *)
ConReqInv ==
  /\ \A i \in DOMAIN asked : asked[i].rid = i
  /\ asked = <<>> => req.rid = 0
  /\ asked # <<>> => req = asked[Len(asked)]
  /\ pc["main"] \in {"add", "malloc", "made", "append", "added"} => req.type = "read"
  /\ pc["main"] \in {"respond", "write", "written"} => req.type = "other"
  /\ taken.rid <= Len(asked)
  /\ \A i \in DOMAIN readrequests : readrequests[i].rid <= Len(asked)

Adding == pc["main"] \in {"add", "malloc", "made", "append"}
Popped == pc["reader"] \in {"popped", "chars", "free", "freed", "head", "data", "answered"}
Reading == pc["reader"] \in {"take", "pop", "popped", "chars", "free", "freed", "head", "data"}
ReadAsked(r) == r.rid \in C!Reads /\ asked[r.rid].len = r.len

(* Reads wait in the order they were made.                                 *)
ConQueueInv ==
  /\ pc["main"] # "request" => asked # <<>>
  /\ \A i \in DOMAIN readrequests : ReadAsked(readrequests[i])
  /\ \A i, j \in DOMAIN readrequests : i < j => readrequests[i].rid < readrequests[j].rid
  /\ Adding => \A i \in DOMAIN readrequests : readrequests[i].rid < Len(asked)
  /\ pc["reader"] # "idle" => ReadAsked(taken) /\ (Adding => taken.rid < Len(asked))
  /\ Popped => \A i \in DOMAIN readrequests : taken.rid < readrequests[i].rid

(* What was answered is older than what waits.                             *)
ConOldInv ==
  \A b \in C!Bodies :
    /\ \A i \in DOMAIN readrequests : out[b].rid < readrequests[i].rid
    /\ Adding => out[b].rid < Len(asked)
    /\ Reading => out[b].rid < taken.rid

(* Only the reader, between its two writes, leaves a read's head last.     *)
ConLastInv ==
  /\ pc["reader"] = "answered" => \E b \in C!Bodies : out[b].rid = taken.rid
  /\ pc["reader"] = "data" => out # <<>> /\ out[Len(out)] = C!Head1(taken.rid)
  /\ pc["reader"] # "data" /\ out # <<>> =>
       ~(out[Len(out)].part = "head" /\ out[Len(out)].rid \in C!Reads)

ConOutInv ==
  /\ \A i \in DOMAIN out : out[i].rid \in DOMAIN asked
  /\ \A b \in C!Bodies : out[b].rid \in C!Reads
  /\ C!Pairs

(* The characters that were answered, and those that the reader has since  *)
(* got, are all that came.                                                 *)
Chars == UNION {C!ToSet(out[i].data) : i \in C!Bodies}
Done == IF Reading THEN typed - Len(data) ELSE typed
ConCharInv ==
  /\ Len(data) <= typed
  /\ Reading => Len(data) <= taken.len /\ \A k \in DOMAIN data : data[k] = Done + k
  /\ pc["reader"] \in {"free", "freed", "head", "data"} => Len(data) = taken.len
  /\ Chars = 1..Done

LinkInv == ConQueueInv /\ ConOldInv /\ ConLastInv /\ ConCharInv
ConsoleInv == ConTypeInv /\ ConLockInv /\ ConReqInv /\ ConOutInv /\ C!InOrder /\ C!NoneLost
              /\ (link => LinkInv)
ConBase == ConTypeInv /\ ConLockInv /\ ConReqInv

LEMMA ConInit == C!ConsoleAssumption /\ C!Init => ConsoleInv
<1> SUFFICES ASSUME C!ConsoleAssumption, C!Init PROVE ConsoleInv
  OBVIOUS
<1>1. /\ asked = <<>> /\ out = <<>> /\ data = <<>> /\ readrequests = <<>> /\ typed = 0
      /\ C!Bodies = {} /\ C!Reads = {} /\ pc["reader"] = "idle" /\ pc["main"] = "request" /\ lock = "free"
  BY DEF C!Init, C!Bodies, C!Reads
<1>2. ConTypeInv
  <2>1. req \in ConReq
    BY DEF C!Init, ConReq, C!Types, C!Garbage
  <2>2. pc \in Places /\ pc["main"] \in MainLabels /\ pc["reader"] \in ReaderLabels
    BY DEF C!Init, C!Threads, MainLabels, ReaderLabels, Places
  <2> QED BY <1>1, <2>1, <2>2 DEF C!Init, ConTypeInv, C!ConsoleAssumption, ConRead, C!Threads
<1>3. ConLockInv /\ ConReqInv
  BY <1>1 DEF C!Init, ConLockInv, ConReqInv, C!Garbage, C!Types
<1>4. ConOutInv /\ C!NoneLost
  BY <1>1 DEF ConOutInv, C!NoneLost, C!Pairs
<1>5. Chars = {}
  BY <1>1 DEF Chars
<1>6. C!InOrder
  BY <1>1 DEF C!InOrder
<1>7. LinkInv
  BY <1>1, <1>5 DEF LinkInv, ConQueueInv, ConOldInv, ConLastInv, ConCharInv, Adding, Popped, Reading, Done
<1> QED BY <1>2, <1>3, <1>4, <1>6, <1>7 DEF ConsoleInv

LEMMA AppendSeq ==
  ASSUME NEW S, NEW s \in Seq(S), NEW x \in S
  PROVE  /\ Append(s, x) \in Seq(S) /\ Len(Append(s, x)) = Len(s) + 1
         /\ DOMAIN Append(s, x) = 1..Len(s) + 1 /\ DOMAIN s = 1..Len(s)
         /\ \A i \in 1..Len(s) : Append(s, x)[i] = s[i]
         /\ Append(s, x)[Len(s) + 1] = x
OBVIOUS

LEMMA SeqElements ==
  ASSUME NEW S, NEW s \in Seq(S)
  PROVE  DOMAIN s = 1..Len(s) /\ Len(s) \in Nat /\ (\A i \in DOMAIN s : s[i] \in S) /\ (s = <<>> <=> Len(s) = 0)
OBVIOUS

LEMMA TailSeq ==
  ASSUME NEW S, NEW s \in Seq(S), s # <<>>
  PROVE  /\ Tail(s) \in Seq(S) /\ Len(Tail(s)) = Len(s) - 1 /\ Head(s) = s[1] /\ Head(s) \in S
         /\ DOMAIN Tail(s) = 1..Len(s) - 1 /\ DOMAIN s = 1..Len(s) /\ 1 \in DOMAIN s
         /\ \A i \in 1..Len(s) - 1 : Tail(s)[i] = s[i + 1]
OBVIOUS

(* What a step of a thread does to the two places.                         *)
LEMMA GotoPlaces ==
  ASSUME ConTypeInv, NEW t \in C!Threads, NEW label \in MainLabels \cup ReaderLabels, C!Goto(t, label)
  PROVE  /\ pc' \in Places /\ pc'[t] = label
         /\ \A u \in C!Threads \ {t} : pc'[u] = pc[u]
BY DEF C!Goto, ConTypeInv, Places

(* The threads keep the types, the lock and the numbers of the requests.   *)
LEMMA ConBaseStep ==
  ASSUME C!ConsoleAssumption, ConBase, [C!Next]_(C!vars)
  PROVE  ConBase'
<1> USE DEF C!At, C!queue, C!input
<1>1. CASE \E type \in C!Types, len \in 0..MaxLen : C!Request(type, len)
  <2>1. PICK type \in C!Types, len \in 0..MaxLen : C!Request(type, len)
    BY <1>1
  <2>2. /\ req' = [rid |-> Len(asked) + 1, type |-> type, len |-> len] /\ asked' = Append(asked, req')
        /\ req' \in ConReq
    BY <2>1 DEF C!Request, ConBase, ConTypeInv, ConReq, C!ConsoleAssumption
  <2>3. /\ pc' \in Places /\ pc'["main"] = IF type = "read" THEN "add" ELSE "respond"
        /\ pc'["reader"] = pc["reader"]
    BY <2>1, GotoPlaces DEF C!Request, C!Dispatch, ConBase, C!Threads, MainLabels, ReaderLabels
  <2>4. /\ asked' \in Seq(ConReq) /\ Len(asked') = Len(asked) + 1
        /\ \A i \in 1..Len(asked) : asked'[i] = asked[i]
        /\ asked'[Len(asked) + 1] = req'
        /\ DOMAIN asked' = 1..Len(asked) + 1 /\ DOMAIN asked = 1..Len(asked)
    BY <2>2, AppendSeq DEF ConBase, ConTypeInv
  <2>5. ConTypeInv'
    BY <2>1, <2>2, <2>3, <2>4 DEF C!Request, ConBase, ConTypeInv, MainLabels, C!ConsoleAssumption
  <2>6. ConLockInv'
    BY <2>1, <2>3 DEF C!Request, ConBase, ConTypeInv, ConLockInv
  <2>7. /\ \A i \in DOMAIN asked' : asked'[i].rid = i
        /\ asked' # <<>> /\ req' = asked'[Len(asked')]
    <3>1. Len(asked) \in Nat /\ Len(asked') # 0
      BY <2>4, SeqElements DEF ConBase, ConTypeInv
    <3>2. \A i \in DOMAIN asked' : i \in DOMAIN asked \/ i = Len(asked) + 1
      BY <2>4, <3>1
    <3>3. req'.rid = Len(asked) + 1
      BY <2>2
    <3> QED BY <2>4, <3>1, <3>2, <3>3 DEF ConBase, ConReqInv
  <2>8. pc["reader"] = pc'["reader"] /\ req'.type = type /\ type \in C!Types
    BY <2>2, <2>3
  <2>9. taken' = taken /\ readrequests' = readrequests /\ Len(asked') > Len(asked) /\ Len(asked) \in Nat
    BY <2>1, <2>4 DEF C!Request, ConBase, ConTypeInv
  <2>10. taken'.rid <= Len(asked') /\ \A i \in DOMAIN readrequests' : readrequests'[i].rid <= Len(asked')
    <3>1. \A i \in DOMAIN readrequests : readrequests[i].rid \in Nat
      <4>1. \A i \in DOMAIN readrequests : readrequests[i] \in ConRead
        BY SeqElements DEF ConBase, ConTypeInv
      <4> QED BY <4>1 DEF ConRead
    <3>2. taken.rid \in Nat
      BY DEF ConBase, ConTypeInv, ConRead
    <3> QED BY <2>9, <3>1, <3>2 DEF ConBase, ConReqInv
  <2>11. ConReqInv'
    BY <2>3, <2>7, <2>8, <2>10 DEF ConReqInv, C!Types
  <2> QED BY <2>5, <2>6, <2>11 DEF ConBase
<1>2. CASE C!RequestEOF
  <2>1. /\ pc' \in Places /\ pc'["main"] = IF req.type = "read" THEN "add" ELSE "respond"
        /\ pc'["reader"] = pc["reader"]
    BY <1>2, GotoPlaces DEF C!RequestEOF, C!Dispatch, ConBase, C!Threads, MainLabels, ReaderLabels
  <2>2. ConTypeInv'
    BY <1>2, <2>1 DEF C!RequestEOF, ConBase, ConTypeInv, MainLabels
  <2>3. ConLockInv'
    BY <1>2, <2>1 DEF C!RequestEOF, ConBase, ConTypeInv, ConLockInv
  <2>4. ConReqInv'
    BY <1>2, <2>1 DEF C!RequestEOF, ConBase, ConTypeInv, ConReqInv, ConReq, C!Types
  <2> QED BY <2>2, <2>3, <2>4 DEF ConBase
<1>3. CASE C!NoMemory
  <2>1. pc' \in Places /\ pc'["main"] = "request" /\ pc'["reader"] = pc["reader"]
    BY <1>3, GotoPlaces DEF C!NoMemory, ConBase, C!Threads, MainLabels, ReaderLabels
  <2>2. ConTypeInv'
    BY <1>3, <2>1 DEF C!NoMemory, ConBase, ConTypeInv, C!Threads, MainLabels, ReaderLabels
  <2>3. ConLockInv'
    BY <1>3, <2>1 DEF C!NoMemory, ConBase, ConTypeInv, ConLockInv
  <2>4. ConReqInv'
    BY <1>3, <2>1 DEF C!NoMemory, ConBase, ConTypeInv, ConReqInv
  <2> QED BY <2>2, <2>3, <2>4 DEF ConBase
<1>4. CASE C!AddLock
  <2>1. pc' \in Places /\ pc'["main"] = "append" /\ pc'["reader"] = pc["reader"]
    BY <1>4, GotoPlaces DEF C!AddLock, C!Lock, ConBase, C!Threads, MainLabels, ReaderLabels
  <2>2. ConTypeInv'
    BY <1>4, <2>1 DEF C!AddLock, C!Lock, ConBase, ConTypeInv, C!Threads, MainLabels, ReaderLabels
  <2>3. ConLockInv'
    BY <1>4, <2>1 DEF C!AddLock, C!Lock, ConBase, ConTypeInv, ConLockInv
  <2>4. ConReqInv'
    BY <1>4, <2>1 DEF C!AddLock, C!Lock, ConBase, ConTypeInv, ConReqInv
  <2> QED BY <2>2, <2>3, <2>4 DEF ConBase
<1>5. CASE C!Add
  <2>1. pc' \in Places /\ pc'["main"] = "added" /\ pc'["reader"] = pc["reader"]
    BY <1>5, GotoPlaces DEF C!Add, ConBase, C!Threads, MainLabels, ReaderLabels
  <2>0. /\ readrequests' \in Seq(ConRead) /\ Len(readrequests') <= MaxQueue
        /\ readrequests' # <<>> /\ Head(readrequests') = IF readrequests = <<>> THEN [rid |-> req.rid, len |-> req.len] ELSE Head(readrequests)
        /\ \A i \in DOMAIN readrequests' : readrequests'[i].rid <= Len(asked)
    <3>1. [rid |-> req.rid, len |-> req.len] \in ConRead /\ req.rid <= Len(asked)
      BY DEF ConBase, ConTypeInv, ConRead, ConReq, ConReqInv
    <3>2. /\ readrequests' = Append(readrequests, [rid |-> req.rid, len |-> req.len])
          /\ Len(readrequests) < MaxQueue /\ readrequests \in Seq(ConRead)
      BY <1>5 DEF C!Add, ConBase, ConTypeInv
    <3>3. /\ readrequests' \in Seq(ConRead) /\ Len(readrequests') = Len(readrequests) + 1
          /\ DOMAIN readrequests' = 1..Len(readrequests) + 1 /\ DOMAIN readrequests = 1..Len(readrequests)
          /\ \A i \in 1..Len(readrequests) : readrequests'[i] = readrequests[i]
          /\ readrequests'[Len(readrequests) + 1] = [rid |-> req.rid, len |-> req.len]
      BY <3>1, <3>2, AppendSeq
    <3>4. readrequests' # <<>> /\ Head(readrequests') = readrequests'[1] /\ (readrequests # <<>> => Head(readrequests) = readrequests[1])
      BY <3>2, <3>3
    <3>5. \A i \in DOMAIN readrequests' : readrequests'[i].rid <= Len(asked)
      BY <3>1, <3>3 DEF ConBase, ConReqInv
    <3> QED BY <3>2, <3>3, <3>4, <3>5 DEF C!ConsoleAssumption
  <2>2. ConTypeInv'
    BY <1>5, <2>1, <2>0 DEF C!Add, ConBase, ConTypeInv, C!Threads, MainLabels, ReaderLabels, ConRead, ConReq
  <2>3. ConLockInv'
    BY <1>5, <2>0, <2>1 DEF C!Add, ConBase, ConTypeInv, ConLockInv
  <2>4. ConReqInv'
    BY <1>5, <2>0, <2>1 DEF C!Add, ConBase, ConTypeInv, ConReqInv
  <2> QED BY <2>2, <2>3, <2>4 DEF ConBase
<1>6. CASE C!AddUnlock
  <2>1. pc' \in Places /\ pc'["main"] = "request" /\ pc'["reader"] = pc["reader"]
    BY <1>6, GotoPlaces DEF C!AddUnlock, C!Unlock, ConBase, C!Threads, MainLabels, ReaderLabels
  <2>2. ConTypeInv'
    BY <1>6, <2>1 DEF C!AddUnlock, C!Unlock, ConBase, ConTypeInv, C!Threads, MainLabels, ReaderLabels
  <2>3. ConLockInv'
    BY <1>6, <2>1 DEF C!AddUnlock, C!Unlock, ConBase, ConTypeInv, ConLockInv
  <2>4. ConReqInv'
    BY <1>6, <2>1 DEF C!AddUnlock, C!Unlock, ConBase, ConTypeInv, ConReqInv
  <2> QED BY <2>2, <2>3, <2>4 DEF ConBase
<1>7. CASE C!RespondLock
  <2>1. pc' \in Places /\ pc'["main"] = "write" /\ pc'["reader"] = pc["reader"]
    BY <1>7, GotoPlaces DEF C!RespondLock, C!Lock, ConBase, C!Threads, MainLabels, ReaderLabels
  <2>2. ConTypeInv'
    BY <1>7, <2>1 DEF C!RespondLock, C!Lock, ConBase, ConTypeInv, C!Threads, MainLabels, ReaderLabels
  <2>3. ConLockInv'
    BY <1>7, <2>1 DEF C!RespondLock, C!Lock, ConBase, ConTypeInv, ConLockInv
  <2>4. ConReqInv'
    BY <1>7, <2>1 DEF C!RespondLock, C!Lock, ConBase, ConTypeInv, ConReqInv
  <2> QED BY <2>2, <2>3, <2>4 DEF ConBase
<1>8. CASE C!Respond
  <2>1. pc' \in Places /\ pc'["main"] = "written" /\ pc'["reader"] = pc["reader"]
    BY <1>8, GotoPlaces DEF C!Respond, C!Put, ConBase, C!Threads, MainLabels, ReaderLabels
  <2>0. out' \in Seq(ConOut)
    <3>1. C!Head1(req.rid) \in ConOut
      BY DEF C!Head1, ConOut, ConBase, ConTypeInv, ConReq
    <3> QED BY <1>8, <3>1, AppendSeq DEF C!Respond, C!Put, ConBase, ConTypeInv
  <2>2. ConTypeInv'
    BY <1>8, <2>1, <2>0 DEF C!Respond, C!Put, ConBase, ConTypeInv, C!Threads, MainLabels, ReaderLabels, C!Head1, ConOut, ConReq
  <2>3. ConLockInv'
    BY <1>8, <2>1 DEF C!Respond, C!Put, ConBase, ConTypeInv, ConLockInv
  <2>4. ConReqInv'
    BY <1>8, <2>1 DEF C!Respond, C!Put, ConBase, ConTypeInv, ConReqInv
  <2> QED BY <2>2, <2>3, <2>4 DEF ConBase
<1>9. CASE C!RespondUnlock
  <2>1. pc' \in Places /\ pc'["main"] = "request" /\ pc'["reader"] = pc["reader"]
    BY <1>9, GotoPlaces DEF C!RespondUnlock, C!Unlock, ConBase, C!Threads, MainLabels, ReaderLabels
  <2>2. ConTypeInv'
    BY <1>9, <2>1 DEF C!RespondUnlock, C!Unlock, ConBase, ConTypeInv, C!Threads, MainLabels, ReaderLabels
  <2>3. ConLockInv'
    BY <1>9, <2>1 DEF C!RespondUnlock, C!Unlock, ConBase, ConTypeInv, ConLockInv
  <2>4. ConReqInv'
    BY <1>9, <2>1 DEF C!RespondUnlock, C!Unlock, ConBase, ConTypeInv, ConReqInv
  <2> QED BY <2>2, <2>3, <2>4 DEF ConBase
<1>10. CASE C!Take
  <2>1. pc' \in Places /\ pc'["reader"] = "take" /\ pc'["main"] = pc["main"]
    BY <1>10, GotoPlaces DEF C!Take, ConBase, C!Threads, MainLabels, ReaderLabels
  <2>0. taken' \in ConRead
    BY <1>10, TailSeq DEF C!Take, ConBase, ConTypeInv
  <2>2. ConTypeInv'
    BY <1>10, <2>1, <2>0 DEF C!Take, ConBase, ConTypeInv, C!Threads, MainLabels, ReaderLabels, ConRead
  <2>3. ConLockInv'
    BY <1>10, <2>1 DEF C!Take, ConBase, ConTypeInv, ConLockInv
  <2>4. ConReqInv'
    BY <1>10, <2>1 DEF C!Take, ConBase, ConTypeInv, ConReqInv
  <2> QED BY <2>2, <2>3, <2>4 DEF ConBase
<1>11. CASE C!PopLock
  <2>1. pc' \in Places /\ pc'["reader"] = "pop" /\ pc'["main"] = pc["main"]
    BY <1>11, GotoPlaces DEF C!PopLock, C!Lock, ConBase, C!Threads, MainLabels, ReaderLabels
  <2>2. ConTypeInv'
    BY <1>11, <2>1 DEF C!PopLock, C!Lock, ConBase, ConTypeInv, C!Threads, MainLabels, ReaderLabels
  <2>3. ConLockInv'
    BY <1>11, <2>1 DEF C!PopLock, C!Lock, ConBase, ConTypeInv, ConLockInv
  <2>4. ConReqInv'
    BY <1>11, <2>1 DEF C!PopLock, C!Lock, ConBase, ConTypeInv, ConReqInv
  <2> QED BY <2>2, <2>3, <2>4 DEF ConBase
<1>12. CASE C!Pop
  <2>1. pc' \in Places /\ pc'["reader"] = "popped" /\ pc'["main"] = pc["main"]
    BY <1>12, GotoPlaces DEF C!Pop, ConBase, C!Threads, MainLabels, ReaderLabels
  <2>0. readrequests' \in Seq(ConRead) /\ Len(readrequests') <= MaxQueue
    <3>1. readrequests # <<>> /\ readrequests' = Tail(readrequests) /\ readrequests \in Seq(ConRead)
      BY <1>12 DEF C!Pop, ConBase, ConTypeInv, ConLockInv
    <3>2. Tail(readrequests) \in Seq(ConRead) /\ Len(Tail(readrequests)) = Len(readrequests) - 1 /\ Len(readrequests) \in Nat
      BY <3>1, TailSeq
    <3> QED BY <3>1, <3>2 DEF ConBase, ConTypeInv, C!ConsoleAssumption
  <2>2. ConTypeInv'
    BY <1>12, <2>1, <2>0 DEF C!Pop, ConBase, ConTypeInv, C!Threads, MainLabels, ReaderLabels
  <2>3. ConLockInv'
    BY <1>12, <2>1 DEF C!Pop, ConBase, ConTypeInv, ConLockInv
  <2>4. ConReqInv'
    BY <1>12, <2>1 DEF C!Pop, ConBase, ConTypeInv, ConReqInv
  <2> QED BY <2>2, <2>3, <2>4 DEF ConBase
<1>13. CASE C!PopUnlock
  <2>1. pc' \in Places /\ pc'["reader"] = "chars" /\ pc'["main"] = pc["main"]
    BY <1>13, GotoPlaces DEF C!PopUnlock, C!Unlock, ConBase, C!Threads, MainLabels, ReaderLabels
  <2>2. ConTypeInv'
    BY <1>13, <2>1 DEF C!PopUnlock, C!Unlock, ConBase, ConTypeInv, C!Threads, MainLabels, ReaderLabels
  <2>3. ConLockInv'
    BY <1>13, <2>1 DEF C!PopUnlock, C!Unlock, ConBase, ConTypeInv, ConLockInv
  <2>4. ConReqInv'
    BY <1>13, <2>1 DEF C!PopUnlock, C!Unlock, ConBase, ConTypeInv, ConReqInv
  <2> QED BY <2>2, <2>3, <2>4 DEF ConBase
<1>14. CASE C!Char
  <2>1. data' \in Seq(Nat) /\ typed' \in Nat /\ typed' <= MaxTyped
    BY <1>14, AppendSeq DEF C!Char, ConBase, ConTypeInv, C!ConsoleAssumption
  <2>2. ConTypeInv' /\ ConLockInv' /\ ConReqInv'
    BY <1>14, <2>1 DEF C!Char, ConBase, ConTypeInv, ConLockInv, ConReqInv
  <2> QED BY <2>2 DEF ConBase
<1>15. CASE C!AnswerLock
  <2>1. pc' \in Places /\ pc'["reader"] = "head" /\ pc'["main"] = pc["main"]
    BY <1>15, GotoPlaces DEF C!AnswerLock, C!Lock, ConBase, C!Threads, MainLabels, ReaderLabels
  <2>2. ConTypeInv'
    BY <1>15, <2>1 DEF C!AnswerLock, C!Lock, ConBase, ConTypeInv, C!Threads, MainLabels, ReaderLabels
  <2>3. ConLockInv'
    BY <1>15, <2>1 DEF C!AnswerLock, C!Lock, ConBase, ConTypeInv, ConLockInv
  <2>4. ConReqInv'
    BY <1>15, <2>1 DEF C!AnswerLock, C!Lock, ConBase, ConTypeInv, ConReqInv
  <2> QED BY <2>2, <2>3, <2>4 DEF ConBase
<1>16. CASE C!AnswerHead
  <2>1. pc' \in Places /\ pc'["reader"] = "data" /\ pc'["main"] = pc["main"]
    BY <1>16, GotoPlaces DEF C!AnswerHead, C!Put, ConBase, C!Threads, MainLabels, ReaderLabels
  <2>0. out' \in Seq(ConOut)
    <3>1. C!Head1(taken.rid) \in ConOut
      BY DEF C!Head1, ConOut, ConBase, ConTypeInv, ConRead
    <3> QED BY <1>16, <3>1, AppendSeq DEF C!AnswerHead, C!Put, ConBase, ConTypeInv
  <2>2. ConTypeInv'
    BY <1>16, <2>1, <2>0 DEF C!AnswerHead, C!Put, ConBase, ConTypeInv, C!Threads, MainLabels, ReaderLabels, C!Head1, ConOut, ConRead
  <2>3. ConLockInv'
    BY <1>16, <2>1 DEF C!AnswerHead, C!Put, ConBase, ConTypeInv, ConLockInv
  <2>4. ConReqInv'
    BY <1>16, <2>1 DEF C!AnswerHead, C!Put, ConBase, ConTypeInv, ConReqInv
  <2> QED BY <2>2, <2>3, <2>4 DEF ConBase
<1>17. CASE C!AnswerData
  <2>1. pc' \in Places /\ pc'["reader"] = "answered" /\ pc'["main"] = pc["main"]
    BY <1>17, GotoPlaces DEF C!AnswerData, C!Put, ConBase, C!Threads, MainLabels, ReaderLabels
  <2>0. out' \in Seq(ConOut)
    <3>1. C!Body(taken.rid, data) \in ConOut
      BY DEF C!Body, ConOut, ConBase, ConTypeInv, ConRead
    <3> QED BY <1>17, <3>1, AppendSeq DEF C!AnswerData, C!Put, ConBase, ConTypeInv
  <2>2. ConTypeInv'
    BY <1>17, <2>1, <2>0 DEF C!AnswerData, C!Put, ConBase, ConTypeInv, C!Threads, MainLabels, ReaderLabels, C!Body, ConOut, ConRead
  <2>3. ConLockInv'
    BY <1>17, <2>1 DEF C!AnswerData, C!Put, ConBase, ConTypeInv, ConLockInv
  <2>4. ConReqInv'
    BY <1>17, <2>1 DEF C!AnswerData, C!Put, ConBase, ConTypeInv, ConReqInv
  <2> QED BY <2>2, <2>3, <2>4 DEF ConBase
<1>18. CASE C!AnswerUnlock
  <2>1. pc' \in Places /\ pc'["reader"] = "idle" /\ pc'["main"] = pc["main"]
    BY <1>18, GotoPlaces DEF C!AnswerUnlock, C!Unlock, ConBase, C!Threads, MainLabels, ReaderLabels
  <2>2. ConTypeInv'
    BY <1>18, <2>1 DEF C!AnswerUnlock, C!Unlock, ConBase, ConTypeInv, C!Threads, MainLabels, ReaderLabels
  <2>3. ConLockInv'
    BY <1>18, <2>1 DEF C!AnswerUnlock, C!Unlock, ConBase, ConTypeInv, ConLockInv
  <2>4. ConReqInv'
    BY <1>18, <2>1 DEF C!AnswerUnlock, C!Unlock, ConBase, ConTypeInv, ConReqInv
  <2> QED BY <2>2, <2>3, <2>4 DEF ConBase
<1>19. CASE C!Break
  BY <1>19 DEF C!Break, ConBase, ConTypeInv, ConLockInv, ConReqInv
<1>20. CASE UNCHANGED C!vars
  BY <1>20 DEF C!vars, ConBase, ConTypeInv, ConLockInv, ConReqInv
<1>21. CASE C!Malloc
  <2>1. pc' \in Places /\ pc'["main"] = "malloc" /\ pc'["reader"] = pc["reader"]
    BY <1>21, GotoPlaces DEF C!Malloc, C!Inner, ConBase, C!Threads, MainLabels, ReaderLabels
  <2>2. ConTypeInv'
    BY <1>21, <2>1 DEF C!Malloc, C!Inner, ConBase, ConTypeInv, C!Threads, MainLabels, ReaderLabels
  <2>3. ConLockInv'
    BY <1>21, <2>1 DEF C!Malloc, C!Inner, ConBase, ConTypeInv, ConLockInv
  <2>4. ConReqInv'
    BY <1>21, <2>1 DEF C!Malloc, C!Inner, ConBase, ConTypeInv, ConReqInv
  <2> QED BY <2>2, <2>3, <2>4 DEF ConBase
<1>22. CASE C!Malloced
  <2>1. pc' \in Places /\ pc'["main"] = "made" /\ pc'["reader"] = pc["reader"]
    BY <1>22, GotoPlaces DEF C!Malloced, C!Inner, ConBase, C!Threads, MainLabels, ReaderLabels
  <2>2. ConTypeInv'
    BY <1>22, <2>1 DEF C!Malloced, C!Inner, ConBase, ConTypeInv, C!Threads, MainLabels, ReaderLabels
  <2>3. ConLockInv'
    BY <1>22, <2>1 DEF C!Malloced, C!Inner, ConBase, ConTypeInv, ConLockInv
  <2>4. ConReqInv'
    BY <1>22, <2>1 DEF C!Malloced, C!Inner, ConBase, ConTypeInv, ConReqInv
  <2> QED BY <2>2, <2>3, <2>4 DEF ConBase
<1>23. CASE C!Free
  <2>1. pc' \in Places /\ pc'["reader"] = "free" /\ pc'["main"] = pc["main"]
    BY <1>23, GotoPlaces DEF C!Free, C!Inner, ConBase, C!Threads, MainLabels, ReaderLabels
  <2>2. ConTypeInv'
    BY <1>23, <2>1 DEF C!Free, C!Inner, ConBase, ConTypeInv, C!Threads, MainLabels, ReaderLabels
  <2>3. ConLockInv'
    BY <1>23, <2>1 DEF C!Free, C!Inner, ConBase, ConTypeInv, ConLockInv
  <2>4. ConReqInv'
    BY <1>23, <2>1 DEF C!Free, C!Inner, ConBase, ConTypeInv, ConReqInv
  <2> QED BY <2>2, <2>3, <2>4 DEF ConBase
<1>24. CASE C!Freed
  <2>1. pc' \in Places /\ pc'["reader"] = "freed" /\ pc'["main"] = pc["main"]
    BY <1>24, GotoPlaces DEF C!Freed, C!Inner, ConBase, C!Threads, MainLabels, ReaderLabels
  <2>2. ConTypeInv'
    BY <1>24, <2>1 DEF C!Freed, C!Inner, ConBase, ConTypeInv, C!Threads, MainLabels, ReaderLabels
  <2>3. ConLockInv'
    BY <1>24, <2>1 DEF C!Freed, C!Inner, ConBase, ConTypeInv, ConLockInv
  <2>4. ConReqInv'
    BY <1>24, <2>1 DEF C!Freed, C!Inner, ConBase, ConTypeInv, ConReqInv
  <2> QED BY <2>2, <2>3, <2>4 DEF ConBase
<1> QED BY <1>1, <1>2, <1>3, <1>4, <1>5, <1>6, <1>7, <1>8, <1>9, <1>10, <1>11, <1>12, <1>13, <1>14, <1>15, <1>16, <1>17, <1>18, <1>19, <1>20,
          <1>21, <1>22, <1>23, <1>24 DEF C!Next, C!Main, C!Reader

(* What the steps that change a sequence do to it.                         *)
LEMMA ConElements ==
  ASSUME ConBase
  PROVE  /\ DOMAIN readrequests = 1..Len(readrequests) /\ Len(readrequests) \in Nat
         /\ \A i \in DOMAIN readrequests : readrequests[i].rid \in Nat /\ readrequests[i].len \in Nat
         /\ DOMAIN asked = 1..Len(asked) /\ Len(asked) \in Nat /\ (asked = <<>> <=> Len(asked) = 0)
         /\ \A i \in DOMAIN asked : asked[i].rid = i /\ asked[i].type \in C!Types /\ asked[i].len \in Nat
         /\ DOMAIN out = 1..Len(out) /\ Len(out) \in Nat /\ (out = <<>> <=> Len(out) = 0)
         /\ \A i \in DOMAIN out : out[i].part \in {"head", "data"} /\ out[i].rid \in Nat /\ out[i].data \in Seq(Nat)
         /\ DOMAIN data = 1..Len(data) /\ Len(data) \in Nat /\ \A k \in DOMAIN data : data[k] \in Nat
         /\ taken.rid \in Nat /\ taken.len \in Nat /\ req.rid \in Nat /\ req.len \in Nat
<1>1. \A i \in DOMAIN readrequests : readrequests[i] \in ConRead
  BY SeqElements DEF ConBase, ConTypeInv
<1>2. \A i \in DOMAIN asked : asked[i] \in ConReq
  BY SeqElements DEF ConBase, ConTypeInv
<1>3. \A i \in DOMAIN out : out[i] \in ConOut
  BY SeqElements DEF ConBase, ConTypeInv
<1>4. /\ DOMAIN readrequests = 1..Len(readrequests) /\ Len(readrequests) \in Nat
      /\ DOMAIN asked = 1..Len(asked) /\ Len(asked) \in Nat /\ (asked = <<>> <=> Len(asked) = 0)
      /\ DOMAIN out = 1..Len(out) /\ Len(out) \in Nat /\ (out = <<>> <=> Len(out) = 0)
      /\ DOMAIN data = 1..Len(data) /\ Len(data) \in Nat /\ \A k \in DOMAIN data : data[k] \in Nat
  BY SeqElements DEF ConBase, ConTypeInv
<1>5. taken \in ConRead /\ req \in ConReq /\ \A i \in DOMAIN asked : asked[i].rid = i
  BY DEF ConBase, ConTypeInv, ConReqInv
<1> QED BY <1>1, <1>2, <1>3, <1>4, <1>5 DEF ConRead, ConReq, ConOut

LEMMA RequestFacts ==
  ASSUME C!ConsoleAssumption, ConBase, NEW type \in C!Types, NEW len \in 0..MaxLen, C!Request(type, len)
  PROVE  /\ req' = [rid |-> Len(asked) + 1, type |-> type, len |-> len]
         /\ Len(asked') = Len(asked) + 1 /\ asked' # <<>>
         /\ \A i \in 1..Len(asked) : asked'[i] = asked[i]
         /\ asked'[Len(asked) + 1] = req'
         /\ DOMAIN asked' = 1..Len(asked) + 1 /\ DOMAIN asked = 1..Len(asked)
         /\ pc'["main"] = IF type = "read" THEN "add" ELSE "respond"
         /\ pc'["reader"] = pc["reader"] /\ pc["main"] = "request"
         /\ C!Reads' = C!Reads \cup IF type = "read" THEN {Len(asked) + 1} ELSE {}
<1>1. /\ req' = [rid |-> Len(asked) + 1, type |-> type, len |-> len] /\ asked' = Append(asked, req')
      /\ req' \in ConReq /\ pc["main"] = "request"
  BY DEF C!Request, ConBase, ConTypeInv, ConReq, C!ConsoleAssumption, C!At
<1>2. /\ Len(asked') = Len(asked) + 1
      /\ \A i \in 1..Len(asked) : asked'[i] = asked[i]
      /\ asked'[Len(asked) + 1] = req'
      /\ DOMAIN asked' = 1..Len(asked) + 1 /\ DOMAIN asked = 1..Len(asked) /\ Len(asked) \in Nat
  BY <1>1, AppendSeq, SeqElements DEF ConBase, ConTypeInv
<1>3. /\ pc'["main"] = IF type = "read" THEN "add" ELSE "respond"
      /\ pc'["reader"] = pc["reader"]
  BY GotoPlaces DEF C!Request, C!Dispatch, ConBase, C!Threads, MainLabels, ReaderLabels
<1>4. C!Reads' = C!Reads \cup IF type = "read" THEN {Len(asked) + 1} ELSE {}
  BY <1>1, <1>2 DEF C!Reads
<1>5. asked' # <<>>
  BY <1>1, <1>2
<1> QED BY <1>1, <1>2, <1>3, <1>4, <1>5

LEMMA AddFacts ==
  ASSUME ConBase, C!Add
  PROVE  /\ Len(readrequests') = Len(readrequests) + 1
         /\ DOMAIN readrequests' = 1..Len(readrequests) + 1 /\ DOMAIN readrequests = 1..Len(readrequests)
         /\ \A i \in 1..Len(readrequests) : readrequests'[i] = readrequests[i]
         /\ readrequests'[Len(readrequests) + 1] = [rid |-> req.rid, len |-> req.len]
         /\ pc["main"] = "append" /\ pc'["main"] = "added" /\ pc'["reader"] = pc["reader"]
<1>1. [rid |-> req.rid, len |-> req.len] \in ConRead
  BY DEF ConBase, ConTypeInv, ConRead, ConReq
<1>2. /\ readrequests' = Append(readrequests, [rid |-> req.rid, len |-> req.len])
      /\ readrequests \in Seq(ConRead)
  BY DEF C!Add, ConBase, ConTypeInv
<1>3. pc["main"] = "append" /\ pc'["main"] = "added" /\ pc'["reader"] = pc["reader"]
  BY GotoPlaces DEF C!Add, C!At, ConBase, C!Threads, MainLabels, ReaderLabels
<1> QED BY <1>1, <1>2, <1>3, AppendSeq

LEMMA PopFacts ==
  ASSUME ConBase, C!Pop
  PROVE  /\ DOMAIN readrequests' = 1..Len(readrequests) - 1 /\ DOMAIN readrequests = 1..Len(readrequests)
         /\ \A i \in 1..Len(readrequests) - 1 : readrequests'[i] = readrequests[i + 1]
         /\ Len(readrequests) \in Nat /\ 1 \in DOMAIN readrequests /\ taken = readrequests[1]
         /\ pc["reader"] = "pop" /\ pc'["reader"] = "popped" /\ pc'["main"] = pc["main"]
<1>1. /\ readrequests # <<>> /\ readrequests' = Tail(readrequests) /\ readrequests \in Seq(ConRead)
      /\ taken = Head(readrequests)
  BY DEF C!Pop, C!At, ConBase, ConTypeInv, ConLockInv
<1>2. pc["reader"] = "pop" /\ pc'["reader"] = "popped" /\ pc'["main"] = pc["main"]
  BY GotoPlaces DEF C!Pop, C!At, ConBase, C!Threads, MainLabels, ReaderLabels
<1> QED BY <1>1, <1>2, TailSeq, SeqElements

LEMMA TakeFacts ==
  ASSUME ConBase, C!Take
  PROVE  /\ 1 \in DOMAIN readrequests /\ taken' = readrequests[1] /\ data' = <<>>
         /\ pc["reader"] = "idle" /\ pc'["reader"] = "take" /\ pc'["main"] = pc["main"]
<1>1. readrequests # <<>> /\ readrequests \in Seq(ConRead) /\ taken' = Head(readrequests) /\ data' = <<>>
  BY DEF C!Take, ConBase, ConTypeInv
<1>2. pc["reader"] = "idle" /\ pc'["reader"] = "take" /\ pc'["main"] = pc["main"]
  BY GotoPlaces DEF C!Take, C!At, ConBase, C!Threads, MainLabels, ReaderLabels
<1> QED BY <1>1, <1>2, TailSeq

LEMMA CharFacts ==
  ASSUME ConBase, C!Char
  PROVE  /\ Len(data') = Len(data) + 1 /\ DOMAIN data' = 1..Len(data) + 1 /\ DOMAIN data = 1..Len(data)
         /\ \A k \in 1..Len(data) : data'[k] = data[k]
         /\ data'[Len(data) + 1] = typed + 1 /\ typed' = typed + 1
         /\ pc["reader"] = "chars" /\ pc' = pc /\ Len(data) < taken.len
<1>1. /\ data' = Append(data, typed') /\ typed' = typed + 1 /\ data \in Seq(Nat) /\ typed' \in Nat
      /\ pc["reader"] = "chars" /\ pc' = pc /\ Len(data) < taken.len
  BY DEF C!Char, C!At, ConBase, ConTypeInv
<1> QED BY <1>1, AppendSeq

(* What a write to the pipe does to what the kernel has read.              *)
LEMMA PutFacts ==
  ASSUME ConBase, NEW what \in ConOut, out' = Append(out, what)
  PROVE  /\ Len(out') = Len(out) + 1 /\ DOMAIN out' = 1..Len(out) + 1 /\ DOMAIN out = 1..Len(out)
         /\ \A i \in 1..Len(out) : out'[i] = out[i]
         /\ out'[Len(out) + 1] = what /\ out' # <<>>
         /\ C!Bodies' = C!Bodies \cup IF what.part = "data" THEN {Len(out) + 1} ELSE {}
<1>1. /\ Len(out') = Len(out) + 1 /\ DOMAIN out' = 1..Len(out) + 1 /\ DOMAIN out = 1..Len(out)
      /\ \A i \in 1..Len(out) : out'[i] = out[i]
      /\ out'[Len(out) + 1] = what /\ Len(out) \in Nat
  BY AppendSeq, SeqElements DEF ConBase, ConTypeInv
<1>2. C!Bodies' = C!Bodies \cup IF what.part = "data" THEN {Len(out) + 1} ELSE {}
  BY <1>1 DEF C!Bodies
<1>3. out' # <<>>
  BY <1>1
<1> QED BY <1>1, <1>2, <1>3

-----------------------------------------------------------------------------
(* Steps that move a thread and change no request, no read and no data.    *)
Calm ==
  /\ UNCHANGED <<readrequests, req, taken, data, typed, asked, out, link>>
  /\ pc'["main"] # "request" => pc["main"] # "request"
  /\ Adding' => Adding
  /\ Adding => Adding' \/ req.rid \in unheard'
  /\ unheard \subseteq unheard'
  /\ pc'["reader"] # "idle" => pc["reader"] # "idle"
  /\ pc["reader"] # "idle" => pc'["reader"] # "idle" \/ pc["reader"] = "answered"
  /\ Popped' => Popped
  /\ Reading' <=> Reading
  /\ pc'["reader"] = "answered" => pc["reader"] = "answered"
  /\ pc'["reader"] = "data" <=> pc["reader"] = "data"
  /\ pc'["reader"] \in {"free", "freed", "head", "data"} =>
       pc["reader"] \in {"free", "freed", "head", "data"} \/ Len(data) = taken.len

LEMMA CalmSteps ==
  ASSUME ConBase, C!NoMemory \/ C!AddLock \/ C!AddUnlock \/ C!RespondLock \/ C!RespondUnlock
                  \/ C!PopLock \/ C!PopUnlock \/ C!AnswerLock \/ C!AnswerUnlock
                  \/ C!Malloc \/ C!Malloced \/ C!Free \/ C!Freed
  PROVE  Calm
<1>1. CASE C!NoMemory
  <2>1. pc["main"] = "malloc" /\ pc'["main"] = "request" /\ pc'["reader"] = pc["reader"]
    BY <1>1, GotoPlaces DEF C!NoMemory, C!At, ConBase, C!Threads, MainLabels, ReaderLabels
  <2> QED BY <1>1, <2>1 DEF C!NoMemory, C!queue, C!input, Calm, Adding, Popped, Reading
<1>2. CASE C!AddLock
  <2>1. pc["main"] = "made" /\ pc'["main"] = "append" /\ pc'["reader"] = pc["reader"]
    BY <1>2, GotoPlaces DEF C!AddLock, C!Lock, C!At, ConBase, C!Threads, MainLabels, ReaderLabels
  <2> QED BY <1>2, <2>1 DEF C!AddLock, C!Lock, C!queue, C!input, Calm, Adding, Popped, Reading
<1>3. CASE C!AddUnlock
  <2>1. pc["main"] = "added" /\ pc'["main"] = "request" /\ pc'["reader"] = pc["reader"]
    BY <1>3, GotoPlaces DEF C!AddUnlock, C!Unlock, C!At, ConBase, C!Threads, MainLabels, ReaderLabels
  <2> QED BY <1>3, <2>1 DEF C!AddUnlock, C!Unlock, C!queue, C!input, Calm, Adding, Popped, Reading
<1>4. CASE C!RespondLock
  <2>1. pc["main"] = "respond" /\ pc'["main"] = "write" /\ pc'["reader"] = pc["reader"]
    BY <1>4, GotoPlaces DEF C!RespondLock, C!Lock, C!At, ConBase, C!Threads, MainLabels, ReaderLabels
  <2> QED BY <1>4, <2>1 DEF C!RespondLock, C!Lock, C!queue, C!input, Calm, Adding, Popped, Reading
<1>5. CASE C!RespondUnlock
  <2>1. pc["main"] = "written" /\ pc'["main"] = "request" /\ pc'["reader"] = pc["reader"]
    BY <1>5, GotoPlaces DEF C!RespondUnlock, C!Unlock, C!At, ConBase, C!Threads, MainLabels, ReaderLabels
  <2> QED BY <1>5, <2>1 DEF C!RespondUnlock, C!Unlock, C!queue, C!input, Calm, Adding, Popped, Reading
<1>6. CASE C!PopLock
  <2>1. pc["reader"] = "take" /\ pc'["reader"] = "pop" /\ pc'["main"] = pc["main"]
    BY <1>6, GotoPlaces DEF C!PopLock, C!Lock, C!At, ConBase, C!Threads, MainLabels, ReaderLabels
  <2> QED BY <1>6, <2>1 DEF C!PopLock, C!Lock, C!queue, C!input, Calm, Adding, Popped, Reading
<1>7. CASE C!PopUnlock
  <2>1. pc["reader"] = "popped" /\ pc'["reader"] = "chars" /\ pc'["main"] = pc["main"]
    BY <1>7, GotoPlaces DEF C!PopUnlock, C!Unlock, C!At, ConBase, C!Threads, MainLabels, ReaderLabels
  <2> QED BY <1>7, <2>1 DEF C!PopUnlock, C!Unlock, C!queue, C!input, Calm, Adding, Popped, Reading
<1>8. CASE C!AnswerLock
  <2>1. pc["reader"] = "freed" /\ pc'["reader"] = "head" /\ pc'["main"] = pc["main"]
    BY <1>8, GotoPlaces DEF C!AnswerLock, C!Lock, C!At, ConBase, C!Threads, MainLabels, ReaderLabels
  <2> QED BY <1>8, <2>1 DEF C!AnswerLock, C!Lock, C!queue, C!input, Calm, Adding, Popped, Reading
<1>9. CASE C!AnswerUnlock
  <2>1. pc["reader"] = "answered" /\ pc'["reader"] = "idle" /\ pc'["main"] = pc["main"]
    BY <1>9, GotoPlaces DEF C!AnswerUnlock, C!Unlock, C!At, ConBase, C!Threads, MainLabels, ReaderLabels
  <2> QED BY <1>9, <2>1 DEF C!AnswerUnlock, C!Unlock, C!queue, C!input, Calm, Adding, Popped, Reading
<1>10. CASE C!Malloc
  <2>1. pc["main"] = "add" /\ pc'["main"] = "malloc" /\ pc'["reader"] = pc["reader"]
    BY <1>10, GotoPlaces DEF C!Malloc, C!Inner, C!At, ConBase, C!Threads, MainLabels, ReaderLabels
  <2> QED BY <1>10, <2>1 DEF C!Malloc, C!Inner, C!queue, C!input, Calm, Adding, Popped, Reading
<1>11. CASE C!Malloced
  <2>1. pc["main"] = "malloc" /\ pc'["main"] = "made" /\ pc'["reader"] = pc["reader"]
    BY <1>11, GotoPlaces DEF C!Malloced, C!Inner, C!At, ConBase, C!Threads, MainLabels, ReaderLabels
  <2> QED BY <1>11, <2>1 DEF C!Malloced, C!Inner, C!queue, C!input, Calm, Adding, Popped, Reading
<1>12. CASE C!Free
  <2>1. pc["reader"] = "chars" /\ pc'["reader"] = "free" /\ pc'["main"] = pc["main"] /\ Len(data) = taken.len
    BY <1>12, GotoPlaces DEF C!Free, C!Inner, C!At, ConBase, C!Threads, MainLabels, ReaderLabels
  <2> QED BY <1>12, <2>1 DEF C!Free, C!Inner, C!queue, C!input, Calm, Adding, Popped, Reading
<1>13. CASE C!Freed
  <2>1. pc["reader"] = "free" /\ pc'["reader"] = "freed" /\ pc'["main"] = pc["main"]
    BY <1>13, GotoPlaces DEF C!Freed, C!Inner, C!At, ConBase, C!Threads, MainLabels, ReaderLabels
  <2> QED BY <1>13, <2>1 DEF C!Freed, C!Inner, C!queue, C!input, Calm, Adding, Popped, Reading
<1> QED BY <1>1, <1>2, <1>3, <1>4, <1>5, <1>6, <1>7, <1>8, <1>9, <1>10, <1>11, <1>12, <1>13

LEMMA CalmKeeps ==
  ASSUME ConsoleInv, link, Calm
  PROVE  LinkInv' /\ ConOutInv' /\ C!InOrder' /\ C!NoneLost'
<1>1. LinkInv /\ ConOutInv /\ C!InOrder /\ C!NoneLost
  BY DEF ConsoleInv
<1>2. /\ C!Bodies' = C!Bodies /\ C!Reads' = C!Reads /\ Chars' = Chars /\ Done' = Done
      /\ \A r : ReadAsked(r)' <=> ReadAsked(r)
  BY DEF Calm, C!Bodies, C!Reads, Chars, Done, ReadAsked
<1>3. ConQueueInv'
  BY <1>1, <1>2 DEF Calm, LinkInv, ConQueueInv, ReadAsked
<1>4. ConOldInv'
  BY <1>1, <1>2 DEF Calm, LinkInv, ConOldInv
<1>5. ConLastInv'
  BY <1>1, <1>2 DEF Calm, LinkInv, ConLastInv, C!Head1
<1>6. ConCharInv'
  BY <1>1, <1>2 DEF Calm, LinkInv, ConCharInv
<1>7. ConOutInv'
  BY <1>1, <1>2 DEF Calm, ConOutInv, C!Pairs
<1>8. C!InOrder'
  BY <1>1, <1>2 DEF Calm, C!InOrder
<1>9. C!NoneLost'
  <2> SUFFICES ASSUME NEW rid \in C!Reads' \ unheard'
               PROVE  C!Pending(rid)' \/ \E i \in C!Bodies' : out'[i].rid = rid
    BY DEF C!NoneLost
  <2>1. rid \in C!Reads \ unheard
    BY <1>2 DEF Calm
  <2>2. C!Pending(rid) \/ \E i \in C!Bodies : out[i].rid = rid
    BY <1>1, <2>1 DEF C!NoneLost
  <2>3. CASE \E i \in C!Bodies : out[i].rid = rid
    BY <1>2, <2>3 DEF Calm
  <2>4. CASE rid \in {readrequests[i].rid : i \in DOMAIN readrequests}
    BY <2>4 DEF Calm, C!Pending
  <2>5. CASE taken.rid = rid /\ pc["reader"] # "idle"
    <3>1. CASE pc'["reader"] # "idle"
      BY <2>5, <3>1 DEF Calm, C!Pending, C!At
    <3>2. CASE pc["reader"] = "answered"
      BY <1>1, <1>2, <2>5, <3>2 DEF Calm, LinkInv, ConLastInv
    <3> QED BY <2>5, <3>1, <3>2 DEF Calm
  <2>6. CASE req.rid = rid /\ Adding
    BY <2>6 DEF Calm, C!Pending, Adding
  <2> QED BY <2>2, <2>3, <2>4, <2>5, <2>6 DEF C!Pending, C!At, Adding
<1> QED BY <1>3, <1>4, <1>5, <1>6, <1>7, <1>8, <1>9 DEF LinkInv

(* The steps that change a request, a read or what was answered.           *)
LEMMA RequestKeeps ==
  ASSUME C!ConsoleAssumption, ConsoleInv, link, NEW type \in C!Types, NEW len \in 0..MaxLen, C!Request(type, len)
  PROVE  LinkInv' /\ ConOutInv' /\ C!InOrder' /\ C!NoneLost'
<1>1. ConBase /\ LinkInv /\ ConOutInv /\ C!InOrder /\ C!NoneLost
  BY DEF ConsoleInv, ConBase
<1>2. /\ req' = [rid |-> Len(asked) + 1, type |-> type, len |-> len]
      /\ Len(asked') = Len(asked) + 1 /\ asked' # <<>>
      /\ \A i \in 1..Len(asked) : asked'[i] = asked[i]
      /\ asked'[Len(asked) + 1] = req'
      /\ DOMAIN asked' = 1..Len(asked) + 1 /\ DOMAIN asked = 1..Len(asked)
      /\ pc'["main"] = IF type = "read" THEN "add" ELSE "respond"
      /\ pc'["reader"] = pc["reader"] /\ pc["main"] = "request"
      /\ C!Reads' = C!Reads \cup IF type = "read" THEN {Len(asked) + 1} ELSE {}
  BY <1>1, RequestFacts
<1>3. UNCHANGED <<readrequests, taken, data, typed, out, unheard>>
  BY DEF C!Request, C!queue, C!input
<1>4. C!Reads \subseteq 1..Len(asked) /\ Len(asked) \in Nat
  BY <1>1, <1>2, ConElements DEF C!Reads
<1>5. \A r : ReadAsked(r) => ReadAsked(r)'
  BY <1>2, <1>4 DEF ReadAsked
<1>6. C!Bodies' = C!Bodies /\ Chars' = Chars /\ Done' = Done
  BY <1>2, <1>3 DEF C!Bodies, Chars, Done, Reading
<1>7. /\ taken.rid \in Nat /\ taken.rid <= Len(asked)
      /\ \A i \in DOMAIN readrequests : readrequests[i].rid \in Nat /\ readrequests[i].rid <= Len(asked)
  BY <1>1, ConElements DEF ConBase, ConReqInv
<1>8. ConQueueInv'
  BY <1>1, <1>2, <1>3, <1>4, <1>5, <1>7 DEF LinkInv, ConQueueInv, Adding, Popped
<1>9. ConOldInv'
  BY <1>1, <1>2, <1>3, <1>4, <1>6 DEF LinkInv, ConOldInv, ConOutInv, Adding, Reading, C!Bodies
<1>10. ConLastInv'
  <2>1. Len(out) \in Nat /\ DOMAIN out = 1..Len(out) /\ (out # <<>> => Len(out) \in DOMAIN out)
    BY <1>1, ConElements
  <2>2. out # <<>> => out[Len(out)].rid \in C!Reads' <=> out[Len(out)].rid \in C!Reads
    BY <1>1, <1>2, <1>4, <2>1 DEF ConOutInv
  <2> QED BY <1>1, <1>2, <1>3, <1>6, <2>2 DEF LinkInv, ConLastInv, C!Head1
<1>11. ConCharInv'
  BY <1>1, <1>2, <1>3, <1>6 DEF LinkInv, ConCharInv, Reading
<1>12. ConOutInv'
  <2>1. \A i \in DOMAIN out : out[i].rid \in C!Reads' <=> out[i].rid \in C!Reads
    BY <1>1, <1>2, <1>4 DEF ConOutInv
  <2>2. \A i \in DOMAIN out' : out'[i].rid \in DOMAIN asked'
    BY <1>1, <1>2, <1>3, <1>4 DEF ConOutInv
  <2>3. \A b \in C!Bodies' : out'[b].rid \in C!Reads'
    BY <1>1, <1>2, <1>3, <1>6 DEF ConOutInv
  <2>4. C!Pairs'
    BY <1>1, <1>3, <2>1 DEF ConOutInv, C!Pairs, C!Head1
  <2> QED BY <2>2, <2>3, <2>4 DEF ConOutInv
<1>13. C!InOrder'
  <2>1. \A i \in C!Bodies : asked'[out[i].rid] = asked[out[i].rid]
    BY <1>1, <1>2, <1>4 DEF ConOutInv
  <2> QED BY <1>1, <1>3, <1>6, <2>1 DEF C!InOrder
<1>14. C!NoneLost'
  <2> SUFFICES ASSUME NEW rid \in C!Reads' \ unheard
               PROVE  C!Pending(rid)' \/ \E i \in C!Bodies : out[i].rid = rid
    BY <1>3, <1>6 DEF C!NoneLost
  <2>1. CASE rid \in C!Reads
    <3>1. C!Pending(rid) \/ \E i \in C!Bodies : out[i].rid = rid
      BY <1>1, <2>1 DEF C!NoneLost
    <3> QED BY <1>2, <1>3, <3>1 DEF C!Pending, C!At
  <2>2. CASE type = "read" /\ rid = Len(asked) + 1
    BY <1>2, <2>2 DEF C!Pending
  <2> QED BY <1>2, <2>1, <2>2
<1> QED BY <1>8, <1>9, <1>10, <1>11, <1>12, <1>13, <1>14 DEF LinkInv

LEMMA AddKeeps ==
  ASSUME C!ConsoleAssumption, ConsoleInv, link, C!Add
  PROVE  LinkInv' /\ ConOutInv' /\ C!InOrder' /\ C!NoneLost'
<1>1. ConBase /\ LinkInv /\ ConOutInv /\ C!InOrder /\ C!NoneLost
  BY DEF ConsoleInv, ConBase
<1>2. /\ Len(readrequests') = Len(readrequests) + 1
      /\ DOMAIN readrequests' = 1..Len(readrequests) + 1 /\ DOMAIN readrequests = 1..Len(readrequests)
      /\ \A i \in 1..Len(readrequests) : readrequests'[i] = readrequests[i]
      /\ readrequests'[Len(readrequests) + 1] = [rid |-> req.rid, len |-> req.len]
      /\ pc["main"] = "append" /\ pc'["main"] = "added" /\ pc'["reader"] = pc["reader"]
  BY <1>1, AddFacts
<1>3. UNCHANGED <<req, taken, data, typed, asked, out, unheard>>
  BY DEF C!Add, C!input
<1>4. /\ req.rid = Len(asked) /\ ReadAsked(req) /\ Len(readrequests) \in Nat
  <2>1. asked # <<>> /\ req.type = "read"
    BY <1>1, <1>2 DEF LinkInv, ConQueueInv, ConBase, ConReqInv
  <2>2. Len(asked) \in DOMAIN asked /\ req = asked[Len(asked)]
    BY <1>1, <2>1, ConElements DEF ConBase, ConReqInv
  <2> QED BY <1>1, <2>1, <2>2, ConElements DEF ReadAsked, C!Reads
<1>5. \A r : ReadAsked(r)' <=> ReadAsked(r)
  BY <1>3 DEF ReadAsked, C!Reads
<1>6. C!Bodies' = C!Bodies /\ C!Reads' = C!Reads /\ Chars' = Chars /\ Done' = Done /\ Adding /\ ~Adding' /\ (Reading' <=> Reading) /\ (Popped' <=> Popped)
  BY <1>2, <1>3 DEF C!Bodies, C!Reads, Chars, Done, Reading, Adding, Popped
<1>7. ConQueueInv'
  <2>1. \A i \in DOMAIN readrequests' : i \in DOMAIN readrequests \/ i = Len(readrequests) + 1
    BY <1>2, <1>4
  <2>2. \A i \in DOMAIN readrequests' : ReadAsked(readrequests'[i])
    BY <1>1, <1>2, <1>4, <2>1 DEF LinkInv, ConQueueInv, ReadAsked
  <2>3. \A i, j \in DOMAIN readrequests' : i < j => readrequests'[i].rid < readrequests'[j].rid
    BY <1>1, <1>2, <1>4, <1>6, <2>1 DEF LinkInv, ConQueueInv
  <2>4. Popped' => \A i \in DOMAIN readrequests' : taken.rid < readrequests'[i].rid
    BY <1>1, <1>2, <1>4, <1>6, <2>1 DEF LinkInv, ConQueueInv, Popped
  <2>5. pc'["reader"] # "idle" => ReadAsked(taken)'
    BY <1>1, <1>2, <1>3, <1>5 DEF LinkInv, ConQueueInv
  <2>6. asked' # <<>>
    BY <1>1, <1>2, <1>3 DEF LinkInv, ConQueueInv
  <2> QED BY <1>3, <1>5, <1>6, <2>2, <2>3, <2>4, <2>5, <2>6 DEF ConQueueInv
<1>8. ConOldInv'
  <2>1. \A i \in DOMAIN readrequests' : i \in DOMAIN readrequests \/ i = Len(readrequests) + 1
    BY <1>2, <1>4
  <2> QED BY <1>1, <1>2, <1>3, <1>4, <1>6, <2>1 DEF LinkInv, ConOldInv
<1>9. ConLastInv'
  BY <1>1, <1>2, <1>3, <1>6 DEF LinkInv, ConLastInv, C!Head1
<1>10. ConCharInv'
  BY <1>1, <1>2, <1>3, <1>6 DEF LinkInv, ConCharInv
<1>11. ConOutInv'
  BY <1>1, <1>3, <1>6 DEF ConOutInv, C!Pairs, C!Head1
<1>12. C!InOrder'
  BY <1>1, <1>3, <1>6 DEF C!InOrder
<1>13. C!NoneLost'
  <2> SUFFICES ASSUME NEW rid \in C!Reads \ unheard
               PROVE  C!Pending(rid)' \/ \E i \in C!Bodies : out[i].rid = rid
    BY <1>3, <1>6 DEF C!NoneLost
  <2>1. C!Pending(rid) \/ \E i \in C!Bodies : out[i].rid = rid
    BY <1>1 DEF C!NoneLost
  <2>2. ASSUME NEW i \in DOMAIN readrequests PROVE i \in DOMAIN readrequests' /\ readrequests'[i] = readrequests[i]
    BY <1>2, <1>4
  <2>3. Len(readrequests) + 1 \in DOMAIN readrequests'
    BY <1>2, <1>4
  <2> QED BY <1>2, <1>3, <2>1, <2>2, <2>3 DEF C!Pending, C!At
<1> QED BY <1>7, <1>8, <1>9, <1>10, <1>11, <1>12, <1>13 DEF LinkInv

(* A head that follows no head of a read.                                  *)
LEMMA HeadKeepsOut ==
  ASSUME ConBase, ConOutInv, C!InOrder, NEW rid \in DOMAIN asked, out' = Append(out, C!Head1(rid)),
         UNCHANGED <<asked, typed>>,
         out # <<>> => ~(out[Len(out)].part = "head" /\ out[Len(out)].rid \in C!Reads)
  PROVE  ConOutInv' /\ C!InOrder'
<1>1. C!Head1(rid) \in ConOut /\ C!Head1(rid).part = "head" /\ C!Head1(rid).rid = rid
  BY ConElements DEF C!Head1, ConOut
<1>2. /\ Len(out') = Len(out) + 1 /\ DOMAIN out' = 1..Len(out) + 1 /\ DOMAIN out = 1..Len(out)
      /\ \A i \in 1..Len(out) : out'[i] = out[i]
      /\ out'[Len(out) + 1] = C!Head1(rid) /\ Len(out) \in Nat /\ (out = <<>> <=> Len(out) = 0)
      /\ C!Bodies' = C!Bodies
  BY <1>1, PutFacts, ConElements
<1>3. C!Reads' = C!Reads /\ C!Bodies \subseteq 1..Len(out) /\ \A b \in C!Bodies : out'[b] = out[b]
  BY <1>2 DEF C!Reads, C!Bodies
<1>4. \A i \in DOMAIN out' : out'[i].rid \in DOMAIN asked'
  BY <1>1, <1>2 DEF ConOutInv
<1>5. \A b \in C!Bodies' : out'[b].rid \in C!Reads'
  BY <1>2, <1>3 DEF ConOutInv
<1>6. ASSUME NEW i \in DOMAIN out', out'[i].part = "data" PROVE i > 1 /\ out'[i - 1] = C!Head1(out'[i].rid)
  <2>1. i \in DOMAIN out
    BY <1>1, <1>2, <1>6
  <2>2. out'[i] = out[i] /\ i > 1 /\ out[i - 1] = C!Head1(out[i].rid)
    BY <1>2, <1>6, <2>1 DEF ConOutInv, C!Pairs
  <2>3. i - 1 \in 1..Len(out)
    BY <1>2, <2>1, <2>2
  <2> QED BY <1>2, <2>2, <2>3
<1>7. ASSUME NEW i \in DOMAIN out', out'[i].part = "head", out'[i].rid \in C!Reads', i < Len(out')
      PROVE  out'[i + 1].part = "data"
  <2>1. i \in 1..Len(out) /\ out[i].part = "head" /\ out[i].rid \in C!Reads
    BY <1>2, <1>3, <1>7
  <2>2. i # Len(out)
    BY <1>2, <2>1
  <2>3. i \in DOMAIN out /\ i < Len(out) /\ i + 1 \in 1..Len(out)
    BY <1>2, <2>1, <2>2
  <2>4. out[i + 1].part = "data"
    BY <2>1, <2>3 DEF ConOutInv, C!Pairs
  <2> QED BY <1>2, <2>3, <2>4
<1>8. UNION {C!ToSet(out'[i].data) : i \in C!Bodies'} = UNION {C!ToSet(out[i].data) : i \in C!Bodies}
  BY <1>2, <1>3
<1>9. C!InOrder'
  <2>1. \E n \in 0..typed' : UNION {C!ToSet(out'[i].data) : i \in C!Bodies'} = 1..n
    BY <1>8 DEF C!InOrder
  <2>2. \A i \in C!Bodies' : i \in C!Bodies /\ out'[i] = out[i]
    BY <1>2, <1>3
  <2>3. \A i, j \in C!Bodies' : \A k \in DOMAIN out'[i].data, l \in DOMAIN out'[j].data :
           i < j \/ (i = j /\ k < l) => out'[i].data[k] < out'[j].data[l]
    BY <2>2 DEF C!InOrder
  <2>4. \A i \in C!Bodies' : Len(out'[i].data) = asked'[out'[i].rid].len
    BY <2>2 DEF C!InOrder
  <2>5. \A i, j \in C!Bodies' : i < j => out'[i].rid < out'[j].rid
    BY <2>2 DEF C!InOrder
  <2> QED BY <2>1, <2>3, <2>4, <2>5 DEF C!InOrder
<1> QED BY <1>4, <1>5, <1>6, <1>7, <1>9 DEF ConOutInv, C!Pairs, C!Head1

LEMMA RespondKeeps ==
  ASSUME C!ConsoleAssumption, ConsoleInv, link, C!Respond
  PROVE  LinkInv' /\ ConOutInv' /\ C!InOrder' /\ C!NoneLost'
<1>1. ConBase /\ LinkInv /\ ConOutInv /\ C!InOrder /\ C!NoneLost
  BY DEF ConsoleInv, ConBase
<1>2. /\ out' = Append(out, C!Head1(req.rid)) /\ UNCHANGED <<readrequests, req, taken, data, typed, asked, unheard>>
      /\ pc["main"] = "write" /\ pc'["main"] = "written" /\ pc'["reader"] = pc["reader"]
  BY <1>1, GotoPlaces DEF C!Respond, C!Put, C!At, C!queue, C!input, ConBase, C!Threads, MainLabels, ReaderLabels
<1>3. C!Head1(req.rid) \in ConOut /\ C!Head1(req.rid).part = "head" /\ C!Head1(req.rid).rid = req.rid
  <2>1. req.rid \in Nat
    BY <1>1, ConElements
  <2> QED BY <2>1 DEF C!Head1, ConOut
<1>4. /\ Len(out') = Len(out) + 1 /\ DOMAIN out' = 1..Len(out) + 1 /\ DOMAIN out = 1..Len(out)
      /\ \A i \in 1..Len(out) : out'[i] = out[i]
      /\ out'[Len(out) + 1] = C!Head1(req.rid) /\ out' # <<>> /\ Len(out) \in Nat
      /\ C!Bodies' = C!Bodies
  BY <1>1, <1>2, <1>3, PutFacts, ConElements
<1>5. req.rid \in DOMAIN asked /\ req.rid \notin C!Reads
  <2>1. asked # <<>> /\ req.type = "other"
    BY <1>1, <1>2 DEF LinkInv, ConQueueInv, ConBase, ConReqInv
  <2>2. Len(asked) \in DOMAIN asked /\ req = asked[Len(asked)]
    BY <1>1, <2>1, ConElements DEF ConBase, ConReqInv
  <2> QED BY <1>1, <2>1, <2>2, ConElements DEF C!Reads
<1>6. /\ C!Reads' = C!Reads /\ Done' = Done /\ ~Adding /\ ~Adding' /\ (Reading' <=> Reading) /\ (Popped' <=> Popped)
      /\ \A r : ReadAsked(r)' <=> ReadAsked(r)
  BY <1>2 DEF C!Reads, Done, Reading, Adding, Popped, ReadAsked
<1>7. C!Bodies \subseteq 1..Len(out) /\ \A b \in C!Bodies : out'[b] = out[b]
  BY <1>4 DEF C!Bodies
<1>8. pc["reader"] \notin {"data", "answered"}
  BY <1>1, <1>2 DEF ConBase, ConLockInv
<1>9. ConQueueInv'
  BY <1>1, <1>2, <1>6 DEF LinkInv, ConQueueInv
<1>10. ConOldInv'
  BY <1>1, <1>2, <1>4, <1>6, <1>7 DEF LinkInv, ConOldInv
<1>11. ConLastInv'
  BY <1>2, <1>3, <1>4, <1>5, <1>6, <1>8 DEF ConLastInv
<1>12. ConCharInv'
  <2>1. Chars' = Chars
    BY <1>4, <1>7 DEF Chars
  <2> QED BY <1>1, <1>2, <1>6, <2>1 DEF LinkInv, ConCharInv
<1>13. ConOutInv'
  BY <1>1, <1>2, <1>5, <1>8, HeadKeepsOut DEF LinkInv, ConLastInv
<1>14. C!InOrder'
  BY <1>1, <1>2, <1>5, <1>8, HeadKeepsOut DEF LinkInv, ConLastInv
<1>15. C!NoneLost'
  BY <1>1, <1>2, <1>4, <1>6, <1>7 DEF C!NoneLost, C!Pending, C!At
<1> QED BY <1>9, <1>10, <1>11, <1>12, <1>13, <1>14, <1>15 DEF LinkInv

LEMMA TakeKeeps ==
  ASSUME C!ConsoleAssumption, ConsoleInv, link, C!Take
  PROVE  LinkInv' /\ ConOutInv' /\ C!InOrder' /\ C!NoneLost'
<1>1. ConBase /\ LinkInv /\ ConOutInv /\ C!InOrder /\ C!NoneLost
  BY DEF ConsoleInv, ConBase
<1>2. /\ 1 \in DOMAIN readrequests /\ taken' = readrequests[1] /\ data' = <<>>
      /\ pc["reader"] = "idle" /\ pc'["reader"] = "take" /\ pc'["main"] = pc["main"]
  BY <1>1, TakeFacts
<1>3. UNCHANGED <<readrequests, req, typed, asked, out, unheard>>
  BY DEF C!Take, C!queue
<1>4. /\ C!Reads' = C!Reads /\ C!Bodies' = C!Bodies /\ Chars' = Chars /\ (Adding' <=> Adding) /\ ~Popped' /\ Reading' /\ ~Reading /\ ~Popped
      /\ \A r : ReadAsked(r)' <=> ReadAsked(r)
  BY <1>2, <1>3 DEF C!Reads, C!Bodies, Chars, Adding, Reading, Popped, ReadAsked
<1>5. typed \in Nat /\ Len(data') = 0 /\ Done' = typed /\ Done = typed /\ DOMAIN data' = {}
  BY <1>1, <1>2, <1>3, <1>4 DEF Done, ConBase, ConTypeInv
<1>6. taken'.len \in Nat
  BY <1>1, <1>2, ConElements
<1>7. ConQueueInv'
  <2>1. ReadAsked(taken')
    BY <1>1, <1>2 DEF LinkInv, ConQueueInv
  <2>2. ReadAsked(taken)'
    BY <1>3, <2>1 DEF ReadAsked, C!Reads
  <2>3. Adding => taken'.rid < Len(asked)
    BY <1>1, <1>2 DEF LinkInv, ConQueueInv
  <2> QED BY <1>1, <1>2, <1>3, <1>4, <2>2, <2>3 DEF LinkInv, ConQueueInv
<1>8. ConOldInv'
  BY <1>1, <1>2, <1>3, <1>4 DEF LinkInv, ConOldInv
<1>9. ConLastInv'
  BY <1>1, <1>2, <1>3, <1>4 DEF LinkInv, ConLastInv
<1>10. ConCharInv'
  BY <1>1, <1>2, <1>3, <1>4, <1>5, <1>6 DEF LinkInv, ConCharInv
<1>11. ConOutInv'
  BY <1>1, <1>3, <1>4 DEF ConOutInv, C!Pairs, C!Head1
<1>12. C!InOrder'
  BY <1>1, <1>3, <1>4 DEF C!InOrder
<1>13. C!NoneLost'
  BY <1>1, <1>2, <1>3, <1>4 DEF C!NoneLost, C!Pending, C!At
<1> QED BY <1>7, <1>8, <1>9, <1>10, <1>11, <1>12, <1>13 DEF LinkInv

LEMMA PopKeeps ==
  ASSUME C!ConsoleAssumption, ConsoleInv, link, C!Pop
  PROVE  LinkInv' /\ ConOutInv' /\ C!InOrder' /\ C!NoneLost'
<1>1. ConBase /\ LinkInv /\ ConOutInv /\ C!InOrder /\ C!NoneLost
  BY DEF ConsoleInv, ConBase
<1>2. /\ DOMAIN readrequests' = 1..Len(readrequests) - 1 /\ DOMAIN readrequests = 1..Len(readrequests)
      /\ \A i \in 1..Len(readrequests) - 1 : readrequests'[i] = readrequests[i + 1]
      /\ Len(readrequests) \in Nat /\ 1 \in DOMAIN readrequests /\ taken = readrequests[1]
      /\ pc["reader"] = "pop" /\ pc'["reader"] = "popped" /\ pc'["main"] = pc["main"]
  BY <1>1, PopFacts
<1>3. UNCHANGED <<req, taken, data, typed, asked, out, unheard>>
  BY DEF C!Pop, C!input
<1>4. /\ C!Reads' = C!Reads /\ C!Bodies' = C!Bodies /\ Chars' = Chars /\ (Adding' <=> Adding) /\ Popped' /\ Reading' /\ Reading /\ Done' = Done
      /\ \A r : ReadAsked(r)' <=> ReadAsked(r)
  BY <1>2, <1>3 DEF C!Reads, C!Bodies, Chars, Adding, Reading, Popped, Done, ReadAsked
<1>5. \A i \in DOMAIN readrequests' : i + 1 \in DOMAIN readrequests /\ readrequests'[i] = readrequests[i + 1] /\ 1 < i + 1
  BY <1>2
<1>6. ConQueueInv'
  <2>1. \A i \in DOMAIN readrequests' : ReadAsked(readrequests'[i]) /\ taken.rid < readrequests'[i].rid
    BY <1>1, <1>2, <1>5 DEF LinkInv, ConQueueInv
  <2>2. \A i, j \in DOMAIN readrequests' : i < j => readrequests'[i].rid < readrequests'[j].rid
    <3>1. \A i, j \in DOMAIN readrequests' : i < j => i + 1 < j + 1
      BY <1>2
    <3> QED BY <1>1, <1>5, <3>1 DEF LinkInv, ConQueueInv
  <2>3. Adding => \A i \in DOMAIN readrequests' : readrequests'[i].rid < Len(asked)
    BY <1>1, <1>5 DEF LinkInv, ConQueueInv
  <2>4. ReadAsked(taken) /\ (Adding => taken.rid < Len(asked))
    BY <1>1, <1>2 DEF LinkInv, ConQueueInv
  <2>5. pc'["main"] # "request" => asked' # <<>>
    BY <1>1, <1>2, <1>3 DEF LinkInv, ConQueueInv
  <2>6. (\A i \in DOMAIN readrequests' : ReadAsked(readrequests[i])') /\ ReadAsked(taken)'
    BY <1>3, <2>1, <2>4 DEF ReadAsked, C!Reads
  <2> QED BY <1>3, <1>4, <2>1, <2>2, <2>3, <2>4, <2>5, <2>6 DEF ConQueueInv
<1>7. ConOldInv'
  BY <1>1, <1>2, <1>3, <1>4, <1>5 DEF LinkInv, ConOldInv
<1>8. ConLastInv'
  BY <1>1, <1>2, <1>3, <1>4 DEF LinkInv, ConLastInv
<1>9. ConCharInv'
  BY <1>1, <1>2, <1>3, <1>4 DEF LinkInv, ConCharInv
<1>10. ConOutInv'
  BY <1>1, <1>3, <1>4 DEF ConOutInv, C!Pairs, C!Head1
<1>11. C!InOrder'
  BY <1>1, <1>3, <1>4 DEF C!InOrder
<1>12. C!NoneLost'
  <2> SUFFICES ASSUME NEW rid \in C!Reads \ unheard
               PROVE  C!Pending(rid)' \/ \E i \in C!Bodies : out[i].rid = rid
    BY <1>3, <1>4 DEF C!NoneLost
  <2>1. C!Pending(rid) \/ \E i \in C!Bodies : out[i].rid = rid
    BY <1>1 DEF C!NoneLost
  <2>2. ASSUME NEW i \in DOMAIN readrequests, i # 1 PROVE i - 1 \in DOMAIN readrequests' /\ readrequests'[i - 1] = readrequests[i]
    BY <1>2, <2>2
  <2>3. CASE \E i \in DOMAIN readrequests : readrequests[i].rid = rid
    BY <1>2, <1>3, <2>2, <2>3 DEF C!Pending, C!At
  <2> QED BY <1>2, <1>3, <2>1, <2>3 DEF C!Pending, C!At
<1> QED BY <1>6, <1>7, <1>8, <1>9, <1>10, <1>11, <1>12 DEF LinkInv

LEMMA CharKeeps ==
  ASSUME C!ConsoleAssumption, ConsoleInv, link, C!Char
  PROVE  LinkInv' /\ ConOutInv' /\ C!InOrder' /\ C!NoneLost'
<1>1. ConBase /\ LinkInv /\ ConOutInv /\ C!InOrder /\ C!NoneLost
  BY DEF ConsoleInv, ConBase
<1>2. /\ Len(data') = Len(data) + 1 /\ DOMAIN data' = 1..Len(data) + 1 /\ DOMAIN data = 1..Len(data)
      /\ \A k \in 1..Len(data) : data'[k] = data[k]
      /\ data'[Len(data) + 1] = typed + 1 /\ typed' = typed + 1
      /\ pc["reader"] = "chars" /\ pc' = pc /\ Len(data) < taken.len
  BY <1>1, CharFacts
<1>3. UNCHANGED <<readrequests, req, taken, asked, out, unheard>>
  BY DEF C!Char, C!queue
<1>4. /\ C!Reads' = C!Reads /\ C!Bodies' = C!Bodies /\ Chars' = Chars /\ (Adding' <=> Adding) /\ (Popped' <=> Popped) /\ Reading' /\ Reading
      /\ \A r : ReadAsked(r)' <=> ReadAsked(r)
  BY <1>2, <1>3 DEF C!Reads, C!Bodies, Chars, Adding, Reading, Popped, ReadAsked
<1>5. Len(data) \in Nat /\ typed \in Nat /\ taken.len \in Nat
  BY <1>1, ConElements DEF ConBase, ConTypeInv
<1>6. Done' = Done /\ Done = typed - Len(data)
  BY <1>2, <1>4, <1>5 DEF Done
<1>7. ConQueueInv'
  BY <1>1, <1>2, <1>3, <1>4 DEF LinkInv, ConQueueInv
<1>8. ConOldInv'
  BY <1>1, <1>2, <1>3, <1>4 DEF LinkInv, ConOldInv
<1>9. ConLastInv'
  BY <1>1, <1>2, <1>3, <1>4 DEF LinkInv, ConLastInv, C!Head1
<1>10. ConCharInv'
  <2>1. Len(data') <= typed' /\ Len(data') <= taken.len
    BY <1>1, <1>2, <1>5 DEF LinkInv, ConCharInv
  <2>2. ASSUME NEW k \in DOMAIN data' PROVE data'[k] = Done + k
    <3>1. CASE k \in 1..Len(data)
      BY <1>1, <1>2, <1>4, <3>1 DEF LinkInv, ConCharInv
    <3>2. CASE k = Len(data) + 1
      BY <1>2, <1>5, <1>6, <3>2
    <3> QED BY <1>2, <1>5, <3>1, <3>2
  <2> QED BY <1>1, <1>2, <1>3, <1>4, <1>6, <2>1, <2>2 DEF LinkInv, ConCharInv
<1>11. ConOutInv'
  BY <1>1, <1>3, <1>4 DEF ConOutInv, C!Pairs, C!Head1
<1>12. C!InOrder'
  <2>1. 0..typed \subseteq 0..typed'
    BY <1>2, <1>5
  <2> QED BY <1>1, <1>3, <1>4, <2>1 DEF C!InOrder
<1>13. C!NoneLost'
  BY <1>1, <1>2, <1>3, <1>4 DEF C!NoneLost, C!Pending, C!At
<1> QED BY <1>7, <1>8, <1>9, <1>10, <1>11, <1>12, <1>13 DEF LinkInv

LEMMA AnswerHeadKeeps ==
  ASSUME C!ConsoleAssumption, ConsoleInv, link, C!AnswerHead
  PROVE  LinkInv' /\ ConOutInv' /\ C!InOrder' /\ C!NoneLost'
<1>1. ConBase /\ LinkInv /\ ConOutInv /\ C!InOrder /\ C!NoneLost
  BY DEF ConsoleInv, ConBase
<1>2. /\ out' = Append(out, C!Head1(taken.rid)) /\ UNCHANGED <<readrequests, req, taken, data, typed, asked, unheard>>
      /\ pc["reader"] = "head" /\ pc'["reader"] = "data" /\ pc'["main"] = pc["main"]
  BY <1>1, GotoPlaces DEF C!AnswerHead, C!Put, C!At, C!queue, C!input, ConBase, C!Threads, MainLabels, ReaderLabels
<1>3. taken.rid \in C!Reads /\ taken.rid \in DOMAIN asked
  BY <1>1, <1>2 DEF LinkInv, ConQueueInv, ReadAsked, C!Reads
<1>4. C!Head1(taken.rid) \in ConOut /\ C!Head1(taken.rid).part = "head"
  <2>1. taken.rid \in Nat
    BY <1>1, ConElements
  <2> QED BY <2>1 DEF C!Head1, ConOut
<1>5. /\ Len(out') = Len(out) + 1 /\ DOMAIN out' = 1..Len(out) + 1 /\ DOMAIN out = 1..Len(out)
      /\ \A i \in 1..Len(out) : out'[i] = out[i]
      /\ out'[Len(out) + 1] = C!Head1(taken.rid) /\ out' # <<>> /\ Len(out) \in Nat
      /\ C!Bodies' = C!Bodies
  BY <1>1, <1>2, <1>4, PutFacts, ConElements
<1>6. /\ C!Reads' = C!Reads /\ Done' = Done /\ (Adding' <=> Adding) /\ Reading' /\ Reading /\ Popped' /\ Popped
      /\ \A r : ReadAsked(r)' <=> ReadAsked(r)
  BY <1>2 DEF C!Reads, Done, Reading, Adding, Popped, ReadAsked
<1>7. C!Bodies \subseteq 1..Len(out) /\ \A b \in C!Bodies : out'[b] = out[b]
  BY <1>5 DEF C!Bodies
<1>8. ConQueueInv'
  BY <1>1, <1>2, <1>6 DEF LinkInv, ConQueueInv
<1>9. ConOldInv'
  BY <1>1, <1>2, <1>5, <1>6, <1>7 DEF LinkInv, ConOldInv
<1>10. ConLastInv'
  <2>1. out'[Len(out')] = C!Head1(taken.rid) /\ out' # <<>>
    BY <1>5
  <2>2. C!Head1(taken.rid)' = C!Head1(taken.rid)
    BY <1>2 DEF C!Head1
  <2> QED BY <1>2, <2>1, <2>2 DEF ConLastInv, C!Head1
<1>11. ConCharInv'
  <2>1. Chars' = Chars
    BY <1>5, <1>7 DEF Chars
  <2> QED BY <1>1, <1>2, <1>6, <2>1 DEF LinkInv, ConCharInv
<1>12. ConOutInv'
  BY <1>1, <1>2, <1>3, HeadKeepsOut DEF LinkInv, ConLastInv
<1>13. C!InOrder'
  BY <1>1, <1>2, <1>3, HeadKeepsOut DEF LinkInv, ConLastInv
<1>14. C!NoneLost'
  BY <1>1, <1>2, <1>5, <1>6, <1>7 DEF C!NoneLost, C!Pending, C!At
<1> QED BY <1>8, <1>9, <1>10, <1>11, <1>12, <1>13, <1>14 DEF LinkInv

LEMMA AnswerDataKeeps ==
  ASSUME C!ConsoleAssumption, ConsoleInv, link, C!AnswerData
  PROVE  LinkInv' /\ ConOutInv' /\ C!InOrder' /\ C!NoneLost'
<1>1. ConBase /\ LinkInv /\ ConOutInv /\ C!InOrder /\ C!NoneLost
  BY DEF ConsoleInv, ConBase
<1>2. /\ out' = Append(out, C!Body(taken.rid, data)) /\ UNCHANGED <<readrequests, req, taken, data, typed, asked, unheard>>
      /\ pc["reader"] = "data" /\ pc'["reader"] = "answered" /\ pc'["main"] = pc["main"]
  BY <1>1, GotoPlaces DEF C!AnswerData, C!Put, C!At, C!queue, C!input, ConBase, C!Threads, MainLabels, ReaderLabels
<1>3. taken.rid \in C!Reads /\ taken.rid \in DOMAIN asked /\ asked[taken.rid].len = taken.len
  BY <1>1, <1>2 DEF LinkInv, ConQueueInv, ReadAsked, C!Reads
<1>4. /\ C!Body(taken.rid, data) \in ConOut /\ C!Body(taken.rid, data).part = "data"
      /\ C!Body(taken.rid, data).rid = taken.rid /\ C!Body(taken.rid, data).data = data
  <2>1. taken.rid \in Nat /\ data \in Seq(Nat)
    BY <1>1, ConElements DEF ConBase, ConTypeInv
  <2> QED BY <2>1 DEF C!Body, ConOut
<1>5. /\ Len(out') = Len(out) + 1 /\ DOMAIN out' = 1..Len(out) + 1 /\ DOMAIN out = 1..Len(out)
      /\ \A i \in 1..Len(out) : out'[i] = out[i]
      /\ out'[Len(out) + 1] = C!Body(taken.rid, data) /\ out' # <<>> /\ Len(out) \in Nat
      /\ C!Bodies' = C!Bodies \cup {Len(out) + 1}
  BY <1>1, <1>2, <1>4, PutFacts, ConElements
<1>6. /\ C!Reads' = C!Reads /\ (Adding' <=> Adding) /\ ~Reading' /\ Reading /\ Popped' /\ Popped
      /\ Done = typed - Len(data) /\ Done' = typed
      /\ \A r : ReadAsked(r)' <=> ReadAsked(r)
  BY <1>2 DEF C!Reads, Done, Reading, Adding, Popped, ReadAsked
<1>7. C!Bodies \subseteq 1..Len(out) /\ Len(out) + 1 \notin C!Bodies /\ \A b \in C!Bodies : out'[b] = out[b]
  BY <1>5 DEF C!Bodies
<1>8. /\ out # <<>> /\ out[Len(out)] = C!Head1(taken.rid) /\ Len(data) = taken.len /\ Len(data) <= typed
      /\ \A k \in DOMAIN data : data[k] = Done + k
  BY <1>1, <1>2, <1>6 DEF LinkInv, ConLastInv, ConCharInv
<1>9. /\ DOMAIN data = 1..Len(data) /\ Len(data) \in Nat /\ typed \in Nat /\ Done \in Nat
  BY <1>1, <1>6, <1>8, ConElements DEF ConBase, ConTypeInv
<1>10. Chars' = 1..typed
  <2>1. Chars' = Chars \cup C!ToSet(data)
    BY <1>4, <1>5, <1>7 DEF Chars
  <2>2. C!ToSet(data) = {Done + k : k \in 1..Len(data)}
    BY <1>8, <1>9 DEF C!ToSet
  <2>3. Chars = 1..Done
    BY <1>1 DEF LinkInv, ConCharInv
  <2>4. \A n \in Done + 1..typed : n - Done \in 1..Len(data) /\ n = Done + (n - Done)
    BY <1>6, <1>9
  <2>5. \A k \in 1..Len(data) : Done + k \in Done + 1..typed
    BY <1>6, <1>9
  <2>6. {Done + k : k \in 1..Len(data)} = Done + 1..typed
    BY <2>4, <2>5
  <2>7. 1..typed = (1..Done) \cup (Done + 1..typed)
    BY <1>6, <1>9
  <2> QED BY <2>1, <2>2, <2>3, <2>6, <2>7
<1>11. ConQueueInv'
  BY <1>1, <1>2, <1>6 DEF LinkInv, ConQueueInv
<1>12. ConOldInv'
  <2>1. \A i \in DOMAIN readrequests : taken.rid < readrequests[i].rid
    BY <1>1, <1>6 DEF LinkInv, ConQueueInv
  <2>2. Adding => taken.rid < Len(asked)
    BY <1>1, <1>2 DEF LinkInv, ConQueueInv
  <2> QED BY <1>1, <1>2, <1>4, <1>5, <1>6, <1>7, <2>1, <2>2 DEF LinkInv, ConOldInv
<1>13. ConLastInv'
  BY <1>2, <1>4, <1>5 DEF ConLastInv
<1>14. ConCharInv'
  BY <1>1, <1>2, <1>6, <1>10 DEF LinkInv, ConCharInv
<1>15. ConOutInv'
  <2>1. \A i \in DOMAIN out' : out'[i].rid \in DOMAIN asked'
    BY <1>1, <1>2, <1>3, <1>4, <1>5 DEF ConOutInv
  <2>2. \A b \in C!Bodies' : out'[b].rid \in C!Reads'
    BY <1>1, <1>3, <1>4, <1>5, <1>6, <1>7 DEF ConOutInv
  <2>3. ASSUME NEW i \in DOMAIN out', out'[i].part = "data" PROVE i > 1 /\ out'[i - 1] = C!Head1(out'[i].rid)
    <3>1. CASE i \in DOMAIN out
      <4>1. out'[i] = out[i] /\ i > 1 /\ out[i - 1] = C!Head1(out[i].rid)
        BY <1>1, <1>5, <2>3, <3>1 DEF ConOutInv, C!Pairs
      <4>2. i - 1 \in 1..Len(out)
        BY <1>5, <3>1, <4>1
      <4> QED BY <1>5, <4>1, <4>2
    <3>2. CASE i = Len(out) + 1
      <4>1. Len(out) # 0
        BY <1>1, <1>8, ConElements
      <4> QED BY <1>4, <1>5, <1>8, <3>2, <4>1
    <3> QED BY <1>5, <3>1, <3>2
  <2>4. ASSUME NEW i \in DOMAIN out', out'[i].part = "head", out'[i].rid \in C!Reads', i < Len(out') PROVE out'[i + 1].part = "data"
    <3>1. i \in 1..Len(out) /\ out[i].part = "head" /\ out[i].rid \in C!Reads
      BY <1>5, <1>6, <2>4
    <3>2. CASE i = Len(out)
      BY <1>4, <1>5, <3>2
    <3>3. CASE i < Len(out)
      <4>1. i \in DOMAIN out /\ i + 1 \in 1..Len(out)
        BY <1>5, <3>1, <3>3
      <4>2. out[i + 1].part = "data"
        BY <1>1, <3>1, <3>3, <4>1 DEF ConOutInv, C!Pairs
      <4> QED BY <1>5, <4>1, <4>2
    <3> QED BY <1>5, <3>1, <3>2, <3>3
  <2> QED BY <2>1, <2>2, <2>3, <2>4 DEF ConOutInv, C!Pairs, C!Head1
<1>16. C!InOrder'
  <2>1. \E n \in 0..typed' : UNION {C!ToSet(out'[i].data) : i \in C!Bodies'} = 1..n
    <3>1. UNION {C!ToSet(out'[i].data) : i \in C!Bodies'} = 1..typed
      BY <1>10 DEF Chars
    <3>2. typed \in 0..typed'
      BY <1>2, <1>9
    <3> QED BY <3>1, <3>2
  <2>2. ASSUME NEW i \in C!Bodies, NEW k \in DOMAIN out[i].data PROVE out[i].data[k] <= Done /\ out[i].data[k] \in Nat
    <3>1. out[i].data[k] \in Chars
      BY DEF Chars, C!ToSet
    <3> QED BY <1>1, <1>9, <3>1 DEF LinkInv, ConCharInv
  <2>3. \A i, j \in C!Bodies' : \A k \in DOMAIN out'[i].data, l \in DOMAIN out'[j].data :
           i < j \/ (i = j /\ k < l) => out'[i].data[k] < out'[j].data[l]
    <3> SUFFICES ASSUME NEW i \in C!Bodies', NEW j \in C!Bodies', NEW k \in DOMAIN out'[i].data, NEW l \in DOMAIN out'[j].data,
                        i < j \/ (i = j /\ k < l)
                 PROVE  out'[i].data[k] < out'[j].data[l]
      OBVIOUS
    <3>1. CASE i \in C!Bodies /\ j \in C!Bodies
      BY <1>1, <1>7, <3>1 DEF C!InOrder
    <3>2. CASE i \in C!Bodies /\ j = Len(out) + 1
      <4>1. out'[j].data = data
        BY <1>4, <1>5, <3>2
      <4>2. l \in DOMAIN data /\ out'[j].data[l] = Done + l
        BY <1>8, <4>1
      <4>3. l \in 1..Len(data)
        BY <1>9, <4>2
      <4>4. out'[i].data[k] <= Done /\ out'[i].data[k] \in Nat
        BY <1>7, <2>2, <3>2
      <4> QED BY <1>9, <4>2, <4>3, <4>4
    <3>3. CASE i = Len(out) + 1 /\ j = Len(out) + 1
      <4>1. out'[i].data = data /\ out'[j].data = data
        BY <1>4, <1>5, <3>3
      <4>2. k \in DOMAIN data /\ l \in DOMAIN data /\ out'[i].data[k] = Done + k /\ out'[j].data[l] = Done + l
        BY <1>8, <4>1
      <4>3. k \in 1..Len(data) /\ l \in 1..Len(data) /\ k < l
        BY <1>9, <3>3, <4>2
      <4> QED BY <1>9, <4>2, <4>3
    <3>4. ~(i = Len(out) + 1 /\ j \in C!Bodies)
      BY <1>5, <1>7
    <3> QED BY <1>5, <3>1, <3>2, <3>3, <3>4
  <2>4. \A i \in C!Bodies' : Len(out'[i].data) = asked'[out'[i].rid].len
    <3>1. \A i \in C!Bodies : Len(out[i].data) = asked[out[i].rid].len
      BY <1>1 DEF C!InOrder
    <3>2. \A i \in C!Bodies : Len(out'[i].data) = asked'[out'[i].rid].len
      BY <1>2, <1>7, <3>1
    <3>3. Len(out'[Len(out) + 1].data) = asked'[out'[Len(out) + 1].rid].len
      BY <1>2, <1>3, <1>4, <1>5, <1>8
    <3> QED BY <1>5, <3>2, <3>3
  <2>5. \A i, j \in C!Bodies' : i < j => out'[i].rid < out'[j].rid
    <3>1. \A i \in C!Bodies : out[i].rid < taken.rid
      BY <1>1, <1>6 DEF LinkInv, ConOldInv
    <3>2. \A i, j \in C!Bodies : i < j => out[i].rid < out[j].rid
      BY <1>1 DEF C!InOrder
    <3>3. \A j \in C!Bodies : ~(Len(out) + 1 < j)
      BY <1>5, <1>7
    <3> QED BY <1>4, <1>5, <1>7, <3>1, <3>2, <3>3
  <2> QED BY <2>1, <2>3, <2>4, <2>5 DEF C!InOrder
<1>17. C!NoneLost'
  BY <1>1, <1>2, <1>5, <1>6, <1>7 DEF C!NoneLost, C!Pending, C!At
<1> QED BY <1>11, <1>12, <1>13, <1>14, <1>15, <1>16, <1>17 DEF LinkInv

-----------------------------------------------------------------------------
(* Once the pipes are closed nothing is asked or answered any more.        *)
LEMMA ClosedKeeps ==
  ASSUME ConsoleInv, ~link', UNCHANGED <<asked, out>>, typed' \in Nat, typed <= typed'
  PROVE  ConOutInv' /\ C!InOrder' /\ C!NoneLost'
<1>1. ConOutInv /\ C!InOrder /\ C!Bodies' = C!Bodies /\ C!Reads' = C!Reads /\ typed \in Nat
  BY DEF ConsoleInv, ConTypeInv, C!Bodies, C!Reads
<1>2. ConOutInv'
  BY <1>1 DEF ConOutInv, C!Pairs, C!Head1
<1>3. 0..typed \subseteq 0..typed'
  BY <1>1
<1>4. C!InOrder'
  BY <1>1, <1>3 DEF C!InOrder
<1>5. C!NoneLost'
  BY DEF C!NoneLost
<1> QED BY <1>2, <1>4, <1>5

LEMMA ConNext ==
  ASSUME C!ConsoleAssumption, ConsoleInv, [C!Next]_(C!vars)
  PROVE  ConsoleInv'
<1>1. ConBase /\ ConBase'
  BY ConBaseStep DEF ConsoleInv, ConBase
<1>2. link \in BOOLEAN /\ typed \in Nat /\ typed' \in Nat
  BY <1>1 DEF ConBase, ConTypeInv
<1>3. CASE ~link'
  <2> SUFFICES UNCHANGED <<asked, out>> /\ typed <= typed'
    BY <1>1, <1>2, <1>3, ClosedKeeps DEF ConBase, ConsoleInv
  <2>1. CASE \E type \in C!Types, len \in 0..MaxLen : C!Request(type, len)
    BY <1>2, <1>3, <2>1 DEF C!Request, C!queue, C!input
  <2>2. CASE C!RequestEOF
    BY <1>2, <1>3, <2>2 DEF C!RequestEOF, C!queue, C!input
  <2>3. CASE C!NoMemory
    BY <1>2, <1>3, <2>3 DEF C!NoMemory, C!queue, C!input
  <2>4. CASE C!AddLock
    BY <1>2, <1>3, <2>4 DEF C!AddLock, C!Lock, C!queue, C!input
  <2>5. CASE C!Add
    BY <1>2, <1>3, <2>5 DEF C!Add, C!queue, C!input
  <2>6. CASE C!AddUnlock
    BY <1>2, <1>3, <2>6 DEF C!AddUnlock, C!Unlock, C!queue, C!input
  <2>7. CASE C!RespondLock
    BY <1>2, <1>3, <2>7 DEF C!RespondLock, C!Lock, C!queue, C!input
  <2>8. CASE C!Respond
    BY <1>2, <1>3, <2>8 DEF C!Respond, C!Put, C!queue, C!input
  <2>9. CASE C!RespondUnlock
    BY <1>2, <1>3, <2>9 DEF C!RespondUnlock, C!Unlock, C!queue, C!input
  <2>10. CASE C!Take
    BY <1>2, <1>3, <2>10 DEF C!Take, C!queue, C!input
  <2>11. CASE C!PopLock
    BY <1>2, <1>3, <2>11 DEF C!PopLock, C!Lock, C!queue, C!input
  <2>12. CASE C!Pop
    BY <1>2, <1>3, <2>12 DEF C!Pop, C!queue, C!input
  <2>13. CASE C!PopUnlock
    BY <1>2, <1>3, <2>13 DEF C!PopUnlock, C!Unlock, C!queue, C!input
  <2>14. CASE C!Char
    BY <1>2, <1>3, <2>14 DEF C!Char, C!queue, C!input
  <2>15. CASE C!AnswerLock
    BY <1>2, <1>3, <2>15 DEF C!AnswerLock, C!Lock, C!queue, C!input
  <2>16. CASE C!AnswerHead
    BY <1>2, <1>3, <2>16 DEF C!AnswerHead, C!Put, C!queue, C!input
  <2>17. CASE C!AnswerData
    BY <1>2, <1>3, <2>17 DEF C!AnswerData, C!Put, C!queue, C!input
  <2>18. CASE C!AnswerUnlock
    BY <1>2, <1>3, <2>18 DEF C!AnswerUnlock, C!Unlock, C!queue, C!input
  <2>19. CASE C!Break
    BY <1>2, <1>3, <2>19 DEF C!Break, C!queue, C!input
  <2>20. CASE UNCHANGED C!vars
    BY <1>2, <1>3, <2>20 DEF C!vars
  <2>21. CASE C!Malloc
    BY <1>2, <1>3, <2>21 DEF C!Malloc, C!Inner, C!queue, C!input
  <2>22. CASE C!Malloced
    BY <1>2, <1>3, <2>22 DEF C!Malloced, C!Inner, C!queue, C!input
  <2>23. CASE C!Free
    BY <1>2, <1>3, <2>23 DEF C!Free, C!Inner, C!queue, C!input
  <2>24. CASE C!Freed
    BY <1>2, <1>3, <2>24 DEF C!Freed, C!Inner, C!queue, C!input
  <2> QED BY <2>1, <2>2, <2>3, <2>4, <2>5, <2>6, <2>7, <2>8, <2>9, <2>10, <2>11, <2>12, <2>13, <2>14, <2>15, <2>16, <2>17, <2>18, <2>19, <2>20,
            <2>21, <2>22, <2>23, <2>24 DEF C!Next, C!Main, C!Reader
<1>4. CASE link' /\ link
  <2> SUFFICES LinkInv' /\ ConOutInv' /\ C!InOrder' /\ C!NoneLost'
    BY <1>1 DEF ConBase, ConsoleInv
  <2>1. CASE \E type \in C!Types, len \in 0..MaxLen : C!Request(type, len)
    BY <1>4, <2>1, RequestKeeps
  <2>2. CASE C!RequestEOF
    BY <1>4, <2>2 DEF C!RequestEOF
  <2>3. CASE C!NoMemory
    BY <1>4, <2>3, <1>1, CalmSteps, CalmKeeps
  <2>4. CASE C!AddLock
    BY <1>4, <2>4, <1>1, CalmSteps, CalmKeeps
  <2>5. CASE C!Add
    BY <1>4, <2>5, AddKeeps
  <2>6. CASE C!AddUnlock
    BY <1>4, <2>6, <1>1, CalmSteps, CalmKeeps
  <2>7. CASE C!RespondLock
    BY <1>4, <2>7, <1>1, CalmSteps, CalmKeeps
  <2>8. CASE C!Respond
    BY <1>4, <2>8, RespondKeeps
  <2>9. CASE C!RespondUnlock
    BY <1>4, <2>9, <1>1, CalmSteps, CalmKeeps
  <2>10. CASE C!Take
    BY <1>4, <2>10, TakeKeeps
  <2>11. CASE C!PopLock
    BY <1>4, <2>11, <1>1, CalmSteps, CalmKeeps
  <2>12. CASE C!Pop
    BY <1>4, <2>12, PopKeeps
  <2>13. CASE C!PopUnlock
    BY <1>4, <2>13, <1>1, CalmSteps, CalmKeeps
  <2>14. CASE C!Char
    BY <1>4, <2>14, CharKeeps
  <2>15. CASE C!AnswerLock
    BY <1>4, <2>15, <1>1, CalmSteps, CalmKeeps
  <2>16. CASE C!AnswerHead
    BY <1>4, <2>16, AnswerHeadKeeps
  <2>17. CASE C!AnswerData
    BY <1>4, <2>17, AnswerDataKeeps
  <2>18. CASE C!AnswerUnlock
    BY <1>4, <2>18, <1>1, CalmSteps, CalmKeeps
  <2>19. CASE C!Break
    BY <1>4, <2>19 DEF C!Break
  <2>20. CASE UNCHANGED C!vars
    <3>1. Calm
      BY <2>20 DEF C!vars, Calm, Adding, Popped, Reading
    <3> QED BY <1>4, <3>1, CalmKeeps
  <2>21. CASE C!Malloc
    BY <1>4, <2>21, <1>1, CalmSteps, CalmKeeps
  <2>22. CASE C!Malloced
    BY <1>4, <2>22, <1>1, CalmSteps, CalmKeeps
  <2>23. CASE C!Free
    BY <1>4, <2>23, <1>1, CalmSteps, CalmKeeps
  <2>24. CASE C!Freed
    BY <1>4, <2>24, <1>1, CalmSteps, CalmKeeps
  <2> QED BY <2>1, <2>2, <2>3, <2>4, <2>5, <2>6, <2>7, <2>8, <2>9, <2>10, <2>11, <2>12, <2>13, <2>14, <2>15, <2>16, <2>17, <2>18, <2>19, <2>20,
            <2>21, <2>22, <2>23, <2>24 DEF C!Next, C!Main, C!Reader
<1>5. ~(link' /\ ~link)
  <2>1. CASE \E type \in C!Types, len \in 0..MaxLen : C!Request(type, len)
    BY <2>1 DEF C!Request, C!queue, C!input
  <2>2. CASE C!RequestEOF
    BY <2>2 DEF C!RequestEOF, C!queue, C!input
  <2>3. CASE C!NoMemory
    BY <2>3 DEF C!NoMemory, C!queue, C!input
  <2>4. CASE C!AddLock
    BY <2>4 DEF C!AddLock, C!Lock, C!queue, C!input
  <2>5. CASE C!Add
    BY <2>5 DEF C!Add, C!queue, C!input
  <2>6. CASE C!AddUnlock
    BY <2>6 DEF C!AddUnlock, C!Unlock, C!queue, C!input
  <2>7. CASE C!RespondLock
    BY <2>7 DEF C!RespondLock, C!Lock, C!queue, C!input
  <2>8. CASE C!Respond
    BY <2>8 DEF C!Respond, C!Put, C!queue, C!input
  <2>9. CASE C!RespondUnlock
    BY <2>9 DEF C!RespondUnlock, C!Unlock, C!queue, C!input
  <2>10. CASE C!Take
    BY <2>10 DEF C!Take, C!queue, C!input
  <2>11. CASE C!PopLock
    BY <2>11 DEF C!PopLock, C!Lock, C!queue, C!input
  <2>12. CASE C!Pop
    BY <2>12 DEF C!Pop, C!queue, C!input
  <2>13. CASE C!PopUnlock
    BY <2>13 DEF C!PopUnlock, C!Unlock, C!queue, C!input
  <2>14. CASE C!Char
    BY <2>14 DEF C!Char, C!queue, C!input
  <2>15. CASE C!AnswerLock
    BY <2>15 DEF C!AnswerLock, C!Lock, C!queue, C!input
  <2>16. CASE C!AnswerHead
    BY <2>16 DEF C!AnswerHead, C!Put, C!queue, C!input
  <2>17. CASE C!AnswerData
    BY <2>17 DEF C!AnswerData, C!Put, C!queue, C!input
  <2>18. CASE C!AnswerUnlock
    BY <2>18 DEF C!AnswerUnlock, C!Unlock, C!queue, C!input
  <2>19. CASE C!Break
    BY <2>19 DEF C!Break, C!queue, C!input
  <2>20. CASE UNCHANGED C!vars
    BY <2>20 DEF C!vars
  <2>21. CASE C!Malloc
    BY <2>21 DEF C!Malloc, C!Inner, C!queue, C!input
  <2>22. CASE C!Malloced
    BY <2>22 DEF C!Malloced, C!Inner, C!queue, C!input
  <2>23. CASE C!Free
    BY <2>23 DEF C!Free, C!Inner, C!queue, C!input
  <2>24. CASE C!Freed
    BY <2>24 DEF C!Freed, C!Inner, C!queue, C!input
  <2> QED BY <2>1, <2>2, <2>3, <2>4, <2>5, <2>6, <2>7, <2>8, <2>9, <2>10, <2>11, <2>12, <2>13, <2>14, <2>15, <2>16, <2>17, <2>18, <2>19, <2>20,
            <2>21, <2>22, <2>23, <2>24 DEF C!Next, C!Main, C!Reader
<1> QED BY <1>2, <1>3, <1>4, <1>5

LEMMA ConsoleIsSound == ConsoleInv => C!ConsoleSound
BY DEF ConsoleInv, ConOutInv, C!ConsoleSound

-----------------------------------------------------------------------------
(* Tmpfs.  The lists of children are a tree: the files of a directory, each *)
(* once, are those that name it as their parent.  Then a removal takes one  *)
(* file off one list, a file that has children is not removed, and what is  *)
(* below a directory that is used keeps it there.                           *)
file == v1
children == v2
nfid == v3
held == v4
chans == v5
wrote == v6
USE DEF file, children, nfid, held, chans, wrote

FileRec == [there : {TRUE}, name : Names \cup {"root"}, parent : T!Fids, dir : BOOLEAN,
            size : Nat, buf : Seq(Names \cup Values \cup {"root"}), open : Nat]
Kid(d, c) == \E i \in 1..Len(children[d]) : children[d][i] = c
TreeTypes == /\ file \in [T!Fids -> FileRec \cup {T!NoFile}] /\ children \in [T!Fids -> Seq(T!Fids)]
             /\ nfid \in 1..MaxFids + 1 /\ held \subseteq T!Fids /\ chans \in [T!Fids -> Nat]
             /\ wrote \in [T!Fids -> Seq(Values \cup {"gap"})]
(* Fids are given in order and never again. *)
TreeFresh == /\ \A f \in T!Fids : f >= nfid => ~file[f].there /\ wrote[f] = <<>>
             /\ \A f \in T!Fids : ~file[f].there => chans[f] = 0
             /\ \A f \in T!Fids : file[f].there => file[f].open = chans[f]
(* The tree: the files of a directory, each once, are those that have it as *)
(* their parent, and what is no directory has none.                         *)
TreeKids == /\ file[T!RootFid].there /\ file[T!RootFid].dir /\ file[T!RootFid].parent = T!RootFid
            /\ \A f \in T!Fids : file[f].there /\ f # T!RootFid =>
                 file[file[f].parent].there /\ file[file[f].parent].dir
            /\ \A d \in T!Fids : \A c \in T!Fids :
                 Kid(d, c) <=> c # T!RootFid /\ file[c].there /\ file[c].parent = d
            /\ \A d \in T!Fids : \A i, j \in 1..Len(children[d]) :
                 children[d][i] = children[d][j] => i = j
TreeInv == TreeTypes /\ TreeFresh /\ TreeKids /\ T!ListingExact /\ T!ReadBack

LEMMA ThereRec == ASSUME TreeTypes, NEW f \in T!Fids, file[f].there PROVE file[f] \in FileRec
BY DEF TreeTypes, T!NoFile

LEMMA TreeRange == T!TmpfsAssumption => T!Fids \subseteq Nat /\ T!RootFid \in T!Fids /\ 1 \in 1..MaxFids + 1
BY DEF T!TmpfsAssumption, T!Fids, T!RootFid

LEMMA NewRec ==
  ASSUME NEW name \in Names \cup {"root"}, NEW d \in T!Fids, NEW dir \in BOOLEAN
  PROVE  T!New(name, d, dir) \in FileRec
<1>1. <<>> \in Seq(Names \cup Values \cup {"root"})
  OBVIOUS
<1> QED BY <1>1 DEF T!New, FileRec

LEMMA NoneReordered == T!Reordered(<<>>, <<>>)
<1>1. DOMAIN <<>> = {}
  OBVIOUS
<1>2. [i \in {} |-> 1] \in T!Bijection({}, {})
  BY DEF T!Bijection, T!Injection, T!Surjection, T!IsInjective
<1> QED BY <1>1, <1>2 DEF T!Reordered

LEMMA TreeInit == T!TmpfsAssumption /\ T!Init => TreeInv
<1> SUFFICES ASSUME T!TmpfsAssumption, T!Init PROVE TreeInv
  OBVIOUS
<1> USE TreeRange DEF T!Init
<1>1. T!New("root", T!RootFid, TRUE) \in FileRec
  BY NewRec
<1>2. TreeTypes
  <2>1. \A f \in T!Fids : file[f] \in FileRec \cup {T!NoFile}
    BY <1>1
  <2>2. <<>> \in Seq(T!Fids) /\ <<>> \in Seq(Values \cup {"gap"})
    OBVIOUS
  <2> QED BY <2>1, <2>2 DEF TreeTypes, T!RootFid
<1>3. \A f \in T!Fids : file[f].there <=> f = T!RootFid
  BY DEF T!New, T!NoFile
<1>4. file[T!RootFid] = T!New("root", T!RootFid, TRUE)
  OBVIOUS
<1>5. TreeFresh
  BY <1>3, <1>4 DEF TreeFresh, T!New, T!RootFid
<1>6. \A d \in T!Fids : children[d] = <<>> /\ Len(children[d]) = 0
  OBVIOUS
<1>7. TreeKids
  BY <1>3, <1>4, <1>6 DEF TreeKids, Kid, T!New
<1>8. T!ListingExact
  <2>1. T!Text(<<>>) = <<>>
    BY DEF T!Text
  <2>2. file[T!RootFid].buf = <<>> /\ file[T!RootFid].size = 0
    BY <1>4 DEF T!New
  <2> QED BY <1>3, <1>6, <2>1, <2>2, NoneReordered DEF T!ListingExact, T!There, T!findfile
<1>9. T!ReadBack
  BY <1>3, <1>4 DEF T!ReadBack, T!There, T!findfile, T!New
<1> QED BY <1>2, <1>5, <1>7, <1>8, <1>9 DEF TreeInv

(* A step that leaves the tree as it is. *)
SameShape == /\ children' = children
             /\ \A g \in T!Fids : /\ file'[g].there = file[g].there
                                  /\ file[g].there =>
                                       /\ file'[g].name = file[g].name
                                       /\ file'[g].parent = file[g].parent
                                       /\ file'[g].dir = file[g].dir
                                       /\ file[g].dir => file'[g].buf = file[g].buf
                                                         /\ file'[g].size = file[g].size

LEMMA SameText ==
  ASSUME TreeTypes, TreeKids, NEW d \in T!Fids,
         \A c \in T!Fids : Kid(d, c) => file'[c].name = file[c].name
  PROVE  [i \in DOMAIN children[d] |-> file'[children[d][i]].name] = T!Text(children[d])
<1>1. children[d] \in Seq(T!Fids) /\ DOMAIN children[d] = 1..Len(children[d])
  BY DEF TreeTypes
<1>2. ASSUME NEW i \in 1..Len(children[d]) PROVE Kid(d, children[d][i]) /\ children[d][i] \in T!Fids
  BY <1>1, ElementOfSeq DEF Kid
<1> QED BY <1>1, <1>2 DEF T!Text

LEMMA SameTree ==
  ASSUME TreeInv, SameShape, T!TmpfsAssumption
  PROVE  TreeKids' /\ T!ListingExact'
<1>1. TreeKids'
  <2>1. file[T!RootFid].there /\ T!RootFid \in T!Fids
    BY TreeRange DEF TreeInv, TreeKids
  <2>2. \A f \in T!Fids : file[f].there => file[f].parent \in T!Fids
    BY ThereRec DEF TreeInv, FileRec
  <2>3. \A d \in T!Fids, c \in T!Fids : Kid(d, c)' <=> Kid(d, c)
    BY DEF SameShape, Kid
  <2>4. \A f \in T!Fids : (file[f].there /\ f # T!RootFid => file[file[f].parent].there /\ file[file[f].parent].dir)'
    BY <2>2 DEF SameShape, TreeInv, TreeKids
  <2>5. (file[T!RootFid].there /\ file[T!RootFid].dir /\ file[T!RootFid].parent = T!RootFid)'
    BY <2>1 DEF SameShape, TreeInv, TreeKids
  <2>6. ASSUME NEW d \in T!Fids, NEW c \in T!Fids
        PROVE  (Kid(d, c) <=> c # T!RootFid /\ file[c].there /\ file[c].parent = d)'
    BY <2>3 DEF SameShape, TreeInv, TreeKids
  <2>7. \A d \in T!Fids : (\A i, j \in 1..Len(children[d]) : children[d][i] = children[d][j] => i = j)'
    BY DEF SameShape, TreeInv, TreeKids
  <2> QED BY <2>4, <2>5, <2>6, <2>7 DEF TreeKids
<1>2. ASSUME NEW d \in T!Fids, (file[d].there /\ file[d].dir)'
      PROVE  (T!Reordered(file[d].buf, T!Text(children[d])) /\ file[d].size = Len(children[d]))'
  <2>1. file[d].there /\ file[d].dir
    BY <1>2 DEF SameShape
  <2>2. T!Text(children[d])' = T!Text(children[d])
    <3>1. \A c \in T!Fids : Kid(d, c) => file'[c].name = file[c].name
      BY DEF SameShape, TreeInv, TreeKids
    <3> QED BY <3>1, SameText DEF TreeInv, T!Text, SameShape
  <2>3. T!Reordered(file[d].buf, T!Text(children[d])) /\ file[d].size = Len(children[d])
    BY <2>1 DEF TreeInv, T!ListingExact, T!There, T!findfile
  <2>4. file'[d].buf = file[d].buf /\ file'[d].size = file[d].size /\ children' = children
    BY <2>1 DEF SameShape
  <2>5. T!Reordered(file[d].buf, T!Text(children[d]))'
    BY <2>2, <2>3, <2>4 DEF T!Reordered
  <2> QED BY <2>3, <2>4, <2>5
<1> QED BY <1>1, <1>2 DEF T!ListingExact, T!There, T!findfile

LEMMA CalmTree ==
  ASSUME TreeInv, UNCHANGED <<file, children, nfid, chans, wrote>>, held' \subseteq T!Fids
  PROVE  TreeInv'
<1>1. TreeTypes' /\ TreeFresh'
  BY DEF TreeInv, TreeTypes, TreeFresh
<1>2. TreeKids'
  BY DEF TreeInv, TreeKids, Kid
<1>3. T!ListingExact'
  BY DEF TreeInv, T!ListingExact, T!There, T!findfile, T!Text, T!Reordered
<1>4. T!ReadBack'
  BY DEF TreeInv, T!ReadBack, T!There, T!findfile
<1> QED BY <1>1, <1>2, <1>3, <1>4 DEF TreeInv

LEMMA OpenTree ==
  ASSUME TreeInv, T!TmpfsAssumption, NEW f \in T!Fids, T!Open(f) \/ T!Close(f)
  PROVE  TreeInv'
<1>1. PICK n \in Nat : /\ file' = [file EXCEPT ![f].open = n] /\ chans' = [chans EXCEPT ![f] = n]
                       /\ file[f].there /\ UNCHANGED <<children, nfid, held, wrote>>
  <2>1. file[f].there /\ file[f].open = chans[f] /\ chans[f] \in Nat
    BY DEF T!Open, T!Close, T!findfile, TreeInv, TreeFresh, TreeTypes
  <2>2. CASE T!Open(f)
    <3>1. chans[f] + 1 \in Nat
      BY <2>1
    <3> QED BY <2>1, <2>2, <3>1 DEF T!Open
  <2>3. CASE T!Close(f)
    <3>1. chans[f] - 1 \in Nat
      BY <2>1, <2>3 DEF T!Close
    <3> QED BY <2>1, <2>3, <3>1 DEF T!Close
  <2> QED BY <2>2, <2>3
<1>2. file[f] \in FileRec /\ file \in [T!Fids -> FileRec \cup {T!NoFile}]
  BY <1>1, ThereRec DEF TreeInv, TreeTypes
<1>3. /\ file'[f] = [file[f] EXCEPT !.open = n] /\ file'[f] \in FileRec
      /\ \A g \in T!Fids \ {f} : file'[g] = file[g]
  BY <1>1, <1>2 DEF FileRec
<1>4. \A g \in T!Fids : /\ file'[g].there = file[g].there
                        /\ file[g].there => /\ file'[g].name = file[g].name
                                            /\ file'[g].parent = file[g].parent
                                            /\ file'[g].dir = file[g].dir
                                            /\ file'[g].buf = file[g].buf
                                            /\ file'[g].size = file[g].size
  <2>1. /\ file'[f].there = file[f].there /\ file'[f].name = file[f].name
        /\ file'[f].parent = file[f].parent /\ file'[f].dir = file[f].dir
        /\ file'[f].buf = file[f].buf /\ file'[f].size = file[f].size
    BY <1>2, <1>3 DEF FileRec
  <2> QED BY <1>3, <2>1
<1>5. TreeKids' /\ T!ListingExact'
  BY <1>1, <1>4, SameTree DEF SameShape
<1>6. TreeTypes'
  <2>1. file' \in [T!Fids -> FileRec \cup {T!NoFile}]
    BY <1>1, <1>2, <1>3
  <2> QED BY <1>1, <2>1 DEF TreeInv, TreeTypes
<1>7. TreeFresh'
  <2>1. file'[f].open = n /\ chans'[f] = n /\ \A g \in T!Fids \ {f} : chans'[g] = chans[g]
    BY <1>1, <1>2, <1>3 DEF TreeInv, TreeTypes, FileRec
  <2>2. \A g \in T!Fids : ~file'[g].there => chans'[g] = 0
    BY <1>1, <1>4, <2>1 DEF TreeInv, TreeFresh
  <2>3. \A g \in T!Fids : file'[g].there => file'[g].open = chans'[g]
    BY <1>3, <2>1 DEF TreeInv, TreeFresh
  <2>4. \A g \in T!Fids : g >= nfid' => ~file'[g].there /\ wrote'[g] = <<>>
    BY <1>1, <1>4 DEF TreeInv, TreeFresh
  <2> QED BY <2>2, <2>3, <2>4 DEF TreeFresh
<1>8. T!ReadBack'
  BY <1>1, <1>4 DEF TreeInv, T!ReadBack, T!There, T!findfile
<1> QED BY <1>5, <1>6, <1>7, <1>8 DEF TreeInv

LEMMA PutElements ==
  ASSUME NEW S, NEW old \in Seq(S), NEW v \in S, NEW gap \in S, NEW offset \in Nat
  PROVE  /\ T!Put(old, offset, v, gap) \in Seq(S)
         /\ Len(T!Put(old, offset, v, gap)) = IF offset + 1 > Len(old) THEN offset + 1 ELSE Len(old)
         /\ \A i \in 1..Len(T!Put(old, offset, v, gap)) :
              T!Put(old, offset, v, gap)[i] =
                IF i = offset + 1 THEN v ELSE IF i <= Len(old) THEN old[i] ELSE gap
<1> DEFINE m == IF offset + 1 > Len(old) THEN offset + 1 ELSE Len(old)
           e(i) == IF i = offset + 1 THEN v ELSE IF i <= Len(old) THEN old[i] ELSE gap
<1>1. m \in Nat /\ Len(old) \in Nat
  BY LenProperties
<1>2. \A i \in 1..m : e(i) \in S
  BY <1>1, ElementOfSeq
<1>3. T!Put(old, offset, v, gap) = [i \in 1..m |-> e(i)]
  BY DEF T!Put
<1> HIDE DEF m, e
<1>4. [i \in 1..m |-> e(i)] \in Seq(S) /\ Len([i \in 1..m |-> e(i)]) = m
  BY <1>1, <1>2
<1>5. \A i \in 1..m : [j \in 1..m |-> e(j)][i] = e(i)
  OBVIOUS
<1> QED BY <1>3, <1>4, <1>5 DEF m, e

LEMMA WriteTree ==
  ASSUME TreeInv, T!TmpfsAssumption, NEW f \in T!Fids, NEW offset \in 0..MaxSize - 1, NEW v \in Values,
         T!Write(f, offset, v)
  PROVE  TreeInv'
<1>1. file[f].there /\ ~file[f].dir /\ file[f] \in FileRec /\ offset \in Nat
  BY ThereRec DEF T!Write, T!findfile, TreeInv, T!TmpfsAssumption
<1>2. PICK gap \in Values :
        file' = [file EXCEPT ![f].buf = T!Put(@, offset, v, gap),
                             ![f].size = IF offset + 1 > @ THEN offset + 1 ELSE @]
  BY DEF T!Write
<1>3. /\ wrote' = [wrote EXCEPT ![f] = T!Put(@, offset, v, "gap")]
      /\ UNCHANGED <<children, nfid, held, chans>>
  BY DEF T!Write, T!kernel
<1> DEFINE b == T!Put(file[f].buf, offset, v, gap)
           w == T!Put(wrote[f], offset, v, "gap")
           z == IF offset + 1 > file[f].size THEN offset + 1 ELSE file[f].size
<1>4. file[f].buf \in Seq(Names \cup Values \cup {"root"}) /\ wrote[f] \in Seq(Values \cup {"gap"}) /\ file[f].size \in Nat
  BY <1>1 DEF FileRec, TreeInv, TreeTypes
<1>5. /\ b \in Seq(Names \cup Values \cup {"root"}) /\ w \in Seq(Values \cup {"gap"}) /\ z \in Nat
      /\ Len(b) = IF offset + 1 > Len(file[f].buf) THEN offset + 1 ELSE Len(file[f].buf)
      /\ Len(w) = IF offset + 1 > Len(wrote[f]) THEN offset + 1 ELSE Len(wrote[f])
      /\ \A i \in 1..Len(b) : b[i] = IF i = offset + 1 THEN v
                                     ELSE IF i <= Len(file[f].buf) THEN file[f].buf[i] ELSE gap
      /\ \A i \in 1..Len(w) : w[i] = IF i = offset + 1 THEN v
                                     ELSE IF i <= Len(wrote[f]) THEN wrote[f][i] ELSE "gap"
  <2>1. \A S : Values \subseteq S => v \in S /\ gap \in S
    BY <1>2
  <2>2. v \in Names \cup Values \cup {"root"} /\ gap \in Names \cup Values \cup {"root"} /\ v \in Values \cup {"gap"}
    BY <2>1
  <2>3. z \in Nat
    BY <1>1, <1>4
  <2> HIDE DEF z
  <2> DEFINE o == file[f].buf
             u == wrote[f]
             S == Names \cup Values \cup {"root"}
             G == Values \cup {"gap"}
             mark == "gap"
  <2>4. o \in Seq(S) /\ u \in Seq(G) /\ v \in S /\ gap \in S /\ v \in G /\ mark \in G
    BY <1>4, <2>2
  <2>5. /\ b \in Seq(Names \cup Values \cup {"root"})
        /\ Len(b) = IF offset + 1 > Len(file[f].buf) THEN offset + 1 ELSE Len(file[f].buf)
        /\ \A i \in 1..Len(b) : b[i] = IF i = offset + 1 THEN v
                                       ELSE IF i <= Len(file[f].buf) THEN file[f].buf[i] ELSE gap
    <3> HIDE DEF o, S
    <3>1. /\ T!Put(o, offset, v, gap) \in Seq(S)
          /\ Len(T!Put(o, offset, v, gap)) = IF offset + 1 > Len(o) THEN offset + 1 ELSE Len(o)
          /\ \A i \in 1..Len(T!Put(o, offset, v, gap)) : T!Put(o, offset, v, gap)[i] =
               IF i = offset + 1 THEN v ELSE IF i <= Len(o) THEN o[i] ELSE gap
      BY <1>1, <2>4, PutElements
    <3> QED BY <3>1 DEF o, S
  <2>6. /\ w \in Seq(Values \cup {"gap"})
        /\ Len(w) = IF offset + 1 > Len(wrote[f]) THEN offset + 1 ELSE Len(wrote[f])
        /\ \A i \in 1..Len(w) : w[i] = IF i = offset + 1 THEN v
                                       ELSE IF i <= Len(wrote[f]) THEN wrote[f][i] ELSE "gap"
    <3> HIDE DEF u, G, mark
    <3>1. /\ T!Put(u, offset, v, mark) \in Seq(G)
          /\ Len(T!Put(u, offset, v, mark)) = IF offset + 1 > Len(u) THEN offset + 1 ELSE Len(u)
          /\ \A i \in 1..Len(T!Put(u, offset, v, mark)) : T!Put(u, offset, v, mark)[i] =
               IF i = offset + 1 THEN v ELSE IF i <= Len(u) THEN u[i] ELSE mark
      BY <1>1, <2>4, PutElements
    <3> QED BY <3>1 DEF u, G, mark
  <2> QED BY <2>3, <2>5, <2>6
<1>6. /\ file' = [file EXCEPT ![f] = [file[f] EXCEPT !.buf = b, !.size = z]]
      /\ wrote' = [wrote EXCEPT ![f] = w]
  BY <1>1, <1>2, <1>3 DEF TreeInv, TreeTypes, FileRec
<1> HIDE DEF b, w, z
<1>7. file \in [T!Fids -> FileRec \cup {T!NoFile}] /\ wrote \in [T!Fids -> Seq(Values \cup {"gap"})]
  BY DEF TreeInv, TreeTypes
<1>8. /\ file'[f] \in FileRec /\ file'[f].buf = b /\ file'[f].size = z /\ file'[f].there = file[f].there
      /\ file'[f].name = file[f].name /\ file'[f].parent = file[f].parent
      /\ file'[f].dir = file[f].dir /\ file'[f].open = file[f].open
      /\ \A g \in T!Fids \ {f} : file'[g] = file[g]
      /\ wrote'[f] = w /\ \A g \in T!Fids \ {f} : wrote'[g] = wrote[g]
  BY <1>1, <1>5, <1>6, <1>7 DEF FileRec
<1>9. SameShape
  <2>1. \A g \in T!Fids \ {f} : file'[g] = file[g]
    BY <1>8
  <2> QED BY <1>1, <1>3, <1>8, <2>1 DEF SameShape
<1>10. TreeTypes'
  BY <1>3, <1>5, <1>6, <1>7, <1>8 DEF TreeInv, TreeTypes
<1>11. TreeFresh'
  <2>1. ASSUME NEW g \in T!Fids
        PROVE  /\ g >= nfid => ~file'[g].there /\ wrote'[g] = <<>>
               /\ ~file'[g].there => chans[g] = 0
               /\ file'[g].there => file'[g].open = chans[g]
    <3>1. CASE g = f
      BY <1>1, <1>8, <3>1 DEF TreeInv, TreeFresh
    <3>2. CASE g # f
      BY <1>8, <3>2 DEF TreeInv, TreeFresh
    <3> QED BY <3>1, <3>2
  <2> QED BY <1>3, <2>1 DEF TreeFresh
<1>12. T!ReadBack'
  <2>1. Len(file[f].buf) = Len(wrote[f]) /\ file[f].size = Len(wrote[f])
        /\ \A i \in DOMAIN wrote[f] : wrote[f][i] \in {"gap", file[f].buf[i]}
    BY <1>1 DEF TreeInv, T!ReadBack, T!There, T!findfile
  <2>2. Len(b) = Len(w) /\ z = Len(w)
    BY <1>5, <2>1 DEF z
  <2>3. Len(wrote[f]) \in Nat /\ DOMAIN wrote[f] = 1..Len(wrote[f]) /\ Len(w) \in Nat /\ DOMAIN w = 1..Len(w)
    BY <1>4, <1>5, LenProperties
  <2>4. \A i \in DOMAIN w : w[i] \in {"gap", b[i]}
    <3> SUFFICES ASSUME NEW i \in 1..Len(w) PROVE w[i] \in {"gap", b[i]}
      BY <2>3
    <3>1. CASE i = offset + 1
      BY <1>5, <2>2, <3>1
    <3>2. CASE i # offset + 1 /\ i <= Len(wrote[f])
      <4>1. i \in DOMAIN wrote[f] /\ w[i] = wrote[f][i] /\ b[i] = file[f].buf[i]
        BY <1>5, <2>1, <2>2, <2>3, <3>2
      <4> QED BY <2>1, <4>1
    <3>3. CASE i # offset + 1 /\ ~(i <= Len(wrote[f]))
      BY <1>5, <3>3
    <3> QED BY <3>1, <3>2, <3>3
  <2>5. ASSUME NEW g \in T!Fids, file'[g].there, ~file'[g].dir
        PROVE  /\ Len(file'[g].buf) = Len(wrote'[g]) /\ file'[g].size = Len(wrote'[g])
               /\ \A i \in DOMAIN wrote'[g] : wrote'[g][i] \in {"gap", file'[g].buf[i]}
    <3>1. CASE g = f
      BY <1>8, <2>2, <2>4, <3>1
    <3>2. CASE g # f
      BY <1>8, <2>5, <3>2 DEF TreeInv, T!ReadBack, T!There, T!findfile
    <3> QED BY <3>1, <3>2
  <2> QED BY <2>5 DEF T!ReadBack, T!There, T!findfile
<1> QED BY <1>9, <1>10, <1>11, <1>12, SameTree DEF TreeInv

LEMMA ConsElements ==
  ASSUME NEW S, NEW s \in Seq(S), NEW e \in S
  PROVE  /\ <<e>> \o s \in Seq(S) /\ Len(<<e>> \o s) = Len(s) + 1 /\ (<<e>> \o s)[1] = e
         /\ \A i \in 1..Len(s) : (<<e>> \o s)[i + 1] = s[i]
<1>1. <<e>> \in Seq(S) /\ Len(<<e>>) = 1 /\ <<e>>[1] = e
  OBVIOUS
<1>2. Len(s) \in Nat
  OBVIOUS
<1>3. /\ <<e>> \o s \in Seq(S) /\ Len(<<e>> \o s) = Len(s) + 1
      /\ \A i \in 1..Len(s) + 1 : (<<e>> \o s)[i] = IF i <= 1 THEN <<e>>[i] ELSE s[i - 1]
  BY <1>1, <1>2, ConcatProperties
<1> QED BY <1>1, <1>2, <1>3

LEMMA AddReordered ==
  ASSUME NEW S, NEW s \in Seq(S), NEW U, NEW t \in Seq(U), NEW n \in S \cap U, T!Reordered(s, t)
  PROVE  T!Reordered(Append(s, n), <<n>> \o t)
<1>1. PICK p \in T!Bijection(DOMAIN s, DOMAIN t) : \A i \in DOMAIN s : s[i] = t[p[i]]
  BY DEF T!Reordered
<1> DEFINE a == Append(s, n)
           b == <<n>> \o t
<1>2. /\ a \in Seq(S) /\ Len(a) = Len(s) + 1 /\ a[Len(s) + 1] = n /\ \A i \in 1..Len(s) : a[i] = s[i]
      /\ b \in Seq(U) /\ Len(b) = Len(t) + 1 /\ b[1] = n /\ \A i \in 1..Len(t) : b[i + 1] = t[i]
      /\ Len(s) \in Nat /\ Len(t) \in Nat /\ DOMAIN s = 1..Len(s) /\ DOMAIN t = 1..Len(t)
  BY ConsElements, AppendProperties
<1> HIDE DEF a, b
<1>3. DOMAIN a = 1..Len(s) + 1 /\ DOMAIN b = 1..Len(t) + 1
  BY <1>2
<1>4. /\ p \in [1..Len(s) -> 1..Len(t)] /\ \A i, j \in 1..Len(s) : p[i] = p[j] => i = j
      /\ \A k \in 1..Len(t) : \E i \in 1..Len(s) : p[i] = k
  BY <1>1, <1>2 DEF T!Bijection, T!Injection, T!Surjection, T!IsInjective
<1> DEFINE q == [i \in 1..Len(s) + 1 |-> IF i = Len(s) + 1 THEN 1 ELSE p[i] + 1]
<1>5. /\ \A i \in 1..Len(s) : p[i] \in 1..Len(t) /\ q[i] = p[i] + 1 /\ i \in 1..Len(s) + 1
      /\ q[Len(s) + 1] = 1 /\ Len(s) + 1 \in 1..Len(s) + 1
      /\ \A i \in 1..Len(s) + 1 : i \in 1..Len(s) \/ i = Len(s) + 1
  <2>1. \A i \in 1..Len(s) + 1 : i \in 1..Len(s) \/ i = Len(s) + 1
    BY <1>2
  <2>2. ASSUME NEW i \in 1..Len(s) PROVE p[i] \in 1..Len(t) /\ q[i] = p[i] + 1 /\ i \in 1..Len(s) + 1
    <3>1. i \in 1..Len(s) + 1 /\ i # Len(s) + 1
      BY <1>2
    <3> QED BY <1>4, <3>1
  <2>3. q[Len(s) + 1] = 1 /\ Len(s) + 1 \in 1..Len(s) + 1
    BY <1>2
  <2> QED BY <2>1, <2>2, <2>3
<1>6. q \in [1..Len(s) + 1 -> 1..Len(t) + 1]
  <2>1. ASSUME NEW i \in 1..Len(s) + 1 PROVE q[i] \in 1..Len(t) + 1
    <3> HIDE DEF q
    <3>1. CASE i \in 1..Len(s)
      BY <1>2, <1>5, <3>1
    <3>2. CASE i = Len(s) + 1
      BY <1>2, <1>5, <3>2
    <3> QED BY <1>5, <3>1, <3>2
  <2> QED BY <2>1
<1> HIDE DEF q
<1>7. ASSUME NEW i \in 1..Len(s) + 1, NEW j \in 1..Len(s) + 1, q[i] = q[j] PROVE i = j
  <2>1. CASE i \in 1..Len(s) /\ j \in 1..Len(s)
    <3>1. p[i] = p[j]
      BY <1>2, <1>5, <1>7, <2>1
    <3> QED BY <1>4, <2>1, <3>1
  <2>2. ~(i \in 1..Len(s) /\ j = Len(s) + 1) /\ ~(j \in 1..Len(s) /\ i = Len(s) + 1)
    <3>1. ASSUME NEW k \in 1..Len(s) PROVE q[k] # 1
      <4>1. q[k] = p[k] + 1 /\ p[k] \in 1..Len(t)
        BY <1>5
      <4> QED BY <1>2, <4>1
    <3> QED BY <1>5, <1>7, <3>1
  <2> QED BY <1>5, <2>1, <2>2
<1>8. ASSUME NEW k \in 1..Len(t) + 1 PROVE \E i \in 1..Len(s) + 1 : q[i] = k
  <2>1. CASE k = 1
    BY <1>5, <2>1
  <2>2. CASE k # 1
    <3>1. k - 1 \in 1..Len(t)
      BY <1>2, <2>2
    <3>2. PICK i \in 1..Len(s) : p[i] = k - 1
      BY <1>4, <3>1
    <3>3. q[i] = p[i] + 1 /\ p[i] + 1 = k /\ i \in 1..Len(s) + 1
      BY <1>2, <1>5, <3>2
    <3> QED BY <3>3
  <2> QED BY <2>1, <2>2
<1>9. q \in T!Bijection(DOMAIN a, DOMAIN b)
  BY <1>3, <1>6, <1>7, <1>8 DEF T!Bijection, T!Injection, T!Surjection, T!IsInjective
<1>10. ASSUME NEW i \in DOMAIN a PROVE a[i] = b[q[i]]
  <2>1. CASE i = Len(s) + 1
    BY <1>2, <1>5, <2>1
  <2>2. CASE i \in 1..Len(s)
    BY <1>1, <1>2, <1>5, <2>2
  <2> QED BY <1>3, <1>5, <1>10, <2>1, <2>2
<1> QED BY <1>9, <1>10 DEF T!Reordered, a, b

(* Where the file is made, and what is left alone. *)
LEMMA CreateFacts ==
  ASSUME TreeInv, T!TmpfsAssumption, NEW d \in T!Fids, NEW name \in Names, NEW dir \in BOOLEAN,
         T!Create(d, name, dir)
  PROVE  /\ nfid \in T!Fids /\ nfid # T!RootFid /\ nfid # d /\ ~file[nfid].there /\ nfid \in Nat
         /\ file[d].there /\ file[d].dir /\ file[d] \in FileRec
         /\ file'[nfid] = T!New(name, d, dir) /\ file'[d] \in FileRec
         /\ file'[d].buf = Append(file[d].buf, name) /\ file'[d].size = file[d].size + 1
         /\ file'[d].there /\ file'[d].name = file[d].name /\ file'[d].parent = file[d].parent
         /\ file'[d].dir /\ file'[d].open = file[d].open
         /\ \A g \in T!Fids \ {nfid, d} : file'[g] = file[g]
         /\ file' \in [T!Fids -> FileRec \cup {T!NoFile}]
         /\ children'[d] = <<nfid>> \o children[d] /\ \A g \in T!Fids \ {d} : children'[g] = children[g]
         /\ nfid' = nfid + 1 /\ held' = held \cup {nfid} /\ UNCHANGED <<chans, wrote>>
<1>1. nfid \in T!Fids /\ file[d].there /\ file[d].dir
  BY DEF T!Create, T!findfile
<1>2. nfid \in Nat \ {0} /\ nfid >= nfid
  BY DEF TreeInv, TreeTypes
<1>3. ~file[nfid].there /\ nfid # d /\ nfid # T!RootFid
  BY <1>1, <1>2 DEF TreeInv, TreeFresh, T!RootFid
<1>4. file[d] \in FileRec /\ file \in [T!Fids -> FileRec \cup {T!NoFile}] /\ children \in [T!Fids -> Seq(T!Fids)]
  BY <1>1, ThereRec DEF TreeInv, TreeTypes
<1> DEFINE r == [file[d] EXCEPT !.buf = Append(file[d].buf, name), !.size = file[d].size + 1]
           n == T!New(name, d, dir)
<1>5. n \in FileRec
  BY NewRec
<1>6. /\ r \in FileRec /\ r.buf = Append(file[d].buf, name) /\ r.size = file[d].size + 1
      /\ r.there /\ r.name = file[d].name /\ r.parent = file[d].parent /\ r.dir = file[d].dir
      /\ r.open = file[d].open
  <2>1. Append(file[d].buf, name) \in Seq(Names \cup Values \cup {"root"})
    BY <1>4, AppendProperties DEF FileRec
  <2>2. file[d].size + 1 \in Nat
    BY <1>4 DEF FileRec
  <2> DEFINE b == Append(file[d].buf, name)
             z == file[d].size + 1
  <2> HIDE DEF b, z
  <2>3. [file[d] EXCEPT !.buf = b, !.size = z] \in FileRec
    BY <1>4, <2>1, <2>2 DEF FileRec, b, z
  <2>4. r = [file[d] EXCEPT !.buf = b, !.size = z]
    BY DEF b, z
  <2> HIDE DEF r
  <2>5. /\ r.buf = b /\ r.size = z /\ r.there = file[d].there /\ r.name = file[d].name
        /\ r.parent = file[d].parent /\ r.dir = file[d].dir /\ r.open = file[d].open
    BY <1>4, <2>4 DEF FileRec
  <2> QED BY <1>1, <2>3, <2>4, <2>5 DEF b, z
<1> HIDE DEF n
<1>7. file' = [[file EXCEPT ![nfid] = n] EXCEPT ![d] = r]
  BY <1>1, <1>3, <1>4 DEF T!Create, n, FileRec
<1> HIDE DEF r
<1>8. /\ file'[nfid] = n /\ file'[d] = r /\ \A g \in T!Fids \ {nfid, d} : file'[g] = file[g]
      /\ file' \in [T!Fids -> FileRec \cup {T!NoFile}]
  BY <1>1, <1>3, <1>4, <1>5, <1>6, <1>7
<1>9. /\ children'[d] = <<nfid>> \o children[d] /\ \A g \in T!Fids \ {d} : children'[g] = children[g]
      /\ nfid' = nfid + 1 /\ held' = held \cup {nfid} /\ UNCHANGED <<chans, wrote>>
  BY <1>4 DEF T!Create
<1> QED BY <1>1, <1>2, <1>3, <1>4, <1>6, <1>8, <1>9 DEF n

LEMMA TextSeq ==
  ASSUME TreeInv, NEW d \in T!Fids
  PROVE  /\ T!Text(children[d]) \in Seq(Names \cup {"root"}) /\ Len(T!Text(children[d])) = Len(children[d])
         /\ DOMAIN children[d] = 1..Len(children[d]) /\ Len(children[d]) \in Nat
         /\ \A i \in 1..Len(children[d]) : Kid(d, children[d][i]) /\ children[d][i] \in T!Fids
<1>1. /\ DOMAIN children[d] = 1..Len(children[d]) /\ Len(children[d]) \in Nat
      /\ \A i \in 1..Len(children[d]) : Kid(d, children[d][i]) /\ children[d][i] \in T!Fids
  BY ElementOfSeq DEF TreeInv, TreeTypes, Kid
<1>2. \A i \in 1..Len(children[d]) : file[children[d][i]].name \in Names \cup {"root"}
  <2> SUFFICES ASSUME NEW i \in 1..Len(children[d])
               PROVE  file[children[d][i]].name \in Names \cup {"root"}
    OBVIOUS
  <2>1. file[children[d][i]].there
    BY <1>1 DEF TreeInv, TreeKids
  <2> QED BY <1>1, <2>1, ThereRec DEF TreeInv, FileRec
<1>3. T!Text(children[d]) = [i \in 1..Len(children[d]) |-> file[children[d][i]].name]
  BY <1>1 DEF T!Text
<1> QED BY <1>1, <1>2, <1>3

(* What is not there, and what is no directory, has no children. *)
LEMMA NoKids ==
  ASSUME TreeInv, NEW d \in T!Fids, ~(file[d].there /\ file[d].dir)
  PROVE  children[d] = <<>> /\ Len(children[d]) = 0
<1>1. \A c \in T!Fids : ~Kid(d, c)
  BY DEF TreeInv, TreeKids
<1>2. Len(children[d]) = 0
  BY <1>1, TextSeq
<1> QED BY <1>2 DEF TreeInv, TreeTypes

LEMMA CreateTree ==
  ASSUME TreeInv, T!TmpfsAssumption, NEW d \in T!Fids, NEW name \in Names, NEW dir \in BOOLEAN,
         T!Create(d, name, dir)
  PROVE  TreeInv'
<1>1. PICK n \in T!Fids :
      /\ n = nfid /\ n # T!RootFid /\ n # d /\ ~file[n].there /\ n \in Nat
      /\ file[d].there /\ file[d].dir /\ file[d] \in FileRec
      /\ file'[n] = T!New(name, d, dir) /\ file'[d] \in FileRec
      /\ file'[d].buf = Append(file[d].buf, name) /\ file'[d].size = file[d].size + 1
      /\ file'[d].there /\ file'[d].name = file[d].name /\ file'[d].parent = file[d].parent
      /\ file'[d].dir /\ file'[d].open = file[d].open
      /\ \A g \in T!Fids \ {n, d} : file'[g] = file[g]
      /\ file' \in [T!Fids -> FileRec \cup {T!NoFile}]
      /\ children'[d] = <<n>> \o children[d] /\ \A g \in T!Fids \ {d} : children'[g] = children[g]
      /\ nfid' = n + 1 /\ held' = held \cup {n} /\ UNCHANGED <<chans, wrote>>
  BY CreateFacts
<1>2. /\ file'[n].there /\ file'[n].name = name /\ file'[n].parent = d /\ file'[n].dir = dir
      /\ file'[n].buf = <<>> /\ file'[n].size = 0 /\ file'[n].open = 0
  BY <1>1 DEF T!New
<1>3. /\ children[d] \in Seq(T!Fids) /\ children'[d] \in Seq(T!Fids) /\ Len(children'[d]) = Len(children[d]) + 1
      /\ children'[d][1] = n /\ \A i \in 1..Len(children[d]) : children'[d][i + 1] = children[d][i]
      /\ Len(children[d]) \in Nat
  <2>1. children[d] \in Seq(T!Fids)
    BY DEF TreeInv, TreeTypes
  <2> QED BY <1>1, <2>1, ConsElements
<1>4. \A i \in 1..Len(children'[d]) : i = 1 \/ (i - 1 \in 1..Len(children[d]) /\ children'[d][i] = children[d][i - 1])
  <2> SUFFICES ASSUME NEW i \in 1..Len(children'[d]), i # 1
               PROVE  i - 1 \in 1..Len(children[d]) /\ children'[d][i] = children[d][i - 1]
    OBVIOUS
  <2>1. i - 1 \in 1..Len(children[d]) /\ i - 1 + 1 = i
    BY <1>3
  <2> QED BY <1>3, <2>1
<1>5. TreeTypes'
  <2>1. children' \in [T!Fids -> Seq(T!Fids)]
    BY <1>1, <1>3 DEF TreeInv, TreeTypes, T!Create
  <2>2. nfid' \in 1..MaxFids + 1
    BY <1>1 DEF TreeInv, TreeTypes, T!Fids, T!TmpfsAssumption, T!RootFid
  <2> QED BY <1>1, <2>1, <2>2 DEF TreeInv, TreeTypes
<1>6. TreeFresh'
  <2>1. ASSUME NEW g \in T!Fids
        PROVE  /\ g >= n + 1 => ~file'[g].there /\ wrote[g] = <<>>
               /\ ~file'[g].there => chans[g] = 0
               /\ file'[g].there => file'[g].open = chans[g]
    <3>1. g \in Nat
      BY TreeRange
    <3>2. CASE g = n
      BY <1>1, <1>2, <3>1, <3>2 DEF TreeInv, TreeFresh
    <3>3. CASE g = d
      BY <1>1, <3>1, <3>3 DEF TreeInv, TreeFresh
    <3>4. CASE g # n /\ g # d
      BY <1>1, <3>1, <3>4 DEF TreeInv, TreeFresh
    <3> QED BY <3>2, <3>3, <3>4
  <2> QED BY <1>1, <2>1 DEF TreeFresh
<1>7. \A g \in T!Fids : /\ file'[g].there <=> file[g].there \/ g = n
                        /\ file[g].there => /\ file'[g].name = file[g].name /\ file'[g].parent = file[g].parent
                                            /\ file'[g].dir = file[g].dir
                                            /\ file[g].parent \in T!Fids
  <2>1. ASSUME NEW g \in T!Fids, file[g].there PROVE file[g].parent \in T!Fids
    BY <2>1, ThereRec DEF TreeInv, FileRec
  <2>2. ASSUME NEW g \in T!Fids
        PROVE  /\ file'[g].there <=> file[g].there \/ g = n
               /\ file[g].there => /\ file'[g].name = file[g].name /\ file'[g].parent = file[g].parent
                                   /\ file'[g].dir = file[g].dir
    <3>1. CASE g = n
      BY <1>1, <1>2, <3>1
    <3>2. CASE g = d
      BY <1>1, <3>2
    <3>3. CASE g # n /\ g # d
      BY <1>1, <3>3
    <3> QED BY <3>1, <3>2, <3>3
  <2> QED BY <2>1, <2>2
<1>8. \A c \in T!Fids : /\ Kid(d, c)' <=> Kid(d, c) \/ c = n
                        /\ \A g \in T!Fids \ {d} : Kid(g, c)' <=> Kid(g, c)
  <2> TAKE c \in T!Fids
  <2>1. ASSUME Kid(d, c)' PROVE Kid(d, c) \/ c = n
    BY <1>3, <1>4, <2>1 DEF Kid
  <2>2. ASSUME Kid(d, c) PROVE Kid(d, c)'
    <3>1. PICK i \in 1..Len(children[d]) : children[d][i] = c
      BY <2>2 DEF Kid
    <3>2. i + 1 \in 1..Len(children'[d]) /\ children'[d][i + 1] = c
      BY <1>3, <3>1
    <3> QED BY <3>2 DEF Kid
  <2>3. Kid(d, n)'
    <3>1. 1 \in 1..Len(children'[d]) /\ children'[d][1] = n
      BY <1>3
    <3> QED BY <3>1 DEF Kid
  <2>4. \A g \in T!Fids \ {d} : Kid(g, c)' <=> Kid(g, c)
    BY <1>1 DEF Kid
  <2> QED BY <2>1, <2>2, <2>3, <2>4
<1>9. TreeKids'
  <2>1. (file[T!RootFid].there /\ file[T!RootFid].dir /\ file[T!RootFid].parent = T!RootFid)'
    BY <1>7, TreeRange DEF TreeInv, TreeKids
  <2>2. ASSUME NEW f \in T!Fids, file'[f].there, f # T!RootFid
        PROVE  file'[file'[f].parent].there /\ file'[file'[f].parent].dir
    <3>1. CASE f = n
      BY <1>1, <1>2, <3>1
    <3>2. CASE file[f].there
      BY <1>7, <2>2, <3>2 DEF TreeInv, TreeKids
    <3> QED BY <1>7, <2>2, <3>1, <3>2
  <2>3. ASSUME NEW g \in T!Fids, NEW c \in T!Fids
        PROVE  (Kid(g, c) <=> c # T!RootFid /\ file[c].there /\ file[c].parent = g)'
    <3>1. Kid(g, c) <=> c # T!RootFid /\ file[c].there /\ file[c].parent = g
      BY DEF TreeInv, TreeKids
    <3>2. CASE c = n
      BY <1>1, <1>2, <1>8, <3>1, <3>2
    <3>3. CASE c # n
      BY <1>7, <1>8, <3>1, <3>3
    <3> QED BY <3>2, <3>3
  <2>4. ~Kid(d, n)
    BY <1>1 DEF TreeInv, TreeKids
  <2>5. ASSUME NEW i \in 1..Len(children'[d]), NEW j \in 1..Len(children'[d]),
               children'[d][i] = children'[d][j]
        PROVE  i = j
    <3>1. \A k \in 1..Len(children[d]) : children[d][k] # n
      BY <2>4 DEF Kid
    <3>2. CASE i = 1 \/ j = 1
      BY <1>3, <1>4, <2>5, <3>1, <3>2
    <3>3. CASE i # 1 /\ j # 1
      <4>1. /\ i - 1 \in 1..Len(children[d]) /\ children'[d][i] = children[d][i - 1]
            /\ j - 1 \in 1..Len(children[d]) /\ children'[d][j] = children[d][j - 1]
        BY <1>4, <3>3
      <4>2. \A k, l \in 1..Len(children[d]) : children[d][k] = children[d][l] => k = l
        BY DEF TreeInv, TreeKids
      <4>3. i - 1 = j - 1
        BY <2>5, <4>1, <4>2
      <4> QED BY <1>3, <4>3
    <3> QED BY <3>2, <3>3
  <2>6. \A g \in T!Fids : \A i, j \in 1..Len(children'[g]) : children'[g][i] = children'[g][j] => i = j
    <3>1. ASSUME NEW g \in T!Fids \ {d}
          PROVE  \A i, j \in 1..Len(children'[g]) : children'[g][i] = children'[g][j] => i = j
      <4>1. children'[g] = children[g]
        BY <1>1
      <4>2. \A i, j \in 1..Len(children[g]) : children[g][i] = children[g][j] => i = j
        BY DEF TreeInv, TreeKids
      <4> QED BY <4>1, <4>2
    <3> QED BY <2>5, <3>1
  <2> QED BY <2>1, <2>2, <2>3, <2>6 DEF TreeKids
<1>10. T!ListingExact'
  <2>1. ASSUME NEW g \in T!Fids \ {n, d}, file'[g].there, file'[g].dir
        PROVE  (T!Reordered(file[g].buf, T!Text(children[g])) /\ file[g].size = Len(children[g]))'
    <3>1. T!Reordered(file[g].buf, T!Text(children[g])) /\ file[g].size = Len(children[g])
      BY <1>1, <2>1 DEF TreeInv, T!ListingExact, T!There, T!findfile
    <3>2. \A c \in T!Fids : Kid(g, c) => file'[c].name = file[c].name
      BY <1>7 DEF TreeInv, TreeKids
    <3>3. T!Text(children[g])' = T!Text(children[g])
      BY <1>1, <3>2, SameText DEF TreeInv, T!Text
    <3>4. file'[g].buf = file[g].buf /\ file'[g].size = file[g].size /\ children'[g] = children[g]
      BY <1>1
    <3> QED BY <3>1, <3>3, <3>4 DEF T!Reordered
  <2>2. (T!Reordered(file[n].buf, T!Text(children[n])) /\ file[n].size = Len(children[n]))'
    <3>1. children'[n] = <<>> /\ Len(children'[n]) = 0
      BY <1>1, NoKids
    <3>2. T!Text(children[n])' = <<>>
      BY <3>1 DEF T!Text
    <3>3. T!Reordered(<<>>, <<>>)'
      BY NoneReordered DEF T!Reordered
    <3> QED BY <1>2, <3>1, <3>2, <3>3 DEF T!Reordered
  <2>3. (T!Reordered(file[d].buf, T!Text(children[d])) /\ file[d].size = Len(children[d]))'
    <3>1. T!Reordered(file[d].buf, T!Text(children[d])) /\ file[d].size = Len(children[d])
      BY <1>1 DEF TreeInv, T!ListingExact, T!There, T!findfile
    <3> DEFINE t == T!Text(children[d])
    <3>2. /\ t \in Seq(Names \cup {"root"}) /\ Len(t) = Len(children[d])
          /\ \A i \in 1..Len(children[d]) : t[i] = file[children[d][i]].name
      BY TextSeq DEF T!Text
    <3> HIDE DEF t
    <3>3. \A i \in 1..Len(children[d]) : file'[children[d][i]].name = t[i]
      <4>1. \A i \in 1..Len(children[d]) : children[d][i] \in T!Fids /\ file[children[d][i]].there
        BY TextSeq DEF TreeInv, TreeKids
      <4> QED BY <1>7, <3>2, <4>1
    <3>4. T!Text(children[d])' = <<name>> \o t
      <4> DEFINE u == <<name>> \o t
                 x == T!Text(children[d])'
      <4>1. /\ u \in Seq(Names \cup {"root"}) /\ Len(u) = Len(children[d]) + 1 /\ u[1] = name
            /\ \A i \in 1..Len(children[d]) : u[i + 1] = t[i]
        BY <3>2, ConsElements
      <4>2. x = [i \in 1..Len(children[d]) + 1 |-> file'[children'[d][i]].name]
        BY <1>3 DEF T!Text
      <4> HIDE DEF u, x
      <4>3. u = [i \in 1..Len(children[d]) + 1 |-> u[i]]
        BY <4>1
      <4>4. ASSUME NEW i \in 1..Len(children[d]) + 1 PROVE u[i] = file'[children'[d][i]].name
        <5>1. CASE i = 1
          BY <1>2, <1>3, <4>1, <5>1
        <5>2. CASE i # 1
          <6>1. i - 1 \in 1..Len(children[d]) /\ i - 1 + 1 = i
            BY <1>3, <5>2
          <6> QED BY <1>3, <3>3, <4>1, <6>1
        <5> QED BY <5>1, <5>2
      <4> QED BY <4>2, <4>3, <4>4 DEF u, x
    <3>5. T!Reordered(Append(file[d].buf, name), <<name>> \o t)
      <4>1. file[d].buf \in Seq(Names \cup Values \cup {"root"})
        BY <1>1 DEF FileRec
      <4> QED BY <3>1, <3>2, <4>1, AddReordered DEF t
    <3>6. T!Reordered(file[d].buf, T!Text(children[d]))'
      <4>1. (file[d].buf)' = Append(file[d].buf, name)
        BY <1>1
      <4> DEFINE a == Append(file[d].buf, name)
                 b == <<name>> \o t
      <4>2. (file[d].buf)' = a /\ T!Text(children[d])' = b /\ T!Reordered(a, b)
        BY <3>4, <3>5, <4>1
      <4> HIDE DEF a, b
      <4> QED BY <4>2 DEF T!Reordered
    <3> QED BY <1>1, <1>3, <3>1, <3>6
  <2> QED BY <1>1, <2>1, <2>2, <2>3 DEF T!ListingExact, T!There, T!findfile
<1>11. T!ReadBack'
  <2>1. ASSUME NEW g \in T!Fids, file'[g].there, ~file'[g].dir
        PROVE  /\ Len(file'[g].buf) = Len(wrote[g]) /\ file'[g].size = Len(wrote[g])
               /\ \A i \in DOMAIN wrote[g] : wrote[g][i] \in {"gap", file'[g].buf[i]}
    <3>1. CASE g = n
      <4>1. wrote[n] = <<>> /\ Len(<<>>) = 0 /\ DOMAIN <<>> = {}
        BY <1>1 DEF TreeInv, TreeFresh
      <4> QED BY <1>2, <3>1, <4>1
    <3>2. CASE g # n
      <4>1. g # d
        BY <1>1, <2>1
      <4> QED BY <1>1, <2>1, <3>2, <4>1 DEF TreeInv, T!ReadBack, T!There, T!findfile
    <3> QED BY <3>1, <3>2
  <2> QED BY <1>1, <2>1 DEF T!ReadBack, T!There, T!findfile
<1> QED BY <1>5, <1>6, <1>9, <1>10, <1>11 DEF TreeInv

LEMMA RemoveElements ==
  ASSUME NEW S, NEW s \in Seq(S), NEW k \in 1..Len(s), \A i \in 1..Len(s) : s[i] = s[k] => i = k
  PROVE  /\ T!RemoveFirst(s, s[k]) \in Seq(S) /\ Len(T!RemoveFirst(s, s[k])) = Len(s) - 1
         /\ \A i \in 1..Len(s) - 1 : T!RemoveFirst(s, s[k])[i] = IF i < k THEN s[i] ELSE s[i + 1]
<1>1. {i \in 1..Len(s) : s[i] = s[k]} = {k} /\ k \in Nat /\ Len(s) \in Nat
  BY LenProperties
<1>2. T!SelectInSeq(s, LAMBDA v : v = s[k]) = k
  <2>1. T!Min({k}) = k
    BY <1>1 DEF T!Min
  <2> QED BY <1>1, <2>1 DEF T!SelectInSeq
<1>3. T!RemoveFirst(s, s[k]) = SubSeq(s, 1, k - 1) \o SubSeq(s, k + 1, Len(s))
  BY <1>2 DEF T!RemoveFirst, T!RemoveAt
<1> DEFINE a == SubSeq(s, 1, k - 1)
           b == SubSeq(s, k + 1, Len(s))
<1>4. /\ a \in Seq(S) /\ Len(a) = k - 1 /\ \A i \in 1..k - 1 : a[i] = s[i]
      /\ b \in Seq(S) /\ Len(b) = Len(s) - k /\ \A i \in 1..Len(s) - k : b[i] = s[i + k]
  <2>1. \A i \in 1..Len(s) : s[i] \in S
    BY ElementOfSeq
  <2>2. /\ a \in Seq(S) /\ Len(a) = IF 1 <= k - 1 THEN k - 1 - 1 + 1 ELSE 0
        /\ \A i \in 1..(k - 1 - 1 + 1) : a[i] = s[1 + i - 1]
    BY <1>1, <2>1, SubSeqProperties
  <2>3. /\ b \in Seq(S) /\ Len(b) = IF k + 1 <= Len(s) THEN Len(s) - (k + 1) + 1 ELSE 0
        /\ \A i \in 1..(Len(s) - (k + 1) + 1) : b[i] = s[k + 1 + i - 1]
    BY <1>1, <2>1, SubSeqProperties
  <2> QED BY <1>1, <2>2, <2>3
<1> HIDE DEF a, b
<1>5. /\ a \o b \in Seq(S) /\ Len(a \o b) = Len(a) + Len(b)
      /\ \A i \in 1..Len(a) + Len(b) : (a \o b)[i] = IF i <= Len(a) THEN a[i] ELSE b[i - Len(a)]
  BY <1>4, ConcatProperties
<1>6. ASSUME NEW i \in 1..Len(s) - 1 PROVE (a \o b)[i] = IF i < k THEN s[i] ELSE s[i + 1]
  <2>1. (a \o b)[i] = IF i <= k - 1 THEN a[i] ELSE b[i - (k - 1)]
    BY <1>1, <1>4, <1>5
  <2>2. CASE i < k
    BY <1>1, <1>4, <2>1, <2>2
  <2>3. CASE ~(i < k)
    <3>1. i - (k - 1) \in 1..Len(s) - k /\ i - (k - 1) + k = i + 1
      BY <1>1, <2>3
    <3>2. b[i - (k - 1)] = s[i + 1]
      BY <1>4, <3>1
    <3> QED BY <1>1, <2>1, <2>3, <3>2
  <2> QED BY <2>2, <2>3
<1>7. T!RemoveFirst(s, s[k]) = a \o b
  BY <1>3 DEF a, b
<1> QED BY <1>1, <1>4, <1>5, <1>6, <1>7

LEMMA SameReordered == ASSUME NEW s PROVE T!Reordered(s, s)
<1> DEFINE p == [i \in DOMAIN s |-> i]
<1>1. p \in T!Bijection(DOMAIN s, DOMAIN s)
  BY DEF T!Bijection, T!Injection, T!Surjection, T!IsInjective
<1> QED BY <1>1 DEF T!Reordered

LEMMA RemoveTree ==
  ASSUME TreeInv, T!TmpfsAssumption, NEW f \in T!Fids, T!RemoveFile(f)
  PROVE  TreeInv'
<1> DEFINE p == file[f].parent
           left == T!RemoveFirst(children[p], f)
           text == T!Text(left)
<1>1. /\ f # T!RootFid /\ file[f].there /\ file[f].open = 0 /\ children[f] = <<>> /\ file[f] \in FileRec
      /\ p \in T!Fids /\ Kid(p, f) /\ file[p].there /\ file[p].dir /\ file[p] \in FileRec
      /\ UNCHANGED <<nfid, held, chans, wrote>>
  <2>1. f # T!RootFid /\ file[f].there /\ file[f].open = 0 /\ children[f] = <<>>
        /\ UNCHANGED <<nfid, held, chans, wrote>>
    BY DEF T!RemoveFile, T!findfile, T!kernel
  <2>2. file[f] \in FileRec
    BY <2>1, ThereRec DEF TreeInv
  <2>3. p \in T!Fids
    BY <2>2 DEF FileRec
  <2>4. Kid(p, f) /\ file[p].there /\ file[p].dir
    BY <2>1, <2>3 DEF TreeInv, TreeKids
  <2> QED BY <2>1, <2>2, <2>3, <2>4, ThereRec DEF TreeInv
<1>2. \A c \in T!Fids : ~Kid(f, c)
  BY <1>1 DEF Kid
<1>3. p # f
  BY <1>1, <1>2
<1>4. PICK k \in 1..Len(children[p]) : children[p][k] = f
  BY <1>1 DEF Kid
<1>5. /\ children[p] \in Seq(T!Fids) /\ Len(children[p]) \in Nat
      /\ left \in Seq(T!Fids) /\ Len(left) = Len(children[p]) - 1
      /\ \A i \in 1..Len(left) : left[i] = IF i < k THEN children[p][i] ELSE children[p][i + 1]
  <2>1. children[p] \in Seq(T!Fids) /\ Len(children[p]) \in Nat
    BY <1>1, TextSeq DEF TreeInv, TreeTypes
  <2>2. \A i \in 1..Len(children[p]) : children[p][i] = children[p][k] => i = k
    BY <1>1 DEF TreeInv, TreeKids
  <2> DEFINE s == children[p]
  <2> HIDE DEF s
  <2>3. /\ T!RemoveFirst(s, s[k]) \in Seq(T!Fids) /\ Len(T!RemoveFirst(s, s[k])) = Len(s) - 1
        /\ \A i \in 1..Len(s) - 1 : T!RemoveFirst(s, s[k])[i] = IF i < k THEN s[i] ELSE s[i + 1]
    BY <1>4, <2>1, <2>2, RemoveElements DEF s
  <2>4. left = T!RemoveFirst(s, s[k])
    BY <1>4 DEF s
  <2> HIDE DEF left
  <2> QED BY <2>1, <2>3, <2>4 DEF s
<1>6. \A c \in T!Fids : (\E i \in 1..Len(left) : left[i] = c) <=> Kid(p, c) /\ c # f
  <2> TAKE c \in T!Fids
  <2>1. ASSUME NEW i \in 1..Len(left), left[i] = c PROVE Kid(p, c) /\ c # f
    <3>1. PICK j \in 1..Len(children[p]) : j # k /\ children[p][j] = c
      <4> HIDE DEF left
      <4>1. CASE i < k
        BY <1>4, <1>5, <2>1, <4>1
      <4>2. CASE ~(i < k)
        <5>1. i + 1 \in 1..Len(children[p]) /\ i + 1 # k /\ children[p][i + 1] = c
          BY <1>4, <1>5, <2>1, <4>2
        <5> QED BY <5>1
      <4> QED BY <4>1, <4>2
    <3>2. \A x, y \in 1..Len(children[p]) : children[p][x] = children[p][y] => x = y
      BY <1>1 DEF TreeInv, TreeKids
    <3>3. c # f
      BY <1>4, <3>1, <3>2
    <3> QED BY <3>1, <3>3 DEF Kid
  <2>2. ASSUME Kid(p, c), c # f PROVE \E i \in 1..Len(left) : left[i] = c
    <3>1. PICK j \in 1..Len(children[p]) : children[p][j] = c
      BY <2>2 DEF Kid
    <3>2. CASE j < k
      BY <1>4, <1>5, <3>1, <3>2
    <3>3. CASE j > k
      <4>1. j - 1 \in 1..Len(left) /\ ~(j - 1 < k) /\ j - 1 + 1 = j
        BY <1>4, <1>5, <3>3
      <4>2. left[j - 1] = c
        BY <1>5, <3>1, <4>1
      <4> QED BY <4>1, <4>2
    <3>4. j # k
      BY <1>4, <2>2, <3>1
    <3> QED BY <1>4, <1>5, <3>1, <3>2, <3>3, <3>4
  <2> QED BY <2>1, <2>2
<1>7. \A i, j \in 1..Len(left) : left[i] = left[j] => i = j
  <2> SUFFICES ASSUME NEW i \in 1..Len(left), NEW j \in 1..Len(left), left[i] = left[j] PROVE i = j
    OBVIOUS
  <2> DEFINE at(x) == IF x < k THEN x ELSE x + 1
  <2>1. /\ at(i) \in 1..Len(children[p]) /\ left[i] = children[p][at(i)]
        /\ at(j) \in 1..Len(children[p]) /\ left[j] = children[p][at(j)]
    BY <1>4, <1>5
  <2>2. at(i) = at(j)
    <3> HIDE DEF at
    <3>1. \A x, y \in 1..Len(children[p]) : children[p][x] = children[p][y] => x = y
      BY <1>1 DEF TreeInv, TreeKids
    <3> QED BY <2>1, <3>1
  <2> QED BY <1>4, <1>5, <2>2
<1>8. \A i \in 1..Len(left) : left[i] \in T!Fids /\ left[i] # f /\ file[left[i]].there /\ file[left[i]] \in FileRec
  <2> TAKE i \in 1..Len(left)
  <2>1. left[i] \in T!Fids
    BY <1>5, ElementOfSeq
  <2>2. Kid(p, left[i]) /\ left[i] # f
    BY <1>6, <2>1
  <2>3. file[left[i]].there
    BY <1>1, <2>1, <2>2 DEF TreeInv, TreeKids
  <2> QED BY <2>1, <2>2, <2>3, ThereRec DEF TreeInv
<1>9. /\ text = [i \in 1..Len(left) |-> file[left[i]].name] /\ text \in Seq(Names \cup Values \cup {"root"})
      /\ Len(left) \in Nat
  <2>1. DOMAIN left = 1..Len(left) /\ Len(left) \in Nat
    BY <1>5
  <2>2. text = [i \in 1..Len(left) |-> file[left[i]].name]
    BY <2>1 DEF T!Text
  <2>3. \A i \in 1..Len(left) : file[left[i]].name \in Names \cup Values \cup {"root"}
    BY <1>8 DEF FileRec
  <2> HIDE DEF left, text
  <2> DEFINE e(i) == file[left[i]].name
             S == Names \cup Values \cup {"root"}
  <2>4. \A i \in 1..Len(left) : e(i) \in S
    BY <2>3
  <2> HIDE DEF e, S
  <2>5. [i \in 1..Len(left) |-> e(i)] \in Seq(S)
    BY <2>1, <2>4
  <2> QED BY <2>1, <2>2, <2>5 DEF e, S
<1>10. file[p].size = Len(children[p]) /\ file[p].size - 1 \in Nat /\ file[p].size - 1 = Len(left)
  <2>1. file[p].size = Len(children[p])
    BY <1>1 DEF TreeInv, T!ListingExact, T!There, T!findfile
  <2>2. Len(children[p]) - 1 \in Nat
    BY <1>4, <1>5
  <2> HIDE DEF left
  <2> QED BY <1>5, <2>1, <2>2
<1> DEFINE r == [file[p] EXCEPT !.buf = text, !.size = file[p].size - 1]
<1>11. /\ file' = [[file EXCEPT ![f] = T!NoFile] EXCEPT ![p] = r] /\ children' = [children EXCEPT ![p] = left]
  BY <1>1, <1>3 DEF T!RemoveFile, TreeInv, TreeTypes, FileRec
<1> HIDE DEF left, text
<1>12. r \in FileRec /\ r.buf = text /\ r.size = file[p].size - 1 /\ r.there /\ r.name = file[p].name
       /\ r.parent = file[p].parent /\ r.dir = file[p].dir /\ r.open = file[p].open
  <2> DEFINE z == file[p].size - 1
  <2> HIDE DEF z
  <2>1. z \in Nat /\ r = [file[p] EXCEPT !.buf = text, !.size = z]
    BY <1>10 DEF z
  <2> HIDE DEF r
  <2> QED BY <1>1, <1>9, <2>1 DEF FileRec, z
<1> HIDE DEF r
<1>13. PICK d \in T!Fids : d = p
  BY <1>1
<1>14. /\ file'[f] = T!NoFile /\ file'[d] = r /\ \A g \in T!Fids \ {f, d} : file'[g] = file[g]
       /\ file' \in [T!Fids -> FileRec \cup {T!NoFile}] /\ ~file'[f].there
       /\ children'[d] = left /\ \A g \in T!Fids \ {d} : children'[g] = children[g]
       /\ children' \in [T!Fids -> Seq(T!Fids)] /\ d # f
  <2> HIDE DEF p
  <2>1. file \in [T!Fids -> FileRec \cup {T!NoFile}] /\ children \in [T!Fids -> Seq(T!Fids)]
    BY DEF TreeInv, TreeTypes
  <2>2. ~T!NoFile.there
    BY DEF T!NoFile
  <2> QED BY <1>3, <1>5, <1>11, <1>12, <1>13, <2>1, <2>2
<1>15. TreeTypes'
  BY <1>1, <1>14 DEF TreeInv, TreeTypes
<1>16. \A g \in T!Fids : /\ file'[g].there <=> file[g].there /\ g # f
                         /\ g # f => /\ file'[g].name = file[g].name /\ file'[g].parent = file[g].parent
                                     /\ file'[g].dir = file[g].dir /\ file'[g].open = file[g].open
  <2> TAKE g \in T!Fids
  <2>1. CASE g = f
    BY <1>14, <2>1
  <2>2. CASE g = d
    BY <1>1, <1>12, <1>13, <1>14, <2>2
  <2>3. CASE g # f /\ g # d
    BY <1>14, <2>3
  <2> QED BY <2>1, <2>2, <2>3
<1>17. TreeFresh'
  <2>1. ASSUME NEW g \in T!Fids
        PROVE  /\ g >= nfid => ~file'[g].there /\ wrote[g] = <<>>
               /\ ~file'[g].there => chans[g] = 0
               /\ file'[g].there => file'[g].open = chans[g]
    <3>1. chans[f] = 0
      BY <1>1 DEF TreeInv, TreeFresh
    <3> QED BY <1>16, <3>1 DEF TreeInv, TreeFresh
  <2> QED BY <1>1, <2>1 DEF TreeFresh
<1>18. \A g, c \in T!Fids : Kid(g, c)' <=> Kid(g, c) /\ c # f
  <2> TAKE g, c \in T!Fids
  <2>1. CASE g = d
    BY <1>6, <1>13, <1>14, <2>1 DEF Kid
  <2>2. CASE g # d
    <3>1. Kid(g, c)' <=> Kid(g, c)
      BY <1>14, <2>2 DEF Kid
    <3>2. ~Kid(g, f)
      BY <1>13, <2>2 DEF TreeInv, TreeKids
    <3> QED BY <3>1, <3>2
  <2> QED BY <2>1, <2>2
<1>19. TreeKids'
  <2>1. (file[T!RootFid].there /\ file[T!RootFid].dir /\ file[T!RootFid].parent = T!RootFid)'
    BY <1>1, <1>16, TreeRange DEF TreeInv, TreeKids
  <2>2. ASSUME NEW g \in T!Fids, file'[g].there, g # T!RootFid
        PROVE  file'[file'[g].parent].there /\ file'[file'[g].parent].dir
    <3>1. file[g].there /\ g # f /\ file[g].parent \in T!Fids /\ file'[g].parent = file[g].parent
      BY <1>16, <2>2, ThereRec DEF TreeInv, FileRec
    <3>2. file[g].parent # f
      BY <1>2, <2>2, <3>1 DEF TreeInv, TreeKids
    <3> QED BY <1>16, <2>2, <3>1, <3>2 DEF TreeInv, TreeKids
  <2>3. ASSUME NEW g \in T!Fids, NEW c \in T!Fids
        PROVE  (Kid(g, c) <=> c # T!RootFid /\ file[c].there /\ file[c].parent = g)'
    <3>1. Kid(g, c) <=> c # T!RootFid /\ file[c].there /\ file[c].parent = g
      BY DEF TreeInv, TreeKids
    <3> QED BY <1>16, <1>18, <3>1
  <2>4. \A g \in T!Fids : \A i, j \in 1..Len(children'[g]) : children'[g][i] = children'[g][j] => i = j
    <3>1. ASSUME NEW g \in T!Fids \ {d}
          PROVE  \A i, j \in 1..Len(children'[g]) : children'[g][i] = children'[g][j] => i = j
      <4>1. children'[g] = children[g]
        BY <1>14
      <4>2. \A i, j \in 1..Len(children[g]) : children[g][i] = children[g][j] => i = j
        BY DEF TreeInv, TreeKids
      <4> QED BY <4>1, <4>2
    <3> QED BY <1>7, <1>14, <3>1
  <2> QED BY <2>1, <2>2, <2>3, <2>4 DEF TreeKids
<1>20. T!ListingExact'
  <2>1. ASSUME NEW g \in T!Fids \ {f, d}, file'[g].there, file'[g].dir
        PROVE  (T!Reordered(file[g].buf, T!Text(children[g])) /\ file[g].size = Len(children[g]))'
    <3>1. T!Reordered(file[g].buf, T!Text(children[g])) /\ file[g].size = Len(children[g])
      BY <1>14, <2>1 DEF TreeInv, T!ListingExact, T!There, T!findfile
    <3>2. ASSUME NEW c \in T!Fids, Kid(g, c) PROVE file'[c].name = file[c].name
      <4>1. c # f
        BY <1>13, <3>2 DEF TreeInv, TreeKids
      <4> QED BY <1>16, <4>1
    <3>3. T!Text(children[g])' = T!Text(children[g])
      <4>1. [i \in DOMAIN children[g] |-> file'[children[g][i]].name] = T!Text(children[g])
        BY <3>2, SameText DEF TreeInv
      <4>2. children'[g] = children[g]
        BY <1>14
      <4> QED BY <4>1, <4>2 DEF T!Text
    <3>4. file'[g].buf = file[g].buf /\ file'[g].size = file[g].size /\ children'[g] = children[g]
      BY <1>14
    <3> QED BY <3>1, <3>3, <3>4 DEF T!Reordered
  <2>2. (T!Reordered(file[d].buf, T!Text(children[d])) /\ file[d].size = Len(children[d]))'
    <3>1. (file[d].buf)' = text /\ (file[d].size)' = Len(left) /\ (children[d])' = left
      BY <1>10, <1>12, <1>14
    <3>2. T!Text(children[d])' = text
      <4>1. DOMAIN left = 1..Len(left)
        BY <1>5
      <4>2. \A i \in 1..Len(left) : file'[left[i]].name = file[left[i]].name
        BY <1>8, <1>16
      <4>3. T!Text(children[d])' = [i \in 1..Len(left) |-> file'[left[i]].name]
        BY <3>1, <4>1 DEF T!Text
      <4> QED BY <1>9, <4>2, <4>3
    <3> QED BY <3>1, <3>2, SameReordered DEF T!Reordered
  <2> QED BY <1>14, <2>1, <2>2 DEF T!ListingExact, T!There, T!findfile
<1>21. T!ReadBack'
  <2>1. ASSUME NEW g \in T!Fids, file'[g].there, ~file'[g].dir
        PROVE  /\ Len(file'[g].buf) = Len(wrote[g]) /\ file'[g].size = Len(wrote[g])
               /\ \A i \in DOMAIN wrote[g] : wrote[g][i] \in {"gap", file'[g].buf[i]}
    <3>1. g \in T!Fids \ {f, d} /\ file'[g] = file[g]
      BY <1>1, <1>13, <1>14, <1>16, <2>1
    <3> QED BY <2>1, <3>1 DEF TreeInv, T!ReadBack, T!There, T!findfile
  <2> QED BY <1>1, <2>1 DEF T!ReadBack, T!There, T!findfile
<1> QED BY <1>15, <1>17, <1>19, <1>20, <1>21 DEF TreeInv

LEMMA TreeNext == ASSUME TreeInv, T!TmpfsAssumption, [T!Next]_(T!vars) PROVE TreeInv'
<1>1. CASE UNCHANGED T!vars
  BY <1>1, CalmTree DEF T!vars, TreeInv, TreeTypes
<1>2. ASSUME NEW f \in T!Fids, T!Clunk(f) PROVE TreeInv'
  BY <1>2, CalmTree DEF T!Clunk, TreeInv, TreeTypes
<1>3. ASSUME NEW f \in T!Fids, NEW name \in Names, T!Getfid(f, name) PROVE TreeInv'
  <2>1. PICK i \in T!Named(f, name) : held' = held \cup {children[f][i]}
    BY <1>3 DEF T!Getfid
  <2>2. children[f][i] \in T!Fids
    BY <2>1, ElementOfSeq DEF T!Named, TreeInv, TreeTypes
  <2> QED BY <1>3, <2>1, <2>2, CalmTree DEF T!Getfid, TreeInv, TreeTypes
<1> QED BY <1>1, <1>2, <1>3, OpenTree, RemoveTree, CreateTree, WriteTree DEF T!Next

LEMMA TreeIsSound == ASSUME TreeInv PROVE T!TreeSound
<1>1. ASSUME NEW f \in held, chans[f] > 0 \/ \E c \in held : c \in T!There /\ file[c].parent = f
      PROVE  T!findfile(f)
  <2>1. f \in T!Fids /\ held \subseteq T!Fids /\ chans[f] \in Nat
    BY DEF TreeInv, TreeTypes
  <2>2. chans[f] > 0 => file[f].there
    BY <2>1 DEF TreeInv, TreeFresh
  <2>3. ASSUME NEW c \in held, c \in T!There, file[c].parent = f PROVE file[f].there
    BY <2>1, <2>3 DEF TreeInv, TreeKids, T!There, T!findfile
  <2> QED BY <1>1, <2>2, <2>3 DEF T!findfile
<1> QED BY <1>1 DEF T!TreeSound, TreeInv, T!InUseThere

-----------------------------------------------------------------------------
(* The servers side by side.                                               *)
ServersInv == /\ which = "buffers" => BufIInv
              /\ which = "partitions" => MbrIInv
              /\ which = "console" => ConsoleInv
              /\ which = "tmpfs" => TreeInv

LEMMA ServersInit == Init => ServersInv
BY ServersAssumption, BufInitIInv, MbrInitIInv, ConInit, TreeInit DEF Init, ServersInv

LEMMA ServersStep == ASSUME ServersInv, [Next]_vars PROVE ServersInv'
<1>1. CASE which = "buffers"
  <2>1. which' = "buffers" /\ [B!Next]_(B!vars)
    BY <1>1 DEF Next, vars, B!vars
  <2> QED BY <1>1, <2>1, ServersAssumption, BufNextIInv DEF ServersInv
<1>2. CASE which = "partitions"
  <2>1. which' = "partitions" /\ [M!Next]_(M!vars)
    BY <1>2 DEF Next, vars, M!vars
  <2> QED BY <1>2, <2>1, ServersAssumption, MbrNextIInv DEF ServersInv
<1>3. CASE which = "console"
  <2>1. which' = "console" /\ [C!Next]_(C!vars)
    BY <1>3 DEF Next, vars, C!vars
  <2> QED BY <1>3, <2>1, ServersAssumption, ConNext DEF ServersInv
<1>4. CASE which = "tmpfs"
  <2>1. which' = "tmpfs" /\ [T!Next]_(T!vars)
    BY <1>4 DEF Next, vars, T!vars
  <2> QED BY <1>4, <2>1, ServersAssumption, TreeNext DEF ServersInv
<1>5. CASE which \notin {"buffers", "partitions", "console", "tmpfs"}
  <2>1. which' = which
    BY DEF Next, vars
  <2> QED BY <1>5, <2>1 DEF ServersInv
<1> QED BY <1>1, <1>2, <1>3, <1>4, <1>5

LEMMA ServersInvHolds == Spec => []ServersInv
BY ServersInit, ServersStep, PTL DEF Spec

(* As long as the device can be read, no sector is in two buffers, and a   *)
(* buffer has what the device has unless its last change could not be      *)
(* written and was kept: readsectors(), writesectors(), forcerereadbuf()   *)
(* and the callers that skip it, for any number of buffers and sectors.    *)
THEOREM BuffersKept == Spec => []BuffersTrue
<1>1. ServersInv => BuffersTrue
  BY DEF ServersInv, BuffersTrue, BufIInv
<1> QED BY <1>1, ServersInvHolds, PTL

(* What is read through a partition is what was last written there through *)
(* it or through raw: the loops of readblocks() and writeblocks() of       *)
(* init/mbr.c keep the partitions apart, whatever the table and requests.  *)
THEOREM PartitionsKept == Spec => []PartsApart
<1>1. ServersInv => PartsApart
  BY DEF ServersInv, PartsApart, MbrIInv
<1> QED BY <1>1, ServersInvHolds, PTL

(* However the two threads of am335x/com/com.c interleave, as long as      *)
(* malloc() and free() do not meet on their heap, and wherever the pipes   *)
(* are closed: every read that was not dropped for want of memory is       *)
(* answered or waits, answers are whole, head and data together, and reads *)
(* get the characters in order, each once.                                 *)
THEOREM ReadsAnswered == Spec => []ConsoleSound
<1>1. ServersInv => ConsoleSound
  BY ConsoleIsSound DEF ServersInv, ConsoleSound
<1> QED BY <1>1, ServersInvHolds, PTL

(* Through any requests the kernel can make (creates, removals, opens,     *)
(* writes of any length): the text of a directory of bin/tmpfs/mount.c     *)
(* names the files that are in it, each as often as it is there; what is   *)
(* open or has a file below it that is used is in the tree; and a file has *)
(* what was last written, through all its buffers.                         *)
THEOREM TreeKept == Spec => []TreeSound
<1>1. ServersInv => TreeSound
  BY TreeIsSound DEF ServersInv, TreeSound
<1> QED BY <1>1, ServersInvHolds, PTL
=============================================================================
