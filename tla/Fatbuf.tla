------------------------------- MODULE Fatbuf --------------------------------
(***************************************************************************)
(* The sector buffers of bin/fatfs/util.c: readsectors() looks a sector up *)
(* among BUFSMAX buffers and replaces the one least used, writesectors()   *)
(* writes a changed buffer through to the device.  The contents of a sector*)
(* are a number.  Some callers read the buffer again when the write fails, *)
(* others leave the change in it.                                          *)
(***************************************************************************)
EXTENDS Naturals, FiniteSets

CONSTANTS BUFSMAX, Sectors, \* not 0, which an empty buffer has
          MaxUses, MaxVersion \* bounds on the lookups of a buffer, and the contents
FatbufAssumption == BUFSMAX \in Nat \ {0} /\ 0 \notin Sectors /\ MaxUses \in Nat /\ MaxVersion \in Nat

VARIABLES bufs,   \* [sector, uses, data]
          device, \* the contents of the sectors
          kept,   \* sectors whose last change is in a buffer and may not be on the device
          failed  \* the device could not be read
vars == <<bufs, device, kept, failed>>

B == 0..BUFSMAX - 1
Nobuf == [sector |-> 0, uses |-> 0, data |-> 0]
Init == /\ bufs = [i \in B |-> Nobuf] /\ device = [s \in Sectors |-> 0]
        /\ kept = {} /\ failed = FALSE

(* The loop ends at the buffer that has the sector, or at an unused one.   *)
Scanned == {i \in B : \A j \in B : j < i => bufs[j].uses # 0}
HitBuf(s) == {i \in Scanned : bufs[i].sector = s}
Victims == {i \in Scanned : \A j \in Scanned :
              bufs[i].uses < bufs[j].uses \/ (bufs[i].uses = bufs[j].uses /\ i <= j)}

Hit(s) == /\ HitBuf(s) # {}
          /\ \E i \in HitBuf(s) : /\ bufs[i].uses < MaxUses
                                  /\ bufs' = [bufs EXCEPT ![i].uses = @ + 1]
          /\ UNCHANGED <<device, kept, failed>>

(* Mutant: the sector is not read. *)
LoadKeepsData(s) == /\ HitBuf(s) = {}
                    /\ \E i \in Victims :
                         /\ bufs' = [bufs EXCEPT ![i] = [sector |-> s, uses |-> 1, data |-> @.data]]
                         /\ kept' = kept \ {bufs[i].sector}
                    /\ UNCHANGED <<device, failed>>

(* forcerereadbuf() reads the sector, and what the buffer had is gone; when*)
(* that fails the buffer is unused.                                        *)
Load(s) == /\ HitBuf(s) = {}
           /\ \E i \in Victims :
                /\ bufs' = [bufs EXCEPT ![i] = [sector |-> s, uses |-> 1, data |-> device[s]]]
                /\ kept' = kept \ {bufs[i].sector}
           /\ UNCHANGED <<device, failed>>
LoadFails(s) == /\ HitBuf(s) = {}
                /\ \E i \in Victims : /\ bufs' = [bufs EXCEPT ![i] = Nobuf]
                                       /\ kept' = kept \ {bufs[i].sector}
                /\ failed' = TRUE
                /\ UNCHANGED device

(* A buffer is changed and written.  When that fails the device has what   *)
(* it had, or what was written, or some of each.                           *)
Write(s) == \E i \in HitBuf(s) :
              /\ bufs[i].data < MaxVersion
              /\ bufs' = [bufs EXCEPT ![i].data = @ + 1]
              /\ device' = [device EXCEPT ![s] = bufs[i].data + 1]
              /\ kept' = kept \ {s}
              /\ UNCHANGED failed
DeviceFails(s, d) == device' = [device EXCEPT ![s] = d]

(* findfreecluster(), fatfileremove(), and the data of fatfilewrite() read *)
(* the buffer again; if that fails too the server exits.                   *)
WriteRereads(s, d) == /\ \E i \in HitBuf(s) : bufs' = [bufs EXCEPT ![i].data = d]
                      /\ DeviceFails(s, d) /\ kept' = kept \ {s}
                      /\ UNCHANGED failed
WriteExits(s, d) == /\ HitBuf(s) # {} /\ DeviceFails(s, d)
                    /\ failed' = TRUE
                    /\ UNCHANGED <<bufs, kept>>

(* writetableinfo() calls readsectors(), which finds the buffer and reads  *)
(* nothing; fatfilecreate(), for the contents of the new cluster, and      *)
(* fatupdatedirentry() at the end of fatfilewrite() do not even that.      *)
WriteKeeps(s, d) == \E i \in HitBuf(s) :
                      /\ bufs[i].data < MaxVersion
                      /\ bufs' = [bufs EXCEPT ![i].data = @ + 1]
                      /\ DeviceFails(s, d) /\ kept' = kept \cup {s}
                      /\ UNCHANGED failed

(* After a failed read a sector may be in two buffers, and the model stops.*)
Next == ~failed /\ \E s \in Sectors :
          \/ Hit(s) \/ Load(s) \/ LoadFails(s) \/ Write(s)
          \/ \E d \in 0..MaxVersion : WriteRereads(s, d) \/ WriteExits(s, d) \/ WriteKeeps(s, d)

Spec == Init /\ [][Next]_vars
-----------------------------------------------------------------------------
TypeOK == /\ \A i \in B : bufs[i].sector \in Sectors \cup {0} /\ bufs[i].uses \in 0..MaxUses
          /\ device \in [Sectors -> 0..MaxVersion]
          /\ kept \subseteq Sectors /\ failed \in BOOLEAN

(* As long as the device can be read: a sector is in at most one buffer,   *)
(* and the buffer has what the device has, unless the last change of it    *)
(* could not be written, was kept, and has not been replaced since: what   *)
(* was written is read back, whichever sectors were read in between.       *)
BuffersTrue == ~failed =>
    /\ \A i \in B : bufs[i].sector # 0 =>
         /\ bufs[i].sector \notin kept => bufs[i].data = device[bufs[i].sector]
         /\ \A j \in B \ {i} : bufs[j].sector # bufs[i].sector
    /\ kept \subseteq {bufs[i].sector : i \in B}
=============================================================================
