---------------------------------- MODULE Ata ----------------------------------
(***************************************************************************)
(* The ATA PIO driver (src/src/storage/ata.c): one call at a time, under   *)
(* the drive's lock, against a drive that may stay busy, refuse a command  *)
(* or lose a sector after it has accepted the data.  The registers are     *)
(* abstracted to what a poll of the status can answer.                     *)
(***************************************************************************)
EXTENDS Integers, Sequences

CONSTANTS
  Sectors,          \* the drive's sectors, 0 .. Sectors - 1
  Data              \* what a sector may hold

AtaConstants == Sectors \in Nat \ {0} /\ Data # {}

VARIABLES
  medium,           \* what the drive stores
  ata_pc,           \* where ata_read or ata_write is
  ata_call,         \* [write, lba, data]: data has one element per sector
  ata_sector,       \* the loop variable, sectors done so far
  ata_result,       \* 0 or -1, valid when idle
  medium_before,    \* history: the medium when the call began
  ata_lost          \* history: the sectors of the call the drive took and lost

vars == <<medium, ata_pc, ata_call, ata_sector, ata_result, medium_before, ata_lost>>

Blank == CHOOSE d \in Data : TRUE
Merge(disk, lba, data, n) ==
  [s \in DOMAIN disk |-> IF s - lba \in 0 .. n - 1 THEN data[s - lba + 1] ELSE disk[s]]

Init ==
  /\ medium = [s \in 0 .. Sectors - 1 |-> Blank]
  /\ ata_pc = "idle"
  /\ ata_call = [write |-> FALSE, lba |-> 0, data |-> <<>>]
  /\ ata_sector = 0 /\ ata_result = 0
  /\ medium_before = medium /\ ata_lost = {}

Return(result) == ata_pc' = "idle" /\ ata_result' = result

(* ata_read and ata_write take the lock.  The block layer has checked the  *)
(* range and asks for at least one sector; what the caller's buffer holds  *)
(* before a read is of no account.                                         *)
ata_read(lba, count) ==
  /\ ata_pc = "idle"
  /\ ata_pc' = "select" /\ ata_sector' = 0
  /\ ata_call' = [write |-> FALSE, lba |-> lba, data |-> [i \in 1 .. count |-> Blank]]
  /\ medium_before' = medium /\ ata_lost' = {}
  /\ UNCHANGED <<medium, ata_result>>

ata_write(lba, data) ==
  /\ ata_pc = "idle"
  /\ ata_pc' = "select" /\ ata_sector' = 0
  /\ ata_call' = [write |-> TRUE, lba |-> lba, data |-> data]
  /\ medium_before' = medium /\ ata_lost' = {}
  /\ UNCHANGED <<medium, ata_result>>

(* wait_not_busy gives up after ATA_POLL_LIMIT polls and looks at no other *)
(* bit of the status.                                                      *)
select_lba28 ==
  /\ ata_pc = "select"
  /\ \/ ata_pc' = "data" /\ UNCHANGED ata_result
     \/ Return(-1)
  /\ UNCHANGED <<medium, ata_call, ata_sector, medium_before, ata_lost>>

(* Mutation of Advance: a write ends with its last sector accepted.        *)
Advance_one_short ==
  /\ ata_sector' = ata_sector + 1
  /\ IF ata_sector + 2 < Len(ata_call.data) THEN ata_pc' = "select" /\ UNCHANGED ata_result
     ELSE IF ata_call.write THEN ata_pc' = "flush" /\ UNCHANGED ata_result
          ELSE Return(0)

(* The end of one turn of either loop.                                     *)
Advance ==
  /\ ata_sector' = ata_sector + 1
  /\ IF ata_sector + 1 < Len(ata_call.data) THEN ata_pc' = "select" /\ UNCHANGED ata_result
     ELSE IF ata_call.write THEN ata_pc' = "flush" /\ UNCHANGED ata_result
          ELSE Return(0)

(* The command and wait_data: ERR, DF and a poll limit reached all fail.   *)
(* Otherwise the 256 words go across.                                      *)
wait_data_fails ==
  /\ ata_pc = "data"
  /\ Return(-1)
  /\ UNCHANGED <<medium, ata_call, ata_sector, medium_before, ata_lost>>

ReadSector ==
  /\ ata_pc = "data" /\ ~ata_call.write
  /\ ata_call' = [ata_call EXCEPT !.data[ata_sector + 1] = medium[ata_call.lba + ata_sector]]
  /\ Advance
  /\ UNCHANGED <<medium, medium_before, ata_lost>>

(* Once the drive has the words, nobody asks whether it could store them:  *)
(* the next status read is select_lba28's or the flush's.                  *)
WriteSector ==
  /\ ata_pc = "data" /\ ata_call.write
  /\ LET s == ata_call.lba + ata_sector IN
       \/ medium' = [medium EXCEPT ![s] = ata_call.data[ata_sector + 1]] /\ UNCHANGED ata_lost
       \/ ata_lost' = ata_lost \cup {s} /\ UNCHANGED medium
  /\ Advance
  /\ UNCHANGED <<ata_call, medium_before>>

(* CACHE_FLUSH fails only when the drive stays busy: an error the drive    *)
(* reports for the flush or for an earlier sector is not looked at.        *)
cache_flush ==
  /\ ata_pc = "flush"
  /\ Return(0) \/ Return(-1)
  /\ UNCHANGED <<medium, ata_call, ata_sector, medium_before, ata_lost>>

Step == select_lba28 \/ wait_data_fails \/ ReadSector \/ WriteSector \/ cache_flush

Ranges == {r \in (0 .. Sectors - 1) \X (1 .. Sectors) : r[1] + r[2] <= Sectors}
Next ==
  \/ \E r \in Ranges : ata_read(r[1], r[2]) \/ \E d \in [1 .. r[2] -> Data] : ata_write(r[1], d)
  \/ Step

Spec == Init /\ [][Next]_vars /\ WF_vars(Step)
------------------------------------------------------------------------------
Indices == 0 .. Sectors
TypeOK ==
  /\ medium \in [0 .. Sectors - 1 -> Data] /\ medium_before \in [0 .. Sectors - 1 -> Data]
  /\ ata_pc \in {"idle", "select", "data", "flush"} /\ ata_sector \in Indices
  /\ ata_call.write \in BOOLEAN /\ ata_call.lba \in 0 .. Sectors - 1
  /\ \A i \in DOMAIN ata_call.data : ata_call.data[i] \in Data

(* At every moment the medium is the medium at the call with the sectors   *)
(* done so far stored, in order, except those the drive lost; a write that *)
(* returns 0 has sent them all, one that fails a prefix; a read changes    *)
(* nothing, and one that returns 0 has filled the whole buffer from the    *)
(* medium.                                                                 *)
TransfersExact ==
  LET all == Len(ata_call.data) IN
  /\ \A s \in DOMAIN medium :
       medium[s] = IF ata_call.write /\ s \notin ata_lost
                   THEN Merge(medium_before, ata_call.lba, ata_call.data, ata_sector)[s]
                   ELSE medium_before[s]
  /\ (ata_pc = "idle" /\ ata_result = 0) \/ ata_pc = "flush" => ata_sector = all
  /\ ~ata_call.write =>
       \A i \in 1 .. ata_sector : ata_call.data[i] = medium[ata_call.lba + i - 1]

=============================================================================
