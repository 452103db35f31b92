----------------------------- MODULE MvhfsAnchor -----------------------------
(***************************************************************************)
(* The persistent filesystem is well typed, and what every kind of step    *)
(* leaves of the superblock a mount would choose: the lemmas MvhfsProofs   *)
(* rests on, for any number of files, names, sectors and generations.      *)
(***************************************************************************)
EXTENDS Mvhfs, TLAPS

LEMMA OtherSlot ==
  \A s \in Slots : other(s) \in Slots /\ other(s) # s /\ other(other(s)) = s
  BY DEF Slots, other

LEMMA EmptyFits == Empty \in Contents
  <1>1. Empty \in [1 .. 0 -> Data]
    BY DEF Empty
  <1>2. 0 \in 0 .. MVHFS_SECTORS_PER_COPY
    BY DirectoryFits
  <1> QED
    BY <1>1, <1>2 DEF Contents

LEMMA RestFits ==
  EmptyDirectory \in Directories /\ NoCall \in Calls /\ Unmounted \in Handles
  BY EmptyFits, DirectoryFits
  DEF EmptyDirectory, Directories, NoCall, Calls, Unmounted, Handles, Files, Slots

(* Whatever a block_write does to its sector, the medium keeps its shape.  *)
LEMMA BlockWriteType ==
  ASSUME TypeOK, WritePending, NEW o \in Outcomes, block_write(o)
  PROVE  MediumTypeOK'
  <1>a. EmptyDirectory \in Directories
    BY RestFits
  <1>t. MediumTypeOK /\ fs \in Handles /\ call \in Calls
    BY DEF TypeOK
  <1>d. ASSUME NEW s \in Slots, NEW k, NEW d \in Directories,
               PutDirectorySector(o, s, k, d)
        PROVE  MediumTypeOK'
    <2>1. \A f \in Files : Sector(o, directory[s][f], d[f]) \in DirectorySectors
      BY <1>t DEF MediumTypeOK, Sector, DirectorySectors, Directories
    <2> QED
      BY <1>t, <1>d, <2>1 DEF MediumTypeOK, PutDirectorySector
  <1>s. ASSUME NEW s \in Slots, NEW g \in Nat, NEW ds \in Slots, NEW d \in Directories,
               PutSuperblock(o, s, g, ds, d)
        PROVE  MediumTypeOK'
    <2>1. [generation |-> g, directory_slot |-> ds, directory_crc |-> crc32(d)] \in Superblocks
      BY DEF Superblocks, crc32
    <2> QED
      BY <1>t, <1>s, <2>1 DEF MediumTypeOK, PutSuperblock, Sector
  <1>1. CASE pc = "data" /\ PutDataSector(o)
    <2> DEFINE f == call.file
               s == other(call.backup.slot)
               k == call.sector
               new == IF k <= call.size THEN call.input[k] ELSE Zero
    <2>1. f \in Files /\ s \in Slots
      BY <1>t, <1>1, OtherSlot DEF WritePending, Entries, Calls
    <2>2. k \in 1 .. MVHFS_SECTORS_PER_COPY /\ new \in DataSectors
      BY <1>t, <1>1, DirectoryFits DEF WritePending, DataSectors, Calls
    <2>3. data' = [data EXCEPT ![f][s][k] = Sector(o, @, new)]
      BY <1>1 DEF PutDataSector
    <2> HIDE DEF f, s, k, new
    <2>4. data[f][s] \in DataCopies
      BY <1>t, <2>1 DEF MediumTypeOK
    <2>5. Sector(o, data[f][s][k], new) \in DataSectors
      BY <2>2, <2>4, Zenon DEF Sector, DataSectors, DataCopies
    <2>6. data' \in [Files -> [Slots -> DataCopies]]
      BY <1>t, <2>1, <2>2, <2>3, <2>5 DEF MediumTypeOK, DataCopies
    <2> QED
      BY <1>t, <1>1, <2>6 DEF PutDataSector, MediumTypeOK
  <1>2. CASE /\ pc = "directory"
             /\ PutDirectorySector(o, other(fs.directory_slot), call.sector, fs.directory)
    BY <1>2, <1>d, <1>t, OtherSlot DEF Handles
  <1>3. CASE /\ pc = "superblock"
             /\ PutSuperblock(o, other(fs.superblock_slot), fs.generation + 1,
                              other(fs.directory_slot), fs.directory)
    BY <1>3, <1>s, <1>t, OtherSlot DEF Handles
  <1>4. CASE pc = "format" /\ ZeroDirectorySector(o)
    BY <1>4, <1>d, <1>a DEF ZeroDirectorySector, Slots
  <1>5. CASE pc = "format1" /\ PutSuperblock(o, 1, 0, 1, EmptyDirectory)
    BY <1>5, <1>s, <1>a DEF Slots
  <1>6. CASE pc = "format0" /\ PutSuperblock(o, 0, 1, 0, EmptyDirectory)
    BY <1>6, <1>s, <1>a DEF Slots
  <1> QED
    BY <1>1, <1>2, <1>3, <1>4, <1>5, <1>6 DEF block_write

(* The memory of the machine keeps its shape in every step.                *)
LEMMA MountedDirectory ==
  ASSUME MediumTypeOK, NEW s \in Slots, superblock[s] # Garbage, read_directory(s)
  PROVE  mount_from_superblock(s) \in Handles
  <1>1. superblock[s] \in Superblocks
    BY DEF MediumTypeOK
  <1>2. directory[superblock[s].directory_slot] \in Directories
    BY <1>1 DEF Superblocks, read_directory, crc32
  <1> QED
    BY <1>1, <1>2 DEF mount_from_superblock, Handles, Superblocks

LEMMA BeginCommitType ==
  ASSUME TypeOK, NEW f \in Files, NEW e \in Entries \cup {Cleared}, BeginCommit(f, e)
  PROVE  fs' \in Handles /\ call' \in Calls /\ pc' \in Labels /\ WritePending'
  <1>1. fs \in Handles /\ call \in Calls
    BY DEF TypeOK
  <1>2. fs.directory[f] \in Entries \cup {Cleared}
    BY <1>1 DEF Handles, Directories
  <1>3. [fs.directory EXCEPT ![f] = e] \in Directories
    BY <1>1 DEF Handles, Directories
  <1>4. fs' \in Handles
    BY <1>1, <1>3 DEF BeginCommit, Handles
  <1>5. call' \in Calls
    BY <1>1, <1>2, Zenon DEF BeginCommit, Calls
  <1> QED
    BY <1>4, <1>5 DEF BeginCommit, Goto, Labels, WritePending

LEMMA FoundFile ==
  ASSUME NEW d, NEW n, NEW f \in find_entry(d, n)
  PROVE  f \in Files /\ d[f] # Cleared /\ d[f].name = n
  BY DEF find_entry, First, Named

LEMMA TypeInit == Init => TypeOK /\ WritePending
  <1> SUFFICES ASSUME Init PROVE TypeOK /\ WritePending
    OBVIOUS
  <1>1. MediumTypeOK
    BY DEF Init, MediumTypeOK, DirectorySectors, DataSectors, DataCopies
  <1> QED
    BY <1>1, RestFits, Zenon DEF Init, TypeOK, Labels, WritePending

(* The sector mvhfs_write has just stored joins those before it.           *)
LEMMA SectorStored ==
  ASSUME TypeOK, WritePending, pc = "data", PutDataSector("landed")
  PROVE  \A k \in 1 .. call.size : k < call.sector + 1 =>
           data'[call.file][other(call.backup.slot)][k] = call.input[k]
  <1> SUFFICES ASSUME NEW k \in 1 .. call.size, k < call.sector + 1
               PROVE  data'[call.file][other(call.backup.slot)][k] = call.input[k]
    OBVIOUS
  <1>t. data \in [Files -> [Slots -> DataCopies]] /\ call \in Calls
    BY DEF TypeOK, MediumTypeOK
  <1>1. call.file \in Files /\ other(call.backup.slot) \in Slots
    BY <1>t, OtherSlot DEF WritePending, Entries, Calls
  <1>2. data[call.file][other(call.backup.slot)] \in DataCopies
    BY <1>t, <1>1
  <1>3. /\ k \in 1 .. MVHFS_SECTORS_PER_COPY
        /\ call.sector \in 1 .. MVHFS_SECTORS_PER_COPY
        /\ call.size \in Nat
    BY <1>t, DirectoryFits DEF Calls, WritePending
  <1>4. data'[call.file][other(call.backup.slot)] =
          [data[call.file][other(call.backup.slot)] EXCEPT ![call.sector] =
             IF call.sector <= call.size THEN call.input[call.sector] ELSE Zero]
    <2>1. data' = [data EXCEPT ![call.file][other(call.backup.slot)][call.sector] =
             IF call.sector <= call.size THEN call.input[call.sector] ELSE Zero]
      BY DEF PutDataSector, Sector
    <2> QED
      BY <1>t, <1>1, <2>1
  <1>5. CASE k = call.sector
    <2>1. data'[call.file][other(call.backup.slot)] =
            [data[call.file][other(call.backup.slot)] EXCEPT ![call.sector] =
               call.input[call.sector]]
      BY <1>3, <1>4, <1>5
    <2> QED
      BY <1>2, <1>3, <1>5, <2>1, Zenon DEF DataCopies
  <1>6. CASE k < call.sector
    BY <1>2, <1>3, <1>4, <1>6 DEF DataCopies, WritePending
  <1> QED
    BY <1>3, <1>5, <1>6

LEMMA TypeStep == TypeOK /\ WritePending /\ [Next]_vars => TypeOK' /\ WritePending'
  <1> SUFFICES ASSUME TypeOK, WritePending, [Next]_vars PROVE TypeOK' /\ WritePending'
    OBVIOUS
  <1>t. MediumTypeOK /\ fs \in Handles /\ call \in Calls /\ pc \in Labels
    BY DEF TypeOK
  <1>o. {"landed", "lost", "torn"} \subseteq Outcomes /\ FailedWrite \subseteq Outcomes
    BY Failures DEF Outcomes
  <1>m. UNCHANGED medium => MediumTypeOK'
    BY <1>t DEF medium, MediumTypeOK
  <1>1. CASE mvhfs_mount
    <2>1. fs' \in Handles
      <3>1. PICK sb \in Readable, dir \in Readable :
              \/ fs' = Unmounted
              \/ \E s \in Mountable(sb, dir) : fs' = mount_from_superblock(s)
        BY <1>1 DEF mvhfs_mount
      <3>2. \A s \in Mountable(sb, dir) :
              s \in Slots /\ superblock[s] # Garbage /\ read_directory(s)
        BY DEF Mountable, validate_superblock
      <3> QED
        BY <3>1, <3>2, <1>t, RestFits, MountedDirectory
    <2> QED
      BY <1>1, <1>t, <1>m, <2>1 DEF mvhfs_mount, TypeOK, Labels, WritePending, medium
  <1>2. CASE mvhfs_format
    <2>1. call' \in Calls
      BY <1>2, RestFits DEF mvhfs_format, Calls
    <2> QED
      BY <1>2, <1>t, <1>m, <2>1, Zenon DEF mvhfs_format, Goto, TypeOK, Labels, WritePending, medium
  <1>3. CASE mvhfs_format_directories
    <2>1. call' \in Calls
      BY <1>3, <1>t, RestFits DEF mvhfs_format_directories, Calls
    <2> QED
      BY <1>3, <1>t, <1>o, <2>1, BlockWriteType
      DEF mvhfs_format_directories, Goto, TypeOK, Labels, WritePending
  <1>4. CASE mvhfs_format_second
    BY <1>4, <1>t, <1>o, BlockWriteType
    DEF mvhfs_format_second, Goto, TypeOK, Labels, WritePending
  <1>5. CASE mvhfs_format_first
    BY <1>5, <1>t, <1>o, BlockWriteType
    DEF mvhfs_format_first, Goto, TypeOK, Labels, WritePending
  <1>6. ASSUME NEW n \in Names, mvhfs_create(n) PROVE TypeOK' /\ WritePending'
    <2>1. [name |-> n, size |-> 0, crc |-> crc32(Empty), slot |-> 0] \in Entries
      BY EmptyFits, DirectoryFits DEF Entries, crc32, Slots
    <2>2. find_free(fs.directory) \subseteq Files
      BY DEF find_free, First, FreeEntries
    <2> QED
      BY <1>6, <1>m, <2>1, <2>2, BeginCommitType DEF mvhfs_create, TypeOK, medium
  <1>7. ASSUME NEW n \in Names, mvhfs_remove(n) PROVE TypeOK' /\ WritePending'
    BY <1>7, <1>m, FoundFile, BeginCommitType DEF mvhfs_remove, TypeOK, medium
  <1>8. ASSUME NEW n \in Names, NEW size \in 0 .. MVHFS_SECTORS_PER_COPY,
               NEW input \in [1 .. size -> Data], mvhfs_write(n, size, input)
        PROVE  TypeOK' /\ WritePending'
    <2>1. PICK f \in find_entry(fs.directory, n) :
            call' = [file |-> f, backup |-> fs.directory[f], size |-> size,
                     input |-> input, sector |-> 1]
      BY <1>8 DEF mvhfs_write
    <2>2. f \in Files /\ fs.directory[f] \in Entries
      BY <1>t, FoundFile DEF Handles, Directories
    <2>3. input \in Contents
      BY DEF Contents
    <2>4. call' \in Calls
      BY <2>1, <2>2, <2>3 DEF Calls
    <2>5. TypeOK'
      BY <1>8, <1>m, <2>4 DEF mvhfs_write, Goto, TypeOK, Labels, medium
    <2>6. WritePending'
      BY <1>8, <2>1, <2>2, DirectoryFits DEF mvhfs_write, MayCall, Goto, WritePending
    <2> QED
      BY <2>5, <2>6
  <1>9. CASE mvhfs_write_sector
    <2>1. MediumTypeOK'
      BY <1>9, <1>o, BlockWriteType DEF mvhfs_write_sector
    <2>2. CASE call.sector < MVHFS_SECTORS_PER_COPY
      <3>1. /\ pc = "data" /\ pc' = "data" /\ fs' = fs /\ formatted' = formatted
            /\ call' = [call EXCEPT !.sector = @ + 1]
            /\ PutDataSector("landed")
        BY <1>9, <2>2 DEF mvhfs_write_sector, Goto, block_write
      <3>2. call' \in Calls
        BY <3>1, <1>t DEF Calls
      <3>3. \A k \in 1 .. call.size : k < call.sector + 1 =>
              data'[call.file][other(call.backup.slot)][k] = call.input[k]
        BY <3>1, SectorStored
      <3>4. WritePending'
        BY <3>1, <3>3, <1>t, <2>2, DirectoryFits DEF WritePending, Calls
      <3> QED
        BY <2>1, <3>1, <3>2, <3>4, <1>t DEF TypeOK
    <2>3. CASE ~ (call.sector < MVHFS_SECTORS_PER_COPY)
      <3>1. WrittenEntry \in Entries
        BY <1>9, <1>t, OtherSlot, Zenon
        DEF mvhfs_write_sector, WritePending, WrittenEntry, Entries, Calls, crc32
      <3> QED
        BY <1>9, <1>t, <2>1, <2>3, <3>1, BeginCommitType DEF mvhfs_write_sector, Calls, TypeOK
    <2> QED
      BY <2>2, <2>3
  <1>10. CASE commit_directory_sector
    <2>1. call' \in Calls
      BY <1>10, <1>t DEF commit_directory_sector, Calls
    <2> QED
      BY <1>10, <1>t, <1>o, <2>1, BlockWriteType
      DEF commit_directory_sector, Goto, TypeOK, Labels, WritePending
  <1>11. CASE commit_directory_superblock
    <2>1. fs' \in Handles
      <3>1. /\ other(fs.superblock_slot) \in Slots
            /\ other(fs.directory_slot) \in Slots
            /\ fs.generation + 1 \in Nat
        BY <1>t, OtherSlot DEF Handles
      <3> QED
        BY <1>11, <1>t, <3>1, Zenon DEF commit_directory_superblock, Handles
    <2> QED
      BY <1>11, <1>t, <1>o, <2>1, RestFits, BlockWriteType
      DEF commit_directory_superblock, Return, TypeOK, Labels, WritePending
  <1>12. CASE block_write_fails
    <2>1. [fs.directory EXCEPT ![call.file] = call.backup] \in Directories
      BY <1>t DEF Handles, Calls, Directories
    <2>2. fs' \in Handles
      BY <1>12, <1>t, <2>1 DEF block_write_fails, Handles
    <2> QED
      BY <1>12, <1>o, <2>2, RestFits, BlockWriteType
      DEF block_write_fails, Return, TypeOK, Labels, WritePending
  <1>13. CASE Crash
    BY <1>13, <1>m, RestFits, BlockWriteType DEF Crash, Return, TypeOK, Labels, WritePending
  <1>14. CASE UNCHANGED vars
    BY <1>14 DEF vars, TypeOK, MediumTypeOK, WritePending
  <1> QED
    BY <1>1, <1>2, <1>3, <1>4, <1>5, <1>6, <1>7, <1>8, <1>9, <1>10, <1>11, <1>12,
       <1>13, <1>14 DEF Next

(* In every behaviour of mvhfs.c, with any failures of the device, all     *)
(* state keeps its type: in particular a directory reaches memory only if  *)
(* it is whole.                                                            *)
THEOREM TypeCorrect == Spec => []TypeOK
  <1>1. Spec => [](TypeOK /\ WritePending)
    BY TypeInit, TypeStep, PTL DEF Spec
  <1> QED
    BY <1>1, PTL
------------------------------------------------------------------------------
(* Crash safety.  While a call runs, the superblock fs names leads to a    *)
(* sound directory, the one in memory without the change of the call.      *)

LEMMA LiveUnique ==
  ASSUME MediumTypeOK, NEW s \in Slots, NEW t \in Slots, Live(s), Live(t)
  PROVE  s = t
  <1> SUFFICES ASSUME t = other(s) PROVE FALSE
    BY DEF Slots, other
  <1>1. superblock[s] \in Superblocks /\ superblock[t] \in Superblocks
    BY DEF MediumTypeOK, Live
  <1>2. superblock[s].generation < superblock[t].generation
    BY OtherSlot DEF Live
  <1>3. superblock[t].generation < superblock[s].generation
    BY DEF Live
  <1> QED
    BY <1>1, <1>2, <1>3 DEF Superblocks

LEMMA Anchor ==
  ASSUME TypeOK, Recoverable, Coherent, formatted, fs.mounted, pc # "mount"
  PROVE  /\ Anchored(fs.superblock_slot)
         /\ superblock[fs.superblock_slot].generation = fs.generation
         /\ superblock[fs.superblock_slot].directory_slot = fs.directory_slot
         /\ directory[fs.directory_slot] = Committed
         /\ Sound(Committed)
  <1>1. fs.superblock_slot \in Slots /\ MediumTypeOK
    BY DEF TypeOK, Handles
  <1>2. Anchored(fs.superblock_slot)
    BY <1>1, LiveUnique DEF Recoverable, Coherent, Anchored
  <1> QED
    BY <1>2 DEF Coherent, Anchored, read_directory, crc32, Copy

LEMMA SoundKept ==
  ASSUME NEW d, Sound(d),
         \A f \in Files : d[f] # Cleared => data'[f][d[f].slot] = data[f][d[f].slot]
  PROVE  Sound(d)'
  <1>1. \A f \in Files : d[f] # Cleared => Fetched(f, d[f])' = Fetched(f, d[f])
    BY DEF Fetched
  <1> QED
    BY <1>1 DEF Sound, crc32

LEMMA AnchoredKept ==
  ASSUME NEW s, Anchored(s), superblock'[s] = superblock[s], Live(s)',
         directory'[superblock[s].directory_slot] = directory[superblock[s].directory_slot],
         NEW d, d = directory[superblock[s].directory_slot], Sound(d)'
  PROVE  Anchored(s)'
  <1>1. Copy(s) = d /\ Copy(s)' = d
    BY DEF Copy
  <1>2. Sound(Copy(s))'
    BY <1>1, ZenonT(60) DEF Sound, Fetched
  <1> QED
    BY <1>2 DEF Anchored, read_directory

(* A block_write of a running call leaves the anchor alone, unless it is   *)
(* the new superblock that reaches the medium.                             *)
LEMMA AnchorKept ==
  ASSUME Inv, formatted, NEW o \in Outcomes, block_write(o),
         NEW s \in Slots, s = fs.superblock_slot, ~ (pc = "superblock" /\ o = "landed")
  PROVE  Anchored(s)' /\ superblock'[s] = superblock[s]
  <1>0. /\ fs.mounted /\ pc \in {"data", "directory", "superblock"}
        /\ MediumTypeOK /\ fs \in Handles /\ call \in Calls
    BY DEF Inv, block_write, FormatPending, WritePending, CommitPending, TypeOK
  <1>1. /\ Anchored(s)
        /\ superblock[s].directory_slot = fs.directory_slot
        /\ directory[fs.directory_slot] = Committed
    BY <1>0, Anchor DEF Inv
  <1>2. PICK d : d = directory[fs.directory_slot]
    OBVIOUS
  <1>3. Sound(d) /\ d = Committed
    BY <1>1, <1>2 DEF Anchored, Copy
  <1>4. CASE pc = "data"
    <2>1. PutDataSector(o) /\ UNCHANGED <<superblock, directory>>
      BY <1>4 DEF block_write, PutDataSector
    <2>2. d = fs.directory
      BY <1>3, <1>4 DEF Committed
    <2>3. ASSUME NEW f \in Files, d[f] # Cleared
          PROVE  data'[f][d[f].slot] = data[f][d[f].slot]
      <3>1. d[f].slot \in Slots
        BY <1>0, <2>2, <2>3 DEF Handles, Directories, Entries
      <3>2. /\ call.file \in Files /\ other(call.backup.slot) \in Slots
            /\ call.backup = d[call.file]
            /\ other(call.backup.slot) # call.backup.slot
        BY <1>0, <1>4, <2>2, OtherSlot DEF Inv, WritePending, Calls, Entries
      <3>3. data \in [Files -> [Slots -> DataCopies]]
        BY <1>0 DEF MediumTypeOK
      <3>4. \E x : data' = [data EXCEPT ![call.file][other(call.backup.slot)] = x]
        BY <2>1, Zenon DEF PutDataSector
      <3> QED
        BY <3>1, <3>2, <3>3, <3>4
    <2>4. Sound(d)'
      BY <1>3, <2>3, SoundKept
    <2>5. Live(s)'
      BY <1>1, <2>1 DEF Anchored, Live
    <2> QED
      BY <1>1, <1>2, <2>1, <2>4, <2>5, AnchoredKept
  <1>5. CASE pc = "directory"
    <2>1. PutDirectorySector(o, other(fs.directory_slot), call.sector, fs.directory)
      BY <1>5 DEF block_write
    <2>2. UNCHANGED <<superblock, data>>
      BY <2>1 DEF PutDirectorySector
    <2>3. directory'[fs.directory_slot] = directory[fs.directory_slot]
      BY <1>0, <2>1, OtherSlot DEF PutDirectorySector, MediumTypeOK, Handles
    <2>4. Sound(d)'
      BY <1>3, <2>2, SoundKept
    <2>5. Live(s)'
      BY <1>1, <2>2 DEF Anchored, Live
    <2> QED
      BY <1>1, <1>2, <2>2, <2>3, <2>4, <2>5, AnchoredKept
  <1>6. CASE pc = "superblock"
    <2>1. /\ o # "landed" /\ UNCHANGED <<directory, data>>
          /\ \/ superblock' = [superblock EXCEPT ![other(s)] = superblock[other(s)]]
             \/ superblock' = [superblock EXCEPT ![other(s)] = Garbage]
      BY <1>6 DEF block_write, PutSuperblock, Sector
    <2>2. superblock'[s] = superblock[s]
      BY <1>0, <2>1, OtherSlot DEF MediumTypeOK
    <2>3. superblock'[other(s)] = superblock[other(s)] \/ superblock'[other(s)] = Garbage
      BY <1>0, <2>1, OtherSlot DEF MediumTypeOK
    <2>4. Live(s)'
      BY <1>1, <2>2, <2>3 DEF Anchored, Live
    <2>5. Sound(d)'
      BY <1>3, <2>1, SoundKept
    <2> QED
      BY <1>1, <1>2, <2>1, <2>2, <2>4, <2>5, AnchoredKept
  <1> QED
    BY <1>0, <1>4, <1>5, <1>6

(* The new superblock on the medium is the new anchor.                     *)
LEMMA AnchorMoved ==
  ASSUME Inv, formatted, pc = "superblock", block_write("landed"),
         NEW s \in Slots, s = fs.superblock_slot
  PROVE  /\ Anchored(other(s))'
         /\ superblock'[other(s)] =
              [generation |-> fs.generation + 1, directory_slot |-> other(fs.directory_slot),
               directory_crc |-> crc32(fs.directory)]
  <1>0. /\ fs.mounted /\ MediumTypeOK /\ fs \in Handles
    BY DEF Inv, CommitPending, TypeOK
  <1>1. Live(s) /\ superblock[s].generation = fs.generation
    BY <1>0, Anchor DEF Inv, Anchored
  <1>2. superblock' = [superblock EXCEPT ![other(s)] =
          [generation |-> fs.generation + 1, directory_slot |-> other(fs.directory_slot),
           directory_crc |-> crc32(fs.directory)]]
    BY DEF block_write, PutSuperblock, Sector
  <1>3. UNCHANGED <<directory, data>>
    BY DEF block_write, PutSuperblock
  <1>4. superblock'[s] = superblock[s]
    BY <1>0, <1>2, OtherSlot DEF MediumTypeOK
  <1>5. superblock'[other(s)] =
          [generation |-> fs.generation + 1, directory_slot |-> other(fs.directory_slot),
           directory_crc |-> crc32(fs.directory)]
    BY <1>0, <1>2, OtherSlot DEF MediumTypeOK
  <1>6. superblock'[other(s)] \in Superblocks
    BY <1>0, <1>5, OtherSlot DEF Superblocks, crc32, Handles
  <1>7. Live(other(s))'
    <2>1. superblock'[other(s)] # Garbage
      BY <1>6, Sentinels
    <2>2. superblock'[other(other(s))].generation < superblock'[other(s)].generation
      BY <1>0, <1>1, <1>4, <1>5, OtherSlot DEF Handles
    <2> QED
      BY <2>1, <2>2 DEF Live
  <1>8. PICK d : d = fs.directory
    OBVIOUS
  <1>9. directory[other(fs.directory_slot)] = d
    <2>1. other(fs.directory_slot) \in Slots
      BY <1>0, OtherSlot DEF Handles
    <2>2. \A f \in Files : directory[other(fs.directory_slot)][f] = fs.directory[f]
      BY DEF Inv, CommitPending
    <2> QED
      BY <1>0, <1>8, <2>1, <2>2 DEF MediumTypeOK, Handles, Directories
  <1>10. Sound(d)'
    <2>1. Sound(d)
      BY <1>8 DEF Inv, CommitPending
    <2> QED
      BY <1>3, <2>1, SoundKept
  <1>11. Copy(other(s))' = d
    BY <1>3, <1>5, <1>9 DEF Copy
  <1>12. read_directory(other(s))'
    BY <1>3, <1>5, <1>8, <1>9 DEF read_directory
  <1>13. Sound(Copy(other(s)))'
    BY <1>10, <1>11 DEF Sound, Fetched
  <1> QED
    BY <1>5, <1>7, <1>12, <1>13 DEF Anchored

(* Mount finds the anchor, whichever superblock that is.                   *)
LEMMA MountFindsAnchor ==
  ASSUME MediumTypeOK, NEW s \in Slots, Anchored(s)
  PROVE  Mountable(Slots, Slots) = {s}
  <1> DEFINE valid == validate_superblock(Slots)
  <1>1. valid = {t \in Slots : superblock[t] # Garbage} /\ s \in valid
    BY DEF validate_superblock, Anchored, Live
  <1>2. \A t \in valid : superblock[t] \in Superblocks /\ superblock[t].generation \in Nat
    BY <1>1 DEF MediumTypeOK, Superblocks
  <1>3. other(s) \in valid => superblock[other(s)].generation < superblock[s].generation
    BY <1>1 DEF Anchored, Live
  <1>4. Preferred(valid) = s
    <2>1. CASE s = 0
      BY <1>1, <1>2, <1>3, <2>1 DEF Preferred, other, Slots
    <2>2. CASE s = 1
      BY <1>1, <1>2, <1>3, <2>2 DEF Preferred, other, Slots
    <2> QED
      BY <2>1, <2>2 DEF Slots
  <1>5. superblock[s].directory_slot \in Slots /\ read_directory(s)
    BY <1>1, <1>2 DEF Superblocks, Anchored
  <1> QED
    BY <1>1, <1>4, <1>5 DEF Mountable

(* A step that keeps the anchor and what is committed keeps memory and     *)
(* medium in agreement.                                                    *)
LEMMA StillCoherent ==
  ASSUME Coherent, formatted, fs.mounted, pc # "mount",
         NEW s \in Slots, s = fs.superblock_slot, Anchored(s)', superblock'[s] = superblock[s],
         fs'.superblock_slot = s, fs'.generation = fs.generation,
         fs'.directory_slot = fs.directory_slot, Committed' = Committed
  PROVE  Coherent' /\ Recoverable'
  BY DEF Coherent, Recoverable, Anchored, crc32

LEMMA MediumUnchanged ==
  ASSUME UNCHANGED medium, NEW s
  PROVE  Anchored(s)' <=> Anchored(s)
  BY DEF medium, Anchored, Live, read_directory, Sound, Fetched, Copy

(* The change a call makes to the directory in memory is not committed     *)
(* yet.                                                                    *)
LEMMA BeginCommitKeeps ==
  ASSUME TypeOK, pc \in {"idle", "data"}, NEW f \in Files, NEW e, BeginCommit(f, e)
  PROVE  /\ Committed' = fs.directory /\ Committed = fs.directory
         /\ fs'.directory = [fs.directory EXCEPT ![f] = e]
         /\ fs'.mounted = fs.mounted /\ fs'.superblock_slot = fs.superblock_slot
         /\ fs'.generation = fs.generation /\ fs'.directory_slot = fs.directory_slot
         /\ pc' = "directory" /\ call'.sector = 1
  <1>1. fs \in Handles /\ call \in Calls
    BY DEF TypeOK
  <1>2. /\ fs' = [fs EXCEPT !.directory = [fs.directory EXCEPT ![f] = e]]
        /\ call'.file = f /\ call'.backup = fs.directory[f] /\ call'.sector = 1
        /\ pc' = "directory"
    BY <1>1 DEF BeginCommit, Goto, Calls
  <1>3. fs'.directory = [fs.directory EXCEPT ![f] = e]
    BY <1>1, <1>2 DEF Handles
  <1>4. [fs'.directory EXCEPT ![f] = fs.directory[f]] = fs.directory
    BY <1>1, <1>3, Zenon DEF Handles, Directories
  <1>5. Committed' = fs.directory /\ Committed = fs.directory
    BY <1>2, <1>4 DEF Committed
  <1> QED
    BY <1>1, <1>2, <1>3, <1>5 DEF Handles

(* A call that begins its commit without having written to the medium.     *)
LEMMA BeginCommitSafe ==
  ASSUME Inv, pc = "idle", fs.mounted, UNCHANGED <<superblock, directory, data, formatted>>,
         NEW f \in Files, NEW e, BeginCommit(f, e),
         Sound(fs.directory) => Sound([fs.directory EXCEPT ![f] = e])
  PROVE  Recoverable' /\ Coherent' /\ CommitPending' /\ FormatPending'
  <1> USE DEF Inv
  <1>1. fs.superblock_slot \in Slots
    BY DEF TypeOK, Handles
  <1>2. UNCHANGED medium
    BY DEF medium
  <1>3. formatted => Coherent' /\ Recoverable'
    BY <1>1, <1>2, Anchor, MediumUnchanged, BeginCommitKeeps, StillCoherent, Zenon
  <1>4. ~formatted => Coherent' /\ Recoverable'
    BY DEF Coherent, Recoverable
  <1>5. formatted => Sound(fs.directory)'
    <2> SUFFICES ASSUME formatted PROVE Sound(fs.directory)'
      OBVIOUS
    <2>1. PICK d : d = [fs.directory EXCEPT ![f] = e]
      OBVIOUS
    <2>2. Sound(d)
      BY <2>1, Anchor, BeginCommitKeeps, Zenon
    <2>3. Sound(d)'
      BY <2>2, SoundKept
    <2>4. fs'.directory = d
      BY <2>1, BeginCommitKeeps, Zenon
    <2> QED
      BY <2>3, <2>4 DEF Sound, Fetched
  <1>6. \A g \in Files : ~ (entry_sector(g) < 1)
    BY DirectoryFits
  <1>7. CommitPending'
    <2>1. pc' = "directory" /\ fs'.mounted /\ call'.sector = 1
      BY BeginCommitKeeps, Zenon
    <2>2. 1 \in 1 .. MVHFS_DIRECTORY_SECTORS
      BY DirectoryFits
    <2>3. (formatted => Sound(fs.directory))'
      BY <1>5
    <2> HIDE DEF Inv
    <2> QED
      BY <1>6, <2>1, <2>2, <2>3 DEF CommitPending
  <1> QED
    BY <1>3, <1>4, <1>7, BeginCommitKeeps, Zenon DEF FormatPending

=============================================================================
