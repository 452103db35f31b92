----------------------------- MODULE MvhfsProofs -----------------------------
(***************************************************************************)
(* The inductive invariant of the persistent filesystem, action by action, *)
(* and the theorems it gives.                                              *)
(***************************************************************************)
EXTENDS MvhfsAnchor

(* The parts of Inv that TypeStep does not cover.                          *)
Safe == Recoverable /\ Coherent /\ CommitPending /\ FormatPending

LEMMA MountSafe == ASSUME DeviceHonest, Inv, mvhfs_mount PROVE Safe'
  <1>1. UNCHANGED medium /\ UNCHANGED formatted /\ pc' = "idle"
    BY DEF mvhfs_mount, medium
  <1>2. MediumTypeOK
    BY DEF Inv, TypeOK
  <1>3. CASE formatted
    <2>1. PICK s \in Slots : Anchored(s)
      BY <1>3 DEF Inv, Recoverable
    <2>2. fs' = mount_from_superblock(s)
      <3>1. Readable = {Slots}
        BY DEF Readable, DeviceHonest
      <3>2. \E t \in Mountable(Slots, Slots) : fs' = mount_from_superblock(t)
        BY <1>2, <2>1, <3>1, MountFindsAnchor DEF mvhfs_mount
      <3> QED
        BY <1>2, <2>1, <3>2, MountFindsAnchor
    <2>3. Anchored(s)' /\ superblock'[s] = superblock[s]
      BY <1>1, <2>1, MediumUnchanged DEF medium
    <2>4. superblock[s] \in Superblocks
      BY <1>2, <2>1 DEF MediumTypeOK, Anchored, Live
    <2>5. Committed' = directory[superblock[s].directory_slot]
      BY <1>1, <2>2 DEF Committed, mount_from_superblock
    <2>6. superblock[s] = [generation |-> fs'.generation, directory_slot |-> fs'.directory_slot,
                           directory_crc |-> crc32(Committed')]
      BY <2>1, <2>2, <2>4, <2>5
      DEF mount_from_superblock, Anchored, read_directory, Superblocks
    <2>7. Coherent' /\ Recoverable'
      BY <2>2, <2>3, <2>6 DEF Coherent, Recoverable, Anchored, mount_from_superblock, crc32
    <2> QED
      BY <1>1, <2>7 DEF Safe, CommitPending, FormatPending
  <1>4. CASE ~formatted
    BY <1>1, <1>4 DEF Safe, Recoverable, Coherent, CommitPending, FormatPending
  <1> QED
    BY <1>3, <1>4

LEMMA CreateSafe == ASSUME Inv, NEW n \in Names, mvhfs_create(n) PROVE Safe'
  <1> DEFINE e == [name |-> n, size |-> 0, crc |-> crc32(Empty), slot |-> 0]
             d == fs.directory
  <1>1. PICK f \in find_free(d) : BeginCommit(f, e)
    BY DEF mvhfs_create
  <1>2. f \in Files /\ d[f] = Cleared
    BY DEF find_free, First, FreeEntries
  <1>3. \A g \in Files : d[g] # Cleared => d[g].name # n
    BY DEF mvhfs_create, Named
  <1>4. Fetched(f, e) = Empty
    BY DEF Fetched, Empty
  <1>5. d \in [Files -> Entries \cup {Cleared}]
    BY DEF Inv, TypeOK, Handles, Directories
  <1> HIDE DEF d
  <1>6. Sound(d) => Sound([d EXCEPT ![f] = e])
    <2> SUFFICES ASSUME Sound(d) PROVE Sound([d EXCEPT ![f] = e])
      OBVIOUS
    <2>1. [d EXCEPT ![f] = e][f] = e /\ \A g \in Files : g # f => [d EXCEPT ![f] = e][g] = d[g]
      BY <1>2, <1>5
    <2>2. e.name = n /\ e.crc = crc32(Empty)
      OBVIOUS
    <2> HIDE DEF e
    <2> QED
      BY <1>2, <1>3, <1>4, <2>1, <2>2 DEF Sound
  <1> QED
    BY <1>1, <1>2, <1>6, BeginCommitSafe DEF mvhfs_create, MayCall, Safe, d

LEMMA RemoveSafe == ASSUME Inv, NEW n \in Names, mvhfs_remove(n) PROVE Safe'
  <1>1. PICK f \in find_entry(fs.directory, n) : BeginCommit(f, Cleared)
    BY DEF mvhfs_remove
  <1>2. f \in Files
    BY FoundFile
  <1>3. Sound(fs.directory) => Sound([fs.directory EXCEPT ![f] = Cleared])
    BY <1>2 DEF Inv, TypeOK, Handles, Directories, Sound
  <1> QED
    BY <1>1, <1>2, <1>3, BeginCommitSafe DEF mvhfs_remove, MayCall, Safe

LEMMA WriteSafe ==
  ASSUME Inv, NEW n, NEW size, NEW input, mvhfs_write(n, size, input) PROVE Safe'
  <1>1. /\ UNCHANGED medium /\ UNCHANGED <<fs, formatted>>
        /\ pc = "idle" /\ pc' = "data" /\ fs.mounted
    BY DEF mvhfs_write, MayCall, Goto, medium
  <1>2. Committed' = Committed
    BY <1>1 DEF Committed
  <1>3. fs.superblock_slot \in Slots
    BY DEF Inv, TypeOK, Handles
  <1>4. formatted => Coherent' /\ Recoverable'
    BY <1>1, <1>2, <1>3, Anchor, MediumUnchanged, StillCoherent DEF Inv, medium
  <1>5. ~formatted => Coherent' /\ Recoverable'
    BY <1>1 DEF Coherent, Recoverable
  <1> QED
    BY <1>1, <1>4, <1>5 DEF Safe, CommitPending, FormatPending

(* The last data sector is stored: the directory in memory takes the new   *)
(* entry, whose copy now holds all of the input.                           *)
LEMMA WrittenSound ==
  ASSUME Inv, formatted, mvhfs_write_sector, call.sector = MVHFS_SECTORS_PER_COPY
  PROVE  Sound(fs.directory)'
  <1> DEFINE f == call.file
             e == WrittenEntry
             t == other(call.backup.slot)
  <1>0. /\ pc = "data" /\ fs.mounted /\ MediumTypeOK /\ fs \in Handles /\ call \in Calls
        /\ BeginCommit(f, e) /\ block_write("landed") /\ TypeOK /\ WritePending
    BY DirectoryFits DEF mvhfs_write_sector, Inv, TypeOK, WritePending
  <1>1. /\ f \in Files /\ call.backup = fs.directory[f] /\ call.backup \in Entries
        /\ call.input \in [1 .. call.size -> Data] /\ call.size \in 0 .. MVHFS_SECTORS_PER_COPY
    BY <1>0 DEF Calls, WritePending
  <1>2. e.name = fs.directory[f].name /\ e.size = call.size /\ e.slot = t
        /\ e.crc = crc32(call.input) /\ e \in Entries
    BY <1>0, <1>1, OtherSlot, Zenon DEF WrittenEntry, Entries, Calls, crc32
  <1>3. PICK d : d = fs.directory
    OBVIOUS
  <1>4. PICK d2 : d2 = [d EXCEPT ![f] = e]
    BY Zenon
  <1>5. fs'.directory = d2
    BY <1>0, <1>1, <1>3, <1>4, BeginCommitKeeps, Zenon
  <1>6. Sound(d)'
    <2>1. PICK s \in Slots : s = fs.superblock_slot
      BY <1>0 DEF Handles
    <2>2. Anchored(s)' /\ superblock'[s] = superblock[s]
      BY <1>0, <2>1, AnchorKept DEF Outcomes
    <2>3. /\ superblock[s].directory_slot = fs.directory_slot
          /\ directory[fs.directory_slot] = d
      BY <1>0, <1>3, <2>1, Anchor DEF Inv, Committed
    <2>4. UNCHANGED directory
      BY <1>0 DEF block_write, PutDataSector
    <2>5. Copy(s)' = d
      BY <2>2, <2>3, <2>4 DEF Copy
    <2> QED
      BY <2>2, <2>5 DEF Anchored, Sound, Fetched
  <1>7. \A k \in 1 .. call.size : data'[f][t][k] = call.input[k]
    <2>1. PutDataSector("landed")
      BY <1>0 DEF block_write
    <2>2. \A k \in 1 .. call.size : k < call.sector + 1 => data'[f][t][k] = call.input[k]
      BY <1>0, <2>1, SectorStored
    <2>3. \A k \in 1 .. call.size : k < call.sector + 1
      BY <1>1, DirectoryFits
    <2> QED
      BY <2>2, <2>3
  <1>8. PICK x \in Entries : x = e
    BY <1>2
  <1>9. PICK g \in Files : g = f
    BY <1>1
  <1>10. Fetched(g, x)' = call.input
    <2>1. x.size = call.size /\ x.slot = t
      BY <1>2, <1>8
    <2> HIDE DEF f, e, t
    <2>2. Fetched(g, x)' = [i \in 1 .. call.size |-> data'[g][t][i]]
      BY <2>1 DEF Fetched
    <2>3. call.input = [i \in 1 .. call.size |-> call.input[i]]
      BY <1>1
    <2> QED
      BY <1>7, <1>9, <2>2, <2>3
  <1>11. d \in [Files -> Entries \cup {Cleared}] /\ d[g].name = x.name /\ d[g] # Cleared
    BY <1>0, <1>1, <1>2, <1>3, <1>8, <1>9, Sentinels DEF Handles, Directories
  <1>12. d2[g] = x /\ \A h \in Files : h # g => d2[h] = d[h]
    BY <1>4, <1>8, <1>9, <1>11
  <1>13. crc32(Fetched(g, x)') = x.crc /\ x # Cleared
    BY <1>2, <1>8, <1>10, Sentinels
  <1> HIDE DEF f, e, t
  <1>14. \A h \in Files : d2[h] # Cleared => d[h] # Cleared /\ d2[h].name = d[h].name
    BY <1>11, <1>12
  <1>15. \A h \in Files : d2[h] # Cleared => crc32(Fetched(h, d2[h])') = d2[h].crc
    <2> SUFFICES ASSUME NEW h \in Files, d2[h] # Cleared
                 PROVE  crc32(Fetched(h, d2[h])') = d2[h].crc
      OBVIOUS
    <2>1. CASE h = g
      BY <1>12, <1>13, <2>1
    <2>2. CASE h # g
      BY <1>6, <1>12, <2>2 DEF Sound
    <2> QED
      BY <2>1, <2>2
  <1>16. \A h, k \in Files : d2[h] # Cleared /\ d2[k] # Cleared /\ d2[k].name = d2[h].name => k = h
    BY <1>6, <1>14 DEF Sound
  <1>17. Sound(d2)'
    BY <1>15, <1>16 DEF Sound
  <1> QED
    BY <1>5, <1>17 DEF Sound, Fetched

LEMMA WriteSectorSafe == ASSUME Inv, mvhfs_write_sector PROVE Safe'
  <1>0. /\ pc = "data" /\ fs.mounted /\ MediumTypeOK /\ fs \in Handles /\ call \in Calls
        /\ block_write("landed") /\ UNCHANGED formatted
        /\ call.sector \in 1 .. MVHFS_SECTORS_PER_COPY
    BY DEF mvhfs_write_sector, Inv, TypeOK, WritePending
  <1>1. ~formatted => Coherent' /\ Recoverable'
    BY <1>0 DEF Coherent, Recoverable
  <1>2. PICK s \in Slots : s = fs.superblock_slot
    BY <1>0 DEF Handles
  <1>3. formatted => Anchored(s)' /\ superblock'[s] = superblock[s]
    BY <1>0, <1>2, AnchorKept DEF Outcomes
  <1>4. CASE call.sector < MVHFS_SECTORS_PER_COPY
    <2>1. pc' = "data" /\ UNCHANGED fs
      BY <1>4 DEF mvhfs_write_sector, Goto
    <2>2. Committed' = Committed
      BY <1>0, <2>1 DEF Committed
    <2>3. formatted => Coherent' /\ Recoverable'
      BY <1>0, <1>2, <1>3, <2>1, <2>2, StillCoherent DEF Inv
    <2> QED
      BY <1>1, <2>1, <2>3 DEF Safe, CommitPending, FormatPending
  <1>5. CASE call.sector = MVHFS_SECTORS_PER_COPY
    <2>1. BeginCommit(call.file, WrittenEntry) /\ call.file \in Files
      BY <1>0, <1>5, DirectoryFits DEF mvhfs_write_sector, Calls
    <2>2. /\ Committed' = Committed /\ pc' = "directory" /\ call'.sector = 1
          /\ fs'.mounted /\ fs'.superblock_slot = fs.superblock_slot
          /\ fs'.generation = fs.generation /\ fs'.directory_slot = fs.directory_slot
      BY <1>0, <2>1, BeginCommitKeeps, Zenon DEF Inv
    <2>3. formatted => Coherent' /\ Recoverable'
      BY <1>0, <1>2, <1>3, <2>2, StillCoherent DEF Inv
    <2>4. (formatted => Sound(fs.directory))'
      BY <1>0, <1>5, WrittenSound
    <2>5. 1 \in 1 .. MVHFS_DIRECTORY_SECTORS /\ \A f \in Files : ~ (entry_sector(f) < 1)
      BY DirectoryFits
    <2>6. CommitPending'
      BY <2>2, <2>4, <2>5 DEF CommitPending
    <2> QED
      BY <1>1, <2>2, <2>3, <2>6 DEF Safe, FormatPending
  <1> QED
    BY <1>0, <1>4, <1>5, DirectoryFits

LEMMA CommitSectorSafe == ASSUME Inv, commit_directory_sector PROVE Safe'
  <1> DEFINE ds == other(fs.directory_slot)
  <1>0. /\ pc = "directory" /\ fs.mounted /\ MediumTypeOK /\ fs \in Handles /\ call \in Calls
        /\ block_write("landed") /\ UNCHANGED <<fs, formatted>>
        /\ call.sector \in 1 .. MVHFS_DIRECTORY_SECTORS
    BY DEF commit_directory_sector, Inv, TypeOK, CommitPending
  <1>1. ~formatted => Coherent' /\ Recoverable'
    BY <1>0 DEF Coherent, Recoverable
  <1>2. /\ pc' \in {"directory", "superblock"} /\ call'.file = call.file
        /\ call'.backup = call.backup /\ call'.sector \in 1 .. MVHFS_DIRECTORY_SECTORS
        /\ pc' = "directory" => call'.sector = call.sector + 1
        /\ pc' = "superblock" => call.sector = MVHFS_DIRECTORY_SECTORS
    BY <1>0, DirectoryFits DEF commit_directory_sector, Goto, Calls
  <1>3. formatted => Coherent' /\ Recoverable'
    <2>1. PICK s \in Slots : s = fs.superblock_slot
      BY <1>0 DEF Handles
    <2>2. formatted => Anchored(s)' /\ superblock'[s] = superblock[s]
      BY <1>0, <2>1, AnchorKept DEF Outcomes
    <2>3. Committed' = Committed
      BY <1>0, <1>2 DEF Committed
    <2> QED
      BY <1>0, <2>1, <2>2, <2>3, StillCoherent DEF Inv
  <1>4. /\ UNCHANGED data
        /\ directory' = [directory EXCEPT ![ds] =
             [f \in Files |-> IF entry_sector(f) = call.sector THEN fs.directory[f]
                              ELSE directory[ds][f]]]
    BY <1>0 DEF block_write, PutDirectorySector, Sector
  <1>5. (formatted => Sound(fs.directory))'
    BY <1>0, <1>4 DEF Inv, CommitPending, Sound, Fetched
  <1>6. ASSUME NEW f \in Files, pc' = "superblock" \/ entry_sector(f) < call'.sector
        PROVE  directory'[ds][f] = fs.directory[f]
    <2>1. entry_sector(f) \in 1 .. MVHFS_DIRECTORY_SECTORS
      BY DirectoryFits
    <2>2. entry_sector(f) <= call.sector
      <3>1. PICK e \in Int : e = entry_sector(f)
        BY <2>1
      <3>2. PICK k \in Int : k = call.sector
        BY <1>0
      <3>3. CASE pc' = "superblock"
        BY <1>2, <2>1, <3>3, DirectoryFits
      <3>4. CASE pc' = "directory"
        BY <1>2, <1>6, <3>1, <3>2, <3>4
      <3> QED
        BY <1>2, <3>3, <3>4
    <2>3. directory'[ds][f] = IF entry_sector(f) = call.sector THEN fs.directory[f]
                              ELSE directory[ds][f]
      BY <1>0, <1>4, OtherSlot DEF MediumTypeOK, Handles
    <2>4. entry_sector(f) < call.sector => directory[ds][f] = fs.directory[f]
      BY <1>0 DEF Inv, CommitPending
    <2>5. entry_sector(f) = call.sector \/ entry_sector(f) < call.sector
      <3>1. PICK e \in Int : e = entry_sector(f)
        BY <2>1
      <3>2. PICK k \in Int : k = call.sector
        BY <1>0
      <3> QED
        BY <2>2, <3>1, <3>2
    <2>6. CASE entry_sector(f) = call.sector
      BY <2>3, <2>6
    <2>7. CASE entry_sector(f) # call.sector
      BY <2>3, <2>4, <2>5, <2>7
    <2> QED
      BY <2>6, <2>7
  <1>7. CommitPending'
    BY <1>0, <1>2, <1>5, <1>6 DEF CommitPending
  <1> QED
    BY <1>1, <1>2, <1>3, <1>7 DEF Safe, FormatPending

LEMMA CommitSuperblockSafe == ASSUME Inv, commit_directory_superblock PROVE Safe'
  <1>0. /\ pc = "superblock" /\ fs.mounted /\ fs \in Handles
        /\ block_write("landed") /\ UNCHANGED formatted /\ pc' = "idle"
    BY DEF commit_directory_superblock, Inv, TypeOK, CommitPending, Return
  <1>1. ~formatted => Coherent' /\ Recoverable'
    BY <1>0 DEF Coherent, Recoverable
  <1>2. PICK s \in Slots : s = fs.superblock_slot
    BY <1>0 DEF Handles
  <1>3. PICK t \in Slots : t = other(s)
    BY <1>2, OtherSlot
  <1>4. formatted => /\ Anchored(t)'
                     /\ superblock'[t] =
                          [generation |-> fs.generation + 1,
                           directory_slot |-> other(fs.directory_slot),
                           directory_crc |-> crc32(fs.directory)]
    BY <1>0, <1>2, <1>3, AnchorMoved
  <1>5. /\ fs'.superblock_slot = t /\ fs'.directory_slot = other(fs.directory_slot)
        /\ fs'.generation = fs.generation + 1 /\ fs'.directory = fs.directory
    BY <1>0, <1>2, <1>3 DEF commit_directory_superblock, Handles
  <1>6. Committed' = fs.directory
    BY <1>0, <1>5 DEF Committed
  <1>7. formatted => Coherent' /\ Recoverable'
    BY <1>4, <1>5, <1>6 DEF Coherent, Recoverable, Anchored, crc32
  <1> QED
    BY <1>0, <1>1, <1>7 DEF Safe, CommitPending, FormatPending

LEMMA FailureSafe == ASSUME DeviceHonest, Inv, block_write_fails PROVE Safe'
  <1>1. PICK o \in FailedWrite : block_write(o)
    BY DEF block_write_fails
  <1>2. o \in Outcomes /\ o # "landed"
    BY Failures DEF DeviceHonest
  <1>3. pc' = "idle" /\ UNCHANGED formatted /\ fs \in Handles
    BY DEF block_write_fails, Return, Inv, TypeOK
  <1>4. ~formatted => Coherent' /\ Recoverable'
    BY <1>3 DEF Coherent, Recoverable
  <1>5. formatted => Coherent' /\ Recoverable'
    <2> SUFFICES ASSUME formatted PROVE Coherent' /\ Recoverable'
      OBVIOUS
    <2>1. fs.mounted /\ pc \in {"data", "directory", "superblock"}
      BY <1>1 DEF Inv, block_write, FormatPending, WritePending, CommitPending
    <2>2. PICK s \in Slots : s = fs.superblock_slot
      BY <1>3 DEF Handles
    <2>3. Anchored(s)' /\ superblock'[s] = superblock[s]
      BY <1>1, <1>2, <2>2, AnchorKept
    <2>4. /\ fs'.superblock_slot = s /\ fs'.directory_slot = fs.directory_slot
          /\ fs'.generation = fs.generation /\ fs'.directory = Committed
      BY <1>3, <2>2 DEF block_write_fails, Handles, Committed
    <2>5. Committed' = Committed
      BY <1>3, <2>4 DEF Committed
    <2> QED
      BY <2>1, <2>2, <2>3, <2>4, <2>5, StillCoherent DEF Inv
  <1> QED
    BY <1>3, <1>4, <1>5 DEF Safe, CommitPending, FormatPending

LEMMA CrashSafe == ASSUME Inv, Crash PROVE Safe'
  <1>1. pc' = "idle" /\ UNCHANGED formatted /\ ~fs'.mounted /\ fs \in Handles
    BY DEF Crash, Return, Unmounted, Inv, TypeOK
  <1>2. Recoverable'
    <2>1. CASE UNCHANGED medium
      BY <1>1, <2>1, MediumUnchanged DEF Inv, Recoverable
    <2>2. ASSUME NEW o \in Outcomes, block_write(o), formatted
          PROVE  \E s \in Slots : Anchored(s)'
      <3>1. PICK s \in Slots : s = fs.superblock_slot
        BY <1>1 DEF Handles
      <3>2. CASE pc = "superblock" /\ o = "landed"
        BY <2>2, <3>1, <3>2, AnchorMoved, OtherSlot
      <3>3. CASE ~ (pc = "superblock" /\ o = "landed")
        BY <2>2, <3>1, <3>3, AnchorKept
      <3> QED
        BY <3>2, <3>3
    <2> QED
      BY <1>1, <2>1, <2>2 DEF Crash, Recoverable
  <1> QED
    BY <1>1, <1>2 DEF Safe, Coherent, CommitPending, FormatPending

LEMMA FormatSafe == ASSUME Inv, mvhfs_format PROVE Safe'
  <1>1. pc' = "format" /\ formatted' = FALSE /\ call'.sector = 1 /\ UNCHANGED directory
    BY DEF mvhfs_format, Goto, NoCall
  <1>2. /\ 1 \in 1 .. 2 * MVHFS_DIRECTORY_SECTORS
        /\ \A s \in Slots, f \in Files :
             ~ (s * MVHFS_DIRECTORY_SECTORS + entry_sector(f) < 1)
    BY DirectoryFits DEF Slots
  <1> QED
    BY <1>1, <1>2 DEF Safe, Recoverable, Coherent, CommitPending, FormatPending

LEMMA FormatDirectoriesSafe == ASSUME Inv, mvhfs_format_directories PROVE Safe'
  <1> DEFINE DS == MVHFS_DIRECTORY_SECTORS
             k == call.sector
  <1>0. /\ pc = "format" /\ ~formatted /\ ~formatted' /\ MediumTypeOK /\ call \in Calls
        /\ k \in 1 .. 2 * DS /\ DS \in Nat \ {0}
    BY DirectoryFits DEF mvhfs_format_directories, Inv, TypeOK, FormatPending
  <1>1. \A s \in Slots, f \in Files : s * DS + entry_sector(f) < k => directory[s][f] = Cleared
    BY <1>0 DEF Inv, FormatPending
  <1>2. ASSUME NEW s \in Slots, NEW f \in Files, s * DS + entry_sector(f) <= k
        PROVE  directory'[s][f] = Cleared
    <2>1. /\ (k > DS) => PutDirectorySector("landed", 1, k - DS, EmptyDirectory)
          /\ (~ (k > DS)) => PutDirectorySector("landed", 0, k, EmptyDirectory)
      BY <1>0 DEF mvhfs_format_directories, block_write, ZeroDirectorySector
    <2>2. entry_sector(f) \in 1 .. DS
      BY DirectoryFits
    <2>3. directory[s][f] = Cleared => directory'[s][f] = Cleared
      BY <1>0, <2>1 DEF PutDirectorySector, Sector, EmptyDirectory, MediumTypeOK, Slots
    <2>4. CASE s * DS + entry_sector(f) < k
      BY <1>1, <2>3, <2>4
    <2>5. CASE s = 0 /\ entry_sector(f) = k
      <3>1. PutDirectorySector("landed", s, entry_sector(f), EmptyDirectory)
        BY <1>0, <2>1, <2>2, <2>5
      <3> QED
        BY <1>0, <3>1 DEF PutDirectorySector, Sector, EmptyDirectory, MediumTypeOK
    <2>6. CASE s = 1 /\ DS + entry_sector(f) = k
      <3>1. k > DS /\ k - DS = entry_sector(f)
        BY <1>0, <2>2, <2>6
      <3>2. PutDirectorySector("landed", s, entry_sector(f), EmptyDirectory)
        BY <2>1, <2>6, <3>1
      <3> QED
        BY <1>0, <3>2 DEF PutDirectorySector, Sector, EmptyDirectory, MediumTypeOK
    <2>7. s = 0 \/ s = 1
      BY DEF Slots
    <2> QED
      BY <1>0, <1>2, <2>2, <2>4, <2>5, <2>6, <2>7
  <1>3. \A s \in Slots, f \in Files :
          /\ s * DS + entry_sector(f) \in Nat
          /\ s * DS + entry_sector(f) <= 2 * DS
    BY DirectoryFits DEF Slots
  <1>4. MediumTypeOK'
    BY <1>0, BlockWriteType DEF Inv, mvhfs_format_directories, Outcomes
  <1>5. CASE k < 2 * DS
    <2>1. pc' = "format" /\ call'.sector = k + 1
      BY <1>0, <1>5 DEF mvhfs_format_directories, Goto, Calls
    <2>2. \A s \in Slots, f \in Files :
            s * DS + entry_sector(f) < k + 1 => directory'[s][f] = Cleared
      BY <1>0, <1>2, <1>3
    <2>3. k + 1 \in 1 .. 2 * DS
      BY <1>0, <1>5
    <2> QED
      BY <1>0, <2>1, <2>2, <2>3
      DEF Safe, Recoverable, Coherent, CommitPending, FormatPending
  <1>6. CASE k = 2 * DS
    <2>1. pc' = "format1"
      BY <1>0, <1>6 DEF mvhfs_format_directories, Goto
    <2>2. directory' = [s \in Slots |-> EmptyDirectory]
      <3>1. \A s \in Slots, f \in Files : directory'[s][f] = Cleared
        BY <1>2, <1>3, <1>6
      <3> QED
        BY <1>4, <3>1 DEF EmptyDirectory, MediumTypeOK
    <2> QED
      BY <1>0, <2>1, <2>2 DEF Safe, Recoverable, Coherent, CommitPending, FormatPending
  <1> QED
    BY <1>0, <1>5, <1>6

LEMMA FormatSecondSafe == ASSUME Inv, mvhfs_format_second PROVE Safe'
  <1>a. FormatPending /\ MediumTypeOK
    BY DEF Inv, TypeOK
  <1>b. pc = "format1" /\ pc' = "format0" /\ UNCHANGED formatted
    BY DEF mvhfs_format_second, Goto
  <1>1. /\ pc = "format1" /\ pc' = "format0" /\ ~formatted /\ ~formatted'
        /\ directory = [s \in Slots |-> EmptyDirectory] /\ MediumTypeOK
    BY <1>a, <1>b DEF FormatPending
  <1>2. UNCHANGED directory
    BY <1>1 DEF mvhfs_format_second, block_write, PutSuperblock
  <1>3. superblock'[1] = [generation |-> 0, directory_slot |-> 1,
                          directory_crc |-> crc32(EmptyDirectory)]
    BY <1>1 DEF mvhfs_format_second, block_write, PutSuperblock, Sector, MediumTypeOK, Slots
  <1> QED
    BY <1>1, <1>2, <1>3 DEF Safe, Recoverable, Coherent, CommitPending, FormatPending

LEMMA FormatFirstSafe == ASSUME Inv, mvhfs_format_first PROVE Safe'
  <1>a. FormatPending /\ MediumTypeOK
    BY DEF Inv, TypeOK
  <1>b. pc = "format0" /\ pc' = "mount"
    BY DEF mvhfs_format_first, Goto
  <1>1. /\ pc = "format0" /\ pc' = "mount" /\ MediumTypeOK
        /\ directory = [s \in Slots |-> EmptyDirectory]
        /\ superblock[1].generation = 0
    BY <1>a, <1>b DEF FormatPending
  <1>2. UNCHANGED directory /\ formatted' = TRUE
    BY <1>1 DEF mvhfs_format_first, block_write, PutSuperblock
  <1>3. /\ superblock'[0] = [generation |-> 1, directory_slot |-> 0,
                             directory_crc |-> crc32(EmptyDirectory)]
        /\ superblock'[1] = superblock[1]
    BY <1>1 DEF mvhfs_format_first, block_write, PutSuperblock, Sector, MediumTypeOK, Slots
  <1>4. superblock'[0] # Garbage
    <2>1. crc32(EmptyDirectory) \in [crc32 : Directories]
      BY RestFits DEF crc32
    <2>2. PICK c : c = crc32(EmptyDirectory)
      OBVIOUS
    <2>3. [generation |-> 1, directory_slot |-> 0, directory_crc |-> c] \in Superblocks
      BY <2>1, <2>2 DEF Superblocks, Slots
    <2>4. superblock'[0] \in Superblocks
      BY <1>3, <2>2, <2>3
    <2> QED
      BY <2>4, Sentinels
  <1>f. /\ superblock'[0].generation = 1 /\ superblock'[0].directory_slot = 0
        /\ superblock'[0].directory_crc = crc32(EmptyDirectory)
    BY <1>3
  <1>g. superblock'[1].generation = 0
    BY <1>1, <1>3
  <1>d. directory'[0] = EmptyDirectory
    BY <1>1, <1>2 DEF Slots
  <1>5. Live(0)'
    BY <1>4, <1>f, <1>g DEF Live, other
  <1>6. Copy(0)' = EmptyDirectory
    BY <1>d, <1>f DEF Copy
  <1>7. read_directory(0)'
    BY <1>d, <1>f DEF read_directory
  <1>8. Sound(Copy(0))'
    BY <1>6 DEF Sound, EmptyDirectory
  <1>9. Recoverable'
    BY <1>5, <1>7, <1>8 DEF Recoverable, Anchored, Slots
  <1> QED
    BY <1>1, <1>2, <1>9 DEF Safe, Coherent, CommitPending, FormatPending

LEMMA InvInit == Init => Inv
  BY TypeInit DEF Init, Inv, Recoverable, Coherent, CommitPending, FormatPending

LEMMA InvStep == ASSUME DeviceHonest, Inv, [Next]_vars PROVE Inv'
  <1>1. TypeOK' /\ WritePending'
    BY TypeStep DEF Inv
  <1>2. CASE UNCHANGED vars
    <2>1. Recoverable'
      BY <1>2, MediumUnchanged DEF Inv, Recoverable, vars, medium
    <2>2. Committed' = Committed
      BY <1>2 DEF Committed, vars
    <2>3. Coherent'
      BY <1>2, <2>2 DEF Inv, vars, Coherent, Live
    <2>4. Sound(fs.directory)' = Sound(fs.directory)
      BY <1>2 DEF vars, Sound, Fetched
    <2>5. CommitPending' /\ FormatPending'
      BY <1>2, <2>4 DEF Inv, vars, CommitPending, FormatPending
    <2> QED
      BY <1>1, <2>1, <2>3, <2>5 DEF Inv
  <1>3. CASE Next
    <2>1. \A n \in Names : mvhfs_create(n) \/ mvhfs_remove(n) => Safe'
      BY CreateSafe, RemoveSafe
    <2>2. \A n, size, input : mvhfs_write(n, size, input) => Safe'
      BY WriteSafe
    <2>3. Safe'
      BY <1>3, <2>1, <2>2, MountSafe, FormatSafe, FormatDirectoriesSafe, FormatSecondSafe,
         FormatFirstSafe, WriteSectorSafe, CommitSectorSafe, CommitSuperblockSafe,
         FailureSafe, CrashSafe DEF Next
    <2> QED
      BY <1>1, <2>3 DEF Safe, Inv
  <1> QED
    BY <1>2, <1>3

LEMMA Invariance == ASSUME DeviceHonest PROVE Spec => []Inv
  <1>1. Inv /\ [Next]_vars => Inv'
    BY InvStep
  <1> QED
    BY <1>1, InvInit, PTL DEF Spec

(* On a device whose failed writes do not land, for any number of files    *)
(* and sectors: a formatted disk can lose power at any instant and the     *)
(* next mount finds a whole directory all of whose files pass their        *)
(* checksums.                                                              *)
THEOREM CrashSafety == ASSUME DeviceHonest PROVE Spec => []Recoverable
  <1>1. Inv => Recoverable
    BY DEF Inv
  <1> QED
    BY <1>1, Invariance, PTL

(* On the same device the mounted handle never disagrees with the medium:  *)
(* what a call acknowledged is durable and what it rolled back is gone.    *)
THEOREM MemoryAgrees == ASSUME DeviceHonest PROVE Spec => []Coherent
  <1>1. Inv => Coherent
    BY DEF Inv
  <1> QED
    BY <1>1, Invariance, PTL
------------------------------------------------------------------------------
(* What steps may never do: the copy-on-write discipline of a call and of  *)
(* its commit.                                                             *)

(* A step leaves the superblock s, its directory d and the files d names.  *)
Kept(s, d) ==
  /\ superblock'[s] = superblock[s] /\ Copy(s)' = d
  /\ \A f \in Files : d[f] # Cleared => data'[f][d[f].slot] = data[f][d[f].slot]

(* A block_write of a running call touches no sector the anchor leads to.  *)
LEMMA SectorsKept ==
  ASSUME Inv, formatted, NEW o \in Outcomes, block_write(o),
         NEW s \in Slots, s = fs.superblock_slot, NEW d, d = Copy(s)
  PROVE  Kept(s, d)
  <1>0. /\ fs.mounted /\ pc \in {"data", "directory", "superblock"}
        /\ MediumTypeOK /\ fs \in Handles /\ call \in Calls
    BY DEF Inv, block_write, FormatPending, WritePending, CommitPending, TypeOK
  <1>1. /\ superblock[s].directory_slot = fs.directory_slot
        /\ directory[fs.directory_slot] = d /\ d = Committed
    BY <1>0, Anchor DEF Inv, Copy
  <1>2. CASE pc = "data"
    <2>1. PutDataSector(o) /\ UNCHANGED <<superblock, directory>>
      BY <1>2 DEF block_write, PutDataSector
    <2>2. d = fs.directory
      BY <1>1, <1>2 DEF Committed
    <2>3. ASSUME NEW f \in Files, d[f] # Cleared
          PROVE  data'[f][d[f].slot] = data[f][d[f].slot]
      <3>1. d[f].slot \in Slots
        BY <1>0, <2>2, <2>3 DEF Handles, Directories, Entries
      <3>2. /\ call.file \in Files /\ other(call.backup.slot) \in Slots
            /\ call.backup = d[call.file]
            /\ other(call.backup.slot) # call.backup.slot
        BY <1>0, <1>2, <2>2, OtherSlot DEF Inv, WritePending, Calls, Entries
      <3>3. data \in [Files -> [Slots -> DataCopies]]
        BY <1>0 DEF MediumTypeOK
      <3>4. \E x : data' = [data EXCEPT ![call.file][other(call.backup.slot)] = x]
        BY <2>1, Zenon DEF PutDataSector
      <3> QED
        BY <3>1, <3>2, <3>3, <3>4
    <2> QED
      BY <1>1, <2>1, <2>3, ZenonT(40) DEF Copy, Kept
  <1>3. CASE pc = "directory"
    <2>1. PutDirectorySector(o, other(fs.directory_slot), call.sector, fs.directory)
      BY <1>3 DEF block_write
    <2>2. UNCHANGED <<superblock, data>>
      BY <2>1 DEF PutDirectorySector
    <2>3. directory'[fs.directory_slot] = directory[fs.directory_slot]
      BY <1>0, <2>1, OtherSlot DEF PutDirectorySector, MediumTypeOK, Handles
    <2> QED
      BY <1>1, <2>2, <2>3 DEF Copy, Kept
  <1>4. CASE pc = "superblock"
    <2>1. /\ UNCHANGED <<directory, data>>
          /\ \E x : superblock' = [superblock EXCEPT ![other(s)] = x]
      BY <1>4, Zenon DEF block_write, PutSuperblock
    <2>2. superblock'[s] = superblock[s]
      BY <1>0, <2>1, OtherSlot DEF MediumTypeOK
    <2> QED
      BY <2>1, <2>2 DEF Copy, Kept
  <1> QED
    BY <1>0, <1>2, <1>3, <1>4

(* A step that leaves those sectors alone leaves all the superblock leads  *)
(* to alone.                                                               *)
LEMMA SameSectors ==
  ASSUME NEW s, NEW d, d = Copy(s), Kept(s, d)
  PROVE  LeadsTo(s)' = LeadsTo(s)
  <1>0. /\ superblock'[s] = superblock[s] /\ Copy(s)' = d
        /\ \A f \in Files : d[f] # Cleared => data'[f][d[f].slot] = data[f][d[f].slot]
    BY DEF Kept
  <1>1. \A f \in Files : d[f] # Cleared => Fetched(f, d[f])' = Fetched(f, d[f])
    BY <1>0 DEF Fetched
  <1>2. [f \in Files |-> IF d[f] = Cleared THEN Empty ELSE Fetched(f, d[f])'] =
        [f \in Files |-> IF d[f] = Cleared THEN Empty ELSE Fetched(f, d[f])]
    BY <1>1
  <1>3. [f \in Files |-> IF Copy(s)[f] = Cleared THEN Empty ELSE Fetched(f, Copy(s)[f])]' =
        [f \in Files |-> IF d[f] = Cleared THEN Empty ELSE Fetched(f, d[f])']
    BY <1>0, Zenon DEF Fetched
  <1>4. LeadsTo(s)' = <<superblock'[s], d,
          [f \in Files |-> IF d[f] = Cleared THEN Empty ELSE Fetched(f, d[f])']>>
    BY <1>0, <1>3, Zenon DEF LeadsTo
  <1>5. LeadsTo(s) = <<superblock[s], d,
          [f \in Files |-> IF d[f] = Cleared THEN Empty ELSE Fetched(f, d[f])]>>
    BY Zenon DEF LeadsTo
  <1> QED
    BY <1>0, <1>2, <1>4, <1>5, Zenon

(* In a sound directory a name has one entry, and reading it gives the     *)
(* contents its checksum was computed over.                                *)
LEMMA ReadSound ==
  ASSUME NEW d, Sound(d), NEW n, NEW f \in Named(d, n)
  PROVE  mvhfs_read(d, n) = Fetched(f, d[f]) /\ crc32(Fetched(f, d[f])) = d[f].crc
  <1>1. f \in Files /\ d[f] # Cleared /\ f <= f
    BY DirectoryFits DEF Named, Files
  <1>2. Named(d, n) = {f}
    BY DEF Named, Sound
  <1>3. find_entry(d, n) = {f}
    BY <1>1, <1>2 DEF find_entry, First
  <1>4. (CHOOSE g \in Files : g \in find_entry(d, n)) = f
    BY <1>1, <1>3
  <1>5. crc32(Fetched(f, d[f])) = d[f].crc
    BY <1>1 DEF Sound
  <1> QED
    BY <1>2, <1>4, <1>5, ZenonT(40) DEF mvhfs_read

(* So a sound directory shows contents for every name it holds.            *)
LEMMA ReadWhole ==
  ASSUME NEW d \in Directories, Sound(d), NEW n
  PROVE  \/ mvhfs_read(d, n) \in Contents
         \/ Named(d, n) = {} /\ mvhfs_read(d, n) = NoFile
  <1>1. CASE Named(d, n) = {}
    BY <1>1 DEF mvhfs_read
  <1>2. ASSUME NEW f \in Named(d, n) PROVE mvhfs_read(d, n) \in Contents
    <2>1. f \in Files /\ d[f] \in Entries
      BY <1>2 DEF Named, Directories
    <2>2. PICK x : x = Fetched(f, d[f])
      OBVIOUS
    <2>3. mvhfs_read(d, n) = x /\ crc32(x) = d[f].crc
      BY <1>2, <2>2, ReadSound
    <2>4. x \in Contents
      BY <2>1, <2>3 DEF Entries, crc32
    <2> QED
      BY <2>3, <2>4
  <1> QED
    BY <1>1, <1>2

(* What a mount shows is what the anchor leads to.                         *)
LEMMA ViewOfAnchor ==
  \A s \in Slots : MediumTypeOK /\ Anchored(s) => View = Recovered(s)
  <1> SUFFICES ASSUME NEW s \in Slots, MediumTypeOK, Anchored(s) PROVE View = Recovered(s)
    OBVIOUS
  <1>1. Mountable(Slots, Slots) = {s}
    BY MountFindsAnchor
  <1>2. {Recovered(t) : t \in Mountable(Slots, Slots)} = {Recovered(s)}
    BY <1>1
  <1> QED
    BY <1>2 DEF View

LEMMA ViewOfNextAnchor ==
  (\A s \in Slots : MediumTypeOK /\ Anchored(s) => View = Recovered(s))'
  BY ViewOfAnchor, PTL

(* The file a mount of superblock s shows under the name n, entry by       *)
(* entry.                                                                  *)
LEMMA RecoveredFile ==
  \A s, n : Sound(Copy(s)) =>
    /\ \/ \E f \in Files : Copy(s)[f] # Cleared /\ Copy(s)[f].name = n
       \/ mvhfs_read(Copy(s), n) = NoFile
    /\ \A f \in Files : Copy(s)[f] # Cleared /\ Copy(s)[f].name = n =>
         mvhfs_read(Copy(s), n) = Fetched(f, Copy(s)[f])
  <1> SUFFICES ASSUME NEW s, NEW n, Sound(Copy(s))
               PROVE  /\ \/ \E f \in Files : Copy(s)[f] # Cleared /\ Copy(s)[f].name = n
                         \/ mvhfs_read(Copy(s), n) = NoFile
                      /\ \A f \in Files : Copy(s)[f] # Cleared /\ Copy(s)[f].name = n =>
                           mvhfs_read(Copy(s), n) = Fetched(f, Copy(s)[f])
    OBVIOUS
  <1>1. PICK d : d = Copy(s)
    OBVIOUS
  <1>2. Named(d, n) = {} => mvhfs_read(d, n) = NoFile
    BY DEF mvhfs_read
  <1>3. \A f \in Named(d, n) : mvhfs_read(d, n) = Fetched(f, d[f])
    BY <1>1, ReadSound
  <1> QED
    BY <1>1, <1>2, <1>3 DEF Named

LEMMA NextRecoveredFile ==
  (\A s, n : Sound(Copy(s)) =>
     /\ \/ \E f \in Files : Copy(s)[f] # Cleared /\ Copy(s)[f].name = n
        \/ mvhfs_read(Copy(s), n) = NoFile
     /\ \A f \in Files : Copy(s)[f] # Cleared /\ Copy(s)[f].name = n =>
          mvhfs_read(Copy(s), n) = Fetched(f, Copy(s)[f]))'
  BY RecoveredFile, PTL

(* While those sectors keep their values, so does every file.              *)
LEMMA RecoveredKept ==
  ASSUME NEW s, Sound(Copy(s)), NEW d, d = Copy(s), Copy(s)' = d,
         \A f \in Files : d[f] # Cleared => data'[f][d[f].slot] = data[f][d[f].slot]
  PROVE  Recovered(s)' = Recovered(s)
  <1> SUFFICES ASSUME NEW n \in Names
               PROVE  mvhfs_read(Copy(s), n)' = mvhfs_read(Copy(s), n)
    BY DEF Recovered
  <1>1. Sound(Copy(s))'
    <2>1. Sound(d)
      OBVIOUS
    <2>2. Sound(d)'
      BY <2>1, SoundKept
    <2> QED
      BY <2>2, Zenon DEF Sound, Fetched
  <1>2. ASSUME NEW f \in Files, d[f] # Cleared, d[f].name = n
        PROVE  mvhfs_read(Copy(s), n)' = mvhfs_read(Copy(s), n)
    <2>1. mvhfs_read(Copy(s), n) = Fetched(f, d[f])
      BY <1>2, RecoveredFile
    <2>2. mvhfs_read(Copy(s), n)' = Fetched(f, Copy(s)[f])'
      BY <1>1, <1>2, NextRecoveredFile
    <2>3. Fetched(f, Copy(s)[f])' = Fetched(f, d[f])
      BY <1>2 DEF Fetched
    <2> QED
      BY <2>1, <2>2, <2>3
  <1>3. CASE ~ \E f \in Files : d[f] # Cleared /\ d[f].name = n
    BY <1>1, <1>3, RecoveredFile, NextRecoveredFile
  <1> QED
    BY <1>2, <1>3

------------------------------------------------------------------------------
(* One entry changes at a time: the entry a commit replaces and the one it *)
(* puts in its place are those of a create, a remove or a write.           *)

Changes(b, e) ==
  \/ b = Cleared /\ e # Cleared /\ e.crc = crc32(Empty)
  \/ b # Cleared /\ e = Cleared
  \/ b # Cleared /\ e # Cleared /\ e.name = b.name

EntryPending ==
  pc \in {"directory", "superblock"} => Changes(call.backup, fs.directory[call.file])

LEMMA BeginCommitChanges ==
  ASSUME TypeOK, NEW f \in Files, NEW e, BeginCommit(f, e), Changes(fs.directory[f], e)
  PROVE  EntryPending'
  <1>1. fs \in Handles /\ call \in Calls
    BY DEF TypeOK
  <1>2. call'.file = f /\ call'.backup = fs.directory[f]
    BY <1>1 DEF BeginCommit, Calls
  <1>3. fs'.directory = [fs.directory EXCEPT ![f] = e]
    BY <1>1 DEF BeginCommit, Handles
  <1>4. fs'.directory[f] = e
    BY <1>1, <1>3 DEF Handles, Directories
  <1> QED
    BY <1>2, <1>4 DEF EntryPending, Changes

LEMMA EntryStep ==
  ASSUME Inv, EntryPending, [Next]_vars
  PROVE  EntryPending'
  <1>t. TypeOK /\ fs \in Handles /\ call \in Calls
    BY DEF Inv, TypeOK
  <1>1. ASSUME NEW n \in Names, mvhfs_create(n) PROVE EntryPending'
    <2> DEFINE e == [name |-> n, size |-> 0, crc |-> crc32(Empty), slot |-> 0]
    <2>1. PICK f \in find_free(fs.directory) : BeginCommit(f, e)
      BY <1>1 DEF mvhfs_create
    <2>2. f \in Files /\ fs.directory[f] = Cleared
      BY DEF find_free, First, FreeEntries
    <2>3. e \in Entries
      BY EmptyFits, DirectoryFits DEF Entries, crc32, Slots
    <2>4. e # Cleared /\ e.crc = crc32(Empty)
      BY <2>3, Sentinels
    <2> HIDE DEF e
    <2> QED
      BY <1>t, <2>1, <2>2, <2>4, BeginCommitChanges DEF Changes
  <1>2. ASSUME NEW n \in Names, mvhfs_remove(n) PROVE EntryPending'
    <2>1. PICK f \in find_entry(fs.directory, n) : BeginCommit(f, Cleared)
      BY <1>2 DEF mvhfs_remove
    <2> QED
      BY <1>t, <2>1, FoundFile, BeginCommitChanges DEF Changes
  <1>3. CASE mvhfs_write_sector
    <2>1. CASE call.sector < MVHFS_SECTORS_PER_COPY
      BY <1>3, <2>1 DEF mvhfs_write_sector, Goto, EntryPending
    <2>2. CASE ~ (call.sector < MVHFS_SECTORS_PER_COPY)
      <3>1. /\ call.file \in Files /\ call.backup \in Entries
            /\ call.backup = fs.directory[call.file]
            /\ BeginCommit(call.file, WrittenEntry)
        BY <1>3, <1>t, <2>2 DEF mvhfs_write_sector, Inv, WritePending, Calls
      <3>2. WrittenEntry \in Entries /\ WrittenEntry.name = call.backup.name
        BY <1>t, <3>1, OtherSlot, Zenon DEF WrittenEntry, Entries, Calls, crc32
      <3> QED
        BY <1>t, <3>1, <3>2, BeginCommitChanges, Sentinels DEF Changes
    <2> QED
      BY <2>1, <2>2
  <1>4. CASE commit_directory_sector
    <2>1. /\ UNCHANGED fs /\ call'.file = call.file /\ call'.backup = call.backup
          /\ pc = "directory"
      BY <1>4, <1>t DEF commit_directory_sector, Calls
    <2> QED
      BY <2>1 DEF EntryPending, Changes
  <1>5. CASE pc' \notin {"directory", "superblock"}
    BY <1>5 DEF EntryPending
  <1>6. CASE UNCHANGED vars
    BY <1>6 DEF vars, EntryPending, Changes
  <1>7. ASSUME NEW n, NEW size, NEW input, mvhfs_write(n, size, input)
        PROVE  pc' \notin {"directory", "superblock"}
    BY <1>7 DEF mvhfs_write, Goto
  <1>8. mvhfs_mount \/ mvhfs_format \/ mvhfs_format_directories \/ mvhfs_format_second
        \/ mvhfs_format_first \/ commit_directory_superblock \/ block_write_fails \/ Crash
        => pc' \notin {"directory", "superblock"}
    BY DEF mvhfs_mount, mvhfs_format, mvhfs_format_directories, mvhfs_format_second,
       mvhfs_format_first, commit_directory_superblock, block_write_fails, Crash, Goto, Return
  <1> QED
    BY <1>1, <1>2, <1>3, <1>4, <1>5, <1>6, <1>7, <1>8 DEF Next

(* Two sound directories that differ in such an entry show the same files  *)
(* but one.                                                                *)
LEMMA OneFile ==
  ASSUME NEW d1 \in Directories, NEW d2 \in Directories, Sound(d1), Sound(d2),
         NEW f \in Files, \A g \in Files : g # f => d2[g] = d1[g], Changes(d1[f], d2[f])
  PROVE  \E n \in Names :
           /\ \A m \in Names : m # n => mvhfs_read(d2, m) = mvhfs_read(d1, m)
           /\ \/ mvhfs_read(d1, n) = NoFile /\ mvhfs_read(d2, n) = Empty
              \/ mvhfs_read(d1, n) # NoFile /\ mvhfs_read(d2, n) \in Contents \cup {NoFile}
  <1>0. /\ d1[f] \in Entries \cup {Cleared} /\ d2[f] \in Entries \cup {Cleared}
        /\ NoFile \notin Contents
    BY Sentinels DEF Directories
  <1>1. ASSUME NEW n \in Names,
               \A e \in {d1[f], d2[f]} : e # Cleared => e.name = n
        PROVE  \A m \in Names : m # n => mvhfs_read(d2, m) = mvhfs_read(d1, m)
    <2> SUFFICES ASSUME NEW m \in Names, m # n
                 PROVE  mvhfs_read(d2, m) = mvhfs_read(d1, m)
      OBVIOUS
    <2>1. \A g \in Files : g \in Named(d1, m) <=> g \in Named(d2, m)
      BY <1>1 DEF Named
    <2>2. Named(d1, m) = Named(d2, m)
      BY <2>1 DEF Named
    <2>3. \A g \in Named(d1, m) : g # f /\ g \in Files
      BY <1>1 DEF Named
    <2>4. CASE Named(d1, m) = {}
      BY <2>2, <2>4 DEF mvhfs_read
    <2>5. ASSUME NEW g \in Named(d1, m) PROVE mvhfs_read(d2, m) = mvhfs_read(d1, m)
      <3>1. d1[g] = d2[g] /\ g \in Named(d2, m)
        BY <2>2, <2>3, <2>5
      <3>2. mvhfs_read(d1, m) = Fetched(g, d1[g])
        BY <2>5, ReadSound
      <3>3. mvhfs_read(d2, m) = Fetched(g, d2[g])
        BY <3>1, ReadSound
      <3> QED
        BY <3>1, <3>2, <3>3
    <2> QED
      BY <2>4, <2>5
  <1>2. \A d \in {d1, d2} : d[f] # Cleared =>
          /\ d[f].name \in Names
          /\ mvhfs_read(d, d[f].name) \in Contents
          /\ crc32(mvhfs_read(d, d[f].name)) = d[f].crc
    <2> SUFFICES ASSUME NEW d \in {d1, d2}, d[f] # Cleared
                 PROVE  /\ d[f].name \in Names
                        /\ mvhfs_read(d, d[f].name) \in Contents
                        /\ crc32(mvhfs_read(d, d[f].name)) = d[f].crc
      OBVIOUS
    <2>1. f \in Named(d, d[f].name) /\ d \in Directories /\ Sound(d)
      BY DEF Named
    <2>2. d[f].name \in Names
      BY <1>0 DEF Entries
    <2>3. mvhfs_read(d, d[f].name) \in Contents
      BY <2>1, ReadWhole
    <2>4. crc32(mvhfs_read(d, d[f].name)) = d[f].crc
      BY <2>1, ReadSound
    <2> QED
      BY <2>2, <2>3, <2>4
  <1>3. CASE d1[f] = Cleared /\ d2[f] # Cleared /\ d2[f].crc = crc32(Empty)
    <2>1. PICK n \in Names : n = d2[f].name
      BY <1>2, <1>3
    <2>2. Named(d1, n) = {}
      BY <1>3, <2>1 DEF Named, Sound
    <2>3. mvhfs_read(d1, n) = NoFile
      BY <2>2 DEF mvhfs_read
    <2>4. crc32(mvhfs_read(d2, n)) = crc32(Empty)
      BY <1>2, <1>3, <2>1
    <2>5. mvhfs_read(d2, n) = Empty
      BY <2>4 DEF crc32
    <2> QED
      BY <1>1, <1>3, <2>1, <2>3, <2>5
  <1>4. CASE d1[f] # Cleared /\ d2[f] = Cleared
    <2>1. PICK n \in Names : n = d1[f].name
      BY <1>2, <1>4
    <2>2. Named(d2, n) = {}
      BY <1>4, <2>1 DEF Named, Sound
    <2>3. mvhfs_read(d2, n) = NoFile
      BY <2>2 DEF mvhfs_read
    <2>4. mvhfs_read(d1, n) # NoFile
      BY <1>0, <1>2, <1>4, <2>1
    <2> QED
      BY <1>1, <1>4, <2>1, <2>3, <2>4
  <1>5. CASE d1[f] # Cleared /\ d2[f] # Cleared /\ d2[f].name = d1[f].name
    <2>1. PICK n \in Names : n = d1[f].name
      BY <1>2, <1>5
    <2>2. mvhfs_read(d1, n) # NoFile /\ mvhfs_read(d2, n) \in Contents
      BY <1>0, <1>2, <1>5, <2>1
    <2> QED
      BY <1>1, <1>5, <2>1, <2>2
  <1> QED
    BY <1>3, <1>4, <1>5 DEF Changes

(* A block_write that is not the new superblock reaching the medium        *)
(* changes nothing a mount would show.                                     *)
LEMMA ViewKept ==
  ASSUME Inv, MediumTypeOK', formatted, NEW o \in Outcomes, block_write(o),
         ~ (pc = "superblock" /\ o = "landed")
  PROVE  View' = View
  <1>1. PICK s \in Slots : s = fs.superblock_slot
    BY DEF Inv, TypeOK, Handles
  <1>2. fs.mounted /\ pc # "mount" /\ MediumTypeOK
    BY ZenonT(40) DEF Inv, block_write, FormatPending, WritePending, CommitPending, TypeOK
  <1>3. Anchored(s)
    BY <1>1, <1>2, Anchor DEF Inv
  <1>4. Anchored(s)'
    BY <1>1, AnchorKept
  <1>5. PICK d : d = Copy(s)
    OBVIOUS
  <1>6. Recovered(s)' = Recovered(s)
    <2>1. Kept(s, d)
      BY <1>1, <1>5, SectorsKept
    <2> QED
      BY <1>3, <1>5, <2>1, RecoveredKept DEF Anchored, Kept
  <1>7. View = Recovered(s)
    BY <1>2, <1>3, ViewOfAnchor
  <1>8. View' = Recovered(s)'
    BY <1>4, ViewOfNextAnchor
  <1> QED
    BY <1>6, <1>7, <1>8

(* The new superblock reaching the medium changes one file, as the call    *)
(* asked.                                                                  *)
LEMMA ViewChanges ==
  ASSUME Inv, EntryPending, MediumTypeOK', formatted, pc = "superblock", block_write("landed")
  PROVE  \E n \in Names :
           /\ \A m \in Names : m # n => View'[m] = View[m]
           /\ \/ View[n] = NoFile /\ View'[n] = Empty
              \/ View[n] # NoFile /\ View'[n] \in Contents \cup {NoFile}
  <1>1. PICK s \in Slots : s = fs.superblock_slot
    BY DEF Inv, TypeOK, Handles
  <1>2. PICK t \in Slots : t = other(s)
    BY <1>1, OtherSlot
  <1>3. fs.mounted /\ MediumTypeOK /\ fs \in Handles /\ call \in Calls
    BY DEF Inv, CommitPending, TypeOK
  <1>4. PICK d1 : d1 = Committed
    OBVIOUS
  <1>5. PICK d2 : d2 = fs.directory
    OBVIOUS
  <1>6. Anchored(s) /\ Copy(s) = d1 /\ Sound(d1)
    BY <1>1, <1>3, <1>4, Anchor DEF Inv, Copy
  <1>7. Anchored(t)' /\ superblock'[t].directory_crc = crc32(d2)
    BY <1>1, <1>2, <1>5, AnchorMoved
  <1>8. Copy(t)' = d2
    BY <1>7 DEF Anchored, read_directory, Copy, crc32
  <1>9. UNCHANGED data
    BY DEF block_write, PutSuperblock
  <1>10. Sound(d2)
    BY <1>5 DEF Inv, CommitPending
  <1>11. d2 \in Directories /\ d1 = [d2 EXCEPT ![call.file] = call.backup]
    BY <1>3, <1>4, <1>5 DEF Committed, Handles
  <1>12. d1 \in Directories /\ d1[call.file] = call.backup
         /\ \A g \in Files : g # call.file => d2[g] = d1[g]
    BY <1>3, <1>11 DEF Calls, Directories
  <1>13. PICK f \in Files : f = call.file
    BY <1>3 DEF Calls
  <1>14. Changes(d1[f], d2[f])
    BY <1>5, <1>12, <1>13 DEF EntryPending
  <1>15. \A m \in Names : View[m] = mvhfs_read(d1, m)
    BY <1>3, <1>6, ViewOfAnchor DEF Recovered
  <1>16. ASSUME NEW m \in Names PROVE View'[m] = mvhfs_read(d2, m)
    <2>1. View'[m] = mvhfs_read(Copy(t), m)'
      BY <1>7, ViewOfNextAnchor DEF Recovered
    <2>2. Sound(Copy(t))'
      BY <1>7 DEF Anchored
    <2>3. CASE Named(d2, m) = {}
      <3>1. mvhfs_read(d2, m) = NoFile
        BY <2>3 DEF mvhfs_read
      <3>2. ~ \E g \in Files : d2[g] # Cleared /\ d2[g].name = m
        BY <2>3 DEF Named
      <3> QED
        BY <1>8, <2>1, <2>2, <3>1, <3>2, NextRecoveredFile
    <2>4. ASSUME NEW g \in Named(d2, m) PROVE View'[m] = mvhfs_read(d2, m)
      <3>1. g \in Files /\ d2[g] # Cleared /\ d2[g].name = m
        BY <2>4 DEF Named
      <3>2. mvhfs_read(d2, m) = Fetched(g, d2[g])
        BY <1>10, <2>4, ReadSound
      <3>3. mvhfs_read(Copy(t), m)' = Fetched(g, Copy(t)[g])'
        BY <1>8, <2>2, <3>1, NextRecoveredFile
      <3>4. Fetched(g, Copy(t)[g])' = Fetched(g, d2[g])
        BY <1>8, <1>9 DEF Fetched
      <3> QED
        BY <2>1, <3>2, <3>3, <3>4
    <2> QED
      BY <2>3, <2>4
  <1>17. \E n \in Names :
           /\ \A m \in Names : m # n => mvhfs_read(d2, m) = mvhfs_read(d1, m)
           /\ \/ mvhfs_read(d1, n) = NoFile /\ mvhfs_read(d2, n) = Empty
              \/ mvhfs_read(d1, n) # NoFile /\ mvhfs_read(d2, n) \in Contents \cup {NoFile}
    BY <1>6, <1>10, <1>11, <1>12, <1>13, <1>14, OneFile, ZenonT(40)
  <1> QED
    BY <1>15, <1>16, <1>17
------------------------------------------------------------------------------
(* A step changes the medium by one block_write of the running call, or    *)
(* not at all.                                                             *)
LEMMA StepWrites ==
  ASSUME [Next]_vars
  PROVE  UNCHANGED medium \/ \E o \in Outcomes : block_write(o)
  <1>1. "landed" \in Outcomes /\ FailedWrite \subseteq Outcomes
    BY Failures DEF Outcomes
  <1>2. \A n : mvhfs_create(n) \/ mvhfs_remove(n) => UNCHANGED medium
    BY DEF mvhfs_create, mvhfs_remove, medium
  <1>3. \A n, size, input : mvhfs_write(n, size, input) => UNCHANGED medium
    BY DEF mvhfs_write, medium
  <1>4. mvhfs_mount \/ mvhfs_format \/ UNCHANGED vars => UNCHANGED medium
    BY DEF mvhfs_mount, mvhfs_format, medium, vars
  <1>5. mvhfs_format_directories \/ mvhfs_format_second \/ mvhfs_format_first
        \/ mvhfs_write_sector \/ commit_directory_sector \/ commit_directory_superblock
        => block_write("landed")
    BY DEF mvhfs_format_directories, mvhfs_format_second, mvhfs_format_first,
       mvhfs_write_sector, commit_directory_sector, commit_directory_superblock
  <1>6. block_write_fails => \E o \in Outcomes : block_write(o)
    BY <1>1 DEF block_write_fails
  <1>7. Crash => UNCHANGED medium \/ \E o \in Outcomes : block_write(o)
    BY DEF Crash
  <1> QED
    BY <1>1, <1>2, <1>3, <1>4, <1>5, <1>6, <1>7 DEF Next

LEMMA StillLeads ==
  ASSUME Inv, [Next]_vars, formatted, NEW s \in Slots, Live(s)
  PROVE  LeadsTo(s)' = LeadsTo(s)
  <1>1. CASE UNCHANGED medium
    <2>1. PICK d : d = Copy(s)
      OBVIOUS
    <2>2. Kept(s, d)
      BY <1>1, <2>1 DEF medium, Copy, Kept
    <2> QED
      BY <2>1, <2>2, SameSectors
  <1>2. ASSUME NEW o \in Outcomes, block_write(o) PROVE LeadsTo(s)' = LeadsTo(s)
    <2>1. fs.mounted /\ pc # "mount" /\ MediumTypeOK /\ fs.superblock_slot \in Slots
      BY <1>2, ZenonT(40) DEF Inv, block_write, FormatPending, WritePending, CommitPending, TypeOK, Handles
    <2>2. s = fs.superblock_slot
      BY <2>1, LiveUnique, ZenonT(40) DEF Inv, Coherent
    <2>3. PICK d : d = Copy(s)
      OBVIOUS
    <2>4. Kept(s, d)
      BY <1>2, <2>2, <2>3, SectorsKept
    <2> QED
      BY <2>3, <2>4, SameSectors
  <1> QED
    BY <1>1, <1>2, StepWrites

LEMMA FallbackStep ==
  ASSUME Inv, formatted, commit_directory_superblock, NEW s \in Slots, s = fs.superblock_slot
  PROVE  /\ s # fs'.superblock_slot
         /\ superblock'[s] # Garbage
         /\ read_directory(s)'
         /\ Recovered(s)' = View
         /\ \A n \in Names : Recovered(s)'[n] # Corrupt
  <1>0. /\ fs.mounted /\ pc = "superblock" /\ MediumTypeOK /\ fs \in Handles
        /\ block_write("landed") /\ "landed" \in Outcomes
    BY DEF commit_directory_superblock, Inv, CommitPending, TypeOK, Outcomes
  <1>1. Anchored(s)
    BY <1>0, Anchor DEF Inv
  <1>2. PICK d : d = Copy(s)
    OBVIOUS
  <1>3. Kept(s, d) /\ superblock'[s] = superblock[s] /\ Copy(s)' = d
    BY <1>0, <1>2, SectorsKept DEF Kept
  <1>4. Recovered(s)' = Recovered(s)
    BY <1>1, <1>2, <1>3, RecoveredKept DEF Anchored, Kept
  <1>5. View = Recovered(s)
    BY <1>0, <1>1, ViewOfAnchor
  <1>6. s # fs'.superblock_slot
    BY <1>0, OtherSlot DEF commit_directory_superblock, Handles
  <1>7. read_directory(s)'
    BY <1>1, <1>2, <1>3 DEF Anchored, read_directory, Copy
  <1>8. superblock[s] # Garbage
    BY <1>1 DEF Anchored, Live
  <1>9. d \in Directories /\ Sound(d)
    <2>1. superblock[s] \in Superblocks
      BY <1>0, <1>8 DEF MediumTypeOK
    <2> QED
      BY <1>1, <1>2, <2>1 DEF Superblocks, Anchored, read_directory, Copy, crc32
  <1>10. \A n \in Names : Recovered(s)[n] # Corrupt
    BY <1>2, <1>9, ReadWhole, Sentinels DEF Recovered
  <1> QED
    BY <1>3, <1>4, <1>5, <1>6, <1>7, <1>8, <1>10

(* On a device whose failed writes do not land: no call and no power loss  *)
(* ever touches a sector the live superblock leads to, and the generation  *)
(* before the last commit stays a whole filesystem to fall back to.        *)
THEOREM CommitsNeverEndanger == ASSUME DeviceHonest PROVE Spec => CommitsSafe
  <1>1. Inv /\ [Next]_vars =>
          [formatted /\ formatted' => \A s \in Slots : Live(s) => LeadsTo(s)' = LeadsTo(s)]_vars
    BY StillLeads
  <1>2. Inv /\ [Next]_vars =>
          [formatted /\ commit_directory_superblock =>
             \A s \in Slots : s = fs.superblock_slot =>
               /\ s # fs'.superblock_slot
               /\ superblock'[s] # Garbage
               /\ read_directory(s)'
               /\ Recovered(s)' = View
               /\ \A n \in Names : Recovered(s)'[n] # Corrupt]_vars
    BY FallbackStep
  <1>3. Spec => CopyOnWrite
    BY <1>1, Invariance, PTL DEF Spec, CopyOnWrite
  <1>4. Spec => FallbackKept
    BY <1>2, Invariance, PTL DEF Spec, FallbackKept
  <1> QED
    BY <1>3, <1>4 DEF CommitsSafe
------------------------------------------------------------------------------
(* MVHFS implements the store, step by step.                               *)

(* The files of the store, as the refinement reads them off the medium.    *)
Shown == IF formatted THEN View ELSE [n \in Names |-> NoFile]

(* A formatted disk shows an answer for every name.                        *)
LEMMA ViewFunction ==
  Inv /\ formatted => View = [n \in Names |-> View[n]]
  <1> SUFFICES ASSUME Inv, formatted PROVE View = [n \in Names |-> View[n]]
    OBVIOUS
  <1>1. PICK s \in Slots : Anchored(s)
    BY DEF Inv, Recoverable
  <1>2. View = Recovered(s)
    BY <1>1, ViewOfAnchor DEF Inv, TypeOK
  <1> QED
    BY <1>2 DEF Recovered

LEMMA NextViewFunction ==
  (Inv /\ formatted => View = [n \in Names |-> View[n]])'
  BY ViewFunction, PTL

(* A disk just formatted shows no files.                                   *)
LEMMA FormatShowsNothing ==
  ASSUME Inv, Inv', [Next]_vars, ~formatted, formatted'
  PROVE  View' = [n \in Names |-> NoFile]
  <1>1. mvhfs_format_first
    <2>1. \A n : mvhfs_create(n) \/ mvhfs_remove(n) => UNCHANGED formatted
      BY ZenonT(40) DEF mvhfs_create, mvhfs_remove
    <2>2. \A n, size, input : mvhfs_write(n, size, input) => UNCHANGED formatted
      BY DEF mvhfs_write
    <2>3. mvhfs_mount \/ mvhfs_format_directories \/ mvhfs_format_second
          \/ mvhfs_write_sector \/ commit_directory_sector \/ commit_directory_superblock
          \/ block_write_fails \/ Crash \/ UNCHANGED vars => UNCHANGED formatted
      BY ZenonT(40) DEF mvhfs_mount, mvhfs_format_directories, mvhfs_format_second, mvhfs_write_sector,
         commit_directory_sector, commit_directory_superblock, block_write_fails, Crash, vars
    <2>4. mvhfs_format => ~formatted'
      BY DEF mvhfs_format
    <2> QED
      BY <2>1, <2>2, <2>3, <2>4, ZenonT(40) DEF Next
  <1>2. directory' = [s \in Slots |-> EmptyDirectory]
    BY <1>1 DEF mvhfs_format_first, block_write, PutSuperblock, Inv, FormatPending
  <1>3. PICK s \in Slots : Anchored(s)'
    BY DEF Inv, Recoverable
  <1>4. superblock'[s].directory_slot \in Slots
    BY <1>3 DEF Inv, TypeOK, MediumTypeOK, Anchored, Live, Superblocks
  <1>5. Copy(s)' = EmptyDirectory
    BY <1>2, <1>4 DEF Copy
  <1>6. View' = Recovered(s)'
    BY <1>3, ViewOfNextAnchor DEF Inv, TypeOK
  <1>7. \A n \in Names : mvhfs_read(Copy(s), n)' = NoFile
    BY <1>3, <1>5, NextRecoveredFile DEF Anchored, EmptyDirectory
  <1> QED
    BY <1>6, <1>7 DEF Recovered

LEMMA StoreStep ==
  ASSUME Inv, Inv', EntryPending, [Next]_vars
  PROVE  [Store!Next]_(Store!store)
  <1>t. MediumTypeOK /\ MediumTypeOK' /\ formatted \in BOOLEAN /\ formatted' \in BOOLEAN
    BY DEF Inv, TypeOK
  <1>1. CASE ~formatted'
    <2>1. CASE formatted
      BY <1>t, <1>1, <2>1, ZenonT(40) DEF Store!Next, Store!BeginFormat, Store!NoFiles
    <2>2. CASE ~formatted
      BY <1>t, <1>1, <2>2 DEF Store!store
    <2> QED
      BY <1>t, <2>1, <2>2
  <1>2. CASE ~formatted /\ formatted'
    <2>1. View' = [n \in Names |-> NoFile]
      BY <1>2, FormatShowsNothing
    <2> QED
      BY <1>t, <1>2, <2>1, ZenonT(40) DEF Store!Next, Store!EndFormat, Store!NoFiles
  <1>3. CASE formatted /\ formatted'
    <2>1. View' = View => UNCHANGED Store!store
      BY <1>t, <1>3 DEF Store!store
    <2>2. CASE UNCHANGED medium
      <3>1. PICK s \in Slots : Anchored(s)
        BY <1>3 DEF Inv, Recoverable
      <3>2. Anchored(s)'
        BY <2>2, <3>1, MediumUnchanged
      <3>3. PICK d : d = Copy(s)
        OBVIOUS
      <3>4. data' = data /\ Copy(s)' = d
        BY <2>2, <3>3 DEF medium, Copy
      <3>5. Recovered(s)' = Recovered(s)
        BY <3>1, <3>3, <3>4, RecoveredKept DEF Anchored
      <3>6. View' = View
        BY <1>t, <3>1, <3>2, <3>5, ViewOfAnchor, ViewOfNextAnchor
      <3> QED
        BY <2>1, <3>6
    <2>3. ASSUME NEW o \in Outcomes, block_write(o), ~ (pc = "superblock" /\ o = "landed")
          PROVE  View' = View
      BY <1>t, <1>3, <2>3, ViewKept
    <2>4. CASE pc = "superblock" /\ block_write("landed")
      <3>1. PICK n \in Names :
              /\ \A m \in Names : m # n => View'[m] = View[m]
              /\ \/ View[n] = NoFile /\ View'[n] = Empty
                 \/ View[n] # NoFile /\ View'[n] \in Contents \cup {NoFile}
        BY <1>t, <1>3, <2>4, ViewChanges
      <3>2. View' = [m \in Names |-> View'[m]] /\ View = [m \in Names |-> View[m]]
        BY <1>3, ViewFunction, NextViewFunction
      <3>3. View' = [View EXCEPT ![n] = View'[n]]
        BY <3>1, <3>2
      <3>4. Shown = View /\ Shown' = View'
        BY <1>3 DEF Shown
      <3>5. \/ Shown[n] = NoFile /\ Shown'[n] \in {Empty}
            \/ Shown[n] # NoFile /\ Shown'[n] \in Contents
            \/ Shown[n] # NoFile /\ Shown'[n] \in {NoFile}
        BY <3>1, <3>4
      <3>6. Shown' = [Shown EXCEPT ![n] = Shown'[n]]
        BY <3>3, <3>4
      <3>7. Store!Create(n) \/ Store!Write(n) \/ Store!Remove(n)
        BY <3>5, <3>6 DEF Store!Create, Store!Write, Store!Remove, Store!Change, Shown
      <3> QED
        BY <1>t, <1>3, <3>7 DEF Store!Next
    <2> QED
      BY <2>1, <2>2, <2>3, <2>4, StepWrites
  <1> QED
    BY <1>t, <1>1, <1>2, <1>3

(* On the same device the filesystem is the store it promises, for any     *)
(* number of files and sectors: a create, write or remove takes effect all *)
(* at once, with the superblock, and nothing else, power loss included,    *)
(* changes what a mount shows.                                             *)
THEOREM StoreImplemented == ASSUME DeviceHonest PROVE Spec => ImplementsStore
  <1>1. Init => EntryPending
    BY DEF Init, EntryPending
  <1>2. Inv /\ EntryPending /\ [Next]_vars => EntryPending'
    BY EntryStep
  <1>3. Spec => []EntryPending
    BY <1>1, <1>2, Invariance, PTL DEF Spec
  <1>4. Init => Store!Init
    BY ZenonT(40) DEF Init, Store!Init, Store!NoFiles
  <1>5. Inv /\ Inv' /\ EntryPending /\ [Next]_vars => [Store!Next]_(Store!store)
    BY StoreStep
  <1> QED
    BY <1>3, <1>4, <1>5, Invariance, PTL DEF Spec, ImplementsStore, Store!Spec
=============================================================================
