-------------------------------- MODULE Mvhfs --------------------------------
(***************************************************************************)
(* The persistent filesystem (src/src/fs/mvhfs.c) on a block device that   *)
(* may lose power or fail a request between any two sectors.               *)
(*                                                                         *)
(* The medium is two superblock sectors, two directory copies of           *)
(* MVHFS_DIRECTORY_SECTORS sectors and, for every file, two data copies of *)
(* MVHFS_SECTORS_PER_COPY sectors.  Every block_write is one step, so a    *)
(* crash or a failed request can fall between any two of them; a call runs *)
(* alone (the shell is the only caller), so what a call computes between   *)
(* two block_writes belongs to the step of the second one.                 *)
(*                                                                         *)
(* Abstractions.  A sector of file data is a member of Data, Zero, or      *)
(* Garbage; sizes count sectors.  crc32 is collision-free on the values of *)
(* the model, and no checksum matches a Garbage sector.                    *)
(***************************************************************************)
EXTENDS Integers

CONSTANTS
  Names,                   \* the names valid_name accepts
  Data,                    \* what a caller may store in one sector
  Zero,                    \* a sector of zero bytes
  Cleared,                 \* a directory entry whose used flag is 0
  Garbage,                 \* a sector no checksum or magic accepts
  NoFile, Corrupt,         \* answers of a lookup: no entry, checksum mismatch
  MVHFS_MAX_FILES,
  ENTRIES_PER_SECTOR,
  MVHFS_DIRECTORY_SECTORS,
  MVHFS_SECTORS_PER_COPY,
  MaxGeneration,           \* bound: no call begins at this generation
  FailedWrite,             \* what a block_write that returns -1 may have done
  ReadErrors               \* mount's block_reads may fail

Outcomes == {"landed", "lost", "torn"}

Files == 0 .. MVHFS_MAX_FILES - 1
Slots == {0, 1}
entry_sector(f) == f \div ENTRIES_PER_SECTOR + 1

ASSUME DirectoryFits ==
  /\ MVHFS_MAX_FILES \in Nat \ {0}
  /\ MVHFS_DIRECTORY_SECTORS \in Nat \ {0}
  /\ MVHFS_SECTORS_PER_COPY \in Nat \ {0}
  /\ MaxGeneration \in Nat
  /\ \A f \in Files : entry_sector(f) \in 1 .. MVHFS_DIRECTORY_SECTORS

ASSUME Failures == FailedWrite \subseteq Outcomes /\ ReadErrors \in BOOLEAN

(* CRC-32 as the fingerprint of what it was computed over.                 *)
crc32(bytes) == [crc32 |-> bytes]

Contents == UNION {[1 .. n -> Data] : n \in 0 .. MVHFS_SECTORS_PER_COPY}
Empty == [i \in 1 .. 0 |-> Zero]
Entries == [name : Names, size : 0 .. MVHFS_SECTORS_PER_COPY,
            crc : [crc32 : Contents], slot : Slots]
Directories == [Files -> Entries \cup {Cleared}]
Superblocks == [generation : Nat, directory_slot : Slots,
                directory_crc : [crc32 : Directories]]

ASSUME Sentinels ==
  /\ Cleared \notin Entries
  /\ Garbage \notin Entries \cup {Cleared} \cup Superblocks \cup Data \cup {Zero}
  /\ Zero \notin Data
  /\ NoFile \notin Contents /\ Corrupt \notin Contents /\ NoFile # Corrupt

VARIABLES
  superblock,   \* medium: sectors 0 and 1
  directory,    \* medium: the two directory copies, entry by entry
  data,         \* medium: the two data copies of every file
  fs,           \* memory: the caller's mvhfs_t
  pc,           \* where the running call is; "idle" when none runs
  call,         \* memory: the locals of the running call
  formatted     \* history: a format completed and none has begun since

medium == <<superblock, directory, data>>
vars == <<superblock, directory, data, fs, pc, call, formatted>>

EmptyDirectory == [f \in Files |-> Cleared]

(* fs while nothing is mounted: only the flag is read before a mount       *)
(* assigns every other field.                                              *)
Unmounted == [mounted |-> FALSE, superblock_slot |-> 0, directory_slot |-> 0,
              generation |-> 0, directory |-> EmptyDirectory]
NoCall == [file |-> 0, backup |-> Cleared, size |-> 0, input |-> Empty, sector |-> 0]

other(slot) == 1 - slot
------------------------------------------------------------------------------
(* Lookups in a directory.                                                 *)

Named(d, n) == {f \in Files : d[f] # Cleared /\ d[f].name = n}
FreeEntries(d) == {f \in Files : d[f] = Cleared}
First(S) == {f \in S : \A g \in S : f <= g}
find_entry(d, n) == First(Named(d, n))
find_free(d) == First(FreeEntries(d))

(* The sectors mvhfs_read fetches for the entry e of file f.               *)
Fetched(f, e) == [i \in 1 .. e.size |-> data[f][e.slot][i]]

(* What mvhfs_read answers for the name n when d is the directory in       *)
(* memory.                                                                 *)
mvhfs_read(d, n) ==
  IF Named(d, n) = {} THEN NoFile
  ELSE LET f == CHOOSE g \in Files : g \in find_entry(d, n)
       IN  IF crc32(Fetched(f, d[f])) = d[f].crc THEN Fetched(f, d[f]) ELSE Corrupt
------------------------------------------------------------------------------
(* Mount.  sb and dir are the superblocks and directory copies whose       *)
(* block_reads succeed.                                                    *)

validate_superblock(sb) == {s \in Slots \cap sb : superblock[s] # Garbage}

read_directory(s) ==
  crc32(directory[superblock[s].directory_slot]) = superblock[s].directory_crc

(* Mutation of Preferred: the older generation wins.                       *)
Preferred_oldest(valid) ==
  IF /\ 0 \in valid
     /\ 1 \in valid => superblock[0].generation < superblock[1].generation
  THEN 0 ELSE 1

Preferred(valid) ==
  IF /\ 0 \in valid
     /\ 1 \in valid => superblock[0].generation >= superblock[1].generation
  THEN 0 ELSE 1

(* The superblock slot mount ends up using: the preferred one, or else the *)
(* other if it is valid and its directory checks; empty when mount fails.  *)
Mountable(sb, dir) ==
  LET valid  == validate_superblock(sb)
      intact == {s \in valid : superblock[s].directory_slot \in dir /\ read_directory(s)}
  IN  IF Preferred(valid) \in intact THEN {Preferred(valid)} ELSE intact

mount_from_superblock(s) ==
  [mounted |-> TRUE, superblock_slot |-> s,
   directory_slot |-> superblock[s].directory_slot,
   generation |-> superblock[s].generation,
   directory |-> directory[superblock[s].directory_slot]]

Readable == IF ReadErrors THEN SUBSET Slots ELSE {Slots}

(* mvhfs_mount, called by itself or right after a format by pmkfs and the  *)
(* installer.  It only reads, so it is one step.                           *)
mvhfs_mount ==
  /\ pc \in {"idle", "mount"}
  /\ \E sb, dir \in Readable :
       LET m == Mountable(sb, dir)
       IN  \/ m = {} /\ fs' = Unmounted
           \/ \E s \in m : fs' = mount_from_superblock(s)
  /\ pc' = "idle"
  /\ UNCHANGED <<superblock, directory, data, call, formatted>>
------------------------------------------------------------------------------
(* The sector the running call is about to write, and what the medium      *)
(* holds after each outcome of that block_write.                           *)

Sector(o, old, new) ==
  IF o = "landed" THEN new ELSE IF o = "lost" THEN old ELSE Garbage

(* Sector k of directory copy s, from the directory d in memory.           *)
PutDirectorySector(o, s, k, d) ==
  /\ directory' = [directory EXCEPT ![s] =
       [f \in Files |-> IF entry_sector(f) = k
                        THEN Sector(o, directory[s][f], d[f])
                        ELSE directory[s][f]]]
  /\ UNCHANGED <<superblock, data>>

PutSuperblock(o, s, g, ds, d) ==
  /\ superblock' = [superblock EXCEPT ![s] =
       Sector(o, superblock[s],
              [generation |-> g, directory_slot |-> ds, directory_crc |-> crc32(d)])]
  /\ UNCHANGED <<directory, data>>

(* Mutation of PutDataSector: the active copy is overwritten.              *)
PutDataSector_in_place(o) ==
  LET k   == call.sector
      new == IF k <= call.size THEN call.input[k] ELSE Zero
  IN  /\ data' = [data EXCEPT ![call.file][call.backup.slot][k] = Sector(o, @, new)]
      /\ UNCHANGED <<superblock, directory>>

PutDataSector(o) ==
  LET s   == other(call.backup.slot)
      k   == call.sector
      new == IF k <= call.size THEN call.input[k] ELSE Zero
  IN  /\ data' = [data EXCEPT ![call.file][s][k] = Sector(o, @, new)]
      /\ UNCHANGED <<superblock, directory>>

ZeroDirectorySector(o) ==
  LET second == call.sector > MVHFS_DIRECTORY_SECTORS
  IN  PutDirectorySector(o, IF second THEN 1 ELSE 0,
                         IF second THEN call.sector - MVHFS_DIRECTORY_SECTORS
                         ELSE call.sector,
                         EmptyDirectory)

block_write(o) ==
  \/ pc = "data" /\ PutDataSector(o)
  \/ pc = "directory" /\ PutDirectorySector(o, other(fs.directory_slot), call.sector, fs.directory)
  \/ pc = "superblock" /\ PutSuperblock(o, other(fs.superblock_slot), fs.generation + 1,
                                        other(fs.directory_slot), fs.directory)
  \/ pc = "format" /\ ZeroDirectorySector(o)
  \/ pc = "format1" /\ PutSuperblock(o, 1, 0, 1, EmptyDirectory)
  \/ pc = "format0" /\ PutSuperblock(o, 0, 1, 0, EmptyDirectory)

Goto(label) == pc' = label
Return == pc' = "idle" /\ call' = NoCall

(* Mutation of block_write_fails: memory keeps the change.                 *)
block_write_fails_no_rollback ==
  /\ \E o \in FailedWrite : block_write(o)
  /\ Return
  /\ UNCHANGED <<fs, formatted>>

(* The block_write under way returns -1, and so does the call.  A commit   *)
(* puts the entry back in memory first.                                    *)
block_write_fails ==
  /\ \E o \in FailedWrite : block_write(o)
  /\ fs' = IF pc \in {"directory", "superblock"}
           THEN [fs EXCEPT !.directory[call.file] = call.backup]
           ELSE fs
  /\ Return
  /\ UNCHANGED formatted
------------------------------------------------------------------------------
(* commit_directory, shared by create, write and remove.                   *)

(* Mutation of commit_directory_sector: the last sector is left out.       *)
commit_directory_sector_short ==
  /\ pc = "directory"
  /\ block_write("landed")
  /\ IF call.sector < MVHFS_DIRECTORY_SECTORS - 1
     THEN Goto("directory") /\ call' = [call EXCEPT !.sector = @ + 1]
     ELSE Goto("superblock") /\ UNCHANGED call
  /\ UNCHANGED <<fs, formatted>>

commit_directory_sector ==
  /\ pc = "directory"
  /\ block_write("landed")
  /\ IF call.sector < MVHFS_DIRECTORY_SECTORS
     THEN Goto("directory") /\ call' = [call EXCEPT !.sector = @ + 1]
     ELSE Goto("superblock") /\ UNCHANGED call
  /\ UNCHANGED <<fs, formatted>>

commit_directory_superblock ==
  /\ pc = "superblock"
  /\ block_write("landed")
  /\ fs' = [fs EXCEPT !.directory_slot = other(@), !.superblock_slot = other(@),
                      !.generation = @ + 1]
  /\ Return
  /\ UNCHANGED formatted

(* The entry of f becomes e in memory and the commit begins.               *)
BeginCommit(f, e) ==
  /\ fs' = [fs EXCEPT !.directory[f] = e]
  /\ call' = [call EXCEPT !.file = f, !.backup = fs.directory[f], !.sector = 1]
  /\ Goto("directory")
------------------------------------------------------------------------------
(* The calls.  A call whose early checks fail returns -1 and changes       *)
(* nothing.                                                                *)

MayCall == pc = "idle" /\ fs.mounted /\ fs.generation < MaxGeneration

mvhfs_create(n) ==
  /\ MayCall
  /\ Named(fs.directory, n) = {}
  /\ \E f \in find_free(fs.directory) :
       BeginCommit(f, [name |-> n, size |-> 0, crc |-> crc32(Empty), slot |-> 0])
  /\ UNCHANGED <<superblock, directory, data, formatted>>

mvhfs_remove(n) ==
  /\ MayCall
  /\ \E f \in find_entry(fs.directory, n) : BeginCommit(f, Cleared)
  /\ UNCHANGED <<superblock, directory, data, formatted>>

mvhfs_write(n, size, input) ==
  /\ MayCall
  /\ \E f \in find_entry(fs.directory, n) :
       call' = [file |-> f, backup |-> fs.directory[f], size |-> size,
                input |-> input, sector |-> 1]
  /\ Goto("data")
  /\ UNCHANGED <<superblock, directory, data, fs, formatted>>

(* The copy that is not active takes the new contents; only when all of it *)
(* is written does the entry in memory change and the commit begin.        *)
WrittenEntry ==
  [call.backup EXCEPT !.size = call.size, !.crc = crc32(call.input), !.slot = other(@)]

mvhfs_write_sector ==
  /\ pc = "data"
  /\ block_write("landed")
  /\ IF call.sector < MVHFS_SECTORS_PER_COPY
     THEN /\ Goto("data")
          /\ call' = [call EXCEPT !.sector = @ + 1]
          /\ UNCHANGED fs
     ELSE BeginCommit(call.file, WrittenEntry)
  /\ UNCHANGED formatted

mvhfs_format ==
  /\ pc = "idle"
  /\ Goto("format")
  /\ call' = [NoCall EXCEPT !.sector = 1]
  /\ formatted' = FALSE
  /\ UNCHANGED <<superblock, directory, data, fs>>

mvhfs_format_directories ==
  /\ pc = "format"
  /\ block_write("landed")
  /\ IF call.sector < 2 * MVHFS_DIRECTORY_SECTORS
     THEN Goto("format") /\ call' = [call EXCEPT !.sector = @ + 1]
     ELSE Goto("format1") /\ call' = NoCall
  /\ UNCHANGED <<fs, formatted>>

mvhfs_format_second ==
  /\ pc = "format1"
  /\ block_write("landed")
  /\ Goto("format0")
  /\ UNCHANGED <<fs, call, formatted>>

mvhfs_format_first ==
  /\ pc = "format0"
  /\ block_write("landed")
  /\ Goto("mount")
  /\ formatted' = TRUE
  /\ UNCHANGED <<fs, call>>

(* Power is lost.  The block_write under way, if there is one, may have    *)
(* reached the medium, not reached it, or torn the sector.                 *)
Crash ==
  /\ \/ pc \in {"idle", "mount"} /\ UNCHANGED medium
     \/ \E o \in Outcomes : block_write(o)
  /\ fs' = Unmounted
  /\ Return
  /\ UNCHANGED formatted
------------------------------------------------------------------------------
(* A disk that was never formatted.                                        *)
Init ==
  /\ superblock = [s \in Slots |-> Garbage]
  /\ directory = [s \in Slots |-> [f \in Files |-> Garbage]]
  /\ data = [f \in Files |->
               [s \in Slots |-> [k \in 1 .. MVHFS_SECTORS_PER_COPY |-> Garbage]]]
  /\ fs = Unmounted
  /\ pc = "idle"
  /\ call = NoCall
  /\ formatted = FALSE

Next ==
  \/ mvhfs_mount
  \/ mvhfs_format
  \/ mvhfs_format_directories
  \/ mvhfs_format_second
  \/ mvhfs_format_first
  \/ \E n \in Names : mvhfs_create(n) \/ mvhfs_remove(n)
  \/ \E n \in Names, size \in 0 .. MVHFS_SECTORS_PER_COPY :
       \E input \in [1 .. size -> Data] : mvhfs_write(n, size, input)
  \/ mvhfs_write_sector
  \/ commit_directory_sector
  \/ commit_directory_superblock
  \/ block_write_fails
  \/ Crash

Spec == Init /\ [][Next]_vars
------------------------------------------------------------------------------
(* Properties.                                                             *)

Labels == {"idle", "mount", "data", "directory", "superblock",
           "format", "format1", "format0"}
DirectorySectors == Entries \cup {Cleared, Garbage}
DataSectors == Data \cup {Zero, Garbage}
DataCopies == [1 .. MVHFS_SECTORS_PER_COPY -> DataSectors]
Handles == [mounted : BOOLEAN, superblock_slot : Slots, directory_slot : Slots,
            generation : Nat, directory : Directories]
Calls == [file : Files, backup : Entries \cup {Cleared},
          size : 0 .. MVHFS_SECTORS_PER_COPY, input : Contents, sector : Nat]

MediumTypeOK ==
  /\ superblock \in [Slots -> Superblocks \cup {Garbage}]
  /\ directory \in [Slots -> [Files -> DirectorySectors]]
  /\ data \in [Files -> [Slots -> DataCopies]]

(* Every variable keeps the shape mvhfs.c gives it.                        *)
TypeOK ==
  /\ MediumTypeOK
  /\ fs \in Handles
  /\ pc \in Labels
  /\ call \in Calls
  /\ formatted \in BOOLEAN

(* The superblock that counts: valid, and newer than the other if the      *)
(* other is valid too.                                                     *)
Live(s) ==
  /\ superblock[s] # Garbage
  /\ \/ superblock[other(s)] = Garbage
     \/ superblock[other(s)].generation < superblock[s].generation

Copy(s) == directory[superblock[s].directory_slot]

(* The checksum of every file that d names matches what d points at, and   *)
(* no two entries share a name.                                            *)
Sound(d) ==
  \A f \in Files : d[f] # Cleared =>
    /\ crc32(Fetched(f, d[f])) = d[f].crc
    /\ \A g \in Files : d[g] # Cleared /\ d[g].name = d[f].name => g = f

Anchored(s) == Live(s) /\ read_directory(s) /\ Sound(Copy(s))

(* At every instant of a formatted disk there is a superblock a mount will *)
(* choose, its directory passes read_directory and each of its files       *)
(* passes mvhfs_read: the power may fail now.                              *)
Recoverable == formatted => \E s \in Slots : Anchored(s)

(* The directory in memory without the change of the running call.         *)
Committed ==
  IF pc \in {"directory", "superblock"}
  THEN [fs.directory EXCEPT ![call.file] = call.backup] ELSE fs.directory

(* Memory and medium agree on what is committed: a mounted fs describes    *)
(* the live superblock and its directory, so a call that returned 0 is     *)
(* durable and a call that returned -1 left nothing behind, in memory or   *)
(* on the medium.                                                          *)
Coherent ==
  (formatted /\ fs.mounted /\ pc # "mount") =>
    /\ Live(fs.superblock_slot)
    /\ superblock[fs.superblock_slot] =
         [generation |-> fs.generation, directory_slot |-> fs.directory_slot,
          directory_crc |-> crc32(Committed)]

(* What the running call has done so far: the rest of the inductive        *)
(* invariant.  mvhfs_write has stored the sectors before call.sector in    *)
(* the copy that is not active.                                            *)
WritePending ==
  pc = "data" =>
    /\ fs.mounted
    /\ call.backup \in Entries
    /\ call.backup = fs.directory[call.file]
    /\ call.input \in [1 .. call.size -> Data]
    /\ call.sector \in 1 .. MVHFS_SECTORS_PER_COPY
    /\ \A k \in 1 .. call.size : k < call.sector =>
         data[call.file][other(call.backup.slot)][k] = call.input[k]

(* The directory being committed is sound, and the sectors of it that      *)
(* commit_directory has passed are in the copy that is not live.           *)
CommitPending ==
  pc \in {"directory", "superblock"} =>
    /\ fs.mounted
    /\ call.sector \in 1 .. MVHFS_DIRECTORY_SECTORS
    /\ formatted => Sound(fs.directory)
    /\ \A f \in Files : (pc = "superblock" \/ entry_sector(f) < call.sector) =>
         directory[other(fs.directory_slot)][f] = fs.directory[f]

(* A format has cleared the directory sectors it has passed, then written  *)
(* the second superblock.                                                  *)
FormatPending ==
  /\ pc \in {"format", "format1", "format0"} => ~formatted
  /\ pc = "mount" => formatted
  /\ pc = "format" =>
       /\ call.sector \in 1 .. 2 * MVHFS_DIRECTORY_SECTORS
       /\ \A s \in Slots, f \in Files :
            s * MVHFS_DIRECTORY_SECTORS + entry_sector(f) < call.sector =>
              directory[s][f] = Cleared
  /\ pc \in {"format1", "format0"} => directory = [s \in Slots |-> EmptyDirectory]
  /\ pc = "format0" =>
       superblock[1] = [generation |-> 0, directory_slot |-> 1,
                        directory_crc |-> crc32(EmptyDirectory)]

Inv ==
  TypeOK /\ WritePending /\ Recoverable /\ Coherent /\ CommitPending /\ FormatPending

(* The device the promises are made for: a block_write that returns -1 has *)
(* not stored the new sector, and block_reads do not fail.                 *)
DeviceHonest == "landed" \notin FailedWrite /\ ~ReadErrors

(* Copy-on-write: no step changes a sector that the live superblock leads  *)
(* to, short of a format.                                                  *)
LeadsTo(s) ==
  <<superblock[s], Copy(s),
    [f \in Files |-> IF Copy(s)[f] = Cleared THEN Empty ELSE Fetched(f, Copy(s)[f])]>>
CopyOnWrite ==
  [][formatted /\ formatted' => \A s \in Slots : Live(s) => LeadsTo(s)' = LeadsTo(s)]_vars

(* What a mount with a working device would show of the medium as it is.   *)
Recovered(s) == [n \in Names |-> mvhfs_read(Copy(s), n)]
View ==
  LET shown == {Recovered(s) : s \in Mountable(Slots, Slots)}
  IN  IF shown = {} THEN [n \in Names |-> Corrupt] ELSE CHOOSE v \in shown : TRUE

(* The commit of a new generation leaves the one before it mountable, with *)
(* every file as it was and readable: should the new superblock be damaged *)
(* later, mount falls back to it.                                          *)
FallbackKept ==
  [][formatted /\ commit_directory_superblock =>
       \A s \in Slots : s = fs.superblock_slot =>
         /\ s # fs'.superblock_slot
         /\ superblock'[s] # Garbage
         /\ read_directory(s)'
         /\ Recovered(s)' = View
         /\ \A n \in Names : Recovered(s)'[n] # Corrupt]_vars

(* A commit never endangers what is there: no step changes a sector the    *)
(* live superblock leads to, and a new generation leaves the one before it *)
(* mountable and readable.                                                 *)
CommitsSafe == CopyOnWrite /\ FallbackKept

Store == INSTANCE PersistentStore WITH
           files <- IF formatted THEN View ELSE [n \in Names |-> NoFile]

(* MVHFS implements the store: whatever was cut short and wherever, a      *)
(* remount shows every file as it was before the call or as the call was   *)
(* to leave it, readable, and never a mixture.                             *)
ImplementsStore == Store!Spec

(* CRC32 recovery: no file of a formatted disk is ever lost to a checksum  *)
(* mismatch.                                                               *)
NoFileLost == formatted => \A n \in Names : View[n] # Corrupt

=============================================================================
