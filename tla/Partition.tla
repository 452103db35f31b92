------------------------------- MODULE Partition -------------------------------
(***************************************************************************)
(* Partition tables: partition_probe and gpt_probe of                      *)
(* src/src/storage/block.c with the CRC of src/src/core/crc32.c.  Sectors  *)
(* have SectorBytes bytes and entries at least EntryBytes (512 and 128 in  *)
(* the code), the CRC has CrcBits bits; the type of an entry is its first  *)
(* byte.  A disk maps a sector to its bytes, Unreadable where the driver   *)
(* fails.                                                                  *)
(***************************************************************************)
EXTENDS Integers, Sequences, SequencesExt, Bitwise

CONSTANTS SectorBytes, EntryBytes, MaxEntries, CrcBits, Polynomial

Unreadable == <<-1>>
Ones == 2 ^ CrcBits - 1

RECURSIVE crc_bits(_, _)
crc_bits(value, left) ==
  IF left = 0 THEN value
  ELSE IF value % 2 = 1 THEN crc_bits((value \div 2) ^^ Polynomial, left - 1)
  ELSE crc_bits(value \div 2, left - 1)
RECURSIVE crc_bytes(_, _)
crc_bytes(value, bytes) ==
  IF bytes = <<>> THEN value ELSE crc_bytes(crc_bits(value ^^ Head(bytes), 8), Tail(bytes))

(* Mutation of crc32_update: the previous value is taken as it is.         *)
crc32_update_raw(previous, bytes) == Ones - crc_bytes(previous, bytes)

crc32_update(previous, bytes) == Ones - crc_bytes(Ones - previous, bytes)
crc32(bytes) == crc32_update(0, bytes)

Min2(a, b) == IF a < b THEN a ELSE b

(* The entries of one sector: the CRC of its part of the table, and how    *)
(* many of its entries are in use.                                         *)
EntrySector(walk, bytes, entry_size) ==
  LET chunk == Min2(walk.remaining, SectorBytes)
      used == {n \in 0 .. (chunk \div entry_size) - 1 : bytes[n * entry_size + 1] # 0}
  IN  IF ~walk.ok \/ bytes = Unreadable THEN [walk EXCEPT !.ok = FALSE]
      ELSE [walk EXCEPT !.crc = crc32_update(@, SubSeq(bytes, 1, chunk)),
                        !.populated = @ + Cardinality(used),
                        !.remaining = @ - chunk]

NoTable ==
  [type |-> "none", partition_count |-> 0, protective_mbr |-> FALSE,
   gpt_header_valid |-> FALSE, gpt_entries_valid |-> FALSE,
   first_usable_lba |-> 0, last_usable_lba |-> 0]
Answer(result, info) == [result |-> result, info |-> info]

(* header_good stands for version, header size, reserved field, the        *)
(* header's own sector and its signature.                                  *)
gpt_probe(disk, sectors, h, info) ==
  LET bounds == [info EXCEPT !.first_usable_lba = h.first_usable,
                             !.last_usable_lba = h.last_usable]
      valid == [bounds EXCEPT !.gpt_header_valid = TRUE]
      entry_bytes == h.entry_count * h.entry_size
      entry_sectors == (entry_bytes + SectorBytes - 1) \div SectorBytes
      walk == FoldLeft(LAMBDA w, i : EntrySector(w, disk[h.entry_lba + i - 1], h.entry_size),
                       [ok |-> TRUE, crc |-> 0, populated |-> 0, remaining |-> entry_bytes],
                       [i \in 1 .. entry_sectors |-> i])
  IN  IF \/ ~h.header_good \/ h.backup >= sectors
         \/ h.entry_count \notin 1 .. MaxEntries
         \/ h.entry_size \notin EntryBytes .. SectorBytes \/ SectorBytes % h.entry_size # 0
      THEN Answer(-2, info)
      ELSE IF h.first_usable > h.last_usable \/ h.last_usable >= sectors
                \/ h.backup <= h.last_usable \/ ~h.header_crc_good
      THEN Answer(-2, bounds)
      ELSE IF h.entry_lba <= 1 \/ h.entry_lba >= h.first_usable
                \/ h.entry_lba >= sectors \/ entry_sectors > sectors - h.entry_lba
                \/ entry_sectors > h.first_usable - h.entry_lba
      THEN Answer(-2, valid)
      ELSE IF ~walk.ok \/ walk.crc # h.entries_crc THEN Answer(-2, valid)
      ELSE Answer(0, [valid EXCEPT !.gpt_entries_valid = TRUE, !.type = "gpt",
                                   !.partition_count = walk.populated])

(* The four entries of the first sector are <<type, size>>; before is what *)
(* the caller's record holds.                                              *)
partition_probe(disk, sectors, mbr, header, before) ==
  IF ~mbr.readable THEN Answer(-1, before)
  ELSE IF ~mbr.marked THEN Answer(0, NoTable)
  ELSE IF \E i \in 1 .. 4 : mbr.entries[i][1] = 238
  THEN LET info == [NoTable EXCEPT !.protective_mbr = TRUE] IN
       IF ~header.readable THEN Answer(-2, info) ELSE gpt_probe(disk, sectors, header, info)
  ELSE Answer(0, [NoTable EXCEPT !.type = "mbr", !.partition_count =
         Cardinality({i \in 1 .. 4 : mbr.entries[i][1] # 0 /\ mbr.entries[i][2] # 0})])
------------------------------------------------------------------------------
(* A checksum taken in pieces is that of the whole, and two sequences that *)
(* differ in one byte have different ones.                                 *)
ChecksumExact(a, b) ==
  /\ crc32_update(crc32(a), b) = crc32(a \o b)
  /\ Len(a) = Len(b) /\ a # b
       /\ Cardinality({i \in 1 .. Len(a) : a[i] # b[i]}) = 1 => crc32(a) # crc32(b)

(* A table that is reported has been read whole and checked, its entries   *)
(* lie between the header and the usable sectors, the backup header after  *)
(* them, all on the disk, and partition_count counts the used ones, the    *)
(* last incomplete sector included; a protective MBR is never reported as  *)
(* an MBR table, and a table that fails a check has no type.  Of what the  *)
(* caller's record held before nothing is left, unless the first sector    *)
(* cannot be read: then it is as it was.                                   *)
PartitionsExact(disk, sectors, mbr, header, before) ==
  LET answer == partition_probe(disk, sectors, mbr, header, before)
      info == answer.info
      entry_bytes == header.entry_count * header.entry_size
      Byte(n) == disk[header.entry_lba + n \div SectorBytes][(n % SectorBytes) + 1]
  IN  /\ answer.result = -1 <=> ~mbr.readable
      /\ answer.result = -1 => info = before
      /\ answer.result # -1 =>
           /\ answer = partition_probe(disk, sectors, mbr, header, NoTable)
           /\ info.gpt_header_valid => header.header_crc_good /\ header.readable
      /\ answer.result = -2 => info.type = "none" /\ info.partition_count = 0
      /\ answer.result = 0 /\ info.type = "none" => ~mbr.marked
      /\ answer.result = 0 /\ info.type = "mbr" => ~info.protective_mbr /\ info.partition_count <= 4
      /\ answer.result = 0 /\ info.type = "gpt" =>
           /\ info.protective_mbr /\ info.gpt_header_valid /\ info.gpt_entries_valid
           /\ header.entry_lba > 1
           /\ header.entry_lba * SectorBytes + entry_bytes <= info.first_usable_lba * SectorBytes
           /\ info.first_usable_lba <= info.last_usable_lba
           /\ info.last_usable_lba < header.backup /\ header.backup < sectors
           /\ crc32([n \in 1 .. entry_bytes |-> Byte(n - 1)]) = header.entries_crc
           /\ info.partition_count =
                Cardinality({n \in 0 .. header.entry_count - 1 : Byte(n * header.entry_size) # 0})

=============================================================================
