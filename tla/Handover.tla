------------------------------ MODULE Handover -------------------------------
(***************************************************************************)
(* What boot loader and firmware hand to the kernel: the boot information  *)
(* (src/src/core/bootinfo.c), the ACPI tables (src/src/firmware/acpi.c)    *)
(* and the SMBIOS table (src/src/firmware/smbios.c).                       *)
(***************************************************************************)
EXTENDS Integers, FiniteSets, Sequences, SequencesExt
------------------------------------------------------------------------------
(* The hand-over from the boot loader (src/src/core/bootinfo.c).  Words    *)
(* have W bits where the code has 64; the identity mapping ends at Limit   *)
(* and starts at FirstPage.  Sizes of structures and the granularity of    *)
(* addresses are those of the small instance.                              *)

CONSTANTS
  W, FirstPage, Limit,
  InfoSize,                  \* sizeof(mvh_bootinfo_v2_t)
  EntrySize,                 \* sizeof(mvh_memory_map_entry_t)
  MaxInfoSize,               \* MVH_BOOTINFO_MAX_SIZE
  MaxEntries, RsdpSize, SmbiosSize, MaxSeed, MaxCommandLine,
  MinMemory, MaxMemory       \* of memory_kib

Top == 2 ^ W - 1
Refused == [captured |-> FALSE]

(* Mutation of range_is_mapped: the end of the range is computed and may   *)
(* wrap.                                                                   *)
range_is_mapped_wrapping(address, size) ==
  address >= FirstPage /\ size # 0 /\ (address + size) % 2 ^ W <= Limit

range_is_mapped(address, size) ==
  address >= FirstPage /\ size # 0 /\ address < Limit /\ size <= Limit - address

optional_range(present, address, size) ==
  IF present THEN range_is_mapped(address, size) ELSE address = 0

MapAccepted(info) ==
  IF "map" \in info.flags
  THEN /\ info.map.entries \in 1 .. MaxEntries /\ info.map.address % 2 = 0
       /\ info.map.entry_size \in EntrySize .. MaxInfoSize /\ info.map.entry_size % 2 = 0
       /\ range_is_mapped(info.map.address, info.map.entries * info.map.entry_size)
       /\ \A i \in 1 .. info.map.entries :
            LET entry == info.map.list[i] IN
            entry.length # 0 /\ entry.base <= Top - entry.length /\ entry.type \in 1 .. 6
  ELSE info.map.address = 0 /\ info.map.entries = 0 /\ info.map.entry_size = 0

FramebufferAccepted(info) ==
  IF "framebuffer" \in info.flags
  THEN /\ info.framebuffer.address # 0 /\ info.framebuffer.width # 0
       /\ info.framebuffer.height # 0 /\ info.framebuffer.pitch # 0
       /\ info.framebuffer.bits_per_pixel \in {24, 32}
  ELSE info.framebuffer = [address |-> 0, width |-> 0, height |-> 0, pitch |-> 0,
                           bits_per_pixel |-> 0]

(* The header is good when magic, version, known flags and reserved fields *)
(* are.                                                                    *)
validate_v2(info) ==
  /\ info.header_good /\ info.size \in InfoSize .. MaxInfoSize
  /\ info.memory_kib \in MinMemory .. MaxMemory
  /\ MapAccepted(info)
  /\ optional_range("acpi" \in info.flags, info.acpi, RsdpSize)
  /\ optional_range("smbios" \in info.flags, info.smbios, SmbiosSize)
  /\ FramebufferAccepted(info)
  /\ optional_range("seed" \in info.flags, info.seed.address, info.seed.size)
  /\ info.seed.size <= MaxSeed /\ ("seed" \in info.flags \/ info.seed.size = 0)
  /\ optional_range("command" \in info.flags, info.command.address, info.command.size)
  /\ info.command.size <= MaxCommandLine /\ ("command" \in info.flags \/ info.command.size = 0)

(* argument0 is the address of info when the loader passed one, else the   *)
(* memory size.                                                            *)
bootinfo_capture(argument0, versioned, info) ==
  IF ~versioned
  THEN IF argument0 \in MinMemory .. MaxMemory
       THEN [captured |-> TRUE, versioned |-> FALSE, memory_kib |-> argument0] ELSE Refused
  ELSE IF argument0 % 2 # 0 \/ ~range_is_mapped(argument0, InfoSize) THEN Refused
  ELSE IF ~validate_v2(info) \/ ~range_is_mapped(argument0, info.size) THEN Refused
  ELSE [captured |-> TRUE, versioned |-> TRUE, memory_kib |-> info.memory_kib, info |-> info]
------------------------------------------------------------------------------
Extent(address, size) == address .. address + size - 1
Mapped(address, size) == Extent(address, size) \subseteq FirstPage .. Limit - 1

(* Everything the kernel reads through a captured hand-over lies in the    *)
(* identity mapping: the structure itself and every part it announces, and *)
(* no memory map entry wraps; a part that is not announced is not there.   *)
CapturedReadable(argument0, versioned, info) ==
  LET current == bootinfo_capture(argument0, versioned, info) IN
  current.captured =>
    /\ current.memory_kib \in MinMemory .. MaxMemory
    /\ versioned =>
         /\ Mapped(argument0, info.size)
         /\ "acpi" \in info.flags => Mapped(info.acpi, RsdpSize)
         /\ "smbios" \in info.flags => Mapped(info.smbios, SmbiosSize)
         /\ "seed" \in info.flags => Mapped(info.seed.address, info.seed.size)
         /\ "command" \in info.flags => Mapped(info.command.address, info.command.size)
         /\ "map" \in info.flags => \A i \in 1 .. info.map.entries :
              /\ Mapped(info.map.address + (i - 1) * info.map.entry_size, EntrySize)
              /\ Extent(info.map.list[i].base, info.map.list[i].length) \subseteq 0 .. Top
         /\ \A part \in {"seed", "command", "map"} :
              part \notin info.flags => info[part].address = 0
         /\ "seed" \notin info.flags => info.seed.size = 0

------------------------------------------------------------------------------
(* The ACPI tables (src/src/firmware/acpi.c).  acpi_init finds the root    *)
(* table and registers every table it lists; each parser counts what it    *)
(* meets and stores what fits, and register_table takes both back when the *)
(* parser gives up half way.  A table is a record of what the checks look  *)
(* at: whether header and length lie in mapped memory (mapped), whether    *)
(* length and checksum are right (sound), the signature, the entries after *)
(* its header, each with its length, and the bytes its length gives them.  *)

CONSTANTS
  ACPI_MAX_TABLES, ACPI_MAX_CPUS, ACPI_MAX_IOAPICS, ACPI_MAX_OVERRIDES,
  ACPI_MAX_MCFG_SEGMENTS

(* The counters of acpi_status_t, and the arrays up to their stored count. *)
Cleared ==
  [registry |-> <<>>, unknown_tables |-> 0, rejected_tables |-> 0, available |-> FALSE,
   uses_xsdt |-> FALSE, local_apics |-> 0, local_x2apics |-> 0, ioapics |-> 0,
   interrupt_overrides |-> 0, nmi_sources |-> 0, local_apic_nmis |-> 0, lapic_address |-> 0,
   pm_timer_port |-> 0, reset_register |-> 0, hpet_address |-> 0, mcfg_segments |-> 0,
   srat_cpu_affinities |-> 0, srat_memory_affinities |-> 0, slit_localities |-> 0]
NothingStored == [cpus |-> <<>>, ioapics |-> <<>>, overrides |-> <<>>, mcfg_segments |-> <<>>]
Both(state, stored) == [state |-> state, stored |-> stored, ok |-> TRUE]
Failed(s) == [s EXCEPT !.ok = FALSE]
Store(list, value, max) == IF Len(list) < max THEN Append(list, value) ELSE list

(* One entry of the MADT: <<type, length, value>>.                         *)
MadtEntry(s, e) ==
  LET Is(type, length) == e[1] = type /\ e[2] >= length IN
  CASE Is(0, 8) -> [s EXCEPT !.state.local_apics = @ + 1,
                             !.stored.cpus = Store(@, e[3], ACPI_MAX_CPUS)]
    [] Is(1, 12) -> [s EXCEPT !.state.ioapics = @ + 1,
                              !.stored.ioapics = Store(@, e[3], ACPI_MAX_IOAPICS)]
    [] Is(2, 10) -> [s EXCEPT !.state.interrupt_overrides = @ + 1,
                              !.stored.overrides = Store(@, e[3], ACPI_MAX_OVERRIDES)]
    [] Is(3, 8) -> [s EXCEPT !.state.nmi_sources = @ + 1]
    [] Is(4, 6) \/ Is(10, 12) -> [s EXCEPT !.state.local_apic_nmis = @ + 1]
    [] Is(5, 12) -> [s EXCEPT !.state.lapic_address = e[3]]
    [] Is(9, 16) -> [s EXCEPT !.state.local_x2apics = @ + 1,
                              !.stored.cpus = Store(@, e[3], ACPI_MAX_CPUS)]
    [] OTHER -> s

SratEntry(s, e) ==
  LET Is(type, length) == e[1] = type /\ e[2] >= length IN
  CASE Is(0, 16) \/ Is(2, 24) -> [s EXCEPT !.state.srat_cpu_affinities = @ + 1]
    [] Is(1, 40) -> [s EXCEPT !.state.srat_memory_affinities = @ + 1]
    [] OTHER -> s

(* The loop of parse_madt and parse_srat over the bytes after the header:  *)
(* an entry that is too short or passes the end stops it, and it has to    *)
(* end at the table's length.                                              *)
WalkEntries(s, table) ==
  LET Entry(t, e) == IF table.signature = "SRAT" THEN SratEntry(t, e) ELSE MadtEntry(t, e)
      Step(walk, e) ==
        IF ~walk.s.ok \/ walk.offset + 2 > table.bytes THEN walk
        ELSE IF e[2] < 2 \/ e[2] > table.bytes - walk.offset
             THEN [walk EXCEPT !.s = Failed(@)]
        ELSE [offset |-> walk.offset + e[2], s |-> Entry(walk.s, e)]
      end == FoldLeft(Step, [offset |-> 0, s |-> s], table.entries)
  IN  IF table.bytes >= 0 /\ end.offset = table.bytes THEN end.s ELSE Failed(end.s)

(* The bytes of a table follow a fixed part of 44 bytes (48 of the SRAT,   *)
(* 36 of the FADT and the HPET table); a shorter one has fewer than none.  *)
parse_madt(s, table) ==
  WalkEntries([s EXCEPT !.state.lapic_address = IF table.bytes < 0 THEN @ ELSE table.value],
              table)
parse_srat(s, table) == WalkEntries(s, table)

parse_fadt(s, table) ==
  IF table.bytes < 44 THEN Failed(s)
  ELSE [s EXCEPT !.state.pm_timer_port = table.value,
                 !.state.reset_register = IF table.bytes >= 93 THEN table.value ELSE @]

(* The value is 0 when the timer is not in memory.                         *)
parse_hpet(s, table) ==
  IF table.bytes < 20 THEN Failed(s)
  ELSE [s EXCEPT !.state.hpet_address = table.value, !.ok = table.value # 0]

(* The value of a segment is 0 unless its base is a multiple of a mebibyte *)
(* other than 0 and its buses are in order; its entry is 16 bytes.         *)
parse_mcfg(s, table) ==
  LET Segment(t, e) ==
        IF ~t.ok THEN t
        ELSE IF e[3] = 0 THEN Failed(t)
        ELSE [t EXCEPT !.state.mcfg_segments = @ + 1,
                       !.stored.mcfg_segments = Store(@, e[3], ACPI_MAX_MCFG_SEGMENTS)]
  IN  IF table.bytes < 0 \/ table.bytes % 16 # 0 THEN Failed(s) ELSE FoldLeft(Segment, s, table.entries)

parse_slit(s, table) ==
  IF table.value \notin 1 .. 4096 \/ table.value * table.value # table.bytes THEN Failed(s)
  ELSE [s EXCEPT !.state.slit_localities = table.value]

known_signature(signature) ==
  signature \in {"APIC", "FACP", "HPET", "MCFG", "SRAT", "SLIT",
                 "DMAR", "IVRS", "SPCR", "TPM2"}
parse_known(s, table) ==
  CASE table.signature = "APIC" -> parse_madt(s, table)
    [] table.signature = "FACP" -> parse_fadt(s, table)
    [] table.signature = "HPET" -> parse_hpet(s, table)
    [] table.signature = "MCFG" -> parse_mcfg(s, table)
    [] table.signature = "SRAT" -> parse_srat(s, table)
    [] table.signature = "SLIT" -> parse_slit(s, table)
    [] OTHER -> s

Rejected(s) == [s EXCEPT !.state.rejected_tables = @ + 1]
Registered(s, table) == [s EXCEPT !.state.registry = Append(@, table)]

(* Mutation of register_table: the stored processors stay.                 *)
register_table_keeps_cpus(s, table) ==
  LET parsed == parse_known(s, table) IN
  IF ~table.mapped \/ ~table.sound \/ Len(s.state.registry) >= ACPI_MAX_TABLES THEN Rejected(s)
  ELSE IF ~known_signature(table.signature)
       THEN Registered([s EXCEPT !.state.unknown_tables = @ + 1], table)
  ELSE IF ~parsed.ok THEN Rejected([s EXCEPT !.stored.cpus = parsed.stored.cpus])
  ELSE Registered(parsed, table)

register_table(s, table) ==
  LET parsed == parse_known(s, table) IN
  IF ~table.mapped \/ ~table.sound \/ Len(s.state.registry) >= ACPI_MAX_TABLES THEN Rejected(s)
  ELSE IF ~known_signature(table.signature)
       THEN Registered([s EXCEPT !.state.unknown_tables = @ + 1], table)
  ELSE IF ~parsed.ok THEN Rejected(s)
  ELSE Registered(parsed, table)

(* A root is there when its address is not 0, usable when it is mapped and *)
(* validates, odd when its entries do not fill it.  The extended root goes *)
(* first; the other stands in when that is out of reach or damaged.        *)
Extended(rsdp) == rsdp.revision >= 2 /\ rsdp.xsdt.there
UsesXsdt(rsdp) == Extended(rsdp) /\ (rsdp.xsdt.usable \/ ~rsdp.rsdt.there)
Root(rsdp) == IF UsesXsdt(rsdp) THEN rsdp.xsdt ELSE rsdp.rsdt

acpi_init(rsdp) ==
  LET root == Root(rsdp)
      start == Both([Cleared EXCEPT !.uses_xsdt = UsesXsdt(rsdp)], NothingStored)
  IN  IF ~rsdp.sound \/ ~root.there \/ ~root.usable \/ root.odd
      THEN Both(Cleared, NothingStored)
      ELSE [FoldLeft(register_table, start, root.tables) EXCEPT !.state.available = TRUE]
------------------------------------------------------------------------------
(* A table is whole when its entries fill it exactly.                      *)
Total(entries) == FoldLeft(LAMBDA sum, e : sum + e[2], 0, entries)
Whole(table) ==
  /\ table.mapped /\ table.sound
  /\ CASE table.signature \in {"APIC", "SRAT"} ->
            Total(table.entries) = table.bytes /\ \A i \in 1 .. Len(table.entries) : table.entries[i][2] >= 2
       [] table.signature = "FACP" -> table.bytes >= 44
       [] table.signature = "HPET" -> table.bytes >= 20 /\ table.value # 0
       [] table.signature = "MCFG" ->
            table.bytes % 16 = 0 /\ \A i \in 1 .. Len(table.entries) : table.entries[i][3] # 0
       [] table.signature = "SLIT" -> table.value > 0 /\ table.value * table.value = table.bytes
       [] OTHER -> TRUE
EntriesOf(tables, signature, Wanted(_)) ==
  LET Add(all, table) == IF table.signature = signature
                         THEN all \o SelectSeq(table.entries, Wanted) ELSE all
  IN  FoldLeft(Add, <<>>, tables)
FirstValues(entries, max) ==
  [i \in 1 .. IF Len(entries) < max THEN Len(entries) ELSE max |-> entries[i][3]]

(* What the rest of the kernel sees is what the accepted tables say and    *)
(* nothing else: the accepted ones are the first whole ones, a table that  *)
(* is refused half way leaves no processor, controller, override, segment  *)
(* or count behind, and the arrays hold the first entries of each kind.  A *)
(* damaged extended root does not hide a good old one.                     *)
FirmwareExact(rsdp) ==
  LET s == acpi_init(rsdp)
      tables == Root(rsdp).tables
      whole == SelectSeq(tables, Whole)
      used == SubSeq(whole, 1, IF Len(whole) < ACPI_MAX_TABLES THEN Len(whole) ELSE ACPI_MAX_TABLES)
      cpus == EntriesOf(used, "APIC", LAMBDA e : (e[1] = 0 /\ e[2] >= 8) \/ (e[1] = 9 /\ e[2] >= 16))
      controllers == EntriesOf(used, "APIC", LAMBDA e : e[1] = 1 /\ e[2] >= 12)
      segments == EntriesOf(used, "MCFG", LAMBDA e : TRUE)
      timers == SelectSeq(used, LAMBDA t : t.signature = "HPET")
  IN  /\ ~s.state.available => s = Both(Cleared, NothingStored)
      /\ rsdp.sound /\ rsdp.rsdt.usable /\ ~rsdp.rsdt.odd /\ ~rsdp.xsdt.usable
           => s.state.available
      /\ s.state.available =>
           /\ s.state.registry = used
           /\ s.state.rejected_tables = Len(tables) - Len(used)
           /\ s.state.local_apics + s.state.local_x2apics = Len(cpus)
           /\ s.stored.cpus = FirstValues(cpus, ACPI_MAX_CPUS)
           /\ s.state.ioapics = Len(controllers)
           /\ s.stored.ioapics = FirstValues(controllers, ACPI_MAX_IOAPICS)
           /\ s.state.mcfg_segments = Len(segments)
           /\ s.stored.mcfg_segments = FirstValues(segments, ACPI_MAX_MCFG_SEGMENTS)
           /\ s.state.hpet_address = IF timers = <<>> THEN 0 ELSE Last(timers).value

------------------------------------------------------------------------------
(* The SMBIOS table (src/src/firmware/smbios.c), parsed byte by byte: each *)
(* structure is a formatted area of the length its second byte gives, then *)
(* its strings, ended by two zero bytes.  Encode is the firmware's side.   *)

CONSTANT SMBIOS_TEXT_MAX

Unread ==
  [parsed_structures |-> 0, bios_structures |-> 0, system_structures |-> 0,
   baseboard_structures |-> 0, processor_structures |-> 0, memory_device_structures |-> 0,
   populated_memory_devices |-> 0, installed_memory_mib |-> 0, maximum_memory_speed_mhz |-> 0,
   bios |-> <<>>, system |-> <<>>, baseboard |-> <<>>]

read_u16(bytes, at) == bytes[at + 1] + 256 * bytes[at + 2]

(* As much of the text as SMBIOS_TEXT_MAX holds with its end, a question   *)
(* mark (63) for what cannot be printed.                                   *)
copy_text(text) ==
  LET count == IF Len(text) >= SMBIOS_TEXT_MAX THEN SMBIOS_TEXT_MAX - 1 ELSE Len(text)
  IN  [i \in 1 .. count |-> IF text[i] \in 32 .. 126 THEN text[i] ELSE 63]

(* Mutation of copy_structure_string: strings are counted from 0.          *)
copy_structure_string_from_zero(bytes, strings, end, wanted) ==
  LET nul == {i \in strings .. end : bytes[i + 1] = 0}
      Start(i) == i = strings \/ i - 1 \in nul
      Index(i) == Cardinality({n \in nul : n < i})
      found == {i \in strings .. end - 1 : Start(i) /\ Index(i) = wanted}
  IN  IF strings \in nul \/ found = {} THEN <<>>
      ELSE LET start == CHOOSE i \in found : TRUE
               stop == CHOOSE n \in nul : n >= start /\ \A m \in nul : m >= start => n <= m
           IN  copy_text(SubSeq(bytes, start + 1, stop))

(* The wanted string of the set that starts at strings and ends at the     *)
(* zero byte end; string 0 is no string, and an empty first string ends    *)
(* the search.                                                             *)
copy_structure_string(bytes, strings, end, wanted) ==
  LET nul == {i \in strings .. end : bytes[i + 1] = 0}
      Start(i) == i = strings \/ i - 1 \in nul
      Index(i) == 1 + Cardinality({n \in nul : n < i})
      found == {i \in strings .. end - 1 : Start(i) /\ Index(i) = wanted}
  IN  IF strings \in nul \/ found = {} THEN <<>>
      ELSE LET start == CHOOSE i \in found : TRUE
               stop == CHOOSE n \in nul : n >= start /\ \A m \in nul : m >= start => n <= m
           IN  copy_text(SubSeq(bytes, start + 1, stop))

(* Sizes are in MiB, or in KiB when the top bit is set; 7FFF refers to the *)
(* extended size and FFFF says nothing.                                    *)
parse_memory_device(bytes, at, length, info) ==
  LET size == read_u16(bytes, at + 12)
      size_mib == IF size = 32767 /\ length >= 32
                  THEN read_u16(bytes, at + 28) + 65536 * (read_u16(bytes, at + 30) % 32768)
                  ELSE IF size >= 32768 THEN (size % 32768) \div 1024 ELSE size
      speed == IF length >= 23 THEN read_u16(bytes, at + 21) ELSE 0
  IN  IF length < 14 THEN [info EXCEPT !.memory_device_structures = @ + 1]
      ELSE IF size \in {0, 65535} THEN [info EXCEPT !.memory_device_structures = @ + 1]
      ELSE [info EXCEPT !.memory_device_structures = @ + 1,
                        !.populated_memory_devices = @ + 1,
                        !.installed_memory_mib = @ + size_mib,
                        !.maximum_memory_speed_mhz = IF speed > @ THEN speed ELSE @]

(* The strings a structure of type 0, 1 or 2 names, by their fields; a     *)
(* later structure of the type replaces them.                              *)
Strings(bytes, at, length, end, minimum, fields, old) ==
  IF length < minimum THEN old
  ELSE [f \in 1 .. fields |->
         copy_structure_string(bytes, at + length, end, bytes[at + 4 + f])]
Count(bytes, at, length, end, info) ==
  LET type == bytes[at + 1]
      Named(minimum, fields, old) == Strings(bytes, at, length, end, minimum, fields, old)
  IN  CASE type = 0 -> [info EXCEPT !.bios_structures = @ + 1, !.bios = Named(6, 2, @)]
        [] type = 1 -> [info EXCEPT !.system_structures = @ + 1, !.system = Named(8, 4, @)]
        [] type = 2 -> [info EXCEPT !.baseboard_structures = @ + 1, !.baseboard = Named(6, 2, @)]
        [] type = 4 -> [info EXCEPT !.processor_structures = @ + 1]
        [] type = 17 -> parse_memory_device(bytes, at, length, info)
        [] OTHER -> info

Bad == [ok |-> FALSE, info |-> Unread]
Ends(bytes, from) ==
  {i \in from .. Len(bytes) - 2 : bytes[i + 1] = 0 /\ bytes[i + 2] = 0}

(* The loop of smbios_parse_table_blob from offset at.                     *)
RECURSIVE ParseFrom(_, _, _, _)
ParseFrom(bytes, at, announced, info) ==
  LET length == bytes[at + 2]
      ends == Ends(bytes, at + length)
      end == CHOOSE i \in ends : \A j \in ends : i <= j
      counted == Count(bytes, at, length, end, [info EXCEPT !.parsed_structures = @ + 1])
      Finish(i, found_end) ==
        IF \/ ~found_end /\ announced = 0
           \/ announced # 0 /\ i.parsed_structures # announced
        THEN Bad ELSE [ok |-> TRUE, info |-> i]
  IN  IF at + 4 > Len(bytes) THEN Finish(info, FALSE)
      ELSE IF length < 4 \/ length > Len(bytes) - at \/ ends = {} THEN Bad
      ELSE IF bytes[at + 1] = 127 THEN Finish(counted, TRUE)
      ELSE IF announced # 0 /\ counted.parsed_structures > announced THEN Bad
      ELSE ParseFrom(bytes, end + 2, announced, counted)

smbios_parse_table_blob(bytes, announced) ==
  IF Len(bytes) < 6 THEN Bad ELSE ParseFrom(bytes, 0, announced, Unread)

(* The information is replaced only by a table that parses to its end.     *)
smbios_init(entry_good, bytes, announced) ==
  LET parsed == smbios_parse_table_blob(bytes, announced) IN
  IF entry_good /\ parsed.ok THEN [available |-> TRUE, info |-> parsed.info]
  ELSE [available |-> FALSE, info |-> Unread]
------------------------------------------------------------------------------
(* A structure as the firmware means it: its type, the bytes after its     *)
(* header, and its strings.                                                *)
Encode(structure) ==
  <<structure.type, 4 + Len(structure.fields), 0, 0>> \o structure.fields
    \o FoldLeft(LAMBDA all, text : all \o text \o <<0>>, <<>>, structure.strings)
    \o (IF structure.strings = <<>> THEN <<0, 0>> ELSE <<0>>)
EncodeTable(structures) ==
  FoldLeft(LAMBDA all, s : all \o Encode(s), <<>>, structures)

(* The structures up to the end mark, if there is one.                     *)
UpToEnd(structures) ==
  LET marks == {i \in 1 .. Len(structures) : structures[i].type = 127}
  IN  IF marks = {} THEN structures
      ELSE SubSeq(structures, 1, CHOOSE i \in marks : \A j \in marks : i <= j)
OfType(structures, type) == SelectSeq(structures, LAMBDA s : s.type = type)
(* The text meant by a field; strings that begin with an empty one are not *)
(* found.                                                                  *)
NameOf(structure, field) ==
  LET wanted == structure.fields[field]
  IN  IF wanted \notin 1 .. Len(structure.strings) \/ structure.strings[1] = <<>> THEN <<>>
      ELSE structure.strings[wanted]
(* A copy has its end within SMBIOS_TEXT_MAX, can be printed, and is cut   *)
(* only where it is full.                                                  *)
Shows(copy, text) ==
  /\ Len(copy) < SMBIOS_TEXT_MAX
  /\ Len(copy) = Len(text) \/ (Len(copy) < Len(text) /\ Len(copy) + 1 = SMBIOS_TEXT_MAX)
  /\ \A i \in 1 .. Len(copy) :
       /\ copy[i] >= 32 /\ copy[i] < 127
       /\ copy[i] = text[i] \/ (copy[i] = 63 /\ (text[i] < 32 \/ text[i] >= 127))

(* The table a firmware wrote is read back as it was meant: it is accepted *)
(* exactly when it is complete and the entry point announced as many       *)
(* structures as there are (or none, and there is an end mark), every      *)
(* structure is counted under its type, the last BIOS structure's strings *)
(* are found by their numbers and shown as far as they fit, and memory     *)
(* adds up over the populated devices; a table cut short leaves nothing.   *)
StructuresExact(structures, announced, cut, mebibytes) ==
  LET table == EncodeTable(structures)
      result == smbios_init(TRUE, SubSeq(table, 1, Len(table) - cut), announced)
      meant == UpToEnd(structures)
      ended == meant # <<>> /\ Last(meant).type = 127
      complete == cut = 0 \/ (ended /\ Len(meant) < Len(structures))
      info == result.info
  IN  /\ ~result.available => info = Unread
      /\ complete /\ structures # <<>> =>
           (result.available <=> IF announced = 0 THEN ended ELSE Len(meant) = announced)
      /\ result.available =>
           /\ info.parsed_structures = Len(meant)
           /\ info.bios_structures = Len(OfType(meant, 0))
           /\ info.processor_structures = Len(OfType(meant, 4))
           /\ info.memory_device_structures = Len(OfType(meant, 17))
           /\ info.installed_memory_mib = FoldLeft(LAMBDA n, s : n + mebibytes[s],
                                                   0, OfType(meant, 17))
           /\ OfType(meant, 0) # <<>> =>
                LET bios == Last(OfType(meant, 0))
                IN  \A f \in 1 .. 2 : Shows(info.bios[f], NameOf(bios, f))

=============================================================================
