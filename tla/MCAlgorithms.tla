------------------------------ MODULE MCAlgorithms ------------------------------
(***************************************************************************)
(* The pure algorithms of the kernel, each compared with a reference       *)
(* definition on every input of a small set.  A behavior picks a kind of   *)
(* input, then an input of the kind, and starts again.                     *)
(***************************************************************************)
EXTENDS Util, TLC

VARIABLE case

Packet == INSTANCE Packets
Given == INSTANCE Handover WITH
  W <- 4, FirstPage <- 2, Limit <- 12, InfoSize <- 2, EntrySize <- 2, MaxInfoSize <- 4,
  MaxEntries <- 2, RsdpSize <- 2, SmbiosSize <- 1, MaxSeed <- 3, MaxCommandLine <- 4,
  MinMemory <- 1, MaxMemory <- 9,
  ACPI_MAX_TABLES <- 3, ACPI_MAX_CPUS <- 2, ACPI_MAX_IOAPICS <- 1, ACPI_MAX_OVERRIDES <- 1,
  ACPI_MAX_MCFG_SEGMENTS <- 1, SMBIOS_TEXT_MAX <- 3
Disk == INSTANCE Partition WITH
  SectorBytes <- 4, EntryBytes <- 2, MaxEntries <- 3, CrcBits <- 8, Polynomial <- 171
Loader == INSTANCE Elf WITH
  W <- 16, H <- 8, MaxAlignment <- 4, SymbolLimit <- 2, DescriptorBytes <- 2, PointerBytes <- 2
Clock == INSTANCE Clocks WITH
  Oscillator <- 1193182, LowestRate <- 19, W <- 16, NarrowBits <- 8, Million <- 10, MaxPeriod <- 1000
Bus == INSTANCE Pci WITH Buses <- 2, Slots <- 2, Functions <- 2
Screen == INSTANCE Framebuffer WITH PageBytes <- 8, MaxBytes <- 40, MinWidth <- 2, MinHeight <- 2

ASSUME AlgorithmConstants == WordConstants /\ Clock!ClockConstants

------------------------------------------------------------------------------
Edges == (0 .. 9) \cup {13, 127, 128, 255}
Chars == {32, 47, 92, 48, 54, 65, 97}
Digits == {48, 50, 53, 54, 120}
Payloads == {<<>>, <<0>>, <<255>>, <<255, 255>>, <<1, 2, 3>>, <<255, 254, 0, 1>>}
------------------------------------------------------------------------------
(* Hand-overs in which one part is announced, at any address and size.     *)
Plain ==
  [header_good |-> TRUE, size |-> 2, memory_kib |-> 1, flags |-> {},
   map |-> [address |-> 0, entries |-> 0, entry_size |-> 0, list |-> <<>>],
   acpi |-> 0, smbios |-> 0,
   framebuffer |-> [address |-> 0, width |-> 0, height |-> 0, pitch |-> 0, bits_per_pixel |-> 0],
   seed |-> [address |-> 0, size |-> 0], command |-> [address |-> 0, size |-> 0]]
Entries(base) == <<[base |-> 0, length |-> 3, type |-> 1], [base |-> base, length |-> 3, type |-> 6]>>
HandOvers ==
  {[Plain EXCEPT !.seed = [address |-> a, size |-> s], !.flags = f] :
     a \in 0 .. 15, s \in 0 .. 15, f \in {{}, {"seed"}}}
  \cup {[Plain EXCEPT !.acpi = a, !.smbios = s, !.flags = f] :
     a \in 0 .. 15, s \in 0 .. 15, f \in SUBSET {"acpi", "smbios"}}
  \cup {[Plain EXCEPT !.flags = {"map"},
                      !.map = [address |-> a, entries |-> 2, entry_size |-> s, list |-> Entries(b)]] :
     a \in 0 .. 15, s \in 0 .. 5, b \in {4, 12, 13, 14}}
------------------------------------------------------------------------------
Occupied(entries) ==
  Given!Total([i \in DOMAIN entries |-> <<0, IF entries[i][2] < 2 THEN 2 ELSE entries[i][2]>>])
Table(signature, entries, bytes, value) ==
  [signature |-> signature, mapped |-> TRUE, sound |-> TRUE, entries |-> entries,
   bytes |-> bytes, value |-> value]
Segment(base) == <<0, 16, base>>
AcpiTables ==
  {Table("APIC", e, Occupied(e) + more, 5) :
     e \in SeqOf({<<0, 8, 1>>, <<9, 16, 2>>, <<1, 12, 3>>, <<3, 1, 7>>}, 2), more \in {-1, 0, 1}}
  \cup {[Table("APIC", <<<<0, 8, 1>>>>, 8, 5) EXCEPT !.mapped = FALSE],
        Table("APIC", <<<<2, 10, 4>>, <<5, 12, 6>>, <<4, 6, 0>>, <<10, 12, 0>>>>, 40, 5),
        Table("SRAT", <<<<0, 16, 0>>, <<1, 40, 0>>>>, 56, 0), Table("FACP", <<>>, 43, 1),
        Table("HPET", <<>>, 20, 7), Table("HPET", <<>>, 20, 0), Table("DSDT", <<>>, 0, 0),
        Table("MCFG", <<Segment(1), Segment(0)>>, 32, 0),
        Table("MCFG", <<Segment(1), Segment(2)>>, 32, 0),
        Table("SLIT", <<>>, 4, 2), Table("SLIT", <<>>, 5, 2)}
RootTable(tables) == [there |-> TRUE, usable |-> TRUE, odd |-> FALSE, tables |-> tables]
Rsdps(a, b) ==
  {[sound |-> s, revision |-> r, xsdt |-> [RootTable(<<a, b>>) EXCEPT !.usable = u],
    rsdt |-> [RootTable(<<b, a, a, b, a>>) EXCEPT !.odd = o]] :
     s \in {TRUE}, r \in {0, 2}, u \in BOOLEAN, o \in {FALSE}}
  \cup {[sound |-> s, revision |-> 2, xsdt |-> [RootTable(<<a, b>>) EXCEPT !.odd = TRUE],
         rsdt |-> RootTable(<<b>>)] : s \in BOOLEAN}
------------------------------------------------------------------------------
Structure(type, fields, strings) == [type |-> type, fields |-> fields, strings |-> strings]
Bios(fields) == Structure(0, fields, <<<<65>>, <<66, 67>>>>)
Device(low, high) == Structure(17, <<0, 0, 0, 0, 0, 0, 0, 0, low, high>>, <<>>)
Extended ==
  Structure(17, <<0, 0, 0, 0, 0, 0, 0, 0, 255, 127, 0, 0, 0, 0, 0, 0, 0, 100, 0, 0, 0, 0, 0, 0, 1, 0, 1, 0>>,
            <<>>)
DeviceSizes ==      \* in MiB; 140 * 256 + 1 has the top bit and 3073 KiB
  {<<Structure(17, <<0>>, <<>>), 0>>, <<Device(255, 255), 0>>, <<Device(0, 2), 512>>,
   <<Device(1, 140), 3>>, <<Extended, 65537>>}
Mebibytes == [d \in {p[1] : p \in DeviceSizes} |-> (CHOOSE p \in DeviceSizes : p[1] = d)[2]]
Structures ==
  DOMAIN Mebibytes \cup {Bios(<<1, 2>>), Bios(<<2, 0>>), Bios(<<3, 1>>),
                         Structure(0, <<2, 1>>, <<<<126, 127>>, <<31, 32, 65>>>>),
                         Structure(0, <<1, 2>>, <<<<>>, <<65>>>>),
                         Structure(4, <<>>, <<<<70>>>>), Structure(127, <<>>, <<>>)}
------------------------------------------------------------------------------
Headers ==
  [first_usable : 3 .. 5, last_usable : {4, 5}, backup : {5, 6, 7}, entry_lba : {1, 2, 3, 7},
   entry_count : 0 .. 4, entry_size : 1 .. 5, readable : {TRUE}, header_good : {TRUE},
   header_crc_good : {TRUE}]
FaultyHeaders ==
  [first_usable : {5}, last_usable : {5}, backup : {6}, entry_lba : {2}, entry_count : {2},
   entry_size : {2}, readable : BOOLEAN, header_good : BOOLEAN, header_crc_good : BOOLEAN]
DiskOf(bytes) == [lba \in 0 .. 6 |-> IF lba = 3 THEN bytes ELSE <<1, 5, 0, 0>>]
(* The checksum the partitioner wrote, or one that is off by one.          *)
Checked(h, disk, right) ==
  LET bytes == disk[h.entry_lba % 7] \o disk[(h.entry_lba + 1) % 7] \o disk[(h.entry_lba + 2) % 7]
      n == h.entry_count * h.entry_size
      crc == IF n <= Len(bytes) /\ disk[3] # Disk!Unreadable
             THEN Disk!crc32(SubSeq(bytes, 1, n)) ELSE 0
  IN  [f \in DOMAIN h \cup {"entries_crc"} |->
        IF f = "entries_crc" THEN IF right THEN crc ELSE (crc + 1) % 256 ELSE h[f]]
Mbrs ==
  [marked : BOOLEAN, readable : BOOLEAN,
   entries : {<<<<type, 1>>, <<0, 0>>, <<type, 0>>, <<0, 1>>>> : type \in {131, 238}}]
Sound(mbr) == mbr.marked /\ mbr.readable
(* What the caller's record may hold: nothing, or the table of another     *)
(* disk.                                                                   *)
Records ==
  {Disk!NoTable,
   [type |-> "gpt", partition_count |-> 3, protective_mbr |-> TRUE, gpt_header_valid |-> TRUE,
    gpt_entries_valid |-> TRUE, first_usable_lba |-> 4, last_usable_lba |-> 5]}
------------------------------------------------------------------------------
Section(type, alloc, alignment, offset, size) ==
  [type |-> type, alloc |-> alloc, alignment |-> alignment, offset |-> offset, size |-> size,
   linked |-> TRUE]
Symtab == Section("symtab", FALSE, 1, 0, 1)
Sections ==
  {Section("nobits", TRUE, a, 0, z) : a \in {0, 2, 3, 4, 16}, z \in {0, 1, 3, 65530, 65533}}
  \cup {Section("bits", TRUE, a, 1, z) : a \in {0, 4, 8}, z \in {0, 3, 8, 9}}
  \cup {Section("bits", FALSE, 1, 0, 3), Symtab, [Symtab EXCEPT !.linked = FALSE]}
Symbol(section, value, name) == [section |-> section, value |-> value, name |-> name]
Symbols ==
  <<Symbol(0, 0, "klog"), Symbol(1, 1, "mvh_module_descriptor"), Symbol(Loader!SHN_ABS, 9, "a"),
    Symbol(2, 2, "b")>>
SymbolTables ==
  {Symbols, Append(Symbols, Symbol(2, 0, Loader!Outside)), <<Symbol(2, 0, Loader!Outside)>> \o Symbols,
   [Symbols EXCEPT ![1] = Symbol(0, 0, Loader!Unended)]}
RelocationTypes == {"none", "64", "pc32", "plt32", "32", "32s", "other"}
Descriptor(address, name, version, dependencies, table, init) ==
  [address |-> address, name |-> name, version |-> version, dependencies |-> dependencies,
   table |-> table, init |-> init, exit |-> 0]
Image(size, symbols, relocation) ==
  [sections |-> <<Section("null", FALSE, 0, 0, 0), Section("bits", TRUE, 4, 0, 4),
                  Section("nobits", TRUE, 4, 0, size), Symtab, Section("bits", TRUE, 4, 0, 4)>>,
   file_size |-> 8, symbols |-> symbols, relocations |-> <<relocation>>, contents |-> 0,
   d |-> Descriptor(0, 40, 41, <<>>, 40, 40)]
------------------------------------------------------------------------------
Times ==
  [second : {9, 59}, minute : {30, 59}, hour : 0 .. 23, day : {1, 31}, month : {1, 12},
   year : {2000, 2098}]
Bars == {[io |-> b[1], wide |-> b[2], base |-> 0] : b \in {<<TRUE, FALSE>>, <<FALSE, FALSE>>, <<FALSE, TRUE>>}}
Function(id, type, bars) ==
  [there |-> TRUE, id |-> id, type |-> type, many |-> FALSE, bars |-> bars]
NumberedBars == {[b \in 1 .. 6 |-> [bars[b] EXCEPT !.base = b]] : bars \in [1 .. 6 -> Bars]}
(* Devices with one function and with two, and two buses of two slots.     *)
One(type, bars) == 0 :> Function(1, type, bars)
Two(type, bars) == (0 :> Function(2, 2, <<>>)) @@ (1 :> Function(3, type, bars))
Installed(a, b, c, d) ==
  (<<0, 0>> :> a) @@ (<<0, 1>> :> b) @@ (<<1, 0>> :> c) @@ (<<1, 1>> :> d)
PlainBars == [b \in 1 .. 6 |-> [io |-> FALSE, wide |-> FALSE, base |-> b]]
Devices == {<<>>, One(0, PlainBars), Two(1, PlainBars)}
NoSegment == [there |-> FALSE, group |-> 0, start_bus |-> 0, end_bus |-> 0]
Segments ==
  {NoSegment} \cup [there : {TRUE}, group : {0, 1}, start_bus : {0, 1}, end_bus : {0, 1}]
Modes ==
  [address : {0, 5, 8}, width : {2, 3}, height : {1, 2}, pitch : {6, 9, 12}, bytes_per_pixel : {2, 3, 4},
   mappable : {2, 5}]
Firmwares ==
  [described : BOOLEAN, aligned : BOOLEAN, mapped : BOOLEAN, msr : BOOLEAN, enabled : BOOLEAN,
   pins : {1, 3}, interrupt_base : {0, 2},
   overrides : SeqOf({<<0, 0, 2, TRUE, FALSE>>, <<0, 1, 1, FALSE, FALSE>>, <<0, 0, 4, FALSE, TRUE>>}, 2)]
TablesBefore(pins) ==
  {[pin \in 0 .. pins - 1 |-> [vector |-> 0, low |-> FALSE, level |-> FALSE, masked |-> m]] : m \in BOOLEAN}
------------------------------------------------------------------------------
(* The kind is picked with the first part of the input, to share the work. *)
Starts(kind) ==
  CASE kind = "word" -> Word
    [] kind = "text" -> SeqOf(Chars, 2)
    [] kind = "number" -> SeqOf(Digits, 4)
    [] kind = "packet" -> Payloads
    [] kind = "boot" -> 0 .. 15
    [] kind = "acpi" -> AcpiTables
    [] kind = "smbios" -> SeqOf(Structures, 2) \ {<<>>}
    [] kind = "crc" -> SeqOf({0, 1, 128, 255}, 3)
    [] kind = "disk" -> {Disk!Unreadable, <<0, 0, 1, 0>>, <<1, 2, 3, 4>>}
    [] kind = "range" -> {0, 1, 7, 16, 32767, 65528, 65535}
    [] kind = "layout" -> Sections
    [] kind = "relocation" -> RelocationTypes
    [] kind = "image" -> RelocationTypes
    [] kind = "exports" -> {"a", "b", "c"} \X {0, 1, 2}
    [] kind = "descriptor" -> 9 .. 14
    [] kind = "timer" -> {0, 1, 18, 19, 20, 100, 1000, 65536, 700000, 1193181, 1193182, 1193183}
    [] kind = "duration" -> {0, 1, 2, 9, 10, 11, 50, 60, 64, 65, 66, 1000}
    [] kind = "hpet" -> {0, 1, 9, 10, 11, 99, 250, 255, 256, 257, 511, 650, 655, 656, 6553, 65535}
    [] kind = "time" -> 0 .. 23
    [] kind = "pci" -> 0 .. 3
    [] kind = "address" -> {0, 1, 2}
    [] kind = "pixel" -> Modes
    [] kind = "line" -> -3 .. 3
    [] kind = "apic" -> Firmwares
Kinds ==
  {"word", "text", "number", "packet", "boot", "acpi", "smbios", "crc", "disk", "range", "layout",
   "relocation", "image", "exports", "descriptor", "timer", "duration", "hpet", "time", "pci", "address",
   "pixel", "line", "apic"}

Idle == [kind |-> "none"]
Init == case = Idle
Start ==
  /\ case = Idle
  /\ \E kind \in Kinds : \E a \in Starts(kind) : case' = [kind |-> kind, first |-> a]

(* The inputs of a kind that begin with a.                                 *)
Inputs(kind, a) ==
  CASE kind = "word" -> {<<b>> : b \in Edges}
    [] kind = "text" -> {<<a \o x, y>> : x \in {<<>>} \cup (SeqOf(Chars, 1) \ {<<>>}), y \in SeqOf(Chars, 2)}
    [] kind = "packet" -> {0, 1, 255, 256, 65535} \X {1, 4321, 65535} \X {0, 1, 2, 255}
    [] kind = "boot" -> HandOvers \X BOOLEAN
    [] kind = "acpi" -> {<<rsdp>> : rsdp \in UNION {Rsdps(a, b) : b \in AcpiTables}}
    [] kind = "smbios" -> {<<a \o x, n, cut>> : x \in SeqOf(Structures, 1), n \in 0 .. 3, cut \in 0 .. 2}
    [] kind = "crc" -> {<<b>> : b \in SeqOf({0, 1, 128, 255}, 3)}
    [] kind = "disk" ->
         {<<DiskOf(a), mbr, Checked(h, DiskOf(a), right), Disk!NoTable>> :
            h \in Headers, mbr \in {m \in Mbrs : Sound(m)}, right \in BOOLEAN}
         \cup {<<DiskOf(a), mbr, Checked(h, DiskOf(a), TRUE), record>> :
                 h \in FaultyHeaders, mbr \in Mbrs, record \in Records}
    [] kind = "range" -> Starts("range") \X Starts("range") \X Starts("range")
    [] kind = "layout" -> {<<<<a, Symtab, b>>>> : b \in Sections}
    [] kind = "relocation" ->
         {<<[type |-> a, offset |-> o, addend |-> d], z, at, value>> :
            o \in {0, 1, 3, 4, 255}, d \in {-2, 0, 3}, z \in {0, 3, 4}, at \in {16, 128, 65520},
            value \in {0, 1, 9, 127, 128, 240, 255, 256, 65000, 65407, 65408, 65535}}
    [] kind = "image" ->
         {<<Image(z, s, [type |-> a, target |-> t, symbol |-> y, offset |-> o, addend |-> d]), e>> :
            z \in {0, 3, 65529}, s \in SymbolTables, t \in 0 .. 5, y \in 0 .. 4, o \in 0 .. 4,
            d \in {-2, 0}, e \in {<<>>, <<<<"klog", 20>>>>}}
    [] kind = "exports" -> {<<<<a>> \o rest>> : rest \in [1 .. 3 -> {"a", "b", "c"} \X {0, 1, 2}]}
    [] kind = "descriptor" ->
         {<<Descriptor(a, n, v, IF t = 9 THEN <<>> ELSE <<n>>, t, i), memory>> :
            n, v \in 9 .. 14, t \in {9, 10, 12, 13}, i \in {0, 9, 13, 14},
            memory \in {<<1, 1, 1, 1>>, <<0, 1, 1, 1>>, <<1, 0, 1, 1>>, <<1, 1, 1, 0>>}}
    [] kind = "duration" -> {0, 100, 65500, 65535} \X {1, 18, 19, 99, 100, 1000, 1024}
    [] kind = "hpet" -> Starts("hpet") \X BOOLEAN \X {0, 1, 7, 10, 69, 999, 1000, 9000}
    [] kind = "time" -> {t \in Times : t.hour = a} \X (0 .. 6) \X BOOLEAN \X BOOLEAN
    [] kind = "pci" ->
         {<<Installed(One(a % 2, bars), <<>>, <<>>, Two(a % 2, bars)), NoSegment, TRUE, 9>> :
            bars \in NumberedBars}
         \cup {<<Installed(x, y, z, IF a > 1 THEN Two(0, PlainBars) ELSE <<>>), s, m, capacity>> :
                 x, y, z \in Devices, s \in Segments, m \in BOOLEAN, capacity \in {0, 1, 2, 9}}
    [] kind = "address" ->
         {<<[there |-> TRUE, group |-> g, start_bus |-> a, end_bus |-> 2], m, x, y>> :
            g \in {0, 1}, m \in BOOLEAN, x, y \in (0 .. 3) \X (0 .. 1) \X (0 .. 1) \X {0, 1, 63}}
    [] kind = "pixel" -> (-1 .. 3) \X (-1 .. 2) \X (-1 .. 3) \X (-1 .. 2)
    [] kind = "line" -> (-3 .. 3) \X {-4, -1, 0, 2, 5} \X (-4 .. 5)
    [] kind = "apic" -> {<<t>> : t \in TablesBefore(a.pins)}
    [] OTHER -> {<<>>}
Pick ==
  /\ "first" \in DOMAIN case /\ "input" \notin DOMAIN case
  /\ \E i \in Inputs(case.kind, case.first) :
       case' = [kind |-> case.kind, first |-> case.first, input |-> i]
Again == "input" \in DOMAIN case /\ case' = Idle

Next == Start \/ Pick \/ Again
Spec == Init /\ [][Next]_case
------------------------------------------------------------------------------
Is(kind) == case.kind = kind /\ "input" \in DOMAIN case

(* The integer helpers of util.c agree with arithmetic on unbounded        *)
(* numbers: rounding and alignment, overflow checks, bits.                 *)
WordsExact ==
  Is("word") => /\ RoundingExact(case.first, case.input[1])
                /\ ArithmeticExact(case.first, case.input[1])
                /\ BitsExact(case.first, case.input[1])

(* The memory and text helpers of util.c and the shell's own parsing agree *)
(* with definitions over sequences, numbers up to the largest included.    *)
TextsExact ==
  /\ Is("text") => /\ MovesExact(case.input[1])
                   /\ SearchExact(case.input[1], case.input[2])
                   /\ WordsFound(case.input[1], case.input[2])
  /\ Is("number") => NumbersExact(case.first)

(* A datagram or echo built by net.c is parsed back to what was sent, and  *)
(* damage to an IPv4 header or an ICMP message is noticed (the UDP parser  *)
(* compares no checksum: what it accepts is only known to be well formed). *)
PacketsExact ==
  Is("packet") =>
    /\ Packet!DeliversExact(case.first, case.input[1], case.input[2], case.input[3])
    /\ Packet!RepliesExact(case.first, case.input[1], case.input[3])

(* What firmware and boot loader hand over is believed only when it is     *)
(* whole: see CapturedReadable, FirmwareExact and StructuresExact.         *)
HandoverExact ==
  /\ Is("boot") => Given!CapturedReadable(case.first, case.input[2], case.input[1])
  /\ Is("acpi") => Given!FirmwareExact(case.input[1])
  /\ Is("smbios") => Given!StructuresExact(case.input[1], case.input[2], case.input[3], Mebibytes)

(* What is read from a disk or a module's image is used only within its    *)
(* own bounds, and means what its author meant: see Partition and Elf.     *)
ImagesExact ==
  /\ Is("crc") => Disk!ChecksumExact(case.first, case.input[1])
  /\ Is("disk") => Disk!PartitionsExact(case.input[1], 7, case.input[2], case.input[3], case.input[4])
  /\ Is("range") => Loader!RangesExact(case.first, case.input[1], case.input[2], case.input[3])
  /\ Is("layout") => Loader!LayoutExact(case.input[1], 10)
  /\ Is("relocation") =>
       Loader!RelocationExact(case.input[1], case.input[2], case.input[3], case.input[4])
  /\ Is("image") => Loader!ImageExact(case.input[1], case.input[2], 40)
  /\ Is("exports") => Loader!ExportsExact(case.input[1])
  /\ Is("descriptor") => Loader!DescriptorReadable(case.input[1], 10, case.input[2])

(* Bounds-checked module loading: every loaded section lies in the         *)
(* allocation made for the module.                                         *)
SectionsInside == Is("layout") => Loader!SectionsInside(case.input[1], 10)

(* Timers, clock, PCI scan, drawing and interrupt routing compute what     *)
(* the devices mean: see Clocks, Pci, Framebuffer.                         *)
HardwareExact ==
  /\ Is("timer") => Clock!TimerExact(case.first)
  /\ Is("duration") => Clock!SleepExact(case.input[1], case.first, case.input[2])
  /\ Is("hpet") =>
       Clock!NanosecondsExact(case.first, case.input[1], case.input[2], case.input[3])
  /\ Is("time") =>
       Clock!TimeExact(case.input[1], case.input[2], case.input[3], case.input[4])
  /\ Is("pci") =>
       Bus!ScanExact(case.input[1], case.input[2], case.input[3], case.input[4])
  /\ Is("address") =>
       Bus!AddressesApart(case.input[1], case.input[2], case.input[3], case.input[4])
  /\ Is("pixel") =>
       Screen!PixelsApart(case.first, case.input[1], case.input[2], case.input[3], case.input[4])
  /\ Is("line") => /\ Screen!LineExact(case.first, case.input[1], case.input[2], case.input[3])
                   /\ Screen!OutlineExact(case.input[1], case.input[2], case.first)
  /\ Is("apic") => Clock!TimerReachesOnce(case.first, case.input[1])

=============================================================================
