----------------------------------- MODULE Elf -----------------------------------
(***************************************************************************)
(* Loading a relocatable module: the layout, relocation and checks of      *)
(* module_elf_load, and the symbol table of module_export_symbol           *)
(* (src/src/core/module.c).  Words have W bits where the code has 64 and   *)
(* half words H where it has 32; sections are numbered from 0.             *)
(***************************************************************************)
EXTENDS Integers, Sequences, SequencesExt

CONSTANTS W, H, MaxAlignment, SymbolLimit, DescriptorBytes, PointerBytes

U == INSTANCE Util
Wrap(x) == x % 2 ^ W
ToSigned(x) == IF Wrap(x) >= 2 ^ (W - 1) THEN Wrap(x) - 2 ^ W ELSE Wrap(x)

range_valid(offset, length, total) == offset <= total /\ length <= total - offset

(* Mutation of allocation_range_valid: the end is computed and may wrap.   *)
allocation_range_valid_wrapping(pointer, length, base, size) ==
  pointer >= base /\ Wrap(pointer + length) <= Wrap(base + size)

allocation_range_valid(pointer, length, base, size) ==
  pointer >= base /\ length <= size /\ pointer - base <= size - length
------------------------------------------------------------------------------
(* An export is <<name, address>>; a name is exported once.                *)
module_export_symbol(exports, export) ==
  IF \/ export[2] = 0 \/ Len(exports) = SymbolLimit
     \/ \E i \in 1 .. Len(exports) : exports[i][1] = export[1]
  THEN exports ELSE Append(exports, export)
module_resolve_symbol(exports, name) ==
  LET found == {i \in 1 .. Len(exports) : exports[i][1] = name}
  IN  IF found = {} THEN 0 ELSE exports[CHOOSE i \in found : \A j \in found : i <= j][2]
------------------------------------------------------------------------------
SHN_UNDEF == 0
SHN_ABS == 65521
Failed(layout) == [layout EXCEPT !.ok = FALSE]

(* One section of the first loop: [type, alloc, alignment, offset, size];  *)
(* a symbol table is linked when its entry size and string table are good. *)
(* Rounding up past the largest word gives 0.  The test that is to refuse  *)
(* it reads offsets[index], which is still 0, and refuses nothing: the     *)
(* layout starts again at 0, which restart records.                        *)
PlaceSection(layout, s, file_size) ==
  LET alignment == IF s.alignment = 0 THEN 1 ELSE s.alignment
      start == U!mvh_align_up(layout.allocation_size, alignment)
      sum == U!mvh_checked_add(start, s.size)
      index == Len(layout.offsets) + 1
      placed == IF ~s.alloc THEN [layout EXCEPT !.offsets = Append(@, 0)]
                ELSE IF sum = U!None THEN Failed(layout)
                ELSE [layout EXCEPT !.offsets = Append(@, start), !.allocation_size = sum,
                                    !.restart = IF start < layout.allocation_size THEN index ELSE @]
  IN  IF ~layout.ok \/ ~U!mvh_is_power_of_two(alignment) \/ alignment > MaxAlignment
           \/ (s.type # "nobits" /\ ~range_valid(s.offset, s.size, file_size))
      THEN Failed(layout)
      ELSE IF ~placed.ok \/ s.type # "symtab" THEN placed
      ELSE IF layout.symtabs # 0 THEN Failed(layout)
      ELSE [placed EXCEPT !.symtabs = @ + 1, !.linked = s.linked]

Layout(sections, file_size) ==
  LET all == FoldLeft(LAMBDA layout, s : PlaceSection(layout, s, file_size),
                      [ok |-> TRUE, offsets |-> <<>>, allocation_size |-> 0, restart |-> 1,
                       symtabs |-> 0, linked |-> FALSE],
                      sections)
  IN  IF all.allocation_size = 0 \/ ~all.linked THEN Failed(all) ELSE all

(* A symbol is [section, value, name]; section_addresses is 0 for a        *)
(* section that is not loaded.  A name may begin past the string table or  *)
(* run to its end without a zero.                                          *)
Outside == "outside"
Unended == "unended"
resolve_elf_symbol(symbol, addresses, exports) ==
  CASE symbol.section = SHN_ABS -> symbol.value
    [] symbol.section = SHN_UNDEF -> IF symbol.name \in {Outside, Unended} THEN 0
                                     ELSE module_resolve_symbol(exports, symbol.name)
    [] OTHER -> IF symbol.section >= Len(addresses) \/ addresses[symbol.section + 1] = 0 THEN 0
                ELSE Wrap(addresses[symbol.section + 1] + symbol.value)

NoWrite == [ok |-> TRUE, place |-> 0, width |-> 0, bits |-> 0]
BadWrite == [NoWrite EXCEPT !.ok = FALSE]
Write(place, width, value) ==
  [ok |-> TRUE, place |-> place, width |-> width, bits |-> value % 2 ^ (8 * width)]

(* Mutation of Relocate: the sign-extended form is checked like the        *)
(* zero-extended one.                                                      *)
Relocate_unsigned_32S(r, section_size, address, symbol_value) ==
  LET width == IF r.type = "64" THEN W \div 8 ELSE H \div 8
      place == Wrap(address + r.offset)
      value == ToSigned(symbol_value + r.addend)
      relative == ToSigned(value - place)
      Signed(x) == x \in -(2 ^ (H - 1)) .. 2 ^ (H - 1) - 1
      If(ok, x) == IF ok THEN Write(place, width, x) ELSE BadWrite
  IN  IF r.offset > section_size \/ section_size - r.offset < width THEN BadWrite
      ELSE CASE r.type = "none" -> NoWrite
             [] r.type = "64" -> Write(place, width, value)
             [] r.type \in {"pc32", "plt32"} -> If(Signed(relative), relative)
             [] r.type \in {"32", "32s"} -> If(value \in 0 .. 2 ^ H - 1, value)
             [] OTHER -> BadWrite

(* One relocation r = [type, offset, addend] of a section at address.      *)
Relocate(r, section_size, address, symbol_value) ==
  LET width == IF r.type = "64" THEN W \div 8 ELSE H \div 8
      place == Wrap(address + r.offset)
      value == ToSigned(symbol_value + r.addend)
      relative == ToSigned(value - place)
      Signed(x) == x \in -(2 ^ (H - 1)) .. 2 ^ (H - 1) - 1
      If(ok, x) == IF ok THEN Write(place, width, x) ELSE BadWrite
  IN  IF r.offset > section_size \/ section_size - r.offset < width THEN BadWrite
      ELSE CASE r.type = "none" -> NoWrite
             [] r.type = "64" -> Write(place, width, value)
             [] r.type \in {"pc32", "plt32"} -> If(Signed(relative), relative)
             [] r.type = "32" -> If(value \in 0 .. 2 ^ H - 1, value)
             [] r.type = "32s" -> If(Signed(value), value)
             [] OTHER -> BadWrite

(* The descriptor and everything it points to lies in the allocation, and  *)
(* its strings end there (memory is what was loaded at base).              *)
StringAccepted(pointer, base, memory) ==
  /\ allocation_range_valid(pointer, 1, base, Len(memory))
  /\ \E i \in pointer - base + 1 .. Len(memory) : memory[i] = 0
DescriptorAccepted(d, base, memory) ==
  /\ allocation_range_valid(d.address, DescriptorBytes, base, Len(memory))
  /\ StringAccepted(d.name, base, memory) /\ StringAccepted(d.version, base, memory)
  /\ d.dependencies # <<>> =>
       allocation_range_valid(d.table, Len(d.dependencies) * PointerBytes, base, Len(memory))
  /\ \A i \in 1 .. Len(d.dependencies) : StringAccepted(d.dependencies[i], base, memory)
  /\ \A f \in {d.init, d.exit} : f # 0 => allocation_range_valid(f, 1, base, Len(memory))

(* The second and third loop: image has sections, file_size, symbols,      *)
(* relocations (with the section they apply to and the symbol they name)   *)
(* and the contents its descriptor d is read from.                         *)
Addresses(image, layout, base) ==
  [i \in 1 .. Len(image.sections) |->
    IF image.sections[i].alloc THEN base + layout.offsets[i] ELSE 0]
ApplyRelocation(done, r, image, addresses, exports) ==
  LET symbol == image.symbols[r.symbol + 1]
      value == resolve_elf_symbol(symbol, addresses, exports)
      write == Relocate(r, image.sections[r.target + 1].size, addresses[r.target + 1], value)
  IN  IF ~done.ok THEN done
      ELSE IF r.target >= Len(addresses) THEN Failed(done)
      ELSE IF addresses[r.target + 1] = 0 \/ r.symbol >= Len(image.symbols) THEN Failed(done)
      ELSE IF value = 0 /\ symbol.section = SHN_UNDEF THEN Failed(done)
      ELSE IF ~write.ok THEN Failed(done)
      ELSE [done EXCEPT !.writes = Append(@, write)]

module_elf_load(image, exports, base) ==
  LET layout == Layout(image.sections, image.file_size)
      addresses == Addresses(image, layout, base)
      done == FoldLeft(LAMBDA d, r : ApplyRelocation(d, r, image, addresses, exports),
                       [ok |-> TRUE, writes |-> <<>>], image.relocations)
      stops == {i \in 1 .. Len(image.symbols) :
                  image.symbols[i].name \in {"mvh_module_descriptor", Outside}}
      symbol == image.symbols[CHOOSE i \in stops : \A j \in stops : i <= j]
      descriptor == resolve_elf_symbol(symbol, addresses, exports)
      Refuse == [ok |-> FALSE, size |-> 0, writes |-> <<>>, descriptor |-> 0]
  IN  IF ~layout.ok THEN Refuse
      ELSE IF ~done.ok \/ stops = {} THEN Refuse
      ELSE IF symbol.name = Outside THEN Refuse
      ELSE IF ~DescriptorAccepted([image.d EXCEPT !.address = descriptor], base,
                                  [i \in 1 .. layout.allocation_size |-> image.contents])
      THEN Refuse
      ELSE [ok |-> TRUE, size |-> layout.allocation_size, writes |-> done.writes,
            descriptor |-> descriptor]
------------------------------------------------------------------------------
Bytes(start, length) == start .. start + length - 1

(* A range that passes lies inside, whatever the sums do to the word.      *)
RangesExact(pointer, length, base, size) ==
  base + size <= 2 ^ W =>
    (allocation_range_valid(pointer, length, base, size)
       <=> pointer >= base /\ pointer + length <= base + size)

Loaded(sections, first) == {i \in first .. Len(sections) : sections[i].alloc}

(* Loaded sections have their alignment, and those placed since the layout *)
(* last started again lie in the allocation and do not meet; it starts     *)
(* again only where rounding up leaves the word.                           *)
LayoutExact(sections, file_size) ==
  LET layout == Layout(sections, file_size)
      since == Loaded(sections, layout.restart)
      Of(i) == Bytes(layout.offsets[i], sections[i].size)
      Before(i) == layout.offsets[i] + sections[i].size
  IN  layout.ok =>
        /\ \A i \in Loaded(sections, 1) :
             sections[i].alignment # 0 => layout.offsets[i] % sections[i].alignment = 0
        /\ \A i \in since :
             /\ Of(i) \subseteq Bytes(0, layout.allocation_size)
             /\ \A j \in since : i # j => Of(i) \cap Of(j) = {}
        /\ layout.restart > 1 =>
             \E i \in Loaded(sections, 1) \ since :
               Before(i) > 2 ^ W - sections[layout.restart].alignment

(* Bounds-checked loading: every loaded section lies in the allocation.    *)
SectionsInside(sections, file_size) ==
  LET layout == Layout(sections, file_size) IN
  layout.ok => \A i \in Loaded(sections, 1) :
    layout.offsets[i] + sections[i].size <= layout.allocation_size

(* A relocation that is applied stays inside its section, and what the     *)
(* processor makes of the bits it leaves is the symbol plus the addend:    *)
(* zero- or sign-extended, or counted from the place.                      *)
RelocationExact(r, section_size, address, symbol_value) ==
  LET write == Relocate(r, section_size, address, symbol_value)
      SignExtended == IF write.bits >= 2 ^ (H - 1) THEN write.bits - 2 ^ H ELSE write.bits
      Meant == Wrap(symbol_value + r.addend)
  IN  write.ok /\ write.width # 0 =>
        /\ write.place >= address /\ write.place + write.width <= address + section_size
        /\ CASE r.type = "64" -> write.bits = Meant
             [] r.type = "32" -> write.bits = Meant
             [] r.type = "32s" -> Wrap(SignExtended) = Meant
             [] OTHER -> Wrap(write.place + SignExtended) = Meant

(* What relocating a section placed since the layout last started again    *)
(* changes lies in the module's own allocation, and so does its            *)
(* descriptor; an image that needs a symbol nobody exports, or whose names *)
(* cannot be read as far as the descriptor's, is refused.                  *)
ImageExact(image, exports, base) ==
  LET load == module_elf_load(image, exports, base)
      restart == Layout(image.sections, image.file_size).restart
  IN
  load.ok =>
    /\ Len(load.writes) = Len(image.relocations)
    /\ \A i \in 1 .. Len(load.writes) :
         image.relocations[i].target + 1 >= restart /\ load.writes[i].width # 0 =>
           Bytes(load.writes[i].place, load.writes[i].width) \subseteq Bytes(base, load.size)
    /\ \E k \in 1 .. Len(image.symbols) :
         /\ image.symbols[k].name = "mvh_module_descriptor"
         /\ \A j \in 1 .. k : image.symbols[j].name # Outside
    /\ Bytes(load.descriptor, DescriptorBytes) \subseteq Bytes(base, load.size)
    /\ \A i \in 1 .. Len(image.relocations) :
         LET symbol == image.symbols[image.relocations[i].symbol + 1] IN
         symbol.section = SHN_UNDEF => \E e \in 1 .. Len(exports) : exports[e][1] = symbol.name

(* A symbol resolves to the address it was first exported with, and a full *)
(* table keeps what it has.                                                *)
ExportsExact(requests) ==
  LET exports == FoldLeft(module_export_symbol, <<>>, requests) IN
  /\ Len(exports) <= SymbolLimit
  /\ \A i \in 1 .. Len(requests) :
       LET address == module_resolve_symbol(exports, requests[i][1]) IN
       address # 0 => \E j \in 1 .. Len(requests) :
         /\ requests[j] = <<requests[i][1], address>>
         /\ \A k \in 1 .. j - 1 : requests[k][1] = requests[j][1] => requests[k][2] = 0

(* Every byte a descriptor that passes makes the kernel read is loaded.    *)
DescriptorReadable(d, base, memory) ==
  LET There == Bytes(base, Len(memory)) IN
  DescriptorAccepted(d, base, memory) =>
    /\ Bytes(d.address, DescriptorBytes) \subseteq There
    /\ Bytes(d.table, Len(d.dependencies) * PointerBytes) \subseteq There
    /\ \A p \in {d.name, d.version} \cup ToSet(d.dependencies) :
         \E n \in 0 .. Len(memory) : Bytes(p, n + 1) \subseteq There /\ memory[p + n - base + 1] = 0

=============================================================================
