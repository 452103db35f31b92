----------------------------------- MODULE Pci -----------------------------------
(***************************************************************************)
(* PCI configuration space (src/src/drivers/pci.c): where a register is    *)
(* found, and what pci_scan reports.  A function is a record of the        *)
(* registers the scan reads; Nothing answers with all ones.  A base        *)
(* register is [io, wide, base].                                           *)
(***************************************************************************)
EXTENDS Integers, Sequences, SequencesExt

CONSTANTS Buses, Slots, Functions     \* numbers counted from 0: 256, 32 and 8

Nothing == [there |-> FALSE]

(* pci_init: the window serves the buses of the first segment group.       *)
pci_init(segment) ==
  IF ~segment.there THEN [ecam_enabled |-> FALSE, start_bus |-> 0, end_bus |-> 0]
  ELSE [ecam_enabled |-> segment.group = 0, start_bus |-> segment.start_bus,
        end_bus |-> segment.end_bus]

(* Addresses in units of a register of 4 bytes: 64 per function here.      *)
ecam_address(state, bus, slot, function, register) ==
  (((bus - state.start_bus) * Slots + slot) * Functions + function) * 64 + register
port_address(bus, slot, function, register) ==
  ((bus * Slots + slot) * Functions + function) * 64 + register
ThroughWindow(state, bus) ==
  state.ecam_enabled /\ bus >= state.start_bus /\ bus <= state.end_bus
Address(state, r) ==
  IF ThroughWindow(state, r[1]) THEN <<"window", ecam_address(state, r[1], r[2], r[3], r[4])>>
  ELSE <<"port", port_address(r[1], r[2], r[3], r[4])>>

(* A write is dropped where the page of the window cannot be mapped.       *)
pci_config_write32(registers, state, mappable, r, value) ==
  IF ThroughWindow(state, r[1]) /\ ~mappable THEN registers
  ELSE [registers EXCEPT ![Address(state, r)] = value]

(* Mutation of BarsFrom: the upper half of a wide register is decoded      *)
(* again as a register of its own.                                         *)
BarsFrom_overlapping(bars, bar, count, decoded) ==
  [b \in 1 .. count |-> IF ~bars[b].io /\ bars[b].wide /\ b + 1 <= count
                        THEN <<bars[b].base, bars[b + 1].base>> ELSE <<bars[b].base>>]

RECURSIVE BarsFrom(_, _, _, _)
(* The loop over the base registers: a wide one takes two.  A register     *)
(* that is not decoded stays 0.                                            *)
BarsFrom(bars, bar, count, decoded) ==
  IF bar > count THEN decoded
  ELSE IF ~bars[bar].io /\ bars[bar].wide /\ bar + 1 <= count
  THEN BarsFrom(bars, bar + 2, count,
                decoded \o <<<<bars[bar].base, bars[bar + 1].base>>, <<0>>>>)
  ELSE BarsFrom(bars, bar + 1, count, Append(decoded, <<bars[bar].base>>))
BarCount(header_type) == CASE header_type = 0 -> 6 [] header_type = 1 -> 2 [] OTHER -> 0

(* What the registers of a function answer: all ones where the page of the *)
(* window cannot be mapped.                                                *)
pci_config_read32(space, state, mappable, at) ==
  IF ThroughWindow(state, at[1]) /\ ~mappable THEN Nothing ELSE space[at]

(* Mutation of Visited: every function number is asked.                    *)
Visited_always(space, state, mappable, at) ==
  pci_config_read32(space, state, mappable, at).there

(* Functions in the order the scan visits them; those above 0 only of a    *)
(* device that says it has several.                                        *)
Visits ==
  [i \in 1 .. Buses * Slots * Functions |->
    <<(i - 1) \div (Slots * Functions), ((i - 1) \div Functions) % Slots, (i - 1) % Functions>>]
Visited(space, state, mappable, at) ==
  LET first == pci_config_read32(space, state, mappable, <<at[1], at[2], 0>>) IN
  /\ first.there /\ (at[3] = 0 \/ first.many)
  /\ pci_config_read32(space, state, mappable, at).there
pci_scan(space, state, mappable, capacity) ==
  LET Visit(found, at) ==
        IF Len(found) >= capacity \/ ~Visited(space, state, mappable, at) THEN found
        ELSE Append(found, [at |-> at, id |-> space[at].id,
                            bars |-> BarsFrom(space[at].bars, 1, BarCount(space[at].type), <<>>)])
  IN  FoldLeft(Visit, <<>>, Visits)
------------------------------------------------------------------------------
(* A write reaches the register it names and no other, through the window  *)
(* or the ports, none of them below the window; with a window that cannot  *)
(* be mapped it reaches none of those the window serves.                   *)
AddressesApart(segment, mappable, a, b) ==
  LET state == pci_init(segment)
      before == [at \in {Address(state, a), Address(state, b)} |-> 0]
      after == pci_config_write32(before, state, mappable, a, 1)
  IN  /\ Address(state, a)[2] >= 0
      /\ a # b => after[Address(state, b)] = 0
      /\ after[Address(state, a)] = 0 =>
           ~mappable /\ segment.group = 0 /\ a[1] \in segment.start_bus .. segment.end_bus

(* The owner of register n: itself, or the wide register before it.        *)
Uppers(bars, count) ==
  {n \in 2 .. count : \E m \in 1 .. n - 1 :
    /\ (n - m) % 2 = 1
    /\ \A k \in m .. n - 1 : ~bars[k].io /\ bars[k].wide
    /\ m = 1 \/ bars[m - 1].io \/ ~bars[m - 1].wide}

(* external: the devices in the slots and what their registers answer.  A  *)
(* device is its functions by number, 0 among them; one that has no other  *)
(* answers for every number.                                               *)
Answers(installed) ==
  [at \in ToSet(Visits) |->
    LET device == installed[<<at[1], at[2]>>] IN
    IF at[3] \in DOMAIN device THEN [device[at[3]] EXCEPT !.many = DOMAIN device # {0}]
    ELSE IF DOMAIN device = {0} THEN [device[0] EXCEPT !.many = FALSE]
    ELSE Nothing]

(* The scan reports each function of each installed device once, in bus    *)
(* order, up to the capacity, and none twice of a device with one          *)
(* function; a window that cannot be mapped hides the buses it serves and  *)
(* no other; the upper half of a wide base register is never taken for a   *)
(* register.                                                               *)
ScanExact(installed, segment, mappable, capacity) ==
  LET state == pci_init(segment)
      found == pci_scan(Answers(installed), state, mappable, capacity)
      Hidden(bus) == /\ segment.there /\ segment.group = 0 /\ ~mappable
                     /\ bus \in segment.start_bus .. segment.end_bus
      there == SelectSeq(Visits, LAMBDA at :
                 at[3] \in DOMAIN installed[<<at[1], at[2]>>] /\ ~Hidden(at[1]))
  IN  /\ Len(found) = IF Len(there) < capacity THEN Len(there) ELSE capacity
      /\ \A i \in 1 .. Len(found) :
           LET f == installed[<<there[i][1], there[i][2]>>][there[i][3]]
               count == BarCount(f.type)
           IN  /\ found[i].at = there[i] /\ found[i].id = f.id
               /\ Len(found[i].bars) = count
               /\ \A n \in 1 .. count :
                    found[i].bars[n] =
                      IF n \in Uppers(f.bars, count) THEN <<0>>
                      ELSE IF n + 1 \in Uppers(f.bars, count)
                           THEN <<f.bars[n].base, f.bars[n + 1].base>>
                      ELSE <<f.bars[n].base>>

=============================================================================
