------------------------------- MODULE Clocks --------------------------------
(***************************************************************************)
(* The conversions of the clocks: the programmable timer                   *)
(* (src/src/drivers/timer.c), the high precision timer (hpet.c) and the    *)
(* real-time clock (rtc.c); and how the timer's interrupt is routed        *)
(* (src/src/arch/apic.c).  Words have W bits where the code has 64, a      *)
(* narrow counter NarrowBits where hardware has 32, and Million scales the *)
(* 10^6 of hpet_nanoseconds.                                               *)
(***************************************************************************)
EXTENDS Integers, Sequences, Bitwise

CONSTANTS
  Oscillator,   \* 1193182
  LowestRate,   \* 19
  W, NarrowBits,
  Million,
  MaxPeriod     \* 10^9 femtoseconds

ClockConstants == Million * MaxPeriod < 2 ^ W

Word(x) == x % 2 ^ W
Clamp(x, low, high) == IF x < low THEN low ELSE IF x > high THEN high ELSE x

(* Mutation of timer_init: the requested rate is kept as the configured.   *)
timer_init_keeps_request(frequency) ==
  LET clamped == Clamp(frequency, LowestRate, Oscillator)
  IN  [divisor |-> Oscillator \div clamped, configured |-> clamped]

timer_init(frequency) ==
  LET clamped == Clamp(frequency, LowestRate, Oscillator)
      divisor == Oscillator \div clamped
  IN  [divisor |-> divisor, configured |-> Oscillator \div divisor]

(* The ticks after which timer_sleep_ms, called at ticks, returns.         *)
timer_sleep_ms(ticks, milliseconds, configured) ==
  LET required == Word(Word(milliseconds * configured) + 999) \div 1000
      target == Word(ticks + required)
  IN  IF ticks < target THEN target - ticks ELSE 0

(* Mutation of hpet_init: a period that is too long is believed.           *)
hpet_init_any(period) == period # 0

(* hpet_init starts the counter at 0 unless the period makes no sense.     *)
hpet_init(period) == period # 0 /\ period <= MaxPeriod

(* external: the main counter after so many periods.  The driver reads it  *)
(* with one access of 64 bits, whatever its width.                         *)
hpet_ticks(elapsed, wide) == elapsed % 2 ^ (IF wide THEN W ELSE NarrowBits)

(* Mutation of hpet_nanoseconds: the product is not split.                 *)
hpet_nanoseconds_unsplit(ticks, period) == Word(ticks * period) \div Million

hpet_nanoseconds(ticks, period) ==
  Word(Word((ticks \div Million) * period) + Word((ticks % Million) * period) \div Million)

from_bcd(value) == (value % 16) + (value \div 16) * 10

(* The registers are read one by one once the update flag was clear; the   *)
(* chip may move on before the read number moved + 1, from registers r to  *)
(* registers n.  Status B says whether they are binary and whether hours   *)
(* count to 24.                                                            *)
rtc_read(r, n, moved, binary, hours24) ==
  LET Value(x) == IF binary THEN x ELSE from_bcd(x)
      Read(k, before, after) == IF k <= moved THEN before ELSE after
      raw == Read(3, r.hour, n.hour)
      afternoon == raw >= 128
      hour == Value(raw % 128)
  IN  [second |-> Value(Read(1, r.second, n.second)), minute |-> Value(Read(2, r.minute, n.minute)),
       hour |-> IF ~hours24 /\ afternoon THEN (hour + 12) % 24
                ELSE IF afternoon THEN 128 + hour ELSE hour,
       day |-> Value(Read(4, r.day, n.day)), month |-> Value(Read(5, r.month, n.month)),
       year |-> 2000 + Value(Read(6, r.year, n.year))]
------------------------------------------------------------------------------
(* The divisor fits the timer's 16 bits and is not 0, for every rate asked *)
(* for, and configured is the rate it really produces, rounded down.       *)
TimerExact(frequency) ==
  LET t == timer_init(frequency) IN
  /\ t.divisor \in 1 .. 65535
  /\ t.configured * t.divisor <= Oscillator /\ Oscillator < (t.configured + 1) * t.divisor
  /\ frequency \in LowestRate .. Oscillator => t.configured >= frequency

(* A sleep lasts the fewest ticks that make up the time asked for as long  *)
(* as the product and the target fit their words, and is never longer.     *)
SleepExact(ticks, milliseconds, rate) ==
  LET slept == timer_sleep_ms(ticks, milliseconds, rate)
      enough == (milliseconds * rate + 999) \div 1000
      fits == milliseconds * rate + 999 < 2 ^ W /\ ticks + enough < 2 ^ W
  IN  slept <= enough /\ (fits => slept = enough)

(* For every period hpet_init believes, nanoseconds are exact at every     *)
(* count of the timer, although count times period leaves the word; and    *)
(* time does not go back while the counter has not come round.             *)
NanosecondsExact(elapsed, later, wide, period) ==
  LET Nanoseconds(e) == hpet_nanoseconds(hpet_ticks(e, wide), period)
      Round(e) == <<e - hpet_ticks(e, wide), (e * period) \div (Million * 2 ^ W)>>
  IN  hpet_init(period) =>
        /\ Nanoseconds(elapsed) = Word((hpet_ticks(elapsed, wide) * period) \div Million)
        /\ elapsed <= later /\ Round(elapsed) = Round(later) =>
             Nanoseconds(elapsed) <= Nanoseconds(later)

(* What a clock chip set to a time holds in its registers.                 *)
ToBcd(x) == (x \div 10) * 16 + (x % 10)
Chip(t, binary, hours24) ==
  LET Form(x) == IF binary THEN x ELSE ToBcd(x)
      hour12 == IF t.hour % 12 = 0 THEN 12 ELSE t.hour % 12
  IN  [second |-> Form(t.second), minute |-> Form(t.minute),
       hour |-> IF hours24 THEN Form(t.hour)
                ELSE Form(hour12) + (IF t.hour >= 12 THEN 128 ELSE 0),
       day |-> Form(t.day), month |-> Form(t.month), year |-> Form(t.year - 2000)]

(* One second later, in a month of 31 days.                                *)
Tick(t) ==
  LET minute == IF t.second = 59 THEN t.minute + 1 ELSE t.minute
      hour == IF minute = 60 THEN t.hour + 1 ELSE t.hour
      day == IF hour = 24 THEN t.day + 1 ELSE t.day
      month == IF day = 32 THEN t.month + 1 ELSE t.month
  IN  [second |-> (t.second + 1) % 60, minute |-> minute % 60, hour |-> hour % 24,
       day |-> IF day = 32 THEN 1 ELSE day, month |-> IF month = 13 THEN 1 ELSE month,
       year |-> IF month = 13 THEN t.year + 1 ELSE t.year]
Fields(t) == <<t.year, t.month, t.day, t.hour, t.minute, t.second>>
Earlier(t, u) ==
  \E k \in 1 .. 6 : Fields(t)[k] < Fields(u)[k] /\ \A j \in 1 .. k - 1 : Fields(t)[j] = Fields(u)[j]

(* A clock that ticks while it is read gives the time before or after the  *)
(* tick, in each of the chip's formats, unless a minute ends between two   *)
(* reads: then it gives a later time, never an earlier one.  Registers     *)
(* that count to 12 have the hours from 12 to 1 taken for those of the     *)
(* other half of the day.                                                  *)
TimeExact(t, moved, binary, hours24) ==
  LET Swapped(u) == IF hours24 \/ u.hour % 12 # 0 THEN u ELSE [u EXCEPT !.hour = 12 - u.hour]
      next == Tick(t)
      got == rtc_read(Chip(t, binary, hours24), Chip(next, binary, hours24), moved, binary, hours24)
  IN  /\ t.second # 59 \/ moved \in {0, 6} => got \in {Swapped(t), Swapped(next)}
      /\ hours24 \/ (t.hour % 12 # 0 /\ next.hour % 12 # 0) => ~Earlier(got, t)

------------------------------------------------------------------------------
(* Moving the timer from the legacy controller to the APICs: apic_init and *)
(* ioapic_route of src/src/arch/apic.c.  An entry of the redirection table *)
(* is [vector, low, level, masked]; the firmware's overrides are           *)
(* <<bus, irq, interrupt, low, level>>.                                    *)

TimerVector == 32
Override(overrides) ==
  LET timers == {i \in 1 .. Len(overrides) : overrides[i][1] = 0 /\ overrides[i][2] = 0}
  IN  IF timers = {} THEN <<0, 0, 0, FALSE, FALSE>>
      ELSE overrides[CHOOSE i \in timers : \A j \in timers : i <= j]

(* ioapic_route.                                                           *)
Routed(table, pin, vector, low, level, masked) ==
  [table EXCEPT ![pin] = [vector |-> vector, low |-> low, level |-> level, masked |-> masked]]
AllMasked(pins) ==
  [pin \in 0 .. pins - 1 |->
    [vector |-> 32 + (pin & 95), low |-> FALSE, level |-> FALSE, masked |-> TRUE]]

(* Mutation of apic_init: the legacy controller is masked before the       *)
(* timer's pin is known to exist.                                          *)
apic_init_masks_first(firmware, table) ==
  LET timer == Override(firmware.overrides)
      pin == timer[3] - firmware.interrupt_base
      masked == AllMasked(firmware.pins)
  IN  IF ~firmware.described \/ ~firmware.aligned
      THEN [ok |-> FALSE, table |-> table, pic_masked |-> FALSE, enabled |-> firmware.enabled]
      ELSE IF ~firmware.mapped \/ ~firmware.msr
      THEN [ok |-> FALSE, table |-> table, pic_masked |-> FALSE, enabled |-> TRUE]
      ELSE IF pin \notin 0 .. firmware.pins - 1
      THEN [ok |-> FALSE, table |-> masked, pic_masked |-> TRUE, enabled |-> TRUE]
      ELSE [ok |-> TRUE, table |-> Routed(masked, pin, TimerVector, timer[4], timer[5], FALSE),
            pic_masked |-> TRUE, enabled |-> TRUE]

(* The result, the redirection table, whether the legacy controller is     *)
(* masked, and the interrupt flag.                                         *)
apic_init(firmware, table) ==
  LET timer == Override(firmware.overrides)
      pin == timer[3] - firmware.interrupt_base
      masked == AllMasked(firmware.pins)
  IN  IF ~firmware.described \/ ~firmware.aligned
      THEN [ok |-> FALSE, table |-> table, pic_masked |-> FALSE, enabled |-> firmware.enabled]
      ELSE IF ~firmware.mapped \/ ~firmware.msr
      THEN [ok |-> FALSE, table |-> table, pic_masked |-> FALSE, enabled |-> TRUE]
      ELSE IF pin \notin 0 .. firmware.pins - 1
      THEN [ok |-> FALSE, table |-> masked, pic_masked |-> FALSE, enabled |-> TRUE]
      ELSE [ok |-> TRUE, table |-> Routed(masked, pin, TimerVector, timer[4], timer[5], FALSE),
            pic_masked |-> TRUE, enabled |-> TRUE]
------------------------------------------------------------------------------
(* The timer always reaches the processor by exactly one way: through the  *)
(* one unmasked pin, the first override of its line included, and then the *)
(* legacy controller is silent; or, however far a failed initialisation    *)
(* came, through the legacy controller with every pin as masked as before. *)
TimerReachesOnce(firmware, table) ==
  LET after == apic_init(firmware, table)
      open == {pin \in 0 .. firmware.pins - 1 : ~after.table[pin].masked}
  IN  /\ after.ok => \E pin \in open :
           /\ open = {pin} /\ after.pic_masked /\ after.enabled
           /\ after.table[pin].vector = TimerVector
           /\ firmware.interrupt_base + pin = Override(firmware.overrides)[3]
      /\ ~after.ok => ~after.pic_masked /\ \A pin \in open : ~table[pin].masked
      /\ firmware.enabled => after.enabled

=============================================================================
