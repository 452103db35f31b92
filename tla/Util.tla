-------------------------------- MODULE Util ---------------------------------
(***************************************************************************)
(* The integer helpers of src/src/core/util.c on words of W bits, where    *)
(* the code has 64 (and 32 in the variants of the same shape); a byte has  *)
(* W \div 8 bits.  None stands for a call that reports an error.  Loops    *)
(* are recursive operators; every definition is compared with what the     *)
(* helper is for.                                                          *)
(***************************************************************************)
EXTENDS Integers, FiniteSets, FiniteSetsExt, Sequences, SequencesExt, Bitwise

CONSTANT W

WordConstants == W % 8 = 0

Top == 2 ^ W - 1                                       \* MVH_U64_MAX
Word == 0 .. Top
Signed == -(2 ^ (W - 1)) .. 2 ^ (W - 1) - 1
None == 2 ^ W
Fits(n) == IF n \in Word THEN n ELSE None
FitsSigned(n) == IF n \in Signed THEN n ELSE None
Complement(v) == Top - v
Shl(v, n) == (v * 2 ^ n) % 2 ^ W
Shr(v, n) == v \div 2 ^ n
Bit(v, i) == (v \div 2 ^ i) % 2
BitsOf(v) == {i \in 0 .. W - 1 : Bit(v, i) = 1}
WordOf(S) == FoldSet(LAMBDA i, total : total + 2 ^ i, 0, S)
------------------------------------------------------------------------------
mvh_is_power_of_two(v) == v # 0 /\ (v & (v - 1)) = 0

mvh_align_up(v, alignment) ==
  LET mask == alignment - 1 IN
  IF ~mvh_is_power_of_two(alignment) THEN 0
  ELSE IF v > Top - mask THEN 0
  ELSE (v + mask) & Complement(mask)

mvh_align_down(v, alignment) ==
  IF mvh_is_power_of_two(alignment) THEN v & Complement(alignment - 1) ELSE 0

RECURSIVE Smear(_, _)
Smear(v, shift) == IF shift >= W THEN v ELSE Smear(v | Shr(v, shift), 2 * shift)
mvh_next_power_of_two(v) ==
  IF v <= 1 THEN 1 ELSE IF v > 2 ^ (W - 1) THEN 0 ELSE Smear(v - 1, 1) + 1

mvh_checked_add(a, b) == IF a > Top - b THEN None ELSE a + b
mvh_checked_mul(a, b) == IF a # 0 /\ b > Top \div a THEN None ELSE (a * b) % 2 ^ W
mvh_checked_sub(a, b) == IF a < b THEN None ELSE a - b

mvh_abs(v) == IF v < 0 THEN -(v + 1) + 1 ELSE v
mvh_checked_add_i64(a, b) ==
  IF (b > 0 /\ a > Max(Signed) - b) \/ (b < 0 /\ a < Min(Signed) - b) THEN None ELSE a + b
mvh_checked_mul_i64(a, b) ==
  LET negative == (a < 0) # (b < 0)
      limit == IF negative THEN 2 ^ (W - 1) ELSE Max(Signed)
      product == mvh_abs(a) * mvh_abs(b)
  IN  IF b # 0 /\ mvh_abs(a) > limit \div mvh_abs(b) THEN None
      ELSE IF negative THEN -product ELSE product

RECURSIVE mvh_gcd(_, _)
mvh_gcd(a, b) == IF b = 0 THEN a ELSE mvh_gcd(b, a % b)
mvh_checked_lcm(a, b) ==
  IF a = 0 \/ b = 0 THEN 0 ELSE mvh_checked_mul(a \div mvh_gcd(a, b), b)

mvh_ceil_div(n, d) == IF d = 0 THEN 0 ELSE n \div d + (IF n % d # 0 THEN 1 ELSE 0)

(* Mutation of mvh_round_up_multiple: the sum may wrap.                    *)
mvh_round_up_multiple_wrapping(v, m) ==
  IF m = 0 THEN 0 ELSE IF v % m = 0 THEN v ELSE (v + m - (v % m)) % 2 ^ W

mvh_round_up_multiple(v, m) ==
  IF m = 0 THEN 0
  ELSE IF v % m = 0 THEN v
  ELSE IF v > Top - (m - (v % m)) THEN 0 ELSE v + m - (v % m)
mvh_round_down_multiple(v, m) == IF m = 0 THEN 0 ELSE v - (v % m)
mvh_div_round_nearest(n, d) ==
  IF d = 0 THEN 0 ELSE n \div d + (IF n % d >= d - (n % d) THEN 1 ELSE 0)

mvh_saturating_add(a, b) == IF a > Top - b THEN Top ELSE a + b
mvh_saturating_sub(a, b) == IF a < b THEN 0 ELSE a - b
mvh_saturating_mul(a, b) == IF a # 0 /\ b > Top \div a THEN Top ELSE a * b
mvh_average(a, b) == (a & b) + Shr(a ^^ b, 1)
mvh_clamp(v, low, high) == IF v < low THEN low ELSE IF v > high THEN high ELSE v
------------------------------------------------------------------------------
mvh_rotate_left(v, n) ==
  LET shift == n % W IN IF shift = 0 THEN v ELSE Shl(v, shift) | Shr(v, W - shift)
mvh_rotate_right(v, n) ==
  LET shift == n % W IN IF shift = 0 THEN v ELSE Shr(v, shift) | Shl(v, W - shift)

RECURSIVE mvh_popcount(_)
mvh_popcount(v) == IF v = 0 THEN 0 ELSE 1 + mvh_popcount(v & (v - 1))
mvh_parity(v) == mvh_popcount(v) % 2

RECURSIVE mvh_log2_floor(_)
mvh_log2_floor(v) == IF v = 0 THEN -1 ELSE 1 + mvh_log2_floor(Shr(v, 1))
mvh_log2_ceil(v) ==
  IF v = 0 THEN -1
  ELSE IF (v & (v - 1)) = 0 THEN mvh_log2_floor(v) ELSE mvh_log2_floor(v) + 1

RECURSIVE mvh_count_leading_zero(_), mvh_count_trailing_zero(_)
mvh_count_leading_zero(v) ==
  IF v = 0 THEN W
  ELSE IF (v & 2 ^ (W - 1)) # 0 THEN 0 ELSE 1 + mvh_count_leading_zero(Shl(v, 1))
mvh_count_trailing_zero(v) ==
  IF v = 0 THEN W ELSE IF (v & 1) # 0 THEN 0 ELSE 1 + mvh_count_trailing_zero(Shr(v, 1))

RECURSIVE ReverseFrom(_, _, _)
ReverseFrom(v, result, index) ==
  IF index = W THEN result ELSE ReverseFrom(Shr(v, 1), Shl(result, 1) | (v & 1), index + 1)
mvh_reverse_bits(v) == ReverseFrom(v, 0, 0)

mvh_bit_set(v, bit) == IF bit < W THEN v | 2 ^ bit ELSE v
mvh_bit_clear(v, bit) == IF bit < W THEN v & Complement(2 ^ bit) ELSE v
mvh_bit_toggle(v, bit) == IF bit < W THEN v ^^ (2 ^ bit) ELSE v

mvh_mask_range(offset, width) ==
  LET w == IF width > W - offset THEN W - offset ELSE width IN
  IF offset >= W \/ width = 0 THEN 0 ELSE Shl(IF w = W THEN Top ELSE 2 ^ w - 1, offset)
mvh_extract_bits(v, offset, width) ==
  IF offset >= W THEN 0 ELSE Shr(v & mvh_mask_range(offset, width), offset)
mvh_insert_bits(v, field, offset, width) ==
  LET mask == mvh_mask_range(offset, width) IN
  IF offset >= W THEN v ELSE (v & Complement(mask)) | (Shl(field, offset) & mask)

RECURSIVE mvh_next_set_bit(_, _), PreviousFrom(_, _)
mvh_next_set_bit(v, start) ==
  IF start >= W THEN -1
  ELSE IF (v & 2 ^ start) # 0 THEN start ELSE mvh_next_set_bit(v, start + 1)
PreviousFrom(v, bit) ==
  IF bit < 0 THEN -1 ELSE IF (v & 2 ^ bit) # 0 THEN bit ELSE PreviousFrom(v, bit - 1)
mvh_previous_set_bit(v, start) == PreviousFrom(v, IF start < W THEN start ELSE W - 1)

AsSigned(v) == IF v > Max(Signed) THEN v - 2 ^ W ELSE v
mvh_sign_extend(v, width) ==
  LET sign == 2 ^ (width - 1)
      low == v & (2 ^ width - 1)
  IN  IF width = 0 \/ width > W THEN 0
      ELSE IF width = W THEN AsSigned(v)
      ELSE AsSigned(((low ^^ sign) - sign + 2 ^ W) % 2 ^ W)

B == W \div 8                                          \* the bits of a byte
ByteOf(v, i) == Shr(v, i * B) % 2 ^ B
mvh_count_byte(v, byte) == Cardinality({i \in 0 .. 7 : ByteOf(v, i) = byte})
mvh_bswap32(v) ==
  LET mask(i) == (2 ^ B - 1) * 2 ^ (i * B) IN
  (((v & mask(0)) * 2 ^ (3 * B)) | ((v & mask(1)) * 2 ^ B))
    | (Shr(v & mask(2), B) | Shr(v & mask(3), 3 * B))
mvh_bswap64(v) ==
  Shl(mvh_bswap32(v % 2 ^ (4 * B)), 4 * B) | mvh_bswap32(Shr(v, 4 * B))
------------------------------------------------------------------------------
RECURSIVE FibonacciFrom(_, _, _)
FibonacciFrom(previous, current, steps) ==
  IF steps = 0 THEN previous
  ELSE IF mvh_checked_add(previous, current) = None THEN None
  ELSE FibonacciFrom(current, mvh_checked_add(previous, current), steps - 1)
mvh_fibonacci(index) == FibonacciFrom(0, 1, index)

RECURSIVE FactorialFrom(_, _, _), PowFrom(_, _, _), SqrtFrom(_, _, _)
FactorialFrom(factor, value, product) ==
  IF factor > value \/ product = None THEN product
  ELSE FactorialFrom(factor + 1, value, mvh_checked_mul(product, factor))
mvh_factorial(value) == FactorialFrom(2, value, 1)

PowFrom(base, exponent, product) ==
  LET next == IF exponent % 2 # 0 THEN mvh_checked_mul(product, base) ELSE product
      square == mvh_checked_mul(base, base)
  IN  IF exponent = 0 THEN product
      ELSE IF next = None THEN None
      ELSE IF exponent = 1 THEN next
      ELSE IF square = None THEN None
      ELSE PowFrom(square, exponent \div 2, next)
mvh_pow(base, exponent) == PowFrom(base, exponent, 1)

SqrtFrom(v, result, bit) ==
  IF bit = 0 THEN result
  ELSE IF v >= result + bit THEN SqrtFrom(v - (result + bit), Shr(result, 1) + bit, Shr(bit, 2))
  ELSE SqrtFrom(v, Shr(result, 1), Shr(bit, 2))
FirstBit(v) == IF v = 0 THEN 0 ELSE Max({b \in {4 ^ k : k \in 0 .. W \div 2 - 1} : b <= v})
mvh_integer_sqrt(v) == SqrtFrom(v, 0, FirstBit(v))
------------------------------------------------------------------------------
(* What the helpers are for.                                               *)
RECURSIVE Fibonacci(_), Factorial(_)
Fibonacci(n) == IF n < 2 THEN n ELSE Fibonacci(n - 1) + Fibonacci(n - 2)
Factorial(n) == IF n = 0 THEN 1 ELSE n * Factorial(n - 1)
Power(base, n) == IF n = 0 THEN 1 ELSE base ^ n
Multiples(m) == {k * m : k \in 0 .. (Top \div m)}
LeastFrom(S, v) == LET from == {x \in S : x >= v} IN IF from = {} THEN 0 ELSE Min(from)
Powers == {2 ^ k : k \in 0 .. W - 1}
Divides(d, n) == n % d = 0

(* Rounding helpers give the nearest value asked for and 0 when none fits  *)
(* in a word, at every boundary.                                           *)
RoundingExact(a, b) ==
  /\ mvh_is_power_of_two(a) <=> a \in Powers
  /\ mvh_next_power_of_two(a) = LeastFrom(Powers, a)
  /\ mvh_align_up(a, b) = IF b \in Powers THEN LeastFrom(Multiples(b), a) ELSE 0
  /\ mvh_align_down(a, b) = IF b \in Powers THEN Max({m \in Multiples(b) : m <= a}) ELSE 0
  /\ b # 0 => /\ mvh_round_up_multiple(a, b) = LeastFrom(Multiples(b), a)
              /\ mvh_round_down_multiple(a, b) = Max({m \in Multiples(b) : m <= a})
              /\ mvh_ceil_div(a, b) = -((-a) \div b)
              /\ mvh_div_round_nearest(a, b) = (2 * a + b) \div (2 * b)

(* Checked arithmetic answers the exact result or an error, signed as well *)
(* as unsigned; saturating arithmetic the nearest word.  Of the numbers of *)
(* Fibonacci one that fits is refused when its successor does not.         *)
ArithmeticExact(a, b) ==
  LET x == AsSigned(a)
      y == AsSigned(b)
  IN  /\ mvh_checked_add(a, b) = Fits(a + b) /\ mvh_checked_sub(a, b) = Fits(a - b)
      /\ mvh_checked_mul(a, b) = Fits(a * b)
      /\ mvh_checked_add_i64(x, y) = FitsSigned(x + y)
      /\ mvh_checked_mul_i64(x, y) = FitsSigned(x * y)
      /\ mvh_saturating_add(a, b) = mvh_clamp(a + b, 0, Top)
      /\ mvh_saturating_sub(a, b) = mvh_clamp(a - b, 0, Top)
      /\ mvh_saturating_mul(a, b) = mvh_clamp(a * b, 0, Top)
      /\ mvh_average(a, b) = (a + b) \div 2
      /\ a # 0 /\ b # 0 =>
           /\ mvh_gcd(a, b) = Max({d \in 1 .. a : Divides(d, a) /\ Divides(d, b)})
           /\ mvh_checked_lcm(a, b) =
                IF \E m \in Multiples(a) \ {0} : Divides(b, m)
                THEN Min({m \in Multiples(a) \ {0} : Divides(b, m)}) ELSE None
      /\ LET r == mvh_integer_sqrt(a) IN r * r <= a /\ a < (r + 1) * (r + 1)
      /\ a <= 3 /\ b <= W => mvh_pow(a, b) = Fits(Power(a, b))
      /\ b <= 3 => mvh_pow(a, b) = Fits(Power(a, b))
      /\ a = b /\ b <= W => mvh_factorial(b) = Fits(Factorial(b))
      /\ a = b /\ b <= 2 * W =>
           mvh_fibonacci(b) = IF Fibonacci(b + 1) > Top THEN None ELSE Fibonacci(b)

(* The helpers on bits do to the set of one bits what their names say, for *)
(* positions and widths up to and past the word's.                         *)
BitsExact(a, b) ==
  LET bits == BitsOf(a)
      range == {i \in 0 .. W - 1 : i >= b /\ i < b + 3}
      field == {i - b : i \in bits \cap range}
  IN  /\ mvh_popcount(a) = Cardinality(bits) /\ mvh_parity(a) = Cardinality(bits) % 2
      /\ mvh_count_leading_zero(a) = IF a = 0 THEN W ELSE W - 1 - Max(bits)
      /\ mvh_count_trailing_zero(a) = IF a = 0 THEN W ELSE Min(bits)
      /\ mvh_log2_floor(a) = IF a = 0 THEN -1 ELSE Max(bits)
      /\ a # 0 => 2 ^ mvh_log2_ceil(a) >= a /\ (a > 1 => 2 ^ (mvh_log2_ceil(a) - 1) < a)
      /\ mvh_reverse_bits(a) = WordOf({W - 1 - i : i \in bits})
      /\ mvh_rotate_left(a, b) = WordOf({(i + b) % W : i \in bits})
      /\ mvh_rotate_right(mvh_rotate_left(a, b), b) = a
      /\ mvh_bit_set(a, b) = WordOf(bits \cup ({b} \cap 0 .. W - 1))
      /\ mvh_bit_clear(a, b) = WordOf(bits \ {b})
      /\ mvh_bit_toggle(mvh_bit_toggle(a, b), b) = a
      /\ mvh_mask_range(b, 3) = WordOf(range)
      /\ mvh_extract_bits(a, b, 3) = WordOf(field)
      /\ mvh_insert_bits(Complement(a), mvh_extract_bits(a, b, 3), b, 3) =
           WordOf(((0 .. W - 1) \ (bits \cup range)) \cup (bits \cap range))
      /\ mvh_next_set_bit(a, b) =
           LET from == {i \in bits : i >= b} IN IF from = {} THEN -1 ELSE Min(from)
      /\ mvh_previous_set_bit(a, b) =
           LET upto == {i \in bits : i <= b} IN IF upto = {} THEN -1 ELSE Max(upto)
      /\ b \in 1 .. W =>
           /\ (mvh_sign_extend(a, b) - a) % 2 ^ b = 0
           /\ mvh_sign_extend(a, b) \in -(2 ^ (b - 1)) .. 2 ^ (b - 1) - 1
      /\ \A i \in 0 .. 7 : ByteOf(mvh_bswap64(a), i) = ByteOf(a, 7 - i)
      /\ mvh_count_byte(a, 1) = Cardinality({i \in 0 .. 7 : ByteOf(mvh_bswap64(a), i) = 1})

------------------------------------------------------------------------------
(* The memory and string helpers of src/src/core/util.c and the parsing of *)
(* the shell and of the boot command line in src/src/kernel.c.  A string   *)
(* is the sequence of its character codes up to the terminator; memory is  *)
(* a sequence of bytes.  Pointers are positions; a null pointer is never   *)
(* passed.  Numbers go up to Top.                                          *)

Space == 32
Spaces == {9, 10, 11, 12, 13, 32}
Slashes == {47, 92}
NoNumber == -1
NoPosition == 0
At(text, i) == IF i <= Len(text) THEN text[i] ELSE 0
From(text, i) == SubSeq(text, i, Len(text))
Least(a, b) == IF a < b THEN a ELSE b
Upto(text, n) == SubSeq(text, 1, Least(n, Len(text)))
LeastIn(S) == IF S = {} THEN NoPosition ELSE CHOOSE i \in S : \A j \in S : i <= j
GreatestIn(S) == IF S = {} THEN NoPosition ELSE CHOOSE i \in S : \A j \in S : i >= j
------------------------------------------------------------------------------
(* mvh_mem_move one byte at a time, from the end when the target overlaps. *)
RECURSIVE CopyUp(_, _, _, _, _), CopyDown(_, _, _, _)
CopyUp(memory, target, source, size, index) ==
  IF index = size THEN memory
  ELSE CopyUp([memory EXCEPT ![target + index] = memory[source + index]],
              target, source, size, index + 1)
CopyDown(memory, target, source, index) ==
  IF index = 0 THEN memory
  ELSE CopyDown([memory EXCEPT ![target + index - 1] = memory[source + index - 1]],
                target, source, index - 1)

mvh_mem_move(memory, target, source, size) ==
  IF target > source /\ target < source + size
  THEN CopyDown(memory, target, source, size)
  ELSE CopyUp(memory, target, source, size, 0)

(* Swaps from both ends up to the middle.                                  *)
RECURSIVE SwapFrom(_, _)
SwapFrom(bytes, index) ==
  IF index >= Len(bytes) \div 2 THEN bytes
  ELSE SwapFrom([bytes EXCEPT ![index + 1] = bytes[Len(bytes) - index],
                                 ![Len(bytes) - index] = bytes[index + 1]], index + 1)
mvh_mem_reverse(bytes) == SwapFrom(bytes, 0)

RECURSIVE CompareFrom(_, _, _, _)
CompareFrom(left, right, index, limit) ==
  IF index > limit THEN 0
  ELSE IF At(left, index) # At(right, index)
       THEN IF At(left, index) < At(right, index) THEN -1 ELSE 1
  ELSE IF At(left, index) = 0 THEN 0
  ELSE CompareFrom(left, right, index + 1, limit)
mvh_str_ncompare(left, right, limit) == CompareFrom(left, right, 1, limit)
mvh_str_compare(left, right) == mvh_str_ncompare(left, right, Len(left) + 1)

(* What a buffer of that capacity holds after a copy or a concatenation.   *)
mvh_str_ncopy(capacity, source, limit) ==
  Upto(source, Least(Least(Len(source), limit), capacity - 1))
mvh_str_concat(destination, capacity, source) ==
  IF Len(destination) = capacity THEN destination
  ELSE destination \o Upto(source, Least(Len(source), capacity - Len(destination) - 1))
mvh_str_join(capacity, left, separator, right) ==
  mvh_str_concat(mvh_str_concat(mvh_str_concat(<<>>, capacity, left), capacity, separator),
                 capacity, right)

mvh_str_find_char(text, c) == LeastIn({i \in 1 .. Len(text) + 1 : At(text, i) = c})
mvh_str_rfind_char(text, c) == GreatestIn({i \in 1 .. Len(text) + 1 : At(text, i) = c})
mvh_str_starts_with(text, prefix) == mvh_str_ncompare(text, prefix, Len(prefix)) = 0
mvh_str_ends_with(text, suffix) ==
  /\ Len(suffix) <= Len(text)
  /\ mvh_str_compare(From(text, Len(text) - Len(suffix) + 1), suffix) = 0

RECURSIVE FindFrom(_, _, _)
FindFrom(text, needle, i) ==
  IF i > Len(text) THEN NoPosition
  ELSE IF mvh_str_ncompare(From(text, i), needle, Len(needle)) = 0 THEN i
  ELSE FindFrom(text, needle, i + 1)
mvh_str_find(text, needle) == IF needle = <<>> THEN 1 ELSE FindFrom(text, needle, 1)

(* The separator of a split is not the terminator.                         *)
mvh_str_split_once(text, separator, left_capacity, right_capacity) ==
  LET split == mvh_str_find_char(text, separator) IN
  IF split = NoPosition THEN <<>>
  ELSE IF split - 1 >= left_capacity \/ Len(text) - split >= right_capacity THEN <<>>
  ELSE <<mvh_str_ncopy(left_capacity, text, split - 1),
         mvh_str_ncopy(right_capacity, From(text, split + 1), Top)>>

RECURSIVE mvh_str_trim_left(_), mvh_str_trim_right(_)
mvh_str_trim_left(text) ==
  IF text # <<>> /\ Head(text) \in Spaces THEN mvh_str_trim_left(Tail(text)) ELSE text
mvh_str_trim_right(text) ==
  IF text # <<>> /\ Last(text) \in Spaces THEN mvh_str_trim_right(Front(text)) ELSE text

(* <<result, token, what the cursor is left at>>                           *)
mvh_str_next_token(cursor, capacity) ==
  LET start == mvh_str_trim_left(cursor)
      length == LeastIn({i \in 1 .. Len(start) + 1 : At(start, i) \in Spaces \cup {0}}) - 1
  IN  IF start = <<>> THEN <<0, <<>>, <<>> >>
      ELSE IF length >= capacity THEN <<-1, <<>>, cursor>>
      ELSE <<1, mvh_str_ncopy(capacity, start, length), From(start, length + 1)>>

RECURSIVE NormalizeFrom(_, _)
NormalizeFrom(text, previous_slash) ==
  IF text = <<>> THEN <<>>
  ELSE LET slash == Head(text) \in Slashes
           rest == NormalizeFrom(Tail(text), slash)
       IN  IF slash /\ previous_slash THEN rest
           ELSE <<IF slash THEN 47 ELSE Head(text)>> \o rest
mvh_str_normalize_slashes(text) == NormalizeFrom(text, FALSE)

ToLower(c) == IF c \in 65 .. 90 THEN c + 32 ELSE c
RECURSIVE CaseEqualFrom(_, _, _)
CaseEqualFrom(left, right, i) ==
  IF At(left, i) # 0 /\ ToLower(At(left, i)) = ToLower(At(right, i))
  THEN CaseEqualFrom(left, right, i + 1)
  ELSE ToLower(At(left, i)) = ToLower(At(right, i))
mvh_str_case_equal(left, right) == CaseEqualFrom(left, right, 1)
------------------------------------------------------------------------------
mvh_ascii_digit_value(c) == IF c \in 48 .. 57 THEN c - 48 ELSE -1
mvh_ascii_hex_value(c) ==
  IF c \in 48 .. 57 THEN c - 48
  ELSE IF ToLower(c) \in 97 .. 102 THEN ToLower(c) - 97 + 10 ELSE -1

(* Mutation of ParseFrom: the digit about to be added is not considered.   *)
ParseFrom_off_by_digit(text, value, base, limit) ==
  LET Digit(c) == IF base = 10 THEN mvh_ascii_digit_value(c) ELSE mvh_ascii_hex_value(c)
      Next(v, c) == IF v = NoNumber \/ Digit(c) < 0 \/ v > limit \div base THEN NoNumber
                    ELSE v * base + Digit(c)
  IN  FoldLeft(Next, value, text)

RECURSIVE ParseFrom(_, _, _, _)
ParseFrom(text, value, base, limit) ==
  LET c == Head(text)
      digit == IF base = 10 THEN mvh_ascii_digit_value(c) ELSE mvh_ascii_hex_value(c)
  IN  IF text = <<>> THEN value
      ELSE IF digit < 0 \/ value > (limit - digit) \div base THEN NoNumber
      ELSE ParseFrom(Tail(text), value * base + digit, base, limit)

mvh_parse_u64(text) == IF text = <<>> THEN NoNumber ELSE ParseFrom(text, 0, 10, Top)
mvh_parse_hex_u64(text) ==
  LET digits == IF At(text, 1) = 48 /\ At(text, 2) \in {88, 120} THEN From(text, 3) ELSE text
  IN  IF digits = <<>> THEN NoNumber ELSE ParseFrom(digits, 0, 16, Top)

(* <<negative, magnitude>>; a magnitude of NoNumber is an error.           *)
mvh_parse_i64(text) ==
  LET negative == At(text, 1) = 45
      digits == IF At(text, 1) \in {43, 45} THEN Tail(text) ELSE text
      half == (Top + 1) \div 2
  IN  IF digits = <<>> THEN <<negative, NoNumber>>
      ELSE <<negative, ParseFrom(digits, 0, 10, IF negative THEN half ELSE half - 1)>>

RECURSIVE mvh_format_u64(_, _)
mvh_format_u64(value, base) ==
  LET digit == value % base
      last == <<IF digit < 10 THEN 48 + digit ELSE 97 + digit - 10>>
  IN  IF value < base THEN last ELSE mvh_format_u64(value \div base, base) \o last

(* The shell's own parser, which refuses anything above its maximum.       *)
RECURSIVE NumberFrom(_, _, _)
NumberFrom(text, result, maximum) ==
  IF text = <<>> THEN result
  ELSE IF Head(text) \notin 48 .. 57 THEN NoNumber
  ELSE IF result * 10 + (Head(text) - 48) > maximum THEN NoNumber
  ELSE NumberFrom(Tail(text), result * 10 + (Head(text) - 48), maximum)
parse_number(text, maximum) == IF text = <<>> THEN NoNumber ELSE NumberFrom(text, 0, maximum)
------------------------------------------------------------------------------
RECURSIVE SkipSpaces(_)
SkipSpaces(text) == IF At(text, 1) = Space THEN SkipSpaces(Tail(text)) ELSE text

(* <<>> when the command is not this one, else << argument >>.             *)
command_argument(command, name) ==
  IF Upto(command, Len(name)) # name THEN <<>>
  ELSE LET rest == From(command, Len(name) + 1) IN
       IF rest = <<>> THEN <<rest>>
       ELSE IF Head(rest) # Space THEN <<>> ELSE <<SkipSpaces(rest)>>

(* <<>> on error, else <<path, text>>.                                     *)
split_path_text(input, capacity) ==
  LET start == SkipSpaces(input)
      length == LeastIn({i \in 1 .. Len(start) + 1 : At(start, i) \in {0, Space}}) - 1
      text == SkipSpaces(From(start, length + 1))
  IN  IF length >= capacity \/ length = 0 \/ text = <<>> THEN <<>>
      ELSE <<Upto(start, length), text>>

boot_option_present(command, option) ==
  \E offset \in 1 .. Len(command) + 1 :
    /\ offset - 1 + Len(option) <= Len(command)
    /\ offset = 1 \/ command[offset - 1] = Space
    /\ SubSeq(command, offset, offset + Len(option) - 1) = option
    /\ offset - 1 + Len(option) = Len(command) \/ command[offset + Len(option)] = Space
------------------------------------------------------------------------------
(* What the helpers are for.                                               *)
Tokens(text, separators) ==
  LET start(i) == At(text, i) \notin separators \cup {0} /\ (i = 1 \/ text[i - 1] \in separators)
      end(i) == CHOOSE j \in i .. Len(text) :
                  /\ \A k \in i .. j : text[k] \notin separators
                  /\ j = Len(text) \/ text[j + 1] \in separators
      starts == SelectSeq([i \in 1 .. Len(text) |-> i], start)
  IN  [n \in 1 .. Len(starts) |-> SubSeq(text, starts[n], end(starts[n]))]
Before(left, right) ==
  \E i \in 1 .. Len(right) :
    At(left, i) < right[i] /\ \A j \in 1 .. i - 1 : At(left, j) = At(right, j)
RECURSIVE ValueOf(_)
ValueOf(digits) == IF digits = <<>> THEN 0 ELSE 10 * ValueOf(Front(digits)) + Last(digits) - 48

(* Moving memory gives every target byte the source byte from before the   *)
(* call, however the two overlap; reversing reverses.                      *)
MovesExact(memory) ==
  /\ \A target, source \in 1 .. Len(memory) : \A size \in 0 .. Len(memory) :
       target + size - 1 <= Len(memory) /\ source + size - 1 <= Len(memory) =>
         mvh_mem_move(memory, target, source, size) =
           [i \in 1 .. Len(memory) |->
              IF i \in target .. target + size - 1 THEN memory[source + i - target] ELSE memory[i]]
  /\ mvh_mem_reverse(memory) = Reverse(memory)

(* Comparing orders strings, searching finds the first or last place, and  *)
(* what is copied, joined or split is the whole text or an announced cut.  *)
SearchExact(text, other) ==
  /\ mvh_str_compare(text, other) =
       IF text = other THEN 0 ELSE IF Before(text, other) THEN -1 ELSE 1
  /\ mvh_str_starts_with(text, other) <=> IsPrefix(other, text)
  /\ mvh_str_ends_with(text, other) <=> IsSuffix(other, text)
  /\ mvh_str_find(text, other) =
       IF other = <<>> THEN 1
       ELSE LeastIn({i \in 1 .. Len(text) : IsPrefix(other, From(text, i))})
  /\ \A capacity \in 1 .. 4 :
       mvh_str_join(capacity, text, <<47>>, other) = Upto(text \o <<47>> \o other, capacity - 1)
  /\ LET halves == mvh_str_split_once(text, 47, 3, 3) IN
       halves # <<>> => halves[1] \o <<47>> \o halves[2] = text /\ 47 \notin ToSet(halves[1])
  /\ mvh_str_rfind_char(text, 47) = NoPosition <=> mvh_str_find_char(text, 47) = NoPosition
  /\ mvh_str_case_equal(text, other) <=>
       [i \in 1 .. Len(text) |-> ToLower(text[i])] = [i \in 1 .. Len(other) |-> ToLower(other[i])]
  /\ LET normal == mvh_str_normalize_slashes(text) IN
       /\ \A i \in 1 .. Len(normal) - 1 : ~(normal[i] = 47 /\ normal[i + 1] = 47)
       /\ mvh_str_normalize_slashes(normal) = normal
       /\ Tokens(normal, {47}) = Tokens(text, Slashes)

(* A number is accepted exactly when its digits denote one that fits, and  *)
(* formatting and parsing are inverse.                                     *)
NumbersExact(text) ==
  LET digits == text # <<>> /\ \A i \in 1 .. Len(text) : text[i] \in 48 .. 57 IN
  /\ mvh_parse_u64(text) = IF digits /\ ValueOf(text) <= Top THEN ValueOf(text) ELSE NoNumber
  /\ parse_number(text, 60) = IF digits /\ ValueOf(text) <= 60 THEN ValueOf(text) ELSE NoNumber
  /\ mvh_parse_i64(<<45>> \o text)[2] =
       IF digits /\ ValueOf(text) <= (Top + 1) \div 2 THEN ValueOf(text) ELSE NoNumber
  /\ mvh_parse_u64(text) # NoNumber =>
       LET n == mvh_parse_u64(text) IN
       /\ mvh_parse_u64(mvh_format_u64(n, 10)) = n
       /\ mvh_parse_hex_u64(<<48, 120>> \o mvh_format_u64(n, 16)) = n

(* A command line is taken apart into the words it consists of: an option  *)
(* is present when it is one of them, the tokens are all of them in order, *)
(* and a path and a text come from a line that has both.                   *)
WordsFound(text, other) ==
  LET first == mvh_str_next_token(text, 4)
      parts == split_path_text(text, 3)
  IN  /\ other # <<>> /\ Space \notin ToSet(other) =>
           (boot_option_present(text, other) <=> other \in ToSet(Tokens(text, {Space})))
      /\ first[1] = 1 => /\ Tokens(text, Spaces) = <<first[2]>> \o Tokens(first[3], Spaces)
                         /\ mvh_str_trim_right(first[2]) = first[2]
      /\ first[1] = 0 <=> Tokens(text, Spaces) = <<>>
      /\ parts # <<>> =>
           /\ Tokens(parts[1], {Space}) = <<parts[1]>> /\ Len(parts[1]) < 3
           /\ Tokens(text, {Space}) = <<parts[1]>> \o Tokens(parts[2], {Space})
      /\ command_argument(text, other) # <<>> =>
           IsPrefix(other, text) /\ IsSuffix(command_argument(text, other)[1], text)

=============================================================================
