------------------------------- MODULE Framebuffer -------------------------------
(***************************************************************************)
(* Drawing (src/src/drivers/framebuffer.c): where a pixel is written, and  *)
(* which pixels rectangles and lines are made of.                          *)
(***************************************************************************)
EXTENDS Integers, FiniteSets

CONSTANTS PageBytes, MaxBytes, MinWidth, MinHeight

(* framebuffer_init: the pages of pitch * height bytes from address, each  *)
(* of which must be mapped.                                                *)
Bytes(mode) == mode.pitch * mode.height
PagesMapped(mode) ==
  ((mode.address % PageBytes) + Bytes(mode) + PageBytes - 1) \div PageBytes
framebuffer_init(mode) ==
  /\ mode.address # 0 /\ mode.width >= MinWidth /\ mode.height >= MinHeight
  /\ mode.bytes_per_pixel \in {3, 4}
  /\ Bytes(mode) # 0 /\ Bytes(mode) <= MaxBytes
  /\ PagesMapped(mode) <= mode.mappable

Visible(mode, x, y) == x \in 0 .. mode.width - 1 /\ y \in 0 .. mode.height - 1
(* The bytes framebuffer_put_pixel writes, from the start of the window.   *)
framebuffer_put_pixel(mode, x, y) ==
  IF ~Visible(mode, x, y) THEN {}
  ELSE LET target == (mode.address % PageBytes) + y * mode.pitch + x * mode.bytes_per_pixel
       IN  target .. target + mode.bytes_per_pixel - 1

framebuffer_fill_rect(x, y, width, height) ==
  IF width <= 0 \/ height <= 0 THEN {}
  ELSE (x .. x + width - 1) \X (y .. y + height - 1)
framebuffer_outline_rect(x, y, width, height, thickness) ==
  IF thickness <= 0 THEN {}
  ELSE framebuffer_fill_rect(x, y, width, thickness)
         \cup framebuffer_fill_rect(x, y + height - thickness, width, thickness)
         \cup framebuffer_fill_rect(x, y, thickness, height)
         \cup framebuffer_fill_rect(x + width - thickness, y, thickness, height)

Abs(a) == IF a < 0 THEN -a ELSE a

(* Mutation of LineStep: the error is doubled after the first correction.  *)
LineStep_late(p, dx, dy, sx, sy) ==
  LET stepx == 2 * p.error >= dy
      error == IF stepx THEN p.error + dy ELSE p.error
      stepy == 2 * error <= dx
  IN  [x |-> IF stepx THEN p.x + sx ELSE p.x, y |-> IF stepy THEN p.y + sy ELSE p.y,
       error |-> IF stepy THEN error + dx ELSE error]

LineStep(p, dx, dy, sx, sy) ==
  LET stepx == 2 * p.error >= dy
      stepy == 2 * p.error <= dx
  IN  [x |-> IF stepx THEN p.x + sx ELSE p.x, y |-> IF stepy THEN p.y + sy ELSE p.y,
       error |-> p.error + (IF stepx THEN dy ELSE 0) + (IF stepy THEN dx ELSE 0)]

RECURSIVE LineFrom(_, _, _, _, _, _, _, _)
LineFrom(p, x1, y1, dx, dy, sx, sy, left) ==
  IF (p.x = x1 /\ p.y = y1) \/ left = 0 THEN {<<p.x, p.y>>}
  ELSE {<<p.x, p.y>>} \cup
       LineFrom(LineStep(p, dx, dy, sx, sy), x1, y1, dx, dy, sx, sy, left - 1)
(* The loop is cut after LineBound steps, more than any line needs.        *)
LineBound == 50
framebuffer_line(x0, y0, x1, y1) ==
  LET dx == Abs(x1 - x0)
      dy == -Abs(y1 - y0)
  IN  LineFrom([x |-> x0, y |-> y0, error |-> dx + dy], x1, y1, dx, dy,
               IF x0 < x1 THEN 1 ELSE -1, IF y0 < y1 THEN 1 ELSE -1, LineBound)
------------------------------------------------------------------------------
RowsHold(mode) == mode.pitch >= mode.width * mode.bytes_per_pixel

(* A mode that is accepted has every pixel within its pitch * height bytes *)
(* exactly when its rows are as long as their pixels need, which           *)
(* framebuffer_init does not ask; then every pixel is in a page that was   *)
(* mapped and no two pixels share a byte.                                  *)
PixelsApart(mode, x, y, u, v) ==
  LET first == mode.address % PageBytes
      Pixel(p, q) == framebuffer_put_pixel(mode, p, q)
  IN
  framebuffer_init(mode) =>
    /\ RowsHold(mode) <=> \A p \in 0 .. mode.width - 1, q \in 0 .. mode.height - 1 :
                            Pixel(p, q) \subseteq first .. first + Bytes(mode) - 1
    /\ RowsHold(mode) => /\ Pixel(x, y) \subseteq 0 .. PagesMapped(mode) * PageBytes - 1
                         /\ <<x, y>> # <<u, v>> => Pixel(x, y) \cap Pixel(u, v) = {}

(* A line ends: it reaches both end points with as many pixels as its      *)
(* longer side, one on each of its columns or rows, and none of them is    *)
(* farther than half a pixel from the straight line.                       *)
LineExact(x0, y0, x1, y1) ==
  LET line == framebuffer_line(x0, y0, x1, y1)
      dx == Abs(x1 - x0)
      dy == Abs(y1 - y0)
  IN  /\ {<<x0, y0>>, <<x1, y1>>} \subseteq line
      /\ Cardinality(line) = 1 + (IF dx > dy THEN dx ELSE dy)
      /\ \A p \in line :
           2 * Abs((p[1] - x0) * (y1 - y0) - (p[2] - y0) * (x1 - x0)) <= IF dx > dy THEN dx ELSE dy

(* An outline is the rectangle without what is inside its border.          *)
OutlineExact(width, height, thickness) ==
  width >= 2 * thickness /\ height >= 2 * thickness /\ thickness > 0 =>
    framebuffer_outline_rect(0, 0, width, height, thickness)
      = framebuffer_fill_rect(0, 0, width, height)
          \ framebuffer_fill_rect(thickness, thickness, width - 2 * thickness, height - 2 * thickness)

=============================================================================
