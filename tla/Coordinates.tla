---------------------------- MODULE Coordinates -----------------------------
(***************************************************************************)
(* The pure coordinate maps (crates/topology/src/mapping.rs, platform-     *)
(* windows/src/inject.rs, platform-linux/src/pointer.rs), one axis at a    *)
(* time and in whole pixels.  Sizes on the command line are whole numbers. *)
(***************************************************************************)
EXTENDS Integers

CONSTANT Half  \* integers run from -Half to Half - 1; 2^31 for an i32

ASSUME HalfAssumption == Half \in Nat \ {0}

Between(v, lo, hi) == IF v < lo THEN lo ELSE IF v > hi THEN hi ELSE v

-----------------------------------------------------------------------------
(* Edge crossing                                                           *)

\* Mutant of MapEdgeCrossing: the fraction is not clamped.
MapUnclamped(pos, from, to, short) == IF from <= 0 THEN 0 ELSE (pos * to) \div from

\* map_edge_crossing `as i32': the quotient is rounded before it is multiplied,
\* so a product that ought to be whole may come out just below (short) and
\* lose one pixel in the cast.
MapEdgeCrossing(pos, from, to, short) ==
    IF from <= 0 \/ to <= 0 \/ pos <= 0 THEN 0
    ELSE IF pos >= from THEN to
    ELSE IF short /\ (pos * to) % from = 0 THEN (pos * to) \div from - 1
    ELSE (pos * to) \div from

-----------------------------------------------------------------------------
(* SendInput's absolute coordinates                                        *)

\* An i32 subtraction of a release build.
Wrap(n) == ((n + Half) % (2 * Half)) - Half

\* to_absolute_virtual.  Integer division truncates, which differs from \div
\* only below zero, where the clamp makes it 0.
ToAbsoluteVirtual(x, left, width) ==
    LET denom == IF width - 1 > 1 THEN width - 1 ELSE 1
        distance == Wrap(x - left)
    IN  IF distance < 0 THEN 0 ELSE Between((distance * 65535) \div denom, 0, 65535)

-----------------------------------------------------------------------------
(* Letterbox                                                               *)

\* Sizes and points are records of whole pixels; a size of 0 is no size.
Valid(size) == size.w > 0 /\ size.h > 0

\* letterbox_content_rect: the scale is Scaled(...) / (source.w * source.h).
Scaled(proxy, source) ==
    IF proxy.w * source.h <= proxy.h * source.w THEN proxy.w * source.h ELSE proxy.h * source.w

Nowhere == [u |-> -1, of |-> 1]

\* Mutant of Along: the bar is not taken off.
AlongProxy(p, length, across, scaled) == [u |-> 2 * across * p, of |-> 2 * scaled]

\* One axis of map_proxy_to_source: the point p of a proxy `length' long, as
\* the fraction u / of of the content, whose border belongs to it.
Along(p, length, across, scaled) ==
    LET u == 2 * across * p - (length * across - scaled) IN
    IF u \in 0 .. 2 * scaled THEN [u |-> u, of |-> 2 * scaled] ELSE Nowhere

\* map_proxy_to_source, None as Nowhere on either axis.
MapProxyToSource(p, proxy, source) ==
    IF ~Valid(proxy) \/ ~Valid(source) THEN [x |-> Nowhere, y |-> Nowhere]
    ELSE LET s == Scaled(proxy, source)
             x == Along(p.x, proxy.w, source.h, s)
             y == Along(p.y, proxy.h, source.w, s)
         IN  IF x = Nowhere \/ y = Nowhere THEN [x |-> Nowhere, y |-> Nowhere]
             ELSE [x |-> x, y |-> y]
=============================================================================
