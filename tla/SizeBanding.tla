---------------------------- MODULE SizeBanding ----------------------------
(***************************************************************************)
(* coarse_band of signed_order_intent.py: the size of an order is rounded  *)
(* to one of a list of bands before it is signed and sent.  Sizes are in   *)
(* quarters of a lot, so the default bands 0.5, 1.0, ..., 1024.0 are the   *)
(* powers of two from 2 to 4096; the list's order is the code's.           *)
(***************************************************************************)
EXTENDS Integers, Sequences

POWER_OF_TWO_BANDS ==
    <<2, 4, 8, 16, 32, 64, 128, 256, 512, 1024, 2048, 4096>>

Distance(b, size) == IF b < size THEN size - b ELSE b - size

\* Mutant: the band below the size (a floor instead of a rounding).
NearestBelow(size, bands) ==
    CHOOSE i \in DOMAIN bands :
        /\ bands[i] <= size \/ i = 1
        /\ \A j \in DOMAIN bands : bands[j] <= size => j <= i

\* The first index of the smallest key, as Python's min returns it.
Nearest(size, bands) ==
    CHOOSE i \in DOMAIN bands :
        /\ \A j \in DOMAIN bands :
             Distance(bands[i], size) <= Distance(bands[j], size)
        /\ \A j \in 1..(i - 1) :
             Distance(bands[i], size) # Distance(bands[j], size)

\* An empty list is false in Python, so it means the default one.
BandsUsed(bands) == IF bands = << >> THEN POWER_OF_TWO_BANDS ELSE bands

\* Mutant: the guard on sizes that are not positive takes the last band.
CoarseBandInLast(size, bands) ==
    IF size <= 0 THEN bands[Len(bands)] ELSE bands[Nearest(size, bands)]

CoarseBandIn(size, bands) ==
    IF size <= 0 THEN bands[1] ELSE bands[Nearest(size, bands)]

CoarseBand(size, bands) == CoarseBandIn(size, BandsUsed(bands))
============================================================================
