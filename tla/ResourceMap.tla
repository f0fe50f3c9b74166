----------------------------- MODULE ResourceMap -----------------------------
(***************************************************************************)
(* The arithmetic of resource_map.go.  A resourceMap is a function from a  *)
(* finite set of resource names to int64 amounts; a key that is missing    *)
(* from the Go map is missing from the function's domain.                  *)
(*                                                                         *)
(* Go's addRM and subtractRM work on a copy and copy it back only when no  *)
(* key failed, so each is a predicate (does it return nil?) and a result.  *)
(* The keys do not interact, hence the order in which Go ranges over the   *)
(* map does not matter.                                                    *)
(***************************************************************************)
EXTENDS Integers

CONSTANTS
    Resources,  \* resource names with the gpu.intel.com/ prefix
    MaxInt      \* the largest int64

ASSUME MaxIntAssumption == MaxInt \in Nat \ {0}

\* The sane resource maps the comments of add and subtract assume.
ResourceMaps == UNION {[D -> 0..MaxInt] : D \in SUBSET Resources}

EmptyMap == [k \in {} |-> 0]

\* rm[key] of Go: the zero value for a missing key.
Amount(rm, k) == IF k \in DOMAIN rm THEN rm[k] ELSE 0

\* Two's complement addition of two int64 values (both at most MaxInt).
Wrap(v) == IF v > MaxInt THEN v - 2 * (MaxInt + 1) ELSE v

-----------------------------------------------------------------------------
\* add: does it succeed for one key?
CanAdd(rm, k, value) ==
    /\ value >= 0
    /\ k \in DOMAIN rm => Wrap(value + rm[k]) >= 0

\* addRM returns nil.
CanAddRM(rm, src) == \A k \in DOMAIN src : CanAdd(rm, k, src[k])

\* The map addRM leaves when it returns nil.
AddRM(rm, src) ==
    [k \in DOMAIN rm \cup DOMAIN src |-> Amount(rm, k) + Amount(src, k)]

\* subtract: fails on a key the map does not hold.
CanSubtract(rm, k, value) == value >= 0 /\ k \in DOMAIN rm

\* subtractRM returns nil.
CanSubtractRM(rm, src) == \A k \in DOMAIN src : CanSubtract(rm, k, src[k])

\* Mutant: a resource that is no longer used is dropped from the map.
SubtractAndDrop(rm, src) ==
    [k \in {j \in DOMAIN rm : rm[j] > Amount(src, j)} |-> rm[k] - Amount(src, k)]

\* The map subtractRM leaves when it returns nil: amounts are capped to zero.
SubtractRM(rm, src) ==
    [k \in DOMAIN rm |->
        LET left == rm[k] - Amount(src, k) IN IF left < 0 THEN 0 ELSE left]

\* divide by a positive divider (the error branch of a divider below 1 is not
\* reachable: every caller divides by the length of a non-empty list).
Divide(rm, divider) == [k \in DOMAIN rm |-> rm[k] \div divider]
=============================================================================
