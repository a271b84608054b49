------------------------------ MODULE Allocator -------------------------------
(***************************************************************************)
(* What the users of the heap of lwIP rely on: every area that is given    *)
(* out lies in the heap and shares no byte with another one, it stays      *)
(* where it is until it is freed, and it is only ever made shorter.        *)
(***************************************************************************)
EXTENDS Naturals

CONSTANTS
  Top,   \* the number of bytes
  Sizes  \* the sizes that are asked for

VARIABLES areas  \* the areas that are given out: [at, len]

Bytes(a) == a.at .. (a.at + a.len - 1)
Disjoint(a, b) == Bytes(a) \cap Bytes(b) = {}

AInit == areas = {}

Give(a) ==
  /\ Bytes(a) \subseteq 0 .. Top - 1
  /\ \A b \in areas : Disjoint(a, b)
  /\ areas' = areas \cup {a}

TakeBack(a) == areas' = areas \ {a}

Shorten(a, len) ==
  /\ len <= a.len
  /\ areas' = (areas \ {a}) \cup {[a EXCEPT !.len = len]}

ANext ==
  \/ \E at \in 0 .. Top - 1, len \in Sizes : Give([at |-> at, len |-> len])
  \/ \E a \in areas : TakeBack(a)
  \/ \E a \in areas, len \in Sizes : Shorten(a, len)

ASpec == AInit /\ [][ANext]_areas
=============================================================================
