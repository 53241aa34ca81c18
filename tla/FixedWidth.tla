---------------------------- MODULE FixedWidth ----------------------------
(***************************************************************************)
(* The unsigned arithmetic of the SystemVerilog sources.  Every coordinate *)
(* is a logic [9:0], so an expression over coordinates alone wraps modulo  *)
(* Word (2^10 in the build).  As soon as an unsized literal such as the 5  *)
(* of barrier.sv:30 or the 10 of hit_detector.sv:179 takes part, the whole *)
(* comparison is evaluated on 32 bits and wraps modulo Wide instead, where *)
(* a negative difference is larger than every coordinate.                  *)
(***************************************************************************)
EXTENDS Integers

CONSTANTS
  Word,   \* number of values of a coordinate register
  Wide    \* number of values of an expression that holds an unsized literal

(***************************************************************************)
(* A sum of two coordinates and a margin never reaches Wide, and a         *)
(* negative one lands above every coordinate.                              *)
(***************************************************************************)
ASSUME WidthAssumption ==
  /\ Word \in Nat \ {0}
  /\ Wide \in Nat
  /\ Wide >= 8 * Word

Coordinate == 0 .. Word - 1

Wrap(n) == n % Word
WrapWide(n) == n % Wide

\* v lies within r of c, all three terms on 10 bits.
Within(v, c, r) == Wrap(c - r) <= v /\ v <= Wrap(c + r)

\* v lies within r of c, all three terms on 32 bits.
WithinWide(v, c, r) ==
  /\ WrapWide(c - r) <= WrapWide(v)
  /\ WrapWide(v) <= WrapWide(c + r)

Directions == {"left", "right", "down", "up"}

\* The walls of a barrier, the one-hot bits of barrier.sv.
Walls == {"leftWall", "rightWall", "topWall", "bottomWall"}
===========================================================================
