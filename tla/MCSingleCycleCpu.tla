-------------------------- MODULE MCSingleCycleCpu --------------------------
(***************************************************************************)
(* SingleCycleCpu on every program of a small shape: four words from an    *)
(* alphabet of Alphabets at 8, 12, 16 and 20, and a jump to itself at 24.  *)
(* With the vector on one of them the words from there on are the handler, *)
(* which may trap itself.  Addresses 0 and 4 are data.                     *)
(***************************************************************************)
EXTENDS SingleCycleCpu, MCCode

CONSTANT Alphabets

MCPrograms ==
  UNION {{<<a, b, c, d, 12>> : a \in A, b \in A, c \in A, d \in A} : A \in Alphabets}
=============================================================================
