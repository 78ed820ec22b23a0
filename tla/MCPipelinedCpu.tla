--------------------------- MODULE MCPipelinedCpu ---------------------------
(***************************************************************************)
(* PipelinedCpu on every program of a small shape: four words from an      *)
(* alphabet of Alphabets at 8, 12, 16 and 20, a jump to itself at 24 and a *)
(* word of Handlers at 28.  Addresses 0 and 4 are data.                    *)
(***************************************************************************)
EXTENDS PipelinedCpu, MCCode

CONSTANTS Alphabets, Handlers

MCPrograms ==
  UNION {{<<a, b, c, d, 12, h>> : a \in A, b \in A, c \in A, d \in A, h \in Handlers} :
         A \in Alphabets}
=============================================================================
