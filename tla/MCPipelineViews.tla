--------------------------- MODULE MCPipelineViews ---------------------------
(***************************************************************************)
(* PipelineViews on programs of five words and an exception handler: loads *)
(* that stall, forwards, a loop of two instructions (11) and one of three  *)
(* (12), the same word in consecutive places (36) so that its events       *)
(* repeat, wrong-path fetches that are fetched again, and traps.           *)
(***************************************************************************)
EXTENDS PipelineViews, MCCode

MCPrograms ==
  {<<a, b, c, d, 12, 27>> : a \in {5, 36}, b \in {24, 36}, c \in {3, 11, 36}, d \in {5, 24}}
=============================================================================
