----------------------------- MODULE MCGdbInput -----------------------------
(***************************************************************************)
(* GdbInput with a two-digit checksum to base four: continue, escaped      *)
(* continue, kill, the empty packet, a query with 0x03 in its data, and    *)
(* packets with a wrong checksum, one that is not hex, too many characters *)
(* and an unfinished escape.                                               *)
(***************************************************************************)
EXTENDS GdbInput

MCByte == {"^C", "$", "#", "}", "c", "C", "q", "k", "D", "+", "0", "1", "2", "3"}
MCCode ==
  [b \in MCByte |-> CASE b = "c" -> 1 [] b = "q" -> 2 [] b = "k" -> 3 [] b = "}" -> 4
                      [] b = "C" -> 5 [] OTHER -> 7]
MCHexDigit ==
  [b \in {"0", "1", "2", "3"} |-> CASE b = "0" -> 0 [] b = "1" -> 1 [] b = "2" -> 2 [] b = "3" -> 3]
MCUnescaped == [b \in MCByte |-> IF b = "C" THEN "c" ELSE b]
Intact(bytes, payload) == [bytes |-> bytes, ok |-> TRUE, payload |-> payload]
Damaged(bytes) == [bytes |-> bytes, ok |-> FALSE, payload |-> <<>>]
MCFrames ==
  {Intact(<<"$", "c", "#", "0", "1">>, <<"c">>),
   Intact(<<"$", "}", "C", "#", "2", "1">>, <<"c">>),
   Intact(<<"$", "q", "^C", "#", "2", "1">>, <<"q", "^C">>),
   Intact(<<"$", "k", "#", "0", "3">>, <<"k">>),
   Intact(<<"$", "#", "0", "0">>, <<>>),
   Damaged(<<"$", "q", "#", "0", "1">>),
   Damaged(<<"$", "q", "#", "0", "+">>),
   Damaged(<<"$", "q", "q", "q", "#", "1", "2">>),
   Damaged(<<"$", "}", "#", "1", "0">>)}
MCNoise == {<<"+">>, <<"+", "+", "+">>}
=============================================================================
