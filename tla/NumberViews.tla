----------------------------- MODULE NumberViews -----------------------------
(***************************************************************************)
(* nsc::Converter behind the converter tab, with parse_base and the format *)
(* functions, and the parser of .hex programs.  A text is a sequence of    *)
(* characters, a character is the value of the digit it stands for, or     *)
(* NotADigit; upper and lower case are the same.                           *)
(***************************************************************************)
EXTENDS Integers, Sequences, SequencesExt

CONSTANTS
  ValueSize,     \* how many values there are: 2^64 in the code
  HexWordSize,   \* how many words of a .hex program: 2^32
  Radix,         \* of the three fields: dec, hex, bin
  Texts,         \* what a field may become
  HexTexts,      \* lines a .hex file may have, comments and blanks removed
  MaxHexLines    \* bound: lines of a .hex file
ASSUME NumberAssumption ==
  /\ {ValueSize, HexWordSize} \subseteq Nat \ {0} /\ MaxHexLines \in Nat
  /\ Radix \in [{"dec", "hex", "bin"} -> Nat \ {0, 1}]
  /\ Texts \subseteq Seq(Nat)
  /\ HexTexts \subseteq [prefix : BOOLEAN, digits : Seq(Nat)]

VARIABLES
  value,         \* Converter::value_
  texts,         \* the three fields
  grouped,       \* nibble_str
  hex_lines, hex_program
numberVars == <<value, texts, grouped, hex_lines, hex_program>>

Fields == {"dec", "hex", "bin"}
NotADigit == 99       \* not a digit of any base
Blank == 98
NoValue == -1
NoProgram == [error |-> FALSE, words |-> <<>>]

-----------------------------------------------------------------------------
(* Text to number *)

(* Horner's rule, the way stoull and from_chars read digits. *)
valueOf(s, base) ==
  LET v[k \in 0 .. Len(s)] == IF k = 0 THEN 0 ELSE v[k - 1] * base + s[k] IN v
Digits(s, base) == valueOf(s, base)[Len(s)]

(* Mutant: a value that does not fit is reduced. *)
parse_base_wraps(s, base) ==
  IF s = <<>> \/ \E i \in 1 .. Len(s) : s[i] >= base THEN NoValue
  ELSE Digits(s, base) % ValueSize

(* Nothing but digits of the base, and no overflow. *)
parse_base(s, base) ==
  IF s = <<>> \/ \E i \in 1 .. Len(s) : s[i] >= base THEN NoValue
  ELSE LET v == Digits(s, base) IN IF v < ValueSize THEN v ELSE NoValue

(* Mutant: filled up from the right. *)
padRight(s) == s \o [i \in 1 .. (4 - (Len(s) % 4)) % 4 |-> 0]

(* Left pad with zeros to whole nibbles. *)
pad(s) == [i \in 1 .. (4 - (Len(s) % 4)) % 4 |-> 0] \o s

(* Mutant: the digits stay in the order they are found. *)
to_base_backwards(v, base) ==
  LET digits[u \in 0 .. v] ==
        IF u < base THEN <<u>> ELSE <<u % base>> \o digits[u \div base]
  IN  digits[v]

(* The digits of v are found from the low end and turned round: no leading *)
(* zeros, and one digit for zero.                                          *)
written(v, base) ==
  LET digits[u \in 0 .. v] ==
        IF u < base THEN <<u>> ELSE Append(digits[u \div base], u % base)
  IN  digits
to_base(v, base) == written(v, base)[v]

(* A blank after every four characters but the last. *)
group_bits(v) ==
  LET b == pad(to_base(v, 2))
      n == Len(b) \div 4
  IN  [i \in 1 .. Len(b) + n - 1 |-> IF i % 5 = 0 THEN Blank ELSE b[i - (i \div 5)]]

-----------------------------------------------------------------------------
(* The converter tab *)

(* Converter::update() keeps the value of a text that does not parse. *)
update(s, f) == parse_base(s, Radix[f])
as(v, f) == to_base(v, Radix[f])

NumberInit ==
  /\ value = 0
  /\ texts = [f \in Fields |-> <<0>>]
  /\ grouped = <<0, 0, 0, 0>>
  /\ hex_lines = <<>> /\ hex_program = NoProgram

(* Field f has become s.  What does not parse leaves the value and the     *)
(* other fields alone.                                                     *)
update_views(f, s) ==
  LET v == update(s, f) IN
  IF v = NoValue
  THEN texts' = [texts EXCEPT ![f] = s] /\ UNCHANGED <<value, grouped>>
  ELSE /\ value' = v
       /\ texts' = [g \in Fields |-> IF g = f THEN s ELSE as(v, g)]
       /\ grouped' = group_bits(v)

(* A field is typed or pasted into. *)
EditField ==
  /\ \E f \in Fields : \E s \in Texts \ {texts[f]} : update_views(f, s)
  /\ UNCHANGED <<hex_lines, hex_program>>

-----------------------------------------------------------------------------
(* Programs in hexadecimal *)

(* A line is [prefix, digits]: an optional 0x, which counts only before    *)
(* something else.                                                         *)
hexWord(l) ==
  IF l.digits = <<>> \/ \E i \in 1 .. Len(l.digits) : l.digits[i] >= Radix["hex"] THEN NoValue
  ELSE LET v == Digits(l.digits, Radix["hex"]) IN IF v < HexWordSize THEN v ELSE NoValue

(* A line with nothing left is skipped. *)
blankLine(l) == ~l.prefix /\ l.digits = <<>>

(* Mutant: the words before the bad line are kept. *)
readLineKeeps(p, l) ==
  IF p.error \/ blankLine(l) THEN p
  ELSE IF hexWord(l) = NoValue THEN [p EXCEPT !.error = TRUE]
  ELSE [p EXCEPT !.words = Append(p.words, hexWord(l))]

(* The first bad line empties the program and ends the loop. *)
readLine(p, l) ==
  IF p.error \/ blankLine(l) THEN p
  ELSE IF hexWord(l) = NoValue THEN [error |-> TRUE, words |-> <<>>]
  ELSE [p EXCEPT !.words = Append(p.words, hexWord(l))]

programs(ls) ==
  LET p[i \in 0 .. Len(ls)] == IF i = 0 THEN NoProgram ELSE readLine(p[i - 1], ls[i]) IN p
parse_hex_program(ls) == programs(ls)[Len(ls)]

AddHexLine ==
  /\ Len(hex_lines) < MaxHexLines
  /\ \E l \in HexTexts : hex_lines' = Append(hex_lines, l)
  /\ hex_program' = parse_hex_program(hex_lines')
  /\ UNCHANGED <<value, texts, grouped>>

-----------------------------------------------------------------------------
(* Properties *)

Shows(f) ==
  /\ texts[f] # <<>> /\ \A i \in 1 .. Len(texts[f]) : texts[f][i] < Radix[f]
  /\ Digits(texts[f], Radix[f]) = value
Unreadable(f) ==
  \/ texts[f] = <<>> \/ \E i \in 1 .. Len(texts[f]) : texts[f][i] >= Radix[f]
  \/ Digits(texts[f], Radix[f]) >= ValueSize

(* No field ever shows another number than the rest: each one reads as the *)
(* value, or cannot be read at all.                                        *)
FieldsAgree ==
  /\ value \in 0 .. ValueSize - 1
  /\ \A f \in Fields : Shows(f) \/ Unreadable(f)

(* The grouped bits are those of the value, in whole nibbles. *)
BitsAgree ==
  LET bits == [j \in 1 .. Len(grouped) - Len(grouped) \div 5 |-> grouped[j + (j - 1) \div 4]] IN
  /\ Digits(bits, 2) = value /\ Len(bits) % 4 = 0
  /\ \A i \in 1 .. Len(grouped) : grouped[i] = Blank <=> i % 5 = 0

(* What is typed last, and can be read, decides: an edit that can be read  *)
(* brings all fields together, also those that could not be read.          *)
EditsReachAllFields ==
  [][value' # value => \A f \in Fields : Shows(f)']_numberVars

(* A hexadecimal program is accepted as a whole or not at all: a line more *)
(* adds its word or none, and after a bad line nothing is left and nothing *)
(* is accepted.                                                            *)
HexProgramIsWhole ==
  [][hex_lines' # hex_lines =>
       /\ hex_program'.error => hex_program'.words = <<>>
       /\ hex_program.error => hex_program'.error
       /\ ~hex_program'.error =>
            /\ IsPrefix(hex_program.words, hex_program'.words)
            /\ \A i \in 1 .. Len(hex_program'.words) : hex_program'.words[i] \in 0 .. HexWordSize - 1]_numberVars

(* The converter's fields and bits show one number, the one last typed. *)
ConverterFollowsEdits == [](FieldsAgree /\ BitsAgree) /\ EditsReachAllFields
=============================================================================
