----------------------------- MODULE InputProofs -----------------------------
(***************************************************************************)
(* What holds of what comes in from outside, whatever it is: the receiving *)
(* side of the debugger, over every connection and every buffer, packet    *)
(* and poll size; the ELF loader, over every file and every memory; the    *)
(* parser of .hex programs and the number converter, over every text; and  *)
(* the assembler, over every source.                                       *)
(***************************************************************************)
EXTENDS GdbInput, Toolchain, FiniteSetTheorems, SequenceTheorems, TLAPS

-----------------------------------------------------------------------------
(* Counting Ctrl-C *)

LEMMA SizesType ==
  /\ RxSize \in Nat /\ RxSize > 0
  /\ kInterruptPollSteps \in Nat /\ kInterruptPollSteps > 0
  /\ kMaxPacketSize \in Nat /\ MaxSends \in Nat
<1>1. RxSize \in Nat \ {0} /\ kInterruptPollSteps \in Nat \ {0}
  BY InputAssumption, Zenon
<1>2. kMaxPacketSize \in Nat /\ MaxSends \in Nat
  BY InputAssumption, Zenon
<1> QED BY <1>1, <1>2

At(s) == {i \in DOMAIN s : s[i] = Interrupt}

LEMMA InterruptsType ==
  ASSUME NEW s \in Seq(Byte)
  PROVE  /\ IsFiniteSet(At(s)) /\ At(s) \subseteq 1 .. Len(s)
         /\ Interrupts(s) = Cardinality(At(s)) /\ Interrupts(s) \in Nat
         /\ Interrupts(s) = 0 <=> \A i \in 1 .. Len(s) : s[i] # Interrupt
<1>1. Len(s) \in Nat /\ DOMAIN s = 1 .. Len(s)
  OBVIOUS
<1>2. At(s) \subseteq 1 .. Len(s) /\ IsFiniteSet(1 .. Len(s))
  BY <1>1, FS_Interval DEF At
<1>3. IsFiniteSet(At(s))
  BY <1>2, FS_Subset
<1>4. Interrupts(s) = Cardinality(At(s))
  BY DEF Interrupts, At
<1>5. Cardinality(At(s)) \in Nat /\ (Cardinality(At(s)) = 0 <=> At(s) = {})
  BY <1>3, FS_CardinalityType, FS_EmptySet
<1>6. At(s) = {} <=> \A i \in 1 .. Len(s) : s[i] # Interrupt
  BY <1>1 DEF At
<1> QED BY <1>2, <1>3, <1>4, <1>5, <1>6

LEMMA InterruptsEmpty == Interrupts(<<>>) = 0
<1>1. At(<<>>) = {}
  BY DEF At
<1> QED BY <1>1, FS_EmptySet DEF Interrupts, At

(* A piece and the rest have the Ctrl-C of the whole between them. *)
LEMMA InterruptsConcat ==
  ASSUME NEW s \in Seq(Byte), NEW t \in Seq(Byte)
  PROVE  Interrupts(s \o t) = Interrupts(s) + Interrupts(t)
<1> DEFINE n == Len(s)
           moved == [i \in At(t) |-> n + i]
           M == {n + i : i \in At(t)}
<1>1. /\ n \in Nat /\ Len(t) \in Nat /\ DOMAIN s = 1 .. n /\ DOMAIN t = 1 .. Len(t)
      /\ s \o t \in Seq(Byte) /\ DOMAIN (s \o t) = 1 .. n + Len(t)
      /\ \A i \in 1 .. n + Len(t) : (s \o t)[i] = IF i <= n THEN s[i] ELSE t[i - n]
  OBVIOUS
<1>2. /\ IsFiniteSet(At(s)) /\ IsFiniteSet(At(t))
      /\ At(s) \subseteq 1 .. n /\ At(t) \subseteq 1 .. Len(t)
      /\ Interrupts(s) = Cardinality(At(s)) /\ Interrupts(t) = Cardinality(At(t))
      /\ Interrupts(s \o t) = Cardinality(At(s \o t))
  BY <1>1, InterruptsType
<1> HIDE DEF n
<1>3. IsFiniteSet(M) /\ Cardinality(M) = Cardinality(At(t))
  <2>1. moved \in [At(t) -> M]
    OBVIOUS
  <2>2. \A i, j \in At(t) : moved[i] = moved[j] => i = j
    BY <1>1, <1>2
  <2>3. \A m \in M : \E i \in At(t) : moved[i] = m
    OBVIOUS
  <2>4. moved \in Bijection(At(t), M)
    BY <2>1, <2>2, <2>3 DEF Bijection, Injection, Surjection, IsInjective
  <2> QED BY <1>2, <2>4, FS_Bijection DEF ExistsBijection
<1>4. At(s \o t) = At(s) \cup M
  <2>1. ASSUME NEW i \in At(s \o t) PROVE i \in At(s) \cup M
    <3>1. i \in 1 .. n + Len(t) /\ (s \o t)[i] = Interrupt
      BY <1>1 DEF At
    <3>2. CASE i <= n
      BY <1>1, <3>1, <3>2 DEF At
    <3>3. CASE ~(i <= n)
      <4>1. i - n \in 1 .. Len(t) /\ t[i - n] = Interrupt /\ n + (i - n) = i
        BY <1>1, <3>1, <3>3
      <4>2. i - n \in At(t)
        BY <1>1, <4>1 DEF At
      <4> QED BY <4>1, <4>2
    <3> QED BY <3>2, <3>3
  <2>2. At(s) \subseteq At(s \o t)
    BY <1>1 DEF At
  <2>3. M \subseteq At(s \o t)
    BY <1>1 DEF At
  <2> QED BY <2>1, <2>2, <2>3
<1>5. At(s) \cap M = {}
  BY <1>1, <1>2
<1> HIDE DEF M
<1>6. Cardinality(At(s) \cup M) = Cardinality(At(s)) + Cardinality(M) - Cardinality({})
  BY <1>2, <1>3, <1>5, FS_Union
<1>7. Cardinality(At(s)) \in Nat /\ Cardinality(M) \in Nat
  BY <1>2, <1>3, FS_CardinalityType
<1> QED BY <1>2, <1>3, <1>4, <1>6, <1>7, FS_EmptySet

LEMMA InterruptsSplit ==
  ASSUME NEW s \in Seq(Byte), NEW n \in 0 .. Len(s)
  PROVE  /\ SubSeq(s, 1, n) \in Seq(Byte) /\ SubSeq(s, n + 1, Len(s)) \in Seq(Byte)
         /\ Len(SubSeq(s, 1, n)) = n /\ Len(SubSeq(s, n + 1, Len(s))) = Len(s) - n
         /\ s = SubSeq(s, 1, n) \o SubSeq(s, n + 1, Len(s))
         /\ Interrupts(s) = Interrupts(SubSeq(s, 1, n)) + Interrupts(SubSeq(s, n + 1, Len(s)))
<1>1. Len(s) \in Nat /\ \A i \in 1 .. Len(s) : s[i] \in Byte
  OBVIOUS
<1>2. /\ SubSeq(s, 1, n) \in Seq(Byte) /\ Len(SubSeq(s, 1, n)) = n
  BY <1>1, SubSeqProperties
<1>3. SubSeq(s, n + 1, Len(s)) \in Seq(Byte) /\ Len(SubSeq(s, n + 1, Len(s))) = Len(s) - n
  BY <1>1, SubSeqProperties
<1>4. s = SubSeq(s, 1, n) \o SubSeq(s, n + 1, Len(s))
  <2>1. SubSeq(s, 1, n) \o SubSeq(s, n + 1, Len(s)) = SubSeq(s, 1, Len(s))
    <3>1. 1 \in 1 .. Len(s) + 1 /\ n \in 1 - 1 .. Len(s) /\ Len(s) \in n .. Len(s)
      BY <1>1
    <3> QED BY <3>1, ConcatAdjacentSubSeq
  <2>2. SubSeq(s, 1, Len(s)) = s
    BY SubSeqFull
  <2> QED BY <2>1, <2>2
<1> QED BY <1>2, <1>3, <1>4, InterruptsConcat

LEMMA InterruptsTail ==
  ASSUME NEW s \in Seq(Byte), s # <<>>
  PROVE  /\ Head(s) \in Byte /\ Tail(s) \in Seq(Byte) /\ Len(Tail(s)) = Len(s) - 1
         /\ Interrupts(s) = Interrupts(Tail(s)) + (IF Head(s) = Interrupt THEN 1 ELSE 0)
<1>1. /\ Head(s) \in Byte /\ Tail(s) \in Seq(Byte) /\ Len(Tail(s)) = Len(s) - 1
      /\ <<Head(s)>> \in Seq(Byte)
      /\ s = <<Head(s)>> \o Tail(s)
  OBVIOUS
<1>2. Interrupts(s) = Interrupts(<<Head(s)>>) + Interrupts(Tail(s))
  BY <1>1, InterruptsConcat, Zenon
<1>3. Interrupts(<<Head(s)>>) = IF Head(s) = Interrupt THEN 1 ELSE 0
  <2>1. CASE Head(s) = Interrupt
    <3>1. At(<<Head(s)>>) = {1}
      BY <2>1 DEF At
    <3> QED BY <2>1, <3>1, FS_Singleton DEF Interrupts, At
  <2>2. CASE Head(s) # Interrupt
    <3>1. At(<<Head(s)>>) = {}
      BY <2>2 DEF At
    <3> QED BY <2>2, <3>1, FS_EmptySet DEF Interrupts, At
  <2> QED BY <2>1, <2>2
<1>4. Interrupts(Tail(s)) \in Nat
  BY <1>1, InterruptsType
<1> QED BY <1>1, <1>2, <1>3, <1>4

-----------------------------------------------------------------------------
(* The first Ctrl-C of a sequence, and what poll_input() does with it *)

LEMMA Smallest ==
  ASSUME NEW S \in SUBSET Nat, S # {}
  PROVE  Min(S) \in S /\ \A y \in S : Min(S) <= y
<1>1. PICK x \in S : \A y \in S : ~(<<y, x>> \in OpToRel(<, Nat))
  BY NatLessThanWellFounded, WFMin
<1>2. \A y \in Nat : y < x => <<y, x>> \in OpToRel(<, Nat)
  BY Zenon DEF OpToRel
<1>3. \A y \in S : y \in Nat /\ x \in Nat /\ ~(y < x)
  BY <1>1, <1>2
<1>4. \A y \in S : x <= y
  BY <1>3
<1> QED BY <1>4, Zenon DEF Min

LEMMA FirstInterruptFound ==
  ASSUME NEW s \in Seq(Byte)
  PROVE  LET at == FirstInterrupt(s) IN
         /\ at \in 0 .. Len(s)
         /\ at = 0 <=> Interrupts(s) = 0
         /\ at > 0 => Interrupts(s) = Interrupts(SubSeq(s, at + 1, Len(s))) + 1
<1> DEFINE at == FirstInterrupt(s)
           I == {i \in 1 .. Len(s) : s[i] = Interrupt}
<1>1. at = IF I # {} THEN Min(I) ELSE 0
  BY DEF FirstInterrupt, SelectInSeq
<1>2. Len(s) \in Nat /\ I \in SUBSET Nat
  OBVIOUS
<1>3. Interrupts(s) = 0 <=> I = {}
  BY InterruptsType
<1>4. CASE I = {}
  BY <1>1, <1>2, <1>3, <1>4
<1>5. CASE I # {}
  <2>1. at \in I /\ \A j \in I : at <= j
    BY <1>1, <1>2, <1>5, Smallest
  <2>2. at \in 1 .. Len(s) /\ s[at] = Interrupt
    BY <2>1
  <2> HIDE DEF at
  <2>3. \A i \in 1 .. at : s[i] = Interrupt => i = at
    BY <2>1, <2>2
  <2>4. /\ SubSeq(s, 1, at) \in Seq(Byte) /\ Len(SubSeq(s, 1, at)) = at
        /\ SubSeq(s, at + 1, Len(s)) \in Seq(Byte)
        /\ Interrupts(s) = Interrupts(SubSeq(s, 1, at)) + Interrupts(SubSeq(s, at + 1, Len(s)))
    <3>1. at \in 0 .. Len(s)
      BY <1>2, <2>2
    <3> QED BY <3>1, InterruptsSplit
  <2>5. \A i \in 1 .. at : SubSeq(s, 1, at)[i] = s[i]
    BY <1>2, <2>2
  <2>6. At(SubSeq(s, 1, at)) = {at}
    BY <2>2, <2>3, <2>4, <2>5 DEF At
  <2>7. Interrupts(SubSeq(s, 1, at)) = 1
    BY <2>6, FS_Singleton DEF Interrupts, At
  <2>8. Interrupts(SubSeq(s, at + 1, Len(s))) \in Nat
    BY <2>4, InterruptsType
  <2>9. Interrupts(s) = Interrupts(SubSeq(s, at + 1, Len(s))) + 1
    BY <2>4, <2>7, <2>8
  <2>10. Interrupts(s) # 0
    BY <1>3, <1>5
  <2> QED BY <2>2, <2>9, <2>10 DEF at
<1> QED BY <1>4, <1>5

LEMMA MinOfTwo ==
  ASSUME NEW a \in Nat, NEW b \in Nat
  PROVE  /\ Min({a, b}) = IF a <= b THEN a ELSE b
         /\ Min({a, b}) \in Nat
<1>1. Min({a, b}) \in {a, b} /\ \A y \in {a, b} : Min({a, b}) <= y
  <2>1. {a, b} \in SUBSET Nat /\ {a, b} # {}
    OBVIOUS
  <2> QED BY <2>1, Smallest
<1> QED BY <1>1

(* With room in the buffer, poll_input() takes what fits, answers the      *)
(* first Ctrl-C and drops what came before it, and reports a closed        *)
(* connection only when it is.                                             *)
LEMMA PolledEffect ==
  ASSUME NEW kept \in Seq(Byte), Len(kept) < RxSize, sock \in Seq(Byte)
  PROVE  LET n == Min({Len(sock), RxSize - Len(kept)})
             p == Polled(kept, 0)
         IN  /\ n \in 0 .. Len(sock)
             /\ p.sock = SubSeq(sock, n + 1, Len(sock)) /\ p.sock \in Seq(Byte)
             /\ p.rx \in Seq(Byte) /\ Len(p.rx) <= RxSize
             /\ Interrupts(kept) + Interrupts(sock)
                  = Interrupts(p.sock) + Interrupts(p.rx)
                    + (IF p.input = "Interrupt" THEN 1 ELSE 0)
             /\ p.input # "Interrupt" => /\ p.rx = kept \o SubSeq(sock, 1, n)
                                         /\ Interrupts(p.rx) = 0
             /\ p.input = "Closed" => ~open
<1> DEFINE n   == Min({Len(sock), RxSize - Len(kept)})
           got0 == SubSeq(sock, 1, n)
           rest == SubSeq(sock, n + 1, Len(sock))
           buf == kept \o got0
           at  == FirstInterrupt(buf)
           p   == Polled(kept, 0)
<1>1. Len(kept) \in Nat /\ Len(sock) \in Nat /\ RxSize \in Nat /\ RxSize - Len(kept) \in Nat
  <2>1. RxSize \in Nat /\ Len(kept) \in Nat /\ Len(sock) \in Nat
    BY SizesType
  <2> QED BY <2>1
<1>2. n \in 0 .. Len(sock) /\ Len(kept) + n <= RxSize
  BY <1>1, MinOfTwo
<1> HIDE DEF n
<1>3. /\ got0 \in Seq(Byte) /\ rest \in Seq(Byte) /\ Len(got0) = n
      /\ Interrupts(sock) = Interrupts(got0) + Interrupts(rest)
  BY <1>2, InterruptsSplit
<1> HIDE DEF got0, rest
<1>4. buf \in Seq(Byte) /\ Len(buf) = Len(kept) + n /\ Interrupts(buf) = Interrupts(kept) + Interrupts(got0)
  <2>1. buf \in Seq(Byte) /\ Len(buf) = Len(kept) + Len(got0)
    BY <1>3, ConcatProperties
  <2> QED BY <1>3, <2>1, InterruptsConcat
<1>5. SubSeq(buf, 0 + 1, Len(buf)) = buf
  BY <1>4, SubSeqFull
<1> HIDE DEF buf
<1>6. p = [sock  |-> rest,
           rx    |-> IF at > 0 THEN SubSeq(buf, 0 + at + 1, Len(buf)) ELSE buf,
           input |-> IF at > 0 THEN "Interrupt"
                     ELSE IF n = 0 /\ (Len(kept) = RxSize \/ (sock = <<>> /\ ~open)) THEN "Closed"
                     ELSE "Idle"]
  BY <1>5 DEF Polled, n, got0, rest, buf
<1>7. /\ at \in 0 .. Len(buf)
      /\ at = 0 <=> Interrupts(buf) = 0
      /\ at > 0 => Interrupts(buf) = Interrupts(SubSeq(buf, at + 1, Len(buf))) + 1
  BY <1>4, FirstInterruptFound
<1> HIDE DEF at, p
<1>8. /\ p.sock = rest
      /\ p.rx = IF at > 0 THEN SubSeq(buf, at + 1, Len(buf)) ELSE buf
      /\ (p.input = "Interrupt") <=> (at > 0)
      /\ p.input = "Closed" => ~open
  BY <1>1, <1>4, <1>6, <1>7
<1>9. /\ Interrupts(kept) \in Nat /\ Interrupts(got0) \in Nat /\ Interrupts(rest) \in Nat
  BY <1>3, InterruptsType
<1>10. /\ p.rx \in Seq(Byte) /\ Len(p.rx) <= RxSize
       /\ Interrupts(buf) = Interrupts(p.rx) + (IF p.input = "Interrupt" THEN 1 ELSE 0)
       /\ Interrupts(p.rx) \in Nat
       /\ p.input # "Interrupt" => p.rx = buf /\ Interrupts(p.rx) = 0
  <2>1. CASE at > 0
    <3>1. /\ SubSeq(buf, at + 1, Len(buf)) \in Seq(Byte)
          /\ Len(SubSeq(buf, at + 1, Len(buf))) = Len(buf) - at
      BY <1>4, <1>7, InterruptsSplit
    <3>2. Interrupts(SubSeq(buf, at + 1, Len(buf))) \in Nat
      BY <3>1, InterruptsType
    <3>3. p.rx = SubSeq(buf, at + 1, Len(buf)) /\ p.input = "Interrupt"
      BY <1>8, <2>1
    <3>4. Len(buf) - at <= RxSize
      BY <1>1, <1>2, <1>4, <1>7
    <3> QED BY <1>7, <2>1, <3>1, <3>2, <3>3, <3>4
  <2>2. CASE ~(at > 0)
    <3>1. at = 0
      BY <1>7, <2>2
    <3>2. p.rx = buf /\ p.input # "Interrupt" /\ Interrupts(buf) = 0
      BY <1>7, <1>8, <3>1
    <3> QED BY <1>1, <1>2, <1>4, <3>2
  <2> QED BY <2>1, <2>2
<1>11. /\ n \in 0 .. Len(sock)
       /\ p.sock = rest /\ p.sock \in Seq(Byte)
       /\ Interrupts(kept) + Interrupts(sock)
            = Interrupts(p.sock) + Interrupts(p.rx) + (IF p.input = "Interrupt" THEN 1 ELSE 0)
       /\ p.input = "Closed" => ~open
  <2>1. p.sock = rest /\ (p.input = "Closed" => ~open)
    BY <1>8
  <2>2. /\ Interrupts(kept) + Interrupts(sock) = Interrupts(buf) + Interrupts(rest)
        /\ Interrupts(buf) + Interrupts(rest)
             = Interrupts(rest) + Interrupts(p.rx) + (IF p.input = "Interrupt" THEN 1 ELSE 0)
    BY <1>3, <1>4, <1>9, <1>10
  <2> QED BY <1>2, <1>3, <2>1, <2>2
<1> QED BY <1>10, <1>11, Zenon DEF p, n, rest, buf, got0

-----------------------------------------------------------------------------
(* The decoded payload *)

(* Induction up to n, over the set of the numbers that have a property.    *)
LEMMA Climb ==
  ASSUME NEW n \in Nat, NEW P, 0 \in P, \A i \in 0 .. n : i < n /\ i \in P => i + 1 \in P
  PROVE  0 .. n \subseteq P
<1> DEFINE B == {i \in 0 .. n : i \notin P}
<1>1. CASE B = {}
  BY <1>1
<1>2. CASE B # {}
  <2>1. Min(B) \in B /\ \A y \in B : Min(B) <= y
    <3>1. B \in SUBSET Nat
      OBVIOUS
    <3> QED BY <1>2, <3>1, Smallest
  <2> DEFINE m == Min(B)
  <2>2. m \in 0 .. n /\ m \notin P /\ m # 0
    BY <2>1
  <2>3. m - 1 \in 0 .. n /\ m - 1 < n /\ m - 1 < m /\ (m - 1) + 1 = m
    BY <2>2
  <2>4. m - 1 \notin B
    BY <2>1, <2>2, <2>3
  <2> QED BY <2>2, <2>3, <2>4
<1> QED BY <1>1, <1>2

LEMMA UnescapeType ==
  ASSUME NEW raw \in Seq(Byte)
  PROVE  unescape(raw).out \in Seq(Byte)
<1> DEFINE n == Len(raw)
           mark[i \in 0 .. Len(raw)] == IF i = 0 THEN FALSE ELSE raw[i] = "}" /\ ~mark[i - 1]
           text[i \in 0 .. Len(raw)] ==
             IF i = 0 THEN <<>>
             ELSE IF mark[i] THEN text[i - 1]
             ELSE Append(text[i - 1], IF mark[i - 1] THEN Unescaped[raw[i]] ELSE raw[i])
           more(i, t) == IF mark[i] THEN t
                         ELSE Append(t, IF mark[i - 1] THEN Unescaped[raw[i]] ELSE raw[i])
           reads(f) == f = [i \in 0 .. n |-> IF i = 0 THEN <<>> ELSE more(i, f[i - 1])]
           part(k) == {f \in [0 .. n -> Seq(Byte)] :
                         \A i \in 0 .. k : f[i] = IF i = 0 THEN <<>> ELSE more(i, f[i - 1])}
<1>1. unescape(raw).out = text[n]
  BY DEF unescape
<1>2. text = CHOOSE f : reads(f)
  BY Zenon
<1>3. n \in Nat /\ \A i \in 1 .. n : raw[i] \in Byte /\ Unescaped[raw[i]] \in Byte
  <2>1. Unescaped \in [Byte -> Byte]
    BY InputAssumption, Zenon
  <2> QED BY <2>1
<1> HIDE DEF mark, text
<1>4. \A i \in 1 .. n : \A t \in Seq(Byte) : more(i, t) \in Seq(Byte)
  <2> SUFFICES ASSUME NEW i \in 1 .. n, NEW t \in Seq(Byte) PROVE more(i, t) \in Seq(Byte)
    OBVIOUS
  <2>1. more(i, t) \in {t, Append(t, Unescaped[raw[i]]), Append(t, raw[i])}
    BY Zenon
  <2>2. Append(t, Unescaped[raw[i]]) \in Seq(Byte) /\ Append(t, raw[i]) \in Seq(Byte)
    BY <1>3
  <2> QED BY <2>1, <2>2
<1> HIDE DEF n, more
<1>5. \A k \in 0 .. n : part(k) # {}
  <2> DEFINE P == {k \in Nat : part(k) # {}}
  <2>1. 0 \in P
    <3>1. [i \in 0 .. n |-> <<>>] \in part(0)
      BY <1>3
    <3> QED BY <3>1
  <2>2. \A k \in 0 .. n : k < n /\ k \in P => k + 1 \in P
    <3> SUFFICES ASSUME NEW k \in 0 .. n, k < n, k \in P PROVE k + 1 \in P
      OBVIOUS
    <3>1. PICK f \in [0 .. n -> Seq(Byte)] :
            \A i \in 0 .. k : f[i] = IF i = 0 THEN <<>> ELSE more(i, f[i - 1])
      OBVIOUS
    <3> DEFINE g == [f EXCEPT ![k + 1] = more(k + 1, f[k])]
    <3>2. k + 1 \in 1 .. n /\ k \in 0 .. n /\ more(k + 1, f[k]) \in Seq(Byte)
      BY <1>3, <1>4
    <3>3. g \in [0 .. n -> Seq(Byte)] /\ g[k + 1] = more(k + 1, f[k])
          /\ \A i \in 0 .. k : g[i] = f[i]
      BY <1>3, <3>2
    <3> HIDE DEF g
    <3>4. \A i \in 0 .. k + 1 : g[i] = IF i = 0 THEN <<>> ELSE more(i, g[i - 1])
      <4> SUFFICES ASSUME NEW i \in 0 .. k + 1
                   PROVE  g[i] = IF i = 0 THEN <<>> ELSE more(i, g[i - 1])
        OBVIOUS
      <4>1. CASE i = k + 1
        BY <3>2, <3>3, <4>1
      <4>2. CASE i # k + 1
        <5>1. i \in 0 .. k /\ (i # 0 => i - 1 \in 0 .. k)
          BY <4>2
        <5> QED BY <3>1, <3>3, <5>1
      <4> QED BY <4>1, <4>2
    <3>5. g \in part(k + 1) /\ k + 1 \in Nat
      BY <3>3, <3>4
    <3> HIDE DEF part
    <3> QED BY <3>5
  <2> HIDE DEF P
  <2>3. 0 .. n \subseteq P
    BY <1>3, <2>1, <2>2, Climb
  <2> QED BY <2>3 DEF P
<1>6. reads(text)
  <2>1. PICK f \in [0 .. n -> Seq(Byte)] :
          \A i \in 0 .. n : f[i] = IF i = 0 THEN <<>> ELSE more(i, f[i - 1])
    <3>1. n \in 0 .. n
      BY <1>3
    <3>2. PICK f : f \in part(n)
      BY <1>5, <3>1
    <3> QED BY <3>2
  <2>2. reads(f)
    BY <2>1
  <2> HIDE DEF reads
  <2> QED BY <1>2, <2>2, Zenon
<1>7. text[0] = <<>> /\ \A i \in 1 .. n : text[i] = more(i, text[i - 1])
  BY <1>3, <1>6
<1>8. 0 .. n \subseteq {i \in Nat : text[i] \in Seq(Byte)}
  <2> DEFINE P == {i \in Nat : text[i] \in Seq(Byte)}
  <2>1. 0 \in P
    <3>1. <<>> \in Seq(Byte)
      OBVIOUS
    <3> QED BY <1>7, <3>1
  <2>2. \A i \in 0 .. n : i < n /\ i \in P => i + 1 \in P
    <3> SUFFICES ASSUME NEW i \in 0 .. n, i < n, i \in P PROVE i + 1 \in P
      OBVIOUS
    <3>1. i + 1 \in 1 .. n /\ (i + 1) - 1 = i
      BY <1>3
    <3> QED BY <1>4, <1>7, <3>1
  <2> HIDE DEF P
  <2>3. 0 .. n \subseteq P
    BY <1>3, <2>1, <2>2, Climb
  <2> QED BY <2>3 DEF P
<1> QED BY <1>1, <1>3, <1>8

-----------------------------------------------------------------------------
(* The bounds of the input, and every Ctrl-C *)

(* A Ctrl-C that could be read has waited since the last poll at most, and *)
(* the steps are counted from the start of each c.                         *)
PollsAreCounted == waited <= steps /\ (mode # "running" => steps = 0)

InputIInv == InputInv /\ PollsAreCounted

LEMMA InputInitial == Init => InputIInv
<1> SUFFICES ASSUME Init PROVE InputIInv
  OBVIOUS
<1>1. /\ gdb = <<>> /\ open = TRUE /\ sock = <<>> /\ rx = <<>> /\ mode = "between"
      /\ out = <<>> /\ too_long = FALSE /\ hi = NoByte /\ steps = 0 /\ sends = 0
      /\ sent = <<>> /\ got = <<>>
      /\ arrived = 0 /\ inside = 0 /\ sigints = 0 /\ waited = 0
  BY DEF Init
<1>2. <<>> \in Seq(Byte) /\ <<>> \in Seq(Seq(Byte)) /\ Len(<<>>) = 0
  OBVIOUS
<1>3. InputTypeOK
  <2>1. open \in BOOLEAN /\ too_long \in BOOLEAN /\ mode \in {"between", "running", "ended"} \cup InPacket
        /\ hi \in Byte \cup {NoByte}
    BY <1>1, Zenon
  <2>2. steps \in 0 .. kInterruptPollSteps - 1 /\ sends \in 0 .. MaxSends
        /\ Len(rx) <= RxSize /\ Len(out) <= kMaxPacketSize
        /\ {arrived, inside, sigints, waited} \subseteq Nat
    BY <1>1, <1>2, SizesType
  <2>3. /\ gdb \in Seq(Byte) /\ sock \in Seq(Byte) /\ rx \in Seq(Byte) /\ out \in Seq(Byte)
        /\ sent \in Seq(Seq(Byte)) /\ got \in Seq(Seq(Byte))
    BY <1>1, <1>2
  <2> QED BY <2>1, <2>2, <2>3 DEF InputTypeOK
<1>4. InterruptsAccounted /\ FullBufferHasNoInterrupt /\ InterruptIsPrompt /\ PollsAreCounted
  BY <1>1, InterruptsEmpty, SizesType DEF InterruptsAccounted, FullBufferHasNoInterrupt,
                                          InterruptIsPrompt, PollsAreCounted
<1> QED BY <1>3, <1>4 DEF InputIInv, InputInv

LEMMA TypeParts ==
  ASSUME InputTypeOK
  PROVE  /\ gdb \in Seq(Byte) /\ sock \in Seq(Byte) /\ rx \in Seq(Byte)
         /\ Len(gdb) \in Nat /\ Len(sock) \in Nat /\ Len(rx) \in Nat /\ Len(rx) <= RxSize
         /\ out \in Seq(Byte) /\ Len(out) \in Nat
         /\ arrived \in Nat /\ inside \in Nat /\ sigints \in Nat /\ waited \in Nat
         /\ steps \in Nat /\ steps < kInterruptPollSteps
         /\ Interrupts(sock) \in Nat /\ Interrupts(rx) \in Nat
<1>1. gdb \in Seq(Byte) /\ sock \in Seq(Byte) /\ rx \in Seq(Byte) /\ Len(rx) <= RxSize
      /\ out \in Seq(Byte) /\ steps \in 0 .. kInterruptPollSteps - 1
      /\ arrived \in Nat /\ inside \in Nat /\ sigints \in Nat /\ waited \in Nat
  BY DEF InputTypeOK
<1> QED BY <1>1, SizesType, InterruptsType

(* A poll that finds nothing leaves nothing a Ctrl-C could be read from. *)
LEMMA IdleIsClear ==
  ASSUME InputTypeOK, FullBufferHasNoInterrupt, mode = "running",
         poll_input.input # "Interrupt"
  PROVE  ~InterruptReadable
<1> DEFINE s == rx \o sock
           m == Min({Len(s), RxSize})
           prefix == SubSeq(s, 1, m)
<1>1. s \in Seq(Byte) /\ Len(s) = Len(rx) + Len(sock) /\ Len(s) \in Nat
      /\ \A i \in 1 .. Len(s) : s[i] = IF i <= Len(rx) THEN rx[i] ELSE sock[i - Len(rx)]
  BY TypeParts, ConcatProperties
<1>2. m = (IF Len(s) <= RxSize THEN Len(s) ELSE RxSize) /\ m \in 0 .. Len(s)
  BY <1>1, MinOfTwo, SizesType
<1> HIDE DEF s, m
<1>3. prefix \in Seq(Byte) /\ Len(prefix) = m /\ \A i \in 1 .. m : prefix[i] = s[i]
  BY <1>1, <1>2, InterruptsSplit, SubSeqProperties
<1> HIDE DEF prefix
<1>4. CASE Len(rx) = RxSize
  <2>1. m = Len(rx)
    BY <1>1, <1>2, <1>4, TypeParts
  <2>2. Len(prefix) = Len(rx) /\ \A i \in 1 .. Len(prefix) : prefix[i] = rx[i]
    BY <1>1, <1>2, <1>3, <2>1, TypeParts
  <2>3. prefix = rx
    BY <1>3, <2>2, TypeParts, SeqEqual
  <2>4. Interrupts(prefix) = 0
    BY <1>4, <2>3 DEF FullBufferHasNoInterrupt
  <2>5. FirstInterrupt(prefix) = 0
    BY <1>3, <2>4, FirstInterruptFound
  <2> QED BY <2>5 DEF InterruptReadable, prefix, m, s
<1>5. CASE Len(rx) # RxSize
  <2> DEFINE n == Min({Len(sock), RxSize - Len(rx)})
             taken == rx \o SubSeq(sock, 1, n)
  <2>1. Len(rx) < RxSize /\ poll_input = Polled(rx, 0)
    BY <1>5, TypeParts, SizesType DEF poll_input
  <2>2. /\ n \in 0 .. Len(sock)
        /\ poll_input.rx = taken /\ Interrupts(poll_input.rx) = 0
    BY <2>1, TypeParts, PolledEffect
  <2>3. n = IF Len(sock) <= RxSize - Len(rx) THEN Len(sock) ELSE RxSize - Len(rx)
    <3>1. RxSize - Len(rx) \in Nat /\ Len(sock) \in Nat
      BY <2>1, TypeParts, SizesType
    <3> QED BY <3>1, MinOfTwo
  <2> HIDE DEF n
  <2>4. m = Len(rx) + n
    BY <1>1, <1>2, <2>1, <2>3, TypeParts, SizesType
  <2>5. SubSeq(sock, 1, n) \in Seq(Byte) /\ Len(SubSeq(sock, 1, n)) = n
        /\ \A i \in 1 .. n : SubSeq(sock, 1, n)[i] = sock[i]
    BY <2>2, TypeParts, InterruptsSplit, SubSeqProperties
  <2> HIDE DEF taken
  <2>6. taken \in Seq(Byte) /\ Len(taken) = m
        /\ \A i \in 1 .. m : taken[i] = IF i <= Len(rx) THEN rx[i] ELSE SubSeq(sock, 1, n)[i - Len(rx)]
    <3> DEFINE piece == SubSeq(sock, 1, n)
    <3>1. piece \in Seq(Byte) /\ Len(piece) = n /\ rx \in Seq(Byte) /\ taken = rx \o piece
      BY <2>5, TypeParts DEF taken
    <3> HIDE DEF piece
    <3>2. /\ taken \in Seq(Byte) /\ Len(taken) = Len(rx) + n
          /\ \A i \in 1 .. Len(rx) + n : taken[i] = IF i <= Len(rx) THEN rx[i] ELSE piece[i - Len(rx)]
      BY <3>1, ConcatProperties
    <3> QED BY <2>4, <3>2 DEF piece
  <2>7. \A i \in 1 .. m : taken[i] = s[i]
    <3> SUFFICES ASSUME NEW i \in 1 .. m PROVE taken[i] = s[i]
      OBVIOUS
    <3>1. i \in 1 .. Len(s)
      BY <1>1, <1>2
    <3>2. CASE i <= Len(rx)
      BY <1>1, <2>6, <3>1, <3>2
    <3>3. CASE ~(i <= Len(rx))
      <4>1. i - Len(rx) \in 1 .. n
        BY <2>2, <2>4, <3>3, TypeParts
      <4> QED BY <1>1, <2>5, <2>6, <3>1, <3>3, <4>1
    <3> QED BY <3>2, <3>3
  <2> HIDE DEF taken
  <2>8. prefix = taken
    BY <1>3, <2>6, <2>7, SeqEqual
  <2>9. Interrupts(prefix) = 0
    BY <2>2, <2>8 DEF taken
  <2>10. FirstInterrupt(prefix) = 0
    BY <1>3, <2>9, FirstInterruptFound
  <2> QED BY <2>10 DEF InterruptReadable, prefix, m, s
<1> QED BY <1>4, <1>5

(* What the bytes are made of, apart from the state of the packet. *)
Buffers ==
  /\ gdb \in Seq(Byte) /\ sock \in Seq(Byte)
  /\ rx \in Seq(Byte) /\ Len(rx) <= RxSize
  /\ arrived \in Nat /\ inside \in Nat /\ sigints \in Nat
  /\ InterruptsAccounted

Reader ==
  /\ out \in Seq(Byte) /\ Len(out) <= kMaxPacketSize
  /\ open \in BOOLEAN /\ too_long \in BOOLEAN
  /\ mode \in {"between", "running", "ended"} \cup InPacket
  /\ hi \in Byte \cup {NoByte}
  /\ sends \in 0 .. MaxSends
  /\ sent \in Seq(Seq(Byte)) /\ got \in Seq(Seq(Byte))

Polls ==
  /\ waited \in Nat /\ steps \in 0 .. kInterruptPollSteps - 1
  /\ PollsAreCounted

LEMMA InputParts ==
  InputIInv <=> Buffers /\ Reader /\ Polls /\ FullBufferHasNoInterrupt
<1>1. InputTypeOK /\ InterruptsAccounted <=>
        /\ Buffers /\ Reader /\ waited \in Nat /\ steps \in 0 .. kInterruptPollSteps - 1
  BY Zenon DEF InputTypeOK, Buffers, Reader
<1>2. waited \in Nat /\ steps \in 0 .. kInterruptPollSteps - 1 /\ waited <= steps => InterruptIsPrompt
  BY SizesType DEF InterruptIsPrompt
<1> QED BY <1>1, <1>2, Zenon DEF InputIInv, InputInv, Polls, PollsAreCounted

LEMMA InputPartsNext ==
  Buffers' /\ Reader' /\ Polls' /\ FullBufferHasNoInterrupt' => InputIInv'
<1>1. Buffers' /\ Reader' /\ Polls' => (InputTypeOK /\ InterruptsAccounted)'
  BY Zenon DEF InputTypeOK, Buffers, Reader, Polls
<1>2. Polls' => InterruptIsPrompt' /\ PollsAreCounted'
  BY SizesType DEF InterruptIsPrompt, Polls, PollsAreCounted
<1> QED BY <1>1, <1>2, Zenon DEF InputIInv, InputInv

LEMMA BuffersUnchanged ==
  Buffers /\ UNCHANGED <<gdb, sock, rx, arrived, inside, sigints>> => Buffers'
BY DEF Buffers, InterruptsAccounted

LEMMA ReaderUnchanged ==
  Reader /\ UNCHANGED <<out, open, too_long, mode, hi, sends, sent, got>> => Reader'
BY DEF Reader

LEMMA PollsUnchanged == Polls /\ UNCHANGED <<waited, steps, mode>> => Polls'
BY DEF Polls, PollsAreCounted

(* A byte that read_byte() takes is no longer in the buffer. *)
LEMMA ByteTaken ==
  ASSUME Buffers, NEW c \in Byte, read_byte(c)
  PROVE  /\ gdb' \in Seq(Byte) /\ sock' \in Seq(Byte)
         /\ rx' \in Seq(Byte) /\ Len(rx') < RxSize /\ arrived' \in Nat
         /\ arrived' = Interrupts(sock') + Interrupts(rx') + inside + sigints
                        + (IF c = Interrupt THEN 1 ELSE 0)
         /\ UNCHANGED <<gdb, open, sends, sent, sock, waited>>
<1>1. rx # <<>> /\ c = Head(rx) /\ rx' = Tail(rx)
      /\ UNCHANGED <<gdb, open, sends, sent, sock, arrived, waited>>
  BY DEF read_byte, peer
<1>2. /\ gdb \in Seq(Byte) /\ sock \in Seq(Byte) /\ rx \in Seq(Byte) /\ Len(rx) <= RxSize
      /\ arrived \in Nat /\ inside \in Nat /\ sigints \in Nat
      /\ arrived = Interrupts(sock) + Interrupts(rx) + inside + sigints
  BY DEF Buffers, InterruptsAccounted
<1>3. /\ Tail(rx) \in Seq(Byte) /\ Len(Tail(rx)) = Len(rx) - 1
      /\ Interrupts(rx) = Interrupts(Tail(rx)) + (IF c = Interrupt THEN 1 ELSE 0)
  BY <1>1, <1>2, InterruptsTail
<1>4. Len(rx) - 1 < RxSize
  BY <1>2, SizesType
<1>5. Interrupts(sock) \in Nat /\ Interrupts(Tail(rx)) \in Nat
  BY <1>2, <1>3, InterruptsType
<1>6. arrived = Interrupts(sock) + Interrupts(Tail(rx)) + inside + sigints
                + (IF c = Interrupt THEN 1 ELSE 0)
  BY <1>2, <1>3, <1>5
<1>7. sock' = sock /\ rx' = Tail(rx) /\ arrived' = arrived /\ gdb' = gdb
  BY <1>1
<1> QED BY <1>1, <1>2, <1>3, <1>4, <1>6, <1>7

(* The packet and the mode while a packet is read. *)
LEMMA StoreType ==
  ASSUME Reader, NEW c \in Byte, Store(c)
  PROVE  out' \in Seq(Byte) /\ Len(out') <= kMaxPacketSize /\ too_long' \in BOOLEAN
<1>1. out \in Seq(Byte) /\ Len(out) <= kMaxPacketSize /\ too_long \in BOOLEAN /\ kMaxPacketSize \in Nat
  BY SizesType, Zenon DEF Reader
<1>2. CASE Len(out) < kMaxPacketSize
  <2>1. out' = Append(out, c) /\ too_long' = too_long
    BY <1>2 DEF Store
  <2>2. out' \in Seq(Byte) /\ Len(out') <= kMaxPacketSize
    BY <1>1, <1>2, <2>1
  <2> QED BY <1>1, <2>1, <2>2, Zenon
<1>3. CASE ~(Len(out) < kMaxPacketSize)
  <2>1. too_long' = TRUE /\ out' = out
    BY <1>3 DEF Store
  <2>2. out' \in Seq(Byte) /\ Len(out') <= kMaxPacketSize
    BY <1>1, <2>1
  <2> QED BY <2>1, <2>2, Zenon
<1> QED BY <1>2, <1>3

(* Outside the loop of handle_continue() nothing is polled. *)
LEMMA NotRunning ==
  ASSUME Polls, mode # "running", UNCHANGED <<steps, waited>>
  PROVE  Polls'
<1>1. steps = 0 /\ waited \in Nat /\ waited <= steps /\ steps \in 0 .. kInterruptPollSteps - 1
  BY DEF Polls, PollsAreCounted
<1> QED BY <1>1 DEF Polls, PollsAreCounted

LEMMA ReadKeeps ==
  ASSUME InputIInv, SkipToStart \/ ReadPayload \/ ReadHi \/ ReadLo
  PROVE  InputIInv'
<1>1. Buffers /\ Reader /\ Polls
  BY InputParts
<1>2. mode \in {"between"} \cup InPacket /\ UNCHANGED steps
  BY DEF SkipToStart, ReadPayload, ReadHi, ReadLo, InPacket
<1>3. PICK c \in Byte :
        /\ read_byte(c)
        /\ \/ inside' = inside /\ sigints' = (IF c = Interrupt THEN sigints + 1 ELSE sigints)
           \/ inside' = (IF c = Interrupt THEN inside + 1 ELSE inside) /\ sigints' = sigints
  BY Zenon DEF SkipToStart, ReadPayload, ReadHi, ReadLo
<1>4. /\ gdb' \in Seq(Byte) /\ sock' \in Seq(Byte)
      /\ rx' \in Seq(Byte) /\ Len(rx') < RxSize /\ arrived' \in Nat
      /\ arrived' = Interrupts(sock') + Interrupts(rx') + inside + sigints
                     + (IF c = Interrupt THEN 1 ELSE 0)
      /\ UNCHANGED <<open, sends, sent, waited>>
  BY <1>1, <1>3, ByteTaken
<1>5. Interrupts(sock') \in Nat /\ Interrupts(rx') \in Nat
  BY <1>4, InterruptsType
<1>6. inside' \in Nat /\ sigints' \in Nat
      /\ inside' + sigints' = inside + sigints + (IF c = Interrupt THEN 1 ELSE 0)
  <2>1. inside \in Nat /\ sigints \in Nat
    BY <1>1 DEF Buffers
  <2> QED BY <1>3, <2>1
<1>7. Buffers'
  <2>1. InterruptsAccounted'
    <3>1. inside \in Nat /\ sigints \in Nat
      BY <1>1 DEF Buffers
    <3>2. arrived' = Interrupts(sock') + Interrupts(rx') + inside' + sigints'
      <4> DEFINE a == Interrupts(sock')
                 b == Interrupts(rx')
                 e == IF c = Interrupt THEN 1 ELSE 0
      <4>1. /\ a \in Nat /\ b \in Nat /\ e \in Nat
            /\ arrived' = a + b + inside + sigints + e /\ inside' + sigints' = inside + sigints + e
        BY <1>4, <1>5, <1>6
      <4> HIDE DEF a, b, e
      <4>2. arrived' = a + b + inside' + sigints'
        <5>1. inside' \in Nat /\ sigints' \in Nat /\ inside' + sigints' = inside + sigints + e
          BY <1>6, <4>1
        <5>2. PICK i, j \in Nat : i = inside' /\ j = sigints'
          BY <5>1
        <5>3. PICK k, l \in Nat : k = inside /\ l = sigints
          BY <3>1
        <5>4. i + j = k + l + e
          BY <5>1, <5>2, <5>3, Zenon
        <5>5. a + b + k + l + e = a + b + i + j
          BY <4>1, <5>4
        <5> QED BY <4>1, <5>2, <5>3, <5>5, Zenon
      <4> QED BY <4>2 DEF a, b
    <3> QED BY <3>2 DEF InterruptsAccounted, Interrupts
  <2>2. Len(rx') <= RxSize
    BY <1>4, SizesType
  <2> QED BY <1>4, <1>6, <2>1, <2>2 DEF Buffers
<1>8. Polls'
  BY <1>1, <1>2, <1>4, NotRunning DEF InPacket
<1>9. FullBufferHasNoInterrupt'
  <2>1. Len(rx') # RxSize
    BY <1>4, SizesType
  <2> QED BY <2>1 DEF FullBufferHasNoInterrupt
<1>10. Reader'
  <2>1. /\ out \in Seq(Byte) /\ Len(out) <= kMaxPacketSize /\ open' \in BOOLEAN
        /\ too_long \in BOOLEAN /\ hi \in Byte \cup {NoByte} /\ sends' \in 0 .. MaxSends
        /\ sent' \in Seq(Seq(Byte)) /\ got \in Seq(Seq(Byte))
    BY <1>1, <1>4, Zenon DEF Reader
  <2>2. <<>> \in Seq(Byte) /\ Len(<<>>) <= kMaxPacketSize /\ FALSE \in BOOLEAN
    BY SizesType
  <2>3. CASE SkipToStart
    <3>1. UNCHANGED <<out, too_long, hi, got>> /\ mode' \in {"payload", "between"}
      BY <2>3 DEF SkipToStart, packet
    <3>2. mode' \in {"between", "running", "ended"} \cup InPacket
      BY <3>1 DEF InPacket
    <3> QED BY <2>1, <3>1, <3>2 DEF Reader
  <2>4. CASE ReadPayload
    <3>1. UNCHANGED <<hi, got>> /\ mode' \in {"payload", "hi"}
      BY <2>4 DEF ReadPayload
    <3>2. out' \in Seq(Byte) /\ Len(out') <= kMaxPacketSize /\ too_long' \in BOOLEAN
      <4>1. PICK d \in Byte : UNCHANGED <<out, too_long>> \/ Store(d)
        BY <2>4 DEF ReadPayload
      <4> QED BY <1>1, <2>1, <4>1, StoreType
    <3>3. mode' \in {"between", "running", "ended"} \cup InPacket
      BY <3>1 DEF InPacket
    <3>4. hi' \in Byte \cup {NoByte} /\ got' \in Seq(Seq(Byte))
      BY <2>1, <3>1
    <3> QED BY <2>1, <3>2, <3>3, <3>4 DEF Reader
  <2>5. CASE ReadHi
    <3>1. UNCHANGED <<out, too_long, got>> /\ mode' = "lo" /\ hi' \in Byte \cup {NoByte}
      BY <2>5 DEF ReadHi
    <3>2. mode' \in {"between", "running", "ended"} \cup InPacket
      BY <3>1 DEF InPacket
    <3> QED BY <2>1, <3>1, <3>2 DEF Reader
  <2>6. CASE ReadLo
    <3>1. out' = <<>> /\ too_long' = FALSE /\ hi' = NoByte
      BY <2>6 DEF ReadLo, ForgetPacket
    <3>2. mode' \in {"between", "running", "ended"}
      BY <2>6 DEF ReadLo, dispatch
    <3>3. PICK l \in Byte : got' = got \/ got' = Append(got, Decoded(out, too_long, hi, l).out)
      BY <2>6 DEF ReadLo
    <3>4. Decoded(out, too_long, hi, l).out \in Seq(Byte)
      BY <2>1, UnescapeType DEF Decoded
    <3>5. got' \in Seq(Seq(Byte))
      <4> DEFINE o == Decoded(out, too_long, hi, l).out
      <4>1. got' = got \/ got' = Append(got, o)
        BY <3>3
      <4>2. o \in Seq(Byte)
        BY <3>4
      <4> HIDE DEF o
      <4>3. Append(got, o) \in Seq(Seq(Byte))
        BY <2>1, <4>2, AppendProperties
      <4> QED BY <2>1, <4>1, <4>3
    <3>6. out' \in Seq(Byte) /\ Len(out') <= kMaxPacketSize /\ too_long' \in BOOLEAN
          /\ hi' \in Byte \cup {NoByte}
      BY <2>2, <3>1
    <3>7. mode' \in {"between", "running", "ended"} \cup InPacket
      BY <3>2
    <3> QED BY <2>1, <3>5, <3>6, <3>7, Zenon DEF Reader
  <2> QED BY <2>3, <2>4, <2>5, <2>6
<1> QED BY <1>7, <1>8, <1>9, <1>10, InputPartsNext

(* What GDB and the connection do, and recv() on an empty buffer. *)
LEMMA SendKeeps ==
  ASSUME InputIInv, NEW bytes \in Seq(Byte), Send(bytes), sent' \in Seq(Seq(Byte))
  PROVE  InputIInv'
<1>1. Buffers /\ Reader /\ Polls /\ FullBufferHasNoInterrupt
  BY InputParts
<1>2. /\ gdb' = bytes /\ sends' = sends + 1 /\ sends < MaxSends
      /\ UNCHANGED <<open, sock, rx, mode, out, too_long, hi, steps, got, arrived, inside, sigints, waited>>
  BY DEF Send, packet, history
<1>3. Buffers'
  BY <1>1, <1>2 DEF Buffers, InterruptsAccounted
<1>4. sends' \in 0 .. MaxSends
  BY <1>1, <1>2, SizesType DEF Reader
<1>5. Reader'
  BY <1>1, <1>2, <1>4 DEF Reader
<1>6. Polls' /\ FullBufferHasNoInterrupt'
  BY <1>1, <1>2 DEF Polls, PollsAreCounted, FullBufferHasNoInterrupt
<1> QED BY <1>3, <1>5, <1>6, InputPartsNext

LEMMA ArriveKeeps ==
  ASSUME InputIInv, Arrive
  PROVE  InputIInv'
<1>1. Buffers /\ Reader /\ Polls /\ FullBufferHasNoInterrupt
  BY InputParts
<1>2. PICK n \in 1 .. Len(gdb) :
        /\ sock' = sock \o SubSeq(gdb, 1, n)
        /\ gdb' = SubSeq(gdb, n + 1, Len(gdb))
        /\ arrived' = arrived + Interrupts(SubSeq(gdb, 1, n))
  BY DEF Arrive
<1>3. UNCHANGED <<open, sends, sent, rx, mode, out, too_long, hi, steps, got, inside, sigints, waited>>
  BY DEF Arrive, packet
<1>4. /\ gdb \in Seq(Byte) /\ sock \in Seq(Byte) /\ rx \in Seq(Byte) /\ Len(rx) <= RxSize
      /\ arrived \in Nat /\ inside \in Nat /\ sigints \in Nat
      /\ arrived = Interrupts(sock) + Interrupts(rx) + inside + sigints
  BY <1>1 DEF Buffers, InterruptsAccounted
<1>5. /\ SubSeq(gdb, 1, n) \in Seq(Byte) /\ gdb' \in Seq(Byte)
  <2>1. n \in 0 .. Len(gdb)
    BY <1>4
  <2> QED BY <1>2, <1>4, <2>1, InterruptsSplit
<1>6. sock' \in Seq(Byte) /\ Interrupts(sock') = Interrupts(sock) + Interrupts(SubSeq(gdb, 1, n))
  BY <1>2, <1>4, <1>5, ConcatProperties, InterruptsConcat
<1>7. Interrupts(sock) \in Nat /\ Interrupts(rx) \in Nat /\ Interrupts(SubSeq(gdb, 1, n)) \in Nat
  BY <1>4, <1>5, InterruptsType
<1>8. /\ arrived' \in Nat
      /\ arrived' = Interrupts(sock') + Interrupts(rx) + inside + sigints
  <2> DEFINE a == Interrupts(sock)
             b == Interrupts(SubSeq(gdb, 1, n))
             d == Interrupts(rx)
  <2>1. /\ a \in Nat /\ b \in Nat /\ d \in Nat /\ Interrupts(sock') = a + b
        /\ arrived = a + d + inside + sigints /\ arrived' = arrived + b
    BY <1>2, <1>4, <1>6, <1>7
  <2> HIDE DEF a, b, d
  <2>2. inside \in Nat /\ sigints \in Nat /\ arrived \in Nat
    BY <1>4
  <2>3. arrived' \in Nat /\ arrived' = (a + b) + d + inside + sigints
    BY <2>1, <2>2
  <2> QED BY <2>1, <2>3, Zenon DEF d
<1>9. Buffers'
  BY <1>3, <1>4, <1>5, <1>6, <1>8 DEF Buffers, InterruptsAccounted
<1>10. Reader'
  BY <1>1, <1>3, ReaderUnchanged
<1>11. Polls' /\ FullBufferHasNoInterrupt'
  BY <1>1, <1>3 DEF Polls, PollsAreCounted, FullBufferHasNoInterrupt
<1> QED BY <1>9, <1>10, <1>11, InputPartsNext

LEMMA PeerCloseKeeps ==
  ASSUME InputIInv, PeerClose
  PROVE  InputIInv'
<1>1. Buffers /\ Reader /\ Polls /\ FullBufferHasNoInterrupt
  BY InputParts
<1>2. /\ open' = FALSE /\ gdb' = <<>> /\ gdb' \in Seq(Byte)
      /\ UNCHANGED <<sends, sent, sock, rx, mode, out, too_long, hi, steps, got, arrived, inside,
                     sigints, waited>>
  BY DEF PeerClose, packet, history
<1>3. Buffers'
  BY <1>1, <1>2 DEF Buffers, InterruptsAccounted
<1>4. Reader'
  BY <1>1, <1>2 DEF Reader
<1>5. Polls' /\ FullBufferHasNoInterrupt'
  BY <1>1, <1>2 DEF Polls, PollsAreCounted, FullBufferHasNoInterrupt
<1> QED BY <1>3, <1>4, <1>5, InputPartsNext

LEMMA FillKeeps ==
  ASSUME InputIInv, Fill
  PROVE  InputIInv'
<1>1. Buffers /\ Reader /\ Polls
  BY InputParts
<1> DEFINE n == Min({Len(sock), RxSize})
<1>2. /\ mode \in {"between"} \cup InPacket /\ rx = <<>>
      /\ rx' = SubSeq(sock, 1, n) /\ sock' = SubSeq(sock, n + 1, Len(sock))
      /\ UNCHANGED <<gdb, open, sends, sent, mode, out, too_long, hi, steps, got, arrived, inside,
                     sigints, waited>>
  BY DEF Fill, peer, packet, history
<1>3. /\ gdb \in Seq(Byte) /\ sock \in Seq(Byte) /\ Len(sock) \in Nat
      /\ arrived \in Nat /\ inside \in Nat /\ sigints \in Nat
      /\ arrived = Interrupts(sock) + Interrupts(rx) + inside + sigints
  BY <1>1 DEF Buffers, InterruptsAccounted
<1>4. n \in 0 .. Len(sock) /\ n <= RxSize
  BY <1>3, MinOfTwo, SizesType
<1> HIDE DEF n
<1>5. /\ rx' \in Seq(Byte) /\ sock' \in Seq(Byte) /\ Len(rx') <= RxSize
      /\ Interrupts(sock) = Interrupts(rx') + Interrupts(sock')
  BY <1>2, <1>3, <1>4, InterruptsSplit
<1>6. arrived' = Interrupts(sock') + Interrupts(rx') + inside' + sigints'
  <2>1. Interrupts(rx') \in Nat /\ Interrupts(sock') \in Nat
    BY <1>5, InterruptsType
  <2>2. Interrupts(rx) = 0
    BY <1>2, InterruptsEmpty
  <2> QED BY <1>2, <1>3, <1>5, <2>1, <2>2
<1>7. Buffers'
  BY <1>2, <1>3, <1>5, <1>6 DEF Buffers, InterruptsAccounted
<1>8. Reader'
  BY <1>1, <1>2, ReaderUnchanged
<1>9. Polls' /\ FullBufferHasNoInterrupt'
  BY <1>1, <1>2, PollsUnchanged DEF FullBufferHasNoInterrupt, InPacket
<1> QED BY <1>7, <1>8, <1>9, InputPartsNext

LEMMA ReadClosedKeeps ==
  ASSUME InputIInv, ReadClosed
  PROVE  InputIInv'
<1>1. Buffers /\ Reader /\ Polls
  BY InputParts
<1>2. /\ mode \in {"between"} \cup InPacket /\ mode' = "ended"
      /\ UNCHANGED <<gdb, open, sends, sent, sock, rx, out, too_long, hi, steps, got, arrived, inside,
                     sigints, waited>>
  BY DEF ReadClosed, peer, packet, history
<1>3. Buffers' /\ Reader'
  BY <1>1, <1>2 DEF Buffers, InterruptsAccounted, Reader
<1>4. Polls' /\ FullBufferHasNoInterrupt'
  BY <1>1, <1>2, NotRunning DEF FullBufferHasNoInterrupt, InPacket
<1> QED BY <1>3, <1>4, InputPartsNext

LEMMA ListenKeeps ==
  ASSUME InputIInv, Listen
  PROVE  InputIInv'
<1>1. Buffers /\ Reader /\ Polls
  BY InputParts
<1>2. /\ mode = "ended" /\ rx' = <<>> /\ mode' = "between" /\ open' = TRUE /\ gdb' = <<>> /\ sock' = <<>>
      /\ sends' = 0 /\ sent' = <<>> /\ got' = <<>> /\ arrived' = 0 /\ inside' = 0 /\ sigints' = 0
      /\ out' = <<>> /\ too_long' = FALSE /\ hi' = NoByte /\ UNCHANGED <<steps, waited>>
  BY DEF Listen, configure_client_socket, ForgetPacket
<1>3. <<>> \in Seq(Byte) /\ <<>> \in Seq(Seq(Byte)) /\ Len(<<>>) = 0
  OBVIOUS
<1>4. Buffers'
  BY <1>2, <1>3, InterruptsEmpty, SizesType DEF Buffers, InterruptsAccounted
<1>5. Reader'
  <2>1. Len(out') <= kMaxPacketSize /\ sends' \in 0 .. MaxSends
    BY <1>2, <1>3, SizesType
  <2>2. mode' \in {"between", "running", "ended"} \cup InPacket /\ hi' \in Byte \cup {NoByte}
        /\ open' \in BOOLEAN /\ too_long' \in BOOLEAN
    BY <1>2, Zenon
  <2>3. out' \in Seq(Byte) /\ sent' \in Seq(Seq(Byte)) /\ got' \in Seq(Seq(Byte))
    BY <1>2, <1>3
  <2> QED BY <2>1, <2>2, <2>3 DEF Reader
<1>6. Polls' /\ FullBufferHasNoInterrupt'
  BY <1>1, <1>2, NotRunning DEF FullBufferHasNoInterrupt
<1> QED BY <1>4, <1>5, <1>6, InputPartsNext

-----------------------------------------------------------------------------
(* The loop of handle_continue() *)

LEMMA RunInstructionPolls ==
  ASSUME Polls, mode = "running", RunInstruction,
         PollIsDue => ~InterruptReadable
  PROVE  /\ Polls' /\ mode' \in {"running", "between"}
<1>1. /\ waited \in Nat /\ steps \in Nat /\ steps < kInterruptPollSteps /\ waited <= steps
  BY SizesType DEF Polls, PollsAreCounted
<1> DEFINE k == kInterruptPollSteps
<1>2. k \in Nat /\ k > 0
  BY SizesType
<1>3. CASE StopTarget
  <2>1. mode' = "between" /\ steps' = 0 /\ waited' = 0
    BY <1>3 DEF StopTarget
  <2> QED BY <1>2, <2>1 DEF Polls, PollsAreCounted
<1>4. CASE /\ mode' = mode
           /\ steps' = (steps + 1) % kInterruptPollSteps
           /\ waited' = IF InterruptReadable THEN Min({waited + 1, kInterruptPollSteps}) ELSE 0
  <2>1. CASE steps + 1 = k
    <3>1. (steps + 1) % k = 0
      BY <1>1, <1>2, <2>1
    <3>2. ~InterruptReadable
      BY <3>1 DEF PollIsDue
    <3>3. steps' = 0 /\ waited' = 0
      BY <1>4, <3>1, <3>2
    <3> QED BY <1>2, <1>4, <3>3 DEF Polls, PollsAreCounted
  <2>2. CASE steps + 1 # k
    <3>1. (steps + 1) % k = steps + 1
      BY <1>1, <1>2, <2>2
    <3>2. Min({waited + 1, k}) \in Nat /\ Min({waited + 1, k}) <= waited + 1
      BY <1>1, <1>2, MinOfTwo
    <3>3. waited' \in Nat /\ waited' <= waited + 1
      BY <1>1, <1>4, <3>2
    <3>4. waited' <= steps' /\ steps' \in 0 .. k - 1
      BY <1>1, <1>2, <1>4, <2>2, <3>1, <3>3
    <3> QED BY <1>4, <3>3, <3>4 DEF Polls, PollsAreCounted
  <2> QED BY <2>1, <2>2
<1> QED BY <1>3, <1>4 DEF RunInstruction

LEMMA StopTargetPolls ==
  ASSUME StopTarget
  PROVE  Polls' /\ mode' \in {"running", "between"}
<1>1. mode' = "between" /\ steps' = 0 /\ waited' = 0
  BY DEF StopTarget
<1> QED BY <1>1, SizesType DEF Polls, PollsAreCounted

LEMMA ContinueKeeps ==
  ASSUME InputIInv, ContinueTurn
  PROVE  InputIInv'
<1>1. Buffers /\ Reader /\ Polls /\ FullBufferHasNoInterrupt
  BY InputParts
<1>2. /\ mode = "running" /\ ~PollIsDue /\ RunInstruction
      /\ UNCHANGED <<gdb, open, sends, sent, sock, rx, out, too_long, hi, got, arrived, inside, sigints>>
  BY DEF ContinueTurn, peer, packet, history
<1>3. Polls' /\ mode' \in {"running", "between"}
  BY <1>1, <1>2, RunInstructionPolls
<1>4. Buffers' /\ FullBufferHasNoInterrupt'
  BY <1>1, <1>2, BuffersUnchanged DEF FullBufferHasNoInterrupt
<1>5. Reader'
  BY <1>1, <1>2, <1>3 DEF Reader
<1> QED BY <1>3, <1>4, <1>5, InputPartsNext

(* poll_input() as the loop calls it: a full buffer holds no Ctrl-C, so    *)
(* dropping it loses none.                                                 *)
LEMMA PollInputEffect ==
  ASSUME Buffers, FullBufferHasNoInterrupt, mode = "running"
  PROVE  /\ poll_input.sock \in Seq(Byte)
         /\ poll_input.rx \in Seq(Byte) /\ Len(poll_input.rx) <= RxSize
         /\ Interrupts(rx) + Interrupts(sock)
              = Interrupts(poll_input.sock) + Interrupts(poll_input.rx)
                + (IF poll_input.input = "Interrupt" THEN 1 ELSE 0)
         /\ poll_input.input # "Interrupt" => Interrupts(poll_input.rx) = 0
         /\ poll_input.input = "Closed" => ~open
<1> DEFINE kept == IF Len(rx) = RxSize THEN <<>> ELSE rx
<1>1. rx \in Seq(Byte) /\ Len(rx) \in Nat /\ Len(rx) <= RxSize /\ sock \in Seq(Byte)
  BY DEF Buffers
<1>2. kept \in Seq(Byte) /\ Len(kept) < RxSize /\ Interrupts(kept) = Interrupts(rx)
  <2>1. CASE Len(rx) = RxSize
    <3>1. kept = <<>> /\ kept \in Seq(Byte) /\ Len(kept) = 0
      BY <2>1
    <3>2. Interrupts(kept) = 0 /\ Interrupts(rx) = 0
      BY <2>1, <3>1, InterruptsEmpty DEF FullBufferHasNoInterrupt
    <3> QED BY <3>1, <3>2, SizesType
  <2>2. CASE Len(rx) # RxSize
    <3>1. kept = rx
      BY <2>2
    <3>2. Len(rx) < RxSize
      BY <1>1, <2>2, SizesType
    <3> QED BY <1>1, <3>1, <3>2
  <2> QED BY <2>1, <2>2
<1>3. poll_input = Polled(kept, 0)
  BY DEF poll_input
<1> HIDE DEF kept
<1> QED BY <1>1, <1>2, <1>3, PolledEffect

LEMMA PollKeeps ==
  ASSUME InputIInv, PollTurn
  PROVE  InputIInv'
<1>1. Buffers /\ Reader /\ Polls /\ FullBufferHasNoInterrupt
  BY InputParts
<1> DEFINE p == poll_input
<1>2. /\ mode = "running"
      /\ rx' = p.rx /\ sock' = p.sock
      /\ \/ p.input \in {"Interrupt", "Closed"} /\ StopTarget
         \/ p.input = "Idle" /\ RunInstruction
      /\ sigints' = IF p.input = "Interrupt" THEN sigints + 1 ELSE sigints
      /\ UNCHANGED <<gdb, open, sends, sent, out, too_long, hi, got, arrived, inside>>
  BY DEF PollTurn, peer, packet
<1>3. /\ p.sock \in Seq(Byte) /\ p.rx \in Seq(Byte) /\ Len(p.rx) <= RxSize
      /\ Interrupts(rx) + Interrupts(sock)
           = Interrupts(p.sock) + Interrupts(p.rx) + (IF p.input = "Interrupt" THEN 1 ELSE 0)
      /\ p.input # "Interrupt" => Interrupts(p.rx) = 0
  BY <1>1, <1>2, PollInputEffect
<1>4. p.input = "Idle" => ~InterruptReadable
  <2>1. InputTypeOK
    BY DEF InputIInv, InputInv
  <2> QED BY <1>1, <1>2, <2>1, IdleIsClear
<1> HIDE DEF p
<1>5. Polls' /\ mode' \in {"running", "between"} /\ (mode' = "running" => p.input = "Idle")
  <2>1. CASE p.input \in {"Interrupt", "Closed"} /\ StopTarget
    <3>1. mode' = "between"
      BY <2>1 DEF StopTarget
    <3> QED BY <2>1, <3>1, StopTargetPolls
  <2>2. CASE p.input = "Idle" /\ RunInstruction
    BY <1>1, <1>2, <1>4, <2>2, RunInstructionPolls
  <2> QED BY <1>2, <2>1, <2>2
<1>6. FullBufferHasNoInterrupt'
  <2>1. mode' = "running" => Interrupts(p.rx) = 0
    BY <1>3, <1>5
  <2>2. mode' = "running" => Interrupts(rx') = 0
    BY <1>2, <2>1
  <2> QED BY <2>2 DEF FullBufferHasNoInterrupt, Interrupts
<1>7. sigints' \in Nat /\ arrived' = Interrupts(sock') + Interrupts(rx') + inside' + sigints'
  <2> DEFINE a == Interrupts(rx)
             b == Interrupts(sock)
             d == Interrupts(p.sock)
             f == Interrupts(p.rx)
             e == IF p.input = "Interrupt" THEN 1 ELSE 0
  <2>1. /\ arrived \in Nat /\ inside \in Nat /\ sigints \in Nat
        /\ rx \in Seq(Byte) /\ sock \in Seq(Byte)
        /\ arrived = b + a + inside + sigints
    BY <1>1 DEF Buffers, InterruptsAccounted
  <2>2. a \in Nat /\ b \in Nat /\ d \in Nat /\ f \in Nat
    BY <1>3, <2>1, InterruptsType
  <2>3. e \in Nat /\ a + b = d + f + e /\ sigints' = sigints + e
    BY <1>2, <1>3, <2>1
  <2>4. Interrupts(sock') = d /\ Interrupts(rx') = f /\ inside' = inside /\ arrived' = arrived
    BY <1>2
  <2> HIDE DEF a, b, d, e, f
  <2>5. PICK g \in Nat : g = sigints
    BY <2>1
  <2>6. arrived = d + f + inside + (g + e)
    BY <2>1, <2>2, <2>3, <2>5
  <2>7. sigints' \in Nat /\ sigints' = g + e
    BY <2>3, <2>5
  <2> QED BY <2>4, <2>6, <2>7, Zenon
<1>8. Buffers'
  BY <1>1, <1>2, <1>3, <1>7 DEF Buffers, InterruptsAccounted
<1>9. Reader'
  BY <1>1, <1>2, <1>5 DEF Reader
<1> QED BY <1>5, <1>6, <1>8, <1>9, InputPartsNext

LEMMA InputStep == InputIInv /\ [Next]_vars => InputIInv'
<1> SUFFICES ASSUME InputIInv, [Next]_vars PROVE InputIInv'
  OBVIOUS
<1>1. Reader
  BY InputParts
<1>2. ASSUME NEW f \in Frames, SendPacket(f) PROVE InputIInv'
  <2>1. f.bytes \in Seq(Byte) /\ f.payload \in Seq(Byte)
    <3>1. Frames \subseteq [bytes : Seq(Byte), ok : BOOLEAN, payload : Seq(Byte)]
      BY InputAssumption, Zenon
    <3> QED BY <3>1
  <2>2. Send(f.bytes) /\ sent' = IF f.ok THEN Append(sent, f.payload) ELSE sent
    BY <1>2 DEF SendPacket
  <2>3. sent \in Seq(Seq(Byte))
    BY <1>1 DEF Reader
  <2>4. Append(sent, f.payload) \in Seq(Seq(Byte))
    BY <2>1, <2>3, AppendProperties
  <2> QED BY <2>1, <2>2, <2>3, <2>4, SendKeeps
<1>3. ASSUME NEW bytes \in Noise \cup {<<Interrupt>>}, SendOther(bytes) PROVE InputIInv'
  <2>1. Noise \subseteq Seq(Byte) /\ Interrupt \in Byte
    BY InputAssumption, Zenon
  <2>2. bytes \in Seq(Byte)
    <3>1. CASE bytes \in Noise
      BY <2>1, <3>1, Zenon
    <3>2. CASE bytes = <<Interrupt>>
      BY <2>1, <3>2
    <3> QED BY <1>3, <3>1, <3>2, Zenon
  <2>3. Send(bytes) /\ sent' = sent /\ sent \in Seq(Seq(Byte))
    BY <1>1, <1>3 DEF SendOther, Reader
  <2> QED BY <2>2, <2>3, SendKeeps
<1>4. ASSUME Stub PROVE InputIInv'
  BY <1>4, FillKeeps, ReadClosedKeeps, ReadKeeps, ContinueKeeps, PollKeeps DEF Stub
<1>5. CASE UNCHANGED vars
  <2>1. UNCHANGED <<gdb, open, sends, sent, sock, rx, mode, out, too_long, hi, steps, got, arrived,
                   inside, sigints, waited>>
    BY <1>5 DEF vars, peer, packet, history
  <2>2. Buffers /\ Polls /\ FullBufferHasNoInterrupt
    BY InputParts
  <2>3. Buffers' /\ Reader' /\ Polls' /\ FullBufferHasNoInterrupt'
    BY <1>1, <2>1, <2>2, BuffersUnchanged, ReaderUnchanged, PollsUnchanged DEF FullBufferHasNoInterrupt
  <2> QED BY <2>3, InputPartsNext
<1> QED BY <1>2, <1>3, <1>4, <1>5, ArriveKeeps, PeerCloseKeeps, ListenKeeps DEF Next

LEMMA InputInductive == Spec => []InputIInv
BY InputInitial, InputStep, PTL DEF Spec

(* Whatever GDB sends and however it is cut into pieces, the buffer and    *)
(* the packet keep their bounds, no Ctrl-C is lost when a full buffer is   *)
(* dropped, and each is noticed within the poll interval.                  *)
THEOREM NoInterruptIsLost == Spec => []InputInv
BY InputInductive, PTL DEF InputIInv

-----------------------------------------------------------------------------
(* What GDB has written and the stub has not read, as packets *)

LEMMA FrameFacts ==
  ASSUME NEW f \in Frames
  PROVE  LET n   == Len(f.bytes)
             raw == SubSeq(f.bytes, 2, n - 3)
         IN  /\ f.bytes \in Seq(Byte) /\ f.payload \in Seq(Byte) /\ n \in Nat /\ n >= 4
             /\ f.bytes[1] = "$" /\ f.bytes[n - 2] = "#"
             /\ \A j \in 2 .. n - 3 : f.bytes[j] # "#"
             /\ raw \in Seq(Byte) /\ Len(raw) = n - 4
             /\ \A i \in 1 .. n - 4 : raw[i] = f.bytes[i + 1]
             /\ f.ok = (/\ Len(raw) <= kMaxPacketSize
                        /\ checksum_matches(raw, f.bytes[n - 1], f.bytes[n])
                        /\ unescape(raw).ok)
             /\ f.ok => f.payload = unescape(raw).out
             /\ f.ok /\ f.payload # <<>> /\ Head(f.payload) \in {"k", "D"} => Len(f.payload) = 1
<1> DEFINE n   == Len(f.bytes)
           raw == SubSeq(f.bytes, 2, n - 3)
<1>1. f.bytes \in Seq(Byte) /\ f.payload \in Seq(Byte)
  <2>1. Frames \subseteq [bytes : Seq(Byte), ok : BOOLEAN, payload : Seq(Byte)]
    BY InputAssumption, Zenon
  <2> QED BY <2>1
<1>2. IsFrame(f) /\ (f.ok /\ f.payload # <<>> /\ Head(f.payload) \in {"k", "D"} => Len(f.payload) = 1)
  BY FramesAssumption, Zenon
<1>3. /\ n >= 4 /\ f.bytes[1] = "$" /\ f.bytes[n - 2] = "#"
      /\ \A i \in DOMAIN raw : raw[i] # "#"
      /\ f.ok = (/\ Len(raw) <= kMaxPacketSize
                 /\ checksum_matches(raw, f.bytes[n - 1], f.bytes[n])
                 /\ unescape(raw).ok)
      /\ f.ok => f.payload = unescape(raw).out
  BY <1>2, Zenon DEF IsFrame
<1>4. n \in Nat /\ \A i \in 1 .. n : f.bytes[i] \in Byte
  BY <1>1
<1>5. raw \in Seq(Byte) /\ Len(raw) = n - 4 /\ \A i \in 1 .. n - 4 : raw[i] = f.bytes[i + 1]
  <2>1. /\ raw \in Seq(Byte) /\ Len(raw) = (IF 2 <= n - 3 THEN n - 3 - 2 + 1 ELSE 0)
        /\ \A i \in 1 .. n - 3 - 2 + 1 : raw[i] = f.bytes[2 + i - 1]
    <3>1. 2 \in Int /\ n - 3 \in Int /\ \A i \in 2 .. n - 3 : f.bytes[i] \in Byte
      BY <1>4
    <3> HIDE DEF n
    <3> QED BY <3>1, SubSeqProperties
  <2> HIDE DEF raw, n
  <2> QED BY <1>3, <1>4, <2>1
<1>6. \A j \in 2 .. n - 3 : f.bytes[j] # "#"
  <2> HIDE DEF raw, n
  <2>1. DOMAIN raw = 1 .. n - 4
    BY <1>5
  <2> SUFFICES ASSUME NEW j \in 2 .. n - 3 PROVE f.bytes[j] # "#"
    OBVIOUS
  <2>2. j - 1 \in 1 .. n - 4 /\ (j - 1) + 1 = j
    BY <1>4
  <2> QED BY <1>3, <1>5, <2>1, <2>2
<1> QED BY <1>1, <1>2, <1>3, <1>4, <1>5, <1>6, Zenon

(* What the stub has of the packet: how many of its bytes, and how many of *)
(* the packets of ps are complete. *)
Valid(ps, q) ==
  /\ q.at \in Nat /\ q.done \in 0 .. Len(ps)
  /\ q.at > 0 => q.frame \in Frames /\ q.at < Len(q.frame.bytes)

(* ... and after one more character. *)
Follows(ps, q, c, r) ==
  \/ q.at = 0 /\ c # "$" /\ r.at = 0 /\ r.done = q.done
  \/ q.at = 0 /\ c = "$" /\ r.at = 1 /\ r.done = q.done
  \/ /\ q.at > 0 /\ c = q.frame.bytes[q.at + 1] /\ q.at + 1 < Len(q.frame.bytes)
     /\ r.at = q.at + 1 /\ r.frame = q.frame /\ r.done = q.done
  \/ /\ q.at > 0 /\ c = q.frame.bytes[q.at + 1] /\ q.at + 1 = Len(q.frame.bytes)
     /\ r.at = 0
     /\ IF q.frame.ok THEN r.done = q.done + 1 /\ ps[r.done] = q.frame.payload
        ELSE r.done = q.done

(* The stream s, cut into whole packets and other characters. *)
IsRun(run, s, ps) ==
  /\ \A i \in 0 .. Len(s) : Valid(ps, run[i])
  /\ \A i \in 1 .. Len(s) : Follows(ps, run[i - 1], s[i], run[i])

(* The run goes on over a further piece. *)
LEMMA RunExtends ==
  ASSUME NEW s \in Seq(Byte), NEW t \in Seq(Byte), NEW ps, NEW run, NEW ext,
         IsRun(run, s, ps), IsRun(ext, t, ps),
         run[Len(s)].at = 0, ext[0].at = 0, run[Len(s)].done = ext[0].done
  PROVE  \E both : /\ IsRun(both, s \o t, ps) /\ both[0] = run[0]
                   /\ both[Len(s \o t)].at = ext[Len(t)].at
                   /\ both[Len(s \o t)].done = ext[Len(t)].done
                   /\ \A i \in 0 .. Len(s \o t) : \/ \E j \in 0 .. Len(s) : both[i] = run[j]
                                                  \/ \E j \in 0 .. Len(t) : both[i] = ext[j]
<1> DEFINE n == Len(s)
           m == Len(t)
           both == [i \in 0 .. Len(s \o t) |-> IF i <= Len(s) THEN run[i] ELSE ext[i - Len(s)]]
<1>1. /\ n \in Nat /\ m \in Nat /\ Len(s \o t) = n + m
      /\ \A i \in 1 .. n + m : (s \o t)[i] = IF i <= n THEN s[i] ELSE t[i - n]
  BY ConcatProperties
<1>2. \A i \in 0 .. n + m : both[i] = IF i <= n THEN run[i] ELSE ext[i - n]
  BY <1>1
<1> HIDE DEF n, m, both
<1>3. /\ \A i \in 0 .. n : Valid(ps, run[i])
      /\ \A i \in 1 .. n : Follows(ps, run[i - 1], s[i], run[i])
      /\ \A i \in 0 .. m : Valid(ps, ext[i])
      /\ \A i \in 1 .. m : Follows(ps, ext[i - 1], t[i], ext[i])
      /\ run[n].at = 0 /\ ext[0].at = 0 /\ run[n].done = ext[0].done
  BY DEF IsRun, n, m
<1>4. \A i \in 0 .. n + m : \/ i \in 0 .. n /\ both[i] = run[i]
                            \/ i - n \in 0 .. m /\ both[i] = ext[i - n]
  BY <1>1, <1>2
<1>5. \A i \in 0 .. n + m : Valid(ps, both[i])
  BY <1>3, <1>4
<1>6. ASSUME NEW i \in 1 .. n + m PROVE Follows(ps, both[i - 1], (s \o t)[i], both[i])
  <2>1. CASE i <= n
    <3>1. i \in 1 .. n /\ i - 1 \in 0 .. n + m /\ i \in 0 .. n + m /\ i - 1 <= n
      BY <1>1, <2>1
    <3>2. both[i - 1] = run[i - 1] /\ both[i] = run[i] /\ (s \o t)[i] = s[i]
      BY <1>1, <1>2, <2>1, <3>1
    <3> QED BY <1>3, <3>1, <3>2
  <2>2. CASE i > n
    <3>1. i - n \in 1 .. m /\ i - 1 \in 0 .. n + m /\ i \in 0 .. n + m /\ (i - n) - 1 = (i - 1) - n
          /\ ~(i <= n)
      BY <1>1, <2>2
    <3>2. both[i] = ext[i - n]
      BY <1>2, <3>1
    <3>3. (s \o t)[i] = t[i - n]
      BY <1>1, <3>1
    <3>4. Follows(ps, ext[(i - n) - 1], t[i - n], ext[i - n])
      BY <1>3, <3>1
    <3>5. CASE i - 1 = n
      <4>1. both[i - 1] = run[n] /\ (i - n) - 1 = 0
        BY <1>1, <1>2, <3>1, <3>5
      <4>2. Follows(ps, run[n], t[i - n], ext[i - n])
        BY <1>3, <3>4, <4>1 DEF Follows
      <4> QED BY <3>2, <3>3, <4>1, <4>2
    <3>6. CASE i - 1 # n
      <4>1. ~(i - 1 <= n)
        BY <1>1, <2>2, <3>6
      <4>2. both[i - 1] = ext[(i - n) - 1]
        BY <1>2, <3>1, <4>1
      <4> QED BY <3>2, <3>3, <3>4, <4>2
    <3> QED BY <3>5, <3>6
  <2> QED BY <1>1, <2>1, <2>2
<1>7. IsRun(both, s \o t, ps)
  BY <1>1, <1>5, <1>6 DEF IsRun
<1>8. both[0] = run[0]
  <2>1. 0 \in 0 .. n + m /\ 0 <= n
    BY <1>1
  <2> QED BY <1>2, <2>1
<1>9. both[n + m].at = ext[m].at /\ both[n + m].done = ext[m].done
  <2>1. CASE m = 0
    <3>1. n + m = n /\ n \in 0 .. n + m /\ n <= n
      BY <1>1, <2>1
    <3>2. both[n + m] = run[n]
      BY <1>2, <3>1
    <3> QED BY <1>3, <2>1, <3>2
  <2>2. CASE m # 0
    <3>1. ~(n + m <= n) /\ (n + m) - n = m /\ n + m \in 0 .. n + m
      BY <1>1, <2>2
    <3> QED BY <1>2, <3>1
  <2> QED BY <2>1, <2>2
<1>10. \A i \in 0 .. n + m : \/ \E j \in 0 .. n : both[i] = run[j]
                            \/ \E j \in 0 .. m : both[i] = ext[j]
  BY <1>4
<1> QED BY <1>1, <1>7, <1>8, <1>9, <1>10 DEF n, m

(* One character is read. *)
LEMMA RunShifts ==
  ASSUME NEW s \in Seq(Byte), NEW ps, NEW run, IsRun(run, s, ps), s # <<>>
  PROVE  /\ Tail(s) \in Seq(Byte) /\ Len(Tail(s)) + 1 = Len(s)
         /\ Follows(ps, run[0], Head(s), run[1])
         /\ Valid(ps, run[0]) /\ Valid(ps, run[1])
         /\ \E rest : /\ IsRun(rest, Tail(s), ps) /\ rest[0] = run[1]
                      /\ \A i \in 0 .. Len(Tail(s)) : rest[i] = run[i + 1] /\ i + 1 \in 0 .. Len(s)
<1> DEFINE n    == Len(s)
           rest == [i \in 0 .. Len(Tail(s)) |-> run[i + 1]]
<1>1. /\ n \in Nat /\ n > 0 /\ Tail(s) \in Seq(Byte) /\ Len(Tail(s)) = n - 1 /\ Head(s) = s[1]
      /\ \A i \in 1 .. n - 1 : Tail(s)[i] = s[i + 1]
  BY HeadTailProperties, EmptySeq
<1>2. \A i \in 0 .. n - 1 : rest[i] = run[i + 1]
  BY <1>1
<1>3. /\ \A i \in 0 .. n : Valid(ps, run[i])
      /\ \A i \in 1 .. n : Follows(ps, run[i - 1], s[i], run[i])
  BY DEF IsRun
<1> HIDE DEF n, rest
<1>4. \A i \in 0 .. n - 1 : i + 1 \in 0 .. n /\ Valid(ps, rest[i])
  BY <1>1, <1>2, <1>3
<1>5. ASSUME NEW i \in 1 .. n - 1 PROVE Follows(ps, rest[i - 1], Tail(s)[i], rest[i])
  <2>1. i + 1 \in 1 .. n /\ i - 1 \in 0 .. n - 1 /\ i \in 0 .. n - 1 /\ (i + 1) - 1 = i /\ (i - 1) + 1 = i
    BY <1>1
  <2>2. rest[i - 1] = run[i] /\ rest[i] = run[i + 1] /\ Tail(s)[i] = s[i + 1]
    BY <1>1, <1>2, <2>1
  <2> QED BY <1>3, <2>1, <2>2
<1>6. IsRun(rest, Tail(s), ps)
  BY <1>1, <1>4, <1>5 DEF IsRun
<1>7. 0 \in 0 .. n - 1 /\ 0 \in 0 .. n /\ 1 \in 0 .. n /\ 1 \in 1 .. n /\ 1 - 1 = 0 /\ 0 + 1 = 1
      /\ Len(Tail(s)) + 1 = n
  BY <1>1
<1>8. rest[0] = run[1]
  BY <1>2, <1>7
<1>9. Follows(ps, run[0], Head(s), run[1]) /\ Valid(ps, run[0]) /\ Valid(ps, run[1])
  BY <1>1, <1>3, <1>7
<1>10. \E x : /\ IsRun(x, Tail(s), ps) /\ x[0] = run[1]
              /\ \A i \in 0 .. Len(Tail(s)) : x[i] = run[i + 1] /\ i + 1 \in 0 .. n
  BY <1>1, <1>2, <1>4, <1>6, <1>8
<1> QED BY <1>1, <1>7, <1>9, <1>10 DEF n

(* The end of the stream is cut off. *)
LEMMA RunPrefix ==
  ASSUME NEW s \in Seq(Byte), NEW t \in Seq(Byte), NEW ps, NEW run, IsRun(run, s \o t, ps)
  PROVE  IsRun(run, s, ps) /\ Len(s) <= Len(s \o t)
<1>1. /\ Len(s) \in Nat /\ Len(t) \in Nat /\ Len(s \o t) = Len(s) + Len(t)
      /\ \A i \in 1 .. Len(s) : (s \o t)[i] = s[i]
  BY ConcatProperties
<1>2. \A i \in 0 .. Len(s) : i \in 0 .. Len(s \o t)
  BY <1>1
<1>3. \A i \in 1 .. Len(s) : i \in 1 .. Len(s \o t)
  BY <1>1
<1> QED BY <1>1, <1>2, <1>3 DEF IsRun

(* Between packets nothing happens until the next "$". *)
LEMMA QuietRun ==
  ASSUME NEW s \in Seq(Byte), NEW ps, NEW q, Valid(ps, q), q.at = 0,
         \A i \in 1 .. Len(s) : s[i] # "$"
  PROVE  LET still == [i \in 0 .. Len(s) |-> q]
         IN  IsRun(still, s, ps) /\ still[0] = q /\ still[Len(s)] = q
<1>1. Len(s) \in Nat
  OBVIOUS
<1>2. \A i \in 1 .. Len(s) : i - 1 \in 0 .. Len(s) /\ i \in 0 .. Len(s)
  BY <1>1
<1>3. 0 \in 0 .. Len(s) /\ Len(s) \in 0 .. Len(s)
  BY <1>1
<1> QED BY <1>2, <1>3 DEF IsRun, Follows

(* A packet goes by: its payload is the next of ps if it is intact. *)
LEMMA FrameRun ==
  ASSUME NEW f \in Frames, NEW ps, Len(ps) \in Nat, NEW d \in 0 .. Len(ps),
         f.ok => d < Len(ps) /\ ps[d + 1] = f.payload
  PROVE  LET n  == Len(f.bytes)
             by == [i \in 0 .. n |->
                      [at    |-> IF i = n THEN 0 ELSE i,
                       frame |-> f,
                       done  |-> IF i = n /\ f.ok THEN d + 1 ELSE d]]
         IN  /\ IsRun(by, f.bytes, ps)
             /\ by[0].at = 0 /\ by[0].done = d
             /\ by[n].at = 0 /\ by[n].done = IF f.ok THEN d + 1 ELSE d
             /\ \A i \in 0 .. n - 1 : by[i].done = d
<1> DEFINE n  == Len(f.bytes)
           by == [i \in 0 .. n |->
                    [at    |-> IF i = n THEN 0 ELSE i,
                     frame |-> f,
                     done  |-> IF i = n /\ f.ok THEN d + 1 ELSE d]]
<1>1. n \in Nat /\ n >= 4 /\ f.bytes[1] = "$"
  BY FrameFacts
<1>2. \A i \in 0 .. n : /\ by[i].at = (IF i = n THEN 0 ELSE i) /\ by[i].frame = f
                        /\ by[i].done = (IF i = n /\ f.ok THEN d + 1 ELSE d)
  OBVIOUS
<1> HIDE DEF n, by
<1>3. ASSUME NEW i \in 0 .. n PROVE Valid(ps, by[i])
  <2>1. by[i].at \in Nat /\ by[i].done \in 0 .. Len(ps)
    BY <1>1, <1>2
  <2>2. by[i].frame \in Frames /\ (by[i].at > 0 => by[i].at < Len(by[i].frame.bytes))
    BY <1>1, <1>2 DEF n
  <2> QED BY <2>1, <2>2 DEF Valid
<1>4. ASSUME NEW i \in 1 .. n PROVE Follows(ps, by[i - 1], f.bytes[i], by[i])
  <2>1. i - 1 \in 0 .. n /\ i \in 0 .. n /\ i - 1 # n /\ (i - 1) + 1 = i /\ i \in Nat
    BY <1>1
  <2>2. by[i - 1].at = i - 1 /\ by[i - 1].done = d /\ by[i - 1].frame = f
    BY <1>2, <2>1
  <2>3. /\ by[i].at = (IF i = n THEN 0 ELSE i) /\ by[i].frame = f
        /\ by[i].done = (IF i = n /\ f.ok THEN d + 1 ELSE d)
    BY <1>2, <2>1
  <2>4. CASE i = 1
    <3>1. by[i - 1].at = 0 /\ f.bytes[i] = "$" /\ by[i].at = 1 /\ by[i].done = by[i - 1].done
      BY <1>1, <2>2, <2>3, <2>4
    <3> QED BY <3>1 DEF Follows
  <2>5. CASE i # 1 /\ i # n
    <3>1. /\ by[i - 1].at > 0 /\ f.bytes[i] = by[i - 1].frame.bytes[by[i - 1].at + 1]
          /\ by[i - 1].at + 1 < n /\ by[i].at = by[i - 1].at + 1
          /\ by[i].frame = by[i - 1].frame /\ by[i].done = by[i - 1].done
      BY <1>1, <2>1, <2>2, <2>3, <2>5
    <3> QED BY <2>2, <3>1 DEF Follows, n
  <2>6. CASE i # 1 /\ i = n
    <3>1. /\ by[i - 1].at > 0 /\ f.bytes[i] = by[i - 1].frame.bytes[by[i - 1].at + 1]
          /\ by[i - 1].at + 1 = n /\ by[i].at = 0
      BY <1>1, <2>1, <2>2, <2>3, <2>6
    <3>2. IF by[i - 1].frame.ok
          THEN by[i].done = by[i - 1].done + 1 /\ ps[by[i].done] = by[i - 1].frame.payload
          ELSE by[i].done = by[i - 1].done
      BY <2>2, <2>3, <2>6
    <3> QED BY <2>2, <3>1, <3>2 DEF Follows, n
  <2> QED BY <2>4, <2>5, <2>6
<1>5. IsRun(by, f.bytes, ps)
  BY <1>3, <1>4 DEF IsRun, n
<1>6. 0 \in 0 .. n /\ 0 # n /\ n \in 0 .. n /\ \A i \in 0 .. n - 1 : i \in 0 .. n /\ i # n
  BY <1>1
<1>7. by[0].at = 0 /\ by[0].done = d /\ by[n].at = 0 /\ by[n].done = IF f.ok THEN d + 1 ELSE d
  BY <1>2, <1>6
<1>8. \A i \in 0 .. n - 1 : by[i].done = d
  BY <1>2, <1>6
<1> QED BY <1>5, <1>7, <1>8 DEF by, n

(* A further packet leaves the run as it is. *)
LEMMA RunGrows ==
  ASSUME NEW s \in Seq(Byte), NEW ps \in Seq(Seq(Byte)), NEW p \in Seq(Byte), NEW run,
         IsRun(run, s, ps)
  PROVE  IsRun(run, s, Append(ps, p))
<1>1. /\ Len(ps) \in Nat /\ Len(Append(ps, p)) = Len(ps) + 1
      /\ \A i \in 1 .. Len(ps) : Append(ps, p)[i] = ps[i]
  BY AppendProperties
<1>2. \A i \in 0 .. Len(s) : Valid(Append(ps, p), run[i])
  BY <1>1 DEF IsRun, Valid
<1>3. ASSUME NEW i \in 1 .. Len(s) PROVE Follows(Append(ps, p), run[i - 1], s[i], run[i])
  <2>1. i - 1 \in 0 .. Len(s) /\ i \in 0 .. Len(s)
    OBVIOUS
  <2>2. Valid(ps, run[i - 1]) /\ Valid(ps, run[i]) /\ Follows(ps, run[i - 1], s[i], run[i])
    BY <2>1 DEF IsRun
  <2>3. run[i - 1].done \in Nat /\ run[i].done \in 0 .. Len(ps)
    BY <1>1, <2>2 DEF Valid
  <2>4. run[i].done = run[i - 1].done + 1 => ps[run[i].done] = Append(ps, p)[run[i].done]
    BY <1>1, <2>3
  <2> QED BY <2>2, <2>4 DEF Follows
<1> QED BY <1>2, <1>3 DEF IsRun

(* Once the last packet has been taken no further one begins. *)
LEMMA QuietRest ==
  ASSUME NEW s \in Seq(Byte), NEW ps \in Seq(Seq(Byte)), NEW run, IsRun(run, s, ps),
         run[0].done = Len(ps),
         \A i \in 0 .. Len(s) : run[i].done = Len(ps) => run[i].at = 0
  PROVE  \A i \in 1 .. Len(s) : s[i] # "$"
<1> DEFINE P == {k \in Nat : k <= Len(s) => run[k].done = Len(ps)}
<1>1. Len(s) \in Nat /\ Len(ps) \in Nat
  OBVIOUS
<1>2. 0 \in P
  OBVIOUS
<1>3. ASSUME NEW k \in P, k < Len(s) PROVE k + 1 \in P
  <2>1. k \in Nat /\ k \in 0 .. Len(s) /\ k + 1 \in 1 .. Len(s) /\ k + 1 \in 0 .. Len(s) /\ (k + 1) - 1 = k
    BY <1>1, <1>3
  <2>2. run[k].done = Len(ps)
    BY <1>1, <1>3
  <2>3. run[k].at = 0 /\ Valid(ps, run[k + 1])
    BY <2>1, <2>2 DEF IsRun
  <2>4. Follows(ps, run[k], s[k + 1], run[k + 1])
    BY <2>1 DEF IsRun
  <2>5. run[k + 1].done = run[k].done
    BY <2>3, <2>4 DEF Follows
  <2> QED BY <2>1, <2>2, <2>5
<1> HIDE DEF P
<1>4. \A k \in 0 .. Len(s) : k \in P
  BY <1>1, <1>2, <1>3, Climb
<1>5. ASSUME NEW i \in 1 .. Len(s) PROVE s[i] # "$"
  <2>1. i - 1 \in 0 .. Len(s) /\ i \in 0 .. Len(s) /\ i \in Nat /\ i - 1 \in Nat
    BY <1>1
  <2>2. i \in P /\ i - 1 \in P
    BY <1>4, <2>1
  <2>3. run[i - 1].done = Len(ps) /\ run[i].done = Len(ps)
    BY <2>1, <2>2 DEF P
  <2>4. run[i - 1].at = 0 /\ run[i].at = 0
    BY <2>1, <2>3
  <2>5. Follows(ps, run[i - 1], s[i], run[i])
    BY DEF IsRun
  <2> QED BY <2>4, <2>5 DEF Follows
<1> QED BY <1>5

(* A "$" in none of its parts is in no concatenation or cut of them. *)
Quiet(s) == \A i \in 1 .. Len(s) : s[i] # "$"

LEMMA QuietConcat ==
  ASSUME NEW s \in Seq(Byte), NEW t \in Seq(Byte)
  PROVE  s \o t \in Seq(Byte) /\ (Quiet(s \o t) <=> Quiet(s) /\ Quiet(t))
<1> DEFINE st == s \o t
           n  == Len(s)
           m  == Len(t)
<1>1. /\ n \in Nat /\ m \in Nat /\ Len(st) = n + m /\ st \in Seq(Byte)
      /\ \A i \in 1 .. n + m : st[i] = IF i <= n THEN s[i] ELSE t[i - n]
  BY ConcatProperties
<1> HIDE DEF st, n, m
<1>2. ASSUME Quiet(st) PROVE Quiet(s)
  <2> SUFFICES ASSUME NEW i \in 1 .. n PROVE s[i] # "$"
    BY DEF Quiet, n
  <2>1. i \in 1 .. n + m /\ i <= n
    BY <1>1
  <2> QED BY <1>1, <1>2, <2>1 DEF Quiet
<1>3. ASSUME Quiet(st) PROVE Quiet(t)
  <2> SUFFICES ASSUME NEW i \in 1 .. m PROVE t[i] # "$"
    BY DEF Quiet, m
  <2>1. n + i \in 1 .. n + m /\ ~(n + i <= n) /\ (n + i) - n = i
    BY <1>1
  <2> QED BY <1>1, <1>3, <2>1 DEF Quiet
<1>4. ASSUME Quiet(s), Quiet(t) PROVE Quiet(st)
  <2> SUFFICES ASSUME NEW i \in 1 .. n + m PROVE st[i] # "$"
    BY <1>1 DEF Quiet
  <2>1. \/ i \in 1 .. n /\ st[i] = s[i]
        \/ i - n \in 1 .. m /\ st[i] = t[i - n]
    BY <1>1
  <2> QED BY <1>4, <2>1 DEF Quiet, n, m
<1> QED BY <1>1, <1>2, <1>3, <1>4 DEF st

LEMMA QuietPiece ==
  ASSUME NEW s \in Seq(Byte), Quiet(s), NEW a \in Nat \ {0}, NEW b \in Nat, b <= Len(s)
  PROVE  SubSeq(s, a, b) \in Seq(Byte) /\ Quiet(SubSeq(s, a, b))
<1>1. Len(s) \in Nat /\ \A i \in a .. b : i \in 1 .. Len(s) /\ s[i] \in Byte
  OBVIOUS
<1>2. a \in Int /\ b \in Int
  OBVIOUS
<1>3. /\ SubSeq(s, a, b) \in Seq(Byte)
      /\ Len(SubSeq(s, a, b)) = (IF a <= b THEN b - a + 1 ELSE 0)
      /\ \A i \in 1 .. b - a + 1 : SubSeq(s, a, b)[i] = s[a + i - 1]
  BY <1>1, <1>2, SubSeqProperties
<1>4. ASSUME NEW i \in 1 .. Len(SubSeq(s, a, b)) PROVE SubSeq(s, a, b)[i] # "$"
  <2>1. i \in 1 .. b - a + 1 /\ a + i - 1 \in 1 .. Len(s)
    <3>1. CASE a <= b
      BY <1>1, <1>3, <3>1
    <3>2. CASE ~(a <= b)
      BY <1>3, <3>2
    <3> QED BY <3>1, <3>2
  <2> QED BY <1>3, <2>1 DEF Quiet
<1> QED BY <1>3, <1>4 DEF Quiet

(* poll_input() invents no byte. *)
LEMMA PollStaysQuiet ==
  ASSUME Buffers, FullBufferHasNoInterrupt, mode = "running", Quiet(rx), Quiet(sock)
  PROVE  Quiet(poll_input.rx) /\ Quiet(poll_input.sock)
<1> DEFINE kept == IF Len(rx) = RxSize THEN <<>> ELSE rx
           n    == Min({Len(sock), RxSize - Len(kept)})
           buf  == kept \o SubSeq(sock, 1, n)
           at   == FirstInterrupt(SubSeq(buf, 0 + 1, Len(buf)))
<1>1. rx \in Seq(Byte) /\ Len(rx) \in Nat /\ Len(rx) <= RxSize /\ sock \in Seq(Byte) /\ Len(sock) \in Nat
  BY DEF Buffers
<1>2. kept \in Seq(Byte) /\ Len(kept) < RxSize /\ Quiet(kept)
  <2>1. CASE Len(rx) = RxSize
    <3>1. kept = <<>> /\ kept \in Seq(Byte) /\ Len(kept) = 0
      BY <2>1
    <3> QED BY <3>1, SizesType DEF Quiet
  <2>2. CASE Len(rx) # RxSize
    <3>1. kept = rx
      BY <2>2
    <3>2. Len(rx) < RxSize
      BY <1>1, <2>2, SizesType
    <3> QED BY <1>1, <3>1, <3>2
  <2> QED BY <2>1, <2>2
<1>3. poll_input = Polled(kept, 0)
  BY DEF poll_input
<1>4. /\ Polled(kept, 0).sock = SubSeq(sock, n + 1, Len(sock))
      /\ Polled(kept, 0).rx = IF at > 0 THEN SubSeq(buf, 0 + at + 1, Len(buf)) ELSE buf
  BY Zenon DEF Polled
<1> HIDE DEF kept
<1>5. n \in 0 .. Len(sock)
  BY <1>1, <1>2, PolledEffect
<1> HIDE DEF n
<1>6. Quiet(SubSeq(sock, n + 1, Len(sock))) /\ Quiet(SubSeq(sock, 1, n)) /\ SubSeq(sock, 1, n) \in Seq(Byte)
  <2>1. n + 1 \in Nat \ {0} /\ 1 \in Nat \ {0} /\ n \in Nat /\ n <= Len(sock)
    BY <1>1, <1>5
  <2> QED BY <1>1, <2>1, QuietPiece
<1>7. buf \in Seq(Byte) /\ Quiet(buf) /\ Len(buf) \in Nat
  <2> DEFINE t == SubSeq(sock, 1, n)
  <2>1. t \in Seq(Byte) /\ Quiet(t)
    BY <1>6
  <2> HIDE DEF t
  <2>2. kept \o t \in Seq(Byte) /\ Quiet(kept \o t)
    BY <1>2, <2>1, QuietConcat
  <2> QED BY <2>2 DEF t
<1> HIDE DEF buf
<1>8. SubSeq(buf, 0 + 1, Len(buf)) = buf
  <2>1. SubSeq(buf, 1, Len(buf)) = buf
    BY <1>7, SubSeqFull
  <2> QED BY <2>1
<1>9. at \in Nat
  <2>1. FirstInterrupt(buf) \in 0 .. Len(buf)
    BY <1>7, FirstInterruptFound
  <2>2. FirstInterrupt(buf) \in Nat
    BY <1>7, <2>1
  <2> QED BY <1>8, <2>2, Zenon
<1> HIDE DEF at
<1>10. Quiet(SubSeq(buf, 0 + at + 1, Len(buf)))
  <2>1. 0 + at + 1 \in Nat \ {0} /\ Len(buf) <= Len(buf)
    BY <1>7, <1>9
  <2> QED BY <1>7, <2>1, QuietPiece
<1> QED BY <1>3, <1>4, <1>6, <1>7, <1>10

-----------------------------------------------------------------------------
(* The packets that are on their way *)

(* Everything the stub has yet to read. *)
Stream == rx \o (sock \o gdb)

(* out and too_long after k characters of the packet. *)
Kept(bytes, k) ==
  /\ Len(out) = IF k <= kMaxPacketSize THEN k ELSE kMaxPacketSize
  /\ \A i \in 1 .. Len(out) : out[i] = bytes[i + 1]
  /\ too_long = (k > kMaxPacketSize)

(* recv_packet() has read what q says of the current packet. *)
Reading(q) ==
  /\ q.done = Len(got)
  /\ \/ mode \in {"between", "running"} /\ q.at = 0
     \/ /\ mode = "payload" /\ q.at \in 1 .. Len(q.frame.bytes) - 3
        /\ Kept(q.frame.bytes, q.at - 1)
     \/ /\ mode = "hi" /\ q.at = Len(q.frame.bytes) - 2
        /\ Kept(q.frame.bytes, Len(q.frame.bytes) - 4)
     \/ /\ mode = "lo" /\ q.at = Len(q.frame.bytes) - 1
        /\ hi = q.frame.bytes[Len(q.frame.bytes) - 1]
        /\ Kept(q.frame.bytes, Len(q.frame.bytes) - 4)

(* The last packet is a c that runs, or will. *)
Pending ==
  /\ Len(sent) > 0 /\ IsContinue(sent[Len(sent)])
  /\ Len(got) < Len(sent) \/ mode = "running"

(* The stream holds the packets not dispatched yet, in order, and nothing  *)
(* begins behind a c. *)
InputRun(run) ==
  /\ IsRun(run, Stream, sent) /\ Reading(run[0])
  /\ open => run[Len(Stream)].at = 0 /\ run[Len(Stream)].done = Len(sent)
  /\ Pending => \A i \in 0 .. Len(Stream) : run[i].done = Len(sent) => run[i].at = 0

Dispatched ==
  /\ Len(got) <= Len(sent) /\ \A n \in 1 .. Len(got) : got[n] = sent[n]
  /\ \A n \in Len(got) + 1 .. Len(sent) : IsContinue(sent[n]) => n = Len(sent)
  /\ mode = "running" => /\ Len(got) = Len(sent) /\ Len(sent) > 0
                         /\ IsContinue(sent[Len(sent)])

ForgottenBetween == mode \in {"between", "running"} => out = <<>> /\ too_long = FALSE

PacketInv ==
  /\ InputIInv /\ Dispatched /\ ForgottenBetween
  /\ mode # "ended" => \E run : InputRun(run)

LEMMA BytesAssociate == \A s, t, u \in Seq(Byte) : (s \o t) \o u = s \o (t \o u)
BY ConcatAssociative

LEMMA StreamType ==
  ASSUME Buffers
  PROVE  /\ Stream \in Seq(Byte) /\ Len(Stream) \in Nat
         /\ rx \in Seq(Byte) /\ sock \in Seq(Byte) /\ gdb \in Seq(Byte)
         /\ sock \o gdb \in Seq(Byte)
<1>1. rx \in Seq(Byte) /\ sock \in Seq(Byte) /\ gdb \in Seq(Byte)
  BY DEF Buffers
<1>2. sock \o gdb \in Seq(Byte)
  BY <1>1
<1> QED BY <1>1, <1>2 DEF Stream

LEMMA CountsType ==
  ASSUME Reader
  PROVE  sent \in Seq(Seq(Byte)) /\ got \in Seq(Seq(Byte)) /\ Len(sent) \in Nat /\ Len(got) \in Nat
BY DEF Reader

LEMMA ReadingUnchanged ==
  ASSUME NEW q, Reading(q), UNCHANGED <<got, mode, out, too_long, hi>>
  PROVE  Reading(q)'
BY DEF Reading, Kept

(* Bytes that move on are the same bytes. *)
LEMMA SameStream ==
  ASSUME NEW run, InputRun(run), Stream' = Stream,
         UNCHANGED <<sent, got, mode, out, too_long, hi, open>>
  PROVE  InputRun(run)'
BY DEF InputRun, Reading, Kept, Pending

LEMMA SameDispatched ==
  ASSUME Dispatched, ForgottenBetween, UNCHANGED <<sent, got, mode, out, too_long>>
  PROVE  (Dispatched /\ ForgottenBetween)'
BY DEF Dispatched, ForgottenBetween

(* GDB sends behind everything it has sent before. *)
LEMMA SendExtends ==
  ASSUME Buffers, Reader, NEW run, InputRun(run), open, gdb = <<>>,
         NEW bytes \in Seq(Byte), NEW ext, NEW ps,
         gdb' = bytes, UNCHANGED <<rx, sock, open, got, mode, out, too_long, hi>>,
         sent' = ps, IsRun(run, Stream, ps), IsRun(ext, bytes, ps),
         ext[0].at = 0, ext[0].done = Len(sent),
         ext[Len(bytes)].at = 0, ext[Len(bytes)].done = Len(ps),
         Pending' => /\ \A i \in 0 .. Len(Stream) : run[i].done = Len(ps) => run[i].at = 0
                     /\ \A i \in 0 .. Len(bytes) : ext[i].done = Len(ps) => ext[i].at = 0
  PROVE  \E next : InputRun(next)'
<1>1. Stream \in Seq(Byte) /\ rx \in Seq(Byte) /\ sock \in Seq(Byte)
  BY StreamType
<1>2. run[Len(Stream)].at = 0 /\ run[Len(Stream)].done = ext[0].done
  BY DEF InputRun
<1>3. PICK both : /\ IsRun(both, Stream \o bytes, ps) /\ both[0] = run[0]
                  /\ both[Len(Stream \o bytes)].at = ext[Len(bytes)].at
                  /\ both[Len(Stream \o bytes)].done = ext[Len(bytes)].done
                  /\ \A i \in 0 .. Len(Stream \o bytes) :
                       \/ \E j \in 0 .. Len(Stream) : both[i] = run[j]
                       \/ \E j \in 0 .. Len(bytes) : both[i] = ext[j]
  <2> DEFINE st == Stream
  <2>1. /\ st \in Seq(Byte) /\ IsRun(run, st, ps) /\ IsRun(ext, bytes, ps)
        /\ run[Len(st)].at = 0 /\ ext[0].at = 0 /\ run[Len(st)].done = ext[0].done
    BY <1>1, <1>2
  <2> HIDE DEF st
  <2>2. \E both : /\ IsRun(both, st \o bytes, ps) /\ both[0] = run[0]
                  /\ both[Len(st \o bytes)].at = ext[Len(bytes)].at
                  /\ both[Len(st \o bytes)].done = ext[Len(bytes)].done
                  /\ \A i \in 0 .. Len(st \o bytes) :
                       \/ \E j \in 0 .. Len(st) : both[i] = run[j]
                       \/ \E j \in 0 .. Len(bytes) : both[i] = ext[j]
    BY ONLY <2>1, bytes \in Seq(Byte), RunExtends
  <2> QED BY <2>2, Zenon DEF st
<1>4. Stream' = Stream \o bytes
  <2>1. Stream' = rx \o (sock \o bytes)
    BY DEF Stream
  <2>2. Stream = rx \o sock
    <3>1. sock \o gdb = sock
      BY <1>1, ConcatEmptySeq
    <3> QED BY <3>1 DEF Stream
  <2>3. rx \o (sock \o bytes) = (rx \o sock) \o bytes
    <3>1. rx \in Seq(Byte) /\ sock \in Seq(Byte) /\ bytes \in Seq(Byte)
      BY <1>1
    <3> QED BY ONLY <3>1, ConcatAssociative
  <2> QED BY <2>1, <2>2, <2>3
<1>5. Reading(both[0])'
  <2>1. Reading(run[0]) /\ both[0] = run[0]
    BY <1>3 DEF InputRun
  <2>2. UNCHANGED <<got, mode, out, too_long, hi>>
    OBVIOUS
  <2>3. Reading(run[0])'
    BY <2>1, <2>2, ReadingUnchanged
  <2> QED BY <2>1, <2>3
<1>6. Pending' => \A i \in 0 .. Len(Stream \o bytes) : both[i].done = Len(ps) => both[i].at = 0
  BY <1>3
<1>7. IsRun(both, Stream', sent') /\ both[Len(Stream')].at = 0 /\ both[Len(Stream')].done = Len(sent')
      /\ (Pending' => \A i \in 0 .. Len(Stream') : both[i].done = Len(sent') => both[i].at = 0)
  BY <1>3, <1>4, <1>6
<1>8. InputRun(both)'
  BY <1>5, <1>7 DEF InputRun
<1> QED BY <1>8

LEMMA SendPacketInOrder ==
  ASSUME PacketInv, NEW f \in Frames, SendPacket(f)
  PROVE  (Dispatched /\ ForgottenBetween /\ (mode # "ended" => \E run : InputRun(run)))'
<1>1. Buffers /\ Reader /\ Dispatched /\ ForgottenBetween
  BY InputParts DEF PacketInv
<1>2. /\ TargetStopped /\ open /\ mode # "ended" /\ gdb = <<>>
      /\ gdb' = f.bytes /\ sent' = IF f.ok THEN Append(sent, f.payload) ELSE sent
      /\ UNCHANGED <<rx, sock, open, got, mode, out, too_long, hi>>
  BY DEF SendPacket, Send, packet, history
<1>3. PICK run : InputRun(run)
  BY <1>2 DEF PacketInv
<1>4. f.bytes \in Seq(Byte) /\ f.payload \in Seq(Byte) /\ Len(f.bytes) \in Nat
  BY FrameFacts
<1>5. sent \in Seq(Seq(Byte)) /\ got \in Seq(Seq(Byte)) /\ Len(sent) \in Nat /\ Len(got) \in Nat
  BY <1>1, CountsType
<1>6. /\ Append(sent, f.payload) \in Seq(Seq(Byte)) /\ Len(Append(sent, f.payload)) = Len(sent) + 1
      /\ \A n \in 1 .. Len(sent) : Append(sent, f.payload)[n] = sent[n]
      /\ Append(sent, f.payload)[Len(sent) + 1] = f.payload
  BY <1>4, <1>5, AppendProperties
<1>7. Stream \in Seq(Byte) /\ Len(Stream) \in Nat
  BY <1>1, StreamType
<1> DEFINE ps == IF f.ok THEN Append(sent, f.payload) ELSE sent
           d  == Len(sent)
           by == [i \in 0 .. Len(f.bytes) |->
                    [at    |-> IF i = Len(f.bytes) THEN 0 ELSE i,
                     frame |-> f,
                     done  |-> IF i = Len(f.bytes) /\ f.ok THEN d + 1 ELSE d]]
<1>8. /\ ps \in Seq(Seq(Byte)) /\ Len(ps) \in Nat /\ d \in 0 .. Len(ps)
      /\ f.ok => d < Len(ps) /\ ps[d + 1] = f.payload
      /\ Len(ps) = IF f.ok THEN d + 1 ELSE d
  BY <1>5, <1>6
<1>9. /\ IsRun(by, f.bytes, ps)
      /\ by[0].at = 0 /\ by[0].done = d
      /\ by[Len(f.bytes)].at = 0 /\ by[Len(f.bytes)].done = Len(ps)
      /\ \A i \in 0 .. Len(f.bytes) - 1 : by[i].done = d
  <2> HIDE DEF ps
  <2> QED BY <1>8, FrameRun
<1> HIDE DEF by
<1>10. IsRun(run, Stream, sent)
  BY <1>3 DEF InputRun
<1>11. IsRun(run, Stream, ps)
  <2>1. CASE f.ok
    BY <1>4, <1>5, <1>7, <1>10, <2>1, RunGrows
  <2>2. CASE ~f.ok
    BY <1>10, <2>2
  <2> QED BY <2>1, <2>2
<1>12. \A i \in 0 .. Len(Stream) : run[i].done <= d
  BY <1>5, <1>10 DEF IsRun, Valid
<1>13. ~f.ok => ~Pending'
  <2> SUFFICES ASSUME ~f.ok, Pending' PROVE FALSE
    OBVIOUS
  <2>1. /\ Len(sent) > 0 /\ IsContinue(sent[Len(sent)])
        /\ Len(got) < Len(sent) \/ mode = "running"
    BY <1>2 DEF Pending
  <2>2. Len(sent) \in Len(got) + 1 .. Len(sent)
    BY <1>2, <1>5, <2>1 DEF TargetStopped
  <2> QED BY <1>2, <2>1, <2>2 DEF TargetStopped
<1>14. f.ok => /\ \A i \in 0 .. Len(Stream) : run[i].done = Len(ps) => run[i].at = 0
               /\ \A i \in 0 .. Len(f.bytes) : by[i].done = Len(ps) => by[i].at = 0
  <2> SUFFICES ASSUME f.ok PROVE /\ \A i \in 0 .. Len(Stream) : run[i].done # Len(ps)
                                 /\ \A i \in 0 .. Len(f.bytes) - 1 : by[i].done # Len(ps)
    BY <1>4, <1>9
  <2>1. Len(ps) = d + 1 /\ d \in Nat
    BY <1>5, <1>8
  <2>2. \A i \in 0 .. Len(Stream) : run[i].done \in Nat
    BY <1>10, <1>5 DEF IsRun, Valid
  <2> HIDE DEF d, ps
  <2> QED BY <1>9, <1>12, <2>1, <2>2
<1>15. \E next : InputRun(next)'
  <2>1. Pending' => /\ \A i \in 0 .. Len(Stream) : run[i].done = Len(ps) => run[i].at = 0
                    /\ \A i \in 0 .. Len(f.bytes) : by[i].done = Len(ps) => by[i].at = 0
    BY <1>13, <1>14
  <2>2. sent' = ps
    BY <1>2
  <2> HIDE DEF ps
  <2> QED BY <1>1, <1>2, <1>3, <1>4, <1>9, <1>11, <2>1, <2>2, SendExtends
<1>16. Dispatched'
  <2>1. mode # "running" /\ \A n \in Len(got) + 1 .. Len(sent) : ~IsContinue(sent[n])
    BY <1>2 DEF TargetStopped
  <2>2. CASE f.ok
    <3>1. /\ Len(sent') = Len(sent) + 1
          /\ \A n \in 1 .. Len(sent) : sent'[n] = sent[n]
      BY <1>2, <1>6, <2>2
    <3>2. Len(got') <= Len(sent') /\ \A n \in 1 .. Len(got') : got'[n] = sent'[n]
      BY <1>1, <1>2, <1>5, <3>1 DEF Dispatched
    <3>3. Len(got') = Len(got)
      BY <1>2
    <3>4. ASSUME NEW n \in Len(got) + 1 .. Len(sent) + 1, IsContinue(sent'[n])
          PROVE  n = Len(sent')
      <4>1. n = Len(sent) + 1 \/ (n \in Len(got) + 1 .. Len(sent) /\ n \in 1 .. Len(sent))
        BY <1>5
      <4> QED BY <2>1, <3>1, <3>4, <4>1
    <3>5. \A n \in Len(got') + 1 .. Len(sent') : IsContinue(sent'[n]) => n = Len(sent')
      BY <3>1, <3>3, <3>4
    <3> QED BY <1>2, <2>1, <3>2, <3>5 DEF Dispatched
  <2>3. CASE ~f.ok
    BY <1>1, <1>2, <2>3 DEF Dispatched
  <2> QED BY <2>2, <2>3
<1>17. ForgottenBetween'
  BY <1>1, <1>2 DEF ForgottenBetween
<1> QED BY <1>15, <1>16, <1>17

LEMMA SendOtherInOrder ==
  ASSUME PacketInv, NEW bytes \in Noise \cup {<<Interrupt>>}, SendOther(bytes)
  PROVE  (Dispatched /\ ForgottenBetween /\ (mode # "ended" => \E run : InputRun(run)))'
<1>1. Buffers /\ Reader /\ Dispatched /\ ForgottenBetween
  BY InputParts DEF PacketInv
<1>2. /\ open /\ mode # "ended" /\ gdb = <<>> /\ gdb' = bytes
      /\ UNCHANGED <<sent, rx, sock, open, got, mode, out, too_long, hi>>
  BY DEF SendOther, Send, packet, history
<1>3. PICK run : InputRun(run)
  BY <1>2 DEF PacketInv
<1>4. bytes \in Seq(Byte) /\ \A i \in 1 .. Len(bytes) : bytes[i] # "$"
  <2>1. CASE bytes \in Noise
    <3>1. Noise \subseteq Seq(Byte)
      BY InputAssumption, Zenon
    <3>2. \A i \in DOMAIN bytes : bytes[i] # "$"
      BY <2>1, FramesAssumption, Zenon
    <3>3. bytes \in Seq(Byte)
      BY <2>1, <3>1
    <3> QED BY <3>2, <3>3
  <2>2. CASE bytes = <<Interrupt>>
    <3>1. Interrupt \in Byte
      BY InputAssumption, Zenon
    <3> QED BY <2>2, <3>1 DEF Interrupt
  <2> QED BY <2>1, <2>2
<1>5. IsRun(run, Stream, sent) /\ Len(Stream) \in Nat /\ Len(sent) \in Nat
  BY <1>1, <1>3, StreamType, CountsType DEF InputRun
<1> DEFINE q   == run[Len(Stream)]
           ext == [i \in 0 .. Len(bytes) |-> q]
<1>6. Valid(sent, q) /\ q.at = 0 /\ q.done = Len(sent)
  BY <1>2, <1>3, <1>5 DEF InputRun, IsRun
<1>7. \A i \in 0 .. Len(bytes) : ext[i] = q
  OBVIOUS
<1>8. IsRun(ext, bytes, sent) /\ ext[0] = q /\ ext[Len(bytes)] = q
  <2> HIDE DEF q
  <2> QED BY <1>4, <1>6, QuietRun
<1> HIDE DEF q, ext
<1>9. Pending' => /\ \A i \in 0 .. Len(Stream) : run[i].done = Len(sent) => run[i].at = 0
                  /\ \A i \in 0 .. Len(bytes) : ext[i].done = Len(sent) => ext[i].at = 0
  <2>1. Pending' => Pending
    BY <1>2 DEF Pending
  <2> QED BY <1>3, <1>6, <1>7, <2>1 DEF InputRun
<1>10. \E next : InputRun(next)'
  <2>1. /\ IsRun(run, Stream, sent) /\ IsRun(ext, bytes, sent)
        /\ ext[0].at = 0 /\ ext[0].done = Len(sent)
        /\ ext[Len(bytes)].at = 0 /\ ext[Len(bytes)].done = Len(sent)
    BY <1>5, <1>6, <1>8
  <2> QED BY <1>1, <1>2, <1>3, <1>4, <1>9, <2>1, SendExtends
<1>11. Dispatched' /\ ForgottenBetween'
  BY <1>1, <1>2, SameDispatched
<1> QED BY <1>10, <1>11

(* The bytes that arrive, or that recv() takes, keep their order. *)
LEMMA ArriveInOrder ==
  ASSUME PacketInv, Arrive \/ Fill
  PROVE  (Dispatched /\ ForgottenBetween /\ (mode # "ended" => \E run : InputRun(run)))'
<1>1. Buffers /\ Reader /\ Dispatched /\ ForgottenBetween
  BY InputParts DEF PacketInv
<1>2. UNCHANGED <<sent, got, mode, out, too_long, hi, open>>
  BY DEF Arrive, Fill, packet, peer, history
<1>3. rx \in Seq(Byte) /\ sock \in Seq(Byte) /\ gdb \in Seq(Byte)
  BY <1>1, StreamType
<1>4. Stream' = Stream
  <2>1. CASE Arrive
    <3>1. PICK n \in 1 .. Len(gdb) : /\ sock' = sock \o SubSeq(gdb, 1, n)
                                     /\ gdb' = SubSeq(gdb, n + 1, Len(gdb))
      BY <2>1 DEF Arrive
    <3>2. rx' = rx
      BY <2>1 DEF Arrive
    <3>3. n \in 0 .. Len(gdb)
      BY <1>3
    <3>4. /\ SubSeq(gdb, 1, n) \in Seq(Byte) /\ SubSeq(gdb, n + 1, Len(gdb)) \in Seq(Byte)
          /\ gdb = SubSeq(gdb, 1, n) \o SubSeq(gdb, n + 1, Len(gdb))
      BY <1>3, <3>3, InterruptsSplit
    <3>5. (sock \o SubSeq(gdb, 1, n)) \o SubSeq(gdb, n + 1, Len(gdb))
            = sock \o (SubSeq(gdb, 1, n) \o SubSeq(gdb, n + 1, Len(gdb)))
      BY <1>3, <3>4, BytesAssociate, Zenon
    <3> QED BY <3>1, <3>2, <3>4, <3>5, Zenon DEF Stream
  <2>2. CASE Fill
    <3> DEFINE n == Min({Len(sock), RxSize})
    <3>1. rx = <<>> /\ rx' = SubSeq(sock, 1, n) /\ sock' = SubSeq(sock, n + 1, Len(sock)) /\ gdb' = gdb
      BY <2>2 DEF Fill, peer
    <3>2. n \in 0 .. Len(sock)
      <4>1. Len(sock) \in Nat /\ RxSize \in Nat
        BY <1>3, SizesType
      <4> QED BY <4>1, MinOfTwo
    <3> HIDE DEF n
    <3>3. /\ SubSeq(sock, 1, n) \in Seq(Byte) /\ SubSeq(sock, n + 1, Len(sock)) \in Seq(Byte)
          /\ sock = SubSeq(sock, 1, n) \o SubSeq(sock, n + 1, Len(sock))
      BY <1>3, <3>2, InterruptsSplit
    <3>4. (SubSeq(sock, 1, n) \o SubSeq(sock, n + 1, Len(sock))) \o gdb
            = SubSeq(sock, 1, n) \o (SubSeq(sock, n + 1, Len(sock)) \o gdb)
      BY <1>3, <3>3, BytesAssociate, Zenon
    <3>5. Stream = sock \o gdb
      <4>1. sock \o gdb \in Seq(Byte)
        BY <1>1, StreamType
      <4>2. <<>> \o (sock \o gdb) = sock \o gdb
        BY <4>1, ConcatEmptySeq
      <4> QED BY <3>1, <4>2 DEF Stream
    <3>6. Stream' = SubSeq(sock, 1, n) \o (SubSeq(sock, n + 1, Len(sock)) \o gdb)
      BY <3>1 DEF Stream
    <3>7. sock \o gdb = (SubSeq(sock, 1, n) \o SubSeq(sock, n + 1, Len(sock))) \o gdb
      BY <3>3, Zenon
    <3> QED BY <3>4, <3>5, <3>6, <3>7, Zenon
  <2> QED BY <2>1, <2>2
<1>5. Dispatched' /\ ForgottenBetween'
  BY <1>1, <1>2, SameDispatched
<1>6. mode' # "ended" => \E run : InputRun(run)'
  <2> SUFFICES ASSUME mode' # "ended" PROVE \E run : InputRun(run)'
    OBVIOUS
  <2>1. PICK run : InputRun(run)
    BY <1>2 DEF PacketInv
  <2>2. InputRun(run)'
    BY <1>2, <1>4, <2>1, SameStream
  <2> QED BY <2>2
<1> QED BY <1>5, <1>6

(* What had not arrived is lost when GDB goes. *)
LEMMA PeerCloseInOrder ==
  ASSUME PacketInv, PeerClose
  PROVE  (Dispatched /\ ForgottenBetween /\ (mode # "ended" => \E run : InputRun(run)))'
<1>1. Buffers /\ Reader /\ Dispatched /\ ForgottenBetween
  BY InputParts DEF PacketInv
<1>2. /\ mode # "ended" /\ open' = FALSE /\ gdb' = <<>>
      /\ UNCHANGED <<sent, rx, sock, got, mode, out, too_long, hi>>
  BY DEF PeerClose, packet, history
<1>3. PICK run : InputRun(run)
  BY <1>2 DEF PacketInv
<1>4. rx \in Seq(Byte) /\ sock \in Seq(Byte) /\ gdb \in Seq(Byte) /\ rx \o sock \in Seq(Byte)
  <2>1. rx \in Seq(Byte) /\ sock \in Seq(Byte) /\ gdb \in Seq(Byte)
    BY <1>1, StreamType
  <2> QED BY <2>1
<1>5. Stream' = rx \o sock
  <2>1. sock \o <<>> = sock
    BY <1>4, ConcatEmptySeq
  <2>2. Stream' = rx \o (sock \o <<>>)
    BY <1>2 DEF Stream
  <2> QED BY <2>1, <2>2
<1>6. Stream = (rx \o sock) \o gdb
  <2>1. (rx \o sock) \o gdb = rx \o (sock \o gdb)
    BY <1>4, ConcatAssociative
  <2> QED BY <2>1 DEF Stream
<1>7. IsRun(run, Stream', sent) /\ Len(Stream') <= Len(Stream)
  <2>1. IsRun(run, (rx \o sock) \o gdb, sent)
    BY <1>3, <1>6 DEF InputRun
  <2> DEFINE s == rx \o sock
  <2>2. s \in Seq(Byte) /\ IsRun(run, s \o gdb, sent)
    BY <1>4, <2>1
  <2> HIDE DEF s
  <2>3. IsRun(run, s, sent) /\ Len(s) <= Len(s \o gdb)
    BY <1>4, <2>2, RunPrefix
  <2> QED BY <1>5, <1>6, <2>3 DEF s
<1>8. Reading(run[0])'
  BY <1>2, <1>3, ReadingUnchanged DEF InputRun
<1>9. Pending' => \A i \in 0 .. Len(Stream') : run[i].done = Len(sent) => run[i].at = 0
  <2>1. Pending' => Pending
    BY <1>2 DEF Pending
  <2>2. Len(Stream) \in Nat /\ Len(Stream') \in Nat
    BY <1>1, <1>4, <1>5, StreamType
  <2>3. \A i \in 0 .. Len(Stream') : i \in 0 .. Len(Stream)
    BY <1>7, <2>2
  <2> QED BY <1>3, <2>1, <2>3 DEF InputRun
<1>10. InputRun(run)'
  BY <1>2, <1>7, <1>8, <1>9 DEF InputRun
<1>11. Dispatched' /\ ForgottenBetween'
  BY <1>1, <1>2, SameDispatched
<1> QED BY <1>10, <1>11

LEMMA HeadOfStream ==
  ASSUME NEW s \in Seq(Byte), NEW t \in Seq(Byte), s # <<>>
  PROVE  s \o t # <<>> /\ Head(s \o t) = Head(s) /\ Tail(s \o t) = Tail(s) \o t
<1>1. /\ Len(s) \in Nat /\ Len(t) \in Nat /\ Len(s) > 0 /\ Len(s \o t) = Len(s) + Len(t)
      /\ s \o t \in Seq(Byte)
      /\ \A i \in 1 .. Len(s) + Len(t) : (s \o t)[i] = IF i <= Len(s) THEN s[i] ELSE t[i - Len(s)]
  BY ConcatProperties, EmptySeq
<1>2. /\ Tail(s) \in Seq(Byte) /\ Len(Tail(s)) = Len(s) - 1
      /\ \A i \in 1 .. Len(s) - 1 : Tail(s)[i] = s[i + 1]
  BY HeadTailProperties
<1>3. s \o t # <<>> /\ Len(s \o t) > 0
  BY <1>1
<1>4. Head(s \o t) = Head(s)
  BY <1>1, <1>3
<1> DEFINE u == s \o t
           v == Tail(s) \o t
<1>5. /\ Tail(u) \in Seq(Byte) /\ Len(Tail(u)) = Len(s) + Len(t) - 1
      /\ \A i \in 1 .. Len(s) + Len(t) - 1 : Tail(u)[i] = u[i + 1]
  BY <1>1, <1>3, HeadTailProperties
<1>6. /\ v \in Seq(Byte) /\ Len(v) = (Len(s) - 1) + Len(t)
      /\ \A i \in 1 .. (Len(s) - 1) + Len(t) :
           v[i] = IF i <= Len(s) - 1 THEN Tail(s)[i] ELSE t[i - (Len(s) - 1)]
  BY <1>2, ConcatProperties
<1>7. \A i \in 1 .. Len(s) + Len(t) : u[i] = IF i <= Len(s) THEN s[i] ELSE t[i - Len(s)]
  BY <1>1
<1> HIDE DEF u, v
<1>8. \A i \in 1 .. Len(s) + Len(t) - 1 : Tail(u)[i] = v[i]
  <2> SUFFICES ASSUME NEW i \in 1 .. Len(s) + Len(t) - 1 PROVE Tail(u)[i] = v[i]
    OBVIOUS
  <2>1. i \in 1 .. (Len(s) - 1) + Len(t) /\ i + 1 \in 1 .. Len(s) + Len(t)
        /\ (i + 1) - Len(s) = i - (Len(s) - 1) /\ (i + 1 <= Len(s) <=> i <= Len(s) - 1)
    BY <1>1
  <2>2. CASE i <= Len(s) - 1
    <3>1. i \in 1 .. Len(s) - 1
      BY <1>1, <2>2
    <3> QED BY <1>2, <1>5, <1>6, <1>7, <2>1, <2>2, <3>1
  <2>3. CASE ~(i <= Len(s) - 1)
    BY <1>5, <1>6, <1>7, <2>1, <2>3
  <2> QED BY <2>2, <2>3
<1>9. Len(Tail(u)) = Len(v)
  BY <1>1, <1>5, <1>6
<1>10. Tail(u) = v
  BY <1>5, <1>6, <1>8, <1>9, SeqEqual
<1> QED BY <1>3, <1>4, <1>10 DEF u, v

(* Store() keeps what fits. *)
LEMMA StoreKept ==
  ASSUME NEW bytes, NEW k \in Nat \ {0}, out \in Seq(Byte), Kept(bytes, k - 1),
         NEW c \in Byte, Store(c), c = bytes[k + 1]
  PROVE  Kept(bytes, k)'
<1>1. /\ kMaxPacketSize \in Nat
      /\ Len(out) = (IF k - 1 <= kMaxPacketSize THEN k - 1 ELSE kMaxPacketSize)
      /\ \A i \in 1 .. Len(out) : out[i] = bytes[i + 1]
      /\ too_long = (k - 1 > kMaxPacketSize)
  BY SizesType DEF Kept
<1>2. CASE Len(out) < kMaxPacketSize
  <2>1. out' = Append(out, c) /\ too_long' = too_long
    BY <1>2 DEF Store
  <2>2. Len(out) = k - 1 /\ k <= kMaxPacketSize
    BY <1>1, <1>2
  <2>3. /\ Len(Append(out, c)) = k /\ Append(out, c)[k] = c
        /\ \A i \in 1 .. k - 1 : Append(out, c)[i] = out[i]
    BY <2>2
  <2>4. \A i \in 1 .. k : i = k \/ i \in 1 .. k - 1
    OBVIOUS
  <2>5. \A i \in 1 .. k : Append(out, c)[i] = bytes[i + 1]
    BY <1>1, <2>2, <2>3, <2>4
  <2>6. ~(k - 1 > kMaxPacketSize) /\ ~(k > kMaxPacketSize)
    BY <1>1, <2>2
  <2> QED BY <1>1, <2>1, <2>2, <2>3, <2>5, <2>6 DEF Kept
<1>3. CASE ~(Len(out) < kMaxPacketSize)
  <2>1. too_long' = TRUE /\ out' = out
    BY <1>3 DEF Store
  <2>2. k > kMaxPacketSize /\ ~(k <= kMaxPacketSize) /\ Len(out) = kMaxPacketSize
    BY <1>1, <1>3
  <2> QED BY <1>1, <2>1, <2>2 DEF Kept
<1> QED BY <1>2, <1>3

(* recv_packet() takes one character: the run without its first label. *)
LEMMA ReadShifts ==
  ASSUME Buffers, NEW run, InputRun(run), NEW c \in Byte, read_byte(c),
         Reading(run[1])', Pending' => Pending
  PROVE  \E next : InputRun(next)'
<1>1. /\ rx # <<>> /\ c = Head(rx) /\ rx' = Tail(rx) /\ UNCHANGED <<gdb, sock, open, sent>>
  BY DEF read_byte, peer
<1>2. Stream \in Seq(Byte) /\ rx \in Seq(Byte) /\ sock \o gdb \in Seq(Byte)
  BY StreamType
<1>3. Stream' = Tail(Stream) /\ Stream # <<>> /\ Head(Stream) = c
  <2> DEFINE t == sock \o gdb
  <2>1. t \in Seq(Byte) /\ Stream = rx \o t /\ Stream' = Tail(rx) \o t
    BY <1>1, <1>2 DEF Stream
  <2> HIDE DEF t
  <2> QED BY <1>1, <1>2, <2>1, HeadOfStream
<1> DEFINE s == Stream
<1>4. IsRun(run, s, sent) /\ s \in Seq(Byte) /\ s # <<>>
  BY <1>2, <1>3 DEF InputRun
<1>5. Tail(s) \in Seq(Byte) /\ Len(Tail(s)) + 1 = Len(s)
  <2> HIDE DEF s
  <2> QED BY <1>4, RunShifts
<1>6. PICK rest : /\ IsRun(rest, Tail(s), sent) /\ rest[0] = run[1]
                  /\ \A i \in 0 .. Len(Tail(s)) : rest[i] = run[i + 1] /\ i + 1 \in 0 .. Len(s)
  <2> HIDE DEF s
  <2> QED BY <1>4, RunShifts
<1>7. Stream' = Tail(s)
  BY <1>3
<1>8. open' => rest[Len(Stream')].at = 0 /\ rest[Len(Stream')].done = Len(sent')
  <2>1. Len(Tail(s)) \in 0 .. Len(Tail(s))
    BY <1>5
  <2>2. rest[Len(Tail(s))] = run[Len(s)]
    BY <1>5, <1>6, <2>1
  <2>3. open => run[Len(s)].at = 0 /\ run[Len(s)].done = Len(sent)
    BY DEF InputRun
  <2> QED BY <1>1, <1>7, <2>2, <2>3
<1>9. Pending' => \A i \in 0 .. Len(Stream') : rest[i].done = Len(sent') => rest[i].at = 0
  <2>1. Pending' => \A i \in 0 .. Len(s) : run[i].done = Len(sent) => run[i].at = 0
    BY DEF InputRun
  <2> QED BY <1>1, <1>7, <1>6, <2>1
<1>10. Reading(rest[0])'
  BY <1>6
<1>11. InputRun(rest)'
  <2>1. IsRun(rest, Stream', sent')
    BY <1>1, <1>7, <1>6
  <2> QED BY <1>8, <1>9, <1>10, <2>1 DEF InputRun
<1> QED BY <1>11

(* What the character means for the packet. *)
LEMMA ReadFollows ==
  ASSUME Buffers, NEW run, InputRun(run), NEW c \in Byte, read_byte(c)
  PROVE  /\ Follows(sent, run[0], c, run[1])
         /\ Valid(sent, run[0]) /\ Valid(sent, run[1]) /\ Reading(run[0])
         /\ UNCHANGED sent
<1>1. /\ rx # <<>> /\ c = Head(rx) /\ rx' = Tail(rx) /\ UNCHANGED <<gdb, sock, open, sent>>
  BY DEF read_byte, peer
<1>2. Stream \in Seq(Byte) /\ rx \in Seq(Byte) /\ sock \o gdb \in Seq(Byte)
  BY StreamType
<1>3. Stream # <<>> /\ Head(Stream) = c
  <2> DEFINE t == sock \o gdb
  <2>1. t \in Seq(Byte) /\ Stream = rx \o t
    BY <1>2 DEF Stream
  <2> HIDE DEF t
  <2> QED BY <1>1, <1>2, <2>1, HeadOfStream
<1>4. IsRun(run, Stream, sent) /\ Reading(run[0])
  BY DEF InputRun
<1> DEFINE s == Stream
<1>5. s \in Seq(Byte) /\ s # <<>> /\ IsRun(run, s, sent) /\ Head(s) = c
  BY <1>2, <1>3, <1>4
<1> HIDE DEF s
<1>6. Follows(sent, run[0], Head(s), run[1]) /\ Valid(sent, run[0]) /\ Valid(sent, run[1])
  BY <1>5, RunShifts
<1> QED BY <1>1, <1>4, <1>5, <1>6

LEMMA SkipToStartInOrder ==
  ASSUME PacketInv, SkipToStart
  PROVE  (Dispatched /\ ForgottenBetween /\ (mode # "ended" => \E run : InputRun(run)))'
<1>1. Buffers /\ Reader /\ Dispatched /\ ForgottenBetween
  BY InputParts DEF PacketInv
<1>2. PICK c \in Byte : read_byte(c) /\ mode' = IF c = "$" THEN "payload" ELSE mode
  BY DEF SkipToStart
<1>3. mode = "between" /\ UNCHANGED <<out, too_long, hi, got>>
  BY DEF SkipToStart, packet
<1>4. PICK run : InputRun(run)
  BY <1>3 DEF PacketInv
<1> DEFINE q == run[0]
           r == run[1]
<1>5. Follows(sent, q, c, r) /\ Valid(sent, r) /\ Reading(q) /\ UNCHANGED sent
  BY <1>1, <1>2, <1>4, ReadFollows
<1> HIDE DEF q, r
<1>6. q.at = 0 /\ q.done = Len(got) /\ out = <<>> /\ too_long = FALSE
  BY <1>1, <1>3, <1>5 DEF Reading, ForgottenBetween
<1>7. Reading(r)'
  <2>1. CASE c # "$"
    <3>1. r.at = 0 /\ r.done = q.done /\ mode' = "between"
      BY <1>2, <1>3, <1>5, <1>6, <2>1 DEF Follows
    <3> QED BY <1>3, <1>6, <3>1 DEF Reading
  <2>2. CASE c = "$"
    <3>1. r.at = 1 /\ r.done = q.done /\ mode' = "payload"
      BY <1>2, <1>5, <1>6, <2>2 DEF Follows
    <3>2. r.frame \in Frames
      BY <1>5, <3>1 DEF Valid
    <3>3. Len(r.frame.bytes) \in Nat /\ Len(r.frame.bytes) >= 4
      BY <3>2, FrameFacts
    <3>4. r.at \in 1 .. Len(r.frame.bytes) - 3 /\ r.at - 1 = 0
      BY <3>1, <3>3
    <3>5. Kept(r.frame.bytes, r.at - 1)'
      <4>1. out' = <<>> /\ too_long' = FALSE
        BY <1>3, <1>6
      <4>2. Len(out') = 0 /\ ~(0 > kMaxPacketSize) /\ 0 <= kMaxPacketSize
        BY <4>1, SizesType
      <4>3. Kept(r.frame.bytes, 0)'
        <5>1. Len(out') = IF 0 <= kMaxPacketSize THEN 0 ELSE kMaxPacketSize
          BY <4>2
        <5>2. \A i \in 1 .. Len(out') : out'[i] = r.frame.bytes[i + 1]
          BY <4>2
        <5>3. too_long' = (0 > kMaxPacketSize)
          <6>1. (0 > kMaxPacketSize) = FALSE
            BY <4>2, SMT
          <6> QED BY <4>1, <6>1, Zenon
        <5> QED BY <5>1, <5>2, <5>3, Zenon DEF Kept
      <4> QED BY <3>4, <4>3
    <3> QED BY <1>3, <1>6, <3>1, <3>4, <3>5 DEF Reading
  <2> QED BY <2>1, <2>2
<1>8. mode' # "running"
  BY <1>2, <1>3
<1>9. Pending' => Pending
  BY <1>3, <1>5, <1>8 DEF Pending
<1>10. \E next : InputRun(next)'
  BY <1>1, <1>2, <1>4, <1>7, <1>9, ReadShifts DEF r
<1>11. Dispatched' /\ ForgottenBetween'
  BY <1>1, <1>3, <1>5, <1>6, <1>8 DEF Dispatched, ForgottenBetween
<1> QED BY <1>10, <1>11

LEMMA ReadPayloadInOrder ==
  ASSUME PacketInv, ReadPayload
  PROVE  (Dispatched /\ ForgottenBetween /\ (mode # "ended" => \E run : InputRun(run)))'
<1>1. Buffers /\ Reader /\ Dispatched /\ ForgottenBetween
  BY InputParts DEF PacketInv
<1>2. PICK c \in Byte : /\ read_byte(c)
                        /\ \/ c = "#" /\ mode' = "hi" /\ UNCHANGED <<out, too_long>>
                           \/ c # "#" /\ Store(c) /\ UNCHANGED mode
  BY DEF ReadPayload
<1>3. mode = "payload" /\ UNCHANGED <<hi, got>>
  BY DEF ReadPayload
<1>4. PICK run : InputRun(run)
  BY <1>3 DEF PacketInv
<1> DEFINE q == run[0]
           r == run[1]
<1>5. Follows(sent, q, c, r) /\ Valid(sent, q) /\ Reading(q) /\ UNCHANGED sent
  BY <1>1, <1>2, <1>4, ReadFollows
<1> HIDE DEF q, r
<1> DEFINE n == Len(q.frame.bytes)
<1>6. q.at \in 1 .. n - 3 /\ q.done = Len(got) /\ Kept(q.frame.bytes, q.at - 1)
  BY <1>3, <1>5 DEF Reading
<1>7. q.frame \in Frames
  BY <1>5, <1>6 DEF Valid
<1>8. /\ n \in Nat /\ n >= 4 /\ q.frame.bytes[n - 2] = "#"
      /\ \A j \in 2 .. n - 3 : q.frame.bytes[j] # "#"
  BY <1>7, FrameFacts
<1> HIDE DEF n
<1>9. q.at \in Nat /\ q.at > 0 /\ q.at + 1 < n
  BY <1>6, <1>8
<1>10. c = q.frame.bytes[q.at + 1] /\ r.at = q.at + 1 /\ r.frame = q.frame /\ r.done = q.done
  BY <1>5, <1>9 DEF Follows, n
<1>11. Reading(r)' /\ mode' \in {"payload", "hi"}
  <2>1. CASE c = "#" /\ mode' = "hi" /\ UNCHANGED <<out, too_long>>
    <3>1. ~(q.at + 1 \in 2 .. n - 3)
      BY <1>8, <1>10, <2>1
    <3>2. q.at + 1 = n - 2 /\ q.at - 1 = n - 4
      BY <1>6, <1>8, <3>1
    <3>3. Kept(r.frame.bytes, n - 4)'
      BY <1>6, <1>10, <2>1, <3>2 DEF Kept
    <3> QED BY <1>3, <1>6, <1>10, <2>1, <3>2, <3>3 DEF Reading, n
  <2>2. CASE c # "#" /\ Store(c) /\ UNCHANGED mode
    <3>1. q.at + 1 # n - 2
      BY <1>8, <1>10, <2>2
    <3>2. r.at \in 1 .. n - 3 /\ r.at - 1 = q.at
      <4>1. \A k \in 1 .. n - 3 : k + 1 # n - 2 => k + 1 \in 1 .. n - 3 /\ (k + 1) - 1 = k
        BY <1>8
      <4> QED BY <1>6, <1>10, <3>1, <4>1
    <3>3. Kept(q.frame.bytes, q.at)'
      <4>1. c = q.frame.bytes[q.at + 1] /\ q.at \in Nat \ {0}
        BY <1>9, <1>10
      <4>2. out \in Seq(Byte)
        BY <1>1 DEF Reader
      <4> DEFINE b == q.frame.bytes
                 k == q.at
      <4>3. Kept(b, k - 1) /\ Store(c) /\ c = b[k + 1] /\ k \in Nat \ {0}
        BY <1>6, <2>2, <4>1
      <4> HIDE DEF b, k
      <4>4. Kept(b, k)'
        BY <4>2, <4>3, StoreKept
      <4> QED BY <4>4 DEF b, k
    <3> QED BY <1>3, <1>6, <1>10, <2>2, <3>2, <3>3 DEF Reading, n
  <2> QED BY <1>2, <1>3, <2>1, <2>2
<1>12. Pending' => Pending
  BY <1>3, <1>5, <1>11 DEF Pending
<1>13. \E next : InputRun(next)'
  BY <1>1, <1>2, <1>4, <1>11, <1>12, ReadShifts DEF r
<1>14. Dispatched' /\ ForgottenBetween'
  BY <1>1, <1>3, <1>5, <1>11 DEF Dispatched, ForgottenBetween
<1> QED BY <1>13, <1>14

LEMMA ReadHiInOrder ==
  ASSUME PacketInv, ReadHi
  PROVE  (Dispatched /\ ForgottenBetween /\ (mode # "ended" => \E run : InputRun(run)))'
<1>1. Buffers /\ Reader /\ Dispatched /\ ForgottenBetween
  BY InputParts DEF PacketInv
<1>2. PICK c \in Byte : read_byte(c) /\ hi' = c
  BY DEF ReadHi
<1>3. mode = "hi" /\ mode' = "lo" /\ UNCHANGED <<out, too_long, got>>
  BY DEF ReadHi
<1>4. PICK run : InputRun(run)
  BY <1>3 DEF PacketInv
<1> DEFINE q == run[0]
           r == run[1]
<1>5. Follows(sent, q, c, r) /\ Valid(sent, q) /\ Reading(q) /\ UNCHANGED sent
  BY <1>1, <1>2, <1>4, ReadFollows
<1> HIDE DEF q, r
<1> DEFINE n == Len(q.frame.bytes)
<1>6. q.at = n - 2 /\ q.done = Len(got) /\ Kept(q.frame.bytes, n - 4)
  BY <1>3, <1>5 DEF Reading
<1>7. n \in Nat /\ n >= 4
  <2>1. q.at \in Nat /\ Len(out) \in Nat /\ kMaxPacketSize \in Nat
    BY <1>1, <1>5, SizesType DEF Valid, Reader
  <2>2. Len(out) = IF n - 4 <= kMaxPacketSize THEN n - 4 ELSE kMaxPacketSize
    BY <1>6 DEF Kept
  <2>3. q.at > 0
    <3> SUFFICES ASSUME q.at = 0 PROVE FALSE
      BY <2>1
    <3> QED BY <1>6, <2>1, <2>2
  <2>4. q.frame \in Frames
    BY <1>5, <2>3 DEF Valid
  <2> QED BY <2>4, FrameFacts
<1> HIDE DEF n
<1>8. q.at > 0 /\ q.at + 1 < n /\ q.at + 1 = n - 1
  BY <1>6, <1>7
<1>9. c = q.frame.bytes[n - 1] /\ r.at = n - 1 /\ r.frame = q.frame /\ r.done = q.done
  BY <1>5, <1>8 DEF Follows, n
<1>10. Reading(r)'
  <2>1. Kept(r.frame.bytes, n - 4)'
    BY <1>3, <1>6, <1>9 DEF Kept
  <2> QED BY <1>2, <1>3, <1>6, <1>9, <2>1 DEF Reading, n
<1>11. Pending' => Pending
  BY <1>3, <1>5 DEF Pending
<1>12. \E next : InputRun(next)'
  BY <1>1, <1>2, <1>4, <1>10, <1>11, ReadShifts DEF r
<1>13. Dispatched' /\ ForgottenBetween'
  BY <1>1, <1>3, <1>5 DEF Dispatched, ForgottenBetween
<1> QED BY <1>12, <1>13

(* A packet that is complete is taken as GDB meant it. *)
LEMMA FrameDecoded ==
  ASSUME NEW f \in Frames, out \in Seq(Byte), Kept(f.bytes, Len(f.bytes) - 4)
  PROVE  LET p == Decoded(out, too_long, f.bytes[Len(f.bytes) - 1], f.bytes[Len(f.bytes)]) IN
         (p.ok <=> f.ok) /\ (p.ok => p.out = f.payload)
<1> DEFINE n   == Len(f.bytes)
           raw == SubSeq(f.bytes, 2, n - 3)
           h   == f.bytes[n - 1]
           l   == f.bytes[n]
           p   == Decoded(out, too_long, h, l)
<1>1. /\ n \in Nat /\ n >= 4 /\ raw \in Seq(Byte) /\ Len(raw) = n - 4
      /\ \A i \in 1 .. n - 4 : raw[i] = f.bytes[i + 1]
  BY FrameFacts
<1>2. /\ f.ok = (/\ Len(raw) <= kMaxPacketSize /\ checksum_matches(raw, h, l) /\ unescape(raw).ok)
      /\ f.ok => f.payload = unescape(raw).out
  <2>1. IsFrame(f)
    BY FramesAssumption, Zenon
  <2> QED BY <2>1, Zenon DEF IsFrame
<1>3. /\ p.ok = (~too_long /\ checksum_matches(out, h, l) /\ unescape(out).ok)
      /\ p.out = unescape(out).out
  BY Zenon DEF Decoded
<1> HIDE DEF p, h, l
<1>4. /\ Len(out) = (IF n - 4 <= kMaxPacketSize THEN n - 4 ELSE kMaxPacketSize)
      /\ \A i \in 1 .. Len(out) : out[i] = f.bytes[i + 1]
      /\ too_long = (n - 4 > kMaxPacketSize) /\ kMaxPacketSize \in Nat
  BY SizesType DEF Kept
<1> HIDE DEF raw, n
<1>5. CASE n - 4 <= kMaxPacketSize
  <2>1. Len(out) = Len(raw) /\ \A i \in 1 .. Len(out) : out[i] = raw[i]
    BY <1>1, <1>4, <1>5
  <2>2. out = raw
    BY <1>1, <2>1, SeqEqual
  <2>3. ~too_long
    <3>1. ~(n - 4 > kMaxPacketSize)
      BY <1>1, <1>4, <1>5
    <3> QED BY <1>4, <3>1, Zenon
  <2>4. Len(raw) <= kMaxPacketSize
    BY <1>1, <1>5
  <2> QED BY <1>2, <1>3, <2>2, <2>3, <2>4, Zenon DEF p, h, l, n
<1>6. CASE ~(n - 4 <= kMaxPacketSize)
  <2>1. too_long
    <3>1. n - 4 > kMaxPacketSize
      BY <1>1, <1>4, <1>6
    <3> QED BY <1>4, <3>1, Zenon
  <2>2. ~(Len(raw) <= kMaxPacketSize)
    BY <1>1, <1>6
  <2> QED BY <1>2, <1>3, <2>1, <2>2, Zenon DEF p, h, l, n
<1> QED BY <1>5, <1>6

(* The last character of a packet: it is the next GDB has sent. *)
LEMMA ReadLoEffect ==
  ASSUME PacketInv, ReadLo
  PROVE  \E run : \E c \in Byte :
           LET q == run[0]
               r == run[1]
           IN  /\ InputRun(run) /\ read_byte(c) /\ UNCHANGED sent
               /\ q.frame \in Frames /\ r.at = 0 /\ q.done = Len(got)
               /\ \/ /\ q.frame.ok /\ dispatch(q.frame.payload) /\ got' = Append(got, q.frame.payload)
                     /\ r.done = Len(got) + 1 /\ r.done <= Len(sent)
                     /\ sent[r.done] = q.frame.payload
                  \/ /\ ~q.frame.ok /\ mode' = "between" /\ UNCHANGED got
                     /\ r.done = Len(got)
<1>1. Buffers /\ Reader /\ Dispatched /\ ForgottenBetween
  BY InputParts DEF PacketInv
<1>2. PICK c \in Byte :
        /\ read_byte(c)
        /\ LET p == Decoded(out, too_long, hi, c) IN
             \/ p.ok /\ dispatch(p.out) /\ got' = Append(got, p.out)
             \/ ~p.ok /\ mode' = "between" /\ UNCHANGED got
  BY DEF ReadLo
<1>3. mode = "lo"
  BY DEF ReadLo
<1>4. PICK run : InputRun(run)
  BY <1>3 DEF PacketInv
<1> DEFINE q == run[0]
           r == run[1]
<1>5. Follows(sent, q, c, r) /\ Valid(sent, q) /\ Valid(sent, r) /\ Reading(q) /\ UNCHANGED sent
  BY <1>1, <1>2, <1>4, ReadFollows
<1> HIDE DEF q, r
<1> DEFINE n == Len(q.frame.bytes)
<1>6. q.at = n - 1 /\ q.done = Len(got) /\ hi = q.frame.bytes[n - 1] /\ Kept(q.frame.bytes, n - 4)
  BY <1>3, <1>5 DEF Reading
<1>7. q.at > 0
  <2>1. q.at \in Nat /\ Len(out) \in Nat /\ kMaxPacketSize \in Nat
    BY <1>1, <1>5, SizesType DEF Valid, Reader
  <2>2. Len(out) = IF n - 4 <= kMaxPacketSize THEN n - 4 ELSE kMaxPacketSize
    BY <1>6 DEF Kept
  <2> SUFFICES ASSUME q.at = 0 PROVE FALSE
    BY <2>1
  <2> QED BY <1>6, <2>1, <2>2
<1>8. q.frame \in Frames /\ n \in Nat /\ n >= 4
  <2>1. q.frame \in Frames
    BY <1>5, <1>7 DEF Valid
  <2> QED BY <2>1, FrameFacts
<1>9. /\ c = q.frame.bytes[n] /\ r.at = 0
      /\ IF q.frame.ok THEN r.done = q.done + 1 /\ sent[r.done] = q.frame.payload
         ELSE r.done = q.done
  <2>1. q.at + 1 = n /\ ~(q.at + 1 < n) /\ q.at # 0
    <3>1. \A k, m \in Nat : k = m - 1 => k + 1 = m /\ ~(k + 1 < m) /\ (k > 0 => k # 0)
      OBVIOUS
    <3>2. q.at \in Nat
      BY <1>5 DEF Valid
    <3> QED BY <1>6, <1>7, <1>8, <3>1, <3>2, Zenon
  <2> QED BY <1>5, <2>1 DEF Follows, n
<1>10. out \in Seq(Byte)
  BY <1>1 DEF Reader
<1> DEFINE p == Decoded(out, too_long, hi, c)
<1>11. (p.ok <=> q.frame.ok) /\ (p.ok => p.out = q.frame.payload)
  BY <1>6, <1>8, <1>9, <1>10, FrameDecoded, Zenon
<1>12. \/ p.ok /\ dispatch(p.out) /\ got' = Append(got, p.out)
       \/ ~p.ok /\ mode' = "between" /\ UNCHANGED got
  BY <1>2
<1> HIDE DEF p
<1>13. r.done <= Len(sent)
  BY <1>1, <1>5, CountsType DEF Valid
<1>14. \/ /\ q.frame.ok /\ dispatch(q.frame.payload) /\ got' = Append(got, q.frame.payload)
          /\ r.done = Len(got) + 1 /\ r.done <= Len(sent) /\ sent[r.done] = q.frame.payload
       \/ /\ ~q.frame.ok /\ mode' = "between" /\ UNCHANGED got /\ r.done = Len(got)
  <2>1. CASE q.frame.ok
    <3>1. dispatch(q.frame.payload) /\ got' = Append(got, q.frame.payload)
      BY <1>11, <1>12, <2>1, Zenon
    <3> QED BY <1>6, <1>9, <1>13, <2>1, <3>1
  <2>2. CASE ~q.frame.ok
    <3>1. mode' = "between" /\ UNCHANGED got
      BY <1>11, <1>12, <2>2, Zenon
    <3> QED BY <1>6, <1>9, <2>2, <3>1
  <2> QED BY <2>1, <2>2
<1>15. /\ InputRun(run) /\ read_byte(c) /\ UNCHANGED sent
       /\ q.frame \in Frames /\ r.at = 0 /\ q.done = Len(got)
  BY <1>2, <1>4, <1>5, <1>6, <1>8, <1>9
<1> QED BY <1>14, <1>15, Zenon DEF q, r

LEMMA ReadLoInOrder ==
  ASSUME PacketInv, ReadLo
  PROVE  (Dispatched /\ ForgottenBetween /\ (mode # "ended" => \E run : InputRun(run)))'
<1>1. Buffers /\ Reader /\ Dispatched
  BY InputParts DEF PacketInv
<1>2. mode = "lo" /\ out' = <<>> /\ too_long' = FALSE
  BY DEF ReadLo, ForgetPacket
<1>3. PICK run : \E c \in Byte :
        LET q == run[0]
            r == run[1]
        IN  /\ InputRun(run) /\ read_byte(c) /\ UNCHANGED sent
            /\ q.frame \in Frames /\ r.at = 0 /\ q.done = Len(got)
            /\ \/ /\ q.frame.ok /\ dispatch(q.frame.payload) /\ got' = Append(got, q.frame.payload)
                  /\ r.done = Len(got) + 1 /\ r.done <= Len(sent)
                  /\ sent[r.done] = q.frame.payload
               \/ /\ ~q.frame.ok /\ mode' = "between" /\ UNCHANGED got
                  /\ r.done = Len(got)
  BY ReadLoEffect, Zenon
<1> PICK c \in Byte :
        LET q == run[0]
            r == run[1]
        IN  /\ InputRun(run) /\ read_byte(c) /\ UNCHANGED sent
            /\ q.frame \in Frames /\ r.at = 0 /\ q.done = Len(got)
            /\ \/ /\ q.frame.ok /\ dispatch(q.frame.payload) /\ got' = Append(got, q.frame.payload)
                  /\ r.done = Len(got) + 1 /\ r.done <= Len(sent)
                  /\ sent[r.done] = q.frame.payload
               \/ /\ ~q.frame.ok /\ mode' = "between" /\ UNCHANGED got
                  /\ r.done = Len(got)
  BY <1>3, Zenon
<1> DEFINE r == run[1]
           p == run[0].frame.payload
<1>4. InputRun(run) /\ read_byte(c) /\ UNCHANGED sent /\ r.at = 0 /\ p \in Seq(Byte)
  <2>1. run[0].frame \in Frames
    BY <1>3
  <2>2. p \in Seq(Byte)
    BY <2>1, FrameFacts
  <2> QED BY <1>3, <2>2
<1>5. \/ /\ dispatch(p) /\ got' = Append(got, p)
         /\ r.done = Len(got) + 1 /\ r.done <= Len(sent) /\ sent[r.done] = p
      \/ mode' = "between" /\ UNCHANGED got /\ r.done = Len(got)
  BY <1>3
<1> HIDE DEF r, p
<1>6. sent \in Seq(Seq(Byte)) /\ got \in Seq(Seq(Byte)) /\ Len(sent) \in Nat /\ Len(got) \in Nat
  BY <1>1, CountsType
<1>7. /\ Len(Append(got, p)) = Len(got) + 1 /\ Append(got, p)[Len(got) + 1] = p
      /\ \A n \in 1 .. Len(got) : Append(got, p)[n] = got[n]
  BY <1>4, <1>6, AppendProperties
<1>8. /\ Len(got) <= Len(sent) /\ \A n \in 1 .. Len(got) : got[n] = sent[n]
      /\ \A n \in Len(got) + 1 .. Len(sent) : IsContinue(sent[n]) => n = Len(sent)
  BY <1>1 DEF Dispatched
<1>9. CASE mode' = "between" /\ UNCHANGED got /\ r.done = Len(got)
  <2>1. Dispatched' /\ ForgottenBetween'
    BY <1>1, <1>2, <1>4, <1>9 DEF Dispatched, ForgottenBetween
  <2>2. Reading(r)'
    BY <1>4, <1>9 DEF Reading
  <2>3. Pending' => Pending
    BY <1>4, <1>9 DEF Pending
  <2> QED BY <1>1, <1>4, <2>1, <2>2, <2>3, ReadShifts DEF r
<1>10. CASE /\ dispatch(p) /\ got' = Append(got, p)
            /\ r.done = Len(got) + 1 /\ r.done <= Len(sent) /\ sent[r.done] = p
  <2>1. Len(got') = Len(got) + 1 /\ sent' = sent
    BY <1>4, <1>7, <1>10
  <2>2. mode' \in {"running", "ended", "between"} /\ (mode' = "running" => IsContinue(p))
    BY <1>10 DEF dispatch
  <2>3. Len(got) + 1 <= Len(sent) /\ Len(got) + 1 \in Len(got) + 1 .. Len(sent)
    BY <1>6, <1>10
  <2>4. mode' = "running" => Len(got) + 1 = Len(sent) /\ IsContinue(sent[Len(sent)])
    BY <1>8, <1>10, <2>2, <2>3
  <2>5. \A n \in 1 .. Len(got) + 1 : got'[n] = sent[n]
    <3> SUFFICES ASSUME NEW n \in 1 .. Len(got) + 1 PROVE got'[n] = sent[n]
      OBVIOUS
    <3>1. n = Len(got) + 1 \/ n \in 1 .. Len(got)
      BY <1>6
    <3> QED BY <1>7, <1>8, <1>10, <3>1
  <2>6. \A n \in (Len(got) + 1) + 1 .. Len(sent) : IsContinue(sent[n]) => n = Len(sent)
    <3>1. \A g, m \in Nat : (g + 1) + 1 .. m \subseteq g + 1 .. m
      OBVIOUS
    <3>2. (Len(got) + 1) + 1 .. Len(sent) \subseteq Len(got) + 1 .. Len(sent)
      BY <1>6, <3>1, Zenon
    <3> QED BY <1>8, <3>2, Zenon
  <2>7. Dispatched'
    <3>1. Len(got') <= Len(sent') /\ \A n \in 1 .. Len(got') : got'[n] = sent'[n]
      BY <2>1, <2>3, <2>5
    <3>2. \A n \in Len(got') + 1 .. Len(sent') : IsContinue(sent'[n]) => n = Len(sent')
      BY <2>1, <2>6
    <3>3. mode' = "running" => /\ Len(got') = Len(sent') /\ Len(sent') > 0
                               /\ IsContinue(sent'[Len(sent')])
      <4>1. Len(got) + 1 > 0
        BY <1>6
      <4> QED BY <2>1, <2>4, <4>1
    <3> QED BY <3>1, <3>2, <3>3 DEF Dispatched
  <2>8. ForgottenBetween'
    BY <1>2 DEF ForgottenBetween
  <2>9. mode' # "ended" => Reading(r)'
    BY <1>4, <1>10, <2>1, <2>2 DEF Reading
  <2>10. Pending' => Pending
    <3> SUFFICES ASSUME Pending' PROVE Pending
      OBVIOUS
    <3>1. Len(sent) > 0 /\ IsContinue(sent[Len(sent)])
      BY <2>1 DEF Pending
    <3>2. Len(got) < Len(sent)
      BY <1>6, <2>3
    <3> QED BY <3>1, <3>2 DEF Pending
  <2> QED BY <1>1, <1>4, <2>7, <2>8, <2>9, <2>10, ReadShifts DEF r
<1> QED BY <1>5, <1>9, <1>10

(* The target runs or stops: nothing is read. *)
LEMMA ContinueInOrder ==
  ASSUME PacketInv, ContinueTurn
  PROVE  (Dispatched /\ ForgottenBetween /\ (mode # "ended" => \E run : InputRun(run)))'
<1>1. Buffers /\ Reader /\ Dispatched /\ ForgottenBetween
  BY InputParts DEF PacketInv
<1>2. mode = "running" /\ mode' \in {"running", "between"}
  BY DEF ContinueTurn, RunInstruction, StopTarget
<1>3. UNCHANGED <<gdb, open, sent, sock, rx, out, too_long, hi, got>>
  BY DEF ContinueTurn, peer, packet, history
<1>4. PICK run : InputRun(run)
  BY <1>2 DEF PacketInv
<1>5. Dispatched' /\ ForgottenBetween'
  BY <1>1, <1>2, <1>3 DEF Dispatched, ForgottenBetween
<1>6. Stream' = Stream /\ (Pending' => Pending)
  BY <1>2, <1>3 DEF Stream, Pending
<1>7. Reading(run[0])'
  <2>1. run[0].at = 0 /\ run[0].done = Len(got)
    BY <1>2, <1>4 DEF InputRun, Reading
  <2> QED BY <1>2, <1>3, <2>1 DEF Reading
<1>8. InputRun(run)'
  BY <1>3, <1>4, <1>6, <1>7 DEF InputRun
<1> QED BY <1>5, <1>8

(* What poll_input() drops behind a c is no part of a packet. *)
LEMMA PollInOrder ==
  ASSUME PacketInv, PollTurn
  PROVE  (Dispatched /\ ForgottenBetween /\ (mode # "ended" => \E run : InputRun(run)))'
<1>1. Buffers /\ Reader /\ Dispatched /\ ForgottenBetween /\ FullBufferHasNoInterrupt
  BY InputParts DEF PacketInv
<1>2. mode = "running" /\ rx' = poll_input.rx /\ sock' = poll_input.sock
  BY DEF PollTurn
<1>3. UNCHANGED <<gdb, open, sent, out, too_long, hi, got>>
  BY DEF PollTurn, peer, packet
<1>4. mode' \in {"running", "between"}
  BY <1>2 DEF PollTurn, RunInstruction, StopTarget
<1>5. PICK run : InputRun(run)
  BY <1>2 DEF PacketInv
<1>6. Dispatched' /\ ForgottenBetween'
  BY <1>1, <1>2, <1>3, <1>4 DEF Dispatched, ForgottenBetween
<1>7. Pending /\ Len(got) = Len(sent)
  BY <1>1, <1>2 DEF Dispatched, Pending
<1> DEFINE q == run[0]
           s == Stream
<1>8. q.at = 0 /\ q.done = Len(sent)
  BY <1>2, <1>5, <1>7 DEF InputRun, Reading
<1>9. s \in Seq(Byte) /\ sent \in Seq(Seq(Byte)) /\ Len(s) \in Nat /\ IsRun(run, s, sent)
      /\ \A i \in 0 .. Len(s) : run[i].done = Len(sent) => run[i].at = 0
  BY <1>1, <1>5, <1>7, StreamType, CountsType DEF InputRun
<1>10. Quiet(s)
  <2> HIDE DEF s
  <2> QED BY <1>8, <1>9, QuietRest DEF Quiet
<1>11. Quiet(rx) /\ Quiet(sock) /\ Quiet(gdb)
  <2>1. rx \in Seq(Byte) /\ sock \in Seq(Byte) /\ gdb \in Seq(Byte) /\ sock \o gdb \in Seq(Byte)
    BY <1>1, StreamType
  <2> DEFINE t == sock \o gdb
  <2>2. t \in Seq(Byte) /\ Quiet(rx \o t)
    BY <1>10, <2>1 DEF Stream
  <2> HIDE DEF t
  <2>3. Quiet(rx) /\ Quiet(t)
    BY <2>1, <2>2, QuietConcat
  <2> QED BY <2>1, <2>3, QuietConcat DEF t
<1>12. Quiet(poll_input.rx) /\ Quiet(poll_input.sock)
  BY <1>1, <1>2, <1>11, PollStaysQuiet
<1>13. Stream' \in Seq(Byte) /\ Quiet(Stream')
  <2> DEFINE a == poll_input.rx
             b == poll_input.sock
  <2>1. a \in Seq(Byte) /\ b \in Seq(Byte) /\ gdb \in Seq(Byte)
    BY <1>1, <1>2, PollInputEffect, StreamType
  <2>2. Stream' = a \o (b \o gdb) /\ Quiet(a) /\ Quiet(b)
    BY <1>2, <1>3, <1>12 DEF Stream
  <2> HIDE DEF a, b
  <2>3. b \o gdb \in Seq(Byte) /\ Quiet(b \o gdb)
    BY <1>11, <2>1, <2>2, QuietConcat
  <2> DEFINE t == b \o gdb
  <2>4. t \in Seq(Byte) /\ Quiet(t) /\ Stream' = a \o t
    BY <2>2, <2>3
  <2> HIDE DEF t
  <2> QED BY <2>1, <2>2, <2>4, QuietConcat
<1>14. Valid(sent, q)
  <2>1. 0 \in 0 .. Len(s)
    BY <1>9
  <2> QED BY <1>9, <2>1 DEF IsRun
<1> HIDE DEF q, s
<1>15. PICK still : /\ IsRun(still, Stream', sent)
                    /\ \A i \in 0 .. Len(Stream') : still[i] = q
  <2> DEFINE u == Stream'
  <2>1. u \in Seq(Byte) /\ \A i \in 1 .. Len(u) : u[i] # "$"
    BY <1>13 DEF Quiet
  <2> HIDE DEF u
  <2>2. IsRun([i \in 0 .. Len(u) |-> q], u, sent)
    BY <1>8, <1>14, <2>1, QuietRun
  <2>3. \E still : IsRun(still, u, sent) /\ \A i \in 0 .. Len(u) : still[i] = q
    BY <2>2
  <2> QED BY <2>3, Zenon DEF u
<1>16. still[0] = q /\ still[Len(Stream')] = q
  <2>1. Len(Stream') \in Nat
    BY <1>13
  <2> QED BY <1>15, <2>1
<1>17. Reading(still[0])'
  <2>1. still[0].at = 0 /\ still[0].done = Len(got)
    BY <1>7, <1>8, <1>16
  <2> QED BY <1>3, <1>4, <2>1 DEF Reading
<1>18. InputRun(still)'
  <2>1. open' => still[Len(Stream')].at = 0 /\ still[Len(Stream')].done = Len(sent')
    BY <1>3, <1>8, <1>16
  <2>2. \A i \in 0 .. Len(Stream') : still[i].at = 0
    BY <1>8, <1>15
  <2> QED BY <1>3, <1>15, <1>17, <2>1, <2>2 DEF InputRun
<1> QED BY <1>6, <1>18

LEMMA ReadClosedInOrder ==
  ASSUME PacketInv, ReadClosed
  PROVE  (Dispatched /\ ForgottenBetween /\ (mode # "ended" => \E run : InputRun(run)))'
<1>1. Dispatched /\ mode' = "ended" /\ UNCHANGED <<sent, got>>
  BY DEF PacketInv, ReadClosed, peer, history
<1> QED BY <1>1 DEF Dispatched, ForgottenBetween

(* A session starts with nothing sent and nothing kept. *)
LEMMA EmptyRun ==
  \E run : IsRun(run, <<>>, <<>>) /\ run[0].at = 0 /\ run[0].done = 0
<1> DEFINE run == [i \in {0} |-> [at |-> 0, done |-> 0]]
<1>1. run[0].at = 0 /\ run[0].done = 0
  OBVIOUS
<1> HIDE DEF run
<1>2. Valid(<<>>, run[0])
  BY <1>1 DEF Valid
<1>3. (\A i \in 0 .. Len(<<>>) : i = 0) /\ \A i \in 1 .. Len(<<>>) : FALSE
  OBVIOUS
<1>4. IsRun(run, <<>>, <<>>)
  BY <1>2, <1>3 DEF IsRun
<1> QED BY <1>1, <1>4

LEMMA PacketInitial == Init => PacketInv
<1> SUFFICES ASSUME Init PROVE PacketInv
  OBVIOUS
<1>1. /\ rx = <<>> /\ sock = <<>> /\ gdb = <<>> /\ sent = <<>> /\ got = <<>> /\ mode = "between"
      /\ out = <<>> /\ too_long = FALSE
  BY DEF Init
<1>2. Stream = <<>> /\ Len(Stream) = 0 /\ Len(sent) = 0 /\ Len(got) = 0
  BY <1>1 DEF Stream
<1>3. Dispatched /\ ForgottenBetween /\ ~Pending
  BY <1>1, <1>2 DEF Dispatched, ForgottenBetween, Pending
<1>4. PICK run : IsRun(run, <<>>, <<>>) /\ run[0].at = 0 /\ run[0].done = 0
  BY EmptyRun
<1>5. Reading(run[0])
  BY <1>1, <1>2, <1>4 DEF Reading
<1>6. InputRun(run)
  BY <1>1, <1>2, <1>3, <1>4, <1>5 DEF InputRun
<1> QED BY <1>3, <1>6, InputInitial DEF PacketInv

LEMMA ListenInOrder ==
  ASSUME Listen
  PROVE  (Dispatched /\ ForgottenBetween /\ (mode # "ended" => \E run : InputRun(run)))'
<1>1. /\ rx' = <<>> /\ sock' = <<>> /\ gdb' = <<>> /\ sent' = <<>> /\ got' = <<>>
      /\ mode' = "between" /\ out' = <<>> /\ too_long' = FALSE
  BY DEF Listen, configure_client_socket, ForgetPacket
<1>2. Stream' = <<>> /\ Len(Stream') = 0 /\ Len(sent') = 0 /\ Len(got') = 0
  BY <1>1 DEF Stream
<1>3. Dispatched' /\ ForgottenBetween' /\ ~Pending'
  BY <1>1, <1>2 DEF Dispatched, ForgottenBetween, Pending
<1>4. PICK run : IsRun(run, <<>>, <<>>) /\ run[0].at = 0 /\ run[0].done = 0
  BY EmptyRun
<1>5. Reading(run[0])'
  BY <1>1, <1>2, <1>4 DEF Reading
<1>6. InputRun(run)'
  BY <1>1, <1>2, <1>3, <1>4, <1>5 DEF InputRun
<1> QED BY <1>3, <1>6

LEMMA StandsStillInOrder ==
  ASSUME PacketInv, UNCHANGED vars
  PROVE  (Dispatched /\ ForgottenBetween /\ (mode # "ended" => \E run : InputRun(run)))'
<1>1. Buffers /\ Dispatched /\ ForgottenBetween
  BY InputParts DEF PacketInv
<1>2. UNCHANGED <<rx, sock, gdb, sent, got, mode, out, too_long, hi, open>>
  BY DEF vars, peer, packet, history
<1>3. Stream' = Stream
  BY <1>2 DEF Stream
<1>4. \A run : InputRun(run) => InputRun(run)'
  BY <1>2, <1>3, SameStream
<1>5. Dispatched' /\ ForgottenBetween'
  BY <1>1, <1>2, SameDispatched
<1>6. mode # "ended" => \E run : InputRun(run)
  BY DEF PacketInv
<1> QED BY <1>2, <1>4, <1>5, <1>6

LEMMA PacketStep == PacketInv /\ [Next]_vars => PacketInv'
<1> SUFFICES ASSUME PacketInv, [Next]_vars PROVE PacketInv'
  OBVIOUS
<1>1. InputIInv'
  BY InputStep DEF PacketInv
<1>2. (Dispatched /\ ForgottenBetween /\ (mode # "ended" => \E run : InputRun(run)))'
  BY SendPacketInOrder, SendOtherInOrder, ArriveInOrder, PeerCloseInOrder, SkipToStartInOrder,
     ReadPayloadInOrder, ReadHiInOrder, ReadLoInOrder, ContinueInOrder, PollInOrder,
     ReadClosedInOrder, ListenInOrder, StandsStillInOrder, Zenon DEF Next, Stub
<1> QED BY <1>1, <1>2, Zenon DEF PacketInv

LEMMA PacketInductive == Spec => []PacketInv
BY PacketInitial, PacketStep, PTL DEF Spec

LEMMA DispatchedIsPrefix ==
  ASSUME NEW a \in Seq(Seq(Byte)), NEW b \in Seq(Seq(Byte)), Len(a) <= Len(b),
         \A n \in 1 .. Len(a) : a[n] = b[n]
  PROVE  IsPrefix(a, b)
<1>1. Len(a) \in Nat /\ Len(b) \in Nat /\ \A n \in 1 .. Len(b) : b[n] \in Seq(Byte)
  OBVIOUS
<1>2. DOMAIN a = 1 .. Len(a) /\ DOMAIN b = 1 .. Len(b)
  OBVIOUS
<1>3. /\ SubSeq(b, 1, Len(a)) \in Seq(Seq(Byte)) /\ Len(SubSeq(b, 1, Len(a))) = Len(a)
      /\ \A n \in 1 .. Len(a) : SubSeq(b, 1, Len(a))[n] = b[n]
  BY <1>1, SubSeqProperties
<1>4. a = SubSeq(b, 1, Len(a))
  BY <1>1, <1>3, SeqEqual
<1> QED BY <1>1, <1>2, <1>4 DEF IsPrefix

LEMMA PacketInvOrders == PacketInv => PacketsInOrder
<1> SUFFICES ASSUME PacketInv PROVE PacketsInOrder
  OBVIOUS
<1>1. Buffers /\ Reader /\ Dispatched
  BY InputParts DEF PacketInv
<1>2. /\ sent \in Seq(Seq(Byte)) /\ got \in Seq(Seq(Byte)) /\ Len(sent) \in Nat /\ Len(got) \in Nat
      /\ Len(got) <= Len(sent) /\ \A n \in 1 .. Len(got) : got[n] = sent[n]
  BY <1>1, CountsType DEF Dispatched
<1>3. IsPrefix(got, sent)
  BY <1>2, DispatchedIsPrefix
<1>4. ASSUME mode = "between", gdb \o sock \o rx = <<>>, open
      PROVE  got = sent
  <2>1. rx \in Seq(Byte) /\ sock \in Seq(Byte) /\ gdb \in Seq(Byte)
    BY <1>1, StreamType
  <2>2. gdb = <<>> /\ sock = <<>> /\ rx = <<>>
    <3>1. gdb \o sock \in Seq(Byte)
      BY <2>1
    <3>2. \A s, t \in Seq(Byte) : s \o t = <<>> => s = <<>> /\ t = <<>>
      BY ConcatProperties, EmptySeq
    <3> QED BY <1>4, <2>1, <3>1, <3>2, Zenon
  <2>3. Stream = <<>> /\ Len(Stream) = 0
    BY <2>2 DEF Stream
  <2>4. PICK run : InputRun(run)
    BY <1>4 DEF PacketInv
  <2>5. run[0].done = Len(got) /\ run[0].done = Len(sent)
    BY <1>4, <2>3, <2>4 DEF InputRun, Reading
  <2> QED BY <1>2, <2>5, SeqEqual
<1> QED BY <1>3, <1>4 DEF PacketsInOrder

(* Packets cut at any byte by recv(), between acks, Ctrl-C and refused     *)
(* packets, are dispatched in the order GDB sent them, with the payload    *)
(* GDB meant, none twice and none left out.                                *)
THEOREM PacketsStayInOrder == Spec => []PacketsInOrder
BY PacketInductive, PacketInvOrders, PTL

(* What ends the loop of handle_continue() or the session. *)
LEMMA StopStep ==
  PacketInv /\ [Next]_vars =>
    [/\ mode = "running" /\ mode' # "running" /\ PollTurn /\ poll_input.input = "Closed" => ~open
     /\ mode # "ended" /\ mode' = "ended" => ~open \/ Last(got') \in {<<"k">>, <<"D">>}]_vars
<1> SUFFICES ASSUME PacketInv, [Next]_vars
             PROVE  /\ mode = "running" /\ poll_input.input = "Closed" => ~open
                    /\ mode # "ended" /\ mode' = "ended" => ~open \/ Last(got') \in {<<"k">>, <<"D">>}
  OBVIOUS
<1>1. Buffers /\ Reader /\ Dispatched /\ FullBufferHasNoInterrupt
  BY InputParts DEF PacketInv
<1>2. mode = "running" /\ poll_input.input = "Closed" => ~open
  BY <1>1, PollInputEffect
<1>3. ASSUME mode # "ended", mode' = "ended", ~ReadClosed
      PROVE  ReadLo
  <2>1. ~UNCHANGED vars
    BY <1>3 DEF vars
  <2> QED BY <1>3, <2>1, Zenon DEF Next, Stub, SendPacket, SendOther, Send, Arrive, PeerClose, Fill, SkipToStart, ReadPayload,
        ReadHi, ContinueTurn, PollTurn, RunInstruction, StopTarget, Listen, InPacket
<1>4. ASSUME ReadLo, mode' = "ended"
      PROVE  Last(got') \in {<<"k">>, <<"D">>}
  <2>1. PICK f \in Frames : f.ok /\ dispatch(f.payload) /\ got' = Append(got, f.payload)
    <3>1. PICK run : \E c \in Byte :
            LET q == run[0]
                r == run[1]
            IN  /\ InputRun(run) /\ read_byte(c) /\ UNCHANGED sent
                /\ q.frame \in Frames /\ r.at = 0 /\ q.done = Len(got)
                /\ \/ /\ q.frame.ok /\ dispatch(q.frame.payload)
                      /\ got' = Append(got, q.frame.payload)
                      /\ r.done = Len(got) + 1 /\ r.done <= Len(sent)
                      /\ sent[r.done] = q.frame.payload
                   \/ /\ ~q.frame.ok /\ mode' = "between" /\ UNCHANGED got
                      /\ r.done = Len(got)
      BY <1>4, ReadLoEffect, Zenon
    <3>2. mode' # "between"
      BY <1>4
    <3> QED BY <3>1, <3>2, Zenon
  <2> DEFINE p == f.payload
  <2>2. p # <<>> /\ Head(p) \in {"k", "D"}
    BY <1>4, <2>1 DEF dispatch
  <2>3. p \in Seq(Byte) /\ Len(p) = 1
    <3>1. f.payload \in Seq(Byte)
      BY FrameFacts
    <3>2. f.ok /\ f.payload # <<>> /\ Head(f.payload) \in {"k", "D"} => Len(f.payload) = 1
      BY FramesAssumption, Zenon
    <3> QED BY <2>1, <2>2, <3>1, <3>2
  <2> HIDE DEF p
  <2>4. p = <<"k">> \/ p = <<"D">>
    BY <2>2, <2>3
  <2>5. Last(got') = p
    <3>1. got \in Seq(Seq(Byte))
      BY <1>1, CountsType
    <3>2. got' = Append(got, p)
      BY <2>1 DEF p
    <3>3. Len(Append(got, p)) = Len(got) + 1 /\ Append(got, p)[Len(got) + 1] = p
      BY <2>3, <3>1, AppendProperties
    <3> QED BY <3>2, <3>3 DEF Last
  <2> QED BY <2>4, <2>5
<1>5. ReadClosed => ~open
  BY DEF ReadClosed
<1> QED BY <1>2, <1>3, <1>4, <1>5

(* The loop of handle_continue() takes the connection for closed only when *)
(* it is, and the session ends only when GDB asked for it or has gone.     *)
THEOREM TargetStopsForAReason == Spec => StopsForAReason
BY PacketInductive, StopStep, PTL DEF Spec, StopsForAReason

-----------------------------------------------------------------------------
(* Walking the program headers of a file *)

First(f) == [NoImage EXCEPT !.entry = f.entry]

(* The walk is what its definition says, header by header. *)
LEMMA WalkUnfolds ==
  ASSUME NEW f, f.phdrs \in Seq(ProgramHeaders)
  PROVE  /\ walked(f)[0] = First(f)
         /\ \A i \in 1 .. Len(f.phdrs) : walked(f)[i] = walkHeader(f, walked(f)[i - 1], f.phdrs[i])
<1> DEFINE n == Len(f.phdrs)
           step(i, img) == IF i = 0 THEN First(f) ELSE walkHeader(f, img, f.phdrs[i])
           isWalk(w, k) == w = [i \in 0 .. k |-> step(i, w[i - 1])]
           P == {k \in Nat : \E w : isWalk(w, k)}
<1>1. n \in Nat
  OBVIOUS
<1>2. walked(f) = CHOOSE w : isWalk(w, n)
  BY Zenon DEF walked, First
<1> HIDE DEF n, step
<1>3. 0 \in P
  <2> DEFINE w == [i \in 0 .. 0 |-> step(0, 0)]
  <2>1. ASSUME NEW i \in 0 .. 0 PROVE w[i] = step(i, w[i - 1])
    <3>1. i = 0 /\ \A x : step(i, x) = step(0, 0)
      BY DEF step
    <3> QED BY <3>1
  <2>2. w = [i \in 0 .. 0 |-> w[i]]
    OBVIOUS
  <2> HIDE DEF w
  <2>3. isWalk(w, 0)
    BY <2>1, <2>2
  <2> QED BY <2>3
<1>4. ASSUME NEW k \in 0 .. n, k < n, k \in P PROVE k + 1 \in P
  <2>1. PICK w : isWalk(w, k)
    BY <1>4, Zenon
  <2> DEFINE v == [i \in 0 .. k + 1 |-> IF i = k + 1 THEN step(k + 1, w[k]) ELSE w[i]]
  <2>2. \A i \in 0 .. k : v[i] = w[i] /\ w[i] = step(i, w[i - 1])
    BY <1>1, <2>1
  <2>3. v[k + 1] = step(k + 1, v[k])
    BY <1>1
  <2>4. v[0] = step(0, v[-1])
    <3>1. \A x, y : step(0, x) = step(0, y)
      BY DEF step
    <3>2. v[0] = step(0, w[-1])
      BY <1>1, <2>2
    <3> QED BY <3>1, <3>2
  <2>5. ASSUME NEW i \in 0 .. k + 1 PROVE v[i] = step(i, v[i - 1])
    <3>1. CASE i = 0
      BY <2>4, <3>1
    <3>2. CASE i = k + 1
      BY <2>3, <3>2, <1>1
    <3>3. CASE i # 0 /\ i # k + 1
      <4>1. i \in 0 .. k /\ i - 1 \in 0 .. k
        BY <1>1, <3>3
      <4> QED BY <2>2, <4>1
    <3> QED BY <3>1, <3>2, <3>3
  <2>6. v = [i \in 0 .. k + 1 |-> v[i]]
    OBVIOUS
  <2> HIDE DEF v
  <2>7. isWalk(v, k + 1)
    BY <2>5, <2>6
  <2>8. k + 1 \in Nat
    BY <1>1
  <2> QED BY <2>7, <2>8
<1> HIDE DEF P
<1>5. n \in P
  <2>1. 0 .. n \subseteq P
    BY <1>1, <1>3, <1>4, Climb
  <2> QED BY <1>1, <2>1
<1>6. isWalk(walked(f), n)
  <2>1. PICK w : isWalk(w, n)
    BY <1>5 DEF P
  <2> HIDE DEF isWalk
  <2> QED BY <1>2, <2>1, Zenon
<1>7. \A i \in 0 .. n : walked(f)[i] = step(i, walked(f)[i - 1])
  BY <1>6, Zenon
<1>8. 0 \in 0 .. n /\ \A i \in 1 .. n : i \in 0 .. n /\ i # 0
  BY <1>1
<1> QED BY <1>7, <1>8 DEF n, step

Datas == UNION {[0 .. n - 1 -> Nat] : n \in Nat}
Segments == [vaddr : Nat, filesz : Nat, memsz : Nat, data : Datas]
Images == [error : {"none", "memsz", "wraps", "past_end"}, entry : Nat, segments : Seq(Segments)]

LEMMA SegmentType ==
  ASSUME NEW h \in ProgramHeaders
  PROVE  /\ toSegment(h) \in Segments
         /\ toSegment(h).vaddr = h.vaddr /\ toSegment(h).filesz = h.filesz
         /\ toSegment(h).memsz = h.memsz
         /\ toSegment(h).data = [o \in 0 .. h.filesz - 1 |-> FileByte(h.offset + o)]
<1>1. h.vaddr \in Nat /\ h.filesz \in Nat /\ h.memsz \in Nat /\ h.offset \in Nat
  BY DEF ProgramHeaders
<1>2. [o \in 0 .. h.filesz - 1 |-> FileByte(h.offset + o)] \in [0 .. h.filesz - 1 -> Nat]
  BY <1>1 DEF FileByte
<1>3. [o \in 0 .. h.filesz - 1 |-> FileByte(h.offset + o)] \in Datas
  BY <1>1, <1>2 DEF Datas
<1> QED BY <1>1, <1>3 DEF toSegment, Segments

(* Segment j of an image is what header from[j] of the file describes: the *)
(* headers among the first i that load something, in their order, and none *)
(* of them wrong.                                                          *)
Takes(f, segments, from, i) ==
  /\ Len(from) = Len(segments)
  /\ \A j \in 1 .. Len(from) :
       /\ from[j] \in 1 .. i
       /\ ~loads_nothing(f.phdrs[from[j]])
       /\ segmentError(f, f.phdrs[from[j]]) = "none"
       /\ segments[j] = toSegment(f.phdrs[from[j]])
  /\ \A j, k \in 1 .. Len(from) : j < k => from[j] < from[k]
  /\ \A h \in 1 .. i : ~loads_nothing(f.phdrs[h]) => \E j \in 1 .. Len(from) : from[j] = h

Walked(f, img, i) ==
  /\ img \in Images
  /\ img.entry = f.entry
  /\ img.error = "none" => \E from \in Seq(Nat) : Takes(f, img.segments, from, i)

LEMMA SegmentErrors ==
  ASSUME NEW f, NEW h
  PROVE  segmentError(f, h) \in {"none", "memsz", "wraps", "past_end"}
BY DEF segmentError

LEMMA WalkTakes ==
  ASSUME NEW f, f.phdrs \in Seq(ProgramHeaders), NEW i \in 1 .. Len(f.phdrs),
         NEW img, Walked(f, img, i - 1)
  PROVE  Walked(f, walkHeader(f, img, f.phdrs[i]), i)
<1> DEFINE h == f.phdrs[i]
           new == walkHeader(f, img, h)
<1> SUFFICES Walked(f, new, i)
  OBVIOUS
<1>1. h \in ProgramHeaders /\ i \in Nat
  OBVIOUS
<1>2. img \in Images /\ img.entry = f.entry
      /\ (img.error = "none" => \E from \in Seq(Nat) : Takes(f, img.segments, from, i - 1))
  BY DEF Walked
<1> HIDE DEF h
<1>3. CASE img.error # "none"
  <2>1. new = img
    BY <1>3, Zenon DEF walkHeader
  <2> QED BY <1>2, <1>3, <2>1, Zenon DEF Walked
<1>4. CASE img.error = "none" /\ loads_nothing(h)
  <2>1. new = img
    BY <1>4, Zenon DEF walkHeader
  <2>2. PICK from \in Seq(Nat) : Takes(f, img.segments, from, i - 1)
    BY <1>2, <1>4
  <2>3. Takes(f, img.segments, from, i)
    BY <1>1, <1>4, <2>2 DEF Takes, h
  <2>4. \E fr \in Seq(Nat) : Takes(f, new.segments, fr, i)
    BY <2>1, <2>3, Zenon
  <2> QED BY <1>2, <2>1, <2>4, Zenon DEF Walked
<1>5. CASE img.error = "none" /\ ~loads_nothing(h) /\ segmentError(f, h) # "none"
  <2>1. new = [img EXCEPT !.error = segmentError(f, h)]
    BY <1>5, Zenon DEF walkHeader
  <2>2. new \in Images /\ new.entry = img.entry /\ new.error = segmentError(f, h)
    BY <1>2, <2>1, SegmentErrors DEF Images
  <2> QED BY <1>2, <1>5, <2>2, Zenon DEF Walked
<1>6. CASE img.error = "none" /\ ~loads_nothing(h) /\ segmentError(f, h) = "none"
  <2> DEFINE segs == Append(img.segments, toSegment(h))
  <2>1. new = [img EXCEPT !.segments = segs]
    BY <1>6, Zenon DEF walkHeader
  <2>2. img.segments \in Seq(Segments) /\ toSegment(h) \in Segments
    BY <1>1, <1>2, SegmentType DEF Images
  <2>3. segs \in Seq(Segments) /\ Len(segs) = Len(img.segments) + 1
        /\ segs[Len(img.segments) + 1] = toSegment(h)
        /\ \A j \in 1 .. Len(img.segments) : segs[j] = img.segments[j]
    BY <2>2, AppendProperties
  <2> HIDE DEF segs
  <2>4. new \in Images /\ new.entry = img.entry /\ new.segments = segs
    BY <1>2, <2>1, <2>3 DEF Images
  <2>5. PICK from \in Seq(Nat) : Takes(f, img.segments, from, i - 1)
    BY <1>2, <1>6
  <2> DEFINE fr == Append(from, i)
  <2>6. fr \in Seq(Nat) /\ Len(fr) = Len(from) + 1 /\ fr[Len(from) + 1] = i
        /\ \A j \in 1 .. Len(from) : fr[j] = from[j]
    BY <1>1, AppendProperties
  <2> HIDE DEF fr
  <2>7. Len(from) = Len(img.segments) /\ Len(from) \in Nat
    BY <2>5 DEF Takes
  <2>8. Takes(f, segs, fr, i)
    <3>1. Len(fr) = Len(segs)
      BY <2>3, <2>6, <2>7
    <3>2. ASSUME NEW j \in 1 .. Len(fr)
          PROVE  /\ fr[j] \in 1 .. i
                 /\ ~loads_nothing(f.phdrs[fr[j]])
                 /\ segmentError(f, f.phdrs[fr[j]]) = "none"
                 /\ segs[j] = toSegment(f.phdrs[fr[j]])
      <4>1. CASE j = Len(from) + 1
        BY <1>1, <1>6, <2>3, <2>6, <2>7, <4>1 DEF h
      <4>2. CASE j # Len(from) + 1
        <5>1. j \in 1 .. Len(from) /\ j \in 1 .. Len(img.segments)
          BY <2>6, <2>7, <4>2
        <5>2. fr[j] = from[j] /\ segs[j] = img.segments[j]
          BY <2>3, <2>6, <5>1
        <5>3. from[j] \in 1 .. i - 1 /\ ~loads_nothing(f.phdrs[from[j]])
              /\ segmentError(f, f.phdrs[from[j]]) = "none"
              /\ img.segments[j] = toSegment(f.phdrs[from[j]])
          BY <2>5, <5>1, Zenon DEF Takes
        <5>4. from[j] \in 1 .. i
          BY <1>1, <5>3
        <5> QED BY <5>2, <5>3, <5>4, Zenon
      <4> QED BY <4>1, <4>2
    <3>3. ASSUME NEW j \in 1 .. Len(fr), NEW k \in 1 .. Len(fr), j < k PROVE fr[j] < fr[k]
      <4>1. j \in 1 .. Len(from) /\ fr[j] = from[j] /\ from[j] \in 1 .. i - 1
        <5>1. j \in 1 .. Len(from)
          BY <2>6, <2>7, <3>3
        <5> QED BY <2>5, <2>6, <5>1 DEF Takes
      <4>2. CASE k = Len(from) + 1
        BY <1>1, <2>6, <4>1, <4>2
      <4>3. CASE k # Len(from) + 1
        <5>1. k \in 1 .. Len(from) /\ fr[k] = from[k]
          BY <2>6, <2>7, <4>3
        <5> QED BY <2>5, <3>3, <4>1, <5>1 DEF Takes
      <4> QED BY <4>2, <4>3
    <3>4. ASSUME NEW k \in 1 .. i, ~loads_nothing(f.phdrs[k])
          PROVE  \E j \in 1 .. Len(fr) : fr[j] = k
      <4>1. CASE k = i
        BY <2>6, <2>7, <4>1
      <4>2. CASE k # i
        <5>1. k \in 1 .. i - 1
          BY <1>1, <4>2
        <5>2. PICK j \in 1 .. Len(from) : from[j] = k
          BY <2>5, <3>4, <5>1 DEF Takes
        <5>3. j \in 1 .. Len(fr) /\ fr[j] = k
          BY <2>6, <2>7, <5>2
        <5> QED BY <5>3
      <4> QED BY <4>1, <4>2
    <3> QED BY <3>1, <3>2, <3>3, <3>4, Zenon DEF Takes
  <2>9. \E r \in Seq(Nat) : Takes(f, new.segments, r, i)
    BY <2>4, <2>6, <2>8, Zenon
  <2> QED BY <1>2, <2>4, <2>9, Zenon DEF Walked
<1> QED BY <1>3, <1>4, <1>5, <1>6, Zenon

(* An image without an error is the file's entry point and the segments of *)
(* its headers.                                                            *)
Accepted(f, img) ==
  /\ img.error = "none"
  /\ img.entry = f.entry
  /\ img.segments \in Seq(Segments)
  /\ \E from \in Seq(Nat) : Takes(f, img.segments, from, Len(f.phdrs))

LEMMA ParseAccepts ==
  ASSUME NEW f \in Files, parse_elf(f).error = "none"
  PROVE  Accepted(f, parse_elf(f))
<1> DEFINE n == Len(f.phdrs)
           w == walked(f)
           P == {i \in Nat : Walked(f, w[i], i)}
<1>1. f.phdrs \in Seq(ProgramHeaders) /\ f.entry \in Nat
  BY FilesAssumption
<1>2. n \in Nat
  BY <1>1
<1>3. w[0] = First(f) /\ \A i \in 1 .. n : w[i] = walkHeader(f, w[i - 1], f.phdrs[i])
  BY <1>1, WalkUnfolds, Zenon
<1>4. 0 \in P
  <2>1. First(f) = [error |-> "none", entry |-> f.entry, segments |-> <<>>]
    BY DEF First, NoImage
  <2>2. First(f) \in Images /\ First(f).entry = f.entry /\ First(f).segments = <<>>
    BY <1>1, <2>1 DEF Images
  <2>3. <<>> \in Seq(Nat) /\ Takes(f, <<>>, <<>>, 0)
    BY DEF Takes
  <2>4. Walked(f, First(f), 0)
    BY <2>2, <2>3, Zenon DEF Walked
  <2> QED BY <1>3, <2>4
<1>5. ASSUME NEW i \in 0 .. n, i < n, i \in P PROVE i + 1 \in P
  <2>1. i + 1 \in 1 .. n /\ (i + 1) - 1 = i /\ i + 1 \in Nat
    BY <1>2, <1>5
  <2>2. Walked(f, w[i + 1], i + 1)
    <3> HIDE DEF w
    <3>1. w[i + 1] = walkHeader(f, w[i], f.phdrs[i + 1])
      BY <1>3, <2>1
    <3>2. Walked(f, w[(i + 1) - 1], (i + 1) - 1)
      BY <1>5, <2>1
    <3>3. Walked(f, walkHeader(f, w[(i + 1) - 1], f.phdrs[i + 1]), i + 1)
      BY <1>1, <2>1, <3>2, WalkTakes, Zenon
    <3> QED BY <2>1, <3>1, <3>3
  <2> QED BY <2>1, <2>2
<1> HIDE DEF P, w
<1>6. Walked(f, w[n], n)
  <2>1. 0 .. n \subseteq P
    BY <1>2, <1>4, <1>5, Climb
  <2> QED BY <1>2, <2>1 DEF P
<1>7. parse_elf(f) = w[n]
  <2>1. w[n] \in Images
    BY <1>6 DEF Walked
  <2>2. CASE headerError(f) # "none"
    <3>1. parse_elf(f) = [NoImage EXCEPT !.error = headerError(f)]
      BY <2>2, Zenon DEF parse_elf
    <3>2. parse_elf(f).error = headerError(f)
      BY <3>1 DEF NoImage
    <3> QED BY <2>2, <3>2
  <2>3. CASE headerError(f) = "none" /\ w[n].error = "none" /\ w[n].segments = <<>>
    <3>1. parse_elf(f) = [w[n] EXCEPT !.error = "no_segments"]
      BY <2>3, Zenon DEF parse_elf, w
    <3>2. parse_elf(f).error = "no_segments"
      BY <2>1, <3>1 DEF Images
    <3> QED BY <3>2
  <2>4. CASE headerError(f) = "none" /\ ~(w[n].error = "none" /\ w[n].segments = <<>>)
    BY <2>4, Zenon DEF parse_elf, w
  <2> QED BY <2>2, <2>3, <2>4
<1>8. w[n] \in Images /\ w[n].entry = f.entry
      /\ (w[n].error = "none" => \E from \in Seq(Nat) : Takes(f, w[n].segments, from, n))
  BY <1>6 DEF Walked
<1>9. w[n].segments \in Seq(Segments) /\ w[n].error = "none"
  BY <1>7, <1>8 DEF Images
<1> QED BY <1>7, <1>8, <1>9, Zenon DEF Accepted

LEMMA PassesChecks ==
  ASSUME NEW f, NEW h, segmentError(f, h) = "none"
  PROVE  /\ ~(h.memsz < h.filesz)
         /\ ~(h.vaddr + h.memsz > kAddressSpaceEnd)
         /\ ~(h.filesz > 0 /\ h.offset + h.filesz > f.size)
<1>1. CASE h.memsz < h.filesz
  BY <1>1 DEF segmentError
<1>2. CASE ~(h.memsz < h.filesz) /\ h.vaddr + h.memsz > kAddressSpaceEnd
  BY <1>2 DEF segmentError
<1>3. CASE /\ ~(h.memsz < h.filesz) /\ ~(h.vaddr + h.memsz > kAddressSpaceEnd)
           /\ h.filesz > 0 /\ h.offset + h.filesz > f.size
  BY <1>3 DEF segmentError
<1> QED BY <1>1, <1>2, <1>3, Zenon

LEMMA AcceptedIsSafe ==
  ASSUME NEW f \in Files, NEW img, Accepted(f, img), NEW j \in 1 .. Len(img.segments)
  PROVE  LET s == img.segments[j] IN
         /\ s \in Segments
         /\ s.filesz \in Nat /\ s.memsz \in Nat \ {0} /\ s.vaddr \in Nat
         /\ s.filesz <= s.memsz /\ s.vaddr + s.memsz <= kAddressSpaceEnd
         /\ DOMAIN s.data = 0 .. s.filesz - 1
         /\ \A o \in DOMAIN s.data : s.data[o] \in 1 .. f.size
<1> DEFINE s == img.segments[j]
<1>1. PICK from \in Seq(Nat) : Takes(f, img.segments, from, Len(f.phdrs))
  BY DEF Accepted
<1> DEFINE h == f.phdrs[from[j]]
<1>2. f.phdrs \in Seq(ProgramHeaders) /\ f.size \in Nat /\ kAddressSpaceEnd \in Nat
  BY FilesAssumption, ElfAssumption
<1>3. from[j] \in 1 .. Len(f.phdrs) /\ ~loads_nothing(h) /\ segmentError(f, h) = "none"
      /\ s = toSegment(h)
  BY <1>1 DEF Takes
<1>4. h \in ProgramHeaders
  BY <1>2, <1>3
<1> HIDE DEF h, s
<1>5. /\ s \in Segments /\ s.vaddr = h.vaddr /\ s.filesz = h.filesz /\ s.memsz = h.memsz
      /\ s.data = [o \in 0 .. h.filesz - 1 |-> FileByte(h.offset + o)]
  BY <1>3, <1>4, SegmentType
<1>6. h.vaddr \in Nat /\ h.filesz \in Nat /\ h.memsz \in Nat /\ h.offset \in Nat
  BY <1>4 DEF ProgramHeaders
<1>7. h.filesz <= h.memsz /\ h.vaddr + h.memsz <= kAddressSpaceEnd
      /\ (h.filesz > 0 => h.offset + h.filesz <= f.size)
  <2>1. ~(h.memsz < h.filesz) /\ ~(h.vaddr + h.memsz > kAddressSpaceEnd)
        /\ ~(h.filesz > 0 /\ h.offset + h.filesz > f.size)
    BY <1>3, PassesChecks, Zenon
  <2> QED BY <1>2, <1>6, <2>1
<1>8. h.memsz # 0
  BY <1>3, <1>6, <1>7 DEF loads_nothing
<1>9. ASSUME NEW o \in 0 .. h.filesz - 1 PROVE FileByte(h.offset + o) \in 1 .. f.size
  <2>1. h.filesz > 0 /\ o \in Nat /\ o < h.filesz
    BY <1>6
  <2>2. h.offset + h.filesz <= f.size
    BY <1>7, <2>1
  <2>3. \A x, y, z, i \in Nat : x + y <= z /\ i < y => x + i + 1 \in 1 .. z
    OBVIOUS
  <2>4. h.offset + o + 1 \in 1 .. f.size
    BY <1>2, <1>6, <2>1, <2>2, <2>3, Zenon
  <2> QED BY <2>4, Zenon DEF FileByte
<1>10. \A o \in DOMAIN s.data : s.data[o] \in 1 .. f.size
  BY <1>5, <1>9
<1> QED BY <1>5, <1>6, <1>7, <1>8, <1>10 DEF s

-----------------------------------------------------------------------------
(* What is in memory while a file is loaded *)

(* The segments that have reached address a when byte o of segment n is    *)
(* the next one, and what a segment puts there.                            *)
Lands(segments, n, o, a) ==
  {j \in 1 .. Len(segments) :
     Covers(segments[j], a) /\ (j < n \/ (j = n /\ a - segments[j].vaddr < o))}
Content(s, a) == IF a - s.vaddr < s.filesz THEN s.data[a - s.vaddr] ELSE 0

(* Every address holds what the last segment that reached it put there,    *)
(* and elsewhere what it held before.                                      *)
Holds(m, old, segments, n, o) ==
  \A a \in 0 .. MemSize - 1 :
    /\ Lands(segments, n, o, a) = {} => m[a] = old[a]
    /\ \A j \in Lands(segments, n, o, a) :
         (\A k \in Lands(segments, n, o, a) : k <= j) => m[a] = Content(segments[j], a)

LEMMA SegmentFields ==
  ASSUME NEW segments \in Seq(Segments), NEW j \in 1 .. Len(segments)
  PROVE  /\ segments[j] \in Segments
         /\ segments[j].vaddr \in Nat /\ segments[j].memsz \in Nat /\ segments[j].filesz \in Nat
<1>1. segments[j] \in Segments
  OBVIOUS
<1> DEFINE s == segments[j]
<1> HIDE DEF s
<1>2. s \in Segments => s.vaddr \in Nat /\ s.memsz \in Nat /\ s.filesz \in Nat
  BY DEF Segments
<1> QED BY <1>1, <1>2 DEF s

LEMMA CoversRange ==
  ASSUME NEW s, s.vaddr \in Nat, s.memsz \in Nat, NEW a \in Nat
  PROVE  Covers(s, a) <=> a >= s.vaddr /\ a < s.vaddr + s.memsz
BY DEF Covers

LEMMA ByteLands ==
  ASSUME NEW m \in Memory, NEW old, NEW segments \in Seq(Segments),
         NEW n \in 1 .. Len(segments), NEW o \in 0 .. segments[n].memsz - 1,
         Holds(m, old, segments, n, o),
         segments[n].vaddr + o < MemSize,
         NEW p \in Nat, NEW q \in Nat,
         \/ p = n /\ q = o + 1
         \/ p = n + 1 /\ q = 0 /\ o + 1 = segments[n].memsz
  PROVE  Holds([m EXCEPT ![segments[n].vaddr + o] = loadedByte(segments[n], o, @)],
               old, segments, p, q)
<1> DEFINE s == segments[n]
           at == s.vaddr + o
           new == [m EXCEPT ![at] = loadedByte(s, o, @)]
           size == Len(segments)
<1>1. MemSize \in Nat /\ size \in Nat
  BY ElfAssumption
<1>2. s \in Segments /\ s.vaddr \in Nat /\ s.memsz \in Nat /\ s.filesz \in Nat
  BY SegmentFields, Zenon
<1>3. at \in 0 .. MemSize - 1 /\ at - s.vaddr = o /\ o \in Nat
  BY <1>1, <1>2
<1>4. new[at] = Content(s, at) /\ \A a \in 0 .. MemSize - 1 : a # at => new[a] = m[a]
  BY <1>1, <1>3 DEF Memory, Content, loadedByte
<1>5. \A j \in 1 .. size : j \in Nat /\ segments[j].vaddr \in Nat /\ segments[j].memsz \in Nat
  BY <1>1, SegmentFields
<1>6. ASSUME NEW a \in 0 .. MemSize - 1, NEW j \in 1 .. size
      PROVE  j \in Lands(segments, p, q, a)
             <=> j \in Lands(segments, n, o, a) \/ (j = n /\ a = at)
  <2>1. a \in Nat /\ j \in Nat /\ segments[j].vaddr \in Nat /\ segments[j].memsz \in Nat
    BY <1>1, <1>5
  <2>2. CASE j # n
    <3>1. (j < p \/ (j = p /\ a - segments[j].vaddr < q))
          /\ Covers(segments[j], a) <=> j < n /\ Covers(segments[j], a)
      BY <1>2, <2>1, <2>2 DEF Covers
    <3> QED BY <2>2, <3>1 DEF Lands
  <2>3. CASE j = n
    <3>1. Covers(s, a) <=> a >= s.vaddr /\ a < s.vaddr + s.memsz
      BY <1>2, <2>1, CoversRange, Zenon
    <3>2. Covers(s, a) => ((n < p \/ (n = p /\ a - s.vaddr < q)) <=> a - s.vaddr < o + 1)
      <4> SUFFICES ASSUME Covers(s, a)
                   PROVE  (n < p \/ (n = p /\ a - s.vaddr < q)) <=> a - s.vaddr < o + 1
        OBVIOUS
      <4> HIDE DEF s, at, new, size
      <4>1. PICK d \in Int : d = a - s.vaddr /\ d < s.memsz
        BY <1>2, <2>1, <3>1
      <4>2. n \in Nat /\ o \in Nat
        BY <1>1, <1>3
      <4>3. CASE p = n /\ q = o + 1
        BY <4>1, <4>2, <4>3
      <4>4. CASE p = n + 1 /\ q = 0 /\ o + 1 = s.memsz
        <5>1. n < p /\ d < o + 1
          BY <4>1, <4>2, <4>4
        <5> QED BY <4>1, <5>1
      <4> QED BY <4>3, <4>4 DEF s
    <3>3. a = at => Covers(s, a)
      BY <1>2, <1>3, <3>1
    <3>4. Covers(s, a) => (a - s.vaddr < o + 1 <=> a - s.vaddr < o \/ a = at)
      BY <1>2, <1>3, <2>1, <3>1
    <3>5. ~(n < n)
      BY <1>1
    <3>6. j \in Lands(segments, p, q, a) <=> Covers(s, a) /\ a - s.vaddr < o + 1
      BY <2>3, <3>2 DEF Lands
    <3>7. j \in Lands(segments, n, o, a) <=> Covers(s, a) /\ a - s.vaddr < o
      BY <2>3, <3>5 DEF Lands
    <3> QED BY <2>3, <3>3, <3>4, <3>6, <3>7
  <2> QED BY <2>2, <2>3
<1>7. \A a : \A j \in Lands(segments, n, o, a) : j <= n
  BY <1>1 DEF Lands
<1>8. \A x, y, a : Lands(segments, x, y, a) \subseteq 1 .. size
  BY DEF Lands
<1> HIDE DEF size, new, s
<1>9. ASSUME NEW a \in 0 .. MemSize - 1
      PROVE  /\ Lands(segments, p, q, a) = {} => new[a] = old[a]
             /\ \A j \in Lands(segments, p, q, a) :
                  (\A k \in Lands(segments, p, q, a) : k <= j) => new[a] = Content(segments[j], a)
  <2>1. CASE a = at
    <3>1. n \in 1 .. size
      BY DEF size
    <3>2. n \in Lands(segments, p, q, a)
      BY <1>6, <2>1, <3>1
    <3>3. \A j \in Lands(segments, p, q, a) : j <= n /\ j \in 1 .. size
      BY <1>1, <1>6, <1>7, <1>8, <3>1
    <3>4. \A j \in Lands(segments, p, q, a) :
            (\A k \in Lands(segments, p, q, a) : k <= j) => j = n
      BY <1>1, <3>1, <3>2, <3>3
    <3> QED BY <1>4, <2>1, <3>2, <3>4 DEF s
  <2>2. CASE a # at
    <3>1. Lands(segments, p, q, a) = Lands(segments, n, o, a)
      BY <1>6, <1>8, <2>2
    <3>2. new[a] = m[a]
      BY <1>4, <2>2
    <3> QED BY <3>1, <3>2 DEF Holds
  <2> QED BY <2>1, <2>2
<1>10. Holds(new, old, segments, p, q)
  BY <1>9, Zenon DEF Holds
<1> QED BY <1>10 DEF new, s

-----------------------------------------------------------------------------
(* The loader *)

LoaderTypeOK ==
  /\ elf_mem \in Memory
  /\ segment \in Nat /\ off \in Nat
  /\ phase \in {"idle", "writing", "loaded", "failed"}

(* A load is of an image without errors; a file that was rejected changed  *)
(* nothing.                                                                *)
PhasesAgree ==
  /\ phase = "idle" => image = NoImage
  /\ phase \in {"writing", "loaded"} => image.error = "none"
  /\ image.error # "none" => elf_mem = before.mem
  /\ phase # "idle" /\ image.error = "none" => elf_file \in Files /\ Accepted(elf_file, image)
  /\ phase = "loaded" => elf_pc = image.entry /\ segment > Len(image.segments)
  /\ phase # "loaded" => elf_pc = before.pc

(* The byte to be written next is one of a segment, until none is left.    *)
ByteIsNext ==
  phase = "writing" /\ segment <= Len(image.segments) =>
    segment # 0 /\ off < image.segments[segment].memsz

MemoryHolds ==
  image.error = "none" => Holds(elf_mem, before.mem, image.segments, segment, off)

LoaderIInv == LoaderTypeOK /\ PhasesAgree /\ ByteIsNext /\ MemoryHolds

LEMMA LoaderStarts ==
  ElfInit => LoaderIInv
<1> SUFFICES ASSUME ElfInit PROVE LoaderIInv
  OBVIOUS
<1>1. MemSize \in Nat
  BY ElfAssumption
<1>2. LoaderTypeOK
  BY <1>1 DEF ElfInit, LoaderTypeOK, Memory
<1>3. image.segments = <<>> /\ image.error = "none" /\ before.mem = elf_mem /\ before.pc = elf_pc
      /\ phase = "idle" /\ image = NoImage
  BY DEF ElfInit, NoImage
<1>4. Holds(elf_mem, before.mem, image.segments, segment, off)
  BY <1>3 DEF Holds, Lands
<1> QED BY <1>2, <1>3, <1>4 DEF LoaderIInv, PhasesAgree, ByteIsNext, MemoryHolds

(* Nothing has landed before the first byte. *)
LEMMA NothingLanded ==
  ASSUME NEW segments \in Seq(Segments), NEW a \in Nat
  PROVE  Lands(segments, 1, 0, a) = {}
<1> SUFFICES ASSUME NEW j \in Lands(segments, 1, 0, a) PROVE FALSE
  OBVIOUS
<1>1. j \in 1 .. Len(segments) /\ Covers(segments[j], a)
      /\ (j < 1 \/ (j = 1 /\ a - segments[j].vaddr < 0))
  BY DEF Lands
<1>2. segments[j].vaddr \in Nat /\ segments[j].memsz \in Nat
  BY <1>1, SegmentFields
<1>3. a >= segments[j].vaddr
  BY <1>1, <1>2, CoversRange, Zenon
<1>4. \A x, y \in Nat : x >= y => ~(x - y < 0)
  OBVIOUS
<1>5. j = 1 /\ a - segments[j].vaddr < 0
  BY <1>1
<1> QED BY <1>2, <1>3, <1>4, <1>5, Zenon

LEMMA LoaderOpens ==
  ASSUME LoaderIInv, OpenElf
  PROVE  LoaderIInv'
<1>1. PICK f \in Files :
        /\ elf_file' = f /\ image' = parse_elf(f)
        /\ before' = [mem |-> elf_mem, pc |-> elf_pc]
        /\ segment' = 1 /\ off' = 0
        /\ phase' = IF image'.error = "none" THEN "writing" ELSE "failed"
        /\ elf_mem' = elf_mem /\ elf_pc' = elf_pc
  BY Zenon DEF OpenElf
<1>2. before'.mem = elf_mem' /\ before'.pc = elf_pc'
  BY <1>1
<1>3. LoaderTypeOK'
  BY <1>1 DEF LoaderIInv, LoaderTypeOK
<1>4. image'.error = "none" => Accepted(f, image')
  BY <1>1, ParseAccepts, Zenon
<1>5. phase' \in {"writing", "failed"} /\ (phase' = "writing" => image'.error = "none")
  BY <1>1
<1>6. PhasesAgree'
  BY <1>1, <1>2, <1>4, <1>5 DEF PhasesAgree
<1>7. ByteIsNext'
  <2> SUFFICES ASSUME phase' = "writing", segment' <= Len(image'.segments)
               PROVE  segment' # 0 /\ off' < image'.segments[segment'].memsz
    BY DEF ByteIsNext
  <2>1. Accepted(f, image') /\ 1 \in 1 .. Len(image'.segments)
    <3>1. Accepted(f, image') /\ image'.segments \in Seq(Segments)
      BY <1>4, <1>5 DEF Accepted
    <3> QED BY <1>1, <3>1
  <2>2. image'.segments[1].memsz \in Nat \ {0}
    BY <2>1, AcceptedIsSafe, Zenon
  <2> QED BY <1>1, <2>2
<1>8. MemoryHolds'
  <2> SUFFICES ASSUME image'.error = "none"
               PROVE  Holds(elf_mem', before'.mem, image'.segments, segment', off')
    BY DEF MemoryHolds
  <2>1. image'.segments \in Seq(Segments)
    BY <1>4 DEF Accepted
  <2>2. \A a \in 0 .. MemSize - 1 : Lands(image'.segments, segment', off', a) = {}
    <3>1. \A a \in 0 .. MemSize - 1 : a \in Nat
      BY ElfAssumption
    <3> QED BY <1>1, <2>1, <3>1, NothingLanded, Zenon
  <2> QED BY <1>2, <2>2 DEF Holds
<1> QED BY <1>3, <1>6, <1>7, <1>8 DEF LoaderIInv

LEMMA SmallMod ==
  ASSUME NEW x \in Nat, NEW n \in Nat, x < n
  PROVE  x % n = x
<1> DEFINE q == x \div n
<1>1. q \in Int /\ x % n \in 0 .. n - 1 /\ x = n * q + (x % n)
  OBVIOUS
<1>2. q = 0
  BY <1>1, SMT
<1> QED BY <1>1, <1>2

LEMMA LoaderWrites ==
  ASSUME LoaderIInv, WriteByte
  PROVE  LoaderIInv'
<1> DEFINE segs == image.segments
           s == segs[segment]
           at == (s.vaddr + off) % kAddressSpaceEnd
<1>1. /\ phase = "writing" /\ segment <= Len(segs) /\ off < s.memsz
      /\ \/ /\ at < MemSize
            /\ elf_mem' = [elf_mem EXCEPT ![at] = loadedByte(s, off, @)]
            /\ \/ off + 1 < s.memsz /\ off' = off + 1 /\ segment' = segment
               \/ ~(off + 1 < s.memsz) /\ off' = 0 /\ segment' = segment + 1
            /\ phase' = phase
         \/ phase' = "failed" /\ elf_mem' = elf_mem /\ segment' = segment /\ off' = off
      /\ elf_pc' = elf_pc /\ before' = before /\ image' = image /\ elf_file' = elf_file
  BY DEF WriteByte
<1>2. /\ image.error = "none" /\ elf_file \in Files /\ Accepted(elf_file, image)
      /\ segs \in Seq(Segments) /\ Len(segs) \in Nat
      /\ elf_pc = before.pc
  BY <1>1 DEF LoaderIInv, PhasesAgree, Accepted
<1>3. elf_mem \in Memory /\ segment \in Nat /\ off \in Nat /\ segment # 0
  BY <1>1 DEF LoaderIInv, LoaderTypeOK, ByteIsNext
<1>4. segment \in 1 .. Len(segs) /\ MemSize \in Nat /\ kAddressSpaceEnd \in Nat
      /\ MemSize <= kAddressSpaceEnd
  BY <1>1, <1>2, <1>3, ElfAssumption
<1>5. /\ s.filesz \in Nat /\ s.memsz \in Nat /\ s.vaddr \in Nat
      /\ s.vaddr + s.memsz <= kAddressSpaceEnd
      /\ \A j \in 1 .. Len(segs) : segs[j].memsz \in Nat \ {0}
      /\ DOMAIN s.data = 0 .. s.filesz - 1
  BY <1>2, <1>4, AcceptedIsSafe, Zenon
<1> HIDE DEF s
<1>6. at = s.vaddr + off
  <2>1. s.vaddr + off \in Nat /\ s.vaddr + off < kAddressSpaceEnd
    BY <1>1, <1>3, <1>4, <1>5
  <2> QED BY <1>4, <2>1, SmallMod, Zenon
<1> HIDE DEF at
<1>7. Holds(elf_mem, before.mem, segs, segment, off)
  BY <1>2, Zenon DEF LoaderIInv, MemoryHolds
<1>8. CASE phase' = "failed" /\ elf_mem' = elf_mem /\ segment' = segment /\ off' = off
  <2>1. Holds(elf_mem', before'.mem, image'.segments, segment', off')
    BY <1>1, <1>7, <1>8, Zenon
  <2>2. LoaderTypeOK' /\ ByteIsNext' /\ MemoryHolds'
    BY <1>3, <1>8, <2>1 DEF LoaderTypeOK, ByteIsNext, MemoryHolds
  <2>3. PhasesAgree'
    BY <1>1, <1>2, <1>8 DEF PhasesAgree
  <2> QED BY <2>2, <2>3 DEF LoaderIInv
<1>9. CASE /\ at < MemSize
           /\ elf_mem' = [elf_mem EXCEPT ![at] = loadedByte(s, off, @)]
           /\ \/ off + 1 < s.memsz /\ off' = off + 1 /\ segment' = segment
              \/ ~(off + 1 < s.memsz) /\ off' = 0 /\ segment' = segment + 1
           /\ phase' = phase
  <2>1. at \in 0 .. MemSize - 1
    BY <1>3, <1>4, <1>5, <1>6, <1>9
  <2>2. loadedByte(s, off, elf_mem[at]) \in Nat
    <3>1. CASE off < s.filesz
      <4>1. off \in DOMAIN s.data
        BY <1>3, <1>5, <3>1
      <4>2. s.data[off] \in 1 .. elf_file.size
        BY <1>2, <1>4, <4>1, AcceptedIsSafe, Zenon DEF s
      <4>3. elf_file.size \in Nat
        BY <1>2, FilesAssumption
      <4>4. s.data[off] \in Nat
        BY <4>2, <4>3
      <4> QED BY <3>1, <4>4 DEF loadedByte
    <3>2. CASE ~(off < s.filesz)
      BY <3>2 DEF loadedByte
    <3> QED BY <3>1, <3>2
  <2>3. elf_mem' \in Memory /\ segment' \in Nat /\ off' \in Nat
    BY <1>3, <1>9, <2>1, <2>2 DEF Memory
  <2>4. \/ segment' = segment /\ off' = off + 1
        \/ segment' = segment + 1 /\ off' = 0 /\ off + 1 = s.memsz
    BY <1>1, <1>3, <1>5, <1>9
  <2>5. Holds(elf_mem', before.mem, segs, segment', off')
    <3>1. off \in 0 .. s.memsz - 1
      BY <1>1, <1>3, <1>5
    <3>2. elf_mem' = [elf_mem EXCEPT ![s.vaddr + off] = loadedByte(s, off, @)]
          /\ s.vaddr + off < MemSize
      BY <1>6, <1>9
    <3> HIDE DEF segs
    <3> QED BY <1>2, <1>3, <1>4, <1>7, <2>3, <2>4, <3>1, <3>2, ByteLands, Zenon DEF s
  <2>6. MemoryHolds'
    BY <1>1, <2>5, Zenon DEF MemoryHolds
  <2>7. LoaderTypeOK'
    BY <1>1, <1>9, <2>3 DEF LoaderTypeOK
  <2>8. PhasesAgree'
    BY <1>1, <1>2, <1>9 DEF PhasesAgree
  <2>9. ByteIsNext'
    <3> SUFFICES ASSUME segment' <= Len(image'.segments)
                 PROVE  segment' # 0 /\ off' < image'.segments[segment'].memsz
      BY DEF ByteIsNext
    <3>1. CASE off + 1 < s.memsz /\ off' = off + 1 /\ segment' = segment
      BY <1>1, <1>3, <3>1 DEF s
    <3>2. CASE off' = 0 /\ segment' = segment + 1
      <4>1. segment' \in 1 .. Len(segs)
        BY <1>1, <1>2, <1>3, <3>2
      <4> QED BY <1>1, <1>3, <1>5, <3>2, <4>1
    <3> QED BY <1>9, <3>1, <3>2
  <2> QED BY <2>6, <2>7, <2>8, <2>9 DEF LoaderIInv
<1> QED BY <1>1, <1>8, <1>9, Zenon

LEMMA LoaderStep ==
  LoaderIInv /\ [ElfNext]_elfVars => LoaderIInv'
<1> SUFFICES ASSUME LoaderIInv, [ElfNext]_elfVars PROVE LoaderIInv'
  OBVIOUS
<1>1. CASE OpenElf
  BY <1>1, LoaderOpens
<1>2. CASE WriteByte
  BY <1>2, LoaderWrites
<1>3. CASE SetEntry
  <2>1. /\ phase = "writing" /\ segment > Len(image.segments)
        /\ elf_pc' = image.entry /\ phase' = "loaded" /\ elf_mem' = elf_mem /\ before' = before
        /\ image' = image /\ elf_file' = elf_file /\ segment' = segment /\ off' = off
    BY <1>3 DEF SetEntry
  <2>2. MemoryHolds'
    BY <2>1 DEF LoaderIInv, MemoryHolds
  <2>3. LoaderTypeOK' /\ ByteIsNext'
    BY <2>1 DEF LoaderIInv, LoaderTypeOK, ByteIsNext
  <2>4. PhasesAgree'
    BY <2>1 DEF LoaderIInv, PhasesAgree
  <2> QED BY <2>2, <2>3, <2>4 DEF LoaderIInv
<1>4. CASE UNCHANGED elfVars
  <2>1. /\ elf_mem' = elf_mem /\ elf_pc' = elf_pc /\ before' = before /\ image' = image
        /\ elf_file' = elf_file /\ segment' = segment /\ off' = off /\ phase' = phase
    BY <1>4 DEF elfVars
  <2>2. LoaderTypeOK' /\ ByteIsNext' /\ MemoryHolds'
    BY <2>1 DEF LoaderIInv, LoaderTypeOK, ByteIsNext, MemoryHolds
  <2>3. PhasesAgree'
    BY <2>1 DEF LoaderIInv, PhasesAgree
  <2> QED BY <2>2, <2>3 DEF LoaderIInv
<1> QED BY <1>1, <1>2, <1>3, <1>4 DEF ElfNext

LEMMA Largest ==
  ASSUME NEW n \in Nat, NEW S \in SUBSET (0 .. n), S # {}
  PROVE  \E x \in S : \A y \in S : y <= x
<1> DEFINE R == {r \in 0 .. n : n - r \in S}
<1>1. \A y \in S : y \in 0 .. n /\ n - y \in R
  <2>1. \A y \in 0 .. n : n - y \in 0 .. n /\ n - (n - y) = y
    OBVIOUS
  <2> QED BY <2>1
<1>2. R \in SUBSET Nat /\ R # {}
  <2>1. \A y \in 0 .. n : y \in Nat
    OBVIOUS
  <2> QED BY <1>1, <2>1
<1> HIDE DEF R
<1>3. Min(R) \in R /\ \A r \in R : Min(R) <= r
  BY <1>2, Smallest
<1>4. n - Min(R) \in S /\ Min(R) \in 0 .. n
  BY <1>3 DEF R
<1>5. ASSUME NEW y \in S PROVE y <= n - Min(R)
  <2>1. y \in 0 .. n /\ Min(R) <= n - y
    BY <1>1, <1>3
  <2> QED BY <1>4, <2>1
<1> QED BY <1>4, <1>5

(* When every byte has landed, memory is what the headers say.             *)
LEMMA LoadedMemory ==
  ASSUME LoaderIInv, phase = "loaded", NEW a \in 0 .. MemSize - 1
  PROVE  elf_mem[a] = Expected(a)
<1> DEFINE segs == image.segments
           phdrs == elf_file.phdrs
           size == Len(segs)
           hs == {i \in 1 .. Len(phdrs) : phdrs[i].load /\ Covers(phdrs[i], a)}
           js == Lands(segs, segment, off, a)
<1>1. /\ elf_file \in Files /\ Accepted(elf_file, image) /\ segs \in Seq(Segments)
      /\ segment \in Nat /\ segment > size /\ size \in Nat
      /\ Holds(elf_mem, before.mem, segs, segment, off)
  BY DEF LoaderIInv, LoaderTypeOK, PhasesAgree, MemoryHolds, Accepted
<1>2. phdrs \in Seq(ProgramHeaders) /\ Len(phdrs) \in Nat /\ MemSize \in Nat /\ a \in Nat
  BY <1>1, FilesAssumption, ElfAssumption
<1>3. PICK from \in Seq(Nat) : Takes(elf_file, segs, from, Len(phdrs))
  BY <1>1 DEF Accepted
<1>4. Len(from) = size
      /\ \A j \in 1 .. size : /\ from[j] \in 1 .. Len(phdrs)
                              /\ ~loads_nothing(phdrs[from[j]])
                              /\ segs[j] = toSegment(phdrs[from[j]])
  BY <1>3, Zenon DEF Takes
<1>5. js = {j \in 1 .. size : Covers(segs[j], a)}
  BY <1>1 DEF Lands
<1>6. \A i \in 1 .. Len(phdrs) : phdrs[i] \in ProgramHeaders
  BY <1>2
<1>7. /\ (js = {} => elf_mem[a] = before.mem[a])
      /\ \A j \in js : (\A k \in js : k <= j) => elf_mem[a] = Content(segs[j], a)
  BY <1>1, Zenon DEF Holds
<1> HIDE DEF segs, phdrs, js
<1>8. ASSUME NEW j \in 1 .. size
      PROVE  /\ from[j] \in 1 .. Len(phdrs) /\ phdrs[from[j]].load
             /\ (Covers(segs[j], a) <=> Covers(phdrs[from[j]], a))
  <2>1. phdrs[from[j]].load
    BY <1>4, Zenon DEF loads_nothing
  <2>2. segs[j].vaddr = phdrs[from[j]].vaddr /\ segs[j].memsz = phdrs[from[j]].memsz
    BY <1>4, <1>6, SegmentType, Zenon
  <2>3. Covers(segs[j], a) <=> Covers(phdrs[from[j]], a)
    BY <2>2, Zenon DEF Covers
  <2> QED BY <1>4, <2>1, <2>3
<1>9. ASSUME NEW i \in hs PROVE \E j \in js : from[j] = i
  <2>1. i \in 1 .. Len(phdrs) /\ phdrs[i].load /\ Covers(phdrs[i], a)
        /\ phdrs[i] \in ProgramHeaders
    BY <1>6
  <2>2. phdrs[i].memsz # 0
    <3>1. phdrs[i].vaddr \in Nat /\ phdrs[i].memsz \in Nat
      BY <2>1 DEF ProgramHeaders
    <3>2. a >= phdrs[i].vaddr /\ a < phdrs[i].vaddr + phdrs[i].memsz
      BY <1>2, <2>1, <3>1, CoversRange, Zenon
    <3> QED BY <1>2, <3>1, <3>2
  <2>3. ~loads_nothing(phdrs[i])
    BY <2>1, <2>2, Zenon DEF loads_nothing
  <2>4. PICK j \in 1 .. size : from[j] = i
    BY <1>3, <1>4, <2>1, <2>3, Zenon DEF Takes, phdrs
  <2>5. Covers(segs[j], a)
    BY <1>8, <2>1, <2>4, Zenon
  <2> QED BY <1>5, <2>4, <2>5, Zenon
<1>10. ASSUME NEW j \in js PROVE j \in 1 .. size /\ from[j] \in hs
  BY <1>5, <1>8
<1>11. CASE hs = {}
  <2>1. js = {}
    BY <1>10, <1>11
  <2> QED BY <1>7, <1>11, <2>1, Zenon DEF Expected, phdrs
<1>12. CASE hs # {}
  <2> DEFINE i == CHOOSE x \in hs : \A y \in hs : y <= x
             h == phdrs[i]
  <2>1. i \in hs /\ \A y \in hs : y <= i
    <3>1. hs \in SUBSET (0 .. Len(phdrs))
      BY <1>2
    <3> HIDE DEF hs
    <3>2. \E x \in hs : \A y \in hs : y <= x
      BY <1>2, <1>12, <3>1, Largest, Zenon
    <3> QED BY <3>2, Zenon
  <2>2. Expected(a) = IF a - h.vaddr < h.filesz THEN FileByte(h.offset + a - h.vaddr) ELSE 0
    BY <1>12, Zenon DEF Expected, phdrs
  <2> HIDE DEF i, hs
  <2>3. PICK j \in js : from[j] = i
    BY <1>9, <2>1
  <2>4. ASSUME NEW k \in js PROVE k <= j
    <3>1. from[k] <= from[j] /\ j \in 1 .. size /\ k \in 1 .. size
      BY <1>10, <2>1, <2>3
    <3>2. from[j] \in Nat /\ from[k] \in Nat
      BY <1>2, <1>4, <3>1
    <3>3. j < k => from[j] < from[k]
      BY <1>3, <1>4, <3>1, Zenon DEF Takes
    <3> QED BY <1>1, <3>1, <3>2, <3>3
  <2>5. elf_mem[a] = Content(segs[j], a)
    BY <1>7, <2>4, Zenon
  <2>6. h \in ProgramHeaders /\ segs[j] = toSegment(h) /\ Covers(h, a)
    <3>1. i \in 1 .. Len(phdrs) /\ Covers(phdrs[i], a)
      BY <2>1 DEF hs
    <3> QED BY <1>4, <1>6, <1>10, <2>3, <3>1, Zenon
  <2> HIDE DEF h
  <2>7. h.vaddr \in Nat /\ h.filesz \in Nat /\ h.memsz \in Nat /\ h.offset \in Nat
    BY <2>6 DEF ProgramHeaders
  <2>8. segs[j].vaddr = h.vaddr /\ segs[j].filesz = h.filesz
        /\ segs[j].data = [o \in 0 .. h.filesz - 1 |-> FileByte(h.offset + o)]
    BY <2>6, SegmentType, Zenon
  <2>9. a >= h.vaddr
    BY <1>2, <2>6, <2>7, CoversRange, Zenon
  <2>10. CASE a - h.vaddr < h.filesz
    <3>1. a - h.vaddr \in 0 .. h.filesz - 1
      BY <1>2, <2>7, <2>9, <2>10
    <3>2. segs[j].data[a - h.vaddr] = FileByte(h.offset + (a - h.vaddr))
      BY <2>8, <3>1
    <3>3. h.offset + (a - h.vaddr) = h.offset + a - h.vaddr
      BY <1>2, <2>7
    <3>4. Content(segs[j], a) = segs[j].data[a - h.vaddr]
      BY <2>8, <2>10, Zenon DEF Content
    <3> QED BY <2>2, <2>5, <2>10, <3>2, <3>3, <3>4, Zenon
  <2>11. CASE ~(a - h.vaddr < h.filesz)
    <3>1. Content(segs[j], a) = 0
      BY <2>8, <2>11, Zenon DEF Content
    <3> QED BY <2>2, <2>5, <2>11, <3>1, Zenon
  <2> QED BY <2>10, <2>11
<1> QED BY <1>11, <1>12

LEMMA LoaderHolds ==
  LoaderIInv => LoaderInv
<1> SUFFICES ASSUME LoaderIInv PROVE LoaderInv
  OBVIOUS
<1>1. elf_mem \in Memory /\ DOMAIN elf_mem = 0 .. MemSize - 1
  BY DEF LoaderIInv, LoaderTypeOK, Memory
<1>2. ParsedImageIsSafe
  <2> SUFFICES ASSUME image.error = "none", NEW i \in 1 .. Len(image.segments)
               PROVE  LET s == image.segments[i] IN
                      /\ s.filesz <= s.memsz /\ DOMAIN s.data = 0 .. s.filesz - 1
                      /\ s.vaddr + s.memsz <= kAddressSpaceEnd
                      /\ \A o \in DOMAIN s.data : s.data[o] \in 1 .. elf_file.size
    BY DEF ParsedImageIsSafe
  <2>1. CASE phase = "idle"
    <3>1. image.segments = <<>>
      BY <2>1 DEF LoaderIInv, PhasesAgree, NoImage
    <3> QED BY <3>1
  <2>2. CASE phase # "idle"
    <3>1. elf_file \in Files /\ Accepted(elf_file, image)
      BY <2>2 DEF LoaderIInv, PhasesAgree
    <3> QED BY <3>1, AcceptedIsSafe, Zenon
  <2> QED BY <2>1, <2>2
<1>3. ElfLoadIsExact
  <2> SUFFICES ASSUME phase = "loaded"
               PROVE  elf_pc = elf_file.entry /\ \A a \in DOMAIN elf_mem : elf_mem[a] = Expected(a)
    BY DEF ElfLoadIsExact
  <2>1. elf_pc = elf_file.entry
    BY DEF LoaderIInv, PhasesAgree, Accepted
  <2> QED BY <1>1, <2>1, LoadedMemory
<1>4. FailedLoadIsContained
  <2> SUFFICES ASSUME phase # "loaded"
               PROVE  /\ elf_pc = before.pc
                      /\ image.error # "none" => elf_mem = before.mem
                      /\ \A a \in DOMAIN elf_mem :
                           elf_mem[a] # before.mem[a] =>
                             \E i \in 1 .. Len(image.segments) : Covers(image.segments[i], a)
    BY DEF FailedLoadIsContained
  <2>1. elf_pc = before.pc /\ (image.error # "none" => elf_mem = before.mem)
    BY DEF LoaderIInv, PhasesAgree
  <2>2. ASSUME NEW a \in DOMAIN elf_mem, elf_mem[a] # before.mem[a]
        PROVE  \E i \in 1 .. Len(image.segments) : Covers(image.segments[i], a)
    <3>1. Holds(elf_mem, before.mem, image.segments, segment, off)
      BY <2>1, <2>2 DEF LoaderIInv, MemoryHolds
    <3>2. Lands(image.segments, segment, off, a) # {}
      BY <1>1, <2>2, <3>1 DEF Holds
    <3> QED BY <3>2 DEF Lands
  <2> QED BY <2>1, <2>2
<1> QED BY <1>2, <1>3, <1>4 DEF LoaderInv

(* Loading is safe on any file, puts exactly the file's image in memory    *)
(* when it succeeds and is contained when it does not, for memories and    *)
(* files of every size: parse_elf() and load_elf_into_processor().         *)
THEOREM LoadingIsExact ==
  ElfSpec => []LoaderInv
<1>1. ElfInit => LoaderIInv
  BY LoaderStarts
<1>2. LoaderIInv /\ [ElfNext]_elfVars => LoaderIInv'
  BY LoaderStep
<1>3. LoaderIInv => LoaderInv
  BY LoaderHolds
<1> QED BY <1>1, <1>2, <1>3, PTL DEF ElfSpec

(* The same of the loader among the tools the run checks. *)
THEOREM ToolsLoadExactly ==
  ToolSpec => []LoaderInv
<1>1. ToolInit => ElfInit
  BY DEF ToolInit
<1>2. [ToolNext]_toolVars => [ElfNext]_elfVars
  BY DEF ToolNext, toolVars, elfVars
<1> QED BY <1>1, <1>2, LoadingIsExact, PTL DEF ToolSpec, ElfSpec

-----------------------------------------------------------------------------
(* Loops over a sequence *)

(* What a loop of n turns computes, turn by turn. *)
Loop(n, D, first, next) == n \in Nat /\ first \in D /\ next \in [1 .. n -> [D -> D]]

LEMMA LoopExists ==
  ASSUME NEW n, NEW D, NEW first, NEW next, Loop(n, D, first, next)
  PROVE  \E g \in [0 .. n -> D] : /\ g[0] = first
                                  /\ \A i \in 1 .. n : g[i] = next[i][g[i - 1]]
<1> DEFINE part(k) == {g \in [0 .. n -> D] :
                         g[0] = first /\ \A i \in 1 .. k : g[i] = next[i][g[i - 1]]}
           P == {k \in Nat : part(k) # {}}
<1>4. n \in Nat /\ first \in D /\ next \in [1 .. n -> [D -> D]]
  BY DEF Loop
<1>1. 0 \in P
  <2>1. [i \in 0 .. n |-> first] \in part(0)
    BY <1>4
  <2> QED BY <2>1
<1>2. \A k \in 0 .. n : k < n /\ k \in P => k + 1 \in P
  <2> SUFFICES ASSUME NEW k \in 0 .. n, k < n, k \in P PROVE k + 1 \in P
    OBVIOUS
  <2>1. PICK f \in [0 .. n -> D] : f[0] = first /\ \A i \in 1 .. k : f[i] = next[i][f[i - 1]]
    OBVIOUS
  <2>2. k + 1 \in 1 .. n /\ k + 1 \in 0 .. n /\ k \in 0 .. n /\ f[k] \in D
    BY <1>4
  <2>3. next[k + 1][f[k]] \in D
    BY <1>4, <2>2
  <2> DEFINE g == [f EXCEPT ![k + 1] = next[k + 1][f[k]]]
  <2>4. g \in [0 .. n -> D] /\ g[k + 1] = next[k + 1][f[k]] /\ \A i \in 0 .. k : g[i] = f[i]
    BY <2>2, <2>3
  <2> HIDE DEF g
  <2>5. g[0] = first /\ \A i \in 1 .. k + 1 : g[i] = next[i][g[i - 1]]
    <3>1. ASSUME NEW i \in 1 .. k + 1 PROVE g[i] = next[i][g[i - 1]]
      <4>1. CASE i = k + 1
        <5>1. i - 1 = k /\ g[k] = f[k]
          BY <2>2, <2>4, <4>1
        <5> QED BY <2>4, <4>1, <5>1
      <4>2. CASE i # k + 1
        <5>1. i \in 1 .. k /\ i - 1 \in 0 .. k /\ i \in 0 .. k
          BY <4>2
        <5>2. g[i] = f[i] /\ g[i - 1] = f[i - 1]
          BY <2>4, <5>1
        <5> QED BY <2>1, <5>1, <5>2
      <4> QED BY <4>1, <4>2
    <3>2. g[0] = first
      BY <2>1, <2>4
    <3> QED BY <3>1, <3>2
  <2>6. g \in part(k + 1) /\ k + 1 \in Nat
    BY <2>4, <2>5
  <2> HIDE DEF part
  <2> QED BY <2>6
<1> HIDE DEF P
<1>3. n \in P
  <2>1. 0 .. n \subseteq P
    BY <1>1, <1>2, <1>4, Climb
  <2> QED BY <1>4, <2>1
<1> QED BY <1>3 DEF P

(* Two loops that start alike and do the same in each turn agree. *)
Alike(f, g, n) ==
  f[0] = g[0] /\ \A i \in 1 .. n : f[i - 1] = g[i - 1] => f[i] = g[i]

LEMMA LoopsAgree ==
  ASSUME NEW n \in Nat, NEW f, NEW g, Alike(f, g, n)
  PROVE  \A i \in 0 .. n : f[i] = g[i]
<1> DEFINE P == {i \in Nat : f[i] = g[i]}
<1>1. 0 \in P
  BY DEF Alike
<1>2. \A i \in 0 .. n : i < n /\ i \in P => i + 1 \in P
  <2> SUFFICES ASSUME NEW i \in 0 .. n, i < n, i \in P PROVE i + 1 \in P
    OBVIOUS
  <2>1. i + 1 \in 1 .. n /\ (i + 1) - 1 = i /\ i + 1 \in Nat
    OBVIOUS
  <2> QED BY <2>1 DEF Alike
<1> HIDE DEF P
<1>3. 0 .. n \subseteq P
  BY <1>1, <1>2, Climb
<1> QED BY <1>3 DEF P

-----------------------------------------------------------------------------
(* Reading digits *)

LEMMA DigitsUnfold ==
  ASSUME NEW s \in Seq(Nat), NEW base \in Nat
  PROVE  /\ valueOf(s, base) \in [0 .. Len(s) -> Nat]
         /\ valueOf(s, base)[0] = 0
         /\ \A k \in 1 .. Len(s) : valueOf(s, base)[k] = valueOf(s, base)[k - 1] * base + s[k]
<1> DEFINE n == Len(s)
           times(x) == x * base
           horner(v) == v = [k \in 0 .. n |-> IF k = 0 THEN 0 ELSE times(v[k - 1]) + s[k]]
           next == [k \in 1 .. n |-> [x \in Nat |-> times(x) + s[k]]]
<1>1. n \in Nat /\ \A k \in 1 .. n : s[k] \in Nat
  OBVIOUS
<1>2. valueOf(s, base) = CHOOSE v : horner(v)
  BY Zenon DEF valueOf
<1>3. \A x \in Nat : times(x) \in Nat
  OBVIOUS
<1> HIDE DEF n, times
<1>4. next \in [1 .. n -> [Nat -> Nat]] /\ \A k \in 1 .. n : \A x \in Nat : next[k][x] = times(x) + s[k]
  <2>1. \A k \in 1 .. n : \A x \in Nat : times(x) + s[k] \in Nat
    <3> SUFFICES ASSUME NEW k \in 1 .. n, NEW x \in Nat PROVE times(x) + s[k] \in Nat
      OBVIOUS
    <3> HIDE DEF next, horner
    <3>1. times(x) \in Nat /\ s[k] \in Nat
      BY <1>1, <1>3
    <3> QED BY <3>1
  <2>2. \A k \in 1 .. n : [x \in Nat |-> times(x) + s[k]] \in [Nat -> Nat]
    BY <2>1
  <2>3. \A k \in 1 .. n : next[k] = [x \in Nat |-> times(x) + s[k]]
    OBVIOUS
  <2>4. next \in [1 .. n -> [Nat -> Nat]]
    BY <2>2
  <2> HIDE DEF next
  <2> QED BY <2>3, <2>4
<1> HIDE DEF next
<1>5. PICK g \in [0 .. n -> Nat] : g[0] = 0 /\ \A i \in 1 .. n : g[i] = next[i][g[i - 1]]
  <2> HIDE DEF horner
  <2>1. Loop(n, Nat, 0, next)
    BY <1>1, <1>4 DEF Loop
  <2> QED BY <2>1, LoopExists
<1>6. \A i \in 1 .. n : g[i] = times(g[i - 1]) + s[i]
  <2> SUFFICES ASSUME NEW i \in 1 .. n PROVE g[i] = times(g[i - 1]) + s[i]
    OBVIOUS
  <2> HIDE DEF horner
  <2>1. g[i - 1] \in Nat
    BY <1>1, <1>5
  <2>2. \A x \in Nat : next[i][x] = times(x) + s[i]
    BY <1>4
  <2>3. next[i][g[i - 1]] = times(g[i - 1]) + s[i]
    BY <2>1, <2>2
  <2> QED BY <1>5, <2>3
<1>7. horner(g)
  <2>1. ASSUME NEW k \in 0 .. n PROVE g[k] = IF k = 0 THEN 0 ELSE times(g[k - 1]) + s[k]
    <3>1. k = 0 \/ k \in 1 .. n
      BY <1>1
    <3>2. \A i \in 1 .. n : i # 0
      OBVIOUS
    <3> QED BY <1>5, <1>6, <3>1, <3>2
  <2>2. g = [k \in 0 .. n |-> g[k]]
    BY <1>5
  <2> QED BY <2>1, <2>2
<1>8. horner(valueOf(s, base))
  <2> HIDE DEF horner
  <2> QED BY <1>2, <1>7, Zenon
<1> DEFINE v == valueOf(s, base)
<1> HIDE DEF v
<1>9. v = [k \in 0 .. n |-> IF k = 0 THEN 0 ELSE times(v[k - 1]) + s[k]]
  BY <1>8 DEF v
<1>10. v[0] = 0 /\ \A k \in 1 .. n : v[k] = times(v[k - 1]) + s[k]
  BY <1>1, <1>9
<1>11. \A k \in 0 .. n : v[k] = g[k]
  <2>1. Alike(v, g, n)
    BY <1>5, <1>6, <1>10 DEF Alike
  <2> QED BY <1>1, <2>1, LoopsAgree
<1>12. v \in [0 .. n -> Nat]
  BY <1>5, <1>9, <1>11
<1> QED BY <1>10, <1>12 DEF v, n, times

LEMMA DigitsType ==
  ASSUME NEW s \in Seq(Nat), NEW base \in Nat
  PROVE  Digits(s, base) \in Nat
<1>1. Len(s) \in 0 .. Len(s)
  OBVIOUS
<1> QED BY <1>1, DigitsUnfold DEF Digits

(* A digit more. *)
LEMMA DigitsAppend ==
  ASSUME NEW s \in Seq(Nat), NEW d \in Nat, NEW base \in Nat
  PROVE  Digits(Append(s, d), base) = Digits(s, base) * base + d
<1> DEFINE t == Append(s, d)
           n == Len(s)
           times(x) == x * base
           v == valueOf(s, base)
           w == valueOf(t, base)
<1>1. t \in Seq(Nat) /\ Len(t) = n + 1 /\ t[n + 1] = d /\ n \in Nat /\ \A k \in 1 .. n : t[k] = s[k]
  OBVIOUS
<1> HIDE DEF t
<1>2. v[0] = 0 /\ \A k \in 1 .. n : v[k] = times(v[k - 1]) + s[k]
  BY DigitsUnfold
<1>3. w[0] = 0 /\ \A k \in 1 .. n + 1 : w[k] = times(w[k - 1]) + t[k]
  BY <1>1, DigitsUnfold
<1> HIDE DEF v, w, n, times
<1>4. \A k \in 0 .. n : w[k] = v[k]
  <2>1. Alike(w, v, n)
    BY <1>1, <1>2, <1>3 DEF Alike
  <2> QED BY <1>1, <2>1, LoopsAgree
<1>5. w[n + 1] = times(w[n]) + d
  <2>1. n + 1 \in 1 .. n + 1 /\ (n + 1) - 1 = n
    BY <1>1
  <2> QED BY <1>1, <1>3, <2>1
<1>6. n \in 0 .. n
  BY <1>1
<1>7. Digits(t, base) = w[n + 1] /\ Digits(s, base) = v[n]
  BY <1>1 DEF Digits, v, w, n
<1> QED BY <1>4, <1>5, <1>6, <1>7 DEF t, times

-----------------------------------------------------------------------------
(* Programs in hexadecimal *)

HexLines == [prefix : BOOLEAN, digits : Seq(Nat)]
Programs == [error : BOOLEAN, words : Seq(0 .. HexWordSize - 1)]

LEMMA RadixType ==
  /\ ValueSize \in Nat \ {0} /\ HexWordSize \in Nat \ {0}
  /\ \A f \in Fields : Radix[f] \in Nat /\ Radix[f] >= 2
<1>1. {ValueSize, HexWordSize} \subseteq Nat \ {0} /\ Radix \in [{"dec", "hex", "bin"} -> Nat \ {0, 1}]
  BY NumberAssumption, Zenon
<1>2. \A f \in Fields : Radix[f] \in Nat \ {0, 1}
  BY <1>1 DEF Fields
<1>3. \A b \in Nat \ {0, 1} : b \in Nat /\ b >= 2
  OBVIOUS
<1> QED BY <1>1, <1>2, <1>3

LEMMA HexWordType ==
  ASSUME NEW l \in HexLines, hexWord(l) # NoValue
  PROVE  hexWord(l) \in 0 .. HexWordSize - 1
<1> DEFINE v == Digits(l.digits, Radix["hex"])
<1>1. l.digits \in Seq(Nat) /\ Radix["hex"] \in Nat /\ HexWordSize \in Nat
  BY RadixType DEF HexLines, Fields
<1>2. v \in Nat
  BY <1>1, DigitsType
<1> HIDE DEF v
<1>3. hexWord(l) = IF l.digits = <<>> \/ \E i \in 1 .. Len(l.digits) : l.digits[i] >= Radix["hex"]
                   THEN NoValue ELSE IF v < HexWordSize THEN v ELSE NoValue
  BY DEF hexWord, v
<1>4. hexWord(l) = v /\ v < HexWordSize
  BY <1>3, Zenon
<1> QED BY <1>1, <1>2, <1>4

(* What one line does to the program read so far. *)
LEMMA ReadLine ==
  ASSUME NEW p \in Programs, NEW l \in HexLines
  PROVE  /\ readLine(p, l) \in Programs
         /\ \/ readLine(p, l) = p
            \/ ~p.error /\ readLine(p, l).error /\ readLine(p, l).words = <<>>
            \/ /\ ~p.error /\ ~readLine(p, l).error
               /\ hexWord(l) \in 0 .. HexWordSize - 1
               /\ readLine(p, l).words = Append(p.words, hexWord(l))
<1>1. CASE p.error \/ blankLine(l)
  BY <1>1 DEF readLine
<1>2. CASE ~(p.error \/ blankLine(l)) /\ hexWord(l) = NoValue
  <2>1. readLine(p, l) = [error |-> TRUE, words |-> <<>>]
    BY <1>2 DEF readLine
  <2> QED BY <1>2, <2>1 DEF Programs
<1>3. CASE ~(p.error \/ blankLine(l)) /\ hexWord(l) # NoValue
  <2>1. readLine(p, l) = [p EXCEPT !.words = Append(p.words, hexWord(l))]
    BY <1>3 DEF readLine
  <2>2. hexWord(l) \in 0 .. HexWordSize - 1
    BY <1>3, HexWordType
  <2>3. p.words \in Seq(0 .. HexWordSize - 1) /\ p.error = FALSE
    BY <1>3 DEF Programs
  <2>4. Append(p.words, hexWord(l)) \in Seq(0 .. HexWordSize - 1)
    BY <2>2, <2>3
  <2> HIDE DEF Programs
  <2>5. readLine(p, l) = [error |-> FALSE, words |-> Append(p.words, hexWord(l))]
    BY <2>1, <2>3 DEF Programs
  <2> QED BY <1>3, <2>2, <2>4, <2>5 DEF Programs
<1> QED BY <1>1, <1>2, <1>3

LEMMA ProgramsUnfold ==
  ASSUME NEW ls \in Seq(HexLines)
  PROVE  /\ programs(ls) \in [0 .. Len(ls) -> Programs]
         /\ programs(ls)[0] = NoProgram
         /\ \A k \in 1 .. Len(ls) : programs(ls)[k] = readLine(programs(ls)[k - 1], ls[k])
<1> DEFINE n == Len(ls)
           turn(i, p) == readLine(p, ls[i])
           loop(w) == w = [i \in 0 .. n |-> IF i = 0 THEN NoProgram ELSE turn(i, w[i - 1])]
           next == [i \in 1 .. n |-> [p \in Programs |-> turn(i, p)]]
<1>1. n \in Nat /\ \A i \in 1 .. n : ls[i] \in HexLines
  OBVIOUS
<1>2. programs(ls) = CHOOSE w : loop(w)
  BY Zenon DEF programs
<1>3. NoProgram \in Programs
  BY DEF NoProgram, Programs
<1>4. \A i \in 1 .. n : \A p \in Programs : turn(i, p) \in Programs
  BY <1>1, ReadLine
<1> HIDE DEF n, turn
<1>5. next \in [1 .. n -> [Programs -> Programs]]
      /\ \A i \in 1 .. n : \A p \in Programs : next[i][p] = turn(i, p)
  <2>1. \A i \in 1 .. n : [p \in Programs |-> turn(i, p)] \in [Programs -> Programs]
    BY <1>4
  <2>2. \A i \in 1 .. n : next[i] = [p \in Programs |-> turn(i, p)]
    OBVIOUS
  <2>3. next \in [1 .. n -> [Programs -> Programs]]
    BY <2>1
  <2> HIDE DEF next
  <2> QED BY <2>2, <2>3
<1> HIDE DEF next
<1>6. PICK g \in [0 .. n -> Programs] :
        g[0] = NoProgram /\ \A i \in 1 .. n : g[i] = next[i][g[i - 1]]
  <2>1. Loop(n, Programs, NoProgram, next)
    BY <1>1, <1>3, <1>5 DEF Loop
  <2> QED BY <2>1, LoopExists
<1>7. \A i \in 1 .. n : g[i] = turn(i, g[i - 1])
  <2> SUFFICES ASSUME NEW i \in 1 .. n PROVE g[i] = turn(i, g[i - 1])
    OBVIOUS
  <2>1. g[i - 1] \in Programs
    BY <1>1, <1>6
  <2>2. \A p \in Programs : next[i][p] = turn(i, p)
    BY <1>5
  <2> QED BY <1>6, <2>1, <2>2
<1>8. loop(g)
  <2>1. ASSUME NEW i \in 0 .. n PROVE g[i] = IF i = 0 THEN NoProgram ELSE turn(i, g[i - 1])
    <3>1. i = 0 \/ i \in 1 .. n
      BY <1>1
    <3>2. \A j \in 1 .. n : j # 0
      OBVIOUS
    <3> QED BY <1>6, <1>7, <3>1, <3>2
  <2>2. g = [i \in 0 .. n |-> g[i]]
    BY <1>6
  <2> QED BY <2>1, <2>2
<1> DEFINE w == programs(ls)
<1>9. loop(w)
  <2> HIDE DEF loop
  <2> QED BY <1>2, <1>8, Zenon
<1> HIDE DEF w
<1>10. w[0] = NoProgram /\ \A i \in 1 .. n : w[i] = turn(i, w[i - 1])
  BY <1>1, <1>9
<1>11. \A i \in 0 .. n : w[i] = g[i]
  <2>1. Alike(w, g, n)
    BY <1>6, <1>7, <1>10 DEF Alike
  <2> QED BY <1>1, <2>1, LoopsAgree
<1>12. w \in [0 .. n -> Programs]
  BY <1>6, <1>9, <1>11
<1> QED BY <1>10, <1>12 DEF w, n, turn

LEMMA ParsedType ==
  ASSUME NEW ls \in Seq(HexLines)
  PROVE  parse_hex_program(ls) \in Programs
<1>1. Len(ls) \in 0 .. Len(ls)
  OBVIOUS
<1> QED BY <1>1, ProgramsUnfold DEF parse_hex_program

(* A line more is one more turn of the loop. *)
LEMMA ParseAppend ==
  ASSUME NEW ls \in Seq(HexLines), NEW l \in HexLines
  PROVE  parse_hex_program(Append(ls, l)) = readLine(parse_hex_program(ls), l)
<1> DEFINE t == Append(ls, l)
           n == Len(ls)
           v == programs(ls)
           w == programs(t)
<1>1. t \in Seq(HexLines) /\ Len(t) = n + 1 /\ t[n + 1] = l /\ n \in Nat /\ \A k \in 1 .. n : t[k] = ls[k]
  OBVIOUS
<1> HIDE DEF t
<1>2. v[0] = NoProgram /\ \A k \in 1 .. n : v[k] = readLine(v[k - 1], ls[k])
  BY ProgramsUnfold
<1>3. w[0] = NoProgram /\ \A k \in 1 .. n + 1 : w[k] = readLine(w[k - 1], t[k])
  BY <1>1, ProgramsUnfold
<1> HIDE DEF v, w, n
<1>4. \A k \in 0 .. n : w[k] = v[k]
  <2>1. Alike(w, v, n)
    BY <1>1, <1>2, <1>3 DEF Alike
  <2> QED BY <1>1, <2>1, LoopsAgree
<1>5. w[n + 1] = readLine(w[n], l)
  <2>1. n + 1 \in 1 .. n + 1 /\ (n + 1) - 1 = n
    BY <1>1
  <2> QED BY <1>1, <1>3, <2>1
<1>6. n \in 0 .. n
  BY <1>1
<1>7. parse_hex_program(t) = w[n + 1] /\ parse_hex_program(ls) = v[n]
  BY <1>1 DEF parse_hex_program, v, w, n
<1> QED BY <1>4, <1>5, <1>6, <1>7 DEF t

(* The program is what the lines read so far say. *)
HexInv ==
  /\ hex_lines \in Seq(HexLines)
  /\ hex_program = parse_hex_program(hex_lines)
  /\ hex_program.error => hex_program.words = <<>>

LEMMA HexStarts == ToolInit => HexInv
<1> SUFFICES ASSUME ToolInit PROVE HexInv
  OBVIOUS
<1>1. hex_lines = <<>> /\ hex_program = NoProgram
  BY DEF ToolInit, NumberInit
<1>2. <<>> \in Seq(HexLines) /\ Len(<<>>) = 0
  OBVIOUS
<1>3. parse_hex_program(<<>>) = NoProgram
  BY <1>2, ProgramsUnfold DEF parse_hex_program
<1> QED BY <1>1, <1>2, <1>3 DEF HexInv, NoProgram

LEMMA HexLineRead ==
  ASSUME HexInv, AddHexLine
  PROVE  /\ HexInv'
         /\ hex_program'.error => hex_program'.words = <<>>
         /\ hex_program.error => hex_program'.error
         /\ ~hex_program'.error =>
              /\ IsPrefix(hex_program.words, hex_program'.words)
              /\ \A i \in 1 .. Len(hex_program'.words) :
                   hex_program'.words[i] \in 0 .. HexWordSize - 1
<1>1. PICK l \in HexTexts : hex_lines' = Append(hex_lines, l)
  BY DEF AddHexLine
<1>2. l \in HexLines
  <2>1. HexTexts \subseteq HexLines
    BY NumberAssumption, Zenon DEF HexLines
  <2> QED BY <2>1
<1> DEFINE p == hex_program
           q == hex_program'
<1>3. q = readLine(p, l) /\ p \in Programs
  BY <1>1, <1>2, ParseAppend, ParsedType DEF HexInv, AddHexLine
<1>4. q \in Programs
  BY <1>2, <1>3, ReadLine
<1>5. \/ q = p
      \/ ~p.error /\ q.error /\ q.words = <<>>
      \/ /\ ~p.error /\ ~q.error
         /\ hexWord(l) \in 0 .. HexWordSize - 1 /\ q.words = Append(p.words, hexWord(l))
  BY <1>2, <1>3, ReadLine
<1>6. p.error => p.words = <<>>
  BY DEF HexInv
<1>7. hex_lines' \in Seq(HexLines) /\ q = parse_hex_program(hex_lines')
  BY <1>1, <1>2 DEF HexInv, AddHexLine
<1> HIDE DEF p, q
<1>8. p.words \in Seq(0 .. HexWordSize - 1) /\ q.words \in Seq(0 .. HexWordSize - 1)
  BY <1>3, <1>4 DEF Programs
<1>9. q.error => q.words = <<>>
  BY <1>5, <1>6
<1>10. p.error => q.error
  BY <1>5
<1>11. ~q.error => IsPrefix(p.words, q.words)
  <2> SUFFICES ASSUME ~q.error PROVE IsPrefix(p.words, q.words)
    OBVIOUS
  <2>1. \A s, t : IsPrefix(s, t) <=> Len(s) <= Len(t) /\ SubSeq(s, 1, Len(s)) = SubSeq(t, 1, Len(s))
    BY Zenon DEF IsPrefix
  <2>2. CASE q = p
    <3>1. Len(p.words) \in Nat
      BY <1>8
    <3> QED BY <2>1, <2>2, <3>1
  <2>3. CASE hexWord(l) \in 0 .. HexWordSize - 1 /\ q.words = Append(p.words, hexWord(l))
    <3>1. Len(p.words) \in Nat /\ Len(q.words) = Len(p.words) + 1
          /\ \A i \in 1 .. Len(p.words) : q.words[i] = p.words[i]
      BY <1>8, <2>3
    <3>2. SubSeq(q.words, 1, Len(p.words)) = SubSeq(p.words, 1, Len(p.words))
      BY <1>8, <3>1
    <3> QED BY <2>1, <3>1, <3>2
  <2> QED BY <1>5, <2>2, <2>3
<1>12. \A i \in 1 .. Len(q.words) : q.words[i] \in 0 .. HexWordSize - 1
  <2>1. \A D : \A s \in Seq(D) : \A i \in 1 .. Len(s) : s[i] \in D
    OBVIOUS
  <2> QED BY <1>8, <2>1
<1>13. HexInv'
  BY <1>7, <1>9 DEF HexInv, q
<1> QED BY <1>9, <1>10, <1>11, <1>12, <1>13 DEF p, q

LEMMA HexStep == HexInv /\ [ToolNext]_toolVars => HexInv'
<1> SUFFICES ASSUME HexInv, [ToolNext]_toolVars PROVE HexInv'
  OBVIOUS
<1>1. CASE AddHexLine
  BY <1>1, HexLineRead
<1>2. CASE UNCHANGED <<hex_lines, hex_program>>
  BY <1>2 DEF HexInv
<1> QED BY <1>1, <1>2 DEF ToolNext, toolVars, numberVars, EditField

(* A hex program is taken whole or not at all, for lines of any length and *)
(* words of any size: parse_hex_program().                                 *)
THEOREM HexProgramsAreWhole ==
  ToolSpec => HexProgramIsWhole
<1>1. HexInv /\ [ToolNext]_toolVars =>
        [hex_lines' # hex_lines =>
           /\ hex_program'.error => hex_program'.words = <<>>
           /\ hex_program.error => hex_program'.error
           /\ ~hex_program'.error =>
                /\ IsPrefix(hex_program.words, hex_program'.words)
                /\ \A i \in 1 .. Len(hex_program'.words) :
                     hex_program'.words[i] \in 0 .. HexWordSize - 1]_numberVars
  <2> SUFFICES ASSUME HexInv, [ToolNext]_toolVars, hex_lines' # hex_lines
               PROVE  /\ hex_program'.error => hex_program'.words = <<>>
                      /\ hex_program.error => hex_program'.error
                      /\ ~hex_program'.error =>
                           /\ IsPrefix(hex_program.words, hex_program'.words)
                           /\ \A i \in 1 .. Len(hex_program'.words) :
                                hex_program'.words[i] \in 0 .. HexWordSize - 1
    OBVIOUS
  <2>1. AddHexLine
    BY DEF ToolNext, toolVars, numberVars, EditField
  <2> QED BY <2>1, HexLineRead
<1> QED BY <1>1, HexStarts, HexStep, PTL DEF ToolSpec, HexProgramIsWhole

-----------------------------------------------------------------------------
(* Writing a number and reading it back *)

LEMMA Division ==
  ASSUME NEW u \in Nat, NEW b \in Nat, b >= 2
  PROVE  /\ u \div b \in Nat /\ u % b \in 0 .. b - 1
         /\ u = (u \div b) * b + (u % b)
         /\ u > 0 => u \div b < u
<1> DEFINE q == u \div b
           r == u % b
<1>1. q \in Int /\ r \in 0 .. b - 1 /\ u = b * q + r
  OBVIOUS
<1> HIDE DEF q, r
<1>2. q >= 0
  <2>1. CASE q < 0
    <3>1. b * q <= b * (0 - 1)
      BY <1>1, <2>1
    <3> QED BY <1>1, <3>1
  <2> QED BY <1>1, <2>1
<1>3. b * q = q * b
  BY <1>1
<1>4. b * q >= 2 * q
  BY <1>1, <1>2
<1>5. u > 0 => q < u
  BY <1>1, <1>2, <1>4
<1>6. q \in Nat /\ u = q * b + r
  BY <1>1, <1>2, <1>3
<1> QED BY <1>1, <1>5, <1>6 DEF q, r

(* The digits of u, from those of what is left of it. *)
LEMMA WrittenUnfold ==
  ASSUME NEW v \in Nat, NEW b \in Nat, b >= 2
  PROVE  \A u \in 0 .. v :
           written(v, b)[u] = IF u < b THEN <<u>> ELSE Append(written(v, b)[u \div b], u % b)
<1> DEFINE left(u) == u \div b
           step(u, s) == IF u < b THEN <<u>> ELSE Append(s, u % b)
           isDigits(w, k) == w = [u \in 0 .. k |-> step(u, w[left(u)])]
           P == {k \in Nat : \E w : isDigits(w, k)}
<1>1. written(v, b) = CHOOSE w : w = [u \in 0 .. v |-> IF u < b THEN <<u>> ELSE Append(w[u \div b], u % b)]
  BY Zenon DEF written
<1>2. written(v, b) = CHOOSE w : isDigits(w, v)
  BY <1>1, Zenon
<1>3. \A u \in Nat : left(u) \in Nat /\ (u > 0 => left(u) < u)
  BY Division
<1>4. \A x, y : step(0, x) = step(0, y)
  OBVIOUS
<1> HIDE DEF left, step
<1>5. 0 \in P
  <2> DEFINE w == [u \in 0 .. 0 |-> step(0, 0)]
  <2>1. ASSUME NEW u \in 0 .. 0 PROVE w[u] = step(u, w[left(u)])
    <3>1. u = 0
      OBVIOUS
    <3> QED BY <1>4, <3>1
  <2>2. w = [u \in 0 .. 0 |-> w[u]]
    OBVIOUS
  <2> HIDE DEF w
  <2>3. isDigits(w, 0)
    BY <2>1, <2>2
  <2> QED BY <2>3
<1>6. ASSUME NEW k \in 0 .. v, k < v, k \in P PROVE k + 1 \in P
  <2>1. PICK w : isDigits(w, k)
    BY <1>6, Zenon
  <2> DEFINE x == [u \in 0 .. k + 1 |-> IF u = k + 1 THEN step(k + 1, w[left(k + 1)]) ELSE w[u]]
  <2>2. \A u \in 0 .. k : x[u] = w[u] /\ w[u] = step(u, w[left(u)])
    BY <2>1
  <2>3. ASSUME NEW u \in 0 .. k + 1 PROVE x[u] = step(u, x[left(u)])
    <3>1. CASE u = 0
      <4>1. 0 \in 0 .. k
        OBVIOUS
      <4> QED BY <1>4, <2>2, <3>1, <4>1
    <3>2. CASE u > 0
      <4>1. u \in Nat /\ left(u) \in 0 .. k
        BY <1>3, <3>2
      <4>2. x[left(u)] = w[left(u)]
        BY <2>2, <4>1
      <4>3. x[u] = step(u, w[left(u)])
        <5>1. CASE u = k + 1
          BY <5>1
        <5>2. CASE u # k + 1
          <6>1. u \in 0 .. k
            BY <5>2
          <6> QED BY <2>2, <6>1
        <5> QED BY <5>1, <5>2
      <4> QED BY <4>2, <4>3
    <3> QED BY <3>1, <3>2
  <2>4. x = [u \in 0 .. k + 1 |-> x[u]]
    OBVIOUS
  <2> HIDE DEF x
  <2>5. isDigits(x, k + 1)
    BY <2>3, <2>4
  <2> QED BY <2>5
<1> HIDE DEF P
<1>7. v \in P
  <2>1. 0 .. v \subseteq P
    BY <1>5, <1>6, Climb
  <2> QED BY <2>1
<1>8. isDigits(written(v, b), v)
  <2>1. PICK w : isDigits(w, v)
    BY <1>7 DEF P
  <2> HIDE DEF isDigits
  <2> QED BY <1>2, <2>1, Zenon
<1>9. \A u \in 0 .. v : written(v, b)[u] = step(u, written(v, b)[left(u)])
  BY <1>8, Zenon
<1> QED BY <1>9, Zenon DEF step, left

(* s is a number in base b, and reads as u. *)
Writes(s, b, u) ==
  /\ s \in Seq(Nat) /\ s # <<>>
  /\ \A i \in 1 .. Len(s) : s[i] < b
  /\ Digits(s, b) = u

LEMMA NoDigit == \A b \in Nat : Digits(<<>>, b) = 0
<1>1. <<>> \in Seq(Nat) /\ Len(<<>>) = 0
  OBVIOUS
<1> QED BY <1>1, DigitsUnfold DEF Digits

LEMMA OneDigit ==
  ASSUME NEW d \in Nat, NEW b \in Nat
  PROVE  Digits(<<d>>, b) = d
<1>1. <<>> \in Seq(Nat) /\ Append(<<>>, d) = <<d>>
  OBVIOUS
<1>2. Digits(<<>>, b) = 0
  BY NoDigit
<1>3. Digits(<<d>>, b) = Digits(<<>>, b) * b + d
  BY <1>1, DigitsAppend
<1>4. 0 * b + d = d
  OBVIOUS
<1> QED BY <1>2, <1>3, <1>4

(* What is written reads back as the number. *)
LEMMA WrittenReads ==
  ASSUME NEW v \in Nat, NEW b \in Nat, b >= 2
  PROVE  Writes(to_base(v, b), b, v)
<1> DEFINE w == written(v, b)
           P == {k \in Nat : \A u \in 0 .. k : u <= v => Writes(w[u], b, u)}
<1>1. \A u \in 0 .. v : w[u] = IF u < b THEN <<u>> ELSE Append(w[u \div b], u % b)
  BY WrittenUnfold
<1> HIDE DEF w
<1>2. ASSUME NEW u \in 0 .. v, u < b PROVE Writes(w[u], b, u)
  <2>1. w[u] = <<u>> /\ u \in Nat
    <3>1. w[u] = <<u>>
      BY <1>1, <1>2, Zenon
    <3>2. u \in Nat
      OBVIOUS
    <3> QED BY <3>1, <3>2
  <2>2. Digits(<<u>>, b) = u
    BY <2>1, OneDigit
  <2>3. <<u>> \in Seq(Nat) /\ <<u>> # <<>> /\ \A i \in 1 .. Len(<<u>>) : <<u>>[i] < b
    BY <1>2, <2>1
  <2> QED BY <2>1, <2>2, <2>3 DEF Writes
<1>3. ASSUME NEW u \in 0 .. v, ~(u < b), Writes(w[u \div b], b, u \div b)
      PROVE  Writes(w[u], b, u)
  <2> DEFINE q == u \div b
             r == u % b
             s == w[u \div b]
  <2>1. q \in Nat /\ r \in 0 .. b - 1 /\ u = q * b + r
    <3>1. u \in Nat
      OBVIOUS
    <3> QED BY <3>1, Division
  <2>2. w[u] = Append(s, r)
    BY <1>1, <1>3
  <2>3. s \in Seq(Nat) /\ (\A i \in 1 .. Len(s) : s[i] < b) /\ Digits(s, b) = q
    BY <1>3 DEF Writes
  <2> HIDE DEF q, r, s
  <2>4. r \in Nat /\ r < b
    BY <2>1
  <2>5. Digits(Append(s, r), b) = q * b + r
    BY <2>3, <2>4, DigitsAppend
  <2>6. Append(s, r) \in Seq(Nat) /\ Append(s, r) # <<>>
    <3>1. Append(s, r) \in Seq(Nat) /\ Len(Append(s, r)) = Len(s) + 1 /\ Len(s) \in Nat
      BY <2>3, <2>4, AppendProperties
    <3>2. Len(<<>>) = 0
      OBVIOUS
    <3> QED BY <3>1, <3>2
  <2>7. \A i \in 1 .. Len(Append(s, r)) : Append(s, r)[i] < b
    <3>1. Len(Append(s, r)) = Len(s) + 1 /\ Append(s, r)[Len(s) + 1] = r /\ Len(s) \in Nat
          /\ \A i \in 1 .. Len(s) : Append(s, r)[i] = s[i]
      BY <2>3, <2>4
    <3>2. \A i \in 1 .. Len(s) + 1 : i \in 1 .. Len(s) \/ i = Len(s) + 1
      BY <3>1
    <3> QED BY <2>3, <2>4, <3>1, <3>2
  <2> QED BY <2>1, <2>2, <2>5, <2>6, <2>7 DEF Writes
<1>4. 0 \in P
  <2>1. \A u \in 0 .. 0 : u = 0
    OBVIOUS
  <2>2. 0 \in 0 .. v /\ 0 < b
    OBVIOUS
  <2> QED BY <1>2, <2>1, <2>2
<1>5. \A k \in 0 .. v : k < v /\ k \in P => k + 1 \in P
  <2> SUFFICES ASSUME NEW k \in 0 .. v, k < v, k \in P PROVE k + 1 \in P
    OBVIOUS
  <2>1. \A u \in 0 .. k : Writes(w[u], b, u)
    OBVIOUS
  <2>2. ASSUME NEW u \in 0 .. k + 1 PROVE Writes(w[u], b, u)
    <3>1. CASE u \in 0 .. k
      BY <2>1, <3>1
    <3>2. CASE u < b
      BY <1>2, <3>2
    <3>3. CASE ~(u < b) /\ u = k + 1
      <4>1. u \div b \in 0 .. k
        <5>1. u \in Nat /\ u > 0
          BY <3>3
        <5>2. u \div b \in Nat /\ u \div b < u
          BY <5>1, Division
        <5> QED BY <3>3, <5>2
      <4>2. Writes(w[u \div b], b, u \div b)
        BY <2>1, <4>1
      <4>3. u \in 0 .. v
        OBVIOUS
      <4> QED BY <1>3, <3>3, <4>2, <4>3
    <3> QED BY <3>1, <3>2, <3>3
  <2>3. k + 1 \in Nat
    OBVIOUS
  <2> QED BY <2>2, <2>3
<1> HIDE DEF P
<1>6. v \in P
  <2>1. 0 .. v \subseteq P
    BY <1>4, <1>5, Climb
  <2> QED BY <2>1
<1>7. v \in 0 .. v /\ v <= v
  OBVIOUS
<1> QED BY <1>6, <1>7 DEF P, to_base, w

-----------------------------------------------------------------------------
(* The grouped bits *)

LEMMA FunctionIsSequence ==
  ASSUME NEW n \in Nat, NEW S, NEW f \in [1 .. n -> S]
  PROVE  f \in Seq(S) /\ Len(f) = n /\ f = [i \in 1 .. n |-> f[i]]
OBVIOUS

(* u is s, and then t. *)
Joins(u, s, t) ==
  /\ u \in Seq(Nat) /\ Len(u) = Len(s) + Len(t)
  /\ \A i \in 1 .. Len(s) : u[i] = s[i]
  /\ \A k \in 1 .. Len(t) : u[Len(s) + k] = t[k]

LEMMA Joined ==
  ASSUME NEW s \in Seq(Nat), NEW t \in Seq(Nat)
  PROVE  Joins(s \o t, s, t)
<1>1. Len(s) \in Nat /\ Len(t) \in Nat
  OBVIOUS
<1>2. \A k \in 1 .. Len(t) : Len(s) + k \in 1 .. Len(s) + Len(t) /\ (Len(s) + k) - Len(s) = k
  BY <1>1
<1>3. \A i \in 1 .. Len(s) + Len(t) : (s \o t)[i] = IF i <= Len(s) THEN s[i] ELSE t[i - Len(s)]
  OBVIOUS
<1>4. \A k \in 1 .. Len(t) : (s \o t)[Len(s) + k] = t[k]
  BY <1>1, <1>2, <1>3
<1>5. \A i \in 1 .. Len(s) : (s \o t)[i] = s[i]
  BY <1>1, <1>3
<1>6. s \o t \in Seq(Nat) /\ Len(s \o t) = Len(s) + Len(t)
  OBVIOUS
<1> QED BY <1>4, <1>5, <1>6 DEF Joins

(* Zeros in front do not count. *)
LEMMA DigitsPadded ==
  ASSUME NEW s \in Seq(Nat), NEW m \in Nat, NEW z \in Seq(Nat), Len(z) = m,
         \A i \in 1 .. m : z[i] = 0, NEW b \in Nat
  PROVE  Digits(z \o s, b) = Digits(s, b)
<1>0. Joins(z \o s, z, s)
  BY Joined
<1> DEFINE t == z \o s
           n == Len(s)
<1> HIDE DEF t
<1>1. n \in Nat /\ t \in Seq(Nat) /\ Len(t) = m + n
      /\ (\A i \in 1 .. m : t[i] = 0) /\ \A k \in 1 .. n : t[m + k] = s[k]
  BY <1>0 DEF t, Joins
<1> DEFINE times(x) == x * b
           v == valueOf(s, b)
           w == valueOf(t, b)
<1>2. v[0] = 0 /\ \A k \in 1 .. n : v[k] = times(v[k - 1]) + s[k]
  BY DigitsUnfold
<1>3. w[0] = 0 /\ \A k \in 1 .. m + n : w[k] = times(w[k - 1]) + t[k]
  BY <1>1, DigitsUnfold
<1>4. times(0) = 0
  OBVIOUS
<1> HIDE DEF v, w, n, times
<1>5. \A i \in 0 .. m : w[i] = 0
  <2> DEFINE f == [i \in 0 .. m |-> 0]
  <2>1. ASSUME NEW i \in 1 .. m, w[i - 1] = f[i - 1] PROVE w[i] = f[i]
    <3>1. i \in 0 .. m /\ i - 1 \in 0 .. m /\ i \in 1 .. m + n
      BY <1>1
    <3>2. f[i] = 0 /\ f[i - 1] = 0
      BY <3>1
    <3>3. w[i] = times(0) + 0
      BY <1>1, <1>3, <2>1, <3>1, <3>2
    <3> QED BY <1>4, <3>2, <3>3
  <2>2. Alike(w, f, m)
    BY <1>3, <2>1 DEF Alike
  <2>3. \A i \in 0 .. m : w[i] = f[i]
    BY <2>2, LoopsAgree
  <2> QED BY <2>3
<1>6. \A k \in 0 .. n : w[m + k] = v[k]
  <2> DEFINE f == [k \in 0 .. n |-> w[m + k]]
  <2>1. f[0] = v[0]
    <3>1. 0 \in 0 .. n /\ m + 0 = m /\ m \in 0 .. m
      BY <1>1
    <3> QED BY <1>2, <1>5, <3>1
  <2>2. ASSUME NEW k \in 1 .. n, f[k - 1] = v[k - 1] PROVE f[k] = v[k]
    <3>1. k \in 0 .. n /\ k - 1 \in 0 .. n /\ m + k \in 1 .. m + n /\ (m + k) - 1 = m + (k - 1)
      BY <1>1
    <3>2. f[k] = w[m + k] /\ f[k - 1] = w[m + (k - 1)]
      BY <3>1
    <3>3. w[m + k] = times(w[m + (k - 1)]) + t[m + k]
      BY <1>3, <3>1
    <3> QED BY <1>1, <1>2, <2>2, <3>2, <3>3
  <2>3. Alike(f, v, n)
    BY <2>1, <2>2 DEF Alike
  <2>4. \A k \in 0 .. n : f[k] = v[k]
    BY <1>1, <2>3, LoopsAgree
  <2> QED BY <2>4
<1>7. n \in 0 .. n
  BY <1>1
<1>8. Digits(t, b) = w[m + n] /\ Digits(s, b) = v[n]
  BY <1>1 DEF Digits, v, w, n
<1> QED BY <1>6, <1>7, <1>8 DEF t

(* The bits of v in whole nibbles. *)
Nibbles(s, n, v) ==
  /\ n \in Nat \ {0} /\ s \in Seq(Nat) /\ Len(s) = 4 * n
  /\ \A i \in 1 .. Len(s) : s[i] < 2
  /\ Digits(s, 2) = v

LEMMA PaddedBits ==
  ASSUME NEW v \in Nat
  PROVE  Nibbles(pad(to_base(v, 2)), Len(pad(to_base(v, 2))) \div 4, v)
<1> DEFINE s == to_base(v, 2)
           m == (4 - (Len(s) % 4)) % 4
           z == [i \in 1 .. m |-> 0]
           n == Len(pad(s)) \div 4
<1>1. s \in Seq(Nat) /\ s # <<>> /\ (\A i \in 1 .. Len(s) : s[i] < 2) /\ Digits(s, 2) = v
  BY WrittenReads DEF Writes
<1> HIDE DEF s
<1>2. Len(s) \in Nat /\ Len(s) # 0
  BY <1>1, EmptySeq
<1>3. m \in Nat /\ (m + Len(s)) % 4 = 0
  BY <1>2
<1>4. pad(s) = z \o s
  BY DEF pad
<1> HIDE DEF m
<1>5. z \in Seq(Nat) /\ Len(z) = m /\ \A i \in 1 .. m : z[i] = 0
  <2>1. z \in [1 .. m -> Nat]
    OBVIOUS
  <2> QED BY <1>3, <2>1, FunctionIsSequence
<1> HIDE DEF z
<1>6. Digits(pad(s), 2) = v
  <2>1. 2 \in Nat
    OBVIOUS
  <2> QED BY <1>1, <1>3, <1>4, <1>5, <2>1, DigitsPadded
<1>7. pad(s) \in Seq(Nat) /\ Len(pad(s)) = m + Len(s)
      /\ \A i \in 1 .. m + Len(s) : pad(s)[i] = IF i <= m THEN z[i] ELSE s[i - m]
  <2>1. pad(s) \in Seq(Nat) /\ Len(pad(s)) = Len(z) + Len(s)
    BY <1>1, <1>4, <1>5, ConcatProperties
  <2>2. \A i \in 1 .. Len(z) + Len(s) : pad(s)[i] = IF i <= Len(z) THEN z[i] ELSE s[i - Len(z)]
    BY <1>1, <1>4, <1>5, ConcatProperties
  <2> QED BY <1>5, <2>1, <2>2
<1>8. n \in Nat \ {0} /\ Len(pad(s)) = 4 * n
  <2> DEFINE l == Len(s)
  <2>1. l \in Nat /\ l # 0 /\ m \in Nat /\ (m + l) % 4 = 0 /\ Len(pad(s)) = m + l
    BY <1>2, <1>3, <1>7
  <2> HIDE DEF l
  <2> QED BY <2>1
<1>9. \A i \in 1 .. Len(pad(s)) : pad(s)[i] < 2
  <2> SUFFICES ASSUME NEW i \in 1 .. m + Len(s) PROVE pad(s)[i] < 2
    BY <1>7
  <2>1. CASE i <= m
    <3>1. pad(s)[i] = 0
      BY <1>3, <1>5, <1>7, <2>1
    <3> QED BY <3>1
  <2>2. CASE ~(i <= m)
    <3>1. i - m \in 1 .. Len(s)
      BY <1>2, <1>3, <2>2
    <3>2. pad(s)[i] = s[i - m]
      BY <1>7, <2>2
    <3> QED BY <1>1, <3>1, <3>2
  <2> QED BY <2>1, <2>2
<1> QED BY <1>6, <1>7, <1>8, <1>9 DEF Nibbles, s

BitsOf(g) == [j \in 1 .. Len(g) - Len(g) \div 5 |-> g[j + (j - 1) \div 4]]

Groups(g, v) ==
  /\ Digits(BitsOf(g), 2) = v /\ Len(BitsOf(g)) % 4 = 0
  /\ \A i \in 1 .. Len(g) : g[i] = Blank <=> i % 5 = 0

LEMMA GroupedBits ==
  ASSUME NEW v \in Nat
  PROVE  Groups(group_bits(v), v)
<1> DEFINE s == pad(to_base(v, 2))
           n == Len(s) \div 4
           g == [i \in 1 .. Len(s) + n - 1 |-> IF i % 5 = 0 THEN Blank ELSE s[i - (i \div 5)]]
<1>1. n \in Nat \ {0} /\ s \in Seq(Nat) /\ Len(s) = 4 * n /\ (\A i \in 1 .. Len(s) : s[i] < 2)
      /\ Digits(s, 2) = v
  BY PaddedBits DEF Nibbles
<1>2. group_bits(v) = g
  BY DEF group_bits
<1> HIDE DEF s, n
<1>3. Len(s) + n - 1 \in Nat /\ Len(s) + n - 1 = 5 * n - 1
  BY <1>1
<1>4. Len(g) = 5 * n - 1 /\ \A i \in 1 .. 5 * n - 1 : g[i] = IF i % 5 = 0 THEN Blank ELSE s[i - (i \div 5)]
  BY <1>3
<1> HIDE DEF g
<1>5. Len(g) - Len(g) \div 5 = 4 * n
  BY <1>1, <1>4
<1>6. \A j \in 1 .. 4 * n : g[j + (j - 1) \div 4] = s[j]
  <2> SUFFICES ASSUME NEW j \in 1 .. 4 * n PROVE g[j + (j - 1) \div 4] = s[j]
    OBVIOUS
  <2> DEFINE i == j + (j - 1) \div 4
  <2>1. i \in 1 .. 5 * n - 1 /\ i % 5 # 0 /\ i - (i \div 5) = j
    BY <1>1
  <2> HIDE DEF i
  <2>2. g[i] = s[j]
    BY <1>4, <2>1
  <2> QED BY <2>2 DEF i
<1>7. BitsOf(g) = s
  <2>1. BitsOf(g) = [j \in 1 .. 4 * n |-> s[j]]
    BY <1>5, <1>6 DEF BitsOf
  <2>2. s = [j \in 1 .. 4 * n |-> s[j]]
    BY <1>1
  <2> QED BY <2>1, <2>2
<1>8. \A i \in 1 .. Len(g) : g[i] = Blank <=> i % 5 = 0
  <2> SUFFICES ASSUME NEW i \in 1 .. 5 * n - 1, i % 5 # 0 PROVE g[i] # Blank
    BY <1>4
  <2>1. i - (i \div 5) \in 1 .. 4 * n
    BY <1>1
  <2>2. s[i - (i \div 5)] < 2 /\ s[i - (i \div 5)] \in Nat
    BY <1>1, <2>1
  <2>3. g[i] = s[i - (i \div 5)]
    BY <1>4
  <2> QED BY <2>2, <2>3 DEF Blank
<1> QED BY <1>1, <1>2, <1>7, <1>8 DEF Groups

-----------------------------------------------------------------------------
(* The converter *)

(* A text that is no number in base b. *)
IsNoNumber(s, b) ==
  \/ s = <<>> \/ \E i \in 1 .. Len(s) : s[i] >= b
  \/ Digits(s, b) >= ValueSize

LEMMA ParsedNumber ==
  ASSUME NEW s \in Seq(Nat), NEW b \in Nat
  PROVE  /\ parse_base(s, b) # NoValue =>
              parse_base(s, b) \in 0 .. ValueSize - 1 /\ Writes(s, b, parse_base(s, b))
         /\ parse_base(s, b) = NoValue => IsNoNumber(s, b)
<1> DEFINE v == Digits(s, b)
           bad == s = <<>> \/ \E i \in 1 .. Len(s) : s[i] >= b
<1>1. v \in Nat /\ ValueSize \in Nat
  BY DigitsType, RadixType
<1>2. parse_base(s, b) = IF bad THEN NoValue ELSE IF v < ValueSize THEN v ELSE NoValue
  BY DEF parse_base
<1>3. ~bad => s # <<>> /\ \A i \in 1 .. Len(s) : s[i] < b
  <2>1. \A i \in 1 .. Len(s) : s[i] \in Nat
    OBVIOUS
  <2> QED BY <2>1
<1>4. IsNoNumber(s, b) <=> bad \/ v >= ValueSize
  BY DEF IsNoNumber
<1>5. Writes(s, b, v) <=> s # <<>> /\ \A i \in 1 .. Len(s) : s[i] < b
  BY DEF Writes
<1> HIDE DEF v, bad
<1>6. CASE bad
  BY <1>2, <1>4, <1>6
<1>7. CASE ~bad /\ v < ValueSize
  BY <1>1, <1>2, <1>3, <1>5, <1>7 DEF NoValue
<1>8. CASE ~bad /\ ~(v < ValueSize)
  BY <1>1, <1>2, <1>4, <1>8
<1> QED BY <1>6, <1>7, <1>8

LEMMA ShowsWrites ==
  ASSUME NEW f \in Fields
  PROVE  /\ texts \in [Fields -> Seq(Nat)] => (Shows(f) <=> Writes(texts[f], Radix[f], value))
         /\ Unreadable(f) <=> IsNoNumber(texts[f], Radix[f])
BY DEF Shows, Writes, Unreadable, IsNoNumber

(* The fields hold texts, and show the value or nothing. *)
ConverterInv ==
  /\ value \in 0 .. ValueSize - 1
  /\ texts \in [Fields -> Seq(Nat)]
  /\ \A f \in Fields : Writes(texts[f], Radix[f], value) \/ IsNoNumber(texts[f], Radix[f])
  /\ Groups(grouped, value)

LEMMA ConverterStarts == ToolInit => ConverterInv
<1> SUFFICES ASSUME ToolInit PROVE ConverterInv
  OBVIOUS
<1>1. value = 0 /\ texts = [f \in Fields |-> <<0>>] /\ grouped = <<0, 0, 0, 0>>
  BY DEF ToolInit, NumberInit
<1>2. <<0>> \in Seq(Nat)
  OBVIOUS
<1>3. ASSUME NEW f \in Fields PROVE Writes(texts[f], Radix[f], value)
  <2>1. Radix[f] \in Nat /\ Radix[f] >= 2
    BY RadixType
  <2>2. Digits(<<0>>, Radix[f]) = 0
    BY <2>1, OneDigit
  <2>3. <<0>> # <<>> /\ \A i \in 1 .. Len(<<0>>) : <<0>>[i] < Radix[f]
    BY <2>1
  <2> QED BY <1>1, <1>2, <2>2, <2>3 DEF Writes
<1>4. Groups(grouped, value)
  <2> DEFINE g == <<0, 0, 0, 0>>
             z == [j \in 1 .. 4 |-> 0]
  <2>1. Len(g) = 4 /\ \A i \in 1 .. 4 : g[i] = 0
    OBVIOUS
  <2> HIDE DEF g
  <2>2. BitsOf(g) = z
    <3>1. Len(g) - Len(g) \div 5 = 4 /\ \A j \in 1 .. 4 : j + (j - 1) \div 4 \in 1 .. 4
      BY <2>1
    <3> QED BY <2>1, <3>1 DEF BitsOf
  <2>3. z \in Seq(Nat) /\ Len(z) = 4 /\ \A j \in 1 .. 4 : z[j] = 0
    <3>1. z \in [1 .. 4 -> Nat] /\ 4 \in Nat
      OBVIOUS
    <3> QED BY <3>1, FunctionIsSequence
  <2> HIDE DEF z
  <2>4. Digits(z, 2) = 0
    <3>1. <<>> \in Seq(Nat) /\ 4 \in Nat /\ 2 \in Nat /\ z \o <<>> = z
      BY <2>3, ConcatEmptySeq
    <3>2. Digits(z \o <<>>, 2) = Digits(<<>>, 2)
      BY <2>3, <3>1, DigitsPadded
    <3>3. Digits(<<>>, 2) = 0
      BY <3>1, NoDigit
    <3> QED BY <3>1, <3>2, <3>3
  <2>5. \A i \in 1 .. Len(g) : g[i] = Blank <=> i % 5 = 0
    BY <2>1 DEF Blank
  <2>6. Len(z) % 4 = 0
    BY <2>3
  <2>7. Groups(g, 0)
    BY <2>2, <2>4, <2>5, <2>6 DEF Groups
  <2> QED BY <1>1, <2>7 DEF g
<1>5. 0 \in 0 .. ValueSize - 1
  BY RadixType
<1> QED BY <1>1, <1>2, <1>3, <1>4, <1>5 DEF ConverterInv

(* One edit: a text that can be read reaches every field. *)
LEMMA EditReaches ==
  ASSUME ConverterInv, EditField
  PROVE  /\ ConverterInv'
         /\ value' # value => \A g \in Fields : Writes(texts'[g], Radix[g], value')
<1>1. PICK f \in Fields, s \in Texts : update_views(f, s)
  BY DEF EditField
<1>2. s \in Seq(Nat)
  <2>1. Texts \subseteq Seq(Nat)
    BY NumberAssumption, Zenon
  <2> QED BY <2>1
<1>3. \A g \in Fields : Radix[g] \in Nat /\ Radix[g] >= 2
  BY RadixType
<1> DEFINE v == parse_base(s, Radix[f])
<1>4. /\ v # NoValue => v \in 0 .. ValueSize - 1 /\ Writes(s, Radix[f], v)
      /\ v = NoValue => IsNoNumber(s, Radix[f])
  BY <1>2, <1>3, ParsedNumber
<1>5. \/ /\ v = NoValue /\ texts' = [texts EXCEPT ![f] = s]
         /\ value' = value /\ grouped' = grouped
      \/ /\ v # NoValue /\ value' = v
         /\ texts' = [g \in Fields |-> IF g = f THEN s ELSE to_base(v, Radix[g])]
         /\ grouped' = group_bits(v)
  BY <1>1 DEF update_views, update, as
<1> HIDE DEF v
<1>6. CASE v = NoValue
  <2>1. texts' = [texts EXCEPT ![f] = s] /\ value' = value /\ grouped' = grouped
    BY <1>5, <1>6
  <2>2. texts' \in [Fields -> Seq(Nat)]
    BY <1>2, <2>1 DEF ConverterInv
  <2>3. \A g \in Fields : texts'[g] = IF g = f THEN s ELSE texts[g]
    BY <2>1 DEF ConverterInv
  <2>4. \A g \in Fields : Writes(texts'[g], Radix[g], value') \/ IsNoNumber(texts'[g], Radix[g])
    BY <1>4, <1>6, <2>1, <2>3 DEF ConverterInv
  <2> QED BY <2>1, <2>2, <2>4 DEF ConverterInv
<1>7. CASE v # NoValue
  <2>1. v \in 0 .. ValueSize - 1 /\ v \in Nat /\ Writes(s, Radix[f], v)
    <3>1. ValueSize \in Nat
      BY RadixType
    <3> QED BY <1>4, <1>7, <3>1
  <2>2. value' = v /\ grouped' = group_bits(v)
        /\ texts' = [g \in Fields |-> IF g = f THEN s ELSE to_base(v, Radix[g])]
    BY <1>5, <1>7
  <2>3. ASSUME NEW g \in Fields PROVE Writes(texts'[g], Radix[g], v)
    <3>1. CASE g = f
      BY <2>1, <2>2, <3>1
    <3>2. CASE g # f
      <4>1. Writes(to_base(v, Radix[g]), Radix[g], v)
        BY <1>3, <2>1, WrittenReads
      <4> QED BY <2>2, <3>2, <4>1
    <3> QED BY <3>1, <3>2
  <2>4. texts' \in [Fields -> Seq(Nat)]
    <3>1. \A g \in Fields : texts'[g] \in Seq(Nat)
      BY <2>3 DEF Writes
    <3>2. texts' = [g \in Fields |-> texts'[g]]
      BY <2>2
    <3> QED BY <3>1, <3>2
  <2>5. Groups(grouped', value')
    BY <2>1, <2>2, GroupedBits
  <2> QED BY <2>1, <2>2, <2>3, <2>4, <2>5 DEF ConverterInv
<1> QED BY <1>6, <1>7

LEMMA ConverterStep == ConverterInv /\ [ToolNext]_toolVars => ConverterInv'
<1> SUFFICES ASSUME ConverterInv, [ToolNext]_toolVars PROVE ConverterInv'
  OBVIOUS
<1>1. CASE EditField
  BY <1>1, EditReaches
<1>2. CASE UNCHANGED <<value, texts, grouped>>
  BY <1>2 DEF ConverterInv
<1> QED BY <1>1, <1>2 DEF ToolNext, toolVars, numberVars, AddHexLine

LEMMA ConverterAgrees == ConverterInv => FieldsAgree /\ BitsAgree
<1> SUFFICES ASSUME ConverterInv PROVE FieldsAgree /\ BitsAgree
  OBVIOUS
<1>1. \A f \in Fields : Shows(f) \/ Unreadable(f)
  BY ShowsWrites DEF ConverterInv
<1>2. BitsAgree
  BY DEF ConverterInv, Groups, BitsOf, BitsAgree
<1> QED BY <1>1, <1>2 DEF ConverterInv, FieldsAgree

(* In every radix and for values of every size, the fields and the bits    *)
(* show one number, and an edit that changes it reaches every field:       *)
(* parse_base(), the format functions and update_views.                    *)
THEOREM ConverterShowsOneNumber ==
  ToolSpec => ConverterFollowsEdits
<1>1. ConverterInv /\ [ToolNext]_toolVars =>
        [value' # value => \A f \in Fields : Shows(f)']_numberVars
  <2> SUFFICES ASSUME ConverterInv, [ToolNext]_toolVars, value' # value,
                      NEW f \in Fields
               PROVE  Shows(f)'
    OBVIOUS
  <2>1. EditField
    BY DEF ToolNext, toolVars, numberVars, AddHexLine
  <2>2. Writes(texts'[f], Radix[f], value')
    BY <2>1, EditReaches
  <2> QED BY <2>2 DEF Shows, Writes
<1> QED BY <1>1, ConverterStarts, ConverterStep, ConverterAgrees, PTL
        DEF ToolSpec, ConverterFollowsEdits, EditsReachAllFields

-----------------------------------------------------------------------------
(* Immediates *)

LEMMA AsmSizes ==
  /\ ImmSize \in Nat \ {0} /\ JumpSize \in Nat \ {0} /\ ShamtSize \in Nat \ {0} /\ IntSize \in Nat \ {0}
  /\ ImmSize % 2 = 0 /\ IntSize % 2 = 0
  /\ 2 * ImmSize <= IntSize /\ 2 * JumpSize <= IntSize /\ 2 * ShamtSize <= IntSize
  /\ Registers \subseteq Nat /\ 0 \in Registers
  /\ \A l \in SourceLines : l.mnemonic \in STRING /\ l.operands \in Seq(Tokens)
<1>1. /\ {ImmSize, JumpSize, ShamtSize, IntSize} \subseteq Nat \ {0}
      /\ ImmSize % 2 = 0 /\ IntSize % 2 = 0
      /\ \A size \in {ImmSize, JumpSize, ShamtSize} : 2 * size <= IntSize
  BY AssemblerAssumption, Zenon
<1>2. /\ Registers \subseteq Nat /\ 0 \in Registers
      /\ \A l \in SourceLines : l.mnemonic \in STRING /\ l.operands \in Seq(Tokens)
  BY AssemblerAssumption, Zenon
<1> QED BY <1>1, <1>2

LEMMA ModIs ==
  ASSUME NEW m \in Nat \ {0}, NEW v \in Int, NEW q \in Int, NEW r \in Int,
         v = m * q + r, 0 <= r, r < m
  PROVE  v % m = r
<1> DEFINE d == v \div m
           e == v % m
<1>1. d \in Int /\ e \in 0 .. m - 1 /\ v = m * d + e
  OBVIOUS
<1> HIDE DEF d, e
<1>2. m * (q - d) = e - r
  <2>1. m * (q - d) = m * q - m * d
    BY <1>1
  <2> QED BY <1>1, <2>1
<1>3. q - d \in Int /\ e - r < m /\ 0 - m < e - r
  BY <1>1
<1>4. q - d = 0
  <2> DEFINE k == q - d
  <2>1. k \in Int /\ m * k < m /\ 0 - m < m * k
    BY <1>2, <1>3
  <2> HIDE DEF k
  <2>2. k < 1
    <3>1. k >= 1 => m * k >= m
      BY <2>1
    <3> QED BY <2>1, <3>1
  <2>3. k > -1
    <3>1. k <= -1 => m * k <= 0 - m
      BY <2>1
    <3> QED BY <2>1, <3>1
  <2>4. k = 0
    BY <2>1, <2>2, <2>3
  <2> QED BY <2>4 DEF k
<1>5. m * (q - d) = 0
  BY <1>4
<1>6. e = r
  BY <1>1, <1>2, <1>5
<1> QED BY <1>6 DEF e

(* One turn below and above nothing is what it is. *)
LEMMA ModNear ==
  ASSUME NEW m \in Nat \ {0}
  PROVE  /\ \A v \in 0 .. m - 1 : v % m = v
         /\ \A v \in -m .. -1 : v % m = v + m
         /\ 0 % m = 0 /\ m % m = 0 /\ (0 - m) % m = 0
<1>1. \A v, q, r \in Int : v = m * q + r /\ 0 <= r /\ r < m => v % m = r
  BY ModIs
<1>2. \A v \in 0 .. m - 1 : v % m = v
  <2> SUFFICES ASSUME NEW v \in 0 .. m - 1 PROVE v % m = v
    OBVIOUS
  <2>1. v = m * 0 + v /\ v \in Int /\ 0 \in Int
    OBVIOUS
  <2> QED BY <1>1, <2>1
<1>3. \A v \in -m .. -1 : v % m = v + m
  <2> SUFFICES ASSUME NEW v \in -m .. -1 PROVE v % m = v + m
    OBVIOUS
  <2>1. v = m * (-1) + (v + m) /\ v \in Int /\ -1 \in Int /\ v + m \in Int /\ 0 <= v + m /\ v + m < m
    OBVIOUS
  <2> QED BY <1>1, <2>1
<1>4. m % m = 0
  <2>1. m = m * 1 + 0 /\ m \in Int /\ 1 \in Int /\ 0 \in Int
    OBVIOUS
  <2> QED BY <1>1, <2>1
<1>5. (0 - m) % m = 0 /\ 0 % m = 0
  <2>1. 0 - m \in -m .. -1 /\ (0 - m) + m = 0 /\ 0 \in 0 .. m - 1
    OBVIOUS
  <2> QED BY <1>2, <1>3, <2>1
<1> QED BY <1>2, <1>3, <1>4, <1>5

(* Numbers that agree modulo m and lie less than m apart are the same. *)
LEMMA ModApart ==
  ASSUME NEW m \in Nat \ {0}, NEW v \in Int, v % m = 0, 0 - m < v, v < m
  PROVE  v = 0
<1>1. CASE v \in 0 .. m - 1
  BY <1>1, ModNear
<1>2. CASE v \in -m .. -1
  <2>1. v % m = v + m
    BY <1>2, ModNear
  <2> QED BY <1>2, <2>1
<1> QED BY <1>1, <1>2

LEMMA SignedType ==
  ASSUME NEW v \in Int, NEW m \in Nat \ {0}, m % 2 = 0
  PROVE  /\ m \div 2 \in Nat /\ 2 * (m \div 2) = m
         /\ Signed(v, m) \in -(m \div 2) .. m \div 2 - 1
<1>1. m \div 2 \in Nat /\ 2 * (m \div 2) = m
  OBVIOUS
<1> DEFINE u == v % m
           h == m \div 2
<1>2. u \in 0 .. m - 1
  OBVIOUS
<1>3. Signed(v, m) = IF u >= h THEN u - m ELSE u
  BY DEF Signed
<1> HIDE DEF u, h
<1>4. h \in Nat /\ 2 * h = m
  BY <1>1 DEF h
<1>5. Signed(v, m) \in -h .. h - 1
  BY <1>2, <1>3, <1>4
<1> QED BY <1>1, <1>5 DEF h

(* A number in the signed range is what its low bits, extended, say. *)
LEMMA SignedNear ==
  ASSUME NEW m \in Nat \ {0}, m % 2 = 0, NEW v \in -(m \div 2) .. m \div 2 - 1
  PROVE  /\ Signed(v, m) = v /\ Signed(v % m, m) = v /\ v % m \in 0 .. m - 1
<1> DEFINE h == m \div 2
<1>1. h \in Nat /\ 2 * h = m /\ v \in -h .. h - 1
  OBVIOUS
<1>2. Signed(v, m) = (IF v % m >= h THEN (v % m) - m ELSE v % m)
      /\ Signed(v % m, m) = (IF (v % m) % m >= h THEN ((v % m) % m) - m ELSE (v % m) % m)
  BY DEF Signed
<1>3. CASE v >= 0
  <2>1. v \in 0 .. m - 1
    BY <1>1, <1>3
  <2>2. v % m = v
    BY <2>1, ModNear
  <2> HIDE DEF h
  <2> QED BY <1>1, <1>2, <2>1, <2>2
<1>4. CASE v < 0
  <2>1. v \in -m .. -1 /\ v + m \in 0 .. m - 1 /\ v + m >= h
    BY <1>1, <1>4
  <2>2. v % m = v + m /\ (v + m) % m = v + m
    BY <2>1, ModNear
  <2> HIDE DEF h
  <2> QED BY <1>1, <1>2, <2>1, <2>2
<1> QED BY <1>3, <1>4

(* The number a token stands for. *)
Meant(t) == IF t.neg THEN 0 - t.n ELSE t.n

(* What parse_imm() makes of a token it takes: the number meant, or one    *)
(* that differs from it by the size of an integer.                         *)
LEMMA ParsedImmediate ==
  ASSUME NEW t \in Tokens, parses_imm(t)
  PROVE  /\ Meant(t) \in Int
         /\ parse_imm(t) \in -(IntSize \div 2) .. IntSize \div 2 - 1
         /\ parse_imm(t) - Meant(t) \in {0, IntSize, 0 - IntSize}
<1> DEFINE N == IntSize
           h == N \div 2
           val == Signed(t.n, N)
<1>1. N \in Nat \ {0} /\ N % 2 = 0
  BY AsmSizes
<1>2. h \in Nat /\ 2 * h = N
  BY <1>1
<1>3. t \in Numerals
  BY DEF Tokens, parses_imm
<1>4. t.n \in Nat /\ t.neg \in BOOLEAN /\ t.hex \in BOOLEAN
  BY <1>3 DEF Numerals
<1>5. t.n < N
  BY <1>2, <1>4 DEF parses_imm
<1>6. Meant(t) = IF t.neg THEN 0 - t.n ELSE t.n
  BY DEF Meant
<1>7. parse_imm(t) = IF t.neg THEN Signed(0 - val, N) ELSE val
  BY DEF parse_imm
<1>8. val \in -h .. h - 1 /\ val = IF t.n < h THEN t.n ELSE t.n - N
  <2>1. t.n \in 0 .. N - 1
    BY <1>4, <1>5, <1>1
  <2>2. t.n % N = t.n
    BY <1>1, <2>1, ModNear
  <2>3. val = IF t.n >= h THEN t.n - N ELSE t.n
    BY <2>2 DEF Signed
  <2> HIDE DEF N, h, val
  <2> QED BY <1>2, <1>4, <1>5, <2>3
<1>9. Signed(0 - val, N) = IF val = 0 - h THEN 0 - h ELSE 0 - val
  <2>1. CASE val = 0 - h
    <3>1. 0 - val = h /\ h \in 0 .. N - 1
      BY <1>1, <1>2, <2>1
    <3>2. h % N = h
      BY <1>1, <3>1, ModNear
    <3>3. Signed(h, N) = h - N
      <4>1. Signed(h, N) = IF h % N >= h THEN (h % N) - N ELSE h % N
        BY DEF Signed
      <4> HIDE DEF h, N
      <4>2. h >= h
        BY <1>2
      <4> QED BY <3>2, <4>1, <4>2
    <3> HIDE DEF N, h, val
    <3>4. Signed(0 - val, N) = h - N
      BY <3>1, <3>3
    <3> QED BY <1>1, <1>2, <2>1, <3>4
  <2>2. CASE val # 0 - h
    <3>1. 0 - val \in -h .. h - 1
      BY <1>2, <1>8, <2>2
    <3>2. \A x \in -(N \div 2) .. N \div 2 - 1 : Signed(x, N) = x
      BY <1>1, SignedNear
    <3> QED BY <2>2, <3>1, <3>2
  <2> QED BY <2>1, <2>2
<1> HIDE DEF N, h, val
<1>10. parse_imm(t) \in -h .. h - 1
  BY <1>2, <1>7, <1>8, <1>9
<1>11. parse_imm(t) - Meant(t) \in {0, N, 0 - N}
  <2>1. CASE t.neg
    <3>1. parse_imm(t) = (IF val = 0 - h THEN 0 - h ELSE 0 - val) /\ Meant(t) = 0 - t.n
      BY <1>6, <1>7, <1>9, <2>1
    <3> QED BY <1>1, <1>2, <1>4, <1>5, <1>8, <3>1
  <2>2. CASE ~t.neg
    <3>1. parse_imm(t) = val /\ Meant(t) = t.n
      BY <1>6, <1>7, <2>2
    <3> QED BY <1>1, <1>2, <1>4, <1>5, <1>8, <3>1
  <2> QED BY <2>1, <2>2
<1>12. Meant(t) \in Int
  BY <1>4, <1>6
<1> QED BY <1>10, <1>11, <1>12 DEF N, h

-----------------------------------------------------------------------------
(* Lines of code and labels *)

LEMMA CollectedUnfold ==
  ASSUME NEW src \in Seq(SourceLines)
  PROVE  /\ collected(src) \in [0 .. Len(src) -> Seq(SourceLines)]
         /\ collected(src)[0] = <<>>
         /\ \A i \in 1 .. Len(src) :
              collected(src)[i] = IF has_instruction(src[i]) THEN Append(collected(src)[i - 1], src[i])
                                  ELSE collected(src)[i - 1]
<1> DEFINE n == Len(src)
           Taken == Seq(SourceLines)
           turn(i, s) == IF has_instruction(src[i]) THEN Append(s, src[i]) ELSE s
           loop(w) == w = [i \in 0 .. n |-> IF i = 0 THEN <<>> ELSE turn(i, w[i - 1])]
           next == [i \in 1 .. n |-> [s \in Taken |-> turn(i, s)]]
<1>1. n \in Nat /\ <<>> \in Taken /\ \A i \in 1 .. n : src[i] \in SourceLines
  OBVIOUS
<1>2. collected(src) = CHOOSE w : loop(w)
  <2>1. collected(src) = CHOOSE w : w = [i \in 0 .. Len(src) |->
          IF i = 0 THEN <<>>
          ELSE IF has_instruction(src[i]) THEN Append(w[i - 1], src[i]) ELSE w[i - 1]]
    BY Zenon DEF collected
  <2> QED BY <2>1, Zenon
<1>3. \A i \in 1 .. n : \A s \in Taken : turn(i, s) \in Taken
  <2> SUFFICES ASSUME NEW i \in 1 .. n, NEW s \in Taken PROVE turn(i, s) \in Taken
    OBVIOUS
  <2>1. src[i] \in SourceLines
    BY <1>1
  <2>2. Append(s, src[i]) \in Taken
    BY <2>1
  <2> QED BY <2>2
<1> HIDE DEF n, turn, Taken
<1>4. next \in [1 .. n -> [Taken -> Taken]]
      /\ \A i \in 1 .. n : \A s \in Taken : next[i][s] = turn(i, s)
  <2>1. \A i \in 1 .. n : [s \in Taken |-> turn(i, s)] \in [Taken -> Taken]
    BY <1>3
  <2>2. \A i \in 1 .. n : next[i] = [s \in Taken |-> turn(i, s)]
    OBVIOUS
  <2>3. next \in [1 .. n -> [Taken -> Taken]]
    BY <2>1
  <2> HIDE DEF next
  <2> QED BY <2>2, <2>3
<1> HIDE DEF next
<1>5. PICK g \in [0 .. n -> Taken] : g[0] = <<>> /\ \A i \in 1 .. n : g[i] = next[i][g[i - 1]]
  <2>1. Loop(n, Taken, <<>>, next)
    BY <1>1, <1>4 DEF Loop
  <2> QED BY <2>1, LoopExists
<1>6. \A i \in 1 .. n : g[i] = turn(i, g[i - 1])
  <2> SUFFICES ASSUME NEW i \in 1 .. n PROVE g[i] = turn(i, g[i - 1])
    OBVIOUS
  <2>1. g[i - 1] \in Taken
    BY <1>1, <1>5
  <2>2. \A s \in Taken : next[i][s] = turn(i, s)
    BY <1>4
  <2> QED BY <1>5, <2>1, <2>2
<1>7. loop(g)
  <2>1. ASSUME NEW i \in 0 .. n PROVE g[i] = IF i = 0 THEN <<>> ELSE turn(i, g[i - 1])
    <3>1. i = 0 \/ i \in 1 .. n
      BY <1>1
    <3>2. \A j \in 1 .. n : j # 0
      OBVIOUS
    <3> QED BY <1>5, <1>6, <3>1, <3>2
  <2>2. g = [i \in 0 .. n |-> g[i]]
    BY <1>5
  <2> QED BY <2>1, <2>2
<1> DEFINE w == collected(src)
<1>8. loop(w)
  <2> HIDE DEF loop
  <2> QED BY <1>2, <1>7, Zenon
<1> HIDE DEF w
<1>9. w[0] = <<>> /\ \A i \in 1 .. n : w[i] = turn(i, w[i - 1])
  BY <1>1, <1>8
<1>10. \A i \in 0 .. n : w[i] = g[i]
  <2>1. Alike(w, g, n)
    BY <1>5, <1>6, <1>9 DEF Alike
  <2> QED BY <1>1, <2>1, LoopsAgree
<1>11. w \in [0 .. n -> Taken]
  BY <1>5, <1>8, <1>10
<1> QED BY <1>9, <1>11 DEF w, n, turn, Taken

(* How many lines of code the first i lines have, counted and collected. *)
LEMMA CodeCounted ==
  ASSUME NEW src \in Seq(SourceLines)
  PROVE  \A i \in 0 .. Len(src) : instructionsBefore(src, i + 1) = Len(collected(src)[i])
<1> DEFINE n == Len(src)
           w == collected(src)
           code(i) == {j \in 1 .. i : has_instruction(src[j])}
           P == {i \in Nat : IsFiniteSet(code(i)) /\ Cardinality(code(i)) = Len(w[i])}
<1>1. n \in Nat
  OBVIOUS
<1>2. /\ w \in [0 .. n -> Seq(SourceLines)] /\ w[0] = <<>>
      /\ \A i \in 1 .. n : w[i] = IF has_instruction(src[i]) THEN Append(w[i - 1], src[i]) ELSE w[i - 1]
  BY CollectedUnfold
<1> HIDE DEF w
<1>3. 0 \in P
  <2>1. code(0) = {}
    OBVIOUS
  <2>2. IsFiniteSet(code(0)) /\ Cardinality(code(0)) = 0
    BY <2>1, FS_EmptySet
  <2>3. Len(w[0]) = 0
    BY <1>2
  <2> HIDE DEF code
  <2> QED BY <2>2, <2>3
<1>4. \A i \in 0 .. n : i < n /\ i \in P => i + 1 \in P
  <2> SUFFICES ASSUME NEW i \in 0 .. n, i < n, i \in P PROVE i + 1 \in P
    OBVIOUS
  <2>1. i \in Nat /\ i + 1 \in 1 .. n /\ (i + 1) - 1 = i /\ i + 1 \in Nat
    BY <1>1
  <2>2. IsFiniteSet(code(i)) /\ Cardinality(code(i)) = Len(w[i])
    OBVIOUS
  <2>3. w[i] \in Seq(SourceLines) /\ Len(w[i]) \in Nat
    BY <1>2
  <2>4. CASE has_instruction(src[i + 1])
    <3>1. code(i + 1) = code(i) \cup {i + 1} /\ i + 1 \notin code(i)
      BY <2>1, <2>4
    <3>2. IsFiniteSet(code(i + 1)) /\ Cardinality(code(i + 1)) = Cardinality(code(i)) + 1
      <4> DEFINE old == code(i)
                 new == code(i + 1)
      <4>1. IsFiniteSet(old) /\ new = old \cup {i + 1} /\ i + 1 \notin old
        BY <2>2, <3>1
      <4> HIDE DEF old, new
      <4>2. IsFiniteSet(new) /\ Cardinality(new) = Cardinality(old) + 1
        BY <4>1, FS_AddElement
      <4> QED BY <4>2 DEF old, new
    <3>3. w[i + 1] = Append(w[i], src[i + 1])
      BY <1>2, <2>1, <2>4
    <3>4. Len(w[i + 1]) = Len(w[i]) + 1
      <4>1. src[i + 1] \in SourceLines
        BY <2>1
      <4> QED BY <2>3, <3>3, <4>1
    <3> HIDE DEF code
    <3> QED BY <2>1, <2>2, <3>2, <3>4
  <2>5. CASE ~has_instruction(src[i + 1])
    <3>1. code(i + 1) = code(i)
      BY <2>1, <2>5
    <3>2. w[i + 1] = w[i]
      BY <1>2, <2>1, <2>5
    <3> HIDE DEF code
    <3> QED BY <2>1, <2>2, <3>1, <3>2
  <2> QED BY <2>4, <2>5
<1> HIDE DEF P
<1>5. 0 .. n \subseteq P
  BY <1>1, <1>3, <1>4, Climb
<1>6. ASSUME NEW i \in 0 .. n PROVE instructionsBefore(src, i + 1) = Len(w[i])
  <2>1. (i + 1) - 1 = i
    OBVIOUS
  <2>2. instructionsBefore(src, i + 1) = Cardinality(code(i))
    BY <2>1, Zenon DEF instructionsBefore
  <2>3. i \in P
    BY <1>5
  <2> QED BY <2>2, <2>3 DEF P
<1> QED BY <1>6 DEF w

(* The lines of code of a source, and how many there are before each line. *)
LEMMA CodeGrows ==
  ASSUME NEW src \in Seq(SourceLines)
  PROVE  /\ lines(src) \in Seq(SourceLines)
         /\ \A i \in 0 .. Len(src) : Len(collected(src)[i]) \in Nat
         /\ \A i \in 1 .. Len(src) : Len(collected(src)[i]) =
              Len(collected(src)[i - 1]) + (IF has_instruction(src[i]) THEN 1 ELSE 0)
         /\ \A i \in 0 .. Len(src) : \A j \in 0 .. i :
              Len(collected(src)[j]) <= Len(collected(src)[i])
<1> DEFINE n == Len(src)
           w == collected(src)
           c(i) == Len(w[i])
<1>1. n \in Nat /\ n \in 0 .. n /\ \A i \in 1 .. n : src[i] \in SourceLines
  OBVIOUS
<1>2. /\ w \in [0 .. n -> Seq(SourceLines)] /\ w[0] = <<>>
      /\ \A i \in 1 .. n : w[i] = IF has_instruction(src[i]) THEN Append(w[i - 1], src[i]) ELSE w[i - 1]
  BY CollectedUnfold
<1>3. lines(src) = w[n]
  BY DEF lines
<1> HIDE DEF w, n
<1>4. \A i \in 0 .. n : w[i] \in Seq(SourceLines) /\ c(i) \in Nat
  BY <1>2
<1>5. \A i \in 1 .. n : c(i) = c(i - 1) + (IF has_instruction(src[i]) THEN 1 ELSE 0)
  <2> SUFFICES ASSUME NEW i \in 1 .. n
               PROVE  c(i) = c(i - 1) + (IF has_instruction(src[i]) THEN 1 ELSE 0)
    OBVIOUS
  <2>1. i - 1 \in 0 .. n
    BY <1>1
  <2>2. w[i - 1] \in Seq(SourceLines) /\ src[i] \in SourceLines /\ c(i - 1) \in Nat
    BY <1>1, <1>4, <2>1
  <2>3. CASE has_instruction(src[i])
    <3>1. w[i] = Append(w[i - 1], src[i])
      BY <1>2, <2>3
    <3>2. Len(Append(w[i - 1], src[i])) = Len(w[i - 1]) + 1
      BY <2>2
    <3> QED BY <2>3, <3>1, <3>2
  <2>4. CASE ~has_instruction(src[i])
    <3>1. w[i] = w[i - 1]
      BY <1>2, <2>4
    <3> HIDE DEF c
    <3>2. c(i) = c(i - 1)
      BY <3>1 DEF c
    <3> QED BY <2>2, <2>4, <3>2
  <2> QED BY <2>3, <2>4
<1> HIDE DEF c
<1>6. \A i \in 0 .. n : \A j \in 0 .. i : c(j) <= c(i)
  <2> SUFFICES ASSUME NEW j \in 0 .. n PROVE \A i \in 0 .. n : j <= i => c(j) <= c(i)
    <3>1. \A i \in 0 .. n : \A k \in 0 .. i : k \in 0 .. n /\ k <= i
      BY <1>1
    <3> QED BY <3>1
  <2> DEFINE P == {i \in Nat : i <= n /\ j <= i => c(j) <= c(i)}
  <2>1. 0 \in P
    BY <1>1, <1>4
  <2>2. \A i \in 0 .. n : i < n /\ i \in P => i + 1 \in P
    <3> SUFFICES ASSUME NEW i \in 0 .. n, i < n, i \in P PROVE i + 1 \in P
      OBVIOUS
    <3>1. i + 1 \in 1 .. n /\ (i + 1) - 1 = i /\ i + 1 \in Nat /\ i <= n /\ i + 1 \in 0 .. n
      BY <1>1
    <3>2. c(i + 1) \in Nat /\ c(i) \in Nat /\ c(j) \in Nat
      BY <1>4, <3>1
    <3>3. c(i) <= c(i + 1)
      BY <1>5, <3>1, <3>2
    <3>4. CASE j <= i
      BY <3>1, <3>2, <3>3, <3>4
    <3>5. CASE ~(j <= i)
      <4>1. j <= i + 1 => j = i + 1
        BY <1>1, <3>5
      <4> QED BY <3>1, <3>2, <4>1
    <3> QED BY <3>4, <3>5
  <2> HIDE DEF P
  <2>3. 0 .. n \subseteq P
    BY <1>1, <2>1, <2>2, Climb
  <2>4. \A i \in 0 .. n : i \in P /\ i <= n
    BY <1>1, <2>3
  <2> QED BY <2>4 DEF P
<1> QED BY <1>1, <1>3, <1>4, <1>5, <1>6 DEF c, w, n

LEMMA LastDefinition ==
  ASSUME NEW src \in Seq(SourceLines), NEW t, definitions(src, t) # {}
  PROVE  lastDefinition(src, t) \in 1 .. Len(src)
<1> DEFINE D == definitions(src, t)
<1>1. Len(src) \in Nat /\ D \subseteq 1 .. Len(src)
  BY DEF definitions
<1>2. \E i \in D : \A j \in D : j <= i
  <2>1. D \in SUBSET (0 .. Len(src))
    BY <1>1
  <2> QED BY <1>1, <2>1, Largest
<1>3. lastDefinition(src, t) \in D
  BY <1>2, Zenon DEF lastDefinition
<1> QED BY <1>1, <1>3

(* A label's word index is the one a reader expects. *)
LEMMA LabelsPoint ==
  ASSUME NEW src \in Seq(SourceLines), NEW t, definitions(src, t) # {}
  PROVE  /\ labelIndex(src, t) = InstructionAt(src, t)
         /\ labelIndex(src, t) \in 0 .. Len(lines(src))
<1> DEFINE n == Len(src)
           w == collected(src)
           c(i) == Len(w[i])
           L == lastDefinition(src, t)
           here(k) == \E i \in L .. n : has_instruction(src[i]) /\ instructionsBefore(src, i) = k
           ahead == {k \in 0 .. Len(lines(src)) : k = Len(lines(src)) \/ here(k)}
           k0 == c(L - 1)
<1>1. L \in 1 .. n /\ n \in Nat
  BY LastDefinition
<1>2. labelIndex(src, t) = k0
  BY DEF labelIndex
<1>3. InstructionAt(src, t) = CHOOSE k \in ahead : \A m \in ahead : k <= m
  BY Zenon DEF InstructionAt
<1>4. Len(lines(src)) = c(n)
  BY DEF lines
<1>5. /\ \A i \in 0 .. n : c(i) \in Nat
      /\ \A i \in 1 .. n : c(i) = c(i - 1) + (IF has_instruction(src[i]) THEN 1 ELSE 0)
      /\ \A i \in 0 .. n : \A j \in 0 .. i : c(j) <= c(i)
  BY CodeGrows
<1>6. \A i \in 1 .. n : instructionsBefore(src, i) = c(i - 1)
  <2>1. \A i \in 0 .. n : instructionsBefore(src, i + 1) = c(i)
    BY CodeCounted
  <2> HIDE DEF c
  <2>2. \A i \in 1 .. n : i - 1 \in 0 .. n /\ (i - 1) + 1 = i
    BY <1>1
  <2> QED BY <2>1, <2>2
<1> HIDE DEF c, w, L, n
<1>7. L - 1 \in 0 .. n /\ n \in 0 .. n /\ k0 \in Nat /\ c(n) \in Nat /\ k0 <= c(n)
  <2>1. L - 1 \in 0 .. n /\ n \in 0 .. n
    BY <1>1
  <2> QED BY <1>5, <2>1
<1>8. k0 \in ahead
  <2> DEFINE P == {i \in Nat : L - 1 <= i /\ i <= n => (c(i) = k0 \/ here(k0))}
  <2>1. 0 \in P
    <3>1. CASE L - 1 = 0
      BY <3>1
    <3>2. CASE L - 1 # 0
      BY <1>1, <3>2
    <3> QED BY <3>1, <3>2
  <2>2. \A i \in 0 .. n : i < n /\ i \in P => i + 1 \in P
    <3> SUFFICES ASSUME NEW i \in 0 .. n, i < n, i \in P, L - 1 <= i + 1, i + 1 <= n, ~here(k0)
                 PROVE  c(i + 1) = k0
      BY <1>1
    <3>1. i + 1 \in 1 .. n /\ (i + 1) - 1 = i
      BY <1>1
    <3>2. CASE i + 1 = L - 1
      BY <3>2
    <3>3. CASE i + 1 # L - 1
      <4>1. i \in Nat /\ L - 1 <= i /\ i <= n /\ i + 1 \in L .. n
        BY <1>1, <3>1, <3>3
      <4>2. c(i) = k0
        <5> HIDE DEF here, k0
        <5> QED BY <4>1
      <4>3. ~has_instruction(src[i + 1])
        <5>1. instructionsBefore(src, i + 1) = c(i)
          BY <1>6, <3>1
        <5> QED BY <4>1, <4>2, <5>1
      <4>4. c(i + 1) = c(i) + 0
        BY <1>5, <3>1, <4>3
      <4> QED BY <1>7, <4>2, <4>4
    <3> QED BY <3>2, <3>3
  <2> HIDE DEF P
  <2>3. 0 .. n \subseteq P
    BY <1>1, <2>1, <2>2, Climb
  <2>4. n \in P /\ L - 1 <= n
    BY <1>1, <1>7, <2>3
  <2>5. c(n) = k0 \/ here(k0)
    BY <2>4 DEF P
  <2> HIDE DEF k0, here
  <2>6. k0 \in 0 .. Len(lines(src))
    BY <1>4, <1>7
  <2> QED BY <1>4, <2>5, <2>6
<1>9. \A m \in ahead : k0 <= m /\ m \in Nat
  <2> SUFFICES ASSUME NEW m \in ahead PROVE k0 <= m /\ m \in Nat
    OBVIOUS
  <2>1. m \in Nat
    BY <1>4, <1>7
  <2>2. CASE m = Len(lines(src))
    BY <1>4, <1>7, <2>2
  <2>3. CASE here(m)
    <3>1. PICK i \in L .. n : has_instruction(src[i]) /\ instructionsBefore(src, i) = m
      BY <2>3
    <3>2. i \in 1 .. n /\ i - 1 \in 0 .. n /\ L - 1 \in 0 .. i - 1
      BY <1>1
    <3>3. m = c(i - 1)
      BY <1>6, <3>1, <3>2
    <3> QED BY <1>5, <2>1, <3>2, <3>3
  <2> QED BY <2>2, <2>3
<1> HIDE DEF ahead, k0
<1>10. InstructionAt(src, t) = k0
  <2> DEFINE k1 == CHOOSE k \in ahead : \A m \in ahead : k <= m
  <2>1. \E k \in ahead : \A m \in ahead : k <= m
    BY <1>8, <1>9
  <2>2. k1 \in ahead /\ \A m \in ahead : k1 <= m
    BY <2>1, Zenon
  <2> HIDE DEF k1
  <2>3. k1 <= k0 /\ k0 <= k1 /\ k1 \in Nat /\ k0 \in Nat
    BY <1>8, <1>9, <2>2
  <2>4. k1 = k0
    BY <2>3
  <2> QED BY <1>3, <2>4 DEF k1
<1>11. k0 \in 0 .. Len(lines(src))
  BY <1>4, <1>7
<1> QED BY <1>2, <1>10, <1>11

LEMMA Multiples ==
  ASSUME NEW m \in Nat \ {0}, NEW q \in Int
  PROVE  (m * q) % m = 0
<1>1. m * q = m * q + 0 /\ m * q \in Int /\ 0 < m
  OBVIOUS
<1> QED BY <1>1, ModIs

(* Only one number that an integer holds agrees with what a token means.   *)
LEMMA SameNumber ==
  ASSUME NEW t \in Tokens, parses_imm(t), NEW s \in Int,
         0 - IntSize < 2 * s + 1, 2 * s < IntSize, (s - Meant(t)) % IntSize = 0
  PROVE  parse_imm(t) = s
<1> DEFINE N == IntSize
           h == N \div 2
           p == parse_imm(t)
           x == s - Meant(t)
           e == p - Meant(t)
           d == x \div N
<1>1. N \in Nat \ {0} /\ N % 2 = 0
  BY AsmSizes
<1>2. h \in Nat /\ 2 * h = N
  BY <1>1
<1>3. Meant(t) \in Int /\ p \in -h .. h - 1 /\ e \in {0, N, 0 - N}
  BY ParsedImmediate
<1>4. x \in Int /\ x % N = 0
  <2>1. x % N = 0
    BY Zenon
  <2>2. x \in Int
    BY <1>3
  <2> QED BY <2>1, <2>2
<1>5. d \in Int /\ x = N * d + (x % N)
  <2> HIDE DEF x, N
  <2> QED BY <1>1, <1>4
<1>6. x - e = s - p
  BY <1>3
<1> HIDE DEF x, e, d, p, h, N
<1>7. x = N * d
  BY <1>1, <1>4, <1>5
<1>8. (x - e) % N = 0
  <2>1. CASE e = 0
    BY <1>4, <2>1
  <2>2. CASE e = N
    <3> DEFINE k == d - 1
    <3>1. N * k = N * d - N /\ k \in Int
      BY <1>1, <1>5
    <3>2. x - e = N * k
      BY <1>1, <1>4, <1>5, <1>7, <2>2, <3>1
    <3> HIDE DEF k
    <3>3. (N * k) % N = 0
      BY <1>1, <3>1, Multiples
    <3> QED BY <3>2, <3>3
  <2>3. CASE e = 0 - N
    <3> DEFINE k == d + 1
    <3>1. N * k = N * d + N /\ k \in Int
      BY <1>1, <1>5
    <3>2. x - e = N * k
      BY <1>1, <1>4, <1>5, <1>7, <2>3, <3>1
    <3> HIDE DEF k
    <3>3. (N * k) % N = 0
      BY <1>1, <3>1, Multiples
    <3> QED BY <3>2, <3>3
  <2> QED BY <1>3, <2>1, <2>2, <2>3
<1>9. (s - p) % N = 0
  BY <1>6, <1>8
<1>10. s - p \in Int /\ 0 - N < s - p /\ s - p < N
  <2>1. 0 - N < 2 * s + 1 /\ 2 * s < N
    BY DEF N
  <2> QED BY <1>1, <1>2, <1>3, <2>1
<1>11. s - p = 0
  BY <1>1, <1>9, <1>10, ModApart
<1>12. s = p
  BY <1>3, <1>11
<1> QED BY <1>12 DEF p

(* The low bits of a number that fits, extended, are what its token means, *)
(* and a number fits when any low bits are.                                *)
LEMMA SignedImmediate ==
  ASSUME NEW t \in Tokens, parses_imm(t)
  PROVE  /\ fits_simm16(parse_imm(t)) =>
              (Signed(parse_imm(t) % ImmSize, ImmSize) - Meant(t)) % IntSize = 0
         /\ (\E v \in 0 .. ImmSize - 1 : (Signed(v, ImmSize) - Meant(t)) % IntSize = 0)
              => fits_simm16(parse_imm(t))
<1>1. /\ ImmSize \in Nat \ {0} /\ ImmSize % 2 = 0 /\ IntSize \in Nat \ {0}
      /\ 2 * ImmSize <= IntSize
  BY AsmSizes
<1>2. ASSUME fits_simm16(parse_imm(t))
      PROVE  (Signed(parse_imm(t) % ImmSize, ImmSize) - Meant(t)) % IntSize = 0
  <2>1. parse_imm(t) \in -(ImmSize \div 2) .. ImmSize \div 2 - 1
    BY <1>2 DEF fits_simm16
  <2>2. Signed(parse_imm(t) % ImmSize, ImmSize) = parse_imm(t)
    BY <1>1, <2>1, SignedNear
  <2>3. parse_imm(t) - Meant(t) \in {0, IntSize, 0 - IntSize}
    BY ParsedImmediate
  <2> QED BY <1>1, <2>2, <2>3, ModNear
<1>3. ASSUME NEW v \in 0 .. ImmSize - 1, (Signed(v, ImmSize) - Meant(t)) % IntSize = 0
      PROVE  fits_simm16(parse_imm(t))
  <2> DEFINE s == Signed(v, ImmSize)
             h == ImmSize \div 2
  <2>1. h \in Nat /\ 2 * h = ImmSize /\ s \in -h .. h - 1
    BY <1>1, SignedType
  <2> HIDE DEF s, h
  <2>2. s \in Int /\ 0 - IntSize < 2 * s + 1 /\ 2 * s < IntSize
    BY <1>1, <2>1
  <2>3. parse_imm(t) = s
    BY <1>3, <2>2, SameNumber DEF s
  <2> QED BY <2>1, <2>3 DEF fits_simm16, h
<1> QED BY <1>2, <1>3

LEMMA UnsignedImmediate ==
  ASSUME NEW t \in Tokens, parses_imm(t)
  PROVE  \A size \in {ImmSize, JumpSize, ShamtSize} :
           /\ parse_imm(t) \in 0 .. size - 1 =>
                /\ parse_imm(t) % size = parse_imm(t)
                /\ (parse_imm(t) - Meant(t)) % IntSize = 0
           /\ (\E v \in 0 .. size - 1 : (v - Meant(t)) % IntSize = 0)
                => parse_imm(t) \in 0 .. size - 1
<1> SUFFICES ASSUME NEW size \in {ImmSize, JumpSize, ShamtSize}
             PROVE  /\ parse_imm(t) \in 0 .. size - 1 =>
                         /\ parse_imm(t) % size = parse_imm(t)
                         /\ (parse_imm(t) - Meant(t)) % IntSize = 0
                    /\ \A v \in 0 .. size - 1 :
                         (v - Meant(t)) % IntSize = 0 => parse_imm(t) \in 0 .. size - 1
  OBVIOUS
<1>1. size \in Nat \ {0} /\ IntSize \in Nat \ {0} /\ 2 * size <= IntSize
  BY AsmSizes
<1>2. ASSUME parse_imm(t) \in 0 .. size - 1
      PROVE  parse_imm(t) % size = parse_imm(t) /\ (parse_imm(t) - Meant(t)) % IntSize = 0
  <2>1. parse_imm(t) % size = parse_imm(t)
    BY <1>1, <1>2, ModNear
  <2>2. parse_imm(t) - Meant(t) \in {0, IntSize, 0 - IntSize}
    BY ParsedImmediate
  <2>3. (parse_imm(t) - Meant(t)) % IntSize = 0
    BY <1>1, <2>2, ModNear
  <2> QED BY <2>1, <2>3
<1>3. ASSUME NEW v \in 0 .. size - 1, (v - Meant(t)) % IntSize = 0
      PROVE  parse_imm(t) \in 0 .. size - 1
  <2>1. v \in Int /\ 0 - IntSize < 2 * v + 1 /\ 2 * v < IntSize
    BY <1>1
  <2>2. parse_imm(t) = v
    BY <1>3, <2>1, SameNumber
  <2> QED BY <2>2
<1> QED BY <1>2, <1>3

-----------------------------------------------------------------------------
(* What the encoders put where *)

Parts == {"mnemonic", "rd", "rs", "rt", "shamt", "imm", "target"}
Operands == {"rd", "rs", "rt", "shamt", "simm", "uimm", "mem", "branch", "target"}
IsWord(w) == w = [c \in Parts |-> w[c]]

(* The parts of a word an operand decides. *)
Decides(field) ==
  CASE field \in {"rd", "rs", "rt", "shamt", "target"} -> {field}
    [] field = "mem" -> {"imm", "rs"}
    [] OTHER -> {"imm"}

Placed(src, field, t, idx, w) ==
  CASE field \in {"rd", "rs", "rt"} -> w[field] = t.n
    [] field = "shamt"  -> w["shamt"] = parse_imm(t) % ShamtSize
    [] field \in {"simm", "uimm"} -> w["imm"] = parse_imm(t) % ImmSize
    [] field = "mem"    -> w["imm"] = parse_imm(t.imm) % ImmSize /\ w["rs"] = t.reg.n
    [] field = "branch" -> w["imm"] = branchOffset(src, t, idx) % ImmSize
    [] field = "target" -> w["target"] = jumpTarget(src, t) % JumpSize

LEMMA PutPlaces ==
  ASSUME NEW src, NEW w, IsWord(w), NEW field \in Operands, NEW t, NEW idx
  PROVE  /\ IsWord(put(src, w, field, t, idx))
         /\ \A c \in Parts \ Decides(field) : put(src, w, field, t, idx)[c] = w[c]
         /\ Placed(src, field, t, idx, put(src, w, field, t, idx))
<1> DEFINE p == put(src, w, field, t, idx)
           with(c, e) == [w EXCEPT ![c] = e]
<1>1. \A c \in Parts : \A e :
        /\ IsWord(with(c, e)) /\ with(c, e)[c] = e
        /\ \A x \in Parts \ {c} : with(c, e)[x] = w[x]
  BY DEF IsWord
<1>2. CASE field \in {"rd", "rs", "rt"}
  <2>1. p = with(field, t.n)
    BY <1>2 DEF put
  <2>2. field \in Parts /\ Decides(field) = {field}
    BY <1>2 DEF Parts, Decides
  <2>3. Placed(src, field, t, idx, p) <=> p[field] = t.n
    BY <1>2 DEF Placed
  <2> HIDE DEF with, p
  <2>4. IsWord(p) /\ Placed(src, field, t, idx, p) /\ \A c \in Parts \ Decides(field) : p[c] = w[c]
    BY <1>1, <2>1, <2>2, <2>3
  <2> QED BY <2>4 DEF p
<1>3. CASE field = "shamt"
  <2>1. p = with("shamt", parse_imm(t) % ShamtSize)
    BY <1>3 DEF put
  <2>2. "shamt" \in Parts /\ Decides(field) = {"shamt"}
    BY <1>3 DEF Parts, Decides
  <2>3. Placed(src, field, t, idx, p) <=> p["shamt"] = parse_imm(t) % ShamtSize
    BY <1>3 DEF Placed
  <2> HIDE DEF with, p
  <2>4. IsWord(p) /\ Placed(src, field, t, idx, p) /\ \A c \in Parts \ Decides(field) : p[c] = w[c]
    BY <1>1, <2>1, <2>2, <2>3
  <2> QED BY <2>4 DEF p
<1>4. CASE field \in {"simm", "uimm"}
  <2>1. p = with("imm", parse_imm(t) % ImmSize)
    BY <1>4 DEF put
  <2>2. "imm" \in Parts /\ Decides(field) = {"imm"}
    BY <1>4 DEF Parts, Decides
  <2>3. Placed(src, field, t, idx, p) <=> p["imm"] = parse_imm(t) % ImmSize
    BY <1>4 DEF Placed
  <2> HIDE DEF with, p
  <2>4. IsWord(p) /\ Placed(src, field, t, idx, p) /\ \A c \in Parts \ Decides(field) : p[c] = w[c]
    BY <1>1, <2>1, <2>2, <2>3
  <2> QED BY <2>4 DEF p
<1>5. CASE field = "branch"
  <2>1. p = with("imm", branchOffset(src, t, idx) % ImmSize)
    BY <1>5 DEF put
  <2>2. "imm" \in Parts /\ Decides(field) = {"imm"}
    BY <1>5 DEF Parts, Decides
  <2>3. Placed(src, field, t, idx, p) <=> p["imm"] = branchOffset(src, t, idx) % ImmSize
    BY <1>5 DEF Placed
  <2> HIDE DEF with, p
  <2>4. IsWord(p) /\ Placed(src, field, t, idx, p) /\ \A c \in Parts \ Decides(field) : p[c] = w[c]
    BY <1>1, <2>1, <2>2, <2>3
  <2> QED BY <2>4 DEF p
<1>6. CASE field = "target"
  <2>1. p = with("target", jumpTarget(src, t) % JumpSize)
    BY <1>6 DEF put
  <2>2. "target" \in Parts /\ Decides(field) = {"target"}
    BY <1>6 DEF Parts, Decides
  <2>3. Placed(src, field, t, idx, p) <=> p["target"] = jumpTarget(src, t) % JumpSize
    BY <1>6 DEF Placed
  <2> HIDE DEF with, p
  <2>4. IsWord(p) /\ Placed(src, field, t, idx, p) /\ \A c \in Parts \ Decides(field) : p[c] = w[c]
    BY <1>1, <2>1, <2>2, <2>3
  <2> QED BY <2>4 DEF p
<1>7. CASE field = "mem"
  <2> DEFINE i == parse_imm(t.imm) % ImmSize
             r == t.reg.n
             u == with("imm", i)
  <2>1. p = [w EXCEPT !["imm"] = i, !["rs"] = r]
    BY <1>7 DEF put
  <2>2. "imm" \in Parts /\ "rs" \in Parts /\ "imm" # "rs" /\ Decides(field) = {"imm", "rs"}
    BY <1>7 DEF Parts, Decides
  <2>3. Placed(src, field, t, idx, p) <=> p["imm"] = i /\ p["rs"] = r
    BY <1>7 DEF Placed
  <2> HIDE DEF i, r, p
  <2>4. p = [u EXCEPT !["rs"] = r]
    BY <2>1
  <2> HIDE DEF with
  <2>5. IsWord(u) /\ u["imm"] = i /\ \A x \in Parts \ {"imm"} : u[x] = w[x]
    BY <1>1, <2>2
  <2> HIDE DEF u
  <2>6. IsWord(p) /\ p["rs"] = r /\ \A x \in Parts \ {"rs"} : p[x] = u[x]
    BY <2>2, <2>4, <2>5 DEF IsWord
  <2>7. IsWord(p) /\ Placed(src, field, t, idx, p) /\ \A c \in Parts \ Decides(field) : p[c] = w[c]
    BY <2>2, <2>3, <2>5, <2>6
  <2> QED BY <2>7 DEF p
<1> QED BY <1>2, <1>3, <1>4, <1>5, <1>6, <1>7 DEF Operands

(* What is placed stays placed while its parts stay. *)
LEMMA PlacedStays ==
  ASSUME NEW src, NEW field \in Operands, NEW t, NEW idx, NEW w, NEW u,
         Placed(src, field, t, idx, w), \A c \in Decides(field) : u[c] = w[c]
  PROVE  Placed(src, field, t, idx, u)
<1>1. CASE field \in {"rd", "rs", "rt"}
  BY <1>1 DEF Placed, Decides
<1>2. CASE field = "shamt"
  BY <1>2 DEF Placed, Decides
<1>3. CASE field \in {"simm", "uimm"}
  BY <1>3 DEF Placed, Decides
<1>4. CASE field = "mem"
  BY <1>4 DEF Placed, Decides
<1>5. CASE field = "branch"
  BY <1>5 DEF Placed, Decides
<1>6. CASE field = "target"
  BY <1>6 DEF Placed, Decides
<1> QED BY <1>1, <1>2, <1>3, <1>4, <1>5, <1>6 DEF Operands

(* The formats: at most three operands, that decide different parts. *)
Format(fs) ==
  /\ Len(fs) \in 0 .. 3
  /\ \A k \in 1 .. Len(fs) : fs[k] \in Operands
  /\ \A k \in 1 .. Len(fs) : \A j \in 1 .. k - 1 : Decides(fs[j]) \cap Decides(fs[k]) = {}

LEMMA Formats ==
  ASSUME NEW mn
  PROVE  Format(fields(mn))
<1>1. fields(mn) \in {<<"rd", "rs", "rt">>, <<"rd", "rt", "shamt">>, <<"rd", "rt", "rs">>,
                      <<"rs">>, <<"rd", "rs">>, <<"rt", "rs", "uimm">>, <<"rt", "rs", "simm">>,
                      <<"rt", "uimm">>, <<"rt", "mem">>, <<"rs", "rt", "branch">>,
                      <<"target">>, <<>>}
  BY DEF fields
<1>2. /\ Decides("rd") = {"rd"} /\ Decides("rs") = {"rs"} /\ Decides("rt") = {"rt"}
      /\ Decides("shamt") = {"shamt"} /\ Decides("target") = {"target"} /\ Decides("mem") = {"imm", "rs"}
      /\ Decides("simm") = {"imm"} /\ Decides("uimm") = {"imm"} /\ Decides("branch") = {"imm"}
  BY DEF Decides
<1>3. Format(<<>>)
  BY DEF Format
<1>4. \A a \in Operands : Format(<<a>>)
  BY DEF Format
<1>5. \A a, b \in Operands : Decides(a) \cap Decides(b) = {} => Format(<<a, b>>)
  BY DEF Format
<1>6. \A a, b, c \in Operands :
        (/\ Decides(a) \cap Decides(b) = {} /\ Decides(a) \cap Decides(c) = {}
         /\ Decides(b) \cap Decides(c) = {}) => Format(<<a, b, c>>)
  <2> SUFFICES ASSUME NEW a \in Operands, NEW b \in Operands, NEW c \in Operands,
                      Decides(a) \cap Decides(b) = {}, Decides(a) \cap Decides(c) = {},
                      Decides(b) \cap Decides(c) = {}
               PROVE  Format(<<a, b, c>>)
    OBVIOUS
  <2> DEFINE fs == <<a, b, c>>
  <2>1. Len(fs) = 3 /\ fs[1] = a /\ fs[2] = b /\ fs[3] = c
    OBVIOUS
  <2> HIDE DEF fs
  <2>2. \A k \in 1 .. 3 : k = 1 \/ k = 2 \/ k = 3
    OBVIOUS
  <2>3. \A k \in 1 .. Len(fs) : fs[k] \in Operands
    BY <2>1, <2>2
  <2>4. ASSUME NEW k \in 1 .. Len(fs), NEW j \in 1 .. k - 1
        PROVE  Decides(fs[j]) \cap Decides(fs[k]) = {}
    <3>1. (j = 1 /\ k = 2) \/ (j = 1 /\ k = 3) \/ (j = 2 /\ k = 3)
      BY <2>1
    <3> QED BY <2>1, <3>1
  <2>5. Format(fs)
    BY <2>1, <2>3, <2>4 DEF Format
  <2> QED BY <2>5 DEF fs
<1>7. {"rd", "rs", "rt", "shamt", "simm", "uimm", "mem", "branch", "target"} \subseteq Operands
  BY DEF Operands
<1>8. Format(<<"rs">>) /\ Format(<<"target">>)
  BY <1>4, <1>7
<1>9. Format(<<"rd", "rs">>) /\ Format(<<"rt", "uimm">>) /\ Format(<<"rt", "mem">>)
  BY <1>2, <1>5, <1>7
<1>10. /\ Format(<<"rd", "rs", "rt">>) /\ Format(<<"rd", "rt", "shamt">>) /\ Format(<<"rd", "rt", "rs">>)
       /\ Format(<<"rt", "rs", "uimm">>) /\ Format(<<"rt", "rs", "simm">>) /\ Format(<<"rs", "rt", "branch">>)
  BY <1>2, <1>6, <1>7
<1> QED BY <1>1, <1>3, <1>8, <1>9, <1>10

(* Every operand of a word is where its format puts it. *)
LEMMA Encoded ==
  ASSUME NEW src, NEW l, NEW idx
  PROVE  /\ encode(src, l, idx)["mnemonic"] = l.mnemonic
         /\ \A k \in 1 .. Len(fields(l.mnemonic)) :
              Placed(src, fields(l.mnemonic)[k], l.operands[k], idx, encode(src, l, idx))
<1> DEFINE fs == fields(l.mnemonic)
           n == Len(fs)
           ops == l.operands
           b == [Nop EXCEPT !.mnemonic = l.mnemonic]
           turn(k, w) == put(src, w, fs[k], ops[k], idx)
           loop(g) == g = [k \in 0 .. n |-> IF k = 0 THEN b ELSE turn(k, g[k - 1])]
           w == CHOOSE g : loop(g)
<1>1. n \in 0 .. 3 /\ \A k \in 1 .. n : fs[k] \in Operands
      /\ \A j \in 1 .. k - 1 : Decides(fs[j]) \cap Decides(fs[k]) = {}
  BY Formats DEF Format
<1>2. encode(src, l, idx) = w[n]
  BY Zenon DEF encode
<1>3. \E g : loop(g)
  <2> DEFINE x == turn(1, b)
             y == turn(2, x)
             z == turn(3, y)
             g == [k \in 0 .. n |-> IF k = 0 THEN b ELSE IF k = 1 THEN x ELSE IF k = 2 THEN y ELSE z]
  <2> HIDE DEF turn, n, b
  <2>1. ASSUME NEW k \in 0 .. n PROVE g[k] = IF k = 0 THEN b ELSE turn(k, g[k - 1])
    <3>1. CASE k = 0
      BY <3>1
    <3>2. CASE k = 1
      <4>1. k - 1 = 0 /\ 0 \in 0 .. n /\ g[0] = b /\ g[k] = x
        BY <1>1, <3>2
      <4> QED BY <3>2, <4>1
    <3>3. CASE k = 2
      <4>1. k - 1 = 1 /\ 1 \in 0 .. n /\ g[1] = x /\ g[k] = y
        BY <1>1, <3>3
      <4> QED BY <3>3, <4>1
    <3>4. CASE k = 3
      <4>1. k - 1 = 2 /\ 2 \in 0 .. n /\ g[2] = y /\ g[k] = z
        BY <1>1, <3>4
      <4> QED BY <3>4, <4>1
    <3> QED BY <1>1, <3>1, <3>2, <3>3, <3>4
  <2>2. g = [k \in 0 .. n |-> g[k]]
    OBVIOUS
  <2> HIDE DEF g
  <2>3. loop(g)
    BY <2>1, <2>2
  <2> QED BY <2>3
<1>4. loop(w)
  <2> HIDE DEF loop
  <2> QED BY <1>3, Zenon
<1> HIDE DEF w
<1>5. w[0] = b /\ \A k \in 1 .. n : w[k] = turn(k, w[k - 1])
  <2> HIDE DEF turn, b, n
  <2> QED BY <1>1, <1>4
<1> HIDE DEF loop, b
<1>6. IsWord(b) /\ b["mnemonic"] = l.mnemonic
  BY DEF b, Nop, IsWord, Parts
<1> DEFINE Done(i) == /\ IsWord(w[i]) /\ w[i]["mnemonic"] = l.mnemonic
                      /\ \A k \in 1 .. i : Placed(src, fs[k], ops[k], idx, w[i])
           P == {i \in Nat : Done(i)}
<1> HIDE DEF n, fs, ops
<1>7. 0 \in P
  <2>1. 1 .. 0 = {}
    OBVIOUS
  <2> QED BY <1>5, <1>6, <2>1
<1>8. \A i \in 0 .. n : i < n /\ i \in P => i + 1 \in P
  <2> SUFFICES ASSUME NEW i \in 0 .. n, i < n, i \in P PROVE i + 1 \in P
    OBVIOUS
  <2> DEFINE f == fs[i + 1]
             t == ops[i + 1]
             u == w[i + 1]
  <2>1. i \in Nat /\ i + 1 \in 1 .. n /\ (i + 1) - 1 = i /\ i + 1 \in Nat
    BY <1>1
  <2>2. Done(i)
    OBVIOUS
  <2>3. f \in Operands /\ \A j \in 1 .. i : fs[j] \in Operands /\ Decides(fs[j]) \cap Decides(f) = {}
    <3>1. \A j \in 1 .. i : j \in 1 .. n /\ j \in 1 .. (i + 1) - 1
      BY <2>1, <1>1
    <3> QED BY <1>1, <2>1, <3>1
  <2>4. u = put(src, w[i], f, t, idx)
    BY <1>5, <2>1
  <2> HIDE DEF u, t, f
  <2>5. /\ IsWord(u) /\ \A c \in Parts \ Decides(f) : u[c] = w[i][c]
        /\ Placed(src, f, t, idx, u)
    <3> DEFINE v == w[i]
               p == put(src, v, f, t, idx)
    <3>1. IsWord(v)
      BY <2>2
    <3> HIDE DEF v
    <3>2. IsWord(p) /\ Placed(src, f, t, idx, p) /\ \A c \in Parts \ Decides(f) : p[c] = v[c]
      BY <2>3, <3>1, PutPlaces
    <3> HIDE DEF p
    <3>3. u = p
      BY <2>4 DEF p, v
    <3> QED BY <3>2, <3>3 DEF v
  <2>6. "mnemonic" \in Parts \ Decides(f) /\ \A g \in Operands : Decides(g) \subseteq Parts
    BY <2>3 DEF Decides, Parts, Operands
  <2>7. u["mnemonic"] = l.mnemonic
    BY <2>2, <2>5, <2>6
  <2>8. ASSUME NEW k \in 1 .. i + 1 PROVE Placed(src, fs[k], ops[k], idx, u)
    <3>1. CASE k = i + 1
      BY <2>5, <3>1 DEF f, t
    <3>2. CASE k # i + 1
      <4>1. k \in 1 .. i
        BY <2>1, <3>2
      <4>2. Placed(src, fs[k], ops[k], idx, w[i])
        BY <2>2, <4>1
      <4>3. fs[k] \in Operands /\ \A c \in Decides(fs[k]) : u[c] = w[i][c]
        BY <2>3, <2>5, <2>6, <4>1
      <4> QED BY <4>2, <4>3, PlacedStays
    <3> QED BY <3>1, <3>2
  <2>9. Done(i + 1)
    BY <2>5, <2>7, <2>8 DEF u
  <2> HIDE DEF Done
  <2> QED BY <2>1, <2>9
<1> HIDE DEF P
<1>9. n \in P
  <2>1. n \in Nat /\ n \in 0 .. n
    BY <1>1
  <2>2. 0 .. n \subseteq P
    BY <1>7, <1>8, <2>1, Climb
  <2> QED BY <2>1, <2>2
<1>10. Done(n)
  BY <1>9 DEF P
<1> QED BY <1>2, <1>10 DEF n, fs, ops

-----------------------------------------------------------------------------
(* The assembler *)

(* What assemble() asks of a source. *)
Assembles(src) ==
  lines(src) # <<>> /\ \A i \in 1 .. Len(lines(src)) : encodable(src, lines(src)[i], i - 1)

LEMMA Assembled ==
  ASSUME NEW src
  PROVE  /\ (assemble(src).error = IF Assembles(src) THEN FALSE ELSE TRUE)
         /\ Assembles(src) => assemble(src).words =
              [i \in 1 .. Len(lines(src)) |-> encode(src, lines(src)[i], i - 1)]
<1> DEFINE ls == lines(src)
           ws == [i \in 1 .. Len(ls) |-> encode(src, ls[i], i - 1)]
<1>1. assemble(src) = IF Assembles(src) THEN [error |-> FALSE, words |-> ws]
                      ELSE [error |-> TRUE, words |-> <<>>]
  BY Zenon DEF assemble, Assembles
<1> HIDE DEF ws, ls
<1>2. CASE Assembles(src)
  BY <1>1, <1>2 DEF ws, ls
<1>3. CASE ~Assembles(src)
  BY <1>1, <1>3
<1> QED BY <1>2, <1>3

(* A line the assembler takes has the operands its format asks for. *)
LEMMA OperandsTaken ==
  ASSUME NEW src \in Seq(SourceLines), NEW l \in SourceLines, NEW idx, encodable(src, l, idx)
  PROVE  /\ l.mnemonic \in Mnemonics
         /\ \A k \in 1 .. Len(fields(l.mnemonic)) :
              /\ l.operands[k] \in Tokens
              /\ fields(l.mnemonic)[k] \in Operands
              /\ accepts(src, fields(l.mnemonic)[k], l.operands[k], idx)
         /\ l.mnemonic # "nop" => Len(l.operands) = Len(fields(l.mnemonic))
<1>1. l.operands \in Seq(Tokens)
  BY AsmSizes
<1>2. fields("nop") = <<>>
  BY DEF fields, kR3Map, kShiftMap, kVShiftMap, kIArithMap, kMemMap, kBranchMap, kJumpMap
<1>3. /\ l.mnemonic \in Mnemonics
      /\ l.mnemonic # "nop" =>
           /\ Len(l.operands) = Len(fields(l.mnemonic))
           /\ \A k \in 1 .. Len(l.operands) : accepts(src, fields(l.mnemonic)[k], l.operands[k], idx)
  BY DEF encodable
<1>4. \A k \in 1 .. Len(fields(l.mnemonic)) : fields(l.mnemonic)[k] \in Operands
  BY Formats DEF Format
<1>5. CASE l.mnemonic = "nop"
  <2>1. 1 .. Len(fields(l.mnemonic)) = {}
    BY <1>2, <1>5
  <2> QED BY <1>3, <1>5, <2>1
<1>6. CASE l.mnemonic # "nop"
  <2>1. \A k \in 1 .. Len(l.operands) : l.operands[k] \in Tokens
    BY <1>1
  <2> QED BY <1>3, <1>4, <1>6, <2>1
<1> QED BY <1>5, <1>6

LEMMA SaysMeans ==
  ASSUME NEW src, NEW v, NEW t, NEW idx
  PROVE  /\ Says(src, "shamt", v, t, idx) <=> (v - Meant(t)) % IntSize = 0
         /\ Says(src, "uimm", v, t, idx) <=> (v - Meant(t)) % IntSize = 0
         /\ Says(src, "simm", v, t, idx) <=> (Signed(v, ImmSize) - Meant(t)) % IntSize = 0
         /\ parses_imm(t) =>
              /\ Says(src, "branch", v, t, idx) <=> (Signed(v, ImmSize) - Meant(t)) % IntSize = 0
              /\ Says(src, "target", v, t, idx) <=> (v - Meant(t)) % IntSize = 0
         /\ ~parses_imm(t) =>
              /\ Says(src, "branch", v, t, idx) <=> idx + 1 + Signed(v, ImmSize) = InstructionAt(src, t)
              /\ Says(src, "target", v, t, idx) <=> v = InstructionAt(src, t)
<1> DEFINE n == IF t.neg THEN 0 - t.n ELSE t.n
<1>1. n = Meant(t)
  BY DEF Meant
<1> QED BY <1>1 DEF Says

(* What a part of a word says of its operand. *)
OperandSaid(src, field, t, idx, w) ==
  CASE field \in {"rd", "rs", "rt"} -> w[field] = t.n
    [] field = "mem" -> w.rs = t.reg.n /\ Says(src, "simm", w.imm, t.imm, idx)
    [] field = "shamt" -> Says(src, "shamt", w.shamt, t, idx)
    [] field = "branch" /\ parses_imm(t) -> Says(src, "branch", w.imm, t, idx)
    [] field = "target" /\ parses_imm(t) -> Says(src, "target", w.target, t, idx)
    [] field \in {"simm", "uimm"} -> Says(src, field, w.imm, t, idx)
    [] OTHER -> TRUE

(* An operand that is taken is said by the word it is put in. *)
LEMMA PlacedSays ==
  ASSUME NEW src, NEW field \in Operands, NEW t \in Tokens, NEW idx, NEW w,
         accepts(src, field, t, idx), Placed(src, field, t, idx, w)
  PROVE  OperandSaid(src, field, t, idx, w)
<1>1. CASE field \in {"rd", "rs", "rt"}
  <2>1. w[field] = t.n
    BY <1>1 DEF Placed
  <2> QED BY <1>1, <2>1 DEF OperandSaid
<1>2. CASE field = "shamt"
  <2>1. parses_imm(t) /\ parse_imm(t) \in 0 .. ShamtSize - 1 /\ w.shamt = parse_imm(t) % ShamtSize
    BY <1>2 DEF accepts, Placed
  <2>2. w.shamt = parse_imm(t) /\ (parse_imm(t) - Meant(t)) % IntSize = 0
    BY <2>1, UnsignedImmediate
  <2>3. Says(src, "shamt", w.shamt, t, idx)
    BY <2>2, SaysMeans
  <2> QED BY <1>2, <2>3 DEF OperandSaid
<1>3. CASE field = "simm"
  <2>1. parses_imm(t) /\ fits_simm16(parse_imm(t)) /\ w.imm = parse_imm(t) % ImmSize
    BY <1>3 DEF accepts, Placed
  <2>2. (Signed(w.imm, ImmSize) - Meant(t)) % IntSize = 0
    BY <2>1, SignedImmediate
  <2>3. Says(src, "simm", w.imm, t, idx)
    BY <2>2, SaysMeans
  <2> QED BY <1>3, <2>3 DEF OperandSaid
<1>4. CASE field = "uimm"
  <2>1. parses_imm(t) /\ parse_imm(t) \in 0 .. ImmSize - 1 /\ w.imm = parse_imm(t) % ImmSize
    BY <1>4 DEF accepts, Placed, fits_uimm16
  <2>2. w.imm = parse_imm(t) /\ (parse_imm(t) - Meant(t)) % IntSize = 0
    BY <2>1, UnsignedImmediate
  <2>3. Says(src, "uimm", w.imm, t, idx)
    BY <2>2, SaysMeans
  <2> QED BY <1>4, <2>3 DEF OperandSaid
<1>5. CASE field = "mem"
  <2>1. t.imm \in Tokens
    <3>1. t.kind = "mem"
      BY <1>5 DEF accepts, parses_mem_operand
    <3>2. t \in [kind : {"mem"}, imm : Numerals, reg : Numerals]
      BY <3>1 DEF Tokens, Numerals
    <3> QED BY <3>2 DEF Tokens
  <2>2. /\ parses_imm(t.imm) /\ fits_simm16(parse_imm(t.imm))
        /\ w.imm = parse_imm(t.imm) % ImmSize /\ w.rs = t.reg.n
    BY <1>5 DEF accepts, Placed, parses_mem_operand
  <2>3. (Signed(w.imm, ImmSize) - Meant(t.imm)) % IntSize = 0
    BY <2>1, <2>2, SignedImmediate
  <2>4. Says(src, "simm", w.imm, t.imm, idx)
    BY <2>3, SaysMeans
  <2> QED BY <1>5, <2>2, <2>4 DEF OperandSaid
<1>6. CASE field = "branch" /\ parses_imm(t)
  <2>1. fits_simm16(parse_imm(t)) /\ w.imm = parse_imm(t) % ImmSize
    BY <1>6 DEF accepts, Placed, branchOffset
  <2>2. (Signed(w.imm, ImmSize) - Meant(t)) % IntSize = 0
    BY <1>6, <2>1, SignedImmediate
  <2>3. Says(src, "branch", w.imm, t, idx)
    BY <1>6, <2>2, SaysMeans
  <2> QED BY <1>6, <2>3 DEF OperandSaid
<1>7. CASE field = "target" /\ parses_imm(t)
  <2>1. parse_imm(t) \in 0 .. JumpSize - 1 /\ w.target = parse_imm(t) % JumpSize
    BY <1>7 DEF accepts, Placed, jumpTarget, fits_target
  <2>2. w.target = parse_imm(t) /\ (parse_imm(t) - Meant(t)) % IntSize = 0
    BY <1>7, <2>1, UnsignedImmediate
  <2>3. Says(src, "target", w.target, t, idx)
    BY <1>7, <2>2, SaysMeans
  <2> QED BY <1>7, <2>3 DEF OperandSaid
<1>8. CASE field \in {"branch", "target"} /\ ~parses_imm(t)
  BY <1>8 DEF OperandSaid
<1> QED BY <1>1, <1>2, <1>3, <1>4, <1>5, <1>6, <1>7, <1>8 DEF Operands

(* A label that is taken is where its branch or jump goes. *)
LEMMA PlacedReaches ==
  ASSUME NEW src \in Seq(SourceLines), NEW t, IsLabel(src, t), NEW idx \in Nat, NEW w
  PROVE  /\ accepts(src, "branch", t, idx) /\ Placed(src, "branch", t, idx, w)
              => Says(src, "branch", w.imm, t, idx)
         /\ accepts(src, "target", t, idx) /\ Placed(src, "target", t, idx, w)
              => Says(src, "target", w.target, t, idx)
<1> DEFINE k == labelIndex(src, t)
<1>1. ~parses_imm(t) /\ definitions(src, t) # {}
  BY DEF IsLabel, parses_imm
<1>2. k = InstructionAt(src, t) /\ k \in Nat
  <2>1. k \in 0 .. Len(lines(src)) /\ k = InstructionAt(src, t)
    BY <1>1, LabelsPoint
  <2> HIDE DEF k
  <2> QED BY <2>1
<1>3. ASSUME accepts(src, "branch", t, idx), Placed(src, "branch", t, idx, w)
      PROVE  Says(src, "branch", w.imm, t, idx)
  <2> DEFINE dist == k - (idx + 1)
  <2>1. fits_simm16(dist) /\ w.imm = dist % ImmSize
    BY <1>1, <1>3 DEF accepts, Placed, branchOffset
  <2> HIDE DEF k
  <2>2. dist \in -(ImmSize \div 2) .. ImmSize \div 2 - 1 /\ dist \in Int
    BY <1>2, <2>1 DEF fits_simm16
  <2> HIDE DEF dist
  <2>3. Signed(w.imm, ImmSize) = dist
    BY <2>1, <2>2, AsmSizes, SignedNear
  <2>4. idx + 1 + Signed(w.imm, ImmSize) = k
    BY <1>2, <2>2, <2>3 DEF dist
  <2> QED BY <1>1, <1>2, <2>4, SaysMeans
<1>4. ASSUME accepts(src, "target", t, idx), Placed(src, "target", t, idx, w)
      PROVE  Says(src, "target", w.target, t, idx)
  <2>1. fits_target(k) /\ w.target = k % JumpSize
    BY <1>1, <1>4 DEF accepts, Placed, jumpTarget
  <2> HIDE DEF k
  <2>2. k \in 0 .. JumpSize - 1
    BY <2>1 DEF fits_target
  <2>3. k % JumpSize = k
    BY <2>2, AsmSizes, ModNear
  <2>4. w.target = InstructionAt(src, t)
    BY <1>2, <2>1, <2>3
  <2> QED BY <1>1, <2>4, SaysMeans
<1> QED BY <1>3, <1>4

(* What some part of a word could say is taken. *)
LEMMA SayableIsTaken ==
  ASSUME NEW src \in Seq(SourceLines), NEW field \in Operands, NEW t \in Tokens, NEW idx \in Nat,
         Sayable(src, field, t, idx)
  PROVE  accepts(src, field, t, idx)
<1> DEFINE N == IntSize
<1>1. CASE field \in {"rd", "rs", "rt"}
  BY <1>1 DEF Sayable, accepts
<1>2. CASE field = "shamt"
  <2>1. parses_imm(t) /\ \E v \in 0 .. ShamtSize - 1 : Says(src, "shamt", v, t, idx)
    BY <1>2 DEF Sayable
  <2>2. \E v \in 0 .. ShamtSize - 1 : (v - Meant(t)) % IntSize = 0
    BY <2>1, SaysMeans
  <2>3. parse_imm(t) \in 0 .. ShamtSize - 1
    BY <2>1, <2>2, UnsignedImmediate
  <2> QED BY <1>2, <2>1, <2>3 DEF accepts
<1>3. CASE field = "simm"
  <2>1. parses_imm(t) /\ \E v \in 0 .. ImmSize - 1 : Says(src, "simm", v, t, idx)
    BY <1>3 DEF Sayable
  <2>2. \E v \in 0 .. ImmSize - 1 : (Signed(v, ImmSize) - Meant(t)) % IntSize = 0
    BY <2>1, SaysMeans
  <2>3. fits_simm16(parse_imm(t))
    BY <2>1, <2>2, SignedImmediate
  <2> QED BY <1>3, <2>1, <2>3 DEF accepts
<1>4. CASE field = "uimm"
  <2>1. parses_imm(t) /\ \E v \in 0 .. ImmSize - 1 : Says(src, "uimm", v, t, idx)
    BY <1>4 DEF Sayable
  <2>2. \E v \in 0 .. ImmSize - 1 : (v - Meant(t)) % IntSize = 0
    BY <2>1, SaysMeans
  <2>3. parse_imm(t) \in 0 .. ImmSize - 1
    BY <2>1, <2>2, UnsignedImmediate
  <2> QED BY <1>4, <2>1, <2>3 DEF accepts, fits_uimm16
<1>5. CASE field = "mem"
  <2>1. parses_mem_operand(t) /\ \E v \in 0 .. ImmSize - 1 : Says(src, "simm", v, t.imm, idx)
    BY <1>5 DEF Sayable
  <2>2. parses_imm(t.imm) /\ t.imm \in Tokens
    <3>1. t.kind = "mem" /\ parses_imm(t.imm)
      BY <2>1 DEF parses_mem_operand
    <3>2. t \in [kind : {"mem"}, imm : Numerals, reg : Numerals]
      BY <3>1 DEF Tokens, Numerals
    <3> QED BY <3>1, <3>2 DEF Tokens
  <2>3. \E v \in 0 .. ImmSize - 1 : (Signed(v, ImmSize) - Meant(t.imm)) % IntSize = 0
    BY <2>1, SaysMeans
  <2>4. fits_simm16(parse_imm(t.imm))
    BY <2>2, <2>3, SignedImmediate
  <2> QED BY <1>5, <2>1, <2>4 DEF accepts
<1>6. CASE field = "branch"
  <2>1. /\ parses_imm(t) \/ IsLabel(src, t)
        /\ \E v \in 0 .. ImmSize - 1 : Says(src, "branch", v, t, idx)
    BY <1>6 DEF Sayable
  <2>2. CASE parses_imm(t)
    <3>1. \E v \in 0 .. ImmSize - 1 : (Signed(v, ImmSize) - Meant(t)) % IntSize = 0
      BY <2>1, <2>2, SaysMeans
    <3>2. fits_simm16(parse_imm(t))
      BY <2>2, <3>1, SignedImmediate
    <3> QED BY <1>6, <2>2, <3>2 DEF accepts, resolves, branchOffset
  <2>3. CASE ~parses_imm(t)
    <3>1. definitions(src, t) # {}
      BY <2>1, <2>3 DEF IsLabel
    <3>2. labelIndex(src, t) = InstructionAt(src, t) /\ labelIndex(src, t) \in 0 .. Len(lines(src))
      BY <3>1, LabelsPoint
    <3>3. PICK v \in 0 .. ImmSize - 1 : idx + 1 + Signed(v, ImmSize) = InstructionAt(src, t)
      BY <2>1, <2>3, SaysMeans
    <3> DEFINE s == Signed(v, ImmSize)
               k == labelIndex(src, t)
    <3>4. s \in -(ImmSize \div 2) .. ImmSize \div 2 - 1 /\ s \in Int
      <4>1. v \in Int
        BY AsmSizes
      <4>2. s \in -(ImmSize \div 2) .. ImmSize \div 2 - 1 /\ ImmSize \div 2 \in Nat
        BY <4>1, AsmSizes, SignedType
      <4> HIDE DEF s
      <4> QED BY <4>2
    <3>5. k \in Nat
      BY <3>2
    <3>6. idx + 1 + s = k
      BY <3>2, <3>3
    <3> HIDE DEF s, k
    <3>7. k - (idx + 1) = s
      BY <3>4, <3>5, <3>6
    <3>8. branchOffset(src, t, idx) = s
      BY <2>3, <3>7 DEF branchOffset, k
    <3>9. fits_simm16(branchOffset(src, t, idx))
      BY <3>4, <3>8 DEF fits_simm16
    <3> QED BY <1>6, <3>1, <3>9 DEF accepts, resolves
  <2> QED BY <2>2, <2>3
<1>7. CASE field = "target"
  <2>1. /\ parses_imm(t) \/ IsLabel(src, t)
        /\ \E v \in 0 .. JumpSize - 1 : Says(src, "target", v, t, idx)
    BY <1>7 DEF Sayable
  <2>2. CASE parses_imm(t)
    <3>1. \E v \in 0 .. JumpSize - 1 : (v - Meant(t)) % IntSize = 0
      BY <2>1, <2>2, SaysMeans
    <3>2. parse_imm(t) \in 0 .. JumpSize - 1
      BY <2>2, <3>1, UnsignedImmediate
    <3> QED BY <1>7, <2>2, <3>2 DEF accepts, resolves, jumpTarget, fits_target
  <2>3. CASE ~parses_imm(t)
    <3>1. definitions(src, t) # {}
      BY <2>1, <2>3 DEF IsLabel
    <3>2. labelIndex(src, t) = InstructionAt(src, t)
      BY <3>1, LabelsPoint
    <3>3. PICK v \in 0 .. JumpSize - 1 : v = InstructionAt(src, t)
      BY <2>1, <2>3, SaysMeans
    <3>4. fits_target(jumpTarget(src, t))
      BY <2>3, <3>2, <3>3 DEF fits_target, jumpTarget
    <3> QED BY <1>7, <3>1, <3>4 DEF accepts, resolves
  <2> QED BY <2>2, <2>3
<1> QED BY <1>1, <1>2, <1>3, <1>4, <1>5, <1>6, <1>7 DEF Operands

(* The source the editor shows is the one that was assembled. *)
AsmInv == source \in Seq(SourceLines) /\ assembled = assemble(source)

LEMMA WordsSay ==
  AsmInv => WordsSayTheirLines
<1> SUFFICES ASSUME AsmInv PROVE WordsSayTheirLines
  OBVIOUS
<1> DEFINE ls == lines(source)
<1>1. source \in Seq(SourceLines) /\ ls \in Seq(SourceLines)
  BY CodeGrows DEF AsmInv
<1>2. CASE ~Assembles(source)
  <2>1. assembled.error = TRUE
    BY <1>2, Assembled DEF AsmInv
  <2> QED BY <2>1 DEF WordsSayTheirLines
<1>3. CASE Assembles(source)
  <2>1. assembled.words = [i \in 1 .. Len(ls) |-> encode(source, ls[i], i - 1)]
    BY <1>3, Assembled DEF AsmInv
  <2>2. \A i \in 1 .. Len(ls) : ls[i] \in SourceLines /\ encodable(source, ls[i], i - 1)
    BY <1>1, <1>3 DEF Assembles
  <2> HIDE DEF ls
  <2>3. Len(assembled.words) = Len(ls)
    BY <1>1, <2>1
  <2>4. ASSUME NEW i \in 1 .. Len(ls)
        PROVE  /\ assembled.words[i].mnemonic = ls[i].mnemonic
               /\ \A k \in 1 .. Len(fields(ls[i].mnemonic)) :
                    OperandSaid(source, fields(ls[i].mnemonic)[k], ls[i].operands[k], i - 1,
                                assembled.words[i])
    <3> DEFINE l == ls[i]
               w == assembled.words[i]
    <3>1. w = encode(source, l, i - 1) /\ l \in SourceLines /\ encodable(source, l, i - 1)
      BY <2>1, <2>2
    <3> HIDE DEF l, w
    <3>2. w.mnemonic = l.mnemonic
      BY <3>1, Encoded
    <3>3. ASSUME NEW k \in 1 .. Len(fields(l.mnemonic))
          PROVE  OperandSaid(source, fields(l.mnemonic)[k], l.operands[k], i - 1, w)
      <4> DEFINE f == fields(l.mnemonic)[k]
                 t == l.operands[k]
      <4>1. t \in Tokens /\ f \in Operands /\ accepts(source, f, t, i - 1)
        BY <1>1, <3>1, OperandsTaken
      <4>2. Placed(source, f, t, i - 1, w)
        BY <3>1, Encoded
      <4> HIDE DEF f, t
      <4>3. OperandSaid(source, f, t, i - 1, w)
        BY <4>1, <4>2, PlacedSays
      <4> QED BY <4>3 DEF f, t
    <3> QED BY <3>2, <3>3 DEF l, w
  <2> QED BY <2>3, <2>4, Zenon DEF WordsSayTheirLines, OperandSaid, ls
<1> QED BY <1>2, <1>3

LEMMA LabelsReach ==
  AsmInv => LabelsReachTheirLine
<1> SUFFICES ASSUME AsmInv, ~assembled.error,
                    NEW i \in 1 .. Len(lines(source)),
                    NEW l, l = lines(source)[i], NEW t, t = l.operands[Len(l.operands)],
                    NEW w, w = assembled.words[i], IsLabel(source, t)
             PROVE  /\ l.mnemonic \in kBranchMap => Says(source, "branch", w.imm, t, i - 1)
                    /\ l.mnemonic \in kJumpMap => Says(source, "target", w.target, t, i - 1)
  BY Zenon DEF LabelsReachTheirLine
<1>1. source \in Seq(SourceLines) /\ lines(source) \in Seq(SourceLines)
  BY CodeGrows DEF AsmInv
<1>2. Assembles(source)
  <2>1. ~Assembles(source) => assembled.error = TRUE
    BY Assembled DEF AsmInv
  <2> QED BY <2>1
<1>3. w = encode(source, l, i - 1) /\ l \in SourceLines /\ encodable(source, l, i - 1)
  <2>1. assembled.words = [j \in 1 .. Len(lines(source)) |-> encode(source, lines(source)[j], j - 1)]
    BY <1>2, Assembled DEF AsmInv
  <2>2. l \in SourceLines
    BY <1>1
  <2>3. encodable(source, l, i - 1)
    BY <1>2 DEF Assembles
  <2> QED BY <2>1, <2>2, <2>3
<1>4. i - 1 \in Nat
  BY <1>1
<1>5. /\ \A k \in 1 .. Len(fields(l.mnemonic)) :
           /\ accepts(source, fields(l.mnemonic)[k], l.operands[k], i - 1)
           /\ Placed(source, fields(l.mnemonic)[k], l.operands[k], i - 1, w)
      /\ l.mnemonic # "nop" => Len(l.operands) = Len(fields(l.mnemonic))
  BY <1>1, <1>3, OperandsTaken, Encoded
<1>6. CASE l.mnemonic \in kBranchMap
  <2>1. fields(l.mnemonic) = <<"rs", "rt", "branch">> /\ l.mnemonic # "nop" /\ l.mnemonic \notin kJumpMap
    BY <1>6 DEF fields, kR3Map, kShiftMap, kVShiftMap, kIArithMap, kMemMap, kBranchMap, kJumpMap
  <2>2. Len(fields(l.mnemonic)) = 3 /\ fields(l.mnemonic)[3] = "branch" /\ 3 \in 1 .. 3
    BY <2>1
  <2>3. Len(l.operands) = 3
    BY <1>5, <2>1, <2>2
  <2>4. accepts(source, "branch", t, i - 1) /\ Placed(source, "branch", t, i - 1, w)
    BY <1>5, <2>2, <2>3
  <2> QED BY <1>1, <1>4, <2>1, <2>4, PlacedReaches
<1>7. CASE l.mnemonic \in kJumpMap
  <2>1. fields(l.mnemonic) = <<"target">> /\ l.mnemonic # "nop" /\ l.mnemonic \notin kBranchMap
    BY <1>7 DEF fields, kR3Map, kShiftMap, kVShiftMap, kIArithMap, kMemMap, kBranchMap, kJumpMap
  <2>2. Len(fields(l.mnemonic)) = 1 /\ fields(l.mnemonic)[1] = "target" /\ 1 \in 1 .. 1
    BY <2>1
  <2>3. Len(l.operands) = 1
    BY <1>5, <2>1, <2>2
  <2>4. accepts(source, "target", t, i - 1) /\ Placed(source, "target", t, i - 1, w)
    BY <1>5, <2>2, <2>3
  <2> QED BY <1>1, <1>4, <2>1, <2>4, PlacedReaches
<1> QED BY <1>6, <1>7

LEMMA RejectsOnly ==
  AsmInv => RejectsOnlyTheUnsayable
<1> DEFINE ls == lines(source)
           fs(i) == fields(ls[i].mnemonic)
           asked == /\ ls # <<>>
                    /\ \A i \in 1 .. Len(ls) :
                         /\ ls[i].mnemonic \in Mnemonics
                         /\ ls[i].mnemonic # "nop" => Len(ls[i].operands) = Len(fs(i))
                         /\ \A k \in 1 .. Len(fs(i)) :
                              Sayable(source, fs(i)[k], ls[i].operands[k], i - 1)
<1>1. SUFFICES ASSUME AsmInv, asked PROVE ~assembled.error
  BY Zenon DEF RejectsOnlyTheUnsayable
<1>2. source \in Seq(SourceLines) /\ ls \in Seq(SourceLines)
  <2>1. source \in Seq(SourceLines)
    BY <1>1 DEF AsmInv
  <2> QED BY <2>1, CodeGrows
<1>3. ASSUME NEW i \in 1 .. Len(ls) PROVE encodable(source, ls[i], i - 1)
  <2> DEFINE l == ls[i]
  <2>1. l \in SourceLines /\ l.operands \in Seq(Tokens) /\ i - 1 \in Nat
    <3>1. l \in SourceLines
      BY <1>2
    <3> QED BY <3>1, AsmSizes
  <2>2. /\ l.mnemonic \in Mnemonics
        /\ l.mnemonic # "nop" => Len(l.operands) = Len(fields(l.mnemonic))
        /\ \A k \in 1 .. Len(fields(l.mnemonic)) :
             Sayable(source, fields(l.mnemonic)[k], l.operands[k], i - 1)
    BY <1>1
  <2> HIDE DEF l
  <2>3. ASSUME l.mnemonic # "nop", NEW k \in 1 .. Len(l.operands)
        PROVE  accepts(source, fields(l.mnemonic)[k], l.operands[k], i - 1)
    <3> DEFINE f == fields(l.mnemonic)[k]
               t == l.operands[k]
    <3>1. t \in Tokens
      BY <2>1
    <3>2. f \in Operands
      BY <2>2, <2>3, Formats DEF Format
    <3>3. Sayable(source, f, t, i - 1)
      BY <2>2, <2>3
    <3> HIDE DEF f, t
    <3>4. accepts(source, f, t, i - 1)
      BY <1>2, <2>1, <3>1, <3>2, <3>3, SayableIsTaken
    <3> QED BY <3>4 DEF f, t
  <2>4. encodable(source, l, i - 1)
    BY <2>2, <2>3, Zenon DEF encodable
  <2> QED BY <2>4 DEF l
<1>4. Assembles(source)
  BY <1>1, <1>3, Zenon DEF Assembles
<1>5. assembled.error = FALSE
  BY <1>1, <1>4, Assembled DEF AsmInv
<1> QED BY <1>5

(* The assembler of the Qt front ends is exact, whatever is typed and      *)
(* however wide fields and integers are: assemble() takes what can be      *)
(* said, its words say it, and labels reach their line.                    *)
THEOREM AssemblesExactly ==
  ToolSpec => []AssemblerIsExact
<1>1. ToolInit => AsmInv
  <2> SUFFICES ASSUME ToolInit PROVE AsmInv
    OBVIOUS
  <2>1. source = <<>> /\ assembled = assemble(<<>>)
    BY DEF ToolInit, AsmInit
  <2>2. <<>> \in Seq(SourceLines)
    OBVIOUS
  <2> QED BY <2>1, <2>2 DEF AsmInv
<1>2. AsmInv /\ [ToolNext]_toolVars => AsmInv'
  <2> SUFFICES ASSUME AsmInv, [ToolNext]_toolVars PROVE AsmInv'
    OBVIOUS
  <2>1. CASE UNCHANGED asmVars
    BY <2>1 DEF AsmInv, asmVars
  <2>2. CASE TypeLine
    <3>1. PICK l \in SourceLines : source' = Append(source, l) /\ assembled' = assemble(source')
      BY <2>2 DEF TypeLine
    <3>2. source' \in Seq(SourceLines)
      BY <3>1 DEF AsmInv
    <3> QED BY <3>1, <3>2 DEF AsmInv
  <2>3. UNCHANGED asmVars \/ TypeLine
    BY DEF ToolNext, toolVars, asmVars
  <2> QED BY <2>1, <2>2, <2>3
<1>3. AsmInv => AssemblerIsExact
  BY WordsSay, LabelsReach, RejectsOnly DEF AssemblerIsExact
<1> QED BY <1>1, <1>2, <1>3, PTL DEF ToolSpec
=============================================================================
