--------------------------- MODULE GdbStubProofs ---------------------------
(***************************************************************************)
(* Theorems about debugger sessions, for every word width, memory size,    *)
(* program, set of packets and BREAK word.                                 *)
(***************************************************************************)
EXTENDS GdbStub, MipsIsaProofs, WellFoundedInduction

-----------------------------------------------------------------------------
(* The bytes of a word *)

LEMMA DivMod ==
  ASSUME NEW n \in Nat \ {0}, NEW r \in 0 .. n - 1, NEW q \in Nat
  PROVE  /\ (r + n * q) \div n = q
         /\ (r + n * q) % n = r
<1> DEFINE x == r + n * q
           d == x \div n
           e == x % n
<1>1. n * q \in Nat /\ x \in Nat
  OBVIOUS
<1>2. d \in Int /\ e \in 0 .. n - 1 /\ x = n * d + e
  BY <1>1
<1> HIDE DEF d, e
<1>3. n * (d - q) = r - e
  BY <1>2
<1>4. d = q
  <2>1. CASE d >= q + 1
    <3>1. n * (d - q) >= n
      BY <1>2, <2>1
    <3> QED BY <1>2, <1>3, <3>1
  <2>2. CASE d <= q - 1
    <3>1. n * (d - q) <= 0 - n
      BY <1>2, <2>2
    <3> QED BY <1>2, <1>3, <3>1
  <2> QED BY <1>2, <2>1, <2>2
<1> QED BY <1>2, <1>4 DEF d, e

(* A word read from memory has the bytes it was read from. *)
LEMMA BytesOfWord ==
  ASSUME NEW b0 \in Byte, NEW b1 \in Byte, NEW b2 \in Byte, NEW b3 \in Byte
  PROVE  LET v == (b0 + ByteSize * b1) + HalfSize * (b2 + ByteSize * b3) IN
         /\ byte_of(v, 0) = b0 /\ byte_of(v, 1) = b1
         /\ byte_of(v, 2) = b2 /\ byte_of(v, 3) = b3
<1> DEFINE B == ByteSize
           lo == b0 + B * b1
           hi == b2 + B * b3
           v  == lo + HalfSize * hi
<1>1. /\ B \in Nat \ {0} /\ b0 \in 0 .. B - 1 /\ b1 \in 0 .. B - 1 /\ b2 \in 0 .. B - 1
      /\ b3 \in 0 .. B - 1 /\ HalfSize = B * B
  BY WidthFacts DEF Byte, HalfSize
<1> HIDE DEF B
<1>2. /\ lo \in Nat /\ hi \in Nat /\ lo \div B = b1 /\ lo % B = b0
      /\ hi \div B = b3 /\ hi % B = b2
  <2>1. \A x \in 0 .. B - 1, y \in 0 .. B - 1 :
          x + B * y \in Nat /\ (x + B * y) \div B = y /\ (x + B * y) % B = x
    <3> SUFFICES ASSUME NEW x \in 0 .. B - 1, NEW y \in 0 .. B - 1
                 PROVE  x + B * y \in Nat /\ (x + B * y) \div B = y /\ (x + B * y) % B = x
      OBVIOUS
    <3>1. y \in Nat /\ B * y \in Nat /\ x \in Nat
      BY <1>1
    <3> QED BY <1>1, <3>1, DivMod
  <2> QED BY <1>1, <2>1
<1>3. lo <= B * B - 1
  <2>1. B * b1 <= B * (B - 1)
    BY <1>1
  <2> QED BY <1>1, <2>1
<1>4. v \div HalfSize = hi
  <2>1. HalfSize \in Nat \ {0} /\ lo \in 0 .. HalfSize - 1
    BY <1>1, <1>2, <1>3
  <2> HIDE DEF lo, hi
  <2> QED BY <1>2, <2>1, DivMod
<1>5. v % B = b0 /\ v \div B = b1 + B * hi
  <2> DEFINE q == b1 + B * hi
  <2>1. q \in Nat
    BY <1>1, <1>2
  <2>2. B * (B * hi) = (B * B) * hi
    BY <1>1, <1>2
  <2>3. v = b0 + B * q
    BY <1>1, <1>2, <2>2
  <2> HIDE DEF q, v
  <2>4. v % B = b0 /\ v \div B = q
    BY <1>1, <2>1, <2>3, DivMod
  <2> QED BY <2>4 DEF q
<1>6. (b1 + B * hi) % B = b1
  <2> HIDE DEF hi
  <2> QED BY <1>1, <1>2, DivMod
<1>7. v \div (HalfSize * B) = b3
  <2> DEFINE N == HalfSize * B
             low == lo + HalfSize * b2
  <2>1. N \in Nat \ {0} /\ N = (B * B) * B
    BY <1>1
  <2>2. HalfSize * b2 <= HalfSize * (B - 1) /\ HalfSize * b2 \in Nat
    BY <1>1
  <2>3. HalfSize * (B - 1) = N - HalfSize
    BY <1>1
  <2>4. low \in 0 .. N - 1
    <3> HIDE DEF lo, N
    <3> QED BY <1>1, <1>2, <1>3, <2>1, <2>2, <2>3
  <2>5. v = low + N * b3
    <3>1. HalfSize * (b2 + B * b3) = HalfSize * b2 + HalfSize * (B * b3)
      BY <1>1
    <3>2. HalfSize * (B * b3) = (HalfSize * B) * b3
      BY <1>1
    <3> HIDE DEF lo
    <3> QED BY <1>1, <1>2, <3>1, <3>2
  <2> HIDE DEF N, low, v
  <2>6. v \div N = b3
    BY <1>1, <2>1, <2>4, <2>5, DivMod
  <2> QED BY <2>6 DEF N
<1>8. b3 % B = b3
  BY <1>1
<1> HIDE DEF v, hi, lo
<1>9. /\ byte_of(v, 0) = b0 /\ byte_of(v, 1) = b1 /\ byte_of(v, 2) = b2 /\ byte_of(v, 3) = b3
  BY <1>2, <1>4, <1>5, <1>6, <1>7, <1>8 DEF byte_of, B
<1> QED BY <1>9 DEF v, lo, hi, B
-----------------------------------------------------------------------------
(* The memory with the breakpoints taken out *)

Unpatched(m, bp) ==
  [i \in DOMAIN m |->
     IF i - (i % 4) \in DOMAIN bp THEN byte_of(bp[i - (i % 4)], i % 4) ELSE m[i]]

(* Saved words by aligned, mapped address. *)
IsTable(bp) ==
  /\ DOMAIN bp \subseteq {a \in Word : word_ok(a)}
  /\ \A a \in DOMAIN bp : bp[a] \in Word

LEMMA UnpatchedType ==
  ASSUME NEW m \in Memory, NEW bp, IsTable(bp)
  PROVE  /\ Unpatched(m, bp) \in Memory
         /\ \A i \in 0 .. MemBytes - 1 :
              Unpatched(m, bp)[i] = IF i - (i % 4) \in DOMAIN bp
                                    THEN byte_of(bp[i - (i % 4)], i % 4) ELSE m[i]
<1>1. DOMAIN m = 0 .. MemBytes - 1 /\ \A i \in DOMAIN m : m[i] \in Byte
  BY DEF Memory
<1>2. \A a \in DOMAIN bp : \A k \in Int : byte_of(bp[a], k) \in Byte
  BY ByteOfType DEF IsTable
<1>3. \A i \in 0 .. MemBytes - 1 : i % 4 \in Int
  BY SizeAssumption
<1> QED BY <1>1, <1>2, <1>3 DEF Unpatched, Memory

LEMMA MemoryExtensional ==
  ASSUME NEW m \in Memory, NEW n \in Memory, \A i \in 0 .. MemBytes - 1 : m[i] = n[i]
  PROVE  m = n
<1> DEFINE D == 0 .. MemBytes - 1
<1>1. m \in [D -> Byte] /\ n \in [D -> Byte] /\ \A i \in D : m[i] = n[i]
  BY DEF Memory
<1> HIDE DEF D
<1>2. m = [i \in D |-> m[i]] /\ n = [i \in D |-> n[i]]
  BY <1>1
<1>3. [i \in D |-> m[i]] = [i \in D |-> n[i]]
  BY <1>1, Zenon
<1> QED BY <1>2, <1>3

(* The bytes of an aligned word, and no others, have its address. *)
LEMMA WordOfByte ==
  ASSUME NEW addr \in Nat, NEW i \in Nat, addr % 4 = 0
  PROVE  /\ i - (i % 4) = addr <=> i \in addr .. addr + 3
         /\ i \in addr .. addr + 3 => i % 4 = i - addr
  OBVIOUS

LEMMA WriteWordAt ==
  ASSUME NEW m \in Memory, NEW addr, NEW v, NEW i \in 0 .. MemBytes - 1
  PROVE  write_word(m, addr, v)[i] =
           IF i \in addr .. addr + 3 THEN byte_of(v, i - addr) ELSE m[i]
  BY DEF write_word, Memory

(* What is read from an aligned word is made of its bytes. *)
LEMMA ReadBytes ==
  ASSUME NEW m \in Memory, NEW addr \in Word, word_ok(addr),
         NEW i \in addr .. addr + 3
  PROVE  byte_of(read_word(m, addr), i - addr) = m[i]
<1>1. addr \in Nat /\ addr + 4 <= MemBytes /\ MemBytes \in Nat
  BY SizeAssumption, WidthFacts DEF word_ok, in_bounds, Word
<1>2. /\ m[addr] \in Byte /\ m[addr + 1] \in Byte /\ m[addr + 2] \in Byte
      /\ m[addr + 3] \in Byte
  BY <1>1 DEF Memory
<1> DEFINE b0 == m[addr]
           b1 == m[addr + 1]
           b2 == m[addr + 2]
           b3 == m[addr + 3]
<1>3. (addr + 2) + 1 = addr + 3
  BY <1>1
<1>4. read_word(m, addr) = (b0 + ByteSize * b1) + HalfSize * (b2 + ByteSize * b3)
  BY <1>3 DEF read_word, read_half
<1> DEFINE v == read_word(m, addr)
<1>5. /\ byte_of(v, 0) = b0 /\ byte_of(v, 1) = b1 /\ byte_of(v, 2) = b2 /\ byte_of(v, 3) = b3
  <2> HIDE DEF b0, b1, b2, b3
  <2>1. b0 \in Byte /\ b1 \in Byte /\ b2 \in Byte /\ b3 \in Byte
    BY <1>2 DEF b0, b1, b2, b3
  <2> QED BY <1>4, <2>1, BytesOfWord
<1>6. i = addr + 0 \/ i = addr + 1 \/ i = addr + 2 \/ i = addr + 3
  BY <1>1
<1> HIDE DEF v
<1>7. CASE i = addr
  BY <1>1, <1>5, <1>7 DEF v
<1>8. CASE i = addr + 1
  BY <1>1, <1>5, <1>8 DEF v
<1>9. CASE i = addr + 2
  BY <1>1, <1>5, <1>9 DEF v
<1>10. CASE i = addr + 3
  BY <1>1, <1>5, <1>10 DEF v
<1> QED BY <1>1, <1>6, <1>7, <1>8, <1>9, <1>10

(* Inserting: the saved word takes the place of the one overwritten. *)
LEMMA InsertUnpatched ==
  ASSUME NEW m \in Memory, NEW bp, IsTable(bp), NEW addr \in Word, word_ok(addr),
         addr \notin DOMAIN bp, NEW w \in Word,
         NEW bq, DOMAIN bq = DOMAIN bp \cup {addr}, bq[addr] = read_word(m, addr),
         \A a \in DOMAIN bp : bq[a] = bp[a]
  PROVE  IsTable(bq) /\ Unpatched(write_word(m, addr, w), bq) = Unpatched(m, bp)
<1> DEFINE n == write_word(m, addr, w)
<1>1. IsTable(bq)
  BY ReadWordType DEF IsTable
<1>2. n \in Memory
  BY WriteWordType
<1>3. addr \in Nat /\ addr % 4 = 0 /\ MemBytes \in Nat
  BY SizeAssumption, WidthFacts DEF Word, word_ok
<1>4. ASSUME NEW i \in 0 .. MemBytes - 1
      PROVE  Unpatched(n, bq)[i] = Unpatched(m, bp)[i]
  <2> DEFINE b == i - (i % 4)
             k == i % 4
  <2>1. i \in Nat
    BY <1>3
  <2>2. /\ b = addr <=> i \in addr .. addr + 3
        /\ i \in addr .. addr + 3 => k = i - addr
    BY <1>3, <2>1, WordOfByte
  <2>3. Unpatched(n, bq)[i] = IF b \in DOMAIN bq THEN byte_of(bq[b], k) ELSE n[i]
    BY <1>1, <1>2, UnpatchedType
  <2>4. Unpatched(m, bp)[i] = IF b \in DOMAIN bp THEN byte_of(bp[b], k) ELSE m[i]
    BY UnpatchedType
  <2>5. n[i] = IF i \in addr .. addr + 3 THEN byte_of(w, i - addr) ELSE m[i]
    BY WriteWordAt
  <2> HIDE DEF b, k, n
  <2>6. CASE b = addr
    <3>1. byte_of(read_word(m, addr), i - addr) = m[i]
      BY <2>2, <2>6, ReadBytes
    <3> QED BY <2>2, <2>3, <2>4, <2>6, <3>1
  <2>7. CASE b # addr
    BY <2>2, <2>3, <2>4, <2>5, <2>7
  <2> QED BY <2>6, <2>7
<1>5. Unpatched(n, bq) \in Memory /\ Unpatched(m, bp) \in Memory
  BY <1>1, <1>2, UnpatchedType
<1> HIDE DEF n
<1>6. Unpatched(n, bq) = Unpatched(m, bp)
  BY <1>4, <1>5, MemoryExtensional
<1> QED BY <1>1, <1>6 DEF n

(* Removing: the saved word goes back. *)
LEMMA RemoveUnpatched ==
  ASSUME NEW m \in Memory, NEW bp, IsTable(bp), NEW addr \in DOMAIN bp,
         NEW bq, DOMAIN bq = DOMAIN bp \ {addr}, \A a \in DOMAIN bq : bq[a] = bp[a]
  PROVE  IsTable(bq) /\ Unpatched(write_word(m, addr, bp[addr]), bq) = Unpatched(m, bp)
<1> DEFINE n == write_word(m, addr, bp[addr])
<1>1. IsTable(bq) /\ addr \in Word /\ word_ok(addr) /\ bp[addr] \in Word
  BY DEF IsTable
<1>2. n \in Memory
  BY <1>1, WriteWordType
<1>3. addr \in Nat /\ addr % 4 = 0 /\ MemBytes \in Nat
  BY <1>1, SizeAssumption, WidthFacts DEF Word, word_ok
<1>4. ASSUME NEW i \in 0 .. MemBytes - 1
      PROVE  Unpatched(n, bq)[i] = Unpatched(m, bp)[i]
  <2> DEFINE b == i - (i % 4)
             k == i % 4
  <2>1. i \in Nat
    BY <1>3
  <2>2. /\ b = addr <=> i \in addr .. addr + 3
        /\ i \in addr .. addr + 3 => k = i - addr
    BY <1>3, <2>1, WordOfByte
  <2>3. Unpatched(n, bq)[i] = IF b \in DOMAIN bq THEN byte_of(bq[b], k) ELSE n[i]
    BY <1>1, <1>2, UnpatchedType
  <2>4. Unpatched(m, bp)[i] = IF b \in DOMAIN bp THEN byte_of(bp[b], k) ELSE m[i]
    BY UnpatchedType
  <2>5. n[i] = IF i \in addr .. addr + 3 THEN byte_of(bp[addr], i - addr) ELSE m[i]
    BY WriteWordAt
  <2> HIDE DEF b, k, n
  <2> QED BY <2>2, <2>3, <2>4, <2>5
<1>5. Unpatched(n, bq) \in Memory /\ Unpatched(m, bp) \in Memory
  BY <1>1, <1>2, UnpatchedType
<1> HIDE DEF n
<1>6. Unpatched(n, bq) = Unpatched(m, bp)
  BY <1>4, <1>5, MemoryExtensional
<1> QED BY <1>1, <1>6 DEF n

(* A word without a breakpoint is the program's, for every width of load   *)
(* that stays inside it.                                                   *)
LEMMA LoadUnpatched ==
  ASSUME NEW m \in Memory, NEW bp, IsTable(bp), NEW addr \in Word, NEW op,
         load_ok(op, addr), addr - (addr % 4) \notin DOMAIN bp
  PROVE  load_data(Unpatched(m, bp), op, addr) = load_data(m, op, addr)
<1> DEFINE u == Unpatched(m, bp)
           w == addr - (addr % 4)
<1>1. addr \in Nat /\ MemBytes \in Nat
  BY SizeAssumption, WidthFacts DEF Word
<1>2. \A i \in 0 .. MemBytes - 1 : i - (i % 4) = w => u[i] = m[i]
  BY UnpatchedType
<1> HIDE DEF u
<1>3. CASE op = "LW"
  <2>1. addr % 4 = 0 /\ addr + 4 <= MemBytes
    BY <1>3 DEF load_ok, word_ok, in_bounds
  <2>2. \A i \in addr .. addr + 3 : i \in 0 .. MemBytes - 1 /\ i - (i % 4) = w
    BY <1>1, <2>1
  <2>3. /\ u[addr] = m[addr] /\ u[addr + 1] = m[addr + 1] /\ u[addr + 2] = m[addr + 2]
        /\ u[addr + 2 + 1] = m[addr + 2 + 1]
    BY <1>1, <1>2, <2>2
  <2> QED BY <1>3, <2>3 DEF load_data, read_word, read_half, u
<1>4. CASE op = "LHU"
  <2>1. addr % 2 = 0 /\ addr + 2 <= MemBytes
    BY <1>4 DEF load_ok, in_bounds
  <2>2. \A i \in addr .. addr + 1 : i \in 0 .. MemBytes - 1 /\ i - (i % 4) = w
    BY <1>1, <2>1
  <2>3. u[addr] = m[addr] /\ u[addr + 1] = m[addr + 1]
    BY <1>1, <1>2, <2>2
  <2> QED BY <1>4, <2>3 DEF load_data, read_half, u
<1>5. CASE op = "LBU"
  <2>1. addr + 1 <= MemBytes
    BY <1>5 DEF load_ok, in_bounds
  <2>2. u[addr] = m[addr]
    BY <1>1, <1>2, <2>1
  <2> QED BY <1>5, <2>2 DEF load_data, u
<1> QED BY <1>3, <1>4, <1>5 DEF load_ok

(* A store to such a word stores to the program. *)
LEMMA StoreUnpatched ==
  ASSUME NEW m \in Memory, NEW bp, IsTable(bp), NEW addr \in Word, word_ok(addr),
         addr \notin DOMAIN bp, NEW v \in Word
  PROVE  Unpatched(write_word(m, addr, v), bp) = write_word(Unpatched(m, bp), addr, v)
<1> DEFINE n == write_word(m, addr, v)
           u == Unpatched(m, bp)
           x == write_word(u, addr, v)
<1>1. n \in Memory /\ u \in Memory /\ x \in Memory /\ Unpatched(n, bp) \in Memory
  BY WriteWordType, UnpatchedType
<1>2. addr \in Nat /\ addr % 4 = 0 /\ MemBytes \in Nat
  BY SizeAssumption, WidthFacts DEF Word, word_ok
<1>3. ASSUME NEW i \in 0 .. MemBytes - 1
      PROVE  Unpatched(n, bp)[i] = x[i]
  <2> DEFINE b == i - (i % 4)
             k == i % 4
  <2>1. i \in Nat
    BY <1>2
  <2>2. b = addr <=> i \in addr .. addr + 3
    BY <1>2, <2>1, WordOfByte
  <2>3. Unpatched(n, bp)[i] = IF b \in DOMAIN bp THEN byte_of(bp[b], k) ELSE n[i]
    BY <1>1, UnpatchedType
  <2>4. u[i] = IF b \in DOMAIN bp THEN byte_of(bp[b], k) ELSE m[i]
    BY UnpatchedType
  <2>5. n[i] = IF i \in addr .. addr + 3 THEN byte_of(v, i - addr) ELSE m[i]
    BY WriteWordAt
  <2>6. x[i] = IF i \in addr .. addr + 3 THEN byte_of(v, i - addr) ELSE u[i]
    BY <1>1, WriteWordAt
  <2> HIDE DEF b, k, n, u, x
  <2> QED BY <2>2, <2>3, <2>4, <2>5, <2>6
<1> HIDE DEF n, u, x
<1>4. Unpatched(n, bp) = x
  BY <1>1, <1>3, MemoryExtensional
<1> QED BY <1>4 DEF n, u, x
-----------------------------------------------------------------------------
(* An instruction on two memories *)

(* Two outcomes that differ at most in memory and CP0. *)
SameOutcome(o, p) ==
  /\ o \in Outcome /\ p \in Outcome
  /\ o.result = p.result
  /\ o.arch.pc = p.arch.pc /\ o.arch.regs = p.arch.regs

LEMMA BothReach ==
  ASSUME NEW o, NEW p, NEW result, NEW q, NEW r, NEW m, NEW n, NEW c,
         Reaches(o, result, q, r, m, c), Reaches(p, result, q, r, n, c)
  PROVE  SameOutcome(o, p) /\ o.arch.mem = m /\ p.arch.mem = n
  BY DEF Reaches, SameOutcome

(* The address of a load or store is what TouchesBreakpoint looks at. *)
LEMMA EffectiveAddress ==
  ASSUME NEW a, NEW d, d.format = "I", d.opcode \in Loads \cup {"SW"}
  PROVE  ItypeResult(a, d).value = (reg_read(a.regs, d.rs) + sign_extend(d.imm)) % WordSize
<1>1. alu_control(d) = "ADDU"
  BY DEF alu_control, i_type_op, Loads
<1>2. derive_control(d).ext = "Sign"
  BY DEF derive_control, i_type_control, NoControl, Loads
<1>3. extended_imm(d, derive_control(d)) = sign_extend(d.imm)
  BY <1>2 DEF extended_imm
<1> QED BY <1>1, <1>3 DEF ItypeResult, alu_execute, alu_value

(* A memory in which the instruction finds what it loads. *)
LEMMA SameInstr ==
  ASSUME NEW a \in ArchState, NEW b \in ArchState, a.pc = b.pc, a.regs = b.regs,
         a.cp0 = b.cp0, NEW w \in Word, decodes(w),
         decode(w).opcode \in Loads /\ load_ok(decode(w).opcode, ItypeResult(a, decode(w)).value)
           => load_data(a.mem, decode(w).opcode, ItypeResult(a, decode(w)).value)
                = load_data(b.mem, decode(w).opcode, ItypeResult(a, decode(w)).value)
  PROVE  LET d  == decode(w)
             o  == exec_instr(a, d)
             p  == exec_instr(b, d)
             ea == ItypeResult(a, d).value
             v  == reg_read(a.regs, d.rt)
         IN  /\ SameOutcome(o, p)
             /\ d.opcode # "SW" \/ ~word_ok(ea) => o.arch.mem = a.mem /\ p.arch.mem = b.mem
             /\ d.opcode = "SW" /\ word_ok(ea) =>
                  o.arch.mem = write_word(a.mem, ea, v) /\ p.arch.mem = write_word(b.mem, ea, v)
<1> DEFINE d  == decode(w)
           o  == exec_instr(a, d)
           p  == exec_instr(b, d)
           ea == ItypeResult(a, d).value
           v  == reg_read(a.regs, d.rt)
           G  == /\ SameOutcome(o, p)
                 /\ d.opcode # "SW" \/ ~word_ok(ea) => o.arch.mem = a.mem /\ p.arch.mem = b.mem
                 /\ d.opcode = "SW" /\ word_ok(ea) =>
                      /\ o.arch.mem = write_word(a.mem, ea, v)
                      /\ p.arch.mem = write_word(b.mem, ea, v)
           K  == SameOutcome(o, p) /\ o.arch.mem = a.mem /\ p.arch.mem = b.mem
<1>1. /\ d \in DecodedInstr /\ d.format \in {"R", "I", "J"}
      /\ d.format = "R" => /\ d.opcode \in {"SPECIAL", "COP0"}
                           /\ d.opcode = "SPECIAL" => d.funct \in SpecialFuncts
      /\ d.format = "I" => d.opcode \in IOpcodes
      /\ d.format = "J" => d.opcode \in {"J", "JAL"}
  BY DecodedParts
<1>2. /\ d.opcode \in Loads /\ load_ok(d.opcode, ea) =>
           load_data(a.mem, d.opcode, ea) = load_data(b.mem, d.opcode, ea)
      /\ ItypeResult(b, d) = ItypeResult(a, d) /\ RtypeResult(b, d) = RtypeResult(a, d)
      /\ BranchTaken(b, d) <=> BranchTaken(a, d)
  BY DEF ItypeResult, RtypeResult, BranchTaken
<1> SUFFICES G
  OBVIOUS
<1> HIDE DEF d
<1>3. K /\ d.opcode # "SW" => G
  OBVIOUS
<1>4. CASE d.format = "J"
  <2>1. o = exec_jtype(a, d) /\ p = exec_jtype(b, d)
    BY <1>4 DEF exec_instr
  <2>2. K
    BY <1>1, <2>1, JtypeReaches, BothReach
  <2> QED BY <1>1, <1>3, <1>4, <2>2
<1>5. CASE d.format = "R" /\ d.opcode = "COP0"
  <2>1. o = exec_cop0(a, d) /\ p = exec_cop0(b, d)
    BY <1>5 DEF exec_instr, exec_rtype
  <2>2. K
    <3>1. CASE d.rs = 0
      BY <1>1, <2>1, <3>1, Cop0Reaches, BothReach
    <3>2. CASE d.rs = 4
      BY <1>1, <2>1, <3>2, Cop0Reaches, BothReach
    <3>3. CASE d.rs = 16 /\ d.funct = "ERET"
      BY <1>1, <2>1, <3>3, Cop0Reaches, BothReach
    <3>4. CASE d.rs \notin {0, 4} /\ ~(d.rs = 16 /\ d.funct = "ERET")
      BY <1>1, <2>1, <3>4, Cop0Reaches, BothReach
    <3> QED BY <3>1, <3>2, <3>3, <3>4
  <2> QED BY <1>3, <1>5, <2>2
<1>6. CASE d.format = "R" /\ d.opcode = "SPECIAL"
  <2>1. o = exec_rtype(a, d) /\ p = exec_rtype(b, d)
    BY <1>6 DEF exec_instr
  <2>2. K
    <3>1. CASE d.funct = "SYSCALL"
      <4>1. o = raise(a, Sys, 0) /\ p = raise(b, Sys, 0)
        BY <1>6, <2>1, <3>1 DEF exec_rtype
      <4> QED BY <4>1, RaiseReaches, BothReach, ZeroIsWord DEF ExceptionCode
    <3>2. CASE d.funct = "BREAK"
      <4>1. o = raise(a, Bp, 0) /\ p = raise(b, Bp, 0)
        BY <1>6, <2>1, <3>2 DEF exec_rtype
      <4> QED BY <4>1, RaiseReaches, BothReach, ZeroIsWord DEF ExceptionCode
    <3>3. CASE d.funct = "JR"
      BY <1>1, <1>6, <2>1, <3>3, RegisterJumpReaches, BothReach
    <3>4. CASE d.funct = "JALR"
      BY <1>1, <1>6, <2>1, <3>4, RegisterJumpReaches, BothReach
    <3>5. CASE d.funct \notin {"SYSCALL", "BREAK", "JR", "JALR"}
      <4>1. o = exec_alu_rtype(a, d) /\ p = exec_alu_rtype(b, d)
        BY <1>6, <2>1, <3>5 DEF exec_rtype
      <4>2. alu_control(d) # "none"
        BY <1>1, <1>6, <3>5, AluControlled
      <4>3. RtypeOverflows(b, d) <=> RtypeOverflows(a, d)
        BY <1>2 DEF RtypeOverflows
      <4>4. CASE RtypeOverflows(a, d)
        BY <1>1, <4>1, <4>2, <4>3, <4>4, AluRtypeReaches, BothReach
      <4>5. CASE ~RtypeOverflows(a, d)
        BY <1>1, <1>2, <4>1, <4>2, <4>3, <4>5, AluRtypeReaches, BothReach
      <4> QED BY <4>4, <4>5
    <3> QED BY <3>1, <3>2, <3>3, <3>4, <3>5
  <2> QED BY <1>3, <1>6, <2>2
<1>7. CASE d.format = "I" /\ d.opcode \in {"BEQ", "BNE"}
  <2>1. o = exec_branch(a, d) /\ p = exec_branch(b, d)
    BY <1>7 DEF exec_instr, exec_itype
  <2>2. K
    BY <1>1, <1>2, <1>7, <2>1, BranchReaches, BothReach
  <2> QED BY <1>3, <1>7, <2>2
<1>8. CASE d.format = "I" /\ d.opcode \notin {"BEQ", "BNE"}
  <2>1. o = exec_itype(a, d) /\ p = exec_itype(b, d)
    BY <1>8 DEF exec_instr
  <2>2. ea \in Word
    BY <1>1, ItypeResultType
  <2>3. /\ d.opcode \in Loads => o = exec_load(a, d, ea) /\ p = exec_load(b, d, ea)
        /\ d.opcode = "SW" => o = exec_store(a, d, ea) /\ p = exec_store(b, d, ea)
    BY <1>1, <1>2, <1>8, <2>1, ItypeReaches
  <2> HIDE DEF ea, o, p
  <2>4. CASE d.opcode \in Loads
    <3>1. K
      BY <1>1, <1>2, <2>2, <2>3, <2>4, LoadReaches, BothReach
    <3> QED BY <1>3, <2>4, <3>1 DEF Loads
  <2>5. CASE d.opcode = "SW"
    <3>1. store_ok(d.opcode, ea) <=> word_ok(ea)
      BY <2>5 DEF store_ok
    <3>2. CASE word_ok(ea)
      <4>1. /\ Reaches(o, "Ok", Succ(a.pc), a.regs, write_word(a.mem, ea, v), a.cp0)
            /\ Reaches(p, "Ok", Succ(a.pc), a.regs, write_word(b.mem, ea, v), a.cp0)
        BY <1>1, <2>2, <2>3, <2>5, <3>1, <3>2, StoreReaches
      <4> QED BY <3>2, <4>1, <2>5, BothReach
    <3>3. CASE ~word_ok(ea)
      BY <1>1, <2>2, <2>3, <2>5, <3>1, <3>3, StoreReaches, BothReach
    <3> QED BY <3>2, <3>3
  <2>6. CASE d.opcode \notin Loads \cup {"SW"}
    <3>1. ItypeOverflows(b, d) <=> ItypeOverflows(a, d)
      BY <1>2 DEF ItypeOverflows
    <3>2. K
      <4>1. CASE ItypeOverflows(a, d)
        BY <1>1, <1>8, <2>1, <2>6, <3>1, <4>1, ItypeReaches, BothReach
      <4>2. CASE ~ItypeOverflows(a, d)
        BY <1>1, <1>2, <1>8, <2>1, <2>6, <3>1, <4>2, ItypeReaches, BothReach
      <4> QED BY <4>1, <4>2
    <3> QED BY <1>3, <2>6, <3>2
  <2> QED BY <2>4, <2>5, <2>6
<1> QED BY <1>1, <1>4, <1>5, <1>6, <1>7, <1>8

(* step() away from the breakpoints, with them and without. *)
LEMMA StepsUnpatched ==
  ASSUME NEW a \in ArchState, IsTable(breakpoints), a.pc \notin DOMAIN breakpoints,
         ~TouchesBreakpoint(a), NEW b \in ArchState, a.pc = b.pc, a.regs = b.regs,
         a.cp0 = b.cp0, b.mem = Unpatched(a.mem, breakpoints)
  PROVE  /\ SameOutcome(step(a), step(b))
         /\ step(b).arch.mem = Unpatched(step(a).arch.mem, breakpoints)
<1> DEFINE w == read_word(a.mem, a.pc)
           d == decode(w)
           o == exec_instr(a, d)
           p == exec_instr(b, d)
           ea == ItypeResult(a, d).value
           v == reg_read(a.regs, d.rt)
<1>1. a.pc \in Word /\ a.mem \in Memory /\ b.mem \in Memory /\ a.regs \in RegisterFile
  BY ArchParts
<1>2. CASE ~word_ok(a.pc)
  <2>1. step(a) = raise(a, AdEL, a.pc) /\ step(b) = raise(b, AdEL, a.pc)
    BY <1>2, StepOutcome
  <2> QED BY <1>1, <2>1, RaiseReaches, BothReach DEF ExceptionCode
<1>3. CASE word_ok(a.pc)
  <2>1. w \in Word /\ w = read_word(b.mem, b.pc)
    <3>1. a.pc - (a.pc % 4) = a.pc
      BY <1>1, <1>3, WidthFacts DEF word_ok, Word
    <3>2. load_ok("LW", a.pc)
      BY <1>3 DEF load_ok
    <3>3. load_data(Unpatched(a.mem, breakpoints), "LW", a.pc) = load_data(a.mem, "LW", a.pc)
      BY <1>1, <3>1, <3>2, LoadUnpatched
    <3> QED BY <1>1, <1>3, <3>3, ReadWordType DEF load_data
  <2>2. CASE ~decodes(w)
    <3>1. step(a) = raise(a, RI, 0) /\ step(b) = raise(b, RI, 0)
      BY <1>3, <2>1, <2>2, StepOutcome
    <3> QED BY <1>1, <3>1, RaiseReaches, BothReach, ZeroIsWord DEF ExceptionCode
  <2>3. CASE decodes(w)
    <3>1. /\ d \in DecodedInstr /\ d.format = format_of(d.opcode) /\ d.opcode = Fields[w].opcode
          /\ d.rt \in RegIdx
      BY <2>1, <2>3, DecodedParts DEF DecodedInstr
    <3>2. d.opcode \in Loads \cup {"SW"} => d.format = "I"
      BY <3>1 DEF format_of, Loads, IOpcodes
    <3>3. ea \in Word /\ v \in Word
      BY <1>1, <3>1, ItypeResultType, RegReadType
    <3>4. d.opcode \in Loads \cup {"SW"} => ea - (ea % 4) \notin DOMAIN breakpoints
      <4>1. d.opcode \in Loads \cup {"SW"} =>
              ea = (reg_read(a.regs, d.rs) + sign_extend(d.imm)) % WordSize
        BY <3>2, EffectiveAddress
      <4> QED BY <1>3, <4>1 DEF TouchesBreakpoint
    <3>5. d.opcode \in Loads /\ load_ok(d.opcode, ea) =>
            load_data(a.mem, d.opcode, ea) = load_data(b.mem, d.opcode, ea)
      <4> HIDE DEF d, ea
      <4> QED BY <1>1, <3>3, <3>4, LoadUnpatched
    <3>6. /\ SameOutcome(o, p)
          /\ d.opcode # "SW" \/ ~word_ok(ea) => o.arch.mem = a.mem /\ p.arch.mem = b.mem
          /\ d.opcode = "SW" /\ word_ok(ea) =>
               o.arch.mem = write_word(a.mem, ea, v) /\ p.arch.mem = write_word(b.mem, ea, v)
      <4> HIDE DEF w
      <4> QED BY <2>1, <2>3, <3>5, SameInstr
    <3>7. p.arch.mem = Unpatched(o.arch.mem, breakpoints)
      <4> HIDE DEF d, ea, v, o, p
      <4>1. CASE d.opcode = "SW" /\ word_ok(ea)
        <5>1. ea - (ea % 4) = ea
          BY <3>3, <4>1, WidthFacts DEF word_ok, Word
        <5>2. Unpatched(write_word(a.mem, ea, v), breakpoints)
                = write_word(Unpatched(a.mem, breakpoints), ea, v)
          BY <1>1, <3>3, <3>4, <4>1, <5>1, StoreUnpatched
        <5> QED BY <3>6, <4>1, <5>2
      <4>2. CASE d.opcode # "SW" \/ ~word_ok(ea)
        BY <3>6, <4>2
      <4> QED BY <4>1, <4>2
    <3>8. /\ step(a).arch = o.arch /\ step(b).arch = p.arch
          /\ step(a).result = IF o.result = "Ok" /\ o.arch.pc = a.pc THEN "Halt" ELSE o.result
          /\ step(b).result = IF p.result = "Ok" /\ p.arch.pc = b.pc THEN "Halt" ELSE p.result
          /\ step(a) \in Outcome /\ step(b) \in Outcome
      BY <1>3, <2>1, <2>3, StepOutcome
    <3> HIDE DEF o, p
    <3> QED BY <3>6, <3>7, <3>8 DEF SameOutcome
  <2> QED BY <2>2, <2>3
<1> QED BY <1>2, <1>3

-----------------------------------------------------------------------------
(* Packets *)

(* A breakpoint table and a well-typed target. *)
LEMMA TypeParts ==
  TypeOK <=> /\ cpu \in ArchState /\ IsTable(breakpoints)
             /\ state \in {"stopped", "running", "ended"}
  BY DEF TypeOK, IsTable

LEMMA ArchUpdate ==
  ASSUME NEW a \in ArchState, NEW p \in Word, NEW r \in RegisterFile, NEW m \in Memory,
         NEW c \in Cp0
  PROVE  /\ [a EXCEPT !.pc = p] \in ArchState
         /\ [a EXCEPT !.regs = r] \in ArchState
         /\ [a EXCEPT !.mem = m] \in ArchState
         /\ [a EXCEPT !.cp0 = c] \in ArchState
  BY DEF ArchState

LEMMA WriteRegType ==
  ASSUME NEW a \in ArchState, NEW w \in [n : 0 .. kNumRegs - 1, v : Word]
  PROVE  write_gdb_reg(a, w.n, w.v) \in ArchState
<1>1. w.v \in Word
  OBVIOUS
<1>2. w.n \in RegIdx => reg_write(a.regs, w.n, w.v) \in RegisterFile
  BY <1>1, ArchParts, RegWriteType
<1>3. /\ cp0_write(a.cp0, kRegStatus, w.v) \in Cp0
      /\ cp0_write(a.cp0, kRegCause, w.v) \in Cp0
  BY <1>1, ArchParts, Cp0WriteType
<1>4. a.regs \in RegisterFile /\ a.mem \in Memory /\ a.cp0 \in Cp0
  BY ArchParts
<1> HIDE DEF ArchState
<1>5. /\ w.n \in RegIdx => [a EXCEPT !.regs = reg_write(a.regs, w.n, w.v)] \in ArchState
      /\ [a EXCEPT !.cp0 = cp0_write(a.cp0, kRegStatus, w.v)] \in ArchState
      /\ [a EXCEPT !.cp0 = cp0_write(a.cp0, kRegCause, w.v)] \in ArchState
      /\ [a EXCEPT !.pc = w.v] \in ArchState
  BY <1>1, <1>2, <1>3, <1>4, ArchUpdate
<1> QED BY <1>5 DEF write_gdb_reg

LEMMA WriteRegsType ==
  ASSUME NEW a \in ArchState, NEW values \in Seq(Word)
  PROVE  write_gdb_regs(a, values) \in ArchState
<1> DEFINE r == [i \in RegIdx |-> IF i \in 1 .. Len(values) - 1 THEN values[i + 1]
                                  ELSE a.regs[i]]
           s == IF 33 <= Len(values) THEN values[33] ELSE a.cp0.status
           c == IF 37 <= Len(values) THEN values[37] ELSE a.cp0.cause
           p == IF 38 <= Len(values) THEN values[38] ELSE a.pc
<1>1. a.regs \in RegisterFile /\ a.cp0 \in Cp0 /\ a.pc \in Word
  BY ArchParts
<1>2. Len(values) \in Nat /\ \A i \in 1 .. Len(values) : values[i] \in Word
  OBVIOUS
<1>3. r \in RegisterFile
  <2>1. \A i \in RegIdx : i \in 1 .. Len(values) - 1 => values[i + 1] \in Word
    BY <1>2 DEF RegIdx
  <2> QED BY <1>1, <2>1 DEF RegisterFile
<1>4. s \in Word /\ c \in Word /\ p \in Word
  BY <1>1, <1>2 DEF Cp0
<1>5. write_gdb_regs(a, values)
        = [a EXCEPT !.regs = r, !.cp0.status = s, !.cp0.cause = c, !.pc = p]
  BY Zenon DEF write_gdb_regs
<1> HIDE DEF r, s, c, p
<1>6. [a EXCEPT !.regs = r, !.cp0.status = s, !.cp0.cause = c, !.pc = p] \in ArchState
  BY <1>1, <1>3, <1>4 DEF ArchState, Cp0
<1> QED BY <1>5, <1>6

(* How many bytes of an M packet are written is well-defined. *)
LEMMA WrittenType ==
  ASSUME NEW w, w.addr \in Word, w.len \in Nat, w.bytes \in Seq(Byte)
  PROVE  Written(w) \in 0 .. Len(w.bytes)
<1> DEFINE fits(k) == k <= Len(w.bytes) /\ \A i \in 0 .. k - 1 :
                                             in_bounds((w.addr + i) % WordSize, 1)
           n == w.len
           T == {j \in Nat : j <= n /\ fits(n - j)}
<1>1. Written(w) = CHOOSE k \in 0 .. n : fits(k) /\ \A j \in 0 .. n : fits(j) => j <= k
  BY DEF Written
<1>2. Len(w.bytes) \in Nat /\ n \in Nat /\ fits(0)
  BY DEF fits
<1> HIDE DEF fits, n
<1>3. T \subseteq Nat /\ n \in T
  BY <1>2
<1>4. PICK x \in T : \A y \in T : ~(<<y, x>> \in OpToRel(<, Nat))
  BY <1>3, NatLessThanWellFounded, WFMin
<1>5. \A y \in T : x <= y
  <2>1. \A y \in Nat : y < x => <<y, x>> \in OpToRel(<, Nat)
    BY <1>3, <1>4, Zenon DEF OpToRel
  <2> HIDE DEF T
  <2>2. \A y \in T : ~(y < x)
    BY <1>3, <1>4, <2>1
  <2>3. \A y \in T : y \in Nat /\ x \in Nat
    BY <1>3, <1>4
  <2>4. \A y \in Nat : x \in Nat /\ ~(y < x) => x <= y
    OBVIOUS
  <2> QED BY <2>2, <2>3, <2>4, Zenon
<1>6. /\ n - x \in 0 .. n /\ fits(n - x)
      /\ \A j \in 0 .. n : fits(j) => j <= n - x
  <2>1. ASSUME NEW j \in 0 .. n, fits(j)
        PROVE  j <= n - x
    <3>1. n - (n - j) = j /\ n - j \in Nat /\ n - j <= n
      BY <1>2
    <3>2. fits(n - (n - j))
      BY <2>1, <3>1, Zenon
    <3>3. n - j \in T
      BY <3>1, <3>2, Zenon
    <3> HIDE DEF T
    <3>4. x <= n - j /\ x \in Nat
      BY <1>3, <1>4, <1>5, <3>3
    <3> QED BY <1>2, <3>4
  <2>2. x \in Nat /\ x <= n /\ fits(n - x)
    BY <1>4, Zenon
  <2>3. n - x \in 0 .. n
    BY <1>2, <2>2
  <2> QED BY <2>1, <2>2, <2>3, Zenon
<1>7. Written(w) \in 0 .. n /\ fits(Written(w))
  BY <1>1, <1>6, Zenon
<1> QED BY <1>2, <1>7 DEF fits

LEMMA WriteMemType ==
  ASSUME NEW a \in ArchState, NEW w, w.addr \in Word, w.len \in Nat, w.bytes \in Seq(Byte)
  PROVE  [a EXCEPT !.mem =
            [i \in DOMAIN @ |-> IF i \in w.addr .. w.addr + Written(w) - 1
                                THEN w.bytes[i - w.addr + 1] ELSE @[i]]] \in ArchState
<1> DEFINE m == [i \in DOMAIN a.mem |-> IF i \in w.addr .. w.addr + Written(w) - 1
                                        THEN w.bytes[i - w.addr + 1] ELSE a.mem[i]]
<1>1. a.mem \in Memory
  BY ArchParts
<1>2. Written(w) \in 0 .. Len(w.bytes) /\ Len(w.bytes) \in Nat
  BY WrittenType
<1>3. \A i \in Int : i \in w.addr .. w.addr + Written(w) - 1 => w.bytes[i - w.addr + 1] \in Byte
  BY <1>2, WidthFacts DEF Word
<1>4. m \in Memory
  <2> DEFINE written(i) == i \in w.addr .. w.addr + Written(w) - 1
             value(i)   == w.bytes[i - w.addr + 1]
  <2>1. DOMAIN a.mem = 0 .. MemBytes - 1 /\ \A i \in 0 .. MemBytes - 1 : a.mem[i] \in Byte
    BY <1>1 DEF Memory
  <2>2. \A i \in 0 .. MemBytes - 1 : written(i) => value(i) \in Byte
    BY <1>3
  <2>3. m = [i \in 0 .. MemBytes - 1 |-> IF written(i) THEN value(i) ELSE a.mem[i]]
    BY <2>1, Zenon
  <2> HIDE DEF m, written, value
  <2>4. [i \in 0 .. MemBytes - 1 |-> IF written(i) THEN value(i) ELSE a.mem[i]] \in Memory
    BY <2>1, <2>2 DEF Memory
  <2> QED BY <2>3, <2>4
<1> HIDE DEF m
<1>5. [a EXCEPT !.mem = m] \in ArchState
  BY <1>4 DEF ArchState
<1> QED BY <1>5 DEF m

(* The table and the target after a Z0 and after a z0 packet. *)
LEMMA InsertSteps ==
  ASSUME TypeOK, NEW addr \in Word, insert_breakpoint(addr)
  PROVE  /\ cpu' \in ArchState /\ IsTable(breakpoints')
         /\ Unpatched(cpu'.mem, breakpoints') = Unpatched(cpu.mem, breakpoints)
<1>1. cpu \in ArchState /\ IsTable(breakpoints) /\ cpu.mem \in Memory
  BY TypeParts, ArchParts
<1>2. CASE addr \notin DOMAIN breakpoints /\ word_ok(addr)
  <2> DEFINE bq == [a \in DOMAIN breakpoints \cup {addr} |->
                      IF a = addr THEN read_word(cpu.mem, addr) ELSE breakpoints[a]]
             m == write_word(cpu.mem, addr, kBreakWord)
  <2>1. breakpoints' = bq /\ cpu' = [cpu EXCEPT !.mem = m]
    BY <1>2 DEF insert_breakpoint, Insert
  <2>2. /\ DOMAIN bq = DOMAIN breakpoints \cup {addr} /\ bq[addr] = read_word(cpu.mem, addr)
        /\ \A a \in DOMAIN breakpoints : bq[a] = breakpoints[a]
    BY <1>2
  <2>3. m \in Memory /\ kBreakWord \in Word
    BY <1>1, <1>2, GdbAssumption, WriteWordType
  <2> HIDE DEF bq
  <2>4. IsTable(bq) /\ Unpatched(m, bq) = Unpatched(cpu.mem, breakpoints)
    BY <1>1, <1>2, <2>2, <2>3, InsertUnpatched
  <2> HIDE DEF m
  <2>5. [cpu EXCEPT !.mem = m] \in ArchState /\ [cpu EXCEPT !.mem = m].mem = m
    BY <1>1, <2>3 DEF ArchState
  <2> QED BY <2>1, <2>4, <2>5
<1>3. CASE ~(addr \notin DOMAIN breakpoints /\ word_ok(addr))
  BY <1>1, <1>3 DEF insert_breakpoint
<1> QED BY <1>2, <1>3

LEMMA RemoveSteps ==
  ASSUME TypeOK, NEW addr \in Word, remove_breakpoint(addr)
  PROVE  /\ cpu' \in ArchState /\ IsTable(breakpoints')
         /\ Unpatched(cpu'.mem, breakpoints') = Unpatched(cpu.mem, breakpoints)
<1>1. cpu \in ArchState /\ IsTable(breakpoints) /\ cpu.mem \in Memory
  BY TypeParts, ArchParts
<1>2. CASE addr \in DOMAIN breakpoints
  <2> DEFINE bq == [a \in DOMAIN breakpoints \ {addr} |-> breakpoints[a]]
             m == write_word(cpu.mem, addr, breakpoints[addr])
  <2>1. breakpoints' = bq /\ cpu' = [cpu EXCEPT !.mem = m]
    BY <1>2 DEF remove_breakpoint
  <2>2. DOMAIN bq = DOMAIN breakpoints \ {addr} /\ \A a \in DOMAIN bq : bq[a] = breakpoints[a]
    OBVIOUS
  <2>3. m \in Memory
    BY <1>1, <1>2, WriteWordType DEF IsTable
  <2> HIDE DEF bq
  <2>4. IsTable(bq) /\ Unpatched(m, bq) = Unpatched(cpu.mem, breakpoints)
    BY <1>1, <1>2, <2>2, RemoveUnpatched
  <2> HIDE DEF m
  <2>5. [cpu EXCEPT !.mem = m] \in ArchState /\ [cpu EXCEPT !.mem = m].mem = m
    BY <1>1, <2>3 DEF ArchState
  <2> QED BY <2>1, <2>4, <2>5
<1>3. CASE addr \notin DOMAIN breakpoints
  BY <1>1, <1>3 DEF remove_breakpoint
<1> QED BY <1>2, <1>3

(* What c and s start from, and what a step leaves. *)
LEMMA ResumedType ==
  ASSUME cpu \in ArchState, NEW addr \in ResumeAddrs
  PROVE  /\ Resumed(addr) \in ArchState /\ Resumed(addr).regs = cpu.regs
         /\ Resumed(addr).mem = cpu.mem /\ Resumed(addr).cp0 = cpu.cp0
<1>1. addr = NoAddr \/ addr \in Word
  BY GdbAssumption
<1>2. CASE addr = NoAddr
  BY <1>2 DEF Resumed
<1>3. CASE addr # NoAddr /\ addr \in Word
  BY <1>3 DEF Resumed, ArchState
<1> QED BY <1>1, <1>2, <1>3

LEMMA StoppedParts ==
  ASSUME NEW a \in ArchState
  PROVE  LET o == step(a) IN
         /\ Stopped(o) \in ArchState
         /\ Stopped(o).regs = o.arch.regs /\ Stopped(o).mem = o.arch.mem
         /\ o.result # "Exception" => Stopped(o).pc = o.arch.pc
         /\ o.result = "Exception" => Stopped(o).pc = o.arch.cp0.epc
<1> DEFINE o == step(a)
           s == o.arch
<1>1. s \in ArchState
  <2>1. o \in Outcome
    BY StepOutcome
  <2> HIDE DEF o, ArchState
  <2> QED BY <2>1 DEF Outcome
<1>2. s.cp0.epc \in Word
  BY <1>1 DEF ArchState, Cp0
<1>3. Stopped(o) = IF o.result = "Exception" THEN [s EXCEPT !.pc = s.cp0.epc] ELSE s
  BY DEF Stopped
<1> HIDE DEF s
<1>4. /\ [s EXCEPT !.pc = s.cp0.epc] \in ArchState
      /\ [s EXCEPT !.pc = s.cp0.epc].regs = s.regs
      /\ [s EXCEPT !.pc = s.cp0.epc].mem = s.mem
      /\ [s EXCEPT !.pc = s.cp0.epc].pc = s.cp0.epc
  <2> DEFINE e == s.cp0.epc
  <2> HIDE DEF e
  <2>1. e \in Word
    BY <1>2 DEF e
  <2>2. /\ [s EXCEPT !.pc = e] \in ArchState /\ [s EXCEPT !.pc = e].regs = s.regs
        /\ [s EXCEPT !.pc = e].mem = s.mem /\ [s EXCEPT !.pc = e].pc = e
    BY <1>1, <2>1 DEF ArchState
  <2> QED BY <2>2 DEF e
<1> HIDE DEF o
<1>5. /\ Stopped(o) \in ArchState /\ Stopped(o).regs = s.regs /\ Stopped(o).mem = s.mem
      /\ o.result # "Exception" => Stopped(o).pc = s.pc
      /\ o.result = "Exception" => Stopped(o).pc = s.cp0.epc
  <2>1. CASE o.result = "Exception"
    BY <1>3, <1>4, <2>1
  <2>2. CASE o.result # "Exception"
    BY <1>1, <1>3, <2>2
  <2> QED BY <2>1, <2>2
<1> QED BY <1>5 DEF o, s
-----------------------------------------------------------------------------
(* Type correctness *)

LEMMA GdbInit ==
  Init => TypeOK
<1> SUFFICES ASSUME Init PROVE TypeOK
  OBVIOUS
<1>1. cpu \in ArchState /\ state = "stopped" /\ breakpoints = [a \in {} |-> 0]
  BY GdbAssumption DEF Init
<1>2. DOMAIN breakpoints = {}
  BY <1>1
<1> QED BY <1>1, <1>2 DEF TypeOK

LEMMA GdbNext ==
  TypeOK /\ [Next]_vars => TypeOK'
<1> SUFFICES ASSUME TypeOK, [Next]_vars PROVE TypeOK'
  OBVIOUS
<1>1. cpu \in ArchState /\ IsTable(breakpoints) /\ state \in {"stopped", "running", "ended"}
  BY TypeParts
<1>2. SUFFICES cpu' \in ArchState /\ IsTable(breakpoints')
               /\ state' \in {"stopped", "running", "ended"}
  BY DEF TypeOK, IsTable
<1> HIDE DEF ArchState
<1>3. CASE UNCHANGED vars
  BY <1>1, <1>3 DEF vars
<1>4. ASSUME NEW w \in RegWrites, handle_write_reg(w)
      PROVE  cpu' \in ArchState /\ IsTable(breakpoints') /\ state' = state
  <2>1. w \in [n : 0 .. kNumRegs - 1, v : Word]
    BY GdbAssumption
  <2> QED BY <1>1, <1>4, <2>1, WriteRegType DEF handle_write_reg
<1>5. ASSUME NEW values \in RegBlocks, handle_write_regs(values)
      PROVE  cpu' \in ArchState /\ IsTable(breakpoints') /\ state' = state
  <2>1. values \in Seq(Word)
    BY GdbAssumption
  <2> QED BY <1>1, <1>5, <2>1, WriteRegsType DEF handle_write_regs
<1>6. ASSUME NEW w \in MemWrites, handle_write_mem(w)
      PROVE  cpu' \in ArchState /\ IsTable(breakpoints') /\ state' = state
  <2>1. w.addr \in Word /\ w.len \in Nat /\ w.bytes \in Seq(Byte)
    BY GdbAssumption
  <2>2. [cpu EXCEPT !.mem =
           [i \in DOMAIN @ |-> IF i \in w.addr .. w.addr + Written(w) - 1
                               THEN w.bytes[i - w.addr + 1] ELSE @[i]]] \in ArchState
    BY <1>1, <2>1, WriteMemType
  <2> QED BY <1>1, <1>6, <2>2, Zenon DEF handle_write_mem
<1>7. ASSUME NEW addr \in BpAddrs,
             handle_breakpoint_set(addr) \/ handle_breakpoint_clear(addr)
      PROVE  cpu' \in ArchState /\ IsTable(breakpoints') /\ state' = state
  <2>1. addr \in Word
    BY GdbAssumption
  <2> QED BY <1>7, <2>1, InsertSteps, RemoveSteps
          DEF handle_breakpoint_set, handle_breakpoint_clear
<1>8. ASSUME NEW addr \in ResumeAddrs, handle_step(addr)
      PROVE  cpu' \in ArchState /\ IsTable(breakpoints') /\ state' = state
  <2>1. Resumed(addr) \in ArchState
    BY <1>1, ResumedType
  <2>2. Stopped(step(Resumed(addr))) \in ArchState
    BY <2>1, StoppedParts
  <2> QED BY <1>1, <1>8, <2>2 DEF handle_step
<1>9. ASSUME NEW addr \in ResumeAddrs, handle_continue(addr)
      PROVE  cpu' \in ArchState /\ IsTable(breakpoints') /\ state' = "running"
  BY <1>1, <1>9, ResumedType DEF handle_continue
<1>10. CASE RunStep
  <2>1. Stopped(step(cpu)) \in ArchState
    BY <1>1, StoppedParts
  <2> QED BY <1>1, <1>10, <2>1 DEF RunStep
<1>11. CASE RunInterrupted \/ EndSession \/ Listen
  BY <1>1, <1>11 DEF RunInterrupted, EndSession, Listen
<1> QED BY <1>1, <1>3, <1>4, <1>5, <1>6, <1>7, <1>8, <1>9, <1>10, <1>11 DEF Next

(* The stub never leaves the target in an impossible state, whatever the   *)
(* packets, in whatever order and over whatever number of sessions: the    *)
(* CPU has its registers, its memory and its CP0, and a breakpoint is only *)
(* ever on an aligned, mapped word, so restoring it never misses.          *)
THEOREM GdbTypeCorrect ==
  Spec => []TypeOK
<1>1. Init => TypeOK
  BY GdbInit
<1>2. TypeOK /\ [Next]_vars => TypeOK'
  BY GdbNext
<1> QED BY <1>1, <1>2, PTL DEF Spec

-----------------------------------------------------------------------------
(* Breakpoints and the program being debugged *)

LEMMA UserMemIsUnpatched ==
  /\ UserMem = Unpatched(cpu.mem, breakpoints)
  /\ UserMem' = Unpatched(cpu'.mem, breakpoints')
  BY DEF UserMem, Unpatched

(* insert_breakpoint() and remove_breakpoint(), for every program, set of  *)
(* addresses and history of packets: the memory with the breakpoints taken *)
(* out is the same before and after.                                       *)
THEOREM ProgramSurvivesBreakpoints ==
  Spec => BreakpointsLeaveProgram
<1>1. ASSUME TypeOK, Next, NEW addr \in BpAddrs,
             handle_breakpoint_set(addr) \/ handle_breakpoint_clear(addr)
      PROVE  UserMem' = UserMem
  <2>1. addr \in Word
    BY GdbAssumption
  <2>2. Unpatched(cpu'.mem, breakpoints') = Unpatched(cpu.mem, breakpoints)
    BY <1>1, <2>1, InsertSteps, RemoveSteps
       DEF handle_breakpoint_set, handle_breakpoint_clear
  <2> QED BY <2>2, UserMemIsUnpatched
<1>2. ASSUME TypeOK, [Next]_vars
      PROVE  [\A addr \in BpAddrs :
                handle_breakpoint_set(addr) \/ handle_breakpoint_clear(addr)
                  => UserMem' = UserMem]_vars
  BY <1>1, <1>2
<1> QED BY <1>2, GdbTypeCorrect, PTL DEF Spec, BreakpointsLeaveProgram

(* A step() of the stub from the state a, with the breakpoints as they     *)
(* are, is a step of the program being debugged.                           *)
LEMMA StepIsTransparent ==
  ASSUME TypeOK, NEW a \in ArchState, a.mem = cpu.mem,
         cpu' = Stopped(step(a)), breakpoints' = breakpoints
  PROVE  StepsProgram(a)
<1> DEFINE b == [a EXCEPT !.mem = UserMem]
<1>1. IsTable(breakpoints) /\ a.mem \in Memory
  BY TypeParts, ArchParts
<1>2. UserMem = Unpatched(a.mem, breakpoints) /\ UserMem \in Memory
  BY <1>1, UserMemIsUnpatched, UnpatchedType
<1>3. /\ b \in ArchState /\ a.pc = b.pc /\ a.regs = b.regs /\ a.cp0 = b.cp0
      /\ b.mem = Unpatched(a.mem, breakpoints)
  BY <1>2 DEF ArchState
<1> HIDE DEF b
<1>4. ASSUME a.pc \notin DOMAIN breakpoints, ~TouchesBreakpoint(a)
      PROVE  /\ cpu'.regs = step(b).arch.regs
             /\ UserMem' = step(b).arch.mem
             /\ step(b).result # "Exception" => cpu'.pc = step(b).arch.pc
  <2>1. /\ SameOutcome(step(a), step(b))
        /\ step(b).arch.mem = Unpatched(step(a).arch.mem, breakpoints)
    BY <1>1, <1>3, <1>4, StepsUnpatched
  <2>2. /\ cpu'.regs = step(a).arch.regs /\ cpu'.mem = step(a).arch.mem
        /\ step(a).result # "Exception" => cpu'.pc = step(a).arch.pc
    BY StoppedParts
  <2>3. UserMem' = Unpatched(step(a).arch.mem, breakpoints)
    BY <2>2, UserMemIsUnpatched
  <2> QED BY <2>1, <2>2, <2>3 DEF SameOutcome
<1> QED BY <1>4 DEF StepsProgram, b

(* The first trap is reported where it happened. *)
LEMMA TrapIsReported ==
  ASSUME NEW a \in ArchState, step(a).result = "Exception", ~in_exception(a.cp0),
         cpu' = Stopped(step(a))
  PROVE  cpu'.pc = a.pc /\ cpu'.regs = a.regs /\ cpu'.mem = a.mem
<1> DEFINE o == step(a)
<1>1. Raised(a, o)
  BY StepOutcome
<1>2. o.arch.regs = a.regs /\ o.arch.mem = a.mem /\ o.arch.cp0.epc = a.pc
  <2> HIDE DEF o
  <2> QED BY <1>1, RaisedCp0
<1>3. cpu'.regs = o.arch.regs /\ cpu'.mem = o.arch.mem /\ cpu'.pc = o.arch.cp0.epc
  BY StoppedParts
<1> QED BY <1>2, <1>3

(* handle_step() and the loop of handle_continue() run the program being   *)
(* debugged, for every program and every table of breakpoints: the BREAKs  *)
(* in memory change nothing that an instruction away from them does, and a *)
(* first trap is reported at the instruction that caused it.               *)
THEOREM DebuggerRunsTheProgram ==
  Spec => DebuggerIsTransparent
<1>1. ASSUME TypeOK, RunStep
      PROVE  StepsProgram(cpu)
  BY <1>1, StepIsTransparent DEF RunStep, TypeOK
<1>2. ASSUME TypeOK, NEW addr \in ResumeAddrs, handle_step(addr)
      PROVE  StepsProgram(Resumed(addr))
  <2>1. Resumed(addr) \in ArchState /\ Resumed(addr).mem = cpu.mem
    BY <1>2, ResumedType DEF TypeOK
  <2> QED BY <1>2, <2>1, StepIsTransparent DEF handle_step
<1>3. ASSUME TypeOK, NEW a \in StepStates, TrapsFrom(a), ~in_exception(a.cp0)
      PROVE  cpu'.pc = a.pc /\ cpu'.regs = a.regs /\ cpu'.mem = a.mem
  <2>1. cpu \in ArchState
    BY <1>3 DEF TypeOK
  <2> HIDE DEF ArchState
  <2>2. a \in ArchState
    BY <1>3, <2>1, ResumedType DEF StepStates
  <2>3. step(a).result = "Exception" /\ cpu' = Stopped(step(a))
    BY <1>3 DEF TrapsFrom, RunStep, handle_step
  <2> QED BY <1>3, <2>2, <2>3, TrapIsReported
<1>4. ASSUME TypeOK, [Next]_vars
      PROVE  [/\ RunStep => StepsProgram(cpu)
              /\ \A addr \in ResumeAddrs : handle_step(addr) => StepsProgram(Resumed(addr))
              /\ \A a \in StepStates : TrapsFrom(a) /\ ~in_exception(a.cp0) =>
                   cpu'.pc = a.pc /\ cpu'.regs = a.regs /\ cpu'.mem = a.mem]_vars
  BY <1>1, <1>2, <1>3, <1>4, Zenon
<1> QED BY <1>4, GdbTypeCorrect, PTL DEF Spec, DebuggerIsTransparent
=============================================================================
