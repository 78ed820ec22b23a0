------------------------------ MODULE ElfLoader ------------------------------
(***************************************************************************)
(* mips::parse_elf and mips::load_elf_into_processor.  A file is the first *)
(* check its identification fails ("good" when none), where its program    *)
(* headers are, the headers, and its length; byte o of a file is o + 1, so *)
(* that a byte in memory tells where it came from.  Loading is one step    *)
(* per byte, because a byte that does not fit ends it half-way.            *)
(***************************************************************************)
EXTENDS Integers, Sequences

CONSTANTS
  Files,          \* files the user may load
  MemSize,        \* bytes of the processor's memory
  kAddressSpaceEnd,
  PhdrSize,       \* sizeof(Elf32Phdr)
  MaxLoads        \* bound: files loaded one after the other
ASSUME ElfAssumption ==
  /\ {MemSize, kAddressSpaceEnd, PhdrSize, MaxLoads} \subseteq Nat \ {0}
  /\ MemSize <= kAddressSpaceEnd

ProgramHeaders ==
  [load : BOOLEAN, offset : Nat, vaddr : Nat, filesz : Nat, memsz : Nat]

(* The fields of the headers are unsigned. *)
ASSUME FilesAssumption ==
  \A f \in Files :
    /\ f.phdrs \in Seq(ProgramHeaders)
    /\ f.phnum = Len(f.phdrs)
    /\ {f.phoff, f.phentsize, f.entry, f.size} \subseteq Nat

VARIABLES
  elf_mem, elf_pc,     \* of the processor
  before,              \* memory and PC when the load began
  image,               \* what parse_elf returned
  elf_file,            \* the file it was given
  segment, off,        \* the byte to be written next
  phase,               \* "idle", "writing", "loaded" or "failed"
  loads
elfVars == <<elf_mem, elf_pc, before, image, elf_file, segment, off, phase, loads>>

Memory == [0 .. MemSize - 1 -> Nat]
FileByte(o) == o + 1
NoImage == [error |-> "none", entry |-> 0, segments |-> <<>>]
NoFile == [ident |-> "short", phoff |-> 0, phnum |-> 0, phentsize |-> 0, phdrs |-> <<>>,
           entry |-> 0, size |-> 0]

-----------------------------------------------------------------------------
(* Parsing *)

(* A header that is not PT_LOAD, or has nothing to load, is passed over. *)
loads_nothing(h) == ~h.load \/ (h.filesz = 0 /\ h.memsz = 0)

(* Mutant: the end of the segment is computed in 32 bits. *)
segmentErrorNarrow(f, h) ==
  CASE h.memsz < h.filesz -> "memsz"
    [] h.filesz > 0 /\ h.offset + h.filesz > f.size -> "past_end"
    [] OTHER -> "none"

(* The checks of one PT_LOAD header, in order. *)
segmentError(f, h) ==
  CASE h.memsz < h.filesz -> "memsz"
    [] h.vaddr + h.memsz > kAddressSpaceEnd -> "wraps"
    [] h.filesz > 0 /\ h.offset + h.filesz > f.size -> "past_end"
    [] OTHER -> "none"

(* The checks before the table is walked, in order. *)
headerError(f) ==
  CASE f.ident # "good" -> f.ident
    [] f.phnum = 0 \/ f.phoff = 0 -> "no_headers"
    [] f.phentsize # PhdrSize -> "phentsize"
    [] f.phoff + f.phnum * f.phentsize > f.size -> "table"
    [] OTHER -> "none"

(* The file's bytes, read while parsing. *)
toSegment(h) ==
  [vaddr |-> h.vaddr, filesz |-> h.filesz, memsz |-> h.memsz,
   data |-> [o \in 0 .. h.filesz - 1 |-> FileByte(h.offset + o)]]

(* One header: the first error ends the walk. *)
walkHeader(f, img, h) ==
  IF img.error # "none" \/ loads_nothing(h) THEN img
  ELSE IF segmentError(f, h) # "none" THEN [img EXCEPT !.error = segmentError(f, h)]
  ELSE [img EXCEPT !.segments = Append(@, toSegment(h))]

(* The image after the first i headers. *)
walked(f) ==
  LET w[i \in 0 .. Len(f.phdrs)] ==
        IF i = 0 THEN [NoImage EXCEPT !.entry = f.entry]
        ELSE walkHeader(f, w[i - 1], f.phdrs[i])
  IN  w

parse_elf(f) ==
  LET img == walked(f)[Len(f.phdrs)] IN
  IF headerError(f) # "none" THEN [NoImage EXCEPT !.error = headerError(f)]
  ELSE IF img.error = "none" /\ img.segments = <<>> THEN [img EXCEPT !.error = "no_segments"]
  ELSE img

-----------------------------------------------------------------------------
(* Loading *)

ElfInit ==
  /\ elf_mem = [a \in 0 .. MemSize - 1 |-> 0] /\ elf_pc = 0
  /\ before = [mem |-> elf_mem, pc |-> elf_pc]
  /\ image = NoImage /\ elf_file = NoFile
  /\ segment = 1 /\ off = 0 /\ phase = "idle" /\ loads = 0

(* load_elf_file_into_processor(): an image with an error is not loaded. *)
OpenElf ==
  \E f \in Files :
    /\ phase # "writing" /\ loads < MaxLoads
    /\ loads' = loads + 1
    /\ elf_file' = f
    /\ image' = parse_elf(f)
    /\ before' = [mem |-> elf_mem, pc |-> elf_pc]
    /\ segment' = 1 /\ off' = 0
    /\ phase' = IF image'.error = "none" THEN "writing" ELSE "failed"
    /\ UNCHANGED <<elf_mem, elf_pc>>

(* Mutant: memory between filesz and memsz is left as it was. *)
loadedByteNoBss(s, o, old) == IF o < s.filesz THEN s.data[o] ELSE old

(* The file's bytes, then zeros for .bss. *)
loadedByte(s, o, old) == IF o < s.filesz THEN s.data[o] ELSE 0

(* write_byte() fails outside memory, and the load with it. *)
WriteByte ==
  /\ phase = "writing"
  /\ segment <= Len(image.segments)
  /\ LET s == image.segments[segment]
         a == (s.vaddr + off) % kAddressSpaceEnd
     IN  /\ off < s.memsz
         /\ IF a < MemSize
            THEN /\ elf_mem' = [elf_mem EXCEPT ![a] = loadedByte(s, off, @)]
                 /\ IF off + 1 < s.memsz THEN off' = off + 1 /\ UNCHANGED segment
                    ELSE off' = 0 /\ segment' = segment + 1
                 /\ UNCHANGED phase
            ELSE phase' = "failed" /\ UNCHANGED <<elf_mem, segment, off>>
  /\ UNCHANGED <<elf_pc, before, image, elf_file, loads>>

(* Mutant: the PC is set first. *)
SetEntryEarly ==
  /\ phase = "writing"
  /\ elf_pc' = image.entry
  /\ phase' = IF segment > Len(image.segments) THEN "loaded" ELSE phase
  /\ UNCHANGED <<elf_mem, before, image, elf_file, segment, off, loads>>

(* set_pc(), when every segment is in memory. *)
SetEntry ==
  /\ phase = "writing" /\ segment > Len(image.segments)
  /\ elf_pc' = image.entry
  /\ phase' = "loaded"
  /\ UNCHANGED <<elf_mem, before, image, elf_file, segment, off, loads>>

ElfNext == OpenElf \/ WriteByte \/ SetEntry
ElfSpec == ElfInit /\ [][ElfNext]_elfVars

-----------------------------------------------------------------------------
(* Properties *)

Covers(h, a) == a \in h.vaddr .. h.vaddr + h.memsz - 1

(* What the file says memory has at address a: the last PT_LOAD header     *)
(* that covers it decides; elsewhere memory is as it was.                  *)
Expected(a) ==
  LET hs == {i \in 1 .. Len(elf_file.phdrs) :
               elf_file.phdrs[i].load /\ Covers(elf_file.phdrs[i], a)}
      h  == elf_file.phdrs[CHOOSE i \in hs : \A j \in hs : j <= i]
  IN  IF hs = {} THEN before.mem[a]
      ELSE IF a - h.vaddr < h.filesz THEN FileByte(h.offset + a - h.vaddr)
      ELSE 0

(* A load that succeeds puts exactly the file's image in memory, over      *)
(* whatever earlier loads left there, and starts at its entry point.       *)
ElfLoadIsExact ==
  phase = "loaded" => elf_pc = elf_file.entry /\ \A a \in DOMAIN elf_mem : elf_mem[a] = Expected(a)

(* An image that parse_elf accepts never makes the loader read past the    *)
(* file or past a segment's data, and its addresses do not wrap.           *)
ParsedImageIsSafe ==
  image.error = "none" =>
    \A i \in 1 .. Len(image.segments) :
      LET s == image.segments[i] IN
      /\ s.filesz <= s.memsz /\ DOMAIN s.data = 0 .. s.filesz - 1
      /\ s.vaddr + s.memsz <= kAddressSpaceEnd
      /\ \A o \in DOMAIN s.data : s.data[o] \in 1 .. elf_file.size

(* A load that has not succeeded leaves the PC where it was, and has       *)
(* written nothing outside the file's segments; a file that parse_elf      *)
(* rejects changes nothing.                                                *)
FailedLoadIsContained ==
  phase # "loaded" =>
    /\ elf_pc = before.pc
    /\ image.error # "none" => elf_mem = before.mem
    /\ \A a \in DOMAIN elf_mem :
         elf_mem[a] # before.mem[a] =>
           \E i \in 1 .. Len(image.segments) : Covers(image.segments[i], a)

(* The loader is safe on any file, exact when it succeeds and contained    *)
(* when it does not.                                                       *)
LoaderInv == ParsedImageIsSafe /\ ElfLoadIsExact /\ FailedLoadIsContained
=============================================================================
