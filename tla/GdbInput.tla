------------------------------ MODULE GdbInput ------------------------------
(***************************************************************************)
(* The receiving side of GdbStub: serve(), recv_packet(), read_byte() and  *)
(* poll_input() over a bounded receive buffer, against a GDB whose bytes   *)
(* arrive in pieces, with Ctrl-C at any moment, corrupted and oversized    *)
(* packets and a connection that may close.  What a packet does to the     *)
(* target is in GdbStub; here c enters the loop of handle_continue(), k    *)
(* and D end the session and any other packet is answered at once.  The    *)
(* result of cpu_.step() is a choice.                                      *)
(***************************************************************************)
EXTENDS Naturals, Sequences, SequencesExt

CONSTANTS
  Byte,                 \* the characters on the connection
  Code,                 \* the numeric value of a character
  HexDigit,             \* the value of the characters that are hex digits
  HexBase, CheckSize,   \* 16 and 256 in the code
  Unescaped,            \* c ^ 0x20
  kMaxPacketSize,
  kInterruptPollSteps,
  RxSize,               \* the size of rx_buf_
  Frames,               \* packets GDB sends: [bytes, ok, payload], ok FALSE for one that
                        \* is damaged or too long
  Noise,                \* what GDB sends between packets: acks
  MaxSends              \* how many times GDB sends in one session

Interrupt == "^C"
NoByte    == "none"

ASSUME InputAssumption ==
  /\ {Interrupt, "$", "#", "}", "c", "k", "D"} \subseteq Byte /\ NoByte \notin Byte
  /\ HexBase \in Nat \ {0} /\ CheckSize \in Nat \ {0}
  /\ Code \in [Byte -> Nat] /\ Unescaped \in [Byte -> Byte]
  /\ DOMAIN HexDigit \subseteq Byte /\ \A d \in DOMAIN HexDigit : HexDigit[d] \in 0 .. HexBase - 1
  /\ kMaxPacketSize \in Nat /\ MaxSends \in Nat
  /\ kInterruptPollSteps \in Nat \ {0} /\ RxSize \in Nat \ {0}
  /\ Frames \subseteq [bytes : Seq(Byte), ok : BOOLEAN, payload : Seq(Byte)]
  /\ Noise \subseteq Seq(Byte)

VARIABLES
  gdb,        \* bytes GDB has written that have not arrived
  open,       \* GDB has not closed the connection
  sock,       \* bytes that have arrived and recv() has not taken
  rx,         \* rx_buf_ between rx_begin_ and rx_end_
  mode,       \* where serve() is
  out,        \* the packet being read
  too_long,
  hi,         \* the first checksum character
  steps,      \* steps of handle_continue modulo kInterruptPollSteps
  sends,      \* how often GDB has sent
  sent, got,  \* packets sent intact, and packets dispatched
  arrived,    \* how many Ctrl-C have arrived
  inside,     \* how many Ctrl-C were read as part of a packet
  sigints,    \* SIGINT stop replies
  waited      \* instructions run since a Ctrl-C could be read, up to the limit

peer    == <<gdb, open, sends, sent>>
packet  == <<out, too_long, hi>>
history == <<got, arrived, inside, sigints>>
vars    == <<peer, sock, rx, mode, packet, steps, history, waited>>

InPacket == {"payload", "hi", "lo"}

-----------------------------------------------------------------------------
(* Framing *)

checksum(data) == FoldLeft(LAMBDA sum, c : (sum + Code[c]) % CheckSize, 0, data)

checksum_matches(data, h, l) ==
  /\ {h, l} \subseteq DOMAIN HexDigit
  /\ HexDigit[h] * HexBase + HexDigit[l] = checksum(data)

(* ok is FALSE for a payload that ends inside an escape. *)
unescape(raw) ==
  LET mark[i \in 0 .. Len(raw)] == IF i = 0 THEN FALSE ELSE raw[i] = "}" /\ ~mark[i - 1]
      text[i \in 0 .. Len(raw)] ==
        IF i = 0 THEN <<>>
        ELSE IF mark[i] THEN text[i - 1]
        ELSE Append(text[i - 1], IF mark[i - 1] THEN Unescaped[raw[i]] ELSE raw[i])
  IN  [ok |-> ~mark[Len(raw)], out |-> text[Len(raw)]]

(* Mutant: the checksum is taken over the decoded bytes. *)
DecodedLate(raw, long, h, l) ==
  [ok |-> ~long /\ unescape(raw).ok /\ checksum_matches(unescape(raw).out, h, l),
   out |-> unescape(raw).out]

(* A packet is acknowledged, or refused and asked for again. *)
Decoded(raw, long, h, l) ==
  [ok |-> ~long /\ checksum_matches(raw, h, l) /\ unescape(raw).ok, out |-> unescape(raw).out]

-----------------------------------------------------------------------------
(* GDB *)

(* A packet is $raw#hl.  It is intact when the stub can keep it, the       *)
(* checksum is that of raw and no escape is cut off; the payload GDB means *)
(* is raw without its escapes.                                             *)
IsFrame(f) ==
  LET n   == Len(f.bytes)
      raw == SubSeq(f.bytes, 2, n - 3)
  IN  /\ n >= 4 /\ f.bytes[1] = "$" /\ f.bytes[n - 2] = "#"
      /\ \A i \in DOMAIN raw : raw[i] # "#"
      /\ f.ok = (/\ Len(raw) <= kMaxPacketSize
                 /\ checksum_matches(raw, f.bytes[n - 1], f.bytes[n])
                 /\ unescape(raw).ok)
      /\ f.ok => f.payload = unescape(raw).out

(* k and D stand alone: a process id belongs to the multiprocess feature,  *)
(* which the stub does not announce.  Nothing else GDB sends has a "$".    *)
ASSUME FramesAssumption ==
  /\ \A f \in Frames : IsFrame(f) /\ (f.ok /\ f.payload # <<>> /\ Head(f.payload) \in {"k", "D"}
                                        => Len(f.payload) = 1)
  /\ \A bytes \in Noise : \A i \in DOMAIN bytes : bytes[i] # "$"

Interrupts(s) == Cardinality({i \in DOMAIN s : s[i] = Interrupt})

IsContinue(p) == p # <<>> /\ Head(p) = "c"

(* All-stop: GDB sends no packet while the target runs or is about to. *)
TargetStopped ==
  /\ mode # "running"
  /\ \A i \in Len(got) + 1 .. Len(sent) : ~IsContinue(sent[i])

Send(bytes) ==
  /\ open /\ mode # "ended" /\ gdb = <<>> /\ sends < MaxSends
  /\ gdb' = bytes
  /\ sends' = sends + 1
  /\ UNCHANGED <<open, sock, rx, mode, packet, steps, history, waited>>

SendPacket(f) ==
  /\ TargetStopped
  /\ Send(f.bytes)
  /\ sent' = IF f.ok THEN Append(sent, f.payload) ELSE sent

SendOther(bytes) == Send(bytes) /\ UNCHANGED sent

(* The bytes arrive in pieces of any size. *)
Arrive ==
  /\ mode # "ended"
  /\ \E n \in 1 .. Len(gdb) :
       /\ sock' = sock \o SubSeq(gdb, 1, n)
       /\ gdb' = SubSeq(gdb, n + 1, Len(gdb))
       /\ arrived' = arrived + Interrupts(SubSeq(gdb, 1, n))
  /\ UNCHANGED <<open, sends, sent, rx, mode, packet, steps, got, inside, sigints, waited>>

PeerClose ==
  /\ open /\ mode # "ended"
  /\ open' = FALSE
  /\ gdb' = <<>>
  /\ UNCHANGED <<sends, sent, sock, rx, mode, packet, steps, history, waited>>

-----------------------------------------------------------------------------
(* serve() and recv_packet(), one character at a time *)

(* recv() in read_byte(), called on an empty buffer. *)
Fill ==
  /\ mode \in {"between"} \cup InPacket
  /\ rx = <<>> /\ sock # <<>>
  /\ LET n == Min({Len(sock), RxSize}) IN
       /\ rx' = SubSeq(sock, 1, n)
       /\ sock' = SubSeq(sock, n + 1, Len(sock))
  /\ UNCHANGED <<peer, mode, packet, steps, history, waited>>

(* read_byte() fails: the session is over, also inside a packet. *)
ReadClosed ==
  /\ mode \in {"between"} \cup InPacket
  /\ rx = <<>> /\ sock = <<>> /\ ~open
  /\ mode' = "ended"
  /\ UNCHANGED <<peer, sock, rx, packet, steps, history, waited>>

read_byte(c) ==
  /\ rx # <<>> /\ c = Head(rx)
  /\ rx' = Tail(rx)
  /\ UNCHANGED <<peer, sock, arrived, waited>>

ForgetPacket == out' = <<>> /\ too_long' = FALSE /\ hi' = NoByte

SkipToStart ==
  /\ mode = "between"
  /\ \E c \in Byte :
       /\ read_byte(c)
       /\ mode' = IF c = "$" THEN "payload" ELSE mode
       /\ sigints' = IF c = Interrupt THEN sigints + 1 ELSE sigints
  /\ UNCHANGED <<packet, steps, got, inside>>

(* Mutant: the limit is off by one. *)
StoreOneMore(c) ==
  IF Len(out) <= kMaxPacketSize THEN out' = Append(out, c) /\ UNCHANGED too_long
  ELSE too_long' = TRUE /\ UNCHANGED out

Store(c) ==
  IF Len(out) < kMaxPacketSize THEN out' = Append(out, c) /\ UNCHANGED too_long
  ELSE too_long' = TRUE /\ UNCHANGED out

ReadPayload ==
  /\ mode = "payload"
  /\ \E c \in Byte :
       /\ read_byte(c)
       /\ \/ c = "#" /\ mode' = "hi" /\ UNCHANGED <<out, too_long>>
          \/ c # "#" /\ Store(c) /\ UNCHANGED mode
       /\ inside' = IF c = Interrupt THEN inside + 1 ELSE inside
  /\ UNCHANGED <<hi, steps, got, sigints>>

ReadHi ==
  /\ mode = "hi"
  /\ \E c \in Byte :
       /\ read_byte(c)
       /\ hi' = c
       /\ inside' = IF c = Interrupt THEN inside + 1 ELSE inside
  /\ mode' = "lo"
  /\ UNCHANGED <<out, too_long, steps, got, sigints>>

(* c starts the target, k and D end the session. *)
dispatch(pkt) ==
  mode' = IF IsContinue(pkt) THEN "running"
          ELSE IF pkt # <<>> /\ Head(pkt) \in {"k", "D"} THEN "ended"
          ELSE "between"

(* The packet is complete: it is dispatched, or refused with '-'. *)
ReadLo ==
  /\ mode = "lo"
  /\ \E c \in Byte :
       /\ read_byte(c)
       /\ LET p == Decoded(out, too_long, hi, c) IN
            \/ p.ok /\ dispatch(p.out) /\ got' = Append(got, p.out)
            \/ ~p.ok /\ mode' = "between" /\ UNCHANGED got
       /\ inside' = IF c = Interrupt THEN inside + 1 ELSE inside
  /\ ForgetPacket
  /\ UNCHANGED <<steps, sigints>>

-----------------------------------------------------------------------------
(* handle_continue() *)

FirstInterrupt(s) == SelectInSeq(s, LAMBDA c : c = Interrupt)

(* The non-blocking recv() behind the bytes kept, and the scan.  recv()    *)
(* also returns 0 when there is no room.                                   *)
Polled(kept, scanned) ==
  LET n   == Min({Len(sock), RxSize - Len(kept)})
      buf == kept \o SubSeq(sock, 1, n)
      at  == FirstInterrupt(SubSeq(buf, scanned + 1, Len(buf)))
  IN  [sock  |-> SubSeq(sock, n + 1, Len(sock)),
       rx    |-> IF at > 0 THEN SubSeq(buf, scanned + at + 1, Len(buf)) ELSE buf,
       input |-> IF at > 0 THEN "Interrupt"
                 ELSE IF n = 0 /\ (Len(kept) = RxSize \/ (sock = <<>> /\ ~open)) THEN "Closed"
                 ELSE "Idle"]

(* Mutant: a full buffer is kept. *)
poll_input_keeps == Polled(rx, 0)

(* Mutant: the buffer is emptied before each read. *)
poll_input_drops == Polled(<<>>, 0)

(* Mutant: only what has just been received is scanned. *)
poll_input_new_only ==
  LET kept == IF Len(rx) = RxSize THEN <<>> ELSE rx IN Polled(kept, Len(kept))

(* A full buffer is dropped to make room. *)
poll_input == Polled(IF Len(rx) = RxSize THEN <<>> ELSE rx, 0)

(* ++steps % kInterruptPollSteps == 0 *)
PollIsDue == (steps + 1) % kInterruptPollSteps = 0

(* A Ctrl-C that has arrived and fits into the buffer. *)
InterruptReadable ==
  LET s == rx \o sock IN FirstInterrupt(SubSeq(s, 1, Min({Len(s), RxSize}))) > 0

StopTarget == mode' = "between" /\ steps' = 0 /\ waited' = 0

(* cpu_.step(): a result other than Ok stops the target. *)
RunInstruction ==
  \/ /\ mode' = mode
     /\ steps' = (steps + 1) % kInterruptPollSteps
     /\ waited' = IF InterruptReadable THEN Min({waited + 1, kInterruptPollSteps}) ELSE 0
  \/ StopTarget

ContinueTurn ==
  /\ mode = "running" /\ ~PollIsDue
  /\ RunInstruction
  /\ UNCHANGED <<peer, sock, rx, packet, history>>

PollTurn ==
  /\ mode = "running" /\ PollIsDue
  /\ LET p == poll_input IN
       /\ rx' = p.rx /\ sock' = p.sock
       /\ \/ p.input = "Interrupt" /\ StopTarget
          \/ p.input = "Closed" /\ StopTarget
          \/ p.input = "Idle" /\ RunInstruction
       /\ sigints' = IF p.input = "Interrupt" THEN sigints + 1 ELSE sigints
  /\ UNCHANGED <<peer, packet, got, arrived, inside>>

-----------------------------------------------------------------------------
(* Sessions *)

(* Mutant: the buffer of the last session is kept. *)
configure_client_socket_keeps == rx' = rx

configure_client_socket == rx' = <<>>

(* listen() is called again and GDB connects. *)
Listen ==
  /\ mode = "ended"
  /\ configure_client_socket
  /\ mode' = "between" /\ open' = TRUE /\ gdb' = <<>> /\ sock' = <<>>
  /\ sends' = 0 /\ sent' = <<>> /\ got' = <<>>
  /\ arrived' = 0 /\ inside' = 0 /\ sigints' = 0
  /\ ForgetPacket
  /\ UNCHANGED <<steps, waited>>

Init ==
  /\ gdb = <<>> /\ open = TRUE /\ sock = <<>> /\ rx = <<>>
  /\ mode = "between"
  /\ out = <<>> /\ too_long = FALSE /\ hi = NoByte
  /\ steps = 0 /\ sends = 0
  /\ sent = <<>> /\ got = <<>>
  /\ arrived = 0 /\ inside = 0 /\ sigints = 0 /\ waited = 0

Stub ==
  Fill \/ ReadClosed \/ SkipToStart \/ ReadPayload \/ ReadHi \/ ReadLo \/ ContinueTurn \/ PollTurn

Next ==
  \/ \E f \in Frames : SendPacket(f)
  \/ \E bytes \in Noise \cup {<<Interrupt>>} : SendOther(bytes)
  \/ Arrive
  \/ PeerClose
  \/ Stub
  \/ Listen

Spec == Init /\ [][Next]_vars

(* The stub's thread runs on. *)
FairSpec == Spec /\ WF_vars(Stub)

-----------------------------------------------------------------------------
(* Properties *)

(* Type correctness; the receive buffer and the packet stay within their   *)
(* limits whatever GDB sends.                                              *)
InputTypeOK ==
  /\ gdb \in Seq(Byte) /\ sock \in Seq(Byte)
  /\ rx \in Seq(Byte) /\ Len(rx) <= RxSize
  /\ out \in Seq(Byte) /\ Len(out) <= kMaxPacketSize
  /\ open \in BOOLEAN /\ too_long \in BOOLEAN
  /\ mode \in {"between", "running", "ended"} \cup InPacket
  /\ hi \in Byte \cup {NoByte}
  /\ steps \in 0 .. kInterruptPollSteps - 1
  /\ sends \in 0 .. MaxSends
  /\ sent \in Seq(Seq(Byte)) /\ got \in Seq(Seq(Byte))
  /\ {arrived, inside, sigints, waited} \subseteq Nat

(* Every Ctrl-C that has arrived is still waiting in the socket or the     *)
(* buffer, was a character of a packet, or has been answered by exactly    *)
(* one SIGINT: none is lost when a full buffer is dropped, when the target *)
(* stops by itself at the same moment or when a session follows another,   *)
(* and none is answered twice.                                             *)
InterruptsAccounted ==
  arrived = Interrupts(sock) + Interrupts(rx) + inside + sigints

(* The reason poll_input() may drop a full buffer: it has been scanned. *)
FullBufferHasNoInterrupt ==
  mode = "running" /\ Len(rx) = RxSize => Interrupts(rx) = 0

(* Packets cut at any byte by recv(), between acks, Ctrl-C and packets     *)
(* that are refused, are dispatched in the order GDB sent them, each once, *)
(* with the payload GDB meant, and none is missing once the input is used  *)
(* up.                                                                     *)
PacketsInOrder ==
  /\ IsPrefix(got, sent)
  /\ mode = "between" /\ gdb \o sock \o rx = <<>> /\ open => got = sent

(* The target runs on until it stops by itself, a SIGINT is answered or    *)
(* the connection has closed, and the session ends only when GDB asked for *)
(* it or has gone: a full buffer is not taken for a closed connection, and *)
(* a target that stops by itself ends its c only, as gdb_stub.h:11-13 says *)
(* (line 72 of the header says that a halt ends the session, which the     *)
(* code does not do).                                                      *)
StopsForAReason ==
  [][/\ mode = "running" /\ mode' # "running" /\ PollTurn /\ poll_input.input = "Closed" => ~open
     /\ mode # "ended" /\ mode' = "ended" => ~open \/ Last(got') \in {<<"k">>, <<"D">>}]_vars

(* gdb_stub.h: a Ctrl-C stops a running c within kInterruptPollSteps       *)
(* instructions, unless more than a buffer of other bytes is ahead of it.  *)
InterruptIsPrompt == waited < kInterruptPollSteps

(* Every Ctrl-C that arrives is eventually answered, or read as part of a  *)
(* packet, or the session has ended, also when the target never stops by   *)
(* itself.                                                                 *)
InterruptAnswered ==
  \A k \in 1 .. MaxSends :
    (mode # "ended" /\ arrived = k) ~> (inside + sigints >= k \/ mode = "ended")

(* The input keeps its bounds and loses no Ctrl-C, even when a full buffer *)
(* is dropped, and answers each within the poll interval.                  *)
InputInv ==
  InputTypeOK /\ InterruptsAccounted /\ FullBufferHasNoInterrupt /\ InterruptIsPrompt
=============================================================================
