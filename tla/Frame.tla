------------------------------- MODULE Frame -------------------------------
(***************************************************************************)
(* The wire format of ms605/protocol.py: TLV frames between 55AA and AA55  *)
(* with a 16-bit CRC, cut into chunks and put together again. Bytes are    *)
(* 0..255, a byte string is a sequence of them.                            *)
(***************************************************************************)
EXTENDS Integers, Sequences, FiniteSets, FiniteSetsExt, SequencesExt

MagicHead == <<85, 170>>
MagicTail == <<170, 85>>
SubdevType == 192
TriggerSrc == 17
PushTriggerSrc == 0
MaxFrameBody == 4096  \* a larger declared body is taken for garbage

U16(n) == <<n \div 256, n % 256>>
FromU16(b) == 256 * b[1] + b[2]

(* -- CRC-16/CCITT-FALSE: poly 0x1021, init 0xFFFF ------------------------- *)

Bit(n, i) == (n \div 2^i) % 2
Xor(a, b) == SumSet({2^i : i \in {j \in 0..15 : Bit(a, j) # Bit(b, j)}})

XorByte == [a \in 0..255 |-> [b \in 0..255 |-> Xor(a, b)]]

\* what the eight shifts of one byte do to the high byte of the register
CrcOfByte ==
  [h \in 0..255 |->
     LET crc[n \in 0..8] ==
           IF n = 0 THEN 256 * h
           ELSE IF crc[n - 1] >= 32768 THEN Xor((2 * crc[n - 1]) % 65536, 4129) ELSE 2 * crc[n - 1] IN
     U16(crc[8])]

CrcStep(crc, byte) ==
  LET t == CrcOfByte[XorByte[crc \div 256][byte]] IN 256 * XorByte[t[1]][crc % 256] + t[2]

\* crc[c, i, j]: the register after bytes i..j, if it was c before them; by
\* halves, as the model checker nests as deep as a definition recurs
Crc(bytes) ==
  LET crc[c \in 0..65535, i \in 1..(Len(bytes) + 1), j \in 0..Len(bytes)] ==
        IF i > j THEN c
        ELSE IF i = j THEN CrcStep(c, bytes[i])
        ELSE crc[crc[c, i, (i + j) \div 2], (i + j) \div 2 + 1, j] IN
  crc[65535, 1, Len(bytes)]

(* -- frames --------------------------------------------------------------- *)

\* an attribute is <<tag, value>>
Tlv(attr) == <<attr[1]>> \o U16(Len(attr[2])) \o attr[2]

SerializeFrame(attrs, msgId, src) ==
  LET body == <<src, msgId>> \o FlattenSeq([i \in DOMAIN attrs |-> Tlv(attrs[i])]) IN
  MagicHead \o <<SubdevType>> \o U16(Len(body)) \o body \o U16(Crc(body)) \o MagicTail

Trailer == <<1, <<6>>>>  \* the system sub-command every command ends with

BuildCommand(attrs, msgId) == SerializeFrame(Append(attrs, Trailer), msgId, TriggerSrc)

BuildFrameRaw(attrs, msgId, src) == SerializeFrame(attrs, msgId, src)

Unparsable == [attrs |-> <<>>, msgId |-> 0, crcOk |-> FALSE, ok |-> FALSE]

BadAttribute == <<-1, <<>>>>  \* a length that does not fit

\* one more attribute: [rest, attrs], the bytes still to be read and what was
NextAttribute(r) ==
  LET n == FromU16(SubSeq(r.rest, 2, 3)) IN
  IF r.rest = <<>> THEN r
  ELSE IF Len(r.rest) < 3 \/ 3 + n > Len(r.rest)
  THEN [rest |-> <<>>, attrs |-> Append(r.attrs, BadAttribute)]
  ELSE [rest |-> SubSeq(r.rest, 4 + n, Len(r.rest)),
        attrs |-> Append(r.attrs, <<r.rest[1], SubSeq(r.rest, 4, 3 + n)>>)]

\* an attribute takes three bytes at least, only a last bad one fewer
Attributes(bytes) ==
  LET turns == Len(bytes) \div 3 + 1
      read[i \in 0..turns] ==
        IF i = 0 THEN [rest |-> bytes, attrs |-> <<>>] ELSE NextAttribute(read[i - 1]) IN
  read[turns].attrs

\* A structural fault is an error; a wrong CRC is only reported.
ParseFrame(p) ==
  IF \/ Len(p) < 11
     \/ SubSeq(p, 1, 2) # MagicHead \/ SubSeq(p, Len(p) - 1, Len(p)) # MagicTail
     \/ FromU16(SubSeq(p, 4, 5)) + 9 # Len(p)
  THEN Unparsable
  ELSE LET body == SubSeq(p, 6, Len(p) - 4)
           attrs == Attributes(SubSeq(body, 3, Len(body))) IN
       IF Len(attrs) > 0 /\ Last(attrs) = BadAttribute THEN Unparsable
       ELSE [attrs |-> attrs, msgId |-> body[2], ok |-> TRUE,
             crcOk |-> SubSeq(p, Len(p) - 3, Len(p) - 2) = U16(Crc(body))]

\* ParsedFrame.get(): the first value of a tag, <<>> if there is none
GetAll(frame, tag) ==
  LET hits == SelectSeq(frame.attrs, LAMBDA a : a[1] = tag) IN
  [i \in DOMAIN hits |-> hits[i][2]]
Get(frame, tag) == IF GetAll(frame, tag) = <<>> THEN <<>> ELSE GetAll(frame, tag)[1]

\* the first status that is not 0; 0 if all are
FirstErrorStatus(frame) ==
  LET bad == SelectSeq(GetAll(frame, 3), LAMBDA v : v # <<>> /\ v[1] # 0) IN
  IF bad = <<>> THEN 0 ELSE bad[1][1]

NextMsgId(id) == IF id = 255 THEN 1 ELSE id + 1  \* 0 marks a push

(* -- chunks ------------------------------------------------------------------ *)

ChunkFrame(frame, size) ==
  [i \in 1..((Len(frame) + size - 1) \div size) |->
     SubSeq(frame, (i - 1) * size + 1, IF i * size < Len(frame) THEN i * size ELSE Len(frame))]

Heads(buf) == {i \in 1..(Len(buf) - 1) : buf[i] = 85 /\ buf[i + 1] = 170}

FirstHead(buf) == CHOOSE i \in Heads(buf) : \A j \in Heads(buf) : i <= j

\* the length a frame declares
Declared(b) == FromU16(SubSeq(b, 4, 5)) + 9

\* One turn of FrameReassembler.feed(): it takes a frame out of the buffer, or
\* passes a head that is none, or leaves what needs more bytes.
Turn(r) ==
  LET b == SubSeq(r.buf, FirstHead(r.buf), Len(r.buf))  n == Declared(b) IN
  IF Heads(r.buf) = {}
  THEN \* nothing but, perhaps, the first half of a head
       [r EXCEPT !.buf = SubSeq(@, IF Len(@) > 1 THEN Len(@) ELSE 1, Len(@))]
  ELSE IF Len(b) < 5 \/ (n <= MaxFrameBody + 9 /\ Len(b) < n) THEN [r EXCEPT !.buf = b]
  ELSE IF n > MaxFrameBody + 9 \/ SubSeq(b, n - 1, n) # MagicTail THEN [r EXCEPT !.buf = Tail(b)]
  ELSE [buf |-> SubSeq(b, n + 1, Len(b)), frames |-> Append(r.frames, SubSeq(b, 1, n))]

\* a turn that is not the last one uses up a head
Extract(buf) ==
  LET turns == Cardinality(Heads(buf)) + 1
      r[n \in 0..turns] == IF n = 0 THEN [buf |-> buf, frames |-> <<>>] ELSE Turn(r[n - 1]) IN
  r[turns]

\* Mutant of Feed: a chunk that begins like a frame is taken for one.
FeedRestartsAtHead(buf, chunk) ==
  Extract(IF Len(chunk) > 1 /\ SubSeq(chunk, 1, 2) = MagicHead THEN chunk ELSE buf \o chunk)

Feed(buf, chunk) == Extract(buf \o chunk)
=============================================================================
