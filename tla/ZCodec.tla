------------------------------- MODULE ZCodec -------------------------------
(***************************************************************************)
(* The byte level of go-zmodem: the ZDLE escape codec (transportWriter in  *)
(* writer.go with buildEscapeTable / escapeRequired, transportReader in    *)
(* reader.go) and the frame codec built on it (sendHexHeader,              *)
(* sendBinHeader, sendSubpacket, recvHeader, recvHexHeader, recvBinHeader, *)
(* recvSubpacketCRC16).  One session's writer sends frames, in the order   *)
(* the protocol allows, into a line that a flow-controlled path may        *)
(* sprinkle with XON/XOFF bytes; the peer's reader decodes them.  Bytes    *)
(* are naturals in 0..255; the writer and reader keep their state across   *)
(* frames exactly as the Go structs do (lastSent, canCount, garbageCount). *)
(* CRC-16 mode only: CRC-32 follows the same escaping path.                *)
(***************************************************************************)
EXTENDS Naturals, Sequences, SequencesExt, Bitwise

CONSTANTS
    Payloads,    \* data subpacket payloads the writer may send
    HexTypes,    \* frame types sent as hex headers
    BinTypes,    \* frame types sent as binary headers
    HdrData,     \* header data fields (4 bytes each)
    FlowBytes,   \* XON/XOFF variants a flow-controlled line may insert
    Znulls,      \* Config.Znulls: NULs before a ZDATA header
    GarbageMax,  \* Config.GarbageThreshold
    MaxLen,      \* recvSubpacket maxLen
    MaxFrames,   \* bound on the frames one behaviour sends
    MaxNoise     \* bound on inserted flow-control bytes

\* Protocol constants (frame_test.go, where this repository declares them).
ZPAD == 42
ZDLE == 24
CAN == 24
ZBIN == 65
ZHEX == 66
ZBIN32 == 67
Unsupported == {68, 97, 98, 99, 100}   \* ZBINR32, ZVBIN, ZVHEX, ZVBIN32, ZVBINR32
XON == 17
XOFF == 19
ZRINIT == 1
ZSINIT == 2
ZACK == 3
ZFILE == 4
ZFIN == 8
ZDATA == 10
ZCRCE == 104
ZCRCG == 105
ZCRCQ == 106
ZCRCW == 107
ZRUB0 == 108
ZRUB1 == 109
EndTypes == {ZCRCE, ZCRCG, ZCRCQ, ZCRCW}
Byte == 0..255

(***************************************************************************)
(* Escape table (src/unnamed/part_000).                                    *)
(***************************************************************************)
escSend == 0
escMust == 1
escIfAtCR == 2
AlwaysEscaped == {24, 16, 17, 19, 144, 145, 147, 152}
CRBytes == {13, 141}
ControlBytes == (0..31) \cup (128..159)

buildEscapeTable(escapeAll) ==
    [b \in Byte |-> CASE b \in AlwaysEscaped -> escMust
                      [] b \in CRBytes -> escIfAtCR
                      [] escapeAll /\ b \in ControlBytes -> escMust
                      [] OTHER -> escSend]

TableStandard == buildEscapeTable(FALSE)
TableAll == buildEscapeTable(TRUE)
Table(escapeAll) == IF escapeAll THEN TableAll ELSE TableStandard

escapeRequired(escapeAll, b, lastSent) ==
    \/ Table(escapeAll)[b] = escMust
    \/ Table(escapeAll)[b] = escIfAtCR /\ lastSent \in {64, 192}

(***************************************************************************)
(* transportWriter.  A writer value w is [out, last, all]: the bytes this  *)
(* call emits, tw.lastSent and tw.escapeAll.                               *)
(***************************************************************************)
writeRaw(w, data) ==
    [w EXCEPT !.out = @ \o data,
              !.last = IF data = <<>> THEN @ ELSE data[Len(data)]]

\* Mutant: lastSent records the byte escaped, not the byte emitted.
writeEscapedByteStaleLast(w, b) ==
    IF escapeRequired(w.all, b, w.last)
    THEN [w EXCEPT !.out = @ \o <<ZDLE, b ^^ 64>>, !.last = b]
    ELSE [w EXCEPT !.out = Append(@, b), !.last = b]

writeEscapedByte(w, b) ==
    IF escapeRequired(w.all, b, w.last)
    THEN [w EXCEPT !.out = @ \o <<ZDLE, b ^^ 64>>, !.last = b ^^ 64]
    ELSE [w EXCEPT !.out = Append(@, b), !.last = b]

writeEscaped(w, data) == FoldLeft(writeEscapedByte, w, data)

HexDigit(n) == IF n < 10 THEN 48 + n ELSE 87 + n

\* writeHex goes to the bufio.Writer directly: lastSent is not updated.
writeHex(w, b) == [w EXCEPT !.out = @ \o <<HexDigit(b \div 16), HexDigit(b % 16)>>]

(***************************************************************************)
(* CRC-16/XMODEM, polynomial 0x1021, in the register form that needs the  *)
(* two-zero-byte finalization (spec 4.2; crc16Update is not in src/).      *)
(***************************************************************************)
RECURSIVE CrcShift(_, _, _)
CrcShift(c, b, k) ==
    LET bit == (b \div 2^(k - 1)) % 2
        c1 == ((c * 2) % 65536) + bit
    IN  IF k = 0 THEN c
        ELSE CrcShift(IF c >= 32768 THEN c1 ^^ 4129 ELSE c1, b, k - 1)

crc16Byte(c, b) == CrcShift(c, b, 8)
RECURSIVE crc16Update(_, _)
crc16Update(c, data) ==
    CASE data = <<>> -> c
      [] c \in 0..65535 -> crc16Update(crc16Byte(c, Head(data)), Tail(data))

crc16Finalize(c) == crc16Update(c, <<0, 0>>)
crc16Calc(data) == crc16Finalize(crc16Update(0, data))
crc16Verify(data) == crc16Update(0, data) = 0
CrcBytes(c) == <<c \div 256, c % 256>>

(***************************************************************************)
(* Frame encoders.                                                         *)
(***************************************************************************)
sendHexHeader(w, type, d) ==
    LET payload == <<type>> \o d
        w1 == writeRaw(w, <<ZPAD, ZPAD, ZDLE, ZHEX>>)
        w2 == FoldLeft(writeHex, w1, payload \o CrcBytes(crc16Calc(payload)))
        w3 == writeRaw(w2, <<13, 10>>)
    IN  IF type \notin {ZACK, ZFIN} THEN writeRaw(w3, <<XON>>) ELSE w3

sendBinHeader(w, type, d) ==
    LET payload == <<type>> \o d
        w1 == writeRaw(w, <<ZPAD, ZDLE, ZBIN>>)
    IN  writeEscaped(writeEscaped(w1, payload), CrcBytes(crc16Calc(payload)))

sendBinHeaderWithZnulls(w, type, d) ==
    sendBinHeader(IF Znulls > 0 THEN writeRaw(w, [i \in 1..Znulls |-> 0]) ELSE w, type, d)

sendSubpacket(w, data, end) ==
    LET crc == crc16Finalize(crc16Update(crc16Update(0, data), <<end>>))
        w1 == writeRaw(writeEscaped(w, data), <<ZDLE, end>>)
        w2 == writeEscaped(w1, CrcBytes(crc))
    IN  IF end = ZCRCW THEN writeRaw(w2, <<XON>>) ELSE w2

(***************************************************************************)
(* transportReader.  A reader value r is [line, can, garbage]: the bytes  *)
(* not yet read, canCount and garbageCount.  A read returns [ok, b, fe, r] *)
(* (byte, frame end, reader after the read).  A read past the end of the   *)
(* line is the deadline expiring: an error.                               *)
(***************************************************************************)
Got(b, fe, r) == [ok |-> TRUE, b |-> b, fe |-> fe, r |-> r]
Fail(r) == [ok |-> FALSE, b |-> 0, fe |-> 0, r |-> r]

readByte(r) ==
    IF r.line = <<>> THEN Fail(r)
    ELSE Got(Head(r.line), 0, [r EXCEPT !.line = Tail(@)])

\* Mutant: XON/XOFF stripped without masking the parity bit.
IsFlowControlNoMask(b) == b \in {XON, XOFF}

IsFlowControl(b) == b % 128 \in {XON, XOFF}

RECURSIVE readByteStrip(_)
readByteStrip(r) ==
    LET x == readByte(r)
    IN  IF x.ok /\ IsFlowControl(x.b) THEN readByteStrip(x.r) ELSE x

RECURSIVE zdlRead(_), zdlEscape(_)
zdlRead(r) ==
    LET x == readByteStrip(r)
    IN  CASE ~x.ok -> x
          [] x.b = ZDLE /\ x.r.can + 1 >= 5 -> Fail([x.r EXCEPT !.can = @ + 1])
          [] x.b = ZDLE -> zdlEscape([x.r EXCEPT !.can = @ + 1])
          [] OTHER -> Got(x.b, 0, [x.r EXCEPT !.can = 0])

zdlEscape(r) ==
    LET x == readByteStrip(r)
        c == x.b
        reset == [x.r EXCEPT !.can = 0]
    IN  CASE ~x.ok -> x
          [] c \in EndTypes -> Got(0, c, reset)
          [] c = ZRUB0 -> Got(127, 0, reset)
          [] c = ZRUB1 -> Got(255, 0, reset)
          [] c >= 64 -> Got(c ^^ 64, 0, reset)
          [] c = CAN /\ x.r.can + 1 >= 5 -> Fail([x.r EXCEPT !.can = @ + 1])
          [] c = CAN -> zdlRead([x.r EXCEPT !.can = @ + 1])
          [] OTHER -> zdlRead(x.r)

hexVal(b) ==
    CASE b \in 48..57 -> b - 48
      [] b \in 97..102 -> b - 87
      [] b \in 65..70 -> b - 55
      [] OTHER -> -1

readHex(r) ==
    LET hi == readByte(r)
        lo == readByte(hi.r)
        h == hexVal(hi.b % 128)
        l == hexVal(lo.b % 128)
    IN  IF hi.ok /\ lo.ok /\ h >= 0 /\ l >= 0 THEN Got(h * 16 + l, 0, lo.r) ELSE Fail(lo.r)

(***************************************************************************)
(* scanForPad: its loop is ScanLoop; canCount is cleared once on entry.    *)
(***************************************************************************)
RECURSIVE ScanLoop(_), Junk(_)
\* Mutant: a garbage byte counted without the GarbageThreshold check.
JunkUnchecked(r) == ScanLoop([r EXCEPT !.garbage = @ + 1])

\* One garbage byte: counted, then checked against the threshold.
Junk(r) ==
    LET r1 == [r EXCEPT !.garbage = @ + 1]
    IN  IF r1.garbage > GarbageMax THEN Fail(r1) ELSE ScanLoop(r1)

ScanLoop(r) ==
    LET x == readByte(r)
        r1 == [x.r EXCEPT !.can = 0]
        y == readByte(r1)
        z == IF y.ok /\ y.b = ZPAD THEN readByte(y.r) ELSE y
        e == readByte(z.r)
    IN  CASE ~x.ok -> x
          [] x.b = CAN /\ x.r.can + 1 >= 5 -> Fail([x.r EXCEPT !.can = @ + 1])
          [] x.b = CAN -> Junk([x.r EXCEPT !.can = @ + 1])
          [] x.b # ZPAD -> Junk(r1)
          [] ~z.ok -> z
          [] z.b # ZDLE -> Junk(z.r)
          [] ~e.ok -> e
          [] e.b \in {ZBIN, ZHEX, ZBIN32} -> Got(e.b, 0, [e.r EXCEPT !.garbage = 0])
          [] e.b \in Unsupported -> Fail(e.r)
          [] OTHER -> Junk(e.r)

scanForPad(r) == ScanLoop([r EXCEPT !.can = 0])

(***************************************************************************)
(* Frame decoders.  A frame is [kind, type, data, end]: kind "hex" or     *)
(* "bin" for a header (end 0), "sub" for a data subpacket (type 0).        *)
(***************************************************************************)
Frame(kind, type, data, end) == [kind |-> kind, type |-> type, data |-> data, end |-> end]
Decoded(f, r) == [ok |-> TRUE, frame |-> f, r |-> r]
Rejected(r) == [ok |-> FALSE, frame |-> Frame("none", 0, <<>>, 0), r |-> r]

RECURSIVE ReadHexN(_, _, _)
ReadHexN(r, n, acc) ==
    LET x == readHex(r)
    IN  CASE n = 0 -> Got(acc, 0, r)
          [] ~x.ok -> x
          [] OTHER -> ReadHexN(x.r, n - 1, Append(acc, x.b))

RECURSIVE ZdlReadN(_, _, _)
ZdlReadN(r, n, acc) ==
    LET x == zdlRead(r)
    IN  CASE n = 0 -> Got(acc, 0, r)
          [] ~x.ok \/ x.fe # 0 -> Fail(x.r)
          [] OTHER -> ZdlReadN(x.r, n - 1, Append(acc, x.b))

\* buffered: whether the trailing XON has already reached the bufio.Reader.
recvHexHeader(r, buffered) ==
    LET raw == ReadHexN(r, 7, <<>>)
        hdr == Frame("hex", raw.b[1], SubSeq(raw.b, 2, 5), 0)
        cr == readByte(raw.r)
        lf == readByte(cr.r)
        rest == lf.r.line
        takeXON == /\ hdr.type \notin {ZACK, ZFIN} /\ buffered
                   /\ rest # <<>> /\ Head(rest) % 128 = XON
    IN  CASE ~raw.ok \/ ~crc16Verify(raw.b) -> Rejected(raw.r)
          [] ~cr.ok -> Rejected(cr.r)
          [] cr.b % 128 = 10 -> Decoded(hdr, cr.r)
          [] cr.b % 128 # 13 \/ ~lf.ok \/ lf.b % 128 # 10 -> Rejected(lf.r)
          [] takeXON -> Decoded(hdr, [lf.r EXCEPT !.line = Tail(@)])
          [] OTHER -> Decoded(hdr, lf.r)

recvBinHeader(r) ==
    LET payload == ZdlReadN(r, 5, <<>>)
        crc == ZdlReadN(payload.r, 2, <<>>)
    IN  IF payload.ok /\ crc.ok /\ crc16Verify(payload.b \o crc.b)
        THEN Decoded(Frame("bin", payload.b[1], Tail(payload.b), 0), crc.r)
        ELSE Rejected(crc.r)

\* recvHeader; a ZBIN32 header is rejected here, as CRC-32 is not modelled.
recvHeader(r, buffered) ==
    LET enc == scanForPad(r)
        hdr == CASE enc.b = ZHEX -> recvHexHeader(enc.r, buffered)
                 [] enc.b = ZBIN -> recvBinHeader(enc.r)
                 [] OTHER -> Rejected(enc.r)
    IN  CASE ~enc.ok -> Rejected(enc.r)
          [] hdr.ok -> [hdr EXCEPT !.r.garbage = 0]
          [] OTHER -> hdr

RECURSIVE SubLoop(_, _)
SubLoop(r, data) ==
    LET x == zdlRead(r)
        crc == ZdlReadN(x.r, 2, <<>>)
        want == crc16Finalize(crc16Update(crc16Update(0, data), <<x.fe>>))
    IN  CASE ~x.ok -> Rejected(x.r)
          [] x.fe # 0 /\ crc.ok /\ crc.b = CrcBytes(want) -> Decoded(Frame("sub", 0, data, x.fe), crc.r)
          [] x.fe # 0 -> Rejected(crc.r)
          [] Len(data) >= MaxLen -> Rejected(x.r)
          [] OTHER -> SubLoop(x.r, Append(data, x.b))

recvSubpacketCRC16(r) == SubLoop(r, <<>>)

(***************************************************************************)
(* The session's writer and the peer's reader.                            *)
(***************************************************************************)
VARIABLES
    lastSent,     \* tw.lastSent
    escapeAll,    \* tw.escapeAll
    wire,         \* every byte the writer has emitted (history)
    line,         \* bytes in transit or buffered, not yet read
    canCount,     \* tr.canCount
    garbageCount, \* tr.garbageCount
    sent,         \* frames written, in order
    got,          \* frames the reader decoded, in order
    failed,       \* the reader returned an error
    open,         \* the writer is inside a data frame (subpackets follow)
    rOpen,        \* the reader expects a subpacket
    noise,        \* flow-control bytes inserted so far
    hdrNoise      \* of which inside a header's bytes

vars == <<lastSent, escapeAll, wire, line, canCount, garbageCount, sent, got,
          failed, open, rOpen, noise, hdrNoise>>
writerVars == <<lastSent, escapeAll, wire, sent, open>>
readerVars == <<canCount, garbageCount, got, failed, rOpen>>

\* Frame types after whose binary header data subpackets follow.
Opens == {ZDATA, ZFILE, ZSINIT}
\* End types after which more subpackets follow in the same frame.
Continues == {ZCRCG, ZCRCQ}

Writer == [out |-> <<>>, last |-> lastSent, all |-> escapeAll]
Reader == [line |-> line, can |-> canCount, garbage |-> garbageCount]

CodecInit ==
    /\ lastSent = 0
    /\ escapeAll = FALSE
    /\ wire = <<>>
    /\ line = <<>>
    /\ canCount = 0
    /\ garbageCount = 0
    /\ sent = <<>>
    /\ got = <<>>
    /\ failed = FALSE
    /\ open = FALSE
    /\ rOpen = FALSE
    /\ noise = 0
    /\ hdrNoise = 0

\* The line delivers the bytes w emitted, possibly with one flow-control
\* byte inserted anywhere among them.
Transmit(w, f, isHdr) ==
    /\ lastSent' = w.last
    /\ wire' = wire \o w.out
    /\ sent' = Append(sent, f)
    /\ \/ line' = line \o w.out /\ UNCHANGED <<noise, hdrNoise>>
       \/ /\ noise < MaxNoise
          /\ \E i \in 1..Len(w.out) + 1, x \in FlowBytes :
                line' = line \o InsertAt(w.out, i, x)
          /\ noise' = noise + 1
          /\ hdrNoise' = IF isHdr THEN hdrNoise + 1 ELSE hdrNoise

CanSend == Len(sent) < MaxFrames

SendHexHeader(t, d) ==
    /\ CanSend /\ ~open
    /\ Transmit(sendHexHeader(Writer, t, d), Frame("hex", t, d, 0), TRUE)
    /\ UNCHANGED <<escapeAll, open, readerVars>>

SendBinHeader(t, d) ==
    /\ CanSend /\ ~open
    /\ Transmit(IF t = ZDATA THEN sendBinHeaderWithZnulls(Writer, t, d)
                ELSE sendBinHeader(Writer, t, d), Frame("bin", t, d, 0), TRUE)
    /\ open' = (t \in Opens)
    /\ UNCHANGED <<escapeAll, readerVars>>

SendSubpacket(data, end) ==
    /\ CanSend /\ open
    /\ Transmit(sendSubpacket(Writer, data, end), Frame("sub", 0, data, end), FALSE)
    /\ open' = (end \in Continues)
    /\ UNCHANGED <<escapeAll, readerVars>>

\* setEscapeAll(true): processZRINIT on ESCCTL, or ZSINIT with TESCCTL.
SetEscapeAll ==
    /\ ~escapeAll
    /\ escapeAll' = TRUE
    /\ UNCHANGED <<lastSent, wire, line, sent, open, readerVars, noise, hdrNoise>>

CanRead == ~failed /\ Len(got) < Len(sent)

Deliver(res, expectSub) ==
    /\ line' = res.r.line
    /\ canCount' = res.r.can
    /\ garbageCount' = res.r.garbage
    /\ IF res.ok
       THEN /\ got' = Append(got, res.frame)
            /\ rOpen' = IF expectSub THEN res.frame.end \in Continues
                        ELSE res.frame.kind = "bin" /\ res.frame.type \in Opens
            /\ UNCHANGED failed
       ELSE /\ failed' = TRUE
            /\ UNCHANGED <<got, rOpen>>
    /\ UNCHANGED <<writerVars, escapeAll, noise, hdrNoise>>

RecvHeader ==
    /\ CanRead /\ ~rOpen
    /\ \E buffered \in BOOLEAN : Deliver(recvHeader(Reader, buffered), FALSE)

RecvSubpacket ==
    /\ CanRead /\ rOpen
    /\ Deliver(recvSubpacketCRC16(Reader), TRUE)

\* The bounded exchange is over.
Done ==
    /\ ~CanSend
    /\ ~CanRead
    /\ UNCHANGED vars

CodecNext ==
    \/ \E t \in HexTypes, d \in HdrData : SendHexHeader(t, d)
    \/ \E t \in BinTypes, d \in HdrData : SendBinHeader(t, d)
    \/ \E data \in Payloads, end \in EndTypes : SendSubpacket(data, end)
    \/ SetEscapeAll
    \/ RecvHeader
    \/ RecvSubpacket
    \/ Done

CodecSpec == CodecInit /\ [][CodecNext]_vars

(***************************************************************************)
(* Properties.                                                             *)
(***************************************************************************)
TypeOK ==
    /\ lastSent \in Byte
    /\ escapeAll \in BOOLEAN
    /\ wire \in Seq(Byte)
    /\ line \in Seq(Byte)
    /\ canCount \in 0..5
    /\ garbageCount \in 0..GarbageMax + 1
    /\ failed \in BOOLEAN
    /\ open \in BOOLEAN
    /\ rOpen \in BOOLEAN
    /\ noise \in 0..MaxNoise
    /\ hdrNoise \in 0..noise
    /\ Len(got) <= Len(sent)

\* Round trip across frames: as long as no XON/XOFF byte lands inside a
\* header, the reader decodes exactly the frames the writer sent, in order,
\* and never fails, whatever escape mode, end types and payloads (ZDLE runs,
\* XON/XOFF and their parity variants, CR after '@') the writer used, and
\* whether or not the XON after a hex header was consumed with it.  This is
\* about writeEscapedByte and the table, readByteStrip, zdlRead/zdlEscape
\* (canCount), scanForPad (garbageCount) and the CRC placement.
FlowTransparent ==
    hdrNoise = 0 => /\ ~failed
                    /\ got = SubSeq(sent, 1, Len(got))

\* Telenet CR protection across calls: on the wire, an '@' or 0xC0 byte is
\* never followed by a raw CR or 0x8D, however the two bytes were written
\* (raw, escaped, hex, in different frames).  This is about lastSent in
\* writeRaw / writeByte / writeEscapedByte.
NoRawCRAfterAt ==
    \A i \in 1..Len(wire) - 1 : wire[i] \in {64, 192} => wire[i + 1] \notin CRBytes

=============================================================================
