------------------------------- MODULE ZFrame -------------------------------
(***************************************************************************)
(* The frame codec of go-zmodem (writer.go Header, sendHexHeader,          *)
(* sendBinHeader, recvHeader; subpacket.go sendSubpacket, recvSubpacket),  *)
(* abstracted to the units the two state machines exchange.                *)
(*                                                                         *)
(* A message on one direction of the byte stream is                       *)
(*   - a header: a frame type and the 32-bit position / flag word,         *)
(*   - a data subpacket: the file it was read from, the file offset of     *)
(*     its first unit, its length in units and its end type,              *)
(*   - a garbled header or subpacket: one whose CRC check fails,          *)
(*   - the "OO" trailer the sender writes after ZFIN.                     *)
(* Hex and binary encodings, ZDLE escaping and the CRCs are below this    *)
(* abstraction: what they guarantee is that a damaged frame is detected   *)
(* (kind "badhdr" / "badsub") and an intact one is decoded as sent.       *)
(***************************************************************************)
EXTENDS Naturals, Sequences

CONSTANT PosModulus   \* 2^32: Header.Data holds the position as a uint32

ASSUME PosModulus \in Nat \ {0}

FrameTypes == {"ZRQINIT", "ZRINIT", "ZSINIT", "ZACK", "ZFILE", "ZSKIP",
               "ZNAK", "ZFIN", "ZRPOS", "ZDATA", "ZEOF"}

EndTypes == {"ZCRCE", "ZCRCG", "ZCRCQ", "ZCRCW"}

\* makePosHeader / SetPosition: the position is stored as uint32(pos).
PosWire(p) == p % PosModulus

\* makeHeader / makePosHeader.  Every message has the same fields so that
\* channels are sequences over one record set.
Hdr(t, p) == [kind |-> "hdr", type |-> t, pos |-> PosWire(p),
              file |-> 0, from |-> 0, len |-> 0, end |-> "none"]

\* A subpacket carrying units [from, from + n) of file f, ended by e.
Sub(f, from, n, e) == [kind |-> "sub", type |-> "none", pos |-> 0,
                       file |-> f, from |-> from, len |-> n, end |-> e]

OO == [kind |-> "oo", type |-> "none", pos |-> 0,
       file |-> 0, from |-> 0, len |-> 0, end |-> "none"]

\* Corruption on the line: the CRC of a header or subpacket no longer
\* matches, so recvHeader / recvSubpacket return an error for it.
Garbled(m) == [m EXCEPT !.kind = IF m.kind = "hdr" THEN "badhdr" ELSE "badsub"]

\* A header whose ZPAD / ZDLE prefix is hit: what is left of it is noise
\* that a header read skips and a subpacket read takes in as data.
Lost(m) == [m EXCEPT !.kind = "noise"]

IsHdr(m, t) == m.kind = "hdr" /\ m.type = t

\* Bytes that scanForPad skips while looking for ZPAD ZDLE: stale or
\* damaged subpacket data, the rest of a hit header and the "OO" trailer.
IsGarbage(m) == m.kind \in {"sub", "badsub", "noise", "oo"}

Msgs(F, P) ==
  [kind : {"hdr", "badhdr", "noise"}, type : FrameTypes, pos : P,
   file : {0}, from : {0}, len : {0}, end : {"none"}]
  \cup
  [kind : {"sub", "badsub"}, type : {"none"}, pos : {0},
   file : F, from : P, len : P, end : EndTypes]
  \cup {OO}

=============================================================================
