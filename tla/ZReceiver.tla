------------------------------ MODULE ZReceiver ------------------------------
(***************************************************************************)
(* The receiving side of a session: runReceiver (receiver.go 24-307) with *)
(* receiveDataSubpackets and sendZRINIT.                                   *)
(*                                                                         *)
(* rState is the program counter over the code's states srxInit ..        *)
(* srxFin; the reads of a subpacket after ZSINIT, after ZFILE (in         *)
(* srxFileWait and in srxData) and inside receiveDataSubpackets are their *)
(* own states (SInitSub, FileSub, DataFileSub, Sub) because the receiver  *)
(* blocks there.  Failed is runReceiver returning an error.               *)
(*                                                                         *)
(* rSink is what the receiver wrote to the AcceptFile writer: one entry   *)
(* <<file, offset>> per unit, for the file being received.                *)
(***************************************************************************)
EXTENDS Naturals, Sequences, ZFrame

CONSTANTS
  Files,              \* what the sender offers; the receiver sees sizes only
  AcceptReply,        \* AcceptFile's answer per file: [err: {"none", "skip", "fail"}, offset]
  MaxFileSize,        \* cfg.MaxFileSize (0: no limit)
  WindowSize,         \* cfg.WindowSize
  RecvMaxLen,         \* the receiver's cfg.MaxBlockSize + 256
  MaxRetries,         \* cfg.MaxRetries
  DataRetryMax,       \* the data-phase limit: retries > 25 fails
  MaxConsecutiveErr,  \* maxConsecutiveErr (15)
  WriteCuts           \* how many units a failing w.Write may still have written

VARIABLES
  rState,        \* program counter
  rFile,         \* the file curInfo describes (0: none)
  rFileOffset,   \* fileOffset
  rBase,         \* the resume offset AcceptFile returned (history)
  rSink,         \* units written to curWriter (history)
  rRetries,      \* retries
  rConsecErr,    \* consecutiveErr
  rOutcome,      \* what FileCompleted reported per file (history)
  rGot,          \* bytesReceived when FileCompleted reported success (history)
  rAsked,        \* how often AcceptFile was called per file (history)
  s2r, r2s

receiverVars == <<rState, rFile, rFileOffset, rBase, rSink, rRetries,
                  rConsecErr, rOutcome, rGot, rAsked>>

FileIds == 1..Len(Files)

RStates == {"Init", "FileWait", "SInitSub", "FileSub", "FileAccept", "Data",
            "Sub", "DataFileSub", "EOF", "Fin", "Done", "Failed"}

\* The states in which runReceiver is blocked reading from the sender.
RWaits == {"FileWait", "SInitSub", "FileSub", "Data", "Sub", "DataFileSub"}

ROutcomes == {"none", "ok", "skip", "premature", "retries"}

ReceiverInit ==
  /\ rState = "Init" /\ rFile = 0 /\ rFileOffset = 0 /\ rBase = 0
  /\ rSink = <<>> /\ rRetries = 0 /\ rConsecErr = 0
  /\ rOutcome = [f \in FileIds |-> "none"]
  /\ rGot = [f \in FileIds |-> 0]
  /\ rAsked = [f \in FileIds |-> 0]

Reply(m) == r2s' = Append(r2s, m)
In == Head(s2r)
Take == s2r' = Tail(s2r)
Goto(st) == rState' = st

\* sendZRINIT: ZF0 carries CANFDX | CANOVIO and the configured bits,
\* Data[0..1] the low 16 bits of cfg.WindowSize.
ZRINITHdr == Hdr("ZRINIT", WindowSize % 65536)

\* The units of subpacket m, as they land in the writer.
Units(m, n) == [i \in 1..n |-> <<m.file, m.from + i - 1>>]

fileVars == <<rFile, rBase, rOutcome, rGot, rAsked>>

\* purge() after a read that left rest: whatever prefix of rest is already
\* buffered is discarded.
PurgeFrom(rest) == \E k \in 0..Len(rest) : s2r' = SubSeq(rest, k + 1, Len(rest))

\* A frame that the read of state st fails on: a damaged header where a
\* header is read; where a subpacket is read, anything but an intact
\* subpacket within recvSubpacket's maxLen.
FailsRead(st, m) ==
  IF st \in {"FileWait", "Data"}
  THEN m.kind = "badhdr"
  ELSE m.kind /= "sub" \/ (st = "Sub" /\ m.len > RecvMaxLen)

\* The data-error path of srxData after receiveDataSubpackets fails:
\* purge, count, give up above 25 with FileCompleted, else ZRPOS.
DataError(rest) ==
  /\ rRetries' = rRetries + 1
  /\ IF rRetries + 1 > DataRetryMax
     THEN /\ Goto("Failed") /\ s2r' = rest /\ UNCHANGED r2s
          /\ rOutcome' = [rOutcome EXCEPT ![rFile] = "retries"]
     ELSE /\ PurgeFrom(rest) /\ Reply(Hdr("ZRPOS", rFileOffset)) /\ Goto("Data")
          /\ UNCHANGED rOutcome
  /\ UNCHANGED <<rFile, rBase, rGot, rAsked, rFileOffset, rConsecErr>>

\* What a read error (damaged frame or timeout) does in each wait; rest is
\* the stream after the failed read.
OnRecvError(rest) ==
  \/ /\ rState = "FileWait"
     /\ rConsecErr' = rConsecErr + 1
     /\ IF rConsecErr + 1 >= MaxConsecutiveErr \/ rRetries + 1 >= MaxRetries
        THEN Goto("Failed") /\ UNCHANGED r2s
        ELSE Reply(Hdr("ZNAK", 0)) /\ UNCHANGED rState
     /\ rRetries' = IF rConsecErr + 1 >= MaxConsecutiveErr THEN rRetries ELSE rRetries + 1
     /\ s2r' = rest
     /\ UNCHANGED <<fileVars, rFileOffset, rSink>>
  \/ /\ rState \in {"SInitSub", "FileSub"}
     /\ Goto("Failed") /\ s2r' = rest
     /\ UNCHANGED <<r2s, fileVars, rFileOffset, rSink, rRetries, rConsecErr>>
  \/ /\ rState = "Data"
     /\ rConsecErr' = rConsecErr + 1 /\ rRetries' = rRetries + 1
     /\ IF rRetries + 1 > DataRetryMax
        THEN /\ Goto("Failed") /\ s2r' = rest /\ UNCHANGED r2s
             /\ rOutcome' = [rOutcome EXCEPT ![rFile] = "retries"]
        ELSE /\ PurgeFrom(rest) /\ Reply(Hdr("ZRPOS", rFileOffset))
             /\ UNCHANGED <<rState, rOutcome>>
     /\ UNCHANGED <<rFile, rBase, rGot, rAsked, rFileOffset, rSink>>
  \/ rState = "Sub" /\ DataError(rest) /\ UNCHANGED rSink
  \/ /\ rState = "DataFileSub"
     /\ Reply(Hdr("ZRPOS", rFileOffset)) /\ Goto("Data") /\ s2r' = rest
     /\ UNCHANGED <<fileVars, rFileOffset, rSink, rRetries, rConsecErr>>

RRecvError ==
  /\ rState \in RWaits /\ s2r /= <<>> /\ FailsRead(rState, In)
  /\ OnRecvError(Tail(s2r))

\* recvHeader / recvSubpacket's deadline expires with nothing to read.
RTimeout == rState \in RWaits /\ s2r = <<>> /\ OnRecvError(<<>>)

\* scanForPad skipping bytes that are not a header.
SkipGarbage ==
  /\ rState \in {"FileWait", "Data"} /\ s2r /= <<>> /\ IsGarbage(In)
  /\ Take
  /\ UNCHANGED <<r2s, receiverVars>>

\* Variants of the two checks below that accept any position.
DataPosAny(h) == TRUE

EOFPosAny(h) == TRUE

\* The position checks of srxData: a ZDATA or ZEOF header is taken only at
\* fileOffset (Position() of the uint32 field against the int64 offset).
DataPosOK(h) == h.pos = rFileOffset

EOFPosOK(h) == h.pos = rFileOffset

\* Variant of Acks that answers only subpackets carrying data.
AcksNonEmpty(m) == m.end \in {"ZCRCQ", "ZCRCW"} /\ m.len > 0

\* receiveDataSubpackets answers ZCRCQ and ZCRCW with ZACK, whatever their
\* length (the zero-length ZCRCQ is the sender's window probe).
Acks(m) == m.end \in {"ZCRCQ", "ZCRCW"}

-----------------------------------------------------------------------------
\* srxInit: ZRINIT.
SendZRINIT ==
  /\ rState = "Init" /\ Reply(ZRINITHdr) /\ Goto("FileWait")
  /\ UNCHANGED <<s2r, fileVars, rFileOffset, rSink, rRetries, rConsecErr>>

\* srxFileWait with a header: ZRQINIT is answered with ZRINIT, ZSINIT and
\* ZFILE go on to read their subpacket, ZFIN ends; any other frame counts
\* as a consecutive error right after consecutiveErr was reset.
FileWaitRecv ==
  /\ rState = "FileWait" /\ s2r /= <<>> /\ In.kind = "hdr"
  /\ Take
  /\ \/ In.type = "ZRQINIT" /\ Reply(ZRINITHdr) /\ rConsecErr' = 0 /\ UNCHANGED rState
     \/ In.type = "ZSINIT" /\ Goto("SInitSub") /\ rConsecErr' = 0 /\ UNCHANGED r2s
     \/ In.type = "ZFILE" /\ Goto("FileSub") /\ rConsecErr' = 0 /\ UNCHANGED r2s
     \/ In.type = "ZFIN" /\ Goto("Fin") /\ rConsecErr' = 0 /\ UNCHANGED r2s
     \/ /\ In.type \notin {"ZRQINIT", "ZSINIT", "ZFILE", "ZFIN"}
        /\ rConsecErr' = 0 + 1
        /\ Goto(IF 0 + 1 >= MaxConsecutiveErr THEN "Failed" ELSE "FileWait")
        /\ UNCHANGED r2s
  /\ UNCHANGED <<fileVars, rFileOffset, rSink, rRetries>>

\* The ZSINIT subpacket: attention string stored, ZACK(0).
SInitSubRecv ==
  /\ rState = "SInitSub" /\ s2r /= <<>> /\ ~FailsRead("SInitSub", In)
  /\ Take /\ Reply(Hdr("ZACK", 0)) /\ Goto("FileWait")
  /\ UNCHANGED <<fileVars, rFileOffset, rSink, rRetries, rConsecErr>>

TooLargeOrEqual(f) == MaxFileSize > 0 /\ Files[f].size >= MaxFileSize

\* The MaxFileSize check of the ZFILE handler.
TooLarge(f) == MaxFileSize > 0 /\ Files[f].size > MaxFileSize

\* The ZFILE subpacket: parseFileInfo, then MaxFileSize (ZSKIP without a
\* FileCompleted) or AcceptFile.
FileSubRecv ==
  /\ rState = "FileSub" /\ s2r /= <<>> /\ ~FailsRead("FileSub", In)
  /\ Take
  /\ rFile' = In.file
  /\ IF TooLarge(In.file)
     THEN Reply(Hdr("ZSKIP", 0)) /\ Goto("FileWait")
     ELSE Goto("FileAccept") /\ UNCHANGED r2s
  /\ UNCHANGED <<rBase, rOutcome, rGot, rAsked, rFileOffset, rSink, rRetries, rConsecErr>>

\* srxFileAccept: AcceptFile skips (ZSKIP), fails, or gives a writer and a
\* resume offset, which is sent as ZRPOS.
FileAccept ==
  /\ rState = "FileAccept"
  /\ LET a == AcceptReply[rFile] IN
     \/ /\ a.err = "skip" /\ Reply(Hdr("ZSKIP", 0)) /\ Goto("FileWait")
        /\ rOutcome' = [rOutcome EXCEPT ![rFile] = "skip"]
        /\ UNCHANGED <<rBase, rSink, rFileOffset, rRetries>>
     \/ /\ a.err = "fail" /\ Goto("Failed")
        /\ UNCHANGED <<r2s, rOutcome, rBase, rSink, rFileOffset, rRetries>>
     \/ /\ a.err = "none"
        /\ rFileOffset' = a.offset /\ rBase' = a.offset
        /\ rSink' = <<>> /\ rRetries' = 0
        /\ Reply(Hdr("ZRPOS", a.offset)) /\ Goto("Data")
        /\ UNCHANGED rOutcome
  /\ rAsked' = [rAsked EXCEPT ![rFile] = @ + 1]
  /\ UNCHANGED <<s2r, rFile, rGot, rConsecErr>>

\* srxData with a header.  ZDATA at fileOffset starts
\* receiveDataSubpackets; at another position it is purged and answered
\* with ZRPOS (not counted in retries).  A ZEOF at another position is
\* ignored.  A duplicate ZFILE has its subpacket consumed.  ZFIN ends the
\* session prematurely, ZSKIP abandons the file.  (The ZNAK and default
\* branches need frames the sender never sends in this phase.)
DataRecv ==
  /\ rState = "Data" /\ s2r /= <<>> /\ In.kind = "hdr"
  /\ rConsecErr' = 0
  /\ \/ /\ In.type = "ZDATA" /\ ~DataPosOK(In)
        /\ PurgeFrom(Tail(s2r)) /\ Reply(Hdr("ZRPOS", rFileOffset))
        /\ UNCHANGED <<rState, rOutcome>>
     \/ /\ In.type = "ZDATA" /\ DataPosOK(In)
        /\ Take /\ Goto("Sub") /\ UNCHANGED <<r2s, rOutcome>>
     \/ /\ In.type = "ZEOF"
        /\ Take /\ Goto(IF EOFPosOK(In) THEN "EOF" ELSE "Data")
        /\ UNCHANGED <<r2s, rOutcome>>
     \/ In.type = "ZFILE" /\ Take /\ Goto("DataFileSub") /\ UNCHANGED <<r2s, rOutcome>>
     \/ /\ In.type = "ZFIN" /\ Take /\ Goto("Fin")
        /\ rOutcome' = [rOutcome EXCEPT ![rFile] = "premature"] /\ UNCHANGED r2s
     \/ /\ In.type = "ZSKIP" /\ Take /\ Goto("FileWait")
        /\ rOutcome' = [rOutcome EXCEPT ![rFile] = "skip"] /\ UNCHANGED r2s
  /\ UNCHANGED <<rFile, rBase, rGot, rAsked, rFileOffset, rSink, rRetries>>

\* The subpacket after a duplicate ZFILE, whatever it is; then ZRPOS.
DataFileSubRecv ==
  /\ rState = "DataFileSub" /\ s2r /= <<>> /\ ~FailsRead("DataFileSub", In)
  /\ Take /\ Reply(Hdr("ZRPOS", rFileOffset)) /\ Goto("Data")
  /\ UNCHANGED <<fileVars, rFileOffset, rSink, rRetries, rConsecErr>>

\* receiveDataSubpackets, one subpacket: its data is written and counted
\* (resetting retries), then ZCRCG goes on, ZCRCQ answers ZACK and goes on,
\* ZCRCW answers ZACK and returns, ZCRCE returns.
SubRecv ==
  /\ rState = "Sub" /\ s2r /= <<>> /\ ~FailsRead("Sub", In)
  /\ Take
  /\ LET off == rFileOffset + In.len IN
     /\ rSink' = rSink \o Units(In, In.len)
     /\ rFileOffset' = off
     /\ rRetries' = IF In.len > 0 THEN 0 ELSE rRetries
     /\ IF Acks(In)
        THEN Reply(Hdr("ZACK", off)) ELSE UNCHANGED r2s
     /\ Goto(IF In.end \in {"ZCRCW", "ZCRCE"} THEN "Data" ELSE "Sub")
  /\ UNCHANGED <<fileVars, rConsecErr>>

\* w.Write fails on a subpacket after writing cut of its units (0 for a
\* clean failure): the data error path, with fileOffset not advanced.
WriteFail ==
  /\ rState = "Sub" /\ s2r /= <<>> /\ ~FailsRead("Sub", In) /\ In.len > 0
  /\ \E cut \in WriteCuts :
       /\ cut < In.len
       /\ rSink' = rSink \o Units(In, cut)
       /\ DataError(Tail(s2r))

\* Mutant: srxEOF closes the writer without calling FileCompleted.
EOFDoneSilent ==
  /\ rState = "EOF"
  /\ Reply(ZRINITHdr) /\ Goto("FileWait")
  /\ UNCHANGED <<s2r, fileVars, rFileOffset, rSink, rRetries, rConsecErr>>

\* srxEOF: close the writer, FileCompleted(nil), ZRINIT for the next file.
EOFDone ==
  /\ rState = "EOF"
  /\ rOutcome' = [rOutcome EXCEPT ![rFile] = "ok"]
  /\ rGot' = [rGot EXCEPT ![rFile] = rFileOffset]
  /\ Reply(ZRINITHdr) /\ Goto("FileWait")
  /\ UNCHANGED <<s2r, rFile, rBase, rFileOffset, rSink, rRetries, rConsecErr, rAsked>>

\* srxFin: ZFIN; the "OO" is read only if already buffered and changes
\* nothing, so it is left on the stream.
FinDone ==
  /\ rState = "Fin" /\ Reply(Hdr("ZFIN", 0)) /\ Goto("Done")
  /\ UNCHANGED <<s2r, fileVars, rFileOffset, rSink, rRetries, rConsecErr>>

-----------------------------------------------------------------------------
\* Every step runReceiver takes by itself (timeouts are left to the session).
ReceiverNext ==
  \/ SendZRINIT \/ FileWaitRecv \/ SInitSubRecv \/ FileSubRecv \/ FileAccept
  \/ DataRecv \/ DataFileSubRecv \/ SubRecv \/ EOFDone \/ FinDone
  \/ SkipGarbage \/ RRecvError

=============================================================================
