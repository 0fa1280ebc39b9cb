------------------------------- MODULE ZSender -------------------------------
(***************************************************************************)
(* The sending side of a session: runSender (sender.go 27-584) with its   *)
(* helpers processZRINIT, recvHeaderRetry and seekFile.                   *)
(*                                                                         *)
(* sState is the program counter.  The code's states stxInit .. stxFinAck *)
(* are kept; a state that both writes and then blocks in a read is split  *)
(* into the write (Init, SInit, ...) and the wait (InitWait, SInitWait),  *)
(* and the inner loop of stxData is split at its blocking points: Loop    *)
(* (the reverse-channel peek and the window check), WindowWait, Read,    *)
(* ZcrcwWait and ZcrcqWait.  Done is stxDone; Failed is runSender        *)
(* returning an error.                                                    *)
(*                                                                         *)
(* s2r carries what the sender writes, r2s what it reads.                 *)
(***************************************************************************)
EXTENDS Naturals, Sequences, ZFrame

CONSTANTS
  Files,                \* the offers NextFile returns, in order: [size, seekable]
  UseAttn,              \* len(cfg.AttnSequence) > 0
  MaxRetries,           \* cfg.MaxRetries
  BlockMin,             \* the floor of blockSize after ZRPOS (32)
  BlockInit,            \* the initial blockSize (256)
  SMaxBlock,            \* the sender's cfg.MaxBlockSize
  GoodNeeded,           \* goodNeeded (8)
  GoodNeededUnreliable, \* adaptNeeded once unreliable (16)
  ZcrcqInterval         \* zcrcqInterval (8)

VARIABLES
  sState,         \* program counter
  sFile,          \* index in Files of curOffer (0: none yet)
  sFileOffset,    \* fileOffset
  sReadPos,       \* where curOffer.Reader will read next
  sLastAck,       \* lastAckOffset
  sBlock,         \* blockSize
  sGood,          \* goodBlocks
  sUnreliable,    \* unreliable
  sZcrcwNext,     \* zcrcwNext
  sZcrcwRetries,  \* zcrcwRetries
  sRetries,       \* retries
  sSubCount,      \* subpacketCount
  sLoopRetries,   \* windowRetries / zcrcqRetries, locals of the two wait loops
  sRemoteWin,     \* s.remoteWindowSize
  sOutcome,       \* what FileCompleted reported per file (history)
  s2r, r2s

senderVars == <<sState, sFile, sFileOffset, sReadPos, sLastAck, sBlock, sGood,
                sUnreliable, sZcrcwNext, sZcrcwRetries, sRetries, sSubCount,
                sLoopRetries, sRemoteWin, sOutcome>>

FileIds == 1..Len(Files)

SStates == {"Init", "InitWait", "SInit", "SInitWait", "NextFile", "FileInfo",
            "FileInfoAck", "Data", "Loop", "WindowWait", "Read",
            "ZcrcwWait", "ZcrcqWait", "EOF", "EOFAck", "Fin", "FinAck",
            "Done", "Failed"}

\* The waits that go through recvHeaderRetry.
RetryWaits == {"InitWait", "SInitWait", "FileInfoAck", "EOFAck", "FinAck"}

\* Every state in which runSender is blocked reading the reverse channel.
SWaits == RetryWaits \cup {"WindowWait", "ZcrcwWait", "ZcrcqWait"}

Outcomes == {"none", "ok", "skip", "noseek"}

SenderInit ==
  /\ sState = "Init" /\ sFile = 0 /\ sFileOffset = 0 /\ sReadPos = 0
  /\ sLastAck = 0 /\ sBlock = BlockInit /\ sGood = 0 /\ sUnreliable = FALSE
  /\ sZcrcwNext = FALSE /\ sZcrcwRetries = 0 /\ sRetries = 0
  /\ sSubCount = 0 /\ sLoopRetries = 0 /\ sRemoteWin = 0
  /\ sOutcome = [f \in FileIds |-> "none"]

Send(m) == s2r' = Append(s2r, m)
Rcvd == Head(r2s)
Consume == r2s' = Tail(r2s)
Size == Files[sFile].size
Goto(st) == sState' = st

\* processZRINIT: the window is Data[0] | Data[1] << 8 of the header.
ProcessZRINIT(h) == sRemoteWin' = h.pos % 65536

\* Variant of WindowFull that blocks only once the window is exceeded.
WindowFullStrict(ack) == sRemoteWin > 0 /\ sFileOffset - ack > sRemoteWin

\* fileOffset - lastAckOffset >= remoteWindowSize, with the given ack.
WindowFull(ack) == sRemoteWin > 0 /\ sFileOffset - ack >= sRemoteWin

\* Variant of Recover that seeks but leaves fileOffset where it was.
RecoverNoOffset(p) ==
  IF ~Files[sFile].seekable
  THEN Goto("Failed") /\ UNCHANGED <<sFileOffset, sReadPos, sBlock, sGood,
                                    sUnreliable, sZcrcwNext, sZcrcwRetries>>
  ELSE /\ UNCHANGED sFileOffset /\ sReadPos' = p
       /\ sBlock' = IF sBlock \div 4 > BlockMin THEN sBlock \div 4 ELSE BlockMin
       /\ sGood' = 0 /\ sUnreliable' = TRUE
       /\ sZcrcwNext' = TRUE /\ sZcrcwRetries' = 0
       /\ Goto("Data")

\* The ZRPOS recovery block that appears five times in stxData / stxEOFAck:
\* seekFile, then fileOffset, a quarter of blockSize, unreliable, and a
\* ZCRCW flush of the next subpacket.  A reader that cannot seek ends
\* runSender with an error.
Recover(p) ==
  IF ~Files[sFile].seekable
  THEN Goto("Failed") /\ UNCHANGED <<sFileOffset, sReadPos, sBlock, sGood,
                                    sUnreliable, sZcrcwNext, sZcrcwRetries>>
  ELSE /\ sFileOffset' = p /\ sReadPos' = p
       /\ sBlock' = IF sBlock \div 4 > BlockMin THEN sBlock \div 4 ELSE BlockMin
       /\ sGood' = 0 /\ sUnreliable' = TRUE
       /\ sZcrcwNext' = TRUE /\ sZcrcwRetries' = 0
       /\ Goto("Data")

recoverVars == <<sFileOffset, sReadPos, sBlock, sGood, sUnreliable,
                 sZcrcwNext, sZcrcwRetries>>
ctlVars == <<sFile, sRetries, sRemoteWin, sOutcome>>
loopVars == <<sLastAck, sSubCount, sLoopRetries>>

\* recvHeader returned a frame (not an error) in wait st; recvHeaderRetry
\* first checks retries < MaxRetries.
RecvOk(st) ==
  /\ sState = st
  /\ st \in RetryWaits => sRetries < MaxRetries
  /\ r2s /= <<>> /\ Rcvd.kind = "hdr"
  /\ Consume

\* The zero-length subpacket that solicits a ZACK / ZRPOS (always ZCRCQ:
\* sendZRINIT advertises CANFDX, so canFDX holds).
Solicit == Send(Sub(sFile, sFileOffset, 0, "ZCRCQ"))

\* Variant of Adapt that doubles blockSize without the MaxBlockSize cap.
AdaptUncapped(good) ==
  LET needed == IF sUnreliable THEN GoodNeededUnreliable ELSE GoodNeeded
  IN  IF good >= needed /\ sBlock < SMaxBlock
      THEN sBlock' = 2 * sBlock /\ sGood' = 0
      ELSE sBlock' = sBlock /\ sGood' = good

\* goodBlocks against goodNeeded, or 16 once unreliable; doubling capped at
\* cfg.MaxBlockSize.
Adapt(good) ==
  LET needed == IF sUnreliable THEN GoodNeededUnreliable ELSE GoodNeeded
  IN  IF good >= needed /\ sBlock < SMaxBlock
      THEN /\ sBlock' = IF 2 * sBlock > SMaxBlock THEN SMaxBlock ELSE 2 * sBlock
           /\ sGood' = 0
      ELSE sBlock' = sBlock /\ sGood' = good

\* The end-type switch of the read branch.
EndType(atEOF) ==
  CASE sZcrcwNext -> "ZCRCW"
    [] atEOF -> "ZCRCE"
    [] sSubCount > 0 /\ sSubCount % ZcrcqInterval = 0 -> "ZCRCQ"
    [] OTHER -> "ZCRCG"

-----------------------------------------------------------------------------
\* A read error (a damaged header, or the RecvTimeout deadline) in the wait
\* the sender is blocked in.  recvHeaderRetry counts it in retries and
\* gives up at the top of its loop (RetriesExhausted); the window and
\* ZCRCQ waits resend the zero-length ZCRCQ; the ZCRCW wait only counts.
OnRecvError ==
  \/ /\ sState \in RetryWaits /\ sRetries < MaxRetries
     /\ sRetries' = sRetries + 1
     /\ UNCHANGED <<sState, s2r, sFile, sRemoteWin, sOutcome, loopVars, recoverVars>>
  \/ /\ sState \in {"WindowWait", "ZcrcqWait"}
     /\ sLoopRetries' = sLoopRetries + 1
     /\ IF sLoopRetries + 1 >= MaxRetries
        THEN Goto("Failed") /\ UNCHANGED s2r
        ELSE Solicit /\ UNCHANGED sState
     /\ UNCHANGED <<ctlVars, sLastAck, sSubCount, recoverVars>>
  \/ /\ sState = "ZcrcwWait"
     /\ sZcrcwRetries' = sZcrcwRetries + 1
     /\ IF sZcrcwRetries + 1 >= MaxRetries THEN Goto("Failed") ELSE UNCHANGED sState
     /\ UNCHANGED <<s2r, ctlVars, loopVars, sFileOffset, sReadPos, sBlock,
                    sGood, sUnreliable, sZcrcwNext>>

SRecvError == r2s /= <<>> /\ Rcvd.kind = "badhdr" /\ Consume /\ OnRecvError

\* recvHeader's deadline expires with nothing to read.
STimeout == r2s = <<>> /\ OnRecvError /\ UNCHANGED r2s

\* scanForPad skipping what is left of a header that lost its prefix.
SkipNoise ==
  /\ sState \in SWaits /\ r2s /= <<>> /\ Rcvd.kind = "noise"
  /\ Consume
  /\ UNCHANGED <<sState, s2r, ctlVars, loopVars, recoverVars>>

\* recvHeaderRetry: retries >= MaxRetries at the top of its loop.  In
\* stxFinAck the error is taken as the end of the session.
RetriesExhausted ==
  /\ sState \in RetryWaits /\ sRetries >= MaxRetries
  /\ Goto(IF sState = "FinAck" THEN "Done" ELSE "Failed")
  /\ UNCHANGED <<s2r, r2s, ctlVars, loopVars, recoverVars>>

-----------------------------------------------------------------------------
\* stxInit, the write: auto-download string and a hex ZRQINIT.
SendZRQINIT ==
  /\ sState = "Init" /\ Send(Hdr("ZRQINIT", 0)) /\ Goto("InitWait")
  /\ UNCHANGED <<r2s, ctlVars, loopVars, recoverVars>>

\* stxInit, the answer: ZRINIT, anything else is an error.
InitWaitRecv ==
  /\ RecvOk("InitWait")
  /\ IF Rcvd.type = "ZRINIT"
     THEN ProcessZRINIT(Rcvd) /\ Goto(IF UseAttn THEN "SInit" ELSE "NextFile")
     ELSE Goto("Failed") /\ UNCHANGED sRemoteWin
  /\ UNCHANGED <<s2r, sFile, sRetries, sOutcome, loopVars, recoverVars>>

\* stxSInit, the write: binary ZSINIT and the attention string (ZCRCW).
SendZSINIT ==
  /\ sState = "SInit"
  /\ s2r' = s2r \o <<Hdr("ZSINIT", 0), Sub(0, 0, 0, "ZCRCW")>>
  /\ Goto("SInitWait")
  /\ UNCHANGED <<r2s, ctlVars, loopVars, recoverVars>>

\* stxSInit, the answer: ZACK goes on, ZNAK resends, anything else fails.
SInitWaitRecv ==
  /\ RecvOk("SInitWait")
  /\ \/ Rcvd.type = "ZACK" /\ Goto("NextFile") /\ UNCHANGED sRetries
     \/ Rcvd.type = "ZNAK" /\ sRetries' = sRetries + 1 /\ Goto("SInit")
     \/ Rcvd.type \notin {"ZACK", "ZNAK"} /\ Goto("Failed") /\ UNCHANGED sRetries
  /\ UNCHANGED <<s2r, sFile, sRemoteWin, sOutcome, loopVars, recoverVars>>

\* stxNextFile: the next offer, with the per-file resets.  blockSize and
\* unreliable are not reset.
NextFile ==
  /\ sState = "NextFile"
  /\ IF sFile = Len(Files)
     THEN Goto("Fin") /\ UNCHANGED <<sFile, sFileOffset, sReadPos, sRetries,
                                    sGood, sZcrcwNext, sZcrcwRetries>>
     ELSE /\ sFile' = sFile + 1 /\ sFileOffset' = 0 /\ sReadPos' = 0
          /\ sRetries' = 0 /\ sGood' = 0 /\ sZcrcwNext' = FALSE
          /\ sZcrcwRetries' = 0 /\ Goto("FileInfo")
  /\ UNCHANGED <<s2r, r2s, sRemoteWin, sOutcome, loopVars, sBlock, sUnreliable>>

\* stxFileInfo: binary ZFILE and the file-information subpacket (ZCRCW).
SendZFILE ==
  /\ sState = "FileInfo"
  /\ s2r' = s2r \o <<Hdr("ZFILE", 0), Sub(sFile, 0, 0, "ZCRCW")>>
  /\ Goto("FileInfoAck")
  /\ UNCHANGED <<r2s, ctlVars, loopVars, recoverVars>>

ResumeNoSeek(off) == sFileOffset' = off /\ UNCHANGED sReadPos

\* The resume of stxFileInfoAck: fileOffset is the ZRPOS position, and the
\* reader is sought there when it is not 0.
ResumeAt(off) ==
  /\ sFileOffset' = off
  /\ sReadPos' = IF off > 0 THEN off ELSE sReadPos

\* stxFileInfoAck.  ZRPOS: an offset past a known size restarts at 0; a
\* resume offset needs seekFile, and a reader that cannot seek is skipped
\* with a hex ZSKIP.  ZRINIT (the answer to a second ZRQINIT) is absorbed.
FileInfoAckRecv ==
  /\ RecvOk("FileInfoAck")
  /\ LET off == IF Size > 0 /\ Rcvd.pos > Size THEN 0 ELSE Rcvd.pos IN
     \/ /\ Rcvd.type = "ZRPOS" /\ off > 0 /\ ~Files[sFile].seekable
        /\ Send(Hdr("ZSKIP", 0))
        /\ sOutcome' = [sOutcome EXCEPT ![sFile] = "noseek"]
        /\ Goto("NextFile")
        /\ UNCHANGED <<sFile, sRetries, sRemoteWin, loopVars, recoverVars>>
     \/ /\ Rcvd.type = "ZRPOS" /\ (off > 0 => Files[sFile].seekable)
        /\ ResumeAt(off)
        /\ Goto("Data")
        /\ UNCHANGED <<s2r, ctlVars, loopVars, sBlock, sGood, sUnreliable,
                       sZcrcwNext, sZcrcwRetries>>
     \/ /\ Rcvd.type = "ZSKIP"
        /\ sOutcome' = [sOutcome EXCEPT ![sFile] = "skip"]
        /\ Goto("NextFile")
        /\ UNCHANGED <<s2r, sFile, sRetries, sRemoteWin, loopVars, recoverVars>>
     \/ /\ Rcvd.type = "ZRINIT" /\ ProcessZRINIT(Rcvd) /\ UNCHANGED sState
        /\ UNCHANGED <<s2r, sFile, sRetries, sOutcome, loopVars, recoverVars>>
     \/ /\ Rcvd.type = "ZNAK" /\ sRetries' = sRetries + 1 /\ Goto("FileInfo")
        /\ UNCHANGED <<s2r, sFile, sRemoteWin, sOutcome, loopVars, recoverVars>>
     \/ /\ Rcvd.type \notin {"ZRPOS", "ZSKIP", "ZRINIT", "ZNAK"}
        /\ Goto("Failed")
        /\ UNCHANGED <<s2r, ctlVars, loopVars, recoverVars>>

\* stxData, frame start: ZDATA at fileOffset, lastAckOffset and
\* subpacketCount start over.
SendZDATA ==
  /\ sState = "Data"
  /\ Send(Hdr("ZDATA", sFileOffset))
  /\ sLastAck' = sFileOffset /\ sSubCount' = 0
  /\ Goto("Loop")
  /\ UNCHANGED <<r2s, ctlVars, sLoopRetries, recoverVars>>

\* The window check after the peek: when fileOffset - lastAckOffset has
\* reached the receiver's window, solicit and block; otherwise read.
AfterPeek(ack) ==
  IF WindowFull(ack)
  THEN Solicit /\ sLoopRetries' = 0 /\ Goto("WindowWait")
  ELSE Goto("Read") /\ UNCHANGED <<s2r, sLoopRetries>>

\* Top of the send loop, with a frame buffered on the reverse channel
\* (peekForZPAD): a ZRPOS restarts the frame, a ZACK moves lastAckOffset,
\* a damaged or other header is logged and ignored.
PeekRecv ==
  /\ sState = "Loop" /\ r2s /= <<>>
  /\ Consume
  /\ IF Rcvd.kind = "hdr" /\ Rcvd.type = "ZRPOS"
     THEN Recover(Rcvd.pos) /\ UNCHANGED <<s2r, loopVars>>
     ELSE LET ack == IF Rcvd.kind = "hdr" /\ Rcvd.type = "ZACK"
                     THEN Rcvd.pos ELSE sLastAck
          IN  sLastAck' = ack /\ AfterPeek(ack)
              /\ UNCHANGED <<sSubCount, recoverVars>>
  /\ UNCHANGED ctlVars

\* Top of the send loop, nothing buffered (or not yet).
NoPeek ==
  /\ sState = "Loop"
  /\ AfterPeek(sLastAck)
  /\ UNCHANGED <<r2s, ctlVars, sLastAck, sSubCount, recoverVars>>

\* The window wait's answer.  After a ZACK (or another frame) the loop
\* re-checks the window from the top if it is still full.
WindowWaitRecv ==
  /\ RecvOk("WindowWait")
  /\ IF Rcvd.type = "ZRPOS"
     THEN Recover(Rcvd.pos) /\ UNCHANGED sLastAck
     ELSE LET ack == IF Rcvd.type = "ZACK" THEN Rcvd.pos ELSE sLastAck
          IN  sLastAck' = ack
              /\ Goto(IF WindowFull(ack) THEN "Loop" ELSE "Read")
              /\ UNCHANGED recoverVars
  /\ UNCHANGED <<s2r, ctlVars, sSubCount, sLoopRetries>>

\* The read branch: Read(buf[:blockSize]) returns min(blockSize, what is
\* left) units, with io.EOF either together with the last units or on the
\* next call.  A subpacket with data is followed by its end type's wait
\* (ZCRCW, ZCRCQ) or by the adaptation step; (0, io.EOF) closes the frame
\* with an empty ZCRCE.
ReadData ==
  /\ sState = "Read" /\ sReadPos < Size
  /\ LET left == Size - sReadPos
         n == IF sBlock < left THEN sBlock ELSE left
     IN \E atEOF \in (IF n = left THEN BOOLEAN ELSE {FALSE}) :
        LET end == EndType(atEOF) IN
        /\ Send(Sub(sFile, sReadPos, n, end))
        /\ sFileOffset' = sFileOffset + n /\ sReadPos' = sReadPos + n
        /\ sSubCount' = sSubCount + 1
        /\ CASE end = "ZCRCW" ->
                  sGood' = sGood + 1 /\ Goto("ZcrcwWait")
                  /\ UNCHANGED <<sBlock, sLoopRetries>>
             [] end = "ZCRCQ" ->
                  sGood' = sGood + 1 /\ sLoopRetries' = 0 /\ Goto("ZcrcqWait")
                  /\ UNCHANGED sBlock
             [] OTHER ->
                  Adapt(sGood + 1) /\ Goto(IF atEOF THEN "EOF" ELSE "Loop")
                  /\ UNCHANGED sLoopRetries
  /\ UNCHANGED <<r2s, ctlVars, sLastAck, sUnreliable, sZcrcwNext, sZcrcwRetries>>

ReadEOF ==
  /\ sState = "Read" /\ sReadPos >= Size
  /\ Send(Sub(sFile, sReadPos, 0, "ZCRCE"))
  /\ Goto("EOF")
  /\ UNCHANGED <<r2s, ctlVars, loopVars, recoverVars>>

\* The ZCRCW flush wait: only a ZACK at exactly fileOffset (compared as
\* int64 with the uint32 ack) or a ZRPOS ends it; both restart the frame.
ZcrcwWaitRecv ==
  /\ RecvOk("ZcrcwWait")
  /\ \/ /\ Rcvd.type = "ZACK" /\ Rcvd.pos = sFileOffset
        /\ sLastAck' = Rcvd.pos /\ sZcrcwNext' = FALSE /\ sZcrcwRetries' = 0
        /\ Goto("Data")
        /\ UNCHANGED <<sFileOffset, sReadPos, sBlock, sGood, sUnreliable>>
     \/ Rcvd.type = "ZRPOS" /\ Recover(Rcvd.pos) /\ UNCHANGED sLastAck
     \/ /\ ~(Rcvd.type = "ZACK" /\ Rcvd.pos = sFileOffset)
        /\ Rcvd.type /= "ZRPOS"
        /\ sZcrcwRetries' = sZcrcwRetries + 1
        /\ IF sZcrcwRetries + 1 >= MaxRetries THEN Goto("Failed") ELSE UNCHANGED sState
        /\ UNCHANGED <<sLastAck, sFileOffset, sReadPos, sBlock, sGood,
                       sUnreliable, sZcrcwNext>>
  /\ UNCHANGED <<s2r, ctlVars, sSubCount, sLoopRetries>>

\* The ZCRCQ wait: a ZACK moves lastAckOffset, a ZRPOS restarts the frame,
\* anything else is ignored; then adaptation and the next read.
ZcrcqWaitRecv ==
  /\ RecvOk("ZcrcqWait")
  /\ IF Rcvd.type = "ZRPOS"
     THEN Recover(Rcvd.pos) /\ UNCHANGED sLastAck
     ELSE /\ sLastAck' = IF Rcvd.type = "ZACK" THEN Rcvd.pos ELSE sLastAck
          /\ Adapt(sGood) /\ Goto("Loop")
          /\ UNCHANGED <<sFileOffset, sReadPos, sUnreliable, sZcrcwNext, sZcrcwRetries>>
  /\ UNCHANGED <<s2r, ctlVars, sSubCount, sLoopRetries>>

\* stxEOF: hex ZEOF at fileOffset.
SendZEOF ==
  /\ sState = "EOF" /\ Send(Hdr("ZEOF", sFileOffset)) /\ Goto("EOFAck")
  /\ UNCHANGED <<r2s, ctlVars, loopVars, recoverVars>>

\* Mutant: a ZACK taken as the answer to ZEOF as well.
EOFAckedByZACK(h) == h.type \in {"ZRINIT", "ZACK"}

\* The receiver acknowledges ZEOF with ZRINIT.
EOFAcked(h) == h.type = "ZRINIT"

\* stxEOFAck: ZRINIT completes the file, ZRPOS resumes sending, ZNAK
\* resends ZEOF, ZSKIP skips; any other frame is an error.

EOFAckRecv ==
  /\ RecvOk("EOFAck")
  /\ \/ /\ EOFAcked(Rcvd)
        /\ sOutcome' = [sOutcome EXCEPT ![sFile] = "ok"]
        /\ ProcessZRINIT(Rcvd) /\ Goto("NextFile")
        /\ UNCHANGED <<sFile, sRetries, recoverVars>>
     \/ /\ Rcvd.type = "ZRPOS" /\ Recover(Rcvd.pos)
        /\ UNCHANGED <<sFile, sRetries, sRemoteWin, sOutcome>>
     \/ /\ Rcvd.type = "ZNAK" /\ sRetries' = sRetries + 1 /\ Goto("EOF")
        /\ UNCHANGED <<sFile, sRemoteWin, sOutcome, recoverVars>>
     \/ /\ Rcvd.type = "ZSKIP"
        /\ sOutcome' = [sOutcome EXCEPT ![sFile] = "skip"]
        /\ Goto("NextFile")
        /\ UNCHANGED <<sFile, sRetries, sRemoteWin, recoverVars>>
     \/ /\ Rcvd.type \notin {"ZRINIT", "ZRPOS", "ZNAK", "ZSKIP"}
        /\ Goto("Failed") /\ UNCHANGED <<ctlVars, recoverVars>>
  /\ UNCHANGED <<s2r, loopVars>>

\* stxFin: hex ZFIN.
SendZFIN ==
  /\ sState = "Fin" /\ Send(Hdr("ZFIN", 0)) /\ Goto("FinAck")
  /\ UNCHANGED <<r2s, ctlVars, loopVars, recoverVars>>

\* stxFinAck: the receiver's ZFIN is answered with "OO"; ZNAK resends
\* ZFIN; anything else ends the session as well.
FinAckRecv ==
  /\ RecvOk("FinAck")
  /\ \/ Rcvd.type = "ZFIN" /\ Send(OO) /\ Goto("Done") /\ UNCHANGED sRetries
     \/ Rcvd.type = "ZNAK" /\ sRetries' = sRetries + 1 /\ Goto("Fin") /\ UNCHANGED s2r
     \/ Rcvd.type \notin {"ZFIN", "ZNAK"} /\ Goto("Done") /\ UNCHANGED <<s2r, sRetries>>
  /\ UNCHANGED <<sFile, sRemoteWin, sOutcome, loopVars, recoverVars>>

-----------------------------------------------------------------------------
\* Every step runSender takes by itself; read errors and timeouts are
\* separate because the session decides when a timeout may happen.
SenderNext ==
  \/ SendZRQINIT \/ InitWaitRecv \/ SendZSINIT \/ SInitWaitRecv
  \/ NextFile \/ SendZFILE \/ FileInfoAckRecv \/ SendZDATA
  \/ PeekRecv \/ NoPeek \/ WindowWaitRecv \/ ReadData \/ ReadEOF
  \/ ZcrcwWaitRecv \/ ZcrcqWaitRecv \/ SendZEOF \/ EOFAckRecv
  \/ SendZFIN \/ FinAckRecv \/ RetriesExhausted \/ SRecvError \/ SkipNoise

=============================================================================
