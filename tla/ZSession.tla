------------------------------ MODULE ZSession ------------------------------
(***************************************************************************)
(* A go-zmodem session: Session.Send on one end (runSender) and           *)
(* Session.Receive on the other (runReceiver), joined by a byte stream in  *)
(* each direction.  The stream is FIFO; what goes wrong on it is a fault: *)
(*   - "lose":   a header whose ZPAD / ZDLE prefix is hit is skipped as   *)
(*               garbage by scanForPad, or read as data by recvSubpacket; *)
(*   - "garble": a header or subpacket fails its CRC (a subpacket whose   *)
(*               end marker is hit runs into the next one and fails too); *)
(*   - "slow":   a read deadline (RecvTimeout) expires although the peer  *)
(*               is still going to write;                                 *)
(*   - "write":  the receiver's io.Writer fails, after writing part of a  *)
(*               subpacket or none of it.                                 *)
(* Faults are counted in faults and bounded by MaxFaults.  A timeout that *)
(* costs nothing is one no real clock can avoid: the reader is blocked    *)
(* with nothing to read and the peer is finished or blocked as well.      *)
(***************************************************************************)
EXTENDS Naturals, Sequences, ZFrame

CONSTANTS
  Files, UseAttn, MaxRetries, BlockMin, BlockInit, SMaxBlock, GoodNeeded,
  GoodNeededUnreliable, ZcrcqInterval,
  AcceptReply, MaxFileSize, WindowSize, RecvMaxLen, DataRetryMax,
  MaxConsecutiveErr, WriteCuts,
  MaxFaults,     \* how many faults one behaviour may suffer
  FaultKinds     \* which of "lose", "garble", "slow", "write" may happen

VARIABLES
  sState, sFile, sFileOffset, sReadPos, sLastAck, sBlock, sGood,
  sUnreliable, sZcrcwNext, sZcrcwRetries, sRetries, sSubCount,
  sLoopRetries, sRemoteWin, sOutcome,
  rState, rFile, rFileOffset, rBase, rSink, rRetries, rConsecErr,
  rOutcome, rGot, rAsked,
  s2r, r2s, faults,
  lastTimeout    \* which side's deadline fired last while both were blocked

S == INSTANCE ZSender
R == INSTANCE ZReceiver

senderVars == <<sState, sFile, sFileOffset, sReadPos, sLastAck, sBlock, sGood,
                sUnreliable, sZcrcwNext, sZcrcwRetries, sRetries, sSubCount,
                sLoopRetries, sRemoteWin, sOutcome>>
receiverVars == <<rState, rFile, rFileOffset, rBase, rSink, rRetries,
                  rConsecErr, rOutcome, rGot, rAsked>>
vars == <<senderVars, receiverVars, s2r, r2s, faults, lastTimeout>>

FileIds == 1..Len(Files)
Finished(st) == st \in {"Done", "Failed"}

Init ==
  /\ S!SenderInit /\ R!ReceiverInit
  /\ s2r = <<>> /\ r2s = <<>> /\ faults = 0 /\ lastTimeout = "none"

-----------------------------------------------------------------------------
\* The peer of a blocked reader writes nothing more unless a timeout fires.
ReceiverIdle == Finished(rState) \/ (rState \in R!RWaits /\ s2r = <<>>)
SenderIdle == Finished(sState) \/ (sState \in S!SWaits /\ r2s = <<>>)

Spend(kind) == kind \in FaultKinds /\ faults < MaxFaults /\ faults' = faults + 1

\* A deadline that no clock can avoid: the peer has returned, or it is
\* blocked as well.  Both ends use the same RecvTimeout (10 s unless
\* configured), so while both are blocked their deadlines fire in turn:
\* neither fires twice before the other has fired once.
SenderMustTimeout ==
  \/ Finished(rState) /\ UNCHANGED lastTimeout
  \/ ReceiverIdle /\ ~Finished(rState) /\ lastTimeout /= "sender"
     /\ lastTimeout' = "sender"
ReceiverMustTimeout ==
  \/ Finished(sState) /\ UNCHANGED lastTimeout
  \/ SenderIdle /\ ~Finished(sState) /\ lastTimeout /= "receiver"
     /\ lastTimeout' = "receiver"

SenderStep ==
  /\ \/ S!SenderNext /\ lastTimeout' = "none"
     \/ S!STimeout /\ SenderMustTimeout
  /\ UNCHANGED <<receiverVars, faults>>

ReceiverStep ==
  /\ \/ R!ReceiverNext /\ lastTimeout' = "none"
     \/ R!RTimeout /\ ReceiverMustTimeout
  /\ UNCHANGED <<senderVars, faults>>

\* A deadline that fires although the peer is still going to write.
SenderSlowTimeout ==
  /\ S!STimeout /\ ~ReceiverIdle /\ Spend("slow")
  /\ lastTimeout' = "none"
  /\ UNCHANGED receiverVars

ReceiverSlowTimeout ==
  /\ R!RTimeout /\ ~SenderIdle /\ Spend("slow")
  /\ lastTimeout' = "none"
  /\ UNCHANGED senderVars

ReceiverWriteFault ==
  /\ R!WriteFail /\ Spend("write")
  /\ lastTimeout' = "none"
  /\ UNCHANGED senderVars

\* A header on one direction of the stream loses its ZPAD / ZDLE prefix.
Lose(ch) ==
  \E i \in 1..Len(ch) :
    /\ ch[i].kind = "hdr"
    /\ ch' = [ch EXCEPT ![i] = Lost(ch[i])]

\* A header or subpacket on one direction no longer passes its CRC.
Garble(ch) ==
  \E i \in 1..Len(ch) :
    /\ ch[i].kind \in {"hdr", "sub"}
    /\ ch' = [ch EXCEPT ![i] = Garbled(ch[i])]

LineFault ==
  /\ \/ Spend("lose") /\ Lose(s2r) /\ UNCHANGED r2s
     \/ Spend("lose") /\ Lose(r2s) /\ UNCHANGED s2r
     \/ Spend("garble") /\ Garble(s2r) /\ UNCHANGED r2s
     \/ Spend("garble") /\ Garble(r2s) /\ UNCHANGED s2r
  /\ UNCHANGED <<senderVars, receiverVars, lastTimeout>>

\* Both Send and Receive have returned.
Terminated ==
  /\ Finished(sState) /\ Finished(rState)
  /\ UNCHANGED vars

Next ==
  \/ SenderStep \/ ReceiverStep
  \/ SenderSlowTimeout \/ ReceiverSlowTimeout \/ ReceiverWriteFault
  \/ LineFault \/ Terminated

\* Each side runs in its own goroutine and is never starved while it can
\* go on; faults are not fair.
Spec == Init /\ [][Next]_vars /\ WF_vars(SenderStep) /\ WF_vars(ReceiverStep)

-----------------------------------------------------------------------------
MaxPos == PosModulus

TypeOK ==
  /\ sState \in S!SStates /\ rState \in R!RStates
  /\ sFile \in 0..Len(Files) /\ rFile \in 0..Len(Files)
  /\ sOutcome \in [FileIds -> S!Outcomes]
  /\ rOutcome \in [FileIds -> R!ROutcomes]
  /\ rAsked \in [FileIds -> Nat]
  /\ {sRetries, sZcrcwRetries, sLoopRetries, rRetries, rConsecErr} \subseteq Nat
  /\ sBlock \in BlockMin..SMaxBlock
  /\ s2r \in Seq(Msgs(0..Len(Files), 0..MaxPos))
  /\ r2s \in Seq(Msgs({0}, 0..MaxPos))
  /\ faults \in 0..MaxFaults
  /\ lastTimeout \in {"none", "sender", "receiver"}

-----------------------------------------------------------------------------
\* While the receiver holds a writer (srxData and the states it leads to),
\* what receiveDataSubpackets wrote to it is exactly the current file from
\* the offset AcceptFile returned up to fileOffset, with no unit missing,
\* repeated, out of place or taken from another file.  This is what the
\* receiver's checks of the ZDATA and ZEOF positions and its purge / ZRPOS
\* recovery exist for.
DataIntegrity ==
  rState \in {"Data", "Sub", "DataFileSub", "EOF"} =>
    /\ rFileOffset = rBase + Len(rSink)
    /\ \A i \in 1..Len(rSink) : rSink[i] = <<rFile, rBase + i - 1>>

\* Window flow control (WindowSize > 0): the sender is never further ahead
\* of what the receiver has written than the advertised window plus the
\* one subpacket it may send once below the window.  This relates the
\* sender's lastAckOffset, fed by ZACKs that may be late, repeated or from
\* a previous frame, to the receiver's real progress.
WindowRespected ==
  (/\ sRemoteWin > 0 /\ sFile = rFile
   /\ sState \in {"Loop", "WindowWait", "Read", "ZcrcqWait", "ZcrcwWait"}
   /\ rState \in {"Data", "Sub"})
  => sFileOffset - rFileOffset < sRemoteWin + sBlock

\* A file the receiver reports complete (FileCompleted with nil in
\* srxEOF) has as many bytes as the sender's file.
CompleteOnSuccess ==
  \A f \in FileIds : rOutcome[f] = "ok" => rGot[f] = Files[f].size

\* A file the sender reports skipped (FileCompleted with ErrSkip after a
\* ZSKIP) is one the receiver declined: AcceptFile said ErrSkip, or it is
\* larger than MaxFileSize.  A ZSKIP answering one ZFILE must not be taken
\* as the answer to another.
SkipMeansReceiverSkipped ==
  \A f \in FileIds :
    sOutcome[f] = "skip" =>
      \/ rOutcome[f] = "skip"
      \/ MaxFileSize > 0 /\ Files[f].size > MaxFileSize

\* Send and Receive both return: with finitely many faults no wait,
\* retry loop or ZRPOS exchange goes on forever.
Termination == <>(Finished(sState) /\ Finished(rState))


\* On a line without faults, Send and Receive both return nil and every
\* file the sender offered is either delivered whole or skipped at the
\* receiver's request: nothing in the handshake (ZRQINIT / ZRINIT /
\* ZSINIT), the per-file exchange or ZFIN depends on a timeout or a retry.
CleanRunSucceeds ==
  (faults = 0 /\ Finished(sState) /\ Finished(rState)) =>
    /\ sState = "Done" /\ rState = "Done"
    /\ \A f \in FileIds :
         /\ sOutcome[f] \in {"ok", "skip"}
         /\ sOutcome[f] = "ok" => rOutcome[f] = "ok"


\* Sender and receiver agree on what was delivered, whatever the line
\* does: the sender reports a file sent (FileCompleted with nil after a
\* ZRINIT in stxEOFAck) only if the receiver reported it complete, and
\* when both returned nil, every file the receiver completed is one the
\* sender reports sent.  Stale ZRINIT / ZACK frames from retries, and a
\* ZEOF acknowledged for the wrong file, are what could break this.
OutcomesAgree ==
  /\ \A f \in FileIds : sOutcome[f] = "ok" => rOutcome[f] = "ok"
  /\ sState = "Done" /\ rState = "Done" =>
       \A f \in FileIds : rOutcome[f] = "ok" => sOutcome[f] = "ok"


\* One damaged frame or one late answer is recovered from: ZMODEM's
\* retries (ZNAK, ZRPOS, the resent ZCRCQ / ZEOF / ZFIN) exist so that a
\* single error on the line does not end the session with an error.
SingleFaultRecovered ==
  (faults <= 1 /\ Finished(sState) /\ Finished(rState)) =>
    sState = "Done" /\ rState = "Done"


-----------------------------------------------------------------------------
\* The receiver states in which runReceiver holds curWriter from AcceptFile.
WriterStates == {"Data", "Sub", "DataFileSub", "EOF"}
HoldsWriter == rState \in WriterStates

\* The FileHandler's view of the receiver (refinement mapping).
Delivery == INSTANCE ZDelivery
  WITH FileIds <- 1..Len(Files),
       Verdicts <- R!ROutcomes \ {"none"},
       open <- HoldsWriter,
       cur <- IF HoldsWriter THEN rFile ELSE 0,
       written <- IF HoldsWriter THEN Len(rSink) ELSE 0,
       verdict <- rOutcome,
       ended <- Finished(rState),
       asked <- rAsked

\* Receive keeps the promises of ZDelivery to its FileHandler, whatever the
\* line does: AcceptFile is called for the offered files in order and never
\* again for a file that has its FileCompleted; a writer is only appended
\* to; FileCompleted is called once per file.  Stale or resent ZFILE, ZDATA
\* and ZEOF frames from the sender's recovery are what could break this.
DeliveryRefined == Delivery!Spec

=============================================================================
