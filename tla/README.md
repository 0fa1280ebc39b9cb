# TLA+ models of go-zmodem

This directory holds TLC-checkable TLA+ models of the ZMODEM engine in `src/`:
`Session.Send` (`runSender`, sender.go) and `Session.Receive` (`runReceiver`,
receiver.go) running against each other over a byte stream that can lose, damage
or delay frames.

## The system and its parts

| Part | Source | Module | Status |
|---|---|---|---|
| Sender state machine | sender.go `runSender`, `processZRINIT`, `recvHeaderRetry`, `seekFile` | `ZSender` | partly |
| Receiver state machine | receiver.go `runReceiver`, `receiveDataSubpackets`, `sendZRINIT` | `ZReceiver` (abstract view: `ZDelivery`) | partly |
| Frame layer | writer.go `Header`, `makeHeader`, `makePosHeader`, `send*Header`, `recv*Header`; subpacket.go | `ZFrame`, `ZCodec` | partly (no CRC-32) |
| Transport reader | reader.go `readByteStrip`, `zdlRead`, `readHex`, `scanForPad`, `peekForZPAD`, `purge`, `readByte` deadline | `ZCodec`, `ZSender`, `ZReceiver`, `ZSession` | partly |
| Session API / Config | zmodem.go `NewSession`, `Send`, `Receive`, `acquire`, `release`, `Config.defaults`; reader.go `readByte`, `clearDeadline` | `ZSession`, `ZSessionAPI` | partly (no `Abort`) |
| ZDLE escape codec | src/unnamed/part_000 `buildEscapeTable`, `escapeRequired`; writer.go `transportWriter` | `ZCodec` | modelled |
| File information encoding | `parseFileInfo`, `marshalFileInfo` | — | not modelled |
| Tests and test helpers | writer.go, frame_test.go, escape_test.go | — | not modelled |

How the parts interact:
- Each end runs one goroutine: the sender's state machine or the receiver's.
- Each writes frames (a header, optionally followed by data subpackets) into its direction of the stream and reads the other direction.
- The receiver drives recovery. It sends ZRPOS at the position it expects, and ZNAK in the control phases.
- The sender reacts: it seeks, quarters its block size and flushes with ZCRCW.
- Window flow control: the receiver advertises a window in ZRINIT. The sender stops when `fileOffset - lastAckOffset` reaches it and solicits a ZACK with an empty ZCRCQ.
- Every blocking read has a deadline (RecvTimeout, 10 s by default), and each wait counts its errors against a limit.

## Modules

- **ZFrame**: the frame abstraction.
  - A header is `Hdr(type, pos)`. Its position is stored modulo `PosModulus`, the `uint32` of `Header.Data`.
  - A subpacket `Sub(file, from, len, end)` carries units `[from, from+len)` of a file.
  - A CRC failure turns a message into `badhdr` / `badsub` (`Garbled`).
  - A header whose ZPAD / ZDLE prefix is hit becomes `noise` (`Lost`). `scanForPad` skips noise in a header read; a subpacket read takes it in as data and fails.
  - Escaping, the encodings and the CRC arithmetic are below this abstraction.
- **ZSender**: `runSender`. `sState` is the program counter.
  - The code's states are kept.
  - A state that writes and then blocks is split into the write (`Init`, `SInit`, `FileInfo`, `EOF`, `Fin`) and the wait (`InitWait`, `SInitWait`, `FileInfoAck`, `EOFAck`, `FinAck`).
  - The inner loop of `stxData` is split at its blocking points: `Loop`, `WindowWait`, `Read`, `ZcrcwWait`, `ZcrcqWait`.
  - Variables are the locals of `runSender`: `fileOffset`, `lastAckOffset`, `blockSize`, `goodBlocks`, `unreliable`, `zcrcwNext`, `zcrcwRetries`, `retries`, `subpacketCount`, the two wait loops' retry counters, and `remoteWindowSize`.
  - Two more variables: the reader position `sReadPos`, and the FileCompleted outcome per file, a history variable.
  - `Recover` is the ZRPOS block that appears five times in the code.
  - `OnRecvError` is what a read error does in each wait.
- **ZReceiver**: `runReceiver`, with `receiveDataSubpackets` one subpacket per step (`Sub`).
  - Variables: `fileOffset`, `retries`, `consecutiveErr`.
  - The receiving file and its resume base are history variables.
  - `rSink` is what the `io.Writer` got, as (file, offset) units. It is what `DataIntegrity` inspects.
  - `PurgeFrom` is `purge()`: it discards any prefix of what follows, because what is buffered at that instant is timing.
- **ZSession**: the composition.
  - The two state machines share `s2r` / `r2s`.
  - Fault actions are bounded by `MaxFaults`: `Lose`, `Garble`, a deadline that fires while the peer is still going to write (`SenderSlowTimeout` / `ReceiverSlowTimeout`), and a failing writer (`ReceiverWriteFault`).
  - A timeout that costs no fault is one no clock can avoid: the reader's peer has returned, or is blocked as well. In the second case the two deadlines fire in turn (`lastTimeout`). This holds because both ends use the same RecvTimeout.
  - `DeliveryRefined`: ZSession implements **ZDelivery**, the abstract promise of `Session.Receive` to its FileHandler. AcceptFile is called at most once per file. Files are accepted one at a time and in offer order. An open writer only ever gets more data. Each file gets one FileCompleted verdict and is never reopened, and nothing happens after Receive returns. The refinement mapping takes these from the receiver's state:
    - the open writer, from the receiver states that hold `curWriter` (`Data`, `Sub`, `DataFileSub`, `EOF`);
    - the written amount, from `rSink`;
    - the verdicts, from the receiver's outcome history;
    - the number of AcceptFile calls per file, from `rAsked`, which srxFileAccept increments on every call.

    The count is what makes a repeated call visible: a second decline leaves the verdict "skip" unchanged and would otherwise look like a stutter. The faults run, where the property is checked, accepts every file. The code does not keep the promise for declined files: on the dupzfile trace a resent ZFILE of a declined file makes srxFileAccept call AcceptFile and FileCompleted(ErrSkip) a second time (receiver.go:154-163), and DeliveryRefined fails there. This is listed as a hazard at receiver.go:156.
- **MCZSession**: the file offers and AcceptFile answers that the cfgs use.
- **ZCodec**: the byte level, below ZFrame.
  - The `transportWriter` is a record `[out, last, all]`: the bytes emitted, `lastSent` and `escapeAll`. `writeRaw`, `writeEscapedByte`, `writeEscaped` and `writeHex` are operators on it, with the escape table from `buildEscapeTable` / `escapeRequired`.
  - The `transportReader` is a record `[line, can, garbage]`: the unread bytes, `canCount` and `garbageCount`. `readByteStrip`, `zdlRead` / `zdlEscape`, `readHex` and `scanForPad` are RECURSIVE operators that return the byte and the reader after the read. Reading past the end of the line is the deadline expiring.
  - The encoders `sendHexHeader`, `sendBinHeader(WithZnulls)` and `sendSubpacket`, and the decoders `recvHeader`, `recvHexHeader`, `recvBinHeader` and `recvSubpacketCRC16`, follow the code step by step, with the real CRC-16.
  - The state machine runs one writer and one reader over a line that may insert one flow-control byte anywhere. The writer may switch to escape-all at any point. For the XON after a hex header, `recvHeader` chooses whether it is already buffered.
  - CRC-16 (`crc16Update`, `crc16Finalize`) is not under src/. It is modelled from spec.md §4.2, and checked to give 0x31C3 for "123456789".
- **ZSessionAPI**: the Session as several goroutines see it.
  - `NewSession` with `Config.defaults` turns the `cfg` argument (`given`: nil or a Config record) into `s.cfg`. A nil Config gets RecvTimeout 10; an explicit 0 stays 0 and turns deadlines off.
  - `Acquire` is `acquire` under `mu`: a call that finds `active` set returns "session already active" before any `defer` is registered.
  - `pc` per goroutine is `idle`, `run` (in `runSender` / `runReceiver`), `blocked` (in the transport's Read) or `exit`. `exit` is the sequence of deferred calls still to run. Go runs defers last in first out, so it is `clearDeadline` then `release`.
  - The state machines are reduced to their reads (`ReadByte`): with nothing buffered, `readByte` sets the deadline when `tr.ds != nil && tr.timeout > 0` (`Managed`) and blocks. `Arrive` is the peer's bytes, and `Expire` is the deadline passing.
- **MCZSessionAPI**: the Configs given to NewSession: nil; all fields zero or negative; an oversized MaxBlockSize with RecvTimeout 0; and ordinary values.
- **MCZCodec**: the payloads, header types and header data of the codec run.
- **ZDelivery**: see `DeliveryRefined` above.

## Runs

All runs but `codec` and `api` use `MCZSession` with its cfg `MCZSession_<name>.cfg`. `codec` uses `MCZCodec` with `MCZCodec.cfg`, and `api` uses `MCZSessionAPI` with `MCZSessionAPI.cfg`.

| Run | Expect | Properties | What it shows |
|---|---|---|---|
| faults | pass | TypeOK, DataIntegrity, CompleteOnSuccess, WindowRespected, CleanRunSucceeds, OutcomesAgree, Termination, DeliveryRefined | Files of 8 and 2 units, up to 2 faults of every kind, and retry limits scaled down to 2 / 1 / 2 so that a side gives up. The writer gets each file in order without gaps or repeats. A complete report means a whole file. The sender reports a file sent only if the receiver completed it, and when both return nil they agree on every file. The sender stays within the window, and both Send and Receive return. The receiver's behaviour towards its FileHandler implements ZDelivery. Without faults, both ends return nil with every file delivered. The receiver's MaxBlockSize (2 units) is below the sender's largest block (3 units), so only the sender's quartering gets the first file through. |
| offers | pass | DataIntegrity, SkipMeansReceiverSkipped | Four files: a resume at 1, a file over MaxFileSize, an AcceptFile skip and an AcceptFile error. There is an AttnSequence (ZSINIT) and up to two lost frames. With an AttnSequence a fault-free handshake always fails (the attn finding), so one loss is spent there and one is left for the file phase: for example a lost ZSKIP, which makes the receiver answer with ZNAK and the sender resend the declined file's ZFILE. Data is written from the resume offset, and "skipped" at the sender means declined by the receiver. The non-seekable resume is left to the noseek run, where one lost ZSKIP breaks DataIntegrity. |
| attn | violation | CleanRunSucceeds | AttnSequence: the second ZRINIT fails stxSInit (sender.go:126). |
| dupzfile | violation | SkipMeansReceiverSkipped | A resent ZFILE gets two ZSKIPs; the second is taken for the next file. |
| partial | violation | DataIntegrity | A partial `Write` before an error is resent and duplicated (receiver.go:328). |
| lostzrinit | violation | SingleFaultRecovered | A lost ZRINIT after ZEOF is never repeated (receiver.go:146). |
| stalezack | violation | SingleFaultRecovered | A late ZACK makes the probe be answered twice; the stale ZACK fails stxEOFAck. |
| noseek | violation | DataIntegrity | A lost ZSKIP for a file that cannot be resumed: the receiver takes the next ZFILE for a duplicate and answers ZRPOS(offset), and the next file's data is written into the skipped file (sender.go:181, receiver.go:256). |
| shrunk | violation | CompleteOnSuccess | A resume offset past the sender's size gives a "complete" file longer than the original. |
| bigfile | violation | Termination | Positions wrap at 2^32: a file of 4 GiB or more never finishes (writer.go:1202). |
| codec | pass | TypeOK, FlowTransparent, NoRawCRAfterAt | The reader decodes exactly the frames the writer sent, in order and without error, unless a flow-control byte lands inside a header. This holds across escape modes, ZDLE runs, XON/XOFF with parity, and a hex-header XON left unread. No `@` on the wire is ever followed by a raw CR. In TypeOK, the counters stay within the abort and GarbageThreshold limits plus the one increment that trips them. |
| api | pass | TypeOK, ExclusiveUse, DeadlineClearedOnExit, ReadsReturn | Two goroutines each call Send / Receive twice on one Session, for every Config above. No two calls use the transport reader at once, including a call's exit-time `clearDeadline`. No deadline is left on the transport once no call is running. A read blocked with deadlines wanted (nil Config or RecvTimeout > 0, transport with SetReadDeadline) returns. |

PROJECT.json lists the findings and the hazards behind these runs. Two divergences from spec.md were found while modelling and are modelled as the code behaves, but have no run:
- a damaged ZFILE or ZSINIT subpacket ends the receiver (receiver.go:107, 81), where §7 says control-phase errors are retried;
- stxNextFile does not reset the block size and the unreliable flag (sender.go:142), where §4.4 says it does.

## Bounds

Data is counted in units of 32 bytes, the sender's minimum block size.

| Constant | Value | Stands for |
|---|---|---|
| BlockMin | 1 | 32 bytes |
| BlockInit | 2 | |
| SMaxBlock | 3 | not a power of two, so a missing cap on doubling shows |
| GoodNeeded | 2 | goodNeeded |
| GoodNeededUnreliable | 4 | the unreliable threshold |
| ZcrcqInterval | 2 | zcrcqInterval |
| WindowSize | 2 | the window |
| RecvMaxLen | 11 | above SMaxBlock, as with equal MaxBlockSize |
| MaxRetries | 10 | as in the code (2 in `faults` and `noseek`) |
| DataRetryMax | 25 | as in the code (1 in `faults` and `noseek`) |
| MaxConsecutiveErr | 15 | as in the code (2 in `faults` and `noseek`) |
| PosModulus | 1024 | stands for 2^32, which TLC's integers cannot hold; 4 in `bigfile` so that wrap is reached |

The `faults` run uses RecvMaxLen 2 and a first file of 8 units, so that the block size grows to 3 before a subpacket is rejected. The limits are scaled down so that they are reached within two faults.

The `offers` run allows two faults (MaxFaults 2). With an AttnSequence the handshake needs one of them, a lost ZRQINIT or ZRINIT, so one is left for the exchange about the files.

The `api` run (`MCZSessionAPI.cfg`) has two goroutines (Callers), 2 calls each (MaxCalls) and 2 reads per call (MaxReads). That is enough for one goroutine to be rejected while the other runs, to reuse the Session after an exit, and to block twice in one call.

Codec bounds (`MCZCodec.cfg`), in bytes:

| Constant | Value | Why |
|---|---|---|
| Payloads | empty; 0x00 0x8D 0x91; five ZDLE | an empty subpacket; a NUL (escaped only in escape-all), a CR variant and a parity XON; a ZDLE run longer than the five-CAN abort |
| HexTypes / BinTypes | ZRINIT, ZACK / ZDATA, 11 | with and without the trailing XON; a frame that opens subpackets and one that does not |
| HdrData | `@` CR XON ZDLE | '@' then CR, which must be escaped after '@' in a binary header and goes raw in hex |
| FlowBytes | 0x93 | XOFF with the parity bit |
| Znulls | 1 | garbage before ZDATA |
| GarbageMax | 3 | Znulls + a leftover XON + one noise byte: reached, and passed only when noise breaks a header |
| MaxLen | 5 | the longest payload |
| MaxFrames | 3 | a header, a subpacket and a following header |
| MaxNoise | 1 | one inserted byte |

Why these bounds are enough:
- Ratios are chosen so that each mechanism is reached with two files of 8 and 2 units (4 and 2 in the violation runs):
  - the window fills;
  - the block size doubles and hits the cap;
  - ZCRCQ checkpoints occur;
  - the last subpacket carries io.EOF or not.
- Two faults are enough to hit every state both during a recovery and after one.

## Fairness

Each side is weakly fair (`WF_vars(SenderStep)`, `WF_vars(ReceiverStep)`): a goroutine that can go on is not starved forever. Faults are not fair; they happen at most `MaxFaults` times. Timeouts that no clock can avoid are part of each side's step. The codec run checks safety only, so it assumes no fairness. In `api`, each goroutine's own steps are weakly fair, and so is `Expire`: a deadline that is set does pass. `Arrive` has no fairness, because the peer may stay silent. `Done` is its stuttering end state, reached once the frame bound is spent and every frame has been read.

## Not modelled

- File-info formatting (`parseFileInfo`, `marshalFileInfo`): string formatting. Only the file size matters to the protocol.
- CRC-32 headers and subpackets: ZCodec rejects ZBIN32, and the sessions use CRC-16 only.
- `EscapeMinimal` / `setEscapeMode`: sender.go and receiver.go call `tw.setEscapeMode` and `tw.escapeMode`, but writer.go only has `setEscapeAll(bool)`, and zmodem.go:155 passes five arguments to the four-argument `newTransportReader`. The model follows writer.go and reader.go as they are.
- The ZCodec and ZSession levels are separate models. The sessions see a frame that ZCodec would reject as `badhdr` / `badsub`, or as `noise` when its prefix is hit.
- The ZCHALLENGE / ZCRC / ZCOMMAND / ZFREECNT branches: these frames are never sent by this code's peer.
- The ZCRCW window probe used without CANFDX: sendZRINIT always advertises CANFDX.
- In the sessions, abort by CAN, the garbage threshold and context cancellation. ZCodec models the CAN count and the threshold for one reader. Reading the code for cancellation shows two places where it is not prompt; both are listed as hazards in PROJECT.json:
  - the sender's window, ZCRCQ and ZCRCW waits never poll the context (sender.go:288);
  - a cancelled `receiveDataSubpackets` is treated as a data error, so the receiver sends a ZRPOS before it returns (receiver.go:217).
- After `errGarbageOverflow`, `garbageCount` stays above the threshold until the next valid frame start (reader.go:189). ZCodec ends the reader at its first failure, so it does not show this.
- RecvTimeout = 0 in the sessions, which removes all deadlines. This is what every explicit Config without RecvTimeout gets (zmodem.go:141-145), including the loopback tests' configs. ZSessionAPI covers it at the Session level, where ReadsReturn excludes it as documented behaviour. In ZSession, removing the deadline-driven timeouts leaves one way for a read to end: EOF once the peer's Send or Receive has returned and its pipe is closed, as with the tests' `bufferedPipe`. The model was tried that way, and one damaged ZRPOS answering a ZFILE already leaves both ends blocked for good. The sender retries its read on the same pipe, and the receiver waits for a ZDATA that never comes. That is what zmodem.go:69-81 documents ("callers must handle cancellation externally"), not a divergence. The run was therefore not kept.
- Writers left open. On a context error, or on a failed write of a ZRPOS / ZRINIT / ZFIN header, runReceiver returns with `curWriter` still open and without `FileCompleted` (receiver.go:175-176, 193-194, 231-232). spec.md section 7 exempts only files not yet started. Neither context cancellation nor transport write errors are in the session model, so ZDelivery's `End`, which allows a return without a verdict, has no such step to check.
- `Session.Abort`: it only writes the CAN sequence to the transport, with no lock, concurrently with a running Send or Receive.
