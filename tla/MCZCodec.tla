------------------------------ MODULE MCZCodec ------------------------------
(***************************************************************************)
(* Inputs for checking ZCodec: payloads and header data that hit every     *)
(* class of the escape table, in both modes.                               *)
(***************************************************************************)
EXTENDS ZCodec

\* Empty; NUL then 0x8D (an '@' from escaping in EscapeAll
\* mode) then XON|0x80; five ZDLEs (five CAN-valued bytes in a row).
MCPayloads == {<<>>, <<0, 141, 145>>, <<24, 24, 24, 24, 24>>}
\* ZRINIT is followed by XON, ZACK is not.
MCHexTypes == {ZRINIT, ZACK}
\* ZDATA opens a data frame and gets Znulls; ZEOF (0x0b) does not.
MCBinTypes == {ZDATA, 11}
\* Header data with '@' CR, XON and ZDLE.
MCHdrData == {<<64, 13, 17, 24>>}
\* XOFF with the parity bit set.
MCFlowBytes == {147}
=============================================================================
