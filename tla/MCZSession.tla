----------------------------- MODULE MCZSession -----------------------------
(***************************************************************************)
(* Model values for ZSession.  Sizes and offsets are in units of 32 bytes *)
(* (the blockSize floor); the code's thresholds are scaled down in the    *)
(* .cfg files so that block growth, ZCRCQ checkpoints and a full window  *)
(* happen within a few subpackets.                                        *)
(***************************************************************************)
EXTENDS ZSession

\* Two seekable files, both accepted from the start.
MCFilesTwo == <<[size |-> 4, seekable |-> TRUE], [size |-> 2, seekable |-> TRUE]>>
MCAcceptTwo == <<[err |-> "none", offset |-> 0], [err |-> "none", offset |-> 0]>>

\* The receiver skips the first of the two files and takes the second.
MCAcceptSkipFirst == <<[err |-> "skip", offset |-> 0], [err |-> "none", offset |-> 0]>>

\* One offer for each answer the receiver can give: a resume at 1, a resume
\* the sender cannot seek to, a file over MaxFileSize (3), an AcceptFile
\* skip, and an AcceptFile error.
MCFilesOffers ==
  <<[size |-> 3, seekable |-> TRUE], [size |-> 1, seekable |-> FALSE],
    [size |-> 4, seekable |-> TRUE], [size |-> 1, seekable |-> TRUE],
    [size |-> 1, seekable |-> TRUE]>>
MCAcceptOffers ==
  <<[err |-> "none", offset |-> 1], [err |-> "none", offset |-> 1],
    [err |-> "none", offset |-> 0], [err |-> "skip", offset |-> 0],
    [err |-> "fail", offset |-> 0]>>

\* The same answers without the unseekable resume: a resume at 1, a file
\* over MaxFileSize (3), an AcceptFile skip, and an AcceptFile error.
MCFilesAnswers ==
  <<[size |-> 3, seekable |-> TRUE], [size |-> 4, seekable |-> TRUE],
    [size |-> 1, seekable |-> TRUE], [size |-> 1, seekable |-> TRUE]>>
MCAcceptAnswers ==
  <<[err |-> "none", offset |-> 1], [err |-> "none", offset |-> 0],
    [err |-> "skip", offset |-> 0], [err |-> "fail", offset |-> 0]>>

\* A file the receiver already holds more of than the sender now has.
MCFilesShrunk == <<[size |-> 1, seekable |-> TRUE]>>
MCAcceptShrunk == <<[err |-> "none", offset |-> 2]>>

\* A file larger than the 32-bit position space (PosModulus 4 in the cfg).
MCFilesBig == <<[size |-> 5, seekable |-> TRUE]>>
MCAcceptBig == <<[err |-> "none", offset |-> 0]>>

\* A first file long enough for the block size to grow to SMaxBlock
\* (2, 2, 3), and a second one that starts with the block size left over.
MCFilesLong == <<[size |-> 8, seekable |-> TRUE], [size |-> 2, seekable |-> TRUE]>>

=============================================================================
