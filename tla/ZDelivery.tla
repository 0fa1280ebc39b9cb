----------------------------- MODULE ZDelivery -----------------------------
(***************************************************************************)
(* What Session.Receive promises the application, as its FileHandler sees  *)
(* it: AcceptFile is called about each file at most once; files are        *)
(* accepted one at a time and in the order the sender offers them; while a *)
(* file is open its writer only ever receives more data; a file gets one   *)
(* FileCompleted verdict and is never opened again after it; a file        *)
(* AcceptFile declines gets a "skip" verdict without being opened; and     *)
(* once Receive has returned nothing more happens.  ZSession refines this  *)
(* specification (DeliveryRefined).                                        *)
(***************************************************************************)
EXTENDS Naturals

CONSTANTS
  FileIds,    \* the sender's files, in the order it offers them
  Verdicts    \* what FileCompleted may report

VARIABLES
  open,       \* a writer from AcceptFile is in use
  cur,        \* the file it belongs to (0 when none)
  written,    \* how much has been written to it
  verdict,    \* the FileCompleted verdict per file ("none" before it)
  ended,      \* Receive has returned
  asked       \* how often AcceptFile was called per file

vars == <<open, cur, written, verdict, ended, asked>>

\* f comes after every file that already has a verdict.
InOrder(f) == \A g \in FileIds : verdict[g] /= "none" => g < f

Init ==
  /\ open = FALSE /\ cur = 0 /\ written = 0
  /\ verdict = [f \in FileIds |-> "none"]
  /\ ended = FALSE
  /\ asked = [f \in FileIds |-> 0]

\* AcceptFile is called about f, for the first time.
Ask(f) == asked[f] = 0 /\ asked' = [asked EXCEPT ![f] = 1]

\* AcceptFile gives a writer for f.
Accept(f) ==
  /\ ~ended /\ ~open /\ verdict[f] = "none" /\ InOrder(f)
  /\ Ask(f) /\ open' = TRUE /\ cur' = f /\ written' = 0
  /\ UNCHANGED <<verdict, ended>>

\* AcceptFile declines f: FileCompleted(ErrSkip) without a writer.
Decline(f) ==
  /\ ~ended /\ ~open /\ verdict[f] = "none" /\ InOrder(f)
  /\ Ask(f) /\ verdict' = [verdict EXCEPT ![f] = "skip"]
  /\ UNCHANGED <<open, cur, written, ended>>

\* Data written to the open writer.
Write ==
  /\ open /\ written' > written
  /\ UNCHANGED <<open, cur, verdict, ended, asked>>

\* The writer is closed with its FileCompleted verdict.
Complete(v) ==
  /\ open /\ verdict[cur] = "none"
  /\ verdict' = [verdict EXCEPT ![cur] = v]
  /\ open' = FALSE /\ cur' = 0 /\ written' = 0
  /\ UNCHANGED <<ended, asked>>

\* Receive returns: with FileCompleted for the open file, without it, or
\* because AcceptFile, asked about the next file, returned an error.
End ==
  /\ ~ended /\ ended' = TRUE
  /\ open' = FALSE /\ cur' = 0 /\ written' = 0
  /\ \/ verdict' = verdict /\ UNCHANGED asked
     \/ open /\ verdict[cur] = "none" /\ UNCHANGED asked
        /\ \E v \in Verdicts : verdict' = [verdict EXCEPT ![cur] = v]
     \/ ~open /\ verdict' = verdict
        /\ \E f \in FileIds : verdict[f] = "none" /\ InOrder(f) /\ Ask(f)

Next ==
  \/ \E f \in FileIds : Accept(f) \/ Decline(f)
  \/ Write
  \/ \E v \in Verdicts : Complete(v)
  \/ End

Spec == Init /\ [][Next]_vars

=============================================================================
