---------------------------- MODULE ZSessionAPI ----------------------------
(***************************************************************************)
(* The Session API of zmodem.go around the two state machines: NewSession *)
(* and Config.defaults, the acquire / release guard (mu, active) that      *)
(* Send and Receive take, the deferred clearDeadline, and the read         *)
(* deadline that transportReader.readByte sets.  Several goroutines call   *)
(* Send or Receive on one Session; runSender / runReceiver are reduced to  *)
(* their reads of the transport, since only those touch shared state.     *)
(***************************************************************************)
EXTENDS Integers, Sequences

CONSTANTS
  Callers,       \* goroutines calling Send or Receive on the Session
  NilConfig,     \* a nil *Config argument (a model value)
  GivenConfigs,  \* what NewSession may be passed: NilConfig or a Config record
  MaxCalls,      \* calls per goroutine
  MaxReads       \* transport reads per call

VARIABLES
  cfg,        \* s.cfg after NewSession
  given,      \* the cfg argument of NewSession (kept for the properties)
  hasDeadline,\* the transport implements SetReadDeadline (tr.ds # nil)
  active,     \* s.active
  deadline,   \* a read deadline is set on the transport
  buffered,   \* the bufio.Reader holds unread bytes
  pc,         \* per goroutine: "idle", "run", "blocked", "exit"
  exit,       \* per goroutine: its deferred calls still to run, in order
  reads,      \* per goroutine: reads in the current call
  calls       \* per goroutine: calls made

vars == <<cfg, given, hasDeadline, active, deadline, buffered, pc, exit, reads, calls>>

(***************************************************************************)
(* NewSession.                                                             *)
(***************************************************************************)
\* Mutant: MaxBlockSize not capped at 8192.
defaultsNoCap(c) ==
  [c EXCEPT !.MaxBlockSize = IF @ <= 0 THEN 1024 ELSE @,
            !.RecvTimeout = IF @ < 0 THEN 0 ELSE @,
            !.MaxRetries = IF @ <= 0 THEN 10 ELSE @,
            !.GarbageThreshold = IF @ <= 0 THEN 1200 ELSE @]

\* Config.defaults: every field the session uses gets a usable value.
defaults(c) ==
  [c EXCEPT !.MaxBlockSize = IF @ <= 0 THEN 1024 ELSE IF @ > 8192 THEN 8192 ELSE @,
            !.RecvTimeout = IF @ < 0 THEN 0 ELSE @,
            !.MaxRetries = IF @ <= 0 THEN 10 ELSE @,
            !.GarbageThreshold = IF @ <= 0 THEN 1200 ELSE @]

\* The zero Config, what NewSession copies when it is given nil.
ZeroConfig == [MaxBlockSize |-> 0, RecvTimeout |-> 0, MaxRetries |-> 0, GarbageThreshold |-> 0]

\* Mutant: a nil Config keeps RecvTimeout 0, deadlines off.
NewSessionNoDefault(g) == defaults(IF g = NilConfig THEN ZeroConfig ELSE g)

\* NewSession's Config: defaults, then 10 s (as 10) for a nil cfg.
NewSession(g) ==
  LET c == defaults(IF g = NilConfig THEN ZeroConfig ELSE g)
  IN  IF g = NilConfig /\ c.RecvTimeout = 0 THEN [c EXCEPT !.RecvTimeout = 10] ELSE c

\* Deadline management is on: tr.ds # nil && tr.timeout > 0.
Managed == hasDeadline /\ cfg.RecvTimeout > 0

Init ==
  /\ given \in GivenConfigs
  /\ cfg = NewSession(given)
  /\ hasDeadline \in BOOLEAN
  /\ active = FALSE
  /\ deadline = FALSE
  /\ buffered = FALSE
  /\ pc = [c \in Callers |-> "idle"]
  /\ exit = [c \in Callers |-> <<>>]
  /\ reads = [c \in Callers |-> 0]
  /\ calls = [c \in Callers |-> 0]

(***************************************************************************)
(* Send / Receive.                                                         *)
(***************************************************************************)
\* Mutant: the defer statements in the other order.
DefersSwapped == <<"release", "clearDeadline">>

\* The deferred calls of Send and Receive in the order they run: the
\* defer statements are release then clearDeadline, and defers run last in
\* first out.
Defers == <<"clearDeadline", "release">>

\* acquire: under mu, fail if active, else set it.  A call that fails
\* returns "session already active" before any defer is registered.
Acquire(c) ==
  /\ pc[c] = "idle" /\ calls[c] < MaxCalls
  /\ calls' = [calls EXCEPT ![c] = @ + 1]
  /\ reads' = [reads EXCEPT ![c] = 0]
  /\ IF active
     THEN UNCHANGED <<active, pc, exit>>
     ELSE /\ active' = TRUE
          /\ pc' = [pc EXCEPT ![c] = "run"]
          /\ exit' = [exit EXCEPT ![c] = Defers]
  /\ UNCHANGED <<cfg, given, hasDeadline, deadline, buffered>>

\* readByte: with nothing buffered it sets the idle deadline (when deadline
\* management is on) and blocks in the transport's Read; otherwise it takes
\* a buffered byte.
ReadByte(c) ==
  /\ pc[c] = "run" /\ reads[c] < MaxReads
  /\ reads' = [reads EXCEPT ![c] = @ + 1]
  /\ IF buffered
     THEN /\ buffered' \in BOOLEAN
          /\ UNCHANGED <<deadline, pc>>
     ELSE /\ deadline' = (deadline \/ Managed)
          /\ pc' = [pc EXCEPT ![c] = "blocked"]
          /\ UNCHANGED buffered
  /\ UNCHANGED <<cfg, given, hasDeadline, active, exit, calls>>

\* The peer's bytes arrive and the blocked Read returns them.
Arrive(c) ==
  /\ pc[c] = "blocked"
  /\ pc' = [pc EXCEPT ![c] = "run"]
  /\ buffered' \in BOOLEAN
  /\ UNCHANGED <<cfg, given, hasDeadline, active, deadline, exit, reads, calls>>

\* The deadline passes: the blocked Read returns a timeout error.
Expire(c) ==
  /\ pc[c] = "blocked" /\ deadline
  /\ pc' = [pc EXCEPT ![c] = "run"]
  /\ UNCHANGED <<cfg, given, hasDeadline, active, deadline, buffered, exit, reads, calls>>

\* runSender / runReceiver returns, with a result or an error.
Return(c) ==
  /\ pc[c] = "run"
  /\ pc' = [pc EXCEPT ![c] = "exit"]
  /\ UNCHANGED <<cfg, given, hasDeadline, active, deadline, buffered, exit, reads, calls>>

\* Mutant: the deferred clearDeadline dropped.
clearDeadlineNone == UNCHANGED deadline

\* clearDeadline: only when deadline management is on.
clearDeadline == deadline' = (deadline /\ ~Managed)

\* release: under mu, clear active.
release == active' = FALSE

\* One deferred call runs; the call returns after the last one.
RunDefer(c) ==
  /\ pc[c] = "exit" /\ exit[c] # <<>>
  /\ IF Head(exit[c]) = "clearDeadline"
     THEN clearDeadline /\ UNCHANGED active
     ELSE release /\ UNCHANGED deadline
  /\ exit' = [exit EXCEPT ![c] = Tail(@)]
  /\ pc' = [pc EXCEPT ![c] = IF Tail(exit[c]) = <<>> THEN "idle" ELSE "exit"]
  /\ UNCHANGED <<cfg, given, hasDeadline, buffered, reads, calls>>

\* Every goroutine has made its calls.
Finished ==
  /\ \A c \in Callers : pc[c] = "idle" /\ calls[c] = MaxCalls
  /\ UNCHANGED vars

Step(c) == Acquire(c) \/ ReadByte(c) \/ Return(c) \/ RunDefer(c)

Next ==
  \/ \E c \in Callers : Step(c) \/ Arrive(c) \/ Expire(c)
  \/ Finished

\* Goroutines are scheduled, and a deadline that is set passes; the peer
\* may stay silent, so Arrive has no fairness.
Spec ==
  /\ Init /\ [][Next]_vars
  /\ \A c \in Callers : WF_vars(Step(c)) /\ WF_vars(Expire(c))

(***************************************************************************)
(* Properties.                                                             *)
(***************************************************************************)
TypeOK ==
  /\ cfg.MaxBlockSize \in 1..8192
  /\ cfg.RecvTimeout \in Nat
  /\ cfg.MaxRetries \in Nat \ {0}
  /\ cfg.GarbageThreshold \in Nat \ {0}
  /\ active \in BOOLEAN /\ deadline \in BOOLEAN /\ buffered \in BOOLEAN
  /\ pc \in [Callers -> {"idle", "run", "blocked", "exit"}]
  /\ exit \in [Callers -> Seq({"clearDeadline", "release"})]
  /\ reads \in [Callers -> 0..MaxReads]
  /\ calls \in [Callers -> 0..MaxCalls]

\* Goroutine c is using the Session's transport reader: running its state
\* machine, blocked in a read, or still to clear the deadline on exit.
UsesReader(c) ==
  \/ pc[c] \in {"run", "blocked"}
  \/ pc[c] = "exit" /\ \E i \in 1..Len(exit[c]) : exit[c][i] = "clearDeadline"

\* The acquire / release guard with the deferred clearDeadline: however
\* Send and Receive calls from several goroutines interleave, and however
\* often the Session is reused, no two calls use the transport reader at
\* the same time; in particular a call's clearDeadline on exit never
\* overlaps the next call.
ExclusiveUse ==
  \A c, d \in Callers : c # d => ~(UsesReader(c) /\ UsesReader(d))

\* Spec.md 7 ("deadlines on shared transports"): once no call is in
\* progress, no read deadline the Session set is left on the transport, so
\* the caller can reuse it; this takes readByte and the deferred
\* clearDeadline to test the same condition, and every exit path of Send and
\* Receive to run the defer.
DeadlineClearedOnExit ==
  (\A c \in Callers : pc[c] = "idle") => ~deadline

\* The caller has not turned deadlines off: NewSession got a nil Config, or
\* one with RecvTimeout > 0, and the transport implements SetReadDeadline.
DeadlinesWanted ==
  /\ hasDeadline
  /\ given = NilConfig \/ given.RecvTimeout > 0

\* No read blocks forever, even when the peer falls silent, unless the
\* caller turned deadlines off (zmodem.go:141): NewSession's 10 s default,
\* readByte's deadline and the exit-time clearDeadline of earlier calls.
ReadsReturn ==
  \A c \in Callers : (DeadlinesWanted /\ pc[c] = "blocked") ~> pc[c] # "blocked"

=============================================================================
