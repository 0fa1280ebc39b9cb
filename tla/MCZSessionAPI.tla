--------------------------- MODULE MCZSessionAPI ---------------------------
EXTENDS ZSessionAPI

\* Configs NewSession may be given: nil; a negative timeout, to be made 0;
\* an explicit 0 (deadlines off) with a block size above the cap; and a
\* Config with every field set.
MCGivenConfigs ==
  { NilConfig,
    [MaxBlockSize |-> 0, RecvTimeout |-> -1, MaxRetries |-> 0, GarbageThreshold |-> 0],
    [MaxBlockSize |-> 16384, RecvTimeout |-> 0, MaxRetries |-> 0, GarbageThreshold |-> 0],
    [MaxBlockSize |-> 512, RecvTimeout |-> 5, MaxRetries |-> 3, GarbageThreshold |-> 100] }

=============================================================================
