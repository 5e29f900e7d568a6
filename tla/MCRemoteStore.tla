--------------------------- MODULE MCRemoteStore ---------------------------
EXTENDS RemoteStore

CONSTANTS i1, i2, t1

\* One task records transitions only, the other one makes calls of every kind.
MCDoes == [t \in Tasks |->
    IF t = t1 THEN {"transition"}
    ELSE {"key", "quota", "decision", "transition",
          "get_key", "get_quota_state", "list_keys", "query_state"}]

\* Both tasks belong to the first instance; the second one only sweeps.
MCAt == [t \in Tasks |-> i1]
=============================================================================
