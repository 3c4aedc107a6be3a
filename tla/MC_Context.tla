----------------------------- MODULE MC_Context -----------------------------
EXTENDS Context, TLC

CONSTANTS p, l, s1, s2, s3, t1, t2

\* The confirm number of each handshake is in the shard of the other's initial number.
CrossedShards == [no \in Nos |-> IF (no[1] = p) = (no[2] = 0) THEN "a" ELSE "b"]
=============================================================================
