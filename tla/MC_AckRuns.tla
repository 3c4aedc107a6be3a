----------------------------- MODULE MC_AckRuns -----------------------------
(* Bytes of 3 bits: a u32 has 12 bits, varints take 1 byte up to 1, 2 up   *)
(* to 15 and 4 up to 1023, and a run has at most 8 bytes.                  *)
EXTENDS AckRuns

\* Consecutive, alternating, far apart, and a run that ends with the largest u32.
SomeNumbers == (0..2) \cup {4, 6, 8, 9, 11, 40, 4094, 4095}
=============================================================================
