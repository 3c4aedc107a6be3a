---------------------------- MODULE MC_SendTable ----------------------------
(***************************************************************************)
(* Instances of SendTable: up to three senders, a table of three slots.    *)
(***************************************************************************)
EXTENDS SendTable, TLC

CONSTANTS a, b, c

\* Documents of length 2 do not fit below 4 together; 1 and 2 do.  The last document of c
\* is as long as send_bytes_max.
Lens == (a :> <<1, 1>>) @@ (b :> <<2, 2>>) @@ (c :> <<4, 2>>)

Short == (a :> <<1>>) @@ (b :> <<1>>) @@ (c :> <<1>>)
=============================================================================
