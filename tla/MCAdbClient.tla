---------------------------- MODULE MCAdbClient ----------------------------
(* Two clients, each with one child, and perhaps a server that runs.       *)
EXTENDS AdbClient, TLC

CONSTANTS c1, c2, k1, k2

MCChild == c1 :> k1 @@ c2 :> k2
=============================================================================
