----------------------------- MODULE MCTransport -----------------------------
(***************************************************************************)
(* Instances of Transport for TLC.  The configurations choose the          *)
(* transports and their kinds, the clients and the bound on the packets    *)
(* each device sends.                                                      *)
(***************************************************************************)
EXTENDS Transport

CONSTANTS u1, s1

MCBanners == {CS_DEVICE, CS_HOST}
=============================================================================
