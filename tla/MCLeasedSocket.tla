--------------------------- MODULE MCLeasedSocket ---------------------------
(***************************************************************************)
(* Instance of LeasedSocket for TLC: two mutations and one reading call    *)
(* that shares their socket and may be abandoned before, between or after  *)
(* them; each of them can dial, after the connection opened at startup.    *)
(***************************************************************************)
EXTENDS LeasedSocket

CONSTANTS erase, build, look   \* two mutations and a reading call

MCMutation == {erase, build}
MCCommand == MCMutation \union {look}
=============================================================================
