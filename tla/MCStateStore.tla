---------------------------- MODULE MCStateStore ----------------------------
(***************************************************************************)
(* Instances of StateStore: a persistent key with listeners, a plain key   *)
(* with listeners, and a persistent key that is only set through update(). *)
(***************************************************************************)
EXTENDS StateStore

CONSTANTS played, device, quiet, bar, panel

OnDevice == [l \in Listener |-> device]
=============================================================================
