----------------------------- MODULE MCAppMain ------------------------------
(* Two users whose credentials come and go, and two Spircs.                    *)
EXTENDS AppMain

CONSTANTS u1, u2

MCUsers == {u1, u2}
=============================================================================
