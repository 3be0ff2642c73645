---------------------------- MODULE SessionPromise ----------------------------
(* What librespot's session promises to the code that waits on it: it goes     *)
(* live at most once, and when it is over nobody is left waiting for an        *)
(* answer. CoreSession implements this.                                        *)
EXTENDS Naturals

CONSTANT Calls

VARIABLES life, call

vars == <<life, call>>

Init ==
    /\ life = "fresh"
    /\ call = [c \in Calls |-> "idle"]

GoLive == /\ life = "fresh"
          /\ life' = "live"
          /\ UNCHANGED call

Wait(c) == /\ call[c] = "idle" /\ life # "over"
           /\ call' = [call EXCEPT ![c] = "waiting"]
           /\ UNCHANGED life

\* An answer, an error, or a call that is refused before it has waited.
Finish(c) == /\ call[c] # "ended"
             /\ call' = [call EXCEPT ![c] = "ended"]
             /\ UNCHANGED life

\* The end of the session ends every call that waits.
End == /\ life # "over"
       /\ life' = "over"
       /\ call' = [c \in Calls |-> IF call[c] = "waiting" THEN "ended" ELSE call[c]]

Next == GoLive \/ End \/ \E c \in Calls: Wait(c) \/ Finish(c)

Spec == Init /\ [][Next]_vars

=============================================================================
