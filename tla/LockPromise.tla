----------------------------- MODULE LockPromise -----------------------------
(***************************************************************************)
(* What a session lock promises to the user at the desk: the session is    *)
(* open, being closed, or closed (nothing of it can be seen); a client may *)
(* be told that it is closed only when it is, and only a client that was   *)
(* told may open it again.  The holder may vanish; the session stays       *)
(* closed without it.                                                      *)
(***************************************************************************)
CONSTANTS Clients, Nobody    \* Nobody is not a client

VARIABLES
    phase,   \* "open", "closing" or "closed"
    told     \* the client that was told `locked' and holds the lock

promiseVars == <<phase, told>>

Init == phase = "open" /\ told = Nobody

Close == phase = "open" /\ phase' \in {"closing", "closed"} /\ UNCHANGED told

Seal == phase = "closing" /\ phase' = "closed" /\ UNCHANGED told

Tell(c) ==
    /\ phase # "open" /\ told = Nobody
    /\ phase' = "closed" /\ told' = c

Vanish == told # Nobody /\ told' = Nobody /\ UNCHANGED phase

Open(c) == phase = "closed" /\ told = c /\ phase' = "open" /\ told' = Nobody

Next == Close \/ Seal \/ Vanish \/ \E c \in Clients : Tell(c) \/ Open(c)

Spec == Init /\ [][Next]_promiseVars
=============================================================================
