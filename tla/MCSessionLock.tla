---------------------------- MODULE MCSessionLock ----------------------------
(* Model-checking instance of SessionLock: symmetry over the sets of model   *)
(* values, for the runs without a temporal property.                         *)
EXTENDS SessionLock, TLC

Symmetry == Permutations(Clients) \cup Permutations(Surfaces) \cup Permutations(Views)

(* What later steps can tell of the frames: whether one is newer than the    *)
(* sampled minimum, and whether the next will be.  States that agree on this *)
(* have the same futures but for frame numbers and what monitors show, of    *)
(* which the properties of owners say nothing.                               *)
Newer(q) == [i \in DOMAIN q |-> q[i].n > minimum]
OwnersView == <<state, lock, surfaces, unpresented, confirmed, scene, laidOut, wireVars, views,
                redraw, budget, counter > minimum,
                [v \in Views |-> <<Newer(queued[v]), Newer(done[v])>>]>>

(* Whoever covers the session is done covering it, and a waiting owner told: *)
(* no stale frame, restack or hotplug stalls the barrier for good.           *)
BarrierEnds == OwnerIsAnswered /\ BarrierCompletes
=============================================================================
