----------------------------- MODULE SessionLock -----------------------------
(***************************************************************************)
(* The ext-session-lock-v1 controller of Gnoblin's Mutter fork             *)
(* (protocols/session-lock/meta-wayland-session-lock.c) together with the  *)
(* part of Clutter's frame pipeline it reads.                              *)
(*                                                                         *)
(* A locker client asks the manager for a lock.  The controller installs   *)
(* an opaque scene over the stage and takes all input.  It sends `locked'  *)
(* only when every stage view has presented a frame that was submitted     *)
(* after the cover was (last) put on top.  The cover outlives the client.  *)
(*                                                                         *)
(* Every action is one main-loop callback of the compositor, so it is      *)
(* atomic.  Flip is the display hardware; it runs between callbacks.       *)
(***************************************************************************)
EXTENDS Integers, Sequences

CONSTANTS
    Clients,       \* Wayland clients (a client that died may connect again)
    Surfaces,      \* wl_surface objects available to the clients
    Views,         \* connectors: one stage view and one wl_output for each
    NoLock,        \* controller->lock == NULL
    NoSurface,     \* no entry in controller->surfaces
    MaxInFlight,   \* frames of one view submitted but not yet notified
    Disturbances   \* bound: how many times the environment disturbs frames

ASSUME SessionLockAssumption ==
    /\ MaxInFlight \in Nat \ {0}
    /\ Disturbances \in Nat
    /\ NoLock \notin Clients \cup [client : Clients, lockedSent : BOOLEAN]
    /\ NoSurface \notin Surfaces

VARIABLES
    state,        \* controller->state
    lock,         \* controller->lock
    surfaces,     \* controller->surfaces: output -> lock surface
    unpresented,  \* keys of controller->unpresented_stage_views
    minimum,      \* their common value, the sampled frame counter
    confirmed,    \* controller->presentation_confirmed
    scene,        \* the blackout scene, with its signals, input handler and holds
    laidOut,      \* the cover has been laid out on the current views
    global,       \* the manager global is in the registry
    bound,        \* clients holding a manager resource
    finished,     \* clients holding a `finished' lock object
    role,         \* the lock-surface role of each wl_surface
    views,        \* the current stage views
    counter,      \* clutter_stage_get_frame_counter: the next frame's number
    redraw,       \* views with a redraw queued
    queued,       \* per view: frames submitted, not yet on screen
    done,         \* per view: frames on screen, notification not dispatched
    screen,       \* per view: the frame the monitor shows
    budget        \* disturbances the environment has left

ctrlVars == <<state, lock, surfaces, unpresented, minimum, confirmed, scene>>
wireVars == <<global, bound, finished, role>>
pipeVars == <<laidOut, views, counter, redraw, queued, done, screen>>
vars == <<ctrlVars, wireVars, pipeVars, budget>>

LockRecord == [client : Clients, lockedSent : BOOLEAN]
Frame == [n : Int, desktop : BOOLEAN]       \* desktop: session content is visible
Dark == [n |-> -1, desktop |-> FALSE]       \* a monitor that has shown nothing yet
NoRole == [st |-> "none", client |-> NoLock, mapped |-> FALSE]
Role == [st : {"none", "open", "closed"}, client : Clients \cup {NoLock}, mapped : BOOLEAN]

-----------------------------------------------------------------------------
Init ==
    /\ state = "UNLOCKED" /\ lock = NoLock
    /\ surfaces = [o \in Views |-> NoSurface]
    /\ unpresented = {} /\ minimum = 0 /\ confirmed = FALSE
    /\ scene = "absent" /\ laidOut = FALSE
    /\ global \in BOOLEAN /\ bound = {} /\ finished = {}
    /\ role = [s \in Surfaces |-> NoRole]
    /\ views = Views /\ counter = 0 /\ redraw = Views
    /\ queued = [v \in Views |-> <<>>] /\ done = [v \in Views |-> <<>>]
    /\ screen = [v \in Views |-> Dark]
    /\ budget = Disturbances

IsOwner(c) == lock # NoLock /\ lock.client = c

Disturb == budget > 0 /\ budget' = budget - 1

ResetBarrierOffByOne(vs) ==           \* mutant: samples the last frame's number
    /\ unpresented' = vs /\ minimum' = counter - 1 /\ confirmed' = FALSE
    /\ state' = "COVERING" /\ redraw' = vs

ResetBarrierNoState(vs) ==            \* mutant: forgets set_state
    /\ unpresented' = vs /\ minimum' = counter /\ confirmed' = FALSE
    /\ redraw' = vs /\ UNCHANGED state

(* The fence: nothing submitted up to now proves the cover for views vs.    *)
ResetBarrier(vs) ==
    /\ unpresented' = vs
    /\ minimum' = counter
    /\ confirmed' = FALSE
    /\ state' = "COVERING"
    /\ redraw' = vs

CloseLockSurfacesMapOnly ==           \* mutant: the roles stay open
    surfaces' = [o \in Views |-> NoSurface] /\ UNCHANGED role

(* Every mapping is dropped and every mapped role closed.                   *)
CloseLockSurfaces ==
    /\ surfaces' = [o \in Views |-> NoSurface]
    /\ role' = [s \in Surfaces |->
                  IF \E o \in Views : surfaces[o] = s
                  THEN [role[s] EXCEPT !.st = "closed"] ELSE role[s]]

-----------------------------------------------------------------------------
(* The registry and the manager object.                                     *)

ConfigureProtocol(enabled) ==
    /\ global # enabled
    /\ ~enabled => lock = NoLock            \* busy while an owner exists
    /\ global' = enabled
    /\ UNCHANGED <<ctrlVars, bound, finished, role, pipeVars, budget>>

ManagerBind(c) ==
    /\ global /\ c \notin bound
    /\ bound' = bound \cup {c}
    /\ UNCHANGED <<ctrlVars, global, finished, role, pipeVars, budget>>

ManagerDestroy(c) ==
    /\ c \in bound
    /\ bound' = bound \ {c}
    /\ UNCHANGED <<ctrlVars, global, finished, role, pipeVars, budget>>

(* manager.lock while somebody owns the lock: a dead `finished' object.     *)
LockRefused(c) ==
    /\ c \in bound /\ lock # NoLock
    /\ finished' = finished \cup {c}
    /\ UNCHANGED <<ctrlVars, global, bound, role, pipeVars, budget>>

MayLockAlways(c) == c \in bound        \* mutant: no check for a present owner
MayLock(c) == c \in bound /\ lock = NoLock

(* manager.lock on an open session: enter_failsafe builds the scene on top  *)
(* of the stage and takes the input before any frame is proven.             *)
LockFromUnlocked(c) ==
    /\ MayLock(c) /\ state = "UNLOCKED"
    /\ Disturb
    /\ lock' = [client |-> c, lockedSent |-> FALSE]
    /\ scene' = "top" /\ laidOut' = FALSE
    /\ ResetBarrier(views)
    /\ UNCHANGED <<surfaces, wireVars, views, counter, queued, done, screen>>

(* manager.lock by a replacement owner over a proven or proving cover.      *)
LockFromFailsafe(c) ==
    /\ MayLock(c) /\ state = "FAILSAFE"
    /\ Disturb
    /\ lock' = [client |-> c, lockedSent |-> FALSE]
    /\ CloseLockSurfaces
    /\ ResetBarrier(views)
    /\ UNCHANGED <<scene, global, bound, finished, laidOut, views, counter,
                   queued, done, screen>>

(* manager.lock while an ownerless barrier is pending: enter_failsafe       *)
(* returns at once and the new owner waits for the barrier that is there.   *)
LockFromCovering(c) ==
    /\ MayLock(c) /\ state \in {"COVERING", "LOCKED"}
    /\ lock' = [client |-> c, lockedSent |-> FALSE]
    /\ UNCHANGED <<state, surfaces, unpresented, minimum, confirmed, scene,
                   wireVars, pipeVars, budget>>

-----------------------------------------------------------------------------
(* The lock object.                                                         *)

(* The client's connection ends.  An owner leaves its cover behind.         *)
(* libwayland runs session_lock_client_destroyed first and the resource     *)
(* destructors (lock, lock surfaces, managers) after it, in one call; their *)
(* enter_failsafe calls return at once, as an owner implies an active lock. *)
ClientDestroyed(c) ==
    /\ bound' = bound \ {c}
    /\ finished' = finished \ {c}
    /\ role' = [s \in Surfaces |-> IF role[s].client = c THEN NoRole ELSE role[s]]
    /\ IF IsOwner(c)
       THEN /\ lock' = NoLock
            /\ surfaces' = [o \in Views |-> NoSurface]
            /\ state' = "FAILSAFE"
       ELSE UNCHANGED <<lock, surfaces, state>>
    /\ UNCHANGED <<unpresented, minimum, confirmed, scene, global, pipeVars, budget>>

ClientGone(c) ==
    /\ c \in bound \cup finished \/ IsOwner(c) \/ \E s \in Surfaces : role[s].client = c
    /\ ClientDestroyed(c)

(* A request answered with wl_resource_post_error: libwayland disconnects   *)
(* the client when the dispatch of the request ends.                        *)
ProtocolError(c) ==
    /\ \/ IsOwner(c)            \* unlock before locked; destroy after it
       \/ c \in finished        \* get_lock_surface, unlock on a finished lock
    /\ ClientDestroyed(c)

MayUnlockEarly(c) == IsOwner(c)       \* mutant: locked_sent is not asked for
MayUnlock(c) == IsOwner(c) /\ lock.lockedSent

UnlockAndDestroy(c) ==
    /\ MayUnlock(c)
    /\ CloseLockSurfaces
    /\ scene' = "absent" /\ laidOut' = FALSE
    /\ lock' = NoLock
    /\ confirmed' = FALSE
    /\ state' = "UNLOCKED"
    /\ redraw' = views                   \* the scene's area is damaged
    /\ UNCHANGED <<unpresented, minimum, global, bound, finished, views, counter,
                   queued, done, screen, budget>>

(* destroy before `locked': the cover stays, ownerless.                     *)
DestroyRequest(c) ==
    /\ IsOwner(c) /\ ~lock.lockedSent
    /\ lock' = NoLock
    /\ CloseLockSurfaces
    /\ state' = "FAILSAFE"
    /\ UNCHANGED <<unpresented, minimum, confirmed, scene, global, bound, finished,
                   pipeVars, budget>>

DestroyFinished(c) ==
    /\ c \in finished
    /\ finished' = finished \ {c}
    /\ UNCHANGED <<ctrlVars, global, bound, role, pipeVars, budget>>

GetLockSurface(c, s, o) ==
    /\ IsOwner(c) /\ o \in views
    /\ surfaces[o] = NoSurface           \* else duplicate_output
    /\ role[s] = NoRole                  \* else the role error
    /\ role' = [role EXCEPT ![s] = [st |-> "open", client |-> c, mapped |-> FALSE]]
    /\ surfaces' = [surfaces EXCEPT ![o] = s]
    /\ UNCHANGED <<state, lock, unpresented, minimum, confirmed, scene, global, bound,
                   finished, pipeVars, budget>>

(* An acknowledged buffer is committed (SessionLockSurface has the steps).  *)
MapSurface(s) ==
    /\ role[s].st = "open"
    /\ role' = [role EXCEPT ![s].mapped = TRUE]
    /\ UNCHANGED <<ctrlVars, global, bound, finished, pipeVars, budget>>

Unmap(s) == [o \in Views |-> IF surfaces[o] = s THEN NoSurface ELSE surfaces[o]]

(* The role object is destroyed; the wl_surface keeps the role, closed.     *)
SurfaceDestroyed(s) ==
    /\ role[s].st = "open"
    /\ surfaces' = Unmap(s)
    /\ role' = [role EXCEPT ![s].st = "closed"]
    /\ UNCHANGED <<state, lock, unpresented, minimum, confirmed, scene, global, bound,
                   finished, pipeVars, budget>>

(* The wl_surface itself is destroyed, and its role with it.                *)
WlSurfaceDestroyed(s) ==
    /\ role[s].st # "none"
    /\ surfaces' = Unmap(s)
    /\ role' = [role EXCEPT ![s] = NoRole]
    /\ UNCHANGED <<state, lock, unpresented, minimum, confirmed, scene, global, bound,
                   finished, pipeVars, budget>>

-----------------------------------------------------------------------------
(* Stage signals.  They are connected exactly while the scene exists.       *)

(* Another actor was added to the stage: re-raise the scene and start over. *)
StageChildAdded ==
    /\ scene # "absent" /\ Disturb
    /\ scene' = "top"
    /\ ResetBarrier(views)
    /\ UNCHANGED <<lock, surfaces, wireVars, laidOut, views, counter, queued, done, screen>>

StageViewsChanged ==
    /\ state # "UNLOCKED" /\ Disturb
    /\ ResetBarrier(views)
    /\ UNCHANGED <<lock, surfaces, scene, wireVars, laidOut, views, counter, queued,
                   done, screen>>

(* The layout changed to the views vs.  All stage views are new objects, so *)
(* no notification of an old frame arrives; a monitor that stays lit shows  *)
(* its old frame or one that was on its way.  The wl_output of a lost       *)
(* monitor is destroyed and closes its lock surface.                        *)
MonitorsChanged(vs) ==
    /\ Disturb
    /\ views' = vs
    /\ queued' = [v \in Views |-> <<>>] /\ done' = [v \in Views |-> <<>>]
    /\ screen' \in {scr \in [Views -> {Dark} \cup UNION {
                        {screen[v]} \cup {queued[v][i] : i \in DOMAIN queued[v]} : v \in Views}] :
                      \A v \in Views :
                         IF v \in views \cap vs
                         THEN scr[v] \in {screen[v]} \cup {queued[v][i] : i \in DOMAIN queued[v]}
                         ELSE scr[v] = Dark}
    /\ laidOut' = FALSE
    /\ surfaces' = [o \in Views |-> IF o \in vs THEN surfaces[o] ELSE NoSurface]
    /\ role' = [s \in Surfaces |-> IF \E o \in Views \ vs : surfaces[o] = s
                                   THEN [role[s] EXCEPT !.st = "closed"] ELSE role[s]]
    /\ IF state # "UNLOCKED"
       THEN ResetBarrier(vs)
       ELSE /\ redraw' = vs
            /\ UNCHANGED <<unpresented, minimum, confirmed, state>>
    /\ UNCHANGED <<lock, scene, global, bound, finished, counter>>

-----------------------------------------------------------------------------
(* The frame pipeline.                                                      *)

(* Something on view v changed.                                             *)
Damage(v) ==
    /\ v \in views \ redraw /\ Disturb
    /\ redraw' = redraw \cup {v}
    /\ UNCHANGED <<ctrlVars, wireVars, laidOut, views, counter, queued, done, screen>>

(* A stage child is restacked above the scene without a child-added signal, *)
(* as the panel overlay does.                                               *)
Restack ==
    /\ scene = "top" /\ Disturb
    /\ scene' = "buried"
    /\ UNCHANGED <<state, lock, surfaces, unpresented, minimum, confirmed, wireVars, pipeVars>>

(* before-paint: a buried scene is raised and the barrier restarted.        *)
BeforePaint(v) ==
    IF scene = "buried" /\ state # "UNLOCKED"
    THEN scene' = "top" /\ ResetBarrier(views)
    ELSE redraw' = redraw \ {v} /\ UNCHANGED <<scene, unpresented, minimum, confirmed, state>>

Paint(v) ==
    /\ v \in views \cap redraw
    /\ Len(queued[v]) + Len(done[v]) < MaxInFlight
    /\ BeforePaint(v)
    /\ laidOut' = (scene # "absent")
    /\ queued' = [queued EXCEPT ![v] = Append(@, [n |-> counter, desktop |-> scene' # "top"])]
    /\ counter' = counter + 1
    /\ UNCHANGED <<lock, surfaces, wireVars, views, done, screen, budget>>

Flip(v) ==
    /\ queued[v] # <<>>
    /\ screen' = [screen EXCEPT ![v] = Head(queued[v])]
    /\ done' = [done EXCEPT ![v] = Append(@, Head(queued[v]))]
    /\ queued' = [queued EXCEPT ![v] = Tail(@)]
    /\ UNCHANGED <<ctrlVars, wireVars, laidOut, views, counter, redraw, budget>>

(* on_stage_presented, in its three outcomes.                               *)
Awaited(v) == state \in {"COVERING", "FAILSAFE"} /\ laidOut /\ v \in unpresented
TooOldNever(v) == FALSE               \* mutant: any presented frame counts
TooOldStrict(v) == Head(done[v]).n < minimum    \* mutant: accepts the sampled frame
TooOld(v) == Head(done[v]).n <= minimum
Pop(v) == done[v] # <<>> /\ done' = [done EXCEPT ![v] = Tail(@)]

PresentedIgnored(v) ==
    /\ ~Awaited(v) /\ Pop(v)
    /\ UNCHANGED <<ctrlVars, wireVars, laidOut, views, counter, redraw, queued, screen, budget>>

RequeueDropped == UNCHANGED redraw     \* mutant: waits for somebody else's redraw
Requeue == redraw' = views

(* A frame of an older generation: ask for one more.                        *)
PresentedStale(v) ==
    /\ Awaited(v) /\ Pop(v) /\ TooOld(v)
    /\ Requeue
    /\ UNCHANGED <<ctrlVars, wireVars, laidOut, views, counter, queued, screen, budget>>

ProveOnce ==                          \* mutant: forgets the owner already told
    /\ confirmed' = TRUE
    /\ IF lock = NoLock THEN state' = "FAILSAFE" /\ UNCHANGED lock
       ELSE IF lock.lockedSent THEN UNCHANGED <<state, lock>>
       ELSE state' = "LOCKED" /\ lock' = [lock EXCEPT !.lockedSent = TRUE]

(* The last awaited view proves the cover: `locked' is sent at most once.   *)
Prove ==
    /\ confirmed' = TRUE
    /\ IF lock = NoLock
       THEN state' = "FAILSAFE" /\ UNCHANGED lock
       ELSE state' = "LOCKED" /\ lock' = [lock EXCEPT !.lockedSent = TRUE]

PresentedFresh(v) ==
    /\ Awaited(v) /\ Pop(v) /\ ~TooOld(v)
    /\ unpresented' = unpresented \ {v}
    /\ IF unpresented' = {} THEN Prove ELSE UNCHANGED <<confirmed, state, lock>>
    /\ UNCHANGED <<surfaces, minimum, scene, wireVars, laidOut, views, counter, redraw,
                   queued, screen, budget>>

NotifyPresented(v) == PresentedIgnored(v) \/ PresentedStale(v) \/ PresentedFresh(v)

-----------------------------------------------------------------------------
ClientStep ==
    \/ \E c \in Clients :
         \/ ManagerBind(c) \/ ManagerDestroy(c)
         \/ LockRefused(c) \/ LockFromUnlocked(c) \/ LockFromFailsafe(c) \/ LockFromCovering(c)
         \/ ClientGone(c) \/ ProtocolError(c)
         \/ UnlockAndDestroy(c) \/ DestroyRequest(c) \/ DestroyFinished(c)
         \/ \E s \in Surfaces, o \in Views : GetLockSurface(c, s, o)
    \/ \E s \in Surfaces : MapSurface(s) \/ SurfaceDestroyed(s) \/ WlSurfaceDestroyed(s)

StageStep ==
    \/ StageChildAdded \/ StageViewsChanged \/ Restack
    \/ \E vs \in SUBSET Views : MonitorsChanged(vs)
    \/ \E v \in Views : Damage(v) \/ Paint(v) \/ Flip(v) \/ NotifyPresented(v)

Next ==
    \/ \E enabled \in BOOLEAN : ConfigureProtocol(enabled)
    \/ ClientStep
    \/ StageStep

Spec == Init /\ [][Next]_vars

(* The frame clock paints a view that has a redraw queued, the display      *)
(* hardware completes flips and the main loop dispatches notifications.     *)
Fairness ==
    \A v \in Views : WF_vars(Paint(v)) /\ WF_vars(Flip(v)) /\ WF_vars(NotifyPresented(v))

FairSpec == Spec /\ Fairness
-----------------------------------------------------------------------------
(***************************************************************************)
(* Properties.                                                             *)
(***************************************************************************)

(* The shape of every variable.                                             *)
TypeOK ==
    /\ state \in {"UNLOCKED", "COVERING", "LOCKED", "FAILSAFE"}
    /\ lock \in LockRecord \cup {NoLock}
    /\ surfaces \in [Views -> Surfaces \cup {NoSurface}]
    /\ unpresented \subseteq Views
    /\ minimum \in Nat
    /\ confirmed \in BOOLEAN
    /\ scene \in {"absent", "top", "buried"}
    /\ laidOut \in BOOLEAN
    /\ global \in BOOLEAN
    /\ bound \subseteq Clients
    /\ finished \subseteq Clients
    /\ role \in [Surfaces -> Role]
    /\ views \subseteq Views
    /\ counter \in Nat
    /\ redraw \subseteq Views
    /\ queued \in [Views -> Seq(Frame)]
    /\ done \in [Views -> Seq(Frame)]
    /\ screen \in [Views -> Frame]
    /\ budget \in Nat

Told == lock # NoLock /\ lock.lockedSent

(* No current monitor shows the session, and no frame on its way would.     *)
Sealed ==
    /\ scene # "absent"
    /\ \A v \in views :
          /\ ~screen[v].desktop
          /\ \A i \in DOMAIN queued[v] : ~queued[v][i].desktop

(* Once a client has been told `locked', or the controller reports a        *)
(* confirmed presentation, the session is neither visible nor can a frame   *)
(* painted before the cover still reach a monitor: also after hotplug,      *)
(* restacks, late notifications, the owner's death and takeovers.           *)
ToldMeansSealed == Told \/ confirmed => Sealed

(* A confirmed presentation rests on every current monitor showing a frame  *)
(* submitted after the latest cover, restack, hotplug or takeover.          *)
ProofIsFresh == confirmed => \A v \in views : screen[v].n > minimum

(* Input goes to, and the scene shows, only lock surfaces of the live       *)
(* owner, and each of them is the surface its output's map entry names.     *)
OnlyOwnerSurfaces ==
    \A s \in Surfaces :
       (role[s].st = "open" \/ \E o \in Views : surfaces[o] = s) =>
          /\ role[s].st = "open"
          /\ IsOwner(role[s].client)
          /\ \E o \in views : surfaces[o] = s /\ \A p \in Views \ {o} : surfaces[p] # s

(* An active controller has its scene and input handler, and an open one    *)
(* has neither an owner nor a proof.                                        *)
ActiveMeansCovered ==
    /\ state # "UNLOCKED" <=> scene # "absent"
    /\ state = "UNLOCKED" => lock = NoLock /\ ~confirmed
    /\ state = "LOCKED" => Told /\ confirmed

(* A live owner is never displaced by another client, and once told         *)
(* `locked' it is never told anything weaker.                               *)
OwnerKeepsLock ==
    [][lock # NoLock /\ lock' # NoLock =>
         lock'.client = lock.client /\ (lock.lockedSent => lock'.lockedSent)]_vars

(* An owner waiting for `locked' is told so or goes away, unless all the    *)
(* monitors are gone: no stale frame and no restack stalls the barrier.     *)
OwnerIsAnswered ==
    \A c \in Clients : IsOwner(c) ~> (~IsOwner(c) \/ Told \/ views = {})

(* The controller never stays in COVERING: each generation is proven.       *)
BarrierCompletes == (state = "COVERING") ~> (state # "COVERING" \/ views = {})

(* The inductive invariant behind ToldMeansSealed and ProofIsFresh.  Frames   *)
(* of a view are numbered in the order screen < queued; everything notified *)
(* is at most as new as the screen; and while the scene is up, a frame with *)
(* session content is older than the fence of a view still awaited.         *)
ViewOrder(v) ==
    /\ screen[v].n < counter
    /\ \A i \in DOMAIN done[v] : done[v][i].n <= screen[v].n
    /\ \A i \in DOMAIN queued[v] :
          /\ screen[v].n < queued[v][i].n
          /\ queued[v][i].n < counter
          /\ \A j \in DOMAIN queued[v] : i < j => queued[v][i].n < queued[v][j].n

FrameOrder == \A v \in Views : ViewOrder(v)

Fenced(v, f) == f.desktop => v \in unpresented /\ f.n < minimum

ViewFenced(v) ==
    /\ Fenced(v, screen[v])
    /\ \A i \in DOMAIN queued[v] : Fenced(v, queued[v][i])
    /\ v \notin unpresented => screen[v].n > minimum

FenceHolds ==
    /\ minimum <= counter
    /\ state # "UNLOCKED" =>
          /\ unpresented \subseteq views
          /\ \A v \in views : ViewFenced(v)
          /\ confirmed => unpresented = {}

IInv == TypeOK /\ ActiveMeansCovered /\ FrameOrder /\ FenceHolds /\ ToldMeansSealed

(* The controller keeps the promise of LockPromise: closed means Sealed, and *)
(* the holder is the owner that was sent `locked'.                          *)
Promise == INSTANCE LockPromise WITH
    Nobody <- NoLock,
    phase <- IF state = "UNLOCKED" THEN "open" ELSE IF Sealed THEN "closed" ELSE "closing",
    told <- IF Told THEN lock.client ELSE NoLock

ImplementsPromise == Promise!Spec

(* The documentation's promise: a locker crash leaves the session locked,   *)
(* and another client may acquire the lock afterwards.  So while nobody     *)
(* owns the cover nor could ask for it, the registry keeps the manager.     *)
TakeoverStaysPossible ==
    [][state = "FAILSAFE" /\ bound = {} => (global => global')]_vars
=============================================================================
