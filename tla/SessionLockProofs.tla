-------------------------- MODULE SessionLockProofs --------------------------
(***************************************************************************)
(* Proofs about SessionLock for every set of clients, surfaces and         *)
(* connectors, every pipeline depth and every number of disturbances.      *)
(*                                                                         *)
(* IInv is the inductive invariant.  Type correctness is proved first, by  *)
(* itself; the step lemmas of the remaining conjuncts assume it on both    *)
(* sides of a step.                                                        *)
(***************************************************************************)
EXTENDS SessionLock, TLAPS

-----------------------------------------------------------------------------
(* Type correctness.                                                        *)

LEMMA InitType == Init => TypeOK
  <1> SUFFICES ASSUME Init PROVE TypeOK
    OBVIOUS
  <1>1. <<>> \in Seq(Frame)
    OBVIOUS
  <1>2. Dark \in Frame /\ NoRole \in Role
    BY DEF Dark, Frame, NoRole, Role
  <1> QED BY <1>1, <1>2, SessionLockAssumption DEF Init, TypeOK

LEMMA CloseType ==
  ASSUME TypeOK, CloseLockSurfaces
  PROVE  /\ surfaces' \in [Views -> Surfaces \cup {NoSurface}]
         /\ role' \in [Surfaces -> Role]
  BY DEF CloseLockSurfaces, TypeOK, Role

LEMMA ResetType ==
  ASSUME TypeOK, NEW vs \in SUBSET Views, ResetBarrier(vs)
  PROVE  /\ unpresented' \subseteq Views /\ minimum' \in Nat /\ confirmed' \in BOOLEAN
         /\ state' \in {"UNLOCKED", "COVERING", "LOCKED", "FAILSAFE"}
         /\ redraw' \subseteq Views
  BY DEF ResetBarrier, TypeOK

LEMMA DisturbType == ASSUME TypeOK, Disturb PROVE budget' \in Nat
  BY DEF Disturb, TypeOK

(* Every request and every end of a client keeps the types.                 *)
LEMMA ClientType == TypeOK /\ ClientStep => TypeOK'
  <1> SUFFICES ASSUME TypeOK, ClientStep PROVE TypeOK'
    OBVIOUS
  <1> USE DEF vars, ctrlVars, wireVars, pipeVars
  <1>1. ASSUME NEW c \in Clients, ManagerBind(c) \/ ManagerDestroy(c) \/ LockRefused(c)
                                  \/ DestroyFinished(c)
        PROVE  TypeOK'
    BY <1>1 DEF ManagerBind, ManagerDestroy, LockRefused, DestroyFinished, TypeOK
  <1>2. ASSUME NEW c \in Clients, LockFromUnlocked(c)
        PROVE  TypeOK'
    BY <1>2, ResetType, DisturbType DEF LockFromUnlocked, LockRecord, TypeOK
  <1>3. ASSUME NEW c \in Clients, LockFromFailsafe(c)
        PROVE  TypeOK'
    BY <1>3, ResetType, DisturbType, CloseType DEF LockFromFailsafe, LockRecord, TypeOK
  <1>4. ASSUME NEW c \in Clients, LockFromCovering(c)
        PROVE  TypeOK'
    BY <1>4 DEF LockFromCovering, LockRecord, TypeOK
  <1>5. ASSUME NEW c \in Clients, ClientGone(c) \/ ProtocolError(c)
        PROVE  TypeOK'
    <2>1. ClientDestroyed(c)
      BY <1>5 DEF ClientGone, ProtocolError
    <2>2. NoRole \in Role
      BY DEF NoRole, Role
    <2>3. role' \in [Surfaces -> Role]
      BY <2>1, <2>2 DEF ClientDestroyed, TypeOK
    <2>4. CASE IsOwner(c)
      BY <2>1, <2>3, <2>4 DEF ClientDestroyed, TypeOK
    <2>5. CASE ~IsOwner(c)
      BY <2>1, <2>3, <2>5 DEF ClientDestroyed, TypeOK
    <2> QED BY <2>4, <2>5
  <1>6. ASSUME NEW c \in Clients, UnlockAndDestroy(c)
        PROVE  TypeOK'
    BY <1>6, CloseType DEF UnlockAndDestroy, TypeOK
  <1>7. ASSUME NEW c \in Clients, DestroyRequest(c)
        PROVE  TypeOK'
    BY <1>7, CloseType DEF DestroyRequest, TypeOK
  <1>8. ASSUME NEW c \in Clients, NEW s \in Surfaces, NEW o \in Views, GetLockSurface(c, s, o)
        PROVE  TypeOK'
    BY <1>8 DEF GetLockSurface, Role, TypeOK
  <1>9. ASSUME NEW s \in Surfaces,
               MapSurface(s) \/ SurfaceDestroyed(s) \/ WlSurfaceDestroyed(s)
        PROVE  TypeOK'
    <2>1. NoRole \in Role
      BY DEF NoRole, Role
    <2>2. [role[s] EXCEPT !.mapped = TRUE] \in Role /\ [role[s] EXCEPT !.st = "closed"] \in Role
      BY DEF Role, TypeOK
    <2>3. Unmap(s) \in [Views -> Surfaces \cup {NoSurface}]
      BY DEF Unmap, TypeOK
    <2>4. CASE MapSurface(s)
      BY <2>2, <2>4 DEF MapSurface, TypeOK
    <2>5. CASE SurfaceDestroyed(s)
      BY <2>2, <2>3, <2>5 DEF SurfaceDestroyed, TypeOK
    <2>6. CASE WlSurfaceDestroyed(s)
      BY <2>1, <2>3, <2>6 DEF WlSurfaceDestroyed, TypeOK
    <2> QED BY <1>9, <2>4, <2>5, <2>6
  <1> QED BY <1>1, <1>2, <1>3, <1>4, <1>5, <1>6, <1>7, <1>8, <1>9 DEF ClientStep

(* Frames stay frames on their way through the pipeline.                    *)
LEMMA PipelineType ==
  ASSUME TypeOK, NEW v \in Views, Paint(v) \/ Flip(v) \/ NotifyPresented(v)
  PROVE  TypeOK'
  <1> USE DEF vars, ctrlVars, wireVars, pipeVars
  <1>1. CASE Paint(v)
    <2>1. [n |-> counter, desktop |-> scene' # "top"] \in Frame
      BY DEF Frame, TypeOK
    <2>2. queued' \in [Views -> Seq(Frame)]
      BY <1>1, <2>1 DEF Paint, TypeOK
    <2>3. views \in SUBSET Views
      BY DEF TypeOK
    <2>4. CASE scene = "buried" /\ state # "UNLOCKED"
      BY <1>1, <2>2, <2>3, <2>4, ResetType DEF Paint, BeforePaint, TypeOK
    <2>5. CASE ~(scene = "buried" /\ state # "UNLOCKED")
      BY <1>1, <2>2, <2>5 DEF Paint, BeforePaint, TypeOK
    <2> QED BY <2>4, <2>5
  <1>2. CASE Flip(v)
    <2>1. Head(queued[v]) \in Frame /\ Tail(queued[v]) \in Seq(Frame)
      BY <1>2 DEF Flip, TypeOK
    <2> QED BY <1>2, <2>1 DEF Flip, TypeOK
  <1>3. CASE NotifyPresented(v)
    <2>1. Pop(v) => done' \in [Views -> Seq(Frame)]
      BY DEF Pop, TypeOK
    <2>2. CASE PresentedIgnored(v) \/ PresentedStale(v)
      BY <2>1, <2>2 DEF PresentedIgnored, PresentedStale, Requeue, TypeOK
    <2>3. CASE PresentedFresh(v)
      BY <2>1, <2>3 DEF PresentedFresh, Prove, LockRecord, TypeOK
    <2> QED BY <1>3, <2>2, <2>3 DEF NotifyPresented
  <1> QED BY <1>1, <1>2, <1>3

LEMMA StageType == TypeOK /\ StageStep => TypeOK'
  <1> SUFFICES ASSUME TypeOK, StageStep PROVE TypeOK'
    OBVIOUS
  <1> USE DEF vars, ctrlVars, wireVars, pipeVars
  <1>1. views \in SUBSET Views
    BY DEF TypeOK
  <1>2. CASE StageChildAdded \/ StageViewsChanged
    BY <1>1, <1>2, ResetType, DisturbType DEF StageChildAdded, StageViewsChanged, TypeOK
  <1>3. CASE Restack
    BY <1>3, DisturbType DEF Restack, TypeOK
  <1>4. ASSUME NEW vs \in SUBSET Views, MonitorsChanged(vs)
        PROVE  TypeOK'
    <2>1. screen' \in [Views -> Frame]
      <3>1. ASSUME NEW u \in Views PROVE screen[u] \in Frame /\ Dark \in Frame
        BY DEF TypeOK, Dark, Frame
      <3>2. ASSUME NEW u \in Views, NEW i \in DOMAIN queued[u] PROVE queued[u][i] \in Frame
        BY DEF TypeOK
      <3> QED BY <1>4, <3>1, <3>2 DEF MonitorsChanged
    <2>2. /\ queued' \in [Views -> Seq(Frame)] /\ done' \in [Views -> Seq(Frame)]
          /\ surfaces' \in [Views -> Surfaces \cup {NoSurface}]
          /\ role' \in [Surfaces -> Role]
      <3>1. <<>> \in Seq(Frame)
        OBVIOUS
      <3>2. ASSUME NEW s \in Surfaces PROVE [role[s] EXCEPT !.st = "closed"] \in Role
        BY DEF Role, TypeOK
      <3>3. queued' \in [Views -> Seq(Frame)] /\ done' \in [Views -> Seq(Frame)]
        BY <1>4, <3>1 DEF MonitorsChanged
      <3>4. role' \in [Surfaces -> Role]
        BY <1>4, <3>2 DEF MonitorsChanged, TypeOK
      <3> QED BY <1>4, <3>3, <3>4 DEF MonitorsChanged, TypeOK
    <2>3. CASE state # "UNLOCKED"
      BY <1>4, <2>1, <2>2, <2>3, ResetType, DisturbType DEF MonitorsChanged, TypeOK
    <2>4. CASE state = "UNLOCKED"
      BY <1>4, <2>1, <2>2, <2>4, DisturbType DEF MonitorsChanged, TypeOK
    <2> QED BY <2>3, <2>4
  <1>5. ASSUME NEW v \in Views, Damage(v)
        PROVE  TypeOK'
    BY <1>5, DisturbType DEF Damage, TypeOK
  <1> QED BY <1>2, <1>3, <1>4, <1>5, PipelineType DEF StageStep

LEMMA TypeStep == TypeOK /\ [Next]_vars => TypeOK'
  <1> SUFFICES ASSUME TypeOK, [Next]_vars PROVE TypeOK'
    OBVIOUS
  <1>1. ASSUME NEW enabled \in BOOLEAN, ConfigureProtocol(enabled) PROVE TypeOK'
    BY <1>1 DEF ConfigureProtocol, TypeOK, ctrlVars, pipeVars
  <1>2. CASE UNCHANGED vars
    BY <1>2 DEF vars, ctrlVars, wireVars, pipeVars, TypeOK
  <1> QED BY <1>1, <1>2, ClientType, StageType DEF Next

(* The variables keep their types in every behaviour.                       *)
THEOREM TypeCorrect == Spec => []TypeOK
  BY InitType, TypeStep, PTL DEF Spec

-----------------------------------------------------------------------------
(* The fence: what a client is told is true.                                *)

LEMMA InitSafe == Init => IInv
  BY InitType, SessionLockAssumption
  DEF Init, IInv, ActiveMeansCovered, FrameOrder, ViewOrder, FenceHolds, ToldMeansSealed, Told, Dark

(* Steps that touch neither the controller's barrier nor a frame.           *)
LEMMA Unaffected ==
  ASSUME IInv, TypeOK',
         UNCHANGED <<state, lock, unpresented, minimum, confirmed, scene, views, counter,
                     queued, done, screen>>
  PROVE  IInv'
  BY DEF IInv, ActiveMeansCovered, FrameOrder, ViewOrder, FenceHolds, ViewFenced, Fenced, ToldMeansSealed, Told, Sealed

(* An owner goes, its cover stays.                                          *)
LEMMA OwnerLost ==
  ASSUME IInv, TypeOK', lock # NoLock, lock' = NoLock, state' = "FAILSAFE",
         UNCHANGED <<unpresented, minimum, confirmed, scene, views, counter, queued, done,
                     screen>>
  PROVE  IInv'
  <1>1. state # "UNLOCKED"
    BY DEF IInv, ActiveMeansCovered
  <1> QED BY <1>1 DEF IInv, ActiveMeansCovered, FrameOrder, ViewOrder, FenceHolds, ViewFenced, Fenced,
                      ToldMeansSealed, Told, Sealed

(* A barrier started over a scene that is up: every frame there is, is      *)
(* older than the fence and every view is awaited.                          *)
LEMMA AfterReset ==
  ASSUME TypeOK', FrameOrder', NEW vs, vs = views', ResetBarrier(vs), scene' # "absent",
         counter' = counter, Told' => Sealed'
  PROVE  IInv'
  <1>1. FenceHolds'
    BY DEF FenceHolds, ViewFenced, Fenced, FrameOrder, ViewOrder, ResetBarrier, TypeOK, Frame
  <1>2. ActiveMeansCovered' /\ ToldMeansSealed'
    BY DEF ActiveMeansCovered, ToldMeansSealed, ResetBarrier
  <1> QED BY <1>1, <1>2 DEF IInv

LEMMA SameFrames ==
  ASSUME FrameOrder, UNCHANGED <<counter, queued, done, screen>>
  PROVE  FrameOrder'
  BY DEF FrameOrder, ViewOrder

LEMMA SameSeal ==
  ASSUME Sealed, UNCHANGED <<views, queued, screen>>, scene' # "absent"
  PROVE  Sealed'
  BY DEF Sealed

LEMMA ClientSafe == IInv /\ TypeOK' /\ ClientStep => IInv'
  <1> SUFFICES ASSUME IInv, TypeOK', ClientStep PROVE IInv'
    OBVIOUS
  <1> USE DEF ctrlVars, wireVars, pipeVars
  <1>1. ASSUME NEW c \in Clients, ManagerBind(c) \/ ManagerDestroy(c) \/ LockRefused(c)
                                  \/ DestroyFinished(c)
        PROVE  IInv'
    BY <1>1, Unaffected DEF ManagerBind, ManagerDestroy, LockRefused, DestroyFinished
  <1>2. ASSUME NEW c \in Clients, LockFromUnlocked(c)
        PROVE  IInv'
    <2>1. FrameOrder'
      BY <1>2, SameFrames DEF LockFromUnlocked, IInv
    <2>2. ~Told'
      BY <1>2 DEF LockFromUnlocked, Told
    <2> QED BY <1>2, <2>1, <2>2, AfterReset DEF LockFromUnlocked
  <1>3. ASSUME NEW c \in Clients, LockFromFailsafe(c)
        PROVE  IInv'
    <2>1. FrameOrder'
      BY <1>3, SameFrames DEF LockFromFailsafe, IInv
    <2>2. ~Told' /\ scene' # "absent"
      BY <1>3 DEF LockFromFailsafe, Told, IInv, ActiveMeansCovered
    <2> QED BY <1>3, <2>1, <2>2, AfterReset DEF LockFromFailsafe
  <1>4. ASSUME NEW c \in Clients, LockFromCovering(c)
        PROVE  IInv'
    <2>1. state = "COVERING"
      BY <1>4 DEF LockFromCovering, MayLock, IInv, ActiveMeansCovered, Told
    <2> QED BY <1>4, <2>1 DEF LockFromCovering, IInv, ActiveMeansCovered, FrameOrder, ViewOrder,
                              FenceHolds, ViewFenced, Fenced, ToldMeansSealed, Told, Sealed
  <1>5. ASSUME NEW c \in Clients, ClientGone(c) \/ ProtocolError(c)
        PROVE  IInv'
    <2>1. ClientDestroyed(c)
      BY <1>5 DEF ClientGone, ProtocolError
    <2>2. CASE IsOwner(c)
      BY <2>1, <2>2, OwnerLost DEF ClientDestroyed, IsOwner
    <2>3. CASE ~IsOwner(c)
      BY <2>1, <2>3, Unaffected DEF ClientDestroyed
    <2> QED BY <2>2, <2>3
  <1>6. ASSUME NEW c \in Clients, UnlockAndDestroy(c)
        PROVE  IInv'
    <2>1. FrameOrder'
      BY <1>6, SameFrames DEF UnlockAndDestroy, IInv
    <2>2. FenceHolds'
      BY <1>6 DEF UnlockAndDestroy, FenceHolds, IInv
    <2> QED BY <1>6, <2>1, <2>2
            DEF UnlockAndDestroy, IInv, ActiveMeansCovered, ToldMeansSealed, Told
  <1>7. ASSUME NEW c \in Clients, DestroyRequest(c)
        PROVE  IInv'
    BY <1>7, OwnerLost DEF DestroyRequest, IsOwner
  <1>8. ASSUME NEW c \in Clients, NEW s \in Surfaces, NEW o \in Views, GetLockSurface(c, s, o)
        PROVE  IInv'
    BY <1>8, Unaffected DEF GetLockSurface
  <1>9. ASSUME NEW s \in Surfaces,
               MapSurface(s) \/ SurfaceDestroyed(s) \/ WlSurfaceDestroyed(s)
        PROVE  IInv'
    BY <1>9, Unaffected DEF MapSurface, SurfaceDestroyed, WlSurfaceDestroyed
  <1> QED BY <1>1, <1>2, <1>3, <1>4, <1>5, <1>6, <1>7, <1>8, <1>9 DEF ClientStep

(* Painting appends the newest frame; with the scene up it shows the cover. *)
LEMMA PaintSafe ==
  ASSUME IInv, TypeOK', NEW v \in Views, Paint(v)
  PROVE  IInv'
  <1> DEFINE f == [n |-> counter, desktop |-> scene' # "top"]
  <1> USE DEF ctrlVars, wireVars, pipeVars
  <1>0. TypeOK /\ v \in views /\ queued' = [queued EXCEPT ![v] = Append(queued[v], f)]
        /\ counter' = counter + 1 /\ UNCHANGED <<lock, views, done, screen>> /\ BeforePaint(v)
    BY DEF Paint, IInv
  <1>1. ASSUME NEW u \in Views
        PROVE  /\ u # v => queued'[u] = queued[u]
               /\ u = v => /\ Len(queued'[u]) = Len(queued[u]) + 1
                           /\ queued'[u][Len(queued[u]) + 1] = f
               /\ \A i \in DOMAIN queued[u] : i \in DOMAIN queued'[u] /\ queued'[u][i] = queued[u][i]
               /\ \A i \in DOMAIN queued'[u] :
                     i \in DOMAIN queued[u] \/ (u = v /\ i = Len(queued[u]) + 1)
    <2>1. queued[u] \in Seq(Frame) /\ queued[v] \in Seq(Frame) /\ f \in Frame
      BY <1>0 DEF TypeOK, Frame
    <2> HIDE DEF f
    <2>2. u = v => queued'[u] = Append(queued[u], f)
      BY <1>0 DEF TypeOK
    <2>3. u # v => queued'[u] = queued[u]
      BY <1>0 DEF TypeOK
    <2> QED BY <2>1, <2>2, <2>3
  <1>2. FrameOrder'
    <2> SUFFICES ASSUME NEW u \in Views PROVE ViewOrder(u)'
      BY DEF FrameOrder
    <2>1. ViewOrder(u) /\ queued[u] \in Seq(Frame) /\ screen[u] \in Frame /\ counter \in Nat
      BY <1>0 DEF IInv, FrameOrder, TypeOK
    <2>2. done'[u] = done[u] /\ screen'[u] = screen[u]
      BY <1>0
    <2>3. \A i \in DOMAIN queued[u] : queued[u][i] \in Frame
      BY <2>1
    <2>4. CASE u # v
      BY <1>0, <1>1, <2>1, <2>2, <2>3, <2>4 DEF ViewOrder, Frame
    <2>5. CASE u = v
      <3>1. \A i \in DOMAIN queued[u] : i \in 1..Len(queued[u])
        BY <2>1
      <3> QED BY <1>0, <1>1, <2>1, <2>2, <2>3, <2>5, <3>1 DEF ViewOrder, Frame
    <2> QED BY <2>4, <2>5
  <1>3. CASE scene = "buried" /\ state # "UNLOCKED"
    <2>1. ~f.desktop /\ scene' = "top" /\ state' = "COVERING" /\ ~confirmed'
          /\ minimum' = counter /\ unpresented' = views
      BY <1>0, <1>3 DEF BeforePaint, ResetBarrier
    <2>2. ASSUME NEW u \in views' PROVE ViewFenced(u)'
      <3>1. u \in Views /\ ViewOrder(u)
        BY <1>0 DEF IInv, TypeOK, FrameOrder
      <3> QED BY <1>0, <1>1, <2>1, <3>1 DEF ViewFenced, Fenced, ViewOrder
    <2>3. FenceHolds'
      BY <1>0, <2>1, <2>2 DEF FenceHolds, TypeOK
    <2>4. Told' => Sealed'
      BY <1>0, <1>1, <2>1 DEF IInv, ToldMeansSealed, Told, Sealed, TypeOK
    <2>5. ActiveMeansCovered' /\ ToldMeansSealed'
      BY <2>1, <2>4 DEF ActiveMeansCovered, ToldMeansSealed
    <2> QED BY <1>2, <2>3, <2>5 DEF IInv
  <1>4. CASE ~(scene = "buried" /\ state # "UNLOCKED")
    <2>1. UNCHANGED <<scene, unpresented, minimum, confirmed, state>>
      BY <1>0, <1>4 DEF BeforePaint
    <2>2. state # "UNLOCKED" => ~f.desktop
      BY <1>0, <1>4, <2>1 DEF IInv, ActiveMeansCovered, TypeOK
    <2>3. state # "UNLOCKED" => \A u \in views' : ViewFenced(u)'
      <3> SUFFICES ASSUME state # "UNLOCKED", NEW u \in views' PROVE ViewFenced(u)'
        OBVIOUS
      <3>1. u \in Views /\ ViewFenced(u)
        BY <1>0 DEF IInv, TypeOK, FenceHolds
      <3> QED BY <1>0, <1>1, <2>1, <2>2, <3>1 DEF ViewFenced, Fenced
    <2>4. FenceHolds'
      BY <1>0, <2>1, <2>3 DEF FenceHolds, TypeOK, IInv
    <2>5. Told \/ confirmed => state # "UNLOCKED"
      BY DEF IInv, ActiveMeansCovered, Told
    <2>6. Sealed /\ (Told \/ confirmed) => Sealed'
      BY <1>0, <1>1, <2>1, <2>2, <2>5 DEF Sealed, TypeOK
    <2>7. ActiveMeansCovered' /\ ToldMeansSealed'
      BY <1>0, <2>1, <2>6 DEF IInv, ActiveMeansCovered, ToldMeansSealed, Told
    <2> QED BY <1>2, <2>4, <2>7 DEF IInv
  <1> QED BY <1>3, <1>4

(* A flip puts the oldest queued frame on the screen.                       *)
LEMMA FlipSafe ==
  ASSUME IInv, TypeOK', NEW v \in Views, Flip(v)
  PROVE  IInv'
  <1> DEFINE h == Head(queued[v])
  <1> USE DEF ctrlVars, wireVars, pipeVars
  <1>0. /\ TypeOK /\ queued[v] # <<>>
        /\ screen' = [screen EXCEPT ![v] = h]
        /\ done' = [done EXCEPT ![v] = Append(done[v], h)]
        /\ queued' = [queued EXCEPT ![v] = Tail(queued[v])]
        /\ UNCHANGED <<state, lock, unpresented, minimum, confirmed, scene, views, counter>>
    BY DEF Flip, IInv
  <1>1. /\ h = queued[v][1] /\ 1 \in DOMAIN queued[v] /\ h \in Frame
        /\ \A i \in DOMAIN queued[v] : queued[v][i] \in Frame
        /\ \A i \in DOMAIN queued'[v] : /\ i + 1 \in DOMAIN queued[v] /\ i \in Nat \ {0}
                                        /\ queued'[v][i] = queued[v][i + 1]
        /\ screen'[v] = h
        /\ \A i \in DOMAIN done'[v] : \/ i \in DOMAIN done[v] /\ done'[v][i] = done[v][i]
                                      \/ done'[v][i] = h
        /\ \A i \in DOMAIN done[v] : done[v][i] \in Frame
    <2>1. queued[v] \in Seq(Frame) /\ done[v] \in Seq(Frame)
      BY <1>0 DEF TypeOK
    <2>2. queued'[v] = Tail(queued[v]) /\ done'[v] = Append(done[v], h) /\ screen'[v] = h
      BY <1>0 DEF TypeOK
    <2>3. h = queued[v][1] /\ 1 \in DOMAIN queued[v] /\ h \in Frame
      BY <1>0, <2>1
    <2> HIDE DEF h
    <2>4. \A i \in DOMAIN queued[v] : queued[v][i] \in Frame
      BY <2>1
    <2>5. \A i \in DOMAIN done[v] : done[v][i] \in Frame
      BY <2>1
    <2>6. \A i \in DOMAIN queued'[v] : /\ i + 1 \in DOMAIN queued[v] /\ i \in Nat \ {0}
                                       /\ queued'[v][i] = queued[v][i + 1]
      <3> DEFINE q == queued[v]
      <3>1. q \in Seq(Frame) /\ q # <<>> /\ queued'[v] = Tail(q)
        BY <1>0, <2>1, <2>2
      <3> HIDE DEF q
      <3>2. /\ DOMAIN Tail(q) = 1..(Len(q) - 1) /\ DOMAIN q = 1..Len(q) /\ Len(q) \in Nat \ {0}
            /\ \A i \in 1..(Len(q) - 1) : Tail(q)[i] = q[i + 1]
        BY <3>1
      <3> QED BY <3>1, <3>2 DEF q
    <2>7. \A i \in DOMAIN done'[v] : \/ i \in DOMAIN done[v] /\ done'[v][i] = done[v][i]
                                     \/ done'[v][i] = h
      BY <2>1, <2>2, <2>3
    <2> QED BY <2>2, <2>3, <2>4, <2>5, <2>6, <2>7
  <1>2. ASSUME NEW u \in Views, u # v
        PROVE  queued'[u] = queued[u] /\ done'[u] = done[u] /\ screen'[u] = screen[u]
    BY <1>0, <1>2 DEF TypeOK
  <1> HIDE DEF h
  <1>3. FrameOrder'
    <2> SUFFICES ASSUME NEW u \in Views PROVE ViewOrder(u)'
      BY DEF FrameOrder
    <2>1. ViewOrder(u) /\ screen[u] \in Frame /\ counter \in Nat
      BY <1>0 DEF IInv, FrameOrder, TypeOK
    <2>2. CASE u # v
      BY <1>0, <1>2, <2>1, <2>2 DEF ViewOrder
    <2>3. CASE u = v
      <3>1. screen[v].n < h.n /\ h.n < counter
        BY <1>1, <2>1, <2>3 DEF ViewOrder
      <3>2. \A i \in DOMAIN done'[v] : done'[v][i].n <= h.n
        BY <1>1, <2>1, <2>3, <3>1 DEF ViewOrder, Frame
      <3>3. \A i \in DOMAIN queued'[v] : h.n < queued'[v][i].n /\ queued'[v][i].n < counter
        BY <1>1, <2>1, <2>3 DEF ViewOrder
      <3>4. \A i, j \in DOMAIN queued'[v] : i < j => queued'[v][i].n < queued'[v][j].n
        BY <1>1, <2>1, <2>3 DEF ViewOrder
      <3> QED BY <1>0, <1>1, <2>3, <3>1, <3>2, <3>3, <3>4 DEF ViewOrder
    <2> QED BY <2>2, <2>3
  <1>4. state # "UNLOCKED" => \A u \in views' : ViewFenced(u)'
    <2> SUFFICES ASSUME state # "UNLOCKED", NEW u \in views' PROVE ViewFenced(u)'
      OBVIOUS
    <2>1. u \in Views /\ ViewFenced(u) /\ ViewOrder(u) /\ screen[u] \in Frame /\ minimum \in Nat
      BY <1>0 DEF IInv, TypeOK, FenceHolds, FrameOrder
    <2>2. CASE u # v
      BY <1>0, <1>2, <2>1, <2>2 DEF ViewFenced, Fenced
    <2>3. CASE u = v
      BY <1>0, <1>1, <2>1, <2>3 DEF ViewFenced, Fenced, ViewOrder, Frame
    <2> QED BY <2>2, <2>3
  <1>5. FenceHolds'
    BY <1>0, <1>4 DEF FenceHolds, IInv
  <1>6. Sealed => Sealed'
    BY <1>0, <1>1, <1>2 DEF Sealed, TypeOK
  <1>7. ActiveMeansCovered' /\ ToldMeansSealed'
    BY <1>0, <1>6 DEF IInv, ActiveMeansCovered, ToldMeansSealed, Told
  <1> QED BY <1>3, <1>5, <1>7 DEF IInv

(* A notification: only a frame newer than the fence ends a view's wait.    *)
LEMMA PresentedSafe ==
  ASSUME IInv, TypeOK', NEW v \in Views, NotifyPresented(v)
  PROVE  IInv'
  <1> USE DEF ctrlVars, wireVars, pipeVars
  <1>0. TypeOK /\ Pop(v) /\ UNCHANGED <<minimum, scene, views, counter, queued, screen>>
    BY DEF NotifyPresented, PresentedIgnored, PresentedStale, PresentedFresh, IInv
  <1>1. \A u \in Views : \A i \in DOMAIN done'[u] :
           \E j \in DOMAIN done[u] : done'[u][i] = done[u][j]
    <2> SUFFICES ASSUME NEW u \in Views, NEW i \in DOMAIN done'[u]
                 PROVE  \E j \in DOMAIN done[u] : done'[u][i] = done[u][j]
      OBVIOUS
    <2>1. done[v] \in Seq(Frame) /\ done[v] # <<>>
      BY <1>0 DEF TypeOK, Pop
    <2>2. CASE u = v
      <3>1. done'[v] = Tail(done[v])
        BY <1>0 DEF TypeOK, Pop
      <3>2. i + 1 \in DOMAIN done[v] /\ done'[v][i] = done[v][i + 1]
        BY <2>1, <2>2, <3>1
      <3> QED BY <2>2, <3>2
    <2>3. CASE u # v
      BY <1>0, <2>3 DEF TypeOK, Pop
    <2> QED BY <2>2, <2>3
  <1>2. FrameOrder'
    BY <1>0, <1>1 DEF IInv, FrameOrder, ViewOrder
  <1>3. CASE PresentedIgnored(v) \/ PresentedStale(v)
    <2>1. UNCHANGED <<state, lock, unpresented, confirmed>>
      BY <1>3 DEF PresentedIgnored, PresentedStale
    <2> QED BY <1>0, <1>2, <2>1
            DEF IInv, ActiveMeansCovered, FenceHolds, ViewFenced, Fenced, ToldMeansSealed,
                Told, Sealed
  <1>4. CASE PresentedFresh(v)
    <2>1. /\ state \in {"COVERING", "FAILSAFE"} /\ v \in unpresented
          /\ unpresented' = unpresented \ {v} /\ Head(done[v]).n > minimum
      <3>1. done[v] \in Seq(Frame) /\ done[v] # <<>> /\ minimum \in Nat
        BY <1>0 DEF TypeOK, Pop
      <3>2. Head(done[v]) \in Frame
        BY <3>1
      <3> QED BY <1>4, <3>1, <3>2 DEF PresentedFresh, Awaited, TooOld, Frame
    <2>2. screen[v].n > minimum /\ \A i \in DOMAIN queued[v] : queued[v][i].n > minimum
      <3>1. done[v] \in Seq(Frame) /\ done[v] # <<>>
        BY <1>0 DEF TypeOK, Pop
      <3>2. 1 \in DOMAIN done[v] /\ done[v][1] = Head(done[v]) /\ done[v][1] \in Frame
        BY <3>1
      <3>3. screen[v] \in Frame /\ minimum \in Nat /\ ViewOrder(v)
            /\ \A i \in DOMAIN queued[v] : queued[v][i] \in Frame
        BY <1>0 DEF TypeOK, IInv, FrameOrder
      <3> QED BY <2>1, <3>2, <3>3 DEF ViewOrder, Frame
    <2>3. ASSUME NEW u \in views' PROVE ViewFenced(u)'
      <3>1. u \in Views /\ ViewFenced(u)
        BY <1>0, <2>1 DEF IInv, TypeOK, FenceHolds
      <3>2. minimum \in Nat /\ screen[v] \in Frame
            /\ \A i \in DOMAIN queued[v] : queued[v][i] \in Frame
        BY <1>0 DEF TypeOK
      <3>3. CASE u # v
        BY <1>0, <2>1, <3>1, <3>3 DEF ViewFenced, Fenced
      <3>4. CASE u = v
        BY <1>0, <2>1, <2>2, <3>1, <3>2, <3>4 DEF ViewFenced, Fenced, Frame
      <3> QED BY <3>3, <3>4
    <2>4. unpresented' \subseteq views' /\ minimum' <= counter'
      BY <1>0, <2>1 DEF IInv, FenceHolds
    <2>5. ~confirmed
      BY <2>1 DEF IInv, FenceHolds
    <2>6. CASE unpresented' = {}
      <3>2. Sealed'
        BY <1>0, <2>1, <2>3, <2>6 DEF Sealed, ViewFenced, Fenced, IInv, ActiveMeansCovered
      <3>3. Prove
        BY <1>4, <2>6 DEF PresentedFresh
      <3>4. CASE lock = NoLock
        <4>1. confirmed' /\ state' = "FAILSAFE"
          BY <3>3, <3>4 DEF Prove
        <4> QED BY <1>0, <1>2, <2>1, <2>3, <2>4, <2>6, <3>2, <4>1
                DEF IInv, FenceHolds, ActiveMeansCovered, ToldMeansSealed
      <3>5. CASE lock # NoLock
        <4>1. confirmed' /\ state' = "LOCKED" /\ lock' = [lock EXCEPT !.lockedSent = TRUE]
          BY <3>3, <3>5 DEF Prove
        <4>2. lock \in LockRecord
          BY <1>0, <3>5 DEF TypeOK
        <4>3. lock' \in LockRecord /\ lock'.lockedSent
          BY <4>1, <4>2 DEF LockRecord
        <4>4. Told'
          BY <4>3, SessionLockAssumption DEF Told, LockRecord
        <4> QED BY <1>0, <1>2, <2>1, <2>3, <2>4, <2>6, <3>2, <4>1, <4>4
                DEF IInv, FenceHolds, ActiveMeansCovered, ToldMeansSealed
      <3> QED BY <3>4, <3>5
    <2>7. CASE unpresented' # {}
      <3>1. UNCHANGED <<confirmed, state, lock>>
        BY <1>4, <2>7 DEF PresentedFresh
      <3>2. Sealed => Sealed'
        BY <1>0 DEF Sealed
      <3> QED BY <1>0, <1>2, <2>1, <2>3, <2>4, <2>5, <3>1, <3>2
              DEF IInv, FenceHolds, ActiveMeansCovered, ToldMeansSealed, Told
    <2> QED BY <2>6, <2>7
  <1> QED BY <1>3, <1>4 DEF NotifyPresented

(* A new layout: pipes are emptied, lit monitors keep what they showed.     *)
LEMMA MonitorsSafe ==
  ASSUME IInv, TypeOK', NEW vs \in SUBSET Views, MonitorsChanged(vs)
  PROVE  IInv'
  <1>0. /\ TypeOK /\ views' = vs /\ UNCHANGED <<lock, scene, counter>>
        /\ \A u \in Views : queued'[u] = <<>> /\ done'[u] = <<>>
    BY DEF MonitorsChanged, IInv
  <1>1. \A u \in Views : \/ screen'[u] = Dark
                         \/ u \in views /\ screen'[u] = screen[u]
                         \/ u \in views /\ \E i \in DOMAIN queued[u] : screen'[u] = queued[u][i]
    BY DEF MonitorsChanged
  <1>2. FrameOrder'
    <2> SUFFICES ASSUME NEW u \in Views PROVE ViewOrder(u)'
      BY DEF FrameOrder
    <2>1. ViewOrder(u) /\ counter \in Nat
      BY <1>0 DEF IInv, FrameOrder, TypeOK
    <2>2. screen'[u].n < counter
      BY <1>1, <2>1 DEF ViewOrder, Dark
    <2> QED BY <1>0, <2>2 DEF ViewOrder
  <1>3. Sealed => Sealed'
    <2> SUFFICES ASSUME Sealed, NEW u \in views'
                 PROVE  ~screen'[u].desktop /\ \A i \in DOMAIN queued'[u] : ~queued'[u][i].desktop
      BY <1>0 DEF Sealed
    <2>1. u \in Views
      BY <1>0
    <2>2. \A i \in DOMAIN queued'[u] : FALSE
      BY <1>0, <2>1
    <2>3. ~screen'[u].desktop
      BY <1>1, <2>1 DEF Sealed, Dark
    <2> QED BY <2>2, <2>3
  <1>4. CASE state # "UNLOCKED"
    <2>1. ResetBarrier(vs)
      BY <1>4 DEF MonitorsChanged
    <2>2. scene' # "absent" /\ (Told' => Sealed')
      BY <1>0, <1>3, <1>4 DEF IInv, ActiveMeansCovered, ToldMeansSealed, Told
    <2> QED BY <1>0, <1>2, <2>1, <2>2, AfterReset
  <1>5. CASE state = "UNLOCKED"
    <2>1. UNCHANGED <<unpresented, minimum, confirmed, state>>
      BY <1>5 DEF MonitorsChanged
    <2> QED BY <1>0, <1>2, <1>5, <2>1
            DEF IInv, ActiveMeansCovered, FenceHolds, ToldMeansSealed, Told
  <1> QED BY <1>4, <1>5

LEMMA StageSafe == IInv /\ TypeOK' /\ StageStep => IInv'
  <1> SUFFICES ASSUME IInv, TypeOK', StageStep PROVE IInv'
    OBVIOUS
  <1> USE DEF ctrlVars, wireVars, pipeVars
  <1>1. CASE StageChildAdded \/ StageViewsChanged
    <2>1. /\ ResetBarrier(views) /\ views = views' /\ counter' = counter
          /\ UNCHANGED <<lock, queued, done, screen>>
      BY <1>1 DEF StageChildAdded, StageViewsChanged
    <2>2. scene' # "absent"
      BY <1>1 DEF StageChildAdded, StageViewsChanged, IInv, ActiveMeansCovered
    <2>3. FrameOrder'
      BY <2>1, SameFrames DEF IInv
    <2>4. Told' => Sealed'
      BY <2>1, <2>2, SameSeal DEF IInv, ToldMeansSealed, Told
    <2> QED BY <2>1, <2>2, <2>3, <2>4, AfterReset
  <1>2. CASE Restack
    BY <1>2 DEF Restack, IInv, ActiveMeansCovered, FrameOrder, ViewOrder, FenceHolds,
                ViewFenced, Fenced, ToldMeansSealed, Told, Sealed
  <1>3. ASSUME NEW v \in Views, Damage(v) PROVE IInv'
    BY <1>3, Unaffected DEF Damage
  <1> QED BY <1>1, <1>2, <1>3, MonitorsSafe, PaintSafe, FlipSafe, PresentedSafe DEF StageStep

LEMMA StepSafe == IInv /\ [Next]_vars => IInv'
  <1> SUFFICES ASSUME IInv, [Next]_vars PROVE IInv'
    OBVIOUS
  <1>1. TypeOK'
    BY TypeStep DEF IInv
  <1>2. ASSUME NEW enabled \in BOOLEAN, ConfigureProtocol(enabled) PROVE IInv'
    BY <1>1, <1>2, Unaffected DEF ConfigureProtocol, ctrlVars, pipeVars
  <1>3. CASE UNCHANGED vars
    BY <1>1, <1>3, Unaffected DEF vars, ctrlVars, pipeVars
  <1> QED BY <1>1, <1>2, <1>3, ClientSafe, StageSafe DEF Next

(* The fence and the order of frames hold in every state.                   *)
THEOREM Invariance == Spec => []IInv
  BY InitSafe, StepSafe, PTL DEF Spec

(* A client is told `locked', and the presentation is reported confirmed,   *)
(* only while nothing of the session is or can become visible.              *)
THEOREM ToldSealed == Spec => []ToldMeansSealed
  <1>1. IInv => ToldMeansSealed
    BY DEF IInv
  <1> QED BY Invariance, <1>1, PTL

(* A confirmed presentation rests on frames newer than the latest barrier.  *)
THEOREM FreshProof == Spec => []ProofIsFresh
  <1>1. IInv => ProofIsFresh
    BY DEF IInv, ActiveMeansCovered, FenceHolds, ViewFenced, ProofIsFresh
  <1> QED BY Invariance, <1>1, PTL

-----------------------------------------------------------------------------
(* Refinement of LockPromise.                                               *)

(* No step but an unlock brings session content back under a sealed cover.  *)
LEMMA SealStable ==
  ASSUME IInv, StageStep, Sealed
  PROVE  Sealed'
  <1> USE DEF ctrlVars, wireVars, pipeVars
  <1>0. TypeOK /\ state # "UNLOCKED"
    BY DEF IInv, ActiveMeansCovered, Sealed
  <1>1. CASE StageChildAdded \/ StageViewsChanged \/ Restack
    BY <1>1 DEF StageChildAdded, StageViewsChanged, Restack, Sealed
  <1>2. ASSUME NEW v \in Views, Damage(v) \/ NotifyPresented(v)
        PROVE  Sealed'
    BY <1>2 DEF Damage, NotifyPresented, PresentedIgnored, PresentedStale, PresentedFresh, Sealed
  <1>3. ASSUME NEW v \in Views, Paint(v)
        PROVE  Sealed'
    <2> DEFINE f == [n |-> counter, desktop |-> scene' # "top"]
    <2>1. /\ queued' = [queued EXCEPT ![v] = Append(queued[v], f)]
          /\ UNCHANGED <<views, screen>>
      BY <1>3 DEF Paint
    <2>2. scene' = "top"
      BY <1>0, <1>3 DEF Paint, BeforePaint, Sealed, TypeOK
    <2>3. ~f.desktop /\ queued[v] \in Seq(Frame) /\ f \in Frame
      <3>1. counter \in Nat /\ queued[v] \in Seq(Frame)
        BY <1>0 DEF TypeOK
      <3>2. ~f.desktop
        BY <2>2
      <3>3. f \in Frame
        BY <3>1 DEF Frame
      <3> QED BY <3>1, <3>2, <3>3
    <2> HIDE DEF f
    <2>4. \A i \in DOMAIN queued'[v] :
             queued'[v][i] = f \/ (i \in DOMAIN queued[v] /\ queued'[v][i] = queued[v][i])
      <3>1. queued'[v] = Append(queued[v], f)
        BY <1>0, <2>1 DEF TypeOK
      <3> QED BY <2>3, <3>1
    <2>5. \A u \in views : u # v => queued'[u] = queued[u]
      BY <1>0, <2>1 DEF TypeOK
    <2>6. v \in views
      BY <1>3 DEF Paint
    <2> QED BY <2>1, <2>2, <2>3, <2>4, <2>5, <2>6 DEF Sealed
  <1>4. ASSUME NEW v \in Views, Flip(v)
        PROVE  Sealed'
    <2> DEFINE q == queued[v]
    <2>1. /\ q \in Seq(Frame) /\ q # <<>>
          /\ screen' = [screen EXCEPT ![v] = Head(q)]
          /\ queued' = [queued EXCEPT ![v] = Tail(q)]
          /\ UNCHANGED <<views, scene>>
      BY <1>0, <1>4 DEF Flip, TypeOK
    <2>2. q = queued[v]
      OBVIOUS
    <2> HIDE DEF q
    <2>3. /\ 1 \in DOMAIN q /\ Head(q) = q[1]
          /\ \A i \in DOMAIN Tail(q) : i + 1 \in DOMAIN q /\ Tail(q)[i] = q[i + 1]
      <3>1. /\ DOMAIN Tail(q) = 1..(Len(q) - 1) /\ DOMAIN q = 1..Len(q) /\ Len(q) \in Nat \ {0}
            /\ \A i \in 1..(Len(q) - 1) : Tail(q)[i] = q[i + 1]
        BY <2>1
      <3> QED BY <2>1, <3>1
    <2>4. ASSUME NEW u \in views
          PROVE  ~screen'[u].desktop /\ \A i \in DOMAIN queued'[u] : ~queued'[u][i].desktop
      <3>1. CASE u # v
        BY <1>0, <2>1, <3>1 DEF Sealed, TypeOK
      <3>2. CASE u = v
        BY <1>0, <2>1, <2>2, <2>3, <3>2 DEF Sealed, TypeOK
      <3> QED BY <3>1, <3>2
    <2> QED BY <2>1, <2>4 DEF Sealed
  <1>5. ASSUME NEW vs \in SUBSET Views, MonitorsChanged(vs)
        PROVE  Sealed'
    <2>1. /\ views' = vs /\ UNCHANGED scene
          /\ \A u \in Views : queued'[u] = <<>>
          /\ \A u \in vs : \/ screen'[u] = Dark
                           \/ u \in views /\ screen'[u] = screen[u]
                           \/ u \in views /\ \E i \in DOMAIN queued[u] : screen'[u] = queued[u][i]
      BY <1>5 DEF MonitorsChanged
    <2>2. \A u \in Views : \A i \in DOMAIN queued'[u] : FALSE
      BY <2>1
    <2> QED BY <2>1, <2>2 DEF Sealed, Dark
  <1> QED BY <1>1, <1>2, <1>3, <1>4, <1>5 DEF StageStep

Holder == IF Told THEN lock.client ELSE NoLock
Phase == IF state = "UNLOCKED" THEN "open" ELSE IF Sealed THEN "closed" ELSE "closing"

PromiseStep == [Promise!Next]_<<Phase, Holder>>

(* A step that keeps lock and openness is a Seal or a stutter.              *)
LEMMA Quiet ==
  ASSUME Holder' = Holder, state = "UNLOCKED" <=> state' = "UNLOCKED",
         state # "UNLOCKED" /\ Sealed => Sealed'
  PROVE  PromiseStep
  BY DEF PromiseStep, Phase, Holder, Promise!Next, Promise!Seal

LEMMA FrameStutter ==
  ASSUME Holder' = Holder, UNCHANGED <<state, scene, views, queued, screen>>
  PROVE  PromiseStep
  BY Quiet DEF Sealed

LEMMA HolderGone ==
  ASSUME IInv, lock # NoLock, lock' = NoLock, state' = "FAILSAFE",
         lock.client # NoLock, UNCHANGED <<scene, views, queued, screen>>
  PROVE  PromiseStep
  <1>1. state # "UNLOCKED" /\ Holder' = NoLock /\ (Sealed <=> Sealed') /\ Phase' = Phase
    BY DEF IInv, ActiveMeansCovered, Holder, Told, Sealed, Phase
  <1>2. CASE Told
    <2>1. Holder # NoLock
      BY <1>2 DEF Holder
    <2> QED BY <1>1, <2>1 DEF PromiseStep, Phase, Holder, Promise!Next, Promise!Vanish
  <1>3. CASE ~Told
    BY <1>1, <1>3 DEF PromiseStep, Holder
  <1> QED BY <1>2, <1>3

LEMMA ClientPromise ==
  ASSUME IInv, ClientStep
  PROVE  PromiseStep
  <1> USE DEF ctrlVars, wireVars, pipeVars
  <1>0. TypeOK /\ (lock # NoLock => lock.client \in Clients /\ lock.client # NoLock)
    BY SessionLockAssumption DEF IInv, TypeOK, LockRecord
  <1>1. ASSUME NEW c \in Clients, ManagerBind(c) \/ ManagerDestroy(c) \/ LockRefused(c)
                                  \/ DestroyFinished(c)
        PROVE  PromiseStep
    BY <1>1, FrameStutter
    DEF ManagerBind, ManagerDestroy, LockRefused, DestroyFinished, Holder, Told
  <1>2. ASSUME NEW c \in Clients, LockFromUnlocked(c)
        PROVE  PromiseStep
    <2>1. Phase = "open" /\ Phase' \in {"closing", "closed"}
      BY <1>2 DEF LockFromUnlocked, ResetBarrier, Phase
    <2>2. Holder = NoLock /\ Holder' = NoLock
      BY <1>2 DEF LockFromUnlocked, MayLock, Holder, Told
    <2> QED BY <2>1, <2>2 DEF PromiseStep, Phase, Holder, Promise!Next, Promise!Close
  <1>3. ASSUME NEW c \in Clients, LockFromFailsafe(c) \/ LockFromCovering(c)
        PROVE  PromiseStep
    <2>1. Holder = NoLock /\ Holder' = NoLock
      BY <1>3 DEF LockFromFailsafe, LockFromCovering, MayLock, Holder, Told
    <2>2. state # "UNLOCKED" /\ state' # "UNLOCKED" /\ UNCHANGED <<scene, views, queued, screen>>
      BY <1>3 DEF LockFromFailsafe, LockFromCovering, ResetBarrier
    <2> QED BY <2>1, <2>2, Quiet DEF Sealed
  <1>4. ASSUME NEW c \in Clients, ClientGone(c) \/ ProtocolError(c)
        PROVE  PromiseStep
    <2>1. ClientDestroyed(c)
      BY <1>4 DEF ClientGone, ProtocolError
    <2>2. CASE IsOwner(c)
      BY <1>0, <2>1, <2>2, HolderGone DEF ClientDestroyed, IsOwner
    <2>3. CASE ~IsOwner(c)
      BY <2>1, <2>3, FrameStutter DEF ClientDestroyed, Holder, Told
    <2> QED BY <2>2, <2>3
  <1>5. ASSUME NEW c \in Clients, UnlockAndDestroy(c)
        PROVE  PromiseStep
    <2>1. Holder = c /\ Holder' = NoLock /\ Phase' = "open"
      BY <1>5 DEF UnlockAndDestroy, MayUnlock, IsOwner, Holder, Told, Phase
    <2>2. Phase = "closed"
      BY <1>5 DEF UnlockAndDestroy, MayUnlock, IsOwner, Told, Phase, IInv, ToldMeansSealed,
                  ActiveMeansCovered
    <2> QED BY <2>1, <2>2 DEF PromiseStep, Phase, Holder, Promise!Next, Promise!Open
  <1>6. ASSUME NEW c \in Clients, DestroyRequest(c)
        PROVE  PromiseStep
    BY <1>0, <1>6, HolderGone DEF DestroyRequest, IsOwner
  <1>7. ASSUME NEW c \in Clients, NEW s \in Surfaces, NEW o \in Views, GetLockSurface(c, s, o)
        PROVE  PromiseStep
    BY <1>7, FrameStutter DEF GetLockSurface, Holder, Told
  <1>8. ASSUME NEW s \in Surfaces,
               MapSurface(s) \/ SurfaceDestroyed(s) \/ WlSurfaceDestroyed(s)
        PROVE  PromiseStep
    BY <1>8, FrameStutter DEF MapSurface, SurfaceDestroyed, WlSurfaceDestroyed, Holder, Told
  <1> QED BY <1>1, <1>2, <1>3, <1>4, <1>5, <1>6, <1>7, <1>8 DEF ClientStep

LEMMA StagePromise ==
  ASSUME IInv, StageStep
  PROVE  PromiseStep
  <1> USE DEF ctrlVars, wireVars, pipeVars
  <1>0. state # "UNLOCKED" /\ Sealed => Sealed'
    BY SealStable
  <1>1. CASE UNCHANGED lock /\ (state = "UNLOCKED" <=> state' = "UNLOCKED")
    BY <1>0, <1>1, Quiet DEF Holder, Told
  <1>2. CASE ~(UNCHANGED lock /\ (state = "UNLOCKED" <=> state' = "UNLOCKED"))
    <2>1. PICK v \in Views : PresentedFresh(v)
      BY <1>2 DEF StageStep, StageChildAdded, StageViewsChanged, Restack, MonitorsChanged,
         Damage, Paint, BeforePaint, Flip, NotifyPresented, PresentedIgnored, PresentedStale,
         ResetBarrier, IInv, ActiveMeansCovered
    <2>2. Prove /\ lock # NoLock
      BY <1>2, <2>1 DEF PresentedFresh, Prove, Awaited
    <2>3. state # "UNLOCKED" /\ state' = "LOCKED" /\ lock' = [lock EXCEPT !.lockedSent = TRUE]
      BY <2>1, <2>2 DEF PresentedFresh, Prove, Awaited
    <2>4. lock \in LockRecord /\ lock' \in LockRecord /\ lock'.lockedSent
          /\ lock'.client = lock.client
      BY <2>2, <2>3 DEF IInv, TypeOK, LockRecord
    <2>5. Holder' = lock.client /\ Told'
      BY <2>4, SessionLockAssumption DEF Holder, Told, LockRecord
    <2>6. IInv'
      BY StepSafe DEF Next
    <2>7. Phase # "open" /\ Phase' = "closed"
      BY <2>3, <2>5, <2>6 DEF Phase, IInv, ToldMeansSealed
    <2>8. CASE Told
      <3>1. Holder' = Holder
        BY <2>5, <2>8 DEF Holder
      <3> QED BY <1>0, <2>3, <3>1, Quiet
    <2>9. CASE ~Told
      <3>1. Holder = NoLock /\ lock.client \in Clients
        BY <2>4, <2>9 DEF Holder, LockRecord
      <3> QED BY <2>5, <2>7, <3>1 DEF PromiseStep, Phase, Holder, Promise!Next, Promise!Tell
    <2> QED BY <2>8, <2>9
  <1> QED BY <1>1, <1>2

(* The controller implements the abstract promise: whoever is told, and     *)
(* whenever, the session is closed then and until that client opens it.     *)
THEOREM Refinement == Spec => ImplementsPromise
  <1>1. Init => Promise!Init
    BY SessionLockAssumption DEF Init, Promise!Init, Told
  <1>2. IInv /\ [Next]_vars => PromiseStep
    <2> SUFFICES ASSUME IInv, [Next]_vars PROVE PromiseStep
      OBVIOUS
    <2>1. ASSUME NEW enabled \in BOOLEAN, ConfigureProtocol(enabled) PROVE PromiseStep
      BY <2>1, FrameStutter DEF ConfigureProtocol, ctrlVars, pipeVars, Holder, Told
    <2>2. CASE UNCHANGED vars
      BY <2>2, FrameStutter DEF vars, ctrlVars, pipeVars, Holder, Told
    <2> QED BY <2>1, <2>2, ClientPromise, StagePromise DEF Next
  <1>3. PromiseStep <=> [Promise!Next]_(Promise!promiseVars)
    BY DEF PromiseStep, Promise!promiseVars, Phase, Holder
  <1> QED BY <1>1, <1>2, <1>3, Invariance, PTL DEF Spec, ImplementsPromise, Promise!Spec

-----------------------------------------------------------------------------
(* Lock surfaces and their owner.                                           *)

Mapped(s) == \E o \in Views : surfaces[o] = s

(* After close_lock_surfaces no surface is mapped and no role is open.      *)
LEMMA NothingLeft ==
  ASSUME OnlyOwnerSurfaces, TypeOK, CloseLockSurfaces
  PROVE  OnlyOwnerSurfaces'
  <1> SUFFICES ASSUME NEW s \in Surfaces
               PROVE  role'[s].st # "open" /\ \A o \in Views : surfaces'[o] # s
    BY DEF OnlyOwnerSurfaces
  <1>1. \A o \in Views : surfaces'[o] # s
    BY SessionLockAssumption DEF CloseLockSurfaces
  <1>2. role'[s].st # "open"
    <2>1. CASE Mapped(s)
      <3>1. role'[s] = [role[s] EXCEPT !.st = "closed"] /\ role[s] \in Role
        BY <2>1 DEF CloseLockSurfaces, Mapped, TypeOK
      <3> QED BY <3>1 DEF Role
    <2>2. CASE ~Mapped(s)
      BY <2>2 DEF CloseLockSurfaces, Mapped, OnlyOwnerSurfaces, TypeOK
    <2> QED BY <2>1, <2>2
  <1> QED BY <1>1, <1>2

LEMMA OwnerSurfacesStep == IInv /\ OnlyOwnerSurfaces /\ [Next]_vars => OnlyOwnerSurfaces'
  <1> SUFFICES ASSUME IInv, OnlyOwnerSurfaces, [Next]_vars PROVE OnlyOwnerSurfaces'
    OBVIOUS
  <1> USE DEF ctrlVars, wireVars, pipeVars
  <1>0. TypeOK /\ NoLock \notin Clients /\ NoSurface \notin Surfaces
    BY SessionLockAssumption DEF IInv
  <1>1. CASE UNCHANGED <<surfaces, role, views, lock>>
    BY <1>0, <1>1 DEF OnlyOwnerSurfaces, IsOwner
  <1>2. ASSUME NEW c \in Clients, LockFromUnlocked(c) \/ LockFromCovering(c)
        PROVE  OnlyOwnerSurfaces'
    BY <1>0, <1>2 DEF LockFromUnlocked, LockFromCovering, MayLock, OnlyOwnerSurfaces, IsOwner
  <1>3. ASSUME NEW c \in Clients,
               LockFromFailsafe(c) \/ UnlockAndDestroy(c) \/ DestroyRequest(c)
        PROVE  OnlyOwnerSurfaces'
    BY <1>0, <1>3, NothingLeft DEF LockFromFailsafe, UnlockAndDestroy, DestroyRequest
  <1>4. ASSUME NEW c \in Clients, ClientGone(c) \/ ProtocolError(c)
        PROVE  OnlyOwnerSurfaces'
    <2>1. ClientDestroyed(c) /\ UNCHANGED views
      BY <1>4 DEF ClientGone, ProtocolError, ClientDestroyed
    <2> SUFFICES ASSUME NEW s \in Surfaces, role'[s].st = "open" \/ Mapped(s)'
                 PROVE  /\ role'[s].st = "open" /\ IsOwner(role[s].client)'
                        /\ \E o \in views' : /\ surfaces'[o] = s
                                             /\ \A p \in Views \ {o} : surfaces'[p] # s
      BY DEF OnlyOwnerSurfaces, Mapped
    <2>2. role'[s] = IF role[s].client = c THEN NoRole ELSE role[s]
      BY <2>1 DEF ClientDestroyed
    <2>3. CASE IsOwner(c)
      <3>1. ~Mapped(s)'
        BY <1>0, <2>1, <2>3 DEF ClientDestroyed, Mapped
      <3>2. role[s].st = "open" /\ role[s].client # c
        BY <2>2, <3>1 DEF NoRole
      <3> QED BY <2>3, <3>2 DEF OnlyOwnerSurfaces, IsOwner
    <2>4. CASE ~IsOwner(c)
      <3>1. UNCHANGED <<surfaces, lock>>
        BY <2>1, <2>4 DEF ClientDestroyed
      <3>2. role[s].st = "open" \/ Mapped(s)
        BY <2>2, <3>1 DEF NoRole, Mapped
      <3>3. IsOwner(role[s].client) /\ role[s].client # c
        BY <2>4, <3>2 DEF OnlyOwnerSurfaces, Mapped
      <3> QED BY <2>1, <2>2, <3>1, <3>2, <3>3 DEF OnlyOwnerSurfaces, Mapped, IsOwner
    <2> QED BY <2>3, <2>4
  <1>5. ASSUME NEW c \in Clients, NEW s \in Surfaces, NEW o \in Views, GetLockSurface(c, s, o)
        PROVE  OnlyOwnerSurfaces'
    <2>1. /\ IsOwner(c) /\ o \in views /\ surfaces[o] = NoSurface /\ role[s] = NoRole
          /\ role' = [role EXCEPT ![s] = [st |-> "open", client |-> c, mapped |-> FALSE]]
          /\ surfaces' = [surfaces EXCEPT ![o] = s]
          /\ UNCHANGED <<lock, views>>
      BY <1>5 DEF GetLockSurface
    <2>2. \A p \in Views : surfaces[p] # s
      BY <2>1 DEF OnlyOwnerSurfaces, NoRole
    <2>3. ASSUME NEW u \in Surfaces, role'[u].st = "open" \/ Mapped(u)'
          PROVE  /\ role'[u].st = "open" /\ IsOwner(role[u].client)'
                 /\ \E q \in views' : /\ surfaces'[q] = u
                                      /\ \A p \in Views \ {q} : surfaces'[p] # u
      <3>1. CASE u = s
        <4>1. role'[s].st = "open" /\ role'[s].client = c
          BY <1>0, <2>1 DEF TypeOK
        <4>2. surfaces'[o] = s /\ \A p \in Views \ {o} : surfaces'[p] # s
          BY <1>0, <2>1, <2>2 DEF TypeOK
        <4> QED BY <2>1, <3>1, <4>1, <4>2 DEF IsOwner
      <3>2. CASE u # s
        <4>1. role'[u] = role[u] /\ \A p \in Views : surfaces'[p] = u <=> surfaces[p] = u
          BY <1>0, <2>1, <3>2 DEF TypeOK
        <4>2. role[u].st = "open" \/ Mapped(u)
          BY <2>3, <4>1 DEF Mapped
        <4>3. views \subseteq Views
          BY <1>0 DEF TypeOK
        <4> QED BY <2>1, <4>1, <4>2, <4>3 DEF OnlyOwnerSurfaces, Mapped, IsOwner
      <3> QED BY <3>1, <3>2
    <2> QED BY <2>3 DEF OnlyOwnerSurfaces, Mapped
  <1>6. ASSUME NEW s \in Surfaces, MapSurface(s)
        PROVE  OnlyOwnerSurfaces'
    <2>1. /\ UNCHANGED <<surfaces, lock, views>>
          /\ \A u \in Surfaces : role'[u].st = role[u].st /\ role'[u].client = role[u].client
      BY <1>0, <1>6 DEF MapSurface, TypeOK, Role
    <2> QED BY <2>1 DEF OnlyOwnerSurfaces, IsOwner
  <1>7. ASSUME NEW s \in Surfaces, SurfaceDestroyed(s) \/ WlSurfaceDestroyed(s)
        PROVE  OnlyOwnerSurfaces'
    <2>1. /\ \A o \in Views : surfaces'[o] = IF surfaces[o] = s THEN NoSurface ELSE surfaces[o]
          /\ UNCHANGED <<lock, views>> /\ views \subseteq Views
      BY <1>0, <1>7 DEF SurfaceDestroyed, WlSurfaceDestroyed, Unmap, TypeOK
    <2>2. \A u \in Surfaces : u # s => role'[u] = role[u]
      BY <1>0, <1>7 DEF SurfaceDestroyed, WlSurfaceDestroyed, TypeOK
    <2>3. role'[s].st # "open"
      BY <1>0, <1>7 DEF SurfaceDestroyed, WlSurfaceDestroyed, TypeOK, Role, NoRole
    <2>4. \A o \in Views : surfaces'[o] # s
      BY <1>0, <2>1
    <2>5. \A u \in Surfaces, o \in Views : u # s => (surfaces'[o] = u <=> surfaces[o] = u)
      BY <1>0, <2>1
    <2> QED BY <2>1, <2>2, <2>3, <2>4, <2>5 DEF OnlyOwnerSurfaces, IsOwner
  <1>8. ASSUME NEW vs \in SUBSET Views, MonitorsChanged(vs)
        PROVE  OnlyOwnerSurfaces'
    <2>1. /\ \A o \in Views : surfaces'[o] = IF o \in vs THEN surfaces[o] ELSE NoSurface
          /\ \A u \in Surfaces : role'[u] = IF \E o \in Views \ vs : surfaces[o] = u
                                            THEN [role[u] EXCEPT !.st = "closed"] ELSE role[u]
          /\ views' = vs /\ UNCHANGED lock /\ views \subseteq Views
      BY <1>0, <1>8 DEF MonitorsChanged, TypeOK
    <2> SUFFICES ASSUME NEW u \in Surfaces, role'[u].st = "open" \/ Mapped(u)'
                 PROVE  /\ role'[u].st = "open" /\ IsOwner(role[u].client)'
                        /\ \E q \in views' : /\ surfaces'[q] = u
                                             /\ \A p \in Views \ {q} : surfaces'[p] # u
      BY DEF OnlyOwnerSurfaces, Mapped
    <2>2. CASE \E o \in Views \ vs : surfaces[o] = u
      <3>1. role'[u].st = "closed"
        <4>1. role[u] \in Role /\ role'[u] = [role[u] EXCEPT !.st = "closed"]
          BY <1>0, <2>1, <2>2 DEF TypeOK
        <4> QED BY <4>1 DEF Role
      <3>2. ~Mapped(u)'
        BY <1>0, <2>1, <2>2 DEF OnlyOwnerSurfaces, Mapped
      <3> QED BY <3>1, <3>2
    <2>3. CASE \A o \in Views \ vs : surfaces[o] # u
      <3>1. role'[u] = role[u] /\ \A o \in Views : surfaces'[o] = u <=> surfaces[o] = u
        BY <1>0, <2>1, <2>3
      <3>2. role[u].st = "open" \/ Mapped(u)
        BY <3>1 DEF Mapped
      <3> QED BY <2>1, <2>3, <3>1, <3>2 DEF OnlyOwnerSurfaces, Mapped, IsOwner
    <2> QED BY <2>2, <2>3
  <1>9. ASSUME NEW v \in Views, PresentedFresh(v)
        PROVE  OnlyOwnerSurfaces'
    <2>1. UNCHANGED <<surfaces, role, views>>
      BY <1>9 DEF PresentedFresh
    <2>2. \A c : IsOwner(c) => IsOwner(c)'
      <3>1. CASE UNCHANGED lock
        BY <3>1 DEF IsOwner
      <3>2. CASE lock # NoLock /\ lock' = [lock EXCEPT !.lockedSent = TRUE]
        <4>1. lock \in LockRecord /\ lock' \in LockRecord /\ lock'.client = lock.client
          BY <1>0, <3>2 DEF TypeOK, LockRecord
        <4> QED BY <4>1, SessionLockAssumption DEF IsOwner, LockRecord
      <3> QED BY <1>9, <3>1, <3>2 DEF PresentedFresh, Prove
    <2> QED BY <2>1, <2>2 DEF OnlyOwnerSurfaces
  <1>10. ASSUME NEW c \in Clients, ManagerBind(c) \/ ManagerDestroy(c) \/ LockRefused(c)
                                   \/ DestroyFinished(c)
         PROVE  OnlyOwnerSurfaces'
    BY <1>1, <1>10 DEF ManagerBind, ManagerDestroy, LockRefused, DestroyFinished
  <1>11. CASE ClientStep
    BY <1>2, <1>3, <1>4, <1>5, <1>6, <1>7, <1>10, <1>11 DEF ClientStep
  <1>12. CASE StageStep
    <2>1. CASE StageChildAdded \/ StageViewsChanged \/ Restack
      BY <1>1, <2>1 DEF StageChildAdded, StageViewsChanged, Restack
    <2>2. ASSUME NEW v \in Views, Damage(v) \/ Paint(v) \/ Flip(v) \/ PresentedIgnored(v)
                                  \/ PresentedStale(v)
          PROVE  OnlyOwnerSurfaces'
      BY <1>1, <2>2 DEF Damage, Paint, Flip, PresentedIgnored, PresentedStale
    <2> QED BY <1>8, <1>9, <1>12, <2>1, <2>2 DEF StageStep, NotifyPresented
  <1>13. ASSUME NEW enabled \in BOOLEAN, ConfigureProtocol(enabled)
         PROVE  OnlyOwnerSurfaces'
    BY <1>1, <1>13 DEF ConfigureProtocol
  <1>14. CASE UNCHANGED vars
    BY <1>1, <1>14 DEF vars
  <1> QED BY <1>11, <1>12, <1>13, <1>14 DEF Next

(* Only the live owner's surfaces are shown and get input, on every output. *)
THEOREM OwnerSurfaces == Spec => []OnlyOwnerSurfaces
  <1>1. Init => OnlyOwnerSurfaces
    BY SessionLockAssumption DEF Init, OnlyOwnerSurfaces, NoRole
  <1> QED BY <1>1, OwnerSurfacesStep, Invariance, PTL DEF Spec
(* A live owner is displaced by nobody else, and what it was told is not    *)
(* taken back.                                                              *)
THEOREM OwnerKept == Spec => OwnerKeepsLock
  <1> DEFINE Kept == lock # NoLock /\ lock' # NoLock =>
                       lock'.client = lock.client /\ (lock.lockedSent => lock'.lockedSent)
  <1>1. ASSUME IInv, [Next]_vars PROVE Kept
    <2> USE DEF vars, ctrlVars
    <2>1. lock # NoLock => lock \in LockRecord /\ state # "UNLOCKED"
      BY <1>1 DEF IInv, TypeOK, ActiveMeansCovered
    <2>2. ASSUME UNCHANGED lock \/ lock = NoLock \/ lock' = NoLock PROVE Kept
      BY <2>2
    <2>3. ASSUME NEW v \in Views, PresentedFresh(v) PROVE Kept
      BY <2>1, <2>2, <2>3 DEF PresentedFresh, Prove, LockRecord
    <2>4. CASE ClientStep
      BY <2>2, <2>4 DEF ClientStep, ManagerBind, ManagerDestroy, LockRefused, LockFromUnlocked,
           LockFromFailsafe, LockFromCovering, MayLock, ClientGone, ProtocolError,
           ClientDestroyed, UnlockAndDestroy, DestroyRequest, DestroyFinished, GetLockSurface,
           MapSurface, SurfaceDestroyed, WlSurfaceDestroyed
    <2>5. CASE StageStep
      BY <2>2, <2>3, <2>5 DEF StageStep, StageChildAdded, StageViewsChanged, Restack,
           MonitorsChanged, Damage, Paint, BeforePaint, Flip, NotifyPresented, PresentedIgnored,
           PresentedStale, ResetBarrier
    <2>6. ASSUME NEW enabled \in BOOLEAN, ConfigureProtocol(enabled) PROVE Kept
      BY <2>2, <2>6 DEF ConfigureProtocol
    <2> QED BY <1>1, <2>2, <2>4, <2>5, <2>6 DEF Next
  <1>2. IInv /\ [Next]_vars => [Kept]_vars
    BY <1>1
  <1> QED BY Invariance, <1>2, PTL DEF Spec, OwnerKeepsLock
=============================================================================
