------------------------- MODULE SessionLockSurface -------------------------
(***************************************************************************)
(* One ext_session_lock_surface_v1 role                                    *)
(* (protocols/session-lock/meta-wayland-session-lock-surface.c): the       *)
(* configure / ack_configure / commit handshake over the asynchronous      *)
(* wire, while the output is resized or lost and the lock is given up.     *)
(*                                                                         *)
(* The wire carries events to the client and requests to the compositor,   *)
(* each in order.  A client that is not polite sends anything; a polite    *)
(* one does what docs/session-lock.md asks of a locker: acknowledge a      *)
(* configure it received (the last is enough) and commit exactly its size. *)
(***************************************************************************)
EXTENDS Naturals, Sequences

CONSTANTS
    OutputSizes, \* output sizes
    NoSize,      \* no size: nothing acknowledged, no buffer
    MaxSerial,   \* bound: configures sent to this surface
    MaxWire,     \* bound: requests in flight
    MaxRude      \* bound: those of a client that sends anything

ASSUME SurfaceAssumption ==
    /\ NoSize \notin OutputSizes
    /\ MaxSerial \in Nat \ {0} /\ MaxWire \in Nat \ {0} /\ MaxRude \in 1..MaxWire

VARIABLES
    layout,      \* the output's size
    serial,      \* serial of the latest configure
    configures,  \* lock_surface->configures, unacknowledged, in wire order
    acked,       \* acked_width x acked_height, NoSize before the first ack
    mapped,      \* lock_surface->mapped
    closed,      \* lock_surface->closed
    resource,    \* lock_surface->resource exists
    shown,       \* size of the buffer applied last
    inScene,     \* the surface actor is a child of the lock scene
    killed,      \* a protocol error was posted
    events,      \* configures on the way to the client
    requests,    \* requests on the way to the compositor
    polite,      \* client: follows the documented contract, never changes
    received,    \* client: the last configure it received
    agreed       \* client: the last configure it acknowledged

roleVars == <<configures, acked, mapped, closed, resource, shown, inScene, killed>>
clientVars == <<polite, received, agreed>>
vars == <<layout, serial, roleVars, events, requests, clientVars>>

Configure == [serial : 1..MaxSerial, size : OutputSizes]
NoConfigure == [serial |-> 0, size |-> NoSize]
Request == [op : {"ack"}, serial : 0..MaxSerial]
           \cup [op : {"attach"}, size : OutputSizes \cup {NoSize}]
           \cup [op : {"commit", "destroy"}]

-----------------------------------------------------------------------------
(* meta_wayland_session_lock_surface_new ends with the first configure.     *)
Init ==
    \E size \in OutputSizes : LET first == [serial |-> 1, size |-> size] IN
    /\ layout = size /\ serial = 1
    /\ configures = <<first>> /\ events = <<first>>
    /\ acked = NoSize /\ mapped = FALSE /\ closed = FALSE /\ resource = TRUE
    /\ shown = NoSize /\ inScene = FALSE /\ killed = FALSE
    /\ requests = <<>> /\ polite \in BOOLEAN
    /\ received = NoConfigure /\ agreed = NoConfigure

-----------------------------------------------------------------------------
(* The compositor.                                                          *)

SendsOnceMapped == resource /\ ~closed /\ mapped      \* mutant: skips early resizes
SendsConfigure == resource /\ ~closed

SendConfigure(size) ==
    IF SendsConfigure
    THEN LET new == [serial |-> serial + 1, size |-> size] IN
         /\ serial' = new.serial
         /\ configures' = Append(configures, new)
         /\ events' = Append(events, new)
    ELSE UNCHANGED <<serial, configures, events>>

(* on_monitors_changed reconfigures every mapped output's surface; a window *)
(* configuration does the same without a new layout.                        *)
Reconfigure(size) ==
    /\ ~killed /\ serial < MaxSerial
    /\ layout' = size
    /\ SendConfigure(size)
    /\ UNCHANGED <<acked, mapped, closed, resource, shown, inScene, killed, requests,
                   clientVars>>

CloseKeepsActor == closed' = TRUE /\ UNCHANGED inScene    \* mutant: the actor stays
Close == closed' = TRUE /\ inScene' = FALSE

(* The output is destroyed, the lock ends, or the owner is replaced.        *)
CompositorCloses ==
    /\ ~killed /\ ~closed
    /\ Close
    /\ UNCHANGED <<layout, serial, configures, acked, mapped, resource, shown, killed,
                   events, requests, clientVars>>

Take(op) ==
    /\ ~killed /\ requests # <<>> /\ Head(requests).op = op
    /\ requests' = Tail(requests)

(* Configures before the acknowledged one are popped unread.                *)
Acks(s) == \E i \in DOMAIN configures : configures[i].serial = s
Acknowledged(s) == CHOOSE i \in DOMAIN configures : configures[i].serial = s
NewerDropped(s) == <<>>                  \* mutant: clears the queue
Newer(s) == SubSeq(configures, Acknowledged(s) + 1, Len(configures))
SizeOfSerial(s) == s                     \* mutant: stores the serial as the size
SizeOf(s) == configures[Acknowledged(s)].size

AckConfigure ==
    /\ Take("ack")
    /\ LET s == Head(requests).serial IN
       IF closed \/ ~resource
       THEN UNCHANGED <<configures, acked, killed>>
       ELSE IF Acks(s)
            THEN /\ acked' = SizeOf(s)
                 /\ configures' = Newer(s)
                 /\ UNCHANGED killed
            ELSE killed' = TRUE /\ configures' = <<>> /\ UNCHANGED acked
    /\ UNCHANGED <<layout, serial, mapped, closed, resource, shown, inScene, events, clientVars>>

Exempt == closed \/ ~resource

FitsAny(size) == size \in OutputSizes    \* mutant: the dimensions are not compared
Fits(size) == size = acked

(* A commit with a newly attached buffer (NoSize: a null buffer), through     *)
(* apply_state, which applies a buffer before it compares its size, and     *)
(* post_apply_state.                                                        *)
CommitAttached ==
    /\ Take("attach")
    /\ LET size == Head(requests).size IN
       IF Exempt
       THEN shown' = size /\ UNCHANGED <<mapped, inScene, killed>>
       ELSE IF size = NoSize \/ acked = NoSize
       THEN killed' = TRUE /\ UNCHANGED <<shown, mapped, inScene>>
       ELSE /\ shown' = size
            /\ killed' = ~Fits(size)
            /\ mapped' = (mapped \/ Fits(size))
            /\ inScene' = mapped'
    /\ UNCHANGED <<layout, serial, configures, acked, closed, resource, events, clientVars>>

(* A commit without a newly attached buffer.                                *)
CommitEmpty ==
    /\ Take("commit")
    /\ inScene' = (inScene \/ (mapped /\ ~closed))
    /\ UNCHANGED <<layout, serial, configures, acked, mapped, closed, resource, shown,
                   killed, events, clientVars>>

ResourceDestroyed ==
    /\ Take("destroy")
    /\ resource' = FALSE
    /\ Close
    /\ UNCHANGED <<layout, serial, configures, acked, mapped, shown, killed, events, clientVars>>

Compositor == AckConfigure \/ CommitAttached \/ CommitEmpty \/ ResourceDestroyed

-----------------------------------------------------------------------------
(* The client.                                                              *)

Receive ==
    /\ ~killed /\ events # <<>>
    /\ received' = Head(events) /\ events' = Tail(events)
    /\ UNCHANGED <<layout, serial, roleVars, requests, polite, agreed>>

Destroyed == \E i \in DOMAIN requests : requests[i].op = "destroy"

Send(rs) ==
    /\ ~killed /\ Len(requests) + Len(rs) <= MaxWire
    /\ requests' = requests \o rs
    /\ UNCHANGED <<layout, serial, roleVars, events, polite, received>>

SendAnything ==
    /\ ~polite /\ Len(requests) < MaxRude
    /\ \E r \in Request :
          /\ r.op \in {"ack", "destroy"} => resource /\ ~Destroyed    \* the object is gone
          /\ Send(<<r>>) /\ UNCHANGED agreed

(* Acknowledge the latest configure and commit a buffer of its size.        *)
PoliteDraw ==
    /\ received # agreed /\ resource /\ ~Destroyed
    /\ Send(<<[op |-> "ack", serial |-> received.serial],
              [op |-> "attach", size |-> received.size]>>)
    /\ agreed' = received

PoliteRedraw ==
    /\ agreed # NoConfigure /\ Len(requests) + 3 <= MaxWire   \* leaves room to draw
    /\ Send(<<[op |-> "attach", size |-> agreed.size]>>) /\ UNCHANGED agreed

(* Tear the window down: the role first, then a null buffer.                *)
PoliteDestroy ==
    /\ resource /\ ~Destroyed
    /\ Send(<<[op |-> "destroy"], [op |-> "attach", size |-> NoSize]>>) /\ UNCHANGED agreed

PoliteEmpty == Len(requests) + 3 <= MaxWire /\ Send(<<[op |-> "commit"]>>) /\ UNCHANGED agreed

-----------------------------------------------------------------------------
Environment == CompositorCloses \/ \E size \in OutputSizes : Reconfigure(size)

Polite == polite /\ (PoliteDraw \/ PoliteRedraw \/ PoliteDestroy \/ PoliteEmpty)

Next == Environment \/ Compositor \/ Receive \/ SendAnything \/ Polite

(* The compositor dispatches requests; a polite locker handles its events.  *)
Fairness ==
    /\ WF_vars(Compositor) /\ WF_vars(Receive)
    /\ WF_vars(polite /\ PoliteDraw)

Spec == Init /\ [][Next]_vars /\ Fairness

-----------------------------------------------------------------------------
(* The shape of every variable.                                             *)
TypeOK ==
    /\ layout \in OutputSizes /\ serial \in 1..MaxSerial
    /\ configures \in Seq(Configure) /\ events \in Seq(Configure)
    /\ acked \in OutputSizes \cup {NoSize} /\ shown \in OutputSizes \cup {NoSize}
    /\ mapped \in BOOLEAN /\ closed \in BOOLEAN /\ resource \in BOOLEAN
    /\ inScene \in BOOLEAN /\ killed \in BOOLEAN
    /\ requests \in Seq(Request) /\ polite \in BOOLEAN
    /\ received \in Configure \cup {NoConfigure} /\ agreed \in Configure \cup {NoConfigure}

(* The scene holds pixels only while the role is open, and only after its   *)
(* client acknowledged a size and committed a buffer.                       *)
SceneOpen ==
    /\ TypeOK
    /\ inScene => mapped /\ ~closed /\ acked # NoSize /\ shown # NoSize

(* What comes into the scene, and every other size it changes to, has the   *)
(* size acknowledged at that moment, or its client is disconnected at once. *)
DrawnAsAcked ==
    inScene' /\ (shown' # shown \/ ~inScene) => shown' = acked \/ killed'

(* Whatever the client sends, in whatever order with resizes and the end of *)
(* the lock, the scene holds pixels of an open role only, and what is drawn *)
(* there has the size acknowledged then, or its client is disconnected.     *)
SceneHoldsAckedPixels == []SceneOpen /\ [][DrawnAsAcked]_vars

(* A locker that follows the documented contract is never disconnected,     *)
(* however resizes, a lost output, unlock and its own teardown interleave   *)
(* with its requests on the wire.                                           *)
PoliteLockerKept == polite => ~killed

(* When the layout has settled, the open lock surface of a polite locker    *)
(* ends up with the size of its output.                                     *)
SettlesToLayout == polite => <>[](closed \/ (inScene /\ shown = layout))
=============================================================================
