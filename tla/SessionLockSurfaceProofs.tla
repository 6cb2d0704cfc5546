---------------------- MODULE SessionLockSurfaceProofs ----------------------
(***************************************************************************)
(* Proofs about the surfaces that other processes draw: SessionLockSurface *)
(* for every set of sizes and every length of the wire, LayerSurface for   *)
(* every set of surfaces, outputs and modes as well.                       *)
(*                                                                         *)
(* That the scene holds acknowledged pixels is inductive by itself.  That  *)
(* a polite locker is never disconnected is a statement about what is on   *)
(* the wire: Wire says, of each request that is still in flight, that the  *)
(* compositor will find what it needs when it gets there.                  *)
(*                                                                         *)
(* What layer surfaces promise needs LayerSurface's own IInv: for each     *)
(* surface LifeKept and HandshakeKept, and for all of them KeyboardReturns *)
(* over a list of handlers without repetition.                             *)
(***************************************************************************)
EXTENDS MCSurfaces, Integers, SequenceTheorems, WellFoundedInduction, TLAPS

-----------------------------------------------------------------------------
(* Type correctness.                                                        *)

(* The elements of a sequence after the k-th.                               *)
LEMMA TailFrom ==
  ASSUME NEW S, NEW q \in Seq(S), NEW k \in 1..Len(q)
  PROVE  /\ SubSeq(q, k + 1, Len(q)) \in Seq(S)
         /\ Len(SubSeq(q, k + 1, Len(q))) = Len(q) - k
         /\ \A i \in 1..(Len(q) - k) : SubSeq(q, k + 1, Len(q))[i] = q[k + i]
  OBVIOUS

LEMMA Appended ==
  ASSUME NEW S, NEW q \in Seq(S), NEW e \in S
  PROVE  /\ Append(q, e) \in Seq(S) /\ Len(Append(q, e)) = Len(q) + 1
         /\ \A i \in 1..Len(q) : Append(q, e)[i] = q[i]
         /\ Append(q, e)[Len(q) + 1] = e
  OBVIOUS

(* What a request carries follows from what it asks for.                    *)
LEMMA Requests ==
  /\ \A r \in Request : /\ r.op \in {"ack", "attach", "commit", "destroy"}
                        /\ r.op = "ack" => r.serial \in 0..MaxSerial
                        /\ r.op = "attach" => r.size \in OutputSizes \cup {NoSize}
  /\ \A n \in 0..MaxSerial : [op |-> "ack", serial |-> n] \in Request
  /\ \A z \in OutputSizes \cup {NoSize} : [op |-> "attach", size |-> z] \in Request
  /\ [op |-> "commit"] \in Request /\ [op |-> "destroy"] \in Request
  BY DEF Request

(* The configures from the acknowledged one on: what is left, and the size. *)
LEMMA AckedConfigure ==
  ASSUME TypeOK, NEW s, Acks(s)
  PROVE  /\ Acknowledged(s) \in 1..Len(configures)
         /\ configures[Acknowledged(s)].serial = s
         /\ SizeOf(s) \in OutputSizes
         /\ Newer(s) \in Seq(Configure)
         /\ Len(Newer(s)) = Len(configures) - Acknowledged(s)
         /\ \A i \in 1..Len(Newer(s)) : Newer(s)[i] = configures[Acknowledged(s) + i]
  <1>1. DOMAIN configures = 1..Len(configures) /\ Len(configures) \in Nat
    BY DEF TypeOK
  <1>2. Acknowledged(s) \in 1..Len(configures) /\ configures[Acknowledged(s)].serial = s
    BY <1>1 DEF Acks, Acknowledged
  <1>3. SizeOf(s) \in OutputSizes
    <2>1. configures[Acknowledged(s)] \in Configure
      BY <1>2 DEF TypeOK
    <2> QED BY <2>1 DEF SizeOf, Configure
  <1> QED BY <1>1, <1>2, <1>3, TailFrom DEF Newer, TypeOK

LEMMA InitType == Init => TypeOK
  <1> SUFFICES ASSUME NEW size \in OutputSizes,
                      layout = size /\ serial = 1,
                      configures = <<[serial |-> 1, size |-> size]>>, events = configures,
                      Init
               PROVE  TypeOK
    BY DEF Init
  <1>1. [serial |-> 1, size |-> size] \in Configure
    BY SurfaceAssumption DEF Configure, SurfaceAssumption
  <1>2. configures \in Seq(Configure) /\ events \in Seq(Configure)
    BY <1>1
  <1>3. requests \in Seq(Request)
    BY DEF Init
  <1>4. /\ acked = NoSize /\ shown = NoSize /\ received = NoConfigure /\ agreed = NoConfigure
        /\ mapped = FALSE /\ closed = FALSE /\ resource = TRUE /\ inScene = FALSE
        /\ killed = FALSE /\ polite \in BOOLEAN
    BY DEF Init
  <1>5. layout \in OutputSizes /\ serial \in 1..MaxSerial
    BY SurfaceAssumption DEF SurfaceAssumption
  <1> QED BY <1>2, <1>3, <1>4, <1>5 DEF TypeOK

LEMMA CompositorType == TypeOK /\ Compositor => TypeOK'
  <1> SUFFICES ASSUME TypeOK, Compositor PROVE TypeOK'
    OBVIOUS
  <1> USE DEF clientVars
  <1>1. ASSUME NEW op, Take(op)
        PROVE  Head(requests) \in Request /\ Head(requests).op = op /\ requests' \in Seq(Request)
    BY <1>1 DEF Take, TypeOK
  <1>2. CASE AckConfigure
    <2> DEFINE s == Head(requests).serial
    <2>1. UNCHANGED <<layout, serial, mapped, closed, resource, shown, inScene, events, clientVars>>
      BY <1>2 DEF AckConfigure
    <2>2. requests' \in Seq(Request)
      BY <1>1, <1>2 DEF AckConfigure
    <2>3. /\ acked' \in OutputSizes \cup {NoSize} /\ configures' \in Seq(Configure)
          /\ killed' \in BOOLEAN
      <3>1. CASE closed \/ ~resource
        BY <1>2, <3>1 DEF AckConfigure, TypeOK
      <3>2. CASE ~(closed \/ ~resource) /\ Acks(s)
        <4>1. SizeOf(s) \in OutputSizes /\ Newer(s) \in Seq(Configure)
          BY <3>2, AckedConfigure
        <4> QED BY <1>2, <3>2, <4>1 DEF AckConfigure, TypeOK
      <3>3. CASE ~(closed \/ ~resource) /\ ~Acks(s)
        BY <1>2, <3>3 DEF AckConfigure, TypeOK
      <3> QED BY <3>1, <3>2, <3>3
    <2> QED BY <2>1, <2>2, <2>3 DEF TypeOK
  <1>3. CASE CommitAttached
    <2>1. Head(requests).size \in OutputSizes \cup {NoSize}
      BY <1>1, <1>3, Requests DEF CommitAttached
    <2> QED BY <1>1, <1>3, <2>1 DEF CommitAttached, TypeOK
  <1>4. CASE CommitEmpty
    BY <1>1, <1>4 DEF CommitEmpty, TypeOK
  <1>5. CASE ResourceDestroyed
    BY <1>1, <1>5 DEF ResourceDestroyed, Close, TypeOK
  <1> QED BY <1>2, <1>3, <1>4, <1>5 DEF Compositor

LEMMA ClientType == TypeOK /\ (Receive \/ SendAnything \/ Polite) => TypeOK'
  <1> SUFFICES ASSUME TypeOK, Receive \/ SendAnything \/ Polite PROVE TypeOK'
    OBVIOUS
  <1> USE DEF roleVars
  <1>1. CASE Receive
    BY <1>1 DEF Receive, TypeOK
  <1>2. ASSUME NEW rs \in Seq(Request), Send(rs), agreed' \in Configure \cup {NoConfigure}
        PROVE  TypeOK'
    <2>1. requests \o rs \in Seq(Request)
      BY <1>2 DEF TypeOK
    <2>2. requests' \in Seq(Request)
      BY <1>2, <2>1 DEF Send
    <2>3. UNCHANGED <<layout, serial, configures, acked, mapped, closed, resource, shown, inScene,
                      killed, events, polite, received>>
      BY <1>2 DEF Send
    <2> QED BY <1>2, <2>2, <2>3 DEF TypeOK
  <1>3. CASE SendAnything
    <2>1. PICK r \in Request : Send(<<r>>) /\ UNCHANGED agreed
      BY <1>3 DEF SendAnything
    <2>2. <<r>> \in Seq(Request) /\ agreed' \in Configure \cup {NoConfigure}
      BY <2>1 DEF TypeOK
    <2> QED BY <1>2, <2>1, <2>2
  <1>4. CASE PoliteDraw
    <2>1. received.serial \in 0..MaxSerial /\ received.size \in OutputSizes \cup {NoSize}
      BY SurfaceAssumption DEF TypeOK, Configure, NoConfigure, SurfaceAssumption
    <2>2. <<[op |-> "ack", serial |-> received.serial],
            [op |-> "attach", size |-> received.size]>> \in Seq(Request)
      BY <2>1, Requests
    <2> QED BY <1>2, <1>4, <2>2 DEF PoliteDraw, TypeOK
  <1>5. CASE PoliteRedraw
    <2>1. agreed.size \in OutputSizes \cup {NoSize}
      BY DEF TypeOK, Configure, NoConfigure
    <2>2. <<[op |-> "attach", size |-> agreed.size]>> \in Seq(Request)
      BY <2>1, Requests
    <2> QED BY <1>2, <1>5, <2>2 DEF PoliteRedraw, TypeOK
  <1>6. CASE PoliteDestroy
    <2>1. <<[op |-> "destroy"], [op |-> "attach", size |-> NoSize]>> \in Seq(Request)
      BY Requests
    <2> QED BY <1>2, <1>6, <2>1 DEF PoliteDestroy, TypeOK
  <1>7. CASE PoliteEmpty
    <2>1. <<[op |-> "commit"]>> \in Seq(Request)
      BY Requests
    <2> QED BY <1>2, <1>7, <2>1 DEF PoliteEmpty, TypeOK
  <1> QED BY <1>1, <1>3, <1>4, <1>5, <1>6, <1>7 DEF Polite

LEMMA TypeStep == TypeOK /\ [Next]_vars => TypeOK'
  <1> SUFFICES ASSUME TypeOK, [Next]_vars PROVE TypeOK'
    OBVIOUS
  <1> USE DEF roleVars, clientVars
  <1>1. ASSUME NEW size \in OutputSizes, Reconfigure(size)
        PROVE  TypeOK'
    <2>1. CASE SendsConfigure
      <3>1. [serial |-> serial + 1, size |-> size] \in Configure
        BY <1>1, SurfaceAssumption DEF Reconfigure, Configure, TypeOK, SurfaceAssumption
      <3>2. serial' \in 1..MaxSerial
        BY <1>1, <2>1, SurfaceAssumption
        DEF Reconfigure, SendConfigure, TypeOK, SurfaceAssumption
      <3>3. configures' \in Seq(Configure) /\ events' \in Seq(Configure)
        <4> DEFINE new == [serial |-> serial + 1, size |-> size]
        <4>1. configures' = Append(configures, new) /\ events' = Append(events, new)
          BY <1>1, <2>1 DEF Reconfigure, SendConfigure
        <4> QED BY <3>1, <4>1, Appended DEF TypeOK
      <3> QED BY <1>1, <3>2, <3>3 DEF Reconfigure, TypeOK
    <2>2. CASE ~SendsConfigure
      BY <1>1, <2>2 DEF Reconfigure, SendConfigure, TypeOK
    <2> QED BY <2>1, <2>2
  <1>2. CASE CompositorCloses
    BY <1>2 DEF CompositorCloses, Close, TypeOK
  <1>3. CASE UNCHANGED vars
    BY <1>3 DEF vars, TypeOK
  <1> QED BY <1>1, <1>2, <1>3, CompositorType, ClientType DEF Next, Environment

(* Every variable keeps its shape, whatever the client sends.               *)
THEOREM TypeCorrect ==
  Spec => []TypeOK
  BY InitType, TypeStep, PTL DEF Spec

-----------------------------------------------------------------------------
(* What the lock scene holds.                                               *)

(* A mapped role has acknowledged a configure, an open one has pixels in    *)
(* the scene, and a role whose object is gone is closed.                    *)
SceneInv ==
  /\ mapped => acked # NoSize
  /\ mapped /\ ~closed => shown # NoSize /\ inScene
  /\ inScene => mapped /\ ~closed
  /\ resource \/ closed

LEMMA SceneStep ==
  TypeOK /\ SceneInv /\ [Next]_vars => SceneInv'
  <1> SUFFICES ASSUME TypeOK, SceneInv, [Next]_vars PROVE SceneInv'
    OBVIOUS
  <1> USE DEF roleVars, clientVars
  <1>1. ASSUME UNCHANGED <<mapped, acked, closed, shown, inScene, resource>> PROVE SceneInv'
    BY <1>1 DEF SceneInv
  <1>2. CASE CompositorCloses
    BY <1>2 DEF CompositorCloses, Close, SceneInv
  <1>3. CASE AckConfigure
    <2>1. acked' \in OutputSizes \/ acked' = acked
      BY <1>3, AckedConfigure DEF AckConfigure
    <2>2. UNCHANGED <<mapped, closed, shown, inScene, resource>>
      BY <1>3 DEF AckConfigure
    <2> QED BY <2>1, <2>2, SurfaceAssumption DEF SceneInv, SurfaceAssumption
  <1>4. CASE CommitAttached
    <2> DEFINE size == Head(requests).size
    <2>0. UNCHANGED <<acked, closed, resource>>
      BY <1>4 DEF CommitAttached
    <2>1. CASE Exempt
      BY <1>4, <2>0, <2>1 DEF CommitAttached, Exempt, SceneInv
    <2>2. CASE ~Exempt /\ (size = NoSize \/ acked = NoSize)
      BY <1>1, <1>4, <2>0, <2>2 DEF CommitAttached
    <2>3. CASE ~Exempt /\ ~(size = NoSize \/ acked = NoSize)
      <3>1. shown' = size /\ inScene' = mapped'
        BY <1>4, <2>3 DEF CommitAttached
      <3> QED BY <2>0, <2>3, <3>1 DEF SceneInv, Exempt
    <2> QED BY <2>1, <2>2, <2>3
  <1>5. CASE CommitEmpty
    BY <1>5 DEF CommitEmpty, SceneInv
  <1>6. CASE ResourceDestroyed
    BY <1>6 DEF ResourceDestroyed, Close, SceneInv
  <1>7. CASE Receive \/ SendAnything \/ Polite
    BY <1>1, <1>7 DEF Receive, SendAnything, Polite, PoliteDraw, PoliteRedraw, PoliteDestroy,
                      PoliteEmpty, Send
  <1>8. ASSUME NEW size \in OutputSizes, Reconfigure(size) PROVE SceneInv'
    BY <1>1, <1>8 DEF Reconfigure
  <1>9. CASE UNCHANGED vars
    BY <1>1, <1>9 DEF vars
  <1> QED BY <1>2, <1>3, <1>4, <1>5, <1>6, <1>7, <1>8, <1>9 DEF Next, Environment, Compositor

(* The scene takes and changes pixels only in a commit of a buffer.         *)
LEMMA SceneDraws ==
  TypeOK /\ SceneInv /\ [Next]_vars => [DrawnAsAcked]_vars
  <1> SUFFICES ASSUME TypeOK, SceneInv, [Next]_vars, inScene', shown' # shown \/ ~inScene
               PROVE  shown' = acked \/ killed'
    BY DEF DrawnAsAcked
  <1> USE DEF roleVars, clientVars
  <1>1. CASE CommitAttached
    BY <1>1 DEF CommitAttached, Fits, Exempt, SceneInv
  <1>2. CASE CommitEmpty
    BY <1>2 DEF CommitEmpty, SceneInv
  <1>3. ASSUME ~CommitAttached, ~CommitEmpty PROVE shown' = shown /\ (inScene' => inScene)
    <2>1. CASE Environment
      BY <2>1 DEF Environment, CompositorCloses, Reconfigure, Close
    <2>2. CASE Compositor
      BY <1>3, <2>2 DEF Compositor, AckConfigure, ResourceDestroyed, Close
    <2>3. CASE Receive \/ SendAnything \/ Polite
      BY <2>3 DEF Receive, SendAnything, Polite, PoliteDraw, PoliteRedraw, PoliteDestroy,
                  PoliteEmpty, Send
    <2>4. CASE UNCHANGED vars
      BY <2>4 DEF vars
    <2> QED BY <2>1, <2>2, <2>3, <2>4 DEF Next
  <1> QED BY <1>1, <1>2, <1>3

(* Whatever the client sends, in whatever order with resizes and the end of *)
(* the lock, the scene holds pixels of an open role only, and what is drawn *)
(* there has the size acknowledged then, or its client is disconnected.     *)
THEOREM ScenePixels ==
  Spec => SceneHoldsAckedPixels
  <1>1. Init => SceneInv
    BY DEF Init, SceneInv
  <1>2. TypeOK /\ SceneInv => SceneOpen
    BY DEF SceneInv, SceneOpen
  <1> QED BY <1>1, <1>2, SceneStep, SceneDraws, TypeCorrect, PTL DEF Spec, SceneHoldsAckedPixels

-----------------------------------------------------------------------------
(* What a polite locker has on the wire while its role is open.             *)

Waits(c) == \E k \in DOMAIN configures : configures[k] = c
IsAck(j) == requests[j].op = "ack"
NoAck(i, j) == \A h \in i..j : ~IsAck(h)
Live(j) == \A h \in 1..(j - 1) : requests[h].op # "destroy"

(* Serials only grow, in the queue, on the wire and in the client's hands.  *)
Growing ==
  /\ agreed.serial <= received.serial /\ received.serial <= serial
  /\ \A i \in DOMAIN configures : configures[i].serial <= serial
  /\ \A i, j \in DOMAIN configures : i < j => configures[i].serial < configures[j].serial
  /\ \A i \in DOMAIN events : events[i].serial > received.serial
  /\ \A i, j \in DOMAIN events : i < j => events[i].serial < events[j].serial

(* What the client was told and has not acknowledged waits in the queue.    *)
Remembered ==
  /\ \A i \in DOMAIN events : Waits(events[i])
  /\ agreed = received \/ (agreed.serial < received.serial /\ Waits(received))

(* Each acknowledgement will find its configure, and the last one is the    *)
(* configure the client draws for.                                          *)
AcksFind ==
  /\ \A j \in DOMAIN requests : IsAck(j) =>
        /\ \E k \in DOMAIN configures : configures[k].serial = requests[j].serial
        /\ requests[j].serial <= agreed.serial
  /\ \A i, j \in DOMAIN requests :
        i < j /\ IsAck(i) /\ IsAck(j) => requests[i].serial < requests[j].serial
  /\ \A j \in DOMAIN requests :
        IsAck(j) /\ NoAck(j + 1, Len(requests)) =>
           requests[j].serial = agreed.serial /\ Waits(agreed)
  /\ NoAck(1, Len(requests)) /\ agreed # NoConfigure => acked = agreed.size /\ acked # NoSize

(* Each buffer has the size acknowledged before it.                         *)
BuffersFit ==
  \A j \in DOMAIN requests : requests[j].op = "attach" /\ Live(j) =>
     /\ NoAck(1, j - 1) => requests[j].size = acked /\ acked # NoSize
     /\ \A i \in 1..(j - 1) : IsAck(i) /\ NoAck(i + 1, j - 1) =>
           \E k \in DOMAIN configures :
              configures[k].serial = requests[i].serial /\ configures[k].size = requests[j].size

Wire == Growing /\ Remembered /\ AcksFind /\ BuffersFit
PoliteInv == polite => ~killed /\ (~Exempt => Wire)

(* A request is taken: the others move up.                                  *)
LEMMA MovesUp ==
  ASSUME NEW S, NEW q \in Seq(S), q # <<>>
  PROVE  /\ Tail(q) \in Seq(S) /\ Len(Tail(q)) = Len(q) - 1 /\ Len(q) \in Nat \ {0}
         /\ \A j \in 1..(Len(q) - 1) : Tail(q)[j] = q[j + 1]
         /\ Head(q) = q[1]
  OBVIOUS

LEMMA WireInit == Init => PoliteInv
  <1> SUFFICES ASSUME NEW size \in OutputSizes, Init,
                      serial = 1, configures = <<[serial |-> 1, size |-> size]>>,
                      events = configures
               PROVE  PoliteInv
    BY DEF Init
  <1>1. received = NoConfigure /\ agreed = NoConfigure /\ requests = <<>> /\ killed = FALSE
    BY DEF Init
  <1>2. Growing /\ Remembered
    BY <1>1 DEF Growing, Remembered, NoConfigure, Waits
  <1>3. AcksFind /\ BuffersFit
    BY <1>1 DEF AcksFind, BuffersFit, NoConfigure
  <1> QED BY <1>1, <1>2, <1>3 DEF PoliteInv, Wire

(* What the client does changes nothing of the role.                        *)
LEMMA ClientKeepsRole ==
  Receive \/ SendAnything \/ Polite => UNCHANGED <<roleVars, serial, polite>>
  <1>1. ASSUME NEW rs, Send(rs) PROVE UNCHANGED <<roleVars, serial, polite>>
    BY <1>1 DEF Send
  <1>2. Receive => UNCHANGED <<roleVars, serial, polite>>
    BY DEF Receive
  <1> QED BY <1>1, <1>2 DEF SendAnything, Polite, PoliteDraw, PoliteRedraw, PoliteDestroy,
                            PoliteEmpty

(* Once the role is exempt from the handshake it stays so, and nothing that *)
(* arrives is an error.                                                     *)
LEMMA ExemptStep ==
  ASSUME TypeOK, Exempt, [Next]_vars
  PROVE  Exempt' /\ killed' = killed
  <1> USE DEF roleVars, clientVars, Exempt
  <1>1. CASE Environment
    BY <1>1 DEF Environment, Reconfigure, CompositorCloses, Close
  <1>2. CASE Compositor
    BY <1>2 DEF Compositor, AckConfigure, CommitAttached, CommitEmpty, ResourceDestroyed, Close
  <1>3. CASE Receive \/ SendAnything \/ Polite
    BY <1>3, ClientKeepsRole
  <1>4. CASE UNCHANGED vars
    BY <1>4 DEF vars
  <1> QED BY <1>1, <1>2, <1>3, <1>4 DEF Next

(* The compositor sends another configure.                                  *)
LEMMA WireReconfigure ==
  ASSUME TypeOK, Wire, ~Exempt, NEW size \in OutputSizes, Reconfigure(size)
  PROVE  Wire'
  <1>1. PICK new \in Configure :
           /\ configures' = Append(configures, new) /\ events' = Append(events, new)
           /\ serial' = serial + 1 /\ new.serial = serial + 1
    <2>1. [serial |-> serial + 1, size |-> size] \in Configure
      BY SurfaceAssumption DEF Reconfigure, Configure, TypeOK, SurfaceAssumption
    <2> QED BY <2>1 DEF Reconfigure, SendConfigure, SendsConfigure, Exempt
  <1>2. UNCHANGED <<acked, requests, received, agreed>>
    BY DEF Reconfigure, clientVars
  <1>3. configures \in Seq(Configure) /\ events \in Seq(Configure) /\ serial \in Nat
        /\ received.serial \in Nat /\ agreed.serial \in Nat
    BY SurfaceAssumption DEF TypeOK, Configure, NoConfigure, SurfaceAssumption
  <1>5. /\ Len(configures') = Len(configures) + 1 /\ configures'[Len(configures) + 1] = new
        /\ \A i \in 1..Len(configures) : configures'[i] = configures[i]
        /\ Len(events') = Len(events) + 1 /\ events'[Len(events) + 1] = new
        /\ \A i \in 1..Len(events) : events'[i] = events[i]
        /\ DOMAIN configures = 1..Len(configures) /\ DOMAIN events = 1..Len(events)
        /\ DOMAIN configures' = 1..(Len(configures) + 1) /\ DOMAIN events' = 1..(Len(events) + 1)
        /\ Len(configures) \in Nat /\ Len(events) \in Nat
    BY <1>1, <1>3, Appended
  <1>6. \A c : Waits(c) => Waits(c)'
    BY <1>5 DEF Waits
  <1>7. Waits(new)'
    BY <1>5 DEF Waits
  <1>8. /\ \A i \in DOMAIN configures : configures[i].serial \in Nat
        /\ \A i \in DOMAIN events : events[i].serial \in Nat
    <2>1. /\ \A i \in DOMAIN configures : configures[i] \in Configure
          /\ \A i \in DOMAIN events : events[i] \in Configure
      BY <1>3
    <2> QED BY <2>1 DEF Configure
  <1>4. /\ \A i \in DOMAIN configures' :
              (i \in DOMAIN configures /\ configures'[i] = configures[i])
              \/ (i = Len(configures) + 1 /\ configures'[i] = new)
        /\ \A i \in DOMAIN events' :
              (i \in DOMAIN events /\ events'[i] = events[i])
              \/ (i = Len(events) + 1 /\ events'[i] = new)
    BY <1>5
  <1>9. Growing'
    <2>1. /\ \A i \in DOMAIN configures : configures[i].serial <= serial
          /\ \A i \in DOMAIN events : events[i].serial <= serial
      BY DEF Wire, Growing, Remembered, Waits
    <2>2. /\ (agreed.serial <= received.serial)'
          /\ (received.serial <= serial)'
      BY <1>1, <1>2, <1>3 DEF Wire, Growing
    <2>3. (\A i \in DOMAIN configures : configures[i].serial <= serial)'
      BY <1>1, <1>3, <1>4, <1>8, <2>1
    <2>4. (\A i, j \in DOMAIN configures : i < j => configures[i].serial < configures[j].serial)'
      BY <1>1, <1>3, <1>4, <1>5, <1>8, <2>1 DEF Wire, Growing
    <2>5. (\A i \in DOMAIN events : events[i].serial > received.serial)'
      BY <1>1, <1>2, <1>3, <1>4, <1>8 DEF Wire, Growing
    <2>6. (\A i, j \in DOMAIN events : i < j => events[i].serial < events[j].serial)'
      BY <1>1, <1>3, <1>4, <1>5, <1>8, <2>1 DEF Wire, Growing
    <2> QED BY <2>2, <2>3, <2>4, <2>5, <2>6 DEF Growing
  <1>10. Remembered'
    BY <1>1, <1>2, <1>5, <1>6, <1>7 DEF Wire, Remembered
  <1>11. AcksFind'
    BY <1>1, <1>2, <1>5, <1>6 DEF Wire, AcksFind, IsAck, NoAck
  <1>12. BuffersFit'
    <2> SUFFICES ASSUME NEW j \in DOMAIN requests, requests[j].op = "attach", Live(j)
                 PROVE  /\ NoAck(1, j - 1) => requests[j].size = acked /\ acked # NoSize
                        /\ \A i \in 1..(j - 1) : IsAck(i) /\ NoAck(i + 1, j - 1) =>
                              \E k \in DOMAIN configures' :
                                 /\ configures'[k].serial = requests[i].serial
                                 /\ configures'[k].size = requests[j].size
      BY <1>2 DEF BuffersFit, Live, NoAck, IsAck
    <2> QED BY <1>5 DEF Wire, BuffersFit
  <1> QED BY <1>9, <1>10, <1>11, <1>12 DEF Wire

(* The domains of what Wire speaks of, and the serials in them.             *)
LEMMA WireShape ==
  ASSUME TypeOK
  PROVE  /\ DOMAIN configures = 1..Len(configures) /\ Len(configures) \in Nat
         /\ DOMAIN events = 1..Len(events) /\ Len(events) \in Nat
         /\ DOMAIN requests = 1..Len(requests) /\ Len(requests) \in Nat
         /\ serial \in Nat /\ received.serial \in Nat /\ agreed.serial \in Nat
         /\ \A k \in DOMAIN configures : configures[k].serial \in Nat /\ configures[k].size \in OutputSizes
         /\ \A k \in DOMAIN events : events[k].serial \in Nat
         /\ \A j \in DOMAIN requests : IsAck(j) => requests[j].serial \in Nat
  <1>1. /\ \A k \in DOMAIN configures : configures[k] \in Configure
        /\ \A k \in DOMAIN events : events[k] \in Configure
        /\ \A j \in DOMAIN requests : requests[j] \in Request
    BY DEF TypeOK
  <1>2. /\ \A k \in DOMAIN configures : configures[k].serial \in Nat /\ configures[k].size \in OutputSizes
        /\ \A k \in DOMAIN events : events[k].serial \in Nat
    BY <1>1 DEF Configure
  <1>3. \A j \in DOMAIN requests : IsAck(j) => requests[j].serial \in Nat
    BY <1>1, Requests, SurfaceAssumption DEF IsAck, SurfaceAssumption
  <1>4. serial \in Nat /\ received.serial \in Nat /\ agreed.serial \in Nat
    BY SurfaceAssumption DEF TypeOK, Configure, NoConfigure, SurfaceAssumption
  <1> QED BY <1>2, <1>3, <1>4 DEF TypeOK

(* The client takes a configure off the wire.                               *)
LEMMA WireReceive ==
  ASSUME TypeOK, Wire, Receive
  PROVE  Wire'
  <1> USE DEF roleVars
  <1>1. /\ UNCHANGED <<serial, configures, acked, requests, agreed>>
        /\ received' = events[1] /\ events' = Tail(events) /\ events # <<>>
    BY DEF Receive
  <1>2. /\ Len(events') = Len(events) - 1 /\ Len(events) \in Nat \ {0}
        /\ \A i \in 1..(Len(events) - 1) : events'[i] = events[i + 1]
        /\ DOMAIN events' = 1..(Len(events) - 1)
    BY <1>1, MovesUp DEF TypeOK
  <1>6. /\ 1 \in DOMAIN events
        /\ \A i \in DOMAIN events' : i + 1 \in DOMAIN events /\ 1 < i + 1 /\ events'[i] = events[i + 1]
        /\ \A i, j \in DOMAIN events' : i < j => i + 1 < j + 1
    BY <1>2, WireShape
  <1>7. Growing /\ Remembered
    BY DEF Wire
  <1>8. /\ events[1].serial <= serial /\ events[1].serial > received.serial
        /\ Waits(events[1]) /\ events[1].serial > agreed.serial
    <2>1. Waits(events[1]) /\ events[1].serial > received.serial /\ agreed.serial <= received.serial
      BY <1>6, <1>7 DEF Growing, Remembered
    <2>2. events[1].serial <= serial
      BY <1>7, <2>1 DEF Growing, Waits
    <2>3. agreed.serial \in Nat /\ received.serial \in Nat /\ events[1].serial \in Nat
      BY <1>6, WireShape
    <2>4. events[1].serial > agreed.serial
      BY <2>1, <2>3
    <2> QED BY <2>1, <2>2, <2>4
  <1>9. agreed.serial < events[1].serial /\ agreed.serial <= events[1].serial
    <2>1. agreed.serial \in Nat /\ events[1].serial \in Nat
      BY <1>6, WireShape
    <2> QED BY <1>8, <2>1
  <1>3. Growing'
    <2>2. \A i \in DOMAIN events' : events'[i].serial > events[1].serial
      <3> SUFFICES ASSUME NEW i \in DOMAIN events' PROVE events[1].serial < events[i + 1].serial
        BY <1>6, WireShape
      <3> QED BY <1>6, <1>7 DEF Growing
    <2>3. \A i, j \in DOMAIN events' : i < j => events'[i].serial < events'[j].serial
      <3> SUFFICES ASSUME NEW i \in DOMAIN events', NEW j \in DOMAIN events', i < j
                   PROVE  events[i + 1].serial < events[j + 1].serial
        BY <1>6
      <3> QED BY <1>6, <1>7 DEF Growing
    <2>5. events'= Tail(events) /\ received' = events[1] /\ UNCHANGED <<serial, configures, agreed>>
      BY <1>1
    <2> QED BY <1>7, <1>8, <1>9, <2>2, <2>3, <2>5 DEF Growing
  <1>4. Remembered'
    <2>1. \A c : Waits(c)' <=> Waits(c)
      BY <1>1 DEF Waits
    <2>2. \A i \in DOMAIN events' : Waits(events'[i])
      BY <1>6, <1>7 DEF Remembered
    <2> QED BY <1>1, <1>8, <1>9, <2>1, <2>2 DEF Remembered
  <1>5. AcksFind' /\ BuffersFit'
    BY <1>1 DEF Wire, AcksFind, BuffersFit, Waits, IsAck, NoAck, Live
  <1> QED BY <1>3, <1>4, <1>5 DEF Wire

(* A request that is neither an acknowledgement nor the end of the role is  *)
(* taken off the wire.                                                      *)
LEMMA WireTakesOther ==
  ASSUME TypeOK, Wire, NEW op \in {"attach", "commit"}, Take(op),
         UNCHANGED <<serial, configures, acked, events, received, agreed>>
  PROVE  Wire'
  <1>1. /\ requests # <<>> /\ requests' = Tail(requests) /\ requests[1].op = op
    BY DEF Take
  <1>2. /\ Len(requests') = Len(requests) - 1 /\ Len(requests) \in Nat \ {0}
        /\ \A j \in 1..(Len(requests) - 1) : requests'[j] = requests[j + 1]
        /\ DOMAIN requests' = 1..(Len(requests) - 1)
    BY <1>1, MovesUp DEF TypeOK
  <1>3. Growing' /\ Remembered'
    BY DEF Wire, Growing, Remembered, Waits
  <1>4. /\ \A j \in 1..(Len(requests) - 1) : IsAck(j)' <=> IsAck(j + 1)
        /\ ~IsAck(1)
    BY <1>1, <1>2 DEF IsAck
  <1>5. AcksFind'
    <2>0. /\ \A j \in DOMAIN requests' : j + 1 \in DOMAIN requests /\ requests'[j] = requests[j + 1]
                                         /\ (IsAck(j)' <=> IsAck(j + 1))
          /\ \A i, j \in DOMAIN requests' : i < j => i + 1 < j + 1
      BY <1>2, <1>4, WireShape
    <2>1. \A j \in DOMAIN requests' : IsAck(j)' =>
              /\ \E k \in DOMAIN configures : configures[k].serial = requests'[j].serial
              /\ requests'[j].serial <= agreed.serial
      BY <2>0 DEF Wire, AcksFind
    <2>2. \A i, j \in DOMAIN requests' :
             i < j /\ IsAck(i)' /\ IsAck(j)' => requests'[i].serial < requests'[j].serial
      <3> SUFFICES ASSUME NEW i \in DOMAIN requests', NEW j \in DOMAIN requests', i < j,
                          IsAck(i + 1), IsAck(j + 1)
                   PROVE  requests[i + 1].serial < requests[j + 1].serial
        BY <2>0
      <3> QED BY <2>0 DEF Wire, AcksFind
    <2>3. \A j \in DOMAIN requests' :
             IsAck(j)' /\ (NoAck(j + 1, Len(requests)))' =>
                requests'[j].serial = agreed.serial /\ Waits(agreed)
      <3> SUFFICES ASSUME NEW j \in DOMAIN requests', IsAck(j)', (NoAck(j + 1, Len(requests)))'
                   PROVE  requests'[j].serial = agreed.serial /\ Waits(agreed)
        OBVIOUS
      <3>1. NoAck(j + 2, Len(requests))
        <4> SUFFICES ASSUME NEW h \in (j + 2)..Len(requests) PROVE ~IsAck(h)
          BY DEF NoAck
        <4>1. h - 1 \in (j + 1)..Len(requests') /\ h - 1 \in 1..(Len(requests) - 1)
          BY <1>2
        <4>2. ~IsAck(h - 1)'
          BY <4>1 DEF NoAck
        <4> QED BY <1>2, <1>4, <4>1, <4>2
      <3>2. j + 1 \in DOMAIN requests /\ IsAck(j + 1) /\ (j + 1) + 1 = j + 2
        BY <1>2, <1>4, WireShape
      <3> QED BY <1>2, <3>1, <3>2 DEF Wire, AcksFind
    <2>4. (NoAck(1, Len(requests)))' /\ agreed # NoConfigure => acked = agreed.size /\ acked # NoSize
      <3> SUFFICES ASSUME (NoAck(1, Len(requests)))' PROVE NoAck(1, Len(requests))
        BY DEF Wire, AcksFind
      <3> SUFFICES ASSUME NEW h \in 1..Len(requests), h # 1 PROVE ~IsAck(h)
        BY <1>4 DEF NoAck
      <3>1. h - 1 \in 1..Len(requests') /\ h - 1 \in 1..(Len(requests) - 1)
        BY <1>2
      <3>2. ~IsAck(h - 1)'
        BY <3>1 DEF NoAck
      <3> QED BY <1>2, <1>4, <3>1, <3>2
    <2> QED BY <2>1, <2>2, <2>3, <2>4 DEF AcksFind, Waits
  <1>6. BuffersFit'
    <2> SUFFICES ASSUME NEW j \in DOMAIN requests', requests'[j].op = "attach", Live(j)'
                 PROVE  /\ NoAck(1, j - 1)' => requests'[j].size = acked /\ acked # NoSize
                        /\ \A i \in 1..(j - 1) : IsAck(i)' /\ NoAck(i + 1, j - 1)' =>
                              \E k \in DOMAIN configures :
                                 /\ configures[k].serial = requests'[i].serial
                                 /\ configures[k].size = requests'[j].size
      BY DEF BuffersFit
    <2>1. j + 1 \in DOMAIN requests /\ requests[j + 1] = requests'[j] /\ j \in 1..(Len(requests) - 1)
      BY <1>2, WireShape
    <2>2. Live(j + 1)
      <3> SUFFICES ASSUME NEW h \in 1..j, h # 1 PROVE requests[h].op # "destroy"
        BY <1>1, <2>1 DEF Live
      <3>1. h - 1 \in 1..(j - 1) /\ h - 1 \in 1..(Len(requests) - 1)
        BY <2>1
      <3>2. requests'[h - 1] = requests[h]
        BY <1>2, <3>1
      <3> QED BY <3>1, <3>2 DEF Live
    <2>3. NoAck(1, j - 1)' => NoAck(1, (j + 1) - 1)
      <3> SUFFICES ASSUME NoAck(1, j - 1)', NEW h \in 1..j, h # 1 PROVE ~IsAck(h)
        BY <1>4, <2>1 DEF NoAck
      <3>1. h - 1 \in 1..(j - 1) /\ h - 1 \in 1..(Len(requests) - 1) /\ (h - 1) + 1 = h
        BY <2>1
      <3> QED BY <1>4, <3>1 DEF NoAck
    <2>4. ASSUME NEW i \in 1..(j - 1), IsAck(i)', NoAck(i + 1, j - 1)'
          PROVE  /\ i + 1 \in 1..((j + 1) - 1) /\ IsAck(i + 1) /\ NoAck((i + 1) + 1, (j + 1) - 1)
                 /\ requests'[i] = requests[i + 1]
      <3>1. i \in 1..(Len(requests) - 1) /\ i + 1 \in 1..((j + 1) - 1)
        BY <2>1
      <3>2. NoAck((i + 1) + 1, (j + 1) - 1)
        <4> SUFFICES ASSUME NEW h \in (i + 2)..j PROVE ~IsAck(h)
          BY <2>1 DEF NoAck
        <4>1. h - 1 \in (i + 1)..(j - 1) /\ h - 1 \in 1..(Len(requests) - 1) /\ (h - 1) + 1 = h
          BY <2>1, <3>1
        <4> QED BY <1>4, <2>4, <4>1 DEF NoAck
      <3> QED BY <1>2, <1>4, <2>4, <3>1, <3>2
    <2> QED BY <2>1, <2>2, <2>3, <2>4 DEF Wire, BuffersFit
  <1> QED BY <1>3, <1>5, <1>6 DEF Wire

(* The acknowledgement finds its configure; the ones popped with it are     *)
(* older than every configure that anyone still waits for.                  *)
LEMMA WireAck ==
  ASSUME TypeOK, Wire, ~Exempt, AckConfigure
  PROVE  Wire' /\ UNCHANGED killed
  <1> DEFINE s == requests[1].serial
             a == Acknowledged(s)
             Later(c) == \E k \in DOMAIN configures' : configures'[k] = c
  <1> USE DEF clientVars
  <1>1. /\ requests # <<>> /\ requests' = Tail(requests) /\ requests[1].op = "ack"
        /\ Head(requests) = requests[1]
    BY MovesUp DEF AckConfigure, Take, TypeOK
  <1>2. /\ Len(requests') = Len(requests) - 1 /\ Len(requests) \in Nat \ {0}
        /\ DOMAIN requests' = 1..(Len(requests) - 1) /\ DOMAIN requests = 1..Len(requests)
        /\ \A j \in 1..(Len(requests) - 1) : requests'[j] = requests[j + 1]
    BY <1>1, MovesUp DEF TypeOK
  <1>3. /\ 1 \in DOMAIN requests /\ IsAck(1)
        /\ \A j \in DOMAIN requests' : /\ j + 1 \in DOMAIN requests /\ requests'[j] = requests[j + 1]
                                       /\ IsAck(j)' <=> IsAck(j + 1)
                                       /\ 1 < j + 1
        /\ \A i, j \in DOMAIN requests' : i < j => i + 1 < j + 1
    BY <1>1, <1>2 DEF IsAck
  <1>4. Acks(s) /\ s <= agreed.serial /\ s \in Nat
    BY <1>3, WireShape DEF Wire, AcksFind, Acks
  <1>5. /\ acked' = SizeOf(s) /\ configures' = Newer(s) /\ UNCHANGED killed
        /\ UNCHANGED <<serial, closed, resource, events, received, agreed>>
    BY <1>1, <1>4 DEF AckConfigure, Exempt
  <1>6. /\ a \in 1..Len(configures) /\ a \in DOMAIN configures /\ a \in Nat
        /\ configures[a].serial = s /\ SizeOf(s) = configures[a].size /\ SizeOf(s) \in OutputSizes
        /\ Len(configures') = Len(configures) - a /\ Len(configures) \in Nat
        /\ DOMAIN configures' = 1..(Len(configures) - a)
        /\ \A k \in 1..(Len(configures) - a) : configures'[k] = configures[a + k]
    BY <1>4, <1>5, AckedConfigure DEF SizeOf
  <1>7. /\ \A k \in DOMAIN configures' : a + k \in DOMAIN configures /\ configures'[k] = configures[a + k]
        /\ \A k, l \in DOMAIN configures' : k < l => a + k < a + l
    <2> HIDE DEF a
    <2>1. DOMAIN configures = 1..Len(configures)
      BY WireShape
    <2> QED BY <1>6, <2>1
  <1>8. \A k \in DOMAIN configures : configures[k].serial = s => k = a
    <2> SUFFICES ASSUME NEW k \in DOMAIN configures, configures[k].serial = s, k # a PROVE FALSE
      OBVIOUS
    <2>1. k < a \/ a < k
      BY <1>6
    <2>2. ~(s < s)
      BY <1>4
    <2> QED BY <1>6, <2>1, <2>2 DEF Wire, Growing
  <1>9. \A k \in DOMAIN configures : s < configures[k].serial =>
           k - a \in DOMAIN configures' /\ configures'[k - a] = configures[k]
    <2> SUFFICES ASSUME NEW k \in DOMAIN configures, s < configures[k].serial
                 PROVE  k - a \in DOMAIN configures' /\ configures'[k - a] = configures[k]
      OBVIOUS
    <2>0. ASSUME a < k
          PROVE  k - a \in DOMAIN configures' /\ configures'[k - a] = configures[k]
      <3> HIDE DEF a, s
      <3>1. /\ k \in 1..Len(configures) /\ k - a \in 1..(Len(configures) - a) /\ a + (k - a) = k
        BY <1>6, WireShape, <2>0
      <3>2. configures'[k - a] = configures[a + (k - a)]
        BY <1>6, <3>1
      <3> QED BY <1>6, <3>1, <3>2
    <2>1. k \in Nat /\ configures[k].serial \in Nat
      BY WireShape
    <2>2. k < a => configures[k].serial < s
      BY <1>6 DEF Wire, Growing
    <2>3. k # a
      BY <1>4, <1>6
    <2>4. a < k
      BY <1>4, <1>6, <2>1, <2>2, <2>3
    <2> QED BY <2>0, <2>4
  <1>10. \A c : Waits(c) /\ s < c.serial => Later(c)
    BY <1>9 DEF Waits
  <1>11. \A j \in DOMAIN requests' : IsAck(j)' => s < requests'[j].serial
    BY <1>3 DEF Wire, AcksFind
  <1>12. Growing'
    <2>1. \A k \in DOMAIN configures' : configures'[k].serial <= serial
      BY <1>7 DEF Wire, Growing
    <2>2. \A k, l \in DOMAIN configures' : k < l => configures'[k].serial < configures'[l].serial
      <3> SUFFICES ASSUME NEW k \in DOMAIN configures', NEW l \in DOMAIN configures', k < l
                   PROVE  configures[a + k].serial < configures[a + l].serial
        BY <1>7
      <3> QED BY <1>7 DEF Wire, Growing
    <2> QED BY <1>5, <2>1, <2>2 DEF Wire, Growing
  <1>13. Remembered'
    <2>1. \A i \in DOMAIN events : Later(events[i])
      <3> SUFFICES ASSUME NEW i \in DOMAIN events PROVE s < events[i].serial /\ Waits(events[i])
        BY <1>10
      <3>1. events[i].serial > received.serial /\ agreed.serial <= received.serial /\ Waits(events[i])
        BY DEF Wire, Growing, Remembered
      <3>2. events[i].serial \in Nat /\ received.serial \in Nat /\ agreed.serial \in Nat
        BY WireShape
      <3> QED BY <1>4, <3>1, <3>2
    <2>2. ASSUME agreed # received PROVE agreed.serial < received.serial /\ Later(received)
      <3>1. agreed.serial < received.serial /\ Waits(received)
        BY <2>2 DEF Wire, Remembered
      <3>2. s < received.serial
        BY <1>4, <3>1, WireShape
      <3> QED BY <1>10, <3>1, <3>2
    <2> QED BY <1>5, <2>1, <2>2 DEF Remembered, Waits
  <1>14. AcksFind'
    <2>1. \A j \in DOMAIN requests' : IsAck(j)' =>
              /\ \E k \in DOMAIN configures' : configures'[k].serial = requests'[j].serial
              /\ requests'[j].serial <= agreed.serial
      <3> SUFFICES ASSUME NEW j \in DOMAIN requests', IsAck(j)'
                   PROVE  /\ \E k \in DOMAIN configures' : configures'[k].serial = requests'[j].serial
                          /\ requests'[j].serial <= agreed.serial
        OBVIOUS
      <3>1. PICK k \in DOMAIN configures : configures[k].serial = requests'[j].serial
        BY <1>3 DEF Wire, AcksFind
      <3>2. s < configures[k].serial
        BY <1>11, <3>1
      <3> QED BY <1>3, <1>9, <3>1, <3>2 DEF Wire, AcksFind
    <2>2. \A i, j \in DOMAIN requests' :
             i < j /\ IsAck(i)' /\ IsAck(j)' => requests'[i].serial < requests'[j].serial
      <3> SUFFICES ASSUME NEW i \in DOMAIN requests', NEW j \in DOMAIN requests', i < j,
                          IsAck(i + 1), IsAck(j + 1)
                   PROVE  requests[i + 1].serial < requests[j + 1].serial
        BY <1>3
      <3> QED BY <1>3 DEF Wire, AcksFind
    <2>3. \A j \in DOMAIN requests' :
             IsAck(j)' /\ (NoAck(j + 1, Len(requests)))' =>
                requests'[j].serial = agreed.serial /\ Later(agreed)
      <3> SUFFICES ASSUME NEW j \in DOMAIN requests', IsAck(j)', (NoAck(j + 1, Len(requests)))'
                   PROVE  requests'[j].serial = agreed.serial /\ Later(agreed)
        OBVIOUS
      <3>1. NoAck((j + 1) + 1, Len(requests))
        <4> SUFFICES ASSUME NEW h \in (j + 2)..Len(requests) PROVE ~IsAck(h)
          BY <1>2 DEF NoAck
        <4>1. h - 1 \in (j + 1)..Len(requests') /\ h - 1 \in DOMAIN requests' /\ (h - 1) + 1 = h
          BY <1>2
        <4> QED BY <1>3, <4>1 DEF NoAck
      <3>2. requests[j + 1].serial = agreed.serial /\ Waits(agreed)
        BY <1>3, <3>1 DEF Wire, AcksFind
      <3>3. s < agreed.serial
        BY <1>3, <1>11, <3>2
      <3> QED BY <1>3, <1>10, <3>2, <3>3
    <2>4. (NoAck(1, Len(requests)))' => acked' = agreed.size /\ acked' # NoSize
      <3> SUFFICES ASSUME (NoAck(1, Len(requests)))' PROVE acked' = agreed.size /\ acked' # NoSize
        OBVIOUS
      <3>1. NoAck(1 + 1, Len(requests))
        <4> SUFFICES ASSUME NEW h \in 2..Len(requests) PROVE ~IsAck(h)
          BY <1>2 DEF NoAck
        <4>1. h - 1 \in 1..Len(requests') /\ h - 1 \in DOMAIN requests' /\ (h - 1) + 1 = h
          BY <1>2
        <4> QED BY <1>3, <4>1 DEF NoAck
      <3>2. s = agreed.serial /\ Waits(agreed)
        BY <1>3, <3>1 DEF Wire, AcksFind
      <3>3. configures[a] = agreed
        BY <1>8, <3>2 DEF Waits
      <3> QED BY <1>5, <1>6, <3>3, SurfaceAssumption DEF SurfaceAssumption
    <2> QED BY <1>5, <2>1, <2>2, <2>3, <2>4 DEF AcksFind, Waits
  <1>15. BuffersFit'
    <2> SUFFICES ASSUME NEW j \in DOMAIN requests', requests'[j].op = "attach", Live(j)'
                 PROVE  /\ NoAck(1, j - 1)' => requests'[j].size = acked' /\ acked' # NoSize
                        /\ \A i \in 1..(j - 1) : IsAck(i)' /\ NoAck(i + 1, j - 1)' =>
                              \E k \in DOMAIN configures' :
                                 /\ configures'[k].serial = requests'[i].serial
                                 /\ configures'[k].size = requests'[j].size
      BY DEF BuffersFit
    <2>1. j + 1 \in DOMAIN requests /\ requests[j + 1] = requests'[j] /\ j \in 1..(Len(requests) - 1)
      BY <1>2
    <2>2. Live(j + 1)
      <3> SUFFICES ASSUME NEW h \in 1..j, h # 1 PROVE requests[h].op # "destroy"
        BY <1>1, <2>1 DEF Live
      <3>1. h - 1 \in 1..(j - 1) /\ h - 1 \in 1..(Len(requests) - 1) /\ (h - 1) + 1 = h
        BY <2>1
      <3>2. requests'[h - 1] = requests[h]
        BY <1>2, <3>1
      <3> QED BY <3>1, <3>2 DEF Live
    <2>3. ASSUME NEW i \in 0..(j - 1), NoAck(i + 1, j - 1)'
          PROVE  NoAck((i + 1) + 1, (j + 1) - 1)
      <3> SUFFICES ASSUME NEW h \in (i + 2)..j PROVE ~IsAck(h)
        BY <2>1 DEF NoAck
      <3>1. h - 1 \in (i + 1)..(j - 1) /\ h - 1 \in DOMAIN requests' /\ (h - 1) + 1 = h
        BY <1>2, <2>1
      <3> QED BY <1>3, <2>3, <3>1 DEF NoAck
    <2>4. ASSUME NoAck(1, j - 1)' PROVE requests'[j].size = acked' /\ acked' # NoSize
      <3>1. NoAck(1 + 1, (j + 1) - 1) /\ 1 \in 1..((j + 1) - 1)
        <4>1. 0 \in 0..(j - 1) /\ 0 + 1 = 1
          BY <2>1
        <4> QED BY <2>1, <2>3, <2>4, <4>1
      <3>2. PICK k \in DOMAIN configures : configures[k].serial = s /\ configures[k].size = requests[j + 1].size
        BY <1>3, <2>1, <2>2, <3>1 DEF Wire, BuffersFit
      <3> QED BY <1>5, <1>6, <1>8, <2>1, <3>2, SurfaceAssumption DEF SurfaceAssumption
    <2>5. ASSUME NEW i \in 1..(j - 1), IsAck(i)', NoAck(i + 1, j - 1)'
          PROVE  \E k \in DOMAIN configures' :
                    configures'[k].serial = requests'[i].serial /\ configures'[k].size = requests'[j].size
      <3>1. i \in DOMAIN requests' /\ i + 1 \in 1..((j + 1) - 1) /\ i \in 0..(j - 1)
        BY <1>2, <2>1
      <3>2. NoAck((i + 1) + 1, (j + 1) - 1) /\ IsAck(i + 1)
        BY <1>3, <2>3, <2>5, <3>1
      <3>3. PICK k \in DOMAIN configures :
               configures[k].serial = requests[i + 1].serial /\ configures[k].size = requests[j + 1].size
        BY <2>1, <2>2, <3>1, <3>2 DEF Wire, BuffersFit
      <3>4. s < configures[k].serial /\ requests'[i] = requests[i + 1]
        BY <1>3, <1>11, <2>5, <3>1, <3>3
      <3> QED BY <1>9, <2>1, <3>3, <3>4
    <2> QED BY <2>4, <2>5
  <1> QED BY <1>5, <1>12, <1>13, <1>14, <1>15 DEF Wire

(* Commits taken off the wire: the buffer fits what was acknowledged.       *)
LEMMA WireCommit ==
  ASSUME TypeOK, Wire, ~Exempt, CommitAttached \/ CommitEmpty
  PROVE  Wire' /\ UNCHANGED killed
  <1> USE DEF clientVars
  <1>1. CASE CommitAttached
    <2>1. Take("attach") /\ UNCHANGED <<serial, configures, acked, events, received, agreed>>
      BY <1>1 DEF CommitAttached
    <2>2. Head(requests).size = acked /\ acked # NoSize
      <3>1. 1 \in DOMAIN requests /\ Head(requests) = requests[1] /\ requests[1].op = "attach"
        BY <2>1, MovesUp DEF Take, TypeOK
      <3>2. Live(1) /\ NoAck(1, 1 - 1)
        BY DEF Live, NoAck
      <3> QED BY <3>1, <3>2 DEF Wire, BuffersFit
    <2>3. Wire'
      BY <2>1, WireTakesOther
    <2>4. ~killed /\ killed = FALSE
      BY <2>1 DEF Take, TypeOK
    <2>5. killed' = FALSE
      BY <1>1, <2>2, <2>4 DEF CommitAttached, Fits
    <2> QED BY <2>3, <2>4, <2>5
  <1>2. CASE CommitEmpty
    <2>1. /\ Take("commit") /\ UNCHANGED killed
          /\ UNCHANGED <<serial, configures, acked, events, received, agreed>>
      BY <1>2 DEF CommitEmpty
    <2> QED BY <2>1, WireTakesOther
  <1> QED BY <1>1, <1>2

(* Requests put on the wire: those before them stay where they are.         *)
LEMMA Sent ==
  ASSUME NEW S, NEW q \in Seq(S), NEW r \in S, NEW e \in S
  PROVE  /\ q \o <<r>> \in Seq(S) /\ Len(q \o <<r>>) = Len(q) + 1
         /\ \A j \in 1..Len(q) : (q \o <<r>>)[j] = q[j]
         /\ (q \o <<r>>)[Len(q) + 1] = r
         /\ q \o <<r, e>> \in Seq(S) /\ Len(q \o <<r, e>>) = Len(q) + 2
         /\ \A j \in 1..Len(q) : (q \o <<r, e>>)[j] = q[j]
         /\ (q \o <<r, e>>)[Len(q) + 1] = r
         /\ (q \o <<r, e>>)[Len(q) + 2] = e
         /\ Len(q) \in Nat
  OBVIOUS

(* What is appended disturbs nothing that is said of the requests before.   *)
LEMMA Before ==
  ASSUME NEW n \in Nat, \A j \in 1..n : requests'[j] = requests[j]
  PROVE  /\ \A j \in 1..n : (IsAck(j)' <=> IsAck(j)) /\ (Live(j)' <=> Live(j))
         /\ \A j \in 1..n : \A i \in 0..n : NoAck(i, j - 1)' /\ 1 <= i => NoAck(i, j - 1)
         /\ \A i \in 1..(n + 1) : NoAck(i, n)' <=> NoAck(i, n)
  <1>1. \A j \in 1..n : IsAck(j)' <=> IsAck(j)
    BY DEF IsAck
  <1>2. ASSUME NEW j \in 1..n PROVE Live(j)' <=> Live(j)
    BY DEF Live
  <1>3. ASSUME NEW j \in 1..n, NEW i \in 0..n, NoAck(i, j - 1)', 1 <= i PROVE NoAck(i, j - 1)
    BY <1>1, <1>3 DEF NoAck
  <1>4. ASSUME NEW i \in 1..(n + 1) PROVE NoAck(i, n)' <=> NoAck(i, n)
    BY <1>1 DEF NoAck
  <1> QED BY <1>1, <1>2, <1>3, <1>4

(* Requests are put on the wire: no acknowledgements, and of the buffers    *)
(* among them only ones that fit the last acknowledgement, or that the end  *)
(* of the role precedes.                                                    *)
LEMMA WireSendsOther ==
  ASSUME TypeOK, Wire, NEW n \in Nat, n = Len(requests),
         NEW m \in Nat, n <= m, DOMAIN requests' = 1..m, Len(requests') = m,
         \A j \in 1..n : requests'[j] = requests[j],
         \A j \in (n + 1)..m : requests'[j].op # "ack",
         \A j \in (n + 1)..m : requests'[j].op = "attach" /\ Live(j)' =>
            agreed # NoConfigure /\ requests'[j].size = agreed.size,
         UNCHANGED <<serial, configures, acked, events, received, agreed>>
  PROVE  Wire'
  <1>1. DOMAIN requests = 1..n
    BY DEF TypeOK
  <1>2. \A j \in (n + 1)..m : ~IsAck(j)'
    BY DEF IsAck
  <1>3. /\ \A j \in 1..n : (IsAck(j)' <=> IsAck(j)) /\ (Live(j)' <=> Live(j))
        /\ \A j \in 1..n : \A i \in 0..n : NoAck(i, j - 1)' /\ 1 <= i => NoAck(i, j - 1)
        /\ \A i \in 1..(n + 1) : NoAck(i, n)' <=> NoAck(i, n)
    BY Before
  <1>4. Growing' /\ Remembered'
    BY DEF Wire, Growing, Remembered, Waits
  <1>5. ASSUME NEW i \in 1..(n + 1), NEW h \in n..m, NoAck(i, h)' PROVE NoAck(i, n)
    <2> SUFFICES ASSUME NEW g \in i..n PROVE ~IsAck(g)
      BY DEF NoAck
    <2>1. g \in 1..n /\ g \in i..h
      OBVIOUS
    <2> QED BY <1>3, <1>5, <2>1 DEF NoAck
  <1>6. AcksFind'
    <2>1. \A j \in DOMAIN requests' : IsAck(j)' => j \in 1..n /\ IsAck(j) /\ requests'[j] = requests[j]
      BY <1>2, <1>3
    <2>2. \A i \in 1..(n + 1) : (NoAck(i, Len(requests)))' => NoAck(i, n)
      BY <1>5
    <2>3. ASSUME NEW j \in DOMAIN requests', IsAck(j)', (NoAck(j + 1, Len(requests)))'
          PROVE  requests'[j].serial = agreed.serial /\ Waits(agreed)
      <3>1. j \in 1..n /\ NoAck(j + 1, n)
        BY <2>1, <2>2, <2>3
      <3> QED BY <1>1, <2>1, <2>3, <3>1 DEF Wire, AcksFind
    <2>4. (NoAck(1, Len(requests)))' /\ agreed # NoConfigure => acked = agreed.size /\ acked # NoSize
      BY <2>2 DEF Wire, AcksFind
    <2>5. \A j \in DOMAIN requests' : IsAck(j)' =>
             /\ \E k \in DOMAIN configures : configures[k].serial = requests'[j].serial
             /\ requests'[j].serial <= agreed.serial
      BY <1>1, <2>1 DEF Wire, AcksFind
    <2>6. \A i, j \in DOMAIN requests' :
             i < j /\ IsAck(i)' /\ IsAck(j)' => requests'[i].serial < requests'[j].serial
      BY <1>1, <2>1 DEF Wire, AcksFind
    <2> QED BY <2>3, <2>4, <2>5, <2>6 DEF AcksFind, Waits
  <1>7. BuffersFit'
    <2> SUFFICES ASSUME NEW j \in DOMAIN requests', requests'[j].op = "attach", Live(j)'
                 PROVE  /\ NoAck(1, j - 1)' => requests'[j].size = acked /\ acked # NoSize
                        /\ \A i \in 1..(j - 1) : IsAck(i)' /\ NoAck(i + 1, j - 1)' =>
                              \E k \in DOMAIN configures :
                                 /\ configures[k].serial = requests'[i].serial
                                 /\ configures[k].size = requests'[j].size
      BY DEF BuffersFit
    <2>1. CASE j \in 1..n
      <3>1. NoAck(1, j - 1)' => NoAck(1, j - 1)
        BY <1>3, <2>1
      <3>2. ASSUME NEW i \in 1..(j - 1), IsAck(i)', NoAck(i + 1, j - 1)'
            PROVE  IsAck(i) /\ NoAck(i + 1, j - 1) /\ requests'[i] = requests[i]
        <4>1. i \in 1..n /\ i + 1 \in 0..n /\ 1 <= i + 1
          BY <2>1
        <4> QED BY <1>3, <2>1, <3>2, <4>1
      <3>3. j \in DOMAIN requests /\ requests[j].op = "attach" /\ Live(j) /\ requests'[j] = requests[j]
        BY <1>1, <1>3, <2>1
      <3> QED BY <3>1, <3>2, <3>3 DEF Wire, BuffersFit
    <2>2. CASE j \in (n + 1)..m
      <3>1. /\ agreed # NoConfigure /\ requests'[j].size = agreed.size
            /\ j - 1 \in n..m /\ 1 \in 1..(n + 1)
        BY <2>2
      <3>2. NoAck(1, j - 1)' => agreed.size = acked /\ acked # NoSize
        BY <1>5, <3>1 DEF Wire, AcksFind
      <3>3. ASSUME NEW i \in 1..(j - 1), IsAck(i)', NoAck(i + 1, j - 1)'
            PROVE  requests'[i].serial = agreed.serial /\ Waits(agreed)
        <4>1. i \in 1..n /\ i + 1 \in 1..(n + 1)
          BY <1>2, <2>2, <3>3
        <4>2. IsAck(i) /\ NoAck(i + 1, n) /\ requests'[i] = requests[i]
          BY <1>3, <1>5, <3>1, <3>3, <4>1
        <4> QED BY <1>1, <4>1, <4>2 DEF Wire, AcksFind
      <3>4. ASSUME NEW i \in 1..(j - 1), IsAck(i)', NoAck(i + 1, j - 1)'
            PROVE  \E k \in DOMAIN configures : /\ configures[k].serial = requests'[i].serial
                                                /\ configures[k].size = requests'[j].size
        BY <3>1, <3>3, <3>4 DEF Waits
      <3> QED BY <3>1, <3>2, <3>4
    <2> QED BY <2>1, <2>2
  <1> QED BY <1>4, <1>6, <1>7 DEF Wire

(* An acknowledgement of the last configure received and a buffer of its    *)
(* size are put on the wire.                                                *)
LEMMA WireDraw ==
  ASSUME TypeOK, Wire, PoliteDraw
  PROVE  Wire'
  <1> USE DEF roleVars
  <1>0. PICK n \in Nat : n = Len(requests)
    BY DEF TypeOK
  <1>1. PICK ack \in Request, buffer \in Request :
           /\ requests' = requests \o <<ack, buffer>>
           /\ ack.op = "ack" /\ ack.serial = received.serial
           /\ buffer.op = "attach" /\ buffer.size = received.size
    <2>1. received.serial \in 0..MaxSerial /\ received.size \in OutputSizes \cup {NoSize}
      BY SurfaceAssumption DEF TypeOK, Configure, NoConfigure, SurfaceAssumption
    <2>2. /\ [op |-> "ack", serial |-> received.serial] \in Request
          /\ [op |-> "attach", size |-> received.size] \in Request
      BY <2>1, Requests
    <2> QED BY <2>2 DEF PoliteDraw, Send
  <1>2. /\ UNCHANGED <<serial, configures, acked, events, received>>
        /\ agreed' = received /\ received # agreed
    BY DEF PoliteDraw, Send
  <1>3. /\ DOMAIN requests = 1..n /\ DOMAIN requests' = 1..(n + 2) /\ Len(requests') = n + 2
        /\ \A j \in 1..n : requests'[j] = requests[j]
        /\ requests'[n + 1] = ack /\ requests'[n + 2] = buffer
    BY <1>0, <1>1, Sent DEF TypeOK
  <1>4. /\ IsAck(n + 1)' /\ ~IsAck(n + 2)'
    BY <1>1, <1>3 DEF IsAck
  <1>5. /\ \A j \in 1..n : (IsAck(j)' <=> IsAck(j)) /\ (Live(j)' <=> Live(j))
        /\ \A j \in 1..n : \A i \in 0..n : NoAck(i, j - 1)' /\ 1 <= i => NoAck(i, j - 1)
    BY <1>3, Before
  <1>6. /\ agreed.serial < received.serial /\ Waits(received)
        /\ agreed.serial \in Nat /\ received.serial \in Nat
    BY <1>2, WireShape DEF Wire, Remembered
  <1>7. Growing' /\ Remembered'
    BY <1>2, <1>6 DEF Wire, Growing, Remembered, Waits
  <1>8. \A j \in DOMAIN requests' : IsAck(j)' =>
           \/ j \in 1..n /\ IsAck(j) /\ requests'[j] = requests[j]
           \/ j = n + 1 /\ requests'[j].serial = received.serial
    BY <1>1, <1>3, <1>4, <1>5
  <1>9. \A i \in 1..(n + 1) : ~NoAck(i, Len(requests))'
    <2> SUFFICES ASSUME NEW i \in 1..(n + 1) PROVE n + 1 \in i..Len(requests')
      BY <1>4 DEF NoAck
    <2> QED BY <1>3
  <1>10. AcksFind'
    <2>1. ASSUME NEW j \in DOMAIN requests', IsAck(j)'
          PROVE  /\ \E k \in DOMAIN configures : configures[k].serial = requests'[j].serial
                 /\ requests'[j].serial <= received.serial
      <3>1. CASE j \in 1..n /\ IsAck(j) /\ requests'[j] = requests[j]
        <4>1. /\ \E k \in DOMAIN configures : configures[k].serial = requests[j].serial
              /\ requests[j].serial <= agreed.serial /\ requests[j].serial \in Nat
          BY <1>3, <3>1, WireShape DEF Wire, AcksFind
        <4> QED BY <1>6, <3>1, <4>1
      <3>2. CASE j = n + 1 /\ requests'[j].serial = received.serial
        BY <1>6, <3>2 DEF Waits
      <3> QED BY <1>8, <2>1, <3>1, <3>2
    <2>2. ASSUME NEW i \in DOMAIN requests', NEW j \in DOMAIN requests', i < j, IsAck(i)', IsAck(j)'
          PROVE  requests'[i].serial < requests'[j].serial
      <3>1. i \in 1..n /\ IsAck(i) /\ requests'[i] = requests[i]
        BY <1>3, <1>8, <2>2
      <3>2. requests[i].serial <= agreed.serial /\ requests[i].serial \in Nat
        BY <1>3, <3>1, WireShape DEF Wire, AcksFind
      <3>3. CASE j \in 1..n /\ IsAck(j) /\ requests'[j] = requests[j]
        BY <1>3, <2>2, <3>1, <3>3 DEF Wire, AcksFind
      <3>4. CASE j = n + 1 /\ requests'[j].serial = received.serial
        BY <1>6, <3>1, <3>2, <3>4
      <3> QED BY <1>8, <2>2, <3>3, <3>4
    <2>3. ASSUME NEW j \in DOMAIN requests', IsAck(j)', (NoAck(j + 1, Len(requests)))'
          PROVE  requests'[j].serial = received.serial /\ Waits(received)
      <3>1. j = n + 1 \/ j + 1 \in 1..(n + 1)
        BY <1>8, <2>3
      <3> QED BY <1>1, <1>3, <1>6, <1>9, <2>3, <3>1
    <2>4. ~NoAck(1, Len(requests))'
      BY <1>9
    <2> QED BY <1>2, <2>1, <2>2, <2>3, <2>4 DEF AcksFind, Waits
  <1>11. BuffersFit'
    <2> SUFFICES ASSUME NEW j \in DOMAIN requests', requests'[j].op = "attach", Live(j)'
                 PROVE  /\ NoAck(1, j - 1)' => requests'[j].size = acked /\ acked # NoSize
                        /\ \A i \in 1..(j - 1) : IsAck(i)' /\ NoAck(i + 1, j - 1)' =>
                              \E k \in DOMAIN configures :
                                 /\ configures[k].serial = requests'[i].serial
                                 /\ configures[k].size = requests'[j].size
      BY <1>2 DEF BuffersFit
    <2>1. CASE j \in 1..n
      <3>1. NoAck(1, j - 1)' => NoAck(1, j - 1)
        BY <1>5, <2>1
      <3>2. \A i \in 1..(j - 1) : IsAck(i)' /\ NoAck(i + 1, j - 1)' =>
               IsAck(i) /\ NoAck(i + 1, j - 1) /\ requests'[i] = requests[i]
        <4> SUFFICES ASSUME NEW i \in 1..(j - 1), IsAck(i)', NoAck(i + 1, j - 1)'
                     PROVE  IsAck(i) /\ NoAck(i + 1, j - 1) /\ requests'[i] = requests[i]
          OBVIOUS
        <4>1. i \in 1..n /\ i + 1 \in 0..n /\ 1 <= i + 1
          BY <2>1
        <4> QED BY <1>3, <1>5, <2>1, <4>1
      <3>3. j \in DOMAIN requests /\ requests[j].op = "attach" /\ Live(j) /\ requests'[j] = requests[j]
        BY <1>3, <1>5, <2>1
      <3> QED BY <3>1, <3>2, <3>3 DEF Wire, BuffersFit
    <2>2. CASE j = n + 2
      <3>1. ~NoAck(1, j - 1)'
        BY <1>4, <2>2 DEF NoAck
      <3>2. ASSUME NEW i \in 1..(j - 1), NoAck(i + 1, j - 1)' PROVE i = n + 1
        <4>1. i = n + 1 \/ n + 1 \in (i + 1)..(j - 1)
          BY <2>2
        <4> QED BY <1>4, <3>2, <4>1 DEF NoAck
      <3> QED BY <1>1, <1>3, <1>6, <2>2, <3>1, <3>2 DEF Waits
    <2>3. CASE j = n + 1
      BY <1>1, <1>3, <2>3
    <2> QED BY <1>3, <2>1, <2>2, <2>3
  <1> QED BY <1>7, <1>10, <1>11 DEF Wire

LEMMA WirePolite ==
  ASSUME TypeOK, Wire, Polite
  PROVE  Wire'
  <1> USE DEF roleVars
  <1>0. PICK n \in Nat : n = Len(requests)
    BY DEF TypeOK
  <1>1. ASSUME NEW r \in Request, requests' = requests \o <<r>>, r.op # "ack",
               r.op = "attach" => agreed # NoConfigure /\ r.size = agreed.size,
               UNCHANGED <<serial, configures, acked, events, received, agreed>>
        PROVE  Wire'
    <2>1. /\ DOMAIN requests' = 1..(n + 1) /\ Len(requests') = n + 1
          /\ \A j \in 1..n : requests'[j] = requests[j]
          /\ requests'[n + 1] = r
      BY <1>0, <1>1, Sent DEF TypeOK
    <2>2. \A j \in (n + 1)..(n + 1) : requests'[j] = r
      BY <2>1
    <2> QED BY <1>0, <1>1, <2>1, <2>2, WireSendsOther
  <1>2. CASE PoliteDraw
    BY <1>2, WireDraw
  <1>3. CASE PoliteRedraw
    <2>1. [op |-> "attach", size |-> agreed.size] \in Request
      BY Requests DEF TypeOK, Configure, NoConfigure
    <2> QED BY <1>1, <1>3, <2>1 DEF PoliteRedraw, Send
  <1>4. CASE PoliteEmpty
    <2>1. [op |-> "commit"] \in Request
      BY Requests
    <2> QED BY <1>1, <1>4, <2>1 DEF PoliteEmpty, Send
  <1>5. CASE PoliteDestroy
    <2>1. PICK destroy \in Request, buffer \in Request :
             /\ requests' = requests \o <<destroy, buffer>>
             /\ destroy.op = "destroy" /\ buffer.op = "attach"
      <3>1. [op |-> "destroy"] \in Request /\ [op |-> "attach", size |-> NoSize] \in Request
        BY Requests
      <3> QED BY <1>5, <3>1 DEF PoliteDestroy, Send
    <2>2. /\ DOMAIN requests' = 1..(n + 2) /\ Len(requests') = n + 2
          /\ \A j \in 1..n : requests'[j] = requests[j]
          /\ requests'[n + 1] = destroy /\ requests'[n + 2] = buffer
      BY <1>0, <2>1, Sent DEF TypeOK
    <2>3. \A j \in (n + 1)..(n + 2) : j = n + 1 \/ j = n + 2
      OBVIOUS
    <2>4. ~Live(n + 2)'
      <3>1. n + 1 \in 1..((n + 2) - 1) /\ requests'[n + 1].op = "destroy"
        BY <2>1, <2>2
      <3> QED BY <3>1 DEF Live
    <2>5. \A j \in (n + 1)..(n + 2) : /\ requests'[j].op # "ack"
                                      /\ ~(requests'[j].op = "attach" /\ Live(j)')
      BY <2>1, <2>2, <2>3, <2>4
    <2>6. UNCHANGED <<serial, configures, acked, events, received, agreed>>
      BY <1>5 DEF PoliteDestroy, Send
    <2> QED BY <1>0, <2>2, <2>5, <2>6, WireSendsOther
  <1> QED BY <1>2, <1>3, <1>4, <1>5 DEF Polite

LEMMA PoliteStep ==
  TypeOK /\ PoliteInv /\ [Next]_vars => PoliteInv'
  <1> SUFFICES ASSUME TypeOK, PoliteInv, [Next]_vars, polite' PROVE PoliteInv'
    BY DEF PoliteInv
  <1> USE DEF roleVars, clientVars
  <1>1. polite
    BY DEF Next, Environment, Reconfigure, CompositorCloses, Compositor, AckConfigure,
           CommitAttached, CommitEmpty, ResourceDestroyed, Receive, SendAnything, Polite,
           PoliteDraw, PoliteRedraw, PoliteDestroy, PoliteEmpty, Send, vars
  <1>2. ~killed /\ (~Exempt => Wire)
    BY <1>1 DEF PoliteInv
  <1>3. CASE Exempt
    BY <1>2, <1>3, ExemptStep DEF PoliteInv
  <1>4. CASE ~Exempt
    <2> SUFFICES ~killed' /\ (~Exempt' => Wire')
      BY DEF PoliteInv
    <2>1. Wire
      BY <1>2, <1>4
    <2>2. ASSUME NEW size \in OutputSizes, Reconfigure(size) PROVE ~killed' /\ Wire'
      BY <1>2, <1>4, <2>1, <2>2, WireReconfigure DEF Reconfigure
    <2>3. CASE CompositorCloses
      BY <1>2, <2>3 DEF CompositorCloses, Close, Exempt
    <2>4. CASE AckConfigure
      BY <1>2, <1>4, <2>1, <2>4, WireAck
    <2>5. CASE CommitAttached \/ CommitEmpty
      BY <1>2, <1>4, <2>1, <2>5, WireCommit
    <2>6. CASE ResourceDestroyed
      BY <1>2, <2>6 DEF ResourceDestroyed, Exempt
    <2>7. CASE Receive
      BY <1>2, <2>1, <2>7, WireReceive, ClientKeepsRole
    <2>8. CASE SendAnything
      BY <1>1, <2>8 DEF SendAnything
    <2>9. CASE Polite
      BY <1>2, <2>1, <2>9, WirePolite, ClientKeepsRole
    <2>10. CASE UNCHANGED vars
      <3>1. UNCHANGED <<serial, killed, events, requests, received, agreed, configures, acked>>
        BY <2>10 DEF vars
      <3> QED BY <1>2, <2>1, <3>1
          DEF Wire, Growing, Remembered, AcksFind, BuffersFit, Waits, IsAck, NoAck, Live
    <2> QED BY <2>2, <2>3, <2>4, <2>5, <2>6, <2>7, <2>8, <2>9, <2>10
        DEF Next, Environment, Compositor
  <1> QED BY <1>3, <1>4

(* A locker that does what docs/session-lock.md asks of it is never         *)
(* disconnected, however many resizes are under way, however long the wire  *)
(* is, and wherever the end of the role falls among its requests.           *)
THEOREM PoliteSafe ==
  Spec => []PoliteLockerKept
  <1>1. Init => PoliteInv
    BY WireInit
  <1>2. PoliteInv => PoliteLockerKept
    BY DEF PoliteInv, PoliteLockerKept
  <1> QED BY <1>1, <1>2, PoliteStep, TypeCorrect, PTL DEF Spec

-----------------------------------------------------------------------------
(* Layer surfaces: the list of keyboard handlers.                           *)

(* What holds of 0 and goes from each number to the next holds up to n.     *)
LEMMA UpTo ==
  ASSUME NEW n \in Nat, NEW S, 0 \in S, \A i \in 1..n : i - 1 \in S => i \in S
  PROVE  \A i \in 0..n : i \in S
  <1> DEFINE T == {i \in 0..n : i \notin S}
  <1> SUFFICES ASSUME T # {} PROVE FALSE
    OBVIOUS
  <1>1. IsWellFoundedOn(OpToRel(<, Nat), Nat)
    BY NatLessThanWellFounded
  <1>2. T \subseteq Nat /\ T # {}
    OBVIOUS
  <1>3. PICK x \in T : \A y \in T : ~(<<y, x>> \in OpToRel(<, Nat))
    <2> HIDE DEF T
    <2> QED BY <1>1, <1>2, WFMin
  <1>4. \A y \in T : ~(y < x)
    BY <1>2, <1>3 DEF OpToRel
  <1>5. x \in 1..n /\ x - 1 \in 0..n /\ x - 1 < x /\ x \notin S
    OBVIOUS
  <1>6. x - 1 \in S
    BY <1>4, <1>5
  <1> QED BY <1>5, <1>6

(* f follows the list q up to its n-th element, leaving out what is gone.   *)
Steps(f, q, gone, n) ==
  f = [i \in 0..n |-> IF i = 0 THEN <<>>
                      ELSE IF q[i] \in gone THEN f[i - 1]
                      ELSE Append(f[i - 1], q[i])]

LEMMA StepsExist ==
  ASSUME NEW q, NEW gone, Len(q) \in Nat
  PROVE  \E f : Steps(f, q, gone, Len(q))
  <1> DEFINE Run(f, n) == Steps(f, q, gone, n)
             Next1(old, i) == IF q[i] \in gone THEN old ELSE Append(old, q[i])
             S == {n \in 0..Len(q) : \E f : Run(f, n)}
  <1>1. 0 \in S
    <2> DEFINE h(f) == [i \in 0..0 |-> IF i = 0 THEN <<>> ELSE Next1(f[i - 1], i)]
               f0 == [i \in 0..0 |-> <<>>]
    <2>1. \A i \in 0..0 : i = 0
      OBVIOUS
    <2>2. f0 = h(f0)
      BY <2>1
    <2>3. Run(f0, 0)
      BY <2>2 DEF Steps
    <2>4. 0 \in 0..Len(q)
      OBVIOUS
    <2> HIDE DEF f0
    <2> QED BY <2>3, <2>4
  <1>2. ASSUME NEW n \in 1..Len(q), n - 1 \in S PROVE n \in S
    <2>1. PICK f : Run(f, n - 1)
      BY <1>2
    <2> DEFINE g == [i \in 0..n |-> IF i = n THEN Next1(f[n - 1], n) ELSE f[i]]
               h == [i \in 0..n |-> IF i = 0 THEN <<>> ELSE Next1(g[i - 1], i)]
    <2>2. \A i \in 0..n : i # n => i \in 0..(n - 1) /\ (i # 0 => i - 1 \in 0..n /\ i - 1 # n)
      OBVIOUS
    <2>3. n - 1 \in 0..n /\ n - 1 # n /\ n # 0
      OBVIOUS
    <2>4. ASSUME NEW i \in 0..n PROVE g[i] = h[i]
      <3> HIDE DEF Next1
      <3>1. \A j \in 0..n : g[j] = IF j = n THEN Next1(f[n - 1], n) ELSE f[j]
        OBVIOUS
      <3>2. h[i] = IF i = 0 THEN <<>> ELSE Next1(g[i - 1], i)
        OBVIOUS
      <3>3. CASE i = n
        <4> HIDE DEF g, h
        <4> QED BY <2>3, <3>1, <3>2, <3>3
      <3>4. CASE i # n
        <4>1. f[i] = IF i = 0 THEN <<>> ELSE Next1(f[i - 1], i)
          BY <2>1, <2>2, <3>4 DEF Steps, Next1
        <4> HIDE DEF g, h
        <4> QED BY <2>2, <3>1, <3>2, <3>4, <4>1
      <3> QED BY <3>3, <3>4
    <2>5. Run(g, n)
      <3>1. g = h
        BY <2>4
      <3> QED BY <3>1 DEF Steps
    <2> HIDE DEF g
    <2> QED BY <2>5
  <1>3. \A n \in 0..Len(q) : n \in S
    BY <1>1, <1>2, UpTo
  <1> QED BY <1>3

(* The list without those that are gone, step by step.                      *)
LEMMA DetachedSteps ==
  ASSUME NEW q, NEW gone, Len(q) \in Nat
  PROVE  \E f : /\ f[0] = <<>> /\ Layer!Detached(q, gone) = f[Len(q)]
                /\ \A i \in 1..Len(q) : f[i] = IF q[i] \in gone THEN f[i - 1]
                                               ELSE Append(f[i - 1], q[i])
  <1> DEFINE f == CHOOSE g : Steps(g, q, gone, Len(q))
  <1>1. Layer!Detached(q, gone) = f[Len(q)]
    BY DEF Layer!Detached, Steps
  <1>2. Steps(f, q, gone, Len(q))
    BY StepsExist
  <1> HIDE DEF f
  <1>3. f[0] = <<>> /\ \A i \in 1..Len(q) : f[i] = IF q[i] \in gone THEN f[i - 1]
                                                   ELSE Append(f[i - 1], q[i])
    <2> DEFINE h == [i \in 0..Len(q) |-> IF i = 0 THEN <<>>
                                         ELSE IF q[i] \in gone THEN f[i - 1]
                                         ELSE Append(f[i - 1], q[i])]
    <2>1. f = h
      BY <1>2 DEF Steps
    <2>2. 0 \in 0..Len(q) /\ \A i \in 1..Len(q) : i \in 0..Len(q) /\ i # 0
      OBVIOUS
    <2>3. \A i \in 0..Len(q) : h[i] = IF i = 0 THEN <<>>
                                       ELSE IF q[i] \in gone THEN f[i - 1]
                                       ELSE Append(f[i - 1], q[i])
      OBVIOUS
    <2> HIDE DEF h
    <2> QED BY <2>1, <2>2, <2>3
  <1> QED BY <1>1, <1>3

(* Detached leaves a list of the others.                                    *)
LEMMA DetachedOthers ==
  ASSUME NEW S, NEW q \in Seq(S), Layer!IsInjective(q), NEW gone
  PROVE  LET r == Layer!Detached(q, gone)
         IN  /\ r \in Seq(S) /\ Layer!IsInjective(r)
             /\ \A i \in 1..Len(r) : r[i] \notin gone /\ \E j \in 1..Len(q) : r[i] = q[j]
  <1> DEFINE Part(n) == {q[j] : j \in {j \in 1..n : q[j] \notin gone}}
  <1>0. Len(q) \in Nat /\ DOMAIN q = 1..Len(q) /\ \A i \in 1..Len(q) : q[i] \in S
    OBVIOUS
  <1>1. PICK f : /\ f[0] = <<>> /\ Layer!Detached(q, gone) = f[Len(q)]
                 /\ \A i \in 1..Len(q) : f[i] = IF q[i] \in gone THEN f[i - 1]
                                                ELSE Append(f[i - 1], q[i])
    BY <1>0, DetachedSteps
  <1> DEFINE T == {n \in 0..Len(q) : f[n] \in Seq(Part(n)) /\ Layer!IsInjective(f[n])}
  <1>2. 0 \in T
    <2>1. 0 \in 0..Len(q) /\ <<>> \in Seq(Part(0)) /\ DOMAIN <<>> = {}
      <3> HIDE DEF Part
      <3> QED BY <1>0
    <2>2. Layer!IsInjective(<<>>)
      BY <2>1 DEF Layer!IsInjective
    <2> QED BY <1>1, <2>1, <2>2
  <1>3. ASSUME NEW n \in 1..Len(q), n - 1 \in T PROVE n \in T
    <2>1. f[n - 1] \in Seq(Part(n - 1)) /\ Layer!IsInjective(f[n - 1]) /\ n \in 0..Len(q)
      BY <1>0, <1>3
    <2>2. Part(n - 1) \subseteq Part(n)
      BY <1>0
    <2>3. f[n - 1] \in Seq(Part(n))
      <3> HIDE DEF Part
      <3> QED BY <2>1, <2>2
    <2>4. CASE q[n] \in gone
      BY <1>1, <2>1, <2>3, <2>4
    <2>5. CASE q[n] \notin gone
      <3>1. q[n] \in Part(n)
        BY <1>0, <2>5
      <3>2. q[n] \notin Part(n - 1)
        BY <1>0 DEF Layer!IsInjective
      <3>3. f[n] = Append(f[n - 1], q[n])
        BY <1>1, <2>5
      <3>4. \A i \in 1..Len(f[n - 1]) : f[n - 1][i] # q[n]
        <4> HIDE DEF Part
        <4> QED BY <2>1, <3>2
      <3>5. f[n] \in Seq(Part(n))
        <4> HIDE DEF Part
        <4> QED BY <2>3, <3>1, <3>3
      <3>6. Layer!IsInjective(f[n])
        <4> HIDE DEF Part
        <4> QED BY <2>1, <2>3, <3>1, <3>3, <3>4 DEF Layer!IsInjective
      <3> QED BY <2>1, <3>5, <3>6
    <2> QED BY <2>4, <2>5
  <1> HIDE DEF T
  <1>4. \A n \in 0..Len(q) : n \in T
    BY <1>0, <1>2, <1>3, UpTo
  <1>5. f[Len(q)] \in Seq(Part(Len(q))) /\ Layer!IsInjective(f[Len(q)])
    <2> HIDE DEF Part
    <2>1. Len(q) \in 0..Len(q)
      BY <1>0
    <2>2. Len(q) \in T
      BY <1>4, <2>1
    <2> QED BY <2>2 DEF T
  <1>6. \A x \in Part(Len(q)) : x \in S /\ x \notin gone /\ \E j \in 1..Len(q) : x = q[j]
    BY <1>0
  <1> HIDE DEF Part
  <1> QED BY <1>1, <1>5, <1>6

-----------------------------------------------------------------------------
(* Layer surfaces: what a surface's wire carries.                           *)

LEMMA CarriesAppend ==
  ASSUME NEW q \in Seq(Layer!Events), NEW e \in Layer!Events, NEW kinds
  PROVE  /\ Append(q, e) \in Seq(Layer!Events) /\ Len(Append(q, e)) = Len(q) + 1
         /\ Layer!Carries(Append(q, e), kinds) <=> Layer!Carries(q, kinds) \/ e.kind \in kinds
  <1>1. /\ Append(q, e) \in Seq(Layer!Events) /\ Len(Append(q, e)) = Len(q) + 1
        /\ DOMAIN q = 1..Len(q) /\ Len(q) \in Nat
        /\ DOMAIN Append(q, e) = 1..(Len(q) + 1)
        /\ \A i \in 1..Len(q) : Append(q, e)[i] = q[i]
        /\ Append(q, e)[Len(q) + 1] = e
    OBVIOUS
  <1>2. \A i \in 1..(Len(q) + 1) : i \in 1..Len(q) \/ i = Len(q) + 1
    BY <1>1
  <1>3. \A i \in 1..Len(q) : i \in 1..(Len(q) + 1)
    BY <1>1
  <1>4. Len(q) + 1 \in 1..(Len(q) + 1)
    BY <1>1
  <1> QED BY <1>1, <1>2, <1>3, <1>4 DEF Layer!Carries

LEMMA CarriesTail ==
  ASSUME NEW q \in Seq(Layer!Events), q # <<>>
  PROVE  /\ Head(q) \in Layer!Events /\ Tail(q) \in Seq(Layer!Events) /\ Len(Tail(q)) < Len(q)
         /\ \A kinds : Layer!Carries(q, kinds) <=>
                         Head(q).kind \in kinds \/ Layer!Carries(Tail(q), kinds)
  <1>1. /\ Len(q) \in Nat /\ 1 \in 1..Len(q) /\ Head(q) = q[1] /\ Head(q) \in Layer!Events
        /\ Tail(q) \in Seq(Layer!Events) /\ Len(Tail(q)) = Len(q) - 1
        /\ DOMAIN q = 1..Len(q) /\ DOMAIN Tail(q) = 1..(Len(q) - 1)
        /\ \A i \in 1..(Len(q) - 1) : Tail(q)[i] = q[i + 1] /\ i + 1 \in 1..Len(q)
    OBVIOUS
  <1>2. \A i \in 1..Len(q) : i = 1 \/ (i - 1 \in 1..(Len(q) - 1) /\ Tail(q)[i - 1] = q[i])
    BY <1>1
  <1>3. ASSUME NEW kinds
        PROVE  Layer!Carries(q, kinds) <=>
                 Head(q).kind \in kinds \/ Layer!Carries(Tail(q), kinds)
    BY <1>1, <1>2 DEF Layer!Carries
  <1> QED BY <1>1, <1>3

LEMMA CarriesNothing == \A kinds : ~Layer!Carries(<<>>, kinds)
  <1>1. DOMAIN <<>> = {}
    OBVIOUS
  <1> QED BY <1>1 DEF Layer!Carries

(* Configures that were forgotten are dead, the rest of the wire is as it was. *)
LEMMA CarriesForgotten ==
  ASSUME NEW q \in Seq(Layer!Events)
  PROVE  /\ Layer!Forgotten(q) \in Seq(Layer!Events) /\ Len(Layer!Forgotten(q)) = Len(q)
         /\ ~Layer!Carries(Layer!Forgotten(q), {"live"})
         /\ Layer!Carries(q, {"closed"}) => Layer!Carries(Layer!Forgotten(q), {"closed"})
  <1> DEFINE r == Layer!Forgotten(q)
  <1>1. Len(q) \in Nat /\ DOMAIN q = 1..Len(q) /\ \A i \in 1..Len(q) : q[i] \in Layer!Events
    OBVIOUS
  <1>2. r = [i \in 1..Len(q) |-> IF q[i].kind = "live" THEN [q[i] EXCEPT !.kind = "dead"]
                                                      ELSE q[i]]
    BY <1>1 DEF Layer!Forgotten
  <1>3. \A i \in 1..Len(q) : r[i] \in Layer!Events /\ r[i].kind # "live"
                             /\ (q[i].kind = "closed" => r[i].kind = "closed")
    BY <1>1, <1>2 DEF Layer!Events
  <1>4. r \in Seq(Layer!Events) /\ Len(r) = Len(q) /\ DOMAIN r = 1..Len(q)
    <2> HIDE DEF r
    <2>1. DOMAIN r = 1..Len(q) /\ r = [i \in 1..Len(q) |-> r[i]]
      BY <1>2
    <2> QED BY <1>1, <1>3, <2>1
  <1> HIDE DEF r
  <1>5. ~Layer!Carries(r, {"live"}) /\ (Layer!Carries(q, {"closed"}) => Layer!Carries(r, {"closed"}))
    BY <1>1, <1>3, <1>4 DEF Layer!Carries
  <1> QED BY <1>4, <1>5 DEF r

-----------------------------------------------------------------------------
(* Layer surfaces: one surface, its wire and its client.                    *)

(* The numbers that stand for no size and no attachment are no sizes.       *)
LEMMA Marks ==
  /\ LayerModes \subseteq Layer!Sizes /\ Layer!Fixed \in Layer!Sizes /\ 0 \notin LayerModes
  /\ Layer!Unset \notin Layer!Sizes /\ Layer!NoAttach \notin Layer!Sizes
  /\ Layer!Null \notin Layer!Sizes /\ Layer!Null # Layer!NoAttach /\ LayerWire \in Nat
  /\ "none" \notin LayerOutputs /\ LayerModes \subseteq Nat
  BY SurfacesAssumption DEF Layer!LayerAssumption, Layer!Sizes, Layer!Fixed, Layer!Unset,
       Layer!NoAttach, Layer!Null

LEMMA StatesTyped ==
  /\ Layer!Asked \subseteq [size : {"fixed", "fill", "unset"}, zone : {0, 1}, keyboard : {"none", "exclusive"}]
  /\ Layer!Fresh \in [size : {"fixed", "fill", "unset"}, zone : {0, 1}, keyboard : {"none", "exclusive"}]
  /\ Layer!Fresh \notin Layer!Asked /\ Layer!Fresh.zone = 0
  /\ \A x \in Layer!Asked \cup {Layer!Fresh} : Layer!Valid(x) <=> x \in Layer!Asked
  BY DEF Layer!Asked, Layer!Fresh, Layer!Valid

(* A surface nobody uses.                                                   *)
LEMMA AbsentKept == Layer!SurfaceKept(Layer!Absent, <<>>, Layer!NewClient)
  <1>1. Layer!Absent \in Layer!Layers /\ Layer!NewClient \in Layer!Clients
    BY Marks DEF Layer!Absent, Layer!NewClient, Layer!Layers, Layer!Clients
  <1>2. <<>> \in Seq(Layer!Events) /\ Len(<<>>) <= LayerWire
    BY Marks
  <1> QED BY <1>1, <1>2, CarriesNothing, Marks
       DEF Layer!SurfaceKept, Layer!LifeKept, Layer!HandshakeKept, Layer!Absent, Layer!NewClient

-----------------------------------------------------------------------------
(* Requests that leave the wire alone.                                      *)
LEMMA GetKept ==
  ASSUME NEW l, NEW q, NEW c, Layer!SurfaceKept(l, q, c), ~l.resource, l.buffer = Layer!Unset,
         NEW o \in LayerOutputs \cup {"none"}, NEW low \in BOOLEAN
  PROVE  Layer!SurfaceKept([Layer!GetClears(l) EXCEPT !.resource = TRUE, !.window = TRUE,
                              !.ready = FALSE, !.desktop = low, !.closed = FALSE, !.output = o,
                              !.timer = FALSE], q, Layer!NewClient)
  <1> DEFINE m == [Layer!GetClears(l) EXCEPT !.resource = TRUE, !.window = TRUE,
                     !.ready = FALSE, !.desktop = low, !.closed = FALSE, !.output = o,
                     !.timer = FALSE]
  <1>1. q = <<>> /\ c = Layer!NewClient /\ ~l.window /\ l.strut = 0 /\ l \in Layer!Layers
    BY DEF Layer!SurfaceKept, Layer!LifeKept
  <1>2. /\ m \in Layer!Layers /\ m.resource /\ m.window /\ ~m.closed /\ ~m.changed
        /\ m.pending = Layer!Fresh /\ m.current = Layer!Fresh /\ m.strut = 0 /\ ~m.configured
        /\ m.buffer = Layer!Unset
    <2> DEFINE r == Layer!GetClears(l)
    <2>1. /\ r \in Layer!Layers /\ ~r.changed /\ r.pending = Layer!Fresh /\ r.current = Layer!Fresh
          /\ r.strut = 0 /\ ~r.configured /\ r.buffer = Layer!Unset
      BY <1>1 DEF Layer!Layers, Layer!GetClears, Layer!Reset
    <2> HIDE DEF r
    <2>2. m = [r EXCEPT !.resource = TRUE, !.window = TRUE, !.ready = FALSE, !.desktop = low,
                        !.closed = FALSE, !.output = o, !.timer = FALSE]
      BY DEF r
    <2> HIDE DEF m
    <2>3. /\ r.pending \in Layer!Asked \cup {Layer!Fresh} /\ r.current \in Layer!Asked \cup {Layer!Fresh}
          /\ r.acked \in BOOLEAN /\ r.last \in Layer!Sizes \cup {Layer!Unset}
          /\ r.buffer \in Layer!Sizes \cup {Layer!Unset} /\ r.strut \in LayerModes \cup {0}
      BY <2>1 DEF Layer!Layers
    <2>4. m = [resource |-> TRUE, window |-> TRUE, ready |-> FALSE, desktop |-> low, closed |-> FALSE,
               configured |-> FALSE, acked |-> r.acked, pending |-> r.pending, current |-> r.current,
               changed |-> FALSE, last |-> r.last, buffer |-> r.buffer, strut |-> r.strut,
               output |-> o, timer |-> FALSE]
      BY <2>1, <2>2 DEF Layer!Layers
    <2> HIDE DEF m
    <2>5. m \in Layer!Layers
      BY <2>3, <2>4 DEF Layer!Layers
    <2> QED BY <2>1, <2>4, <2>5
  <1> HIDE DEF m
  <1>3. Layer!SurfaceKept(m, q, Layer!NewClient)
    BY <1>1, <1>2, CarriesNothing
       DEF Layer!SurfaceKept, Layer!LifeKept, Layer!HandshakeKept, Layer!NewClient, Layer!Mapped
  <1> QED BY <1>3 DEF m

LEMMA SetKept ==
  ASSUME NEW l, NEW q, NEW c, Layer!SurfaceKept(l, q, c), l.resource, ~l.closed,
         NEW state \in Layer!Asked
  PROVE  Layer!SurfaceKept([l EXCEPT !.pending = state, !.changed = TRUE], q, c)
  <1> DEFINE m == [l EXCEPT !.pending = state, !.changed = TRUE]
  <1>1. l \in Layer!Layers
    BY DEF Layer!SurfaceKept
  <1>2. /\ m \in Layer!Layers /\ m.changed /\ m.pending = state /\ m.resource = l.resource
        /\ m.window = l.window /\ m.closed = l.closed /\ m.timer = l.timer /\ m.output = l.output
        /\ m.strut = l.strut /\ m.buffer = l.buffer /\ m.current = l.current
        /\ m.configured = l.configured /\ m.acked = l.acked /\ m.last = l.last
        /\ m.ready = l.ready
    BY <1>1 DEF Layer!Layers
  <1> HIDE DEF m
  <1>3. Layer!SurfaceKept(m, q, c)
    BY <1>2, StatesTyped
       DEF Layer!SurfaceKept, Layer!LifeKept, Layer!HandshakeKept, Layer!Mapped
  <1> QED BY <1>3 DEF m

(* What the client knows after a commit is of its kind.                     *)
LEMMA AfterTyped ==
  ASSUME NEW c \in Layer!Clients, NEW buffer
  PROVE  /\ Layer!After(c, buffer) \in Layer!Clients /\ Layer!After(c, buffer).closed = c.closed
         /\ c.killed = "no" => Layer!After(c, buffer).killed = "no"
         /\ buffer = Layer!Null /\ c.acked =>
              ~Layer!After(c, buffer).committed /\ ~Layer!After(c, buffer).acked
         /\ ~(buffer = Layer!Null /\ c.acked) =>
              /\ Layer!After(c, buffer).committed /\ Layer!After(c, buffer).acked = c.acked
              /\ Layer!After(c, buffer).behind = (c.behind /\ buffer \notin Layer!Sizes)
  BY Marks DEF Layer!After, Layer!Clients, Layer!NewClient

LEMMA AttachedTyped ==
  ASSUME NEW l \in Layer!Layers, NEW buffer \in Layer!Buffers
  PROVE  LET m == Layer!Attached(l, buffer)
         IN  /\ m \in Layer!Layers
             /\ m = [l EXCEPT !.buffer = m.buffer]
             /\ m.buffer = IF buffer = Layer!NoAttach THEN l.buffer
                           ELSE IF buffer = Layer!Null THEN Layer!Unset ELSE buffer
  BY Marks DEF Layer!Attached, Layer!Layers, Layer!Buffers

(* A commit of a closed surface.                                            *)
LEMMA IgnoredKept ==
  ASSUME NEW l, NEW q, NEW c, Layer!SurfaceKept(l, q, c), l.resource, ~l.window \/ l.closed,
         NEW buffer \in Layer!Buffers, c.killed = "no"
  PROVE  Layer!SurfaceKept(Layer!Attached(l, buffer), q, Layer!After(c, buffer))
  <1> DEFINE m == Layer!Attached(l, buffer)
             d == Layer!After(c, buffer)
  <1>1. l \in Layer!Layers /\ c \in Layer!Clients /\ l.closed /\ l.strut = 0
    BY DEF Layer!SurfaceKept, Layer!LifeKept
  <1>2. m \in Layer!Layers /\ m = [l EXCEPT !.buffer = m.buffer]
    BY <1>1, AttachedTyped
  <1>3. d \in Layer!Clients /\ d.closed = c.closed /\ d.killed = "no"
    BY <1>1, AfterTyped
  <1> HIDE DEF m, d
  <1>4. /\ m.resource = l.resource /\ m.window = l.window /\ m.closed = l.closed
        /\ m.timer = l.timer /\ m.output = l.output /\ m.strut = l.strut
        /\ m.pending = l.pending /\ m.current = l.current /\ m.changed = l.changed
    BY <1>1, <1>2 DEF Layer!Layers
  <1>5. Layer!SurfaceKept(m, q, d)
    BY <1>1, <1>2, <1>3, <1>4 DEF Layer!SurfaceKept, Layer!LifeKept, Layer!HandshakeKept
  <1> QED BY <1>5 DEF m, d

(* A client that keeps to the protocol commits nothing that is rejected.    *)
LEMMA PoliteAccepted ==
  ASSUME NEW s \in LayerSurfaces, Layer!SurfaceKept(ls[s], wire[s], client[s]),
         ls[s].resource, ls[s].window, ~ls[s].closed, NEW buffer \in Layer!Buffers,
         Layer!Polite(s, buffer)
  PROVE  /\ buffer \in Layer!Sizes => ls[s].configured /\ ls[s].acked
         /\ ~(buffer = Layer!Null /\ ls[s].configured)
              => Layer!Valid(IF ls[s].changed THEN ls[s].pending ELSE ls[s].current)
         /\ buffer = Layer!Null /\ ls[s].configured => client[s].acked
         /\ ~client[s].committed => wire[s] = <<>>
  BY Marks, StatesTyped DEF Layer!SurfaceKept, Layer!HandshakeKept, Layer!Polite

(* A rejected commit ends a client that did not keep to the protocol.       *)
LEMMA RejectedKept ==
  ASSUME NEW s \in LayerSurfaces, Layer!SurfaceKept(ls[s], wire[s], client[s]),
         ls[s].resource, client[s].killed = "no", NEW buffer \in Layer!Buffers,
         Layer!CommitRejected(s, buffer)
  PROVE  /\ ~Layer!Polite(s, buffer)
         /\ Layer!SurfaceKept(ls[s], wire[s], [client[s] EXCEPT !.killed = "rude"])
  <1>1. ~Layer!Polite(s, buffer)
    BY PoliteAccepted, Marks DEF Layer!CommitRejected
  <1> DEFINE l == ls[s]
             q == wire[s]
             c == client[s]
             d == [c EXCEPT !.killed = "rude"]
  <1>2. c \in Layer!Clients /\ Layer!SurfaceKept(l, q, c)
    BY DEF Layer!SurfaceKept
  <1>3. /\ d \in Layer!Clients /\ d.killed = "rude" /\ d.committed = c.committed
        /\ d.acked = c.acked /\ d.behind = c.behind /\ d.closed = c.closed
    BY <1>2 DEF Layer!Clients
  <1>4. l.resource
    OBVIOUS
  <1> HIDE DEF l, q, c, d
  <1>5. Layer!SurfaceKept(l, q, d)
    BY <1>2, <1>3, <1>4 DEF Layer!SurfaceKept, Layer!LifeKept, Layer!HandshakeKept
  <1> QED BY <1>1, <1>5 DEF l, q, c, d

(* A null buffer hides a surface, which starts again.                       *)
LEMMA UnmapsKept ==
  ASSUME NEW l, NEW q, NEW c, Layer!SurfaceKept(l, q, c), l.resource, l.window, ~l.closed,
         c.killed = "no", c.acked
  PROVE  Layer!SurfaceKept([Layer!Reset(l) EXCEPT !.buffer = Layer!Unset, !.strut = 0],
                           Layer!Forgotten(q), Layer!After(c, Layer!Null))
  <1> DEFINE r == Layer!Reset(l)
             m == [r EXCEPT !.buffer = Layer!Unset, !.strut = 0]
             d == Layer!After(c, Layer!Null)
             p == Layer!Forgotten(q)
  <1>1. l \in Layer!Layers /\ c \in Layer!Clients /\ q \in Seq(Layer!Events)
    BY DEF Layer!SurfaceKept
  <1>2. /\ r \in Layer!Layers /\ ~r.changed /\ r.pending = Layer!Fresh /\ r.current = Layer!Fresh
        /\ ~r.configured /\ r.resource = l.resource /\ r.window = l.window
        /\ r.closed = l.closed /\ r.timer = l.timer /\ r.output = l.output
    BY <1>1 DEF Layer!Layers, Layer!Reset
  <1> HIDE DEF r
  <1>3. /\ m \in Layer!Layers /\ ~m.changed /\ m.pending = Layer!Fresh /\ m.current = Layer!Fresh
        /\ ~m.configured /\ m.resource = l.resource /\ m.window = l.window
        /\ m.closed = l.closed /\ m.timer = l.timer /\ m.output = l.output
        /\ m.strut = 0 /\ m.buffer = Layer!Unset
    BY <1>2, Marks DEF Layer!Layers
  <1>4. d \in Layer!Clients /\ d.closed = c.closed /\ d.killed = "no" /\ ~d.committed /\ ~d.acked
    BY <1>1, AfterTyped
  <1>5. p \in Seq(Layer!Events) /\ Len(p) = Len(q) /\ ~Layer!Carries(p, {"live"})
    BY <1>1, CarriesForgotten
  <1> HIDE DEF m, d, p
  <1>6. Layer!SurfaceKept(m, p, d)
    BY <1>3, <1>4, <1>5 DEF Layer!SurfaceKept, Layer!LifeKept, Layer!HandshakeKept, Layer!Mapped
  <1> QED BY <1>6 DEF m, d, p, r

(* A configure in the wire.                                                 *)
LEMMA ConfigureTyped ==
  ASSUME NEW q \in Seq(Layer!Events), Len(q) < LayerWire, NEW size \in Layer!Sizes
  PROVE  LET r == Layer!Configure(q, size)
         IN  /\ r \in Seq(Layer!Events) /\ Len(r) <= LayerWire /\ Layer!Carries(r, {"live"})
             /\ Layer!Carries(r, {"closed"}) <=> Layer!Carries(q, {"closed"})
             /\ Layer!Carries(r, {"dead"}) <=> Layer!Carries(q, {"dead"})
  <1>1. [kind |-> "live", size |-> size] \in Layer!Events
    BY DEF Layer!Events
  <1>2. Len(q) \in Nat
    OBVIOUS
  <1> QED BY <1>1, <1>2, CarriesAppend, Marks DEF Layer!Configure

(* The compositor configures a surface.                                     *)
LEMMA ConfiguredKept ==
  ASSUME NEW l, NEW q, NEW c, Layer!SurfaceKept(l, q, c), l.resource, l.window, ~l.closed,
         l.configured \/ l.ready, Len(q) < LayerWire, NEW size \in Layer!Sizes
  PROVE  Layer!SurfaceKept(Layer!ConfiguredTo(l, size), Layer!Configure(q, size), c)
  <1> DEFINE m == Layer!ConfiguredTo(l, size)
             r == Layer!Configure(q, size)
  <1>1. l \in Layer!Layers /\ q \in Seq(Layer!Events)
    BY DEF Layer!SurfaceKept
  <1>2. /\ m \in Layer!Layers /\ m.configured /\ m.last = size /\ m.resource = l.resource
        /\ m.window = l.window /\ m.closed = l.closed /\ m.timer = l.timer /\ m.output = l.output
        /\ m.strut = l.strut /\ m.buffer = l.buffer /\ m.current = l.current
        /\ m.acked = l.acked /\ m.ready = l.ready /\ m.pending = l.pending
        /\ m.changed = l.changed
    BY <1>1 DEF Layer!Layers, Layer!ConfiguredTo
  <1>3. /\ r \in Seq(Layer!Events) /\ Len(r) <= LayerWire /\ Layer!Carries(r, {"live"})
        /\ Layer!Carries(r, {"closed"}) <=> Layer!Carries(q, {"closed"})
        /\ Layer!Carries(r, {"dead"}) <=> Layer!Carries(q, {"dead"})
    BY <1>1, ConfigureTyped
  <1> HIDE DEF m, r
  <1>4. Layer!SurfaceKept(m, r, c)
    BY <1>2, <1>3 DEF Layer!SurfaceKept, Layer!LifeKept, Layer!HandshakeKept, Layer!Mapped
  <1> QED BY <1>4 DEF m, r

(* A commit that is applied: a configure answers what changed, and what is drawn is reserved. *)
Applied(l) == IF l.changed THEN l.pending ELSE l.current
Committed(l, buffer) ==
  [Layer!Attached(l, buffer) EXCEPT !.current = Applied(l), !.changed = FALSE]
Answers(l, buffer) ==
  ~l.configured \/ Applied(l) # l.current \/ Layer!Size(Committed(l, buffer)) # l.last
LayerSent(l, buffer) ==
  IF Answers(l, buffer)
  THEN Layer!ConfiguredTo(Committed(l, buffer), Layer!Size(Committed(l, buffer)))
  ELSE Committed(l, buffer)
Shown(m) == IF Layer!Mapped(m) THEN Layer!Placed(m) ELSE m

LEMMA CommittedTyped ==
  ASSUME NEW l \in Layer!Layers, NEW buffer \in Layer!Buffers, mode \in LayerModes
  PROVE  LET m == Committed(l, buffer)
         IN  /\ m \in Layer!Layers /\ m.current = Applied(l) /\ ~m.changed
             /\ m.pending = l.pending
             /\ m.resource = l.resource /\ m.window = l.window /\ m.closed = l.closed
             /\ m.timer = l.timer /\ m.output = l.output /\ m.strut = l.strut
             /\ m.configured = l.configured /\ m.acked = l.acked /\ m.last = l.last
             /\ m.ready = l.ready
             /\ m.buffer = IF buffer = Layer!NoAttach THEN l.buffer
                           ELSE IF buffer = Layer!Null THEN Layer!Unset ELSE buffer
             /\ Layer!Size(m) \in Layer!Sizes
             /\ m.current.size = "fill" => Layer!Size(m) = mode
  <1> DEFINE r == Layer!Attached(l, buffer)
  <1>1. /\ r \in Layer!Layers /\ r = [l EXCEPT !.buffer = r.buffer]
        /\ r.buffer = IF buffer = Layer!NoAttach THEN l.buffer
                      ELSE IF buffer = Layer!Null THEN Layer!Unset ELSE buffer
    BY AttachedTyped
  <1>2. Applied(l) \in Layer!Asked \cup {Layer!Fresh}
    BY DEF Applied, Layer!Layers
  <1>3. Committed(l, buffer) = [r EXCEPT !.current = Applied(l), !.changed = FALSE]
    BY DEF Committed
  <1> HIDE DEF r
  <1>4. \A m : Layer!Size(m) \in Layer!Sizes /\ (m.current.size = "fill" => Layer!Size(m) = mode)
    BY Marks DEF Layer!Size
  <1> DEFINE m == Committed(l, buffer)
  <1>5. m = [l EXCEPT !.buffer = r.buffer, !.current = Applied(l), !.changed = FALSE]
    BY <1>1, <1>3 DEF Layer!Layers
  <1>6. r.buffer \in Layer!Sizes \cup {Layer!Unset}
    BY <1>1 DEF Layer!Layers
  <1> HIDE DEF m
  <1>7. /\ m \in Layer!Layers /\ m.current = Applied(l) /\ ~m.changed
        /\ m.pending = l.pending /\ m.buffer = r.buffer
        /\ m.resource = l.resource /\ m.window = l.window /\ m.closed = l.closed
        /\ m.timer = l.timer /\ m.output = l.output /\ m.strut = l.strut
        /\ m.configured = l.configured /\ m.acked = l.acked /\ m.last = l.last
        /\ m.ready = l.ready
    BY <1>2, <1>5, <1>6 DEF Layer!Layers
  <1> QED BY <1>1, <1>4, <1>7 DEF m

LEMMA AppliesKept ==
  ASSUME NEW l, NEW q, NEW c, Layer!SurfaceKept(l, q, c), l.resource, l.window, ~l.closed,
         c.killed = "no", NEW buffer \in Layer!Buffers, Layer!Valid(Applied(l)), ~c.committed => q = <<>>,
         buffer \in Layer!Sizes => l.configured /\ l.acked,
         ~(buffer = Layer!Null /\ l.configured), Len(q) < LayerWire, mode \in LayerModes
  PROVE  LET q2 == IF Answers(l, buffer)
                   THEN Layer!Configure(q, Layer!Size(Committed(l, buffer))) ELSE q
         IN  Layer!SurfaceKept(Shown(LayerSent(l, buffer)), q2, Layer!After(c, buffer))
  <1> DEFINE k == Committed(l, buffer)
             a == Answers(l, buffer)
             m == LayerSent(l, buffer)
             n == Shown(m)
             q2 == IF a THEN Layer!Configure(q, Layer!Size(k)) ELSE q
             d == Layer!After(c, buffer)
  <1>1. l \in Layer!Layers /\ c \in Layer!Clients /\ q \in Seq(Layer!Events) /\ Len(q) \in Nat
    BY DEF Layer!SurfaceKept
  <1>2. /\ k \in Layer!Layers /\ k.current = Applied(l) /\ ~k.changed
        /\ k.pending = l.pending
        /\ k.resource = l.resource /\ k.window = l.window /\ k.closed = l.closed
        /\ k.timer = l.timer /\ k.output = l.output /\ k.strut = l.strut
        /\ k.configured = l.configured /\ k.acked = l.acked /\ k.last = l.last
        /\ k.ready = l.ready
        /\ k.buffer = IF buffer = Layer!NoAttach THEN l.buffer
                      ELSE IF buffer = Layer!Null THEN Layer!Unset ELSE buffer
        /\ Layer!Size(k) \in Layer!Sizes
        /\ k.current.size = "fill" => Layer!Size(k) = mode
    BY <1>1, CommittedTyped
  <1>3. a = (~l.configured \/ k.current # l.current \/ Layer!Size(k) # l.last)
    BY <1>2 DEF Answers
  <1>4. /\ m \in Layer!Layers /\ m.configured /\ m.current = k.current /\ ~m.changed
        /\ m.pending = k.pending /\ m.resource = k.resource /\ m.window = k.window
        /\ m.closed = k.closed /\ m.timer = k.timer /\ m.output = k.output
        /\ m.strut = k.strut /\ m.acked = k.acked /\ m.ready = k.ready /\ m.buffer = k.buffer
        /\ m.last = Layer!Size(k)
    <2>1. m = IF a THEN Layer!ConfiguredTo(k, Layer!Size(k)) ELSE k
      BY DEF LayerSent
    <2> HIDE DEF k, a, m
    <2> QED BY <1>2, <1>3, <2>1 DEF Layer!ConfiguredTo, Layer!Layers
  <1>5. n = IF Layer!Mapped(m) THEN Layer!Placed(m) ELSE m
    BY DEF Shown
  <1>6. /\ d \in Layer!Clients /\ d.closed = c.closed /\ d.killed = "no"
        /\ buffer # Layer!Null \/ ~c.acked =>
             d.committed /\ d.acked = c.acked /\ d.behind = (c.behind /\ buffer \notin Layer!Sizes)
    BY <1>1, AfterTyped
  <1>7. /\ q2 \in Seq(Layer!Events) /\ Len(q2) <= LayerWire
        /\ Layer!Carries(q2, {"closed"}) <=> Layer!Carries(q, {"closed"})
        /\ Layer!Carries(q2, {"dead"}) <=> Layer!Carries(q, {"dead"})
        /\ Layer!Carries(q2, {"live"}) <=> a \/ Layer!Carries(q, {"live"})
    <2> HIDE DEF k, a
    <2> QED BY <1>1, <1>2, ConfigureTyped, Marks
  <1> HIDE DEF k, a, m, n, q2, d
  <1>8. /\ n \in Layer!Layers /\ n.configured /\ n.current = Applied(l) /\ ~n.changed
        /\ n.pending = l.pending /\ n.resource = l.resource /\ n.window = l.window
        /\ n.closed = l.closed /\ n.timer = l.timer /\ n.output = l.output
        /\ n.acked = l.acked /\ n.buffer = k.buffer /\ n.last = Layer!Size(k)
        /\ n.strut = IF Layer!Mapped(n) THEN (IF n.current.zone = 1 THEN mode ELSE 0) ELSE l.strut
    <2>1. m.current.zone \in {0, 1}
      BY <1>4, StatesTyped DEF Layer!Layers
    <2>2. Layer!Strut(m) = IF m.current.zone = 1 THEN mode ELSE 0
      BY <2>1 DEF Layer!Strut
    <2>3. Layer!Strut(m) \in LayerModes \cup {0}
      BY <2>2
    <2>4. CASE Layer!Mapped(m)
      <3>1. n = [m EXCEPT !.strut = Layer!Strut(m), !.ready = TRUE]
        BY <1>5, <2>4 DEF Layer!Placed
      <3> QED BY <1>2, <1>4, <2>2, <2>3, <2>4, <3>1 DEF Layer!Layers, Layer!Mapped
    <2>5. CASE ~Layer!Mapped(m)
      BY <1>2, <1>4, <1>5, <2>5
    <2> QED BY <2>4, <2>5
  <1>9. Applied(l) \in Layer!Asked /\ l.pending = Applied(l)
    BY <1>1, StatesTyped DEF Applied, Layer!SurfaceKept, Layer!HandshakeKept, Layer!Layers
  <1>10. d.committed /\ d.acked = c.acked /\ d.behind = (c.behind /\ buffer \notin Layer!Sizes)
    BY <1>1, <1>6 DEF Layer!SurfaceKept, Layer!HandshakeKept
  <1>11. Layer!LifeKept(n, q2, d)
    <2>1. Layer!LifeKept(l, q, c)
      BY DEF Layer!SurfaceKept
    <2>2. l.strut # 0 => Layer!Mapped(l) /\ l.configured
      BY <2>1 DEF Layer!LifeKept
    <2>3. n.strut # 0 => Layer!Mapped(n) /\ n.current.zone = 1
      <3>1. CASE Layer!Mapped(n)
        BY <1>8, <3>1
      <3>2. CASE ~Layer!Mapped(n)
        BY <1>2, <1>8, <2>2, <3>2, Marks DEF Layer!Mapped, Layer!Buffers
      <3> QED BY <3>1, <3>2
    <2> QED BY <1>6, <1>7, <1>8, <2>1, <2>3 DEF Layer!LifeKept
  <1>12. Layer!HandshakeKept(n, q2, d)
    <2>1. Layer!HandshakeKept(l, q, c)
      BY DEF Layer!SurfaceKept
    <2>2. /\ c.committed => ~Layer!Carries(q, {"dead"}) /\ (c.acked \/ Layer!Carries(q, {"live"}))
          /\ ~c.committed => ~c.acked /\ l.current = Layer!Fresh
          /\ c.acked => l.configured /\ l.acked
      BY <2>1 DEF Layer!HandshakeKept
    <2>3. ~c.committed => a /\ ~Layer!Carries(q, {"dead"})
      <3>1. ~c.committed => q = <<>> /\ Applied(l) # l.current
        BY <1>9, <2>2, StatesTyped
      <3> QED BY <1>2, <1>3, <3>1, CarriesNothing
    <2> QED BY <1>2, <1>3, <1>7, <1>8, <1>9, <1>10, <2>2, <2>3, StatesTyped DEF Layer!HandshakeKept, Layer!Mapped
  <1> QED BY <1>6, <1>7, <1>8, <1>11, <1>12 DEF Layer!SurfaceKept, k, a, m, n, q2, d

LEMMA NoWindow ==
  ASSUME NEW l \in Layer!Layers
  PROVE  LET m == Layer!WindowGone(l)
         IN  /\ m \in Layer!Layers /\ ~m.window /\ m.strut = 0 /\ m.resource = l.resource
             /\ m.closed = l.closed /\ m.output = l.output /\ m.changed = l.changed
             /\ m.pending = l.pending /\ m.current = l.current /\ m.timer = l.timer
  BY DEF Layer!Layers, Layer!WindowGone

LEMMA BareKept ==
  ASSUME NEW l, NEW q, NEW c, Layer!SurfaceKept(l, q, c), ~l.resource
  PROVE  Layer!SurfaceKept(Layer!Attached(l, Layer!Null), q, c)
  <1> DEFINE m == Layer!Attached(l, Layer!Null)
  <1>1. l \in Layer!Layers /\ l.strut = 0 /\ ~l.window /\ Layer!Null \in Layer!Buffers
    BY DEF Layer!SurfaceKept, Layer!LifeKept, Layer!Buffers
  <1>2. m \in Layer!Layers /\ m = [l EXCEPT !.buffer = m.buffer]
    BY <1>1, AttachedTyped
  <1> HIDE DEF m
  <1>3. /\ m.resource = l.resource /\ m.window = l.window /\ m.closed = l.closed
        /\ m.timer = l.timer /\ m.output = l.output /\ m.strut = l.strut
        /\ m.pending = l.pending /\ m.current = l.current /\ m.changed = l.changed
    BY <1>1, <1>2 DEF Layer!Layers
  <1>4. Layer!SurfaceKept(m, q, c)
    BY <1>1, <1>2, <1>3 DEF Layer!SurfaceKept, Layer!LifeKept, Layer!HandshakeKept
  <1> QED BY <1>4 DEF m

(* The client reads an event.                                               *)
LEMMA ReadKept ==
  ASSUME NEW l, NEW q, NEW c, Layer!SurfaceKept(l, q, c), c.killed = "no", q # <<>>
  PROVE  LET e == Head(q)
             acks == e.kind # "closed" /\ c.committed
             m == IF acks /\ e.kind = "live" /\ ~l.closed THEN [l EXCEPT !.acked = TRUE] ELSE l
             d == IF e.kind = "closed" THEN [c EXCEPT !.closed = TRUE]
                  ELSE IF ~acks THEN c
                  ELSE IF e.kind = "dead" /\ ~l.closed THEN [c EXCEPT !.killed = "polite"]
                  ELSE [c EXCEPT !.acked = TRUE, !.size = e.size, !.behind = TRUE]
         IN  Layer!SurfaceKept(m, Tail(q), d)
  <1> DEFINE e == Head(q)
             acks == e.kind # "closed" /\ c.committed
             m == IF acks /\ e.kind = "live" /\ ~l.closed THEN [l EXCEPT !.acked = TRUE] ELSE l
             d == IF e.kind = "closed" THEN [c EXCEPT !.closed = TRUE]
                  ELSE IF ~acks THEN c
                  ELSE IF e.kind = "dead" /\ ~l.closed THEN [c EXCEPT !.killed = "polite"]
                  ELSE [c EXCEPT !.acked = TRUE, !.size = e.size, !.behind = TRUE]
  <1>1. l \in Layer!Layers /\ c \in Layer!Clients /\ q \in Seq(Layer!Events) /\ Len(q) <= LayerWire
    BY DEF Layer!SurfaceKept
  <1>2. l.resource
    BY DEF Layer!SurfaceKept, Layer!LifeKept
  <1>3. /\ e \in Layer!Events /\ Tail(q) \in Seq(Layer!Events) /\ Len(Tail(q)) < Len(q)
        /\ \A kinds : Layer!Carries(q, kinds) <=>
                        e.kind \in kinds \/ Layer!Carries(Tail(q), kinds)
    BY <1>1, CarriesTail
  <1> DEFINE p == Tail(q)
  <1>4. Len(p) <= LayerWire /\ p \in Seq(Layer!Events)
    BY <1>1, <1>3, Marks
  <1>5. e.kind \in {"live", "dead", "closed"} /\ e.size \in Layer!Sizes \cup {Layer!Unset}
    BY <1>3 DEF Layer!Events
  <1>6. (acks /\ e.kind = "live" /\ ~l.closed /\ m = [l EXCEPT !.acked = TRUE]) \/ m = l
    OBVIOUS
  <1>6a. e.kind = "live" /\ c.committed /\ ~l.closed => m = [l EXCEPT !.acked = TRUE]
    OBVIOUS
  <1> HIDE DEF m
  <1>6b. m \in Layer!Layers /\ (l.acked => m.acked)
    BY <1>1, <1>6 DEF Layer!Layers
  <1>7. /\ m.resource = l.resource /\ m.window = l.window /\ m.closed = l.closed
        /\ m.timer = l.timer /\ m.output = l.output /\ m.strut = l.strut /\ m.buffer = l.buffer
        /\ m.pending = l.pending /\ m.current = l.current /\ m.changed = l.changed
        /\ m.configured = l.configured /\ m.last = l.last /\ m.ready = l.ready
    BY <1>1, <1>6 DEF Layer!Layers
  <1>8. e.kind = "live" /\ c.committed /\ ~l.closed => m.acked
    BY <1>1, <1>6a DEF Layer!Layers
  <1>9. c.committed /\ ~l.closed => e.kind # "dead"
    BY <1>2, <1>3 DEF Layer!SurfaceKept, Layer!HandshakeKept
  <1>10. /\ d \in Layer!Clients /\ d.killed = "no" /\ d.committed = c.committed
         /\ d.closed = (c.closed \/ e.kind = "closed")
         /\ acks => d.acked /\ d.behind
         /\ ~acks => d.acked = c.acked /\ d.behind = c.behind
    BY <1>1, <1>5, <1>9 DEF Layer!Clients
  <1>11. acks = (e.kind # "closed" /\ c.committed)
    OBVIOUS
  <1> HIDE DEF e, acks, d, p
  <1>12. Layer!LifeKept(m, p, d)
    BY <1>2, <1>3, <1>7, <1>10 DEF Layer!SurfaceKept, Layer!LifeKept, Layer!Mapped, p
  <1>13. Layer!HandshakeKept(m, p, d)
    <2>1. CASE l.closed
      BY <1>7, <2>1 DEF Layer!SurfaceKept, Layer!HandshakeKept
    <2>2. CASE ~l.closed
      BY <1>2, <1>3, <1>5, <1>6b, <1>7, <1>8, <1>9, <1>10, <1>11, <2>2
         DEF Layer!SurfaceKept, Layer!HandshakeKept, Layer!Mapped, p
    <2> QED BY <2>1, <2>2
  <1>14. Layer!SurfaceKept(m, p, d)
    BY <1>4, <1>6b, <1>10, <1>12, <1>13 DEF Layer!SurfaceKept
  <1> QED BY <1>14 DEF e, acks, m, d, p

(* layer_surface_resource_destroy                                           *)
LEMMA DestroyKept ==
  ASSUME NEW l, NEW q, NEW c, Layer!SurfaceKept(l, q, c)
  PROVE  Layer!SurfaceKept([Layer!WindowGone(l) EXCEPT !.resource = FALSE, !.output = "none",
                                                       !.timer = FALSE], <<>>, Layer!NewClient)
  <1> DEFINE w == Layer!WindowGone(l)
             m == [w EXCEPT !.resource = FALSE, !.output = "none", !.timer = FALSE]
  <1>1. l \in Layer!Layers /\ (~l.changed => l.pending = l.current)
    BY DEF Layer!SurfaceKept, Layer!HandshakeKept
  <1>2. /\ w \in Layer!Layers /\ ~w.window /\ w.strut = 0 /\ w.changed = l.changed
        /\ w.pending = l.pending /\ w.current = l.current
    BY <1>1, NoWindow
  <1> HIDE DEF w
  <1>3. /\ m \in Layer!Layers /\ ~m.window /\ m.strut = 0 /\ m.changed = l.changed
        /\ m.pending = l.pending /\ m.current = l.current /\ ~m.resource /\ m.output = "none"
    BY <1>2 DEF Layer!Layers
  <1>4. <<>> \in Seq(Layer!Events) /\ Len(<<>>) <= LayerWire
    BY Marks
  <1>5. Layer!NewClient \in Layer!Clients /\ Layer!NewClient.killed = "no"
    BY DEF Layer!NewClient, Layer!Clients
  <1> HIDE DEF m
  <1>6. Layer!SurfaceKept(m, <<>>, Layer!NewClient)
    BY <1>1, <1>3, <1>4, <1>5 DEF Layer!SurfaceKept, Layer!LifeKept, Layer!HandshakeKept
  <1> QED BY <1>6 DEF m, w

(* Closed by the compositor, with a word to the client.                     *)
LEMMA CloseKept ==
  ASSUME NEW l, NEW q, NEW c, Layer!SurfaceKept(l, q, c), l.resource, Len(q) < LayerWire,
         NEW o \in LayerOutputs \cup {"none"}
  PROVE  Layer!SurfaceKept([Layer!Close(l) EXCEPT !.output = o], Layer!ClosedEvent(q), c)
  <1> DEFINE m == [Layer!Close(l) EXCEPT !.output = o]
             p == Layer!ClosedEvent(q)
  <1>1. l \in Layer!Layers /\ q \in Seq(Layer!Events) /\ Len(q) \in Nat
    BY DEF Layer!SurfaceKept
  <1>2. /\ m \in Layer!Layers /\ m.closed /\ m.strut = 0 /\ m.timer = l.window
        /\ m.window = l.window /\ m.resource = l.resource /\ m.changed = l.changed
        /\ m.pending = l.pending /\ m.current = l.current
    BY <1>1 DEF Layer!Layers, Layer!Close
  <1>3. [kind |-> "closed", size |-> Layer!Unset] \in Layer!Events
    BY DEF Layer!Events
  <1>4. p \in Seq(Layer!Events) /\ Len(p) <= LayerWire /\ Layer!Carries(p, {"closed"})
    BY <1>1, <1>3, CarriesAppend, Marks DEF Layer!ClosedEvent
  <1> HIDE DEF m, p
  <1>5. Layer!SurfaceKept(m, p, c)
    BY <1>2, <1>4 DEF Layer!SurfaceKept, Layer!LifeKept, Layer!HandshakeKept
  <1> QED BY <1>5 DEF m, p

(* destroy_closed_layer_window_idle                                         *)
LEMMA WindowKept ==
  ASSUME NEW l, NEW q, NEW c, Layer!SurfaceKept(l, q, c), l.timer
  PROVE  Layer!SurfaceKept([(IF l.closed THEN Layer!WindowGone(l) ELSE l) EXCEPT !.timer = FALSE],
                           q, c)
  <1>1. l \in Layer!Layers
    BY DEF Layer!SurfaceKept
  <1>2. CASE l.closed
    <2> DEFINE w == Layer!WindowGone(l)
               m == [w EXCEPT !.timer = FALSE]
    <2>1. /\ w \in Layer!Layers /\ ~w.window /\ w.strut = 0 /\ w.resource = l.resource
          /\ w.closed = l.closed /\ w.output = l.output /\ w.changed = l.changed
          /\ w.pending = l.pending /\ w.current = l.current
      BY <1>1, NoWindow
    <2>1a. m = [(IF l.closed THEN Layer!WindowGone(l) ELSE l) EXCEPT !.timer = FALSE]
      BY <1>2
    <2> HIDE DEF w
    <2>2. /\ m \in Layer!Layers /\ ~m.window /\ m.strut = 0 /\ m.resource = l.resource
          /\ m.closed = l.closed /\ m.output = l.output /\ m.changed = l.changed
          /\ m.pending = l.pending /\ m.current = l.current
      BY <2>1 DEF Layer!Layers
    <2> HIDE DEF m
    <2>3. Layer!SurfaceKept(m, q, c)
      BY <1>2, <2>2 DEF Layer!SurfaceKept, Layer!LifeKept, Layer!HandshakeKept
    <2> QED BY <2>1a, <2>3
  <1>3. CASE ~l.closed
    <2> DEFINE m == [l EXCEPT !.timer = FALSE]
    <2>0. m \in Layer!Layers
      BY <1>1 DEF Layer!Layers
    <2>1. /\ m.resource = l.resource /\ m.window = l.window
          /\ m.closed = l.closed /\ m.output = l.output /\ m.strut = l.strut
          /\ m.buffer = l.buffer /\ m.current = l.current /\ m.configured = l.configured
          /\ m.acked = l.acked /\ m.ready = l.ready /\ m.pending = l.pending
          /\ m.changed = l.changed /\ m.last = l.last
      BY <1>1 DEF Layer!Layers
    <2>1a. m = [(IF l.closed THEN Layer!WindowGone(l) ELSE l) EXCEPT !.timer = FALSE]
      BY <1>3
    <2> HIDE DEF m
    <2>2. Layer!SurfaceKept(m, q, c)
      BY <1>3, <2>0, <2>1 DEF Layer!SurfaceKept, Layer!LifeKept, Layer!HandshakeKept, Layer!Mapped
    <2> QED BY <2>1a, <2>2
  <1> QED BY <1>2, <1>3

(* An output that is no more is not followed.                               *)
LEMMA UnfollowedKept ==
  ASSUME NEW l, NEW q, NEW c, Layer!SurfaceKept(l, q, c)
  PROVE  Layer!SurfaceKept([l EXCEPT !.output = "none"], q, c)
  <1> DEFINE m == [l EXCEPT !.output = "none"]
  <1>1. l \in Layer!Layers
    BY DEF Layer!SurfaceKept
  <1>2. /\ m \in Layer!Layers /\ m.resource = l.resource /\ m.window = l.window
        /\ m.closed = l.closed /\ m.output = "none" /\ m.strut = l.strut /\ m.timer = l.timer
        /\ m.buffer = l.buffer /\ m.current = l.current /\ m.configured = l.configured
        /\ m.acked = l.acked /\ m.ready = l.ready /\ m.pending = l.pending
        /\ m.changed = l.changed /\ m.last = l.last
    BY <1>1 DEF Layer!Layers
  <1> HIDE DEF m
  <1>3. Layer!SurfaceKept(m, q, c)
    BY <1>2 DEF Layer!SurfaceKept, Layer!LifeKept, Layer!HandshakeKept, Layer!Mapped
  <1> QED BY <1>3 DEF m

-----------------------------------------------------------------------------
(* Layer surfaces: the surfaces together, and who has the keyboard.         *)

Hands == handlers \in Seq(LayerSurfaces) /\ Layer!IsInjective(handlers) /\ Layer!KeyboardReturns

Borrowed(l) ==
  l.resource /\ ~l.closed /\ Layer!Mapped(l) /\ l.current.keyboard = "exclusive"

LEMMA HandsMean ==
  ASSUME handlers \in Seq(LayerSurfaces)
  PROVE  Layer!KeyboardReturns <=> \A i \in 1..Len(handlers) : Borrowed(ls[handlers[i]])
  <1>1. DOMAIN handlers = 1..Len(handlers)
    OBVIOUS
  <1> QED BY <1>1 DEF Layer!KeyboardReturns, Layer!Range, Borrowed

LEMMA HandsMeanNext ==
  ASSUME (handlers \in Seq(LayerSurfaces))'
  PROVE  (Layer!KeyboardReturns)' <=> \A i \in 1..Len(handlers') : Borrowed(ls'[handlers'[i]])
  <1>1. DOMAIN handlers' = 1..Len(handlers')
    OBVIOUS
  <1> QED BY <1>1 DEF Layer!KeyboardReturns, Layer!Range, Borrowed

LEMMA OneSurface ==
  ASSUME Layer!IInv, NEW s \in LayerSurfaces, NEW l, NEW q, NEW c, Layer!SurfaceKept(l, q, c),
         ls' = [ls EXCEPT ![s] = l], wire' = [wire EXCEPT ![s] = q],
         client' = [client EXCEPT ![s] = c], mode' = mode, outputs' = outputs, Hands'
  PROVE  Layer!IInv'
  <1>1. l \in Layer!Layers /\ q \in Seq(Layer!Events) /\ c \in Layer!Clients
    BY DEF Layer!SurfaceKept
  <1>2. /\ ls' \in [LayerSurfaces -> Layer!Layers] /\ wire' \in [LayerSurfaces -> Seq(Layer!Events)]
        /\ client' \in [LayerSurfaces -> Layer!Clients]
    BY <1>1 DEF Layer!IInv
  <1>3. ASSUME NEW t \in LayerSurfaces PROVE Layer!SurfaceKept(ls'[t], wire'[t], client'[t])
    <2>1. CASE t = s
      <3>1. ls'[t] = l /\ wire'[t] = q /\ client'[t] = c
        BY <2>1 DEF Layer!IInv
      <3> QED BY <3>1
    <2>2. CASE t # s
      <3>1. ls'[t] = ls[t] /\ wire'[t] = wire[t] /\ client'[t] = client[t]
        BY <2>2 DEF Layer!IInv
      <3> QED BY <3>1 DEF Layer!IInv
    <2> QED BY <2>1, <2>2
  <1> QED BY <1>2, <1>3 DEF Layer!IInv, Hands

(* Who borrowed the keyboard and is shown as before keeps it.               *)
LEMMA HandsSame ==
  ASSUME Layer!IInv, NEW s \in LayerSurfaces, NEW l, ls' = [ls EXCEPT ![s] = l],
         handlers' = handlers, Borrowed(ls[s]) => Borrowed(l)
  PROVE  Hands'
  <1>1. /\ handlers \in Seq(LayerSurfaces) /\ Layer!IsInjective(handlers)
        /\ ls \in [LayerSurfaces -> Layer!Layers]
    BY DEF Layer!IInv
  <1>2. \A i \in 1..Len(handlers) : handlers[i] \in LayerSurfaces /\ Borrowed(ls[handlers[i]])
    BY <1>1, HandsMean DEF Layer!IInv
  <1>3. \A t \in LayerSurfaces : Borrowed(ls[t]) => Borrowed(ls'[t])
    BY <1>1
  <1> QED BY <1>1, <1>2, <1>3, HandsMeanNext DEF Hands

LEMMA HandsReleased ==
  ASSUME Layer!IInv, NEW s \in LayerSurfaces, NEW l, ls' = [ls EXCEPT ![s] = l],
         handlers' = Layer!Released(handlers, s)
  PROVE  Hands'
  <1>1. /\ handlers \in Seq(LayerSurfaces) /\ Layer!IsInjective(handlers)
        /\ ls \in [LayerSurfaces -> Layer!Layers]
    BY DEF Layer!IInv
  <1>2. \A i \in 1..Len(handlers) : handlers[i] \in LayerSurfaces /\ Borrowed(ls[handlers[i]])
    BY <1>1, HandsMean DEF Layer!IInv
  <1>3. /\ handlers' \in Seq(LayerSurfaces) /\ Layer!IsInjective(handlers')
        /\ \A i \in 1..Len(handlers') : handlers'[i] # s
                                        /\ \E j \in 1..Len(handlers) : handlers'[i] = handlers[j]
    <2> DEFINE gone == {s}
               q == handlers
    <2>1. handlers' = Layer!Detached(q, gone)
      BY DEF Layer!Released
    <2>2. q \in Seq(LayerSurfaces) /\ Layer!IsInjective(q)
      BY <1>1
    <2> HIDE DEF gone, q
    <2> DEFINE r == Layer!Detached(q, gone)
    <2>3. /\ r \in Seq(LayerSurfaces) /\ Layer!IsInjective(r)
          /\ \A i \in 1..Len(r) : r[i] \notin gone /\ \E j \in 1..Len(q) : r[i] = q[j]
      BY <2>2, DetachedOthers
    <2> HIDE DEF r
    <2> QED BY <2>1, <2>3 DEF gone, q, r
  <1>4. \A t \in LayerSurfaces : t # s => ls'[t] = ls[t]
    BY <1>1
  <1>5. \A i \in 1..Len(handlers') : Borrowed(ls'[handlers'[i]])
    BY <1>2, <1>3, <1>4
  <1> QED BY <1>3, <1>5, HandsMeanNext DEF Hands

LEMMA HandsFocus ==
  ASSUME Layer!IInv, NEW s \in LayerSurfaces, NEW l, ls' = [ls EXCEPT ![s] = l],
         NEW k, handlers' = Layer!Focus(handlers, s, k), Layer!Borrows(k) => Borrowed(l)
  PROVE  Hands'
  <1>1. /\ handlers \in Seq(LayerSurfaces) /\ Layer!IsInjective(handlers)
        /\ ls \in [LayerSurfaces -> Layer!Layers]
    BY DEF Layer!IInv
  <1>2. CASE ~Layer!Borrows(k)
    BY <1>2, HandsReleased DEF Layer!Focus
  <1>3. CASE Layer!Borrows(k) /\ s \in {handlers[i] : i \in DOMAIN handlers}
    BY <1>3, HandsSame DEF Layer!Focus
  <1>4. CASE Layer!Borrows(k) /\ s \notin {handlers[i] : i \in DOMAIN handlers}
    <2>1. handlers' = Append(handlers, s)
      BY <1>4 DEF Layer!Focus
    <2>2. /\ \A i \in 1..Len(handlers) : handlers[i] \in LayerSurfaces /\ handlers[i] # s
          /\ Len(handlers) \in Nat /\ DOMAIN handlers = 1..Len(handlers)
      BY <1>1, <1>4
    <2>3. /\ handlers' \in Seq(LayerSurfaces) /\ DOMAIN handlers' = 1..(Len(handlers) + 1)
          /\ Len(handlers') = Len(handlers) + 1
          /\ \A i \in 1..Len(handlers) : handlers'[i] = handlers[i]
          /\ handlers'[Len(handlers) + 1] = s
      BY <1>1, <2>1
    <2>4. \A i \in 1..(Len(handlers) + 1) : i \in 1..Len(handlers) \/ i = Len(handlers) + 1
      BY <2>2
    <2>5. Layer!IsInjective(handlers')
      BY <1>1, <2>2, <2>3, <2>4 DEF Layer!IsInjective
    <2>6. \A i \in 1..Len(handlers) : Borrowed(ls[handlers[i]])
      BY <1>1, HandsMean DEF Layer!IInv
    <2>7. /\ \A t \in LayerSurfaces : t # s => ls'[t] = ls[t]
          /\ ls'[s] = l
      BY <1>1
    <2>8. \A i \in 1..Len(handlers') : Borrowed(ls'[handlers'[i]])
      BY <1>4, <2>2, <2>3, <2>4, <2>6, <2>7
    <2> QED BY <2>3, <2>5, <2>8, HandsMeanNext DEF Hands
  <1> QED BY <1>2, <1>3, <1>4

(* A function changed nowhere.                                              *)
LEMMA Same ==
  ASSUME NEW f, NEW S, NEW T, f \in [S -> T], NEW s
  PROVE  f = [f EXCEPT ![s] = f[s]]
  OBVIOUS

LEMMA LayerTyped ==
  ASSUME Layer!IInv
  PROVE  /\ ls \in [LayerSurfaces -> Layer!Layers] /\ wire \in [LayerSurfaces -> Seq(Layer!Events)]
         /\ client \in [LayerSurfaces -> Layer!Clients] /\ mode \in LayerModes
         /\ \A s \in LayerSurfaces : /\ Layer!SurfaceKept(ls[s], wire[s], client[s])
                                     /\ ls = [ls EXCEPT ![s] = ls[s]]
                                     /\ wire = [wire EXCEPT ![s] = wire[s]]
                                     /\ client = [client EXCEPT ![s] = client[s]]
  BY DEF Layer!IInv

-----------------------------------------------------------------------------
(* Layer surfaces: the steps.                                               *)

LEMMA GetStep ==
  ASSUME Layer!IInv, NEW s \in LayerSurfaces, NEW o \in LayerOutputs \cup {"none"},
         NEW low \in BOOLEAN, Layer!GetLayerSurface(s, o, low)
  PROVE  Layer!IInv'
  <1> DEFINE l == [Layer!GetClears(ls[s]) EXCEPT !.resource = TRUE, !.window = TRUE,
                     !.ready = FALSE, !.desktop = low, !.closed = FALSE, !.output = o,
                     !.timer = FALSE]
  <1>1. /\ ~ls[s].resource /\ ls[s].buffer = Layer!Unset /\ ls' = [ls EXCEPT ![s] = l]
        /\ client' = [client EXCEPT ![s] = Layer!NewClient]
        /\ wire' = [wire EXCEPT ![s] = wire[s]] /\ handlers' = handlers
        /\ mode' = mode /\ outputs' = outputs
    BY LayerTyped DEF Layer!GetLayerSurface
  <1>2. Layer!SurfaceKept(l, wire[s], Layer!NewClient)
    BY <1>1, LayerTyped, GetKept
  <1>3. ~Borrowed(ls[s])
    BY <1>1 DEF Borrowed
  <1> HIDE DEF l
  <1>4. Hands'
    BY <1>1, <1>3, HandsSame
  <1> QED BY <1>1, <1>2, <1>4, OneSurface

LEMMA SetStep ==
  ASSUME Layer!IInv, NEW s \in LayerSurfaces, NEW state \in Layer!Asked, Layer!SetState(s, state)
  PROVE  Layer!IInv'
  <1> DEFINE m == [ls[s] EXCEPT !.pending = state, !.changed = TRUE]
             l == IF ls[s].closed THEN ls[s] ELSE m
  <1>1. /\ ls[s].resource /\ ls' = [ls EXCEPT ![s] = l]
        /\ client' = [client EXCEPT ![s] = client[s]]
        /\ wire' = [wire EXCEPT ![s] = wire[s]] /\ handlers' = handlers
        /\ mode' = mode /\ outputs' = outputs
    BY LayerTyped DEF Layer!SetState
  <1>2. Layer!SurfaceKept(l, wire[s], client[s])
    BY <1>1, LayerTyped, SetKept
  <1>3. Borrowed(ls[s]) => Borrowed(l)
    <2>1. ls[s] \in Layer!Layers
      BY LayerTyped
    <2> QED BY <2>1 DEF Borrowed, Layer!Mapped, Layer!Layers
  <1> HIDE DEF l
  <1>4. Hands'
    BY <1>1, <1>3, HandsSame
  <1> QED BY <1>1, <1>2, <1>4, OneSurface

LEMMA CommitStep ==
  ASSUME Layer!IInv, NEW s \in LayerSurfaces, NEW buffer \in Layer!Buffers, Layer!Commit(s, buffer)
  PROVE  Layer!IInv'
  <1>1. /\ Layer!SurfaceKept(ls[s], wire[s], client[s]) /\ ls[s] \in Layer!Layers
        /\ client[s] \in Layer!Clients /\ wire[s] \in Seq(Layer!Events) /\ mode \in LayerModes
    BY LayerTyped
  <1>2. /\ client[s].killed = "no" /\ ls[s].resource /\ Len(wire[s]) < LayerWire
        /\ mode' = mode /\ outputs' = outputs
    BY DEF Layer!Commit, Layer!Runs, Layer!Room
  <1>3. CASE Layer!CommitRejected(s, buffer)
    <2>1. /\ ~Layer!Polite(s, buffer)
          /\ Layer!SurfaceKept(ls[s], wire[s], [client[s] EXCEPT !.killed = "rude"])
      BY <1>1, <1>2, <1>3, RejectedKept
    <2> DEFINE c == [client[s] EXCEPT !.killed = "rude"]
    <2>2. /\ ls' = [ls EXCEPT ![s] = ls[s]] /\ wire' = [wire EXCEPT ![s] = wire[s]]
          /\ handlers' = handlers /\ client' = [client EXCEPT ![s] = c]
      BY <1>3, <2>1, LayerTyped DEF Layer!CommitRejected
    <2>3. Hands'
      BY <2>2, HandsSame
    <2> HIDE DEF c
    <2> QED BY <1>2, <2>1, <2>2, <2>3, OneSurface DEF c
  <1>4. CASE Layer!Polite(s, buffer) /\ Layer!CommitIgnored(s, buffer)
    <2> DEFINE l == Layer!Attached(ls[s], buffer)
               c == Layer!After(client[s], buffer)
    <2>1. /\ ~ls[s].window \/ ls[s].closed
          /\ ls' = [ls EXCEPT ![s] = l] /\ wire' = [wire EXCEPT ![s] = wire[s]]
          /\ handlers' = handlers /\ client' = [client EXCEPT ![s] = c]
      BY <1>4, LayerTyped DEF Layer!CommitIgnored
    <2>2. Layer!SurfaceKept(l, wire[s], c)
      BY <1>1, <1>2, <2>1, IgnoredKept
    <2>3. ~Borrowed(ls[s])
      BY <1>1, <1>2, <2>1 DEF Borrowed, Layer!SurfaceKept, Layer!LifeKept
    <2> HIDE DEF l, c
    <2>4. Hands'
      BY <2>1, <2>3, HandsSame
    <2> QED BY <1>2, <2>1, <2>2, <2>4, OneSurface
  <1>5. CASE Layer!Polite(s, buffer) /\ Layer!CommitUnmaps(s, buffer)
    <2> DEFINE l == [Layer!Reset(ls[s]) EXCEPT !.buffer = Layer!Unset, !.strut = 0]
               q == Layer!Forgotten(wire[s])
               c == Layer!After(client[s], buffer)
    <2>1. /\ ls[s].window /\ ~ls[s].closed /\ ls[s].configured /\ buffer = Layer!Null
          /\ ls' = [ls EXCEPT ![s] = l] /\ wire' = [wire EXCEPT ![s] = q]
          /\ handlers' = Layer!Released(handlers, s) /\ client' = [client EXCEPT ![s] = c]
      BY <1>5 DEF Layer!CommitUnmaps
    <2>2. client[s].acked
      BY <1>1, <1>2, <1>5, <2>1, PoliteAccepted
    <2>3. Layer!SurfaceKept(l, q, c)
      BY <1>1, <1>2, <2>1, <2>2, UnmapsKept
    <2> HIDE DEF l, q, c
    <2>4. Hands'
      BY <2>1, HandsReleased
    <2> QED BY <1>2, <2>1, <2>3, <2>4, OneSurface
  <1>6. CASE Layer!Polite(s, buffer) /\ Layer!CommitApplies(s, buffer)
    <2> DEFINE k == Committed(ls[s], buffer)
               a == Answers(ls[s], buffer)
               l == Shown(LayerSent(ls[s], buffer))
               q == IF a THEN Layer!Configure(wire[s], Layer!Size(k)) ELSE wire[s]
               c == Layer!After(client[s], buffer)
    <2>1. /\ ls[s].window /\ ~ls[s].closed /\ Layer!Valid(Applied(ls[s]))
          /\ buffer \in Layer!Sizes => ls[s].configured /\ ls[s].acked
          /\ ~(buffer = Layer!Null /\ ls[s].configured)
          /\ ls' = [ls EXCEPT ![s] = l] /\ wire' = [wire EXCEPT ![s] = q]
          /\ handlers' = Layer!Focus(handlers, s, k) /\ client' = [client EXCEPT ![s] = c]
      <3>1. k.window = ls[s].window /\ k.closed = ls[s].closed /\ k.configured = ls[s].configured
            /\ k.acked = ls[s].acked /\ k.last = ls[s].last
        BY <1>1, CommittedTyped
      <3> QED BY <1>6, <3>1
              DEF Layer!CommitApplies, Applied, Answers, Committed, LayerSent, Shown
    <2>2. Layer!SurfaceKept(l, q, c)
      <3>1. ~client[s].committed => wire[s] = <<>>
        BY <1>1, <1>2, <1>6, <2>1, PoliteAccepted
      <3> QED BY <1>1, <1>2, <2>1, <3>1, AppliesKept
    <2>3. Layer!Borrows(k) => Borrowed(l)
      <3>1. k \in Layer!Layers /\ k.resource = ls[s].resource /\ k.closed = ls[s].closed
        BY <1>1, CommittedTyped
      <3> DEFINE m == LayerSent(ls[s], buffer)
      <3>2. m = Layer!ConfiguredTo(k, Layer!Size(k)) \/ m = k
        BY DEF LayerSent
      <3>3. l = Layer!Placed(m) \/ l = m
        BY DEF Shown
      <3> HIDE DEF k, m, l
      <3>4. /\ m.resource = k.resource /\ m.closed = k.closed /\ m.buffer = k.buffer
            /\ m.current = k.current /\ DOMAIN m = DOMAIN k
        BY <3>1, <3>2 DEF Layer!ConfiguredTo, Layer!Layers
      <3>5. /\ l.resource = m.resource /\ l.closed = m.closed /\ l.buffer = m.buffer
            /\ l.current = m.current
        BY <3>1, <3>3, <3>4 DEF Layer!Placed, Layer!Layers
      <3> QED BY <1>2, <2>1, <3>1, <3>4, <3>5 DEF Layer!Borrows, Borrowed, Layer!Mapped
    <2> HIDE DEF k, a, l, q, c
    <2>4. Hands'
      BY <2>1, <2>3, HandsFocus
    <2> QED BY <1>2, <2>1, <2>2, <2>4, OneSurface
  <1> QED BY <1>3, <1>4, <1>5, <1>6 DEF Layer!Commit

LEMMA BareStep ==
  ASSUME Layer!IInv, NEW s \in LayerSurfaces, Layer!CommitBare(s)
  PROVE  Layer!IInv'
  <1> DEFINE l == Layer!Attached(ls[s], Layer!Null)
  <1>1. /\ ~ls[s].resource /\ ls' = [ls EXCEPT ![s] = l]
        /\ client' = [client EXCEPT ![s] = client[s]]
        /\ wire' = [wire EXCEPT ![s] = wire[s]] /\ handlers' = handlers
        /\ mode' = mode /\ outputs' = outputs
    BY LayerTyped DEF Layer!CommitBare
  <1>2. Layer!SurfaceKept(l, wire[s], client[s])
    BY <1>1, LayerTyped, BareKept
  <1>3. ~Borrowed(ls[s])
    BY <1>1 DEF Borrowed
  <1> HIDE DEF l
  <1>4. Hands'
    BY <1>1, <1>3, HandsSame
  <1> QED BY <1>1, <1>2, <1>4, OneSurface

LEMMA ReadStep ==
  ASSUME Layer!IInv, NEW s \in LayerSurfaces, Layer!Read(s)
  PROVE  Layer!IInv'
  <1> DEFINE e == Head(wire[s])
             acks == e.kind # "closed" /\ client[s].committed
             l == IF acks /\ e.kind = "live" /\ ~ls[s].closed
                  THEN [ls[s] EXCEPT !.acked = TRUE] ELSE ls[s]
             c == IF e.kind = "closed" THEN [client[s] EXCEPT !.closed = TRUE]
                  ELSE IF ~acks THEN client[s]
                  ELSE IF e.kind = "dead" /\ ~ls[s].closed
                       THEN [client[s] EXCEPT !.killed = "polite"]
                  ELSE [client[s] EXCEPT !.acked = TRUE, !.size = e.size, !.behind = TRUE]
             q == Tail(wire[s])
  <1>1. /\ client[s].killed = "no" /\ wire[s] # <<>>
        /\ ls' = [ls EXCEPT ![s] = l] /\ client' = [client EXCEPT ![s] = c]
        /\ wire' = [wire EXCEPT ![s] = q] /\ handlers' = handlers
        /\ mode' = mode /\ outputs' = outputs
    BY LayerTyped DEF Layer!Read, Layer!Runs
  <1>2. Layer!SurfaceKept(l, q, c)
    BY <1>1, LayerTyped, ReadKept
  <1>3. Borrowed(ls[s]) => Borrowed(l)
    <2>1. ls[s] \in Layer!Layers
      BY LayerTyped
    <2>2. l = ls[s] \/ l = [ls[s] EXCEPT !.acked = TRUE]
      OBVIOUS
    <2> HIDE DEF l
    <2> QED BY <2>1, <2>2 DEF Borrowed, Layer!Mapped, Layer!Layers
  <1> HIDE DEF e, acks, l, c, q
  <1>4. Hands'
    BY <1>1, <1>3, HandsSame
  <1> QED BY <1>1, <1>2, <1>4, OneSurface

LEMMA DestroyStep ==
  ASSUME Layer!IInv, NEW s \in LayerSurfaces, Layer!Destroy(s)
  PROVE  Layer!IInv'
  <1> DEFINE l == [Layer!WindowGone(ls[s]) EXCEPT !.resource = FALSE, !.output = "none",
                                                  !.timer = FALSE]
  <1>1. /\ ls' = [ls EXCEPT ![s] = l] /\ client' = [client EXCEPT ![s] = Layer!NewClient]
        /\ wire' = [wire EXCEPT ![s] = <<>>] /\ handlers' = Layer!Released(handlers, s)
        /\ mode' = mode /\ outputs' = outputs
    BY DEF Layer!Destroy
  <1>2. Layer!SurfaceKept(l, <<>>, Layer!NewClient)
    BY LayerTyped, DestroyKept
  <1> HIDE DEF l
  <1>3. Hands'
    BY <1>1, HandsReleased
  <1> QED BY <1>1, <1>2, <1>3, OneSurface

LEMMA DisconnectStep ==
  ASSUME Layer!IInv, NEW s \in LayerSurfaces, Layer!Disconnect(s)
  PROVE  Layer!IInv'
  <1>1. /\ ls' = [ls EXCEPT ![s] = Layer!Absent]
        /\ client' = [client EXCEPT ![s] = Layer!NewClient]
        /\ wire' = [wire EXCEPT ![s] = <<>>] /\ handlers' = Layer!Released(handlers, s)
        /\ mode' = mode /\ outputs' = outputs
    BY DEF Layer!Disconnect
  <1>2. Hands'
    BY <1>1, HandsReleased
  <1> QED BY <1>1, <1>2, AbsentKept, OneSurface

LEMMA ClosesStep ==
  ASSUME Layer!IInv, NEW s \in LayerSurfaces, Layer!Closes(s)
  PROVE  Layer!IInv'
  <1>1. PICK o \in {ls[s].output, "none"} : ls' = [ls EXCEPT ![s] = [Layer!Close(ls[s]) EXCEPT !.output = o]]
    BY DEF Layer!Closes
  <1> DEFINE l == [Layer!Close(ls[s]) EXCEPT !.output = o]
             q == Layer!ClosedEvent(wire[s])
  <1>2. /\ ls[s].resource /\ Len(wire[s]) < LayerWire
        /\ client' = [client EXCEPT ![s] = client[s]]
        /\ wire' = [wire EXCEPT ![s] = q] /\ handlers' = Layer!Released(handlers, s)
        /\ mode' = mode /\ outputs' = outputs
    BY LayerTyped DEF Layer!Closes, Layer!Room
  <1>3. o \in LayerOutputs \cup {"none"}
    BY LayerTyped DEF Layer!Layers
  <1>4. Layer!SurfaceKept(l, q, client[s])
    BY <1>2, <1>3, LayerTyped, CloseKept
  <1> HIDE DEF l, q
  <1>5. ls' = [ls EXCEPT ![s] = l]
    BY <1>1 DEF l
  <1>6. Hands'
    BY <1>2, <1>5, HandsReleased
  <1> QED BY <1>2, <1>4, <1>5, <1>6, OneSurface

LEMMA WindowStep ==
  ASSUME Layer!IInv, NEW s \in LayerSurfaces, Layer!DestroyWindow(s)
  PROVE  Layer!IInv'
  <1> DEFINE l == [(IF ls[s].closed THEN Layer!WindowGone(ls[s]) ELSE ls[s]) EXCEPT !.timer = FALSE]
  <1>1. /\ ls[s].timer /\ ls' = [ls EXCEPT ![s] = l]
        /\ client' = [client EXCEPT ![s] = client[s]]
        /\ wire' = [wire EXCEPT ![s] = wire[s]] /\ handlers' = handlers
        /\ mode' = mode /\ outputs' = outputs
    BY LayerTyped DEF Layer!DestroyWindow
  <1>2. Layer!SurfaceKept(l, wire[s], client[s])
    BY <1>1, LayerTyped, WindowKept
  <1>3. Borrowed(ls[s]) => Borrowed(l)
    <2>1. ls[s] \in Layer!Layers
      BY LayerTyped
    <2>2. ~ls[s].closed => l = [ls[s] EXCEPT !.timer = FALSE]
      OBVIOUS
    <2> HIDE DEF l
    <2> QED BY <2>1, <2>2 DEF Borrowed, Layer!Mapped, Layer!Layers
  <1> HIDE DEF l
  <1>4. Hands'
    BY <1>1, <1>3, HandsSame
  <1> QED BY <1>1, <1>2, <1>4, OneSurface

LEMMA ConfiguresStep ==
  ASSUME Layer!IInv, NEW s \in LayerSurfaces, Layer!Configures(s)
  PROVE  Layer!IInv'
  <1> DEFINE size == Layer!Size(ls[s])
             l == Layer!ConfiguredTo(ls[s], size)
             q == Layer!Configure(wire[s], size)
  <1>1. /\ ls[s].resource /\ ls[s].window /\ ls[s].ready /\ ~ls[s].closed
        /\ Len(wire[s]) < LayerWire /\ ls' = [ls EXCEPT ![s] = l]
        /\ client' = [client EXCEPT ![s] = client[s]]
        /\ wire' = [wire EXCEPT ![s] = q] /\ handlers' = handlers
        /\ mode' = mode /\ outputs' = outputs
    BY LayerTyped DEF Layer!Configures, Layer!Room
  <1>2. size \in Layer!Sizes
    BY LayerTyped, Marks DEF Layer!Size
  <1>3. Layer!SurfaceKept(l, q, client[s])
    BY <1>1, <1>2, LayerTyped, ConfiguredKept
  <1>4. Borrowed(ls[s]) => Borrowed(l)
    <2>1. ls[s] \in Layer!Layers
      BY LayerTyped
    <2> HIDE DEF size
    <2> QED BY <2>1 DEF Borrowed, Layer!Mapped, Layer!Layers, Layer!ConfiguredTo
  <1> HIDE DEF l, q, size
  <1>5. Hands'
    BY <1>1, <1>4, HandsSame
  <1> QED BY <1>1, <1>3, <1>5, OneSurface

LEMMA UnplugStep ==
  ASSUME Layer!IInv, NEW o \in LayerOutputs, Layer!Unplug(o)
  PROVE  Layer!IInv'
  <1> DEFINE closing == {s \in LayerSurfaces : Layer!Follows(ls[s], o) /\ ~ls[s].closed}
             L(s) == IF s \in closing THEN [Layer!Close(ls[s]) EXCEPT !.output = "none"]
                     ELSE IF ls[s].output = o THEN [ls[s] EXCEPT !.output = "none"] ELSE ls[s]
             Q(s) == IF s \in closing THEN Layer!ClosedEvent(wire[s]) ELSE wire[s]
  <1>1. /\ ls' = [s \in LayerSurfaces |-> L(s)] /\ wire' = [s \in LayerSurfaces |-> Q(s)]
        /\ handlers' = Layer!Detached(handlers, closing) /\ outputs' = outputs \ {o}
        /\ client' = client /\ mode' = mode
        /\ \A s \in closing : Len(wire[s]) < LayerWire
    BY DEF Layer!Unplug, Layer!Room
  <1>2. ASSUME NEW s \in LayerSurfaces
        PROVE  /\ Layer!SurfaceKept(L(s), Q(s), client[s])
               /\ s \notin closing /\ Borrowed(ls[s]) => Borrowed(L(s))
    <2>1. Layer!SurfaceKept(ls[s], wire[s], client[s]) /\ ls[s] \in Layer!Layers
      BY LayerTyped
    <2>2. CASE s \in closing
      <3>1. ls[s].resource
        BY <2>1, <2>2, Marks DEF Layer!SurfaceKept, Layer!LifeKept, Layer!Follows
      <3>2. Layer!SurfaceKept([Layer!Close(ls[s]) EXCEPT !.output = "none"],
                              Layer!ClosedEvent(wire[s]), client[s])
        BY <1>1, <2>1, <2>2, <3>1, CloseKept
      <3> HIDE DEF closing
      <3> QED BY <2>2, <3>2
    <2>3. CASE s \notin closing /\ ls[s].output = o
      <3> DEFINE m == [ls[s] EXCEPT !.output = "none"]
      <3>1. Layer!SurfaceKept(m, wire[s], client[s])
        BY <2>1, UnfollowedKept
      <3>2. Borrowed(ls[s]) => Borrowed(m)
        BY <2>1 DEF Borrowed, Layer!Mapped, Layer!Layers
      <3>3. L(s) = m /\ Q(s) = wire[s]
        <4> HIDE DEF closing
        <4> QED BY <2>3
      <3> HIDE DEF L, Q, m
      <3> QED BY <3>1, <3>2, <3>3
    <2>4. CASE s \notin closing /\ ls[s].output # o
      <3> HIDE DEF closing
      <3> QED BY <2>1, <2>4
    <2> QED BY <2>2, <2>3, <2>4
  <1>3. handlers \in Seq(LayerSurfaces) /\ Layer!IsInjective(handlers)
    BY DEF Layer!IInv
  <1> HIDE DEF closing
  <1>4. /\ handlers' \in Seq(LayerSurfaces) /\ Layer!IsInjective(handlers')
        /\ \A i \in 1..Len(handlers') : /\ handlers'[i] \notin closing
                                        /\ \E j \in 1..Len(handlers) : handlers'[i] = handlers[j]
    <2> DEFINE q == handlers
               r == Layer!Detached(q, closing)
    <2>1. handlers' = r
      BY <1>1
    <2> HIDE DEF q
    <2>2. /\ r \in Seq(LayerSurfaces) /\ Layer!IsInjective(r)
          /\ \A i \in 1..Len(r) : r[i] \notin closing /\ \E j \in 1..Len(q) : r[i] = q[j]
      BY <1>3, DetachedOthers DEF q
    <2> HIDE DEF r
    <2> QED BY <2>1, <2>2 DEF q
  <1> HIDE DEF L, Q
  <1>5. \A s \in LayerSurfaces : ls'[s] = L(s) /\ wire'[s] = Q(s) /\ client'[s] = client[s]
    BY <1>1
  <1>6. \A i \in 1..Len(handlers) : handlers[i] \in LayerSurfaces /\ Borrowed(ls[handlers[i]])
    BY <1>3, HandsMean DEF Layer!IInv
  <1>7. \A i \in 1..Len(handlers') : Borrowed(ls'[handlers'[i]])
    BY <1>2, <1>4, <1>5, <1>6
  <1>8. (Layer!KeyboardReturns)'
    BY <1>4, <1>7, HandsMeanNext
  <1>9. \A s \in LayerSurfaces : /\ L(s) \in Layer!Layers /\ Q(s) \in Seq(Layer!Events)
                                 /\ Layer!SurfaceKept(ls'[s], wire'[s], client'[s])
    BY <1>2, <1>5 DEF Layer!SurfaceKept
  <1>10. ls' \in [LayerSurfaces -> Layer!Layers] /\ wire' \in [LayerSurfaces -> Seq(Layer!Events)]
    BY <1>1, <1>9
  <1> QED BY <1>1, <1>4, <1>8, <1>9, <1>10 DEF Layer!IInv

LEMMA ModeStep ==
  ASSUME Layer!IInv, NEW m \in LayerModes, Layer!ModeChange(m)
  PROVE  Layer!IInv'
  <1> DEFINE resized == {s \in LayerSurfaces : Layer!Resized(ls[s], m)}
             L(s) == IF s \in resized THEN Layer!ConfiguredTo(ls[s], m) ELSE ls[s]
             Q(s) == IF s \in resized THEN Layer!Configure(wire[s], m) ELSE wire[s]
  <1>1. /\ ls' = [s \in LayerSurfaces |-> L(s)] /\ wire' = [s \in LayerSurfaces |-> Q(s)]
        /\ handlers' = handlers /\ outputs' = outputs
        /\ client' = client /\ mode' = m
        /\ \A s \in resized : Len(wire[s]) < LayerWire
    BY DEF Layer!ModeChange, Layer!Room
  <1>2. ASSUME NEW s \in LayerSurfaces
        PROVE  /\ Layer!SurfaceKept(L(s), Q(s), client[s])
               /\ Borrowed(ls[s]) => Borrowed(L(s))
    <2>1. Layer!SurfaceKept(ls[s], wire[s], client[s]) /\ ls[s] \in Layer!Layers
      BY LayerTyped
    <2>2. CASE s \in resized
      <3> DEFINE k == Layer!ConfiguredTo(ls[s], m)
      <3>1. ls[s].resource /\ ls[s].configured /\ ~ls[s].closed /\ ls[s].window
        BY <2>2 DEF Layer!Resized
      <3>2. Layer!SurfaceKept(k, Layer!Configure(wire[s], m), client[s])
        BY <1>1, <2>1, <2>2, <3>1, ConfiguredKept, Marks
      <3>3. Borrowed(ls[s]) => Borrowed(k)
        BY <2>1 DEF Borrowed, Layer!Mapped, Layer!Layers, Layer!ConfiguredTo
      <3> HIDE DEF resized
      <3>4. L(s) = k /\ Q(s) = Layer!Configure(wire[s], m)
        BY <2>2
      <3> HIDE DEF L, Q, k
      <3> QED BY <3>2, <3>3, <3>4
    <2>3. CASE s \notin resized
      <3> HIDE DEF resized
      <3> QED BY <2>1, <2>3
    <2> QED BY <2>2, <2>3
  <1>3. handlers \in Seq(LayerSurfaces) /\ Layer!IsInjective(handlers)
    BY DEF Layer!IInv
  <1> HIDE DEF resized, L, Q
  <1>4. \A s \in LayerSurfaces : ls'[s] = L(s) /\ wire'[s] = Q(s) /\ client'[s] = client[s]
    BY <1>1
  <1>5. \A i \in 1..Len(handlers) : handlers[i] \in LayerSurfaces /\ Borrowed(ls[handlers[i]])
    BY <1>3, HandsMean DEF Layer!IInv
  <1>6. (Layer!KeyboardReturns)'
    BY <1>1, <1>2, <1>3, <1>4, <1>5, HandsMeanNext
  <1>7. \A s \in LayerSurfaces : /\ L(s) \in Layer!Layers /\ Q(s) \in Seq(Layer!Events)
                                 /\ Layer!SurfaceKept(ls'[s], wire'[s], client'[s])
    BY <1>2, <1>4 DEF Layer!SurfaceKept
  <1>8. ls' \in [LayerSurfaces -> Layer!Layers] /\ wire' \in [LayerSurfaces -> Seq(Layer!Events)]
    BY <1>1, <1>7
  <1> QED BY <1>1, <1>3, <1>6, <1>7, <1>8 DEF Layer!IInv

(* What names the outputs, and whether menus may borrow the keyboard.       *)
LEMMA OthersStep ==
  ASSUME Layer!IInv,
         \/ UNCHANGED layerVars
         \/ \E o \in LayerOutputs : Layer!Plug(o)
         \/ Layer!SetPreserve
  PROVE  Layer!IInv'
  <1>1. /\ ls' = ls /\ wire' = wire /\ client' = client /\ handlers' = handlers /\ mode' = mode
        /\ outputs' \subseteq LayerOutputs
    BY DEF layerVars, Layer!Plug, Layer!SetPreserve, Layer!IInv
  <1>2. (Layer!KeyboardReturns)'
    BY <1>1 DEF Layer!IInv, Layer!KeyboardReturns, Layer!Range
  <1> QED BY <1>1, <1>2 DEF Layer!IInv

LEMMA LayerInit == Layer!Init => Layer!IInv
  <1> SUFFICES ASSUME Layer!Init PROVE Layer!IInv
    OBVIOUS
  <1>1. /\ ls = [s \in LayerSurfaces |-> Layer!Absent] /\ wire = [s \in LayerSurfaces |-> <<>>]
        /\ client = [s \in LayerSurfaces |-> Layer!NewClient] /\ handlers = <<>>
        /\ outputs = LayerOutputs /\ mode \in LayerModes
    BY DEF Layer!Init
  <1>2. /\ Layer!Absent \in Layer!Layers /\ <<>> \in Seq(Layer!Events)
        /\ Layer!NewClient \in Layer!Clients
    BY AbsentKept DEF Layer!SurfaceKept
  <1>3. handlers \in Seq(LayerSurfaces) /\ DOMAIN handlers = {} /\ Len(handlers) = 0
    BY <1>1
  <1>4. Layer!IsInjective(handlers) /\ Layer!KeyboardReturns
    BY <1>3, HandsMean DEF Layer!IsInjective
  <1> QED BY <1>1, <1>2, <1>3, <1>4, AbsentKept DEF Layer!IInv

LEMMA LayerStep == Layer!IInv /\ (Layer!Next \/ UNCHANGED layerVars) => Layer!IInv'
  <1> SUFFICES ASSUME Layer!IInv, Layer!Next \/ UNCHANGED layerVars PROVE Layer!IInv'
    OBVIOUS
  <1>1. ASSUME NEW s \in LayerSurfaces, Layer!SurfaceStep(s) PROVE Layer!IInv'
    BY <1>1, GetStep, SetStep, CommitStep, BareStep, ReadStep, DestroyStep, DisconnectStep,
       ClosesStep, WindowStep, ConfiguresStep DEF Layer!SurfaceStep
  <1>2. ASSUME NEW o \in LayerOutputs, Layer!Unplug(o) PROVE Layer!IInv'
    BY <1>2, UnplugStep
  <1>3. ASSUME NEW m \in LayerModes, Layer!ModeChange(m) PROVE Layer!IInv'
    BY <1>3, ModeStep
  <1>4. CASE UNCHANGED layerVars
    BY <1>4, OthersStep
  <1>5. CASE \E o \in LayerOutputs : Layer!Plug(o)
    BY <1>5, OthersStep
  <1>6. CASE Layer!SetPreserve
    BY <1>6, OthersStep
  <1> QED BY <1>1, <1>2, <1>3, <1>4, <1>5, <1>6 DEF Layer!Next

LEMMA LayerTrue == Layer!IInv =>
  /\ Layer!TypeOK /\ Layer!KeyboardReturns /\ Layer!NothingReservedForNobody
  /\ Layer!ReservedAsDrawn /\ Layer!ClosedTimed
  /\ Layer!HandshakeAnswered /\ Layer!PoliteNeverKilled
  <1> SUFFICES ASSUME Layer!IInv
               PROVE  /\ Layer!TypeOK /\ Layer!KeyboardReturns /\ Layer!NothingReservedForNobody
                      /\ Layer!ReservedAsDrawn /\ Layer!ClosedTimed
                      /\ Layer!HandshakeAnswered /\ Layer!PoliteNeverKilled
    OBVIOUS
  <1>1. Layer!TypeOK
    BY DEF Layer!IInv, Layer!TypeOK, Layer!SurfaceKept, Layer!Layers
  <1>2. Layer!KeyboardReturns
    BY DEF Layer!IInv
  <1>3. Layer!NothingReservedForNobody /\ Layer!ClosedTimed /\ Layer!PoliteNeverKilled
    BY DEF Layer!IInv, Layer!NothingReservedForNobody, Layer!ClosedTimed, Layer!PoliteNeverKilled,
           Layer!SurfaceKept, Layer!LifeKept
  <1>4. Layer!ReservedAsDrawn
    <2> SUFFICES ASSUME NEW s \in LayerSurfaces, ls[s].window, ~ls[s].closed, Layer!Mapped(ls[s]),
                        ls[s].current.size = "fill", ls[s].current.zone = 1,
                        ls[s].last = Layer!Size(ls[s]), wire[s] = <<>>, client[s].acked,
                        ~client[s].behind
                 PROVE  ls[s].strut = mode
      BY DEF Layer!ReservedAsDrawn
    <2>1. Layer!LifeKept(ls[s], wire[s], client[s]) /\ Layer!HandshakeKept(ls[s], wire[s], client[s])
      BY DEF Layer!IInv, Layer!SurfaceKept
    <2>2. ls[s].resource
      BY <2>1 DEF Layer!LifeKept
    <2>3. ~Layer!Carries(wire[s], {"live"})
      BY CarriesNothing
    <2>4. ls[s].strut = ls[s].last
      BY <2>1, <2>2, <2>3 DEF Layer!HandshakeKept
    <2> QED BY <2>4 DEF Layer!Size
  <1>5. Layer!HandshakeAnswered
    <2> SUFFICES ASSUME NEW s \in LayerSurfaces, ls[s].resource, client[s].committed,
                        ~client[s].acked, ~client[s].closed
                 PROVE  \E i \in DOMAIN wire[s] : wire[s][i].kind \in {"live", "closed"}
      BY DEF Layer!HandshakeAnswered
    <2>1. Layer!LifeKept(ls[s], wire[s], client[s]) /\ Layer!HandshakeKept(ls[s], wire[s], client[s])
      BY DEF Layer!IInv, Layer!SurfaceKept
    <2>2. Layer!Carries(wire[s], {"closed"}) \/ Layer!Carries(wire[s], {"live"})
      BY <2>1 DEF Layer!LifeKept, Layer!HandshakeKept
    <2> QED BY <2>2 DEF Layer!Carries
  <1> QED BY <1>1, <1>2, <1>3, <1>4, <1>5

(* What is mapped, reserved, drawn and focused of any layer surfaces agrees, *)
(* their handshakes are answered, and no client that keeps to the protocol   *)
(* is refused.                                                               *)
THEOREM LayersKept == AllSpec => []LayerSound
  <1> DEFINE I == Layer!IInv
  <1>1. AllInit => I
    BY LayerInit DEF AllInit
  <1>2. I /\ [AllNext]_allVars => I'
    BY LayerStep DEF AllNext, LockSteps, LayerSteps, FrameSteps, allVars
  <1>3. I => LayerSound
    BY LayerTrue DEF LayerSound
  <1> HIDE DEF I
  <1>4. AllInit /\ [][AllNext]_allVars => []LayerSound
    BY <1>1, <1>2, <1>3, PTL
  <1> QED BY <1>4 DEF AllSpec
=============================================================================
