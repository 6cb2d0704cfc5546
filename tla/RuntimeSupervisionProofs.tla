----------------------- MODULE RuntimeSupervisionProofs -----------------------
(***************************************************************************)
(* Proofs about RuntimeSupervision, for every restart limit, every number  *)
(* of configurations, every choice of fragmented messages and any number   *)
(* of deaths.                                                              *)
(*                                                                         *)
(* The invariant has four layers.  Counted bounds the restart counters.    *)
(* Processes (Chain and Roles) says which processes exist together and     *)
(* what the flags on their way to the guardian imply.  Channel says of     *)
(* the four queues which messages can still be in them, in which order and *)
(* for which worker, and follows a configuration from the worker that      *)
(* tries it to the answer it gets: Agreed, Asked, Answered.                *)
(*                                                                         *)
(* A queue is only reasoned about through Has, Once and Followed; Took and *)
(* Got say what taking the first frame and adding frames do to those       *)
(* three, and the actions are proved from them.                            *)
(***************************************************************************)
EXTENDS RuntimeSupervision, TLAPS

(* Whoever may start another worker or supervisor has restarts left or is at*)
(* the limit, never past it.                                                *)
Counted ==
  /\ supervisor.st = "run" => supervisor.restarts <= MaxRestarts
  /\ guardian.st \in {"run", "wait"} => guardian.restarts <= MaxRestarts

-----------------------------------------------------------------------------
(* What the assumptions on the constants give.                              *)
LEMMA Bounds ==
  /\ MaxRestarts \in Nat /\ MaxPoint \in Nat /\ MaxPoint >= 1 /\ Faults \in Nat
  /\ 0 \in Point /\ 1 \in Point
  /\ \A n \in Point : n \in Nat /\ n <= MaxPoint
  BY SupervisionAssumption DEF Point

(* The fields of a frame.                                                   *)
LEMMA FrameFields ==
  ASSUME NEW types, NEW f \in Frame(types)
  PROVE  /\ f.type \in types /\ f.part \in Part
         /\ f.type # "LIFECYCLE" => f.val \in Point
         /\ f.type = "LIFECYCLE" => f.val \in LcStates
  BY DEF Frame, LcStates

(* A message is a sequence of frames of its direction.                      *)
LEMMA Messages ==
  ASSUME NEW types, NEW type \in types, NEW val,
         IF type = "LIFECYCLE" THEN val \in {Starting, Running} ELSE val \in Point
  PROVE  Message(type, val) \in Seq(Frame(types))
  <1>1. \A part \in Part : [type |-> type, part |-> part, val |-> val] \in Frame(types)
    BY DEF Frame
  <1>2. [type |-> type, part |-> "first", val |-> val] \in Frame(types)
        /\ [type |-> type, part |-> "last", val |-> val] \in Frame(types)
        /\ [type |-> type, part |-> "whole", val |-> val] \in Frame(types)
    BY <1>1 DEF Part
  <1> QED BY <1>2 DEF Message

(* Appending and taking keep a sequence a sequence. *)
LEMMA Sequences ==
  ASSUME NEW S, NEW q \in Seq(S)
  PROVE  /\ \A r \in Seq(S) : q \o r \in Seq(S)
         /\ q # <<>> => Tail(q) \in Seq(S) /\ Head(q) \in S
         /\ \A e \in S : Append(q, e) \in Seq(S) /\ <<e>> \in Seq(S)
         /\ <<>> \in Seq(S)
  OBVIOUS

WorkerStates == {"none", "loading", "sending", "marked", "started", "up", "reloading",
                 "failed", "rejected", "loggedOut"}

(* What may be assigned to the fields of a worker.                          *)
LEMMA WorkerUpdates ==
  ASSUME NEW w \in Worker
  PROVE  /\ \A s \in WorkerStates : [w EXCEPT !.st = s] \in Worker
         /\ \A s \in WorkerStates, p \in Point : [w EXCEPT !.st = s, !.point = p] \in Worker
         /\ \A s \in WorkerStates, p \in Point : [w EXCEPT !.st = s, !.tried = p] \in Worker
         /\ \A s \in WorkerStates, p, t \in Point :
              [w EXCEPT !.st = s, !.point = p, !.tried = t] \in Worker
         /\ w.point \in Point /\ w.tried \in Point /\ w.resume \in BOOLEAN /\ w.st \in WorkerStates
  BY DEF Worker, WorkerStates

(* A new worker, its pipe and its writer.                                   *)
LEMMA Spawned ==
  ASSUME NEW resume \in BOOLEAN, NEW seed \in Point, SpawnWorker(resume, seed)
  PROVE  /\ worker' \in Worker /\ pipe' = {} /\ out' = <<>> /\ reader' = Idle
  BY DEF SpawnWorker, Worker

SupervisorStates == {"none", "run", "wait", "left", "failed", "loggedOut"}
(* What may be assigned to the fields of a supervisor.                      *)
LEMMA SupervisorUpdates ==
  ASSUME NEW s \in Supervisor
  PROVE  /\ \A x \in SupervisorStates : [s EXCEPT !.st = x] \in Supervisor
         /\ \A x \in SupervisorStates, p \in Point : [s EXCEPT !.st = x, !.seed = p] \in Supervisor
         /\ \A x \in SupervisorStates, b \in BOOLEAN, n \in 0..MaxRestarts + 1 :
              [s EXCEPT !.st = x, !.first = b, !.restarts = n] \in Supervisor
         /\ \A b \in BOOLEAN, n \in 0..MaxRestarts + 1 :
              [s EXCEPT !.first = b, !.restarts = n] \in Supervisor
         /\ s.st \in SupervisorStates /\ s.seed \in Point /\ s.resume \in BOOLEAN
         /\ s.first \in BOOLEAN /\ s.restarts \in 0..MaxRestarts + 1
  BY DEF Supervisor, SupervisorStates

(* A new supervisor and its first worker.                                   *)
LEMMA NewSupervisor ==
  ASSUME NEW resume \in BOOLEAN, NEW seed \in Point, SpawnSupervisor(resume, seed)
  PROVE  /\ supervisor' \in Supervisor /\ supervisor'.st = "run" /\ supervisor'.restarts = 0
         /\ worker' \in Worker /\ status' = {} /\ pipe' = {} /\ out' = <<>> /\ reader' = Idle
  <1>1. (IF resume THEN seed ELSE 0) \in Point
    BY Bounds
  <1>2. worker' \in Worker /\ pipe' = {} /\ out' = <<>> /\ reader' = Idle
    BY <1>1, Spawned DEF SpawnSupervisor
  <1>3. 0 \in 0..MaxRestarts + 1
    BY Bounds
  <1>4. supervisor' = [st |-> "run", resume |-> resume, first |-> TRUE, seed |-> 0, restarts |-> 0]
        /\ status' = {}
    BY DEF SpawnSupervisor
  <1>5. supervisor' \in Supervisor
    BY <1>3, <1>4, Bounds DEF Supervisor
  <1> QED BY <1>2, <1>4, <1>5

(* No process is a possible value of each.                                  *)
LEMMA Nothing == NoWorker \in Worker /\ NoSupervisor \in Supervisor
  BY Bounds DEF NoWorker, NoSupervisor, Worker, Supervisor

(* What the queues give and keep when their first frame is taken.           *)
LEMMA Gives ==
  ASSUME TypeOK
  PROVE  /\ down # <<>> => /\ Head(down) \in Frame(DownTypes)
                           /\ Tail(down) \in Seq(Frame(DownTypes))
                           /\ Head(down).type \in DownTypes /\ Head(down).val \in Point
         /\ up # <<>> => /\ Head(up) \in Frame(UpTypes) /\ Tail(up) \in Seq(Frame(UpTypes))
                         /\ Head(up).type \in UpTypes
                         /\ Head(up).type # "LIFECYCLE" => Head(up).val \in Point
                         /\ Head(up).type = "LIFECYCLE" => Head(up).val \in LcStates
  <1>1. down # <<>> => Head(down) \in Frame(DownTypes) /\ Tail(down) \in Seq(Frame(DownTypes))
    BY Sequences DEF TypeOK
  <1>2. up # <<>> => Head(up) \in Frame(UpTypes) /\ Tail(up) \in Seq(Frame(UpTypes))
    BY Sequences DEF TypeOK
  <1>3. \A f \in Frame(DownTypes) : f.type \in DownTypes /\ f.type # "LIFECYCLE"
    BY FrameFields DEF DownTypes
  <1> QED BY <1>1, <1>2, <1>3, FrameFields

(* What the guardian says is a sequence of the host's frames.               *)
LEMMA HostMessages ==
  ASSUME TypeOK
  PROVE  /\ \A t \in UpTypes \ {"LIFECYCLE"}, v \in Point : Message(t, v) \in Seq(Frame(UpTypes))
         /\ \A t \in UpTypes \ {"LIFECYCLE"}, v \in Point :
              up \o Message(t, v) \in Seq(Frame(UpTypes))
         /\ \A t \in DownTypes, v \in Point : Message(t, v) \in Seq(Frame(DownTypes))
         /\ \A t \in DownTypes, v \in Point : cout \o Message(t, v) \in Seq(Frame(DownTypes))
         /\ \A s, r : Lifecycle(s, r) \in Seq(Frame(UpTypes))
                      /\ LastState(Lifecycle(s, r)) \in LcStates
  <1>1. \A t \in UpTypes \ {"LIFECYCLE"}, v \in Point : Message(t, v) \in Seq(Frame(UpTypes))
    BY Messages
  <1>2. \A t \in DownTypes, v \in Point : Message(t, v) \in Seq(Frame(DownTypes))
    BY Messages DEF DownTypes
  <1>3. \A t \in UpTypes \ {"LIFECYCLE"}, v \in Point : up \o Message(t, v) \in Seq(Frame(UpTypes))
    BY <1>1, Sequences DEF TypeOK
  <1>4. \A t \in DownTypes, v \in Point : cout \o Message(t, v) \in Seq(Frame(DownTypes))
    BY <1>2, Sequences DEF TypeOK
  <1>5. ASSUME NEW s, NEW r
        PROVE  Lifecycle(s, r) \in Seq(Frame(UpTypes)) /\ LastState(Lifecycle(s, r)) \in LcStates
    <2>1. /\ Message("LIFECYCLE", Starting) \in Seq(Frame(UpTypes))
          /\ Message("LIFECYCLE", Running) \in Seq(Frame(UpTypes))
      BY Messages DEF UpTypes
    <2>2. <<>> \in Seq(Frame(UpTypes))
      OBVIOUS
    <2>3. PICK a, b : /\ Lifecycle(s, r) = a \o b
                      /\ a = <<>> \/ a = Message("LIFECYCLE", Starting)
                      /\ b = <<>> \/ b = Message("LIFECYCLE", Running)
      BY DEF Lifecycle
    <2>4. Lifecycle(s, r) \in Seq(Frame(UpTypes))
      BY <2>1, <2>2, <2>3, Sequences
    <2>5. ASSUME NEW m \in Seq(Frame(UpTypes)), m # <<>>, m = Lifecycle(s, r)
          PROVE  m[Len(m)].val \in LcStates
      <3>1. \A v : /\ Message("LIFECYCLE", v)[Len(Message("LIFECYCLE", v))].val = v
                   /\ Len(Message("LIFECYCLE", v)) \in {1, 2}
        BY DEF Message
      <3>2. CASE b = <<>>
        <4>1. m = a /\ a # <<>>
          BY <2>5, <2>3, <3>2, <2>1
        <4> QED BY <4>1, <2>3, <3>1 DEF LcStates
      <3>3. CASE b = Message("LIFECYCLE", Running)
        <4>1. m[Len(m)] = b[Len(b)]
          <5>1. a \in Seq(Frame(UpTypes)) /\ b \in Seq(Frame(UpTypes)) /\ Len(b) \in {1, 2}
            BY <2>1, <2>2, <2>3, <3>1, <3>3
          <5>2. m = a \o b
            BY <2>3, <2>5
          <5>3. /\ Len(m) = Len(a) + Len(b) /\ Len(a) \in Nat /\ Len(b) \in Nat
                /\ \A i \in 1..Len(b) : m[Len(a) + i] = b[i]
            BY <5>1, <5>2
          <5>4. \A n \in {1, 2} : n \in 1..n
            OBVIOUS
          <5>5. Len(b) \in 1..Len(b)
            BY <5>1, <5>4, Zenon
          <5> QED BY <5>3, <5>5
        <4> QED BY <4>1, <3>1, <3>3 DEF LcStates
      <3> QED BY <2>3, <3>2, <3>3
    <2>6. guardian.lc \in LcStates
      BY DEF TypeOK, Guardian
    <2> QED BY <2>4, <2>5, <2>6 DEF LastState
  <1> QED BY <1>1, <1>2, <1>3, <1>4, <1>5

-----------------------------------------------------------------------------

(* The session starts with well-typed state and no restarts used.           *)
LEMMA TypeInit == Init => TypeOK /\ Counted
  <1> SUFFICES ASSUME Init PROVE TypeOK /\ Counted
    OBVIOUS
  <1> USE Bounds
  <1>0. 0 \in 0..MaxRestarts + 1
    OBVIOUS
  <1>1. guardian \in Guardian
    BY <1>0 DEF Init, Guardian, LcStates
  <1>2. supervisor \in Supervisor /\ worker \in Worker
    BY <1>0 DEF Init, Supervisor, Worker, NoWorker
  <1>3. compositor \in Compositor
    BY Zenon DEF Init, Compositor, LcStates
  <1> QED BY <1>1, <1>2, <1>3 DEF Init, TypeOK, Counted

(* A step of the worker or its user keeps the types and the counters.       *)
LEMMA TypeWorker ==
  ASSUME TypeOK, Counted, WorkerStep \/ UserStep \/ WorkerDies
  PROVE  (TypeOK /\ Counted)'
  <1> USE Bounds
  <1>0. worker \in Worker
    BY DEF TypeOK
  <1>a. UNCHANGED <<guardian, supervisor>> => Counted'
    BY DEF Counted
  <1>f. WorkerFails => worker' \in Worker
    BY <1>0, WorkerUpdates DEF WorkerFails, WorkerStates
  <1>1. CASE WorkerLoads
    <2>0. /\ worker.point \in Point /\ worker.tried \in Point
          /\ (IF worker.resume THEN worker.point ELSE 1) \in Point
          /\ (IF worker.resume THEN worker.tried ELSE 1) \in Point
      BY <1>0, WorkerUpdates
    <2>a. "sending" \in WorkerStates
      BY DEF WorkerStates
    <2>1. worker' \in Worker
      <3>1. CASE worker.resume /\ worker.point = 0
        BY <1>1, <1>f, <3>1 DEF WorkerLoads
      <3>2. CASE ~(worker.resume /\ worker.point = 0)
        <4>1. worker' = [worker EXCEPT !.st = "sending",
                                       !.point = IF worker.resume THEN worker.point ELSE 1,
                                       !.tried = IF worker.resume THEN worker.tried ELSE 1]
          BY <1>1, <3>2 DEF WorkerLoads
        <4>2. \A p, t \in Point :
                [worker EXCEPT !.st = "sending", !.point = p, !.tried = t] \in Worker
          BY <1>0, <2>a, WorkerUpdates
        <4> QED BY <2>0, <4>1, <4>2
      <3> QED BY <3>1, <3>2
    <2>b. {"RESUME", "BOOT"} \subseteq UpTypes \ {"LIFECYCLE"}
      BY DEF UpTypes
    <2>c. Message("RESUME", worker.point) \in Seq(Frame(UpTypes))
          /\ Message("BOOT", 1) \in Seq(Frame(UpTypes))
      BY <2>0, <2>b, HostMessages
    <2>2. out' \in Seq(Frame(UpTypes))
      BY <1>1, <2>c DEF WorkerLoads, TypeOK
    <2> QED BY <1>a, <1>1, <2>1, <2>2 DEF WorkerLoads, TypeOK
  <1>2. CASE WorkerFlushes
    <2>1. out' \in Seq(Frame(UpTypes)) /\ up' \in Seq(Frame(UpTypes))
      BY <1>2, Sequences DEF WorkerFlushes, HostSends, TypeOK
    <2> QED BY <1>a, <1>2, <2>1 DEF WorkerFlushes, TypeOK
  <1>3. CASE WorkerMarks
    BY <1>0, <1>a, <1>3, WorkerUpdates DEF WorkerMarks, WorkerStates, TypeOK
  <1>4. CASE WorkerReports
    BY <1>0, <1>a, <1>4, WorkerUpdates DEF WorkerReports, WorkerStates, TypeOK
  <1>5. CASE WorkerReadsFirst
    BY <1>a, <1>5, Gives DEF WorkerReadsFirst, WorkerReads, Reads, hostVars, TypeOK
  <1>6. CASE WorkerHello
    BY <1>0, <1>a, <1>6, Gives, WorkerUpdates
       DEF WorkerHello, WorkerGets, WorkerReads, Reads, WorkerStates, TypeOK
  <1>7. CASE WorkerState
    BY <1>a, <1>7, Gives DEF WorkerState, WorkerGets, WorkerReads, Reads, hostVars, TypeOK
  <1>8. CASE WorkerResult
    <2>1. worker' \in Worker
      BY <1>0, <1>8, Gives, WorkerUpdates
         DEF WorkerResult, WorkerGets, WorkerReads, Reads, WorkerStates, Commit
    <2> QED BY <1>a, <1>8, <2>1, Gives DEF WorkerResult, WorkerGets, WorkerReads, Reads, TypeOK
  <1>9. CASE WorkerRejected
    <2>1. worker' \in Worker
      BY <1>0, <1>9, WorkerUpdates DEF WorkerRejected, WorkerStates
    <2> QED BY <1>a, <1>9, <2>1, Gives DEF WorkerRejected, WorkerGets, WorkerReads, Reads, TypeOK
  <1>10. CASE WorkerReadFails
    BY <1>a, <1>f, <1>10, Gives DEF WorkerReadFails, WorkerReads, Reads, TypeOK
  <1>11. CASE WorkerGivesUp
    BY <1>a, <1>f, <1>11 DEF WorkerGivesUp, TypeOK
  <1>12. CASE WorkerReloads
    <2>1. worker.tried + 1 \in Point
      <3>1. worker.tried \in Nat /\ worker.tried < MaxPoint
        BY <1>0, <1>12, WorkerUpdates DEF WorkerReloads
      <3> QED BY <3>1 DEF Point
    <2>2. worker' \in Worker
      BY <1>0, <1>12, <2>1, WorkerUpdates DEF WorkerReloads, WorkerStates
    <2>3. out' \in Seq(Frame(UpTypes))
      BY <1>12, <2>1, HostMessages DEF WorkerReloads, UpTypes
    <2> QED BY <1>a, <1>12, <2>2, <2>3 DEF WorkerReloads, TypeOK
  <1>13. CASE WorkerLogsOut
    BY <1>0, <1>a, <1>13, WorkerUpdates DEF WorkerLogsOut, WorkerStates, TypeOK
  <1>14. CASE WorkerDies
    <2>1. faults' \in 0..Faults
      BY <1>14 DEF WorkerDies, Fault, TypeOK
    <2> QED BY <1>a, <1>f, <1>14, <2>1 DEF WorkerDies, TypeOK
  <1> QED BY <1>1, <1>2, <1>3, <1>4, <1>5, <1>6, <1>7, <1>8, <1>9, <1>10, <1>11, <1>12,
            <1>13, <1>14 DEF WorkerStep, UserStep

(* A step or the death of the supervisor keeps the types and the counters.  *)
LEMMA TypeSupervisor ==
  ASSUME TypeOK, Counted, SupervisorStep \/ SupervisorDies
  PROVE  (TypeOK /\ Counted)'
  <1> USE Bounds
  <1>0. supervisor \in Supervisor /\ worker \in Worker
    BY DEF TypeOK
  <1>s. /\ supervisor.st \in SupervisorStates /\ supervisor.seed \in Point
        /\ supervisor.resume \in BOOLEAN /\ supervisor.first \in BOOLEAN
        /\ supervisor.restarts \in Nat /\ supervisor.restarts <= MaxRestarts + 1
    <2>1. \A n \in 0..MaxRestarts + 1 : n \in Nat /\ n <= MaxRestarts + 1
      OBVIOUS
    <2> QED BY <1>0, <2>1, SupervisorUpdates
  <1>b. BootstrapRetry \in BOOLEAN
    BY DEF BootstrapRetry
  <1>st. ASSUME NEW x \in SupervisorStates \ {"run"}, supervisor' = [supervisor EXCEPT !.st = x]
         PROVE  supervisor' \in Supervisor /\ supervisor'.st # "run"
    <2>1. supervisor' \in Supervisor
      BY <1>0, <1>st, SupervisorUpdates
    <2> QED BY <1>0, <1>st, <2>1 DEF Supervisor
  <1>a. UNCHANGED guardian /\ supervisor'.st # "run" => Counted'
    BY DEF Counted
  <1>1. CASE SupervisorLogsOut
    BY <1>a, <1>st, <1>1, Nothing DEF SupervisorLogsOut, SupervisorStates, TypeOK
  <1>2. CASE SupervisorRejected
    <2>1. up' \in Seq(Frame(UpTypes))
      BY <1>2, HostMessages DEF SupervisorRejected, HostSends, UpTypes
    <2> QED BY <1>a, <1>st, <1>2, <2>1, Nothing DEF SupervisorRejected, SupervisorStates, TypeOK
  <1>3. CASE SupervisorSuspends
    <2>1. up' \in Seq(Frame(UpTypes))
      BY <1>3, HostMessages DEF SupervisorSuspends, HostSends, UpTypes
    <2>2. supervisor.restarts + 1 \in 0..MaxRestarts + 1
      BY <1>s, <1>3 DEF SupervisorSuspends, WorkerEnded, Counted
    <2>3. supervisor' \in Supervisor
      BY <1>0, <1>b, <1>3, <2>2, SupervisorUpdates DEF SupervisorSuspends, SupervisorStates
    <2>4. supervisor'.st = "wait"
      BY <1>0, <1>3 DEF SupervisorSuspends, Supervisor
    <2> QED BY <1>a, <1>3, <2>1, <2>3, <2>4, Nothing DEF SupervisorSuspends, TypeOK
  <1>4. CASE SupervisorRetries
    <2>1. supervisor.restarts + 1 \in 0..MaxRestarts
      BY <1>s, <1>4 DEF SupervisorRetries, RestartsUsedUp
    <2>a. supervisor.restarts + 1 \in 0..MaxRestarts + 1
      BY <2>1
    <2>2. supervisor' \in Supervisor
      BY <1>0, <1>b, <1>4, <2>a, SupervisorUpdates DEF SupervisorRetries
    <2>3. supervisor'.restarts <= MaxRestarts
      BY <1>0, <1>4, <2>1 DEF SupervisorRetries, Supervisor
    <2>4. worker' \in Worker /\ pipe' = {} /\ out' = <<>> /\ reader' = Idle
      BY <1>b, <1>s, <1>4, Spawned DEF SupervisorRetries
    <2> QED BY <1>4, <2>2, <2>3, <2>4 DEF SupervisorRetries, TypeOK, Counted
  <1>5. CASE SupervisorExhausted
    <2>1. up' \in Seq(Frame(UpTypes))
      BY <1>5, HostMessages DEF SupervisorExhausted, HostSends, UpTypes
    <2> QED BY <1>a, <1>st, <1>5, <2>1, Nothing DEF SupervisorExhausted, SupervisorStates, TypeOK
  <1>6. CASE SupervisorDiscards
    BY <1>6, Gives DEF SupervisorDiscards, Discards, Reads, hostVars, TypeOK, Counted
  <1>7. CASE SupervisorResumes
    <2>0. down' \in Seq(Frame(DownTypes)) /\ Head(down).val \in Point
      BY <1>7, Gives DEF SupervisorResumes, GetsSuspended, Reads
    <2>1. CASE supervisor.restarts > MaxRestarts
      <3>1. up' \in Seq(Frame(UpTypes))
        BY <1>7, <2>1, HostMessages DEF SupervisorResumes, HostSends, UpTypes
      <3> QED BY <1>a, <1>st, <1>7, <2>0, <2>1, <3>1
              DEF SupervisorResumes, SupervisorStates, TypeOK
    <2>2. CASE ~(supervisor.restarts > MaxRestarts)
      <3>1. worker' \in Worker /\ pipe' = {} /\ out' = <<>> /\ reader' = Idle
        BY <1>7, <2>0, <2>2, Spawned DEF SupervisorResumes
      <3>a. "run" \in SupervisorStates
        BY DEF SupervisorStates
      <3>b. supervisor' = [supervisor EXCEPT !.st = "run", !.seed = Head(down).val]
        BY <1>7, <2>2 DEF SupervisorResumes
      <3>2. supervisor' \in Supervisor
        BY <1>0, <2>0, <3>a, <3>b, SupervisorUpdates
      <3>3. supervisor'.restarts = supervisor.restarts
        BY <1>0, <1>7, <2>2 DEF SupervisorResumes, Supervisor
      <3>4. UNCHANGED <<guardian, compositor, status, cout, faults, up>>
        BY <1>7, <2>2 DEF SupervisorResumes
      <3>5. supervisor'.restarts <= MaxRestarts
        BY <1>s, <2>2, <3>3
      <3> QED BY <2>0, <3>1, <3>2, <3>4, <3>5 DEF TypeOK, Counted
    <2> QED BY <2>1, <2>2
  <1>8. CASE SupervisorWaitFails
    <2>1. down' \in Seq(Frame(DownTypes))
      BY <1>8, Gives DEF SupervisorWaitFails, WaitBroken, TypeOK
    <2> QED BY <1>a, <1>st, <1>8, <2>1 DEF SupervisorWaitFails, SupervisorStates, TypeOK
  <1>9. CASE SupervisorDies
    <2>1. faults' \in 0..Faults
      BY <1>9 DEF SupervisorDies, Fault, TypeOK
    <2> QED BY <1>a, <1>st, <1>9, <2>1 DEF SupervisorDies, SupervisorStates, TypeOK
  <1> QED BY <1>1, <1>2, <1>3, <1>4, <1>5, <1>6, <1>7, <1>8, <1>9 DEF SupervisorStep

(* A step of the guardian, or a wait that times out, keeps them.            *)
LEMMA TypeGuardian ==
  ASSUME TypeOK, Counted, GuardianStep \/ WaitTimesOut
  PROVE  (TypeOK /\ Counted)'
  <1> USE Bounds
  <1>0. guardian \in Guardian /\ supervisor \in Supervisor
    BY DEF TypeOK
  <1>g. /\ guardian.restarts \in Nat /\ guardian.restarts <= MaxRestarts + 1
        /\ guardian.seed \in Point /\ guardian.resume \in BOOLEAN
        /\ guardian.started \in BOOLEAN /\ guardian.ready \in BOOLEAN
        /\ guardian.supported \in BOOLEAN /\ guardian.lc \in LcStates
    <2>1. \A n \in 0..MaxRestarts + 1 : n \in Nat /\ n <= MaxRestarts + 1
      OBVIOUS
    <2> QED BY <1>0, <2>1 DEF Guardian
  <1>n. NoSupervisor.st # "run"
    BY DEF NoSupervisor
  <1>fl. /\ Flag("started", guardian.started) \in BOOLEAN
         /\ Flag("ready", guardian.ready) \in BOOLEAN
         /\ Flag("supported", guardian.supported) \in BOOLEAN
    BY <1>g DEF Flag
  <1>st. ASSUME NEW x \in {"retain", "done"}, guardian' = [guardian EXCEPT !.st = x]
         PROVE  guardian' \in Guardian /\ guardian'.st = x
    BY <1>0, <1>st DEF Guardian
  <1>1. CASE GuardianPolls
    <2> DEFINE ready == Flag("ready", guardian.ready)
               supported == Flag("supported", guardian.supported)
               news == Lifecycle(supported, ready)
    <2>1. news \in Seq(Frame(UpTypes)) /\ LastState(news) \in LcStates
      BY HostMessages
    <2>2. up' \in Seq(Frame(UpTypes))
      BY <1>1, <2>1, Sequences DEF GuardianPolls, HostSends, TypeOK
    <2>3. guardian' = [guardian EXCEPT !.started = Flag("started", guardian.started),
                         !.ready = ready, !.supported = supported, !.lc = LastState(news)]
      BY <1>1 DEF GuardianPolls
    <2> HIDE DEF ready, supported, news
    <2>4. ready \in BOOLEAN /\ supported \in BOOLEAN
      BY <1>fl DEF ready, supported
    <2>5. guardian' \in Guardian /\ guardian'.st = guardian.st
          /\ guardian'.restarts = guardian.restarts
      BY <1>0, <1>fl, <2>1, <2>3, <2>4 DEF Guardian
    <2> QED BY <1>1, <2>2, <2>5 DEF GuardianPolls, TypeOK, Counted
  <1>2. CASE GuardianReaps
    <2> DEFINE ready == Flag("ready", guardian.ready)
               supported == Flag("supported", guardian.supported)
               news == Lifecycle(supported, ready)
               seen == [guardian EXCEPT !.ready = FALSE, !.supported = supported,
                                        !.lc = LastState(news)]
    <2>1. news \in Seq(Frame(UpTypes)) /\ LastState(news) \in LcStates
      BY HostMessages
    <2>2. supported \in BOOLEAN
      BY <1>fl
    <2>3. seen \in Guardian /\ seen.st = guardian.st /\ seen.restarts = guardian.restarts
      <3> HIDE DEF ready, supported, news
      <3> QED BY <1>0, <2>1, <2>2 DEF Guardian
    <2>m. /\ Message("DISCONNECTED", 0) \in Seq(Frame(UpTypes))
          /\ Message("FAILED", 0) \in Seq(Frame(UpTypes))
      BY HostMessages DEF UpTypes
    <2>4. /\ up \o news \in Seq(Frame(UpTypes))
          /\ up \o (news \o Message("DISCONNECTED", 0)) \in Seq(Frame(UpTypes))
          /\ up \o (news \o Message("FAILED", 0)) \in Seq(Frame(UpTypes))
      <3> HIDE DEF ready, supported, news
      <3>1. /\ news \o Message("DISCONNECTED", 0) \in Seq(Frame(UpTypes))
            /\ news \o Message("FAILED", 0) \in Seq(Frame(UpTypes))
        BY <2>1, <2>m, Sequences
      <3> QED BY <2>1, <3>1, Sequences DEF TypeOK
    <2>a. guardian.st = "run" /\ UNCHANGED <<compositor, cout, down, faults>>
      BY <1>2 DEF GuardianReaps
    <2>k. KillGroup => worker' \in Worker /\ pipe' = {} /\ out' = <<>>
      BY Nothing DEF KillGroup
    <2>5. CASE Flag("started", guardian.started)
      <3>1. /\ HostSends(news \o Message("DISCONNECTED", 0))
            /\ guardian' = [seen EXCEPT !.st = "wait", !.started = TRUE]
            /\ KillGroup /\ reader' = Idle
            /\ supervisor' = NoSupervisor /\ status' = {}
        BY <1>2, <2>5 DEF GuardianReaps
      <3> HIDE DEF seen, news
      <3>2. guardian' \in Guardian /\ guardian'.restarts = guardian.restarts
        BY <2>3, <3>1 DEF Guardian
      <3> QED BY <1>n, <2>4, <2>a, <2>k, <3>1, <3>2, Nothing DEF TypeOK, Counted, HostSends
    <2>6. CASE ~Flag("started", guardian.started) /\ guardian.restarts >= MaxRestarts
      <3>1. /\ HostSends(news \o Message("FAILED", 0))
            /\ guardian' = [seen EXCEPT !.st = "retain"]
            /\ KillGroup /\ UNCHANGED reader
            /\ supervisor' = NoSupervisor /\ status' = {}
        BY <1>2, <2>6 DEF GuardianReaps
      <3> HIDE DEF seen, news
      <3>2. guardian' \in Guardian /\ guardian'.st = "retain"
        BY <2>3, <3>1 DEF Guardian
      <3> QED BY <1>n, <2>4, <2>a, <2>k, <3>1, <3>2, Nothing DEF TypeOK, Counted, HostSends
    <2>7. CASE ~Flag("started", guardian.started) /\ ~(guardian.restarts >= MaxRestarts)
      <3>1. /\ HostSends(news)
            /\ guardian' = [seen EXCEPT !.restarts = seen.restarts + 1]
            /\ SpawnSupervisor(guardian.resume, guardian.seed)
        BY <1>2, <2>7 DEF GuardianReaps
      <3> HIDE DEF seen, news
      <3>2. seen.restarts + 1 \in 0..MaxRestarts + 1 /\ seen.restarts + 1 <= MaxRestarts
        BY <1>g, <2>3, <2>7
      <3>3. guardian' \in Guardian /\ guardian'.restarts <= MaxRestarts
        BY <2>3, <3>1, <3>2 DEF Guardian
      <3>4. /\ supervisor' \in Supervisor /\ supervisor'.st = "run" /\ supervisor'.restarts = 0
            /\ worker' \in Worker /\ status' = {} /\ pipe' = {} /\ out' = <<>> /\ reader' = Idle
        BY <1>g, <3>1, NewSupervisor
      <3> QED BY <2>4, <2>a, <3>1, <3>3, <3>4 DEF TypeOK, Counted, HostSends
    <2> QED BY <2>5, <2>6, <2>7
  <1>3. CASE GuardianDiscards
    BY <1>3, Gives DEF GuardianDiscards, Discards, Reads, hostVars, TypeOK, Counted
  <1>4. CASE GuardianResumes
    <2> DEFINE acked == [guardian EXCEPT !.started = FALSE, !.resume = TRUE,
                                         !.seed = Head(down).val, !.restarts = @ + 1]
    <2>0. down' \in Seq(Frame(DownTypes)) /\ Head(down).val \in Point
      BY <1>4, Gives DEF GuardianResumes, GetsSuspended, Reads
    <2>1. guardian.restarts <= MaxRestarts /\ guardian.restarts + 1 \in 0..MaxRestarts + 1
      BY <1>g, <1>4 DEF GuardianResumes, Counted
    <2>2. acked \in Guardian /\ acked.restarts = guardian.restarts + 1
      BY <1>0, <2>0, <2>1 DEF Guardian
    <2>3. UNCHANGED <<compositor, cout, faults>>
      BY <1>4 DEF GuardianResumes
    <2>5. CASE guardian.restarts >= MaxRestarts
      <3>1. /\ HostSends(Message("FAILED", 0)) /\ guardian' = [acked EXCEPT !.st = "retain"]
            /\ reader' = Idle /\ UNCHANGED <<supervisor, worker, status, pipe, out>>
        BY <1>4, <2>5 DEF GuardianResumes
      <3> HIDE DEF acked
      <3>2. guardian' \in Guardian /\ guardian'.st = "retain"
        BY <2>2, <3>1 DEF Guardian
      <3>3. up' \in Seq(Frame(UpTypes))
        BY <3>1, HostMessages DEF HostSends, UpTypes
      <3> QED BY <2>0, <2>3, <3>1, <3>2, <3>3 DEF TypeOK, Counted
    <2>6. CASE ~(guardian.restarts >= MaxRestarts)
      <3>1. /\ guardian' = [acked EXCEPT !.st = "run"]
            /\ SpawnSupervisor(TRUE, Head(down).val) /\ UNCHANGED up
        BY <1>4, <2>6 DEF GuardianResumes
      <3> HIDE DEF acked
      <3>2. guardian' \in Guardian /\ guardian'.restarts <= MaxRestarts
        BY <1>g, <2>2, <2>6, <3>1 DEF Guardian
      <3>4. /\ supervisor' \in Supervisor /\ supervisor'.st = "run" /\ supervisor'.restarts = 0
            /\ worker' \in Worker /\ status' = {} /\ pipe' = {} /\ out' = <<>> /\ reader' = Idle
        BY <2>0, <3>1, NewSupervisor
      <3> QED BY <2>0, <2>3, <3>1, <3>2, <3>4 DEF TypeOK, Counted
    <2> QED BY <2>5, <2>6
  <1>5. CASE GuardianWaitFails
    <2>1. up' \in Seq(Frame(UpTypes)) /\ down' \in Seq(Frame(DownTypes))
      BY <1>5, Gives, HostMessages DEF GuardianWaitFails, WaitBroken, HostSends, UpTypes, TypeOK
    <2> QED BY <1>st, <1>5, <2>1 DEF GuardianWaitFails, TypeOK, Counted
  <1>6. CASE GuardianEnds
    <2>1. out' \in Seq(Frame(UpTypes))
      BY <1>6 DEF GuardianEnds
    <2> QED BY <1>n, <1>st, <1>6, <2>1, Nothing DEF GuardianEnds, TypeOK, Counted
  <1>7. CASE WaitTimesOut
    <2>0. faults' \in 0..Faults
      BY <1>7 DEF WaitTimesOut, Fault, TypeOK
    <2>1. CASE supervisor.st = "wait" /\ supervisor' = [supervisor EXCEPT !.st = "failed"]
               /\ UNCHANGED <<guardian, up>>
      <3>1. supervisor' \in Supervisor /\ supervisor'.st # "run"
        BY <1>0, <2>1 DEF Supervisor
      <3> QED BY <1>7, <2>0, <2>1, <3>1 DEF WaitTimesOut, TypeOK, Counted
    <2>2. CASE /\ guardian.st = "wait" /\ guardian' = [guardian EXCEPT !.st = "retain"]
               /\ HostSends(Message("FAILED", 0)) /\ UNCHANGED supervisor
      <3>1. up' \in Seq(Frame(UpTypes))
        BY <2>2, HostMessages DEF HostSends, UpTypes
      <3> QED BY <1>st, <1>7, <2>0, <2>2, <3>1 DEF WaitTimesOut, TypeOK, Counted
    <2> QED BY <1>7, <2>1, <2>2 DEF WaitTimesOut
  <1> QED BY <1>1, <1>2, <1>3, <1>4, <1>5, <1>6, <1>7 DEF GuardianStep

(* A step or the death of the compositor keeps them.                        *)
LEMMA TypeCompositor ==
  ASSUME TypeOK, Counted, CompositorStep \/ CompositorDies
  PROVE  (TypeOK /\ Counted)'
  <1> USE Bounds
  <1>0. compositor \in Compositor
    BY DEF TypeOK
  <1>t. UpTypes \subseteq UpTypes \cup {Idle} /\ Idle \in UpTypes \cup {Idle}
    OBVIOUS
  <1>a. UNCHANGED hostVars /\ UNCHANGED reader =>
          /\ Counted' /\ UNCHANGED <<guardian, supervisor, worker, status, pipe, out, reader>>
    BY DEF hostVars, Counted
  <1>1. CASE CompositorFlushes
    <2>1. Head(cout) \in Frame(DownTypes) /\ down' \in Seq(Frame(DownTypes))
          /\ cout' \in Seq(Frame(DownTypes))
      BY <1>1, Sequences DEF CompositorFlushes, CompositorSends, TypeOK
    <2> QED BY <1>a, <1>1, <2>1 DEF CompositorFlushes, TypeOK
  <1>2. CASE CompositorReadsFirst
    <2>1. compositor' \in Compositor
      BY <1>0, <1>2, Gives DEF CompositorReadsFirst, Compositor
    <2> QED BY <1>a, <1>2, <2>1, Gives DEF CompositorReadsFirst, TypeOK
  <1>ab. Abort => compositor' \in Compositor /\ cout' \in Seq(Frame(DownTypes))
    <2>1. Abort => compositor' \in Compositor
      BY <1>0 DEF Abort, Compositor
    <2>2. Abort => cout' \in Seq(Frame(DownTypes))
      BY DEF Abort
    <2> QED BY <2>1, <2>2
  <1>3. CASE CompositorReadFails
    BY <1>a, <1>ab, <1>3, Gives DEF CompositorReadFails, TypeOK
  <1>h. /\ Message("HELLO", 0) \o Message("STATE", 0) \in Seq(Frame(DownTypes))
        /\ cout \o Message("HELLO", 0) \o Message("STATE", 0) \in Seq(Frame(DownTypes))
        /\ cout \o Message("REJECTED", 0) \in Seq(Frame(DownTypes))
        /\ \A p \in Point : /\ Message("SUSPENDED", p) \in Seq(Frame(DownTypes))
                            /\ cout \o Message("SUSPENDED", p) \in Seq(Frame(DownTypes))
                            /\ <<>> \o Message("SUSPENDED", p) \in Seq(Frame(DownTypes))
                            /\ cout \o Message("RESULT", p) \in Seq(Frame(DownTypes))
    <2>1. {"HELLO", "STATE", "REJECTED", "SUSPENDED", "RESULT"} \subseteq DownTypes
      BY DEF DownTypes
    <2>2. /\ Message("HELLO", 0) \in Seq(Frame(DownTypes))
          /\ Message("STATE", 0) \in Seq(Frame(DownTypes))
          /\ cout \o Message("HELLO", 0) \in Seq(Frame(DownTypes))
          /\ cout \o Message("REJECTED", 0) \in Seq(Frame(DownTypes))
          /\ <<>> \in Seq(Frame(DownTypes))
      BY <2>1, HostMessages, Sequences
    <2>3. ASSUME NEW p \in Point
          PROVE  /\ Message("SUSPENDED", p) \in Seq(Frame(DownTypes))
                 /\ cout \o Message("SUSPENDED", p) \in Seq(Frame(DownTypes))
                 /\ <<>> \o Message("SUSPENDED", p) \in Seq(Frame(DownTypes))
                 /\ cout \o Message("RESULT", p) \in Seq(Frame(DownTypes))
      BY <2>1, <2>2, HostMessages, Sequences
    <2> QED BY <2>2, <2>3, Sequences
  <1>p. compositor.point \in Point /\ compositor.suspended \in BOOLEAN
    BY <1>0 DEF Compositor
  <1>4. CASE CompositorBoots
    <2>1. up' \in Seq(Frame(UpTypes)) /\ Head(up).val \in Point
      BY <1>4, Gives DEF CompositorBoots, CompositorGets
    <2>2. compositor' \in Compositor
      BY <1>0, <1>t, <1>4, <2>1 DEF CompositorBoots, Compositor
    <2> QED BY <1>a, <1>h, <1>4, <2>1, <2>2 DEF CompositorBoots, TypeOK
  <1>5. CASE CompositorBootFails
    <2>1. compositor' \in Compositor
      BY <1>0, <1>5 DEF CompositorBootFails, Compositor
    <2> QED BY <1>a, <1>5, <2>1, Gives DEF CompositorBootFails, TypeOK
  <1>6. CASE CompositorLifecycle
    <2>1. up' \in Seq(Frame(UpTypes)) /\ Head(up).val \in LcStates
      BY <1>6, Gives DEF CompositorLifecycle, Live, CompositorGets
    <2>2. compositor' \in Compositor /\ cout' \in Seq(Frame(DownTypes))
      BY <1>0, <1>t, <1>ab, <1>6, <2>1 DEF CompositorLifecycle, Compositor, TypeOK
    <2> QED BY <1>a, <1>6, <2>1, <2>2 DEF CompositorLifecycle, TypeOK
  <1>7. CASE CompositorFailed
    <2>1. up' \in Seq(Frame(UpTypes)) /\ compositor' \in Compositor
      BY <1>0, <1>t, <1>7, Gives DEF CompositorFailed, Live, CompositorGets, Compositor
    <2> QED BY <1>a, <1>7, <2>1 DEF CompositorFailed, TypeOK
  <1>8. CASE CompositorDiscards
    <2>1. up' \in Seq(Frame(UpTypes)) /\ compositor' \in Compositor
      BY <1>0, <1>t, <1>8, Gives DEF CompositorDiscards, Live, CompositorGets, Compositor
    <2> QED BY <1>a, <1>8, <2>1 DEF CompositorDiscards, TypeOK
  <1>9. CASE CompositorSuspends
    <2>1. up' \in Seq(Frame(UpTypes)) /\ compositor' \in Compositor
      BY <1>0, <1>t, <1>9, Gives DEF CompositorSuspends, Live, CompositorGets, Compositor
    <2>2. cout' \in Seq(Frame(DownTypes))
      BY <1>h, <1>p, <1>9 DEF CompositorSuspends
    <2> QED BY <1>a, <1>9, <2>1, <2>2 DEF CompositorSuspends, TypeOK
  <1>10. CASE CompositorResumes
    <2>1. up' \in Seq(Frame(UpTypes))
      BY <1>10, Gives DEF CompositorResumes, Live, CompositorGets
    <2>2. compositor' \in Compositor
      BY <1>0, <1>t, <1>ab, <1>10 DEF CompositorResumes, Compositor
    <2>3. cout' \in Seq(Frame(DownTypes))
      BY <1>h, <1>ab, <1>10 DEF CompositorResumes
    <2> QED BY <1>a, <1>10, <2>1, <2>2, <2>3 DEF CompositorResumes, TypeOK
  <1>11. CASE CompositorRepeats
    <2>1. up' \in Seq(Frame(UpTypes))
      BY <1>11, Gives DEF CompositorRepeats, Live, CompositorGets
    <2>2. compositor' \in Compositor /\ cout' \in Seq(Frame(DownTypes))
      BY <1>0, <1>t, <1>ab, <1>11 DEF CompositorRepeats, Compositor, TypeOK
    <2> QED BY <1>a, <1>11, <2>1, <2>2 DEF CompositorRepeats, TypeOK
  <1>12. CASE CompositorCommits
    <2>1. up' \in Seq(Frame(UpTypes)) /\ Head(up).val \in Point
      BY <1>12, Gives DEF CompositorCommits, Live, CompositorGets
    <2>2. compositor' \in Compositor
      BY <1>0, <1>t, <1>12, <2>1 DEF CompositorCommits, Compositor
    <2>3. cout' \in Seq(Frame(DownTypes))
      BY <1>h, <1>12, <2>1 DEF CompositorCommits
    <2> QED BY <1>a, <1>12, <2>1, <2>2, <2>3 DEF CompositorCommits, TypeOK
  <1>13. CASE CompositorDies
    <2>1. faults' \in 0..Faults
      BY <1>13 DEF CompositorDies, Fault, TypeOK
    <2>2. compositor' \in Compositor
      BY <1>0, <1>13 DEF CompositorDies, Compositor
    <2>3. up' \in Seq(Frame(UpTypes)) /\ cout' \in Seq(Frame(DownTypes))
      BY <1>13 DEF CompositorDies
    <2> QED BY <1>a, <1>13, <2>1, <2>2, <2>3 DEF CompositorDies, TypeOK
  <1> QED BY <1>1, <1>2, <1>3, <1>4, <1>5, <1>6, <1>7, <1>8, <1>9, <1>10, <1>11, <1>12, <1>13
          DEF CompositorStep

(* Every step keeps the types and the counters within the limit.            *)
LEMMA TypeNext == TypeOK /\ Counted /\ [Next]_vars => (TypeOK /\ Counted)'
  <1> SUFFICES ASSUME TypeOK, Counted, [Next]_vars PROVE (TypeOK /\ Counted)'
    OBVIOUS
  <1>1. CASE UNCHANGED vars
    BY <1>1 DEF vars, hostVars, TypeOK, Counted
  <1>2. CASE Rests
    BY <1>1, <1>2 DEF Rests
  <1> QED BY <1>1, <1>2, TypeWorker, TypeSupervisor, TypeGuardian, TypeCompositor
          DEF Next, FaultStep

-----------------------------------------------------------------------------
(* A worker that has queued its first packet and waits for the HELLO.       *)
Early == {"sending", "marked", "started"}
(* A worker that got its HELLO.                                             *)
Late == {"up", "reloading"}
(* The guardian knows, or is about to read, that a worker has started.      *)
Told == guardian.started \/ "started" \in status

(* Which processes there are: no worker without a supervisor that runs or has*)
(* just died, no supervisor once the guardian is past running one.          *)
Chain ==
  /\ supervisor.st \in {"none", "wait", "left", "loggedOut"} => worker.st = "none"
  /\ guardian.st # "run" => supervisor.st = "none"

(* What the processes know of each other: the supervisor has the role the   *)
(* guardian gave it; what a worker says on its pipe and to the guardian is  *)
(* still there, and a worker that does not resume is the first of all.      *)
Roles ==
  /\ supervisor.st # "none" =>
       /\ supervisor.resume = guardian.resume
       /\ supervisor.first /\ pipe = {} => ~Told
  /\ supervisor.st = "wait" => ~supervisor.first
  /\ worker.st \in {"marked", "started"} \cup Late => "sent" \in pipe
  /\ worker.st \in {"started"} \cup Late => Told
  /\ WorkerAlive /\ ~worker.resume =>
       /\ ~guardian.resume
       /\ worker.st \in {"loading", "sending", "marked"} => ~Told

(* The processes and what they know of each other.                          *)
Processes == Chain /\ Roles

(* Assigning to the fields of a worker leaves the others alone.             *)
LEMMA Fields ==
  ASSUME TypeOK
  PROVE  /\ \A x : /\ [worker EXCEPT !.st = x].st = x
                   /\ [worker EXCEPT !.st = x].resume = worker.resume
                   /\ [worker EXCEPT !.st = x].point = worker.point
                   /\ [worker EXCEPT !.st = x].tried = worker.tried
         /\ \A x, p : /\ [worker EXCEPT !.st = x, !.point = p].st = x
                      /\ [worker EXCEPT !.st = x, !.point = p].resume = worker.resume
                      /\ [worker EXCEPT !.st = x, !.point = p].point = p
                      /\ [worker EXCEPT !.st = x, !.point = p].tried = worker.tried
         /\ \A x, p : /\ [worker EXCEPT !.st = x, !.tried = p].st = x
                      /\ [worker EXCEPT !.st = x, !.tried = p].resume = worker.resume
                      /\ [worker EXCEPT !.st = x, !.tried = p].tried = p
                      /\ [worker EXCEPT !.st = x, !.tried = p].point = worker.point
         /\ \A x, p, t : /\ [worker EXCEPT !.st = x, !.point = p, !.tried = t].st = x
                         /\ [worker EXCEPT !.st = x, !.point = p, !.tried = t].point = p
                         /\ [worker EXCEPT !.st = x, !.point = p, !.tried = t].tried = t
                         /\ [worker EXCEPT !.st = x, !.point = p, !.tried = t].resume
                              = worker.resume
         /\ \A x : /\ [supervisor EXCEPT !.st = x].st = x
                   /\ [supervisor EXCEPT !.st = x].resume = supervisor.resume
                   /\ [supervisor EXCEPT !.st = x].first = supervisor.first
  <1>1. worker \in Worker /\ supervisor \in Supervisor
    BY DEF TypeOK
  <1> QED BY <1>1 DEF Worker, Supervisor

(* No process is in the state none.                                         *)
LEMMA Names == NoWorker.st = "none" /\ NoSupervisor.st = "none"
  BY DEF NoWorker, NoSupervisor

(* No process changes. *)
LEMMA ProcessesKept ==
  ASSUME Processes, UNCHANGED <<guardian, supervisor, worker, status, pipe>>
  PROVE  Processes'
  BY DEF Processes, Chain, Roles, Told, WorkerAlive

(* A worker ends, or the last one is gone: nothing else changes. *)
LEMMA ProcessesEnd ==
  ASSUME Processes, UNCHANGED <<guardian, status, pipe>>,
         UNCHANGED supervisor \/
           (/\ supervisor'.st \in {"run", "wait", "left", "failed", "loggedOut"}
            /\ supervisor.st \in {"run", "wait", "left", "failed"}
            /\ supervisor'.resume = supervisor.resume
            /\ supervisor'.first \in BOOLEAN /\ supervisor'.first
                  => supervisor.first /\ supervisor'.st # "wait"
            /\ supervisor'.st \in {"wait", "left", "loggedOut"} => worker'.st = "none"),
         worker'.st \in {"none", "failed", "rejected", "loggedOut"},
         worker'.st # "none" => worker.st # "none"
  PROVE  Processes'
  BY DEF Processes, Chain, Roles, Told, WorkerAlive, Late

(* A step of the worker keeps Processes.                                    *)
LEMMA ProcessesWorker ==
  ASSUME TypeOK, Processes, WorkerStep \/ UserStep \/ WorkerDies
  PROVE  Processes'
  <1> USE Fields
  <1>f. WorkerAlive /\ WorkerFails => worker'.st = "failed" /\ worker.st # "none"
    BY DEF WorkerFails, WorkerAlive
  <1>1. CASE WorkerLoads
    <2>1. UNCHANGED <<guardian, supervisor, status, pipe>> /\ worker.st = "loading"
      BY <1>1 DEF WorkerLoads
    <2>2. worker'.st = "failed" \/ (worker'.st = "sending" /\ worker'.resume = worker.resume)
      <3>1. worker \in Worker
        BY DEF TypeOK
      <3>2. CASE worker.resume /\ worker.point = 0
        BY <1>1, <3>1, <3>2 DEF WorkerLoads, WorkerFails, Worker
      <3>3. CASE ~(worker.resume /\ worker.point = 0)
        BY <1>1, <3>1, <3>3 DEF WorkerLoads, Worker
      <3> QED BY <3>2, <3>3
    <2>3. CASE worker'.st = "failed"
      BY <2>1, <2>3, ProcessesEnd
    <2> QED BY <2>1, <2>2, <2>3 DEF Processes, Chain, Roles, Told, WorkerAlive, Late
  <1>2. CASE WorkerFlushes
    BY <1>2, ProcessesKept DEF WorkerFlushes
  <1>3. CASE WorkerMarks
    <2>1. UNCHANGED <<guardian, supervisor, status>> /\ worker.st = "sending"
          /\ worker'.st = "marked" /\ worker'.resume = worker.resume
          /\ pipe' = pipe \cup {"sent"}
      BY <1>3 DEF WorkerMarks, StartPacketFlushed
    <2>2. "sent" \in pipe' /\ pipe' # {}
      BY <2>1
    <2> QED BY <2>1, <2>2 DEF Processes, Chain, Roles, Told, WorkerAlive, Late
  <1>4. CASE WorkerReports
    <2>1. UNCHANGED <<guardian, supervisor, pipe>> /\ worker.st = "marked"
          /\ worker'.st = "started" /\ worker'.resume = worker.resume
          /\ status' = status \cup {"started"}
      BY <1>4 DEF WorkerReports
    <2>2. pipe # {} /\ "started" \in status'
      BY <2>1 DEF Processes, Roles
    <2> QED BY <2>1, <2>2 DEF Processes, Chain, Roles, Told, WorkerAlive, Late
  <1>5. CASE WorkerReadsFirst
    BY <1>5, ProcessesKept DEF WorkerReadsFirst, hostVars
  <1>6. CASE WorkerHello
    <2>1. UNCHANGED <<guardian, supervisor>> /\ worker.st = "started"
          /\ worker'.st = "up" /\ worker'.resume = worker.resume
          /\ status' = status \cup {"supported", "ready"} /\ pipe' = pipe \cup {"ready"}
      BY <1>6 DEF WorkerHello
    <2>2. /\ "sent" \in pipe' /\ pipe' # {}
          /\ "started" \in status' <=> "started" \in status
      BY <2>1 DEF Processes, Roles
    <2> QED BY <2>1, <2>2 DEF Processes, Chain, Roles, Told, WorkerAlive, Late
  <1>7. CASE WorkerState
    BY <1>7, ProcessesKept DEF WorkerState, hostVars
  <1>8. CASE WorkerResult
    <2>1. UNCHANGED <<guardian, supervisor, status, pipe>> /\ worker.st = "reloading"
          /\ worker'.st = "up" /\ worker'.resume = worker.resume
      BY <1>8 DEF WorkerResult
    <2> QED BY <2>1 DEF Processes, Chain, Roles, Told, WorkerAlive, Late
  <1>9. CASE WorkerRejected
    <2>1. UNCHANGED <<guardian, supervisor, status, pipe>> /\ worker.st # "none"
          /\ worker'.st \in {"rejected", "failed"}
      BY <1>9 DEF WorkerRejected, WorkerGets, WorkerReads
    <2> QED BY <2>1, ProcessesEnd
  <1>10. CASE WorkerReadFails
    <2>1. UNCHANGED <<guardian, supervisor, status, pipe>> /\ worker.st # "none"
          /\ worker'.st = "failed"
      BY <1>10 DEF WorkerReadFails, WorkerFails, WorkerReads
    <2> QED BY <2>1, ProcessesEnd
  <1>11. CASE WorkerGivesUp
    <2>1. UNCHANGED <<guardian, supervisor, status, pipe>> /\ worker.st # "none"
          /\ worker'.st = "failed"
      BY <1>11 DEF WorkerGivesUp, WorkerFails
    <2> QED BY <2>1, ProcessesEnd
  <1>12. CASE WorkerReloads
    <2>1. UNCHANGED <<guardian, supervisor, status, pipe>> /\ worker.st = "up"
          /\ worker'.st = "reloading" /\ worker'.resume = worker.resume
      BY <1>12 DEF WorkerReloads
    <2> QED BY <2>1 DEF Processes, Chain, Roles, Told, WorkerAlive, Late
  <1>13. CASE WorkerLogsOut
    <2>1. UNCHANGED <<guardian, supervisor, status, pipe>> /\ worker.st # "none"
          /\ worker'.st = "loggedOut"
      BY <1>13 DEF WorkerLogsOut
    <2> QED BY <2>1, ProcessesEnd
  <1>14. CASE WorkerDies
    <2>1. UNCHANGED <<guardian, supervisor, status, pipe>> /\ worker.st # "none"
          /\ worker'.st = "failed"
      BY <1>14, <1>f DEF WorkerDies
    <2> QED BY <2>1, ProcessesEnd
  <1> QED BY <1>1, <1>2, <1>3, <1>4, <1>5, <1>6, <1>7, <1>8, <1>9, <1>10, <1>11, <1>12,
            <1>13, <1>14 DEF WorkerStep, UserStep

(* A new worker starts by loading, with an empty writer.                    *)
LEMMA NewWorker ==
  ASSUME NEW resume \in BOOLEAN, NEW seed, SpawnWorker(resume, seed)
  PROVE  /\ worker'.st = "loading" /\ worker'.resume = resume /\ pipe' = {} /\ out' = <<>>
         /\ worker'.point = seed
  BY DEF SpawnWorker

(* A step or the death of the supervisor keeps Processes.                   *)
LEMMA ProcessesSupervisor ==
  ASSUME TypeOK, Processes, SupervisorStep \/ SupervisorDies
  PROVE  Processes'
  <1> USE Fields, Names
  <1>0. supervisor \in Supervisor /\ supervisor.first \in BOOLEAN /\ supervisor.resume \in BOOLEAN
    BY DEF TypeOK, Supervisor
  <1>1. CASE SupervisorLogsOut
    <2>1. /\ UNCHANGED <<guardian, status, pipe>> /\ worker'.st = "none" /\ supervisor.st = "run"
          /\ supervisor'.st = "loggedOut" /\ supervisor'.first = supervisor.first
          /\ supervisor'.resume = supervisor.resume
      BY <1>1 DEF SupervisorLogsOut, WorkerEnded
    <2> QED BY <1>0, <2>1, ProcessesEnd
  <1>2. CASE SupervisorRejected
    <2>1. /\ UNCHANGED <<guardian, status, pipe>> /\ worker'.st = "none" /\ supervisor.st = "run"
          /\ supervisor'.st = "left" /\ supervisor'.first = supervisor.first
          /\ supervisor'.resume = supervisor.resume
      BY <1>2 DEF SupervisorRejected, WorkerEnded
    <2> QED BY <1>0, <2>1, ProcessesEnd
  <1>3. CASE SupervisorSuspends
    <2>1. /\ UNCHANGED <<guardian, status, pipe>> /\ worker'.st = "none" /\ supervisor.st = "run"
          /\ supervisor'.st = "wait" /\ supervisor'.first = BootstrapRetry
          /\ supervisor'.resume = supervisor.resume /\ pipe # {}
      BY <1>0, <1>3 DEF SupervisorSuspends, WorkerEnded, Supervisor
    <2>2. supervisor'.first = FALSE
      BY <2>1 DEF BootstrapRetry
    <2> QED BY <1>0, <2>1, <2>2, ProcessesEnd
  <1>4. CASE SupervisorRetries
    <2>1. /\ UNCHANGED <<guardian, status>> /\ supervisor.st = "run"
          /\ supervisor'.st = "run" /\ supervisor'.first = BootstrapRetry
          /\ supervisor'.resume = supervisor.resume
          /\ SpawnWorker(~BootstrapRetry, supervisor.seed)
      BY <1>0, <1>4 DEF SupervisorRetries, WorkerEnded, Supervisor
    <2>b. BootstrapRetry \in BOOLEAN
      BY DEF BootstrapRetry
    <2>2. /\ worker'.st = "loading" /\ worker'.resume = ~BootstrapRetry /\ pipe' = {}
      BY <2>1, <2>b, NewWorker
    <2>3. BootstrapRetry => supervisor.first /\ pipe = {} /\ ~supervisor.resume
      BY DEF BootstrapRetry
    <2>4. BootstrapRetry => ~Told /\ ~guardian.resume
      BY <2>1, <2>3 DEF Processes, Roles
    <2>5. Told' = Told /\ guardian' = guardian
      BY <2>1 DEF Told
    <2>6. Chain'
      BY <2>1, <2>2 DEF Processes, Chain
    <2>7. supervisor'.first => BootstrapRetry
      BY <2>1
    <2>8. Roles'
      BY <2>1, <2>2, <2>4, <2>5, <2>7 DEF Processes, Roles, WorkerAlive, Late
    <2> QED BY <2>6, <2>8 DEF Processes
  <1>5. CASE SupervisorExhausted
    <2>1. /\ UNCHANGED <<guardian, status, pipe>> /\ worker'.st = "none" /\ supervisor.st = "run"
          /\ supervisor'.st = "left" /\ supervisor'.first = supervisor.first
          /\ supervisor'.resume = supervisor.resume
      BY <1>5 DEF SupervisorExhausted, WorkerEnded
    <2> QED BY <1>0, <2>1, ProcessesEnd
  <1>6. CASE SupervisorDiscards
    BY <1>6, ProcessesKept DEF SupervisorDiscards, hostVars
  <1>7. CASE SupervisorResumes
    <2>1. supervisor.st = "wait" /\ UNCHANGED <<guardian, status>>
      BY <1>7 DEF SupervisorResumes
    <2>2. worker.st = "none" /\ ~supervisor.first
      BY <2>1 DEF Processes, Chain, Roles
    <2>3. CASE supervisor.restarts > MaxRestarts
      <3>1. supervisor'.st = "left" /\ supervisor'.first = supervisor.first
            /\ supervisor'.resume = supervisor.resume /\ UNCHANGED <<worker, pipe>>
        BY <1>0, <1>7, <2>3 DEF SupervisorResumes, Supervisor
      <3> QED BY <1>0, <2>1, <2>2, <3>1, ProcessesEnd
    <2>4. CASE ~(supervisor.restarts > MaxRestarts)
      <3>1. supervisor'.st = "run" /\ supervisor'.first = supervisor.first
            /\ supervisor'.resume = supervisor.resume /\ SpawnWorker(TRUE, Head(down).val)
        BY <1>0, <1>7, <2>4 DEF SupervisorResumes, Supervisor
      <3>2. worker'.st = "loading" /\ worker'.resume = TRUE /\ pipe' = {}
        BY <3>1, NewWorker
      <3> QED BY <2>1, <2>2, <3>1, <3>2 DEF Processes, Chain, Roles, Told, WorkerAlive, Late
    <2> QED BY <2>3, <2>4
  <1>8. CASE SupervisorWaitFails
    <2>1. /\ UNCHANGED <<guardian, status, pipe, worker>> /\ supervisor.st = "wait"
          /\ supervisor'.st = "failed" /\ supervisor'.first = supervisor.first
          /\ supervisor'.resume = supervisor.resume
      BY <1>8 DEF SupervisorWaitFails
    <2>2. worker'.st = "none"
      BY <2>1 DEF Processes, Chain
    <2> QED BY <1>0, <2>1, <2>2, ProcessesEnd
  <1>9. CASE SupervisorDies
    <2>1. /\ UNCHANGED <<guardian, status, pipe, worker>>
          /\ supervisor.st \in {"run", "wait", "left"}
          /\ supervisor'.st = "failed" /\ supervisor'.first = supervisor.first
          /\ supervisor'.resume = supervisor.resume
      BY <1>9 DEF SupervisorDies
    <2> QED BY <1>0, <2>1 DEF Processes, Chain, Roles, Told, WorkerAlive, Late
  <1> QED BY <1>1, <1>2, <1>3, <1>4, <1>5, <1>6, <1>7, <1>8, <1>9 DEF SupervisorStep

(* A supervisor and a worker started afresh, of whom the guardian has not   *)
(* been told anything.                                                      *)
LEMMA ProcessesAfresh ==
  ASSUME NEW resume \in BOOLEAN, NEW seed, SpawnSupervisor(resume, seed),
         guardian'.resume = resume, guardian'.started = FALSE, guardian'.st = "run"
  PROVE  Processes' /\ ~Told' /\ worker'.st = "loading" /\ out' = <<>>
  <1>1. /\ supervisor'.st = "run" /\ supervisor'.resume = resume /\ supervisor'.first = TRUE
        /\ status' = {}
    BY DEF SpawnSupervisor
  <1>2. worker'.st = "loading" /\ worker'.resume = resume /\ pipe' = {} /\ out' = <<>>
    BY NewWorker DEF SpawnSupervisor
  <1> QED BY <1>1, <1>2 DEF Processes, Chain, Roles, Told, WorkerAlive, Late

(* Nobody is left.                                                          *)
LEMMA ProcessesNone ==
  ASSUME worker'.st = "none", supervisor'.st = "none"
  PROVE  Processes'
  BY DEF Processes, Chain, Roles, Told, WorkerAlive, Late

(* A step of the guardian, or a wait that times out, keeps Processes.       *)
LEMMA ProcessesGuardian ==
  ASSUME TypeOK, Processes, GuardianStep \/ WaitTimesOut
  PROVE  Processes'
  <1> USE Fields, Names
  <1>0. guardian \in Guardian
    BY DEF TypeOK
  <1>1. CASE GuardianPolls
    <2>1. /\ guardian'.st = guardian.st /\ guardian'.resume = guardian.resume
          /\ guardian'.started = Flag("started", guardian.started)
          /\ status' = {} /\ UNCHANGED <<supervisor, worker, pipe>>
      BY <1>0, <1>1 DEF GuardianPolls, Guardian
    <2>2. Told' = Told
      BY <2>1 DEF Told, Flag
    <2> QED BY <2>1, <2>2 DEF Processes, Chain, Roles, WorkerAlive
  <1>2. CASE GuardianReaps
    <2>1. CASE Flag("started", guardian.started)
      <3>1. KillGroup /\ supervisor' = NoSupervisor
        BY <1>2, <2>1 DEF GuardianReaps
      <3> QED BY <3>1, ProcessesNone DEF KillGroup
    <2>2. CASE ~Flag("started", guardian.started) /\ guardian.restarts >= MaxRestarts
      <3>1. KillGroup /\ supervisor' = NoSupervisor
        BY <1>2, <2>2 DEF GuardianReaps
      <3> QED BY <3>1, ProcessesNone DEF KillGroup
    <2>3. CASE ~Flag("started", guardian.started) /\ ~(guardian.restarts >= MaxRestarts)
      <3>1. /\ SpawnSupervisor(guardian.resume, guardian.seed) /\ guardian'.st = guardian.st
            /\ guardian'.resume = guardian.resume /\ guardian'.started = guardian.started
        BY <1>0, <1>2, <2>3 DEF GuardianReaps, Guardian
      <3>2. guardian.started = FALSE /\ guardian.resume \in BOOLEAN /\ guardian.st = "run"
        BY <1>0, <1>2, <2>3 DEF GuardianReaps, Guardian, Flag
      <3> QED BY <3>1, <3>2, ProcessesAfresh
    <2> QED BY <2>1, <2>2, <2>3
  <1>3. CASE GuardianDiscards
    BY <1>3, ProcessesKept DEF GuardianDiscards, hostVars
  <1>4. CASE GuardianResumes
    <2>0. guardian.st = "wait" /\ supervisor.st = "none" /\ worker.st = "none"
      BY <1>4 DEF GuardianResumes, Processes, Chain
    <2>1. CASE guardian.restarts >= MaxRestarts
      <3>1. UNCHANGED <<supervisor, worker>>
        BY <1>4, <2>1 DEF GuardianResumes
      <3> QED BY <2>0, <3>1, ProcessesNone
    <2>2. CASE ~(guardian.restarts >= MaxRestarts)
      <3>1. /\ SpawnSupervisor(TRUE, Head(down).val) /\ guardian'.st = "run"
            /\ guardian'.resume = TRUE /\ guardian'.started = FALSE
        BY <1>0, <1>4, <2>2 DEF GuardianResumes, Guardian
      <3> QED BY <3>1, ProcessesAfresh
    <2> QED BY <2>1, <2>2
  <1>5. CASE GuardianWaitFails
    <2>1. supervisor.st = "none" /\ worker.st = "none" /\ UNCHANGED <<supervisor, worker>>
      BY <1>5 DEF GuardianWaitFails, Processes, Chain
    <2> QED BY <2>1, ProcessesNone
  <1>6. CASE GuardianEnds
    BY <1>6, ProcessesNone DEF GuardianEnds
  <1>7. CASE WaitTimesOut
    <2>1. CASE supervisor.st = "wait" /\ supervisor' = [supervisor EXCEPT !.st = "failed"]
               /\ UNCHANGED <<guardian, up>>
      <3>1. /\ UNCHANGED <<worker, status, pipe>> /\ worker.st = "none" /\ ~supervisor.first
        BY <1>7, <2>1 DEF WaitTimesOut, Processes, Chain, Roles
      <3>2. /\ supervisor'.st = "failed" /\ supervisor'.first = supervisor.first
            /\ supervisor'.resume = supervisor.resume
        BY <2>1
      <3> QED BY <2>1, <3>1, <3>2 DEF Processes, Chain, Roles, Told, WorkerAlive, Late
    <2>2. CASE /\ guardian.st = "wait" /\ guardian' = [guardian EXCEPT !.st = "retain"]
               /\ HostSends(Message("FAILED", 0)) /\ UNCHANGED supervisor
      <3>1. supervisor.st = "none" /\ worker.st = "none" /\ UNCHANGED <<supervisor, worker>>
        BY <1>7, <2>2 DEF WaitTimesOut, Processes, Chain
      <3> QED BY <3>1, ProcessesNone
    <2> QED BY <1>7, <2>1, <2>2 DEF WaitTimesOut
  <1> QED BY <1>1, <1>2, <1>3, <1>4, <1>5, <1>6, <1>7 DEF GuardianStep

(* Every step keeps Processes.                                              *)
LEMMA ProcessesNext == TypeOK /\ Processes /\ [Next]_vars => Processes'
  <1> SUFFICES ASSUME TypeOK, Processes, [Next]_vars PROVE Processes'
    OBVIOUS
  <1>1. CASE UNCHANGED vars \/ Rests
    BY <1>1, ProcessesKept DEF Rests, vars, hostVars
  <1>2. CASE CompositorStep \/ CompositorDies
    <2>1. UNCHANGED hostVars
      BY <1>2 DEF CompositorStep, CompositorDies, CompositorFlushes, CompositorReadsFirst,
         CompositorReadFails, CompositorBoots, CompositorBootFails, CompositorLifecycle,
         CompositorFailed, CompositorDiscards, CompositorSuspends, CompositorResumes,
         CompositorRepeats, CompositorCommits
    <2> QED BY <2>1, ProcessesKept DEF hostVars
  <1> QED BY <1>1, <1>2, ProcessesWorker, ProcessesSupervisor, ProcessesGuardian
          DEF Next, FaultStep
-----------------------------------------------------------------------------
(* Queues.                                                                  *)

(* The frames of both directions.                                           *)
AllFrames == Frame(UpTypes \cup DownTypes)
(* The frames that complete a message of these types.                       *)
Ending(types) == {f \in AllFrames : f.part # "first" /\ f.type \in types}
(* A frame of S is queued in q.                                             *)
Has(q, S) == \E i \in DOMAIN q : q[i] \in S
(* At most one frame of S is queued in q.                                   *)
Once(q, S) == \A i, j \in DOMAIN q : q[i] \in S /\ q[j] \in S => i = j
(* Every frame of B in q has a frame of G behind it.                        *)
Followed(q, B, G) == \A i \in DOMAIN q : q[i] \in B => \E j \in DOMAIN q : j > i /\ q[j] \in G

(* r is q without its first element.                                        *)
Took(q, h, r) ==
  /\ \A S : Has(r, S) => Has(q, S)
  /\ \A S : Has(q, S) => h \in S \/ Has(r, S)
  /\ \A S : h \in S => Has(q, S)
  /\ \A S : Once(q, S) => Once(r, S)
  /\ \A S : Once(q, S) /\ h \in S => ~Has(r, S)
  /\ \A B, G : Followed(q, B, G) => Followed(r, B, G)
  /\ \A B, G : Followed(q, B, G) /\ h \in B => Has(r, G)

(* r is q followed by m.                                                    *)
Got(q, m, r) ==
  /\ \A S : Has(r, S) <=> Has(q, S) \/ Has(m, S)
  /\ \A S : Once(q, S) /\ Once(m, S) /\ ~(Has(q, S) /\ Has(m, S)) => Once(r, S)
  /\ \A B, G : Followed(q, B, G) /\ ~Has(m, B) => Followed(r, B, G)
  /\ \A B, G : ~Has(m, B) /\ Has(m, G) => Followed(r, B, G)

(* Taking the first frame of a queue.                                       *)
LEMMA Taking ==
  ASSUME NEW T, NEW q \in Seq(T), q # <<>>
  PROVE  Took(q, Head(q), Tail(q))
  <1> DEFINE h == Head(q)
             r == Tail(q)
             n == Len(q)
  <1>1. /\ n \in Nat /\ n >= 1 /\ DOMAIN q = 1..n /\ DOMAIN r = 1..(n - 1)
        /\ h = q[1] /\ \A i \in 1..(n - 1) : r[i] = q[i + 1]
    OBVIOUS
  <1> HIDE DEF h, r, n
  <1>2. /\ \A i \in DOMAIN r : i \in Nat /\ i + 1 \in DOMAIN q /\ q[i + 1] = r[i]
        /\ \A i \in DOMAIN q : i \in Nat /\ (i = 1 \/ (i - 1 \in DOMAIN r /\ r[i - 1] = q[i]))
        /\ 1 \in DOMAIN q /\ h = q[1]
    BY <1>1
  <1>3. \A S : Has(r, S) => Has(q, S)
    BY <1>2 DEF Has
  <1>4. \A S : Has(q, S) => h \in S \/ Has(r, S)
    BY <1>2 DEF Has
  <1>5. \A S : h \in S => Has(q, S)
    BY <1>2 DEF Has
  <1>6. \A S : Once(q, S) => Once(r, S)
    <2> SUFFICES ASSUME NEW S, Once(q, S), NEW i \in DOMAIN r, NEW j \in DOMAIN r,
                        r[i] \in S, r[j] \in S
                 PROVE  i = j
      BY DEF Once
    <2>1. i + 1 = j + 1
      BY <1>2 DEF Once
    <2> QED BY <1>2, <2>1
  <1>7. \A S : Once(q, S) /\ h \in S => ~Has(r, S)
    <2> SUFFICES ASSUME NEW S, Once(q, S), h \in S, NEW i \in DOMAIN r, r[i] \in S
                 PROVE  FALSE
      BY DEF Has
    <2>1. i + 1 = 1
      BY <1>2 DEF Once
    <2> QED BY <1>1, <2>1
  <1>8. \A B, G : Followed(q, B, G) => Followed(r, B, G)
    <2> SUFFICES ASSUME NEW B, NEW G, Followed(q, B, G), NEW i \in DOMAIN r, r[i] \in B
                 PROVE  \E j \in DOMAIN r : j > i /\ r[j] \in G
      BY DEF Followed
    <2>1. PICK j \in DOMAIN q : j > i + 1 /\ q[j] \in G
      BY <1>2 DEF Followed
    <2>2. j - 1 \in DOMAIN r /\ r[j - 1] = q[j] /\ j - 1 > i
      BY <1>2, <2>1
    <2> QED BY <2>1, <2>2
  <1>9. \A B, G : Followed(q, B, G) /\ h \in B => Has(r, G)
    <2> SUFFICES ASSUME NEW B, NEW G, Followed(q, B, G), h \in B
                 PROVE  Has(r, G)
      OBVIOUS
    <2>1. PICK j \in DOMAIN q : j > 1 /\ q[j] \in G
      BY <1>2 DEF Followed
    <2>2. j - 1 \in DOMAIN r /\ r[j - 1] = q[j]
      BY <1>1, <1>2, <2>1
    <2> QED BY <2>1, <2>2 DEF Has
  <1>10. Took(q, h, r)
    BY <1>3, <1>4, <1>5, <1>6, <1>7, <1>8, <1>9 DEF Took
  <1> QED BY <1>10 DEF h, r

(* Adding frames to a queue.                                                *)
LEMMA Getting ==
  ASSUME NEW T, NEW q \in Seq(T), NEW m \in Seq(T)
  PROVE  Got(q, m, q \o m)
  <1> DEFINE r == q \o m
             n == Len(q)
             k == Len(m)
  <1>1. /\ n \in Nat /\ k \in Nat /\ DOMAIN q = 1..n /\ DOMAIN m = 1..k /\ DOMAIN r = 1..(n + k)
        /\ \A i \in 1..n : r[i] = q[i]
        /\ \A i \in 1..k : r[n + i] = m[i]
    OBVIOUS
  <1> HIDE DEF r, n, k
  <1>2. /\ \A i \in DOMAIN q : i \in Nat /\ i <= n /\ i \in DOMAIN r /\ r[i] = q[i]
        /\ \A i \in DOMAIN m : i \in Nat /\ n + i > n /\ n + i \in DOMAIN r /\ r[n + i] = m[i]
        /\ \A i \in DOMAIN r : /\ i \in Nat
                               /\ \/ i \in DOMAIN q /\ r[i] = q[i]
                                  \/ i - n \in DOMAIN m /\ r[i] = m[i - n] /\ i > n
    BY <1>1
  <1>3. \A S : Has(r, S) <=> Has(q, S) \/ Has(m, S)
    BY <1>2 DEF Has
  <1>4. \A S : Once(q, S) /\ Once(m, S) /\ ~(Has(q, S) /\ Has(m, S)) => Once(r, S)
    <2> SUFFICES ASSUME NEW S, Once(q, S), Once(m, S), ~(Has(q, S) /\ Has(m, S)),
                        NEW i \in DOMAIN r, NEW j \in DOMAIN r, r[i] \in S, r[j] \in S
                 PROVE  i = j
      BY DEF Once
    <2>1. CASE i \in DOMAIN q /\ j \in DOMAIN q
      BY <1>2, <2>1 DEF Once
    <2>2. CASE i - n \in DOMAIN m /\ r[i] = m[i - n] /\ j - n \in DOMAIN m /\ r[j] = m[j - n]
      <3>1. i - n = j - n
        BY <2>2 DEF Once
      <3> QED BY <1>1, <1>2, <3>1
    <2>3. CASE \/ i \in DOMAIN q /\ j - n \in DOMAIN m /\ r[j] = m[j - n]
               \/ j \in DOMAIN q /\ i - n \in DOMAIN m /\ r[i] = m[i - n]
      BY <1>2, <2>3 DEF Has
    <2> QED BY <1>2, <2>1, <2>2, <2>3
  <1>5. \A B, G : Followed(q, B, G) /\ ~Has(m, B) => Followed(r, B, G)
    <2> SUFFICES ASSUME NEW B, NEW G, Followed(q, B, G), ~Has(m, B), NEW i \in DOMAIN r, r[i] \in B
                 PROVE  \E j \in DOMAIN r : j > i /\ r[j] \in G
      BY DEF Followed
    <2>1. i \in DOMAIN q /\ q[i] \in B
      BY <1>2 DEF Has
    <2>2. PICK j \in DOMAIN q : j > i /\ q[j] \in G
      BY <2>1 DEF Followed
    <2> QED BY <1>2, <2>2
  <1>6. \A B, G : ~Has(m, B) /\ Has(m, G) => Followed(r, B, G)
    <2> SUFFICES ASSUME NEW B, NEW G, ~Has(m, B), Has(m, G), NEW i \in DOMAIN r, r[i] \in B
                 PROVE  \E j \in DOMAIN r : j > i /\ r[j] \in G
      BY DEF Followed
    <2>1. i \in DOMAIN q
      BY <1>2 DEF Has
    <2>2. PICK j \in DOMAIN m : m[j] \in G
      BY DEF Has
    <2>3. n + j \in DOMAIN r /\ r[n + j] \in G /\ n + j > i
      <3>1. i \in Nat /\ i <= n /\ j \in Nat /\ n + j > n
        BY <1>2, <2>1, <2>2
      <3> QED BY <1>1, <1>2, <2>2, <3>1
    <2> QED BY <2>3
  <1>7. Got(q, m, r)
    BY <1>3, <1>4, <1>5, <1>6 DEF Got
  <1> QED BY <1>7 DEF r

(* Adding one frame to a queue.                                             *)
LEMMA GettingOne ==
  ASSUME NEW T, NEW q \in Seq(T), NEW e \in T
  PROVE  /\ Got(q, <<e>>, Append(q, e)) /\ <<e>> \in Seq(T)
         /\ \A S : Has(<<e>>, S) <=> e \in S
         /\ \A S : Once(<<e>>, S)
  <1>1. <<e>> \in Seq(T) /\ Append(q, e) = q \o <<e>>
    OBVIOUS
  <1>2. DOMAIN <<e>> = {1} /\ <<e>>[1] = e
    OBVIOUS
  <1>3. (\A S : Has(<<e>>, S) <=> e \in S) /\ (\A S : Once(<<e>>, S))
    BY <1>2 DEF Has, Once
  <1> QED BY <1>1, <1>3, Getting

(* An empty queue has nothing.                                              *)
LEMMA Empty ==
  /\ \A S : ~Has(<<>>, S) /\ Once(<<>>, S)
  /\ \A B, G : Followed(<<>>, B, G)
  BY DEF Has, Once, Followed

(* What a message puts on a channel.                                        *)
LEMMA Sent ==
  ASSUME NEW type \in UpTypes \cup DownTypes, NEW val,
         IF type = "LIFECYCLE" THEN val \in {Starting, Running} ELSE val \in Point
  PROVE  /\ Message(type, val) \in Seq(AllFrames)
         /\ \A S : Has(Message(type, val), S) =>
                     \E f \in S : f \in AllFrames /\ f.type = type /\ f.val = val
         /\ \E f \in Ending({type}) : /\ f.type = type /\ f.val = val
                                      /\ \A S : f \in S => Has(Message(type, val), S)
         /\ \A types : Once(Message(type, val), Ending(types))
         /\ \A types : Has(Message(type, val), Ending(types)) <=> type \in types
  <1> DEFINE m == Message(type, val)
             frame(part) == [type |-> type, part |-> part, val |-> val]
  <1>1. m \in Seq(AllFrames)
    BY Messages DEF AllFrames
  <1>2. \/ m = <<frame("whole")>>
        \/ m = <<frame("first"), frame("last")>>
    BY DEF Message
  <1>3. \A part \in Part : frame(part) \in AllFrames
    BY DEF AllFrames, Frame
  <1>4. /\ Len(m) \in Nat /\ DOMAIN m = 1..Len(m) /\ Len(m) \in DOMAIN m
        /\ m[Len(m)] \in {frame("whole"), frame("last")}
        /\ \A i \in DOMAIN m : \/ i = Len(m)
                               \/ m[i] = frame("first")
        /\ \A i \in DOMAIN m : m[i] \in {frame("whole"), frame("last"), frame("first")}
    <2>1. PICK a, b, c : a = frame("whole") /\ b = frame("first") /\ c = frame("last")
      OBVIOUS
    <2>2. m = <<a>> \/ m = <<b, c>>
      BY <1>2, <2>1
    <2>3. /\ Len(m) \in Nat /\ DOMAIN m = 1..Len(m) /\ Len(m) \in DOMAIN m
          /\ m[Len(m)] \in {a, c}
          /\ \A i \in DOMAIN m : i = Len(m) \/ m[i] = b
          /\ \A i \in DOMAIN m : m[i] \in {a, c, b}
      <3> HIDE DEF m
      <3>1. CASE m = <<a>>
        BY <3>1
      <3>2. CASE m = <<b, c>>
        BY <3>2
      <3> QED BY <2>2, <3>1, <3>2
    <2> QED BY <2>1, <2>3
  <1> DEFINE e == m[Len(m)]
  <1>5. /\ e \in AllFrames /\ e.type = type /\ e.val = val /\ e.part # "first"
        /\ frame("first").part = "first"
        /\ \A i \in DOMAIN m : m[i] \in AllFrames /\ m[i].type = type /\ m[i].val = val
        /\ \A i \in DOMAIN m : i = Len(m) \/ m[i].part = "first"
    BY <1>3, <1>4 DEF Part
  <1> HIDE DEF m, e
  <1>6. \A S : Has(m, S) => \E f \in S : f \in AllFrames /\ f.type = type /\ f.val = val
    BY <1>5 DEF Has
  <1>7. e \in Ending({type}) /\ (\A S : e \in S => Has(m, S))
    BY <1>4, <1>5 DEF Has, Ending, e
  <1>8. \A types : Once(m, Ending(types))
    <2> SUFFICES ASSUME NEW types, NEW i \in DOMAIN m, NEW j \in DOMAIN m,
                        m[i] \in Ending(types), m[j] \in Ending(types)
                 PROVE  i = j
      BY DEF Once
    <2>1. m[i].part # "first" /\ m[j].part # "first"
      BY DEF Ending
    <2> QED BY <1>5, <2>1
  <1>9. \A types : Has(m, Ending(types)) <=> type \in types
    <2>1. \A types : type \in types => e \in Ending(types)
      BY <1>5 DEF Ending
    <2>2. \A types : \A f \in Ending(types) : f.type \in types
      BY DEF Ending
    <2> QED BY <1>6, <1>7, <2>1, <2>2
  <1> QED BY <1>1, <1>5, <1>6, <1>7, <1>8, <1>9 DEF m
-----------------------------------------------------------------------------
(* The channel.                                                             *)

(* The messages the invariant is about, by the frame that completes them.   *)
Configs == Ending({"CONFIG"})
Resumes == Ending({"RESUME"})
Results == Ending({"RESULT"})
Suspensions == Ending({"SUSPENDED"})
Answers == Ending({"HELLO", "RESULT"})
(* What a worker that resumes with p must not leave in the channel for long.*)
Stale(p) == {f \in Ending({"CONFIG", "RESUME"}) : f.type = "RESUME" => f.val # p}
(* The RESUME of a worker whose configuration is p.                         *)
Asks(p) == {f \in Resumes : f.val = p}
(* A first configuration other than configuration 1; no such frame exists.  *)
OtherBoots == {f \in AllFrames : f.type = "BOOT" /\ f.val # 1}
(* Configurations other than the one the worker tries.                      *)
OtherConfigs(t) == {f \in Configs : f.val # t}
(* Answers that do not fit the worker and what the compositor committed: the*)
(* worker would take up another configuration than the compositor has.      *)
OtherResults(w, point) ==
  {f \in Results : ~(f.val = w.tried /\ point = w.tried) /\ ~(f.val = 0 /\ point = w.point)}
OtherThan(type) == {f \in AllFrames : f.type # type}
(* Anything but a worker's first packet.                                    *)
NotOpening(w) ==
  {f \in AllFrames : f.type # (IF w.resume THEN "RESUME" ELSE "BOOT") \/ f.val # w.point}

(* A compositor that waits for the first configuration has said nothing, and*)
(* nobody has heard from it.                                                *)
Booting == compositor.st = "boot" =>
  cout = <<>> /\ down = <<>> /\ ~compositor.suspended /\ worker.st \notin Late

(* What the writer of a worker holds: nothing before it loads, then its first*)
(* packet, then configurations only.                                        *)
Outgoing ==
  /\ worker.st \in {"loading", "marked", "started"} => out = <<>>
  /\ worker.st = "sending" => ~Has(out, NotOpening(worker))
  /\ worker.st \in Late => ~Has(out, OtherThan("CONFIG"))
  /\ worker.st \in Early /\ ~worker.resume => worker.point = 1
  /\ worker.st = "reloading" => worker.tried >= 1
  /\ ~Has(up, OtherBoots)

(* No worker has started, as far as the guardian will ever know; the present*)
(* one, if any, is a first one.                                             *)
Untold ==
  /\ guardian.st # "done" /\ ~guardian.resume
  /\ ~Told \/ (worker.st = "started" /\ ~worker.resume)

(* Until a worker started, no reload is on its way and configuration 1 is all*)
(* the compositor can have committed.                                       *)
Young == Untold =>
  /\ ~Has(up, Configs) /\ ~Has(down, Results) /\ ~Has(cout, Results)
  /\ compositor.st = "live" => compositor.point = 1

(* A SUSPENDED is on its way to the host.                                   *)
SuspendedUnderway == Has(down, Suspensions) \/ Has(cout, Suspensions)

(* Whatever a suspended compositor said before, a SUSPENDED comes behind it,*)
(* unless the host has taken that SUSPENDED and nothing is left.            *)
Silenced == compositor.st = "live" /\ compositor.suspended =>
  /\ Has(cout, Suspensions) \/ Followed(down, Answers, Suspensions)
  /\ Followed(cout, Answers, Suspensions)

(* A worker that serves while the compositor is suspended has the SUSPENDED *)
(* that ends it coming.                                                     *)
Doomed ==
  compositor.st = "live" /\ compositor.suspended /\ worker.st \in Late => SuspendedUnderway

(* A worker that resumes has its RESUME queued, or in the channel behind all*)
(* that earlier workers left there.                                         *)
Queued == worker.st \in Early /\ worker.resume =>
  Has(out, Resumes) \/ Followed(up, Stale(worker.point), Asks(worker.point))

(* No reload is under way and both hold the same configuration.             *)
Agreed ==
  /\ worker.st # "reloading" /\ compositor.point = worker.point
  /\ ~Has(up, Configs) /\ ~Has(out, Configs) /\ ~Has(down, Results) /\ ~Has(cout, Results)

(* The worker tries a configuration that the compositor has not read yet; it*)
(* is on its way once.                                                      *)
Asked ==
  /\ worker.st = "reloading" /\ compositor.point = worker.point
  /\ ~Has(down, Results) /\ ~Has(cout, Results)
  /\ Once(up, Configs) /\ Once(out, Configs) /\ ~(Has(up, Configs) /\ Has(out, Configs))
  /\ ~Has(up, OtherConfigs(worker.tried)) /\ ~Has(out, OtherConfigs(worker.tried))

(* The answer is on its way, once, and fits what the compositor committed.  *)
Answered ==
  /\ worker.st = "reloading"
  /\ ~Has(up, Configs) /\ ~Has(out, Configs)
  /\ Once(down, Results) /\ Once(cout, Results) /\ ~(Has(down, Results) /\ Has(cout, Results))
  /\ ~Has(down, OtherResults(worker, compositor.point))
  /\ ~Has(cout, OtherResults(worker, compositor.point))

(* Worker and compositor are at the same point of the same reload.          *)
InTouch == Agreed \/ Asked \/ Answered
(* They are, or a suspension will end the worker.                           *)
Accepted == SuspendedUnderway \/ compositor.suspended \/ InTouch

(* The present worker is to be accepted by its RESUME, or it is accepted.   *)
Covered == worker.st \in Early \cup Late =>
  /\ worker.resume /\ compositor.st \in {"boot", "live"} =>
       Has(up, Resumes) \/ Has(out, Resumes) \/ (compositor.st = "live" /\ Accepted)
  /\ ~worker.resume /\ compositor.st = "live" => Accepted

(* What the queues hold.                                                    *)
Channel == Booting /\ Outgoing /\ Young /\ Silenced /\ Doomed /\ Queued /\ Covered
-----------------------------------------------------------------------------
(* What each step does to the channel.                                      *)

(* Messages of the guardian and the supervisor.                             *)
HostOnly(m) ==
  \A S : Has(m, S) => \E f \in S : /\ f \in AllFrames
                                   /\ f.type \in {"LIFECYCLE", "DISCONNECTED", "FAILED"}

(* Membership in the sets of frames the invariant speaks of.                *)
LEMMA Kinds ==
  /\ \A f \in AllFrames : \A types : f \in Ending(types) <=> f.part # "first" /\ f.type \in types
  /\ \A types : \A f \in Ending(types) : f \in AllFrames /\ f.type \in types /\ f.part # "first"
  /\ \A p : \A f \in Stale(p) : f \in AllFrames
                /\ f.type \in {"CONFIG", "RESUME"} /\ f.part # "first"
  BY DEF Ending, Stale

(* The messages of guardian and supervisor are none of those sets.          *)
LEMMA HostNews ==
  ASSUME NEW m, HostOnly(m)
  PROVE  /\ ~Has(m, Configs) /\ ~Has(m, Resumes) /\ ~Has(m, OtherBoots)
         /\ \A p : ~Has(m, Stale(p))
         /\ \A t : ~Has(m, OtherConfigs(t))
  BY Kinds DEF HostOnly, Configs, Resumes, OtherBoots, OtherConfigs

(* The channel when no worker is at work on it.                             *)
LEMMA ChannelWithout ==
  ASSUME Channel, UNCHANGED <<compositor, cout>>, Untold' => Untold,
         NEW h, down' = down \/ Took(down, h, down'),
         NEW m, up' = up \/ (Got(up, m, up') /\ HostOnly(m)),
         worker'.st \notin Early \cup Late, worker'.st = "loading" => out' = <<>>,
         compositor.st = "boot" => down' = down
  PROVE  Channel'
  <1> USE DEF Channel
  <1>1. /\ ~Has(up, OtherBoots) => ~Has(up', OtherBoots)
        /\ ~Has(up, Configs) => ~Has(up', Configs)
    BY HostNews DEF Got
  <1>2. /\ ~Has(down, Results) => ~Has(down', Results)
        /\ Followed(down, Answers, Suspensions) => Followed(down', Answers, Suspensions)
    BY DEF Took
  <1>3. Booting' /\ Outgoing'
    BY <1>1 DEF Booting, Outgoing, Early, Late
  <1>4. Young'
    BY <1>1, <1>2 DEF Young
  <1>5. Silenced'
    BY <1>2 DEF Silenced
  <1>6. Doomed' /\ Queued' /\ Covered'
    BY DEF Doomed, Queued, Covered
  <1> QED BY <1>3, <1>4, <1>5, <1>6

(* The worker as it was.                                                    *)
LEMMA ChannelBeside ==
  ASSUME Channel, UNCHANGED <<compositor, cout, worker, out>>, Untold' => Untold,
         NEW h, down' = down \/ (Took(down, h, down') /\ h \notin Suspensions /\ h \notin Results),
         NEW m, up' = up \/ (Got(up, m, up') /\ HostOnly(m)),
         compositor.st = "boot" => down' = down
  PROVE  Channel'
  <1> USE DEF Channel
  <1>1. /\ ~Has(up, OtherBoots) => ~Has(up', OtherBoots)
        /\ ~Has(up, Configs) <=> ~Has(up', Configs)
        /\ ~Has(up, Resumes) <=> ~Has(up', Resumes)
        /\ \A t : ~Has(up, OtherConfigs(t)) => ~Has(up', OtherConfigs(t))
        /\ \A p : Followed(up, Stale(p), Asks(p)) => Followed(up', Stale(p), Asks(p))
        /\ Once(up, Configs) => Once(up', Configs)
    <2>1. CASE up' = up
      BY <2>1
    <2>2. CASE Got(up, m, up') /\ HostOnly(m)
      <3>1. Once(m, Configs)
        BY <2>2, HostNews DEF Once, Has
      <3> QED BY <2>2, <3>1, HostNews DEF Got
    <2> QED BY <2>1, <2>2
  <1>2. /\ Has(down, Results) <=> Has(down', Results)
        /\ Has(down, Suspensions) <=> Has(down', Suspensions)
        /\ \A w, p : ~Has(down, OtherResults(w, p)) => ~Has(down', OtherResults(w, p))
        /\ Once(down, Results) => Once(down', Results)
        /\ Followed(down, Answers, Suspensions) => Followed(down', Answers, Suspensions)
    BY DEF Took
  <1>3. Booting' /\ Outgoing'
    BY <1>1 DEF Booting, Outgoing
  <1>4. Young'
    BY <1>1, <1>2 DEF Young
  <1>5. Silenced' /\ Doomed'
    BY <1>2 DEF Silenced, Doomed, SuspendedUnderway
  <1>6. Queued'
    BY <1>1 DEF Queued
  <1>7. (Agreed => Agreed') /\ (Asked => Asked') /\ (Answered => Answered')
    BY <1>1, <1>2 DEF Agreed, Asked, Answered
  <1>8. SuspendedUnderway <=> SuspendedUnderway'
    BY <1>2 DEF SuspendedUnderway
  <1>9. Covered'
    BY <1>1, <1>7, <1>8 DEF Covered, Accepted, InTouch
  <1> QED BY <1>3, <1>4, <1>5, <1>6, <1>9

(* Frames are frames of either direction.                                   *)
LEMMA Directions ==
  ASSUME TypeOK
  PROVE  /\ up \in Seq(AllFrames) /\ out \in Seq(AllFrames)
         /\ down \in Seq(AllFrames) /\ cout \in Seq(AllFrames)
  <1>1. Frame(UpTypes) \subseteq AllFrames /\ Frame(DownTypes) \subseteq AllFrames
    BY DEF AllFrames, Frame
  <1>2. \A S, T : S \subseteq T => \A q \in Seq(S) : q \in Seq(T)
    OBVIOUS
  <1> QED BY <1>1, <1>2 DEF TypeOK

(* Each queue, when its first frame is taken.                               *)
LEMMA Takes ==
  ASSUME TypeOK
  PROVE  /\ down # <<>> => Took(down, Head(down), Tail(down)) /\ Head(down) \in AllFrames
         /\ up # <<>> => Took(up, Head(up), Tail(up)) /\ Head(up) \in AllFrames
         /\ out # <<>> => Took(out, Head(out), Tail(out)) /\ Head(out) \in AllFrames
         /\ cout # <<>> => Took(cout, Head(cout), Tail(cout)) /\ Head(cout) \in AllFrames
  <1>1. \A q \in Seq(AllFrames) : q # <<>> => Took(q, Head(q), Tail(q)) /\ Head(q) \in AllFrames
    BY Taking, Sequences
  <1> QED BY <1>1, Directions

(* What the guardian and the supervisor say.                                *)
LEMMA Says ==
  ASSUME TypeOK
  PROVE  /\ \A t \in {"DISCONNECTED", "FAILED"} :
               Got(up, Message(t, 0), up \o Message(t, 0)) /\ HostOnly(Message(t, 0))
         /\ \A s, r : LET news == Lifecycle(s, r) IN
              /\ Got(up, news, up \o news) /\ HostOnly(news)
              /\ \A t \in {"DISCONNECTED", "FAILED"} :
                   /\ Got(up, news \o Message(t, 0), up \o (news \o Message(t, 0)))
                   /\ HostOnly(news \o Message(t, 0))
  <1>1. \A a, b \in Seq(AllFrames) :
          /\ a \o b \in Seq(AllFrames) /\ Got(a, b, a \o b)
          /\ HostOnly(a) /\ HostOnly(b) => HostOnly(a \o b)
    <2> SUFFICES ASSUME NEW a \in Seq(AllFrames), NEW b \in Seq(AllFrames)
                 PROVE  /\ a \o b \in Seq(AllFrames) /\ Got(a, b, a \o b)
                        /\ HostOnly(a) /\ HostOnly(b) => HostOnly(a \o b)
      OBVIOUS
    <2>1. a \o b \in Seq(AllFrames) /\ Got(a, b, a \o b)
      BY Getting
    <2> QED BY <2>1 DEF Got, HostOnly
  <1>2. \A t \in {"DISCONNECTED", "FAILED"} :
          Message(t, 0) \in Seq(AllFrames) /\ HostOnly(Message(t, 0))
    <2> SUFFICES ASSUME NEW t \in {"DISCONNECTED", "FAILED"}
                 PROVE  Message(t, 0) \in Seq(AllFrames) /\ HostOnly(Message(t, 0))
      OBVIOUS
    <2>1. t \in UpTypes \cup DownTypes /\ t # "LIFECYCLE" /\ 0 \in Point
      BY Bounds DEF UpTypes
    <2>2. Message(t, 0) \in Seq(AllFrames)
      BY <2>1, Sent
    <2>a. \A S : Has(Message(t, 0), S) =>
                   \E f \in S : f \in AllFrames /\ f.type = t /\ f.val = 0
      BY <2>1, Sent
    <2>3. \A S : Has(Message(t, 0), S) => \E f \in S : f \in AllFrames /\ f.type = t
      BY <2>a
    <2> QED BY <2>2, <2>3 DEF HostOnly
  <1>3. \A v \in {Starting, Running} :
          Message("LIFECYCLE", v) \in Seq(AllFrames) /\ HostOnly(Message("LIFECYCLE", v))
    <2>1. "LIFECYCLE" \in UpTypes \cup DownTypes
      BY DEF UpTypes
    <2> SUFFICES ASSUME NEW v \in {Starting, Running}
                 PROVE  Message("LIFECYCLE", v) \in Seq(AllFrames)
                        /\ HostOnly(Message("LIFECYCLE", v))
      OBVIOUS
    <2>2. Message("LIFECYCLE", v) \in Seq(AllFrames)
      BY <2>1, Sent
    <2>a. \A S : Has(Message("LIFECYCLE", v), S) =>
                   \E f \in S : f \in AllFrames /\ f.type = "LIFECYCLE" /\ f.val = v
      BY <2>1, Sent
    <2>3. \A S : Has(Message("LIFECYCLE", v), S) =>
                   \E f \in S : f \in AllFrames /\ f.type = "LIFECYCLE"
      BY <2>a
    <2> QED BY <2>2, <2>3 DEF HostOnly
  <1>4. <<>> \in Seq(AllFrames) /\ HostOnly(<<>>)
    <2>1. HostOnly(<<>>)
      BY Empty DEF HostOnly
    <2> QED BY <2>1
  <1>5. \A s, r : Lifecycle(s, r) \in Seq(AllFrames) /\ HostOnly(Lifecycle(s, r))
    <2> SUFFICES ASSUME NEW s, NEW r
                 PROVE  Lifecycle(s, r) \in Seq(AllFrames) /\ HostOnly(Lifecycle(s, r))
      OBVIOUS
    <2>1. PICK a, b : /\ Lifecycle(s, r) = a \o b
                      /\ a = <<>> \/ a = Message("LIFECYCLE", Starting)
                      /\ b = <<>> \/ b = Message("LIFECYCLE", Running)
      BY DEF Lifecycle
    <2>2. a \in Seq(AllFrames) /\ HostOnly(a) /\ b \in Seq(AllFrames) /\ HostOnly(b)
      BY <1>3, <1>4, <2>1
    <2> QED BY <1>1, <2>1, <2>2
  <1> QED BY <1>1, <1>2, <1>5, Directions
-----------------------------------------------------------------------------

(* Untold begins with no step that leaves the guardian and its status alone.*)
LEMMA UntoldKept ==
  ASSUME UNCHANGED <<guardian, status>>, worker'.st # "started" \/ worker' = worker
  PROVE  Untold' => Untold
  BY DEF Untold, Told

(* While the compositor boots there is nothing to read.                     *)
LEMMA BootSilent ==
  ASSUME Channel, compositor.st = "boot"
  PROVE  down = <<>> /\ cout = <<>>
  BY DEF Channel, Booting

(* A worker ends; what it was to read may be lost with it.                  *)
LEMMA ChannelEnds ==
  ASSUME TypeOK, Channel, UNCHANGED <<guardian, status, compositor, cout, up>>,
         down' = down \/ (down # <<>> /\ down' = Tail(down)),
         worker'.st \notin Early \cup Late \cup {"loading"}
  PROVE  Channel'
  <1>1. Untold' => Untold
    BY UntoldKept DEF Early
  <1>2. down' = down \/ Took(down, Head(down), down')
    BY Takes
  <1>3. compositor.st = "boot" => down' = down
    BY BootSilent
  <1> QED BY <1>1, <1>2, <1>3, ChannelWithout

(* Frames the worker only passes over.                                      *)
LEMMA ChannelRead ==
  ASSUME TypeOK, Channel, UNCHANGED <<guardian, status, compositor, cout, up, worker, out>>,
         down # <<>>, down' = Tail(down),
         Head(down).part = "first" \/ Head(down).type \notin {"SUSPENDED", "RESULT"}
  PROVE  Channel'
  <1>1. Untold' => Untold
    BY UntoldKept
  <1>2. Took(down, Head(down), down') /\ Head(down) \in AllFrames
    BY Takes
  <1>3. Head(down) \notin Suspensions /\ Head(down) \notin Results
    BY <1>2, Kinds DEF Suspensions, Results
  <1>4. compositor.st = "boot" => down' = down
    BY BootSilent
  <1> QED BY <1>1, <1>2, <1>3, <1>4, ChannelBeside

(* The worker passes over a frame or ends: Channel is kept.                 *)
LEMMA ChannelWorkerOver ==
  ASSUME TypeOK, Channel,
         \/ WorkerReadsFirst \/ WorkerState \/ WorkerRejected \/ WorkerReadFails
         \/ WorkerGivesUp \/ WorkerLogsOut \/ WorkerDies
  PROVE  Channel'
  <1> USE Fields
  <1>1. CASE WorkerReadsFirst
    BY <1>1, ChannelRead DEF WorkerReadsFirst, WorkerReads, Reads, hostVars
  <1>2. CASE WorkerState
    BY <1>2, ChannelRead DEF WorkerState, WorkerGets, WorkerReads, Reads, hostVars
  <1>3. CASE WorkerRejected
    <2>1. worker'.st \in {"rejected", "failed"}
      BY <1>3 DEF WorkerRejected
    <2> QED BY <1>3, <2>1, ChannelEnds
            DEF WorkerRejected, WorkerGets, WorkerReads, Reads, Early, Late
  <1>4. CASE WorkerReadFails
    <2>1. worker'.st = "failed"
      BY <1>4 DEF WorkerReadFails, WorkerFails
    <2> QED BY <1>4, <2>1, ChannelEnds DEF WorkerReadFails, WorkerReads, Reads, Early, Late
  <1>5. CASE WorkerGivesUp
    <2>1. worker'.st = "failed"
      BY <1>5 DEF WorkerGivesUp, WorkerFails
    <2> QED BY <1>5, <2>1, ChannelEnds DEF WorkerGivesUp, Early, Late
  <1>6. CASE WorkerLogsOut
    <2>1. worker'.st = "loggedOut"
      BY <1>6 DEF WorkerLogsOut
    <2> QED BY <1>6, <2>1, ChannelEnds DEF WorkerLogsOut, Early, Late
  <1>7. CASE WorkerDies
    <2>1. worker'.st = "failed"
      BY <1>7 DEF WorkerDies, WorkerFails
    <2> QED BY <1>7, <2>1, ChannelEnds DEF WorkerDies, Early, Late
  <1> QED BY <1>1, <1>2, <1>3, <1>4, <1>5, <1>6, <1>7

(* A step or the death of the supervisor keeps Channel.                     *)
LEMMA ChannelSupervisor ==
  ASSUME TypeOK, Processes, Channel, SupervisorStep \/ SupervisorDies
  PROVE  Channel'
  <1> USE Names DEF Early, Late
  <1>b. compositor.st = "boot" => down = <<>>
    BY BootSilent
  <1>r. down # <<>> => Took(down, Head(down), Tail(down))
    BY Takes
  <1>1. CASE SupervisorLogsOut
    BY <1>1, ChannelEnds DEF SupervisorLogsOut
  <1>2. CASE SupervisorRejected \/ SupervisorExhausted
    <2>1. /\ UNCHANGED <<guardian, compositor, status, cout, down>> /\ worker' = NoWorker
          /\ up' = up \o Message("FAILED", 0)
      BY <1>2 DEF SupervisorRejected, SupervisorExhausted, HostSends
    <2> QED BY <2>1, ChannelWithout, UntoldKept, Says
  <1>3. CASE SupervisorSuspends
    <2>1. /\ UNCHANGED <<guardian, compositor, status, cout, down>> /\ worker' = NoWorker
          /\ up' = up \o Message("DISCONNECTED", 0)
      BY <1>3 DEF SupervisorSuspends, HostSends
    <2> QED BY <2>1, ChannelWithout, UntoldKept, Says
  <1>4. CASE SupervisorRetries
    <2>b. BootstrapRetry \in BOOLEAN
      BY DEF BootstrapRetry
    <2>1. /\ UNCHANGED <<guardian, compositor, status, up, cout, down>>
          /\ SpawnWorker(~BootstrapRetry, supervisor.seed)
      BY <1>4 DEF SupervisorRetries
    <2>2. worker'.st = "loading" /\ out' = <<>>
      BY <2>1, <2>b, NewWorker
    <2> QED BY <2>1, <2>2, ChannelWithout, UntoldKept
  <1>5. CASE SupervisorDiscards
    <2>1. /\ UNCHANGED <<guardian, worker, compositor, status, up, cout>> /\ supervisor.st = "wait"
          /\ down # <<>> /\ down' = Tail(down)
      BY <1>5 DEF SupervisorDiscards, Discards, Reads, hostVars
    <2>2. worker.st = "none"
      BY <2>1 DEF Processes, Chain
    <2> QED BY <2>1, <2>2, ChannelEnds
  <1>6. CASE SupervisorResumes
    <2>1. /\ UNCHANGED <<guardian, compositor, status, cout>> /\ supervisor.st = "wait"
          /\ down # <<>> /\ down' = Tail(down)
      BY <1>6 DEF SupervisorResumes, GetsSuspended, Reads
    <2>2. worker.st = "none"
      BY <2>1 DEF Processes, Chain
    <2>3. CASE supervisor.restarts > MaxRestarts
      <3>1. UNCHANGED worker /\ up' = up \o Message("FAILED", 0)
        BY <1>6, <2>3 DEF SupervisorResumes, HostSends
      <3> QED BY <1>b, <1>r, <2>1, <2>2, <3>1, ChannelWithout, UntoldKept, Says
    <2>4. CASE ~(supervisor.restarts > MaxRestarts)
      <3>1. SpawnWorker(TRUE, Head(down).val) /\ UNCHANGED up
        BY <1>6, <2>4 DEF SupervisorResumes
      <3>2. worker'.st = "loading" /\ out' = <<>>
        BY <3>1, NewWorker
      <3> QED BY <1>b, <1>r, <2>1, <3>1, <3>2, ChannelWithout, UntoldKept
    <2> QED BY <2>3, <2>4
  <1>7. CASE SupervisorWaitFails
    <2>1. /\ UNCHANGED <<guardian, worker, compositor, status, up, cout>> /\ supervisor.st = "wait"
          /\ down' = down \/ (down # <<>> /\ down' = Tail(down))
      BY <1>7 DEF SupervisorWaitFails, WaitBroken
    <2>2. worker.st = "none"
      BY <2>1 DEF Processes, Chain
    <2> QED BY <2>1, <2>2, ChannelEnds
  <1>8. CASE SupervisorDies
    <2>1. UNCHANGED <<guardian, worker, compositor, status, out, up, cout, down>>
      BY <1>8 DEF SupervisorDies
    <2> QED BY <2>1, ChannelBeside, UntoldKept
  <1> QED BY <1>1, <1>2, <1>3, <1>4, <1>5, <1>6, <1>7, <1>8 DEF SupervisorStep

(* A step of the guardian, or a wait that times out, keeps Channel.         *)
LEMMA ChannelGuardian ==
  ASSUME TypeOK, Processes, Channel, GuardianStep \/ WaitTimesOut
  PROVE  Channel'
  <1> USE Names DEF Early, Late
  <1>0. guardian \in Guardian
    BY DEF TypeOK
  <1>b. compositor.st = "boot" => down = <<>>
    BY BootSilent
  <1>r. down # <<>> => Took(down, Head(down), Tail(down))
    BY Takes
  <1>w. guardian.st = "wait" => worker.st = "none"
    BY DEF Processes, Chain
  <1>1. CASE GuardianPolls
    <2> DEFINE news == Lifecycle(Flag("supported", guardian.supported),
                                 Flag("ready", guardian.ready))
    <2>1. /\ UNCHANGED <<compositor, cout, worker, out, down>> /\ up' = up \o news
      BY <1>1 DEF GuardianPolls, HostSends
    <2>2. Got(up, news, up \o news) /\ HostOnly(news)
      BY Says
    <2>3. /\ guardian'.st = guardian.st /\ guardian'.resume = guardian.resume
          /\ guardian'.started = Flag("started", guardian.started) /\ status' = {}
      BY <1>0, <1>1 DEF GuardianPolls, Guardian
    <2>4. Told' = Told
      BY <2>3 DEF Told, Flag
    <2>5. Untold' => Untold
      BY <2>1, <2>3, <2>4 DEF Untold
    <2> HIDE DEF news
    <2> QED BY <2>1, <2>2, <2>5, ChannelBeside
  <1>2. CASE GuardianReaps
    <2> DEFINE news == Lifecycle(Flag("supported", guardian.supported),
                                 Flag("ready", guardian.ready))
    <2>0. UNCHANGED <<compositor, cout, down>> /\ guardian.st = "run"
      BY <1>2 DEF GuardianReaps
    <2>s. /\ Got(up, news, up \o news) /\ HostOnly(news)
          /\ \A t \in {"DISCONNECTED", "FAILED"} :
               /\ Got(up, news \o Message(t, 0), up \o (news \o Message(t, 0)))
               /\ HostOnly(news \o Message(t, 0))
      BY Says
    <2>1. CASE Flag("started", guardian.started)
      <3>1. /\ up' = up \o (news \o Message("DISCONNECTED", 0))
            /\ guardian'.started = TRUE /\ KillGroup
        BY <1>0, <1>2, <2>1 DEF GuardianReaps, HostSends, Guardian
      <3>2. worker'.st = "none"
        BY <3>1 DEF KillGroup
      <3>3. ~Untold'
        BY <3>1, <3>2 DEF Untold, Told
      <3> HIDE DEF news
      <3> QED BY <2>0, <2>s, <3>1, <3>2, <3>3, ChannelWithout
    <2>2. CASE ~Flag("started", guardian.started) /\ guardian.restarts >= MaxRestarts
      <3>1. /\ up' = up \o (news \o Message("FAILED", 0))
            /\ guardian'.resume = guardian.resume /\ KillGroup
        BY <1>0, <1>2, <2>2 DEF GuardianReaps, HostSends, Guardian
      <3>2. worker'.st = "none"
        BY <3>1 DEF KillGroup
      <3>3. Untold' => Untold
        BY <2>0, <2>2, <3>1, <3>2 DEF Untold, Told, Flag
      <3> HIDE DEF news
      <3> QED BY <2>0, <2>s, <3>1, <3>2, <3>3, ChannelWithout
    <2>3. CASE ~Flag("started", guardian.started) /\ ~(guardian.restarts >= MaxRestarts)
      <3>1. /\ up' = up \o news /\ guardian'.resume = guardian.resume
            /\ SpawnSupervisor(guardian.resume, guardian.seed)
        BY <1>0, <1>2, <2>3 DEF GuardianReaps, HostSends, Guardian
      <3>2. worker'.st = "loading" /\ out' = <<>>
        BY <3>1 DEF SpawnSupervisor, SpawnWorker
      <3>3. Untold' => Untold
        BY <2>0, <2>3, <3>1, <3>2 DEF Untold, Told, Flag
      <3> HIDE DEF news
      <3> QED BY <2>0, <2>s, <3>1, <3>2, <3>3, ChannelWithout
    <2> QED BY <2>1, <2>2, <2>3
  <1>3. CASE GuardianDiscards
    <2>1. /\ UNCHANGED <<guardian, worker, compositor, status, up, cout>> /\ guardian.st = "wait"
          /\ down # <<>> /\ down' = Tail(down)
      BY <1>3 DEF GuardianDiscards, Discards, Reads, hostVars
    <2> QED BY <1>w, <2>1, ChannelEnds
  <1>4. CASE GuardianResumes
    <2>1. /\ UNCHANGED <<compositor, cout>> /\ guardian.st = "wait"
          /\ down # <<>> /\ down' = Tail(down)
      BY <1>4 DEF GuardianResumes, GetsSuspended, Reads
    <2>2. guardian'.resume = TRUE
      BY <1>0, <1>4 DEF GuardianResumes, Guardian
    <2>3. ~Untold'
      BY <2>2 DEF Untold
    <2>4. CASE guardian.restarts >= MaxRestarts
      <3>1. UNCHANGED worker /\ up' = up \o Message("FAILED", 0)
        BY <1>4, <2>4 DEF GuardianResumes, HostSends
      <3> QED BY <1>b, <1>r, <1>w, <2>1, <2>3, <3>1, ChannelWithout, Says
    <2>5. CASE ~(guardian.restarts >= MaxRestarts)
      <3>1. SpawnSupervisor(TRUE, Head(down).val) /\ UNCHANGED up
        BY <1>4, <2>5 DEF GuardianResumes
      <3>2. worker'.st = "loading" /\ out' = <<>>
        BY <3>1 DEF SpawnSupervisor, SpawnWorker
      <3> QED BY <1>b, <1>r, <2>1, <2>3, <3>1, <3>2, ChannelWithout
    <2> QED BY <2>4, <2>5
  <1>5. CASE GuardianWaitFails
    <2>1. /\ UNCHANGED <<worker, compositor, status, cout>> /\ guardian.st = "wait"
          /\ down' = down \/ (down # <<>> /\ down' = Tail(down))
          /\ up' = up \o Message("FAILED", 0)
          /\ guardian' = [guardian EXCEPT !.st = "retain"]
      BY <1>5 DEF GuardianWaitFails, WaitBroken, HostSends
    <2>2. guardian'.resume = guardian.resume /\ guardian'.started = guardian.started
      BY <1>0, <2>1 DEF Guardian
    <2>3. Untold' => Untold
      BY <2>1, <2>2 DEF Untold, Told
    <2> QED BY <1>b, <1>r, <1>w, <2>1, <2>3, ChannelWithout, Says
  <1>6. CASE GuardianEnds
    <2>1. /\ UNCHANGED <<compositor, up, cout, down>> /\ worker' = NoWorker /\ guardian'.st = "done"
      BY <1>0, <1>6 DEF GuardianEnds, Guardian
    <2>2. ~Untold'
      BY <2>1 DEF Untold
    <2> QED BY <2>1, <2>2, ChannelWithout
  <1>7. CASE WaitTimesOut
    <2>0. UNCHANGED <<worker, compositor, status, out, cout, down>>
      BY <1>7 DEF WaitTimesOut
    <2>1. CASE supervisor.st = "wait" /\ supervisor' = [supervisor EXCEPT !.st = "failed"]
               /\ UNCHANGED <<guardian, up>>
      BY <2>0, <2>1, ChannelBeside, UntoldKept
    <2>2. CASE /\ guardian.st = "wait" /\ guardian' = [guardian EXCEPT !.st = "retain"]
               /\ HostSends(Message("FAILED", 0)) /\ UNCHANGED supervisor
      <3>1. up' = up \o Message("FAILED", 0)
        BY <2>2 DEF HostSends
      <3>2. guardian'.resume = guardian.resume /\ guardian'.started = guardian.started
        BY <1>0, <2>2 DEF Guardian
      <3>3. Untold' => Untold
        BY <2>0, <2>2, <3>2 DEF Untold, Told
      <3> QED BY <1>w, <2>0, <2>2, <3>1, <3>3, ChannelWithout, Says
    <2> QED BY <1>7, <2>1, <2>2 DEF WaitTimesOut
  <1> QED BY <1>1, <1>2, <1>3, <1>4, <1>5, <1>6, <1>7 DEF GuardianStep
-----------------------------------------------------------------------------

(* Membership in the sets of frames, field by field.                        *)
LEMMA Sets ==
  /\ \A f \in AllFrames : /\ f \in Configs <=> f.part # "first" /\ f.type = "CONFIG"
                          /\ f \in Resumes <=> f.part # "first" /\ f.type = "RESUME"
                          /\ f \in Results <=> f.part # "first" /\ f.type = "RESULT"
                          /\ f \in Suspensions <=> f.part # "first" /\ f.type = "SUSPENDED"
                          /\ f \in Answers <=> f.part # "first" /\ f.type \in {"HELLO", "RESULT"}
                          /\ f \in OtherBoots <=> f.type = "BOOT" /\ f.val # 1
                          /\ \A p : f \in Stale(p) <=>
                               /\ f.part # "first" /\ f.type \in {"CONFIG", "RESUME"}
                               /\ f.type = "RESUME" => f.val # p
                          /\ \A p : f \in Asks(p) <=>
                               f.part # "first" /\ f.type = "RESUME" /\ f.val = p
                          /\ \A t : f \in OtherConfigs(t) <=>
                               f.part # "first" /\ f.type = "CONFIG" /\ f.val # t
                          /\ \A t : f \in OtherThan(t) <=> f.type # t
                          /\ \A w : f \in NotOpening(w) <=>
                               \/ f.type # (IF w.resume THEN "RESUME" ELSE "BOOT")
                               \/ f.val # w.point
                          /\ \A w, p : f \in OtherResults(w, p) <=>
                               /\ f.part # "first" /\ f.type = "RESULT"
                               /\ ~(f.val = w.tried /\ p = w.tried)
                               /\ ~(f.val = 0 /\ p = w.point)
  BY Kinds DEF Configs, Resumes, Results, Suspensions, Answers, OtherBoots, Stale, Asks,
     OtherConfigs, OtherThan, NotOpening, OtherResults, Ending

(* A message with a configuration.                                          *)
OneKind(m, type, val) ==
  \A S : Has(m, S) => \E f \in S : f \in AllFrames /\ f.type = type /\ f.val = val

(* A message with a configuration puts its type and value on the channel.   *)
LEMMA SentPoint ==
  ASSUME NEW type \in (UpTypes \cup DownTypes) \ {"LIFECYCLE"}, NEW val \in Point
  PROVE  /\ Message(type, val) \in Seq(AllFrames)
         /\ OneKind(Message(type, val), type, val)
         /\ \A types : Once(Message(type, val), Ending(types))
         /\ \A types : Has(Message(type, val), Ending(types)) <=> type \in types
  <1>1. Message(type, val) \in Seq(AllFrames)
    BY Sent
  <1>2. \A S : Has(Message(type, val), S) =>
                 \E f \in S : f \in AllFrames /\ f.type = type /\ f.val = val
    BY Sent
  <1>4. /\ \A types : Once(Message(type, val), Ending(types))
        /\ \A types : Has(Message(type, val), Ending(types)) <=> type \in types
    BY Sent
  <1> QED BY <1>1, <1>2, <1>4 DEF OneKind

(* The first packet is queued.                                              *)
LEMMA ChannelLoads ==
  ASSUME TypeOK, Processes, Channel, WorkerLoads
  PROVE  Channel'
  <1>1. UNCHANGED <<guardian, status, compositor, up, cout, down>> /\ worker.st = "loading"
    BY DEF WorkerLoads
  <1>w. worker \in Worker
    BY DEF TypeOK
  <1>2. CASE worker.resume /\ worker.point = 0
    <2>1. worker'.st = "failed"
      BY <1>2, <1>w DEF WorkerLoads, WorkerFails, Worker
    <2> QED BY <1>1, <2>1, ChannelEnds DEF Early, Late
  <1>3. CASE ~(worker.resume /\ worker.point = 0)
    <2>1. /\ worker'.st = "sending" /\ worker'.resume = worker.resume
          /\ worker.resume => worker'.point = worker.point
          /\ ~worker.resume => worker'.point = 1
          /\ out' = Message(IF worker.resume THEN "RESUME" ELSE "BOOT", worker'.point)
      BY <1>3, <1>w DEF WorkerLoads, Worker
    <2>2. worker'.point \in Point /\ worker.resume \in BOOLEAN
      BY <1>w, <2>1, Bounds DEF Worker
    <2>3. {"RESUME", "BOOT"} \subseteq UpTypes \cup DownTypes
      BY DEF UpTypes
    <2>k. PICK k, v : /\ k = (IF worker.resume THEN "RESUME" ELSE "BOOT") /\ v = worker'.point
                      /\ out' = Message(k, v)
      BY <2>1
    <2>s. k \in UpTypes \cup DownTypes /\ k # "LIFECYCLE" /\ v \in Point
      BY <2>2, <2>3, <2>k
    <2>a. OneKind(out', k, v)
      BY <2>k, <2>s, SentPoint
    <2>4. ~Has(out', NotOpening(worker'))
      BY <2>1, <2>a, <2>k, Sets DEF OneKind
    <2>5. worker.resume => Has(out', Resumes)
      BY <2>1, <2>2, <2>3, Sent DEF Resumes
    <2>6. Untold' => Untold
      BY <1>1, <2>1, UntoldKept
    <2>7. Booting' /\ Silenced' /\ Doomed'
      BY <1>1, <2>1 DEF Channel, Booting, Silenced, Doomed, Late
    <2>8. Outgoing'
      BY <1>1, <2>1, <2>4 DEF Channel, Outgoing, Early, Late
    <2>9. Young' /\ Queued'
      BY <1>1, <2>1, <2>5, <2>6 DEF Channel, Young, Queued
    <2>10. Covered'
      <3>1. CASE worker.resume
        BY <1>1, <2>1, <2>5, <3>1 DEF Covered
      <3>2. CASE ~worker.resume /\ compositor.st = "live"
        <4>1. guardian.st # "done" /\ ~guardian.resume /\ ~Told
          BY <1>1, <3>2 DEF Processes, Chain, Roles, WorkerAlive
        <4>2. Untold
          BY <4>1 DEF Untold
        <4>3. /\ ~Has(up, Configs) /\ ~Has(down, Results) /\ ~Has(cout, Results)
              /\ compositor.point = 1
          BY <3>2, <4>2 DEF Channel, Young
        <4>4. ~Has(out', Configs)
          BY <2>a, <2>k, <3>2, Sets DEF OneKind
        <4>5. Agreed'
          BY <1>1, <2>1, <3>2, <4>3, <4>4 DEF Agreed
        <4> QED BY <1>1, <2>1, <3>2, <4>5 DEF Covered, Accepted, InTouch
      <3>3. CASE ~worker.resume /\ compositor.st # "live"
        BY <1>1, <2>1, <3>3 DEF Covered
      <3> QED BY <2>2, <3>1, <3>2, <3>3
    <2> QED BY <2>7, <2>8, <2>9, <2>10 DEF Channel
  <1> QED BY <1>2, <1>3

(* A frame leaves the writer for the channel.                               *)
LEMMA ChannelFlushes ==
  ASSUME TypeOK, Processes, Channel, WorkerFlushes
  PROVE  Channel'
  <1> DEFINE h == Head(out)
  <1>1. /\ UNCHANGED <<guardian, status, compositor, worker, cout, down>>
        /\ WorkerAlive /\ out # <<>> /\ up' = Append(up, h) /\ out' = Tail(out)
    <2>1. /\ UNCHANGED <<guardian, status, compositor, worker, cout, down>>
          /\ WorkerAlive /\ out # <<>> /\ up' = up \o <<h>> /\ out' = Tail(out)
      BY DEF WorkerFlushes, HostSends
    <2>2. up \o <<h>> = Append(up, h)
      BY <2>1, Directions, Takes
    <2> QED BY <2>1, <2>2
  <1>2. Took(out, h, out') /\ h \in AllFrames
    BY <1>1, Takes
  <1>3. /\ Got(up, <<h>>, up')
        /\ \A S : Has(<<h>>, S) <=> h \in S
        /\ \A S : Once(<<h>>, S)
    BY <1>1, <1>2, GettingOne, Directions
  <1> HIDE DEF h
  <1>m. <<h>> = <<h>>
    OBVIOUS
  <1>4. PICK m : m = <<h>>
    OBVIOUS
  <1>5. /\ Got(up, m, up')
        /\ \A S : Has(m, S) <=> h \in S
        /\ \A S : Once(m, S)
    BY <1>3, <1>4
  <1>g. /\ \A S : Has(up', S) <=> Has(up, S) \/ h \in S
        /\ \A S : Once(up, S) /\ ~(Has(up, S) /\ h \in S) => Once(up', S)
        /\ \A B, G : Followed(up, B, G) /\ h \notin B => Followed(up', B, G)
        /\ \A B, G : h \notin B /\ h \in G => Followed(up', B, G)
    BY <1>5 DEF Got
  <1>t. /\ \A S : Has(out', S) => Has(out, S)
        /\ \A S : Has(out, S) => h \in S \/ Has(out', S)
        /\ \A S : h \in S => Has(out, S)
        /\ \A S : Once(out, S) => Once(out', S)
        /\ \A S : Once(out, S) /\ h \in S => ~Has(out', S)
    BY <1>2 DEF Took
  <1>6. worker.st \in {"sending"} \cup Late
    <2>1. worker.st \in WorkerStates
      BY WorkerUpdates DEF TypeOK
    <2> QED BY <1>1, <2>1 DEF Channel, Outgoing, WorkerAlive, WorkerStates, Late
  <1>7. /\ worker.st = "sending" =>
             h.type = (IF worker.resume THEN "RESUME" ELSE "BOOT") /\ h.val = worker.point
        /\ worker.st \in Late => h.type = "CONFIG"
    BY <1>2, <1>t, Sets DEF Channel, Outgoing
  <1>8. h \notin OtherBoots
    BY <1>2, <1>6, <1>7, Sets DEF Channel, Outgoing, Early
  <1>9. Untold => worker.st = "sending"
    BY <1>1, <1>6 DEF Untold, Processes, Roles, Late
  <1>10. Untold' => Untold
    BY <1>1, UntoldKept
  <1>11. Booting' /\ Silenced' /\ Doomed'
    BY <1>1 DEF Channel, Booting, Silenced, Doomed, SuspendedUnderway
  <1>12. Outgoing'
    <2>1. ~Has(up', OtherBoots)
      BY <1>g, <1>8 DEF Channel, Outgoing
    <2>2. worker.st \notin {"loading", "marked", "started"}
      BY <1>6 DEF Late
    <2> QED BY <1>1, <1>t, <2>1, <2>2 DEF Channel, Outgoing
  <1>13. Young'
    <2>1. Untold => h \notin Configs
      BY <1>2, <1>7, <1>9, Sets
    <2> QED BY <1>1, <1>g, <1>10, <2>1 DEF Channel, Young
  <1>14. Queued'
    <2> SUFFICES ASSUME worker.st \in Early, worker.resume
                 PROVE  Has(out', Resumes) \/ Followed(up', Stale(worker.point), Asks(worker.point))
      BY <1>1 DEF Queued
    <2>1. h.type = "RESUME" /\ h.val = worker.point
      BY <1>6, <1>7 DEF Early, Late
    <2>2. h \notin Stale(worker.point)
      BY <1>2, <2>1, Sets
    <2>3. h \in Resumes => h \in Asks(worker.point)
      BY <1>2, <2>1, Sets
    <2> QED BY <1>g, <1>t, <2>2, <2>3 DEF Channel, Queued
  <1>15. (Agreed => Agreed') /\ (Asked => Asked') /\ (Answered => Answered')
    <2>1. Agreed => Agreed'
      BY <1>1, <1>g, <1>t DEF Agreed
    <2>2. Answered => Answered'
      BY <1>1, <1>g, <1>t DEF Answered
    <2>3. ASSUME Asked PROVE Asked'
      <3>1. Once(up', Configs) /\ Once(out', Configs)
        BY <1>g, <1>t, <2>3 DEF Asked
      <3>2. ~(Has(up', Configs) /\ Has(out', Configs))
        BY <1>g, <1>t, <2>3 DEF Asked
      <3>3. ~Has(up', OtherConfigs(worker.tried)) /\ ~Has(out', OtherConfigs(worker.tried))
        BY <1>g, <1>t, <2>3 DEF Asked
      <3> QED BY <1>1, <2>3, <3>1, <3>2, <3>3 DEF Asked
    <2> QED BY <2>1, <2>2, <2>3
  <1>16. SuspendedUnderway' <=> SuspendedUnderway
    BY <1>1 DEF SuspendedUnderway
  <1>17. Has(up, Resumes) \/ Has(out, Resumes) => Has(up', Resumes) \/ Has(out', Resumes)
    BY <1>g, <1>t
  <1>18. Covered'
    BY <1>1, <1>15, <1>16, <1>17 DEF Channel, Covered, Accepted, InTouch
  <1> QED BY <1>11, <1>12, <1>13, <1>14, <1>18 DEF Channel

(* The worker tells supervisor and guardian that it has started.            *)
LEMMA ChannelMarks ==
  ASSUME TypeOK, Processes, Channel, WorkerMarks \/ WorkerReports
  PROVE  Channel'
  <1> USE Fields
  <1>1. /\ UNCHANGED <<guardian, compositor, out, up, cout, down>>
        /\ worker.st \in {"sending", "marked"} /\ worker'.st \in {"marked", "started"}
        /\ worker'.resume = worker.resume /\ worker'.point = worker.point
        /\ worker'.tried = worker.tried /\ out = <<>>
        /\ status \subseteq status'
        /\ worker'.st = "marked" => status' = status
    <2>1. CASE WorkerMarks
      BY <2>1 DEF WorkerMarks, StartPacketFlushed
    <2>2. CASE WorkerReports
      BY <2>2 DEF WorkerReports, Channel, Outgoing
    <2> QED BY <2>1, <2>2
  <1>2. Untold' => Untold
    <2>1. ~worker.resume => ~Told
      BY <1>1 DEF Processes, Roles, WorkerAlive
    <2> QED BY <1>1, <2>1 DEF Untold, Told
  <1>3. Booting' /\ Silenced' /\ Doomed'
    BY <1>1 DEF Channel, Booting, Silenced, Doomed, Late
  <1>4. Outgoing'
    BY <1>1 DEF Channel, Outgoing, Early, Late
  <1>5. Young' /\ Queued'
    BY <1>1, <1>2 DEF Channel, Young, Queued, Early
  <1>6. Agreed => Agreed'
    BY <1>1 DEF Agreed
  <1>7. ~Asked /\ ~Answered
    BY <1>1 DEF Asked, Answered
  <1>8. Covered'
    BY <1>1, <1>6, <1>7 DEF Channel, Covered, Accepted, InTouch, SuspendedUnderway, Early
  <1> QED BY <1>3, <1>4, <1>5, <1>8 DEF Channel

(* HELLO: one that was meant for an earlier worker is followed by the       *)
(* SUSPENDED that ends this one.                                            *)
LEMMA ChannelHello ==
  ASSUME TypeOK, Processes, Channel, WorkerHello
  PROVE  Channel'
  <1> USE Fields
  <1>1. /\ UNCHANGED <<guardian, compositor, out, up, cout>>
        /\ worker.st = "started" /\ worker'.st = "up"
        /\ worker'.resume = worker.resume /\ worker'.point = worker.point
        /\ worker'.tried = worker.tried /\ out = <<>>
        /\ status \subseteq status'
        /\ down # <<>> /\ down' = Tail(down)
        /\ Head(down).type = "HELLO" /\ Head(down).part # "first"
    BY DEF WorkerHello, WorkerGets, WorkerReads, Reads, Channel, Outgoing
  <1>2. Took(down, Head(down), down') /\ Head(down) \in AllFrames
    BY <1>1, Takes
  <1>3. /\ Head(down) \in Answers /\ Head(down) \notin Suspensions /\ Head(down) \notin Results
    BY <1>1, <1>2, Sets
  <1>4. /\ Has(down, Results) <=> Has(down', Results)
        /\ Has(down, Suspensions) <=> Has(down', Suspensions)
        /\ Followed(down, Answers, Suspensions) =>
             Followed(down', Answers, Suspensions) /\ Has(down', Suspensions)
    BY <1>2, <1>3 DEF Took
  <1>5. ~Untold'
    BY <1>1 DEF Untold, Told, Processes, Roles
  <1>6. Booting'
    BY <1>1, BootSilent DEF Booting
  <1>7. Outgoing'
    BY <1>1, Empty DEF Channel, Outgoing, Early, Late
  <1>8. Silenced' /\ Doomed'
    BY <1>1, <1>4 DEF Channel, Silenced, Doomed, SuspendedUnderway
  <1>9. Young' /\ Queued'
    BY <1>1, <1>5 DEF Young, Queued, Early
  <1>10. Agreed => Agreed'
    BY <1>1, <1>4 DEF Agreed
  <1>11. ~Asked /\ ~Answered
    BY <1>1 DEF Asked, Answered
  <1>12. Covered'
    BY <1>1, <1>4, <1>10, <1>11
       DEF Channel, Covered, Accepted, InTouch, SuspendedUnderway, Early, Late
  <1> QED BY <1>6, <1>7, <1>8, <1>9, <1>12 DEF Channel

(* A reload: from Agreed to Asked.                                          *)
LEMMA ChannelReloads ==
  ASSUME TypeOK, Processes, Channel, WorkerReloads
  PROVE  Channel'
  <1> USE Fields
  <1>1. /\ UNCHANGED <<guardian, status, compositor, up, cout, down>>
        /\ worker.st = "up" /\ worker'.st = "reloading"
        /\ worker'.resume = worker.resume /\ worker'.point = worker.point
        /\ worker'.tried = worker.tried + 1 /\ out = <<>> /\ worker.tried < MaxPoint
        /\ out' = Message("CONFIG", worker.tried + 1)
    BY DEF WorkerReloads
  <1>2. worker.tried \in Nat /\ worker.tried + 1 \in Point /\ worker.tried + 1 >= 1
    <2>1. worker.tried \in Nat
      BY WorkerUpdates, Bounds DEF TypeOK
    <2> QED BY <1>1, <2>1, Bounds DEF Point
  <1>3. PICK v : v = worker.tried + 1
    OBVIOUS
  <1>4. "CONFIG" \in UpTypes \cup DownTypes /\ v \in Point
    BY <1>2, <1>3 DEF UpTypes
  <1>5. /\ OneKind(out', "CONFIG", v)
        /\ Once(out', Configs)
    BY <1>1, <1>3, <1>4, SentPoint DEF Configs
  <1>6. ~Has(out', OtherThan("CONFIG")) /\ ~Has(out', OtherConfigs(v)) /\ ~Has(out', Resumes)
    BY <1>5, Sets DEF OneKind
  <1>7. ~Has(up, Configs) => Once(up, Configs) /\ ~Has(up, OtherConfigs(v))
    <2>1. OtherConfigs(v) \subseteq Configs
      BY DEF OtherConfigs
    <2> QED BY <2>1 DEF Has, Once
  <1>8. ~Untold'
    BY <1>1 DEF Untold, Told, Processes, Roles, Late
  <1>9. Booting' /\ Silenced' /\ Doomed'
    BY <1>1 DEF Channel, Booting, Silenced, Doomed, SuspendedUnderway, Late
  <1>10. Outgoing'
    BY <1>1, <1>2, <1>6 DEF Channel, Outgoing, Early, Late
  <1>11. Young' /\ Queued'
    BY <1>1, <1>8 DEF Young, Queued, Early
  <1>12. Agreed => Asked'
    BY <1>1, <1>3, <1>5, <1>6, <1>7 DEF Agreed, Asked
  <1>13. ~Asked /\ ~Answered /\ ~Has(out, Resumes)
    BY <1>1, Empty DEF Asked, Answered
  <1>14. Covered'
    BY <1>1, <1>12, <1>13
       DEF Channel, Covered, Accepted, InTouch, SuspendedUnderway, Late
  <1> QED BY <1>9, <1>10, <1>11, <1>14 DEF Channel

(* The answer arrives: from Answered to Agreed.                             *)
LEMMA ChannelResult ==
  ASSUME TypeOK, Processes, Channel, WorkerResult
  PROVE  Channel'
  <1> DEFINE h == Head(down)
  <1>w. worker \in Worker
    BY DEF TypeOK
  <1>1. /\ UNCHANGED <<guardian, status, compositor, out, up, cout>>
        /\ worker.st = "reloading" /\ worker'.st = "up"
        /\ worker'.resume = worker.resume /\ worker'.tried = worker.tried
        /\ worker'.point = Commit(h.val)
        /\ down # <<>> /\ down' = Tail(down)
        /\ h.type = "RESULT" /\ h.part # "first"
    BY <1>w DEF WorkerResult, WorkerGets, WorkerReads, Reads, Worker
  <1>2. Took(down, h, down') /\ h \in AllFrames
    BY <1>1, Takes
  <1> HIDE DEF h
  <1>3. h \in Results /\ h \notin Suspensions
    BY <1>1, <1>2, Sets
  <1>4. /\ Has(down, Results)
        /\ Once(down, Results) => ~Has(down', Results)
        /\ Has(down, Suspensions) <=> Has(down', Suspensions)
        /\ Followed(down, Answers, Suspensions) => Followed(down', Answers, Suspensions)
        /\ \A S : h \in S => Has(down, S)
    BY <1>2, <1>3 DEF Took
  <1>5. ~Untold'
    BY <1>1 DEF Untold, Told, Processes, Roles, Late
  <1>6. Booting'
    BY <1>1, BootSilent DEF Booting
  <1>7. Outgoing'
    BY <1>1 DEF Channel, Outgoing, Early, Late
  <1>8. Silenced' /\ Doomed'
    BY <1>1, <1>4 DEF Channel, Silenced, Doomed, SuspendedUnderway, Late
  <1>9. Young' /\ Queued'
    BY <1>1, <1>5 DEF Young, Queued, Early
  <1>10. Answered => Agreed'
    <2> SUFFICES ASSUME Answered PROVE Agreed'
      OBVIOUS
    <2>1. h \notin OtherResults(worker, compositor.point)
      BY <1>4 DEF Answered
    <2>2. \/ h.val = worker.tried /\ compositor.point = worker.tried
          \/ h.val = 0 /\ compositor.point = worker.point
      BY <1>1, <1>2, <2>1, Sets
    <2>3. worker.tried >= 1 /\ worker.tried \in Nat
      BY <1>1, WorkerUpdates, Bounds DEF TypeOK, Channel, Outgoing
    <2>4. worker'.point = compositor.point
      BY <1>1, <2>2, <2>3 DEF Commit
    <2> QED BY <1>1, <1>4, <2>4 DEF Answered, Agreed
  <1>11. ~Agreed /\ ~Asked
    BY <1>1, <1>4 DEF Agreed, Asked
  <1>12. Covered'
    BY <1>1, <1>4, <1>10, <1>11
       DEF Channel, Covered, Accepted, InTouch, SuspendedUnderway, Late
  <1> QED BY <1>6, <1>7, <1>8, <1>9, <1>12 DEF Channel
-----------------------------------------------------------------------------

(* The compositor is accepted by the same and has committed the same.       *)
CompositorSame ==
  /\ compositor'.st = compositor.st /\ compositor'.suspended = compositor.suspended
  /\ compositor'.point = compositor.point
(* The host processes and what they have to read stay.                      *)
HostSame == UNCHANGED <<guardian, status, worker, out, down>>

(* The compositor takes a message that changes neither whom it has accepted *)
(* nor what it has committed.                                               *)
LEMMA ChannelPasses ==
  ASSUME TypeOK, Channel, HostSame, CompositorSame, UNCHANGED cout,
         up # <<>>, up' = Tail(up), Head(up) \notin Resumes
  PROVE  Channel'
  <1> DEFINE h == Head(up)
  <1> USE DEF HostSame, CompositorSame
  <1>1. Took(up, h, up')
    BY Takes
  <1>2. h \notin Resumes
    OBVIOUS
  <1> HIDE DEF h
  <1>3. /\ \A S : Has(up', S) => Has(up, S)
        /\ Has(up, Resumes) => Has(up', Resumes)
        /\ Once(up, Configs) => Once(up', Configs)
        /\ \A B, G : Followed(up, B, G) => Followed(up', B, G)
    BY <1>1, <1>2 DEF Took
  <1>4. Untold' => Untold
    BY UntoldKept
  <1>5. Booting' /\ Silenced' /\ Doomed'
    BY DEF Channel, Booting, Silenced, Doomed, SuspendedUnderway
  <1>6. Outgoing' /\ Young' /\ Queued'
    BY <1>3, <1>4 DEF Channel, Outgoing, Young, Queued
  <1>7. (Agreed => Agreed') /\ (Asked => Asked') /\ (Answered => Answered')
    BY <1>3 DEF Agreed, Asked, Answered
  <1>8. Covered'
    BY <1>3, <1>7 DEF Channel, Covered, Accepted, InTouch, SuspendedUnderway
  <1> QED BY <1>5, <1>6, <1>8 DEF Channel

(* The compositor stops using the channel.                                  *)
LEMMA ChannelStops ==
  ASSUME TypeOK, Channel, HostSame, compositor'.st \notin {"boot", "live"},
         (up # <<>> /\ up' = Tail(up)) \/ up' = <<>>, cout' = <<>> \/ cout' = cout
  PROVE  Channel'
  <1> USE DEF HostSame
  <1>3. /\ \A S : Has(up', S) => Has(up, S)
        /\ \A B, G : Followed(up, B, G) => Followed(up', B, G)
    <2>1. CASE up' = <<>>
      BY <2>1, Empty
    <2>2. CASE up # <<>> /\ up' = Tail(up)
      BY <2>2, Takes DEF Took
    <2> QED BY <2>1, <2>2
  <1>4. \A S : Has(cout', S) => Has(cout, S)
    BY Empty
  <1>5. Untold' => Untold
    BY UntoldKept
  <1>6. Booting' /\ Silenced' /\ Doomed' /\ Covered'
    BY DEF Booting, Silenced, Doomed, Covered
  <1>7. Outgoing' /\ Young' /\ Queued'
    BY <1>3, <1>4, <1>5 DEF Channel, Outgoing, Young, Queued
  <1> QED BY <1>6, <1>7 DEF Channel

(* A frame leaves the writer of the compositor for the channel.             *)
LEMMA ChannelCompositorFlushes ==
  ASSUME TypeOK, Channel, CompositorFlushes
  PROVE  Channel'
  <1> DEFINE h == Head(cout)
  <1>1. /\ UNCHANGED <<guardian, status, worker, out, up, compositor>>
        /\ cout # <<>> /\ cout' = Tail(cout) /\ down' = Append(down, h)
        /\ compositor.st = "live"
    BY DEF CompositorFlushes, CompositorSends, hostVars
  <1>2. Took(cout, h, cout') /\ h \in AllFrames
    BY <1>1, Takes
  <1>3. /\ Got(down, <<h>>, down')
        /\ \A S : Has(<<h>>, S) <=> h \in S
        /\ \A S : Once(<<h>>, S)
    BY <1>1, <1>2, GettingOne, Directions
  <1> HIDE DEF h
  <1>4. PICK m : m = <<h>>
    OBVIOUS
  <1>5. /\ Got(down, m, down')
        /\ \A S : Has(m, S) <=> h \in S
        /\ \A S : Once(m, S)
    BY <1>3, <1>4
  <1>g. /\ \A S : Has(down', S) <=> Has(down, S) \/ h \in S
        /\ \A S : Once(down, S) /\ ~(Has(down, S) /\ h \in S) => Once(down', S)
        /\ \A B, G : Followed(down, B, G) /\ h \notin B => Followed(down', B, G)
        /\ \A B, G : h \notin B /\ h \in G => Followed(down', B, G)
    BY <1>5 DEF Got
  <1>t. /\ \A S : Has(cout', S) => Has(cout, S)
        /\ \A S : Has(cout, S) => h \in S \/ Has(cout', S)
        /\ \A S : h \in S => Has(cout, S)
        /\ \A S : Once(cout, S) => Once(cout', S)
        /\ \A S : Once(cout, S) /\ h \in S => ~Has(cout', S)
        /\ \A B, G : Followed(cout, B, G) => Followed(cout', B, G)
        /\ \A B, G : Followed(cout, B, G) /\ h \in B => Has(cout', G)
    BY <1>2 DEF Took
  <1>6. Untold' => Untold
    BY <1>1, UntoldKept
  <1>7. Booting' /\ Outgoing' /\ Queued'
    BY <1>1 DEF Channel, Booting, Outgoing, Queued
  <1>8. Young'
    BY <1>1, <1>6, <1>g, <1>t DEF Channel, Young
  <1>9. SuspendedUnderway' <=> SuspendedUnderway
    BY <1>g, <1>t DEF SuspendedUnderway
  <1>10. Silenced' /\ Doomed'
    <2>1. h \in Suspensions => h \notin Answers
      BY <1>2, Sets
    <2>2. Silenced'
      BY <1>1, <1>g, <1>t, <2>1 DEF Channel, Silenced
    <2>3. Doomed'
      BY <1>1, <1>9 DEF Channel, Doomed
    <2> QED BY <2>2, <2>3
  <1>11. (Agreed => Agreed') /\ (Asked => Asked') /\ (Answered => Answered')
    <2>1. Agreed => Agreed'
      BY <1>1, <1>g, <1>t DEF Agreed
    <2>2. Asked => Asked'
      BY <1>1, <1>g, <1>t DEF Asked
    <2>3. ASSUME Answered PROVE Answered'
      <3>1. Once(down', Results) /\ Once(cout', Results)
        BY <1>g, <1>t, <2>3 DEF Answered
      <3>2. ~(Has(down', Results) /\ Has(cout', Results))
        BY <1>g, <1>t, <2>3 DEF Answered
      <3>3. /\ ~Has(down', OtherResults(worker, compositor.point))
            /\ ~Has(cout', OtherResults(worker, compositor.point))
        BY <1>g, <1>t, <2>3 DEF Answered
      <3> QED BY <1>1, <2>3, <3>1, <3>2, <3>3 DEF Answered
    <2> QED BY <2>1, <2>2, <2>3
  <1>12. Covered'
    BY <1>1, <1>9, <1>11 DEF Channel, Covered, Accepted, InTouch
  <1> QED BY <1>7, <1>8, <1>10, <1>12 DEF Channel

(* The steps of the compositor that accept, suspend and commit nothing.     *)
LEMMA ChannelCompositorEasy ==
  ASSUME TypeOK, Channel,
         \/ CompositorReadsFirst \/ CompositorReadFails \/ CompositorBootFails
         \/ CompositorLifecycle \/ CompositorFailed \/ CompositorDiscards
         \/ CompositorRepeats \/ CompositorDies
  PROVE  Channel'
  <1>0. compositor \in Compositor
    BY DEF TypeOK
  <1>h. up # <<>> => /\ Head(up) \in AllFrames
                     /\ Head(up).part = "first" => Head(up) \notin Resumes
                     /\ Head(up).type # "RESUME" => Head(up) \notin Resumes
    BY Takes, Sets
  <1>s. UNCHANGED hostVars => UNCHANGED <<guardian, status, worker, out>>
    BY DEF hostVars
  <1>a. Abort => compositor'.st = "aborted" /\ cout' = <<>>
    BY <1>0 DEF Abort, Compositor
  <1> USE DEF HostSame, CompositorSame
  <1>1. CASE CompositorReadsFirst
    <2>1. CompositorSame /\ UNCHANGED cout /\ HostSame /\ up # <<>> /\ up' = Tail(up)
          /\ Head(up).part = "first"
      BY <1>0, <1>s, <1>1 DEF CompositorReadsFirst, Compositor
    <2> QED BY <1>h, <2>1, ChannelPasses
  <1>2. CASE CompositorReadFails
    <2>1. HostSame /\ up # <<>> /\ up' = Tail(up) /\ Abort
      BY <1>s, <1>2 DEF CompositorReadFails
    <2> QED BY <1>a, <2>1, ChannelStops
  <1>3. CASE CompositorBootFails
    <2>1. HostSame /\ up # <<>> /\ up' = Tail(up) /\ compositor'.st = "broken" /\ UNCHANGED cout
      BY <1>0, <1>s, <1>3 DEF CompositorBootFails, Compositor
    <2> QED BY <2>1, ChannelStops
  <1>4. CASE CompositorLifecycle
    <2>1. HostSame /\ up # <<>> /\ up' = Tail(up) /\ Head(up).type = "LIFECYCLE"
      BY <1>s, <1>4 DEF CompositorLifecycle, Live, CompositorGets
    <2>2. Abort \/ (CompositorSame /\ UNCHANGED cout)
      BY <1>0, <1>4 DEF CompositorLifecycle, Compositor
    <2> QED BY <1>a, <1>h, <2>1, <2>2, ChannelPasses, ChannelStops
  <1>5. CASE CompositorFailed
    <2>1. HostSame /\ up # <<>> /\ up' = Tail(up) /\ Head(up).type = "FAILED" /\ UNCHANGED cout
          /\ CompositorSame
      BY <1>0, <1>s, <1>5 DEF CompositorFailed, Live, CompositorGets, Compositor
    <2> QED BY <1>h, <2>1, ChannelPasses
  <1>6. CASE CompositorDiscards
    <2>1. HostSame /\ up # <<>> /\ up' = Tail(up) /\ UNCHANGED cout /\ CompositorSame
          /\ Head(up).type \in {"BOOT", "CONFIG", "DISCONNECTED"}
      BY <1>0, <1>s, <1>6 DEF CompositorDiscards, Live, CompositorGets, Compositor
    <2> QED BY <1>h, <2>1, ChannelPasses
  <1>7. CASE CompositorRepeats
    <2>1. HostSame /\ up # <<>> /\ up' = Tail(up) /\ Head(up).type = "BOOT"
      BY <1>s, <1>7 DEF CompositorRepeats, Live, CompositorGets
    <2>2. Abort \/ (CompositorSame /\ UNCHANGED cout)
      BY <1>0, <1>7 DEF CompositorRepeats, Compositor
    <2> QED BY <1>a, <1>h, <2>1, <2>2, ChannelPasses, ChannelStops
  <1>8. CASE CompositorDies
    <2>1. HostSame /\ up' = <<>> /\ cout' = <<>> /\ compositor'.st = "gone"
      BY <1>0, <1>s, <1>8 DEF CompositorDies, Compositor
    <2> QED BY <2>1, ChannelStops
  <1> QED BY <1>1, <1>2, <1>3, <1>4, <1>5, <1>6, <1>7, <1>8

(* HELLO and STATE.                                                         *)
LEMMA Welcome ==
  LET m == Message("HELLO", 0) \o Message("STATE", 0) IN
    /\ m \in Seq(AllFrames) /\ ~Has(m, Results)
    /\ Message("HELLO", 0) \in Seq(AllFrames) /\ Message("STATE", 0) \in Seq(AllFrames)
  <1>1. /\ {"HELLO", "STATE"} \subseteq (UpTypes \cup DownTypes) \ {"LIFECYCLE"} /\ 0 \in Point
    BY Bounds DEF DownTypes
  <1>2. /\ Message("HELLO", 0) \in Seq(AllFrames) /\ Message("STATE", 0) \in Seq(AllFrames)
        /\ ~Has(Message("HELLO", 0), Ending({"RESULT"}))
        /\ ~Has(Message("STATE", 0), Ending({"RESULT"}))
    BY <1>1, SentPoint
  <1>3. /\ Message("HELLO", 0) \o Message("STATE", 0) \in Seq(AllFrames)
        /\ Got(Message("HELLO", 0), Message("STATE", 0), Message("HELLO", 0) \o Message("STATE", 0))
    BY <1>2, Getting, Sequences
  <1> QED BY <1>2, <1>3 DEF Results, Got

(* The first configuration.                                                 *)
LEMMA ChannelBoots ==
  ASSUME TypeOK, Processes, Channel, CompositorBoots
  PROVE  Channel'
  <1> DEFINE h == Head(up)
  <1>0. compositor \in Compositor
    BY DEF TypeOK
  <1>1. /\ UNCHANGED <<guardian, status, worker, out, down>>
        /\ compositor.st = "boot" /\ compositor'.st = "live"
        /\ compositor'.suspended = compositor.suspended /\ compositor'.point = h.val
        /\ up # <<>> /\ up' = Tail(up) /\ h.type = "BOOT"
        /\ cout' = Message("HELLO", 0) \o Message("STATE", 0)
    BY <1>0 DEF CompositorBoots, CompositorGets, hostVars, Compositor
  <1>2. Took(up, h, up') /\ h \in AllFrames
    BY <1>1, Takes
  <1> HIDE DEF h
  <1>3. h \notin Resumes /\ h.val = 1
    <2>1. h \notin OtherBoots
      BY <1>2 DEF Took, Channel, Outgoing
    <2> QED BY <1>1, <1>2, <2>1, Sets
  <1>4. /\ down = <<>> /\ ~compositor.suspended /\ worker.st \notin Late
    BY <1>1 DEF Channel, Booting
  <1>5. /\ \A S : Has(up', S) => Has(up, S)
        /\ Has(up, Resumes) => Has(up', Resumes)
        /\ \A B, G : Followed(up, B, G) => Followed(up', B, G)
    BY <1>2, <1>3 DEF Took
  <1>6. ~Has(cout', Results) /\ ~Has(down', Results)
    BY <1>1, <1>4, Welcome, Empty
  <1>7. Untold' => Untold
    BY <1>1, UntoldKept
  <1>8. Booting' /\ Silenced' /\ Doomed'
    BY <1>1, <1>4 DEF Booting, Silenced, Doomed
  <1>9. Outgoing' /\ Young' /\ Queued'
    BY <1>1, <1>3, <1>5, <1>6, <1>7 DEF Channel, Outgoing, Young, Queued
  <1>10. Covered'
    <2>1. worker.st \in Early \cup Late /\ worker.resume => Has(up', Resumes) \/ Has(out', Resumes)
      BY <1>1, <1>5 DEF Channel, Covered
    <2>2. ASSUME worker.st \in Early \cup Late, ~worker.resume PROVE Agreed'
      <3>1. worker.st \in Early /\ worker.point = 1
        BY <1>4, <2>2 DEF Channel, Outgoing
      <3>2. Untold
        BY <2>2, <3>1 DEF Untold, Processes, Chain, Roles, WorkerAlive, Early
      <3>3. ~Has(up', Configs)
        BY <1>5, <3>2 DEF Channel, Young
      <3>4. ~Has(out, Configs)
        <4>1. worker.st = "sending" => ~Has(out, NotOpening(worker))
          BY DEF Channel, Outgoing
        <4>2. worker.st # "sending" => out = <<>>
          BY <3>1 DEF Channel, Outgoing, Early
        <4>3. Configs \subseteq NotOpening(worker)
          BY <2>2, Kinds DEF Configs, NotOpening
        <4> QED BY <4>1, <4>2, <4>3, Empty DEF Has
      <3> QED BY <1>1, <1>3, <1>6, <3>1, <3>3, <3>4 DEF Agreed, Early
    <2> QED BY <1>1, <2>1, <2>2 DEF Covered, Accepted, InTouch
  <1> QED BY <1>8, <1>9, <1>10 DEF Channel

(* SUSPENDED, after which the compositor says nothing else to a worker      *)
(* until one resumes.                                                       *)
LEMMA ChannelSuspends ==
  ASSUME TypeOK, Channel, CompositorSuspends
  PROVE  Channel'
  <1> DEFINE h == Head(up)
  <1>0. compositor \in Compositor
    BY DEF TypeOK
  <1>1. /\ UNCHANGED <<guardian, status, worker, out, down>>
        /\ compositor.st = "live" /\ compositor'.st = "live"
        /\ compositor'.suspended = TRUE /\ compositor'.point = compositor.point
        /\ up # <<>> /\ up' = Tail(up) /\ h.type = "DISCONNECTED"
        /\ compositor.point \in Point
        /\ cout' = (IF compositor.suspended THEN cout ELSE <<>>)
                     \o Message("SUSPENDED", compositor.point)
    BY <1>0 DEF CompositorSuspends, Live, CompositorGets, hostVars, Compositor
  <1>2. Took(up, h, up') /\ h \in AllFrames
    BY <1>1, Takes
  <1> HIDE DEF h
  <1>3. h \notin Resumes
    BY <1>1, <1>2, Sets
  <1>4. PICK q, m : /\ q = (IF compositor.suspended THEN cout ELSE <<>>)
                    /\ m = Message("SUSPENDED", compositor.point) /\ cout' = q \o m
    BY <1>1
  <1>5. "SUSPENDED" \in (UpTypes \cup DownTypes) \ {"LIFECYCLE"}
    BY DEF DownTypes
  <1>6. m \in Seq(AllFrames) /\ OneKind(m, "SUSPENDED", compositor.point)
        /\ Has(m, Ending({"SUSPENDED"}))
    BY <1>1, <1>4, <1>5, SentPoint
  <1>7. Has(m, Suspensions) /\ ~Has(m, Answers) /\ ~Has(m, Results)
    BY <1>6, Sets DEF OneKind, Suspensions
  <1>8. Got(q, m, cout')
    <2>1. q \in Seq(AllFrames)
      BY <1>4, Directions, Sequences
    <2> QED BY <1>4, <1>6, <2>1, Getting
  <1>9. /\ Has(cout', Suspensions) /\ Followed(cout', Answers, Suspensions)
        /\ Has(cout', Results) => Has(cout, Results)
    <2>1. Has(q, Results) => Has(cout, Results)
      BY <1>4, Empty
    <2> QED BY <1>7, <1>8, <2>1 DEF Got
  <1>10. /\ \A S : Has(up', S) => Has(up, S)
         /\ Has(up, Resumes) => Has(up', Resumes)
         /\ \A B, G : Followed(up, B, G) => Followed(up', B, G)
    BY <1>2, <1>3 DEF Took
  <1>11. Untold' => Untold
    BY <1>1, UntoldKept
  <1>12. Booting' /\ Silenced' /\ Doomed'
    BY <1>1, <1>9 DEF Booting, Silenced, Doomed, SuspendedUnderway
  <1>13. Outgoing' /\ Young' /\ Queued'
    BY <1>1, <1>9, <1>10, <1>11 DEF Channel, Outgoing, Young, Queued
  <1>14. Covered'
    BY <1>1, <1>9 DEF Covered, Accepted, SuspendedUnderway
  <1> QED BY <1>12, <1>13, <1>14 DEF Channel
-----------------------------------------------------------------------------

(* Where nothing of G is, nothing that G must follow is.                    *)
LEMMA Unfollowed ==
  ASSUME NEW q, NEW B, NEW G, Followed(q, B, G), ~Has(q, G)
  PROVE  ~Has(q, B)
  BY DEF Followed, Has

(* A worker that waits for the HELLO has no reload in its writer.           *)
LEMMA Opening ==
  ASSUME Channel, worker.st \in Early
  PROVE  ~Has(out, Configs)
  <1>1. worker.st = "sending" => ~Has(out, NotOpening(worker))
    BY DEF Channel, Outgoing
  <1>2. worker.st # "sending" => out = <<>>
    BY DEF Channel, Outgoing, Early
  <1>3. Configs \subseteq NotOpening(worker)
    BY Kinds DEF Configs, NotOpening
  <1> QED BY <1>1, <1>2, <1>3, Empty DEF Has

(* A matching RESUME is read: no answer to an earlier worker is left, nor a *)
(* configuration of one, or a SUSPENDED is still coming.                    *)
LEMMA ChannelAccepts ==
  ASSUME TypeOK, Processes, Channel, UNCHANGED <<guardian, status, worker, out, down>>,
         compositor.st = "live", compositor.suspended,
         compositor'.st = "live", ~compositor'.suspended, compositor'.point = compositor.point,
         up # <<>>, up' = Tail(up), Head(up) \in Resumes, Head(up).val = compositor.point,
         NEW m, Got(cout, m, cout'), ~Has(m, Results)
  PROVE  Channel'
  <1> DEFINE h == Head(up)
  <1>2. Took(up, h, up') /\ h \in AllFrames
    BY Takes
  <1>3. h \in Resumes /\ h.val = compositor.point
    OBVIOUS
  <1> HIDE DEF h
  <1>4. /\ \A S : Has(up', S) => Has(up, S)
        /\ \A B, G : Followed(up, B, G) => Followed(up', B, G)
        /\ \A B, G : Followed(up, B, G) /\ h \in B => Has(up', G)
    BY <1>2 DEF Took
  <1>5. (Has(cout', Results) => Has(cout, Results)) /\ (SuspendedUnderway => SuspendedUnderway')
    BY DEF Got, SuspendedUnderway
  <1>6. Untold' => Untold
    BY UntoldKept
  <1>7. Booting' /\ Silenced' /\ Doomed'
    BY DEF Booting, Silenced, Doomed
  <1>8. Outgoing' /\ Young' /\ Queued'
    BY <1>4, <1>5, <1>6 DEF Channel, Outgoing, Young, Queued
  <1>9. Covered'
    <2> SUFFICES ASSUME worker.st \in Early \cup Late, ~SuspendedUnderway,
                        ~(worker.resume /\ (Has(up', Resumes) \/ Has(out, Resumes)))
                 PROVE  Agreed'
      BY <1>5 DEF Covered, Accepted, InTouch
    <2>1. worker.st \in Early
      BY DEF Channel, Doomed
    <2>2. ~Has(down, Results) /\ ~Has(cout, Results)
      <3>1. ~Has(cout, Suspensions) /\ ~Has(down, Suspensions)
        BY DEF SuspendedUnderway
      <3>2. Followed(down, Answers, Suspensions) /\ Followed(cout, Answers, Suspensions)
        BY <3>1 DEF Channel, Silenced
      <3>3. ~Has(down, Answers) /\ ~Has(cout, Answers)
        BY <3>1, <3>2, Unfollowed
      <3>4. Results \subseteq Answers
        BY DEF Results, Answers, Ending
      <3> QED BY <3>3, <3>4 DEF Has
    <2>3. ~Has(out, Configs)
      BY <2>1, Opening
    <2>4. ~Has(up', Configs) /\ compositor.point = worker.point
      <3>1. CASE worker.resume
        <4>1. Followed(up, Stale(worker.point), Asks(worker.point))
          BY <2>1, <3>1 DEF Channel, Queued
        <4>2. ~Has(up', Asks(worker.point))
          BY <3>1 DEF Asks, Has
        <4>3. ~Has(up', Stale(worker.point)) /\ h \notin Stale(worker.point)
          BY <1>4, <4>1, <4>2, Unfollowed
        <4>4. Configs \subseteq Stale(worker.point)
          BY DEF Configs, Stale, Ending
        <4>5. h.val = worker.point
          BY <1>2, <1>3, <4>3, Sets
        <4> QED BY <1>3, <4>3, <4>4, <4>5 DEF Has
      <3>2. CASE ~worker.resume
        <4>1. Untold
          BY <2>1, <3>2 DEF Untold, Processes, Chain, Roles, WorkerAlive, Early
        <4> QED BY <1>4, <2>1, <3>2, <4>1 DEF Channel, Young, Outgoing
      <3> QED BY <3>1, <3>2
    <2> QED BY <1>5, <2>1, <2>2, <2>3, <2>4 DEF Agreed, Early
  <1> QED BY <1>7, <1>8, <1>9 DEF Channel

(* A RESUME that does not match is refused; the compositor stays suspended. *)
LEMMA ChannelRefuses ==
  ASSUME TypeOK, Channel, UNCHANGED <<guardian, status, worker, out, down>>,
         compositor.st = "live", compositor.suspended, CompositorSame,
         up # <<>>, up' = Tail(up),
         NEW m, Got(cout, m, cout'), ~Has(m, Results), ~Has(m, Answers)
  PROVE  Channel'
  <1>4. /\ \A S : Has(up', S) => Has(up, S)
        /\ \A B, G : Followed(up, B, G) => Followed(up', B, G)
    BY Takes DEF Took
  <1>5. /\ Has(cout', Results) => Has(cout, Results)
        /\ Has(cout, Suspensions) => Has(cout', Suspensions)
        /\ Followed(cout, Answers, Suspensions) => Followed(cout', Answers, Suspensions)
    BY DEF Got
  <1>6. Untold' => Untold
    BY UntoldKept
  <1>7. Booting' /\ Silenced' /\ Doomed'
    BY <1>5 DEF Channel, Booting, Silenced, Doomed, SuspendedUnderway, CompositorSame
  <1>8. Outgoing' /\ Young' /\ Queued'
    BY <1>4, <1>5, <1>6 DEF Channel, Outgoing, Young, Queued, CompositorSame
  <1>9. Covered'
    BY DEF Covered, Accepted, CompositorSame
  <1> QED BY <1>7, <1>8, <1>9 DEF Channel

(* The compositor reads a RESUME.                                           *)
LEMMA ChannelResumes ==
  ASSUME TypeOK, Processes, Channel, CompositorResumes
  PROVE  Channel'
  <1>0. compositor \in Compositor
    BY DEF TypeOK
  <1>1. /\ UNCHANGED <<guardian, status, worker, out, down>>
        /\ compositor.st = "live" /\ up # <<>> /\ up' = Tail(up)
        /\ Head(up).type = "RESUME" /\ Head(up).part # "first"
    BY DEF CompositorResumes, Live, CompositorGets, hostVars
  <1>2. Head(up) \in Resumes
    BY <1>1, Takes, Sets
  <1>3. CASE ~compositor.suspended
    <2>1. compositor'.st = "aborted" /\ cout' = <<>>
      BY <1>0, <1>3 DEF CompositorResumes, Abort, Compositor
    <2> QED BY <1>1, <2>1, ChannelStops DEF HostSame
  <1>4. CASE compositor.suspended /\ ResumeMatches(Head(up).val)
    <2>1. PICK a, b : a = Message("HELLO", 0) /\ b = Message("STATE", 0)
      OBVIOUS
    <2>2. /\ compositor'.st = "live" /\ ~compositor'.suspended
          /\ compositor'.point = compositor.point /\ Head(up).val = compositor.point
      BY <1>0, <1>1, <1>4 DEF CompositorResumes, ResumeMatches, Compositor
    <2>3. cout' = (cout \o a) \o b
      BY <1>4, <2>1 DEF CompositorResumes
    <2>4. a \in Seq(AllFrames) /\ b \in Seq(AllFrames) /\ ~Has(a \o b, Results)
      BY <2>1, Welcome
    <2>5. cout' = cout \o (a \o b) /\ a \o b \in Seq(AllFrames) /\ cout \in Seq(AllFrames)
      BY <2>3, <2>4, Directions
    <2>6. Got(cout, a \o b, cout')
      BY <2>5, Getting
    <2> QED BY <1>1, <1>2, <1>4, <2>2, <2>4, <2>6, ChannelAccepts
  <1>5. CASE compositor.suspended /\ ~ResumeMatches(Head(up).val)
    <2>1. CompositorSame /\ cout' = cout \o Message("REJECTED", 0)
      BY <1>0, <1>5 DEF CompositorResumes, CompositorSame, Compositor
    <2>2. "REJECTED" \in (UpTypes \cup DownTypes) \ {"LIFECYCLE"} /\ 0 \in Point
      BY Bounds DEF DownTypes
    <2>3. PICK m : m = Message("REJECTED", 0)
      OBVIOUS
    <2>4. m \in Seq(AllFrames) /\ OneKind(m, "REJECTED", 0)
      BY <2>2, <2>3, SentPoint
    <2>5. Got(cout, m, cout')
      BY <2>1, <2>3, <2>4, Directions, Getting
    <2>6. ~Has(m, Results) /\ ~Has(m, Answers)
      BY <2>4, Sets DEF OneKind
    <2> QED BY <1>1, <1>5, <2>1, <2>5, <2>6, ChannelRefuses
  <1> QED BY <1>3, <1>4, <1>5

(* The compositor commits or refuses a reload: from Asked to Answered.      *)
LEMMA ChannelCommits ==
  ASSUME TypeOK, Channel, CompositorCommits
  PROVE  Channel'
  <1> DEFINE h == Head(up)
  <1>0. compositor \in Compositor
    BY DEF TypeOK
  <1>1. /\ UNCHANGED <<guardian, status, worker, out, down>>
        /\ compositor.st = "live" /\ ~compositor.suspended
        /\ up # <<>> /\ up' = Tail(up) /\ h.type = "CONFIG" /\ h.part # "first"
        /\ compositor'.st = "live" /\ ~compositor'.suspended
    BY <1>0 DEF CompositorCommits, Serving, Live, CompositorGets, hostVars, Compositor
  <1>a. \/ compositor'.point = h.val /\ cout' = cout \o Message("RESULT", h.val)
        \/ compositor'.point = compositor.point /\ cout' = cout \o Message("RESULT", 0)
    BY <1>0 DEF CompositorCommits, Compositor
  <1>2. Took(up, h, up') /\ h \in AllFrames
    BY <1>1, Takes
  <1>v. h.val \in Point /\ 0 \in Point
    BY <1>1, <1>2, Bounds, FrameFields DEF AllFrames
  <1> HIDE DEF h
  <1>b. PICK v, m : /\ v \in Point /\ m = Message("RESULT", v) /\ cout' = cout \o m
                    /\ \/ v = h.val /\ compositor'.point = h.val
                       \/ v = 0 /\ compositor'.point = compositor.point
    BY <1>a, <1>v
  <1>3. h \in Configs /\ h \notin Resumes
    BY <1>1, <1>2, Sets
  <1>4. /\ Has(up, Configs)
        /\ Once(up, Configs) => ~Has(up', Configs)
        /\ Has(up, Resumes) => Has(up', Resumes)
        /\ \A S : Has(up', S) => Has(up, S)
        /\ \A S : h \in S => Has(up, S)
        /\ \A B, G : Followed(up, B, G) => Followed(up', B, G)
    BY <1>2, <1>3 DEF Took
  <1>5. "RESULT" \in (UpTypes \cup DownTypes) \ {"LIFECYCLE"}
    BY DEF DownTypes
  <1>6. m \in Seq(AllFrames) /\ OneKind(m, "RESULT", v) /\ Once(m, Results)
    BY <1>5, <1>b, SentPoint DEF Results
  <1>7. Got(cout, m, cout')
    BY <1>6, <1>b, Directions, Getting
  <1>8. SuspendedUnderway => SuspendedUnderway'
    BY <1>1, <1>7 DEF SuspendedUnderway, Got
  <1>9. Untold' => Untold
    BY <1>1, UntoldKept
  <1>10. Booting' /\ Silenced' /\ Doomed'
    BY <1>1 DEF Booting, Silenced, Doomed
  <1>11. Outgoing' /\ Young' /\ Queued'
    BY <1>1, <1>4, <1>9 DEF Channel, Outgoing, Young, Queued
  <1>12. Asked => Answered'
    <2> SUFFICES ASSUME Asked PROVE Answered'
      OBVIOUS
    <2>1. ~Has(up', Configs) /\ ~Has(out, Configs)
      BY <1>4 DEF Asked
    <2>a. ~Has(down, Results) /\ ~Has(cout, Results)
      BY DEF Asked
    <2>b. Once(down, Results) /\ Once(cout, Results)
      BY <2>a DEF Has, Once
    <2>2. Once(cout', Results)
      <3>1. \A S : Once(cout, S) /\ Once(m, S) /\ ~(Has(cout, S) /\ Has(m, S)) => Once(cout', S)
        BY <1>7 DEF Got
      <3> QED BY <1>6, <2>a, <2>b, <3>1
    <2>3. h.val = worker.tried
      <3>1. h \notin OtherConfigs(worker.tried)
        BY <1>4 DEF Asked
      <3> QED BY <1>1, <1>2, <3>1, Sets
    <2>4. ~Has(m, OtherResults(worker, compositor'.point))
      BY <1>6, <1>b, <2>3, Sets DEF OneKind, Asked
    <2>5. /\ ~Has(down, OtherResults(worker, compositor'.point))
          /\ ~Has(cout, OtherResults(worker, compositor'.point))
      BY DEF Asked, OtherResults, Has
    <2>6. ~Has(cout', OtherResults(worker, compositor'.point))
      BY <1>7, <2>4, <2>5 DEF Got
    <2> QED BY <1>1, <2>1, <2>2, <2>5, <2>6, <2>a, <2>b DEF Answered, Asked
  <1>13. ~Agreed /\ ~Answered
    BY <1>4 DEF Agreed, Answered
  <1>14. Covered'
    BY <1>1, <1>4, <1>8, <1>12, <1>13 DEF Channel, Covered, Accepted, InTouch
  <1> QED BY <1>10, <1>11, <1>14 DEF Channel

(* The session starts with one worker and empty queues.                     *)
LEMMA FirstState == Init => Processes /\ Channel
  <1> SUFFICES ASSUME Init PROVE Processes /\ Channel
    OBVIOUS
  <1>1. /\ worker.st = "loading" /\ ~worker.resume /\ compositor.st = "boot"
        /\ ~compositor.suspended /\ guardian.st = "run" /\ ~guardian.started /\ ~guardian.resume
        /\ supervisor.st = "run" /\ ~supervisor.resume /\ supervisor.first
        /\ status = {} /\ pipe = {} /\ out = <<>> /\ up = <<>> /\ cout = <<>> /\ down = <<>>
    BY DEF Init, NoWorker
  <1>2. Processes
    BY <1>1 DEF Init, Processes, Chain, Roles, Told, Late
  <1>3. \A S : ~Has(<<>>, S)
    BY Empty
  <1>4. Booting /\ Outgoing /\ Young
    BY <1>1, <1>3 DEF Booting, Outgoing, Young, Early, Late
  <1>5. Silenced /\ Doomed /\ Queued /\ Covered
    BY <1>1 DEF Silenced, Doomed, Queued, Covered, Early, Late
  <1> QED BY <1>2, <1>4, <1>5 DEF Channel

(* Every step keeps Channel.                                                *)
LEMMA ChannelNext == TypeOK /\ Processes /\ Channel /\ [Next]_vars => Channel'
  <1> SUFFICES ASSUME TypeOK, Processes, Channel, [Next]_vars PROVE Channel'
    OBVIOUS
  <1>1. CASE UNCHANGED vars \/ Rests
    <2>1. UNCHANGED <<guardian, status, compositor, cout, up, worker, out, down>>
      BY <1>1 DEF Rests, vars, hostVars
    <2> QED BY <2>1, ChannelBeside, UntoldKept
  <1>2. CASE CompositorStep \/ CompositorDies
    BY <1>2, ChannelCompositorFlushes, ChannelCompositorEasy, ChannelBoots, ChannelSuspends,
       ChannelResumes, ChannelCommits DEF CompositorStep
  <1>3. CASE WorkerStep \/ UserStep \/ WorkerDies
    BY <1>3, ChannelLoads, ChannelFlushes, ChannelMarks, ChannelWorkerOver, ChannelHello,
       ChannelReloads, ChannelResult DEF WorkerStep, UserStep
  <1>4. CASE SupervisorStep \/ SupervisorDies
    BY <1>4, ChannelSupervisor
  <1>5. CASE GuardianStep \/ WaitTimesOut
    BY <1>5, ChannelGuardian
  <1> QED BY <1>1, <1>2, <1>3, <1>4, <1>5 DEF Next, FaultStep

(* The inductive invariant.                                                 *)
Invariant == TypeOK /\ Counted /\ Processes /\ Channel

(* It holds in every state of every session.                                *)
THEOREM Inductive == Spec => []Invariant
  <1>1. Init => Invariant
    BY TypeInit, FirstState DEF Invariant
  <1>2. Invariant /\ [Next]_vars => Invariant'
    BY TypeNext, ProcessesNext, ChannelNext DEF Invariant
  <1> QED BY <1>1, <1>2, PTL DEF Spec

(* The state is well-typed in every session: the counters of the supervisor *)
(* (WORKER_MAX_RESTARTS) and of the guardian, counted in different places,  *)
(* never run past the limit they are compared with.                         *)
THEOREM TypeCorrect == Spec => []TypeOK
  <1>1. Invariant => TypeOK
    BY DEF Invariant
  <1> QED BY <1>1, Inductive, PTL

(* Whatever dies, and whenever: one process reads the host end of the channel*)
(* at a time, and a worker that serves while nothing is on its way is one the*)
(* compositor did not suspend and holds the configuration it committed.     *)
THEOREM OneWorker == Spec => []OneWorkerServes
  <1>1. Invariant => SingleReader
    BY DEF Invariant, Processes, Chain, SingleReader, WorkerAlive
  <1>2. Invariant => ServingMeansAccepted
    <2> SUFFICES ASSUME Invariant, Quiet, worker.st = "up", compositor.st = "live"
                 PROVE  ~compositor.suspended /\ worker.point = compositor.point
      BY DEF ServingMeansAccepted
    <2>1. \A S : ~Has(up, S) /\ ~Has(down, S) /\ ~Has(cout, S) /\ ~Has(out, S)
      BY Empty DEF Quiet
    <2>2. ~SuspendedUnderway
      BY <2>1 DEF SuspendedUnderway
    <2>3. ~compositor.suspended
      BY <2>2 DEF Invariant, Channel, Doomed, Late
    <2>4. Accepted
      BY <2>1 DEF Invariant, Channel, Covered, Late
    <2> QED BY <2>2, <2>3, <2>4 DEF Accepted, InTouch, Agreed, Asked, Answered
  <1>3. Invariant => OneWorkerServes
    BY <1>1, <1>2 DEF Invariant, OneWorkerServes
  <1> QED BY <1>3, Inductive, PTL
=============================================================================
