-------------------------- MODULE RuntimeSupervision --------------------------
(***************************************************************************)
(* The processes of a session and the private channel between them         *)
(* (session/gnoblin-runtime*.c, control/gnoblin-control-runtime-channel.c,  *)
(* control/gnoblin-runtime-protocol.c).                                    *)
(*                                                                         *)
(* The guardian starts the compositor and a supervisor, the supervisor     *)
(* starts the Lua worker.  The three host processes share one end of a     *)
(* SOCK_SEQPACKET channel, the compositor has the other.  When a worker    *)
(* dies, whoever notices sends DISCONNECTED, waits for the compositor's    *)
(* SUSPENDED, and starts a replacement that must RESUME with exactly the   *)
(* configuration the compositor committed.                                 *)
(*                                                                         *)
(* A message longer than one record is sent in fragments.  The writer may  *)
(* stop, or its process may die, between two of them.                      *)
(***************************************************************************)
EXTENDS Naturals, Sequences

CONSTANTS
    MaxRestarts,   \* WORKER_MAX_RESTARTS, 5 in the code
    MaxPoint,      \* bound: configurations a worker tries to commit
    Fragmented,    \* the message types whose payload exceeds one record
    Faults         \* bound: processes that die, and waits that time out early

UpTypes == {"BOOT", "CONFIG", "RESUME", "DISCONNECTED", "FAILED", "LIFECYCLE"}
DownTypes == {"HELLO", "STATE", "RESULT", "SUSPENDED", "REJECTED"}

ASSUME SupervisionAssumption ==
    /\ MaxRestarts \in Nat /\ MaxPoint \in Nat \ {0} /\ Faults \in Nat
    /\ Fragmented \subseteq UpTypes \cup DownTypes

VARIABLES
    guardian,    \* its loop state, see Guardian
    supervisor,  \* its loop state, see Supervisor
    worker,      \* its loop state, see Worker
    compositor,  \* GnoblinNativeControl, see Compositor
    status,      \* flags on the way from supervisor and worker to the guardian
    pipe,        \* bytes on the worker's ready pipe
    out,         \* frames queued in the worker's writer
    up,          \* frames in the channel, host to compositor
    reader,      \* the message the present host-side reader is in the middle of
    cout,        \* frames queued in the compositor's writer
    down,        \* frames in the channel, compositor to host
    faults       \* faults left

hostVars == <<guardian, supervisor, worker, status, pipe, out>>
vars == <<hostVars, compositor, up, reader, cout, down, faults>>

Idle == "idle"                 \* a reader between messages
Point == 0..MaxPoint           \* a committed configuration with its counters; 0: none
None == 0
Starting == 1
Running == 2          \* session lifecycle, in order
LcStates == {None, Starting, Running}

Guardian == [st : {"run", "wait", "retain", "done"}, started : BOOLEAN, ready : BOOLEAN,
             supported : BOOLEAN, lc : LcStates, resume : BOOLEAN, seed : Point,
             restarts : 0..MaxRestarts + 1]
Supervisor == [st : {"none", "run", "wait", "left", "failed", "loggedOut"}, resume : BOOLEAN,
               first : BOOLEAN, seed : Point, restarts : 0..MaxRestarts + 1]
Worker == [st : {"none", "loading", "sending", "marked", "started", "up", "reloading",
                 "failed", "rejected", "loggedOut"},
           resume : BOOLEAN, point : Point, tried : Point]
Compositor == [st : {"boot", "live", "aborted", "broken", "gone"}, suspended : BOOLEAN,
               failed : BOOLEAN, point : Point, lc : LcStates, reader : UpTypes \cup {Idle}]
Part == {"whole", "first", "last"}
Frame(types) ==
    [type : types \ {"LIFECYCLE"}, part : Part, val : Point]
    \cup [type : types \cap {"LIFECYCLE"}, part : Part, val : {Starting, Running}]

-----------------------------------------------------------------------------
(* Framing.                                                                 *)

Message(type, val) ==
    LET frame(part) == [type |-> type, part |-> part, val |-> val] IN
    IF type \in Fragmented THEN <<frame("first"), frame("last")>> ELSE <<frame("whole")>>

ResynchronizesLess == {"SUSPENDED", "RESUME", "FAILED"}      \* mutant
Resynchronizes == {"DISCONNECTED", "SUSPENDED", "RESUME", "FAILED"}

(* gnoblin_runtime_reader_receive fails: a message starts inside another,   *)
(* or a fragment does not continue the one being read.                      *)
Breaks(r, f) ==
    IF f.part = "last" THEN r # f.type
    ELSE r # Idle /\ f.type \notin Resynchronizes

HostSends(messages) == up' = up \o messages

-----------------------------------------------------------------------------
NoWorker == [st |-> "none", resume |-> FALSE, point |-> 0, tried |-> 0]
NoSupervisor == [st |-> "none", resume |-> FALSE, first |-> FALSE, seed |-> 0, restarts |-> 0]

SpawnWorker(resume, seed) ==
    /\ worker' = [st |-> "loading", resume |-> resume, point |-> seed, tried |-> seed]
    /\ pipe' = {} /\ out' = <<>> /\ reader' = Idle

(* spawn_session_supervisor and the supervisor's start, which spawns the    *)
(* first worker with the counters the guardian passed on.  Its own counters *)
(* for later workers start at zero.                                         *)
SpawnSupervisor(resume, seed) ==
    /\ supervisor' = [st |-> "run", resume |-> resume, first |-> TRUE, seed |-> 0, restarts |-> 0]
    /\ status' = {}
    /\ SpawnWorker(resume, IF resume THEN seed ELSE 0)

Init ==
    /\ guardian = [st |-> "run", started |-> FALSE, ready |-> FALSE, supported |-> FALSE,
                   lc |-> None, resume |-> FALSE, seed |-> 0, restarts |-> 0]
    /\ supervisor = [st |-> "run", resume |-> FALSE, first |-> TRUE, seed |-> 0, restarts |-> 0]
    /\ worker = [NoWorker EXCEPT !.st = "loading"]
    /\ compositor = [st |-> "boot", suspended |-> FALSE, failed |-> FALSE, point |-> 0,
                     lc |-> None, reader |-> Idle]
    /\ status = {} /\ pipe = {} /\ out = <<>>
    /\ up = <<>> /\ reader = Idle /\ cout = <<>> /\ down = <<>>
    /\ faults = Faults

-----------------------------------------------------------------------------
(* The Lua worker.                                                          *)

WorkerAlive == worker.st \notin {"none", "failed", "rejected", "loggedOut"}
WorkerFails == worker' = [worker EXCEPT !.st = "failed"]

(* Configuration loaded: queue CONFIG 0 or RESUME.  A replacement refuses   *)
(* to start on counters of zero.                                            *)
WorkerLoads ==
    /\ worker.st = "loading"
    /\ IF worker.resume /\ worker.point = 0
       THEN WorkerFails /\ UNCHANGED out
       ELSE /\ worker' = [worker EXCEPT !.st = "sending",
                                        !.point = IF worker.resume THEN @ ELSE 1,
                                        !.tried = IF worker.resume THEN @ ELSE 1]
            /\ out' = IF worker.resume THEN Message("RESUME", worker.point) ELSE Message("BOOT", 1)
    /\ UNCHANGED <<guardian, supervisor, compositor, status, pipe, up, reader, cout, down, faults>>

WorkerFlushes ==
    /\ WorkerAlive /\ out # <<>>
    /\ HostSends(<<Head(out)>>) /\ out' = Tail(out)
    /\ UNCHANGED <<guardian, supervisor, worker, compositor, status, pipe, reader, cout, down,
                   faults>>

StartPacketQueued == worker.st = "sending"        \* mutant: does not wait for the flush
StartPacketFlushed == worker.st = "sending" /\ out = <<>>

(* The byte on the ready pipe that tells the supervisor.                    *)
WorkerMarks ==
    /\ StartPacketFlushed
    /\ pipe' = pipe \cup {"sent"}
    /\ worker' = [worker EXCEPT !.st = "marked"]
    /\ UNCHANGED <<guardian, supervisor, compositor, status, out, up, reader, cout, down, faults>>

(* GUARDIAN_STATUS_STARTED, which tells the guardian.                       *)
WorkerReports ==
    /\ worker.st = "marked"
    /\ status' = status \cup {"started"}
    /\ worker' = [worker EXCEPT !.st = "started"]
    /\ UNCHANGED <<guardian, supervisor, compositor, pipe, out, up, reader, cout, down, faults>>

Reads == down # <<>> /\ down' = Tail(down)
WorkerReads == worker.st \in {"started", "up", "reloading"} /\ Reads

(* A frame that starts a longer message.                                    *)
WorkerReadsFirst ==
    /\ WorkerReads /\ ~Breaks(reader, Head(down)) /\ Head(down).part = "first"
    /\ reader' = Head(down).type
    /\ UNCHANGED <<hostVars, compositor, up, cout, faults>>

WorkerGets(type) ==
    /\ WorkerReads /\ ~Breaks(reader, Head(down)) /\ Head(down).part # "first"
    /\ Head(down).type = type
    /\ reader' = Idle

WorkerHello ==
    /\ worker.st = "started" /\ WorkerGets("HELLO")
    /\ status' = status \cup {"supported", "ready"}
    /\ pipe' = pipe \cup {"ready"}
    /\ worker' = [worker EXCEPT !.st = "up"]
    /\ UNCHANGED <<guardian, supervisor, compositor, out, up, cout, faults>>

(* A snapshot, used or deferred until the reload has finished.              *)
WorkerState ==
    /\ worker.st \in {"up", "reloading"} /\ WorkerGets("STATE")
    /\ UNCHANGED <<hostVars, compositor, up, cout, faults>>

(* A reload, or the first user configuration: a new generation is staged.   *)
WorkerReloads ==
    /\ worker.st = "up" /\ out = <<>> /\ worker.tried < MaxPoint
    /\ worker' = [worker EXCEPT !.st = "reloading", !.tried = @ + 1]
    /\ out' = Message("CONFIG", worker.tried + 1)
    /\ UNCHANGED <<guardian, supervisor, compositor, status, pipe, up, reader, cout, down, faults>>

CommitAlways(val) == worker.tried            \* mutant: commits a rejected reload
Commit(val) == IF val = worker.tried THEN val ELSE worker.point

(* CONFIG_RESULT: val is the committed point, 0 when it was rejected.       *)
WorkerResult ==
    /\ worker.st = "reloading" /\ WorkerGets("RESULT")
    /\ worker' = [worker EXCEPT !.st = "up", !.point = Commit(Head(down).val)]
    /\ UNCHANGED <<guardian, supervisor, compositor, status, pipe, out, up, cout, faults>>

WorkerRejected ==
    /\ WorkerGets("REJECTED")
    /\ worker' = [worker EXCEPT !.st = IF worker.resume THEN "rejected" ELSE "failed"]
    /\ UNCHANGED <<guardian, supervisor, compositor, status, pipe, out, up, cout, faults>>

(* A broken stream, or a packet that does not belong here: runtime_fail.    *)
Unexpected(type) ==
    \/ type = "SUSPENDED"
    \/ type = "HELLO" /\ worker.st # "started"
    \/ type = "STATE" /\ worker.st = "started"
    \/ type = "RESULT" /\ worker.st # "reloading"

WorkerReadFails ==
    /\ WorkerReads
    /\ LET f == Head(down) IN Breaks(reader, f) \/ (f.part # "first" /\ Unexpected(f.type))
    /\ WorkerFails
    /\ UNCHANGED <<guardian, supervisor, compositor, status, pipe, out, up, reader, cout, faults>>

WorkerLogsOut ==
    /\ worker.st = "up"
    /\ worker' = [worker EXCEPT !.st = "loggedOut"]
    /\ UNCHANGED <<guardian, supervisor, compositor, status, pipe, out, up, reader, cout, down,
                   faults>>

(* A timeout, or the end of the compositor, once nothing else can arrive.   *)
Silent ==
    /\ down = <<>> /\ cout = <<>>
    /\ \/ compositor.st \in {"aborted", "broken", "gone"}
       \/ compositor.st # "boot" /\ up = <<>> /\ (WorkerAlive => out = <<>>)

WorkerGivesUp ==
    /\ Silent
    /\ worker.st \in {"started", "reloading"} \/ (worker.st = "up" /\ compositor.st = "gone")
    /\ WorkerFails
    /\ UNCHANGED <<guardian, supervisor, compositor, status, pipe, out, up, reader, cout, down,
                   faults>>

-----------------------------------------------------------------------------
(* The supervisor.                                                          *)

(* waitpid reports the worker; what it wrote to the ready pipe is drained.  *)
WorkerEnded == supervisor.st = "run" /\ worker.st \in {"failed", "rejected", "loggedOut"}

BootstrapRetry == supervisor.first /\ pipe = {} /\ ~supervisor.resume

SupervisorLogsOut ==
    /\ WorkerEnded /\ worker.st = "loggedOut"
    /\ supervisor' = [supervisor EXCEPT !.st = "loggedOut"]
    /\ worker' = NoWorker
    /\ UNCHANGED <<guardian, compositor, status, pipe, out, up, reader, cout, down, faults>>

SupervisorRejected ==
    /\ WorkerEnded /\ worker.st = "rejected"
    /\ HostSends(Message("FAILED", 0))
    /\ supervisor' = [supervisor EXCEPT !.st = "left"]
    /\ worker' = NoWorker
    /\ UNCHANGED <<guardian, compositor, status, pipe, out, reader, cout, down, faults>>

(* The compositor may have an accepted worker: have it suspended first.     *)
SupervisorSuspends ==
    /\ WorkerEnded /\ worker.st = "failed" /\ "sent" \in pipe
    /\ HostSends(Message("DISCONNECTED", 0))
    /\ supervisor' = [supervisor EXCEPT !.st = "wait", !.first = BootstrapRetry, !.restarts = @ + 1]
    /\ worker' = NoWorker /\ reader' = Idle
    /\ UNCHANGED <<guardian, compositor, status, pipe, out, cout, down, faults>>

RestartsUsedUpLate == supervisor.restarts > MaxRestarts      \* mutant: one restart too many
RestartsUsedUp == supervisor.restarts >= MaxRestarts

(* The worker died before it sent its first packet: start the next at once. *)
SupervisorRetries ==
    /\ WorkerEnded /\ worker.st = "failed" /\ "sent" \notin pipe
    /\ ~RestartsUsedUp
    /\ supervisor' = [supervisor EXCEPT !.first = BootstrapRetry, !.restarts = @ + 1]
    /\ SpawnWorker(~BootstrapRetry, supervisor.seed)
    /\ UNCHANGED <<guardian, compositor, status, up, cout, down, faults>>

SupervisorExhausted ==
    /\ WorkerEnded /\ worker.st = "failed" /\ "sent" \notin pipe
    /\ RestartsUsedUp
    /\ HostSends(Message("FAILED", 0))
    /\ supervisor' = [supervisor EXCEPT !.st = "left"]
    /\ worker' = NoWorker
    /\ UNCHANGED <<guardian, compositor, status, pipe, out, reader, cout, down, faults>>

(* wait_for_worker_suspended: anything else in the channel is discarded.    *)
Discards ==
    /\ Reads /\ ~Breaks(reader, Head(down))
    /\ Head(down).part = "first" \/ Head(down).type # "SUSPENDED"
    /\ reader' = IF Head(down).part = "first" THEN Head(down).type ELSE Idle

GetsSuspended ==
    /\ Reads /\ ~Breaks(reader, Head(down))
    /\ Head(down).part # "first" /\ Head(down).type = "SUSPENDED"

SupervisorDiscards ==
    /\ supervisor.st = "wait" /\ Discards
    /\ UNCHANGED <<hostVars, compositor, up, cout, faults>>

SupervisorResumes ==
    /\ supervisor.st = "wait" /\ GetsSuspended
    /\ IF supervisor.restarts > MaxRestarts
       THEN /\ HostSends(Message("FAILED", 0))
            /\ supervisor' = [supervisor EXCEPT !.st = "left"]
            /\ reader' = Idle
            /\ UNCHANGED <<worker, pipe, out>>
       ELSE /\ supervisor' = [supervisor EXCEPT !.st = "run", !.seed = Head(down).val]
            /\ SpawnWorker(TRUE, Head(down).val)
            /\ UNCHANGED up
    /\ UNCHANGED <<guardian, compositor, status, cout, faults>>

WaitBroken == down # <<>> /\ Breaks(reader, Head(down))
WaitFailsOnError == WaitBroken           \* mutant: the wait has no deadline
WaitFails == WaitBroken \/ Silent

(* host.compositor_pid is never set in this process, so the branch that     *)
(* would keep it alive is not taken: it exits and leaves the rest to the    *)
(* guardian.                                                                *)
SupervisorWaitFails ==
    /\ supervisor.st = "wait" /\ WaitFails
    /\ supervisor' = [supervisor EXCEPT !.st = "failed"]
    /\ down' = IF WaitBroken THEN Tail(down) ELSE down
    /\ UNCHANGED <<guardian, worker, compositor, status, pipe, out, up, reader, cout, faults>>

-----------------------------------------------------------------------------
(* The guardian.                                                            *)

CompositorGone == compositor.st \in {"gone", "broken"}
Flag(name, old) == old \/ name \in status

(* The guardian's own messages, on the channel it shares with the worker.   *)
Lifecycle(supported, ready) ==
    LET starting == supported /\ guardian.lc = None
        running == supported /\ ready /\ (starting \/ guardian.lc = Starting)
    IN (IF starting THEN Message("LIFECYCLE", Starting) ELSE <<>>)
       \o (IF running THEN Message("LIFECYCLE", Running) ELSE <<>>)

LastState(messages) == IF messages = <<>> THEN guardian.lc ELSE messages[Len(messages)].val

GuardianPolls ==
    /\ guardian.st = "run" /\ status # {}
    /\ LET ready == Flag("ready", guardian.ready)
           supported == Flag("supported", guardian.supported)
           news == Lifecycle(supported, ready)
       IN /\ HostSends(news)
          /\ guardian' = [guardian EXCEPT !.started = Flag("started", @), !.ready = ready,
                                          !.supported = supported, !.lc = LastState(news)]
    /\ status' = {}
    /\ UNCHANGED <<supervisor, worker, compositor, pipe, out, reader, cout, down, faults>>

KillNobody == UNCHANGED <<worker, out, pipe>>      \* mutant: the group survives
KillGroup == worker' = NoWorker /\ out' = <<>> /\ pipe' = {}

(* waitpid reports the supervisor: kill its group, drain its status a last  *)
(* time, publish what that said, and decide.                                *)
GuardianReaps ==
    /\ guardian.st = "run" /\ supervisor.st = "failed" /\ ~CompositorGone
    /\ LET supported == Flag("supported", guardian.supported)
           news == Lifecycle(supported, Flag("ready", guardian.ready))
           seen == [guardian EXCEPT !.ready = FALSE, !.supported = supported,
                                     !.lc = LastState(news)]
           tired == guardian.restarts >= MaxRestarts
       IN IF Flag("started", guardian.started)
          THEN /\ HostSends(news \o Message("DISCONNECTED", 0))
               /\ guardian' = [seen EXCEPT !.st = "wait", !.started = TRUE]
               /\ KillGroup /\ reader' = Idle
               /\ supervisor' = NoSupervisor /\ status' = {}
          ELSE IF tired
          THEN /\ HostSends(news \o Message("FAILED", 0))
               /\ guardian' = [seen EXCEPT !.st = "retain"]
               /\ KillGroup /\ supervisor' = NoSupervisor /\ status' = {}
               /\ UNCHANGED reader
          ELSE /\ HostSends(news)
               /\ guardian' = [seen EXCEPT !.restarts = @ + 1]
               /\ SpawnSupervisor(guardian.resume, guardian.seed)
    /\ UNCHANGED <<compositor, cout, down, faults>>

GuardianDiscards ==
    /\ guardian.st = "wait" /\ Discards
    /\ UNCHANGED <<hostVars, compositor, up, cout, faults>>

GuardianResumes ==
    /\ guardian.st = "wait" /\ GetsSuspended
    /\ LET acked == [guardian EXCEPT !.started = FALSE, !.resume = TRUE, !.seed = Head(down).val,
                                     !.restarts = @ + 1]
       IN IF guardian.restarts >= MaxRestarts
          THEN /\ HostSends(Message("FAILED", 0))
               /\ guardian' = [acked EXCEPT !.st = "retain"]
               /\ reader' = Idle
               /\ UNCHANGED <<supervisor, worker, status, pipe, out>>
          ELSE /\ guardian' = [acked EXCEPT !.st = "run"]
               /\ SpawnSupervisor(TRUE, Head(down).val)
               /\ UNCHANGED up
    /\ UNCHANGED <<compositor, cout, faults>>

GuardianWaitFails ==
    /\ guardian.st = "wait" /\ WaitFails /\ ~CompositorGone
    /\ HostSends(Message("FAILED", 0))
    /\ guardian' = [guardian EXCEPT !.st = "retain"]
    /\ down' = IF WaitBroken THEN Tail(down) ELSE down
    /\ UNCHANGED <<supervisor, worker, compositor, status, pipe, out, reader, cout, faults>>

(* A logout, the end of the compositor or a signal ends the session.        *)
GuardianEnds ==
    /\ guardian.st # "done"
    /\ \/ CompositorGone
       \/ guardian.st = "run" /\ supervisor.st = "loggedOut"
       \/ guardian.st = "retain"
    /\ guardian' = [guardian EXCEPT !.st = "done"]
    /\ supervisor' = NoSupervisor /\ worker' = NoWorker
    /\ status' = {} /\ pipe' = {} /\ out' = <<>>
    /\ UNCHANGED <<compositor, up, reader, cout, down, faults>>

-----------------------------------------------------------------------------
(* The compositor.                                                          *)

CompositorSends == cout # <<>> /\ down' = Append(down, Head(cout)) /\ cout' = Tail(cout)

CompositorFlushes ==
    /\ compositor.st = "live" /\ CompositorSends
    /\ UNCHANGED <<hostVars, compositor, up, reader, faults>>

CompositorReadsFirst ==
    /\ compositor.st \in {"boot", "live"} /\ up # <<>>
    /\ ~Breaks(compositor.reader, Head(up)) /\ Head(up).part = "first"
    /\ compositor' = [compositor EXCEPT !.reader = Head(up).type]
    /\ up' = Tail(up)
    /\ UNCHANGED <<hostVars, reader, cout, down, faults>>

CompositorGets(type) ==
    /\ up # <<>> /\ ~Breaks(compositor.reader, Head(up))
    /\ Head(up).part # "first" /\ Head(up).type = type
    /\ up' = Tail(up)

(* native_runtime_abort: the channel is never read or written again.        *)
Abort ==
    /\ compositor' = [compositor EXCEPT !.st = "aborted", !.reader = Idle]
    /\ cout' = <<>>

CompositorReadFails ==
    /\ compositor.st = "live" /\ up # <<>> /\ Breaks(compositor.reader, Head(up))
    /\ up' = Tail(up) /\ Abort
    /\ UNCHANGED <<hostVars, reader, down, faults>>

(* receive_runtime_config: the first message must be CONFIG 0, whole.       *)
CompositorBoots ==
    /\ compositor.st = "boot" /\ CompositorGets("BOOT")
    /\ compositor' = [compositor EXCEPT !.st = "live", !.point = Head(up).val, !.reader = Idle]
    /\ cout' = Message("HELLO", 0) \o Message("STATE", 0)
    /\ UNCHANGED <<hostVars, reader, down, faults>>

CompositorBootFails ==
    /\ compositor.st = "boot" /\ up # <<>>
    /\ \/ Breaks(compositor.reader, Head(up))
       \/ Head(up).part # "first" /\ Head(up).type # "BOOT"
    /\ up' = Tail(up)
    /\ compositor' = [compositor EXCEPT !.st = "broken"]
    /\ UNCHANGED <<hostVars, reader, cout, down, faults>>

Live(type) == compositor.st = "live" /\ CompositorGets(type)
Serving == ~compositor.failed /\ ~compositor.suspended

CompositorLifecycle ==
    /\ Live("LIFECYCLE")
    /\ IF Head(up).val = (IF compositor.lc = None THEN Starting ELSE Running)
       THEN compositor' = [compositor EXCEPT !.lc = Head(up).val, !.reader = Idle]
            /\ UNCHANGED cout
       ELSE Abort
    /\ UNCHANGED <<hostVars, reader, down, faults>>

CompositorFailed ==
    /\ Live("FAILED")
    /\ compositor' = [compositor EXCEPT !.failed = TRUE, !.reader = Idle]
    /\ UNCHANGED <<hostVars, reader, cout, down, faults>>

(* Whatever else arrives while nobody is accepted.                          *)
CompositorDiscards ==
    /\ \/ compositor.failed /\ \E t \in {"BOOT", "CONFIG", "DISCONNECTED"} : Live(t)
       \/ compositor.suspended /\ \E t \in {"BOOT", "CONFIG"} : Live(t)
    /\ compositor' = [compositor EXCEPT !.reader = Idle]
    /\ UNCHANGED <<hostVars, reader, cout, down, faults>>

(* SUSPENDED carries the committed configuration; queued output is dropped, *)
(* unless the worker was suspended before.                                  *)
CompositorSuspends ==
    /\ ~compositor.failed /\ Live("DISCONNECTED")
    /\ compositor' = [compositor EXCEPT !.suspended = TRUE, !.reader = Idle]
    /\ cout' = (IF compositor.suspended THEN cout ELSE <<>>)
               \o Message("SUSPENDED", compositor.point)
    /\ UNCHANGED <<hostVars, reader, down, faults>>

ResumeMatches(val) == val = compositor.point

CompositorResumes ==
    /\ Live("RESUME")
    /\ IF ~compositor.suspended THEN Abort
       ELSE IF ResumeMatches(Head(up).val)
       THEN /\ compositor' = [compositor EXCEPT !.suspended = FALSE, !.failed = FALSE,
                                                !.reader = Idle]
            /\ cout' = cout \o Message("HELLO", 0) \o Message("STATE", 0)
       ELSE /\ compositor' = [compositor EXCEPT !.reader = Idle]
            /\ cout' = cout \o Message("REJECTED", 0)
    /\ UNCHANGED <<hostVars, reader, down, faults>>

(* A second CONFIG 0 may repeat the committed configuration, nothing else.  *)
CompositorRepeats ==
    /\ Serving /\ Live("BOOT")
    /\ IF Head(up).val = compositor.point
       THEN compositor' = [compositor EXCEPT !.reader = Idle] /\ UNCHANGED cout
       ELSE Abort
    /\ UNCHANGED <<hostVars, reader, down, faults>>

(* A reload is applied, or rejected and rolled back.                        *)
CompositorCommits ==
    /\ Serving /\ Live("CONFIG")
    /\ \/ /\ Head(up).val > compositor.point
          /\ compositor' = [compositor EXCEPT !.point = Head(up).val, !.reader = Idle]
          /\ cout' = cout \o Message("RESULT", Head(up).val)
       \/ /\ compositor' = [compositor EXCEPT !.reader = Idle]
          /\ cout' = cout \o Message("RESULT", 0)
    /\ UNCHANGED <<hostVars, reader, down, faults>>

-----------------------------------------------------------------------------
(* Faults.                                                                  *)

Fault == faults > 0 /\ faults' = faults - 1 /\ guardian.st # "done"

WorkerDies ==
    /\ Fault /\ WorkerAlive /\ WorkerFails
    /\ UNCHANGED <<guardian, supervisor, compositor, status, pipe, out, up, reader, cout, down>>

SupervisorDies ==
    /\ Fault /\ supervisor.st \in {"run", "wait", "left"}
    /\ supervisor' = [supervisor EXCEPT !.st = "failed"]
    /\ UNCHANGED <<guardian, worker, compositor, status, pipe, out, up, reader, cout, down>>

CompositorDies ==
    /\ Fault /\ compositor.st # "gone"
    /\ compositor' = [compositor EXCEPT !.st = "gone"]
    /\ cout' = <<>> /\ up' = <<>>
    /\ UNCHANGED <<hostVars, reader, down>>

(* An answer that is only late: the 10 second waits end before it comes.    *)
WaitTimesOut ==
    /\ Fault
    /\ \/ supervisor.st = "wait" /\ supervisor' = [supervisor EXCEPT !.st = "failed"]
          /\ UNCHANGED <<guardian, up>>
       \/ guardian.st = "wait" /\ guardian' = [guardian EXCEPT !.st = "retain"]
          /\ HostSends(Message("FAILED", 0)) /\ UNCHANGED supervisor
    /\ UNCHANGED <<worker, compositor, status, pipe, out, reader, cout, down>>

(* Over, or left running without a Lua runtime.                             *)
Rests == (guardian.st = "done" \/ supervisor.st = "left") /\ UNCHANGED vars

-----------------------------------------------------------------------------
WorkerStep ==
    \/ WorkerLoads \/ WorkerFlushes \/ WorkerMarks \/ WorkerReports
    \/ WorkerReadsFirst \/ WorkerHello \/ WorkerState \/ WorkerResult
    \/ WorkerRejected \/ WorkerReadFails \/ WorkerGivesUp

SupervisorStep ==
    \/ SupervisorLogsOut \/ SupervisorRejected \/ SupervisorSuspends
    \/ SupervisorRetries \/ SupervisorExhausted
    \/ SupervisorDiscards \/ SupervisorResumes \/ SupervisorWaitFails

GuardianStep ==
    \/ GuardianPolls \/ GuardianReaps \/ GuardianDiscards
    \/ GuardianResumes \/ GuardianWaitFails \/ GuardianEnds

CompositorStep ==
    \/ CompositorFlushes \/ CompositorReadsFirst \/ CompositorReadFails
    \/ CompositorBoots \/ CompositorBootFails
    \/ CompositorLifecycle \/ CompositorFailed \/ CompositorDiscards
    \/ CompositorSuspends \/ CompositorResumes \/ CompositorRepeats \/ CompositorCommits

UserStep == WorkerReloads \/ WorkerLogsOut

FaultStep == WorkerDies \/ SupervisorDies \/ CompositorDies \/ WaitTimesOut

Next ==
    \/ WorkerStep \/ SupervisorStep \/ GuardianStep \/ CompositorStep
    \/ UserStep \/ FaultStep \/ Rests

Spec == Init /\ [][Next]_vars

(* Every process that can run does.                                         *)
FairSpec ==
    /\ Spec
    /\ WF_vars(WorkerStep) /\ WF_vars(SupervisorStep)
    /\ WF_vars(GuardianStep) /\ WF_vars(CompositorStep)

-----------------------------------------------------------------------------
(* The state space: the restart counters of supervisor and guardian, counted *)
(* in different places, never run past the limit they are compared with.    *)
TypeOK ==
    /\ guardian \in Guardian /\ supervisor \in Supervisor
    /\ worker \in Worker /\ compositor \in Compositor
    /\ status \subseteq {"started", "ready", "supported"}
    /\ pipe \subseteq {"sent", "ready"}
    /\ out \in Seq(Frame(UpTypes)) /\ up \in Seq(Frame(UpTypes))
    /\ reader \in DownTypes \cup {Idle}
    /\ cout \in Seq(Frame(DownTypes)) /\ down \in Seq(Frame(DownTypes))
    /\ faults \in 0..Faults

(* One process at a time reads the host end of the channel, so no message   *)
(* is taken by a reader it was not meant for.                               *)
SingleReader ==
    /\ supervisor.st = "wait" \/ guardian.st = "wait" => ~WorkerAlive
    /\ ~(supervisor.st = "wait" /\ guardian.st = "wait")

(* Nothing is on its way.                                                   *)
Quiet == up = <<>> /\ down = <<>> /\ cout = <<>> /\ out = <<>>

(* When nothing is on its way, a worker that serves is not a suspended one, *)
(* and it holds the configuration the compositor committed, whatever died   *)
(* before.  The compositor may have given up in the meantime (failed), on   *)
(* the word of a supervisor that died before the guardian heard of it.      *)
ServingMeansAccepted ==
    Quiet /\ worker.st = "up" /\ compositor.st = "live" =>
       ~compositor.suspended /\ worker.point = compositor.point

(* Processes that die at any point leave one worker in charge: its restarts *)
(* counted, its channel read by one process, its configuration accepted.    *)
OneWorkerServes == TypeOK /\ SingleReader /\ ServingMeansAccepted

(* A compositor that waits for its first configuration outlives the workers *)
(* and supervisors that die before they sent it: its start ends only when   *)
(* the restarts are used up and the recovery is reported as failed.         *)
DeathsSpareCompositor ==
    [][compositor.st = "boot" /\ compositor'.st = "broken" => Head(up).type = "FAILED"]_vars

(* A worker or supervisor that dies between the records of a message leaves *)
(* the compositor's reader in the middle of it, and what is sent next starts *)
(* cleanly.  What can still meet that reader is one of the guardian's own    *)
(* messages, which share the channel with a live worker, and the CONFIG 0 of *)
(* a supervisor started afresh because the guardian was never told STARTED.  *)
DeathsKeepFraming ==
    [][compositor.st = "live" /\ up # <<>> /\ up' = Tail(up) /\ Breaks(compositor.reader, Head(up))
         => Head(up).type \in {"LIFECYCLE", "BOOT"}]_vars

(* What dies takes neither the compositor nor the next message with it.     *)
DeathsContained == DeathsSpareCompositor /\ DeathsKeepFraming

(* After the last fault the session has a serving worker again, or it has   *)
(* been reported that it never will, or it is over.                         *)
Recovers ==
    <>[](\/ guardian.st = "run" /\ supervisor.st = "run" /\ worker.st \in {"up", "reloading"}
         \/ supervisor.st = "left" \/ guardian.st \in {"retain", "done"})

(* The channel survives the death of a worker or a supervisor.              *)
RuntimeNotAborted == compositor.st # "aborted"

(* Whoever waits for SUSPENDED can discard all that is sent before it.       *)
OutputDiscarded == supervisor.st = "wait" \/ guardian.st = "wait" => ~WaitBroken
=============================================================================
