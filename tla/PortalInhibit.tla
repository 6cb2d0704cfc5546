---------------------------- MODULE PortalInhibit ----------------------------
(***************************************************************************)
(* The Inhibit portal (portal/backend/gnoblin-inhibit.c): leases that hold *)
(* what the screen saver, logind or GNOME's session manager granted for a  *)
(* request, monitors that are told how the session is, and the question    *)
(* that the session supervisor has put to them before the session ends.    *)
(*                                                                         *)
(* The portal calls the services synchronously: an answer may be a         *)
(* refusal, or come too late after the service has granted the call.       *)
(* Signals of the screen saver wait in a queue that such calls overtake.   *)
(***************************************************************************)
EXTENDS Naturals, Sequences, FiniteSets, Functions, FiniteSetsExt, TLC

CONSTANTS
  Requests,     \* calls of Inhibit
  Monitors,     \* sessions made by CreateMonitor
  MaxEvents     \* bound of the model: what other processes do by themselves

VARIABLES
  lease,        \* the lease of each request
  service,      \* screen saver and session manager: up, their cookies, how often they began
  logind,       \* requests whose descriptor of a sleep inhibitor is open
  front,        \* the portal frontend, counted by its unique names
  monitor,      \* the monitors, and what each was told last
  ending,       \* session_state, who has to answer, the timer, calls not answered
  saver,        \* the screen saver is active, its signals under way, screensaver_active
  portalEvents  \* bound of the model

vars == <<lease, service, logind, front, monitor, ending, saver, portalEvents>>
leaseVars == <<lease, service, logind, front>>
InhibitAssumption == MaxEvents \in Nat

Services == {"saver", "manager"}
Flags == {"idle", "suspend"}
Free == [at |-> "none", flags |-> {}, cookie |-> [s \in Services |-> 0], began |-> 0, sleep |-> FALSE,
         front |-> 0, watched |-> FALSE]

Init ==
  /\ lease = [r \in Requests |-> Free]
  /\ service \in [Services -> {[up |-> TRUE, next |-> 0, held |-> <<>>, began |-> 1]}
                              \union {[up |-> FALSE, next |-> 0, held |-> <<>>, began |-> 0]}]
  /\ service["saver"].up
  /\ logind = {} /\ front = 1
  /\ monitor = [m \in Monitors |-> [at |-> "none", states |-> <<>>, active |-> FALSE]]
  /\ ending = [phase |-> "running", awaiting |-> {}, timer |-> FALSE, callers |-> 0]
  /\ saver \in {[active |-> a, signals |-> <<>>, known |-> FALSE] : a \in BOOLEAN}
  /\ portalEvents = 0

Happens == portalEvents < MaxEvents /\ portalEvents' = portalEvents + 1
Open == {r \in Requests : lease[r].at = "held"}

-----------------------------------------------------------------------------
(* Leases.                                                                   *)

Granted(s, r) == [service EXCEPT ![s].next = @ + 1, ![s].held = (service[s].next + 1 :> r) @@ @]

\* A cookie is given back by its number; the service knows the portal's name only.
GivenBack(services, q) ==
  [s \in Services |->
     [services[s] EXCEPT !.held = IF q.cookie[s] = 0 THEN @ ELSE Restrict(@, DOMAIN @ \ {q.cookie[s]})]]

\* The cookies are left where they are.
LeaseFreeKeeps(q, services) == service' = services

\* lease_free
LeaseFree(q, services) == service' = GivenBack(services, q)

\* handle_inhibit as far as the request: what the services are asked for, one after the other.
\* `late': the screen saver or the session manager grants what the portal gave up waiting for.
Taken(r, flags, late, slept, exports) ==
  LET s == IF service["manager"].up THEN "manager" ELSE "saver"
      asks == s = "manager" \/ "idle" \in flags
      cookie == asks /\ service[s].up /\ ~late
      first == asks => cookie
      sleep == s = "saver" /\ "suspend" \in flags /\ first /\ slept
      q == [Free EXCEPT !.flags = flags, !.sleep = sleep, !.began = service[s].began,
                        !.cookie[s] = IF cookie THEN service[s].next + 1 ELSE 0]
  IN [lease |-> q, services |-> IF asks /\ service[s].up THEN Granted(s, r) ELSE service,
      done |-> /\ first /\ exports
               /\ (s = "saver" /\ "suspend" \in flags => sleep)]

\* What was taken before the failure is kept.
InhibitFailsKept(r, taken) == service' = taken.services /\ lease' = [lease EXCEPT ![r].at = "failed"]
InhibitFails(r, taken) ==
  LeaseFree(taken.lease, taken.services) /\ lease' = [lease EXCEPT ![r].at = "failed"]

\* A frontend that calls may be gone when its call is handled.
Inhibit(r, f, flags, late, slept, exports) ==
  /\ lease[r].at = "none" /\ (late => Happens) /\ (~late => UNCHANGED portalEvents)
  /\ LET taken == Taken(r, flags, late, slept, exports) IN
     IF taken.done
     THEN /\ lease' = [lease EXCEPT ![r] = [taken.lease EXCEPT !.at = "held", !.front = f, !.watched = TRUE]]
          /\ service' = taken.services
          /\ logind' = IF taken.lease.sleep THEN logind \union {r} ELSE logind
     ELSE InhibitFails(r, taken) /\ UNCHANGED logind
  /\ UNCHANGED <<front, monitor, ending, saver>>

Freed(r) ==
  /\ LeaseFree(lease[r], service) /\ logind' = logind \ {r}
  /\ lease' = [lease EXCEPT ![r] = [Free EXCEPT !.at = "closed"]]
  /\ UNCHANGED <<front, monitor, ending, saver, portalEvents>>

\* handle_close: another frontend's request is not its to close.
Close(r, f) == r \in Open /\ lease[r].front = f /\ Freed(r)

\* handle_frontend_disappeared
Disappeared(r) == r \in Open /\ lease[r].watched /\ lease[r].front # front /\ Freed(r)

FrontendRestarts ==
  /\ Happens /\ front' = front + 1
  /\ UNCHANGED <<lease, service, logind, monitor, ending, saver>>

ServiceStops(s) ==
  /\ service[s].up /\ Happens
  /\ service' = [service EXCEPT ![s].up = FALSE, ![s].held = <<>>]
  /\ UNCHANGED <<lease, logind, front, monitor, ending, saver>>

\* A service that begins again gives its first cookie again.
ServiceBegins(s) ==
  /\ ~service[s].up /\ Happens
  /\ service' = [service EXCEPT ![s] = [up |-> TRUE, next |-> 0, held |-> <<>>, began |-> @.began + 1]]
  /\ saver' = IF s = "saver" THEN [saver EXCEPT !.active = FALSE] ELSE saver
  /\ UNCHANGED <<lease, logind, front, monitor, ending>>

-----------------------------------------------------------------------------
(* Monitors.                                                                 *)

Watching == {m \in Monitors : monitor[m].at = "open"}

\* emit_monitor_state for the monitors ms.
Emitted(monitors, ms, active, phase) ==
  [m \in Monitors |->
     IF m \notin ms THEN monitors[m]
     ELSE [monitors[m] EXCEPT !.active = active,
             !.states = IF @ # <<>> /\ @[Len(@)] = phase THEN @ ELSE Append(@, phase)]]

\* The session may be about to end.
MayCreateAny == ending.phase # "ending"
MayCreate == ending.phase = "running"

\* handle_create_monitor: the screen saver has to answer.
CreateMonitor(m) ==
  /\ monitor[m].at = "none"
  /\ IF MayCreate /\ service["saver"].up
     THEN /\ monitor' = Emitted([monitor EXCEPT ![m].at = "open"], {m}, saver.active, ending.phase)
          /\ saver' = [saver EXCEPT !.known = saver.active]
     ELSE monitor' = [monitor EXCEPT ![m].at = "refused"] /\ UNCHANGED saver
  /\ UNCHANGED <<leaseVars, ending, portalEvents>>

SaverChanges ==
  /\ Happens /\ service["saver"].up
  /\ saver' = [saver EXCEPT !.active = ~@, !.signals = Append(@, ~saver.active)]
  /\ UNCHANGED <<leaseVars, monitor, ending>>

\* on_screensaver_signal
SaverSignal ==
  /\ saver.signals # <<>>
  /\ saver' = [saver EXCEPT !.signals = Tail(@), !.known = Head(saver.signals)]
  /\ monitor' = Emitted(monitor, Watching, Head(saver.signals), ending.phase)
  /\ UNCHANGED <<leaseVars, ending, portalEvents>>

-----------------------------------------------------------------------------
(* The end of the session.                                                   *)

\* finish_end_query, for what is left of it
FinishEndQuery(e, monitors) ==
  IF e.phase # "query" \/ e.awaiting # {}
  THEN ending' = e /\ monitor' = monitors
  ELSE /\ ending' = [phase |-> "ending", awaiting |-> {}, timer |-> FALSE, callers |-> e.callers - 1]
       /\ monitor' = Emitted(monitors, {m \in Monitors : monitors[m].at = "open"}, saver.known, "ending")

\* A second call starts over.
MayPrepareAgain == ending.phase # "ending"
MayPrepare == ending.phase = "running" /\ ending.callers = 0

\* handle_prepare_for_end of the supervisor; anyone else's is refused.
PrepareForEnd ==
  /\ MayPrepare
  /\ FinishEndQuery([phase |-> "query", awaiting |-> Watching, timer |-> Watching # {},
                     callers |-> ending.callers + 1],
                    Emitted(monitor, Watching, saver.known, "query"))
  /\ UNCHANGED <<leaseVars, saver, portalEvents>>

\* handle_query_end_response of the client that made the monitor
QueryEndResponse(m) ==
  /\ ending.phase = "query" /\ m \in ending.awaiting
  /\ FinishEndQuery([ending EXCEPT !.awaiting = @ \ {m}], monitor)
  /\ UNCHANGED <<leaseVars, saver, portalEvents>>

\* A monitor that closes leaves its answer owed.
ClosesOwing(m) == ending
Closes(m) == [ending EXCEPT !.awaiting = @ \ {m}]

\* inhibit_monitor_close
MonitorClose(m) ==
  /\ m \in Watching /\ Happens
  /\ FinishEndQuery(Closes(m), [monitor EXCEPT ![m].at = "closed"])
  /\ UNCHANGED <<leaseVars, saver>>

\* end_query_timed_out
EndQueryTimedOut ==
  /\ ending.timer /\ FinishEndQuery([ending EXCEPT !.timer = FALSE, !.awaiting = {}], monitor)
  /\ UNCHANGED <<leaseVars, saver, portalEvents>>

Next ==
  \/ \E r \in Requests, f \in {front, front - 1} \ {0}, flags \in SUBSET Flags \ {{}},
        late, slept, exports \in BOOLEAN : Inhibit(r, f, flags, late, slept, exports)
  \/ \E r \in Requests, f \in 1 .. front : Close(r, f)
  \/ \E r \in Requests : Disappeared(r)
  \/ FrontendRestarts \/ SaverChanges \/ SaverSignal
  \/ \E s \in Services : ServiceStops(s) \/ ServiceBegins(s)
  \/ \E m \in Monitors : CreateMonitor(m) \/ QueryEndResponse(m) \/ MonitorClose(m)
  \/ PrepareForEnd \/ EndQueryTimedOut

-----------------------------------------------------------------------------
Steady(s) == service[s].began <= 1

\* A lease holds what it was taken for until it is freed, as long as the service that granted it
\* runs: a service that began again numbers its cookies anew, and the close of an older lease
\* would give back a newer one's.
LeasesHold ==
  \A r \in Open :
    /\ lease[r].sleep => r \in logind
    /\ \A s \in Services : Steady(s) /\ service[s].up /\ lease[r].cookie[s] # 0 =>
         lease[r].cookie[s] \in DOMAIN service[s].held /\ service[s].held[lease[r].cookie[s]] = r
    /\ \/ lease[r].cookie["manager"] # 0
       \/ ("idle" \in lease[r].flags) = (lease[r].cookie["saver"] # 0)
          /\ ("suspend" \in lease[r].flags) = lease[r].sleep

\* Nothing is held for a request that has no lease, but for a cookie whose answer came late; and
\* a lease whose frontend is gone is watched.
LeasesRelease ==
  /\ logind \subseteq Open
  /\ \A s \in Services : \A c \in DOMAIN service[s].held :
       LET r == service[s].held[c] IN
         r \in Open \/ (lease[r].at = "failed" /\ portalEvents > 0)
  /\ \A r \in Open : lease[r].watched

\* The session asks each monitor once and tells it of the end once, waits for those that live and
\* have not answered, and never without a timer; its caller is answered when it ends.
EndsOnce ==
  /\ ending.phase = "query" => /\ ending.awaiting # {} /\ ending.awaiting \subseteq Watching
                               /\ ending.timer /\ ending.callers = 1
  /\ ending.phase # "query" => ~ending.timer /\ ending.awaiting = {} /\ ending.callers = 0
  /\ \A m \in Watching :
       monitor[m].states \in {<<"running">>, <<"running", "query">>, <<"running", "query", "ending">>}
  /\ \A m \in Watching : monitor[m].states[Len(monitor[m].states)] = ending.phase

\* When no signal is under way every monitor knows whether the screen saver is active.
MonitorsKnow ==
  saver.signals = <<>> /\ Steady("saver") => \A m \in Watching : monitor[m].active = saver.active

InhibitSound == LeasesHold /\ LeasesRelease /\ EndsOnce /\ MonitorsKnow

Spec == Init /\ [][Next]_vars
=============================================================================
