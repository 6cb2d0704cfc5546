--------------------------- MODULE LocationAgent ---------------------------
(***************************************************************************)
(* The GeoClue agent (agents/gnoblin-location-agent.c) and the requests    *)
(* that wait for a shell (agents/gnoblin-control-privacy.c, and            *)
(* location.authorize_app in control/gnoblin-control-publish.c).           *)
(*                                                                         *)
(* GeoClue's manager comes and goes on the system bus.  It is told of the  *)
(* agent, asks it whether an application may have a position of some       *)
(* accuracy, and says whether one is being given.  Its messages arrive in  *)
(* the order it sent them, and of its coming and going too.                *)
(***************************************************************************)
EXTENDS Naturals, Sequences, FiniteSets, FiniteSetsExt

CONSTANTS
  Levels,       \* the accuracy levels above none
  MaxRequests,  \* bound of the model: what GeoClue asks, numbered as it comes
  MaxPending,   \* MAX_PENDING_LOCATION_AUTHORIZATIONS
  MaxAttempts,  \* calls of g_bus_get under way at once
  MaxEvents     \* bound of the model

VARIABLES
  started, stopped,
  attempts,     \* calls of g_bus_get under way
  retry,        \* retry_source
  exported,     \* object_id: "no", "yes", or "lost" by a second registration
  watching,     \* owner_watch
  present,      \* manager_present
  available, inUse,
  privacy,      \* the control's copy of both
  policy,       \* location_max_accuracy
  calls,        \* on their way to GeoClue
  wire,         \* on its way from GeoClue and the bus
  manager,      \* GeoClue: running, giving a position, the maximum it knows
  request,
  events

vars == <<started, stopped, attempts, retry, exported, watching, present, available, inUse,
          privacy, policy, calls, wire, manager, request, events>>

LocationAssumption ==
  /\ Levels \subseteq Nat \ {0} /\ MaxRequests \in Nat /\ MaxPending \in Nat \ {0}
  /\ MaxAttempts \in Nat \ {0} /\ MaxEvents \in Nat

Requests == 1 .. MaxRequests
Nothing == [available |-> FALSE, inUse |-> FALSE]
NewRequest == [at |-> "new", wants |-> 0, timer |-> FALSE, pending |-> FALSE, clock |-> FALSE,
               answers |-> <<>>, told |-> <<>>]

Init ==
  /\ started = FALSE /\ stopped = FALSE /\ attempts = 0 /\ retry = FALSE
  /\ exported = "no" /\ watching = FALSE
  /\ present = FALSE /\ available = FALSE /\ inUse = FALSE /\ privacy = Nothing
  /\ policy \in Levels \union {0}
  /\ calls = <<>> /\ wire = <<>>
  /\ manager = [up |-> FALSE, inUse |-> FALSE, knows |-> 0]
  /\ request = [r \in Requests |-> NewRequest]
  /\ events = 0

Happens == events < MaxEvents /\ events' = events + 1

busVars == <<started, stopped, attempts, retry, exported, watching>>

-----------------------------------------------------------------------------
(* The end of a request.                                                     *)

Clamp(level, maximum) == Max({l \in Levels \union {0} : l <= level /\ l <= maximum})

\* What the shell allowed is given.
CompletedTrusts(q, allowed, level) ==
  IF q.at # "open" THEN q
  ELSE LET given == IF allowed THEN level ELSE 0
       IN [q EXCEPT !.at = "over", !.timer = FALSE,
                    !.answers = Append(@, [level |-> given, most |-> policy'])]

\* complete_on_context: GeoClue is told no unless everything says yes.
Completed(q, allowed, level) ==
  IF q.at # "open" THEN q
  ELSE LET most == IF stopped' \/ ~available' \/ ~allowed THEN 0 ELSE policy'
           given == Clamp(level, Clamp(q.wants, most))
       IN [q EXCEPT !.at = "over", !.timer = FALSE,
                    !.answers = Append(@, [level |-> given, most |-> policy'])]

\* gnoblin_control_pending_location_authorization_free
Freed(q, result) ==
  [Completed(q, FALSE, 0) EXCEPT !.pending = FALSE, !.clock = FALSE, !.told = Append(@, result)]

Cleared(q) == IF q.pending THEN Freed(q, "denied") ELSE q

\* Requests of a manager that left stay.
FailNone(q) == q

FailAll(q) == Completed(q, FALSE, 0)

-----------------------------------------------------------------------------
(* What the agent knows of GeoClue, and what the control makes of it.        *)

\* notify_state and privacy_location_state_changed
Notify(is, using) ==
  /\ available' = is /\ inUse' = using
  /\ privacy' = IF available = is /\ inUse = using THEN privacy
                ELSE [available |-> is, inUse |-> is /\ using]

SameState == UNCHANGED <<available, inUse, privacy>>

\* GeoClue does not hear of a policy.
EmitsNot == UNCHANGED manager

\* emit_max_accuracy_changed, when the object is exported.
Emits == manager' = [manager EXCEPT !.knows = IF exported = "yes" THEN policy' ELSE @]

-----------------------------------------------------------------------------
(* The system bus.                                                           *)

agentVars == <<present, available, inUse, privacy, policy>>
geoclueVars == <<calls, manager>>

\* begin_start
Start ==
  /\ ~started /\ ~stopped
  /\ started' = TRUE /\ attempts' = attempts + 1
  /\ UNCHANGED <<stopped, retry, exported, watching, agentVars, geoclueVars, wire, request, events>>

\* connect_done without a connection
ConnectFails ==
  /\ attempts > 0 /\ Happens
  /\ attempts' = attempts - 1
  /\ retry' = (retry \/ ~stopped)
  /\ UNCHANGED <<started, stopped, exported, watching, agentVars, geoclueVars, wire, request>>

\* A second registration of the object fails and forgets the first.
Registered == IF exported = "no" THEN "yes" ELSE "lost"

Connects ==
  /\ retry' = FALSE
  /\ exported' = Registered
  /\ watching' = (watching \/ exported' = "yes")
  /\ wire' = IF exported' = "yes" /\ manager.up THEN Append(wire, "appeared") ELSE wire

\* connect_done
ConnectDone ==
  /\ attempts > 0
  /\ attempts' = attempts - 1
  /\ IF stopped THEN UNCHANGED <<retry, exported, watching, wire>> ELSE Connects
  /\ UNCHANGED <<started, stopped, agentVars, geoclueVars, request, events>>

\* retry_connect: every five seconds, whether an earlier call has ended or not.
Retry ==
  /\ retry /\ attempts < MaxAttempts
  /\ attempts' = attempts + 1
  /\ UNCHANGED <<started, stopped, retry, exported, watching, agentVars, geoclueVars, wire, request,
                 events>>

\* gnoblin_control_clear_pending_location_authorizations, then begin_stop: nothing that is on
\* its way has an effect any more.
Stop ==
  /\ ~stopped /\ Happens
  /\ stopped' = TRUE /\ retry' = FALSE /\ watching' = FALSE /\ exported' = "no"
  /\ wire' = <<>> /\ calls' = <<>>
  /\ UNCHANGED <<started, attempts, agentVars, manager>>
  /\ request' = [r \in Requests |-> FailAll(Cleared(request[r]))]

-----------------------------------------------------------------------------
(* GeoClue.                                                                  *)

Hears(message) == wire' = IF watching THEN Append(wire, message) ELSE wire

Appears ==
  /\ ~manager.up /\ Happens
  /\ manager' = [up |-> TRUE, inUse |-> FALSE, knows |-> 0]
  /\ Hears("appeared")
  /\ UNCHANGED <<busVars, agentVars, calls, request>>

\* The calls it has not answered fail.
Failures == IF \E i \in DOMAIN calls : calls[i] = "AddAgent" THEN <<"failed">> ELSE <<>>

Vanishes ==
  /\ manager.up /\ Happens
  /\ manager' = [up |-> FALSE, inUse |-> FALSE, knows |-> 0]
  /\ calls' = <<>>
  /\ \/ wire' = IF watching THEN wire \o Failures \o <<"vanished">> ELSE wire
     \/ wire' = IF watching THEN wire \o <<"vanished">> \o Failures ELSE wire
  /\ UNCHANGED <<busVars, agentVars, request>>

Uses(using) == IF using THEN "used" ELSE "unused"

InUseChanges ==
  /\ manager.up /\ Happens
  /\ manager' = [manager EXCEPT !.inUse = ~@]
  /\ Hears(Uses(manager'.inUse))
  /\ UNCHANGED <<busVars, agentVars, calls, request>>

\* It reads the maximum of an agent it is told of.
Answers ==
  /\ calls # <<>>
  /\ calls' = Tail(calls)
  /\ IF Head(calls) = "AddAgent"
       THEN /\ manager' = [manager EXCEPT !.knows = policy]
            /\ Hears("added")
       ELSE /\ UNCHANGED manager
            /\ Hears(Uses(manager.inUse))
  /\ UNCHANGED <<busVars, agentVars, request, events>>

\* It does not take the agent, or answers too late.  One that took it is assumed to answer.
AnswersNot ==
  /\ calls # <<>> /\ Head(calls) = "AddAgent" /\ Happens
  /\ calls' = Tail(calls)
  /\ wire' = Append(wire, "failed")
  /\ UNCHANGED <<busVars, agentVars, manager, request>>

-----------------------------------------------------------------------------
(* What the agent hears.                                                     *)

Calls(call) == calls' = IF manager.up THEN Append(calls, call) ELSE calls

\* A call to GeoClue when it has left fails at once.
NobodyThere(call) == IF manager.up \/ call # "AddAgent" THEN <<>> ELSE <<"failed">>

\* manager_name_appeared
Appeared ==
  /\ present' = TRUE
  /\ Calls("AddAgent")
  /\ wire' = Tail(wire) \o NobodyThere("AddAgent")
  /\ SameState /\ UNCHANGED request

\* manager_name_vanished
Vanished ==
  /\ present' = FALSE
  /\ wire' = Tail(wire) /\ UNCHANGED calls
  /\ Notify(FALSE, FALSE)
  /\ request' = [r \in Requests |-> FailAll(request[r])]

\* add_agent_done, then get_in_use
Added ==
  /\ wire' = Tail(wire)
  /\ IF present THEN Notify(TRUE, FALSE) /\ Calls("Get") ELSE SameState /\ UNCHANGED calls
  /\ UNCHANGED <<present, request>>

\* add_agent_done, an error
AddFailed ==
  /\ wire' = Tail(wire)
  /\ Notify(FALSE, FALSE)
  /\ UNCHANGED <<present, calls, request>>

\* in_use_done and properties_changed
Used(using) ==
  /\ wire' = Tail(wire)
  /\ IF available THEN Notify(TRUE, using) ELSE SameState
  /\ UNCHANGED <<present, calls, request>>

Deliver ==
  /\ wire # <<>>
  /\ UNCHANGED <<busVars, policy, manager, events>>
  /\ \/ Head(wire) = "appeared" /\ Appeared
     \/ Head(wire) = "vanished" /\ Vanished
     \/ Head(wire) = "added" /\ Added
     \/ Head(wire) = "failed" /\ AddFailed
     \/ Head(wire) = "used" /\ Used(TRUE)
     \/ Head(wire) = "unused" /\ Used(FALSE)

-----------------------------------------------------------------------------
(* A request.                                                                *)

Becomes(r, q) == request' = [request EXCEPT ![r] = q]
Pending == {r \in Requests : request[r].pending}
Comes(r) == request[r].at = "new" /\ \A s \in 1 .. r - 1 : request[s].at # "new"

\* method_call denies at once what cannot be allowed; location_authorize_app what no shell
\* can hear of.
Asked(q, serving) ==
  IF ~available \/ policy = 0 \/ ~serving \/ Cardinality(Pending) >= MaxPending
    THEN Completed(q, FALSE, 0)
  ELSE [q EXCEPT !.timer = TRUE, !.pending = TRUE, !.clock = TRUE, !.told = <<"requested">>]

requestless == <<busVars, agentVars, geoclueVars, wire>>

AuthorizeApp(r) ==
  /\ manager.up /\ exported # "no" /\ Comes(r)
  /\ UNCHANGED <<requestless, events>>
  /\ \E level \in Levels, serving \in BOOLEAN :
       Becomes(r, Asked([request[r] EXCEPT !.at = "open", !.wants = level], serving))

\* native_location_authorize_operation, by those that were told and before the entry expires.
MayAllow(q, level) == level # 0 /\ level <= q.wants

Allow(r) ==
  /\ request[r].pending
  /\ UNCHANGED <<requestless, events>>
  /\ \E level \in Levels :
       /\ MayAllow(request[r], level)
       /\ Becomes(r, Freed(Completed(request[r], TRUE, level), "allowed"))

Deny(r) ==
  /\ request[r].pending
  /\ UNCHANGED <<requestless, events>>
  /\ Becomes(r, Freed(Completed(request[r], FALSE, 0), "denied"))

\* pending_location_authorization_timeout, after 25 seconds
EntryTimeout(r) ==
  /\ request[r].clock
  /\ UNCHANGED <<requestless, events>>
  /\ Becomes(r, Freed(request[r], "timeout"))

\* request_timeout_cb, after 30
RequestTimeout(r) ==
  /\ request[r].timer
  /\ UNCHANGED <<requestless, events>>
  /\ Becomes(r, Completed(request[r], FALSE, 0))

\* apply_policy and settings_changed
SetPolicy ==
  /\ Happens
  /\ policy' \in (Levels \union {0}) \ {policy}
  /\ Emits
  /\ UNCHANGED <<busVars, present, available, inUse, privacy, calls, wire, request>>

Next ==
  \/ Start \/ ConnectFails \/ ConnectDone \/ Retry \/ Stop
  \/ Appears \/ Vanishes \/ InUseChanges \/ Answers \/ AnswersNot \/ Deliver \/ SetPolicy
  \/ \E r \in Requests :
       AuthorizeApp(r) \/ Allow(r) \/ Deny(r) \/ EntryTimeout(r) \/ RequestTimeout(r)

Spec == Init /\ [][Next]_vars

-----------------------------------------------------------------------------
(* Properties.                                                               *)

TypeOK ==
  /\ exported \in {"no", "yes", "lost"} /\ attempts \in 0 .. MaxAttempts
  /\ policy \in Levels \union {0}
  /\ \A r \in Requests : request[r].at \in {"new", "open", "over"}

\* A position is given only as a shell allowed it, no better than was asked for and than the
\* policy had it at that moment.
FailClosed ==
  \A r \in Requests : \A i \in DOMAIN request[r].answers :
    LET answer == request[r].answers[i] IN
    /\ answer.level <= request[r].wants /\ answer.level <= answer.most
    /\ answer.level # 0 => request[r].told = <<"requested", "allowed">>

\* GeoClue gets one answer, the shells one end, and both have a timer that brings it.
OneAnswer ==
  /\ Cardinality(Pending) <= MaxPending
  /\ \A r \in Requests : LET q == request[r] IN
       /\ Len(q.answers) = (IF q.at = "over" THEN 1 ELSE 0)
       /\ q.at = "open" => q.timer /\ q.pending
       /\ q.pending <=> q.clock
       /\ q.pending <=> q.told = <<"requested">>
       /\ Len(q.told) <= 2

\* Once everything that was on its way has arrived, the session knows whether GeoClue runs
\* and gives a position, and GeoClue the maximum, if the object's id was not lost; no request of
\* one that left stays open.
Settled == started /\ ~stopped /\ attempts = 0 /\ wire = <<>> /\ calls = <<>>

KnowEachOther ==
  /\ privacy = [available |-> available, inUse |-> available /\ inUse]
  /\ Settled /\ available =>
       /\ manager.up /\ inUse = manager.inUse
       /\ exported = "yes" => manager.knows = policy
  /\ Settled /\ ~manager.up => \A r \in Requests : request[r].at # "open"

\* All of these.
LocationSound == TypeOK /\ FailClosed /\ OneAnswer /\ KnowEachOther

\* The inductive invariant.  Of the bus: it is asked once started, and the manager is watched
\* while the object is exported.
BusKept ==
  /\ started \in BOOLEAN /\ stopped \in BOOLEAN /\ retry \in BOOLEAN /\ watching \in BOOLEAN
  /\ exported \in {"no", "yes", "lost"} /\ attempts \in 0 .. MaxAttempts
  /\ policy \in Levels \union {0}
  /\ ~started => attempts = 0 /\ ~retry
  /\ watching <=> exported # "no"
  /\ watching => ~stopped

\* Of what is under way: P, A and U are the numbers of messages of the wire after which the
\* agent takes GeoClue to be present, available and in use.
Foreseen(P, A, U) ==
  /\ 0 \in P <=> present
  /\ 0 \in A <=> available
  /\ 0 \in U <=> inUse
  /\ \A i \in 1 .. Len(wire) : LET m == wire[i] IN
       /\ i \in P <=> m = "appeared" \/ (i - 1 \in P /\ m # "vanished")
       /\ i \in A <=> \/ m = "added" /\ i - 1 \in P
                      \/ i - 1 \in A /\ m \notin {"failed", "vanished"}
       /\ i \in U <=> \/ m = "used" /\ i - 1 \in A
                      \/ /\ i - 1 \in U /\ m \notin {"failed", "vanished"}
                         /\ ~(m = "added" /\ i - 1 \in P) /\ ~(m = "unused" /\ i - 1 \in A)

\* When all of it has arrived, it is so, or GeoClue is about to be asked.
ComesTrue(P, A, U) ==
  /\ Len(wire) \in P <=> manager.up
  /\ Len(wire) \in A =>
       /\ manager.up
       /\ exported = "yes" => manager.knows = policy
       /\ \/ Len(wire) \in U <=> manager.inUse
          \/ \E i \in DOMAIN calls : calls[i] = "Get"
          \/ \E i \in DOMAIN wire : wire[i] = "added" /\ i - 1 \in P

Prefixes == 0 .. Len(wire)

ChannelKept ==
  /\ wire \in Seq({"appeared", "vanished", "added", "failed", "used", "unused"})
  /\ calls \in Seq({"AddAgent", "Get"})
  /\ present \in BOOLEAN /\ available \in BOOLEAN /\ inUse \in BOOLEAN
  /\ manager \in [up : BOOLEAN, inUse : BOOLEAN, knows : Levels \union {0}]
  /\ privacy = [available |-> available, inUse |-> available /\ inUse]
  /\ available => present
  /\ calls # <<>> => manager.up
  /\ ~watching => wire = <<>> /\ calls = <<>> /\ (stopped \/ (~present /\ ~available))
  /\ watching => \E P, A, U \in SUBSET Prefixes : Foreseen(P, A, U) /\ ComesTrue(P, A, U)

\* Of the requests: one was not asked yet, or is open, or over, and its entry may outlive it.
Given == [level : Levels \union {0}, most : Levels \union {0}]
Ends == {"allowed", "denied", "timeout"}

RequestRecords ==
  [at : {"new", "open", "over"}, wants : Levels \union {0}, timer : BOOLEAN, pending : BOOLEAN,
   clock : BOOLEAN, answers : {<<>>} \union {<<g>> : g \in Given},
   told : {<<>>, <<"requested">>} \union {<<"requested", e>> : e \in Ends}]

Unanswered(q) == q.timer /\ q.pending /\ q.answers = <<>>
Answered(q) ==
  \E g \in Given : /\ q.answers = <<g>> /\ g.level <= q.wants /\ g.level <= g.most
                   /\ g.level # 0 => q.told = <<"requested", "allowed">>

RequestRight(q) ==
  /\ q.at = "new" => q = NewRequest
  /\ q.at = "open" => Unanswered(q)
  /\ q.at = "over" => Answered(q)
  /\ q.pending <=> q.clock
  /\ q.pending <=> q.told = <<"requested">>

RequestsKept ==
  /\ request \in [Requests -> RequestRecords]
  /\ \A r \in Requests : RequestRight(request[r]) /\ (request[r].at = "open" => present)
  /\ Cardinality(Pending) <= MaxPending

IInv == BusKept /\ ChannelKept /\ RequestsKept
=============================================================================
