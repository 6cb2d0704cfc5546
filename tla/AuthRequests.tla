---------------------------- MODULE AuthRequests ----------------------------
(***************************************************************************)
(* The polkit agent (agents/gnoblin-auth-agent.c) and the requests that    *)
(* wait for a shell (agents/gnoblin-control-auth.c).                       *)
(*                                                                         *)
(* polkit asks the agent; a shell or the Lua worker claims the request     *)
(* with auth.begin, which starts the helper that checks the password,      *)
(* answers the helper's prompts with auth.respond, or gives up with        *)
(* auth.cancel.  Timers, polkit and the configuration end requests too.    *)
(* An end runs through both files and re-enters the table it came from.    *)
(*                                                                         *)
(* A helper that ends inside polkit_agent_session_initiate is left out.    *)
(***************************************************************************)
EXTENDS Integers, Sequences, FiniteSets

CONSTANTS
  MaxRequests,  \* bound of the model: what polkit asks, numbered as it comes
  Clients,      \* of the control socket
  MaxPending,   \* MAX_PENDING_AUTH_REQUESTS
  MaxEvents     \* bound of the model

VARIABLES
  agent,        \* control->auth_agent: the number of the one that runs, 0 for none
  agents,       \* how many there have been
  registered,   \* polkit accepted it
  request,
  events

vars == <<agent, agents, registered, request, events>>

AuthAssumption == MaxRequests \in Nat /\ MaxPending \in Nat \ {0} /\ MaxEvents \in Nat

Requests == 1 .. MaxRequests
Lua == "lua"
Timers == {"none", "unclaimed", "answer"}

NewRequest ==
  [at |-> "new", by |-> 0, pending |-> FALSE, timer |-> "none", recipients |-> {},
   begun |-> FALSE, session |-> FALSE, waiting |-> FALSE, unanswered |-> 0, gained |-> FALSE,
   idle |-> FALSE, answers |-> <<>>, told |-> <<>>]

Init ==
  /\ agent = 0 /\ agents = 0 /\ registered = FALSE
  /\ request = [r \in Requests |-> NewRequest]
  /\ events = 0

Happens == events < MaxEvents /\ events' = events + 1
Becomes(r, q) == request' = [request EXCEPT ![r] = q]
Pending == {r \in Requests : request[r].pending}

-----------------------------------------------------------------------------
(* The two ways a request ends.                                              *)

\* pending_auth_free, the entry's end: the shells hear the result.
Freed(q, result) ==
  [q EXCEPT !.timer = "none", !.recipients = {}, !.told = Append(@, result)]

\* The result is kept only once the entry has left.
AuthFinishedLate(q, result) ==
  IF q.pending THEN Freed([q EXCEPT !.pending = FALSE], "cancelled") ELSE q

\* auth_finished: the entry, if the table still has it, leaves with the result.
AuthFinished(q, result) ==
  IF q.pending THEN Freed([q EXCEPT !.pending = FALSE], result) ELSE q

Answer(result) == IF result = "cancelled" THEN "cancelled" ELSE "given"

\* A second end is not noticed.
FinishAgain(q, result) ==
  LET over == [q EXCEPT !.at = "over", !.begun = FALSE, !.session = FALSE, !.waiting = FALSE,
                        !.unanswered = 0]
  IN [AuthFinished(over, result) EXCEPT !.answers = Append(@, Answer(result))]

\* request_finish: once; the helper's signals are disconnected before anybody hears.
Finish(q, result) ==
  IF q.at # "open" THEN q
  ELSE LET over == [q EXCEPT !.at = "over", !.begun = FALSE, !.session = FALSE,
                             !.waiting = FALSE, !.unanswered = 0]
       IN [AuthFinished(over, result) EXCEPT !.answers = Append(@, Answer(result))]

\* The entry goes, the request stays.
RemoveOnly(q) == IF q.pending THEN Freed([q EXCEPT !.pending = FALSE], "cancelled") ELSE q

\* The entry leaves the table first (timeout, clear): its end cancels the request, whose
\* end finds no entry.
Remove(q) ==
  IF q.pending THEN Freed(Finish([q EXCEPT !.pending = FALSE], "cancelled"), "cancelled")
  ELSE q

\* gnoblin_auth_agent_stop, then clear_pending_auth.
Stopped(q) == Remove(Finish(q, "cancelled"))

-----------------------------------------------------------------------------
(* The configuration.                                                        *)

Enable ==
  /\ agent = 0
  /\ agents' = agents + 1 /\ agent' = agents'
  /\ registered' \in BOOLEAN
  /\ UNCHANGED <<request, events>>

Disable ==
  /\ agent # 0 /\ Happens
  /\ agent' = 0 /\ registered' = FALSE
  /\ request' = [r \in Requests |-> Stopped(request[r])]
  /\ UNCHANGED agents

agentVars == <<agent, agents, registered>>

-----------------------------------------------------------------------------
(* polkit.                                                                   *)

\* auth_started turns a request down that no shell can hear of.
Refused(serving) == ~serving \/ Cardinality(Pending) >= MaxPending

Started(q, serving, listening) ==
  IF Refused(serving) THEN Finish(q, "cancelled")
  ELSE [q EXCEPT !.pending = TRUE, !.timer = "unclaimed",
                 !.told = <<"requested">>, !.recipients = listening]

Comes(r) == request[r].at = "new" /\ \A s \in 1 .. r - 1 : request[s].at # "new"

\* listener_initiate_authentication, whether a worker serves and whoever is subscribed.
Initiate(r) ==
  /\ registered /\ Comes(r)
  /\ \E serving \in BOOLEAN, listening \in SUBSET Clients :
       Becomes(r, Started([request[r] EXCEPT !.at = "open", !.by = agent],
                          serving, listening))
  /\ UNCHANGED <<agentVars, events>>

\* A request that names nobody who could authenticate.
InitiateNobody(r) ==
  /\ registered /\ Comes(r)
  /\ Becomes(r, [request[r] EXCEPT !.at = "over", !.answers = <<"failed">>])
  /\ UNCHANGED <<agentVars, events>>

\* on_cancellable_cancelled, in any thread, and the idle it leaves to the main one.
PolkitCancels(r) ==
  /\ request[r].at = "open" /\ ~request[r].idle /\ Happens
  /\ Becomes(r, [request[r] EXCEPT !.idle = TRUE])
  /\ UNCHANGED agentVars

CancelIdle(r) ==
  /\ request[r].idle
  /\ Becomes(r, [Finish(request[r], "cancelled") EXCEPT !.idle = FALSE])
  /\ UNCHANGED <<agentVars, events>>

-----------------------------------------------------------------------------
(* The helper that checks the password.                                      *)

\* auth_prompt: a prompt of a request without an entry cancels it.
Prompted(q) == IF q.pending THEN [q EXCEPT !.timer = "answer"] ELSE Finish(q, "cancelled")

SessionRequest(r) ==
  /\ request[r].session /\ Happens
  /\ Becomes(r, Prompted([request[r] EXCEPT !.waiting = TRUE, !.unanswered = @ + 1]))
  /\ UNCHANGED agentVars

SessionCompleted(r) ==
  /\ request[r].session
  /\ \E gained \in BOOLEAN :
       Becomes(r, Finish([request[r] EXCEPT !.gained = gained],
                         IF gained THEN "authorized" ELSE "denied"))
  /\ UNCHANGED <<agentVars, events>>

-----------------------------------------------------------------------------
(* gnoblin_control_auth_operation, of an entry of the table.                 *)

MayAnswer(c, q) == c = Lua \/ c \in q.recipients
Reaches(c, r) == request[r].pending /\ MayAnswer(c, request[r])
\* A claim does not give the user more time.
HandledShort(q) == q

Handled(q) == [q EXCEPT !.timer = "answer"]

Begin(c, r) ==
  /\ Reaches(c, r) /\ ~request[r].begun
  /\ Becomes(r, Handled([request[r] EXCEPT !.begun = TRUE, !.session = TRUE]))
  /\ UNCHANGED <<agentVars, events>>
\* A helper takes an answer to no prompt.
AwaitsAny(q) == q.session

Awaits(q) == q.session /\ q.waiting

Respond(c, r) ==
  /\ Reaches(c, r) /\ Awaits(request[r])
  /\ Becomes(r, Handled([request[r] EXCEPT !.waiting = FALSE, !.unanswered = @ - 1]))
  /\ UNCHANGED <<agentVars, events>>

Cancel(c, r) ==
  /\ Reaches(c, r)
  /\ Becomes(r, Finish(request[r], "cancelled"))
  /\ UNCHANGED <<agentVars, events>>

\* pending_auth_timeout
Timeout(r) ==
  /\ request[r].timer # "none"
  /\ Becomes(r, Remove([request[r] EXCEPT !.timer = "none"]))
  /\ UNCHANGED <<agentVars, events>>

Next ==
  \/ Enable \/ Disable
  \/ \E r \in Requests :
       \/ Initiate(r) \/ InitiateNobody(r) \/ PolkitCancels(r) \/ CancelIdle(r)
       \/ SessionRequest(r) \/ SessionCompleted(r) \/ Timeout(r)
       \/ \E c \in Clients \union {Lua} : Begin(c, r) \/ Respond(c, r) \/ Cancel(c, r)

Spec == Init /\ [][Next]_vars

-----------------------------------------------------------------------------
(* Properties.                                                               *)

TypeOK ==
  /\ agent \in 0 .. agents /\ registered \in BOOLEAN
  /\ \A r \in Requests : /\ request[r].timer \in Timers
                         /\ request[r].at \in {"new", "open", "over"}

\* polkit is left waiting by no request: one that is open has an entry of the running agent
\* and a timer that will end it, the long one once a shell has claimed it.
NothingHangs ==
  \A r \in Requests : request[r].at = "open" =>
    /\ request[r].pending /\ request[r].by = agent
    /\ request[r].timer = (IF request[r].begun THEN "answer" ELSE "unclaimed")

\* An entry, and a helper, belong to a request that is open.
NothingOutlives ==
  \A r \in Requests : request[r].pending \/ request[r].session => request[r].at = "open"

\* The shells hear `authorized' only of what the helper granted, and a helper gets no more
\* answers than it asked for.
GrantedByTheHelper ==
  \A r \in Requests : LET q == request[r] IN
    /\ (\E i \in DOMAIN q.told : q.told[i] = "authorized") => q.gained
    /\ q.unanswered >= 0

\* The table is bounded.
TableBounded == Cardinality(Pending) <= MaxPending

\* All of these.
AuthSound == TypeOK /\ NothingHangs /\ NothingOutlives /\ GrantedByTheHelper /\ TableBounded

\* The inductive invariant: a request was not asked yet, waits for a shell, or has ended; what
\* was heard of it goes with it.
RequestRecords ==
  [at : {"new", "open", "over"}, by : Nat, pending : BOOLEAN, timer : Timers,
   recipients : SUBSET Clients, begun : BOOLEAN, session : BOOLEAN, waiting : BOOLEAN,
   unanswered : Int, gained : BOOLEAN, idle : BOOLEAN,
   answers : {<<>>, <<"failed">>, <<"cancelled">>, <<"given">>},
   told : {<<>>, <<"requested">>, <<"requested", "authorized">>, <<"requested", "denied">>,
           <<"requested", "cancelled">>}]

Waits(q) ==
  /\ q.pending /\ q.timer = (IF q.begun THEN "answer" ELSE "unclaimed")
  /\ q.session => q.begun
  /\ q.unanswered >= (IF q.waiting THEN 1 ELSE 0)
  /\ q.answers = <<>> /\ q.told = <<"requested">>

Ended(q) ==
  /\ ~q.pending /\ ~q.session /\ q.timer = "none" /\ q.unanswered = 0
  /\ q.answers # <<>> /\ q.told # <<"requested">>
  /\ q.told = <<"requested", "authorized">> => q.gained

RequestRight(q) ==
  /\ q.at = "new" => q = NewRequest
  /\ q.at = "open" => Waits(q)
  /\ q.at = "over" => Ended(q)

IInv ==
  /\ agents \in Nat /\ agent \in 0 .. agents /\ registered \in BOOLEAN
  /\ registered => agent # 0
  /\ request \in [Requests -> RequestRecords]
  /\ \A r \in Requests : RequestRight(request[r])
  /\ \A r \in Requests : request[r].at = "open" => request[r].by = agent
  /\ agent = 0 => \A r \in Requests : request[r].at # "open"
  /\ TableBounded
=============================================================================
