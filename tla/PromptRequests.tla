--------------------------- MODULE PromptRequests ---------------------------
(***************************************************************************)
(* The prompt broker (agents/gnoblin-control-prompts.c): keyring and SSH   *)
(* prompts that wait for a shell, the password they carry, and the two     *)
(* D-Bus names that make the compositor the system's prompter.             *)
(*                                                                         *)
(* A broker is shared by the callbacks it waits for: it may be replaced    *)
(* while they are on their way.  One prompt object asks one thing at a     *)
(* time, which the prompter sees to.                                       *)
(***************************************************************************)
EXTENDS Naturals, Sequences, FiniteSets

CONSTANTS
  MaxRequests,  \* bound of the model: what prompts ask, numbered by request_id
  Prompts,      \* prompt objects
  Clients,      \* of the control socket
  MaxPending,   \* MAX_PENDING_PROMPTS
  MaxBrokers,   \* bound of the model: brokers that ever start
  MaxEvents     \* bound of the model

VARIABLES
  broker,       \* control->prompt_broker, 0 for none
  brokers,      \* every broker there has been
  told,         \* the availability last published
  request,
  password,     \* of each prompt object: the request it answers, or 0
  events

vars == <<broker, brokers, told, request, password, events>>

PromptAssumption == MaxRequests \in Nat /\ MaxPending \in Nat \ {0} /\ MaxBrokers \in Nat /\ MaxEvents \in Nat

Requests == 1 .. MaxRequests
Lua == "lua"
Names == {"system", "private"}

NewRequest ==
  [prompt |-> "", pending |-> FALSE, timer |-> FALSE, watched |-> FALSE, recipients |-> {},
   answers |-> <<>>, told |-> <<>>]

Init ==
  /\ broker = 0 /\ brokers = <<>> /\ told = FALSE
  /\ request = [r \in Requests |-> NewRequest]
  /\ password = [p \in Prompts |-> 0]
  /\ events = 0

Happens == events < MaxEvents /\ events' = events + 1
Pending == {r \in Requests : request[r].pending}

-----------------------------------------------------------------------------
(* The end of a request.                                                     *)

\* The entry that answered answers again when it is freed.
AnsweredAgain(q, answer) == [q EXCEPT !.answers = Append(@, answer)]

\* g_task_return; the entry that answered has no task any more.
Answered(q, answer) == IF q.answers = <<>> THEN [q EXCEPT !.answers = <<answer>>] ELSE q

\* pending_prompt_end and pending_prompt_free
End(q, result) ==
  IF q.pending
    THEN [Answered(q, "cancelled") EXCEPT
            !.pending = FALSE, !.timer = FALSE, !.watched = FALSE, !.recipients = {},
            !.told = Append(@, result)]
    ELSE q

EndAll == request' = [r \in Requests |-> End(request[r], "cancelled")]
EndOne(r, result) == request' = [request EXCEPT ![r] = End(@, result)]

-----------------------------------------------------------------------------
(* The broker: two references, of the control and of g_bus_get, and one for  *)
(* each name.                                                                *)

Owned(b) == Cardinality({n \in Names : brokers[b].name[n] = "owned"})
Available(b, all) == b # 0 /\ all[b].owned = 2

NewBroker == [refs |-> 2, bus |-> "asked", name |-> [n \in Names |-> "none"], closed |-> FALSE,
              owned |-> 0, stopped |-> FALSE]

\* prompts_publish_capability_changed
Publish == told' = Available(broker', brokers')

\* prompts_start
Enable ==
  /\ broker = 0 /\ Len(brokers) < MaxBrokers
  /\ brokers' = Append(brokers, NewBroker) /\ broker' = Len(brokers')
  /\ Publish
  /\ UNCHANGED <<request, password, events>>

\* Names that were asked for are given back; g_bus_unown_name frees their reference later.
Unowned(name) == [n \in Names |-> IF name[n] \in {"asked", "owned", "lost"} THEN "left" ELSE name[n]]
\* The control's reference stays.
ShutdownKeeps(b) == [b EXCEPT !.stopped = TRUE, !.name = Unowned(@)]

Shutdown(b) ==
  [b EXCEPT !.stopped = TRUE, !.name = Unowned(@), !.refs = @ - 1]

Disable ==
  /\ broker # 0
  /\ brokers' = [brokers EXCEPT ![broker] = Shutdown(@)]
  /\ broker' = 0
  /\ EndAll
  /\ Publish
  /\ UNCHANGED <<password, events>>

\* broker_bus_ready: also after a stop, which cancelled the call.
Readied(b, connected) ==
  IF b.stopped \/ ~connected
    THEN [b EXCEPT !.bus = "failed", !.refs = @ - 1]
    ELSE [b EXCEPT !.bus = "ready", !.name = [n \in Names |-> "asked"], !.refs = @ + 2 - 1]

BusReady(i) ==
  /\ brokers[i].bus = "asked"
  /\ \E connected \in BOOLEAN : brokers' = [brokers EXCEPT ![i] = Readied(@, connected)]
  /\ UNCHANGED <<broker, told, request, password, events>>

\* broker_name_acquired
NameAcquired(i, n) ==
  /\ brokers[i].name[n] = "asked" /\ ~brokers[i].closed
  /\ brokers' = [brokers EXCEPT ![i].name[n] = "owned", ![i].owned = @ + 1]
  /\ UNCHANGED <<broker, request, password, events>>
  /\ IF brokers'[i].owned = 2 THEN Publish ELSE UNCHANGED told

\* A name that is lost still counts.
LostKeeps(b, n) == [b EXCEPT !.name[n] = "lost"]

\* broker_name_lost counts down only what was available.
Lost(b, n) ==
  [b EXCEPT !.name[n] = "lost", !.owned = IF @ = 2 THEN @ - 1 ELSE @]

NameLost(i, n) ==
  /\ brokers[i].name[n] = "asked" \/ (brokers[i].name[n] = "owned" /\ brokers[i].closed)
  /\ brokers' = [brokers EXCEPT ![i] = Lost(@, n)]
  /\ UNCHANGED <<broker, request, password, events>>
  /\ IF brokers[i].owned = 2 THEN Publish ELSE UNCHANGED told

\* The bus goes away: a name it gave is lost, none is given.
Closes(i) ==
  /\ brokers[i].bus = "ready" /\ ~brokers[i].closed /\ ~brokers[i].stopped /\ Happens
  /\ brokers' = [brokers EXCEPT ![i].closed = TRUE]
  /\ UNCHANGED <<broker, told, request, password>>

\* broker_name_user_data_free
NameFreed(i, n) ==
  /\ brokers[i].name[n] = "left"
  /\ brokers' = [brokers EXCEPT ![i].name[n] = "freed", ![i].refs = @ - 1]
  /\ UNCHANGED <<broker, told, request, password, events>>

brokerVars == <<broker, brokers, told>>

-----------------------------------------------------------------------------
(* The prompter.                                                             *)

Asks(p) == {r \in Pending : request[r].prompt = p}

\* The conditions under which prompt_start answers at once.
Refused(serving, cancelled) ==
  broker = 0 \/ ~serving \/ Cardinality(Pending) >= MaxPending \/ cancelled

Started(p, watched, listening) ==
  [NewRequest EXCEPT !.prompt = p, !.pending = TRUE, !.timer = TRUE, !.watched = watched,
                     !.recipients = listening, !.told = <<"requested">>]
\* The last password stays.
WipedNot(p) == UNCHANGED password

Wiped(p) == password' = [password EXCEPT ![p] = 0]

\* prompt_start, whether a worker serves and whoever is subscribed.
Start(r, p) ==
  /\ request[r] = NewRequest /\ \A s \in 1 .. r - 1 : request[s] # NewRequest
  /\ Asks(p) = {}
  /\ Wiped(p)
  /\ \E serving, watched, cancelled \in BOOLEAN, listening \in SUBSET Clients :
       /\ cancelled => watched
       /\ request' = [request EXCEPT ![r] =
            IF Refused(serving, cancelled)
              THEN Answered([NewRequest EXCEPT !.prompt = p], "cancelled")
              ELSE Started(p, watched, listening)]
  /\ UNCHANGED <<brokerVars, events>>

\* prompt_close
Close(p) ==
  /\ Happens
  /\ Wiped(p)
  /\ request' = [r \in Requests |->
                   IF broker # 0 /\ r \in Asks(p) THEN End(request[r], "cancelled") ELSE request[r]]
  /\ UNCHANGED brokerVars

\* pending_prompt_cancelled
PromptCancelled(r) ==
  /\ request[r].watched
  /\ EndOne(r, "cancelled")
  /\ UNCHANGED <<brokerVars, password, events>>

\* pending_prompt_timeout
Timeout(r) ==
  /\ request[r].timer
  /\ EndOne(r, "timeout")
  /\ UNCHANGED <<brokerVars, password, events>>

-----------------------------------------------------------------------------
(* gnoblin_control_prompts_operation                                         *)

Reaches(c, r) == request[r].pending /\ (c = Lua \/ c \in request[r].recipients)

\* The password is in place before the prompter hears that there is one.
Responded(q) == End(Answered(q, "given"), "answered")

Respond(c, r) ==
  /\ Reaches(c, r)
  /\ password' = [password EXCEPT ![request[r].prompt] = r]
  /\ request' = [request EXCEPT ![r] = Responded(@)]
  /\ UNCHANGED <<brokerVars, events>>

Cancel(c, r) ==
  /\ Reaches(c, r)
  /\ request' = [request EXCEPT ![r] = End(@, "cancelled")]
  /\ UNCHANGED <<brokerVars, password, events>>

Next ==
  \/ Enable \/ Disable
  \/ \E i \in DOMAIN brokers :
       \/ BusReady(i) \/ Closes(i)
       \/ \E n \in Names : NameAcquired(i, n) \/ NameLost(i, n) \/ NameFreed(i, n)
  \/ \E p \in Prompts : Close(p) \/ \E r \in Requests : Start(r, p)
  \/ \E r \in Requests :
       \/ PromptCancelled(r) \/ Timeout(r)
       \/ \E c \in Clients \union {Lua} : Respond(c, r) \/ Cancel(c, r)

Spec == Init /\ [][Next]_vars

-----------------------------------------------------------------------------
(* Properties.                                                               *)

TypeOK ==
  /\ broker \in 0 .. Len(brokers) /\ told \in BOOLEAN
  /\ \A i \in DOMAIN brokers : brokers[i].refs \in Nat
  /\ \A p \in Prompts : password[p] \in Requests \union {0}

\* The prompter is left waiting by no request, and a broker that stopped leaves none.
NothingHangs ==
  /\ \A r \in Requests : request[r].told = <<"requested">> => request[r].timer
  /\ broker = 0 => Pending = {}
  /\ Cardinality(Pending) <= MaxPending

\* A prompt holds a password only of the answer it just got: never while it asks again.
SecretsWiped ==
  \A p \in Prompts : password[p] # 0 =>
    /\ Asks(p) = {}
    /\ request[password[p]].prompt = p /\ request[password[p]].answers = <<"given">>

\* What a broker still waits for keeps it alive, and nothing else does once it stopped.
Waits(b) ==
  (IF b.bus = "asked" THEN 1 ELSE 0)
  + Cardinality({n \in Names : b.name[n] \in {"asked", "owned", "lost", "left"}})

BrokersCounted ==
  \A i \in DOMAIN brokers :
    brokers[i].refs = Waits(brokers[i]) + (IF i = broker THEN 1 ELSE 0)

\* The prompter is called available while the running broker owns both names.
AvailableAsTold == told = (broker # 0 /\ Owned(broker) = 2)

\* All of these.
PromptsSound ==
  TypeOK /\ NothingHangs /\ SecretsWiped /\ BrokersCounted /\ AvailableAsTold

\* The inductive invariant: a request was not asked yet, waits for a shell, or has ended; every
\* broker but the running one has stopped, and counts the names it owns until its bus closes.
RequestRecords ==
  [prompt : Prompts \union {""}, pending : BOOLEAN, timer : BOOLEAN, watched : BOOLEAN,
   recipients : SUBSET Clients,
   answers : {<<>>, <<"cancelled">>, <<"given">>},
   told : {<<>>, <<"requested">>, <<"requested", "answered">>, <<"requested", "cancelled">>,
           <<"requested", "timeout">>}]

BrokerRecords ==
  [refs : Nat, bus : {"asked", "ready", "failed"},
   name : [Names -> {"none", "asked", "owned", "lost", "left", "freed"}], closed : BOOLEAN,
   owned : 0 .. 2, stopped : BOOLEAN]

Unanswered(q) == /\ q.prompt \in Prompts /\ q.timer
                 /\ q.answers = <<>> /\ q.told = <<"requested">>

RequestRight(q) ==
  /\ q.pending => Unanswered(q)
  /\ ~q.pending => /\ ~q.timer /\ ~q.watched
                   /\ q # NewRequest => q.answers # <<>> /\ q.told # <<"requested">>

BrokerRight(b) ==
  /\ b.bus # "ready" => \A n \in Names : b.name[n] = "none"
  /\ b.stopped => \A n \in Names : b.name[n] \in {"none", "left", "freed"}
  /\ ~b.stopped => /\ b.bus = "ready" => \A n \in Names : b.name[n] \in {"asked", "owned", "lost"}
                   /\ b.owned = 2 <=> \A n \in Names : b.name[n] = "owned"
                   /\ ~b.closed => b.owned = Cardinality({n \in Names : b.name[n] = "owned"})

BrokersKept ==
  /\ brokers \in Seq(BrokerRecords) /\ broker \in 0 .. Len(brokers)
  /\ \A i \in DOMAIN brokers : BrokerRight(brokers[i]) /\ (brokers[i].stopped <=> i # broker)
  /\ BrokersCounted /\ AvailableAsTold

RequestsKept ==
  /\ request \in [Requests -> RequestRecords]
  /\ \A r \in Requests : RequestRight(request[r])
  /\ \A p \in Prompts : \A r, s \in Asks(p) : r = s
  /\ Cardinality(Pending) <= MaxPending
  /\ password \in [Prompts -> Requests \union {0}] /\ SecretsWiped

IInv == BrokersKept /\ RequestsKept /\ (broker = 0 => Pending = {})
=============================================================================
