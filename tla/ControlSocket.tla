---------------------------- MODULE ControlSocket ----------------------------
(***************************************************************************)
(* The control socket (control/gnoblin-control-wire.c, -connection.c,      *)
(* -signals.c, -queue.c, -requests.c and -runtime-channel.c): connections  *)
(* with one read and one write in flight, requests answered at once or by  *)
(* the Lua worker, a limit on what waits to be written, and the UI         *)
(* sessions that connections own and watch.                                *)
(*                                                                         *)
(* A connection ends by end of file, a failed write, a last answer after a *)
(* malformed request, or too much output, which may happen inside a        *)
(* broadcast that another connection's end began; it is freed when nothing *)
(* refers to it.  Handlers call each other, so the state is a record and   *)
(* an operator takes the record a function finds and gives the one it      *)
(* leaves.  A message is counted, not measured: one fits, and MaxPending   *)
(* of them; a Huge one alone is over the limit.  Broadcasts follow the     *)
(* order of a hash table, here one order CHOOSE picks.                     *)
(***************************************************************************)
EXTENDS Naturals, Sequences, FiniteSets, FiniteSetsExt, SequencesExt

CONSTANTS Clients,      \* connections, each made once
          Names,        \* names of UI sessions
          Values,       \* states a UI session may publish, positive numbers
          Requests,     \* the requests each client sends
          MaxTalk,      \* bound: requests of one client
          MaxPending,   \* MAX_PENDING_BYTES, in messages
          MaxWorld      \* bound: suspensions and published events

NoValue == 0
Huge == MaxPending + 1

SocketAssumption ==
  /\ Values \subseteq Nat \ {NoValue} /\ MaxTalk \in Nat /\ MaxPending \in Nat \ {0}
  /\ MaxWorld \in Nat
  /\ \A c \in Clients :
       Requests[c] \subseteq [op : {"ping", "bad", "api", "watch", "events", "command"}]
                             \cup [op : {"state"}, name : Names, value : Values]

(* s.client      per connection, its Client, what its peer sent and read     *)
(* s.sessions    ui_sessions, NoSession where a name is free                 *)
(* s.pending     pending_runtime_requests, by the client that waits          *)
(* s.suspended   runtime_worker_suspended                                    *)
(* s.stopping    the runtime channel is given up                             *)
(* s.stopped     gnoblin_native_control_stop has run                         *)
(* s.touched     a freed Client was used                                     *)
(* s.world       suspensions and events so far                               *)
VARIABLE s

NoSession == [owner |-> "none", value |-> NoValue]

(* last   close_after_response       out     cur and outgoing, oldest first  *)
(* sent   by the peer, not read yet  known   the states the peer has read    *)
(* taken, replied   requests handled, and answers given to them              *)
NewClient == [status |-> "new", reading |-> FALSE, writing |-> FALSE, last |-> FALSE,
              out |-> <<>>, buffer |-> <<>>, deferred |-> 0, watch |-> FALSE, events |-> FALSE,
              sent |-> <<>>, asked |-> 0, gone |-> FALSE, known |-> [n \in Names |-> NoValue],
              taken |-> 0, replied |-> 0]

Message(kind, size) == [kind |-> kind, size |-> size]
StateMessage(n, v) == [kind |-> "state", size |-> 1, name |-> n, value |-> v]

Is(x, c, status) == x.client[c].status = status
Load(q) == FoldSeq(LAMBDA m, total : m.size + total, 0, q)
Ordered(set) == SetToSeq(set)
Open(x) == {c \in Clients : Is(x, c, "open")}
Owned(x, c) == {n \in Names : x.sessions[n].owner = c}
Waiting(x, c) == Cardinality({p \in x.pending : p[1] = c})

-----------------------------------------------------------------------------
(* The end of a connection and what is sent meanwhile.                       *)

\* client_maybe_free
FreeEager(x, c) ==              \* mutant: does not wait for deferred answers
  IF Is(x, c, "closing") /\ ~x.client[c].reading /\ ~x.client[c].writing
  THEN [x EXCEPT !.client[c].status = "freed"] ELSE x
MaybeFree(x, c) ==
  IF /\ Is(x, c, "closing") /\ ~x.client[c].reading /\ ~x.client[c].writing
     /\ x.client[c].deferred = 0
  THEN [x EXCEPT !.client[c].status = "freed"]
  ELSE [x EXCEPT !.touched = @ \/ Is(x, c, "freed")]

\* What is left of a connection that closes: the read, the write and the answers it waits for.
Closing(me) ==
  [NewClient EXCEPT !.status = "closing", !.reading = me.reading, !.writing = me.writing,
                    !.deferred = me.deferred, !.out = IF me.writing THEN <<Head(me.out)>> ELSE <<>>]

RECURSIVE Send(_, _, _), Close(_, _)

\* native_ui_session_broadcast_state
Broadcast(x, n, v) ==
  IF x.stopping THEN x
  ELSE FoldLeft(LAMBDA y, c : IF Is(y, c, "open") /\ y.client[c].watch
                              THEN Send(y, c, StateMessage(n, v)) ELSE y,
                x, Ordered(Open(x)))

\* native_ui_sessions_client_disconnected
ReleaseSilent(x, c) ==          \* mutant: watchers are not told
  [x EXCEPT !.sessions = [n \in Names |-> IF n \in Owned(x, c) THEN NoSession ELSE @[n]]]
Release(x, c) ==
  FoldLeft(LAMBDA y, n : Broadcast([y EXCEPT !.sessions[n] = NoSession], n, NoValue),
           x, Ordered(Owned(x, c)))

\* client_close
Close(x, c) ==
  MaybeFree(IF Is(x, c, "open") THEN Release([x EXCEPT !.client[c] = Closing(@)], c) ELSE x, c)

\* send_response, write_next
Send(x, c, m) ==
  IF ~Is(x, c, "open") THEN [x EXCEPT !.touched = @ \/ Is(x, c, "freed")]
  ELSE IF Load(x.client[c].out) + m.size > MaxPending THEN Close(x, c)
  ELSE [x EXCEPT !.client[c].out = Append(@, m), !.client[c].writing = TRUE]

ReplyUnlimited(x, c, m) ==      \* mutant: an answer is queued whatever waits before it
  IF ~Is(x, c, "open") THEN x
  ELSE [x EXCEPT !.client[c].replied = @ + 1, !.client[c].out = Append(@, m),
                 !.client[c].writing = TRUE]
Reply(x, c, m) ==
  Send(IF Is(x, c, "open") THEN [x EXCEPT !.client[c].replied = @ + 1] ELSE x, c, m)

-----------------------------------------------------------------------------
(* Requests.                                                                 *)

Answer(size) == Message("reply", size)

\* queue_runtime_api_request_internal
QueueLeaks(x, c, ok) ==         \* mutant: a request that was not queued stays counted
  IF x.suspended THEN Reply(x, c, Answer(1))
  ELSE LET y == [x EXCEPT !.client[c].deferred = @ + 1]
       IN  IF ok THEN [y EXCEPT !.pending = @ \cup {<<c, x.client[c].taken>>}]
           ELSE Reply(y, c, Answer(1))
Queue(x, c, ok) ==
  IF x.suspended THEN Reply(x, c, Answer(1))
  ELSE IF ok THEN [x EXCEPT !.client[c].deferred = @ + 1,
                            !.pending = @ \cup {<<c, x.client[c].taken>>}]
  ELSE Reply(MaybeFree(x, c), c, Answer(1))

\* ui-session watch: the first one is told every state.
Watch(x, c) ==
  IF x.client[c].watch THEN x
  ELSE FoldLeft(LAMBDA y, n : IF Is(y, c, "open")
                              THEN Send(y, c, StateMessage(n, x.sessions[n].value)) ELSE y,
                [x EXCEPT !.client[c].watch = TRUE],
                Ordered({n \in Names : x.sessions[n] # NoSession}))

\* ui-session state: a name has one owner.
PublishSteals(x, c, n, v) ==    \* mutant: anyone may publish a name
  IF ~x.client[c].watch THEN x
  ELSE Broadcast([x EXCEPT !.sessions[n] = [owner |-> c, value |-> v]], n, v)
Publish(x, c, n, v) ==
  IF ~x.client[c].watch \/ x.sessions[n].owner \notin {"none", c} THEN x
  ELSE Broadcast([x EXCEPT !.sessions[n] = [owner |-> c, value |-> v]], n, v)

\* ui-session command
Command(x, c) ==
  IF ~x.client[c].watch THEN x
  ELSE FoldLeft(LAMBDA y, t : IF Is(y, t, "open") /\ y.client[t].watch
                              THEN Send(y, t, Message("command", 1)) ELSE y,
                x, Ordered(Open(x)))

\* handle_request, and the answer process_buffer sends with it
Handle(x, c, r, ok) ==
  CASE r.op = "bad"  -> Reply([x EXCEPT !.client[c].last = TRUE], c, Answer(1))
    [] r.op = "ping" \/ (r.op # "bad" /\ x.stopping) -> Reply(x, c, Answer(1))
    [] r.op = "api" /\ ~x.stopping    -> Queue(x, c, ok)
    [] r.op = "watch" /\ ~x.stopping  -> Reply(Watch(x, c), c, Answer(1))
    [] r.op = "events" /\ ~x.stopping -> Reply([x EXCEPT !.client[c].events = TRUE], c, Answer(1))
    [] r.op = "state" /\ ~x.stopping  -> Reply(Publish(x, c, r.name, r.value), c, Answer(1))
    [] r.op = "command" /\ ~x.stopping -> Reply(Command(x, c), c, Answer(1))

\* process_buffer
ProcessErases(x, c, ok) ==      \* mutant: the lines after the first are erased with it
  LET me == x.client[c]
  IN  IF me.status # "open" \/ me.writing THEN x
      ELSE IF me.buffer # <<>>
      THEN Handle([x EXCEPT !.client[c].buffer = <<>>, !.client[c].taken = @ + 1],
                  c, Head(me.buffer), ok)
      ELSE [x EXCEPT !.client[c].reading = TRUE]
Process(x, c, ok) ==
  LET me == x.client[c]
      r == Head(me.buffer)
  IN  IF me.status # "open" \/ me.writing THEN [x EXCEPT !.touched = @ \/ me.status = "freed"]
      ELSE IF me.buffer # <<>>
      THEN Handle([x EXCEPT !.client[c].buffer = Tail(@), !.client[c].taken = @ + 1], c, r, ok)
      ELSE [x EXCEPT !.client[c].reading = TRUE]

-----------------------------------------------------------------------------
(* The main loop.                                                            *)

Connect(c) ==
  /\ Is(s, c, "new") /\ ~s.stopped
  /\ s' = Send([s EXCEPT !.client[c].status = "open"], c, Message("hello", 1))

PeerSends(c, r) ==
  /\ Is(s, c, "open") /\ ~s.client[c].gone /\ s.client[c].asked < MaxTalk
  /\ s' = [s EXCEPT !.client[c].sent = Append(@, r), !.client[c].asked = @ + 1]

PeerCloses(c) ==
  /\ Is(s, c, "open") /\ ~s.client[c].gone /\ s' = [s EXCEPT !.client[c].gone = TRUE]

\* read_done: the lines there are, the end of the stream, or the end of a connection closed meanwhile.
ReadDone(c) ==
  LET me == s.client[c]
      x == [s EXCEPT !.client[c].reading = FALSE]
  IN  /\ me.reading
      /\ IF ~Is(s, c, "open") \/ (me.sent = <<>> /\ me.gone) THEN s' = Close(x, c)
         ELSE /\ me.sent # <<>>
              /\ \E ok \in BOOLEAN : s' = Process([x EXCEPT !.client[c].buffer = @ \o me.sent,
                                                            !.client[c].sent = <<>>], c, ok)

\* What the peer reads of it.
Read(me, m) == IF m.kind = "state" THEN [me EXCEPT !.known[m.name] = m.value] ELSE me

\* write_done: the next message, then the next request.
WriteForgets(x, c, ok) ==       \* mutant: only messages follow a write
  IF x.client[c].out # <<>> THEN [x EXCEPT !.client[c].writing = TRUE] ELSE x
AfterWrite(x, c, ok) ==
  IF x.client[c].out # <<>> THEN [x EXCEPT !.client[c].writing = TRUE] ELSE Process(x, c, ok)

WriteDone(c) ==
  LET me == s.client[c]
      x == [s EXCEPT !.client[c] = [(IF me.gone THEN me ELSE Read(me, Head(me.out)))
                                      EXCEPT !.out = Tail(@), !.writing = FALSE]]
  IN  /\ me.writing
      /\ \/ /\ ~Is(s, c, "open") \/ me.gone \/ (me.last /\ Len(me.out) = 1)
            /\ s' = Close(x, c)
         \/ /\ Is(s, c, "open") /\ ~(me.last /\ Len(me.out) = 1)
            /\ \E ok \in BOOLEAN : s' = AfterWrite(x, c, ok)

\* An answer that is due: sent if the connection is open, and counted in any case.
DueSilent(x, c, size) ==        \* mutant: counted, not sent
  LET z == [x EXCEPT !.client[c].deferred = @ - 1]
  IN  MaybeFree(IF Is(x, c, "open") THEN Process(z, c, TRUE) ELSE z, c)
Due(x, c, size) ==
  LET y == IF Is(x, c, "open") THEN Reply(x, c, Answer(size)) ELSE x
      z == [y EXCEPT !.client[c].deferred = @ - 1]
  IN  MaybeFree(IF Is(x, c, "open") THEN Process(z, c, TRUE) ELSE z, c)

\* API_RESPONSE
WorkerAnswers(p) ==
  /\ p \in s.pending /\ ~s.suspended /\ ~s.stopping
  /\ \E size \in {1, Huge} : s' = Due([s EXCEPT !.pending = @ \ {p}], p[1], size)

\* native_runtime_fail_pending_requests
FailPending(x) ==
  FoldLeft(LAMBDA y, p : Due(y, p[1], 1), [x EXCEPT !.pending = {}], Ordered(x.pending))

World == s.world < MaxWorld /\ ~s.stopping
Step(x) == [x EXCEPT !.world = @ + 1]

\* native_runtime_suspend_worker, and its end
Suspend == World /\ ~s.suspended /\ s' = FailPending([Step(s) EXCEPT !.suspended = TRUE])
Resume == s.suspended /\ ~s.stopping /\ s' = [s EXCEPT !.suspended = FALSE]

\* native_runtime_abort
Abort == ~s.stopping /\ s' = FailPending([s EXCEPT !.stopping = TRUE])

\* publish_windows: a snapshot, perhaps a huge one, to every subscriber
PublishSnapshot ==
  /\ World
  /\ \E size \in {1, Huge} :
       s' = FoldLeft(LAMBDA y, c : IF y.client[c].events THEN Send(y, c, Message("event", size)) ELSE y,
                     Step(s), Ordered(Open(s)))

\* gnoblin_native_control_stop: no connection belongs to the control any more.
Unowned(x, c) == MaybeFree([x EXCEPT !.client[c] = Closing(@)], c)
Stop ==
  /\ ~s.stopped
  /\ LET x == FailPending([s EXCEPT !.stopping = TRUE, !.stopped = TRUE])
     IN  s' = [FoldLeft(Unowned, x, Ordered(Open(x))) EXCEPT !.sessions = [n \in Names |-> NoSession]]

-----------------------------------------------------------------------------
Init == s = [client |-> [c \in Clients |-> NewClient], sessions |-> [n \in Names |-> NoSession],
             pending |-> {}, suspended |-> FALSE, stopping |-> FALSE, stopped |-> FALSE,
             touched |-> FALSE, world |-> 0]

ClientStep(c) == \/ Connect(c) \/ PeerCloses(c) \/ ReadDone(c) \/ WriteDone(c)
                 \/ \E r \in Requests[c] : PeerSends(c, r)

Tickets == Clients \X (1..MaxTalk)

Next == \/ \E c \in Clients : ClientStep(c)
        \/ \E p \in s.pending : WorkerAnswers(p)
        \/ Suspend \/ Resume \/ Abort \/ PublishSnapshot \/ Stop

Spec == Init /\ [][Next]_s

-----------------------------------------------------------------------------
(* Properties.                                                               *)

\* Every field keeps its type; what waits to be written keeps its limit.
TypeOK ==
  /\ \A c \in Clients :
       LET me == s.client[c]
       IN  /\ me.status \in {"new", "open", "closing", "freed"}
           /\ me.reading \in BOOLEAN /\ me.writing \in BOOLEAN /\ me.last \in BOOLEAN
           /\ me.deferred \in 0..MaxTalk /\ Load(me.out) <= MaxPending
           /\ me.taken <= me.asked /\ me.asked <= MaxTalk
           /\ me.writing => me.out # <<>>
  /\ s.sessions \in [Names -> [owner : Clients \cup {"none"}, value : Values \cup {NoValue}]]
  /\ s.pending \subseteq Tickets

\* No path touches a freed connection: not the rest of a broadcast that closed it, nor an
\* answer the worker still owes, nor a read or a write in flight.
NothingAfterFree ==
  /\ ~s.touched
  /\ \A c \in Clients : Is(s, c, "freed") => ~s.client[c].reading /\ ~s.client[c].writing
                                              /\ Waiting(s, c) = 0 /\ Owned(s, c) = {}

\* pending_deferred_requests is the number of requests that wait for the worker.
DeferredCounted == \A c \in Clients : s.client[c].deferred = Waiting(s, c)

\* Between two events an open connection reads, writes or waits for the worker: nothing else
\* wakes it, and it is what keeps a broadcast from freeing the connection it goes on to.
NobodyAsleep ==
  \A c \in Open(s) : s.client[c].reading \/ s.client[c].writing \/ s.client[c].deferred > 0

\* Each request of an open connection has one answer or one that is owed.
AnsweredOnce ==
  \A c \in Open(s) : s.client[c].taken = s.client[c].replied + s.client[c].deferred

\* What a watcher has read and will read of a name ends with its present state.
Told(c, n) ==
  LET about == SelectSeq(s.client[c].out, LAMBDA m : m.kind = "state" /\ m.name = n)
  IN  IF about = <<>> THEN s.client[c].known[n] ELSE Last(about).value

WatchersInformed ==
  ~s.stopping => \A c \in Open(s), n \in Names :
                   s.client[c].watch /\ ~s.client[c].gone => Told(c, n) = s.sessions[n].value

\* docs/bridge/session-and-windows.md: "Other connections cannot replace its state": while its
\* owner is connected a name has that owner, and a name that is free or taken over changed hands
\* through its owner's end.
OneOwner ==
  [][\A n \in Names : LET owner == s.sessions[n].owner
                      IN  owner # "none" /\ s'.sessions[n].owner # owner => ~Is(s', owner, "open")]_s

\* When the main loop has nothing left to do everyone is served: what a peer that is still there
\* asked is answered, the names of one that has gone are released, an ended connection is freed.
\* Every read, write and answer that completes is used up, so between two things the peers do
\* the loop comes to rest; nothing would wake what it forgets.
AtRest ==
  /\ ~s.suspended \/ s.stopping
  /\ \A c \in Clients :
       LET me == s.client[c]
       IN  /\ ~me.writing
           /\ me.reading => me.status = "open" /\ me.sent = <<>> /\ ~me.gone
           /\ me.status = "freed" \/ me.deferred = 0

Served(c) ==
  LET me == s.client[c]
  IN  /\ me.status # "closing"
      /\ me.status = "open" => IF me.gone THEN Owned(s, c) = {} ELSE me.replied = me.asked

ServedAtRest == AtRest => \A c \in Clients : Served(c)
=============================================================================
