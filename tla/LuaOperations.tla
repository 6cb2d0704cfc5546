--------------------------- MODULE LuaOperations ---------------------------
(***************************************************************************)
(* The Operation objects of one Lua runtime (config/lua/                   *)
(* gnoblin-lua-operation.c): what every asynchronous call returns, the     *)
(* callbacks that wait for it, timers, map, timeout, cancel, and the       *)
(* dispatches that run callbacks (gnoblin-lua-dispatch.c).                 *)
(*                                                                         *)
(* The compositor completes a call; the runtime itself completes the       *)
(* others.  A completion from the compositor runs its callbacks at once,   *)
(* any other queues them for an idle source.  A callback may start,        *)
(* cancel and subscribe again: a dispatch is therefore a sequence of steps *)
(* here, between which only the handler that runs may act.                 *)
(***************************************************************************)
EXTENDS Integers, Sequences, FiniteSets, SequencesExt

CONSTANTS
  MaxOps,       \* bound of the model: operations a runtime creates
  MaxSubs,      \* bound of the model: subscriptions
  MaxTimers     \* MAX_RUNTIME_TIMERS

VARIABLES
  op, sub,
  deferred,     \* config->deferred_callbacks
  scheduled,    \* config->deferred_callbacks_scheduled and the worker's idle source
  dispatch,     \* what runs: an event's handlers, the idle source or a rejection
  running,      \* the callbacks left of the loop that runs
  closing,      \* the operation whose completion runs them, 0 for none
  made,         \* config->runtime_actions: calls of this dispatch
  dropped,      \* those a rejection has yet to fail
  outstanding,  \* calls the compositor has
  reload        \* the compositor has a candidate configuration, or its runtime replaced this one

vars == <<op, sub, deferred, scheduled, dispatch, running, closing, made, dropped, outstanding,
          reload>>

OperationsAssumption == MaxOps \in Nat /\ MaxSubs \in Nat /\ MaxTimers \in Nat \ {0}

Ops == 1 .. MaxOps
Subs == 1 .. MaxSubs
Derived == {"map", "timeout"}

NewOp == [kind |-> "none", status |-> "none", source |-> 0, timer |-> FALSE, table |-> FALSE,
          subs |-> <<>>]
NewSub == [op |-> 0, to |-> 0, active |-> FALSE, runs |-> 0, left |-> FALSE, heard |-> "none"]

Init ==
  /\ op = [o \in Ops |-> NewOp] /\ sub = [s \in Subs |-> NewSub]
  /\ deferred = <<>> /\ scheduled = FALSE
  /\ dispatch = "none" /\ running = <<>> /\ closing = 0
  /\ made = {} /\ dropped = {} /\ outstanding = {} /\ reload = "none"

Known == {o \in Ops : op[o].kind # "none"}
Pending(o) == op[o].status = "pending"
FreeOp == CHOOSE o \in Ops : op[o].kind = "none" /\ \A p \in 1 .. (o - 1) : p \in Known
FreeSub == CHOOSE s \in Subs : sub[s].op = 0 /\ \A p \in 1 .. (s - 1) : sub[p].op # 0
MayCreate == Known # Ops
MaySubscribe == \E s \in Subs : sub[s].op = 0

\* What the handlers change: the two tables and the queue.
State == [op |-> op, sub |-> sub, queue |-> deferred]
\* schedule_deferred_callbacks
Becomes(st) ==
  /\ op' = st.op /\ sub' = st.sub /\ deferred' = st.queue
  /\ scheduled' = (scheduled \/ st.queue # <<>>)

-----------------------------------------------------------------------------
(* Subscriptions.                                                            *)

\* It leaves the list only: one that already waits in the queue is run.
UnsubscribeListed(st, s) ==
  [st EXCEPT !.sub[s].left = TRUE,
             !.op[st.sub[s].op].subs = SelectSeq(@, LAMBDA t : t # s)]

\* lua_operation_unsubscribe
Unsubscribe(st, s) ==
  IF ~st.sub[s].active THEN st
  ELSE [st EXCEPT !.sub[s].active = FALSE, !.sub[s].left = TRUE,
                  !.op[st.sub[s].op].subs = SelectSeq(@, LAMBDA t : t # s)]

\* Also with an operation that has ended.
SubscribeListed(st, s, o, to) ==
  [st EXCEPT !.sub[s] = [NewSub EXCEPT !.op = o, !.to = to, !.active = TRUE],
             !.op[o].subs = Append(@, s)]

\* lua_operation_on_complete and push_operation_subscription
Subscribe(st, s, o, to) ==
  LET made_ == [st EXCEPT !.sub[s] = [NewSub EXCEPT !.op = o, !.to = to, !.active = TRUE]]
  IN IF st.op[o].status = "pending" THEN [made_ EXCEPT !.op[o].subs = Append(@, s)]
     ELSE [made_ EXCEPT !.queue = Append(@, s)]

-----------------------------------------------------------------------------
(* The end of an operation in the runtime.                                   *)

\* The operation it was derived from is not told.
FinishAttached(st, o, status) ==
  [st EXCEPT !.op[o].timer = FALSE, !.op[o].table = FALSE, !.op[o].status = status,
             !.queue = @ \o st.op[o].subs, !.op[o].subs = <<>>]

\* The timer runs on.
FinishTicking(st, o, status) ==
  IF st.op[o].status # "pending" THEN st
  ELSE [st EXCEPT !.op[o].table = FALSE, !.op[o].status = status,
                  !.queue = @ \o st.op[o].subs, !.op[o].subs = <<>>]

\* finish_operation and queue_operation_callbacks
Finish(st, o, status) ==
  IF st.op[o].status # "pending" THEN st
  ELSE LET source == st.op[o].source
           detached == IF source = 0 THEN st ELSE Unsubscribe(st, source)
       IN [detached EXCEPT
             !.op[o].timer = FALSE, !.op[o].table = FALSE, !.op[o].status = status,
             !.queue = @ \o st.op[o].subs, !.op[o].subs = <<>>]

\* The subscription may run again.
RunActive(st, s) ==
  IF ~st.sub[s].active THEN st
  ELSE LET status == st.op[st.sub[s].op].status
           ran == [st EXCEPT !.sub[s].runs = @ + 1, !.sub[s].heard = status]
       IN IF st.sub[s].to = 0 THEN ran ELSE Finish(ran, st.sub[s].to, status)

\* One turn of a callback loop; lua_operation_forward finishes the derived operation.
Run(st, s) ==
  IF ~st.sub[s].active THEN st
  ELSE LET status == st.op[st.sub[s].op].status
           ran == [st EXCEPT !.sub[s].active = FALSE, !.sub[s].runs = @ + 1,
                             !.sub[s].heard = status]
       IN IF st.sub[s].to = 0 THEN ran ELSE Finish(ran, st.sub[s].to, status)

-----------------------------------------------------------------------------
(* What a handler may call while a dispatch is open.                         *)

Runtime == dispatch # "none"
Keeps == UNCHANGED <<dispatch, running, closing, dropped, outstanding, reload>>

\* A call of the compositor: lua_queue_operation and push_operation_handle.
Call ==
  /\ Runtime /\ dispatch # "rejecting" /\ MayCreate
  /\ LET o == FreeOp IN
     /\ op' = [op EXCEPT ![o] = [NewOp EXCEPT !.kind = "call", !.status = "pending",
                                              !.table = TRUE]]
     /\ made' = made \union {o}
  /\ UNCHANGED <<sub, deferred, scheduled>> /\ Keeps

Timers == {o \in Ops : op[o].timer}

\* start_timer: past the limit it throws, and the operation is never returned.
Armed == Cardinality(Timers) < MaxTimers

\* gnoblin.timers.after
TimersAfter ==
  /\ Runtime /\ MayCreate
  /\ op' = [op EXCEPT ![FreeOp] = [NewOp EXCEPT
              !.kind = IF Armed THEN "timer" ELSE "lost", !.status = "pending", !.timer = Armed]]
  /\ UNCHANGED <<sub, deferred, scheduled, made>> /\ Keeps

\* gnoblin.configure at run time: push_configure_operation.
Configure ==
  /\ Runtime /\ dispatch # "rejecting" /\ MayCreate
  /\ op' = [op EXCEPT ![FreeOp] = [NewOp EXCEPT !.kind = "configure", !.status = "pending"]]
  /\ UNCHANGED <<sub, deferred, scheduled, made>> /\ Keeps

\* Operation:map and Operation:timeout: push_derived_operation.
Derive(o, kind) ==
  /\ Runtime /\ MayCreate /\ MaySubscribe /\ op[o].kind \notin {"none", "lost"}
  /\ LET d == FreeOp
         s == FreeSub
         timed == kind = "timeout" /\ Armed
         new == [NewOp EXCEPT !.kind = kind, !.status = "pending", !.source = s, !.timer = timed]
     IN Becomes(Subscribe([State EXCEPT !.op[d] = new], s, o, d))
  /\ UNCHANGED made /\ Keeps

\* Operation:on_complete
OnComplete(o) ==
  /\ Runtime /\ MaySubscribe /\ op[o].kind \notin {"none", "lost"}
  /\ Becomes(Subscribe(State, FreeSub, o, 0))
  /\ UNCHANGED made /\ Keeps

\* subscription:unsubscribe, of a handler's own.
Leave(s) ==
  /\ Runtime /\ sub[s].op # 0 /\ sub[s].to = 0 /\ sub[s].active
  /\ Becomes(Unsubscribe(State, s))
  /\ UNCHANGED made /\ Keeps

\* Operation:cancel
Cancel(o) ==
  /\ Runtime /\ Pending(o) /\ op[o].kind # "lost"
  /\ Becomes(Finish(State, o, "failed"))
  /\ UNCHANGED made /\ Keeps

-----------------------------------------------------------------------------
(* What opens a dispatch, runs it and closes it.                             *)

\* An event; while a candidate is with the compositor they wait.
Event ==
  /\ dispatch = "none" /\ reload = "none"
  /\ dispatch' = "event"
  /\ UNCHANGED <<op, sub, deferred, scheduled, running, closing, made, dropped, outstanding,
                 reload>>

\* run_operation_callbacks: the list is the loop's from here.
Taken(st, o) == [st EXCEPT !.op[o].subs = <<>>]

\* gnoblin.operation.completed
Completed(o, status) ==
  /\ dispatch = "none" /\ reload # "gone" /\ o \in outstanding
  /\ outstanding' = outstanding \ {o} /\ dispatch' = "event"
  /\ IF op[o].table
     THEN /\ Becomes(Taken([State EXCEPT !.op[o].status = status], o))
          /\ running' = op[o].subs /\ closing' = o
     ELSE UNCHANGED <<op, sub, deferred, scheduled, running, closing>>
  /\ UNCHANGED <<made, dropped, reload>>

\* gnoblin_config_dispatch_deferred_callbacks
DispatchDeferred ==
  /\ dispatch = "none" /\ scheduled /\ reload # "gone"
  /\ scheduled' = FALSE
  /\ IF deferred = <<>> THEN UNCHANGED <<dispatch, running>>
     ELSE dispatch' = "deferred" /\ running' = deferred
  /\ deferred' = <<>>
  /\ UNCHANGED <<op, sub, closing, made, dropped, outstanding, reload>>

RunNext ==
  /\ running # <<>>
  /\ running' = Tail(running)
  /\ Becomes(Run(State, Head(running)))
  /\ UNCHANGED <<dispatch, closing, made, dropped, outstanding, reload>>

\* The entry of the completed operation leaves config->operations.
Closed(st) == IF closing = 0 THEN st ELSE [st EXCEPT !.op[closing].table = FALSE]

ConfigureOps(st) == {o \in Ops : st.op[o].kind = "configure" /\ st.op[o].status = "pending"}

\* The change of an idle callback is not reported.
SettleEvents(st, status) ==
  IF dispatch = "deferred" THEN st
  ELSE FoldLeft(LAMBDA acc, o : Finish(acc, o, status), st, SetToSortSeq(ConfigureOps(st), <))

\* finish_configure_operations
Settle(st, status) ==
  FoldLeft(LAMBDA acc, o : Finish(acc, o, status), st, SetToSortSeq(ConfigureOps(st), <))

\* A document the worker takes; or a handler threw and the document is undone: what the
\* handlers called is sent all the same.
EndDispatch(status) ==
  /\ dispatch \in {"event", "deferred"} /\ running = <<>>
  /\ status = "failed" => dispatch = "event"
  /\ Becomes(Settle(Closed(State), status))
  /\ dispatch' = "none" /\ closing' = 0
  /\ outstanding' = outstanding \union made /\ made' = {}
  /\ UNCHANGED <<running, dropped, reload>>

\* The document is not valid: the calls of this dispatch are taken back.
Reject ==
  /\ dispatch \in {"event", "deferred"} /\ running = <<>>
  /\ Becomes(Closed(State))
  /\ dispatch' = "rejecting" /\ closing' = 0
  /\ dropped' = made /\ made' = {}
  /\ UNCHANGED <<running, outstanding, reload>>

\* fail_dropped_operation
FailDropped(o) ==
  /\ dispatch = "rejecting" /\ running = <<>> /\ o \in dropped
  /\ \A p \in dropped : o <= p
  /\ dropped' = dropped \ {o}
  /\ IF op[o].table
     THEN /\ Becomes(Taken([Closed(State) EXCEPT !.op[o].status = "failed"], o))
          /\ running' = op[o].subs /\ closing' = o
     ELSE Becomes(Closed(State)) /\ closing' = 0 /\ UNCHANGED running
  /\ UNCHANGED <<dispatch, made, outstanding, reload>>

EndRejecting ==
  /\ dispatch = "rejecting" /\ running = <<>> /\ dropped = {}
  /\ Becomes(Settle(Closed(State), "failed"))
  /\ dispatch' = "none" /\ closing' = 0
  /\ UNCHANGED <<running, made, dropped, outstanding, reload>>

\* timer_fired and finish_timer
TimerFired(o) ==
  /\ dispatch = "none" /\ op[o].timer
  /\ Becomes(Finish(State, o, IF op[o].kind = "timeout" THEN "failed" ELSE "succeeded"))
  /\ UNCHANGED <<dispatch, running, closing, made, dropped, outstanding, reload>>

-----------------------------------------------------------------------------
(* A reload waits for the calls and the queue, never for a timer.            *)

\* runtime_reload_progress
SendCandidate ==
  /\ dispatch = "none" /\ reload = "none"
  /\ outstanding = {} /\ deferred = <<>> /\ \A o \in Ops : ~op[o].table
  /\ reload' = "sent"
  /\ UNCHANGED <<op, sub, deferred, scheduled, dispatch, running, closing, made, dropped,
                 outstanding>>

\* lua_runtime_free
Replaced ==
  /\ dispatch = "none" /\ reload = "sent" /\ reload' = "gone"
  /\ op' = [o \in Ops |-> [op[o] EXCEPT !.timer = FALSE, !.table = FALSE]]
  /\ deferred' = <<>> /\ scheduled' = FALSE
  /\ UNCHANGED <<sub, dispatch, running, closing, made, dropped, outstanding>>

\* gnoblin_config_finish_load: the old runtime goes on.
ReloadFails ==
  /\ dispatch = "none" /\ reload = "sent" /\ reload' = "none"
  /\ Becomes(State)
  /\ UNCHANGED <<dispatch, running, closing, made, dropped, outstanding>>

Next ==
  \/ Call \/ TimersAfter \/ Configure
  \/ \E o \in Ops : OnComplete(o) \/ Cancel(o) \/ \E kind \in Derived : Derive(o, kind)
  \/ \E s \in Subs : Leave(s)
  \/ Event \/ DispatchDeferred \/ RunNext \/ Reject \/ EndRejecting
  \/ \E o \in Ops, status \in {"succeeded", "failed"} : Completed(o, status)
  \/ \E status \in {"succeeded", "failed"} : EndDispatch(status)
  \/ \E o \in Ops : FailDropped(o) \/ TimerFired(o)
  \/ SendCandidate \/ Replaced \/ ReloadFails

-----------------------------------------------------------------------------
Live == reload # "gone"
Waiting(s) == \E i \in DOMAIN deferred : deferred[i] = s
Turn(s) == \E i \in DOMAIN running : running[i] = s

\* A callback runs once, after the end of its operation, hears the end that stays, and never runs
\* once it was unsubscribed.
HeardOnce ==
  \A s \in Subs : LET q == sub[s] IN
    /\ q.runs <= 1 /\ (q.left => q.runs = 0)
    /\ q.runs = 1 => q.heard # "pending" /\ q.heard = op[q.op].status

\* Whoever waits for an operation is in its list while it is pending; when it has ended, in the
\* queue, for which the idle source is there, or in the loop that runs.
NobodyForgotten ==
  Live => /\ deferred # <<>> => scheduled
          /\ \A s \in Subs : sub[s].active =>
               IF Pending(sub[s].op)
               THEN \E i \in DOMAIN op[sub[s].op].subs : op[sub[s].op].subs[i] = s
               ELSE Waiting(s) \/ Turn(s)

\* Whatever is pending has somebody who will end it: the compositor, a timer, the operation it was
\* derived from, the end of the dispatch.
WillEnd(o) ==
  CASE op[o].kind = "call" -> op[o].table /\ o \in outstanding \union made \union dropped
    [] op[o].kind = "timer" -> op[o].timer
    [] op[o].kind = "configure" -> dispatch # "none"
    [] op[o].kind \in Derived -> sub[op[o].source].active
    [] OTHER -> TRUE

\* And what has ended holds neither a timer nor an entry that would keep a reload waiting.
EndsOnce ==
  Live => \A o \in Known :
    IF Pending(o) THEN WillEnd(o)
    ELSE ~op[o].timer /\ (op[o].table => closing = o)

OperationsSound == HeardOnce /\ NobodyForgotten /\ EndsOnce
Spec == Init /\ [][Next]_vars
=============================================================================
