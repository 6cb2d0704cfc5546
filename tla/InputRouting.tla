---------------------------- MODULE InputRouting ----------------------------
(***************************************************************************)
(* Key and button events on their way through the Lua input policy         *)
(* (control/gnoblin-control-input-routing.c).                              *)
(*                                                                         *)
(* An event that a handler of the configuration matches is held in a queue *)
(* and offered to the worker, one at a time; the events after it are held  *)
(* behind it.  The worker answers `forward' or `consume' within 16 ms, or  *)
(* everything held goes to the application and the policy is bypassed      *)
(* until the next reload.  What was decided for a press is kept until the  *)
(* control is released (held_input_dispositions).                          *)
(*                                                                         *)
(* Each action is one main-loop callback of the compositor.  What the      *)
(* worker answers, and when, is open; ConfigTransaction and                *)
(* RuntimeSupervision say how the configuration changes and workers die.   *)
(***************************************************************************)
EXTENDS Naturals, Sequences

CONSTANTS
    Controls,      \* keys and buttons of one device
    Matchers,      \* what the handlers of a configuration may match
    MaxQueue,      \* length of the queue, 256 in the code
    MaxEvents,     \* bound: events of the device
    MaxRevision    \* bound: no change of the configuration beyond it

Handled == Controls \X {"press", "release"}     \* what a handler can match

ASSUME InputAssumption ==
    /\ Matchers \subseteq SUBSET Handled
    /\ MaxQueue \in Nat \ {0} /\ MaxEvents \in Nat /\ MaxRevision \in Nat \ {0}

VARIABLES
    policy,        \* the configuration: its revision, the input handlers
    runtime,       \* up, suspended (worker lost), stopped (channel given up)
    bypassed,      \* control->input_policy_bypassed
    queue,         \* control->pending_input_events
    timer,         \* control->input_decision_timeout_id
    held,          \* control->held_input_dispositions
    asked,         \* requests the worker has not answered
    locked,        \* the session lock is active
    pressed,       \* the controls that are physically down
    events,        \* events so far
    app            \* what the application got: the controls it takes for
                   \* pressed, the last event that passed or was withheld,
                   \* and what went wrong on the way

vars == <<policy, runtime, bypassed, queue, timer, held, asked, locked, pressed, events, app>>

NoHandlers == [present |-> FALSE, on |-> {}]
Handlers == {NoHandlers} \cup [present : {TRUE}, on : Matchers]
Dispositions == {"none", "forward", "consume", "reserve"}
Clear == [k \in Controls |-> "none"]

Held == [n : 1..MaxEvents, k : Controls, phase : {"press", "repeat", "release"},
         stamp : Nat, matched : BOOLEAN, reserved : BOOLEAN]

Begins(e) == e.phase # "release"       \* a repeat is a press event too
Withheld(disposition) == disposition \in {"consume", "reserve"}

Init ==
    /\ policy \in [rev : {1}, handlers : Handlers]
    /\ runtime = "up" /\ bypassed = FALSE
    /\ queue = <<>> /\ timer = FALSE /\ held = Clear /\ asked = <<>>
    /\ locked = FALSE /\ pressed = {} /\ events = 0
    /\ app = [down |-> {}, last |-> 0, faults |-> {}]

-----------------------------------------------------------------------------
(* The event goes on to the application or is withheld from it.  `out'      *)
(* carries what that changes: the application and the dispositions.         *)
Passes(out, e, consume) ==
    LET wrong == (IF e.n <= out.app.last THEN {"overtaken"} ELSE {})
                 \cup (IF ~consume /\ locked' THEN {"locked"} ELSE {})
                 \cup (IF ~consume /\ ~Begins(e) /\ e.k \notin out.app.down
                       THEN {"orphan"} ELSE {})
    IN [out EXCEPT !.app.last = e.n,
                   !.app.faults = @ \cup wrong,
                   !.app.down = IF consume THEN @
                                ELSE IF Begins(e) THEN @ \cup {e.k} ELSE @ \ {e.k}]

Keeps(out, e, disposition) ==
    [out EXCEPT !.held[e.k] = IF Begins(e) THEN disposition ELSE "none"]

Out(h) == [held |-> h, app |-> app]

(* An event held only for the order.  It keeps what its stream has.         *)
Replays(out, e) ==
    LET consume == e.reserved \/ Withheld(out.held[e.k])
    IN Keeps(Passes(out, e, consume), e,
             IF e.reserved THEN "reserve" ELSE IF consume THEN "consume" ELSE "forward")

(* native_input_forward_all: fail open, but not in a withheld stream.       *)
Opens(out, e) ==
    Keeps(Passes(out, e, Withheld(out.held[e.k])), e,
          IF out.held[e.k] = "none" THEN "forward" ELSE out.held[e.k])

(* All of q goes on, the oldest first.                                      *)
Leaves(opens, out, e) == IF opens THEN Opens(out, e) ELSE Replays(out, e)
AllLeave(opens, out, q) ==
    LET after[i \in 0..Len(q)] ==
          IF i = 0 THEN out ELSE Leaves(opens, after[i - 1], q[i])
    IN after[Len(q)]

ForwardAll(h) == AllLeave(TRUE, Out(h), queue)

(* A reservation becomes a stream that is withheld.                         *)
Unreserved(h) == [k \in Controls |-> IF h[k] = "reserve" THEN "consume" ELSE h[k]]

Into(out) == held' = out.held /\ app' = out.app

(* native_input_cancel_pending, forwarding what is held or dropping it and  *)
(* the dispositions with it.                                                *)
CancelPending(forward, h) ==
    /\ queue' = <<>> /\ timer' = FALSE
    /\ IF forward THEN Into(ForwardAll(Unreserved(h)))
                  ELSE held' = Clear /\ UNCHANGED app

-----------------------------------------------------------------------------
(* Events of the device, as the stage filter sees them.                     *)

NewEvent(k, phase) == [n |-> events + 1, k |-> k, phase |-> phase]

Happens(e) ==
    /\ events' = e.n
    /\ pressed' = IF Begins(e) THEN pressed \cup {e.k} ELSE pressed \ {e.k}
    /\ UNCHANGED <<policy, runtime, locked>>

(* A fresh press retires what is left of an older stream.                   *)
DiscardStale(e) == IF e.phase = "press" THEN [held EXCEPT ![e.k] = "none"] ELSE held

Matches(e) == <<e.k, IF Begins(e) THEN "press" ELSE "release">> \in policy.handlers.on
Reserves(e) == Begins(e) /\ ~Matches(e) /\ <<e.k, "release">> \in policy.handlers.on
Bypass == bypassed \/ runtime = "suspended"
HoldsLess(e) == Matches(e)            \* mutant: what no handler wants goes ahead
Holds(e) == Matches(e) \/ queue # <<>>
FullLate == Len(queue) > MaxQueue     \* mutant: one event more is held
Full == Len(queue) >= MaxQueue

(* The event follows what its stream has, if it has anything.               *)
Follows(out, e) ==
    LET after == Passes(out, e, Withheld(out.held[e.k]))
    IN IF Begins(e) THEN after ELSE Keeps(after, e, "none")

PassesBy(e) == UNCHANGED <<bypassed, queue, timer, asked>>

FilterStopped(e) ==
    /\ runtime = "stopped"
    /\ IF locked THEN UNCHANGED <<held, app>> ELSE Into(Passes(Out(held), e, FALSE))
    /\ PassesBy(e)

FilterLocked(e) ==
    /\ runtime # "stopped" /\ locked
    /\ CancelPending(FALSE, held)
    /\ UNCHANGED <<bypassed, asked>>

Filtered(e) == runtime # "stopped" /\ ~locked

FilterBypassed(e) ==
    /\ Filtered(e) /\ Bypass
    /\ Into(Follows(Out(DiscardStale(e)), e))
    /\ PassesBy(e)

FilterAbsent(e) ==
    /\ Filtered(e) /\ ~Bypass /\ ~policy.handlers.present
    /\ Into(Passes(Out(DiscardStale(e)), e, FALSE))
    /\ PassesBy(e)

Policed(e) == Filtered(e) /\ ~Bypass /\ policy.handlers.present

(* No handler wants it and nothing is held: decided at once.                *)
FilterUnmatched(e) ==
    /\ Policed(e) /\ ~Holds(e)
    /\ LET out == Out(DiscardStale(e))
       IN Into(IF Reserves(e)
               THEN Keeps(Passes(out, e, TRUE), e, "reserve")
               ELSE IF out.held[e.k] # "none" THEN Follows(out, e)
               ELSE Keeps(Passes(out, e, FALSE), e, "forward"))
    /\ PassesBy(e)

(* The queue is full: everything held goes on, and this event after it.     *)
FilterOverflows(e) ==
    /\ Policed(e) /\ Holds(e) /\ Full
    /\ bypassed' = TRUE /\ queue' = <<>> /\ timer' = FALSE
    /\ Into(Passes(ForwardAll(Unreserved(DiscardStale(e))), e, FALSE))
    /\ UNCHANGED asked

Request(e) == [n |-> e.n, stamp |-> e.stamp]

(* The event is held; the first one is offered to the worker.               *)
FilterHolds(e) ==
    /\ Policed(e) /\ Holds(e) /\ ~Full
    /\ LET p == [n |-> e.n, k |-> e.k, phase |-> e.phase, stamp |-> policy.rev,
                 matched |-> Matches(e), reserved |-> Reserves(e)]
       IN \/ /\ queue' = Append(queue, p)
             /\ asked' = IF queue = <<>> THEN Append(asked, Request(p)) ELSE asked
             /\ timer' = (timer \/ queue = <<>>)
             /\ held' = DiscardStale(e)
             /\ UNCHANGED <<bypassed, app>>
          \/ /\ queue = <<>>                  \* the request cannot be sent
             /\ bypassed' = TRUE
             /\ Into(Opens(Out(DiscardStale(e)), p))
             /\ UNCHANGED <<queue, asked, timer>>

Filter(e) ==
    /\ events < MaxEvents
    /\ Happens(e)
    /\ \/ FilterStopped(e) \/ FilterLocked(e) \/ FilterBypassed(e) \/ FilterAbsent(e)
       \/ FilterUnmatched(e) \/ FilterOverflows(e) \/ FilterHolds(e)

Press(k) == k \notin pressed /\ Filter(NewEvent(k, "press"))
Repeat(k) == k \in pressed /\ Filter(NewEvent(k, "repeat"))
Release(k) == k \in pressed /\ Filter(NewEvent(k, "release"))

-----------------------------------------------------------------------------
(* The worker's answer to the oldest request.                               *)

Answered == Head(asked)
Current == queue # <<>> /\ Answered.n = Head(queue).n

DecisionLate ==
    /\ asked # <<>> /\ runtime # "stopped" /\ ~Current
    /\ asked' = Tail(asked)
    /\ UNCHANGED <<policy, runtime, bypassed, queue, timer, held, locked, pressed, events, app>>

(* The configuration has changed since the event was matched: the answer    *)
(* is taken for an invalid one, which gives the channel up.                 *)
DecisionRejected ==
    /\ asked # <<>> /\ runtime # "stopped" /\ Current
    /\ Answered.stamp # policy.rev
    /\ asked' = Tail(asked)
    /\ runtime' = "stopped"
    /\ UNCHANGED <<policy, bypassed, queue, timer, held, locked, pressed, events, app>>

RearmsNever(rest) == FALSE            \* mutant: only the first event has a deadline
Rearms(rest) == rest # <<>>

(* The head is decided, unless its stream was decided before; the unmatched *)
(* events behind it follow, and the next matched one is offered.            *)
DecisionAccepted(consume) ==
    /\ asked # <<>> /\ runtime # "stopped" /\ Current
    /\ Answered.stamp = policy.rev
    /\ UNCHANGED <<policy, runtime, locked, pressed, events>>
    /\ \E k \in 0..Len(queue) - 1 :
         /\ \A i \in 2..k + 1 : ~queue[i].matched
         /\ k + 2 <= Len(queue) => queue[k + 2].matched
         /\ LET e == Head(queue)
                prior == held[e.k]
                final == IF prior = "none" THEN consume ELSE Withheld(prior)
                decided == Keeps(Passes(Out(held), e, final), e,
                                 IF final THEN "consume" ELSE "forward")
                out == AllLeave(FALSE, decided, SubSeq(queue, 2, k + 1))
                rest == SubSeq(queue, k + 2, Len(queue))
            IN \/ /\ Into(out)
                  /\ queue' = rest
                  /\ timer' = Rearms(rest)
                  /\ asked' = IF rest = <<>> THEN Tail(asked)
                              ELSE Append(Tail(asked), Request(Head(rest)))
                  /\ UNCHANGED bypassed
               \/ /\ rest # <<>>                   \* the request cannot be sent
                  /\ Into(AllLeave(TRUE, out, rest))
                  /\ queue' = <<>> /\ timer' = FALSE /\ bypassed' = TRUE
                  /\ asked' = Tail(asked)

Decision == DecisionLate \/ DecisionRejected \/ \E consume \in BOOLEAN : DecisionAccepted(consume)

(* native_input_decision_timeout                                            *)
DecisionTimesOut ==
    /\ timer /\ runtime # "stopped"
    /\ UNCHANGED <<policy, runtime, asked, locked, pressed, events>>
    /\ bypassed' = TRUE
    /\ CancelPending(TRUE, held)

-----------------------------------------------------------------------------
(* What else changes the policy.                                            *)

(* An accepted reload: a new Lua runtime, with other handlers or the same.  *)
Reload(handlers) ==
    /\ runtime = "up"
    /\ handlers # policy.handlers => policy.rev < MaxRevision
    /\ policy' = IF handlers = policy.handlers THEN policy
                 ELSE [rev |-> policy.rev + 1, handlers |-> handlers]
    /\ UNCHANGED <<runtime, asked, locked, pressed, events>>
    /\ CancelPending(~locked, held)
    /\ bypassed' = FALSE

(* An event handler of the configuration has changed it.  It can add and    *)
(* remove input handlers, the list remains.                                 *)
Commit(handlers) ==
    /\ runtime = "up" /\ policy.rev < MaxRevision /\ handlers.present
    /\ policy' = [rev |-> policy.rev + 1, handlers |-> handlers]
    /\ UNCHANGED <<runtime, bypassed, queue, timer, held, asked, locked, pressed, events, app>>

(* The worker is lost; its answers are discarded.                           *)
SuspendsQuietly == UNCHANGED <<queue, timer, held, app>>    \* mutant: cancels nothing
Suspends == CancelPending(~locked, held)

Suspend ==
    /\ runtime = "up"
    /\ UNCHANGED <<policy, bypassed, locked, pressed, events>>
    /\ runtime' = "suspended" /\ asked' = <<>>
    /\ Suspends

Resume ==
    /\ runtime = "suspended"
    /\ runtime' = "up"
    /\ UNCHANGED <<policy, bypassed, queue, timer, held, asked, locked, pressed, events, app>>

(* native_runtime_abort, for one of its other reasons.                      *)
Abort ==
    /\ runtime # "stopped"
    /\ runtime' = "stopped"
    /\ UNCHANGED <<policy, bypassed, queue, timer, held, asked, locked, pressed, events, app>>

LocksForward == CancelPending(TRUE, held)       \* mutant: as a reload does
Locks == CancelPending(FALSE, held)

(* The focus leaves the application, which takes all keys for released.     *)
Lock ==
    /\ ~locked /\ locked' = TRUE
    /\ IF runtime = "stopped" THEN UNCHANGED <<queue, timer, held, app>> ELSE Locks
    /\ UNCHANGED <<policy, runtime, bypassed, asked, pressed, events>>

(* The focus returns together with the list of pressed keys.                *)
Unlock ==
    /\ locked /\ locked' = FALSE
    /\ app' = [app EXCEPT !.down = pressed]
    /\ UNCHANGED <<policy, runtime, bypassed, queue, timer, held, asked, pressed, events>>

-----------------------------------------------------------------------------
Next ==
    \/ \E k \in Controls : Press(k) \/ Repeat(k) \/ Release(k)
    \/ Decision \/ DecisionTimesOut
    \/ \E handlers \in Handlers : Reload(handlers) \/ Commit(handlers)
    \/ Suspend \/ Resume \/ Abort \/ Lock \/ Unlock

Spec == Init /\ [][Next]_vars

(* The timer expires.                                                       *)
FairSpec == Spec /\ WF_vars(DecisionTimesOut)

-----------------------------------------------------------------------------
(* The shape of every variable, the queue of held events within its limit.  *)
TypeOK ==
    /\ policy \in [rev : 1..MaxRevision, handlers : Handlers]
    /\ runtime \in {"up", "suspended", "stopped"} /\ bypassed \in BOOLEAN
    /\ queue \in Seq(Held) /\ Len(queue) <= MaxQueue
    /\ timer \in BOOLEAN /\ held \in [Controls -> Dispositions]
    /\ asked \in Seq([n : 1..MaxEvents, stamp : 1..MaxRevision])
    /\ locked \in BOOLEAN /\ pressed \subseteq Controls /\ events \in 0..MaxEvents
    /\ app \in [down : SUBSET Controls, last : 0..MaxEvents,
                faults : SUBSET {"overtaken", "locked", "orphan"}]

(* Events reach the application in the order they happened: neither a       *)
(* deadline, an overflow, a reload nor a change of handlers lets a later    *)
(* event overtake one that is held (preserve_order, native_input_send_head).*)
OrderKept == "overtaken" \notin app.faults

(* Nothing that was held for the old session is delivered while the lock    *)
(* screen has the input (native_session_lock_changed).                      *)
NothingIntoLock == "locked" \notin app.faults

(* While the policy is bypassed or the worker lost no event is held: nobody *)
(* would ever decide it (timeout, overflow, failed send, suspension).       *)
BypassHoldsNothing == Bypass => queue = <<>>

(* The queue is bounded, empty when nobody decides, and left in its order.  *)
QueueInOrder == TypeOK /\ OrderKept /\ BypassHoldsNothing

(* Every event that is held leaves the queue, whatever the worker does,     *)
(* unless the channel is given up.                                          *)
HeldEventsLeave ==
    \A n \in 1..MaxEvents :
       (\E i \in DOMAIN queue : queue[i].n = n)
          ~> (runtime = "stopped" \/ \A i \in DOMAIN queue : queue[i].n # n)

(* The inductive invariant.  What is held is newer than all that has left,  *)
(* in its order, and of a configuration that was; nothing is held under the *)
(* lock.  Once the channel is given up what is held stays, and is overtaken *)
(* by what is no longer filtered: it never leaves.                          *)
IInv ==
    /\ TypeOK /\ BypassHoldsNothing /\ app.last <= events
    /\ "overtaken" \notin app.faults /\ "locked" \notin app.faults
    /\ \A i \in 1..Len(queue) : queue[i].n <= events /\ queue[i].stamp \in 1..MaxRevision
    /\ \A i, j \in 1..Len(queue) : i < j => queue[i].n < queue[j].n
    /\ ~policy.handlers.present => queue = <<>>
    /\ runtime # "stopped" => /\ \A i \in 1..Len(queue) : app.last < queue[i].n
                              /\ locked => queue = <<>>

(* docs/shell-api/input-handlers.md: press decisions also own their         *)
(* matching release; reload and runtime failure retain consumed streams     *)
(* until their physical end, so that an application cannot receive an       *)
(* orphan release.  Here: as long as the channel is not given up.           *)
NoOrphanRelease == runtime # "stopped" => "orphan" \notin app.faults
=============================================================================
