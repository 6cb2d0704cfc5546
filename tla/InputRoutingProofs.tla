------------------------- MODULE InputRoutingProofs -------------------------
(***************************************************************************)
(* What is proved of the routing of input: for any controls, handlers and  *)
(* bounds, events reach the application in the order they happened and     *)
(* none of the old session is delivered under the lock.                    *)
(*                                                                         *)
(* The inductive invariant (IInv) says where the queue stands: what is     *)
(* held is newer than all that left and in order, and nothing is held      *)
(* under the lock, under a bypass or when no handler would decide it.      *)
(*                                                                         *)
(* A queue leaves by a recursion over it (AllLeave).  The prover has no    *)
(* induction over data; the lemmas take the least number at which a fact   *)
(* fails (UpTo) instead, first to know that the recursive function exists  *)
(* (RunExists), then to carry a fact along it (AllFollow).                 *)
(***************************************************************************)
EXTENDS InputRouting, Integers, SequenceTheorems, WellFoundedInduction, TLAPS

(* What holds of 0 and goes from each number to the next holds up to n.     *)
LEMMA UpTo ==
  ASSUME NEW n \in Nat, NEW S, 0 \in S, \A i \in 1..n : i - 1 \in S => i \in S
  PROVE  \A i \in 0..n : i \in S
  <1> DEFINE T == {i \in 0..n : i \notin S}
  <1> SUFFICES ASSUME T # {} PROVE FALSE
    OBVIOUS
  <1>1. IsWellFoundedOn(OpToRel(<, Nat), Nat)
    BY NatLessThanWellFounded
  <1>2. T \subseteq Nat /\ T # {}
    OBVIOUS
  <1>3. PICK x \in T : \A y \in T : ~(<<y, x>> \in OpToRel(<, Nat))
    <2> HIDE DEF T
    <2> QED BY <1>1, <1>2, WFMin
  <1>4. \A y \in T : ~(y < x)
    BY <1>2, <1>3 DEF OpToRel
  <1>5. x \in 0..n /\ x \notin S /\ x # 0
    OBVIOUS
  <1>6. x \in 1..n /\ x - 1 \in 0..n /\ x - 1 < x
    BY <1>5
  <1>7. x - 1 \in S
    BY <1>4, <1>6
  <1> QED BY <1>5, <1>6, <1>7

(* f is a run over the first n of q                                *)
IsRun(f, opens, out, q, n) ==
  f = [i \in 0..n |-> IF i = 0 THEN out ELSE Leaves(opens, f[i - 1], q[i])]

(* There is a run over all of a queue: an event after another leaves where  *)
(* the one before it left off.                                              *)
LEMMA RunExists ==
  ASSUME NEW opens, NEW out, NEW q, Len(q) \in Nat
  PROVE  \E f : IsRun(f, opens, out, q, Len(q))
  <1> DEFINE Run(f, n) == IsRun(f, opens, out, q, n)
  <1> DEFINE S == {n \in 0..Len(q) : \E f : Run(f, n)}
  <1>1. 0 \in S
    <2> DEFINE f == [i \in 0..0 |-> out]
    <2>1. Run(f, 0)
      <3> DEFINE h == [i \in 0..0 |-> IF i = 0 THEN out ELSE Leaves(opens, f[i - 1], q[i])]
      <3>1. \A i \in 0..0 : i = 0
        OBVIOUS
      <3>2. \A i \in 0..0 : f[i] = h[i]
        BY <3>1
      <3>3. f = h
        BY <3>2
      <3> QED BY <3>3 DEF IsRun
    <2> HIDE DEF f
    <2>2. 0 \in 0..Len(q)
      OBVIOUS
    <2> QED BY <2>1, <2>2
  <1>2. ASSUME NEW n \in 1..Len(q), n - 1 \in S PROVE n \in S
    <2>1. PICK f : Run(f, n - 1)
      BY <1>2
    <2> DEFINE g == [i \in 0..n |-> IF i = n THEN Leaves(opens, f[n - 1], q[n]) ELSE f[i]]
    <2>2. \A i \in 0..n : i # n => i \in 0..(n - 1) /\ (i # 0 => i - 1 \in 0..(n - 1) /\ i - 1 # n)
      OBVIOUS
    <2>3. ASSUME NEW i \in 0..n
          PROVE  g[i] = IF i = 0 THEN out ELSE Leaves(opens, g[i - 1], q[i])
      <3> HIDE DEF g
      <3>1. \A j \in 0..n : g[j] = IF j = n THEN Leaves(opens, f[n - 1], q[n]) ELSE f[j]
        BY DEF g
      <3>2. CASE i = n
        <4>1. n - 1 \in 0..n /\ n - 1 # n /\ n # 0
          OBVIOUS
        <4>2. g[n - 1] = f[n - 1]
          BY <3>1, <4>1
        <4> QED BY <3>1, <3>2, <4>1, <4>2
      <3>3. CASE i # n
        <4>1. f[i] = IF i = 0 THEN out ELSE Leaves(opens, f[i - 1], q[i])
          BY <2>1, <2>2, <3>3 DEF IsRun
        <4>2. g[i] = f[i]
          BY <3>1, <3>3
        <4>3. i # 0 => g[i - 1] = f[i - 1]
          BY <2>2, <3>1, <3>3
        <4> QED BY <4>1, <4>2, <4>3
      <3> QED BY <3>2, <3>3
    <2>4. Run(g, n)
      <3> DEFINE h == [i \in 0..n |-> IF i = 0 THEN out ELSE Leaves(opens, g[i - 1], q[i])]
      <3>1. \A i \in 0..n : g[i] = h[i]
        BY <2>3
      <3>2. g = h
        BY <3>1
      <3> QED BY <3>2 DEF IsRun
    <2> HIDE DEF g
    <2> QED BY <2>4
  <1>3. \A n \in 0..Len(q) : n \in S
    BY <1>1, <1>2, UpTo
  <1>4. \E f : Run(f, Len(q))
    BY <1>3
  <1> QED BY <1>4

(* What the steps of a run keep, the end of the run has.                    *)
LEMMA RunOf ==
  ASSUME NEW opens, NEW out, NEW q, Len(q) \in Nat
  PROVE  \E f : /\ f[0] = out /\ AllLeave(opens, out, q) = f[Len(q)]
                /\ \A i \in 1..Len(q) : f[i] = Leaves(opens, f[i - 1], q[i])
  <1> DEFINE f == CHOOSE g : IsRun(g, opens, out, q, Len(q))
  <1>1. AllLeave(opens, out, q) = f[Len(q)]
    BY DEF AllLeave, IsRun
  <1>2. \E g : IsRun(g, opens, out, q, Len(q))
    BY RunExists
  <1>3. IsRun(f, opens, out, q, Len(q))
    BY <1>2
  <1> HIDE DEF f
  <1>4. f[0] = out /\ \A i \in 1..Len(q) : f[i] = Leaves(opens, f[i - 1], q[i])
    BY <1>3 DEF IsRun
  <1> QED BY <1>1, <1>4

-----------------------------------------------------------------------------
(* What one event that leaves does to the application and dispositions.     *)
Outs == [held : [Controls -> Dispositions],
         app : [down : SUBSET Controls, last : 0..MaxEvents,
                faults : SUBSET {"overtaken", "locked", "orphan"}]]

(* The record `to' is where the event of number n leaves `from', with no    *)
(* fault but an orphan.                                                     *)
Follow(from, to, n) ==
  /\ to \in Outs /\ to.app.last = n
  /\ "overtaken" \in to.app.faults => "overtaken" \in from.app.faults
  /\ ~locked' /\ "locked" \in to.app.faults => "locked" \in from.app.faults

(* An event newer than the last, that is withheld or passes, overtakes none. *)
LEMMA PassesFollows ==
  ASSUME NEW out \in Outs, NEW e, e.n \in 1..MaxEvents, e.k \in Controls,
         out.app.last < e.n, NEW consume \in BOOLEAN
  PROVE  Follow(out, Passes(out, e, consume), e.n)
  <1> DEFINE wrong == (IF e.n <= out.app.last THEN {"overtaken"} ELSE {})
                      \cup (IF ~consume /\ locked' THEN {"locked"} ELSE {})
                      \cup (IF ~consume /\ ~Begins(e) /\ e.k \notin out.app.down
                            THEN {"orphan"} ELSE {})
             down == IF consume THEN out.app.down
                     ELSE IF Begins(e) THEN out.app.down \cup {e.k} ELSE out.app.down \ {e.k}
             app1 == [out.app EXCEPT !.last = e.n, !.faults = @ \cup wrong, !.down = down]
  <1>1. Passes(out, e, consume) = [out EXCEPT !.app = app1]
    BY DEF Passes, Outs
  <1>2. wrong \subseteq {"locked", "orphan"} /\ (~locked' => "locked" \notin wrong)
    <2>1. ~(e.n <= out.app.last)
      BY DEF Outs
    <2> QED BY <2>1
  <1>3. down \subseteq Controls
    BY DEF Outs
  <1> HIDE DEF wrong, down
  <1>4. app1 \in [down : SUBSET Controls, last : 0..MaxEvents,
                  faults : SUBSET {"overtaken", "locked", "orphan"}]
    <2> DEFINE faults == out.app.faults \cup wrong
    <2>1. faults \in SUBSET {"overtaken", "locked", "orphan"}
      BY <1>2 DEF Outs
    <2>2. e.n \in 0..MaxEvents
      OBVIOUS
    <2>3. app1 = [out.app EXCEPT !.last = e.n, !.faults = faults, !.down = down]
      OBVIOUS
    <2> HIDE DEF faults, app1
    <2> QED BY <1>3, <2>1, <2>2, <2>3 DEF Outs
  <1>5. app1.last = e.n /\ app1.faults = out.app.faults \cup wrong
    BY DEF Outs
  <1> HIDE DEF app1
  <1> QED BY <1>1, <1>2, <1>4, <1>5 DEF Outs, Follow

(* What is kept for its stream changes nothing of what has left.            *)
LEMMA KeepsFollows ==
  ASSUME NEW from, NEW out, NEW n, Follow(from, out, n), NEW e, NEW d \in Dispositions
  PROVE  Follow(from, Keeps(out, e, d), n)
  BY DEF Follow, Keeps, Outs, Dispositions

(* An event is withheld or is not.                                          *)
LEMMA WithheldBoolean == \A d : Withheld(d) \in BOOLEAN
  BY DEF Withheld

(* An event newer than all that left, leaves after them and without a       *)
(* fault, however it was disposed of.                                       *)
LEMMA LeavesFollows ==
  ASSUME NEW out \in Outs, NEW e \in Held, out.app.last < e.n, NEW opens \in BOOLEAN
  PROVE  Follow(out, Leaves(opens, out, e), e.n)
  <1>1. e.n \in 1..MaxEvents /\ e.k \in Controls /\ e.reserved \in BOOLEAN
    BY DEF Held
  <1>2. out.held[e.k] \in Dispositions
    BY <1>1 DEF Outs
  <1>3. \A c \in BOOLEAN : Follow(out, Passes(out, e, c), e.n)
    BY <1>1, PassesFollows
  <1>4. Follow(out, Opens(out, e), e.n)
    <2>1. (IF out.held[e.k] = "none" THEN "forward" ELSE out.held[e.k]) \in Dispositions
      BY <1>2 DEF Dispositions
    <2> QED BY <1>3, <2>1, KeepsFollows, WithheldBoolean DEF Opens
  <1>5. Follow(out, Replays(out, e), e.n)
    <2> DEFINE c == e.reserved \/ Withheld(out.held[e.k])
               d == IF e.reserved THEN "reserve" ELSE IF c THEN "consume" ELSE "forward"
    <2>1. c \in BOOLEAN /\ d \in Dispositions
      BY <1>1, WithheldBoolean DEF Dispositions
    <2>2. Replays(out, e) = Keeps(Passes(out, e, c), e, d)
      BY DEF Replays
    <2> HIDE DEF c, d
    <2> QED BY <1>3, <2>1, <2>2, KeepsFollows
  <1> QED BY <1>4, <1>5 DEF Leaves

(* All of a queue that is in order leaves in that order.                    *)
InOrder(out, q) ==
  /\ q \in Seq(Held)
  /\ \A i \in 1..Len(q) : out.app.last < q[i].n
  /\ \A i, j \in 1..Len(q) : i < j => q[i].n < q[j].n

(* What leaves of a queue in order leaves no later than its last event, and *)
(* in order: the steps of the run, one after another.                       *)
LEMMA AllFollow ==
  ASSUME MaxEvents \in Nat, NEW opens \in BOOLEAN, NEW out \in Outs, NEW q, InOrder(out, q)
  PROVE  Follow(out, AllLeave(opens, out, q), IF q = <<>> THEN out.app.last ELSE q[Len(q)].n)
  <1>1. PICK f : /\ f[0] = out /\ AllLeave(opens, out, q) = f[Len(q)]
                 /\ \A i \in 1..Len(q) : f[i] = Leaves(opens, f[i - 1], q[i])
    BY RunOf DEF InOrder
  <1>2. Len(q) \in Nat /\ \A i \in 1..Len(q) : q[i] \in Held
    BY DEF InOrder
  <1> DEFINE S == {i \in 0..Len(q) : Follow(out, f[i], IF i = 0 THEN out.app.last ELSE q[i].n)}
  <1>3. 0 \in S
    BY <1>1, <1>2 DEF Follow, Outs
  <1>4. ASSUME NEW i \in 1..Len(q), i - 1 \in S PROVE i \in S
    <2>1. Follow(out, f[i - 1], IF i - 1 = 0 THEN out.app.last ELSE q[i - 1].n)
      BY <1>4
    <2>2. f[i - 1] \in Outs /\ f[i - 1].app.last < q[i].n
      <3>1. i - 1 = 0 => out.app.last < q[i].n
        BY DEF InOrder
      <3>2. i - 1 # 0 => i - 1 \in 1..Len(q) /\ i - 1 < i
        BY <1>2
      <3>3. i - 1 # 0 => q[i - 1].n < q[i].n
        BY <3>2 DEF InOrder
      <3> QED BY <2>1, <3>1, <3>3 DEF Follow
    <2>3. Follow(f[i - 1], f[i], q[i].n)
      BY <1>1, <1>2, <2>2, LeavesFollows
    <2>4. Follow(out, f[i], q[i].n)
      BY <2>1, <2>3 DEF Follow
    <2>5. i \in 0..Len(q) /\ i # 0
      BY <1>2
    <2> QED BY <2>4, <2>5
  <1> HIDE DEF S
  <1>5. \A i \in 0..Len(q) : i \in S
    BY <1>2, <1>3, <1>4, UpTo
  <1>6. Follow(out, f[Len(q)], IF Len(q) = 0 THEN out.app.last ELSE q[Len(q)].n)
    BY <1>2, <1>5 DEF S
  <1>7. Len(q) = 0 <=> q = <<>>
    BY DEF InOrder
  <1> QED BY <1>1, <1>6, <1>7

-----------------------------------------------------------------------------
(* The parts of the invariant: what is not held, what has left, the queue,  *)
(* and how they agree.                                                      *)
Rest ==
  /\ policy \in [rev : 1..MaxRevision, handlers : Handlers]
  /\ runtime \in {"up", "suspended", "stopped"} /\ bypassed \in BOOLEAN /\ timer \in BOOLEAN
  /\ asked \in Seq([n : 1..MaxEvents, stamp : 1..MaxRevision])
  /\ locked \in BOOLEAN /\ pressed \subseteq Controls /\ events \in 0..MaxEvents

Clean(out) ==
  out \in Outs /\ "overtaken" \notin out.app.faults /\ "locked" \notin out.app.faults

Queued ==
  /\ queue \in Seq(Held) /\ Len(queue) <= MaxQueue
  /\ \A i \in 1..Len(queue) : queue[i].n <= events /\ queue[i].stamp \in 1..MaxRevision
  /\ \A i, j \in 1..Len(queue) : i < j => queue[i].n < queue[j].n

Ahead ==
  /\ app.last <= events
  /\ runtime # "stopped" => /\ \A i \in 1..Len(queue) : app.last < queue[i].n
                            /\ locked => queue = <<>>

Decidable ==
  (Bypass \/ ~policy.handlers.present) => queue = <<>>

(* The invariant is its parts.                                              *)
LEMMA Parts == IInv <=> Rest /\ Clean(Out(held)) /\ Queued /\ Ahead /\ Decidable
  <1>1. Clean(Out(held)) <=> /\ held \in [Controls -> Dispositions]
                             /\ app \in [down : SUBSET Controls, last : 0..MaxEvents,
                                         faults : SUBSET {"overtaken", "locked", "orphan"}]
                             /\ "overtaken" \notin app.faults /\ "locked" \notin app.faults
    BY DEF Clean, Out, Outs
  <1>2. Decidable <=> BypassHoldsNothing /\ (~policy.handlers.present => queue = <<>>)
    BY DEF Decidable, BypassHoldsNothing
  <1> QED BY <1>1, <1>2 DEF IInv, TypeOK, Rest, Queued, Ahead

(* So it is after a step.                                                   *)
LEMMA PartsNext == Rest' /\ Clean(Out(held))' /\ Queued' /\ Ahead' /\ Decidable' => IInv'
  <1>1. (IInv <=> Rest /\ Clean(Out(held)) /\ Queued /\ Ahead /\ Decidable)'
    BY Parts, PTL
  <1> QED BY <1>1

(* What is held, and its numbers.                                           *)
LEMMA QueueTyped ==
  ASSUME Queued
  PROVE  \A i \in 1..Len(queue) : queue[i] \in Held /\ queue[i].n \in Nat
  <1>1. \A i \in 1..Len(queue) : queue[i] \in Held
    BY DEF Queued
  <1>2. \A h \in Held : h.n \in Nat
    BY DEF Held
  <1> QED BY <1>1, <1>2

(* The bounds are numbers, and something may be held.                       *)
LEMMA Facts == MaxEvents \in Nat /\ MaxQueue \in Nat \ {0} /\ MaxRevision \in Nat \ {0}
  BY InputAssumption DEF InputAssumption

(* What is cleared, discarded or no longer reserved is a disposition still. *)
LEMMA HeldTyped ==
  ASSUME NEW h \in [Controls -> Dispositions]
  PROVE  /\ Unreserved(h) \in [Controls -> Dispositions]
         /\ Clear \in [Controls -> Dispositions]
         /\ \A k \in Controls : [h EXCEPT ![k] = "none"] \in [Controls -> Dispositions]
  BY DEF Unreserved, Clear, Dispositions

(* The empty queue leaves nothing behind.                                   *)
LEMMA NoneLeave == \A opens, out : AllLeave(opens, out, <<>>) = out
  <1> SUFFICES ASSUME NEW opens, NEW out PROVE AllLeave(opens, out, <<>>) = out
    OBVIOUS
  <1>1. Len(<<>>) \in Nat /\ Len(<<>>) = 0
    OBVIOUS
  <1>2. PICK f : f[0] = out /\ AllLeave(opens, out, <<>>) = f[Len(<<>>)]
    BY <1>1, RunOf
  <1> QED BY <1>1, <1>2

(* A clean application is clean after all that was held has left, when      *)
(* nothing is locked or nothing was held.                                   *)
LEMMA AllClean ==
  ASSUME NEW opens \in BOOLEAN, NEW out, Clean(out), NEW q, InOrder(out, q),
         ~locked' \/ q = <<>>
  PROVE  /\ Clean(AllLeave(opens, out, q))
         /\ AllLeave(opens, out, q).app.last = IF q = <<>> THEN out.app.last ELSE q[Len(q)].n
  <1>1. CASE q = <<>>
    BY <1>1, NoneLeave
  <1>2. CASE q # <<>>
    BY <1>2, Facts, AllFollow DEF Clean, Follow
  <1> QED BY <1>1, <1>2

(* An event that is not in order of what left, but newer, leaves it clean.  *)
LEMMA PassesClean ==
  ASSUME NEW out, Clean(out), NEW e, e.n \in 1..MaxEvents, e.k \in Controls,
         out.app.last < e.n, NEW consume \in BOOLEAN, ~locked'
  PROVE  Clean(Passes(out, e, consume)) /\ Passes(out, e, consume).app.last = e.n
  BY PassesFollows DEF Clean, Follow

(* What is only kept for the rest of its stream leaves all clean.           *)
LEMMA KeepsClean ==
  ASSUME NEW out, Clean(out), NEW e, NEW d \in Dispositions
  PROVE  Clean(Keeps(out, e, d)) /\ Keeps(out, e, d).app = out.app
  BY DEF Clean, Keeps, Outs, Dispositions

(* An event newer than what left, that follows its stream, leaves all       *)
(* clean.                                                                   *)
LEMMA FollowsClean ==
  ASSUME NEW out, Clean(out), NEW e, e.n \in 1..MaxEvents, e.k \in Controls,
         out.app.last < e.n, ~locked'
  PROVE  Clean(Follows(out, e)) /\ Follows(out, e).app.last = e.n
  <1>1. "none" \in Dispositions
    BY DEF Dispositions
  <1> QED BY <1>1, PassesClean, KeepsClean, WithheldBoolean DEF Follows

(* And so does one that leaves the queue.                                   *)
LEMMA LeavesClean ==
  ASSUME NEW opens \in BOOLEAN, NEW out, Clean(out), NEW e \in Held, out.app.last < e.n, ~locked'
  PROVE  Clean(Leaves(opens, out, e)) /\ Leaves(opens, out, e).app.last = e.n
  BY LeavesFollows DEF Clean, Follow

(* What goes into the application and the dispositions is what they are.    *)
LEMMA IntoIs ==
  ASSUME NEW out, Into(out), Clean(out)
  PROVE  Clean(Out(held))' /\ app'.last = out.app.last
  BY DEF Into, Out, Clean, Outs

(* An empty queue is in order and asks for nobody to decide it.             *)
LEMMA EmptyQueued ==
  ASSUME queue' = <<>> PROVE Queued' /\ Decidable'
  BY Facts DEF Queued, Decidable

(* What was held is given up or forwarded in order: the session is not      *)
(* locked then, or nothing was held.                                        *)
LEMMA CancelKeeps ==
  ASSUME IInv, NEW forward \in BOOLEAN, NEW h \in [Controls -> Dispositions],
         CancelPending(forward, h), runtime # "stopped",
         forward => ~locked' \/ queue = <<>>
  PROVE  /\ queue' = <<>> /\ timer' = FALSE
         /\ Clean(Out(held))' /\ app'.last <= events
  <1> USE Parts
  <1>1. queue' = <<>> /\ timer' = FALSE
    BY DEF CancelPending
  <1>2. CASE ~forward
    <2>1. held' = Clear /\ app' = app
      BY <1>2 DEF CancelPending
    <2> QED BY <1>1, <2>1, HeldTyped DEF Clean, Out, Outs, Ahead
  <1>3. CASE forward
    <2> DEFINE out == Out(Unreserved(h))
               all == AllLeave(TRUE, out, queue)
    <2>1. Into(all)
      BY <1>3 DEF CancelPending, ForwardAll
    <2>2. Clean(out) /\ out.app = app
      BY HeldTyped DEF Clean, Out, Outs
    <2>3. InOrder(out, queue)
      BY <2>2 DEF InOrder, Queued, Ahead
    <2>4. Clean(all) /\ all.app.last = IF queue = <<>> THEN app.last ELSE queue[Len(queue)].n
      <3> HIDE DEF out
      <3> QED BY <1>3, <2>2, <2>3, AllClean
    <2>5. queue # <<>> => queue[Len(queue)].n <= events
      BY DEF Queued
    <2>6. all.app.last <= events
      BY <2>4, <2>5 DEF Ahead
    <2> HIDE DEF all
    <2> QED BY <1>1, <2>1, <2>4, <2>6, IntoIs
  <1> QED BY <1>2, <1>3

-----------------------------------------------------------------------------
(* The events of the device.                                                *)
LEMMA EventFacts ==
  ASSUME IInv, events < MaxEvents, NEW k \in Controls, NEW phase \in {"press", "repeat", "release"},
         Happens(NewEvent(k, phase))
  PROVE  LET e == NewEvent(k, phase)
         IN  /\ e.n \in 1..MaxEvents /\ e.k = k /\ e.phase = phase
             /\ e.n = events + 1 /\ events' = e.n /\ events' \in 0..MaxEvents
             /\ app.last < e.n /\ pressed' \subseteq Controls
             /\ policy' = policy /\ runtime' = runtime /\ locked' = locked
             /\ DiscardStale(e) \in [Controls -> Dispositions]
             /\ Clean(Out(held)) /\ Clean(Out(DiscardStale(e)))
  <1> DEFINE e == NewEvent(k, phase)
  <1>1. e.n = events + 1 /\ e.k = k /\ e.phase = phase
    BY DEF NewEvent
  <1>2. e.n \in 1..MaxEvents /\ app.last < e.n
    BY <1>1, Parts, Facts DEF Rest, Ahead, Clean, Out, Outs
  <1>3. held \in [Controls -> Dispositions] /\ Clean(Out(held))
    BY Parts DEF Clean, Out, Outs
  <1>4. DiscardStale(e) \in [Controls -> Dispositions]
    BY <1>1, <1>3, HeldTyped DEF DiscardStale
  <1>5. Clean(Out(DiscardStale(e)))
    BY <1>3, <1>4 DEF Clean, Out, Outs
  <1>6. events' = e.n /\ policy' = policy /\ runtime' = runtime /\ locked' = locked
    BY DEF Happens
  <1>7. pressed' \subseteq Controls
    BY <1>1, Parts DEF Happens, Rest
  <1> QED BY <1>1, <1>2, <1>3, <1>4, <1>5, <1>6, <1>7

(* What is queued stays in order while events happen.                       *)
LEMMA SameQueue ==
  ASSUME IInv, queue' = queue, events' \in Nat, events <= events'
  PROVE  Queued'
  <1>1. events \in Nat
    BY Parts DEF Rest
  <1>2. \A i \in 1..Len(queue) : queue[i].n \in Nat /\ queue[i].n <= events
    BY Parts, QueueTyped DEF Queued
  <1>3. \A i \in 1..Len(queue) : queue[i].n <= events'
    BY <1>1, <1>2
  <1> QED BY <1>3, Parts DEF Queued

(* An event of the device, forwarded, consumed, held or the one that finds  *)
(* the queue full, keeps the invariant.                                     *)
LEMMA FilterKeeps ==
  ASSUME IInv, NEW k \in Controls, NEW phase \in {"press", "repeat", "release"},
         Filter(NewEvent(k, phase))
  PROVE  IInv'
  <1> DEFINE e == NewEvent(k, phase)
  <1>1. events < MaxEvents /\ Happens(e)
    BY DEF Filter
  <1>2. /\ e.n \in 1..MaxEvents /\ e.k = k /\ e.phase = phase
        /\ e.n = events + 1 /\ events' = e.n /\ events' \in 0..MaxEvents
        /\ app.last < e.n /\ pressed' \subseteq Controls
        /\ policy' = policy /\ runtime' = runtime /\ locked' = locked
        /\ DiscardStale(e) \in [Controls -> Dispositions]
        /\ Clean(Out(held)) /\ Clean(Out(DiscardStale(e)))
    BY <1>1, EventFacts
  <1> HIDE DEF e
  <1>3. Rest /\ Queued /\ Ahead /\ Decidable /\ events \in Nat /\ events <= events'
    BY <1>2, Parts DEF Rest
  <1>4. queue' = queue => Queued'
    BY <1>2, <1>3, SameQueue
  <1>5. \A h : Out(h).app = app /\ Out(h).held = h
    BY DEF Out
  <1>6. (timer' \in BOOLEAN /\ bypassed' \in BOOLEAN
           /\ asked' \in Seq([n : 1..MaxEvents, stamp : 1..MaxRevision])) => Rest'
    BY <1>2, <1>3 DEF Rest
  <1>7. PassesBy(e) => Rest' /\ Queued' /\ Decidable'
    BY <1>2, <1>3, <1>4, <1>6 DEF PassesBy, Rest, Decidable, Bypass
  <1>8. ASSUME NEW out, Into(out), Clean(out), out.app.last <= e.n
        PROVE  Clean(Out(held))' /\ app'.last <= events'
    BY <1>2, <1>8, IntoIs
  <1>9. CASE FilterStopped(e)
    <2>1. Clean(Out(held))' /\ app'.last <= events'
      <3>1. CASE locked
        <4>1. held' = held /\ app' = app
          BY <1>9, <3>1 DEF FilterStopped
        <4>2. app.last \in 0..MaxEvents
          BY <1>2 DEF Clean, Out, Outs
        <4> QED BY <1>2, <4>1, <4>2 DEF Clean, Out, Outs
      <3>2. CASE ~locked
        <4>1. Into(Passes(Out(held), e, FALSE))
          BY <1>9, <3>2 DEF FilterStopped
        <4>2. Clean(Passes(Out(held), e, FALSE)) /\ Passes(Out(held), e, FALSE).app.last = e.n
          BY <1>2, <1>5, <3>2, PassesClean
        <4> DEFINE out == Passes(Out(held), e, FALSE)
        <4> HIDE DEF out
        <4>3. Clean(Out(held))' /\ app'.last = out.app.last
          BY <4>1, <4>2, IntoIs DEF out
        <4>4. app'.last = e.n
          BY <4>2, <4>3 DEF out
        <4> QED BY <1>2, <4>3, <4>4
      <3> QED BY <3>1, <3>2
    <2>2. Ahead'
      BY <1>2, <1>9, <2>1 DEF FilterStopped, Ahead
    <2> QED BY <1>7, <1>9, <2>1, <2>2, PartsNext DEF FilterStopped
  <1>10. CASE FilterLocked(e)
    <2>1. CancelPending(FALSE, held) /\ runtime # "stopped"
      BY <1>10 DEF FilterLocked
    <2>2. held \in [Controls -> Dispositions]
      BY <1>2 DEF Clean, Out, Outs
    <2>3. queue' = <<>> /\ timer' = FALSE /\ Clean(Out(held))' /\ app'.last <= events
      BY <2>1, <2>2, CancelKeeps
    <2>4. app'.last \in 0..MaxEvents
      BY <2>3 DEF Clean, Out, Outs
    <2>5. Ahead'
      BY <1>2, <1>3, <2>3, <2>4 DEF Ahead
    <2> QED BY <1>3, <1>6, <1>10, <2>3, <2>5, EmptyQueued, PartsNext DEF FilterLocked, Rest
  <1>11. ASSUME NEW out, runtime # "stopped", ~locked, Into(out), Clean(out), out.app.last = e.n,
                queue = <<>>, PassesBy(e)
         PROVE  IInv'
    <2>1. Clean(Out(held))' /\ app'.last = e.n
      BY <1>11, IntoIs
    <2>2. Ahead'
      BY <1>2, <1>11, <2>1 DEF Ahead, PassesBy
    <2> QED BY <1>7, <1>11, <2>1, <2>2, PartsNext
  <1>12. CASE FilterBypassed(e)
    <2>1. queue = <<>> /\ runtime # "stopped" /\ ~locked
      BY <1>3, <1>12 DEF FilterBypassed, Filtered, Decidable
    <2>2. Clean(Follows(Out(DiscardStale(e)), e)) /\ Follows(Out(DiscardStale(e)), e).app.last = e.n
      BY <1>2, <1>5, <2>1, FollowsClean
    <2> QED BY <1>11, <1>12, <2>1, <2>2 DEF FilterBypassed
  <1>13. CASE FilterAbsent(e)
    <2>1. queue = <<>> /\ runtime # "stopped" /\ ~locked
      BY <1>3, <1>13 DEF FilterAbsent, Filtered, Decidable
    <2> DEFINE out == Passes(Out(DiscardStale(e)), e, FALSE)
    <2>2. Clean(out) /\ out.app.last = e.n
      BY <1>2, <1>5, <2>1, PassesClean
    <2> QED BY <1>11, <1>13, <2>1, <2>2 DEF FilterAbsent
  <1>14. CASE FilterUnmatched(e)
    <2>1. queue = <<>> /\ runtime # "stopped" /\ ~locked
      BY <1>14 DEF FilterUnmatched, Policed, Filtered, Holds
    <2> DEFINE from == Out(DiscardStale(e))
               out == IF Reserves(e) THEN Keeps(Passes(from, e, TRUE), e, "reserve")
                      ELSE IF from.held[e.k] # "none" THEN Follows(from, e)
                      ELSE Keeps(Passes(from, e, FALSE), e, "forward")
    <2>2. Into(out) /\ PassesBy(e)
      BY <1>14 DEF FilterUnmatched
    <2>3. \A c \in BOOLEAN : Clean(Passes(from, e, c)) /\ Passes(from, e, c).app.last = e.n
      BY <1>2, <1>5, <2>1, PassesClean
    <2>4. Clean(Follows(from, e)) /\ Follows(from, e).app.last = e.n
      BY <1>2, <1>5, <2>1, FollowsClean
    <2>5. \A c \in BOOLEAN, d \in {"reserve", "forward"} :
             /\ Clean(Keeps(Passes(from, e, c), e, d))
             /\ Keeps(Passes(from, e, c), e, d).app.last = e.n
      BY <2>3, KeepsClean DEF Dispositions
    <2>6. Clean(out) /\ out.app.last = e.n
      <3> HIDE DEF from
      <3> QED BY <2>4, <2>5
    <2> HIDE DEF out
    <2> QED BY <1>11, <2>1, <2>2, <2>6
  <1>15. CASE FilterOverflows(e)
    <2> DEFINE from == Out(Unreserved(DiscardStale(e)))
               all == AllLeave(TRUE, from, queue)
               out == Passes(all, e, FALSE)
    <2>1. /\ queue' = <<>> /\ timer' = FALSE /\ bypassed' = TRUE /\ asked' = asked
          /\ Into(out) /\ runtime # "stopped" /\ ~locked
      BY <1>15 DEF FilterOverflows, ForwardAll, Policed, Filtered
    <2>2. Clean(from) /\ from.app = app
      BY <1>2, HeldTyped DEF Clean, Out, Outs
    <2>3. InOrder(from, queue)
      BY <1>3, <2>1, <2>2 DEF InOrder, Queued, Ahead
    <2>4. Clean(all) /\ all.app.last = IF queue = <<>> THEN app.last ELSE queue[Len(queue)].n
      <3> HIDE DEF from
      <3> QED BY <1>2, <2>1, <2>2, <2>3, AllClean
    <2>5. queue # <<>> => queue[Len(queue)].n <= events /\ queue[Len(queue)].n \in Nat
      <3>1. queue \in Seq(Held) /\ (queue # <<>> => Len(queue) \in 1..Len(queue))
        BY <1>3 DEF Queued
      <3> QED BY <1>3, <3>1, QueueTyped DEF Queued
    <2>6. all.app.last < e.n
      <3> HIDE DEF all
      <3> QED BY <1>2, <1>3, <2>4, <2>5
    <2>7. Clean(out) /\ out.app.last = e.n
      <3> HIDE DEF all
      <3> QED BY <1>2, <2>1, <2>4, <2>6, PassesClean
    <2> HIDE DEF out
    <2>8. Clean(Out(held))' /\ app'.last = e.n
      BY <2>1, <2>7, IntoIs
    <2>9. Ahead'
      BY <1>2, <2>1, <2>8 DEF Ahead
    <2> QED BY <1>3, <1>6, <2>1, <2>8, <2>9, EmptyQueued, PartsNext DEF Rest
  <1>16. CASE FilterHolds(e)
    <2> DEFINE p == [n |-> e.n, k |-> e.k, phase |-> e.phase, stamp |-> policy.rev,
                     matched |-> Matches(e), reserved |-> Reserves(e)]
    <2>1. /\ runtime # "stopped" /\ ~locked /\ ~Bypass
          /\ policy.handlers.present /\ Len(queue) < MaxQueue
      BY <1>3, <1>16, Facts DEF FilterHolds, Policed, Filtered, Full, Queued
    <2>2. policy.rev \in 1..MaxRevision
      BY <1>3 DEF Rest
    <2>3. p \in Held /\ p.n = e.n /\ p.stamp = policy.rev
      <3>1. Matches(e) \in BOOLEAN /\ Reserves(e) \in BOOLEAN
        BY DEF Matches, Reserves
      <3> QED BY <1>2, <2>2, <3>1, Facts DEF Held
    <2>4. Request(p) \in [n : 1..MaxEvents, stamp : 1..MaxRevision]
      BY <1>2, <2>2 DEF Request
    <2>5. \/ /\ queue' = Append(queue, p)
             /\ asked' = IF queue = <<>> THEN Append(asked, Request(p)) ELSE asked
             /\ timer' = (timer \/ queue = <<>>)
             /\ held' = DiscardStale(e) /\ bypassed' = bypassed /\ app' = app
          \/ /\ queue = <<>> /\ bypassed' = TRUE
             /\ Into(Opens(Out(DiscardStale(e)), p))
             /\ queue' = queue /\ asked' = asked /\ timer' = timer
      BY <1>16 DEF FilterHolds
    <2> HIDE DEF p
    <2>6. CASE /\ queue' = Append(queue, p)
               /\ asked' = IF queue = <<>> THEN Append(asked, Request(p)) ELSE asked
               /\ timer' = (timer \/ queue = <<>>)
               /\ held' = DiscardStale(e) /\ bypassed' = bypassed /\ app' = app
      <3>1. Clean(Out(held))'
        BY <1>2, <2>6 DEF Out
      <3>2. Rest'
        <4>1. asked \in Seq([n : 1..MaxEvents, stamp : 1..MaxRevision])
              /\ timer \in BOOLEAN /\ bypassed \in BOOLEAN
          BY <1>3 DEF Rest
        <4>2. asked' \in Seq([n : 1..MaxEvents, stamp : 1..MaxRevision])
          <5> DEFINE R == [n : 1..MaxEvents, stamp : 1..MaxRevision]
          <5>1. asked \in Seq(R) /\ Request(p) \in R
            BY <2>4, <4>1
          <5> HIDE DEF R
          <5>2. asked' \in Seq(R)
            BY <2>6, <5>1
          <5> QED BY <5>2 DEF R
        <4> QED BY <1>6, <2>6, <4>1, <4>2
      <3>3. queue \in Seq(Held) /\ Len(queue') = Len(queue) + 1 /\ queue' \in Seq(Held)
        BY <1>3, <2>3, <2>6 DEF Queued
      <3>4. /\ \A i \in 1..Len(queue) : queue'[i] = queue[i] /\ i \in 1..Len(queue')
            /\ queue'[Len(queue')] = p
            /\ \A i \in 1..Len(queue') : i = Len(queue') \/ i \in 1..Len(queue)
        BY <2>6, <3>3
      <3>5. \A i \in 1..Len(queue) : queue[i].n \in Nat /\ queue[i].n <= events
        BY <1>3, QueueTyped DEF Queued
      <3>6. Queued'
        <4>1. \A i \in 1..Len(queue') : queue'[i].n <= events' /\ queue'[i].stamp \in 1..MaxRevision
          <5>1. \A i \in 1..Len(queue) : queue[i].stamp \in 1..MaxRevision
            BY <1>3 DEF Queued
          <5> QED BY <1>2, <1>3, <2>2, <2>3, <3>4, <3>5, <5>1
        <4>2. ASSUME NEW i \in 1..Len(queue'), NEW j \in 1..Len(queue'), i < j
              PROVE  queue'[i].n < queue'[j].n
          <5>1. i \in 1..Len(queue)
            BY <3>3, <4>2
          <5>2. CASE j \in 1..Len(queue)
            BY <1>3, <3>4, <4>2, <5>1, <5>2 DEF Queued
          <5>3. CASE j = Len(queue')
            <6>1. queue'[j].n = events + 1 /\ queue'[i].n = queue[i].n
              BY <1>2, <2>3, <3>4, <5>1, <5>3
            <6> QED BY <1>3, <3>5, <5>1, <6>1
          <5> QED BY <3>4, <5>2, <5>3
        <4>3. Len(queue') <= MaxQueue
          BY <2>1, <3>3, Facts
        <4> QED BY <3>3, <4>1, <4>2, <4>3 DEF Queued
      <3>7. Ahead'
        <4>1. app'.last <= events'
          BY <1>2, <2>6 DEF Clean, Out, Outs
        <4>2. \A i \in 1..Len(queue') : app.last < queue'[i].n
          BY <1>2, <1>3, <2>1, <2>3, <3>4 DEF Ahead
        <4> QED BY <1>2, <2>1, <2>6, <4>1, <4>2 DEF Ahead
      <3>8. Decidable'
        BY <1>2, <2>1, <2>6 DEF Decidable, Bypass
      <3> QED BY <3>1, <3>2, <3>6, <3>7, <3>8, PartsNext
    <2>7. CASE /\ queue = <<>> /\ bypassed' = TRUE
               /\ Into(Opens(Out(DiscardStale(e)), p))
               /\ queue' = queue /\ asked' = asked /\ timer' = timer
      <3> DEFINE out == Opens(Out(DiscardStale(e)), p)
      <3>1. Clean(out) /\ out.app.last = e.n
        BY <1>2, <1>5, <2>1, <2>3, LeavesClean DEF Leaves
      <3>2. Clean(Out(held))' /\ app'.last = e.n
        <4> HIDE DEF out
        <4>1. Into(out)
          BY <2>7 DEF out
        <4> QED BY <3>1, <4>1, IntoIs
      <3>3. Ahead'
        BY <1>2, <2>1, <2>7, <3>2 DEF Ahead
      <3> QED BY <1>3, <1>6, <2>7, <3>2, <3>3, EmptyQueued, PartsNext DEF Rest
    <2> QED BY <2>5, <2>6, <2>7
  <1> QED BY <1>9, <1>10, <1>12, <1>13, <1>14, <1>15, <1>16 DEF Filter, e

-----------------------------------------------------------------------------
(* What the worker decides.                                                 *)

(* A part of a queue that is in order is in order.                          *)
LEMMA PartOf ==
  ASSUME Queued, NEW a \in 1..Len(queue) + 1, NEW b \in 0..Len(queue), a <= b + 1
  PROVE  LET q == SubSeq(queue, a, b)
         IN  /\ q \in Seq(Held) /\ Len(q) = b - a + 1
             /\ \A i \in 1..Len(q) : q[i] = queue[a + i - 1] /\ a + i - 1 \in 1..Len(queue)
             /\ \A i, j \in 1..Len(q) : i < j => q[i].n < q[j].n
  <1> DEFINE q == SubSeq(queue, a, b)
  <1>1. queue \in Seq(Held) /\ Len(queue) \in Nat
    BY DEF Queued
  <1>2. Len(q) = b - a + 1 /\ \A i \in 1..Len(q) : q[i] = queue[a + i - 1]
    BY <1>1
  <1>3. \A i \in 1..Len(q) : a + i - 1 \in 1..Len(queue)
    BY <1>1, <1>2
  <1>4. q \in Seq(Held)
    <2>1. \A i \in 1..Len(queue) : queue[i] \in Held
      BY <1>1
    <2> HIDE DEF q
    <2>2. \A i \in a..b : queue[i] \in Held
      BY <1>1, <2>1
    <2> QED BY <1>1, <2>2, SubSeqProperties DEF q
  <1>5. ASSUME NEW i \in 1..Len(q), NEW j \in 1..Len(q), i < j PROVE q[i].n < q[j].n
    <2>1. a + i - 1 < a + j - 1
      BY <1>2, <1>5
    <2> QED BY <1>2, <1>3, <2>1 DEF Queued
  <1> HIDE DEF q
  <1> QED BY <1>2, <1>3, <1>4, <1>5 DEF q

(* A decision of the worker on the head keeps it: the head leaves, the      *)
(* unmatched after it with it, and the rest stays in order.                 *)
LEMMA DecisionKeeps ==
  ASSUME IInv, NEW consume \in BOOLEAN, DecisionAccepted(consume)
  PROVE  IInv'
  <1>1. PICK k \in 0..Len(queue) - 1 :
           LET e == Head(queue)
               prior == held[e.k]
               final == IF prior = "none" THEN consume ELSE Withheld(prior)
               decided == Keeps(Passes(Out(held), e, final), e,
                                IF final THEN "consume" ELSE "forward")
               out == AllLeave(FALSE, decided, SubSeq(queue, 2, k + 1))
               rest == SubSeq(queue, k + 2, Len(queue))
           IN \/ /\ Into(out) /\ queue' = rest
                 /\ timer' = Rearms(rest)
                 /\ asked' = IF rest = <<>> THEN Tail(asked)
                             ELSE Append(Tail(asked), Request(Head(rest)))
                 /\ bypassed' = bypassed
              \/ /\ rest # <<>> /\ Into(AllLeave(TRUE, out, rest))
                 /\ queue' = <<>> /\ timer' = FALSE /\ bypassed' = TRUE
                 /\ asked' = Tail(asked)
    BY DEF DecisionAccepted
  <1> DEFINE e == Head(queue)
             prior == held[e.k]
             final == IF prior = "none" THEN consume ELSE Withheld(prior)
             decided == Keeps(Passes(Out(held), e, final), e,
                              IF final THEN "consume" ELSE "forward")
             ready == SubSeq(queue, 2, k + 1)
             out == AllLeave(FALSE, decided, ready)
             rest == SubSeq(queue, k + 2, Len(queue))
  <1>2. Rest /\ Clean(Out(held)) /\ Queued /\ Ahead /\ Decidable
    BY Parts
  <1>3. /\ asked # <<>> /\ runtime # "stopped" /\ queue # <<>>
        /\ policy' = policy /\ runtime' = runtime /\ locked' = locked
        /\ pressed' = pressed /\ events' = events
    BY DEF DecisionAccepted, Current
  <1>4. ~locked' /\ ~Bypass /\ policy.handlers.present
    BY <1>2, <1>3 DEF Ahead, Decidable, Rest
  <1>5. queue \in Seq(Held) /\ Len(queue) \in Nat \ {0} /\ e = queue[1] /\ 1 \in 1..Len(queue)
    BY <1>2, <1>3 DEF Queued
  <1>6. e \in Held /\ e.n \in 1..MaxEvents /\ e.k \in Controls /\ app.last < e.n
    <2>1. e \in Held /\ app.last < e.n
      BY <1>2, <1>3, <1>5 DEF Ahead
    <2>2. \A h \in Held : h.n \in 1..MaxEvents /\ h.k \in Controls
      BY DEF Held
    <2> HIDE DEF e
    <2> QED BY <2>1, <2>2
  <1>7. Clean(decided) /\ decided.app.last = e.n
    <2>1. final \in BOOLEAN
      BY WithheldBoolean
    <2> HIDE DEF final, e
    <2>2. Out(held).app.last < e.n
      BY <1>6 DEF Out
    <2>3. Clean(Passes(Out(held), e, final)) /\ Passes(Out(held), e, final).app.last = e.n
      BY <1>2, <1>4, <1>6, <2>1, <2>2, PassesClean
    <2>4. (IF final THEN "consume" ELSE "forward") \in Dispositions
      BY DEF Dispositions
    <2> QED BY <2>3, <2>4, KeepsClean
  <1>8. /\ ready \in Seq(Held) /\ Len(ready) = k
        /\ \A i \in 1..Len(ready) : ready[i] = queue[i + 1] /\ i + 1 \in 1..Len(queue)
        /\ \A i, j \in 1..Len(ready) : i < j => ready[i].n < ready[j].n
    <2>1. 2 \in 1..Len(queue) + 1 /\ k + 1 \in 0..Len(queue) /\ 2 <= k + 1 + 1
      BY <1>5
    <2>2. Len(ready) = k + 1 - 2 + 1
      BY <1>2, <2>1, PartOf
    <2>3. \A i \in 1..Len(ready) : ready[i] = queue[2 + i - 1] /\ 2 + i - 1 \in 1..Len(queue)
      BY <1>2, <2>1, PartOf
    <2>4. ready \in Seq(Held) /\ \A i, j \in 1..Len(ready) : i < j => ready[i].n < ready[j].n
      BY <1>2, <2>1, PartOf
    <2> HIDE DEF ready
    <2>5. \A i \in 1..Len(ready) : 2 + i - 1 = i + 1
      BY <2>4
    <2> QED BY <2>2, <2>3, <2>4, <2>5
  <1>9. /\ rest \in Seq(Held) /\ Len(rest) = Len(queue) - (k + 1)
        /\ \A i \in 1..Len(rest) : rest[i] = queue[k + 1 + i] /\ k + 1 + i \in 1..Len(queue)
        /\ \A i, j \in 1..Len(rest) : i < j => rest[i].n < rest[j].n
    <2>1. k + 2 \in 1..Len(queue) + 1 /\ Len(queue) \in 0..Len(queue) /\ k + 2 <= Len(queue) + 1
      BY <1>5
    <2>2. Len(rest) = Len(queue) - (k + 2) + 1
      BY <1>2, <2>1, PartOf
    <2>3. \A i \in 1..Len(rest) : rest[i] = queue[k + 2 + i - 1] /\ k + 2 + i - 1 \in 1..Len(queue)
      BY <1>2, <2>1, PartOf
    <2>4. rest \in Seq(Held) /\ \A i, j \in 1..Len(rest) : i < j => rest[i].n < rest[j].n
      BY <1>2, <2>1, PartOf
    <2> HIDE DEF rest
    <2>5. \A i \in 1..Len(rest) : k + 2 + i - 1 = k + 1 + i
      BY <2>4
    <2> QED BY <1>5, <2>2, <2>3, <2>4, <2>5
  <1> HIDE DEF ready, rest, decided
  <1>10. InOrder(decided, ready)
    <2>1. \A i \in 1..Len(ready) : e.n < ready[i].n
      <3> TAKE i \in 1..Len(ready)
      <3>1. ready[i] = queue[i + 1] /\ i + 1 \in 1..Len(queue) /\ 1 < i + 1
        BY <1>8
      <3> QED BY <1>2, <1>5, <3>1 DEF Queued
    <2> QED BY <1>7, <1>8, <2>1 DEF InOrder
  <1>11. /\ Clean(out) /\ out.app.last = IF ready = <<>> THEN e.n ELSE ready[Len(ready)].n
    BY <1>4, <1>7, <1>10, AllClean
  <1> HIDE DEF out
  <1>12. out.app.last = queue[k + 1].n /\ k + 1 \in 1..Len(queue) /\ queue[k + 1].n \in Nat
    <2>1. k + 1 \in 1..Len(queue)
      BY <1>5
    <2>2. ready = <<>> => k = 0
      BY <1>8
    <2>3. ready # <<>> => Len(ready) \in 1..Len(ready) /\ k # 0
      BY <1>8
    <2> QED BY <1>2, <1>5, <1>8, <1>11, <2>1, <2>2, <2>3, QueueTyped
  <1>13. \A i \in 1..Len(rest) : out.app.last < rest[i].n
    <2> TAKE i \in 1..Len(rest)
    <2>1. rest[i] = queue[k + 1 + i] /\ k + 1 + i \in 1..Len(queue) /\ k + 1 < k + 1 + i
      BY <1>9
    <2> QED BY <1>2, <1>12, <2>1 DEF Queued
  <1>14. asked \in Seq([n : 1..MaxEvents, stamp : 1..MaxRevision])
         /\ Tail(asked) \in Seq([n : 1..MaxEvents, stamp : 1..MaxRevision])
    <2> DEFINE R == [n : 1..MaxEvents, stamp : 1..MaxRevision]
    <2>1. asked \in Seq(R)
      BY <1>2 DEF Rest
    <2> HIDE DEF R
    <2>2. Tail(asked) \in Seq(R)
      BY <1>3, <2>1
    <2> QED BY <2>1, <2>2 DEF R
  <1>15. CASE /\ Into(out) /\ queue' = rest
              /\ timer' = Rearms(rest)
              /\ asked' = IF rest = <<>> THEN Tail(asked)
                          ELSE Append(Tail(asked), Request(Head(rest)))
              /\ bypassed' = bypassed
    <2>1. Clean(Out(held))' /\ app'.last = out.app.last
      BY <1>11, <1>15, IntoIs
    <2>2. \A i \in 1..Len(rest) : rest[i].n <= events /\ rest[i].stamp \in 1..MaxRevision
      BY <1>2, <1>9 DEF Queued
    <2>3. Rest'
      <3> DEFINE R == [n : 1..MaxEvents, stamp : 1..MaxRevision]
      <3>1. rest # <<>> => Request(Head(rest)) \in R
        <4>1. ASSUME rest # <<>> PROVE Request(rest[1]) \in R
          <5>1. 1 \in 1..Len(rest) /\ rest[1] \in Held
            BY <1>9, <4>1
          <5> QED BY <2>2, <5>1 DEF Request, Held
        <4>2. rest # <<>> => Head(rest) = rest[1]
          BY <1>9
        <4> QED BY <4>1, <4>2
      <3>2. Tail(asked) \in Seq(R)
        BY <1>14
      <3> HIDE DEF R
      <3>3. asked' \in Seq(R)
        BY <1>15, <3>1, <3>2
      <3>4. timer' \in BOOLEAN
        BY <1>15 DEF Rearms
      <3> QED BY <1>2, <1>3, <1>15, <3>3, <3>4 DEF R, Rest
    <2>4. Queued'
      <3>1. Len(rest) <= MaxQueue
        BY <1>2, <1>5, <1>9, Facts DEF Queued
      <3> QED BY <1>3, <1>9, <1>15, <2>2, <3>1 DEF Queued
    <2>5. Ahead'
      <3>1. out.app.last <= events
        BY <1>2, <1>12 DEF Queued
      <3> QED BY <1>3, <1>4, <1>13, <1>15, <2>1, <3>1 DEF Ahead
    <2>6. Decidable'
      BY <1>3, <1>4, <1>15 DEF Decidable, Bypass
    <2> QED BY <2>1, <2>3, <2>4, <2>5, <2>6, PartsNext
  <1>16. CASE /\ rest # <<>> /\ Into(AllLeave(TRUE, out, rest))
              /\ queue' = <<>> /\ timer' = FALSE /\ bypassed' = TRUE
              /\ asked' = Tail(asked)
    <2> DEFINE all == AllLeave(TRUE, out, rest)
    <2>1. InOrder(out, rest)
      BY <1>9, <1>13 DEF InOrder
    <2>2. Clean(all) /\ all.app.last = rest[Len(rest)].n
      BY <1>4, <1>11, <1>16, <2>1, AllClean
    <2>3. rest[Len(rest)].n <= events
      <3>1. Len(rest) \in 1..Len(rest)
        BY <1>9, <1>16
      <3> QED BY <1>2, <1>9, <3>1 DEF Queued
    <2> HIDE DEF all
    <2>4. Clean(Out(held))' /\ app'.last <= events
      <3>1. Into(all)
        BY <1>16 DEF all
      <3>2. Clean(Out(held))' /\ app'.last = all.app.last
        BY <2>2, <3>1, IntoIs
      <3> QED BY <2>2, <2>3, <3>2
    <2>5. Rest'
      BY <1>2, <1>3, <1>14, <1>16 DEF Rest
    <2>6. Ahead'
      BY <1>3, <1>16, <2>4 DEF Ahead
    <2> QED BY <1>16, <2>4, <2>5, <2>6, EmptyQueued, PartsNext
  <1> QED BY <1>1, <1>15, <1>16 DEF out, ready, rest, decided

-----------------------------------------------------------------------------
(* Every other step.                                                        *)

(* What changes neither what has left nor the queue keeps it.               *)
LEMMA QueueStays ==
  ASSUME IInv, UNCHANGED <<queue, held, app, events>>, Rest',
         runtime' # "stopped" => runtime # "stopped",
         locked' => locked \/ queue = <<>> \/ runtime' = "stopped",
         (Bypass' => Bypass \/ queue = <<>>),
         policy'.handlers.present \/ ~policy.handlers.present \/ queue = <<>>
  PROVE  IInv'
  <1>1. Rest /\ Clean(Out(held)) /\ Queued /\ Ahead /\ Decidable
    BY Parts
  <1>2. Clean(Out(held))'
    BY <1>1 DEF Out
  <1>3. Queued' /\ Ahead' /\ Decidable'
    BY <1>1 DEF Queued, Ahead, Decidable, Rest
  <1> QED BY <1>2, <1>3, PartsNext

(* What is cancelled leaves the rest as it was.                             *)
LEMMA Cancelled ==
  ASSUME IInv, NEW forward \in BOOLEAN, CancelPending(forward, held), runtime # "stopped",
         forward => ~locked' \/ queue = <<>>, timer' = FALSE => Rest', events' = events
  PROVE  IInv'
  <1>1. held \in [Controls -> Dispositions] /\ events \in Nat
    BY Parts DEF Clean, Out, Outs, Rest
  <1>2. queue' = <<>> /\ timer' = FALSE /\ Clean(Out(held))' /\ app'.last <= events
    BY <1>1, CancelKeeps
  <1>3. Ahead'
    BY <1>2 DEF Ahead
  <1> QED BY <1>2, <1>3, EmptyQueued, PartsNext

(* Every step keeps the invariant.                                          *)
LEMMA StepKeeps == IInv /\ [Next]_vars => IInv'
  <1> SUFFICES ASSUME IInv, [Next]_vars PROVE IInv'
    OBVIOUS
  <1>1. Rest /\ Clean(Out(held)) /\ Queued /\ Ahead /\ Decidable
    BY Parts
  <1>2. ASSUME NEW k \in Controls, Press(k) \/ Repeat(k) \/ Release(k) PROVE IInv'
    BY <1>2, FilterKeeps DEF Press, Repeat, Release
  <1>3. CASE DecisionLate \/ DecisionRejected
    <2> DEFINE R == [n : 1..MaxEvents, stamp : 1..MaxRevision]
    <2>1. asked \in Seq(R) /\ asked # <<>>
      BY <1>1, <1>3 DEF Rest, DecisionLate, DecisionRejected
    <2> HIDE DEF R
    <2>2. asked' = Tail(asked)
      BY <1>3 DEF DecisionLate, DecisionRejected
    <2>3. asked' \in Seq(R)
      BY <2>1, <2>2
    <2>4. Rest'
      BY <1>1, <1>3, <2>3 DEF R, Rest, DecisionLate, DecisionRejected
    <2> QED BY <1>1, <1>3, <2>4, QueueStays DEF DecisionLate, DecisionRejected, Bypass
  <1>4. ASSUME NEW consume \in BOOLEAN, DecisionAccepted(consume) PROVE IInv'
    BY <1>4, DecisionKeeps
  <1>5. CASE DecisionTimesOut
    <2>1. locked => queue = <<>>
      BY <1>1, <1>5 DEF DecisionTimesOut, Ahead
    <2>2. timer' = FALSE => Rest'
      BY <1>1, <1>5 DEF DecisionTimesOut, Rest
    <2> QED BY <1>5, <2>1, <2>2, Cancelled DEF DecisionTimesOut
  <1>6. ASSUME NEW handlers \in Handlers, Reload(handlers) PROVE IInv'
    <2>1. policy' \in [rev : 1..MaxRevision, handlers : Handlers]
      <3>1. policy \in [rev : 1..MaxRevision, handlers : Handlers] /\ policy.rev \in 1..MaxRevision
        BY <1>1 DEF Rest
      <3>2. CASE handlers = policy.handlers
        BY <1>6, <3>1, <3>2 DEF Reload
      <3>3. CASE handlers # policy.handlers
        <4>1. policy.rev + 1 \in 1..MaxRevision
          BY <1>6, <3>1, <3>3, Facts DEF Reload
        <4> QED BY <1>6, <3>3, <4>1 DEF Reload
      <3> QED BY <3>2, <3>3
    <2>2. timer' = FALSE => Rest'
      BY <1>1, <1>6, <2>1 DEF Reload, Rest
    <2>3. (~locked) \in BOOLEAN
      BY <1>1 DEF Rest
    <2> QED BY <1>6, <2>2, <2>3, Cancelled DEF Reload
  <1>7. ASSUME NEW handlers \in Handlers, Commit(handlers) PROVE IInv'
    <2>1. policy' \in [rev : 1..MaxRevision, handlers : Handlers] /\ policy'.handlers.present
      <3>1. policy.rev + 1 \in 1..MaxRevision
        BY <1>1, <1>7, Facts DEF Commit, Rest
      <3> QED BY <1>7, <3>1 DEF Commit
    <2>2. Rest'
      BY <1>1, <1>7, <2>1 DEF Commit, Rest
    <2> QED BY <1>7, <2>1, <2>2, QueueStays DEF Commit, Bypass
  <1>8. CASE Suspend
    <2>1. asked' \in Seq([n : 1..MaxEvents, stamp : 1..MaxRevision])
      BY <1>8 DEF Suspend
    <2>2. timer' = FALSE => Rest'
      BY <1>1, <1>8, <2>1 DEF Suspend, Rest
    <2>3. (~locked) \in BOOLEAN
      BY <1>1 DEF Rest
    <2> QED BY <1>8, <2>2, <2>3, Cancelled DEF Suspend, Suspends
  <1>9. CASE Resume
    <2>1. Rest' /\ (Bypass' => Bypass)
      BY <1>1, <1>9 DEF Resume, Rest, Bypass
    <2> QED BY <1>9, <2>1, QueueStays DEF Resume
  <1>10. CASE Abort
    <2>1. Rest' /\ (Bypass' => Bypass)
      BY <1>1, <1>10 DEF Abort, Rest, Bypass
    <2> QED BY <1>10, <2>1, QueueStays DEF Abort
  <1>11. CASE Lock
    <2>1. CASE runtime = "stopped"
      <3>1. Rest'
        BY <1>1, <1>11, <2>1 DEF Lock, Rest
      <3> QED BY <1>11, <2>1, <3>1, QueueStays DEF Lock, Bypass
    <2>2. CASE runtime # "stopped"
      <3>1. timer' = FALSE => Rest'
        BY <1>1, <1>11 DEF Lock, Rest
      <3> QED BY <1>11, <2>2, <3>1, Cancelled DEF Lock, Locks
    <2> QED BY <2>1, <2>2
  <1>12. CASE Unlock
    <2>1. Clean(Out(held))' /\ app'.last = app.last
      BY <1>1, <1>12 DEF Unlock, Clean, Out, Outs, Rest
    <2>2. Rest' /\ Queued' /\ Ahead' /\ Decidable'
      BY <1>1, <1>12, <2>1 DEF Unlock, Rest, Queued, Ahead, Decidable, Bypass
    <2> QED BY <2>1, <2>2, PartsNext
  <1>13. CASE UNCHANGED vars
    BY <1>13, <1>1, PartsNext DEF vars, Rest, Out, Queued, Ahead, Decidable, Bypass
  <1> QED BY <1>2, <1>3, <1>4, <1>5, <1>6, <1>7, <1>8, <1>9, <1>10, <1>11, <1>12, <1>13
          DEF Next, Decision

(* Nothing has happened at first.                                           *)
LEMMA InitKeeps == Init => IInv
  <1> SUFFICES ASSUME Init PROVE IInv
    OBVIOUS
  <1>1. Rest
    <2>1. policy \in [rev : 1..MaxRevision, handlers : Handlers]
      BY Facts DEF Init
    <2>2. asked \in Seq([n : 1..MaxEvents, stamp : 1..MaxRevision])
      BY DEF Init
    <2>3. 0 \in 0..MaxEvents
      BY Facts
    <2> QED BY <2>1, <2>2, <2>3 DEF Init, Rest
  <1>2. Clean(Out(held))
    BY HeldTyped, Facts DEF Init, Clean, Out, Outs, Clear, Dispositions
  <1>3. Queued /\ Ahead /\ Decidable
    BY Facts DEF Init, Queued, Ahead, Decidable
  <1> QED BY <1>1, <1>2, <1>3, Parts

(* So it always holds.                                                      *)
LEMMA Inductive == Spec => []IInv
  BY InitKeeps, StepKeeps, PTL DEF Spec

(* Events reach the application in the order they happened, the queue keeps *)
(* to its limit, and nothing is held when nobody would decide it, whatever  *)
(* the worker answers and whatever ends the policy.                         *)
THEOREM OrderHeld == Spec => []QueueInOrder
  <1>1. IInv => QueueInOrder
    BY DEF IInv, QueueInOrder, OrderKept
  <1> QED BY <1>1, Inductive, PTL

(* Nothing that was held for the old session is delivered while the lock    *)
(* screen has the input.                                                    *)
THEOREM LockHearsNothing == Spec => []NothingIntoLock
  <1>1. IInv => NothingIntoLock
    BY DEF IInv, NothingIntoLock
  <1> QED BY <1>1, Inductive, PTL
=============================================================================
