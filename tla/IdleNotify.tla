------------------------------ MODULE IdleNotify ------------------------------
(***************************************************************************)
(* Idle daemons (protocols/idle-notify).                                   *)
(*                                                                         *)
(* A notification is a persistent idle watch of Mutter's idle monitor and, *)
(* while the client believes the user idle, a one-shot watch for the       *)
(* user's return.  The monitor forgets a one-shot watch when it fires and  *)
(* fires the idle watch again when an inhibitor goes.                      *)
(***************************************************************************)
EXTENDS Naturals

CONSTANTS Notifications,
          MaxIdle,              \* bound: the longest idle time and timeout, in ticks
          MaxChanges            \* bound: returns of the user and changes of the inhibitor

IdleNotifyAssumption == MaxIdle \in Nat \ {0} /\ MaxChanges \in Nat

VARIABLES note,         \* per notification, see NewNote
          idleFor,      \* how long there was no input
          inhibited, changes

vars == <<note, idleFor, inhibited, changes>>

(* interval, strict   the timeout, at least one tick; ignores inhibitors     *)
(* ready      the idle watch is due once the interval is over                *)
(* watches    "active" when the one-shot watch exists in the monitor         *)
(* activeId   active_watch_id is set                                         *)
(* isIdle     is_idle; told   the last event, and repeated: one told twice   *)
NewNote == [state |-> "new", interval |-> 1, strict |-> FALSE, ready |-> FALSE, watches |-> {},
            activeId |-> FALSE, isIdle |-> FALSE, told |-> "resumed", repeated |-> FALSE]

Tells(n, event) == [n EXCEPT !.told = event, !.repeated = @ \/ n.told = event]
Change == changes < MaxChanges /\ changes' = changes + 1
Inhibits(n) == inhibited /\ ~n.strict

-----------------------------------------------------------------------------
\* create_notification, arm_idle_watch: a timeout of 0 becomes the shortest
Interval(timeout) == IF timeout > 0 THEN timeout ELSE 1

Create(i, timeout, strict) ==
  /\ note[i].state = "new"
  /\ note' = [note EXCEPT ![i] = [NewNote EXCEPT !.state = "live", !.interval = Interval(timeout),
                                    !.strict = strict, !.watches = {"idle"},
                                    !.ready = ~(inhibited /\ ~strict)]]
  /\ UNCHANGED <<idleFor, inhibited, changes>>

\* on_idle
IdleTwice(n) ==         \* mutant: a second firing is told again
  [Tells(n, "idled") EXCEPT !.isIdle = TRUE, !.activeId = TRUE,
                            !.watches = IF n.activeId THEN @ ELSE @ \cup {"active"}]
Idle(n) ==
  IF n.isIdle THEN n
  ELSE [Tells(n, "idled") EXCEPT !.isIdle = TRUE, !.activeId = TRUE,
                                 !.watches = IF n.activeId THEN @ ELSE @ \cup {"active"}]

\* The monitor's timer for the idle watch
Fires(i) ==
  /\ "idle" \in note[i].watches /\ note[i].ready /\ idleFor >= note[i].interval
  /\ note' = [note EXCEPT ![i] = [Idle(@) EXCEPT !.ready = FALSE]]
  /\ UNCHANGED <<idleFor, inhibited, changes>>

\* on_user_active; the monitor has removed the watch
ActiveKeepsId(n) ==     \* mutant: active_watch_id stays set
  IF n.isIdle THEN [Tells(n, "resumed") EXCEPT !.isIdle = FALSE] ELSE n
Active(n) ==
  LET m == [n EXCEPT !.activeId = FALSE]
  IN  IF n.isIdle THEN [Tells(m, "resumed") EXCEPT !.isIdle = FALSE] ELSE m

\* Input arrives: every one-shot watch fires, every idle watch starts over.
Input ==
  /\ Change /\ idleFor > 0 /\ idleFor' = 0
  /\ note' = [i \in Notifications |->
       LET n == [note[i] EXCEPT !.ready = "idle" \in note[i].watches /\ ~Inhibits(note[i])]
           m == [n EXCEPT !.watches = @ \ {"active"}]
       IN  IF "active" \in note[i].watches THEN Active(m) ELSE n]
  /\ UNCHANGED inhibited

Tick ==
  /\ idleFor < MaxIdle /\ idleFor' = idleFor + 1
  /\ UNCHANGED <<note, inhibited, changes>>

\* An inhibitor comes or goes: watches that respect it stop, or are due again.
Inhibit ==
  /\ Change /\ inhibited' = ~inhibited
  /\ note' = [i \in Notifications |->
       [note[i] EXCEPT !.ready = IF note[i].strict THEN @
                                 ELSE "idle" \in note[i].watches /\ ~inhibited']]
  /\ UNCHANGED idleFor

\* idle_notification_destroy
DestroyLeaves(n) == [n EXCEPT !.state = "gone", !.watches = @ \ {"idle"}]      \* mutant
Destroyed(n) ==
  [n EXCEPT !.state = "gone", !.watches = @ \ ({"idle"} \cup IF n.activeId THEN {"active"} ELSE {})]

Destroy(i) ==
  /\ note[i].state = "live" /\ note' = [note EXCEPT ![i] = Destroyed(@)]
  /\ UNCHANGED <<idleFor, inhibited, changes>>

-----------------------------------------------------------------------------
Init ==
  /\ note = [i \in Notifications |-> NewNote]
  /\ idleFor = 0 /\ inhibited = FALSE /\ changes = 0

NoteStep(i) ==
  \/ \E timeout \in 0..MaxIdle, strict \in BOOLEAN : Create(i, timeout, strict)
  \/ Fires(i) \/ Destroy(i)

Next == (\E i \in Notifications : NoteStep(i)) \/ Input \/ Tick \/ Inhibit

Spec == Init /\ [][Next]_vars

-----------------------------------------------------------------------------
(* Properties.                                                               *)

TypeOK ==
  /\ idleFor \in 0..MaxIdle /\ changes \in 0..MaxChanges
  /\ \A i \in Notifications : note[i].watches \subseteq {"idle", "active"}

\* A client that was told the user is idle hears of the return with the first input after it;
\* the events alternate, whatever inhibitors do in between; nothing fires for a notification
\* that is gone.
IdleSound ==
  /\ TypeOK
  /\ \A i \in Notifications :
       LET n == note[i]
       IN  /\ n.state = "live" /\ n.told = "idled" => idleFor >= n.interval /\ "active" \in n.watches
           /\ ~n.repeated
           /\ n.state = "gone" => n.watches = {}

\* The inductive invariant: a live notification waits for the user's return just when it was told
\* that the user is idle.
Notes == [state : {"new", "live", "gone"}, interval : Nat, strict : BOOLEAN, ready : BOOLEAN,
          watches : SUBSET {"idle", "active"}, activeId : BOOLEAN, isIdle : BOOLEAN,
          told : {"idled", "resumed"}, repeated : BOOLEAN]
NoteKept(n, time) ==
  /\ ~n.repeated
  /\ n.state # "live" => n.watches = {}
  /\ n.state = "live" =>
       /\ "idle" \in n.watches /\ (n.isIdle <=> n.told = "idled") /\ (n.activeId <=> n.isIdle)
       /\ ("active" \in n.watches <=> n.isIdle)
       /\ n.isIdle => time >= n.interval
IInv ==
  /\ TypeOK /\ note \in [Notifications -> Notes]
  /\ \A i \in Notifications : NoteKept(note[i], idleFor)
=============================================================================
