---------------------------- MODULE IdleService ----------------------------
(***************************************************************************)
(* The session service behind org.freedesktop.ScreenSaver and              *)
(* org.gnoblin.SessionIdle (src/src/idle.c): inhibitors held on behalf of  *)
(* bus clients, the user's activity as Mutter's idle monitor reports it,   *)
(* and whether the screen saver is active, from GNOME's screen saver while *)
(* that owns its name and from the compositor's lock state otherwise.      *)
(*                                                                         *)
(* What the session bus sends arrives in one order and is handled in turn. *)
(* A synchronous call is answered past that queue, and the world moves on  *)
(* between two of them: replacing the activity watches is a step per call. *)
(***************************************************************************)
EXTENDS Naturals, Sequences, FiniteSets, SequencesExt, Functions

CONSTANTS Senders,     \* clients of the bus that inhibit
          MaxCookies,  \* bound: inhibitors asked for
          MaxEvents    \* bound: changes of the environment

ServiceAssumption == MaxCookies \in Nat /\ MaxEvents \in Nat

VARIABLES
  bus,         \* messages of the session bus not yet handled, in order
  inhibitors,  \* cookie -> sender
  fds,         \* logind idle locks held, by cookie
  next,        \* next_cookie
  granted,     \* history: cookies answered and not given back by a sender still there
  on,          \* senders on the bus
  activity,    \* available, idle, the two watch ids, and the call replace_activity_watches is at
  user,        \* the idle monitor: up, the user idle, ids given, idle and active watches
  saver,       \* active, known, gnome_owned, the lock connection and its retry timer
  truth,       \* GNOME's saver on the bus, active in it, locked in the compositor
  stream,      \* what the compositor wrote and the lock monitor has not read
  served,      \* the compositor has subscribed the lock monitor
  unsure,      \* history: GNOME's screen saver did not answer when it took over
  events
vars == <<bus, inhibitors, fds, next, granted, on, activity, user, saver, truth, stream, served,
          unsure, events>>
inhibitVars == <<inhibitors, fds, next, granted, on>>
activityVars == <<activity, user>>
saverVars == <<saver, truth, stream, served, unsure>>

Happens == events < MaxEvents /\ events' = events + 1
Idle == activity.call = "none"     \* the main loop is not inside a handler
Send(m) == bus' = Append(bus, m)
Head1 == bus[1]
Takes(kind) == Idle /\ bus # <<>> /\ Head1.kind = kind /\ bus' = Tail(bus)

-----------------------------------------------------------------------------
(* Inhibitors *)

AsksInhibit(s) ==
  /\ s \in on /\ Happens /\ next + Len(bus) < MaxCookies
  /\ Send([kind |-> "Inhibit", sender |-> s])
  /\ UNCHANGED <<inhibitVars, activityVars, saverVars>>

\* UnInhibit of any cookie a client may try.
AsksUnInhibit(s) ==
  /\ s \in on /\ Happens
  /\ \E c \in 1..next : Send([kind |-> "UnInhibit", sender |-> s, cookie |-> c])
  /\ UNCHANGED <<inhibitVars, activityVars, saverVars>>

Leaves(s) ==
  /\ s \in on /\ Happens /\ on' = on \ {s}
  /\ granted' = {c \in granted : inhibitors[c] # s}
  /\ Send([kind |-> "Gone", sender |-> s])
  /\ UNCHANGED <<inhibitors, fds, next, activityVars, saverVars>>

Holding(c, s) == [k \in DOMAIN inhibitors \cup {c} |-> IF k = c THEN s ELSE inhibitors[k]]
\* handle_method_call of Inhibit: without logind's lock there is no cookie.
Inhibit ==
  /\ Takes("Inhibit")
  /\ \/ /\ next' = next + 1
        /\ inhibitors' = Holding(next + 1, Head1.sender)
        /\ fds' = fds \cup {next + 1}
        /\ granted' = granted \cup IF Head1.sender \in on THEN {next + 1} ELSE {}
     \/ UNCHANGED <<inhibitors, fds, next, granted>>
  /\ UNCHANGED <<on, activityVars, saverVars, events>>

\* Only the owner gives a cookie back; dropping the entry closes its descriptor.
MayDropAny(c, s) == c \in DOMAIN inhibitors
MayDrop(c, s) == c \in DOMAIN inhibitors /\ inhibitors[c] = s
DropKeepsFd(cs) == inhibitors' = Restrict(inhibitors, DOMAIN inhibitors \ cs) /\ fds' = fds
Drop(cs) == inhibitors' = Restrict(inhibitors, DOMAIN inhibitors \ cs) /\ fds' = fds \ cs

UnInhibit ==
  /\ Takes("UnInhibit")
  /\ IF MayDrop(Head1.cookie, Head1.sender)
     THEN Drop({Head1.cookie}) /\ granted' = IF inhibitors[Head1.cookie] = Head1.sender
                                             THEN granted \ {Head1.cookie} ELSE granted
     ELSE UNCHANGED <<inhibitors, fds, granted>>
  /\ UNCHANGED <<next, on, activityVars, saverVars, events>>

\* on_name_owner_changed of a unique name that left.
LeftNone(s) == {}
Left(s) == {c \in DOMAIN inhibitors : inhibitors[c] = s}
SenderGone ==
  /\ Takes("Gone") /\ Drop(Left(Head1.sender))
  /\ UNCHANGED <<next, granted, on, activityVars, saverVars, events>>

-----------------------------------------------------------------------------
(* Mutter's idle monitor (external), and the user *)

Fired(ids) == SetToSeq({[kind |-> "WatchFired", id |-> i] : i \in ids})

\* An idle watch fires when the user has been idle for its time, and stays.
TurnsIdle ==
  /\ ~user.idle /\ Happens
  /\ user' = [user EXCEPT !.idle = TRUE]
  /\ bus' = IF user.up THEN bus \o Fired(user.idles) ELSE bus
  /\ UNCHANGED <<inhibitVars, activity, saverVars>>

\* A watch for an active user fires once.
TurnsActive ==
  /\ user.idle /\ Happens
  /\ user' = [user EXCEPT !.idle = FALSE, !.actives = {}]
  /\ bus' = IF user.up THEN bus \o Fired(user.actives) ELSE bus
  /\ UNCHANGED <<inhibitVars, activity, saverVars>>

\* The name leaves the bus, or a monitor without any watch takes it.
MonitorLeaves ==
  /\ user.up /\ Happens
  /\ user' = [user EXCEPT !.up = FALSE, !.idles = {}, !.actives = {}]
  /\ Send([kind |-> "Vanished"]) /\ UNCHANGED <<inhibitVars, activity, saverVars>>
MonitorArrives ==
  /\ ~user.up /\ Happens
  /\ user' = [user EXCEPT !.up = TRUE, !.given = 0]
  /\ Send([kind |-> "Appeared"]) /\ UNCHANGED <<inhibitVars, activity, saverVars>>

-----------------------------------------------------------------------------
(* Activity *)

\* update_activity: what GetIdletime says now; no answer makes it unavailable.
Updated(a) == IF user.up THEN {[a EXCEPT !.available = TRUE, !.idle = user.idle], [a EXCEPT !.available = FALSE, !.idle = FALSE]}
              ELSE {[a EXCEPT !.available = FALSE, !.idle = FALSE]}
Unavailable(a) == [a EXCEPT !.available = FALSE, !.idle = FALSE]

\* on_idle_appeared, and the active watch firing, begin to replace the watches; on_idle_vanished
\* forgets them.
Appeared ==
  /\ Takes("Appeared")
  /\ activity' = [activity EXCEPT !.proxy = TRUE, !.call = "remove"]
  /\ UNCHANGED <<inhibitVars, user, saverVars, events>>
Vanished ==
  /\ Takes("Vanished")
  /\ activity' = [Unavailable(activity) EXCEPT !.proxy = FALSE, !.idleWatch = 0, !.activeWatch = 0]
  /\ UNCHANGED <<inhibitVars, user, saverVars, events>>

\* on_idle_signal: a watch that is not one of the two is not looked at; without a proxy nothing is.
WatchFired ==
  /\ Takes("WatchFired")
  /\ \/ /\ activity.proxy /\ Head1.id = activity.idleWatch
        /\ \E a \in Updated(activity) : activity' = [a EXCEPT !.idleWatch = 0]
     \/ /\ activity.proxy /\ Head1.id = activity.activeWatch /\ Head1.id # activity.idleWatch
        /\ activity' = [activity EXCEPT !.activeWatch = 0, !.call = "remove"]
     \/ /\ ~activity.proxy \/ Head1.id \notin {activity.idleWatch, activity.activeWatch}
        /\ UNCHANGED activity
  /\ UNCHANGED <<inhibitVars, user, saverVars, events>>

\* GetActivity of a client.
GetActivity ==
  /\ Idle /\ Happens /\ activity.proxy
  /\ activity' \in Updated(activity)
  /\ UNCHANGED <<bus, inhibitVars, user, saverVars>>

\* replace_activity_watches, one synchronous call to the monitor a step.  A call fails when nobody
\* has the name, or takes too long.
RemoveWatches ==
  /\ activity.call = "remove"
  /\ user' = [user EXCEPT !.idles = @ \ {activity.idleWatch}, !.actives = @ \ {activity.activeWatch}]
  /\ activity' = [activity EXCEPT !.idleWatch = 0, !.activeWatch = 0, !.call = "idle"]
  /\ UNCHANGED <<bus, inhibitVars, saverVars, events>>
AddIdleWatch ==
  /\ activity.call = "idle"
  /\ \/ /\ user.up
        /\ user' = [user EXCEPT !.given = @ + 1, !.idles = @ \cup {user.given + 1}]
        /\ activity' = [activity EXCEPT !.idleWatch = user.given + 1, !.call = "active"]
     \/ activity' = [Unavailable(activity) EXCEPT !.call = "none"] /\ UNCHANGED user
  /\ UNCHANGED <<bus, inhibitVars, saverVars, events>>
AddActiveWatch ==
  /\ activity.call = "active"
  /\ \/ /\ user.up
        /\ user' = [user EXCEPT !.given = @ + 1, !.actives = @ \cup {user.given + 1}]
        /\ activity' = [activity EXCEPT !.activeWatch = user.given + 1, !.call = "read"]
     \/ /\ activity' = [Unavailable(activity) EXCEPT !.idleWatch = 0, !.call = "none"]
        /\ user' = [user EXCEPT !.idles = @ \ {activity.idleWatch}]
  /\ UNCHANGED <<bus, inhibitVars, saverVars, events>>

\* The time is read after both watches are there.
ReadTrusts(a) == {[a EXCEPT !.available = TRUE, !.idle = FALSE]}
Read(a) == Updated(a)
ReadActivity ==
  /\ activity.call = "read"
  /\ \E a \in Read(activity) : activity' = [a EXCEPT !.call = "none"]
  /\ UNCHANGED <<bus, inhibitVars, user, saverVars, events>>

-----------------------------------------------------------------------------
(* The screen saver *)

\* publish_screen_saver_active.
Publishes(s, b) == [s EXCEPT !.known = TRUE, !.active = b]

\* disconnect_lock_monitor: the last value stays until a fresh one arrives.
Disconnects(s) == [s EXCEPT !.connected = FALSE, !.retry = TRUE]

GnomeArrives ==
  /\ ~truth.gnome /\ Happens /\ truth' = [truth EXCEPT !.gnome = TRUE, !.saving = FALSE]
  /\ Send([kind |-> "Owner", owned |-> TRUE])
  /\ UNCHANGED <<inhibitVars, activityVars, saver, stream, served, unsure>>
GnomeLeaves ==
  /\ truth.gnome /\ Happens /\ truth' = [truth EXCEPT !.gnome = FALSE, !.saving = FALSE]
  /\ Send([kind |-> "Owner", owned |-> FALSE])
  /\ UNCHANGED <<inhibitVars, activityVars, saver, stream, served, unsure>>
GnomeChanges ==
  /\ truth.gnome /\ Happens /\ truth' = [truth EXCEPT !.saving = ~@]
  /\ Send([kind |-> "Active", active |-> ~truth.saving])
  /\ UNCHANGED <<inhibitVars, activityVars, saver, stream, served, unsure>>

\* update_screen_saver_owner: GNOME is asked; losing it starts over with a fresh snapshot.
LosesOwnerKeeps(s) == s
LosesOwner(s) == IF s.connected THEN Disconnects(s) ELSE s
OwnerChanged ==
  /\ Takes("Owner")
  /\ LET s == [saver EXCEPT !.gnome = Head1.owned]
     IN IF Head1.owned
        THEN /\ \/ truth.gnome /\ saver' = Publishes(s, truth.saving) /\ unsure' = FALSE
                \/ saver' = s /\ unsure' = TRUE
             /\ UNCHANGED <<stream, served>>
        ELSE /\ saver' = LosesOwner(s) /\ unsure' = FALSE
             /\ IF saver'.connected THEN UNCHANGED <<stream, served>> ELSE stream' = <<>> /\ served' = FALSE
  /\ UNCHANGED <<inhibitVars, activityVars, truth, events>>

\* on_screen_saver_active_changed.
ActiveChanged ==
  /\ Takes("Active") /\ saver' = Publishes(saver, Head1.active) /\ unsure' = FALSE
  /\ UNCHANGED <<inhibitVars, activityVars, truth, stream, served, events>>

\* The compositor locks or unlocks, and drops a connection.
LockChanges ==
  /\ Happens /\ truth' = [truth EXCEPT !.locked = ~@]
  /\ stream' = IF served THEN Append(stream, truth'.locked) ELSE stream
  /\ UNCHANGED <<bus, inhibitVars, activityVars, saver, served, unsure>>
Hangup ==
  /\ saver.connected /\ Idle /\ Happens
  /\ saver' = Disconnects(saver) /\ stream' = <<>> /\ served' = FALSE
  /\ UNCHANGED <<bus, inhibitVars, activityVars, truth, unsure>>

\* retry_lock_monitor: it subscribes, then asks for the state, and the compositor serves them in order.
Retry ==
  /\ saver.retry /\ Idle /\ saver' = [saver EXCEPT !.connected = TRUE, !.retry = FALSE]
  /\ stream' = <<>> /\ served' = FALSE
  /\ UNCHANGED <<bus, inhibitVars, activityVars, truth, unsure, events>>
Serve ==
  /\ saver.connected /\ ~served /\ served' = TRUE /\ stream' = <<truth.locked>>
  /\ UNCHANGED <<bus, inhibitVars, activityVars, saver, truth, unsure, events>>

\* process_lock_message: while GNOME owns the saver the compositor's word is not passed on.
HearsAlways(s, b) == Publishes(s, b)
Hears(s, b) == IF s.gnome THEN s ELSE Publishes(s, b)
LockMessage ==
  /\ saver.connected /\ Idle /\ stream # <<>>
  /\ saver' = Hears(saver, Head(stream)) /\ stream' = Tail(stream)
  /\ UNCHANGED <<bus, inhibitVars, activityVars, truth, served, unsure, events>>

-----------------------------------------------------------------------------
\* on_name_acquired: the lock monitor is tried at once, the idle monitor watched.
Init ==
  /\ bus = <<[kind |-> "Appeared"]>>
  /\ inhibitors = <<>> /\ fds = {} /\ next = 0 /\ granted = {} /\ on = Senders
  /\ activity = [available |-> FALSE, idle |-> FALSE, proxy |-> FALSE, idleWatch |-> 0, activeWatch |-> 0, call |-> "none"]
  /\ user = [up |-> TRUE, idle |-> FALSE, given |-> 0, idles |-> {}, actives |-> {}]
  /\ saver = [known |-> FALSE, active |-> FALSE, gnome |-> FALSE, connected |-> FALSE, retry |-> TRUE]
  /\ truth = [gnome |-> FALSE, saving |-> FALSE, locked |-> FALSE]
  /\ stream = <<>> /\ served = FALSE /\ unsure = FALSE /\ events = 0

Next ==
  \/ \E s \in Senders : AsksInhibit(s) \/ AsksUnInhibit(s) \/ Leaves(s)
  \/ Inhibit \/ UnInhibit \/ SenderGone
  \/ TurnsIdle \/ TurnsActive \/ MonitorLeaves \/ MonitorArrives
  \/ Appeared \/ Vanished \/ WatchFired \/ GetActivity
  \/ RemoveWatches \/ AddIdleWatch \/ AddActiveWatch \/ ReadActivity
  \/ GnomeArrives \/ GnomeLeaves \/ GnomeChanges \/ OwnerChanged \/ ActiveChanged
  \/ LockChanges \/ Hangup \/ Retry \/ Serve \/ LockMessage

Spec == Init /\ [][Next]_vars

-----------------------------------------------------------------------------
\* What every reachable state looks like.
TypeOK ==
  /\ DOMAIN inhibitors \subseteq 1..next /\ on \subseteq Senders
  /\ activity.call \in {"none", "remove", "idle", "active", "read"}
  /\ saver.connected => ~saver.retry

\* An inhibitor holds one logind lock, lasts as long as its owner wants it, and no longer than the
\* owner is on the bus.
InhibitorsOwned ==
  /\ fds = DOMAIN inhibitors /\ granted \subseteq DOMAIN inhibitors
  /\ \A c \in DOMAIN inhibitors :
       inhibitors[c] \in on \/ [kind |-> "Gone", sender |-> inhibitors[c]] \in Range(bus)

\* With nothing waiting and the watch that would end it registered, the activity told is the user's.
\* The idle watch may be the one that fired: its id is forgotten then.
Settled == bus = <<>> /\ Idle /\ activity.activeWatch # 0 /\ activity.available
ActivityFollows ==
  Settled /\ (activity.idleWatch # 0 \/ activity.idle) => activity.idle = user.idle

\* The same whatever has fired: false when the user turns idle and active again between the calls
\* that register the two watches, for the idle watch then fires with nothing to end.
HearsEveryIdle == Settled => activity.idle = user.idle

\* With nothing waiting, the saver is as its present owner has it.
SaverFollows ==
  bus = <<>> /\ saver.known =>
    IF truth.gnome THEN unsure \/ saver.active = truth.saving
    ELSE saver.connected /\ served /\ stream = <<>> => saver.active = truth.locked

-----------------------------------------------------------------------------
(* The inductive invariant.  The messages of the bus tell, in their order,   *)
(* what the service will believe after each of them.                         *)

Messages == [kind : {"Inhibit", "Gone"}, sender : Senders]
            \cup [kind : {"UnInhibit"}, sender : Senders, cookie : Nat]
            \cup [kind : {"Appeared", "Vanished"}] \cup [kind : {"WatchFired"}, id : Nat]
            \cup [kind : {"Owner"}, owned : BOOLEAN] \cup [kind : {"Active"}, active : BOOLEAN]

Says(i, kinds) == bus[i].kind \in kinds
Between(i, j, kinds) == \E k \in (i + 1)..(j - 1) : Says(k, kinds)
Before(i, kinds) == Between(0, i, kinds)
After(i, kinds) == Between(i, Len(bus) + 1, kinds)
Waits(kinds) == After(0, kinds)
Fires(w) == [kind |-> "WatchFired", id |-> w] \in Range(bus)

Typed ==
  /\ TypeOK /\ bus \in Seq(Messages) /\ stream \in Seq(BOOLEAN) /\ next \in Nat
  /\ activity \in [available : BOOLEAN, idle : BOOLEAN, proxy : BOOLEAN, idleWatch : Nat,
                   activeWatch : Nat, call : {"none", "remove", "idle", "active", "read"}]
  /\ user \in [up : BOOLEAN, idle : BOOLEAN, given : Nat, idles : SUBSET Nat, actives : SUBSET Nat]
  /\ saver \in [known : BOOLEAN, active : BOOLEAN, gnome : BOOLEAN, connected : BOOLEAN,
                retry : BOOLEAN]
  /\ truth \in [gnome : BOOLEAN, saving : BOOLEAN, locked : BOOLEAN]

\* Word of a client that left follows all it asked for, and its cookies are no longer wanted.
ClientsKept ==
  /\ InhibitorsOwned
  /\ \A c \in granted : inhibitors[c] \in on
  /\ \A i \in 1..Len(bus) :
       /\ Says(i, {"Gone"}) => bus[i].sender \notin on
       /\ Says(i, {"Inhibit"}) =>
            bus[i].sender \in on
            \/ \E k \in (i + 1)..Len(bus) : bus[k] = [kind |-> "Gone", sender |-> bus[i].sender]

\* The monitor is there again only after it left; without it nothing is watched.
PresenceKept ==
  /\ ~user.up => user.idles = {} /\ user.actives = {} /\ (activity.proxy => Waits({"Vanished"}))
  /\ user.idles \cup user.actives \subseteq 1..user.given
  /\ ~activity.proxy => activity.idleWatch = 0 /\ activity.activeWatch = 0 /\ activity.call = "none"
  /\ \A i \in 1..Len(bus) : Says(i, {"Appeared"}) =>
       /\ ~user.up => After(i, {"Vanished"})
       /\ activity.proxy => Before(i, {"Vanished"})
       /\ \A j \in 1..(i - 1) : Says(j, {"Appeared"}) => Between(j, i, {"Vanished"})

\* While the monitor is the one that was asked: a watch of the service is there or has fired, and
\* what the service believes of the user is so or is about to be corrected.
WatchesKept ==
  activity.proxy /\ ~Waits({"Appeared", "Vanished"}) =>
    /\ activity.idleWatch # 0 => activity.idleWatch \in user.idles
    /\ activity.activeWatch # 0 =>
         /\ activity.activeWatch # activity.idleWatch /\ activity.call \in {"none", "remove", "read"}
         /\ activity.activeWatch \in user.actives \/ Fires(activity.activeWatch)
    /\ activity.call = "none" /\ activity.activeWatch \in user.actives /\ activity.idle => user.idle
    /\ activity.call = "none" /\ activity.idleWatch # 0 /\ activity.available /\ user.idle
         => activity.idle \/ Fires(activity.idleWatch)

\* The last word of the owner is what the owner has, and the compositor's word counts from the
\* moment GNOME's has left.
SaverKept ==
  /\ saver.gnome = truth.gnome \/ Waits({"Owner"})
  /\ \A i \in 1..Len(bus) :
       /\ Says(i, {"Owner"}) => bus[i].owned = truth.gnome \/ After(i, {"Owner"})
       /\ Says(i, {"Active"}) =>
            /\ saver.gnome \/ Before(i, {"Owner"})
            /\ \A j \in 1..(i - 1) : Says(j, {"Owner"}) /\ ~bus[j].owned => Between(j, i, {"Owner"})
            /\ ~truth.gnome \/ After(i, {"Owner", "Active"}) \/ bus[i].active = truth.saving
  /\ ~truth.gnome \/ Waits({"Owner", "Active"}) \/ unsure \/ saver.active = truth.saving
  /\ served /\ stream # <<>> => stream[Len(stream)] = truth.locked
  /\ ~saver.gnome /\ saver.connected /\ served /\ stream = <<>> => saver.active = truth.locked

IInv == Typed /\ ClientsKept /\ PresenceKept /\ WatchesKept /\ SaverKept

\* What the service holds and tells agrees with the bus, the user and the lock, once all has arrived.
ServiceSound == TypeOK /\ InhibitorsOwned /\ ActivityFollows /\ SaverFollows
=============================================================================
