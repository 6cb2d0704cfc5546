----------------------------- MODULE DataControl -----------------------------
(***************************************************************************)
(* Clipboard managers (protocols/data-control).                            *)
(*                                                                         *)
(* A client sets the clipboard or the primary selection to a source of     *)
(* its own through a device; Mutter's selection keeps one owner of each    *)
(* type and calls back when it changes; every device is told what there    *)
(* is to paste, and nothing while the session is locked.  Devices keep     *)
(* unowned pointers to the source they set, sources a pointer to the       *)
(* selection they own.                                                     *)
(***************************************************************************)
EXTENDS Naturals

CONSTANTS Sources, Devices,
          MaxChanges            \* bound: locks, and copies made by ordinary applications

Types == {"clipboard", "primary"}
None == "none"
App == "app"                    \* an owner that is not a data-control source
DataControlAssumption ==
  MaxChanges \in Nat /\ {None, App} \cap (Sources \cup Devices) = {} /\ Sources \cap Devices = {}

VARIABLES owner,        \* MetaSelection: per type the owner, or None
          source,       \* per source: see NewSource
          device,       \* per device: live, the sources it set (tracked), what it was told
          locked, changes

vars == <<owner, source, device, locked, changes>>

(* resource   the client's object exists                                     *)
(* mimes      it offers something                                            *)
(* sel        the selection it believes to own, by type, or None             *)
NewSource == [born |-> FALSE, resource |-> FALSE, mimes |-> FALSE, used |-> FALSE,
              sel |-> None, cancelled |-> FALSE]
NewDevice == [born |-> FALSE, live |-> FALSE,
              tracked |-> [t \in Types |-> None], told |-> [t \in Types |-> None]]

Change == changes < MaxChanges /\ changes' = changes + 1

-----------------------------------------------------------------------------
\* device_advertise_selection: what a device is told of an owner
AdvertisesLocked(o, S) ==               \* mutant: the lock is not asked
  IF o \in Sources /\ ~S[o].mimes THEN None ELSE o
Advertises(o, S) ==
  IF locked \/ (o \in Sources /\ ~S[o].mimes) THEN None ELSE o

\* meta_data_control_source_deactivated
DeactivatedQuietly(s) == [s EXCEPT !.sel = None]            \* mutant: cancelled is not sent
Deactivated(s) == [s EXCEPT !.sel = None, !.cancelled = @ \/ s.resource]

\* on_owner_changed, for one device
OwnerChangedKeeps(d, t, new, S) == [d EXCEPT !.told[t] = Advertises(new, S)]  \* mutant
OwnerChanged(d, t, new, S) ==
  [d EXCEPT !.tracked[t] = IF @ = new THEN @ ELSE None, !.told[t] = Advertises(new, S)]

\* meta_selection_set_owner, and unset_owner with new = None: the old owner is deactivated
\* first, then every device hears of the new one.
SetsOwner(t, new, S, D) ==
  /\ owner' = [owner EXCEPT ![t] = new]
  /\ source' = IF owner[t] \in Sources THEN [S EXCEPT ![owner[t]] = Deactivated(@)] ELSE S
  /\ device' = [d \in Devices |-> IF D[d].live THEN OwnerChanged(D[d], t, new, source') ELSE D[d]]

-----------------------------------------------------------------------------
CreateSource(s) ==
  /\ ~source[s].born
  /\ source' = [source EXCEPT ![s].born = TRUE, ![s].resource = TRUE]
  /\ UNCHANGED <<owner, device, locked, changes>>

\* data_control_source_offer, an error once the source was used
Offer(s) ==
  /\ source[s].resource /\ ~source[s].used /\ source' = [source EXCEPT ![s].mimes = TRUE]
  /\ UNCHANGED <<owner, device, locked, changes>>

\* data_control_source_destroy: by request, or with its client
DestroySource(s) ==
  /\ source[s].resource
  /\ LET gone == [source EXCEPT ![s].resource = FALSE]
     IN  IF source[s].sel # None /\ owner[source[s].sel] = s
         THEN SetsOwner(source[s].sel, None, gone, device)
         ELSE source' = gone /\ UNCHANGED <<owner, device>>
  /\ UNCHANGED <<locked, changes>>

\* manager_get_data_device tells the new device of both selections.
GetDevice(d) ==
  /\ ~device[d].born
  /\ device' = [device EXCEPT ![d] =
       [NewDevice EXCEPT !.born = TRUE, !.live = TRUE,
                         !.told = [t \in Types |-> Advertises(owner[t], source)]]]
  /\ UNCHANGED <<owner, source, locked, changes>>

DestroyDevice(d) ==
  /\ device[d].live /\ device' = [device EXCEPT ![d].live = FALSE]
  /\ UNCHANGED <<owner, source, locked, changes>>

\* device_set_selection with a source; a source used before is an error that changes nothing.
SetSelection(d, t, s) ==
  /\ device[d].live /\ source[s].resource
  /\ IF locked
     THEN source' = [source EXCEPT ![s].cancelled = TRUE] /\ UNCHANGED <<owner, device>>
     ELSE /\ ~source[s].used
          /\ SetsOwner(t, s, [source EXCEPT ![s].used = TRUE, ![s].sel = t],
                       [device EXCEPT ![d].tracked[t] = s])
  /\ UNCHANGED <<locked, changes>>

\* With NULL only a selection this device set is cleared; unset_owner does nothing for a
\* source that is not the owner.
ClearSelection(d, t) ==
  /\ device[d].live /\ ~locked /\ device[d].tracked[t] # None
  /\ LET D == [device EXCEPT ![d].tracked[t] = None]
     IN  IF owner[t] = device[d].tracked[t]
         THEN SetsOwner(t, None, source, D)
         ELSE device' = D /\ UNCHANGED <<owner, source>>
  /\ UNCHANGED <<locked, changes>>

\* An ordinary application copies, or takes back what it had copied.
AppSets(t) == Change /\ SetsOwner(t, App, source, device) /\ UNCHANGED locked
AppClears(t) == owner[t] = App /\ SetsOwner(t, None, source, device) /\ UNCHANGED <<locked, changes>>

\* on_session_lock_state_changed
UnlockTellsNothing(d) == device[d].told         \* mutant: nothing is told after an unlock
UnlockTells(d) == [t \in Types |-> IF owner[t] \in Sources /\ ~source[owner[t]].mimes
                                   THEN None ELSE owner[t]]
LockChanges ==
  /\ Change /\ locked' = ~locked
  /\ device' = [d \in Devices |->
       IF ~device[d].live THEN device[d]
       ELSE [device[d] EXCEPT !.told = IF locked' THEN [t \in Types |-> None] ELSE UnlockTells(d)]]
  /\ UNCHANGED <<owner, source>>

-----------------------------------------------------------------------------
Init ==
  /\ owner = [t \in Types |-> None] /\ locked = FALSE /\ changes = 0
  /\ source = [s \in Sources |-> NewSource] /\ device = [d \in Devices |-> NewDevice]

SourceStep(s) == CreateSource(s) \/ Offer(s) \/ DestroySource(s)
DeviceStep(d) ==
  \/ GetDevice(d) \/ DestroyDevice(d)
  \/ \E t \in Types : ClearSelection(d, t) \/ \E s \in Sources : SetSelection(d, t, s)

Next ==
  \/ \E s \in Sources : SourceStep(s)
  \/ \E d \in Devices : DeviceStep(d)
  \/ \E t \in Types : AppSets(t) \/ AppClears(t)
  \/ LockChanges

Spec == Init /\ [][Next]_vars

-----------------------------------------------------------------------------
(* Properties.                                                               *)

TypeOK ==
  /\ owner \in [Types -> Sources \cup {None, App}]
  /\ locked \in BOOLEAN /\ changes \in 0..MaxChanges

\* Every device knows what there is to paste, and knows of nothing while the session is locked.
DevicesTold ==
  \A d \in Devices, t \in Types :
    device[d].live => device[d].told[t] = Advertises(owner[t], source) /\ (locked => device[d].told[t] = None)

\* No pointer outlives what it points to: a device remembers only the owner, an owner's
\* client is there to be asked for the data, and a source knows whether it is the owner.
PointersLive ==
  /\ \A d \in Devices, t \in Types :
       device[d].live /\ device[d].tracked[t] # None => device[d].tracked[t] = owner[t]
  /\ \A s \in Sources, t \in Types :
       (source[s].sel = t) = (owner[t] = s) /\ (owner[t] = s => source[s].resource)

\* A client whose source was replaced or cleared was told so.
ReplacedTold ==
  \A s \in Sources : source[s].resource /\ source[s].used /\ source[s].sel = None => source[s].cancelled

ClipboardSound == TypeOK /\ DevicesTold /\ PointersLive /\ ReplacedTold

\* The inductive invariant: what the records are, and that only a source that was used owns a
\* selection, so that none that does is offered more types or set again.
SourceRecords == [born : BOOLEAN, resource : BOOLEAN, mimes : BOOLEAN, used : BOOLEAN,
                  sel : Types \cup {None}, cancelled : BOOLEAN]
DeviceRecords == [born : BOOLEAN, live : BOOLEAN, tracked : [Types -> Sources \cup {None}],
                  told : [Types -> Sources \cup {None, App}]]
OwnersUsed ==
  \A s \in Sources : /\ source[s].sel # None => source[s].used
                     /\ source[s].used \/ source[s].resource => source[s].born
IInv ==
  /\ source \in [Sources -> SourceRecords] /\ device \in [Devices -> DeviceRecords]
  /\ OwnersUsed /\ ClipboardSound
=============================================================================
