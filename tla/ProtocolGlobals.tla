---------------------------- MODULE ProtocolGlobals ----------------------------
(***************************************************************************)
(* The registry that adds and withdraws Wayland globals when the           *)
(* configuration enables or disables a protocol                            *)
(* (protocols/aggregator/meta-gnoblin-live-protocols.c).                   *)
(*                                                                         *)
(* A registration keeps a pointer to its global; some protocols put the    *)
(* global into Mutter's filter manager through a hook.  The compositor     *)
(* goes down in steps, each of which may end the life of one of these.     *)
(***************************************************************************)
EXTENDS FiniteSets, Naturals

CONSTANTS Protocols,            \* in the order of their registration
          Hooked,               \* those with a filter hook
          MaxReloads            \* bound: configuration changes

GlobalsAssumption == Protocols \subseteq Nat /\ Hooked \subseteq Protocols /\ MaxReloads \in Nat

VARIABLES phase,        \* "running", "preparing" (after prepare-shutdown), "filterless", "displayless", "gone"
          registered,   \* registrations made so far
          global,       \* per protocol: "none", "live" or "stale" (freed, the pointer still set)
          filtered,     \* globals the filter manager holds
          enabled,      \* the configuration
          applied,      \* the last configuration was applied to the end
          misused,      \* a freed global or filter manager was used
          reloads

vars == <<phase, registered, global, filtered, enabled, applied, misused, reloads>>

Ordered(p, q) == p < q
Display == phase \in {"running", "preparing", "filterless"}
Filter == phase \in {"running", "preparing"}

-----------------------------------------------------------------------------
\* protocol_global_withdraw of the protocols in P
Withdrawn(P) == [p \in Protocols |-> IF p \in P THEN "none" ELSE global[p]]

\* Without a display the hook is not called and the global not destroyed.
TouchesAlways(P) == {p \in P : global[p] # "none"}      \* mutant: the display is not asked
Touches(P) == {p \in P : global[p] # "none" /\ Display}
UnfiltersNot(P) == filtered                             \* mutant: the hook is not called
Unfilters(P) == filtered \ (Touches(P) \cap Hooked)
Misuses(P) == \E p \in Touches(P) : global[p] = "stale" \/ (p \in Hooked /\ ~Filter)

Withdraw(P) ==
  /\ global' = Withdrawn(P) /\ filtered' = Unfilters(P) /\ misused' = (misused \/ Misuses(P))

\* set_protocol_global of every protocol in P that the configuration enables
Adds(P, on) == {p \in P \cap on : global[p] = "none"}

\* meta_gnoblin_register_protocol_global_full; a failure ends the compositor.
Register(p) ==
  /\ phase = "running" /\ p \notin registered /\ \A q \in Protocols : Ordered(q, p) => q \in registered
  /\ registered' = registered \cup {p}
  /\ global' = [global EXCEPT ![p] = IF p \in enabled THEN "live" ELSE "none"]
  /\ filtered' = filtered \cup ({p} \cap Hooked \cap enabled)
  /\ UNCHANGED <<phase, enabled, applied, misused, reloads>>

\* meta_gnoblin_apply_protocol_configuration goes through them in order and stops at the first
\* global that cannot be created; fails names it.
AppliesAnyway(fails) == TRUE    \* mutant: the failure is not reported
Applies(fails) == fails = {}

Reload(on, fails) ==
  /\ phase = "running" /\ reloads < MaxReloads /\ reloads' = reloads + 1
  /\ enabled' = on /\ fails \subseteq Adds(registered, on)
  /\ LET reached == {p \in registered : \A q \in fails : Ordered(p, q)}
         off == {p \in reached \ on : global[p] = "live"}
         added == Adds(reached, on)
     IN  /\ global' = [p \in Protocols |-> IF p \in added THEN "live" ELSE Withdrawn(off)[p]]
         /\ filtered' = Unfilters(off) \cup (added \cap Hooked)
         /\ misused' = (misused \/ Misuses(off))
         /\ applied' = Applies(fails)
  /\ UNCHANGED <<phase, registered>>

-----------------------------------------------------------------------------
(* The compositor goes down: prepare-shutdown, unless its start failed, then *)
(* the filter manager, the display and its globals, and the registrations.   *)

\* protocol_globals_prepare_shutdown
PrepareShutdown ==
  /\ phase = "running" /\ phase' = "preparing" /\ Withdraw(registered)
  /\ UNCHANGED <<registered, enabled, applied, reloads>>

FinalizesFilter ==
  /\ phase \in {"running", "preparing"} /\ phase' = "filterless"
  /\ UNCHANGED <<registered, global, filtered, enabled, applied, misused, reloads>>

DestroysDisplay ==
  /\ phase = "filterless" /\ phase' = "displayless"
  /\ global' = [p \in Protocols |-> IF global[p] = "live" THEN "stale" ELSE global[p]]
  /\ UNCHANGED <<registered, filtered, enabled, applied, misused, reloads>>

\* protocol_global_free of every registration
FreesRegistrations ==
  /\ phase = "displayless" /\ phase' = "gone" /\ Withdraw(registered) /\ registered' = {}
  /\ UNCHANGED <<enabled, applied, reloads>>

Init ==
  /\ phase = "running" /\ registered = {} /\ enabled \in SUBSET Protocols
  /\ global = [p \in Protocols |-> "none"] /\ filtered = {}
  /\ applied = TRUE /\ misused = FALSE /\ reloads = 0

Next ==
  \/ \E p \in Protocols : Register(p)
  \/ \E on \in SUBSET Protocols, fails \in SUBSET Protocols :
       Cardinality(fails) <= 1 /\ Reload(on, fails)
  \/ PrepareShutdown \/ FinalizesFilter \/ DestroysDisplay \/ FreesRegistrations

Spec == Init /\ [][Next]_vars

-----------------------------------------------------------------------------
(* Properties.                                                               *)

TypeOK ==
  /\ registered \subseteq Protocols /\ global \in [Protocols -> {"none", "live", "stale"}]
  /\ reloads \in 0..MaxReloads

\* While the compositor runs, the filter manager holds the live globals of hooked protocols and
\* no other, and a configuration that was reported as applied is the one clients see; an
\* ordinary shutdown leaves it nothing to finalize; nothing freed is used on any way down.
GlobalsSound ==
  /\ TypeOK /\ ~misused
  /\ Filter => filtered = {p \in Hooked : global[p] = "live"}
  /\ phase = "running" /\ applied => \A p \in registered : (global[p] = "live") = (p \in enabled)
  /\ phase = "preparing" => filtered = {}

\* The inductive invariant: a global belongs to a registration, and is freed under it only
\* with the display.
Kept ==
  /\ phase \in {"running", "preparing", "filterless", "displayless", "gone"}
  /\ enabled \subseteq Protocols
  /\ \A p \in Protocols \ registered : global[p] = "none"
  /\ Display => \A p \in Protocols : global[p] # "stale"
  /\ phase = "preparing" => \A p \in Protocols : global[p] = "none"

IInv == Kept /\ GlobalsSound
=============================================================================
