---------------------------- MODULE CornerProbe ----------------------------
(***************************************************************************)
(* Whether a window draws its own rounded corners: worker threads scan the *)
(* libraries of its process, and a bounded cache keeps what they found     *)
(* (the corner toolkit cache of                                            *)
(* src/src/control/windows/gnoblin-control-window-rules.c).                *)
(*                                                                         *)
(* Every window has rules that ask for automatic corners, so each run of   *)
(* the rules over it asks the cache.  A process is its pid and its start   *)
(* time; the windows are listed in one order, as Mutter lists them.        *)
(***************************************************************************)
EXTENDS Naturals, Sequences, FiniteSets, SequencesExt, Functions, TLC

CONSTANTS Order,       \* every window, in the order Mutter lists them
          Pid,         \* the pid of a window's process
          Start,       \* the start time of the process that owns it
          Rounds,      \* the processes that load a toolkit with its own corners
          MaxEntries,  \* MAX_CORNER_TOOLKIT_CACHE_ENTRIES
          MaxEvents    \* bound: signals of windows, and processes started

Windows == Range(Order)
Owner(w) == <<Pid[w], Start[w]>>

ProbeAssumption ==
  /\ \A w \in Windows : Pid[w] \in Nat /\ Start[w] \in Nat \ {0}
  /\ MaxEntries \in Nat \ {0} /\ MaxEvents \in Nat

VARIABLES
  running,    \* the start time of the process that has a pid, 0 if none
  shown,      \* windows there are
  entries,    \* the cache: identity -> "pending", "rounds" or "plain"
  pending,    \* cache->pending_count
  scans,      \* probes on worker threads or answered, not yet seen by the main loop
  corners,    \* per window: "clipped" or "own", as the rules last left it
  live,       \* the control that owns the cache exists
  events
vars == <<running, shown, entries, pending, scans, corners, live, events>>

Identities == {Owner(w) : w \in Windows}

-----------------------------------------------------------------------------
(* The cache *)

\* native_corner_process_identity_get: the process that has the pid now.
Has(p) == running[p] # 0
IdentityLoose(w) == <<Pid[w], CHOOSE s \in {Start[v] : v \in {u \in Windows : Pid[u] = Pid[w]}} : TRUE>>
Identity(w) == <<Pid[w], running[Pid[w]]>>

\* native_corner_toolkit_cache_make_room: the entries a new one may push out.
PushesAny(c) == {{i} : i \in DOMAIN c.entries}
Pushes(c) == IF Cardinality(DOMAIN c.entries) < MaxEntries THEN {{}}
             ELSE {{i} : i \in {j \in DOMAIN c.entries : c.entries[j] # "pending"}}

\* native_corner_toolkit_probe: what the cache may be once a probe of i was asked for.
Probed(c, i) ==
  IF i \in DOMAIN c.entries \/ Pushes(c) = {} THEN {c}
  ELSE {[entries |-> Restrict(c.entries, DOMAIN c.entries \ out) @@ (i :> "pending"),
         pending |-> c.pending + 1, scans |-> c.scans \cup {i}] : out \in Pushes(c)}

Now == [entries |-> entries, pending |-> pending, scans |-> scans]
Becomes(c) == entries' = c.entries /\ pending' = c.pending /\ scans' = c.scans

\* native_corner_toolkit_should_skip: a probe not finished leaves the corners to the compositor.
SkipsPending(c, w) == Has(Pid[w]) /\ Identity(w) \in DOMAIN c.entries /\ c.entries[Identity(w)] # "plain"
Skips(c, w) == Has(Pid[w]) /\ Identity(w) \in DOMAIN c.entries /\ c.entries[Identity(w)] = "rounds"
Applied(c, W) == [w \in Windows |-> IF w \in W THEN (IF Skips(c, w) THEN "own" ELSE "clipped") ELSE corners[w]]

\* The rules run over w.
Apply(w, seen) ==
  /\ shown' = seen
  /\ corners' = Applied(Now, {w})
  /\ IF live /\ Has(Pid[w]) THEN \E c \in Probed(Now, Identity(w)) : Becomes(c)
     ELSE UNCHANGED <<entries, pending, scans>>

Happens == events < MaxEvents /\ events' = events + 1

-----------------------------------------------------------------------------
(* Processes and their windows *)

\* A process starts under a pid that is free; its windows come later.
Started(p, s) ==
  /\ ~Has(p) /\ Happens
  /\ \E w \in Windows \ shown : Owner(w) = <<p, s>>
  /\ running' = [running EXCEPT ![p] = s]
  /\ UNCHANGED <<shown, entries, pending, scans, corners, live>>

\* A process ends; its windows are unmanaged a moment later.
Ended(p) ==
  /\ Has(p) /\ running' = [running EXCEPT ![p] = 0]
  /\ UNCHANGED <<shown, entries, pending, scans, corners, live, events>>

\* track_window, and each later signal of a window: the rules run.
Created(w) ==
  /\ live /\ w \notin shown /\ running[Pid[w]] = Start[w]
  /\ Apply(w, shown \cup {w}) /\ UNCHANGED <<running, live, events>>
Signalled(w) ==
  /\ live /\ w \in shown /\ Happens /\ Apply(w, shown) /\ UNCHANGED <<running, live>>
Closed(w) ==
  /\ w \in shown /\ shown' = shown \ {w}
  /\ UNCHANGED <<running, entries, pending, scans, corners, live, events>>

-----------------------------------------------------------------------------
(* native_corner_toolkit_probe_finished *)

\* native_corner_toolkit_probe_next: the first process after `after', in turn, that is not in the
\* cache has its windows run through the rules, which asks for its probe.
Turn(after) ==
  LET ids == SelectSeq(Order, LAMBDA w : w \in shown /\ Has(Pid[w]))
      at == {i \in DOMAIN ids : Identity(ids[i]) = after}
      start == IF at = {} THEN 0 ELSE CHOOSE i \in at : \A j \in at : i <= j
  IN [k \in 1..Len(ids) |-> ids[((start + k - 1) % Len(ids)) + 1]]
FollowingNone(c, after) == {}
Following(c, after) ==
  LET due == SelectSeq(Turn(after), LAMBDA w : Identity(w) \notin DOMAIN c.entries)
  IN IF due = <<>> THEN {} ELSE {Head(due)}

\* What the scan of a process's mappings says of it; restricted access says nothing.
Found(i) == IF i \in Rounds THEN {"rounds", "plain"} ELSE {"plain"}

\* The entry is the result, every window of the process is run through the rules, and the next
\* process is probed.  The identity is compared, not the pid alone: it may have been given away.
StoredQuietly(c, i, r) == [entries |-> (i :> r) @@ c.entries, pending |-> c.pending, scans |-> c.scans \ {i}]
Stored(c, i, r) == [entries |-> (i :> r) @@ c.entries,
                    pending |-> IF i \in DOMAIN c.entries /\ c.entries[i] = "pending" THEN c.pending - 1 ELSE c.pending,
                    scans |-> c.scans \ {i}]

Finished(i) ==
  /\ i \in scans
  /\ IF live
     THEN \E r \in Found(i) :
            LET c == Stored(Now, i, r)
                its == {w \in shown : Has(Pid[w]) /\ Identity(w) = i}
                next == Following(c, i)
            IN /\ corners' = Applied(c, its \cup next)
               /\ IF next = {} THEN Becomes(c)
                  ELSE \E w \in next : \E e \in Probed(c, Identity(w)) : Becomes(e)
     ELSE scans' = scans \ {i} /\ UNCHANGED <<entries, pending, corners>>
  /\ UNCHANGED <<running, shown, live, events>>

\* gnoblin_control_corner_toolkit_cache_shutdown: probes still out find no control.
Shutdown == live /\ live' = FALSE /\ UNCHANGED <<running, shown, entries, pending, scans, corners, events>>

-----------------------------------------------------------------------------
Init ==
  /\ running = [p \in Range(Pid) |-> 0] /\ shown = {} /\ entries = <<>> /\ pending = 0 /\ scans = {}
  /\ corners = [w \in Windows |-> "clipped"] /\ live = TRUE /\ events = 0

Next ==
  \/ \E p \in Range(Pid), s \in Range(Start) : Started(p, s)
  \/ \E p \in Range(Pid) : Ended(p)
  \/ \E w \in Windows : Created(w) \/ Signalled(w) \/ Closed(w)
  \/ \E i \in Identities : Finished(i)
  \/ Shutdown

Spec == Init /\ [][Next]_vars

-----------------------------------------------------------------------------
\* What every reachable state looks like: the cache keeps its bound and counts its pending entries.
TypeOK ==
  /\ DOMAIN entries \subseteq Identities /\ Cardinality(DOMAIN entries) <= MaxEntries
  /\ live => scans = {i \in DOMAIN entries : entries[i] = "pending"} /\ pending = Cardinality(scans)

\* A process waits for its probe only while another is out, whose end gives it its turn.
NoneForgotten ==
  live /\ scans = {} => \A w \in shown : running[Pid[w]] = Start[w] => Owner(w) \in DOMAIN entries

\* A window keeps its own corners only if its own process draws them, never one that had its pid.
OwnCornersOnly == \A w \in shown : corners[w] = "own" /\ running[Pid[w]] = Start[w] => Owner(w) \in Rounds

\* With no probe out, every window is drawn as the cache says.
CornersFollow ==
  live /\ scans = {} => \A w \in shown : running[Pid[w]] = Start[w] =>
    (corners[w] = "own") = (entries[Owner(w)] = "rounds")

\* Probes end in any order, entries are pushed out and pids reused: no window is left behind or
\* drawn by what another process loads.
ProbesSound == TypeOK /\ NoneForgotten /\ OwnCornersOnly /\ CornersFollow
=============================================================================
