--------------------------- MODULE ProcessHandles ---------------------------
(***************************************************************************)
(* gnoblin.process.spawn from the Lua handle (config/lua/                  *)
(* gnoblin-lua-process.c) to the child (control/gnoblin-control-process.c) *)
(* and back.  The compositor forks in a thread, reads what the child       *)
(* writes up to a limit, stops it when its time is over, and reports its   *)
(* end once it was collected and its output read.  A reload or the death   *)
(* of the worker takes the handles away while the children run on.         *)
(*                                                                         *)
(* Left out: the arguments' validation, stdin, and that the number of a    *)
(* child that was collected may be given to another process.               *)
(***************************************************************************)
EXTENDS Integers, Sequences, FiniteSets

CONSTANTS
  Processes,    \* what the runtimes spawn, once each, numbered
  Captured,     \* those whose output is captured
  Timed,        \* those with a timeout
  MaxRunning,   \* MAX_RUNNING_PROCESSES
  Limit,        \* output_limit, in chunks
  Writes,       \* bound of the model: chunks a child writes
  MaxWorkers    \* bound of the model: runtimes, of one worker or several

VARIABLES
  proc,         \* the compositor's RunningProcess
  child,        \* the child and its output
  handle,       \* the Process objects of Lua
  worker,       \* the runtime that lives
  up, down,     \* the channel, from and to the worker
  control       \* the compositor has not begun to shut down

vars == <<proc, child, handle, worker, up, down, control>>

ProcessAssumption ==
  Processes = 1 .. Cardinality(Processes) /\ Captured \union Timed \subseteq Processes
  /\ MaxRunning \in Nat \ {0} /\ Limit \in Nat /\ Writes \in Nat /\ MaxWorkers \in Nat \ {0}

NewProc ==
  [at |-> "none", known |-> FALSE, captured |-> FALSE, reading |-> FALSE,
   done |-> FALSE, cancelled |-> FALSE, data |-> 0, truncated |-> FALSE,
   timeout |-> FALSE, kill |-> FALSE, drain |-> FALSE,
   timedOut |-> FALSE, exited |-> FALSE, reported |-> FALSE]
NewChild == [at |-> "none", wrote |-> 0, pipe |-> 0, open |-> FALSE, killed |-> FALSE]
NewHandle == [by |-> 0, status |-> "none", wait |-> "none", listed |-> FALSE, closed |-> <<>>]

Init ==
  /\ proc = [p \in Processes |-> NewProc] /\ child = [p \in Processes |-> NewChild]
  /\ handle = [p \in Processes |-> NewHandle]
  /\ worker = 1 /\ up = <<>> /\ down = <<>> /\ control = TRUE

Table == {p \in Processes : proc[p].known}
Mine(p) == handle[p].by = worker
Tells(msg) == down' = IF control THEN Append(down, msg) ELSE down
Sets(p, q) == proc' = [proc EXCEPT ![p] = q]

-----------------------------------------------------------------------------
(* Lua.                                                                      *)

\* lua_object_end: the listeners of "closed" hear it once.
Ended(h, reason) == IF h.closed # <<>> THEN h ELSE [h EXCEPT !.closed = <<reason>>]

\* The handle stays in the list, and a later exit ends it again.
FailedListed(h) ==
  [Ended([h EXCEPT !.status = "failed", !.wait = "failed"], "ended") EXCEPT !.listed = TRUE]

\* lua_process_started with an error
Failed(h) ==
  Ended([h EXCEPT !.status = "failed", !.listed = FALSE,
                  !.wait = IF @ = "pending" THEN "failed" ELSE @], "ended")

\* lua_process_spawn; the dispatch that spawns may be rejected, and the call with it.
Spawn(p, rejected) ==
  /\ handle[p].status = "none" /\ \A q \in 1 .. (p - 1) : handle[q].status # "none"
  /\ LET h == [by |-> worker, status |-> "starting", wait |-> "pending", listed |-> TRUE,
               closed |-> <<>>]
     IN handle' = [handle EXCEPT ![p] = IF rejected THEN Failed(h) ELSE h]
  /\ up' = IF rejected THEN up ELSE Append(up, <<"spawn", p>>)
  /\ UNCHANGED <<proc, child, worker, down, control>>

\* lua_process_kill
Kill(p) ==
  /\ Mine(p) /\ handle[p].status = "running"
  /\ \A i \in DOMAIN up : up[i] # <<"kill", p>>
  /\ up' = Append(up, <<"kill", p>>)
  /\ UNCHANGED <<proc, child, handle, worker, down, control>>

\* lua_process_started
Started(h) == IF h.status = "starting" THEN [h EXCEPT !.status = "running"] ELSE h

\* Any runtime takes the exit.
ExitedAny(p) == Ended([handle[p] EXCEPT !.status = "exited", !.listed = FALSE,
                                        !.wait = "succeeded"], "exited")

\* process_exited: a process another runtime spawned is not in the list.
Exited(p) ==
  IF ~Mine(p) \/ ~handle[p].listed THEN handle[p]
  ELSE Ended([handle[p] EXCEPT !.status = "exited", !.listed = FALSE, !.wait = "succeeded"],
             "ended")

Hears ==
  /\ down # <<>> /\ down' = Tail(down)
  /\ LET msg == Head(down)
         p == msg[2]
     IN handle' = [handle EXCEPT ![p] =
          CASE msg[1] = "exited" -> Exited(p)
            [] ~Mine(p) -> @
            [] msg[1] = "spawned" -> Started(@)
            [] msg[1] = "failed" -> Failed(@)]
  /\ UNCHANGED <<proc, child, worker, up, control>>

\* end_runtime_objects, and lua_runtime_free for the rest.
Gone(h) == IF h.by = worker THEN Ended([h EXCEPT !.listed = FALSE], "config_reloaded") ELSE h

\* A reload, which waits for the spawns that are not answered; no other call waits here.
Reload ==
  /\ worker < MaxWorkers /\ worker' = worker + 1
  /\ \A p \in Processes : Mine(p) => handle[p].status # "starting"
  /\ up = <<>>
  /\ handle' = [p \in Processes |-> Gone(handle[p])]
  /\ UNCHANGED <<proc, child, up, down, control>>

\* The worker dies: its objects go untold, and the channel with it.
WorkerDies ==
  /\ worker < MaxWorkers /\ worker' = worker + 1
  /\ handle' = [p \in Processes |-> IF Mine(p) THEN [handle[p] EXCEPT !.listed = FALSE]
                                    ELSE handle[p]]
  /\ up' = <<>> /\ down' = <<>>
  /\ UNCHANGED <<proc, child, control>>

-----------------------------------------------------------------------------
(* The compositor.                                                           *)

\* The limit is looked at after the process was added.
MayRunMore == Cardinality(Table) <= MaxRunning

\* gnoblin_control_process_spawn
MayRun == Cardinality(Table) < MaxRunning

TakeSpawn ==
  /\ control /\ up # <<>> /\ Head(up)[1] = "spawn" /\ up' = Tail(up)
  /\ LET p == Head(up)[2] IN
     IF MayRun THEN /\ Sets(p, [proc[p] EXCEPT !.known = TRUE, !.at = "forking"])
                    /\ UNCHANGED down
               ELSE /\ Sets(p, [proc[p] EXCEPT !.at = "refused"])
                    /\ Tells(<<"failed", p>>)
  /\ UNCHANGED <<child, handle, worker, control>>

\* process_spawn_thread: what is captured is read; the child may be over before this is heard.
Forks(p, ok) ==
  /\ proc[p].at = "forking" /\ child[p].at = "none"
  /\ child' = [child EXCEPT ![p].at = IF ok THEN "alive" ELSE "failed", ![p].open = ok /\ p \in Captured]
  /\ UNCHANGED <<proc, handle, worker, up, down, control>>

Starts(p) ==
  [proc[p] EXCEPT !.at = "running", !.captured = p \in Captured, !.reading = p \in Captured,
                  !.timeout = p \in Timed]

\* The entry of a process that could not start stays in the table.
NotStartedKept(q) == [q EXCEPT !.at = "over"]
NotStarted(q) == [q EXCEPT !.at = "over", !.known = FALSE]

\* process_spawned
Spawned(p) ==
  /\ proc[p].at = "forking" /\ child[p].at # "none"
  /\ IF child[p].at = "failed" \/ ~control
     THEN /\ Sets(p, NotStarted(proc[p])) /\ Tells(<<"failed", p>>)
          /\ child' = [child EXCEPT ![p] = IF @.at = "failed" THEN @
                                           ELSE [@ EXCEPT !.killed = TRUE]]
     ELSE /\ Sets(p, Starts(p)) /\ Tells(<<"spawned", p>>)
          /\ UNCHANGED child
  /\ UNCHANGED <<handle, worker, up, control>>

Read(q) == ~q.captured \/ q.done

\* The end is reported with what was read so far.
MayReportEarly(q) == ~q.reported /\ q.exited
MayReport(q) == ~q.reported /\ q.exited /\ Read(q)

\* process_report: q is the process as the caller leaves it.
Reports(p, q) ==
  IF ~MayReport(q) THEN Sets(p, q) /\ UNCHANGED down
  ELSE /\ Sets(p, [q EXCEPT !.reported = TRUE, !.known = FALSE])
       /\ Tells(<<"exited", p>>)

Least(a, b) == IF a < b THEN a ELSE b

\* The chunk that reaches over the limit is left out.
StoredWhole(q, n) ==
  IF q.data + n > Limit THEN [q EXCEPT !.truncated = TRUE] ELSE [q EXCEPT !.data = @ + n]

\* What fits is kept, and it is noted when something did not.
Stored(q, n) ==
  [q EXCEPT !.data = Least(@ + n, Limit), !.truncated = @ \/ q.data + n > Limit]

\* process_read_done: data, or the end of the stream, or a read that was cancelled.
ReadDone(p) ==
  /\ proc[p].reading
  /\ \/ /\ child[p].pipe > 0 /\ ~proc[p].cancelled
        /\ Sets(p, Stored(proc[p], child[p].pipe))
        /\ child' = [child EXCEPT ![p].pipe = 0]
        /\ UNCHANGED down
     \/ /\ proc[p].cancelled \/ (child[p].pipe = 0 /\ ~child[p].open)
        /\ Reports(p, [proc[p] EXCEPT !.reading = FALSE, !.done = TRUE])
        /\ UNCHANGED child
  /\ UNCHANGED <<handle, worker, up, control>>

\* The timers that stop the child stay behind.
CollectedArmed(q) == [q EXCEPT !.exited = TRUE, !.drain = ~Read(q)]
Collected(q) ==
  [q EXCEPT !.exited = TRUE, !.timeout = FALSE, !.kill = FALSE, !.drain = ~Read(q)]

\* process_wait_done
WaitDone(p) ==
  /\ proc[p].at = "running" /\ ~proc[p].exited /\ child[p].at = "dead"
  /\ Reports(p, Collected(proc[p]))
  /\ UNCHANGED <<child, handle, worker, up, control>>

\* process_drain_expired
DrainExpires(p) ==
  /\ proc[p].drain
  /\ Sets(p, [proc[p] EXCEPT !.drain = FALSE, !.cancelled = TRUE])
  /\ UNCHANGED <<child, handle, worker, up, down, control>>

\* process_timeout and process_terminate: it is asked to end.
Timeout(p) ==
  /\ proc[p].timeout
  /\ Sets(p, [proc[p] EXCEPT !.timeout = FALSE, !.timedOut = TRUE, !.kill = TRUE])
  /\ UNCHANGED <<child, handle, worker, up, down, control>>

\* process_force_kill
ForceKill(p) ==
  /\ proc[p].kill
  /\ Sets(p, [proc[p] EXCEPT !.kill = FALSE])
  /\ child' = [child EXCEPT ![p].killed = TRUE]
  /\ UNCHANGED <<handle, worker, up, down, control>>

\* gnoblin_control_process_kill: of a process that runs; an answer is given in any case.
TakeKill ==
  /\ control /\ up # <<>> /\ Head(up)[1] = "kill" /\ up' = Tail(up)
  /\ LET p == Head(up)[2] IN
     \E signal \in {"term", "kill"} :
       child' = [child EXCEPT ![p].killed =
         @ \/ (signal = "kill" /\ proc[p].known /\ ~proc[p].exited /\ child[p].at # "none")]
  /\ UNCHANGED <<proc, handle, worker, down, control>>

\* gnoblin_control_process_clear: the children are asked to end, their output is given up.
Stop ==
  /\ control /\ control' = FALSE
  /\ proc' = [p \in Processes |->
       IF p \in Table THEN [proc[p] EXCEPT !.known = FALSE, !.cancelled = proc[p].at = "running"]
       ELSE proc[p]]
  /\ UNCHANGED <<child, handle, worker, up, down>>

-----------------------------------------------------------------------------
(* The children.                                                             *)

ChildWrites(p) ==
  /\ child[p].open /\ ~child[p].killed /\ child[p].wrote < Writes
  /\ child' = [child EXCEPT ![p].wrote = @ + 1, ![p].pipe = @ + 1]
  /\ UNCHANGED <<proc, handle, worker, up, down, control>>

\* It ends, of itself or by a signal; a process it started may keep its output open.
ChildEnds(p, kept) ==
  /\ child[p].at = "alive"
  /\ child' = [child EXCEPT ![p].at = "dead", ![p].open = @ /\ kept /\ ~child[p].killed]
  /\ UNCHANGED <<proc, handle, worker, up, down, control>>

GrandchildEnds(p) ==
  /\ child[p].at = "dead" /\ child[p].open
  /\ child' = [child EXCEPT ![p].open = FALSE]
  /\ UNCHANGED <<proc, handle, worker, up, down, control>>

Next ==
  \/ \E p \in Processes, rejected \in BOOLEAN : Spawn(p, rejected)
  \/ \E p \in Processes : \/ Kill(p) \/ Spawned(p) \/ ReadDone(p) \/ WaitDone(p)
                          \/ DrainExpires(p) \/ Timeout(p) \/ ForceKill(p)
                          \/ ChildWrites(p) \/ GrandchildEnds(p)
                          \/ \E b \in BOOLEAN : Forks(p, b) \/ ChildEnds(p, b)
  \/ Hears \/ Reload \/ WorkerDies \/ TakeSpawn \/ TakeKill \/ Stop

-----------------------------------------------------------------------------
Says(seq, kind, p) == \E i \in DOMAIN seq : seq[i] = <<kind, p>>
Final == {"failed", "exited"}

\* A handle of the runtime that lives is final or will be: its process is on the way to the
\* compositor, in its table, or its end is on the way back.
HandlesEnd ==
  control => \A p \in Processes : handle[p].status # "none" /\ Mine(p) =>
    \/ handle[p].status \in Final
    \/ handle[p].listed /\ (\/ Says(up, "spawn", p) \/ p \in Table
                            \/ Says(down, "exited", p) \/ Says(down, "failed", p))

\* A handle's wait() ends with its status, and "closed" is heard once, for one reason.
HandlesAgree ==
  \A p \in Processes : LET h == handle[p] IN
    /\ h.status = "failed" <=> h.wait = "failed"
    /\ h.status = "exited" <=> h.wait = "succeeded"
    /\ h.status \in Final => h.closed = <<"ended">> /\ ~h.listed
    /\ h.listed => Mine(p) /\ h.closed = <<>>

\* What the compositor has not reported will be: the child runs, or it waits for a thread, for the
\* output, which a timer bounds, or for a read that was given up.
ReportsCome ==
  \A p \in Table : LET q == proc[p] IN
    /\ q.at \in {"forking", "running"} /\ ~q.reported
    /\ q.exited => q.reading /\ (q.drain \/ q.cancelled)
    /\ q.timedOut /\ ~q.exited => q.kill \/ child[p].killed

\* Only a process that has not been collected has a timer that stops it; no more run than may; and
\* the output in a report is what was written up to the limit, and says so when it is not all.
ProcessesBounded ==
  /\ Cardinality(Table) <= MaxRunning
  /\ \A p \in Processes : LET q == proc[p] IN
       /\ q.exited => ~q.timeout /\ ~q.kill
       /\ q.reported => Read(q)
       /\ q.reported /\ q.captured /\ ~q.cancelled =>
            q.data = Least(child[p].wrote, Limit) /\ (q.truncated <=> child[p].wrote > Limit)

ProcessesSound == HandlesEnd /\ HandlesAgree /\ ReportsCome /\ ProcessesBounded

Spec == Init /\ [][Next]_vars
=============================================================================
