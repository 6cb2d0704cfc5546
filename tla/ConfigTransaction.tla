--------------------------- MODULE ConfigTransaction ---------------------------
(***************************************************************************)
(* How a configuration reaches the compositor and what happens when it     *)
(* does not (session/gnoblin-runtime-packets.c, -events.c, -compositor.c,   *)
(* config/lua/gnoblin-lua-finish.c, the CONFIG branch of                   *)
(* control/gnoblin-control-runtime-channel.c, gnoblin-control-overrides.c). *)
(*                                                                         *)
(* The Lua worker owns the configuration document.  A Lua handler may      *)
(* change it (an event commit, CONFIG with id 0), and a reload replaces    *)
(* the Lua runtime and the document in one transaction: the worker stages  *)
(* the candidate, the compositor applies or rolls it back and answers, and *)
(* only then does the worker commit it.  Packets that arrive while a       *)
(* reload is staged wait in a queue, except completions of operations,     *)
(* results and input requests.                                             *)
(*                                                                         *)
(* Each action is one main-loop callback of the worker or the compositor;  *)
(* the two channels are FIFO.  The module ends when either side gives the  *)
(* channel up: that, framing and the death of a process are the subject of *)
(* RuntimeSupervision.                                                     *)
(***************************************************************************)
EXTENDS Naturals, Sequences

CONSTANTS
    MaxDocument,  \* bound: the documents are 0..MaxDocument
    MaxRevision,  \* bound: no handler changes the configuration beyond it
    MaxDeferred,  \* the length of the queue, 256 in the code
    MaxUp,        \* bound: packets underway when a callback runs
    Stimuli       \* bound: events and reload requests the compositor sends;
                  \* keys are pressed and overrides made before the last

ASSUME ConfigAssumption ==
    /\ MaxDocument \in Nat /\ MaxRevision \in Nat \ {0}
    /\ MaxDeferred \in Nat \ {0} /\ MaxUp \in Nat \ {0} /\ Stimuli \in Nat

VARIABLES
    worker,      \* the active Lua runtime
    pending,     \* runtime->pending_reload
    deferred,    \* runtime->deferred_packets
    startup,     \* the startup configuration still to be tried
    operation,   \* the operation the worker waits for
    compositor,  \* the caches, the native settings, the overrides
    up,          \* packets from the worker to the compositor
    down,        \* packets from the compositor to the worker
    open,        \* reload requests without a response
    sent,        \* events and requests the compositor has sent
    seen         \* events and requests the worker has handled

vars == <<worker, pending, deferred, startup, operation, compositor, up, down, open, sent, seen>>

Documents == 0..MaxDocument
Layout(doc) == doc % 2         \* the workspaces section of a document
Mixed == MaxDocument + 1       \* a section left half applied

Sections == {"input", "workspaces", "keybindings", "shortcuts", "renderers", "protocols"}
ApplyOrder == <<"input", "workspaces", "keybindings", "shortcuts", "renderers", "protocols">>

Numbers == 1..Stimuli
StartupId == Stimuli + 1       \* G_MAXUINT64 in the code
Ids == 0..StartupId
NoReload == [id |-> 0, doc |-> 0, rev |-> 0, gen |-> 0, sent |-> FALSE, retry |-> FALSE]
Reload == [id : Ids, doc : Documents, rev : Nat, gen : Nat, sent : BOOLEAN, retry : BOOLEAN]

Worker == [up : BOOLEAN, doc : Documents, rev : Nat, gen : Nat]
Compositor == [st : {"live", "refused", "unapplied"}, doc : Documents, boot : Documents,
               rev : Nat, gen : Nat, applied : [Sections -> 0..Mixed],
               override : BOOLEAN, overlay : BOOLEAN, running : {"none", "plain", "tween"}]
Config(id, c) == [type |-> "CONFIG", id |-> id, doc |-> c.doc, rev |-> c.rev, gen |-> c.gen]
Operation(kind) == [type |-> "OPERATION", kind |-> kind]
Result(p, accepted) == [type |-> "RESULT", id |-> p.id, rev |-> p.rev, gen |-> p.gen,
                        accepted |-> accepted]
Deferrable(p) == p.type \in {"EVENT", "REQUEST"}

-----------------------------------------------------------------------------
(* After HELLO: both sides hold the embedded defaults, the user's           *)
(* configuration has not been evaluated.                                    *)
Init ==
    /\ worker = [up |-> TRUE, doc |-> 0, rev |-> 1, gen |-> 1]
    /\ pending = NoReload /\ deferred = <<>>
    /\ startup = "user" /\ operation = "none"
    /\ compositor = [st |-> "live", doc |-> 0, boot |-> 0, rev |-> 1, gen |-> 1,
                     applied |-> [s \in Sections |-> 0],
                     override |-> FALSE, overlay |-> FALSE, running |-> "none"]
    /\ up = <<>> /\ down = <<>> /\ open = {} /\ sent = 0 /\ seen = 0

-----------------------------------------------------------------------------
(* The worker.                                                              *)

Staged == pending # NoReload
Running == worker.up /\ compositor.st = "live"

SendsAlways(p) == TRUE                \* mutant: a reload underway is not noticed
SendsDocument(p) == ~p.sent

(* What handlers leave of the runtime w: a changed document is a new        *)
(* revision.                                                                *)
AfterHandlers(w) == {w} \cup {[w EXCEPT !.doc = d, !.rev = @ + 1] : d \in Documents \ {w.doc}}

(* Lua handlers run in the runtime w: they may change the document, and     *)
(* start an operation.  If any ran the document is sent again, changed or   *)
(* not, unless the reload p is with the compositor.                         *)
LuaRuns(w, p, waitsFor) ==
    \E next \in AfterHandlers(w), handler \in BOOLEAN, start \in {"none", "plain", "tween"} :
          /\ next # w => handler /\ w.rev < MaxRevision
          /\ start # "none" => handler /\ waitsFor = "none"
          /\ worker' = next
          /\ operation' = IF start = "none" THEN waitsFor ELSE start
          /\ up' = up \o (IF handler /\ SendsDocument(p) THEN <<Config(0, next)>> ELSE <<>>)
                      \o (IF start = "none" THEN <<>> ELSE <<Operation(start)>>)

(* `on_complete' callbacks of operations that have ended, and handlers of   *)
(* the focus policy, from the idle queue.                                   *)
RunsCallbacks ==
    /\ Running /\ Len(up) < MaxUp
    /\ LuaRuns(worker, pending, operation)
    /\ UNCHANGED <<pending, deferred, startup, compositor, down, open, sent, seen>>

StageReload(id, retry) ==
    \E d \in Documents :
       pending' = [id |-> id, doc |-> d, rev |-> 0, gen |-> worker.gen + 1, sent |-> FALSE,
                   retry |-> retry]

(* handle_api_request: the files are evaluated into a second Lua runtime.   *)
HandlesRequest(n) ==
    \/ /\ StageReload(n, FALSE)
       /\ UNCHANGED <<worker, operation, up, open>>
    \/ /\ LuaRuns(worker, pending, operation)      \* gnoblin.config.reload-failed
       /\ open' = open \ {n}
       /\ UNCHANGED pending

HandlesEvent ==
    /\ LuaRuns(worker, pending, operation)
    /\ UNCHANGED <<pending, open>>

Handles(p) ==
    /\ seen' = p.n
    /\ IF p.type = "REQUEST" THEN HandlesRequest(p.n) ELSE HandlesEvent

WorkerReads(type) ==
    /\ Running /\ down # <<>> /\ Head(down).type = type
    /\ down' = Tail(down)

DefersLess == Staged                  \* mutant: overtakes what is queued
QueueFullLate == Len(deferred) > MaxDeferred     \* mutant: one packet too many
QueueFull == Len(deferred) >= MaxDeferred
MustDefer == Staged \/ deferred # <<>>

WorkerHandles ==
    /\ ~MustDefer
    /\ \E type \in {"EVENT", "REQUEST"} : WorkerReads(type)
    /\ Handles(Head(down))
    /\ UNCHANGED <<deferred, startup, compositor, sent>>

WorkerDefers ==
    /\ MustDefer /\ ~QueueFull
    /\ \E type \in {"EVENT", "REQUEST"} : WorkerReads(type)
    /\ deferred' = Append(deferred, Head(down))
    /\ UNCHANGED <<worker, pending, startup, operation, compositor, up, open, sent, seen>>

WorkerOverflows ==
    /\ MustDefer /\ QueueFull
    /\ \E type \in {"EVENT", "REQUEST"} : WorkerReads(type)
    /\ worker' = [worker EXCEPT !.up = FALSE]
    /\ UNCHANGED <<pending, deferred, startup, operation, compositor, up, open, sent, seen>>

WorkerDispatchesDeferred ==
    /\ Running /\ ~Staged /\ deferred # <<>>
    /\ deferred' = Tail(deferred)
    /\ Handles(Head(deferred))
    /\ UNCHANGED <<startup, compositor, down, sent>>

WorkerCompletes ==
    /\ WorkerReads("COMPLETION")
    /\ LuaRuns(worker, pending, "none")
    /\ UNCHANGED <<pending, deferred, startup, compositor, open, sent, seen>>

(* handle_input: answered at once, by the handlers or by the default.       *)
WorkerInput ==
    /\ WorkerReads("INPUT")
    /\ UNCHANGED <<worker, pending, deferred, startup, operation, compositor, up, open, sent, seen>>

CandidateRevision == IF pending.doc = worker.doc THEN worker.rev ELSE worker.rev + 1

MayProgressTwice == operation # "plain"      \* mutant: sends the candidate again
MayProgress == ~pending.sent /\ operation # "plain"

(* The candidate goes to the compositor once no operation is outstanding,   *)
(* a playing tween excepted.                                                *)
ReloadProgress ==
    /\ Running /\ Staged /\ MayProgress
    /\ pending' = [pending EXCEPT !.rev = CandidateRevision, !.sent = TRUE]
    /\ up' = Append(up, Config(pending.id, pending'))
    /\ UNCHANGED <<worker, deferred, startup, operation, compositor, down, open, sent, seen>>

FinishLoadNoRevision ==               \* mutant: the new document keeps the old revision
    [up |-> TRUE, doc |-> pending.doc, rev |-> worker.rev, gen |-> pending.gen]

(* gnoblin_config_finish_load: the staged runtime becomes the active one.   *)
FinishLoad ==
    [up |-> TRUE, doc |-> pending.doc, gen |-> pending.gen,
     rev |-> IF pending.doc = worker.doc THEN worker.rev ELSE worker.rev + 1]

(* An operation of the old runtime is unknown to the new one, which still   *)
(* waits for its completion; it is no tween to it.                          *)
Orphan(kind) == IF kind = "tween" THEN "plain" ELSE kind

NextStartup == IF pending.id = StartupId /\ pending.retry THEN "saved" ELSE startup

(* runtime_reload_finish: commit or drop, tell the listeners, answer.       *)
ReloadFinish(commit) ==
    /\ pending' = NoReload
    /\ startup' = IF commit THEN startup ELSE NextStartup
    /\ open' = open \ {pending.id}
    /\ IF commit THEN LuaRuns(FinishLoad, NoReload, Orphan(operation))
                 ELSE LuaRuns(worker, NoReload, operation)
    /\ UNCHANGED <<deferred, compositor, sent, seen>>

ResultFits(r) ==
    /\ Staged /\ pending.sent
    /\ r.id = pending.id /\ r.rev = pending.rev /\ r.gen = pending.gen

WorkerResult ==
    /\ WorkerReads("RESULT") /\ ResultFits(Head(down))
    /\ ReloadFinish(Head(down).accepted)

MayGiveUpAlways == TRUE               \* mutant: gives up what is being applied
MayGiveUpNever == FALSE               \* mutant: no timeout
MayGiveUp == ~pending.sent

(* 15 seconds after it was staged the reload is given up; one that the      *)
(* compositor has not answered by then ends the worker.                     *)
ReloadTimesOut ==
    /\ Running /\ Staged /\ MayGiveUp
    /\ ReloadFinish(FALSE)
    /\ UNCHANGED down

ReloadUnanswered ==
    /\ Running /\ Staged /\ pending.sent
    /\ worker' = [worker EXCEPT !.up = FALSE]
    /\ UNCHANGED <<pending, deferred, startup, operation, compositor, up, down, open, sent, seen>>

(* runtime_load_startup_config, from the idle queue: the user's             *)
(* configuration, then the saved one.  It gives way to a client's reload.   *)
StartupLoads ==
    /\ Running /\ startup # "done"
    /\ \/ /\ Staged
          /\ startup' = "done"
          /\ UNCHANGED <<worker, pending, operation, up>>
       \/ /\ ~Staged
          /\ StageReload(StartupId, startup = "user")
          /\ startup' = "done"
          /\ UNCHANGED <<worker, operation, up>>
       \/ /\ ~Staged
          /\ startup' = IF startup = "user" THEN "saved" ELSE "done"
          /\ LuaRuns(worker, pending, operation)
          /\ UNCHANGED pending
    /\ UNCHANGED <<deferred, compositor, down, open, sent, seen>>

-----------------------------------------------------------------------------
(* The compositor.                                                          *)

Sends(p) == down' = Append(down, p)

CompositorEvent ==
    /\ Running /\ sent < Stimuli
    /\ sent' = sent + 1
    /\ Sends([type |-> "EVENT", n |-> sent + 1])
    /\ UNCHANGED <<worker, pending, deferred, startup, operation, compositor, up, open, seen>>

CompositorRequest ==
    /\ Running /\ sent < Stimuli
    /\ sent' = sent + 1
    /\ open' = open \cup {sent + 1}
    /\ Sends([type |-> "REQUEST", n |-> sent + 1])
    /\ UNCHANGED <<worker, pending, deferred, startup, operation, compositor, up, seen>>

(* A key is offered to the handlers of the configuration the compositor     *)
(* holds: the packet names its revision (doc is what that revision means).  *)
CompositorInput ==
    /\ Running /\ sent < Stimuli
    /\ \A i \in DOMAIN down : down[i].type # "INPUT"
    /\ Sends([type |-> "INPUT", rev |-> compositor.rev, doc |-> compositor.doc])
    /\ UNCHANGED <<worker, pending, deferred, startup, operation, compositor, up, open, sent, seen>>

CompositorReads(type) ==
    /\ Running /\ up # <<>> /\ Head(up).type = type
    /\ up' = Tail(up)

CompositorStarts ==
    /\ CompositorReads("OPERATION")
    /\ compositor' = [compositor EXCEPT !.running = Head(up).kind]
    /\ UNCHANGED <<worker, pending, deferred, startup, operation, down, open, sent, seen>>

CompositorCompletes ==
    /\ Running /\ compositor.running # "none"
    /\ compositor' = [compositor EXCEPT !.running = "none"]
    /\ Sends([type |-> "COMPLETION"])
    /\ UNCHANGED <<worker, pending, deferred, startup, operation, up, open, sent, seen>>

(* A setting is overridden at run time, or the override is taken back.      *)
CompositorOverrides(on) ==
    /\ Running /\ sent < Stimuli /\ compositor.override # on
    /\ compositor' = [compositor EXCEPT !.override = on, !.overlay = on]
    /\ UNCHANGED <<worker, pending, deferred, startup, operation, up, down, open, sent, seen>>

Candidate(p) ==
    /\ p.rev >= compositor.rev
    /\ IF p.id = 0 THEN p.gen = compositor.gen ELSE p.gen > compositor.gen
    /\ p.rev = compositor.rev => p.doc = compositor.doc

Answer(p, accepted) == IF p.id > 0 THEN <<Result(p, accepted)>> ELSE <<>>

Same(p) == Layout(p.doc) = Layout(compositor.doc)
Applied(s, doc) == IF s = "workspaces" THEN Layout(doc) ELSE doc

(* An outdated candidate is not applied: a reload is refused, anything else *)
(* ends the channel.                                                        *)
Refused(p) == [compositor EXCEPT !.st = IF p.id = 0 THEN "refused" ELSE @]

(* The caches are replaced, which drops the overlay; a greater revision is  *)
(* applied, a new generation ends what the old Lua runtime had going.       *)
Accepted(p) ==
    LET newer == p.rev > compositor.rev
        ends == p.gen > compositor.gen
    IN [compositor EXCEPT
          !.doc = p.doc, !.rev = p.rev, !.gen = p.gen,
          !.boot = IF newer THEN p.doc ELSE @,
          !.applied = IF newer THEN [s \in Sections |-> Applied(s, p.doc)] ELSE @,
          !.overlay = FALSE,
          !.override = @ /\ ~ends,
          !.running = IF ends /\ @ = "tween" THEN "none" ELSE @]

(* The completion of a tween it cancels goes out before the answer.         *)
CompositorTakes ==
    /\ CompositorReads("CONFIG")
    /\ LET p == Head(up)
           next == IF Candidate(p) THEN Accepted(p) ELSE Refused(p)
           cancelled == next.running # compositor.running
       IN /\ compositor' = next
          /\ down' = down \o (IF cancelled THEN <<[type |-> "COMPLETION"]>> ELSE <<>>)
                          \o Answer(p, Candidate(p))
    /\ UNCHANGED <<worker, pending, deferred, startup, operation, open, sent, seen>>

(* Section s of the candidate p could not be applied, those after it were   *)
(* not tried.                                                               *)
HalfApplied(p, k) ==
    [s \in Sections |->
       IF ApplyOrder[k] = s THEN Mixed
       ELSE IF (\E i \in 1..k - 1 : ApplyOrder[i] = s) /\ (s = "workspaces" => ~Same(p))
       THEN Applied(s, p.doc)
       ELSE compositor.applied[s]]

RestoredLess(p) == Sections \ {"workspaces"}     \* mutant: forgets the workspaces
Restored(p) == IF Same(p) THEN Sections \ {"workspaces"} ELSE Sections

(* Both caches are restored and every section is applied again, the         *)
(* protocols from the bootstrap cache; the overrides go back on top.        *)
Rollback(p, k, broken) ==
    LET again(s) == Applied(s, IF s = "protocols" THEN compositor.boot ELSE compositor.doc)
    IN [compositor EXCEPT
          !.applied = [s \in Sections |-> IF s \in broken THEN Mixed
                                          ELSE IF s \in Restored(p) THEN again(s)
                                          ELSE HalfApplied(p, k)[s]],
          !.overlay = compositor.override,
          !.st = IF broken # {} \/ p.id = 0 THEN "unapplied" ELSE "live"]

(* A section fails.  What fails in the rollback as well, or has nobody who  *)
(* waits for an answer, ends the channel.                                   *)
CompositorRollsBack ==
    /\ CompositorReads("CONFIG") /\ Candidate(Head(up))
    /\ Head(up).rev > compositor.rev
    /\ \E k \in DOMAIN ApplyOrder, broken \in {{}, Restored(Head(up))} :
          /\ ApplyOrder[k] = "workspaces" => ~Same(Head(up))
          /\ compositor' = Rollback(Head(up), k, broken)
    /\ down' = down \o Answer(Head(up), FALSE)
    /\ UNCHANGED <<worker, pending, deferred, startup, operation, open, sent, seen>>

-----------------------------------------------------------------------------
(* One side has given up: RuntimeSupervision takes over.                    *)
Ended == ~Running /\ UNCHANGED vars

Next ==
    \/ RunsCallbacks \/ WorkerHandles \/ WorkerDefers \/ WorkerOverflows
    \/ WorkerDispatchesDeferred \/ WorkerCompletes \/ WorkerInput \/ WorkerResult
    \/ ReloadProgress \/ ReloadTimesOut \/ ReloadUnanswered \/ StartupLoads
    \/ CompositorEvent \/ CompositorRequest \/ CompositorInput
    \/ CompositorStarts \/ CompositorCompletes \/ \E on \in BOOLEAN : CompositorOverrides(on)
    \/ CompositorTakes \/ CompositorRollsBack
    \/ Ended

Spec == Init /\ [][Next]_vars

(* Main loops come round, the compositor answers, the timeout expires.      *)
(* Nothing makes an operation complete or a user do anything.               *)
Fairness ==
    /\ WF_vars(\/ WorkerHandles \/ WorkerDefers \/ WorkerOverflows
               \/ WorkerCompletes \/ WorkerInput \/ WorkerResult)
    /\ WF_vars(WorkerDispatchesDeferred)
    /\ WF_vars(ReloadTimesOut)
    /\ WF_vars(CompositorStarts \/ CompositorTakes \/ CompositorRollsBack)

FairSpec == Spec /\ Fairness

-----------------------------------------------------------------------------
Packet ==
    [type : {"EVENT", "REQUEST"}, n : Numbers]
    \cup [type : {"INPUT"}, rev : Nat, doc : Documents]
    \cup [type : {"COMPLETION"}]
    \cup [type : {"RESULT"}, id : Ids, rev : Nat, gen : Nat, accepted : BOOLEAN]

UpPacket ==
    [type : {"CONFIG"}, id : Ids, doc : Documents, rev : Nat, gen : Nat]
    \cup [type : {"OPERATION"}, kind : {"plain", "tween"}]

(* The shape of every variable, the deferred queue within its limit.        *)
TypeOK ==
    /\ worker \in Worker /\ compositor \in Compositor
    /\ pending \in Reload
    /\ deferred \in Seq([type : {"EVENT", "REQUEST"}, n : Numbers])
    /\ Len(deferred) <= MaxDeferred
    /\ startup \in {"user", "saved", "done"} /\ operation \in {"none", "plain", "tween"}
    /\ down \in Seq(Packet) /\ up \in Seq(UpPacket)
    /\ open \subseteq Numbers /\ sent \in 0..Stimuli /\ seen \in 0..Stimuli

(* A reload is applied as a whole or not at all, wherever it failed: while  *)
(* the compositor serves its worker, every native section stands as the     *)
(* document in its cache says, and the cache that protocols are advertised  *)
(* from holds the same document (apply chain and rollback of the CONFIG     *)
(* branch).                                                                 *)
AllOrNothing ==
    compositor.st = "live" =>
       /\ compositor.boot = compositor.doc
       /\ \A s \in Sections : compositor.applied[s] = Applied(s, compositor.doc)

(* However handlers, callbacks and reloads interleave, the worker never     *)
(* sends an event's document the compositor has to refuse as stale, which   *)
(* would end the channel (commit_event_result, candidate_valid).            *)
NeverStale == compositor.st # "refused"

(* Every answer that reaches the worker is the answer to the reload that    *)
(* it has staged; any other ends the worker (CONFIG_RESULT in               *)
(* handle_runtime_packet).                                                  *)
AnswersFit ==
    \A i \in DOMAIN down :
       worker.up /\ down[i].type = "RESULT" => ResultFits(down[i])

(* The worker commits exactly the reloads the compositor has applied: the   *)
(* generations differ only while the news of an accepted one is underway.   *)
BothOrNeither ==
    LET news == {i \in DOMAIN down : down[i].type = "RESULT" /\ down[i].accepted}
    IN worker.up =>
          compositor.gen = IF news = {} THEN worker.gen ELSE pending.gen

(* One document at a time, whole, on both sides of the channel.             *)
Agreement == AllOrNothing /\ BothOrNeither

(* Deferral neither loses nor reorders what the compositor sent: the queue  *)
(* holds the events and requests handled next, the channel exactly those    *)
(* after them, in the order they were sent (runtime_channel_ready,          *)
(* runtime_dispatch_deferred_packets).                                      *)
NoneLost ==
    LET waiting == {i \in DOMAIN down : Deferrable(down[i])}
    IN worker.up =>
          /\ \A i \in DOMAIN deferred : deferred[i].n = seen + i
          /\ {down[i].n : i \in waiting} = seen + Len(deferred) + 1 .. sent
          /\ \A i, j \in waiting : i < j => down[i].n < down[j].n

(* What is queued is what was sent: bounded, in order, and each answer to   *)
(* the reload that waits for it.                                            *)
QueuesSound == TypeOK /\ AnswersFit /\ NoneLost

(* A key offered to the handlers of one configuration never reaches those   *)
(* of another: if its revision is the worker's, so is its document          *)
(* (handle_input).                                                          *)
InputSeesItsDocument ==
    worker.up /\ ~Staged /\ down # <<>> /\ Head(down).type = "INPUT"
    /\ Head(down).rev = worker.rev
       => Head(down).doc = worker.doc

(* A revision names one document to both sides, in events and in keys.      *)
RevisionsFit == NeverStale /\ InputSeesItsDocument

(* A client that asked for a reload gets a response, even when operations   *)
(* never complete, unless the worker or its channel ends.                   *)
RequestsAnswered ==
    \A n \in Numbers :
       n \in open ~> n \notin open \/ ~Running

-----------------------------------------------------------------------------
(* What the sources say and the code does not do.                           *)

Underway(types) ==
    \/ \E i \in DOMAIN up : up[i].type \in types
    \/ \E i \in DOMAIN down : down[i].type \in types

(* gnoblin-runtime-events.c:11-13: no document is sent while a reload is    *)
(* with the compositor, because the runtime that changed it goes away.  So  *)
(* when no reload is staged and no document underway, both sides hold the   *)
(* same document.                                                           *)
InStep ==
    Running /\ ~Staged /\ ~Underway({"CONFIG", "RESULT"})
       => compositor.doc = worker.doc

(* docs/shell-api/overrides.md:49: while an override is active, the         *)
(* compositor reads its value in place of the committed one.                *)
OverridesOnTop == compositor.st = "live" /\ compositor.override => compositor.overlay
=============================================================================
