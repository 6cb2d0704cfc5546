--------------------------- MODULE PortalShortcuts ---------------------------
(***************************************************************************)
(* The Global Shortcuts portal (portal/backend/gnoblin-globalshortcuts.c): *)
(* sessions of apps, the accelerators that the shell approved for them,    *)
(* and the connection to the compositor's socket that binds them, which is *)
(* made again when it breaks.                                              *)
(*                                                                         *)
(* An accelerator is a pointer into an array of the session; a batch of    *)
(* binds keeps such pointers while it waits for the compositor.  The shell *)
(* and the compositor are other processes: both answer when they like.     *)
(***************************************************************************)
EXTENDS Naturals, Sequences, FiniteSets, SequencesExt, Functions, TLC

CONSTANTS
  Sessions,     \* sessions that apps create
  Keys,         \* accelerators
  MaxBatches,   \* bound of the model: calls of BindShortcuts, Configure- and RebindShortcuts
  MaxEvents,    \* bound of the model: cut connections, cancels, presses and other clients' binds
  OneAtATime    \* the shell and the app wait for one call about a session before the next

VARIABLES
  session,      \* GlobalShortcutsSession
  batch,        \* BindShortcutsHandle, calls of the shell, and whether binds were restored since
  ctl,          \* native_control
  wire, back,   \* the socket
  grabs,        \* the compositor: key -> binding of the portal
  others,       \* keys that others have
  pointers,     \* accelerators made so far
  ids,          \* next_binding_id
  dangled,      \* a batch has used an accelerator that was freed
  missed,       \* a press came for an accelerator that the portal thought unbound
  keyEvents     \* bound of the model

vars == <<session, batch, ctl, wire, back, grabs, others, pointers, ids, dangled, missed, keyEvents>>
ShortcutsAssumption == MaxBatches \in Nat \ {0} /\ MaxEvents \in Nat /\ OneAtATime \in BOOLEAN

Batches == 1 .. MaxBatches
Init ==
  /\ session = [s \in Sessions |-> [at |-> "none", bound |-> FALSE, initial |-> FALSE, acc |-> <<>>]]
  /\ batch = [b \in Batches |-> [at |-> "free", session |-> CHOOSE s \in Sessions : TRUE, kind |-> "bind",
                                 mapped |-> <<>>, next |-> 0, canceled |-> FALSE, failed |-> FALSE,
                                 answer |-> "none", restored |-> FALSE]]
  /\ ctl = [at |-> "down", retry |-> FALSE, writing |-> FALSE, fallback |-> FALSE, queued |-> <<>>,
            pending |-> {}]
  /\ wire = <<>> /\ back = <<>> /\ grabs = <<>> /\ others = {}
  /\ pointers = 0 /\ ids = 0 /\ dangled = FALSE /\ missed = FALSE /\ keyEvents = 0

Happens == keyEvents < MaxEvents /\ keyEvents' = keyEvents + 1
Lives(s) == session[s].at = "open"
Rebinds(t) == t.kind # "bind"

-----------------------------------------------------------------------------
(* A handler works on w, what it may change at once.                         *)

State == [session |-> session, batch |-> batch, ctl |-> ctl, wire |-> wire, ids |-> ids]
Becomes(w) ==
  /\ session' = w.session /\ batch' = w.batch /\ ctl' = w.ctl /\ wire' = w.wire /\ ids' = w.ids

\* native_control_write_next
WriteNext(w) ==
  IF w.ctl.at # "ready" \/ w.ctl.writing \/ w.ctl.queued = <<>> THEN w
  ELSE [w EXCEPT !.ctl.writing = TRUE, !.ctl.queued = Tail(@),
                 !.ctl.pending = @ \union {Head(w.ctl.queued)}, !.wire = Append(@, Head(w.ctl.queued))]

\* native_control_request, with native_control_connect
Request(w, request) ==
  WriteNext([w EXCEPT !.ctl.queued = Append(@, request),
                      !.ctl.at = IF @ = "down" THEN "connecting" ELSE @])
Asks(w, requests) == FoldLeft(Request, w, requests)

Unbind(id) == [method |-> "unbind", id |-> id, key |-> "none", cb |-> "none", of |-> 0]
Bind(a, cb, of) == [method |-> "bind", id |-> a.id, key |-> a.key, cb |-> cb, of |-> of]
On(acc) == SelectSeq(acc, LAMBDA a : a.on)
Unbinds(acc) == LET on == On(acc) IN [i \in DOMAIN on |-> Unbind(on[i].id)]
AllOff(acc) == [i \in DOMAIN acc |-> [acc[i] EXCEPT !.on = FALSE]]

\* global_shortcuts_find_accelerator and the like: the places of the accelerators that satisfy P.
Place(acc, P(_)) == {i \in DOMAIN acc : P(acc[i])}

-----------------------------------------------------------------------------
(* Batches.                                                                  *)

\* A cancelled bind keeps what it has bound.
FinishKeeps(w, b) ==
  [w EXCEPT !.batch[b].at = "done", !.batch[b].answer = IF w.batch[b].failed THEN "failed" ELSE "bound"]

\* finish_native_bind_batch
Finish(w, b) ==
  LET t == w.batch[b]
      s == t.session
  IN IF t.canceled /\ ~Rebinds(t)
     THEN [Asks(w, Unbinds(w.session[s].acc)) EXCEPT
             !.session[s].acc = AllOff(@), !.batch[b].at = "done", !.batch[b].answer = "canceled"]
     ELSE [w EXCEPT !.batch[b].at = "done",
                    !.batch[b].answer = IF Rebinds(t) THEN "changed" ELSE IF t.failed THEN "failed" ELSE "bound",
                    !.session[s].bound = @ /\ ~(Rebinds(t) /\ w.session[s].acc = <<>>)]

Rest(t) == {t.mapped[i] : i \in (t.next + 1) .. Len(t.mapped)}

MayStop(w, t) == t.canceled \/ w.session[t.session].at # "open"

\* bind_next_approved_accelerator
BindNext(w, b) ==
  LET t == w.batch[b]
      s == t.session
      p == t.mapped[t.next + 1]
      i == CHOOSE j \in DOMAIN w.session[s].acc : w.session[s].acc[j].p = p
      a == [w.session[s].acc[i] EXCEPT !.id = w.ids + 1]
  IN IF t.next = Len(t.mapped) THEN Finish(w, b)
     ELSE IF MayStop(w, t)
     THEN Finish([w EXCEPT !.batch[b].failed = TRUE, !.batch[b].next = Len(t.mapped),
                    !.session[s].acc = [j \in DOMAIN @ |-> [@[j] EXCEPT !.on = @ /\ w.session[s].acc[j].p \notin Rest(t)]]], b)
     ELSE Request([w EXCEPT !.batch[b].next = @ + 1, !.session[s].acc[i] = a, !.ids = @ + 1],
                  Bind(a, "batch", b))

Dangles(t) == Range(t.mapped) \ {a.p : a \in Range(session[t.session].acc)} # {}

\* native_bind_done: a session that closed meanwhile gives the binding back.
BindDoneKeeps(w, s) == FALSE
BindDoneReleases(w, s) == w.session[s].at # "open"

BindDone(w, b, ok) ==
  LET t == w.batch[b]
      s == t.session
      i == CHOOSE j \in DOMAIN w.session[s].acc : w.session[s].acc[j].p = t.mapped[t.next]
      a == w.session[s].acc[i]
      after == IF ~ok THEN [w EXCEPT !.batch[b].failed = TRUE]
               ELSE IF BindDoneReleases(w, s) THEN Request(w, Unbind(a.id))
               ELSE [w EXCEPT !.session[s].acc[i].on = TRUE]
  IN BindNext(IF w.session[s].at # "open" THEN [after EXCEPT !.session[s].acc[i].on = FALSE] ELSE after, b)

\* native_rebind_done: the accelerator may have been replaced meanwhile.
RebindDoneTrusts(w, s, id) == w.session[s].at = "open"
RebindDoneHolds(w, s, id) == w.session[s].at = "open" /\ Place(w.session[s].acc, LAMBDA a : a.id = id) # {}

RebindDone(w, s, id, ok) ==
  IF ~ok THEN w
  ELSE IF ~RebindDoneHolds(w, s, id) THEN Request(w, Unbind(id))
  ELSE [w EXCEPT !.session[s].acc = [j \in DOMAIN @ |-> IF @[j].id = id THEN [@[j] EXCEPT !.on = TRUE] ELSE @[j]]]

\* settings_response_to_shortcuts
Approved(keys) ==
  LET seq == SetToSeq(keys)
  IN [i \in DOMAIN seq |-> [p |-> pointers + i, key |-> seq[i], id |-> 0, on |-> FALSE]]
Pointers(acc) == [i \in DOMAIN acc |-> acc[i].p]

\* The old bindings go first.
Replaces(w, s) == w
ReplacesUnbound(w, s) == Asks(w, Unbinds(w.session[s].acc))

\* settings_bind_shortcuts_done, rebind_session_shortcuts
Approves(w, b, keys) ==
  LET t == w.batch[b]
      s == t.session
      released == IF Rebinds(t) THEN ReplacesUnbound(w, s) ELSE w
      acc == (IF Rebinds(t) THEN <<>> ELSE w.session[s].acc) \o Approved(keys)
  IN BindNext([released EXCEPT !.session[s].acc = acc, !.batch[b].at = "binding",
                               !.batch[b].mapped = Pointers(acc)], b)

-----------------------------------------------------------------------------
(* Apps and the shell.                                                       *)

Others == UNCHANGED <<back, grabs, others, missed>>
Calm == Others /\ UNCHANGED <<pointers, dangled>>

\* handle_create_session
CreateSession(s) ==
  /\ session[s].at = "none" /\ session' = [session EXCEPT ![s].at = "open"]
  /\ UNCHANGED <<batch, ctl, wire, ids, keyEvents>> /\ Calm

Busy(s) == \E b \in Batches : batch[b].session = s /\ batch[b].at \in {"asked", "binding"}
MayCall(s, b) ==
  /\ batch[b].at = "free" /\ \A c \in 1 .. (b - 1) : batch[c].at # "free"
  /\ Lives(s) /\ (OneAtATime => ~Busy(s))
Called(s, b, kind) == batch' = [batch EXCEPT ![b].at = "asked", ![b].session = s, ![b].kind = kind]

\* handle_bind_shortcuts; a session that has bound shortcuts refuses.
BindShortcuts(s, b) ==
  /\ MayCall(s, b) /\ ~session[s].bound
  /\ session' = [session EXCEPT ![s].bound = TRUE, ![s].initial = TRUE]
  /\ Called(s, b, "bind")
  /\ UNCHANGED <<ctl, wire, ids, keyEvents>> /\ Calm

\* handle_configure_shortcuts: also of a session whose shortcuts were all taken from it.
ConfigureShortcuts(s, b) ==
  /\ MayCall(s, b) /\ session[s].initial
  /\ session' = [session EXCEPT ![s].bound = TRUE]
  /\ Called(s, b, "configure")
  /\ UNCHANGED <<ctl, wire, ids, keyEvents>> /\ Calm

\* handle_rebind_shortcuts: the shell replaces what it approved.
RebindShortcuts(s, b) ==
  /\ MayCall(s, b) /\ session[s].initial
  /\ \E keys \in SUBSET Keys :
       /\ Becomes(Approves([State EXCEPT !.batch[b].session = s, !.batch[b].kind = "rebind"], b, keys))
       /\ pointers' = pointers + Cardinality(keys)
  /\ Others /\ UNCHANGED <<dangled, keyEvents>>

\* settings_bind_shortcuts_done, settings_configure_shortcuts_done
ShellAnswers(b, keys) ==
  /\ batch[b].at = "asked"
  /\ LET t == batch[b] IN
     IF t.canceled \/ (Rebinds(t) /\ ~Lives(t.session))
     THEN /\ batch' = [batch EXCEPT ![b].at = "done", ![b].answer = IF t.canceled THEN "canceled" ELSE "changed"]
          /\ UNCHANGED <<session, ctl, wire, ids, pointers>>
     ELSE Becomes(Approves(State, b, keys)) /\ pointers' = pointers + Cardinality(keys)
  /\ Others /\ UNCHANGED <<dangled, keyEvents>>

ShellFails(b) ==
  /\ batch[b].at = "asked"
  /\ batch' = [batch EXCEPT ![b].at = "done", ![b].answer = IF Rebinds(batch[b]) THEN "changed" ELSE "failed"]
  /\ UNCHANGED <<session, ctl, wire, ids, keyEvents>> /\ Calm

\* on_request_handle_close_cb
Cancel(b) ==
  /\ Happens /\ batch[b].at \in {"asked", "binding"} /\ batch[b].kind = "bind" /\ ~batch[b].canceled
  /\ batch' = [batch EXCEPT ![b].canceled = TRUE]
  /\ UNCHANGED <<session, ctl, wire, ids>> /\ Calm

\* global_shortcuts_session_close
CloseSession(s) ==
  /\ Lives(s) /\ Happens
  /\ Becomes([Asks(State, Unbinds(session[s].acc)) EXCEPT
                !.session[s].at = "closed", !.session[s].acc = AllOff(@)])
  /\ Calm

-----------------------------------------------------------------------------
(* The connection.                                                           *)

\* native_control_connected, or the connection that cannot be made
Connected ==
  /\ ctl.at = "connecting" /\ ctl' = [ctl EXCEPT !.at = "greeting", !.retry = FALSE]
  /\ UNCHANGED <<session, batch, wire, ids, keyEvents>> /\ Calm

\* native_control_read_done of the greeting: it subscribes to what is offered.
Greeted(deactivation) ==
  /\ ctl.at = "greeting" /\ ctl' = [ctl EXCEPT !.at = "subscribing", !.fallback = ~deactivation]
  /\ UNCHANGED <<session, batch, wire, ids, keyEvents>> /\ Calm

SubscribesAgain ==
  /\ ctl.at = "subscribing" /\ ~ctl.fallback /\ ctl' = [ctl EXCEPT !.fallback = TRUE]
  /\ UNCHANGED <<session, batch, wire, ids, keyEvents>> /\ Calm

ToRebind(w) == {s \in Sessions : w.session[s].bound /\ w.session[s].at = "open"}

\* native_control_rebind_shortcuts
RebindsOf(w, s) ==
  LET due == SelectSeq(w.session[s].acc, LAMBDA a : ~a.on /\ a.id # 0)
  IN [i \in DOMAIN due |-> Bind(due[i], "rebind", s)]

Subscribed ==
  /\ ctl.at = "subscribing"
  /\ LET w == [State EXCEPT !.ctl.at = "ready",
                   !.batch = [b \in Batches |-> [batch[b] EXCEPT !.restored = batch[b].at # "free"]]]
         of == SetToSeq(ToRebind(w))
     IN Becomes(WriteNext(Asks(w, FlattenSeq([i \in DOMAIN of |-> RebindsOf(w, of[i])]))))
  /\ UNCHANGED keyEvents /\ Calm

\* native_control_write_done
WriteDone ==
  /\ ctl.at = "ready" /\ ctl.writing
  /\ Becomes(WriteNext([State EXCEPT !.ctl.writing = FALSE]))
  /\ UNCHANGED keyEvents /\ Calm

\* native_control_mark_shortcuts_unbound
MarksNone(s) == session[s].acc
Marks(s) == AllOff(session[s].acc)

\* The replies of a connection that broke are never called.
UnheardNone == {}
Unheard == {b \in Batches : batch[b].at = "binding"}

\* native_control_fail: the callbacks of all requests fail, and what they ask for fails at once.
Numbered(acc, t, first) ==
  [j \in DOMAIN acc |->
     IF acc[j].p \in Rest(t) THEN [acc[j] EXCEPT !.id = first + IndexFirstSubSeq(<<acc[j].p>>, t.mapped) - t.next]
     ELSE acc[j]]

FailedBatch(w, b) ==
  LET t == w.batch[b]
      s == t.session
      over == [w EXCEPT !.batch[b].failed = TRUE, !.batch[b].next = Len(t.mapped)]
  IN Finish(IF MayStop(w, t) THEN over
            ELSE [over EXCEPT !.session[s].acc = Numbered(w.session[s].acc, t, w.ids),
                              !.ids = w.ids + Len(t.mapped) - t.next], b)

Fail ==
  /\ \/ ctl.at = "connecting" /\ UNCHANGED keyEvents
     \/ ctl.at \in {"greeting", "subscribing", "ready"} /\ Happens
  /\ IF \E b \in Unheard : Dangles(batch[b]) THEN dangled' = TRUE /\ UNCHANGED <<session, batch, ctl, wire, ids>>
     ELSE LET off == [State EXCEPT
                !.session = [s \in Sessions |-> [session[s] EXCEPT !.acc = Marks(s)]],
                !.ctl = [@ EXCEPT !.at = "down", !.retry = TRUE, !.writing = FALSE, !.queued = <<>>, !.pending = {}],
                !.wire = <<>>]
          IN Becomes(FoldLeft(FailedBatch, off, SetToSeq(Unheard))) /\ UNCHANGED dangled
  /\ back' = <<>> /\ grabs' = <<>>
  /\ UNCHANGED <<others, pointers, missed>>

\* native_control_retry
Retry ==
  /\ ctl.retry /\ ctl' = [ctl EXCEPT !.retry = FALSE, !.at = IF @ = "down" THEN "connecting" ELSE @]
  /\ UNCHANGED <<session, batch, wire, ids, keyEvents>> /\ Calm

\* native_control_read_done
Reply(request, ok) ==
  LET w == [State EXCEPT !.ctl.pending = @ \ {request}]
  IN CASE request.cb = "batch" ->
            IF Dangles(batch[request.of])
            THEN dangled' = TRUE /\ UNCHANGED <<session, batch, ctl, wire, ids>>
            ELSE Becomes(BindDone(w, request.of, ok)) /\ UNCHANGED dangled
       [] request.cb = "rebind" -> Becomes(RebindDone(w, request.of, request.id, ok)) /\ UNCHANGED dangled
       [] OTHER -> Becomes(w) /\ UNCHANGED dangled

InFlight == Range(ctl.queued) \union ctl.pending

\* The press of a binding that no session holds for bound is dropped.
Heard(id) ==
  missed' = (missed \/ /\ \A s \in Sessions : Lives(s) => Place(session[s].acc, LAMBDA a : a.id = id /\ a.on) = {}
                       /\ \E s \in Sessions : Lives(s) /\ Place(session[s].acc, LAMBDA a : a.id = id) # {}
                       /\ Unbind(id) \notin InFlight)

Receive ==
  /\ back # <<>> /\ back' = Tail(back)
  /\ LET msg == Head(back) IN
     IF msg[1] = "reply" THEN Reply(msg[2], msg[3]) /\ UNCHANGED missed
     ELSE Heard(msg[2]) /\ UNCHANGED <<session, batch, ctl, wire, ids, dangled>>
  /\ UNCHANGED <<grabs, others, pointers, keyEvents>>

-----------------------------------------------------------------------------
(* The compositor, input/gnoblin-control-shortcuts.c.                        *)

Bound(id) == \E key \in DOMAIN grabs : grabs[key] = id

TakeBind ==
  /\ wire # <<>> /\ Head(wire).method = "bind" /\ wire' = Tail(wire)
  /\ LET request == Head(wire)
         ok == ~Bound(request.id) /\ request.key \notin others \union DOMAIN grabs
     IN /\ grabs' = IF ok THEN (request.key :> request.id) @@ grabs ELSE grabs
        /\ back' = Append(back, <<"reply", request, ok>>)
  /\ UNCHANGED <<session, batch, ctl, others, pointers, ids, dangled, missed, keyEvents>>

TakeUnbind ==
  /\ wire # <<>> /\ Head(wire).method = "unbind" /\ wire' = Tail(wire)
  /\ LET request == Head(wire) IN
     /\ grabs' = Restrict(grabs, {key \in DOMAIN grabs : grabs[key] # request.id})
     /\ back' = Append(back, <<"reply", request, Bound(request.id)>>)
  /\ UNCHANGED <<session, batch, ctl, others, pointers, ids, dangled, missed, keyEvents>>

Press(key) ==
  /\ key \in DOMAIN grabs /\ Happens /\ back' = Append(back, <<"activated", grabs[key]>>)
  /\ UNCHANGED <<session, batch, ctl, wire, grabs, others, pointers, ids, dangled, missed>>

OtherClient(key) ==
  /\ Happens /\ key \notin DOMAIN grabs
  /\ others' = IF key \in others THEN others \ {key} ELSE others \union {key}
  /\ UNCHANGED <<session, batch, ctl, wire, back, grabs, pointers, ids, dangled, missed>>

Steps ==
  \/ \E s \in Sessions : CreateSession(s) \/ CloseSession(s)
  \/ \E s \in Sessions, b \in Batches : BindShortcuts(s, b) \/ ConfigureShortcuts(s, b) \/ RebindShortcuts(s, b)
  \/ \E b \in Batches, keys \in SUBSET Keys : ShellAnswers(b, keys)
  \/ \E b \in Batches : ShellFails(b) \/ Cancel(b)
  \/ Connected \/ SubscribesAgain \/ Subscribed \/ WriteDone \/ Fail \/ Retry \/ Receive
  \/ \E deactivation \in BOOLEAN : Greeted(deactivation)
  \/ TakeBind \/ TakeUnbind
  \/ \E key \in Keys : Press(key) \/ OtherClient(key)
Next == ~dangled /\ Steps

-----------------------------------------------------------------------------
Settled == ctl.at = "ready" /\ ctl.queued = <<>> /\ ctl.pending = {} /\ back = <<>>
Accelerators == UNION {Range(session[s].acc) : s \in {t \in Sessions : Lives(t)}}

\* When nothing is under way the compositor holds for the portal the accelerators of open sessions
\* that the portal takes for bound, and no others: none is left of a session that closed, of a
\* call that was cancelled or of accelerators that the shell replaced, whatever was cut off.
HoldsWhatItKnows ==
  Settled => grabs = [key \in {a.key : a \in {x \in Accelerators : x.on}} |->
                        (CHOOSE a \in Accelerators : a.key = key /\ a.on).id]

\* A call waits for the shell or for one bind, whatever happened to the connection; an app that is
\* told its shortcuts are bound has them all, or has closed the session.
CallsEnd ==
  /\ \A b \in Batches : batch[b].at = "binding" =>
       Cardinality({r \in ctl.pending \union Range(ctl.queued) : r.cb = "batch" /\ r.of = b}) = 1
  /\ \A b \in Batches : (batch[b].at = "done") = (batch[b].answer # "none")
  /\ ctl.at = "down" => ctl.pending = {} /\ ctl.queued = <<>>
  /\ ctl.at = "down" /\ (\E s \in Sessions : Lives(s) /\ session[s].acc # <<>>) => ctl.retry

\* Nothing stays bound for a call that the app cancelled before its answer.  A connection made
\* again restores the accelerators of cancelled calls too.
CanceledHoldsNothing ==
  \A b \in Batches : batch[b].canceled /\ batch[b].at = "done" /\ ~batch[b].restored =>
    \A a \in Accelerators : a.p \in Range(batch[b].mapped) => ~a.on
CanceledStaysUnbound ==
  \A b \in Batches : batch[b].canceled /\ batch[b].at = "done" =>
    \A a \in Accelerators : a.p \in Range(batch[b].mapped) => ~a.on

\* No press of a shortcut is dropped while the portal has its accelerator and is not giving it back.
HearsPresses == ~missed

\* No batch uses an accelerator that another has freed.
NeverDangles == ~dangled

ShortcutsSound ==
  HoldsWhatItKnows /\ CallsEnd /\ CanceledHoldsNothing /\ HearsPresses /\ NeverDangles

Spec == Init /\ [][Next]_vars
=============================================================================
