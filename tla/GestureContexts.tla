--------------------------- MODULE GestureContexts ---------------------------
(***************************************************************************)
(* What one press of a shortcut or a button entitles a shell to, from      *)
(* control/gnoblin-control-focus.c, gnoblin-control-events.c,              *)
(* gnoblin-control-text-snap.c and config/lua/gnoblin-lua-contexts.c.      *)
(*                                                                         *)
(* The compositor keeps a context per gesture.  A context has scopes, and  *)
(* each scope can be taken once: by Lua with a Grant, or by a connection   *)
(* with its token.  The text_target and snap_context scopes yield one-use  *)
(* objects of their own.  Everything ends after the same five seconds,     *)
(* with the lock, with the runtime and with the connection.  Expiry is     *)
(* `past': gestures 1 .. past are older than that.                         *)
(*                                                                         *)
(* A request for a window menu gives Lua and each connection an authority  *)
(* of its own, for one move or one resize of that window.                  *)
(***************************************************************************)
EXTENDS Naturals, Sequences, FiniteSets

CONSTANTS Clients,       \* connections subscribed to the shortcut events
          Windows,       \* windows the operations may name
          Scopes,        \* the scopes of a gesture (the code has five)
          Lua,           \* the owner 0: the Lua runtime
          None,          \* no window
          MaxGestures,   \* bound: gestures
          MaxContexts,   \* MAX_FOCUS_CONTEXTS
          MaxMenus,      \* bound: requests for a window menu
          MaxEnv         \* bound: changes of focus, settings, lock and runtime

GestureContextsAssumption ==
  /\ Scopes \subseteq {"focus", "begin_move", "begin_resize", "snap_context", "text_target"}
  /\ Scopes # {} /\ Lua \notin Clients /\ None \notin Windows
  /\ MaxGestures \in Nat /\ MaxMenus \in Nat /\ MaxContexts \in Nat \ {0} /\ MaxEnv \in Nat

VARIABLES
  g,         \* the compositor's tables
  world,     \* what the tables are checked against
  lua,       \* the Grants of the running Lua generation and what it has spent
  fromLua,   \* operations Lua has queued
  menus,     \* the authorities over window menus, with their expiry and Lua's callbacks
  ledger     \* what each gesture was and what was done with it

gestureVars == <<g, world, lua, fromLua, menus, ledger>>

Gestures == 1 .. MaxGestures
Menus == 1 .. MaxMenus
Empty == [x \in {} |-> TRUE]
Without(f, S) == [x \in DOMAIN f \ S |-> f[x]]
With(f, x, v) == [y \in DOMAIN f \cup {x} |-> IF y = x THEN v ELSE f[y]]

Init ==
  /\ g = [next |-> 0, contexts |-> Empty, tokens |-> [c \in Clients |-> {}],
          targets |-> Empty, snaps |-> Empty]
  /\ world = [past |-> 0, runtime |-> 1, settings |-> 1, locked |-> FALSE, epoch |-> 1,
              window |-> None, editing |-> FALSE, held |-> FALSE, env |-> 0]
  /\ lua = [grants |-> {}, spent |-> [h \in Gestures |-> {}], targets |-> {}, snaps |-> {}]
  /\ fromLua = <<>>
  /\ menus = [next |-> 0, contexts |-> Empty, tokens |-> [c \in Clients |-> {}], past |-> 0,
              events |-> <<>>, callback |-> 0, spent |-> {}]
  /\ ledger = [born |-> Empty, asked |-> Empty, acts |-> {}, menus |-> {}, twice |-> FALSE]

-----------------------------------------------------------------------------
(* The tables.                                                              *)

RevokeNone(t, h, keeper) == t
\* revoke_other_focus_grants_for_handle: the first connection that uses a gesture owns the rest.
RevokeOthers(t, h, keeper) ==
  [t EXCEPT !.tokens = [c \in Clients |-> IF c = keeper THEN @[c] ELSE @[c] \ {h}]]

\* focus_identity_matches, and the state of the text input of the focused client.
InFocus(epoch) == epoch = world.epoch /\ world.window # None
EditableField(epoch) == world.editing
Editable(epoch) == InFocus(epoch) /\ world.editing

\* prune_focus_contexts: what has expired or lost what it was made for is dropped.
Pruned(t) ==
  LET kept == Without(t.contexts, 1 .. world.past)
  IN [t EXCEPT
       !.contexts = kept,
       !.targets = Without(@, {h \in DOMAIN @ : ~(/\ h > world.past
                                                  /\ @[h].runtime = world.runtime
                                                  /\ ~world.locked
                                                  /\ Editable(@[h].epoch))}),
       !.snaps = Without(@, {h \in DOMAIN @ : ~(/\ h > world.past
                                                /\ @[h].runtime = world.runtime
                                                /\ @[h].settings = world.settings)}),
       !.tokens = [c \in Clients |-> {h \in @[c] : h > world.past /\ h \in DOMAIN kept}]]

RevokedContexts(t) == [t EXCEPT !.contexts = Empty, !.tokens = [c \in Clients |-> {}]]
\* revoke_focus_contexts.
Revoked(t) == [t EXCEPT !.contexts = Empty, !.targets = Empty, !.snaps = Empty,
                        !.tokens = [c \in Clients |-> {}]]

\* native_socket_revoke_client_tokens, with the connection's focus grants.
Disowned(t, c) ==
  [t EXCEPT !.targets = Without(@, {h \in DOMAIN @ : @[h].owner = c}),
            !.snaps = Without(@, {h \in DOMAIN @ : @[h].owner = c}),
            !.tokens[c] = {}]

SpentNothing(used, s) == used
Spent(used, s) == used \cup {s}

\* native_focus_context_claim: a scope is spent even when the operation then fails, and the context
\* ends with its last scope.
CanClaim(t, h, s) == h \in DOMAIN t.contexts /\ s \notin t.contexts[h].used
Claimed(t, h, s) ==
  LET used == Spent(t.contexts[h].used, s)
  IN IF used = Scopes
     THEN RevokeOthers([t EXCEPT !.contexts = Without(@, {h})], h, None)
     ELSE [t EXCEPT !.contexts[h].used = used]

Act(h, what, by, w) ==
  ledger' = [ledger EXCEPT
    !.acts = @ \cup {[gesture |-> h, what |-> what, by |-> by, window |-> w, runtime |-> world.runtime,
                      epoch |-> IF what = "insert" THEN world.epoch ELSE 0,
                      late |-> h <= world.past \/ world.locked]},
    !.twice = @ \/ \E a \in ledger.acts : a.gesture = h /\ a.what = what]

-----------------------------------------------------------------------------
(* Gestures.                                                                *)

\* publish_shortcut_focus_event: a token of its own for every connection that is told.
TokensTo(tokens, h, S) == [c \in Clients |-> IF c \in S THEN tokens[c] \cup {h} ELSE tokens[c]]
\* push_grant.
Grant(h) == [gesture |-> h, scopes |-> Scopes, window |-> None]

\* The context every kind of press creates, and the guards they share.
Issue(kind, w, tokensTo, toLua) ==
  LET t == Pruned(g) h == g.next + 1
      c == [kind |-> kind, used |-> {}, runtime |-> world.runtime, window |-> w,
            epoch |-> IF kind = "key" THEN world.epoch ELSE 0]
  IN /\ ~world.locked /\ h \in Gestures
     /\ Cardinality(DOMAIN t.contexts) < MaxContexts
     /\ g' = [t EXCEPT !.next = h, !.contexts = With(@, h, c),
                       !.tokens = TokensTo(@, h, tokensTo)]
     /\ ledger' = [ledger EXCEPT !.born = With(@, h, [epoch |-> c.epoch, runtime |-> c.runtime,
                                                      kind |-> kind, window |-> w])]
     /\ lua' = IF toLua
               THEN [lua EXCEPT !.grants = @ \cup {Grant(h)}]
               ELSE lua
     /\ UNCHANGED <<world, fromLua, menus>>

\* native_trusted_shortcut_activated: a configured shortcut tells Lua and every connection.
Shortcut == Issue("key", None, Clients, TRUE)

\* dispatch_dynamic_shortcut_activated and issue_focus_context_for_session_key: a shortcut that one
\* owner bound tells that owner alone.
BoundShortcut(owner) == Issue("key", None, {owner} \cap Clients, owner = Lua)

\* gnoblin_native_control_pointer_binding_activated: a button pressed on a window, for Lua alone.
\* The context names that window instead of the focus.
PointerBinding(w) == Issue("pointer", w, {}, TRUE)

-----------------------------------------------------------------------------
(* The operations, in the compositor.  `narrowed' is the window of a        *)
(* narrowed Grant, or None.                                                 *)

Allows(narrowed, w) == narrowed = None \/ narrowed = w

Current(ctx, h) == ctx.runtime = world.runtime /\ h > world.past /\ ~world.locked

\* What each operation does after the claim left t: gnoblin_native_control_focus_window,
FocusWindow(t, ctx, h, by, narrowed, w) ==
  /\ Current(ctx, h) /\ Allows(narrowed, w)
  /\ g' = t /\ Act(h, "focus", by, w)

\* gnoblin_native_control_begin_window_grab,
BeginGrab(t, ctx, h, s, by, narrowed, w) ==
  /\ Current(ctx, h) /\ Allows(narrowed, w)
  /\ ctx.kind = "pointer" => w = ctx.window
  /\ g' = t /\ Act(h, s, by, w)

\* gnoblin_native_control_create_text_target,
CreateTextTarget(t, ctx, h, by, narrowed) ==
  /\ Current(ctx, h) /\ InFocus(ctx.epoch) /\ ~world.held
  /\ Allows(narrowed, world.window) /\ Editable(ctx.epoch)
  /\ g' = [t EXCEPT !.targets = With(@, h, [owner |-> by, runtime |-> ctx.runtime,
                                            epoch |-> ctx.epoch])]
  /\ UNCHANGED ledger

\* and gnoblin_native_control_create_snap_context.
CreateSnapContext(t, ctx, h, by, narrowed) ==
  /\ Current(ctx, h) /\ InFocus(ctx.epoch) /\ ~world.held
  /\ Allows(narrowed, world.window)
  /\ g' = [t EXCEPT !.snaps = With(@, h, [owner |-> by, runtime |-> ctx.runtime,
                                          settings |-> world.settings, window |-> world.window])]
  /\ UNCHANGED ledger

\* Each may also be refused for its arguments or its window; the scope is spent all the same.
Perform(t, h, s, by, narrowed, w) ==
  LET after == Claimed(t, h, s) ctx == t.contexts[h]
  IN \/ g' = after /\ UNCHANGED ledger
     \/ s = "focus" /\ FocusWindow(after, ctx, h, by, narrowed, w)
     \/ s \in {"begin_move", "begin_resize"} /\ BeginGrab(after, ctx, h, s, by, narrowed, w)
     \/ s = "text_target" /\ CreateTextTarget(after, ctx, h, by, narrowed)
     \/ s = "snap_context" /\ CreateSnapContext(after, ctx, h, by, narrowed)

\* An operation that names the gesture h: refused, or performed after the claim.
Operation(t0, h, s, by, narrowed, w) ==
  LET t == Pruned(t0)
  IN IF CanClaim(t, h, s) THEN Perform(t, h, s, by, narrowed, w)
     ELSE g' = t /\ UNCHANGED ledger

\* native_socket_take_focus_grant: the connection's own token.
Holds(c, h) == h \in g.tokens[c]
SocketOperation(c, h, s, w) ==
  /\ Holds(c, h)
  /\ Operation(RevokeOthers(g, h, c), h, s, c, None, w)
  /\ UNCHANGED <<world, lua, fromLua, menus>>

KeptTargets(t, h) == t
LessTarget(t, h) == [t EXCEPT !.targets = Without(@, {h})]

\* native_insert_text_owned: the target is consumed by the attempt.
Insert(h, by) ==
  /\ g' = LessTarget(g, h)
  /\ LET t == g.targets[h]
     IN \/ UNCHANGED ledger
        \/ /\ t.runtime = world.runtime /\ h > world.past /\ ~world.held /\ ~world.locked
           /\ Editable(t.epoch)
           /\ Act(h, "insert", by, world.window)

\* native_commit_snap_context_owned: likewise.
Commit(h, by) ==
  /\ g' = [g EXCEPT !.snaps = Without(@, {h})]
  /\ LET n == g.snaps[h]
     IN \/ UNCHANGED ledger
        \/ /\ n.settings = world.settings /\ n.runtime = world.runtime /\ h > world.past
           /\ ~world.locked
           /\ Act(h, "snap", by, n.window)

\* native_socket_insert_text and native_socket_commit_snap_context: only the owner's token counts.
SocketInsert(c, h) ==
  /\ h \in DOMAIN g.targets /\ g.targets[h].owner = c
  /\ Insert(h, c) /\ UNCHANGED <<world, lua, fromLua, menus>>
SocketCommit(c, h) ==
  /\ h \in DOMAIN g.snaps /\ g.snaps[h].owner = c
  /\ Commit(h, c) /\ UNCHANGED <<world, lua, fromLua, menus>>

-----------------------------------------------------------------------------
(* Lua.                                                                     *)

\* lua_grant_narrow: fewer scopes, and one window; never more than the Grant has.
Narrow(x, s, w) ==
  /\ Cardinality({y \in lua.grants : y.gesture = x.gesture}) = 1
  /\ x.gesture > world.past
  /\ s \in x.scopes \ lua.spent[x.gesture] /\ Allows(x.window, w)
  /\ lua' = [lua EXCEPT !.grants = @ \cup {[gesture |-> x.gesture, scopes |-> {s}, window |-> w]}]
  /\ UNCHANGED <<g, world, fromLua, menus, ledger>>

\* lua_grant_take and lua_grant_operation.  Only the operations on a window name one.
Names(s, w) == (s \in {"focus", "begin_move", "begin_resize"}) = (w # None)
Take(x, s, w) ==
  /\ x.gesture > world.past
  /\ s \in x.scopes /\ Names(s, w)
  /\ w # None => Allows(x.window, w)
  /\ s \notin lua.spent[x.gesture]
  /\ lua' = [lua EXCEPT !.spent[x.gesture] = @ \cup {s}]
  /\ fromLua' = Append(fromLua, [op |-> s, gesture |-> x.gesture, narrowed |-> x.window,
                                 window |-> w])
  /\ UNCHANGED <<g, world, menus, ledger>>

\* lua_text_target_insert_text and lua_snap_context_commit, once each.
LuaInsert(h) ==
  /\ h \in lua.targets
  /\ lua' = [lua EXCEPT !.targets = @ \ {h}]
  /\ fromLua' = Append(fromLua, [op |-> "insert", gesture |-> h, narrowed |-> None, window |-> None])
  /\ UNCHANGED <<g, world, menus, ledger>>
LuaCommit(h) ==
  /\ h \in lua.snaps
  /\ lua' = [lua EXCEPT !.snaps = @ \ {h}]
  /\ fromLua' = Append(fromLua, [op |-> "commit", gesture |-> h, narrowed |-> None, window |-> None])
  /\ UNCHANGED <<g, world, menus, ledger>>

\* The compositor takes the next operation of Lua; the reply carries the object it made.
Serve ==
  /\ fromLua # <<>> /\ Head(fromLua).op # "menu"
  /\ fromLua' = Tail(fromLua)
  /\ LET m == Head(fromLua) h == m.gesture
     IN CASE m.op = "insert" ->
               /\ IF h \in DOMAIN g.targets /\ g.targets[h].owner = Lua THEN Insert(h, Lua)
                  ELSE UNCHANGED <<g, ledger>>
               /\ UNCHANGED lua
          [] m.op = "commit" ->
               /\ IF h \in DOMAIN g.snaps /\ g.snaps[h].owner = Lua THEN Commit(h, Lua)
                  ELSE UNCHANGED <<g, ledger>>
               /\ UNCHANGED lua
          [] OTHER ->
               /\ Operation(g, h, m.op, Lua, m.narrowed, m.window)
               /\ lua' = [lua EXCEPT
                   !.targets = IF m.op = "text_target" /\ h \in DOMAIN g'.targets
                                  /\ g'.targets[h].owner = Lua THEN @ \cup {h} ELSE @,
                   !.snaps = IF m.op = "snap_context" /\ h \in DOMAIN g'.snaps
                                /\ g'.snaps[h].owner = Lua THEN @ \cup {h} ELSE @]
  /\ UNCHANGED <<world, menus>>

-----------------------------------------------------------------------------
(* Window menus.                                                            *)

\* native_menu_context_create and native_menu_prune_client_grants.
FreshMenus == [k \in {k \in DOMAIN menus.contexts : k[1] > menus.past} |-> menus.contexts[k]]

\* gnoblin_native_control_window_menu_requested: an authority for Lua and one per connection, none
\* while the session is locked; Lua hears of it only with its own.
MenuRequested(w) ==
  LET r == menus.next + 1
      ctx == [window |-> w, runtime |-> world.runtime]
      owners == Clients \cup {Lua}
  IN /\ r \in Menus /\ ~world.locked
     /\ menus' = [menus EXCEPT
          !.next = r,
          !.contexts = [k \in DOMAIN FreshMenus \cup ({r} \X owners) |->
                          IF k[1] = r THEN ctx ELSE menus.contexts[k]],
          !.tokens = [c \in Clients |-> {q \in @[c] : q > menus.past} \cup {r}],
          !.events = Append(@, r)]
     /\ ledger' = [ledger EXCEPT !.asked = With(@, r, ctx)]
     /\ UNCHANGED <<g, world, lua, fromLua>>

\* The tables after the authority k is used; gnoblin_native_control_begin_menu_window_grab consumes
\* it whatever becomes of the operation.
UseMenu(k, by) ==
  LET r == k[1] known == k \in DOMAIN menus.contexts
  IN /\ menus' = [menus EXCEPT !.contexts = Without(@, {k}),
                               !.tokens = [c \in Clients |-> IF c = k[2] THEN @[c] \ {r} ELSE @[c]]]
     /\ \/ UNCHANGED ledger
        \/ /\ known /\ k[2] = by /\ menus.contexts[k].runtime = world.runtime /\ r > menus.past
           /\ ~world.locked
           /\ ledger' = [ledger EXCEPT
                !.menus = @ \cup {[request |-> r, by |-> by, window |-> menus.contexts[k].window,
                                   runtime |-> world.runtime, late |-> r <= menus.past \/ world.locked]},
                !.twice = @ \/ \E a \in ledger.menus : a.request = r /\ a.by = by]

\* native_socket_begin_menu_window_grab, and native_socket_consume_rejected_menu_context for a request
\* refused before.
SocketMenu(c, r) ==
  /\ r \in menus.tokens[c]
  /\ UseMenu(<<r, c>>, c)
  /\ UNCHANGED <<g, world, lua, fromLua>>

\* A menu request is a Grant only in the callback that received it, for the first move or resize.
LuaCallback ==
  /\ menus.callback = 0 /\ menus.events # <<>>
  /\ menus' = [menus EXCEPT !.callback = Head(menus.events), !.events = Tail(@)]
  /\ UNCHANGED <<g, world, lua, fromLua, ledger>>
LuaMenu(r) ==
  /\ menus.callback = r /\ r > menus.past /\ r \notin menus.spent
  /\ menus' = [menus EXCEPT !.spent = @ \cup {r}]
  /\ fromLua' = Append(fromLua, [op |-> "menu", gesture |-> r, narrowed |-> None, window |-> None])
  /\ UNCHANGED <<g, world, lua, ledger>>
CallbackReturns ==
  /\ menus.callback # 0
  /\ menus' = [menus EXCEPT !.callback = 0]
  /\ UNCHANGED <<g, world, lua, fromLua, ledger>>
ServeMenu ==
  /\ fromLua # <<>> /\ Head(fromLua).op = "menu"
  /\ fromLua' = Tail(fromLua)
  /\ UseMenu(<<Head(fromLua).gesture, Lua>>, Lua)
  /\ UNCHANGED <<g, world, lua>>

-----------------------------------------------------------------------------
(* What ends them.                                                          *)

Age == /\ world.past < g.next
       /\ world' = [world EXCEPT !.past = @ + 1]
       /\ UNCHANGED <<g, lua, fromLua, menus, ledger>>

MenuAges == /\ menus.past < menus.next
            /\ menus' = [menus EXCEPT !.past = @ + 1]
            /\ UNCHANGED <<g, world, lua, fromLua, ledger>>

\* focus_context_expiry_tick, each second.
ExpiryTick == /\ Pruned(g) # g
              /\ g' = Pruned(g)
              /\ UNCHANGED <<world, lua, fromLua, menus, ledger>>

Changes(w) == world.env < MaxEnv /\ world' = [w EXCEPT !.env = @ + 1]
FocusMoves(w) == /\ Changes([world EXCEPT !.epoch = @ + 1, !.window = w, !.editing = FALSE])
                 /\ UNCHANGED <<g, lua, fromLua, menus, ledger>>
FieldEntered == /\ world.window # None /\ ~world.editing
                /\ world' = [world EXCEPT !.editing = TRUE]
                /\ UNCHANGED <<g, lua, fromLua, menus, ledger>>
ModifierMoves == /\ Changes([world EXCEPT !.held = ~@]) /\ UNCHANGED <<g, lua, fromLua, menus, ledger>>
SettingsChange == /\ Changes([world EXCEPT !.settings = @ + 1])
                  /\ UNCHANGED <<g, lua, fromLua, menus, ledger>>

\* revoke_menu_contexts.
NoMenus(m) == [m EXCEPT !.contexts = Empty, !.tokens = [c \in Clients |-> {}]]

\* native_session_lock_changed.
Lock == /\ ~world.locked /\ Changes([world EXCEPT !.locked = TRUE])
        /\ g' = Revoked(g) /\ menus' = NoMenus(menus)
        /\ UNCHANGED <<lua, fromLua, ledger>>
Unlock == /\ world.locked /\ world' = [world EXCEPT !.locked = FALSE]
          /\ UNCHANGED <<g, lua, fromLua, menus, ledger>>

\* A reload commits behind the operations of the old generation, and a restart of the worker drops
\* them; both revoke, and the new generation has no Grant of the old one.
NewRuntime ==
  /\ Changes([world EXCEPT !.runtime = @ + 1])
  /\ g' = Revoked(g)
  /\ lua' = [grants |-> {}, spent |-> [h \in Gestures |-> {}], targets |-> {}, snaps |-> {}]
  /\ menus' = [NoMenus(menus) EXCEPT !.events = <<>>, !.callback = 0, !.spent = {}]
  /\ UNCHANGED ledger
Reload == fromLua = <<>> /\ NewRuntime /\ UNCHANGED fromLua
WorkerRestarts == fromLua # <<>> /\ NewRuntime /\ fromLua' = <<>>

\* client_close, or a new set of subscriptions.
Disowns(c) == /\ <<g, menus.tokens[c]>> # <<Disowned(g, c), {}>>
              /\ g' = Disowned(g, c)
              /\ menus' = [menus EXCEPT !.contexts = Without(@, {k \in DOMAIN @ : k[2] = c}),
                                        !.tokens[c] = {}]
              /\ UNCHANGED <<world, lua, fromLua, ledger>>

Next ==
  \/ Shortcut \/ (\E o \in Clients \cup {Lua} : BoundShortcut(o)) \/ (\E w \in Windows : PointerBinding(w))
  \/ \E c \in Clients, h \in Gestures :
       \/ \E s \in Scopes, w \in Windows : SocketOperation(c, h, s, w)
       \/ SocketInsert(c, h) \/ SocketCommit(c, h)
  \/ \E x \in lua.grants, s \in Scopes :
       \/ \E w \in Windows : Narrow(x, s, w)
       \/ \E w \in Windows \cup {None} : Take(x, s, w)
  \/ \E h \in Gestures : LuaInsert(h) \/ LuaCommit(h)
  \/ Serve
  \/ (\E w \in Windows : MenuRequested(w)) \/ LuaCallback \/ CallbackReturns \/ ServeMenu \/ MenuAges
  \/ \E r \in Menus : LuaMenu(r) \/ \E c \in Clients : SocketMenu(c, r)
  \/ Age \/ ExpiryTick \/ FieldEntered \/ ModifierMoves \/ SettingsChange
  \/ \E w \in Windows \cup {None} : FocusMoves(w)
  \/ Lock \/ Unlock \/ Reload \/ WorkerRestarts \/ \E c \in Clients : Disowns(c)

Spec == Init /\ [][Next]_gestureVars

-----------------------------------------------------------------------------
\* A gesture entitles to each operation once, whoever asks and however often, and a menu request to
\* one operation of each that heard of it.
OnceEach == ~ledger.twice

\* The first connection that uses a gesture owns what is left of it: no two connections act on one.
OneConnection ==
  \A a, b \in ledger.acts : a.gesture = b.gesture /\ {a.by, b.by} \subseteq Clients => a.by = b.by

\* Nothing is done with a gesture after its time, while the session is locked or in another runtime
\* than the one it was made in.
InItsTime ==
  /\ \A a \in ledger.acts : ~a.late /\ a.runtime = ledger.born[a.gesture].runtime
  /\ \A a \in ledger.menus : ~a.late /\ a.runtime = ledger.asked[a.request].runtime

\* Text goes into the field that had the focus when the key was pressed, and a button moves or
\* resizes the window it was pressed on, and a menu the window it was asked for.
WhereMeant ==
  /\ \A a \in ledger.menus : a.window = ledger.asked[a.request].window
  /\ \A a \in ledger.acts :
    /\ a.what = "insert" => a.epoch = ledger.born[a.gesture].epoch
    /\ (a.what \in {"begin_move", "begin_resize"} /\ ledger.born[a.gesture].kind = "pointer")
         => a.window = ledger.born[a.gesture].window

\* The lock leaves no authority behind, and a token of a connection stands for a context that is
\* still there or has run out.
NothingLeft ==
  /\ world.locked => DOMAIN g.contexts \cup DOMAIN g.targets \cup DOMAIN g.snaps = {}
                     /\ DOMAIN menus.contexts = {}
  /\ \A c \in Clients, h \in Gestures :
       h \in g.tokens[c] => h \in DOMAIN g.contexts \/ h <= world.past
  /\ \A c \in Clients, r \in Menus :
       r \in menus.tokens[c] => <<r, c>> \in DOMAIN menus.contexts \/ r <= menus.past

\* What Lua did is spent in Lua: a Grant of the running generation never offers it again.
SpentTold ==
  \A a \in ledger.acts : a.by = Lua /\ a.runtime = world.runtime /\ a.what \in Scopes
                    => a.what \in lua.spent[a.gesture]

GesturesSound ==
  OnceEach /\ OneConnection /\ InItsTime /\ WhereMeant /\ NothingLeft /\ SpentTold
=============================================================================
