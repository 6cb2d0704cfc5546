------------------------------ MODULE MCControl ------------------------------
(***************************************************************************)
(* Two specifications of the compositor's native control checked in one    *)
(* run: who has the keyboard, and the control socket.  `subject' chooses,  *)
(* once, the one that steps, and the other stays in an initial state.      *)
(***************************************************************************)
EXTENDS KeyCapture

CONSTANTS n1, p, q

VARIABLES subject, s

-----------------------------------------------------------------------------
(* A passive shortcut of Lua, a modal one of a client, bare Super, and a key. *)

MCHolds == {"passive", "modal"}
MCModals == {"modal"}
MCClientOwned == {"modal"}
MCPlain == {"x"}

-----------------------------------------------------------------------------
(* One name with one state, and two clients that send every operation but a  *)
(* ping between them.                                                        *)

StateRequests == [op : {"state"}, name : {n1}, value : {1}]
SocketRequests == [c \in {p, q} |->
                     StateRequests \cup [op : IF c = p THEN {"bad", "api", "watch"}
                                              ELSE {"command", "events", "api", "watch"}]]

Socket == INSTANCE ControlSocket WITH
            Clients <- {p, q}, Names <- {n1}, Values <- {1}, Requests <- SocketRequests,
            MaxTalk <- 2, MaxPending <- 2, MaxWorld <- 1

ASSUME Socket!SocketAssumption

-----------------------------------------------------------------------------
allVars == <<subject, s, vars>>

AllInit == subject \in {"keys", "socket"} /\ Init /\ Socket!Init

KeySteps == subject = "keys" /\ UNCHANGED <<subject, s>>
SocketSteps == subject = "socket" /\ UNCHANGED <<subject, vars>>

AllNext == \/ KeySteps /\ Next
           \/ SocketSteps /\ Socket!Next

AllSpec == /\ AllInit /\ [][AllNext]_allVars
           /\ WF_allVars(KeySteps /\ Timeouts)

-----------------------------------------------------------------------------
\* A connection is freed once, after its last deferred request; each request is answered at most
\* once, and no open connection is left that nothing will wake.
SocketSound == subject = "socket" =>
  /\ Socket!TypeOK /\ Socket!NothingAfterFree /\ Socket!DeferredCounted
  /\ Socket!NobodyAsleep /\ Socket!AnsweredOnce /\ Socket!ServedAtRest

\* Who watches a state knows its last value.
WatchersInformed == subject = "socket" => Socket!WatchersInformed

\* A published state changes hands only through its owner's end.
OneOwner == Socket!OneOwner
=============================================================================
