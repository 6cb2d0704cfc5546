---------------------------- MODULE OutputControls ----------------------------
(***************************************************************************)
(* Clients that control outputs (protocols/gamma-control and               *)
(* protocols/output-power-management).                                     *)
(*                                                                         *)
(* A gamma control owns the gamma table of one output: a second control    *)
(* takes it over, a change of the layout fails every control, destroying a *)
(* valid one restores the table it found.  A power control is told the     *)
(* power save mode, which Mutter keeps for all outputs at once.            *)
(*                                                                         *)
(* Each output has one CRTC here.                                          *)
(***************************************************************************)
EXTENDS Naturals

CONSTANTS Monitors, Controls,   \* each control is created once, by a client of its own
          MaxEvents             \* bound: layout changes and changes of the power mode

Original == "original"
None == "none"
OutputsAssumption == MaxEvents \in Nat /\ {Original, None} \cap (Controls \cup Monitors) = {}

VARIABLES lut,          \* per monitor: Original, or the control whose table it shows
          controls,     \* ctx->controls: per monitor its gamma control, or None
          gamma,        \* per control: its state, its monitor, and the table it saved
          power,        \* per control: a power control's state and the mode it was told
          mode,         \* TRUE when the outputs are on
          taken,        \* monitors whose gamma control was ever replaced
          layouts, events

vars == <<lut, controls, gamma, power, mode, taken, layouts, events>>

\* A gamma or power control that was not created yet
NoGamma == [state |-> "new", monitor |-> None, saved |-> None]
NoPower == [state |-> "new", told |-> FALSE]

Event == events < MaxEvents /\ events' = events + 1

-----------------------------------------------------------------------------
(* Gamma.                                                                    *)

\* gamma_control_fail: the saved table is dropped, the output is not touched.
FailKeeps(g) == [g EXCEPT !.state = "failed"]      \* mutant: the control stays on its monitor
Fail(g) == [state |-> "failed", monitor |-> None, saved |-> None]

\* manager_get_gamma_control; an output without a gamma table fails at once
Takes(c, m) ==
  [d \in Controls |-> IF d = c THEN [state |-> "valid", monitor |-> m, saved |-> None]
                      ELSE IF controls[m] = d THEN Fail(gamma[d]) ELSE gamma[d]]

GetGamma(c, m) ==
  /\ gamma[c].state = "new"
  /\ \/ /\ gamma' = Takes(c, m) /\ controls' = [controls EXCEPT ![m] = c]
        /\ taken' = IF controls[m] # None THEN taken \cup {m} ELSE taken
     \/ /\ gamma' = [gamma EXCEPT ![c] = Fail(@)] /\ UNCHANGED <<controls, taken>>
  /\ UNCHANGED <<lut, power, mode, layouts, events>>

\* gamma_control_handle_set_gamma: the table found first is saved once.
SavesAgain(c) == lut[gamma[c].monitor]             \* mutant: every call saves
Saves(c) == IF gamma[c].saved = None THEN lut[gamma[c].monitor] ELSE gamma[c].saved

SetGamma(c) ==
  /\ gamma[c].state = "valid"
  /\ gamma' = [gamma EXCEPT ![c].saved = Saves(c)]
  /\ lut' = [lut EXCEPT ![gamma[c].monitor] = c]
  /\ UNCHANGED <<controls, power, mode, taken, layouts, events>>

\* gamma_control_destroy: by request, with its client, or after a table that cannot be mapped
Restored(c) ==
  IF gamma[c].state = "valid" /\ gamma[c].saved # None
  THEN [lut EXCEPT ![gamma[c].monitor] = gamma[c].saved] ELSE lut

DestroyGamma(c) ==
  /\ gamma[c].state \in {"valid", "failed"}
  /\ lut' = Restored(c)
  /\ controls' = [m \in Monitors |-> IF controls[m] = c THEN None ELSE controls[m]]
  /\ gamma' = [gamma EXCEPT ![c] = [NoGamma EXCEPT !.state = "gone"]]
  /\ UNCHANGED <<power, mode, taken, layouts, events>>

-----------------------------------------------------------------------------
(* Power.                                                                    *)

GetPower(c) ==
  /\ power[c].state = "new"
  /\ \/ power' = [power EXCEPT ![c] = [state |-> "valid", told |-> mode]]
     \/ power' = [power EXCEPT ![c].state = "failed"]
  /\ UNCHANGED <<lut, controls, gamma, mode, taken, layouts, events>>

\* on_power_save_changed
ToldIfOn(on) == [c \in Controls |-> IF power[c].state = "valid" /\ on   \* mutant: told of on only
                                    THEN [power[c] EXCEPT !.told = on] ELSE power[c]]
Told(on) == [c \in Controls |-> IF power[c].state = "valid"
                                THEN [power[c] EXCEPT !.told = on] ELSE power[c]]

ModeBecomes(on) ==
  /\ Event /\ mode' = on /\ power' = Told(on)
  /\ UNCHANGED <<lut, controls, gamma, taken, layouts>>

\* output_power_handle_set_mode, whichever output the control is for
SetMode(c, on) == power[c].state = "valid" /\ ModeBecomes(on)

\* idle blanking and the user's return, in Mutter
Blanks == \E on \in BOOLEAN : on # mode /\ ModeBecomes(on)

DestroyPower(c) ==
  /\ power[c].state \in {"valid", "failed"} /\ power' = [power EXCEPT ![c].state = "gone"]
  /\ UNCHANGED <<lut, controls, gamma, mode, taken, layouts, events>>

-----------------------------------------------------------------------------
\* on_monitors_changed of both: every control fails.  Mutter may set a new CRTC up with its
\* original table.
MonitorsChanged ==
  /\ Event /\ layouts' = layouts + 1
  /\ gamma' = [c \in Controls |-> IF gamma[c].state = "valid" THEN Fail(gamma[c]) ELSE gamma[c]]
  /\ controls' = [m \in Monitors |-> None]
  /\ power' = [c \in Controls |-> IF power[c].state = "valid"
                                  THEN [power[c] EXCEPT !.state = "failed"] ELSE power[c]]
  /\ \E reset \in SUBSET Monitors :
       lut' = [m \in Monitors |-> IF m \in reset THEN Original ELSE lut[m]]
  /\ UNCHANGED <<mode, taken>>

Init ==
  /\ lut = [m \in Monitors |-> Original] /\ controls = [m \in Monitors |-> None]
  /\ gamma = [c \in Controls |-> NoGamma] /\ power = [c \in Controls |-> NoPower]
  /\ mode = TRUE /\ taken = {} /\ layouts = 0 /\ events = 0

ControlStep(c) ==
  \/ \E m \in Monitors : GetGamma(c, m)
  \/ SetGamma(c) \/ DestroyGamma(c)
  \/ GetPower(c) \/ DestroyPower(c) \/ \E on \in BOOLEAN : SetMode(c, on)

Next == (\E c \in Controls : ControlStep(c)) \/ Blanks \/ MonitorsChanged

Spec == Init /\ [][Next]_vars

-----------------------------------------------------------------------------
(* Properties.                                                               *)

TypeOK ==
  /\ lut \in [Monitors -> Controls \cup {Original}]
  /\ controls \in [Monitors -> Controls \cup {None}]
  /\ layouts \in 0..MaxEvents /\ events \in 0..MaxEvents

\* An output has at most one control that may write its table, and only that one has a saved
\* table to write back.
GammaExclusive ==
  \A c \in Controls :
    /\ gamma[c].state = "valid" => controls[gamma[c].monitor] = c
    /\ gamma[c].state # "valid" => gamma[c].saved = None /\ \A m \in Monitors : controls[m] # c

\* The output of a control shows the table it set.
GammaShown ==
  \A c \in Controls : gamma[c].state = "valid" /\ gamma[c].saved # None => lut[gamma[c].monitor] = c

\* Without a takeover or a new layout, the table found first is back once nobody controls it.
GammaRestored ==
  \A m \in Monitors \ taken : layouts = 0 /\ controls[m] = None => lut[m] = Original

\* Every valid power control was told the mode of the outputs.
PowerTold == \A c \in Controls : power[c].state = "valid" => power[c].told = mode

OutputsSound == TypeOK /\ GammaExclusive /\ GammaShown /\ GammaRestored /\ PowerTold

\* The states of a gamma and of a power control; the control an output remembers is there.
Controlled ==
  /\ gamma \in [Controls -> [state : {"new", "valid", "failed", "gone"},
                            monitor : Monitors \cup {None},
                            saved : Controls \cup {Original, None}]]
  /\ power \in [Controls -> [state : {"new", "valid", "failed", "gone"}, told : BOOLEAN]]
  /\ mode \in BOOLEAN /\ taken \subseteq Monitors /\ layouts <= events
  /\ \A c \in Controls : gamma[c].state = "valid" => gamma[c].monitor \in Monitors
  /\ \A m \in Monitors : controls[m] # None => gamma[controls[m]].monitor = m

\* Before a takeover or a new layout an output's table is Original, or saved as that.
OriginalKept ==
  \A m \in Monitors \ taken : layouts = 0 =>
    \/ lut[m] = Original /\ (controls[m] # None => gamma[controls[m]].saved \in {None, Original})
    \/ controls[m] # None /\ gamma[controls[m]].saved = Original

\* The inductive invariant.
IInv == TypeOK /\ Controlled /\ GammaExclusive /\ GammaShown /\ OriginalKept /\ PowerTold

\* meta-wayland-gamma-control.c:9: "creating a second one fails the first.  The original gamma
\* table is restored when the control is destroyed."
OriginalRestored ==
  \A m \in Monitors : layouts = 0 /\ controls[m] = None => lut[m] = Original
=============================================================================
