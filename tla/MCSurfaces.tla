----------------------------- MODULE MCSurfaces -----------------------------
(***************************************************************************)
(* Three specifications of surfaces that other processes draw, checked in  *)
(* one run: lock surfaces, layer surfaces, and frames of windows.  They    *)
(* share no state in the code either: `subject' chooses, once, the one     *)
(* that steps, and the others stay in an initial state.                    *)
(***************************************************************************)
EXTENDS SessionLockSurface

CONSTANTS z1, z2, w1
CONSTANTS LayerSurfaces, LayerOutputs, LayerModes, LayerWire

VARIABLES subject,
          ls, wire, client, handlers, preserve, outputs, mode,
          win, frame, rend, frameWire, env

\* Layer surfaces on outputs of some modes.
Layer == INSTANCE LayerSurface WITH
           Surfaces <- LayerSurfaces, Outputs <- LayerOutputs, Modes <- LayerModes,
           MaxWire <- LayerWire

\* A window framed by a renderer, which may commit a null buffer.
Framed == INSTANCE FrameRenderer WITH
            Windows <- {w1}, Sizes <- {1, 2}, MaxEnv <- 3, NullCommits <- TRUE,
            wire <- frameWire

ASSUME SurfacesAssumption == Layer!LayerAssumption /\ Framed!FrameAssumption

layerVars == <<ls, wire, client, handlers, preserve, outputs, mode>>
frameVars == <<win, frame, rend, frameWire, env>>
allVars == <<subject, vars, layerVars, frameVars>>

AllInit == /\ subject \in {"lock", "layer", "frames"}
           /\ Init /\ (subject = "lock" \/ (layout = z1 /\ ~polite))
           /\ Layer!Init /\ (subject = "layer" \/ mode = CHOOSE m \in LayerModes : TRUE)
           /\ Framed!Init

LockSteps == subject = "lock" /\ UNCHANGED <<subject, layerVars, frameVars>>
LayerSteps == subject = "layer" /\ UNCHANGED <<subject, vars, frameVars>>
FrameSteps == subject = "frames" /\ UNCHANGED <<subject, vars, layerVars>>

AllNext == \/ LockSteps /\ Next
           \/ LayerSteps /\ Layer!Next
           \/ FrameSteps /\ Framed!Next

\* The fairness of SessionLockSurface and of FrameRenderer; LayerSurface states none.
AllFairness == /\ WF_allVars(LockSteps /\ Compositor)
               /\ WF_allVars(LockSteps /\ Receive)
               /\ WF_allVars(LockSteps /\ polite /\ PoliteDraw)
               /\ WF_allVars(FrameSteps /\ Framed!MapTimeout(w1))
               /\ WF_allVars(FrameSteps /\ Framed!CompleteMap(w1))
               /\ WF_allVars(FrameSteps /\ Framed!Draw(w1))
               /\ WF_allVars(FrameSteps /\ Framed!Apply(w1))
               /\ WF_allVars(FrameSteps /\ Framed!Bind)
               /\ WF_allVars(FrameSteps /\ Framed!Quit)
               /\ WF_allVars(FrameSteps /\ Framed!Hangup)
               /\ WF_allVars(FrameSteps /\ Framed!Exited)
               /\ WF_allVars(FrameSteps /\ Framed!Retry)

AllSpec == AllInit /\ [][AllNext]_allVars /\ AllFairness

-----------------------------------------------------------------------------
\* What is mapped, reserved, drawn and focused of a layer surface agrees, through every crossing,
\* and nothing a polite client sends is refused.
LayerSound == subject = "layer" =>
  /\ Layer!TypeOK /\ Layer!KeyboardReturns /\ Layer!NothingReservedForNobody
  /\ Layer!ReservedAsDrawn /\ Layer!ClosedTimed
  /\ Layer!HandshakeAnswered /\ Layer!PoliteNeverKilled

\* A polite locker that is left alone ends with a buffer of the newest layout on the screen.
Settles == SettlesToLayout

\* A window whose map was held back is shown in the end.
MapsEnd == Framed!MapsEnd
=============================================================================
