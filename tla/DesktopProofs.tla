---------------------------- MODULE DesktopProofs ----------------------------
(***************************************************************************)
(* Proofs about the components of MCDesktop that are not agents, for every *)
(* number of clients, windows, outputs and protocols.                      *)
(***************************************************************************)
EXTENDS MCDesktop, Integers, SequenceTheorems, FiniteSetTheorems, TLAPS

(* A step is one of the subject's component; the subject stays.             *)
LEMMA SubjectSteps ==
  ASSUME [AllNext]_allVars
  PROVE  /\ UNCHANGED subject
         /\ subject = "geometry" => Geometry!Next \/ UNCHANGED geometryVars
         /\ subject = "toplevels" => Toplevels!Next \/ UNCHANGED toplevelsVars
         /\ subject = "outputs" => Screens!Next \/ UNCHANGED outputsVars
         /\ subject = "clipboard" => Clipboard!Next \/ UNCHANGED clipboardVars
         /\ subject = "capture" => Capture!Next \/ UNCHANGED captureVars
         /\ subject = "notify" => Notify!Next \/ UNCHANGED notifyVars
         /\ subject = "service" => Service!Next \/ UNCHANGED serviceVars
         /\ subject = "globals" => Globals!Next \/ UNCHANGED globalsVars
  BY DEF AllNext, Only, allVars

-----------------------------------------------------------------------------
(* Gamma and power controls of outputs.                                     *)

(* No output is controlled at first.                                        *)
LEMMA ScreensInit == Screens!Init => Screens!IInv
  <1> USE DesktopAssumption
      DEF Screens!OutputsAssumption, Screens!None, Screens!Original, Screens!Init
  <1> SUFFICES ASSUME Screens!Init PROVE Screens!IInv
    OBVIOUS
  <1>1. \A c \in GammaControls : gamma[c] = Screens!NoGamma /\ power[c] = Screens!NoPower
    OBVIOUS
  <1>2. Screens!TypeOK
    BY DEF Screens!TypeOK
  <1>3. Screens!Controlled
    BY <1>1 DEF Screens!Controlled, Screens!NoGamma, Screens!NoPower
  <1>4. Screens!GammaExclusive /\ Screens!GammaShown
    BY <1>1 DEF Screens!GammaExclusive, Screens!GammaShown, Screens!NoGamma
  <1>5. Screens!OriginalKept /\ Screens!PowerTold
    BY <1>1 DEF Screens!OriginalKept, Screens!PowerTold, Screens!NoPower
  <1> QED BY <1>2, <1>3, <1>4, <1>5 DEF Screens!IInv

(* A control that takes an output over ends the one that was there.         *)
LEMMA GetGammaStep ==
  ASSUME Screens!IInv, NEW c \in GammaControls, NEW m \in GammaOutputs, Screens!GetGamma(c, m)
  PROVE  Screens!IInv'
  <1> USE DesktopAssumption DEF Screens!OutputsAssumption, Screens!None, Screens!Original
  <1>0. /\ \A p \in GammaOutputs : controls[p] # c
        /\ \A e \in GammaControls, p \in GammaOutputs :
             controls[p] = e => gamma[e].state = "valid" /\ gamma[e].monitor = p
    BY DEF Screens!IInv, Screens!GammaExclusive, Screens!Controlled, Screens!GetGamma
  <1>6. Screens!TypeOK'
    BY DEF Screens!IInv, Screens!TypeOK, Screens!GetGamma
  <1>1. Screens!Controlled'
    BY <1>0 DEF Screens!IInv, Screens!TypeOK, Screens!Controlled, Screens!GetGamma,
         Screens!Takes, Screens!Fail
  <1>2. Screens!GammaExclusive'
    BY <1>0 DEF Screens!IInv, Screens!TypeOK, Screens!Controlled, Screens!GetGamma,
         Screens!Takes, Screens!Fail, Screens!GammaExclusive
  <1>5. Screens!GammaShown'
    BY <1>0 DEF Screens!IInv, Screens!Controlled, Screens!GetGamma, Screens!Takes,
         Screens!Fail, Screens!GammaShown
  <1>3. Screens!OriginalKept'
    BY DEF Screens!IInv, Screens!TypeOK, Screens!Controlled, Screens!GetGamma, Screens!Takes,
           Screens!Fail, Screens!GammaExclusive, Screens!OriginalKept
  <1>4. Screens!PowerTold'
    BY DEF Screens!IInv, Screens!GetGamma, Screens!PowerTold
  <1> QED BY <1>1, <1>2, <1>3, <1>4, <1>5, <1>6 DEF Screens!IInv

(* A table that is set is the one its output shows from then on.            *)
LEMMA SetGammaStep ==
  ASSUME Screens!IInv, NEW c \in GammaControls, Screens!SetGamma(c)
  PROVE  Screens!IInv'
  <1> USE DesktopAssumption DEF Screens!OutputsAssumption, Screens!None, Screens!Original
  <1>1. Screens!TypeOK' /\ Screens!Controlled'
    BY DEF Screens!IInv, Screens!TypeOK, Screens!Controlled, Screens!SetGamma, Screens!Saves
  <1>2. Screens!GammaExclusive' /\ Screens!GammaShown'
    BY DEF Screens!IInv, Screens!TypeOK, Screens!Controlled, Screens!SetGamma, Screens!Saves,
           Screens!GammaExclusive, Screens!GammaShown
  <1>3. Screens!OriginalKept'
    BY DEF Screens!IInv, Screens!TypeOK, Screens!Controlled, Screens!SetGamma, Screens!Saves,
           Screens!GammaExclusive, Screens!OriginalKept
  <1>4. Screens!PowerTold'
    BY DEF Screens!IInv, Screens!SetGamma, Screens!PowerTold
  <1> QED BY <1>1, <1>2, <1>3, <1>4 DEF Screens!IInv

(* The table found first comes back when its control goes.                  *)
LEMMA DestroyGammaStep ==
  ASSUME Screens!IInv, NEW c \in GammaControls, Screens!DestroyGamma(c)
  PROVE  Screens!IInv'
  <1> USE DesktopAssumption DEF Screens!OutputsAssumption, Screens!None, Screens!Original
  <1>1. Screens!TypeOK' /\ Screens!Controlled'
    BY DEF Screens!IInv, Screens!TypeOK, Screens!Controlled, Screens!DestroyGamma,
           Screens!Restored, Screens!NoGamma
  <1>2. Screens!GammaExclusive' /\ Screens!GammaShown'
    BY DEF Screens!IInv, Screens!TypeOK, Screens!Controlled, Screens!DestroyGamma,
           Screens!Restored, Screens!NoGamma, Screens!GammaExclusive, Screens!GammaShown
  <1>3. Screens!OriginalKept'
    BY DEF Screens!IInv, Screens!TypeOK, Screens!Controlled, Screens!DestroyGamma,
           Screens!Restored, Screens!NoGamma, Screens!GammaExclusive, Screens!OriginalKept
  <1>4. Screens!PowerTold'
    BY DEF Screens!IInv, Screens!DestroyGamma, Screens!PowerTold
  <1> QED BY <1>1, <1>2, <1>3, <1>4 DEF Screens!IInv

(* New outputs end what controlled the ones that are gone.                  *)
LEMMA MonitorsChangedStep ==
  ASSUME Screens!IInv, Screens!MonitorsChanged
  PROVE  Screens!IInv'
  <1> USE DesktopAssumption
      DEF Screens!OutputsAssumption, Screens!None, Screens!Original, Screens!Event
  <1>1. Screens!TypeOK'
    BY DEF Screens!IInv, Screens!TypeOK, Screens!Controlled, Screens!MonitorsChanged
  <1>5. Screens!Controlled'
    BY DEF Screens!IInv, Screens!TypeOK, Screens!Controlled, Screens!MonitorsChanged,
           Screens!Fail
  <1>2. Screens!GammaExclusive' /\ Screens!GammaShown'
    BY DEF Screens!IInv, Screens!TypeOK, Screens!Controlled, Screens!MonitorsChanged,
           Screens!Fail, Screens!GammaExclusive, Screens!GammaShown
  <1>3. layouts' # 0
    BY DEF Screens!IInv, Screens!TypeOK, Screens!MonitorsChanged
  <1>4. Screens!PowerTold'
    BY DEF Screens!IInv, Screens!Controlled, Screens!MonitorsChanged, Screens!PowerTold
  <1> QED BY <1>1, <1>2, <1>3, <1>4, <1>5 DEF Screens!IInv, Screens!OriginalKept

(* Power controls do not touch the tables, and hear of every mode.          *)
LEMMA TablesKept ==
  ASSUME Screens!IInv, UNCHANGED <<lut, controls, gamma, taken, layouts>>,
         power' \in [GammaControls -> [state : {"new", "valid", "failed", "gone"},
                                       told : BOOLEAN]],
         mode' \in BOOLEAN, outEvents' \in outEvents .. OutputEvents, Screens!PowerTold'
  PROVE  Screens!IInv'
  BY DesktopAssumption
  DEF Screens!IInv, Screens!TypeOK, Screens!Controlled, Screens!GammaExclusive,
      Screens!GammaShown, Screens!OriginalKept, Screens!OutputsAssumption

(* A mode that changes is told to every power control of the output.        *)
LEMMA ModeStep ==
  ASSUME Screens!IInv, NEW lit \in BOOLEAN, Screens!ModeBecomes(lit)
  PROVE  Screens!IInv'
  BY DesktopAssumption, TablesKept
  DEF Screens!IInv, Screens!TypeOK, Screens!Controlled, Screens!PowerTold, Screens!ModeBecomes,
      Screens!Told, Screens!Event, Screens!OutputsAssumption

(* A power control is told the mode of its output as it is.                 *)
LEMMA PowerStep ==
  ASSUME Screens!IInv, NEW c \in GammaControls, Screens!GetPower(c) \/ Screens!DestroyPower(c)
  PROVE  Screens!IInv'
  BY TablesKept
  DEF Screens!IInv, Screens!TypeOK, Screens!Controlled, Screens!PowerTold, Screens!GetPower,
      Screens!DestroyPower

(* Every step of the output controls keeps the invariant.                   *)
LEMMA ScreensStep ==
  ASSUME Screens!IInv, Screens!Next \/ UNCHANGED outputsVars
  PROVE  Screens!IInv'
  <1>1. CASE UNCHANGED outputsVars
    BY <1>1, TablesKept
    DEF outputsVars, Screens!IInv, Screens!TypeOK, Screens!Controlled, Screens!PowerTold
  <1>2. ASSUME NEW c \in GammaControls, Screens!ControlStep(c) PROVE Screens!IInv'
    BY <1>2, GetGammaStep, SetGammaStep, DestroyGammaStep, PowerStep, ModeStep
    DEF Screens!ControlStep, Screens!SetMode
  <1> QED BY <1>1, <1>2, ModeStep, MonitorsChangedStep DEF Screens!Next, Screens!Blanks

(* The invariant of the output controls is what their run checks.           *)
LEMMA ScreensInvariant == Screens!IInv => Screens!OutputsSound
  BY DEF Screens!IInv, Screens!TypeOK, Screens!OutputsSound, Screens!GammaRestored,
         Screens!OriginalKept

-----------------------------------------------------------------------------
(* Captures of an output.                                                   *)

(* A region is cut to what of it lies on the output.                        *)
LEMMA ClipCuts ==
  ASSUME NEW o \in CaptureOutputs, NEW x \in Int, NEW len \in Nat
  PROVE  LET c == Capture!Clip(o, x, len)
         IN  /\ c.at \in Int /\ c.len \in Nat
             /\ {p \in o.at .. (o.at + o.len - 1) : o.at + x <= p /\ p < o.at + x + len}
                  = c.at .. (c.at + c.len - 1)
  <1>1. o.at \in Int /\ o.len \in Nat
    BY DesktopAssumption DEF Capture!ScreencopyAssumption
  <1> DEFINE a == Capture!Clamp(o.at + x, o.at, o.at + o.len)
             b == Capture!Clamp(o.at + x + len, o.at, o.at + o.len)
  <1>2. a \in Int /\ b \in Int
    BY <1>1 DEF Capture!Clamp
  <1>3. CASE len = 0 \/ b <= a
    <2>1. Capture!Clip(o, x, len) = [at |-> 0, len |-> 0]
      BY <1>3 DEF Capture!Clip
    <2>2. {p \in o.at .. (o.at + o.len - 1) : o.at + x <= p /\ p < o.at + x + len} = {}
      BY <1>1, <1>3 DEF Capture!Clamp
    <2> QED BY <2>1, <2>2
  <1>4. CASE len # 0 /\ ~(b <= a)
    <2>1. Capture!Clip(o, x, len) = [at |-> a, len |-> b - a]
      BY <1>4 DEF Capture!Clip
    <2>2. ASSUME NEW p \in Int
          PROVE  p \in o.at .. (o.at + o.len - 1) /\ o.at + x <= p /\ p < o.at + x + len
                   <=> p \in a .. (a + (b - a) - 1)
      BY <1>1, <1>4 DEF Capture!Clamp
    <2>3. b - a \in Nat
      BY <1>2, <1>4
    <2> QED BY <1>1, <1>2, <2>1, <2>2, <2>3
  <1> QED BY <1>3, <1>4

(* A frame that was never asked for owes no answer.                         *)
LEMMA NoFrameAnswered == Capture!NoFrame \in Capture!FrameRecords /\ Capture!Answered(Capture!NoFrame)
  BY DEF Capture!NoFrame, Capture!FrameRecords, Capture!Answered

(* No frame is open at first.                                               *)
LEMMA CaptureInit == Capture!Init => Capture!IInv
  <1> SUFFICES ASSUME Capture!Init PROVE Capture!IInv
    OBVIOUS
  <1>1. capLocked \in BOOLEAN /\ output \in CaptureOutputs
    BY DEF Capture!Init
  <1>2. capChanges \in 0 .. CaptureChanges
    BY DesktopAssumption DEF Capture!Init, Capture!ScreencopyAssumption
  <1> QED BY <1>1, <1>2, NoFrameAnswered DEF Capture!Init, Capture!IInv, Capture!TypeOK

(* A step of one frame keeps the others as they are.                        *)
LEMMA FrameBecomes ==
  ASSUME Capture!IInv, NEW f \in CaptureFrames, NEW fr \in Capture!FrameRecords,
         Capture!Answered(fr), frame' = [frame EXCEPT ![f] = fr],
         UNCHANGED <<capLocked, output, capChanges>>
  PROVE  Capture!IInv'
  <1>1. frame' \in [CaptureFrames -> Capture!FrameRecords]
    BY DEF Capture!IInv
  <1>2. ASSUME NEW g \in CaptureFrames PROVE Capture!Answered(frame'[g])
    BY DEF Capture!IInv
  <1> QED BY <1>1, <1>2 DEF Capture!IInv, Capture!TypeOK

(* What is offered has at least one pixel.                                  *)
LEMMA OfferedHasPixels ==
  ASSUME NEW len \in Nat \ {0}, NEW scale2 \in Nat \ {0}
  PROVE  Capture!Size(len, scale2) \in Nat \ {0}
  <1>1. len * scale2 \in Nat /\ len * scale2 >= 1
    OBVIOUS
  <1> QED BY <1>1 DEF Capture!Size

(* A step of one frame leaves the others as they were.                      *)
LEMMA CaptureFrameStep ==
  ASSUME Capture!IInv, NEW f \in CaptureFrames,
         NEW r, r.at \in Int, r.len \in Int, Capture!Capture(f, r)
  PROVE  Capture!IInv'
  <1> USE DEF Capture!Capture
  <1>1. CASE capLocked \/ output = Capture!NoOutput \/ r.len <= 0
    <2>1. Capture!Failed \in Capture!FrameRecords /\ Capture!Answered(Capture!Failed)
      <3>1. Capture!Failed \in Capture!FrameRecords
        BY NoFrameAnswered DEF Capture!Failed, Capture!FrameRecords
      <3>2. Capture!Answered(Capture!Failed)
        BY DEF Capture!Failed, Capture!NoFrame, Capture!Answered
      <3> QED BY <3>1, <3>2
    <2> QED BY <1>1, <2>1, FrameBecomes
  <1>2. CASE ~(capLocked \/ output = Capture!NoOutput \/ r.len <= 0)
    <2>1. r.len \in Nat \ {0} /\ output.scale2 \in Nat \ {0}
      BY <1>2, DesktopAssumption
      DEF Capture!IInv, Capture!TypeOK, Capture!ScreencopyAssumption
    <2>2. Capture!Size(r.len, output.scale2) \in Nat \ {0}
      BY <2>1, OfferedHasPixels
    <2> DEFINE size == Capture!Size(r.len, output.scale2)
    <2>3. ASSUME NEW a \in Int, NEW l \in Nat \ {0}, NEW n \in Nat \ {0}
          PROVE  LET fr == [Capture!NoFrame EXCEPT !.state = "offered", !.at = a, !.len = l,
                                                   !.size = n]
                 IN  fr \in Capture!FrameRecords /\ Capture!Answered(fr)
      <3> DEFINE fr == [Capture!NoFrame EXCEPT !.state = "offered", !.at = a, !.len = l,
                                               !.size = n]
      <3>0. l \in Int /\ n \in Nat
        OBVIOUS
      <3>1. fr \in Capture!FrameRecords
        BY <3>0, NoFrameAnswered DEF Capture!FrameRecords
      <3>2. Capture!Answered(fr)
        BY DEF Capture!NoFrame, Capture!Answered
      <3> QED BY <3>1, <3>2
    <2>4. Capture!Offered(r) \in Capture!FrameRecords /\ Capture!Answered(Capture!Offered(r))
      BY <2>1, <2>2, <2>3 DEF Capture!Offered
    <2> QED BY <1>2, <2>4, FrameBecomes
  <1> QED BY <1>1, <1>2

(* A copy is of the output and the layout the client was promised.          *)
LEMMA CopyStep ==
  ASSUME Capture!IInv, NEW f \in CaptureFrames, NEW size \in Nat \ {0}, NEW painted \in BOOLEAN,
         Capture!Copy(f, size, painted)
  PROVE  Capture!IInv'
  <1> DEFINE fr == frame[f]
             copied == Capture!Copied(fr, size, painted)
  <1>1. fr \in Capture!FrameRecords /\ fr.state = "offered" /\ Capture!Answered(fr)
    BY DEF Capture!Copy, Capture!IInv
  <1>2. capLocked \in BOOLEAN
    BY DEF Capture!IInv, Capture!TypeOK
  <1> DEFINE Good == copied \in Capture!FrameRecords /\ Capture!Answered(copied)
  <1>3. ASSUME fr.copied PROVE Good
    <2>1. copied = [fr EXCEPT !.state = "error"]
      BY <1>3 DEF Capture!Copied
    <2> QED BY <1>1, <2>1 DEF Capture!FrameRecords, Capture!Answered
  <1>4. ASSUME ~fr.copied, capLocked PROVE Good
    <2>1. copied = [fr EXCEPT !.copied = TRUE, !.answers = @ + 1]
      BY <1>4 DEF Capture!Copied, Capture!CopySees, Capture!CopyRefused
    <2>2. copied \in Capture!FrameRecords
      <3>1. ASSUME NEW n \in Nat
            PROVE  [fr EXCEPT !.copied = TRUE, !.answers = n] \in Capture!FrameRecords
        BY <1>1 DEF Capture!FrameRecords
      <3>2. fr.answers + 1 \in Nat
        BY <1>1 DEF Capture!FrameRecords
      <3> QED BY <2>1, <3>1, <3>2
    <2> QED BY <1>1, <1>4, <2>1, <2>2 DEF Capture!FrameRecords, Capture!Answered
  <1>5. ASSUME ~fr.copied, ~capLocked, size # fr.size PROVE Good
    <2>1. copied = [fr EXCEPT !.state = "error", !.copied = TRUE]
      BY <1>5 DEF Capture!Copied, Capture!CopySees
    <2>2. copied \in Capture!FrameRecords
      BY <1>1, <2>1 DEF Capture!FrameRecords
    <2> QED BY <1>1, <1>5, <2>1, <2>2 DEF Capture!FrameRecords, Capture!Answered
  <1>6. ASSUME ~fr.copied, ~capLocked, size = fr.size PROVE Good
    <2>1. copied = [fr EXCEPT !.copied = TRUE, !.answers = @ + 1, !.ready = painted,
                              !.shown = painted /\ capLocked]
      BY <1>6 DEF Capture!Copied, Capture!CopySees
    <2>2. copied \in Capture!FrameRecords
      <3>1. ASSUME NEW n \in Nat, NEW b \in BOOLEAN
            PROVE  [fr EXCEPT !.copied = TRUE, !.answers = n, !.ready = painted, !.shown = b]
                     \in Capture!FrameRecords
        BY <1>1 DEF Capture!FrameRecords
      <3>2. fr.answers + 1 \in Nat
        BY <1>1 DEF Capture!FrameRecords
      <3> QED BY <2>1, <3>1, <3>2
    <2>3. fr.size # 0
      BY <1>6
    <2> QED BY <1>1, <1>6, <2>1, <2>2, <2>3 DEF Capture!FrameRecords, Capture!Answered
  <1>7. Good
    BY <1>2, <1>3, <1>4, <1>5, <1>6
  <1>8. frame' = [frame EXCEPT ![f] = copied] /\ UNCHANGED <<capLocked, output, capChanges>>
    BY DEF Capture!Copy
  <1> HIDE DEF copied
  <1> QED BY <1>7, <1>8, FrameBecomes

(* Every step of the screen capture keeps the invariant.                    *)
LEMMA CaptureStep ==
  ASSUME Capture!IInv, Capture!Next \/ UNCHANGED captureVars
  PROVE  Capture!IInv'
  <1>1. CASE UNCHANGED captureVars
    BY <1>1 DEF captureVars, Capture!IInv, Capture!TypeOK
  <1>2. CASE \/ Capture!Locks
             \/ \E o \in CaptureOutputs \cup {Capture!NoOutput} : Capture!OutputChanges(o)
    <2> USE <1>2 DEF Capture!Locks, Capture!OutputChanges, Capture!Change
    <2>1. /\ capLocked' \in BOOLEAN /\ UNCHANGED frame
          /\ output' \in CaptureOutputs \cup {Capture!NoOutput}
      BY DEF Capture!IInv, Capture!TypeOK
    <2>2. capChanges' \in 0 .. CaptureChanges
      BY DesktopAssumption DEF Capture!IInv, Capture!TypeOK, Capture!ScreencopyAssumption
    <2> QED BY <2>1, <2>2 DEF Capture!IInv, Capture!TypeOK
  <1>3. ASSUME NEW f \in CaptureFrames, Capture!FrameStep(f) PROVE Capture!IInv'
    <2>1. output.at \in Int /\ output.len \in Nat
      BY DesktopAssumption
      DEF Capture!IInv, Capture!TypeOK, Capture!NoOutput, Capture!ScreencopyAssumption
    <2>2. CASE Capture!CaptureOutput(f)
      BY <2>1, <2>2, CaptureFrameStep DEF Capture!CaptureOutput
    <2>3. ASSUME NEW x \in (-CaptureReach) .. CaptureReach, NEW len \in 0 .. CaptureReach,
                 Capture!CaptureRegion(f, x, len)
          PROVE  Capture!IInv'
      <3>1. x \in Int /\ len \in Nat
        BY DesktopAssumption DEF Capture!ScreencopyAssumption
      <3>2. Capture!Clip(output, x, len).at \in Int /\ Capture!Clip(output, x, len).len \in Int
        BY <2>1, <3>1 DEF Capture!Clip, Capture!Clamp
      <3> QED BY <2>3, <3>2, CaptureFrameStep DEF Capture!CaptureRegion
    <2>4. CASE Capture!Destroy(f)
      <3> DEFINE fr == [frame[f] EXCEPT !.state = "gone"]
      <3>1. fr \in Capture!FrameRecords /\ Capture!Answered(fr)
        BY DEF Capture!IInv, Capture!FrameRecords, Capture!Answered
      <3> QED BY <2>4, <3>1, FrameBecomes DEF Capture!Destroy
    <2>5. ASSUME NEW size \in 1 .. (2 * CaptureReach), NEW painted \in BOOLEAN,
                 Capture!Copy(f, size, painted)
          PROVE  Capture!IInv'
      BY <2>5, CopyStep
    <2> QED BY <1>3, <2>2, <2>3, <2>4, <2>5 DEF Capture!FrameStep
  <1> QED BY <1>1, <1>2, <1>3 DEF Capture!Next

(* The invariant of the screen capture is what its run checks.              *)
LEMMA CaptureInvariant == Capture!IInv => Capture!CaptureSound
  <1>1. Capture!Cut
    <2> SUFFICES ASSUME NEW o \in CaptureOutputs, NEW x \in (-CaptureReach) .. CaptureReach,
                        NEW len \in 0 .. CaptureReach
                 PROVE  LET c == Capture!Clip(o, x, len)
                            inside == {p \in o.at .. (o.at + o.len - 1) :
                                         o.at + x <= p /\ p < o.at + x + len}
                        IN  inside = c.at .. (c.at + c.len - 1)
      BY DEF Capture!Cut
    <2>1. x \in Int /\ len \in Nat
      BY DesktopAssumption DEF Capture!ScreencopyAssumption
    <2> QED BY <2>1, ClipCuts
  <1>2. ASSUME Capture!IInv, NEW f \in CaptureFrames
        PROVE  LET fr == frame[f]
               IN  /\ fr.size > 0 => fr.answers <= 1
                   /\ fr.ready => fr.size > 0 /\ ~fr.shown
                   /\ fr.len > 0 => fr.size > 0
    <2>1. frame[f] \in Capture!FrameRecords /\ Capture!Answered(frame[f])
      BY <1>2 DEF Capture!IInv
    <2> QED BY <2>1 DEF Capture!Answered, Capture!FrameRecords
  <1> QED BY <1>1, <1>2 DEF Capture!IInv, Capture!CaptureSound

(* One client owns an output's table; the original is back when nobody does, *)
(* if the control was never taken over and the layout not changed; every     *)
(* client hears of the mode, and a copy holds what its client was promised.  *)
THEOREM OutputsKept == AllSpec => []OutputsSound
  <1> DEFINE I == /\ subject = "outputs" => Screens!IInv
                  /\ subject = "capture" => Capture!IInv
  <1>1. AllInit => I
    BY ScreensInit, CaptureInit DEF AllInit
  <1>2. I /\ [AllNext]_allVars => I'
    BY SubjectSteps, ScreensStep, CaptureStep
  <1>3. I => OutputsSound
    BY ScreensInvariant, CaptureInvariant DEF OutputsSound
  <1> QED BY <1>1, <1>2, <1>3, PTL DEF AllSpec

-----------------------------------------------------------------------------
(* The registry of protocol globals.                                        *)

(* No protocol is registered at first.                                      *)
LEMMA GlobalsInit == Globals!Init => Globals!IInv
  <1> SUFFICES ASSUME Globals!Init PROVE Globals!IInv
    OBVIOUS
  <1>1. MaxReloads \in Nat /\ Hooked \subseteq Protocols
    BY DesktopAssumption DEF Globals!GlobalsAssumption
  <1> QED BY <1>1 DEF Globals!Init, Globals!IInv, Globals!Kept, Globals!GlobalsSound,
                      Globals!TypeOK, Globals!Display, Globals!Filter

(* A protocol is registered once, as the configuration says.                *)
LEMMA RegisterStep ==
  ASSUME Globals!IInv, NEW p \in Protocols, Globals!Register(p)
  PROVE  Globals!IInv'
  <1> USE DEF Globals!Register, Globals!IInv
  <1>1. Globals!Kept' /\ Globals!TypeOK' /\ ~misused'
    BY DEF Globals!Kept, Globals!GlobalsSound, Globals!TypeOK, Globals!Display
  <1>2. filtered' = {q \in Hooked : global'[q] = "live"}
    <2>1. filtered = {q \in Hooked : global[q] = "live"} /\ global[p] = "none"
      BY DEF Globals!GlobalsSound, Globals!Filter, Globals!Kept
    <2> QED BY <2>1, DesktopAssumption
            DEF Globals!GlobalsSound, Globals!TypeOK, Globals!GlobalsAssumption
  <1>3. applied' => \A q \in registered' : (global'[q] = "live") = (q \in enabled')
    BY DEF Globals!GlobalsSound, Globals!TypeOK
  <1> QED BY <1>1, <1>2, <1>3 DEF Globals!GlobalsSound

(* A reload that is reported as applied left every registration as the      *)
(* configuration has it; one that stopped left the filter manager right.    *)
LEMMA ReloadStep ==
  ASSUME Globals!IInv, NEW wanted \in SUBSET Protocols, NEW fails \in SUBSET Protocols,
         Globals!Reload(wanted, fails)
  PROVE  Globals!IInv'
  <1> DEFINE reached == {p \in registered : \A q \in fails : Globals!Ordered(p, q)}
             off == {p \in reached \ wanted : global[p] = "live"}
             added == Globals!Adds(reached, wanted)
  <1>1. /\ phase = "running" /\ registered \subseteq Protocols /\ Hooked \subseteq Protocols
        /\ global \in [Protocols -> {"none", "live"}]
        /\ filtered = {q \in Hooked : global[q] = "live"}
        /\ ~misused /\ reloads \in 0 .. MaxReloads /\ MaxReloads \in Nat
    BY DesktopAssumption
    DEF Globals!IInv, Globals!Kept, Globals!GlobalsSound, Globals!TypeOK, Globals!Display,
        Globals!Filter, Globals!Reload, Globals!GlobalsAssumption
  <1>2. /\ UNCHANGED <<phase, registered>> /\ enabled' = wanted /\ reloads' = reloads + 1
        /\ reloads < MaxReloads
        /\ filtered' = Globals!Unfilters(off) \cup (added \cap Hooked)
        /\ misused' = (misused \/ Globals!Misuses(off))
        /\ applied' = (fails = {})
        /\ global' = [p \in Protocols |-> IF p \in added THEN "live"
                                          ELSE Globals!Withdrawn(off)[p]]
    BY DEF Globals!Reload, Globals!Applies
  <1>3. /\ off \subseteq registered /\ \A p \in off : global[p] = "live" /\ p \notin wanted
        /\ added \subseteq registered /\ \A p \in added : global[p] = "none" /\ p \in wanted
        /\ fails = {} => \A p \in registered :
             /\ p \in off <=> p \notin wanted /\ global[p] = "live"
             /\ p \in added <=> p \in wanted /\ global[p] = "none"
    BY DEF Globals!Adds
  <1> HIDE DEF off, added
  <1>4. \A p \in Protocols : global'[p] = IF p \in added THEN "live"
                                          ELSE IF p \in off THEN "none" ELSE global[p]
    BY <1>2 DEF Globals!Withdrawn
  <1>5. filtered' = {q \in Hooked : global'[q] = "live"}
    BY <1>1, <1>2, <1>3, <1>4 DEF Globals!Unfilters, Globals!Touches, Globals!Display
  <1>6. ~misused'
    BY <1>1, <1>2, <1>3 DEF Globals!Misuses, Globals!Touches, Globals!Filter
  <1>7. Globals!Kept' /\ Globals!TypeOK'
    BY <1>1, <1>2, <1>3, <1>4 DEF Globals!IInv, Globals!Kept, Globals!TypeOK, Globals!Display
  <1>8. ASSUME applied', NEW p \in registered
        PROVE  (global'[p] = "live") = (p \in wanted)
    <2>1. fails = {} /\ p \in Protocols /\ global[p] \in {"none", "live"}
      BY <1>1, <1>2, <1>8
    <2>2. CASE p \in wanted
      <3>1. p \notin off /\ (global[p] = "none" => p \in added)
        BY <1>3, <2>1, <2>2
      <3>2. global'[p] = "live"
        BY <1>4, <2>1, <3>1
      <3> QED BY <2>2, <3>2
    <2>3. CASE p \notin wanted
      <3>1. p \notin added /\ (global[p] = "live" => p \in off)
        BY <1>3, <2>1, <2>3
      <3>2. global'[p] # "live"
        BY <1>4, <2>1, <3>1
      <3> QED BY <2>3, <3>2
    <2> QED BY <2>2, <2>3
  <1> QED BY <1>1, <1>2, <1>5, <1>6, <1>7, <1>8
      DEF Globals!IInv, Globals!GlobalsSound

(* The ways down: nothing that was freed is touched.                        *)
LEMMA ShutdownStep ==
  ASSUME Globals!IInv,
         \/ Globals!PrepareShutdown \/ Globals!FinalizesFilter \/ Globals!DestroysDisplay
         \/ Globals!FreesRegistrations
  PROVE  Globals!IInv'
  <1> USE DEF Globals!IInv, Globals!Kept, Globals!GlobalsSound, Globals!TypeOK,
              Globals!Display, Globals!Filter
  <1>1. Hooked \subseteq Protocols
    BY DesktopAssumption DEF Globals!GlobalsAssumption
  <1>2. CASE Globals!PrepareShutdown
    <2> USE <1>2 DEF Globals!PrepareShutdown, Globals!Withdraw
    <2>1. \A p \in Protocols : global'[p] = "none"
      BY DEF Globals!Withdrawn
    <2>2. filtered' = {}
      BY <1>1 DEF Globals!Unfilters, Globals!Touches
    <2>3. ~misused'
      BY DEF Globals!Misuses, Globals!Touches
    <2>4. global' \in [Protocols -> {"none", "live", "stale"}]
      BY DEF Globals!Withdrawn
    <2> QED BY <1>1, <2>1, <2>2, <2>3, <2>4
  <1>3. CASE Globals!FinalizesFilter
    BY <1>3 DEF Globals!FinalizesFilter
  <1>4. CASE Globals!DestroysDisplay
    BY <1>4 DEF Globals!DestroysDisplay
  <1>5. CASE Globals!FreesRegistrations
    <2> USE <1>5 DEF Globals!FreesRegistrations, Globals!Withdraw
    <2>1. ~misused'
      BY DEF Globals!Misuses, Globals!Touches
    <2>2. \A p \in Protocols : global'[p] = "none"
      BY DEF Globals!Withdrawn
    <2>3. global' \in [Protocols -> {"none", "live", "stale"}]
      BY DEF Globals!Withdrawn
    <2> QED BY <2>1, <2>2, <2>3
  <1> QED BY <1>2, <1>3, <1>4, <1>5

(* Every step of the registry keeps the invariant.                          *)
LEMMA GlobalsStep ==
  ASSUME Globals!IInv, Globals!Next \/ UNCHANGED globalsVars
  PROVE  Globals!IInv'
  <1>1. CASE UNCHANGED globalsVars
    BY <1>1 DEF globalsVars, Globals!IInv, Globals!Kept, Globals!GlobalsSound, Globals!TypeOK,
                Globals!Display, Globals!Filter
  <1> QED BY <1>1, RegisterStep, ReloadStep, ShutdownStep DEF Globals!Next

-----------------------------------------------------------------------------
(* What clipboard managers hear.                                            *)

(* Nothing is offered at first.                                             *)
LEMMA ClipboardInit == Clipboard!Init => Clipboard!IInv
  <1> SUFFICES ASSUME Clipboard!Init PROVE Clipboard!IInv
    OBVIOUS
  <1>1. ClipChanges \in Nat /\ "none" \notin ClipSources
    BY DesktopAssumption DEF Clipboard!DataControlAssumption, Clipboard!None
  <1> USE DEF Clipboard!Init, Clipboard!NewSource, Clipboard!NewDevice, Clipboard!None,
              Clipboard!App
  <1>2. source \in [ClipSources -> Clipboard!SourceRecords]
    BY DEF Clipboard!SourceRecords
  <1>3. device \in [ClipDevices -> Clipboard!DeviceRecords]
    BY DEF Clipboard!DeviceRecords
  <1>4. Clipboard!TypeOK
    <2>1. owner \in [Clipboard!Types -> ClipSources \cup {"none", "app"}]
      OBVIOUS
    <2>2. clipLocked \in BOOLEAN
      OBVIOUS
    <2>3. copies \in 0 .. ClipChanges
      BY <1>1
    <2> QED BY <2>1, <2>2, <2>3 DEF Clipboard!TypeOK
  <1>6. Clipboard!DevicesTold
    BY DEF Clipboard!DevicesTold
  <1>5. Clipboard!PointersLive /\ Clipboard!ReplacedTold /\ Clipboard!OwnersUsed
    BY <1>1 DEF Clipboard!PointersLive, Clipboard!ReplacedTold, Clipboard!OwnersUsed,
                Clipboard!Types
  <1> QED BY <1>2, <1>3, <1>4, <1>5, <1>6 DEF Clipboard!IInv, Clipboard!ClipboardSound

(* A selection passes to a new owner: S and D are the sources and devices   *)
(* as the request left them, in order for every type but this one.          *)
LEMMA OwnerPasses ==
  ASSUME Clipboard!IInv, NEW t \in Clipboard!Types, NEW new \in ClipSources \cup {"none", "app"},
         NEW S \in [ClipSources -> Clipboard!SourceRecords],
         NEW D \in [ClipDevices -> Clipboard!DeviceRecords],
         \A e \in ClipDevices, u \in Clipboard!Types :
           D[e].live /\ u # t => /\ D[e].told[u] = Clipboard!Advertises(owner[u], S)
                                 /\ D[e].tracked[u] # "none" => D[e].tracked[u] = owner[u],
         \A s \in ClipSources, u \in Clipboard!Types :
           u # t => (S[s].sel = u <=> owner[u] = s) /\ (owner[u] = s => S[s].resource),
         \A s \in ClipSources : S[s].sel = t <=> s = new \/ s = owner[t],
         new \in ClipSources => new # owner[t] /\ S[new].resource,
         \A s \in ClipSources :
           /\ S[s].sel # "none" => S[s].used
           /\ S[s].used \/ S[s].resource => S[s].born,
         \A s \in ClipSources :
           S[s].resource /\ S[s].used /\ S[s].sel = "none" => S[s].cancelled,
         Clipboard!SetsOwner(t, new, S, D), UNCHANGED clipLocked, copies' \in 0 .. ClipChanges
  PROVE  Clipboard!IInv'
  <1>1. /\ {"none", "app"} \cap ClipSources = {}
        /\ owner \in [Clipboard!Types -> ClipSources \cup {"none", "app"}]
        /\ clipLocked \in BOOLEAN
    BY DesktopAssumption
    DEF Clipboard!IInv, Clipboard!ClipboardSound, Clipboard!TypeOK, Clipboard!None,
        Clipboard!App, Clipboard!DataControlAssumption
  <1>2. /\ owner' = [owner EXCEPT ![t] = new]
        /\ source' = IF owner[t] \in ClipSources
                     THEN [S EXCEPT ![owner[t]] = Clipboard!Deactivated(@)] ELSE S
        /\ device' = [e \in ClipDevices |-> IF D[e].live
                                           THEN Clipboard!OwnerChanged(D[e], t, new, source')
                                           ELSE D[e]]
    BY DEF Clipboard!SetsOwner
  <1>3. ASSUME NEW s \in ClipSources
        PROVE  /\ source'[s] \in Clipboard!SourceRecords
               /\ source'[s].sel = IF s = owner[t] THEN "none" ELSE S[s].sel
               /\ source'[s].resource = S[s].resource /\ source'[s].mimes = S[s].mimes
               /\ source'[s].used = S[s].used /\ source'[s].born = S[s].born
               /\ source'[s].cancelled = (S[s].cancelled \/ (s = owner[t] /\ S[s].resource))
    <2>1. CASE s = owner[t]
      <3>1. source'[s] = Clipboard!Deactivated(S[s])
        BY <1>2, <2>1
      <3>2. /\ S[s].born \in BOOLEAN /\ S[s].resource \in BOOLEAN /\ S[s].mimes \in BOOLEAN
            /\ S[s].used \in BOOLEAN /\ S[s].cancelled \in BOOLEAN
        BY DEF Clipboard!SourceRecords
      <3>3. source'[s] \in Clipboard!SourceRecords
        <4> DEFINE c == S[s].cancelled \/ S[s].resource
        <4>2. c \in BOOLEAN /\ S[s] \in Clipboard!SourceRecords
          OBVIOUS
        <4>3. source'[s] = [S[s] EXCEPT !.sel = "none", !.cancelled = c]
          BY <3>1 DEF Clipboard!Deactivated, Clipboard!None
        <4> HIDE DEF c
        <4> QED BY <4>2, <4>3 DEF Clipboard!SourceRecords, Clipboard!None
      <3>4. /\ source'[s].sel = "none"
            /\ source'[s].resource = S[s].resource /\ source'[s].mimes = S[s].mimes
            /\ source'[s].used = S[s].used /\ source'[s].born = S[s].born
            /\ source'[s].cancelled = (S[s].cancelled \/ S[s].resource)
        BY <3>1 DEF Clipboard!Deactivated, Clipboard!SourceRecords, Clipboard!None
      <3> QED BY <2>1, <3>2, <3>3, <3>4
    <2>2. CASE s # owner[t]
      <3>1. source'[s] = S[s] /\ S[s].cancelled \in BOOLEAN
        BY <1>2, <2>2 DEF Clipboard!SourceRecords
      <3> QED BY <2>2, <3>1
    <2> QED BY <2>1, <2>2
  <1>4. source' \in [ClipSources -> Clipboard!SourceRecords]
    BY <1>1, <1>2, <1>3
  <1>5. ASSUME NEW o, NEW u \in Clipboard!Types
        PROVE  Clipboard!Advertises(o, source') = Clipboard!Advertises(o, S)
    BY <1>3 DEF Clipboard!Advertises
  <1>6. ASSUME NEW e \in ClipDevices, D[e].live
        PROVE  /\ device'[e] \in Clipboard!DeviceRecords /\ device'[e].live
               /\ \A u \in Clipboard!Types :
                    /\ device'[e].told[u] = IF u = t THEN Clipboard!Advertises(new, S)
                                            ELSE D[e].told[u]
                    /\ device'[e].tracked[u] = IF u = t /\ D[e].tracked[u] # new THEN "none"
                                               ELSE D[e].tracked[u]
    <2>1. Clipboard!Advertises(new, S) \in ClipSources \cup {"none", "app"}
      BY DEF Clipboard!Advertises, Clipboard!None
    <2>2. device'[e] = [D[e] EXCEPT !.tracked[t] = IF @ = new THEN @ ELSE "none",
                                    !.told[t] = Clipboard!Advertises(new, S)]
      BY <1>2, <1>5, <1>6 DEF Clipboard!OwnerChanged, Clipboard!None
    <2>3. /\ D[e].tracked \in [Clipboard!Types -> ClipSources \cup {"none"}]
          /\ D[e].told \in [Clipboard!Types -> ClipSources \cup {"none", "app"}]
      BY DEF Clipboard!DeviceRecords, Clipboard!None, Clipboard!App
    <2>4. device'[e] \in Clipboard!DeviceRecords
      <3> DEFINE a == IF D[e].tracked[t] = new THEN D[e].tracked[t] ELSE "none"
      <3>2. a \in ClipSources \cup {"none"}
        BY <2>3
      <3>3. device'[e] = [D[e] EXCEPT
                 !.tracked = [D[e].tracked EXCEPT ![t] = a],
                 !.told = [D[e].told EXCEPT ![t] = Clipboard!Advertises(new, S)]]
        BY <2>2
      <3> HIDE DEF a
      <3>4. /\ [D[e].tracked EXCEPT ![t] = a] \in [Clipboard!Types -> ClipSources \cup {"none"}]
            /\ [D[e].told EXCEPT ![t] = Clipboard!Advertises(new, S)]
                 \in [Clipboard!Types -> ClipSources \cup {"none", "app"}]
        BY <2>1, <2>3, <3>2
      <3>5. D[e] \in Clipboard!DeviceRecords
        OBVIOUS
      <3> DEFINE x == [D[e].tracked EXCEPT ![t] = a]
                 y == [D[e].told EXCEPT ![t] = Clipboard!Advertises(new, S)]
      <3>6. device'[e] = [D[e] EXCEPT !.tracked = x, !.told = y]
        BY <3>3
      <3>7. /\ x \in [Clipboard!Types -> ClipSources \cup {"none"}]
            /\ y \in [Clipboard!Types -> ClipSources \cup {"none", "app"}]
        BY <3>4
      <3> HIDE DEF x, y
      <3>8. [D[e] EXCEPT !.tracked = x, !.told = y] \in Clipboard!DeviceRecords
        BY ONLY <3>5, <3>7 DEF Clipboard!DeviceRecords, Clipboard!None, Clipboard!App
      <3> QED BY <3>6, <3>8
    <2>5. device'[e].live
      BY <1>6, <2>2 DEF Clipboard!DeviceRecords
    <2> QED BY <2>2, <2>3, <2>4, <2>5 DEF Clipboard!DeviceRecords
  <1>7. device' \in [ClipDevices -> Clipboard!DeviceRecords]
    BY <1>2, <1>6
  <1>8. Clipboard!TypeOK'
    BY <1>1, <1>2 DEF Clipboard!TypeOK, Clipboard!None, Clipboard!App
  <1>9. Clipboard!OwnersUsed'
    <2> SUFFICES ASSUME NEW s \in ClipSources
                 PROVE  /\ source'[s].sel # "none" => source'[s].used
                        /\ source'[s].used \/ source'[s].resource => source'[s].born
      BY DEF Clipboard!OwnersUsed, Clipboard!None
    <2>1. /\ source'[s].sel = IF s = owner[t] THEN "none" ELSE S[s].sel
          /\ source'[s].used = S[s].used /\ source'[s].resource = S[s].resource
          /\ source'[s].born = S[s].born
      BY <1>3
    <2> QED BY <2>1
  <1>14. Clipboard!ReplacedTold'
    <2> SUFFICES ASSUME NEW s \in ClipSources,
                        source'[s].resource, source'[s].used, source'[s].sel = "none"
                 PROVE  source'[s].cancelled
      BY DEF Clipboard!ReplacedTold, Clipboard!None
    <2>1. S[s].resource /\ S[s].used
      BY <1>3
    <2>2. CASE s = owner[t]
      BY <1>3, <2>1, <2>2
    <2>3. CASE s # owner[t]
      BY <1>3, <2>1, <2>3
    <2> QED BY <2>2, <2>3
  <1>10. ASSUME NEW u \in Clipboard!Types
         PROVE  owner'[u] = IF u = t THEN new ELSE owner[u]
    BY <1>1, <1>2
  <1>11. ASSUME NEW e \in ClipDevices, NEW u \in Clipboard!Types, device'[e].live
         PROVE  /\ device'[e].tracked[u] # "none" => device'[e].tracked[u] = owner'[u]
                /\ device'[e].told[u] = Clipboard!Advertises(owner'[u], S)
    <2>1. D[e].live
      BY <1>2, <1>11
    <2>2. /\ device'[e].told[u] = IF u = t THEN Clipboard!Advertises(new, S) ELSE D[e].told[u]
          /\ device'[e].tracked[u] = IF u = t /\ D[e].tracked[u] # new THEN "none"
                                     ELSE D[e].tracked[u]
      BY <1>6, <2>1
    <2>3. u # t => /\ D[e].told[u] = Clipboard!Advertises(owner[u], S)
                   /\ D[e].tracked[u] # "none" => D[e].tracked[u] = owner[u]
      BY <2>1
    <2>4. owner'[u] = IF u = t THEN new ELSE owner[u]
      BY <1>10
    <2> QED BY <2>2, <2>3, <2>4
  <1>12. Clipboard!PointersLive'
    <2>1. ASSUME NEW s \in ClipSources, NEW u \in Clipboard!Types
          PROVE  /\ source'[s].sel = u <=> owner'[u] = s
                 /\ owner'[u] = s => source'[s].resource
      BY <1>1, <1>3, <1>10 DEF Clipboard!Types
    <2> QED BY <1>11, <2>1 DEF Clipboard!PointersLive, Clipboard!None
  <1>13. Clipboard!DevicesTold'
    <2>2. ASSUME NEW u \in Clipboard!Types
          PROVE  /\ Clipboard!Advertises(owner'[u], S) = Clipboard!Advertises(owner[u], source)'
                 /\ clipLocked' => Clipboard!Advertises(owner[u], source)' = "none"
      BY <1>5 DEF Clipboard!Advertises, Clipboard!None
    <2> QED BY <1>11, <2>2 DEF Clipboard!DevicesTold, Clipboard!None
  <1> QED BY <1>4, <1>7, <1>8, <1>9, <1>12, <1>13, <1>14 DEF Clipboard!IInv, Clipboard!ClipboardSound

(* What the invariant says of one source, one device and one type.          *)
LEMMA ClipboardFacts ==
  ASSUME Clipboard!IInv
  PROVE  /\ {"none", "app"} \cap ClipSources = {}
         /\ owner \in [Clipboard!Types -> ClipSources \cup {"none", "app"}]
         /\ clipLocked \in BOOLEAN /\ copies \in 0 .. ClipChanges /\ ClipChanges \in Nat
         /\ source \in [ClipSources -> Clipboard!SourceRecords]
         /\ device \in [ClipDevices -> Clipboard!DeviceRecords]
         /\ \A s \in ClipSources, u \in Clipboard!Types :
              (source[s].sel = u <=> owner[u] = s) /\ (owner[u] = s => source[s].resource)
         /\ \A s \in ClipSources :
              /\ source[s].sel # "none" => source[s].used
              /\ source[s].used \/ source[s].resource => source[s].born
         /\ \A s \in ClipSources :
              source[s].resource /\ source[s].used /\ source[s].sel = "none" => source[s].cancelled
         /\ \A e \in ClipDevices, u \in Clipboard!Types :
              device[e].live =>
                /\ device[e].told[u] = Clipboard!Advertises(owner[u], source)
                /\ device[e].tracked[u] # "none" => device[e].tracked[u] = owner[u]
  BY DesktopAssumption
  DEF Clipboard!IInv, Clipboard!ClipboardSound, Clipboard!TypeOK, Clipboard!None, Clipboard!App,
      Clipboard!DataControlAssumption, Clipboard!DevicesTold, Clipboard!PointersLive,
      Clipboard!ReplacedTold, Clipboard!OwnersUsed

(* A source that owns nothing changes.                                      *)
LEMMA SourceBecomes ==
  ASSUME Clipboard!IInv, NEW s \in ClipSources, NEW r \in Clipboard!SourceRecords,
         \A u \in Clipboard!Types : owner[u] # s, r.sel = "none", r.born,
         r.resource /\ r.used => r.cancelled,
         source' = [source EXCEPT ![s] = r], UNCHANGED <<owner, device, clipLocked, copies>>
  PROVE  Clipboard!IInv'
  <1> USE ClipboardFacts
  <1>1. \A x \in ClipSources : source'[x] = IF x = s THEN r ELSE source[x]
    OBVIOUS
  <1>2. source' \in [ClipSources -> Clipboard!SourceRecords]
    OBVIOUS
  <1>3. ASSUME NEW u \in Clipboard!Types
        PROVE  Clipboard!Advertises(owner[u], source)' = Clipboard!Advertises(owner[u], source)
    BY <1>1 DEF Clipboard!Advertises
  <1>4. Clipboard!TypeOK'
    BY DEF Clipboard!TypeOK, Clipboard!None, Clipboard!App
  <1>8. Clipboard!DevicesTold'
    BY ONLY Clipboard!IInv, UNCHANGED <<owner, device, clipLocked>>, <1>3
       DEF Clipboard!DevicesTold, Clipboard!IInv, Clipboard!ClipboardSound
  <1>5. ASSUME NEW x \in ClipSources, NEW u \in Clipboard!Types
        PROVE  (source'[x].sel = u <=> owner[u] = x) /\ (owner[u] = x => source'[x].resource)
    BY <1>1 DEF Clipboard!Types
  <1>6. Clipboard!PointersLive'
    BY <1>5 DEF Clipboard!PointersLive, Clipboard!None
  <1>7. Clipboard!OwnersUsed' /\ Clipboard!ReplacedTold'
    BY <1>1 DEF Clipboard!OwnersUsed, Clipboard!ReplacedTold, Clipboard!None
  <1> QED BY <1>2, <1>4, <1>6, <1>7, <1>8 DEF Clipboard!IInv, Clipboard!ClipboardSound

(* The devices become D, each as the owners are.                            *)
LEMMA DevicesBecome ==
  ASSUME Clipboard!IInv, NEW D \in [ClipDevices -> Clipboard!DeviceRecords],
         device' = D, UNCHANGED <<owner, source>>, clipLocked' \in BOOLEAN,
         copies' \in 0 .. ClipChanges,
         \A e \in ClipDevices, u \in Clipboard!Types :
           D[e].live =>
             /\ D[e].told[u] = Clipboard!Advertises(owner[u], source)'
             /\ D[e].tracked[u] # "none" => D[e].tracked[u] = owner[u]
  PROVE  Clipboard!IInv'
  <1> USE ClipboardFacts
  <1>1. Clipboard!TypeOK'
    BY DEF Clipboard!TypeOK, Clipboard!None, Clipboard!App
  <1>2. Clipboard!DevicesTold'
    BY DEF Clipboard!DevicesTold, Clipboard!Advertises, Clipboard!None
  <1>3. Clipboard!PointersLive'
    BY DEF Clipboard!PointersLive, Clipboard!None
  <1>4. Clipboard!OwnersUsed' /\ Clipboard!ReplacedTold'
    BY DEF Clipboard!OwnersUsed, Clipboard!ReplacedTold, Clipboard!None
  <1> QED BY <1>1, <1>2, <1>3, <1>4 DEF Clipboard!IInv, Clipboard!ClipboardSound

(* A source that is made or offers a type is not used yet.                  *)
LEMMA ClipSourceStep ==
  ASSUME Clipboard!IInv, NEW s \in ClipSources, Clipboard!SourceStep(s)
  PROVE  Clipboard!IInv'
  <1> USE ClipboardFacts
  <1>1. source[s] \in Clipboard!SourceRecords
    OBVIOUS
  <1>2. CASE Clipboard!CreateSource(s)
    <2> DEFINE r == [source[s] EXCEPT !.born = TRUE, !.resource = TRUE]
    <2>1. r \in Clipboard!SourceRecords
      BY <1>1 DEF Clipboard!SourceRecords
    <2>2. r.sel = "none" /\ ~r.used /\ r.born
      BY <1>1, <1>2 DEF Clipboard!CreateSource, Clipboard!SourceRecords
    <2>3. \A u \in Clipboard!Types : owner[u] # s
      BY <1>2 DEF Clipboard!CreateSource
    <2>4. source' = [source EXCEPT ![s] = r] /\ UNCHANGED <<owner, device, clipLocked, copies>>
      BY <1>2 DEF Clipboard!CreateSource
    <2> HIDE DEF r
    <2> QED BY <2>1, <2>2, <2>3, <2>4, SourceBecomes
  <1>3. CASE Clipboard!Offer(s)
    <2> DEFINE r == [source[s] EXCEPT !.mimes = TRUE]
    <2>1. r \in Clipboard!SourceRecords /\ source' = [source EXCEPT ![s] = r]
      BY <1>1, <1>3 DEF Clipboard!Offer, Clipboard!SourceRecords
    <2>2. r.sel = "none" /\ ~r.used /\ r.born
      BY <1>1, <1>3 DEF Clipboard!Offer, Clipboard!SourceRecords, Clipboard!None
    <2>3. \A u \in Clipboard!Types : owner[u] # s
      BY <1>1, <2>2 DEF Clipboard!SourceRecords, Clipboard!Types
    <2> HIDE DEF r
    <2> QED BY <1>3, <2>1, <2>2, <2>3, SourceBecomes DEF Clipboard!Offer
  <1>4. CASE Clipboard!DestroySource(s)
    <2> DEFINE r == [source[s] EXCEPT !.resource = FALSE]
               gone == [source EXCEPT ![s] = r]
    <2>1. /\ r \in Clipboard!SourceRecords /\ r.sel = source[s].sel /\ r.used = source[s].used
          /\ r.mimes = source[s].mimes /\ r.cancelled = source[s].cancelled
          /\ ~r.resource /\ r.born
      BY <1>4, <1>1 DEF Clipboard!SourceRecords, Clipboard!DestroySource
    <2>2. gone = [source EXCEPT ![s].resource = FALSE]
      OBVIOUS
    <2> HIDE DEF r
    <2>3. CASE source[s].sel # "none" /\ owner[source[s].sel] = s
      <3> DEFINE t == source[s].sel
      <3>1. t \in Clipboard!Types /\ owner[t] = s
        BY <1>1, <2>3 DEF Clipboard!SourceRecords, Clipboard!None
      <3>2. Clipboard!SetsOwner(t, "none", gone, device) /\ UNCHANGED <<clipLocked, copies>>
        BY <1>4, <2>2, <2>3 DEF Clipboard!DestroySource, Clipboard!None
      <3>3. \A x \in ClipSources : gone[x] = IF x = s THEN r ELSE source[x]
        OBVIOUS
      <3>4. gone \in [ClipSources -> Clipboard!SourceRecords]
        BY <2>1
      <3> HIDE DEF gone
      <3>5. \A e \in ClipDevices, u \in Clipboard!Types :
              device[e].live /\ u # t =>
                /\ device[e].told[u] = Clipboard!Advertises(owner[u], gone)
                /\ device[e].tracked[u] # "none" => device[e].tracked[u] = owner[u]
        BY <3>3, <2>1 DEF Clipboard!Advertises
      <3>6. \A x \in ClipSources, u \in Clipboard!Types :
              u # t => (gone[x].sel = u <=> owner[u] = x) /\ (owner[u] = x => gone[x].resource)
        BY <3>3, <2>1
      <3>7. \A x \in ClipSources : gone[x].sel = t <=> x = "none" \/ x = owner[t]
        BY <3>1, <3>3, <2>1
      <3>8. \A x \in ClipSources :
              /\ gone[x].sel # "none" => gone[x].used
              /\ gone[x].used \/ gone[x].resource => gone[x].born
              /\ gone[x].resource /\ gone[x].used /\ gone[x].sel = "none" => gone[x].cancelled
        BY <3>3, <2>1
      <3> HIDE DEF t
      <3>9. "none" \in ClipSources => "none" # owner[t] /\ gone["none"].resource
        OBVIOUS
      <3>10. copies' \in 0 .. ClipChanges /\ "none" \in ClipSources \cup {"none", "app"}
        BY <3>2
      <3> QED BY ONLY Clipboard!IInv, device \in [ClipDevices -> Clipboard!DeviceRecords],
                 <3>1, <3>2, <3>4, <3>5, <3>6, <3>7, <3>8, <3>9, <3>10, OwnerPasses
    <2>4. CASE ~(source[s].sel # "none" /\ owner[source[s].sel] = s)
      <3>1. source[s].sel = "none" /\ \A u \in Clipboard!Types : owner[u] # s
        BY <1>1, <2>4 DEF Clipboard!SourceRecords, Clipboard!Types, Clipboard!None
      <3>2. source' = gone /\ UNCHANGED <<owner, device, clipLocked, copies>>
        BY <1>4, <2>2, <2>4 DEF Clipboard!DestroySource, Clipboard!None
      <3>3. r.sel = "none" /\ (r.resource /\ r.used => r.cancelled)
        BY <2>1, <3>1
      <3>4. source' = [source EXCEPT ![s] = r]
        BY <3>2
      <3> QED BY ONLY Clipboard!IInv, <2>1, <3>1, <3>2, <3>3, <3>4, SourceBecomes
    <2> QED BY <2>3, <2>4
  <1> QED BY <1>2, <1>3, <1>4 DEF Clipboard!SourceStep

(* A selection that is set or refused leaves each source with one use.      *)
LEMMA ClipSelectStep ==
  ASSUME Clipboard!IInv, NEW e \in ClipDevices, NEW t \in Clipboard!Types, NEW s \in ClipSources,
         Clipboard!SetSelection(e, t, s)
  PROVE  Clipboard!IInv'
  <1> USE ClipboardFacts
  <1>1. source[s] \in Clipboard!SourceRecords /\ device[e] \in Clipboard!DeviceRecords
    OBVIOUS
  <1>2. CASE clipLocked
    <2> DEFINE r == [source[s] EXCEPT !.cancelled = TRUE]
    <2>1. source' = [source EXCEPT ![s] = r] /\ UNCHANGED <<owner, device, clipLocked, copies>>
      BY <1>2 DEF Clipboard!SetSelection
    <2>2. /\ r \in Clipboard!SourceRecords /\ r.sel = source[s].sel /\ r.used = source[s].used
          /\ r.resource = source[s].resource /\ r.mimes = source[s].mimes
          /\ r.born = source[s].born /\ r.cancelled
      BY <1>1 DEF Clipboard!SourceRecords
    <2> HIDE DEF r
    <2>3. \A x \in ClipSources : source'[x] = IF x = s THEN r ELSE source[x]
      BY <2>1
    <2>4. source' \in [ClipSources -> Clipboard!SourceRecords]
      BY <2>1, <2>2
    <2>5. Clipboard!TypeOK'
      BY <2>1 DEF Clipboard!TypeOK, Clipboard!None, Clipboard!App
    <2>6. Clipboard!DevicesTold'
      BY <1>2, <2>1 DEF Clipboard!DevicesTold, Clipboard!Advertises, Clipboard!None
    <2>7. Clipboard!PointersLive'
      <3>1. \A x \in ClipSources, u \in Clipboard!Types :
              (source'[x].sel = u <=> owner[u] = x) /\ (owner[u] = x => source'[x].resource)
        BY <2>2, <2>3
      <3> QED BY <2>1, <3>1 DEF Clipboard!PointersLive, Clipboard!None
    <2>8. Clipboard!OwnersUsed'
      BY <2>2, <2>3 DEF Clipboard!OwnersUsed, Clipboard!None
    <2>9. Clipboard!ReplacedTold'
      BY <2>2, <2>3 DEF Clipboard!ReplacedTold, Clipboard!None
    <2> QED BY <2>1, <2>4, <2>5, <2>6, <2>7, <2>8, <2>9
            DEF Clipboard!IInv, Clipboard!ClipboardSound
  <1>3. CASE ~clipLocked
    <2> DEFINE r == [source[s] EXCEPT !.used = TRUE, !.sel = t]
               S == [source EXCEPT ![s] = r]
               D == [device EXCEPT ![e].tracked[t] = s]
    <2>1. /\ Clipboard!SetsOwner(t, s, S, D) /\ UNCHANGED <<clipLocked, copies>>
          /\ device[e].live /\ source[s].resource /\ ~source[s].used
      <3>1. S = [source EXCEPT ![s].used = TRUE, ![s].sel = t]
        OBVIOUS
      <3> HIDE DEF S, D
      <3>2. D = [device EXCEPT ![e].tracked[t] = s]
        BY DEF D
      <3> QED BY <1>3, <3>1, <3>2 DEF Clipboard!SetSelection
    <2>2. t \in Clipboard!Types /\ t # "none"
      BY DEF Clipboard!Types
    <2>3. r \in Clipboard!SourceRecords
      BY <1>1, <2>2 DEF Clipboard!SourceRecords
    <2>4. /\ r.sel = t /\ r.used /\ r.resource /\ r.mimes = source[s].mimes /\ r.born
          /\ source[s].sel = "none"
      BY <1>1, <2>1 DEF Clipboard!SourceRecords
    <2> HIDE DEF r
    <2>5. \A x \in ClipSources : S[x] = IF x = s THEN r ELSE source[x]
      OBVIOUS
    <2>6. S \in [ClipSources -> Clipboard!SourceRecords]
      BY <2>3
    <2>7. /\ D[e].live = device[e].live /\ D[e].told = device[e].told
          /\ \A u \in Clipboard!Types : D[e].tracked[u] = IF u = t THEN s ELSE device[e].tracked[u]
          /\ \A x \in ClipDevices : x # e => D[x] = device[x]
      BY <1>1 DEF Clipboard!DeviceRecords
    <2>8. D \in [ClipDevices -> Clipboard!DeviceRecords]
      <3> DEFINE x == [device[e].tracked EXCEPT ![t] = s]
                 y == [device[e] EXCEPT !.tracked = x]
      <3>1. x \in [Clipboard!Types -> ClipSources \cup {"none"}]
        BY <1>1 DEF Clipboard!DeviceRecords, Clipboard!None
      <3> HIDE DEF x
      <3>2. y \in Clipboard!DeviceRecords
        BY ONLY <1>1, <3>1 DEF Clipboard!DeviceRecords, Clipboard!None, Clipboard!App
      <3>3. D = [device EXCEPT ![e] = y]
        BY DEF x
      <3> HIDE DEF y, D
      <3> QED BY <3>2, <3>3
    <2> HIDE DEF S, D
    <2>9. \A u \in Clipboard!Types : owner[u] # s
      BY <2>2, <2>4 DEF Clipboard!Types
    <2>10. \A x \in ClipDevices, u \in Clipboard!Types :
             D[x].live /\ u # t =>
               /\ D[x].told[u] = Clipboard!Advertises(owner[u], S)
               /\ D[x].tracked[u] # "none" => D[x].tracked[u] = owner[u]
      <3> SUFFICES ASSUME NEW x \in ClipDevices, NEW u \in Clipboard!Types, D[x].live, u # t
                   PROVE  /\ D[x].told[u] = Clipboard!Advertises(owner[u], S)
                          /\ D[x].tracked[u] # "none" => D[x].tracked[u] = owner[u]
        OBVIOUS
      <3>1. Clipboard!Advertises(owner[u], S) = Clipboard!Advertises(owner[u], source)
        BY <2>5, <2>9 DEF Clipboard!Advertises
      <3>2. /\ device[x].live /\ D[x].told[u] = device[x].told[u]
            /\ D[x].tracked[u] = device[x].tracked[u]
        BY <2>7
      <3> QED BY <3>1, <3>2
    <2>11. \A x \in ClipSources, u \in Clipboard!Types :
             u # t => (S[x].sel = u <=> owner[u] = x) /\ (owner[u] = x => S[x].resource)
      BY <2>4, <2>5, <2>9
    <2>12. \A x \in ClipSources : S[x].sel = t <=> x = s \/ x = owner[t]
      BY <2>4, <2>5, <2>9
    <2>13. \A x \in ClipSources :
             /\ S[x].sel # "none" => S[x].used
             /\ S[x].used \/ S[x].resource => S[x].born
             /\ S[x].resource /\ S[x].used /\ S[x].sel = "none" => S[x].cancelled
      BY <2>2, <2>4, <2>5
    <2>14. /\ s \in ClipSources => s # owner[t] /\ S[s].resource
           /\ copies' \in 0 .. ClipChanges /\ s \in ClipSources \cup {"none", "app"}
      BY <2>1, <2>4, <2>5, <2>9
    <2> QED BY ONLY Clipboard!IInv, <2>1, <2>2, <2>6, <2>8, <2>10, <2>11, <2>12, <2>13, <2>14,
                    OwnerPasses
  <1> QED BY <1>2, <1>3

(* The clipboard passes to an application or to nobody: the sources are as  *)
(* they were, and the devices, but for what one set itself.                 *)
LEMMA OwnerLeaves ==
  ASSUME Clipboard!IInv, NEW t \in Clipboard!Types, NEW new \in {"none", "app"},
         NEW D \in [ClipDevices -> Clipboard!DeviceRecords],
         \A e \in ClipDevices, u \in Clipboard!Types :
           D[e].live /\ u # t => /\ D[e].told[u] = Clipboard!Advertises(owner[u], source)
                                 /\ D[e].tracked[u] # "none" => D[e].tracked[u] = owner[u],
         Clipboard!SetsOwner(t, new, source, D), UNCHANGED clipLocked, copies' \in 0 .. ClipChanges
  PROVE  Clipboard!IInv'
  <1> USE ClipboardFacts
  <1>1. \A s \in ClipSources, u \in Clipboard!Types :
          u # t => (source[s].sel = u <=> owner[u] = s) /\ (owner[u] = s => source[s].resource)
    OBVIOUS
  <1>2. \A s \in ClipSources : source[s].sel = t <=> s = new \/ s = owner[t]
    OBVIOUS
  <1>3. \A s \in ClipSources :
          /\ source[s].sel # "none" => source[s].used
          /\ source[s].used \/ source[s].resource => source[s].born
    OBVIOUS
  <1>4. \A s \in ClipSources :
          source[s].resource /\ source[s].used /\ source[s].sel = "none" => source[s].cancelled
    OBVIOUS
  <1>5. /\ new \in ClipSources \cup {"none", "app"}
        /\ (new \in ClipSources => new # owner[t] /\ source[new].resource)
        /\ source \in [ClipSources -> Clipboard!SourceRecords]
    OBVIOUS
  <1> QED BY ONLY Clipboard!IInv, <1>1, <1>2, <1>3, <1>4, <1>5, OwnerPasses,
                  t \in Clipboard!Types, D \in [ClipDevices -> Clipboard!DeviceRecords],
                  \A e \in ClipDevices, u \in Clipboard!Types :
                    D[e].live /\ u # t =>
                      /\ D[e].told[u] = Clipboard!Advertises(owner[u], source)
                      /\ D[e].tracked[u] # "none" => D[e].tracked[u] = owner[u],
                  Clipboard!SetsOwner(t, new, source, D), UNCHANGED clipLocked,
                  copies' \in 0 .. ClipChanges

(* A device that is made or destroyed, or clears a selection of its own.     *)
LEMMA ClipDeviceStep ==
  ASSUME Clipboard!IInv, NEW e \in ClipDevices,
         \/ Clipboard!GetDevice(e) \/ Clipboard!DestroyDevice(e)
         \/ \E t \in Clipboard!Types : Clipboard!ClearSelection(e, t)
  PROVE  Clipboard!IInv'
  <1> USE ClipboardFacts
  <1>1. device[e] \in Clipboard!DeviceRecords
    OBVIOUS
  <1>2. CASE Clipboard!GetDevice(e)
    <2> DEFINE told0 == [u \in Clipboard!Types |-> Clipboard!Advertises(owner[u], source)]
               new == [Clipboard!NewDevice EXCEPT !.born = TRUE, !.live = TRUE, !.told = told0]
               D == [device EXCEPT ![e] = new]
    <2>1. told0 \in [Clipboard!Types -> ClipSources \cup {"none", "app"}]
      BY DEF Clipboard!Advertises, Clipboard!None
    <2>2. device' = D /\ UNCHANGED <<owner, source, clipLocked, copies>>
      BY <1>2 DEF Clipboard!GetDevice
    <2> HIDE DEF told0
    <2>3. /\ new \in Clipboard!DeviceRecords /\ new.told = told0
          /\ \A u \in Clipboard!Types : new.tracked[u] = "none"
      BY <2>1 DEF Clipboard!NewDevice, Clipboard!DeviceRecords, Clipboard!None, Clipboard!App
    <2> HIDE DEF new
    <2>4. D \in [ClipDevices -> Clipboard!DeviceRecords]
      BY <2>3
    <2>5. \A x \in ClipDevices : D[x] = IF x = e THEN new ELSE device[x]
      OBVIOUS
    <2>6. ASSUME NEW u \in Clipboard!Types
          PROVE  Clipboard!Advertises(owner[u], source)' = Clipboard!Advertises(owner[u], source)
      BY <2>2 DEF Clipboard!Advertises
    <2> HIDE DEF D
    <2>7. \A x \in ClipDevices, u \in Clipboard!Types :
            D[x].live =>
              /\ D[x].told[u] = Clipboard!Advertises(owner[u], source)'
              /\ D[x].tracked[u] # "none" => D[x].tracked[u] = owner[u]
      BY <2>3, <2>5, <2>6 DEF told0
    <2>8. clipLocked' \in BOOLEAN /\ copies' \in 0 .. ClipChanges
      BY <2>2
    <2> QED BY ONLY Clipboard!IInv, <2>2, <2>4, <2>7, <2>8, DevicesBecome
  <1>3. CASE Clipboard!DestroyDevice(e)
    <2> DEFINE gone == [device[e] EXCEPT !.live = FALSE]
               D == [device EXCEPT ![e] = gone]
    <2>1. device' = D /\ UNCHANGED <<owner, source, clipLocked, copies>>
      BY <1>3 DEF Clipboard!DestroyDevice
    <2>2. gone \in Clipboard!DeviceRecords /\ ~gone.live
      BY <1>1 DEF Clipboard!DeviceRecords
    <2> HIDE DEF gone
    <2>3. D \in [ClipDevices -> Clipboard!DeviceRecords]
      BY <2>2
    <2>4. \A x \in ClipDevices : D[x] = IF x = e THEN gone ELSE device[x]
      OBVIOUS
    <2>5. ASSUME NEW u \in Clipboard!Types
          PROVE  Clipboard!Advertises(owner[u], source)' = Clipboard!Advertises(owner[u], source)
      BY <2>1 DEF Clipboard!Advertises
    <2> HIDE DEF D
    <2>6. \A x \in ClipDevices, u \in Clipboard!Types :
            D[x].live =>
              /\ D[x].told[u] = Clipboard!Advertises(owner[u], source)'
              /\ D[x].tracked[u] # "none" => D[x].tracked[u] = owner[u]
      BY <2>2, <2>4, <2>5
    <2>7. clipLocked' \in BOOLEAN /\ copies' \in 0 .. ClipChanges
      BY <2>1
    <2> QED BY ONLY Clipboard!IInv, <2>1, <2>3, <2>6, <2>7, DevicesBecome
  <1>4. ASSUME NEW t \in Clipboard!Types, Clipboard!ClearSelection(e, t)
        PROVE  Clipboard!IInv'
    <2> DEFINE x == [device[e].tracked EXCEPT ![t] = "none"]
               y == [device[e] EXCEPT !.tracked = x]
               D == [device EXCEPT ![e] = y]
    <2>1. D = [device EXCEPT ![e].tracked[t] = "none"]
      OBVIOUS
    <2>2. /\ UNCHANGED <<clipLocked, copies>> /\ device[e].live
          /\ \/ Clipboard!SetsOwner(t, "none", source, D)
             \/ device' = D /\ UNCHANGED <<owner, source>>
      <3> HIDE DEF D
      <3> QED BY <1>4, <2>1 DEF Clipboard!ClearSelection, Clipboard!None
    <2>3. /\ x \in [Clipboard!Types -> ClipSources \cup {"none"}]
          /\ \A u \in Clipboard!Types : x[u] = IF u = t THEN "none" ELSE device[e].tracked[u]
      BY <1>1 DEF Clipboard!DeviceRecords, Clipboard!None
    <2> HIDE DEF x
    <2>4. y \in Clipboard!DeviceRecords
      BY ONLY <1>1, <2>3 DEF Clipboard!DeviceRecords, Clipboard!None, Clipboard!App
    <2>5. y.tracked = x /\ y.told = device[e].told /\ y.live
      BY <1>1, <2>2 DEF Clipboard!DeviceRecords
    <2> HIDE DEF y
    <2>6. D \in [ClipDevices -> Clipboard!DeviceRecords]
      BY <2>4
    <2>7. \A z \in ClipDevices : D[z] = IF z = e THEN y ELSE device[z]
      OBVIOUS
    <2> HIDE DEF D
    <2>8. \A z \in ClipDevices, u \in Clipboard!Types :
            D[z].live =>
              /\ D[z].told[u] = Clipboard!Advertises(owner[u], source)
              /\ D[z].tracked[u] # "none" => D[z].tracked[u] = owner[u]
      BY <2>2, <2>3, <2>5, <2>7
    <2>9. clipLocked' \in BOOLEAN /\ copies' \in 0 .. ClipChanges
      BY <2>2
    <2>10. CASE Clipboard!SetsOwner(t, "none", source, D)
      <3>1. \A z \in ClipDevices, u \in Clipboard!Types :
              D[z].live /\ u # t =>
                /\ D[z].told[u] = Clipboard!Advertises(owner[u], source)
                /\ D[z].tracked[u] # "none" => D[z].tracked[u] = owner[u]
        BY <2>8
      <3> QED BY ONLY Clipboard!IInv, t \in Clipboard!Types, <2>2, <2>6, <2>9, <2>10, <3>1,
                      OwnerLeaves
    <2>11. CASE device' = D /\ UNCHANGED <<owner, source>>
      <3>1. ASSUME NEW u \in Clipboard!Types
            PROVE  Clipboard!Advertises(owner[u], source)' = Clipboard!Advertises(owner[u], source)
        BY <2>2, <2>11 DEF Clipboard!Advertises
      <3>2. \A z \in ClipDevices, u \in Clipboard!Types :
              D[z].live =>
                /\ D[z].told[u] = Clipboard!Advertises(owner[u], source)'
                /\ D[z].tracked[u] # "none" => D[z].tracked[u] = owner[u]
        BY <2>8, <3>1
      <3> QED BY ONLY Clipboard!IInv, <2>6, <2>9, <2>11, <3>2, DevicesBecome
    <2> QED BY <2>2, <2>10, <2>11
  <1> QED BY <1>2, <1>3, <1>4

(* A selection that changes is told to every device that may see it.        *)
LEMMA ClipChangeStep ==
  ASSUME Clipboard!IInv,
         \/ \E t \in Clipboard!Types : Clipboard!AppSets(t) \/ Clipboard!AppClears(t)
         \/ Clipboard!LockChanges
  PROVE  Clipboard!IInv'
  <1> USE ClipboardFacts
  <1>1. ASSUME NEW t \in Clipboard!Types, Clipboard!AppSets(t) \/ Clipboard!AppClears(t)
        PROVE  Clipboard!IInv'
    <2>1. /\ UNCHANGED clipLocked /\ copies' \in 0 .. ClipChanges
          /\ \E new \in {"none", "app"} : Clipboard!SetsOwner(t, new, source, device)
      BY <1>1 DEF Clipboard!AppSets, Clipboard!AppClears, Clipboard!Change, Clipboard!None,
                  Clipboard!App
    <2>2. \A e \in ClipDevices, u \in Clipboard!Types :
            device[e].live /\ u # t =>
              /\ device[e].told[u] = Clipboard!Advertises(owner[u], source)
              /\ device[e].tracked[u] # "none" => device[e].tracked[u] = owner[u]
      OBVIOUS
    <2> QED BY ONLY Clipboard!IInv, t \in Clipboard!Types, <2>1, <2>2, OwnerLeaves,
                    device \in [ClipDevices -> Clipboard!DeviceRecords]
  <1>2. CASE Clipboard!LockChanges
    <2> DEFINE silent == [u \in Clipboard!Types |-> "none"]
               heard(e) == IF clipLocked' THEN silent ELSE Clipboard!UnlockTells(e)
               D == [e \in ClipDevices |-> IF ~device[e].live THEN device[e]
                                           ELSE [device[e] EXCEPT !.told = heard(e)]]
    <2>1. /\ UNCHANGED <<owner, source>> /\ clipLocked' = ~clipLocked
          /\ copies' \in 0 .. ClipChanges /\ device' = D
      BY <1>2 DEF Clipboard!LockChanges, Clipboard!Change, Clipboard!None
    <2>2. ASSUME NEW e \in ClipDevices
          PROVE  /\ heard(e) \in [Clipboard!Types -> ClipSources \cup {"none", "app"}]
                 /\ \A u \in Clipboard!Types :
                      heard(e)[u] = Clipboard!Advertises(owner[u], source)'
      BY <2>1 DEF Clipboard!UnlockTells, Clipboard!Advertises, Clipboard!None
    <2> HIDE DEF heard
    <2>3. ASSUME NEW e \in ClipDevices, device[e].live
          PROVE  /\ D[e] \in Clipboard!DeviceRecords /\ D[e].tracked = device[e].tracked
                 /\ D[e].told = heard(e)
      <3>1. device[e] \in Clipboard!DeviceRecords /\ D[e] = [device[e] EXCEPT !.told = heard(e)]
        BY <2>3
      <3>2. heard(e) \in [Clipboard!Types -> ClipSources \cup {"none", "app"}]
        BY <2>2
      <3> HIDE DEF D
      <3> QED BY ONLY <3>1, <3>2 DEF Clipboard!DeviceRecords, Clipboard!None, Clipboard!App
    <2>4. D \in [ClipDevices -> Clipboard!DeviceRecords]
      BY <2>3
    <2>5. \A e \in ClipDevices : D[e].live => device[e].live
      OBVIOUS
    <2> HIDE DEF D
    <2>6. \A e \in ClipDevices, u \in Clipboard!Types :
            D[e].live =>
              /\ D[e].told[u] = Clipboard!Advertises(owner[u], source)'
              /\ D[e].tracked[u] # "none" => D[e].tracked[u] = owner[u]
      BY <2>2, <2>3, <2>5
    <2>7. clipLocked' \in BOOLEAN /\ copies' \in 0 .. ClipChanges
      BY <2>1
    <2> QED BY ONLY Clipboard!IInv, <2>1, <2>4, <2>6, <2>7, DevicesBecome
  <1> QED BY <1>1, <1>2

(* Every step of the data control keeps the invariant.                      *)
LEMMA ClipboardStep ==
  ASSUME Clipboard!IInv, Clipboard!Next \/ UNCHANGED clipboardVars
  PROVE  Clipboard!IInv'
  <1>1. CASE UNCHANGED clipboardVars
    <2> USE <1>1, ClipboardFacts DEF clipboardVars
    <2>1. \A u \in Clipboard!Types :
            Clipboard!Advertises(owner[u], source)' = Clipboard!Advertises(owner[u], source)
      BY DEF Clipboard!Advertises
    <2>2. \A e \in ClipDevices, u \in Clipboard!Types :
            device[e].live =>
              /\ device[e].told[u] = Clipboard!Advertises(owner[u], source)'
              /\ device[e].tracked[u] # "none" => device[e].tracked[u] = owner[u]
      BY <2>1
    <2>3. clipLocked' \in BOOLEAN /\ copies' \in 0 .. ClipChanges
      OBVIOUS
    <2> QED BY <2>2, <2>3, DevicesBecome
  <1>2. CASE Clipboard!Next
    BY <1>2, ClipSourceStep, ClipDeviceStep, ClipSelectStep, ClipChangeStep
    DEF Clipboard!Next, Clipboard!SourceStep, Clipboard!DeviceStep
  <1> QED BY <1>1, <1>2

-----------------------------------------------------------------------------
(* What taskbars see of the windows.                                        *)

(* No window is open and no client listens at first.                        *)
LEMMA ToplevelsInit == Toplevels!Init => Toplevels!IInv
  <1> SUFFICES ASSUME Toplevels!Init PROVE Toplevels!IInv
    OBVIOUS
  <1> USE DEF Toplevels!Init
  <1>1. TaskChanges \in Nat
    BY DesktopAssumption DEF Toplevels!ToplevelsAssumption
  <1>2. window \in [TaskWindows -> Toplevels!WindowRecords]
    BY DEF Toplevels!WindowRecords
  <1>3. handle \in [Toplevels!Clients -> [TaskWindows -> Toplevels!HandleRecords]]
    BY DEF Toplevels!HandleRecords, Toplevels!Absent
  <1>4. dock \in [Taskbars -> Toplevels!DockRecords]
    BY DEF Toplevels!DockRecords
  <1>5. manager \in [Toplevels!Clients -> Toplevels!Managers] /\ DOMAIN target = TaskWindows
        /\ topChanges \in 0 .. TaskChanges
    BY <1>1 DEF Toplevels!Managers
  <1>6. \A c \in Toplevels!Clients, w \in TaskWindows :
          Toplevels!HandleRight(c, handle[c][w], window[w], manager[c])
    BY DEF Toplevels!HandleRight, Toplevels!Absent
  <1>7. \A w \in TaskWindows : target[w] = Toplevels!NoTarget
    OBVIOUS
  <1> QED BY <1>2, <1>3, <1>4, <1>5, <1>6, <1>7 DEF Toplevels!IInv

(* What is announced is right of its window.                                *)
LEMMA AdvertisedRight ==
  ASSUME NEW c \in Toplevels!Clients, NEW w \in Toplevels!WindowRecords, w.open, w.was
  PROVE  LET h == Toplevels!Advertised(c, w)
         IN  h \in Toplevels!HandleRecords /\ Toplevels!HandleRight(c, h, w, "bound")
  <1> DEFINE h0 == [Toplevels!Absent EXCEPT !.made = TRUE, !.live = TRUE, !.win = TRUE, !.mgr = TRUE]
             h1 == [h0 EXCEPT !.title = w.title]
             h2 == [h1 EXCEPT !.state = w.state]
  <1>1. w.title \in {0, 1} /\ w.state \in {0, 1}
    BY DEF Toplevels!WindowRecords
  <1>2. /\ h0 \in Toplevels!HandleRecords /\ h0.live /\ h0.win /\ h0.made /\ h0.closed = 0
    BY DEF Toplevels!HandleRecords, Toplevels!Absent
  <1> HIDE DEF h0
  <1>3. /\ h1 \in Toplevels!HandleRecords /\ h1.live /\ h1.win /\ h1.made /\ h1.closed = 0
        /\ h1.title = w.title
    BY <1>1, <1>2 DEF Toplevels!HandleRecords
  <1>4. Toplevels!Advertised(c, w) = IF c \in Taskbars THEN h2 ELSE h1
    BY <1>2, <1>3 DEF Toplevels!Advertised, Toplevels!ToldTitle, Toplevels!ToldState, h0
  <1> HIDE DEF h1
  <1>5. /\ h2 \in Toplevels!HandleRecords /\ h2.live /\ h2.win /\ h2.made /\ h2.closed = 0
        /\ h2.title = w.title /\ h2.state = w.state
    BY <1>1, <1>3 DEF Toplevels!HandleRecords
  <1> HIDE DEF h2
  <1> QED BY <1>3, <1>4, <1>5 DEF Toplevels!HandleRight

(* A handle that is told of its window's title and state is right of them,  *)
(* and is otherwise as it was.                                              *)
LEMMA ToldRight ==
  ASSUME NEW c \in Toplevels!Clients, NEW h \in Toplevels!HandleRecords,
         NEW w \in Toplevels!WindowRecords, NEW v \in Toplevels!WindowRecords,
         NEW m, Toplevels!HandleRight(c, h, w, m), v.open = w.open, v.was = w.was,
         NEW k, \/ k = Toplevels!ToldTitle(h, v) /\ v.state = w.state
                \/ k = Toplevels!ToldState(h, v, c) /\ v.title = w.title
  PROVE  /\ k \in Toplevels!HandleRecords /\ Toplevels!HandleRight(c, k, v, m)
         /\ k.live = h.live /\ k.win = h.win /\ k.aims = h.aims
  <1>1. v.title \in {0, 1} /\ v.state \in {0, 1}
    BY DEF Toplevels!WindowRecords
  <1>2. CASE k = h /\ (h.win => v.title = w.title /\ c \notin Taskbars)
    BY <1>2 DEF Toplevels!HandleRight
  <1>5. CASE k = h /\ ~h.win
    BY <1>5 DEF Toplevels!HandleRight
  <1>3. CASE k = [h EXCEPT !.title = v.title] /\ h.win /\ v.state = w.state
    <2>1. k \in Toplevels!HandleRecords
      BY <1>1, <1>3 DEF Toplevels!HandleRecords
    <2>2. /\ k.live = h.live /\ k.win = h.win /\ k.aims = h.aims /\ k.made = h.made
          /\ k.mgr = h.mgr /\ k.closed = h.closed /\ k.state = h.state /\ k.title = v.title
      BY <1>3 DEF Toplevels!HandleRecords
    <2> QED BY <1>3, <2>1, <2>2 DEF Toplevels!HandleRight
  <1>4. CASE k = [h EXCEPT !.state = v.state] /\ h.win /\ c \in Taskbars /\ v.title = w.title
    <2>1. k \in Toplevels!HandleRecords
      BY <1>1, <1>4 DEF Toplevels!HandleRecords
    <2>2. /\ k.live = h.live /\ k.win = h.win /\ k.aims = h.aims /\ k.made = h.made
          /\ k.mgr = h.mgr /\ k.closed = h.closed /\ k.title = h.title /\ k.state = v.state
      BY <1>4 DEF Toplevels!HandleRecords
    <2> QED BY <1>4, <2>1, <2>2 DEF Toplevels!HandleRight
  <1> QED BY <1>2, <1>3, <1>4, <1>5 DEF Toplevels!ToldTitle, Toplevels!ToldState

(* A handle that loses its window, its manager, its target or its resource. *)
LEMMA HandleLoses ==
  ASSUME NEW h \in Toplevels!HandleRecords
  PROVE  /\ LET k == Toplevels!Aimless(h)
            IN  /\ k \in Toplevels!HandleRecords /\ ~k.aims /\ k.live = h.live /\ k.win = h.win
                /\ k.made = h.made /\ k.mgr = h.mgr /\ k.title = h.title /\ k.state = h.state
                /\ k.closed = h.closed
         /\ LET k == [h EXCEPT !.aims = TRUE]
            IN  /\ k \in Toplevels!HandleRecords /\ k.aims /\ k.live = h.live /\ k.win = h.win
                /\ k.made = h.made /\ k.mgr = h.mgr /\ k.title = h.title /\ k.state = h.state
                /\ k.closed = h.closed
         /\ LET k == Toplevels!Disconnected(h)
            IN  /\ k \in Toplevels!HandleRecords /\ ~k.aims /\ ~k.win /\ k.live = h.live
                /\ k.made = h.made /\ k.mgr = h.mgr /\ k.title = h.title /\ k.state = h.state
                /\ k.closed = h.closed
         /\ LET k == [Toplevels!Disconnected(h) EXCEPT !.live = FALSE]
            IN  /\ k \in Toplevels!HandleRecords /\ ~k.live /\ ~k.win /\ k.made = h.made
         /\ LET k == [h EXCEPT !.mgr = FALSE]
            IN  /\ k \in Toplevels!HandleRecords /\ ~k.mgr /\ k.live = h.live /\ k.win = h.win
                /\ k.made = h.made /\ k.aims = h.aims /\ k.title = h.title /\ k.state = h.state
                /\ k.closed = h.closed
         /\ h.closed = 0 =>
              LET k == [Toplevels!Disconnected(h) EXCEPT !.closed = @ + 1]
              IN  /\ k \in Toplevels!HandleRecords /\ ~k.win /\ k.live = h.live /\ k.made = h.made
                  /\ k.mgr = h.mgr /\ k.closed = 1
  <1> USE DEF Toplevels!HandleRecords, Toplevels!Disconnected, Toplevels!Aimless
  <1> DEFINE a == [h EXCEPT !.aims = FALSE]
  <1>1. /\ a \in Toplevels!HandleRecords /\ ~a.aims /\ a.live = h.live /\ a.win = h.win
        /\ a.made = h.made /\ a.mgr = h.mgr /\ a.title = h.title /\ a.state = h.state
        /\ a.closed = h.closed
    OBVIOUS
  <1>2. LET k == [h EXCEPT !.aims = TRUE]
        IN  /\ k \in Toplevels!HandleRecords /\ k.aims /\ k.live = h.live /\ k.win = h.win
            /\ k.made = h.made /\ k.mgr = h.mgr /\ k.title = h.title /\ k.state = h.state
            /\ k.closed = h.closed
    OBVIOUS
  <1>3. LET k == [h EXCEPT !.mgr = FALSE]
        IN  /\ k \in Toplevels!HandleRecords /\ ~k.mgr /\ k.live = h.live /\ k.win = h.win
            /\ k.made = h.made /\ k.aims = h.aims /\ k.title = h.title /\ k.state = h.state
            /\ k.closed = h.closed
    OBVIOUS
  <1>7. Toplevels!Aimless(h) = a
    OBVIOUS
  <1> HIDE DEF a, Toplevels!Aimless
  <1> DEFINE d0 == [a EXCEPT !.win = FALSE]
  <1>4. /\ d0 \in Toplevels!HandleRecords /\ ~d0.aims /\ ~d0.win /\ d0.live = h.live
        /\ d0.made = h.made /\ d0.mgr = h.mgr /\ d0.title = h.title /\ d0.state = h.state
        /\ d0.closed = h.closed
    BY <1>1
  <1>8. Toplevels!Disconnected(h) = d0
    BY <1>7
  <1> HIDE DEF d0, Toplevels!Disconnected
  <1>5. LET k == [d0 EXCEPT !.live = FALSE]
        IN  /\ k \in Toplevels!HandleRecords /\ ~k.live /\ ~k.win /\ k.made = h.made
    BY <1>4
  <1>6. h.closed = 0 =>
          LET k == [d0 EXCEPT !.closed = @ + 1]
          IN  /\ k \in Toplevels!HandleRecords /\ ~k.win /\ k.live = h.live /\ k.made = h.made
              /\ k.mgr = h.mgr /\ k.closed = 1
    <2> SUFFICES ASSUME h.closed = 0
                 PROVE  LET k == [d0 EXCEPT !.closed = 1]
                        IN  /\ k \in Toplevels!HandleRecords /\ ~k.win /\ k.live = h.live
                            /\ k.made = h.made /\ k.mgr = h.mgr /\ k.closed = 1
      BY <1>4
    <2> QED BY <1>4
  <1> QED BY <1>1, <1>2, <1>3, <1>4, <1>5, <1>6, <1>7, <1>8

(* The minimise target of a window.                                         *)
LEMMA TargetSteps ==
  ASSUME NEW c \in Taskbars, NEW h \in Toplevels!HandleRecords, NEW t
  PROVE  /\ t = Toplevels!NoTarget =>
              /\ \A s : Toplevels!Update(t, h, c, s) = t
              /\ Toplevels!Clear(t, h, c) = t
         /\ \A o \in Taskbars, k \in Toplevels!HandleRecords, s \in Toplevels!DockRecords :
              Toplevels!AimedAt(t, o, k, s) /\ (o = c => k = h) =>
                /\ Toplevels!Clear(t, h, c) = IF o = c THEN Toplevels!NoTarget ELSE t
                /\ \A s2 \in Toplevels!DockRecords :
                     s2.alive => LET u == Toplevels!Update(t, h, c, s2)
                                 IN  IF o = c THEN Toplevels!AimedAt(u, c, h, s2) ELSE u = t
  <1>1. "none" \notin Taskbars
    BY DesktopAssumption DEF Toplevels!ToplevelsAssumption, Toplevels!None
  <1>2. ASSUME t = Toplevels!NoTarget
        PROVE  /\ \A s : Toplevels!Update(t, h, c, s) = t
               /\ Toplevels!Clear(t, h, c) = t
    BY <1>1, <1>2 DEF Toplevels!Update, Toplevels!Clear, Toplevels!NoTarget, Toplevels!None
  <1>3. ASSUME NEW o \in Taskbars, NEW k \in Toplevels!HandleRecords,
               NEW s \in Toplevels!DockRecords,
               Toplevels!AimedAt(t, o, k, s), o = c => k = h
        PROVE  /\ Toplevels!Clear(t, h, c) = IF o = c THEN Toplevels!NoTarget ELSE t
               /\ \A s2 \in Toplevels!DockRecords :
                    s2.alive => LET u == Toplevels!Update(t, h, c, s2)
                                IN  IF o = c THEN Toplevels!AimedAt(u, c, h, s2) ELSE u = t
    <2>1. t.owner = o
      BY <1>3 DEF Toplevels!AimedAt
    <2>2. Toplevels!Clear(t, h, c) = IF o = c THEN Toplevels!NoTarget ELSE t
      BY <1>3, <2>1 DEF Toplevels!Clear, Toplevels!AimedAt
    <2>3. ASSUME NEW s2 \in Toplevels!DockRecords, s2.alive, o = c
          PROVE  Toplevels!AimedAt(Toplevels!Update(t, h, c, s2), c, h, s2)
      <3>1. Toplevels!Update(t, h, c, s2)
              = [t EXCEPT !.icon = IF s2.mapped THEN <<c, s2.at>> ELSE "none"]
        BY <1>3, <2>1, <2>3 DEF Toplevels!Update, Toplevels!AimedAt, Toplevels!None
      <3> QED BY <1>3, <2>3, <3>1 DEF Toplevels!AimedAt, Toplevels!None
    <2>4. ASSUME NEW s2 \in Toplevels!DockRecords, o # c
          PROVE  Toplevels!Update(t, h, c, s2) = t
      BY <2>1, <2>4 DEF Toplevels!Update
    <2> QED BY <2>2, <2>3, <2>4
  <1> QED BY <1>2, <1>3

(* What the invariant says.                                                 *)
LEMMA ToplevelsFacts ==
  ASSUME Toplevels!IInv
  PROVE  /\ window \in [TaskWindows -> Toplevels!WindowRecords]
         /\ manager \in [Toplevels!Clients -> Toplevels!Managers]
         /\ handle \in [Toplevels!Clients -> [TaskWindows -> Toplevels!HandleRecords]]
         /\ dock \in [Taskbars -> Toplevels!DockRecords]
         /\ DOMAIN target = TaskWindows /\ topChanges \in 0 .. TaskChanges /\ TaskChanges \in Nat
         /\ \A w \in TaskWindows : window[w].open => window[w].was
         /\ \A c \in Toplevels!Clients, w \in TaskWindows :
              Toplevels!HandleRight(c, handle[c][w], window[w], manager[c])
         /\ \A w \in TaskWindows :
              \/ target[w] = Toplevels!NoTarget
              \/ \E o \in Taskbars : Toplevels!AimedAt(target[w], o, handle[o][w], dock[o])
         /\ Taskbars \subseteq Toplevels!Clients
  BY DesktopAssumption DEF Toplevels!IInv, Toplevels!ToplevelsAssumption, Toplevels!Clients

(* A step after which every handle is right and every target aimed.         *)
LEMMA ToplevelsBecome ==
  ASSUME window' \in [TaskWindows -> Toplevels!WindowRecords],
         manager' \in [Toplevels!Clients -> Toplevels!Managers],
         handle' \in [Toplevels!Clients -> [TaskWindows -> Toplevels!HandleRecords]],
         dock' \in [Taskbars -> Toplevels!DockRecords],
         DOMAIN target' = TaskWindows, topChanges' \in 0 .. TaskChanges,
         \A w \in TaskWindows : window'[w].open => window'[w].was,
         \A c \in Toplevels!Clients, w \in TaskWindows :
           Toplevels!HandleRight(c, handle'[c][w], window'[w], manager'[c]),
         \A w \in TaskWindows :
           \/ target'[w] = Toplevels!NoTarget
           \/ \E o \in Taskbars : Toplevels!AimedAt(target'[w], o, handle'[o][w], dock'[o])
  PROVE  Toplevels!IInv'
  BY DEF Toplevels!IInv, Toplevels!HandleRight, Toplevels!AimedAt, Toplevels!NoTarget

(* A step that leaves the targets and the docks, and every handle that aims. *)
LEMMA TargetsStay ==
  ASSUME Toplevels!IInv, UNCHANGED <<target, dock>>,
         \A o \in Taskbars, w \in TaskWindows :
           Toplevels!AimedAt(target[w], o, handle[o][w], dock[o]) =>
             handle'[o][w].live /\ handle'[o][w].win /\ handle'[o][w].aims
  PROVE  \A w \in TaskWindows :
           \/ target'[w] = Toplevels!NoTarget
           \/ \E o \in Taskbars : Toplevels!AimedAt(target'[w], o, handle'[o][w], dock'[o])
  BY ToplevelsFacts DEF Toplevels!AimedAt

(* A manager that binds is given a handle for every open window.            *)
LEMMA BindStep ==
  ASSUME Toplevels!IInv, NEW c \in Toplevels!Clients, Toplevels!Bind(c)
  PROVE  Toplevels!IInv'
  <1> USE ToplevelsFacts
  <1>1. /\ manager[c] = "unbound" /\ manager' = [manager EXCEPT ![c] = "bound"]
        /\ handle' = [handle EXCEPT ![c] =
             [w \in TaskWindows |-> IF window[w].open THEN Toplevels!Advertised(c, window[w])
                                    ELSE handle[c][w]]]
        /\ UNCHANGED <<window, dock, target, crashed, topChanges>>
    BY DEF Toplevels!Bind
  <1>2. ASSUME NEW w \in TaskWindows
        PROVE  ~handle[c][w].live /\ ~handle[c][w].win
    BY <1>1 DEF Toplevels!HandleRight
  <1>3. ASSUME NEW w \in TaskWindows
        PROVE  /\ handle'[c][w] \in Toplevels!HandleRecords
               /\ Toplevels!HandleRight(c, handle'[c][w], window[w], "bound")
    <2>1. CASE window[w].open
      <3>1. window[w] \in Toplevels!WindowRecords /\ window[w].was
        BY <2>1
      <3>2. handle'[c][w] = Toplevels!Advertised(c, window[w])
        BY <1>1, <2>1
      <3> QED BY <2>1, <3>1, <3>2, AdvertisedRight
    <2>2. CASE ~window[w].open
      <3>1. handle'[c][w] = handle[c][w]
        BY <1>1, <2>2
      <3> QED BY <1>2, <2>2, <3>1 DEF Toplevels!HandleRight
    <2> QED BY <2>1, <2>2
  <1>4. \A e \in Toplevels!Clients : e # c => handle'[e] = handle[e] /\ manager'[e] = manager[e]
    BY <1>1
  <1>5. handle' \in [Toplevels!Clients -> [TaskWindows -> Toplevels!HandleRecords]]
    <2> DEFINE H == [w \in TaskWindows |-> IF window[w].open THEN Toplevels!Advertised(c, window[w])
                                           ELSE handle[c][w]]
    <2>1. handle'[c] = H /\ handle' = [handle EXCEPT ![c] = H]
      BY <1>1
    <2>2. \A w \in TaskWindows : H[w] \in Toplevels!HandleRecords
      BY <1>3, <2>1
    <2>3. H \in [TaskWindows -> Toplevels!HandleRecords]
      BY <2>2
    <2> HIDE DEF H
    <2> QED BY <2>1, <2>3
  <1>6. manager' \in [Toplevels!Clients -> Toplevels!Managers] /\ manager'[c] = "bound"
    BY <1>1 DEF Toplevels!Managers
  <1>7. \A e \in Toplevels!Clients, w \in TaskWindows :
          Toplevels!HandleRight(e, handle'[e][w], window'[w], manager'[e])
    BY <1>1, <1>3, <1>4, <1>6
  <1>8. \A o \in Taskbars, w \in TaskWindows :
          Toplevels!AimedAt(target[w], o, handle[o][w], dock[o]) =>
            handle'[o][w].live /\ handle'[o][w].win /\ handle'[o][w].aims
    BY <1>2, <1>4 DEF Toplevels!AimedAt
  <1>9. \A w \in TaskWindows :
          \/ target'[w] = Toplevels!NoTarget
          \/ \E o \in Taskbars : Toplevels!AimedAt(target'[w], o, handle'[o][w], dock'[o])
    BY ONLY Toplevels!IInv, <1>1, <1>8, TargetsStay
  <1>10. /\ window' \in [TaskWindows -> Toplevels!WindowRecords] /\ DOMAIN target' = TaskWindows
         /\ dock' \in [Taskbars -> Toplevels!DockRecords] /\ topChanges' \in 0 .. TaskChanges
         /\ \A w \in TaskWindows : window'[w].open => window'[w].was
    BY <1>1
  <1> QED BY ONLY <1>5, <1>6, <1>7, <1>9, <1>10, ToplevelsBecome

(* A window that opens is announced to every manager that listens.          *)
LEMMA CreateStep ==
  ASSUME Toplevels!IInv, NEW w \in TaskWindows, Toplevels!Create(w)
  PROVE  Toplevels!IInv'
  <1> USE ToplevelsFacts
  <1> DEFINE v == [window[w] EXCEPT !.open = TRUE, !.was = TRUE]
  <1>1. /\ ~window[w].open /\ ~window[w].was
        /\ UNCHANGED <<manager, dock, target, crashed, topChanges>>
        /\ handle' = [c \in Toplevels!Clients |->
             IF manager[c] = "bound"
             THEN [handle[c] EXCEPT ![w] = Toplevels!Advertised(c, window[w])]
             ELSE handle[c]]
    BY DEF Toplevels!Create, Toplevels!CreateTells
  <1>2. window' = [window EXCEPT ![w] = v]
    BY DEF Toplevels!Create
  <1>3. /\ v \in Toplevels!WindowRecords /\ v.open /\ v.was /\ v.title = window[w].title
        /\ v.state = window[w].state
    <2>1. window[w] \in Toplevels!WindowRecords
      OBVIOUS
    <2> QED BY ONLY <2>1 DEF Toplevels!WindowRecords
  <1> HIDE DEF v
  <1>4. \A x \in TaskWindows : window'[x] = IF x = w THEN v ELSE window[x]
    BY <1>2
  <1>5. window' \in [TaskWindows -> Toplevels!WindowRecords]
    BY <1>2, <1>3
  <1>6. ASSUME NEW c \in Toplevels!Clients
        PROVE  ~handle[c][w].live /\ ~handle[c][w].win
    BY <1>1 DEF Toplevels!HandleRight
  <1>7. ASSUME NEW c \in Toplevels!Clients
        PROVE  /\ handle'[c][w] \in Toplevels!HandleRecords
               /\ Toplevels!HandleRight(c, handle'[c][w], v, manager[c])
               /\ \A x \in TaskWindows : x # w => handle'[c][x] = handle[c][x]
               /\ handle'[c] \in [TaskWindows -> Toplevels!HandleRecords]
    <2>1. CASE manager[c] = "bound"
      <3>1. /\ Toplevels!Advertised(c, v) \in Toplevels!HandleRecords
            /\ Toplevels!HandleRight(c, Toplevels!Advertised(c, v), v, "bound")
        BY <1>3, AdvertisedRight
      <3>2. Toplevels!Advertised(c, window[w]) = Toplevels!Advertised(c, v)
        BY <1>3 DEF Toplevels!Advertised, Toplevels!ToldTitle, Toplevels!ToldState
      <3>3. handle'[c] = [handle[c] EXCEPT ![w] = Toplevels!Advertised(c, v)]
        BY <1>1, <2>1, <3>2
      <3>4. handle[c] \in [TaskWindows -> Toplevels!HandleRecords]
        OBVIOUS
      <3> QED BY <2>1, <3>1, <3>3, <3>4
    <2>2. CASE manager[c] # "bound"
      <3>1. handle'[c] = handle[c]
        BY <1>1, <2>2
      <3>2. Toplevels!HandleRight(c, handle[c][w], v, manager[c])
        BY <1>6, <2>2 DEF Toplevels!HandleRight
      <3> QED BY <3>1, <3>2
    <2> QED BY <2>1, <2>2
  <1>8. handle' \in [Toplevels!Clients -> [TaskWindows -> Toplevels!HandleRecords]]
    BY <1>1, <1>7
  <1>9. \A c \in Toplevels!Clients, x \in TaskWindows :
          Toplevels!HandleRight(c, handle'[c][x], window'[x], manager'[c])
    BY <1>1, <1>4, <1>7
  <1>10. \A o \in Taskbars, x \in TaskWindows :
           Toplevels!AimedAt(target[x], o, handle[o][x], dock[o]) =>
             handle'[o][x].live /\ handle'[o][x].win /\ handle'[o][x].aims
    BY <1>6, <1>7 DEF Toplevels!AimedAt
  <1>11. \A x \in TaskWindows :
           \/ target'[x] = Toplevels!NoTarget
           \/ \E o \in Taskbars : Toplevels!AimedAt(target'[x], o, handle'[o][x], dock'[o])
    BY ONLY Toplevels!IInv, <1>1, <1>10, TargetsStay
  <1>12. /\ manager' \in [Toplevels!Clients -> Toplevels!Managers] /\ DOMAIN target' = TaskWindows
         /\ dock' \in [Taskbars -> Toplevels!DockRecords] /\ topChanges' \in 0 .. TaskChanges
         /\ \A x \in TaskWindows : window'[x].open => window'[x].was
    BY <1>1, <1>3, <1>4
  <1> QED BY ONLY <1>5, <1>8, <1>9, <1>11, <1>12, ToplevelsBecome

(* A window that closes closes its handles and drops its icon target.       *)
LEMMA UnmanageStep ==
  ASSUME Toplevels!IInv, NEW w \in TaskWindows, Toplevels!Unmanage(w)
  PROVE  Toplevels!IInv'
  <1> USE ToplevelsFacts
  <1> DEFINE v == [window[w] EXCEPT !.open = FALSE]
  <1>1. /\ window[w].open /\ UNCHANGED <<manager, dock, crashed, topChanges>>
        /\ handle' = [c \in Toplevels!Clients |->
             [handle[c] EXCEPT ![w] = Toplevels!Closed(handle[c][w])]]
        /\ target' = [target EXCEPT ![w] =
             IF target[w].owner # "none"
             THEN Toplevels!Clear(target[w], handle[target[w].owner][w], target[w].owner)
             ELSE target[w]]
    BY DEF Toplevels!Unmanage, Toplevels!None
  <1>2. window' = [window EXCEPT ![w] = v]
    BY DEF Toplevels!Unmanage
  <1>3. /\ v \in Toplevels!WindowRecords /\ ~v.open /\ v.was = window[w].was
    <2>1. window[w] \in Toplevels!WindowRecords
      OBVIOUS
    <2> QED BY ONLY <2>1 DEF Toplevels!WindowRecords
  <1> HIDE DEF v
  <1>4. \A x \in TaskWindows : window'[x] = IF x = w THEN v ELSE window[x]
    BY <1>2
  <1>5. window' \in [TaskWindows -> Toplevels!WindowRecords]
    BY <1>2, <1>3
  <1>6. ASSUME NEW c \in Toplevels!Clients
        PROVE  /\ Toplevels!Closed(handle[c][w]) \in Toplevels!HandleRecords
               /\ Toplevels!HandleRight(c, Toplevels!Closed(handle[c][w]), v, manager[c])
    <2> DEFINE h == handle[c][w]
    <2>1. h \in Toplevels!HandleRecords /\ Toplevels!HandleRight(c, h, window[w], manager[c])
      OBVIOUS
    <2> HIDE DEF h
    <2>2. CASE h.live /\ h.win
      <3>1. h.closed = 0
        BY <1>1, <2>1, <2>2 DEF Toplevels!HandleRight
      <3> DEFINE k == [Toplevels!Disconnected(h) EXCEPT !.closed = @ + 1]
      <3>2. /\ k \in Toplevels!HandleRecords /\ ~k.win /\ k.live = h.live /\ k.made = h.made
            /\ k.mgr = h.mgr /\ k.closed = 1
        BY <2>1, <3>1, HandleLoses
      <3>3. Toplevels!Closed(h) = k
        BY <2>2 DEF Toplevels!Closed
      <3> HIDE DEF k
      <3>4. Toplevels!HandleRight(c, k, v, manager[c])
        BY <1>1, <1>3, <2>1, <3>2 DEF Toplevels!HandleRight
      <3> QED BY <3>2, <3>3, <3>4 DEF h
    <2>3. CASE ~(h.live /\ h.win)
      <3>1. Toplevels!Closed(h) = h /\ ~h.live /\ ~h.win
        BY <1>1, <2>1, <2>3 DEF Toplevels!Closed, Toplevels!HandleRight
      <3>2. Toplevels!HandleRight(c, h, v, manager[c])
        BY <1>3, <3>1 DEF Toplevels!HandleRight
      <3> QED BY <2>1, <3>1, <3>2 DEF h
    <2> QED BY <2>2, <2>3
  <1>7. ASSUME NEW c \in Toplevels!Clients
        PROVE  /\ handle'[c][w] = Toplevels!Closed(handle[c][w])
               /\ \A x \in TaskWindows : x # w => handle'[c][x] = handle[c][x]
               /\ handle'[c] \in [TaskWindows -> Toplevels!HandleRecords]
    BY <1>1, <1>6
  <1>8. handle' \in [Toplevels!Clients -> [TaskWindows -> Toplevels!HandleRecords]]
    BY <1>1, <1>7
  <1>9. \A c \in Toplevels!Clients, x \in TaskWindows :
          Toplevels!HandleRight(c, handle'[c][x], window'[x], manager'[c])
    BY <1>1, <1>4, <1>6, <1>7
  <1>10. target'[w] = Toplevels!NoTarget
    <2>1. CASE target[w] = Toplevels!NoTarget
      BY <1>1, <2>1 DEF Toplevels!NoTarget, Toplevels!None
    <2>2. ASSUME NEW o \in Taskbars, Toplevels!AimedAt(target[w], o, handle[o][w], dock[o])
          PROVE  target'[w] = Toplevels!NoTarget
      <3>1. target[w].owner = o /\ o # "none"
        BY <2>2, DesktopAssumption
        DEF Toplevels!AimedAt, Toplevels!ToplevelsAssumption, Toplevels!None
      <3>2. Toplevels!Clear(target[w], handle[o][w], o) = Toplevels!NoTarget
        BY <2>2, TargetSteps
      <3> QED BY <1>1, <3>1, <3>2
    <2> QED BY <2>1, <2>2
  <1>11. ASSUME NEW x \in TaskWindows
         PROVE  \/ target'[x] = Toplevels!NoTarget
                \/ \E o \in Taskbars : Toplevels!AimedAt(target'[x], o, handle'[o][x], dock'[o])
    <2>1. x # w => target'[x] = target[x] /\ \A o \in Taskbars : handle'[o][x] = handle[o][x]
      BY <1>1, <1>7
    <2>2. dock' = dock
      BY <1>1
    <2> QED BY <1>10, <2>1, <2>2
  <1>12. /\ manager' \in [Toplevels!Clients -> Toplevels!Managers] /\ DOMAIN target' = TaskWindows
         /\ dock' \in [Taskbars -> Toplevels!DockRecords] /\ topChanges' \in 0 .. TaskChanges
         /\ \A x \in TaskWindows : window'[x].open => window'[x].was
    BY <1>1, <1>3, <1>4
  <1> QED BY ONLY <1>5, <1>8, <1>9, <1>11, <1>12, ToplevelsBecome

(* A window's title or state changes, and its handles are told of it.       *)
LEMMA TellStep ==
  ASSUME Toplevels!IInv, NEW w \in TaskWindows, window[w].open, NEW v \in Toplevels!WindowRecords,
         v.open = window[w].open, v.was = window[w].was,
         window' = [window EXCEPT ![w] = v],
         NEW K \in [Toplevels!Clients -> [TaskWindows -> Toplevels!HandleRecords]], handle' = K,
         \A c \in Toplevels!Clients :
           /\ \A x \in TaskWindows : x # w => K[c][x] = handle[c][x]
           /\ \/ K[c][w] = Toplevels!ToldTitle(handle[c][w], v) /\ v.state = window[w].state
              \/ K[c][w] = Toplevels!ToldState(handle[c][w], v, c) /\ v.title = window[w].title,
         UNCHANGED <<manager, dock, target>>, topChanges' \in 0 .. TaskChanges
  PROVE  Toplevels!IInv'
  <1> USE ToplevelsFacts
  <1>1. \A x \in TaskWindows : window'[x] = IF x = w THEN v ELSE window[x]
    OBVIOUS
  <1>2. ASSUME NEW c \in Toplevels!Clients
        PROVE  /\ Toplevels!HandleRight(c, K[c][w], v, manager[c])
               /\ K[c][w].live = handle[c][w].live /\ K[c][w].win = handle[c][w].win
               /\ K[c][w].aims = handle[c][w].aims
    <2>1. /\ handle[c][w] \in Toplevels!HandleRecords /\ window[w] \in Toplevels!WindowRecords
          /\ Toplevels!HandleRight(c, handle[c][w], window[w], manager[c])
      OBVIOUS
    <2>2. \/ K[c][w] = Toplevels!ToldTitle(handle[c][w], v) /\ v.state = window[w].state
          \/ K[c][w] = Toplevels!ToldState(handle[c][w], v, c) /\ v.title = window[w].title
      OBVIOUS
    <2>3. v.open = window[w].open /\ v.was = window[w].was /\ v \in Toplevels!WindowRecords
      OBVIOUS
    <2> DEFINE h == handle[c][w]
               k == K[c][w]
               u == window[w]
               m == manager[c]
    <2> HIDE DEF h, k, u, m
    <2>4. /\ Toplevels!HandleRight(c, k, v, m) /\ k.live = h.live /\ k.win = h.win
          /\ k.aims = h.aims
      <3>1. /\ h \in Toplevels!HandleRecords /\ u \in Toplevels!WindowRecords
            /\ Toplevels!HandleRight(c, h, u, m)
        BY <2>1 DEF h, u, m
      <3>2. \/ k = Toplevels!ToldTitle(h, v) /\ v.state = u.state
            \/ k = Toplevels!ToldState(h, v, c) /\ v.title = u.title
        BY <2>2 DEF h, k, u
      <3>3. v.open = u.open /\ v.was = u.was
        BY <2>3 DEF u
      <3> QED BY ONLY <2>3, <3>1, <3>2, <3>3, ToldRight, c \in Toplevels!Clients
    <2> QED BY <2>4 DEF h, k, m
  <1>3. \A c \in Toplevels!Clients, x \in TaskWindows :
          Toplevels!HandleRight(c, handle'[c][x], window'[x], manager'[c])
    BY <1>1, <1>2
  <1>4. \A o \in Taskbars, x \in TaskWindows :
          Toplevels!AimedAt(target[x], o, handle[o][x], dock[o]) =>
            handle'[o][x].live /\ handle'[o][x].win /\ handle'[o][x].aims
    <2> SUFFICES ASSUME NEW o \in Taskbars, NEW x \in TaskWindows,
                        Toplevels!AimedAt(target[x], o, handle[o][x], dock[o])
                 PROVE  K[o][x].live /\ K[o][x].win /\ K[o][x].aims
      OBVIOUS
    <2>1. handle[o][x].live /\ handle[o][x].win /\ handle[o][x].aims
      BY DEF Toplevels!AimedAt
    <2>2. CASE x = w
      BY <1>2, <2>1, <2>2
    <2>3. CASE x # w
      BY <2>1, <2>3
    <2> QED BY <2>2, <2>3
  <1>5. \A x \in TaskWindows :
          \/ target'[x] = Toplevels!NoTarget
          \/ \E o \in Taskbars : Toplevels!AimedAt(target'[x], o, handle'[o][x], dock'[o])
    BY ONLY Toplevels!IInv, <1>4, TargetsStay, UNCHANGED <<manager, dock, target>>
  <1>6. /\ window' \in [TaskWindows -> Toplevels!WindowRecords] /\ DOMAIN target' = TaskWindows
        /\ handle' \in [Toplevels!Clients -> [TaskWindows -> Toplevels!HandleRecords]]
        /\ dock' \in [Taskbars -> Toplevels!DockRecords] /\ topChanges' \in 0 .. TaskChanges
        /\ manager' \in [Toplevels!Clients -> Toplevels!Managers]
    OBVIOUS
  <1>7. \A x \in TaskWindows : window'[x].open => window'[x].was
    BY <1>1
  <1> QED BY ONLY <1>3, <1>5, <1>6, <1>7, ToplevelsBecome

(* A title that changes is told on every live handle.                       *)
LEMMA TitleStep ==
  ASSUME Toplevels!IInv, NEW w \in TaskWindows, Toplevels!SetTitle(w)
  PROVE  Toplevels!IInv'
  <1> USE ToplevelsFacts
  <1> DEFINE v == [window[w] EXCEPT !.title = 1 - @]
             K == [c \in Toplevels!Clients |->
                     [handle[c] EXCEPT ![w] = Toplevels!ToldTitle(handle[c][w], v)]]
  <1>1. window[w].open /\ window' = [window EXCEPT ![w] = v] /\ UNCHANGED <<manager, dock, target>>
    BY DEF Toplevels!SetTitle
  <1>2. topChanges' \in 0 .. TaskChanges
    BY DEF Toplevels!SetTitle, Toplevels!Change
  <1>3. window[w] \in Toplevels!WindowRecords
    OBVIOUS
  <1>4. /\ v \in Toplevels!WindowRecords /\ v.open = window[w].open /\ v.was = window[w].was
        /\ v.state = window[w].state
    <2>1. 1 - window[w].title \in {0, 1}
      BY <1>3 DEF Toplevels!WindowRecords
    <2> QED BY ONLY <1>3, <2>1 DEF Toplevels!WindowRecords
  <1> HIDE DEF v
  <1>5. window'[w] = v
    BY <1>1
  <1>6. handle' = K
    BY <1>5 DEF Toplevels!SetTitle
  <1>7. ASSUME NEW c \in Toplevels!Clients
        PROVE  /\ K[c] \in [TaskWindows -> Toplevels!HandleRecords]
               /\ K[c][w] = Toplevels!ToldTitle(handle[c][w], v)
               /\ \A x \in TaskWindows : x # w => K[c][x] = handle[c][x]
    <2>1. /\ handle[c][w] \in Toplevels!HandleRecords
          /\ Toplevels!HandleRight(c, handle[c][w], window[w], manager[c])
      OBVIOUS
    <2>2. Toplevels!ToldTitle(handle[c][w], v) \in Toplevels!HandleRecords
      BY ONLY <1>3, <1>4, <2>1, ToldRight, c \in Toplevels!Clients
    <2>3. K[c] = [handle[c] EXCEPT ![w] = Toplevels!ToldTitle(handle[c][w], v)]
          /\ handle[c] \in [TaskWindows -> Toplevels!HandleRecords]
      OBVIOUS
    <2> HIDE DEF K
    <2> QED BY <2>2, <2>3
  <1>8. K \in [Toplevels!Clients -> [TaskWindows -> Toplevels!HandleRecords]]
    BY <1>7
  <1> HIDE DEF K
  <1> QED BY ONLY Toplevels!IInv, w \in TaskWindows, <1>1, <1>2, <1>4, <1>6, <1>7, <1>8, TellStep

(* A state that changes is told on every handle that controls.              *)
LEMMA StateStep ==
  ASSUME Toplevels!IInv, NEW w \in TaskWindows, window[w].open, Toplevels!StateChanges(w),
         topChanges' \in 0 .. TaskChanges
  PROVE  Toplevels!IInv'
  <1> USE ToplevelsFacts
  <1> DEFINE v == [window[w] EXCEPT !.state = 1 - @]
             K == [c \in Toplevels!Clients |->
                     [handle[c] EXCEPT ![w] = Toplevels!ToldState(handle[c][w], v, c)]]
  <1>1. window' = [window EXCEPT ![w] = v] /\ UNCHANGED <<manager, dock, target>>
    BY DEF Toplevels!StateChanges
  <1>3. window[w] \in Toplevels!WindowRecords
    OBVIOUS
  <1>4. /\ v \in Toplevels!WindowRecords /\ v.open = window[w].open /\ v.was = window[w].was
        /\ v.title = window[w].title
    <2>1. 1 - window[w].state \in {0, 1}
      BY <1>3 DEF Toplevels!WindowRecords
    <2> QED BY ONLY <1>3, <2>1 DEF Toplevels!WindowRecords
  <1> HIDE DEF v
  <1>5. window'[w] = v
    BY <1>1
  <1>6. handle' = K
    BY <1>5 DEF Toplevels!StateChanges
  <1>7. ASSUME NEW c \in Toplevels!Clients
        PROVE  /\ K[c] \in [TaskWindows -> Toplevels!HandleRecords]
               /\ K[c][w] = Toplevels!ToldState(handle[c][w], v, c)
               /\ \A x \in TaskWindows : x # w => K[c][x] = handle[c][x]
    <2>1. /\ handle[c][w] \in Toplevels!HandleRecords
          /\ Toplevels!HandleRight(c, handle[c][w], window[w], manager[c])
      OBVIOUS
    <2>2. Toplevels!ToldState(handle[c][w], v, c) \in Toplevels!HandleRecords
      BY ONLY <1>3, <1>4, <2>1, ToldRight, c \in Toplevels!Clients
    <2>3. K[c] = [handle[c] EXCEPT ![w] = Toplevels!ToldState(handle[c][w], v, c)]
          /\ handle[c] \in [TaskWindows -> Toplevels!HandleRecords]
      OBVIOUS
    <2> HIDE DEF K
    <2> QED BY <2>2, <2>3
  <1>8. K \in [Toplevels!Clients -> [TaskWindows -> Toplevels!HandleRecords]]
    BY <1>7
  <1> HIDE DEF K
  <1> QED BY ONLY Toplevels!IInv, w \in TaskWindows, window[w].open,
                  topChanges' \in 0 .. TaskChanges, <1>1, <1>4, <1>6, <1>7, <1>8, TellStep

(* The handles of one client change, windows and docks do not.              *)
LEMMA HandlesBecome ==
  ASSUME Toplevels!IInv, NEW c \in Toplevels!Clients, NEW m \in Toplevels!Managers,
         NEW H \in [TaskWindows -> Toplevels!HandleRecords],
         manager' = [manager EXCEPT ![c] = m], handle' = [handle EXCEPT ![c] = H],
         UNCHANGED <<window, dock>>, topChanges' \in 0 .. TaskChanges, DOMAIN target' = TaskWindows,
         \A w \in TaskWindows : Toplevels!HandleRight(c, H[w], window[w], m),
         \A w \in TaskWindows :
           \/ target'[w] = Toplevels!NoTarget
           \/ \E o \in Taskbars :
                Toplevels!AimedAt(target'[w], o, IF o = c THEN H[w] ELSE handle[o][w], dock[o])
  PROVE  Toplevels!IInv'
  <1> USE ToplevelsFacts
  <1>1. \A e \in Toplevels!Clients : /\ handle'[e] = IF e = c THEN H ELSE handle[e]
                                     /\ manager'[e] = IF e = c THEN m ELSE manager[e]
    OBVIOUS
  <1>2. /\ handle' \in [Toplevels!Clients -> [TaskWindows -> Toplevels!HandleRecords]]
        /\ manager' \in [Toplevels!Clients -> Toplevels!Managers]
    OBVIOUS
  <1>3. \A e \in Toplevels!Clients, w \in TaskWindows :
          Toplevels!HandleRight(e, handle'[e][w], window'[w], manager'[e])
    BY <1>1
  <1>4. ASSUME NEW w \in TaskWindows
        PROVE  \/ target'[w] = Toplevels!NoTarget
               \/ \E o \in Taskbars : Toplevels!AimedAt(target'[w], o, handle'[o][w], dock'[o])
    <2>1. ASSUME NEW o \in Taskbars
          PROVE  handle'[o][w] = (IF o = c THEN H[w] ELSE handle[o][w])
      BY <1>1
    <2> QED BY <2>1
  <1>5. /\ window' \in [TaskWindows -> Toplevels!WindowRecords]
        /\ dock' \in [Taskbars -> Toplevels!DockRecords]
        /\ \A w \in TaskWindows : window'[w].open => window'[w].was
    OBVIOUS
  <1> QED BY ONLY <1>2, <1>3, <1>4, <1>5, ToplevelsBecome, DOMAIN target' = TaskWindows,
                  topChanges' \in 0 .. TaskChanges

(* A manager that goes leaves its handles without it.                       *)
LEMMA ManagerGoes ==
  ASSUME Toplevels!IInv, NEW c \in Toplevels!Clients,
         Toplevels!Stop(c) \/ Toplevels!DestroyManager(c)
  PROVE  Toplevels!IInv'
  <1> USE ToplevelsFacts
  <1>1. UNCHANGED <<window, dock, target, topChanges>> /\ manager[c] \in {"bound", "stopped"}
    BY DEF Toplevels!Stop, Toplevels!DestroyManager
  <1>2. CASE /\ manager' = [manager EXCEPT ![c] = "gone"]
             /\ handle' = [handle EXCEPT ![c] =
                  [w \in TaskWindows |-> Toplevels!Detached(handle[c][w], c)]]
    <2> DEFINE H == [w \in TaskWindows |-> Toplevels!Detached(handle[c][w], c)]
    <2>1. ASSUME NEW w \in TaskWindows
          PROVE  /\ H[w] \in Toplevels!HandleRecords
                 /\ Toplevels!HandleRight(c, H[w], window[w], "gone")
                 /\ H[w].live = handle[c][w].live /\ H[w].win = handle[c][w].win
                 /\ H[w].aims = handle[c][w].aims
      <3> DEFINE h == handle[c][w]
                 k == [h EXCEPT !.mgr = FALSE]
      <3>1. h \in Toplevels!HandleRecords /\ Toplevels!HandleRight(c, h, window[w], manager[c])
        OBVIOUS
      <3>2. H[w] = IF h.live /\ (c \in TaskLists \/ h.win) THEN k ELSE h
        BY DEF Toplevels!Detached
      <3> HIDE DEF h, H
      <3>3. /\ k \in Toplevels!HandleRecords /\ ~k.mgr /\ k.live = h.live /\ k.win = h.win
            /\ k.made = h.made /\ k.aims = h.aims /\ k.title = h.title /\ k.state = h.state
            /\ k.closed = h.closed
        BY <3>1, HandleLoses
      <3> HIDE DEF k
      <3>4. Toplevels!HandleRight(c, k, window[w], "gone")
        BY <3>1, <3>3 DEF Toplevels!HandleRight
      <3>5. ~(h.live /\ (c \in TaskLists \/ h.win)) =>
               Toplevels!HandleRight(c, h, window[w], "gone")
        BY <3>1 DEF Toplevels!HandleRight
      <3> QED BY <3>1, <3>2, <3>3, <3>4, <3>5 DEF h
    <2>2. H \in [TaskWindows -> Toplevels!HandleRecords]
      BY <2>1
    <2>3. handle' = [handle EXCEPT ![c] = H] /\ "gone" \in Toplevels!Managers
      BY <1>2 DEF Toplevels!Managers
    <2> HIDE DEF H
    <2>4. \A w \in TaskWindows :
            \/ target'[w] = Toplevels!NoTarget
            \/ \E o \in Taskbars :
                 Toplevels!AimedAt(target'[w], o, IF o = c THEN H[w] ELSE handle[o][w], dock[o])
      BY <1>1, <2>1 DEF Toplevels!AimedAt
    <2>5. DOMAIN target' = TaskWindows /\ topChanges' \in 0 .. TaskChanges
      BY <1>1
    <2> QED BY ONLY Toplevels!IInv, c \in Toplevels!Clients, <1>1, <1>2, <2>1, <2>2, <2>3, <2>4,
                    <2>5, HandlesBecome
  <1>3. CASE manager' = [manager EXCEPT ![c] = "stopped"] /\ UNCHANGED handle
             /\ manager[c] = "bound"
    <2>1. handle' = [handle EXCEPT ![c] = handle[c]] /\ "stopped" \in Toplevels!Managers
      BY <1>3 DEF Toplevels!Managers
    <2>2. handle[c] \in [TaskWindows -> Toplevels!HandleRecords]
      OBVIOUS
    <2>3. \A w \in TaskWindows : Toplevels!HandleRight(c, handle[c][w], window[w], "stopped")
      BY <1>3 DEF Toplevels!HandleRight
    <2>4. \A w \in TaskWindows :
            \/ target'[w] = Toplevels!NoTarget
            \/ \E o \in Taskbars :
                 Toplevels!AimedAt(target'[w], o, IF o = c THEN handle[c][w] ELSE handle[o][w],
                                   dock[o])
      BY <1>1
    <2>5. DOMAIN target' = TaskWindows /\ topChanges' \in 0 .. TaskChanges
      BY <1>1
    <2> QED BY ONLY Toplevels!IInv, c \in Toplevels!Clients, <1>1, <1>3, <2>1, <2>2, <2>3, <2>4,
                    <2>5, HandlesBecome
  <1> QED BY <1>2, <1>3 DEF Toplevels!Stop, Toplevels!DestroyManager

(* The target of one handle's window changes with the handle.               *)
LEMMA HandleStep ==
  ASSUME Toplevels!IInv, NEW c \in Toplevels!Clients, NEW w \in TaskWindows,
         NEW k \in Toplevels!HandleRecords, NEW t,
         UNCHANGED <<window, manager, dock>>, topChanges' \in 0 .. TaskChanges,
         handle' = [handle EXCEPT ![c][w] = k], target' = [target EXCEPT ![w] = t],
         Toplevels!HandleRight(c, k, window[w], manager[c]),
         \/ t = Toplevels!NoTarget
         \/ \E o \in Taskbars :
              Toplevels!AimedAt(t, o, IF o = c THEN k ELSE handle[o][w], dock[o])
  PROVE  Toplevels!IInv'
  <1> USE ToplevelsFacts
  <1> DEFINE H == [handle[c] EXCEPT ![w] = k]
  <1>1. handle[c] \in [TaskWindows -> Toplevels!HandleRecords]
    OBVIOUS
  <1>2. /\ H \in [TaskWindows -> Toplevels!HandleRecords]
        /\ \A x \in TaskWindows : H[x] = IF x = w THEN k ELSE handle[c][x]
    BY <1>1
  <1>3. handle' = [handle EXCEPT ![c] = H]
    OBVIOUS
  <1> HIDE DEF H
  <1>4. /\ \A x \in TaskWindows : target'[x] = IF x = w THEN t ELSE target[x]
        /\ DOMAIN target' = TaskWindows
    OBVIOUS
  <1>5. ASSUME NEW x \in TaskWindows
        PROVE  \/ target'[x] = Toplevels!NoTarget
               \/ \E o \in Taskbars :
                    Toplevels!AimedAt(target'[x], o, IF o = c THEN H[x] ELSE handle[o][x], dock[o])
    <2>1. CASE x = w
      BY <1>2, <1>4, <2>1
    <2>2. CASE x # w
      <3>1. \A o \in Taskbars : (IF o = c THEN H[x] ELSE handle[o][x]) = handle[o][x]
        BY <1>2, <2>2
      <3> QED BY <1>4, <2>2, <3>1
    <2> QED BY <2>1, <2>2
  <1>6. \A x \in TaskWindows : Toplevels!HandleRight(c, H[x], window[x], manager[c])
    BY <1>2
  <1>7. manager' = [manager EXCEPT ![c] = manager[c]] /\ manager[c] \in Toplevels!Managers
    OBVIOUS
  <1> QED BY ONLY Toplevels!IInv, c \in Toplevels!Clients, UNCHANGED <<window, manager, dock>>,
                  topChanges' \in 0 .. TaskChanges, <1>2, <1>3, <1>4, <1>5, <1>6, <1>7,
                  HandlesBecome

(* A handle that is destroyed aims no icon any more.                        *)
LEMMA DestroyHandleStep ==
  ASSUME Toplevels!IInv, NEW c \in Toplevels!Clients, NEW w \in TaskWindows,
         Toplevels!DestroyHandle(c, w)
  PROVE  Toplevels!IInv'
  <1> USE ToplevelsFacts
  <1> DEFINE h == handle[c][w]
             k == [Toplevels!Disconnected(h) EXCEPT !.live = FALSE]
             t == Toplevels!Clear(target[w], h, c)
  <1>1. /\ handle' = [handle EXCEPT ![c][w] = k] /\ target' = [target EXCEPT ![w] = t]
        /\ UNCHANGED <<window, manager, dock, topChanges>> /\ h.live
    BY DEF Toplevels!DestroyHandle
  <1>2. h \in Toplevels!HandleRecords /\ Toplevels!HandleRight(c, h, window[w], manager[c])
    OBVIOUS
  <1> HIDE DEF h
  <1>3. k \in Toplevels!HandleRecords /\ ~k.live /\ ~k.win /\ k.made = h.made
    BY <1>2, HandleLoses
  <1> HIDE DEF k
  <1>4. Toplevels!HandleRight(c, k, window[w], manager[c])
    BY <1>2, <1>3 DEF Toplevels!HandleRight
  <1>5. \/ t = Toplevels!NoTarget
        \/ \E o \in Taskbars :
             Toplevels!AimedAt(t, o, IF o = c THEN k ELSE handle[o][w], dock[o])
    <2>1. CASE target[w] = Toplevels!NoTarget
      BY <2>1 DEF Toplevels!Clear, Toplevels!NoTarget
    <2>2. ASSUME NEW o \in Taskbars, Toplevels!AimedAt(target[w], o, handle[o][w], dock[o])
          PROVE  IF o = c THEN t = Toplevels!NoTarget ELSE t = target[w]
      <3>1. target[w].owner = o
        BY <2>2 DEF Toplevels!AimedAt
      <3>2. o = c => h.win
        BY <2>2 DEF Toplevels!AimedAt, h
      <3> QED BY <3>1, <3>2 DEF Toplevels!Clear
    <2> QED BY <2>1, <2>2
  <1> HIDE DEF t
  <1>6. topChanges' \in 0 .. TaskChanges
    BY <1>1
  <1> QED BY ONLY Toplevels!IInv, c \in Toplevels!Clients, w \in TaskWindows, <1>1, <1>3, <1>4,
                  <1>5, <1>6, HandleStep

(* A rectangle that is set aims the icon at the surface it names.           *)
LEMMA RectangleStep ==
  ASSUME Toplevels!IInv, NEW c \in Taskbars, NEW w \in TaskWindows, NEW empty \in BOOLEAN,
         Toplevels!SetRectangle(c, w, empty)
  PROVE  Toplevels!IInv'
  <1> USE ToplevelsFacts
  <1> DEFINE h == handle[c][w]
             cleared == Toplevels!Clear(target[w], h, c)
             aimed == [h EXCEPT !.aims = TRUE]
             t == Toplevels!Update([cleared EXCEPT !.owner = c], aimed, c, dock[c])
  <1>1. /\ UNCHANGED <<window, manager, dock, topChanges>> /\ h.live /\ dock[c].alive
        /\ IF ~h.win \/ empty
           THEN /\ target' = [target EXCEPT ![w] = cleared]
                /\ handle' = [handle EXCEPT ![c][w] = Toplevels!Aimless(h)]
           ELSE /\ target' = [target EXCEPT ![w] = t]
                /\ handle' = [handle EXCEPT ![c][w] = aimed]
    BY DEF Toplevels!SetRectangle
  <1>2. /\ h \in Toplevels!HandleRecords /\ Toplevels!HandleRight(c, h, window[w], manager[c])
        /\ c \in Toplevels!Clients
    OBVIOUS
  <1>3. topChanges' \in 0 .. TaskChanges /\ dock[c] \in Toplevels!DockRecords
    BY <1>1
  <1>4. \/ target[w] = Toplevels!NoTarget
        \/ \E o \in Taskbars : Toplevels!AimedAt(target[w], o, IF o = c THEN h ELSE handle[o][w],
                                                 dock[o])
    OBVIOUS
  <1> HIDE DEF h
  <1>5. ASSUME NEW o \in Taskbars, Toplevels!AimedAt(target[w], o, IF o = c THEN h ELSE handle[o][w],
                                                     dock[o])
        PROVE  cleared = IF o = c THEN Toplevels!NoTarget ELSE target[w]
    <2>1. target[w].owner = o /\ (o = c => h.win)
      BY <1>5 DEF Toplevels!AimedAt
    <2> QED BY <2>1 DEF Toplevels!Clear
  <1>6. target[w] = Toplevels!NoTarget => cleared = Toplevels!NoTarget
    BY DEF Toplevels!Clear, Toplevels!NoTarget
  <1>7. /\ Toplevels!Aimless(h) \in Toplevels!HandleRecords
        /\ Toplevels!HandleRight(c, Toplevels!Aimless(h), window[w], manager[c])
    <2> DEFINE k == Toplevels!Aimless(h)
    <2>1. /\ k \in Toplevels!HandleRecords /\ k.live = h.live /\ k.win = h.win
          /\ k.made = h.made /\ k.mgr = h.mgr /\ k.title = h.title /\ k.state = h.state
          /\ k.closed = h.closed
      BY <1>2, HandleLoses
    <2> HIDE DEF k
    <2>2. Toplevels!HandleRight(c, k, window[w], manager[c])
      BY <1>2, <2>1 DEF Toplevels!HandleRight
    <2> QED BY <2>1, <2>2 DEF k
  <1>8. /\ aimed \in Toplevels!HandleRecords /\ aimed.aims /\ aimed.live = h.live
        /\ aimed.win = h.win /\ Toplevels!HandleRight(c, aimed, window[w], manager[c])
    <2>1. /\ aimed \in Toplevels!HandleRecords /\ aimed.live = h.live /\ aimed.win = h.win
          /\ aimed.made = h.made /\ aimed.mgr = h.mgr /\ aimed.title = h.title
          /\ aimed.state = h.state /\ aimed.closed = h.closed /\ aimed.aims
      BY <1>2, HandleLoses
    <2> HIDE DEF aimed
    <2> QED BY <1>2, <2>1 DEF Toplevels!HandleRight
  <1> HIDE DEF aimed, cleared
  <1>9. CASE ~h.win \/ empty
    <2>1. \/ cleared = Toplevels!NoTarget
          \/ \E o \in Taskbars :
               Toplevels!AimedAt(cleared, o, IF o = c THEN Toplevels!Aimless(h) ELSE handle[o][w],
                                 dock[o])
      BY <1>4, <1>5, <1>6
    <2> QED BY ONLY Toplevels!IInv, w \in TaskWindows, <1>1, <1>2, <1>3, <1>7, <1>9, <2>1,
                    HandleStep
  <1>10. CASE ~(~h.win \/ empty)
    <2>1. \E o, i : cleared = [owner |-> o, icon |-> i]
      BY <1>4, <1>5, <1>6 DEF Toplevels!NoTarget, Toplevels!AimedAt
    <2>2. t = [owner |-> c, icon |-> IF dock[c].mapped THEN <<c, dock[c].at>> ELSE "none"]
      BY <1>8, <1>10, <2>1 DEF Toplevels!Update, Toplevels!None
    <2>3. Toplevels!AimedAt(t, c, aimed, dock[c])
      BY <1>1, <1>8, <1>10, <2>2 DEF Toplevels!AimedAt, Toplevels!None
    <2> HIDE DEF t
    <2>4. \E o \in Taskbars :
            Toplevels!AimedAt(t, o, IF o = c THEN aimed ELSE handle[o][w], dock[o])
      BY <2>3
    <2> QED BY ONLY Toplevels!IInv, w \in TaskWindows, <1>1, <1>2, <1>3, <1>8, <1>10, <2>4,
                    HandleStep
  <1> QED BY <1>9, <1>10

(* A dock is mapped or moved: the targets of its handles follow.            *)
LEMMA DockStep ==
  ASSUME Toplevels!IInv, NEW c \in Taskbars, NEW s \in Toplevels!DockRecords,
         s.alive = dock[c].alive, Toplevels!DockBecomes(c, s), topChanges' \in 0 .. TaskChanges
  PROVE  Toplevels!IInv'
  <1> USE ToplevelsFacts
  <1>1. /\ dock' = [dock EXCEPT ![c] = s] /\ UNCHANGED <<window, manager, handle>>
        /\ target' = [w \in TaskWindows |-> Toplevels!Update(target[w], handle[c][w], c, s)]
    BY DEF Toplevels!DockBecomes
  <1>2. ASSUME NEW w \in TaskWindows
        PROVE  \/ target'[w] = Toplevels!NoTarget
               \/ \E o \in Taskbars : Toplevels!AimedAt(target'[w], o, handle'[o][w], dock'[o])
    <2>1. target'[w] = Toplevels!Update(target[w], handle[c][w], c, s)
      BY <1>1
    <2>4. handle[c][w] \in Toplevels!HandleRecords /\ dock[c] \in Toplevels!DockRecords
      OBVIOUS
    <2>2. CASE target[w] = Toplevels!NoTarget
      <3>1. Toplevels!Update(target[w], handle[c][w], c, s) = target[w]
        BY ONLY <2>2, <2>4, c \in Taskbars, TargetSteps
      <3> QED BY <2>1, <2>2, <3>1
    <2>3. ASSUME NEW o \in Taskbars, Toplevels!AimedAt(target[w], o, handle[o][w], dock[o])
          PROVE  Toplevels!AimedAt(target'[w], o, handle'[o][w], dock'[o])
      <3>1. o = c => s.alive
        BY <2>3 DEF Toplevels!AimedAt
      <3>2. target[w].owner = o
        BY <2>3 DEF Toplevels!AimedAt
      <3>3. CASE o = c
        <4>1. Toplevels!AimedAt(Toplevels!Update(target[w], handle[c][w], c, s), c, handle[c][w], s)
          <5>1. Toplevels!AimedAt(target[w], c, handle[c][w], dock[c])
            BY <2>3, <3>3
          <5> QED BY ONLY <5>1, <2>4, <3>1, <3>3, TargetSteps, c \in Taskbars,
                          s \in Toplevels!DockRecords
        <4> QED BY <1>1, <2>1, <3>3, <4>1
      <3>4. CASE o # c
        <4>1. Toplevels!Update(target[w], handle[c][w], c, s) = target[w]
          BY <3>2, <3>4 DEF Toplevels!Update
        <4> QED BY <1>1, <2>1, <2>3, <3>4, <4>1
      <3> QED BY <3>3, <3>4
    <2> QED BY <2>2, <2>3
  <1>3. /\ DOMAIN target' = TaskWindows /\ dock' \in [Taskbars -> Toplevels!DockRecords]
        /\ window' \in [TaskWindows -> Toplevels!WindowRecords]
        /\ manager' \in [Toplevels!Clients -> Toplevels!Managers]
        /\ handle' \in [Toplevels!Clients -> [TaskWindows -> Toplevels!HandleRecords]]
        /\ \A w \in TaskWindows : window'[w].open => window'[w].was
        /\ \A e \in Toplevels!Clients, w \in TaskWindows :
             Toplevels!HandleRight(e, handle'[e][w], window'[w], manager'[e])
    BY <1>1
  <1> QED BY ONLY <1>2, <1>3, topChanges' \in 0 .. TaskChanges, ToplevelsBecome

(* A surface that goes takes the icons that were aimed at it.               *)
LEMMA DockGoes ==
  ASSUME Toplevels!IInv, NEW c \in Taskbars, Toplevels!DockDestroyed(c)
  PROVE  Toplevels!IInv'
  <1> USE ToplevelsFacts
  <1> DEFINE s == [dock[c] EXCEPT !.alive = FALSE, !.mapped = FALSE]
             H == [w \in TaskWindows |-> Toplevels!Aimless(handle[c][w])]
  <1>1. /\ UNCHANGED <<window, manager, topChanges>> /\ handle' = [handle EXCEPT ![c] = H]
        /\ target' = [w \in TaskWindows |->
             IF handle[c][w].aims THEN Toplevels!Clear(target[w], handle[c][w], c) ELSE target[w]]
    BY DEF Toplevels!DockDestroyed
  <1>2. dock' = [dock EXCEPT ![c] = s]
    BY DEF Toplevels!DockDestroyed
  <1>3. s \in Toplevels!DockRecords
    <2>1. dock[c] \in Toplevels!DockRecords
      OBVIOUS
    <2> QED BY ONLY <2>1 DEF Toplevels!DockRecords
  <1> HIDE DEF s
  <1>4. ASSUME NEW w \in TaskWindows
        PROVE  /\ H[w] \in Toplevels!HandleRecords
               /\ Toplevels!HandleRight(c, H[w], window[w], manager[c])
    <2> DEFINE h == handle[c][w]
               k == Toplevels!Aimless(h)
    <2>1. h \in Toplevels!HandleRecords /\ Toplevels!HandleRight(c, h, window[w], manager[c])
      OBVIOUS
    <2>2. H[w] = k
      OBVIOUS
    <2> HIDE DEF h, H
    <2>3. /\ k \in Toplevels!HandleRecords /\ k.live = h.live /\ k.win = h.win
          /\ k.made = h.made /\ k.mgr = h.mgr /\ k.title = h.title /\ k.state = h.state
          /\ k.closed = h.closed
      BY <2>1, HandleLoses
    <2> HIDE DEF k
    <2>4. Toplevels!HandleRight(c, k, window[w], manager[c])
      BY <2>1, <2>3 DEF Toplevels!HandleRight
    <2> QED BY <2>2, <2>3, <2>4
  <1>5. H \in [TaskWindows -> Toplevels!HandleRecords]
    BY <1>4
  <1> HIDE DEF H
  <1>6. \A e \in Toplevels!Clients : handle'[e] = IF e = c THEN H ELSE handle[e]
    BY <1>1
  <1>7. ASSUME NEW w \in TaskWindows
        PROVE  \/ target'[w] = Toplevels!NoTarget
               \/ \E o \in Taskbars : Toplevels!AimedAt(target'[w], o, handle'[o][w], dock'[o])
    <2>1. target'[w] = IF handle[c][w].aims THEN Toplevels!Clear(target[w], handle[c][w], c)
                       ELSE target[w]
      BY <1>1
    <2>2. CASE target[w] = Toplevels!NoTarget
      BY <2>1, <2>2 DEF Toplevels!Clear, Toplevels!NoTarget
    <2>3. ASSUME NEW o \in Taskbars, Toplevels!AimedAt(target[w], o, handle[o][w], dock[o])
          PROVE  \/ target'[w] = Toplevels!NoTarget
                 \/ Toplevels!AimedAt(target'[w], o, handle'[o][w], dock'[o])
      <3>1. target[w].owner = o /\ handle[o][w].win /\ handle[o][w].aims
        BY <2>3 DEF Toplevels!AimedAt
      <3>2. CASE o = c
        BY <2>1, <3>1, <3>2 DEF Toplevels!Clear
      <3>3. CASE o # c
        <4>1. target'[w] = target[w] /\ handle'[o] = handle[o] /\ dock'[o] = dock[o]
          BY <1>2, <1>6, <2>1, <3>1, <3>3 DEF Toplevels!Clear
        <4> QED BY <2>3, <4>1
      <3> QED BY <3>2, <3>3
    <2> QED BY <2>2, <2>3
  <1>8. /\ handle' \in [Toplevels!Clients -> [TaskWindows -> Toplevels!HandleRecords]]
        /\ dock' \in [Taskbars -> Toplevels!DockRecords]
    BY <1>1, <1>2, <1>3, <1>5
  <1>9. \A e \in Toplevels!Clients, w \in TaskWindows :
          Toplevels!HandleRight(e, handle'[e][w], window'[w], manager'[e])
    BY <1>1, <1>4, <1>6
  <1>10. /\ DOMAIN target' = TaskWindows /\ topChanges' \in 0 .. TaskChanges
         /\ window' \in [TaskWindows -> Toplevels!WindowRecords]
         /\ manager' \in [Toplevels!Clients -> Toplevels!Managers]
         /\ \A w \in TaskWindows : window'[w].open => window'[w].was
    BY <1>1
  <1> QED BY ONLY <1>7, <1>8, <1>9, <1>10, ToplevelsBecome

(* A request on a handle changes the window it stands for.                  *)
LEMMA ControlStep ==
  ASSUME Toplevels!IInv, NEW c \in Taskbars, Toplevels!ControlStep(c)
  PROVE  Toplevels!IInv'
  <1> USE ToplevelsFacts
  <1>1. ASSUME NEW w \in TaskWindows, Toplevels!Maximize(c, w) \/ Toplevels!Activate(c, w)
        PROVE  Toplevels!IInv'
    <2>1. handle[c][w].live /\ handle[c][w].win /\ topChanges' \in 0 .. TaskChanges
      BY <1>1 DEF Toplevels!Maximize, Toplevels!Activate, Toplevels!Change
    <2>2. window[w].open
      BY <2>1 DEF Toplevels!HandleRight
    <2>3. CASE Toplevels!StateChanges(w)
      BY ONLY Toplevels!IInv, w \in TaskWindows, <2>1, <2>2, <2>3, StateStep
    <2>4. CASE UNCHANGED <<window, manager, handle, dock, target>>
      BY <2>1, <2>4, ToplevelsBecome
    <2> QED BY <1>1, <2>3, <2>4 DEF Toplevels!Maximize, Toplevels!Activate
  <1>2. ASSUME NEW w \in TaskWindows, NEW empty \in BOOLEAN, Toplevels!SetRectangle(c, w, empty)
        PROVE  Toplevels!IInv'
    BY <1>2, RectangleStep
  <1>3. CASE Toplevels!DockMaps(c)
    <2> DEFINE s == [dock[c] EXCEPT !.mapped = ~@]
    <2>1. dock[c] \in Toplevels!DockRecords
      OBVIOUS
    <2>2. s \in Toplevels!DockRecords /\ s.alive = dock[c].alive
      <3>1. ASSUME NEW b \in BOOLEAN
            PROVE  LET x == [dock[c] EXCEPT !.mapped = b]
                   IN  x \in Toplevels!DockRecords /\ x.alive = dock[c].alive
        BY ONLY <2>1, <3>1 DEF Toplevels!DockRecords
      <3> DEFINE b == ~dock[c].mapped
      <3>2. s = [dock[c] EXCEPT !.mapped = b] /\ b \in BOOLEAN
        OBVIOUS
      <3> HIDE DEF b, s
      <3> QED BY <3>1, <3>2
    <2>3. Toplevels!DockBecomes(c, s) /\ topChanges' \in 0 .. TaskChanges
      BY <1>3 DEF Toplevels!DockMaps, Toplevels!Change
    <2> HIDE DEF s
    <2> QED BY ONLY Toplevels!IInv, c \in Taskbars, <2>2, <2>3, DockStep
  <1>4. CASE Toplevels!DockMoves(c)
    <2> DEFINE s == [dock[c] EXCEPT !.at = 1 - @]
    <2>1. dock[c] \in Toplevels!DockRecords
      OBVIOUS
    <2>2. s \in Toplevels!DockRecords /\ s.alive = dock[c].alive
      <3>1. 1 - dock[c].at \in {0, 1}
        BY <2>1 DEF Toplevels!DockRecords
      <3> QED BY ONLY <2>1, <3>1 DEF Toplevels!DockRecords
    <2>3. Toplevels!DockBecomes(c, s) /\ topChanges' \in 0 .. TaskChanges
      BY <1>4 DEF Toplevels!DockMoves, Toplevels!Change
    <2> HIDE DEF s
    <2> QED BY ONLY Toplevels!IInv, c \in Taskbars, <2>2, <2>3, DockStep
  <1>5. CASE Toplevels!DockDestroyed(c)
    BY <1>5, DockGoes
  <1> QED BY <1>1, <1>2, <1>3, <1>4, <1>5 DEF Toplevels!ControlStep

(* Every step of the foreign toplevels keeps the invariant.                 *)
LEMMA ToplevelsStep ==
  ASSUME Toplevels!IInv, Toplevels!Next \/ UNCHANGED toplevelsVars
  PROVE  Toplevels!IInv'
  <1> USE ToplevelsFacts
  <1>1. CASE UNCHANGED toplevelsVars
    BY <1>1, ToplevelsBecome DEF toplevelsVars
  <1>2. ASSUME NEW w \in TaskWindows, Toplevels!WindowStep(w)
        PROVE  Toplevels!IInv'
    <2>1. CASE Toplevels!SetState(w)
      <3>1. window[w].open /\ Toplevels!StateChanges(w) /\ topChanges' \in 0 .. TaskChanges
        BY <2>1 DEF Toplevels!SetState, Toplevels!Change
      <3> QED BY ONLY Toplevels!IInv, w \in TaskWindows, <3>1, StateStep
    <2> QED BY <1>2, <2>1, CreateStep, UnmanageStep, TitleStep DEF Toplevels!WindowStep
  <1>3. ASSUME NEW c \in Toplevels!Clients, Toplevels!ClientStep(c)
        PROVE  Toplevels!IInv'
    BY <1>3, BindStep, ManagerGoes, DestroyHandleStep DEF Toplevels!ClientStep
  <1> QED BY <1>1, <1>2, <1>3, ControlStep DEF Toplevels!Next

(* The invariant of the foreign toplevels is what their run checks.         *)
LEMMA ToplevelsInvariant == Toplevels!IInv => Toplevels!ToplevelsSound
  <1> SUFFICES ASSUME Toplevels!IInv PROVE Toplevels!ToplevelsSound
    OBVIOUS
  <1> USE ToplevelsFacts
  <1>1. ASSUME NEW c \in Toplevels!Clients, NEW w \in TaskWindows
        PROVE  LET h == handle[c][w]
               IN  /\ h.closed \in 0 .. 1 /\ h.title \in {0, 1}
                   /\ manager[c] = "bound" /\ window[w].open => h.made
                   /\ h.live => h.win = window[w].open /\ h.closed = (IF window[w].open THEN 0 ELSE 1)
                   /\ h.live /\ h.win => /\ h.title = window[w].title
                                         /\ c \in Taskbars => h.state = window[w].state
                   /\ h.live /\ h.mgr /\ (c \in TaskLists \/ h.win) => manager[c] # "gone"
    <2> DEFINE h == handle[c][w]
               v == window[w]
    <2>1. /\ h \in Toplevels!HandleRecords /\ v \in Toplevels!WindowRecords
          /\ Toplevels!HandleRight(c, h, v, manager[c])
      OBVIOUS
    <2> HIDE DEF h, v
    <2>2. /\ h.closed \in 0 .. 1 /\ h.title \in {0, 1}
      BY <2>1 DEF Toplevels!HandleRecords
    <2>3. h.live => h.win = v.open
      BY <2>1 DEF Toplevels!HandleRecords, Toplevels!WindowRecords, Toplevels!HandleRight
    <2>4. /\ manager[c] = "bound" /\ v.open => h.made
          /\ h.live => h.closed = (IF v.open THEN 0 ELSE 1)
          /\ h.live /\ h.win => /\ h.title = v.title
                                /\ c \in Taskbars => h.state = v.state
          /\ h.live /\ h.mgr /\ (c \in TaskLists \/ h.win) => manager[c] # "gone"
      BY <2>1 DEF Toplevels!HandleRight
    <2> QED BY <2>2, <2>3, <2>4 DEF h, v
  <1>2. ASSUME NEW w \in TaskWindows
        PROVE  LET t == target[w]
               IN  /\ t.owner \in Taskbars \cup {"none"}
                   /\ t.owner # "none" => /\ handle[t.owner][w].live /\ handle[t.owner][w].win
                                          /\ handle[t.owner][w].aims /\ dock[t.owner].alive
                   /\ t.icon = IF t.owner # "none" /\ dock[t.owner].mapped
                               THEN <<t.owner, dock[t.owner].at>> ELSE "none"
    <2>1. CASE target[w] = Toplevels!NoTarget
      BY <2>1 DEF Toplevels!NoTarget, Toplevels!None
    <2>2. ASSUME NEW o \in Taskbars, Toplevels!AimedAt(target[w], o, handle[o][w], dock[o])
          PROVE  LET t == target[w]
                 IN  /\ t.owner = o /\ o # "none"
                     /\ handle[o][w].live /\ handle[o][w].win /\ handle[o][w].aims /\ dock[o].alive
                     /\ t.icon = IF dock[o].mapped THEN <<o, dock[o].at>> ELSE "none"
      BY <2>2, DesktopAssumption
      DEF Toplevels!AimedAt, Toplevels!None, Toplevels!ToplevelsAssumption
    <2> QED BY <2>1, <2>2
  <1>3. Toplevels!TypeOK
    BY <1>1, <1>2 DEF Toplevels!TypeOK, Toplevels!None, Toplevels!Managers
  <1>4. Toplevels!HandlesTell /\ Toplevels!ManagersNotFreed
    BY <1>1 DEF Toplevels!HandlesTell, Toplevels!ManagersNotFreed
  <1>5. Toplevels!TargetsFollow
    BY <1>2 DEF Toplevels!TargetsFollow, Toplevels!None
  <1> QED BY <1>3, <1>4, <1>5 DEF Toplevels!ToplevelsSound

(* Taskbars know each window as it is, clipboard managers the selections    *)
(* except under the lock, and a protocol is offered as configured, with no  *)
(* handle, offer or global that outlives its use.                           *)
THEOREM ProtocolsTrue == AllSpec => []ProtocolsSound
  <1> DEFINE I == /\ subject = "toplevels" => Toplevels!IInv
                  /\ subject = "clipboard" => Clipboard!IInv
                  /\ subject = "globals" => Globals!IInv
  <1>1. AllInit => I
    BY ToplevelsInit, ClipboardInit, GlobalsInit DEF AllInit
  <1>2. I /\ [AllNext]_allVars => I'
    BY SubjectSteps, ToplevelsStep, ClipboardStep, GlobalsStep
  <1>3. I => ProtocolsSound
    BY ToplevelsInvariant DEF ProtocolsSound, Clipboard!IInv, Globals!IInv
  <1> QED BY <1>1, <1>2, <1>3, PTL DEF AllSpec

-----------------------------------------------------------------------------
(* Where a layer surface is placed and what it reserves.                    *)

(* Half of an odd number is the one nearer to zero.                         *)
LEMMA HalfBounds ==
  ASSUME NEW a \in Int
  PROVE  /\ Geometry!Half(a) \in Int
         /\ a >= 0 => 0 <= Geometry!Half(a) /\ 2 * Geometry!Half(a) <= a /\ a <= 2 * Geometry!Half(a) + 1
         /\ a < 0 => Geometry!Half(a) <= 0 /\ a <= 2 * Geometry!Half(a) /\ 2 * Geometry!Half(a) <= a + 1
  BY DEF Geometry!Half

(* One axis of a surface: where it is anchored to one edge it keeps its     *)
(* margin from it, and a request that has room lies inside.                 *)
LEMMA AxisPlaced ==
  ASSUME NEW start \in Int, NEW length \in Nat \ {0}, NEW near \in BOOLEAN, NEW far \in BOOLEAN,
         NEW mnear \in Int, NEW mfar \in Int, NEW size \in Int
  PROVE  LET p == Geometry!Position(start, length, near, far, mnear, mfar, size)
         IN  /\ p \in Int
             /\ near /\ ~far => p = start + mnear
             /\ far /\ ~near => p + size = start + length - mfar
             /\ near = far => p = start + Geometry!Half(length - size) + Geometry!Half(mnear - mfar)
  <1>1. Geometry!Half(length - size) \in Int /\ Geometry!Half(mnear - mfar) \in Int
    BY HalfBounds
  <1> QED BY <1>1 DEF Geometry!Position

(* One axis of a surface is at least one pixel long, and a request that has *)
(* room is no longer than its room.                                         *)
LEMMA AxisMeasured ==
  ASSUME NEW length \in Nat \ {0}, NEW near \in BOOLEAN, NEW far \in BOOLEAN,
         NEW mnear \in Int, NEW mfar \in Int, NEW asked \in Nat, NEW committed \in BOOLEAN
  PROVE  LET size == Geometry!Length(length, near, far, mnear, mfar, asked, committed)
         IN  /\ size \in Nat /\ size >= 1
             /\ ~committed /\ mnear >= 0 /\ mfar >= 0 /\ mnear + mfar < length =>
                  /\ near /\ ~far => size <= length - mnear
                  /\ far /\ ~near => size <= length - mfar
                  /\ asked + mnear + mfar <= length => size <= length - mnear - mfar
  BY DEF Geometry!Length, Geometry!Larger, Geometry!Smaller

(* A surface moved from the middle by its margins stays inside what they    *)
(* leave.                                                                   *)
LEMMA Centred ==
  ASSUME NEW a \in Nat, NEW b \in Int, b <= a, -b <= a
  PROVE  LET c == Geometry!Half(a) + Geometry!Half(b)
         IN  c \in Int /\ 0 <= c /\ c <= a
  <1> DEFINE ha == Geometry!Half(a)
             hb == Geometry!Half(b)
  <1>1. ha \in Int /\ 0 <= ha /\ 2 * ha <= a /\ a <= 2 * ha + 1
    BY HalfBounds
  <1>2. /\ hb \in Int
        /\ b >= 0 => 0 <= hb /\ 2 * hb <= b
        /\ b < 0 => hb <= 0 /\ b <= 2 * hb
    BY HalfBounds
  <1> HIDE DEF ha, hb
  <1>3. ha + hb \in Int /\ 0 <= ha + hb /\ ha + hb <= a
    BY <1>1, <1>2
  <1> QED BY <1>3 DEF ha, hb

(* A request that has room on an axis lies inside the output there.         *)
LEMMA AxisFits ==
  ASSUME NEW start \in Int, NEW length \in Nat \ {0}, NEW near \in BOOLEAN, NEW far \in BOOLEAN,
         NEW mnear \in Nat, NEW mfar \in Nat, NEW asked \in Nat, mnear + mfar < length,
         (near /\ ~far) \/ (far /\ ~near) \/ asked + mnear + mfar <= length
  PROVE  LET size == Geometry!Length(length, near, far, mnear, mfar, asked, FALSE)
             p == Geometry!Position(start, length, near, far, mnear, mfar, size)
         IN  p >= start /\ p + size <= start + length
  <1>1. ASSUME NEW size \in Nat,
               near /\ ~far => size <= length - mnear,
               far /\ ~near => size <= length - mfar,
               asked + mnear + mfar <= length => size <= length - mnear - mfar
        PROVE  LET p == Geometry!Position(start, length, near, far, mnear, mfar, size)
               IN  p >= start /\ p + size <= start + length
    <2>1. CASE near /\ ~far
      BY <1>1, <2>1 DEF Geometry!Position
    <2>2. CASE far /\ ~near
      BY <1>1, <2>2 DEF Geometry!Position
    <2>3. CASE ~(near /\ ~far) /\ ~(far /\ ~near)
      <3> DEFINE a == length - size
                 b == mnear - mfar
                 c == Geometry!Half(a) + Geometry!Half(b)
      <3>1. a \in Nat /\ b \in Int /\ b <= a /\ -b <= a
        BY <1>1, <2>3
      <3>2. Geometry!Half(a) \in Int /\ Geometry!Half(b) \in Int
        BY <3>1, HalfBounds
      <3>3. Geometry!Position(start, length, near, far, mnear, mfar, size)
              = start + Geometry!Half(a) + Geometry!Half(b)
        BY <2>3 DEF Geometry!Position
      <3>4. c \in Int /\ 0 <= c /\ c <= length - size
        <4>1. a = length - size
          OBVIOUS
        <4> HIDE DEF a, b
        <4> QED BY <3>1, <4>1, Centred
      <3>5. start + Geometry!Half(a) + Geometry!Half(b) = start + c
        <4> HIDE DEF a, b
        <4> QED BY <3>2
      <3> HIDE DEF c
      <3> QED BY <1>1, <3>3, <3>4, <3>5
    <2> QED BY <2>1, <2>2, <2>3
  <1>2. LET size == Geometry!Length(length, near, far, mnear, mfar, asked, FALSE)
        IN  /\ size \in Nat
            /\ near /\ ~far => size <= length - mnear
            /\ far /\ ~near => size <= length - mfar
            /\ asked + mnear + mfar <= length => size <= length - mnear - mfar
    BY DEF Geometry!Length, Geometry!Larger, Geometry!Smaller
  <1> DEFINE size == Geometry!Length(length, near, far, mnear, mfar, asked, FALSE)
  <1>3. /\ size \in Nat
        /\ near /\ ~far => size <= length - mnear
        /\ far /\ ~near => size <= length - mfar
        /\ asked + mnear + mfar <= length => size <= length - mnear - mfar
    BY <1>2
  <1> HIDE DEF size
  <1>4. LET p == Geometry!Position(start, length, near, far, mnear, mfar, size)
        IN  p >= start /\ p + size <= start + length
    BY <1>1, <1>3
  <1> QED BY <1>4 DEF size

(* What a state of a surface on an output is made of.                       *)
LEMMA StateFacts ==
  ASSUME NEW m \in LayerOutputs, NEW s \in Geometry!States
  PROVE  /\ m.x \in Int /\ m.y \in Int /\ m.width \in Nat \ {0} /\ m.height \in Nat \ {0}
         /\ \A side \in Geometry!Sides : s.margin[side] \in Int
         /\ s.width \in Nat /\ s.height \in Nat /\ s.zone \in Int
         /\ s.anchor \subseteq Geometry!Sides /\ s.edge \in Geometry!Sides \cup {"none"}
         /\ Geometry!Sides = {"top", "bottom", "left", "right"}
         /\ Geometry!Opposite["top"] = "bottom" /\ Geometry!Opposite["bottom"] = "top"
         /\ Geometry!Opposite["left"] = "right" /\ Geometry!Opposite["right"] = "left"
  <1> USE DesktopAssumption DEF Geometry!GeometryAssumption
  <1>1. /\ m.x \in Int /\ m.y \in Int /\ m.width \in Nat \ {0} /\ m.height \in Nat \ {0}
    BY DEF Geometry!Layouts
  <1>2. \A side \in Geometry!Sides : s.margin[side] \in Int
    BY DEF Geometry!States
  <1>3. /\ s.width \in Nat /\ s.height \in Nat /\ s.zone \in Int
        /\ s.anchor \subseteq Geometry!Sides /\ s.edge \in Geometry!Sides \cup {"none"}
    BY DEF Geometry!States
  <1> QED BY <1>1, <1>2, <1>3 DEF Geometry!Sides, Geometry!Opposite

(* A rectangle r keeps the margin of the state s from the only edge of the  *)
(* output m that s is anchored to.                                          *)
EdgeKept(m, s, r) ==
  /\ "left" \in s.anchor /\ "right" \notin s.anchor => r.x = m.x + s.margin["left"]
  /\ "right" \in s.anchor /\ "left" \notin s.anchor =>
       r.x + r.width = (m.x + m.width) - s.margin["right"]
  /\ "top" \in s.anchor /\ "bottom" \notin s.anchor => r.y = m.y + s.margin["top"]
  /\ "bottom" \in s.anchor /\ "top" \notin s.anchor =>
       r.y + r.height = (m.y + m.height) - s.margin["bottom"]

(* A surface of whatever size keeps its margin from its only edge.          *)
LEMMA SurfacePlaced ==
  ASSUME NEW m \in LayerOutputs, NEW s \in Geometry!States, NEW width \in Nat, NEW height \in Nat,
         NEW committed \in BOOLEAN, NEW r, r = Geometry!Geometry(m, s, width, height, committed)
  PROVE  r \in Geometry!Rectangles /\ EdgeKept(m, s, r)
  <1> DEFINE al == "left" \in s.anchor
             ar == "right" \in s.anchor
             at == "top" \in s.anchor
             ab == "bottom" \in s.anchor
             ml == s.margin["left"]
             mr == s.margin["right"]
             mt == s.margin["top"]
             mb == s.margin["bottom"]
             w == Geometry!Length(m.width, al, ar, ml, mr, width, committed)
             h == Geometry!Length(m.height, at, ab, mt, mb, height, committed)
             x == Geometry!Position(m.x, m.width, al, ar, ml, mr, w)
             y == Geometry!Position(m.y, m.height, at, ab, mt, mb, h)
  <1>1. /\ ml \in Int /\ mr \in Int /\ mt \in Int /\ mb \in Int
        /\ m.x \in Int /\ m.y \in Int /\ m.width \in Nat \ {0} /\ m.height \in Nat \ {0}
    BY StateFacts
  <1>2. r = [x |-> x, y |-> y, width |-> w, height |-> h]
    BY DEF Geometry!Geometry
  <1>3. al \in BOOLEAN /\ ar \in BOOLEAN /\ at \in BOOLEAN /\ ab \in BOOLEAN
    OBVIOUS
  <1> HIDE DEF ml, mr, mt, mb, al, ar, at, ab
  <1>4. w \in Nat
    BY ONLY <1>1, <1>3, AxisMeasured, width \in Nat, committed \in BOOLEAN
  <1>5. h \in Nat
    BY ONLY <1>1, <1>3, AxisMeasured, height \in Nat, committed \in BOOLEAN
  <1> HIDE DEF w, h
  <1>6. /\ x \in Int
        /\ al /\ ~ar => x = m.x + ml
        /\ ar /\ ~al => x + w = (m.x + m.width) - mr
    BY ONLY <1>1, <1>3, <1>4, AxisPlaced
  <1>7. /\ y \in Int
        /\ at /\ ~ab => y = m.y + mt
        /\ ab /\ ~at => y + h = (m.y + m.height) - mb
    BY ONLY <1>1, <1>3, <1>5, AxisPlaced
  <1> HIDE DEF x, y
  <1>8. r \in Geometry!Rectangles /\ r.x = x /\ r.y = y /\ r.width = w /\ r.height = h
    BY ONLY <1>2, <1>4, <1>5, <1>6, <1>7 DEF Geometry!Rectangles
  <1> QED BY ONLY <1>6, <1>7, <1>8 DEF EdgeKept, ml, mr, mt, mb, al, ar, at, ab

(* A request lies on its output on an axis where it has room.               *)
LEMMA RequestPlaced ==
  ASSUME NEW m \in LayerOutputs, NEW s \in Geometry!States,
         \A side \in Geometry!Sides : s.margin[side] >= 0,
         NEW r, r = Geometry!Requested(m, s)
  PROVE  LET wide == s.margin["left"] + s.margin["right"]
             high == s.margin["top"] + s.margin["bottom"]
         IN  /\ /\ wide < m.width
                /\ \/ "left" \in s.anchor /\ "right" \notin s.anchor
                   \/ "right" \in s.anchor /\ "left" \notin s.anchor
                   \/ s.width + wide <= m.width
                => r.x >= m.x /\ r.x + r.width <= m.x + m.width
             /\ /\ high < m.height
                /\ \/ "top" \in s.anchor /\ "bottom" \notin s.anchor
                   \/ "bottom" \in s.anchor /\ "top" \notin s.anchor
                   \/ s.height + high <= m.height
                => r.y >= m.y /\ r.y + r.height <= m.y + m.height
  <1> DEFINE al == "left" \in s.anchor
             ar == "right" \in s.anchor
             at == "top" \in s.anchor
             ab == "bottom" \in s.anchor
             ml == s.margin["left"]
             mr == s.margin["right"]
             mt == s.margin["top"]
             mb == s.margin["bottom"]
             w == Geometry!Length(m.width, al, ar, ml, mr, s.width, FALSE)
             h == Geometry!Length(m.height, at, ab, mt, mb, s.height, FALSE)
             x == Geometry!Position(m.x, m.width, al, ar, ml, mr, w)
             y == Geometry!Position(m.y, m.height, at, ab, mt, mb, h)
  <1>1. /\ ml \in Nat /\ mr \in Nat /\ mt \in Nat /\ mb \in Nat
        /\ m.x \in Int /\ m.y \in Int /\ m.width \in Nat \ {0} /\ m.height \in Nat \ {0}
        /\ s.width \in Nat /\ s.height \in Nat
    BY StateFacts
  <1>2. r = [x |-> x, y |-> y, width |-> w, height |-> h]
    BY DEF Geometry!Geometry, Geometry!Requested
  <1>3. al \in BOOLEAN /\ ar \in BOOLEAN /\ at \in BOOLEAN /\ ab \in BOOLEAN
    OBVIOUS
  <1> HIDE DEF ml, mr, mt, mb, al, ar, at, ab
  <1>4. ASSUME ml + mr < m.width, (al /\ ~ar) \/ (ar /\ ~al) \/ s.width + ml + mr <= m.width
        PROVE  x >= m.x /\ x + w <= m.x + m.width
    BY ONLY <1>1, <1>3, <1>4, AxisFits
  <1>5. ASSUME mt + mb < m.height, (at /\ ~ab) \/ (ab /\ ~at) \/ s.height + mt + mb <= m.height
        PROVE  y >= m.y /\ y + h <= m.y + m.height
    BY ONLY <1>1, <1>3, <1>5, AxisFits
  <1> HIDE DEF w, h, x, y
  <1>6. s.width + ml + mr = s.width + (ml + mr) /\ s.height + mt + mb = s.height + (mt + mb)
    BY ONLY <1>1
  <1>7. r.x = x /\ r.y = y /\ r.width = w /\ r.height = h
    BY ONLY <1>2
  <1>8. /\ ml + mr < m.width /\ ((al /\ ~ar) \/ (ar /\ ~al) \/ s.width + (ml + mr) <= m.width)
          => r.x >= m.x /\ r.x + r.width <= m.x + m.width
        /\ mt + mb < m.height /\ ((at /\ ~ab) \/ (ab /\ ~at) \/ s.height + (mt + mb) <= m.height)
          => r.y >= m.y /\ r.y + r.height <= m.y + m.height
    BY ONLY <1>4, <1>5, <1>6, <1>7
  <1> QED BY ONLY <1>8 DEF ml, mr, mt, mb, al, ar, at, ab

(* The placement's cardinality is that of finite sets.                      *)
LEMMA SameCardinality == \A S : Geometry!Cardinality(S) = Cardinality(S)
  BY DEF Geometry!Cardinality, Cardinality

(* The edge that reserves by itself has one anchor or three.                *)
LEMMA OddAnchors ==
  ASSUME NEW s \in Geometry!States, NEW side \in Geometry!Sides, Geometry!Reserves(s, side)
  PROVE  Geometry!Cardinality(s.anchor) \in {1, 3}
  <1> DEFINE across == s.anchor \cap Geometry!Across[side]
  <1>1. /\ s.anchor \subseteq {"top", "bottom", "left", "right"}
        /\ side \in {"top", "bottom", "left", "right"}
    BY DEF Geometry!States, Geometry!Sides
  <1>2. \E p, q \in {"top", "bottom", "left", "right"} :
          /\ p # q /\ side # p /\ side # q /\ Geometry!Across[side] = {p, q}
          /\ \A e \in {"top", "bottom", "left", "right"} :
               e \in {side, p, q} \/ e = Geometry!Opposite[side]
    <2>1. CASE side = "top" \/ side = "bottom"
      BY <2>1, "left" # "right" DEF Geometry!Across, Geometry!Opposite
    <2>2. CASE side = "left" \/ side = "right"
      BY <2>2, "top" # "bottom" DEF Geometry!Across, Geometry!Opposite
    <2> QED BY <1>1, <2>1, <2>2
  <1>3. PICK p, q \in {"top", "bottom", "left", "right"} :
          /\ p # q /\ side # p /\ side # q /\ Geometry!Across[side] = {p, q}
          /\ \A e \in {"top", "bottom", "left", "right"} :
               e \in {side, p, q} \/ e = Geometry!Opposite[side]
    BY <1>2
  <1>4. side \in s.anchor /\ Geometry!Opposite[side] \notin s.anchor /\ Cardinality(across) # 1
    <2>1. Geometry!Cardinality(across) # 1
      BY DEF Geometry!Reserves
    <2>2. Cardinality(across) = Geometry!Cardinality(across)
      BY SameCardinality
    <2> HIDE DEF across
    <2> QED BY <2>1, <2>2 DEF Geometry!Reserves
  <1>5. /\ Cardinality({p}) = 1 /\ Cardinality({q}) = 1
        /\ IsFiniteSet({side}) /\ Cardinality({side}) = 1
    BY FS_Singleton
  <1>6. across = {} \/ across = {p, q}
    <2>1. across # {p} /\ across # {q} /\ across \subseteq {p, q}
      BY <1>3, <1>4, <1>5
    <2> HIDE DEF across
    <2> QED BY <2>1
  <1>7. s.anchor = {side} \/ s.anchor = ({side} \cup {p}) \cup {q}
    BY <1>1, <1>3, <1>4, <1>6
  <1>8. Cardinality(({side} \cup {p}) \cup {q}) = 3
    <2>1. IsFiniteSet({side} \cup {p}) /\ Cardinality({side} \cup {p}) = 2
      BY <1>3, <1>5, FS_AddElement
    <2>2. q \notin {side} \cup {p}
      BY <1>3
    <2> QED BY <2>1, <2>2, FS_AddElement
  <1> QED BY <1>5, <1>7, <1>8, SameCardinality

(* A strip that is reserved lies along its edge, as deep as the zone and    *)
(* its margin, or as the output.                                            *)
LEMMA StrutPlaced ==
  ASSUME NEW m \in LayerOutputs, NEW s \in Geometry!States,
         Geometry!Strut(m, s) # Geometry!NoStrut
  PROVE  LET t == Geometry!Strut(m, s)
             deep(side, all) == IF s.zone + s.margin[side] < all THEN s.zone + s.margin[side] ELSE all
         IN  /\ t.side = Geometry!EffectiveEdge(s) /\ t.side \in Geometry!Sides
             /\ t.side = "top" => t.y + t.height = m.y + deep("top", m.height)
             /\ t.side = "bottom" => t.y = m.y + m.height - deep("bottom", m.height)
             /\ t.side = "left" => t.x + t.width = m.x + deep("left", m.width)
             /\ t.side = "right" => t.x = m.x + m.width - deep("right", m.width)
  <1> DEFINE edge == Geometry!EffectiveEdge(s)
             extent == Geometry!Extent(m, s, edge)
  <1>1. /\ m.x \in Int /\ m.y \in Int /\ m.width \in Nat \ {0} /\ m.height \in Nat \ {0}
        /\ \A side \in Geometry!Sides : s.margin[side] \in Int
        /\ s.zone \in Int /\ s.edge \in Geometry!Sides \cup {"none"}
        /\ Geometry!Sides = {"top", "bottom", "left", "right"}
    BY StateFacts
  <1>2. edge \in Geometry!Sides \cup {"none"}
    BY <1>1 DEF Geometry!EffectiveEdge
  <1>3. /\ edge # "none" /\ extent # 0
        /\ Geometry!Strut(m, s) =
             IF edge \in {"top", "bottom"}
             THEN [side |-> edge, x |-> m.x, width |-> m.width, height |-> extent,
                   y |-> IF edge = "top" THEN m.y ELSE m.y + m.height - extent]
             ELSE [side |-> edge, y |-> m.y, height |-> m.height, width |-> extent,
                   x |-> IF edge = "left" THEN m.x ELSE m.x + m.width - extent]
    BY DEF Geometry!Strut
  <1>4. edge \in Geometry!Sides
    BY <1>2, <1>3
  <1> HIDE DEF edge
  <1>5. LET all == IF edge \in {"top", "bottom"} THEN m.height ELSE m.width
            d0 == s.zone + s.margin[edge]
        IN  extent = IF d0 < all THEN d0 ELSE all
    BY <1>1, <1>3, <1>4 DEF Geometry!Extent, Geometry!Clamped, Geometry!Larger, Geometry!Smaller
  <1>6. extent \in Int
    BY <1>1, <1>4, <1>5
  <1> HIDE DEF extent
  <1> QED BY <1>1, <1>3, <1>4, <1>5, <1>6 DEF edge

(* The opposite of each side.                                               *)
LEMMA OppositeSides ==
  /\ Geometry!Opposite["top"] = "bottom" /\ Geometry!Opposite["bottom"] = "top"
  /\ Geometry!Opposite["left"] = "right" /\ Geometry!Opposite["right"] = "left"
  BY DEF Geometry!Opposite

(* The first rectangle keeps its edge, and nothing is reserved yet.         *)
LEMMA GeometryInit == Geometry!Init => Geometry!IInv
  <1> SUFFICES ASSUME NEW m \in LayerOutputs, NEW s \in Geometry!States, Geometry!Starts(m, s)
               PROVE  Geometry!IInv
    BY DEF Geometry!Init
  <1> USE DEF Geometry!Starts
  <1>1. s.width \in Nat /\ s.height \in Nat /\ FALSE \in BOOLEAN
    BY StateFacts
  <1> DEFINE committed == FALSE
  <1>2. layShown = Geometry!Geometry(m, s, s.width, s.height, committed) /\ committed \in BOOLEAN
    BY DEF Geometry!Requested
  <1> HIDE DEF committed
  <1>3. layShown \in Geometry!Rectangles /\ Geometry!KeepsItsEdge
    <2>1. layShown \in Geometry!Rectangles /\ EdgeKept(m, s, layShown)
      BY <1>1, <1>2, SurfacePlaced
    <2>2. mon = m /\ state = s
      OBVIOUS
    <2>3. /\ Geometry!Anchored("left") <=> ("left" \in s.anchor /\ "right" \notin s.anchor)
          /\ Geometry!Anchored("right") <=> ("right" \in s.anchor /\ "left" \notin s.anchor)
          /\ Geometry!Anchored("top") <=> ("top" \in s.anchor /\ "bottom" \notin s.anchor)
          /\ Geometry!Anchored("bottom") <=> ("bottom" \in s.anchor /\ "top" \notin s.anchor)
      BY ONLY <2>2, OppositeSides DEF Geometry!Anchored
    <2> QED BY ONLY <2>1, <2>2, <2>3
         DEF EdgeKept, Geometry!KeepsItsEdge, Geometry!Right, Geometry!Bottom
  <1> QED BY <1>3 DEF Geometry!IInv

(* Whatever size is drawn, the surface keeps its edge, and what is reserved *)
(* is what its state reserves.                                              *)
LEMMA GeometryStep ==
  ASSUME Geometry!IInv, Geometry!Next \/ UNCHANGED geometryVars
  PROVE  Geometry!IInv'
  <1>1. CASE UNCHANGED geometryVars
    BY <1>1 DEF geometryVars, Geometry!IInv, Geometry!KeepsItsEdge, Geometry!Anchored,
                Geometry!Right, Geometry!Bottom
  <1>2. ASSUME NEW width \in LayerExtents \ {0}, NEW height \in LayerExtents \ {0},
               Geometry!Draw(width, height)
        PROVE  Geometry!IInv'
    <2> DEFINE committed == TRUE
    <2>1. width \in Nat /\ height \in Nat /\ committed \in BOOLEAN
      BY DesktopAssumption DEF Geometry!GeometryAssumption
    <2>2. /\ mon \in LayerOutputs /\ state \in Geometry!States /\ UNCHANGED <<mon, state>>
          /\ layShown' = Geometry!Geometry(mon, state, width, height, committed)
          /\ strut' = Geometry!Strut(mon, state)
      BY <1>2 DEF Geometry!Draw, Geometry!IInv
    <2>3. layShown' \in Geometry!Rectangles /\ EdgeKept(mon, state, layShown')
      <3> HIDE DEF committed
      <3> QED BY ONLY <2>1, <2>2, SurfacePlaced
    <2>4. Geometry!KeepsItsEdge'
      <3>1. /\ Geometry!Anchored("left")' <=> ("left" \in state.anchor /\ "right" \notin state.anchor)
            /\ Geometry!Anchored("right")' <=> ("right" \in state.anchor /\ "left" \notin state.anchor)
            /\ Geometry!Anchored("top")' <=> ("top" \in state.anchor /\ "bottom" \notin state.anchor)
            /\ Geometry!Anchored("bottom")'
                 <=> ("bottom" \in state.anchor /\ "top" \notin state.anchor)
        BY ONLY <2>2, OppositeSides DEF Geometry!Anchored
      <3> QED BY ONLY <2>2, <2>3, <3>1
           DEF EdgeKept, Geometry!KeepsItsEdge, Geometry!Right, Geometry!Bottom
    <2> QED BY <2>2, <2>3, <2>4 DEF Geometry!IInv
  <1> QED BY <1>1, <1>2 DEF Geometry!Next

(* Where a surface is put agrees with what is asked and reserved.           *)
LEMMA GeometryInvariant == Geometry!IInv => Geometry!Placement
  <1> SUFFICES ASSUME Geometry!IInv PROVE Geometry!Placement
    OBVIOUS
  <1>1. mon \in LayerOutputs /\ state \in Geometry!States /\ layShown \in Geometry!Rectangles
        /\ strut \in {Geometry!NoStrut, Geometry!Strut(mon, state)} /\ Geometry!KeepsItsEdge
    BY DEF Geometry!IInv
  <1>2. /\ mon.x \in Int /\ mon.y \in Int /\ mon.width \in Nat \ {0} /\ mon.height \in Nat \ {0}
        /\ \A side \in Geometry!Sides : state.margin[side] \in Int
        /\ state.zone \in Int /\ state.width \in Nat /\ state.height \in Nat
        /\ Geometry!Sides = {"top", "bottom", "left", "right"}
    BY <1>1, StateFacts
  <1>3. Geometry!RequestFits
    <2>1. SUFFICES ASSUME \A side \in Geometry!Sides : state.margin[side] >= 0,
                          NEW r, r = Geometry!Requested(mon, state)
                   PROVE  LET wide == state.margin["left"] + state.margin["right"]
                              high == state.margin["top"] + state.margin["bottom"]
                          IN  /\ /\ wide < mon.width
                                 /\ \/ Geometry!Anchored("left") \/ Geometry!Anchored("right")
                                    \/ state.width + wide <= mon.width
                                 => r.x >= mon.x /\ Geometry!Right(r) <= Geometry!Right(mon)
                              /\ /\ high < mon.height
                                 /\ \/ Geometry!Anchored("top") \/ Geometry!Anchored("bottom")
                                    \/ state.height + high <= mon.height
                                 => r.y >= mon.y /\ Geometry!Bottom(r) <= Geometry!Bottom(mon)
      BY DEF Geometry!RequestFits
    <2> QED BY ONLY <1>1, <2>1, RequestPlaced, OppositeSides
         DEF Geometry!Anchored, Geometry!Right, Geometry!Bottom
  <1>4. Geometry!ZoneNeedsAnEdge
    <2> SUFFICES ASSUME strut # Geometry!NoStrut, state.edge = "none"
                 PROVE  Geometry!Cardinality(state.anchor) \in {1, 3}
      BY DEF Geometry!ZoneNeedsAnEdge
    <2>1. Geometry!EffectiveEdge(state) \in Geometry!Sides
      BY <1>1, StrutPlaced
    <2>2. "none" \notin Geometry!Sides
      BY <1>2
    <2>3. PICK side \in Geometry!Sides : Geometry!Reserves(state, side)
      BY <2>1, <2>2 DEF Geometry!EffectiveEdge
    <2> QED BY <1>1, <2>3, OddAnchors
  <1>5. Geometry!PanelInsideZone
    <2> SUFFICES ASSUME strut # Geometry!NoStrut PROVE Geometry!PanelInsideZone
      BY DEF Geometry!PanelInsideZone
    <2> DEFINE deep(side, all) ==
                 IF state.zone + state.margin[side] < all
                 THEN state.zone + state.margin[side] ELSE all
    <2>1. /\ strut.side = "top" => strut.y + strut.height = mon.y + deep("top", mon.height)
          /\ strut.side = "bottom" => strut.y = mon.y + mon.height - deep("bottom", mon.height)
          /\ strut.side = "left" => strut.x + strut.width = mon.x + deep("left", mon.width)
          /\ strut.side = "right" => strut.x = mon.x + mon.width - deep("right", mon.width)
      BY <1>1, StrutPlaced
    <2>2. layShown.x \in Int /\ layShown.y \in Int /\ layShown.width \in Int
          /\ layShown.height \in Int
      BY <1>1 DEF Geometry!Rectangles
    <2>3. ASSUME strut.side = "top", Geometry!Anchored("top"), layShown.height <= state.zone
          PROVE  Geometry!Smaller(Geometry!Bottom(layShown), Geometry!Bottom(mon))
                   <= Geometry!Bottom(strut)
      BY <1>1, <1>2, <2>1, <2>2, <2>3 DEF Geometry!KeepsItsEdge, Geometry!Smaller, Geometry!Bottom
    <2>4. ASSUME strut.side = "bottom", Geometry!Anchored("bottom"), layShown.height <= state.zone
          PROVE  Geometry!Larger(layShown.y, mon.y) >= strut.y
      BY <1>1, <1>2, <2>1, <2>2, <2>4 DEF Geometry!KeepsItsEdge, Geometry!Larger, Geometry!Bottom
    <2>5. ASSUME strut.side = "left", Geometry!Anchored("left"), layShown.width <= state.zone
          PROVE  Geometry!Smaller(Geometry!Right(layShown), Geometry!Right(mon))
                   <= Geometry!Right(strut)
      BY <1>1, <1>2, <2>1, <2>2, <2>5 DEF Geometry!KeepsItsEdge, Geometry!Smaller, Geometry!Right
    <2>6. ASSUME strut.side = "right", Geometry!Anchored("right"), layShown.width <= state.zone
          PROVE  Geometry!Larger(layShown.x, mon.x) >= strut.x
      BY <1>1, <1>2, <2>1, <2>2, <2>6 DEF Geometry!KeepsItsEdge, Geometry!Larger, Geometry!Right
    <2> QED BY <2>3, <2>4, <2>5, <2>6 DEF Geometry!PanelInsideZone
  <1> QED BY <1>1, <1>3, <1>4, <1>5 DEF Geometry!Placement

(* What is asked of a layer surface, where it is placed and what it         *)
(* reserves fit together.                                                   *)
THEOREM SurfacesPlaced == AllSpec => []Placement
  <1> DEFINE I == subject = "geometry" => Geometry!IInv
  <1>1. AllInit => I
    BY GeometryInit DEF AllInit
  <1>2. I /\ [AllNext]_allVars => I'
    BY SubjectSteps, GeometryStep
  <1>3. I => Placement
    BY GeometryInvariant DEF Placement
  <1> QED BY <1>1, <1>2, <1>3, PTL DEF AllSpec

-----------------------------------------------------------------------------
(* Idle daemons.                                                            *)

(* Only the monitor's readiness changes.                                    *)
LEMMA NoteReadies ==
  ASSUME NEW n \in Notify!Notes, NEW time \in Nat, Notify!NoteKept(n, time), NEW b \in BOOLEAN
  PROVE  [n EXCEPT !.ready = b] \in Notify!Notes /\ Notify!NoteKept([n EXCEPT !.ready = b], time)
  BY DEF Notify!Notes, Notify!NoteKept

(* The user goes idle.                                                      *)
LEMMA NoteIdles ==
  ASSUME NEW n \in Notify!Notes, NEW time \in Nat, Notify!NoteKept(n, time), "idle" \in n.watches,
         time >= n.interval
  PROVE  Notify!Idle(n) \in Notify!Notes /\ Notify!NoteKept(Notify!Idle(n), time)
  <1>1. CASE n.isIdle
    BY <1>1 DEF Notify!Idle
  <1>2. CASE ~n.isIdle
    <2>1. n.state = "live" /\ n.told = "resumed" /\ ~n.repeated /\ ~n.activeId
      BY <1>2 DEF Notify!NoteKept, Notify!Notes
    <2>2. PICK ws \in SUBSET {"idle", "active"} : ws = n.watches \cup {"active"}
      BY DEF Notify!Notes
    <2>3. Notify!Idle(n) = [n EXCEPT !.told = "idled", !.repeated = FALSE, !.isIdle = TRUE,
                              !.activeId = TRUE, !.watches = ws]
      BY <1>2, <2>1, <2>2 DEF Notify!Idle, Notify!Tells, Notify!Notes
    <2>4. PICK p \in Notify!Notes : p
                 = [n EXCEPT !.told = "idled", !.repeated = FALSE, !.isIdle = TRUE]
      BY DEF Notify!Notes
    <2>5. Notify!Idle(n) = [p EXCEPT !.activeId = TRUE, !.watches = ws]
      BY <2>3, <2>4
    <2>6. Notify!Idle(n) \in Notify!Notes
      BY <2>2, <2>5 DEF Notify!Notes
    <2>7. /\ ~p.repeated /\ p.isIdle /\ p.told = "idled" /\ p.state = "live"
              /\ p.interval = n.interval
      BY <2>1, <2>4 DEF Notify!Notes
    <2>8. /\ ~Notify!Idle(n).repeated /\ Notify!Idle(n).isIdle /\ Notify!Idle(n).told = "idled"
              /\ Notify!Idle(n).state = "live"
          /\ Notify!Idle(n).interval = n.interval /\ Notify!Idle(n).activeId
             /\ Notify!Idle(n).watches = ws
      BY <2>5, <2>7 DEF Notify!Notes
    <2> QED BY <2>2, <2>6, <2>8 DEF Notify!NoteKept
  <1> QED BY <1>1, <1>2

(* The user returns.                                                        *)
LEMMA NoteResumes ==
  ASSUME NEW n \in Notify!Notes, NEW time \in Nat, Notify!NoteKept(n, time), NEW b \in BOOLEAN
  PROVE  LET r == [n EXCEPT !.ready = b]
             a == [r EXCEPT !.watches = @ \ {"active"}]
             m == IF "active" \in n.watches THEN Notify!Active(a) ELSE r
         IN  m \in Notify!Notes /\ Notify!NoteKept(m, 0)
  <1>1. CASE "active" \in n.watches
    <2>1. n.state = "live" /\ n.isIdle /\ n.told = "idled" /\ ~n.repeated /\ "idle" \in n.watches
      BY <1>1 DEF Notify!NoteKept, Notify!Notes
    <2>2. PICK ws \in SUBSET {"idle", "active"} : ws = n.watches \ {"active"}
      BY DEF Notify!Notes
    <2>3. Notify!Active([[n EXCEPT !.ready = b] EXCEPT !.watches = @ \ {"active"}])
            = [n EXCEPT !.ready = b, !.watches = ws, !.activeId = FALSE, !.told = "resumed",
                        !.repeated = FALSE, !.isIdle = FALSE]
      BY <2>1, <2>2 DEF Notify!Active, Notify!Tells, Notify!Notes
    <2>4. PICK p \in Notify!Notes : p = [n EXCEPT !.ready = b, !.watches = ws, !.activeId = FALSE]
      BY <2>2 DEF Notify!Notes
    <2>5. PICK m \in Notify!Notes : m
                 = [p EXCEPT !.told = "resumed", !.repeated = FALSE, !.isIdle = FALSE]
      BY DEF Notify!Notes
    <2>6. /\ ~p.activeId /\ p.watches = ws /\ p.state = "live"
      BY <2>1, <2>4 DEF Notify!Notes
    <2>7. /\ ~m.repeated /\ ~m.isIdle /\ m.told = "resumed" /\ m.state = "live" /\ ~m.activeId
          /\ m.watches = ws
      BY <2>5, <2>6 DEF Notify!Notes
    <2>8. Notify!NoteKept(m, 0)
      BY <2>1, <2>2, <2>7 DEF Notify!NoteKept
    <2>9. Notify!Active([[n EXCEPT !.ready = b] EXCEPT !.watches = @ \ {"active"}]) = m
      BY <2>3, <2>4, <2>5
    <2> QED BY <1>1, <2>8, <2>9
  <1>2. CASE "active" \notin n.watches
    <2>1. [n EXCEPT !.ready = b] \in Notify!Notes /\ Notify!NoteKept([n EXCEPT !.ready = b], time)
      BY NoteReadies
    <2>2. n.state = "live" => ~n.isIdle
      BY <1>2 DEF Notify!NoteKept
    <2> QED BY <1>2, <2>1, <2>2 DEF Notify!Notes, Notify!NoteKept
  <1> QED BY <1>1, <1>2

(* A notification that is made waits for the user to go idle.               *)
LEMMA NoteMade ==
  ASSUME NEW n \in Nat, NEW strict \in BOOLEAN, NEW b \in BOOLEAN, NEW time \in Nat
  PROVE  LET m == [Notify!NewNote EXCEPT !.state = "live", !.interval = n, !.strict = strict,
                                  !.watches = {"idle"}, !.ready = b]
         IN  m \in Notify!Notes /\ Notify!NoteKept(m, time)
  BY DEF Notify!NewNote, Notify!Notes, Notify!NoteKept

(* A notification that is destroyed leaves no watch.                        *)
LEMMA NoteDestroyed ==
  ASSUME NEW n \in Notify!Notes, NEW time \in Nat, Notify!NoteKept(n, time), n.state = "live"
  PROVE  Notify!Destroyed(n) \in Notify!Notes /\ Notify!NoteKept(Notify!Destroyed(n), time)
  <1>1. n.watches \ ({"idle"} \cup IF n.activeId THEN {"active"} ELSE {}) = {}
    BY DEF Notify!NoteKept, Notify!Notes
  <1>2. Notify!Destroyed(n) = [n EXCEPT !.state = "gone", !.watches = {}]
    BY <1>1 DEF Notify!Destroyed
  <1>3. ~n.repeated
    BY DEF Notify!NoteKept
  <1> QED BY <1>2, <1>3 DEF Notify!Notes, Notify!NoteKept

(* Longer without input, an idle period is still one.                       *)
LEMMA NoteWaits ==
  ASSUME NEW n \in Notify!Notes, NEW time \in Nat, Notify!NoteKept(n, time)
  PROVE  Notify!NoteKept(n, time + 1)
  BY DEF Notify!Notes, Notify!NoteKept

(* At first no notification is there.                                       *)
LEMMA NotifyInit == Notify!Init => Notify!IInv
  <1> SUFFICES ASSUME Notify!Init PROVE Notify!IInv
    OBVIOUS
  <1>1. LongestIdle \in Nat /\ NoteChanges \in Nat
    BY DesktopAssumption DEF Notify!IdleNotifyAssumption
  <1>2. Notify!NewNote \in Notify!Notes /\ Notify!NoteKept(Notify!NewNote, 0)
        /\ Notify!NewNote.watches = {}
    BY DEF Notify!NewNote, Notify!Notes, Notify!NoteKept
  <1>3. note \in [Notifications -> Notify!Notes]
        /\ \A i \in Notifications : note[i] = Notify!NewNote
    BY <1>2 DEF Notify!Init
  <1> QED BY <1>1, <1>2, <1>3 DEF Notify!Init, Notify!IInv, Notify!TypeOK

(* Each notification becomes one that is as it should be.                   *)
LEMMA NotesBecome ==
  ASSUME Notify!IInv, idleFor' \in 0..LongestIdle, returns' \in 0..NoteChanges,
         note' \in [Notifications -> Notify!Notes],
         \A i \in Notifications : Notify!NoteKept(note'[i], idleFor')
  PROVE  Notify!IInv'
  <1>1. \A i \in Notifications : note'[i].watches \subseteq {"idle", "active"}
    BY DEF Notify!Notes
  <1> QED BY <1>1 DEF Notify!IInv, Notify!TypeOK

(* Every step keeps each notification as it should be.                      *)
LEMMA NotifyStep == Notify!IInv /\ (Notify!Next \/ UNCHANGED notifyVars) => Notify!IInv'
  <1> SUFFICES ASSUME Notify!IInv, Notify!Next \/ UNCHANGED notifyVars PROVE Notify!IInv'
    OBVIOUS
  <1>1. /\ idleFor \in Nat /\ idleFor \in 0..LongestIdle /\ returns \in 0..NoteChanges
        /\ LongestIdle \in Nat \ {0} /\ NoteChanges \in Nat
        /\ note \in [Notifications -> Notify!Notes]
        /\ \A i \in Notifications : note[i] \in Notify!Notes /\ Notify!NoteKept(note[i], idleFor)
    BY DesktopAssumption DEF Notify!IdleNotifyAssumption, Notify!IInv, Notify!TypeOK
  <1>2. ASSUME NEW i \in Notifications, NEW n \in Notify!Notes, Notify!NoteKept(n, idleFor),
               note' = [note EXCEPT ![i] = n], UNCHANGED <<idleFor, inhibited, returns>>
        PROVE  Notify!IInv'
    <2>1. note' \in [Notifications -> Notify!Notes]
      BY <1>1, <1>2
    <2>2. \A j \in Notifications : Notify!NoteKept(note'[j], idleFor')
      BY <1>1, <1>2
    <2> QED BY <1>1, <1>2, <2>1, <2>2, NotesBecome
  <1>3. ASSUME NEW i \in Notifications, NEW timeout \in 0..LongestIdle, NEW strict \in BOOLEAN,
               Notify!Create(i, timeout, strict)
        PROVE  Notify!IInv'
    <2>1. PICK t \in Nat : t = Notify!Interval(timeout)
      BY <1>1 DEF Notify!Interval
    <2>2. PICK b \in BOOLEAN : b = ~(inhibited /\ ~strict)
      OBVIOUS
    <2>3. note' = [note EXCEPT ![i] = [Notify!NewNote EXCEPT !.state = "live", !.interval = t,
                     !.strict = strict, !.watches = {"idle"}, !.ready = b]]
          /\ UNCHANGED <<idleFor, inhibited, returns>>
      BY <1>3, <2>1, <2>2 DEF Notify!Create
    <2> QED BY <1>1, <1>2, <2>3, NoteMade
  <1>4. ASSUME NEW i \in Notifications, Notify!Fires(i)
        PROVE  Notify!IInv'
    <2>1. Notify!Idle(note[i]) \in Notify!Notes /\ Notify!NoteKept(Notify!Idle(note[i]), idleFor)
      BY <1>1, <1>4, NoteIdles DEF Notify!Fires
    <2>2. note' = [note EXCEPT ![i] = [Notify!Idle(note[i]) EXCEPT !.ready = FALSE]]
          /\ UNCHANGED <<idleFor, inhibited, returns>>
      BY <1>4 DEF Notify!Fires
    <2> QED BY <1>1, <1>2, <2>1, <2>2, NoteReadies
  <1>5. ASSUME NEW i \in Notifications, Notify!Destroy(i)
        PROVE  Notify!IInv'
    <2>1. note[i].state = "live" /\ note' = [note EXCEPT ![i] = Notify!Destroyed(note[i])]
          /\ UNCHANGED <<idleFor, inhibited, returns>>
      BY <1>5 DEF Notify!Destroy
    <2> QED BY <1>1, <1>2, <2>1, NoteDestroyed
  <1>6. CASE Notify!Input
    <2>0. /\ Notify!Change /\ idleFor' = 0
          /\ note' = [i \in Notifications |->
               LET n == [note[i] EXCEPT !.ready = "idle" \in note[i].watches
                 /\ ~Notify!Inhibits(note[i])]
                   m == [n EXCEPT !.watches = @ \ {"active"}]
               IN  IF "active" \in note[i].watches THEN Notify!Active(m) ELSE n]
      BY <1>6 DEF Notify!Input
    <2>1. ASSUME NEW i \in Notifications
          PROVE  note'[i] \in Notify!Notes /\ Notify!NoteKept(note'[i], 0)
      <3>1. PICK b \in BOOLEAN : b = ("idle" \in note[i].watches /\ ~Notify!Inhibits(note[i]))
        OBVIOUS
      <3>2. note'[i] = LET r == [note[i] EXCEPT !.ready = b]
                           a == [r EXCEPT !.watches = @ \ {"active"}]
                       IN  IF "active" \in note[i].watches THEN Notify!Active(a) ELSE r
        <4>1. PICK r : r = [note[i] EXCEPT !.ready = "idle" \in note[i].watches
                     /\ ~Notify!Inhibits(note[i])]
          OBVIOUS
        <4>2. r = [note[i] EXCEPT !.ready = b]
          BY <3>1, <4>1
        <4>3. note'[i] = IF "active"
                \in note[i].watches THEN Notify!Active([r EXCEPT !.watches = @ \ {"active"}]) ELSE r
          <5> DEFINE Ready(n) == "idle" \in n.watches /\ ~Notify!Inhibits(n)
                     Returned(n, x) == IF "active" \in n.watches
                                       THEN Notify!Active([x EXCEPT !.watches
                                         = @ \ {"active"}]) ELSE x
          <5>1. note' = [j \in Notifications |-> Returned(note[j],
                  [note[j] EXCEPT !.ready = Ready(note[j])])]
            BY <2>0
          <5>2. r = [note[i] EXCEPT !.ready = Ready(note[i])]
            BY <4>1
          <5> HIDE DEF Ready, Returned
          <5>3. note'[i] = Returned(note[i], r)
            BY <5>1, <5>2
          <5> QED BY <5>3 DEF Returned
        <4> QED BY <4>2, <4>3
      <3> QED BY <1>1, <3>2, NoteResumes
    <2>2. note' \in [Notifications -> Notify!Notes]
      BY <1>6, <2>1 DEF Notify!Input
    <2>3. idleFor' = 0 /\ returns' \in 0..NoteChanges
      <3>1. idleFor' = 0 /\ Notify!Change
        BY <2>0
      <3> QED BY <1>1, <3>1 DEF Notify!Change
    <2> QED BY <1>1, <2>1, <2>2, <2>3, NotesBecome
  <1>7. CASE Notify!Tick
    <2>1. idleFor' = idleFor + 1 /\ idleFor' \in 0..LongestIdle /\ UNCHANGED <<note, returns>>
      BY <1>1, <1>7 DEF Notify!Tick
    <2> QED BY <1>1, <2>1, NoteWaits, NotesBecome
  <1>8. CASE Notify!Inhibit
    <2>1. ASSUME NEW i \in Notifications
          PROVE  note'[i] \in Notify!Notes /\ Notify!NoteKept(note'[i], idleFor)
      <3>1. PICK b \in BOOLEAN : b = IF note[i].strict THEN note[i].ready
                                     ELSE "idle" \in note[i].watches /\ ~inhibited'
        BY <1>1 DEF Notify!Notes
      <3>2. note'[i] = [note[i] EXCEPT !.ready = b]
        BY <1>8, <3>1 DEF Notify!Inhibit
      <3> QED BY <1>1, <3>2, NoteReadies
    <2>2. note' \in [Notifications -> Notify!Notes]
      BY <1>8, <2>1 DEF Notify!Inhibit
    <2>3. idleFor' = idleFor /\ returns' \in 0..NoteChanges
      BY <1>1, <1>8 DEF Notify!Inhibit, Notify!Change
    <2> QED BY <1>1, <2>1, <2>2, <2>3, NotesBecome
  <1>9. CASE UNCHANGED notifyVars
    BY <1>9 DEF notifyVars, Notify!IInv, Notify!TypeOK
  <1> QED BY <1>3, <1>4, <1>5, <1>6, <1>7, <1>8, <1>9 DEF Notify!Next, Notify!NoteStep

(* What each client was told is so.                                         *)
LEMMA NotifyTrue == Notify!IInv => Notify!IdleSound
  <1> SUFFICES ASSUME Notify!IInv PROVE Notify!IdleSound
    OBVIOUS
  <1>1. Notify!TypeOK
    BY DEF Notify!IInv
  <1>2. ASSUME NEW i \in Notifications
        PROVE  /\ note[i].state = "live" /\ note[i].told = "idled" =>
                    idleFor >= note[i].interval /\ "active" \in note[i].watches
               /\ ~note[i].repeated
               /\ note[i].state = "gone" => note[i].watches = {}
    BY DEF Notify!IInv, Notify!NoteKept, Notify!Notes
  <1> QED BY <1>1, <1>2 DEF Notify!IdleSound

-----------------------------------------------------------------------------
(* The session service: clients that inhibit, the monitor it watches, and   *)
(* the saver.                                                               *)

(* What is sent joins the bus at its end, and what is handled leaves its    *)
(* front.                                                                   *)
Grows ==
  /\ bus' \in Seq(Service!Messages) /\ Len(bus) <= Len(bus')
  /\ \A i \in 1..Len(bus) : bus'[i] = bus[i]
Pops ==
  /\ bus' \in Seq(Service!Messages) /\ Len(bus') = Len(bus) - 1
  /\ \A i \in 1..Len(bus') : bus'[i] = bus[i + 1]

(* A step of the bus that no message of these kinds takes part in.          *)
Quiet(kinds) ==
  \/ bus' = bus
  \/ Grows /\ \A i \in (Len(bus) + 1)..Len(bus') : bus'[i].kind \notin kinds
  \/ Pops /\ bus[1].kind \notin kinds

(* A message that is sent.                                                  *)
LEMMA SentGrows ==
  ASSUME bus \in Seq(Service!Messages), NEW m \in Service!Messages, bus' = Append(bus, m)
  PROVE  Grows /\ Len(bus') = Len(bus) + 1 /\ bus'[Len(bus) + 1] = m
  BY DEF Grows

(* Messages that are sent together.                                         *)
LEMMA AllSentGrow ==
  ASSUME bus \in Seq(Service!Messages), NEW q \in Seq(Service!Messages), bus' = bus \o q
  PROVE  /\ Grows /\ Len(bus') = Len(bus) + Len(q)
         /\ \A i \in 1..Len(q) : bus'[Len(bus) + i] = q[i]
         /\ \A i \in (Len(bus) + 1)..Len(bus') : i - Len(bus) \in 1..Len(q)
                                                 /\ bus'[i] = q[i - Len(bus)]
  <1>1. bus' \in Seq(Service!Messages) /\ Len(bus') = Len(bus) + Len(q)
    BY ConcatProperties
  <1>2. \A i \in 1..Len(bus') : bus'[i] = IF i <= Len(bus) THEN bus[i] ELSE q[i - Len(bus)]
    BY ConcatProperties
  <1>3. Len(bus) \in Nat /\ Len(q) \in Nat
    OBVIOUS
  <1> QED BY <1>1, <1>2, <1>3 DEF Grows

(* The message that is handled.                                             *)
LEMMA TakenPops ==
  ASSUME bus \in Seq(Service!Messages), bus # <<>>, bus' = Tail(bus)
  PROVE  Pops /\ Len(bus) \in Nat \ {0} /\ 1 \in 1..Len(bus) /\ bus[1] \in Service!Messages
  <1>1. Len(bus) \in Nat \ {0}
    BY EmptySeq
  <1>2. bus[1] \in Service!Messages /\ 1 \in 1..Len(bus)
    BY <1>1, ElementOfSeq
  <1> QED BY <1>1, <1>2 DEF Pops

(* What is in the bus has a place in it.                                    *)
LEMMA Listed ==
  ASSUME NEW q \in Seq(Service!Messages)
  PROVE  \A m : m \in Service!Range(q) <=> \E k \in 1..Len(q) : q[k] = m
  BY DEF Service!Range

(* What is on the bus has a place on it.                                    *)
LEMMA InBus ==
  ASSUME bus \in Seq(Service!Messages)
  PROVE  \A m : m \in Service!Range(bus) <=> \E k \in 1..Len(bus) : bus[k] = m
  BY DEF Service!Range

(* What a bus that grows says, it said or says at its end.                  *)
LEMMA GrownSays ==
  ASSUME bus \in Seq(Service!Messages), Grows, NEW kinds
  PROVE  /\ \A i \in 1..Len(bus) : Service!Says(i, kinds)' <=> Service!Says(i, kinds)
         /\ \A i \in 1..Len(bus) : i \in 1..Len(bus')
         /\ \A i \in 0..Len(bus), j \in 1..(Len(bus) + 1) : Service!Between(i, j, kinds)'
              <=> Service!Between(i, j, kinds)
         /\ \A i \in 0..Len(bus) : Service!After(i, kinds)' <=>
              Service!After(i, kinds) \/ \E k \in (Len(bus) + 1)..Len(bus') : bus'[k].kind \in kinds
         /\ Service!Waits(kinds)' <=>
              Service!Waits(kinds) \/ \E k \in (Len(bus) + 1)..Len(bus') : bus'[k].kind \in kinds
  <1>1. Len(bus) \in Nat /\ Len(bus') \in Nat /\ Len(bus) <= Len(bus')
    BY DEF Grows
  <1>2. \A i \in 1..Len(bus) : (Service!Says(i, kinds)' <=> Service!Says(i, kinds))
        /\ i \in 1..Len(bus')
    BY <1>1 DEF Service!Says, Grows
  <1>3. ASSUME NEW i \in 0..Len(bus), NEW j \in 1..(Len(bus) + 1)
        PROVE  Service!Between(i, j, kinds)' <=> Service!Between(i, j, kinds)
    <2>1. \A k \in (i + 1)..(j - 1) : k \in 1..Len(bus)
      BY <1>1
    <2> QED BY <1>2, <2>1 DEF Service!Between
  <1>4. ASSUME NEW i \in 0..Len(bus)
        PROVE  Service!After(i, kinds)' <=>
                 Service!After(i, kinds)
                   \/ \E k \in (Len(bus) + 1)..Len(bus') : bus'[k].kind \in kinds
    <2>1. Service!After(i, kinds) <=> \E k \in (i + 1)..Len(bus) : Service!Says(k, kinds)
      BY <1>1 DEF Service!After, Service!Between
    <2>2. Service!After(i, kinds)' <=> \E k \in (i + 1)..Len(bus') : Service!Says(k, kinds)'
      BY <1>1 DEF Service!After, Service!Between
    <2>3. \A k \in (i + 1)..Len(bus') : k \in (i + 1)..Len(bus) \/ k \in (Len(bus) + 1)..Len(bus')
      BY <1>1
    <2>4. /\ \A k \in (i + 1)..Len(bus) : k \in 1..Len(bus) /\ k \in (i + 1)..Len(bus')
          /\ \A k \in (Len(bus) + 1)..Len(bus') : k \in (i + 1)..Len(bus')
      BY <1>1
    <2>5. \A k : Service!Says(k, kinds)' <=> bus'[k].kind \in kinds
      BY DEF Service!Says
    <2> QED BY <1>2, <2>1, <2>2, <2>3, <2>4, <2>5
  <1>5. 0 \in 0..Len(bus)
    BY <1>1
  <1> QED BY <1>2, <1>3, <1>4, <1>5 DEF Service!Waits

(* What a bus says whose first message has gone.                            *)
LEMMA PoppedSays ==
  ASSUME bus \in Seq(Service!Messages), Pops, NEW kinds
  PROVE  /\ \A i \in 1..Len(bus') : (Service!Says(i, kinds)' <=> Service!Says(i + 1, kinds))
            /\ i + 1 \in 1..Len(bus)
         /\ \A i \in 0..Len(bus'), j \in 1..(Len(bus') + 1) :
              Service!Between(i, j, kinds)' <=> Service!Between(i + 1, j + 1, kinds)
         /\ \A i \in 0..Len(bus') : Service!After(i, kinds)' <=> Service!After(i + 1, kinds)
         /\ \A i \in 1..(Len(bus') + 1) :
              Service!Before(i + 1, kinds) <=> Service!Before(i, kinds)' \/ bus[1].kind \in kinds
         /\ Service!Waits(kinds) <=> Service!Waits(kinds)' \/ bus[1].kind \in kinds
  <1>1. Len(bus) \in Nat /\ Len(bus') \in Nat /\ Len(bus) = Len(bus') + 1
    BY DEF Pops
  <1>2. \A i \in 1..Len(bus') : (Service!Says(i, kinds)' <=> Service!Says(i + 1, kinds))
        /\ i + 1 \in 1..Len(bus)
    BY <1>1 DEF Service!Says, Pops
  <1>3. ASSUME NEW i \in 0..Len(bus'), NEW j \in 1..(Len(bus') + 1)
        PROVE  Service!Between(i, j, kinds)' <=> Service!Between(i + 1, j + 1, kinds)
    <2>1. \A k \in (i + 1)..(j - 1) : k \in 1..Len(bus') /\ k + 1 \in (i + 2)..j
      BY <1>1
    <2>2. \A k \in (i + 2)..j : k - 1 \in (i + 1)..(j - 1) /\ k = (k - 1) + 1
      BY <1>1
    <2>3. Service!Between(i, j, kinds)' <=> \E k \in (i + 1)..(j - 1) : Service!Says(k, kinds)'
      BY DEF Service!Between
    <2>4. Service!Between(i + 1, j + 1, kinds) <=> \E k \in (i + 2)..j : Service!Says(k, kinds)
      BY DEF Service!Between
    <2>5. ASSUME Service!Between(i, j, kinds)' PROVE Service!Between(i + 1, j + 1, kinds)
      <3>1. PICK k \in (i + 1)..(j - 1) : Service!Says(k, kinds)'
        BY <2>3, <2>5
      <3>2. Service!Says(k + 1, kinds)
        BY <1>2, <2>1, <3>1
      <3> QED BY <2>1, <2>4, <3>2
    <2>6. ASSUME Service!Between(i + 1, j + 1, kinds) PROVE Service!Between(i, j, kinds)'
      <3>1. PICK k \in (i + 2)..j : Service!Says(k, kinds)
        BY <2>4, <2>6
      <3>2. k - 1 \in (i + 1)..(j - 1) /\ k = (k - 1) + 1 /\ k - 1 \in 1..Len(bus')
        BY <2>1, <2>2
      <3>3. Service!Says(k - 1, kinds)'
        BY <1>2, <3>1, <3>2
      <3> QED BY <2>3, <3>2, <3>3
    <2> QED BY <2>5, <2>6
  <1>7. PICK n \in Nat : n = Len(bus') /\ Len(bus) = n + 1
    BY <1>1
  <1>4. ASSUME NEW i \in 0..Len(bus') PROVE Service!After(i, kinds)' <=> Service!After(i + 1, kinds)
    <2>1. Service!After(i, kinds)' <=> Service!Between(i, n + 1, kinds)'
      BY <1>7 DEF Service!After, Service!Between
    <2>2. Service!After(i + 1, kinds) <=> Service!Between(i + 1, n + 1 + 1, kinds)
      BY <1>7 DEF Service!After
    <2> QED BY <1>3, <1>7, <2>1, <2>2
  <1>5. ASSUME NEW i \in 1..(Len(bus') + 1)
        PROVE  Service!Before(i + 1, kinds) <=> Service!Before(i, kinds)' \/ bus[1].kind \in kinds
    <2>1. Service!Before(i, kinds)' <=> Service!Between(1, i + 1, kinds)
      BY <1>1, <1>3 DEF Service!Before
    <2>2. Service!Before(i + 1, kinds) <=> \E k \in 1..i : Service!Says(k, kinds)
      BY DEF Service!Before, Service!Between
    <2>3. Service!Between(1, i + 1, kinds) <=> \E k \in 2..i : Service!Says(k, kinds)
      BY DEF Service!Between
    <2>4. \A k \in 1..i : k = 1 \/ k \in 2..i
      OBVIOUS
    <2>5. 1 \in 1..i /\ \A k \in 2..i : k \in 1..i
      OBVIOUS
    <2>6. Service!Says(1, kinds) <=> bus[1].kind \in kinds
      BY DEF Service!Says
    <2> QED BY <2>1, <2>2, <2>3, <2>4, <2>5, <2>6
  <1>6. Service!Waits(kinds) <=> Service!Waits(kinds)' \/ bus[1].kind \in kinds
    <2>1. Service!Waits(kinds) <=> Service!Before(n + 1 + 1, kinds)
      BY <1>7 DEF Service!Waits, Service!After, Service!Before
    <2>2. Service!Waits(kinds)' <=> Service!Before(n + 1, kinds)'
      BY <1>7 DEF Service!Waits, Service!After, Service!Before, Service!Between
    <2> QED BY <1>5, <1>7, <2>1, <2>2
  <1> QED BY <1>2, <1>3, <1>4, <1>5, <1>6

-----------------------------------------------------------------------------
(* What the groups of the invariant keep of a step that is not about them.  *)

(* Word that a client left.                                                 *)
Word(s) == [kind |-> "Gone", sender |-> s]
(* The messages about clients that their invariant speaks of.               *)
Clients == {"Gone", "Inhibit"}

(* Other messages leave the clients and their inhibitors as they are.       *)
LEMMA ClientsQuiet ==
  ASSUME bus \in Seq(Service!Messages), Service!ClientsKept, Quiet(Clients),
         UNCHANGED Service!inhibitVars
  PROVE  Service!ClientsKept'
  <1>1. \A s : Word(s).kind = "Gone" /\ Word(s).kind \in Clients
    BY DEF Word, Clients
  <1>2. CASE bus' = bus
    BY <1>2 DEF Service!ClientsKept, Service!InhibitorsOwned, Service!inhibitVars, Service!Says
  <1>3. ASSUME bus' \in Seq(Service!Messages),
               \A s : Word(s) \in Service!Range(bus) => \E k \in 1..Len(bus') : bus'[k] = Word(s)
        PROVE  Service!InhibitorsOwned'
    <2>1. \A m : m \in Service!Range(bus') <=> \E k \in 1..Len(bus') : bus'[k] = m
      BY <1>3 DEF Service!Range
    <2> QED BY <1>3, <2>1 DEF Service!ClientsKept, Service!InhibitorsOwned, Service!inhibitVars,
        Word
  <1>4. CASE Grows /\ \A i \in (Len(bus) + 1)..Len(bus') : bus'[i].kind \notin Clients
    <2>1. \A i \in 1..Len(bus) : i \in 1..Len(bus') /\ bus'[i] = bus[i]
      BY <1>4 DEF Grows
    <2>2. Service!InhibitorsOwned'
      BY <1>3, <1>4, <2>1, InBus DEF Grows
    <2>3. ASSUME NEW i \in 1..Len(bus')
          PROVE  /\ Service!Says(i, {"Gone"})' => bus'[i].sender \notin on'
                 /\ Service!Says(i, {"Inhibit"})' =>
                      bus'[i].sender \in on'
                        \/ \E k \in (i + 1)..Len(bus') : bus'[k] = Word(bus'[i].sender)
      <3>1. CASE i \in 1..Len(bus)
        <4>1. \A k \in (i + 1)..Len(bus) : k \in (i + 1)..Len(bus') /\ bus'[k] = bus[k]
          BY <1>4, <3>1 DEF Grows
        <4> QED BY <2>1, <3>1, <4>1 DEF Service!ClientsKept, Service!Says, Service!inhibitVars, Word
      <3>2. CASE i \in (Len(bus) + 1)..Len(bus')
        BY <1>4, <3>2 DEF Service!Says, Clients
      <3> QED BY <3>1, <3>2
    <2> QED BY <2>2, <2>3 DEF Service!ClientsKept, Service!inhibitVars, Word
  <1>5. CASE Pops /\ bus[1].kind \notin Clients
    <2>1. Len(bus) = Len(bus') + 1 /\ Len(bus') \in Nat
      BY <1>5 DEF Pops
    <2>2. \A k \in 2..Len(bus) : k - 1 \in 1..Len(bus') /\ bus'[k - 1] = bus[k]
      BY <1>5, <2>1 DEF Pops
    <2>3. \A k \in 1..Len(bus) : k = 1 \/ k \in 2..Len(bus)
      BY <2>1
    <2>4. ASSUME NEW s, Word(s) \in Service!Range(bus)
                   PROVE \E k \in 1..Len(bus') : bus'[k] = Word(s)
      <3>1. PICK k \in 1..Len(bus) : bus[k] = Word(s)
        BY <2>4, InBus
      <3>2. k \in 2..Len(bus)
        BY <1>1, <1>5, <2>3, <3>1
      <3> QED BY <2>2, <3>1, <3>2
    <2>5. Service!InhibitorsOwned'
      BY <1>3, <1>5, <2>4 DEF Pops
    <2>6. ASSUME NEW i \in 1..Len(bus')
          PROVE  /\ Service!Says(i, {"Gone"})' => bus'[i].sender \notin on'
                 /\ Service!Says(i, {"Inhibit"})' =>
                      bus'[i].sender \in on'
                        \/ \E k \in (i + 1)..Len(bus') : bus'[k] = Word(bus'[i].sender)
      <3>1. bus'[i] = bus[i + 1] /\ i + 1 \in 1..Len(bus)
        BY <1>5, <2>1 DEF Pops
      <3>2. \A k \in (i + 1 + 1)..Len(bus) : k - 1 \in (i + 1)..Len(bus') /\ bus'[k - 1] = bus[k]
        BY <2>1, <2>2
      <3> QED BY <3>1, <3>2 DEF Service!ClientsKept, Service!Says, Service!inhibitVars, Word
    <2> QED BY <2>5, <2>6 DEF Service!ClientsKept, Service!inhibitVars, Word
  <1> QED BY <1>2, <1>4, <1>5 DEF Quiet

(* The same of the monitor, when what is known of its presence stays.       *)
Presence == {"Appeared", "Vanished"}

(* Messages about something else leave what is known of the monitor's       *)
(* presence as it is.                                                       *)
LEMMA PresenceQuiet ==
  ASSUME bus \in Seq(Service!Messages), Service!PresenceKept, Quiet(Presence),
         user'.up = user.up, activity'.proxy = activity.proxy,
         ~user.up => user'.idles = {} /\ user'.actives = {},
         user'.idles \cup user'.actives \subseteq 1..user'.given,
         ~activity.proxy => UNCHANGED <<activity.idleWatch, activity.activeWatch, activity.call>>
  PROVE  Service!PresenceKept'
  <1>0. {"Appeared"} \subseteq Presence /\ {"Vanished"} \subseteq Presence
    BY DEF Presence
  <1>1. ASSUME bus' \in Seq(Service!Messages),
               Service!Waits({"Vanished"}) => Service!Waits({"Vanished"})',
               \A i \in 1..Len(bus') : Service!Says(i, {"Appeared"})' =>
                 /\ ~user.up => Service!After(i, {"Vanished"})'
                 /\ activity.proxy => Service!Before(i, {"Vanished"})'
                 /\ \A j \in 1..(i - 1) : Service!Says(j, {"Appeared"})'
                      => Service!Between(j, i, {"Vanished"})'
        PROVE  Service!PresenceKept'
    BY <1>1 DEF Service!PresenceKept
  <1>2. CASE bus' = bus
    BY <1>1, <1>2 DEF Service!PresenceKept, Service!Says, Service!After, Service!Before,
       Service!Between, Service!Waits
  <1>3. CASE Grows /\ \A i \in (Len(bus) + 1)..Len(bus') : bus'[i].kind \notin Presence
    <2>0. Len(bus) \in Nat
      BY <1>3 DEF Grows
    <2>3. /\ \A i \in 0..Len(bus) : Service!After(i, {"Vanished"})
               => Service!After(i, {"Vanished"})'
          /\ \A i \in 0..Len(bus), j \in 1..(Len(bus) + 1) :
               Service!Between(i, j, {"Vanished"})' <=> Service!Between(i, j, {"Vanished"})
          /\ \A i \in 1..Len(bus) : Service!Says(i, {"Appeared"})' <=> Service!Says(i, {"Appeared"})
      BY <1>3, GrownSays
    <2>1. Service!Waits({"Vanished"}) => Service!Waits({"Vanished"})'
      BY <1>3, GrownSays
    <2>2. ASSUME NEW i \in 1..Len(bus'), Service!Says(i, {"Appeared"})'
          PROVE  /\ ~user.up => Service!After(i, {"Vanished"})'
                 /\ activity.proxy => Service!Before(i, {"Vanished"})'
                 /\ \A j \in 1..(i - 1) : Service!Says(j, {"Appeared"})'
                      => Service!Between(j, i, {"Vanished"})'
      <3>1. i \in 1..Len(bus)
        BY <1>0, <1>3, <2>2 DEF Service!Says, Grows
      <3>2. Service!Says(i, {"Appeared"})
        BY <1>3, <2>2, <3>1, GrownSays
      <3>7. i \in 0..Len(bus) /\ i \in 1..(Len(bus) + 1) /\ \A j \in 0..(i - 1) : j \in 0..Len(bus)
        BY <2>0, <3>1
      <3>3. ~user.up => Service!After(i, {"Vanished"})'
        BY <2>3, <3>1, <3>2, <3>7 DEF Service!PresenceKept
      <3>4. \A j \in 0..(i - 1) : Service!Between(j, i, {"Vanished"})'
              <=> Service!Between(j, i, {"Vanished"})
        BY <2>3, <3>7
      <3>5. activity.proxy => Service!Before(i, {"Vanished"})'
        BY <3>1, <3>2, <3>4 DEF Service!PresenceKept, Service!Before
      <3>6. \A j \in 1..(i - 1) : Service!Says(j, {"Appeared"})'
              => Service!Between(j, i, {"Vanished"})'
        <4> SUFFICES ASSUME NEW j \in 1..(i - 1), Service!Says(j, {"Appeared"})'
                     PROVE  Service!Between(j, i, {"Vanished"})'
          OBVIOUS
        <4>1. j \in 1..Len(bus) /\ j \in 0..(i - 1)
          BY <2>0, <3>1
        <4>2. Service!Says(j, {"Appeared"})
          BY <2>3, <4>1
        <4>3. Service!Between(j, i, {"Vanished"})
          BY <3>1, <3>2, <4>2 DEF Service!PresenceKept
        <4> QED BY <3>4, <4>1, <4>3
      <3> QED BY <3>3, <3>5, <3>6
    <2> QED BY <1>1, <1>3, <2>1, <2>2 DEF Grows
  <1>4. CASE Pops /\ bus[1].kind \notin Presence
    <2>0. Len(bus) = Len(bus') + 1 /\ Len(bus') \in Nat
      BY <1>4 DEF Pops
    <2>1. Service!Waits({"Vanished"}) => Service!Waits({"Vanished"})'
      BY <1>0, <1>4, PoppedSays
    <2>2. ASSUME NEW i \in 1..Len(bus'), Service!Says(i, {"Appeared"})'
          PROVE  /\ ~user.up => Service!After(i, {"Vanished"})'
                 /\ activity.proxy => Service!Before(i, {"Vanished"})'
                 /\ \A j \in 1..(i - 1) : Service!Says(j, {"Appeared"})'
                      => Service!Between(j, i, {"Vanished"})'
      <3>1. i + 1 \in 1..Len(bus) /\ Service!Says(i + 1, {"Appeared"})
        BY <1>4, <2>2, PoppedSays
      <3>2. ~user.up => Service!After(i, {"Vanished"})'
        <4>1. ~user.up => Service!After(i + 1, {"Vanished"})
          BY <3>1 DEF Service!PresenceKept
        <4>2. i \in 0..Len(bus')
          BY <2>0
        <4> QED BY <1>4, <4>1, <4>2, PoppedSays
      <3>3. activity.proxy => Service!Before(i, {"Vanished"})'
        <4>1. activity.proxy => Service!Before(i + 1, {"Vanished"})
          BY <3>1 DEF Service!PresenceKept
        <4>2. i \in 1..(Len(bus') + 1) /\ bus[1].kind \notin {"Vanished"}
          BY <1>0, <1>4, <2>0
        <4> QED BY <1>4, <4>1, <4>2, PoppedSays
      <3>4. ASSUME NEW j \in 1..(i - 1), Service!Says(j, {"Appeared"})'
                     PROVE Service!Between(j, i, {"Vanished"})'
        <4>1. j \in 1..Len(bus') /\ j \in 0..Len(bus') /\ i \in 1..(Len(bus') + 1)
              /\ j + 1 \in 1..(i + 1 - 1)
          BY <2>0
        <4>2. Service!Says(j + 1, {"Appeared"})
          BY <1>4, <3>4, <4>1, PoppedSays
        <4>3. Service!Between(j + 1, i + 1, {"Vanished"})
          <5>1. PICK n \in 1..Len(bus) : n = i + 1
            BY <3>1
          <5>2. \A k \in 1..(n - 1) : Service!Says(k, {"Appeared"})
                  => Service!Between(k, n, {"Vanished"})
            BY <3>1, <5>1 DEF Service!PresenceKept
          <5>3. j + 1 \in 1..(n - 1)
            BY <4>1, <5>1
          <5> QED BY <4>2, <5>1, <5>2, <5>3
        <4> QED BY <1>4, <4>1, <4>3, PoppedSays
      <3> QED BY <3>2, <3>3, <3>4
    <2> QED BY <1>1, <1>4, <2>1, <2>2 DEF Pops
  <1> QED BY <1>2, <1>3, <1>4 DEF Quiet

(* The same of the watches.                                                 *)
LEMMA WatchesQuiet ==
  ASSUME bus \in Seq(Service!Messages), Service!WatchesKept, Quiet(Presence \cup {"WatchFired"}),
         activity' = activity, user' = user
  PROVE  Service!WatchesKept'
  <1> DEFINE kinds == {"Appeared", "Vanished"}
  <1>1. CASE bus' = bus
    BY <1>1 DEF Service!WatchesKept, Service!Waits, Service!After, Service!Between, Service!Says,
       Service!Fires
  <1>2. ASSUME Service!Waits(kinds) => Service!Waits(kinds)',
               \A w : Service!Fires(w) => Service!Fires(w)'
        PROVE  Service!WatchesKept'
    BY <1>2 DEF Service!WatchesKept
  <1>3. CASE Grows
    <2>1. Service!Waits(kinds) => Service!Waits(kinds)'
      BY <1>3, GrownSays
    <2>2. bus' \in Seq(Service!Messages) /\ \A i \in 1..Len(bus) : i \in 1..Len(bus')
          /\ bus'[i] = bus[i]
      BY <1>3 DEF Grows
    <2>3. \A m : m \in Service!Range(bus) => m \in Service!Range(bus')
      BY <2>2 DEF Service!Range
    <2> QED BY <1>2, <2>1, <2>3 DEF Service!Fires
  <1>4. CASE Pops /\ bus[1].kind \notin Presence \cup {"WatchFired"}
    <2>1. Service!Waits(kinds) => Service!Waits(kinds)'
      BY <1>4, PoppedSays DEF Presence
    <2>2. bus' \in Seq(Service!Messages) /\ Len(bus') \in Nat /\ Len(bus) = Len(bus') + 1
      BY <1>4 DEF Pops
    <2>3. \A k \in 2..Len(bus) : k - 1 \in 1..Len(bus') /\ bus'[k - 1] = bus[k]
      BY <1>4, <2>2 DEF Pops
    <2>4. ASSUME NEW w, Service!Fires(w) PROVE Service!Fires(w)'
      <3>1. PICK k \in 1..Len(bus) : bus[k] = [kind |-> "WatchFired", id |-> w]
        BY <2>4, InBus DEF Service!Fires
      <3>2. k # 1
        BY <1>4, <3>1
      <3>3. k \in 2..Len(bus)
        BY <3>2, <2>2
      <3>4. bus'[k - 1] = [kind |-> "WatchFired", id |-> w] /\ k - 1 \in 1..Len(bus')
        BY <2>3, <3>1, <3>3
      <3> QED BY <2>2, <3>4 DEF Service!Fires, Service!Range
    <2> QED BY <1>2, <2>1, <2>4
  <1> QED BY <1>1, <1>3, <1>4 DEF Quiet

(* The same of the screen saver.                                            *)
Saver == {"Owner", "Active"}

(* Messages about something else leave what is known of the saver as it is. *)
LEMMA SaverQuiet ==
  ASSUME bus \in Seq(Service!Messages), Service!SaverKept, Quiet(Saver), UNCHANGED Service!saverVars
  PROVE  Service!SaverKept'
  <1> DEFINE O == {"Owner"}
             B == {"Owner", "Active"}
  <1>0. \A k : k \in O \/ k = "Active" => k \in Saver
    BY DEF Saver
  <1>1. CASE bus' = bus
    BY <1>1 DEF Service!SaverKept, Service!Waits, Service!After, Service!Before, Service!Between,
       Service!Says, Service!saverVars
  <1>2. ASSUME Service!Waits(O) => Service!Waits(O)', Service!Waits(B) => Service!Waits(B)',
               \A i \in 1..Len(bus') :
                 /\ Service!Says(i, O)' => bus'[i].owned = truth.gnome \/ Service!After(i, O)'
                 /\ Service!Says(i, {"Active"})' =>
                      /\ saver.gnome \/ Service!Before(i, O)'
                      /\ \A j \in 1..(i - 1) : Service!Says(j, O)'
                         /\ ~bus'[j].owned => Service!Between(j, i, O)'
                      /\ ~truth.gnome \/ Service!After(i, B)' \/ bus'[i].active = truth.saving
        PROVE  Service!SaverKept'
    BY <1>2 DEF Service!SaverKept, Service!saverVars
  <1>3. CASE Grows /\ \A i \in (Len(bus) + 1)..Len(bus') : bus'[i].kind \notin Saver
    <2>0. Len(bus) \in Nat
      BY <1>3 DEF Grows
    <2>1. /\ \A i \in 0..Len(bus) : Service!After(i, O) => Service!After(i, O)'
          /\ \A i \in 0..Len(bus), j \in 1..(Len(bus) + 1) : Service!Between(i, j, O)'
               <=> Service!Between(i, j, O)
          /\ \A i \in 1..Len(bus) : Service!Says(i, O)' <=> Service!Says(i, O)
          /\ Service!Waits(O) => Service!Waits(O)'
      BY <1>3, GrownSays
    <2>2. (\A i \in 0..Len(bus) : Service!After(i, B) => Service!After(i, B)')
          /\ (Service!Waits(B) => Service!Waits(B)')
      BY <1>3, GrownSays
    <2>3. \A i \in 1..Len(bus) : (Service!Says(i, {"Active"})' <=> Service!Says(i, {"Active"}))
          /\ bus'[i] = bus[i]
      BY <1>3, GrownSays DEF Grows
    <2>4. ASSUME NEW i \in 1..Len(bus')
          PROVE  /\ Service!Says(i, O)' => bus'[i].owned = truth.gnome \/ Service!After(i, O)'
                 /\ Service!Says(i, {"Active"})' =>
                      /\ saver.gnome \/ Service!Before(i, O)'
                      /\ \A j \in 1..(i - 1) : Service!Says(j, O)'
                         /\ ~bus'[j].owned => Service!Between(j, i, O)'
                      /\ ~truth.gnome \/ Service!After(i, B)' \/ bus'[i].active = truth.saving
      <3>1. CASE i \in (Len(bus) + 1)..Len(bus')
        BY <1>0, <1>3, <3>1 DEF Service!Says
      <3>2. CASE i \in 1..Len(bus)
        <4>1. i \in 0..Len(bus) /\ i \in 1..(Len(bus) + 1) /\ 0 \in 0..Len(bus)
              /\ \A j \in 1..(i - 1) : j \in 0..Len(bus) /\ j \in 1..Len(bus)
          BY <2>0, <3>2
        <4>2. Service!Says(i, O)' => bus'[i].owned = truth.gnome \/ Service!After(i, O)'
          BY <2>1, <2>3, <3>2, <4>1 DEF Service!SaverKept
        <4>3. ASSUME Service!Says(i, {"Active"})'
              PROVE  /\ saver.gnome \/ Service!Before(i, O)'
                     /\ \A j \in 1..(i - 1) : Service!Says(j, O)'
                        /\ ~bus'[j].owned => Service!Between(j, i, O)'
                     /\ ~truth.gnome \/ Service!After(i, B)' \/ bus'[i].active = truth.saving
          <5>1. /\ saver.gnome \/ Service!Before(i, O)
                /\ \A j \in 1..(i - 1) : Service!Says(j, O)
                   /\ ~bus[j].owned => Service!Between(j, i, O)
                /\ ~truth.gnome \/ Service!After(i, B) \/ bus[i].active = truth.saving
            BY <2>3, <3>2, <4>3 DEF Service!SaverKept
          <5>2. Service!Before(i, O)' <=> Service!Before(i, O)
            BY <2>1, <4>1 DEF Service!Before
          <5>3. \A j \in 1..(i - 1) : (Service!Between(j, i, O)' <=> Service!Between(j, i, O))
                /\ (Service!Says(j, O)' <=> Service!Says(j, O))
            BY <2>1, <4>1
          <5>4. \A j \in 1..(i - 1) : Service!Says(j, O)'
                /\ ~bus'[j].owned => Service!Between(j, i, O)'
            BY <2>3, <4>1, <5>1, <5>3
          <5>5. Service!After(i, B) => Service!After(i, B)'
            BY <2>2, <4>1
          <5> QED BY <2>3, <3>2, <5>1, <5>2, <5>4, <5>5
        <4> QED BY <4>2, <4>3
      <3> QED BY <2>0, <3>1, <3>2
    <2> HIDE DEF O, B
    <2> QED BY <1>2, <2>1, <2>2, <2>4
  <1>4. CASE Pops /\ bus[1].kind \notin Saver
    <2>0. Len(bus') \in Nat /\ Len(bus) = Len(bus') + 1
      BY <1>4 DEF Pops
    <2>1. /\ \A i \in 0..Len(bus') : Service!After(i, O)' <=> Service!After(i + 1, O)
          /\ \A i \in 0..Len(bus'), j \in 1..(Len(bus') + 1) :
               Service!Between(i, j, O)' <=> Service!Between(i + 1, j + 1, O)
          /\ \A i \in 1..Len(bus') : Service!Says(i, O)' <=> Service!Says(i + 1, O)
          /\ Service!Waits(O) => Service!Waits(O)'
          /\ \A i \in 1..(Len(bus') + 1) : Service!Before(i + 1, O) => Service!Before(i, O)'
      BY <1>0, <1>4, PoppedSays
    <2>2. (\A i \in 0..Len(bus') : Service!After(i, B)' <=> Service!After(i + 1, B))
          /\ (Service!Waits(B) => Service!Waits(B)')
      BY <1>0, <1>4, PoppedSays
    <2>3. \A i \in 1..Len(bus') : /\ Service!Says(i, {"Active"})'
                                       <=> Service!Says(i + 1, {"Active"})
                                  /\ bus'[i] = bus[i + 1] /\ i + 1 \in 1..Len(bus)
      BY <1>4, PoppedSays DEF Pops
    <2>4. ASSUME NEW i \in 1..Len(bus')
          PROVE  /\ Service!Says(i, O)' => bus'[i].owned = truth.gnome \/ Service!After(i, O)'
                 /\ Service!Says(i, {"Active"})' =>
                      /\ saver.gnome \/ Service!Before(i, O)'
                      /\ \A j \in 1..(i - 1) : Service!Says(j, O)'
                         /\ ~bus'[j].owned => Service!Between(j, i, O)'
                      /\ ~truth.gnome \/ Service!After(i, B)' \/ bus'[i].active = truth.saving
      <3>1. PICK n \in 1..Len(bus) : n = i + 1
        BY <2>3
      <3>2. i \in 0..Len(bus') /\ i \in 1..(Len(bus') + 1)
            /\ \A j \in 1..(i - 1) : j \in 0..Len(bus') /\ j \in 1..Len(bus')
               /\ j + 1 \in 1..(n - 1)
        BY <2>0, <3>1
      <3>3. Service!Says(i, O)' => bus'[i].owned = truth.gnome \/ Service!After(i, O)'
        BY <2>1, <2>3, <3>1, <3>2 DEF Service!SaverKept
      <3>4. ASSUME Service!Says(i, {"Active"})'
            PROVE  /\ saver.gnome \/ Service!Before(i, O)'
                   /\ \A j \in 1..(i - 1) : Service!Says(j, O)'
                      /\ ~bus'[j].owned => Service!Between(j, i, O)'
                   /\ ~truth.gnome \/ Service!After(i, B)' \/ bus'[i].active = truth.saving
        <4>1. /\ saver.gnome \/ Service!Before(n, O)
              /\ \A j \in 1..(n - 1) : Service!Says(j, O)
                 /\ ~bus[j].owned => Service!Between(j, n, O)
              /\ ~truth.gnome \/ Service!After(n, B) \/ bus[n].active = truth.saving
          BY <2>3, <3>1, <3>4 DEF Service!SaverKept
        <4>2. Service!Before(n, O) => Service!Before(i, O)'
          BY <2>1, <3>1, <3>2
        <4>3. ASSUME NEW j \in 1..(i - 1), Service!Says(j, O)',
                     ~bus'[j].owned PROVE Service!Between(j, i, O)'
          <5>1. Service!Says(j + 1, O) /\ bus'[j] = bus[j + 1] /\ j + 1 \in 1..(n - 1)
            BY <2>1, <2>3, <3>2, <4>3
          <5>2. Service!Between(j + 1, n, O)
            BY <4>1, <4>3, <5>1
          <5> QED BY <2>1, <3>1, <3>2, <5>2
        <4>4. Service!After(n, B) => Service!After(i, B)'
          BY <2>2, <3>1, <3>2
        <4> QED BY <2>3, <3>1, <4>1, <4>2, <4>3, <4>4
      <3> QED BY <3>3, <3>4
    <2> HIDE DEF O, B
    <2> QED BY <1>2, <2>1, <2>2, <2>4
  <1> QED BY <1>1, <1>3, <1>4 DEF Quiet

-----------------------------------------------------------------------------
(* A message that is sent or handled, and what it has no part in.           *)
LEMMA SentQuiet ==
  ASSUME bus \in Seq(Service!Messages), NEW m \in Service!Messages, bus' = Append(bus, m),
         NEW kinds, m.kind \notin kinds
  PROVE  Quiet(kinds)
  <1>1. Grows /\ Len(bus') = Len(bus) + 1 /\ bus'[Len(bus) + 1] = m
    BY SentGrows
  <1>2. \A i \in (Len(bus) + 1)..Len(bus') : i = Len(bus) + 1
    BY <1>1
  <1> QED BY <1>1, <1>2 DEF Quiet

(* A message that is handled is none of the kinds it is not of.             *)
LEMMA TakenQuiet ==
  ASSUME bus \in Seq(Service!Messages), bus # <<>>, bus' = Tail(bus), NEW kinds,
         bus[1].kind \notin kinds
  PROVE  Quiet(kinds)
  BY TakenPops DEF Quiet

(* A step without messages of some kinds is one without messages of fewer.  *)
LEMMA FewerQuiet ==
  ASSUME NEW kinds, NEW fewer, fewer \subseteq kinds, Quiet(kinds)
  PROVE  Quiet(fewer)
  BY DEF Quiet

(* The bus, typed.                                                          *)
LEMMA BusTyped ==
  ASSUME bus \in Seq(Service!Messages)
  PROVE  /\ \A m \in Service!Messages : bus' = Append(bus, m) => bus' \in Seq(Service!Messages)
         /\ bus # <<>> /\ bus' = Tail(bus) => bus' \in Seq(Service!Messages)
         /\ \A i \in 1..Len(bus) : bus[i] \in Service!Messages
         /\ Len(bus) \in Nat
  <1>1. ASSUME bus # <<>>, bus' = Tail(bus) PROVE bus' \in Seq(Service!Messages)
    BY <1>1, TakenPops DEF Pops
  <1> QED BY <1>1, ElementOfSeq

-----------------------------------------------------------------------------
(* Inhibitors.                                                              *)

(* What a client sends: all that are on the bus stay, but one that is told  *)
(* to have left.                                                            *)
LEMMA ClientsSent ==
  ASSUME bus \in Seq(Service!Messages), Service!ClientsKept, NEW m \in Service!Messages,
         bus' = Append(bus, m),
         UNCHANGED <<inhibitors, fds>>, on' \subseteq on, granted' \subseteq granted,
         \A s \in on \ on' : m = Word(s), \A c \in granted' : inhibitors[c] \in on',
         m.kind = "Gone" => m.sender \notin on', m.kind = "Inhibit" => m.sender \in on'
  PROVE  Service!ClientsKept'
  <1>1. Grows /\ Len(bus') = Len(bus) + 1 /\ bus'[Len(bus) + 1] = m
    BY SentGrows
  <1>2. bus' \in Seq(Service!Messages) /\ Len(bus) \in Nat
    BY BusTyped
  <1>3. Len(bus) + 1 \in 1..Len(bus')
    BY <1>1, <1>2
  <1>4. \A i \in 1..Len(bus) : i \in 1..Len(bus') /\ bus'[i] = bus[i]
        /\ Len(bus) + 1 \in (i + 1)..Len(bus')
    BY <1>1, <1>2 DEF Grows
  <1>5. Service!InhibitorsOwned'
    <2>1. \A x : x \in Service!Range(bus') <=> \E k \in 1..Len(bus') : bus'[k] = x
      BY <1>2, Listed
    <2>2. ASSUME NEW c \in DOMAIN inhibitors
          PROVE  inhibitors[c] \in on' \/ \E k \in 1..Len(bus') : bus'[k] = Word(inhibitors[c])
      <3>1. inhibitors[c] \in on \/ \E k \in 1..Len(bus) : bus[k] = Word(inhibitors[c])
        BY InBus DEF Service!ClientsKept, Service!InhibitorsOwned, Word
      <3> QED BY <1>1, <1>3, <1>4, <3>1
    <2>3. fds = DOMAIN inhibitors /\ granted' \subseteq DOMAIN inhibitors
      BY DEF Service!ClientsKept, Service!InhibitorsOwned
    <2> QED BY <2>1, <2>2, <2>3 DEF Service!InhibitorsOwned, Word
  <1>6. ASSUME NEW i \in 1..Len(bus')
        PROVE  /\ Service!Says(i, {"Gone"})' => bus'[i].sender \notin on'
               /\ Service!Says(i, {"Inhibit"})' =>
                    bus'[i].sender \in on'
                      \/ \E k \in (i + 1)..Len(bus') : bus'[k] = Word(bus'[i].sender)
    <2>1. CASE i \in 1..Len(bus)
      <3>1. \A k \in (i + 1)..Len(bus) : k \in (i + 1)..Len(bus') /\ bus'[k] = bus[k]
        BY <1>1, <1>2, <2>1 DEF Grows
      <3>2. /\ Service!Says(i, {"Gone"}) => bus[i].sender \notin on
            /\ Service!Says(i, {"Inhibit"}) =>
                 bus[i].sender \in on \/ \E k \in (i + 1)..Len(bus) : bus[k] = Word(bus[i].sender)
        BY <2>1 DEF Service!ClientsKept, Word
      <3> QED BY <1>1, <1>4, <2>1, <3>1, <3>2 DEF Service!Says
    <2>2. CASE i = Len(bus) + 1
      BY <1>1, <2>2 DEF Service!Says
    <2> QED BY <1>1, <1>2, <2>1, <2>2
  <1> QED BY <1>5, <1>6 DEF Service!ClientsKept, Word

(* What the service does with the message of a client.                      *)
LEMMA ClientsTaken ==
  ASSUME bus \in Seq(Service!Messages), Service!ClientsKept, bus # <<>>, bus' = Tail(bus), on' = on,
         fds' = DOMAIN inhibitors', granted' \subseteq DOMAIN inhibitors',
         \A c \in granted' : inhibitors'[c] \in on,
         \A c \in DOMAIN inhibitors' :
           inhibitors'[c] \in on \/ \E k \in 2..Len(bus) : bus[k] = Word(inhibitors'[c])
  PROVE  Service!ClientsKept'
  <1>1. Pops
    BY TakenPops
  <1>2. Len(bus) = Len(bus') + 1 /\ Len(bus') \in Nat /\ bus' \in Seq(Service!Messages)
    BY <1>1 DEF Pops
  <1>3. \A k \in 2..Len(bus) : k - 1 \in 1..Len(bus') /\ bus'[k - 1] = bus[k]
    BY <1>1, <1>2 DEF Pops
  <1>4. Service!InhibitorsOwned'
    <2>1. \A x : x \in Service!Range(bus') <=> \E k \in 1..Len(bus') : bus'[k] = x
      BY <1>2, Listed
    <2>2. ASSUME NEW c \in DOMAIN inhibitors'
          PROVE  inhibitors'[c] \in on' \/ \E k \in 1..Len(bus') : bus'[k] = Word(inhibitors'[c])
      BY <1>3
    <2>3. fds' = DOMAIN inhibitors' /\ granted' \subseteq DOMAIN inhibitors'
      OBVIOUS
    <2> QED BY <2>1, <2>2, <2>3 DEF Service!InhibitorsOwned, Word
  <1>5. ASSUME NEW i \in 1..Len(bus')
        PROVE  /\ Service!Says(i, {"Gone"})' => bus'[i].sender \notin on'
               /\ Service!Says(i, {"Inhibit"})' =>
                    bus'[i].sender \in on'
                      \/ \E k \in (i + 1)..Len(bus') : bus'[k] = Word(bus'[i].sender)
    <2>1. PICK n \in 1..Len(bus) : n = i + 1 /\ bus'[i] = bus[n]
      BY <1>1, <1>2 DEF Pops
    <2>2. \A k \in (n + 1)..Len(bus) : k - 1 \in (i + 1)..Len(bus') /\ bus'[k - 1] = bus[k]
      BY <1>2, <1>3, <2>1
    <2>3. /\ Service!Says(n, {"Gone"}) => bus[n].sender \notin on
          /\ Service!Says(n, {"Inhibit"}) =>
               bus[n].sender \in on \/ \E k \in (n + 1)..Len(bus) : bus[k] = Word(bus[n].sender)
      BY DEF Service!ClientsKept, Word
    <2>4. \A kinds : (Service!Says(i, kinds)' <=> bus'[i].kind \in kinds)
          /\ (Service!Says(n, kinds) <=> bus[n].kind \in kinds)
      BY DEF Service!Says
    <2> QED BY <2>1, <2>2, <2>3, <2>4
  <1> QED BY <1>4, <1>5 DEF Service!ClientsKept, Word

(* What the clients' steps do not say.                                      *)
Others == Presence \cup {"WatchFired"} \cup Saver

(* The steps about inhibitors.                                              *)
ClientStep ==
  \/ \E s \in IdleClients : Service!AsksInhibit(s) \/ Service!AsksUnInhibit(s) \/ Service!Leaves(s)
  \/ Service!Inhibit \/ Service!UnInhibit \/ Service!SenderGone

(* No message of a client is one of the monitor, a watch or the saver.      *)
LEMMA OtherKinds ==
  /\ "Inhibit" \notin Others /\ "UnInhibit" \notin Others /\ "Gone" \notin Others
  /\ Presence \cup {"WatchFired"} \subseteq Others /\ Presence \subseteq Others
     /\ Saver \subseteq Others
  BY DEF Others, Presence, Saver

(* No inhibitor outlives its client or is given back by another one.        *)
LEMMA ClientStepKeeps ==
  ASSUME Service!IInv, ClientStep
  PROVE  Service!Typed' /\ Service!ClientsKept' /\ Quiet(Others)
         /\ UNCHANGED <<Service!activityVars, Service!saverVars>>
  <1>1. bus \in Seq(Service!Messages) /\ Service!ClientsKept /\ on \subseteq IdleClients
        /\ next \in Nat
        /\ DOMAIN inhibitors \subseteq 1..next
    BY DEF Service!IInv, Service!Typed, Service!TypeOK
  <1>0. UNCHANGED <<Service!activityVars, Service!saverVars>>
    BY DEF ClientStep, Service!AsksInhibit, Service!AsksUnInhibit, Service!Leaves, Service!Inhibit,
       Service!UnInhibit, Service!SenderGone
  <1>2. ASSUME bus' \in Seq(Service!Messages), next' \in Nat, on' \subseteq IdleClients,
               DOMAIN inhibitors' \subseteq 1..next'
        PROVE  Service!Typed'
    BY <1>0, <1>2 DEF Service!IInv, Service!Typed, Service!TypeOK, Service!activityVars,
       Service!saverVars
  <1>3. ASSUME NEW s \in IdleClients,
               Service!AsksInhibit(s) \/ Service!AsksUnInhibit(s) \/ Service!Leaves(s)
        PROVE  Service!Typed' /\ Service!ClientsKept' /\ Quiet(Others)
    <2>1. PICK m \in Service!Messages :
            /\ bus' = Append(bus, m)
            /\ m.kind \in {"Inhibit", "UnInhibit", "Gone"}
            /\ m.kind = "Gone" => m.sender \notin on'
            /\ m.kind = "Inhibit" => m.sender \in on'
            /\ \A t \in on \ on' : m = Word(t)
      <3>1. CASE Service!AsksInhibit(s)
        <4>1. [kind |-> "Inhibit", sender |-> s] \in Service!Messages
          BY DEF Service!Messages
        <4> QED BY <3>1, <4>1 DEF Service!AsksInhibit, Service!Send, Service!inhibitVars
      <3>2. CASE Service!AsksUnInhibit(s)
        <4>1. PICK c \in 1..next : Service!Send([kind |-> "UnInhibit", sender |-> s, cookie |-> c])
          BY <3>2 DEF Service!AsksUnInhibit
        <4>2. [kind |-> "UnInhibit", sender |-> s, cookie |-> c] \in Service!Messages
          BY <1>1 DEF Service!Messages
        <4> QED BY <3>2, <4>1, <4>2 DEF Service!AsksUnInhibit, Service!Send, Service!inhibitVars
      <3>3. CASE Service!Leaves(s)
        <4>1. Word(s) \in Service!Messages /\ Word(s).kind = "Gone" /\ Word(s).sender = s
          BY DEF Service!Messages, Word
        <4>2. bus' = Append(bus, Word(s)) /\ on' = on \ {s}
          BY <3>3 DEF Service!Leaves, Service!Send, Word
        <4> QED BY <4>1, <4>2
      <3> QED BY <1>3, <3>1, <3>2, <3>3
    <2>2. UNCHANGED <<inhibitors, fds, next>> /\ on' \subseteq on /\ granted' \subseteq granted
          /\ \A c \in granted' : inhibitors[c] \in on'
      <3>1. \A c \in granted : inhibitors[c] \in on
        BY <1>1 DEF Service!ClientsKept
      <3> QED BY <1>3, <3>1 DEF Service!AsksInhibit, Service!AsksUnInhibit, Service!Leaves,
          Service!inhibitVars
    <2>3. Service!ClientsKept'
      BY <1>1, <2>1, <2>2, ClientsSent
    <2>4. Service!Typed'
      BY <1>1, <1>2, <2>1, <2>2, BusTyped
    <2>5. Quiet(Others)
      BY <1>1, <2>1, SentQuiet, OtherKinds
    <2> QED BY <2>3, <2>4, <2>5
  <1>4. ASSUME Service!Inhibit \/ Service!UnInhibit \/ Service!SenderGone
        PROVE  Service!Typed' /\ Service!ClientsKept' /\ Quiet(Others)
    <2>1. bus # <<>> /\ bus' = Tail(bus) /\ on' = on
          /\ bus[1].kind \in {"Inhibit", "UnInhibit", "Gone"}
      BY <1>4 DEF Service!Inhibit, Service!UnInhibit, Service!SenderGone, Service!Takes,
         Service!Head1
    <2>2. Quiet(Others)
      BY <1>1, <2>1, TakenQuiet, OtherKinds
    <2>3. 1 \in 1..Len(bus) /\ Len(bus) \in Nat /\ \A k \in 1..Len(bus) : k = 1 \/ k \in 2..Len(bus)
      BY <1>1, <2>1, TakenPops
    <2>4. \A c \in DOMAIN inhibitors :
            inhibitors[c] \in on \/ \E k \in 1..Len(bus) : bus[k] = Word(inhibitors[c])
      BY <1>1, InBus DEF Service!ClientsKept, Service!InhibitorsOwned, Word
    <2>5. \A s : Word(s).kind = "Gone" /\ Word(s).sender = s
      BY DEF Word
    <2>6. fds = DOMAIN inhibitors /\ granted \subseteq DOMAIN inhibitors
          /\ \A c \in granted : inhibitors[c] \in on
      BY <1>1 DEF Service!ClientsKept, Service!InhibitorsOwned
    <2>7. ASSUME bus[1].kind # "Gone", NEW c \in DOMAIN inhibitors
          PROVE  inhibitors[c] \in on \/ \E k \in 2..Len(bus) : bus[k] = Word(inhibitors[c])
      BY <2>3, <2>4, <2>5, <2>7
    <2>8. ASSUME next' \in Nat, DOMAIN inhibitors' \subseteq 1..next', fds' = DOMAIN inhibitors',
                 granted' \subseteq DOMAIN inhibitors', \A c \in granted' : inhibitors'[c] \in on,
                 \A c \in DOMAIN inhibitors' :
                   inhibitors'[c] \in on \/ \E k \in 2..Len(bus) : bus[k] = Word(inhibitors'[c])
          PROVE  Service!Typed' /\ Service!ClientsKept'
      <3>1. Service!ClientsKept'
        BY <1>1, <2>1, <2>8, ClientsTaken
      <3>2. Service!Typed'
        BY <1>1, <1>2, <2>1, <2>8, BusTyped
      <3> QED BY <3>1, <3>2
    <2>9. CASE UNCHANGED <<inhibitors, fds, granted, next>> /\ bus[1].kind # "Gone"
      BY <2>2, <1>1, <2>6, <2>7, <2>8, <2>9
    <2>10. CASE Service!Inhibit
      <3>1. bus[1].kind = "Inhibit"
        BY <2>10 DEF Service!Inhibit, Service!Takes, Service!Head1
      <3>2. CASE UNCHANGED <<inhibitors, fds, next, granted>>
        BY <2>9, <3>1, <3>2
      <3>3. CASE /\ next' = next + 1
                 /\ inhibitors' = Service!Holding(next + 1, bus[1].sender)
                 /\ fds' = fds \cup {next + 1}
                 /\ granted' = granted \cup IF bus[1].sender \in on THEN {next + 1} ELSE {}
        <4>1. next + 1 \notin DOMAIN inhibitors
          BY <1>1
        <4>2. /\ DOMAIN inhibitors' = DOMAIN inhibitors \cup {next + 1}
              /\ \A c \in DOMAIN inhibitors : inhibitors'[c] = inhibitors[c]
              /\ inhibitors'[next + 1] = bus[1].sender
          BY <3>3, <4>1 DEF Service!Holding
        <4>3. bus[1].sender \in on \/ \E k \in 2..Len(bus) : bus[k] = Word(bus[1].sender)
          <5>1. Service!Says(1, {"Inhibit"}) => bus[1].sender \in on
                  \/ \E k \in (1 + 1)..Len(bus) : bus[k] = Word(bus[1].sender)
            BY <1>1, <2>3 DEF Service!ClientsKept, Word
          <5> QED BY <3>1, <5>1 DEF Service!Says
        <4>4. \A c \in DOMAIN inhibitors' :
                inhibitors'[c] \in on \/ \E k \in 2..Len(bus) : bus[k] = Word(inhibitors'[c])
          BY <2>7, <3>1, <4>2, <4>3
        <4>5. DOMAIN inhibitors' \subseteq 1..next' /\ next' \in Nat
          BY <1>1, <3>3, <4>2
        <4>6. granted' \subseteq DOMAIN inhibitors' /\ \A c \in granted' : inhibitors'[c] \in on
          BY <2>6, <3>3, <4>2
        <4> QED BY <2>2, <2>6, <2>8, <3>3, <4>2, <4>4, <4>5, <4>6
      <3> QED BY <2>10, <3>2, <3>3 DEF Service!Inhibit, Service!Head1
    <2>11. CASE Service!UnInhibit
      <3>1. bus[1].kind = "UnInhibit" /\ next' = next
        BY <2>11 DEF Service!UnInhibit, Service!Takes, Service!Head1
      <3>2. CASE UNCHANGED <<inhibitors, fds, granted>>
        BY <2>9, <3>1, <3>2
      <3>3. CASE /\ Service!MayDrop(bus[1].cookie, bus[1].sender) /\ Service!Drop({bus[1].cookie})
                 /\ granted' = IF inhibitors[bus[1].cookie] = bus[1].sender
                               THEN granted \ {bus[1].cookie} ELSE granted
        <4>1. /\ DOMAIN inhibitors' = DOMAIN inhibitors \ {bus[1].cookie}
              /\ \A c \in DOMAIN inhibitors' : inhibitors'[c] = inhibitors[c]
              /\ fds' = fds \ {bus[1].cookie}
          BY <3>3 DEF Service!Drop, Service!Restrict
        <4>2. granted' = granted \ {bus[1].cookie}
          BY <3>3 DEF Service!MayDrop
        <4>3. \A c \in DOMAIN inhibitors' :
                inhibitors'[c] \in on \/ \E k \in 2..Len(bus) : bus[k] = Word(inhibitors'[c])
          BY <2>7, <3>1, <4>1
        <4> QED BY <2>2, <1>1, <2>6, <2>8, <3>1, <4>1, <4>2, <4>3
      <3> QED BY <2>11, <3>2, <3>3 DEF Service!UnInhibit, Service!Head1
    <2>12. CASE Service!SenderGone
      <3>1. bus[1].kind = "Gone" /\ Service!Drop(Service!Left(bus[1].sender))
            /\ UNCHANGED <<next, granted>>
        BY <2>12 DEF Service!SenderGone, Service!Takes, Service!Head1
      <3>2. /\ DOMAIN inhibitors' = DOMAIN inhibitors \ Service!Left(bus[1].sender)
            /\ \A c \in DOMAIN inhibitors' : inhibitors'[c] = inhibitors[c]
            /\ fds' = fds \ Service!Left(bus[1].sender)
        BY <3>1 DEF Service!Drop, Service!Restrict
      <3>3. \A c \in DOMAIN inhibitors' : inhibitors[c] # bus[1].sender
        BY <3>2 DEF Service!Left
      <3>4. bus[1].sender \notin on
        BY <1>1, <2>3, <3>1 DEF Service!ClientsKept, Service!Says
      <3>5. granted \subseteq DOMAIN inhibitors'
        BY <2>6, <3>2, <3>4 DEF Service!Left
      <3>6. \A c \in DOMAIN inhibitors' :
              inhibitors'[c] \in on \/ \E k \in 2..Len(bus) : bus[k] = Word(inhibitors'[c])
        BY <2>3, <2>4, <2>5, <3>2, <3>3
      <3> QED BY <2>2, <1>1, <2>6, <2>8, <3>1, <3>2, <3>5, <3>6
    <2> QED BY <1>4, <2>2, <2>10, <2>11, <2>12
  <1> QED BY <1>0, <1>3, <1>4 DEF ClientStep

-----------------------------------------------------------------------------
(* The screen saver.                                                        *)

(* What the bus says of who owns the saver, when a message is added.        *)
LEMMA SaverSent ==
  ASSUME bus \in Seq(Service!Messages), Service!SaverKept, NEW m \in Service!Messages,
         bus' = Append(bus, m),
         UNCHANGED <<saver, stream, served, unsure>>, truth'.locked = truth.locked,
         saver.gnome \in BOOLEAN, truth.gnome \in BOOLEAN, m.kind \in Saver,
         m.kind = "Owner" => m.owned = truth'.gnome,
         m.kind = "Active" => truth'.gnome = truth.gnome /\ truth.gnome /\ m.active = truth'.saving
  PROVE  Service!SaverKept'
  <1> DEFINE O == {"Owner"}
             A == {"Active"}
             B == {"Owner", "Active"}
  <1>0. /\ m.kind \in B /\ (m.kind \in O <=> m.kind = "Owner")
           /\ (m.kind \in A <=> m.kind = "Active")
        /\ m.kind = "Owner" \/ m.kind = "Active"
        /\ ~(m.kind = "Owner" /\ m.kind = "Active")
    BY DEF Saver
  <1>1. Grows /\ Len(bus') = Len(bus) + 1 /\ bus'[Len(bus) + 1] = m
    BY SentGrows
  <1>2. PICK n \in Nat : n = Len(bus)
    OBVIOUS
  <1>3. n + 1 \in (Len(bus) + 1)..Len(bus') /\ \A k \in (Len(bus) + 1)..Len(bus') : k = n + 1
    BY <1>1, <1>2
  <1>4. /\ \A i \in 1..n : Service!Says(i, O)' <=> Service!Says(i, O)
        /\ \A i \in 0..n, j \in 1..(n + 1) : Service!Between(i, j, O)' <=> Service!Between(i, j, O)
        /\ \A i \in 0..n : Service!After(i, O)' <=> Service!After(i, O) \/ m.kind \in O
        /\ Service!Waits(O)' <=> Service!Waits(O) \/ m.kind \in O
    BY <1>1, <1>2, <1>3, GrownSays
  <1>5. /\ \A i \in 0..n : Service!After(i, B)'
        /\ Service!Waits(B)'
    BY <1>0, <1>1, <1>2, <1>3, GrownSays
  <1>6. \A i \in 1..n : (Service!Says(i, A)' <=> Service!Says(i, A)) /\ bus'[i] = bus[i]
    BY <1>1, <1>2, GrownSays DEF Grows
  <1>7. /\ saver.gnome = truth.gnome \/ Service!Waits(O)
        /\ \A i \in 1..n :
             /\ Service!Says(i, O) => bus[i].owned = truth.gnome \/ Service!After(i, O)
             /\ Service!Says(i, A) =>
                  /\ saver.gnome \/ Service!Before(i, O)
                  /\ \A j \in 1..(i - 1) : Service!Says(j, O)
                     /\ ~bus[j].owned => Service!Between(j, i, O)
    BY <1>2 DEF Service!SaverKept
  <1>8. /\ \A i : Service!After(i, O) <=> Service!Between(i, n + 1, O)
        /\ Service!Waits(O) <=> Service!Between(0, n + 1, O)
        /\ \A i : Service!Before(i, O) <=> Service!Between(0, i, O)
        /\ \A i : Service!Before(i, O)' <=> Service!Between(0, i, O)'
        /\ \A i : (Service!Says(i, O)' <=> bus'[i].kind \in O)
           /\ (Service!Says(i, A)' <=> bus'[i].kind \in A)
    BY <1>2 DEF Service!After, Service!Before, Service!Waits, Service!Says
  <1>9. \A i \in 1..Len(bus') : i \in 1..n \/ i = n + 1
    BY <1>1, <1>2
  <1> HIDE DEF O, A, B
  <1>10. saver'.gnome = truth'.gnome \/ Service!Waits(O)'
    BY <1>0, <1>4, <1>7
  <1>11. ASSUME NEW i \in 1..Len(bus')
         PROVE  /\ Service!Says(i, O)' => bus'[i].owned = truth'.gnome \/ Service!After(i, O)'
                /\ Service!Says(i, A)' =>
                     /\ saver'.gnome \/ Service!Before(i, O)'
                     /\ \A j \in 1..(i - 1) : Service!Says(j, O)'
                        /\ ~bus'[j].owned => Service!Between(j, i, O)'
                     /\ ~truth'.gnome \/ Service!After(i, B)' \/ bus'[i].active = truth'.saving
    <2>1. CASE i \in 1..n
      <3>1. i \in 0..n /\ i \in 1..(n + 1) /\ 0 \in 0..n /\ \A j \in 1..(i - 1) : j \in 1..n
            /\ j \in 0..n
        BY <2>1
      <3>2. Service!Says(i, O)' => bus'[i].owned = truth'.gnome \/ Service!After(i, O)'
        BY <1>0, <1>4, <1>6, <1>7, <2>1, <3>1
      <3>3. ASSUME Service!Says(i, A)' PROVE saver'.gnome \/ Service!Before(i, O)'
        BY <1>4, <1>6, <1>7, <1>8, <2>1, <3>1, <3>3
      <3>4. ASSUME Service!Says(i, A)', NEW j \in 1..(i - 1), Service!Says(j, O)', ~bus'[j].owned
            PROVE  Service!Between(j, i, O)'
        <4>1. Service!Says(j, O) /\ ~bus[j].owned /\ Service!Says(i, A)
          BY <1>4, <1>6, <2>1, <3>1, <3>4
        <4> QED BY <1>4, <1>7, <2>1, <3>1, <4>1
      <3> QED BY <1>5, <3>1, <3>2, <3>3, <3>4
    <2>2. CASE i = n + 1
      <3>1. bus'[i] = m /\ 0 \in 0..n /\ n + 1 \in 1..(n + 1)
        BY <1>1, <1>2, <2>2
      <3>2. Service!Says(i, O)' => bus'[i].owned = truth'.gnome
        BY <1>0, <1>8, <3>1
      <3>3. ASSUME Service!Says(i, A)'
            PROVE  /\ saver'.gnome \/ Service!Before(i, O)'
                   /\ \A j \in 1..(i - 1) : Service!Says(j, O)'
                      /\ ~bus'[j].owned => Service!Between(j, i, O)'
                   /\ bus'[i].active = truth'.saving
        <4>1. m.kind = "Active" /\ truth.gnome
          BY <1>0, <1>8, <3>1, <3>3
        <4>2. saver'.gnome \/ Service!Before(i, O)'
          BY <1>4, <1>7, <1>8, <2>2, <3>1, <4>1
        <4>3. ASSUME NEW j \in 1..(i - 1), Service!Says(j, O)',
                     ~bus'[j].owned PROVE Service!Between(j, i, O)'
          <5>1. j \in 1..n /\ j \in 0..n
            BY <2>2
          <5>2. Service!Says(j, O) /\ ~bus[j].owned
            BY <1>4, <1>6, <4>3, <5>1
          <5>3. Service!After(j, O)
            BY <1>7, <4>1, <5>1, <5>2
          <5> QED BY <1>4, <1>8, <2>2, <3>1, <5>1, <5>3
        <4> QED BY <3>1, <4>1, <4>2, <4>3
      <3> QED BY <3>2, <3>3
    <2> QED BY <1>9, <2>1, <2>2
  <1> QED BY <1>5, <1>10, <1>11 DEF Service!SaverKept, O, A, B

(* The same, when the first message was about it.                           *)
LEMMA SaverTaken ==
  ASSUME bus \in Seq(Service!Messages), Service!SaverKept, bus # <<>>, bus' = Tail(bus),
         truth' = truth,
         bus[1].kind = "Owner" \/ (bus[1].kind = "Active" /\ saver'.gnome = saver.gnome),
         bus[1].kind = "Owner" => saver'.gnome = bus[1].owned,
         bus[1].kind = "Owner" => bus[1].owned \in BOOLEAN,
         ~truth.gnome \/ Service!After(1, {"Owner", "Active"}) \/ unsure'
            \/ saver'.active = truth.saving,
         served' /\ stream' # <<>> => stream'[Len(stream')] = truth.locked,
         ~saver'.gnome /\ saver'.connected /\ served'
          /\ stream' = <<>> => saver'.active = truth.locked
  PROVE  Service!SaverKept'
  <1> DEFINE O == {"Owner"}
             A == {"Active"}
             B == {"Owner", "Active"}
  <1>0. Pops /\ 1 \in 1..Len(bus)
    BY TakenPops
  <1>10. Len(bus') \in Nat /\ Len(bus) = Len(bus') + 1
    BY <1>0 DEF Pops
  <1>1. PICK l \in Nat : l = Len(bus') /\ Len(bus) = l + 1
    BY <1>10
  <1>2. /\ \A i \in 0..l : Service!After(i, O)' <=> Service!After(i + 1, O)
        /\ \A i \in 0..l, j \in 1..(l + 1) : Service!Between(i, j, O)'
             <=> Service!Between(i + 1, j + 1, O)
        /\ \A i \in 1..l : Service!Says(i, O)' <=> Service!Says(i + 1, O)
        /\ Service!Waits(O) <=> Service!Waits(O)' \/ bus[1].kind \in O
        /\ \A i \in 1..(l + 1) : Service!Before(i + 1, O) <=> Service!Before(i, O)'
             \/ bus[1].kind \in O
    BY <1>0, <1>1, PoppedSays
  <1>3. \A i \in 0..l : Service!After(i, B)' <=> Service!After(i + 1, B)
    BY <1>0, <1>1, PoppedSays
  <1>4. \A i \in 1..l : /\ Service!Says(i, A)' <=> Service!Says(i + 1, A)
                        /\ bus'[i] = bus[i + 1] /\ i + 1 \in 1..Len(bus)
    BY <1>0, <1>1, PoppedSays DEF Pops
  <1>5. /\ Service!Waits(O)' <=> Service!After(0, O)'
        /\ Service!Waits(B)' <=> Service!After(0, B)'
        /\ \A i : Service!Before(i, O)' <=> Service!Between(0, i, O)'
        /\ 0 \in 0..l /\ 0 + 1 = 1
        /\ bus[1].kind \in O <=> bus[1].kind = "Owner"
        /\ Service!Says(1, O) <=> bus[1].kind = "Owner"
    BY DEF Service!Waits, Service!Before, Service!Says
  <1>6. /\ saver.gnome = truth.gnome \/ Service!Waits(O)
        /\ \A i \in 1..Len(bus) :
             /\ Service!Says(i, O) => bus[i].owned = truth.gnome \/ Service!After(i, O)
             /\ Service!Says(i, A) =>
                  /\ saver.gnome \/ Service!Before(i, O)
                  /\ \A j \in 1..(i - 1) : Service!Says(j, O)
                     /\ ~bus[j].owned => Service!Between(j, i, O)
                  /\ ~truth.gnome \/ Service!After(i, B) \/ bus[i].active = truth.saving
    BY DEF Service!SaverKept
  <1> HIDE DEF O, A, B
  <1>7. saver'.gnome = truth.gnome \/ Service!Waits(O)'
    <2>1. CASE bus[1].kind = "Owner"
      <3>1. bus[1].owned = truth.gnome \/ Service!After(1, O)
        BY <1>0, <1>5, <1>6, <2>1
      <3> QED BY <1>2, <1>5, <2>1, <3>1
    <2>2. CASE bus[1].kind = "Active" /\ saver'.gnome = saver.gnome
      BY <1>2, <1>5, <1>6, <2>2
    <2> QED BY <2>1, <2>2
  <1>8. ASSUME NEW i \in 1..l
        PROVE  /\ Service!Says(i, O)' => bus'[i].owned = truth.gnome \/ Service!After(i, O)'
               /\ Service!Says(i, A)' =>
                    /\ saver'.gnome \/ Service!Before(i, O)'
                    /\ \A j \in 1..(i - 1) : Service!Says(j, O)'
                       /\ ~bus'[j].owned => Service!Between(j, i, O)'
                    /\ ~truth.gnome \/ Service!After(i, B)' \/ bus'[i].active = truth.saving
    <2>1. PICK n \in 1..Len(bus) : n = i + 1
      BY <1>4
    <2>2. i \in 0..l /\ i \in 1..(l + 1) /\ 1 \in 1..(n - 1)
          /\ \A j \in 1..(i - 1) : j \in 0..l /\ j \in 1..l /\ j + 1 \in 1..(n - 1)
      BY <2>1
    <2>3. Service!Says(i, O)' => bus'[i].owned = truth.gnome \/ Service!After(i, O)'
      BY <1>2, <1>4, <1>6, <2>1, <2>2
    <2>4. ASSUME Service!Says(i, A)'
          PROVE  /\ saver.gnome \/ Service!Before(n, O)
                 /\ \A j \in 1..(n - 1) : Service!Says(j, O)
                    /\ ~bus[j].owned => Service!Between(j, n, O)
                 /\ ~truth.gnome \/ Service!After(n, B) \/ bus[n].active = truth.saving
      BY <1>4, <1>6, <2>1, <2>4
    <2>5. ASSUME Service!Says(i, A)' PROVE saver'.gnome \/ Service!Before(i, O)'
      <3>1. CASE bus[1].kind = "Owner"
        <4>1. bus[1].owned \/ Service!Between(1, n, O)
          BY <1>5, <2>2, <2>4, <2>5, <3>1
        <4>2. Service!Between(1, n, O) => Service!Between(0, i, O)'
          BY <1>2, <1>5, <2>1, <2>2
        <4> QED BY <1>5, <3>1, <4>1, <4>2
      <3>2. CASE bus[1].kind = "Active" /\ saver'.gnome = saver.gnome
        BY <1>2, <1>5, <2>1, <2>2, <2>4, <2>5, <3>2
      <3> QED BY <3>1, <3>2
    <2>6. ASSUME Service!Says(i, A)', NEW j \in 1..(i - 1), Service!Says(j, O)',
                 ~bus'[j].owned PROVE Service!Between(j, i, O)'
      <3>1. Service!Says(j + 1, O) /\ bus'[j] = bus[j + 1] /\ j + 1 \in 1..(n - 1)
        BY <1>2, <1>4, <2>2, <2>6
      <3>2. Service!Between(j + 1, n, O)
        BY <2>4, <2>6, <3>1
      <3> QED BY <1>2, <2>1, <2>2, <3>2
    <2>7. ASSUME Service!Says(i, A)' PROVE ~truth.gnome \/ Service!After(i, B)'
                   \/ bus'[i].active = truth.saving
      BY <1>3, <1>4, <2>1, <2>2, <2>4, <2>7
    <2> QED BY <2>3, <2>5, <2>6, <2>7
  <1>9. ~truth.gnome \/ Service!Waits(B)' \/ unsure' \/ saver'.active = truth.saving
    BY <1>3, <1>5 DEF B
  <1> QED BY <1>1, <1>7, <1>8, <1>9 DEF Service!SaverKept, O, A, B

(* The same, when the bus stays.                                            *)
LEMMA SaverStays ==
  ASSUME Service!SaverKept, bus' = bus, saver'.gnome = saver.gnome, truth'.gnome = truth.gnome,
         truth'.saving = truth.saving,
         ~truth.gnome \/ Service!Waits({"Owner", "Active"}) \/ unsure'
            \/ saver'.active = truth.saving,
         served' /\ stream' # <<>> => stream'[Len(stream')] = truth'.locked,
         ~saver'.gnome /\ saver'.connected /\ served'
          /\ stream' = <<>> => saver'.active = truth'.locked
  PROVE  Service!SaverKept'
  BY DEF Service!SaverKept, Service!Waits, Service!After, Service!Before, Service!Between,
     Service!Says

(* The steps about the owner of the saver, and about the compositor's lock. *)
OwnerStep == Service!GnomeArrives \/ Service!GnomeLeaves \/ Service!GnomeChanges
  \/ Service!OwnerChanged \/ Service!ActiveChanged
LockStep == Service!LockChanges \/ Service!Hangup \/ Service!Retry \/ Service!Serve
  \/ Service!LockMessage

(* What the steps about the owner do not say.                               *)
Unlisted == Clients \cup Presence \cup {"WatchFired"}

(* No message of the saver's owner is one of a client or the monitor.       *)
LEMMA UnlistedKinds ==
  /\ "Owner" \notin Unlisted /\ "Active" \notin Unlisted
  /\ Presence \cup {"WatchFired"} \subseteq Unlisted /\ Presence \subseteq Unlisted
     /\ Clients \subseteq Unlisted
  BY DEF Unlisted, Presence, Clients

(* Types of the saver's part.                                               *)
LEMMA SaverTyped ==
  ASSUME Service!Typed, UNCHANGED <<Service!inhibitVars, Service!activityVars>>,
         bus' \in Seq(Service!Messages), stream' \in Seq(BOOLEAN),
         saver' \in [known : BOOLEAN, active : BOOLEAN, gnome : BOOLEAN, connected : BOOLEAN,
           retry : BOOLEAN],
         truth' \in [gnome : BOOLEAN, saving : BOOLEAN, locked : BOOLEAN],
         saver'.connected => ~saver'.retry
  PROVE  Service!Typed'
  BY DEF Service!Typed, Service!TypeOK, Service!inhibitVars, Service!activityVars

(* Whoever owns the saver and whatever it says, the last word is the        *)
(* owner's.                                                                 *)
LEMMA OwnerStepKeeps ==
  ASSUME Service!IInv, OwnerStep
  PROVE  Service!Typed' /\ Service!SaverKept' /\ Quiet(Unlisted)
         /\ UNCHANGED <<Service!inhibitVars, Service!activityVars>>
  <1> DEFINE Savers == [known : BOOLEAN, active : BOOLEAN, gnome : BOOLEAN, connected : BOOLEAN,
                        retry : BOOLEAN]
             Truths == [gnome : BOOLEAN, saving : BOOLEAN, locked : BOOLEAN]
  <1>1. /\ bus \in Seq(Service!Messages) /\ Service!SaverKept /\ Service!Typed
           /\ stream \in Seq(BOOLEAN)
        /\ saver \in Savers /\ truth \in Truths /\ (saver.connected => ~saver.retry)
    BY DEF Service!IInv, Service!Typed, Service!TypeOK
  <1>2. UNCHANGED <<Service!inhibitVars, Service!activityVars>>
    BY DEF OwnerStep, Service!GnomeArrives, Service!GnomeLeaves, Service!GnomeChanges,
       Service!OwnerChanged, Service!ActiveChanged
  <1>3. ASSUME NEW m \in Service!Messages, bus' = Append(bus, m),
               UNCHANGED <<saver, stream, served, unsure>>,
               truth' \in Truths, truth'.locked = truth.locked, m.kind \in Saver,
               m.kind = "Owner" => m.owned = truth'.gnome,
               m.kind = "Active" => truth'.gnome = truth.gnome /\ truth.gnome
               /\ m.active = truth'.saving
        PROVE  Service!Typed' /\ Service!SaverKept' /\ Quiet(Unlisted)
    <2>1. bus' \in Seq(Service!Messages)
      BY <1>1, <1>3, BusTyped
    <2>2. Service!Typed'
      BY <1>1, <1>2, <1>3, <2>1, SaverTyped
    <2>3. Service!SaverKept'
      BY <1>1, <1>3, SaverSent
    <2>4. m.kind \notin Unlisted
      BY <1>3, UnlistedKinds DEF Saver
    <2> QED BY <1>1, <1>3, <2>2, <2>3, <2>4, SentQuiet
  <1>4. ASSUME bus # <<>>, bus' = Tail(bus), bus[1].kind \in Saver, truth' = truth,
               stream' \in Seq(BOOLEAN), saver' \in Savers, saver'.connected => ~saver'.retry
        PROVE  Service!Typed' /\ Quiet(Unlisted)
    <2>1. bus' \in Seq(Service!Messages)
      BY <1>1, <1>4, BusTyped
    <2>2. Service!Typed'
      BY <1>1, <1>2, <1>4, <2>1, SaverTyped
    <2>3. bus[1].kind \notin Unlisted
      BY <1>4, UnlistedKinds DEF Saver
    <2> QED BY <1>1, <1>4, <2>2, <2>3, TakenQuiet
  <1>5. CASE Service!GnomeArrives
    <2>1. [kind |-> "Owner", owned |-> TRUE] \in Service!Messages
      BY DEF Service!Messages
    <2>2. truth' \in Truths /\ truth'.locked = truth.locked /\ truth'.gnome = TRUE
      BY <1>1, <1>5 DEF Service!GnomeArrives
    <2> QED BY <1>2, <1>3, <1>5, <2>1, <2>2 DEF Service!GnomeArrives, Service!Send, Saver
  <1>6. CASE Service!GnomeLeaves
    <2>1. [kind |-> "Owner", owned |-> FALSE] \in Service!Messages
      BY DEF Service!Messages
    <2>2. truth' \in Truths /\ truth'.locked = truth.locked /\ truth'.gnome = FALSE
      BY <1>1, <1>6 DEF Service!GnomeLeaves
    <2> QED BY <1>2, <1>3, <1>6, <2>1, <2>2 DEF Service!GnomeLeaves, Service!Send, Saver
  <1>7. CASE Service!GnomeChanges
    <2>1. [kind |-> "Active", active |-> ~truth.saving] \in Service!Messages
      BY <1>1 DEF Service!Messages
    <2>2. /\ truth' \in Truths /\ truth'.locked = truth.locked /\ truth'.gnome = truth.gnome
          /\ truth.gnome /\ truth'.saving = ~truth.saving
      BY <1>1, <1>7 DEF Service!GnomeChanges
    <2> QED BY <1>2, <1>3, <1>7, <2>1, <2>2 DEF Service!GnomeChanges, Service!Send, Saver
  <1>8. CASE Service!OwnerChanged
    <2>1. bus # <<>> /\ bus' = Tail(bus) /\ bus[1].kind = "Owner" /\ truth' = truth
      BY <1>8 DEF Service!OwnerChanged, Service!Takes, Service!Head1
    <2>2. bus[1] \in Service!Messages /\ 1 \in 1..Len(bus)
      BY <1>1, <2>1, TakenPops
    <2>3. bus[1].owned \in BOOLEAN
      BY <2>1, <2>2 DEF Service!Messages
    <2>4. bus[1].owned = truth.gnome \/ Service!After(1, {"Owner"})
      BY <1>1, <2>1, <2>2 DEF Service!SaverKept, Service!Says
    <2>5. Service!After(1, {"Owner"}) => Service!After(1, {"Owner", "Active"})
      BY DEF Service!After, Service!Between, Service!Says
    <2>6. CASE bus[1].owned
      <3>1. /\ saver'.gnome = TRUE /\ UNCHANGED <<stream, served>> /\ saver' \in Savers
            /\ saver'.connected = saver.connected /\ saver'.retry = saver.retry
            /\ unsure' \/ (truth.gnome /\ saver'.active = truth.saving)
        BY <1>1, <1>8, <2>3, <2>6 DEF Service!OwnerChanged, Service!Head1, Service!Publishes
      <3>2. served' /\ stream' # <<>> => stream'[Len(stream')] = truth.locked
        BY <1>1, <3>1 DEF Service!SaverKept
      <3>3. Service!SaverKept'
        BY <1>1, <2>1, <2>3, <2>6, <3>1, <3>2, SaverTaken
      <3> QED BY <1>1, <1>2, <1>4, <2>1, <3>1, <3>3 DEF Saver
    <2>7. CASE ~bus[1].owned
      <3>1. /\ saver'.gnome = FALSE /\ stream' = <<>> /\ ~served' /\ saver' \in Savers
            /\ ~saver'.connected
        BY <1>1, <1>8, <2>3, <2>7 DEF Service!OwnerChanged, Service!Head1, Service!LosesOwner,
           Service!Disconnects
      <3>2. ~truth.gnome \/ Service!After(1, {"Owner", "Active"})
        BY <1>1, <2>3, <2>4, <2>5, <2>7
      <3>3. Service!SaverKept'
        BY <1>1, <2>1, <2>3, <2>7, <3>1, <3>2, SaverTaken
      <3> QED BY <1>1, <1>2, <1>4, <2>1, <3>1, <3>3 DEF Saver
    <2> QED BY <2>3, <2>6, <2>7
  <1>9. CASE Service!ActiveChanged
    <2>1. bus # <<>> /\ bus' = Tail(bus) /\ bus[1].kind = "Active" /\ truth' = truth
          /\ UNCHANGED <<stream, served>>
      BY <1>9 DEF Service!ActiveChanged, Service!Takes, Service!Head1
    <2>2. bus[1] \in Service!Messages /\ 1 \in 1..Len(bus)
      BY <1>1, <2>1, TakenPops
    <2>3. bus[1].active \in BOOLEAN
      BY <2>1, <2>2 DEF Service!Messages
    <2>4. /\ saver' \in Savers /\ saver'.gnome = saver.gnome /\ saver'.active = bus[1].active
          /\ saver'.connected = saver.connected /\ saver'.retry = saver.retry
      BY <1>1, <1>9, <2>3 DEF Service!ActiveChanged, Service!Head1, Service!Publishes
    <2>5. ~Service!Before(1, {"Owner"})
      BY DEF Service!Before, Service!Between
    <2>6. saver.gnome /\ (~truth.gnome \/ Service!After(1, {"Owner", "Active"})
            \/ bus[1].active = truth.saving)
      BY <1>1, <2>1, <2>2, <2>5 DEF Service!SaverKept, Service!Says
    <2>7. served' /\ stream' # <<>> => stream'[Len(stream')] = truth.locked
      BY <1>1, <2>1 DEF Service!SaverKept
    <2>8. Service!SaverKept'
      BY <1>1, <2>1, <2>4, <2>6, <2>7, SaverTaken
    <2> QED BY <1>1, <1>2, <1>4, <2>1, <2>4, <2>8 DEF Saver
  <1> QED BY <1>5, <1>6, <1>7, <1>8, <1>9 DEF OwnerStep

(* The compositor's word reaches the service in order, or starts over.      *)
LEMMA LockStepKeeps ==
  ASSUME Service!IInv, LockStep
  PROVE  Service!Typed' /\ Service!SaverKept' /\ bus' = bus
         /\ UNCHANGED <<Service!inhibitVars, Service!activityVars>>
  <1> DEFINE Savers == [known : BOOLEAN, active : BOOLEAN, gnome : BOOLEAN, connected : BOOLEAN,
                        retry : BOOLEAN]
             Truths == [gnome : BOOLEAN, saving : BOOLEAN, locked : BOOLEAN]
  <1>1. /\ bus \in Seq(Service!Messages) /\ Service!SaverKept /\ Service!Typed
           /\ stream \in Seq(BOOLEAN)
        /\ saver \in Savers /\ truth \in Truths /\ (saver.connected => ~saver.retry)
    BY DEF Service!IInv, Service!Typed, Service!TypeOK
  <1>2. UNCHANGED <<Service!inhibitVars, Service!activityVars>> /\ bus' = bus
    BY DEF LockStep, Service!LockChanges, Service!Hangup, Service!Retry, Service!Serve,
       Service!LockMessage
  <1>3. /\ ~truth.gnome \/ Service!Waits({"Owner", "Active"}) \/ unsure
              \/ saver.active = truth.saving
        /\ served /\ stream # <<>> => stream[Len(stream)] = truth.locked
        /\ ~saver.gnome /\ saver.connected /\ served /\ stream = <<>> => saver.active = truth.locked
        /\ saver.gnome = truth.gnome \/ Service!Waits({"Owner"})
    BY <1>1 DEF Service!SaverKept
  <1>4. ASSUME stream' \in Seq(BOOLEAN), saver' \in Savers, truth' \in Truths,
               saver'.connected => ~saver'.retry,
               saver'.gnome = saver.gnome, truth'.gnome = truth.gnome, truth'.saving = truth.saving,
               ~truth.gnome \/ Service!Waits({"Owner", "Active"}) \/ unsure'
                  \/ saver'.active = truth.saving,
               served' /\ stream' # <<>> => stream'[Len(stream')] = truth'.locked,
               ~saver'.gnome /\ saver'.connected /\ served'
                /\ stream' = <<>> => saver'.active = truth'.locked
        PROVE  Service!Typed' /\ Service!SaverKept'
    BY <1>1, <1>2, <1>4, SaverStays, SaverTyped
  <1>5. CASE Service!LockChanges
    <2>1. /\ truth' \in Truths /\ truth'.gnome = truth.gnome /\ truth'.saving = truth.saving
          /\ UNCHANGED <<saver, served, unsure>>
          /\ stream' = IF served THEN Append(stream, truth'.locked) ELSE stream
      BY <1>1, <1>5 DEF Service!LockChanges
    <2>2. truth'.locked \in BOOLEAN
      BY <2>1
    <2>3. /\ stream' \in Seq(BOOLEAN)
          /\ served => stream' # <<>> /\ stream'[Len(stream')] = truth'.locked
      <3>1. CASE served
        <4>1. stream' = Append(stream, truth'.locked)
          BY <2>1, <3>1
        <4>2. /\ stream' \in Seq(BOOLEAN) /\ Len(stream') = Len(stream) + 1
              /\ stream'[Len(stream) + 1] = truth'.locked
          BY <1>1, <2>2, <4>1, AppendProperties
        <4>3. stream' # <<>>
          BY <1>1, <4>2, EmptySeq
        <4> QED BY <4>2, <4>3
      <3>2. CASE ~served
        BY <1>1, <2>1, <3>2
      <3> QED BY <3>1, <3>2
    <2> QED BY <1>2, <1>1, <1>3, <1>4, <2>1, <2>3
  <1>10. <<>> \in Seq(BOOLEAN)
    OBVIOUS
  <1>6. CASE Service!Hangup
    <2>1. /\ saver' = [saver EXCEPT !.connected = FALSE, !.retry = TRUE]
          /\ stream' = <<>> /\ served' = FALSE /\ UNCHANGED <<truth, unsure>>
      BY <1>6 DEF Service!Hangup, Service!Disconnects
    <2>2. /\ saver' \in Savers /\ ~saver'.connected /\ saver'.gnome = saver.gnome
          /\ saver'.active = saver.active
      BY <1>1, <2>1
    <2> QED BY <1>2, <1>1, <1>3, <1>4, <1>10, <2>1, <2>2
  <1>7. CASE Service!Retry
    <2>1. /\ saver' = [saver EXCEPT !.connected = TRUE, !.retry = FALSE]
          /\ stream' = <<>> /\ served' = FALSE /\ UNCHANGED <<truth, unsure>>
      BY <1>7 DEF Service!Retry
    <2>2. /\ saver' \in Savers /\ ~saver'.retry /\ saver'.gnome = saver.gnome
          /\ saver'.active = saver.active
      BY <1>1, <2>1
    <2> QED BY <1>2, <1>1, <1>3, <1>4, <1>10, <2>1, <2>2
  <1>8. CASE Service!Serve
    BY <1>1, <1>3, <1>4, <1>8 DEF Service!Serve
  <1>9. CASE Service!LockMessage
    <2>1. /\ stream # <<>> /\ stream' = Tail(stream) /\ UNCHANGED <<truth, served, unsure>>
          /\ saver' = IF saver.gnome THEN saver ELSE [saver EXCEPT !.known = TRUE,
               !.active = Head(stream)]
      BY <1>9 DEF Service!LockMessage, Service!Hears, Service!Publishes
    <2>2. PICK l \in Nat : Len(stream) = l + 1 /\ Len(stream') = l /\ stream' \in Seq(BOOLEAN)
                           /\ \A i \in 1..l : stream'[i] = stream[i + 1]
      <3>1. Len(stream) \in Nat \ {0}
        BY <1>1, <2>1, EmptySeq
      <3> QED BY <1>1, <2>1, <3>1
    <2>3. Head(stream) = stream[1] /\ stream[1] \in BOOLEAN
      BY <1>1, <2>2
    <2>4. stream' # <<>> => l # 0
      BY <2>2, EmptySeq
    <2>5. stream' # <<>> => stream'[Len(stream')] = stream[Len(stream)]
      BY <2>2, <2>4
    <2>6. stream' = <<>> => stream[1] = stream[Len(stream)]
      BY <2>2
    <2>7. /\ saver' \in Savers /\ saver'.connected = saver.connected /\ saver'.retry = saver.retry
          /\ saver'.gnome = saver.gnome
          /\ saver.gnome => saver'.active = saver.active
          /\ ~saver.gnome => saver'.active = stream[1]
      BY <1>1, <2>1, <2>3
    <2>8. Service!Waits({"Owner"}) => Service!Waits({"Owner", "Active"})
      BY DEF Service!Waits, Service!After, Service!Between, Service!Says
    <2>9. ~truth.gnome \/ Service!Waits({"Owner", "Active"}) \/ unsure'
             \/ saver'.active = truth.saving
      BY <1>1, <1>3, <2>1, <2>7, <2>8
    <2> QED BY <1>2, <1>1, <1>3, <1>4, <2>1, <2>2, <2>5, <2>6, <2>7, <2>9
  <1> QED BY <1>2, <1>5, <1>6, <1>7, <1>8, <1>9 DEF LockStep

-----------------------------------------------------------------------------
(* Mutter's idle monitor and the user's activity.                           *)

(* The message with which a watch fires.                                    *)
Firing(w) == [kind |-> "WatchFired", id |-> w]

(* The service counts as everyone does.                                     *)
LEMMA ServiceCounts ==
  /\ \A S : Service!Cardinality(S) = Cardinality(S)
  /\ \A f : Service!IsInjective(f) <=> IsInjective(f)
  BY DEF Service!Cardinality, Cardinality, Service!IsInjective, IsInjective

(* Of a finite set of watches all fire, and nothing else is said.           *)
LEMMA FiredListed ==
  ASSUME NEW S \in SUBSET Nat, NEW n \in Nat, S \subseteq 1..n
  PROVE  /\ Service!Fired(S) \in Seq(Service!Messages)
         /\ \A k \in 1..Len(Service!Fired(S)) : Service!Fired(S)[k].kind = "WatchFired"
         /\ \A w \in S : \E k \in 1..Len(Service!Fired(S)) : Service!Fired(S)[k] = Firing(w)
  <1> DEFINE M == {Firing(i) : i \in S}
             f == [i \in S |-> Firing(i)]
             q == Service!SetToSeq(M)
  <1>1. IsFiniteSet(S)
    <2>1. IsFiniteSet(1..n)
      BY FS_Interval
    <2> QED BY <2>1, FS_Subset
  <1>2. f \in Surjection(S, M)
    BY DEF Surjection
  <1>3. IsFiniteSet(M)
    <2> HIDE DEF M, f
    <2> QED BY <1>1, <1>2, FS_Surjection
  <1>4. PICK m \in Nat : m = Cardinality(M) /\ ExistsBijection(1..m, M)
    <2> HIDE DEF M
    <2> QED BY <1>3, FS_CardinalityType
  <1>5. PICK g \in [1..m -> M] : IsInjective(g)
    <2> HIDE DEF M
    <2> QED BY <1>4 DEF ExistsBijection, Bijection, Injection
  <1>6. q \in [1..m -> M] /\ IsInjective(q)
    <2> HIDE DEF M
    <2> QED BY <1>4, <1>5, ServiceCounts DEF Service!SetToSeq
  <1>7. q \in Surjection(1..m, M)
    <2> HIDE DEF M, q
    <2>1. q \in Injection(1..m, M)
      BY <1>6 DEF Injection
    <2>2. IsFiniteSet(1..m) /\ Cardinality(1..m) = m
      BY FS_Interval
    <2> QED BY <1>3, <1>4, <2>1, <2>2, FS_Injection
  <1>8. M \subseteq Service!Messages
    BY DEF Service!Messages, Firing
  <1>9. q \in Seq(Service!Messages) /\ Len(q) = m
    <2> HIDE DEF M, q
    <2>1. q \in Seq(Service!Messages)
      BY <1>6, <1>8 DEF Seq
    <2> QED BY <1>6, <2>1, LenProperties
  <1>10. \A k \in 1..m : q[k] \in M
    <2> HIDE DEF M, q
    <2> QED BY <1>6
  <1>11. \A x \in M : \E k \in 1..m : q[k] = x
    <2> HIDE DEF M, q
    <2> QED BY <1>7 DEF Surjection
  <1>12. /\ \A x \in M : x.kind = "WatchFired"
         /\ \A w \in S : Firing(w) \in M
    BY DEF Firing
  <1>13. Service!Fired(S) = q
    BY DEF Service!Fired, Firing
  <1> HIDE DEF M, q
  <1> QED BY <1>9, <1>10, <1>11, <1>12, <1>13

(* Messages that are neither about the monitor's presence nor a watch of    *)
(* the service leave what the bus says of either.                           *)
LEMMA PresenceStays ==
  ASSUME bus \in Seq(Service!Messages), Quiet(Presence)
  PROVE  Service!Waits({"Appeared", "Vanished"})' <=> Service!Waits({"Appeared", "Vanished"})
  <1>1. CASE bus' = bus
    BY <1>1 DEF Service!Waits, Service!After, Service!Between, Service!Says
  <1>2. CASE Grows /\ \A i \in (Len(bus) + 1)..Len(bus') : bus'[i].kind \notin Presence
    <2>1. Service!Waits(Presence)' <=>
            Service!Waits(Presence)
              \/ \E k \in (Len(bus) + 1)..Len(bus') : bus'[k].kind \in Presence
      BY <1>2, GrownSays
    <2> QED BY <1>2, <2>1 DEF Presence
  <1>3. CASE Pops /\ bus[1].kind \notin Presence
    <2>1. Service!Waits(Presence) <=> Service!Waits(Presence)' \/ bus[1].kind \in Presence
      BY <1>3, PoppedSays
    <2> QED BY <1>3, <2>1 DEF Presence
  <1> QED BY <1>1, <1>2, <1>3 DEF Quiet

(* A message that does not say so takes no firing of a watch off the bus.   *)
LEMMA FiringStays ==
  ASSUME bus \in Seq(Service!Messages), NEW w,
         bus' = bus \/ Grows \/ (Pops /\ bus[1] # Firing(w)), Firing(w) \in Service!Range(bus)
  PROVE  Firing(w) \in Service!Range(bus')
  <1>1. PICK k \in 1..Len(bus) : bus[k] = Firing(w)
    BY InBus
  <1>2. CASE bus' = bus
    BY <1>2
  <1>3. CASE Grows
    <2>1. bus' \in Seq(Service!Messages) /\ k \in 1..Len(bus') /\ bus'[k] = Firing(w)
      BY <1>1, <1>3 DEF Grows
    <2> QED BY <2>1 DEF Service!Range
  <1>4. CASE Pops /\ bus[1] # Firing(w)
    <2>1. bus' \in Seq(Service!Messages) /\ Len(bus') \in Nat /\ Len(bus) = Len(bus') + 1
      BY <1>4 DEF Pops
    <2>2. k # 1
      BY <1>1, <1>4
    <2>3. k - 1 \in 1..Len(bus') /\ (k - 1) + 1 = k
      BY <1>1, <2>1, <2>2
    <2>4. bus'[k - 1] = Firing(w)
      BY <1>1, <1>4, <2>3 DEF Pops
    <2> QED BY <2>1, <2>3, <2>4 DEF Service!Range
  <1> QED BY <1>2, <1>3, <1>4

(* What is so while the monitor is the one that was asked.                  *)
Watched ==
  /\ activity.idleWatch # 0 => activity.idleWatch \in user.idles
  /\ activity.activeWatch # 0 =>
       /\ activity.activeWatch # activity.idleWatch /\ activity.call \in {"none", "remove", "read"}
       /\ activity.activeWatch \in user.actives
            \/ Firing(activity.activeWatch) \in Service!Range(bus)
  /\ activity.call = "none" /\ activity.activeWatch \in user.actives /\ activity.idle => user.idle
  /\ activity.call = "none" /\ activity.idleWatch # 0 /\ activity.available /\ user.idle
       => activity.idle \/ Firing(activity.idleWatch) \in Service!Range(bus)

(* Without word of the monitor's presence the watches are kept as Watched   *)
(* says.                                                                    *)
LEMMA WatchingKeeps ==
  ASSUME bus \in Seq(Service!Messages), Service!WatchesKept, Quiet(Presence),
         activity'.proxy = activity.proxy,
         activity.proxy /\ Watched => Watched'
  PROVE  Service!WatchesKept'
  <1>1. activity.proxy /\ ~Service!Waits({"Appeared", "Vanished"}) => Watched
    BY DEF Service!WatchesKept, Watched, Service!Fires, Firing
  <1>2. activity'.proxy /\ ~Service!Waits({"Appeared", "Vanished"})' => Watched'
    BY <1>1, PresenceStays
  <1> QED BY <1>2 DEF Service!WatchesKept, Watched, Service!Fires, Firing

(* While word of the monitor's presence waits, the watches promise nothing. *)
LEMMA WatchingGone ==
  ASSUME ~activity'.proxy \/ Service!Waits({"Appeared", "Vanished"})'
  PROVE  Service!WatchesKept'
  BY DEF Service!WatchesKept

(* The types of the activity and of the user.                               *)
Activities == [available : BOOLEAN, idle : BOOLEAN, proxy : BOOLEAN, idleWatch : Nat,
               activeWatch : Nat, call : {"none", "remove", "idle", "active", "read"}]
Users == [up : BOOLEAN, idle : BOOLEAN, given : Nat, idles : SUBSET Nat, actives : SUBSET Nat]
Calls == {"none", "remove", "idle", "active", "read"}

(* A new activity and a new user of their types keep the types.             *)
LEMMA ActivityTyped ==
  ASSUME Service!Typed, UNCHANGED <<Service!inhibitVars, Service!saverVars>>,
         bus' \in Seq(Service!Messages),
         activity' \in Activities, user' \in Users, activity'.call \in Calls
  PROVE  Service!Typed'
  BY DEF Service!Typed, Service!TypeOK, Service!inhibitVars, Service!saverVars, Activities, Users,
     Calls

(* What the steps about the user and the monitor do not say.                *)
UnheardWatch == Clients \cup Saver

(* No message about the user or the monitor is one of a client or the       *)
(* saver.                                                                   *)
LEMMA UnheardKinds ==
  /\ "Appeared" \notin UnheardWatch /\ "Vanished" \notin UnheardWatch
     /\ "WatchFired" \notin UnheardWatch
  /\ "WatchFired" \notin Presence
  /\ "Appeared" \in Presence /\ "Vanished" \in Presence
  BY DEF UnheardWatch, Clients, Saver, Presence

(* What an update of the activity leaves.                                   *)
LEMMA UpdatedActivity ==
  ASSUME NEW a \in Activities, user \in Users, NEW b \in Service!Updated(a)
  PROVE  /\ b \in Activities /\ b.proxy = a.proxy /\ b.idleWatch = a.idleWatch
         /\ b.activeWatch = a.activeWatch /\ b.call = a.call
         /\ b.idle => user.idle
         /\ b.available => b.idle = user.idle
  <1>1. user.idle \in BOOLEAN
    BY DEF Users
  <1>2. b = [a EXCEPT !.available = TRUE, !.idle = user.idle]
          \/ b = [a EXCEPT !.available = FALSE, !.idle = FALSE]
    BY DEF Service!Updated
  <1> QED BY <1>1, <1>2 DEF Activities

(* The user turns idle or active.                                           *)
UserStep == Service!TurnsIdle \/ Service!TurnsActive

(* The user turns idle or active, and the watches that wait for it fire.    *)
LEMMA UserStepKeeps ==
  ASSUME Service!IInv, UserStep
  PROVE  /\ Service!Typed' /\ Service!PresenceKept' /\ Service!WatchesKept'
         /\ Quiet(UnheardWatch) /\ UNCHANGED <<Service!inhibitVars, Service!saverVars>>
  <1>1. /\ Service!Typed /\ bus \in Seq(Service!Messages) /\ Service!PresenceKept
           /\ Service!WatchesKept
        /\ activity \in Activities /\ user \in Users /\ activity.call \in Calls
    BY DEF Service!IInv, Service!Typed, Service!TypeOK, Activities, Users, Calls
  <1>2. UNCHANGED <<Service!inhibitVars, Service!saverVars, activity>>
    BY DEF UserStep, Service!TurnsIdle, Service!TurnsActive
  <1>3. /\ user.idles \subseteq 1..user.given /\ user.actives \subseteq 1..user.given
           /\ user.given \in Nat
        /\ ~user.up => user.idles = {} /\ user.actives = {}
        /\ user.idles \in SUBSET Nat /\ user.actives \in SUBSET Nat
        /\ user.up \in BOOLEAN /\ user.idle \in BOOLEAN
    BY <1>1 DEF Service!PresenceKept, Users
  <1>4. ASSUME NEW S, S = user.idles \/ S = user.actives,
               bus' = IF user.up THEN bus \o Service!Fired(S) ELSE bus
        PROVE  /\ bus' \in Seq(Service!Messages) /\ Quiet(Presence) /\ Quiet(UnheardWatch)
               /\ bus' = bus \/ Grows
               /\ \A w \in S : Firing(w) \in Service!Range(bus')
    <2>1. CASE ~user.up
      <3>1. S = {} /\ bus' = bus
        BY <1>3, <1>4, <2>1
      <3> QED BY <1>1, <3>1 DEF Quiet
    <2>2. CASE user.up
      <3>1. /\ Service!Fired(S) \in Seq(Service!Messages)
            /\ \A k \in 1..Len(Service!Fired(S)) : Service!Fired(S)[k].kind = "WatchFired"
            /\ \A w \in S : \E k \in 1..Len(Service!Fired(S)) : Service!Fired(S)[k] = Firing(w)
        BY <1>3, <1>4, FiredListed
      <3>2. bus' = bus \o Service!Fired(S)
        BY <1>4, <2>2
      <3>3. /\ Grows /\ Len(bus') = Len(bus) + Len(Service!Fired(S))
            /\ \A i \in 1..Len(Service!Fired(S)) : bus'[Len(bus) + i] = Service!Fired(S)[i]
            /\ \A i \in (Len(bus) + 1)..Len(bus') : i - Len(bus) \in 1..Len(Service!Fired(S))
                                                    /\ bus'[i] = Service!Fired(S)[i - Len(bus)]
        BY <1>1, <3>1, <3>2, AllSentGrow
      <3>4. \A i \in (Len(bus) + 1)..Len(bus') : bus'[i].kind = "WatchFired"
        BY <3>1, <3>3
      <3>5. bus' \in Seq(Service!Messages) /\ Len(bus) \in Nat /\ Len(Service!Fired(S)) \in Nat
        BY <1>1, <3>1, <3>3 DEF Grows
      <3>6. ASSUME NEW w \in S PROVE Firing(w) \in Service!Range(bus')
        <4>1. PICK k \in 1..Len(Service!Fired(S)) : Service!Fired(S)[k] = Firing(w)
          BY <3>1
        <4>2. Len(bus) + k \in 1..Len(bus') /\ bus'[Len(bus) + k] = Firing(w)
          BY <3>3, <3>5, <4>1
        <4> QED BY <3>5, <4>2 DEF Service!Range
      <3>7. Quiet(Presence) /\ Quiet(UnheardWatch)
        BY <3>3, <3>4, UnheardKinds DEF Quiet
      <3> QED BY <3>3, <3>5, <3>6, <3>7
    <2> QED BY <2>1, <2>2
  <1>5. CASE Service!TurnsIdle
    <2>1. user' = [user EXCEPT !.idle = TRUE]
          /\ bus' = IF user.up THEN bus \o Service!Fired(user.idles) ELSE bus
      BY <1>5 DEF Service!TurnsIdle
    <2>2. /\ user' \in Users /\ user'.up = user.up /\ user'.idles = user.idles
             /\ user'.given = user.given
          /\ user'.actives = user.actives /\ user'.idle = TRUE
      BY <1>1, <2>1 DEF Users
    <2>3. /\ bus' \in Seq(Service!Messages) /\ Quiet(Presence) /\ Quiet(UnheardWatch)
             /\ (bus' = bus \/ Grows)
          /\ \A w \in user.idles : Firing(w) \in Service!Range(bus')
      BY <1>4, <2>1
    <2>4. Service!Typed'
      BY <1>1, <1>2, <2>2, <2>3, ActivityTyped
    <2>5. Service!PresenceKept'
      BY <1>1, <1>2, <1>3, <2>2, <2>3, PresenceQuiet
    <2>6. \A w : Firing(w) \in Service!Range(bus) => Firing(w) \in Service!Range(bus')
      BY <1>1, <2>3, FiringStays
    <2>7. Watched => Watched'
      BY <1>2, <2>2, <2>3, <2>6 DEF Watched
    <2> QED BY <1>1, <1>2, <2>3, <2>4, <2>5, <2>7, WatchingKeeps
  <1>6. CASE Service!TurnsActive
    <2>1. user' = [user EXCEPT !.idle = FALSE, !.actives = {}]
          /\ bus' = IF user.up THEN bus \o Service!Fired(user.actives) ELSE bus
      BY <1>6 DEF Service!TurnsActive
    <2>2. /\ user' \in Users /\ user'.up = user.up /\ user'.idles = user.idles
             /\ user'.given = user.given
          /\ user'.actives = {} /\ user'.idle = FALSE
      BY <1>1, <2>1 DEF Users
    <2>3. /\ bus' \in Seq(Service!Messages) /\ Quiet(Presence) /\ Quiet(UnheardWatch)
             /\ (bus' = bus \/ Grows)
          /\ \A w \in user.actives : Firing(w) \in Service!Range(bus')
      BY <1>4, <2>1
    <2>4. Service!Typed'
      BY <1>1, <1>2, <2>2, <2>3, ActivityTyped
    <2>5. Service!PresenceKept'
      BY <1>1, <1>2, <1>3, <2>2, <2>3, PresenceQuiet
    <2>6. \A w : Firing(w) \in Service!Range(bus) => Firing(w) \in Service!Range(bus')
      BY <1>1, <2>3, FiringStays
    <2>7. Watched => Watched'
      BY <1>2, <2>2, <2>3, <2>6 DEF Watched
    <2> QED BY <1>1, <1>2, <2>3, <2>4, <2>5, <2>7, WatchingKeeps
  <1> QED BY <1>2, <1>5, <1>6 DEF UserStep

(* The monitor's name leaves the bus.                                       *)
LEMMA MonitorLeavesKeeps ==
  ASSUME Service!IInv, Service!MonitorLeaves
  PROVE  /\ Service!Typed' /\ Service!PresenceKept' /\ Service!WatchesKept'
         /\ Quiet(UnheardWatch) /\ UNCHANGED <<Service!inhibitVars, Service!saverVars>>
  <1> DEFINE V == {"Vanished"}
             A == {"Appeared"}
             P == {"Appeared", "Vanished"}
             m == [kind |-> "Vanished"]
  <1>1. /\ Service!Typed /\ bus \in Seq(Service!Messages) /\ Service!PresenceKept
        /\ activity \in Activities /\ user \in Users /\ activity.call \in Calls
    BY DEF Service!IInv, Service!Typed, Service!TypeOK, Activities, Users, Calls
  <1>2. UNCHANGED <<Service!inhibitVars, Service!saverVars, activity>> /\ bus' = Append(bus, m)
        /\ user' = [user EXCEPT !.up = FALSE, !.idles = {}, !.actives = {}]
    BY DEF Service!MonitorLeaves, Service!Send
  <1>3. m \in Service!Messages /\ m.kind = "Vanished"
    BY DEF Service!Messages
  <1>4. Grows /\ Len(bus') = Len(bus) + 1 /\ bus'[Len(bus) + 1] = m
    BY <1>1, <1>2, <1>3, SentGrows
  <1>5. PICK n \in Nat : n = Len(bus)
    BY <1>1
  <1>6. n + 1 \in (Len(bus) + 1)..Len(bus')
    BY <1>4, <1>5
  <1>7. /\ \A i \in 0..n : Service!After(i, V)'
        /\ Service!Waits(V)'
        /\ \A i \in 0..n, j \in 1..(n + 1) : Service!Between(i, j, V)' <=> Service!Between(i, j, V)
    BY <1>1, <1>3, <1>4, <1>5, <1>6, GrownSays
  <1>8. Service!Waits(P)'
    BY <1>1, <1>3, <1>4, <1>5, <1>6, GrownSays
  <1>9. \A i \in 1..n : Service!Says(i, A)' <=> Service!Says(i, A)
    BY <1>1, <1>4, <1>5, GrownSays
  <1>10. /\ user' \in Users /\ ~user'.up /\ user'.idles = {} /\ user'.actives = {}
         /\ user'.given = user.given
    BY <1>1, <1>2 DEF Users
  <1>11. Service!Typed'
    BY <1>1, <1>2, <1>3, <1>10, ActivityTyped, BusTyped
  <1>12. Quiet(UnheardWatch)
    BY <1>1, <1>2, <1>3, SentQuiet, UnheardKinds
  <1>13. Service!WatchesKept'
    BY <1>8, WatchingGone
  <1>14. ASSUME NEW i \in 1..Len(bus'), Service!Says(i, A)'
         PROVE  /\ Service!After(i, V)'
                /\ activity.proxy => Service!Before(i, V)'
                /\ \A j \in 1..(i - 1) : Service!Says(j, A)' => Service!Between(j, i, V)'
    <2>1. i \in 1..n \/ i = n + 1
      BY <1>4, <1>5
    <2>2. i # n + 1
      BY <1>3, <1>4, <1>5, <1>14 DEF Service!Says
    <2>3. i \in 1..n /\ i \in 0..n /\ 0 \in 0..n /\ i \in 1..(n + 1)
          /\ \A j \in 1..(i - 1) : j \in 1..n /\ j \in 0..n
      BY <2>1, <2>2
    <2>4. Service!Says(i, A)
      BY <1>9, <1>14, <2>3
    <2>5. /\ activity.proxy => Service!Before(i, V)
          /\ \A j \in 1..(i - 1) : Service!Says(j, A) => Service!Between(j, i, V)
      BY <1>1, <1>5, <2>3, <2>4 DEF Service!PresenceKept
    <2>6. Service!Before(i, V)' <=> Service!Before(i, V)
      BY <1>7, <2>3 DEF Service!Before
    <2>7. \A j \in 1..(i - 1) : Service!Says(j, A)' => Service!Between(j, i, V)'
      BY <1>7, <1>9, <2>3, <2>5
    <2> QED BY <1>7, <2>3, <2>5, <2>6, <2>7
  <1>15. Service!PresenceKept'
    BY <1>1, <1>2, <1>7, <1>10, <1>14 DEF Service!PresenceKept
  <1> QED BY <1>2, <1>11, <1>12, <1>13, <1>15

(* A new monitor takes the name.                                            *)
LEMMA MonitorArrivesKeeps ==
  ASSUME Service!IInv, Service!MonitorArrives
  PROVE  /\ Service!Typed' /\ Service!PresenceKept' /\ Service!WatchesKept'
         /\ Quiet(UnheardWatch) /\ UNCHANGED <<Service!inhibitVars, Service!saverVars>>
  <1> DEFINE V == {"Vanished"}
             A == {"Appeared"}
             P == {"Appeared", "Vanished"}
             m == [kind |-> "Appeared"]
  <1>1. /\ Service!Typed /\ bus \in Seq(Service!Messages) /\ Service!PresenceKept
        /\ activity \in Activities /\ user \in Users /\ activity.call \in Calls
    BY DEF Service!IInv, Service!Typed, Service!TypeOK, Activities, Users, Calls
  <1>2. UNCHANGED <<Service!inhibitVars, Service!saverVars, activity>> /\ bus' = Append(bus, m)
        /\ ~user.up
        /\ user' = [user EXCEPT !.up = TRUE, !.given = 0]
    BY DEF Service!MonitorArrives, Service!Send
  <1>3. m \in Service!Messages /\ m.kind = "Appeared"
    BY DEF Service!Messages
  <1>4. Grows /\ Len(bus') = Len(bus) + 1 /\ bus'[Len(bus) + 1] = m
    BY <1>1, <1>2, <1>3, SentGrows
  <1>5. PICK n \in Nat : n = Len(bus)
    BY <1>1
  <1>6. n + 1 \in (Len(bus) + 1)..Len(bus')
    BY <1>4, <1>5
  <1>7. \A i \in 0..n, j \in 1..(n + 1) : Service!Between(i, j, V)' <=> Service!Between(i, j, V)
    BY <1>1, <1>4, <1>5, GrownSays
  <1>8. Service!Waits(P)'
    BY <1>1, <1>3, <1>4, <1>5, <1>6, GrownSays
  <1>9. \A i \in 1..n : Service!Says(i, A)' <=> Service!Says(i, A)
    BY <1>1, <1>4, <1>5, GrownSays
  <1>10. /\ user' \in Users /\ user'.up /\ user'.idles = {} /\ user'.actives = {}
    BY <1>1, <1>2 DEF Users, Service!PresenceKept
  <1>11. Service!Typed'
    BY <1>1, <1>2, <1>3, <1>10, ActivityTyped, BusTyped
  <1>12. Quiet(UnheardWatch)
    BY <1>1, <1>2, <1>3, SentQuiet, UnheardKinds
  <1>13. Service!WatchesKept'
    BY <1>8, WatchingGone
  <1>14. /\ \A i : Service!After(i, V) <=> Service!Between(i, n + 1, V)
         /\ Service!Waits(V) <=> Service!Between(0, n + 1, V)
         /\ \A i : Service!Before(i, V) <=> Service!Between(0, i, V)
         /\ \A i : Service!Before(i, V)' <=> Service!Between(0, i, V)'
    BY <1>5 DEF Service!After, Service!Before, Service!Waits
  <1>15. /\ activity.proxy => Service!Waits(V)
         /\ \A i \in 1..n : Service!Says(i, A) =>
              /\ Service!After(i, V)
              /\ activity.proxy => Service!Before(i, V)
              /\ \A j \in 1..(i - 1) : Service!Says(j, A) => Service!Between(j, i, V)
    BY <1>1, <1>2, <1>5 DEF Service!PresenceKept
  <1> HIDE DEF V, A
  <1>16. ASSUME NEW i \in 1..Len(bus'), Service!Says(i, A)'
         PROVE  /\ activity.proxy => Service!Before(i, V)'
                /\ \A j \in 1..(i - 1) : Service!Says(j, A)' => Service!Between(j, i, V)'
    <2>1. CASE i \in 1..n
      <3>1. i \in 0..n /\ 0 \in 0..n /\ i \in 1..(n + 1) /\ \A j \in 1..(i - 1) : j \in 1..n
            /\ j \in 0..n
        BY <2>1
      <3>2. Service!Says(i, A)
        BY <1>9, <1>16, <2>1
      <3>3. activity.proxy => Service!Before(i, V)'
        BY <1>7, <1>14, <1>15, <2>1, <3>1, <3>2
      <3>4. \A j \in 1..(i - 1) : Service!Says(j, A)' => Service!Between(j, i, V)'
        BY <1>7, <1>9, <1>15, <2>1, <3>1, <3>2
      <3> QED BY <3>3, <3>4
    <2>2. CASE i = n + 1
      <3>1. 0 \in 0..n /\ n + 1 \in 1..(n + 1) /\ \A j \in 1..(i - 1) : j \in 1..n /\ j \in 0..n
        BY <2>2
      <3>2. activity.proxy => Service!Before(i, V)'
        BY <1>7, <1>14, <1>15, <2>2, <3>1
      <3>3. \A j \in 1..(i - 1) : Service!Says(j, A)' => Service!Between(j, i, V)'
        BY <1>7, <1>9, <1>14, <1>15, <2>2, <3>1
      <3> QED BY <3>2, <3>3
    <2>3. i \in 1..n \/ i = n + 1
      BY <1>4, <1>5
    <2> QED BY <2>1, <2>2, <2>3
  <1>17. Service!PresenceKept'
    BY <1>1, <1>2, <1>10, <1>15, <1>16 DEF Service!PresenceKept, V, A
  <1> QED BY <1>2, <1>11, <1>12, <1>13, <1>17

(* The service hears of the one or of the other.                            *)
LEMMA PresenceTaken ==
  ASSUME bus \in Seq(Service!Messages), Service!PresenceKept, bus # <<>>, bus' = Tail(bus),
         user' = user,
         bus[1].kind = "Appeared" \/ bus[1].kind = "Vanished",
         bus[1].kind = "Vanished" => ~activity'.proxy,
         ~activity'.proxy => activity'.idleWatch = 0 /\ activity'.activeWatch = 0
          /\ activity'.call = "none"
  PROVE  /\ Service!PresenceKept'
         /\ bus[1].kind = "Appeared" => ~activity.proxy
  <1> DEFINE V == {"Vanished"}
             A == {"Appeared"}
  <1>0. Pops /\ 1 \in 1..Len(bus)
    BY TakenPops
  <1>10. Len(bus') \in Nat /\ Len(bus) = Len(bus') + 1
    BY <1>0 DEF Pops
  <1>1. PICK l \in Nat : l = Len(bus') /\ Len(bus) = l + 1
    BY <1>10
  <1>2. /\ \A i \in 0..l : Service!After(i, V)' <=> Service!After(i + 1, V)
        /\ \A i \in 0..l, j \in 1..(l + 1) : Service!Between(i, j, V)'
             <=> Service!Between(i + 1, j + 1, V)
    BY <1>0, <1>1, PoppedSays
  <1>3. \A i \in 1..l : (Service!Says(i, A)' <=> Service!Says(i + 1, A)) /\ i + 1 \in 1..Len(bus)
    BY <1>0, <1>1, PoppedSays
  <1>4. /\ ~user.up => user.idles = {} /\ user.actives = {} /\ (activity.proxy => Service!Waits(V))
        /\ user.idles \cup user.actives \subseteq 1..user.given
        /\ \A i \in 1..Len(bus) : Service!Says(i, A) =>
             /\ ~user.up => Service!After(i, V)
             /\ activity.proxy => Service!Before(i, V)
             /\ \A j \in 1..(i - 1) : Service!Says(j, A) => Service!Between(j, i, V)
    BY DEF Service!PresenceKept
  <1>5. /\ Service!Waits(V)' <=> Service!After(0, V)'
        /\ \A i : Service!Before(i, V)' <=> Service!Between(0, i, V)'
        /\ ~Service!Before(1, V)
        /\ Service!Says(1, A) <=> bus[1].kind = "Appeared"
        /\ 0 \in 0..l /\ 0 + 1 = 1
    BY DEF Service!Waits, Service!Before, Service!Between, Service!Says
  <1> HIDE DEF V, A
  <1>6. bus[1].kind = "Appeared" => ~activity.proxy
    BY <1>0, <1>4, <1>5
  <1>7. ~user.up => (activity'.proxy => Service!Waits(V)')
    BY <1>0, <1>2, <1>4, <1>5
  <1>8. ASSUME NEW i \in 1..l, Service!Says(i, A)'
        PROVE  /\ ~user.up => Service!After(i, V)'
               /\ activity'.proxy => Service!Before(i, V)'
               /\ \A j \in 1..(i - 1) : Service!Says(j, A)' => Service!Between(j, i, V)'
    <2>1. PICK n \in 1..Len(bus) : n = i + 1
      BY <1>3
    <2>2. i \in 0..l /\ i \in 1..(l + 1) /\ 1 \in 1..(n - 1)
          /\ \A j \in 1..(i - 1) : j \in 0..l /\ j \in 1..l /\ j + 1 \in 1..(n - 1)
      BY <2>1
    <2>3. /\ Service!Says(n, A)
          /\ ~user.up => Service!After(n, V)
          /\ \A j \in 1..(n - 1) : Service!Says(j, A) => Service!Between(j, n, V)
      BY <1>3, <1>4, <1>8, <2>1
    <2>4. ~user.up => Service!After(i, V)'
      BY <1>2, <2>1, <2>2, <2>3
    <2>5. ASSUME activity'.proxy PROVE Service!Before(i, V)'
      <3>1. Service!Between(1, n, V)
        BY <1>5, <2>2, <2>3, <2>5
      <3> QED BY <1>2, <1>5, <2>1, <2>2, <3>1
    <2>6. ASSUME NEW j \in 1..(i - 1), Service!Says(j, A)' PROVE Service!Between(j, i, V)'
      <3>1. Service!Between(j + 1, n, V)
        BY <1>3, <2>2, <2>3, <2>6
      <3> QED BY <1>2, <2>1, <2>2, <3>1
    <2> QED BY <2>4, <2>5, <2>6
  <1>9. Service!PresenceKept'
    BY <1>1, <1>4, <1>7, <1>8 DEF Service!PresenceKept, V, A
  <1> QED BY <1>6, <1>9

(* The service hears of the monitor's presence.                             *)
HeardStep == Service!Appeared \/ Service!Vanished

(* What it heard of the monitor's presence is what the bus said first.      *)
LEMMA HeardStepKeeps ==
  ASSUME Service!IInv, HeardStep
  PROVE  /\ Service!Typed' /\ Service!PresenceKept' /\ Service!WatchesKept'
         /\ Quiet(UnheardWatch) /\ UNCHANGED <<Service!inhibitVars, Service!saverVars>>
  <1>1. /\ Service!Typed /\ bus \in Seq(Service!Messages) /\ Service!PresenceKept
        /\ activity \in Activities /\ user \in Users /\ activity.call \in Calls
    BY DEF Service!IInv, Service!Typed, Service!TypeOK, Activities, Users, Calls
  <1>2. UNCHANGED <<Service!inhibitVars, Service!saverVars, user>> /\ bus # <<>>
        /\ bus' = Tail(bus) /\ activity.call = "none"
    BY DEF HeardStep, Service!Appeared, Service!Vanished, Service!Takes, Service!Idle
  <1>3. bus' \in Seq(Service!Messages)
    BY <1>1, <1>2, BusTyped
  <1>4. CASE Service!Appeared
    <2>1. bus[1].kind = "Appeared"
          /\ activity' = [activity EXCEPT !.proxy = TRUE, !.call = "remove"]
      BY <1>4 DEF Service!Appeared, Service!Takes, Service!Head1
    <2>2. /\ activity' \in Activities /\ activity'.proxy /\ activity'.call = "remove"
          /\ activity'.idleWatch = activity.idleWatch
             /\ activity'.activeWatch = activity.activeWatch
      BY <1>1, <2>1 DEF Activities
    <2>3. Service!PresenceKept' /\ ~activity.proxy
      BY <1>1, <1>2, <2>1, <2>2, PresenceTaken
    <2>4. activity.idleWatch = 0 /\ activity.activeWatch = 0
      BY <1>1, <2>3 DEF Service!PresenceKept
    <2>5. Service!WatchesKept'
      BY <2>2, <2>4 DEF Service!WatchesKept
    <2>6. Service!Typed'
      BY <1>1, <1>2, <1>3, <2>2, ActivityTyped DEF Calls
    <2> QED BY <1>1, <1>2, <2>1, <2>3, <2>5, <2>6, TakenQuiet, UnheardKinds
  <1>5. CASE Service!Vanished
    <2>1. bus[1].kind = "Vanished"
          /\ activity' = [[activity EXCEPT !.available = FALSE, !.idle = FALSE]
                            EXCEPT !.proxy = FALSE, !.idleWatch = 0, !.activeWatch = 0]
      BY <1>5 DEF Service!Vanished, Service!Takes, Service!Head1, Service!Unavailable
    <2>2. /\ activity' \in Activities /\ ~activity'.proxy /\ activity'.call = "none"
          /\ activity'.idleWatch = 0 /\ activity'.activeWatch = 0
      BY <1>1, <1>2, <2>1 DEF Activities
    <2>3. Service!PresenceKept'
      BY <1>1, <1>2, <2>1, <2>2, PresenceTaken
    <2>5. Service!WatchesKept'
      BY <2>2, WatchingGone
    <2>6. Service!Typed'
      BY <1>1, <1>2, <1>3, <2>2, ActivityTyped DEF Calls
    <2> QED BY <1>1, <1>2, <2>1, <2>3, <2>5, <2>6, TakenQuiet, UnheardKinds
  <1> QED BY <1>2, <1>4, <1>5 DEF HeardStep

(* A watch has fired.                                                       *)
LEMMA WatchFiredKeeps ==
  ASSUME Service!IInv, Service!WatchFired
  PROVE  /\ Service!Typed' /\ Service!PresenceKept' /\ Service!WatchesKept'
         /\ Quiet(UnheardWatch) /\ UNCHANGED <<Service!inhibitVars, Service!saverVars>>
  <1>1. /\ Service!Typed /\ bus \in Seq(Service!Messages) /\ Service!PresenceKept
           /\ Service!WatchesKept
        /\ activity \in Activities /\ user \in Users /\ activity.call \in Calls
    BY DEF Service!IInv, Service!Typed, Service!TypeOK, Activities, Users, Calls
  <1>2. UNCHANGED <<Service!inhibitVars, Service!saverVars, user>> /\ bus # <<>> /\ bus' = Tail(bus)
        /\ bus[1].kind = "WatchFired" /\ activity.call = "none"
    BY DEF Service!WatchFired, Service!Takes, Service!Head1, Service!Idle
  <1>3. bus' \in Seq(Service!Messages) /\ Pops /\ bus[1] \in Service!Messages
    BY <1>1, <1>2, BusTyped, TakenPops
  <1>4. Quiet(UnheardWatch) /\ Quiet(Presence)
    BY <1>1, <1>2, TakenQuiet, UnheardKinds
  <1>5. \A w : w # bus[1].id /\ Firing(w) \in Service!Range(bus)
          => Firing(w) \in Service!Range(bus')
    <2>1. \A w : w # bus[1].id => bus[1] # Firing(w)
      BY DEF Firing
    <2> QED BY <1>1, <1>3, <2>1, FiringStays
  <1>6. /\ ~user.up => user.idles = {} /\ user.actives = {}
        /\ user.idles \cup user.actives \subseteq 1..user.given
    BY <1>1 DEF Service!PresenceKept
  <1>7. ASSUME activity' \in Activities, activity'.call \in Calls, activity'.proxy = activity.proxy,
               ~activity.proxy => UNCHANGED activity,
               activity.proxy /\ Watched => Watched'
        PROVE  Service!Typed' /\ Service!PresenceKept' /\ Service!WatchesKept'
    <2>1. Service!Typed'
      BY <1>1, <1>2, <1>3, <1>7, ActivityTyped
    <2>2. Service!PresenceKept'
      BY <1>1, <1>2, <1>4, <1>6, <1>7, PresenceQuiet
    <2> QED BY <1>1, <1>4, <1>7, <2>1, <2>2, WatchingKeeps
  <1>8. CASE /\ activity.proxy /\ bus[1].id = activity.idleWatch
             /\ \E a \in Service!Updated(activity) : activity' = [a EXCEPT !.idleWatch = 0]
    <2>1. PICK a \in Service!Updated(activity) : activity' = [a EXCEPT !.idleWatch = 0]
      BY <1>8
    <2>2. /\ a \in Activities /\ a.proxy = activity.proxy /\ a.activeWatch = activity.activeWatch
          /\ a.call = activity.call /\ (a.idle => user.idle)
      BY <1>1, UpdatedActivity
    <2>3. /\ activity' \in Activities /\ activity'.proxy = activity.proxy
          /\ activity'.activeWatch = activity.activeWatch /\ activity'.call = activity.call
          /\ activity'.idleWatch = 0 /\ (activity'.idle => user.idle)
      BY <2>1, <2>2 DEF Activities
    <2>4. Watched => Watched'
      BY <1>2, <1>5, <1>8, <2>3 DEF Watched
    <2> QED BY <1>2, <1>4, <1>1, <1>7, <1>8, <2>3, <2>4
  <1>9. CASE /\ activity.proxy /\ bus[1].id = activity.activeWatch /\ bus[1].id # activity.idleWatch
             /\ activity' = [activity EXCEPT !.activeWatch = 0, !.call = "remove"]
    <2>1. /\ activity' \in Activities /\ activity'.proxy = activity.proxy
          /\ activity'.idleWatch = activity.idleWatch /\ activity'.activeWatch = 0
          /\ activity'.call = "remove"
      BY <1>1, <1>9 DEF Activities
    <2>2. Watched => Watched'
      BY <1>2, <2>1 DEF Watched
    <2> QED BY <1>2, <1>4, <1>7, <1>9, <2>1, <2>2 DEF Calls
  <1>10. CASE /\ ~activity.proxy \/ bus[1].id \notin {activity.idleWatch, activity.activeWatch}
              /\ UNCHANGED activity
    <2>1. activity.proxy /\ Watched => Watched'
      BY <1>2, <1>5, <1>10 DEF Watched
    <2> QED BY <1>2, <1>4, <1>1, <1>7, <1>10, <2>1
  <1> QED BY <1>2, <1>4, <1>8, <1>9, <1>10 DEF Service!WatchFired, Service!Head1

(* Calls to the monitor, and what its answers leave.                        *)
CallStep == Service!GetActivity \/ Service!RemoveWatches \/ Service!AddIdleWatch
  \/ Service!AddActiveWatch \/ Service!ReadActivity

(* Each call to the monitor, answered or not, leaves the watches as         *)
(* promised.                                                                *)
LEMMA CallStepKeeps ==
  ASSUME Service!IInv, CallStep
  PROVE  /\ Service!Typed' /\ Service!PresenceKept' /\ Service!WatchesKept'
         /\ bus' = bus /\ UNCHANGED <<Service!inhibitVars, Service!saverVars>>
  <1>1. /\ Service!Typed /\ bus \in Seq(Service!Messages) /\ Service!PresenceKept
           /\ Service!WatchesKept
        /\ activity \in Activities /\ user \in Users /\ activity.call \in Calls
    BY DEF Service!IInv, Service!Typed, Service!TypeOK, Activities, Users, Calls
  <1>2. UNCHANGED <<Service!inhibitVars, Service!saverVars, bus>>
    BY DEF CallStep, Service!GetActivity, Service!RemoveWatches, Service!AddIdleWatch,
       Service!AddActiveWatch, Service!ReadActivity
  <1>3. Quiet(Presence)
    BY <1>2 DEF Quiet
  <1>4. /\ ~user.up => user.idles = {} /\ user.actives = {}
        /\ user.idles \subseteq 1..user.given /\ user.actives \subseteq 1..user.given
           /\ user.given \in Nat
        /\ user.idles \in SUBSET Nat /\ user.actives \in SUBSET Nat
        /\ ~activity.proxy => activity.call = "none"
    BY <1>1 DEF Service!PresenceKept, Users
  <1>5. activity.proxy
    BY <1>4 DEF CallStep, Service!GetActivity, Service!RemoveWatches, Service!AddIdleWatch,
       Service!AddActiveWatch, Service!ReadActivity
  <1>6. ASSUME activity' \in Activities, activity'.call \in Calls, activity'.proxy = activity.proxy,
               user' \in Users, user'.up = user.up,
               ~user.up => user'.idles = {} /\ user'.actives = {},
               user'.idles \subseteq 1..user'.given, user'.actives \subseteq 1..user'.given,
               Watched => Watched'
        PROVE  Service!Typed' /\ Service!PresenceKept' /\ Service!WatchesKept'
    <2>1. Service!Typed'
      BY <1>1, <1>2, <1>6, ActivityTyped
    <2>2. Service!PresenceKept'
      BY <1>1, <1>3, <1>5, <1>6, PresenceQuiet
    <2> QED BY <1>1, <1>3, <1>6, <2>1, <2>2, WatchingKeeps
  <1>7. CASE Service!GetActivity
    <2>1. activity' \in Service!Updated(activity) /\ user' = user
      BY <1>7 DEF Service!GetActivity
    <2>2. /\ activity' \in Activities /\ activity'.proxy = activity.proxy
          /\ activity'.idleWatch = activity.idleWatch
             /\ activity'.activeWatch = activity.activeWatch
          /\ activity'.call = activity.call /\ (activity'.idle => user.idle)
          /\ (activity'.available => activity'.idle = user.idle)
      BY <1>1, <2>1, UpdatedActivity
    <2>3. Watched => Watched'
      BY <1>2, <2>1, <2>2 DEF Watched
    <2> QED BY <1>2, <1>1, <1>4, <1>6, <2>1, <2>2, <2>3
  <1>8. CASE Service!RemoveWatches
    <2>1. /\ user' = [user EXCEPT !.idles = @ \ {activity.idleWatch},
               !.actives = @ \ {activity.activeWatch}]
          /\ activity' = [activity EXCEPT !.idleWatch = 0, !.activeWatch = 0, !.call = "idle"]
      BY <1>8 DEF Service!RemoveWatches
    <2>2. /\ activity' \in Activities /\ activity'.proxy = activity.proxy /\ activity'.idleWatch = 0
          /\ activity'.activeWatch = 0 /\ activity'.call = "idle"
      BY <1>1, <2>1 DEF Activities
    <2>3. /\ user' \in Users /\ user'.up = user.up /\ user'.given = user.given
          /\ user'.idles \subseteq user.idles /\ user'.actives \subseteq user.actives
      BY <1>1, <1>4, <2>1 DEF Users
    <2>4. Watched'
      BY <2>2 DEF Watched
    <2> QED BY <1>2, <1>4, <1>6, <2>2, <2>3, <2>4 DEF Calls
  <1>9. CASE Service!AddIdleWatch
    <2>1. activity.call = "idle"
      BY <1>9 DEF Service!AddIdleWatch
    <2>2. CASE /\ user.up
               /\ user' = [user EXCEPT !.given = @ + 1, !.idles = @ \cup {user.given + 1}]
               /\ activity' = [activity EXCEPT !.idleWatch = user.given + 1, !.call = "active"]
      <3>1. /\ activity' \in Activities /\ activity'.proxy = activity.proxy
            /\ activity'.idleWatch = user.given + 1
            /\ activity'.activeWatch = activity.activeWatch /\ activity'.call = "active"
        <4>1. PICK g \in Nat : g = user.given + 1
          BY <1>4
        <4>2. activity' = [activity EXCEPT !.idleWatch = g, !.call = "active"]
          BY <2>2, <4>1
        <4> QED BY <1>1, <4>1, <4>2 DEF Activities
      <3>2. /\ user' \in Users /\ user'.up = user.up /\ user'.given = user.given + 1
            /\ user'.idles = user.idles \cup {user.given + 1} /\ user'.actives = user.actives
        <4>1. PICK g \in Nat : g = user.given + 1
          BY <1>4
        <4>4. \A x \in user.idles \cup {g} : x \in Nat
          BY <1>4
        <4>2. PICK ws \in SUBSET Nat : ws = user.idles \cup {user.given + 1}
          BY <4>1, <4>4
        <4>3. user' = [user EXCEPT !.given = g, !.idles = ws]
          BY <2>2, <4>1, <4>2
        <4> QED BY <1>1, <4>1, <4>2, <4>3 DEF Users
      <3>3. user'.idles \subseteq 1..user'.given /\ user'.actives \subseteq 1..user'.given
        BY <1>4, <3>2
      <3>4. Watched => Watched'
        BY <2>1, <3>1, <3>2 DEF Watched
      <3> QED BY <1>2, <1>6, <2>2, <3>1, <3>2, <3>3, <3>4 DEF Calls
    <2>3. CASE activity' = [Service!Unavailable(activity) EXCEPT !.call = "none"] /\ UNCHANGED user
      <3>1. /\ activity' \in Activities /\ activity'.proxy = activity.proxy
            /\ activity'.idleWatch = activity.idleWatch
            /\ activity'.activeWatch = activity.activeWatch /\ activity'.call = "none"
            /\ ~activity'.available /\ ~activity'.idle
        BY <1>1, <2>3 DEF Activities, Service!Unavailable
      <3>2. Watched => Watched'
        BY <1>2, <2>1, <2>3, <3>1 DEF Watched
      <3> QED BY <1>2, <1>1, <1>4, <1>6, <2>3, <3>1, <3>2 DEF Calls
    <2> QED BY <1>9, <2>2, <2>3 DEF Service!AddIdleWatch
  <1>10. CASE Service!AddActiveWatch
    <2>1. activity.call = "active"
      BY <1>10 DEF Service!AddActiveWatch
    <2>2. CASE /\ user.up
               /\ user' = [user EXCEPT !.given = @ + 1, !.actives = @ \cup {user.given + 1}]
               /\ activity' = [activity EXCEPT !.activeWatch = user.given + 1, !.call = "read"]
      <3>1. /\ activity' \in Activities /\ activity'.proxy = activity.proxy
            /\ activity'.activeWatch = user.given + 1
            /\ activity'.idleWatch = activity.idleWatch /\ activity'.call = "read"
        <4>1. PICK g \in Nat : g = user.given + 1
          BY <1>4
        <4>2. activity' = [activity EXCEPT !.activeWatch = g, !.call = "read"]
          BY <2>2, <4>1
        <4> QED BY <1>1, <4>1, <4>2 DEF Activities
      <3>2. /\ user' \in Users /\ user'.up = user.up /\ user'.given = user.given + 1
            /\ user'.actives = user.actives \cup {user.given + 1} /\ user'.idles = user.idles
        <4>1. PICK g \in Nat : g = user.given + 1
          BY <1>4
        <4>4. \A x \in user.actives \cup {g} : x \in Nat
          BY <1>4
        <4>2. PICK ws \in SUBSET Nat : ws = user.actives \cup {user.given + 1}
          BY <4>1, <4>4
        <4>3. user' = [user EXCEPT !.given = g, !.actives = ws]
          BY <2>2, <4>1, <4>2
        <4> QED BY <1>1, <4>1, <4>2, <4>3 DEF Users
      <3>3. user'.idles \subseteq 1..user'.given /\ user'.actives \subseteq 1..user'.given
        BY <1>4, <3>2
      <3>4. user.given + 1 # 0 /\ user.given + 1 \notin user.idles
        BY <1>4
      <3>5. Watched => Watched'
        BY <3>1, <3>2, <3>4 DEF Watched
      <3> QED BY <1>2, <1>6, <2>2, <3>1, <3>2, <3>3, <3>5 DEF Calls
    <2>3. CASE /\ activity' = [Service!Unavailable(activity) EXCEPT !.idleWatch = 0,
                    !.call = "none"]
               /\ user' = [user EXCEPT !.idles = @ \ {activity.idleWatch}]
      <3>1. /\ activity' \in Activities /\ activity'.proxy = activity.proxy
               /\ activity'.idleWatch = 0
            /\ activity'.activeWatch = activity.activeWatch /\ activity'.call = "none"
            /\ ~activity'.available /\ ~activity'.idle
        BY <1>1, <2>3 DEF Activities, Service!Unavailable
      <3>2. /\ user' \in Users /\ user'.up = user.up /\ user'.given = user.given
            /\ user'.idles \subseteq user.idles /\ user'.actives = user.actives
        BY <1>1, <1>4, <2>3 DEF Users
      <3>3. Watched => Watched'
        BY <2>1, <3>1, <3>2 DEF Watched
      <3> QED BY <1>2, <1>4, <1>6, <3>1, <3>2, <3>3 DEF Calls
    <2> QED BY <1>10, <2>2, <2>3 DEF Service!AddActiveWatch
  <1>11. CASE Service!ReadActivity
    <2>1. PICK a \in Service!Updated(activity) : activity' = [a EXCEPT !.call = "none"]
               /\ user' = user
      BY <1>11 DEF Service!ReadActivity, Service!Read
    <2>2. /\ a \in Activities /\ a.proxy = activity.proxy /\ a.idleWatch = activity.idleWatch
          /\ a.activeWatch = activity.activeWatch
          /\ (a.idle => user.idle) /\ (a.available => a.idle = user.idle)
      BY <1>1, UpdatedActivity
    <2>3. /\ activity' \in Activities /\ activity'.proxy = activity.proxy
          /\ activity'.idleWatch = activity.idleWatch
             /\ activity'.activeWatch = activity.activeWatch
          /\ activity'.call = "none" /\ (activity'.idle => user.idle)
          /\ (activity'.available => activity'.idle = user.idle)
      BY <2>1, <2>2 DEF Activities
    <2>4. Watched => Watched'
      BY <1>2, <2>1, <2>3 DEF Watched
    <2> QED BY <1>2, <1>1, <1>4, <1>6, <2>1, <2>3, <2>4 DEF Calls
  <1> QED BY <1>2, <1>7, <1>8, <1>9, <1>10, <1>11 DEF CallStep

-----------------------------------------------------------------------------
(* At first nothing is inhibited, watched or known.                         *)
LEMMA ServiceInit == Service!Init => Service!IInv
  <1> SUFFICES ASSUME Service!Init PROVE Service!IInv
    OBVIOUS
  <1>1. [kind |-> "Appeared"] \in Service!Messages
    BY DEF Service!Messages
  <1>2. bus \in Seq(Service!Messages) /\ Len(bus) = 1 /\ bus[1] = [kind |-> "Appeared"]
        /\ stream = <<>>
        /\ \A i \in 1..Len(bus) : i = 1
    BY <1>1 DEF Service!Init
  <1>3. inhibitors = <<>> /\ DOMAIN inhibitors = {}
    BY DEF Service!Init
  <1>4. Service!Typed
    BY <1>2, <1>3 DEF Service!Init, Service!Typed, Service!TypeOK
  <1>5. Service!ClientsKept
    BY <1>2, <1>3 DEF Service!Init, Service!ClientsKept, Service!InhibitorsOwned, Service!Says
  <1>6. Service!PresenceKept
    BY <1>2 DEF Service!Init, Service!PresenceKept, Service!Says
  <1>7. Service!WatchesKept
    BY DEF Service!Init, Service!WatchesKept
  <1>8. Service!SaverKept
    <2>1. ~Service!Says(1, {"Owner"}) /\ ~Service!Says(1, {"Active"})
      BY <1>2 DEF Service!Says
    <2>2. saver.gnome = truth.gnome /\ ~truth.gnome /\ ~saver.connected /\ ~served
      BY DEF Service!Init
    <2> QED BY <1>2, <2>1, <2>2 DEF Service!SaverKept
  <1> QED BY <1>4, <1>5, <1>6, <1>7, <1>8 DEF Service!IInv

(* Every step keeps the invariant.                                          *)
LEMMA ServiceStep == Service!IInv /\ Service!Next => Service!IInv'
  <1> SUFFICES ASSUME Service!IInv, Service!Next PROVE Service!IInv'
    OBVIOUS
  <1>1. bus \in Seq(Service!Messages) /\ Service!ClientsKept /\ Service!PresenceKept
        /\ Service!WatchesKept /\ Service!SaverKept
        /\ user \in Users
    BY DEF Service!IInv, Service!Typed, Users
  <1>2. /\ user.idles \cup user.actives \subseteq 1..user.given
        /\ ~user.up => user.idles = {} /\ user.actives = {}
    BY <1>1 DEF Service!PresenceKept
  <1>3. Clients \subseteq Unlisted /\ Clients \subseteq UnheardWatch /\ Saver \subseteq UnheardWatch
    BY DEF Unlisted, UnheardWatch
  <1>4. ASSUME UNCHANGED Service!activityVars, Quiet(Presence \cup {"WatchFired"})
        PROVE  Service!PresenceKept' /\ Service!WatchesKept'
    <2>1. Quiet(Presence)
      BY <1>4, FewerQuiet
    <2>2. Service!PresenceKept'
      BY <1>1, <1>2, <1>4, <2>1, PresenceQuiet DEF Service!activityVars
    <2> QED BY <1>1, <1>4, <2>2, WatchesQuiet DEF Service!activityVars
  <1>5. CASE ClientStep
    <2>1. Service!Typed' /\ Service!ClientsKept' /\ Quiet(Others)
          /\ UNCHANGED <<Service!activityVars, Service!saverVars>>
      BY <1>5, ClientStepKeeps
    <2>2. Quiet(Saver) /\ Quiet(Presence \cup {"WatchFired"})
      BY <2>1, OtherKinds, FewerQuiet
    <2>3. Service!SaverKept'
      BY <1>1, <2>1, <2>2, SaverQuiet
    <2>4. Service!PresenceKept' /\ Service!WatchesKept'
      BY <1>4, <2>1, <2>2
    <2> QED BY <2>1, <2>3, <2>4 DEF Service!IInv
  <1>6. CASE OwnerStep
    <2>1. Service!Typed' /\ Service!SaverKept' /\ Quiet(Unlisted)
          /\ UNCHANGED <<Service!inhibitVars, Service!activityVars>>
      BY <1>6, OwnerStepKeeps
    <2>2. Quiet(Clients) /\ Quiet(Presence \cup {"WatchFired"})
      BY <1>3, <2>1, UnlistedKinds, FewerQuiet
    <2>3. Service!ClientsKept'
      BY <1>1, <2>1, <2>2, ClientsQuiet
    <2>4. Service!PresenceKept' /\ Service!WatchesKept'
      BY <1>4, <2>1, <2>2
    <2> QED BY <2>1, <2>3, <2>4 DEF Service!IInv
  <1>7. CASE LockStep
    <2>1. Service!Typed' /\ Service!SaverKept' /\ bus' = bus
          /\ UNCHANGED <<Service!inhibitVars, Service!activityVars>>
      BY <1>7, LockStepKeeps
    <2>2. Quiet(Clients) /\ Quiet(Presence \cup {"WatchFired"})
      BY <2>1 DEF Quiet
    <2>3. Service!ClientsKept'
      BY <1>1, <2>1, <2>2, ClientsQuiet
    <2>4. Service!PresenceKept' /\ Service!WatchesKept'
      BY <1>4, <2>1, <2>2
    <2> QED BY <2>1, <2>3, <2>4 DEF Service!IInv
  <1>8. ASSUME Service!Typed', Service!PresenceKept', Service!WatchesKept', Quiet(UnheardWatch),
               UNCHANGED <<Service!inhibitVars, Service!saverVars>>
        PROVE  Service!IInv'
    <2>1. Quiet(Clients) /\ Quiet(Saver)
      BY <1>3, <1>8, FewerQuiet
    <2>2. Service!ClientsKept'
      BY <1>1, <1>8, <2>1, ClientsQuiet
    <2>3. Service!SaverKept'
      BY <1>1, <1>8, <2>1, SaverQuiet
    <2> QED BY <1>8, <2>2, <2>3 DEF Service!IInv
  <1>9. CASE UserStep
    BY <1>8, <1>9, UserStepKeeps
  <1>10. CASE Service!MonitorLeaves
    BY <1>8, <1>10, MonitorLeavesKeeps
  <1>11. CASE Service!MonitorArrives
    BY <1>8, <1>11, MonitorArrivesKeeps
  <1>12. CASE HeardStep
    BY <1>8, <1>12, HeardStepKeeps
  <1>13. CASE Service!WatchFired
    BY <1>8, <1>13, WatchFiredKeeps
  <1>14. CASE CallStep
    <2>1. /\ Service!Typed' /\ Service!PresenceKept' /\ Service!WatchesKept'
          /\ bus' = bus /\ UNCHANGED <<Service!inhibitVars, Service!saverVars>>
      BY <1>14, CallStepKeeps
    <2>2. Quiet(UnheardWatch)
      BY <2>1 DEF Quiet
    <2> QED BY <1>8, <2>1, <2>2
  <1> QED BY <1>5, <1>6, <1>7, <1>9, <1>10, <1>11, <1>12, <1>13, <1>14
          DEF Service!Next, ClientStep, OwnerStep, LockStep, UserStep, HeardStep, CallStep

(* So does a step of the others.                                            *)
LEMMA ServiceRests == Service!IInv /\ UNCHANGED serviceVars => Service!IInv'
  BY DEF Service!IInv, Service!Typed, Service!TypeOK, Service!ClientsKept, Service!InhibitorsOwned,
     Service!PresenceKept, Service!WatchesKept, Service!SaverKept,
       Service!Says, Service!After, Service!Before, Service!Between, Service!Waits, Service!Fires,
       serviceVars

(* At rest, what the service tells is so.                                   *)
LEMMA ServiceTrue == Service!IInv => Service!ServiceSound
  <1> SUFFICES ASSUME Service!IInv PROVE Service!ServiceSound
    OBVIOUS
  <1>1. Service!TypeOK /\ Service!InhibitorsOwned
    BY DEF Service!IInv, Service!Typed, Service!ClientsKept
  <1>2. activity \in Activities /\ user \in Users /\ saver.gnome \in BOOLEAN
        /\ truth.gnome \in BOOLEAN
    BY DEF Service!IInv, Service!Typed, Activities, Users
  <1>3. ASSUME bus = <<>> PROVE (\A kinds : ~Service!Waits(kinds)) /\ \A w : ~Service!Fires(w)
    <2>1. Len(bus) = 0 /\ bus \in Seq(Service!Messages)
      BY <1>3 DEF Service!IInv, Service!Typed
    <2>2. Service!Range(bus) = {}
      BY <2>1 DEF Service!Range
    <2> QED BY <2>1, <2>2 DEF Service!Waits, Service!After, Service!Between, Service!Fires
  <1>4. Service!ActivityFollows
    <2> SUFFICES ASSUME Service!Settled, activity.idleWatch # 0 \/ activity.idle
                          PROVE activity.idle = user.idle
      BY DEF Service!ActivityFollows
    <2>1. bus = <<>> /\ activity.call = "none" /\ activity.activeWatch # 0 /\ activity.available
      BY DEF Service!Settled, Service!Idle
    <2>2. activity.proxy
      BY <2>1 DEF Service!IInv, Service!PresenceKept
    <2>3. Watched
      BY <1>3, <2>1, <2>2 DEF Service!IInv, Service!WatchesKept, Watched, Service!Fires, Firing
    <2>4. ~(Firing(activity.activeWatch) \in Service!Range(bus))
           /\ ~(Firing(activity.idleWatch) \in Service!Range(bus))
      BY <1>3, <2>1 DEF Service!Fires, Firing
    <2>5. activity.idle \in BOOLEAN /\ user.idle \in BOOLEAN
      BY <1>2 DEF Activities, Users
    <2> QED BY <2>1, <2>3, <2>4, <2>5 DEF Watched
  <1>5. Service!SaverFollows
    <2> SUFFICES ASSUME bus = <<>>
                 PROVE  IF truth.gnome THEN unsure \/ saver.active = truth.saving
                        ELSE saver.connected /\ served
                        /\ stream = <<>> => saver.active = truth.locked
      BY DEF Service!SaverFollows
    <2>1. ~Service!Waits({"Owner"}) /\ ~Service!Waits({"Owner", "Active"})
      BY <1>3
    <2>2. Service!SaverKept
      BY DEF Service!IInv
    <2> QED BY <1>2, <2>1, <2>2 DEF Service!SaverKept
  <1> QED BY <1>1, <1>4, <1>5 DEF Service!ServiceSound

(* Every idle period is told once, no inhibitor outlives its client, and at *)
(* rest the service says of the user and of the saver what is so.           *)
THEOREM IdleKept == AllSpec => []IdleSound
  <1> DEFINE I == /\ subject = "notify" => Notify!IInv
                  /\ subject = "service" => Service!IInv
  <1>1. AllInit => I
    BY NotifyInit, ServiceInit DEF AllInit
  <1>2. I /\ [AllNext]_allVars => I'
    BY SubjectSteps, NotifyStep, ServiceStep, ServiceRests
  <1>3. I => IdleSound
    BY NotifyTrue, ServiceTrue DEF IdleSound
  <1> QED BY <1>1, <1>2, <1>3, PTL DEF AllSpec
=============================================================================
