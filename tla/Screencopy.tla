------------------------------ MODULE Screencopy ------------------------------
(***************************************************************************)
(* Screenshots through wlr-screencopy (protocols/screencopy).              *)
(*                                                                         *)
(* A frame names what to capture and is answered with the size of the      *)
(* buffer it needs; a later copy paints into a buffer of that size.  The   *)
(* session may lock, or the output change or go, in between.               *)
(*                                                                         *)
(* The output has one axis here: a rectangle is a start and a length, and  *)
(* scales are counted in halves.                                           *)
(***************************************************************************)
EXTENDS Integers

CONSTANTS Frames,
          Outputs,              \* the layouts the captured output may have: [at, len, scale2]
          Reach,                \* bound: offsets in -Reach..Reach, lengths in 0..Reach
          MaxChanges            \* bound: locks, and changes of the layout

ScreencopyAssumption ==
  /\ Reach \in Nat /\ MaxChanges \in Nat
  /\ Outputs \subseteq [at : Int, len : Nat, scale2 : Nat \ {0}]

VARIABLES frame, locked,
          output,               \* its layout, or NoOutput
          changes

vars == <<frame, locked, output, changes>>

NoOutput == [at |-> 0, len |-> 0, scale2 |-> 0]
NoFrame == [state |-> "new", at |-> 0, len |-> 0, size |-> 0, copied |-> FALSE,
            answers |-> 0, ready |-> FALSE, shown |-> FALSE]

-----------------------------------------------------------------------------
Clamp(v, low, high) == IF v < low THEN low ELSE IF v > high THEN high ELSE v

\* clip_region_to_monitor; the region is relative to the output, a failure is a length of 0.
ClipsStart(o, x, len) ==        \* mutant: the length is not clipped at the far end
  LET a == Clamp(o.at + x, o.at, o.at + o.len) IN [at |-> a, len |-> len]
Clip(o, x, len) ==
  LET a == Clamp(o.at + x, o.at, o.at + o.len)
      b == Clamp(o.at + x + len, o.at, o.at + o.len)
  IN  IF len <= 0 \/ b <= a THEN [at |-> 0, len |-> 0] ELSE [at |-> a, len |-> b - a]

\* calculate_buffer_geometry: rounded to the nearest pixel
Size(len, scale2) == (len * scale2 + 1) \div 2

\* create_frame: a locked session, an output that is gone and a region outside it fail at once.
Offered(r) == [NoFrame EXCEPT !.state = "offered", !.at = r.at, !.len = r.len,
                              !.size = Size(r.len, output.scale2)]
Failed == [NoFrame EXCEPT !.state = "offered", !.answers = 1]

Capture(f, r) ==
  /\ frame[f].state = "new"
  /\ frame' = [frame EXCEPT ![f] =
       IF locked \/ output = NoOutput \/ r.len <= 0 THEN Failed ELSE Offered(r)]
  /\ UNCHANGED <<locked, output, changes>>

CaptureOutput(f) == Capture(f, [at |-> output.at, len |-> output.len])
CaptureRegion(f, x, len) == Capture(f, Clip(output, x, len))

\* copy_frame_to_buffer with a buffer of a size, which painting may fail to fill; the client
\* does not outlive a protocol error.
CopyTrusts == FALSE             \* mutant: the lock is not asked again
CopySees == locked
CopyForgets(fr) == [fr EXCEPT !.answers = @ + 1]        \* mutant: copied is set after the lock check
CopyRefused(fr) == [fr EXCEPT !.copied = TRUE, !.answers = @ + 1]

Copied(fr, size, painted) ==
  IF fr.copied THEN [fr EXCEPT !.state = "error"]
  ELSE IF CopySees THEN CopyRefused(fr)
  ELSE IF size # fr.size THEN [fr EXCEPT !.state = "error", !.copied = TRUE]
  ELSE [fr EXCEPT !.copied = TRUE, !.answers = @ + 1, !.ready = painted, !.shown = painted /\ locked]

\* A buffer has at least one pixel.
Copy(f, size, painted) ==
  /\ frame[f].state = "offered"
  /\ frame' = [frame EXCEPT ![f] = Copied(@, size, painted)]
  /\ UNCHANGED <<locked, output, changes>>

Destroy(f) ==
  /\ frame[f].state = "offered" /\ frame' = [frame EXCEPT ![f].state = "gone"]
  /\ UNCHANGED <<locked, output, changes>>

Change == changes < MaxChanges /\ changes' = changes + 1
Locks == Change /\ locked' = ~locked /\ UNCHANGED <<frame, output>>
OutputChanges(o) == Change /\ output # o /\ output' = o /\ UNCHANGED <<frame, locked>>

-----------------------------------------------------------------------------
Init ==
  /\ frame = [f \in Frames |-> NoFrame] /\ locked = FALSE
  /\ output \in Outputs /\ changes = 0

FrameStep(f) ==
  \/ CaptureOutput(f)
  \/ \E x \in (-Reach)..Reach, len \in 0..Reach : CaptureRegion(f, x, len)
  \/ \E size \in 1..(2 * Reach), painted \in BOOLEAN : Copy(f, size, painted)
  \/ Destroy(f)

Next ==
  \/ \E f \in Frames : FrameStep(f)
  \/ Locks \/ \E o \in Outputs \cup {NoOutput} : OutputChanges(o)

Spec == Init /\ [][Next]_vars

-----------------------------------------------------------------------------
(* Properties.                                                               *)

TypeOK == changes \in 0..MaxChanges /\ locked \in BOOLEAN /\ output \in Outputs \cup {NoOutput}

\* A region is cut to the part of it that lies on the output.
Cut ==
  \A o \in Outputs, x \in (-Reach)..Reach, len \in 0..Reach :
    LET c == Clip(o, x, len)
        inside == {p \in o.at..(o.at + o.len - 1) : o.at + x <= p /\ p < o.at + x + len}
    IN  inside = c.at..(c.at + c.len - 1)

\* A frame that was offered a buffer is answered once, one that failed is never ready, also
\* when the session unlocked since; a frame from before a lock shows nothing of the session
\* after it; what was offered has at least one pixel.
CaptureSound ==
  /\ TypeOK /\ Cut
  /\ \A f \in Frames :
       LET fr == frame[f]
       IN  /\ fr.size > 0 => fr.answers <= 1
           /\ fr.ready => fr.size > 0 /\ ~fr.shown
           /\ fr.len > 0 => fr.size > 0

\* The inductive invariant: a frame that was offered a buffer is answered by its first copy.
FrameRecords ==
  [state : {"new", "offered", "error", "gone"}, at : Int, len : Int, size : Nat,
   copied : BOOLEAN, answers : Nat, ready : BOOLEAN, shown : BOOLEAN]

Answered(fr) ==
  /\ fr.state = "new" => fr = NoFrame
  /\ fr.size > 0 => fr.answers <= IF fr.copied THEN 1 ELSE 0
  /\ fr.ready => fr.size > 0
  /\ fr.len > 0 => fr.size > 0
  /\ ~fr.shown

IInv ==
  /\ TypeOK /\ frame \in [Frames -> FrameRecords]
  /\ \A f \in Frames : Answered(frame[f])
=============================================================================
