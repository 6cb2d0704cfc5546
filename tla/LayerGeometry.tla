---------------------------- MODULE LayerGeometry ----------------------------
(***************************************************************************)
(* Where a layer surface is placed and which edge of its output it         *)
(* reserves: calculate_geometry_for_buffer, get_effective_exclusive_edge   *)
(* and update_exclusive_zone_struts of                                     *)
(* protocols/layer-shell/meta-wayland-layer-shell.c, over small inputs.    *)
(***************************************************************************)
EXTENDS Integers, FiniteSets

CONSTANTS Monitors,    \* output layouts, records [x, y, width, height]
          Extents,     \* sizes a client asks for; 0 for "stretch"
          Margins,     \* margins
          Zones        \* exclusive zones

Sides == {"top", "bottom", "left", "right"}

Layouts == [x : Int, y : Int, width : Nat \ {0}, height : Nat \ {0}]
GeometryAssumption == /\ Extents \subseteq Nat /\ Margins \subseteq Int /\ Zones \subseteq Int
                      /\ Monitors \subseteq Layouts

VARIABLES mon,         \* the output
          state,       \* the surface's current state
          shown,       \* its rectangle
          strut        \* the reserved side and rectangle, or NoStrut

vars == <<mon, state, shown, strut>>

Larger(a, b) == IF a > b THEN a ELSE b
Smaller(a, b) == IF a < b THEN a ELSE b
Clamped(a, low, high) == Larger(low, Smaller(a, high))
Half(a) == IF a >= 0 THEN a \div 2 ELSE -((-a) \div 2)        \* C's division truncates

\* mutant: a surface on one edge may reach past the other
LengthPast(length, near, far, mnear, mfar, asked, committed) ==
  Larger(1, IF asked = 0 THEN Larger(1, length - mnear - mfar) ELSE asked)
\* One axis: the output's start and length, the two anchors and margins, the asked length.
Length(length, near, far, mnear, mfar, asked, committed) ==
  LET stretched == IF asked = 0 THEN Larger(1, length - mnear - mfar) ELSE asked
      room == Larger(1, length - (IF near THEN mnear ELSE mfar))
  IN  Larger(1, IF ~committed /\ near # far THEN Smaller(stretched, room) ELSE stretched)

PositionFloats(start, length, near, far, mnear, mfar, size) ==    \* mutant: anchored to the middle
  start + Half(length - size) + Half(mnear - mfar)
Position(start, length, near, far, mnear, mfar, size) ==
  IF near /\ ~far THEN start + mnear
  ELSE IF far /\ ~near THEN start + length - size - mfar
  ELSE start + Half(length - size) + Half(mnear - mfar)

Geometry(m, s, width, height, committed) ==
  LET a(side) == side \in s.anchor
      w == Length(m.width, a("left"), a("right"), s.margin["left"], s.margin["right"],
                  width, committed)
      h == Length(m.height, a("top"), a("bottom"), s.margin["top"], s.margin["bottom"],
                  height, committed)
  IN  [x |-> Position(m.x, m.width, a("left"), a("right"), s.margin["left"],
                      s.margin["right"], w),
       y |-> Position(m.y, m.height, a("top"), a("bottom"), s.margin["top"],
                      s.margin["bottom"], h),
       width |-> w, height |-> h]

Requested(m, s) == Geometry(m, s, s.width, s.height, FALSE)

\* validate_layer_surface_state
Valid(s) == /\ s.width = 0 => {"left", "right"} \subseteq s.anchor
            /\ s.height = 0 => {"top", "bottom"} \subseteq s.anchor
            /\ s.edge # "none" => s.edge \in s.anchor

Across == [top |-> {"left", "right"}, bottom |-> {"left", "right"},
           left |-> {"top", "bottom"}, right |-> {"top", "bottom"}]
Opposite == [top |-> "bottom", bottom |-> "top", left |-> "right", right |-> "left"]

\* The asked edge, or the one the surface is anchored to alone or with both edges across.
ReservesCorner(s, side) ==                 \* mutant: a corner reserves its first edge
  side \in s.anchor /\ Opposite[side] \notin s.anchor
Reserves(s, side) == /\ side \in s.anchor /\ Opposite[side] \notin s.anchor
                     /\ Cardinality(s.anchor \cap Across[side]) # 1
EffectiveEdge(s) ==
  IF s.edge # "none" THEN s.edge
  ELSE IF \E side \in Sides : Reserves(s, side) THEN CHOOSE side \in Sides : Reserves(s, side)
  ELSE "none"

NoStrut == [side |-> "none", x |-> 0, y |-> 0, width |-> 0, height |-> 0]

ExtentBare(m, s, edge) == Clamped(s.zone, 0, IF edge \in {"top", "bottom"}
                                             THEN m.height ELSE m.width)   \* mutant: no margin
Extent(m, s, edge) ==
  Clamped(s.zone + s.margin[edge], 0, IF edge \in {"top", "bottom"} THEN m.height ELSE m.width)

Strut(m, s) ==
  LET edge == EffectiveEdge(s)
      extent == Extent(m, s, edge)
  IN  IF s.zone <= 0 \/ edge = "none" THEN NoStrut
      ELSE IF extent = 0 THEN NoStrut
      ELSE IF edge \in {"top", "bottom"}
      THEN [side |-> edge, x |-> m.x, width |-> m.width, height |-> extent,
            y |-> IF edge = "top" THEN m.y ELSE m.y + m.height - extent]
      ELSE [side |-> edge, y |-> m.y, height |-> m.height, width |-> extent,
            x |-> IF edge = "left" THEN m.x ELSE m.x + m.width - extent]

-----------------------------------------------------------------------------
States == [anchor : SUBSET Sides, margin : [Sides -> Margins], width : Extents,
           height : Extents, zone : Zones, edge : Sides \cup {"none"}]

\* The first configure is answered on output m with the state s.
Starts(m, s) == mon = m /\ state = s /\ shown = Requested(m, s) /\ strut = NoStrut

Init == \E m \in Monitors, s \in {t \in States : Valid(t)} : Starts(m, s)

\* A buffer is committed: its own size is placed, which may not be the requested one yet.
Draw(width, height) ==
  /\ shown' = Geometry(mon, state, width, height, TRUE)
  /\ strut' = Strut(mon, state)
  /\ UNCHANGED <<mon, state>>

Next == \E width, height \in Extents \ {0} : Draw(width, height)

Spec == Init /\ [][Next]_vars

-----------------------------------------------------------------------------
(* Properties.                                                               *)

Right(r) == r.x + r.width
Bottom(r) == r.y + r.height
Anchored(side) == side \in state.anchor /\ Opposite[side] \notin state.anchor

\* A surface keeps its margin from the one edge it is anchored to, whatever size it has drawn:
\* a tooltip does not jump while its next buffer is pending.
KeepsItsEdge ==
  /\ Anchored("left") => shown.x = mon.x + state.margin["left"]
  /\ Anchored("right") => Right(shown) = Right(mon) - state.margin["right"]
  /\ Anchored("top") => shown.y = mon.y + state.margin["top"]
  /\ Anchored("bottom") => Bottom(shown) = Bottom(mon) - state.margin["bottom"]

\* What a client is asked to draw lies on its output, unless a negative margin puts it outside:
\* on the axis where it is anchored to one edge whatever it asked for, else when its size and
\* margins leave room.
RequestFits ==
  LET r == Requested(mon, state)
      wide == state.margin["left"] + state.margin["right"]
      high == state.margin["top"] + state.margin["bottom"]
  IN  (\A side \in Sides : state.margin[side] >= 0) =>
      /\ wide < mon.width /\ (Anchored("left") \/ Anchored("right")
                              \/ state.width + wide <= mon.width)
           => r.x >= mon.x /\ Right(r) <= Right(mon)
      /\ high < mon.height /\ (Anchored("top") \/ Anchored("bottom")
                              \/ state.height + high <= mon.height)
           => r.y >= mon.y /\ Bottom(r) <= Bottom(mon)

\* A zone is reserved only for a surface on one edge, or on one edge and both across.
ZoneNeedsAnEdge ==
  strut # NoStrut /\ state.edge = "none" => Cardinality(state.anchor) \in {1, 3}

\* A panel no thicker than its zone covers nothing of its output that the zone leaves to the
\* windows.
PanelInsideZone ==
  strut # NoStrut =>
    /\ strut.side = "top" /\ Anchored("top") /\ shown.height <= state.zone
         => Smaller(Bottom(shown), Bottom(mon)) <= Bottom(strut)
    /\ strut.side = "bottom" /\ Anchored("bottom") /\ shown.height <= state.zone
         => Larger(shown.y, mon.y) >= strut.y
    /\ strut.side = "left" /\ Anchored("left") /\ shown.width <= state.zone
         => Smaller(Right(shown), Right(mon)) <= Right(strut)
    /\ strut.side = "right" /\ Anchored("right") /\ shown.width <= state.zone
         => Larger(shown.x, mon.x) >= strut.x

\* Where a surface is put agrees with what it asked for and with what is reserved for it.
Placement == KeepsItsEdge /\ RequestFits /\ ZoneNeedsAnEdge /\ PanelInsideZone

\* The inductive invariant: the surface keeps its edge, and what is reserved is what its state
\* reserves.
Rectangles == [x : Int, y : Int, width : Int, height : Int]
IInv == /\ mon \in Monitors /\ state \in States /\ shown \in Rectangles
        /\ strut \in {NoStrut, Strut(mon, state)} /\ KeepsItsEdge

\* A surface stretched between two edges keeps its margin from both
\* (wlr-layer-shell-unstable-v1.xml, set_margin).
StretchKeepsMargins ==
  LET r == Requested(mon, state)
  IN  state.width = 0 /\ state.margin["left"] + state.margin["right"] < mon.width
        => /\ r.x = mon.x + state.margin["left"]
           /\ Right(r) = Right(mon) - state.margin["right"]
=============================================================================
