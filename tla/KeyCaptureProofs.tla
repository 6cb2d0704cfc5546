--------------------------- MODULE KeyCaptureProofs ---------------------------
(***************************************************************************)
(* Proofs about KeyCapture, for every set of shortcuts and keys and any    *)
(* number of grabs, captures and reloads.                                  *)
(*                                                                         *)
(* The capture and its owners are one record, and the ends of the three    *)
(* owners are composed in many orders.  Each end is therefore shown once,  *)
(* of any record, to keep the record Owned and to leave no more than there *)
(* was (Lesser); the actions follow from those lemmas.                     *)
(***************************************************************************)
EXTENDS KeyCapture, FiniteSetTheorems, TLAPS

Custody == [capture : BOOLEAN, grab : Nat, active : SUBSET Shortcuts,
            current : Shortcuts \cup {None}, sessionCapture : BOOLEAN, capturing : BOOLEAN,
            timers : SUBSET (Shortcuts \cup {"grab", "capture"}), told : SUBSET Nat,
            twice : SUBSET Nat, silent : SUBSET Nat, answered : Nat]

\* The capture is on for one owner, and the timeouts that run are the owners'.
Owned(x) ==
  /\ x \in Custody
  /\ x.capture <=> x.grab # NoGrab \/ x.sessionCapture \/ x.capturing
  /\ x.grab # NoGrab => ~x.sessionCapture /\ ~x.capturing
  /\ ~(x.sessionCapture /\ x.capturing)
  /\ x.current # None => x.current \in x.active
  /\ x.sessionCapture => x.current # None
  /\ x.timers = x.active \cup (IF x.grab # NoGrab THEN {"grab"} ELSE {})
                         \cup (IF x.capturing THEN {"capture"} ELSE {})

\* Of n grabs all but the present one ended, each of them once.
Told(x, n) ==
  /\ x.twice = {} /\ x.told \cap x.silent = {}
  /\ x.told \cup x.silent = (1..n) \ {x.grab}
  /\ x.grab \in 0..n

Count(x) == x.answered + (IF x.capturing THEN 1 ELSE 0)

\* What y has, x had.
Lesser(x, y) ==
  /\ Owned(y)
  /\ y.grab # NoGrab => y.grab = x.grab
  /\ y.capture => x.capture
  /\ y.capturing => x.capturing
  /\ y.sessionCapture => x.sessionCapture
  /\ y.current # None => y.current = x.current
  /\ \A n \in Nat : Told(x, n) => Told(y, n)
  /\ Count(y) <= Count(x)

\* The same, and nobody was left without an answer.
LesserTold(x, y) == Lesser(x, y) /\ y.silent = x.silent /\ Count(y) = Count(x)

-----------------------------------------------------------------------------
LEMMA Names ==
  /\ None \notin Shortcuts /\ "grab" \notin Shortcuts /\ "capture" \notin Shortcuts
  /\ Super \in Shortcuts /\ Holds \subseteq Shortcuts /\ Modals \subseteq Holds
  /\ ClientOwned \subseteq Holds
BY CaptureAssumption DEF CaptureAssumption, None, Super, Alt, Shortcuts

LEMMA Bounds == MaxGrabs \in Nat /\ MaxWorld \in Nat
BY CaptureAssumption DEF CaptureAssumption

LEMMA Reflexive ==
  ASSUME NEW x, Owned(x)
  PROVE  LesserTold(x, x)
BY DEF LesserTold, Lesser, Count, Owned, Custody

LEMMA Transitive ==
  ASSUME NEW x, NEW y, NEW z, Lesser(x, y), Lesser(y, z), Owned(x)
  PROVE  /\ Lesser(x, z)
         /\ LesserTold(x, y) /\ LesserTold(y, z) => LesserTold(x, z)
<1>1. Count(x) \in Nat /\ Count(y) \in Nat /\ Count(z) \in Nat
  BY DEF Lesser, Owned, Custody, Count
<1>2. Lesser(x, z)
  BY <1>1 DEF Lesser
<1> QED  BY <1>2 DEF LesserTold

\* gnoblin_control_input_grab_end
LEMMA EndGrabLess ==
  ASSUME NEW x, Owned(x), NEW publish \in BOOLEAN
  PROVE  /\ Lesser(x, EndGrab(x, publish)) /\ EndGrab(x, publish).grab = NoGrab
         /\ Count(EndGrab(x, publish)) = Count(x)
         /\ EndGrab(x, publish).capturing = x.capturing
         /\ EndGrab(x, publish).current = x.current
         /\ EndGrab(x, publish).sessionCapture = x.sessionCapture
         /\ publish => LesserTold(x, EndGrab(x, publish))
<1> DEFINE y == EndGrab(x, publish)
<1>1. CASE x.grab = NoGrab
  <2>1. y = x
    BY <1>1 DEF EndGrab
  <2> QED  BY <1>1, <2>1, Reflexive DEF LesserTold
<1>2. CASE x.grab # NoGrab
  <2>1. y = [x EXCEPT !.grab = NoGrab, !.capture = FALSE, !.timers = @ \ {"grab"},
                      !.twice = IF publish THEN @ \cup (x.told \cap {x.grab}) ELSE @,
                      !.told = IF publish THEN @ \cup {x.grab} ELSE @,
                      !.silent = IF publish THEN @ ELSE @ \cup {x.grab}]
    BY <1>2 DEF EndGrab
  <2> HIDE DEF y
  <2>2. /\ y \in Custody /\ y.grab = NoGrab /\ y.capture = FALSE /\ y.timers = x.timers \ {"grab"}
        /\ y.active = x.active /\ y.current = x.current /\ y.sessionCapture = x.sessionCapture
        /\ y.capturing = x.capturing /\ y.answered = x.answered
        /\ y.twice = IF publish THEN x.twice \cup (x.told \cap {x.grab}) ELSE x.twice
        /\ y.told = IF publish THEN x.told \cup {x.grab} ELSE x.told
        /\ y.silent = IF publish THEN x.silent ELSE x.silent \cup {x.grab}
    <3>1. x \in Custody
      BY DEF Owned
    <3>2. /\ (IF publish THEN x.silent ELSE x.silent \cup {x.grab}) \in SUBSET Nat
          /\ (IF publish THEN x.told \cup {x.grab} ELSE x.told) \in SUBSET Nat
          /\ (IF publish THEN x.twice \cup (x.told \cap {x.grab}) ELSE x.twice) \in SUBSET Nat
          /\ x.timers \ {"grab"} \in SUBSET (Shortcuts \cup {"grab", "capture"})
      BY <3>1 DEF Custody
    <3>3. y \in Custody
      BY <2>1, <3>1, <3>2 DEF Custody, NoGrab
    <3> QED  BY <2>1, <3>1, <3>3 DEF Custody
  <2>3. Owned(y)
    BY <1>2, <2>2, Names DEF Owned, Custody
  <2>4. ASSUME NEW n \in Nat, Told(x, n) PROVE Told(y, n)
    <3>1. x.grab \in 1..n /\ x.grab \notin x.told /\ x.grab \notin x.silent
      BY <1>2, <2>4 DEF Told, NoGrab, Owned, Custody
    <3>2. y.twice = {}
      BY <2>2, <2>4, <3>1 DEF Told
    <3>3. y.told \cap y.silent = {}
      BY <2>2, <2>4, <3>1 DEF Told
    <3>4. y.told \cup y.silent = x.told \cup x.silent \cup {x.grab}
      BY <2>2
    <3>5. y.told \cup y.silent = 1..n
      BY <3>1, <3>4, <2>4 DEF Told
    <3>6. NoGrab \notin 1..n
      BY DEF NoGrab
    <3> QED  BY <2>2, <3>2, <3>3, <3>5, <3>6 DEF Told, NoGrab
  <2>5. Count(y) = Count(x)
    BY <2>2 DEF Count
  <2>6. Lesser(x, y)
    BY <1>2, <2>2, <2>3, <2>4, <2>5 DEF Lesser, Owned, Custody, Count
  <2> QED  BY <2>2, <2>5, <2>6 DEF LesserTold, y
<1> QED  BY <1>1, <1>2

\* dynamic_shortcut_end_session
LEMMA EndSessionLess ==
  ASSUME NEW x, Owned(x), NEW s
  PROVE  /\ LesserTold(x, EndSession(x, s))
         /\ EndSession(x, s).grab = x.grab /\ EndSession(x, s).capturing = x.capturing
         /\ s = x.current => /\ EndSession(x, s).current = None
                             /\ ~EndSession(x, s).sessionCapture
<1> DEFINE y == EndSession(x, s)
<1>1. CASE s \notin x.active
  <2>1. y = x
    BY <1>1 DEF EndSession
  <2>2. s = x.current => x.current = None /\ ~x.sessionCapture
    BY <1>1 DEF Owned
  <2> QED  BY <2>1, <2>2, Reflexive
<1>2. CASE s \in x.active
  <2>a. x \in Custody
    BY DEF Owned
  <2>b. /\ x.active \ {s} \in SUBSET Shortcuts
        /\ x.timers \ {s} \in SUBSET (Shortcuts \cup {"grab", "capture"})
        /\ (x.capture /\ ~x.sessionCapture) \in BOOLEAN
    BY <2>a DEF Custody
  <2>1. /\ y \in Custody /\ y.grab = x.grab /\ y.active = x.active \ {s}
        /\ y.timers = x.timers \ {s} /\ y.capturing = x.capturing
        /\ y.told = x.told /\ y.twice = x.twice /\ y.silent = x.silent /\ y.answered = x.answered
        /\ y.current = IF x.current = s THEN None ELSE x.current
        /\ y.sessionCapture = (x.sessionCapture /\ x.current # s)
        /\ y.capture = (x.capture /\ ~(x.current = s /\ x.sessionCapture))
    <3>1. CASE x.current = s
      <4>1. y = [x EXCEPT !.active = @ \ {s}, !.timers = @ \ {s}, !.current = None,
                          !.capture = @ /\ ~x.sessionCapture, !.sessionCapture = FALSE]
        BY <1>2, <3>1 DEF EndSession
      <4>2. y \in Custody
        BY <2>a, <2>b, <4>1 DEF Custody
      <4>3. y.capture = (x.capture /\ ~x.sessionCapture) /\ y.sessionCapture = FALSE
        BY <2>a, <4>1 DEF Custody
      <4> QED  BY <2>a, <4>1, <4>2, <4>3, <3>1 DEF Custody
    <3>2. CASE x.current # s
      <4>1. y = [x EXCEPT !.active = @ \ {s}, !.timers = @ \ {s}]
        BY <1>2, <3>2 DEF EndSession
      <4>2. y \in Custody
        BY <2>a, <2>b, <4>1 DEF Custody
      <4> QED  BY <2>a, <4>1, <4>2, <3>2 DEF Custody
    <3> QED  BY <3>1, <3>2
  <2> HIDE DEF y
  <2>2. s \in Shortcuts
    BY <1>2 DEF Owned, Custody
  <2>3. Owned(y)
    BY <1>2, <2>1, <2>2, Names DEF Owned, Custody
  <2>4. \A n \in Nat : Told(x, n) => Told(y, n)
    BY <2>1 DEF Told
  <2>5. Count(y) = Count(x) /\ Count(x) \in Nat
    BY <2>1 DEF Count, Owned, Custody
  <2>6. (y.capture => x.capture) /\ (y.sessionCapture => x.sessionCapture)
    BY <2>1
  <2>7. Lesser(x, y)
    BY <2>1, <2>3, <2>4, <2>5, <2>6 DEF Lesser
  <2> QED  BY <2>1, <2>5, <2>7 DEF LesserTold, y
<1> QED  BY <1>1, <1>2

\* The sessions of a set of shortcuts.
LEMMA EndSessionsLess ==
  ASSUME NEW x, Owned(x), NEW set \in SUBSET Shortcuts
  PROVE  /\ LesserTold(x, EndSessions(x, set))
         /\ EndSessions(x, set).grab = x.grab /\ EndSessions(x, set).capturing = x.capturing
<1> DEFINE ends == x.current \in set \cap x.active
           y == EndSessions(x, set)
<1>1. y = [x EXCEPT !.active = @ \ set, !.timers = @ \ set,
                    !.current = IF ends THEN None ELSE @,
                    !.capture = @ /\ ~(ends /\ x.sessionCapture),
                    !.sessionCapture = @ /\ ~ends]
  BY DEF EndSessions
<1>2. /\ y \in Custody /\ y.grab = x.grab /\ y.active = x.active \ set
      /\ y.timers = x.timers \ set /\ y.capturing = x.capturing
      /\ y.told = x.told /\ y.twice = x.twice /\ y.silent = x.silent /\ y.answered = x.answered
      /\ y.current = IF ends THEN None ELSE x.current
      /\ y.sessionCapture = (x.sessionCapture /\ ~ends)
      /\ y.capture = (x.capture /\ ~(ends /\ x.sessionCapture))
  <2>1. x \in Custody
    BY DEF Owned
  <2>2. /\ x.active \ set \in SUBSET Shortcuts
        /\ x.timers \ set \in SUBSET (Shortcuts \cup {"grab", "capture"})
        /\ (x.capture /\ ~(ends /\ x.sessionCapture)) \in BOOLEAN
        /\ (x.sessionCapture /\ ~ends) \in BOOLEAN
        /\ (IF ends THEN None ELSE x.current) \in Shortcuts \cup {None}
    BY <2>1 DEF Custody
  <2> HIDE DEF ends
  <2>3. y \in Custody
    BY <1>1, <2>1, <2>2 DEF Custody
  <2>4. /\ y.capture = (x.capture /\ ~(ends /\ x.sessionCapture))
        /\ y.sessionCapture = (x.sessionCapture /\ ~ends)
    BY <1>1, <2>1 DEF Custody
  <2>5. y.current = IF ends THEN None ELSE x.current
    BY <1>1, <2>1 DEF Custody
  <2> QED  BY <1>1, <2>1, <2>3, <2>4, <2>5 DEF Custody
<1> HIDE DEF y
<1>3. "grab" \notin set /\ "capture" \notin set
  BY Names
<1>a. y.timers = y.active \cup (IF y.grab # NoGrab THEN {"grab"} ELSE {})
                          \cup (IF y.capturing THEN {"capture"} ELSE {})
  <2>1. x.timers = x.active \cup (IF x.grab # NoGrab THEN {"grab"} ELSE {})
                           \cup (IF x.capturing THEN {"capture"} ELSE {})
    BY DEF Owned
  <2> QED  BY <1>2, <1>3, <2>1
<1>b. /\ y.capture <=> y.grab # NoGrab \/ y.sessionCapture \/ y.capturing
      /\ y.current # None => y.current \in y.active
      /\ y.sessionCapture => y.current # None
      /\ (y.capture => x.capture) /\ (y.sessionCapture => x.sessionCapture)
  <2>1. CASE ends
    <3>1. y.sessionCapture = FALSE /\ y.current = None /\ y.capture = (x.capture /\ ~x.sessionCapture)
      BY <1>2, <2>1
    <3> QED  BY <1>2, <3>1 DEF Owned
  <2>2. CASE ~ends
    <3>1. y.sessionCapture = x.sessionCapture /\ y.current = x.current /\ y.capture = x.capture
      BY <1>2, <2>2 DEF Owned, Custody
    <3>2. x.current # None => x.current \notin set
      BY <2>2 DEF Owned
    <3> QED  BY <1>2, <3>1, <3>2 DEF Owned
  <2> QED  BY <2>1, <2>2
<1> HIDE DEF ends
<1>4. Owned(y)
  <2>1. y.grab # NoGrab => ~y.sessionCapture /\ ~y.capturing
    BY <1>2, <1>b DEF Owned
  <2>2. ~(y.sessionCapture /\ y.capturing)
    BY <1>2, <1>b DEF Owned
  <2> QED  BY <1>2, <1>a, <1>b, <2>1, <2>2 DEF Owned
<1>5. \A n \in Nat : Told(x, n) => Told(y, n)
  BY <1>2 DEF Told
<1>6. Count(y) = Count(x) /\ Count(x) \in Nat
  BY <1>2 DEF Count, Owned, Custody
<1>7. Lesser(x, y)
  BY <1>2, <1>b, <1>4, <1>5, <1>6 DEF Lesser
<1> QED  BY <1>2, <1>6, <1>7 DEF LesserTold, y

\* stop_native_shortcut_capture
LEMMA StopCaptureLess ==
  ASSUME NEW x, Owned(x), NEW complete \in BOOLEAN
  PROVE  /\ Lesser(x, StopCapture(x, complete)) /\ ~StopCapture(x, complete).capturing
         /\ StopCapture(x, complete).grab = x.grab
         /\ StopCapture(x, complete).current = x.current
         /\ StopCapture(x, complete).sessionCapture = x.sessionCapture
         /\ complete => LesserTold(x, StopCapture(x, complete))
<1> DEFINE y == StopCapture(x, complete)
<1>1. CASE ~x.capturing
  <2>1. y = x
    BY <1>1 DEF StopCapture
  <2> QED  BY <1>1, <2>1, Reflexive DEF LesserTold
<1>2. CASE x.capturing
  <2>1. y = [x EXCEPT !.capturing = FALSE, !.capture = FALSE, !.timers = @ \ {"capture"},
                      !.answered = IF complete THEN @ + 1 ELSE @]
    BY <1>2 DEF StopCapture
  <2>2. /\ y \in Custody /\ y.grab = x.grab /\ y.active = x.active /\ y.current = x.current
        /\ y.sessionCapture = x.sessionCapture /\ y.timers = x.timers \ {"capture"}
        /\ y.capturing = FALSE /\ y.capture = FALSE
        /\ y.told = x.told /\ y.twice = x.twice /\ y.silent = x.silent
        /\ y.answered = IF complete THEN x.answered + 1 ELSE x.answered
    <3>1. x \in Custody
      BY DEF Owned
    <3>2. /\ (IF complete THEN x.answered + 1 ELSE x.answered) \in Nat
          /\ x.timers \ {"capture"} \in SUBSET (Shortcuts \cup {"grab", "capture"})
      BY <3>1 DEF Custody
    <3> QED  BY <2>1, <3>1, <3>2 DEF Custody
  <2> HIDE DEF y
  <2>3. Owned(y)
    BY <1>2, <2>2, Names DEF Owned, Custody
  <2>4. \A n \in Nat : Told(x, n) => Told(y, n)
    BY <2>2 DEF Told
  <2>5. Count(y) <= Count(x) /\ (complete => Count(y) = Count(x))
    BY <1>2, <2>2 DEF Count, Owned, Custody
  <2>6. Lesser(x, y)
    BY <1>2, <2>2, <2>3, <2>4, <2>5 DEF Lesser
  <2> QED  BY <2>2, <2>5, <2>6 DEF LesserTold, y
<1> QED  BY <1>1, <1>2

\* Mutter takes the keyboard back: whoever had it lost it.
LEMMA PreemptedLess ==
  ASSUME NEW x, Owned(x)
  PROVE  /\ LesserTold(x, Preempted(x)) /\ ~Preempted(x).capture
         /\ [Preempted(x) EXCEPT !.capture = FALSE] = Preempted(x)
<1> DEFINE y == Preempted(x)
<1>1. LesserTold(x, y) /\ y.grab = NoGrab /\ ~y.sessionCapture /\ ~y.capturing
  <2>1. CASE x.grab # NoGrab
    <3>1. y = EndGrab(x, TRUE)
      BY <2>1 DEF Preempted
    <3> QED  BY <2>1, <3>1, EndGrabLess DEF Owned
  <2>2. CASE x.grab = NoGrab /\ x.sessionCapture
    <3>1. x.current # None
      BY <2>2 DEF Owned
    <3>2. y = EndSession(x, x.current)
      BY <2>2, <3>1 DEF Preempted
    <3> QED  BY <2>2, <3>2, EndSessionLess DEF Owned
  <2>3. CASE x.grab = NoGrab /\ ~x.sessionCapture
    <3>1. y = StopCapture(x, TRUE)
      BY <2>3 DEF Preempted
    <3> QED  BY <2>3, <3>1, StopCaptureLess
  <2> QED  BY <2>1, <2>2, <2>3
<1> HIDE DEF y
<1>2. Owned(y)
  BY <1>1 DEF LesserTold, Lesser
<1>3. y.capture = FALSE
  BY <1>1, <1>2 DEF Owned, Custody
<1>4. [y EXCEPT !.capture = FALSE] = y
  BY <1>2, <1>3 DEF Owned, Custody
<1> QED  BY <1>1, <1>3, <1>4 DEF y

\* grab_arm, of a grab that has its timeout already.
LEMMA ArmLess ==
  ASSUME NEW x, Owned(x), x.grab # NoGrab
  PROVE  Arm(x) = x
<1>1. x.timers \cup {"grab"} = x.timers
  BY DEF Owned
<1> QED  BY <1>1 DEF Arm, Owned, Custody

\* native_shortcut_capture_key
LEMMA CapturedLess ==
  ASSUME NEW x, Owned(x), NEW k, NEW pressed \in BOOLEAN
  PROVE  LesserTold(x, Captured(x, k, pressed))
<1>1. CASE x.grab # NoGrab
  <2>1. Captured(x, k, pressed) = x
    BY <1>1, ArmLess DEF Captured
  <2> QED  BY <2>1, Reflexive
<1>2. CASE x.grab = NoGrab
  <2>1. \/ Captured(x, k, pressed) = x
        \/ Captured(x, k, pressed) = EndSession(x, x.current)
        \/ Captured(x, k, pressed) = StopCapture(x, TRUE)
    BY <1>2 DEF Captured
  <2> QED  BY <2>1, Reflexive, EndSessionLess, StopCaptureLess
<1> QED  BY <1>1, <1>2

\* dispatch_dynamic_shortcut_activated, while nobody has the keyboard.
LEMMA ActivatedOwned ==
  ASSUME NEW x, Owned(x), ~x.capture, NEW s \in Shortcuts
  PROVE  /\ Owned(Activated(x, s)) /\ Activated(x, s).grab = NoGrab
         /\ ~Activated(x, s).capturing /\ ~x.capturing
         /\ Activated(x, s).silent = x.silent /\ Count(Activated(x, s)) = Count(x)
         /\ \A n \in Nat : Told(x, n) => Told(Activated(x, s), n)
<1> DEFINE y == Begun(x, s)
<1>1. x.grab = NoGrab /\ ~x.sessionCapture /\ ~x.capturing
  BY DEF Owned
<1>2. /\ Owned(y) /\ y.grab = NoGrab /\ ~y.sessionCapture /\ ~y.capturing /\ ~y.capture
      /\ y.told = x.told /\ y.twice = x.twice /\ y.silent = x.silent /\ y.answered = x.answered
      /\ y.current = s => s \in y.active
  <2>1. CASE s \in x.active
    <3>1. y = x
      BY <2>1 DEF Begun
    <3> QED  BY <1>1, <2>1, <3>1
  <2>2. CASE s \notin x.active
    <3>1. y = [x EXCEPT !.active = @ \cup {s}, !.current = s, !.timers = @ \cup {s}]
      BY <2>2 DEF Begun
    <3>2. /\ y \in Custody /\ y.grab = x.grab /\ y.capture = x.capture
          /\ y.sessionCapture = x.sessionCapture /\ y.capturing = x.capturing
          /\ y.active = x.active \cup {s} /\ y.current = s /\ y.timers = x.timers \cup {s}
          /\ y.told = x.told /\ y.twice = x.twice /\ y.silent = x.silent
          /\ y.answered = x.answered
      <4>1. x \in Custody
        BY DEF Owned
      <4>2. /\ x.active \cup {s} \in SUBSET Shortcuts
            /\ x.timers \cup {s} \in SUBSET (Shortcuts \cup {"grab", "capture"})
        BY <4>1 DEF Custody
      <4> QED  BY <3>1, <4>1, <4>2 DEF Custody
    <3> HIDE DEF y
    <3> QED  BY <1>1, <3>2, Names DEF Owned
  <2> QED  BY <2>1, <2>2
<1> HIDE DEF y
<1>3. Count(y) = Count(x) /\ \A n \in Nat : Told(x, n) => Told(y, n)
  BY <1>1, <1>2 DEF Count, Told
<1>4. CASE Activated(x, s) = y
  BY <1>1, <1>2, <1>3, <1>4
<1>5. CASE Activated(x, s) = EndSession(y, s)
  <2>1. LesserTold(y, EndSession(y, s))
    BY <1>2, EndSessionLess
  <2> QED  BY <1>1, <1>2, <1>3, <1>5, <2>1 DEF LesserTold, Lesser
<1>6. CASE /\ Activated(x, s) = [y EXCEPT !.capture = TRUE, !.sessionCapture = TRUE]
           /\ y.current = s
  <2> DEFINE z == Activated(x, s)
  <2>1. /\ z \in Custody /\ z.grab = y.grab /\ z.capture = TRUE /\ z.sessionCapture = TRUE
        /\ z.capturing = y.capturing /\ z.active = y.active /\ z.current = y.current
        /\ z.timers = y.timers /\ z.told = y.told /\ z.twice = y.twice /\ z.silent = y.silent
        /\ z.answered = y.answered
    BY <1>2, <1>6 DEF Owned, Custody
  <2> HIDE DEF z
  <2>2. Owned(z)
    BY <1>2, <1>6, <2>1, Names DEF Owned
  <2>3. Count(z) = Count(y) /\ \A n \in Nat : Told(y, n) => Told(z, n)
    BY <2>1 DEF Count, Told
  <2> QED  BY <1>1, <1>2, <1>3, <2>1, <2>2, <2>3 DEF z
<1>7. \/ Activated(x, s) = y \/ Activated(x, s) = EndSession(y, s)
      \/ Activated(x, s) = [y EXCEPT !.capture = TRUE, !.sessionCapture = TRUE] /\ y.current = s
  BY DEF Activated, y
<1> QED  BY <1>4, <1>5, <1>6, <1>7

-----------------------------------------------------------------------------
Types ==
  /\ down \subseteq Keys /\ appDown \subseteq down /\ bound \subseteq Shortcuts
  /\ locked \in BOOLEAN /\ stageBusy \in BOOLEAN /\ resting \in BOOLEAN
  /\ worker \in {"running", "suspended", "stopping"}
  /\ grabs \in 0..MaxGrabs /\ captures \in 0..MaxGrabs /\ world \in 0..MaxWorld

\* What is proved: the properties, with what they rest on.  A channel that is given up leaves
\* nothing captured.
IInv ==
  /\ Types /\ Owned(h) /\ Told(h, grabs)
  /\ locked \/ worker = "stopping" => ~h.capture
  /\ h.grab # NoGrab => appDown = {}
  /\ h.silent # {} => world > 0 \/ worker = "stopping"
  /\ Count(h) <= captures
  /\ worker # "stopping" => Count(h) = captures

LEMMA InvInit == Init => IInv
<1> SUFFICES ASSUME Init PROVE IInv
  OBVIOUS
<1>1. h \in Custody
  BY DEF Init, Free, Custody, NoGrab
<1>2. Owned(h) /\ Told(h, 0) /\ Count(h) = 0
  BY <1>1 DEF Init, Free, Owned, Told, Count, NoGrab
<1>3. h.grab = NoGrab /\ h.capture = FALSE /\ h.silent = {}
  BY DEF Init, Free
<1>4. 0 \in 0..MaxGrabs /\ 0 \in 0..MaxWorld
  BY Bounds
<1>5. grabs = 0 /\ captures = 0 /\ Types
  BY <1>4, Zenon DEF Init, Types
<1>6. Told(h, grabs) /\ Count(h) = captures /\ Count(h) <= captures
  BY <1>2, <1>5
<1> QED  BY <1>2, <1>3, <1>5, <1>6, Zenon DEF IInv

\* A step that only takes from the owners.
LEMMA LesserStep ==
  ASSUME IInv, Lesser(h, h'), Types', UNCHANGED <<grabs, captures>>, world' >= world,
         worker = "stopping" => worker' = "stopping",
         Count(h') = Count(h) \/ worker' = "stopping",
         h'.silent = h.silent \/ world' > 0 \/ worker' = "stopping",
         locked' \/ worker' = "stopping" => locked \/ worker = "stopping" \/ ~h'.capture,
         appDown' \subseteq appDown \/ ~h.capture
  PROVE  IInv'
<1>1. Owned(h') /\ Owned(h)
  BY DEF IInv, Lesser
<1>2. Told(h', grabs')
  BY DEF IInv, Lesser, Types
<1>3. (locked \/ worker = "stopping" => ~h.capture) /\ (h'.capture => h.capture)
  BY DEF IInv, Lesser
<1>4. h'.grab # NoGrab => appDown' = {}
  <2> SUFFICES ASSUME h'.grab # NoGrab PROVE appDown' = {}
    OBVIOUS
  <2>1. h.grab # NoGrab
    BY DEF Lesser
  <2>2. h.capture /\ appDown = {}
    BY <2>1 DEF IInv, Owned
  <2> QED  BY <2>2
<1>5. h'.silent # {} => world' > 0 \/ worker' = "stopping"
  BY DEF IInv, Types
<1>6. Count(h') <= captures' /\ (worker' # "stopping" => Count(h') = captures')
  <2>1. Count(h) \in Nat /\ Count(h') \in Nat
    BY <1>1 DEF Owned, Custody, Count
  <2> QED  BY <2>1 DEF IInv, Lesser, Types
<1> QED  BY <1>1, <1>2, <1>3, <1>4, <1>5, <1>6 DEF IInv

\* The world around stands still, but for keys.
LEMMA ToldStep ==
  ASSUME IInv, LesserTold(h, h'), Types', UNCHANGED <<grabs, captures, world, worker>>,
         locked' => locked \/ ~h'.capture,
         appDown' \subseteq appDown \/ ~h.capture
  PROVE  IInv'
<1>1. world' >= world
  BY DEF IInv, Types
<1> QED  BY <1>1, LesserStep DEF LesserTold

-----------------------------------------------------------------------------
\* Keys.

LEMMA PressStep ==
  ASSUME IInv, NEW k \in Keys, Press(k)
  PROVE  IInv'
<1>1. Owned(h) /\ Types
  BY DEF IInv
<1>2. /\ UNCHANGED <<bound, locked, stageBusy, worker, grabs, captures, world, resting>>
      /\ down' = down \cup {k}
  BY DEF Press
<1>3. appDown' \in {appDown, appDown \cup {k}}
  BY DEF Press
<1>4. Types'
  BY <1>1, <1>2, <1>3 DEF Types
<1>5. CASE UNCHANGED <<h, appDown>>
  BY <1>1, <1>2, <1>4, <1>5, Reflexive, ToldStep
<1>6. CASE h' = Captured(h, k, TRUE) /\ UNCHANGED appDown
  <2>1. LesserTold(h, h')
    BY <1>1, <1>6, CapturedLess
  <2> QED  BY <1>2, <1>4, <1>6, <2>1, ToldStep
<1>7. CASE ~h.capture /\ UNCHANGED h
  BY <1>1, <1>2, <1>4, <1>7, Reflexive, ToldStep
<1>8. ASSUME ~locked, ~h.capture, worker # "stopping", UNCHANGED appDown,
             Owned(h'), h'.silent = h.silent, h'.grab = NoGrab, Count(h') = Count(h),
             \A n \in Nat : Told(h, n) => Told(h', n)
      PROVE  IInv'
  <2>1. Told(h', grabs')
    BY <1>1, <1>2, <1>8 DEF IInv, Types
  <2>2. Count(h') <= captures' /\ Count(h') = captures'
    BY <1>2, <1>8 DEF IInv
  <2> QED  BY <1>2, <1>4, <1>8, <2>1, <2>2 DEF IInv
<1>9. CASE ~locked /\ ~h.capture /\ Triggers(k) /\ h' = Activated(h, k) /\ UNCHANGED appDown
  <2>1. k \in Shortcuts /\ worker # "stopping"
    BY <1>9 DEF Triggers, Shortcuts
  <2> QED  BY <1>1, <1>8, <1>9, <2>1, ActivatedOwned
<1>10. CASE /\ ~locked /\ ~h.capture /\ SuperBegins /\ UNCHANGED appDown
            /\ h' = [h EXCEPT !.active = @ \cup {Super}, !.current = Super, !.capture = TRUE,
                              !.sessionCapture = TRUE, !.timers = @ \cup {Super}]
  <2>1. h \in Custody /\ Super \in Shortcuts
    BY <1>1, Names DEF Owned
  <2>2. /\ h.active \cup {Super} \in SUBSET Shortcuts
        /\ h.timers \cup {Super} \in SUBSET (Shortcuts \cup {"grab", "capture"})
    BY <2>1 DEF Custody
  <2>3. /\ h' \in Custody /\ h'.active = h.active \cup {Super} /\ h'.current = Super
        /\ h'.capture = TRUE /\ h'.sessionCapture = TRUE /\ h'.timers = h.timers \cup {Super}
        /\ h'.grab = h.grab /\ h'.capturing = h.capturing /\ h'.told = h.told
        /\ h'.twice = h.twice /\ h'.silent = h.silent /\ h'.answered = h.answered
    BY <1>10, <2>1, <2>2 DEF Custody
  <2>4. h.grab = NoGrab /\ ~h.capturing /\ ~h.sessionCapture
    BY <1>1, <1>10 DEF Owned
  <2>5. Owned(h')
    BY <1>1, <2>3, <2>4, Names DEF Owned
  <2>6. Count(h') = Count(h) /\ \A n \in Nat : Told(h, n) => Told(h', n)
    BY <2>3 DEF Count, Told
  <2>7. worker # "stopping"
    BY <1>10 DEF SuperBegins
  <2> QED  BY <1>8, <1>10, <2>3, <2>4, <2>5, <2>6, <2>7
<1> QED  BY <1>5, <1>6, <1>7, <1>9, <1>10 DEF Press

LEMMA ReleaseStep ==
  ASSUME IInv, NEW k \in Keys, Release(k)
  PROVE  IInv'
<1>1. Owned(h) /\ Types
  BY DEF IInv
<1>2. /\ UNCHANGED <<bound, locked, stageBusy, worker, grabs, captures, world, resting>>
      /\ down' = down \ {k} /\ appDown' = appDown \ {k}
  BY DEF Release
<1>3. Types' /\ appDown' \subseteq appDown
  BY <1>1, <1>2 DEF Types
<1> DEFINE x == Observed(h, k)
<1>4. LesserTold(h, x)
  <2>1. x = h \/ x = EndSession(h, h.current)
    BY DEF Observed
  <2> QED  BY <1>1, <2>1, Reflexive, EndSessionLess
<1>5. h' = x \/ h' = Captured(x, k, FALSE)
  BY DEF Release
<1> HIDE DEF x
<1>6. Owned(x)
  BY <1>4 DEF LesserTold, Lesser
<1>7. LesserTold(x, h')
  BY <1>5, <1>6, Reflexive, CapturedLess
<1>8. LesserTold(h, h')
  BY <1>1, <1>4, <1>7, Transitive DEF LesserTold
<1> QED  BY <1>2, <1>3, <1>8, ToldStep

-----------------------------------------------------------------------------
\* Operations and timeouts.

LEMMA OnlyStep ==
  ASSUME IInv, NEW x, LesserTold(h, x), Only(x)
  PROVE  IInv'
<1>1. /\ h' = x
      /\ UNCHANGED <<down, appDown, bound, locked, stageBusy, worker, grabs, captures, world, resting>>
  BY DEF Only
<1>2. Types'
  BY <1>1 DEF IInv, Types
<1> QED  BY <1>1, <1>2, ToldStep

LEMMA TimeoutsStep ==
  ASSUME IInv, Timeouts
  PROVE  IInv'
<1>1. Owned(h) /\ h \in Custody
  BY DEF IInv, Owned
<1>2. ASSUME GrabExpires PROVE IInv'
  <2>1. "grab" \in h.timers
    BY <1>2 DEF GrabExpires
  <2>2. h.grab # NoGrab
    BY <1>1, <2>1, Names DEF Owned, Custody
  <2>3. EndGrab([h EXCEPT !.timers = @ \ {"grab"}], TRUE) = EndGrab(h, TRUE)
    BY <1>1, <2>2 DEF EndGrab, Custody
  <2> QED  BY <1>1, <1>2, <2>3, EndGrabLess, OnlyStep DEF GrabExpires
<1>3. ASSUME CaptureTimesOut PROVE IInv'
  <2>1. "capture" \in h.timers
    BY <1>3 DEF CaptureTimesOut
  <2>2. h.capturing
    BY <1>1, <2>1, Names DEF Owned, Custody
  <2>3. StopCapture([h EXCEPT !.timers = @ \ {"capture"}], TRUE) = StopCapture(h, TRUE)
    BY <1>1, <2>2 DEF StopCapture, Custody
  <2> QED  BY <1>1, <1>3, <2>3, StopCaptureLess, OnlyStep DEF CaptureTimesOut
<1>4. ASSUME NEW s \in Shortcuts, SessionTimesOut(s) PROVE IInv'
  <2>1. s \in h.timers
    BY <1>4 DEF SessionTimesOut
  <2>2. s \in h.active
    BY <1>1, <2>1, Names DEF Owned, Custody
  <2>3. EndSession([h EXCEPT !.timers = @ \ {s}], s) = EndSession(h, s)
    BY <1>1, <2>2 DEF EndSession, Custody
  <2> QED  BY <1>1, <1>4, <2>3, EndSessionLess, OnlyStep DEF SessionTimesOut
<1> QED  BY <1>2, <1>3, <1>4 DEF Timeouts

LEMMA GrabStep ==
  ASSUME IInv, Grab
  PROVE  IInv'
<1> DEFINE x == EndGrab(h, TRUE)
<1>1. Owned(h) /\ Types
  BY DEF IInv
<1>2. LesserTold(h, x) /\ x.grab = NoGrab /\ x.capturing = h.capturing
      /\ x.sessionCapture = h.sessionCapture
  BY <1>1, EndGrabLess
<1>3. UNCHANGED <<down, appDown, bound, locked, stageBusy, worker, captures, world, resting>>
  BY DEF Grab
<1>4. CASE h' = x /\ UNCHANGED grabs
  <2>1. Types'
    BY <1>1, <1>3, <1>4 DEF Types
  <2> QED  BY <1>2, <1>3, <1>4, <2>1, ToldStep
<1>5. CASE /\ h' = Arm([x EXCEPT !.grab = grabs + 1, !.capture = TRUE]) /\ grabs' = grabs + 1
  <2>1. Owned(x) /\ Told(x, grabs)
    <3>1. grabs \in Nat /\ Told(h, grabs)
      BY <1>1 DEF Types, IInv
    <3>2. Lesser(h, x)
      BY <1>2 DEF LesserTold
    <3> HIDE DEF x
    <3> QED  BY <3>1, <3>2 DEF Lesser
  <2>2. ~locked /\ ~h.capturing /\ ~h.sessionCapture /\ down = {} /\ worker = "running"
        /\ grabs < MaxGrabs
    BY <1>1 DEF Grab, Held, Owned
  <2> HIDE DEF x
  <2>3. x \in Custody /\ grabs + 1 \in Nat
    BY <1>1, <2>1 DEF Owned, Types
  <2>4. x.timers \cup {"grab"} \in SUBSET (Shortcuts \cup {"grab", "capture"})
    BY <2>3 DEF Custody
  <2>5. /\ h' \in Custody /\ h'.grab = grabs + 1 /\ h'.capture = TRUE
        /\ h'.timers = x.timers \cup {"grab"} /\ h'.active = x.active /\ h'.current = x.current
        /\ h'.sessionCapture = x.sessionCapture /\ h'.capturing = x.capturing
        /\ h'.told = x.told /\ h'.twice = x.twice /\ h'.silent = x.silent
        /\ h'.answered = x.answered
    BY <1>5, <2>3, <2>4 DEF Arm, Custody
  <2>6. h'.grab # NoGrab
    BY <1>1, <2>5 DEF Types, NoGrab
  <2>7. Owned(h')
    BY <1>2, <2>1, <2>2, <2>5, <2>6 DEF Owned
  <2>8. Told(h', grabs')
    <3>1. (1..(grabs + 1)) \ {grabs + 1} = 1..grabs /\ grabs + 1 \in 0..(grabs + 1)
      BY <1>1 DEF Types
    <3>2. (1..grabs) \ {NoGrab} = 1..grabs
      BY DEF NoGrab
    <3> QED  BY <1>2, <1>5, <2>1, <2>5, <3>1, <3>2 DEF Told
  <2>9. Count(h') = Count(x) /\ Count(x) = Count(h)
    BY <1>2, <2>5 DEF Count, LesserTold
  <2>10. appDown' = {} /\ h'.silent = h.silent /\ ~locked' /\ worker' = "running"
    BY <1>1, <1>2, <1>3, <2>2, <2>5 DEF Types, LesserTold
  <2>11. Types'
    <3>1. grabs' \in 0..MaxGrabs
      BY <1>1, <1>5, <2>2, Bounds DEF Types
    <3> QED  BY <1>1, <1>3, <3>1 DEF Types
  <2>12. Count(h') = captures' /\ Count(h') <= captures'
    BY <1>3, <2>2, <2>9 DEF IInv
  <2>13. h'.silent # {} => world' > 0 \/ worker' = "stopping"
    BY <1>3, <2>10 DEF IInv
  <2> QED  BY <2>7, <2>8, <2>10, <2>11, <2>12, <2>13 DEF IInv
<1> QED  BY <1>4, <1>5 DEF Grab

LEMMA BeginCaptureStep ==
  ASSUME IInv, BeginCapture
  PROVE  IInv'
<1>1. Owned(h) /\ Types /\ h \in Custody /\ Told(h, grabs)
  BY DEF IInv, Owned
<1>2. /\ UNCHANGED <<down, appDown, bound, locked, stageBusy, worker, grabs, world, resting>>
      /\ captures < MaxGrabs /\ captures' = captures + 1
      /\ ~h.capturing /\ ~h.capture /\ ~locked /\ worker # "stopping"
  BY DEF BeginCapture, Registers
<1>3. h.timers \cup {"capture"} \in SUBSET (Shortcuts \cup {"grab", "capture"})
  BY <1>1 DEF Custody
<1>4. /\ h' \in Custody /\ h'.capturing = TRUE /\ h'.capture = TRUE
      /\ h'.timers = h.timers \cup {"capture"} /\ h'.grab = h.grab /\ h'.active = h.active
      /\ h'.current = h.current /\ h'.sessionCapture = h.sessionCapture
      /\ h'.told = h.told /\ h'.twice = h.twice /\ h'.silent = h.silent
      /\ h'.answered = h.answered
  BY <1>1, <1>3 DEF BeginCapture, Custody
<1>5. h.grab = NoGrab /\ ~h.sessionCapture
  BY <1>1, <1>2 DEF Owned
<1>6. Owned(h') /\ Told(h', grabs')
  BY <1>1, <1>2, <1>4, <1>5 DEF Owned, Told
<1>7. Count(h') = Count(h) + 1 /\ Count(h) = captures
  BY <1>1, <1>2, <1>4 DEF Count, Custody, IInv
<1>8. Types'
  <2>1. captures' \in 0..MaxGrabs
    BY <1>1, <1>2, Bounds DEF Types
  <2> QED  BY <1>1, <1>2, <2>1 DEF Types
<1>9. Count(h') = captures' /\ Count(h') <= captures'
  BY <1>1, <1>2, <1>7 DEF Types
<1> QED  BY <1>2, <1>4, <1>5, <1>6, <1>8, <1>9 DEF IInv

-----------------------------------------------------------------------------
\* The world.

\* native_session_lock_changed: nobody keeps the keyboard.
LEMMA LockedOutLess ==
  ASSUME NEW x, Owned(x)
  PROVE  LesserTold(x, LockedOut(x)) /\ ~LockedOut(x).capture
<1> DEFINE a == EndSession(x, x.current)
           b == EndGrab(a, TRUE)
           c == StopCapture(b, TRUE)
<1>1. LesserTold(x, a) /\ ~a.sessionCapture /\ Owned(a)
  BY EndSessionLess DEF LesserTold, Lesser
<1> HIDE DEF a
<1>2. LesserTold(a, b) /\ b.grab = NoGrab /\ ~b.sessionCapture /\ Owned(b)
  BY <1>1, EndGrabLess DEF LesserTold, Lesser
<1> HIDE DEF b
<1>3. LesserTold(b, c) /\ c.grab = NoGrab /\ ~c.sessionCapture /\ ~c.capturing /\ Owned(c)
  BY <1>2, StopCaptureLess DEF LesserTold, Lesser
<1> HIDE DEF c
<1>4. LesserTold(x, c)
  BY <1>1, <1>2, <1>3, Transitive DEF LesserTold
<1>5. ~c.capture
  BY <1>3 DEF Owned
<1>6. LockedOut(x) = c
  BY DEF LockedOut, a, b, c
<1> QED  BY <1>4, <1>5, <1>6

LEMMA LockStep ==
  ASSUME IInv, Lock
  PROVE  IInv'
<1>1. Owned(h) /\ Types
  BY DEF IInv
<1>2. Types' /\ appDown' = {} /\ UNCHANGED <<grabs, captures, world, worker>>
  BY <1>1 DEF Lock, Types
<1>3. CASE worker = "stopping"
  <2>1. h' = h /\ ~h.capture
    BY <1>3 DEF Lock, IInv
  <2> QED  BY <1>1, <1>2, <2>1, Reflexive, ToldStep
<1>4. CASE worker # "stopping"
  <2>1. h' = LockedOut(h)
    BY <1>4 DEF Lock
  <2> QED  BY <1>1, <1>2, <2>1, LockedOutLess, ToldStep
<1> QED  BY <1>3, <1>4

LEMMA StageGrabStep ==
  ASSUME IInv, StageGrab
  PROVE  IInv'
<1>1. Owned(h) /\ Types
  BY DEF IInv
<1>2. /\ Types'
      /\ UNCHANGED <<down, appDown, bound, locked, worker, grabs, captures, world, resting>>
  BY <1>1 DEF StageGrab, Types
<1>3. h' = h \/ h' = Preempted(h)
  BY <1>1, PreemptedLess DEF StageGrab
<1>4. LesserTold(h, h')
  BY <1>1, <1>3, Reflexive, PreemptedLess
<1> QED  BY <1>2, <1>4, ToldStep

\* A CONFIG packet ends all three owners, and the sessions of what is bound anew.
LEMMA ReloadStep ==
  ASSUME IInv, Reload
  PROVE  IInv'
<1> DEFINE a == EndSession(h, h.current)
           b == StopCapture(a, TRUE)
           x == EndGrab(b, FALSE)
           y == EndSessions(x, Lua \cup {Super})
<1>1. Owned(h) /\ Types
  BY DEF IInv
<1>2. Lesser(h, a) /\ Count(a) = Count(h) /\ Owned(a)
  BY <1>1, EndSessionLess DEF LesserTold, Lesser
<1>3. h' \in {x, EndSession(y, y.current)}
  BY DEF Reload, SettingsChanged
<1> HIDE DEF a
<1>4. Lesser(a, b) /\ Count(b) = Count(a) /\ Owned(b)
  BY <1>2, StopCaptureLess DEF LesserTold, Lesser
<1> HIDE DEF b
<1>5. Lesser(b, x) /\ Count(x) = Count(b) /\ Owned(x)
  BY <1>4, EndGrabLess DEF Lesser
<1> HIDE DEF x
<1>6. Lesser(x, y) /\ Count(y) = Count(x) /\ Owned(y)
  <2>1. Lua \cup {Super} \in SUBSET Shortcuts
    BY Names DEF Lua
  <2> QED  BY <1>5, <2>1, EndSessionsLess DEF LesserTold, Lesser
<1> HIDE DEF y
<1>7. Lesser(x, h') /\ Count(h') = Count(x)
  <2>1. CASE h' = x
    BY <1>5, <2>1, Reflexive DEF LesserTold
  <2>2. CASE h' = EndSession(y, y.current)
    <3>1. Lesser(y, h') /\ Count(h') = Count(y)
      BY <1>6, <2>2, EndSessionLess DEF LesserTold
    <3> QED  BY <1>5, <1>6, <3>1, Transitive
  <2> QED  BY <1>3, <2>1, <2>2
<1>8. Lesser(h, h') /\ Count(h') = Count(h)
  <2>1. Lesser(h, b)
    BY <1>1, <1>2, <1>4, Transitive
  <2>2. Lesser(h, x)
    BY <1>1, <1>5, <2>1, Transitive
  <2> QED  BY <1>1, <1>2, <1>4, <1>5, <1>7, <2>2, Transitive
<1>9. /\ UNCHANGED <<down, appDown, bound, locked, stageBusy, worker, grabs, captures, resting>>
      /\ world' = world + 1 /\ world < MaxWorld
  BY DEF Reload, World
<1>10. world' \in 0..MaxWorld /\ world' > 0 /\ world' >= world
  BY <1>1, <1>9, Bounds DEF Types
<1>11. Types'
  BY <1>1, <1>9, <1>10 DEF Types
<1> QED  BY <1>8, <1>9, <1>10, <1>11, LesserStep

LEMMA SuspendStep ==
  ASSUME IInv, Suspend
  PROVE  IInv'
<1> DEFINE a == EndGrab(h, FALSE)
           b == EndSessions(a, Lua)
<1>1. Owned(h) /\ Types
  BY DEF IInv
<1>2. Lesser(h, a) /\ Count(a) = Count(h) /\ Owned(a)
  BY <1>1, EndGrabLess DEF Lesser
<1>3. /\ h' = StopCapture(b, TRUE) /\ bound' = bound \ Lua
      /\ UNCHANGED <<down, appDown, locked, stageBusy, grabs, captures, resting>>
      /\ world' = world + 1 /\ world < MaxWorld /\ worker = "running" /\ worker' = "suspended"
  BY DEF Suspend, World
<1> HIDE DEF a
<1>4. Lesser(a, b) /\ Count(b) = Count(a) /\ Owned(b)
  <2>1. Lua \in SUBSET Shortcuts
    BY Names DEF Lua
  <2> QED  BY <1>2, <2>1, EndSessionsLess DEF LesserTold, Lesser
<1> HIDE DEF b
<1>5. Lesser(b, h') /\ Count(h') = Count(b)
  BY <1>3, <1>4, StopCaptureLess DEF LesserTold
<1>6. Lesser(h, h') /\ Count(h') = Count(h)
  <2>1. Lesser(h, b)
    BY <1>1, <1>2, <1>4, Transitive
  <2> QED  BY <1>1, <1>2, <1>4, <1>5, <2>1, Transitive
<1>7. world' \in 0..MaxWorld /\ world' > 0 /\ world' >= world
  BY <1>1, <1>3, Bounds DEF Types
<1>8. Types'
  BY <1>1, <1>3, <1>7 DEF Types
<1> QED  BY <1>3, <1>6, <1>7, <1>8, LesserStep

LEMMA AbortStep ==
  ASSUME IInv, Abort
  PROVE  IInv'
<1> DEFINE a == EndSession(h, h.current)
           b == EndSessions(a, Lua)
           c == EndGrab(b, FALSE)
<1>1. Owned(h) /\ Types
  BY DEF IInv
<1>2. Lesser(h, a) /\ ~a.sessionCapture /\ Owned(a)
  BY <1>1, EndSessionLess DEF LesserTold, Lesser
<1>3. /\ h' = StopCapture(c, FALSE) /\ bound' = bound \ Lua
      /\ UNCHANGED <<down, appDown, locked, stageBusy, grabs, captures, world, resting>>
      /\ worker' = "stopping"
  BY DEF Abort
<1> HIDE DEF a
<1>4. Lesser(a, b) /\ ~b.sessionCapture /\ Owned(b)
  <2>1. Lua \in SUBSET Shortcuts
    BY Names DEF Lua
  <2> QED  BY <1>2, <2>1, EndSessionsLess DEF LesserTold, Lesser
<1> HIDE DEF b
<1>5. Lesser(b, c) /\ ~c.sessionCapture /\ c.grab = NoGrab /\ Owned(c)
  BY <1>4, EndGrabLess DEF Lesser
<1> HIDE DEF c
<1>6. Lesser(c, h') /\ ~h'.sessionCapture /\ h'.grab = NoGrab /\ ~h'.capturing
  BY <1>3, <1>5, StopCaptureLess DEF Lesser
<1>7. ~h'.capture
  BY <1>6 DEF Lesser, Owned
<1>8. Lesser(h, h')
  <2>1. Lesser(h, b)
    BY <1>1, <1>2, <1>4, Transitive
  <2>2. Lesser(h, c)
    BY <1>1, <1>5, <2>1, Transitive
  <2> QED  BY <1>1, <1>6, <2>2, Transitive
<1>9. Types' /\ world' >= world
  BY <1>1, <1>3 DEF Types
<1> QED  BY <1>3, <1>7, <1>8, <1>9, LesserStep

LEMMA ClientGoneStep ==
  ASSUME IInv, ClientGone
  PROVE  IInv'
<1>1. Owned(h) /\ Types
  BY DEF IInv
<1>2. /\ h' = EndSessions(h, ClientOwned) /\ bound' = bound \ ClientOwned
      /\ UNCHANGED <<down, appDown, locked, stageBusy, worker, grabs, captures, world, resting>>
  BY DEF ClientGone
<1>3. ClientOwned \in SUBSET Shortcuts
  BY Names
<1>4. LesserTold(h, h')
  BY <1>1, <1>2, <1>3, EndSessionsLess
<1>5. Types'
  BY <1>1, <1>2 DEF Types
<1> QED  BY <1>2, <1>4, <1>5, ToldStep

\* Steps that leave the owners alone.
LEMMA QuietStep ==
  ASSUME IInv, Unplug \/ Unlock \/ StageRelease \/ Resume \/ Rest
  PROVE  IInv'
<1>1. Owned(h) /\ Types
  BY DEF IInv
<1>2. /\ UNCHANGED <<h, grabs, captures, world>> /\ appDown' \in {{}, appDown}
      /\ worker = "stopping" => worker' = "stopping"
      /\ locked' \/ worker' = "stopping" => locked \/ worker = "stopping"
  BY DEF Unplug, Unlock, StageRelease, Resume, Rest
<1>3. Types'
  <2>1. ASSUME Resume PROVE Types'
    <3>1. bound' \subseteq Shortcuts
      BY <1>1, <2>1, Names DEF Resume, Lua, Types
    <3> QED  BY <1>1, <2>1, <3>1 DEF Resume, Types
  <2>2. ASSUME Unplug \/ Unlock \/ StageRelease \/ Rest PROVE Types'
    BY <1>1, <2>2 DEF Unplug, Unlock, StageRelease, Rest, Types
  <2> QED  BY <2>1, <2>2
<1>4. Lesser(h, h') /\ Count(h') = Count(h) /\ h'.silent = h.silent /\ world' >= world
  BY <1>1, <1>2, Reflexive DEF LesserTold, Types
<1> QED  BY <1>2, <1>3, <1>4, LesserStep

LEMMA InvNext == IInv /\ [Next]_vars => IInv'
<1> SUFFICES ASSUME IInv, [Next]_vars PROVE IInv'
  OBVIOUS
<1>1. Owned(h)
  BY DEF IInv
<1>2. ASSUME ButtonPress PROVE IInv'
  <2>1. Only(EndSession(h, Super))
    BY <1>2 DEF ButtonPress, Only
  <2> QED  BY <1>1, <2>1, EndSessionLess, OnlyStep
<1>3. ASSUME Renew PROVE IInv'
  <2>1. Only(h)
    BY <1>1, <1>3, ArmLess DEF Renew
  <2> QED  BY <1>1, <2>1, Reflexive, OnlyStep
<1>4. ASSUME ReleaseGrab PROVE IInv'
  BY <1>1, <1>4, EndGrabLess, OnlyStep DEF ReleaseGrab
<1>5. CASE UNCHANGED vars
  <2>1. Types'
    BY <1>5 DEF IInv, Types, vars
  <2> QED  BY <1>1, <1>5, <2>1, Reflexive, ToldStep DEF vars
<1> QED
  BY <1>2, <1>3, <1>4, <1>5, PressStep, ReleaseStep, GrabStep, BeginCaptureStep, TimeoutsStep,
     LockStep, StageGrabStep, ReloadStep, SuspendStep, AbortStep, ClientGoneStep, QuietStep
     DEF Next

-----------------------------------------------------------------------------
\* The record of Custody within the bounds.
LEMMA InvTypes == IInv => TypeOK
<1> SUFFICES ASSUME IInv PROVE TypeOK
  OBVIOUS
<1>1. Owned(h) /\ h \in Custody /\ Told(h, grabs) /\ Types
  BY DEF IInv, Owned
<1>2. h.told \subseteq 1..MaxGrabs /\ h.silent \subseteq 1..MaxGrabs /\ h.twice \subseteq 1..MaxGrabs
  <2>1. 1..grabs \subseteq 1..MaxGrabs
    BY <1>1, Bounds DEF Types
  <2> QED  BY <1>1, <2>1 DEF Told
<1>3. h.grab \in 0..MaxGrabs
  BY <1>1, Bounds DEF Told, Types
<1>4. h.answered \in 0..MaxGrabs
  <2>1. h.answered \in Nat /\ h.answered <= Count(h) /\ Count(h) <= captures
    BY <1>1 DEF Count, Custody, IInv
  <2> QED  BY <1>1, <2>1, Bounds DEF Types, Count, Custody
<1> QED  BY <1>1, <1>2, <1>3, <1>4 DEF TypeOK, Types, Custody

\* Exactly one of the three owners, or none.
LEMMA InvOwners == IInv => CaptureHasOneOwner
<1> SUFFICES ASSUME IInv PROVE CaptureHasOneOwner
  OBVIOUS
<1>1. Owned(h)
  BY DEF IInv
<1>2. /\ "grab" \in Owners <=> h.grab # NoGrab
      /\ "session" \in Owners <=> h.sessionCapture
      /\ "capture" \in Owners <=> h.capturing
      /\ Owners \subseteq {"grab", "session", "capture"}
  BY DEF Owners
<1>3. CASE ~h.capture
  <2>1. Owners = {}
    BY <1>1, <1>2, <1>3 DEF Owned
  <2>2. Cardinality(Owners) = 0
    BY <2>1, FS_EmptySet
  <2> QED  BY <1>1, <1>3, <2>2 DEF CaptureHasOneOwner, Owned
<1>4. CASE h.capture
  <2>1. Owners = {"grab"} \/ Owners = {"session"} \/ Owners = {"capture"}
    BY <1>1, <1>2, <1>4 DEF Owned
  <2>2. Cardinality(Owners) = 1
    BY <2>1, FS_Singleton
  <2> QED  BY <1>1, <1>4, <2>2 DEF CaptureHasOneOwner, Owned
<1> QED  BY <1>3, <1>4

LEMMA InvKeyboard == IInv => KeyboardOwned
<1> SUFFICES ASSUME IInv PROVE KeyboardOwned
  OBVIOUS
<1>1. Owned(h) /\ Told(h, grabs)
  BY DEF IInv
<1>2. LockOwnsKeyboard /\ GrabFindsKeysUp
  BY DEF IInv, LockOwnsKeyboard, GrabFindsKeysUp
<1>3. EndsTold
  BY <1>1 DEF IInv, EndsTold, Told
<1>4. TimeoutsFit
  BY <1>1 DEF Owned, TimeoutsFit
<1>5. CapturesAnswered
  BY DEF IInv, CapturesAnswered, Count
<1> QED  BY <1>2, <1>3, <1>4, <1>5, InvTypes, InvOwners DEF KeyboardOwned

\* The keyboard is captured for exactly one owner, whose timeout runs; every grab and every
\* shortcut.capture ends once and is told of it; the lock screen always owns the keyboard; and no
\* grab begins or lives while the application holds a key: for every set of shortcuts and any
\* number of grabs, captures, reloads and suspensions.
THEOREM OneKeyboard == Spec => []KeyboardOwned
<1>1. Spec => []IInv
  BY InvInit, InvNext, PTL DEF Spec
<1> QED  BY <1>1, InvKeyboard, PTL
=============================================================================
