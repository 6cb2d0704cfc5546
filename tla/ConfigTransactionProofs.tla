------------------------ MODULE ConfigTransactionProofs ------------------------
(***************************************************************************)
(* Proofs about ConfigTransaction: for every number of documents, events   *)
(* and requests, and every length of the queue and of the channels.        *)
(*                                                                         *)
(* The properties compare the two ends of a FIFO channel, so the invariant *)
(* speaks of what is on it: the documents underway form a chain from the   *)
(* one the compositor holds to the worker's, each at least as new as the   *)
(* one before and naming the same document when it has the same revision;  *)
(* the candidate of a reload is the last of them; and an answer is         *)
(* underway only when no document is.                                      *)
(***************************************************************************)
EXTENDS ConfigTransaction, TLAPS

-----------------------------------------------------------------------------
(* Sequences: appending keeps what is there, taking the head moves it up.   *)

LEMMA AppendOne ==
  ASSUME NEW S, NEW q \in Seq(S), NEW e \in S
  PROVE  /\ Append(q, e) \in Seq(S) /\ DOMAIN Append(q, e) = 1..(Len(q) + 1)
         /\ DOMAIN q = 1..Len(q) /\ Len(q) \in Nat /\ Len(Append(q, e)) = Len(q) + 1
         /\ \A i \in 1..Len(q) : Append(q, e)[i] = q[i]
         /\ Append(q, e)[Len(q) + 1] = e
  OBVIOUS

LEMMA AppendMany ==
  ASSUME NEW S, NEW q \in Seq(S), NEW r \in Seq(S)
  PROVE  /\ q \o r \in Seq(S) /\ DOMAIN (q \o r) = 1..(Len(q) + Len(r))
         /\ DOMAIN q = 1..Len(q) /\ Len(q) \in Nat /\ Len(r) \in Nat
         /\ Len(q \o r) = Len(q) + Len(r)
         /\ \A i \in 1..Len(q) : (q \o r)[i] = q[i]
         /\ \A i \in 1..Len(r) : (q \o r)[Len(q) + i] = r[i]
         /\ 1 \in 1..Len(r) => (q \o r)[Len(q) + 1] = r[1]
  OBVIOUS

LEMMA TakeHead ==
  ASSUME NEW S, NEW q \in Seq(S), q # <<>>
  PROVE  /\ Tail(q) \in Seq(S) /\ DOMAIN Tail(q) = 1..(Len(q) - 1)
         /\ DOMAIN q = 1..Len(q) /\ Len(q) \in Nat \ {0} /\ Len(Tail(q)) = Len(q) - 1
         /\ \A i \in 1..(Len(q) - 1) : Tail(q)[i] = q[i + 1]
         /\ Head(q) = q[1] /\ Head(q) \in S
  OBVIOUS

LEMMA OneOrNone ==
  ASSUME NEW S, NEW e \in S
  PROVE  /\ <<>> \in Seq(S) /\ <<e>> \in Seq(S)
         /\ Len(<<e>>) = 1 /\ Len(<<>>) = 0 /\ <<e>>[1] = e
  OBVIOUS

-----------------------------------------------------------------------------
(* Type correctness.                                                        *)

Stimulus == [type : {"EVENT", "REQUEST"}, n : Numbers]

(* What a packet carries follows from its type.                             *)
LEMMA Packets ==
  /\ \A p \in Packet : /\ p.type \in {"EVENT", "REQUEST"} => p \in Stimulus /\ p.n \in Numbers
                       /\ p.type = "INPUT" => p.rev \in Nat /\ p.doc \in Documents
                       /\ p.type = "RESULT" => /\ p.id \in Ids /\ p.rev \in Nat /\ p.gen \in Nat
                                               /\ p.accepted \in BOOLEAN
  /\ \A p \in UpPacket : /\ p.type \in {"CONFIG", "OPERATION"}
                         /\ p.type = "CONFIG" => /\ p.id \in Ids /\ p.doc \in Documents
                                                 /\ p.rev \in Nat /\ p.gen \in Nat
                         /\ p.type = "OPERATION" => p.kind \in {"plain", "tween"}
  BY DEF Packet, UpPacket, Stimulus

(* A changed document is a later revision, anything else stays.             *)
LEMMA Edited ==
  ASSUME NEW w \in Worker, NEW next \in AfterHandlers(w)
  PROVE  /\ next \in Worker /\ next.up = w.up /\ next.gen = w.gen
         /\ w.rev <= next.rev /\ next.rev <= w.rev + 1
         /\ next.rev = w.rev => next.doc = w.doc
  <1>1. w = [up |-> w.up, doc |-> w.doc, rev |-> w.rev, gen |-> w.gen]
        /\ w.up \in BOOLEAN /\ w.doc \in Documents /\ w.rev \in Nat /\ w.gen \in Nat
    BY DEF Worker
  <1>4. CASE next = w
    BY <1>1, <1>4
  <1>5. CASE next # w
    <2>0. PICK d \in Documents : next = [w EXCEPT !.doc = d, !.rev = @ + 1]
      BY <1>5 DEF AfterHandlers
    <2>1. [w EXCEPT !.doc = d] \in Worker
      BY DEF Worker
    <2>2. \A x \in Worker : \A n \in Nat : [x EXCEPT !.rev = n] \in Worker
      BY DEF Worker
    <2>3. w.rev + 1 \in Nat
      BY <1>1
    <2>4. next \in Worker
      BY <2>0, <2>1, <2>2, <2>3, Zenon
    <2>5. next.up = w.up /\ next.gen = w.gen /\ next.rev = w.rev + 1
      BY <2>0 DEF Worker
    <2> QED BY <1>1, <2>4, <2>5
  <1> QED BY <1>4, <1>5

(* Two parts are appended, each of one element or none.                     *)
Grown(q, r) ==
  /\ DOMAIN q = 1..Len(q) /\ DOMAIN r = 1..Len(r)
  /\ Len(q) \in Nat /\ Len(r) \in Nat /\ Len(q) <= Len(r)
  /\ \A i \in DOMAIN q : i \in DOMAIN r /\ r[i] = q[i]
Added(q, r) == {i \in DOMAIN r : i \notin DOMAIN q}

Pieces(q, a, b, r) ==
  /\ Grown(q, r)
  /\ \A i \in Added(q, r) : \/ Len(a) = 1 /\ i = Len(q) + 1 /\ r[i] = a[1]
                            \/ Len(b) = 1 /\ i = Len(r) /\ r[i] = b[1]
  /\ Len(b) = 1 => Len(r) \in Added(q, r) /\ r[Len(r)] = b[1]

LEMMA TwoMore ==
  ASSUME NEW S, NEW q \in Seq(S), NEW a \in Seq(S), NEW b \in Seq(S),
         Len(a) \in {0, 1}, Len(b) \in {0, 1}
  PROVE  (q \o a) \o b \in Seq(S) /\ Pieces(q, a, b, (q \o a) \o b)
  <1>0. PICK r \in Seq(S) : r = (q \o a) \o b
    <2>1. q \o a \in Seq(S)
      BY AppendMany
    <2> QED BY <2>1, AppendMany
  <1>1. PICK p \in Seq(S) : p = q \o a
    BY AppendMany
  <1>2. /\ DOMAIN q = 1..Len(q) /\ Len(q) \in Nat
        /\ DOMAIN p = 1..(Len(q) + Len(a)) /\ Len(p) = Len(q) + Len(a)
        /\ \A i \in 1..Len(q) : p[i] = q[i]
        /\ 1 \in 1..Len(a) => p[Len(q) + 1] = a[1]
    BY <1>1, AppendMany
  <1>3. r = p \o b
    BY <1>0, <1>1
  <1>4. /\ r \in Seq(S) /\ DOMAIN r = 1..(Len(p) + Len(b)) /\ Len(r) = Len(p) + Len(b)
        /\ \A i \in 1..Len(p) : r[i] = p[i]
        /\ 1 \in 1..Len(b) => r[Len(p) + 1] = b[1]
    BY <1>3, AppendMany
  <1>5. ASSUME NEW i \in DOMAIN r, i \notin DOMAIN q
        PROVE  \/ Len(a) = 1 /\ i = Len(q) + 1 /\ r[i] = a[1]
               \/ Len(b) = 1 /\ i = Len(r) /\ r[i] = b[1]
    <2>1. CASE Len(a) = 1 /\ i = Len(q) + 1
      <3>1. i \in 1..Len(p) /\ 1 \in 1..Len(a)
        BY <1>2, <2>1
      <3>2. r[i] = p[i] /\ p[i] = a[1]
        BY <1>2, <1>4, <2>1, <3>1
      <3> QED BY <2>1, <3>2
    <2>2. CASE Len(b) = 1 /\ i = Len(r)
      <3>1. 1 \in 1..Len(b) /\ Len(r) = Len(p) + 1
        BY <1>4, <2>2
      <3> QED BY <1>4, <2>2, <3>1
    <2>3. i \in (Len(q) + 1)..(Len(q) + Len(a) + Len(b)) /\ Len(r) = Len(q) + Len(a) + Len(b)
      BY <1>2, <1>4, <1>5
    <2>4. (Len(a) = 1 /\ i = Len(q) + 1) \/ (Len(b) = 1 /\ i = Len(r))
      <3>1. Len(q) \in Nat
        BY <1>2
      <3>2. CASE Len(a) = 0 /\ Len(b) = 0
        BY <2>3, <3>1, <3>2
      <3>3. CASE Len(a) = 1 /\ Len(b) = 0
        BY <2>3, <3>1, <3>3
      <3>4. CASE Len(a) = 0 /\ Len(b) = 1
        BY <2>3, <3>1, <3>4
      <3>5. CASE Len(a) = 1 /\ Len(b) = 1
        BY <2>3, <3>1, <3>5
      <3> QED BY <3>2, <3>3, <3>4, <3>5
    <2> QED BY <2>1, <2>2, <2>4
  <1>6. ASSUME Len(b) = 1
        PROVE  Len(r) \in DOMAIN r /\ Len(r) \notin DOMAIN q /\ r[Len(r)] = b[1]
    <2>1. 1 \in 1..Len(b) /\ Len(r) = Len(p) + 1 /\ Len(p) \in Nat
      BY <1>2, <1>4, <1>6
    <2>2. Len(r) \in DOMAIN r /\ Len(r) \notin DOMAIN q
      BY <1>2, <1>4, <1>6, <2>1
    <2> QED BY <1>4, <2>1, <2>2
  <1>7. \A i \in DOMAIN q : i \in DOMAIN r /\ r[i] = q[i]
    BY <1>2, <1>4
  <1>8. Grown(q, r)
    BY <1>2, <1>4, <1>7 DEF Grown
  <1> QED BY <1>0, <1>5, <1>6, <1>8 DEF Added, Pieces

(* Lua handlers move the document on by at most one revision, and send at   *)
(* most the document, unless the reload is with the compositor.             *)
LEMMA LuaStep ==
  ASSUME up \in Seq(UpPacket), NEW w \in Worker, NEW p, NEW o \in {"none", "plain", "tween"},
         LuaRuns(w, p, o)
  PROVE  /\ worker' \in Worker /\ worker'.up = w.up /\ worker'.gen = w.gen
         /\ w.rev <= worker'.rev /\ worker'.rev <= w.rev + 1
         /\ worker'.rev = w.rev => worker'.doc = w.doc
         /\ operation' \in {"none", "plain", "tween"}
         /\ up' \in Seq(UpPacket) /\ Grown(up, up')
         /\ \A i \in Added(up, up') : up'[i].type = "CONFIG" =>
               i = Len(up) + 1 /\ SendsDocument(p) /\ up'[i] = Config(0, worker')
  <1>1. PICK next \in AfterHandlers(w), handler \in BOOLEAN, start \in {"none", "plain", "tween"} :
          /\ worker' = next
          /\ operation' = IF start = "none" THEN o ELSE start
          /\ up' = up \o (IF handler /\ SendsDocument(p) THEN <<Config(0, next)>> ELSE <<>>)
                      \o (IF start = "none" THEN <<>> ELSE <<Operation(start)>>)
    BY DEF LuaRuns
  <1> DEFINE a == IF handler /\ SendsDocument(p) THEN <<Config(0, next)>> ELSE <<>>
             b == IF start = "none" THEN <<>> ELSE <<Operation(start)>>
  <1>2. /\ next \in Worker /\ next.up = w.up /\ next.gen = w.gen
        /\ w.rev <= next.rev /\ next.rev <= w.rev + 1
        /\ next.rev = w.rev => next.doc = w.doc
    BY Edited
  <1>3. Config(0, next) \in UpPacket
    <2>1. /\ next.doc \in Documents /\ next.rev \in Nat /\ next.gen \in Nat
      BY <1>2 DEF Worker
    <2>2. 0 \in Ids
      BY ConfigAssumption DEF Ids, StartupId
    <2> QED BY <2>1, <2>2 DEF Config, UpPacket
  <1>4. start # "none" => Operation(start) \in UpPacket /\ Operation(start).type # "CONFIG"
    BY DEF Operation, UpPacket
  <1>5. /\ a \in Seq(UpPacket) /\ Len(a) \in {0, 1}
        /\ Len(a) = 1 => SendsDocument(p) /\ a[1] = Config(0, next)
    <2>1. CASE handler /\ SendsDocument(p)
      BY <1>3, <2>1, OneOrNone
    <2>2. CASE ~(handler /\ SendsDocument(p))
      BY <1>3, <2>2, OneOrNone
    <2> QED BY <2>1, <2>2
  <1>6. /\ b \in Seq(UpPacket) /\ Len(b) \in {0, 1}
        /\ Len(b) = 1 => b[1].type # "CONFIG"
    <2>1. CASE start = "none"
      BY <1>3, <2>1, OneOrNone
    <2>2. CASE start # "none"
      BY <1>4, <2>2, OneOrNone
    <2> QED BY <2>1, <2>2
  <1>7. up' = (up \o a) \o b
    BY <1>1
  <1> HIDE DEF a, b
  <1>8. /\ up' \in Seq(UpPacket) /\ Grown(up, up')
        /\ \A i \in Added(up, up') : \/ Len(a) = 1 /\ i = Len(up) + 1 /\ up'[i] = a[1]
                                     \/ Len(b) = 1 /\ i = Len(up') /\ up'[i] = b[1]
    <2>1. (up \o a) \o b \in Seq(UpPacket) /\ Pieces(up, a, b, (up \o a) \o b)
      BY <1>5, <1>6, TwoMore
    <2> QED BY <1>7, <2>1 DEF Pieces
  <1>9. ASSUME NEW i \in Added(up, up'), up'[i].type = "CONFIG"
        PROVE  i = Len(up) + 1 /\ SendsDocument(p) /\ up'[i] = Config(0, worker')
    <2>1. Len(a) = 1 /\ i = Len(up) + 1 /\ up'[i] = a[1]
      BY <1>6, <1>8, <1>9
    <2> QED BY <1>1, <1>5, <2>1
  <1>10. operation' \in {"none", "plain", "tween"}
    BY <1>1
  <1> QED BY <1>1, <1>2, <1>8, <1>9, <1>10

(* The compositor sends the end of a tween, the answer to a reload, or both. *)
LEMMA AnswerStep ==
  ASSUME down \in Seq(Packet), NEW p \in UpPacket, p.type = "CONFIG", NEW accepted \in BOOLEAN,
         NEW cancelled \in BOOLEAN,
         down' = (down \o IF cancelled THEN <<[type |-> "COMPLETION"]>> ELSE <<>>)
                 \o Answer(p, accepted)
  PROVE  /\ down' \in Seq(Packet) /\ Grown(down, down')
         /\ \A i \in Added(down, down') :
               \/ down'[i].type = "COMPLETION"
               \/ p.id > 0 /\ i = Len(down') /\ down'[i] = Result(p, accepted)
         /\ p.id > 0 => Len(down') \in Added(down, down') /\ down'[Len(down')] = Result(p, accepted)
  <1> DEFINE a == IF cancelled THEN <<[type |-> "COMPLETION"]>> ELSE <<>>
             b == Answer(p, accepted)
  <1>1. [type |-> "COMPLETION"] \in Packet /\ Result(p, accepted) \in Packet
    BY Packets DEF Packet, Result
  <1>2. /\ a \in Seq(Packet) /\ Len(a) \in {0, 1}
        /\ Len(a) = 1 => a[1].type = "COMPLETION"
    <2>1. CASE cancelled
      BY <1>1, <2>1, OneOrNone
    <2>2. CASE ~cancelled
      BY <1>1, <2>2, OneOrNone
    <2> QED BY <2>1, <2>2
  <1>3. /\ b \in Seq(Packet) /\ Len(b) \in {0, 1}
        /\ Len(b) = 1 <=> p.id > 0
        /\ p.id > 0 => b[1] = Result(p, accepted)
    <2>1. CASE p.id > 0
      BY <1>1, <2>1, OneOrNone DEF Answer
    <2>2. CASE ~(p.id > 0)
      BY <1>1, <2>2, OneOrNone DEF Answer
    <2> QED BY <2>1, <2>2
  <1>4. down' = (down \o a) \o b
    OBVIOUS
  <1> HIDE DEF a, b
  <1>5. /\ down' \in Seq(Packet) /\ Grown(down, down')
        /\ \A i \in Added(down, down') : \/ Len(a) = 1 /\ i = Len(down) + 1 /\ down'[i] = a[1]
                                         \/ Len(b) = 1 /\ i = Len(down') /\ down'[i] = b[1]
        /\ Len(b) = 1 => Len(down') \in Added(down, down') /\ down'[Len(down')] = b[1]
    <2>1. (down \o a) \o b \in Seq(Packet) /\ Pieces(down, a, b, (down \o a) \o b)
      BY <1>2, <1>3, TwoMore
    <2> QED BY <1>4, <2>1 DEF Pieces
  <1> QED BY <1>2, <1>3, <1>5

LEMMA NoneStaged == NoReload \in Reload
  <1>1. 0 \in Ids /\ 0 \in Documents
    BY ConfigAssumption DEF Ids, StartupId, Documents, ConfigAssumption
  <1> QED BY <1>1 DEF NoReload, Reload

LEMMA InitType == Init => TypeOK
  <1> SUFFICES ASSUME Init PROVE TypeOK
    OBVIOUS
  <1>1. 0 \in Documents /\ 0 \in 0..Mixed /\ 0 \in 0..Stimuli
    BY ConfigAssumption DEF Documents, Mixed, ConfigAssumption
  <1>2. worker \in Worker /\ compositor \in Compositor
    BY <1>1 DEF Init, Worker, Compositor
  <1>3. pending \in Reload
    BY NoneStaged DEF Init
  <1>4. deferred = <<>> /\ up = <<>> /\ down = <<>> /\ Len(deferred) = 0 /\ 0 <= MaxDeferred
    BY ConfigAssumption DEF Init, ConfigAssumption
  <1>5. /\ deferred \in Seq([type : {"EVENT", "REQUEST"}, n : Numbers])
        /\ down \in Seq(Packet) /\ up \in Seq(UpPacket)
    BY <1>4
  <1> QED BY <1>1, <1>2, <1>3, <1>4, <1>5 DEF Init, TypeOK

(* A reload is staged with a number that is somebody's.                     *)
LEMMA StageType ==
  ASSUME TypeOK, NEW id \in Ids, NEW retry \in BOOLEAN, StageReload(id, retry)
  PROVE  pending' \in Reload
  BY DEF StageReload, Reload, TypeOK, Worker

LEMMA HandlesType ==
  ASSUME TypeOK, NEW p \in Stimulus, Handles(p)
  PROVE  /\ worker' \in Worker /\ pending' \in Reload
         /\ operation' \in {"none", "plain", "tween"} /\ up' \in Seq(UpPacket)
         /\ open' \subseteq Numbers /\ seen' \in 0..Stimuli
  <1>1. p.n \in Numbers /\ p.n \in Ids /\ p.n \in 0..Stimuli
    BY ConfigAssumption DEF Stimulus, Numbers, Ids, StartupId, ConfigAssumption
  <1>2. worker \in Worker /\ pending \in Reload /\ operation \in {"none", "plain", "tween"}
        /\ up \in Seq(UpPacket) /\ open \subseteq Numbers
    BY DEF TypeOK
  <1>3. LuaRuns(worker, pending, operation) => /\ worker' \in Worker /\ up' \in Seq(UpPacket)
                                               /\ operation' \in {"none", "plain", "tween"}
    BY <1>2, LuaStep
  <1>4. StageReload(p.n, FALSE) => pending' \in Reload
    BY <1>1, StageType
  <1>5. seen' \in 0..Stimuli
    BY <1>1 DEF Handles
  <1>6. CASE HandlesRequest(p.n)
    BY <1>2, <1>3, <1>4, <1>5, <1>6 DEF HandlesRequest
  <1>7. CASE HandlesEvent
    BY <1>2, <1>3, <1>5, <1>7 DEF HandlesEvent
  <1> QED BY <1>6, <1>7 DEF Handles

LEMMA ReadType ==
  ASSUME TypeOK, NEW type, WorkerReads(type)
  PROVE  /\ down # <<>> /\ down' = Tail(down) /\ down' \in Seq(Packet)
         /\ Head(down) \in Packet /\ Head(down).type = type
         /\ worker.up /\ compositor.st = "live"
  BY TakeHead DEF WorkerReads, Running, TypeOK

LEMMA ReadUpType ==
  ASSUME TypeOK, NEW type, CompositorReads(type)
  PROVE  /\ up # <<>> /\ up' = Tail(up) /\ up' \in Seq(UpPacket)
         /\ Head(up) \in UpPacket /\ Head(up).type = type
         /\ worker.up /\ compositor.st = "live"
  BY TakeHead DEF CompositorReads, Running, TypeOK

LEMMA FinishType ==
  ASSUME TypeOK
  PROVE  FinishLoad \in Worker /\ Orphan(operation) \in {"none", "plain", "tween"}
  BY DEF FinishLoad, Orphan, TypeOK, Worker, Reload

LEMMA ReloadFinishType ==
  ASSUME TypeOK, NEW commit, ReloadFinish(commit)
  PROVE  /\ worker' \in Worker /\ pending' \in Reload /\ startup' \in {"user", "saved", "done"}
         /\ operation' \in {"none", "plain", "tween"} /\ up' \in Seq(UpPacket)
         /\ open' \subseteq Numbers /\ UNCHANGED <<deferred, compositor, sent, seen>>
  <1>1. worker \in Worker /\ operation \in {"none", "plain", "tween"} /\ up \in Seq(UpPacket)
    BY DEF TypeOK
  <1>2. /\ worker' \in Worker /\ operation' \in {"none", "plain", "tween"}
        /\ up' \in Seq(UpPacket)
    <2>1. CASE commit
      BY <1>1, <2>1, FinishType, LuaStep DEF ReloadFinish
    <2>2. CASE ~commit
      BY <1>1, <2>2, LuaStep DEF ReloadFinish
    <2> QED BY <2>1, <2>2
  <1>3. pending' \in Reload /\ startup' \in {"user", "saved", "done"} /\ open' \subseteq Numbers
    BY NoneStaged DEF ReloadFinish, NextStartup, TypeOK
  <1> QED BY <1>2, <1>3 DEF ReloadFinish

(* What the compositor makes of a candidate.                                *)
LEMMA AcceptedType ==
  ASSUME TypeOK, NEW p \in UpPacket, p.type = "CONFIG"
  PROVE  Accepted(p) \in Compositor /\ Refused(p) \in Compositor
  <1>1. p.id \in Ids /\ p.doc \in Documents /\ p.rev \in Nat /\ p.gen \in Nat
    BY Packets
  <1>2. \A s \in Sections : Applied(s, p.doc) \in 0..Mixed
    BY <1>1, ConfigAssumption DEF Applied, Layout, Documents, Mixed, ConfigAssumption
  <1>3. [s \in Sections |-> Applied(s, p.doc)] \in [Sections -> 0..Mixed]
    BY <1>2
  <1> DEFINE m == [s \in Sections |-> Applied(s, p.doc)]
  <1>4. m \in [Sections -> 0..Mixed]
    BY <1>3
  <1> HIDE DEF m
  <1>5. Accepted(p) \in Compositor
    BY <1>1, <1>4 DEF Accepted, m, Compositor, TypeOK
  <1>6. Refused(p) \in Compositor
    BY DEF Refused, Compositor, TypeOK
  <1> QED BY <1>5, <1>6

LEMMA RollbackType ==
  ASSUME TypeOK, NEW p \in UpPacket, p.type = "CONFIG", NEW k \in DOMAIN ApplyOrder, NEW broken
  PROVE  Rollback(p, k, broken) \in Compositor
  <1>1. p.doc \in Documents
    BY Packets
  <1>2. \A d \in Documents : Layout(d) \in 0..Mixed /\ d \in 0..Mixed
    BY ConfigAssumption DEF Layout, Documents, Mixed, ConfigAssumption
  <1>3. \A s \in Sections, d \in Documents : Applied(s, d) \in 0..Mixed
    BY <1>2 DEF Applied
  <1>4. /\ compositor.applied \in [Sections -> 0..Mixed]
        /\ compositor.doc \in Documents /\ compositor.boot \in Documents
    BY DEF TypeOK, Compositor
  <1>5. Mixed \in 0..Mixed
    BY ConfigAssumption DEF Mixed, ConfigAssumption
  <1>6. \A s \in Sections : HalfApplied(p, k)[s] \in 0..Mixed
    <2>1. TAKE s \in Sections
    <2>2. compositor.applied[s] \in 0..Mixed /\ Applied(s, p.doc) \in 0..Mixed
      BY <1>1, <1>3, <1>4
    <2>3. HalfApplied(p, k)[s] \in {Mixed, compositor.applied[s], Applied(s, p.doc)}
      BY Zenon DEF HalfApplied
    <2> QED BY <1>5, <2>2, <2>3
  <1> DEFINE again(s) == Applied(s, IF s = "protocols" THEN compositor.boot ELSE compositor.doc)
             m == [s \in Sections |-> IF s \in broken THEN Mixed
                                      ELSE IF s \in Restored(p) THEN again(s)
                                      ELSE HalfApplied(p, k)[s]]
  <1>7. \A s \in Sections : again(s) \in 0..Mixed
    BY <1>3, <1>4
  <1> HIDE DEF again
  <1>8. m \in [Sections -> 0..Mixed]
    BY <1>5, <1>6, <1>7
  <1>9. Rollback(p, k, broken) =
          [compositor EXCEPT !.applied = m, !.overlay = compositor.override,
                             !.st = IF broken # {} \/ p.id = 0 THEN "unapplied" ELSE "live"]
    BY DEF Rollback, again
  <1> HIDE DEF m
  <1> QED BY <1>8, <1>9 DEF Compositor, TypeOK

LEMMA SendType ==
  ASSUME TypeOK, NEW p \in Packet, Sends(p)
  PROVE  down' \in Seq(Packet)
  BY AppendOne DEF Sends, TypeOK

LEMMA TypeStep == TypeOK /\ [Next]_vars => TypeOK'
  <1> SUFFICES ASSUME TypeOK, [Next]_vars PROVE TypeOK'
    OBVIOUS
  <1>1. /\ worker \in Worker /\ compositor \in Compositor /\ pending \in Reload
        /\ deferred \in Seq(Stimulus) /\ Len(deferred) <= MaxDeferred
        /\ startup \in {"user", "saved", "done"} /\ operation \in {"none", "plain", "tween"}
        /\ down \in Seq(Packet) /\ up \in Seq(UpPacket)
        /\ open \subseteq Numbers /\ sent \in 0..Stimuli /\ seen \in 0..Stimuli
    BY DEF TypeOK, Stimulus
  <1>2. LuaRuns(worker, pending, operation) => /\ worker' \in Worker /\ up' \in Seq(UpPacket)
                                               /\ operation' \in {"none", "plain", "tween"}
    BY <1>1, LuaStep
  <1>3. [worker EXCEPT !.up = FALSE] \in Worker
    BY <1>1 DEF Worker
  <1>4. sent < Stimuli => sent + 1 \in 0..Stimuli /\ sent + 1 \in Numbers
    BY <1>1, ConfigAssumption DEF Numbers, ConfigAssumption
  <1>5. CASE RunsCallbacks
    BY <1>1, <1>2, <1>5 DEF RunsCallbacks, TypeOK
  <1>6. CASE WorkerHandles
    <2>1. PICK type \in {"EVENT", "REQUEST"} : WorkerReads(type)
      BY <1>6 DEF WorkerHandles
    <2>2. down' \in Seq(Packet) /\ Head(down) \in Stimulus
      BY <2>1, ReadType, Packets
    <2>3. /\ worker' \in Worker /\ pending' \in Reload
          /\ operation' \in {"none", "plain", "tween"} /\ up' \in Seq(UpPacket)
          /\ open' \subseteq Numbers /\ seen' \in 0..Stimuli
      BY <1>6, <2>2, HandlesType DEF WorkerHandles
    <2>4. UNCHANGED <<deferred, startup, compositor, sent>>
      BY <1>6 DEF WorkerHandles
    <2> QED BY <2>2, <2>3, <2>4 DEF TypeOK
  <1>7. CASE WorkerDefers
    <2>1. PICK type \in {"EVENT", "REQUEST"} : WorkerReads(type)
      BY <1>7 DEF WorkerDefers
    <2>2. down' \in Seq(Packet) /\ Head(down) \in Stimulus
      BY <2>1, ReadType, Packets
    <2>3. deferred' \in Seq(Stimulus) /\ Len(deferred') = Len(deferred) + 1
      BY <1>1, <1>7, <2>2, AppendOne DEF WorkerDefers
    <2>4. Len(deferred') <= MaxDeferred
      BY <1>1, <1>7, <2>3, ConfigAssumption, AppendOne DEF WorkerDefers, QueueFull, ConfigAssumption
    <2>5. UNCHANGED <<worker, pending, startup, operation, compositor, up, open, sent, seen>>
      BY <1>7 DEF WorkerDefers
    <2> QED BY <2>2, <2>3, <2>4, <2>5 DEF TypeOK, Stimulus
  <1>8. CASE WorkerOverflows
    <2>1. PICK type \in {"EVENT", "REQUEST"} : WorkerReads(type)
      BY <1>8 DEF WorkerOverflows
    <2> QED BY <1>3, <1>8, <2>1, ReadType DEF WorkerOverflows, TypeOK
  <1>9. CASE WorkerDispatchesDeferred
    <2>1. /\ Tail(deferred) \in Seq(Stimulus) /\ Len(Tail(deferred)) = Len(deferred) - 1
          /\ Head(deferred) \in Stimulus /\ Len(deferred) \in Nat
      BY <1>1, <1>9, TakeHead DEF WorkerDispatchesDeferred
    <2>2. /\ worker' \in Worker /\ pending' \in Reload
          /\ operation' \in {"none", "plain", "tween"} /\ up' \in Seq(UpPacket)
          /\ open' \subseteq Numbers /\ seen' \in 0..Stimuli
      BY <1>9, <2>1, HandlesType DEF WorkerDispatchesDeferred
    <2>3. deferred' \in Seq(Stimulus) /\ Len(deferred') <= MaxDeferred
      BY <1>1, <1>9, <2>1, ConfigAssumption DEF WorkerDispatchesDeferred, ConfigAssumption
    <2>4. UNCHANGED <<startup, compositor, down, sent>>
      BY <1>9 DEF WorkerDispatchesDeferred
    <2> QED BY <2>2, <2>3, <2>4 DEF TypeOK, Stimulus
  <1>10. CASE WorkerCompletes
    <2>1. down' \in Seq(Packet)
      BY <1>10, ReadType DEF WorkerCompletes
    <2>2. /\ worker' \in Worker /\ up' \in Seq(UpPacket)
          /\ operation' \in {"none", "plain", "tween"}
      BY <1>1, <1>10, LuaStep DEF WorkerCompletes
    <2> QED BY <1>10, <2>1, <2>2 DEF WorkerCompletes, TypeOK
  <1>11. CASE WorkerInput
    BY <1>11, ReadType DEF WorkerInput, TypeOK
  <1>12. CASE WorkerResult
    <2>1. down' \in Seq(Packet)
      BY <1>12, ReadType DEF WorkerResult
    <2>2. ReloadFinish(Head(down).accepted)
      BY <1>12 DEF WorkerResult
    <2> QED BY <2>1, <2>2, ReloadFinishType DEF TypeOK
  <1>13. CASE ReloadProgress
    <2>1. pending' \in Reload
      <3>1. CandidateRevision \in Nat
        BY <1>1 DEF CandidateRevision, Worker
      <3> QED BY <1>1, <1>13, <3>1 DEF ReloadProgress, Reload
    <2>2. Config(pending.id, pending') \in UpPacket
      <3>1. pending.id \in Ids
        BY <1>1 DEF Reload
      <3> QED BY <2>1, <3>1 DEF Config, UpPacket, Reload
    <2>3. up' \in Seq(UpPacket)
      BY <1>1, <1>13, <2>2, AppendOne DEF ReloadProgress
    <2>4. UNCHANGED <<worker, deferred, startup, operation, compositor, down, open, sent, seen>>
      BY <1>13 DEF ReloadProgress
    <2> QED BY <2>1, <2>3, <2>4 DEF TypeOK
  <1>14. CASE ReloadTimesOut
    <2>1. ReloadFinish(FALSE) /\ down' = down
      BY <1>14 DEF ReloadTimesOut
    <2> QED BY <2>1, ReloadFinishType DEF TypeOK
  <1>15. CASE ReloadUnanswered
    BY <1>3, <1>15 DEF ReloadUnanswered, TypeOK
  <1>16. CASE StartupLoads
    <2>1. StartupId \in Ids
      BY ConfigAssumption DEF StartupId, Ids, ConfigAssumption
    <2>2. StageReload(StartupId, startup = "user") => pending' \in Reload
      BY <2>1, StageType
    <2>3. startup' \in {"user", "saved", "done"}
      BY <1>16 DEF StartupLoads
    <2>4. UNCHANGED <<deferred, compositor, down, open, sent, seen>>
      BY <1>16 DEF StartupLoads
    <2>5. /\ worker' \in Worker /\ pending' \in Reload /\ up' \in Seq(UpPacket)
          /\ operation' \in {"none", "plain", "tween"}
      BY <1>1, <1>2, <1>16, <2>2 DEF StartupLoads
    <2> QED BY <2>3, <2>4, <2>5 DEF TypeOK
  <1>17. CASE CompositorEvent
    <2>1. [type |-> "EVENT", n |-> sent + 1] \in Packet
      BY <1>4, <1>17 DEF CompositorEvent, Packet
    <2>2. down' \in Seq(Packet)
      BY <1>17, <2>1, SendType DEF CompositorEvent
    <2> QED BY <1>4, <1>17, <2>2 DEF CompositorEvent, TypeOK
  <1>18. CASE CompositorRequest
    <2>1. [type |-> "REQUEST", n |-> sent + 1] \in Packet
      BY <1>4, <1>18 DEF CompositorRequest, Packet
    <2>2. down' \in Seq(Packet)
      BY <1>18, <2>1, SendType DEF CompositorRequest
    <2>3. open' \subseteq Numbers /\ sent' \in 0..Stimuli
      BY <1>1, <1>4, <1>18 DEF CompositorRequest
    <2>4. UNCHANGED <<worker, pending, deferred, startup, operation, compositor, up, seen>>
      BY <1>18 DEF CompositorRequest
    <2> QED BY <2>2, <2>3, <2>4 DEF TypeOK
  <1>19. CASE CompositorInput
    <2>1. [type |-> "INPUT", rev |-> compositor.rev, doc |-> compositor.doc] \in Packet
      BY <1>1 DEF Packet, Compositor
    <2>2. down' \in Seq(Packet)
      BY <1>19, <2>1, SendType DEF CompositorInput
    <2> QED BY <1>19, <2>2 DEF CompositorInput, TypeOK
  <1>20. CASE CompositorStarts
    <2>1. up' \in Seq(UpPacket) /\ Head(up).kind \in {"plain", "tween"}
      BY <1>20, ReadUpType, Packets DEF CompositorStarts
    <2>2. compositor' \in Compositor
      BY <1>1, <1>20, <2>1 DEF CompositorStarts, Compositor
    <2> QED BY <1>20, <2>1, <2>2 DEF CompositorStarts, TypeOK
  <1>21. CASE CompositorCompletes
    <2>1. [type |-> "COMPLETION"] \in Packet
      BY DEF Packet
    <2>2. down' \in Seq(Packet)
      BY <1>21, <2>1, SendType DEF CompositorCompletes
    <2>3. compositor' \in Compositor
      BY <1>1, <1>21 DEF CompositorCompletes, Compositor
    <2> QED BY <1>21, <2>2, <2>3 DEF CompositorCompletes, TypeOK
  <1>22. CASE \E on \in BOOLEAN : CompositorOverrides(on)
    <2>1. compositor' \in Compositor
      BY <1>1, <1>22 DEF CompositorOverrides, Compositor
    <2> QED BY <1>22, <2>1 DEF CompositorOverrides, TypeOK
  <1>23. CASE CompositorTakes
    <2>1. up' \in Seq(UpPacket) /\ Head(up) \in UpPacket /\ Head(up).type = "CONFIG"
      BY <1>23, ReadUpType DEF CompositorTakes
    <2>2. PICK p \in UpPacket : p = Head(up) /\ p.type = "CONFIG"
      BY <2>1
    <2>3. /\ compositor' = IF Candidate(p) THEN Accepted(p) ELSE Refused(p)
          /\ down' = (down \o IF compositor'.running # compositor.running
                              THEN <<[type |-> "COMPLETION"]>> ELSE <<>>)
                     \o Answer(p, Candidate(p))
      BY <1>23, <2>2 DEF CompositorTakes
    <2>4. compositor' \in Compositor
      BY <2>2, <2>3, AcceptedType
    <2>5. Candidate(p) \in BOOLEAN /\ (compositor'.running # compositor.running) \in BOOLEAN
      BY DEF Candidate
    <2>6. down' \in Seq(Packet)
      BY <1>1, <2>2, <2>3, <2>5, AnswerStep
    <2> QED BY <1>23, <2>1, <2>4, <2>6 DEF CompositorTakes, TypeOK
  <1>24. CASE CompositorRollsBack
    <2>1. up' \in Seq(UpPacket) /\ Head(up) \in UpPacket /\ Head(up).type = "CONFIG"
      BY <1>24, ReadUpType DEF CompositorRollsBack
    <2>2. PICK p \in UpPacket : p = Head(up) /\ p.type = "CONFIG"
      BY <2>1
    <2>3. PICK k \in DOMAIN ApplyOrder, broken \in {{}, Restored(p)} :
            compositor' = Rollback(p, k, broken)
      BY <1>24, <2>2 DEF CompositorRollsBack
    <2>4. compositor' \in Compositor
      BY <2>2, <2>3, RollbackType
    <2>5. down' = (down \o IF FALSE THEN <<[type |-> "COMPLETION"]>> ELSE <<>>) \o Answer(p, FALSE)
      <3>1. down \o <<>> = down
        BY <1>1
      <3> QED BY <1>24, <2>2, <3>1 DEF CompositorRollsBack
    <2>6. down' \in Seq(Packet)
      BY <1>1, <2>2, <2>5, AnswerStep
    <2> QED BY <1>24, <2>1, <2>4, <2>6 DEF CompositorRollsBack, TypeOK
  <1>25. CASE Ended
    BY <1>25 DEF Ended, vars, TypeOK
  <1>26. CASE UNCHANGED vars
    BY <1>26 DEF vars, TypeOK
  <1> QED
    BY <1>5, <1>6, <1>7, <1>8, <1>9, <1>10, <1>11, <1>12, <1>13, <1>14, <1>15, <1>16, <1>17,
       <1>18, <1>19, <1>20, <1>21, <1>22, <1>23, <1>24, <1>25, <1>26 DEF Next

(* The deferred queue keeps within its limit, and every packet and every    *)
(* process has the shape the code gives it, in every reachable state.       *)
THEOREM TypeCorrect == Spec => []TypeOK
  BY InitType, TypeStep, PTL DEF Spec

-----------------------------------------------------------------------------
(* Nothing the compositor sent is lost or overtaken.                        *)

(* The events and requests of the channel q, by their places; q carries     *)
(* those numbered from + 1 to to, in order.                                 *)
Waiting(q) == {i \in DOMAIN q : Deferrable(q[i])}
Carries(q, from, to) ==
  /\ from <= to
  /\ {q[i].n : i \in Waiting(q)} = from + 1 .. to
  /\ \A i, j \in Waiting(q) : i < j => q[i].n < q[j].n

(* Answers, completions and keys do not count.                              *)
LEMMA CarriesOthers ==
  ASSUME NEW q, NEW r, NEW from, NEW to, Grown(q, r), Carries(q, from, to),
         \A i \in Added(q, r) : ~Deferrable(r[i])
  PROVE  Carries(r, from, to)
  <1>1. Waiting(r) = Waiting(q)
    BY DEF Waiting, Grown, Added
  <1>2. \A i \in Waiting(q) : r[i] = q[i]
    BY DEF Waiting, Grown
  <1> QED BY <1>1, <1>2 DEF Carries

(* A new event takes the next number.                                       *)
LEMMA CarriesNext ==
  ASSUME NEW q \in Seq(Packet), NEW from \in Nat, NEW to \in Nat,
         NEW e \in Packet, Deferrable(e), e.n = to + 1, Carries(q, from, to)
  PROVE  Carries(Append(q, e), from, to + 1)
  <1>1. PICK r \in Seq(Packet) : r = Append(q, e)
    BY AppendOne
  <1>2. /\ DOMAIN r = 1..(Len(q) + 1) /\ DOMAIN q = 1..Len(q) /\ Len(q) \in Nat
        /\ \A i \in 1..Len(q) : r[i] = q[i]
        /\ r[Len(q) + 1] = e
    BY <1>1, AppendOne
  <1>3. Waiting(r) = Waiting(q) \cup {Len(q) + 1}
    BY <1>2 DEF Waiting
  <1>4. \A i \in Waiting(q) : /\ r[i] = q[i] /\ i < Len(q) + 1 /\ i \in Nat
                              /\ q[i].n \in from + 1 .. to
    BY <1>2 DEF Waiting, Carries
  <1>5. {r[i].n : i \in Waiting(r)} = {q[i].n : i \in Waiting(q)} \cup {to + 1}
    BY <1>2, <1>3, <1>4
  <1>6. {r[i].n : i \in Waiting(r)} = from + 1 .. to + 1
    <2>1. {q[i].n : i \in Waiting(q)} = from + 1 .. to
      BY DEF Carries
    <2>2. (from + 1 .. to) \cup {to + 1} = from + 1 .. to + 1
      BY DEF Carries
    <2> QED BY <1>5, <2>1, <2>2
  <1>7. \A i, j \in Waiting(r) : i < j => r[i].n < r[j].n
    BY <1>2, <1>3, <1>4 DEF Carries
  <1>8. from <= to + 1
    BY DEF Carries
  <1> QED BY <1>1, <1>6, <1>7, <1>8 DEF Carries

(* Reading takes the least number, or none.                                 *)
LEMMA CarriesRest ==
  ASSUME NEW q \in Seq(Packet), q # <<>>, NEW from \in Nat, NEW to \in Nat,
         Carries(q, from, to)
  PROVE  /\ ~Deferrable(Head(q)) => Carries(Tail(q), from, to)
         /\ Deferrable(Head(q)) => Head(q).n = from + 1 /\ Carries(Tail(q), from + 1, to)
  <1>1. PICK r \in Seq(Packet) : r = Tail(q)
    BY TakeHead
  <1>2. /\ DOMAIN r = 1..(Len(q) - 1) /\ DOMAIN q = 1..Len(q) /\ Len(q) \in Nat \ {0}
        /\ \A i \in 1..(Len(q) - 1) : r[i] = q[i + 1]
        /\ Head(q) = q[1]
    BY <1>1, TakeHead
  <1>3. \A i \in Waiting(r) : i \in Nat /\ i + 1 \in Waiting(q) /\ i + 1 # 1 /\ r[i] = q[i + 1]
    BY <1>2 DEF Waiting
  <1>4. \A k \in Waiting(q) : k \in Nat /\ (k # 1 => k - 1 \in Waiting(r) /\ r[k - 1] = q[k])
    <2>1. TAKE k \in Waiting(q)
    <2>2. k \in 1..Len(q) /\ Deferrable(q[k])
      BY <1>2 DEF Waiting
    <2>3. k # 1 => k - 1 \in 1..(Len(q) - 1) /\ r[k - 1] = q[(k - 1) + 1] /\ (k - 1) + 1 = k
      BY <1>2, <2>2
    <2> QED BY <1>2, <2>2, <2>3 DEF Waiting
  <1>5. \A i, j \in Waiting(r) : i < j => r[i].n < r[j].n
    <2>1. TAKE i, j \in Waiting(r)
    <2>2. i < j => i + 1 < j + 1
      BY <1>3
    <2> QED BY <1>3, <2>2 DEF Carries
  <1>6. \A k \in Waiting(q) : q[k].n \in from + 1 .. to
    BY DEF Carries
  <1>7. ASSUME ~Deferrable(Head(q)) PROVE Carries(r, from, to)
    <2>1. 1 \notin Waiting(q)
      BY <1>2, <1>7 DEF Waiting
    <2>2. \A k \in Waiting(q) : \E i \in Waiting(r) : r[i].n = q[k].n
      BY <1>4, <2>1
    <2>3. \A i \in Waiting(r) : \E k \in Waiting(q) : r[i].n = q[k].n
      BY <1>3
    <2>4. {r[i].n : i \in Waiting(r)} = {q[i].n : i \in Waiting(q)}
      BY <2>2, <2>3
    <2> QED BY <1>5, <2>4 DEF Carries
  <1>8. ASSUME Deferrable(Head(q)) PROVE Head(q).n = from + 1 /\ Carries(r, from + 1, to)
    <2>1. 1 \in Waiting(q)
      BY <1>2, <1>8 DEF Waiting
    <2>2. \A i \in Waiting(r) : q[1].n < r[i].n /\ r[i].n \in from + 1 .. to
      <3>1. TAKE i \in Waiting(r)
      <3>2. i + 1 \in Waiting(q) /\ 1 < i + 1
        BY <1>3, <1>2 DEF Waiting
      <3> QED BY <1>3, <1>6, <2>1, <3>2 DEF Carries
    <2>3. q[1].n \in from + 1 .. to
      BY <1>6, <2>1
    <2>4. q[1].n = from + 1
      <3>1. from + 1 \in {q[i].n : i \in Waiting(q)}
        BY <2>3 DEF Carries
      <3>2. PICK k \in Waiting(q) : q[k].n = from + 1
        BY <3>1
      <3>3. k # 1 => q[1].n < from + 1
        BY <1>4, <2>2, <3>2
      <3> QED BY <2>3, <3>2, <3>3
    <2>5. \A x \in from + 2 .. to : \E i \in Waiting(r) : r[i].n = x
      <3>1. TAKE x \in from + 2 .. to
      <3>2. x \in from + 1 .. to /\ x # from + 1
        OBVIOUS
      <3>3. PICK k \in Waiting(q) : q[k].n = x
        BY <3>2 DEF Carries
      <3> QED BY <1>4, <2>4, <3>2, <3>3
    <2>6. \A i \in Waiting(r) : r[i].n \in from + 2 .. to
      BY <2>2, <2>4
    <2>7. {r[i].n : i \in Waiting(r)} = (from + 1) + 1 .. to
      BY <2>5, <2>6
    <2>8. Head(q).n = from + 1 /\ from + 1 <= to
      BY <1>2, <2>3, <2>4
    <2> QED BY <1>5, <2>7, <2>8 DEF Carries
  <1> QED BY <1>1, <1>7, <1>8

(* The queue holds what comes next, the channel what comes after.           *)
Queued(queue, from) == \A i \in DOMAIN queue : queue[i].n = from + i

InSequence ==
  worker.up => Queued(deferred, seen) /\ Carries(down, seen + Len(deferred), sent)

LEMMA InSequenceSuffices == InSequence => NoneLost
  BY DEF InSequence, NoneLost, Queued, Carries, Waiting

(* What remains numbered when a packet of no number is sent or read.        *)
LEMMA InSequenceKept ==
  ASSUME InSequence, worker.up, UNCHANGED <<deferred, seen, sent>>,
         Carries(down, seen + Len(deferred), sent) => Carries(down', seen + Len(deferred), sent)
  PROVE  InSequence'
  BY DEF InSequence

LEMMA SendsOther ==
  ASSUME TypeOK, NEW p \in Packet, ~Deferrable(p), Sends(p)
  PROVE  Grown(down, down') /\ \A i \in Added(down, down') : ~Deferrable(down'[i])
  <1>1. /\ DOMAIN down' = 1..(Len(down) + 1) /\ Len(down') = Len(down) + 1
        /\ DOMAIN down = 1..Len(down) /\ Len(down) \in Nat
        /\ \A i \in 1..Len(down) : down'[i] = down[i]
        /\ down'[Len(down) + 1] = p
    BY AppendOne DEF Sends, TypeOK
  <1>2. Grown(down, down') /\ Added(down, down') = {Len(down) + 1}
    BY <1>1 DEF Grown, Added
  <1> QED BY <1>1, <1>2

LEMMA InSequenceStep == InSequence /\ TypeOK /\ [Next]_vars => InSequence'
  <1> SUFFICES ASSUME InSequence, TypeOK, [Next]_vars PROVE InSequence'
    OBVIOUS
  <1>1. /\ deferred \in Seq(Stimulus) /\ down \in Seq(Packet) /\ Len(deferred) \in Nat
        /\ worker \in Worker
        /\ sent \in Nat /\ seen \in Nat /\ seen + Len(deferred) \in Nat
        /\ DOMAIN deferred = 1..Len(deferred)
    BY ConfigAssumption DEF TypeOK, Stimulus, ConfigAssumption
  <1>2. ASSUME NEW type, type \notin {"EVENT", "REQUEST"}, WorkerReads(type),
               UNCHANGED <<deferred, seen, sent>>
        PROVE  InSequence'
    <2>1. down # <<>> /\ down' = Tail(down) /\ Head(down).type = type /\ worker.up
      BY <1>2, ReadType
    <2>2. ~Deferrable(Head(down))
      BY <1>2, <2>1 DEF Deferrable
    <2> QED BY <1>1, <1>2, <2>1, <2>2, CarriesRest, InSequenceKept
  <1>3. ASSUME UNCHANGED <<down, deferred, seen, sent>>, worker.up
        PROVE  InSequence'
    BY <1>3, InSequenceKept
  <1>4. ASSUME NEW p \in Packet, ~Deferrable(p), Sends(p), UNCHANGED <<deferred, seen, sent>>,
               worker.up
        PROVE  InSequence'
    BY <1>4, SendsOther, CarriesOthers, InSequenceKept
  <1>5. ASSUME NEW type \in {"EVENT", "REQUEST"}, WorkerReads(type), worker.up
        PROVE  /\ Queued(deferred, seen) /\ Head(down).n = seen + Len(deferred) + 1
               /\ down' = Tail(down) /\ Head(down) \in Stimulus
               /\ Carries(down', seen + Len(deferred) + 1, sent)
    <2>1. down # <<>> /\ down' = Tail(down) /\ Head(down).type = type /\ Head(down) \in Packet
      BY <1>5, ReadType
    <2>2. Deferrable(Head(down)) /\ Head(down) \in Stimulus
      BY <2>1, Packets DEF Deferrable
    <2>3. Queued(deferred, seen) /\ Carries(down, seen + Len(deferred), sent)
      BY <1>5 DEF InSequence
    <2> QED BY <1>1, <2>1, <2>2, <2>3, CarriesRest
  <1>6. CASE RunsCallbacks
    BY <1>3, <1>6 DEF RunsCallbacks, Running
  <1>7. CASE WorkerHandles
    <2>1. PICK type \in {"EVENT", "REQUEST"} : WorkerReads(type)
      BY <1>7 DEF WorkerHandles
    <2>2. deferred = <<>> /\ Len(deferred) = 0 /\ worker.up
      BY <1>7, <2>1, ReadType DEF WorkerHandles, MustDefer
    <2>3. seen' = Head(down).n /\ UNCHANGED <<deferred, sent>>
      BY <1>7 DEF WorkerHandles, Handles
    <2>4. seen' = seen + 1 /\ Carries(down', seen + 1, sent)
      BY <1>1, <1>5, <2>1, <2>2, <2>3
    <2>5. Carries(down', seen' + Len(deferred'), sent') /\ Queued(deferred', seen')
      BY <1>1, <2>2, <2>3, <2>4 DEF Queued
    <2> QED BY <2>5 DEF InSequence
  <1>8. CASE WorkerDefers
    <2>1. PICK type \in {"EVENT", "REQUEST"} : WorkerReads(type)
      BY <1>8 DEF WorkerDefers
    <2>2. worker.up /\ UNCHANGED <<seen, sent>> /\ deferred' = Append(deferred, Head(down))
      BY <1>8, <2>1, ReadType DEF WorkerDefers
    <2>3. /\ Queued(deferred, seen) /\ Head(down).n = seen + Len(deferred) + 1
          /\ Head(down) \in Stimulus /\ Carries(down', seen + Len(deferred) + 1, sent)
      BY <1>5, <2>1, <2>2
    <2>4. /\ Len(deferred') = Len(deferred) + 1 /\ DOMAIN deferred' = 1..(Len(deferred) + 1)
          /\ \A i \in 1..Len(deferred) : deferred'[i] = deferred[i]
          /\ deferred'[Len(deferred) + 1] = Head(down)
      BY <1>1, <2>2, <2>3, AppendOne
    <2>5. Queued(deferred', seen')
      <3>1. \A i \in 1..Len(deferred) : deferred'[i].n = seen + i
        BY <1>1, <2>3, <2>4 DEF Queued
      <3>2. deferred'[Len(deferred) + 1].n = seen + (Len(deferred) + 1)
        BY <1>1, <2>3, <2>4
      <3>3. \A i \in 1..(Len(deferred) + 1) : i \in 1..Len(deferred) \/ i = Len(deferred) + 1
        BY <1>1
      <3>4. \A i \in 1..(Len(deferred) + 1) : deferred'[i].n = seen + i
        BY <3>1, <3>2, <3>3
      <3> QED BY <2>2, <2>4, <3>4 DEF Queued
    <2>6. Carries(down', seen' + Len(deferred'), sent')
      <3>1. seen' + Len(deferred') = seen + Len(deferred) + 1
        BY <1>1, <2>2, <2>4
      <3> QED BY <2>2, <2>3, <3>1
    <2> QED BY <2>5, <2>6 DEF InSequence
  <1>9. CASE WorkerDispatchesDeferred
    <2>1. /\ worker.up /\ deferred # <<>> /\ deferred' = Tail(deferred)
          /\ seen' = Head(deferred).n /\ UNCHANGED <<down, sent>>
      BY <1>9 DEF WorkerDispatchesDeferred, Running, Handles
    <2>2. Queued(deferred, seen) /\ Carries(down, seen + Len(deferred), sent)
      BY <2>1 DEF InSequence
    <2>3. /\ Len(deferred') = Len(deferred) - 1 /\ DOMAIN deferred' = 1..(Len(deferred) - 1)
          /\ \A i \in 1..(Len(deferred) - 1) : deferred'[i] = deferred[i + 1]
          /\ Head(deferred) = deferred[1] /\ Len(deferred) \in Nat \ {0}
      BY <1>1, <2>1, TakeHead
    <2>4. seen' = seen + 1
      BY <1>1, <2>1, <2>2, <2>3 DEF Queued
    <2>5. Queued(deferred', seen')
      <3>1. \A i \in 1..(Len(deferred) - 1) : i + 1 \in DOMAIN deferred
        BY <1>1
      <3>2. \A i \in 1..(Len(deferred) - 1) : deferred'[i].n = seen + (i + 1)
        BY <2>2, <2>3, <3>1 DEF Queued
      <3>3. \A i \in 1..(Len(deferred) - 1) : seen + (i + 1) = (seen + 1) + i
        BY <1>1
      <3>4. \A i \in 1..(Len(deferred) - 1) : deferred'[i].n = seen' + i
        BY <2>4, <3>2, <3>3
      <3> QED BY <2>3, <3>4 DEF Queued
    <2>6. Carries(down', seen' + Len(deferred'), sent')
      <3>1. seen' + Len(deferred') = seen + Len(deferred)
        BY <1>1, <2>3, <2>4
      <3> QED BY <2>1, <2>2, <3>1
    <2> QED BY <2>5, <2>6 DEF InSequence
  <1>10. CASE WorkerCompletes
    BY <1>2, <1>10 DEF WorkerCompletes
  <1>11. CASE WorkerInput
    BY <1>2, <1>11 DEF WorkerInput
  <1>12. CASE WorkerResult
    BY <1>2, <1>12 DEF WorkerResult, ReloadFinish
  <1>13. CASE ReloadProgress
    BY <1>3, <1>13 DEF ReloadProgress, Running
  <1>14. CASE ReloadTimesOut
    BY <1>3, <1>14 DEF ReloadTimesOut, ReloadFinish, Running
  <1>15. CASE WorkerOverflows \/ ReloadUnanswered
    <2>1. ~worker'.up
      BY <1>1, <1>15 DEF WorkerOverflows, ReloadUnanswered, Worker
    <2> QED BY <2>1 DEF InSequence
  <1>16. CASE StartupLoads
    BY <1>3, <1>16 DEF StartupLoads, Running
  <1>17. CASE CompositorEvent \/ CompositorRequest
    <2>1. PICK type \in {"EVENT", "REQUEST"} : down' = Append(down, [type |-> type, n |-> sent + 1])
      BY <1>17 DEF CompositorEvent, CompositorRequest, Sends
    <2>2. sent' = sent + 1 /\ UNCHANGED <<deferred, seen>> /\ worker.up /\ sent < Stimuli
      BY <1>17 DEF CompositorEvent, CompositorRequest, Running
    <2>3. Queued(deferred, seen) /\ Carries(down, seen + Len(deferred), sent)
      BY <2>2 DEF InSequence
    <2>4. [type |-> type, n |-> sent + 1] \in Packet /\ Deferrable([type |-> type, n |-> sent + 1])
      BY <1>1, <2>2, ConfigAssumption DEF Packet, Deferrable, Numbers, ConfigAssumption
    <2>6. Carries(down', seen + Len(deferred), sent + 1)
      BY <1>1, <2>1, <2>3, <2>4, CarriesNext
    <2> QED BY <2>2, <2>3, <2>6 DEF InSequence
  <1>18. CASE CompositorInput
    <2>1. [type |-> "INPUT", rev |-> compositor.rev, doc |-> compositor.doc] \in Packet
      BY DEF Packet, TypeOK, Compositor
    <2> QED BY <1>4, <1>18, <2>1 DEF CompositorInput, Running, Deferrable
  <1>19. CASE CompositorStarts
    BY <1>3, <1>19, ReadUpType DEF CompositorStarts
  <1>20. CASE CompositorCompletes
    <2>1. [type |-> "COMPLETION"] \in Packet
      BY DEF Packet
    <2> QED BY <1>4, <1>20, <2>1 DEF CompositorCompletes, Running, Deferrable
  <1>21. CASE \E on \in BOOLEAN : CompositorOverrides(on)
    BY <1>3, <1>21 DEF CompositorOverrides, Running
  <1>22. CASE CompositorTakes \/ CompositorRollsBack
    <2>1. PICK p \in UpPacket : p = Head(up) /\ p.type = "CONFIG"
      BY <1>22, ReadUpType DEF CompositorTakes, CompositorRollsBack
    <2>2. worker.up /\ UNCHANGED <<deferred, seen, sent>>
      BY <1>22, ReadUpType DEF CompositorTakes, CompositorRollsBack
    <2>3. PICK cancelled \in BOOLEAN, accepted \in BOOLEAN :
            down' = (down \o IF cancelled THEN <<[type |-> "COMPLETION"]>> ELSE <<>>)
                    \o Answer(p, accepted)
      <3>1. CASE CompositorTakes
        <4>1. Candidate(p) \in BOOLEAN /\ (compositor'.running # compositor.running) \in BOOLEAN
          BY DEF Candidate
        <4>2. down' = (down \o IF compositor'.running # compositor.running
                               THEN <<[type |-> "COMPLETION"]>> ELSE <<>>)
                      \o Answer(p, Candidate(p))
          BY <2>1, <3>1 DEF CompositorTakes
        <4> QED BY <4>1, <4>2
      <3>2. CASE CompositorRollsBack
        <4>1. down \o <<>> = down
          BY <1>1
        <4>2. down' = (down \o IF FALSE THEN <<[type |-> "COMPLETION"]>> ELSE <<>>)
                      \o Answer(p, FALSE)
          BY <2>1, <3>2, <4>1 DEF CompositorRollsBack
        <4> QED BY <4>2
      <3> QED BY <1>22, <3>1, <3>2
    <2>4. /\ Grown(down, down')
          /\ \A i \in Added(down, down') : down'[i].type = "COMPLETION"
                                           \/ down'[i] = Result(p, accepted)
      BY <1>1, <2>1, <2>3, AnswerStep
    <2>5. \A i \in Added(down, down') : ~Deferrable(down'[i])
      BY <2>4 DEF Deferrable, Result
    <2> QED BY <2>2, <2>4, <2>5, CarriesOthers, InSequenceKept
  <1>23. CASE Ended \/ UNCHANGED vars
    <2>1. UNCHANGED <<worker, deferred, seen, sent, down>>
      BY <1>23 DEF Ended, vars
    <2> QED BY <2>1 DEF InSequence
  <1> QED
    BY <1>6, <1>7, <1>8, <1>9, <1>10, <1>11, <1>12, <1>13, <1>14, <1>15, <1>16, <1>17, <1>18,
       <1>19, <1>20, <1>21, <1>22, <1>23 DEF Next

-----------------------------------------------------------------------------
(* The invariant of the channel, over a compositor c, a worker w, its       *)
(* pending reload r, and the packets q up and d down.                       *)

(* y is what x names or something later.                                    *)
Follows(x, y) == x.rev <= y.rev /\ (x.rev = y.rev => x.doc = y.doc)

Configs(q) == {i \in DOMAIN q : q[i].type = "CONFIG"}
Results(d) == {i \in DOMAIN d : d[i].type = "RESULT"}
Inputs(d) == {i \in DOMAIN d : d[i].type = "INPUT"}
News(d) == {i \in Results(d) : d[i].accepted}

Names(x, r) == x.rev = r.rev /\ x.doc = r.doc

(* The documents underway lead from the compositor's to the worker's, the   *)
(* candidate of a reload comes last.                                        *)
Commits(c, w, r, q) ==
  \A i \in Configs(q) :
     /\ Follows(c, q[i])
     /\ \A j \in Configs(q) : i < j => Follows(q[i], q[j]) /\ q[i].id = 0
     /\ q[i].id = 0 => q[i].gen = w.gen /\ Follows(q[i], w)
     /\ q[i].id # 0 => r.sent /\ q[i].id = r.id /\ Names(q[i], r) /\ q[i].gen = r.gen

(* One answer at most, to the candidate, after every document has arrived.  *)
Fits(x, r) == r # NoReload /\ r.sent /\ x.id = r.id /\ x.rev = r.rev /\ x.gen = r.gen
Answers(c, r, q, d) ==
  \A i \in Results(d) :
     /\ Fits(d[i], r)
     /\ Configs(q) = {}
     /\ \A j \in Results(d) : i = j
     /\ d[i].accepted => c.gen = r.gen /\ Names(c, r)

(* A candidate is at most one revision ahead of the worker.                 *)
Candidates(w, r) ==
  /\ r # NoReload => r.id > 0 /\ r.gen = w.gen + 1
  /\ r.sent => /\ r.rev <= w.rev + 1
               /\ r.doc = w.doc => r.rev <= w.rev

(* Unless an accepted reload is underway the generations are the same and   *)
(* the worker is not behind.                                                *)
Agrees(c, w, d) == News(d) = {} => c.gen = w.gen /\ Follows(c, w)

(* A key names a document of the worker's past, or the one it is about to   *)
(* commit.                                                                  *)
Keys(w, r, d) ==
  \A i \in Inputs(d) : \/ Follows(d[i], w)
                       \/ \E j \in News(d) : j < i /\ Names(d[i], r)

Channel(c, w, r, q, d) ==
  Commits(c, w, r, q) /\ Answers(c, r, q, d) /\ Candidates(w, r) /\ Agrees(c, w, d) /\ Keys(w, r, d)

IInv ==
  /\ AllOrNothing /\ NeverStale
  /\ worker.up => Channel(compositor, worker, pending, up, down)

LEMMA FollowsOn ==
  ASSUME NEW x, NEW y, NEW z, x.rev \in Nat, y.rev \in Nat, z.rev \in Nat,
         Follows(x, y), Follows(y, z)
  PROVE  Follows(x, z)
  BY DEF Follows

(* Lua handlers move the worker on from w to v and may send its document.   *)
LEMMA ChannelLua ==
  ASSUME NEW c \in Compositor, NEW w \in Worker, NEW v \in Worker, NEW r \in Reload,
         NEW q \in Seq(UpPacket), NEW k \in Seq(UpPacket), NEW d \in Seq(Packet),
         Channel(c, w, r, q, d),
         v.gen = w.gen, w.rev <= v.rev, v.rev <= w.rev + 1, v.rev = w.rev => v.doc = w.doc,
         Grown(q, k),
         \A i \in Added(q, k) : k[i].type = "CONFIG" =>
            i = Len(q) + 1 /\ ~r.sent /\ k[i] = Config(0, v)
  PROVE  Channel(c, v, r, k, d)
  <1>1. c.rev \in Nat /\ w.rev \in Nat /\ v.rev \in Nat /\ r.rev \in Nat /\ w.gen \in Nat
    BY DEF Compositor, Worker, Reload
  <1>2. Follows(w, v)
    BY DEF Follows
  <1>3. \A i \in Configs(q) : q[i].rev \in Nat
    <2>1. TAKE i \in Configs(q)
    <2>2. q[i] \in UpPacket /\ q[i].type = "CONFIG"
      BY DEF Configs
    <2> QED BY <2>2, Packets
  <1>4. \A i \in Inputs(d) : d[i].rev \in Nat
    <2>1. TAKE i \in Inputs(d)
    <2>2. d[i] \in Packet /\ d[i].type = "INPUT"
      BY DEF Inputs
    <2> QED BY <2>2, Packets
  <1>5. /\ Configs(q) \subseteq Configs(k)
        /\ \A i \in Configs(q) : k[i] = q[i] /\ i \in 1..Len(q)
        /\ \A i \in Configs(k) : i \notin Configs(q) =>
              i = Len(q) + 1 /\ ~r.sent /\ k[i] = Config(0, v)
    BY DEF Configs, Grown, Added
  <1>6. ~r.sent => Results(d) = {} /\ News(d) = {}
    BY DEF Channel, Answers, Fits, News
  <1>7. ~r.sent => Follows(c, v)
    BY <1>1, <1>2, <1>6, FollowsOn DEF Channel, Agrees
  <1>8. \A i \in Configs(q) : q[i].id = 0 => Follows(q[i], v)
    BY <1>1, <1>2, <1>3, FollowsOn DEF Channel, Commits
  <1>9. Follows(Config(0, v), v) /\ Config(0, v).id = 0 /\ Config(0, v).gen = v.gen
    BY <1>1 DEF Follows, Config
  <1>10. \A x : Follows(x, v) => Follows(x, Config(0, v))
    BY DEF Follows, Config
  <1>11. Commits(c, v, r, k)
    <2> SUFFICES ASSUME NEW i \in Configs(k)
                 PROVE  /\ Follows(c, k[i])
                        /\ \A j \in Configs(k) : i < j => Follows(k[i], k[j]) /\ k[i].id = 0
                        /\ k[i].id = 0 => k[i].gen = v.gen /\ Follows(k[i], v)
                        /\ k[i].id # 0 => /\ r.sent /\ k[i].id = r.id
                                          /\ Names(k[i], r) /\ k[i].gen = r.gen
      BY DEF Commits
    <2>1. CASE i \in Configs(q)
      <3>1. /\ Follows(c, q[i])
            /\ \A j \in Configs(q) : i < j => Follows(q[i], q[j]) /\ q[i].id = 0
            /\ q[i].id = 0 => q[i].gen = w.gen /\ Follows(q[i], w)
            /\ q[i].id # 0 => r.sent /\ q[i].id = r.id /\ Names(q[i], r) /\ q[i].gen = r.gen
        BY <2>1 DEF Channel, Commits
      <3>2. ASSUME NEW j \in Configs(k), i < j PROVE Follows(k[i], k[j]) /\ k[i].id = 0
        <4>1. CASE j \in Configs(q)
          BY <1>5, <2>1, <3>1, <3>2, <4>1
        <4>2. CASE j \notin Configs(q)
          <5>1. ~r.sent /\ k[j] = Config(0, v)
            BY <1>5, <4>2
          <5>2. q[i].id = 0
            BY <3>1, <5>1
          <5> QED BY <1>5, <1>8, <1>10, <2>1, <5>1, <5>2
        <4> QED BY <4>1, <4>2
      <3> QED BY <1>5, <1>8, <2>1, <3>1, <3>2
    <2>2. CASE i \notin Configs(q)
      <3>1. i = Len(q) + 1 /\ ~r.sent /\ k[i] = Config(0, v)
        BY <1>5, <2>2
      <3>2. \A j \in Configs(k) : ~(i < j)
        <4>1. TAKE j \in Configs(k)
        <4>2. Len(q) \in Nat
          BY DEF Grown
        <4>3. j \in 1..Len(q) \/ j = Len(q) + 1
          BY <1>5
        <4> QED BY <3>1, <4>2, <4>3
      <3>3. Follows(c, k[i])
        BY <1>7, <1>10, <3>1
      <3> QED BY <1>9, <3>1, <3>2, <3>3
    <2> QED BY <2>1, <2>2
  <1>12. Answers(c, r, k, d)
    <2>1. ASSUME NEW i \in Results(d) PROVE Configs(k) = {}
      <3>1. r.sent /\ Configs(q) = {}
        BY <2>1 DEF Channel, Answers, Fits
      <3> QED BY <1>5, <3>1
    <2> QED BY <2>1 DEF Channel, Answers
  <1>13. Candidates(v, r)
    <2>1. Candidates(w, r)
      BY DEF Channel
    <2>2. v.rev = w.rev \/ v.rev = w.rev + 1
      BY <1>1
    <2>3. CASE v.rev = w.rev
      BY <2>1, <2>3 DEF Candidates
    <2>4. CASE v.rev = w.rev + 1
      BY <1>1, <2>1, <2>4 DEF Candidates
    <2> QED BY <2>2, <2>3, <2>4
  <1>14. Agrees(c, v, d)
    BY <1>1, <1>2, FollowsOn DEF Channel, Agrees
  <1>15. Keys(v, r, d)
    BY <1>1, <1>2, <1>4, FollowsOn DEF Channel, Keys
  <1> QED BY <1>11, <1>12, <1>13, <1>14, <1>15 DEF Channel

(* Taking the head moves every place of the channel up.                     *)
LEMMA Moved ==
  ASSUME NEW S, NEW q \in Seq(S), q # <<>>, NEW type
  PROVE  /\ \A i \in {i \in DOMAIN Tail(q) : Tail(q)[i].type = type} :
               i \in Nat /\ i + 1 \in {j \in DOMAIN q : q[j].type = type} /\ Tail(q)[i] = q[i + 1]
         /\ \A j \in {j \in DOMAIN q : q[j].type = type} :
               j \in Nat /\ (j # 1 => /\ j - 1 \in {i \in DOMAIN Tail(q) : Tail(q)[i].type = type}
                                      /\ Tail(q)[j - 1] = q[j])
         /\ Head(q) = q[1] /\ 1 \in DOMAIN q
  <1>1. PICK t \in Seq(S) : t = Tail(q)
    BY TakeHead
  <1>2. /\ DOMAIN t = 1..(Len(q) - 1) /\ DOMAIN q = 1..Len(q) /\ Len(q) \in Nat \ {0}
        /\ \A i \in 1..(Len(q) - 1) : t[i] = q[i + 1]
        /\ Head(q) = q[1]
    BY <1>1, TakeHead
  <1>3. \A i \in DOMAIN t : i \in Nat /\ i + 1 \in DOMAIN q /\ t[i] = q[i + 1]
    BY <1>2
  <1>4. \A j \in DOMAIN q : j \in Nat /\ (j # 1 => j - 1 \in DOMAIN t /\ t[j - 1] = q[j])
    <2>1. TAKE j \in DOMAIN q
    <2>2. j \in 1..Len(q)
      BY <1>2
    <2>3. j # 1 => j - 1 \in 1..(Len(q) - 1) /\ (j - 1) + 1 = j
      BY <1>2, <2>2
    <2> QED BY <1>2, <2>2, <2>3
  <1>5. 1 \in DOMAIN q
    BY <1>2
  <1> QED BY <1>1, <1>2, <1>3, <1>4, <1>5

(* The worker reads anything but an answer.                                 *)
LEMMA ChannelRead ==
  ASSUME NEW c, NEW w, NEW r, NEW q, NEW d \in Seq(Packet), d # <<>>,
         Head(d).type # "RESULT", Channel(c, w, r, q, d)
  PROVE  Channel(c, w, r, q, Tail(d))
  <1>1. PICK t \in Seq(Packet) : t = Tail(d)
    BY TakeHead
  <1>2. /\ \A i \in Results(t) : i \in Nat /\ i + 1 \in Results(d) /\ t[i] = d[i + 1]
        /\ \A j \in Results(d) : j \in Nat /\ (j # 1 => j - 1 \in Results(t) /\ t[j - 1] = d[j])
    BY <1>1, Moved DEF Results
  <1>3. \A i \in Inputs(t) : i \in Nat /\ i + 1 \in Inputs(d) /\ t[i] = d[i + 1]
    BY <1>1, Moved DEF Inputs
  <1>4. 1 \notin Results(d)
    BY Moved DEF Results
  <1>5. \A j \in Results(d) : j \in Nat /\ j - 1 \in Results(t) /\ t[j - 1] = d[j]
    BY <1>2, <1>4
  <1>6. \A j \in News(d) : j \in Nat /\ j - 1 \in News(t)
    BY <1>5 DEF News
  <1>7. Answers(c, r, q, t)
    <2> SUFFICES ASSUME NEW i \in Results(t)
                 PROVE  /\ Fits(t[i], r) /\ Configs(q) = {} /\ \A j \in Results(t) : i = j
                        /\ t[i].accepted => c.gen = r.gen /\ Names(c, r)
      BY DEF Answers
    <2>1. i \in Nat /\ i + 1 \in Results(d) /\ t[i] = d[i + 1]
      BY <1>2
    <2>2. /\ Fits(d[i + 1], r) /\ Configs(q) = {} /\ \A j \in Results(d) : i + 1 = j
          /\ d[i + 1].accepted => c.gen = r.gen /\ Names(c, r)
      BY <2>1 DEF Channel, Answers
    <2>3. ASSUME NEW j \in Results(t) PROVE i = j
      <3>1. j \in Nat /\ j + 1 \in Results(d)
        BY <1>2
      <3>2. i + 1 = j + 1
        BY <2>2, <3>1
      <3> QED BY <2>1, <3>1, <3>2
    <2> QED BY <2>1, <2>2, <2>3
  <1>8. Agrees(c, w, t)
    <2>1. News(t) = {} => News(d) = {}
      BY <1>6
    <2> QED BY <2>1 DEF Channel, Agrees
  <1>9. Keys(w, r, t)
    <2> SUFFICES ASSUME NEW i \in Inputs(t), ~Follows(t[i], w)
                 PROVE  \E j \in News(t) : j < i /\ Names(t[i], r)
      BY DEF Keys
    <2>1. i \in Nat /\ i + 1 \in Inputs(d) /\ t[i] = d[i + 1]
      BY <1>3
    <2>2. PICK j \in News(d) : j < i + 1 /\ Names(d[i + 1], r)
      BY <2>1 DEF Channel, Keys
    <2>3. j - 1 \in News(t) /\ j - 1 < i
      BY <1>6, <2>1, <2>2
    <2> QED BY <2>1, <2>2, <2>3
  <1> QED BY <1>1, <1>7, <1>8, <1>9 DEF Channel

(* What is not an answer is added below, a key with the document of c.      *)
LEMMA ChannelSend ==
  ASSUME NEW c, NEW w, NEW r, NEW q, NEW d, NEW t, Grown(d, t),
         \A i \in Added(d, t) : /\ t[i].type # "RESULT"
                                /\ t[i].type = "INPUT" => t[i].rev = c.rev /\ t[i].doc = c.doc,
         Channel(c, w, r, q, d)
  PROVE  Channel(c, w, r, q, t)
  <1>1. Results(t) = Results(d) /\ \A i \in Results(d) : t[i] = d[i]
    BY DEF Results, Grown, Added
  <1>2. News(t) = News(d)
    BY <1>1 DEF News
  <1>3. Answers(c, r, q, t)
    BY <1>1 DEF Channel, Answers
  <1>4. Agrees(c, w, t)
    BY <1>2 DEF Channel, Agrees
  <1>5. Keys(w, r, t)
    <2> SUFFICES ASSUME NEW i \in Inputs(t)
                 PROVE  Follows(t[i], w) \/ \E j \in News(t) : j < i /\ Names(t[i], r)
      BY DEF Keys
    <2>1. CASE i \in DOMAIN d
      <3>1. i \in Inputs(d) /\ t[i] = d[i]
        BY <2>1 DEF Inputs, Grown
      <3> QED BY <1>2, <3>1 DEF Channel, Keys
    <2>2. CASE i \notin DOMAIN d
      <3>1. i \in Added(d, t) /\ t[i].type = "INPUT"
        BY <2>2 DEF Inputs, Added
      <3>2. t[i].rev = c.rev /\ t[i].doc = c.doc
        BY <3>1
      <3>3. CASE News(d) = {}
        BY <3>2, <3>3 DEF Channel, Agrees, Follows
      <3>4. CASE News(d) # {}
        <4>1. PICK j \in News(d) : TRUE
          BY <3>4
        <4>2. Names(c, r)
          BY <4>1 DEF News, Channel, Answers
        <4>3. Names(t[i], r)
          BY <3>2, <4>2 DEF Names
        <4>4. j < i
          BY <3>1, <4>1 DEF News, Results, Added, Grown
        <4> QED BY <1>2, <4>1, <4>3, <4>4
      <3> QED BY <3>3, <3>4
    <2> QED BY <2>1, <2>2
  <1> QED BY <1>3, <1>4, <1>5 DEF Channel

(* A reload that the compositor has not been sent leaves no trace.          *)
LEMMA ChannelUnsent ==
  ASSUME NEW c, NEW w, NEW r, NEW s, NEW q, NEW d, ~r.sent, Candidates(w, s),
         Channel(c, w, r, q, d)
  PROVE  Channel(c, w, s, q, d)
  <1>1. Results(d) = {} /\ News(d) = {}
    BY DEF Channel, Answers, Fits, News
  <1>2. \A i \in Configs(q) : q[i].id = 0
    BY DEF Channel, Commits
  <1>3. Commits(c, w, s, q)
    BY <1>2 DEF Channel, Commits
  <1>4. Answers(c, s, q, d)
    BY <1>1 DEF Answers
  <1>5. Keys(w, s, d)
    BY <1>1 DEF Channel, Keys
  <1> QED BY <1>3, <1>4, <1>5 DEF Channel

(* The candidate s of the reload r is sent, as the last document.           *)
LEMMA ChannelProgress ==
  ASSUME NEW c \in Compositor, NEW w \in Worker, NEW r \in Reload, NEW s \in Reload,
         NEW q \in Seq(UpPacket), NEW d \in Seq(Packet),
         ~r.sent, r # NoReload, s.sent, s.id = r.id, s.gen = r.gen, s.doc = r.doc,
         s.rev = IF r.doc = w.doc THEN w.rev ELSE w.rev + 1,
         Config(s.id, s) \in UpPacket, Channel(c, w, r, q, d)
  PROVE  Channel(c, w, s, Append(q, Config(s.id, s)), d)
  <1>1. c.rev \in Nat /\ w.rev \in Nat /\ s.rev \in Nat
    BY DEF Compositor, Worker, Reload
  <1>2. PICK k \in Seq(UpPacket) : k = Append(q, Config(s.id, s))
    BY AppendOne
  <1>3. /\ DOMAIN k = 1..(Len(q) + 1) /\ DOMAIN q = 1..Len(q) /\ Len(q) \in Nat
        /\ \A i \in 1..Len(q) : k[i] = q[i]
        /\ k[Len(q) + 1] = Config(s.id, s)
    BY <1>2, AppendOne
  <1>4. Configs(k) = Configs(q) \cup {Len(q) + 1}
    BY <1>3 DEF Configs, Config
  <1>5. \A i \in Configs(q) : k[i] = q[i] /\ i \in 1..Len(q) /\ q[i].rev \in Nat
    <2>1. TAKE i \in Configs(q)
    <2>2. q[i] \in UpPacket /\ q[i].type = "CONFIG" /\ i \in 1..Len(q)
      BY <1>3 DEF Configs
    <2> QED BY <1>3, <2>2, Packets
  <1>6. Results(d) = {} /\ News(d) = {}
    BY DEF Channel, Answers, Fits, News
  <1>7. \A i \in Configs(q) : q[i].id = 0
    BY DEF Channel, Commits
  <1>8. Follows(w, s)
    BY <1>1 DEF Follows
  <1>9. \A x : Follows(x, s) => Follows(x, Config(s.id, s))
    BY DEF Follows, Config
  <1>10. Follows(c, s)
    BY <1>1, <1>6, <1>8, FollowsOn DEF Channel, Agrees
  <1>11. \A i \in Configs(q) : Follows(q[i], s)
    BY <1>1, <1>5, <1>7, <1>8, FollowsOn DEF Channel, Commits
  <1>12. r.id > 0 /\ r.gen = w.gen + 1
    BY DEF Channel, Candidates
  <1>13. Commits(c, w, s, k)
    <2> SUFFICES ASSUME NEW i \in Configs(k)
                 PROVE  /\ Follows(c, k[i])
                        /\ \A j \in Configs(k) : i < j => Follows(k[i], k[j]) /\ k[i].id = 0
                        /\ k[i].id = 0 => k[i].gen = w.gen /\ Follows(k[i], w)
                        /\ k[i].id # 0 => /\ s.sent /\ k[i].id = s.id
                                          /\ Names(k[i], s) /\ k[i].gen = s.gen
      BY DEF Commits
    <2>1. CASE i \in Configs(q)
      <3>1. /\ Follows(c, q[i]) /\ q[i].id = 0 /\ q[i].gen = w.gen /\ Follows(q[i], w)
            /\ \A j \in Configs(q) : i < j => Follows(q[i], q[j])
        BY <1>7, <2>1 DEF Channel, Commits
      <3>2. ASSUME NEW j \in Configs(k), i < j PROVE Follows(k[i], k[j])
        <4>1. CASE j \in Configs(q)
          BY <1>5, <2>1, <3>1, <3>2, <4>1
        <4>2. CASE j = Len(q) + 1
          BY <1>3, <1>5, <1>9, <1>11, <2>1, <4>2
        <4> QED BY <1>4, <4>1, <4>2
      <3> QED BY <1>5, <2>1, <3>1, <3>2
    <2>2. CASE i = Len(q) + 1
      <3>1. \A j \in Configs(k) : ~(i < j)
        BY <1>3, <1>4, <1>5, <2>2
      <3>2. k[i] = Config(s.id, s)
        BY <1>3, <2>2
      <3>3. k[i].id = s.id /\ k[i].gen = s.gen /\ Names(k[i], s)
        BY <3>2 DEF Config, Names
      <3>4. k[i].id # 0
        BY <1>12, <3>3
      <3> QED BY <1>9, <1>10, <3>1, <3>2, <3>3, <3>4
    <2> QED BY <1>4, <2>1, <2>2
  <1>14. Answers(c, s, k, d)
    BY <1>6 DEF Answers
  <1>15. Candidates(w, s)
    BY <1>1, <1>12 DEF Candidates
  <1>16. Keys(w, s, d)
    BY <1>6 DEF Channel, Keys
  <1> QED BY <1>2, <1>13, <1>14, <1>15, <1>16 DEF Channel

(* The worker reads the answer, and commits the reload (v) or drops it.     *)
LEMMA ChannelAnswered ==
  ASSUME NEW c \in Compositor, NEW w \in Worker, NEW v \in Worker, NEW r \in Reload,
         NEW q, NEW d \in Seq(Packet), d # <<>>, Head(d).type = "RESULT",
         Channel(c, w, r, q, d),
         Head(d).accepted => /\ v.doc = r.doc /\ v.gen = r.gen
                             /\ v.rev = IF r.doc = w.doc THEN w.rev ELSE w.rev + 1,
         ~Head(d).accepted => v = w
  PROVE  Channel(c, v, NoReload, q, Tail(d))
  <1>1. PICK t \in Seq(Packet) : t = Tail(d)
    BY TakeHead
  <1>2. c.rev \in Nat /\ w.rev \in Nat /\ v.rev \in Nat /\ r.rev \in Nat
    BY DEF Compositor, Worker, Reload
  <1>3. 1 \in Results(d) /\ Head(d) = d[1]
    BY Moved DEF Results
  <1>4. /\ Fits(d[1], r) /\ Configs(q) = {} /\ \A j \in Results(d) : 1 = j
        /\ d[1].accepted => c.gen = r.gen /\ Names(c, r)
    BY <1>3 DEF Channel, Answers
  <1>5. Results(t) = {} /\ News(t) = {}
    <2>1. ASSUME NEW i \in Results(t) PROVE FALSE
      <3>1. i \in Nat /\ i + 1 \in Results(d) /\ i \in DOMAIN t
        BY <1>1, Moved DEF Results
      <3>2. i = 0 /\ DOMAIN t = 1..Len(t)
        BY <1>4, <3>1
      <3> QED BY <3>1, <3>2
    <2> QED BY <2>1 DEF News
  <1>6. \A i \in Inputs(t) : i + 1 \in Inputs(d) /\ t[i] = d[i + 1] /\ t[i].rev \in Nat
    <2>1. TAKE i \in Inputs(t)
    <2>2. t[i] \in Packet /\ t[i].type = "INPUT"
      BY DEF Inputs
    <2> QED BY <1>1, <2>2, Moved, Packets DEF Inputs
  <1>7. CASE d[1].accepted
    <2>1. /\ v.doc = r.doc /\ v.gen = r.gen
          /\ v.rev = IF r.doc = w.doc THEN w.rev ELSE w.rev + 1
      BY <1>3, <1>7
    <2>2. /\ r.rev <= w.rev + 1
          /\ r.doc = w.doc => r.rev <= w.rev
      BY <1>4 DEF Channel, Candidates, Fits
    <2>3. \A x : Names(x, r) => Follows(x, v)
      BY <1>2, <2>1, <2>2 DEF Names, Follows
    <2>4. Follows(w, v)
      BY <1>2, <2>1 DEF Follows
    <2>5. Agrees(c, v, t)
      BY <1>4, <1>7, <2>1, <2>3 DEF Agrees
    <2>6. Keys(v, NoReload, t)
      <3>1. ASSUME NEW i \in Inputs(t) PROVE Follows(t[i], v)
        <4>1. Follows(d[i + 1], w) \/ Names(d[i + 1], r)
          BY <1>6, <3>1 DEF Channel, Keys
        <4> QED BY <1>2, <1>6, <2>3, <2>4, <3>1, <4>1, FollowsOn
      <3> QED BY <3>1 DEF Keys
    <2> QED BY <1>1, <1>4, <1>5, <2>5, <2>6 DEF Channel, Commits, Answers, Candidates, NoReload
  <1>8. CASE ~d[1].accepted
    <2>1. v = w /\ News(d) = {}
      BY <1>3, <1>4, <1>8 DEF News
    <2>2. Agrees(c, v, t)
      BY <2>1 DEF Agrees, Channel
    <2>3. Keys(v, NoReload, t)
      BY <1>6, <2>1 DEF Keys, Channel
    <2> QED BY <1>1, <1>4, <1>5, <2>2, <2>3 DEF Channel, Commits, Answers, Candidates, NoReload
  <1> QED BY <1>7, <1>8

(* The compositor reads an operation.                                       *)
LEMMA ChannelReadUp ==
  ASSUME NEW c, NEW w, NEW r, NEW q \in Seq(UpPacket), NEW d, q # <<>>,
         Head(q).type # "CONFIG", Channel(c, w, r, q, d)
  PROVE  Channel(c, w, r, Tail(q), d)
  <1>1. PICK t \in Seq(UpPacket) : t = Tail(q)
    BY TakeHead
  <1>2. \A i \in Configs(t) : i \in Nat /\ i + 1 \in Configs(q) /\ t[i] = q[i + 1]
    BY <1>1, Moved DEF Configs
  <1>3. Commits(c, w, r, t)
    <2>1. \A i, j \in Configs(t) : i < j => i + 1 < j + 1
      BY <1>2
    <2> QED BY <1>2, <2>1 DEF Channel, Commits
  <1>4. Answers(c, r, t, d)
    BY <1>2 DEF Channel, Answers
  <1> QED BY <1>1, <1>3, <1>4 DEF Channel

(* The compositor takes a document (b holds it) or not (b is still c), and  *)
(* answers if it is a reload's.                                             *)
LEMMA ChannelTake ==
  ASSUME NEW c \in Compositor, NEW b \in Compositor, NEW w \in Worker, NEW r \in Reload,
         NEW q \in Seq(UpPacket), NEW d \in Seq(Packet), NEW t \in Seq(Packet),
         q # <<>>, NEW p \in UpPacket, p = Head(q), p.type = "CONFIG",
         NEW accepted \in BOOLEAN,
         accepted => b.doc = p.doc /\ b.rev = p.rev /\ b.gen = p.gen,
         ~accepted => b.doc = c.doc /\ b.rev = c.rev /\ b.gen = c.gen,
         Grown(d, t),
         \A i \in Added(d, t) : \/ t[i].type = "COMPLETION"
                                \/ p.id > 0 /\ i = Len(t) /\ t[i] = Result(p, accepted),
         p.id > 0 => Len(t) \in Added(d, t) /\ t[Len(t)] = Result(p, accepted),
         Channel(c, w, r, q, d)
  PROVE  Channel(b, w, r, Tail(q), t)
  <1>1. PICK k \in Seq(UpPacket) : k = Tail(q)
    BY TakeHead
  <1>2. \A i \in Configs(k) : i \in Nat /\ i + 1 \in Configs(q) /\ k[i] = q[i + 1] /\ 1 < i + 1
    <2>1. TAKE i \in Configs(k)
    <2>2. DOMAIN k = 1..Len(k) /\ i \in DOMAIN k
      BY DEF Configs
    <2>3. 1 < i + 1
      BY <2>2
    <2> QED BY <1>1, <2>3, Moved DEF Configs
  <1>3. 1 \in Configs(q) /\ p = q[1]
    BY Moved DEF Configs
  <1>4. /\ Follows(c, p)
        /\ \A j \in Configs(q) : 1 < j => Follows(p, q[j]) /\ p.id = 0
        /\ p.id = 0 => p.gen = w.gen /\ Follows(p, w)
        /\ p.id # 0 => r.sent /\ p.id = r.id /\ Names(p, r) /\ p.gen = r.gen
    BY <1>3 DEF Channel, Commits
  <1>5. Results(d) = {} /\ News(d) = {}
    BY <1>3 DEF Channel, Answers, News
  <1>6. /\ \A i \in Configs(k) : Follows(b, k[i])
        /\ accepted => \A x : Follows(p, x) <=> Follows(b, x)
        /\ ~accepted => \A x : Follows(c, x) <=> Follows(b, x)
    <2>1. accepted => \A x : Follows(p, x) <=> Follows(b, x)
      BY DEF Follows
    <2>2. ~accepted => \A x : Follows(c, x) <=> Follows(b, x)
      BY DEF Follows
    <2>3. \A i \in Configs(k) : Follows(p, k[i]) /\ Follows(c, k[i])
      BY <1>2, <1>4 DEF Channel, Commits
    <2> QED BY <2>1, <2>2, <2>3
  <1>7. Commits(b, w, r, k)
    <2> SUFFICES ASSUME NEW i \in Configs(k)
                 PROVE  /\ \A j \in Configs(k) : i < j => Follows(k[i], k[j]) /\ k[i].id = 0
                        /\ k[i].id = 0 => k[i].gen = w.gen /\ Follows(k[i], w)
                        /\ k[i].id # 0 => /\ r.sent /\ k[i].id = r.id
                                          /\ Names(k[i], r) /\ k[i].gen = r.gen
      BY <1>6 DEF Commits
    <2>1. i \in Nat /\ i + 1 \in Configs(q) /\ k[i] = q[i + 1]
      BY <1>2
    <2>2. \A j \in Configs(k) : i < j => i + 1 < j + 1
      BY <1>2
    <2> QED BY <1>2, <2>1, <2>2 DEF Channel, Commits
  <1>8. p.id > 0 => Configs(k) = {}
    BY <1>2, <1>4
  <1>9. p.id \in Nat
    BY Packets, ConfigAssumption DEF Ids, StartupId, ConfigAssumption
  <1>10. Candidates(w, r)
    BY DEF Channel
  <1>11. Inputs(t) = Inputs(d) /\ \A i \in Inputs(d) : t[i] = d[i]
    <2>1. \A i \in Added(d, t) : t[i].type # "INPUT"
      BY DEF Result
    <2> QED BY <2>1 DEF Inputs, Grown, Added
  <1>12. Keys(w, r, t)
    <2>1. \A i \in Inputs(d) : Follows(d[i], w)
      BY <1>5 DEF Channel, Keys
    <2> QED BY <1>11, <2>1 DEF Keys
  <1>13. CASE p.id = 0
    <2>1. Results(t) = {} /\ News(t) = {}
      <3>1. \A i \in Added(d, t) : t[i].type = "COMPLETION"
        BY <1>13
      <3> QED BY <1>5, <3>1 DEF Results, News, Grown, Added
    <2>2. Answers(b, r, k, t)
      BY <2>1 DEF Answers
    <2>3. Agrees(b, w, t)
      <3>1. c.gen = w.gen /\ Follows(c, w)
        BY <1>5 DEF Channel, Agrees
      <3>2. Follows(b, w)
        BY <1>4, <1>6, <1>13, <3>1
      <3>3. b.gen = w.gen
        BY <1>4, <1>13, <3>1
      <3> QED BY <3>2, <3>3 DEF Agrees
    <2> QED BY <1>1, <1>7, <1>10, <1>12, <2>2, <2>3 DEF Channel
  <1>14. CASE p.id > 0
    <2>1. /\ Results(t) = {Len(t)} /\ t[Len(t)] = Result(p, accepted)
      <3>1. Len(t) \in Added(d, t) /\ t[Len(t)] = Result(p, accepted)
        BY <1>14
      <3>2. Len(t) \in Results(t)
        BY <3>1 DEF Results, Added, Result
      <3>3. \A i \in Results(t) : i = Len(t)
        BY <1>5 DEF Results, Added, Grown
      <3> QED BY <3>1, <3>2, <3>3
    <2>2. /\ t[Len(t)].id = p.id /\ t[Len(t)].rev = p.rev /\ t[Len(t)].gen = p.gen
          /\ t[Len(t)].accepted = accepted
      BY <2>1 DEF Result
    <2>3. r.sent /\ p.id = r.id /\ Names(p, r) /\ p.gen = r.gen /\ r # NoReload
      BY <1>4, <1>14 DEF NoReload
    <2>4. Fits(t[Len(t)], r)
      BY <2>2, <2>3 DEF Fits, Names
    <2>5. accepted => b.gen = r.gen /\ Names(b, r)
      BY <2>3 DEF Names
    <2>6. Answers(b, r, k, t)
      BY <1>8, <1>14, <2>1, <2>2, <2>4, <2>5 DEF Answers
    <2>7. Agrees(b, w, t)
      <3>1. CASE accepted
        <4>1. Len(t) \in News(t)
          BY <2>1, <2>2, <3>1 DEF News
        <4> QED BY <4>1 DEF Agrees
      <3>2. CASE ~accepted
        BY <1>5, <1>6, <3>2 DEF Channel, Agrees
      <3> QED BY <3>1, <3>2
    <2> QED BY <1>1, <1>7, <1>10, <1>12, <2>6, <2>7 DEF Channel
  <1> QED BY <1>9, <1>13, <1>14

(* Nothing underway is outdated when it arrives.                            *)
LEMMA NeverOutdated ==
  ASSUME TypeOK, Channel(compositor, worker, pending, up, down), up # <<>>,
         Head(up).type = "CONFIG"
  PROVE  Candidate(Head(up))
  <1>1. up \in Seq(UpPacket) /\ compositor \in Compositor /\ worker \in Worker /\ pending \in Reload
    BY DEF TypeOK
  <1>2. PICK p \in UpPacket : p = Head(up) /\ p.type = "CONFIG"
    BY <1>1, TakeHead
  <1>3. 1 \in Configs(up) /\ p = up[1]
    BY <1>1, <1>2, Moved DEF Configs
  <1>4. /\ Follows(compositor, p)
        /\ p.id = 0 => p.gen = worker.gen /\ Follows(p, worker)
        /\ p.id # 0 => /\ pending.sent /\ p.id = pending.id
                       /\ Names(p, pending) /\ p.gen = pending.gen
    BY <1>3 DEF Channel, Commits
  <1>5. News(down) = {}
    BY <1>3 DEF Channel, Answers, News
  <1>6. compositor.gen = worker.gen
    BY <1>5 DEF Channel, Agrees
  <1>7. p.id # 0 => p.gen = worker.gen + 1
    BY <1>4 DEF Channel, Candidates, NoReload
  <1>8. compositor.gen \in Nat /\ compositor.rev \in Nat /\ p.rev \in Nat
    BY <1>1, <1>2, Packets DEF Compositor
  <1>9. p.rev >= compositor.rev /\ (p.rev = compositor.rev => p.doc = compositor.doc)
    BY <1>4, <1>8 DEF Follows
  <1>10. IF p.id = 0 THEN p.gen = compositor.gen ELSE p.gen > compositor.gen
    BY <1>4, <1>6, <1>7, <1>8
  <1> QED BY <1>2, <1>9, <1>10 DEF Candidate

(* The sections of a compositor stand as its document says.                 *)
Whole(c) ==
  c.st = "live" => /\ c.boot = c.doc
                   /\ \A s \in Sections : c.applied[s] = Applied(s, c.doc)

LEMMA WholeMeans == AllOrNothing <=> Whole(compositor)
  BY DEF AllOrNothing, Whole

LEMMA WholeMeansNext == AllOrNothing' <=> Whole(compositor')
  BY DEF AllOrNothing, Whole

LEMMA AcceptedWhole ==
  ASSUME TypeOK, Whole(compositor), compositor.st = "live", NEW p \in UpPacket,
         p.type = "CONFIG", Candidate(p)
  PROVE  /\ Whole(Accepted(p)) /\ Accepted(p).st = "live"
         /\ Accepted(p).doc = p.doc /\ Accepted(p).rev = p.rev /\ Accepted(p).gen = p.gen
  <1>1. compositor \in Compositor /\ p.rev \in Nat /\ compositor.rev \in Nat
    BY Packets DEF TypeOK, Compositor
  <1> DEFINE m == [s \in Sections |-> Applied(s, p.doc)]
             newer == p.rev > compositor.rev
             ends == p.gen > compositor.gen
  <1>2. \A s \in Sections : m[s] = Applied(s, p.doc)
    OBVIOUS
  <1>3. Accepted(p) = [compositor EXCEPT
          !.doc = p.doc, !.rev = p.rev, !.gen = p.gen,
          !.boot = IF newer THEN p.doc ELSE @,
          !.applied = IF newer THEN m ELSE @,
          !.overlay = FALSE,
          !.override = @ /\ ~ends,
          !.running = IF ends /\ @ = "tween" THEN "none" ELSE @]
    BY DEF Accepted
  <1> HIDE DEF m, newer, ends
  <1>4. /\ Accepted(p).st = "live" /\ Accepted(p).doc = p.doc /\ Accepted(p).rev = p.rev
        /\ Accepted(p).gen = p.gen
        /\ Accepted(p).boot = IF newer THEN p.doc ELSE compositor.boot
        /\ Accepted(p).applied = IF newer THEN m ELSE compositor.applied
    BY <1>1, <1>3 DEF Compositor
  <1>5. ~newer => p.doc = compositor.doc
    BY <1>1 DEF Candidate, newer
  <1>6. Whole(Accepted(p))
    BY <1>2, <1>4, <1>5 DEF Whole
  <1> QED BY <1>4, <1>6

LEMMA RollbackWhole ==
  ASSUME TypeOK, Whole(compositor), compositor.st = "live", NEW p \in UpPacket,
         p.type = "CONFIG", NEW k \in DOMAIN ApplyOrder, NEW broken \in {{}, Restored(p)},
         ApplyOrder[k] = "workspaces" => ~Same(p)
  PROVE  /\ Whole(Rollback(p, k, broken)) /\ Rollback(p, k, broken).st # "refused"
         /\ Rollback(p, k, broken).doc = compositor.doc
         /\ Rollback(p, k, broken).rev = compositor.rev
         /\ Rollback(p, k, broken).gen = compositor.gen
  <1>1. compositor \in Compositor
    BY DEF TypeOK
  <1>2. /\ compositor.boot = compositor.doc
        /\ \A s \in Sections : compositor.applied[s] = Applied(s, compositor.doc)
    BY DEF Whole
  <1> DEFINE again(s) == Applied(s, IF s = "protocols" THEN compositor.boot ELSE compositor.doc)
             m == [s \in Sections |-> IF s \in broken THEN Mixed
                                      ELSE IF s \in Restored(p) THEN again(s)
                                      ELSE HalfApplied(p, k)[s]]
  <1>3. \A s \in Sections : again(s) = Applied(s, compositor.doc)
    BY <1>2
  <1> HIDE DEF again
  <1>4. ASSUME NEW s \in Sections, s \notin Restored(p)
        PROVE  HalfApplied(p, k)[s] = Applied(s, compositor.doc)
    <2>1. s = "workspaces" /\ Same(p)
      BY <1>4 DEF Restored
    <2>2. ApplyOrder[k] # s
      BY <2>1
    <2>3. HalfApplied(p, k)[s] = compositor.applied[s]
      BY <2>1, <2>2, Zenon DEF HalfApplied
    <2> QED BY <1>2, <2>3
  <1>5. broken = {} => \A s \in Sections : m[s] = Applied(s, compositor.doc)
    BY <1>3, <1>4
  <1>6. Rollback(p, k, broken) =
          [compositor EXCEPT !.applied = m, !.overlay = compositor.override,
                             !.st = IF broken # {} \/ p.id = 0 THEN "unapplied" ELSE "live"]
    BY DEF Rollback, again
  <1> HIDE DEF m
  <1>7. /\ Rollback(p, k, broken).doc = compositor.doc
        /\ Rollback(p, k, broken).boot = compositor.boot
        /\ Rollback(p, k, broken).rev = compositor.rev
        /\ Rollback(p, k, broken).gen = compositor.gen
        /\ Rollback(p, k, broken).applied = m
        /\ Rollback(p, k, broken).st = IF broken # {} \/ p.id = 0 THEN "unapplied" ELSE "live"
    BY <1>1, <1>6 DEF Compositor
  <1>8. Whole(Rollback(p, k, broken))
    BY <1>2, <1>5, <1>7 DEF Whole
  <1> QED BY <1>7, <1>8

(* What the channel's invariant reads of the compositor.                    *)
SameDocument(c, b) == b.doc = c.doc /\ b.rev = c.rev /\ b.gen = c.gen

LEMMA ChannelSame ==
  ASSUME NEW c, NEW b, SameDocument(c, b), NEW w, NEW r, NEW q, NEW d, Channel(c, w, r, q, d)
  PROVE  Channel(b, w, r, q, d)
  <1>1. \A x : Follows(c, x) <=> Follows(b, x)
    BY DEF SameDocument, Follows
  <1>2. \A x : Names(c, x) <=> Names(b, x)
    BY DEF SameDocument, Names
  <1>3. Commits(b, w, r, q)
    BY <1>1 DEF Channel, Commits
  <1>4. Answers(b, r, q, d)
    BY <1>2 DEF Channel, Answers, SameDocument
  <1>5. Agrees(b, w, d)
    BY <1>1 DEF Channel, Agrees, SameDocument
  <1> QED BY <1>3, <1>4, <1>5 DEF Channel

LEMMA LuaKeeps ==
  ASSUME TypeOK, NEW w \in Worker, NEW r \in Reload, NEW d \in Seq(Packet),
         NEW o \in {"none", "plain", "tween"},
         Channel(compositor, w, r, up, d), LuaRuns(w, r, o)
  PROVE  Channel(compositor, worker', r, up', d)
  <1>1. compositor \in Compositor /\ up \in Seq(UpPacket)
    BY DEF TypeOK
  <1>2. /\ worker' \in Worker /\ worker'.gen = w.gen
        /\ w.rev <= worker'.rev /\ worker'.rev <= w.rev + 1
        /\ worker'.rev = w.rev => worker'.doc = w.doc
        /\ up' \in Seq(UpPacket) /\ Grown(up, up')
        /\ \A i \in Added(up, up') : up'[i].type = "CONFIG" =>
              i = Len(up) + 1 /\ ~r.sent /\ up'[i] = Config(0, worker')
    BY <1>1, LuaStep DEF SendsDocument
  <1> QED BY <1>1, <1>2, ChannelLua

LEMMA StageKeeps ==
  ASSUME TypeOK, NEW d \in Seq(Packet), Channel(compositor, worker, pending, up, d), ~Staged,
         NEW id \in Ids, id > 0, NEW retry \in BOOLEAN, StageReload(id, retry)
  PROVE  Channel(compositor, worker, pending', up, d)
  <1>1. ~pending.sent
    BY DEF Staged, NoReload
  <1>2. pending'.id = id /\ pending'.gen = worker.gen + 1 /\ ~pending'.sent
    BY DEF StageReload
  <1>3. Candidates(worker, pending')
    BY <1>2 DEF Candidates
  <1> QED BY <1>1, <1>3, ChannelUnsent

LEMMA HandlesKeeps ==
  ASSUME TypeOK, NEW d \in Seq(Packet), Channel(compositor, worker, pending, up, d), ~Staged,
         NEW p \in Stimulus, Handles(p)
  PROVE  Channel(compositor, worker', pending', up', d)
  <1>1. /\ worker \in Worker /\ pending \in Reload /\ operation \in {"none", "plain", "tween"}
    BY DEF TypeOK
  <1>2. p.n \in Ids /\ p.n > 0
    BY ConfigAssumption DEF Stimulus, Numbers, Ids, StartupId, ConfigAssumption
  <1>3. CASE LuaRuns(worker, pending, operation) /\ UNCHANGED pending
    BY <1>1, <1>3, LuaKeeps
  <1>4. CASE StageReload(p.n, FALSE) /\ UNCHANGED <<worker, operation, up>>
    BY <1>2, <1>4, StageKeeps
  <1> QED BY <1>3, <1>4 DEF Handles, HandlesRequest, HandlesEvent

(* A reload that was not sent is given up, one that was answered is         *)
(* committed or dropped.                                                    *)
LEMMA GivenUpKeeps ==
  ASSUME TypeOK, Channel(compositor, worker, pending, up, down), ~pending.sent,
         ReloadFinish(FALSE)
  PROVE  Channel(compositor, worker', pending', up', down)
  <1>1. /\ worker \in Worker /\ operation \in {"none", "plain", "tween"} /\ down \in Seq(Packet)
    BY DEF TypeOK
  <1>2. Candidates(worker, NoReload)
    BY DEF Candidates, NoReload
  <1>3. Channel(compositor, worker, NoReload, up, down)
    BY <1>2, ChannelUnsent
  <1>4. pending' = NoReload /\ LuaRuns(worker, NoReload, operation)
    BY DEF ReloadFinish
  <1> QED BY <1>1, <1>3, <1>4, NoneStaged, LuaKeeps

LEMMA AnsweredKeeps ==
  ASSUME TypeOK, Channel(compositor, worker, pending, up, down), WorkerResult
  PROVE  Channel(compositor, worker', pending', up', down')
  <1>1. /\ worker \in Worker /\ operation \in {"none", "plain", "tween"} /\ down \in Seq(Packet)
        /\ pending \in Reload /\ compositor \in Compositor
    BY DEF TypeOK
  <1>2. /\ down # <<>> /\ down' = Tail(down) /\ Head(down).type = "RESULT"
        /\ down' \in Seq(Packet)
    BY ReadType DEF WorkerResult
  <1>3. PICK v \in Worker, o \in {"none", "plain", "tween"} :
          /\ LuaRuns(v, NoReload, o)
          /\ Head(down).accepted => /\ v.doc = pending.doc /\ v.gen = pending.gen
                                    /\ v.rev = IF pending.doc = worker.doc THEN worker.rev
                                               ELSE worker.rev + 1
          /\ ~Head(down).accepted => v = worker
    <2>1. CASE Head(down).accepted
      <3>1. LuaRuns(FinishLoad, NoReload, Orphan(operation))
        BY <2>1 DEF WorkerResult, ReloadFinish
      <3>2. /\ FinishLoad.doc = pending.doc /\ FinishLoad.gen = pending.gen
            /\ FinishLoad.rev = IF pending.doc = worker.doc THEN worker.rev ELSE worker.rev + 1
        BY DEF FinishLoad
      <3> QED BY <2>1, <3>1, <3>2, FinishType
    <2>2. CASE ~Head(down).accepted
      <3>1. LuaRuns(worker, NoReload, operation)
        BY <2>2 DEF WorkerResult, ReloadFinish
      <3> QED BY <1>1, <2>2, <3>1
    <2> QED BY <2>1, <2>2
  <1>4. Channel(compositor, v, NoReload, up, Tail(down))
    BY <1>1, <1>2, <1>3, ChannelAnswered
  <1>5. pending' = NoReload
    BY DEF WorkerResult, ReloadFinish
  <1> QED BY <1>2, <1>3, <1>4, <1>5, NoneStaged, LuaKeeps

(* The compositor reads a document: it takes it, and never refuses it, or   *)
(* rolls it back.                                                           *)
LEMMA TakesKeeps ==
  ASSUME TypeOK, Whole(compositor), Channel(compositor, worker, pending, up, down),
         CompositorTakes
  PROVE  /\ Whole(compositor') /\ compositor'.st = "live"
         /\ Channel(compositor', worker, pending, up', down')
  <1>1. /\ worker \in Worker /\ down \in Seq(Packet) /\ up \in Seq(UpPacket)
        /\ pending \in Reload /\ compositor \in Compositor
    BY DEF TypeOK
  <1>2. /\ up # <<>> /\ up' = Tail(up) /\ compositor.st = "live"
        /\ Head(up) \in UpPacket /\ Head(up).type = "CONFIG"
    BY ReadUpType DEF CompositorTakes
  <1>3. PICK p \in UpPacket : p = Head(up) /\ p.type = "CONFIG"
    BY <1>2
  <1>4. Candidate(p)
    BY <1>2, <1>3, NeverOutdated
  <1>5. /\ compositor' = Accepted(p)
        /\ down' = (down \o IF compositor'.running # compositor.running
                            THEN <<[type |-> "COMPLETION"]>> ELSE <<>>)
                   \o Answer(p, TRUE)
    <2>1. (Candidate(p)) = TRUE
      BY <1>4 DEF Candidate
    <2> QED BY <1>3, <2>1 DEF CompositorTakes
  <1>6. /\ Whole(Accepted(p)) /\ Accepted(p).st = "live" /\ Accepted(p) \in Compositor
        /\ Accepted(p).doc = p.doc /\ Accepted(p).rev = p.rev /\ Accepted(p).gen = p.gen
    BY <1>2, <1>3, <1>4, AcceptedWhole, AcceptedType
  <1>7. (compositor'.running # compositor.running) \in BOOLEAN
    OBVIOUS
  <1>8. /\ down' \in Seq(Packet) /\ Grown(down, down')
        /\ \A i \in Added(down, down') :
              \/ down'[i].type = "COMPLETION"
              \/ p.id > 0 /\ i = Len(down') /\ down'[i] = Result(p, TRUE)
        /\ p.id > 0 => Len(down') \in Added(down, down') /\ down'[Len(down')] = Result(p, TRUE)
    BY <1>1, <1>3, <1>5, <1>7, AnswerStep
  <1>9. Channel(compositor', worker, pending, Tail(up), down')
    <2>1. /\ compositor' \in Compositor
          /\ compositor'.doc = p.doc /\ compositor'.rev = p.rev /\ compositor'.gen = p.gen
      BY <1>5, <1>6
    <2> QED BY <1>1, <1>2, <1>3, <1>8, <2>1, ChannelTake
  <1> QED BY <1>2, <1>5, <1>6, <1>9

LEMMA RollsBackKeeps ==
  ASSUME TypeOK, Whole(compositor), Channel(compositor, worker, pending, up, down),
         CompositorRollsBack
  PROVE  /\ Whole(compositor') /\ compositor'.st # "refused"
         /\ Channel(compositor', worker, pending, up', down')
  <1>1. /\ worker \in Worker /\ down \in Seq(Packet) /\ up \in Seq(UpPacket)
        /\ pending \in Reload /\ compositor \in Compositor
    BY DEF TypeOK
  <1>2. /\ up # <<>> /\ up' = Tail(up) /\ compositor.st = "live"
        /\ Head(up) \in UpPacket /\ Head(up).type = "CONFIG"
    BY ReadUpType DEF CompositorRollsBack
  <1>3. PICK p \in UpPacket : p = Head(up) /\ p.type = "CONFIG"
    BY <1>2
  <1>4. PICK k \in DOMAIN ApplyOrder, broken \in {{}, Restored(p)} :
          compositor' = Rollback(p, k, broken) /\ (ApplyOrder[k] = "workspaces" => ~Same(p))
    BY <1>3 DEF CompositorRollsBack
  <1>5. /\ Whole(compositor') /\ compositor'.st # "refused" /\ compositor' \in Compositor
        /\ compositor'.doc = compositor.doc /\ compositor'.rev = compositor.rev
        /\ compositor'.gen = compositor.gen
    BY <1>2, <1>3, <1>4, RollbackWhole, RollbackType
  <1>6. down' = (down \o IF FALSE THEN <<[type |-> "COMPLETION"]>> ELSE <<>>) \o Answer(p, FALSE)
    <2>1. down \o <<>> = down
      BY <1>1
    <2> QED BY <1>3, <2>1 DEF CompositorRollsBack
  <1>7. /\ down' \in Seq(Packet) /\ Grown(down, down')
        /\ \A i \in Added(down, down') :
              \/ down'[i].type = "COMPLETION"
              \/ p.id > 0 /\ i = Len(down') /\ down'[i] = Result(p, FALSE)
        /\ p.id > 0 => Len(down') \in Added(down, down') /\ down'[Len(down')] = Result(p, FALSE)
    BY <1>1, <1>3, <1>6, AnswerStep
  <1>8. Channel(compositor', worker, pending, Tail(up), down')
    BY <1>1, <1>2, <1>3, <1>5, <1>7, ChannelTake
  <1> QED BY <1>2, <1>5, <1>8

(* Reading and sending what carries no document.                            *)
LEMMA ReadsKeeps ==
  ASSUME TypeOK, Channel(compositor, worker, pending, up, down), NEW type, type # "RESULT",
         WorkerReads(type)
  PROVE  down' \in Seq(Packet) /\ Channel(compositor, worker, pending, up, down')
  <1>1. down \in Seq(Packet)
    BY DEF TypeOK
  <1>2. down # <<>> /\ down' = Tail(down) /\ Head(down).type = type /\ down' \in Seq(Packet)
    BY ReadType
  <1> QED BY <1>1, <1>2, ChannelRead

LEMMA SendsKeeps ==
  ASSUME TypeOK, Channel(compositor, worker, pending, up, down), NEW p \in Packet,
         p.type # "RESULT",
         p.type = "INPUT" => p.rev = compositor.rev /\ p.doc = compositor.doc,
         Sends(p)
  PROVE  Channel(compositor, worker, pending, up, down')
  <1>1. /\ DOMAIN down' = 1..(Len(down) + 1) /\ Len(down') = Len(down) + 1
        /\ DOMAIN down = 1..Len(down) /\ Len(down) \in Nat
        /\ \A i \in 1..Len(down) : down'[i] = down[i]
        /\ down'[Len(down) + 1] = p
    BY AppendOne DEF Sends, TypeOK
  <1>2. Grown(down, down') /\ Added(down, down') = {Len(down) + 1}
    BY <1>1 DEF Grown, Added
  <1> QED BY <1>1, <1>2, ChannelSend

LEMMA ProgressKeeps ==
  ASSUME TypeOK, Channel(compositor, worker, pending, up, down), ReloadProgress
  PROVE  Channel(compositor, worker, pending', up', down)
  <1>1. /\ worker \in Worker /\ down \in Seq(Packet) /\ up \in Seq(UpPacket)
        /\ pending \in Reload /\ compositor \in Compositor
    BY DEF TypeOK
  <1>2. CandidateRevision \in Nat
    BY <1>1 DEF CandidateRevision, Worker
  <1>3. pending' \in Reload
    BY <1>1, <1>2 DEF ReloadProgress, Reload
  <1>4. /\ pending'.sent /\ pending'.id = pending.id /\ pending'.gen = pending.gen
        /\ pending'.doc = pending.doc
        /\ pending'.rev = IF pending.doc = worker.doc THEN worker.rev ELSE worker.rev + 1
    BY <1>1 DEF ReloadProgress, CandidateRevision, Reload
  <1>5. Config(pending'.id, pending') \in UpPacket
    BY <1>3 DEF Config, UpPacket, Reload
  <1>6. up' = Append(up, Config(pending'.id, pending')) /\ ~pending.sent /\ pending # NoReload
    BY <1>4 DEF ReloadProgress, MayProgress, Staged
  <1> QED BY <1>1, <1>3, <1>4, <1>5, <1>6, ChannelProgress

LEMMA InitIInv == Init => IInv
  <1> SUFFICES ASSUME Init PROVE IInv
    OBVIOUS
  <1>1. up = <<>> /\ down = <<>> /\ pending = NoReload
    BY DEF Init
  <1>2. Configs(up) = {} /\ Results(down) = {} /\ Inputs(down) = {}
    BY <1>1 DEF Configs, Results, Inputs
  <1>3. Candidates(worker, pending)
    BY <1>1 DEF Candidates, NoReload
  <1>4. Agrees(compositor, worker, down)
    BY DEF Init, Agrees, Follows
  <1>5. Channel(compositor, worker, pending, up, down)
    BY <1>2, <1>3, <1>4 DEF Channel, Commits, Answers, Keys
  <1>6. AllOrNothing
    BY DEF Init, AllOrNothing, Applied, Layout
  <1> QED BY <1>5, <1>6 DEF IInv, NeverStale, Init

LEMMA IInvStep == IInv /\ TypeOK /\ [Next]_vars => IInv'
  <1> SUFFICES ASSUME IInv, TypeOK, [Next]_vars PROVE IInv'
    OBVIOUS
  <1>1. /\ worker \in Worker /\ compositor \in Compositor /\ pending \in Reload
        /\ deferred \in Seq(Stimulus) /\ operation \in {"none", "plain", "tween"}
        /\ down \in Seq(Packet) /\ up \in Seq(UpPacket) /\ sent \in Nat
    BY DEF TypeOK, Stimulus
  <1>2. /\ Whole(compositor) /\ compositor.st # "refused"
        /\ worker.up => Channel(compositor, worker, pending, up, down)
    BY WholeMeans DEF IInv, NeverStale
  <1>3. ASSUME Whole(compositor'), compositor'.st # "refused",
               Channel(compositor', worker', pending', up', down')
        PROVE  IInv'
    BY <1>3, WholeMeansNext DEF IInv, NeverStale
  <1>4. ASSUME UNCHANGED compositor, Channel(compositor, worker', pending', up', down')
        PROVE  IInv'
    BY <1>2, <1>3, <1>4
  <1>5. ASSUME NEW type, type # "RESULT", WorkerReads(type)
        PROVE  /\ worker.up /\ down' \in Seq(Packet)
               /\ Channel(compositor, worker, pending, up, down')
    BY <1>2, <1>5, ReadType, ReadsKeeps
  <1>6. CASE RunsCallbacks
    <2>1. /\ worker.up /\ LuaRuns(worker, pending, operation)
          /\ UNCHANGED <<pending, compositor, down>>
      BY <1>6 DEF RunsCallbacks, Running
    <2>2. Channel(compositor, worker', pending, up', down)
      BY <1>1, <1>2, <2>1, LuaKeeps
    <2> QED BY <1>4, <2>1, <2>2
  <1>7. CASE WorkerHandles
    <2>1. PICK type \in {"EVENT", "REQUEST"} : WorkerReads(type)
      BY <1>7 DEF WorkerHandles
    <2>2. Head(down) \in Stimulus /\ ~Staged /\ Handles(Head(down)) /\ UNCHANGED compositor
      BY <1>7, <2>1, ReadType, Packets DEF WorkerHandles, MustDefer
    <2>3. down' \in Seq(Packet) /\ Channel(compositor, worker, pending, up, down')
      BY <1>5, <2>1
    <2>4. Channel(compositor, worker', pending', up', down')
      BY <2>2, <2>3, HandlesKeeps
    <2> QED BY <1>4, <2>2, <2>4
  <1>8. CASE WorkerDefers
    <2>1. PICK type \in {"EVENT", "REQUEST"} : WorkerReads(type)
      BY <1>8 DEF WorkerDefers
    <2> QED BY <1>4, <1>5, <1>8, <2>1 DEF WorkerDefers
  <1>9. CASE WorkerDispatchesDeferred
    <2>1. /\ worker.up /\ ~Staged /\ deferred # <<>> /\ Handles(Head(deferred))
          /\ UNCHANGED <<compositor, down>>
      BY <1>9 DEF WorkerDispatchesDeferred, Running
    <2>2. Head(deferred) \in Stimulus
      BY <1>1, <2>1, TakeHead
    <2>3. Channel(compositor, worker', pending', up', down)
      BY <1>1, <1>2, <2>1, <2>2, HandlesKeeps
    <2> QED BY <1>4, <2>1, <2>3
  <1>10. CASE WorkerCompletes
    <2>1. /\ WorkerReads("COMPLETION") /\ LuaRuns(worker, pending, "none")
          /\ UNCHANGED <<pending, compositor>>
      BY <1>10 DEF WorkerCompletes
    <2>2. down' \in Seq(Packet) /\ Channel(compositor, worker, pending, up, down')
      BY <1>5, <2>1
    <2>3. Channel(compositor, worker', pending, up', down')
      BY <1>1, <2>1, <2>2, LuaKeeps
    <2> QED BY <1>4, <2>1, <2>3
  <1>11. CASE WorkerInput
    BY <1>4, <1>5, <1>11 DEF WorkerInput
  <1>12. CASE WorkerResult
    <2>1. worker.up /\ UNCHANGED compositor
      BY <1>12, ReadType DEF WorkerResult, ReloadFinish
    <2> QED BY <1>2, <1>4, <1>12, <2>1, AnsweredKeeps
  <1>13. CASE ReloadProgress
    <2>1. worker.up /\ UNCHANGED <<compositor, worker, down>>
      BY <1>13 DEF ReloadProgress, Running
    <2> QED BY <1>2, <1>4, <1>13, <2>1, ProgressKeeps
  <1>14. CASE ReloadTimesOut
    <2>1. /\ worker.up /\ ~pending.sent /\ ReloadFinish(FALSE) /\ UNCHANGED <<compositor, down>>
      BY <1>14 DEF ReloadTimesOut, Running, MayGiveUp, ReloadFinish
    <2> QED BY <1>2, <1>4, <2>1, GivenUpKeeps
  <1>15. CASE WorkerOverflows \/ ReloadUnanswered
    <2>1. ~worker'.up /\ UNCHANGED compositor
      BY <1>1, <1>15 DEF WorkerOverflows, ReloadUnanswered, Worker
    <2> QED BY <1>2, <2>1, WholeMeansNext DEF IInv, NeverStale
  <1>16. CASE StartupLoads
    <2>1. worker.up /\ UNCHANGED <<compositor, down>>
      BY <1>16 DEF StartupLoads, Running
    <2>2. CASE UNCHANGED <<worker, pending, up>>
      BY <1>2, <1>4, <2>1, <2>2
    <2>3. CASE ~Staged /\ StageReload(StartupId, startup = "user") /\ UNCHANGED <<worker, up>>
      <3>1. StartupId \in Ids /\ StartupId > 0 /\ (startup = "user") \in BOOLEAN
        BY ConfigAssumption DEF StartupId, Ids, ConfigAssumption
      <3>2. Channel(compositor, worker, pending', up, down)
        BY <1>1, <1>2, <2>1, <2>3, <3>1, StageKeeps
      <3> QED BY <1>4, <2>1, <2>3, <3>2
    <2>4. CASE LuaRuns(worker, pending, operation) /\ UNCHANGED pending
      <3>1. Channel(compositor, worker', pending, up', down)
        BY <1>1, <1>2, <2>1, <2>4, LuaKeeps
      <3> QED BY <1>4, <2>1, <2>4, <3>1
    <2> QED BY <1>16, <2>2, <2>3, <2>4 DEF StartupLoads
  <1>17. ASSUME NEW p \in Packet, p.type # "RESULT",
                p.type = "INPUT" => p.rev = compositor.rev /\ p.doc = compositor.doc,
                Sends(p), worker.up
         PROVE  Channel(compositor, worker, pending, up, down')
    BY <1>2, <1>17, SendsKeeps
  <1>18. CASE CompositorEvent \/ CompositorRequest
    <2>1. PICK type \in {"EVENT", "REQUEST"} : Sends([type |-> type, n |-> sent + 1])
      BY <1>18 DEF CompositorEvent, CompositorRequest
    <2>2. worker.up /\ sent < Stimuli /\ UNCHANGED <<worker, pending, compositor, up>>
      BY <1>18 DEF CompositorEvent, CompositorRequest, Running
    <2>3. [type |-> type, n |-> sent + 1] \in Packet
      BY <1>1, <2>2, ConfigAssumption DEF Packet, Numbers, ConfigAssumption
    <2>4. Channel(compositor, worker, pending, up, down')
      BY <1>17, <2>1, <2>2, <2>3
    <2> QED BY <1>4, <2>2, <2>4
  <1>19. CASE CompositorInput
    <2>1. [type |-> "INPUT", rev |-> compositor.rev, doc |-> compositor.doc] \in Packet
      BY <1>1 DEF Packet, Compositor
    <2>2. worker.up /\ UNCHANGED <<worker, pending, compositor, up>>
      BY <1>19 DEF CompositorInput, Running
    <2>3. Channel(compositor, worker, pending, up, down')
      BY <1>17, <1>19, <2>1, <2>2 DEF CompositorInput
    <2> QED BY <1>4, <2>2, <2>3
  <1>20. CASE CompositorStarts
    <2>1. /\ up # <<>> /\ up' = Tail(up) /\ Head(up).type = "OPERATION" /\ worker.up
          /\ UNCHANGED <<worker, pending, down>>
      BY <1>20, ReadUpType DEF CompositorStarts
    <2>2. Channel(compositor, worker, pending, up', down)
      BY <1>1, <1>2, <2>1, ChannelReadUp
    <2>3. /\ SameDocument(compositor, compositor') /\ compositor'.st = compositor.st
          /\ compositor'.boot = compositor.boot /\ compositor'.applied = compositor.applied
      BY <1>1, <1>20 DEF CompositorStarts, Compositor, SameDocument
    <2>4. Whole(compositor') /\ compositor'.st # "refused"
      BY <1>2, <2>3 DEF Whole, SameDocument
    <2>5. Channel(compositor', worker, pending, up', down)
      BY <2>2, <2>3, ChannelSame
    <2> QED BY <1>3, <2>1, <2>4, <2>5
  <1>21. CASE CompositorCompletes
    <2>1. worker.up /\ UNCHANGED <<worker, pending, up>> /\ Sends([type |-> "COMPLETION"])
      BY <1>21 DEF CompositorCompletes, Running
    <2>2. [type |-> "COMPLETION"] \in Packet
      BY DEF Packet
    <2>3. Channel(compositor, worker, pending, up, down')
      BY <1>17, <2>1, <2>2
    <2>4. /\ SameDocument(compositor, compositor') /\ compositor'.st = compositor.st
          /\ compositor'.boot = compositor.boot /\ compositor'.applied = compositor.applied
      BY <1>1, <1>21 DEF CompositorCompletes, Compositor, SameDocument
    <2>5. Whole(compositor') /\ compositor'.st # "refused"
      BY <1>2, <2>4 DEF Whole, SameDocument
    <2>6. Channel(compositor', worker, pending, up, down')
      BY <2>3, <2>4, ChannelSame
    <2> QED BY <1>3, <2>1, <2>5, <2>6
  <1>22. CASE \E on \in BOOLEAN : CompositorOverrides(on)
    <2>1. worker.up /\ UNCHANGED <<worker, pending, up, down>>
      BY <1>22 DEF CompositorOverrides, Running
    <2>2. /\ SameDocument(compositor, compositor') /\ compositor'.st = compositor.st
          /\ compositor'.boot = compositor.boot /\ compositor'.applied = compositor.applied
      BY <1>1, <1>22 DEF CompositorOverrides, Compositor, SameDocument
    <2>3. Whole(compositor') /\ compositor'.st # "refused"
      BY <1>2, <2>2 DEF Whole, SameDocument
    <2>4. Channel(compositor', worker, pending, up, down)
      BY <1>2, <2>1, <2>2, ChannelSame
    <2> QED BY <1>3, <2>1, <2>3, <2>4
  <1>23. CASE CompositorTakes
    <2>1. worker.up /\ UNCHANGED <<worker, pending>>
      BY <1>23, ReadUpType DEF CompositorTakes
    <2> QED BY <1>2, <1>3, <1>23, <2>1, TakesKeeps
  <1>24. CASE CompositorRollsBack
    <2>1. worker.up /\ UNCHANGED <<worker, pending>>
      BY <1>24, ReadUpType DEF CompositorRollsBack
    <2> QED BY <1>2, <1>3, <1>24, <2>1, RollsBackKeeps
  <1>25. CASE Ended \/ UNCHANGED vars
    BY <1>25 DEF Ended, vars, IInv, AllOrNothing, NeverStale
  <1> QED
    BY <1>6, <1>7, <1>8, <1>9, <1>10, <1>11, <1>12, <1>13, <1>14, <1>15, <1>16, <1>18, <1>19,
       <1>20, <1>21, <1>22, <1>23, <1>24, <1>25 DEF Next

-----------------------------------------------------------------------------
(* The properties of the runs.                                              *)

LEMMA InvariantHolds == Spec => [](IInv /\ InSequence /\ TypeOK)
  <1>1. Init => InSequence
    <2> SUFFICES ASSUME Init PROVE InSequence
      OBVIOUS
    <2>1. deferred = <<>> /\ down = <<>> /\ sent = 0 /\ seen = 0 /\ Len(deferred) = 0
      BY DEF Init
    <2>2. Waiting(down) = {}
      BY <2>1 DEF Waiting
    <2>3. Carries(down, 0, 0)
      BY <2>2 DEF Carries
    <2> QED BY <2>1, <2>3 DEF InSequence, Queued
  <1> QED BY <1>1, InitIInv, IInvStep, InSequenceStep, TypeCorrect, PTL DEF Spec

LEMMA AgreementHolds == IInv /\ TypeOK => Agreement
  <1> SUFFICES ASSUME IInv, TypeOK, worker.up PROVE BothOrNeither
    BY DEF IInv, Agreement, BothOrNeither
  <1>1. Channel(compositor, worker, pending, up, down)
    BY DEF IInv
  <1>2. News(down) = {i \in DOMAIN down : down[i].type = "RESULT" /\ down[i].accepted}
    BY DEF News, Results
  <1>3. CASE News(down) = {}
    BY <1>1, <1>2, <1>3 DEF Channel, Agrees, BothOrNeither
  <1>4. CASE News(down) # {}
    <2>1. PICK i \in Results(down) : down[i].accepted
      BY <1>4 DEF News
    <2>2. compositor.gen = pending.gen
      BY <1>1, <2>1 DEF Channel, Answers
    <2> QED BY <1>2, <1>4, <2>2 DEF BothOrNeither
  <1> QED BY <1>3, <1>4

(* A configuration is applied as a whole or not at all, and a reload is     *)
(* committed by both sides or by neither, for every number of documents,    *)
(* however many packets are underway (handle_config, runtime_reload_finish). *)
THEOREM OneDocument == Spec => []Agreement
  BY InvariantHolds, AgreementHolds, PTL

LEMMA RevisionsHold == IInv /\ TypeOK => RevisionsFit
  <1> SUFFICES ASSUME IInv, TypeOK, worker.up, ~Staged, down # <<>>, Head(down).type = "INPUT",
                      Head(down).rev = worker.rev
               PROVE  Head(down).doc = worker.doc
    BY DEF IInv, RevisionsFit, InputSeesItsDocument
  <1>1. Channel(compositor, worker, pending, up, down) /\ down \in Seq(Packet)
    BY DEF IInv, TypeOK
  <1>2. 1 \in Inputs(down) /\ Head(down) = down[1]
    BY <1>1, Moved DEF Inputs
  <1>3. Results(down) = {}
    BY <1>1 DEF Channel, Answers, Fits, Staged
  <1>4. Follows(down[1], worker)
    BY <1>1, <1>2, <1>3 DEF Channel, Keys, News
  <1> QED BY <1>2, <1>4 DEF Follows

(* A revision means one document to both sides: what a handler changed is   *)
(* never refused as stale, and a key offered to the handlers of one         *)
(* document is never decided by those of another (candidate_valid,          *)
(* handle_input).                                                           *)
THEOREM OneMeaning == Spec => []RevisionsFit
  BY InvariantHolds, RevisionsHold, PTL

LEMMA AnswersHold == IInv => AnswersFit
  BY DEF IInv, AnswersFit, Channel, Answers, Results, Fits, ResultFits, Staged

(* While a reload is staged nothing the compositor sends is lost or         *)
(* overtaken, the queue keeps to its limit, and the worker never receives   *)
(* an answer it does not wait for (runtime_channel_ready,                   *)
(* handle_runtime_packet).                                                  *)
THEOREM NothingLost == Spec => []QueuesSound
  <1>1. IInv /\ InSequence /\ TypeOK => QueuesSound
    BY AnswersHold, InSequenceSuffices DEF QueuesSound
  <1> QED BY <1>1, InvariantHolds, PTL

=============================================================================
