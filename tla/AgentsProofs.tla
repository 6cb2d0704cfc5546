---------------------------- MODULE AgentsProofs ----------------------------
(***************************************************************************)
(* What is proved of the agents.  Polkit's authentication agent and the    *)
(* keyring's prompter keep the promise of RequestPromise, for any number   *)
(* of requests, prompt objects, shells and brokers; what is proved of the  *)
(* GeoClue agent is said where its lemmas begin.                           *)
(*                                                                         *)
(* Each component has an inductive invariant (its IInv).  A request of     *)
(* polkit is new, waits (Auth!Waits: pending or handed to the helper, with *)
(* its timer, told once and not answered) or is over (Auth!Ended); one of  *)
(* the keyring waits (Asking!Unanswered) or has ended with its timer and   *)
(* its cancellable given up.  A broker but the running one has stopped;    *)
(* the running one counts the names it owns until its bus closes, and each *)
(* is kept alive by just what it waits for.  The lemmas say of each        *)
(* handler what it leaves of the invariant and what is heard of a request, *)
(* and the theorem maps that to the steps of the promise.                  *)
(***************************************************************************)
EXTENDS MCDesktop, Integers, SequenceTheorems, FiniteSetTheorems, WellFoundedInduction, TLAPS

(* A step is one of the subject's component; the subject stays.             *)
LEMMA AgentSteps ==
  ASSUME [AllNext]_allVars
  PROVE  /\ UNCHANGED subject
         /\ subject = "auth" => Auth!Next \/ UNCHANGED authVars
         /\ subject = "prompts" => Asking!Next \/ UNCHANGED promptVars
         /\ subject = "location" => Location!Next \/ UNCHANGED locationVars
  BY DEF AllNext, Only, allVars

(* The agents' cardinality is that of finite sets.                          *)
LEMMA SameCardinality ==
  \A S : Auth!Cardinality(S) = Cardinality(S) /\ Asking!Cardinality(S) = Cardinality(S)
         /\ Location!Cardinality(S) = Cardinality(S)
  BY DEF Auth!Cardinality, Asking!Cardinality, Location!Cardinality, Cardinality

(* Of numbered requests no more are pending when one leaves, and one more   *)
(* when one comes.                                                          *)
LEMMA CountedPending ==
  ASSUME NEW n \in Nat, NEW max \in Nat, NEW S \in SUBSET (1 .. n), Cardinality(S) <= max
  PROVE  /\ Cardinality(S) \in Nat
         /\ \A T \in SUBSET S : Cardinality(T) <= max
         /\ Cardinality(S) < max => \A r, T : T \subseteq S \cup {r} => Cardinality(T) <= max
  <1>1. IsFiniteSet(S) /\ Cardinality(S) \in Nat
    <2>1. IsFiniteSet(1 .. n)
      BY FS_Interval
    <2>2. IsFiniteSet(S)
      BY <2>1, FS_Subset
    <2> QED BY <2>2, FS_CardinalityType
  <1>2. ASSUME NEW T \in SUBSET S PROVE Cardinality(T) <= max
    <2>1. Cardinality(T) \in Nat /\ Cardinality(T) <= Cardinality(S)
      BY <1>1, FS_Subset, FS_CardinalityType
    <2> QED BY <1>1, <2>1
  <1>3. ASSUME Cardinality(S) < max, NEW r, NEW T, T \subseteq S \cup {r}
        PROVE  Cardinality(T) <= max
    <2>1. /\ IsFiniteSet(S \cup {r})
          /\ Cardinality(S \cup {r}) = IF r \in S THEN Cardinality(S) ELSE Cardinality(S) + 1
      BY <1>1, FS_AddElement
    <2>2. IsFiniteSet(T) /\ Cardinality(T) <= Cardinality(S \cup {r})
      BY <1>3, <2>1, FS_Subset
    <2>3. Cardinality(T) \in Nat
      BY <2>2, FS_CardinalityType
    <2> QED BY <1>1, <1>3, <2>1, <2>2, <2>3
  <1> QED BY <1>1, <1>2, <1>3

(* What is told after nothing, and after one thing.                         *)
LEMMA Appends == \A a, e : Append(<<>>, e) = <<e>> /\ Append(<<a>>, e) = <<a, e>>
  <1> SUFFICES ASSUME NEW a, NEW e PROVE Append(<<>>, e) = <<e>> /\ Append(<<a>>, e) = <<a, e>>
    OBVIOUS
  <1> DEFINE s == Append(<<a>>, e)
             t == <<a, e>>
  <1>1. <<a>> \in Seq({a, e}) /\ Len(<<a>>) = 1
    OBVIOUS
  <1>2. s \in Seq({a, e}) /\ Len(s) = 2
    BY <1>1
  <1>3. s[1] = a /\ s[2] = e
    BY <1>1
  <1>4. t \in Seq({a, e}) /\ Len(t) = 2 /\ t[1] = a /\ t[2] = e
    OBVIOUS
  <1>5. \A i \in 1 .. 2 : s[i] = t[i]
    <2> HIDE DEF s, t
    <2> QED BY <1>3, <1>4
  <1>6. s = t
    <2> HIDE DEF s, t
    <2> QED BY <1>2, <1>4, <1>5, SeqEqual
  <1> QED BY <1>6

-----------------------------------------------------------------------------
(* polkit's questions.                                                      *)

(* A request that waits ends with what its shells and polkit hear of it.    *)
LEMMA AuthEnds ==
  ASSUME NEW q \in Auth!RequestRecords, q.at = "open", Auth!Waits(q),
         NEW result \in {"authorized", "denied", "cancelled"}, result = "authorized" => q.gained
  PROVE  LET k == Auth!Finish(q, result)
         IN  /\ k \in Auth!RequestRecords /\ k.at = "over" /\ Auth!Ended(k)
             /\ k.told = <<"requested", result>> /\ k.answers = <<Auth!Answer(result)>>
  <1> DEFINE t == Append(q.told, result)
             a == Append(q.answers, Auth!Answer(result))
             k == [q EXCEPT !.at = "over", !.begun = FALSE, !.session = FALSE, !.waiting = FALSE,
                            !.unanswered = 0, !.pending = FALSE, !.timer = "none",
                            !.recipients = {}, !.told = t, !.answers = a]
  <1>1. t = <<"requested", result>> /\ a = <<Auth!Answer(result)>>
    <2>1. q.told = <<"requested">> /\ q.answers = <<>>
      BY DEF Auth!Waits
    <2> QED BY <2>1, Appends
  <1>2. Auth!Finish(q, result) = k
    <2> DEFINE k1 == [q EXCEPT !.at = "over", !.begun = FALSE, !.session = FALSE,
                               !.waiting = FALSE, !.unanswered = 0]
               k2 == [k1 EXCEPT !.pending = FALSE]
               k3 == [k2 EXCEPT !.timer = "none", !.recipients = {}, !.told = t]
    <2>1. k1.pending /\ k1.told = q.told /\ k1.answers = q.answers
      BY DEF Auth!RequestRecords, Auth!Waits
    <2>2. k2.told = q.told /\ k2.answers = q.answers
      BY DEF Auth!RequestRecords
    <2>3. Auth!AuthFinished(k1, result) = k3
      <3> HIDE DEF k1
      <3> QED BY <2>1, <2>2 DEF Auth!AuthFinished, Auth!Freed
    <2>4. k3.answers = q.answers
      BY DEF Auth!RequestRecords
    <2>5. Auth!Finish(q, result) = [k3 EXCEPT !.answers = a]
      <3> HIDE DEF k3
      <3> QED BY <2>3, <2>4 DEF Auth!Finish
    <2>6. [k3 EXCEPT !.answers = a] = k
      <3> HIDE DEF t, a
      <3> QED BY DEF Auth!RequestRecords
    <2> QED BY <2>5, <2>6
  <1>3. Auth!Answer(result) \in {"cancelled", "given"}
    BY DEF Auth!Answer
  <1>4. /\ a \in {<<>>, <<"failed">>, <<"cancelled">>, <<"given">>} /\ a # <<>>
        /\ t \in {<<>>, <<"requested">>, <<"requested", "authorized">>, <<"requested", "denied">>,
                  <<"requested", "cancelled">>}
        /\ t # <<"requested">>
    BY <1>1, <1>3
  <1>5. t = <<"requested", "authorized">> => q.gained
    BY <1>1
  <1> HIDE DEF t, a
  <1>6. k \in Auth!RequestRecords
    <2> DEFINE k0 == [q EXCEPT !.at = "over", !.begun = FALSE, !.session = FALSE]
               none == 0
               k1 == [k0 EXCEPT !.waiting = FALSE, !.unanswered = none]
               k2 == [k1 EXCEPT !.pending = FALSE, !.timer = "none", !.recipients = {}]
    <2>0. k0 \in Auth!RequestRecords
      BY ONLY q \in Auth!RequestRecords DEF Auth!RequestRecords
    <2>1. k1 \in Auth!RequestRecords
      <3>1. none \in Int
        OBVIOUS
      <3> HIDE DEF k0, none
      <3> QED BY ONLY <2>0, <3>1 DEF Auth!RequestRecords
    <2>2. k2 \in Auth!RequestRecords
      <3> HIDE DEF k1
      <3> QED BY ONLY <2>1 DEF Auth!RequestRecords, Auth!Timers
    <2>3. [k2 EXCEPT !.told = t, !.answers = a] \in Auth!RequestRecords
      <3> HIDE DEF k2
      <3> QED BY ONLY <2>2, <1>4 DEF Auth!RequestRecords
    <2>4. k = [k2 EXCEPT !.told = t, !.answers = a]
      BY ONLY q \in Auth!RequestRecords DEF Auth!RequestRecords
    <2> QED BY ONLY <2>3, <2>4
  <1>7. /\ k.at = "over" /\ k.pending = FALSE /\ k.session = FALSE /\ k.timer = "none"
        /\ k.unanswered = 0 /\ k.answers = a /\ k.told = t /\ k.gained = q.gained
    BY ONLY q \in Auth!RequestRecords DEF Auth!RequestRecords
  <1> HIDE DEF k
  <1> QED BY <1>1, <1>2, <1>4, <1>5, <1>6, <1>7 DEF Auth!Ended

(* An entry that leaves the table first ends as one whose request ends.     *)
LEMMA AuthRemoved ==
  ASSUME NEW q \in Auth!RequestRecords, q.at = "open", Auth!Waits(q)
  PROVE  Auth!Remove([q EXCEPT !.timer = "none"]) = Auth!Finish(q, "cancelled")
  <1> DEFINE t == Append(q.told, "cancelled")
             a == Append(q.answers, "cancelled")
             q1 == [q EXCEPT !.timer = "none"]
             q2 == [q1 EXCEPT !.pending = FALSE]
             q3 == [q2 EXCEPT !.at = "over", !.begun = FALSE, !.session = FALSE,
                              !.waiting = FALSE, !.unanswered = 0]
             q4 == [q3 EXCEPT !.answers = a]
             q5 == [q4 EXCEPT !.timer = "none", !.recipients = {}, !.told = t]
             f1 == [q EXCEPT !.at = "over", !.begun = FALSE, !.session = FALSE,
                             !.waiting = FALSE, !.unanswered = 0]
             f2 == [f1 EXCEPT !.pending = FALSE]
             f3 == [f2 EXCEPT !.timer = "none", !.recipients = {}, !.told = t]
             f4 == [f3 EXCEPT !.answers = a]
  <1>1. /\ q1.pending /\ q2.at = "open" /\ ~q3.pending /\ q3.answers = q.answers
        /\ q4.told = q.told
    BY DEF Auth!RequestRecords, Auth!Waits
  <1>2. /\ f1.pending /\ f2.told = q.told /\ f3.answers = q.answers
    BY DEF Auth!RequestRecords, Auth!Waits
  <1>3. Auth!Answer("cancelled") = "cancelled"
    BY DEF Auth!Answer
  <1>4. Auth!Finish(q2, "cancelled") = q4
    <2>1. Auth!AuthFinished(q3, "cancelled") = q3
      <3> HIDE DEF q3
      <3> QED BY <1>1 DEF Auth!AuthFinished
    <2>2. Auth!Finish(q2, "cancelled")
            = [Auth!AuthFinished(q3, "cancelled") EXCEPT !.answers = Append(@, Auth!Answer("cancelled"))]
      <3> HIDE DEF q2
      <3> QED BY <1>1 DEF Auth!Finish
    <2> HIDE DEF q3
    <2> QED BY <1>1, <1>3, <2>1, <2>2
  <1>5. Auth!Remove(q1) = q5
    <2>1. Auth!Remove(q1) = Auth!Freed(Auth!Finish(q2, "cancelled"), "cancelled")
      <3> HIDE DEF q1
      <3> QED BY <1>1 DEF Auth!Remove
    <2>2. Auth!Freed(q4, "cancelled") = q5
      <3> HIDE DEF q4
      <3> QED BY <1>1 DEF Auth!Freed
    <2> QED BY ONLY <1>4, <2>1, <2>2
  <1>6. Auth!Finish(q, "cancelled") = f4
    <2>1. Auth!AuthFinished(f1, "cancelled") = f3
      <3> HIDE DEF f1
      <3> QED BY <1>2 DEF Auth!AuthFinished, Auth!Freed
    <2>2. Auth!Finish(q, "cancelled")
            = [Auth!AuthFinished(f1, "cancelled") EXCEPT !.answers = Append(@, Auth!Answer("cancelled"))]
      BY DEF Auth!Finish
    <2> HIDE DEF f3
    <2> QED BY <1>2, <1>3, <2>1, <2>2
  <1>7. q5 = f4
    <2> HIDE DEF t, a
    <2> QED BY DEF Auth!RequestRecords
  <1> QED BY ONLY <1>5, <1>6, <1>7

(* What the invariant says.                                                 *)
LEMMA AuthFacts ==
  ASSUME Auth!IInv
  PROVE  /\ AuthQuestions \in Nat /\ AuthPending \in Nat /\ Auth!Requests = 1 .. AuthQuestions
         /\ agents \in Nat /\ agent \in 0 .. agents /\ polkitKnows \in BOOLEAN
         /\ polkitKnows => agent # 0
         /\ authRequest \in [Auth!Requests -> Auth!RequestRecords]
         /\ Auth!Pending = {r \in Auth!Requests : authRequest[r].pending}
         /\ Cardinality(Auth!Pending) <= AuthPending
         /\ \A r \in Auth!Requests :
              /\ authRequest[r] \in Auth!RequestRecords
              /\ Auth!RequestRight(authRequest[r])
              /\ authRequest[r].at = "open" => authRequest[r].by = agent /\ agent # 0
              /\ authRequest[r].at = "new" => authRequest[r] = Auth!NewRequest
              /\ authRequest[r].at = "open" => Auth!Waits(authRequest[r])
              /\ authRequest[r].at = "over" => Auth!Ended(authRequest[r])
              /\ authRequest[r].at \in {"new", "open", "over"}
  <1>1. AuthQuestions \in Nat /\ AuthPending \in Nat
    BY DesktopAssumption DEF Auth!AuthAssumption
  <1>2. Cardinality(Auth!Pending) <= AuthPending
    BY SameCardinality DEF Auth!IInv, Auth!TableBounded
  <1>3. \A r \in Auth!Requests : authRequest[r].at \in {"new", "open", "over"}
    BY DEF Auth!IInv, Auth!RequestRecords
  <1> QED BY <1>1, <1>2, <1>3 DEF Auth!IInv, Auth!Requests, Auth!Pending, Auth!RequestRight

(* Only a request that is open is pending, is checked or has a timer.       *)
LEMMA AuthOpen ==
  ASSUME Auth!IInv, NEW r \in Auth!Requests,
         \/ authRequest[r].pending \/ authRequest[r].session
         \/ authRequest[r].timer # "none"
  PROVE  authRequest[r].at = "open" /\ Auth!Waits(authRequest[r])
  <1>1. authRequest[r] # Auth!NewRequest
    BY DEF Auth!NewRequest
  <1> QED BY <1>1, AuthFacts DEF Auth!Ended

(* One request becomes k, and no more are pending than the table holds.     *)
LEMMA AuthBecomes ==
  ASSUME Auth!IInv, NEW r \in Auth!Requests, NEW k \in Auth!RequestRecords,
         Auth!RequestRight(k), k.at = "open" => k.by = agent /\ agent # 0,
         k.pending => authRequest[r].pending \/ Cardinality(Auth!Pending) < AuthPending,
         Auth!Becomes(r, k), UNCHANGED <<agent, agents, polkitKnows>>
  PROVE  Auth!IInv'
  <1> USE AuthFacts
  <1>1. authRequest' = [authRequest EXCEPT ![r] = k]
    BY DEF Auth!Becomes
  <1>2. authRequest' \in [Auth!Requests -> Auth!RequestRecords]
    BY <1>1
  <1>3. \A s \in Auth!Requests : authRequest'[s] = IF s = r THEN k ELSE authRequest[s]
    BY <1>1
  <1>4. \A s \in Auth!Requests : Auth!RequestRight(authRequest'[s])
    BY <1>3
  <1>5. \A s \in Auth!Requests :
          authRequest'[s].at = "open" => authRequest'[s].by = agent /\ agent # 0
    BY <1>3
  <1>6. Cardinality(Auth!Pending') <= AuthPending
    <2>1. Auth!Pending' = {s \in Auth!Requests : authRequest'[s].pending}
      BY DEF Auth!Pending
    <2>2. Auth!Pending \in SUBSET (1 .. AuthQuestions)
      OBVIOUS
    <2>3. CASE k.pending => authRequest[r].pending
      <3>1. Auth!Pending' \in SUBSET Auth!Pending
        BY <1>3, <2>1, <2>3
      <3> QED BY <2>2, <3>1, CountedPending
    <2>4. CASE k.pending /\ ~authRequest[r].pending
      <3>1. Auth!Pending' \subseteq Auth!Pending \cup {r}
        BY <1>3, <2>1
      <3> QED BY <2>2, <2>4, <3>1, CountedPending
    <2> QED BY <2>3, <2>4
  <1>7. Auth!TableBounded'
    BY <1>6, SameCardinality DEF Auth!TableBounded
  <1> QED BY <1>2, <1>4, <1>5, <1>7 DEF Auth!IInv

(* No question was asked yet.                                               *)
LEMMA AuthInit == Auth!Init => Auth!IInv
  <1> SUFFICES ASSUME Auth!Init PROVE Auth!IInv
    OBVIOUS
  <1> DEFINE none == 0
  <1>1. AuthQuestions \in Nat /\ AuthPending \in Nat
    BY DesktopAssumption DEF Auth!AuthAssumption
  <1>2. Auth!NewRequest \in Auth!RequestRecords
    <2>1. none \in Nat /\ none \in Int
      OBVIOUS
    <2>2. Auth!NewRequest =
            [at |-> "new", by |-> none, pending |-> FALSE, timer |-> "none", recipients |-> {},
             begun |-> FALSE, session |-> FALSE, waiting |-> FALSE, unanswered |-> none,
             gained |-> FALSE, idle |-> FALSE, answers |-> <<>>, told |-> <<>>]
      BY DEF Auth!NewRequest
    <2> HIDE DEF none
    <2> QED BY ONLY <2>1, <2>2 DEF Auth!RequestRecords, Auth!Timers
  <1>3. /\ Auth!NewRequest.at = "new" /\ Auth!NewRequest.pending = FALSE
    BY DEF Auth!NewRequest
  <1>4. authRequest = [r \in Auth!Requests |-> Auth!NewRequest]
    BY DEF Auth!Init
  <1>5. \A r \in Auth!Requests : authRequest[r] = Auth!NewRequest
    BY <1>4
  <1>6. Auth!Pending = {}
    BY <1>3, <1>5 DEF Auth!Pending
  <1>7. Auth!TableBounded
    BY <1>1, <1>6, FS_EmptySet, SameCardinality DEF Auth!TableBounded
  <1>8. \A r \in Auth!Requests :
          Auth!RequestRight(authRequest[r]) /\ authRequest[r].at # "open"
    <2>1. Auth!RequestRight(Auth!NewRequest)
      BY <1>3 DEF Auth!RequestRight
    <2> QED BY <1>3, <1>5, <2>1
  <1>9. authRequest \in [Auth!Requests -> Auth!RequestRecords]
    BY <1>2, <1>4
  <1>10. agents \in Nat /\ agent \in 0 .. agents /\ polkitKnows = FALSE
    <2>1. agents = 0 /\ agent = 0
      BY DEF Auth!Init
    <2>2. polkitKnows = FALSE
      BY DEF Auth!Init
    <2> QED BY <2>1, <2>2
  <1> QED BY <1>7, <1>8, <1>9, <1>10 DEF Auth!IInv

(* An agent that stops leaves no request open.                              *)
LEMMA AuthStops ==
  ASSUME NEW q \in Auth!RequestRecords, Auth!RequestRight(q)
  PROVE  LET k == Auth!Stopped(q)
         IN  /\ k \in Auth!RequestRecords /\ Auth!RequestRight(k) /\ k.at # "open" /\ ~k.pending
             /\ q.at # "open" => k = q
             /\ q.at = "open" => k = Auth!Finish(q, "cancelled")
  <1>1. CASE q.at = "open"
    <2> DEFINE k == Auth!Finish(q, "cancelled")
    <2>1. k \in Auth!RequestRecords /\ k.at = "over" /\ Auth!Ended(k)
      BY <1>1, AuthEnds DEF Auth!RequestRight
    <2>2. ~k.pending
      BY <2>1 DEF Auth!Ended
    <2>3. Auth!Stopped(q) = k
      <3>1. Auth!Stopped(q) = Auth!Remove(k)
        BY DEF Auth!Stopped
      <3> HIDE DEF k
      <3> QED BY <2>2, <3>1 DEF Auth!Remove
    <2> HIDE DEF k
    <2>4. k.at # "open" /\ Auth!RequestRight(k)
      BY <2>1 DEF Auth!RequestRight
    <2> QED BY <1>1, <2>1, <2>2, <2>3, <2>4 DEF k
  <1>2. CASE q.at # "open"
    <2>1. q.at \in {"new", "open", "over"}
      BY DEF Auth!RequestRecords
    <2>2. ~q.pending
      BY <1>2, <2>1 DEF Auth!RequestRight, Auth!NewRequest, Auth!Ended
    <2>3. Auth!Stopped(q) = q
      BY <1>2, <2>2 DEF Auth!Stopped, Auth!Finish, Auth!Remove
    <2> QED BY <1>2, <2>2, <2>3
  <1> QED BY <1>1, <1>2

(* The configuration starts and stops the agent.                            *)
LEMMA AuthConfigured ==
  ASSUME Auth!IInv, Auth!Enable \/ Auth!Disable
  PROVE  Auth!IInv'
  <1> USE AuthFacts
  <1>1. CASE Auth!Enable
    <2>1. /\ agent = 0 /\ agents' = agents + 1 /\ agent' = agents' /\ polkitKnows' \in BOOLEAN
          /\ UNCHANGED authRequest
      BY <1>1 DEF Auth!Enable
    <2>2. \A r \in Auth!Requests : authRequest[r].at # "open"
      BY <2>1
    <2>3. Auth!TableBounded'
      BY <2>1 DEF Auth!IInv, Auth!TableBounded, Auth!Pending
    <2> QED BY <2>1, <2>2, <2>3 DEF Auth!IInv
  <1>2. CASE Auth!Disable
    <2>1. /\ agents' = agents /\ agent' = 0 /\ polkitKnows' = FALSE
          /\ authRequest' = [r \in Auth!Requests |-> Auth!Stopped(authRequest[r])]
      BY <1>2 DEF Auth!Disable
    <2>2. \A r \in Auth!Requests :
            /\ authRequest'[r] \in Auth!RequestRecords /\ Auth!RequestRight(authRequest'[r])
            /\ authRequest'[r].at # "open" /\ ~authRequest'[r].pending
      BY <2>1, AuthStops
    <2>3. authRequest' \in [Auth!Requests -> Auth!RequestRecords]
      BY <2>1, <2>2
    <2>4. Auth!Pending' = {}
      BY <2>2 DEF Auth!Pending
    <2>5. Auth!TableBounded'
      BY <2>4, FS_EmptySet, SameCardinality DEF Auth!TableBounded
    <2>6. agents' \in Nat /\ agent' \in 0 .. agents' /\ polkitKnows' = FALSE
      BY <2>1
    <2> QED BY <2>2, <2>3, <2>5, <2>6 DEF Auth!IInv
  <1> QED BY <1>1, <1>2

(* A question comes: it is turned down, or waits for a shell in the table.  *)
LEMMA AuthComes ==
  ASSUME Auth!IInv, NEW r \in Auth!Requests, Auth!Initiate(r) \/ Auth!InitiateNobody(r)
  PROVE  /\ Auth!IInv'
         /\ authRequest[r] = Auth!NewRequest
         /\ \E k : /\ Auth!Becomes(r, k)
                   /\ \/ k.answers = <<>> /\ k.told = <<"requested">>
                      \/ k.answers \in {<<"cancelled">>, <<"failed">>} /\ k.told = <<>>
  <1> USE AuthFacts
  <1> DEFINE q == authRequest[r]
  <1>1. q = Auth!NewRequest /\ polkitKnows /\ UNCHANGED <<agent, agents, polkitKnows>>
    BY DEF Auth!Initiate, Auth!InitiateNobody, Auth!Comes, Auth!agentVars
  <1>2. q \in Auth!RequestRecords /\ agent \in Nat /\ agent # 0
    BY <1>1
  <1>3. /\ q.at = "new" /\ q.pending = FALSE /\ q.timer = "none" /\ q.begun = FALSE
        /\ q.session = FALSE /\ q.waiting = FALSE /\ q.unanswered = 0 /\ q.gained = FALSE
        /\ q.answers = <<>> /\ q.told = <<>>
    BY <1>1 DEF Auth!NewRequest
  <1>4. ASSUME Auth!InitiateNobody(r)
        PROVE  \E k \in Auth!RequestRecords :
                 /\ Auth!Becomes(r, k) /\ k.at = "over" /\ Auth!Ended(k)
                 /\ k.answers = <<"failed">> /\ k.told = <<>>
    <2> DEFINE k == [q EXCEPT !.at = "over", !.answers = <<"failed">>]
    <2>1. Auth!Becomes(r, k)
      BY <1>4 DEF Auth!InitiateNobody
    <2> HIDE DEF q
    <2>2. k \in Auth!RequestRecords
      BY ONLY <1>2 DEF Auth!RequestRecords
    <2>3. /\ k.at = "over" /\ k.answers = <<"failed">> /\ k.told = q.told /\ k.pending = q.pending
          /\ k.session = q.session /\ k.timer = q.timer /\ k.unanswered = q.unanswered
      BY ONLY <1>2 DEF Auth!RequestRecords
    <2> HIDE DEF k
    <2>4. Auth!Ended(k)
      BY <1>3, <2>3 DEF Auth!Ended
    <2> QED BY <1>3, <2>1, <2>2, <2>3, <2>4
  <1>5. ASSUME Auth!Initiate(r)
        PROVE  \E k \in Auth!RequestRecords :
                 /\ Auth!Becomes(r, k)
                 /\ \/ k.at = "over" /\ Auth!Ended(k) /\ k.answers = <<"cancelled">> /\ k.told = <<>>
                    \/ /\ k.at = "open" /\ Auth!Waits(k) /\ k.by = agent
                       /\ Cardinality(Auth!Pending) < AuthPending
    <2> DEFINE q1 == [q EXCEPT !.at = "open", !.by = agent]
    <2>1. PICK serving \in BOOLEAN, listening \in SUBSET Shells :
            Auth!Becomes(r, Auth!Started(q1, serving, listening))
      BY <1>5 DEF Auth!Initiate
    <2> HIDE DEF q
    <2>2. q1 \in Auth!RequestRecords
      BY ONLY <1>2 DEF Auth!RequestRecords
    <2>3. /\ q1.at = "open" /\ q1.by = agent /\ q1.answers = <<>> /\ q1.told = <<>>
          /\ q1.pending = FALSE /\ q1.timer = "none" /\ q1.begun = FALSE /\ q1.session = FALSE
          /\ q1.waiting = FALSE /\ q1.unanswered = 0
      BY ONLY <1>2, <1>3 DEF Auth!RequestRecords
    <2> HIDE DEF q1
    <2>4. CASE Auth!Refused(serving)
      <3> DEFINE none == 0
                 k0 == [q1 EXCEPT !.at = "over", !.begun = FALSE, !.session = FALSE]
                 k1 == [k0 EXCEPT !.waiting = FALSE, !.unanswered = none]
                 a == <<"cancelled">>
                 k == [k1 EXCEPT !.answers = a]
                 over == [q1 EXCEPT !.at = "over", !.begun = FALSE, !.session = FALSE,
                                    !.waiting = FALSE, !.unanswered = 0]
      <3>1. k0 \in Auth!RequestRecords
        BY ONLY <2>2 DEF Auth!RequestRecords
      <3>2. k1 \in Auth!RequestRecords
        <4>1. none \in Int
          OBVIOUS
        <4> HIDE DEF k0, none
        <4> QED BY ONLY <3>1, <4>1 DEF Auth!RequestRecords
      <3>3. k \in Auth!RequestRecords
        <4>1. a \in {<<>>, <<"failed">>, <<"cancelled">>, <<"given">>}
          OBVIOUS
        <4> HIDE DEF k1, a
        <4> QED BY ONLY <3>2, <4>1 DEF Auth!RequestRecords
      <3>4. /\ k.at = "over" /\ k.session = FALSE /\ k.unanswered = 0 /\ k.pending = q1.pending
            /\ k.timer = q1.timer /\ k.answers = a /\ k.told = q1.told
        BY ONLY <2>2 DEF Auth!RequestRecords
      <3>5. Auth!Ended(k)
        <4> HIDE DEF k
        <4> QED BY <2>3, <3>4 DEF Auth!Ended
      <3>6. over = k1 /\ over.answers = <<>> /\ over.pending = FALSE
        BY ONLY <2>2, <2>3 DEF Auth!RequestRecords
      <3>7. Auth!Answer("cancelled") = "cancelled"
        BY DEF Auth!Answer
      <3>8. Auth!Finish(q1, "cancelled") = k
        <4>1. Auth!AuthFinished(over, "cancelled") = over
          <5> HIDE DEF over
          <5> QED BY <3>6 DEF Auth!AuthFinished
        <4>2. Auth!Finish(q1, "cancelled") =
                [Auth!AuthFinished(over, "cancelled") EXCEPT
                   !.answers = Append(@, Auth!Answer("cancelled"))]
          BY <2>3 DEF Auth!Finish
        <4>3. Append(<<>>, "cancelled") = a
          BY Appends
        <4> HIDE DEF over, k1, a
        <4> QED BY <3>6, <3>7, <4>1, <4>2, <4>3
      <3>9. Auth!Becomes(r, k)
        BY <2>1, <2>4, <3>8 DEF Auth!Started
      <3> HIDE DEF k
      <3> QED BY <2>3, <3>3, <3>4, <3>5, <3>9
    <2>5. CASE ~Auth!Refused(serving)
      <3> DEFINE t == <<"requested">>
                 k == [q1 EXCEPT !.pending = TRUE, !.timer = "unclaimed", !.told = t,
                                 !.recipients = listening]
      <3>1. t \in {<<>>, <<"requested">>}
        OBVIOUS
      <3> HIDE DEF t
      <3>2. k \in Auth!RequestRecords
        BY ONLY <2>2, <3>1, listening \in SUBSET Shells DEF Auth!RequestRecords, Auth!Timers
      <3>3. /\ k.at = q1.at /\ k.by = q1.by /\ k.pending = TRUE /\ k.timer = "unclaimed"
            /\ k.begun = q1.begun /\ k.session = q1.session /\ k.waiting = q1.waiting
            /\ k.unanswered = q1.unanswered /\ k.answers = q1.answers /\ k.told = t
        BY ONLY <2>2 DEF Auth!RequestRecords
      <3>4. Auth!Becomes(r, k)
        BY <2>1, <2>5 DEF Auth!Started, t
      <3>5. Cardinality(Auth!Pending) < AuthPending
        <4>1. ~(Cardinality(Auth!Pending) >= AuthPending)
          BY <2>5, SameCardinality DEF Auth!Refused
        <4>2. Cardinality(Auth!Pending) \in Nat
          BY CountedPending
        <4> QED BY <4>1, <4>2
      <3> HIDE DEF k
      <3>6. Auth!Waits(k)
        BY <2>3, <3>3 DEF Auth!Waits, t
      <3> QED BY <2>3, <3>2, <3>3, <3>4, <3>5, <3>6
    <2> QED BY <2>4, <2>5
  <1> HIDE DEF q
  <1>6. CASE Auth!InitiateNobody(r)
    <2>1. PICK k \in Auth!RequestRecords :
            /\ Auth!Becomes(r, k) /\ k.at = "over" /\ Auth!Ended(k)
            /\ k.answers = <<"failed">> /\ k.told = <<>>
      BY <1>4, <1>6
    <2>2. Auth!RequestRight(k) /\ ~k.pending /\ k.at # "open"
      BY <2>1 DEF Auth!RequestRight, Auth!Ended
    <2>3. Auth!IInv'
      BY <1>1, <2>1, <2>2, AuthBecomes
    <2> QED BY <1>1, <2>1, <2>3 DEF q
  <1>7. CASE Auth!Initiate(r)
    <2>1. PICK k \in Auth!RequestRecords :
            /\ Auth!Becomes(r, k)
            /\ \/ k.at = "over" /\ Auth!Ended(k) /\ k.answers = <<"cancelled">> /\ k.told = <<>>
               \/ /\ k.at = "open" /\ Auth!Waits(k) /\ k.by = agent
                  /\ Cardinality(Auth!Pending) < AuthPending
      BY <1>5, <1>7
    <2>2. Auth!RequestRight(k)
      BY <2>1 DEF Auth!RequestRight
    <2>3. Auth!IInv'
      BY <1>1, <1>2, <2>1, <2>2, AuthBecomes DEF Auth!Ended
    <2>4. \/ k.answers = <<>> /\ k.told = <<"requested">>
          \/ k.answers \in {<<"cancelled">>, <<"failed">>} /\ k.told = <<>>
      BY <2>1 DEF Auth!Waits
    <2> QED BY <1>1, <2>1, <2>3, <2>4 DEF q
  <1> QED BY <1>6, <1>7

(* What is heard of a request: nothing new, or how it ended.                *)
AuthHeard(r) ==
  \E k : /\ Auth!Becomes(r, k)
         /\ \/ k.answers = authRequest[r].answers /\ k.told = authRequest[r].told
            \/ /\ authRequest[r].at = "open"
               /\ \E e \in {"authorized", "denied", "cancelled"} :
                    k.told = <<"requested", e>> /\ k.answers = <<Auth!Answer(e)>>

(* A request that waits ends: once, with what was granted.                  *)
LEMMA AuthEnding ==
  ASSUME Auth!IInv, NEW r \in Auth!Requests, NEW q \in Auth!RequestRecords, q.at = "open",
         Auth!Waits(q), authRequest[r].at = "open", NEW e \in {"authorized", "denied", "cancelled"},
         e = "authorized" => q.gained, UNCHANGED <<agent, agents, polkitKnows>>,
         \/ Auth!Becomes(r, Auth!Finish(q, e))
         \/ Auth!Becomes(r, [Auth!Finish(q, e) EXCEPT !.idle = FALSE])
  PROVE  Auth!IInv' /\ AuthHeard(r)
  <1> DEFINE f == Auth!Finish(q, e)
             g == [f EXCEPT !.idle = FALSE]
  <1>1. /\ f \in Auth!RequestRecords /\ f.at = "over" /\ Auth!Ended(f)
        /\ f.told = <<"requested", e>> /\ f.answers = <<Auth!Answer(e)>>
    BY AuthEnds
  <1> HIDE DEF f
  <1>2. g \in Auth!RequestRecords
    BY ONLY <1>1 DEF Auth!RequestRecords
  <1>3. /\ g.at = f.at /\ g.told = f.told /\ g.answers = f.answers /\ g.pending = f.pending
        /\ g.session = f.session /\ g.timer = f.timer /\ g.unanswered = f.unanswered
        /\ g.gained = f.gained
    BY ONLY <1>1 DEF Auth!RequestRecords
  <1>4. ASSUME NEW k \in {f, g}, Auth!Becomes(r, k) PROVE Auth!IInv' /\ AuthHeard(r)
    <2> HIDE DEF g
    <2>1. /\ k \in Auth!RequestRecords /\ k.at = "over" /\ Auth!Ended(k)
          /\ k.told = <<"requested", e>> /\ k.answers = <<Auth!Answer(e)>>
      BY <1>1, <1>2, <1>3, <1>4 DEF Auth!Ended
    <2>2. Auth!RequestRight(k) /\ ~k.pending /\ k.at # "open"
      BY <2>1 DEF Auth!RequestRight, Auth!Ended
    <2>3. Auth!IInv'
      BY <1>4, <2>1, <2>2, AuthBecomes
    <2> QED BY <1>4, <2>1, <2>3 DEF AuthHeard
  <1>5. Auth!Becomes(r, f) \/ Auth!Becomes(r, g)
    BY DEF f
  <1> QED BY <1>4, <1>5

(* A request that waits goes on waiting as k.                               *)
LEMMA AuthGoesOn ==
  ASSUME Auth!IInv, NEW r \in Auth!Requests, NEW k \in Auth!RequestRecords,
         authRequest[r].at = "open", k.at = "open", Auth!Waits(k), k.by = authRequest[r].by,
         Auth!Becomes(r, k), UNCHANGED <<agent, agents, polkitKnows>>
  PROVE  Auth!IInv' /\ AuthHeard(r)
  <1>1. Auth!Waits(authRequest[r]) /\ authRequest[r].by = agent /\ agent # 0
    BY AuthFacts
  <1>2. Auth!RequestRight(k)
    BY DEF Auth!RequestRight
  <1>3. Auth!IInv'
    BY <1>1, <1>2, AuthBecomes DEF Auth!Waits
  <1> QED BY <1>1, <1>3 DEF AuthHeard, Auth!Waits

(* polkit gives up on a request, and the idle that hears of it.             *)
LEMMA AuthCancels ==
  ASSUME Auth!IInv, NEW r \in Auth!Requests, Auth!PolkitCancels(r) \/ Auth!CancelIdle(r)
  PROVE  Auth!IInv' /\ AuthHeard(r)
  <1> USE AuthFacts
  <1> DEFINE q == authRequest[r]
  <1>1. UNCHANGED <<agent, agents, polkitKnows>> /\ q \in Auth!RequestRecords
    BY DEF Auth!PolkitCancels, Auth!CancelIdle, Auth!agentVars
  <1>2. CASE Auth!PolkitCancels(r)
    <2> DEFINE k == [q EXCEPT !.idle = TRUE]
    <2>1. q.at = "open" /\ Auth!Waits(q) /\ Auth!Becomes(r, k)
      BY <1>2 DEF Auth!PolkitCancels
    <2> HIDE DEF q
    <2>2. k \in Auth!RequestRecords
      BY ONLY <1>1 DEF Auth!RequestRecords
    <2>3. /\ k.at = q.at /\ k.by = q.by /\ k.pending = q.pending /\ k.timer = q.timer
          /\ k.begun = q.begun /\ k.session = q.session /\ k.waiting = q.waiting
          /\ k.unanswered = q.unanswered /\ k.answers = q.answers /\ k.told = q.told
      BY ONLY <1>1 DEF Auth!RequestRecords
    <2> HIDE DEF k
    <2>4. Auth!Waits(k)
      BY <2>1, <2>3 DEF Auth!Waits
    <2> USE DEF q
    <2> QED BY <1>1, <2>1, <2>2, <2>3, <2>4, AuthGoesOn
  <1>3. CASE Auth!CancelIdle(r)
    <2>1. q.idle /\ Auth!Becomes(r, [Auth!Finish(q, "cancelled") EXCEPT !.idle = FALSE])
      BY <1>3 DEF Auth!CancelIdle
    <2>2. CASE q.at = "open"
      BY <1>1, <2>1, <2>2, AuthEnding
    <2>3. CASE q.at = "over"
      <3> DEFINE k == [q EXCEPT !.idle = FALSE]
      <3>1. Auth!Becomes(r, k) /\ Auth!Ended(q)
        BY <2>1, <2>3 DEF Auth!Finish
      <3> HIDE DEF q
      <3>2. k \in Auth!RequestRecords
        BY ONLY <1>1 DEF Auth!RequestRecords
      <3>3. /\ k.at = q.at /\ k.pending = q.pending /\ k.timer = q.timer
            /\ k.session = q.session /\ k.gained = q.gained
            /\ k.unanswered = q.unanswered /\ k.answers = q.answers /\ k.told = q.told
        BY ONLY <1>1 DEF Auth!RequestRecords
      <3> HIDE DEF k
      <3>4. Auth!RequestRight(k) /\ ~k.pending /\ k.at # "open"
        BY <2>3, <3>1, <3>3 DEF Auth!Ended, Auth!RequestRight
      <3>5. Auth!IInv'
        BY <1>1, <3>1, <3>2, <3>4, AuthBecomes
      <3> QED BY <3>1, <3>3, <3>5 DEF AuthHeard, q
    <2>4. q.at # "new"
      BY <2>1 DEF Auth!NewRequest
    <2> QED BY <2>2, <2>3, <2>4
  <1> QED BY <1>2, <1>3

(* The helper asks for a password, or says what came of it.                 *)
LEMMA AuthHelper ==
  ASSUME Auth!IInv, NEW r \in Auth!Requests, Auth!SessionRequest(r) \/ Auth!SessionCompleted(r)
  PROVE  Auth!IInv' /\ AuthHeard(r)
  <1> USE AuthFacts
  <1> DEFINE q == authRequest[r]
  <1>1. UNCHANGED <<agent, agents, polkitKnows>> /\ q \in Auth!RequestRecords
    BY DEF Auth!SessionRequest, Auth!SessionCompleted, Auth!agentVars
  <1>2. q.session /\ q.at = "open" /\ Auth!Waits(q)
    BY AuthOpen DEF Auth!SessionRequest, Auth!SessionCompleted
  <1>3. CASE Auth!SessionRequest(r)
    <2> DEFINE more == q.unanswered + 1
               k1 == [q EXCEPT !.waiting = TRUE, !.unanswered = more]
               k == [k1 EXCEPT !.timer = "answer"]
    <2>1. Auth!Becomes(r, Auth!Prompted(k1))
      BY <1>3 DEF Auth!SessionRequest
    <2>2. more \in Int /\ more >= 1
      BY <1>1, <1>2 DEF Auth!Waits, Auth!RequestRecords
    <2> HIDE DEF q, more
    <2>3. k1 \in Auth!RequestRecords /\ k1.pending = q.pending
      BY ONLY <1>1, <2>2 DEF Auth!RequestRecords
    <2>4. k \in Auth!RequestRecords
      <3> HIDE DEF k1
      <3> QED BY ONLY <2>3 DEF Auth!RequestRecords, Auth!Timers
    <2>5. /\ k.at = q.at /\ k.by = q.by /\ k.pending = q.pending /\ k.timer = "answer"
          /\ k.begun = q.begun /\ k.session = q.session /\ k.waiting = TRUE
          /\ k.unanswered = more /\ k.answers = q.answers /\ k.told = q.told
      BY ONLY <1>1 DEF Auth!RequestRecords
    <2>6. Auth!Prompted(k1) = k
      <3> HIDE DEF k1
      <3> QED BY <1>2, <2>3 DEF Auth!Prompted, Auth!Waits
    <2> HIDE DEF k, k1
    <2>7. Auth!Waits(k)
      BY <1>2, <2>2, <2>5 DEF Auth!Waits
    <2> USE DEF q
    <2> QED BY <1>1, <1>2, <2>1, <2>4, <2>5, <2>6, <2>7, AuthGoesOn
  <1>4. CASE Auth!SessionCompleted(r)
    <2>1. PICK gained \in BOOLEAN :
            Auth!Becomes(r, Auth!Finish([q EXCEPT !.gained = gained],
                                        IF gained THEN "authorized" ELSE "denied"))
      BY <1>4 DEF Auth!SessionCompleted
    <2> DEFINE k == [q EXCEPT !.gained = gained]
               e == IF gained THEN "authorized" ELSE "denied"
    <2>2. authRequest[r].at = "open"
      BY <1>2
    <2> HIDE DEF q
    <2>3. k \in Auth!RequestRecords
      BY ONLY <1>1, gained \in BOOLEAN DEF Auth!RequestRecords
    <2>4. /\ k.at = q.at /\ k.pending = q.pending /\ k.timer = q.timer
          /\ k.begun = q.begun /\ k.session = q.session /\ k.waiting = q.waiting
          /\ k.unanswered = q.unanswered /\ k.answers = q.answers /\ k.told = q.told
          /\ k.gained = gained
      BY ONLY <1>1 DEF Auth!RequestRecords
    <2>5. e \in {"authorized", "denied", "cancelled"} /\ (e = "authorized" => gained)
      OBVIOUS
    <2>6. Auth!Becomes(r, Auth!Finish(k, e))
      BY <2>1
    <2> HIDE DEF k, e
    <2>7. Auth!Waits(k) /\ k.at = "open" /\ (e = "authorized" => k.gained)
      BY <1>2, <2>4, <2>5 DEF Auth!Waits
    <2> QED BY <1>1, <2>2, <2>3, <2>5, <2>6, <2>7, AuthEnding
  <1> QED BY <1>3, <1>4

(* A shell claims a request, answers the helper or gives up; a timer ends.  *)
LEMMA AuthShell ==
  ASSUME Auth!IInv, NEW r \in Auth!Requests,
         \/ Auth!Timeout(r)
         \/ \E c \in Shells \union {Auth!Lua} : Auth!Begin(c, r) \/ Auth!Respond(c, r) \/ Auth!Cancel(c, r)
  PROVE  Auth!IInv' /\ AuthHeard(r)
  <1> USE AuthFacts
  <1> DEFINE q == authRequest[r]
  <1>1. UNCHANGED <<agent, agents, polkitKnows>> /\ q \in Auth!RequestRecords
    BY DEF Auth!Timeout, Auth!Begin, Auth!Respond, Auth!Cancel, Auth!agentVars
  <1>2. q.at = "open" /\ Auth!Waits(q)
    BY AuthOpen DEF Auth!Timeout, Auth!Begin, Auth!Respond, Auth!Cancel, Auth!Reaches
  <1>3. CASE Auth!Timeout(r)
    BY <1>1, <1>2, <1>3, AuthRemoved, AuthEnding DEF Auth!Timeout
  <1>4. ASSUME NEW c, Auth!Begin(c, r) PROVE Auth!IInv' /\ AuthHeard(r)
    <2> DEFINE k1 == [q EXCEPT !.begun = TRUE, !.session = TRUE]
               k == [k1 EXCEPT !.timer = "answer"]
    <2>1. Auth!Becomes(r, k)
      BY <1>4 DEF Auth!Begin, Auth!Handled
    <2> HIDE DEF q
    <2>2. k1 \in Auth!RequestRecords
      BY ONLY <1>1 DEF Auth!RequestRecords
    <2>3. k \in Auth!RequestRecords
      <3> HIDE DEF k1
      <3> QED BY ONLY <2>2 DEF Auth!RequestRecords, Auth!Timers
    <2>4. /\ k.at = q.at /\ k.by = q.by /\ k.pending = q.pending /\ k.timer = "answer"
          /\ k.begun = TRUE /\ k.session = TRUE /\ k.waiting = q.waiting
          /\ k.unanswered = q.unanswered /\ k.answers = q.answers /\ k.told = q.told
      BY ONLY <1>1 DEF Auth!RequestRecords
    <2> HIDE DEF k
    <2>5. Auth!Waits(k)
      BY <1>2, <2>4 DEF Auth!Waits
    <2> USE DEF q
    <2> QED BY <1>1, <1>2, <2>1, <2>3, <2>4, <2>5, AuthGoesOn
  <1>5. ASSUME NEW c, Auth!Respond(c, r) PROVE Auth!IInv' /\ AuthHeard(r)
    <2> DEFINE less == q.unanswered - 1
               k1 == [q EXCEPT !.waiting = FALSE, !.unanswered = less]
               k == [k1 EXCEPT !.timer = "answer"]
    <2>1. Auth!Becomes(r, k) /\ q.session /\ q.waiting
      BY <1>5 DEF Auth!Respond, Auth!Handled, Auth!Awaits
    <2>2. less \in Int /\ less >= 0
      BY <1>1, <1>2, <2>1 DEF Auth!Waits, Auth!RequestRecords
    <2> HIDE DEF q, less
    <2>3. k1 \in Auth!RequestRecords
      BY ONLY <1>1, <2>2 DEF Auth!RequestRecords
    <2>4. k \in Auth!RequestRecords
      <3> HIDE DEF k1
      <3> QED BY ONLY <2>3 DEF Auth!RequestRecords, Auth!Timers
    <2>5. /\ k.at = q.at /\ k.by = q.by /\ k.pending = q.pending /\ k.timer = "answer"
          /\ k.begun = q.begun /\ k.session = q.session /\ k.waiting = FALSE
          /\ k.unanswered = less /\ k.answers = q.answers /\ k.told = q.told
      BY ONLY <1>1 DEF Auth!RequestRecords
    <2> HIDE DEF k
    <2>6. Auth!Waits(k)
      BY <1>2, <2>1, <2>2, <2>5 DEF Auth!Waits
    <2> USE DEF q
    <2> QED BY <1>1, <1>2, <2>1, <2>4, <2>5, <2>6, AuthGoesOn
  <1>6. ASSUME NEW c, Auth!Cancel(c, r) PROVE Auth!IInv' /\ AuthHeard(r)
    BY <1>1, <1>2, <1>6, AuthEnding DEF Auth!Cancel
  <1> QED BY <1>3, <1>4, <1>5, <1>6

(* Every step of the authentication agent keeps the invariant.              *)
LEMMA AuthStep ==
  ASSUME Auth!IInv, Auth!Next \/ UNCHANGED authVars
  PROVE  Auth!IInv'
  <1>1. CASE UNCHANGED authVars
    BY <1>1 DEF authVars, Auth!IInv, Auth!TableBounded, Auth!Pending
  <1>2. CASE Auth!Next
    BY <1>2, AuthConfigured, AuthComes, AuthCancels, AuthHelper, AuthShell DEF Auth!Next
  <1> QED BY <1>1, <1>2

(* The invariant of the authentication agent is what its run checks.        *)
LEMMA AuthInvariant == Auth!IInv => Auth!AuthSound
  <1> SUFFICES ASSUME Auth!IInv PROVE Auth!AuthSound
    OBVIOUS
  <1> USE AuthFacts
  <1>1. Auth!TypeOK
    BY DEF Auth!TypeOK, Auth!RequestRecords, Auth!Timers
  <1>2. Auth!NothingHangs
    BY DEF Auth!NothingHangs, Auth!Waits
  <1>3. Auth!NothingOutlives
    BY AuthOpen DEF Auth!NothingOutlives
  <1>4. Auth!GrantedByTheHelper
    <2> SUFFICES ASSUME NEW r \in Auth!Requests
                 PROVE  /\ (\E i \in DOMAIN authRequest[r].told :
                              authRequest[r].told[i] = "authorized") => authRequest[r].gained
                        /\ authRequest[r].unanswered >= 0
      BY DEF Auth!GrantedByTheHelper
    <2> DEFINE q == authRequest[r]
    <2>1. q \in Auth!RequestRecords /\ Auth!RequestRight(q)
      OBVIOUS
    <2> HIDE DEF q
    <2>2. q.unanswered >= 0
      BY <2>1 DEF Auth!RequestRight, Auth!RequestRecords, Auth!Waits, Auth!Ended, Auth!NewRequest
    <2>3. q.told = <<"requested", "authorized">> => q.gained
      <3>1. q.at \in {"new", "open", "over"}
        BY <2>1 DEF Auth!RequestRecords
      <3>2. CASE q.at = "new"
        <4>1. q.told = <<>>
          BY <2>1, <3>2 DEF Auth!RequestRight, Auth!NewRequest
        <4>2. Len(<<>>) = 0 /\ Len(<<"requested", "authorized">>) = 2
          OBVIOUS
        <4> QED BY ONLY <4>1, <4>2
      <3>3. CASE q.at = "open"
        <4>1. q.told = <<"requested">>
          BY <2>1, <3>3 DEF Auth!RequestRight, Auth!Waits
        <4> QED BY <4>1
      <3>4. CASE q.at = "over"
        BY <2>1, <3>4 DEF Auth!RequestRight, Auth!Ended
      <3> QED BY <3>1, <3>2, <3>3, <3>4
    <2>4. q.told \in {<<>>, <<"requested">>, <<"requested", "authorized">>,
                      <<"requested", "denied">>, <<"requested", "cancelled">>}
      BY <2>1 DEF Auth!RequestRecords
    <2>5. (\E i \in DOMAIN q.told : q.told[i] = "authorized") => q.told = <<"requested", "authorized">>
      BY <2>4
    <2> QED BY <2>2, <2>3, <2>5 DEF q
  <1>5. Auth!TableBounded
    BY DEF Auth!IInv
  <1> QED BY <1>1, <1>2, <1>3, <1>4, <1>5 DEF Auth!AuthSound

-----------------------------------------------------------------------------
(* The requests of the keyring.                                             *)

(* The keyring's prompts: what the invariant says of the requests.          *)
LEMMA PromptFacts ==
  ASSUME Asking!RequestsKept
  PROVE  /\ PromptQuestions \in Nat /\ PromptPending \in Nat
         /\ Asking!Requests = 1 .. PromptQuestions
         /\ promptRequest \in [Asking!Requests -> Asking!RequestRecords]
         /\ Asking!Pending = {r \in Asking!Requests : promptRequest[r].pending}
         /\ Cardinality(Asking!Pending) <= PromptPending
         /\ \A p : Asking!Asks(p) = {r \in Asking!Requests : promptRequest[r].pending
                                                             /\ promptRequest[r].prompt = p}
         /\ \A r \in Asking!Requests :
              /\ promptRequest[r] \in Asking!RequestRecords
              /\ Asking!RequestRight(promptRequest[r])
              /\ promptRequest[r].pending => Asking!Unanswered(promptRequest[r])
         /\ password \in [Prompts -> Asking!Requests \union {0}]
         /\ \A p \in Prompts : password[p] # 0 =>
              /\ password[p] \in Asking!Requests /\ Asking!Asks(p) = {}
              /\ promptRequest[password[p]].prompt = p
              /\ promptRequest[password[p]].answers = <<"given">>
              /\ ~promptRequest[password[p]].pending
  <1>1. PromptQuestions \in Nat /\ PromptPending \in Nat
    BY DesktopAssumption DEF Asking!PromptAssumption
  <1>2. Cardinality(Asking!Pending) <= PromptPending
    BY SameCardinality DEF Asking!RequestsKept
  <1>3. Asking!Requests = 1 .. PromptQuestions
    BY DEF Asking!Requests
  <1>4. \A p : Asking!Asks(p) = {r \in Asking!Requests : promptRequest[r].pending
                                                         /\ promptRequest[r].prompt = p}
    BY DEF Asking!Asks, Asking!Pending
  <1>5. \A r \in Asking!Requests :
              /\ promptRequest[r] \in Asking!RequestRecords
              /\ Asking!RequestRight(promptRequest[r])
              /\ promptRequest[r].pending => Asking!Unanswered(promptRequest[r])
    BY DEF Asking!RequestsKept, Asking!RequestRight
  <1>6. ASSUME NEW p \in Prompts, password[p] # 0
        PROVE  /\ password[p] \in Asking!Requests /\ Asking!Asks(p) = {}
               /\ promptRequest[password[p]].prompt = p
               /\ promptRequest[password[p]].answers = <<"given">>
               /\ ~promptRequest[password[p]].pending
    <2>1. /\ password[p] \in Asking!Requests /\ Asking!Asks(p) = {}
          /\ promptRequest[password[p]].prompt = p
          /\ promptRequest[password[p]].answers = <<"given">>
      BY <1>6 DEF Asking!RequestsKept, Asking!SecretsWiped
    <2>2. <<"given">> # <<>>
      OBVIOUS
    <2> QED BY <1>5, <2>1, <2>2 DEF Asking!Unanswered
  <1>7. /\ Asking!Pending = {r \in Asking!Requests : promptRequest[r].pending}
        /\ promptRequest \in [Asking!Requests -> Asking!RequestRecords]
        /\ password \in [Prompts -> Asking!Requests \union {0}]
    BY DEF Asking!RequestsKept, Asking!Pending
  <1> QED BY <1>1, <1>2, <1>3, <1>4, <1>5, <1>6, <1>7

(* A request that ends: with a password, or without.                        *)
LEMMA PromptEnds ==
  ASSUME NEW q \in Asking!RequestRecords, q.pending, Asking!Unanswered(q)
  PROVE  /\ \A e \in {"answered", "cancelled", "timeout"} :
              LET k == Asking!End(q, e)
              IN  /\ k \in Asking!RequestRecords /\ ~k.pending /\ Asking!RequestRight(k)
                  /\ k.prompt = q.prompt
                  /\ k.answers = <<"cancelled">> /\ k.told = <<"requested", e>>
         /\ LET k == Asking!Responded(q)
            IN  /\ k \in Asking!RequestRecords /\ ~k.pending /\ Asking!RequestRight(k)
                /\ k.prompt = q.prompt
                /\ k.answers = <<"given">> /\ k.told = <<"requested", "answered">>
  <1>1. q.answers = <<>> /\ q.told = <<"requested">>
    BY DEF Asking!Unanswered
  <1>2. ASSUME NEW x \in Asking!RequestRecords, NEW y \in {"cancelled", "given"},
               x.pending, x.prompt = q.prompt, x.told = <<"requested">>,
               NEW e \in {"answered", "cancelled", "timeout"},
               Asking!Answered(x, "cancelled") = [x EXCEPT !.answers = <<y>>]
        PROVE  LET k == Asking!End(x, e)
               IN  /\ k \in Asking!RequestRecords /\ ~k.pending /\ Asking!RequestRight(k)
                   /\ k.prompt = q.prompt /\ k.answers = <<y>> /\ k.told = <<"requested", e>>
    <2> DEFINE a == <<y>>
               t == <<"requested", e>>
               k1 == [x EXCEPT !.answers = a]
               k2 == [k1 EXCEPT !.pending = FALSE, !.timer = FALSE, !.watched = FALSE]
               k == [k2 EXCEPT !.recipients = {}, !.told = t]
    <2>1. a \in {<<>>, <<"cancelled">>, <<"given">>} /\ a # <<>>
      OBVIOUS
    <2>2. /\ t \in {<<>>, <<"requested">>, <<"requested", "answered">>,
                    <<"requested", "cancelled">>, <<"requested", "timeout">>}
          /\ t # <<"requested">>
      OBVIOUS
    <2>3. Append(<<"requested">>, e) = t
      BY Appends
    <2> HIDE DEF a, t
    <2>4. k1 \in Asking!RequestRecords /\ k1.told = x.told
      BY ONLY x \in Asking!RequestRecords, <2>1 DEF Asking!RequestRecords
    <2>5. k2 \in Asking!RequestRecords /\ k2.told = k1.told
      <3> HIDE DEF k1
      <3> QED BY ONLY <2>4 DEF Asking!RequestRecords
    <2>6. k \in Asking!RequestRecords
      <3> HIDE DEF k2
      <3> QED BY ONLY <2>5, <2>2 DEF Asking!RequestRecords
    <2>7. /\ k.pending = FALSE /\ k.timer = FALSE /\ k.watched = FALSE /\ k.prompt = x.prompt
          /\ k.answers = a /\ k.told = t
      BY ONLY x \in Asking!RequestRecords DEF Asking!RequestRecords
    <2>8. Asking!End(x, e) = k
      <3> DEFINE k3 == [k1 EXCEPT !.pending = FALSE, !.timer = FALSE, !.watched = FALSE,
                                  !.recipients = {}, !.told = Append(@, e)]
      <3>1. Asking!Answered(x, "cancelled") = k1
        BY <1>2 DEF a
      <3>2. Asking!End(x, e) = k3
        <4> HIDE DEF k1
        <4> QED BY <1>2, <3>1 DEF Asking!End
      <3>3. Append(k1.told, e) = t
        BY <1>2, <2>3, <2>4
      <3>4. k3 = k
        <4> HIDE DEF k1, t
        <4> QED BY ONLY <2>4, <3>3 DEF Asking!RequestRecords
      <3> QED BY <3>2, <3>4
    <2> HIDE DEF k
    <2>9. Asking!RequestRight(k)
      BY <2>1, <2>2, <2>7 DEF Asking!RequestRight
    <2> QED BY <1>2, <2>6, <2>7, <2>8, <2>9 DEF a, t
  <1>3. ASSUME NEW e \in {"answered", "cancelled", "timeout"}
        PROVE  LET k == Asking!End(q, e)
               IN  /\ k \in Asking!RequestRecords /\ ~k.pending /\ Asking!RequestRight(k)
                   /\ k.prompt = q.prompt
                   /\ k.answers = <<"cancelled">> /\ k.told = <<"requested", e>>
    <2>1. Asking!Answered(q, "cancelled") = [q EXCEPT !.answers = <<"cancelled">>]
      BY <1>1 DEF Asking!Answered
    <2> QED BY <1>1, <1>2, <2>1
  <1>4. LET k == Asking!Responded(q)
        IN  /\ k \in Asking!RequestRecords /\ ~k.pending /\ Asking!RequestRight(k)
            /\ k.prompt = q.prompt
            /\ k.answers = <<"given">> /\ k.told = <<"requested", "answered">>
    <2> DEFINE a == <<"given">>
               x == [q EXCEPT !.answers = a]
    <2>1. a \in {<<>>, <<"cancelled">>, <<"given">>} /\ a # <<>>
      OBVIOUS
    <2>2. Asking!Answered(q, "given") = x
      BY <1>1 DEF Asking!Answered
    <2> HIDE DEF a
    <2>3. /\ x \in Asking!RequestRecords /\ x.pending = q.pending /\ x.prompt = q.prompt
          /\ x.told = q.told /\ x.answers = a /\ [x EXCEPT !.answers = a] = x
      BY ONLY <2>1, q \in Asking!RequestRecords DEF Asking!RequestRecords
    <2> HIDE DEF x
    <2>4. Asking!Answered(x, "cancelled") = [x EXCEPT !.answers = a]
      BY <2>1, <2>3 DEF Asking!Answered
    <2>5. Asking!Responded(q) = Asking!End(x, "answered")
      BY <2>2 DEF Asking!Responded
    <2> QED BY <1>1, <1>2, <2>3, <2>4, <2>5 DEF a
  <1> QED BY <1>3, <1>4

(* What is heard of a request: nothing new, or how it ended.                *)
PromptHeard(r) ==
  LET q == promptRequest[r]
      k == promptRequest'[r]
  IN  \/ k.answers = q.answers /\ k.told = q.told
      \/ /\ q.answers = <<>> /\ q.told = <<"requested">>
         /\ \/ k.answers = <<"given">> /\ k.told = <<"requested", "answered">>
            \/ /\ k.answers = <<"cancelled">>
               /\ \E e \in {"cancelled", "timeout"} : k.told = <<"requested", e>>

(* Some requests that wait end, and no password stays where one waits.      *)
LEMMA PromptsEnd ==
  ASSUME Asking!RequestsKept,
         NEW f \in [Asking!Requests -> Asking!RequestRecords], promptRequest' = f,
         \A r \in Asking!Requests :
           \/ f[r] = promptRequest[r]
           \/ /\ promptRequest[r].pending /\ ~f[r].pending
              /\ f[r].prompt = promptRequest[r].prompt /\ Asking!RequestRight(f[r]),
         password' \in [Prompts -> Asking!Requests \union {0}],
         \A p \in Prompts : password'[p] # 0 =>
           \/ password'[p] = password[p]
           \/ LET r == password'[p]
              IN  /\ promptRequest[r].pending /\ promptRequest[r].prompt = p
                  /\ ~f[r].pending /\ f[r].answers = <<"given">>
  PROVE  Asking!RequestsKept' /\ (Asking!Pending' \subseteq Asking!Pending)
  <1> USE PromptFacts
  <1>1. \A r \in Asking!Requests : Asking!RequestRight(f[r])
    OBVIOUS
  <1>2. \A r \in Asking!Requests :
          /\ f[r].pending => promptRequest[r].pending
          /\ f[r].pending \/ promptRequest[r].pending => f[r].prompt = promptRequest[r].prompt
    OBVIOUS
  <1>3. Asking!Pending' = {r \in Asking!Requests : f[r].pending}
    BY DEF Asking!Pending
  <1>4. \A p : Asking!Asks(p)' = {r \in Asking!Requests : f[r].pending /\ f[r].prompt = p}
    BY <1>3 DEF Asking!Asks
  <1>5. \A p \in Prompts : Asking!Asks(p)' \subseteq Asking!Asks(p)
    BY <1>2, <1>4
  <1>6. \A p \in Prompts : \A r, s \in Asking!Asks(p)' : r = s
    BY <1>5 DEF Asking!RequestsKept
  <1>7. Asking!Pending' \in SUBSET Asking!Pending
    BY <1>2, <1>3
  <1>8. Cardinality(Asking!Pending') <= PromptPending
    <2>1. Asking!Pending \in SUBSET (1 .. PromptQuestions)
      OBVIOUS
    <2> QED BY <1>7, <2>1, CountedPending
  <1>9. ASSUME NEW p \in Prompts, password'[p] # 0
        PROVE  /\ Asking!Asks(p)' = {}
               /\ f[password'[p]].prompt = p /\ f[password'[p]].answers = <<"given">>
    <2> DEFINE r == password'[p]
    <2>1. CASE r = password[p]
      <3>1. /\ r \in Asking!Requests /\ Asking!Asks(p) = {} /\ ~promptRequest[r].pending
            /\ promptRequest[r].prompt = p /\ promptRequest[r].answers = <<"given">>
        BY <1>9, <2>1
      <3>2. f[r] = promptRequest[r]
        BY <3>1
      <3> QED BY <1>5, <3>1, <3>2
    <2>2. CASE r # password[p]
      <3>1. /\ r \in Asking!Requests /\ promptRequest[r].pending /\ promptRequest[r].prompt = p
            /\ ~f[r].pending /\ f[r].answers = <<"given">>
        BY <1>9, <2>2
      <3>2. f[r].prompt = p
        BY <1>2, <3>1
      <3>3. Asking!Asks(p)' = {}
        <4> SUFFICES ASSUME NEW s \in Asking!Asks(p)' PROVE FALSE
          OBVIOUS
        <4>1. s \in Asking!Asks(p) /\ r \in Asking!Asks(p)
          BY <1>5, <3>1
        <4>2. s = r
          BY <4>1 DEF Asking!RequestsKept
        <4> QED BY <1>4, <3>1, <4>2
      <3> QED BY <3>1, <3>2, <3>3
    <2> QED BY <2>1, <2>2
  <1>10. Asking!SecretsWiped'
    BY <1>9 DEF Asking!SecretsWiped
  <1>11. (Asking!Cardinality(Asking!Pending) <= PromptPending)'
    BY <1>8, SameCardinality
  <1> QED BY <1>1, <1>6, <1>7, <1>10, <1>11 DEF Asking!RequestsKept

(* A request that comes is turned down or waits, in a table that has room.  *)
LEMMA PromptComes ==
  ASSUME Asking!RequestsKept, NEW r \in Asking!Requests, NEW p \in Prompts, Asking!Start(r, p)
  PROVE  /\ Asking!RequestsKept' /\ broker' = broker
         /\ Asking!Pending' \subseteq Asking!Pending \/ broker # 0
         /\ promptRequest[r].answers = <<>> /\ promptRequest[r].told = <<>>
         /\ \A s \in Asking!Requests \ {r} : promptRequest'[s] = promptRequest[s]
         /\ LET k == promptRequest'[r]
            IN  \/ k.answers = <<>> /\ k.told = <<"requested">>
                \/ k.answers = <<"cancelled">> /\ k.told = <<>>
  <1> USE PromptFacts
  <1> DEFINE q == promptRequest[r]
             f == promptRequest'
  <1>1. /\ q = Asking!NewRequest /\ Asking!Asks(p) = {} /\ q \in Asking!RequestRecords
        /\ password' = [password EXCEPT ![p] = 0] /\ broker' = broker
    BY DEF Asking!Start, Asking!Wiped, Asking!brokerVars
  <1>2. /\ q.pending = FALSE /\ q.timer = FALSE /\ q.watched = FALSE
        /\ q.answers = <<>> /\ q.told = <<>>
    <2>1. q = Asking!NewRequest
      BY <1>1
    <2> HIDE DEF q
    <2> QED BY ONLY <2>1 DEF Asking!NewRequest
  <1>3. PICK serving \in BOOLEAN, watched \in BOOLEAN, cancelled \in BOOLEAN,
             listening \in SUBSET Shells :
          f = [promptRequest EXCEPT ![r] =
                 IF Asking!Refused(serving, cancelled)
                 THEN Asking!Answered([Asking!NewRequest EXCEPT !.prompt = p], "cancelled")
                 ELSE Asking!Started(p, watched, listening)]
    <2> HIDE DEF q
    <2> QED BY ONLY Asking!Start(r, p) DEF Asking!Start
  <1>4. \E k \in Asking!RequestRecords :
          /\ f = [promptRequest EXCEPT ![r] = k] /\ Asking!RequestRight(k) /\ k.prompt = p
          /\ \/ ~k.pending /\ k.answers = <<"cancelled">> /\ k.told = <<>>
             \/ /\ k.pending /\ k.answers = <<>> /\ k.told = <<"requested">>
                /\ broker # 0 /\ Cardinality(Asking!Pending) < PromptPending
    <2>1. CASE Asking!Refused(serving, cancelled)
      <3> DEFINE a == <<"cancelled">>
                 k1 == [q EXCEPT !.prompt = p]
                 k == [k1 EXCEPT !.answers = a]
      <3>1. a \in {<<>>, <<"cancelled">>, <<"given">>} /\ a # <<>>
        OBVIOUS
      <3>2. f = [promptRequest EXCEPT ![r] = Asking!Answered(k1, "cancelled")]
        BY <1>1, <1>3, <2>1
      <3> HIDE DEF q
      <3>3. k1 \in Asking!RequestRecords /\ k1.answers = q.answers
        BY ONLY <1>1, p \in Prompts DEF Asking!RequestRecords
      <3>4. Asking!Answered(k1, "cancelled") = k
        <4> HIDE DEF k1
        <4> QED BY <1>2, <3>3 DEF Asking!Answered
      <3> HIDE DEF a
      <3>5. k \in Asking!RequestRecords
        <4> HIDE DEF k1
        <4> QED BY ONLY <3>1, <3>3 DEF Asking!RequestRecords
      <3>6. /\ k.pending = q.pending /\ k.timer = q.timer /\ k.watched = q.watched
            /\ k.prompt = p /\ k.answers = a /\ k.told = q.told
        BY ONLY <1>1 DEF Asking!RequestRecords
      <3> HIDE DEF k
      <3>7. <<>> # <<"requested">>
        OBVIOUS
      <3>8. Asking!RequestRight(k)
        BY <1>2, <3>1, <3>6, <3>7 DEF Asking!RequestRight
      <3> QED BY <1>2, <3>2, <3>4, <3>5, <3>6, <3>8 DEF a
    <2>2. CASE ~Asking!Refused(serving, cancelled)
      <3> DEFINE t == <<"requested">>
                 k == [q EXCEPT !.prompt = p, !.pending = TRUE, !.timer = TRUE,
                                !.watched = watched, !.recipients = listening, !.told = t]
      <3>1. Asking!Started(p, watched, listening) = k
        BY <1>1 DEF Asking!Started
      <3>2. f = [promptRequest EXCEPT ![r] = k]
        BY <1>3, <2>2, <3>1
      <3>3. t \in {<<>>, <<"requested">>}
        OBVIOUS
      <3> HIDE DEF t, q
      <3>4. k \in Asking!RequestRecords
        BY ONLY <1>1, <3>3, p \in Prompts, watched \in BOOLEAN, listening \in SUBSET Shells
        DEF Asking!RequestRecords
      <3>5. k.pending = TRUE /\ k.prompt = p /\ k.answers = q.answers /\ k.told = t /\ k.timer = TRUE
        BY ONLY <1>1 DEF Asking!RequestRecords
      <3>6. broker # 0 /\ Cardinality(Asking!Pending) < PromptPending
        <4>1. broker # 0 /\ ~(Cardinality(Asking!Pending) >= PromptPending)
          BY <2>2, SameCardinality DEF Asking!Refused
        <4>2. Cardinality(Asking!Pending) \in Nat
          BY CountedPending
        <4> QED BY <4>1, <4>2
      <3> HIDE DEF k
      <3>7. Asking!RequestRight(k)
        BY <1>2, <3>5 DEF Asking!RequestRight, Asking!Unanswered, t
      <3> QED BY <1>2, <3>2, <3>4, <3>5, <3>6, <3>7 DEF t
    <2> QED BY <2>1, <2>2
  <1>5. PICK k \in Asking!RequestRecords :
          /\ f = [promptRequest EXCEPT ![r] = k] /\ Asking!RequestRight(k) /\ k.prompt = p
          /\ \/ ~k.pending /\ k.answers = <<"cancelled">> /\ k.told = <<>>
             \/ /\ k.pending /\ k.answers = <<>> /\ k.told = <<"requested">>
                /\ broker # 0 /\ Cardinality(Asking!Pending) < PromptPending
    BY <1>4
  <1>6. \A s \in Asking!Requests : f[s] = IF s = r THEN k ELSE promptRequest[s]
    BY <1>5
  <1> HIDE DEF f, q
  <1>7. f \in [Asking!Requests -> Asking!RequestRecords]
    BY <1>5
  <1>8. Asking!Pending' = {s \in Asking!Requests : f[s].pending}
    BY DEF f, Asking!Pending
  <1>9. \A o : Asking!Asks(o)' = {s \in Asking!Requests : f[s].pending /\ f[s].prompt = o}
    BY <1>8 DEF Asking!Asks, f
  <1>10. \A o \in Prompts : Asking!Asks(o)' \subseteq IF o = p THEN {r} ELSE Asking!Asks(o)
    BY <1>1, <1>5, <1>6, <1>9
  <1>11. \A o \in Prompts : \A s, t \in Asking!Asks(o)' : s = t
    BY <1>10 DEF Asking!RequestsKept
  <1>12. Cardinality(Asking!Pending') <= PromptPending
    <2>1. Asking!Pending \in SUBSET (1 .. PromptQuestions)
      OBVIOUS
    <2>2. CASE ~k.pending
      <3>1. Asking!Pending' \in SUBSET Asking!Pending
        BY <1>6, <1>8, <2>2
      <3> QED BY <2>1, <3>1, CountedPending
    <2>3. CASE k.pending
      <3>1. Asking!Pending' \subseteq Asking!Pending \cup {r}
        BY <1>6, <1>8
      <3> QED BY <1>5, <2>1, <2>3, <3>1, CountedPending
    <2> QED BY <2>2, <2>3
  <1>13. ASSUME NEW o \in Prompts, password'[o] # 0
         PROVE  /\ Asking!Asks(o)' = {} /\ password'[o] \in Asking!Requests
                /\ f[password'[o]].prompt = o /\ f[password'[o]].answers = <<"given">>
    <2>1. o # p /\ password'[o] = password[o]
      BY <1>1, <1>13
    <2>2. /\ password[o] \in Asking!Requests /\ Asking!Asks(o) = {}
          /\ promptRequest[password[o]].prompt = o
          /\ promptRequest[password[o]].answers = <<"given">>
      BY <1>13, <2>1
    <2>3. password[o] # r
      <3>1. <<"given">> # <<>>
        OBVIOUS
      <3> QED BY <1>2, <2>2, <3>1 DEF q
    <2> QED BY <1>6, <1>10, <2>1, <2>2, <2>3
  <1>14. Asking!SecretsWiped'
    BY <1>13 DEF Asking!SecretsWiped, f
  <1>15. password' \in [Prompts -> Asking!Requests \union {0}]
    BY <1>1
  <1>16. \A s \in Asking!Requests : Asking!RequestRight(f[s])
    BY <1>5, <1>6
  <1>17. (Asking!Cardinality(Asking!Pending) <= PromptPending)'
    BY <1>12, SameCardinality
  <1>18. Asking!RequestsKept'
    BY <1>7, <1>11, <1>14, <1>15, <1>16, <1>17 DEF Asking!RequestsKept, f
  <1>19. Asking!Pending' \subseteq Asking!Pending \/ broker # 0
    BY <1>5, <1>6, <1>8
  <1> QED BY <1>1, <1>2, <1>5, <1>6, <1>18, <1>19 DEF f, q

(* What ends a request of its own: its timer, its shell, or who asked.      *)
LEMMA PromptEndsOne ==
  ASSUME Asking!RequestsKept, NEW r \in Asking!Requests,
         \/ Asking!PromptCancelled(r) \/ Asking!Timeout(r)
         \/ \E c \in Shells \union {Asking!Lua} : Asking!Respond(c, r) \/ Asking!Cancel(c, r)
  PROVE  /\ Asking!RequestsKept' /\ (Asking!Pending' \subseteq Asking!Pending)
         /\ UNCHANGED <<broker, brokers, toldAvailable>>
         /\ \A s \in Asking!Requests : PromptHeard(s)
  <1> USE PromptFacts
  <1> DEFINE q == promptRequest[r]
  <1>1. UNCHANGED <<broker, brokers, toldAvailable>>
    BY DEF Asking!PromptCancelled, Asking!Timeout, Asking!Respond, Asking!Cancel, Asking!brokerVars
  <1>2. q \in Asking!RequestRecords /\ q.pending /\ Asking!Unanswered(q)
    <2>1. q.pending \/ q.timer \/ q.watched
      BY DEF Asking!PromptCancelled, Asking!Timeout, Asking!Respond, Asking!Cancel, Asking!Reaches
    <2>2. Asking!RequestRight(q)
      OBVIOUS
    <2>3. q.pending
      BY <2>1, <2>2 DEF Asking!RequestRight
    <2> QED BY <2>3
  <1>3. q.answers = <<>> /\ q.told = <<"requested">> /\ q.prompt \in Prompts
    BY <1>2 DEF Asking!Unanswered
  <1>4. \E k \in Asking!RequestRecords :
          /\ promptRequest' = [promptRequest EXCEPT ![r] = k] /\ ~k.pending
          /\ Asking!RequestRight(k) /\ k.prompt = q.prompt
          /\ \/ /\ UNCHANGED password /\ k.answers = <<"cancelled">>
                /\ \E e \in {"cancelled", "timeout"} : k.told = <<"requested", e>>
             \/ /\ password' = [password EXCEPT ![q.prompt] = r]
                /\ k.answers = <<"given">> /\ k.told = <<"requested", "answered">>
    <2>1. ASSUME NEW e \in {"cancelled", "timeout"}, UNCHANGED password,
                 promptRequest' = [promptRequest EXCEPT ![r] = Asking!End(q, e)]
          PROVE  \E k \in Asking!RequestRecords :
                   /\ promptRequest' = [promptRequest EXCEPT ![r] = k] /\ ~k.pending
                   /\ Asking!RequestRight(k) /\ k.prompt = q.prompt
                   /\ UNCHANGED password /\ k.answers = <<"cancelled">> /\ k.told = <<"requested", e>>
      <3> DEFINE k == Asking!End(q, e)
      <3>1. /\ k \in Asking!RequestRecords /\ ~k.pending /\ Asking!RequestRight(k)
            /\ k.prompt = q.prompt /\ k.answers = <<"cancelled">> /\ k.told = <<"requested", e>>
        BY <1>2, PromptEnds
      <3>2. promptRequest' = [promptRequest EXCEPT ![r] = k]
        BY <2>1
      <3> HIDE DEF k, q
      <3> QED BY <2>1, <3>1, <3>2
    <2>2. CASE Asking!PromptCancelled(r)
      BY <2>1, <2>2 DEF Asking!PromptCancelled, Asking!EndOne
    <2>3. CASE Asking!Timeout(r)
      BY <2>1, <2>3 DEF Asking!Timeout, Asking!EndOne
    <2>4. ASSUME NEW c, Asking!Cancel(c, r)
          PROVE  \E k \in Asking!RequestRecords :
                   /\ promptRequest' = [promptRequest EXCEPT ![r] = k] /\ ~k.pending
                   /\ Asking!RequestRight(k) /\ k.prompt = q.prompt
                   /\ UNCHANGED password /\ k.answers = <<"cancelled">>
                   /\ k.told = <<"requested", "cancelled">>
      BY <2>1, <2>4 DEF Asking!Cancel
    <2>5. ASSUME NEW c, Asking!Respond(c, r)
          PROVE  \E k \in Asking!RequestRecords :
                   /\ promptRequest' = [promptRequest EXCEPT ![r] = k] /\ ~k.pending
                   /\ Asking!RequestRight(k) /\ k.prompt = q.prompt
                   /\ password' = [password EXCEPT ![q.prompt] = r]
                   /\ k.answers = <<"given">> /\ k.told = <<"requested", "answered">>
      <3> DEFINE k == Asking!Responded(q)
      <3>1. /\ k \in Asking!RequestRecords /\ ~k.pending /\ Asking!RequestRight(k)
            /\ k.prompt = q.prompt /\ k.answers = <<"given">> /\ k.told = <<"requested", "answered">>
        BY <1>2, PromptEnds
      <3>2. /\ promptRequest' = [promptRequest EXCEPT ![r] = k]
            /\ password' = [password EXCEPT ![q.prompt] = r]
        BY <2>5 DEF Asking!Respond
      <3> HIDE DEF k, q
      <3> QED BY <3>1, <3>2
    <2> HIDE DEF q
    <2> QED BY <2>2, <2>3, <2>4, <2>5, <2>1 DEF Asking!PromptCancelled, Asking!Timeout, Asking!EndOne
  <1>5. PICK k \in Asking!RequestRecords :
          /\ promptRequest' = [promptRequest EXCEPT ![r] = k] /\ ~k.pending
          /\ Asking!RequestRight(k) /\ k.prompt = q.prompt
          /\ \/ /\ UNCHANGED password /\ k.answers = <<"cancelled">>
                /\ \E e \in {"cancelled", "timeout"} : k.told = <<"requested", e>>
             \/ /\ password' = [password EXCEPT ![q.prompt] = r]
                /\ k.answers = <<"given">> /\ k.told = <<"requested", "answered">>
    BY <1>4
  <1> DEFINE f == [promptRequest EXCEPT ![r] = k]
  <1>6. /\ f \in [Asking!Requests -> Asking!RequestRecords] /\ promptRequest' = f
        /\ \A s \in Asking!Requests : f[s] = IF s = r THEN k ELSE promptRequest[s]
    BY <1>5
  <1> HIDE DEF f
  <1>7. password' \in [Prompts -> Asking!Requests \union {0}]
    BY <1>3, <1>5
  <1>8. \A p \in Prompts : password'[p] # 0 =>
           \/ password'[p] = password[p]
           \/ /\ password'[p] = r /\ q.prompt = p /\ k.answers = <<"given">>
    BY <1>3, <1>5
  <1>9. Asking!RequestsKept' /\ (Asking!Pending' \subseteq Asking!Pending)
    <2>1. \A s \in Asking!Requests :
           \/ f[s] = promptRequest[s]
           \/ /\ promptRequest[s].pending /\ ~f[s].pending
              /\ f[s].prompt = promptRequest[s].prompt /\ Asking!RequestRight(f[s])
      BY <1>2, <1>5, <1>6
    <2>2. \A p \in Prompts : password'[p] # 0 =>
           \/ password'[p] = password[p]
           \/ LET s == password'[p]
              IN  /\ promptRequest[s].pending /\ promptRequest[s].prompt = p
                  /\ ~f[s].pending /\ f[s].answers = <<"given">>
      BY <1>2, <1>5, <1>6, <1>8
    <2> QED BY ONLY Asking!RequestsKept, <1>6, <1>7, <2>1, <2>2, PromptsEnd
  <1>10. \A s \in Asking!Requests : PromptHeard(s)
    <2> HIDE DEF q
    <2>1. PromptHeard(r)
      BY <1>3, <1>5, <1>6 DEF PromptHeard, q
    <2>2. \A s \in Asking!Requests : s # r => PromptHeard(s)
      BY <1>6 DEF PromptHeard
    <2> QED BY <2>1, <2>2
  <1> QED BY <1>1, <1>9, <1>10

(* Several requests end at once, cancelled.                                 *)
LEMMA PromptEndsSome ==
  ASSUME Asking!RequestsKept, NEW E \in SUBSET Asking!Pending,
         promptRequest' = [r \in Asking!Requests |->
                            IF r \in E THEN Asking!End(promptRequest[r], "cancelled")
                            ELSE promptRequest[r]],
         password' \in [Prompts -> Asking!Requests \union {0}],
         \A p \in Prompts : password'[p] # 0 => password'[p] = password[p]
  PROVE  /\ Asking!RequestsKept' /\ Asking!Pending' = Asking!Pending \ E
         /\ \A s \in Asking!Requests : PromptHeard(s)
  <1> USE PromptFacts
  <1> DEFINE f == [r \in Asking!Requests |->
                     IF r \in E THEN Asking!End(promptRequest[r], "cancelled")
                     ELSE promptRequest[r]]
  <1>1. \A r \in E : LET k == f[r]
                     IN  /\ k \in Asking!RequestRecords /\ ~k.pending /\ Asking!RequestRight(k)
                         /\ k.prompt = promptRequest[r].prompt
                         /\ k.answers = <<"cancelled">> /\ k.told = <<"requested", "cancelled">>
    <2> SUFFICES ASSUME NEW r \in E
                 PROVE  LET k == f[r]
                        IN  /\ k \in Asking!RequestRecords /\ ~k.pending /\ Asking!RequestRight(k)
                            /\ k.prompt = promptRequest[r].prompt
                            /\ k.answers = <<"cancelled">> /\ k.told = <<"requested", "cancelled">>
      OBVIOUS
    <2>1. /\ r \in Asking!Requests /\ promptRequest[r].pending
          /\ promptRequest[r] \in Asking!RequestRecords /\ Asking!Unanswered(promptRequest[r])
      OBVIOUS
    <2>2. f[r] = Asking!End(promptRequest[r], "cancelled")
      BY <2>1
    <2> HIDE DEF f
    <2> QED BY ONLY <2>1, <2>2, PromptEnds
  <1>2. \A r \in Asking!Requests \ E : f[r] = promptRequest[r]
    OBVIOUS
  <1>3. promptRequest' = f
    OBVIOUS
  <1>4. f \in [Asking!Requests -> Asking!RequestRecords]
    <2>1. \A r \in Asking!Requests : f[r] \in Asking!RequestRecords
      <3> HIDE DEF f
      <3> QED BY <1>1, <1>2
    <2> QED BY <2>1
  <1> HIDE DEF f
  <1>5. \A r \in E : promptRequest[r].pending /\ r \in Asking!Requests
    OBVIOUS
  <1>6. \A r \in Asking!Requests :
           \/ f[r] = promptRequest[r]
           \/ /\ promptRequest[r].pending /\ ~f[r].pending
              /\ f[r].prompt = promptRequest[r].prompt /\ Asking!RequestRight(f[r])
    BY <1>1, <1>2, <1>5
  <1>7. Asking!RequestsKept'
    BY ONLY Asking!RequestsKept, <1>3, <1>4, <1>6, PromptsEnd,
            password' \in [Prompts -> Asking!Requests \union {0}],
            \A p \in Prompts : password'[p] # 0 => password'[p] = password[p]
  <1>8. Asking!Pending' = Asking!Pending \ E
    <2>1. Asking!Pending' = {r \in Asking!Requests : f[r].pending}
      BY <1>3 DEF Asking!Pending
    <2> QED BY <1>1, <1>2, <1>5, <2>1
  <1>9. ASSUME NEW s \in Asking!Requests PROVE PromptHeard(s)
    <2>1. CASE s \in E
      <3>1. promptRequest[s].answers = <<>> /\ promptRequest[s].told = <<"requested">>
        BY <2>1 DEF Asking!Unanswered
      <3> QED BY <1>1, <1>3, <2>1, <3>1 DEF PromptHeard
    <2>2. CASE s \notin E
      BY <1>2, <1>3, <2>2 DEF PromptHeard
    <2> QED BY <2>1, <2>2
  <1> QED BY <1>7, <1>8, <1>9

(* A prompt that closes, and a broker that stops, leave no request behind.  *)
LEMMA PromptClosing ==
  ASSUME Asking!RequestsKept
  PROVE  /\ \A p \in Prompts : Asking!Close(p) =>
              /\ Asking!RequestsKept' /\ (Asking!Pending' \subseteq Asking!Pending)
              /\ UNCHANGED <<broker, brokers, toldAvailable>>
              /\ \A s \in Asking!Requests : PromptHeard(s)
         /\ Asking!EndAll /\ UNCHANGED password =>
              /\ Asking!RequestsKept' /\ Asking!Pending' = {}
              /\ \A s \in Asking!Requests : PromptHeard(s)
  <1> USE PromptFacts
  <1>1. ASSUME NEW p \in Prompts, Asking!Close(p)
        PROVE  /\ Asking!RequestsKept' /\ (Asking!Pending' \subseteq Asking!Pending)
               /\ UNCHANGED <<broker, brokers, toldAvailable>>
               /\ \A s \in Asking!Requests : PromptHeard(s)
    <2> DEFINE E == IF broker # 0 THEN Asking!Asks(p) ELSE {}
    <2>1. E \in SUBSET Asking!Pending
      BY DEF Asking!Asks
    <2>2. promptRequest' = [r \in Asking!Requests |->
                              IF r \in E THEN Asking!End(promptRequest[r], "cancelled")
                              ELSE promptRequest[r]]
      BY <1>1 DEF Asking!Close
    <2>3. password' = [password EXCEPT ![p] = 0]
      BY <1>1 DEF Asking!Close, Asking!Wiped
    <2>4. /\ password' \in [Prompts -> Asking!Requests \union {0}]
          /\ \A o \in Prompts : password'[o] # 0 => password'[o] = password[o]
      BY <2>3
    <2>5. UNCHANGED <<broker, brokers, toldAvailable>>
      BY <1>1 DEF Asking!Close, Asking!brokerVars
    <2> HIDE DEF E
    <2>6. Asking!RequestsKept' /\ Asking!Pending' = Asking!Pending \ E
          /\ \A s \in Asking!Requests : PromptHeard(s)
      BY ONLY Asking!RequestsKept, <2>1, <2>2, <2>4, PromptEndsSome
    <2> QED BY <2>5, <2>6
  <1>2. ASSUME Asking!EndAll, UNCHANGED password
        PROVE  /\ Asking!RequestsKept' /\ Asking!Pending' = {}
               /\ \A s \in Asking!Requests : PromptHeard(s)
    <2> DEFINE E == Asking!Pending
    <2>1. E \in SUBSET Asking!Pending
      OBVIOUS
    <2>2. \A r \in Asking!Requests \ E :
            Asking!End(promptRequest[r], "cancelled") = promptRequest[r]
      BY DEF Asking!End
    <2>3. promptRequest' = [r \in Asking!Requests |->
                              IF r \in E THEN Asking!End(promptRequest[r], "cancelled")
                              ELSE promptRequest[r]]
      BY <1>2, <2>2 DEF Asking!EndAll
    <2>4. /\ password' \in [Prompts -> Asking!Requests \union {0}]
          /\ \A o \in Prompts : password'[o] # 0 => password'[o] = password[o]
      BY <1>2
    <2> HIDE DEF E
    <2>5. Asking!RequestsKept' /\ Asking!Pending' = Asking!Pending \ E
          /\ \A s \in Asking!Requests : PromptHeard(s)
      BY ONLY Asking!RequestsKept, <2>1, <2>3, <2>4, PromptEndsSome
    <2> QED BY <2>5 DEF E
  <1> QED BY <1>1, <1>2

-----------------------------------------------------------------------------
(* The broker of the keyring's prompts.                                     *)

\* One for each thing a broker waits for, for each name it owns, and for the control.
Asked(b) == IF b.bus = "asked" THEN 1 ELSE 0
Waiting(b, n) == IF b.name[n] \in {"asked", "owned", "lost", "left"} THEN 1 ELSE 0
Owning(b, n) == IF b.name[n] = "owned" THEN 1 ELSE 0
Running(i, m) == IF i = m THEN 1 ELSE 0

(* How many of the two names there are in a set of them.                    *)
LEMMA TwoNames ==
  ASSUME NEW S \in SUBSET Asking!Names
  PROVE  Asking!Cardinality(S) = (IF "system" \in S THEN 1 ELSE 0) + (IF "private" \in S THEN 1 ELSE 0)
  <1>1. Cardinality({}) = 0 /\ (\A x : Cardinality({x}) = 1) /\ IsFiniteSet({"system"})
    BY FS_EmptySet, FS_Singleton
  <1>2. Cardinality({"system"} \cup {"private"}) = Cardinality({"system"}) + 1
    BY <1>1, FS_AddElement
  <1>3. S \in {{}, {"system"}, {"private"}, {"system"} \cup {"private"}}
    BY DEF Asking!Names
  <1>4. CASE S = {}
    BY <1>1, <1>4, SameCardinality
  <1>5. CASE S = {"system"}
    BY <1>1, <1>5, SameCardinality
  <1>6. CASE S = {"private"}
    BY <1>1, <1>6, SameCardinality
  <1>7. CASE S = {"system"} \cup {"private"}
    BY <1>1, <1>2, <1>7, SameCardinality
  <1> QED BY <1>3, <1>4, <1>5, <1>6, <1>7

(* What a broker waits for, and the names it owns, counted name by name.    *)
LEMMA BrokerCounts ==
  ASSUME NEW b
  PROVE  /\ Asking!Waits(b) = Asked(b) + (Waiting(b, "system") + Waiting(b, "private"))
         /\ Asking!Cardinality({n \in Asking!Names : b.name[n] = "owned"})
              = Owning(b, "system") + Owning(b, "private")
  <1> DEFINE W == {n \in Asking!Names : b.name[n] \in {"asked", "owned", "lost", "left"}}
             O == {n \in Asking!Names : b.name[n] = "owned"}
  <1>1. /\ W \in SUBSET Asking!Names /\ O \in SUBSET Asking!Names
        /\ Waiting(b, "system") = (IF "system" \in W THEN 1 ELSE 0)
        /\ Waiting(b, "private") = (IF "private" \in W THEN 1 ELSE 0)
        /\ Owning(b, "system") = (IF "system" \in O THEN 1 ELSE 0)
        /\ Owning(b, "private") = (IF "private" \in O THEN 1 ELSE 0)
    BY DEF Waiting, Owning, Asking!Names
  <1>2. Asking!Waits(b) = Asked(b) + Asking!Cardinality(W)
    BY DEF Asking!Waits, Asked
  <1> HIDE DEF W, O
  <1>3. /\ Asking!Cardinality(W) = Waiting(b, "system") + Waiting(b, "private")
        /\ Asking!Cardinality(O) = Owning(b, "system") + Owning(b, "private")
    BY <1>1, TwoNames
  <1> QED BY <1>2, <1>3 DEF O

(* A broker waits for so many things.                                       *)
LEMMA WaitsNat == \A b : Asking!Waits(b) \in Nat
  <1> SUFFICES ASSUME NEW b PROVE Asking!Waits(b) \in Nat
    OBVIOUS
  <1>1. Asking!Waits(b) = Asked(b) + (Waiting(b, "system") + Waiting(b, "private"))
    BY BrokerCounts
  <1>2. Asked(b) \in Nat /\ Waiting(b, "system") \in Nat /\ Waiting(b, "private") \in Nat
    BY DEF Asked, Waiting
  <1> QED BY <1>1, <1>2

(* What the invariant says of the brokers.                                  *)
LEMMA BrokerFacts ==
  ASSUME Asking!BrokersKept
  PROVE  /\ brokers \in Seq(Asking!BrokerRecords) /\ Len(brokers) \in Nat
         /\ DOMAIN brokers = 1 .. Len(brokers) /\ broker \in 0 .. Len(brokers)
         /\ \A i \in 1 .. Len(brokers) :
              /\ brokers[i] \in Asking!BrokerRecords /\ Asking!BrokerRight(brokers[i])
              /\ brokers[i].stopped <=> i # broker
              /\ brokers[i].refs = Asking!Waits(brokers[i]) + Running(i, broker)
         /\ toldAvailable = (broker # 0 /\ brokers[broker].owned = 2)
  <1>1. brokers \in Seq(Asking!BrokerRecords) /\ broker \in 0 .. Len(brokers)
    BY DEF Asking!BrokersKept
  <1>2. /\ Len(brokers) \in Nat /\ DOMAIN brokers = 1 .. Len(brokers)
        /\ \A i \in 1 .. Len(brokers) : brokers[i] \in Asking!BrokerRecords
    BY <1>1
  <1>3. \A i \in 1 .. Len(brokers) :
          /\ Asking!BrokerRight(brokers[i])
          /\ brokers[i].stopped <=> i # broker
          /\ brokers[i].refs = Asking!Waits(brokers[i]) + Running(i, broker)
    BY <1>2 DEF Asking!BrokersKept, Asking!BrokersCounted, Running
  <1>4. toldAvailable = (broker # 0 /\ Asking!Owned(broker) = 2)
    BY DEF Asking!BrokersKept, Asking!AvailableAsTold
  <1>5. ASSUME broker # 0
        PROVE  (Asking!Owned(broker) = 2) = (brokers[broker].owned = 2)
    <2> DEFINE b == brokers[broker]
    <2>1. broker \in 1 .. Len(brokers)
      BY <1>1, <1>2, <1>5
    <2>2. ~b.stopped /\ Asking!BrokerRight(b)
      BY <1>3, <2>1
    <2>3. Asking!Owned(broker) = Owning(b, "system") + Owning(b, "private")
      BY BrokerCounts DEF Asking!Owned
    <2> HIDE DEF b
    <2>4. b.owned = 2 <=> b.name["system"] = "owned" /\ b.name["private"] = "owned"
      BY <2>2 DEF Asking!BrokerRight, Asking!Names
    <2> QED BY <2>3, <2>4 DEF b, Owning
  <1> QED BY <1>1, <1>2, <1>3, <1>4, <1>5

(* And conversely: these facts are the invariant of the brokers.            *)
LEMMA BrokersFrom ==
  ASSUME NEW all, NEW m, brokers' = all, broker' = m,
         all \in Seq(Asking!BrokerRecords), m \in 0 .. Len(all),
         \A i \in 1 .. Len(all) :
              /\ Asking!BrokerRight(all[i])
              /\ all[i].stopped <=> i # m
              /\ all[i].refs = Asking!Waits(all[i]) + Running(i, m),
         toldAvailable' = (m # 0 /\ all[m].owned = 2)
  PROVE  Asking!BrokersKept'
  <1>1. Len(all) \in Nat /\ DOMAIN all = 1 .. Len(all)
    OBVIOUS
  <1>2. Asking!BrokersCounted'
    BY <1>1 DEF Asking!BrokersCounted, Running
  <1>3. ASSUME m # 0
        PROVE  (Asking!Owned(broker)' = 2) = (all[m].owned = 2)
    <2> DEFINE b == all[m]
    <2>1. m \in 1 .. Len(all)
      BY <1>1, <1>3
    <2>2. ~b.stopped /\ Asking!BrokerRight(b)
      BY <2>1
    <2>3. Asking!Cardinality({n \in Asking!Names : b.name[n] = "owned"})
            = Owning(b, "system") + Owning(b, "private")
      BY BrokerCounts
    <2>4. Asking!Owned(broker)' = Asking!Cardinality({n \in Asking!Names : b.name[n] = "owned"})
      BY DEF Asking!Owned
    <2> HIDE DEF b
    <2>5. b.owned = 2 <=> b.name["system"] = "owned" /\ b.name["private"] = "owned"
      BY <2>2 DEF Asking!BrokerRight, Asking!Names
    <2> QED BY <2>3, <2>4, <2>5 DEF b, Owning
  <1>4. Asking!AvailableAsTold'
    BY <1>3 DEF Asking!AvailableAsTold
  <1> QED BY <1>1, <1>2, <1>4 DEF Asking!BrokersKept

(* One broker changes, and may stop being the one that runs.                *)
LEMMA BrokerBecomes ==
  ASSUME Asking!BrokersKept, NEW i \in 1 .. Len(brokers), NEW b \in Asking!BrokerRecords,
         brokers' = [brokers EXCEPT ![i] = b], Asking!BrokerRight(b),
         broker' = broker \/ (i = broker /\ broker' = 0),
         b.stopped <=> i # broker',
         b.refs = Asking!Waits(b) + Running(i, broker'),
         toldAvailable' = IF broker' = 0 THEN FALSE
                          ELSE IF i = broker THEN b.owned = 2 ELSE toldAvailable
  PROVE  Asking!BrokersKept'
  <1> USE BrokerFacts
  <1> DEFINE all == [brokers EXCEPT ![i] = b]
  <1>1. /\ all \in Seq(Asking!BrokerRecords) /\ Len(all) = Len(brokers)
        /\ \A j \in 1 .. Len(brokers) : all[j] = IF j = i THEN b ELSE brokers[j]
    OBVIOUS
  <1>2. brokers' = all
    OBVIOUS
  <1> HIDE DEF all
  <1>3. broker' \in 0 .. Len(brokers')
    BY <1>1, <1>2
  <1>4. \A j \in 1 .. Len(brokers) :
              /\ Asking!BrokerRight(all[j])
              /\ all[j].stopped <=> j # broker'
              /\ all[j].refs = Asking!Waits(all[j]) + Running(j, broker')
    <2> SUFFICES ASSUME NEW j \in 1 .. Len(brokers)
                 PROVE  /\ Asking!BrokerRight(all[j])
                        /\ all[j].stopped <=> j # broker'
                        /\ all[j].refs = Asking!Waits(all[j]) + Running(j, broker')
      OBVIOUS
    <2>1. CASE j = i
      BY <1>1, <2>1
    <2>2. CASE j # i
      <3>1. all[j] = brokers[j] /\ (j # broker <=> j # broker')
        BY <1>1, <2>2
      <3>2. Running(j, broker) = Running(j, broker')
        BY <3>1 DEF Running
      <3>3. /\ Asking!BrokerRight(brokers[j]) /\ (brokers[j].stopped <=> j # broker)
            /\ brokers[j].refs = Asking!Waits(brokers[j]) + Running(j, broker)
        OBVIOUS
      <3> QED BY <3>1, <3>2, <3>3
    <2> QED BY <2>1, <2>2
  <1>5. toldAvailable' = (broker' # 0 /\ all[broker'].owned = 2)
    <2>1. CASE broker' = 0
      BY <2>1
    <2>2. CASE broker' # 0
      <3>1. broker' = broker /\ broker # 0 /\ broker \in 1 .. Len(brokers)
        BY <2>2
      <3>2. CASE i = broker
        BY <1>1, <3>1, <3>2
      <3>3. CASE i # broker
        <4>1. all[broker] = brokers[broker] /\ toldAvailable' = toldAvailable
          BY <1>1, <3>1, <3>3
        <4> QED BY <3>1, <4>1
      <3> QED BY <3>2, <3>3
    <2> QED BY <2>1, <2>2
  <1> DEFINE m == broker'
  <1>6. m \in 0 .. Len(all) /\ toldAvailable' = (m # 0 /\ all[m].owned = 2)
    BY <1>1, <1>2, <1>3, <1>5
  <1>7. \A j \in 1 .. Len(all) :
              /\ Asking!BrokerRight(all[j])
              /\ all[j].stopped <=> j # m
              /\ all[j].refs = Asking!Waits(all[j]) + Running(j, m)
    BY <1>1, <1>4
  <1>8. broker' = m
    OBVIOUS
  <1> HIDE DEF m
  <1> QED BY ONLY <1>1, <1>2, <1>6, <1>7, <1>8, BrokersFrom

(* A broker starts.                                                         *)
LEMMA BrokerStarts ==
  ASSUME Asking!BrokersKept, Asking!Enable
  PROVE  Asking!BrokersKept' /\ UNCHANGED <<promptRequest, password>> /\ broker = 0
  <1> USE BrokerFacts
  <1> DEFINE b == Asking!NewBroker
             all == Append(brokers, b)
             m == Len(brokers) + 1
  <1>1. /\ broker = 0 /\ brokers' = all /\ broker' = Len(all)
        /\ UNCHANGED <<promptRequest, password>>
        /\ toldAvailable' = Asking!Available(broker', brokers')
    BY DEF Asking!Enable, Asking!Publish
  <1>2. b \in Asking!BrokerRecords
    BY DEF Asking!NewBroker, Asking!BrokerRecords, Asking!Names
  <1>3. /\ b.refs = 2 /\ b.bus = "asked" /\ b.stopped = FALSE /\ b.owned = 0
        /\ \A n \in Asking!Names : b.name[n] = "none"
    BY DEF Asking!NewBroker
  <1> HIDE DEF b
  <1>4. /\ all \in Seq(Asking!BrokerRecords) /\ Len(all) = m
        /\ \A j \in 1 .. m : all[j] = IF j = m THEN b ELSE brokers[j]
    BY <1>2
  <1>5. b.name["system"] = "none" /\ b.name["private"] = "none"
    BY <1>3 DEF Asking!Names
  <1>6. Asking!BrokerRight(b)
    <2>1. /\ Asking!Cardinality({n \in Asking!Names : b.name[n] = "owned"})
               = Owning(b, "system") + Owning(b, "private")
          /\ Owning(b, "system") = 0 /\ Owning(b, "private") = 0
      <3>1. Owning(b, "system") = 0 /\ Owning(b, "private") = 0
        BY <1>5 DEF Owning
      <3> QED BY <3>1, BrokerCounts
    <2> QED BY <1>3, <1>5, <2>1 DEF Asking!BrokerRight, Asking!Names
  <1>7. b.refs = Asking!Waits(b) + Running(m, m)
    <2>1. Asking!Waits(b) = Asked(b) + (Waiting(b, "system") + Waiting(b, "private"))
      BY BrokerCounts
    <2>2. Asked(b) = 1 /\ Waiting(b, "system") = 0 /\ Waiting(b, "private") = 0
      BY <1>3, <1>5 DEF Waiting, Asked
    <2>3. Running(m, m) = 1
      BY DEF Running
    <2> QED BY <1>3, <2>1, <2>2, <2>3
  <1> HIDE DEF all
  <1>8. \A j \in 1 .. m :
              /\ Asking!BrokerRight(all[j])
              /\ all[j].stopped <=> j # m
              /\ all[j].refs = Asking!Waits(all[j]) + Running(j, m)
    <2> SUFFICES ASSUME NEW j \in 1 .. m
                 PROVE  /\ Asking!BrokerRight(all[j])
                        /\ all[j].stopped <=> j # m
                        /\ all[j].refs = Asking!Waits(all[j]) + Running(j, m)
      OBVIOUS
    <2>1. CASE j = m
      BY <1>3, <1>4, <1>6, <1>7, <2>1
    <2>2. CASE j # m
      <3>1. j \in 1 .. Len(brokers) /\ all[j] = brokers[j] /\ j # broker
        BY <1>1, <1>4, <2>2
      <3>2. Running(j, broker) = 0 /\ Running(j, m) = 0
        BY <2>2, <3>1 DEF Running
      <3>3. /\ Asking!BrokerRight(brokers[j]) /\ (brokers[j].stopped <=> j # broker)
            /\ brokers[j].refs = Asking!Waits(brokers[j]) + Running(j, broker)
        BY <3>1
      <3> QED BY <2>2, <3>1, <3>2, <3>3
    <2> QED BY <2>1, <2>2
  <1>9. toldAvailable' = (m # 0 /\ all[m].owned = 2)
    BY <1>1, <1>3, <1>4 DEF Asking!Available
  <1>10. broker' = m /\ m \in 0 .. Len(all)
    BY <1>1, <1>4
  <1> HIDE DEF m
  <1>11. Asking!BrokersKept'
    BY <1>1, <1>4, <1>8, <1>9, <1>10, BrokersFrom
  <1> QED BY <1>1, <1>11

(* Names that a stopping broker gives back, one by one.                     *)
LEMMA GivenBack ==
  ASSUME NEW f \in [Asking!Names -> {"none", "asked", "owned", "lost", "left", "freed"}]
  PROVE  LET g == Asking!Unowned(f)
         IN  /\ g \in [Asking!Names -> {"none", "asked", "owned", "lost", "left", "freed"}]
             /\ \A n \in Asking!Names :
                  /\ g[n] \in {"none", "left", "freed"}
                  /\ f[n] = "none" => g[n] = "none"
                  /\ (g[n] \in {"asked", "owned", "lost", "left"})
                       = (f[n] \in {"asked", "owned", "lost", "left"})
  BY DEF Asking!Unowned

(* The broker stops, with every request that waits.                         *)
LEMMA BrokerStops ==
  ASSUME Asking!BrokersKept, Asking!Disable
  PROVE  /\ Asking!BrokersKept' /\ broker' = 0
         /\ Asking!EndAll /\ UNCHANGED password
  <1> USE BrokerFacts
  <1> DEFINE q == brokers[broker]
             names == Asking!Unowned(q.name)
             refs == q.refs - 1
             b == [q EXCEPT !.stopped = TRUE, !.name = names, !.refs = refs]
  <1>1. /\ broker # 0 /\ broker' = 0 /\ Asking!EndAll /\ UNCHANGED password
        /\ toldAvailable' = Asking!Available(broker', brokers')
        /\ brokers' = [brokers EXCEPT ![broker] = Asking!Shutdown(q)]
    BY DEF Asking!Disable, Asking!Publish
  <1>2. /\ broker \in 1 .. Len(brokers) /\ q \in Asking!BrokerRecords /\ Asking!BrokerRight(q)
        /\ q.refs = Asking!Waits(q) + Running(broker, broker)
    BY <1>1
  <1>3. Asking!Shutdown(q) = b
    BY DEF Asking!Shutdown
  <1> HIDE DEF q
  <1>4. q.refs \in Nat /\ q.name \in [Asking!Names -> {"none", "asked", "owned", "lost", "left", "freed"}]
    BY ONLY <1>2 DEF Asking!BrokerRecords
  <1>5. /\ names \in [Asking!Names -> {"none", "asked", "owned", "lost", "left", "freed"}]
        /\ \A n \in Asking!Names :
             /\ names[n] \in {"none", "left", "freed"}
             /\ q.name[n] = "none" => names[n] = "none"
             /\ (names[n] \in {"asked", "owned", "lost", "left"})
                  = (q.name[n] \in {"asked", "owned", "lost", "left"})
    BY ONLY <1>4, GivenBack
  <1>6. Asking!Waits(q) \in Nat
    BY WaitsNat
  <1>7. refs = Asking!Waits(q) /\ refs \in Nat
    <2>1. Running(broker, broker) = 1
      BY DEF Running
    <2> QED BY <1>2, <1>6, <2>1
  <1> HIDE DEF names, refs
  <1>8. b \in Asking!BrokerRecords
    BY ONLY <1>2, <1>5, <1>7 DEF Asking!BrokerRecords
  <1>9. b.stopped = TRUE /\ b.name = names /\ b.refs = refs /\ b.bus = q.bus
    BY ONLY <1>2 DEF Asking!BrokerRecords
  <1> HIDE DEF b
  <1>10. Asking!BrokerRight(b)
    BY <1>2, <1>5, <1>9 DEF Asking!BrokerRight
  <1>11. Asking!Waits(b) = Asking!Waits(q)
    <2>1. Waiting(b, "system") = Waiting(q, "system") /\ Waiting(b, "private") = Waiting(q, "private")
      BY <1>5, <1>9 DEF Waiting, Asking!Names
    <2> QED BY <1>9, <2>1, BrokerCounts DEF Asked
  <1>12. b.refs = Asking!Waits(b) + Running(broker, broker')
    BY <1>1, <1>6, <1>7, <1>9, <1>11 DEF Running
  <1>13. toldAvailable' = FALSE
    BY <1>1 DEF Asking!Available
  <1>14. brokers' = [brokers EXCEPT ![broker] = b]
    BY <1>1, <1>3
  <1>15. Asking!BrokersKept'
    BY <1>1, <1>2, <1>8, <1>9, <1>10, <1>12, <1>13, <1>14, BrokerBecomes
  <1> QED BY <1>1, <1>15

(* What a broker's bus and names do to it.                                  *)
LEMMA BrokerTurns ==
  ASSUME Asking!BrokersKept, NEW i \in 1 .. Len(brokers)
  PROVE  LET q == brokers[i] IN
         /\ Asking!BusReady(i) =>
              \E connected \in BOOLEAN : brokers' = [brokers EXCEPT ![i] = Asking!Readied(q, connected)]
         /\ \A n \in Asking!Names : Asking!NameAcquired(i, n) =>
              brokers' = [brokers EXCEPT ![i] =
                [q EXCEPT !.name = [q.name EXCEPT ![n] = "owned"], !.owned = q.owned + 1]]
         /\ \A n \in Asking!Names : Asking!NameLost(i, n) =>
              brokers' = [brokers EXCEPT ![i] =
                [q EXCEPT !.name = [q.name EXCEPT ![n] = "lost"],
                          !.owned = IF q.owned = 2 THEN q.owned - 1 ELSE q.owned]]
         /\ Asking!Closes(i) =>
              brokers' = [brokers EXCEPT ![i] = [q EXCEPT !.closed = TRUE]]
         /\ \A n \in Asking!Names : Asking!NameFreed(i, n) =>
              brokers' = [brokers EXCEPT ![i] =
                [q EXCEPT !.name = [q.name EXCEPT ![n] = "freed"], !.refs = q.refs - 1]]
  <1> USE BrokerFacts
  <1> DEFINE q == brokers[i]
  <1>1. Asking!BusReady(i) =>
              \E connected \in BOOLEAN : brokers' = [brokers EXCEPT ![i] = Asking!Readied(q, connected)]
    BY DEF Asking!BusReady
  <1>2. ASSUME NEW n \in Asking!Names, Asking!NameAcquired(i, n) 
        PROVE brokers' = [brokers EXCEPT ![i] =
                [q EXCEPT !.name = [q.name EXCEPT ![n] = "owned"], !.owned = q.owned + 1]]
    BY <1>2 DEF Asking!NameAcquired, Asking!BrokerRecords
  <1>3. ASSUME NEW n \in Asking!Names, Asking!NameLost(i, n)
        PROVE brokers' = [brokers EXCEPT ![i] =
                [q EXCEPT !.name = [q.name EXCEPT ![n] = "lost"],
                          !.owned = IF q.owned = 2 THEN q.owned - 1 ELSE q.owned]]
    BY <1>3 DEF Asking!NameLost, Asking!Lost
  <1>4. ASSUME Asking!Closes(i) 
        PROVE brokers' = [brokers EXCEPT ![i] = [q EXCEPT !.closed = TRUE]]
    BY <1>4 DEF Asking!Closes
  <1>5. ASSUME NEW n \in Asking!Names, Asking!NameFreed(i, n)
        PROVE brokers' = [brokers EXCEPT ![i] =
                [q EXCEPT !.name = [q.name EXCEPT ![n] = "freed"], !.refs = q.refs - 1]]
    BY <1>5 DEF Asking!NameFreed, Asking!BrokerRecords
  <1> QED BY <1>1, <1>2, <1>3, <1>4, <1>5

(* One name of a broker changes: what it counts of names and references.    *)
LEMMA BrokerRenamed ==
  ASSUME NEW q, NEW b, NEW n \in Asking!Names, b.bus = q.bus,
         \A o \in Asking!Names \ {n} : b.name[o] = q.name[o]
  PROVE  /\ Asking!Waits(b) = (Asking!Waits(q) - Waiting(q, n)) + Waiting(b, n)
         /\ Asking!Cardinality({o \in Asking!Names : b.name[o] = "owned"})
              = (Asking!Cardinality({o \in Asking!Names : q.name[o] = "owned"})
                 - Owning(q, n)) + Owning(b, n)
  <1>1. PICK o \in Asking!Names : Asking!Names = {n, o} /\ n # o
    BY DEF Asking!Names
  <1>2. /\ Asking!Waits(q) = Asked(q) + (Waiting(q, n) + Waiting(q, o))
        /\ Asking!Waits(b) = Asked(b) + (Waiting(b, n) + Waiting(b, o))
        /\ Asking!Cardinality({x \in Asking!Names : q.name[x] = "owned"}) = Owning(q, n) + Owning(q, o)
        /\ Asking!Cardinality({x \in Asking!Names : b.name[x] = "owned"}) = Owning(b, n) + Owning(b, o)
    <2>1. (n = "system" /\ o = "private") \/ (n = "private" /\ o = "system")
      BY <1>1 DEF Asking!Names
    <2>2. \A k : /\ Waiting(k, "system") \in Int /\ Waiting(k, "private") \in Int
             /\ Owning(k, "system") \in Int /\ Owning(k, "private") \in Int
      BY DEF Waiting, Owning
    <2>3. /\ Asking!Waits(q) = Asked(q) + (Waiting(q, "system") + Waiting(q, "private"))
          /\ Asking!Waits(b) = Asked(b) + (Waiting(b, "system") + Waiting(b, "private"))
          /\ Asking!Cardinality({x \in Asking!Names : q.name[x] = "owned"})
               = Owning(q, "system") + Owning(q, "private")
          /\ Asking!Cardinality({x \in Asking!Names : b.name[x] = "owned"})
               = Owning(b, "system") + Owning(b, "private")
      BY BrokerCounts
    <2> QED BY <2>1, <2>2, <2>3
  <1>3. Asked(b) = Asked(q) /\ Waiting(b, o) = Waiting(q, o) /\ Owning(b, o) = Owning(q, o)
    BY <1>1 DEF Asked, Waiting, Owning
  <1>4. \A k \in {q, b}, x \in {n, o} : Asked(k) \in Int /\ Waiting(k, x) \in Int /\ Owning(k, x) \in Int
    BY DEF Asked, Waiting, Owning
  <1>5. /\ Asking!Waits(b) = (Asking!Waits(q) - Waiting(q, n)) + Waiting(b, n)
        /\ Asking!Cardinality({x \in Asking!Names : b.name[x] = "owned"})
             = (Asking!Cardinality({x \in Asking!Names : q.name[x] = "owned"}) - Owning(q, n)) + Owning(b, n)
    BY ONLY <1>2, <1>3, <1>4
  <1> QED BY <1>5

(* A name is gained, is lost, or is let go by a broker that stopped.        *)
LEMMA BrokerNamed ==
  ASSUME Asking!BrokersKept, NEW i \in 1 .. Len(brokers), NEW n \in Asking!Names,
         Asking!NameAcquired(i, n) \/ Asking!NameLost(i, n) \/ Asking!NameFreed(i, n)
  PROVE  Asking!BrokersKept' /\ UNCHANGED <<broker, promptRequest, password>>
  <1> USE BrokerFacts
  <1> DEFINE q == brokers[i]
  <1>1. /\ q \in Asking!BrokerRecords /\ Asking!BrokerRight(q) /\ (q.stopped <=> i # broker)
        /\ q.refs = Asking!Waits(q) + Running(i, broker)
    OBVIOUS
  <1>2. /\ q.refs \in Nat /\ q.owned \in 0 .. 2 /\ q.stopped \in BOOLEAN /\ q.closed \in BOOLEAN
        /\ q.bus \in {"asked", "ready", "failed"}
        /\ q.name \in [Asking!Names -> {"none", "asked", "owned", "lost", "left", "freed"}]
    BY ONLY <1>1 DEF Asking!BrokerRecords
  <1>3. UNCHANGED <<broker, promptRequest, password>>
    BY DEF Asking!NameAcquired, Asking!NameLost, Asking!NameFreed
  <1>4. /\ Asking!Waits(q) \in Nat
        /\ Asking!Cardinality({o \in Asking!Names : q.name[o] = "owned"}) \in Nat
        /\ (\A o \in Asking!Names : q.name[o] # "owned") <=>
             Asking!Cardinality({o \in Asking!Names : q.name[o] = "owned"}) = 0
        /\ (\A o \in Asking!Names : q.name[o] = "owned") <=>
             Asking!Cardinality({o \in Asking!Names : q.name[o] = "owned"}) = 2
        /\ Asking!Cardinality({o \in Asking!Names : q.name[o] = "owned"}) <= 2
    BY WaitsNat, BrokerCounts DEF Owning, Asking!Names
  <1>5. toldAvailable = (broker # 0 /\ brokers[broker].owned = 2)
    OBVIOUS
  <1>6. CASE Asking!NameAcquired(i, n)
    <2> DEFINE count == q.owned + 1
               names == [q.name EXCEPT ![n] = "owned"]
               b == [q EXCEPT !.name = names, !.owned = count]
    <2>1. /\ brokers' = [brokers EXCEPT ![i] = b] /\ q.name[n] = "asked" /\ ~q.closed
          /\ IF brokers'[i].owned = 2 THEN toldAvailable' = Asking!Available(broker', brokers')
             ELSE UNCHANGED toldAvailable
      BY <1>6, BrokerTurns DEF Asking!NameAcquired, Asking!Publish
    <2>2. i = broker /\ q.bus = "ready" /\ ~q.stopped
      BY <1>1, <1>2, <2>1 DEF Asking!BrokerRight
    <2>3. q.owned = Asking!Cardinality({o \in Asking!Names : q.name[o] = "owned"}) /\ q.owned < 2
      BY <1>1, <1>2, <1>4, <2>1, <2>2 DEF Asking!BrokerRight
    <2>4. count \in 0 .. 2
      BY <1>2, <2>3
    <2> HIDE DEF q, count
    <2>5. /\ names \in [Asking!Names -> {"none", "asked", "owned", "lost", "left", "freed"}]
          /\ names[n] = "owned" /\ \A o \in Asking!Names \ {n} : names[o] = q.name[o]
      BY ONLY <1>2, n \in Asking!Names
    <2> HIDE DEF names
    <2>6. /\ b \in Asking!BrokerRecords
          /\ b.bus = q.bus /\ b.closed = q.closed /\ b.stopped = q.stopped
          /\ b.owned = count /\ b.refs = q.refs /\ b.name[n] = "owned"
          /\ \A o \in Asking!Names \ {n} : b.name[o] = q.name[o]
          /\ Asking!Waits(b) = (Asking!Waits(q) - Waiting(q, n)) + Waiting(b, n)
          /\ Asking!Cardinality({o \in Asking!Names : b.name[o] = "owned"})
               = (Asking!Cardinality({o \in Asking!Names : q.name[o] = "owned"})
                  - Owning(q, n)) + Owning(b, n)
      <3>1. b \in Asking!BrokerRecords
        BY ONLY <1>1, <2>4, <2>5 DEF Asking!BrokerRecords
      <3>2. /\ b.bus = q.bus /\ b.closed = q.closed /\ b.stopped = q.stopped
            /\ b.owned = count /\ b.refs = q.refs /\ b.name = names
        BY ONLY <1>1 DEF Asking!BrokerRecords
      <3> HIDE DEF b
      <3>3. /\ Asking!Waits(b) = (Asking!Waits(q) - Waiting(q, n)) + Waiting(b, n)
            /\ Asking!Cardinality({o \in Asking!Names : b.name[o] = "owned"})
                 = (Asking!Cardinality({o \in Asking!Names : q.name[o] = "owned"})
                    - Owning(q, n)) + Owning(b, n)
        <4>1. b.bus = q.bus /\ \A o \in Asking!Names \ {n} : b.name[o] = q.name[o]
          BY <2>5, <3>2
        <4> QED BY ONLY <4>1, n \in Asking!Names, BrokerRenamed
      <3> QED BY <2>5, <3>1, <3>2, <3>3
    <2> HIDE DEF b
    <2>7. Waiting(q, n) = 1 /\ Waiting(b, n) = 1 /\ Owning(q, n) = 0 /\ Owning(b, n) = 1
      BY <2>1, <2>6 DEF Waiting, Owning, q
    <2>8. /\ Asking!Waits(b) = Asking!Waits(q)
          /\ count = Asking!Cardinality({o \in Asking!Names : b.name[o] = "owned"})
      BY <1>4, <2>3, <2>6, <2>7 DEF count
    <2>9. Asking!Cardinality({o \in Asking!Names : b.name[o] = "owned"}) = 2
            <=> \A o \in Asking!Names : b.name[o] = "owned"
      <3>1. Asking!Cardinality({o \in Asking!Names : b.name[o] = "owned"})
              = Owning(b, "system") + Owning(b, "private")
        BY BrokerCounts
      <3> QED BY <3>1 DEF Owning, Asking!Names
    <2>10. Asking!BrokerRight(b)
      BY <1>1, <2>1, <2>2, <2>6, <2>8, <2>9 DEF Asking!BrokerRight, q
    <2>11. brokers'[i].owned = count
      BY <2>1, <2>6
    <2>12. toldAvailable' = (count = 2)
      BY <1>3, <1>5, <2>1, <2>2, <2>3, <2>11 DEF Asking!Available, q
    <2>13. b.refs = Asking!Waits(b) + Running(i, broker')
      BY <1>1, <1>3, <2>6, <2>8
    <2>14. toldAvailable' = IF broker' = 0 THEN FALSE
                            ELSE IF i = broker THEN b.owned = 2 ELSE toldAvailable
      <3>1. broker' # 0 /\ i = broker
        BY <1>3, <2>2
      <3> QED BY <2>12, <2>6, <3>1
    <2> QED BY <1>1, <1>3, <2>1, <2>2, <2>6, <2>10, <2>13, <2>14, BrokerBecomes
  <1>7. CASE Asking!NameLost(i, n)
    <2> DEFINE count == IF q.owned = 2 THEN q.owned - 1 ELSE q.owned
               names == [q.name EXCEPT ![n] = "lost"]
               b == [q EXCEPT !.name = names, !.owned = count]
    <2>1. /\ brokers' = [brokers EXCEPT ![i] = b]
          /\ q.name[n] = "asked" \/ (q.name[n] = "owned" /\ q.closed)
          /\ IF q.owned = 2 THEN toldAvailable' = Asking!Available(broker', brokers')
             ELSE UNCHANGED toldAvailable
      BY <1>7, BrokerTurns DEF Asking!NameLost, Asking!Publish
    <2>2. i = broker /\ q.bus = "ready" /\ ~q.stopped
      BY <1>1, <1>2, <2>1 DEF Asking!BrokerRight
    <2>3. ~q.closed => q.owned = Asking!Cardinality({o \in Asking!Names : q.name[o] = "owned"})
                       /\ q.owned < 2
      BY <1>1, <1>2, <1>4, <2>1, <2>2 DEF Asking!BrokerRight
    <2>4. count \in 0 .. 1 /\ count \in 0 .. 2
      BY <1>2
    <2>5. ~q.closed => count = q.owned
      BY <1>2, <2>3
    <2> HIDE DEF q, count
    <2>6. /\ names \in [Asking!Names -> {"none", "asked", "owned", "lost", "left", "freed"}]
          /\ names[n] = "lost" /\ \A o \in Asking!Names \ {n} : names[o] = q.name[o]
      BY ONLY <1>2, n \in Asking!Names
    <2> HIDE DEF names
    <2>7. /\ b \in Asking!BrokerRecords
          /\ b.bus = q.bus /\ b.closed = q.closed /\ b.stopped = q.stopped
          /\ b.owned = count /\ b.refs = q.refs /\ b.name[n] = "lost"
          /\ \A o \in Asking!Names \ {n} : b.name[o] = q.name[o]
          /\ Asking!Waits(b) = (Asking!Waits(q) - Waiting(q, n)) + Waiting(b, n)
          /\ Asking!Cardinality({o \in Asking!Names : b.name[o] = "owned"})
               = (Asking!Cardinality({o \in Asking!Names : q.name[o] = "owned"})
                  - Owning(q, n)) + Owning(b, n)
      <3>1. b \in Asking!BrokerRecords
        BY ONLY <1>1, <2>4, <2>6 DEF Asking!BrokerRecords
      <3>2. /\ b.bus = q.bus /\ b.closed = q.closed /\ b.stopped = q.stopped
            /\ b.owned = count /\ b.refs = q.refs /\ b.name = names
        BY ONLY <1>1 DEF Asking!BrokerRecords
      <3> HIDE DEF b
      <3>3. /\ Asking!Waits(b) = (Asking!Waits(q) - Waiting(q, n)) + Waiting(b, n)
            /\ Asking!Cardinality({o \in Asking!Names : b.name[o] = "owned"})
                 = (Asking!Cardinality({o \in Asking!Names : q.name[o] = "owned"})
                    - Owning(q, n)) + Owning(b, n)
        <4>1. b.bus = q.bus /\ \A o \in Asking!Names \ {n} : b.name[o] = q.name[o]
          BY <2>6, <3>2
        <4> QED BY ONLY <4>1, n \in Asking!Names, BrokerRenamed
      <3> QED BY <2>6, <3>1, <3>2, <3>3
    <2> HIDE DEF b
    <2>8. /\ Waiting(q, n) = 1 /\ Waiting(b, n) = 1 /\ Owning(b, n) = 0
          /\ ~q.closed => Owning(q, n) = 0
      BY <2>1, <2>7 DEF Waiting, Owning, q
    <2>9. /\ Asking!Waits(b) = Asking!Waits(q)
          /\ ~q.closed => count = Asking!Cardinality({o \in Asking!Names : b.name[o] = "owned"})
      BY <1>4, <2>3, <2>5, <2>7, <2>8
    <2>10. Asking!BrokerRight(b)
      BY <1>1, <2>1, <2>2, <2>4, <2>7, <2>9 DEF Asking!BrokerRight, q
    <2>11. brokers'[i].owned = count
      BY <2>1, <2>7
    <2>12. toldAvailable' = (count = 2)
      BY <1>3, <1>5, <2>1, <2>2, <2>4, <2>11 DEF Asking!Available, q
    <2>13. b.refs = Asking!Waits(b) + Running(i, broker')
      BY <1>1, <1>3, <2>7, <2>9
    <2>14. toldAvailable' = IF broker' = 0 THEN FALSE
                            ELSE IF i = broker THEN b.owned = 2 ELSE toldAvailable
      <3>1. broker' # 0 /\ i = broker
        BY <1>3, <2>2
      <3> QED BY <2>12, <2>7, <3>1
    <2> QED BY <1>1, <1>3, <2>1, <2>2, <2>7, <2>10, <2>13, <2>14, BrokerBecomes
  <1>8. CASE Asking!NameFreed(i, n)
    <2> DEFINE less == q.refs - 1
               names == [q.name EXCEPT ![n] = "freed"]
               b == [q EXCEPT !.name = names, !.refs = less]
    <2>1. /\ brokers' = [brokers EXCEPT ![i] = b] /\ q.name[n] = "left" /\ UNCHANGED toldAvailable
      BY <1>8, BrokerTurns DEF Asking!NameFreed
    <2>2. i # broker /\ q.bus = "ready" /\ q.stopped
      BY <1>1, <1>2, <2>1 DEF Asking!BrokerRight
    <2>3. Waiting(q, n) = 1 /\ Running(i, broker) = 0 /\ Asking!Waits(q) >= 1
      <3>1. Waiting(q, n) = 1 /\ Running(i, broker) = 0
        BY <2>1, <2>2 DEF Waiting, Running
      <3>2. /\ Asking!Waits(q) = Asked(q) + (Waiting(q, "system") + Waiting(q, "private"))
            /\ Asked(q) \in Nat /\ Waiting(q, "system") \in Nat /\ Waiting(q, "private") \in Nat
        BY BrokerCounts DEF Asked, Waiting
      <3>3. n = "system" \/ n = "private"
        BY DEF Asking!Names
      <3> QED BY <3>1, <3>2, <3>3
    <2>4. less \in Nat
      BY <1>1, <1>2, <1>4, <2>3
    <2> HIDE DEF q, less
    <2>5. /\ names \in [Asking!Names -> {"none", "asked", "owned", "lost", "left", "freed"}]
          /\ names[n] = "freed" /\ \A o \in Asking!Names \ {n} : names[o] = q.name[o]
      BY ONLY <1>2, n \in Asking!Names
    <2> HIDE DEF names
    <2>6. /\ b \in Asking!BrokerRecords
          /\ b.bus = q.bus /\ b.closed = q.closed /\ b.stopped = q.stopped
          /\ b.owned = q.owned /\ b.refs = less /\ b.name[n] = "freed"
          /\ \A o \in Asking!Names \ {n} : b.name[o] = q.name[o]
          /\ Asking!Waits(b) = (Asking!Waits(q) - Waiting(q, n)) + Waiting(b, n)
      <3>1. b \in Asking!BrokerRecords
        BY ONLY <1>1, <2>4, <2>5 DEF Asking!BrokerRecords
      <3>2. /\ b.bus = q.bus /\ b.closed = q.closed /\ b.stopped = q.stopped
            /\ b.owned = q.owned /\ b.refs = less /\ b.name = names
        BY ONLY <1>1 DEF Asking!BrokerRecords
      <3> HIDE DEF b
      <3>3. /\ Asking!Waits(b) = (Asking!Waits(q) - Waiting(q, n)) + Waiting(b, n)
            /\ Asking!Cardinality({o \in Asking!Names : b.name[o] = "owned"})
                 = (Asking!Cardinality({o \in Asking!Names : q.name[o] = "owned"})
                    - Owning(q, n)) + Owning(b, n)
        <4>1. b.bus = q.bus /\ \A o \in Asking!Names \ {n} : b.name[o] = q.name[o]
          BY <2>5, <3>2
        <4> QED BY ONLY <4>1, n \in Asking!Names, BrokerRenamed
      <3> QED BY <2>5, <3>1, <3>2, <3>3
    <2> HIDE DEF b
    <2>7. Waiting(b, n) = 0
      BY <2>6 DEF Waiting
    <2>8. less = Asking!Waits(b) + Running(i, broker)
      BY <1>1, <1>4, <2>3, <2>6, <2>7 DEF less
    <2>9. Asking!BrokerRight(b)
      BY <1>1, <2>2, <2>6 DEF Asking!BrokerRight
    <2>10. toldAvailable' = IF broker' = 0 THEN FALSE ELSE IF i = broker THEN b.owned = 2 ELSE toldAvailable
      BY <1>3, <1>5, <2>1, <2>2
    <2> QED BY <1>1, <1>3, <2>1, <2>2, <2>6, <2>8, <2>9, <2>10, BrokerBecomes
  <1> QED BY <1>3, <1>6, <1>7, <1>8

(* The bus answers a broker, or closes.                                     *)
LEMMA BrokerBus ==
  ASSUME Asking!BrokersKept, NEW i \in 1 .. Len(brokers), Asking!BusReady(i) \/ Asking!Closes(i)
  PROVE  Asking!BrokersKept' /\ UNCHANGED <<broker, promptRequest, password>>
  <1> USE BrokerFacts
  <1> DEFINE q == brokers[i]
             none == 0
  <1>1. /\ q \in Asking!BrokerRecords /\ Asking!BrokerRight(q) /\ (q.stopped <=> i # broker)
        /\ q.refs = Asking!Waits(q) + Running(i, broker)
    OBVIOUS
  <1>2. /\ q.refs \in Nat /\ q.owned \in 0 .. 2 /\ q.stopped \in BOOLEAN /\ q.closed \in BOOLEAN
        /\ q.bus \in {"asked", "ready", "failed"} /\ Asking!Waits(q) \in Nat
        /\ q.name \in [Asking!Names -> {"none", "asked", "owned", "lost", "left", "freed"}]
    BY ONLY <1>1, WaitsNat DEF Asking!BrokerRecords
  <1>3. UNCHANGED <<broker, toldAvailable, promptRequest, password>>
    BY DEF Asking!BusReady, Asking!Closes
  <1>4. toldAvailable' = IF broker' = 0 THEN FALSE
                         ELSE IF i = broker THEN q.owned = 2 ELSE toldAvailable
    <2>1. toldAvailable = (broker # 0 /\ brokers[broker].owned = 2)
      OBVIOUS
    <2> QED BY <1>3, <2>1
  <1>5. Asking!Waits(q) = Asked(q) + (Waiting(q, "system") + Waiting(q, "private"))
    BY BrokerCounts
  <1>6. ASSUME NEW b \in Asking!BrokerRecords, brokers' = [brokers EXCEPT ![i] = b],
               Asking!BrokerRight(b), b.stopped = q.stopped, b.owned = q.owned,
               b.refs = Asking!Waits(b) + Running(i, broker)
        PROVE  Asking!BrokersKept'
    <2>1. /\ broker' = broker /\ (b.stopped <=> i # broker')
          /\ b.refs = Asking!Waits(b) + Running(i, broker')
          /\ toldAvailable' = IF broker' = 0 THEN FALSE
                              ELSE IF i = broker THEN b.owned = 2 ELSE toldAvailable
      BY <1>1, <1>3, <1>4, <1>6
    <2> HIDE DEF q
    <2> QED BY <1>6, <2>1, BrokerBecomes
  <1>7. CASE Asking!BusReady(i)
    <2>1. PICK connected \in BOOLEAN : brokers' = [brokers EXCEPT ![i] = Asking!Readied(q, connected)]
      BY <1>7, BrokerTurns
    <2>2. /\ q.bus = "asked" /\ q.name["system"] = "none" /\ q.name["private"] = "none"
          /\ \A n \in Asking!Names : q.name[n] = "none"
      BY <1>1, <1>7 DEF Asking!BusReady, Asking!BrokerRight, Asking!Names
    <2>3. Asking!Waits(q) = 1
      <3>1. Asked(q) = 1 /\ Waiting(q, "system") = 0 /\ Waiting(q, "private") = 0
        BY <2>2 DEF Asked, Waiting
      <3> QED BY <1>5, <3>1
    <2>4. CASE q.stopped \/ ~connected
      <3> DEFINE less == q.refs - 1
                 b == [q EXCEPT !.bus = "failed", !.refs = less]
      <3>1. brokers' = [brokers EXCEPT ![i] = b]
        BY <2>1, <2>4 DEF Asking!Readied
      <3>2. less \in Nat /\ less = Running(i, broker)
        BY <1>1, <1>2, <2>3 DEF Running
      <3> HIDE DEF q, less
      <3>3. b \in Asking!BrokerRecords
        BY ONLY <1>1, <3>2 DEF Asking!BrokerRecords
      <3>4. /\ b.bus = "failed" /\ b.closed = q.closed /\ b.stopped = q.stopped
            /\ b.owned = q.owned /\ b.refs = less /\ b.name = q.name
        BY ONLY <1>1 DEF Asking!BrokerRecords
      <3> HIDE DEF b
      <3>5. Asking!Waits(b) = 0
        <4>1. Asking!Waits(b) = Asked(b) + (Waiting(b, "system") + Waiting(b, "private"))
          BY BrokerCounts
        <4>2. Asked(b) = 0 /\ Waiting(b, "system") = 0 /\ Waiting(b, "private") = 0
          BY <2>2, <3>4 DEF Asked, Waiting
        <4> QED BY <4>1, <4>2
      <3>6. Asking!BrokerRight(b)
        BY <1>1, <2>2, <3>4 DEF Asking!BrokerRight
      <3>7. b.refs = Asking!Waits(b) + Running(i, broker)
        BY <3>2, <3>4, <3>5
      <3> QED BY <1>3, <1>6, <3>1, <3>3, <3>4, <3>6, <3>7
    <2>5. CASE ~q.stopped /\ connected
      <3> DEFINE more == q.refs + (2 - 1)
                 names == [n \in Asking!Names |-> "asked"]
                 b == [q EXCEPT !.bus = "ready", !.name = names, !.refs = more]
      <3>1. brokers' = [brokers EXCEPT ![i] = b]
        BY <2>1, <2>5 DEF Asking!Readied
      <3>2. more \in Nat /\ more = 2 + Running(i, broker)
        BY <1>1, <1>2, <2>3 DEF Running
      <3>3. /\ names \in [Asking!Names -> {"none", "asked", "owned", "lost", "left", "freed"}]
            /\ \A n \in Asking!Names : names[n] = "asked"
            /\ names["system"] = "asked" /\ names["private"] = "asked"
        BY DEF Asking!Names
      <3> HIDE DEF q, more, names
      <3>4. b \in Asking!BrokerRecords
        BY ONLY <1>1, <3>2, <3>3 DEF Asking!BrokerRecords
      <3>5. /\ b.bus = "ready" /\ b.closed = q.closed /\ b.stopped = q.stopped
            /\ b.owned = q.owned /\ b.refs = more /\ b.name = names
        BY ONLY <1>1 DEF Asking!BrokerRecords
      <3> HIDE DEF b
      <3>6. Asking!Waits(b) = 2
        <4>1. Asking!Waits(b) = Asked(b) + (Waiting(b, "system") + Waiting(b, "private"))
          BY BrokerCounts
        <4>2. Asked(b) = 0 /\ Waiting(b, "system") = 1 /\ Waiting(b, "private") = 1
          BY <3>3, <3>5 DEF Asked, Waiting
        <4> QED BY <4>1, <4>2
      <3>7. /\ Asking!Cardinality({o \in Asking!Names : q.name[o] = "owned"}) = 0
            /\ Asking!Cardinality({o \in Asking!Names : b.name[o] = "owned"}) = 0
        <4>1. /\ Asking!Cardinality({o \in Asking!Names : q.name[o] = "owned"})
                   = Owning(q, "system") + Owning(q, "private")
              /\ Asking!Cardinality({o \in Asking!Names : b.name[o] = "owned"})
                   = Owning(b, "system") + Owning(b, "private")
          BY BrokerCounts
        <4>2. /\ Owning(q, "system") = 0 /\ Owning(q, "private") = 0
              /\ Owning(b, "system") = 0 /\ Owning(b, "private") = 0
          BY <2>2, <3>3, <3>5 DEF Owning
        <4> QED BY <4>1, <4>2
      <3>8. q.owned # 2 /\ (~q.closed => q.owned = 0)
        BY <1>1, <2>2, <2>5, <3>7 DEF Asking!BrokerRight, Asking!Names
      <3>9. Asking!BrokerRight(b)
        BY <2>5, <3>3, <3>5, <3>7, <3>8 DEF Asking!BrokerRight, Asking!Names
      <3>10. b.refs = Asking!Waits(b) + Running(i, broker)
        BY <3>2, <3>5, <3>6
      <3> QED BY <1>3, <1>6, <3>1, <3>4, <3>5, <3>9, <3>10
    <2> QED BY <2>4, <2>5
  <1>8. CASE Asking!Closes(i)
    <2> DEFINE b == [q EXCEPT !.closed = TRUE]
    <2>1. brokers' = [brokers EXCEPT ![i] = b] /\ q.bus = "ready" /\ ~q.stopped
      BY <1>8, BrokerTurns DEF Asking!Closes
    <2> HIDE DEF q
    <2>2. b \in Asking!BrokerRecords
      BY ONLY <1>1 DEF Asking!BrokerRecords
    <2>3. /\ b.bus = q.bus /\ b.closed = TRUE /\ b.stopped = q.stopped
          /\ b.owned = q.owned /\ b.refs = q.refs /\ b.name = q.name
      BY ONLY <1>1 DEF Asking!BrokerRecords
    <2> HIDE DEF b
    <2>4. Asking!Waits(b) = Asking!Waits(q)
      <3>1. Asking!Waits(b) = Asked(b) + (Waiting(b, "system") + Waiting(b, "private"))
        BY BrokerCounts
      <3>2. /\ Asked(b) = Asked(q) /\ Waiting(b, "system") = Waiting(q, "system")
            /\ Waiting(b, "private") = Waiting(q, "private")
        BY <2>3 DEF Asked, Waiting
      <3> QED BY <1>5, <3>1, <3>2
    <2>5. Asking!BrokerRight(b)
      BY <1>1, <2>1, <2>3 DEF Asking!BrokerRight
    <2>6. b.refs = Asking!Waits(b) + Running(i, broker)
      BY <1>1, <2>3, <2>4
    <2> QED BY <1>3, <1>6, <2>1, <2>2, <2>3, <2>5, <2>6
  <1> QED BY <1>3, <1>7, <1>8

(* At first nothing is asked, and no broker runs.                           *)
LEMMA PromptInit == Asking!Init => Asking!IInv
  <1> SUFFICES ASSUME Asking!Init PROVE Asking!IInv
    OBVIOUS
  <1> DEFINE q == Asking!NewRequest
             none == <<>>
  <1>1. /\ broker = 0 /\ brokers = <<>> /\ toldAvailable = FALSE
        /\ promptRequest = [r \in Asking!Requests |-> q] /\ password = [p \in Prompts |-> 0]
    BY DEF Asking!Init
  <1>2. /\ q.prompt = "" /\ q.pending = FALSE /\ q.timer = FALSE /\ q.watched = FALSE
        /\ q.recipients = {} /\ q.answers = <<>> /\ q.told = <<>>
    BY DEF Asking!NewRequest
  <1>3. q \in Asking!RequestRecords
    <2>1. none \in {<<>>, <<"cancelled">>, <<"given">>}
          /\ none \in {<<>>, <<"requested">>, <<"requested", "answered">>,
                       <<"requested", "cancelled">>, <<"requested", "timeout">>}
      OBVIOUS
    <2>2. q = [prompt |-> "", pending |-> FALSE, timer |-> FALSE, watched |-> FALSE,
               recipients |-> {}, answers |-> none, told |-> none]
      BY DEF Asking!NewRequest
    <2> HIDE DEF none, q
    <2> QED BY ONLY <2>1, <2>2 DEF Asking!RequestRecords
  <1> HIDE DEF q
  <1>4. Asking!RequestRight(q)
    BY <1>2 DEF Asking!RequestRight, q
  <1>5. Asking!Pending = {}
    BY <1>1, <1>2 DEF Asking!Pending
  <1>6. \A p : Asking!Asks(p) = {}
    BY <1>5 DEF Asking!Asks
  <1>7. Asking!Cardinality(Asking!Pending) <= PromptPending
    BY <1>5, FS_EmptySet, SameCardinality, DesktopAssumption DEF Asking!PromptAssumption
  <1>8. Asking!RequestsKept
    <2>1. Asking!SecretsWiped
      BY <1>1 DEF Asking!SecretsWiped
    <2>2. /\ promptRequest \in [Asking!Requests -> Asking!RequestRecords]
          /\ \A r \in Asking!Requests : Asking!RequestRight(promptRequest[r])
          /\ password \in [Prompts -> Asking!Requests \union {0}]
      BY <1>1, <1>3, <1>4
    <2> QED BY <1>6, <1>7, <2>1, <2>2 DEF Asking!RequestsKept
  <1>9. Asking!BrokersKept
    <2>1. /\ brokers \in Seq(Asking!BrokerRecords) /\ Len(brokers) = 0 /\ DOMAIN brokers = {}
          /\ broker \in 0 .. Len(brokers)
      BY <1>1
    <2> QED BY <1>1, <2>1 DEF Asking!BrokersKept, Asking!BrokersCounted, Asking!AvailableAsTold
  <1> QED BY <1>5, <1>8, <1>9 DEF Asking!IInv

(* Whatever happens to the requests or to the brokers leaves the others.    *)
LEMMA PromptApart ==
  /\ Asking!BrokersKept /\ UNCHANGED <<broker, brokers, toldAvailable>> => Asking!BrokersKept'
  /\ Asking!RequestsKept /\ UNCHANGED <<promptRequest, password>> =>
       Asking!RequestsKept' /\ UNCHANGED Asking!Pending
  <1>1. ASSUME Asking!BrokersKept, UNCHANGED <<broker, brokers, toldAvailable>>
        PROVE  Asking!BrokersKept'
    BY <1>1 DEF Asking!BrokersKept, Asking!BrokersCounted, Asking!AvailableAsTold, Asking!Owned
  <1>2. ASSUME Asking!RequestsKept, UNCHANGED <<promptRequest, password>>
        PROVE  Asking!RequestsKept' /\ UNCHANGED Asking!Pending
    BY <1>2 DEF Asking!RequestsKept, Asking!SecretsWiped, Asking!Pending, Asking!Asks
  <1> QED BY <1>1, <1>2

(* A step of the keyring's prompts keeps the invariant; what is heard of a  *)
(* request that was asked is nothing new, or how it ended.                  *)
LEMMA PromptStep ==
  ASSUME Asking!IInv, Asking!Next \/ UNCHANGED promptVars
  PROVE  /\ Asking!IInv'
         /\ \/ \A s \in Asking!Requests : PromptHeard(s)
            \/ \E r \in Asking!Requests, p \in Prompts : Asking!Start(r, p)
  <1>1. Asking!BrokersKept /\ Asking!RequestsKept /\ (broker = 0 => Asking!Pending = {})
    BY DEF Asking!IInv
  <1>2. ASSUME UNCHANGED <<promptRequest, password>>
        PROVE  \A s \in Asking!Requests : PromptHeard(s)
    BY <1>2 DEF PromptHeard
  <1>3. ASSUME UNCHANGED promptVars
        PROVE  Asking!IInv' /\ \A s \in Asking!Requests : PromptHeard(s)
    <2>1. UNCHANGED <<broker, brokers, toldAvailable>> /\ UNCHANGED <<promptRequest, password>>
          /\ broker' = broker
      BY <1>3 DEF promptVars
    <2> QED BY <1>1, <1>2, <2>1, PromptApart DEF Asking!IInv
  <1>4. ASSUME Asking!Enable
        PROVE  Asking!IInv' /\ \A s \in Asking!Requests : PromptHeard(s)
    <2>1. Asking!BrokersKept' /\ UNCHANGED <<promptRequest, password>> /\ broker = 0
      BY <1>1, <1>4, BrokerStarts
    <2> QED BY <1>1, <1>2, <2>1, PromptApart DEF Asking!IInv
  <1>5. ASSUME Asking!Disable
        PROVE  Asking!IInv' /\ \A s \in Asking!Requests : PromptHeard(s)
    <2>1. Asking!BrokersKept' /\ Asking!EndAll /\ UNCHANGED password
      BY <1>1, <1>5, BrokerStops
    <2> QED BY <1>1, <2>1, PromptClosing DEF Asking!IInv
  <1>6. ASSUME NEW i \in DOMAIN brokers,
               \/ Asking!BusReady(i) \/ Asking!Closes(i)
               \/ \E n \in Asking!Names :
                    Asking!NameAcquired(i, n) \/ Asking!NameLost(i, n) \/ Asking!NameFreed(i, n)
        PROVE  Asking!IInv' /\ \A s \in Asking!Requests : PromptHeard(s)
    <2>1. i \in 1 .. Len(brokers)
      BY <1>1, BrokerFacts
    <2>2. Asking!BrokersKept' /\ UNCHANGED <<broker, promptRequest, password>>
      BY <1>1, <1>6, <2>1, BrokerBus, BrokerNamed
    <2> QED BY <1>1, <1>2, <2>2, PromptApart DEF Asking!IInv
  <1>7. ASSUME NEW p \in Prompts, Asking!Close(p)
        PROVE  Asking!IInv' /\ \A s \in Asking!Requests : PromptHeard(s)
    <2>1. /\ Asking!RequestsKept' /\ (Asking!Pending' \subseteq Asking!Pending)
          /\ UNCHANGED <<broker, brokers, toldAvailable>>
          /\ \A s \in Asking!Requests : PromptHeard(s)
      BY <1>1, <1>7, PromptClosing
    <2> QED BY <1>1, <2>1, PromptApart DEF Asking!IInv
  <1>8. ASSUME NEW p \in Prompts, NEW r \in Asking!Requests, Asking!Start(r, p)
        PROVE  Asking!IInv'
    <2>1. /\ Asking!RequestsKept' /\ broker' = broker
          /\ (Asking!Pending' \subseteq Asking!Pending) \/ broker # 0
      BY <1>1, <1>8, PromptComes
    <2>2. UNCHANGED <<broker, brokers, toldAvailable>>
      BY <1>8 DEF Asking!Start, Asking!brokerVars
    <2> QED BY <1>1, <2>1, <2>2, PromptApart DEF Asking!IInv
  <1>9. ASSUME NEW r \in Asking!Requests,
               \/ Asking!PromptCancelled(r) \/ Asking!Timeout(r)
               \/ \E c \in Shells \union {Asking!Lua} : Asking!Respond(c, r) \/ Asking!Cancel(c, r)
        PROVE  Asking!IInv' /\ \A s \in Asking!Requests : PromptHeard(s)
    <2>1. /\ Asking!RequestsKept' /\ (Asking!Pending' \subseteq Asking!Pending)
          /\ UNCHANGED <<broker, brokers, toldAvailable>>
          /\ \A s \in Asking!Requests : PromptHeard(s)
      BY <1>1, <1>9, PromptEndsOne
    <2> QED BY <1>1, <2>1, PromptApart DEF Asking!IInv
  <1> QED BY <1>3, <1>4, <1>5, <1>6, <1>7, <1>8, <1>9 DEF Asking!Next

(* The invariant of the keyring's prompts is what its run checks.           *)
LEMMA PromptInvariant == Asking!IInv => Asking!PromptsSound
  <1> SUFFICES ASSUME Asking!IInv PROVE Asking!PromptsSound
    OBVIOUS
  <1>1. Asking!BrokersKept /\ Asking!RequestsKept /\ (broker = 0 => Asking!Pending = {})
    BY DEF Asking!IInv
  <1>2. Asking!TypeOK
    <2>1. toldAvailable \in BOOLEAN
      BY <1>1, BrokerFacts
    <2>2. broker \in 0 .. Len(brokers) /\ \A i \in DOMAIN brokers : brokers[i].refs \in Nat
      BY <1>1, BrokerFacts DEF Asking!BrokerRecords
    <2>3. \A p \in Prompts : password[p] \in Asking!Requests \union {0}
      BY <1>1 DEF Asking!RequestsKept
    <2> QED BY <2>1, <2>2, <2>3 DEF Asking!TypeOK
  <1>3. Asking!NothingHangs
    <2>1. ASSUME NEW r \in Asking!Requests, promptRequest[r].told = <<"requested">>
          PROVE  promptRequest[r].timer
      <3> DEFINE q == promptRequest[r]
      <3>1. Asking!RequestRight(q) /\ q \in Asking!RequestRecords
        BY <1>1 DEF Asking!RequestsKept
      <3>2. q # Asking!NewRequest
        <4>1. Asking!NewRequest.told = <<>>
          BY DEF Asking!NewRequest
        <4>2. <<>> # <<"requested">>
          OBVIOUS
        <4> QED BY <2>1, <4>1, <4>2
      <3> HIDE DEF q
      <3>3. q.told = <<"requested">>
        BY <2>1 DEF q
      <3>4. q.timer
        BY <3>1, <3>2, <3>3 DEF Asking!RequestRight, Asking!Unanswered
      <3> QED BY <3>4 DEF q
    <2> QED BY <1>1, <2>1 DEF Asking!NothingHangs, Asking!RequestsKept
  <1> QED BY <1>1, <1>2, <1>3 DEF Asking!PromptsSound, Asking!BrokersKept, Asking!RequestsKept

-----------------------------------------------------------------------------
(* The promise.                                                             *)

\* What services were answered and shells were told, as the promise sees it.
Answers == IF subject = "auth" THEN Heard(authRequest, Answered)
           ELSE IF subject = "prompts" THEN Heard(promptRequest, Answered)
           ELSE [r \in Questions |-> <<>>]
Tells == IF subject = "auth" THEN Heard(authRequest, Told)
         ELSE IF subject = "prompts" THEN Heard(promptRequest, Told)
         ELSE [r \in Questions |-> <<>>]

\* A question that ends, from what was heard of it to what is.
Ending(a, t, b, u) ==
  /\ a = <<>> /\ t = <<"requested">>
  /\ \E e \in Promise!Results : b = <<Promise!Means(e)>> /\ u = <<"requested", e>>

(* Questions stay or end, or one is asked or turned down: a step of the     *)
(* promise.                                                                 *)
LEMMA PromiseStep ==
  ASSUME NEW a, NEW t, NEW b, NEW u, a = Answers, t = Tells, b = Answers', u = Tells',
         DOMAIN a = Questions, DOMAIN t = Questions, DOMAIN b = Questions, DOMAIN u = Questions,
         \/ \A r \in Questions : (b[r] = a[r] /\ u[r] = t[r]) \/ Ending(a[r], t[r], b[r], u[r])
         \/ \E r \in Questions :
              /\ a[r] = <<>> /\ t[r] = <<>>
              /\ \/ u = [t EXCEPT ![r] = <<"requested">>] /\ b = a
                 \/ /\ u = t
                    /\ \E answer \in {"cancelled", "failed"} : b = [a EXCEPT ![r] = <<answer>>]
  PROVE  Promise!Step
  <1>1. ASSUME \A r \in Questions : (b[r] = a[r] /\ u[r] = t[r]) \/ Ending(a[r], t[r], b[r], u[r])
        PROVE  Promise!EndSome
    <2>1. ASSUME NEW r \in Questions PROVE Promise!Stays(r) \/ Promise!Ends(r)
      <3>1. CASE b[r] = a[r] /\ u[r] = t[r]
        BY <3>1 DEF Promise!Stays, Answers, Tells
      <3>2. CASE Ending(a[r], t[r], b[r], u[r])
        <4>1. PICK e \in Promise!Results : b[r] = <<Promise!Means(e)>> /\ u[r] = <<"requested", e>>
          BY <3>2 DEF Ending
        <4>2. Append(t[r], e) = u[r]
          BY <3>2, <4>1, Appends DEF Ending
        <4>3. Promise!Open(r)
          BY <3>2 DEF Promise!Open, Ending, Answers, Tells
        <4> QED BY <4>1, <4>2, <4>3 DEF Promise!Ends, Answers, Tells
      <3> QED BY <1>1, <3>1, <3>2
    <2> QED BY <2>1 DEF Promise!EndSome, Answers, Tells
  <1>2. ASSUME NEW r \in Questions, a[r] = <<>>, t[r] = <<>>,
               u = [t EXCEPT ![r] = <<"requested">>], b = a
        PROVE  Promise!Ask(r)
    BY <1>2 DEF Promise!Ask, Promise!New, Answers, Tells
  <1>3. ASSUME NEW r \in Questions, a[r] = <<>>, t[r] = <<>>, u = t,
               NEW answer \in {"cancelled", "failed"}, b = [a EXCEPT ![r] = <<answer>>]
        PROVE  Promise!Refuse(r)
    BY <1>3 DEF Promise!Refuse, Promise!New, Answers, Tells
  <1> QED BY <1>1, <1>2, <1>3 DEF Promise!Step, Promise!Next

(* What the promise sees of polkit's questions, before a step and after it. *)
LEMMA AuthSeen ==
  ASSUME subject = "auth", UNCHANGED subject, NEW f, NEW g, authRequest = f, authRequest' = g,
         DOMAIN f = Auth!Requests, DOMAIN g = Auth!Requests
  PROVE  /\ Answers = [r \in Questions |-> IF r \in Auth!Requests THEN f[r].answers ELSE <<>>]
         /\ Tells = [r \in Questions |-> IF r \in Auth!Requests THEN f[r].told ELSE <<>>]
         /\ Answers' = [r \in Questions |-> IF r \in Auth!Requests THEN g[r].answers ELSE <<>>]
         /\ Tells' = [r \in Questions |-> IF r \in Auth!Requests THEN g[r].told ELSE <<>>]
  BY DEF Answers, Tells, Heard, Answered, Told, Questions, Auth!Requests, Asking!Requests

(* And of the keyring's prompts.                                            *)
LEMMA PromptsSeen ==
  ASSUME subject = "prompts", UNCHANGED subject, NEW f, NEW g,
         promptRequest = f, promptRequest' = g,
         DOMAIN f = Asking!Requests, DOMAIN g = Asking!Requests
  PROVE  /\ Answers = [r \in Questions |-> IF r \in Asking!Requests THEN f[r].answers ELSE <<>>]
         /\ Tells = [r \in Questions |-> IF r \in Asking!Requests THEN f[r].told ELSE <<>>]
         /\ Answers' = [r \in Questions |-> IF r \in Asking!Requests THEN g[r].answers ELSE <<>>]
         /\ Tells' = [r \in Questions |-> IF r \in Asking!Requests THEN g[r].told ELSE <<>>]
  BY DEF Answers, Tells, Heard, Answered, Told, Questions, Auth!Requests, Asking!Requests

(* Requests of one service, S, of which each goes on, ends, or comes.       *)
LEMMA SeenStep ==
  ASSUME NEW S \in SUBSET Questions, NEW f, NEW g,
         Answers = [r \in Questions |-> IF r \in S THEN f[r].answers ELSE <<>>],
         Tells = [r \in Questions |-> IF r \in S THEN f[r].told ELSE <<>>],
         Answers' = [r \in Questions |-> IF r \in S THEN g[r].answers ELSE <<>>],
         Tells' = [r \in Questions |-> IF r \in S THEN g[r].told ELSE <<>>],
         \/ \A r \in S : \/ g[r].answers = f[r].answers /\ g[r].told = f[r].told
                         \/ Ending(f[r].answers, f[r].told, g[r].answers, g[r].told)
         \/ \E r \in S :
              /\ \A s \in S \ {r} : g[s].answers = f[s].answers /\ g[s].told = f[s].told
              /\ f[r].answers = <<>> /\ f[r].told = <<>>
              /\ \/ g[r].answers = <<>> /\ g[r].told = <<"requested">>
                 \/ g[r].answers \in {<<"cancelled">>, <<"failed">>} /\ g[r].told = <<>>
  PROVE  Promise!Step
  <1> DEFINE a == [r \in Questions |-> IF r \in S THEN f[r].answers ELSE <<>>]
             t == [r \in Questions |-> IF r \in S THEN f[r].told ELSE <<>>]
             b == [r \in Questions |-> IF r \in S THEN g[r].answers ELSE <<>>]
             u == [r \in Questions |-> IF r \in S THEN g[r].told ELSE <<>>]
  <1>1. /\ a = Answers /\ t = Tells /\ b = Answers' /\ u = Tells'
        /\ DOMAIN a = Questions /\ DOMAIN t = Questions
        /\ DOMAIN b = Questions /\ DOMAIN u = Questions
    OBVIOUS
  <1>2. CASE \A r \in S : \/ g[r].answers = f[r].answers /\ g[r].told = f[r].told
                          \/ Ending(f[r].answers, f[r].told, g[r].answers, g[r].told)
    <2>1. \A r \in Questions : (b[r] = a[r] /\ u[r] = t[r]) \/ Ending(a[r], t[r], b[r], u[r])
      BY <1>2
    <2> HIDE DEF a, t, b, u
    <2> QED BY <1>1, <2>1, PromiseStep
  <1>3. ASSUME NEW r \in S,
               \A s \in S \ {r} : g[s].answers = f[s].answers /\ g[s].told = f[s].told,
               f[r].answers = <<>>, f[r].told = <<>>,
               \/ g[r].answers = <<>> /\ g[r].told = <<"requested">>
               \/ g[r].answers \in {<<"cancelled">>, <<"failed">>} /\ g[r].told = <<>>
        PROVE  Promise!Step
    <2>1. r \in Questions /\ a[r] = <<>> /\ t[r] = <<>>
      BY <1>3
    <2>2. CASE g[r].answers = <<>> /\ g[r].told = <<"requested">>
      <3>1. b = a
        BY <1>3, <2>2
      <3>2. u = [t EXCEPT ![r] = <<"requested">>]
        BY <1>3, <2>2
      <3>3. \E q \in Questions :
              a[q] = <<>> /\ t[q] = <<>> /\ u = [t EXCEPT ![q] = <<"requested">>] /\ b = a
        <4> HIDE DEF a, t, b, u
        <4> QED BY <2>1, <3>1, <3>2
      <3> HIDE DEF a, t, b, u
      <3> QED BY ONLY <1>1, <3>3, PromiseStep
    <2>3. ASSUME NEW answer \in {"cancelled", "failed"}, g[r].answers = <<answer>>, g[r].told = <<>>
          PROVE  Promise!Step
      <3>1. u = t
        BY <1>3, <2>3
      <3>2. b = [a EXCEPT ![r] = <<answer>>]
        BY <1>3, <2>3
      <3>3. \E q \in Questions :
              /\ a[q] = <<>> /\ t[q] = <<>> /\ u = t
              /\ \E x \in {"cancelled", "failed"} : b = [a EXCEPT ![q] = <<x>>]
        <4> HIDE DEF a, t, b, u
        <4> QED BY <2>1, <3>1, <3>2
      <3> HIDE DEF a, t, b, u
      <3> QED BY ONLY <1>1, <3>3, PromiseStep
    <2> QED BY <1>3, <2>2, <2>3
  <1> QED BY <1>2, <1>3

(* A step of the authentication agent is a step of the promise.             *)
LEMMA AuthKeepsPromise ==
  ASSUME subject = "auth", UNCHANGED subject, Auth!IInv, Auth!Next \/ UNCHANGED authVars
  PROVE  Promise!Step
  <1> USE AuthFacts
  <1> DEFINE f == authRequest
             g == authRequest'
             S == Auth!Requests
  <1>1. DOMAIN f = S /\ DOMAIN g = S /\ S \in SUBSET Questions
    <2>1. Auth!IInv'
      BY AuthStep
    <2> QED BY <2>1 DEF Auth!IInv, Questions, Auth!Requests
  <1>2. /\ Answers = [r \in Questions |-> IF r \in S THEN f[r].answers ELSE <<>>]
        /\ Tells = [r \in Questions |-> IF r \in S THEN f[r].told ELSE <<>>]
        /\ Answers' = [r \in Questions |-> IF r \in S THEN g[r].answers ELSE <<>>]
        /\ Tells' = [r \in Questions |-> IF r \in S THEN g[r].told ELSE <<>>]
    <2> HIDE DEF f, g
    <2>1. authRequest = f /\ authRequest' = g
      BY DEF f, g
    <2> QED BY ONLY <1>1, <2>1, subject = "auth", UNCHANGED subject, AuthSeen DEF S
  <1>3. \A e \in {"authorized", "denied", "cancelled"} :
          e \in Promise!Results /\ Promise!Means(e) = Auth!Answer(e)
    BY DEF Promise!Results, Promise!Means, Auth!Answer
  <1>4. ASSUME NEW r \in S, f[r].at = "open", NEW k, k = g[r],
               NEW e \in {"authorized", "denied", "cancelled"},
               k.told = <<"requested", e>>, k.answers = <<Auth!Answer(e)>>
        PROVE  Ending(f[r].answers, f[r].told, g[r].answers, g[r].told)
    <2>1. f[r].answers = <<>> /\ f[r].told = <<"requested">>
      BY <1>4 DEF Auth!Waits
    <2> HIDE DEF f, g, S
    <2> QED BY <1>3, <1>4, <2>1 DEF Ending
  <1>5. CASE UNCHANGED authVars \/ Auth!Enable
    <2>1. g = f
      BY <1>5 DEF authVars, Auth!Enable
    <2> HIDE DEF f, g, S
    <2> QED BY <1>1, <1>2, <2>1, SeenStep
  <1>6. CASE Auth!Disable
    <2>1. \A r \in S : \/ g[r] = f[r]
                       \/ f[r].at = "open" /\ g[r] = Auth!Finish(f[r], "cancelled")
      <3>1. authRequest' = [r \in Auth!Requests |-> Auth!Stopped(authRequest[r])]
        BY <1>6 DEF Auth!Disable
      <3> QED BY <3>1, AuthStops
    <2>2. ASSUME NEW r \in S, g[r] # f[r]
          PROVE  Ending(f[r].answers, f[r].told, g[r].answers, g[r].told)
      <3>1. /\ f[r].at = "open" /\ g[r] = Auth!Finish(f[r], "cancelled")
            /\ f[r] \in Auth!RequestRecords /\ Auth!Waits(f[r])
        BY <2>1, <2>2
      <3>2. g[r].told = <<"requested", "cancelled">> /\ g[r].answers = <<Auth!Answer("cancelled")>>
        BY <3>1, AuthEnds
      <3> QED BY <1>4, <3>1, <3>2
    <2> HIDE DEF f, g, S
    <2> QED BY <1>1, <1>2, <2>2, SeenStep
  <1>7. ASSUME NEW r \in S, AuthHeard(r) PROVE Promise!Step
    <2>1. PICK k : /\ Auth!Becomes(r, k)
                   /\ \/ k.answers = f[r].answers /\ k.told = f[r].told
                      \/ /\ f[r].at = "open"
                         /\ \E e \in {"authorized", "denied", "cancelled"} :
                              k.told = <<"requested", e>> /\ k.answers = <<Auth!Answer(e)>>
      BY <1>7 DEF AuthHeard
    <2>2. g[r] = k /\ \A s \in S \ {r} : g[s] = f[s]
      BY <1>1, <2>1 DEF Auth!Becomes
    <2>3. \A s \in S : \/ g[s].answers = f[s].answers /\ g[s].told = f[s].told
                       \/ Ending(f[s].answers, f[s].told, g[s].answers, g[s].told)
      <3> HIDE DEF f, g, S
      <3> QED BY <1>4, <2>1, <2>2
    <2> HIDE DEF f, g, S
    <2> QED BY <1>1, <1>2, <2>3, SeenStep
  <1>8. ASSUME NEW r \in S, Auth!Initiate(r) \/ Auth!InitiateNobody(r) PROVE Promise!Step
    <2>1. PICK k : /\ Auth!Becomes(r, k) /\ f[r] = Auth!NewRequest
                   /\ \/ k.answers = <<>> /\ k.told = <<"requested">>
                      \/ k.answers \in {<<"cancelled">>, <<"failed">>} /\ k.told = <<>>
      BY <1>8, AuthComes
    <2>2. g[r] = k /\ \A s \in S \ {r} : g[s] = f[s]
      BY <1>1, <2>1 DEF Auth!Becomes
    <2>3. f[r].answers = <<>> /\ f[r].told = <<>>
      <3> HIDE DEF f
      <3> QED BY <2>1 DEF Auth!NewRequest
    <2> HIDE DEF f, g, S
    <2>4. /\ \A s \in S \ {r} : g[s].answers = f[s].answers /\ g[s].told = f[s].told
          /\ \/ g[r].answers = <<>> /\ g[r].told = <<"requested">>
             \/ g[r].answers \in {<<"cancelled">>, <<"failed">>} /\ g[r].told = <<>>
      BY <2>1, <2>2
    <2> QED BY <1>1, <1>2, <2>3, <2>4, SeenStep
  <1>9. ASSUME NEW r \in S,
               \/ Auth!PolkitCancels(r) \/ Auth!CancelIdle(r)
               \/ Auth!SessionRequest(r) \/ Auth!SessionCompleted(r) \/ Auth!Timeout(r)
               \/ \E c \in Shells \union {Auth!Lua} :
                    Auth!Begin(c, r) \/ Auth!Respond(c, r) \/ Auth!Cancel(c, r)
        PROVE  AuthHeard(r)
    BY <1>9, AuthCancels, AuthHelper, AuthShell
  <1> HIDE DEF f, g
  <1> QED BY <1>5, <1>6, <1>7, <1>8, <1>9 DEF Auth!Next

(* A step of the keyring's prompts is a step of the promise.                *)
LEMMA PromptsKeepPromise ==
  ASSUME subject = "prompts", UNCHANGED subject, Asking!IInv, Asking!Next \/ UNCHANGED promptVars
  PROVE  Promise!Step
  <1> DEFINE f == promptRequest
             g == promptRequest'
             S == Asking!Requests
  <1>1. DOMAIN f = S /\ DOMAIN g = S /\ S \in SUBSET Questions
    <2>1. Asking!IInv'
      BY PromptStep
    <2> QED BY <2>1 DEF Asking!IInv, Asking!RequestsKept, Questions, Asking!Requests
  <1>2. /\ Answers = [r \in Questions |-> IF r \in S THEN f[r].answers ELSE <<>>]
        /\ Tells = [r \in Questions |-> IF r \in S THEN f[r].told ELSE <<>>]
        /\ Answers' = [r \in Questions |-> IF r \in S THEN g[r].answers ELSE <<>>]
        /\ Tells' = [r \in Questions |-> IF r \in S THEN g[r].told ELSE <<>>]
    <2> HIDE DEF f, g
    <2>1. promptRequest = f /\ promptRequest' = g
      BY DEF f, g
    <2> QED BY ONLY <1>1, <2>1, subject = "prompts", UNCHANGED subject, PromptsSeen DEF S
  <1>3. /\ {"answered", "cancelled", "timeout"} \subseteq Promise!Results
        /\ Promise!Means("answered") = "given" /\ Promise!Means("cancelled") = "cancelled"
        /\ Promise!Means("timeout") = "cancelled"
    BY DEF Promise!Results, Promise!Means
  <1>4. ASSUME \A s \in S : PromptHeard(s) PROVE Promise!Step
    <2>1. ASSUME NEW r \in S
          PROVE  \/ g[r].answers = f[r].answers /\ g[r].told = f[r].told
                 \/ /\ f[r].answers = <<>> /\ f[r].told = <<"requested">>
                    /\ \/ g[r].answers = <<"given">> /\ g[r].told = <<"requested", "answered">>
                       \/ /\ g[r].answers = <<"cancelled">>
                          /\ \E e \in {"cancelled", "timeout"} : g[r].told = <<"requested", e>>
      BY <1>4, <2>1 DEF PromptHeard
    <2> HIDE DEF f, g, S
    <2>2. \A r \in S : \/ g[r].answers = f[r].answers /\ g[r].told = f[r].told
                       \/ Ending(f[r].answers, f[r].told, g[r].answers, g[r].told)
      BY <1>3, <2>1 DEF Ending
    <2> QED BY <1>1, <1>2, <2>2, SeenStep
  <1>5. ASSUME NEW r \in S, NEW p \in Prompts, Asking!Start(r, p) PROVE Promise!Step
    <2>1. /\ f[r].answers = <<>> /\ f[r].told = <<>>
          /\ \A s \in S \ {r} : g[s] = f[s]
          /\ \/ g[r].answers = <<>> /\ g[r].told = <<"requested">>
             \/ g[r].answers = <<"cancelled">> /\ g[r].told = <<>>
      BY <1>5, PromptComes DEF Asking!IInv
    <2> HIDE DEF f, g, S
    <2>2. \A s \in S \ {r} : g[s].answers = f[s].answers /\ g[s].told = f[s].told
      BY <2>1
    <2> QED BY <1>1, <1>2, <2>1, <2>2, SeenStep
  <1> QED BY <1>4, <1>5, PromptStep

(* The questions that polkit and the keyring ask the user are asked once    *)
(* and answered once, and both sides learn the same end, whatever else      *)
(* happens to the agents.                                                   *)
THEOREM QuestionsAnsweredOnce == AllSpec => KeepsRequestPromise
  <1> DEFINE Kept == /\ subject = "auth" => Auth!IInv
                     /\ subject = "prompts" => Asking!IInv
  <1>1. AllInit => Kept /\ Promise!Init
    <2> SUFFICES ASSUME AllInit PROVE Kept /\ Promise!Init
      OBVIOUS
    <2>1. Kept
      BY AuthInit, PromptInit DEF AllInit
    <2>2. ASSUME subject = "auth" PROVE Promise!Init
      <3>1. authRequest = [r \in Auth!Requests |-> Auth!NewRequest]
        BY <2>2 DEF AllInit, Auth!Init
      <3>2. Auth!NewRequest.answers = <<>> /\ Auth!NewRequest.told = <<>>
        BY DEF Auth!NewRequest
      <3> QED BY <2>2, <3>1, <3>2 DEF Promise!Init, Heard, Answered, Told
    <2>3. ASSUME subject = "prompts" PROVE Promise!Init
      <3>1. promptRequest = [r \in Asking!Requests |-> Asking!NewRequest]
        BY <2>3 DEF AllInit, Asking!Init
      <3>2. Asking!NewRequest.answers = <<>> /\ Asking!NewRequest.told = <<>>
        BY DEF Asking!NewRequest
      <3> QED BY <2>3, <3>1, <3>2 DEF Promise!Init, Heard, Answered, Told
    <2>4. ASSUME subject # "auth", subject # "prompts" PROVE Promise!Init
      BY <2>4 DEF Promise!Init
    <2> QED BY <2>1, <2>2, <2>3, <2>4
  <1>2. Kept /\ [AllNext]_allVars =>
          Kept' /\ [(subject \in {"auth", "prompts"}) => Promise!Step]_allVars
    <2> SUFFICES ASSUME Kept, [AllNext]_allVars
                 PROVE  Kept' /\ ((subject \in {"auth", "prompts"}) => Promise!Step)
      OBVIOUS
    <2>1. /\ UNCHANGED subject
          /\ subject = "auth" => Auth!Next \/ UNCHANGED authVars
          /\ subject = "prompts" => Asking!Next \/ UNCHANGED promptVars
      BY AgentSteps
    <2>2. Kept'
      BY <2>1, AuthStep, PromptStep
    <2>3. subject \in {"auth", "prompts"} => Promise!Step
      BY <2>1, AuthKeepsPromise, PromptsKeepPromise
    <2> QED BY <2>2, <2>3
  <1> HIDE DEF Kept
  <1> QED BY <1>1, <1>2, PTL DEF AllSpec, KeepsRequestPromise

-----------------------------------------------------------------------------
(***************************************************************************)
(* The GeoClue agent, for every set of levels, any number of requests and  *)
(* of calls of g_bus_get under way at once: a position is given only as a  *)
(* shell allowed it and the policy has it, every request gets one answer,  *)
(* and once nothing is under way the session knows what GeoClue does and   *)
(* GeoClue what the session wants.                                         *)
(*                                                                         *)
(* The inductive invariant (Location!IInv) has three parts.  Of the bus:   *)
(* the manager is watched while the object is exported.  Of the requests:  *)
(* one is new, waits or is over, and its entry may outlive it.  Of the     *)
(* channel: the messages under way tell what the agent will take GeoClue   *)
(* to be after each of them, and after the last it is so, or GeoClue is    *)
(* about to be asked.                                                      *)
(***************************************************************************)

(* The largest of some numbers up to a bound.                               *)
LEMMA LargestOf ==
  ASSUME NEW n \in Nat, NEW S \in SUBSET (0 .. n), S # {}
  PROVE  \E x \in S : \A y \in S : x >= y
  <1> DEFINE T == {x \in Nat : \E s \in S : x = n - s}
  <1>1. T \subseteq Nat /\ T # {}
    <2>1. PICK s \in S : TRUE
      OBVIOUS
    <2>2. n - s \in T
      BY <2>1
    <2> QED BY <2>2
  <1>2. IsWellFoundedOn(OpToRel(<, Nat), Nat)
    BY NatLessThanWellFounded
  <1>3. PICK x \in T : \A y \in T : ~(<<y, x>> \in OpToRel(<, Nat))
    <2> HIDE DEF T
    <2> QED BY <1>1, <1>2, WFMin
  <1>4. \A y \in T : ~(y < x)
    BY <1>3 DEF OpToRel
  <1>5. PICK s \in S : x = n - s
    OBVIOUS
  <1>6. ASSUME NEW y \in S PROVE s >= y
    <2>1. n - y \in T
      OBVIOUS
    <2>2. ~(n - y < x)
      BY <1>4, <2>1
    <2>3. s \in 0 .. n /\ y \in 0 .. n
      OBVIOUS
    <2> QED BY <1>5, <2>2, <2>3
  <1> QED BY <1>6

(* A level that is clamped is a level, and no more than either.             *)
LEMMA ClampBounds ==
  ASSUME NEW level \in Levels \union {0}, NEW most \in Levels \union {0}
  PROVE  LET c == Location!Clamp(level, most)
         IN  c \in Levels \union {0} /\ c <= level /\ c <= most
  <1> DEFINE S == {l \in Levels \union {0} : l <= level /\ l <= most}
  <1>1. Levels \subseteq Nat
    BY DesktopAssumption DEF Location!LocationAssumption
  <1>2. S \in SUBSET (0 .. level) /\ 0 \in S /\ level \in Nat
    <2>1. \A l \in Levels \union {0} : l \in Nat
      BY <1>1
    <2>2. level \in Nat /\ most \in Nat
      BY <2>1
    <2>3. 0 \in S
      BY <2>2
    <2>4. \A l \in S : l \in 0 .. level
      BY <2>1, <2>2
    <2> QED BY <2>2, <2>3, <2>4
  <1>3. \E x \in S : \A y \in S : x >= y
    <2> HIDE DEF S
    <2> QED BY <1>2, LargestOf
  <1>4. Location!Clamp(level, most) \in S
    <2>1. Location!Max(S) \in S
      <3> HIDE DEF S
      <3> QED BY <1>3 DEF Location!Max
    <2> QED BY <2>1 DEF Location!Clamp
  <1> QED BY <1>4

(* An answer is given to a request that is open.                            *)
LEMMA LocationAnswered ==
  ASSUME NEW q \in Location!RequestRecords, q.at = "open", q.answers = <<>>,
         NEW level \in Levels \union {0}, NEW most \in Levels \union {0},
         NEW max \in Levels \union {0}, most = 0 \/ most = max
  PROVE  LET g == [level |-> Location!Clamp(level, Location!Clamp(q.wants, most)), most |-> max]
             k == [q EXCEPT !.at = "over", !.timer = FALSE, !.answers = Append(@, g)]
         IN  /\ k \in Location!RequestRecords /\ k.at = "over" /\ k.answers = <<g>>
             /\ k.wants = q.wants /\ k.pending = q.pending /\ k.clock = q.clock /\ k.told = q.told
             /\ g \in Location!Given /\ g.level <= q.wants /\ g.level <= g.most
             /\ g.level <= level
  <1> DEFINE g == [level |-> Location!Clamp(level, Location!Clamp(q.wants, most)), most |-> max]
             a == Append(q.answers, g)
             k == [q EXCEPT !.at = "over", !.timer = FALSE, !.answers = a]
  <1>0. Levels \union {0} \subseteq Nat
    BY DesktopAssumption DEF Location!LocationAssumption
  <1>1. q.wants \in Levels \union {0}
    BY DEF Location!RequestRecords
  <1>2. /\ g \in Location!Given /\ g.level <= q.wants /\ g.level <= g.most /\ g.level <= level
    <2> DEFINE c == Location!Clamp(q.wants, most)
               e == Location!Clamp(level, c)
    <2>1. c \in Levels \union {0} /\ c <= q.wants /\ c <= most
      BY <1>1, ClampBounds
    <2>2. e \in Levels \union {0} /\ e <= level /\ e <= c
      <3> HIDE DEF c
      <3> QED BY <2>1, ClampBounds
    <2>3. g.level = e /\ g.most = max /\ g \in Location!Given
      <3>1. g = [level |-> e, most |-> max]
        OBVIOUS
      <3> HIDE DEF e, g
      <3> QED BY <2>2, <3>1 DEF Location!Given
    <2> HIDE DEF c, e, g
    <2>4. e <= q.wants /\ e <= max
      BY <1>0, <1>1, <2>1, <2>2
    <2> QED BY <2>2, <2>3, <2>4
  <1>3. a = <<g>>
    BY Appends
  <1>4. k \in Location!RequestRecords
    <2>1. a \in {<<>>} \union {<<e>> : e \in Location!Given}
      BY <1>2, <1>3
    <2> HIDE DEF a
    <2> QED BY ONLY q \in Location!RequestRecords, <2>1 DEF Location!RequestRecords
  <1>5. /\ k.at = "over" /\ k.answers = a /\ k.wants = q.wants /\ k.pending = q.pending
        /\ k.clock = q.clock /\ k.told = q.told
    <2> HIDE DEF a
    <2> QED BY ONLY q \in Location!RequestRecords DEF Location!RequestRecords
  <1> HIDE DEF g, a
  <1> QED BY <1>2, <1>3, <1>4, <1>5 DEF a, g

(* A request that fails is told that it may have nothing.                   *)
LEMMA LocationDenied ==
  ASSUME NEW q \in Location!RequestRecords, q.at = "open", q.answers = <<>>,
         q.pending <=> q.clock, q.pending <=> q.told = <<"requested">>,
         policy' \in Levels \union {0}
  PROVE  LET k == Location!Completed(q, FALSE, 0)
         IN  /\ k \in Location!RequestRecords /\ Location!RequestRight(k) /\ k.at = "over"
             /\ k.pending = q.pending /\ k.told = q.told
  <1> DEFINE g == [level |-> Location!Clamp(0, Location!Clamp(q.wants, 0)), most |-> policy']
             k == [q EXCEPT !.at = "over", !.timer = FALSE, !.answers = Append(@, g)]
  <1>1. Location!Completed(q, FALSE, 0) = k
    BY DEF Location!Completed
  <1>2. /\ k \in Location!RequestRecords /\ k.at = "over" /\ k.answers = <<g>>
        /\ k.wants = q.wants /\ k.pending = q.pending /\ k.clock = q.clock /\ k.told = q.told
        /\ g \in Location!Given /\ g.level <= q.wants /\ g.level <= g.most
        /\ g.level <= 0
    <2>1. 0 \in Levels \union {0}
      OBVIOUS
    <2> QED BY <2>1, LocationAnswered
  <1>3. g.level = 0
    <2>1. g.level \in Nat
      BY <1>2, DesktopAssumption DEF Location!LocationAssumption, Location!Given
    <2> HIDE DEF g
    <2> QED BY <1>2, <2>1
  <1> HIDE DEF k, g
  <1>4. Location!Answered(k)
    BY <1>2, <1>3 DEF Location!Answered
  <1>5. Location!RequestRight(k)
    BY <1>2, <1>4 DEF Location!RequestRight
  <1> QED BY <1>1, <1>2, <1>5

(* Every request that waits fails, and no other changes.                    *)
LEMMA LocationFails ==
  ASSUME NEW q \in Location!RequestRecords, Location!RequestRight(q),
         policy' \in Levels \union {0}
  PROVE  LET k == Location!Completed(q, FALSE, 0)
         IN  /\ k \in Location!RequestRecords /\ Location!RequestRight(k) /\ k.at # "open"
             /\ k.pending = q.pending /\ k.told = q.told
             /\ q.at # "new" => k.at = "over"
  <1>1. q.at \in {"new", "open", "over"}
    BY DEF Location!RequestRecords
  <1>2. CASE q.at = "open"
    BY <1>2, LocationDenied DEF Location!RequestRight, Location!Unanswered
  <1>3. CASE q.at # "open"
    <2>1. Location!Completed(q, FALSE, 0) = q
      BY <1>3 DEF Location!Completed
    <2> QED BY <1>1, <1>3, <2>1
  <1> QED BY <1>2, <1>3

(* The shells are told of the end of a request that is over.                *)
LEMMA LocationTold ==
  ASSUME NEW q \in Location!RequestRecords, q.at = "over", q.told = <<"requested">>,
         NEW g \in Location!Given, q.answers = <<g>>, g.level <= q.wants, g.level <= g.most,
         NEW result \in Location!Ends, g.level # 0 => result = "allowed"
  PROVE  LET k == [q EXCEPT !.pending = FALSE, !.clock = FALSE, !.told = Append(@, result)]
         IN  /\ k \in Location!RequestRecords /\ Location!RequestRight(k) /\ k.at = "over"
             /\ ~k.pending
  <1> DEFINE t == Append(q.told, result)
             k == [q EXCEPT !.pending = FALSE, !.clock = FALSE, !.told = t]
  <1>1. t = <<"requested", result>>
    BY Appends
  <1>2. t \in {<<>>, <<"requested">>} \union {<<"requested", e>> : e \in Location!Ends}
    BY <1>1
  <1>3. t # <<"requested">> /\ (g.level # 0 => t = <<"requested", "allowed">>)
    BY <1>1
  <1> HIDE DEF t
  <1>4. k \in Location!RequestRecords
    BY ONLY q \in Location!RequestRecords, <1>2 DEF Location!RequestRecords
  <1>5. /\ k.at = "over" /\ k.pending = FALSE /\ k.clock = FALSE /\ k.told = t
        /\ k.answers = <<g>> /\ k.wants = q.wants
    BY DEF Location!RequestRecords
  <1> HIDE DEF k
  <1>6. Location!Answered(k)
    BY <1>3, <1>5 DEF Location!Answered
  <1>7. Location!RequestRight(k)
    BY <1>3, <1>5, <1>6 DEF Location!RequestRight
  <1> QED BY <1>4, <1>5, <1>7 DEF k, t

(* A pending request was told, and its entry may outlive it.                *)
LEMMA LocationPends ==
  ASSUME NEW q \in Location!RequestRecords, Location!RequestRight(q), q.pending \/ q.clock
  PROVE  /\ q.pending /\ q.clock /\ q.told = <<"requested">> /\ q.at \in {"open", "over"}
         /\ q.at = "open" => q.answers = <<>>
         /\ q.at = "over" =>
              \E g \in Location!Given : /\ q.answers = <<g>> /\ g.level <= q.wants
                                        /\ g.level <= g.most /\ g.level = 0
  <1>1. q.pending /\ q.clock /\ q.told = <<"requested">>
    BY DEF Location!RequestRight
  <1>2. q.at \in {"new", "open", "over"}
    BY DEF Location!RequestRecords
  <1>3. q.at # "new"
    BY <1>1 DEF Location!RequestRight, Location!NewRequest
  <1>4. <<"requested">> # <<"requested", "allowed">>
    OBVIOUS
  <1>5. q.at = "over" =>
          \E g \in Location!Given : /\ q.answers = <<g>> /\ g.level <= q.wants
                                    /\ g.level <= g.most /\ g.level = 0
    BY <1>1, <1>4 DEF Location!RequestRight, Location!Answered
  <1>6. q.at = "open" => q.answers = <<>>
    BY DEF Location!RequestRight, Location!Unanswered
  <1> QED BY <1>1, <1>2, <1>3, <1>5, <1>6

(* An entry that is freed ends its request too.                             *)
LEMMA LocationFreed ==
  ASSUME NEW q \in Location!RequestRecords, Location!RequestRight(q), q.pending,
         NEW result \in Location!Ends, policy' \in Levels \union {0}
  PROVE  LET k == Location!Freed(q, result)
         IN  /\ k \in Location!RequestRecords /\ Location!RequestRight(k) /\ k.at = "over"
             /\ ~k.pending
  <1> DEFINE c == Location!Completed(q, FALSE, 0)
  <1>1. /\ c \in Location!RequestRecords /\ Location!RequestRight(c) /\ c.at # "open"
        /\ c.pending = q.pending /\ c.told = q.told /\ (q.at # "new" => c.at = "over")
    BY LocationFails
  <1>2. Location!Freed(q, result)
          = [c EXCEPT !.pending = FALSE, !.clock = FALSE, !.told = Append(@, result)]
    BY DEF Location!Freed
  <1> HIDE DEF c
  <1>3. /\ c.told = <<"requested">> /\ c.at = "over"
        /\ \E g \in Location!Given : /\ c.answers = <<g>> /\ g.level <= c.wants
                                     /\ g.level <= g.most /\ g.level = 0
    BY <1>1, LocationPends
  <1>4. PICK g \in Location!Given : /\ c.answers = <<g>> /\ g.level <= c.wants
                                    /\ g.level <= g.most /\ g.level = 0
    BY <1>3
  <1>5. g.level # 0 => result = "allowed"
    BY <1>4
  <1> DEFINE k == [c EXCEPT !.pending = FALSE, !.clock = FALSE, !.told = Append(@, result)]
  <1>6. k \in Location!RequestRecords /\ Location!RequestRight(k) /\ k.at = "over" /\ ~k.pending
    BY <1>1, <1>3, <1>4, <1>5, LocationTold
  <1> HIDE DEF k
  <1> QED BY <1>2, <1>6 DEF k

(* What a shell allows is given as far as the policy has it.                *)
LEMMA LocationAllowed ==
  ASSUME NEW q \in Location!RequestRecords, Location!RequestRight(q), q.pending,
         NEW level \in Levels, policy' \in Levels \union {0}
  PROVE  LET k == Location!Freed(Location!Completed(q, TRUE, level), "allowed")
         IN  /\ k \in Location!RequestRecords /\ Location!RequestRight(k) /\ k.at = "over"
             /\ ~k.pending
  <1>0. "allowed" \in Location!Ends
    BY DEF Location!Ends
  <1>1. q.told = <<"requested">> /\ q.at \in {"open", "over"} /\ (q.at = "open" => q.answers = <<>>)
    BY LocationPends
  <1>2. CASE q.at = "open"
    <2>0. PICK most \in Levels \union {0}, max \in Levels \union {0} :
               /\ max = policy'
               /\ most = IF stopped' \/ ~available' THEN 0 ELSE policy'
      OBVIOUS
    <2> DEFINE g == [level |-> Location!Clamp(level, Location!Clamp(q.wants, most)), most |-> max]
               c == [q EXCEPT !.at = "over", !.timer = FALSE, !.answers = Append(@, g)]
               k == [c EXCEPT !.pending = FALSE, !.clock = FALSE, !.told = Append(@, "allowed")]
    <2>1. /\ most = 0 \/ most = max
          /\ level \in Levels \union {0} /\ most \in Levels \union {0}
          /\ max \in Levels \union {0}
      BY <2>0
    <2>2. Location!Completed(q, TRUE, level) = c
      BY <1>2, <2>0 DEF Location!Completed
    <2>3. /\ c \in Location!RequestRecords /\ c.at = "over" /\ c.answers = <<g>>
          /\ c.wants = q.wants /\ c.pending = q.pending /\ c.clock = q.clock /\ c.told = q.told
          /\ g \in Location!Given /\ g.level <= q.wants /\ g.level <= g.most
          /\ g.level <= level
      BY ONLY q \in Location!RequestRecords, <1>1, <1>2, <2>1, LocationAnswered
    <2>4. Location!Freed(c, "allowed") = k
      <3> HIDE DEF c
      <3>1. Location!Completed(c, FALSE, 0) = c
        BY <2>3 DEF Location!Completed
      <3> QED BY <3>1 DEF Location!Freed
    <2> HIDE DEF c, g
    <2>5. /\ k \in Location!RequestRecords /\ Location!RequestRight(k) /\ k.at = "over"
          /\ ~k.pending
      BY <1>0, <1>1, <2>3, LocationTold
    <2> HIDE DEF k
    <2> QED BY <2>2, <2>4, <2>5
  <1>3. CASE q.at = "over"
    <2>1. Location!Completed(q, TRUE, level) = q
      BY <1>3 DEF Location!Completed
    <2> QED BY <1>0, <2>1, LocationFreed
  <1> QED BY <1>1, <1>2, <1>3

(* What the invariant says of the requests.                                 *)
LEMMA LocationFacts ==
  ASSUME Location!RequestsKept
  PROVE  /\ LocationQuestions \in Nat /\ LocationPending \in Nat
         /\ Location!Requests = 1 .. LocationQuestions
         /\ locationRequest \in [Location!Requests -> Location!RequestRecords]
         /\ Location!Pending = {r \in Location!Requests : locationRequest[r].pending}
         /\ Cardinality(Location!Pending) <= LocationPending
         /\ \A r \in Location!Requests :
              /\ locationRequest[r] \in Location!RequestRecords
              /\ Location!RequestRight(locationRequest[r])
              /\ locationRequest[r].at = "open" => present
  <1>1. LocationQuestions \in Nat /\ LocationPending \in Nat
    BY DesktopAssumption DEF Location!LocationAssumption
  <1>2. Cardinality(Location!Pending) <= LocationPending
    BY SameCardinality DEF Location!RequestsKept
  <1> QED BY <1>1, <1>2 DEF Location!RequestsKept, Location!Requests, Location!Pending

(* Requests that are right one by one, and no more pending than before but  *)
(* for one the table has room for.                                          *)
LEMMA LocationRequests ==
  ASSUME Location!RequestsKept,
         locationRequest' \in [Location!Requests -> Location!RequestRecords],
         \A s \in Location!Requests :
           /\ Location!RequestRight(locationRequest'[s])
           /\ locationRequest'[s].at = "open" => present',
         NEW r,
         \A s \in Location!Requests \ {r} :
           locationRequest'[s].pending => locationRequest[s].pending,
         \/ r \notin Location!Requests
         \/ locationRequest'[r].pending => locationRequest[r].pending
         \/ Cardinality(Location!Pending) < LocationPending
  PROVE  Location!RequestsKept'
  <1> USE LocationFacts
  <1>1. Cardinality(Location!Pending') <= LocationPending
    <2>1. Location!Pending' = {s \in Location!Requests : locationRequest'[s].pending}
      BY DEF Location!Pending
    <2>2. Location!Pending \in SUBSET (1 .. LocationQuestions)
      OBVIOUS
    <2>3. CASE \/ r \notin Location!Requests
               \/ locationRequest'[r].pending => locationRequest[r].pending
      <3>1. Location!Pending' \in SUBSET Location!Pending
        BY <2>1, <2>3
      <3> QED BY <2>2, <3>1, CountedPending
    <2>4. CASE Cardinality(Location!Pending) < LocationPending
      <3>1. Location!Pending' \subseteq Location!Pending \cup {r}
        BY <2>1
      <3> QED BY <2>2, <2>4, <3>1, CountedPending
    <2> QED BY <2>3, <2>4
  <1>2. Location!Cardinality(Location!Pending') <= LocationPending
    BY <1>1, SameCardinality
  <1> QED BY <1>2 DEF Location!RequestsKept

(* One request becomes k.                                                   *)
LEMMA LocationBecomes ==
  ASSUME Location!RequestsKept, NEW r \in Location!Requests,
         NEW k \in Location!RequestRecords, Location!RequestRight(k), k.at = "open" => present,
         \/ k.pending => locationRequest[r].pending
         \/ Cardinality(Location!Pending) < LocationPending,
         Location!Becomes(r, k), UNCHANGED present
  PROVE  Location!RequestsKept'
  <1> USE LocationFacts
  <1>1. locationRequest' = [locationRequest EXCEPT ![r] = k]
    BY DEF Location!Becomes
  <1>2. /\ locationRequest' \in [Location!Requests -> Location!RequestRecords]
        /\ \A s \in Location!Requests :
             locationRequest'[s] = IF s = r THEN k ELSE locationRequest[s]
    BY <1>1
  <1>3. \A s \in Location!Requests :
           /\ Location!RequestRight(locationRequest'[s])
           /\ locationRequest'[s].at = "open" => present'
    BY <1>2
  <1>4. \A s \in Location!Requests \ {r} :
           locationRequest'[s].pending => locationRequest[s].pending
    BY <1>2
  <1>5. \/ locationRequest'[r].pending => locationRequest[r].pending
        \/ Cardinality(Location!Pending) < LocationPending
    BY <1>2
  <1> QED BY <1>2, <1>3, <1>4, <1>5, LocationRequests

(* A request of one, and what the shells, the entry and the timer make of it. *)
LEMMA LocationAsks ==
  ASSUME Location!IInv, NEW r \in Location!Requests,
         \/ Location!AuthorizeApp(r) \/ Location!Allow(r) \/ Location!Deny(r)
         \/ Location!EntryTimeout(r) \/ Location!RequestTimeout(r)
  PROVE  Location!RequestsKept'
  <1> DEFINE q == locationRequest[r]
  <1>1. /\ UNCHANGED <<present, policy, available>>
    BY DEF Location!AuthorizeApp, Location!Allow, Location!Deny, Location!EntryTimeout,
           Location!RequestTimeout, Location!requestless, Location!agentVars
  <1>2. policy' \in Levels \union {0} /\ Location!RequestsKept /\ (available => present)
    BY <1>1 DEF Location!IInv, Location!BusKept, Location!ChannelKept
  <1>3. /\ q \in Location!RequestRecords /\ Location!RequestRight(q)
        /\ q.at = "open" => present
    BY <1>2, LocationFacts
  <1>4. /\ "allowed" \in Location!Ends /\ "denied" \in Location!Ends
        /\ "timeout" \in Location!Ends
    BY DEF Location!Ends
  <1>5. CASE Location!AuthorizeApp(r)
    <2>1. PICK level \in Levels, serving \in BOOLEAN :
            Location!Becomes(r, Location!Asked([q EXCEPT !.at = "open", !.wants = level], serving))
      BY <1>5 DEF Location!AuthorizeApp
    <2> DEFINE o == [q EXCEPT !.at = "open", !.wants = level]
    <2>2. q = Location!NewRequest
      BY <1>3, <1>5 DEF Location!AuthorizeApp, Location!Comes, Location!RequestRight
    <2>3. /\ o \in Location!RequestRecords /\ o.at = "open" /\ o.answers = <<>> /\ o.told = <<>>
          /\ o.pending = FALSE /\ o.clock = FALSE
      <3>1. q.answers = <<>> /\ q.told = <<>> /\ q.pending = FALSE /\ q.clock = FALSE
        BY <2>2 DEF Location!NewRequest
      <3>2. level \in Levels \union {0}
        OBVIOUS
      <3> HIDE DEF q
      <3> QED BY <1>3, <3>1, <3>2 DEF Location!RequestRecords
    <2> HIDE DEF o
    <2>4. <<>> # <<"requested">>
      OBVIOUS
    <2>5. CASE \/ ~available \/ policy = 0 \/ ~serving
               \/ Location!Cardinality(Location!Pending) >= LocationPending
      <3> DEFINE k == Location!Completed(o, FALSE, 0)
      <3>1. Location!Asked(o, serving) = k
        BY <2>5 DEF Location!Asked
      <3>2. /\ k \in Location!RequestRecords /\ Location!RequestRight(k) /\ k.at = "over"
            /\ k.pending = FALSE
        BY <1>2, <2>3, <2>4, LocationDenied
      <3>3. Location!Becomes(r, k)
        BY <2>1, <3>1 DEF o
      <3> HIDE DEF k
      <3> QED BY <1>1, <1>2, <3>2, <3>3, LocationBecomes
    <2>6. CASE ~(\/ ~available \/ policy = 0 \/ ~serving
                 \/ Location!Cardinality(Location!Pending) >= LocationPending)
      <3> DEFINE t == <<"requested">>
                 k == [o EXCEPT !.timer = TRUE, !.pending = TRUE, !.clock = TRUE, !.told = t]
      <3>1. Location!Asked(o, serving) = k
        BY <2>6 DEF Location!Asked
      <3>2. t \in {<<>>, <<"requested">>} \union {<<"requested", e>> : e \in Location!Ends}
        OBVIOUS
      <3>3. /\ k \in Location!RequestRecords /\ k.at = "open" /\ k.timer = TRUE
            /\ k.pending = TRUE /\ k.clock = TRUE /\ k.told = t /\ k.answers = <<>>
        <4> DEFINE k1 == [o EXCEPT !.timer = TRUE, !.pending = TRUE]
        <4>1. /\ k1 \in Location!RequestRecords /\ k1.at = "open" /\ k1.answers = <<>>
              /\ k1.timer = TRUE /\ k1.pending = TRUE
          BY ONLY <2>3 DEF Location!RequestRecords
        <4>2. k = [k1 EXCEPT !.clock = TRUE, !.told = t]
          BY ONLY <2>3 DEF Location!RequestRecords
        <4> HIDE DEF k1, t, k
        <4> QED BY ONLY <3>2, <4>1, <4>2 DEF Location!RequestRecords
      <3>4. Location!RequestRight(k)
        <4>1. t = <<"requested">>
          OBVIOUS
        <4> HIDE DEF k, t
        <4> QED BY <3>3, <4>1 DEF Location!RequestRight, Location!Unanswered
      <3>5. Cardinality(Location!Pending) < LocationPending
        <4>1. Cardinality(Location!Pending) \in Nat
          <5>1. Location!Pending \in SUBSET (1 .. LocationQuestions)
            BY <1>2, LocationFacts
          <5> QED BY <1>2, <5>1, CountedPending, LocationFacts
        <4> QED BY <1>2, <2>6, <4>1, LocationFacts, SameCardinality
      <3>6. Location!Becomes(r, k)
        BY <2>1, <3>1 DEF o
      <3> HIDE DEF k
      <3> QED BY <1>1, <1>2, <2>6, <3>3, <3>4, <3>5, <3>6, LocationBecomes
    <2> QED BY <2>5, <2>6
  <1>6. CASE Location!Allow(r)
    <2>1. PICK level \in Levels :
            Location!Becomes(r, Location!Freed(Location!Completed(q, TRUE, level), "allowed"))
      BY <1>6 DEF Location!Allow
    <2>2. q.pending
      BY <1>6 DEF Location!Allow
    <2> DEFINE k == Location!Freed(Location!Completed(q, TRUE, level), "allowed")
    <2>3. /\ k \in Location!RequestRecords /\ Location!RequestRight(k) /\ k.at = "over"
          /\ ~k.pending
      BY <1>2, <1>3, <2>2, LocationAllowed
    <2> HIDE DEF k
    <2> QED BY <1>1, <1>2, <2>1, <2>3, LocationBecomes DEF k
  <1>7. CASE Location!Deny(r)
    <2> DEFINE c == Location!Completed(q, FALSE, 0)
               k == Location!Freed(c, "denied")
    <2>1. Location!Becomes(r, k) /\ q.pending
      BY <1>7 DEF Location!Deny
    <2>2. c \in Location!RequestRecords /\ Location!RequestRight(c) /\ c.pending
      BY <1>2, <1>3, <2>1, LocationFails
    <2>3. /\ k \in Location!RequestRecords /\ Location!RequestRight(k) /\ k.at = "over"
          /\ ~k.pending
      <3> HIDE DEF c
      <3> QED BY <1>2, <1>4, <2>2, LocationFreed
    <2> HIDE DEF k
    <2> QED BY <1>1, <1>2, <2>1, <2>3, LocationBecomes
  <1>8. CASE Location!EntryTimeout(r)
    <2> DEFINE k == Location!Freed(q, "timeout")
    <2>1. Location!Becomes(r, k) /\ q.clock
      BY <1>8 DEF Location!EntryTimeout
    <2>2. q.pending
      BY <1>3, <2>1, LocationPends
    <2>3. /\ k \in Location!RequestRecords /\ Location!RequestRight(k) /\ k.at = "over"
          /\ ~k.pending
      BY <1>2, <1>3, <1>4, <2>2, LocationFreed
    <2> HIDE DEF k
    <2> QED BY <1>1, <1>2, <2>1, <2>3, LocationBecomes
  <1>9. CASE Location!RequestTimeout(r)
    <2> DEFINE k == Location!Completed(q, FALSE, 0)
    <2>1. Location!Becomes(r, k)
      BY <1>9 DEF Location!RequestTimeout
    <2>2. /\ k \in Location!RequestRecords /\ Location!RequestRight(k) /\ k.at # "open"
          /\ k.pending = q.pending
      BY <1>2, <1>3, LocationFails
    <2> HIDE DEF k
    <2> QED BY <1>1, <1>2, <2>1, <2>2, LocationBecomes
  <1> QED BY <1>5, <1>6, <1>7, <1>8, <1>9

(* A manager that left, or an agent that stops, leaves no request open.     *)
LEMMA LocationClears ==
  ASSUME Location!RequestsKept, policy' \in Levels \union {0},
         \/ locationRequest' = [r \in Location!Requests |-> Location!FailAll(locationRequest[r])]
         \/ locationRequest' =
              [r \in Location!Requests |-> Location!FailAll(Location!Cleared(locationRequest[r]))]
  PROVE  Location!RequestsKept'
  <1> DEFINE c == [r \in Location!Requests |-> Location!Cleared(locationRequest[r])]
             f == [r \in Location!Requests |-> Location!FailAll(locationRequest[r])]
             g == [r \in Location!Requests |-> Location!FailAll(c[r])]
  <1>1. "denied" \in Location!Ends
    BY DEF Location!Ends
  <1>2. ASSUME NEW r \in Location!Requests
        PROVE  /\ c[r] \in Location!RequestRecords /\ Location!RequestRight(c[r])
               /\ c[r].pending => locationRequest[r].pending
    <2> DEFINE q == locationRequest[r]
               k == Location!Freed(q, "denied")
    <2>1. q \in Location!RequestRecords /\ Location!RequestRight(q)
      BY LocationFacts
    <2>2. CASE q.pending
      <3>1. c[r] = k
        BY <2>2 DEF Location!Cleared
      <3>2. k \in Location!RequestRecords /\ Location!RequestRight(k) /\ ~k.pending
        BY <1>1, <2>1, <2>2, LocationFreed
      <3> HIDE DEF k, c
      <3> QED BY <3>1, <3>2
    <2>3. CASE ~q.pending
      <3>1. c[r] = q
        BY <2>3 DEF Location!Cleared
      <3> HIDE DEF c
      <3> QED BY <2>1, <3>1
    <2> QED BY <2>2, <2>3
  <1>3. ASSUME NEW r \in Location!Requests, NEW q \in Location!RequestRecords,
               Location!RequestRight(q)
        PROVE  LET k == Location!FailAll(q)
               IN  /\ k \in Location!RequestRecords /\ Location!RequestRight(k) /\ k.at # "open"
                   /\ k.pending = q.pending
    <2>1. Location!FailAll(q) = Location!Completed(q, FALSE, 0)
      BY DEF Location!FailAll
    <2> QED BY <1>3, <2>1, LocationFails
  <1>4. ASSUME NEW h, h = f \/ h = g, NEW r \in Location!Requests
        PROVE  /\ h[r] \in Location!RequestRecords /\ Location!RequestRight(h[r])
               /\ h[r].at # "open" /\ (h[r].pending => locationRequest[r].pending)
    <2> DEFINE q == locationRequest[r]
    <2>1. q \in Location!RequestRecords /\ Location!RequestRight(q)
      BY LocationFacts
    <2>2. CASE h = f
      <3>1. h[r] = Location!FailAll(q)
        BY <2>2
      <3> QED BY <1>3, <2>1, <3>1
    <2>3. CASE h = g
      <3>1. h[r] = Location!FailAll(c[r])
        BY <2>3
      <3>2. /\ c[r] \in Location!RequestRecords /\ Location!RequestRight(c[r])
            /\ c[r].pending => locationRequest[r].pending
        BY <1>2
      <3> HIDE DEF c
      <3> QED BY <1>3, <3>1, <3>2
    <2> QED BY <1>4, <2>2, <2>3
  <1>5. locationRequest' = f \/ locationRequest' = g
    BY Zenon DEF f, g, c
  <1>6. locationRequest' \in [Location!Requests -> Location!RequestRecords]
    <2>1. DOMAIN locationRequest' = Location!Requests
          /\ locationRequest' = [r \in Location!Requests |-> locationRequest'[r]]
      BY <1>5
    <2> HIDE DEF f, g
    <2>2. \A r \in Location!Requests : locationRequest'[r] \in Location!RequestRecords
      BY <1>4, <1>5
    <2> QED BY <2>1, <2>2
  <1>7. \A r \in Location!Requests :
          /\ Location!RequestRight(locationRequest'[r])
          /\ locationRequest'[r].at # "open"
          /\ locationRequest'[r].pending => locationRequest[r].pending
    <2> HIDE DEF f, g
    <2> QED BY <1>4, <1>5
  <1> QED BY <1>6, <1>7, LocationRequests

(* The requests when nothing happens to them.                               *)
LEMMA LocationWaits ==
  ASSUME Location!RequestsKept, UNCHANGED locationRequest, present => present'
  PROVE  Location!RequestsKept'
  BY LocationFacts, LocationRequests

-----------------------------------------------------------------------------
(* What is under way between GeoClue and the agent.                         *)

Messages == {"appeared", "vanished", "added", "failed", "used", "unused"}

(* P, A and U are the numbers of messages of w after which the agent takes  *)
(* GeoClue to be present, available and in use.                             *)
Follows(w, P, A, U) ==
  \A i \in 1 .. Len(w) :
    /\ i \in P <=> \/ w[i] = "appeared"
                   \/ i - 1 \in P /\ w[i] # "vanished"
    /\ i \in A <=> \/ w[i] = "added" /\ i - 1 \in P
                   \/ i - 1 \in A /\ w[i] \notin {"failed", "vanished"}
    /\ i \in U <=> \/ w[i] = "used" /\ i - 1 \in A
                   \/ /\ i - 1 \in U /\ w[i] \notin {"failed", "vanished"}
                      /\ ~(w[i] = "added" /\ i - 1 \in P)
                      /\ ~(w[i] = "unused" /\ i - 1 \in A)

(* One more message.                                                        *)
LEMMA WireGrows ==
  ASSUME NEW w \in Seq(Messages), NEW m \in Messages,
         NEW P, NEW A, NEW U, Follows(w, P, A, U)
  PROVE  \E P2, A2, U2 :
           /\ Follows(Append(w, m), P2, A2, U2)
           /\ \A i \in 0 .. Len(w) :
                (i \in P2 <=> i \in P) /\ (i \in A2 <=> i \in A) /\ (i \in U2 <=> i \in U)
           /\ Len(w) + 1 \in P2 <=> \/ m = "appeared"
                                    \/ Len(w) \in P /\ m # "vanished"
           /\ Len(w) + 1 \in A2 <=> \/ m = "added" /\ Len(w) \in P
                                    \/ Len(w) \in A /\ m \notin {"failed", "vanished"}
           /\ Len(w) + 1 \in U2 <=> \/ m = "used" /\ Len(w) \in A
                                    \/ /\ Len(w) \in U /\ m \notin {"failed", "vanished"}
                                       /\ ~(m = "added" /\ Len(w) \in P)
                                       /\ ~(m = "unused" /\ Len(w) \in A)
  <1> DEFINE n == Len(w)
             v == Append(w, m)
             P2 == {i \in 0 .. n : i \in P}
                     \cup {i \in {n + 1} : m = "appeared" \/ (n \in P /\ m # "vanished")}
             A2 == {i \in 0 .. n : i \in A}
                     \cup {i \in {n + 1} : \/ m = "added" /\ n \in P
                                           \/ n \in A /\ m \notin {"failed", "vanished"}}
             U2 == {i \in 0 .. n : i \in U}
                     \cup {i \in {n + 1} : \/ m = "used" /\ n \in A
                                           \/ /\ n \in U /\ m \notin {"failed", "vanished"}
                                              /\ ~(m = "added" /\ n \in P)
                                              /\ ~(m = "unused" /\ n \in A)}
  <1>1. n \in Nat /\ Len(v) = n + 1 /\ v[n + 1] = m /\ \A i \in 1 .. n : v[i] = w[i]
    OBVIOUS
  <1>2. /\ \A i \in 0 .. n :
             (i \in P2 <=> i \in P) /\ (i \in A2 <=> i \in A) /\ (i \in U2 <=> i \in U)
        /\ n + 1 \in P2 <=> \/ m = "appeared"
                            \/ n \in P /\ m # "vanished"
        /\ n + 1 \in A2 <=> \/ m = "added" /\ n \in P
                            \/ n \in A /\ m \notin {"failed", "vanished"}
        /\ n + 1 \in U2 <=> \/ m = "used" /\ n \in A
                            \/ /\ n \in U /\ m \notin {"failed", "vanished"}
                               /\ ~(m = "added" /\ n \in P)
                               /\ ~(m = "unused" /\ n \in A)
    <2>1. n \in Nat
      OBVIOUS
    <2> HIDE DEF n
    <2> QED BY ONLY <2>1
  <1>3. Follows(v, P2, A2, U2)
    <2> SUFFICES ASSUME NEW i \in 1 .. Len(v)
                 PROVE  /\ i \in P2 <=> \/ v[i] = "appeared"
                                        \/ i - 1 \in P2 /\ v[i] # "vanished"
                        /\ i \in A2 <=> \/ v[i] = "added" /\ i - 1 \in P2
                                        \/ i - 1 \in A2 /\ v[i] \notin {"failed", "vanished"}
                        /\ i \in U2 <=> \/ v[i] = "used" /\ i - 1 \in A2
                                        \/ /\ i - 1 \in U2 /\ v[i] \notin {"failed", "vanished"}
                                           /\ ~(v[i] = "added" /\ i - 1 \in P2)
                                           /\ ~(v[i] = "unused" /\ i - 1 \in A2)
      BY DEF Follows
    <2>1. CASE i = n + 1
      <3>1. i - 1 = n /\ n \in 0 .. n /\ v[i] = m
        BY <1>1, <2>1
      <3> HIDE DEF n, v, P2, A2, U2
      <3> QED BY ONLY <1>2, <2>1, <3>1
    <2>2. CASE i # n + 1
      <3>1. i \in 1 .. n /\ i \in 0 .. n /\ i - 1 \in 0 .. n /\ v[i] = w[i]
        BY <1>1, <2>2
      <3>2. /\ i \in P <=> \/ w[i] = "appeared"
                           \/ i - 1 \in P /\ w[i] # "vanished"
            /\ i \in A <=> \/ w[i] = "added" /\ i - 1 \in P
                           \/ i - 1 \in A /\ w[i] \notin {"failed", "vanished"}
            /\ i \in U <=> \/ w[i] = "used" /\ i - 1 \in A
                           \/ /\ i - 1 \in U /\ w[i] \notin {"failed", "vanished"}
                              /\ ~(w[i] = "added" /\ i - 1 \in P)
                              /\ ~(w[i] = "unused" /\ i - 1 \in A)
        BY <3>1 DEF Follows
      <3> HIDE DEF n, v, P2, A2, U2
      <3> QED BY ONLY <1>2, <3>1, <3>2
    <2> QED BY <2>1, <2>2
  <1> HIDE DEF P2, A2, U2
  <1> QED BY ONLY <1>2, <1>3 DEF n, v

(* The first message is heard.                                              *)
LEMMA WireShrinks ==
  ASSUME NEW w \in Seq(Messages), w # <<>>, NEW P, NEW A, NEW U, Follows(w, P, A, U)
  PROVE  \E P2, A2, U2 :
           /\ Follows(Tail(w), P2, A2, U2)
           /\ \A i \in 0 .. Len(w) - 1 :
                /\ i \in P2 <=> i + 1 \in P
                /\ i \in A2 <=> i + 1 \in A
                /\ i \in U2 <=> i + 1 \in U
  <1> DEFINE n == Len(w)
             v == Tail(w)
             P2 == {i \in 0 .. n - 1 : i + 1 \in P}
             A2 == {i \in 0 .. n - 1 : i + 1 \in A}
             U2 == {i \in 0 .. n - 1 : i + 1 \in U}
  <1>1. /\ n \in Nat /\ n > 0 /\ Len(v) = n - 1
        /\ \A i \in 1 .. n - 1 : v[i] = w[i + 1]
    OBVIOUS
  <1>2. \A i \in 0 .. n - 1 :
          /\ i \in P2 <=> i + 1 \in P
          /\ i \in A2 <=> i + 1 \in A
          /\ i \in U2 <=> i + 1 \in U
    OBVIOUS
  <1>3. Follows(v, P2, A2, U2)
    <2> SUFFICES ASSUME NEW i \in 1 .. Len(v)
                 PROVE  /\ i \in P2 <=> \/ v[i] = "appeared"
                                        \/ i - 1 \in P2 /\ v[i] # "vanished"
                        /\ i \in A2 <=> \/ v[i] = "added" /\ i - 1 \in P2
                                        \/ i - 1 \in A2 /\ v[i] \notin {"failed", "vanished"}
                        /\ i \in U2 <=> \/ v[i] = "used" /\ i - 1 \in A2
                                        \/ /\ i - 1 \in U2 /\ v[i] \notin {"failed", "vanished"}
                                           /\ ~(v[i] = "added" /\ i - 1 \in P2)
                                           /\ ~(v[i] = "unused" /\ i - 1 \in A2)
      BY DEF Follows
    <2>1. /\ i \in 0 .. n - 1 /\ i - 1 \in 0 .. n - 1 /\ v[i] = w[i + 1]
          /\ i + 1 \in 1 .. n /\ (i + 1) - 1 = i /\ (i - 1) + 1 = i
      BY <1>1
    <2> DEFINE j == i + 1
    <2>2. /\ j \in P <=> \/ w[j] = "appeared"
                         \/ j - 1 \in P /\ w[j] # "vanished"
          /\ j \in A <=> \/ w[j] = "added" /\ j - 1 \in P
                         \/ j - 1 \in A /\ w[j] \notin {"failed", "vanished"}
          /\ j \in U <=> \/ w[j] = "used" /\ j - 1 \in A
                         \/ /\ j - 1 \in U /\ w[j] \notin {"failed", "vanished"}
                            /\ ~(w[j] = "added" /\ j - 1 \in P)
                            /\ ~(w[j] = "unused" /\ j - 1 \in A)
      BY <2>1 DEF Follows
    <2>3. /\ i \in P2 <=> j \in P
          /\ i \in A2 <=> j \in A
          /\ i \in U2 <=> j \in U
          /\ i - 1 \in P2 <=> i \in P
          /\ i - 1 \in A2 <=> i \in A
          /\ i - 1 \in U2 <=> i \in U
      BY <1>2, <2>1
    <2>4. v[i] = w[j] /\ j - 1 = i
      BY <2>1
    <2> HIDE DEF n, v, P2, A2, U2, j
    <2> QED BY ONLY <2>2, <2>3, <2>4
  <1> HIDE DEF P2, A2, U2
  <1> QED BY ONLY <1>2, <1>3 DEF n, v

(* What comes of it: of the wire w, the calls c, GeoClue g, the object x    *)
(* and the policy p.                                                        *)
Comes(w, c, g, x, p, P, A, U) ==
  /\ Len(w) \in P <=> g.up
  /\ Len(w) \in A =>
       /\ g.up
       /\ x = "yes" => g.knows = p
       /\ \/ Len(w) \in U <=> g.inUse
          \/ \E i \in DOMAIN c : c[i] = "Get"
          \/ \E i \in DOMAIN w : w[i] = "added" /\ i - 1 \in P

(* The rest of what the invariant says of the channel.                      *)
ChannelTypes ==
  /\ wire \in Seq(Messages) /\ calls \in Seq({"AddAgent", "Get"})
  /\ present \in BOOLEAN /\ available \in BOOLEAN /\ inUse \in BOOLEAN
  /\ geoclue \in [up : BOOLEAN, inUse : BOOLEAN, knows : Levels \union {0}]
  /\ privacy = [available |-> available, inUse |-> available /\ inUse]
  /\ available => present
  /\ calls # <<>> => geoclue.up

(* What the invariant says of the channel.                                  *)
LEMMA ChannelFacts ==
  ASSUME Location!ChannelKept
  PROVE  /\ ChannelTypes
         /\ ~watching => wire = <<>> /\ calls = <<>> /\ (stopped \/ (~present /\ ~available))
         /\ watching => \E P, A, U :
              /\ Follows(wire, P, A, U) /\ Comes(wire, calls, geoclue, exported, policy, P, A, U)
              /\ (0 \in P <=> present) /\ (0 \in A <=> available) /\ (0 \in U <=> inUse)
  <1>1. ChannelTypes
    BY DEF ChannelTypes, Messages, Location!ChannelKept
  <1>2. ~watching => wire = <<>> /\ calls = <<>> /\ (stopped \/ (~present /\ ~available))
    BY DEF Location!ChannelKept
  <1>3. ASSUME watching
        PROVE  \E P, A, U :
                 /\ Follows(wire, P, A, U)
                 /\ Comes(wire, calls, geoclue, exported, policy, P, A, U)
                 /\ (0 \in P <=> present) /\ (0 \in A <=> available) /\ (0 \in U <=> inUse)
    <2>1. PICK P, A, U \in SUBSET Location!Prefixes :
            Location!Foreseen(P, A, U) /\ Location!ComesTrue(P, A, U)
      BY <1>3 DEF Location!ChannelKept
    <2>2. Follows(wire, P, A, U)
      BY <2>1 DEF Follows, Location!Foreseen
    <2>3. Comes(wire, calls, geoclue, exported, policy, P, A, U)
      BY <2>1 DEF Comes, Location!ComesTrue
    <2>4. (0 \in P <=> present) /\ (0 \in A <=> available) /\ (0 \in U <=> inUse)
      BY <2>1 DEF Location!Foreseen
    <2> QED BY <2>2, <2>3, <2>4
  <1> QED BY <1>1, <1>2, <1>3

(* A channel that is open, or closed, after a step.                         *)
LEMMA ChannelAfter ==
  ASSUME ChannelTypes',
         \/ /\ watching'
            /\ \E P, A, U :
                 /\ Follows(wire', P, A, U)
                 /\ Comes(wire', calls', geoclue', exported', policy', P, A, U)
                 /\ (0 \in P <=> present') /\ (0 \in A <=> available') /\ (0 \in U <=> inUse')
         \/ /\ ~watching' /\ wire' = <<>> /\ calls' = <<>>
            /\ stopped' \/ (~present' /\ ~available')
  PROVE  Location!ChannelKept'
  <1>1. CASE /\ ~watching' /\ wire' = <<>> /\ calls' = <<>>
             /\ stopped' \/ (~present' /\ ~available')
    BY <1>1 DEF ChannelTypes, Messages, Location!ChannelKept
  <1>2. CASE /\ watching'
             /\ \E P, A, U :
                  /\ Follows(wire', P, A, U)
                  /\ Comes(wire', calls', geoclue', exported', policy', P, A, U)
                  /\ (0 \in P <=> present') /\ (0 \in A <=> available') /\ (0 \in U <=> inUse')
    <2>1. PICK P0, A0, U0 :
            /\ Follows(wire', P0, A0, U0)
            /\ Comes(wire', calls', geoclue', exported', policy', P0, A0, U0)
            /\ (0 \in P0 <=> present') /\ (0 \in A0 <=> available') /\ (0 \in U0 <=> inUse')
      BY <1>2
    <2> DEFINE N == 0 .. Len(wire')
    <2>0. PICK P, A, U : P = P0 \cap N /\ A = A0 \cap N /\ U = U0 \cap N
      OBVIOUS
    <2>2. Len(wire') \in Nat /\ DOMAIN wire' = 1 .. Len(wire')
      BY DEF ChannelTypes
    <2>3. /\ \A i \in N : (i \in P <=> i \in P0) /\ (i \in A <=> i \in A0) /\ (i \in U <=> i \in U0)
          /\ Len(wire') \in N /\ 0 \in N /\ \A i \in 1 .. Len(wire') : i \in N /\ i - 1 \in N
      BY <2>0, <2>2
    <2>4. Location!Foreseen(P, A, U)'
      <3>1. ASSUME NEW i \in 1 .. Len(wire')
            PROVE  LET m == wire'[i] IN
                   /\ i \in P <=> m = "appeared" \/ (i - 1 \in P /\ m # "vanished")
                   /\ i \in A <=> \/ m = "added" /\ i - 1 \in P
                                  \/ i - 1 \in A /\ m \notin {"failed", "vanished"}
                   /\ i \in U <=> \/ m = "used" /\ i - 1 \in A
                                  \/ /\ i - 1 \in U /\ m \notin {"failed", "vanished"}
                                     /\ ~(m = "added" /\ i - 1 \in P)
                                     /\ ~(m = "unused" /\ i - 1 \in A)
        <4>1. i \in N /\ i - 1 \in N
          BY <2>3
        <4>2. /\ (i \in P <=> i \in P0) /\ (i \in A <=> i \in A0) /\ (i \in U <=> i \in U0)
              /\ (i - 1 \in P <=> i - 1 \in P0) /\ (i - 1 \in A <=> i - 1 \in A0)
              /\ (i - 1 \in U <=> i - 1 \in U0)
          BY <2>3, <4>1
        <4>3. /\ i \in P0 <=> \/ wire'[i] = "appeared"
                              \/ i - 1 \in P0 /\ wire'[i] # "vanished"
              /\ i \in A0 <=> \/ wire'[i] = "added" /\ i - 1 \in P0
                              \/ i - 1 \in A0 /\ wire'[i] \notin {"failed", "vanished"}
              /\ i \in U0 <=> \/ wire'[i] = "used" /\ i - 1 \in A0
                              \/ /\ i - 1 \in U0 /\ wire'[i] \notin {"failed", "vanished"}
                                 /\ ~(wire'[i] = "added" /\ i - 1 \in P0)
                                 /\ ~(wire'[i] = "unused" /\ i - 1 \in A0)
          BY <2>1 DEF Follows
        <4> HIDE DEF N
        <4> QED BY ONLY <4>2, <4>3
      <3>2. (0 \in P <=> present') /\ (0 \in A <=> available') /\ (0 \in U <=> inUse')
        BY <2>1, <2>3
      <3> QED BY <3>1, <3>2 DEF Location!Foreseen
    <2>5. Location!ComesTrue(P, A, U)'
      <3>1. \A i \in DOMAIN wire' : i - 1 \in P <=> i - 1 \in P0
        BY <2>2, <2>3
      <3>2. Comes(wire', calls', geoclue', exported', policy', P, A, U)
        <4>1. /\ Len(wire') \in P <=> Len(wire') \in P0
              /\ Len(wire') \in A <=> Len(wire') \in A0
              /\ Len(wire') \in U <=> Len(wire') \in U0
          BY <2>3
        <4> QED BY ONLY <2>1, <3>1, <4>1 DEF Comes
      <3> QED BY <3>2 DEF Comes, Location!ComesTrue
    <2>6. /\ P \in SUBSET Location!Prefixes' /\ A \in SUBSET Location!Prefixes'
          /\ U \in SUBSET Location!Prefixes'
      BY <2>0 DEF Location!Prefixes
    <2> HIDE DEF N
    <2>7. \E X, Y, Z \in SUBSET Location!Prefixes' :
            Location!Foreseen(X, Y, Z)' /\ Location!ComesTrue(X, Y, Z)'
      BY ONLY <2>4, <2>5, <2>6
    <2> QED BY <1>2, <2>7 DEF ChannelTypes, Messages, Location!ChannelKept
  <1> QED BY <1>1, <1>2

(* It is open, with what P, A and U say of now.                             *)
Opens(w, c, g, x, p, P, A, U) ==
  \E P2, A2, U2 :
    /\ Follows(w, P2, A2, U2) /\ Comes(w, c, g, x, p, P2, A2, U2)
    /\ (0 \in P2 <=> 0 \in P) /\ (0 \in A2 <=> 0 \in A) /\ (0 \in U2 <=> 0 \in U)

GeoClues == [up : BOOLEAN, inUse : BOOLEAN, knows : Levels \union {0}]

(* A message after which GeoClue is not available.                          *)
LEMMA HearsEnd ==
  ASSUME NEW w \in Seq(Messages), NEW m \in Messages, NEW P, NEW A, NEW U,
         NEW c, NEW g \in GeoClues, NEW x, NEW p, Opens(w, c, g, x, p, P, A, U),
         NEW c2, NEW g2 \in GeoClues, NEW x2, NEW p2,
         m \in {"failed", "vanished"} \/ (m = "appeared" /\ ~g.up),
         g2.up <=> m = "appeared" \/ (g.up /\ m # "vanished")
  PROVE  Opens(Append(w, m), c2, g2, x2, p2, P, A, U)
  <1>0. PICK P1, A1, U1 :
          /\ Follows(w, P1, A1, U1) /\ Comes(w, c, g, x, p, P1, A1, U1)
          /\ (0 \in P1 <=> 0 \in P) /\ (0 \in A1 <=> 0 \in A) /\ (0 \in U1 <=> 0 \in U)
    BY DEF Opens
  <1> DEFINE n == Len(w)
             v == Append(w, m)
  <1>1. n \in Nat /\ Len(v) = n + 1 /\ 0 \in 0 .. n
    OBVIOUS
  <1>2. PICK P2, A2, U2 :
           /\ Follows(v, P2, A2, U2)
           /\ \A i \in 0 .. n :
                (i \in P2 <=> i \in P1) /\ (i \in A2 <=> i \in A1) /\ (i \in U2 <=> i \in U1)
           /\ n + 1 \in P2 <=> \/ m = "appeared"
                               \/ n \in P1 /\ m # "vanished"
           /\ n + 1 \in A2 <=> \/ m = "added" /\ n \in P1
                               \/ n \in A1 /\ m \notin {"failed", "vanished"}
    BY <1>0, WireGrows
  <1>3. (n \in P1 <=> g.up) /\ (n \in A1 => g.up)
    BY <1>0 DEF Comes
  <1>4. n + 1 \notin A2 /\ (n + 1 \in P2 <=> g2.up)
    <2> HIDE DEF n, v
    <2> QED BY <1>2, <1>3
  <1>5. Comes(v, c2, g2, x2, p2, P2, A2, U2)
    <2> HIDE DEF n, v
    <2> QED BY <1>1, <1>4 DEF Comes
  <1>6. (0 \in P2 <=> 0 \in P) /\ (0 \in A2 <=> 0 \in A) /\ (0 \in U2 <=> 0 \in U)
    <2> HIDE DEF n, v
    <2> QED BY <1>0, <1>1, <1>2
  <1> QED BY ONLY <1>2, <1>5, <1>6 DEF v, Opens

(* GeoClue took the agent: it knows the maximum, and will be asked.         *)
LEMMA HearsAdded ==
  ASSUME NEW w \in Seq(Messages), NEW P, NEW A, NEW U,
         NEW c, NEW g \in GeoClues, NEW x, NEW p, Opens(w, c, g, x, p, P, A, U),
         NEW c2, NEW g2 \in GeoClues, NEW x2, NEW p2,
         g.up, g2.up, x2 = "yes" => g2.knows = p2
  PROVE  Opens(Append(w, "added"), c2, g2, x2, p2, P, A, U)
  <1>0. PICK P1, A1, U1 :
          /\ Follows(w, P1, A1, U1) /\ Comes(w, c, g, x, p, P1, A1, U1)
          /\ (0 \in P1 <=> 0 \in P) /\ (0 \in A1 <=> 0 \in A) /\ (0 \in U1 <=> 0 \in U)
    BY DEF Opens
  <1> DEFINE n == Len(w)
             m == "added"
             v == Append(w, m)
  <1>1. /\ n \in Nat /\ Len(v) = n + 1 /\ 0 \in 0 .. n /\ n \in 0 .. n /\ m \in Messages
        /\ v[n + 1] = m /\ DOMAIN v = 1 .. n + 1
    BY DEF Messages
  <1>2. PICK P2, A2, U2 :
           /\ Follows(v, P2, A2, U2)
           /\ \A i \in 0 .. n :
                (i \in P2 <=> i \in P1) /\ (i \in A2 <=> i \in A1) /\ (i \in U2 <=> i \in U1)
           /\ n + 1 \in P2 <=> \/ m = "appeared"
                               \/ n \in P1 /\ m # "vanished"
    <2> HIDE DEF m
    <2> QED BY <1>0, <1>1, WireGrows
  <1>3. n \in P1
    BY <1>0 DEF Comes
  <1>4. n + 1 \in P2 /\ n \in P2
    <2> HIDE DEF n, v
    <2> QED BY <1>1, <1>2, <1>3
  <1>5. \E i \in DOMAIN v : v[i] = "added" /\ i - 1 \in P2
    <2>1. (n + 1) - 1 = n /\ n + 1 \in DOMAIN v
      BY <1>1
    <2> HIDE DEF n, v
    <2> QED BY <1>1, <1>4, <2>1
  <1>6. Comes(v, c2, g2, x2, p2, P2, A2, U2)
    <2> HIDE DEF n, v
    <2> QED BY <1>1, <1>4, <1>5 DEF Comes
  <1>7. (0 \in P2 <=> 0 \in P) /\ (0 \in A2 <=> 0 \in A) /\ (0 \in U2 <=> 0 \in U)
    <2> HIDE DEF n, v
    <2> QED BY <1>0, <1>1, <1>2
  <1>8. Opens(v, c2, g2, x2, p2, P, A, U)
    BY ONLY <1>2, <1>6, <1>7 DEF Opens
  <1> QED BY <1>8

(* GeoClue says whether it gives a position.                                *)
LEMMA HearsUse ==
  ASSUME NEW w \in Seq(Messages), NEW m \in {"used", "unused"}, NEW P, NEW A, NEW U,
         NEW c, NEW g \in GeoClues, NEW x, NEW p, Opens(w, c, g, x, p, P, A, U),
         NEW c2, NEW g2 \in GeoClues,
         g2.up = g.up, g2.knows = g.knows, g2.inUse <=> m = "used"
  PROVE  Opens(Append(w, m), c2, g2, x, p, P, A, U)
  <1>0. PICK P1, A1, U1 :
          /\ Follows(w, P1, A1, U1) /\ Comes(w, c, g, x, p, P1, A1, U1)
          /\ (0 \in P1 <=> 0 \in P) /\ (0 \in A1 <=> 0 \in A) /\ (0 \in U1 <=> 0 \in U)
    BY DEF Opens
  <1> DEFINE n == Len(w)
             v == Append(w, m)
  <1>1. n \in Nat /\ Len(v) = n + 1 /\ 0 \in 0 .. n /\ m \in Messages
    BY DEF Messages
  <1>2. PICK P2, A2, U2 :
           /\ Follows(v, P2, A2, U2)
           /\ \A i \in 0 .. n :
                (i \in P2 <=> i \in P1) /\ (i \in A2 <=> i \in A1) /\ (i \in U2 <=> i \in U1)
           /\ n + 1 \in P2 <=> \/ m = "appeared"
                               \/ n \in P1 /\ m # "vanished"
           /\ n + 1 \in A2 <=> \/ m = "added" /\ n \in P1
                               \/ n \in A1 /\ m \notin {"failed", "vanished"}
           /\ n + 1 \in U2 <=> \/ m = "used" /\ n \in A1
                               \/ /\ n \in U1 /\ m \notin {"failed", "vanished"}
                                  /\ ~(m = "added" /\ n \in P1)
                                  /\ ~(m = "unused" /\ n \in A1)
    BY <1>0, <1>1, WireGrows
  <1>3. (n \in P1 <=> g.up) /\ (n \in A1 => g.up /\ (x = "yes" => g.knows = p))
    BY <1>0 DEF Comes
  <1>4. /\ n + 1 \in P2 <=> g2.up
        /\ n + 1 \in A2 => /\ g2.up /\ (x = "yes" => g2.knows = p)
                           /\ (n + 1 \in U2 <=> g2.inUse)
    <2> HIDE DEF n, v
    <2> QED BY <1>2, <1>3
  <1>5. Comes(v, c2, g2, x, p, P2, A2, U2)
    <2> HIDE DEF n, v
    <2> QED BY <1>1, <1>4 DEF Comes
  <1>6. (0 \in P2 <=> 0 \in P) /\ (0 \in A2 <=> 0 \in A) /\ (0 \in U2 <=> 0 \in U)
    <2> HIDE DEF n, v
    <2> QED BY <1>0, <1>1, <1>2
  <1> QED BY ONLY <1>2, <1>5, <1>6 DEF v, Opens

(* The agent hears the first message; it asks whether GeoClue gives a       *)
(* position when it was taken.                                              *)
LEMMA HearsFirst ==
  ASSUME NEW w \in Seq(Messages), w # <<>>, NEW m, m = Head(w), NEW P, NEW A, NEW U,
         NEW c, NEW g \in GeoClues, NEW x, NEW p, Opens(w, c, g, x, p, P, A, U),
         NEW c2, (\E i \in DOMAIN c : c[i] = "Get") => \E i \in DOMAIN c2 : c2[i] = "Get",
         m = "added" /\ 0 \in P /\ g.up => \E i \in DOMAIN c2 : c2[i] = "Get",
         NEW P3, NEW A3, NEW U3,
         0 \in P3 <=> m = "appeared" \/ (0 \in P /\ m # "vanished"),
         0 \in A3 <=> \/ m = "added" /\ 0 \in P
                      \/ 0 \in A /\ m \notin {"failed", "vanished"},
         0 \in U3 <=> \/ m = "used" /\ 0 \in A
                      \/ /\ 0 \in U /\ m \notin {"failed", "vanished"}
                         /\ ~(m = "added" /\ 0 \in P) /\ ~(m = "unused" /\ 0 \in A)
  PROVE  Opens(Tail(w), c2, g, x, p, P3, A3, U3)
  <1>0. PICK P1, A1, U1 :
          /\ Follows(w, P1, A1, U1) /\ Comes(w, c, g, x, p, P1, A1, U1)
          /\ (0 \in P1 <=> 0 \in P) /\ (0 \in A1 <=> 0 \in A) /\ (0 \in U1 <=> 0 \in U)
    BY DEF Opens
  <1> DEFINE n == Len(w)
             v == Tail(w)
  <1>1. /\ n \in Nat /\ n > 0 /\ Len(v) = n - 1 /\ w[1] = m
        /\ DOMAIN v = 1 .. n - 1 /\ DOMAIN w = 1 .. n
        /\ \A i \in 1 .. n - 1 : v[i] = w[i + 1]
    OBVIOUS
  <1>2. PICK P2, A2, U2 :
           /\ Follows(v, P2, A2, U2)
           /\ \A i \in 0 .. n - 1 :
                /\ i \in P2 <=> i + 1 \in P1
                /\ i \in A2 <=> i + 1 \in A1
                /\ i \in U2 <=> i + 1 \in U1
    BY <1>0, WireShrinks
  <1>3. /\ 0 \in P2 <=> m = "appeared" \/ (0 \in P1 /\ m # "vanished")
        /\ 0 \in A2 <=> \/ m = "added" /\ 0 \in P1
                        \/ 0 \in A1 /\ m \notin {"failed", "vanished"}
        /\ 0 \in U2 <=> \/ m = "used" /\ 0 \in A1
                        \/ /\ 0 \in U1 /\ m \notin {"failed", "vanished"}
                           /\ ~(m = "added" /\ 0 \in P1) /\ ~(m = "unused" /\ 0 \in A1)
    <2> DEFINE one == 1
               zero == 0
    <2>1. one \in 1 .. n /\ zero \in 0 .. n - 1 /\ zero + 1 = one /\ one - 1 = zero
      BY <1>1
    <2>2. /\ one \in P1 <=> w[one] = "appeared" \/ (one - 1 \in P1 /\ w[one] # "vanished")
          /\ one \in A1 <=> \/ w[one] = "added" /\ one - 1 \in P1
                            \/ one - 1 \in A1 /\ w[one] \notin {"failed", "vanished"}
          /\ one \in U1 <=> \/ w[one] = "used" /\ one - 1 \in A1
                            \/ /\ one - 1 \in U1 /\ w[one] \notin {"failed", "vanished"}
                               /\ ~(w[one] = "added" /\ one - 1 \in P1)
                               /\ ~(w[one] = "unused" /\ one - 1 \in A1)
      BY <1>0, <2>1 DEF Follows
    <2>3. (zero \in P2 <=> one \in P1) /\ (zero \in A2 <=> one \in A1) /\ (zero \in U2 <=> one \in U1)
      <3> HIDE DEF n, v, one, zero
      <3> QED BY ONLY <1>2, <2>1
    <2>4. w[one] = m
      BY <1>1
    <2> HIDE DEF n, v, one
    <2>5. /\ zero \in P2 <=> m = "appeared" \/ (zero \in P1 /\ m # "vanished")
          /\ zero \in A2 <=> \/ m = "added" /\ zero \in P1
                             \/ zero \in A1 /\ m \notin {"failed", "vanished"}
          /\ zero \in U2 <=> \/ m = "used" /\ zero \in A1
                             \/ /\ zero \in U1 /\ m \notin {"failed", "vanished"}
                                /\ ~(m = "added" /\ zero \in P1) /\ ~(m = "unused" /\ zero \in A1)
      <3> HIDE DEF zero
      <3> QED BY ONLY <2>1, <2>2, <2>3, <2>4
    <2> QED BY <2>5
  <1>4. Comes(v, c2, g, x, p, P2, A2, U2)
    <2>1. (n - 1 \in P2 <=> n \in P1) /\ (n - 1 \in A2 <=> n \in A1) /\ (n - 1 \in U2 <=> n \in U1)
      <3>1. n - 1 \in 0 .. n - 1 /\ (n - 1) + 1 = n
        BY <1>1
      <3> HIDE DEF n, v
      <3> QED BY ONLY <1>2, <3>1
    <2>2. (n \in P1 <=> g.up) /\ (n \in A1 => g.up /\ (x = "yes" => g.knows = p))
      BY <1>0 DEF Comes
    <2>3. ASSUME n \in A1
          PROVE  \/ n \in U1 <=> g.inUse
                 \/ \E i \in DOMAIN c2 : c2[i] = "Get"
                 \/ \E i \in DOMAIN v : v[i] = "added" /\ i - 1 \in P2
      <3>1. \/ n \in U1 <=> g.inUse
            \/ \E i \in DOMAIN c : c[i] = "Get"
            \/ \E i \in DOMAIN w : w[i] = "added" /\ i - 1 \in P1
        BY <1>0, <2>3 DEF Comes
      <3>2. ASSUME NEW i \in DOMAIN w, w[i] = "added", i - 1 \in P1
            PROVE  \/ \E j \in DOMAIN c2 : c2[j] = "Get"
                   \/ \E j \in DOMAIN v : v[j] = "added" /\ j - 1 \in P2
        <4>1. CASE i = 1
          <5>1. m = "added" /\ 0 \in P1
            BY <1>1, <3>2, <4>1
          <5> QED BY <1>0, <2>2, <2>3, <5>1
        <4>2. CASE i # 1
          <5> DEFINE j == i - 1
                     k == j - 1
          <5>1. j \in DOMAIN v /\ v[j] = w[i] /\ k \in 0 .. n - 1 /\ k + 1 = j
            BY <1>1, <4>2
          <5>2. k \in P2 <=> j \in P1
            <6> HIDE DEF n, v, j, k
            <6> QED BY ONLY <1>2, <5>1
          <5>3. \E l \in DOMAIN v : v[l] = "added" /\ l - 1 \in P2
            <6>1. j \in P1
              BY <3>2
            <6> HIDE DEF n, v, j
            <6> QED BY <3>2, <5>1, <5>2, <6>1
          <5> QED BY <5>3
        <4> QED BY <4>1, <4>2
      <3> HIDE DEF n, v
      <3> QED BY <3>1, <3>2
    <2> HIDE DEF n, v
    <2> QED BY <1>1, <2>1, <2>2, <2>3 DEF Comes
  <1> HIDE DEF n
  <1>5. (0 \in P2 <=> 0 \in P3) /\ (0 \in A2 <=> 0 \in A3) /\ (0 \in U2 <=> 0 \in U3)
    BY <1>0, <1>3
  <1> QED BY ONLY <1>2, <1>4, <1>5 DEF v, Opens

-----------------------------------------------------------------------------
(* The steps.                                                               *)

(* The agent is not started, and nothing was asked.                         *)
LEMMA LocationInit == Location!Init => Location!IInv
  <1> SUFFICES ASSUME Location!Init PROVE Location!IInv
    OBVIOUS
  <1>1. Location!BusKept
    <2>1. /\ started = FALSE /\ stopped = FALSE /\ retry = FALSE /\ watching = FALSE
          /\ exported = "no" /\ policy \in Levels \union {0}
      BY DEF Location!Init
    <2>2. attempts = 0 /\ 0 \in 0 .. LocationAttempts
      BY DesktopAssumption DEF Location!Init, Location!LocationAssumption
    <2> QED BY <2>1, <2>2 DEF Location!BusKept
  <1>2. Location!ChannelKept
    <2>1. /\ wire = <<>> /\ calls = <<>> /\ watching = FALSE /\ present = FALSE
          /\ available = FALSE /\ inUse = FALSE
      BY DEF Location!Init
    <2>2. privacy = [available |-> FALSE, inUse |-> FALSE]
      BY DEF Location!Init, Location!Nothing
    <2>3. geoclue \in [up : BOOLEAN, inUse : BOOLEAN, knows : Levels \union {0}]
      BY DEF Location!Init
    <2>4. /\ wire \in Seq({"appeared", "vanished", "added", "failed", "used", "unused"})
          /\ calls \in Seq({"AddAgent", "Get"})
      BY <2>1
    <2>5. privacy = [available |-> available, inUse |-> available /\ inUse]
      BY <2>1, <2>2
    <2> QED BY <2>1, <2>3, <2>4, <2>5 DEF Location!ChannelKept
  <1>3. Location!RequestsKept
    <2> DEFINE none == 0
    <2>1. locationRequest = [r \in Location!Requests |-> Location!NewRequest]
      BY DEF Location!Init
    <2>2. Location!NewRequest \in Location!RequestRecords
      <3>1. none \in Levels \union {0}
        OBVIOUS
      <3>2. Location!NewRequest = [at |-> "new", wants |-> none, timer |-> FALSE,
                                   pending |-> FALSE, clock |-> FALSE, answers |-> <<>>,
                                   told |-> <<>>]
        BY DEF Location!NewRequest
      <3> HIDE DEF none
      <3> QED BY ONLY <3>1, <3>2 DEF Location!RequestRecords
    <2>3. /\ Location!NewRequest.at = "new" /\ Location!NewRequest.pending = FALSE
          /\ Location!NewRequest.clock = FALSE /\ Location!NewRequest.told = <<>>
      BY DEF Location!NewRequest
    <2>4. Location!RequestRight(Location!NewRequest)
      BY <2>3 DEF Location!RequestRight
    <2>5. Location!Pending = {}
      BY <2>1, <2>3 DEF Location!Pending
    <2>6. Location!Cardinality(Location!Pending) <= LocationPending
      <3>1. LocationPending \in Nat
        BY DesktopAssumption DEF Location!LocationAssumption
      <3> QED BY <2>5, <3>1, FS_EmptySet, SameCardinality
    <2> QED BY <2>1, <2>2, <2>3, <2>4, <2>6 DEF Location!RequestsKept
  <1> QED BY <1>1, <1>2, <1>3 DEF Location!IInv

(* The channel when nothing happens on it.                                  *)
LEMMA ChannelStays ==
  ASSUME Location!ChannelKept,
         UNCHANGED <<wire, calls, geoclue, exported, policy, present, available, inUse, privacy,
                     watching, stopped>>
  PROVE  Location!ChannelKept'
  <1>1. ChannelTypes'
    BY ChannelFacts DEF ChannelTypes
  <1>2. CASE watching
    <2>1. PICK P, A, U :
            /\ Follows(wire, P, A, U) /\ Comes(wire, calls, geoclue, exported, policy, P, A, U)
            /\ (0 \in P <=> present) /\ (0 \in A <=> available) /\ (0 \in U <=> inUse)
      BY <1>2, ChannelFacts
    <2> QED BY <1>1, <1>2, <2>1, ChannelAfter
  <1>3. CASE ~watching
    BY <1>1, <1>3, ChannelFacts, ChannelAfter
  <1> QED BY <1>2, <1>3

(* The agent comes to the bus and leaves it.                                *)
LEMMA LocationBus ==
  ASSUME Location!IInv,
         \/ Location!Start \/ Location!ConnectFails \/ Location!ConnectDone \/ Location!Retry
         \/ Location!Stop
  PROVE  Location!IInv'
  <1>1. Location!BusKept /\ Location!ChannelKept /\ Location!RequestsKept
    BY DEF Location!IInv
  <1>2. LocationAttempts \in Nat \ {0} /\ attempts \in 0 .. LocationAttempts
    BY <1>1, DesktopAssumption DEF Location!LocationAssumption, Location!BusKept
  <1> DEFINE B == /\ started \in BOOLEAN /\ stopped \in BOOLEAN /\ retry \in BOOLEAN
                  /\ watching \in BOOLEAN /\ exported \in {"no", "yes", "lost"}
                  /\ policy \in Levels \union {0}
                  /\ ~started => attempts = 0 /\ ~retry
                  /\ watching <=> exported # "no"
                  /\ watching => ~stopped
  <1>3. B
    BY <1>1 DEF Location!BusKept
  <1>4. CASE Location!Start \/ Location!ConnectFails \/ Location!Retry
    <2>1. UNCHANGED <<stopped, exported, watching, present, available, inUse, privacy, policy,
                      calls, geoclue, wire, locationRequest>>
      BY <1>4 DEF Location!Start, Location!ConnectFails, Location!Retry, Location!agentVars,
                  Location!geoclueVars
    <2>2. attempts' \in 0 .. LocationAttempts
      BY <1>2, <1>3, <1>4 DEF Location!Start, Location!ConnectFails, Location!Retry
    <2>3. started' \in BOOLEAN /\ retry' \in BOOLEAN /\ (~started' => attempts' = 0 /\ ~retry')
      <3>1. CASE Location!Start
        <4>1. started' = TRUE /\ retry' = retry
          BY <3>1 DEF Location!Start
        <4> QED BY <1>3, <4>1
      <3>2. CASE Location!ConnectFails
        <4>1. started' = started /\ retry' = (retry \/ ~stopped) /\ attempts > 0
          BY <3>2 DEF Location!ConnectFails
        <4> QED BY <1>2, <1>3, <4>1
      <3>3. CASE Location!Retry
        <4>1. started' = started /\ retry' = retry /\ retry
          BY <3>3 DEF Location!Retry
        <4> QED BY <1>3, <4>1
      <3> QED BY <1>4, <3>1, <3>2, <3>3
    <2>4. Location!BusKept'
      BY <1>3, <2>1, <2>2, <2>3 DEF Location!BusKept
    <2> QED BY <1>1, <2>1, <2>4, ChannelStays, LocationWaits DEF Location!IInv
  <1>5. CASE Location!ConnectDone
    <2>1. /\ attempts' = attempts - 1 /\ attempts > 0
          /\ UNCHANGED <<started, stopped, present, available, inUse, privacy, policy, calls,
                         geoclue, locationRequest>>
      BY <1>5 DEF Location!ConnectDone, Location!agentVars, Location!geoclueVars
    <2>2. attempts' \in 0 .. LocationAttempts
      BY <1>2, <2>1
    <2>3. started
      BY <1>3, <2>1
    <2>4. CASE stopped
      <3>1. UNCHANGED <<retry, exported, watching, wire>>
        BY <1>5, <2>4 DEF Location!ConnectDone
      <3>2. Location!BusKept'
        BY <1>3, <2>1, <2>2, <2>3, <3>1 DEF Location!BusKept
      <3> QED BY <1>1, <2>1, <3>1, <3>2, ChannelStays, LocationWaits DEF Location!IInv
    <2>5. CASE ~stopped
      <3>1. /\ retry' = FALSE
            /\ exported' = (IF exported = "no" THEN "yes" ELSE "lost")
            /\ watching' = (watching \/ exported' = "yes")
            /\ wire' = IF exported' = "yes" /\ geoclue.up THEN Append(wire, "appeared") ELSE wire
        BY <1>5, <2>5 DEF Location!ConnectDone, Location!Connects, Location!Registered
      <3>2. Location!BusKept'
        BY <1>3, <2>1, <2>2, <2>3, <2>5, <3>1 DEF Location!BusKept
      <3>3. ChannelTypes'
        <4>1. wire' \in Seq(Messages)
          <5>1. "appeared" \in Messages /\ wire \in Seq(Messages)
            BY <1>1, ChannelFacts DEF ChannelTypes, Messages
          <5> HIDE DEF Messages
          <5> QED BY <3>1, <5>1
        <4> QED BY <1>1, <2>1, <4>1, ChannelFacts DEF ChannelTypes
      <3>4. Location!ChannelKept'
        <4>1. CASE exported = "no"
          <5>1. /\ ~watching /\ wire = <<>> /\ calls = <<>> /\ ~present /\ ~available
            BY <1>1, <1>3, <2>5, <4>1, ChannelFacts
          <5>2. watching' /\ exported' = "yes"
            BY <3>1, <4>1
          <5>3. inUse \in BOOLEAN /\ present' = FALSE /\ available' = FALSE /\ inUse' = inUse
            BY <1>1, <2>1, <5>1, ChannelFacts DEF ChannelTypes
          <5>4. \E P, A, U :
                  /\ Follows(wire', P, A, U)
                  /\ Comes(wire', calls', geoclue', exported', policy', P, A, U)
                  /\ (0 \in P <=> present') /\ (0 \in A <=> available') /\ (0 \in U <=> inUse')
            <6>1. CASE geoclue.up
              <7>1. PICK P, A, U : P = {1} /\ A = {} /\ U = IF inUse THEN {0, 1} ELSE {}
                OBVIOUS
              <7>2. PICK w : w = wire'
                OBVIOUS
              <7>3. w = <<"appeared">>
                BY <3>1, <5>1, <5>2, <6>1, <7>2, Appends
              <7>4. Len(w) = 1 /\ w[1] = "appeared" /\ DOMAIN w = {1}
                BY <7>3
              <7>5. 1 \in P /\ 0 \notin P /\ 0 \notin A /\ 1 \notin A
                    /\ (0 \in U <=> inUse) /\ (1 \in U <=> inUse)
                BY <5>3, <7>1
              <7>6. Follows(w, P, A, U)
                <8> SUFFICES ASSUME NEW i \in 1 .. Len(w)
                             PROVE  /\ i \in P <=> \/ w[i] = "appeared"
                                                   \/ i - 1 \in P /\ w[i] # "vanished"
                                    /\ i \in A <=>
                                          \/ w[i] = "added" /\ i - 1 \in P
                                          \/ i - 1 \in A /\ w[i] \notin {"failed", "vanished"}
                                    /\ i \in U <=>
                                          \/ w[i] = "used" /\ i - 1 \in A
                                          \/ /\ i - 1 \in U /\ w[i] \notin {"failed", "vanished"}
                                             /\ ~(w[i] = "added" /\ i - 1 \in P)
                                             /\ ~(w[i] = "unused" /\ i - 1 \in A)
                  BY DEF Follows
                <8>1. i = 1 /\ i - 1 = 0
                  BY <7>4
                <8> QED BY <7>4, <7>5, <8>1
              <7>7. Comes(w, calls', geoclue', exported', policy', P, A, U)
                BY <2>1, <6>1, <7>4, <7>5 DEF Comes
              <7> QED BY <5>3, <7>2, <7>5, <7>6, <7>7
            <6>2. CASE ~geoclue.up
              <7>1. PICK P, A, U : P = {} /\ A = {} /\ U = IF inUse THEN {0} ELSE {}
                OBVIOUS
              <7>2. wire' = <<>> /\ geoclue' = geoclue
                BY <2>1, <3>1, <5>1, <6>2
              <7>3. Follows(wire', P, A, U)
                BY <7>2 DEF Follows
              <7>4. Comes(wire', calls', geoclue', exported', policy', P, A, U)
                BY <6>2, <7>1, <7>2 DEF Comes
              <7>5. 0 \notin P /\ 0 \notin A /\ (0 \in U <=> inUse)
                BY <5>3, <7>1
              <7> QED BY <5>3, <7>3, <7>4, <7>5
            <6> QED BY <6>1, <6>2
          <5> QED BY <3>3, <5>2, <5>4, ChannelAfter
        <4>2. CASE exported # "no"
          <5>1. watching /\ watching' /\ exported' = "lost" /\ wire' = wire
            BY <1>3, <3>1, <4>2
          <5>2. PICK P, A, U :
                  /\ Follows(wire, P, A, U)
                  /\ Comes(wire, calls, geoclue, exported, policy, P, A, U)
                  /\ (0 \in P <=> present) /\ (0 \in A <=> available) /\ (0 \in U <=> inUse)
            BY <1>1, <5>1, ChannelFacts
          <5>3. Comes(wire', calls', geoclue', exported', policy', P, A, U)
            BY <2>1, <5>1, <5>2 DEF Comes
          <5> QED BY <2>1, <3>3, <5>1, <5>2, <5>3, ChannelAfter
        <4> QED BY <4>1, <4>2
      <3> QED BY <1>1, <2>1, <3>2, <3>4, LocationWaits DEF Location!IInv
    <2> QED BY <2>4, <2>5
  <1>6. CASE Location!Stop
    <2>1. /\ stopped' = TRUE /\ retry' = FALSE /\ watching' = FALSE /\ exported' = "no"
          /\ wire' = <<>> /\ calls' = <<>>
          /\ UNCHANGED <<started, attempts, present, available, inUse, privacy, policy, geoclue>>
          /\ locationRequest' =
               [r \in Location!Requests |-> Location!FailAll(Location!Cleared(locationRequest[r]))]
      BY <1>6 DEF Location!Stop, Location!agentVars
    <2>2. Location!BusKept'
      BY <1>2, <1>3, <2>1 DEF Location!BusKept
    <2>3. ChannelTypes'
      BY <1>1, <2>1, ChannelFacts DEF ChannelTypes
    <2>4. Location!ChannelKept'
      BY <2>1, <2>3, ChannelAfter
    <2>5. Location!RequestsKept'
      BY <1>1, <1>3, <2>1, LocationClears
    <2> QED BY <2>2, <2>4, <2>5 DEF Location!IInv
  <1> QED BY <1>4, <1>5, <1>6

(* The agent's side of the bus when GeoClue takes a step.                   *)
LEMMA BusStays ==
  ASSUME Location!BusKept, policy' \in Levels \union {0},
         UNCHANGED <<started, stopped, attempts, retry, exported, watching>>
  PROVE  Location!BusKept'
  BY DEF Location!BusKept

(* GeoClue comes and goes, answers and says what it does, and hears of the  *)
(* policy.                                                                  *)
LEMMA LocationManager ==
  ASSUME Location!IInv,
         \/ Location!Appears \/ Location!Vanishes \/ Location!InUseChanges \/ Location!Answers
         \/ Location!AnswersNot \/ Location!SetPolicy
  PROVE  Location!IInv'
  <1>1. Location!BusKept /\ Location!ChannelKept /\ Location!RequestsKept
    BY DEF Location!IInv
  <1>2. /\ UNCHANGED <<started, stopped, attempts, retry, exported, watching, present, available,
                       inUse, privacy, locationRequest>>
        /\ Location!SetPolicy \/ policy' = policy
    BY DEF Location!Appears, Location!Vanishes, Location!InUseChanges, Location!Answers,
           Location!AnswersNot, Location!SetPolicy, Location!busVars, Location!agentVars
  <1>3. policy \in Levels \union {0} /\ policy' \in Levels \union {0}
    BY <1>1, <1>2 DEF Location!BusKept, Location!SetPolicy
  <1>4. Location!BusKept' /\ Location!RequestsKept'
    BY <1>1, <1>2, <1>3, BusStays, LocationWaits
  <1>5. /\ geoclue \in GeoClues /\ wire \in Seq(Messages) /\ calls \in Seq({"AddAgent", "Get"})
        /\ calls # <<>> => geoclue.up /\ watching
        /\ ~watching => wire = <<>> /\ calls = <<>> /\ (stopped \/ (~present /\ ~available))
    BY <1>1, ChannelFacts DEF ChannelTypes, GeoClues
  <1>6. PICK P, A, U :
          /\ (0 \in P <=> present) /\ (0 \in A <=> available) /\ (0 \in U <=> inUse)
          /\ watching => Opens(wire, calls, geoclue, exported, policy, P, A, U)
    <2>1. CASE watching
      <3>1. PICK P, A, U :
              /\ Follows(wire, P, A, U) /\ Comes(wire, calls, geoclue, exported, policy, P, A, U)
              /\ (0 \in P <=> present) /\ (0 \in A <=> available) /\ (0 \in U <=> inUse)
        BY <1>1, <2>1, ChannelFacts
      <3>2. Opens(wire, calls, geoclue, exported, policy, P, A, U)
        BY <3>1 DEF Opens
      <3> QED BY <3>1, <3>2
    <2>2. CASE ~watching
      <3>1. PICK P, A, U : /\ P = IF present THEN {0} ELSE {}
                           /\ A = IF available THEN {0} ELSE {}
                           /\ U = IF inUse THEN {0} ELSE {}
        OBVIOUS
      <3> QED BY <2>2, <3>1
    <2> QED BY <2>1, <2>2
  <1>7. ASSUME geoclue' \in GeoClues, wire' \in Seq(Messages), calls' \in Seq({"AddAgent", "Get"}),
               calls' # <<>> => geoclue'.up,
               watching => Opens(wire', calls', geoclue', exported, policy', P, A, U),
               ~watching => wire' = <<>> /\ calls' = <<>>
        PROVE  Location!IInv'
    <2>1. ChannelTypes'
      <3>1. /\ present \in BOOLEAN /\ available \in BOOLEAN /\ inUse \in BOOLEAN
            /\ privacy = [available |-> available, inUse |-> available /\ inUse]
            /\ available => present
        BY <1>1, ChannelFacts DEF ChannelTypes
      <3> QED BY <1>2, <1>7, <3>1 DEF ChannelTypes, GeoClues
    <2>2. Location!ChannelKept'
      <3>1. CASE watching
        <4>1. PICK P2, A2, U2 :
                /\ Follows(wire', P2, A2, U2)
                /\ Comes(wire', calls', geoclue', exported, policy', P2, A2, U2)
                /\ (0 \in P2 <=> 0 \in P) /\ (0 \in A2 <=> 0 \in A) /\ (0 \in U2 <=> 0 \in U)
          BY <1>7, <3>1 DEF Opens
        <4>2. /\ watching' /\ Comes(wire', calls', geoclue', exported', policy', P2, A2, U2)
              /\ (0 \in P2 <=> present') /\ (0 \in A2 <=> available') /\ (0 \in U2 <=> inUse')
          BY <1>2, <1>6, <3>1, <4>1
        <4> QED BY <2>1, <4>1, <4>2, ChannelAfter
      <3>2. CASE ~watching
        BY <1>2, <1>5, <1>7, <2>1, <3>2, ChannelAfter
      <3> QED BY <3>1, <3>2
    <2> QED BY <1>4, <2>2 DEF Location!IInv
  <1>8. \A m : m \in {"appeared", "vanished", "added", "failed", "used", "unused"}
                 => m \in Messages /\ \A w \in Seq(Messages) : Append(w, m) \in Seq(Messages)
    BY DEF Messages
  <1>12. ASSUME NEW g \in GeoClues
         PROVE  g.up \in BOOLEAN /\ g.inUse \in BOOLEAN /\ g.knows \in Levels \union {0}
    BY DEF GeoClues
  <1>13. [up |-> TRUE, inUse |-> FALSE, knows |-> 0] \in GeoClues
         /\ [up |-> FALSE, inUse |-> FALSE, knows |-> 0] \in GeoClues
    <2> DEFINE none == 0
    <2>1. none \in Levels \union {0}
      OBVIOUS
    <2>2. [up |-> TRUE, inUse |-> FALSE, knows |-> none] \in GeoClues
          /\ [up |-> FALSE, inUse |-> FALSE, knows |-> none] \in GeoClues
      <3> HIDE DEF none
      <3> QED BY <2>1 DEF GeoClues
    <2> QED BY <2>2
  <1>14. CASE Location!Appears
    <2>1. /\ ~geoclue.up /\ geoclue' = [up |-> TRUE, inUse |-> FALSE, knows |-> 0]
          /\ wire' = (IF watching THEN Append(wire, "appeared") ELSE wire)
          /\ calls' = calls /\ policy' = policy
      BY <1>14 DEF Location!Appears, Location!Hears, Location!agentVars
    <2>2. geoclue' \in GeoClues /\ geoclue'.up
      BY <1>13, <2>1
    <2>3. watching =>
            Opens(Append(wire, "appeared"), calls', geoclue', exported, policy', P, A, U)
      BY <1>5, <1>6, <1>8, <2>1, <2>2, HearsEnd
    <2>4. wire' \in Seq(Messages)
      BY <1>5, <1>8, <2>1
    <2> QED BY <1>5, <1>7, <2>1, <2>2, <2>3, <2>4
  <1>15. CASE Location!InUseChanges
    <2>1. /\ geoclue.up /\ geoclue' = [geoclue EXCEPT !.inUse = ~@]
          /\ wire' = (IF watching THEN Append(wire, Location!Uses(geoclue'.inUse)) ELSE wire)
          /\ calls' = calls /\ policy' = policy
      BY <1>15 DEF Location!InUseChanges, Location!Hears, Location!agentVars
    <2>2. /\ geoclue' \in GeoClues /\ geoclue'.up = geoclue.up
          /\ geoclue'.knows = geoclue.knows /\ geoclue'.inUse \in BOOLEAN
      BY <1>5, <1>12, <2>1 DEF GeoClues
    <2>3. PICK m : m = Location!Uses(geoclue'.inUse)
      OBVIOUS
    <2>4. m \in {"used", "unused"} /\ (geoclue'.inUse <=> m = "used")
      BY <2>2, <2>3 DEF Location!Uses
    <2>5. watching => Opens(Append(wire, m), calls', geoclue', exported, policy', P, A, U)
      BY <1>5, <1>6, <2>1, <2>2, <2>4, HearsUse
    <2>6. wire' \in Seq(Messages)
      BY <1>5, <1>8, <2>1, <2>3, <2>4
    <2> QED BY <1>5, <1>7, <2>1, <2>2, <2>3, <2>5, <2>6
  <1>16. CASE Location!SetPolicy
    <2>1. /\ geoclue' = [geoclue EXCEPT !.knows = IF exported = "yes" THEN policy' ELSE @]
          /\ calls' = calls /\ wire' = wire
      BY <1>16 DEF Location!SetPolicy, Location!Emits
    <2>2. /\ geoclue' \in GeoClues /\ geoclue'.up = geoclue.up /\ geoclue'.inUse = geoclue.inUse
          /\ exported = "yes" => geoclue'.knows = policy'
      BY <1>3, <1>5, <1>12, <2>1 DEF GeoClues
    <2>3. watching => Opens(wire', calls', geoclue', exported, policy', P, A, U)
      BY <1>6, <2>1, <2>2 DEF Opens, Comes
    <2> QED BY <1>5, <1>7, <2>1, <2>2, <2>3
  <1>17. CASE Location!AnswersNot
    <2>1. /\ calls # <<>> /\ calls' = Tail(calls) /\ wire' = Append(wire, "failed")
          /\ geoclue' = geoclue /\ policy' = policy
      BY <1>17 DEF Location!AnswersNot, Location!agentVars
    <2>2. watching /\ geoclue.up
      BY <1>5, <2>1
    <2>3. Opens(Append(wire, "failed"), calls', geoclue', exported, policy', P, A, U)
      BY <1>5, <1>6, <1>8, <2>1, <2>2, HearsEnd
    <2>4. wire' \in Seq(Messages) /\ calls' \in Seq({"AddAgent", "Get"})
      BY <1>5, <1>8, <2>1
    <2> QED BY <1>5, <1>7, <2>1, <2>2, <2>3, <2>4
  <1>18. CASE Location!Answers
    <2>1. /\ calls # <<>> /\ calls' = Tail(calls) /\ policy' = policy
      BY <1>18 DEF Location!Answers, Location!agentVars
    <2>2. watching /\ geoclue.up /\ calls' \in Seq({"AddAgent", "Get"})
      BY <1>5, <2>1
    <2>3. CASE Head(calls) = "AddAgent"
      <3>1. /\ geoclue' = [geoclue EXCEPT !.knows = policy] /\ wire' = Append(wire, "added")
        BY <1>18, <2>2, <2>3 DEF Location!Answers, Location!Hears
      <3>2. geoclue' \in GeoClues /\ geoclue'.up /\ geoclue'.knows = policy'
        BY <1>3, <1>5, <1>12, <2>1, <2>2, <3>1 DEF GeoClues
      <3>3. Opens(Append(wire, "added"), calls', geoclue', exported, policy', P, A, U)
        BY <1>5, <1>6, <2>2, <3>2, HearsAdded
      <3>4. wire' \in Seq(Messages)
        BY <1>5, <1>8, <3>1
      <3> QED BY <1>7, <2>2, <3>1, <3>2, <3>3, <3>4
    <2>4. CASE Head(calls) # "AddAgent"
      <3>1. geoclue' = geoclue /\ wire' = Append(wire, Location!Uses(geoclue.inUse))
        BY <1>18, <2>2, <2>4 DEF Location!Answers, Location!Hears
      <3>2. PICK m : m = Location!Uses(geoclue.inUse)
        OBVIOUS
      <3>3. m \in {"used", "unused"} /\ (geoclue.inUse <=> m = "used")
        BY <1>5, <1>12, <3>2 DEF Location!Uses
      <3>4. Opens(Append(wire, m), calls', geoclue', exported, policy', P, A, U)
        BY <1>5, <1>6, <2>1, <2>2, <3>1, <3>3, HearsUse
      <3>5. wire' \in Seq(Messages)
        BY <1>5, <1>8, <3>1, <3>2, <3>3
      <3> QED BY <1>5, <1>7, <2>2, <3>1, <3>2, <3>4, <3>5
    <2> QED BY <2>3, <2>4
  <1>19. CASE Location!Vanishes
    <2>1. /\ geoclue.up /\ geoclue' = [up |-> FALSE, inUse |-> FALSE, knows |-> 0]
          /\ calls' = <<>> /\ policy' = policy
          /\ \/ wire' = IF watching THEN wire \o Location!Failures \o <<"vanished">> ELSE wire
             \/ wire' = IF watching THEN wire \o <<"vanished">> \o Location!Failures ELSE wire
      BY <1>19 DEF Location!Vanishes, Location!agentVars
    <2>2. geoclue' \in GeoClues /\ ~geoclue'.up
      BY <1>13, <2>1
    <2>3. /\ "failed" \in Messages /\ "vanished" \in Messages
          /\ \A w \in Seq(Messages) : /\ Append(w, "failed") \in Seq(Messages)
                                     /\ Append(w, "vanished") \in Seq(Messages)
      BY <1>8
    <2>4. ASSUME NEW w \in Seq(Messages)
          PROVE  /\ w \o <<>> = w /\ w \o <<"failed">> = Append(w, "failed")
                 /\ w \o <<"vanished">> = Append(w, "vanished")
      <3>1. /\ \A m \in Messages : w \o <<m>> = Append(w, m)
            /\ w \o <<>> = w
        BY AppendIsConcat, ConcatEmptySeq
      <3> QED BY <2>3, <3>1
    <2>5. CASE watching
      <3>1. \/ wire' = Append(wire, "vanished")
            \/ wire' = Append(Append(wire, "failed"), "vanished")
            \/ wire' = Append(Append(wire, "vanished"), "failed")
        <4>1. Location!Failures \in {<<>>, <<"failed">>}
          BY DEF Location!Failures
        <4> QED BY <1>5, <2>1, <2>3, <2>4, <2>5, <4>1
      <3>2. Opens(Append(wire, "vanished"), calls', geoclue', exported, policy', P, A, U)
        BY <1>5, <1>6, <2>2, <2>3, <2>5, HearsEnd
      <3>3. Opens(Append(Append(wire, "vanished"), "failed"), calls', geoclue', exported, policy',
                  P, A, U)
        BY <1>5, <2>2, <2>3, <3>2, HearsEnd
      <3>4. Opens(Append(wire, "failed"), calls, geoclue, exported, policy, P, A, U)
        BY <1>5, <1>6, <2>1, <2>3, <2>5, HearsEnd
      <3>5. Opens(Append(Append(wire, "failed"), "vanished"), calls', geoclue', exported, policy',
                  P, A, U)
        BY <1>5, <2>2, <2>3, <3>4, HearsEnd
      <3>6. wire' \in Seq(Messages) /\ calls' \in Seq({"AddAgent", "Get"})
        <4>1. \A w : w = wire \/ w = Append(wire, "failed") \/ w = Append(wire, "vanished")
                      => w \in Seq(Messages)
          BY <1>5, <2>3
        <4>2. wire' \in Seq(Messages)
          BY <2>3, <3>1, <4>1
        <4>3. calls' \in Seq({"AddAgent", "Get"})
          BY <2>1
        <4> QED BY <4>2, <4>3
      <3> QED BY <1>7, <2>1, <2>2, <2>5, <3>1, <3>2, <3>3, <3>5, <3>6
    <2>6. CASE ~watching
      <3>1. wire' = <<>> /\ wire' \in Seq(Messages) /\ calls' \in Seq({"AddAgent", "Get"})
        BY <1>5, <2>1, <2>6
      <3> QED BY <1>7, <2>1, <2>2, <2>6, <3>1
    <2> QED BY <2>5, <2>6
  <1> QED BY <1>14, <1>15, <1>16, <1>17, <1>18, <1>19

(* What the control makes of what the agent is told.                        *)
LEMMA Notified ==
  ASSUME ChannelTypes, NEW is \in BOOLEAN, NEW using \in BOOLEAN, Location!Notify(is, using)
  PROVE  /\ available' = is /\ inUse' = using
         /\ privacy' = [available |-> available', inUse |-> available' /\ inUse']
  BY DEF ChannelTypes, Location!Notify

(* The agent hears of GeoClue.                                              *)
LEMMA LocationHears ==
  ASSUME Location!IInv, Location!Deliver
  PROVE  Location!IInv'
  <1> DEFINE m == Head(wire)
  <1>1. Location!BusKept /\ Location!ChannelKept /\ Location!RequestsKept
    BY DEF Location!IInv
  <1>2. /\ UNCHANGED <<started, stopped, attempts, retry, exported, watching, policy, geoclue>>
        /\ wire # <<>>
    BY DEF Location!Deliver, Location!busVars
  <1>3. policy' \in Levels \union {0} /\ Location!BusKept'
    <2>1. policy' \in Levels \union {0}
      BY <1>1, <1>2 DEF Location!BusKept
    <2> QED BY <1>1, <1>2, <2>1, BusStays
  <1>4. /\ ChannelTypes /\ geoclue \in GeoClues /\ wire \in Seq(Messages)
        /\ calls \in Seq({"AddAgent", "Get"}) /\ watching
        /\ present \in BOOLEAN /\ available \in BOOLEAN /\ inUse \in BOOLEAN
        /\ privacy = [available |-> available, inUse |-> available /\ inUse]
        /\ available => present
        /\ calls # <<>> => geoclue.up
        /\ geoclue.up \in BOOLEAN
    BY <1>1, <1>2, ChannelFacts DEF ChannelTypes, GeoClues
  <1>5. PICK P, A, U :
          /\ (0 \in P <=> present) /\ (0 \in A <=> available) /\ (0 \in U <=> inUse)
          /\ Opens(wire, calls, geoclue, exported, policy, P, A, U)
    <2>1. PICK P, A, U :
            /\ Follows(wire, P, A, U) /\ Comes(wire, calls, geoclue, exported, policy, P, A, U)
            /\ (0 \in P <=> present) /\ (0 \in A <=> available) /\ (0 \in U <=> inUse)
      BY <1>1, <1>4, ChannelFacts
    <2>2. Opens(wire, calls, geoclue, exported, policy, P, A, U)
      BY <2>1 DEF Opens
    <2> QED BY <2>1, <2>2
  <1> DEFINE Took ==
               /\ present' \in BOOLEAN /\ available' \in BOOLEAN /\ inUse' \in BOOLEAN
               /\ privacy' = [available |-> available', inUse |-> available' /\ inUse']
               /\ present' <=> m = "appeared" \/ (present /\ m # "vanished")
               /\ available' <=> \/ m = "added" /\ present
                                 \/ available /\ m \notin {"failed", "vanished"}
               /\ inUse' <=> \/ m = "used" /\ available
                             \/ /\ inUse /\ m \notin {"failed", "vanished"}
                                /\ ~(m = "added" /\ present) /\ ~(m = "unused" /\ available)
               /\ Location!RequestsKept'
             Rings ==
               /\ \/ calls' = calls /\ ~(m = "added" /\ present /\ geoclue.up)
                  \/ \E call \in {"AddAgent", "Get"} :
                       /\ geoclue.up /\ calls' = Append(calls, call)
                       /\ m = "added" => call = "Get"
               /\ \/ wire' = Tail(wire)
                  \/ ~geoclue.up /\ wire' = Append(Tail(wire), "failed")
  <1>6. ASSUME Took, Rings PROVE Location!IInv'
    <2>1. /\ calls' \in Seq({"AddAgent", "Get"}) /\ (calls' # <<>> => geoclue.up)
          /\ (\E i \in DOMAIN calls : calls[i] = "Get") => \E i \in DOMAIN calls' : calls'[i] = "Get"
          /\ m = "added" /\ present /\ geoclue.up => \E i \in DOMAIN calls' : calls'[i] = "Get"
      <3>1. CASE calls' = calls /\ ~(m = "added" /\ present /\ geoclue.up)
        <4> HIDE DEF m
        <4> QED BY <1>4, <3>1
      <3>2. ASSUME NEW call \in {"AddAgent", "Get"}, geoclue.up, calls' = Append(calls, call),
                   m = "added" => call = "Get"
            PROVE  /\ calls' \in Seq({"AddAgent", "Get"}) /\ (calls' # <<>> => geoclue.up)
                   /\ (\E i \in DOMAIN calls : calls[i] = "Get") =>
                        \E i \in DOMAIN calls' : calls'[i] = "Get"
                   /\ m = "added" /\ present /\ geoclue.up =>
                        \E i \in DOMAIN calls' : calls'[i] = "Get"
        <4>1. /\ calls' \in Seq({"AddAgent", "Get"}) /\ DOMAIN calls' = 1 .. Len(calls) + 1
              /\ DOMAIN calls = 1 .. Len(calls) /\ Len(calls) \in Nat
              /\ \A i \in DOMAIN calls : calls'[i] = calls[i]
              /\ calls'[Len(calls) + 1] = call
          BY <1>4, <3>2
        <4>2. (\E i \in DOMAIN calls : calls[i] = "Get") => \E i \in DOMAIN calls' : calls'[i] = "Get"
          BY <4>1
        <4>3. m = "added" => \E i \in DOMAIN calls' : calls'[i] = "Get"
          <5>1. Len(calls) + 1 \in DOMAIN calls'
            BY <4>1
          <5> HIDE DEF m
          <5> QED BY <3>2, <4>1, <5>1
        <4> HIDE DEF m
        <4> QED BY <3>2, <4>1, <4>2, <4>3
      <3> HIDE DEF m
      <3> QED BY <1>6, <3>1, <3>2
    <2>2. PICK P3, A3, U3 :
            (0 \in P3 <=> present') /\ (0 \in A3 <=> available') /\ (0 \in U3 <=> inUse')
      <3>1. PICK P3, A3, U3 : /\ P3 = IF present' THEN {0} ELSE {}
                              /\ A3 = IF available' THEN {0} ELSE {}
                              /\ U3 = IF inUse' THEN {0} ELSE {}
        OBVIOUS
      <3> QED BY <3>1
    <2>3. Opens(Tail(wire), calls', geoclue, exported, policy, P3, A3, U3)
      <3> DEFINE h == m
      <3>1. h = Head(wire)
        OBVIOUS
      <3> HIDE DEF m
      <3>2. /\ 0 \in P3 <=> h = "appeared" \/ (0 \in P /\ h # "vanished")
            /\ 0 \in A3 <=> \/ h = "added" /\ 0 \in P
                            \/ 0 \in A /\ h \notin {"failed", "vanished"}
            /\ 0 \in U3 <=> \/ h = "used" /\ 0 \in A
                            \/ /\ 0 \in U /\ h \notin {"failed", "vanished"}
                               /\ ~(h = "added" /\ 0 \in P) /\ ~(h = "unused" /\ 0 \in A)
        BY <1>5, <1>6, <2>2
      <3>3. h = "added" /\ 0 \in P /\ geoclue.up => \E i \in DOMAIN calls' : calls'[i] = "Get"
        BY <1>5, <2>1
      <3> HIDE DEF h
      <3> QED BY <1>2, <1>4, <1>5, <2>1, <3>1, <3>2, <3>3, HearsFirst
    <2>4. Tail(wire) \in Seq(Messages) /\ "failed" \in Messages
      BY <1>2, <1>4 DEF Messages
    <2>5. /\ wire' \in Seq(Messages)
          /\ Opens(wire', calls', geoclue, exported, policy, P3, A3, U3)
      <3>1. CASE wire' = Tail(wire)
        BY <2>3, <2>4, <3>1
      <3>2. CASE ~geoclue.up /\ wire' = Append(Tail(wire), "failed")
        <4>1. Append(Tail(wire), "failed") \in Seq(Messages)
          BY <2>4
        <4>2. Opens(Append(Tail(wire), "failed"), calls', geoclue, exported, policy, P3, A3, U3)
          BY <1>4, <2>3, <2>4, <3>2, HearsEnd
        <4> QED BY <3>2, <4>1, <4>2
      <3> QED BY <1>6, <3>1, <3>2
    <2>6. ChannelTypes'
      <3>1. available' => present'
        <4>1. m = "vanished" => m # "appeared" /\ m # "added"
          OBVIOUS
        <4> HIDE DEF m
        <4> QED BY <1>4, <1>6, <4>1
      <3> HIDE DEF m
      <3> QED BY <1>2, <1>4, <1>6, <2>1, <2>5, <3>1 DEF ChannelTypes, GeoClues
    <2>7. Location!ChannelKept'
      <3>1. PICK P2, A2, U2 :
              /\ Follows(wire', P2, A2, U2)
              /\ Comes(wire', calls', geoclue, exported, policy, P2, A2, U2)
              /\ (0 \in P2 <=> 0 \in P3) /\ (0 \in A2 <=> 0 \in A3) /\ (0 \in U2 <=> 0 \in U3)
        BY <2>5 DEF Opens
      <3>2. /\ watching' /\ Comes(wire', calls', geoclue', exported', policy', P2, A2, U2)
            /\ (0 \in P2 <=> present') /\ (0 \in A2 <=> available') /\ (0 \in U2 <=> inUse')
        BY <1>2, <1>4, <2>2, <3>1
      <3> QED BY <2>6, <3>1, <3>2, ChannelAfter
    <2> HIDE DEF m
    <2> QED BY <1>3, <1>6, <2>7 DEF Location!IInv
  <1>7. ASSUME UNCHANGED locationRequest, present => present' PROVE Location!RequestsKept'
    BY <1>1, <1>7, LocationWaits
  <1>8. CASE m = "appeared" /\ Location!Appeared
    <2>1. /\ present' = TRUE /\ available' = available /\ inUse' = inUse /\ privacy' = privacy
          /\ locationRequest' = locationRequest
          /\ calls' = IF geoclue.up THEN Append(calls, "AddAgent") ELSE calls
          /\ wire' = Tail(wire) \o (IF geoclue.up THEN <<>> ELSE <<"failed">>)
      BY <1>8 DEF Location!Appeared, Location!Calls, Location!NobodyThere, Location!SameState
    <2>2. wire' = IF geoclue.up THEN Tail(wire) ELSE Append(Tail(wire), "failed")
      <3>1. Tail(wire) \in Seq(Messages) /\ "failed" \in Messages
        BY <1>2, <1>4 DEF Messages
      <3>2. /\ Tail(wire) \o <<>> = Tail(wire)
            /\ Append(Tail(wire), "failed") = Tail(wire) \o <<"failed">>
        BY <3>1, AppendIsConcat, ConcatEmptySeq
      <3> QED BY <2>1, <3>2
    <2>3. Location!RequestsKept'
      BY <1>7, <2>1
    <2>4. m = "appeared"
      BY <1>8
    <2> HIDE DEF m
    <2>5. Took
      BY <1>4, <2>1, <2>3, <2>4
    <2>6. Rings
      BY <1>4, <2>1, <2>2, <2>4
    <2> QED BY <1>6, <2>5, <2>6
  <1>9. CASE m = "vanished" /\ Location!Vanished
    <2>1. /\ present' = FALSE /\ wire' = Tail(wire) /\ calls' = calls
          /\ Location!Notify(FALSE, FALSE)
          /\ locationRequest' =
               [r \in Location!Requests |-> Location!FailAll(locationRequest[r])]
      BY <1>9 DEF Location!Vanished
    <2>2. /\ available' = FALSE /\ inUse' = FALSE
          /\ privacy' = [available |-> available', inUse |-> available' /\ inUse']
      BY <1>4, <2>1, Notified
    <2>3. Location!RequestsKept'
      BY <1>1, <1>3, <2>1, LocationClears
    <2>4. m = "vanished"
      BY <1>9
    <2> HIDE DEF m
    <2>5. Took
      BY <1>4, <2>1, <2>2, <2>3, <2>4
    <2>6. Rings
      BY <1>4, <2>1, <2>4
    <2> QED BY <1>6, <2>5, <2>6
  <1>10. CASE m = "added" /\ Location!Added
    <2>1. wire' = Tail(wire) /\ present' = present /\ locationRequest' = locationRequest
      BY <1>10 DEF Location!Added
    <2>2. m = "added" /\ Location!RequestsKept'
      BY <1>7, <1>10, <2>1
    <2> HIDE DEF m
    <2>3. CASE present
      <3>1. /\ Location!Notify(TRUE, FALSE)
            /\ calls' = IF geoclue.up THEN Append(calls, "Get") ELSE calls
        BY <1>10, <2>3 DEF Location!Added, Location!Calls
      <3>2. /\ available' = TRUE /\ inUse' = FALSE
            /\ privacy' = [available |-> available', inUse |-> available' /\ inUse']
        BY <1>4, <3>1, Notified
      <3>3. Took
        BY <1>4, <2>1, <2>2, <2>3, <3>2
      <3>4. Rings
        BY <1>4, <2>1, <2>2, <2>3, <3>1
      <3> QED BY <1>6, <3>3, <3>4
    <2>4. CASE ~present
      <3>1. /\ calls' = calls /\ available' = available /\ inUse' = inUse /\ privacy' = privacy
        BY <1>10, <2>4 DEF Location!Added, Location!SameState
      <3>2. Took
        BY <1>4, <2>1, <2>2, <2>4, <3>1
      <3>3. Rings
        BY <1>4, <2>1, <2>2, <2>4, <3>1
      <3> QED BY <1>6, <3>2, <3>3
    <2> QED BY <2>3, <2>4
  <1>11. CASE m = "failed" /\ Location!AddFailed
    <2>1. /\ wire' = Tail(wire) /\ present' = present /\ locationRequest' = locationRequest
          /\ calls' = calls /\ Location!Notify(FALSE, FALSE)
      BY <1>11 DEF Location!AddFailed
    <2>2. /\ available' = FALSE /\ inUse' = FALSE
          /\ privacy' = [available |-> available', inUse |-> available' /\ inUse']
      BY <1>4, <2>1, Notified
    <2>3. m = "failed" /\ Location!RequestsKept'
      BY <1>7, <1>11, <2>1
    <2> HIDE DEF m
    <2>4. Took
      BY <1>4, <2>1, <2>2, <2>3
    <2>5. Rings
      BY <1>4, <2>1, <2>3
    <2> QED BY <1>6, <2>4, <2>5
  <1>12. ASSUME NEW using \in BOOLEAN, Location!Used(using), m = IF using THEN "used" ELSE "unused"
         PROVE  Location!IInv'
    <2>1. /\ wire' = Tail(wire) /\ present' = present /\ locationRequest' = locationRequest
          /\ calls' = calls
      BY <1>12 DEF Location!Used
    <2>2. Location!RequestsKept'
      BY <1>7, <2>1
    <2>3. (using => m = "used") /\ (~using => m = "unused")
      BY <1>12
    <2> HIDE DEF m
    <2>4. Rings
      BY <1>4, <2>1, <2>3
    <2>5. CASE available
      <3>1. Location!Notify(TRUE, using)
        BY <1>12, <2>5 DEF Location!Used
      <3>2. /\ available' = TRUE /\ inUse' = using
            /\ privacy' = [available |-> available', inUse |-> available' /\ inUse']
        BY <1>4, <3>1, Notified
      <3>3. Took
        BY <1>4, <2>1, <2>2, <2>3, <2>5, <3>2
      <3> QED BY <1>6, <2>4, <3>3
    <2>6. CASE ~available
      <3>1. available' = available /\ inUse' = inUse /\ privacy' = privacy
        BY <1>12, <2>6 DEF Location!Used, Location!SameState
      <3>2. Took
        BY <1>4, <2>1, <2>2, <2>3, <2>6, <3>1
      <3> QED BY <1>6, <2>4, <3>2
    <2> QED BY <2>5, <2>6
  <1>13. \/ m = "appeared" /\ Location!Appeared
         \/ m = "vanished" /\ Location!Vanished
         \/ m = "added" /\ Location!Added
         \/ m = "failed" /\ Location!AddFailed
         \/ m = "used" /\ Location!Used(TRUE)
         \/ m = "unused" /\ Location!Used(FALSE)
    BY DEF Location!Deliver
  <1>14. CASE m = "used" /\ Location!Used(TRUE)
    BY <1>12, <1>14
  <1>15. CASE m = "unused" /\ Location!Used(FALSE)
    BY <1>12, <1>15
  <1> HIDE DEF m
  <1> QED BY <1>8, <1>9, <1>10, <1>11, <1>13, <1>14, <1>15

(* Every step of the agent and of GeoClue keeps the invariant.              *)
LEMMA LocationStep ==
  ASSUME Location!IInv, Location!Next \/ UNCHANGED locationVars
  PROVE  Location!IInv'
  <1>1. Location!BusKept /\ Location!ChannelKept /\ Location!RequestsKept
    BY DEF Location!IInv
  <1>2. ASSUME UNCHANGED <<started, stopped, attempts, retry, exported, watching, present,
                           available, inUse, privacy, policy, calls, wire, geoclue>>,
               Location!RequestsKept'
        PROVE  Location!IInv'
    <2>1. Location!BusKept'
      BY <1>1, <1>2 DEF Location!BusKept
    <2>2. Location!ChannelKept'
      BY <1>1, <1>2, ChannelStays
    <2> QED BY <1>2, <2>1, <2>2 DEF Location!IInv
  <1>3. CASE UNCHANGED locationVars
    <2>1. UNCHANGED <<started, stopped, attempts, retry, exported, watching, present,
                      available, inUse, privacy, policy, calls, wire, geoclue, locationRequest>>
      BY <1>3 DEF locationVars
    <2> QED BY <1>1, <1>2, <2>1, LocationWaits
  <1>4. ASSUME NEW r \in Location!Requests,
               \/ Location!AuthorizeApp(r) \/ Location!Allow(r) \/ Location!Deny(r)
               \/ Location!EntryTimeout(r) \/ Location!RequestTimeout(r)
        PROVE  Location!IInv'
    <2>1. UNCHANGED <<started, stopped, attempts, retry, exported, watching, present,
                      available, inUse, privacy, policy, calls, wire, geoclue>>
      BY <1>4 DEF Location!AuthorizeApp, Location!Allow, Location!Deny, Location!EntryTimeout,
                  Location!RequestTimeout, Location!requestless, Location!busVars,
                  Location!agentVars, Location!geoclueVars
    <2> QED BY <1>2, <1>4, <2>1, LocationAsks
  <1> QED BY <1>3, <1>4, LocationBus, LocationManager, LocationHears DEF Location!Next

(* What the invariant says of a request is what the run checks.             *)
LEMMA LocationInvariant == Location!IInv => Location!LocationSound
  <1> SUFFICES ASSUME Location!IInv PROVE Location!LocationSound
    OBVIOUS
  <1>1. Location!BusKept /\ Location!ChannelKept /\ Location!RequestsKept
    BY DEF Location!IInv
  <1>2. ASSUME NEW r \in Location!Requests
        PROVE  /\ locationRequest[r].at \in {"new", "open", "over"}
               /\ Location!RequestRight(locationRequest[r])
               /\ locationRequest[r].answers \in {<<>>} \union {<<g>> : g \in Location!Given}
               /\ locationRequest[r].told \in
                    {<<>>, <<"requested">>} \union {<<"requested", e>> : e \in Location!Ends}
    BY <1>1, LocationFacts DEF Location!RequestRecords
  <1>3. Location!TypeOK
    BY <1>1, <1>2 DEF Location!TypeOK, Location!BusKept
  <1>4. ASSUME NEW r \in Location!Requests
        PROVE  LET q == locationRequest[r] IN
               /\ q.at = "over" => Location!Answered(q)
               /\ q.at # "over" => q.answers = <<>>
    BY <1>2 DEF Location!RequestRight, Location!NewRequest, Location!Unanswered
  <1>5. Location!FailClosed
    <2> SUFFICES ASSUME NEW r \in Location!Requests, NEW i \in DOMAIN locationRequest[r].answers
                 PROVE  LET answer == locationRequest[r].answers[i] IN
                        /\ answer.level <= locationRequest[r].wants
                        /\ answer.level <= answer.most
                        /\ answer.level # 0 => locationRequest[r].told = <<"requested", "allowed">>
      BY DEF Location!FailClosed
    <2>1. locationRequest[r].at = "over"
      BY <1>4
    <2>2. PICK g \in Location!Given :
            /\ locationRequest[r].answers = <<g>>
            /\ g.level <= locationRequest[r].wants /\ g.level <= g.most
            /\ g.level # 0 => locationRequest[r].told = <<"requested", "allowed">>
      BY <1>4, <2>1 DEF Location!Answered
    <2>3. locationRequest[r].answers[i] = g
      BY <2>2
    <2> QED BY <2>2, <2>3
  <1>6. Location!OneAnswer
    <2>1. ASSUME NEW r \in Location!Requests
          PROVE  LET q == locationRequest[r] IN
                 /\ Len(q.answers) = (IF q.at = "over" THEN 1 ELSE 0)
                 /\ q.at = "open" => q.timer /\ q.pending
                 /\ q.pending <=> q.clock
                 /\ q.pending <=> q.told = <<"requested">>
                 /\ Len(q.told) <= 2
      <3> DEFINE q == locationRequest[r]
      <3>1. Len(q.answers) = (IF q.at = "over" THEN 1 ELSE 0)
        <4>1. CASE q.at = "over"
          <5>1. PICK g \in Location!Given : q.answers = <<g>>
            BY <1>4, <4>1 DEF Location!Answered
          <5> QED BY <4>1, <5>1
        <4>2. CASE q.at # "over"
          BY <1>4, <4>2
        <4> QED BY <4>1, <4>2
      <3>2. /\ q.at = "open" => q.timer /\ q.pending
            /\ q.pending <=> q.clock
            /\ q.pending <=> q.told = <<"requested">>
        BY <1>2 DEF Location!RequestRight, Location!Unanswered
      <3>3. Len(q.told) <= 2
        <4>1. \/ q.told = <<>> \/ q.told = <<"requested">>
              \/ \E e \in Location!Ends : q.told = <<"requested", e>>
          BY <1>2
        <4>2. CASE q.told = <<>>
          BY <4>2
        <4>3. CASE q.told = <<"requested">>
          BY <4>3
        <4>4. ASSUME NEW e \in Location!Ends, q.told = <<"requested", e>>
              PROVE  Len(q.told) <= 2
          BY <4>4
        <4> QED BY <4>1, <4>2, <4>3, <4>4
      <3> QED BY <3>1, <3>2, <3>3
    <2>2. Location!Cardinality(Location!Pending) <= LocationPending
      BY <1>1 DEF Location!RequestsKept
    <2> QED BY <2>1, <2>2 DEF Location!OneAnswer
  <1>7. Location!KnowEachOther
    <2>1. privacy = [available |-> available, inUse |-> available /\ inUse]
      BY <1>1 DEF Location!ChannelKept
    <2>2. ASSUME Location!Settled, present
          PROVE  /\ geoclue.up
                 /\ available => /\ inUse = geoclue.inUse
                                 /\ exported = "yes" => geoclue.knows = policy
      <3>1. watching /\ wire = <<>> /\ calls = <<>>
        BY <1>1, <2>2, ChannelFacts DEF Location!Settled
      <3>2. PICK P, A, U :
              /\ Follows(wire, P, A, U) /\ Comes(wire, calls, geoclue, exported, policy, P, A, U)
              /\ (0 \in P <=> present) /\ (0 \in A <=> available) /\ (0 \in U <=> inUse)
        BY <1>1, <3>1, ChannelFacts
      <3>3. Len(wire) = 0 /\ DOMAIN wire = {} /\ DOMAIN calls = {}
        BY <3>1
      <3>4. 0 \in P => geoclue.up
        BY <3>2, <3>3 DEF Comes
      <3>5. 0 \in A => (exported = "yes" => geoclue.knows = policy) /\ (0 \in U <=> geoclue.inUse)
        BY <3>2, <3>3 DEF Comes
      <3>6. inUse \in BOOLEAN /\ geoclue.inUse \in BOOLEAN
        BY <1>1, ChannelFacts DEF ChannelTypes
      <3> QED BY <2>2, <3>2, <3>4, <3>5, <3>6
    <2>3. available => present
      BY <1>1, ChannelFacts DEF ChannelTypes
    <2>4. \A r \in Location!Requests : locationRequest[r].at = "open" => present
      BY <1>1, LocationFacts
    <2> QED BY <2>1, <2>2, <2>3, <2>4 DEF Location!KnowEachOther
  <1> QED BY <1>3, <1>5, <1>6, <1>7 DEF Location!LocationSound

(* Whatever polkit, a keyring or GeoClue asks is answered, by those that    *)
(* were told of it and in time, and no secret or permission outlives its    *)
(* question, for every number of shells, questions and calls under way.     *)
THEOREM AgentsKept == AllSpec => []AgentsSound
  <1> DEFINE Kept == /\ subject = "auth" => Auth!IInv
                     /\ subject = "prompts" => Asking!IInv
                     /\ subject = "location" => Location!IInv
  <1>1. AllInit => Kept
    BY AuthInit, PromptInit, LocationInit DEF AllInit
  <1>2. Kept /\ [AllNext]_allVars => Kept'
    <2> SUFFICES ASSUME Kept, [AllNext]_allVars PROVE Kept'
      OBVIOUS
    <2>1. /\ UNCHANGED subject
          /\ subject = "auth" => Auth!Next \/ UNCHANGED authVars
          /\ subject = "prompts" => Asking!Next \/ UNCHANGED promptVars
          /\ subject = "location" => Location!Next \/ UNCHANGED locationVars
      BY AgentSteps
    <2> QED BY <2>1, AuthStep, PromptStep, LocationStep
  <1>3. Kept => AgentsSound
    BY AuthInvariant, PromptInvariant, LocationInvariant DEF AgentsSound
  <1> HIDE DEF Kept
  <1> QED BY <1>1, <1>2, <1>3, PTL DEF AllSpec
===============================================================================
