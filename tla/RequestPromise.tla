--------------------------- MODULE RequestPromise ---------------------------
(***************************************************************************)
(* What the compositor promises about a question that a service of the     *)
(* system asks the user through it: polkit's question for a password, a    *)
(* keyring's prompt.  Shells hear that it is asked and how it ended; the   *)
(* service gets one answer.                                                *)
(***************************************************************************)
EXTENDS Sequences

CONSTANTS
  Requests,     \* the questions
  Given         \* the ends that answer the question; any other cancels it

VARIABLES
  answers,      \* what each service was answered, in order
  told          \* what the shells were told of each question, in order

vars == <<answers, told>>

Results == Given \union {"cancelled", "timeout"}
Means(end) == IF end \in Given THEN "given" ELSE "cancelled"

Init == /\ answers = [r \in Requests |-> <<>>]
        /\ told = [r \in Requests |-> <<>>]

New(r) == answers[r] = <<>> /\ told[r] = <<>>
Open(r) == answers[r] = <<>> /\ told[r] = <<"requested">>

\* The shells hear of a question.
Ask(r) ==
  /\ New(r)
  /\ told' = [told EXCEPT ![r] = <<"requested">>]
  /\ UNCHANGED answers

\* A question no shell hears of is turned down.
Refuse(r) ==
  /\ New(r)
  /\ \E answer \in {"cancelled", "failed"} : answers' = [answers EXCEPT ![r] = <<answer>>]
  /\ UNCHANGED told

\* A question ends: the service and the shells learn the same.
Ends(r) ==
  /\ Open(r)
  /\ \E end \in Results : answers'[r] = <<Means(end)>> /\ told'[r] = Append(told[r], end)

Stays(r) == answers'[r] = answers[r] /\ told'[r] = told[r]

\* Several may end in one step.
EndSome ==
  /\ DOMAIN answers' = Requests /\ DOMAIN told' = Requests
  /\ \A r \in Requests : Stays(r) \/ Ends(r)

Next == (\E r \in Requests : Ask(r) \/ Refuse(r)) \/ EndSome

Step == Next \/ UNCHANGED vars

Spec == Init /\ [][Next]_vars
=============================================================================
