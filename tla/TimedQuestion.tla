--------------------------- MODULE TimedQuestion ---------------------------
(***************************************************************************)
(* The questions of IS-04-04 test_05 and IS-05-03 test_04: after a random  *)
(* delay a Sender comes back online, or a connection is removed, and the   *)
(* user is to press the button as soon as the controller shows it.  The    *)
(* suite sends the question, sleeps on exitTestEvent, which every answer   *)
(* sets, changes the resource, and only then waits for the answer, which   *)
(* it judges by the moment for which the change was planned.               *)
(*                                                                         *)
(* The page, the answer on its way and the timer of the wait are those of  *)
(* FacadeTimeout.                                                          *)
(***************************************************************************)
EXTENDS FacadeTimeout

CONSTANTS
    Delays,     \* the delays to choose from: 10 to 60 seconds
    Limit,      \* max_time_to_answer: 30 seconds
    Slow,       \* the longest that a step of the suite takes
    Reaction    \* the longest that a prompt user takes to see the change and press

ASSUME TimedQuestionAssumption ==
    /\ Delays \subseteq Nat
    /\ Limit \in Nat /\ Slow \in Nat /\ Reaction \in Nat

\* What the limit has to pay for, and the wait that starts in time.
LimitSuffices == Slow + Reaction + Travel <= Limit
StartsInTime == \A delay \in Delays : Slow + delay + Slow <= MaxStart

VARIABLES
    step,      \* of the suite: "asking", "delaying", "changing" or "changed"
    event,     \* exitTestEvent
    planned,   \* expected_time_online
    until,     \* the moment by which the step is over
    changed,   \* when the resource changed
    received,  \* time_received
    prompt     \* whether the user presses only when the change is seen, and then at once

timedVars == <<vars, step, event, planned, until, changed, received, prompt>>

\* The answer to the question before has left the event set.
TimedInit ==
    /\ Init /\ step = "asking" /\ event = TRUE
    /\ planned = 0 /\ until = Slow /\ changed = 0 /\ received = 0
    /\ prompt \in BOOLEAN

\* Fault: exit_test_event_clear is not called.
PlanFault ==
    /\ step = "asking" /\ step' = "delaying"
    /\ \E delay \in Delays : planned' = age + delay
    /\ until' = planned'
    /\ UNCHANGED <<vars, event, changed, received, prompt>>

\* The POST of the question has returned.
Plan ==
    /\ step = "asking" /\ step' = "delaying"
    /\ event' = FALSE
    /\ \E delay \in Delays : planned' = age + delay
    /\ until' = planned'
    /\ UNCHANGED <<vars, changed, received, prompt>>

\* exit_test_event_wait returns.
Wake ==
    /\ step = "delaying" /\ (event \/ age = planned)
    /\ step' = "changing" /\ until' = age + Slow
    /\ UNCHANGED <<vars, event, planned, changed, received, prompt>>

\* _register_sender, or patch_staged with the connection to be removed.
Change ==
    /\ step = "changing" /\ step' = "changed" /\ changed' = age
    /\ UNCHANGED <<vars, event, planned, until, received, prompt>>

Wait ==
    /\ step = "changed" /\ StartWaiting
    /\ UNCHANGED <<step, event, planned, until, changed, received, prompt>>

Press ==
    /\ PostAnswer
    /\ prompt => step = "changed" /\ age <= changed + Reaction
    /\ UNCHANGED <<step, event, planned, until, changed, received, prompt>>

\* receive_answer notes the time, queues the answer and interrupts the delay.
Receive ==
    /\ ReceiveAnswer
    /\ received' = age /\ event' = TRUE
    /\ UNCHANGED <<step, planned, until, changed, prompt>>

Conclude ==
    /\ TakeAnswer \/ TimeOut
    /\ UNCHANGED <<step, event, planned, until, changed, received, prompt>>

Elapse ==
    /\ Tick
    /\ suite = "sent" => age < until
    /\ step = "delaying" => ~event
    /\ UNCHANGED <<step, event, planned, until, changed, received, prompt>>

TimedNext == Plan \/ Wake \/ Change \/ Wait \/ Press \/ Receive \/ Conclude \/ Elapse

TimedSpec == TimedInit /\ [][TimedNext]_timedVars

-----------------------------------------------------------------------------

Judgement ==
    CASE suite = "timedout" -> "UNCLEAR"
      [] suite = "answered" -> IF received \in planned..(planned + Limit) THEN "PASS" ELSE "FAIL"
      [] OTHER -> "none"

\* Though the delay is interrupted by any answer, and the answer is judged by the
\* plan: a user who presses as soon as the change is seen does not fail, and none
\* passes who pressed long before the change, or was not heard within the limit
\* ("The button must be pressed within 30 seconds", IS0404Test.py, IS0503Test.py).
VerdictIsFair ==
    /\ prompt => Judgement # "FAIL"
    /\ Judgement = "PASS" => changed <= received + Slow /\ received <= changed + Limit

TimedTypeOK ==
    /\ TypeOK
    /\ step \in {"asking", "delaying", "changing", "changed"}
    /\ event \in BOOLEAN /\ prompt \in BOOLEAN
    /\ planned \in Nat /\ until \in Nat /\ changed \in Nat /\ received \in Nat
=============================================================================
