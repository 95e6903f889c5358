--------------------------- MODULE FacadeTimeout ---------------------------
(***************************************************************************)
(* The two clocks of one question: the countdown of the facade's page      *)
(* (testingfacade/templates/index.html), which disables the submit button, *)
(* and the timer of get_answer_response (TestingFacadeUtils.py), which     *)
(* adds 2 * API_PROCESSING_TIMEOUT to the same timeout.  The margin is     *)
(* there so that an answer given while the button was enabled is never too *)
(* late.  Ticks are any unit of time; age counts them from the moment the  *)
(* facade stores the question.                                             *)
(***************************************************************************)
EXTENDS Naturals

CONSTANTS
    Timeout,     \* CONTROLLER_TESTING_TIMEOUT
    Margin,      \* 2 * API_PROCESSING_TIMEOUT
    Refresh,     \* how long the page takes to notice that it has expired
    Skew,        \* how much the browser's clock is behind the facade's
    Travel,      \* the longest way of an answer: browser, facade, suite
    MaxStart     \* bound: the age at which the suite starts to wait

ASSUME FacadeTimeoutAssumption ==
    /\ Timeout \in Nat /\ Margin \in Nat /\ Refresh \in Nat
    /\ Skew \in Nat /\ Travel \in Nat /\ MaxStart \in Nat

\* What the margin has to pay for.
MarginSuffices == Refresh + Skew + Travel < Margin

VARIABLES
    age,       \* ticks since the facade stored the question
    suite,     \* "sent", "waiting", "answered" or "timedout"
    started,   \* the age at which the suite began to wait
    answer,    \* "none", "posted" by the page, or "received" by the suite
    postedAt   \* the age at which the page posted it

vars == <<age, suite, started, answer, postedAt>>

\* Fault: the wait uses the timeout that was sent to the facade as it is.
DeadlineFault == started + Timeout

\* get_answer_response: the timer runs from the start of the wait.
Deadline == started + Timeout + Margin

\* The button is disabled when the interval timer sees difference < 0.
ButtonEnabled == age <= Timeout + Skew + Refresh

TypeOK ==
    /\ age \in Nat /\ started \in 0..MaxStart /\ postedAt \in Nat
    /\ suite \in {"sent", "waiting", "answered", "timedout"}
    /\ answer \in {"none", "posted", "received"}

Init ==
    /\ age = 0 /\ suite = "sent" /\ started = 0
    /\ answer = "none" /\ postedAt = 0

\* Time passes, but not past a timer that is due, an answer that must arrive,
\* or the last moment at which the suite starts to wait.
Tick ==
    /\ suite = "sent" => age < MaxStart
    /\ suite = "waiting" => age < Deadline
    /\ answer = "posted" => age < postedAt + Travel
    /\ suite \in {"sent", "waiting"}
    /\ age' = age + 1
    /\ UNCHANGED <<suite, started, answer, postedAt>>

\* The POST of the question has returned, and for a question that has a delay
\* the delay has passed.
StartWaiting ==
    /\ suite = "sent" /\ age <= MaxStart
    /\ suite' = "waiting" /\ started' = age
    /\ UNCHANGED <<age, answer, postedAt>>

\* The user submits the page.
PostAnswer ==
    /\ answer = "none" /\ ButtonEnabled
    /\ answer' = "posted" /\ postedAt' = age
    /\ UNCHANGED <<age, suite, started>>

\* receive_answer queues the answer.
ReceiveAnswer ==
    /\ answer = "posted"
    /\ answer' = "received"
    /\ UNCHANGED <<age, suite, started, postedAt>>

\* The wait returns the answer.
TakeAnswer ==
    /\ suite = "waiting" /\ answer = "received"
    /\ suite' = "answered"
    /\ UNCHANGED <<age, started, answer, postedAt>>

\* The timer fires while the queue is empty.
TimeOut ==
    /\ suite = "waiting" /\ age = Deadline /\ answer # "received"
    /\ suite' = "timedout"
    /\ UNCHANGED <<age, started, answer, postedAt>>

Next ==
    \/ Tick
    \/ StartWaiting
    \/ PostAnswer
    \/ ReceiveAnswer
    \/ TakeAnswer
    \/ TimeOut

Spec == Init /\ [][Next]_vars

-----------------------------------------------------------------------------

\* A question never times out on an answer that was submitted while the page
\* allowed it, on its way or received: such an answer would be left in the
\* queue and fail the next question.
NoLateAnswer == suite = "timedout" => answer = "none" /\ ~ButtonEnabled
=============================================================================
