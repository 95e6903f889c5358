------------------------------ MODULE Dialogue ------------------------------
(***************************************************************************)
(* What a controller suite and its user may rely on, whatever carries the  *)
(* questions and answers: one question is open at a time; it is accepted   *)
(* exactly if its user replied to it, and times out only if nobody did;    *)
(* and what became of a question is never looked at again.                 *)
(***************************************************************************)
EXTENDS Sequences

CONSTANT Timed   \* a question may time out

VARIABLES
    outcomes,   \* what became of every question so far, in order
    question    \* whether one is open, and replied to

dialogueVars == <<outcomes, question>>

Init == outcomes = <<>> /\ question = "none"

Conclude(from, outcome) ==
    /\ question = from /\ question' = "none"
    /\ outcomes' = Append(outcomes, outcome)

Ask == question = "none" /\ question' = "open" /\ UNCHANGED outcomes
Reply == question = "open" /\ question' = "replied" /\ UNCHANGED outcomes
Accept == Conclude("replied", "accepted")
TimeOut == Timed /\ Conclude("open", "timedout")

\* The question never reached the user, or nobody knows whether it did.
Unsent == Conclude("none", "unsent")

Next == Ask \/ Reply \/ Accept \/ TimeOut \/ Unsent

Spec == Init /\ [][Next]_dialogueVars
=============================================================================
