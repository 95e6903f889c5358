----------------------------- MODULE SuiteTurns -----------------------------
(***************************************************************************)
(* What the testing tool promises those who ask for runs, whatever happens *)
(* inside: "limited to running a single test suite at a time" (docs/2.6).  *)
(* The tool has one turn.  Whoever asks is turned away while another has   *)
(* it, or fails without ever having it, or gets it, gives it back, and is  *)
(* only then answered, once and for all.                                   *)
(***************************************************************************)
CONSTANTS
    Run,      \* the runs asked for
    Patient   \* those that are never turned away: the command line's

VARIABLES
    stage   \* of each run

turnVars == <<stage>>

Stage == {"unasked", "preparing", "turn", "over", "refused", "answered"}

HasTurn(r) == stage[r] = "turn"
Taken == \E r \in Run : HasTurn(r)
Move(r, from, to) == stage[r] = from /\ stage' = [stage EXCEPT ![r] = to]

Init == stage = [r \in Run |-> "unasked"]

Refuse(r) == r \notin Patient /\ Taken /\ Move(r, "unasked", "refused")
Prepare(r) == ~Taken /\ Move(r, "unasked", "preparing")
TakeTurn(r) == ~Taken /\ Move(r, "preparing", "turn")
GiveBack(r) == Move(r, "turn", "over")

\* A run that failed is answered with its failure: before its turn, or at the
\* end of it.  One that went through is answered when its report is written.
Answer(r) == \E from \in {"preparing", "turn", "over"} : Move(r, from, "answered")

Next == \E r \in Run : Refuse(r) \/ Prepare(r) \/ TakeTurn(r) \/ GiveBack(r) \/ Answer(r)

Spec == Init /\ [][Next]_turnVars
=============================================================================
