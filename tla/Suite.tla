------------------------------- MODULE Suite -------------------------------
(***************************************************************************)
(* A test suite at work on a device (nmostesting/GenericTest.py): set up,  *)
(* one test after another or a single one, tear down.  What a device under *)
(* test can do between two requests, each suite's own module says.         *)
(*                                                                         *)
(* A test visits subjects one by one.  Between the steps of a visit the    *)
(* device may move.                                                        *)
(***************************************************************************)
EXTENDS Naturals, Sequences, FiniteSets, Functions

CONSTANT Attempts  \* CONFIG.STABLE_STATE_ATTEMPTS

VARIABLES
    at,       \* what is left of the run, and the step and subjects of its test
    device,   \* the device under test
    noted,    \* what the suite object has noted of the device
    verdict   \* the results so far

suiteVars == <<at, device, noted, verdict>>

\* The run with these tests to come.
Position(plan) == [plan |-> plan, step |-> "begin", todo |-> <<>>, tries |-> 0]

\* run_tests: the whole suite in the order of the tests' names, or one of them.
Plans(order) ==
    {<<"set_up_tests">> \o tests \o <<"tear_down_tests">> :
        tests \in {order} \cup {<<order[i]>> : i \in DOMAIN order}}

Verdict ==
    {"none", "PASS", "FAIL", "UNCLEAR", "WARNING", "DISABLED", "MANUAL", "OPTIONAL"}
NoVerdicts(order) ==
    [t \in {order[i] : i \in DOMAIN order} \cup {"set_up_tests", "tear_down_tests"} |-> "none"]

Ended == at.plan = <<>>
On(tests, step) == ~Ended /\ Head(at.plan) \in tests /\ at.step = step
Subject == Head(at.todo)

\* Lists, which SequencesExt has too: every instance of a suite would carry a copy of
\* all of that module, at the expense of each proof.

\* The elements of a set, in an order that is not known.
SomeOrder(set) == CHOOSE list \in [1..Cardinality(set) -> set] : IsInjective(list)

\* One list after the other.
Concatenation(lists) ==
    LET joined[n \in 0..Len(lists)] == IF n = 0 THEN <<>> ELSE joined[n - 1] \o lists[n]
    IN  joined[Len(lists)]

Reverse(s) == [i \in 1..Len(s) |-> s[(Len(s) - i) + 1]]

\* The elements of a sequence that are in a set, in their order.
Select(s, set) ==
    LET selected[n \in 0..Len(s)] ==
            IF n = 0 THEN <<>>
            ELSE IF s[n] \in set THEN Append(selected[n - 1], s[n]) ELSE selected[n - 1]
    IN  selected[Len(s)]

-----------------------------------------------------------------------------

\* Fault: a test that has nothing to test comes to its end without a result.
ConcludeFault(v) ==
    /\ verdict' = [verdict EXCEPT ![Head(at.plan)] = IF v = "UNCLEAR" THEN "missing" ELSE v]
    /\ at' = Position(Tail(at.plan))

\* A test returns, or its exception is caught by execute_test.
Conclude(v) ==
    /\ verdict' = [verdict EXCEPT ![Head(at.plan)] = v]
    /\ at' = Position(Tail(at.plan))

\* An exception in set_up_tests ends the run, without tear down.
Abort == at' = Position(<<>>) /\ UNCHANGED verdict

Step(step, tries) ==
    at' = [at EXCEPT !.step = step, !.tries = tries] /\ UNCHANGED verdict

Goto(step) == Step(step, 0)
Check(ok, step) == IF ok THEN Goto(step) ELSE Conclude("FAIL")

\* The loop of a test over its subjects, UNCLEAR if there are none ...
Visit(subjects) ==
    IF subjects = <<>> THEN Conclude("UNCLEAR")
    ELSE /\ at' = [at EXCEPT !.step = "visit", !.todo = subjects, !.tries = 0]
         /\ UNCHANGED verdict

\* ... and the end of a turn, which may be the last.
LeaveAs(v) ==
    IF Len(at.todo) = 1 THEN Conclude(v)
    ELSE /\ at' = [at EXCEPT !.step = "visit", !.todo = Tail(@), !.tries = 0]
         /\ UNCHANGED verdict

Leave == LeaveAs("PASS")

\* Fault: asked once, not again.
PollFault(settled, step, reads) == Check(settled, step)

\* wait_until_true and the loops like it: ask until it is so, at most so often.
Poll(settled, step, reads) ==
    IF settled \/ at.tries + 1 >= reads THEN Check(settled, step)
    ELSE Step(at.step, at.tries + 1)

\* The suite asks for the last time, or nearly so.
LastAttempt == at.tries >= Attempts - 1
=============================================================================
