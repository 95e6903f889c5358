----------------------------- MODULE TestRunner -----------------------------
(***************************************************************************)
(* Runs of a test suite, from the request to its answer: index_page, api   *)
(* and run_noninteractive_tests, run_tests and the reports of              *)
(* nmostesting/NMOSTesting.py, and run_tests, execute_tests and            *)
(* execute_test of nmostesting/GenericTest.py.                             *)
(*                                                                         *)
(* The web server answers every request in a thread of its own.  A request *)
(* looks at TEST_ACTIVE, builds the suite's test object (name resolution,  *)
(* git, parsing of the API definitions), and only then sets TEST_ACTIVE.   *)
(* The mock services and CONFIG.AUTH_TOKEN belong to the process: a run    *)
(* takes them over without looking who had them.                           *)
(***************************************************************************)
EXTENDS Integers, Sequences, FiniteSets

CONSTANTS
    Run,            \* the runs asked for
    CommandLine,    \* those asked for on the command line
    NoRun,          \* owner of services that nobody has set up
    Tests           \* the tests of the suite, in the order they are run

ASSUME TestRunnerAssumption ==
    /\ CommandLine \subseteq Run /\ NoRun \notin Run
    /\ Tests \in Seq(STRING)

VARIABLES
    pc,        \* how far each run has come
    active,    \* core_app.config['TEST_ACTIVE'] is set
    results,   \* what each run has recorded: a sequence of names and states
    token,     \* the run whose scopes are in CONFIG.AUTH_TOKEN
    services   \* the run that the mock registry and DNS zone are set up for

vars == <<pc, active, results, token, services>>

\* None: a test that returned no result.
State == {"PASS", "FAIL", "NA", "None"}
Name == {"initialisation", "set_up_tests", "tear_down_tests"} \cup {Tests[k] : k \in 1..Len(Tests)}
TestResult == [name : Name, state : State]
PC == {"idle", "refused", "building", "starting", "executing", "finishing",
       "failing", "formatting", "reported", "failed"}

\* Between setting and clearing TEST_ACTIVE.
InProgress(r) == pc[r] \in {"starting", "executing", "finishing", "failing"}

TypeOK ==
    /\ pc \in [Run -> PC]
    /\ active \in BOOLEAN
    /\ results \in [Run -> Seq(TestResult)]
    /\ token \in Run \cup {NoRun}
    /\ services \in Run \cup {NoRun}

Init ==
    /\ pc = [r \in Run |-> "idle"]
    /\ active = FALSE
    /\ results = [r \in Run |-> <<>>]
    /\ token = NoRun /\ services = NoRun

-----------------------------------------------------------------------------

Goto(r, to) == pc' = [pc EXCEPT ![r] = to]

\* Fault: name and state are swapped.
RecordFault(r, name, state) ==
    results' = [results EXCEPT ![r] = Append(@, [name |-> state, state |-> name])]

Record(r, name, state) ==
    results' = [results EXCEPT ![r] = Append(@, [name |-> name, state |-> state])]

\* Fault: the check of TEST_ACTIVE is dropped.
RefusedFault(r) == FALSE

\* A web request is refused while TEST_ACTIVE is set.  The run that was given
\* on the command line does not look at it.
Refused(r) == active /\ r \notin CommandLine

Request(r) ==
    /\ pc[r] = "idle"
    /\ Goto(r, IF Refused(r) THEN "refused" ELSE "building")
    /\ UNCHANGED <<active, results, token, services>>

\* An unknown suite or host, no matching branch of the specification, ...
BuildFails(r) ==
    /\ pc[r] = "building"
    /\ Goto(r, "failed")
    /\ UNCHANGED <<active, results, token, services>>

\* The object is there, with its "initialisation" result.
Activate(r) ==
    /\ pc[r] = "building"
    /\ active' = TRUE
    /\ Record(r, "initialisation", "NA")
    /\ Goto(r, "starting")
    /\ UNCHANGED <<token, services>>

\* Fault: the token of an earlier run is used again.
NewTokenFault(r) == token' = IF token = NoRun THEN r ELSE token

NewToken(r) == token' = r

\* run_tests makes a new token and calls set_up_tests, which takes over the
\* mock services.
SetUp(r) ==
    /\ pc[r] = "starting"
    /\ NewToken(r) /\ services' = r
    /\ Record(r, "set_up_tests", "NA")
    /\ Goto(r, "executing")
    /\ UNCHANGED active

\* The API is not there (NMOSInitException), or set_up_tests raises half way.
SetUpFails(r) ==
    /\ pc[r] = "starting"
    /\ NewToken(r) /\ services' \in {services, r}
    /\ Goto(r, "failing")
    /\ UNCHANGED <<active, results>>

Executed(r) == Len(results[r]) - 2

\* execute_test: a result, an NMOSTestException that carries one, or any other
\* exception, which uncaught_exception makes a FAIL.
ExecuteTest(r, state) ==
    /\ pc[r] = "executing" /\ Executed(r) < Len(Tests)
    /\ Record(r, Tests[Executed(r) + 1], state)
    /\ UNCHANGED <<pc, active, token, services>>

\* An exception where execute_test does not catch it: the automatic tests of
\* basics, or a question of pre_tests_message or post_tests_message.
Abort(r) ==
    /\ pc[r] = "executing"
    /\ Goto(r, "failing")
    /\ UNCHANGED <<active, results, token, services>>

TearDown(r) ==
    /\ pc[r] = "executing" /\ Executed(r) = Len(Tests)
    /\ services' = NoRun
    /\ Record(r, "tear_down_tests", "NA")
    /\ Goto(r, "finishing")
    /\ UNCHANGED <<active, token>>

TearDownFails(r) ==
    /\ pc[r] = "executing" /\ Executed(r) = Len(Tests)
    /\ services' \in {services, NoRun}
    /\ Goto(r, "failing")
    /\ UNCHANGED <<active, results, token>>

\* Fault: TEST_ACTIVE is cleared after the try statement, not in its finally.
FinishFault(r) ==
    /\ pc[r] \in {"finishing", "failing"}
    /\ active' = IF pc[r] = "failing" THEN active ELSE FALSE
    /\ Goto(r, IF pc[r] = "failing" THEN "failed" ELSE "formatting")
    /\ UNCHANGED <<results, token, services>>

\* The finally clause of run_tests.
Finish(r) ==
    /\ pc[r] \in {"finishing", "failing"}
    /\ active' = FALSE
    /\ Goto(r, IF pc[r] = "failing" THEN "failed" ELSE "formatting")
    /\ UNCHANGED <<results, token, services>>

\* Fault: a missing result is reported like any other.
ReportableFault(r) == TRUE

\* _check_test_result: one None makes the whole report an AttributeError.
Reportable(r) == \A k \in 1..Len(results[r]) : results[r][k].state # "None"

Report(r) ==
    /\ pc[r] = "formatting"
    /\ Goto(r, IF Reportable(r) THEN "reported" ELSE "failed")
    /\ UNCHANGED <<active, results, token, services>>

Step(r) ==
    \/ BuildFails(r)
    \/ Activate(r)
    \/ SetUp(r)
    \/ SetUpFails(r)
    \/ \E state \in State \ {"NA"} : ExecuteTest(r, state)
    \/ Abort(r)
    \/ TearDown(r)
    \/ TearDownFails(r)
    \/ Finish(r)
    \/ Report(r)

Next == \E r \in Run : Request(r) \/ Step(r)

Spec == Init /\ [][Next]_vars

\* The command line's run starts before any other, and a request comes when no
\* other is between its check of TEST_ACTIVE and the setting of it.
Spaced(r) ==
    /\ \A s \in Run : pc[s] # "building"
    /\ r \in CommandLine => \A s \in Run : ~InProgress(s)

NextSpaced == \E r \in Run : (Spaced(r) /\ Request(r)) \/ Step(r)

SpecSpaced == Init /\ [][NextSpaced]_vars

-----------------------------------------------------------------------------
(* What the runner promises.                                                *)

\* "The testing tool is currently limited to running a single test suite at a
\* time": no two runs are between the setting and the clearing of TEST_ACTIVE.
OneRunAtATime == \A r, s \in Run : InProgress(r) /\ InProgress(s) => r = s

\* While its tests execute, a run uses the token with its own scopes and the
\* mock services as its own set_up_tests left them.
RunKeepsItsServices ==
    \A r \in Run : pc[r] = "executing" => token = r /\ services = r

\* The tool never refuses every further run: TEST_ACTIVE, which is never taken
\* back by anybody else, is set only while a run is there to clear it, however
\* the requests race and whatever fails.
NeverStuck == active => \E r \in Run : InProgress(r)

\* A run that is reported at all has a result of every test between its set up
\* and its tear down: nothing that fails leaves a shorter report.
ReportIsComplete ==
    \A r \in Run : pc[r] = "reported" =>
        /\ Len(results[r]) = Len(Tests) + 3
        /\ \A k \in 1..Len(Tests) :
             results[r][k + 2].name = Tests[k] /\ results[r][k + 2].state # "None"

\* Where each run stands, for those who asked for it.
Stage ==
    [r \in Run |->
        CASE pc[r] = "idle" -> "unasked"
          [] pc[r] = "refused" -> "refused"
          [] pc[r] = "building" -> "preparing"
          [] InProgress(r) -> "turn"
          [] pc[r] = "formatting" -> "over"
          [] OTHER -> "answered"]

Turns == INSTANCE SuiteTurns WITH stage <- Stage, Patient <- CommandLine

\* TEST_ACTIVE and the threads of the web server implement the one turn of the
\* tool: a request is turned away only while another's run is under way, none
\* starts before that has given its turn back, and no answer is written twice.
RunsTakeTurns == Turns!Spec
=============================================================================
