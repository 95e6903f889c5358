-------------------------- MODULE TestRunner_proofs --------------------------
(***************************************************************************)
(* Theorems about TestRunner, for every set of runs and every list of      *)
(* tests: TEST_ACTIVE cannot be left behind, whatever races and fails,     *)
(* requests that are far enough apart never run two suites at one time,    *)
(* and no report that is made lacks a test.                                *)
(***************************************************************************)
EXTENDS TestRunner, TLAPS

USE DEF InProgress

\* The part of TypeOK that the theorems need.
PCType == pc \in [Run -> PC]

NeverStuckInv == PCType /\ NeverStuck

\* Every step moves one run at most, and sets or clears TEST_ACTIVE only with
\* that run's own coming and going.
LEMMA StepKeepsNeverStuck ==
    ASSUME NeverStuckInv, [Next]_vars
    PROVE  NeverStuckInv'
<1> USE DEF NeverStuckInv, PCType, NeverStuck, PC
<1>1. CASE UNCHANGED vars
  BY <1>1 DEF vars
<1>2. ASSUME NEW r \in Run, Request(r)
      PROVE  NeverStuckInv'
  BY <1>2 DEF Request, Goto, Refused
<1>3. ASSUME NEW r \in Run, BuildFails(r)
      PROVE  NeverStuckInv'
  BY <1>3 DEF BuildFails, Goto
<1>4. ASSUME NEW r \in Run, Activate(r)
      PROVE  NeverStuckInv'
  BY <1>4 DEF Activate, Goto
<1>5. ASSUME NEW r \in Run, SetUp(r) \/ SetUpFails(r)
      PROVE  NeverStuckInv'
  BY <1>5 DEF SetUp, SetUpFails, Goto
<1>6. ASSUME NEW r \in Run, NEW state \in State \ {"NA"}, ExecuteTest(r, state)
      PROVE  NeverStuckInv'
  BY <1>6 DEF ExecuteTest
<1>7. ASSUME NEW r \in Run, Abort(r) \/ TearDown(r) \/ TearDownFails(r)
      PROVE  NeverStuckInv'
  BY <1>7 DEF Abort, TearDown, TearDownFails, Goto
<1>8. ASSUME NEW r \in Run, Finish(r)
      PROVE  NeverStuckInv'
  BY <1>8 DEF Finish, Goto
<1>9. ASSUME NEW r \in Run, Report(r)
      PROVE  NeverStuckInv'
  BY <1>9 DEF Report, Goto
<1> QED
  BY <1>1, <1>2, <1>3, <1>4, <1>5, <1>6, <1>7, <1>8, <1>9 DEF Next, Step

\* TEST_ACTIVE is set only while a run is there to clear it, although requests
\* may overlap in any way: no failure leaves the tool refusing every request.
THEOREM FlagIsNeverLeftBehind == Spec => []NeverStuck
<1>1. Init => NeverStuckInv
  BY DEF Init, NeverStuckInv, PCType, NeverStuck, PC
<1>2. NeverStuckInv /\ [Next]_vars => NeverStuckInv'
  BY StepKeepsNeverStuck
<1>3. NeverStuckInv => NeverStuck
  BY DEF NeverStuckInv
<1> QED
  BY <1>1, <1>2, <1>3, PTL DEF Spec

-----------------------------------------------------------------------------

Building(r) == pc[r] = "building"

\* Nobody is building while another is building or in progress, and TEST_ACTIVE
\* is set for whoever is in progress.
SpacedInv ==
    /\ PCType
    /\ OneRunAtATime
    /\ \A r \in Run : InProgress(r) => active
    /\ \A r, s \in Run : Building(r) /\ (Building(s) \/ InProgress(s)) => r = s
    /\ \A r \in Run : pc[r] = "executing" => token = r /\ services = r

LEMMA StepKeepsSpacedInv ==
    ASSUME SpacedInv, [NextSpaced]_vars
    PROVE  SpacedInv'
<1> USE DEF SpacedInv, PCType, OneRunAtATime, Building, PC
<1>1. CASE UNCHANGED vars
  BY <1>1 DEF vars
<1>2. ASSUME NEW r \in Run, Spaced(r), Request(r)
      PROVE  SpacedInv'
  BY <1>2 DEF Spaced, Request, Goto, Refused
<1>3. ASSUME NEW r \in Run, BuildFails(r)
      PROVE  SpacedInv'
  BY <1>3 DEF BuildFails, Goto
<1>4. ASSUME NEW r \in Run, Activate(r)
      PROVE  SpacedInv'
  BY <1>4 DEF Activate, Goto
<1>5. ASSUME NEW r \in Run, SetUp(r)
      PROVE  SpacedInv'
  BY <1>5 DEF SetUp, NewToken, Goto
<1>6. ASSUME NEW r \in Run, SetUpFails(r)
      PROVE  SpacedInv'
  BY <1>6 DEF SetUpFails, NewToken, Goto
<1>7. ASSUME NEW r \in Run, NEW state \in State \ {"NA"}, ExecuteTest(r, state)
      PROVE  SpacedInv'
  BY <1>7 DEF ExecuteTest
<1>8. ASSUME NEW r \in Run, Abort(r)
      PROVE  SpacedInv'
  BY <1>8 DEF Abort, Goto
<1>9. ASSUME NEW r \in Run, TearDown(r) \/ TearDownFails(r)
      PROVE  SpacedInv'
  BY <1>9 DEF TearDown, TearDownFails, Goto
<1>10. ASSUME NEW r \in Run, Finish(r)
       PROVE  SpacedInv'
  BY <1>10 DEF Finish, Goto
<1>11. ASSUME NEW r \in Run, Report(r)
       PROVE  SpacedInv'
  BY <1>11 DEF Report, Goto
<1> QED
  BY <1>1, <1>2, <1>3, <1>4, <1>5, <1>6, <1>7, <1>8, <1>9, <1>10, <1>11
  DEF NextSpaced, Step

\* Requests that do not fall into the window between the check of TEST_ACTIVE
\* and the setting of it run one at a time, each with its own token and mock
\* services, whatever the runs before them have left behind.
THEOREM SpacedRunsAreExclusive ==
    SpecSpaced => [](OneRunAtATime /\ RunKeepsItsServices)
<1>1. Init => SpacedInv
  BY DEF Init, SpacedInv, PCType, OneRunAtATime, Building, PC
<1>2. SpacedInv /\ [NextSpaced]_vars => SpacedInv'
  BY StepKeepsSpacedInv
<1>3. SpacedInv => OneRunAtATime /\ RunKeepsItsServices
  BY DEF SpacedInv, RunKeepsItsServices
<1> QED
  BY <1>1, <1>2, <1>3, PTL DEF SpecSpaced

\* The same, of the services alone: no run's tests see another's registry or token.
THEOREM SpacedRunsKeepTheirServices == SpecSpaced => []RunKeepsItsServices
  BY SpacedRunsAreExclusive, PTL

-----------------------------------------------------------------------------

\* Where a run stands follows from where its thread is, and only a run that is
\* in progress has the turn.
LEMMA StageOfRun ==
    ASSUME PCType, NEW r \in Run
    PROVE  /\ InProgress(r) <=> Stage[r] = "turn"
           /\ pc[r] = "idle" <=> Stage[r] = "unasked"
           /\ pc[r] = "building" <=> Stage[r] = "preparing"
           /\ pc[r] = "formatting" <=> Stage[r] = "over"
           /\ pc[r] = "refused" <=> Stage[r] = "refused"
           /\ pc[r] \in {"reported", "failed"} <=> Stage[r] = "answered"
  BY DEF PCType, PC, Stage

\* A step of one run's thread moves no other run.
LEMMA OneStageMoves ==
    ASSUME PCType, PCType', NEW r \in Run, NEW to \in PC, Goto(r, to)
    PROVE  Stage' = [Stage EXCEPT ![r] = Stage'[r]]
<1>1. \A s \in Run : s # r => pc'[s] = pc[s]
  BY DEF PCType, Goto
<1>2. \A s \in Run : s # r => Stage'[s] = Stage[s]
  BY <1>1 DEF Stage
<1> QED
  BY <1>2 DEF Stage

\* A run's step from one stage to another is that move in SuiteTurns.
LEMMA MoveOfRun ==
    ASSUME PCType, PCType', NEW r \in Run, NEW to \in PC, Goto(r, to)
    PROVE  Turns!Move(r, Stage[r], Stage'[r])
  BY OneStageMoves DEF Turns!Move

LEMMA StepTakesTurns ==
    ASSUME SpacedInv, SpacedInv', [NextSpaced]_vars, NeverStuck
    PROVE  [Turns!Next]_(Turns!turnVars)
<1> USE DEF SpacedInv, Turns!turnVars
<1>1. CASE UNCHANGED vars
  BY <1>1 DEF vars, Stage
<1>2. ASSUME NEW r \in Run, Spaced(r), Request(r)
      PROVE  Turns!Next
  <2>1. CASE Refused(r)
    <3>1. Stage[r] = "unasked" /\ Stage'[r] = "refused"
      BY <1>2, <2>1 DEF Request, Goto, PCType, Stage
    <3>2. Turns!Taken
      BY <2>1, StageOfRun DEF Refused, NeverStuck, Turns!Taken, Turns!HasTurn
    <3>3. Turns!Move(r, "unasked", "refused")
      BY <1>2, <2>1, <3>1, MoveOfRun DEF Request, PC
    <3> QED
      BY <2>1, <3>2, <3>3 DEF Refused, Turns!Refuse, Turns!Next
  <2>2. CASE ~Refused(r)
    <3>1. Stage[r] = "unasked" /\ Stage'[r] = "preparing"
      BY <1>2, <2>2 DEF Request, Goto, PCType, Stage
    <3>2. ~Turns!Taken
      BY <1>2, <2>2, StageOfRun DEF Refused, Spaced, Turns!Taken, Turns!HasTurn
    <3>3. Turns!Move(r, "unasked", "preparing")
      BY <1>2, <2>2, <3>1, MoveOfRun DEF Request, PC
    <3> QED
      BY <3>2, <3>3 DEF Turns!Prepare, Turns!Next
  <2> QED
    BY <2>1, <2>2
<1>3. ASSUME NEW r \in Run, BuildFails(r)
      PROVE  Turns!Next
  <2>1. Stage[r] = "preparing" /\ Stage'[r] = "answered"
    BY <1>3 DEF BuildFails, Goto, PCType, Stage
  <2>2. Turns!Move(r, "preparing", "answered")
    BY <1>3, <2>1, MoveOfRun DEF BuildFails, PC
  <2> QED
    BY <2>2 DEF Turns!Answer, Turns!Next
<1>4. ASSUME NEW r \in Run, Activate(r)
      PROVE  Turns!Next
  <2>1. Stage[r] = "preparing" /\ Stage'[r] = "turn"
    BY <1>4 DEF Activate, Goto, PCType, Stage
  <2>2. ~Turns!Taken
    BY <1>4, StageOfRun DEF Activate, Building, Turns!Taken, Turns!HasTurn
  <2>3. Turns!Move(r, "preparing", "turn")
    BY <1>4, <2>1, MoveOfRun DEF Activate, PC
  <2> QED
    BY <2>2, <2>3 DEF Turns!TakeTurn, Turns!Next
<1>5. ASSUME NEW r \in Run, SetUp(r) \/ SetUpFails(r) \/ Abort(r)
                              \/ TearDown(r) \/ TearDownFails(r)
      PROVE  UNCHANGED Stage
  <2>1. /\ pc[r] \in {"starting", "executing"}
        /\ \E to \in {"executing", "finishing", "failing"} : Goto(r, to)
    BY <1>5 DEF SetUp, SetUpFails, Abort, TearDown, TearDownFails
  <2>2. PICK to \in {"executing", "finishing", "failing"} : Goto(r, to)
    BY <2>1
  <2>3. Stage' = [Stage EXCEPT ![r] = Stage'[r]]
    BY <2>2, OneStageMoves DEF PC
  <2>4. Stage[r] = "turn" /\ Stage'[r] = "turn"
    BY <2>1, <2>2 DEF Goto, PCType, Stage
  <2> QED
    BY <2>3, <2>4 DEF Stage
<1>6. ASSUME NEW r \in Run, NEW state \in State \ {"NA"}, ExecuteTest(r, state)
      PROVE  UNCHANGED Stage
  BY <1>6 DEF ExecuteTest, Stage
<1>7. ASSUME NEW r \in Run, Finish(r)
      PROVE  Turns!Next
  <2>1. Stage[r] = "turn" /\ Stage'[r] \in {"over", "answered"}
    BY <1>7 DEF Finish, Goto, PCType, Stage
  <2>2. Turns!Move(r, "turn", Stage'[r])
    BY <1>7, <2>1, MoveOfRun DEF Finish, PC
  <2> QED
    BY <2>1, <2>2 DEF Turns!GiveBack, Turns!Answer, Turns!Next
<1>8. ASSUME NEW r \in Run, Report(r)
      PROVE  Turns!Next
  <2>1. Stage[r] = "over" /\ Stage'[r] = "answered"
    BY <1>8 DEF Report, Goto, PCType, Stage
  <2>2. Turns!Move(r, "over", "answered")
    BY <1>8, <2>1, MoveOfRun DEF Report, PC
  <2> QED
    BY <2>2 DEF Turns!Answer, Turns!Next
<1> QED
  BY <1>1, <1>2, <1>3, <1>4, <1>5, <1>6, <1>7, <1>8 DEF NextSpaced, Step

\* The tool's flag and threads implement the one turn of SuiteTurns, for every
\* set of runs, as long as their requests are spaced.
THEOREM RunnerImplementsTurns == SpecSpaced => RunsTakeTurns
<1>1. Init => SpacedInv /\ NeverStuckInv
  BY DEF Init, SpacedInv, NeverStuckInv, NeverStuck, PCType, OneRunAtATime, Building, PC
<1>2. SpacedInv /\ [NextSpaced]_vars => SpacedInv'
  BY StepKeepsSpacedInv
<1>3. [NextSpaced]_vars => [Next]_vars
  BY DEF NextSpaced, Next
<1>4. NeverStuckInv /\ [NextSpaced]_vars => NeverStuckInv'
  BY <1>3, StepKeepsNeverStuck
<1>5. Init => Turns!Init
  BY DEF Init, Turns!Init, Stage
<1>6. SpacedInv /\ SpacedInv' /\ NeverStuckInv /\ [NextSpaced]_vars =>
        [Turns!Next]_(Turns!turnVars)
  BY StepTakesTurns DEF NeverStuckInv
<1> QED
  BY <1>1, <1>2, <1>4, <1>5, <1>6, PTL DEF SpecSpaced, RunsTakeTurns, Turns!Spec

-----------------------------------------------------------------------------

\* What Append does to one run's results.
LEMMA RecordAppends ==
    ASSUME TypeOK, NEW r \in Run, NEW name \in Name, NEW state \in State,
           Record(r, name, state)
    PROVE  /\ results' \in [Run -> Seq(TestResult)]
           /\ \A s \in Run : s # r => results'[s] = results[s]
           /\ Len(results'[r]) = Len(results[r]) + 1
           /\ \A k \in 1..Len(results[r]) : results'[r][k] = results[r][k]
           /\ results'[r][Len(results[r]) + 1] = [name |-> name, state |-> state]
<1> DEFINE new == [name |-> name, state |-> state]
<1>1. new \in TestResult
  BY DEF TestResult
<1>2. results[r] \in Seq(TestResult)
  BY DEF TypeOK
<1>3. results' = [results EXCEPT ![r] = Append(@, new)]
  BY DEF Record
<1> HIDE DEF new
<1>4. /\ Append(results[r], new) \in Seq(TestResult)
      /\ Len(Append(results[r], new)) = Len(results[r]) + 1
      /\ \A k \in 1..Len(results[r]) : Append(results[r], new)[k] = results[r][k]
      /\ Append(results[r], new)[Len(results[r]) + 1] = new
  BY <1>1, <1>2
<1>5. results'[r] = Append(results[r], new)
  BY <1>3 DEF TypeOK
<1>6. results' \in [Run -> Seq(TestResult)]
  BY <1>3, <1>4 DEF TypeOK
<1>7. \A s \in Run : s # r => results'[s] = results[s]
  BY <1>3 DEF TypeOK
<1> QED
  BY <1>4, <1>5, <1>6, <1>7 DEF new

\* The first n tests are in the results, in their places after the two results
\* of initialisation and set up.
Covers(r, n) == \A k \in 1..n : results[r][k + 2].name = Tests[k]

\* How much of the report is there, for each place where a run can be.
Recorded(r) ==
    /\ pc[r] \in {"idle", "building"} => Len(results[r]) = 0
    /\ pc[r] = "starting" => Len(results[r]) = 1
    /\ pc[r] = "executing" => /\ Executed(r) \in 0..Len(Tests)
                              /\ Covers(r, Executed(r))
    /\ pc[r] \in {"finishing", "formatting", "reported"} =>
          Len(results[r]) = Len(Tests) + 3 /\ Covers(r, Len(Tests))
    /\ pc[r] = "reported" => Reportable(r)

ReportInv == TypeOK /\ \A r \in Run : Recorded(r)

\* Tests is a sequence: its length is a number.
LEMMA TestsAreASequence == Len(Tests) \in Nat
  BY TestRunnerAssumption

\* What a run's own step does not touch stays as it was.
LEMMA OtherRunsKeepTheirRecords ==
    ASSUME ReportInv, NEW r \in Run,
           \A s \in Run : s # r => pc'[s] = pc[s] /\ results'[s] = results[s]
    PROVE  \A s \in Run : s # r => Recorded(s)'
  BY DEF ReportInv, Recorded, Covers, Executed, Reportable

LEMMA GotoMovesOneRun ==
    ASSUME TypeOK, NEW r \in Run, NEW to \in PC, Goto(r, to)
    PROVE  /\ pc' \in [Run -> PC] /\ pc'[r] = to
           /\ \A s \in Run : s # r => pc'[s] = pc[s]
  BY DEF TypeOK, Goto

\* Steps that record nothing leave the report as long as it was, and only one
\* with no result missing is reported.
LEMMA SilentStepKeepsReportInv ==
    ASSUME ReportInv, NEW r \in Run,
           \/ Request(r) \/ BuildFails(r) \/ SetUpFails(r) \/ Abort(r)
           \/ TearDownFails(r) \/ Finish(r) \/ Report(r)
    PROVE  ReportInv'
<1>1. /\ UNCHANGED results
      /\ active' \in BOOLEAN /\ token' \in Run \cup {NoRun} /\ services' \in Run \cup {NoRun}
  BY DEF ReportInv, TypeOK, Request, BuildFails, SetUpFails, Abort, TearDownFails, Finish,
         Report, NewToken
<1>2. \E to \in PC :
        /\ Goto(r, to)
        /\ \/ to \in {"refused", "failed", "failing"}
           \/ to = "building" /\ pc[r] = "idle"
           \/ to = "formatting" /\ pc[r] = "finishing"
           \/ to = "reported" /\ pc[r] = "formatting" /\ Reportable(r)
  BY DEF Request, BuildFails, SetUpFails, Abort, TearDownFails, Finish, Report, PC
<1>3. PICK to \in PC :
        /\ Goto(r, to)
        /\ \/ to \in {"refused", "failed", "failing"}
           \/ to = "building" /\ pc[r] = "idle"
           \/ to = "formatting" /\ pc[r] = "finishing"
           \/ to = "reported" /\ pc[r] = "formatting" /\ Reportable(r)
  BY <1>2
<1>4. /\ pc' \in [Run -> PC] /\ pc'[r] = to
      /\ \A s \in Run : s # r => pc'[s] = pc[s]
  BY <1>3, GotoMovesOneRun DEF ReportInv
<1>5. Recorded(r)'
  BY <1>1, <1>3, <1>4 DEF ReportInv, Recorded, Covers, Executed, Reportable
<1>6. \A s \in Run : s # r => Recorded(s)'
  BY <1>1, <1>4, OtherRunsKeepTheirRecords
<1> QED
  BY <1>1, <1>4, <1>5, <1>6 DEF ReportInv, TypeOK

\* Each step that records adds the one result that belongs there.
LEMMA ActivateKeepsReportInv ==
    ASSUME ReportInv, NEW r \in Run, Activate(r)
    PROVE  ReportInv'
<1>1. TypeOK /\ Recorded(r) /\ results[r] \in Seq(TestResult)
  BY DEF ReportInv, TypeOK
<1>2. Record(r, "initialisation", "NA") /\ Goto(r, "starting") /\ pc[r] = "building"
  BY DEF Activate
<1>3. "initialisation" \in Name
  BY DEF Name
<1>4. "NA" \in State
  BY DEF State
<1>5. /\ results' \in [Run -> Seq(TestResult)] /\ Len(results'[r]) = Len(results[r]) + 1
      /\ \A s \in Run : s # r => results'[s] = results[s]
  BY <1>1, <1>2, <1>3, <1>4, RecordAppends
<1>6. /\ pc' \in [Run -> PC] /\ pc'[r] = "starting"
      /\ \A s \in Run : s # r => pc'[s] = pc[s]
  BY <1>1, <1>2, GotoMovesOneRun DEF PC
<1>7. Recorded(r)'
  BY <1>1, <1>2, <1>5, <1>6 DEF Recorded
<1>8. \A s \in Run : s # r => Recorded(s)'
  BY <1>5, <1>6, OtherRunsKeepTheirRecords
<1>9. TypeOK'
  BY <1>1, <1>5, <1>6 DEF Activate, TypeOK
<1> QED
  BY <1>7, <1>8, <1>9 DEF ReportInv

LEMMA SetUpKeepsReportInv ==
    ASSUME ReportInv, NEW r \in Run, SetUp(r)
    PROVE  ReportInv'
<1>1. TypeOK /\ Recorded(r) /\ results[r] \in Seq(TestResult)
  BY DEF ReportInv, TypeOK
<1>2. Record(r, "set_up_tests", "NA") /\ Goto(r, "executing") /\ pc[r] = "starting"
  BY DEF SetUp
<1>3. "set_up_tests" \in Name
  BY DEF Name
<1>4. "NA" \in State
  BY DEF State
<1>5. /\ results' \in [Run -> Seq(TestResult)] /\ Len(results'[r]) = Len(results[r]) + 1
      /\ \A s \in Run : s # r => results'[s] = results[s]
  BY <1>1, <1>2, <1>3, <1>4, RecordAppends
<1>6. /\ pc' \in [Run -> PC] /\ pc'[r] = "executing"
      /\ \A s \in Run : s # r => pc'[s] = pc[s]
  BY <1>1, <1>2, GotoMovesOneRun DEF PC
<1>7. Recorded(r)'
  <2>1. Len(results'[r]) = 2
    <3>1. Len(results[r]) = 1
      BY <1>1, <1>2 DEF Recorded
    <3> QED
      BY <1>5, <3>1
  <2>2. Executed(r)' = 0
    BY <2>1 DEF Executed
  <2>3. Covers(r, 0)'
    BY DEF Covers
  <2> QED
    BY <1>6, <2>2, <2>3, TestsAreASequence DEF Recorded
<1>8. \A s \in Run : s # r => Recorded(s)'
  BY <1>5, <1>6, OtherRunsKeepTheirRecords
<1>9. TypeOK'
  BY <1>1, <1>5, <1>6 DEF SetUp, NewToken, TypeOK
<1> QED
  BY <1>7, <1>8, <1>9 DEF ReportInv

LEMMA TestKeepsReportInv ==
    ASSUME ReportInv, NEW r \in Run, NEW state \in State \ {"NA"}, ExecuteTest(r, state)
    PROVE  ReportInv'
<1>1. TypeOK /\ Recorded(r) /\ results[r] \in Seq(TestResult)
  BY DEF ReportInv, TypeOK
<1>2. Executed(r) + 1 \in Int
  BY <1>1 DEF Executed
<1>3. PICK n \in Int : n = Executed(r) + 1
  BY <1>2
<1>4. pc[r] = "executing" /\ UNCHANGED <<pc, active, token, services>> /\ Record(r, Tests[n], state)
  BY <1>3 DEF ExecuteTest
<1>5. n \in 1..Len(Tests) /\ Covers(r, n - 1)
  BY <1>1, <1>3, <1>4, TestsAreASequence DEF ExecuteTest, Recorded
<1>6. Len(results[r]) = n + 1
  BY <1>1, <1>3 DEF Executed
<1>7. Tests[n] \in Name
  BY <1>5 DEF Name
<1>8. /\ results' \in [Run -> Seq(TestResult)] /\ Len(results'[r]) = Len(results[r]) + 1
      /\ \A s \in Run : s # r => results'[s] = results[s]
      /\ \A k \in 1..Len(results[r]) : results'[r][k] = results[r][k]
      /\ results'[r][Len(results[r]) + 1] = [name |-> Tests[n], state |-> state]
  BY <1>1, <1>4, <1>7, RecordAppends
<1>9. /\ Len(results'[r]) = n + 2
      /\ \A k \in 1..n + 1 : results'[r][k] = results[r][k]
      /\ results'[r][n + 2].name = Tests[n]
  BY <1>5, <1>6, <1>8
<1>10. Covers(r, n)'
  <2>1. ASSUME NEW k \in 1..n PROVE results'[r][k + 2].name = Tests[k]
    <3>1. CASE k = n
      BY <1>9, <3>1
    <3>2. CASE k # n
      <4>1. k + 2 \in 1..n + 1 /\ k \in 1..n - 1
        BY <1>5, <3>2, TestsAreASequence
      <4> QED
        BY <1>5, <1>9, <4>1 DEF Covers
    <3> QED
      BY <3>1, <3>2
  <2> QED
    BY <2>1 DEF Covers
<1>11. Executed(r)' = n
  BY <1>5, <1>9, TestsAreASequence DEF Executed
<1>12. Recorded(r)'
  BY <1>4, <1>5, <1>10, <1>11 DEF Recorded
<1>13. \A s \in Run : s # r => Recorded(s)'
  BY <1>4, <1>8, OtherRunsKeepTheirRecords
<1>14. TypeOK'
  BY <1>1, <1>4, <1>8 DEF TypeOK
<1> QED
  BY <1>12, <1>13, <1>14 DEF ReportInv

LEMMA TearDownKeepsReportInv ==
    ASSUME ReportInv, NEW r \in Run, TearDown(r)
    PROVE  ReportInv'
<1>1. TypeOK /\ Recorded(r) /\ results[r] \in Seq(TestResult)
  BY DEF ReportInv, TypeOK
<1>2. /\ Record(r, "tear_down_tests", "NA") /\ Goto(r, "finishing")
      /\ pc[r] = "executing" /\ Executed(r) = Len(Tests)
  BY DEF TearDown
<1>3. Covers(r, Len(Tests)) /\ Len(results[r]) = Len(Tests) + 2
  BY <1>1, <1>2, TestsAreASequence DEF Recorded, Executed
<1>4. "tear_down_tests" \in Name
  BY DEF Name
<1>5. "NA" \in State
  BY DEF State
<1>6. /\ results' \in [Run -> Seq(TestResult)] /\ Len(results'[r]) = Len(results[r]) + 1
      /\ \A s \in Run : s # r => results'[s] = results[s]
      /\ \A k \in 1..Len(results[r]) : results'[r][k] = results[r][k]
  BY <1>1, <1>2, <1>4, <1>5, RecordAppends
<1>7. /\ pc' \in [Run -> PC] /\ pc'[r] = "finishing"
      /\ \A s \in Run : s # r => pc'[s] = pc[s]
  BY <1>1, <1>2, GotoMovesOneRun DEF PC
<1>8. Covers(r, Len(Tests))'
  <2>1. ASSUME NEW k \in 1..Len(Tests) PROVE results'[r][k + 2].name = Tests[k]
    <3>1. k + 2 \in 1..Len(results[r])
      BY <1>3, TestsAreASequence
    <3> QED
      BY <1>3, <1>6, <3>1 DEF Covers
  <2> QED
    BY <2>1 DEF Covers
<1>9. Recorded(r)'
  BY <1>3, <1>6, <1>7, <1>8, TestsAreASequence DEF Recorded
<1>10. \A s \in Run : s # r => Recorded(s)'
  BY <1>6, <1>7, OtherRunsKeepTheirRecords
<1>11. TypeOK'
  BY <1>1, <1>6, <1>7 DEF TearDown, TypeOK
<1> QED
  BY <1>9, <1>10, <1>11 DEF ReportInv

\* The type invariant, and how much of its report each run has at each point.
THEOREM ReportsGrowInOrder == Spec => []ReportInv
<1>1. Init => ReportInv
  <2>1. Init => TypeOK
    <3>1. <<>> \in Seq(TestResult)
      OBVIOUS
    <3> QED
      BY <3>1 DEF Init, TypeOK, PC
  <2>2. ASSUME Init, NEW r \in Run
        PROVE  pc[r] = "idle" /\ Len(results[r]) = 0
    BY <2>2 DEF Init
  <2> QED
    BY <2>1, <2>2 DEF ReportInv, Recorded
<1>2. ReportInv /\ [Next]_vars => ReportInv'
  <2> SUFFICES ASSUME ReportInv, [Next]_vars PROVE ReportInv'
    OBVIOUS
  <2>1. CASE UNCHANGED vars
    BY <2>1 DEF vars, ReportInv, TypeOK, Recorded, Covers, Executed, Reportable
  <2>2. ASSUME NEW r \in Run, Request(r) \/ Step(r)
        PROVE  ReportInv'
    BY <2>2, SilentStepKeepsReportInv, ActivateKeepsReportInv, SetUpKeepsReportInv,
       TestKeepsReportInv, TearDownKeepsReportInv DEF Step
  <2> QED
    BY <2>1, <2>2 DEF Next
<1> QED
  BY <1>1, <1>2, PTL DEF Spec

\* Every run stays within its types, however the requests race.
THEOREM RunnerTypes == Spec => []TypeOK
<1>1. ReportInv => TypeOK
  BY DEF ReportInv
<1> QED
  BY <1>1, ReportsGrowInOrder, PTL

\* A run that is reported has a result of every test, in the order in which they
\* ran, whatever raced with it and whatever failed in it.
THEOREM NothingIsMissingFromAReport == Spec => []ReportIsComplete
<1>1. ReportInv => ReportIsComplete
  <2> SUFFICES ASSUME ReportInv, NEW r \in Run, pc[r] = "reported"
               PROVE  /\ Len(results[r]) = Len(Tests) + 3
                      /\ \A k \in 1..Len(Tests) : /\ results[r][k + 2].name = Tests[k]
                                                  /\ results[r][k + 2].state # "None"
    BY DEF ReportIsComplete
  <2>1. Len(results[r]) = Len(Tests) + 3 /\ Covers(r, Len(Tests)) /\ Reportable(r)
    BY DEF ReportInv, Recorded
  <2> QED
    BY <2>1, TestsAreASequence DEF Covers, Reportable
<1> QED
  BY <1>1, ReportsGrowInOrder, PTL
=============================================================================
