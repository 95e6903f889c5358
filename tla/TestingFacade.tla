--------------------------- MODULE TestingFacade ---------------------------
(***************************************************************************)
(* The question and answer protocol between a controller test suite and    *)
(* the Testing Facade (nmostesting/TestingFacadeUtils.py, ControllerTest,  *)
(* nmos-testing-facade.py, testingfacade/DataStore.py).                    *)
(*                                                                         *)
(* The suite's thread asks one question after another.  The facade keeps   *)
(* the last question it was sent in one DataStore and renders it in        *)
(* browser tabs; a tab posts its answer back, and receive_answer puts it   *)
(* on one queue of the process, which is never emptied between questions   *)
(* or runs.  The thread takes one answer per question.                     *)
(*                                                                         *)
(* An ask is one sending of one question; asks are numbered from 1 in the  *)
(* order they are made.  Ask 0 stands for the cleared DataStore.           *)
(***************************************************************************)
EXTENDS Naturals, Sequences, FiniteSets

CONSTANTS
    QuestionId,      \* the question_id strings a suite uses
    NoId,            \* JSON null in the place of a question_id
    Script,          \* the tests of a run, each the sequence of its question ids
    TimeoutEnabled,  \* CONTROLLER_TESTING_TIMEOUT is a number, not None
    PagesExpire,     \* the facade stops a page when its countdown ends
    MaxRuns,         \* bound: runs of the suite
    MaxTabs,         \* bound: answer pages open at one time
    MaxQueue         \* bound: answers waiting in the queue

ASSUME TestingFacadeAssumption ==
    /\ NoId \notin QuestionId
    /\ Script \in Seq(Seq(QuestionId))
    /\ Len(Script) > 0
    /\ \A t \in 1..Len(Script) : Len(Script[t]) > 0
    /\ TimeoutEnabled \in BOOLEAN /\ PagesExpire \in BOOLEAN
    /\ MaxRuns \in Nat /\ MaxTabs \in Nat /\ MaxQueue \in Nat

VARIABLES
    run,        \* runs started
    test, part, \* the position in Script of the question being asked
    pc,         \* what the suite's thread is doing
    asks,       \* every ask made: its id, how it ended, the ask its answer was given to
    facade,     \* the ask in the DataStore
    rendering,  \* the asks whose text and times a GET has read, before it reads the id
    tabs,       \* the pages a user can submit: the ask shown, the ask whose time
                \* is counted down, the ask whose id is sent
    queue       \* _answer_response_queue

suiteVars == <<run, test, part, pc, asks>>
userVars == <<rendering, tabs>>
vars == <<run, test, part, pc, asks, facade, rendering, tabs, queue>>

NoAsk == 0
Result == {"open", "accepted", "rejected", "timedout", "unsent", "crashed"}
Ask == [id : QuestionId, result : Result, by : Nat]
NoPage == [shown |-> NoAsk, timed |-> NoAsk]
Answer == [question_id : QuestionId \cup {NoId}, shown : Nat]
Last == Len(asks)

TypeOK ==
    /\ run \in 0..MaxRuns
    /\ test \in 1..Len(Script)
    /\ part \in 1..Len(Script[test])
    /\ pc \in {"idle", "asking", "waiting", "finished"}
    /\ asks \in Seq(Ask)
    /\ facade \in 0..Last
    /\ rendering \in [shown : 0..Last, timed : 0..Last]
    /\ tabs \in SUBSET [shown : 1..Last, timed : 0..Last, of : 0..Last]
    /\ queue \in Seq(Answer)
    /\ Len(queue) <= MaxQueue
    /\ pc = "waiting" => Last > 0

Init ==
    /\ run = 0 /\ test = 1 /\ part = 1 /\ pc = "idle"
    /\ asks = <<>>
    /\ facade = NoAsk /\ rendering = NoPage /\ tabs = {}
    /\ queue = <<>>

-----------------------------------------------------------------------------
(* The suite's thread.                                                      *)

\* question_id: the test's name, with the part's number after the first part.
CurrentId == Script[test][part]

\* The pre and post tests messages are asked outside execute_test, which is
\* what turns an unexpected exception into the result of one test.
Guarded == test # 1 /\ test # Len(Script)

\* Fault: an off-by-one at the end of the list of tests.
NextTestFault ==
    IF test <= Len(Script)
    THEN test' = test + 1 /\ part' = 1 /\ pc' = "asking"
    ELSE UNCHANGED <<test, part>> /\ pc' = "finished"

\* A test has returned or raised: execute_tests goes on to the next one.
NextTest ==
    IF test < Len(Script)
    THEN test' = test + 1 /\ part' = 1 /\ pc' = "asking"
    ELSE UNCHANGED <<test, part>> /\ pc' = "finished"

\* The test goes on to its next question.
NextPart ==
    /\ part < Len(Script[test])
    /\ part' = part + 1 /\ pc' = "asking" /\ UNCHANGED test

Settle(result, by) ==
    asks' = [asks EXCEPT ![Last] = [id |-> @.id, result |-> result, by |-> by]]

NewAsk(result) == Append(asks, [id |-> CurrentId, result |-> result, by |-> NoAsk])

StartRun ==
    /\ pc = "idle" /\ run < MaxRuns
    /\ run' = run + 1 /\ test' = 1 /\ part' = 1 /\ pc' = "asking"
    /\ UNCHANGED <<asks, facade, queue, userVars>>

\* The POST of the question is answered with 202.
SendQuestion ==
    /\ pc = "asking"
    /\ asks' = NewAsk("open") /\ facade' = Last + 1
    /\ pc' = "waiting"
    /\ UNCHANGED <<run, test, part, queue, userVars>>

\* Fault: the failure of the POST is not raised, and the thread waits.
SendFailsFault ==
    /\ pc = "asking"
    /\ asks' = NewAsk("unsent") /\ facade' \in {facade, Last + 1}
    /\ pc' = "waiting"
    /\ UNCHANGED <<run, test, part, queue, userVars>>

\* The POST fails, or its response is lost after the facade has stored the
\* question: TestingFacadeException "Problem contacting Testing Facade".
SendFails ==
    /\ pc = "asking"
    /\ asks' = NewAsk("unsent") /\ facade' \in {facade, Last + 1}
    /\ NextTest
    /\ UNCHANGED <<run, queue, userVars>>

\* Fault: the answer is looked at but stays in the queue.
TakeAnswerFault == UNCHANGED queue

\* wait_for_testing_facade takes the oldest answer in the queue.
TakeAnswer == queue' = Tail(queue)

AcceptAnswer ==
    /\ pc = "waiting" /\ queue # <<>>
    /\ Head(queue).question_id = CurrentId
    /\ TakeAnswer
    /\ Settle("accepted", Head(queue).shown)
    /\ NextPart \/ NextTest
    /\ UNCHANGED <<run, facade, userVars>>

\* "Integrity check failed": the answer names another question.
RejectAnswer ==
    /\ pc = "waiting" /\ queue # <<>>
    /\ Head(queue).question_id \in QuestionId \ {CurrentId}
    /\ TakeAnswer
    /\ Settle("rejected", Head(queue).shown)
    /\ NextTest
    /\ UNCHANGED <<run, facade, userVars>>

\* A null question_id: building the message of the exception calls json.dump
\* with one argument, so that a TypeError leaves wait_for_testing_facade.
\* Outside execute_test it ends the run, without tear_down_tests.
CrashOnNullId ==
    /\ pc = "waiting" /\ queue # <<>>
    /\ Head(queue).question_id = NoId
    /\ TakeAnswer
    /\ Settle("crashed", Head(queue).shown)
    /\ IF Guarded THEN NextTest ELSE pc' = "idle" /\ UNCHANGED <<test, part>>
    /\ UNCHANGED <<run, facade, userVars>>

\* Fault: the timer wins over an answer that is already in the queue.
TimeOutLateFault ==
    /\ pc = "waiting"
    /\ TimeoutEnabled
    /\ Settle("timedout", NoAsk)
    /\ NextTest
    /\ UNCHANGED <<run, facade, queue, userVars>>

\* asyncio.wait_for ends with nothing in the queue: "Test timed out".
TimeOut ==
    /\ pc = "waiting" /\ queue = <<>>
    /\ TimeoutEnabled
    /\ Settle("timedout", NoAsk)
    /\ NextTest
    /\ UNCHANGED <<run, facade, queue, userVars>>

\* tear_down_tests posts {"clear": "True"} and does not look at the response.
TearDown ==
    /\ pc = "finished"
    /\ facade' \in {NoAsk, facade}
    /\ pc' = "idle"
    /\ UNCHANGED <<run, test, part, asks, queue, userVars>>

-----------------------------------------------------------------------------
(* The facade's pages and their user.                                       *)

\* GET / has read the question's text from the DataStore ...
BeginPage ==
    /\ facade # NoAsk /\ rendering = NoPage
    /\ Cardinality(tabs) < MaxTabs
    /\ rendering' = [shown |-> facade, timed |-> facade]
    /\ UNCHANGED <<suiteVars, facade, tabs, queue>>

\* ... reads its time_received and timeout, from which the page counts down,
\* perhaps when another question has come or the DataStore was cleared ...
ReadTimes ==
    /\ rendering.shown # NoAsk
    /\ rendering.timed = rendering.shown /\ rendering.timed # facade
    /\ rendering' = [rendering EXCEPT !.timed = facade]
    /\ UNCHANGED <<suiteVars, facade, tabs, queue>>

\* ... and then reads all its fields again into the form's hidden all_data.
EndPage ==
    /\ rendering.shown # NoAsk
    /\ tabs' = tabs \cup
         {[shown |-> rendering.shown, timed |-> rendering.timed, of |-> facade]}
    /\ rendering' = NoPage
    /\ UNCHANGED <<suiteVars, facade, queue>>

\* A GET that no POST to the facade interrupts.
WholePage ==
    /\ facade # NoAsk
    /\ Cardinality(tabs) < MaxTabs
    /\ tabs' = tabs \cup {[shown |-> facade, timed |-> facade, of |-> facade]}
    /\ UNCHANGED <<suiteVars, facade, rendering, queue>>

\* The 'update' event reloads a tab, or its user closes it.
LeavePage(tab) ==
    /\ tab \in tabs
    /\ tabs' = tabs \ {tab}
    /\ UNCHANGED <<suiteVars, facade, rendering, queue>>

\* The button is disabled when the countdown that was rendered has ended.
Expired(a) == PagesExpire /\ a # NoAsk /\ asks[a].result = "timedout"

IdOf(a) == IF a = NoAsk THEN NoId ELSE asks[a].id

\* The form is posted, which disables its button; the facade posts the answer
\* to answer_uri, where receive_answer queues it whatever question it is for.
SubmitAnswer(tab) ==
    /\ tab \in tabs /\ Len(queue) < MaxQueue
    /\ ~Expired(tab.timed)
    /\ queue' = Append(queue, [question_id |-> IdOf(tab.of), shown |-> tab.shown])
    /\ tabs' = tabs \ {tab}
    /\ UNCHANGED <<suiteVars, facade, rendering>>

-----------------------------------------------------------------------------

Suite ==
    \/ SendQuestion
    \/ SendFails
    \/ AcceptAnswer
    \/ RejectAnswer
    \/ CrashOnNullId
    \/ TimeOut
    \/ TearDown

Pages == BeginPage \/ ReadTimes \/ EndPage \/ \E tab \in tabs : LeavePage(tab)

Next ==
    \/ StartRun
    \/ Suite
    \/ Pages
    \/ \E tab \in tabs : SubmitAnswer(tab)

Spec == Init /\ [][Next]_vars

\* A prompt user answers the question being asked, from a page that shows it,
\* and answers it once.
Prompt(tab) == pc = "waiting" /\ queue = <<>> /\ tab.shown = Last

PromptAnswer == \E tab \in tabs : Prompt(tab) /\ SubmitAnswer(tab)

NextPrompt ==
    \/ StartRun
    \/ Suite
    \/ Pages
    \/ PromptAnswer

SpecPrompt == Init /\ [][NextPrompt]_vars

\* Pages that show one question, count down its time and carry its id.
NextWhole ==
    \/ StartRun
    \/ Suite
    \/ WholePage
    \/ \E tab \in tabs : LeavePage(tab) \/ SubmitAnswer(tab)

SpecWhole == Init /\ [][NextWhole]_vars

\* The thread of a run goes on: where there is a timeout, its timer fires.
SpecFair == Spec /\ WF_vars(Suite)

\* Without a timeout only its user moves a question on.  Pages are rendered,
\* the 'update' event reloads the tabs of earlier questions, and a user who
\* again and again has a tab of the current question submits it.
SpecAttended ==
    /\ SpecFair
    /\ WF_vars(BeginPage) /\ WF_vars(EndPage)
    /\ WF_vars(\E tab \in tabs : tab.shown < Last /\ LeavePage(tab))
    /\ SF_vars(PromptAnswer)

-----------------------------------------------------------------------------
(* What the protocol promises.                                              *)

\* A question is accepted with an answer that was given to this asking of it:
\* wait_for_testing_facade compares question_id strings, and the same string
\* is sent again by every run of the suite.
AcceptedAnswerIsForThisAsking ==
    \A a \in 1..Last : asks[a].result = "accepted" => asks[a].by = a

\* No question fails on the integrity check of its answer: every exception of
\* wait_for_testing_facade other than the timeout means that the queue and the
\* questions have come apart.
NoIntegrityFailure ==
    \A a \in 1..Last : asks[a].result \notin {"rejected", "crashed"}

\* Every run ends: the suite's thread never waits for an answer that a user, who
\* keeps answering the question that is asked, cannot give.
EveryRunEnds == (pc # "idle") ~> (pc = "idle")

\* The questions that are over, and the one that is not.
Over == IF pc = "waiting" THEN Last - 1 ELSE Last
Outcomes == [a \in 1..Over |-> asks[a].result]
Question == IF pc # "waiting" THEN "none" ELSE IF queue = <<>> THEN "open" ELSE "replied"

Conversation ==
    INSTANCE Dialogue WITH Timed <- TimeoutEnabled, outcomes <- Outcomes, question <- Question

\* The queue, the DataStore, its pages and the timer carry one conversation
\* between the suite and a prompt user: what is accepted was replied to while
\* it was open, what timed out was not, and no question is settled twice.
CarriesTheDialogue == Conversation!Spec
=============================================================================
