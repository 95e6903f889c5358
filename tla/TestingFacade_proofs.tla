----------------------- MODULE TestingFacade_proofs ------------------------
(***************************************************************************)
(* Theorems about TestingFacade, for every script, every number of runs    *)
(* and every bound on the tabs and the queue.                              *)
(***************************************************************************)
EXTENDS TestingFacade, SequenceTheorems, TLAPS

\* While the thread waits, the DataStore holds the question it waits for.
WaitingForShown ==
    pc = "waiting" =>
        /\ Last > 0 /\ facade = Last
        /\ asks[Last].id = CurrentId

\* A page of the question being asked also carries its id: the DataStore can
\* have changed under a page only after the question was over.
TabsOfCurrentAreWhole ==
    pc = "waiting" => \A tab \in tabs : tab.shown = Last => tab.of = Last

\* The queue holds at most the one answer to the question being asked.
QueueHoldsCurrent ==
    queue # <<>> =>
        /\ pc = "waiting"
        /\ Len(queue) = 1
        /\ Head(queue) = [question_id |-> CurrentId, shown |-> Last]

\* The inductive invariant of a prompt user's behaviours.
PromptInv ==
    /\ TypeOK
    /\ WaitingForShown
    /\ TabsOfCurrentAreWhole
    /\ QueueHoldsCurrent
    /\ AcceptedAnswerIsForThisAsking
    /\ NoIntegrityFailure

-----------------------------------------------------------------------------

\* The script's positions are what the index arithmetic of NextTest assumes.
LEMMA ScriptPositions ==
    /\ Len(Script) \in Nat /\ 1 \in 1..Len(Script)
    /\ \A t \in 1..Len(Script) :
         /\ Script[t] \in Seq(QuestionId)
         /\ Len(Script[t]) \in Nat /\ 1 \in 1..Len(Script[t])
         /\ \A p \in 1..Len(Script[t]) : Script[t][p] \in QuestionId
<1>1. Script \in Seq(Seq(QuestionId)) /\ Len(Script) > 0
  BY TestingFacadeAssumption
<1>2. Len(Script) \in Nat /\ 1 \in 1..Len(Script)
  BY <1>1
<1>3. ASSUME NEW t \in 1..Len(Script)
      PROVE  /\ Script[t] \in Seq(QuestionId)
             /\ Len(Script[t]) \in Nat /\ 1 \in 1..Len(Script[t])
             /\ \A p \in 1..Len(Script[t]) : Script[t][p] \in QuestionId
  <2>1. Script[t] \in Seq(QuestionId)
    BY <1>1
  <2>2. Len(Script[t]) > 0
    BY TestingFacadeAssumption
  <2> QED BY <2>1, <2>2
<1> QED BY <1>2, <1>3

\* Settling the last ask keeps the history well-typed and its length.
LEMMA SettleKeepsHistory ==
    ASSUME asks \in Seq(Ask), Last > 0, NEW r \in Result, NEW b \in Nat, Settle(r, b)
    PROVE  /\ asks' \in Seq(Ask) /\ Last' = Last
           /\ \A a \in 1..Last : asks'[a].id = asks[a].id
           /\ \A a \in 1..Last : a # Last => asks'[a] = asks[a]
           /\ asks'[Last].result = r /\ asks'[Last].by = b
<1> DEFINE settled == [id |-> asks[Last].id, result |-> r, by |-> b]
<1>1. Last \in 1..Len(asks)
  BY DEF Last
<1>2. asks[Last] \in Ask
  BY <1>1
<1>3. settled \in Ask
  BY <1>2 DEF Ask
<1>4. asks' = [asks EXCEPT ![Last] = settled]
  BY DEF Settle
<1> HIDE DEF settled
<1>5. asks' \in Seq(Ask) /\ Len(asks') = Len(asks)
  BY <1>1, <1>3, <1>4
<1>6. asks'[Last] = settled
  BY <1>1, <1>4 DEF Last
<1>7. \A a \in 1..Last : a # Last => asks'[a] = asks[a]
  BY <1>4 DEF Last
<1>8. /\ asks'[Last].id = asks[Last].id
      /\ asks'[Last].result = r /\ asks'[Last].by = b
  BY <1>6 DEF settled
<1> QED BY <1>5, <1>7, <1>8 DEF Last

\* A new ask is appended, with the current question's id.
LEMMA NewAskKeepsHistory ==
    ASSUME TypeOK, NEW r \in Result, asks' = NewAsk(r)
    PROVE  /\ asks' \in Seq(Ask) /\ Last' = Last + 1 /\ Last \in Nat
           /\ \A a \in 1..Last : asks'[a] = asks[a]
           /\ asks'[Last + 1] = [id |-> CurrentId, result |-> r, by |-> 0]
<1>1. CurrentId \in QuestionId
  BY ScriptPositions DEF TypeOK, CurrentId
<1>2. [id |-> CurrentId, result |-> r, by |-> 0] \in Ask
  BY <1>1 DEF Ask
<1> QED BY <1>2 DEF TypeOK, NewAsk, NoAsk, Last

\* Going on to the next test or part leaves the thread at a question of the
\* script, asking it, or at the end of the run.
LEMMA NextPosition ==
    ASSUME TypeOK, NextTest \/ NextPart
    PROVE  /\ test' \in 1..Len(Script) /\ part' \in 1..Len(Script[test'])
           /\ pc' \in {"asking", "finished"}
<1>1. CASE NextPart
  BY <1>1, ScriptPositions DEF TypeOK, NextPart
<1>2. CASE NextTest
  BY <1>2, ScriptPositions DEF TypeOK, NextTest
<1> QED BY <1>1, <1>2

\* What a longer or equal history leaves of the types of the user's side.
LEMMA LongerHistory ==
    ASSUME TypeOK, Last' \in Nat, Last' >= Last
    PROVE  /\ facade \in 0..Last' /\ rendering \in [shown : 0..Last', timed : 0..Last'] /\ Last \in Nat
           /\ tabs \in SUBSET [shown : 1..Last', timed : 0..Last', of : 0..Last']
<1>1. Last \in Nat
  BY DEF TypeOK, Last
<1>2. 1..Last \subseteq 1..Last' /\ 0..Last \subseteq 0..Last'
  BY <1>1
<1> QED BY <1>1, <1>2 DEF TypeOK

\* No step of the suite, the facade or the user breaks the types.
LEMMA TypeStep == TypeOK /\ [Next]_vars => TypeOK'
<1> SUFFICES ASSUME TypeOK, [Next]_vars PROVE TypeOK'
  OBVIOUS
<1>0. /\ Last \in Nat /\ asks \in Seq(Ask)
      /\ Ask = [id : QuestionId, result : Result, by : Nat]
  BY DEF TypeOK, Last, Ask
<1>1. CASE StartRun
  <2>1. /\ run' \in 0..MaxRuns
        /\ test' \in 1..Len(Script) /\ part' \in 1..Len(Script[test'])
        /\ pc' = "asking"
    BY <1>1, ScriptPositions, TestingFacadeAssumption DEF StartRun, TypeOK
  <2> QED BY <1>1, <2>1 DEF StartRun, TypeOK, userVars, Last
<1>2. CASE SendQuestion
  <2>1. /\ asks' \in Seq(Ask) /\ Last' = Last + 1
    BY <1>2, NewAskKeepsHistory DEF SendQuestion, Result
  <2>2. /\ facade \in 0..Last' /\ rendering \in [shown : 0..Last', timed : 0..Last']
        /\ tabs \in SUBSET [shown : 1..Last', timed : 0..Last', of : 0..Last']
    BY <2>1, <1>0, LongerHistory
  <2>3. facade' \in 0..Last'
    BY <1>0, <1>2, <2>1 DEF SendQuestion
  <2> QED BY <1>0, <1>2, <2>1, <2>2, <2>3 DEF SendQuestion, TypeOK, userVars
<1>3. CASE SendFails
  <2>1. /\ asks' \in Seq(Ask) /\ Last' = Last + 1
    BY <1>3, NewAskKeepsHistory DEF SendFails, Result
  <2>2. /\ facade \in 0..Last' /\ rendering \in [shown : 0..Last', timed : 0..Last']
        /\ tabs \in SUBSET [shown : 1..Last', timed : 0..Last', of : 0..Last']
    BY <2>1, <1>0, LongerHistory
  <2>3. facade' \in 0..Last'
    BY <1>0, <1>3, <2>1, <2>2 DEF SendFails
  <2>4. /\ test' \in 1..Len(Script) /\ part' \in 1..Len(Script[test'])
        /\ pc' \in {"asking", "finished"}
    BY <1>3, NextPosition DEF SendFails
  <2> QED BY <1>3, <2>1, <2>2, <2>3, <2>4 DEF SendFails, TypeOK, userVars
<1>4. ASSUME AcceptAnswer \/ RejectAnswer \/ CrashOnNullId PROVE TypeOK'
  <2>1. queue # <<>> /\ queue \in Seq(Answer) /\ queue' = Tail(queue)
    BY <1>4 DEF AcceptAnswer, RejectAnswer, CrashOnNullId, TakeAnswer, TypeOK
  <2>2. /\ queue' \in Seq(Answer) /\ Len(queue') <= MaxQueue
        /\ Head(queue) \in Answer
    BY <2>1, TestingFacadeAssumption DEF TypeOK
  <2>3. Head(queue).shown \in Nat
    BY <2>2 DEF Answer
  <2>4. \E r \in Result : Settle(r, Head(queue).shown)
    BY <1>4 DEF AcceptAnswer, RejectAnswer, CrashOnNullId, Result
  <2>5. Last > 0
    BY <1>4 DEF AcceptAnswer, RejectAnswer, CrashOnNullId, TypeOK
  <2>6. asks' \in Seq(Ask) /\ Last' = Last
    BY <1>0, <2>3, <2>4, <2>5, SettleKeepsHistory
  <2>7. /\ test' \in 1..Len(Script) /\ part' \in 1..Len(Script[test'])
        /\ pc' \in {"idle", "asking", "waiting", "finished"}
    BY <1>4, NextPosition DEF AcceptAnswer, RejectAnswer, CrashOnNullId, TypeOK
  <2> QED BY <1>4, <2>2, <2>6, <2>7
          DEF AcceptAnswer, RejectAnswer, CrashOnNullId, TypeOK, userVars
<1>5. CASE TimeOut
  <2>1. /\ Last > 0 /\ Settle("timedout", 0) /\ NextTest
        /\ UNCHANGED <<run, facade, queue, userVars>>
    BY <1>5 DEF TimeOut, TypeOK, NoAsk
  <2>2. asks' \in Seq(Ask) /\ Last' = Last
    BY <1>0, <2>1, SettleKeepsHistory DEF Result
  <2>3. /\ test' \in 1..Len(Script) /\ part' \in 1..Len(Script[test'])
        /\ pc' \in {"asking", "finished"}
    BY <2>1, NextPosition
  <2> QED BY <2>1, <2>2, <2>3 DEF TypeOK, userVars
<1>6. CASE TearDown
  BY <1>0, <1>6 DEF TearDown, TypeOK, userVars, Last, NoAsk
<1>7. CASE BeginPage \/ ReadTimes
  <2>1. CASE BeginPage
    BY <1>0, <2>1 DEF BeginPage, TypeOK, suiteVars, Last
  <2>2. CASE ReadTimes
    <3>1. rendering' \in [shown : 0..Last, timed : 0..Last]
      BY <1>0, <2>2 DEF ReadTimes, TypeOK
    <3> QED BY <2>2, <3>1 DEF ReadTimes, TypeOK, suiteVars, Last
  <2> QED BY <1>7, <2>1, <2>2
<1>8. CASE EndPage
  <2> DEFINE page == [shown |-> rendering.shown, timed |-> rendering.timed, of |-> facade]
  <2>1. page \in [shown : 1..Last, timed : 0..Last, of : 0..Last]
    BY <1>0, <1>8 DEF EndPage, TypeOK, NoAsk
  <2>2. rendering' \in [shown : 0..Last, timed : 0..Last] /\ Last' = Last
    BY <1>0, <1>8 DEF EndPage, NoPage, NoAsk, suiteVars, Last
  <2> QED BY <1>8, <2>1, <2>2 DEF EndPage, TypeOK, suiteVars
<1>9. ASSUME NEW tab \in tabs, LeavePage(tab) PROVE TypeOK'
  BY <1>9 DEF LeavePage, TypeOK, suiteVars, Last
<1>10. ASSUME NEW tab \in tabs, SubmitAnswer(tab) PROVE TypeOK'
  <2>1. tab \in [shown : 1..Last, timed : 0..Last, of : 0..Last]
    BY DEF TypeOK
  <2>2. IdOf(tab.of) \in QuestionId \cup {NoId}
    <3>1. tab.of \in 0..Len(asks)
      BY <2>1 DEF Last
    <3>2. ASSUME tab.of # 0 PROVE asks[tab.of] \in Ask
      <4>1. asks \in Seq(Ask)
        BY DEF TypeOK
      <4>2. tab.of \in 1..Len(asks)
        BY <3>1, <3>2, <4>1
      <4> QED BY <4>1, <4>2
    <3> QED BY <1>0, <3>2 DEF IdOf, NoAsk
  <2>3. [question_id |-> IdOf(tab.of), shown |-> tab.shown] \in Answer
    BY <1>0, <2>1, <2>2 DEF Answer
  <2>4. /\ queue' = Append(queue, [question_id |-> IdOf(tab.of), shown |-> tab.shown])
        /\ Len(queue) < MaxQueue /\ queue \in Seq(Answer)
    BY <1>10 DEF SubmitAnswer, TypeOK
  <2>5. queue' \in Seq(Answer) /\ Len(queue') <= MaxQueue
    BY <2>3, <2>4, TestingFacadeAssumption
  <2> QED BY <1>10, <2>5 DEF SubmitAnswer, TypeOK, suiteVars, Last
<1>11. CASE UNCHANGED vars
  BY <1>11 DEF vars, TypeOK, Last
<1> QED
  BY <1>1, <1>2, <1>3, <1>4, <1>5, <1>6, <1>7, <1>8, <1>9, <1>10, <1>11
     DEF Next, Suite, Pages

\* Every behaviour is well-typed: in particular the thread is always at a
\* question of the script, and pages and the DataStore never name an ask that
\* was not made.
THEOREM TypeCorrect == Spec => []TypeOK
<1>1. Init => TypeOK
  BY ScriptPositions, TestingFacadeAssumption
     DEF Init, TypeOK, Last, NoAsk, NoPage, Ask, Answer
<1>2. TypeOK /\ [Next]_vars => TypeOK'
  BY TypeStep
<1> QED BY <1>1, <1>2, PTL DEF Spec

-----------------------------------------------------------------------------

\* A prompt user's behaviours are behaviours of the protocol.
LEMMA PromptStepIsStep == [NextPrompt]_vars => [Next]_vars
  BY DEF NextPrompt, Next, PromptAnswer

LEMMA PromptInit == Init => PromptInv
  BY ScriptPositions, TestingFacadeAssumption
     DEF Init, PromptInv, TypeOK, Last, NoAsk, NoPage, Ask, Answer, WaitingForShown,
         TabsOfCurrentAreWhole, QueueHoldsCurrent,
         AcceptedAnswerIsForThisAsking, NoIntegrityFailure

LEMMA PromptStep == PromptInv /\ [NextPrompt]_vars => PromptInv'
<1> SUFFICES ASSUME PromptInv, [NextPrompt]_vars PROVE PromptInv'
  OBVIOUS
<1>0. TypeOK /\ TypeOK' /\ Last \in Nat
  <2>1. TypeOK /\ TypeOK'
    BY TypeStep, PromptStepIsStep DEF PromptInv
  <2>2. Last \in Nat
    BY <2>1 DEF TypeOK, Last
  <2> QED BY <2>1, <2>2
<1> USE DEF PromptInv
<1>1. CASE StartRun
  BY <1>0, <1>1 DEF StartRun, userVars, WaitingForShown, Last, QueueHoldsCurrent,
     TabsOfCurrentAreWhole, AcceptedAnswerIsForThisAsking, NoIntegrityFailure
<1>2. CASE SendQuestion
  <2>1. /\ Last' = Last + 1 /\ facade' = Last'
        /\ \A a \in 1..Last : asks'[a] = asks[a]
        /\ asks'[Last'] = [id |-> CurrentId, result |-> "open", by |-> 0]
    BY <1>0, <1>2, NewAskKeepsHistory DEF SendQuestion, Result
  <2>2. queue' = <<>> /\ UNCHANGED <<test, part, tabs>>
    BY <1>2 DEF SendQuestion, QueueHoldsCurrent, userVars
  <2>3. WaitingForShown'
    BY <1>0, <2>1, <2>2 DEF WaitingForShown, CurrentId
  <2>4. TabsOfCurrentAreWhole'
    BY <1>0, <2>1, <2>2 DEF TabsOfCurrentAreWhole, TypeOK
  <2>5. QueueHoldsCurrent'
    BY <2>2 DEF QueueHoldsCurrent
  <2>6. AcceptedAnswerIsForThisAsking' /\ NoIntegrityFailure'
    BY <1>0, <2>1 DEF AcceptedAnswerIsForThisAsking, NoIntegrityFailure
  <2> QED BY <1>0, <2>3, <2>4, <2>5, <2>6
<1>3. CASE SendFails
  <2>1. /\ Last' = Last + 1
        /\ \A a \in 1..Last : asks'[a] = asks[a]
        /\ asks'[Last'] = [id |-> CurrentId, result |-> "unsent", by |-> 0]
    BY <1>0, <1>3, NewAskKeepsHistory DEF SendFails, Result
  <2>2. queue' = <<>> /\ pc' # "waiting"
    BY <1>0, <1>3, NextPosition DEF SendFails, QueueHoldsCurrent
  <2>3. AcceptedAnswerIsForThisAsking' /\ NoIntegrityFailure'
    BY <1>0, <2>1 DEF AcceptedAnswerIsForThisAsking, NoIntegrityFailure
  <2> QED BY <1>0, <2>2, <2>3
          DEF WaitingForShown, TabsOfCurrentAreWhole, QueueHoldsCurrent
<1>4. CASE AcceptAnswer
  <2>1. /\ Last > 0 /\ queue' = Tail(queue) /\ Len(queue) = 1
        /\ Settle("accepted", Last)
        /\ NextTest \/ NextPart
    BY <1>0, <1>4 DEF AcceptAnswer, QueueHoldsCurrent, TypeOK, TakeAnswer
  <2>2. queue' = <<>>
    <3>1. queue \in Seq(Answer)
      BY <1>0 DEF TypeOK
    <3>2. queue' \in Seq(Answer) /\ Len(queue') = 0
      BY <2>1, <3>1
    <3> QED BY <3>2
  <2>3. pc' # "waiting"
    BY <1>0, <2>1, NextPosition
  <2>4. /\ Last' = Last
        /\ \A a \in 1..Last : a # Last => asks'[a] = asks[a]
        /\ asks'[Last].result = "accepted" /\ asks'[Last].by = Last
    BY <1>0, <2>1, SettleKeepsHistory DEF TypeOK, Result
  <2>5. AcceptedAnswerIsForThisAsking' /\ NoIntegrityFailure'
    BY <1>0, <2>4 DEF AcceptedAnswerIsForThisAsking, NoIntegrityFailure
  <2> QED BY <1>0, <2>2, <2>3, <2>5
          DEF WaitingForShown, TabsOfCurrentAreWhole, QueueHoldsCurrent
<1>5. ~RejectAnswer /\ ~CrashOnNullId
  <2>1. CurrentId \in QuestionId
    BY <1>0, ScriptPositions DEF TypeOK, CurrentId
  <2> QED BY <2>1, TestingFacadeAssumption
          DEF RejectAnswer, CrashOnNullId, QueueHoldsCurrent
<1>6. CASE TimeOut
  <2>1. Last > 0 /\ queue' = <<>> /\ Settle("timedout", 0) /\ NextTest
    BY <1>0, <1>6 DEF TimeOut, TypeOK, NoAsk
  <2>2. pc' # "waiting"
    BY <1>0, <2>1, NextPosition
  <2>3. /\ Last' = Last
        /\ \A a \in 1..Last : a # Last => asks'[a] = asks[a]
        /\ asks'[Last].result = "timedout"
    BY <1>0, <2>1, SettleKeepsHistory DEF TypeOK, Result
  <2>4. AcceptedAnswerIsForThisAsking' /\ NoIntegrityFailure'
    BY <1>0, <2>3 DEF AcceptedAnswerIsForThisAsking, NoIntegrityFailure
  <2> QED BY <1>0, <2>1, <2>2, <2>4
          DEF WaitingForShown, TabsOfCurrentAreWhole, QueueHoldsCurrent
<1>7. CASE TearDown
  BY <1>0, <1>7 DEF TearDown, userVars, WaitingForShown, Last, QueueHoldsCurrent,
     TabsOfCurrentAreWhole, AcceptedAnswerIsForThisAsking, NoIntegrityFailure
<1>8. CASE BeginPage \/ ReadTimes \/ \E tab \in tabs : LeavePage(tab)
  <2>1. UNCHANGED <<suiteVars, facade, queue>> /\ tabs' \subseteq tabs
    BY <1>8 DEF BeginPage, ReadTimes, LeavePage
  <2> QED BY <1>0, <2>1 DEF suiteVars, WaitingForShown, QueueHoldsCurrent, Last,
     CurrentId, TabsOfCurrentAreWhole, AcceptedAnswerIsForThisAsking, NoIntegrityFailure
<1>9. CASE EndPage
  <2>1. /\ UNCHANGED <<suiteVars, facade, queue>>
        /\ \E page : page.of = facade /\ tabs' = tabs \cup {page}
    BY <1>9 DEF EndPage
  <2>2. TabsOfCurrentAreWhole'
    BY <2>1 DEF TabsOfCurrentAreWhole, WaitingForShown, suiteVars, Last
  <2> QED BY <1>0, <2>1, <2>2 DEF suiteVars, WaitingForShown, QueueHoldsCurrent, Last,
     CurrentId, AcceptedAnswerIsForThisAsking, NoIntegrityFailure
<1>10. ASSUME NEW tab \in tabs, Prompt(tab), SubmitAnswer(tab) PROVE PromptInv'
  <2>1. /\ pc = "waiting" /\ queue = <<>> /\ tab.shown = Last
        /\ queue' = Append(queue, [question_id |-> IdOf(tab.of), shown |-> tab.shown])
        /\ UNCHANGED <<suiteVars, facade>> /\ tabs' \subseteq tabs
    BY <1>10 DEF Prompt, SubmitAnswer
  <2>2. tab.of = Last /\ Last > 0 /\ asks[Last].id = CurrentId
    BY <2>1 DEF TabsOfCurrentAreWhole, WaitingForShown
  <2>3. IdOf(tab.of) = CurrentId
    BY <1>0, <2>2 DEF IdOf, NoAsk
  <2>4. Len(queue') = 1 /\ Head(queue') = [question_id |-> CurrentId, shown |-> Last]
    BY <2>1, <2>3
  <2> QED BY <1>0, <2>1, <2>4 DEF suiteVars, WaitingForShown, QueueHoldsCurrent, Last,
     CurrentId, TabsOfCurrentAreWhole, AcceptedAnswerIsForThisAsking, NoIntegrityFailure
<1>11. CASE UNCHANGED vars
  BY <1>0, <1>11 DEF vars, WaitingForShown, QueueHoldsCurrent, Last,
     CurrentId, TabsOfCurrentAreWhole, AcceptedAnswerIsForThisAsking, NoIntegrityFailure
<1> QED
  BY <1>1, <1>2, <1>3, <1>4, <1>5, <1>6, <1>7, <1>8, <1>9, <1>10, <1>11
     DEF NextPrompt, Suite, Pages, PromptAnswer

\* Under a prompt user the queue and the questions never come apart: whatever
\* the sends, timeouts, lost tear downs and torn pages, an accepted answer was
\* given to that very asking, and no question fails its integrity check.
THEOREM PromptUserIsUnderstood ==
    SpecPrompt => [](AcceptedAnswerIsForThisAsking /\ NoIntegrityFailure)
<1> QED BY PromptInit, PromptStep, PTL DEF SpecPrompt, PromptInv

\* With a prompt user the only way in which a question fails is its timeout: no
\* answer is left over for the next question to stumble upon.
THEOREM NoQuestionFailsItsIntegrityCheck == SpecPrompt => []NoIntegrityFailure
  BY PromptUserIsUnderstood, PTL

-----------------------------------------------------------------------------

\* A list of outcomes that goes on from another one with one more.
LEMMA OneMore ==
    ASSUME NEW n \in Nat, NEW f \in [1..n -> Result], NEW g \in [1..(n + 1) -> Result],
           \A a \in 1..n : g[a] = f[a]
    PROVE  g = Append(f, g[n + 1])
<1>1. f \in Seq(Result) /\ g \in Seq(Result) /\ Len(f) = n /\ Len(g) = n + 1
  OBVIOUS
<1>2. g[n + 1] \in Result
  OBVIOUS
<1>3. /\ Append(f, g[n + 1]) \in Seq(Result) /\ Len(Append(f, g[n + 1])) = n + 1
      /\ \A a \in 1..n : Append(f, g[n + 1])[a] = f[a]
      /\ Append(f, g[n + 1])[n + 1] = g[n + 1]
  BY <1>1, <1>2, AppendProperties
<1>4. \A a \in 1..Len(g) : g[a] = Append(f, g[n + 1])[a]
  BY <1>1, <1>3
<1> QED BY <1>1, <1>3, <1>4, SeqEqual

\* The first outcomes of a history are results.
LEMMA OutcomesAreResults ==
    ASSUME NEW h \in Seq(Ask), NEW n \in 0..Len(h)
    PROVE  [a \in 1..n |-> h[a].result] \in [1..n -> Result]
<1>1. \A a \in 1..n : h[a] \in Ask
  OBVIOUS
<1>2. \A a \in 1..n : h[a].result \in Result
  BY <1>1 DEF Ask
<1> QED BY <1>2

\* A step that leaves the thread and the history alone, and the queue empty or
\* not, is no step of the conversation.
LEMMA ElsewhereIsSilent ==
    ASSUME UNCHANGED asks, pc = "waiting" <=> pc' = "waiting",
           pc = "waiting" => UNCHANGED queue
    PROVE  UNCHANGED <<Outcomes, Question>>
  BY DEF Outcomes, Question, Over, Last

LEMMA PromptStepIsDialogue ==
    PromptInv /\ [NextPrompt]_vars => [Conversation!Next]_(Conversation!dialogueVars)
<1> SUFFICES ASSUME PromptInv, [NextPrompt]_vars
             PROVE  [Conversation!Next]_(Conversation!dialogueVars)
  OBVIOUS
<1>0. TypeOK /\ TypeOK' /\ Last \in Nat
  <2>1. TypeOK /\ TypeOK'
    BY TypeStep, PromptStepIsStep DEF PromptInv
  <2>2. Last \in Nat
    BY <2>1 DEF TypeOK, Last
  <2> QED BY <2>1, <2>2
<1> USE DEF PromptInv, Conversation!Next, Conversation!dialogueVars
<1>1. CASE StartRun
  <2>1. UNCHANGED <<Outcomes, Question>>
    BY <1>1, ElsewhereIsSilent DEF StartRun
  <2> QED BY <2>1
<1>2. CASE SendQuestion
  <2>1. /\ Last' = Last + 1 /\ \A a \in 1..Last : asks'[a] = asks[a]
        /\ pc # "waiting" /\ pc' = "waiting" /\ queue' = <<>>
    BY <1>0, <1>2, NewAskKeepsHistory DEF SendQuestion, Result, QueueHoldsCurrent
  <2>2. Over = Last /\ Over' = Last
    BY <1>0, <2>1 DEF Over
  <2>3. Outcomes' = Outcomes /\ Question = "none" /\ Question' = "open"
    BY <2>1, <2>2 DEF Outcomes, Question
  <2> QED BY <2>3 DEF Conversation!Ask
<1>3. CASE SendFails
  <2>1. /\ Last' = Last + 1 /\ \A a \in 1..Last : asks'[a] = asks[a]
        /\ asks'[Last + 1].result = "unsent"
        /\ pc # "waiting"
    BY <1>0, <1>3, NewAskKeepsHistory DEF SendFails, Result
  <2>2. pc' # "waiting"
    BY <1>0, <1>3, NextPosition DEF SendFails
  <2>3. Over = Last /\ Over' = Last + 1
    BY <1>0, <2>1, <2>2 DEF Over
  <2>4. /\ \A a \in 1..Over : Outcomes'[a] = Outcomes[a]
        /\ Outcomes'[Over + 1] = "unsent"
    BY <1>0, <2>1, <2>3 DEF Outcomes
  <2>5. Outcomes' = Append(Outcomes, "unsent")
    <3>1. Over \in 0..Len(asks) /\ Over + 1 \in 0..Len(asks')
      BY <1>0, <2>1, <2>3 DEF Last
    <3>2. /\ Outcomes \in [1..Over -> Result]
          /\ Outcomes' \in [1..(Over + 1) -> Result]
      BY <1>0, <2>3, <3>1, OutcomesAreResults DEF TypeOK, Outcomes
    <3> QED BY <1>0, <2>3, <2>4, <3>2, OneMore
  <2>6. Question = "none" /\ Question' = "none"
    BY <2>1, <2>2 DEF Question
  <2> QED BY <2>5, <2>6 DEF Conversation!Unsent, Conversation!Conclude
<1>4. ASSUME NEW result \in {"accepted", "timedout"}, NEW by \in Nat,
             pc = "waiting", Settle(result, by), NextTest \/ NextPart
      PROVE  Outcomes' = Append(Outcomes, result) /\ Question' = "none"
  <2>1. pc' # "waiting"
    BY <1>0, <1>4, NextPosition
  <2>2. /\ Last > 0 /\ Last' = Last
        /\ \A a \in 1..Last : a # Last => asks'[a] = asks[a]
        /\ asks'[Last].result = result
    BY <1>0, <1>4, SettleKeepsHistory DEF TypeOK, Result
  <2>3. Over = Last - 1 /\ Over' = Last
    BY <1>0, <1>4, <2>1, <2>2 DEF Over
  <2>4. /\ \A a \in 1..Over : Outcomes'[a] = Outcomes[a]
        /\ Outcomes'[Over + 1] = result
    BY <1>0, <2>2, <2>3 DEF Outcomes
  <2>5. /\ Over \in Nat /\ Outcomes \in [1..Over -> Result]
        /\ Outcomes' \in [1..(Over + 1) -> Result]
    <3>1. Over \in 0..Len(asks) /\ Over + 1 \in 0..Len(asks') /\ Over + 1 = Over'
      BY <1>0, <2>2, <2>3 DEF Last
    <3>2. asks \in Seq(Ask) /\ asks' \in Seq(Ask)
      BY <1>0 DEF TypeOK
    <3>3. Outcomes \in [1..Over -> Result]
      BY <3>1, <3>2, OutcomesAreResults DEF Outcomes
    <3>4. Outcomes' \in [1..Over' -> Result]
      BY <3>1, <3>2, OutcomesAreResults DEF Outcomes
    <3> QED BY <1>0, <2>2, <2>3, <3>1, <3>3, <3>4
  <2> QED BY <2>1, <2>4, <2>5, OneMore DEF Question
<1>5. CASE AcceptAnswer
  <2>1. /\ pc = "waiting" /\ queue # <<>> /\ Settle("accepted", Last)
        /\ NextTest \/ NextPart
    BY <1>0, <1>5 DEF AcceptAnswer, QueueHoldsCurrent
  <2>2. Outcomes' = Append(Outcomes, "accepted") /\ Question' = "none"
    BY <1>0, <1>4, <2>1
  <2>3. Question = "replied"
    BY <2>1 DEF Question
  <2> QED BY <2>2, <2>3 DEF Conversation!Accept, Conversation!Conclude
<1>6. ~RejectAnswer /\ ~CrashOnNullId
  <2>1. CurrentId \in QuestionId
    BY <1>0, ScriptPositions DEF TypeOK, CurrentId
  <2> QED BY <2>1, TestingFacadeAssumption
          DEF RejectAnswer, CrashOnNullId, QueueHoldsCurrent
<1>7. CASE TimeOut
  <2>1. /\ pc = "waiting" /\ queue = <<>> /\ Settle("timedout", 0) /\ NextTest
        /\ TimeoutEnabled
    BY <1>7 DEF TimeOut, NoAsk
  <2>2. Outcomes' = Append(Outcomes, "timedout") /\ Question' = "none"
    BY <1>4, <2>1
  <2>3. Question = "open"
    BY <2>1 DEF Question
  <2> QED BY <2>1, <2>2, <2>3 DEF Conversation!TimeOut, Conversation!Conclude
<1>8. CASE TearDown
  <2>1. UNCHANGED <<Outcomes, Question>>
    BY <1>8, ElsewhereIsSilent DEF TearDown
  <2> QED BY <2>1
<1>9. CASE Pages
  <2>1. UNCHANGED <<asks, pc, queue>>
    BY <1>9 DEF Pages, BeginPage, ReadTimes, EndPage, LeavePage, suiteVars
  <2>2. UNCHANGED <<Outcomes, Question>>
    BY <2>1, ElsewhereIsSilent
  <2> QED BY <2>2
<1>10. ASSUME NEW tab \in tabs, Prompt(tab), SubmitAnswer(tab)
       PROVE  Conversation!Next
  <2>1. /\ pc = "waiting" /\ queue = <<>> /\ UNCHANGED <<asks, pc>>
        /\ queue' = Append(queue, [question_id |-> IdOf(tab.of), shown |-> tab.shown])
    BY <1>10 DEF Prompt, SubmitAnswer, suiteVars
  <2>2. queue' # <<>>
    BY <2>1
  <2>3. Outcomes' = Outcomes
    BY <2>1 DEF Outcomes, Over, Last
  <2>4. Question = "open" /\ Question' = "replied"
    BY <2>1, <2>2 DEF Question
  <2> QED BY <2>3, <2>4 DEF Conversation!Reply
<1>11. CASE UNCHANGED vars
  <2>1. UNCHANGED <<Outcomes, Question>>
    BY <1>11, ElsewhereIsSilent DEF vars
  <2> QED BY <2>1
<1> QED
  BY <1>1, <1>2, <1>3, <1>5, <1>6, <1>7, <1>8, <1>9, <1>10, <1>11
     DEF NextPrompt, Suite, PromptAnswer

\* With a prompt user, the queue of the process, the facade's DataStore and its
\* pages implement the Dialogue, for every script and any number of runs.
THEOREM FacadeImplementsDialogue == SpecPrompt => CarriesTheDialogue
<1>1. Init => Conversation!Init
  BY DEF Init, Conversation!Init, Outcomes, Question, Over, Last
<1> QED
  BY <1>1, PromptInit, PromptStep, PromptStepIsDialogue, PTL
     DEF SpecPrompt, CarriesTheDialogue, Conversation!Spec
=============================================================================
