------------------------- MODULE MediaSuites_proofs -------------------------
(***************************************************************************)
(* Theorems about the suites of MediaSuites, for any devices with any      *)
(* numbers of Senders, Receivers, Inputs and Outputs.                      *)
(***************************************************************************)
EXTENDS MediaSuites, SequenceTheorems, FiniteSetTheorems, WellFoundedInduction, TLAPS

\* A run, or what is left of it, ends with the tear down.
IsPlan(plan) ==
    /\ plan \in Seq(DOMAIN verdict)
    /\ \A k \in 1..Len(plan) : plan[k] = "tear_down_tests" <=> k = Len(plan)

IsRun ==
    /\ at = [plan |-> at.plan, step |-> at.step, todo |-> at.todo, tries |-> at.tries]
    /\ verdict = [t \in DOMAIN verdict |-> verdict[t]]
    /\ IsPlan(at.plan)

\* How a run begins.
LEMMA PlansArePlans ==
    ASSUME NEW order, NEW n \in Nat, order = [k \in 1..n |-> order[k]],
           \A k \in 1..n : order[k] # "tear_down_tests",
           verdict = NoVerdicts(order),
           NEW plan \in Plans(order), at = Position(plan)
    PROVE  IsRun /\ Head(at.plan) = "set_up_tests"
<1> DEFINE Names == DOMAIN verdict
<1>1. Names = {order[k] : k \in 1..n} \cup {"set_up_tests", "tear_down_tests"}
  BY DEF NoVerdicts
<1>2. PICK tests \in {order} \cup {<<order[k]>> : k \in 1..n} :
        plan = <<"set_up_tests">> \o tests \o <<"tear_down_tests">>
  BY DEF Plans
<1> HIDE DEF Names
<1>3. order \in Seq(Names) /\ Len(order) = n
  BY <1>1
<1>4. tests \in Seq(Names) /\ \A k \in 1..Len(tests) : tests[k] # "tear_down_tests"
  <2>1. CASE tests = order
    BY <1>3, <2>1
  <2>2. CASE \E k \in 1..n : tests = <<order[k]>>
    <3>1. PICK k \in 1..n : tests = <<order[k]>>
      BY <2>2
    <3>2. order[k] \in Names
      BY <1>1
    <3> QED
      BY <3>1, <3>2
  <2> QED
    BY <1>2, <2>1, <2>2
<1> DEFINE first == <<"set_up_tests">>  last == <<"tear_down_tests">>
<1>5. /\ first \in Seq(Names) /\ Len(first) = 1 /\ first[1] # "tear_down_tests"
      /\ last \in Seq(Names) /\ Len(last) = 1 /\ last[1] = "tear_down_tests"
  BY <1>1
<1> HIDE DEF first, last
<1> DEFINE rest == first \o tests
<1>6. /\ rest \in Seq(Names) /\ Len(rest) = 1 + Len(tests) /\ Len(tests) \in Nat
      /\ \A k \in 1..Len(rest) : rest[k] = IF k = 1 THEN first[1] ELSE tests[k - 1]
  <2>1. Len(tests) \in Nat
    BY <1>4
  <2>2. /\ rest \in Seq(Names) /\ Len(rest) = Len(first) + Len(tests)
        /\ \A i \in 1..Len(first) + Len(tests) :
             rest[i] = IF i <= Len(first) THEN first[i] ELSE tests[i - Len(first)]
    BY <1>4, <1>5, ConcatProperties
  <2> HIDE DEF rest
  <2>3. \A k \in 1..Len(rest) : rest[k] = IF k = 1 THEN first[1] ELSE tests[k - 1]
    BY <1>5, <2>1, <2>2
  <2> QED
    BY <1>5, <2>1, <2>2, <2>3
<1>7. \A k \in 1..Len(rest) : rest[k] # "tear_down_tests"
  <2> SUFFICES ASSUME NEW k \in 1..Len(rest) PROVE rest[k] # "tear_down_tests"
    OBVIOUS
  <2>1. CASE k = 1
    BY <1>5, <1>6, <2>1
  <2>2. CASE k # 1
    BY <1>4, <1>6, <2>2
  <2> QED
    BY <2>1, <2>2
<1>8. plan = rest \o last
  BY <1>2, <1>4, <1>5 DEF first, last
<1> HIDE DEF rest
<1>9. /\ plan \in Seq(Names) /\ Len(plan) = Len(rest) + 1
      /\ \A k \in 1..Len(plan) : plan[k] = IF k <= Len(rest) THEN rest[k] ELSE last[1]
  <2>1. Len(rest) \in Nat
    BY <1>6
  <2>2. /\ plan \in Seq(Names) /\ Len(plan) = Len(rest) + Len(last)
        /\ \A i \in 1..Len(rest) + Len(last) :
             plan[i] = IF i <= Len(rest) THEN rest[i] ELSE last[i - Len(rest)]
    BY <1>5, <1>6, <1>8, ConcatProperties
  <2>3. \A k \in 1..Len(plan) : plan[k] = IF k <= Len(rest) THEN rest[k] ELSE last[1]
    BY <1>5, <2>1, <2>2
  <2> QED
    BY <1>5, <2>1, <2>2, <2>3
<1>11. Head(plan) = "set_up_tests"
  <2>1. Len(rest) \in Nat /\ 1 \in 1..Len(rest) /\ rest[1] = "set_up_tests"
    BY <1>6 DEF first
  <2>2. plan[1] = rest[1] /\ plan # <<>>
    BY <1>9, <2>1
  <2> QED
    BY <1>9, <2>1, <2>2
<1>10. IsPlan(plan)
  BY <1>5, <1>6, <1>7, <1>9 DEF IsPlan, Names
<1> QED
  BY <1>10, <1>11 DEF IsRun, Position, NoVerdicts

\* How it goes on: a test ends ...
LEMMA TestEnds ==
    ASSUME IsRun, ~Ended, NEW v, Conclude(v)
    PROVE  /\ IsRun' /\ at' = Position(Tail(at.plan))
           /\ Head(at.plan) \in DOMAIN verdict
           /\ verdict'[Head(at.plan)] = v
           /\ \A t \in DOMAIN verdict \ {Head(at.plan)} : verdict'[t] = verdict[t]
           /\ Head(at.plan) = "tear_down_tests" <=> Tail(at.plan) = <<>>
<1>1. at' = Position(Tail(at.plan)) /\ verdict' = [verdict EXCEPT ![Head(at.plan)] = v]
  BY DEF Conclude
<1>2. DOMAIN verdict' = DOMAIN verdict /\ Head(at.plan) \in DOMAIN verdict
  BY <1>1 DEF IsRun, IsPlan, Ended
<1>3. /\ Tail(at.plan) \in Seq(DOMAIN verdict) /\ Len(at.plan) \in Nat \ {0}
      /\ Len(Tail(at.plan)) = Len(at.plan) - 1 /\ Head(at.plan) = at.plan[1]
      /\ \A k \in 1..Len(Tail(at.plan)) : Tail(at.plan)[k] = at.plan[k + 1]
  BY HeadTailProperties, EmptySeq DEF IsRun, IsPlan, Ended
<1>4. Tail(at.plan) = <<>> <=> Len(at.plan) = 1
  <2> DEFINE rest == Tail(at.plan)
  <2>1. /\ rest \in Seq(DOMAIN verdict) /\ Len(rest) = Len(at.plan) - 1
        /\ Len(at.plan) \in Nat
    BY <1>3
  <2> HIDE DEF rest
  <2>2. rest = <<>> <=> Len(rest) = 0
    BY <2>1, EmptySeq
  <2> QED
    BY <2>1, <2>2 DEF rest
<1>5. \A k \in 1..Len(Tail(at.plan)) : Tail(at.plan)[k] = "tear_down_tests" <=> k = Len(Tail(at.plan))
  <2> SUFFICES ASSUME NEW k \in 1..Len(Tail(at.plan))
               PROVE  Tail(at.plan)[k] = "tear_down_tests" <=> k = Len(Tail(at.plan))
    OBVIOUS
  <2>1. at.plan[k + 1] = "tear_down_tests" <=> k + 1 = Len(at.plan)
    BY <1>3 DEF IsRun, IsPlan
  <2> QED
    BY <1>3, <2>1
<1>6. IsRun'
  BY <1>1, <1>2, <1>3, <1>5 DEF IsRun, IsPlan, Position
<1> QED
  BY <1>1, <1>2, <1>3, <1>4, <1>6 DEF IsRun, IsPlan

\* ... or goes on to its next step or subject.
LEMMA TestGoesOn ==
    ASSUME IsRun, verdict' = verdict, at'.plan = at.plan,
           at' = [plan |-> at'.plan, step |-> at'.step, todo |-> at'.todo, tries |-> at'.tries]
    PROVE  IsRun'
  BY DEF IsRun, IsPlan

LEMMA TestSteps ==
    ASSUME IsRun, NEW step, NEW tries, Step(step, tries)
    PROVE  /\ IsRun' /\ at'.step = step /\ at'.plan = at.plan /\ at'.todo = at.todo
           /\ at'.tries = tries /\ verdict' = verdict
<1>1. at' = [at EXCEPT !.step = step, !.tries = tries] /\ verdict' = verdict
  BY DEF Step
<1>2. at' = [plan |-> at.plan, step |-> step, todo |-> at.todo, tries |-> tries]
  BY <1>1 DEF IsRun
<1> QED
  BY <1>1, <1>2, TestGoesOn

-----------------------------------------------------------------------------
(* IS-08: no activation is left.                                            *)

\* The activation that test_06 has asked for is there when its lock is tried, and
\* nothing has changed when a delayed activation has been asked for.
LockHolds ==
    ~M!Ended /\ noted.lost # "test_06" =>
        /\ M!Here = "test_06" /\ at.step \in {"post", "lock"} => DOMAIN noted.actions # {}
        /\ M!Here = "test_06" /\ at.step = "lock" => device.pending = noted.actions
        /\ M!Here \in M!Delayed /\ at.step \in {"post", "pending"} => device.map = noted.before

\* Pending is only what the test at work has asked for, at a step that will delete
\* it or sleep until it is over.
PendingIsAwaited ==
    device.pending # M!NoActions /\ noted.lost # "test_06" =>
        /\ ~M!Ended
        /\ \/ M!Here \in M!Delayed /\ at.step \in {"pending", "assert", "recover"}
           \/ M!Here = "test_05" /\ at.step \in {"delete", "recover"}
           \/ M!Here = "test_06" /\ at.step \in {"lock", "delete"}

MappingInv ==
    /\ IsRun
    /\ device = [fault |-> device.fault, map |-> device.map, pending |-> device.pending]
    /\ noted = [actions |-> noted.actions, before |-> noted.before, lost |-> noted.lost]
    /\ device.fault = "none" => LockHolds /\ PendingIsAwaited

\* An Output whose channels can be mapped has channels.
LEMMA MapOfChannels ==
    ASSUME M!Acceptable(Head(MapOutputs)) # M!NoActions
    PROVE  DOMAIN M!Acceptable(Head(MapOutputs)) # {}
<1> DEFINE o == Head(MapOutputs)
<1>1. DOMAIN M!Acceptable(o) = M!Channels(o)
  BY DEF M!Acceptable, M!RouteBlock
<1>2. M!Acceptable(o) = [c \in M!Channels(o) |-> M!Acceptable(o)[c]]
  BY DEF M!Acceptable, M!RouteBlock
<1> QED
  BY <1>1, <1>2 DEF M!NoActions

\* An end of a test, or a step within it.
LEMMA MappingEnds ==
    ASSUME IsRun, ~M!Ended, NEW v, M!Conclude(v)
    PROVE  IsRun' /\ at'.step = "begin" /\ at'.plan = Tail(at.plan)
<1>1. Conclude(v) /\ ~Ended
  BY DEF Conclude, M!Conclude, Position, M!Position, Ended, M!Ended
<1>2. IsRun' /\ at' = Position(Tail(at.plan))
  BY <1>1, TestEnds
<1> QED
  BY <1>2 DEF Position

LEMMA MappingMoves ==
    ASSUME IsRun, NEW step, M!Goto(step)
    PROVE  IsRun' /\ at'.step = step /\ at'.plan = at.plan
<1>1. Step(step, 0)
  BY DEF Step, M!Goto, M!Step
<1> QED
  BY <1>1, TestSteps

LEMMA MappingStep == MappingInv /\ [M!Next]_M!suiteVars => MappingInv'
<1> SUFFICES ASSUME MappingInv, [M!Next]_M!suiteVars PROVE MappingInv'
  OBVIOUS
<1> USE DEF MappingInv
<1>1. CASE UNCHANGED M!suiteVars
  BY <1>1 DEF M!suiteVars, IsRun, IsPlan, LockHolds, PendingIsAwaited, M!Ended, M!Here
<1>2. CASE M!Fire
  BY <1>2 DEF M!Fire, IsRun, IsPlan, LockHolds, PendingIsAwaited, M!Ended, M!Here
<1>3. CASE M!SetUp
  BY <1>3, MappingEnds DEF M!SetUp, M!On, LockHolds, PendingIsAwaited, M!Here, M!Delayed
<1>4. CASE M!Prepare
  <2>1. /\ ~M!Ended /\ at.step = "begin" /\ device' = device /\ noted'.lost = noted.lost
        /\ noted' = [actions |-> noted'.actions, before |-> noted'.before, lost |-> noted'.lost]
        /\ noted'.actions = M!Wanted /\ noted'.before = device.map
    BY <1>4 DEF M!Prepare, M!On
  <2>2. device.fault = "none" /\ noted.lost # "test_06" => device.pending = M!NoActions
    BY <2>1 DEF PendingIsAwaited
  <2>3. CASE M!Conclude("UNCLEAR")
    BY <2>1, <2>2, <2>3, MappingEnds DEF LockHolds, PendingIsAwaited
  <2>4. CASE (M!Here = "test_06" => M!Wanted # M!NoActions) /\ M!Goto("post")
    <3>1. M!Here = "test_06" => M!Wanted = M!Acceptable(Head(MapOutputs))
      BY DEF M!Wanted, M!Delayed
    <3>2. M!Here' = M!Here
      BY <2>4, MappingMoves DEF M!Here
    <3> QED
      BY <2>1, <2>2, <2>4, <3>1, <3>2, MappingMoves, MapOfChannels DEF LockHolds, PendingIsAwaited
  <2> QED
    BY <1>4, <2>3, <2>4 DEF M!Prepare, M!Untestable
<1>5. CASE M!Submit
  <2> DEFINE here == M!Here
             mine == device.fault = "none" /\ noted.lost # "test_06"
  <2>1. /\ ~M!Ended /\ at.step = "post" /\ device' = M!After(noted.actions, here \in M!Scheduled)
    BY <1>5 DEF M!Submit, M!On
  <2>2. mine => device.pending = M!NoActions
    BY <2>1 DEF PendingIsAwaited
  <2>3. /\ device'.fault = device.fault
        /\ device' = [fault |-> device'.fault, map |-> device'.map, pending |-> device'.pending]
        /\ mine /\ here \in M!Scheduled => device'.map = device.map
        /\ mine => device'.pending = (IF M!Answer(noted.actions) = "done" /\ here \in M!Scheduled
                                     THEN noted.actions ELSE M!NoActions)
    BY <2>1, <2>2 DEF M!After
  <2>4. M!Fail => \/ here \in M!Delayed \cup {"test_05"} /\ M!Goto("recover")
                  \/ here \notin M!Delayed \cup {"test_05"} /\ \E v : M!Conclude(v)
    <3>1. CASE here \in M!Delayed \cup {"test_05"}
      BY <3>1 DEF M!Fail, M!Delayed
    <3>2. CASE here \in {"test_14", "test_15"}
      BY <3>2 DEF M!Fail, M!Delayed
    <3>3. CASE here \notin M!Delayed \cup {"test_05", "test_14", "test_15"}
      BY <3>3 DEF M!Fail, M!Delayed
    <3> QED
      BY <3>1, <3>2, <3>3
  <2> HIDE DEF here
  <2>5. CASE noted' = [noted EXCEPT !.lost = here] /\ noted.lost = "none" /\ M!Fail
    <3>1. /\ noted'.lost = here
          /\ noted' = [actions |-> noted.actions, before |-> noted.before, lost |-> here]
      BY <2>5
    <3>2. CASE here \in M!Delayed \cup {"test_05"} /\ M!Goto("recover")
      <4>1. IsRun' /\ at'.step = "recover" /\ at'.plan = at.plan /\ M!Here' = here
        BY <3>2, MappingMoves DEF M!Here, here
      <4> QED
        BY <2>1, <2>3, <3>1, <3>2, <4>1 DEF LockHolds, PendingIsAwaited, M!Ended, M!Delayed
    <3>3. CASE here \notin M!Delayed \cup {"test_05"} /\ \E v : M!Conclude(v)
      <4>1. IsRun' /\ at'.step = "begin"
        BY <2>1, <3>3, MappingEnds
      <4>2. here \in M!Scheduled => here = "test_06"
        BY <3>3 DEF M!Scheduled
      <4> QED
        BY <2>3, <2>5, <3>1, <4>1, <4>2 DEF LockHolds, PendingIsAwaited
    <3> QED
      BY <2>4, <2>5, <3>2, <3>3
  <2>6. CASE noted' = noted /\ M!Fail /\ M!Answer(noted.actions) # "done"
    <3>1. IsRun' /\ at'.step \in {"begin", "recover"}
      BY <2>1, <2>4, <2>6, MappingEnds, MappingMoves
    <3>2. mine => device'.pending = M!NoActions
      BY <2>3, <2>6
    <3> QED
      BY <2>3, <2>6, <3>1, <3>2 DEF LockHolds, PendingIsAwaited
  <2>7. CASE noted' = noted /\ here \notin M!Scheduled /\ \E v : M!Conclude(v)
    <3>1. IsRun' /\ at'.step = "begin"
      BY <2>1, <2>7, MappingEnds
    <3>2. mine => device'.pending = M!NoActions
      BY <2>3, <2>7
    <3> QED
      BY <2>3, <2>7, <3>1, <3>2 DEF LockHolds, PendingIsAwaited
  <2>8. CASE /\ noted' = noted /\ here \notin M!Violations /\ M!Answer(noted.actions) = "done"
             /\ M!Goto(M!Continue(here))
    <3>1. IsRun' /\ at'.step = M!Continue(here) /\ at'.plan = at.plan /\ M!Here' = here
      BY <2>8, MappingMoves DEF M!Here, here
    <3>2. ~M!Ended'
      BY <2>1, <3>1 DEF M!Ended
    <3>3. mine => device'.pending = IF here \in M!Scheduled THEN noted.actions ELSE M!NoActions
      BY <2>3, <2>8
    <3>4. /\ here \in M!Delayed => M!Continue(here) = "pending"
          /\ here = "test_05" => M!Continue(here) = "delete"
          /\ here = "test_06" => M!Continue(here) = "lock"
          /\ here \notin M!Scheduled => M!Continue(here) = "assert"
      BY DEF M!Continue, M!Scheduled, M!Delayed
    <3>5. device.fault = "none" => LockHolds'
      <4> HIDE DEF here
      <4>1. M!Delayed \cup {"test_06"} \subseteq M!Scheduled /\ "test_06" \notin M!Delayed
        BY DEF M!Scheduled, M!Delayed
      <4> QED
        BY <2>1, <2>3, <2>8, <3>1, <3>2, <3>3, <3>4, <4>1 DEF LockHolds, here
    <3>6. device.fault = "none" => PendingIsAwaited'
      BY <2>8, <3>1, <3>2, <3>3, <3>4 DEF PendingIsAwaited, M!Scheduled, M!Delayed
    <3> QED
      BY <2>3, <2>8, <3>1, <3>5, <3>6
  <2> QED
    BY <1>5, <2>5, <2>6, <2>7, <2>8 DEF M!Submit, here, M!Violations, M!Scheduled, M!Delayed
<1> DEFINE InTime == M!Due => device.fault \in {"never", "undeleted"}
<1>6. CASE M!Recover /\ InTime
  <2>1. IsRun' /\ at'.step = "begin" /\ UNCHANGED <<device, noted>>
    BY <1>6, MappingEnds DEF M!Recover, M!On
  <2>2. ~(device.fault = "none" /\ device.pending # M!NoActions)
    BY <1>6 DEF M!Recover, M!On, M!Due
  <2> QED
    BY <2>1, <2>2 DEF LockHolds, PendingIsAwaited
<1>7. CASE M!Unchanged
  <2>1. /\ M!Here \in M!Delayed /\ ~M!Ended /\ at.step = "pending" /\ UNCHANGED <<device, noted>>
        /\ M!Goto("assert") \/ M!Conclude("FAIL")
    BY <1>7 DEF M!Unchanged, M!On, M!Check, M!Here
  <2>2. CASE M!Goto("assert")
    BY <2>1, <2>2, MappingMoves DEF LockHolds, PendingIsAwaited, M!Ended, M!Here, M!Delayed
  <2>3. CASE M!Conclude("FAIL") /\ device.map # noted.before
    <3>1. IsRun' /\ at'.step = "begin"
      BY <2>1, <2>3, MappingEnds
    <3>2. device.fault = "none" => noted.lost = "test_06"
      BY <2>1, <2>3 DEF LockHolds
    <3> QED
      BY <2>1, <3>1, <3>2 DEF LockHolds, PendingIsAwaited
  <2> QED
    BY <1>7, <2>1, <2>2, <2>3 DEF M!Unchanged, M!Check
<1>8. CASE M!Completed /\ InTime
  <2>1. IsRun' /\ at'.step = "begin" /\ UNCHANGED <<device, noted>>
    BY <1>8, MappingEnds DEF M!Completed, M!On
  <2>2. ~(device.fault = "none" /\ device.pending # M!NoActions)
    BY <1>8 DEF M!Completed, M!On, M!Due
  <2> QED
    BY <2>1, <2>2 DEF LockHolds, PendingIsAwaited
<1>9. CASE M!CheckLock
  <2>1. /\ M!Here = "test_06" /\ ~M!Ended /\ at.step = "lock" /\ noted' = noted
        /\ device' = M!After(noted.actions, TRUE)
    BY <1>9 DEF M!CheckLock, M!On, M!Here
  <2>2. /\ device'.fault = device.fault
        /\ device' = [fault |-> device'.fault, map |-> device'.map, pending |-> device'.pending]
    BY <2>1 DEF M!After
  <2>3. CASE device.fault = "none" /\ noted.lost # "test_06"
    <3>1. M!Locked(noted.actions)
      BY <2>1, <2>3 DEF LockHolds, M!Locked
    <3>2. device' = device /\ M!Goto("delete")
      BY <1>9, <2>1, <3>1 DEF M!After, M!Answer, M!CheckLock, M!Check
    <3> QED
      BY <2>1, <2>3, <3>2, MappingMoves DEF LockHolds, PendingIsAwaited, M!Ended, M!Here, M!Delayed
  <2>4. CASE ~(device.fault = "none" /\ noted.lost # "test_06")
    <3>1. IsRun'
      BY <1>9, <2>1, MappingEnds, MappingMoves DEF M!CheckLock, M!Check
    <3> QED
      BY <2>1, <2>2, <2>4, <3>1 DEF LockHolds, PendingIsAwaited
  <2> QED
    BY <2>3, <2>4
<1>10. CASE M!Delete
  <2>1. /\ noted' = noted /\ IsRun' /\ at'.step = "begin"
        /\ device' = IF device.fault = "undeleted" THEN device
                     ELSE [device EXCEPT !.pending = M!NoActions]
    BY <1>10, MappingEnds DEF M!Delete, M!On
  <2> QED
    BY <2>1 DEF LockHolds, PendingIsAwaited
<1> QED
  BY <1>1, <1>2, <1>3, <1>4, <1>5, <1>6, <1>7, <1>8, <1>9, <1>10 DEF M!Next, M!Tests

LEMMA MappingInit == M!Init => MappingInv
<1> SUFFICES ASSUME M!Init PROVE MappingInv
  OBVIOUS
<1>1. PICK plan \in M!Plans(M!Order) : at = M!Position(plan)
  BY DEF M!Init
<1>2. IsRun
  <2>1. M!Order = [k \in 1..8 |-> M!Order[k]] /\ \A k \in 1..8 : M!Order[k] # "tear_down_tests"
    BY DEF M!Order
  <2>2. /\ plan \in Plans(M!Order) /\ at = Position(plan)
        /\ verdict = NoVerdicts(M!Order)
    BY <1>1 DEF Plans, M!Plans, Position, M!Position, NoVerdicts, M!NoVerdicts, M!Init
  <2> HIDE DEF M!Order
  <2> QED
    BY <2>1, <2>2, PlansArePlans
<1>3. /\ device = [fault |-> device.fault, map |-> device.map, pending |-> M!NoActions]
      /\ noted = [actions |-> noted.actions, before |-> noted.before, lost |-> noted.lost]
  BY DEF M!Init
<1> QED
  BY <1>1, <1>2, <1>3 DEF MappingInv, M!Position, LockHolds, PendingIsAwaited

LEMMA NoActivationLeft == MappingInv => M!NoActivationIsLeft
  BY DEF MappingInv, PendingIsAwaited, M!NoActivationIsLeft

-----------------------------------------------------------------------------
(* IS-11: streams are received.                                             *)

\* A set of numbers has a least one; this stands for induction below.
LEMMA LeastNumber ==
    ASSUME NEW W, W \subseteq Nat, W # {}
    PROVE  \E n \in W : \A m \in W : n <= m
<1> DEFINE R0 == OpToRel(<, Nat)
<1>1. IsWellFoundedOn(R0, Nat)
  BY NatLessThanWellFounded
<1>2. PICK n \in W : \A m \in W : <<m, n>> \notin R0
  <2> HIDE DEF R0
  <2> QED
    BY <1>1, WFMin
<1>3. \A m \in W : ~(m < n)
  BY <1>2 DEF OpToRel
<1> QED
  BY <1>3

\* All numbers up to N, from each to the next.
LEMMA UpTo ==
    ASSUME NEW S, NEW N \in Nat, 0 \in S, \A n \in 0..N - 1 : n \in S => n + 1 \in S
    PROVE  0..N \subseteq S
<1> DEFINE rest == 0..N \ S
<1> SUFFICES ASSUME rest # {} PROVE FALSE
  OBVIOUS
<1>1. PICK n \in rest : \A m \in rest : n <= m
  <2>1. rest \subseteq Nat
    OBVIOUS
  <2> HIDE DEF rest
  <2> QED
    BY <2>1, LeastNumber
<1>2. n - 1 \in 0..N - 1 /\ n - 1 \notin rest
  BY <1>1
<1> QED
  BY <1>1, <1>2

\* The list of a finite set holds its elements.
LEMMA ListsOfSets ==
    ASSUME NEW S, IsFiniteSet(S)
    PROVE  /\ SomeOrder(S) \in Seq(S) /\ Len(SomeOrder(S)) = Cardinality(S)
           /\ Range(SomeOrder(S)) = S
<1> DEFINE n == Cardinality(S)
<1>1. n \in Nat /\ ExistsBijection(1..n, S)
  BY FS_CardinalityType
<1>2. PICK f \in [1..n -> S] : IsInjective(f)
  BY <1>1 DEF ExistsBijection, Bijection, Injection
<1>3. SomeOrder(S) \in [1..n -> S] /\ IsInjective(SomeOrder(S))
  BY <1>2 DEF SomeOrder
<1> DEFINE list == SomeOrder(S)
<1>4. list \in Seq(S) /\ Len(list) = n
  <2> HIDE DEF n, list
  <2> QED
    BY <1>1, <1>3 DEF list
<1>5. \A x \in S : \E k \in 1..n : list[k] = x
  <2>1. IsFiniteSet(1..n) /\ Cardinality(1..n) = n
    BY <1>1, FS_Interval
  <2>2. list \in Injection(1..n, S)
    BY <1>3 DEF Injection
  <2>3. list \in Surjection(1..n, S)
    BY <2>1, <2>2, FS_Injection
  <2> QED
    BY <2>3 DEF Surjection
<1>6. DOMAIN list = 1..n
  BY <1>3
<1> QED
  BY <1>3, <1>4, <1>5, <1>6 DEF Range

LEMMA ReceiverLists ==
    ASSUME NEW format
    PROVE  LET list == R!Receivers(format)
               S == {r \in Receiver : FormatOf[r] = format}
           IN  list \in Seq(S) /\ Len(list) = Cardinality(S) /\ R!Range(list) = S
<1> DEFINE S == {r \in Receiver : FormatOf[r] = format}
<1>1. IsFiniteSet(S)
  <2>1. IsFiniteSet(Receiver)
    BY MediaAssumption DEF R!ReceiverTestsAssumption, R!IsFiniteSet, IsFiniteSet
  <2> QED
    BY <2>1, FS_Subset
<1>2. R!Receivers(format) = SomeOrder(S)
  <2>1. R!Cardinality(S) = Cardinality(S)
    BY DEF R!Cardinality, Cardinality
  <2> HIDE DEF S
  <2>2. R!SomeOrder(S) = SomeOrder(S)
    BY <2>1 DEF R!SomeOrder, SomeOrder, R!IsInjective, IsInjective
  <2> QED
    BY <2>2 DEF S, R!Receivers
<1>3. R!Range(SomeOrder(S)) = Range(SomeOrder(S))
  BY DEF R!Range, Range
<1> QED
  BY <1>1, <1>2, <1>3, ListsOfSets

\* f selects among the first n elements of a list, for n up to N.
Selects(f, s, set, N) ==
    f = [n \in 0..N |-> IF n = 0 THEN <<>>
                        ELSE IF s[n] \in set THEN Append(f[n - 1], s[n]) ELSE f[n - 1]]

LEMMA SomeSelects ==
    ASSUME NEW s, NEW set, NEW N \in Nat
    PROVE  \E f : Selects(f, s, set, N)
<1> DEFINE S == {n \in Nat : \E f : Selects(f, s, set, n)}
<1>1. 0 \in S
  <2> DEFINE f == [i \in 0..0 |-> <<>>]
  <2>1. Selects(f, s, set, 0)
    BY DEF Selects
  <2> HIDE DEF f
  <2> QED BY <2>1
<1>2. ASSUME NEW n \in 0..N - 1, n \in S PROVE n + 1 \in S
  <2>1. PICK f : Selects(f, s, set, n)
    BY <1>2
  <2> DEFINE g == [i \in 0..n + 1 |->
                     IF i <= n THEN f[i] ELSE IF s[i] \in set THEN Append(f[n], s[i]) ELSE f[n]]
  <2>2. n \in Nat
    OBVIOUS
  <2>3. ASSUME NEW i \in 0..n + 1
        PROVE  g[i] = IF i = 0 THEN <<>> ELSE IF s[i] \in set THEN Append(g[i - 1], s[i]) ELSE g[i - 1]
    <3>1. CASE i = n + 1
      <4>1. i # 0 /\ g[i - 1] = f[n] /\ ~(i <= n)
        BY <2>2, <3>1
      <4> QED BY <4>1
    <3>2. CASE i \in 0..n
      <4>1. g[i] = f[i] /\ (i # 0 => g[i - 1] = f[i - 1])
        BY <2>2, <3>2
      <4>2. f[i] = IF i = 0 THEN <<>> ELSE IF s[i] \in set THEN Append(f[i - 1], s[i]) ELSE f[i - 1]
        BY <2>1, <3>2 DEF Selects
      <4> HIDE DEF g
      <4> QED BY <4>1, <4>2
    <3> QED BY <2>2, <3>1, <3>2
  <2>4. Selects(g, s, set, n + 1)
    BY <2>3 DEF Selects
  <2> HIDE DEF g
  <2> QED BY <2>2, <2>4
<1>3. N \in S
  <2> HIDE DEF S
  <2>1. 0..N \subseteq S
    BY <1>1, <1>2, UpTo
  <2> QED BY <2>1
<1> QED BY <1>3

\* Select keeps only elements that are in the set.
LEMMA SelectedLists ==
    ASSUME NEW X, NEW s \in Seq(X), NEW set
    PROVE  R!Select(s, set) \in Seq(X \cap set)
<1>1. PICK N \in Nat : N = Len(s) /\ \A n \in 1..N : s[n] \in X
  OBVIOUS
<1>2. PICK f : f = CHOOSE g : Selects(g, s, set, N)
  OBVIOUS
<1>3. R!Select(s, set) = f[N]
  BY <1>1, <1>2 DEF R!Select, Selects
<1>4. /\ f[0] = <<>>
      /\ \A n \in 1..N : f[n] = IF s[n] \in set THEN Append(f[n - 1], s[n]) ELSE f[n - 1]
  <2>1. Selects(f, s, set, N)
    BY <1>2, SomeSelects
  <2>2. ASSUME NEW n \in 0..N
        PROVE  f[n] = IF n = 0 THEN <<>> ELSE IF s[n] \in set THEN Append(f[n - 1], s[n]) ELSE f[n - 1]
    BY <2>1, Zenon DEF Selects
  <2>3. 0 \in 0..N /\ \A n \in 1..N : n \in 0..N /\ n # 0
    OBVIOUS
  <2> HIDE <1>2
  <2> QED BY <2>2, <2>3, Zenon
<1> DEFINE W == {n \in 0..N : f[n] \in Seq(X \cap set)}
<1>5. 0 \in W
  <2>1. <<>> \in Seq(X \cap set) /\ 0 \in 0..N
    OBVIOUS
  <2> QED BY <1>4, <2>1
<1>6. ASSUME NEW n \in 0..N - 1, n \in W PROVE n + 1 \in W
  <2>1. n + 1 \in 1..N /\ n + 1 \in 0..N /\ (n + 1) - 1 = n
    OBVIOUS
  <2>2. f[n + 1] = IF s[n + 1] \in set THEN Append(f[n], s[n + 1]) ELSE f[n]
    BY <1>4, <2>1
  <2>3. s[n + 1] \in X /\ f[n] \in Seq(X \cap set)
    BY <1>1, <1>6, <2>1
  <2>4. f[n + 1] \in Seq(X \cap set)
    <3>1. PICK u : u = f[n]
      OBVIOUS
    <3>2. PICK e : e = s[n + 1]
      OBVIOUS
    <3>3. e \in set => Append(u, e) \in Seq(X \cap set)
      BY <2>3, <3>1, <3>2
    <3> QED BY <2>2, <2>3, <3>1, <3>2, <3>3
  <2> QED BY <2>1, <2>4
<1>7. N \in W
  <2> HIDE DEF W
  <2>1. 0..N \subseteq W
    BY <1>5, <1>6, UpTo
  <2> QED BY <2>1
<1> QED BY <1>3, <1>7

Streams == DOMAIN R!StreamTest
Refs == R!Range(RefSender)
InList(s) == {s[k] : k \in 1..Len(s)}

\* The Senders that can be made to stream, those of the list of a format, and
\* those that a test still has before it.
FitRefs == {s \in Refs : device.ref[s] = "fit"}
WithFlow == {s \in Refs : device.ref[s] # "no_flow"}
Supply(f) == FitRefs \cap InList(noted.refs[f])
Remaining == FitRefs \cap InList(at.todo)

ReceptionRecords ==
    /\ device = [fault |-> device.fault, pace |-> device.pace, caps |-> device.caps, ref |-> device.ref,
                 configured |-> device.configured, on |-> device.on, source |-> device.source,
                 compliant |-> device.compliant, lit |-> device.lit, sending |-> device.sending]
    /\ device.on \subseteq Receiver /\ device.source = [r \in Receiver |-> device.source[r]]
    /\ noted = [known |-> noted.known, refs |-> noted.refs]
    /\ \A f \in {"video", "audio"} : noted.refs[f] \in Seq(WithFlow)

ReceptionTypes == IsRun /\ Streams \subseteq DOMAIN verdict /\ ReceptionRecords

\* No stream test comes before test_04_03 has listed the reference Senders.
ListedFirst ==
    \A k \in 1..Len(at.plan) : at.plan[k] = "test_04_03" => \A j \in 1..(k - 1) : at.plan[j] \notin Streams

\* Once set up, a Receiver is enabled only with a source that is on the list.
Supplied == \A r \in device.on : device.source[r] \in Supply(FormatOf[r])

OnlyFed ==
    Ended \/ Head(at.plan) # "set_up_tests" =>
        /\ Supplied
        /\ (\E k \in 1..Len(at.plan) : at.plan[k] = "test_04_03") => device.on = {}

\* The first Receiver of a format has its stream ...
Streaming(f) ==
    LET r == Head(R!Receivers(f))
    IN  r \in device.on /\ device.source[r] \in device.sending \cap Supply(f)

\* ... or will have it in this test, unless no Sender is fit.
Coming(f) ==
    /\ R!Receivers(f) # <<>> /\ at.step \in {"visit", "patch", "states"}
    /\ at.todo \in Seq(WithFlow) /\ at.todo # <<>> /\ Remaining \subseteq Supply(f)
    /\ at.step = "patch" => Subject \in FitRefs \cap device.sending
    /\ \/ Supply(f) = {}
       \/ Streaming(f)
       \/ at.step # "states" /\ Remaining # {}

ToStream ==
    \A f \in {"video", "audio"} :
        ~Ended /\ Head(at.plan) \in Streams /\ R!StreamTest[Head(at.plan)] = f /\ at.step # "begin" => Coming(f)

ReceptionInv == ReceptionTypes /\ ListedFirst /\ OnlyFed /\ ToStream

LEMMA ReceptionRun ==
    /\ \A v : R!Conclude(v) <=> Conclude(v)
    /\ \A step, tries : R!Step(step, tries) <=> Step(step, tries)
    /\ \A step : R!Goto(step) <=> Step(step, 0)
    /\ R!Ended <=> Ended
    /\ R!Subject = Subject
    /\ \A tests, step : R!On(tests, step) <=> On(tests, step)
<1>1. \A v : R!Conclude(v) <=> Conclude(v)
  BY DEF R!Conclude, Conclude, R!Position, Position
<1>2. \A step, tries : R!Step(step, tries) <=> Step(step, tries)
  BY DEF R!Step, Step
<1>3. \A step : R!Goto(step) <=> Step(step, 0)
  BY <1>2 DEF R!Goto
<1>4. (R!Ended <=> Ended) /\ R!Subject = Subject
  BY DEF R!Ended, Ended, R!Subject, Subject
<1>5. \A tests, step : R!On(tests, step) <=> On(tests, step)
  BY <1>4 DEF R!On, On
<1> QED BY <1>1, <1>2, <1>3, <1>4, <1>5

LEMMA ReceptionNames ==
    /\ Streams = {"test_04_03_01", "test_04_03_02", "test_04_04_01", "test_04_04_02"}
    /\ \A t \in Streams : R!StreamTest[t] \in {"video", "audio"}
    /\ R!Range(R!Formats) = {"video", "audio"} /\ R!Range(R!FindTest) = {"test_04_03", "test_04_04"}
    /\ DOMAIN R!OutputTest = {"test_04_03_01_01", "test_04_03_02_01"}
    /\ \A r \in Receiver : FormatOf[r] \in {"video", "audio"}
    /\ RefSender \in Seq(Refs)
<1>1. DOMAIN R!Formats = {1, 2} /\ DOMAIN R!FindTest = {1, 2}
  BY DEF R!Formats, R!FindTest
<1>2. R!Range(R!Formats) = {"video", "audio"} /\ R!Range(R!FindTest) = {"test_04_03", "test_04_04"}
  BY <1>1 DEF R!Formats, R!FindTest, R!Range
<1>3. Streams = {"test_04_03_01", "test_04_03_02", "test_04_04_01", "test_04_04_02"}
  BY DEF Streams, R!StreamTest
<1>4. \A t \in Streams : R!StreamTest[t] \in {"video", "audio"}
  BY <1>3 DEF R!StreamTest
<1>5. DOMAIN R!OutputTest = {"test_04_03_01_01", "test_04_03_02_01"}
  BY DEF R!OutputTest
<1>6. (\A r \in Receiver : FormatOf[r] \in {"video", "audio"}) /\ RefSender \in Seq(Refs)
  BY <1>2, MediaAssumption DEF R!ReceiverTestsAssumption, Refs
<1> QED BY <1>2, <1>3, <1>4, <1>5, <1>6

\* What is left of a list, and what is added to one.
LEMMA ListParts ==
    /\ \A X : \A s \in Seq(X) : InList(s) \subseteq X /\ (s # <<>> => Head(s) \in InList(s))
    /\ \A X : \A s \in Seq(X) : s # <<>> /\ Len(s) # 1 =>
          Tail(s) \in Seq(X) /\ Tail(s) # <<>> /\ InList(s) = {Head(s)} \cup InList(Tail(s))
    /\ \A X : \A s \in Seq(X) : Len(s) = 1 => InList(s) = {Head(s)}
    /\ \A X : \A s, u \in Seq(X) : s \o u \in Seq(X) /\ InList(s) \subseteq InList(s \o u)
<1>1. ASSUME NEW X, NEW s \in Seq(X)
      PROVE  /\ InList(s) \subseteq X /\ (s # <<>> => Head(s) \in InList(s))
             /\ Len(s) = 1 => InList(s) = {Head(s)}
  BY DEF InList
<1>2. ASSUME NEW X, NEW s \in Seq(X), s # <<>>, Len(s) # 1
      PROVE  Tail(s) \in Seq(X) /\ Tail(s) # <<>> /\ InList(s) = {Head(s)} \cup InList(Tail(s))
  <2>1. PICK n \in Nat : n = Len(s)
    OBVIOUS
  <2>2. PICK u : u = Tail(s)
    OBVIOUS
  <2>3. u \in Seq(X) /\ Len(u) = n - 1 /\ n > 1 /\ \A k \in 1..n - 1 : u[k] = s[k + 1]
    BY <1>2, <2>1, <2>2
  <2>4. InList(s) \subseteq {Head(s)} \cup InList(u)
    <3> SUFFICES ASSUME NEW k \in 1..n PROVE s[k] = Head(s) \/ \E j \in 1..n - 1 : u[j] = s[k]
      BY <2>1, <2>3 DEF InList
    <3>1. CASE k = 1
      BY <1>2, <3>1
    <3>2. CASE k # 1
      <4>1. k - 1 \in 1..n - 1 /\ (k - 1) + 1 = k
        BY <2>1, <3>2
      <4> QED BY <2>3, <4>1
    <3> QED BY <3>1, <3>2
  <2>5. {Head(s)} \cup InList(u) \subseteq InList(s)
    <3>1. \A k \in 1..n - 1 : k + 1 \in 1..n /\ u[k] = s[k + 1]
      BY <2>1, <2>3
    <3> QED BY <1>1, <1>2, <2>1, <2>3, <3>1 DEF InList
  <2>6. u # <<>>
    BY <2>3
  <2> QED BY <2>2, <2>3, <2>4, <2>5, <2>6
<1>3. ASSUME NEW X, NEW s \in Seq(X), NEW u \in Seq(X)
      PROVE  s \o u \in Seq(X) /\ InList(s) \subseteq InList(s \o u)
  <2>1. PICK t : t = s \o u
    OBVIOUS
  <2>2. t \in Seq(X) /\ Len(t) = Len(s) + Len(u) /\ Len(u) \in Nat /\ Len(s) \in Nat
        /\ \A k \in 1..Len(s) : t[k] = s[k]
    BY <2>1
  <2>3. \A k \in 1..Len(s) : k \in 1..Len(t)
    BY <2>2
  <2> QED BY <2>1, <2>2, <2>3 DEF InList
<1> QED BY <1>1, <1>2, <1>3

\* A test comes to its end ...
LEMMA ReceptionEnds ==
    ASSUME ReceptionInv, ~Ended, NEW v, Conclude(v), ReceptionRecords', Supplied',
           device'.on = {} \/ (Head(at.plan) # "set_up_tests" /\ device'.on = device.on)
    PROVE  ReceptionInv'
<1>1. IsRun /\ Streams \subseteq DOMAIN verdict
  BY DEF ReceptionInv, ReceptionTypes
<1>2. IsRun' /\ at' = Position(Tail(at.plan)) /\ DOMAIN verdict' = DOMAIN verdict
  BY <1>1, TestEnds DEF Conclude
<1>3. PICK rest : rest = Tail(at.plan)
  OBVIOUS
<1>4. PICK n \in Nat \ {0} : n = Len(at.plan)
  BY <1>1 DEF IsRun, IsPlan, Ended
<1>5. Len(rest) = n - 1 /\ (\A k \in 1..n - 1 : rest[k] = at.plan[k + 1]) /\ at'.plan = rest /\ at'.step = "begin"
  BY <1>1, <1>2, <1>3, <1>4 DEF IsRun, IsPlan, Ended, Position
<1>6. ReceptionTypes'
  BY <1>1, <1>2 DEF ReceptionTypes, Streams
<1>7. ListedFirst'
  <2>1. ASSUME NEW k \in 1..n - 1, rest[k] = "test_04_03", NEW j \in 1..(k - 1) PROVE rest[j] \notin Streams
    <3>1. k + 1 \in 1..n /\ j + 1 \in 1..((k + 1) - 1) /\ j \in 1..n - 1
      BY <1>4
    <3>2. at.plan[k + 1] = "test_04_03" /\ rest[j] = at.plan[j + 1]
      BY <1>5, <2>1, <3>1
    <3> QED BY <1>4, <3>1, <3>2 DEF ReceptionInv, ListedFirst
  <2> QED BY <1>5, <2>1 DEF ListedFirst, Streams
<1>8. OnlyFed'
  <2>1. ASSUME NEW k \in 1..n - 1, rest[k] = "test_04_03" PROVE device'.on = {}
    <3>1. k + 1 \in 1..n /\ at.plan[k + 1] = "test_04_03"
      BY <1>4, <1>5, <2>1
    <3> QED BY <1>4, <3>1 DEF ReceptionInv, OnlyFed
  <2> QED BY <1>5, <2>1 DEF OnlyFed
<1>9. ToStream'
  BY <1>5 DEF ToStream
<1> QED BY <1>6, <1>7, <1>8, <1>9 DEF ReceptionInv

\* ... or goes on.
LEMMA ReceptionGoesOn ==
    ASSUME ReceptionInv, IsRun', at'.plan = at.plan, verdict' = verdict, ReceptionRecords', ToStream',
           \/ device'.on = device.on /\ (Supplied => Supplied')
           \/ ~Ended /\ Head(at.plan) \in Streams /\ Supplied'
    PROVE  ReceptionInv'
<1>1. ReceptionTypes'
  BY DEF ReceptionInv, ReceptionTypes, Streams
<1>2. ListedFirst'
  BY DEF ReceptionInv, ListedFirst, Streams
<1>3. OnlyFed'
  <2>1. CASE device'.on = device.on /\ (Supplied => Supplied')
    BY <2>1 DEF ReceptionInv, OnlyFed, Ended
  <2>2. CASE ~Ended /\ Head(at.plan) \in Streams /\ Supplied'
    <3>1. PICK n \in Nat \ {0} : n = Len(at.plan) /\ Head(at.plan) = at.plan[1]
      BY <2>2 DEF ReceptionInv, ReceptionTypes, IsRun, IsPlan, Ended
    <3>2. ASSUME NEW k \in 1..n, at.plan[k] = "test_04_03" PROVE FALSE
      <4>1. k # 1
        BY <2>2, <3>1, <3>2, ReceptionNames
      <4>2. 1 \in 1..(k - 1)
        BY <3>1, <4>1
      <4> QED BY <2>2, <3>1, <3>2, <4>2 DEF ReceptionInv, ListedFirst
    <3> QED BY <2>2, <3>1, <3>2 DEF OnlyFed
  <2> QED BY <2>1, <2>2
<1> QED BY <1>1, <1>2, <1>3 DEF ReceptionInv

\* What changes neither the Receivers nor the lists.
LEMMA ReceptionStays ==
    ASSUME ReceptionRecords, noted' = noted,
           device' = [device EXCEPT !.compliant = device'.compliant, !.lit = device'.lit, !.sending = device'.sending]
    PROVE  /\ ReceptionRecords' /\ device'.ref = device.ref
           /\ device'.on = device.on /\ device'.source = device.source
           /\ FitRefs' = FitRefs /\ WithFlow' = WithFlow /\ (\A f : Supply(f)' = Supply(f)) /\ (Supplied => Supplied')
<1>1. /\ device' = [fault |-> device.fault, pace |-> device.pace, caps |-> device.caps, ref |-> device.ref,
                    configured |-> device.configured, on |-> device.on, source |-> device.source,
                    compliant |-> device'.compliant, lit |-> device'.lit, sending |-> device'.sending]
  BY DEF ReceptionRecords
<1>2. device'.ref = device.ref /\ device'.on = device.on /\ device'.source = device.source
  BY <1>1
<1>3. FitRefs' = FitRefs /\ WithFlow' = WithFlow
  BY <1>2 DEF FitRefs, WithFlow
<1>4. ASSUME NEW f PROVE Supply(f)' = Supply(f)
  BY <1>3 DEF Supply, InList
<1>5. ReceptionRecords'
  <2>1. /\ device' = [fault |-> device'.fault, pace |-> device'.pace, caps |-> device'.caps, ref |-> device'.ref,
                      configured |-> device'.configured, on |-> device'.on, source |-> device'.source,
                      compliant |-> device'.compliant, lit |-> device'.lit, sending |-> device'.sending]
    BY <1>1
  <2>2. /\ device'.on \subseteq Receiver /\ device'.source = [r \in Receiver |-> device'.source[r]]
        /\ noted' = [known |-> noted'.known, refs |-> noted'.refs]
    BY <1>2 DEF ReceptionRecords
  <2>3. \A f \in {"video", "audio"} : noted'.refs[f] \in Seq(WithFlow')
    BY <1>3 DEF ReceptionRecords
  <2> QED BY <2>1, <2>2, <2>3 DEF ReceptionRecords
<1>6. Supplied => Supplied'
  BY <1>2, <1>4 DEF Supplied
<1> QED BY <1>2, <1>3, <1>4, <1>5, <1>6

\* The Receivers and Outputs, and the tests that change nothing.
LEMMA ReceptionMoves ==
    ASSUME ReceptionInv, UNCHANGED <<at, noted, verdict>>,
           device' = [device EXCEPT !.compliant = device'.compliant, !.lit = device'.lit]
    PROVE  ReceptionInv'
<1>1. /\ ReceptionRecords
      /\ device' = [device EXCEPT !.compliant = device'.compliant, !.lit = device'.lit, !.sending = device'.sending]
      /\ device'.sending = device.sending
  BY DEF ReceptionInv, ReceptionTypes, ReceptionRecords
<1>2. IsRun'
  BY DEF ReceptionInv, ReceptionTypes, IsRun, IsPlan
<1>3. Remaining' = Remaining
  BY <1>1, ReceptionStays DEF Remaining, InList
<1>4. ASSUME NEW f, Streaming(f) PROVE Streaming(f)'
  BY <1>1, <1>4, ReceptionStays DEF Streaming
<1>5. ASSUME NEW f, Coming(f) PROVE Coming(f)'
  BY <1>1, <1>3, <1>4, <1>5, ReceptionStays DEF Coming, Subject
<1>6. ToStream'
  BY <1>5 DEF ReceptionInv, ToStream, Streams, Ended
<1> QED BY <1>1, <1>2, <1>6, ReceptionStays, ReceptionGoesOn

LEMMA ReceptionKeeps ==
    ASSUME ReceptionInv, ~Ended, Head(at.plan) # "set_up_tests", NEW v, Conclude(v), noted' = noted,
           device' = [device EXCEPT !.sending = device'.sending]
    PROVE  ReceptionInv'
<1>1. /\ ReceptionRecords /\ Supplied
      /\ device' = [device EXCEPT !.compliant = device'.compliant, !.lit = device'.lit, !.sending = device'.sending]
  BY DEF ReceptionInv, ReceptionTypes, ReceptionRecords, OnlyFed
<1> QED BY <1>1, ReceptionStays, ReceptionEnds

\* test_04_03 and test_04_04
LEMMA ReceptionLists ==
    ASSUME ReceptionInv, R!FindReferences
    PROVE  ReceptionInv'
<1> DEFINE anew == R!On({"test_04_03"}, "begin")
           reached == IF R!Flowless THEN {"video"} ELSE R!Range(R!Formats)
           refs == [f \in R!Range(R!Formats) |->
                      (IF anew /\ f \in reached THEN <<>> ELSE noted.refs[f])
                      \o (IF f \in reached THEN R!Listed(f) ELSE <<>>)]
           known == noted.known \cup {f \in reached : anew \/ R!Listed(f) # <<>>}
<1>1. /\ ReceptionRecords /\ RefSender \in Seq(Refs) /\ R!Range(R!Formats) = {"video", "audio"}
      /\ \A r \in Receiver : FormatOf[r] \in {"video", "audio"}
  BY ReceptionNames DEF ReceptionInv, ReceptionTypes
<1>2. /\ ~Ended /\ Head(at.plan) \in {"test_04_03", "test_04_04"} /\ device' = device
      /\ noted' = [noted EXCEPT !.refs = refs, !.known = known] /\ \E v : Conclude(v)
  BY ReceptionRun, ReceptionNames DEF R!FindReferences, On
<1>3. anew <=> Head(at.plan) = "test_04_03"
  BY <1>2, ReceptionRun, ReceptionNames DEF R!FindReferences, On
<1> HIDE DEF anew, known
<1>4. ASSUME NEW f PROVE R!Listed(f) \in Seq(WithFlow)
  <2>1. R!Reached \subseteq WithFlow
    <3>1. ASSUME NEW s \in R!Reached PROVE s \in WithFlow
      <4>1. PICK k \in DOMAIN RefSender : RefSender[k] = s /\ \A j \in 1..k : device.ref[RefSender[j]] # "no_flow"
        BY DEF R!Reached
      <4>2. k \in 1..k /\ s \in Refs
        BY <1>1, <4>1 DEF Refs, R!Range
      <4> QED BY <4>1, <4>2 DEF WithFlow
    <3> QED BY <3>1
  <2>2. R!Listed(f) \in Seq(Refs \cap {s \in R!Reached : FormatOf[s] = f})
    BY <1>1, SelectedLists DEF R!Listed
  <2>3. Refs \cap {s \in R!Reached : FormatOf[s] = f} \subseteq WithFlow
    BY <2>1
  <2> QED BY <2>2, <2>3
<1>5. ASSUME NEW f \in {"video", "audio"}
      PROVE  refs[f] \in Seq(WithFlow) /\ (~anew => InList(noted.refs[f]) \subseteq InList(refs[f]))
  <2>1. PICK old : old = IF anew /\ f \in reached THEN <<>> ELSE noted.refs[f]
    OBVIOUS
  <2>2. PICK more : more = IF f \in reached THEN R!Listed(f) ELSE <<>>
    OBVIOUS
  <2>3. old \in Seq(WithFlow) /\ more \in Seq(WithFlow)
    BY <1>1, <1>4, <2>1, <2>2 DEF ReceptionRecords
  <2>4. refs[f] = old \o more
    BY <1>1, <2>1, <2>2
  <2> HIDE DEF refs
  <2>5. old \o more \in Seq(WithFlow) /\ InList(old) \subseteq InList(old \o more)
    BY <2>3, ListParts
  <2>6. refs[f] \in Seq(WithFlow) /\ InList(old) \subseteq InList(refs[f])
    BY <2>4, <2>5
  <2> QED BY <2>1, <2>6
<1> HIDE DEF refs
<1>6. noted' = [known |-> known, refs |-> refs]
  BY <1>1, <1>2 DEF ReceptionRecords
<1>7. WithFlow' = WithFlow /\ FitRefs' = FitRefs
  BY <1>2 DEF WithFlow, FitRefs
<1>8. ReceptionRecords'
  <2>1. \A f \in {"video", "audio"} : noted'.refs[f] \in Seq(WithFlow')
    BY <1>5, <1>6, <1>7
  <2> QED BY <1>1, <1>2, <1>6, <2>1 DEF ReceptionRecords
<1>9. Supplied /\ (anew => device.on = {})
  <2>1. Supplied /\ ((\E k \in 1..Len(at.plan) : at.plan[k] = "test_04_03") => device.on = {})
    BY <1>2 DEF ReceptionInv, OnlyFed
  <2>2. 1 \in 1..Len(at.plan) /\ at.plan[1] = Head(at.plan)
    BY <1>2 DEF ReceptionInv, ReceptionTypes, IsRun, IsPlan, Ended
  <2> QED BY <1>3, <2>1, <2>2
<1>10. Supplied'
  <2>1. ASSUME NEW r \in device.on PROVE device.source[r] \in Supply(FormatOf[r])'
    <3>1. PICK f : f = FormatOf[r]
      OBVIOUS
    <3>2. ~anew /\ f \in {"video", "audio"} /\ device.source[r] \in FitRefs \cap InList(noted.refs[f])
      BY <1>1, <1>9, <2>1, <3>1 DEF Supplied, Supply, ReceptionRecords
    <3>3. device.source[r] \in InList(refs[f])
      BY <1>5, <3>2
    <3> QED BY <1>6, <1>7, <3>1, <3>2, <3>3 DEF Supply
  <2> QED BY <1>2, <2>1 DEF Supplied
<1> QED BY <1>2, <1>8, <1>10, ReceptionEnds

\* The Receiver that a stream test has chosen.
LEMMA ChosenReceiver ==
    ASSUME NEW f, R!Receivers(f) # <<>>
    PROVE  Head(R!Receivers(f)) \in Receiver /\ FormatOf[Head(R!Receivers(f))] = f
<1> DEFINE S == {r \in Receiver : FormatOf[r] = f}
<1>1. R!Receivers(f) \in Seq(S)
  BY ReceiverLists
<1>2. Head(R!Receivers(f)) \in S
  <2> HIDE DEF S
  <2> QED BY <1>1
<1> QED BY <1>2

\* What a test still has to do in the list of its format.
LEMMA StreamGoesOn ==
    ASSUME ReceptionInv, ~Ended, Head(at.plan) \in Streams, IsRun', at'.plan = at.plan, verdict' = verdict,
           ReceptionRecords', Supplied', Coming(R!StreamTest[Head(at.plan)])'
    PROVE  ReceptionInv'
<1>1. ToStream'
  BY DEF ToStream
<1> QED BY <1>1, ReceptionGoesOn

LEMMA ReceptionActivates ==
    ASSUME ReceptionInv, R!Activate
    PROVE  ReceptionInv'
<1>1. /\ ReceptionRecords /\ IsRun /\ ~Ended /\ Head(at.plan) \in Streams /\ noted' = noted
      /\ at.step \in {"visit", "patch"}
  BY ReceptionRun DEF R!Activate, On, Streams, ReceptionInv, ReceptionTypes
<1>2. PICK f : f = R!StreamTest[Head(at.plan)]
  OBVIOUS
<1>3. f \in {"video", "audio"} /\ Coming(f)
  <2>1. f \in {"video", "audio"}
    BY <1>1, <1>2, ReceptionNames
  <2> QED BY <1>1, <1>2, <2>1 DEF ReceptionInv, ToStream
<1>4. PICK r : r = Head(R!Receivers(f))
  OBVIOUS
<1>5. r \in Receiver /\ FormatOf[r] = f
  BY <1>3, <1>4, ChosenReceiver DEF Coming
<1>6. PICK s : s = Subject
  OBVIOUS
<1>7. PICK todo \in Seq(WithFlow) : todo = at.todo /\ todo # <<>> /\ s = Head(todo) /\ s \in InList(todo) /\ s \in WithFlow
  <2>1. at.todo \in Seq(WithFlow) /\ at.todo # <<>>
    BY <1>3 DEF Coming
  <2>2. Head(at.todo) \in InList(at.todo) /\ Head(at.todo) \in WithFlow
    BY <2>1, ListParts
  <2> QED BY <1>6, <2>1, <2>2 DEF Subject
<1>8. Supplied
  BY <1>1, ReceptionNames DEF ReceptionInv, OnlyFed
<1>9. ASSUME R!Another
      PROVE  /\ verdict' = verdict /\ IsRun' /\ at'.plan = at.plan
             /\ \E rest \in Seq(WithFlow) : at'.todo = rest /\ rest # <<>> /\ InList(rest) \subseteq InList(todo)
                   /\ \/ at'.step = "states" /\ InList(todo) = {s}
                      \/ at'.step = "visit" /\ InList(todo) = {s} \cup InList(rest)
  <2>1. CASE Len(at.todo) = 1
    <3>1. Step("states", 0)
      BY <1>9, <2>1, ReceptionRun DEF R!Another
    <3>2. verdict' = verdict /\ IsRun' /\ at'.plan = at.plan /\ at'.todo = todo /\ at'.step = "states"
      BY <1>1, <1>7, <3>1, TestSteps
    <3>3. InList(todo) = {s}
      BY <1>7, <2>1, ListParts
    <3> QED BY <1>7, <3>2, <3>3
  <2>2. CASE Len(at.todo) # 1
    <3>1. PICK rest : rest = Tail(todo)
      OBVIOUS
    <3>2. rest \in Seq(WithFlow) /\ rest # <<>> /\ InList(todo) = {s} \cup InList(rest)
      BY <1>7, <2>2, <3>1, ListParts
    <3>3. at' = [plan |-> at.plan, step |-> "visit", todo |-> rest, tries |-> at.tries] /\ verdict' = verdict
      BY <1>1, <1>7, <1>9, <2>2, <3>1 DEF R!Another, IsRun
    <3>4. at'.plan = at.plan /\ at'.step = "visit" /\ at'.todo = rest
      BY <3>3
    <3>5. IsRun'
      BY <1>1, <3>3, TestGoesOn
    <3> QED BY <3>2, <3>3, <3>4, <3>5
  <2> QED BY <2>1, <2>2
<1>10. CASE at.step = "visit"
  <2>1. device' = IF device.ref[s] \in {"unfit", "no_flow"} THEN device
                  ELSE [device EXCEPT !.sending = @ \cup {s}]
    BY <1>6, <1>10, ReceptionRun DEF R!Activate, On
  <2>2. /\ device' = [device EXCEPT !.sending = device'.sending] /\ device.sending \subseteq device'.sending
        /\ device.ref[s] = "fit" => s \in device'.sending
    BY <1>1, <2>1 DEF ReceptionRecords
  <2>3. \/ Conclude("FAIL")
        \/ device.ref[s] = "fit" /\ Step("patch", 0)
        \/ device.ref[s] # "fit" /\ R!Another
    <3>1. device.ref[s] # "no_flow"
      BY <1>7 DEF WithFlow
    <3> QED BY <1>6, <1>10, <3>1, ReceptionRun DEF R!Activate, On
  <2>4. device' = [device EXCEPT !.compliant = device'.compliant, !.lit = device'.lit, !.sending = device'.sending]
    BY <1>1, <2>2 DEF ReceptionRecords
  <2>5. /\ ReceptionRecords' /\ device'.on = device.on /\ device'.source = device.source
        /\ FitRefs' = FitRefs /\ WithFlow' = WithFlow /\ Supply(f)' = Supply(f) /\ Supplied'
    BY <1>1, <1>8, <2>4, ReceptionStays
  <2>6. Streaming(f) => Streaming(f)'
    BY <2>2, <2>5 DEF Streaming
  <2>7. CASE Conclude("FAIL")
    BY <1>1, <2>2, <2>7, ReceptionKeeps, ReceptionNames
  <2>8. CASE device.ref[s] = "fit" /\ Step("patch", 0)
    <3>1. IsRun' /\ at'.step = "patch" /\ at'.plan = at.plan /\ at'.todo = todo /\ verdict' = verdict
      BY <1>1, <1>7, <2>8, TestSteps
    <3>2. s \in FitRefs /\ s \in device'.sending
      BY <1>7, <2>2, <2>8 DEF FitRefs, WithFlow
    <3>3. Remaining' = Remaining /\ s \in Remaining
      BY <1>7, <2>5, <3>1, <3>2 DEF Remaining
    <3>4. Subject' = s
      BY <1>7, <3>1 DEF Subject
    <3>5. Coming(f)'
      BY <1>3, <1>7, <2>5, <3>1, <3>2, <3>3, <3>4 DEF Coming
    <3> QED BY <1>1, <1>2, <2>5, <3>1, <3>5, StreamGoesOn
  <2>9. CASE device.ref[s] # "fit" /\ R!Another
    <3>1. s \notin FitRefs
      BY <2>9 DEF FitRefs
    <3>2. PICK rest \in Seq(WithFlow) : at'.todo = rest /\ rest # <<>> /\ InList(rest) \subseteq InList(todo)
             /\ \/ at'.step = "states" /\ InList(todo) = {s}
                \/ at'.step = "visit" /\ InList(todo) = {s} \cup InList(rest)
      BY <1>9, <2>9
    <3>3. Remaining' = FitRefs \cap InList(rest) /\ Remaining = FitRefs \cap InList(todo)
      BY <1>7, <2>5, <3>2 DEF Remaining
    <3>4. Coming(f)'
      BY <1>3, <2>5, <2>6, <3>1, <3>2, <3>3 DEF Coming
    <3> QED BY <1>1, <1>2, <1>9, <2>5, <2>9, <3>4, StreamGoesOn
  <2> QED BY <2>3, <2>7, <2>8, <2>9
<1>11. CASE at.step = "patch"
  <2>1. device' = [device EXCEPT !.on = @ \cup {r}, !.source[r] = s] /\ R!Another
    BY <1>2, <1>4, <1>6, <1>11, ReceptionRun DEF R!Activate, R!Chosen, On
  <2>2. PICK source : source = [device.source EXCEPT ![r] = s]
    OBVIOUS
  <2>3. source = [q \in Receiver |-> source[q]] /\ source[r] = s /\ \A q \in Receiver \ {r} : source[q] = device.source[q]
    BY <1>1, <1>5, <2>2 DEF ReceptionRecords
  <2>4. PICK on : on = device.on \cup {r}
    OBVIOUS
  <2>5. device' = [fault |-> device.fault, pace |-> device.pace, caps |-> device.caps, ref |-> device.ref,
                   configured |-> device.configured, on |-> on, source |-> source,
                   compliant |-> device.compliant, lit |-> device.lit, sending |-> device.sending]
    BY <1>1, <2>1, <2>2, <2>4 DEF ReceptionRecords
  <2>6. device'.ref = device.ref /\ device'.sending = device.sending /\ device'.on = on /\ device'.source = source
    BY <2>5
  <2>7. FitRefs' = FitRefs /\ WithFlow' = WithFlow
    BY <2>6 DEF FitRefs, WithFlow
  <2>8. ReceptionRecords'
    <3>1. \A g \in {"video", "audio"} : noted'.refs[g] \in Seq(WithFlow')
      BY <1>1, <2>7 DEF ReceptionRecords
    <3>2. on \subseteq Receiver
      BY <1>1, <1>5, <2>4 DEF ReceptionRecords
    <3>3. noted' = [known |-> noted'.known, refs |-> noted'.refs]
      BY <1>1 DEF ReceptionRecords
    <3>4. /\ device' = [fault |-> device'.fault, pace |-> device'.pace, caps |-> device'.caps, ref |-> device'.ref,
                        configured |-> device'.configured, on |-> device'.on, source |-> device'.source,
                        compliant |-> device'.compliant, lit |-> device'.lit, sending |-> device'.sending]
      BY <2>5
    <3> QED BY <2>3, <2>6, <3>1, <3>2, <3>3, <3>4 DEF ReceptionRecords
  <2>9. ASSUME NEW g PROVE Supply(g)' = Supply(g)
    BY <1>1, <2>7 DEF Supply, InList
  <2>10. s \in FitRefs \cap device.sending /\ s \in Supply(f)
    <3>1. s \in FitRefs \cap device.sending
      BY <1>3, <1>6, <1>11 DEF Coming
    <3>2. s \in Remaining
      BY <1>7, <3>1 DEF Remaining
    <3> QED BY <1>3, <3>1, <3>2 DEF Coming
  <2>11. Supplied'
    <3>1. ASSUME NEW q \in on PROVE source[q] \in Supply(FormatOf[q])
      <4>1. CASE q = r
        BY <1>5, <2>3, <2>10, <4>1
      <4>2. CASE q # r
        <5>1. q \in device.on /\ q \in Receiver
          BY <1>1, <2>4, <4>2 DEF ReceptionRecords
        <5> QED BY <1>8, <2>3, <4>2, <5>1 DEF Supplied
      <4> QED BY <4>1, <4>2
    <3> QED BY <2>6, <2>9, <3>1 DEF Supplied
  <2>12. Streaming(f)'
    <3>1. r \in on /\ source[r] \in device.sending \cap Supply(f)
      BY <2>3, <2>4, <2>10
    <3> QED BY <1>4, <2>6, <2>9, <3>1 DEF Streaming
  <2>13. PICK rest \in Seq(WithFlow) : at'.todo = rest /\ rest # <<>> /\ InList(rest) \subseteq InList(todo)
             /\ at'.step \in {"states", "visit"}
    BY <1>9, <2>1
  <2>14. Remaining' \subseteq Remaining
    BY <1>7, <2>7, <2>13 DEF Remaining
  <2>15. Coming(f)'
    BY <1>3, <2>7, <2>9, <2>12, <2>13, <2>14 DEF Coming
  <2> QED BY <1>1, <1>2, <1>9, <2>1, <2>8, <2>11, <2>15, StreamGoesOn
<1> QED BY <1>1, <1>10, <1>11

LEMMA ReceptionStep ==
    ReceptionInv /\ [R!Next]_R!suiteVars => ReceptionInv' /\ R!StreamsAreReceived
<1> SUFFICES ASSUME ReceptionInv, [R!Next]_R!suiteVars PROVE ReceptionInv' /\ R!StreamsAreReceived
  OBVIOUS
<1> DEFINE here == Head(at.plan)
           f == R!StreamTest[here]
           list == R!Receivers(f)
<1>1. ReceptionRecords /\ IsRun /\ Streams \subseteq DOMAIN verdict
  BY DEF ReceptionInv, ReceptionTypes
<1>2. ASSUME verdict' = verdict PROVE R!StreamsAreReceived
  BY <1>2 DEF R!StreamsAreReceived
<1>3. ASSUME ~Ended, NEW v, Conclude(v),
             here \in Streams /\ v \in {"PASS", "WARNING"} /\ list # <<>> =>
                 /\ v = "PASS" => Len(list) = 1
                 /\ R!Fed(Head(list)) /\ device.source[Head(list)] \in R!Range(noted.refs[f])
      PROVE  R!StreamsAreReceived
  <2>1. verdict'[here] = v /\ \A t \in DOMAIN verdict \ {here} : verdict'[t] = verdict[t]
    BY <1>1, <1>3, TestEnds
  <2>2. \A t \in Streams : verdict'[t] # verdict[t] => t = here /\ verdict'[t] = v
    BY <1>1, <2>1
  <2> QED BY <1>3, <2>2 DEF R!StreamsAreReceived, Streams
<1>4. CASE UNCHANGED R!suiteVars \/ (\E r \in Receiver : R!Turn(r)) \/ (\E o \in Output : R!Show(o))
  <2>1. UNCHANGED <<at, noted, verdict>> /\ device' = [device EXCEPT !.compliant = device'.compliant, !.lit = device'.lit]
    <3>1. CASE UNCHANGED R!suiteVars
      BY <1>1, <3>1 DEF R!suiteVars, ReceptionRecords
    <3>2. CASE \E r \in Receiver : R!Turn(r)
      BY <1>1, <3>2 DEF R!Turn, ReceptionRecords
    <3>3. CASE \E o \in Output : R!Show(o)
      BY <1>1, <3>3 DEF R!Show, ReceptionRecords
    <3> QED BY <1>4, <3>1, <3>2, <3>3
  <2> QED BY <1>2, <2>1, ReceptionMoves
<1>5. CASE R!SetUp
  <2>1. ~Ended /\ here = "set_up_tests" /\ device' = [device EXCEPT !.on = {}] /\ noted' = noted /\ Conclude("PASS")
    BY <1>5, ReceptionRun DEF R!SetUp, On
  <2>2. ReceptionRecords' /\ device'.on = {}
    BY <1>1, <2>1 DEF ReceptionRecords, WithFlow
  <2>3. Supplied'
    BY <2>2 DEF Supplied
  <2> QED BY <1>3, <2>1, <2>2, <2>3, ReceptionEnds, ReceptionNames
<1>6. CASE R!TearDown \/ R!NotCompliant \/ R!Capabilities
  <2>1. ~Ended /\ here \notin Streams \cup {"set_up_tests"} /\ UNCHANGED <<device, noted>> /\ \E v : Conclude(v)
    BY <1>6, ReceptionRun, ReceptionNames DEF R!TearDown, R!NotCompliant, R!Capabilities, On
  <2>2. device' = [device EXCEPT !.sending = device'.sending]
    BY <1>1, <2>1 DEF ReceptionRecords
  <2> QED BY <1>3, <2>1, <2>2, ReceptionKeeps
<1>7. CASE R!Excuse
  <2>1. /\ ~Ended /\ here # "set_up_tests" /\ UNCHANGED <<device, noted>>
        /\ \E v \in {"UNCLEAR", "DISABLED"} : Conclude(v)
    BY <1>7, ReceptionRun, ReceptionNames DEF R!Excuse, R!Excused, On, Streams
  <2>2. device' = [device EXCEPT !.sending = device'.sending]
    BY <1>1, <2>1 DEF ReceptionRecords
  <2> QED BY <1>3, <2>1, <2>2, ReceptionKeeps
<1>8. CASE R!FindReferences
  <2>1. ~Ended /\ here \notin Streams /\ \E v : Conclude(v)
    BY <1>8, ReceptionRun, ReceptionNames DEF R!FindReferences, On
  <2> QED BY <1>3, <1>8, <2>1, ReceptionLists
<1>9. CASE R!BeginStream
  <2>1. ~Ended /\ here \in Streams /\ at.step = "begin" /\ UNCHANGED <<device, noted>>
    BY <1>9, ReceptionRun DEF R!BeginStream, On, Streams
  <2>2. device' = [device EXCEPT !.sending = device'.sending] /\ here # "set_up_tests"
    BY <1>1, <2>1, ReceptionNames DEF ReceptionRecords
  <2>3. CASE \E v : Conclude(v) /\ (list = <<>> \/ v \notin {"PASS", "WARNING"})
    BY <1>3, <2>1, <2>2, <2>3, ReceptionKeeps
  <2>6. /\ device' = [device EXCEPT !.compliant = device'.compliant, !.lit = device'.lit, !.sending = device'.sending]
        /\ Supplied
    BY <1>1, <2>1, <2>2 DEF ReceptionRecords, ReceptionInv, OnlyFed
  <2>4. CASE /\ list # <<>> /\ noted.refs[f] # <<>> /\ verdict' = verdict
             /\ at' = [at EXCEPT !.step = "visit", !.todo = noted.refs[f], !.tries = 0]
    <3>1. PICK todo : todo = noted.refs[f]
      OBVIOUS
    <3>2. at' = [plan |-> at.plan, step |-> "visit", todo |-> todo, tries |-> 0]
      BY <1>1, <2>4, <3>1 DEF IsRun
    <3>9. at'.plan = at.plan /\ at'.step = "visit" /\ at'.todo = todo
      BY <3>2
    <3>10. at' = [plan |-> at'.plan, step |-> at'.step, todo |-> at'.todo, tries |-> at'.tries]
      BY <3>2
    <3>3. IsRun' /\ at'.plan = at.plan /\ at'.step = "visit" /\ at'.todo = todo
      BY <1>1, <2>4, <3>9, <3>10, TestGoesOn
    <3>4. todo \in Seq(WithFlow)
      BY <1>1, <2>1, <3>1, ReceptionNames DEF ReceptionRecords
    <3>5. /\ ReceptionRecords' /\ Supplied' /\ FitRefs' = FitRefs /\ WithFlow' = WithFlow
          /\ \A g : Supply(g)' = Supply(g)
      BY <1>1, <2>1, <2>2, <2>6, ReceptionStays
    <3>6. PICK g : g = f
      OBVIOUS
    <3>7. Remaining' = Supply(g)
      BY <3>1, <3>3, <3>5, <3>6 DEF Remaining, Supply
    <3>8. Coming(g)'
      BY <2>4, <3>1, <3>3, <3>4, <3>5, <3>6, <3>7 DEF Coming
    <3> QED BY <1>2, <2>1, <2>4, <3>3, <3>5, <3>6, <3>8, StreamGoesOn
  <2> QED BY <1>9, <2>3, <2>4, ReceptionRun DEF R!BeginStream, R!Visit
<1>10. CASE R!Activate
  <2>1. ~Ended /\ (verdict' = verdict \/ Conclude("FAIL"))
    BY <1>10, ReceptionRun DEF R!Activate, R!Another, On, Step
  <2> QED BY <1>2, <1>3, <1>10, <2>1, ReceptionActivates
<1>11. CASE R!States
  <2> DEFINE r == Head(list)
  <2>1. ~Ended /\ here \in Streams /\ at.step = "states" /\ UNCHANGED <<device, noted>>
    BY <1>11, ReceptionRun DEF R!States, On, Streams
  <2>2. /\ device' = [device EXCEPT !.sending = device'.sending] /\ here # "set_up_tests"
        /\ \A t, q : R!Step(t, q) => Step(t, q)
    BY <1>1, <2>1, ReceptionNames, ReceptionRun DEF ReceptionRecords
  <2>3. Supplied /\ f \in {"video", "audio"} /\ Coming(f)
    BY <2>1, ReceptionNames DEF ReceptionInv, OnlyFed, ToStream
  <2>8. list # <<>> /\ (Supply(f) = {} \/ Streaming(f))
    BY <2>1, <2>3 DEF Coming
  <2>4. CASE r \in device.on /\ \E v \in {"PASS", "WARNING"} : Conclude(v) /\ (v = "PASS" => ~(Len(list) > 1))
    <3>1. FormatOf[r] = f
      BY <2>8, ChosenReceiver
    <3>2. device.source[r] \in Supply(f)
      BY <2>3, <2>4, <3>1 DEF Supplied
    <3>3. Streaming(f)
      BY <2>8, <3>2
    <3>4. R!Fed(r) /\ device.source[r] \in R!Range(noted.refs[f])
      <4>1. noted.refs[f] \in Seq(WithFlow)
        BY <1>1, <2>1, ReceptionNames DEF ReceptionRecords
      <4>2. InList(noted.refs[f]) \subseteq R!Range(noted.refs[f])
        BY <4>1 DEF InList, R!Range
      <4> QED BY <3>3, <4>2 DEF Streaming, Supply, R!Fed
    <3>5. ~(Len(list) > 1) => Len(list) = 1
      <4> DEFINE S == {q \in Receiver : FormatOf[q] = f}
      <4>1. PICK given : given = list
        OBVIOUS
      <4>2. given \in Seq(S) /\ given # <<>>
        BY <2>8, <4>1, ReceiverLists
      <4> HIDE DEF S
      <4>3. ~(Len(given) > 1) => Len(given) = 1
        BY <4>2
      <4> QED BY <4>1, <4>3
    <3> QED BY <1>3, <2>1, <2>2, <2>4, <3>4, <3>5, ReceptionKeeps
  <2>5. CASE Conclude("UNCLEAR")
    BY <1>3, <2>1, <2>2, <2>5, ReceptionKeeps
  <2>6. CASE Step("states", at.tries + 1)
    <3>1. IsRun' /\ at'.plan = at.plan /\ at'.step = "states" /\ at'.todo = at.todo /\ verdict' = verdict
      BY <1>1, <2>6, TestSteps
    <3>2. device' = [device EXCEPT !.compliant = device'.compliant, !.lit = device'.lit, !.sending = device'.sending]
      BY <1>1, <2>1 DEF ReceptionRecords
    <3>3. /\ ReceptionRecords' /\ Supplied' /\ FitRefs' = FitRefs /\ WithFlow' = WithFlow
          /\ device' = device /\ \A g : Supply(g)' = Supply(g)
      BY <1>1, <2>1, <2>3, <3>2, ReceptionStays
    <3>4. PICK g : g = f
      OBVIOUS
    <3>5. Remaining' = Remaining
      BY <3>1, <3>3 DEF Remaining
    <3>6. Streaming(g) => Streaming(g)'
      BY <3>3 DEF Streaming
    <3>7. Coming(g)'
      BY <2>1, <2>3, <3>1, <3>3, <3>4, <3>5, <3>6 DEF Coming
    <3> QED BY <1>2, <2>1, <3>1, <3>3, <3>4, <3>7, StreamGoesOn
  <2>7. \/ r \in device.on /\ \E v \in {"PASS", "WARNING"} : Conclude(v) /\ (v = "PASS" => ~(Len(list) > 1))
        \/ Conclude("UNCLEAR")
        \/ Step("states", at.tries + 1)
    BY <1>11, ReceptionRun DEF R!States, R!Counted, R!Chosen
  <2> QED BY <2>4, <2>5, <2>6, <2>7
<1>12. CASE R!Signals
  <2>1. /\ ~Ended /\ here \notin Streams \cup {"set_up_tests"} /\ noted' = noted
        /\ device' = device \/ device' = [device EXCEPT !.sending = @ \ {Subject}]
    BY <1>12, ReceptionRun, ReceptionNames DEF R!Signals, On
  <2>2. device' = [device EXCEPT !.sending = device'.sending]
    BY <1>1, <2>1 DEF ReceptionRecords
  <2>3. CASE \E v : Conclude(v)
    BY <1>3, <2>1, <2>2, <2>3, ReceptionKeeps
  <2>4. CASE /\ verdict' = verdict /\ at'.plan = at.plan
             /\ at' = [plan |-> at'.plan, step |-> at'.step, todo |-> at'.todo, tries |-> at'.tries]
    <3>1. device' = [device EXCEPT !.compliant = device'.compliant, !.lit = device'.lit, !.sending = device'.sending]
      BY <1>1, <2>2 DEF ReceptionRecords
    <3>2. ReceptionRecords' /\ device'.on = device.on /\ (Supplied => Supplied')
      BY <1>1, <2>1, <3>1, ReceptionStays
    <3>3. IsRun' /\ ToStream'
      BY <1>1, <2>1, <2>4, TestGoesOn DEF ToStream, Streams
    <3> QED BY <1>2, <2>4, <3>2, <3>3, ReceptionGoesOn
  <2>5. \/ \E v : Conclude(v)
        \/ /\ verdict' = verdict /\ at'.plan = at.plan
           /\ at' = [plan |-> at'.plan, step |-> at'.step, todo |-> at'.todo, tries |-> at'.tries]
    BY <1>1, <1>12, ReceptionRun DEF R!Signals, R!Visit, Step, IsRun
  <2> QED BY <2>3, <2>4, <2>5
<1> QED BY <1>4, <1>5, <1>6, <1>7, <1>8, <1>9, <1>10, <1>11, <1>12 DEF R!Next, R!Tests

\* A list between its set up and its tear down.
Between(p, s, a, b) == p = <<a>> \o s \o <<b>>
Bounded(p, s, a, b) ==
    Len(p) = Len(s) + 2 /\ p[1] = a /\ p[Len(s) + 2] = b /\ \A k \in 1..Len(s) : p[k + 1] = s[k]

LEMMA WholePlan ==
    ASSUME NEW X, NEW s \in Seq(X), NEW a, NEW b, NEW p, Between(p, s, a, b)
    PROVE  Bounded(p, s, a, b)
<1> DEFINE Y == X \cup {a, b}
<1>1. PICK first : first \in Seq(Y) /\ first = <<a>> /\ Len(first) = 1 /\ first[1] = a
  <2>1. <<a>> \in Seq(Y) /\ Len(<<a>>) = 1 /\ <<a>>[1] = a
    OBVIOUS
  <2> HIDE DEF Y
  <2> QED BY <2>1
<1>2. PICK last : last \in Seq(Y) /\ last = <<b>> /\ Len(last) = 1 /\ last[1] = b
  <2>1. <<b>> \in Seq(Y) /\ Len(<<b>>) = 1 /\ <<b>>[1] = b
    OBVIOUS
  <2> HIDE DEF Y
  <2> QED BY <2>1
<1>3. s \in Seq(Y) /\ Len(s) \in Nat
  OBVIOUS
<1> HIDE DEF Y
<1>4. PICK u : u = first \o s
  OBVIOUS
<1>5. u \in Seq(Y) /\ Len(u) = Len(s) + 1 /\ u[1] = a /\ \A k \in 1..Len(s) : u[k + 1] = s[k]
  BY <1>1, <1>3, <1>4
<1>6. p = u \o last
  BY <1>1, <1>2, <1>4 DEF Between
<1>7. Len(p) = Len(s) + 2 /\ p[Len(s) + 2] = b /\ \A k \in 1..Len(s) + 1 : p[k] = u[k]
  BY <1>2, <1>3, <1>5, <1>6
<1>8. 1 \in 1..Len(s) + 1 /\ \A k \in 1..Len(s) : k + 1 \in 1..Len(s) + 1
  BY <1>3
<1> QED BY <1>5, <1>7, <1>8 DEF Bounded

LEMMA ReceptionInit == R!Init => ReceptionInv
<1> SUFFICES ASSUME R!Init PROVE ReceptionInv
  OBVIOUS
<1>1. PICK order : order = R!Order
  OBVIOUS
<1>2. /\ order = [k \in 1..10 |-> order[k]] /\ \A k \in 1..10 : order[k] # "tear_down_tests"
      /\ \A k \in 1..10 : order[k] = "test_04_03" => k = 3
      /\ Streams = {order[4], order[6], order[9], order[10]} /\ order[1] \notin Streams /\ order[2] \notin Streams
  BY <1>1, ReceptionNames DEF R!Order
<1>3. PICK plan \in Plans(order) : at = Position(plan)
  <2>1. R!Plans(order) = Plans(order)
    BY DEF R!Plans, Plans
  <2>2. PICK plan : plan \in R!Plans(order) /\ at = R!Position(plan)
    BY <1>1 DEF R!Init
  <2> QED BY <2>1, <2>2 DEF R!Position, Position
<1>4. verdict = NoVerdicts(order)
  BY <1>1 DEF R!Init, R!NoVerdicts, NoVerdicts
<1>5. IsRun /\ Head(at.plan) = "set_up_tests"
  BY <1>2, <1>3, <1>4, PlansArePlans
<1>6. Streams \subseteq DOMAIN verdict
  BY <1>2, <1>4 DEF NoVerdicts
<1>7. at.plan = plan /\ at.step = "begin"
  BY <1>3 DEF Position
<1>8. ReceptionRecords
  <2>1. R!Range(R!Formats) = {"video", "audio"}
    BY ReceptionNames
  <2>2. /\ noted = [known |-> {}, refs |-> [f \in {"video", "audio"} |-> <<>>]]
        /\ device.on \subseteq Receiver /\ device.source = [r \in Receiver |-> NoSender]
        /\ device = [fault |-> device.fault, pace |-> device.pace, caps |-> device.caps, ref |-> device.ref,
                     configured |-> device.configured, on |-> device.on, source |-> device.source,
                     compliant |-> device.compliant, lit |-> device.lit, sending |-> device.sending]
    BY <2>1 DEF R!Init
  <2> QED BY <2>2 DEF ReceptionRecords
<1>9. ListedFirst
  <2>1. PICK tests \in {order} \cup {<<order[i]>> : i \in DOMAIN order} :
          plan = <<"set_up_tests">> \o tests \o <<"tear_down_tests">>
    BY <1>3 DEF Plans
  <2>2. CASE tests = order
    <3>1. Len(plan) = 12 /\ plan[1] = "set_up_tests" /\ plan[12] = "tear_down_tests"
          /\ \A k \in 2..11 : plan[k] = order[k - 1]
      <4> DEFINE X == {order[k] : k \in 1..10}
      <4>1. order \in Seq(X) /\ Len(order) = 10
        BY <1>2
      <4> HIDE DEF X
      <4>2. Between(plan, order, "set_up_tests", "tear_down_tests")
        BY <2>1, <2>2 DEF Between
      <4>3. Len(plan) = 12 /\ plan[1] = "set_up_tests" /\ plan[12] = "tear_down_tests"
            /\ \A k \in 1..10 : plan[k + 1] = order[k]
        <5>1. Bounded(plan, order, "set_up_tests", "tear_down_tests")
          BY <4>1, <4>2, WholePlan
        <5> QED BY <4>1, <5>1 DEF Bounded
      <4>4. \A k \in 2..11 : k - 1 \in 1..10 /\ (k - 1) + 1 = k
        OBVIOUS
      <4> QED BY <4>3, <4>4
    <3>2. ASSUME NEW k \in 1..12, plan[k] = "test_04_03" PROVE k = 4
      BY <1>2, <3>1, <3>2
    <3>3. plan[1] \notin Streams /\ plan[2] \notin Streams /\ plan[3] \notin Streams
      <4>1. plan[2] = order[1] /\ plan[3] = order[2]
        BY <3>1
      <4>2. "set_up_tests" \notin Streams
        BY ReceptionNames
      <4> QED BY <1>2, <3>1, <4>1, <4>2
    <3>4. \A j \in 1..3 : j = 1 \/ j = 2 \/ j = 3
      OBVIOUS
    <3> QED BY <1>7, <3>1, <3>2, <3>3, <3>4 DEF ListedFirst
  <2>3. CASE \E i \in DOMAIN order : tests = <<order[i]>>
    <3>1. PICK i \in DOMAIN order : tests = <<order[i]>>
      BY <2>3
    <3>2. PICK test : test = order[i]
      OBVIOUS
    <3>3. Len(plan) = 3 /\ plan[1] = "set_up_tests" /\ plan[3] = "tear_down_tests"
      <4>1. Between(plan, <<test>>, "set_up_tests", "tear_down_tests")
        BY <2>1, <3>1, <3>2 DEF Between
      <4>2. <<test>> \in Seq({test}) /\ Len(<<test>>) = 1
        OBVIOUS
      <4>3. Bounded(plan, <<test>>, "set_up_tests", "tear_down_tests")
        BY <4>1, <4>2, WholePlan
      <4> QED BY <4>2, <4>3 DEF Bounded
    <3>4. ASSUME NEW k \in 1..3, plan[k] = "test_04_03", NEW j \in 1..(k - 1) PROVE plan[j] \notin Streams
      <4>1. k = 2 /\ j = 1
        BY <3>3, <3>4
      <4> QED BY <3>3, <4>1, ReceptionNames
    <3> QED BY <1>7, <3>3, <3>4 DEF ListedFirst
  <2> QED BY <2>1, <2>2, <2>3
<1>10. ~Ended
  BY <1>5, <1>7, <1>3, <1>4 DEF Ended, IsRun, IsPlan, Plans
<1> QED BY <1>5, <1>6, <1>7, <1>8, <1>9, <1>10 DEF ReceptionInv, ReceptionTypes, OnlyFed, ToStream

-----------------------------------------------------------------------------
(* IS-05: activations are awaited.                                          *)

ConnectionInv ==
    /\ at = [plan |-> at.plan, step |-> at.step, todo |-> at.todo, tries |-> at.tries]
    /\ DOMAIN P!Activation \subseteq DOMAIN verdict

LEMMA ConnectionInit == P!Init => ConnectionInv
<1> SUFFICES ASSUME P!Init PROVE ConnectionInv
  OBVIOUS
<1>1. DOMAIN P!Activation = {P!Order[k] : k \in 16..21} /\ DOMAIN P!Order = 1..23
  BY DEF P!Activation, P!Order
<1> HIDE DEF P!Order
<1> QED
  BY <1>1 DEF ConnectionInv, P!Init, P!NoVerdicts, P!Position

LEMMA ConnectionStep ==
    ConnectionInv /\ [P!Next]_P!suiteVars => ConnectionInv' /\ P!ActivationIsAwaited
<1> SUFFICES ASSUME ConnectionInv, [P!Next]_P!suiteVars
             PROVE  ConnectionInv' /\ P!ActivationIsAwaited
  OBVIOUS
<1>1. CASE UNCHANGED P!suiteVars \/ \E p \in P!Port : P!Fire(p)
  BY <1>1 DEF P!suiteVars, P!Fire, ConnectionInv, P!ActivationIsAwaited
<1>2. CASE P!Tests
  <2> DEFINE IsPosition(p) == p = [plan |-> p.plan, step |-> p.step, todo |-> p.todo, tries |-> p.tries]
             Kept == DOMAIN verdict' = DOMAIN verdict /\ IsPosition(at')
  <2>0. IsPosition(at)
    BY DEF ConnectionInv
  <2>1. \A v : P!Conclude(v) => Kept
    BY DEF P!Conclude, P!Position
  <2>2. \A step, tries : P!Step(step, tries) => Kept
    BY <2>0 DEF P!Step
  <2>3. \A subjects : P!Visit(subjects) => Kept
    BY <2>0, <2>1 DEF P!Visit
  <2>4. \A v : P!LeaveAs(v) => Kept
    BY <2>0, <2>1 DEF P!LeaveAs
  <2> HIDE DEF Kept
  <2>5. Kept
    BY <1>2, <2>1, <2>2, <2>3, <2>4
    DEF  P!Tests, P!SetUp, P!Begin, P!TransportFiles, P!NoAuto, P!Leave, P!PatchAutoParams, P!Patch, P!Goto, P!EmptyPatch, P!InvalidPatch,
        P!IdentityPatch, P!ChangeParam, P!StageForActivation, P!StagedDefault, P!Check,
        P!ActiveRead, P!BulkStage
  <2>6. ASSUME P!On(DOMAIN P!Activation, "active"), at'.todo # at.todo
        PROVE  device.active[P!Subject].fresh \/ verdict'[P!Here] = "FAIL"
    <3>1. P!ActiveRead
      <4>1. DOMAIN P!Activation \cap P!Range(P!PatchAuto) = {}
        BY DEF P!Activation, P!PatchAuto, P!Range
      <4> QED
        BY <1>2, <2>6, <4>1
        DEF P!Tests, P!On, P!SetUp, P!Begin, P!TransportFiles, P!NoAuto, P!PatchAutoParams, P!EmptyPatch,
            P!InvalidPatch, P!IdentityPatch, P!ChangeParam, P!StageForActivation, P!StagedDefault, P!BulkStage
    <3>2. P!Here \in DOMAIN verdict
      BY <2>6 DEF P!On, P!Here, ConnectionInv
    <3>3. CASE P!Shown(P!Subject)
      BY <3>3 DEF P!Shown
    <3>4. CASE ~P!Shown(P!Subject)
      <4>1. \A tries : P!Step("active", tries) => at'.todo = at.todo
        BY <2>0 DEF P!Step
      <4> QED
        BY <2>6, <3>1, <3>2, <3>4, <4>1 DEF P!ActiveRead, P!Conclude, P!Here
    <3> QED
      BY <3>3, <3>4
  <2> QED
    BY <2>5, <2>6 DEF P!ActivationIsAwaited, ConnectionInv, Kept
<1> QED
  BY <1>1, <1>2 DEF P!Next

-----------------------------------------------------------------------------
(* Lists that are joined, by induction over the numbers up to N.            *)

\* f joins the first n of the lists, for n up to N.
Joins(f, lists, N) ==
    f = [n \in 0..N |-> IF n = 0 THEN <<>> ELSE f[n - 1] \o lists[n]]

\* Lists can be joined, whatever their number.
LEMMA SomeJoins ==
    ASSUME NEW lists, NEW N \in Nat
    PROVE  \E f : Joins(f, lists, N)
<1> DEFINE S == {n \in Nat : \E f : Joins(f, lists, n)}
<1>1. 0 \in S
  <2> DEFINE f == [i \in 0..0 |-> <<>>]
  <2>1. Joins(f, lists, 0)
    BY DEF Joins
  <2> HIDE DEF f
  <2> QED
    BY <2>1
<1>2. ASSUME NEW n \in 0..N - 1, n \in S PROVE n + 1 \in S
  <2>1. PICK f : Joins(f, lists, n)
    BY <1>2
  <2> DEFINE g == [i \in 0..n + 1 |-> IF i <= n THEN f[i] ELSE f[n] \o lists[i]]
  <2>2. n \in Nat
    OBVIOUS
  <2>3. ASSUME NEW i \in 0..n + 1
        PROVE  g[i] = IF i = 0 THEN <<>> ELSE g[i - 1] \o lists[i]
    <3>1. CASE i = n + 1
      <4>1. i # 0 /\ g[i - 1] = f[n] /\ ~(i <= n)
        BY <2>2, <3>1
      <4> QED
        BY <4>1
    <3>2. CASE i \in 0..n
      <4>1. g[i] = f[i] /\ (i # 0 => g[i - 1] = f[i - 1])
        BY <2>2, <3>2
      <4>2. f[i] = IF i = 0 THEN <<>> ELSE f[i - 1] \o lists[i]
        BY <2>1, <3>2 DEF Joins
      <4> HIDE DEF g
      <4> QED
        BY <4>1, <4>2
    <3> QED
      BY <2>2, <3>1, <3>2
  <2>4. Joins(g, lists, n + 1)
    BY <2>3 DEF Joins
  <2> HIDE DEF g
  <2> QED
    BY <2>2, <2>4
<1>3. N \in S
  <2> HIDE DEF S
  <2>1. 0..N \subseteq S
    BY <1>1, <1>2, UpTo
  <2> QED
    BY <2>1
<1> QED
  BY <1>3

LEMMA JoinedLists ==
    ASSUME NEW S, NEW lists \in Seq(Seq(S))
    PROVE  E!Concatenation(lists) \in Seq(S)
<1>1. PICK N \in Nat : N = Len(lists) /\ \A n \in 1..N : lists[n] \in Seq(S)
  OBVIOUS
<1>2. PICK f : f = CHOOSE g : Joins(g, lists, N)
  OBVIOUS
<1>3. E!Concatenation(lists) = f[N]
  BY <1>1, <1>2 DEF E!Concatenation, Joins
<1>a. /\ f[0] = <<>>
      /\ \A n \in 1..N : f[n] = f[n - 1] \o lists[n]
  <2>1. Joins(f, lists, N)
    BY <1>2, SomeJoins
  <2>2. ASSUME NEW n \in 0..N PROVE f[n] = IF n = 0 THEN <<>> ELSE f[n - 1] \o lists[n]
    BY <2>1, Zenon DEF Joins
  <2>3. 0 \in 0..N /\ \A n \in 1..N : n \in 0..N /\ n # 0
    OBVIOUS
  <2> HIDE <1>2
  <2> QED BY <2>2, <2>3, Zenon
<1> DEFINE W == {n \in 0..N : f[n] \in Seq(S)}
<1>4. 0 \in W
  <2>1. <<>> \in Seq(S) /\ 0 \in 0..N
    OBVIOUS
  <2> QED
    BY <1>a, <2>1, Zenon
<1>5. ASSUME NEW n \in 0..N - 1, n \in W PROVE n + 1 \in W
  <2>1. n + 1 \in 1..N /\ (n + 1) - 1 = n
    BY <1>1
  <2>2. f[n + 1] = f[n] \o lists[n + 1]
    BY <1>a, <2>1
  <2>3. f[n] \in Seq(S) /\ lists[n + 1] \in Seq(S)
    BY <1>1, <1>5, <2>1
  <2>4. f[n + 1] \in Seq(S)
    BY <2>2, <2>3, ConcatProperties
  <2> QED
    BY <2>1, <2>4
<1>6. 0..N \subseteq W
  <2> HIDE DEF W
  <2> QED
    BY <1>4, <1>5, UpTo
<1> QED
  BY <1>3, <1>6

-----------------------------------------------------------------------------
(* IS-11: no Base EDID is left.                                             *)

LEMMA EdidLists ==
    ASSUME NEW S \in SUBSET MediaInput
    PROVE  E!List(S) \in Seq(S) /\ \A i \in S : \E k \in 1..Len(E!List(S)) : E!List(S)[k] = i
<1>1. IsFiniteSet(S)
  <2>1. IsFiniteSet(MediaInput)
    BY MediaAssumption DEF E!EdidTestsAssumption, E!IsFiniteSet, IsFiniteSet
  <2> QED
    BY <2>1, FS_Subset
<1>2. E!Cardinality(S) = Cardinality(S)
  BY DEF E!Cardinality, Cardinality
<1>3. E!List(S) = SomeOrder(S)
  BY <1>2 DEF E!List, E!SomeOrder, SomeOrder, E!IsInjective, IsInjective
<1>4. /\ SomeOrder(S) \in Seq(S) /\ Range(SomeOrder(S)) = S
  BY <1>1, ListsOfSets
<1> DEFINE list == SomeOrder(S)
<1>5. list \in Seq(S) /\ Range(list) = S
  BY <1>4
<1> HIDE DEF list
<1>6. \A i \in S : \E k \in 1..Len(list) : list[k] = i
  BY <1>5 DEF Range
<1> QED
  BY <1>3, <1>5, <1>6 DEF list

\* The Senders with Inputs are listed, and each stands for its usable Inputs.
LEMMA UsableInputs ==
    ASSUME NEW s \in Sender
    PROVE  E!Usable(s) \in Seq(Base \cup {NoInput})
<1> DEFINE list == InputsOf[s]
           bad == {k \in DOMAIN InputsOf[s] : InputsOf[s][k] \notin Base \cap Connected}
           n == IF bad = {} THEN Len(list) ELSE E!Min(bad) - 1
<1>1. list \in Seq(MediaInput)
  BY MediaAssumption DEF E!EdidTestsAssumption
<1>2. Len(list) \in Nat /\ DOMAIN list = 1..Len(list) /\ bad = {k \in 1..Len(list) : list[k] \notin Base \cap Connected}
  <2> HIDE DEF list
  <2> QED
    BY <1>1 DEF list
<1> HIDE DEF list, bad
<1>3. bad # {} => E!Min(bad) \in bad /\ \A k \in bad : E!Min(bad) <= k
  <2> SUFFICES ASSUME bad # {} PROVE E!Min(bad) \in bad /\ \A k \in bad : E!Min(bad) <= k
    OBVIOUS
  <2>1. \E k \in bad : \A m \in bad : k <= m
    <3>1. bad \subseteq Nat
      BY <1>2
    <3> QED
      BY <3>1, LeastNumber
  <2> QED
    BY <2>1 DEF E!Min
<1>4. n \in 0..Len(list) /\ \A k \in 1..n : k \in 1..Len(list) /\ k \notin bad
  <2>1. CASE bad = {}
    BY <1>2, <2>1
  <2>2. CASE bad # {}
    <3>1. PICK m \in 1..Len(list) : m = E!Min(bad) /\ \A k \in bad : m <= k
      BY <1>2, <1>3, <2>2
    <3>2. n = m - 1
      BY <2>2, <3>1
    <3>3. Len(list) \in Nat
      BY <1>2
    <3> HIDE DEF n
    <3>4. n \in 0..Len(list)
      BY <3>1, <3>2, <3>3
    <3>5. ASSUME NEW k \in 1..n PROVE k \in 1..Len(list) /\ k \notin bad
      <4>1. k \in 1..Len(list) /\ ~(m <= k)
        BY <3>1, <3>2, <3>3
      <4> QED
        BY <3>1, <4>1
    <3> QED
      BY <3>4, <3>5
  <2> QED
    BY <2>1, <2>2
<1> HIDE DEF n
<1>5. \A k \in 1..n : list[k] \in Base
  BY <1>2, <1>4
<1> DEFINE usable == SubSeq(list, 1, n)
<1>6. usable = [k \in 1..n |-> list[k]]
  BY <1>1, <1>4
<1>7. usable \in Seq(Base)
  <2> HIDE DEF usable
  <2> QED
    BY <1>4, <1>5, <1>6
<1>8. E!Usable(s) = IF usable = <<>> THEN <<NoInput>> ELSE usable
  BY DEF E!Usable, usable, n, list, bad
<1> HIDE DEF usable
<1>9. usable \in Seq(Base \cup {NoInput})
  BY <1>7
<1>10. <<NoInput>> \in Seq(Base \cup {NoInput})
  OBVIOUS
<1> QED
  BY <1>8, <1>9, <1>10

LEMMA UsableLists ==
    ASSUME NEW with \in Seq(Sender)
    PROVE  E!Concatenation([k \in DOMAIN with |-> E!Usable(with[k])]) \in Seq(Base \cup {NoInput})
<1>1. \A k \in 1..Len(with) : E!Usable(with[k]) \in Seq(Base \cup {NoInput})
  BY UsableInputs
<1> DEFINE lists == [k \in DOMAIN with |-> E!Usable(with[k])]
<1>2. lists = [k \in 1..Len(with) |-> E!Usable(with[k])] /\ Len(with) \in Nat
  OBVIOUS
<1>3. lists \in Seq(Seq(Base \cup {NoInput}))
  BY <1>1, <1>2
<1> QED
  BY <1>3, JoinedLists

Bare == \A i \in MediaInput : device.base[i] = "none"

\* The tests that put Base EDIDs and delete them, one by one, and while one is put.
Putting == {"test_01_02", "test_01_05", "test_01_06", "test_02_03_04"}
Holding == ~E!Ended /\ Head(at.plan) \in Putting /\ at.step \in {"effective", "put", "delete"}

IsInputDevice(d) ==
    d = [fault |-> d.fault, pace |-> d.pace, network |-> d.network, base |-> d.base,
         effective |-> d.effective, signal |-> d.signal, changed |-> d.changed]

EdidRecords ==
    /\ IsInputDevice(device)
    /\ noted = [with |-> noted.with, silent |-> noted.silent, edid |-> noted.edid]
    /\ noted.with \in Seq(Sender)

EdidBases ==
    /\ device.base \in [MediaInput -> {"none", "valid", "adjustable"}]
    /\ \A i \in MediaInput \ Base : device.base[i] = "none"

EdidTodo ==
    ~E!Ended /\ at.step # "begin" /\ Head(at.plan) \in Putting \cup {"tear_down_tests"} =>
        /\ at.todo \in Seq(Base \cup {NoInput}) /\ at.todo # <<>>
        /\ Holding => Head(at.todo) \in Base
        /\ Head(at.plan) # "test_02_03_04" => at.todo \in Seq(Base)
        /\ Head(at.plan) = "tear_down_tests" => at.step = "visit"

\* Tear down still has to visit the Inputs with a Base EDID.
EdidTearDown ==
    /\ "tear_down_tests" \in DOMAIN verdict
    /\ ~E!Ended => verdict["tear_down_tests"] = "none"
    /\ E!Ended /\ verdict["tear_down_tests"] # "none" => Bare
    /\ ~E!Ended /\ Head(at.plan) = "tear_down_tests" /\ at.step = "visit" =>
          \A i \in MediaInput : device.base[i] # "none" => \E k \in 1..Len(at.todo) : at.todo[k] = i

\* While a request may fail no test has left a Base EDID, nor will the one at work.
EdidTidy ==
    device.network = "failing" =>
        /\ device.pace = "instant"
        /\ ~E!Ended /\ Head(at.plan) # "set_up_tests" =>
              \A i \in MediaInput : ~(Holding /\ i = Head(at.todo)) => device.base[i] = "none"
        /\ Holding /\ Head(at.plan) = "test_01_02" /\ at.step = "effective" =>
              device.base[Head(at.todo)] = "valid"
        /\ Holding /\ Head(at.plan) = "test_01_06" /\ at.step = "effective" =>
              device.base[Head(at.todo)] = "adjustable" /\ noted.edid = "default"
        /\ Holding /\ at.step = "put" =>
              {Head(at.todo)} \cup E!SendersOf(Head(at.todo)) \subseteq device.changed

EdidConforming == IsRun /\ EdidBases /\ EdidTodo /\ EdidTearDown /\ EdidTidy
EdidInv == EdidRecords /\ (E!Conforming => EdidConforming)

\* How a test ends, begins and goes on to its next Input.
LEMMA EdidEnds ==
    ASSUME EdidConforming, ~E!Ended, NEW v, E!Conclude(v), EdidBases',
           device'.network = "failing" => device'.pace = "instant" /\ Bare',
           Head(at.plan) = "tear_down_tests" => Bare'
    PROVE  EdidConforming'
<1>1. Conclude(v) /\ ~Ended /\ IsRun
  BY DEF E!Conclude, Conclude, E!Position, Position, E!Ended, Ended, EdidConforming
<1>2. /\ IsRun' /\ at' = Position(Tail(at.plan)) /\ DOMAIN verdict' = DOMAIN verdict
      /\ \A t \in DOMAIN verdict \ {Head(at.plan)} : verdict'[t] = verdict[t]
      /\ Head(at.plan) = "tear_down_tests" <=> Tail(at.plan) = <<>>
  BY <1>1, TestEnds DEF Conclude
<1>3. at'.step = "begin" /\ at'.plan = Tail(at.plan)
  BY <1>2 DEF Position
<1>4. ~Holding'
  BY <1>3 DEF Holding
<1>5. EdidTearDown'
  <2>1. CASE Head(at.plan) = "tear_down_tests"
    BY <1>2, <1>3, <2>1 DEF EdidTearDown, EdidConforming, E!Ended
  <2>2. CASE Head(at.plan) # "tear_down_tests"
    BY <1>2, <1>3, <2>2 DEF EdidTearDown, EdidConforming, E!Ended
  <2> QED
    BY <2>1, <2>2
<1> QED
  BY <1>2, <1>3, <1>4, <1>5 DEF EdidConforming, EdidTodo, EdidTidy, Bare

\* A test that puts Base EDIDs begins its loop over Inputs, ...
LEMMA EdidBegins ==
    ASSUME EdidConforming, E!On(Putting, "begin"), NEW list \in Seq(Base \cup {NoInput}),
           Head(at.plan) # "test_02_03_04" => list \in Seq(Base),
           E!Visit(list), UNCHANGED <<device, noted>>
    PROVE  EdidConforming'
<1>0. Head(at.plan) \in Putting /\ ~E!Ended /\ at.step = "begin" /\ ~Holding
  BY DEF E!On, Holding
<1>1. Head(at.plan) \notin {"tear_down_tests", "set_up_tests"}
  BY <1>0 DEF Putting
<1>2. CASE E!Conclude("UNCLEAR")
  <2>1. EdidBases' /\ (device'.network = "failing" => device'.pace = "instant" /\ Bare')
    BY <1>0, <1>1 DEF EdidConforming, EdidBases, EdidTidy, Bare
  <2> QED
    BY <1>0, <1>1, <1>2, <2>1, EdidEnds
<1>3. CASE /\ list # <<>> /\ at' = [at EXCEPT !.step = "visit", !.todo = list, !.tries = 0]
           /\ UNCHANGED verdict
  <2>1. at' = [plan |-> at.plan, step |-> "visit", todo |-> list, tries |-> 0]
    BY <1>3 DEF EdidConforming, IsRun
  <2>2. ~Holding' /\ ~E!Ended' /\ IsRun'
    BY <1>0, <1>3, <2>1, TestGoesOn DEF Holding, E!Ended, EdidConforming
  <2> QED
    BY <1>0, <1>1, <1>3, <2>1, <2>2
    DEF EdidConforming, EdidBases, EdidTodo, EdidTearDown, EdidTidy, Bare
<1> QED
  BY <1>2, <1>3 DEF E!Visit

\* ... takes a step with one of them, ...
LEMMA EdidMoves ==
    ASSUME EdidConforming, ~E!Ended, Head(at.plan) \in Putting, at.step # "begin",
           NEW step, NEW tries, step # "begin", E!Step(step, tries), EdidBases',
           step \in {"effective", "put", "delete"} => Head(at.todo) \in Base,
           device'.network = "failing" =>
               /\ device'.pace = "instant"
               /\ \A i \in MediaInput : ~(step \in {"effective", "put", "delete"} /\ i = Head(at.todo)) =>
                                          device'.base[i] = "none"
               /\ Head(at.plan) = "test_01_02" /\ step = "effective" =>
                     device'.base[Head(at.todo)] = "valid"
               /\ Head(at.plan) = "test_01_06" /\ step = "effective" =>
                     device'.base[Head(at.todo)] = "adjustable" /\ noted'.edid = "default"
               /\ step = "put" => {Head(at.todo)} \cup E!SendersOf(Head(at.todo)) \subseteq device'.changed
    PROVE  EdidConforming'
<1>1. Head(at.plan) \notin {"tear_down_tests", "set_up_tests"}
  BY DEF Putting
<1>2. at' = [plan |-> at.plan, step |-> step, todo |-> at.todo, tries |-> tries] /\ verdict' = verdict
  BY DEF EdidConforming, IsRun, E!Step
<1>3. IsRun' /\ ~E!Ended' /\ (Holding' <=> step \in {"effective", "put", "delete"})
  BY <1>2, TestGoesOn DEF EdidConforming, E!Ended, Holding
<1>4. EdidTodo'
  BY <1>1, <1>2, <1>3 DEF EdidConforming, EdidTodo
<1>5. EdidTearDown'
  BY <1>1, <1>2, <1>3 DEF EdidConforming, EdidTearDown
<1>6. EdidTidy'
  BY <1>1, <1>2, <1>3 DEF EdidTidy
<1> QED
  BY <1>3, <1>4, <1>5, <1>6 DEF EdidConforming

LEMMA TailOfMore ==
    ASSUME NEW T0, NEW todo \in Seq(T0), todo # <<>>, Len(todo) # 1
    PROVE  Tail(todo) \in Seq(T0) /\ Tail(todo) # <<>>
<1>1. Tail(todo) \in Seq(T0) /\ Len(Tail(todo)) = Len(todo) - 1 /\ Len(todo) \in Nat
  BY HeadTailProperties
<1>2. Len(Tail(todo)) # 0
  BY <1>1
<1> QED
  BY <1>1, <1>2

\* ... or is done with it: no Base EDID is left while a request may yet fail.
LEMMA EdidLeaves ==
    ASSUME EdidConforming, ~E!Ended, Head(at.plan) \in Putting, at.step # "begin", E!Leave, EdidBases',
           device'.network = "failing" => device'.pace = "instant" /\ Bare'
    PROVE  EdidConforming'
<1>1. Head(at.plan) \notin {"tear_down_tests", "set_up_tests"}
  BY DEF Putting
<1>2. at.todo \in Seq(Base \cup {NoInput}) /\ at.todo # <<>>
  BY DEF EdidConforming, EdidTodo
<1>3. CASE E!Conclude("PASS")
  BY <1>1, <1>3, EdidEnds
<1>4. CASE /\ Len(at.todo) # 1 /\ at' = [at EXCEPT !.step = "visit", !.todo = Tail(@), !.tries = 0]
           /\ UNCHANGED verdict
  <2>1. at' = [plan |-> at.plan, step |-> "visit", todo |-> Tail(at.todo), tries |-> 0]
    BY <1>4 DEF EdidConforming, IsRun
  <2>2. Tail(at.todo) \in Seq(Base \cup {NoInput}) /\ Tail(at.todo) # <<>>
    BY <1>2, <1>4, TailOfMore
  <2>3. ~Holding' /\ ~E!Ended' /\ IsRun'
    BY <1>4, <2>1, TestGoesOn DEF Holding, E!Ended, EdidConforming
  <2>4. Head(at.plan) # "test_02_03_04" => Tail(at.todo) \in Seq(Base)
    BY <1>2, <1>4, TailOfMore DEF EdidConforming, EdidTodo
  <2> QED
    BY <1>1, <1>4, <2>1, <2>2, <2>3, <2>4
    DEF EdidConforming, EdidBases, EdidTodo, EdidTearDown, EdidTidy, Bare
<1> QED
  BY <1>3, <1>4 DEF E!Leave, E!LeaveAs

\* The tests that put no Base EDID.
LEMMA EdidLooks ==
    ASSUME EdidConforming, ~E!Ended,
           Head(at.plan) \notin Putting \cup {"set_up_tests", "tear_down_tests"},
           device' = device,
           \/ \E v : E!Conclude(v)
           \/ /\ verdict' = verdict /\ at'.plan = at.plan
              /\ at' = [plan |-> at'.plan, step |-> at'.step, todo |-> at'.todo, tries |-> at'.tries]
    PROVE  EdidConforming'
<1>1. ~Holding
  BY DEF Holding
<1>2. EdidBases' /\ (device'.network = "failing" => device'.pace = "instant" /\ Bare')
  BY <1>1 DEF EdidConforming, EdidBases, EdidTidy, Bare
<1>3. CASE \E v : E!Conclude(v)
  BY <1>2, <1>3, EdidEnds
<1>4. CASE ~\E v : E!Conclude(v)
  <2>1. ~Holding' /\ ~E!Ended' /\ IsRun'
    BY <1>4, TestGoesOn DEF Holding, E!Ended, EdidConforming
  <2> QED
    BY <1>2, <1>4, <2>1 DEF EdidConforming, EdidTodo, EdidTearDown, EdidTidy, Bare
<1> QED
  BY <1>3, <1>4

\* A Base EDID put or deleted.
LEMMA BaseIsPut ==
    ASSUME NEW d, IsInputDevice(d), NEW i, NEW e
    PROVE  LET after == E!WithBase(d, i, e)
           IN /\ IsInputDevice(after) /\ after.fault = d.fault /\ after.pace = d.pace
              /\ after.network = d.network /\ after.effective = d.effective
<1> DEFINE after == E!WithBase(d, i, e)
           base == [d.base EXCEPT ![i] = e]
<1>1. PICK changed : after = [d EXCEPT !.base = base, !.changed = changed]
  BY DEF E!WithBase
<1> HIDE DEF base, after
<1>2. DOMAIN d = {"fault", "pace", "network", "base", "effective", "signal", "changed"}
  BY DEF IsInputDevice
<1>3. DOMAIN after = DOMAIN d /\ after = [x \in DOMAIN after |-> after[x]]
  BY <1>1
<1>4. /\ after.fault = d.fault /\ after.pace = d.pace /\ after.network = d.network
      /\ after.effective = d.effective
  BY <1>1, <1>2
<1>5. IsInputDevice(after)
  BY <1>2, <1>3 DEF IsInputDevice
<1> QED
  BY <1>4, <1>5 DEF after

\* The Base EDID that was put is there ...
LEMMA BaseIsThere ==
    ASSUME NEW d, IsInputDevice(d), NEW i, NEW e
    PROVE  E!WithBase(d, i, e).base = [d.base EXCEPT ![i] = e]
<1> DEFINE base == [d.base EXCEPT ![i] = e]
<1>1. PICK changed : E!WithBase(d, i, e) = [d EXCEPT !.base = base, !.changed = changed]
  BY DEF E!WithBase
<1> HIDE DEF base
<1>2. DOMAIN d = {"fault", "pace", "network", "base", "effective", "signal", "changed"}
  BY DEF IsInputDevice
<1>3. E!WithBase(d, i, e).base = base
  BY <1>1, <1>2
<1> QED
  BY <1>3 DEF base

\* ... and the versions of the Input and its Senders change.
LEMMA BaseIsNoticed ==
    ASSUME NEW d, IsInputDevice(d), NEW i, NEW e, d.fault # "still", d.base[i] # e
    PROVE  {i} \cup E!SendersOf(i) \subseteq E!WithBase(d, i, e).changed
<1> DEFINE base == [d.base EXCEPT ![i] = e]
           changed == d.changed \cup {i} \cup E!SendersOf(i)
<1>1. E!WithBase(d, i, e) = [d EXCEPT !.base = base, !.changed = changed]
  BY DEF E!WithBase
<1>2. {i} \cup E!SendersOf(i) \subseteq changed
  OBVIOUS
<1> HIDE DEF base, changed
<1>3. DOMAIN d = {"fault", "pace", "network", "base", "effective", "signal", "changed"}
  BY DEF IsInputDevice
<1>4. E!WithBase(d, i, e).changed = changed
  BY <1>1, <1>3
<1> QED
  BY <1>2, <1>4

\* Versions are read: nothing else changes.
LEMMA ChangesAreSeen ==
    ASSUME NEW d, IsInputDevice(d), NEW i
    PROVE  LET after == E!Seen(d, i)
           IN /\ IsInputDevice(after) /\ after.fault = d.fault /\ after.pace = d.pace
              /\ after.network = d.network /\ after.effective = d.effective /\ after.base = d.base
<1> DEFINE changed == d.changed \ ({i} \cup E!SendersOf(i))
<1>1. E!Seen(d, i) = [d EXCEPT !.changed = changed]
  BY DEF E!Seen
<1> HIDE DEF changed
<1>2. [d EXCEPT !.changed = changed] =
        [fault |-> d.fault, pace |-> d.pace, network |-> d.network, base |-> d.base,
         effective |-> d.effective, signal |-> d.signal, changed |-> changed]
  BY DEF IsInputDevice
<1> QED
  BY <1>1, <1>2 DEF IsInputDevice

LEMMA EdidStep == EdidInv /\ [E!Next]_E!suiteVars => EdidInv'
<1> SUFFICES ASSUME EdidInv, [E!Next]_E!suiteVars PROVE EdidInv'
  OBVIOUS
<1> DEFINE here == Head(at.plan)
           InTime == device.pace = "instant" => ~E!Waiting
<1>0. EdidRecords /\ (E!Conforming => EdidConforming)
  BY DEF EdidInv
<1>1. EdidRecords' /\ device'.fault = device.fault
  <2> DEFINE Kept == IsInputDevice(device') /\ device'.fault = device.fault
             Noted == /\ noted' = [with |-> noted'.with, silent |-> noted'.silent, edid |-> noted'.edid]
                      /\ noted'.with \in Seq(Sender)
  <2>1. IsInputDevice(device) /\ (noted' = noted => Noted) /\ (device' = device => Kept)
    BY <1>0 DEF EdidRecords
  <2>2. /\ \A s : noted' = [noted EXCEPT !.silent = s] => Noted
        /\ \A e : noted' = [noted EXCEPT !.edid = e] => Noted
        /\ \A l \in Seq(Sender) : noted' = [noted EXCEPT !.with = l] => Noted
    BY <1>0 DEF EdidRecords
  <2>3. /\ \A i, e : device' = E!WithBase(device, i, e) => Kept
        /\ \A i, e : device' = E!WithBase(E!Seen(device, i), i, e) => Kept
        /\ \A i : device' = E!Seen(device, i) => Kept
    <3>1. \A i, e : IsInputDevice(E!WithBase(device, i, e)) /\ E!WithBase(device, i, e).fault = device.fault
      BY <2>1, BaseIsPut
    <3>2. \A i : IsInputDevice(E!Seen(device, i)) /\ E!Seen(device, i).fault = device.fault
      BY <2>1, ChangesAreSeen
    <3>3. \A i, e : /\ IsInputDevice(E!WithBase(E!Seen(device, i), i, e))
                    /\ E!WithBase(E!Seen(device, i), i, e).fault = device.fault
      <4> SUFFICES ASSUME NEW i, NEW e
                   PROVE  /\ IsInputDevice(E!WithBase(E!Seen(device, i), i, e))
                          /\ E!WithBase(E!Seen(device, i), i, e).fault = device.fault
        OBVIOUS
      <4> DEFINE d == E!Seen(device, i)
      <4>1. IsInputDevice(d) /\ d.fault = device.fault
        BY <3>2
      <4> HIDE DEF d
      <4>2. IsInputDevice(E!WithBase(d, i, e)) /\ E!WithBase(d, i, e).fault = d.fault
        BY <4>1, BaseIsPut
      <4> QED
        BY <4>1, <4>2 DEF d
    <3> QED
      BY <3>1, <3>2, <3>3
  <2>4. /\ \A n : device' = [device EXCEPT !.network = n] => Kept
        /\ \A b : device' = [device EXCEPT !.base = b] => Kept
        /\ \A i, e : device' = [device EXCEPT !.effective[i] = e] => Kept
        /\ \A i, s : device' = [device EXCEPT !.signal[i] = s] => Kept
    BY <2>1 DEF IsInputDevice
  <2>5. E!List({s \in Sender : InputsOf[s] # <<>>}) \in Seq(Sender)
    <3> DEFINE S == {s \in Sender : InputsOf[s] # <<>>}
    <3>1. IsFiniteSet(S)
      <4>1. IsFiniteSet(Sender)
        BY MediaAssumption DEF E!EdidTestsAssumption, E!IsFiniteSet, IsFiniteSet
      <4> QED
        BY <4>1, FS_Subset
    <3>2. E!List(S) = SomeOrder(S)
      <4>1. E!Cardinality(S) = Cardinality(S)
        BY DEF E!Cardinality, Cardinality
      <4> QED
        BY <4>1 DEF E!List, E!SomeOrder, SomeOrder, E!IsInjective, IsInjective
    <3>3. SomeOrder(S) \in Seq(S) /\ S \subseteq Sender
      BY <3>1, ListsOfSets
    <3> HIDE DEF S
    <3>4. SomeOrder(S) \in Seq(Sender)
      BY <3>3
    <3> QED
      BY <3>2, <3>4 DEF S
  <2> HIDE DEF Kept, Noted
  <2>6. CASE UNCHANGED E!suiteVars \/ (\E i \in MediaInput : E!Follow(i) \/ E!Signal(i))
    BY <2>1, <2>4, <2>6 DEF E!suiteVars, E!Follow, E!Signal, Kept, Noted, EdidRecords
  <2>7. CASE E!SetUp \/ E!TearDown \/ E!Hiccup
    BY <2>1, <2>3, <2>4, <2>7 DEF E!SetUp, E!TearDown, E!Hiccup, E!Delete, Kept, Noted, EdidRecords
  <2>8. CASE E!Signals \/ E!Invalid \/ E!Unsupported \/ E!WithInputs
    BY <2>1, <2>2, <2>3, <2>5, <2>8
    DEF E!Signals, E!Invalid, E!Unsupported, E!WithInputs, E!Begin, Kept, Noted, EdidRecords
  <2>9. CASE E!PutAndDelete \/ E!Adjusted
    BY <2>1, <2>2, <2>3, <2>9 DEF E!PutAndDelete, E!Adjusted, E!Begin, E!Put, E!Delete, Kept, Noted, EdidRecords
  <2>10. CASE E!Versions \/ E!SenderInputs
    BY <2>1, <2>3, <2>10 DEF E!Versions, E!SenderInputs, E!Begin, E!Put, E!Delete, Kept, Noted, EdidRecords
  <2> QED
    BY <2>6, <2>7, <2>8, <2>9, <2>10 DEF E!Next, E!Tests
<1>2. CASE ~E!Conforming
  BY <1>1, <1>2 DEF EdidInv, E!Conforming
<1>3. CASE E!Conforming
  <2>0. /\ EdidConforming /\ EdidBases /\ EdidTidy /\ EdidTodo /\ device.fault = "none"
        /\ IsInputDevice(device)
    BY <1>0, <1>3 DEF EdidConforming, E!Conforming, EdidRecords
  <2> SUFFICES EdidConforming'
    BY <1>1 DEF EdidInv
  <2>1. CASE UNCHANGED E!suiteVars \/ (\E i \in MediaInput : E!Follow(i) \/ E!Signal(i))
    <3>1. /\ UNCHANGED <<at, noted, verdict>>
          /\ device'.base = device.base /\ device'.network = device.network
          /\ device'.pace = device.pace /\ device'.changed = device.changed
      BY <1>0, <2>1 DEF E!suiteVars, E!Follow, E!Signal, EdidRecords, IsInputDevice
    <3> QED
      BY <2>0, <3>1 DEF EdidConforming, IsRun, IsPlan, EdidBases, EdidTodo, EdidTearDown, EdidTidy, Bare,
                        Holding, E!Ended
  <2>2. CASE E!SetUp
    <3>1. /\ ~E!Ended /\ here = "set_up_tests" /\ E!Conclude("PASS")
          /\ device'.base = [i \in MediaInput |-> "none"]
          /\ device'.network = device.network /\ device'.pace = device.pace
      BY <1>0, <2>0, <2>2 DEF E!SetUp, E!On, EdidRecords, IsInputDevice
    <3>2. EdidBases' /\ (device'.network = "failing" => device'.pace = "instant" /\ Bare')
      BY <2>0, <3>1 DEF EdidBases, Bare, EdidTidy
    <3> QED
      BY <2>0, <3>1, <3>2, EdidEnds
  <2>3. CASE E!TearDown
    <3>1. here = "tear_down_tests" /\ ~E!Ended /\ noted' = noted /\ here \notin Putting /\ ~Holding
      BY <2>3 DEF E!TearDown, E!On, Putting, Holding
    <3>2. CASE at.step = "begin" /\ device' = device /\ Base = {} /\ E!Conclude("PASS")
      <4>1. EdidBases' /\ Bare'
        BY <2>0, <3>2 DEF EdidBases, Bare
      <4>2. device'.network = "failing" => device'.pace = "instant"
        BY <2>0, <3>2 DEF EdidTidy
      <4> QED
        BY <2>0, <3>1, <3>2, <4>1, <4>2, EdidEnds
    <3>3. CASE at.step = "begin" /\ device' = device /\ Base # {} /\ E!Visit(E!List(Base))
      <4> DEFINE list == E!List(Base)
      <4>1. list \in Seq(Base) /\ list # <<>> /\ \A i \in Base : \E k \in 1..Len(list) : list[k] = i
        <5>1. list \in Seq(Base) /\ \A i \in Base : \E k \in 1..Len(list) : list[k] = i
          BY EdidLists, MediaAssumption DEF E!EdidTestsAssumption
        <5> HIDE DEF list
        <5> QED
          BY <3>3, <5>1
      <4> HIDE DEF list
      <4>2. list \in Seq(Base \cup {NoInput})
        BY <4>1
      <4>3. at' = [plan |-> at.plan, step |-> "visit", todo |-> list, tries |-> 0] /\ verdict' = verdict
        BY <2>0, <3>3, <4>1 DEF E!Visit, EdidConforming, IsRun, list
      <4>4. IsRun' /\ ~Holding' /\ ~E!Ended'
        BY <2>0, <3>1, <4>3, TestGoesOn DEF EdidConforming, Holding, E!Ended
      <4> QED
        BY <2>0, <3>1, <3>3, <4>1, <4>2, <4>3, <4>4
        DEF EdidConforming, EdidBases, EdidTodo, EdidTearDown, EdidTidy, Bare
    <3>4. CASE at.step = "visit"
      <4> DEFINE i0 == Head(at.todo)
      <4>1. at.todo \in Seq(Base) /\ at.todo # <<>>
        BY <2>0, <3>1, <3>4 DEF EdidTodo
      <4>2. i0 \in Base /\ Base \subseteq MediaInput
        BY <4>1, MediaAssumption DEF E!EdidTestsAssumption
      <4>3. /\ EdidBases' /\ device'.pace = device.pace
            /\ \A i \in MediaInput : device'.base[i] # "none" => device.base[i] # "none" /\ i # i0
            /\ device'.network = "failing" => device.network = "failing"
        <5>1. CASE device' = E!WithBase(device, i0, "none")
          <6>1. device'.base = [device.base EXCEPT ![i0] = "none"]
            BY <2>0, <5>1, BaseIsThere
          <6>2. device'.pace = device.pace /\ device'.network = device.network
            BY <2>0, <5>1, BaseIsPut
          <6> QED
            BY <2>0, <4>2, <6>1, <6>2 DEF EdidBases
        <5>2. CASE device.network = "failing" /\ device' = [device EXCEPT !.network = "failed"]
          <6>1. /\ device'.base = device.base /\ device'.pace = device.pace /\ device'.network = "failed"
            BY <1>0, <5>2 DEF EdidRecords, IsInputDevice
          <6>2. Bare
            BY <2>0, <3>1, <5>2 DEF EdidTidy, Bare
          <6> QED
            BY <2>0, <6>1, <6>2 DEF EdidBases, Bare
        <5> QED
          BY <2>0, <2>3, <3>4, <5>1, <5>2 DEF E!TearDown, E!On, E!Delete, E!Subject
      <4>4. \A i \in MediaInput : device'.base[i] # "none" =>
                i # i0 /\ \E k \in 1..Len(at.todo) : at.todo[k] = i
        BY <2>0, <3>1, <3>4, <4>3 DEF EdidConforming, EdidTearDown
      <4>5. device'.network = "failing" => device'.pace = "instant" /\ Bare'
        BY <2>0, <3>1, <4>3 DEF EdidTidy, Bare
      <4>6. CASE E!Conclude("PASS") /\ Len(at.todo) = 1
        <5>1. Bare'
          <6>1. \A k \in 1..Len(at.todo) : at.todo[k] = i0
            BY <4>1, <4>6
          <6> QED
            BY <4>4, <6>1 DEF Bare
        <5> QED
          BY <2>0, <3>1, <4>3, <4>5, <4>6, <5>1, EdidEnds
      <4>7. CASE /\ Len(at.todo) # 1 /\ UNCHANGED verdict
                 /\ at' = [at EXCEPT !.step = "visit", !.todo = Tail(@), !.tries = 0]
        <5>1. at' = [plan |-> at.plan, step |-> "visit", todo |-> Tail(at.todo), tries |-> 0]
          BY <2>0, <4>7 DEF EdidConforming, IsRun
        <5>2. Tail(at.todo) \in Seq(Base) /\ Tail(at.todo) # <<>>
          BY <4>1, <4>7, TailOfMore
        <5>3. IsRun' /\ ~Holding' /\ ~E!Ended'
          BY <2>0, <3>1, <4>7, <5>1, TestGoesOn DEF EdidConforming, Holding, E!Ended
        <5>4. \A i : i # i0 /\ (\E k \in 1..Len(at.todo) : at.todo[k] = i) =>
                  \E k \in 1..Len(Tail(at.todo)) : Tail(at.todo)[k] = i
          <6> SUFFICES ASSUME NEW i, i # i0, NEW k \in 1..Len(at.todo), at.todo[k] = i
                       PROVE  \E m \in 1..Len(Tail(at.todo)) : Tail(at.todo)[m] = i
            OBVIOUS
          <6>1. /\ Len(Tail(at.todo)) = Len(at.todo) - 1 /\ Len(at.todo) \in Nat /\ i0 = at.todo[1]
                /\ \A m \in 1..Len(Tail(at.todo)) : Tail(at.todo)[m] = at.todo[m + 1]
            BY <4>1, HeadTailProperties
          <6>2. k # 1
            BY <6>1
          <6>3. k - 1 \in 1..Len(Tail(at.todo)) /\ (k - 1) + 1 = k
            BY <6>1, <6>2
          <6> QED
            BY <6>1, <6>3
        <5>5. Tail(at.todo) \in Seq(Base \cup {NoInput})
          <6> DEFINE t == Tail(at.todo)
          <6> HIDE DEF t
          <6>1. t \in Seq(Base) => t \in Seq(Base \cup {NoInput})
            OBVIOUS
          <6> QED
            BY <5>2, <6>1 DEF t
        <5>6. EdidTearDown'
          <6>1. \A i \in MediaInput : device'.base[i] # "none" =>
                    \E k \in 1..Len(Tail(at.todo)) : Tail(at.todo)[k] = i
            BY <4>4, <5>4
          <6>2. "tear_down_tests" \in DOMAIN verdict /\ verdict["tear_down_tests"] = "none"
            BY <2>0, <3>1 DEF EdidConforming, EdidTearDown
          <6>3. at'.todo = Tail(at.todo) /\ verdict' = verdict
            BY <4>7, <5>1
          <6> QED
            BY <5>3, <6>1, <6>2, <6>3 DEF EdidTearDown
        <5> QED
          BY <2>0, <3>1, <4>3, <4>5, <5>1, <5>2, <5>3, <5>5, <5>6
          DEF EdidConforming, EdidTodo, EdidTidy, Bare
      <4> QED
        BY <2>3, <3>4, <4>6, <4>7 DEF E!TearDown, E!On, E!Leave, E!LeaveAs
    <3> QED
      BY <2>3, <3>2, <3>3, <3>4 DEF E!TearDown, E!On
  <2>4. CASE E!Hiccup
    <3>1. /\ ~E!Ended /\ here # "tear_down_tests" /\ device'.network = "failed"
          /\ device'.base = device.base /\ device'.pace = device.pace
      BY <1>0, <2>4 DEF E!Hiccup, EdidRecords, IsInputDevice
    <3>2. EdidBases'
      BY <2>0, <3>1 DEF EdidBases
    <3>3. CASE E!Conclude("FAIL")
      BY <2>0, <3>1, <3>2, <3>3, EdidEnds
    <3>4. CASE E!Abort
      <4>1. IsRun' /\ at'.plan = <<>>
        BY <2>0, <3>4 DEF E!Abort, E!Position, IsRun, IsPlan, EdidConforming
      <4> QED
        BY <2>0, <3>1, <3>2, <3>4, <4>1
        DEF EdidConforming, EdidTodo, EdidTearDown, EdidTidy, Holding, E!Ended, E!Abort
    <3> QED
      BY <2>4, <3>3, <3>4 DEF E!Hiccup
  <2>5. CASE E!Signals \/ E!Invalid \/ E!Unsupported \/ E!WithInputs
    <3>1. here \in {"test_01_00", "test_01_03", "test_01_04", "test_02_03_00"} /\ ~E!Ended /\ device' = device
      BY <2>0, <2>5 DEF E!Signals, E!Invalid, E!Unsupported, E!WithInputs, E!Begin, E!On
    <3>2. \A step, tries : E!Step(step, tries) =>
             /\ verdict' = verdict /\ at'.plan = at.plan
             /\ at' = [plan |-> at'.plan, step |-> at'.step, todo |-> at'.todo, tries |-> at'.tries]
      BY <2>0 DEF E!Step, EdidConforming, IsRun
    <3>3. \/ \E v : E!Conclude(v)
          \/ /\ verdict' = verdict /\ at'.plan = at.plan
             /\ at' = [plan |-> at'.plan, step |-> at'.step, todo |-> at'.todo, tries |-> at'.tries]
      <4> DEFINE Moved == /\ verdict' = verdict /\ at'.plan = at.plan
                          /\ at' = [plan |-> at'.plan, step |-> at'.step, todo |-> at'.todo,
                                    tries |-> at'.tries]
      <4>1. \A l : E!Visit(l) => Moved \/ \E v : E!Conclude(v)
        BY <2>0 DEF E!Visit, EdidConforming, IsRun
      <4>2. \A v : E!LeaveAs(v) => Moved \/ \E w : E!Conclude(w)
        BY <2>0 DEF E!LeaveAs, EdidConforming, IsRun
      <4> HIDE DEF Moved
      <4>3. Moved \/ \E v : E!Conclude(v)
        BY <2>5, <3>2, <4>1, <4>2
        DEF Moved, E!Signals, E!Invalid, E!Unsupported, E!WithInputs, E!Begin, E!Goto, E!Poll, E!Check,
            E!Leave
      <4> QED
        BY <4>3 DEF Moved
    <3> QED
      BY <2>0, <3>1, <3>3, EdidLooks DEF Putting
  <2> DEFINE i0 == Head(at.todo)
  <2>6. ASSUME here \in Putting, ~E!Ended, at.step # "begin"
        PROVE  /\ i0 \in Base \cup {NoInput} /\ (here # "test_02_03_04" => i0 \in Base)
               /\ Holding => i0 \in Base
               /\ device.network = "failing" => device.pace = "instant"
               /\ device.network = "failing" => \A i \in MediaInput \ {i0} : device.base[i] = "none"
               /\ device.network = "failing" /\ at.step \notin {"effective", "put", "delete"} => Bare
    <3>1. at.todo \in Seq(Base \cup {NoInput}) /\ at.todo # <<>> /\ (here # "test_02_03_04" => at.todo \in Seq(Base))
      BY <2>0, <2>6 DEF EdidTodo
    <3>2. i0 \in Base \cup {NoInput} /\ (here # "test_02_03_04" => i0 \in Base)
      BY <3>1
    <3>3. Holding => i0 \in Base
      BY <2>0, <2>6 DEF EdidTodo
    <3>4. here # "set_up_tests"
      BY <2>6 DEF Putting
    <3> QED
      BY <2>0, <2>6, <3>2, <3>3, <3>4 DEF EdidTidy, Bare, Holding
  <2>7. ASSUME NEW i \in Base, NEW e \in {"none", "valid", "adjustable"}, NEW d, IsInputDevice(d),
               d.base = device.base, d.network = device.network, d.pace = device.pace,
               device' = E!WithBase(d, i, e)
        PROVE  /\ EdidBases' /\ device'.network = device.network /\ device'.pace = device.pace
               /\ device'.base[i] = e
               /\ \A j \in MediaInput \ {i} : device'.base[j] = device.base[j]
    <3>1. device'.base = [device.base EXCEPT ![i] = e]
      BY <2>7, BaseIsThere
    <3>2. device'.network = device.network /\ device'.pace = device.pace
      BY <2>7, BaseIsPut
    <3>3. Base \subseteq MediaInput
      BY MediaAssumption DEF E!EdidTestsAssumption
    <3> QED
      BY <2>0, <3>1, <3>2, <3>3 DEF EdidBases
  <2>8. device' = device => EdidBases' /\ (Bare => Bare')
    BY <2>0 DEF EdidBases, Bare
  <2> HIDE DEF i0
  <2>13. ASSUME NEW list \in Seq(Base \cup {NoInput}), here # "test_02_03_04" => list \in Seq(Base),
                here \in Putting, E!On({here}, "begin"), E!Visit(list), UNCHANGED <<device, noted>>
         PROVE  EdidConforming'
    <3>1. E!On(Putting, "begin")
      BY <2>13 DEF E!On
    <3> QED
      BY <2>0, <2>13, <3>1, EdidBegins
  <2>14. E!List(Base) \in Seq(Base) /\ E!List(Adjust) \in Seq(Base) /\ \A l \in Seq(Base) : l \in Seq(Base \cup {NoInput})
    <3>1. Base \in SUBSET MediaInput /\ Adjust \in SUBSET MediaInput /\ Adjust \subseteq Base
      BY MediaAssumption DEF E!EdidTestsAssumption
    <3>2. E!List(Base) \in Seq(Base) /\ E!List(Adjust) \in Seq(Adjust)
      BY <3>1, EdidLists
    <3> QED
      BY <3>1, <3>2
  \* A step of a test that has put no Base EDID, or has deleted it.
  <2>15. ASSUME here \in Putting, ~E!Ended, at.step \notin {"begin", "effective", "put", "delete"},
                device' = device,
                \/ \E v : E!Conclude(v)
                \/ E!Leave
                \/ \E step, tries : step \notin {"begin", "effective", "put", "delete"} /\ E!Step(step, tries)
         PROVE  EdidConforming'
    <3>1. EdidBases' /\ (device'.network = "failing" => device'.pace = "instant" /\ Bare')
      BY <2>6, <2>8, <2>15
    <3>2. CASE \E v : E!Conclude(v)
      BY <2>0, <2>15, <3>1, <3>2, EdidEnds DEF Putting
    <3>3. CASE E!Leave
      BY <2>0, <2>15, <3>1, <3>3, EdidLeaves
    <3>4. CASE \E step, tries : step \notin {"begin", "effective", "put", "delete"} /\ E!Step(step, tries)
      BY <2>0, <2>15, <3>1, <3>4, EdidMoves DEF Bare
    <3> QED
      BY <2>15, <3>2, <3>3, <3>4
  \* A Base EDID is put, or deleted.
  <2>16. ASSUME here \in Putting, ~E!Ended, at.step = "visit", i0 \in Base,
                device' = E!WithBase(device, i0, "valid") /\ here = "test_01_02" /\ E!Goto("effective")
         PROVE  EdidConforming'
    <3>1. device.network = "failing" => Bare /\ device.pace = "instant"
      BY <2>6, <2>16
    <3>2. /\ EdidBases' /\ device'.network = device.network /\ device'.pace = device.pace
          /\ device'.base[i0] = "valid"
          /\ \A j \in MediaInput \ {i0} : device'.base[j] = device.base[j]
      BY <2>0, <2>7, <2>16
    <3> QED
      BY <2>0, <2>16, <3>1, <3>2, EdidMoves DEF E!Goto, Bare, i0
  <2>17. ASSUME here \in Putting, ~E!Ended, at.step = "delete", device' = E!WithBase(device, i0, "none")
         PROVE  /\ EdidBases' /\ device'.base[i0] = "none"
                /\ device'.network = "failing" => device'.pace = "instant" /\ Bare'
    <3>1. i0 \in Base /\ (device.network = "failing" => device.pace = "instant"
                          /\ \A i \in MediaInput \ {i0} : device.base[i] = "none")
      BY <2>6, <2>17 DEF Holding
    <3>2. /\ EdidBases' /\ device'.network = device.network /\ device'.pace = device.pace
          /\ device'.base[i0] = "none"
          /\ \A j \in MediaInput \ {i0} : device'.base[j] = device.base[j]
      BY <2>0, <2>7, <2>17, <3>1
    <3> QED
      BY <3>1, <3>2 DEF Bare
  <2>18. ASSUME here \in Putting, ~E!Ended, at.step = "delete", device' = E!WithBase(device, i0, "none"),
                \/ \E step, tries : step \notin {"begin", "effective", "put", "delete"} /\ E!Step(step, tries)
                \/ E!Leave
         PROVE  EdidConforming'
    <3>1. EdidBases' /\ (device'.network = "failing" => device'.pace = "instant" /\ Bare')
      BY <2>17, <2>18
    <3>2. CASE E!Leave
      BY <2>0, <2>18, <3>1, <3>2, EdidLeaves
    <3>3. CASE \E step, tries : step \notin {"begin", "effective", "put", "delete"} /\ E!Step(step, tries)
      BY <2>0, <2>18, <3>1, <3>3, EdidMoves DEF Bare
    <3> QED
      BY <2>18, <3>2, <3>3
  <2>9. CASE E!PutAndDelete /\ InTime
    <3>0. here = "test_01_02" /\ ~E!Ended /\ here \in Putting /\ E!Subject = i0
      BY <2>9 DEF E!PutAndDelete, E!Begin, E!On, Putting, E!Subject, i0
    <3>1. CASE E!On({"test_01_02"}, "begin")
      <4>1. E!Visit(E!List(Base)) /\ UNCHANGED <<device, noted>>
        BY <2>9, <3>1 DEF E!PutAndDelete, E!Begin, E!On
      <4> QED
        BY <2>13, <2>14, <3>0, <3>1, <4>1
    <3>2. CASE E!On({"test_01_02"}, "visit")
      <4>1. at.step = "visit" /\ device' = E!WithBase(device, i0, "valid") /\ E!Goto("effective")
        BY <2>9, <3>0, <3>2 DEF E!PutAndDelete, E!Begin, E!On, E!Put
      <4>2. i0 \in Base
        BY <2>6, <3>0, <4>1
      <4> QED
        BY <2>16, <3>0, <4>1, <4>2
    <3>3. CASE E!On({"test_01_02"}, "effective")
      <4>1. /\ at.step = "effective" /\ device' = device /\ noted' = noted
            /\ E!Poll(device.effective[i0] = "valid", "delete", Attempts)
        BY <2>9, <3>0, <3>3 DEF E!PutAndDelete, E!Begin, E!On
      <4>2. i0 \in Base
        BY <2>6, <3>0, <4>1
      <4>3. device.network = "failing" => device.effective[i0] = "valid"
        <5> SUFFICES ASSUME device.network = "failing" PROVE device.effective[i0] = "valid"
          OBVIOUS
        <5>1. device.base[i0] = "valid" /\ device.pace = "instant"
          BY <2>0, <3>0, <4>1 DEF EdidTidy, Holding, i0
        <5>2. E!Following = {} /\ i0 \in Edid
          BY <2>9, <4>2, <5>1, MediaAssumption DEF E!Waiting, E!EdidTestsAssumption
        <5> QED
          BY <2>0, <5>1, <5>2 DEF E!Following, E!Followed
      <4>4. CASE E!Step("effective", at.tries + 1) \/ E!Step("delete", 0)
        <5>1. device.network = "failing" =>
                /\ device.pace = "instant" /\ device.base[i0] = "valid"
                /\ \A i \in MediaInput \ {i0} : device.base[i] = "none"
          BY <2>0, <2>6, <3>0, <4>1 DEF EdidTidy, Holding, i0
        <5> QED
          BY <2>0, <2>8, <3>0, <4>1, <4>2, <4>4, <5>1, EdidMoves DEF i0
      <4>5. CASE E!Conclude("FAIL") /\ device.effective[i0] # "valid"
        BY <2>0, <2>8, <3>0, <4>1, <4>3, <4>5, EdidEnds
      <4> QED
        BY <4>1, <4>4, <4>5 DEF E!Poll, E!Check, E!Goto
    <3>4. CASE E!On({"test_01_02"}, "delete")
      <4>1. /\ at.step = "delete" /\ device' = E!WithBase(device, i0, "none")
            /\ E!Check(device'.base[i0] = "none", "default")
        BY <2>0, <2>9, <3>0, <3>4 DEF E!PutAndDelete, E!Begin, E!On, E!Delete
      <4>2. E!Step("default", 0)
        BY <2>17, <3>0, <4>1 DEF E!Check, E!Goto
      <4> QED
        BY <2>18, <3>0, <4>1, <4>2
    <3>5. CASE E!On({"test_01_02"}, "default") \/ E!On({"test_01_02"}, "leave")
      <4>1. /\ at.step \in {"default", "leave"} /\ device' = device
            /\ \/ \E v : E!Conclude(v)
               \/ E!Leave
               \/ \E step, tries : step \notin {"begin", "effective", "put", "delete"} /\ E!Step(step, tries)
        BY <2>9, <3>5 DEF E!PutAndDelete, E!Begin, E!On, E!Poll, E!Check, E!Goto
      <4> QED
        BY <2>15, <3>0, <4>1
    <3> QED
      BY <2>9, <3>1, <3>2, <3>3, <3>4, <3>5 DEF E!PutAndDelete, E!Begin
  \* The Base EDID is put, of an Input whose changes have been seen.
  <2>19. ASSUME here \in Putting, ~E!Ended, at.step = "visit", i0 \in Base,
                device' = E!WithBase(E!Seen(device, i0), i0, "valid"), E!Goto("put")
         PROVE  EdidConforming'
    <3> DEFINE d == E!Seen(device, i0)
    <3>1. /\ IsInputDevice(d) /\ d.fault = device.fault /\ d.base = device.base
          /\ d.network = device.network /\ d.pace = device.pace
      BY <2>0, ChangesAreSeen
    <3> HIDE DEF d
    <3>2. device.network = "failing" => Bare /\ device.pace = "instant"
      BY <2>6, <2>19
    <3>3. device' = E!WithBase(d, i0, "valid")
      BY <2>19 DEF d
    <3>4. /\ EdidBases' /\ device'.network = device.network /\ device'.pace = device.pace
          /\ \A j \in MediaInput \ {i0} : device'.base[j] = device.base[j]
      BY <2>7, <2>19, <3>1, <3>3
    <3>5. device.network = "failing" => {i0} \cup E!SendersOf(i0) \subseteq device'.changed
      <4> SUFFICES ASSUME device.network = "failing"
                   PROVE  {i0} \cup E!SendersOf(i0) \subseteq device'.changed
        OBVIOUS
      <4>1. i0 \in MediaInput
        BY <2>19, MediaAssumption DEF E!EdidTestsAssumption
      <4>2. d.fault # "still" /\ d.base[i0] # "valid"
        BY <2>0, <3>1, <3>2, <4>1 DEF Bare
      <4> QED
        BY <3>1, <3>3, <4>2, BaseIsNoticed
    <3> QED
      BY <2>0, <2>19, <3>2, <3>4, <3>5, EdidMoves DEF E!Goto, Bare, i0
  \* Before it is deleted, once its change has been seen.
  <2>20. ASSUME here \in Putting, ~E!Ended, at.step = "put", E!Step("delete", 0),
                device'.base = device.base /\ device'.network = device.network /\ device'.pace = device.pace
         PROVE  EdidConforming'
    <3>1. i0 \in Base
      BY <2>6, <2>20 DEF Holding
    <3>2. EdidBases'
      BY <2>0, <2>20 DEF EdidBases
    <3>3. device.network = "failing" => /\ device.pace = "instant"
                                        /\ \A i \in MediaInput \ {i0} : device.base[i] = "none"
      BY <2>6, <2>20
    <3> QED
      BY <2>0, <2>20, <3>1, <3>2, <3>3, EdidMoves DEF i0
  <2>21. ASSUME here \in Putting, ~E!Ended, at.step = "put", device.network # "failing", E!Conclude("FAIL"),
                device'.base = device.base /\ device'.network = device.network
         PROVE  EdidConforming'
    <3>1. EdidBases'
      BY <2>0, <2>21 DEF EdidBases
    <3> QED
      BY <2>0, <2>21, <3>1, EdidEnds DEF Putting
  <2>10. CASE E!Versions
    <3>0. here = "test_01_05" /\ ~E!Ended /\ here \in Putting /\ E!Subject = i0
      BY <2>10 DEF E!Versions, E!Begin, E!On, Putting, E!Subject, i0
    <3>1. CASE E!On({"test_01_05"}, "begin")
      <4>1. E!Visit(E!List(Base)) /\ UNCHANGED <<device, noted>>
        BY <2>10, <3>1 DEF E!Versions, E!Begin, E!On
      <4> QED
        BY <2>13, <2>14, <3>0, <3>1, <4>1
    <3>2. CASE E!On({"test_01_05"}, "visit")
      <4>1. /\ at.step = "visit" /\ E!Goto("put")
            /\ device' = E!WithBase(E!Seen(device, i0), i0, "valid")
        BY <2>10, <3>0, <3>2 DEF E!Versions, E!Begin, E!On, E!Put
      <4>2. i0 \in Base
        BY <2>6, <3>0, <4>1
      <4> QED
        BY <2>19, <3>0, <4>1, <4>2
    <3>3. CASE E!On({"test_01_05"}, "put")
      <4>1. /\ at.step = "put" /\ device' = E!Seen(device, i0)
            /\ E!Check({i0} \cup E!SendersOf(i0) \subseteq device.changed, "delete")
        BY <2>10, <3>0, <3>3 DEF E!Versions, E!Begin, E!On
      <4>2. device'.base = device.base /\ device'.network = device.network /\ device'.pace = device.pace
        BY <2>0, <4>1, ChangesAreSeen
      <4>3. device.network = "failing" => {i0} \cup E!SendersOf(i0) \subseteq device.changed
        BY <2>0, <3>0, <4>1 DEF EdidTidy, Holding, i0
      <4> QED
        BY <2>20, <2>21, <3>0, <4>1, <4>2, <4>3 DEF E!Check, E!Goto
    <3>4. CASE E!On({"test_01_05"}, "delete")
      <4>1. at.step = "delete" /\ device' = E!WithBase(device, i0, "none") /\ E!Step("deleted", 0)
        BY <2>0, <2>10, <3>0, <3>4 DEF E!Versions, E!Begin, E!On, E!Delete, E!Goto
      <4> QED
        BY <2>18, <3>0, <4>1
    <3>5. CASE E!On({"test_01_05"}, "deleted")
      <4>1. at.step = "deleted" /\ device' = device /\ (E!Leave \/ E!Conclude("FAIL"))
        BY <2>10, <3>5 DEF E!Versions, E!Begin, E!On
      <4> QED
        BY <2>15, <3>0, <4>1
    <3> QED
      BY <2>10, <3>1, <3>2, <3>3, <3>4, <3>5 DEF E!Versions, E!Begin
  <2>11. CASE E!Adjusted /\ InTime
    <3>0. here = "test_01_06" /\ ~E!Ended /\ here \in Putting /\ E!Subject = i0
      BY <2>11 DEF E!Adjusted, E!Begin, E!On, Putting, E!Subject, i0
    <3>1. CASE E!On({"test_01_06"}, "begin")
      <4>1. E!Visit(E!List(Adjust)) /\ UNCHANGED <<device, noted>>
        BY <2>11, <3>1 DEF E!Adjusted, E!Begin, E!On
      <4> QED
        BY <2>13, <2>14, <3>0, <3>1, <4>1
    <3>2. CASE E!On({"test_01_06"}, "visit")
      <4>1. /\ at.step = "visit" /\ device' = E!WithBase(device, i0, "adjustable") /\ E!Step("effective", 0)
            /\ noted' = [noted EXCEPT !.edid = device.effective[i0]]
        BY <2>11, <3>0, <3>2 DEF E!Adjusted, E!Begin, E!On, E!Goto
      <4>2. i0 \in Base /\ (device.network = "failing" => Bare /\ device.pace = "instant")
        BY <2>6, <3>0, <4>1
      <4>3. /\ EdidBases' /\ device'.network = device.network /\ device'.pace = device.pace
            /\ device'.base[i0] = "adjustable"
            /\ \A j \in MediaInput \ {i0} : device'.base[j] = device.base[j]
        BY <2>0, <2>7, <4>1, <4>2
      <4>4. device.network = "failing" => noted'.edid = "default"
        <5> SUFFICES ASSUME device.network = "failing" PROVE noted'.edid = "default"
          OBVIOUS
        <5>1. E!Following = {} /\ i0 \in Edid /\ i0 \in MediaInput
          BY <2>11, <4>2, MediaAssumption DEF E!Waiting, E!EdidTestsAssumption
        <5>2. device.effective[i0] = "default"
          BY <2>0, <4>2, <5>1 DEF E!Following, E!Followed, Bare
        <5> QED
          BY <1>0, <4>1, <5>2 DEF EdidRecords
      <4> QED
        BY <2>0, <3>0, <4>1, <4>2, <4>3, <4>4, EdidMoves DEF Bare, i0
    <3>3. CASE E!On({"test_01_06"}, "effective")
      <4>1. /\ at.step = "effective" /\ device' = device /\ noted' = noted
            /\ E!Poll(device.effective[i0] # noted.edid, "delete", Attempts)
        BY <2>11, <3>0, <3>3 DEF E!Adjusted, E!Begin, E!On
      <4>2. i0 \in Base
        BY <2>6, <3>0, <4>1
      <4>3. device.network = "failing" => device.effective[i0] # noted.edid
        <5> SUFFICES ASSUME device.network = "failing" PROVE device.effective[i0] # noted.edid
          OBVIOUS
        <5>1. device.base[i0] = "adjustable" /\ device.pace = "instant" /\ noted.edid = "default"
          BY <2>0, <3>0, <4>1 DEF EdidTidy, Holding, i0
        <5>2. E!Following = {} /\ i0 \in Edid
          BY <2>11, <4>2, <5>1, MediaAssumption DEF E!Waiting, E!EdidTestsAssumption
        <5> QED
          BY <2>0, <5>1, <5>2 DEF E!Following, E!Followed
      <4>4. CASE E!Step("effective", at.tries + 1) \/ E!Step("delete", 0)
        <5>1. device.network = "failing" =>
                /\ device.pace = "instant" /\ device.base[i0] = "adjustable" /\ noted.edid = "default"
                /\ \A i \in MediaInput \ {i0} : device.base[i] = "none"
          BY <2>0, <2>6, <3>0, <4>1 DEF EdidTidy, Holding, i0
        <5> QED
          BY <2>0, <2>8, <3>0, <4>1, <4>2, <4>4, <5>1, EdidMoves DEF i0
      <4>5. CASE E!Conclude("FAIL") /\ ~(device.effective[i0] # noted.edid)
        BY <2>0, <2>8, <3>0, <4>1, <4>3, <4>5, EdidEnds
      <4> QED
        BY <4>1, <4>4, <4>5 DEF E!Poll, E!Check, E!Goto
    <3>4. CASE E!On({"test_01_06"}, "delete")
      <4>1. at.step = "delete" /\ device' = E!WithBase(device, i0, "none") /\ E!Step("default", 0)
        BY <2>0, <2>11, <3>0, <3>4 DEF E!Adjusted, E!Begin, E!On, E!Delete, E!Goto
      <4> QED
        BY <2>18, <3>0, <4>1
    <3>5. CASE E!On({"test_01_06"}, "default") \/ E!On({"test_01_06"}, "leave")
      <4>1. /\ at.step \in {"default", "leave"} /\ device' = device
            /\ \/ \E v : E!Conclude(v)
               \/ E!Leave
               \/ \E step, tries : step \notin {"begin", "effective", "put", "delete"} /\ E!Step(step, tries)
        BY <2>11, <3>5 DEF E!Adjusted, E!Begin, E!On, E!Poll, E!Check, E!Goto
      <4> QED
        BY <2>15, <3>0, <4>1
    <3> QED
      BY <2>11, <3>1, <3>2, <3>3, <3>4, <3>5 DEF E!Adjusted, E!Begin
  <2>12. CASE E!SenderInputs
    <3>0. here = "test_02_03_04" /\ ~E!Ended /\ here \in Putting /\ E!Subject = i0
      BY <2>12 DEF E!SenderInputs, E!Begin, E!On, Putting, E!Subject, i0
    <3>1. CASE E!On({"test_02_03_04"}, "begin")
      <4> DEFINE list == E!Concatenation([k \in DOMAIN noted.with |-> E!Usable(noted.with[k])])
      <4>1. E!Visit(list) /\ UNCHANGED <<device, noted>>
        BY <2>12, <3>1 DEF E!SenderInputs, E!Begin, E!On
      <4>2. list \in Seq(Base \cup {NoInput})
        BY <1>0, UsableLists DEF EdidRecords
      <4> HIDE DEF list
      <4> QED
        BY <2>13, <3>0, <3>1, <4>1, <4>2
    <3>2. CASE E!On({"test_02_03_04"}, "visit")
      <4>1. /\ at.step = "visit"
            /\ IF i0 = NoInput THEN E!Conclude("UNCLEAR") /\ device' = device
               ELSE device' = E!WithBase(E!Seen(device, i0), i0, "valid") /\ E!Goto("put")
        BY <2>12, <3>0, <3>2 DEF E!SenderInputs, E!Begin, E!On, E!Put
      <4>2. i0 \in Base \cup {NoInput}
        BY <2>6, <3>0, <4>1
      <4> QED
        BY <2>15, <2>19, <3>0, <4>1, <4>2
    <3>3. CASE E!On({"test_02_03_04"}, "put")
      <4>1. /\ at.step = "put" /\ device' = device /\ E!Check(i0 \in device.changed, "delete")
        BY <2>12, <3>0, <3>3 DEF E!SenderInputs, E!Begin, E!On
      <4>2. device.network = "failing" => {i0} \cup E!SendersOf(i0) \subseteq device.changed
        BY <2>0, <3>0, <4>1 DEF EdidTidy, Holding, i0
      <4> QED
        BY <2>20, <2>21, <3>0, <4>1, <4>2 DEF E!Check, E!Goto
    <3>4. CASE E!On({"test_02_03_04"}, "delete")
      <4>1. at.step = "delete" /\ device' = E!WithBase(device, i0, "none") /\ E!Leave
        BY <2>0, <2>12, <3>0, <3>4 DEF E!SenderInputs, E!Begin, E!On, E!Delete
      <4> QED
        BY <2>18, <3>0, <4>1
    <3> QED
      BY <2>12, <3>1, <3>2, <3>3, <3>4 DEF E!SenderInputs, E!Begin
  <2> QED
    BY <2>1, <2>2, <2>3, <2>4, <2>5, <2>9, <2>10, <2>11, <2>12 DEF E!Next, E!Tests
<1> QED
  BY <1>2, <1>3

LEMMA EdidInit == E!Init => EdidInv
<1> SUFFICES ASSUME E!Init PROVE EdidInv
  OBVIOUS
<1>1. PICK plan \in E!Plans(E!Order) : at = E!Position(plan)
  BY DEF E!Init
<1>2. IsRun /\ Head(at.plan) = "set_up_tests"
  <2>1. E!Order = [k \in 1..8 |-> E!Order[k]] /\ \A k \in 1..8 : E!Order[k] # "tear_down_tests"
    BY DEF E!Order
  <2>2. /\ plan \in Plans(E!Order) /\ at = Position(plan)
        /\ verdict = NoVerdicts(E!Order)
    BY <1>1 DEF Plans, E!Plans, Position, E!Position, NoVerdicts, E!NoVerdicts, E!Init
  <2> HIDE DEF E!Order
  <2> QED
    BY <2>1, <2>2, PlansArePlans
<1>3. EdidRecords
  BY DEF E!Init, EdidRecords, IsInputDevice
<1>4. EdidBases
  BY DEF E!Init, EdidBases
<1>5. /\ "tear_down_tests" \in DOMAIN verdict /\ verdict["tear_down_tests"] = "none"
      /\ at.step = "begin" /\ ~Holding
  BY <1>1 DEF E!Init, E!NoVerdicts, E!Position, Holding
<1>6. device.network = "failing" => device.pace = "instant"
  BY DEF E!Init
<1> QED
  BY <1>2, <1>3, <1>4, <1>5, <1>6 DEF EdidInv, EdidConforming, EdidTodo, EdidTearDown, EdidTidy

LEMMA NoEdidLeft == EdidInv => E!NoEdidIsLeft
  BY DEF EdidInv, EdidConforming, EdidTearDown, Bare, E!NoEdidIsLeft

-----------------------------------------------------------------------------
(* A run and its verdicts.                                                  *)

Judged == \A t \in DOMAIN verdict : verdict[t] \in Verdict
NoneFailed == \A t \in DOMAIN verdict : verdict[t] # "FAIL"

\* The test at work is at this step with these subjects to come.
GoesOn(step, todo, tries) ==
    at' = [plan |-> at.plan, step |-> step, todo |-> todo, tries |-> tries] /\ verdict' = verdict

\* The run goes on with another test.
Concluded ==
    /\ at' = Position(Tail(at.plan)) /\ at'.step = "begin" /\ at'.todo = <<>>
    /\ DOMAIN verdict' = DOMAIN verdict

LEMMA RunConcludes ==
    ASSUME IsRun, ~Ended, NEW v, Conclude(v)
    PROVE  /\ IsRun' /\ Concluded
           /\ Judged /\ v \in Verdict => Judged'
           /\ NoneFailed /\ v # "FAIL" => NoneFailed'
<1>1. /\ IsRun' /\ at' = Position(Tail(at.plan))
      /\ verdict'[Head(at.plan)] = v
      /\ \A t \in DOMAIN verdict \ {Head(at.plan)} : verdict'[t] = verdict[t]
  BY TestEnds
<1>2. DOMAIN verdict' = DOMAIN verdict
  BY DEF Conclude
<1>3. at'.step = "begin" /\ at'.todo = <<>>
  BY <1>1 DEF Position
<1> QED BY <1>1, <1>2, <1>3 DEF Concluded, Judged, NoneFailed

LEMMA RunGoesOn ==
    ASSUME IsRun, NEW step, NEW todo, NEW tries, GoesOn(step, todo, tries)
    PROVE  /\ IsRun' /\ at'.plan = at.plan /\ at'.step = step /\ at'.todo = todo /\ at'.tries = tries
           /\ Judged => Judged'
           /\ NoneFailed => NoneFailed'
           /\ (Ended' <=> Ended)
BY TestGoesOn DEF GoesOn, Judged, NoneFailed, Ended

LEMMA RunSteps ==
    ASSUME IsRun, NEW step, NEW tries
    PROVE  Step(step, tries) <=> GoesOn(step, at.todo, tries)
<1>1. at = [plan |-> at.plan, step |-> at.step, todo |-> at.todo, tries |-> at.tries]
  BY DEF IsRun
<1>2. PICK to : to = [at EXCEPT !.step = step, !.tries = tries]
  OBVIOUS
<1>3. to = [plan |-> at.plan, step |-> step, todo |-> at.todo, tries |-> tries]
  BY <1>1, <1>2
<1> QED BY <1>2, <1>3 DEF Step, GoesOn

LEMMA RunVisits ==
    ASSUME IsRun, NEW list, Visit(list)
    PROVE  \/ list = <<>> /\ Conclude("UNCLEAR")
           \/ list # <<>> /\ GoesOn("visit", list, 0)
BY DEF IsRun, Visit, GoesOn

LEMMA RunLeaves ==
    ASSUME IsRun, NEW S, at.todo \in Seq(S), at.todo # <<>>, NEW v, LeaveAs(v)
    PROVE  \/ Conclude(v)
           \/ GoesOn("visit", Tail(at.todo), 0) /\ Tail(at.todo) \in Seq(S) /\ Tail(at.todo) # <<>>
<1>1. CASE Len(at.todo) = 1
  BY <1>1 DEF LeaveAs
<1>2. CASE Len(at.todo) # 1
  <2>1. Tail(at.todo) \in Seq(S) /\ Tail(at.todo) # <<>>
    BY <1>2, TailOfMore
  <2>2. at' = [at EXCEPT !.step = "visit", !.todo = Tail(@), !.tries = 0] /\ verdict' = verdict
    BY <1>2 DEF LeaveAs
  <2> QED BY <2>1, <2>2 DEF IsRun, GoesOn
<1> QED BY <1>1, <1>2

LEMMA RunBegins ==
    ASSUME NEW order, NEW n \in Nat, order = [k \in 1..n |-> order[k]],
           \A k \in 1..n : order[k] # "tear_down_tests",
           NEW plan \in Plans(order), at = Position(plan), verdict = NoVerdicts(order)
    PROVE  IsRun /\ at.step = "begin" /\ at.todo = <<>> /\ Judged /\ NoneFailed
<1>1. IsRun
  BY PlansArePlans
<1>2. at.step = "begin" /\ at.todo = <<>>
  BY DEF Position
<1>3. \A t \in DOMAIN verdict : verdict[t] = "none"
  BY DEF NoVerdicts
<1> QED BY <1>1, <1>2, <1>3 DEF Judged, NoneFailed, Verdict

-----------------------------------------------------------------------------
(* IS-05: the ports of a Connection API.                                    *)

LEMMA ConnectionRun ==
    /\ \A v : P!Conclude(v) <=> Conclude(v)
    /\ \A step, tries : P!Step(step, tries) <=> Step(step, tries)
    /\ \A step : P!Goto(step) <=> Step(step, 0)
    /\ \A ok, step : P!Check(ok, step) <=> IF ok THEN Step(step, 0) ELSE Conclude("FAIL")
    /\ \A list : P!Visit(list) <=> Visit(list)
    /\ \A v : P!LeaveAs(v) <=> LeaveAs(v)
    /\ P!Leave <=> LeaveAs("PASS")
    /\ P!Ended <=> Ended
    /\ P!Subject = Subject
    /\ \A tests, step : P!On(tests, step) <=> On(tests, step)
<1>1. \A v : P!Conclude(v) <=> Conclude(v)
  BY DEF P!Conclude, Conclude, P!Position, Position
<1>2. \A step, tries : P!Step(step, tries) <=> Step(step, tries)
  BY DEF P!Step, Step
<1>3. \A step : P!Goto(step) <=> Step(step, 0)
  BY <1>2 DEF P!Goto
<1>4. \A ok, step : P!Check(ok, step) <=> IF ok THEN Step(step, 0) ELSE Conclude("FAIL")
  BY <1>1, <1>3 DEF P!Check
<1>5. \A list : P!Visit(list) <=> Visit(list)
  BY <1>1 DEF P!Visit, Visit
<1>6. \A v : P!LeaveAs(v) <=> LeaveAs(v)
  BY <1>1 DEF P!LeaveAs, LeaveAs
<1>7. P!Leave <=> LeaveAs("PASS")
  BY <1>6 DEF P!Leave
<1>8. (P!Ended <=> Ended) /\ P!Subject = Subject
  BY DEF P!Ended, Ended, P!Subject, Subject
<1>9. \A tests, step : P!On(tests, step) <=> On(tests, step)
  BY <1>8 DEF P!On, On
<1> QED BY <1>1, <1>2, <1>3, <1>4, <1>5, <1>6, <1>7, <1>8, <1>9

PortStaged == [value : P!Value \cup {"auto"}, enabled : BOOLEAN, mode : P!Modes \cup {"none"}]
PortActive == [value : P!Value \cup {"auto"}, enabled : BOOLEAN, mode : P!Modes, fresh : BOOLEAN]
PortDevice ==
    [fault : P!Faults, pace : {"instant", "prompt", "slow"}, staged : [P!Port -> PortStaged],
     active : [P!Port -> PortActive], sdp : [P!Port -> P!Value \cup {"auto"}]]
PortNotes == [value : P!Value \cup {"auto"}, same : BOOLEAN, late : BOOLEAN]

\* A port of a conforming device.
Sound(d, p) ==
    /\ d.staged[p].value \in Allowed[p] \cup {"auto"}
    /\ d.active[p].value \in Allowed[p] /\ d.sdp[p] = d.active[p].value

LEMMA PortValues ==
    /\ \A p \in P!Port : /\ Allowed[p] \subseteq P!Value /\ "auto" \notin Allowed[p]
                         /\ (CHOOSE x \in Allowed[p] : TRUE) \in Allowed[p]
    /\ "immediate" \in P!Modes /\ "auto" \in P!Value \cup {"auto"} /\ "none" \notin P!Modes
BY MediaAssumption DEF P!ConnectionTestsAssumption, P!Value, P!Modes

\* The value that becomes active.
Resolved(d, p) ==
    IF d.staged[p].value = "auto" THEN CHOOSE x \in Allowed[p] : TRUE ELSE d.staged[p].value

\* A value that is staged.
LEMMA Staging ==
    ASSUME NEW d \in PortDevice, NEW p \in P!Port, NEW v \in P!Value \cup {"auto"},
           NEW r, r = P!Stage(d, p, v)
    PROVE  /\ r \in PortDevice /\ r.fault = d.fault /\ r.pace = d.pace /\ r.active = d.active /\ r.sdp = d.sdp
           /\ \A q \in P!Port : /\ q # p => r.staged[q] = d.staged[q]
                                /\ r.staged[q].mode = d.staged[q].mode
                                /\ r.staged[q].enabled = d.staged[q].enabled
           /\ d.fault # "frozen" => r.staged[p].value = v
<1>1. CASE d.fault = "frozen"
  BY <1>1 DEF P!Stage
<1>2. CASE d.fault # "frozen"
  <2>1. r = [d EXCEPT !.staged[p].value = v]
    BY <1>2 DEF P!Stage
  <2>2. d.staged[p] \in PortStaged
    BY DEF PortDevice
  <2>3. PICK s : s = [d.staged[p] EXCEPT !.value = v]
    OBVIOUS
  <2>4. s \in PortStaged /\ s.value = v /\ s.mode = d.staged[p].mode /\ s.enabled = d.staged[p].enabled
    BY <2>2, <2>3 DEF PortStaged
  <2>5. r = [d EXCEPT !.staged = [@ EXCEPT ![p] = s]]
    BY <2>1, <2>3
  <2> QED BY <2>4, <2>5 DEF PortDevice
<1> QED BY <1>1, <1>2

\* What is staged becomes active.
LEMMA Activating ==
    ASSUME NEW d \in PortDevice, NEW p \in P!Port, NEW mode \in P!Modes, NEW r, r = P!Activated(d, p, mode)
    PROVE  /\ r \in PortDevice /\ r.fault = d.fault /\ r.pace = d.pace
           /\ \A q \in P!Port : /\ q # p => r.staged[q] = d.staged[q] /\ r.active[q] = d.active[q] /\ r.sdp[q] = d.sdp[q]
                                /\ r.staged[q].value = d.staged[q].value
                                /\ r.staged[q].enabled = d.staged[q].enabled
           /\ d.fault = "none" =>
                  /\ r.staged[p].mode = "none" /\ r.sdp[p] = r.active[p].value
                  /\ r.active[p].mode = mode /\ r.active[p].fresh /\ r.active[p].enabled = d.staged[p].enabled
                  /\ r.active[p].value = Resolved(d, p)
<1> DEFINE v == IF d.staged[p].value = "auto" /\ d.fault # "auto"
                THEN CHOOSE x \in Allowed[p] : TRUE ELSE d.staged[p].value
           file == IF d.fault = "sdp" THEN d.sdp[p] ELSE v
           next == IF d.fault = "keeps" /\ mode = "immediate" THEN "immediate" ELSE "none"
           active == [value |-> v, enabled |-> d.staged[p].enabled, mode |-> mode, fresh |-> TRUE]
           staged == [d.staged[p] EXCEPT !.mode = next]
<1>1. r = [d EXCEPT !.active = [@ EXCEPT ![p] = active], !.sdp = [@ EXCEPT ![p] = file],
                    !.staged = [@ EXCEPT ![p] = staged]]
  BY DEF P!Activated
<1>2. d.staged[p] \in PortStaged /\ d.sdp[p] \in P!Value \cup {"auto"}
  BY DEF PortDevice
<1>3. v \in P!Value \cup {"auto"} /\ file \in P!Value \cup {"auto"} /\ next \in P!Modes \cup {"none"}
  BY <1>2, PortValues DEF PortStaged
<1>4. active \in PortActive
  BY <1>2, <1>3 DEF PortActive, PortStaged
<1>5. /\ staged \in PortStaged /\ staged.value = d.staged[p].value /\ staged.enabled = d.staged[p].enabled
      /\ staged.mode = next
  BY <1>2, <1>3 DEF PortStaged
<1>6. d.fault = "none" => /\ file = v /\ next = "none" /\ active.value = v /\ active.mode = mode /\ active.fresh
                          /\ active.enabled = d.staged[p].enabled
                          /\ v = Resolved(d, p)
  BY DEF Resolved
<1> HIDE DEF v, file, next, active, staged
<1>a. PICK as, ss, fs : /\ as = [d.active EXCEPT ![p] = active] /\ ss = [d.staged EXCEPT ![p] = staged]
                        /\ fs = [d.sdp EXCEPT ![p] = file]
  OBVIOUS
<1>b. as \in [P!Port -> PortActive] /\ ss \in [P!Port -> PortStaged] /\ fs \in [P!Port -> P!Value \cup {"auto"}]
  BY <1>3, <1>4, <1>5, <1>a DEF PortDevice
<1>c. r = [d EXCEPT !.active = as, !.sdp = fs, !.staged = ss]
  BY <1>1, <1>a
<1>7. /\ r \in PortDevice /\ r.fault = d.fault /\ r.pace = d.pace
      /\ r.active = as /\ r.sdp = fs /\ r.staged = ss
  BY <1>b, <1>c DEF PortDevice
<1>8. r.active[p] = active /\ r.staged[p] = staged /\ r.sdp[p] = file
  BY <1>7, <1>a DEF PortDevice
<1>9. \A q \in P!Port : q # p => r.staged[q] = d.staged[q] /\ r.active[q] = d.active[q] /\ r.sdp[q] = d.sdp[q]
  BY <1>7, <1>a DEF PortDevice
<1> QED BY <1>5, <1>6, <1>7, <1>8, <1>9

\* A PATCH with an activation.
LEMMA AskingToActivate ==
    ASSUME NEW d \in PortDevice, NEW p \in P!Port, NEW mode \in P!Modes, NEW r, r = P!Activate(d, p, mode)
    PROVE  /\ r \in PortDevice /\ r.fault = d.fault /\ r.pace = d.pace
           /\ \A q \in P!Port : /\ q # p => r.staged[q] = d.staged[q] /\ r.active[q] = d.active[q] /\ r.sdp[q] = d.sdp[q]
                                /\ r.staged[q].value = d.staged[q].value
                                /\ r.staged[q].enabled = d.staged[q].enabled
           /\ d.fault = "none" /\ mode = "immediate" =>
                  /\ r.staged[p].mode = "none" /\ r.sdp[p] = r.active[p].value
                  /\ r.active[p].mode = mode /\ r.active[p].fresh /\ r.active[p].enabled = d.staged[p].enabled
                  /\ r.active[p].value = Resolved(d, p)
           /\ d.fault = "none" /\ mode # "immediate" =>
                  /\ r.staged[p].mode = mode /\ r.sdp[p] = d.sdp[p] /\ r.active[p].value = d.active[p].value
                  /\ ~r.active[p].fresh
<1> DEFINE active == [d.active[p] EXCEPT !.fresh = FALSE]
           staged == [d.staged[p] EXCEPT !.mode = mode]
           none == [d.staged[p] EXCEPT !.mode = "none"]
           asked == [d EXCEPT !.active = [@ EXCEPT ![p] = active], !.staged = [@ EXCEPT ![p] = staged]]
           lazy == [d EXCEPT !.active = [@ EXCEPT ![p] = active], !.staged = [@ EXCEPT ![p] = none]]
<1>1. d.staged[p] \in PortStaged /\ d.active[p] \in PortActive
  BY DEF PortDevice
<1>2. active \in PortActive /\ active.value = d.active[p].value /\ ~active.fresh
  BY <1>1 DEF PortActive
<1>3. /\ staged \in PortStaged /\ staged.value = d.staged[p].value /\ staged.enabled = d.staged[p].enabled
      /\ staged.mode = mode
  BY <1>1 DEF PortStaged
<1>4. /\ none \in PortStaged /\ none.value = d.staged[p].value /\ none.enabled = d.staged[p].enabled
  BY <1>1 DEF PortStaged
<1>5. r = IF mode = "immediate" THEN IF d.fault = "lazy" THEN lazy ELSE P!Activated(asked, p, mode) ELSE asked
  <2>1. [d EXCEPT !.active[p].fresh = FALSE, !.staged[p].mode = mode] = asked
    OBVIOUS
  <2>2. [asked EXCEPT !.staged[p].mode = "none"] = lazy
    BY DEF PortDevice
  <2> QED BY <2>1, <2>2 DEF P!Activate
<1> HIDE DEF active, staged, none
<1>6. /\ asked \in PortDevice /\ asked.fault = d.fault /\ asked.pace = d.pace /\ asked.sdp = d.sdp
      /\ asked.staged[p] = staged /\ asked.active[p] = active
      /\ \A q \in P!Port : q # p => asked.staged[q] = d.staged[q] /\ asked.active[q] = d.active[q]
  BY <1>2, <1>3 DEF PortDevice
<1>7. /\ lazy \in PortDevice /\ lazy.fault = d.fault /\ lazy.pace = d.pace /\ lazy.sdp = d.sdp
      /\ lazy.staged[p] = none /\ lazy.active[p] = active
      /\ \A q \in P!Port : q # p => lazy.staged[q] = d.staged[q] /\ lazy.active[q] = d.active[q]
  BY <1>2, <1>4 DEF PortDevice
<1> HIDE DEF asked, lazy
<1>8. CASE mode # "immediate"
  BY <1>2, <1>3, <1>5, <1>6, <1>8
<1>9. CASE mode = "immediate" /\ d.fault = "lazy"
  BY <1>4, <1>5, <1>7, <1>9
<1>10. CASE mode = "immediate" /\ d.fault # "lazy"
  <2>1. r = P!Activated(asked, p, mode)
    BY <1>5, <1>10
  <2>2. /\ r \in PortDevice /\ r.fault = asked.fault /\ r.pace = asked.pace
        /\ \A q \in P!Port :
               /\ q # p => r.staged[q] = asked.staged[q] /\ r.active[q] = asked.active[q] /\ r.sdp[q] = asked.sdp[q]
               /\ r.staged[q].value = asked.staged[q].value
               /\ r.staged[q].enabled = asked.staged[q].enabled
        /\ asked.fault = "none" =>
               /\ r.staged[p].mode = "none" /\ r.sdp[p] = r.active[p].value
               /\ r.active[p].mode = mode /\ r.active[p].fresh /\ r.active[p].enabled = asked.staged[p].enabled
               /\ r.active[p].value = Resolved(asked, p)
    BY <1>6, <2>1, Activating
  <2>3. \A q \in P!Port : /\ asked.staged[q].value = d.staged[q].value
                          /\ asked.staged[q].enabled = d.staged[q].enabled
    BY <1>3, <1>6
  <2>4. Resolved(asked, p) = Resolved(d, p)
    BY <2>3 DEF Resolved
  <2> QED BY <1>6, <1>10, <2>2, <2>3, <2>4
<1> QED BY <1>8, <1>9, <1>10

AtStep(tests, steps) == ~Ended /\ Head(at.plan) \in tests /\ at.step \in steps

ConnectionTypes ==
    /\ IsRun /\ Judged /\ device \in PortDevice /\ noted \in PortNotes /\ at.tries \in Nat
    /\ at.step # "begin" =>
           ~Ended /\ at.todo \in Seq(P!Range(P!PortsOf(Head(at.plan)))) /\ at.todo # <<>>

\* What the test at work has staged at its port.
PortStands ==
    /\ device.staged[Subject].value = noted.value /\ noted.value # "auto"
    /\ Head(at.plan) \notin P!ForReceivers => device.staged[Subject].enabled

\* What its activation has made of it.
PortShows ==
    /\ device.active[Subject].value = noted.value
    /\ device.active[Subject].mode = P!Activation[Head(at.plan)] /\ device.active[Subject].fresh
    /\ Head(at.plan) \notin P!ForReceivers => device.active[Subject].enabled

\* The value that a bulk request stages at a port.
Bulked(p) == IF noted.value \in Allowed[p] THEN noted.value ELSE CHOOSE x \in Allowed[p] : TRUE

ConnectionPass ==
    /\ NoneFailed
    /\ \A p \in P!Port : Sound(device, p)
    /\ \A p \in P!Port : device.staged[p].mode # "none" =>
           /\ AtStep(DOMAIN P!Activation, {"active"}) /\ p = Subject
           /\ device.staged[p].mode = P!Activation[Head(at.plan)] /\ P!Activation[Head(at.plan)] # "immediate"
           /\ ~device.active[p].fresh
    /\ AtStep(DOMAIN P!Activation, {"activate", "default", "active"}) => PortStands
    /\ AtStep(DOMAIN P!Activation, {"default", "active"}) /\ device.staged[Subject].mode = "none" => PortShows
    /\ AtStep(P!Range(P!Change), {"staged"}) => device.staged[Subject].value = noted.value
    /\ AtStep(P!Range(P!Bulk), {"visit"}) =>
           \A p \in P!Range(P!PortsOf(Head(at.plan))) : device.staged[p].value = Bulked(p)

LEMMA PortLists ==
    ASSUME NEW t
    PROVE  /\ P!PortsOf(t) \in Seq(P!Range(P!PortsOf(t))) /\ P!Range(P!PortsOf(t)) \subseteq P!Port
           /\ t \in P!ForReceivers => P!Range(P!PortsOf(t)) \cap P!Range(PortSenders) = {}
BY MediaAssumption DEF P!ConnectionTestsAssumption, P!PortsOf, P!Port

LEMMA PortTestNames ==
    /\ P!Range(P!Auto) = {"test_11_01", "test_12_01"} /\ P!Range(P!PatchAuto) = {"test_11_02", "test_12_02"}
    /\ P!Range(P!Empty) = {"test_17", "test_18", "test_23_01", "test_24_01"}
    /\ P!Range(P!Invalid) = {"test_19", "test_20"} /\ P!Range(P!Identity) = {"test_22", "test_21"}
    /\ P!Range(P!Change) = {"test_23", "test_24"} /\ P!Range(P!Bulk) = {"test_36", "test_37"}
    /\ DOMAIN P!Activation = {"test_25", "test_26", "test_27", "test_28", "test_29", "test_30"}
    /\ \A t \in DOMAIN P!Activation : P!Activation[t] \in P!Modes
<1>1. P!Range(P!Auto) = {"test_11_01", "test_12_01"} /\ P!Range(P!PatchAuto) = {"test_11_02", "test_12_02"}
  BY DEF P!Range, P!Auto, P!PatchAuto
<1>2. P!Range(P!Empty) = {"test_17", "test_18", "test_23_01", "test_24_01"}
  <2>1. DOMAIN P!Empty = {1, 2, 3, 4}
    BY DEF P!Empty
  <2> QED BY <2>1 DEF P!Range, P!Empty
<1>3. P!Range(P!Invalid) = {"test_19", "test_20"} /\ P!Range(P!Identity) = {"test_22", "test_21"}
  BY DEF P!Range, P!Invalid, P!Identity
<1>4. P!Range(P!Change) = {"test_23", "test_24"} /\ P!Range(P!Bulk) = {"test_36", "test_37"}
  BY DEF P!Range, P!Change, P!Bulk
<1>5. DOMAIN P!Activation = {"test_25", "test_26", "test_27", "test_28", "test_29", "test_30"}
  BY DEF P!Activation
<1>6. \A t \in DOMAIN P!Activation : P!Activation[t] \in P!Modes
  BY DEF P!Activation, P!Modes
<1> QED BY <1>1, <1>2, <1>3, <1>4, <1>5, <1>6

LEMMA PortSubject ==
    ASSUME ConnectionTypes, at.step # "begin"
    PROVE  /\ ~Ended /\ Subject \in P!Range(P!PortsOf(Head(at.plan))) /\ Subject \in P!Port
           /\ Head(at.plan) \in P!ForReceivers => Subject \notin P!Range(PortSenders)
<1>1. at.todo \in Seq(P!Range(P!PortsOf(Head(at.plan)))) /\ at.todo # <<>>
  BY DEF ConnectionTypes
<1>2. Head(at.todo) \in P!Range(P!PortsOf(Head(at.plan)))
  BY <1>1, HeadTailProperties
<1> QED BY <1>2, PortLists DEF ConnectionTypes, Subject

\* What a step leaves of its kind.
LEMMA ConnectionTypesKept ==
    ASSUME ConnectionTypes, ~Ended, device' \in PortDevice, noted' \in PortNotes,
           \/ \E v \in Verdict : Conclude(v)
           \/ at.step # "begin" /\ \E v \in Verdict : LeaveAs(v)
           \/ Visit(P!PortsOf(Head(at.plan)))
           \/ at.step # "begin" /\ \E step, tries : tries \in Nat /\ Step(step, tries)
    PROVE  ConnectionTypes'
<1>0. IsRun /\ Judged
  BY DEF ConnectionTypes
<1>1. ASSUME NEW v \in Verdict, Conclude(v) PROVE ConnectionTypes'
  BY <1>0, <1>1, RunConcludes DEF ConnectionTypes, Concluded, Position
<1>2. ASSUME NEW step, NEW todo, NEW tries \in Nat, GoesOn(step, todo, tries), todo # <<>>,
             todo \in Seq(P!Range(P!PortsOf(Head(at.plan))))
      PROVE  ConnectionTypes'
  BY <1>0, <1>2, RunGoesOn DEF ConnectionTypes
<1>3. CASE at.step # "begin" /\ \E v \in Verdict : LeaveAs(v)
  <2>1. PICK v \in Verdict : LeaveAs(v)
    BY <1>3
  <2>2. at.todo \in Seq(P!Range(P!PortsOf(Head(at.plan)))) /\ at.todo # <<>>
    BY <1>3 DEF ConnectionTypes
  <2> QED BY <1>0, <1>1, <1>2, <2>1, <2>2, RunLeaves
<1>4. CASE Visit(P!PortsOf(Head(at.plan)))
  <2>1. "UNCLEAR" \in Verdict
    BY DEF Verdict
  <2> QED BY <1>0, <1>1, <1>2, <1>4, <2>1, PortLists, RunVisits
<1>5. CASE at.step # "begin" /\ \E step, tries : tries \in Nat /\ Step(step, tries)
  BY <1>0, <1>2, <1>5, RunSteps DEF ConnectionTypes
<1> QED BY <1>1, <1>3, <1>4, <1>5

BulkStays ==
    Head(at.plan) \in P!Range(P!Bulk) =>
        \A p \in P!Range(P!PortsOf(Head(at.plan))) : (device.staged[p].value = Bulked(p))'

\* A step that ends a test, or goes on to another port, of a device that is sound and awaits nothing.
LEMMA ConnectionPassKept ==
    ASSUME ConnectionTypes, NoneFailed, ~Ended,
           \A p \in P!Port : Sound(device', p) /\ device'.staged[p].mode = "none",
           NEW v, v # "FAIL",
           Conclude(v) \/ (at.step # "begin" /\ LeaveAs(v)) \/ Visit(P!PortsOf(Head(at.plan))),
           Conclude(v) \/ BulkStays
    PROVE  ConnectionPass'
<1>0. IsRun
  BY DEF ConnectionTypes
<1>1. ASSUME NEW w, w # "FAIL", Conclude(w) PROVE ConnectionPass'
  <2>1. NoneFailed' /\ at'.step = "begin"
    BY <1>0, <1>1, RunConcludes DEF Concluded
  <2> QED BY <2>1 DEF ConnectionPass, AtStep
<1>2. ASSUME NEW todo, GoesOn("visit", todo, 0), BulkStays PROVE ConnectionPass'
  <2>1. NoneFailed' /\ at'.step = "visit" /\ at'.plan = at.plan
    BY <1>0, <1>2, RunGoesOn
  <2> QED BY <1>2, <2>1 DEF ConnectionPass, AtStep, BulkStays
<1>3. CASE at.step # "begin" /\ LeaveAs(v) /\ ~Conclude(v)
  <2>1. at.todo \in Seq(P!Range(P!PortsOf(Head(at.plan)))) /\ at.todo # <<>>
    BY <1>3 DEF ConnectionTypes
  <2>2. GoesOn("visit", Tail(at.todo), 0)
    BY <1>0, <1>3, <2>1, RunLeaves
  <2> QED BY <1>2, <1>3, <2>2
<1>4. CASE Visit(P!PortsOf(Head(at.plan))) /\ ~Conclude(v)
  BY <1>0, <1>1, <1>2, <1>4, RunVisits
<1> QED BY <1>1, <1>3, <1>4

\* A value that is staged, and the Sender enabled.
Enabling(d, p, on) == [d EXCEPT !.staged[p].enabled = on]

LEMMA StagingOn ==
    ASSUME NEW d \in PortDevice, NEW p \in P!Port, NEW v \in P!Value, NEW on \in BOOLEAN,
           NEW e, e = P!Stage(d, p, v), NEW r, r = Enabling(e, p, on)
    PROVE  /\ r \in PortDevice /\ r.fault = d.fault /\ r.pace = d.pace /\ r.active = d.active /\ r.sdp = d.sdp
           /\ \A q \in P!Port : /\ q # p => r.staged[q] = d.staged[q]
                                /\ r.staged[q].mode = d.staged[q].mode
           /\ d.fault # "frozen" => r.staged[p].value = v
           /\ r.staged[p].enabled = on
<1>1. /\ e \in PortDevice /\ e.fault = d.fault /\ e.pace = d.pace /\ e.active = d.active /\ e.sdp = d.sdp
      /\ \A q \in P!Port : /\ q # p => e.staged[q] = d.staged[q]
                           /\ e.staged[q].mode = d.staged[q].mode
      /\ d.fault # "frozen" => e.staged[p].value = v
  BY Staging
<1>2. PICK s : s = [e.staged[p] EXCEPT !.enabled = on]
  OBVIOUS
<1>3. e.staged[p] \in PortStaged
  BY <1>1 DEF PortDevice
<1>4. s \in PortStaged /\ s.mode = e.staged[p].mode /\ s.value = e.staged[p].value /\ s.enabled = on
  BY <1>2, <1>3 DEF PortStaged
<1>5. PICK staged : staged = [e.staged EXCEPT ![p] = s]
  OBVIOUS
<1>6. /\ staged \in [P!Port -> PortStaged] /\ staged[p] = s
      /\ \A q \in P!Port : q # p => staged[q] = e.staged[q]
  BY <1>1, <1>4, <1>5 DEF PortDevice
<1>7. r = [e EXCEPT !.staged = staged]
  BY <1>2, <1>5 DEF Enabling
<1>8. /\ r \in PortDevice /\ r.fault = e.fault /\ r.pace = e.pace /\ r.active = e.active /\ r.sdp = e.sdp
      /\ r.staged[p] = s /\ \A q \in P!Port : q # p => r.staged[q] = e.staged[q]
  BY <1>1, <1>7, <1>6 DEF PortDevice
<1> QED BY <1>1, <1>4, <1>8

\* The one request of a bulk test.
Drawn(v, p) == IF v \in Allowed[p] THEN v ELSE CHOOSE x \in Allowed[p] : TRUE

BulkPatch(v) ==
    /\ device' = IF device.fault \in {"bulk", "frozen"} THEN device
                 ELSE [device EXCEPT !.staged = [p \in P!Port |->
                          IF p \in P!Range(P!PortsOf(Head(at.plan)))
                          THEN [device.staged[p] EXCEPT !.value = Drawn(v, p)] ELSE device.staged[p]]]
    /\ noted' = [noted EXCEPT !.value = v,
                    !.same = @ \/ \E p \in P!Range(P!PortsOf(Head(at.plan))) : Drawn(v, p) = device.staged[p].value]
    /\ Visit(P!PortsOf(Head(at.plan)))

LEMMA BulkStages ==
    ASSUME P!BulkStage, P!On(P!Range(P!Bulk), "begin")
    PROVE  \/ /\ \E p \in P!Range(P!PortsOf(Head(at.plan))) : P!Locked(p)
              /\ Conclude("FAIL") /\ UNCHANGED <<device, noted>>
           \/ \E v \in P!Value : BulkPatch(v)
<1> DEFINE ports == P!PortsOf(Head(at.plan))
<1>1. ~P!On(P!Range(P!Bulk), "visit")
  BY DEF P!On
<1>2. CASE \E p \in P!Range(ports) : P!Locked(p)
  BY <1>1, <1>2, ConnectionRun DEF P!BulkStage, P!Here
<1>3. CASE ~\E p \in P!Range(ports) : P!Locked(p)
  <2>1. PICK v \in P!Value :
            LET drawn == [p \in P!Range(ports) |->
                             IF v \in Allowed[p] THEN v ELSE CHOOSE x \in Allowed[p] : TRUE]
            IN  /\ device' = IF device.fault \in {"bulk", "frozen"} THEN device
                             ELSE [device EXCEPT !.staged = [p \in P!Port |->
                                     IF p \in P!Range(ports)
                                     THEN [device.staged[p] EXCEPT !.value = drawn[p]]
                                     ELSE device.staged[p]]]
                /\ noted' = [noted EXCEPT !.value = v,
                               !.same = @ \/ \E p \in P!Range(ports) : drawn[p] = device.staged[p].value]
                /\ P!Visit(ports)
    BY <1>1, <1>3 DEF P!BulkStage, P!Here
  <2>2. Visit(ports)
    BY <2>1, ConnectionRun
  <2> HIDE DEF ports
  <2>3. BulkPatch(v)
    BY <2>1, <2>2 DEF BulkPatch, Drawn, ports
  <2> QED BY <2>3
<1> QED BY <1>2, <1>3

LEMMA BulkParts ==
    ASSUME device \in PortDevice, noted \in PortNotes, NEW v \in P!Value, BulkPatch(v)
    PROVE  /\ device' \in PortDevice /\ noted' \in PortNotes /\ noted'.value = v
           /\ device'.fault = device.fault /\ device'.pace = device.pace
           /\ device'.active = device.active /\ device'.sdp = device.sdp
           /\ \A p \in P!Port : device'.staged[p].mode = device.staged[p].mode
           /\ device.fault = "none" => \A p \in P!Port :
                  IF p \in P!Range(P!PortsOf(Head(at.plan))) THEN device'.staged[p].value = Drawn(v, p)
                  ELSE device'.staged[p] = device.staged[p]
<1> DEFINE ports == P!Range(P!PortsOf(Head(at.plan)))
           same == noted.same \/ \E p \in ports : Drawn(v, p) = device.staged[p].value
           put(p) == IF p \in ports THEN [device.staged[p] EXCEPT !.value = Drawn(v, p)] ELSE device.staged[p]
<1>1. noted' \in PortNotes /\ noted'.value = v
  <2>1. same \in BOOLEAN
    BY DEF PortNotes
  <2>2. noted' = [noted EXCEPT !.value = v, !.same = same]
    BY DEF BulkPatch
  <2> HIDE DEF same
  <2> QED BY <2>1, <2>2 DEF PortNotes
<1>2. CASE device.fault \in {"bulk", "frozen"}
  BY <1>1, <1>2 DEF BulkPatch
<1>3. CASE device.fault \notin {"bulk", "frozen"}
  <2>1. PICK staged : staged = [p \in P!Port |-> put(p)]
    OBVIOUS
  <2>2. device' = [device EXCEPT !.staged = staged]
    BY <1>3, <2>1 DEF BulkPatch
  <2>3. ASSUME NEW p \in P!Port
        PROVE  /\ put(p) \in PortStaged /\ put(p).mode = device.staged[p].mode
               /\ IF p \in ports THEN put(p).value = Drawn(v, p) ELSE put(p) = device.staged[p]
    <3>1. device.staged[p] \in PortStaged /\ Drawn(v, p) \in P!Value \cup {"auto"}
      BY PortValues DEF PortDevice, Drawn
    <3> QED BY <3>1 DEF PortStaged
  <2> HIDE DEF put
  <2>4. staged \in [P!Port -> PortStaged] /\ \A p \in P!Port : staged[p] = put(p)
    BY <2>1, <2>3
  <2>5. /\ device' \in PortDevice /\ device'.staged = staged
        /\ device'.fault = device.fault /\ device'.pace = device.pace
        /\ device'.active = device.active /\ device'.sdp = device.sdp
    BY <2>2, <2>4 DEF PortDevice
  <2> QED BY <1>1, <2>3, <2>4, <2>5
<1> QED BY <1>2, <1>3

LEMMA ConnectionTypesStep ==
    ASSUME ConnectionTypes, [P!Next]_suiteVars
    PROVE  ConnectionTypes'
<1>0. device \in PortDevice /\ noted \in PortNotes /\ at.tries \in Nat
  BY DEF ConnectionTypes
<1>1. CASE UNCHANGED suiteVars
  BY <1>1 DEF suiteVars, ConnectionTypes, IsRun, IsPlan, Judged, Ended, PortNotes
<1>2. ASSUME NEW p \in P!Port, P!Fire(p) PROVE ConnectionTypes'
  <2>1. PICK mode : mode = device.staged[p].mode
    OBVIOUS
  <2>2. mode \in P!Modes /\ device' = P!Activated(device, p, mode)
    BY <1>2, <2>1 DEF P!Fire, P!Modes
  <2>3. device' \in PortDevice
    BY <1>0, <2>2, Activating
  <2> QED BY <1>2, <2>3 DEF P!Fire, ConnectionTypes, IsRun, IsPlan, Judged, Ended, PortNotes
<1>3. ASSUME ~Ended, device' \in PortDevice, noted' \in PortNotes,
             \/ \E v \in Verdict : Conclude(v)
             \/ at.step # "begin" /\ \E v \in Verdict : LeaveAs(v)
             \/ Visit(P!PortsOf(Head(at.plan)))
             \/ at.step # "begin" /\ \E step, tries : tries \in Nat /\ Step(step, tries)
      PROVE  ConnectionTypes'
  BY <1>3, ConnectionTypesKept
<1>4. ASSUME ~Ended, at.step # "begin", UNCHANGED <<device, noted>>, NEW v \in Verdict, Conclude(v) \/ LeaveAs(v)
      PROVE  ConnectionTypes'
  BY <1>0, <1>3, <1>4
<1>5. {"PASS", "FAIL", "UNCLEAR", "WARNING"} \subseteq Verdict
  BY DEF Verdict
<1>7. CASE P!SetUp
  BY <1>0, <1>3, <1>5, <1>7, ConnectionRun DEF P!SetUp, On
<1>8. CASE P!Begin
  <2>1. ~Ended /\ Visit(P!PortsOf(Head(at.plan))) /\ device' = device /\ noted' = [noted EXCEPT !.late = FALSE]
    BY <1>8, ConnectionRun DEF P!Begin, P!Here, On
  <2>2. noted' \in PortNotes
    BY <1>0, <2>1 DEF PortNotes
  <2> QED BY <1>0, <1>3, <2>1, <2>2
<1>9. CASE P!TransportFiles
  <2>1. /\ ~Ended /\ at.step # "begin" /\ UNCHANGED <<device, noted>>
        /\ Conclude("FAIL") \/ LeaveAs("PASS") \/ LeaveAs("UNCLEAR")
    BY <1>9, ConnectionRun DEF P!TransportFiles, On
  <2> QED BY <1>4, <1>5, <2>1
<1>10. CASE P!NoAuto
  BY <1>4, <1>5, <1>10, ConnectionRun DEF P!NoAuto, On
<1>11. CASE P!PatchAutoParams
  <2>1. ~Ended /\ at.step # "begin" /\ noted' = noted
    BY <1>11, ConnectionRun DEF P!PatchAutoParams, On
  <2>2. CASE device' = device /\ (Conclude("FAIL") \/ LeaveAs("PASS"))
    BY <1>4, <1>5, <2>1, <2>2
  <2>3. CASE Step("active", 0) /\ device' = P!Activate(P!Stage(device, Subject, "auto"), Subject, "immediate")
    <3>1. PICK d : d = P!Stage(device, Subject, "auto")
      OBVIOUS
    <3>2. d \in PortDevice /\ Subject \in P!Port
      BY <1>0, <2>1, <3>1, PortSubject, PortValues, Staging
    <3>3. device' \in PortDevice
      BY <2>3, <3>1, <3>2, PortValues, AskingToActivate
    <3> QED BY <1>0, <1>3, <2>1, <2>3, <3>3
  <2> QED BY <1>11, <2>2, <2>3, ConnectionRun DEF P!PatchAutoParams, P!Patch
<1>12. CASE P!EmptyPatch
  BY <1>4, <1>5, <1>12, ConnectionRun DEF P!EmptyPatch, P!Patch, On
<1>13. CASE P!InvalidPatch
  BY <1>4, <1>5, <1>13, ConnectionRun DEF P!InvalidPatch, On
<1>14. CASE P!IdentityPatch
  BY <1>4, <1>5, <1>14, ConnectionRun DEF P!IdentityPatch, P!Patch, On
<1>15. ASSUME NEW v \in P!Value, P!Draw(Subject, v) PROVE noted' \in PortNotes
  <2>1. noted' = [noted EXCEPT !.value = v, !.same = @ \/ v = device.staged[Subject].value]
    BY <1>15 DEF P!Draw
  <2>2. (noted.same \/ v = device.staged[Subject].value) \in BOOLEAN
    BY <1>0 DEF PortNotes
  <2> QED BY <1>0, <2>1, <2>2 DEF PortNotes
<1>16. CASE P!ChangeParam
  <2>1. ~Ended /\ at.step # "begin"
    BY <1>16, ConnectionRun DEF P!ChangeParam, On
  <2>2. ASSUME NEW v \in P!Value, P!Draw(Subject, v), P!Patch(P!Stage(device, Subject, v), P!Goto("staged"))
        PROVE  ConnectionTypes'
    <3>1. noted' \in PortNotes /\ Subject \in P!Port
      BY <1>15, <2>1, <2>2, PortSubject
    <3>2. CASE Conclude("FAIL") /\ device' = device
      BY <1>0, <1>3, <1>5, <2>1, <3>1, <3>2
    <3>3. CASE Step("staged", 0) /\ device' = P!Stage(device, Subject, v)
      <4>1. device' \in PortDevice
        BY <1>0, <3>1, <3>3, Staging
      <4> QED BY <1>3, <2>1, <3>1, <3>3, <4>1
    <3> QED BY <2>2, <3>2, <3>3, ConnectionRun DEF P!Patch
  <2> QED BY <1>4, <1>5, <1>16, <2>1, <2>2, ConnectionRun DEF P!ChangeParam
<1>17. CASE P!StageForActivation
  <2>1. ~Ended /\ at.step # "begin" /\ Subject \in P!Port
    BY <1>17, ConnectionRun, PortSubject DEF P!StageForActivation, On
  <2>2. ASSUME NEW v \in P!Value, P!Draw(Subject, v), NEW d,
               d = [P!Stage(device, Subject, v) EXCEPT
                       !.staged[Subject].enabled = @ \/ Head(at.plan) \notin P!ForReceivers],
               P!Patch(d, P!Goto("activate"))
        PROVE  ConnectionTypes'
    <3>1. noted' \in PortNotes
      BY <1>15, <2>2
    <3>2. CASE Conclude("FAIL") /\ device' = device
      BY <1>0, <1>3, <1>5, <2>1, <3>1, <3>2
    <3>3. CASE Step("activate", 0) /\ device' = d
      <4>1. PICK e : e = P!Stage(device, Subject, v)
        OBVIOUS
      <4>2. PICK on \in BOOLEAN : on = (e.staged[Subject].enabled \/ Head(at.plan) \notin P!ForReceivers)
        OBVIOUS
      <4>3. d = Enabling(e, Subject, on)
        BY <2>2, <4>1, <4>2 DEF Enabling
      <4>4. d \in PortDevice
        BY <1>0, <2>1, <4>1, <4>3, StagingOn
      <4> QED BY <1>3, <2>1, <3>1, <3>3, <4>4
    <3> QED BY <2>2, <3>2, <3>3, ConnectionRun DEF P!Patch
  <2>3. ASSUME P!On(DOMAIN P!Activation, "activate"), noted' = noted,
               P!Patch(P!Activate(device, Subject, P!Activation[Head(at.plan)]),
                       P!Goto(IF P!Activation[Head(at.plan)] = "immediate" THEN "default" ELSE "active"))
        PROVE  ConnectionTypes'
    <3>1. CASE Conclude("FAIL") /\ device' = device
      BY <1>4, <1>5, <2>1, <2>3, <3>1
    <3>2. CASE /\ \E step : Step(step, 0)
               /\ device' = P!Activate(device, Subject, P!Activation[Head(at.plan)])
      <4>1. PICK mode : mode = P!Activation[Head(at.plan)]
        OBVIOUS
      <4>2. mode \in P!Modes
        BY <2>3, <4>1, ConnectionRun, PortTestNames DEF On
      <4>3. device' \in PortDevice
        BY <1>0, <2>1, <3>2, <4>1, <4>2, AskingToActivate
      <4> QED BY <1>0, <1>3, <2>1, <2>3, <3>2, <4>3
    <3> QED BY <2>3, <3>1, <3>2, ConnectionRun DEF P!Patch
  <2> QED BY <1>17, <2>2, <2>3, ConnectionRun DEF P!StageForActivation, P!Here
<1>18. CASE P!StagedDefault
  <2>1. /\ ~Ended /\ at.step # "begin" /\ UNCHANGED <<device, noted>>
        /\ Conclude("FAIL") \/ Step("active", 0)
    BY <1>18, ConnectionRun DEF P!StagedDefault, On
  <2> QED BY <1>0, <1>3, <1>5, <2>1
<1>19. CASE P!ActiveRead
  <2>1. ~Ended /\ at.step # "begin" /\ device' = device
    BY <1>19, ConnectionRun DEF P!ActiveRead, On
  <2>2. CASE P!Shown(Subject)
    <3>1. noted' = [noted EXCEPT !.late = @ \/ at.tries > 0] /\ (noted.late \/ at.tries > 0) \in BOOLEAN
      BY <1>0, <1>19, <2>2, ConnectionRun DEF P!ActiveRead, PortNotes
    <3>2. noted' \in PortNotes
      BY <1>0, <3>1 DEF PortNotes
    <3>3. Conclude("FAIL") \/ LeaveAs("WARNING") \/ LeaveAs("PASS")
      BY <1>19, <2>2, ConnectionRun DEF P!ActiveRead
    <3> QED BY <1>0, <1>3, <1>5, <2>1, <3>2, <3>3
  <2>3. CASE ~P!Shown(Subject)
    BY <1>0, <1>3, <1>5, <1>19, <2>1, <2>3, ConnectionRun DEF P!ActiveRead
  <2> QED BY <2>2, <2>3
<1>20. CASE P!BulkStage
  <2>1. CASE P!On(P!Range(P!Bulk), "visit")
    <3>1. ~Ended /\ at.step # "begin" /\ ~P!On(P!Range(P!Bulk), "begin")
      BY <2>1, ConnectionRun DEF On
    <3>2. UNCHANGED <<device, noted>> /\ (Conclude("FAIL") \/ LeaveAs("PASS"))
      BY <1>20, <3>1, ConnectionRun DEF P!BulkStage
    <3> QED BY <1>4, <1>5, <3>1, <3>2
  <2>2. CASE P!On(P!Range(P!Bulk), "begin")
    <3>1. ~Ended
      BY <2>2, ConnectionRun DEF On
    <3>2. CASE Conclude("FAIL") /\ UNCHANGED <<device, noted>>
      BY <1>0, <1>3, <1>5, <3>1, <3>2
    <3>3. ASSUME NEW v \in P!Value, BulkPatch(v) PROVE ConnectionTypes'
      <4>1. device' \in PortDevice /\ noted' \in PortNotes
        BY <1>0, <3>3, BulkParts
      <4> QED BY <1>3, <3>1, <3>3, <4>1 DEF BulkPatch
    <3> QED BY <1>20, <2>2, <3>2, <3>3, BulkStages
  <2> QED BY <1>20, <2>1, <2>2 DEF P!BulkStage
<1> QED BY <1>1, <1>2, <1>7, <1>8, <1>9, <1>10, <1>11, <1>12, <1>13, <1>14, <1>16, <1>17, <1>18,
           <1>19, <1>20 DEF P!Next, P!Tests

\* A conforming device that activates in time: each step keeps what no test fails.
LEMMA ConnectionPassStep ==
    ASSUME ConnectionTypes, ConnectionPass, device.fault = "none", device.pace # "slow", P!Next
    PROVE  ConnectionPass'
<1>0. /\ device \in PortDevice /\ noted \in PortNotes /\ at.tries \in Nat /\ IsRun /\ NoneFailed
      /\ \A p \in P!Port : Sound(device, p)
  BY DEF ConnectionTypes, ConnectionPass
<1> DEFINE here == Head(at.plan)
           Free == \A p \in P!Port : device.staged[p].mode = "none"
<1>1. ASSUME ~AtStep(DOMAIN P!Activation, {"active"}) PROVE Free /\ \A p \in P!Port : ~P!Locked(p)
  <2>1. Free
    BY <1>1 DEF ConnectionPass
  <2> QED BY <2>1 DEF P!Locked, P!Pending
<1>2. ASSUME ~Ended, ~AtStep(DOMAIN P!Activation, {"active"}), device' = device, NEW v, v # "FAIL",
             \/ Conclude(v)
             \/ at.step # "begin" /\ here \notin P!Range(P!Bulk) /\ LeaveAs(v)
      PROVE  ConnectionPass'
  BY <1>0, <1>1, <1>2, ConnectionPassKept DEF BulkStays
\* The test goes on with its port, as another step that says nothing of it.
<1>3. ASSUME ~Ended, \A p \in P!Port : Sound(device', p) /\ device'.staged[p].mode = "none",
             NEW step, Step(step, 0), here \notin P!Range(P!Bulk),
             here \in DOMAIN P!Activation /\ step \in {"activate", "default", "active"} => PortStands',
             here \in DOMAIN P!Activation /\ step \in {"default", "active"} => PortShows',
             here \in P!Range(P!Change) /\ step = "staged" => (device.staged[Subject].value = noted.value)'
      PROVE  ConnectionPass'
  <2>1. NoneFailed' /\ at'.step = step /\ at'.plan = at.plan
    BY <1>0, <1>3, RunSteps, RunGoesOn
  <2> QED BY <1>3, <2>1 DEF ConnectionPass, AtStep
<1>4. ASSUME NEW p \in P!Port, P!Fire(p) PROVE ConnectionPass'
  <2>1. PICK mode : mode = device.staged[p].mode
    OBVIOUS
  <2>2. mode \in P!Modes /\ device' = P!Activated(device, p, mode) /\ UNCHANGED <<at, noted, verdict>>
    BY <1>4, <2>1 DEF P!Fire, P!Modes
  <2>3. /\ AtStep(DOMAIN P!Activation, {"active"}) /\ p = Subject /\ mode = P!Activation[here]
        /\ mode # "immediate" /\ PortStands
        /\ \A q \in P!Port : q # p => device.staged[q].mode = "none"
    <3>1. mode # "none"
      BY <1>4, <2>1 DEF P!Fire
    <3> QED BY <2>1, <3>1 DEF ConnectionPass, AtStep
  <2>4. /\ \A q \in P!Port : /\ q # p => /\ device'.staged[q] = device.staged[q]
                                         /\ device'.active[q] = device.active[q] /\ device'.sdp[q] = device.sdp[q]
                             /\ device'.staged[q].value = device.staged[q].value
                             /\ device'.staged[q].enabled = device.staged[q].enabled
        /\ device'.staged[p].mode = "none" /\ device'.sdp[p] = device'.active[p].value
        /\ device'.active[p].mode = mode /\ device'.active[p].fresh
        /\ device'.active[p].enabled = device.staged[p].enabled
        /\ device'.active[p].value = Resolved(device, p)
    BY <1>0, <2>2, Activating
  <2>5. Resolved(device, p) \in Allowed[p] /\ Resolved(device, p) = noted.value
    BY <1>0, <2>3, PortValues DEF Resolved, Sound, PortStands
  <2>6. \A q \in P!Port : Sound(device', q) /\ device'.staged[q].mode = "none"
    BY <1>0, <2>3, <2>4, <2>5 DEF Sound
  <2>7. NoneFailed' /\ Subject' = Subject /\ Head(at.plan)' = here
    BY <1>0, <2>2 DEF NoneFailed, Subject
  <2>8. PortStands' /\ PortShows'
    BY <2>2, <2>3, <2>4, <2>5, <2>7 DEF PortStands, PortShows
  <2>9. at'.step = "active"
    BY <2>2, <2>3 DEF AtStep
  <2>10. ~AtStep(P!Range(P!Change), {"staged"})' /\ ~AtStep(P!Range(P!Bulk), {"visit"})'
    BY <2>9 DEF AtStep
  <2> QED BY <2>6, <2>7, <2>8, <2>10 DEF ConnectionPass
<1>5. CASE P!SetUp
  <2>1. /\ ~Ended /\ here \in {"set_up_tests", "tear_down_tests"} /\ Conclude("PASS") /\ device' = device
    BY <1>5, ConnectionRun DEF P!SetUp, On
  <2> QED BY <1>2, <2>1, PortTestNames DEF AtStep
<1>6. CASE P!Begin
  <2>1. /\ ~Ended /\ at.step = "begin" /\ here \notin P!Range(P!Bulk)
        /\ Visit(P!PortsOf(here)) /\ device' = device
    BY <1>6, ConnectionRun DEF P!Begin, P!Here, On
  <2>2. Free
    BY <1>1, <2>1 DEF AtStep
  <2> QED BY <1>0, <2>1, <2>2, ConnectionPassKept DEF BulkStays
<1>7. CASE P!TransportFiles
  <2>1. ~Ended /\ here = "test_09_01" /\ at.step = "visit" /\ device' = device
    BY <1>7, ConnectionRun DEF P!TransportFiles, On
  <2>2. device.sdp[Subject] = device.active[Subject].value
    BY <1>0, <2>1, PortSubject DEF Sound
  <2>3. LeaveAs("PASS") \/ LeaveAs("UNCLEAR")
    BY <1>7, <2>2, ConnectionRun DEF P!TransportFiles
  <2> QED BY <1>2, <2>1, <2>3, PortTestNames DEF AtStep
<1>8. CASE P!NoAuto
  <2>1. ~Ended /\ here \in P!Range(P!Auto) /\ at.step = "visit" /\ device' = device
    BY <1>8, ConnectionRun DEF P!NoAuto, On
  <2>2. device.active[Subject].value # "auto"
    BY <1>0, <2>1, PortSubject, PortValues DEF Sound
  <2>3. LeaveAs("PASS")
    BY <1>8, <2>2, ConnectionRun DEF P!NoAuto
  <2> QED BY <1>2, <2>1, <2>3, PortTestNames DEF AtStep
<1>9. CASE P!PatchAutoParams
  <2>1. ~Ended /\ here \in P!Range(P!PatchAuto) /\ at.step \in {"visit", "active"}
    BY <1>9, ConnectionRun DEF P!PatchAutoParams, On
  <2>2. Free /\ Subject \in P!Port /\ ~P!Locked(Subject)
    BY <1>1, <2>1, PortTestNames, PortSubject DEF AtStep
  <2>3. CASE at.step = "active"
    <3>1. device.active[Subject].value # "auto"
      BY <1>0, <2>2, PortValues DEF Sound
    <3>2. LeaveAs("PASS") /\ device' = device
      BY <1>9, <2>3, <3>1, ConnectionRun DEF P!PatchAutoParams, On
    <3> QED BY <1>2, <2>1, <3>2, PortTestNames DEF AtStep
  <2>4. CASE at.step = "visit"
    <3>1. Step("active", 0) /\ device' = P!Activate(P!Stage(device, Subject, "auto"), Subject, "immediate")
      BY <1>9, <2>2, <2>4, ConnectionRun DEF P!PatchAutoParams, P!Patch, On
    <3>2. PICK d : d = P!Stage(device, Subject, "auto")
      OBVIOUS
    <3>3. /\ d \in PortDevice /\ d.fault = "none" /\ d.active = device.active /\ d.sdp = device.sdp
          /\ \A q \in P!Port : /\ q # Subject => d.staged[q] = device.staged[q]
                               /\ d.staged[q].mode = device.staged[q].mode
          /\ d.staged[Subject].value = "auto"
      BY <1>0, <2>2, <3>2, PortValues, Staging
    <3>4. /\ \A q \in P!Port : /\ q # Subject => /\ device'.staged[q] = d.staged[q]
                                                 /\ device'.active[q] = d.active[q] /\ device'.sdp[q] = d.sdp[q]
                               /\ device'.staged[q].value = d.staged[q].value
          /\ device'.staged[Subject].mode = "none" /\ device'.sdp[Subject] = device'.active[Subject].value
          /\ device'.active[Subject].value = Resolved(d, Subject)
      BY <2>2, <3>1, <3>2, <3>3, PortValues, AskingToActivate
    <3>5. Resolved(d, Subject) \in Allowed[Subject]
      BY <2>2, <3>3, PortValues DEF Resolved
    <3>6. \A q \in P!Port : Sound(device', q) /\ device'.staged[q].mode = "none"
      BY <1>0, <2>2, <3>3, <3>4, <3>5 DEF Sound
    <3> QED BY <1>3, <2>1, <3>1, <3>6, PortTestNames
  <2> QED BY <2>1, <2>3, <2>4
<1>10. CASE P!EmptyPatch
  <2>1. ~Ended /\ here \in P!Range(P!Empty) /\ at.step = "visit"
    BY <1>10, ConnectionRun DEF P!EmptyPatch, On
  <2>2. ~P!Locked(Subject)
    BY <1>1, <2>1, PortSubject DEF AtStep
  <2>3. LeaveAs("PASS") /\ device' = device
    BY <1>10, <2>2, ConnectionRun DEF P!EmptyPatch, P!Patch
  <2> QED BY <1>2, <2>1, <2>3, PortTestNames DEF AtStep
<1>11. CASE P!InvalidPatch
  <2>1. ~Ended /\ here \in P!Range(P!Invalid) /\ at.step = "visit"
    BY <1>11, ConnectionRun DEF P!InvalidPatch, On
  <2>2. ~P!Locked(Subject)
    BY <1>1, <2>1, PortSubject DEF AtStep
  <2>3. LeaveAs("PASS") /\ device' = device
    BY <1>11, <2>2, ConnectionRun DEF P!InvalidPatch
  <2> QED BY <1>2, <2>1, <2>3, PortTestNames DEF AtStep
<1>12. CASE P!IdentityPatch
  <2>1. ~Ended /\ here \in P!Range(P!Identity) /\ at.step = "visit"
    BY <1>12, ConnectionRun DEF P!IdentityPatch, On
  <2>2. ~P!Locked(Subject)
    BY <1>1, <2>1, PortSubject DEF AtStep
  <2>3. LeaveAs("PASS") /\ device' = device
    BY <1>12, <2>2, ConnectionRun DEF P!IdentityPatch, P!Patch
  <2> QED BY <1>2, <2>1, <2>3, PortTestNames DEF AtStep
<1>13. CASE P!ChangeParam
  <2>1. ~Ended /\ here \in P!Range(P!Change) /\ at.step \in {"visit", "staged"}
    BY <1>13, ConnectionRun DEF P!ChangeParam, On
  <2>2. Free /\ Subject \in P!Port /\ ~P!Locked(Subject)
    BY <1>1, <2>1, PortTestNames, PortSubject DEF AtStep
  <2>3. CASE at.step = "staged"
    <3>1. device.staged[Subject].value = noted.value
      BY <2>1, <2>3 DEF ConnectionPass, AtStep
    <3>2. LeaveAs("PASS") /\ device' = device
      BY <1>13, <2>3, <3>1, ConnectionRun DEF P!ChangeParam, On
    <3> QED BY <1>2, <2>1, <3>2, PortTestNames DEF AtStep
  <2>4. CASE at.step = "visit"
    <3>1. PICK v \in P!Value : P!Draw(Subject, v) /\ P!Patch(P!Stage(device, Subject, v), P!Goto("staged"))
      BY <1>13, <2>4, ConnectionRun DEF P!ChangeParam, On
    <3>2. /\ v \in Allowed[Subject] /\ noted'.value = v /\ device' = P!Stage(device, Subject, v)
          /\ Step("staged", 0)
      BY <1>0, <2>2, <3>1, ConnectionRun DEF P!Draw, P!Patch, PortNotes
    <3>3. /\ device'.active = device.active /\ device'.sdp = device.sdp
          /\ \A q \in P!Port : /\ q # Subject => device'.staged[q] = device.staged[q]
                               /\ device'.staged[q].mode = device.staged[q].mode
          /\ device'.staged[Subject].value = v
      BY <1>0, <2>2, <3>2, Staging
    <3>4. \A q \in P!Port : Sound(device', q) /\ device'.staged[q].mode = "none"
      BY <1>0, <2>2, <3>2, <3>3 DEF Sound
    <3>5. Subject' = Subject
      BY <1>0, <3>2, RunSteps, RunGoesOn DEF Subject
    <3> QED BY <1>3, <2>1, <3>2, <3>3, <3>4, <3>5, PortTestNames
  <2> QED BY <2>1, <2>3, <2>4
<1>14. CASE P!StageForActivation
  <2>1. ~Ended /\ here \in DOMAIN P!Activation /\ at.step \in {"visit", "activate"} /\ here \notin P!Range(P!Bulk)
    BY <1>14, ConnectionRun, PortTestNames DEF P!StageForActivation, On
  <2>2. Free /\ Subject \in P!Port /\ ~P!Locked(Subject)
    BY <1>1, <2>1, PortSubject DEF AtStep
  <2>3. CASE at.step = "visit"
    <3>1. PICK v \in P!Value :
              /\ P!Draw(Subject, v)
              /\ P!Patch([P!Stage(device, Subject, v) EXCEPT
                            !.staged[Subject].enabled = @ \/ here \notin P!ForReceivers], P!Goto("activate"))
      BY <1>14, <2>3, ConnectionRun DEF P!StageForActivation, P!Here, On
    <3>2. /\ v \in Allowed[Subject] /\ noted'.value = v /\ Step("activate", 0)
          /\ device' = [P!Stage(device, Subject, v) EXCEPT
                           !.staged[Subject].enabled = @ \/ here \notin P!ForReceivers]
      BY <1>0, <2>2, <3>1, ConnectionRun DEF P!Draw, P!Patch, PortNotes
    <3>3. /\ device'.active = device.active /\ device'.sdp = device.sdp
          /\ \A q \in P!Port : /\ q # Subject => device'.staged[q] = device.staged[q]
                               /\ device'.staged[q].mode = device.staged[q].mode
          /\ device'.staged[Subject].value = v
          /\ here \notin P!ForReceivers => device'.staged[Subject].enabled
      <4>1. PICK e : e = P!Stage(device, Subject, v)
        OBVIOUS
      <4>2. PICK on \in BOOLEAN : on = (e.staged[Subject].enabled \/ here \notin P!ForReceivers)
        OBVIOUS
      <4>3. PICK r : r = Enabling(e, Subject, on)
        OBVIOUS
      <4>4. device' = r
        BY <3>2, <4>1, <4>2, <4>3 DEF Enabling
      <4>5. device \in PortDevice /\ Subject \in P!Port /\ v \in P!Value /\ device.fault # "frozen"
        BY <1>0, <2>2, <3>1
      <4>6. /\ r.active = device.active /\ r.sdp = device.sdp
            /\ \A q \in P!Port : /\ q # Subject => r.staged[q] = device.staged[q]
                                 /\ r.staged[q].mode = device.staged[q].mode
            /\ r.staged[Subject].value = v /\ r.staged[Subject].enabled = on
        BY <4>1, <4>3, <4>5, StagingOn
      <4> QED BY <4>2, <4>4, <4>6
    <3>4. \A q \in P!Port : Sound(device', q) /\ device'.staged[q].mode = "none"
      BY <1>0, <2>2, <3>2, <3>3 DEF Sound
    <3>5. Subject' = Subject /\ at'.plan = at.plan
      BY <1>0, <3>2, RunSteps, RunGoesOn DEF Subject
    <3>6. PortStands'
      BY <2>2, <3>2, <3>3, <3>5, PortValues DEF PortStands
    <3> QED BY <1>3, <2>1, <3>2, <3>4, <3>6, PortTestNames
  <2>4. CASE at.step = "activate"
    <3>1. PICK mode : mode = P!Activation[here]
      OBVIOUS
    <3>2. /\ device' = P!Activate(device, Subject, mode) /\ noted' = noted
          /\ Step(IF mode = "immediate" THEN "default" ELSE "active", 0)
      BY <1>14, <2>2, <2>4, <3>1, ConnectionRun DEF P!StageForActivation, P!Here, P!Patch, On
    <3>3. mode \in P!Modes /\ PortStands
      BY <2>1, <2>4, <3>1, PortTestNames DEF ConnectionPass, AtStep
    <3>4. /\ \A q \in P!Port : /\ q # Subject => /\ device'.staged[q] = device.staged[q]
                                                 /\ device'.active[q] = device.active[q]
                                                 /\ device'.sdp[q] = device.sdp[q]
                               /\ device'.staged[q].value = device.staged[q].value
                               /\ device'.staged[q].enabled = device.staged[q].enabled
          /\ mode = "immediate" =>
                  /\ device'.staged[Subject].mode = "none" /\ device'.sdp[Subject] = device'.active[Subject].value
                  /\ device'.active[Subject].mode = mode /\ device'.active[Subject].fresh
                  /\ device'.active[Subject].enabled = device.staged[Subject].enabled
                  /\ device'.active[Subject].value = Resolved(device, Subject)
          /\ mode # "immediate" =>
                  /\ device'.staged[Subject].mode = mode /\ device'.sdp[Subject] = device.sdp[Subject]
                  /\ device'.active[Subject].value = device.active[Subject].value
                  /\ ~device'.active[Subject].fresh
      BY <1>0, <2>2, <3>2, <3>3, AskingToActivate
    <3>5. /\ Subject' = Subject /\ at'.plan = at.plan /\ NoneFailed' /\ (Ended' <=> Ended)
          /\ at'.step = (IF mode = "immediate" THEN "default" ELSE "active")
      BY <1>0, <3>2, RunSteps, RunGoesOn DEF Subject
    <3>6. PortStands'
      BY <2>2, <3>2, <3>3, <3>4, <3>5 DEF PortStands
    <3>7. Resolved(device, Subject) \in Allowed[Subject] /\ Resolved(device, Subject) = noted.value
      BY <1>0, <2>2, <3>3, PortValues DEF Resolved, Sound, PortStands
    <3>8. \A q \in P!Port : Sound(device', q)
      BY <1>0, <2>2, <3>4, <3>7 DEF Sound
    <3>9. mode = "immediate" => PortShows'
      BY <3>1, <3>2, <3>3, <3>4, <3>5, <3>7 DEF PortShows, PortStands
    <3>10. CASE mode = "immediate"
      <4>1. \A q \in P!Port : device'.staged[q].mode = "none"
        BY <2>2, <3>4, <3>10
      <4> QED BY <1>3, <2>1, <3>2, <3>6, <3>8, <3>9, <3>10, <4>1, PortTestNames
    <3>11. CASE mode # "immediate"
      <4>1. \A q \in P!Port : q # Subject => device'.staged[q].mode = "none"
        BY <2>2, <3>4
      <4>2. device'.staged[Subject].mode = mode /\ mode # "none" /\ ~device'.active[Subject].fresh
        BY <3>3, <3>4, <3>11, PortValues
      <4>3. AtStep(DOMAIN P!Activation, {"active"})' /\ at'.step = "active"
        BY <2>1, <3>5, <3>11 DEF AtStep
      <4>4. ~AtStep(P!Range(P!Change), {"staged"})' /\ ~AtStep(P!Range(P!Bulk), {"visit"})'
        BY <4>3 DEF AtStep
      <4> QED BY <3>1, <3>5, <3>6, <3>8, <3>11, <4>1, <4>2, <4>3, <4>4 DEF ConnectionPass
    <3> QED BY <3>10, <3>11
  <2> QED BY <2>1, <2>3, <2>4
<1>15. CASE P!StagedDefault
  <2>1. ~Ended /\ here \in DOMAIN P!Activation /\ at.step = "default" /\ UNCHANGED <<device, noted>>
    BY <1>15, ConnectionRun DEF P!StagedDefault, On
  <2>2. Free /\ Subject \in P!Port
    BY <1>1, <2>1, PortSubject DEF AtStep
  <2>3. Step("active", 0)
    BY <1>15, <2>2, ConnectionRun DEF P!StagedDefault
  <2>4. PortStands /\ PortShows
    BY <2>1, <2>2 DEF ConnectionPass, AtStep
  <2>5. Subject' = Subject /\ at'.plan = at.plan
    BY <1>0, <2>3, RunSteps, RunGoesOn DEF Subject
  <2>6. PortStands' /\ PortShows'
    BY <2>1, <2>4, <2>5 DEF PortStands, PortShows
  <2> QED BY <1>0, <1>3, <2>1, <2>2, <2>3, <2>6, PortTestNames
<1>16. CASE P!ActiveRead /\ (P!Due => device.fault \in {"never", "keeps"})
  <2>1. ~Ended /\ here \in DOMAIN P!Activation /\ at.step = "active" /\ device' = device /\ Subject \in P!Port
    BY <1>16, ConnectionRun, PortSubject DEF P!ActiveRead, On
  <2>2. AtStep(DOMAIN P!Activation, {"active"}) /\ here \notin P!Range(P!Bulk)
    BY <2>1, PortTestNames DEF AtStep
  <2>3. CASE P!Shown(Subject)
    <3>1. device.staged[Subject].mode = "none"
      BY <2>1, <2>3 DEF ConnectionPass, P!Shown
    <3>2. Free
      BY <3>1 DEF ConnectionPass
    <3>3. PortShows
      BY <2>2, <3>1 DEF ConnectionPass, AtStep
    <3>4. P!FileMatches(Subject)
      <4>1. Subject \in P!Range(PortSenders) => here \notin P!ForReceivers
        BY <2>1, PortSubject
      <4> QED BY <1>0, <2>1, <3>3, <4>1 DEF P!FileMatches, PortShows, Sound
    <3>5. LeaveAs("WARNING") \/ LeaveAs("PASS")
      BY <1>16, <2>3, <3>4, ConnectionRun DEF P!ActiveRead
    <3> QED BY <1>0, <2>1, <2>2, <3>2, <3>5, ConnectionPassKept DEF BulkStays
  <2>4. CASE ~P!Shown(Subject)
    <3>1. device.staged[Subject].mode # "none"
      BY <2>2, <2>4 DEF ConnectionPass, AtStep, PortShows, P!Shown, P!Here
    <3>2. P!Activation[here] # "immediate" /\ P!Pending # {}
      BY <2>1, <3>1 DEF ConnectionPass, P!Pending
    <3>3. ~(device.pace = "instant") /\ ~(device.pace = "prompt" /\ at.tries >= Tries - 1)
      BY <1>16, <2>1, <3>2 DEF P!Due
    <3>4. at.tries + 1 < Tries
      BY <1>0, <3>3, MediaAssumption DEF PortDevice, P!ConnectionTestsAssumption
    <3>5. Step("active", at.tries + 1) /\ noted' = noted
      BY <1>16, <2>4, <3>2, <3>4, ConnectionRun DEF P!ActiveRead, P!MaxTries, P!Here
    <3>6. /\ Subject' = Subject /\ at'.plan = at.plan /\ NoneFailed' /\ (Ended' <=> Ended) /\ at'.step = "active"
      BY <1>0, <3>5, RunSteps, RunGoesOn DEF Subject
    <3>7. PortStands' /\ (device.staged[Subject].mode = "none" => PortShows)'
      BY <2>1, <2>2, <3>1, <3>5, <3>6 DEF ConnectionPass, AtStep, PortStands
    <3>8. AtStep(DOMAIN P!Activation, {"active"})' /\ ~AtStep(P!Range(P!Change), {"staged"})'
          /\ ~AtStep(P!Range(P!Bulk), {"visit"})'
      BY <2>1, <3>6 DEF AtStep
    <3> QED BY <2>1, <3>6, <3>7, <3>8 DEF ConnectionPass
  <2> QED BY <2>3, <2>4
<1>17. CASE P!BulkStage
  <2>1. CASE P!On(P!Range(P!Bulk), "visit")
    <3>1. /\ ~Ended /\ at.step = "visit" /\ here \in P!Range(P!Bulk) /\ ~P!On(P!Range(P!Bulk), "begin")
      BY <2>1, ConnectionRun DEF On
    <3>2. \A p \in P!Range(P!PortsOf(here)) : device.staged[p].value = Bulked(p)
      BY <3>1 DEF ConnectionPass, AtStep
    <3>3. device.staged[Subject].value = Bulked(Subject)
      BY <3>1, <3>2, PortSubject
    <3>4. LeaveAs("PASS") /\ UNCHANGED <<device, noted>>
      BY <1>17, <3>1, <3>3, ConnectionRun DEF P!BulkStage, Bulked
    <3>5. BulkStays
      BY <3>2, <3>4 DEF BulkStays, Bulked
    <3>6. Free
      BY <1>1, <3>1 DEF AtStep
    <3> QED BY <1>0, <3>1, <3>4, <3>5, <3>6, ConnectionPassKept
  <2>2. CASE P!On(P!Range(P!Bulk), "begin")
    <3>1. ~Ended /\ at.step = "begin"
      BY <2>2, ConnectionRun DEF On
    <3>2. Free /\ \A p \in P!Range(P!PortsOf(here)) : ~P!Locked(p)
      BY <1>1, <3>1, PortLists DEF AtStep
    <3>3. PICK v \in P!Value : BulkPatch(v)
      BY <1>17, <2>2, <3>2, BulkStages
    <3>4. /\ noted'.value = v /\ device'.active = device.active /\ device'.sdp = device.sdp
          /\ \A p \in P!Port : device'.staged[p].mode = device.staged[p].mode
          /\ \A p \in P!Port :
                  IF p \in P!Range(P!PortsOf(here)) THEN device'.staged[p].value = Drawn(v, p)
                  ELSE device'.staged[p] = device.staged[p]
      BY <1>0, <3>3, BulkParts
    <3>5. \A p \in P!Port : Drawn(v, p) \in Allowed[p]
      BY PortValues DEF Drawn
    <3>6. \A p \in P!Port : Sound(device', p) /\ device'.staged[p].mode = "none"
      BY <1>0, <3>2, <3>4, <3>5 DEF Sound
    <3>7. BulkStays
      BY <3>4, PortLists DEF BulkStays, Bulked, Drawn
    <3> QED BY <1>0, <3>1, <3>3, <3>6, <3>7, ConnectionPassKept DEF BulkPatch
  <2> QED BY <1>17, <2>1, <2>2 DEF P!BulkStage
<1> QED BY <1>4, <1>5, <1>6, <1>7, <1>8, <1>9, <1>10, <1>11, <1>12, <1>13, <1>14, <1>15, <1>16, <1>17
        DEF P!Next, P!Tests

\* What the Connection API is does not change.
LEMMA ConnectionStays ==
    ASSUME ConnectionTypes, [P!Next]_suiteVars
    PROVE  device'.fault = device.fault /\ device'.pace = device.pace
<1>0. device \in PortDevice /\ noted \in PortNotes
  BY DEF ConnectionTypes
<1>1. CASE device' = device
  BY <1>1
<1>2. ASSUME NEW p \in P!Port, P!Fire(p) PROVE device'.fault = device.fault /\ device'.pace = device.pace
  <2>1. PICK mode : mode = device.staged[p].mode
    OBVIOUS
  <2>2. mode \in P!Modes /\ device' = P!Activated(device, p, mode)
    BY <1>2, <2>1 DEF P!Fire, P!Modes
  <2> QED BY <1>0, <2>2, Activating
<1>3. CASE P!SetUp \/ P!Begin \/ P!TransportFiles \/ P!NoAuto \/ P!EmptyPatch \/ P!InvalidPatch
           \/ P!IdentityPatch \/ P!StagedDefault \/ P!ActiveRead
  BY <1>1, <1>3 DEF P!SetUp, P!Begin, P!TransportFiles, P!NoAuto, P!EmptyPatch, P!InvalidPatch,
                    P!IdentityPatch, P!StagedDefault, P!ActiveRead, P!Patch
<1>4. CASE P!PatchAutoParams
  <2>1. Subject \in P!Port
    BY <1>4, ConnectionRun, PortSubject DEF P!PatchAutoParams, On
  <2>2. PICK d : d = P!Stage(device, Subject, "auto")
    OBVIOUS
  <2>3. d \in PortDevice /\ d.fault = device.fault /\ d.pace = device.pace
    BY <1>0, <2>1, <2>2, PortValues, Staging
  <2>4. device' = device \/ device' = P!Activate(d, Subject, "immediate")
    BY <1>4, <2>2, ConnectionRun DEF P!PatchAutoParams, P!Patch
  <2> QED BY <1>1, <2>1, <2>3, <2>4, PortValues, AskingToActivate
<1>5. CASE P!ChangeParam
  <2>1. Subject \in P!Port
    BY <1>5, ConnectionRun, PortSubject DEF P!ChangeParam, On
  <2>2. device' = device \/ \E v \in P!Value : device' = P!Stage(device, Subject, v)
    BY <1>5, ConnectionRun DEF P!ChangeParam, P!Patch
  <2> QED BY <1>0, <1>1, <2>1, <2>2, Staging
<1>6. CASE P!StageForActivation
  <2>1. Subject \in P!Port
    BY <1>6, ConnectionRun, PortSubject DEF P!StageForActivation, On
  <2>2. ASSUME NEW v \in P!Value, P!Draw(Subject, v), NEW d,
               d = [P!Stage(device, Subject, v) EXCEPT
                       !.staged[Subject].enabled = @ \/ Head(at.plan) \notin P!ForReceivers],
               P!Patch(d, P!Goto("activate"))
        PROVE  device'.fault = device.fault /\ device'.pace = device.pace
    <3>2. PICK e : e = P!Stage(device, Subject, v)
      OBVIOUS
    <3>3. PICK on \in BOOLEAN : on = (e.staged[Subject].enabled \/ Head(at.plan) \notin P!ForReceivers)
      OBVIOUS
    <3>4. d = Enabling(e, Subject, on)
      BY <2>2, <3>2, <3>3 DEF Enabling
    <3>5. device' = device \/ device' = d
      BY <2>2 DEF P!Patch
    <3> QED BY <1>0, <1>1, <2>1, <3>2, <3>4, <3>5, StagingOn
  <2>3. ASSUME P!On(DOMAIN P!Activation, "activate"), noted' = noted,
               P!Patch(P!Activate(device, Subject, P!Activation[Head(at.plan)]),
                       P!Goto(IF P!Activation[Head(at.plan)] = "immediate" THEN "default" ELSE "active"))
        PROVE  device'.fault = device.fault /\ device'.pace = device.pace
    <3>1. PICK mode : mode = P!Activation[Head(at.plan)]
      OBVIOUS
    <3>2. mode \in P!Modes
      BY <2>3, <3>1, ConnectionRun, PortTestNames DEF On
    <3>3. device' = device \/ device' = P!Activate(device, Subject, mode)
      BY <2>3, <3>1 DEF P!Patch
    <3> QED BY <1>0, <1>1, <2>1, <3>2, <3>3, AskingToActivate
  <2> QED BY <1>6, <2>2, <2>3, ConnectionRun DEF P!StageForActivation, P!Here
<1>7. CASE P!BulkStage
  <2>1. CASE P!On(P!Range(P!Bulk), "begin")
    <3>1. device' = device \/ \E v \in P!Value : BulkPatch(v)
      BY <1>7, <2>1, BulkStages
    <3> QED BY <1>0, <1>1, <3>1, BulkParts
  <2>2. CASE device' = device
    BY <1>1, <2>2
  <2> QED BY <1>7, <2>1, <2>2 DEF P!BulkStage
<1> QED BY <1>1, <1>2, <1>3, <1>4, <1>5, <1>6, <1>7 DEF P!Next, P!Tests, suiteVars

LEMMA ConnectionBegins ==
    ASSUME P!Init
    PROVE  ConnectionTypes /\ ConnectionPass
<1>1. PICK fault \in P!Faults, pace \in {"instant", "prompt", "slow"}, mode \in P!Modes, on \in BOOLEAN,
           v \in [P!Port -> P!Value] :
         /\ \A p \in P!Port : v[p] \in Allowed[p]
         /\ fault # "none" => pace = "instant" /\ mode = "immediate" /\ on
         /\ device = [fault |-> fault, pace |-> pace,
                      staged |-> [p \in P!Port |-> [value |-> v[p], enabled |-> on, mode |-> "none"]],
                      active |-> [p \in P!Port |-> [value |-> v[p], enabled |-> on, mode |-> mode,
                                                  fresh |-> FALSE]],
                      sdp |-> v]
         /\ noted = [value |-> "auto", same |-> FALSE, late |-> FALSE]
  BY DEF P!Init
<1>2. PICK order : order = P!Order
  OBVIOUS
<1>3. order = [k \in 1..23 |-> order[k]] /\ \A k \in 1..23 : order[k] # "tear_down_tests"
  BY <1>2 DEF P!Order
<1>4. PICK plan \in Plans(order) : at = Position(plan)
  BY <1>2 DEF P!Init, P!Plans, Plans, P!Position, Position
<1>5. verdict = NoVerdicts(order)
  BY <1>2 DEF P!Init, P!NoVerdicts, NoVerdicts
<1>6. IsRun /\ at.step = "begin" /\ at.todo = <<>> /\ Judged /\ NoneFailed
  BY <1>3, <1>4, <1>5, RunBegins
<1>7. at.tries = 0
  BY <1>4 DEF Position
<1>8. \A p \in P!Port : v[p] \in P!Value
  OBVIOUS
<1>9. /\ device.staged = [p \in P!Port |-> [value |-> v[p], enabled |-> on, mode |-> "none"]]
      /\ device.active = [p \in P!Port |-> [value |-> v[p], enabled |-> on, mode |-> mode, fresh |-> FALSE]]
      /\ device.sdp = v
  BY <1>1
<1>10. device \in PortDevice
  <2>1. device.staged \in [P!Port -> PortStaged] /\ device.active \in [P!Port -> PortActive]
    BY <1>8, <1>9 DEF PortStaged, PortActive
  <2>2. device = [fault |-> fault, pace |-> pace, staged |-> device.staged, active |-> device.active, sdp |-> device.sdp]
    BY <1>1
  <2> QED BY <1>8, <1>9, <2>1, <2>2 DEF PortDevice
<1>11. noted \in PortNotes
  BY <1>1 DEF PortNotes
<1>12. \A p \in P!Port : Sound(device, p) /\ device.staged[p].mode = "none"
  BY <1>1, <1>9 DEF Sound
<1> QED BY <1>6, <1>7, <1>10, <1>11, <1>12 DEF ConnectionTypes, ConnectionPass, AtStep

LEMMA ConnectionSpeaks ==
    ASSUME ConnectionTypes
    PROVE  /\ P!TypeOK
           /\ (device.fault = "none" /\ device.pace # "slow" => ConnectionPass) => P!ConformingPortPasses
<1>1. P!TypeOK
  BY DEF ConnectionTypes, PortDevice, PortNotes, P!TypeOK, PortStaged, PortActive, Judged, P!Verdict, Verdict
<1>2. ASSUME device.fault = "none" /\ device.pace # "slow" => ConnectionPass PROVE P!ConformingPortPasses
  <2> SUFFICES ASSUME device.fault = "none", device.pace # "slow"
               PROVE  /\ \A t \in DOMAIN verdict : verdict[t] # "FAIL"
                      /\ P!Ended => P!Pending = {}
    BY DEF P!ConformingPortPasses
  <2>1. ConnectionPass
    BY <1>2
  <2>2. ASSUME P!Ended PROVE P!Pending = {}
    BY <2>1, <2>2, ConnectionRun DEF ConnectionPass, AtStep, P!Pending
  <2> QED BY <2>1, <2>2 DEF ConnectionPass, NoneFailed
<1> QED BY <1>1, <1>2

\* What holds of the IS-05 suite.
ConnectionPromise ==
    ConnectionTypes /\ (device.fault = "none" /\ device.pace # "slow" => ConnectionPass)

LEMMA ConnectionPromiseKept ==
    ASSUME ConnectionPromise, [P!Next]_suiteVars
    PROVE  ConnectionPromise'
<1>1. CASE UNCHANGED suiteVars
  BY <1>1, ConnectionTypesStep
     DEF suiteVars, ConnectionPromise, ConnectionPass, NoneFailed, Sound, AtStep, Ended, PortStands, PortShows,
         Subject, Bulked
<1>2. CASE P!Next
  BY <1>2, ConnectionTypesStep, ConnectionPassStep, ConnectionStays DEF ConnectionPromise
<1> QED BY <1>1, <1>2

-----------------------------------------------------------------------------
(* The suites together.                                                     *)

MediaInv ==
    /\ suite = "mapping" => MappingInv
    /\ suite = "receivers" => ReceptionInv
    /\ suite = "connection" => ConnectionInv
    /\ suite = "edid" => EdidInv

LEMMA MediaInvInit == MediaInit => MediaInv
  BY MappingInit, ReceptionInit, ConnectionInit, EdidInit DEF MediaInit, MediaInv

\* A step of the composition is one of the suite that is at work.
LEMMA MediaSteps ==
    ASSUME [MediaNext]_mediaVars
    PROVE  /\ suite' = suite
           /\ suite = "mapping" => [M!Next]_M!suiteVars
           /\ suite = "receivers" => [R!Next]_R!suiteVars
           /\ suite = "connection" => [P!Next]_P!suiteVars
           /\ suite = "edid" => [E!Next]_E!suiteVars
<1>1. CASE UNCHANGED mediaVars
  BY <1>1 DEF mediaVars, suiteVars, M!suiteVars, R!suiteVars, P!suiteVars, E!suiteVars
<1>2. CASE MediaNext
  BY <1>2 DEF MediaNext
<1> QED
  BY <1>1, <1>2

LEMMA MediaInvStep ==
    MediaInv /\ [MediaNext]_mediaVars
    => /\ MediaInv' /\ (suite = "connection" => P!ActivationIsAwaited)
       /\ suite = "receivers" => R!StreamsAreReceived
<1> SUFFICES ASSUME MediaInv, [MediaNext]_mediaVars
             PROVE  /\ MediaInv' /\ (suite = "connection" => P!ActivationIsAwaited)
                    /\ suite = "receivers" => R!StreamsAreReceived
  OBVIOUS
<1> QED
  BY MediaSteps, MappingStep, ReceptionStep, ConnectionStep, EdidStep DEF MediaInv

\* IS-11: a stream test counts a Receiver only while that is enabled and fed by a
\* reference Sender on the test's own list, although it compares no source, the state
\* may be that of an earlier stream, and other tests stop the Senders; for any
\* Receivers and Outputs, and reference Senders that may lack what a stream needs.
THEOREM StreamsAreSeen == MediaSpec => StreamsAreReceived
<1>1. MediaInv /\ [MediaNext]_mediaVars => [suite = "receivers" => R!StreamsAreReceived]_mediaVars
  BY MediaInvStep
<1> QED BY MediaInvInit, MediaInvStep, <1>1, PTL DEF MediaSpec, StreamsAreReceived

\* IS-05: a port is done with in an activation test only once it has activated since
\* it was asked to, or it fails, for any ports and numbers of attempts.
THEOREM ActivationsAreAwaited == MediaSpec => ActivationIsAwaited
<1>1. MediaInv /\ [MediaNext]_mediaVars => [suite = "connection" => P!ActivationIsAwaited]_mediaVars
  BY MediaInvStep
<1> QED BY MediaInvInit, MediaInvStep, <1>1, PTL DEF MediaSpec, ActivationIsAwaited

\* IS-08: no activation is yet to come on a conforming device when the suite has
\* ended, unless the answer to test_06's request was lost, for any Inputs and Outputs.
THEOREM NoActivationsAreLeft == MediaSpec => [](suite = "mapping" => M!NoActivationIsLeft)
<1>1. MediaInv => (suite = "mapping" => M!NoActivationIsLeft)
  BY NoActivationLeft DEF MediaInv
<1> QED BY MediaInvInit, MediaInvStep, <1>1, PTL DEF MediaSpec

\* IS-11: no Base EDID of the suite's own is left on a conforming device once it has
\* been torn down, for any Inputs and Senders.
THEOREM NoEdidsAreLeft == MediaSpec => [](suite = "edid" => E!NoEdidIsLeft)
<1>1. MediaInv => (suite = "edid" => E!NoEdidIsLeft)
  BY NoEdidLeft DEF MediaInv
<1> QED BY MediaInvInit, MediaInvStep, <1>1, PTL DEF MediaSpec
=============================================================================
