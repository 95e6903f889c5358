-------------------------- MODULE ConstraintTests --------------------------
(***************************************************************************)
(* The tests of Active Constraints of the IS-11 suite, test_02 and test_06 *)
(* (nmostesting/suites/IS1101Test.py), and the Senders they constrain.     *)
(*                                                                         *)
(* A constraint either admits what the Sender's Flow is ("same"), demands  *)
(* another grain or sample rate ("other"), or is a choice of both in order *)
(* of preference ("choice").  The Sender takes its time to follow: until   *)
(* then its status is awaiting_essence.  A version is seen only as         *)
(* whether it has changed since the suite last noted it.                   *)
(***************************************************************************)
EXTENDS Suite, FiniteSetsExt

CONSTANTS
    Sender,    \* the Senders of the device
    Video,     \* those with a video Flow; the others are audio
    InputsOf,  \* the list of Inputs of each Sender
    BaseEdid,  \* the Inputs that are connected and support a Base EDID
    Reads      \* how often the version must be read unchanged (5)

ConstraintTestsAssumption ==
    /\ IsFiniteSet(Sender) /\ Reads \in Nat
    /\ Video \subseteq Sender
    /\ InputsOf \in [Sender -> Seq(UNION {Range(InputsOf[s]) : s \in Sender})]

Format == {"video", "audio"}
SenderFormat(s) == IF s \in Video THEN "video" ELSE "audio"
Input == UNION {Range(InputsOf[s]) : s \in Sender}
Senders == SomeOrder(Sender)

\* What is known of a device beforehand: the mistake it makes, if any, whether
\* it can give another rate, and how soon it follows a change.
Faults == {"none", "still", "drifts", "sticks", "ignores", "careless", "lax"}
Conforming == device.fault = "none" /\ device.able # "refuses"

TypeOK ==
    /\ device \in
         [fault : Faults, able : {"yes", "no", "refuses"}, pace : {"instant", "prompt", "slow"},
          network : {"fine", "failing", "failed"}, active : [Sender -> {"none", "same", "other", "choice"}],
          status : [Sender -> {"unconstrained", "constrained", "awaiting", "violation"}],
          rate : [Sender -> {"native", "another"}], changed : SUBSET (Sender \cup Input)]
    /\ noted.known \in [Format -> Seq(Sender)] /\ noted.with \in Seq(Sender) /\ noted.without \in Seq(Sender)
    /\ \A t \in DOMAIN verdict : verdict[t] \in Verdict

-----------------------------------------------------------------------------
(* The device under test, as the suite takes it to be.                      *)

\* What a Sender makes of its Active Constraints in the end.
Outcome(d, s) ==
    CASE d.active[s] = "none" -> [status |-> "unconstrained", rate |-> "native"]
      [] d.active[s] = "same" ->
            [status |-> "constrained",
             rate |-> IF d.fault = "drifts" THEN "another" ELSE "native"]
      [] d.active[s] = "choice" ->
            [status |-> "constrained",
             rate |-> IF d.fault = "careless" THEN "another" ELSE "native"]
      [] d.active[s] = "other" ->
            IF d.able = "yes"
            THEN [status |-> "constrained",
                  rate |-> IF d.fault = "ignores" THEN "native" ELSE "another"]
            ELSE [status |-> "violation", rate |-> "native"]

Settled(d, s) ==
    [d EXCEPT !.status[s] = Outcome(d, s).status, !.rate[s] = Outcome(d, s).rate,
              !.changed = IF d.fault = "still" THEN @ ELSE @ \cup {s}]

\* The device takes new constraints at once and follows them later.
Constrain(d, s, c) ==
    LET new == [d EXCEPT !.active[s] = c, !.status[s] = "awaiting",
                         !.changed = IF d.fault = "still" THEN @
                                     ELSE @ \cup {s} \cup Range(InputsOf[s])]
    IN IF d.active[s] = c /\ d.status[s] # "awaiting" THEN [new EXCEPT !.status[s] = d.status[s]]
       ELSE IF d.pace = "instant" THEN Settled(new, s) ELSE new

Release(d, s) == IF d.fault = "sticks" THEN d ELSE Constrain(d, s, "none")

Settle(s) ==
    /\ device.status[s] = "awaiting"
    /\ device' = Settled(device, s)
    /\ UNCHANGED <<at, noted, verdict>>

-----------------------------------------------------------------------------
(* The suite.                                                               *)

NoFormat == <<"test_02_00", "test_02_02_01", "test_02_02_03">>
Inert == <<"test_02_03_00", "test_02_03_03">>
Late == <<"test_02_04", "test_02_04_01", "test_06_01", "test_06_02", "test_06_03">>
VersionTest == [video |-> "test_02_02_04_01", audio |-> "test_02_02_04_02"]
NoOpTest == [video |-> "test_02_02_05_01", audio |-> "test_02_02_05_02"]
SupportedTest == [video |-> "test_02_02_06_01", audio |-> "test_02_02_06_02"]
PreferenceTest == [video |-> "test_02_02_07_01", audio |-> "test_02_02_07_02"]
InputTest == [video |-> "test_02_03_05_01", audio |-> "test_02_03_05_02"]

Pair(t) == <<t.video, t.audio>>
Order ==
    NoFormat \o Pair(VersionTest) \o Pair(NoOpTest) \o Pair(SupportedTest)
    \o Pair(PreferenceTest) \o Inert \o Pair(InputTest) \o Late

\* Some earlier controller may have left constraints.
Init ==
    /\ \E plan \in Plans(Order) : at = Position(plan)
    /\ device \in
         [fault : Faults, able : {"yes", "no", "refuses"}, pace : {"instant", "prompt", "slow"},
          network : {"fine", "failing"}, active : [Sender -> {"none", "other"}],
          status : [Sender -> {"awaiting"}], rate : [Sender -> {"native"}], changed : {{}}]
    /\ device.fault # "none" =>
          /\ device.able = "yes" /\ device.pace # "slow" /\ device.network = "fine"
          /\ device.active = [s \in Sender |-> "none"]
    /\ device.network = "failing" => device.pace = "instant"
    /\ noted = [known |-> [f \in Format |-> <<>>], with |-> <<>>, without |-> <<>>,
                rate |-> [s \in Sender |-> "native"], flow |-> "native"]
    /\ verdict = NoVerdicts(Order)

Awaited(d, s) == [d EXCEPT !.status[s] = "awaiting"]
ReleaseAll(Then(_, _)) ==
    LET free == [s \in Sender |-> IF device.fault = "sticks" THEN device
                                  ELSE Then([device EXCEPT !.active[s] = "none"], s)]
    IN [device EXCEPT !.active = [s \in Sender |-> free[s].active[s]],
                      !.status = [s \in Sender |-> free[s].status[s]],
                      !.rate = [s \in Sender |-> free[s].rate[s]]]

\* delete_active_constraints
SetUp ==
    /\ On({"set_up_tests"}, "begin")
    /\ device' = IF device.pace = "instant" THEN ReleaseAll(Settled) ELSE ReleaseAll(Awaited)
    /\ Conclude("PASS") /\ UNCHANGED noted

\* tear_down_tests leaves the constraints alone.
TearDown ==
    /\ On({"tear_down_tests"}, "begin")
    /\ Conclude("PASS") /\ UNCHANGED <<device, noted>>

\* A request of a step that fails ends the test there.
Hiccup ==
    /\ ~Ended /\ device.network = "failing"
    /\ device' = [device EXCEPT !.network = "failed"]
    /\ IF Head(at.plan) = "set_up_tests" THEN Abort ELSE Conclude("FAIL")
    /\ UNCHANGED noted

\* flow_format_video, flow_format_audio
Known(format) == noted.known[format]

\* The Inputs of a Sender up to the first that is not connected or has no Base EDID.
Usable(s) ==
    LET bad == {i \in DOMAIN InputsOf[s] : InputsOf[s][i] \notin BaseEdid}
    IN SubSeq(InputsOf[s], 1, IF bad = {} THEN Len(InputsOf[s]) ELSE Min(bad) - 1)

Begin(tests, subjects) == On(tests, "begin") /\ Visit(subjects) /\ UNCHANGED <<device, noted>>
BeginFormat(tests) == \E f \in DOMAIN tests : Begin({tests[f]}, Known(f))
Of(tests) == {tests.video, tests.audio}

\* The status, asked for again while the essence is awaited.
AwaitStatus(s, status, next) ==
    IF device.status[s] = "awaiting" THEN Poll(FALSE, next, Attempts + 1)
    ELSE Check(device.status[s] = status, next)

\* test_02_00: reset the Active Constraints of all Senders.
ResetAll ==
    \/ Begin({"test_02_00"}, Senders)
    \/ /\ On({"test_02_00"}, "visit")
       /\ device' = Release(device, Subject)
       /\ Leave /\ UNCHANGED noted

\* test_02_02_01, test_02_03_03: the status is "unconstrained".
Unconstrained ==
    \/ Begin({"test_02_02_01"}, Senders)
    \/ Begin({"test_02_03_03"}, noted.with)
    \/ /\ On({"test_02_02_01", "test_02_03_03"}, "visit")
       /\ AwaitStatus(Subject, "unconstrained", "right")
       /\ UNCHANGED <<device, noted>>
    \/ On({"test_02_02_01", "test_02_03_03"}, "right") /\ Leave /\ UNCHANGED <<device, noted>>

\* test_02_02_03: what the Flows are, for the tests to come.
NoteFlows ==
    \/ Begin({"test_02_02_03"}, Senders)
    \/ /\ On({"test_02_02_03"}, "visit")
       /\ noted' = [noted EXCEPT !.known[SenderFormat(Subject)] = Append(@, Subject),
                                 !.rate[Subject] = device.rate[Subject]]
       /\ Leave /\ UNCHANGED device

Seen(d, x) == [d EXCEPT !.changed = @ \ {x}]

\* test_02_02_04_*: PUT and DELETE of constraints change the Sender's version.
PutVersion ==
    \/ /\ On(Of(VersionTest), "visit")
       /\ device' = Constrain(Seen(device, Subject), Subject, "same")
       /\ Goto("changed") /\ UNCHANGED noted
    \/ /\ On(Of(VersionTest), "changed")
       /\ Check(Subject \in device.changed /\ device.active[Subject] = "same", "delete")
       /\ device' = Seen(device, Subject) /\ UNCHANGED noted

DeleteVersion ==
    \/ /\ On(Of(VersionTest), "delete")
       /\ device' = Release(device, Subject)
       /\ Goto("deleted") /\ UNCHANGED noted
    \/ /\ On(Of(VersionTest), "deleted")
       /\ IF Subject \in device.changed /\ device.active[Subject] = "none"
          THEN Leave ELSE Conclude("FAIL")
       /\ device' = Seen(device, Subject) /\ UNCHANGED noted

Versions == BeginFormat(VersionTest) \/ PutVersion \/ DeleteVersion

\* test_02_02_05_*: constraints that admit the Flow leave it as it was noted.
PutNoOp ==
    \/ /\ On(Of(NoOpTest), "visit")
       /\ AwaitStatus(Subject, "unconstrained", "put")
       /\ UNCHANGED <<device, noted>>
    \/ /\ On(Of(NoOpTest), "put")
       /\ device' = Constrain(device, Subject, "same")
       /\ Goto("wait") /\ UNCHANGED noted
    \/ /\ On(Of(NoOpTest), "wait")
       /\ AwaitStatus(Subject, "constrained", "compare")
       /\ UNCHANGED <<device, noted>>

NoOp ==
    \/ BeginFormat(NoOpTest) \/ PutNoOp
    \/ /\ On(Of(NoOpTest), "compare")
       /\ Check(device.rate[Subject] = noted.rate[Subject], "delete")
       /\ UNCHANGED <<device, noted>>

\* Fault: the constraints are not deleted in the end.
ReleaseAfterFault == On(Of(NoOpTest), "delete") /\ Leave /\ UNCHANGED <<device, noted>>

\* Tests 05 to 07 end with a DELETE of the constraints.
ReleaseAfter ==
    /\ On(Of(NoOpTest) \cup Of(SupportedTest) \cup Of(PreferenceTest), "delete")
    /\ device' = Release(device, Subject)
    /\ Leave /\ UNCHANGED noted

\* What the preference tests PUT: the video one sends its first set twice.
PreferredVideo == "same"
PreferredAudio == "choice"

\* test_02_02_06_*, test_02_02_07_*: all the reference constraints, with the
\* Flow as it is before; without a wait after the PUT.
ReferenceTests == Of(SupportedTest) \cup Of(PreferenceTest)

AwaitReference ==
    /\ On(ReferenceTests, "visit")
    /\ AwaitStatus(Subject, "unconstrained", "put")
    /\ noted' = [noted EXCEPT !.flow = device.rate[Subject]] /\ UNCHANGED device

PutReference ==
    /\ On(ReferenceTests, "put")
    /\ device' = Constrain(device, Subject,
                     CASE On({PreferenceTest.video}, "put") -> PreferredVideo
                       [] On({PreferenceTest.audio}, "put") -> PreferredAudio
                       [] OTHER -> "same")
    /\ Goto("compare") /\ UNCHANGED noted

CompareReference ==
    /\ On(ReferenceTests, "compare")
    /\ Check(device.rate[Subject] = noted.flow, "delete")
    /\ UNCHANGED <<device, noted>>

Reference ==
    \/ BeginFormat(SupportedTest) \/ BeginFormat(PreferenceTest)
    \/ AwaitReference \/ PutReference \/ CompareReference

\* test_02_03_00, test_02_04: the Senders with Inputs, and those without.
SortByInputs ==
    /\ \/ /\ On({"test_02_03_00"}, "begin")
          /\ LET with == SomeOrder({s \in Sender : InputsOf[s] # <<>>})
             IN /\ noted' = [noted EXCEPT !.with = with]
                /\ Conclude(IF with = <<>> THEN "UNCLEAR" ELSE "PASS")
       \/ /\ On({"test_02_04"}, "begin")
          /\ LET without == SomeOrder({s \in Sender : InputsOf[s] = <<>>})
             IN /\ noted' = [noted EXCEPT !.without = without]
                /\ Conclude(IF without = <<>> THEN "UNCLEAR" ELSE "PASS")
    /\ UNCHANGED device

\* test_02_03_05_*: another rate changes the versions, and the Flow follows.
\* The loop over Senders returns at the end of its first turn.
Inputs(t) == IF Known(t) = <<>> THEN <<>> ELSE Usable(Head(Known(t)))
First == Head(Known(IF Head(at.plan) = InputTest.video THEN "video" ELSE "audio"))

PutRate ==
    \/ /\ On(Of(InputTest), "visit")
       /\ IF device.able = "refuses"
          THEN Conclude("FAIL") /\ UNCHANGED device
          ELSE /\ device' = Constrain(Seen(Seen(device, Subject), First), First, "other")
               /\ Goto("changed")
       /\ UNCHANGED noted
    \/ /\ On(Of(InputTest), "changed")
       /\ Check(Subject \in device.changed, "stable")
       /\ UNCHANGED <<device, noted>>

\* The version is read until it has been the same for a while.
StableVersion ==
    /\ On(Of(InputTest), "stable")
    /\ IF First \in device.changed THEN Step("stable", 0)
       ELSE IF at.tries + 1 < Reads THEN Step("stable", at.tries + 1) ELSE Goto("status")
    /\ device' = Seen(device, First) /\ UNCHANGED noted

RateStatus ==
    /\ On(Of(InputTest), "status")
    /\ IF at.tries = 0 /\ device.status[First] = "violation" THEN Conclude("UNCLEAR")
       ELSE AwaitStatus(First, "constrained", "compare")
    /\ UNCHANGED <<device, noted>>

CompareRate ==
    \/ /\ On(Of(InputTest), "compare")
       /\ Check(device.rate[First] # noted.rate[First], "delete")
       /\ UNCHANGED <<device, noted>>
    \/ /\ On(Of(InputTest), "delete")
       /\ device' = Release(device, First)
       /\ Leave /\ UNCHANGED noted

AnotherRate ==
    \/ \E f \in DOMAIN InputTest : Begin({InputTest[f]}, Inputs(f))
    \/ PutRate \/ StableVersion \/ RateStatus \/ CompareRate

\* test_02_04_01: the status is judged by the first answer; the loop that would
\* wait for the essence comes after the verdict.
WithoutInputs ==
    \/ Begin({"test_02_04_01"}, noted.without)
    \/ /\ On({"test_02_04_01"}, "visit")
       /\ IF device.status[Subject] = "unconstrained" THEN Leave ELSE Conclude("FAIL")
       /\ UNCHANGED <<device, noted>>

\* test_06_01: constraints nobody knows are refused.
Unknown ==
    \/ Begin({"test_06_01"}, Senders)
    \/ /\ On({"test_06_01"}, "visit")
       /\ IF device.fault = "lax"
          THEN device' = Constrain(device, Subject, "other") /\ Conclude("FAIL")
          ELSE Leave /\ UNCHANGED device
       /\ UNCHANGED noted

\* test_06_02, test_06_03: no constraints, by PUT or DELETE.
Emptied ==
    LET tests == {"test_06_02", "test_06_03"} IN
    \/ Begin(tests, Senders)
    \/ /\ On(tests, "visit")
       /\ device' = IF On({"test_06_02"}, "visit") THEN Constrain(device, Subject, "none")
                    ELSE Release(device, Subject)
       /\ Goto("look") /\ UNCHANGED noted
    \/ /\ On(tests, "look")
       /\ IF device.active[Subject] # "none" THEN Conclude("FAIL")
          ELSE CASE device.status[Subject] = "unconstrained" -> Leave
                 [] device.status[Subject] = "awaiting" -> Conclude("UNCLEAR")
                 [] OTHER -> Conclude("FAIL")
       /\ UNCHANGED <<device, noted>>

Tests ==
    \/ SetUp \/ TearDown \/ Hiccup
    \/ ResetAll \/ Unconstrained \/ NoteFlows \/ Versions \/ NoOp \/ ReleaseAfter
    \/ Reference \/ SortByInputs \/ AnotherRate \/ WithoutInputs \/ Unknown \/ Emptied

Awaiting == \E s \in Sender : device.status[s] = "awaiting"

\* A device that is not slow has followed when the suite asks for the last time.
Next ==
    \/ \E s \in Sender : Settle(s)
    \/ (LastAttempt /\ device.pace # "slow" => ~Awaiting) /\ Tests

Spec == Init /\ [][Next]_suiteVars

-----------------------------------------------------------------------------
(* What the verdicts are worth.                                             *)

\* No test fails a device that follows IS-11, settles while it is waited for
\* and answers every request; test_02_04_01 does not wait.
ConformingSenderPasses ==
    /\ Conforming /\ device.pace # "slow" /\ device.network # "failed"
    => \A t \in DOMAIN verdict :
          verdict[t] = "FAIL" => t = "test_02_04_01" /\ device.pace # "instant"

\* A run of the whole suite fails every mistake of a device with Senders of both
\* formats, and not by the test that may fail any device.  One that disregards
\* preferences must be quick to be caught: the Flow is read right after the PUT.
SenderMistakesAreFound ==
    /\ Ended /\ \A t \in DOMAIN verdict : verdict[t] # "none"
    /\ device.fault # "none" /\ (device.fault = "careless" => device.pace = "instant")
    => \E t \in DOMAIN verdict \ {"test_02_04_01"} : verdict[t] = "FAIL"

\* A run leaves no Active Constraints on any Sender of such a device, though
\* tests return early and tear down does not delete any: not even when a request
\* fails, if the device is quick.  One that takes its time must be able to give
\* another rate: else test_02_03_05_* returns at the violation, and test_06_02 and
\* test_06_03 return at the first Sender that is awaiting its essence, so that a
\* later one keeps the constraints.  (So it can be with a slow device.)
NoConstraintsAreLeft ==
    /\ Ended /\ verdict["tear_down_tests"] # "none"
    /\ Conforming
    /\ device.pace = "instant" \/ (device.pace = "prompt" /\ device.able = "yes")
    => \A s \in Sender : device.active[s] = "none"
=============================================================================
