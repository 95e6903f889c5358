--------------------------- MODULE ReceiverTests ---------------------------
(***************************************************************************)
(* The tests of Receivers of the IS-11 suite, test_04                      *)
(* (nmostesting/suites/IS1101Test.py, nmostesting/IS11Utils.py): they make *)
(* Senders of a reference Node stream to the Receivers under test, whose   *)
(* Outputs should then show a signal.                                      *)
(***************************************************************************)
EXTENDS Suite

CONSTANTS
    Receiver, Output,    \* of the device under test
    OutputsOf,           \* the Outputs that show what a Receiver receives
    RefSender,           \* the Senders of the reference Node, a sequence
    FormatOf,            \* the format of a Receiver, and of a reference Sender's Flow
    NoSender

Formats == <<"video", "audio">>

ReceiverTestsAssumption ==
    /\ IsFiniteSet(Receiver) /\ IsFiniteSet(Output)
    /\ OutputsOf \in [Receiver -> SUBSET Output]
    /\ FormatOf \in [Receiver \cup Range(RefSender) -> Range(Formats)]
    /\ RefSender \in Seq(Range(RefSender)) /\ IsInjective(RefSender)
    /\ NoSender \notin Range(RefSender)

WithOutputs == {r \in Receiver : OutputsOf[r] # {}}

\* fault: what is wrong with the device; ref: what a reference Sender is good for,
\* or what it lacks: a Flow, a transport file, or what would be in that file.
Faults == {"none", "deaf", "dark", "eager"}
Refs == {"fit", "unfit", "no_flow", "no_file", "no_sdp"}

TypeOK ==
    /\ device \in
         [fault : Faults, pace : {"instant", "prompt", "slow"}, caps : {"sets", "empty", "none"},
          ref : [Range(RefSender) -> Refs], configured : BOOLEAN,
          on : SUBSET Receiver, source : [Receiver -> Range(RefSender) \cup {NoSender}],
          compliant : SUBSET Receiver, lit : SUBSET Output, sending : SUBSET Range(RefSender)]
    /\ noted.known \subseteq Range(Formats)
    /\ \A f \in Range(Formats) : noted.refs[f] \in Seq(Range(RefSender))
    /\ \A t \in DOMAIN verdict : verdict[t] \in Verdict

-----------------------------------------------------------------------------
(* The device under test, as the suite takes it to be.                      *)

Fed(r) == r \in device.on /\ device.source[r] \in device.sending
Complies(r) == CASE device.fault = "deaf" -> FALSE [] device.fault = "eager" -> TRUE [] OTHER -> Fed(r)
Shows(o) == device.fault # "dark" /\ \E r \in device.compliant : o \in OutputsOf[r]

\* The state of a Receiver follows its stream, and an Output its Receivers.
Late == {r \in Receiver : (r \in device.compliant) # Complies(r)}
Stale == {o \in Output : (o \in device.lit) # Shows(o)}

Toggle(S, x) == IF x \in S THEN S \ {x} ELSE S \cup {x}

Turn(r) ==
    /\ r \in Late
    /\ device' = [device EXCEPT !.compliant = Toggle(@, r)]
    /\ UNCHANGED <<at, noted, verdict>>

Show(o) ==
    /\ o \in Stale
    /\ device' = [device EXCEPT !.lit = Toggle(@, o)]
    /\ UNCHANGED <<at, noted, verdict>>

-----------------------------------------------------------------------------
(* The suite.                                                               *)

FindTest == <<"test_04_03", "test_04_04">>
StreamTest == [test_04_03_01 |-> "video", test_04_03_02 |-> "audio",
               test_04_04_01 |-> "video", test_04_04_02 |-> "audio"]
OutputTest == [test_04_03_01_01 |-> "video", test_04_03_02_01 |-> "audio"]

Order ==
    <<"test_04_02_01", "test_04_02_02", "test_04_03", "test_04_03_01", "test_04_03_01_01",
      "test_04_03_02", "test_04_03_02_01", "test_04_04", "test_04_04_01", "test_04_04_02">>

\* Some earlier controller may have left a Receiver on; the reference is quiet.
Init ==
    /\ \E plan \in Plans(Order) : at = Position(plan)
    /\ device \in
         [fault : Faults, pace : {"instant", "prompt", "slow"}, caps : {"sets", "empty", "none"},
          ref : [Range(RefSender) -> Refs], configured : BOOLEAN,
          on : {{}, Receiver}, source : {[r \in Receiver |-> NoSender]},
          compliant : {{}, Receiver}, lit : {{}}, sending : {{}}]
    /\ device.compliant = IF device.fault = "deaf" THEN {} ELSE device.on
    /\ (device.fault # "none" \/ ~device.configured) =>
          /\ device.pace = "instant" /\ device.caps = "sets" /\ device.on = {}
    /\ (~device.configured \/ device.caps # "sets" \/ device.on # {}) =>
          \A s \in Range(RefSender) : device.ref[s] = "fit"
    /\ noted = [known |-> {}, refs |-> [f \in Range(Formats) |-> <<>>]]
    /\ verdict = NoVerdicts(Order)

\* deactivate_connection_resources
SetUp ==
    /\ On({"set_up_tests"}, "begin")
    /\ device' = [device EXCEPT !.on = {}]
    /\ Conclude("PASS") /\ UNCHANGED noted

\* tear_down_tests leaves Receivers and reference Senders as they are.
TearDown ==
    /\ On({"tear_down_tests"}, "begin")
    /\ Conclude("PASS") /\ UNCHANGED <<device, noted>>

\* test_04_02_01: a Receiver that is not enabled is not compliant.
NotCompliant ==
    /\ On({"test_04_02_01"}, "begin")
    /\ Conclude(CASE Receiver = {} -> "UNCLEAR" [] device.compliant # {} -> "FAIL" [] OTHER -> "PASS")
    /\ UNCHANGED <<device, noted>>

\* test_04_02_02: Receiver Capabilities
Capabilities ==
    /\ On({"test_04_02_02"}, "begin")
    /\ Conclude(IF Receiver = {} \/ device.caps = "none" THEN "UNCLEAR"
                ELSE IF device.caps = "empty" THEN "WARNING" ELSE "PASS")
    /\ UNCHANGED <<device, noted>>

\* The tests that need Receivers with or without Outputs, and those that have them.
Sorted(t) ==
    IF t \in {"test_04_04", "test_04_04_01", "test_04_04_02"} THEN Receiver \ WithOutputs ELSE WithOutputs
Excused(t) ==
    IF Sorted(t) = {} \/ (t \in DOMAIN OutputTest /\ Output = {}) THEN "UNCLEAR" ELSE "DISABLED"
Equipped(t) == Sorted(t) # {} /\ device.configured /\ (t \in DOMAIN OutputTest => Output # {})

Excuse ==
    /\ On(Range(FindTest) \cup DOMAIN StreamTest \cup DOMAIN OutputTest, "begin")
    /\ ~Equipped(Head(at.plan))
    /\ Conclude(Excused(Head(at.plan))) /\ UNCHANGED <<device, noted>>

\* test_04_03, test_04_04: the reference Senders of each format, video first; a
\* Sender without a Flow ends the test.  test_04_03 begins the lists anew, test_04_04
\* adds to them what they hold already, and fails if a list is missing.
Flowless == \E s \in Range(RefSender) : device.ref[s] = "no_flow"
Reached == {s \in Range(RefSender) : \E k \in DOMAIN RefSender :
              RefSender[k] = s /\ \A j \in 1..k : device.ref[RefSender[j]] # "no_flow"}
Listed(format) == Select(RefSender, {s \in Reached : FormatOf[s] = format})

FindReferences ==
    LET anew == On({"test_04_03"}, "begin")
        reached == IF Flowless THEN {"video"} ELSE Range(Formats)
        refs == [f \in Range(Formats) |->
                   (IF anew /\ f \in reached THEN <<>> ELSE noted.refs[f])
                   \o (IF f \in reached THEN Listed(f) ELSE <<>>)]
        known == noted.known \cup {f \in reached : anew \/ Listed(f) # <<>>}
    IN /\ On(Range(FindTest), "begin") /\ Equipped(Head(at.plan))
       /\ noted' = [noted EXCEPT !.refs = refs, !.known = known]
       /\ Conclude(IF Flowless THEN "DISABLED"
                   ELSE IF \/ "video" \notin known
                           \/ refs["video"] = <<>> /\ "audio" \notin known THEN "FAIL"
                   ELSE IF \A f \in Range(Formats) : refs[f] = <<>> THEN "DISABLED" ELSE "PASS")
       /\ UNCHANGED device

\* get_receivers_with_or_without_outputs_id: all Receivers of the format, with
\* or without Outputs.  Only the first of them is made to receive.
Receivers(format) == SomeOrder({r \in Receiver : FormatOf[r] = format})
Chosen == Head(Receivers(StreamTest[Head(at.plan)]))

\* On to the next reference Sender, or to the states.
Another ==
    IF Len(at.todo) = 1 THEN Goto("states")
    ELSE at' = [at EXCEPT !.step = "visit", !.todo = Tail(@)] /\ UNCHANGED verdict

BeginStream ==
    /\ On(DOMAIN StreamTest, "begin") /\ Equipped(Head(at.plan))
    /\ LET format == StreamTest[Head(at.plan)]
       IN IF Receivers(format) = <<>> THEN Conclude("PASS")
          ELSE IF format \notin noted.known THEN Conclude("DISABLED")
          ELSE IF noted.refs[format] = <<>> THEN Conclude("FAIL") ELSE Visit(noted.refs[format])
    /\ UNCHANGED <<device, noted>>

\* activate_reference_sender_and_receiver: a Sender without a Flow, if it were in
\* the list, would end it, one without a transport file raises AttributeError.
Activate ==
    \/ /\ On(DOMAIN StreamTest, "visit")
       /\ CASE device.ref[Subject] = "no_flow" -> Goto("states")
            [] device.ref[Subject] = "no_file" -> Conclude("FAIL")
            [] device.ref[Subject] = "fit" -> Goto("patch")
            [] OTHER -> Another
       /\ device' = IF device.ref[Subject] \in {"unfit", "no_flow"} THEN device
                    ELSE [device EXCEPT !.sending = @ \cup {Subject}]
       /\ UNCHANGED noted
    \/ /\ On(DOMAIN StreamTest, "patch")
       /\ device' = [device EXCEPT !.on = @ \cup {Chosen}, !.source[Chosen] = Subject]
       /\ Another /\ UNCHANGED noted

\* After the first Receiver: the count of activated Receivers is compared with
\* that of all of the format.
Counted == Conclude(IF Len(Receivers(StreamTest[Head(at.plan)])) > 1 THEN "WARNING" ELSE "PASS")

\* Fault: the state of the Receiver is enough, whether it is enabled or not.
StatesFault ==
    /\ On(DOMAIN StreamTest, "states")
    /\ IF Chosen \in device.compliant THEN Counted
       ELSE IF at.tries + 1 < Attempts THEN Step("states", at.tries + 1) ELSE Conclude("UNCLEAR")
    /\ UNCHANGED <<device, noted>>

\* stable_state_request: a Receiver that does not comply is reported as a count
\* that is none; the comparison raises an exception, and the test is unclear.
States ==
    /\ On(DOMAIN StreamTest, "states")
    /\ IF Chosen \in device.on \cap device.compliant THEN Counted
       ELSE IF at.tries + 1 < Attempts THEN Step("states", at.tries + 1) ELSE Conclude("UNCLEAR")
    /\ UNCHANGED <<device, noted>>

\* test_04_03_01_01, test_04_03_02_01: all Outputs show a signal; then the
\* reference Senders are stopped.
Signals ==
    LET refs == noted.refs[OutputTest[Head(at.plan)]]
        Next1 == IF Len(at.todo) = 1 THEN Goto("stop")
                 ELSE at' = [at EXCEPT !.step = "visit", !.todo = Tail(@), !.tries = 0] /\ UNCHANGED verdict
    IN
    \/ /\ On(DOMAIN OutputTest, "begin") /\ Equipped(Head(at.plan))
       /\ Visit(SomeOrder(Output)) /\ UNCHANGED <<device, noted>>
    \/ /\ On(DOMAIN OutputTest, "visit")
       /\ CASE Subject \in device.lit -> Next1
            [] Subject \notin device.lit /\ at.tries < Attempts -> Step("visit", at.tries + 1)
            [] OTHER -> Conclude("FAIL")
       /\ UNCHANGED <<device, noted>>
    \/ /\ On(DOMAIN OutputTest, "stop")
       /\ CASE OutputTest[Head(at.plan)] \notin noted.known -> Conclude("FAIL")
            [] OTHER -> IF refs = <<>> THEN Conclude("DISABLED")
                        ELSE at' = [at EXCEPT !.step = "stopping", !.todo = refs] /\ UNCHANGED verdict
       /\ UNCHANGED <<device, noted>>
    \/ /\ On(DOMAIN OutputTest, "stopping")
       /\ device' = [device EXCEPT !.sending = @ \ {Subject}]
       /\ IF Len(at.todo) = 1 THEN Conclude("PASS")
          ELSE at' = [at EXCEPT !.todo = Tail(@)] /\ UNCHANGED verdict
       /\ UNCHANGED noted

Tests ==
    \/ SetUp \/ TearDown \/ NotCompliant \/ Capabilities
    \/ Excuse \/ FindReferences \/ BeginStream \/ Activate \/ States \/ Signals

\* A prompt device has followed when the suite asks for the last time, an instant
\* one before the suite asks for anything.  stable_state_request asks without a
\* delay, which gives a prompt device no time.
Next ==
    \/ \E r \in Receiver : Turn(r)
    \/ \E o \in Output : Show(o)
    \/ /\ LastAttempt /\ at.step # "states" /\ device.pace = "prompt" => Late \cup Stale = {}
       /\ device.pace = "instant" => Late \cup Stale = {}
       /\ Tests

Spec == Init /\ [][Next]_suiteVars

-----------------------------------------------------------------------------
(* What the verdicts are worth.                                             *)

\* When a stream test counts a Receiver, the stream is there: the Receiver is
\* enabled and fed by a reference Sender of the test's own list that streams right
\* then, although no test compares the source, a state may be that of an earlier
\* stream, other tests stop the Senders, and the Receivers stay enabled.
StreamsAreReceived ==
    \A t \in DOMAIN StreamTest :
        LET receivers == Receivers(StreamTest[t])
        IN  verdict'[t] # verdict[t] /\ verdict'[t] \in {"PASS", "WARNING"} /\ receivers # <<>>
            => /\ verdict'[t] = "PASS" => Len(receivers) = 1
               /\ Fed(Head(receivers)) /\ device.source[Head(receivers)] \in Range(noted.refs[StreamTest[t]])

\* No test fails a conforming, prompt device in a run of the whole suite, if there
\* are fit reference Senders of both formats whose streams reach every Output;
\* the state of a Receiver is not waited for once it has been disabled.
ConformingReceiverPasses ==
    /\ device.fault = "none" /\ device.pace # "slow"
    /\ \A s \in Range(RefSender) : device.ref[s] = "fit"
    /\ \A t \in DOMAIN verdict : t = "tear_down_tests" \/ verdict[t] # "none"
    => \A t \in DOMAIN verdict : verdict[t] = "FAIL" => t = "test_04_02_01" /\ device.pace = "prompt"

\* A run of the whole suite against fit reference Senders never passes a device
\* whose Receivers do not receive, whose Outputs stay dark or whose Receivers
\* comply with no stream.
ReceiverMistakesAreSeen ==
    /\ Ended /\ \A t \in DOMAIN verdict : verdict[t] # "none"
    /\ device.fault # "none" /\ device.configured
    /\ \A s \in Range(RefSender) : device.ref[s] = "fit"
    => \E t \in DOMAIN verdict : verdict[t] \in {"FAIL", "UNCLEAR"}
=============================================================================
