----------------------------- MODULE EdidTests -----------------------------
(***************************************************************************)
(* The tests of Inputs of the IS-11 suite, test_01 and test_02_03_04       *)
(* (nmostesting/suites/IS1101Test.py), and the Inputs.                     *)
(*                                                                         *)
(* An Input follows its Base EDID with its Effective EDID in its own time, *)
(* and may be waiting for its signal.  A version is seen only as whether   *)
(* it has changed since the suite last noted it.                           *)
(***************************************************************************)
EXTENDS Suite, FiniteSetsExt

CONSTANTS
    Input, Connected, Edid, Base, Adjust,  \* Inputs, and those with each feature
    Sender, InputsOf,                      \* the Senders and the list of Inputs of each
    NoInput

EdidTestsAssumption ==
    /\ IsFiniteSet(Sender) /\ IsFiniteSet(Input)
    /\ Adjust \subseteq Base /\ Base \subseteq Edid
    /\ Edid \subseteq Input /\ Connected \subseteq Input
    /\ NoInput \notin Input
    /\ InputsOf \in [Sender -> Seq(Input)]

Faults == {"none", "still", "stale", "keeps", "lax", "open"}
Conforming == device.fault = "none"

TypeOK ==
    /\ device \in
         [fault : Faults, pace : {"instant", "prompt", "slow"}, network : {"fine", "failing", "failed"},
          base : [Input -> {"none", "valid", "adjustable", "invalid"}],
          effective : [Input -> {"default", "valid", "adjusted"}],
          signal : [Input -> {"none", "awaiting", "present"}],
          changed : SUBSET (Sender \cup Input)]
    /\ noted \in [with : Seq(Sender), silent : SUBSET Input, edid : {"default", "valid", "adjusted"}]
    /\ \A t \in DOMAIN verdict : verdict[t] \in Verdict

SendersOf(i) == {s \in Sender : i \in Range(InputsOf[s])}

-----------------------------------------------------------------------------
(* The device under test, as the suite takes it to be.                      *)

\* What the Effective EDID of an Input may be once it has followed.
Followed(i) ==
    IF device.fault = "stale" \/ device.base[i] = "none" THEN {"default"}
    ELSE IF device.base[i] = "adjustable" THEN {"valid", "adjusted"} ELSE {"valid"}

Following == {i \in Edid : device.effective[i] \notin Followed(i)}

Follow(i) ==
    /\ i \in Following
    /\ \E e \in Followed(i) : device' = [device EXCEPT !.effective[i] = e]
    /\ UNCHANGED <<at, noted, verdict>>

Signal(i) ==
    /\ device.signal[i] = "awaiting"
    /\ \E s \in {"none", "present"} : device' = [device EXCEPT !.signal[i] = s]
    /\ UNCHANGED <<at, noted, verdict>>

\* A Base EDID put or deleted counts as a change of the Input and its Senders.
WithBase(d, i, e) ==
    [d EXCEPT !.base[i] = e,
              !.changed = IF d.base[i] = e \/ d.fault = "still" THEN @
                          ELSE @ \cup {i} \cup SendersOf(i)]
Put(d, i) == WithBase(d, i, "valid")
Delete(d, i) == IF d.fault = "keeps" THEN d ELSE WithBase(d, i, "none")
Seen(d, i) == [d EXCEPT !.changed = @ \ ({i} \cup SendersOf(i))]

-----------------------------------------------------------------------------
(* The suite.                                                               *)

List(S) == SomeOrder(S)
Order == <<"test_01_00", "test_01_02", "test_01_03", "test_01_04", "test_01_05", "test_01_06",
           "test_02_03_00", "test_02_03_04">>

\* Some earlier controller may have left a Base EDID.
Init ==
    /\ \E plan \in Plans(Order) : at = Position(plan)
    /\ device \in
         [fault : Faults, pace : {"instant", "prompt", "slow"}, network : {"fine", "failing"},
          base : [Input -> {"none", "valid"}], effective : [Input -> {"default", "valid"}],
          signal : [Input -> {"none", "awaiting", "present"}], changed : {{}}]
    /\ \A i \in Input : /\ i \notin Base => device.base[i] = "none"
                        /\ i \notin Connected => device.signal[i] = "none"
                        /\ device.effective[i] = IF device.base[i] = "none" THEN "default" ELSE "valid"
    /\ device.network = "failing" => device.pace = "instant"
    /\ device.fault # "none" => /\ device.network = "fine" /\ device.pace = "prompt"
                                /\ \A i \in Input : device.base[i] = "none"
                                                    /\ device.signal[i] = "none"
    /\ noted = [with |-> <<>>, silent |-> {}, edid |-> "default"]
    /\ verdict = NoVerdicts(Order)

\* delete_base_edid
SetUp ==
    /\ On({"set_up_tests"}, "begin")
    /\ device' = IF device.fault = "keeps" THEN device
                 ELSE [device EXCEPT !.base = [i \in Input |-> "none"]]
    /\ Conclude("PASS") /\ UNCHANGED noted

\* The Base EDIDs are deleted one by one, whatever comes of it.
TearDown ==
    \/ /\ On({"tear_down_tests"}, "begin")
       /\ IF Base = {} THEN Conclude("PASS") ELSE Visit(List(Base))
       /\ UNCHANGED <<device, noted>>
    \/ /\ On({"tear_down_tests"}, "visit")
       /\ \/ device' = Delete(device, Subject)
          \/ device.network = "failing" /\ device' = [device EXCEPT !.network = "failed"]
       /\ Leave /\ UNCHANGED noted

\* A request of a step that fails ends the test there.
Hiccup ==
    /\ ~Ended /\ device.network = "failing" /\ Head(at.plan) # "tear_down_tests"
    /\ device' = [device EXCEPT !.network = "failed"]
    /\ IF Head(at.plan) = "set_up_tests" THEN Abort ELSE Conclude("FAIL")
    /\ UNCHANGED noted

Begin(tests, subjects) == On(tests, "begin") /\ Visit(subjects) /\ UNCHANGED <<device, noted>>

\* list.remove of an Input put aside raises ValueError: the list has only the
\* identifiers of the Inputs.
Remove(silent) == IF silent = {} THEN "PASS" ELSE "FAIL"

\* test_01_00: an Input without a signal is put aside, one whose signal comes
\* while it is awaited too.
Signals ==
    LET test == {"test_01_00"} IN
    \/ Begin(test, List(Connected))
    \/ /\ On(test, "visit")
       /\ CASE device.signal[Subject] = "present" -> LeaveAs(Remove(noted.silent))
            [] device.signal[Subject] = "none" -> Goto("silent")
            [] OTHER -> Step("awaited", 1)
       /\ UNCHANGED <<device, noted>>
    \/ /\ On(test, "awaited")
       /\ Poll(device.signal[Subject] # "awaiting", "silent", Attempts + 1)
       /\ UNCHANGED <<device, noted>>
    \/ /\ On(test, "silent")
       /\ noted' = [noted EXCEPT !.silent = @ \cup {Subject}]
       /\ LeaveAs(Remove(noted'.silent))
       /\ UNCHANGED device

\* test_01_02: the Base EDID is put and deleted, and the Effective EDID follows.
PutAndDelete ==
    LET test == {"test_01_02"} IN
    \/ Begin(test, List(Base))
    \/ /\ On(test, "visit")
       /\ noted' = [noted EXCEPT !.edid = device.effective[Subject]]
       /\ device' = Put(device, Subject)
       /\ Goto("effective")
    \/ /\ On(test, "effective")
       /\ Poll(device.effective[Subject] = "valid", "delete", Attempts)
       /\ UNCHANGED <<device, noted>>
    \/ /\ On(test, "delete")
       /\ device' = Delete(device, Subject)
       /\ Check(device'.base[Subject] = "none", "default") /\ UNCHANGED noted
    \/ /\ On(test, "default")
       /\ Poll(device.effective[Subject] = noted.edid, "leave", Attempts)
       /\ UNCHANGED <<device, noted>>
    \/ On(test, "leave") /\ Leave /\ UNCHANGED <<device, noted>>

\* test_01_03: an invalid EDID is refused.
Invalid ==
    \/ Begin({"test_01_03"}, List(Base))
    \/ /\ On({"test_01_03"}, "visit")
       /\ IF device.fault = "lax"
          THEN device' = WithBase(device, Subject, "invalid") /\ Conclude("FAIL")
          ELSE Leave /\ UNCHANGED device
       /\ UNCHANGED noted

\* test_01_04: Inputs without EDID support refuse everything about EDIDs.
Unsupported ==
    \/ Begin({"test_01_04"}, List(Input \ Edid))
    \/ /\ On({"test_01_04"}, "visit")
       /\ IF device.fault = "open" THEN Conclude("FAIL") ELSE Leave
       /\ UNCHANGED <<device, noted>>

\* test_01_05: PUT and DELETE change the versions of the Input and its Senders.
Versions ==
    LET test == {"test_01_05"}
        Moved == {Subject} \cup SendersOf(Subject) \subseteq device.changed
    IN
    \/ Begin(test, List(Base))
    \/ /\ On(test, "visit")
       /\ device' = Put(Seen(device, Subject), Subject)
       /\ Goto("put") /\ UNCHANGED noted
    \/ /\ On(test, "put")
       /\ Check(Moved, "delete")
       /\ device' = Seen(device, Subject) /\ UNCHANGED noted
    \/ /\ On(test, "delete")
       /\ device' = Delete(device, Subject)
       /\ Goto("deleted") /\ UNCHANGED noted
    \/ /\ On(test, "deleted")
       /\ IF Moved THEN Leave ELSE Conclude("FAIL")
       /\ UNCHANGED <<device, noted>>

\* test_01_06: adjust_to_caps
Adjusted ==
    LET test == {"test_01_06"} IN
    \/ Begin(test, List(Adjust))
    \/ /\ On(test, "visit")
       /\ noted' = [noted EXCEPT !.edid = device.effective[Subject]]
       /\ device' = WithBase(device, Subject, "adjustable")
       /\ Goto("effective")
    \/ /\ On(test, "effective")
       /\ Poll(device.effective[Subject] # noted.edid, "delete", Attempts)
       /\ UNCHANGED <<device, noted>>
    \/ /\ On(test, "delete")
       /\ device' = Delete(device, Subject)
       /\ Goto("default") /\ UNCHANGED noted
    \/ /\ On(test, "default")
       /\ Poll(device.effective[Subject] = noted.edid, "leave", Attempts)
       /\ UNCHANGED <<device, noted>>
    \/ On(test, "leave") /\ Leave /\ UNCHANGED <<device, noted>>

\* test_02_03_00: the Senders with Inputs.
WithInputs ==
    /\ On({"test_02_03_00"}, "begin")
    /\ LET with == List({s \in Sender : InputsOf[s] # <<>>})
       IN /\ noted' = [noted EXCEPT !.with = with]
          /\ Conclude(IF with = <<>> THEN "UNCLEAR" ELSE "PASS")
    /\ UNCHANGED device

\* The Inputs of a Sender up to the first that has no Base EDID or is not
\* connected; a Sender without any ends the test.
Usable(s) ==
    LET bad == {k \in DOMAIN InputsOf[s] : InputsOf[s][k] \notin Base \cap Connected}
        usable == SubSeq(InputsOf[s], 1, IF bad = {} THEN Len(InputsOf[s]) ELSE Min(bad) - 1)
    IN IF usable = <<>> THEN <<NoInput>> ELSE usable

\* test_02_03_04: PUT changes the Input's version, and DELETE is accepted.  The
\* Sender's new version is compared with the Input's old one, from which it
\* differs in any case.
SenderInputs ==
    LET test == {"test_02_03_04"} IN
    \/ Begin(test, Concatenation([k \in DOMAIN noted.with |-> Usable(noted.with[k])]))
    \/ /\ On(test, "visit")
       /\ IF Subject = NoInput THEN Conclude("UNCLEAR") /\ UNCHANGED device
          ELSE device' = Put(Seen(device, Subject), Subject) /\ Goto("put")
       /\ UNCHANGED noted
    \/ /\ On(test, "put")
       /\ Check(Subject \in device.changed, "delete")
       /\ UNCHANGED <<device, noted>>
    \/ /\ On(test, "delete")
       /\ device' = Delete(device, Subject)
       /\ Leave /\ UNCHANGED noted

Tests ==
    \/ SetUp \/ TearDown \/ Hiccup
    \/ Signals \/ PutAndDelete \/ Invalid \/ Unsupported \/ Versions \/ Adjusted
    \/ WithInputs \/ SenderInputs

Waiting == Following # {} \/ \E i \in Input : device.signal[i] = "awaiting"

\* A prompt device has followed when the suite asks for the last time, an instant
\* one before the suite asks for anything.
Next ==
    \/ \E i \in Input : Follow(i) \/ Signal(i)
    \/ /\ LastAttempt /\ device.pace = "prompt" => ~Waiting
       /\ device.pace = "instant" => ~Waiting
       /\ Tests

Spec == Init /\ [][Next]_suiteVars

-----------------------------------------------------------------------------
(* What the verdicts are worth.                                             *)

\* No test fails a device that follows IS-11, follows its EDIDs promptly and
\* answers every request, but for the two that take an Effective EDID for the
\* default without a wait for it to settle, and test_01_00 where it finds a
\* connected Input without a signal.
ConformingInputPasses ==
    Conforming /\ device.pace # "slow" /\ device.network # "failed"
    => \A t \in DOMAIN verdict : verdict[t] = "FAIL" =>
          \/ t \in {"test_01_02", "test_01_06"} /\ device.pace = "prompt"
          \/ t = "test_01_00" /\ noted.silent # {}

\* A run of the whole suite fails every mistake of a device that has Inputs with
\* and without the features.
InputMistakesAreFound ==
    (Ended /\ device.fault # "none" /\ \A t \in DOMAIN verdict : verdict[t] # "none")
    => \E t \in DOMAIN verdict : verdict[t] = "FAIL"

\* Once torn down, no Base EDID is left on such a device, though tests return
\* early, and not even when a request fails, if the device is quick.  (A test of
\* a slower device may fail before its DELETE: then all depends on tear down.)
NoEdidIsLeft ==
    Ended /\ Conforming /\ verdict["tear_down_tests"] # "none"
    => \A i \in Input : device.base[i] = "none"
=============================================================================
