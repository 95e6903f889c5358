-------------------------- MODULE ConnectionTests --------------------------
(***************************************************************************)
(* The IS-05 suite (nmostesting/suites/IS0501Test.py and                   *)
(* nmostesting/IS05Utils.py) at work on a Connection API.                  *)
(*                                                                         *)
(* A port stages a value for the transport parameter the suite changes,    *)
(* and activates what is staged at once or at a later time; until then it  *)
(* is locked.  The time of an activation is seen only as whether it is the *)
(* one asked for last or an earlier one.                                   *)
(***************************************************************************)
EXTENDS Suite

CONSTANTS
    Senders, Receivers,  \* the ports, in order
    Allowed,             \* the values that a port's constraints allow
    Tries                \* how often /active is read after a scheduled activation (3)

Port == Range(Senders) \cup Range(Receivers)
Value == UNION {Allowed[p] : p \in Port}
Modes == {"immediate", "relative", "absolute"}

ConnectionTestsAssumption ==
    /\ Senders \in Seq(Range(Senders)) /\ Receivers \in Seq(Range(Receivers))
    /\ Range(Senders) \cap Range(Receivers) = {}
    /\ \A p \in Port : Allowed[p] # {} /\ "auto" \notin Allowed[p]
    /\ Tries \in Nat \ {0}

Faults == {"none", "frozen", "lazy", "never", "keeps", "auto", "lax", "bulk", "sdp"}

TypeOK ==
    /\ device.fault \in Faults /\ device.pace \in {"instant", "prompt", "slow"}
    /\ \A p \in Port :
         /\ device.staged[p] \in
              [value : Value \cup {"auto"}, enabled : BOOLEAN, mode : Modes \cup {"none"}]
         /\ device.active[p] \in
              [value : Value \cup {"auto"}, enabled : BOOLEAN, mode : Modes, fresh : BOOLEAN]
         /\ device.sdp[p] \in Value \cup {"auto"}
    /\ noted.value \in Value \cup {"auto"} /\ noted.same \in BOOLEAN /\ noted.late \in BOOLEAN
    /\ \A t \in DOMAIN verdict : verdict[t] \in Verdict

-----------------------------------------------------------------------------
(* The Connection API, as the suite takes it to be.                         *)

Pending == {p \in Port : device.staged[p].mode # "none"}
Locked(p) == p \in Pending

\* What is staged becomes active, and the transport file follows.
Activated(d, p, mode) ==
    LET v == IF d.staged[p].value = "auto" /\ d.fault # "auto"
             THEN CHOOSE x \in Allowed[p] : TRUE ELSE d.staged[p].value
    IN [d EXCEPT !.active[p] = [value |-> v, enabled |-> d.staged[p].enabled,
                                mode |-> mode, fresh |-> TRUE],
                 !.sdp[p] = IF d.fault = "sdp" THEN @ ELSE v,
                 !.staged[p].mode = IF d.fault = "keeps" /\ mode = "immediate" THEN "immediate"
                                    ELSE "none"]

\* A PATCH with an activation.
Activate(d, p, mode) ==
    LET asked == [d EXCEPT !.active[p].fresh = FALSE, !.staged[p].mode = mode]
    IN IF mode = "immediate"
       THEN IF d.fault = "lazy" THEN [asked EXCEPT !.staged[p].mode = "none"]
            ELSE Activated(asked, p, mode)
       ELSE asked

Fire(p) ==
    /\ device.staged[p].mode \in {"relative", "absolute"} /\ device.fault # "never"
    /\ device' = Activated(device, p, device.staged[p].mode)
    /\ UNCHANGED <<at, noted, verdict>>

Stage(d, p, v) == IF d.fault = "frozen" THEN d ELSE [d EXCEPT !.staged[p].value = v]

-----------------------------------------------------------------------------
(* The suite.                                                               *)

\* Each kind of test, for Senders and Receivers.
Auto == <<"test_11_01", "test_12_01">>
PatchAuto == <<"test_11_02", "test_12_02">>
Empty == <<"test_17", "test_18", "test_23_01", "test_24_01">>
Invalid == <<"test_19", "test_20">>
Identity == <<"test_22", "test_21">>
Change == <<"test_23", "test_24">>
Activation ==
    [test_25 |-> "immediate", test_26 |-> "immediate", test_27 |-> "relative",
     test_28 |-> "relative", test_29 |-> "absolute", test_30 |-> "absolute"]
Bulk == <<"test_36", "test_37">>

Order ==
    <<"test_09_01", "test_11_01", "test_11_02", "test_12_01", "test_12_02", "test_17", "test_18",
      "test_19", "test_20", "test_21", "test_22", "test_23", "test_23_01", "test_24", "test_24_01",
      "test_25", "test_26", "test_27", "test_28", "test_29", "test_30", "test_36", "test_37">>

ForReceivers ==
    {"test_12_01", "test_12_02", "test_18", "test_20", "test_21", "test_24", "test_24_01",
     "test_26", "test_28", "test_30", "test_37"}
PortsOf(t) == IF t \in ForReceivers THEN Receivers ELSE Senders

\* Some earlier controller has activated the ports, in one of the modes.
Init ==
    /\ \E plan \in Plans(Order) : at = Position(plan)
    /\ \E fault \in Faults, pace \in {"instant", "prompt", "slow"}, mode \in Modes, on \in BOOLEAN,
          v \in [Port -> Value] :
         /\ \A p \in Port : v[p] \in Allowed[p]
         /\ fault # "none" => pace = "instant" /\ mode = "immediate" /\ on
         /\ device = [fault |-> fault, pace |-> pace,
                      staged |-> [p \in Port |-> [value |-> v[p], enabled |-> on, mode |-> "none"]],
                      active |-> [p \in Port |-> [value |-> v[p], enabled |-> on, mode |-> mode,
                                                  fresh |-> FALSE]],
                      sdp |-> v]
         /\ noted = [value |-> "auto", same |-> FALSE, late |-> FALSE]
    /\ verdict = NoVerdicts(Order)

SetUp == On({"set_up_tests", "tear_down_tests"}, "begin") /\ Conclude("PASS") /\ UNCHANGED <<device, noted>>

Here == Head(at.plan)
Begin ==
    /\ On(Range(Order) \ Range(Bulk), "begin")
    /\ Visit(PortsOf(Here))
    /\ noted' = [noted EXCEPT !.late = FALSE] /\ UNCHANGED device

\* A PATCH to /staged.
Patch(d, next) == IF Locked(Subject) THEN Conclude("FAIL") /\ UNCHANGED device ELSE device' = d /\ next

\* generate_changeable_param: any value that the constraints allow, perhaps the
\* one that is staged.
Draw(p, v) == v \in Allowed[p] /\ noted' = [noted EXCEPT !.value = v, !.same = @ \/ v = device.staged[p].value]

\* test_09_01: the transport file of an enabled Sender matches /active.
TransportFiles ==
    /\ On({"test_09_01"}, "visit")
    /\ IF device.sdp[Subject] # device.active[Subject].value /\ device.active[Subject].enabled
       THEN Conclude("FAIL")
       ELSE LeaveAs(IF \A p \in Range(Senders) : device.active[p].enabled THEN "PASS" ELSE "UNCLEAR")
    /\ UNCHANGED <<device, noted>>

\* test_11_01, test_12_01: /active never says "auto".
NoAuto ==
    /\ On(Range(Auto), "visit")
    /\ IF device.active[Subject].value = "auto" THEN Conclude("FAIL") ELSE Leave
    /\ UNCHANGED <<device, noted>>

\* patch_auto_params
PatchAutoParams ==
    /\ \/ /\ On(Range(PatchAuto), "visit")
          /\ Patch(Activate(Stage(device, Subject, "auto"), Subject, "immediate"), Goto("active"))
       \/ /\ On(Range(PatchAuto), "active")
          /\ IF device.active[Subject].value = "auto" THEN Conclude("FAIL") ELSE Leave
          /\ UNCHANGED device
    /\ UNCHANGED noted

\* check_patch_response_valid, check_patch_empty_transport_params: a PATCH of
\* nothing is accepted.
EmptyPatch ==
    /\ On(Range(Empty), "visit")
    /\ Patch(device, Leave) /\ UNCHANGED noted

\* check_refuses_invalid_patch
InvalidPatch ==
    /\ On(Range(Invalid), "visit")
    /\ IF device.fault = "lax" \/ Locked(Subject) THEN Conclude("FAIL") ELSE Leave
    /\ UNCHANGED <<device, noted>>

\* test_21, test_22: the response to the PATCH is judged; what /staged says then
\* is read and thrown away.
IdentityPatch ==
    /\ On(Range(Identity), "visit")
    /\ Patch(device, Leave) /\ UNCHANGED noted

\* check_change_transport_param
ChangeParam ==
    \/ /\ On(Range(Change), "visit")
       /\ \E v \in Value : Draw(Subject, v) /\ Patch(Stage(device, Subject, v), Goto("staged"))
    \/ /\ On(Range(Change), "staged")
       /\ IF device.staged[Subject].value = noted.value THEN Leave ELSE Conclude("FAIL")
       /\ UNCHANGED <<device, noted>>

\* check_activation: the value is staged and the Sender enabled ...
StageForActivation ==
    \/ /\ On(DOMAIN Activation, "visit")
       /\ \E v \in Value :
             /\ Draw(Subject, v)
             /\ Patch([Stage(device, Subject, v) EXCEPT
                          !.staged[Subject].enabled = @ \/ Here \notin ForReceivers],
                      Goto("activate"))
    \/ /\ On(DOMAIN Activation, "activate")
       /\ Patch(Activate(device, Subject, Activation[Here]),
                Goto(IF Activation[Here] = "immediate" THEN "default" ELSE "active"))
       /\ UNCHANGED noted

\* ... check_staged_activation_params_default ...
StagedDefault ==
    /\ On(DOMAIN Activation, "default")
    /\ Check(device.staged[Subject].mode = "none", "active") /\ UNCHANGED <<device, noted>>

\* Fault: an outcome that was there before is taken for the new one.
ShownFault(p) == device.active[p].value = noted.value /\ device.active[p].mode = Activation[Here]

\* ... and /active read until it shows the value and the activation asked for.
Shown(p) ==
    /\ device.active[p].value = noted.value
    /\ device.active[p].mode = Activation[Here] /\ device.active[p].fresh

MaxTries == IF Activation[Here] = "immediate" THEN 1 ELSE Tries

\* check_sdp_matches_params, of a Sender.
FileMatches(p) ==
    p \in Range(Senders) =>
        device.active[p].enabled /\ device.sdp[p] = device.active[p].value

ActiveRead ==
    /\ On(DOMAIN Activation, "active")
    /\ IF Shown(Subject)
       THEN /\ noted' = [noted EXCEPT !.late = @ \/ at.tries > 0]
            /\ IF FileMatches(Subject) THEN LeaveAs(IF noted'.late THEN "WARNING" ELSE "PASS")
               ELSE Conclude("FAIL")
       ELSE /\ IF at.tries + 1 < MaxTries THEN Step("active", at.tries + 1) ELSE Conclude("FAIL")
            /\ UNCHANGED noted
    /\ UNCHANGED device

\* check_bulk_stage: one request for all ports, then /staged of each.
BulkStage ==
    \/ /\ On(Range(Bulk), "begin")
       /\ LET ports == PortsOf(Here) IN
          IF \E p \in Range(ports) : Locked(p)
          THEN Conclude("FAIL") /\ UNCHANGED <<device, noted>>
          ELSE \E v \in Value :
                 LET drawn == [p \in Range(ports) |->
                                 IF v \in Allowed[p] THEN v ELSE CHOOSE x \in Allowed[p] : TRUE]
                 IN /\ device' = IF device.fault \in {"bulk", "frozen"} THEN device
                                 ELSE [device EXCEPT !.staged = [p \in Port |->
                                         IF p \in Range(ports)
                                         THEN [device.staged[p] EXCEPT !.value = drawn[p]]
                                         ELSE device.staged[p]]]
                    /\ noted' = [noted EXCEPT !.value = v,
                                   !.same = @ \/ \E p \in Range(ports) : drawn[p] = device.staged[p].value]
                    /\ Visit(ports)
    \/ /\ On(Range(Bulk), "visit")
       /\ IF device.staged[Subject].value
                = (IF noted.value \in Allowed[Subject] THEN noted.value ELSE CHOOSE x \in Allowed[Subject] : TRUE)
          THEN Leave ELSE Conclude("FAIL")
       /\ UNCHANGED <<device, noted>>

Tests ==
    \/ SetUp \/ Begin \/ TransportFiles \/ NoAuto \/ PatchAutoParams \/ EmptyPatch \/ InvalidPatch
    \/ IdentityPatch \/ ChangeParam \/ StageForActivation \/ StagedDefault \/ ActiveRead \/ BulkStage

\* The first look at /active comes after the time of the activation, by the
\* tester's clock; an instant device has activated then, a prompt one when it is
\* looked at for the last time.
Due ==
    /\ at.step = "active" /\ Pending # {}
    /\ device.pace = "instant" \/ (device.pace = "prompt" /\ at.tries >= Tries - 1)

Next ==
    \/ \E p \in Port : Fire(p)
    \/ (Due => device.fault \in {"never", "keeps"}) /\ Tests

Spec == Init /\ [][Next]_suiteVars

-----------------------------------------------------------------------------
(* What the verdicts are worth.                                             *)

\* No test fails a Connection API that follows IS-05, however its ports were left,
\* if it activates by the last look: no test leaves a port locked for the next.
ConformingPortPasses ==
    device.fault = "none" /\ device.pace # "slow"
    => /\ \A t \in DOMAIN verdict : verdict[t] # "FAIL"
       /\ Ended => Pending = {}

\* A run of the whole suite fails every mistake, if the values drawn at random
\* were not those already staged.
PortMistakesAreFound ==
    /\ Ended /\ \A t \in DOMAIN verdict : verdict[t] # "none"
    /\ device.fault # "none" /\ ~noted.same
    => \E t \in DOMAIN verdict : verdict[t] = "FAIL"

\* A port is done with in an activation test only once it has activated since it
\* was asked to: the outcome of an earlier activation with the same mode, time and
\* value is never taken for it.
ActivationIsAwaited ==
    On(DOMAIN Activation, "active") /\ at'.todo # at.todo
    => device.active[Subject].fresh \/ verdict'[Here] = "FAIL"
=============================================================================
