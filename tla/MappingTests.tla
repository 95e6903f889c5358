---------------------------- MODULE MappingTests ----------------------------
(***************************************************************************)
(* The IS-08 suite (nmostesting/suites/IS0801Test.py and suites/is08) at   *)
(* work on a Channel Mapping API: the tests that activate routes.          *)
(*                                                                         *)
(* A device maps each channel of its Outputs to a channel of an Input, or  *)
(* to none, within the constraints of both.  Activations come at once or   *)
(* at a later time, and lock their Outputs until then.  The answer to one  *)
(* request may get lost, though the device carried it out.                 *)
(***************************************************************************)
EXTENDS Suite, Integers

CONSTANTS
    Inputs, Outputs,  \* in order
    Width,            \* how many channels each of them has
    Block, Reorders,  \* the constraints of each Input
    Routable,         \* of each Output, the Inputs that it may be routed to, in order ...
    NoInput           \* ... with this one if its channels may be unrouted

\* The device's routes can be changed in one of the ways that the suite knows, and
\* its first forbidden route is forbidden by that constraint alone.
MappingTestsAssumption ==
    /\ \A i \in Range(Inputs) : Block[i] \in Nat \ {0} /\ Reorders[i] \in BOOLEAN
    /\ \A o \in Range(Outputs) :
         /\ Range(Routable[o]) \subseteq Range(Inputs) \cup {NoInput}
         /\ \A i \in Range(Routable[o]) \ {NoInput} :
              Width[o] % Block[i] = 0 /\ (Len(Routable[o]) = 1 => Width[i] >= 2 * Block[i])
    /\ \A i, j \in Range(Inputs) : ~Reorders[i] /\ ~Reorders[j] => Block[i] = Block[j]

Faults == {"none", "ignores", "early", "never", "unlocked", "undeleted", "loose", "reorders", "splits"}

Channels(o) == {o} \X (0..(Width[o] - 1))
Channel == UNION {Channels(o) : o \in Range(Outputs)}
Unrouted == <<>>
Route == UNION {{i} \X (0..(Width[i] - 1)) : i \in Range(Inputs)} \cup {Unrouted}

\* A map of some of the channels, as in a request.
IsActions(f) == DOMAIN f \subseteq Channel /\ \A c \in DOMAIN f : f[c] \in Route

TypeOK ==
    /\ device.fault \in Faults /\ device.map \in [Channel -> Route]
    /\ IsActions(device.pending) /\ IsActions(noted.actions)
    /\ \A t \in DOMAIN verdict : verdict[t] \in Verdict

-----------------------------------------------------------------------------
(* The Channel Mapping API, as the suite takes it to be.                    *)

NoActions == [c \in {} |-> Unrouted]
Changed(map, actions) == [c \in Channel |-> IF c \in DOMAIN actions THEN actions[c] ELSE map[c]]

InputOf(route) == IF route = Unrouted THEN NoInput ELSE route[1]

Permitted(map) == \A c \in DOMAIN map : InputOf(map[c]) \in Range(Routable[c[1]])

\* Blocks are routed as a whole.
Unbroken(map) ==
    \A c \in DOMAIN map : map[c] # Unrouted =>
        LET b == Block[map[c][1]]
        IN  \A n \in 0..(b - 1) :
              map[<<c[1], c[2] - (c[2] % b) + n>>] = <<map[c][1], map[c][2] - (map[c][2] % b) + n>>

Ordered(map) ==
    \A c, d \in DOMAIN map :
        /\ c[1] = d[1] /\ c[2] < d[2] /\ map[c] # Unrouted
        /\ InputOf(map[c]) = InputOf(map[d]) /\ ~Reorders[map[c][1]]
        => map[c][2] <= map[d][2]

\* The maps of one Output that its constraints and those of its Inputs allow.
LegalMaps(o) ==
    {map \in [Channels(o) -> Route] : Permitted(map) /\ Unbroken(map) /\ Ordered(map)}

Accepts(map) ==
    /\ Permitted(map) \/ device.fault = "loose"
    /\ Unbroken(map) \/ device.fault = "splits"
    /\ Ordered(map) \/ device.fault = "reorders"

Locked(actions) ==
    /\ device.fault # "unlocked"
    /\ \E c \in DOMAIN actions, d \in DOMAIN device.pending : c[1] = d[1]

\* The code of the answer to a POST, and the device after it.
Answer(actions) ==
    IF Locked(actions) THEN "423"
    ELSE IF Accepts(Changed(device.map, actions)) THEN "done" ELSE "400"

After(actions, later) ==
    IF Answer(actions) # "done" THEN device
    ELSE IF later /\ device.fault # "early" THEN [device EXCEPT !.pending = actions]
    ELSE IF device.fault = "ignores" THEN device
    ELSE [device EXCEPT !.map = Changed(@, actions)]

\* An activation is carried out while the suite sleeps for it, or when it was left
\* behind.
Fire ==
    /\ device.pending # NoActions /\ device.fault # "never"
    /\ at.step \notin {"pending", "lock", "delete"}
    /\ device' = [device EXCEPT !.map = Changed(@, device.pending), !.pending = NoActions]
    /\ UNCHANGED <<at, noted, verdict>>

-----------------------------------------------------------------------------
(* The suite.                                                               *)

Delayed == {"test_03", "test_04"}
Scheduled == Delayed \cup {"test_05", "test_06"}
Violations == {"test_13", "test_14", "test_15"}
Order == <<"test_02", "test_03", "test_04", "test_05", "test_06", "test_13", "test_14", "test_15">>
Here == Head(at.plan)

Init ==
    /\ \E maps \in [Range(Outputs) -> UNION {LegalMaps(o) : o \in Range(Outputs)}], fault \in Faults :
         /\ \A o \in Range(Outputs) : DOMAIN maps[o] = Channels(o)
         /\ device = [fault |-> fault, map |-> [c \in Channel |-> maps[c[1]][c]],
                      pending |-> NoActions]
    /\ \E plan \in Plans(Order) : at = Position(plan)
    /\ noted = [actions |-> NoActions, before |-> device.map, lost |-> "none"]
    /\ verdict = NoVerdicts(Order)

SetUp == On({"set_up_tests", "tear_down_tests"}, "begin") /\ Conclude("PASS") /\ UNCHANGED <<device, noted>>

\* getRouteBlockActionsForInputOutput
RouteBlock(i, o, number) ==
    [c \in Channels(o) |-> <<i, number * Block[i] + (c[2] % Block[i])>>]

\* getAcceptableActionsForOutput: a set of actions that changes the Output's map.
Acceptable(o) ==
    LET now == device.map[<<o, 0>>]
        inputs == SelectSeq(Routable[o], LAMBDA i : i # NoInput)
        others == SelectSeq(inputs, LAMBDA i : i # InputOf(now))
    IN  IF NoInput \in Range(Routable[o])
        THEN IF \E c \in Channels(o) : device.map[c] # Unrouted
             THEN [c \in Channels(o) |-> Unrouted]
             ELSE RouteBlock(Head(inputs), o, 0)
        ELSE IF others # <<>> THEN RouteBlock(Head(others), o, 0)
        ELSE RouteBlock(now[1], o, IF now[2] = 0 THEN 1 ELSE 0)

AllAcceptable == [c \in Channel |-> Acceptable(c[1])[c]]

\* test_13: a single channel of an Input that an Output is not routable to.
Forbidden ==
    LET inputs(o) == SelectSeq(<<NoInput>> \o Inputs, LAMBDA i : i \notin Range(Routable[o]))
        outputs == SelectSeq(Outputs, LAMBDA o : inputs(o) # <<>>)
    IN  IF outputs = <<>> THEN NoActions
        ELSE LET first == Head(outputs) IN [c \in {<<first, 0>>} |-> <<Head(inputs(first)), 0>>]

OutputsFor(i, blocks) ==
    SelectSeq(Outputs, LAMBDA o : i \in Range(Routable[o]) /\ Width[o] >= blocks * Block[i])

\* test_14: two blocks of each Input that keeps their order change places.
Crossed ==
    LET inputs == {i \in Range(Inputs) : /\ ~Reorders[i] /\ Width[i] >= 2 * Block[i]
                                         /\ OutputsFor(i, 2) # <<>>}
        last(s) == s[Len(s)]
        two(i) == {last(OutputsFor(i, 2))} \X (0..(2 * Block[i] - 1))
        input(c) == CHOOSE i \in inputs : c \in two(i)
    IN  [c \in UNION {two(i) : i \in inputs} |->
            <<input(c), (c[2] + Block[input(c)]) % (2 * Block[input(c)])>>]

\* test_15: the first channel of a block is routed twice.
Split ==
    LET inputs == SelectSeq(Inputs, LAMBDA i : Block[i] > 1)
        split == Head(inputs)
    IN  IF inputs = <<>> THEN NoActions
        ELSE [c \in {Head(OutputsFor(split, 1))} \X {0, 1} |-> <<split, 0>>]

Wanted ==
    CASE Here \in {"test_02"} \cup Delayed -> AllAcceptable
      [] Here \in {"test_05", "test_06"} -> Acceptable(Head(Outputs))
      [] Here = "test_13" -> Forbidden
      [] Here = "test_14" -> Crossed
      [] OTHER -> Split

\* Nothing to try.  test_14 looks only whether some Input keeps its order: it posts
\* an activation of nothing when no such Input has the blocks and the Output.
Untestable ==
    IF Here = "test_14" THEN \A i \in Range(Inputs) : Reorders[i] ELSE Wanted = NoActions

Prepare ==
    /\ On(Range(Order), "begin")
    /\ noted' = [noted EXCEPT !.actions = Wanted, !.before = device.map]
    /\ IF Untestable THEN Conclude("UNCLEAR") ELSE Goto("post")
    /\ UNCHANGED device

Continue(t) ==
    CASE t \in Delayed -> "pending" [] t = "test_05" -> "delete" [] t = "test_06" -> "lock"
      [] OTHER -> "assert"

\* A request that fails raises an exception, before which a test that has asked for
\* an activation a little later sleeps until it is over.  test_14 and test_15 take
\* any failure for the refusal they want.
Fail ==
    CASE Here \in Delayed \cup {"test_05"} -> Goto("recover")
      [] Here \in {"test_14", "test_15"} -> Conclude("PASS")
      [] OTHER -> Conclude("FAIL")

\* fireActivation and checkReject.
Submit ==
    /\ On(Range(Order), "post")
    /\ device' = After(noted.actions, Here \in Scheduled)
    /\ LET answer == Answer(noted.actions) IN
       \/ /\ UNCHANGED noted
          /\ CASE Here = "test_13" -> Conclude(IF answer = "400" THEN "PASS" ELSE "FAIL")
               [] Here \in Violations /\ answer = "done" -> Conclude("FAIL")
               [] Here \notin Violations /\ answer = "done" -> Goto(Continue(Here))
               [] OTHER -> Fail
       \/ /\ device.fault = "none" /\ noted.lost = "none"
          /\ noted' = [noted EXCEPT !.lost = Here] /\ Fail

Recover ==
    /\ On(Scheduled, "recover")
    /\ Conclude("FAIL") /\ UNCHANGED <<device, noted>>

\* check_delayed_activation: nothing has changed yet.
Unchanged ==
    /\ On(Delayed, "pending")
    /\ Check(device.map = noted.before, "assert") /\ UNCHANGED <<device, noted>>

\* assertActionsCompleted, after the sleep if the activation was scheduled.
Completed ==
    /\ On({"test_02"} \cup Delayed, "assert")
    /\ Conclude(IF \A c \in DOMAIN noted.actions : device.map[c] = noted.actions[c]
                THEN "PASS" ELSE "FAIL")
    /\ UNCHANGED <<device, noted>>

\* checkLock
CheckLock ==
    /\ On({"test_06"}, "lock")
    /\ Check(Locked(noted.actions), "delete")
    /\ device' = After(noted.actions, TRUE) /\ UNCHANGED noted

\* delete, and the activation is no longer found.
Delete ==
    /\ On({"test_05", "test_06"}, "delete")
    /\ device' = IF device.fault = "undeleted" THEN device ELSE [device EXCEPT !.pending = NoActions]
    /\ Conclude(IF device'.pending = NoActions THEN "PASS" ELSE "FAIL")
    /\ UNCHANGED noted

Tests == SetUp \/ Prepare \/ Submit \/ Recover \/ Unchanged \/ Completed \/ CheckLock \/ Delete

\* The sleeps of the suite are long enough for a device that activates in time.
Due == at.step \in {"assert", "recover"} /\ device.pending # NoActions

Next == Fire \/ ((Due => device.fault \in {"never", "undeleted"}) /\ Tests)

Spec == Init /\ [][Next]_suiteVars

-----------------------------------------------------------------------------
(* What the verdicts are worth.                                             *)

\* A Channel Mapping API that follows IS-08 passes, whatever its routes were, and an
\* answer that gets lost fails no test but its own: the tests that schedule sleep
\* until it cannot do harm.  test_06 does not: its activation is left behind.  And
\* test_14 fails a device that carries out an activation of nothing, if it has an
\* Input that keeps its order and none whose order could be tried.
ConformingMappingPasses ==
    device.fault = "none" =>
        \A t \in DOMAIN verdict :
            verdict[t] = "FAIL" => noted.lost \in {t, "test_06"} \/ (t = "test_14" /\ Crossed = NoActions)

\* A run of the whole suite fails every mistake.
MappingMistakesAreFound ==
    /\ Ended /\ \A t \in DOMAIN verdict : verdict[t] # "none"
    /\ device.fault # "none"
    => \E t \in DOMAIN verdict : verdict[t] = "FAIL"

\* No activation is left pending.
NoActivationIsLeft ==
    Ended /\ device.fault = "none" /\ noted.lost # "test_06" => device.pending = NoActions
=============================================================================
