---------------------------- MODULE MonitorTests ----------------------------
(***************************************************************************)
(* The suites of status monitors (nmostesting/suites/BCP008Test.py and its *)
(* two forms for Receivers and Senders): a resource is activated through   *)
(* IS-05 while the notifications of its monitor come in over IS-12.        *)
(*                                                                         *)
(* One long check of every monitor fills a table of findings that most     *)
(* tests only look up.  Time is counted in tolerances (0.2 s); the delay   *)
(* and the sleeps are scaled down, their order kept.  The statuses are one *)
(* domain status and the overall status made of it.                        *)
(***************************************************************************)
EXTENDS Suite

CONSTANTS
    Monitors,  \* the monitors, in order
    Latency,   \* how long at most a notification is on its way, in tolerances
    Delay      \* statusReportingDelay

MonitorTestsAssumption ==
    Latency \in Nat /\ Delay \in Nat \ {0} /\ Monitors \in Seq(Range(Monitors))

Faults == {"none", "socket", "delay", "sync", "method", "touchpoint", "silent", "early", "unclean",
           "stuck", "overall", "invalid", "refuses", "noreset", "noauto"}
Statuses == {"inactive", "healthy", "unhealthy", "unknown"}
Topics == {"touchpoint", "activation", "unhealthy", "counted", "reset", "auto", "overall", "values",
           "deactivation"}

\* What the suite sets of a monitor: statusReportingDelay and autoResetCounters.
Settings == Range(Monitors) \X {"delay", "auto"}

Notes == [p : {"connection", "overall", "counter"}, v : Statuses]

TypeOK ==
    /\ device.status \in [Range(Monitors) -> Statuses]
    /\ device.overall \in [Range(Monitors) -> Statuses]
    /\ device.set \subseteq Settings
    /\ \A n \in DOMAIN device.wire : Range(device.wire[n].notes) \subseteq Notes
    /\ noted.meta \in [Topics -> SUBSET {"checked", "error", "manual"}]
    /\ \A t \in DOMAIN verdict : verdict[t] \in Verdict

-----------------------------------------------------------------------------
(* The monitor.                                                             *)

\* Changes of the properties, sent in one message or each in its own.
Send(d, notes) ==
    [d EXCEPT !.wire = @ \o IF d.apart THEN [n \in DOMAIN notes |-> [notes |-> <<notes[n]>>, age |-> 0]]
                            ELSE <<[notes |-> notes, age |-> 0]>>]

Overall(d, status) == IF d.fault = "overall" /\ status # "inactive" THEN "inactive" ELSE status

\* Transitions to a less healthy status are counted.
Unhealthy == IF device.fault = "invalid" THEN "unknown" ELSE "unhealthy"

Report(d, m, status) ==
    Send([d EXCEPT !.status[m] = status, !.overall[m] = Overall(d, status),
                   !.counter[m] = @ \/ status = Unhealthy],
         <<[p |-> "connection", v |-> status], [p |-> "overall", v |-> Overall(d, status)]>>
         \o IF status = Unhealthy THEN <<[p |-> "counter", v |-> status]>> ELSE <<>>)

\* A PATCH of the staged endpoint, to activate or to deactivate.
Activate(d, m) ==
    IF d.fault = "silent" THEN d
    ELSE LET reset == IF <<m, "auto">> \in d.set /\ d.fault # "noauto" THEN [d EXCEPT !.counter[m] = FALSE] ELSE d
         IN  [Report(reset, m, "healthy") EXCEPT
                 !.timer = IF ~d.streamless THEN 0 ELSE IF d.fault = "early" THEN 1 ELSE Delay]

Deactivate(d, m) ==
    IF d.fault = "stuck" \/ d.status[m] = "inactive" THEN d
    ELSE [Report(IF d.fault = "unclean" THEN Report(d, m, "unhealthy") ELSE d, m, "inactive")
             EXCEPT !.timer = 0]

\* A property of a monitor is set.
Set(d, settings) == [d EXCEPT !.set = @ \cup settings]

-----------------------------------------------------------------------------
(* The suite.                                                               *)

Order == <<"test_01", "test_02", "test_03", "test_04", "test_05", "test_06", "test_07", "test_08",
           "test_09", "test_10", "test_11", "test_12", "test_13", "test_14">>

\* What each test looks up.
Lookup == [test_02 |-> "activation", test_03 |-> "unhealthy", test_05 |-> "counted",
           test_06 |-> "reset", test_07 |-> "auto", test_08 |-> "overall", test_09 |-> "values",
           test_13 |-> "deactivation", test_14 |-> "touchpoint"]
ByHand == {"unhealthy", "counted", "reset", "auto"}

\* How long the suite sleeps in each step.
Sleeps == [quiet |-> 2, watch |-> Delay + 2, settle |-> 2, brief |-> 2, cut |-> 2,
           auto |-> Delay + 1, rest |-> 2, again |-> 1, last |-> 2]
Asleep == ~Ended /\ at.step \in DOMAIN Sleeps /\ at.tries < Sleeps[at.step]
Awake(step) == ~Ended /\ at.step = step /\ at.tries = Sleeps[step]

\* The notifications come in, and time goes by while the suite sleeps.  It is
\* counted from the last time the log was emptied.
Deliver ==
    /\ device.wire # <<>>
    /\ device' = [device EXCEPT !.wire = Tail(@)]
    /\ noted' = [noted EXCEPT !.inbox = @ \o [n \in DOMAIN Head(device.wire).notes |->
                    [p |-> Head(device.wire).notes[n].p, v |-> Head(device.wire).notes[n].v,
                     t |-> noted.now]]]
    /\ UNCHANGED <<at, verdict>>

Older(wire) == [n \in DOMAIN wire |-> [wire[n] EXCEPT !.age = @ + 1]]

Tick ==
    /\ Asleep
    /\ \A n \in DOMAIN device.wire : device.wire[n].age < Latency
    /\ LET d == [device EXCEPT !.wire = Older(@), !.timer = IF @ = 0 THEN 0 ELSE @ - 1]
       IN  device' = IF device.timer = 1 THEN Report(d, Subject, Unhealthy) ELSE d
    /\ noted' = [noted EXCEPT !.now = @ + 1]
    /\ Step(at.step, at.tries + 1)

Nothing == [t \in Topics |-> {}]

Init ==
    /\ \E plan \in Plans(Order) : at = Position(plan)
    /\ \E fault \in Faults, streamless, apart \in BOOLEAN, loses \in {"nothing", "one"},
          left \in [Range(Monitors) -> {"inactive", "unhealthy"}] :
         /\ fault # "none" => ~apart /\ \A m \in Range(Monitors) : left[m] = "inactive"
         /\ loses = "one" => fault = "none" /\ ~apart
         /\ device = [fault |-> fault, streamless |-> streamless, apart |-> apart, status |-> left,
                      overall |-> left, counter |-> [m \in Range(Monitors) |-> FALSE],
                      left |-> left, set |-> {}, loses |-> loses, timer |-> 0, wire |-> <<>>]
    /\ noted = [meta |-> Nothing, found |-> FALSE, now |-> 1, inbox |-> <<>>, log |-> <<>>,
                before |-> [connection |-> "inactive", overall |-> "inactive"]]
    /\ verdict = NoVerdicts(Order)

SetUp ==
    \/ /\ On({"set_up_tests"}, "begin")
       /\ IF device.fault = "socket" THEN Abort ELSE Conclude("PASS")
       /\ UNCHANGED <<device, noted>>
    \/ On({"tear_down_tests"}, "begin") /\ Conclude("PASS") /\ UNCHANGED <<device, noted>>

\* test_01 sets the delay of each monitor.
SetDelays ==
    /\ On({"test_01"}, "begin")
    /\ IF device.fault = "delay" THEN Conclude("FAIL") /\ UNCHANGED device
       ELSE Conclude("PASS") /\ device' = Set(device, Range(Monitors) \X {"delay"})
    /\ UNCHANGED noted

\* test_10 and test_12 ask each monitor; test_04 and test_11 are left to the user.
AskAll ==
    /\ \/ On({"test_10"}, "begin") /\ Conclude(CASE device.fault = "touchpoint" -> "UNCLEAR"
                                                 [] device.fault = "method" -> "FAIL"
                                                 [] OTHER -> "PASS")
       \/ On({"test_12"}, "begin") /\ Conclude(IF device.fault = "sync" THEN "FAIL" ELSE "PASS")
       \/ On({"test_04", "test_11"}, "begin") /\ Conclude("MANUAL")
    /\ UNCHANGED <<device, noted>>

\* What a test makes of its entry in the table.
Judge(n) ==
    LET seen == n.meta[Lookup[Head(at.plan)]]
    IN  CASE ~n.found -> "UNCLEAR"
          [] n.found /\ "error" \in seen -> "FAIL"
          [] n.found /\ seen = {} ->
                IF Lookup[Head(at.plan)] \in ByHand THEN "MANUAL" ELSE "UNCLEAR"
          [] OTHER -> IF "manual" \in seen THEN "MANUAL" ELSE "PASS"

Note(meta, topic, marks) == [meta EXCEPT ![topic] = @ \cup marks]

\* _check_monitor_status_changes, until it has once judged an activation.
Begin ==
    /\ On(DOMAIN Lookup, "begin")
    /\ IF "checked" \in noted.meta["activation"]
       THEN Conclude(Judge(noted)) /\ UNCHANGED noted
       ELSE IF device.fault = "touchpoint"
       THEN /\ noted' = [noted EXCEPT !.meta = Note(@, "touchpoint", {"error"})]
            /\ Conclude(Judge(noted'))
       ELSE /\ noted' = [noted EXCEPT !.meta = Note(@, "touchpoint", {"checked"}), !.found = TRUE]
            /\ Visit(Monitors)
    /\ UNCHANGED device

\* The end of a turn: the next monitor, or the verdict.
Onward(n) ==
    IF Len(at.todo) = 1 THEN Conclude(Judge(n))
    ELSE /\ at' = [at EXCEPT !.step = "visit", !.todo = Tail(@), !.tries = 0]
         /\ UNCHANGED verdict

\* A command over the websocket takes in the notifications that have come.
Drained(n) == [n EXCEPT !.log = @ \o n.inbox, !.inbox = <<>>]
Forgotten(n) == [n EXCEPT !.log = <<>>, !.inbox = <<>>, !.now = 1]

\* The monitor is subscribed to and its delay set; an active resource is deactivated.
Prepare ==
    /\ On(DOMAIN Lookup, "visit")
    /\ noted' = Drained(noted)
    /\ IF device.fault = "delay" THEN Conclude("FAIL") /\ UNCHANGED device
       ELSE /\ device' = Deactivate(Set(device, {<<Subject, "delay">>}), Subject)
            /\ Goto(IF device.overall[Subject] = "inactive" THEN "activate" ELSE "quiet")

\* The log is emptied, the statuses are read, and the resource is activated.
ActivateResource ==
    /\ \/ On(DOMAIN Lookup, "activate")
       \/ Awake("quiet") /\ at.plan # <<>>
    /\ noted' = [noted EXCEPT
                    !.log = [n \in DOMAIN noted.inbox |-> [noted.inbox[n] EXCEPT !.t = 0]],
                    !.inbox = <<>>, !.now = 1,
                    !.before = [connection |-> device.status[Subject], overall |-> device.overall[Subject]]]
    /\ device' = Activate(device, Subject)
    /\ Goto("watch")

\* _get_activation_time: when the first status that is not inactive came, or 0.
Active(log) == Select(log, {n \in Range(log) : n.p # "counter" /\ n.v # "inactive"})
ActivationTime(log) == IF Active(log) = <<>> THEN 0 ELSE Head(Active(log)).t

\* The notifications of a property; its status after them.
Of(log, p) == Select(log, {n \in Range(log) : n.p = p})
After(log, p) == IF Of(log, p) = <<>> THEN noted.before[p] ELSE Of(log, p)[Len(Of(log, p))].v

\* _check_statuses: whether the overall status goes with the other, and both are legal.
Mapped(log) == After(log, "overall") = After(log, "connection")
Legal(log) == "unknown" \notin {After(log, "overall"), After(log, "connection")}

\* The three stretches of notifications that are checked: before the activation,
\* within the delay, all.
Stretches(log) ==
    LET until(t) == Select(log, {n \in Range(log) : n.t < t})
    IN  {until(ActivationTime(log)), until(ActivationTime(log) + Delay), log}

\* _check_stream_status: the marks for the activation and for what came after it.
StreamMarks(meta, log) ==
    LET changes == Select(Of(log, "connection"), {n \in Range(log) : n.t >= ActivationTime(log)})
        early == Len(changes) > 1 /\ changes[2].v # "inactive"
                 /\ changes[2].t + 1 < ActivationTime(log) + Delay
    IN  IF changes = <<>> THEN Note(meta, "activation", {"error"})
        ELSE Note(Note(meta, "activation",
                       {"checked"} \cup IF changes[1].v # "healthy" \/ early THEN {"error"} ELSE {}),
                  "unhealthy", IF Len(changes) > 1 THEN {"checked"} ELSE {})

Findings ==
    LET n == Drained(noted)
        m1 == IF Active(n.log) = <<>> THEN Note(n.meta, "activation", {"error"}) ELSE n.meta
        m2 == Note(m1, "overall", {"checked"} \cup
                 IF \E s \in Stretches(n.log) : ~Mapped(s) THEN {"error"} ELSE {})
        m3 == Note(m2, "values", (IF \E s \in Stretches(n.log) : ~Legal(s) THEN {"error"} ELSE {})
                 \cup (IF \E s \in Stretches(n.log) : Legal(s) THEN {"checked"} ELSE {}))
        m4 == StreamMarks(m3, n.log)
    IN  [n EXCEPT !.meta = Note(m4, "counted", IF Of(n.log, "counter") # <<>> THEN {"checked"} ELSE {})]

Watched ==
    /\ Awake("watch")
    /\ noted' = Findings
    /\ device' = Deactivate(device, Subject)
    /\ Goto("settle")

\* _check_reset_counters_and_status_messages, then the next activation.
ResetMarks ==
    CASE ~device.counter[Subject] -> {}
      [] device.counter[Subject] /\ device.fault = "refuses" -> {"error"}
      [] device.counter[Subject] /\ device.fault = "noreset" -> {"checked", "manual"}
      [] OTHER -> {"checked"}
Cleared == [device EXCEPT !.counter[Subject] = @ /\ device.fault \in {"refuses", "noreset"}]
Reset(n) == [n EXCEPT !.meta = Note(@, "reset", ResetMarks), !.log = <<>>, !.inbox = <<>>, !.now = 1]

ResetCounters ==
    /\ Awake("settle")
    /\ noted' = Reset(noted)
    /\ device' = Activate(Cleared, Subject)
    /\ Goto("brief")

\* _check_deactivate_resource: deactivated before the delay is over.
DeactivateEarly ==
    /\ Awake("brief")
    /\ device' = Deactivate(device, Subject)
    /\ Goto("cut") /\ UNCHANGED noted

Conduct ==
    LET n == Drained(noted)
        since == Select(n.log, {x \in Range(n.log) : x.t >= ActivationTime(n.log)})
        clean == \A p \in {"connection", "overall"} :
                    Of(since, p) # <<>> /\ Of(since, p)[Len(Of(since, p))].v = "inactive"
        m == IF Active(n.log) = <<>> THEN Note(n.meta, "activation", {"error"}) ELSE n.meta
    IN  [n EXCEPT !.log = <<>>,  \* none is looked at from here on
                  !.meta = Note(m, "deactivation", {"checked"} \cup IF clean THEN {} ELSE {"error"})]

Deactivated ==
    /\ Awake("cut")
    /\ noted' = Conduct
    /\ device' = Activate(Set(device, {<<Subject, "auto">>}), Subject)
    /\ Goto("auto")

\* _check_auto_reset_counters_and_status_messages: activated twice.
AutoReset ==
    \/ /\ Awake("auto")
       /\ device' = Deactivate(device, Subject)
       /\ Goto("rest") /\ UNCHANGED noted
    \/ /\ Awake("rest")
       /\ noted' = Forgotten(noted)
       /\ IF device.counter[Subject]
          THEN device' = Activate(device, Subject) /\ Goto("again")
          ELSE UNCHANGED device /\ Onward(noted')
    \/ /\ Awake("last")
       /\ noted' = Forgotten(noted)
       /\ Onward(noted) /\ UNCHANGED device

AutoChecked ==
    [Forgotten(noted) EXCEPT !.meta = Note(@, "auto",
        {"checked"} \cup IF device.counter[Subject] THEN {"manual"} ELSE {})]

AutoResetChecked ==
    /\ Awake("again")
    /\ noted' = AutoChecked
    /\ device' = Deactivate(device, Subject)
    /\ Goto("last")

\* A request is lost on its way, or its answer: the exception ends the test as it is ...
Fails(d, n) == device' = [d EXCEPT !.loses = "lost"] /\ noted' = n /\ Conclude("FAIL")
Emptied(n) == [n EXCEPT !.log = <<>>, !.inbox = <<>>, !.now = 1]

RequestLost ==
    /\ device.loses = "one"
    /\ \/ /\ On({"test_01"}, "begin")
          /\ \E reached \in SUBSET Range(Monitors) : Fails(Set(device, reached \X {"delay"}), noted)
       \/ On({"test_10", "test_12"}, "begin") /\ Fails(device, noted)
       \/ /\ On(DOMAIN Lookup, "begin") /\ "checked" \notin noted.meta["activation"]
          /\ \E marks \in {{}, {"checked"}} :
                Fails(device, [noted EXCEPT !.meta = Note(@, "touchpoint", marks)])
       \/ /\ On(DOMAIN Lookup, "visit")
          /\ LET set == Set(device, {<<Subject, "delay">>})
             IN  \E d \in {device, set, Deactivate(set, Subject)} : Fails(d, Drained(noted))
       \/ /\ On(DOMAIN Lookup, "activate") \/ (Awake("quiet") /\ at.plan # <<>>)
          /\ \E d \in {device, Activate(device, Subject)} : Fails(d, Emptied(noted))
       \/ Awake("watch") /\ \E d \in {device, Deactivate(device, Subject)} : Fails(d, Findings)
       \/ /\ Awake("settle")
          /\ \/ \E d \in {device, Cleared} : Fails(d, noted)
             \/ \E d \in {Cleared, Activate(Cleared, Subject)} : Fails(d, Reset(noted))
       \/ Awake("brief") /\ \E d \in {device, Deactivate(device, Subject)} : Fails(d, noted)
       \/ Awake("again") /\ \E d \in {device, Deactivate(device, Subject)} : Fails(d, AutoChecked)

\* ... but in the check of automatic resets, where it is noted and the resource deactivated.
AutoLost ==
    /\ device.loses = "one"
    /\ LET set == Set(device, {<<Subject, "auto">>})
           Caught(d, n) ==
               /\ device' = [Deactivate(d, Subject) EXCEPT !.loses = "lost"]
               /\ noted' = [n EXCEPT !.meta = Note(@, "auto", {"error"})]
               /\ Goto("last")
       IN  \/ /\ Awake("cut")
              /\ \E d \in {device, set, Activate(set, Subject)} : Caught(d, Conduct)
           \/ /\ \E step \in {"auto", "again"} : Awake(step)
              /\ Caught(device, noted)
           \/ /\ Awake("rest")
              /\ \E d \in {device} \cup (IF device.counter[Subject] THEN {Activate(device, Subject)} ELSE {}) :
                    Caught(d, Forgotten(noted))

Next ==
    \/ Deliver \/ Tick \/ SetUp \/ SetDelays \/ AskAll \/ Begin \/ Prepare \/ ActivateResource \/ Watched
    \/ ResetCounters \/ DeactivateEarly \/ Deactivated \/ AutoReset \/ AutoResetChecked
    \/ RequestLost \/ AutoLost

Spec == Init /\ [][Next]_suiteVars

-----------------------------------------------------------------------------
(* What the verdicts are worth.                                             *)

\* The two notifications of a change do not come on both sides of the end of the delay.
Clear == ~device.apart \/ Latency = 0

\* A monitor that follows BCP-008 is not failed, whether its resource was active
\* before, whether a stream comes, and whichever tests run; a lost request costs one test.
ConformingMonitorPasses ==
    LET failed == {t \in DOMAIN verdict : verdict[t] = "FAIL"}
    IN  device.fault = "none" /\ Clear => Cardinality(failed) <= IF device.loses = "lost" THEN 1 ELSE 0

\* The test of each mistake, in a run of the whole suite, does not pass it.
TestOf == [delay |-> "test_01", silent |-> "test_02", early |-> "test_02", refuses |-> "test_06",
           noreset |-> "test_06", noauto |-> "test_07", overall |-> "test_08", invalid |-> "test_09",
           method |-> "test_10", sync |-> "test_12", stuck |-> "test_13", touchpoint |-> "test_14"]

MonitorMistakesAreFound ==
    /\ Ended /\ device.streamless /\ device.fault \in DOMAIN TestOf
    => verdict[TestOf[device.fault]] # "PASS"

\* The resources that were inactive and are not.
LeftActive == {m \in Range(Monitors) : device.left[m] = "inactive" /\ device.status[m] # "inactive"}

\* Between two tests no resource is active that was not when the suite began, but for one
\* that a lost request has left so.  Without it, every resource is inactive once one test has
\* been through all of them, those included that were active: nothing activates them again.
ResourcesAreReleased ==
    device.fault = "none" /\ ~Ended /\ at.step = "begin" =>
        /\ \A m, n \in LeftActive : m = n /\ device.loses = "lost"
        /\ noted.found /\ device.loses # "lost" =>
              \A m \in Range(Monitors) : device.status[m] = "inactive"
=============================================================================
