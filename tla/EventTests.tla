----------------------------- MODULE EventTests -----------------------------
(***************************************************************************)
(* The suite of event Senders (nmostesting/suites/IS0702Test.py) at work   *)
(* on a Node whose Sources send their states over WebSockets or MQTT.      *)
(*                                                                         *)
(* The times that matter are whole seconds, and so is the clock.  The      *)
(* shorter sleeps of the suite (0.2 s) may last for any part of a second.  *)
(* What a state message says of its Source is either right or wrong.       *)
(***************************************************************************)
EXTENDS Suite

CONSTANTS
    Sources,       \* Sources whose Senders are WebSockets
    Uris,          \* the connection_uri that a Sender may have
    MqttSources,   \* Sources whose Senders publish to a broker ...
    Statusless,    \* ... those among them without a connection_status_broker_topic
    Reply, Slack   \* what a Node takes at most to answer, and to close what is overdue

WS_HEARTBEAT_INTERVAL == 5
WS_TIMEOUT == 12
MessageTimeout == 2  \* WS_MESSAGE_TIMEOUT and MQTT_MESSAGE_TIMEOUT

\* A Node slower than that to close may forget heartbeats without being found out.
EventTestsAssumption ==
    /\ IsFiniteSet(Sources) /\ Sources # {} /\ Uris # {} /\ Statusless \subseteq MqttSources
    /\ Reply \in 0..(WS_HEARTBEAT_INTERVAL - 1)
    /\ Slack \in Nat /\ MessageTimeout + Slack < WS_HEARTBEAT_INTERVAL

Faults ==
    {"none", "parameters", "unlinked", "unlike", "inert", "refuses", "hasty", "deaf", "stamp",
     "forgetful", "lingering", "chatty", "mute", "once", "wrong",
     "offline", "dead", "unpublished", "unretained"}

Sockets == Uris \X {"silent", "beating"}
Closed == [open |-> FALSE, since |-> 0]
Messages == {"health", "wrong"} \cup Sources

TypeOK ==
    /\ device.fault \in Faults /\ device.uri \in [Sources -> Uris]
    /\ device.enabled \subseteq Sources \cup MqttSources
    /\ \A w \in Sockets : /\ device.socket[w].open \in BOOLEAN
                          /\ Range(device.out[w]) \cup Range(noted.inbox[w]) \subseteq Messages
    /\ noted.now \in 0..(WS_TIMEOUT + 2 * WS_HEARTBEAT_INTERVAL)
    /\ \A t \in DOMAIN verdict : verdict[t] \in Verdict

-----------------------------------------------------------------------------
(* The Node.                                                                *)

UsedUris == Range(device.uri)
SourcesOf(u) == {s \in Sources : device.uri[s] = u}
InUse == UsedUris \X (IF On({"test_04"}, at.step) THEN {"silent", "beating"} ELSE {"beating"})

Waiting == {w \in InUse : ~device.socket[w].open}

Open ==
    \E w \in Waiting :
        /\ On({"test_04", "test_05"}, "open") /\ device.fault # "refuses"
        /\ device' = [device EXCEPT !.socket[w] = [open |-> TRUE, since |-> noted.now],
                                    !.out[w] = IF device.fault = "chatty"
                                               THEN SomeOrder(SourcesOf(w[1])) ELSE <<>>]
        /\ UNCHANGED <<at, noted, verdict>>

\* A connection without a heartbeat for so long is closed.
Life == CASE device.fault = "hasty" -> WS_HEARTBEAT_INTERVAL + 2 [] OTHER -> WS_TIMEOUT
Expired(w) ==
    /\ device.socket[w].open /\ device.fault # "lingering"
    /\ noted.now >= device.socket[w].since + Life

Close ==
    \E w \in Sockets :
        /\ Expired(w)
        /\ device' = [device EXCEPT !.socket[w] = Closed, !.out[w] = <<>>]
        /\ UNCHANGED <<at, noted, verdict>>

Deliver ==
    \E w \in InUse :
        /\ device.out[w] # <<>>
        /\ device' = [device EXCEPT !.out[w] = Tail(@)]
        /\ noted' = [noted EXCEPT !.inbox[w] = Append(@, Head(device.out[w]))]
        /\ UNCHANGED <<at, verdict>>

\* A Source changes its state while it is subscribed to, once in a run.
Change ==
    /\ device.fault = "none" /\ ~device.changed
    /\ \E s \in Sources :
         /\ On({"test_05"}, "answer")
         /\ device' = [device EXCEPT !.changed = TRUE,
                                     !.out[<<device.uri[s], "beating">>] = Append(@, s)]
    /\ UNCHANGED <<at, noted, verdict>>

\* The Node publishes through the broker, its status as not active at first.
Publish ==
    \E s \in MqttSources :
        /\ On({"test_06"}, at.step) /\ at.step # "begin"
        /\ \/ /\ device.topic[s].status # "active" /\ s \notin Statusless
              /\ \E status \in {"inactive", "active"} \ {device.topic[s].status} :
                   /\ status = "active" => device.fault # "dead"
                   /\ device' = [device EXCEPT !.topic[s].status = status]
           \/ /\ ~device.topic[s].state /\ device.fault # "unpublished"
              /\ device' = [device EXCEPT !.topic[s].state = TRUE]
        /\ UNCHANGED <<at, noted, verdict>>

\* What the Node owes by now; the suite does not get to look any sooner.
Owes ==
    \/ On({"test_04", "test_05"}, "open")
       /\ noted.now >= MessageTimeout /\ Waiting # {} /\ device.fault # "refuses"
    \/ noted.now >= noted.asked + Reply /\ \E w \in InUse : device.out[w] # <<>>
    \/ \E w \in Sockets : Expired(w) /\ noted.now >= device.socket[w].since + Life + Slack
    \/ /\ On({"test_06"}, "status") /\ noted.now >= MessageTimeout /\ device.fault # "dead"
       /\ \E s \in MqttSources \ Statusless : device.topic[s].status # "active"
    \/ /\ On({"test_06"}, "state") /\ noted.now >= MessageTimeout /\ device.fault # "unpublished"
       /\ \E s \in MqttSources : ~device.topic[s].state

-----------------------------------------------------------------------------
(* The suite.                                                               *)

Order == <<"test_01", "test_02", "test_03", "test_04", "test_05", "test_06">>
Shows == [test_01 |-> "parameters", test_02 |-> "unlinked", test_03 |-> "unlike"]
Connecting == {"test_04", "test_05", "test_06"}

NoMessages == [w \in Sockets |-> <<>>]
AllClosed == [w \in Sockets |-> Closed]
Unpublished == [s \in MqttSources |-> [status |-> "nothing", state |-> FALSE]]
Afresh == [now |-> 0, asked |-> 0, run |-> 1, inbox |-> NoMessages, cut |-> FALSE]

Init ==
    /\ \E fault \in Faults, uri \in [Sources -> Uris],
          enabled \in SUBSET (Sources \cup MqttSources) :
         /\ fault # "none" => enabled = {}
         /\ device = [fault |-> fault, uri |-> uri, enabled |-> enabled, socket |-> AllClosed,
                      out |-> NoMessages, topic |-> Unpublished, changed |-> FALSE]
    /\ \E plan \in Plans(Order) : at = Position(plan)
    /\ noted = Afresh
    /\ verdict = NoVerdicts(Order)

SetUp == On({"set_up_tests", "tear_down_tests"}, "begin") /\ Conclude("PASS") /\ UNCHANGED <<device, noted>>

\* test_01 to test_03 compare what was read when the suite was set up.
Compare ==
    /\ On(DOMAIN Shows, "begin")
    /\ Conclude(IF device.fault = Shows[Head(at.plan)] THEN "FAIL" ELSE "PASS")
    /\ UNCHANGED <<device, noted>>

\* get_websocket_connection_sources and get_mqtt_broker_senders activate the Senders
\* that are not, and leave them so.  The connections of an earlier test are left to
\* the Node.
Gather ==
    LET concerned == IF On({"test_06"}, "begin") THEN MqttSources ELSE Sources IN
    /\ On(Connecting, "begin")
    /\ device' = IF device.fault = "inert" THEN device
                 ELSE [device EXCEPT !.enabled = @ \cup concerned, !.socket = AllClosed,
                                     !.out = NoMessages, !.topic = Unpublished]
    /\ noted' = [Afresh EXCEPT !.cut = noted.cut]
    /\ IF concerned = {} THEN Conclude("UNCLEAR") ELSE Check(concerned \subseteq device'.enabled, "open")

Sleep == noted' = [noted EXCEPT !.now = @ + 1] /\ UNCHANGED <<at, verdict, device>>

\* A loop that waits for something until a time, and one that wants it until then.
Await(done, until, conclusion) ==
    IF noted.now < until /\ ~done THEN Sleep ELSE conclusion
Hold(kept, until, conclusion) ==
    IF noted.now >= until THEN conclusion
    ELSE IF kept THEN Sleep ELSE Conclude("FAIL") /\ UNCHANGED <<device, noted>>

AllOpen(kinds) == \A u \in UsedUris, k \in kinds : device.socket[<<u, k>>].open
NoneOpen(kind) == \A u \in UsedUris : ~device.socket[<<u, kind>>].open

Connect ==
    /\ On({"test_04", "test_05"}, "open")
    /\ Await(Waiting = {}, MessageTimeout,
             Check(Waiting = {}, "stay") /\ UNCHANGED <<device, noted>>)

\* Until a heartbeat is due: test_04 wants the connections open, test_05 wants no
\* messages on them.
Stay ==
    \/ /\ On({"test_04"}, "stay")
       /\ Hold(AllOpen({"silent", "beating"}), WS_HEARTBEAT_INTERVAL,
               Goto("ask") /\ UNCHANGED <<device, noted>>)
    \/ /\ On({"test_05"}, "stay")
       /\ Hold(noted.inbox = NoMessages, WS_HEARTBEAT_INTERVAL,
               Goto("ask") /\ UNCHANGED <<device, noted>>)

\* The health command, and the subscription command of test_05 (send does nothing on
\* a connection that is closed).
HealthReply ==
    CASE device.fault = "deaf" -> <<>> [] device.fault = "stamp" -> <<"wrong">> [] OTHER -> <<"health">>
StateReply(u) ==
    LET sources == SomeOrder(SourcesOf(u))
    IN  IF ~On({"test_05"}, "ask") \/ (device.fault = "once" /\ noted.run = 2) THEN <<>>
        ELSE CASE device.fault = "mute" -> Tail(sources)
               [] device.fault = "wrong" -> Tail(sources) \o <<"wrong">>
               [] OTHER -> sources

Ask ==
    /\ On({"test_04", "test_05"}, "ask")
    /\ device' = [device EXCEPT
            !.out = [w \in Sockets |-> IF w[2] = "beating" /\ device.socket[w].open
                                       THEN @[w] \o HealthReply \o StateReply(w[1]) ELSE @[w]],
            !.socket = [w \in Sockets |->
                IF w[2] = "beating" /\ device.socket[w].open /\ device.fault # "forgetful"
                THEN [@[w] EXCEPT !.since = noted.now] ELSE @[w]]]
    /\ noted' = [noted EXCEPT !.asked = noted.now]
    /\ Goto("answer")

\* test_04 wants the health response alone.
Beat ==
    LET inbox(u) == noted.inbox[<<u, "beating">>] IN
    /\ On({"test_04"}, "answer")
    /\ Await(\A u \in UsedUris : Len(inbox(u)) >= 1, 2 * WS_HEARTBEAT_INTERVAL,
             /\ Check(\A u \in UsedUris : inbox(u) = <<"health">>, "idle")
             /\ noted' = [noted EXCEPT !.inbox = NoMessages] /\ UNCHANGED device)

\* Without heartbeats a connection lasts for a while, with one for longer.
Outlast ==
    \/ /\ On({"test_04"}, "idle")
       /\ Hold(AllOpen({"silent"}), WS_TIMEOUT - 1, Goto("over") /\ UNCHANGED <<device, noted>>)
    \/ /\ On({"test_04"}, "over")
       /\ Hold(AllOpen({"beating"}), WS_TIMEOUT + WS_HEARTBEAT_INTERVAL,
               Check(NoneOpen("silent"), "end") /\ UNCHANGED <<device, noted>>)
    \/ /\ On({"test_04"}, "end")
       /\ Await(NoneOpen("beating"), WS_TIMEOUT + 2 * WS_HEARTBEAT_INTERVAL,
                /\ Conclude(IF NoneOpen("beating") THEN "PASS" ELSE "FAIL")
                /\ UNCHANGED <<device, noted>>)

\* check_state_messages: the messages of each connection, health responses aside, are
\* states of the Sources, and there is one of every Source of all connections.
Complete(messages) == "wrong" \notin Range(messages) /\ Sources \subseteq Range(messages)

\* websocket_state_messages_test_run: two messages on each connection end the wait.
Receive ==
    LET inbox(u) == noted.inbox[<<u, "beating">>] IN
    /\ On({"test_05"}, "answer")
    /\ Await(\A u \in UsedUris : Len(inbox(u)) >= 2, (1 + noted.run) * WS_HEARTBEAT_INTERVAL,
             /\ IF \E u \in UsedUris : ~Complete(inbox(u)) THEN Conclude("FAIL")
                ELSE IF noted.run = 1 THEN Goto("ask") ELSE Conclude("PASS")
             /\ noted' = [noted EXCEPT !.inbox = NoMessages, !.run = 2,
                              !.cut = @ \/ \E u \in UsedUris : device.out[<<u, "beating">>] # <<>>]
             /\ UNCHANGED device)

\* test_06: the broker is reached, then each Sender shows that it is active, and then
\* its state.  The messages are retained.
Broker ==
    /\ On({"test_06"}, "open")
    /\ Check(device.fault # "offline", "status") /\ UNCHANGED <<device, noted>>

Status ==
    LET shown == {s \in MqttSources : device.topic[s].status # "nothing"} IN
    /\ On({"test_06"}, "status")
    /\ IF shown # {} /\ device.fault = "unretained" THEN Conclude("FAIL") /\ UNCHANGED <<device, noted>>
       ELSE Await(\A s \in MqttSources \ Statusless : device.topic[s].status = "active", MessageTimeout,
                  /\ Check(\A s \in MqttSources \ Statusless : device.topic[s].status = "active", "state")
                  /\ noted' = [noted EXCEPT !.now = 0] /\ UNCHANGED device)

State ==
    LET published == {s \in MqttSources : device.topic[s].state} IN
    /\ On({"test_06"}, "state")
    /\ IF published # {} /\ device.fault = "unretained" THEN Conclude("FAIL") /\ UNCHANGED <<device, noted>>
       ELSE Await(published = MqttSources, MessageTimeout,
                  /\ Conclude(IF published # MqttSources THEN "FAIL"
                              ELSE IF Statusless # {} THEN "WARNING" ELSE "PASS")
                  /\ UNCHANGED <<device, noted>>)

Tests ==
    \/ SetUp \/ Compare \/ Gather \/ Connect \/ Stay \/ Ask \/ Beat \/ Outlast \/ Receive
    \/ Broker \/ Status \/ State

Next == Open \/ Close \/ Deliver \/ Change \/ Publish \/ (~Owes /\ Tests)

Spec == Init /\ [][Next]_suiteVars

-----------------------------------------------------------------------------
(* What the verdicts are worth.                                             *)

\* A Node that keeps to the times of IS-07 passes, whatever its Senders were doing
\* before: a connection that beats outlives one that does not by just the interval.
\* test_05 alone may fail it, if two messages were there before all of the states,
\* or if its Sources are on several connections, for it wants all of them on each.
ConformingEventsPass ==
    device.fault = "none" =>
        \A t \in DOMAIN verdict : verdict[t] = "FAIL" =>
            t = "test_05" /\ (noted.cut \/ Cardinality(UsedUris) > 1)

\* A run of the whole suite fails every mistake.
EventMistakesAreFound ==
    /\ Ended /\ \A t \in DOMAIN verdict : verdict[t] # "none"
    /\ device.fault # "none"
    => \E t \in DOMAIN verdict : verdict[t] = "FAIL"
=============================================================================
