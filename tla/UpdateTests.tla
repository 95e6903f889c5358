---------------------------- MODULE UpdateTests ----------------------------
(***************************************************************************)
(* The suite of the interaction of IS-04 and IS-05                         *)
(* (nmostesting/suites/IS0502Test.py): what is activated at the Connection *)
(* API shows up at the Node API, in its own time.                          *)
(*                                                                         *)
(* The suite keeps what it has once read of either API, and reads it again *)
(* where it refreshes.  A version is seen only as whether it has changed   *)
(* since it was last read.                                                 *)
(***************************************************************************)
EXTENDS Suite

CONSTANTS
    Senders, Receivers,  \* the ports of the Connection API, in order
    Rtp                  \* those with an RTP transport

Port == Range(Senders) \cup Range(Receivers)
UpdateTestsAssumption ==
    /\ Senders \in Seq(Range(Senders)) /\ Receivers \in Seq(Range(Receivers))
    /\ Range(Senders) \cap Range(Receivers) = {}
    /\ Rtp \subseteq Port

Faults == {"none", "version", "caps", "active", "peer", "missing", "extra", "file", "flow", "staged"}

Shown == [on : BOOLEAN, peer : {"none", "nmos"}]

TypeOK ==
    /\ device \in [fault : Faults, pace : {"prompt", "slow"}, active : [Port -> Shown],
                   node : [Port -> Shown], stale : SUBSET Port, changed : SUBSET Port]
    /\ noted \in [is04 : SUBSET {"senders", "receivers"}, is05 : SUBSET {"senders", "receivers"},
                  node : [Port -> Shown], files : [Range(Senders) -> {"none", "right", "wrong"}]]
    /\ \A t \in DOMAIN verdict : verdict[t] \in Verdict

-----------------------------------------------------------------------------
(* The device, as the suite takes it to be.                                 *)

\* An activation, to be published by the Node API.
Activate(d, p, on, peer) ==
    [d EXCEPT !.active[p] = [on |-> on, peer |-> peer], !.stale = @ \cup {p}]

Publish(p) ==
    /\ p \in device.stale
    /\ device' = [device EXCEPT
                    !.node[p] = [on |-> IF device.fault = "active" THEN @.on ELSE device.active[p].on,
                                 peer |-> IF device.fault = "peer" THEN @.peer ELSE device.active[p].peer],
                    !.changed = IF device.fault = "version" THEN @ ELSE @ \cup {p},
                    !.stale = @ \ {p}]
    /\ UNCHANGED <<at, noted, verdict>>

\* What the transport file of a Sender is like: there is none if it is not enabled.
File(s) ==
    CASE ~device.active[s].on \/ s \notin Rtp -> "none"
      [] device.active[s].on /\ s \in Rtp /\ device.fault = "flow" -> "wrong"
      [] OTHER -> "right"

-----------------------------------------------------------------------------
(* The suite.                                                               *)

ListTest == <<"test_03", "test_04">>
VersionTest == <<"test_05", "test_06">>
FlowTest == <<"test_14", "test_15", "test_16", "test_17">>
\* Whether a test of subscriptions connects to an NMOS peer that is told of.
PeerTest == [test_07 |-> "nmos", test_08 |-> "none", test_09 |-> "none", test_10 |-> "nmos",
             test_11 |-> "none"]

Order == <<"test_03", "test_04", "test_05", "test_06", "test_07", "test_08", "test_09", "test_10",
           "test_11", "test_13", "test_14", "test_15", "test_16", "test_17", "test_18">>

Here == Head(at.plan)
Kind(t) == IF t \in {"test_03", "test_05", "test_07", "test_08", "test_18"} THEN "receivers" ELSE "senders"
Ports(kind) == IF kind = "senders" THEN Senders ELSE Receivers

Init ==
    /\ \E plan \in Plans(Order) : at = Position(plan)
    /\ \E fault \in Faults, pace \in {"prompt", "slow"}, left \in [Port -> Shown] :
         /\ fault # "none" => pace = "prompt" /\ left \in [Port -> {[on |-> TRUE, peer |-> "nmos"]}]
         /\ device = [fault |-> fault, pace |-> pace, active |-> left, node |-> left,
                      stale |-> {}, changed |-> {}]
         /\ noted = [is04 |-> {}, is05 |-> {}, node |-> left, files |-> [s \in Range(Senders) |-> "none"]]
    /\ verdict = NoVerdicts(Order)

SetUp == On({"set_up_tests", "tear_down_tests"}, "begin") /\ Conclude("PASS") /\ UNCHANGED <<device, noted>>

\* refresh_is04_resources
Refreshed(n, kind) ==
    [n EXCEPT !.is04 = @ \cup {kind},
              !.node = [p \in Port |-> IF p \in Range(Ports(kind)) THEN device.node[p] ELSE n.node[p]]]

\* get_is04_resources, get_is05_resources: what was read before is kept, with the
\* transport files of the Senders.
Known04(n, kind) == IF kind \in n.is04 THEN n ELSE Refreshed(n, kind)
Known05(n, kind) ==
    [n EXCEPT !.is05 = @ \cup {kind},
              !.files = IF kind = "senders" /\ kind \notin n.is05
                        THEN [s \in Range(Senders) |-> File(s)] ELSE @]

Found == device.fault # "missing"

\* check_is04_in_is05, check_is05_in_is04
CompareLists ==
    /\ On(Range(ListTest), "begin")
    /\ noted' = Known05(Known04(noted, Kind(Here)), Kind(Here))
    /\ Conclude(IF Found /\ device.fault # "extra" THEN "PASS" ELSE "FAIL")
    /\ UNCHANGED device

\* activate_check_version: one port after the other is activated and read again.
VersionChanges ==
    \/ /\ On(Range(VersionTest), "begin")
       /\ noted' = Known05(Refreshed(noted, Kind(Here)), Kind(Here))
       /\ device' = [device EXCEPT !.changed = @ \ Range(Ports(Kind(Here)))]
       /\ Visit(Ports(Kind(Here)))
    \/ /\ On(Range(VersionTest), "visit")
       /\ IF Found
          THEN /\ device' = Activate(device, Subject, device.active[Subject].on, device.active[Subject].peer)
               /\ Goto("read")
          ELSE Conclude("FAIL") /\ UNCHANGED device
       /\ UNCHANGED noted
    \/ /\ On(Range(VersionTest), "read")
       /\ IF Subject \in device.changed /\ (device.fault = "caps" => Kind(Here) = "senders")
          THEN Leave ELSE Conclude("FAIL")
       /\ UNCHANGED <<device, noted>>

\* On to the next port, or to what follows the last.
Another(next) ==
    IF Len(at.todo) = 1 THEN Goto(next)
    ELSE at' = [at EXCEPT !.todo = Tail(@)] /\ UNCHANGED verdict

\* Every port is found as it should be, by what was last read.
AllShow(ports, shown) == Found /\ \A p \in ports : noted'.node[p] = shown

\* activate_check_parked: all ports are disabled, then the Node API is read.
Park ==
    \/ /\ On(DOMAIN PeerTest, "begin")
       /\ noted' = Known05(Known04(noted, Kind(Here)), Kind(Here))
       /\ Visit(Ports(Kind(Here))) /\ UNCHANGED device
    \/ /\ On(DOMAIN PeerTest, "visit")
       /\ device' = Activate(device, Subject, FALSE, "none")
       /\ Another("parked") /\ UNCHANGED noted

ReadParked ==
    /\ On(DOMAIN PeerTest, "parked")
    /\ noted' = Refreshed(noted, Kind(Here))
    /\ IF AllShow(Range(Ports(Kind(Here))), [on |-> FALSE, peer |-> "none"])
       THEN at' = [at EXCEPT !.step = "subscribe", !.todo = Ports(Kind(Here))] /\ UNCHANGED verdict
       ELSE Conclude("FAIL")
    /\ UNCHANGED device

\* activate_check_subscribed: all RTP ports are enabled again, then it is read.
Subscribe ==
    \/ /\ On(DOMAIN PeerTest, "subscribe")
       /\ device' = IF Subject \in Rtp THEN Activate(device, Subject, TRUE, PeerTest[Here]) ELSE device
       /\ Another("subscribed") /\ UNCHANGED noted
    \/ /\ On(DOMAIN PeerTest, "subscribed")
       /\ noted' = Refreshed(noted, Kind(Here))
       /\ Conclude(IF AllShow(Range(Ports(Kind(Here))) \cap Rtp, [on |-> TRUE, peer |-> PeerTest[Here]])
                   THEN "PASS" ELSE "FAIL")
       /\ UNCHANGED device

RtpSenders == Range(Senders) \cap Rtp

\* test_13: the transport files of both APIs are read and compared.
CompareFiles ==
    /\ On({"test_13"}, "begin")
    /\ noted' = Known04(noted, "senders")
    /\ Conclude(CASE device.fault = "file" /\ \E s \in RtpSenders : File(s) # "none" -> "FAIL"
                  [] device.fault # "file" /\ \E s \in RtpSenders : File(s) = "none" -> "UNCLEAR"
                  [] OTHER -> "PASS")
    /\ UNCHANGED device

\* test_14 to test_17: the transport files are compared with the Flows, as they
\* were when the Senders were first asked for.
CompareFlows ==
    /\ On(Range(FlowTest), "begin")
    /\ noted' = Known05(Known04(noted, "senders"), "senders")
    /\ Conclude(CASE Senders = <<>> -> "UNCLEAR"
                  [] \E s \in RtpSenders : noted'.files[s] = "wrong" -> "FAIL"
                  [] OTHER -> IF \E s \in RtpSenders : noted'.files[s] = "none"
                              THEN "UNCLEAR" ELSE "PASS")
    /\ UNCHANGED device

\* test_18: Receivers stage what a transport file says.
StageFiles ==
    /\ On({"test_18"}, "begin")
    /\ noted' = Known04(noted, "receivers")
    /\ Conclude(CASE \A r \in Range(Receivers) : r \notin Rtp -> "UNCLEAR"
                  [] device.fault = "staged" /\ \E r \in Range(Receivers) : r \in Rtp -> "FAIL"
                  [] OTHER -> "PASS")
    /\ UNCHANGED device

Tests ==
    \/ SetUp \/ CompareLists \/ VersionChanges \/ Park \/ ReadParked \/ Subscribe
    \/ CompareFiles \/ CompareFlows \/ StageFiles

\* Before it reads the Node API again the suite waits once, for
\* API_PROCESSING_TIMEOUT; a prompt device has published by then.
Waited == at.step \in {"read", "parked", "subscribed"} /\ device.pace = "prompt"

Next ==
    \/ \E p \in Port : Publish(p)
    \/ (Waited => device.stale = {}) /\ Tests

Spec == Init /\ [][Next]_suiteVars

-----------------------------------------------------------------------------
(* What the verdicts are worth.                                             *)

\* No test fails a conforming, prompt device, whatever its ports were connected to
\* before and in whatever order the tests parked and subscribed them.
ConformingUpdatesPass ==
    device.fault = "none" /\ device.pace = "prompt"
    => \A t \in DOMAIN verdict : verdict[t] # "FAIL"

\* A run of the whole suite fails every mistake of a device whose Senders were
\* enabled beforehand.
UpdateMistakesAreFound ==
    /\ Ended /\ device.fault # "none"
    /\ \A t \in DOMAIN verdict : verdict[t] # "none"
    => \E t \in DOMAIN verdict : verdict[t] = "FAIL"
=============================================================================
