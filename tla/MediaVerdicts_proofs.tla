------------------------ MODULE MediaVerdicts_proofs ------------------------
(***************************************************************************)
(* What the verdicts of the suites of MediaSuites are worth: their states  *)
(* stay of their kind, and conforming devices are not failed.              *)
(***************************************************************************)
EXTENDS MediaSuites_proofs

-----------------------------------------------------------------------------
(* IS-04 and IS-05: what is activated shows up at the Node API.             *)

LEMMA UpdateRun ==
    /\ \A v : U!Conclude(v) <=> Conclude(v)
    /\ \A step : U!Goto(step) <=> Step(step, 0)
    /\ \A list : U!Visit(list) <=> Visit(list)
    /\ \A v : U!LeaveAs(v) <=> LeaveAs(v)
    /\ U!Leave <=> LeaveAs("PASS")
    /\ U!Ended <=> Ended
    /\ U!Subject = Subject
    /\ \A tests, step : U!On(tests, step) <=> On(tests, step)
<1>1. \A v : U!Conclude(v) <=> Conclude(v)
  BY DEF U!Conclude, Conclude, U!Position, Position
<1>2. \A step : U!Goto(step) <=> Step(step, 0)
  BY DEF U!Goto, U!Step, Step
<1>3. \A list : U!Visit(list) <=> Visit(list)
  BY <1>1 DEF U!Visit, Visit
<1>4. \A v : U!LeaveAs(v) <=> LeaveAs(v)
  BY <1>1 DEF U!LeaveAs, LeaveAs
<1>5. U!Leave <=> LeaveAs("PASS")
  BY <1>4 DEF U!Leave
<1>6. (U!Ended <=> Ended) /\ U!Subject = Subject
  BY DEF U!Ended, Ended, U!Subject, Subject
<1>7. \A tests, step : U!On(tests, step) <=> On(tests, step)
  BY <1>6 DEF U!On, On
<1> QED BY <1>1, <1>2, <1>3, <1>4, <1>5, <1>6, <1>7

UpdateDevice ==
    [fault : U!Faults, pace : {"prompt", "slow"}, active : [U!Port -> U!Shown], node : [U!Port -> U!Shown],
     stale : SUBSET U!Port, changed : SUBSET U!Port]
UpdateNotes ==
    [is04 : SUBSET {"senders", "receivers"}, is05 : SUBSET {"senders", "receivers"},
     node : [U!Port -> U!Shown], files : [U!Range(UpdatedSenders) -> {"none", "right", "wrong"}]]

UpdatedPorts(t) == U!Range(U!Ports(U!Kind(t)))

LEMMA UpdateLists ==
    ASSUME NEW t
    PROVE  /\ U!Ports(U!Kind(t)) \in Seq(UpdatedPorts(t)) /\ UpdatedPorts(t) \subseteq U!Port
           /\ U!Kind(t) \in {"senders", "receivers"}
           /\ U!Range(UpdatedSenders) \subseteq U!Port
BY MediaAssumption DEF U!UpdateTestsAssumption, UpdatedPorts, U!Ports, U!Kind, U!Port

\* What is left of a list when its first element is done with.
LEMMA FirstIsDone ==
    ASSUME NEW S, NEW list \in Seq(S), list # <<>>
    PROVE  /\ Head(list) \in S
           /\ Len(list) = 1 => \A x \in U!Range(list) : x = Head(list)
           /\ Len(list) # 1 => /\ Tail(list) \in Seq(S) /\ Tail(list) # <<>>
                               /\ \A x \in U!Range(list) : x = Head(list) \/ x \in U!Range(Tail(list))
<1>1. /\ Len(list) \in Nat \ {0} /\ DOMAIN list = 1..Len(list) /\ Head(list) = list[1] /\ Head(list) \in S
      /\ Tail(list) \in Seq(S) /\ Len(Tail(list)) = Len(list) - 1 /\ DOMAIN Tail(list) = 1..Len(Tail(list))
      /\ \A k \in 1..Len(Tail(list)) : Tail(list)[k] = list[k + 1]
  BY HeadTailProperties, EmptySeq
<1>2. ASSUME NEW k \in 1..Len(list) PROVE list[k] = Head(list) \/ list[k] \in U!Range(Tail(list))
  <2>1. CASE k = 1
    BY <1>1, <2>1
  <2>2. CASE k # 1
    <3>1. k - 1 \in DOMAIN Tail(list) /\ Tail(list)[k - 1] = list[k]
      BY <1>1, <2>2
    <3> QED BY <3>1 DEF U!Range
  <2> QED BY <2>1, <2>2
<1>3. Len(list) = 1 => \A x \in U!Range(list) : x = Head(list)
  BY <1>1 DEF U!Range
<1> QED BY <1>1, <1>2, <1>3, TailOfMore DEF U!Range

\* An activation.
Showing(d, p, shown) == [d EXCEPT !.active[p] = shown, !.stale = @ \cup {p}]

LEMMA ActivatingUpdates ==
    ASSUME NEW d \in UpdateDevice, NEW p \in U!Port, NEW shown \in U!Shown, NEW r, r = Showing(d, p, shown)
    PROVE  /\ r \in UpdateDevice /\ r.fault = d.fault /\ r.pace = d.pace
           /\ r.node = d.node /\ r.changed = d.changed /\ r.stale = d.stale \cup {p}
           /\ r.active[p] = shown /\ \A q \in U!Port : q # p => r.active[q] = d.active[q]
<1>1. PICK active : active = [d.active EXCEPT ![p] = shown]
  OBVIOUS
<1>2. active \in [U!Port -> U!Shown] /\ active[p] = shown /\ \A q \in U!Port : q # p => active[q] = d.active[q]
  BY <1>1 DEF UpdateDevice
<1>3. PICK stale : stale = d.stale \cup {p}
  OBVIOUS
<1>4. r = [d EXCEPT !.active = active, !.stale = stale]
  BY <1>1, <1>3 DEF Showing
<1>5. stale \in SUBSET U!Port
  BY <1>3 DEF UpdateDevice
<1>6. /\ r \in UpdateDevice /\ r.fault = d.fault /\ r.pace = d.pace
      /\ r.node = d.node /\ r.changed = d.changed /\ r.stale = stale /\ r.active = active
  BY <1>2, <1>4, <1>5 DEF UpdateDevice
<1> QED BY <1>2, <1>3, <1>6

\* What the Node API shows of it.
LEMMA PublishingUpdates ==
    ASSUME device \in UpdateDevice, NEW p \in U!Port, U!Publish(p)
    PROVE  /\ device' \in UpdateDevice /\ device'.fault = device.fault /\ device'.pace = device.pace
           /\ device'.active = device.active /\ device'.stale = device.stale \ {p}
           /\ device.fault = "none" => device'.node[p] = device.active[p] /\ device'.changed = device.changed \cup {p}
           /\ \A q \in U!Port : q # p => device'.node[q] = device.node[q]
<1> DEFINE on == IF device.fault = "active" THEN device.node[p].on ELSE device.active[p].on
           peer == IF device.fault = "peer" THEN device.node[p].peer ELSE device.active[p].peer
<1>1. PICK shown : shown = [on |-> on, peer |-> peer]
  OBVIOUS
<1>2. PICK node : node = [device.node EXCEPT ![p] = shown]
  OBVIOUS
<1>3. PICK changed : changed = IF device.fault = "version" THEN device.changed ELSE device.changed \cup {p}
  OBVIOUS
<1>4. device' = [device EXCEPT !.node = node, !.changed = changed, !.stale = device.stale \ {p}]
  BY <1>1, <1>2, <1>3 DEF U!Publish
<1>5. device.node[p] \in U!Shown /\ device.active[p] \in U!Shown
  BY DEF UpdateDevice
<1>6. shown \in U!Shown /\ (device.fault = "none" => shown = device.active[p])
  BY <1>1, <1>5 DEF U!Shown
<1>7. changed \in SUBSET U!Port /\ (device.fault = "none" => changed = device.changed \cup {p})
  BY <1>3 DEF UpdateDevice
<1>8. node \in [U!Port -> U!Shown] /\ node[p] = shown /\ \A q \in U!Port : q # p => node[q] = device.node[q]
  BY <1>2, <1>6 DEF UpdateDevice
<1> QED BY <1>4, <1>6, <1>7, <1>8 DEF UpdateDevice

NoWrongFiles(n) == \A s \in U!Range(UpdatedSenders) : n.files[s] # "wrong"

\* What the suite reads.
LEMMA ReadingUpdates ==
    ASSUME device \in UpdateDevice, NEW n \in UpdateNotes, NEW kind \in {"senders", "receivers"}
    PROVE  /\ U!Refreshed(n, kind) \in UpdateNotes /\ U!Refreshed(n, kind).files = n.files
           /\ \A p \in U!Range(U!Ports(kind)) \cap U!Port : U!Refreshed(n, kind).node[p] = device.node[p]
           /\ U!Known04(n, kind) \in UpdateNotes /\ U!Known04(n, kind).files = n.files
           /\ U!Known05(n, kind) \in UpdateNotes
           /\ device.fault = "none" /\ NoWrongFiles(n) => NoWrongFiles(U!Known05(n, kind))
<1>1. PICK node : node = [p \in U!Port |-> IF p \in U!Range(U!Ports(kind)) THEN device.node[p] ELSE n.node[p]]
  OBVIOUS
<1>2. /\ node \in [U!Port -> U!Shown]
      /\ \A p \in U!Range(U!Ports(kind)) \cap U!Port : node[p] = device.node[p]
  BY <1>1 DEF UpdateDevice, UpdateNotes
<1>3. PICK is04, is05 : is04 = n.is04 \cup {kind} /\ is05 = n.is05 \cup {kind}
  OBVIOUS
<1>a. is04 \in SUBSET {"senders", "receivers"} /\ is05 \in SUBSET {"senders", "receivers"}
  BY <1>3 DEF UpdateNotes
<1>b. PICK r : r = U!Refreshed(n, kind)
  OBVIOUS
<1>c. r = [n EXCEPT !.is04 = is04, !.node = node]
  BY <1>1, <1>3, <1>b DEF U!Refreshed
<1>4. r \in UpdateNotes /\ r.files = n.files /\ r.node = node
  BY <1>2, <1>a, <1>c DEF UpdateNotes
<1>5. PICK all : all = [s \in U!Range(UpdatedSenders) |-> U!File(s)]
  OBVIOUS
<1>6. ASSUME NEW s PROVE U!File(s) \in {"none", "right", "wrong"} /\ (device.fault = "none" => U!File(s) # "wrong")
  BY DEF U!File
<1>7. all \in [U!Range(UpdatedSenders) -> {"none", "right", "wrong"}]
  BY <1>5, <1>6
<1>8. device.fault = "none" => \A s \in U!Range(UpdatedSenders) : all[s] # "wrong"
  BY <1>5, <1>6
<1>9. PICK files : files = IF kind = "senders" /\ kind \notin n.is05 THEN all ELSE n.files
  OBVIOUS
<1>d. PICK k : k = U!Known05(n, kind)
  OBVIOUS
<1>10. k = [n EXCEPT !.is05 = is05, !.files = files]
  BY <1>3, <1>5, <1>9, <1>d DEF U!Known05
<1>11. files \in [U!Range(UpdatedSenders) -> {"none", "right", "wrong"}]
  BY <1>7, <1>9 DEF UpdateNotes
<1>12. k \in UpdateNotes /\ k.files = files
  BY <1>10, <1>11, <1>a DEF UpdateNotes
<1>13. U!Known04(n, kind) \in UpdateNotes /\ U!Known04(n, kind).files = n.files
  BY <1>4, <1>b DEF U!Known04
<1>14. device.fault = "none" /\ NoWrongFiles(n) => NoWrongFiles(k)
  BY <1>8, <1>9, <1>12 DEF NoWrongFiles
<1> QED BY <1>2, <1>4, <1>12, <1>13, <1>14, <1>b, <1>d

\* What the Node API does not show yet is to come.
Faithful(d) == \A p \in U!Port : p \in d.stale \/ d.node[p] = d.active[p]

Parked == [on |-> FALSE, peer |-> "none"]
Peered(t) == [on |-> TRUE, peer |-> U!PeerTest[t]]

\* What the test at work has activated so far.
UpdateDuty(d, t, step, todo) ==
    /\ t \in U!Range(U!VersionTest) /\ step = "read" => Head(todo) \in d.stale \cup d.changed
    /\ t \in DOMAIN U!PeerTest =>
        /\ step = "visit" => \A p \in UpdatedPorts(t) : p \in U!Range(todo) \/ d.active[p] = Parked
        /\ step = "parked" => \A p \in UpdatedPorts(t) : d.active[p] = Parked
        /\ step = "subscribe" =>
               \A p \in UpdatedPorts(t) \cap Rtp : p \in U!Range(todo) \/ d.active[p] = Peered(t)
        /\ step = "subscribed" => \A p \in UpdatedPorts(t) \cap Rtp : d.active[p] = Peered(t)

UpdateTypes ==
    /\ IsRun /\ Judged /\ device \in UpdateDevice /\ noted \in UpdateNotes
    /\ at.step # "begin" => ~Ended /\ at.todo \in Seq(UpdatedPorts(Head(at.plan))) /\ at.todo # <<>>

UpdatePass ==
    /\ NoneFailed /\ Faithful(device) /\ NoWrongFiles(noted)
    /\ at.step # "begin" => UpdateDuty(device, Head(at.plan), at.step, at.todo)

PromptUpdates == device.fault = "none" /\ device.pace = "prompt"

\* What holds of the suite.
UpdatePromise == UpdateTypes /\ (PromptUpdates => UpdatePass)

UpdateNames == {"test_03", "test_04", "test_05", "test_06", "test_07", "test_08", "test_09", "test_10",
                "test_11", "test_13", "test_14", "test_15", "test_16", "test_17", "test_18"}

LEMMA UpdateTestNames ==
    /\ U!Range(U!VersionTest) = {"test_05", "test_06"}
    /\ DOMAIN U!PeerTest = {"test_07", "test_08", "test_09", "test_10", "test_11"}
    /\ \A t \in DOMAIN U!PeerTest : Peered(t) \in U!Shown
    /\ Parked \in U!Shown
<1>1. U!Range(U!VersionTest) = {"test_05", "test_06"}
  BY DEF U!Range, U!VersionTest
<1>2. DOMAIN U!PeerTest = {"test_07", "test_08", "test_09", "test_10", "test_11"}
  BY DEF U!PeerTest
<1>3. \A t \in DOMAIN U!PeerTest : U!PeerTest[t] \in {"none", "nmos"}
  BY DEF U!PeerTest
<1>4. \A t \in DOMAIN U!PeerTest : Peered(t) \in U!Shown
  BY <1>3 DEF Peered, U!Shown
<1>5. Parked \in U!Shown
  BY DEF Parked, U!Shown
<1> QED BY <1>1, <1>2, <1>4, <1>5

\* How a step keeps it: a test comes to its end ...
LEMMA UpdateEnds ==
    ASSUME UpdatePromise, ~Ended, device' \in UpdateDevice, noted' \in UpdateNotes,
           device'.fault = device.fault, device'.pace = device.pace,
           NEW v \in Verdict, Conclude(v),
           PromptUpdates => Faithful(device') /\ NoWrongFiles(noted') /\ v # "FAIL"
    PROVE  UpdatePromise'
<1>1. IsRun /\ Judged /\ (PromptUpdates => NoneFailed)
  BY DEF UpdatePromise, UpdateTypes, UpdatePass
<1>2. IsRun' /\ Judged' /\ at'.step = "begin" /\ (NoneFailed /\ v # "FAIL" => NoneFailed')
  BY <1>1, RunConcludes DEF Concluded
<1>3. UpdateTypes'
  BY <1>2 DEF UpdateTypes
<1>4. PromptUpdates' => PromptUpdates
  BY DEF PromptUpdates
<1>5. PromptUpdates' => UpdatePass'
  BY <1>1, <1>2, <1>4 DEF UpdatePass, Faithful, NoWrongFiles
<1> QED BY <1>3, <1>5 DEF UpdatePromise

\* ... or goes on ...
LEMMA UpdateGoesOn ==
    ASSUME UpdatePromise, ~Ended, device' \in UpdateDevice, noted' \in UpdateNotes,
           device'.fault = device.fault, device'.pace = device.pace,
           NEW step, NEW todo \in Seq(UpdatedPorts(Head(at.plan))), todo # <<>>, NEW tries,
           GoesOn(step, todo, tries),
           PromptUpdates => /\ Faithful(device') /\ NoWrongFiles(noted')
                            /\ UpdateDuty(device', Head(at.plan), step, todo)
    PROVE  UpdatePromise'
<1>1. IsRun /\ Judged /\ (PromptUpdates => NoneFailed)
  BY DEF UpdatePromise, UpdateTypes, UpdatePass
<1>2. /\ IsRun' /\ Judged' /\ at'.step = step /\ at'.todo = todo /\ at'.plan = at.plan
      /\ (Ended' <=> Ended) /\ (NoneFailed => NoneFailed')
  BY <1>1, RunGoesOn
<1>3. UpdateTypes'
  BY <1>2 DEF UpdateTypes, UpdatedPorts
<1>4. PromptUpdates' => PromptUpdates
  BY DEF PromptUpdates
<1>5. PromptUpdates' => UpdatePass'
  BY <1>1, <1>2, <1>4 DEF UpdatePass, Faithful, NoWrongFiles, UpdateDuty, UpdatedPorts
<1> QED BY <1>3, <1>5 DEF UpdatePromise

\* ... with its first port, if there is one ...
LEMMA UpdateVisits ==
    ASSUME UpdatePromise, ~Ended, device' \in UpdateDevice, noted' \in UpdateNotes,
           device'.fault = device.fault, device'.pace = device.pace,
           Visit(U!Ports(U!Kind(Head(at.plan)))),
           PromptUpdates => Faithful(device') /\ NoWrongFiles(noted')
    PROVE  UpdatePromise'
<1>1. CASE Conclude("UNCLEAR")
  <2>1. "UNCLEAR" \in Verdict /\ "UNCLEAR" # "FAIL"
    BY DEF Verdict
  <2> QED BY <1>1, <2>1, UpdateEnds
<1>2. PICK list : list = U!Ports(U!Kind(Head(at.plan)))
  OBVIOUS
<1>3. CASE list # <<>> /\ GoesOn("visit", list, 0)
  <2>1. list \in Seq(UpdatedPorts(Head(at.plan))) /\ U!Range(list) = UpdatedPorts(Head(at.plan))
    BY <1>2, UpdateLists DEF UpdatedPorts
  <2>2. UpdateDuty(device', Head(at.plan), "visit", list)
    BY <2>1 DEF UpdateDuty
  <2> QED BY <1>3, <2>1, <2>2, UpdateGoesOn
<1> QED BY <1>1, <1>2, <1>3, RunVisits DEF UpdatePromise, UpdateTypes

\* ... or with another port.
LEMMA UpdateAnother ==
    ASSUME IsRun, NEW S, at.todo \in Seq(S), at.todo # <<>>, NEW next, U!Another(next)
    PROVE  \/ Len(at.todo) = 1 /\ GoesOn(next, at.todo, 0)
           \/ Len(at.todo) # 1 /\ GoesOn(at.step, Tail(at.todo), at.tries)
<1>1. CASE Len(at.todo) = 1
  BY <1>1, UpdateRun, RunSteps DEF U!Another
<1>2. CASE Len(at.todo) # 1
  BY <1>2 DEF U!Another, GoesOn, IsRun
<1> QED BY <1>1, <1>2

LEMMA UpdateStep ==
    ASSUME UpdatePromise, [U!Next]_suiteVars
    PROVE  UpdatePromise'
<1> DEFINE here == Head(at.plan)
           ports == UpdatedPorts(here)
<1>0. /\ IsRun /\ device \in UpdateDevice /\ noted \in UpdateNotes
      /\ at.step # "begin" => at.todo \in Seq(ports) /\ at.todo # <<>> /\ Subject \in ports /\ Subject \in U!Port
      /\ ports \subseteq U!Port /\ U!Kind(here) \in {"senders", "receivers"} /\ U!Here = here
      /\ ports = U!Range(U!Ports(U!Kind(here)))
  <2>1. at.step # "begin" => at.todo \in Seq(ports) /\ at.todo # <<>>
    BY DEF UpdatePromise, UpdateTypes
  <2>2. at.step # "begin" => Subject \in ports
    BY <2>1, FirstIsDone DEF Subject
  <2> QED BY <2>1, <2>2, UpdateLists DEF UpdatePromise, UpdateTypes, U!Here, UpdatedPorts
<1>1. PromptUpdates => /\ device.fault = "none" /\ Faithful(device) /\ NoWrongFiles(noted)
                       /\ at.step # "begin" => UpdateDuty(device, here, at.step, at.todo)
  BY DEF UpdatePromise, UpdatePass, PromptUpdates
<1>2. {"PASS", "FAIL", "UNCLEAR"} \subseteq Verdict
  BY DEF Verdict
\* A test that reads, and comes to its end.
<1>3. ASSUME ~Ended, device' = device, noted' \in UpdateNotes, PromptUpdates => NoWrongFiles(noted'),
             NEW v \in Verdict, Conclude(v), PromptUpdates => v # "FAIL"
      PROVE  UpdatePromise'
  BY <1>0, <1>1, <1>3, UpdateEnds
<1>4. CASE UNCHANGED suiteVars
  BY <1>4 DEF suiteVars, UpdatePromise, UpdateTypes, UpdatePass, PromptUpdates, Faithful, NoWrongFiles, UpdateDuty,
              IsRun, IsPlan, Judged, NoneFailed, Ended, UpdatedPorts, UpdateNotes
<1>5. ASSUME NEW p \in U!Port, U!Publish(p) PROVE UpdatePromise'
  <2>1. /\ device' \in UpdateDevice /\ device'.fault = device.fault /\ device'.pace = device.pace
        /\ device'.active = device.active /\ device'.stale = device.stale \ {p}
        /\ device.fault = "none" => device'.node[p] = device.active[p] /\ device'.changed = device.changed \cup {p}
        /\ \A q \in U!Port : q # p => device'.node[q] = device.node[q]
        /\ UNCHANGED <<at, noted, verdict>>
    BY <1>0, <1>5, PublishingUpdates DEF U!Publish
  <2>2. UpdateTypes'
    BY <1>0, <2>1 DEF UpdatePromise, UpdateTypes, IsRun, IsPlan, Judged, Ended, UpdatedPorts, UpdateNotes
  <2>3. ASSUME PromptUpdates PROVE UpdatePass'
    <3>1. Faithful(device')
      BY <1>1, <2>1, <2>3 DEF Faithful
    <3>2. at.step # "begin" => UpdateDuty(device', here, at.step, at.todo)
      BY <1>1, <2>1, <2>3 DEF UpdateDuty
    <3>3. NoneFailed' /\ NoWrongFiles(noted')
      BY <1>1, <2>1, <2>3 DEF UpdatePromise, UpdatePass, NoneFailed
    <3> QED BY <2>1, <3>1, <3>2, <3>3 DEF UpdatePass, Faithful, NoWrongFiles, UpdateDuty, UpdatedPorts
  <2> QED BY <2>1, <2>2, <2>3 DEF UpdatePromise, PromptUpdates
<1>6. CASE U!SetUp
  <2>1. ~Ended /\ Conclude("PASS") /\ device' = device /\ noted' = noted
    BY <1>6, UpdateRun DEF U!SetUp, On
  <2> QED BY <1>0, <1>1, <1>2, <1>3, <2>1
<1>7. CASE U!CompareLists
  <2>1. /\ ~Ended /\ device' = device /\ noted' = U!Known05(U!Known04(noted, U!Kind(here)), U!Kind(here))
        /\ Conclude(IF U!Found /\ device.fault # "extra" THEN "PASS" ELSE "FAIL")
    BY <1>0, <1>7, UpdateRun DEF U!CompareLists, On
  <2>2. PICK n : n = U!Known04(noted, U!Kind(here))
    OBVIOUS
  <2>3. n \in UpdateNotes /\ n.files = noted.files
    BY <1>0, <2>2, ReadingUpdates
  <2>4. noted' \in UpdateNotes /\ (device.fault = "none" /\ NoWrongFiles(n) => NoWrongFiles(noted'))
    BY <1>0, <2>1, <2>2, <2>3, ReadingUpdates
  <2>5. PromptUpdates => U!Found /\ device.fault # "extra"
    BY <1>1 DEF U!Found
  <2> QED BY <1>1, <1>2, <1>3, <2>1, <2>3, <2>4, <2>5 DEF NoWrongFiles
<1>8. CASE (U!Waited => device.stale = {}) /\ U!VersionChanges
  <2>1. ~Ended /\ here \in U!Range(U!VersionTest) /\ here \notin DOMAIN U!PeerTest
    BY <1>8, UpdateRun, UpdateTestNames DEF U!VersionChanges, On
  <2>2. CASE at.step = "begin"
    <3>1. /\ noted' = U!Known05(U!Refreshed(noted, U!Kind(here)), U!Kind(here)) /\ Visit(U!Ports(U!Kind(here)))
          /\ device' = [device EXCEPT !.changed = @ \ ports]
      BY <1>0, <1>8, <2>2, UpdateRun DEF U!VersionChanges, On
    <3>2. PICK n : n = U!Refreshed(noted, U!Kind(here))
      OBVIOUS
    <3>3. n \in UpdateNotes /\ n.files = noted.files
      BY <1>0, <3>2, ReadingUpdates
    <3>4. noted' \in UpdateNotes /\ (device.fault = "none" /\ NoWrongFiles(n) => NoWrongFiles(noted'))
      BY <1>0, <3>1, <3>2, <3>3, ReadingUpdates
    <3>5. PICK changed : changed = device.changed \ ports
      OBVIOUS
    <3>6. changed \in SUBSET U!Port /\ device' = [device EXCEPT !.changed = changed]
      BY <1>0, <3>1, <3>5 DEF UpdateDevice
    <3>7. /\ device' \in UpdateDevice /\ device'.fault = device.fault /\ device'.pace = device.pace
          /\ device'.stale = device.stale /\ device'.node = device.node /\ device'.active = device.active
      BY <1>0, <3>6 DEF UpdateDevice
    <3>8. PromptUpdates => Faithful(device') /\ NoWrongFiles(noted')
      BY <1>1, <3>3, <3>4, <3>7 DEF Faithful, NoWrongFiles
    <3> QED BY <2>1, <3>1, <3>4, <3>7, <3>8, UpdateVisits
  <2>3. CASE at.step = "visit" /\ U!Found
    <3>1. PICK shown : shown = [on |-> device.active[Subject].on, peer |-> device.active[Subject].peer]
      OBVIOUS
    <3>2. shown \in U!Shown
      <4>1. device.active[Subject] \in U!Shown
        BY <1>0, <2>3 DEF UpdateDevice
      <4> QED BY <3>1, <4>1 DEF U!Shown
    <3>3. device' = Showing(device, Subject, shown) /\ Step("read", 0) /\ noted' = noted
      BY <1>8, <2>3, <3>1, UpdateRun DEF U!VersionChanges, On, U!Activate, Showing
    <3>4. /\ device' \in UpdateDevice /\ device'.fault = device.fault /\ device'.pace = device.pace
          /\ device'.node = device.node /\ device'.stale = device.stale \cup {Subject}
          /\ \A q \in U!Port : q # Subject => device'.active[q] = device.active[q]
      BY <1>0, <2>3, <3>2, <3>3, ActivatingUpdates
    <3>5. PromptUpdates => Faithful(device')
      BY <1>1, <3>4 DEF Faithful
    <3>6. UpdateDuty(device', here, "read", at.todo)
      BY <2>1, <3>4 DEF UpdateDuty, Subject
    <3>7. GoesOn("read", at.todo, 0)
      BY <1>0, <3>3, RunSteps
    <3> QED BY <1>0, <1>1, <2>1, <2>3, <3>3, <3>4, <3>5, <3>6, <3>7, UpdateGoesOn
  <2>4. CASE at.step = "visit" /\ ~U!Found
    <3>1. Conclude("FAIL") /\ UNCHANGED <<device, noted>>
      BY <1>8, <2>4, UpdateRun DEF U!VersionChanges, On
    <3>2. ~PromptUpdates
      BY <2>4 DEF U!Found, PromptUpdates
    <3> QED BY <1>0, <1>2, <1>3, <2>1, <3>1, <3>2
  <2>5. CASE at.step = "read"
    <3>1. /\ UNCHANGED <<device, noted>>
          /\ IF Subject \in device.changed /\ (device.fault = "caps" => U!Kind(here) = "senders")
             THEN LeaveAs("PASS") ELSE Conclude("FAIL")
      BY <1>0, <1>8, <2>5, UpdateRun DEF U!VersionChanges, On
    <3>2. CASE Conclude("FAIL") /\ ~(Subject \in device.changed /\ (device.fault = "caps" => U!Kind(here) = "senders"))
      <4>1. PromptUpdates => device.stale = {}
        BY <1>8, <2>5 DEF U!Waited, PromptUpdates
      <4>2. ~PromptUpdates
        BY <1>1, <2>1, <2>5, <3>2, <4>1 DEF UpdateDuty, Subject
      <4> QED BY <1>0, <1>2, <1>3, <2>1, <3>1, <3>2, <4>2
    <3>3. CASE LeaveAs("PASS")
      <4>1. CASE Conclude("PASS")
        BY <1>0, <1>1, <1>2, <1>3, <2>1, <3>1, <4>1
      <4>2. CASE GoesOn("visit", Tail(at.todo), 0) /\ Tail(at.todo) \in Seq(ports) /\ Tail(at.todo) # <<>>
        <5>1. UpdateDuty(device, here, "visit", Tail(at.todo))
          BY <2>1 DEF UpdateDuty
        <5> QED BY <1>0, <1>1, <2>1, <3>1, <4>2, <5>1, UpdateGoesOn
      <4> QED BY <1>0, <2>5, <3>3, <4>1, <4>2, RunLeaves
    <3> QED BY <3>1, <3>2, <3>3
  <2> QED BY <1>8, <2>2, <2>3, <2>4, <2>5, UpdateRun DEF U!VersionChanges, On
<1>9. CASE U!Park
  <2>1. ~Ended /\ here \in DOMAIN U!PeerTest /\ here \notin U!Range(U!VersionTest)
    BY <1>9, UpdateRun, UpdateTestNames DEF U!Park, On
  <2>2. CASE at.step = "begin"
    <3>0. ~U!On(DOMAIN U!PeerTest, "visit")
      BY <2>2 DEF U!On
    <3>1. /\ noted' = U!Known05(U!Known04(noted, U!Kind(here)), U!Kind(here)) /\ Visit(U!Ports(U!Kind(here)))
          /\ device' = device
      BY <1>0, <1>9, <3>0, UpdateRun DEF U!Park
    <3>2. PICK n : n = U!Known04(noted, U!Kind(here))
      OBVIOUS
    <3>3. n \in UpdateNotes /\ n.files = noted.files
      BY <1>0, <3>2, ReadingUpdates
    <3>4. noted' \in UpdateNotes /\ (device.fault = "none" /\ NoWrongFiles(n) => NoWrongFiles(noted'))
      BY <1>0, <3>1, <3>2, <3>3, ReadingUpdates
    <3>5. PromptUpdates => NoWrongFiles(noted')
      BY <1>1, <3>3, <3>4 DEF NoWrongFiles
    <3> QED BY <1>0, <1>1, <2>1, <3>1, <3>4, <3>5, UpdateVisits
  <2>3. CASE at.step = "visit"
    <3>1. PICK shown : shown = Parked
      OBVIOUS
    <3>2. device' = Showing(device, Subject, shown) /\ U!Another("parked") /\ noted' = noted
      BY <1>9, <2>3, <3>1, UpdateRun DEF U!Park, On, U!Activate, Showing, Parked
    <3>3. /\ device' \in UpdateDevice /\ device'.fault = device.fault /\ device'.pace = device.pace
          /\ device'.node = device.node /\ device'.stale = device.stale \cup {Subject}
          /\ device'.active[Subject] = Parked
          /\ \A q \in U!Port : q # Subject => device'.active[q] = device.active[q]
      <4>1. shown \in U!Shown /\ Subject \in U!Port /\ device \in UpdateDevice
        BY <1>0, <2>3, <3>1, UpdateTestNames
      <4>2. PICK r : r = Showing(device, Subject, shown)
        OBVIOUS
      <4>3. /\ r \in UpdateDevice /\ r.fault = device.fault /\ r.pace = device.pace
            /\ r.node = device.node /\ r.stale = device.stale \cup {Subject} /\ r.active[Subject] = shown
            /\ \A q \in U!Port : q # Subject => r.active[q] = device.active[q]
        BY <4>1, <4>2, ActivatingUpdates
      <4> QED BY <3>1, <3>2, <4>2, <4>3
    <3>4. PromptUpdates => Faithful(device')
      BY <1>1, <3>3 DEF Faithful
    <3>5. CASE Len(at.todo) = 1 /\ GoesOn("parked", at.todo, 0)
      <4>1. PromptUpdates => \A p \in ports : device'.active[p] = Parked
        BY <1>0, <1>1, <2>1, <2>3, <3>3, <3>5, FirstIsDone DEF UpdateDuty, Subject
      <4>2. PromptUpdates => UpdateDuty(device', here, "parked", at.todo)
        BY <2>1, <4>1 DEF UpdateDuty
      <4> QED BY <1>0, <1>1, <2>1, <2>3, <3>2, <3>3, <3>4, <3>5, <4>2, UpdateGoesOn
    <3>6. CASE Len(at.todo) # 1 /\ GoesOn("visit", Tail(at.todo), at.tries)
      <4>1. /\ Tail(at.todo) \in Seq(ports) /\ Tail(at.todo) # <<>>
            /\ \A x \in U!Range(at.todo) : x = Subject \/ x \in U!Range(Tail(at.todo))
        BY <1>0, <2>3, <3>6, FirstIsDone DEF Subject
      <4>2. PromptUpdates => \A p \in ports : p \in U!Range(Tail(at.todo)) \/ device'.active[p] = Parked
        BY <1>0, <1>1, <2>1, <2>3, <3>3, <4>1 DEF UpdateDuty
      <4>3. PromptUpdates => UpdateDuty(device', here, "visit", Tail(at.todo))
        BY <2>1, <4>2 DEF UpdateDuty
      <4> QED BY <1>0, <1>1, <2>1, <3>2, <3>3, <3>4, <3>6, <4>1, <4>3, UpdateGoesOn
    <3> QED BY <1>0, <2>3, <3>2, <3>5, <3>6, UpdateAnother
  <2> QED BY <1>9, <2>2, <2>3, UpdateRun DEF U!Park, On
<1>10. CASE (U!Waited => device.stale = {}) /\ U!ReadParked
  <2>1. /\ ~Ended /\ here \in DOMAIN U!PeerTest /\ here \notin U!Range(U!VersionTest) /\ at.step = "parked"
        /\ noted' = U!Refreshed(noted, U!Kind(here)) /\ device' = device
    BY <1>0, <1>10, UpdateRun, UpdateTestNames DEF U!ReadParked, On
  <2>2. /\ noted' \in UpdateNotes /\ noted'.files = noted.files
        /\ \A p \in ports : noted'.node[p] = device.node[p]
    BY <1>0, <2>1, ReadingUpdates
  <2>3. PromptUpdates => NoWrongFiles(noted')
    BY <1>1, <2>2 DEF NoWrongFiles
  <2>4. CASE U!AllShow(U!Range(U!Ports(U!Kind(U!Here))), [on |-> FALSE, peer |-> "none"])
    <3>1. PICK list : list = U!Ports(U!Kind(here))
      OBVIOUS
    <3>2. list \in Seq(ports) /\ U!Range(list) = ports
      BY <3>1, UpdateLists DEF UpdatedPorts
    <3>3. list # <<>>
      <4>1. ports # {}
        BY <1>0, <2>1
      <4> QED BY <3>2, <4>1 DEF U!Range
    <3>4. GoesOn("subscribe", list, at.tries)
      BY <1>0, <1>10, <2>4, <3>1 DEF U!ReadParked, GoesOn, IsRun
    <3>5. UpdateDuty(device, here, "subscribe", list)
      BY <2>1, <3>2 DEF UpdateDuty
    <3> QED BY <1>0, <1>1, <2>1, <2>2, <2>3, <3>2, <3>3, <3>4, <3>5, UpdateGoesOn
  <2>5. CASE ~U!AllShow(U!Range(U!Ports(U!Kind(U!Here))), [on |-> FALSE, peer |-> "none"])
    <3>1. Conclude("FAIL")
      BY <1>10, <2>5, UpdateRun DEF U!ReadParked
    <3>2. ASSUME PromptUpdates PROVE FALSE
      <4>1. device.stale = {}
        BY <1>10, <2>1, <3>2 DEF U!Waited, PromptUpdates
      <4>2. \A p \in ports : device.node[p] = Parked
        BY <1>0, <1>1, <2>1, <3>2, <4>1 DEF UpdateDuty, Faithful
      <4>3. U!Found
        BY <3>2 DEF U!Found, PromptUpdates
      <4> QED BY <1>0, <2>2, <2>5, <4>2, <4>3 DEF U!AllShow, Parked
    <3> QED BY <1>2, <1>3, <2>1, <2>2, <2>3, <3>1, <3>2
  <2> QED BY <2>4, <2>5
<1>11. CASE (U!Waited => device.stale = {}) /\ U!Subscribe
  <2>1. ~Ended /\ here \in DOMAIN U!PeerTest /\ here \notin U!Range(U!VersionTest)
    BY <1>11, UpdateRun, UpdateTestNames DEF U!Subscribe, On
  <2>2. CASE at.step = "subscribe"
    <3>1. PICK shown : shown = Peered(here)
      OBVIOUS
    <3>2. /\ device' = IF Subject \in Rtp THEN Showing(device, Subject, shown) ELSE device
          /\ U!Another("subscribed") /\ noted' = noted
      BY <1>0, <1>11, <2>2, <3>1, UpdateRun DEF U!Subscribe, On, U!Activate, Showing, Peered
    <3>3. /\ device' \in UpdateDevice /\ device'.fault = device.fault /\ device'.pace = device.pace
          /\ device'.node = device.node /\ device'.stale \in {device.stale, device.stale \cup {Subject}}
          /\ Subject \in Rtp => device'.active[Subject] = Peered(here)
          /\ \A q \in U!Port : q # Subject => device'.active[q] = device.active[q]
          /\ device' = device \/ Subject \in device'.stale
      <4>1. shown \in U!Shown /\ Subject \in U!Port /\ device \in UpdateDevice
        BY <1>0, <2>1, <2>2, <3>1, UpdateTestNames
      <4>2. PICK r : r = Showing(device, Subject, shown)
        OBVIOUS
      <4>3. /\ r \in UpdateDevice /\ r.fault = device.fault /\ r.pace = device.pace
            /\ r.node = device.node /\ r.stale = device.stale \cup {Subject} /\ r.active[Subject] = shown
            /\ \A q \in U!Port : q # Subject => r.active[q] = device.active[q]
        BY <4>1, <4>2, ActivatingUpdates
      <4>4. device' = r \/ (device' = device /\ Subject \notin Rtp)
        BY <3>2, <4>2
      <4> QED BY <3>1, <4>1, <4>3, <4>4
    <3>4. PromptUpdates => Faithful(device')
      BY <1>1, <3>3 DEF Faithful
    <3>5. CASE Len(at.todo) = 1 /\ GoesOn("subscribed", at.todo, 0)
      <4>1. PromptUpdates => \A p \in ports \cap Rtp : device'.active[p] = Peered(here)
        BY <1>0, <1>1, <2>1, <2>2, <3>3, <3>5, FirstIsDone DEF UpdateDuty, Subject
      <4>2. PromptUpdates => UpdateDuty(device', here, "subscribed", at.todo)
        BY <2>1, <4>1 DEF UpdateDuty
      <4> QED BY <1>0, <1>1, <2>1, <2>2, <3>2, <3>3, <3>4, <3>5, <4>2, UpdateGoesOn
    <3>6. CASE Len(at.todo) # 1 /\ GoesOn("subscribe", Tail(at.todo), at.tries)
      <4>1. /\ Tail(at.todo) \in Seq(ports) /\ Tail(at.todo) # <<>>
            /\ \A x \in U!Range(at.todo) : x = Subject \/ x \in U!Range(Tail(at.todo))
        BY <1>0, <2>2, <3>6, FirstIsDone DEF Subject
      <4>2. PromptUpdates => \A p \in ports \cap Rtp :
                                 p \in U!Range(Tail(at.todo)) \/ device'.active[p] = Peered(here)
        BY <1>0, <1>1, <2>1, <2>2, <3>3, <4>1 DEF UpdateDuty
      <4>3. PromptUpdates => UpdateDuty(device', here, "subscribe", Tail(at.todo))
        BY <2>1, <4>2 DEF UpdateDuty
      <4> QED BY <1>0, <1>1, <2>1, <3>2, <3>3, <3>4, <3>6, <4>1, <4>3, UpdateGoesOn
    <3> QED BY <1>0, <2>2, <3>2, <3>5, <3>6, UpdateAnother
  <2>3. CASE at.step = "subscribed"
    <3>1. ~U!On(DOMAIN U!PeerTest, "subscribe")
      BY <2>3 DEF U!On
    <3>2. /\ noted' = U!Refreshed(noted, U!Kind(here)) /\ device' = device
          /\ \/ Conclude("PASS")
             \/ Conclude("FAIL") /\ ~U!AllShow(ports \cap Rtp, [on |-> TRUE, peer |-> U!PeerTest[here]])
      BY <1>0, <1>11, <3>1, UpdateRun DEF U!Subscribe
    <3>3. /\ noted' \in UpdateNotes /\ noted'.files = noted.files
          /\ \A p \in ports : noted'.node[p] = device.node[p]
      BY <1>0, <3>2, ReadingUpdates
    <3>4. PromptUpdates => NoWrongFiles(noted')
      BY <1>1, <3>3 DEF NoWrongFiles
    <3>5. ASSUME PromptUpdates PROVE U!AllShow(ports \cap Rtp, [on |-> TRUE, peer |-> U!PeerTest[here]])
      <4>1. device.stale = {}
        BY <1>11, <2>3, <3>5 DEF U!Waited, PromptUpdates
      <4>2. \A p \in ports \cap Rtp : device.node[p] = Peered(here)
        BY <1>0, <1>1, <2>1, <2>3, <3>5, <4>1 DEF UpdateDuty, Faithful
      <4>3. U!Found
        BY <3>5 DEF U!Found, PromptUpdates
      <4> QED BY <3>3, <4>2, <4>3 DEF U!AllShow, Peered
    <3> QED BY <1>2, <1>3, <2>1, <3>2, <3>3, <3>4, <3>5
  <2> QED BY <1>11, <2>2, <2>3, UpdateRun DEF U!Subscribe, On
<1>12. CASE U!CompareFiles
  <2>1. ~Ended /\ device' = device /\ noted' = U!Known04(noted, "senders")
    BY <1>12, UpdateRun DEF U!CompareFiles, On
  <2>2. PICK v : /\ Conclude(v)
                 /\ v = CASE device.fault = "file" /\ \E s \in U!RtpSenders : U!File(s) # "none" -> "FAIL"
                          [] device.fault # "file" /\ \E s \in U!RtpSenders : U!File(s) = "none" -> "UNCLEAR"
                          [] OTHER -> "PASS"
    BY <1>12, UpdateRun DEF U!CompareFiles
  <2>3. v \in {"PASS", "FAIL", "UNCLEAR"} /\ (device.fault = "none" => v # "FAIL")
    BY <2>2
  <2>4. noted' \in UpdateNotes /\ noted'.files = noted.files
    BY <1>0, <2>1, ReadingUpdates
  <2> QED BY <1>1, <1>2, <1>3, <2>1, <2>2, <2>3, <2>4 DEF NoWrongFiles
<1>13. CASE U!CompareFlows
  <2>1. ~Ended /\ device' = device /\ noted' = U!Known05(U!Known04(noted, "senders"), "senders")
    BY <1>13, UpdateRun DEF U!CompareFlows, On
  <2>2. PICK n : n = U!Known04(noted, "senders")
    OBVIOUS
  <2>3. n \in UpdateNotes /\ n.files = noted.files
    BY <1>0, <2>2, ReadingUpdates
  <2>4. noted' \in UpdateNotes /\ (device.fault = "none" /\ NoWrongFiles(n) => NoWrongFiles(noted'))
    BY <1>0, <2>1, <2>2, <2>3, ReadingUpdates
  <2>5. PromptUpdates => NoWrongFiles(noted')
    BY <1>1, <2>3, <2>4 DEF NoWrongFiles
  <2>6. PICK v : /\ Conclude(v)
                 /\ v = CASE UpdatedSenders = <<>> -> "UNCLEAR"
                          [] \E s \in U!RtpSenders : noted'.files[s] = "wrong" -> "FAIL"
                          [] OTHER -> IF \E s \in U!RtpSenders : noted'.files[s] = "none"
                                      THEN "UNCLEAR" ELSE "PASS"
    BY <1>13, UpdateRun DEF U!CompareFlows
  <2>7. ASSUME UpdatedSenders = <<>> PROVE ~\E s \in U!RtpSenders : noted'.files[s] = "wrong"
    BY <2>7 DEF U!RtpSenders, U!Range
  <2>8. NoWrongFiles(noted') => ~\E s \in U!RtpSenders : noted'.files[s] = "wrong"
    BY DEF U!RtpSenders, NoWrongFiles
  <2>9. v \in {"PASS", "FAIL", "UNCLEAR"} /\ (NoWrongFiles(noted') => v # "FAIL")
    BY <2>6, <2>7, <2>8
  <2> QED BY <1>2, <1>3, <2>1, <2>4, <2>5, <2>6, <2>9
<1>14. CASE U!StageFiles
  <2>1. ~Ended /\ device' = device /\ noted' = U!Known04(noted, "receivers")
    BY <1>14, UpdateRun DEF U!StageFiles, On
  <2>2. PICK v : /\ Conclude(v)
                 /\ v = CASE \A r \in U!Range(UpdatedReceivers) : r \notin Rtp -> "UNCLEAR"
                          [] device.fault = "staged" /\ \E r \in U!Range(UpdatedReceivers) : r \in Rtp -> "FAIL"
                          [] OTHER -> "PASS"
    BY <1>14, UpdateRun DEF U!StageFiles
  <2>3. v \in {"PASS", "FAIL", "UNCLEAR"} /\ (device.fault = "none" => v # "FAIL")
    BY <2>2
  <2>4. noted' \in UpdateNotes /\ noted'.files = noted.files
    BY <1>0, <2>1, ReadingUpdates
  <2> QED BY <1>1, <1>2, <1>3, <2>1, <2>2, <2>3, <2>4 DEF NoWrongFiles
<1> QED BY <1>4, <1>5, <1>6, <1>7, <1>8, <1>9, <1>10, <1>11, <1>12, <1>13, <1>14 DEF U!Next, U!Tests

LEMMA UpdateBegins ==
    ASSUME U!Init
    PROVE  UpdatePromise
<1>1. PICK fault \in U!Faults, pace \in {"prompt", "slow"}, left \in [U!Port -> U!Shown] :
         /\ device = [fault |-> fault, pace |-> pace, active |-> left, node |-> left, stale |-> {}, changed |-> {}]
         /\ noted = [is04 |-> {}, is05 |-> {}, node |-> left, files |-> [s \in U!Range(UpdatedSenders) |-> "none"]]
  BY DEF U!Init
<1>2. PICK order : order = U!Order
  OBVIOUS
<1>3. order = [k \in 1..15 |-> order[k]] /\ \A k \in 1..15 : order[k] # "tear_down_tests"
  BY <1>2 DEF U!Order
<1>4. PICK plan \in Plans(order) : at = Position(plan)
  BY <1>2 DEF U!Init, U!Plans, Plans, U!Position, Position
<1>5. verdict = NoVerdicts(order)
  BY <1>2 DEF U!Init, U!NoVerdicts, NoVerdicts
<1>6. IsRun /\ at.step = "begin" /\ Judged /\ NoneFailed
  BY <1>3, <1>4, <1>5, RunBegins
<1>7. device \in UpdateDevice /\ Faithful(device)
  BY <1>1 DEF UpdateDevice, Faithful
<1>8. noted \in UpdateNotes /\ NoWrongFiles(noted)
  BY <1>1 DEF UpdateNotes, NoWrongFiles
<1> QED BY <1>6, <1>7, <1>8 DEF UpdatePromise, UpdateTypes, UpdatePass

LEMMA UpdateSpeaks ==
    ASSUME UpdatePromise
    PROVE  U!TypeOK /\ U!ConformingUpdatesPass
<1>1. U!TypeOK
  BY DEF UpdatePromise, UpdateTypes, UpdateDevice, UpdateNotes, U!TypeOK, Judged, U!Verdict, Verdict
<1>2. U!ConformingUpdatesPass
  BY DEF UpdatePromise, PromptUpdates, UpdatePass, NoneFailed, U!ConformingUpdatesPass
<1> QED BY <1>1, <1>2

-----------------------------------------------------------------------------
(* IS-04: the registry.                                                     *)

LEMMA RegistryRun ==
    /\ \A v : G!Conclude(v) <=> Conclude(v)
    /\ \A step, tries : G!Step(step, tries) <=> Step(step, tries)
    /\ \A step : G!Goto(step) <=> Step(step, 0)
    /\ G!Ended <=> Ended
    /\ G!Subject = Subject
    /\ \A tests, step : G!On(tests, step) <=> On(tests, step)
<1>1. \A v : G!Conclude(v) <=> Conclude(v)
  BY DEF G!Conclude, Conclude, G!Position, Position
<1>2. \A step, tries : G!Step(step, tries) <=> Step(step, tries)
  BY DEF G!Step, Step
<1>3. \A step : G!Goto(step) <=> Step(step, 0)
  BY <1>2 DEF G!Goto
<1>4. (G!Ended <=> Ended) /\ G!Subject = Subject
  BY DEF G!Ended, Ended, G!Subject, Subject
<1>5. \A tests, step : G!On(tests, step) <=> On(tests, step)
  BY <1>4 DEF G!On, On
<1> QED BY <1>1, <1>2, <1>3, <1>4, <1>5

RegistryDevice ==
    [fault : G!Faults, renews : BOOLEAN, res : [G!Type -> 0..3], age : 0..Collection,
     wire : [G!Type -> Seq(G!Event)], open : BOOLEAN]
RegistryNotes ==
    [data : [G!Type -> 1..3], old : [G!Type -> 1..3], got : [G!Type -> Seq(G!Event)]]

LEMMA RegistryConstants ==
    /\ Len(Types) \in Nat \ {0} /\ DOMAIN Types = 1..Len(Types) /\ Types \in Seq(G!Type)
    /\ \A k \in 1..Len(Types) : Types[k] \in G!Type
    /\ \A r \in G!Type : \E k \in 1..Len(Types) : r = Types[k]
    /\ \A j, k \in 1..Len(Types) : Types[j] = Types[k] => j = k
    /\ G!Node = Types[1] /\ G!Node \in G!Type
    /\ \A r \in G!Type : Parent[r] \in G!Type /\ Parent[Parent[r]] = G!Node
    /\ Parent[G!Node] = G!Node
    /\ \A k \in 2..Len(Types) : \E j \in 1..(k - 1) : Parent[Types[k]] = Types[j]
    /\ Collection \in Nat /\ WsTimeout \in Nat \ {0} /\ WsTimeout < Collection
<1>1. Types \in Seq(G!Type) /\ Types # <<>>
  BY MediaAssumption DEF G!RegistryTestsAssumption
<1>2. Len(Types) \in Nat \ {0} /\ DOMAIN Types = 1..Len(Types)
  BY <1>1, EmptySeq
<1>3. \A k \in 1..Len(Types) : Types[k] \in G!Type
  BY <1>1, <1>2
<1>4. \A r \in G!Type : \E k \in 1..Len(Types) : r = Types[k]
  BY <1>2 DEF G!Type, G!Range
<1>5. G!Node = Types[1] /\ G!Node \in G!Type
  BY <1>2, <1>3 DEF G!Node
<1>6. \A j, k \in 1..Len(Types) : Types[j] = Types[k] => j = k
  BY <1>2, MediaAssumption DEF G!RegistryTestsAssumption
<1>7. \A r \in G!Type : Parent[r] \in G!Type /\ Parent[Parent[r]] = G!Node
  BY MediaAssumption DEF G!RegistryTestsAssumption
<1>8. Parent[G!Node] = G!Node
  BY MediaAssumption DEF G!RegistryTestsAssumption
<1>9. \A k \in 2..Len(Types) : \E j \in 1..(k - 1) : Parent[Types[k]] = Types[j]
  BY MediaAssumption DEF G!RegistryTestsAssumption
<1>10. Collection \in Nat /\ WsTimeout \in 1..(Collection - 1)
  BY MediaAssumption DEF G!RegistryTestsAssumption
<1> QED BY <1>1, <1>2, <1>3, <1>4, <1>5, <1>6, <1>7, <1>8, <1>9, <1>10

\* The events of a resource that are on their way or have come.
Told(d, n, r, pre, post) ==
    [pre |-> pre, post |-> post] \in G!Range(d.wire[r]) \cup G!Range(n.got[r])

LEMMA SpoiltEvents ==
    ASSUME NEW fault, NEW pre \in 0..3, NEW post \in 0..3
    PROVE  /\ G!Spoilt(fault, pre, post) \in Seq(G!Event)
           /\ fault = "none" => G!Spoilt(fault, pre, post) = <<[pre |-> pre, post |-> post]>>
<1>1. \A a, b \in 0..3 : [pre |-> a, post |-> b] \in G!Event
  BY DEF G!Event
<1>2. \A a, b \in 0..3 : <<[pre |-> a, post |-> b]>> \in Seq(G!Event)
  BY <1>1
<1>3. <<>> \in Seq(G!Event) /\ 0 \in 0..3
  OBVIOUS
<1>4. G!Spoilt(fault, pre, post) \in
          {<<>>, <<[pre |-> 0, post |-> post]>>, <<[pre |-> post, post |-> post]>>, <<[pre |-> pre, post |-> pre]>>,
           <<[pre |-> pre, post |-> post]>>}
  BY DEF G!Spoilt
<1>5. fault = "none" => G!Spoilt(fault, pre, post) = <<[pre |-> pre, post |-> post]>>
  BY DEF G!Spoilt
<1> QED BY <1>2, <1>3, <1>4, <1>5

\* What is stored or removed, and told of.
LEMMA RegistryPuts ==
    ASSUME NEW d \in RegistryDevice, NEW changes, \A q \in DOMAIN changes : changes[q] \in 0..3,
           NEW r, r = G!Put(d, changes)
    PROVE  /\ r \in RegistryDevice /\ r.fault = d.fault /\ r.renews = d.renews /\ r.age = d.age /\ r.open = d.open
           /\ \A q \in G!Type : r.res[q] = IF q \in DOMAIN changes THEN changes[q] ELSE d.res[q]
           /\ \A q \in G!Type \ DOMAIN changes : r.wire[q] = d.wire[q]
           /\ d.fault = "none" /\ d.open => \A q \in G!Type \cap DOMAIN changes : changes[q] # d.res[q] =>
                  r.wire[q] = d.wire[q] \o <<[pre |-> d.res[q], post |-> changes[q]]>>
<1> DEFINE sent(q) == IF q \in DOMAIN changes /\ d.open /\ (changes[q] # d.res[q])
                      THEN d.wire[q] \o G!Spoilt(d.fault, d.res[q], changes[q]) ELSE d.wire[q]
<1>1. PICK res : res = [q \in G!Type |-> IF q \in DOMAIN changes THEN changes[q] ELSE d.res[q]]
  OBVIOUS
<1>2. PICK wire : wire = [q \in G!Type |-> sent(q)]
  OBVIOUS
<1>3. r = [d EXCEPT !.res = res, !.wire = wire]
  BY <1>1, <1>2 DEF G!Put
<1>4. res \in [G!Type -> 0..3]
  BY <1>1 DEF RegistryDevice
<1>5. ASSUME NEW q \in G!Type
      PROVE  /\ sent(q) \in Seq(G!Event)
             /\ q \notin DOMAIN changes => sent(q) = d.wire[q]
             /\ d.fault = "none" /\ d.open /\ q \in DOMAIN changes /\ changes[q] # d.res[q] =>
                    sent(q) = d.wire[q] \o <<[pre |-> d.res[q], post |-> changes[q]]>>
  <2>1. d.wire[q] \in Seq(G!Event) /\ d.res[q] \in 0..3
    BY DEF RegistryDevice
  <2>2. q \in DOMAIN changes => d.wire[q] \o G!Spoilt(d.fault, d.res[q], changes[q]) \in Seq(G!Event)
    BY <2>1, SpoiltEvents
  <2> QED BY <2>1, <2>2, SpoiltEvents
<1> HIDE DEF sent
<1>6. wire \in [G!Type -> Seq(G!Event)] /\ \A q \in G!Type : wire[q] = sent(q)
  BY <1>2, <1>5
<1>7. /\ r \in RegistryDevice /\ r.fault = d.fault /\ r.renews = d.renews /\ r.age = d.age /\ r.open = d.open
      /\ r.res = res /\ r.wire = wire
  BY <1>3, <1>4, <1>6 DEF RegistryDevice
<1> QED BY <1>1, <1>5, <1>6, <1>7

\* What is told once stays so.
LEMMA TellingMore ==
    ASSUME NEW s \in Seq(G!Event), NEW e \in G!Event
    PROVE  G!Range(s \o <<e>>) = G!Range(s) \cup {e}
<1>1. /\ Len(s) \in Nat /\ DOMAIN s = 1..Len(s) /\ DOMAIN (s \o <<e>>) = 1..(Len(s) + 1)
      /\ \A k \in 1..Len(s) : (s \o <<e>>)[k] = s[k]
      /\ (s \o <<e>>)[Len(s) + 1] = e
  OBVIOUS
<1> QED BY <1>1 DEF G!Range

LEMMA RegistryRemoves ==
    ASSUME NEW d \in RegistryDevice, NEW gone, NEW r, r = G!Unregister(d, gone)
    PROVE  /\ r \in RegistryDevice /\ r.fault = d.fault /\ r.renews = d.renews /\ r.age = d.age /\ r.open = d.open
           /\ \A q \in G!Type : r.res[q] = IF q \in gone THEN 0 ELSE d.res[q]
           /\ \A q \in G!Type : q \notin gone \/ d.res[q] = 0 => r.wire[q] = d.wire[q]
           /\ d.fault = "none" /\ d.open => \A q \in G!Type : q \in gone /\ d.res[q] > 0 =>
                  r.wire[q] = d.wire[q] \o <<[pre |-> d.res[q], post |-> 0]>>
<1>1. PICK all : all = {q \in gone : d.res[q] > 0}
  OBVIOUS
<1>2. PICK changes : changes = [q \in all |-> 0]
  OBVIOUS
<1>3. r = G!Put(d, changes) /\ DOMAIN changes = all /\ \A q \in DOMAIN changes : changes[q] = 0 /\ changes[q] \in 0..3
  BY <1>1, <1>2 DEF G!Unregister
<1>4. \A q \in G!Type : d.res[q] \in 0..3 /\ (q \in all <=> q \in gone /\ d.res[q] > 0)
  BY <1>1 DEF RegistryDevice
<1>5. /\ r \in RegistryDevice /\ r.fault = d.fault /\ r.renews = d.renews /\ r.age = d.age /\ r.open = d.open
      /\ \A q \in G!Type : r.res[q] = IF q \in DOMAIN changes THEN changes[q] ELSE d.res[q]
      /\ \A q \in G!Type \ DOMAIN changes : r.wire[q] = d.wire[q]
      /\ d.fault = "none" /\ d.open => \A q \in G!Type \cap DOMAIN changes : changes[q] # d.res[q] =>
             r.wire[q] = d.wire[q] \o <<[pre |-> d.res[q], post |-> changes[q]]>>
  BY <1>3, RegistryPuts
<1>6. \A q \in G!Type : r.res[q] = IF q \in gone THEN 0 ELSE d.res[q]
  BY <1>3, <1>4, <1>5
<1>7. \A q \in G!Type : q \notin gone \/ d.res[q] = 0 => r.wire[q] = d.wire[q]
  BY <1>3, <1>4, <1>5
<1>8. ASSUME d.fault = "none", d.open, NEW q \in G!Type, q \in gone, d.res[q] > 0
      PROVE  r.wire[q] = d.wire[q] \o <<[pre |-> d.res[q], post |-> 0]>>
  BY <1>3, <1>4, <1>5, <1>8
<1> QED BY <1>5, <1>6, <1>7, <1>8


\* The resources that are still to come.
Left(todo) == G!Range(todo)

\* The resources in the order in which they are posted, or the other way round.
Forward(todo) ==
    /\ todo \in Seq(G!Type) /\ Len(todo) \in 1..Len(Types)
    /\ \A i \in 1..Len(todo) : todo[i] = Types[Len(Types) - Len(todo) + i]
Backward(todo) ==
    /\ todo \in Seq(G!Type) /\ Len(todo) \in 1..Len(Types)
    /\ \A i \in 1..Len(todo) : todo[i] = Types[Len(todo) + 1 - i]

LEMMA TakingTypes ==
    ASSUME NEW todo, Forward(todo) \/ Backward(todo)
    PROVE  /\ Head(todo) \in G!Type /\ Head(todo) \in Left(todo) /\ Left(todo) \subseteq G!Type
           /\ Len(todo) = 1 => Left(todo) = {Head(todo)}
           /\ Len(todo) # 1 => /\ Left(Tail(todo)) = Left(todo) \ {Head(todo)}
                               /\ Forward(todo) => Forward(Tail(todo))
                               /\ Backward(todo) => Backward(Tail(todo))
<1>1. /\ todo \in Seq(G!Type) /\ Len(todo) \in 1..Len(Types) /\ todo # <<>> /\ DOMAIN todo = 1..Len(todo)
      /\ Len(Types) \in Nat /\ Len(todo) \in Nat /\ Head(todo) = todo[1]
  BY RegistryConstants, EmptySeq DEF Forward, Backward
<1>2. \A j, k \in 1..Len(Types) : Types[j] = Types[k] => j = k
  BY RegistryConstants
<1>3. \A j, k \in 1..Len(todo) : todo[j] = todo[k] => j = k
  <2>1. CASE Forward(todo)
    BY <1>1, <1>2, <2>1 DEF Forward
  <2>2. CASE Backward(todo)
    BY <1>1, <1>2, <2>2 DEF Backward
  <2> QED BY <2>1, <2>2
<1>4. Head(todo) \in G!Type /\ Head(todo) \in Left(todo) /\ Left(todo) \subseteq G!Type
  BY <1>1 DEF Left, G!Range
<1>5. Len(todo) = 1 => Left(todo) = {Head(todo)}
  BY <1>1 DEF Left, G!Range
<1>6. ASSUME Len(todo) # 1
      PROVE  /\ Left(Tail(todo)) = Left(todo) \ {Head(todo)}
             /\ Forward(todo) => Forward(Tail(todo))
             /\ Backward(todo) => Backward(Tail(todo))
  <2>1. PICK rest : rest = Tail(todo)
    OBVIOUS
  <2>2. /\ rest \in Seq(G!Type) /\ Len(rest) = Len(todo) - 1 /\ DOMAIN rest = 1..Len(rest)
        /\ \A k \in 1..Len(rest) : rest[k] = todo[k + 1]
    BY <1>1, <2>1, HeadTailProperties
  <2>3. Len(rest) \in 1..Len(Types)
    BY <1>1, <1>6, <2>2
  <2>4. Left(rest) \subseteq Left(todo) \ {Head(todo)}
    <3>1. ASSUME NEW k \in 1..Len(rest) PROVE rest[k] \in Left(todo) \ {Head(todo)}
      <4>1. k + 1 \in 1..Len(todo) /\ rest[k] = todo[k + 1]
        BY <1>1, <2>2
      <4>2. todo[k + 1] # todo[1]
        BY <1>1, <1>3, <4>1
      <4> QED BY <1>1, <4>1, <4>2 DEF Left, G!Range
    <3> QED BY <2>2, <3>1 DEF Left, G!Range
  <2>5. Left(todo) \ {Head(todo)} \subseteq Left(rest)
    <3>1. ASSUME NEW k \in 1..Len(todo), todo[k] # Head(todo) PROVE todo[k] \in Left(rest)
      <4>1. k - 1 \in 1..Len(rest) /\ rest[k - 1] = todo[k]
        BY <1>1, <2>2, <3>1
      <4> QED BY <2>2, <4>1 DEF Left, G!Range
    <3> QED BY <1>1, <3>1 DEF Left, G!Range
  <2>6. ASSUME Forward(todo) PROVE Forward(rest)
    <3>1. \A k \in 1..Len(todo) : todo[k] = Types[Len(Types) - Len(todo) + k]
      BY <2>6 DEF Forward
    <3>2. ASSUME NEW k \in 1..Len(rest) PROVE rest[k] = Types[Len(Types) - Len(rest) + k]
      <4>1. k + 1 \in 1..Len(todo) /\ Len(Types) - Len(todo) + (k + 1) = Len(Types) - Len(rest) + k
        BY <1>1, <2>2
      <4> QED BY <2>2, <3>1, <4>1
    <3> QED BY <2>2, <2>3, <3>2 DEF Forward
  <2>7. ASSUME Backward(todo) PROVE Backward(rest)
    <3>1. \A k \in 1..Len(todo) : todo[k] = Types[Len(todo) + 1 - k]
      BY <2>7 DEF Backward
    <3>2. ASSUME NEW k \in 1..Len(rest) PROVE rest[k] = Types[Len(rest) + 1 - k]
      <4>0. PICK m, n : m = Len(rest) /\ n = Len(todo)
        OBVIOUS
      <4>1. m \in Nat /\ n \in Nat /\ m = n - 1 /\ m = Len(rest) /\ n = Len(todo)
        BY <1>1, <2>2, <4>0
      <4>2. k \in 1..m
        BY <4>1
      <4>3. k + 1 \in 1..n /\ n + 1 - (k + 1) = m + 1 - k
        BY <4>1, <4>2
      <4> QED BY <2>2, <3>1, <4>1, <4>3
    <3> QED BY <2>2, <2>3, <3>2 DEF Backward
  <2> QED BY <2>1, <2>4, <2>5, <2>6, <2>7
<1> QED BY <1>4, <1>5, <1>6

\* What a resource belongs to has been posted before it, and what belongs to it deleted.
LEMMA TakingInOrder ==
    /\ Forward(Types) /\ Left(Types) = G!Type
    /\ \A todo : Forward(todo) =>
           /\ Head(todo) # G!Node => Parent[Head(todo)] \in G!Type \ Left(todo)
           /\ Head(todo) = G!Node => Left(todo) = G!Type
           /\ Head(todo) # G!Node => Left(todo) # G!Type
    /\ \A todo : Backward(todo) => G!Below(Head(todo)) \cap Left(todo) = {Head(todo)}
<1>1. /\ Len(Types) \in Nat \ {0} /\ DOMAIN Types = 1..Len(Types) /\ Types \in Seq(G!Type)
      /\ \A k \in 1..Len(Types) : Types[k] \in G!Type
      /\ \A r \in G!Type : \E k \in 1..Len(Types) : r = Types[k]
      /\ \A j, k \in 1..Len(Types) : Types[j] = Types[k] => j = k
      /\ G!Node = Types[1] /\ G!Node \in G!Type
  BY RegistryConstants
<1>2. Forward(Types)
  BY <1>1 DEF Forward
<1>3. Left(Types) = G!Type
  BY DEF Left, G!Type, G!Range
<1>4. ASSUME NEW todo, Forward(todo)
      PROVE  /\ Head(todo) # G!Node => Parent[Head(todo)] \in G!Type \ Left(todo)
             /\ Head(todo) = G!Node => Left(todo) = G!Type
             /\ Head(todo) # G!Node => Left(todo) # G!Type
  <2>1. /\ todo \in Seq(G!Type) /\ Len(todo) \in 1..Len(Types) /\ DOMAIN todo = 1..Len(todo)
        /\ \A i \in 1..Len(todo) : todo[i] = Types[Len(Types) - Len(todo) + i]
    BY <1>4 DEF Forward
  <2>2. PICK k \in 1..Len(Types) : k = Len(Types) - Len(todo) + 1
    BY <1>1, <2>1
  <2>3. Head(todo) = Types[k]
    <3>1. todo # <<>> /\ 1 \in 1..Len(todo) /\ Head(todo) = todo[1]
      BY <1>1, <2>1
    <3> QED BY <2>1, <2>2, <3>1
  <2>4. ASSUME NEW j \in 1..(k - 1) PROVE Types[j] \in G!Type \ Left(todo)
    <3>1. j \in 1..Len(Types)
      BY <1>1, <2>2
    <3>2. ASSUME NEW i \in 1..Len(todo) PROVE todo[i] # Types[j]
      <4>0. PICK m, n : m = Len(todo) /\ n = Len(Types)
        OBVIOUS
      <4>1. m \in Nat /\ n \in Nat /\ k = n - m + 1 /\ m \in 1..n /\ m = Len(todo) /\ n = Len(Types)
        BY <1>1, <2>1, <2>2, <4>0
      <4>2. j \in 1..(k - 1) /\ i \in 1..m
        BY <4>1
      <4>3. n - m + i \in 1..n /\ n - m + i # j
        BY <4>1, <4>2
      <4>4. todo[i] = Types[n - m + i]
        BY <2>1, <4>1
      <4> QED BY <1>1, <3>1, <4>1, <4>3, <4>4
    <3> QED BY <1>1, <2>1, <3>1, <3>2 DEF Left, G!Range
  <2>5. CASE k = 1
    <3>1. Len(todo) = Len(Types)
      <4>0. PICK m, n : m = Len(todo) /\ n = Len(Types)
        OBVIOUS
      <4>1. m \in Nat /\ n \in Nat /\ k = n - m + 1 /\ m = Len(todo) /\ n = Len(Types)
        BY <1>1, <2>1, <2>2, <4>0
      <4>2. m = n
        BY <2>5, <4>1
      <4> QED BY <4>1, <4>2
    <3>2. \A i \in 1..Len(Types) : Types[i] = todo[i]
      BY <1>1, <2>1, <3>1
    <3>3. G!Type \subseteq Left(todo)
      BY <1>1, <2>1, <3>1, <3>2 DEF Left, G!Range
    <3> QED BY <1>1, <1>4, <2>3, <2>5, <3>3, TakingTypes
  <2>6. CASE k # 1
    <3>1. k \in 2..Len(Types)
      BY <1>1, <2>2, <2>6
    <3>2. PICK j \in 1..(k - 1) : Parent[Types[k]] = Types[j]
      BY <3>1, RegistryConstants
    <3>3. Parent[Head(todo)] \in G!Type \ Left(todo)
      BY <2>3, <2>4, <3>2
    <3>4. Head(todo) # G!Node
      BY <1>1, <2>2, <2>3, <2>6
    <3> QED BY <3>3, <3>4
  <2> QED BY <2>5, <2>6
<1>5. ASSUME NEW todo, Backward(todo) PROVE G!Below(Head(todo)) \cap Left(todo) = {Head(todo)}
  <2>1. /\ todo \in Seq(G!Type) /\ Len(todo) \in 1..Len(Types) /\ DOMAIN todo = 1..Len(todo)
        /\ \A i \in 1..Len(todo) : todo[i] = Types[Len(todo) + 1 - i]
    BY <1>5 DEF Backward
  <2>2. Head(todo) = Types[Len(todo)]
    <3>1. todo # <<>> /\ 1 \in 1..Len(todo) /\ Head(todo) = todo[1] /\ Len(todo) + 1 - 1 = Len(todo)
      BY <1>1, <2>1
    <3> QED BY <2>1, <3>1
  <2>3. ASSUME NEW q \in Left(todo), q # Head(todo), Parent[q] = Head(todo) \/ Parent[Parent[q]] = Head(todo)
        PROVE  FALSE
    <3>1. PICK i \in 1..Len(todo) : q = todo[i]
      BY <2>1, <2>3 DEF Left, G!Range
    <3>2. PICK k \in 1..Len(Types) : k = Len(todo) + 1 - i
      BY <1>1, <2>1
    <3>3. q = Types[k] /\ k < Len(todo)
      BY <1>1, <2>1, <2>2, <2>3, <3>1, <3>2
    <3>4. Head(todo) # G!Node
      BY <1>1, <2>1, <2>2, <3>2, <3>3
    <3>5. q \in G!Type
      BY <1>1, <3>3
    <3>6. Parent[q] = Head(todo)
      BY <2>3, <3>4, <3>5, RegistryConstants
    <3>7. k \in 2..Len(Types)
      BY <1>1, <3>2, <3>3, <3>4, <3>6, RegistryConstants
    <3>8. PICK j \in 1..(k - 1) : Parent[Types[k]] = Types[j]
      BY <3>7, RegistryConstants
    <3>9. j = Len(todo)
      <4>1. j \in 1..Len(Types) /\ Len(todo) \in 1..Len(Types)
        BY <1>1, <2>1, <3>2
      <4> QED BY <1>1, <2>2, <3>3, <3>6, <3>8, <4>1
    <3> QED BY <3>2, <3>3, <3>8, <3>9, <2>1, <1>1
  <2>4. Head(todo) \in Left(todo) /\ Head(todo) \in G!Type
    BY <1>5, TakingTypes
  <2>5. Head(todo) \in G!Below(Head(todo))
    BY <2>4 DEF G!Below
  <2>6. \A q \in G!Below(Head(todo)) \cap Left(todo) : q = Head(todo)
    BY <2>3 DEF G!Below
  <2> QED BY <2>4, <2>5, <2>6
<1> QED BY <1>2, <1>3, <1>4, <1>5


\* The steps of the tests, and the resources that are to come in them.
RegistryVisit(t, step, todo) ==
    /\ \/ t = "test_27" /\ step \in {"post", "expire"}
       \/ t = "test_28" /\ step \in {"post", "remove"}
       \/ t = "test_31" /\ step \in {"clean", "post", "open", "sync", "update", "modified", "delete",
                                     "removed", "again", "added"}
    /\ step \in {"clean", "post", "update", "again"} => Forward(todo)
    /\ step = "delete" => Backward(todo)

\* The versions of the test data.
RegistryData(n, t, step, todo) ==
    t = "test_31" =>
        /\ step \in {"clean", "post", "open", "sync"} => \A r \in G!Type : n.data[r] = 1
        /\ step = "update" => \A r \in G!Type : n.data[r] = IF r \in Left(todo) THEN 1 ELSE 2
        /\ step \in {"modified", "delete", "removed"} => \A r \in G!Type : n.data[r] = 2
        /\ step = "again" => \A r \in G!Type : n.data[r] = IF r \in Left(todo) THEN 2 ELSE 3
        /\ step = "added" => \A r \in G!Type : n.data[r] = 3

\* What a conforming registry holds and has told of while test_31 is at work: what has come
\* of the resources that have been posted or deleted, and of those still to come.
Stands(d, todo, done, yet) ==
    \A r \in G!Type : d.res[r] = IF r \in Left(todo) THEN yet ELSE done
AllStand(d, version) == \A r \in G!Type : d.res[r] = version
AllTold(d, n, pre, post) == \A r \in G!Type : Told(d, n, r, pre, post)
DoneTold(d, n, todo, pre, post) == \A r \in G!Type \ Left(todo) : Told(d, n, r, pre, post)
NewlyAlive(d, todo) == d.age = 0 \/ Left(todo) = G!Type
\* The messages have come by the end of a sleep, in which the Node stays alive.
Waiting(d, tries) ==
    /\ d.open /\ d.age <= tries /\ tries <= WsTimeout
    /\ tries = WsTimeout => \A r \in G!Type : d.wire[r] = <<>>

RegistryDuty(d, n, t, step, todo, tries) ==
    /\ t # "test_31" /\ step = "post" => \A r \in G!Type \ Left(todo) : d.res[r] > 0
    /\ step = "expire" =>
           /\ AllStand(d, 0) \/ (d.age >= tries /\ d.age < Collection)
           /\ tries <= Collection + 1
    /\ step = "clean" => \A r \in G!Type \ Left(todo) : d.res[r] = 0
    /\ t = "test_31" /\ step = "post" => Stands(d, todo, 1, 0) /\ NewlyAlive(d, todo)
    /\ step = "open" => AllStand(d, 1) /\ d.age = 0
    /\ step = "sync" => AllStand(d, 1) /\ AllTold(d, n, 1, 1) /\ Waiting(d, tries)
    /\ step = "update" =>
           /\ Stands(d, todo, 2, 1) /\ DoneTold(d, n, todo, 1, 2) /\ d.open /\ d.age = 0
           /\ \A r \in G!Type : n.old[r] = 1
    /\ step = "modified" =>
           /\ AllStand(d, 2) /\ AllTold(d, n, 1, 2) /\ Waiting(d, tries)
           /\ \A r \in G!Type : n.old[r] = 1
    /\ step = "delete" =>
           Stands(d, todo, 0, 2) /\ DoneTold(d, n, todo, 2, 0) /\ d.open /\ d.age = 0
    /\ step = "removed" => AllStand(d, 0) /\ AllTold(d, n, 2, 0) /\ Waiting(d, tries)
    /\ step = "again" =>
           Stands(d, todo, 3, 0) /\ DoneTold(d, n, todo, 0, 3) /\ d.open /\ NewlyAlive(d, todo)
    /\ step = "added" => AllStand(d, 3) /\ AllTold(d, n, 0, 3) /\ Waiting(d, tries)

\* The Node is registered for less than the interval since it was last heard of.
NodeAlive(d) == d.res[G!Node] > 0 => d.age < Collection

RegistryTypes ==
    /\ IsRun /\ Judged /\ device \in RegistryDevice /\ noted \in RegistryNotes /\ at.tries \in Nat
    /\ at.step # "begin" => /\ ~Ended /\ RegistryVisit(Head(at.plan), at.step, at.todo)
                            /\ RegistryData(noted, Head(at.plan), at.step, at.todo)

RegistryPass ==
    /\ NoneFailed /\ NodeAlive(device)
    /\ at.step # "begin" => RegistryDuty(device, noted, Head(at.plan), at.step, at.todo, at.tries)

\* What holds of the suite.
RegistryPromise == RegistryTypes /\ (device.fault = "none" => RegistryPass)


LEMMA RegistrySleeps ==
    /\ DOMAIN G!Sleeps = {"expire", "sync", "modified", "removed", "added"}
    /\ G!Sleeps["expire"] = Collection + 1
    /\ \A step \in {"sync", "modified", "removed", "added"} : G!Sleeps[step] = WsTimeout
BY DEF G!Sleeps

\* An event that is told of.
LEMMA RegistryTells ==
    ASSUME NEW d \in RegistryDevice, NEW r \in RegistryDevice, NEW n, NEW m, m.got = n.got,
           NEW q \in G!Type, NEW pre \in 0..3, NEW post \in 0..3
    PROVE  /\ r.wire[q] = d.wire[q] \o <<[pre |-> pre, post |-> post]>> => Told(r, m, q, pre, post)
           /\ r.wire[q] = d.wire[q] => \A a, b : Told(d, n, q, a, b) => Told(r, m, q, a, b)
<1>1. d.wire[q] \in Seq(G!Event)
  BY DEF RegistryDevice
<1>2. PICK e \in G!Event : e = [pre |-> pre, post |-> post]
  BY DEF G!Event
<1>3. G!Range(d.wire[q] \o <<e>>) = G!Range(d.wire[q]) \cup {e}
  BY <1>1, TellingMore
<1> QED BY <1>2, <1>3 DEF Told

\* A time step of the registry.
Older(d) == [d EXCEPT !.age = IF @ = Collection THEN @ ELSE @ + 1]
Ticked(d) == IF d.age + 1 = Collection THEN G!Collect(Older(d)) ELSE Older(d)

LEMMA RegistryTicks ==
    ASSUME NEW d \in RegistryDevice, NEW r, r = Ticked(d)
    PROVE  /\ r \in RegistryDevice /\ r.fault = d.fault /\ r.open = d.open
           /\ d.fault = "none" =>
                  /\ NodeAlive(d) => NodeAlive(r)
                  /\ d.age + 1 < Collection => r.res = d.res /\ r.wire = d.wire /\ r.age = d.age + 1
                  /\ \/ AllStand(r, 0)
                     \/ d.age + 1 < Collection
                     \/ d.age = Collection /\ r.res = d.res
<1>1. d.age \in 0..Collection /\ Collection \in Nat
  BY RegistryConstants DEF RegistryDevice
<1>2. PICK age : age = IF d.age = Collection THEN d.age ELSE d.age + 1
  OBVIOUS
<1>3. age \in 0..Collection
  BY <1>1, <1>2
<1>e. PICK e : e = Older(d)
  OBVIOUS
<1>4. e = [d EXCEPT !.age = age]
  BY <1>2, <1>e DEF Older
<1>5. /\ e \in RegistryDevice /\ e.fault = d.fault /\ e.open = d.open /\ e.res = d.res /\ e.wire = d.wire
      /\ e.age = age
  BY <1>3, <1>4 DEF RegistryDevice
<1>6. CASE d.age + 1 # Collection
  <2>1. r = e
    BY <1>6, <1>e DEF Ticked
  <2>2. d.age = Collection \/ (d.age + 1 < Collection /\ r.age = d.age + 1)
    BY <1>1, <1>2, <1>5, <1>6, <2>1
  <2>3. NodeAlive(d) => NodeAlive(r)
    <3>1. CASE d.age = Collection
      BY <1>1, <1>5, <2>1, <3>1 DEF NodeAlive
    <3>2. CASE d.age + 1 < Collection /\ r.age = d.age + 1
      BY <3>2 DEF NodeAlive
    <3> QED BY <2>2, <3>1, <3>2
  <2>4. d.age = Collection => ~(d.age + 1 < Collection)
    BY <1>1
  <2> QED BY <1>5, <2>1, <2>2, <2>3, <2>4
<1>7. CASE d.age + 1 = Collection
  <2>1. r = G!Collect(e)
    BY <1>7, <1>e DEF Ticked
  <2>2. CASE d.fault = "immortal"
    BY <1>5, <2>1, <2>2 DEF G!Collect
  <2>3. CASE d.fault # "immortal"
    <3>1. r = G!Unregister(e, G!Type)
      BY <1>5, <2>1, <2>3 DEF G!Collect
    <3>a. PICK gone : gone = G!Type
      OBVIOUS
    <3>b. /\ r \in RegistryDevice /\ r.fault = e.fault /\ r.open = e.open
          /\ \A q \in G!Type : r.res[q] = IF q \in gone THEN 0 ELSE e.res[q]
      BY <1>5, <3>1, <3>a, RegistryRemoves
    <3>2. /\ r \in RegistryDevice /\ r.fault = d.fault /\ r.open = d.open
          /\ \A q \in G!Type : r.res[q] = 0
      BY <1>5, <3>a, <3>b
    <3>3. AllStand(r, 0) /\ NodeAlive(r)
      BY <3>2, RegistryConstants DEF AllStand, NodeAlive
    <3>4. ~(d.age + 1 < Collection)
      BY <1>1, <1>7
    <3> QED BY <3>2, <3>3, <3>4
  <2> QED BY <2>2, <2>3
<1> QED BY <1>6, <1>7

\* A resource that is posted.
LEMMA RegistryCodes ==
    ASSUME NEW d \in RegistryDevice, NEW q \in G!Type
    PROVE  /\ G!Code(d, q) \in {200, 201, 400}
           /\ d.fault = "none" /\ (q = G!Node \/ d.res[Parent[q]] > 0) =>
                  G!Code(d, q) = IF d.res[q] = 0 THEN 201 ELSE 200
<1>1. d.res[q] \in 0..3 /\ d.res[Parent[q]] \in 0..3
  BY RegistryConstants DEF RegistryDevice
<1> QED BY <1>1 DEF G!Code

Versions == 1..3
PostKeeps(d, r) ==
    r \in RegistryDevice /\ r.fault = d.fault /\ r.open = d.open /\ (NodeAlive(d) => NodeAlive(r))

LEMMA RegistryPosts ==
    ASSUME NEW d \in RegistryDevice, NEW q \in G!Type, NEW version \in Versions, NEW r, r = G!Post(d, q, version)
    PROVE  /\ PostKeeps(d, r)
           /\ G!Code(d, q) # 400 =>
                  /\ r.res[q] = version /\ \A p \in G!Type \ {q} : r.res[p] = d.res[p] /\ r.wire[p] = d.wire[p]
                  /\ r.age \in {0, d.age} /\ (q = G!Node /\ d.res[q] = 0 => r.age = 0)
                  /\ d.fault = "none" /\ d.open /\ d.res[q] # version =>
                         r.wire[q] = d.wire[q] \o <<[pre |-> d.res[q], post |-> version]>>
<1>1. CASE G!Code(d, q) = 400
  BY <1>1 DEF G!Post, PostKeeps
<1>2. CASE G!Code(d, q) # 400
  <2>1. PICK changes : changes = [p \in {q} |-> version]
    OBVIOUS
  <2>2. DOMAIN changes = {q} /\ changes[q] = version /\ version \in 0..3
    BY <2>1 DEF Versions
  <2>3. PICK put : put = G!Put(d, changes)
    OBVIOUS
  <2>4. /\ put \in RegistryDevice /\ put.fault = d.fault /\ put.age = d.age /\ put.open = d.open
        /\ put.res[q] = version /\ \A p \in G!Type \ {q} : put.res[p] = d.res[p] /\ put.wire[p] = d.wire[p]
        /\ d.fault = "none" /\ d.open /\ version # d.res[q] =>
               put.wire[q] = d.wire[q] \o <<[pre |-> d.res[q], post |-> version]>>
    BY <2>2, <2>3, RegistryPuts
  <2>5. PICK age : age = IF q = G!Node /\ (d.renews \/ d.res[G!Node] = 0) THEN 0 ELSE put.age
    OBVIOUS
  <2>6. age \in {0, d.age} /\ age \in 0..Collection /\ (q = G!Node /\ d.res[q] = 0 => age = 0)
    BY <2>4, <2>5, RegistryConstants DEF RegistryDevice
  <2>7. r = [put EXCEPT !.age = age]
    BY <1>2, <2>1, <2>3, <2>5 DEF G!Post
  <2>8. /\ r \in RegistryDevice /\ r.fault = d.fault /\ r.open = d.open /\ r.age = age
        /\ r.res = put.res /\ r.wire = put.wire
    BY <2>4, <2>6, <2>7 DEF RegistryDevice
  <2>9. ASSUME NodeAlive(d) PROVE NodeAlive(r)
    <3>1. d.res[G!Node] \in 0..3 /\ 0 < Collection
      BY RegistryConstants DEF RegistryDevice
    <3>2. CASE age = 0
      BY <2>8, <3>1, <3>2 DEF NodeAlive
    <3>3. CASE age # 0
      <4>1. age = d.age
        BY <2>6, <3>3
      <4>2. r.res[G!Node] > 0 => d.res[G!Node] > 0
        <5>1. CASE q = G!Node
          BY <2>5, <3>1, <3>3, <5>1
        <5>2. CASE q # G!Node
          BY <2>4, <2>8, <5>2, RegistryConstants
        <5> QED BY <5>1, <5>2
      <4> QED BY <2>8, <2>9, <4>1, <4>2 DEF NodeAlive
    <3> QED BY <3>2, <3>3
  <2>10. PostKeeps(d, r)
    BY <2>8, <2>9 DEF PostKeeps
  <2> QED BY <2>4, <2>6, <2>8, <2>10
<1> QED BY <1>1, <1>2


\* How a step keeps it: a test comes to its end ...
LEMMA RegistryEnds ==
    ASSUME RegistryPromise, ~Ended, device' \in RegistryDevice, noted' \in RegistryNotes,
           device'.fault = device.fault, NEW v \in Verdict, Conclude(v),
           device.fault = "none" => NodeAlive(device') /\ v # "FAIL"
    PROVE  RegistryPromise'
<1>1. IsRun /\ Judged /\ (device.fault = "none" => NoneFailed)
  BY DEF RegistryPromise, RegistryTypes, RegistryPass
<1>2. IsRun' /\ Judged' /\ at'.step = "begin" /\ (NoneFailed /\ v # "FAIL" => NoneFailed')
  BY <1>1, RunConcludes DEF Concluded
<1>3. at'.tries \in Nat
  BY DEF Conclude, Position
<1>4. RegistryTypes'
  BY <1>2, <1>3 DEF RegistryTypes
<1>5. device'.fault = "none" => RegistryPass'
  BY <1>1, <1>2 DEF RegistryPass, NodeAlive
<1> QED BY <1>4, <1>5 DEF RegistryPromise

\* ... or goes on.
LEMMA RegistryGoesOn ==
    ASSUME RegistryPromise, ~Ended, device' \in RegistryDevice, noted' \in RegistryNotes,
           device'.fault = device.fault, NEW step, NEW todo, NEW tries \in Nat, GoesOn(step, todo, tries),
           RegistryVisit(Head(at.plan), step, todo), RegistryData(noted', Head(at.plan), step, todo),
           device.fault = "none" =>
               NodeAlive(device') /\ RegistryDuty(device', noted', Head(at.plan), step, todo, tries)
    PROVE  RegistryPromise'
<1>1. IsRun /\ Judged /\ (device.fault = "none" => NoneFailed)
  BY DEF RegistryPromise, RegistryTypes, RegistryPass
<1>2. /\ IsRun' /\ Judged' /\ at'.step = step /\ at'.todo = todo /\ at'.plan = at.plan /\ at'.tries = tries
      /\ (Ended' <=> Ended) /\ (NoneFailed => NoneFailed')
  BY <1>1, RunGoesOn
<1>3. RegistryTypes'
  BY <1>2 DEF RegistryTypes, RegistryVisit, RegistryData, Forward, Backward, Left
<1>4. device'.fault = "none" => RegistryPass'
  BY <1>1, <1>2 DEF RegistryPass, NodeAlive, RegistryDuty, Stands, AllStand, AllTold, DoneTold, NewlyAlive,
                    Waiting, Told, Left
<1> QED BY <1>3, <1>4 DEF RegistryPromise

LEMMA RegistryAnother ==
    ASSUME IsRun, NEW next, G!Another(next)
    PROVE  \/ Len(at.todo) = 1 /\ GoesOn(next, at.todo, 0)
           \/ Len(at.todo) # 1 /\ GoesOn(at.step, Tail(at.todo), at.tries)
<1>1. CASE Len(at.todo) = 1
  BY <1>1, RegistryRun, RunSteps DEF G!Another
<1>2. CASE Len(at.todo) # 1
  <2>1. at' = [at EXCEPT !.todo = Tail(@)] /\ verdict' = verdict
    BY <1>2 DEF G!Another
  <2> QED BY <1>2, <2>1 DEF IsRun, GoesOn
<1> QED BY <1>1, <1>2

LEMMA RegistryTickStep ==
    ASSUME RegistryPromise, G!Tick
    PROVE  RegistryPromise'
<1>1. /\ ~Ended /\ at.step \in DOMAIN G!Sleeps /\ at.tries < G!Sleeps[at.step] /\ noted' = noted
      /\ at.tries + 1 = G!Sleeps[at.step] => \A q \in G!Type : device.wire[q] = <<>>
      /\ Step(at.step, at.tries + 1)
  BY RegistryRun DEF G!Tick, G!Sleeping
<1>2. IsRun /\ device \in RegistryDevice /\ noted \in RegistryNotes /\ at.tries \in Nat
  BY DEF RegistryPromise, RegistryTypes
<1>3. PICK r : r = Ticked(device)
  OBVIOUS
<1>4. device' = r
  BY <1>3 DEF G!Tick, Ticked, Older
<1>5. /\ r \in RegistryDevice /\ r.fault = device.fault /\ r.open = device.open
      /\ device.fault = "none" =>
             /\ NodeAlive(device) => NodeAlive(r)
             /\ device.age + 1 < Collection =>
                    r.res = device.res /\ r.wire = device.wire /\ r.age = device.age + 1
             /\ AllStand(r, 0) \/ device.age + 1 < Collection \/ (device.age = Collection /\ r.res = device.res)
  BY <1>2, <1>3, RegistryTicks
<1>6. GoesOn(at.step, at.todo, at.tries + 1) /\ at.tries + 1 \in Nat
  BY <1>1, <1>2, RunSteps
<1>7. RegistryVisit(Head(at.plan), at.step, at.todo) /\ RegistryData(noted', Head(at.plan), at.step, at.todo)
  BY <1>1, RegistrySleeps DEF RegistryPromise, RegistryTypes
<1>8. ASSUME device.fault = "none"
      PROVE  RegistryDuty(r, noted, Head(at.plan), at.step, at.todo, at.tries + 1)
  <2>1. RegistryDuty(device, noted, Head(at.plan), at.step, at.todo, at.tries)
    BY <1>1, <1>8, RegistrySleeps DEF RegistryPromise, RegistryPass
  <2>2. device.age \in Nat /\ Collection \in Nat /\ WsTimeout \in Nat /\ WsTimeout < Collection
    BY <1>2, RegistryConstants DEF RegistryDevice
  <2>3. CASE at.step = "expire"
    <3>1. AllStand(device, 0) \/ (device.age >= at.tries /\ device.age < Collection)
      BY <2>1, <2>3 DEF RegistryDuty
    <3>2. at.tries + 1 <= Collection + 1
      BY <1>1, <1>2, <2>2, <2>3, RegistrySleeps
    <3>3. CASE AllStand(r, 0)
      BY <2>3, <3>2, <3>3 DEF RegistryDuty
    <3>4. CASE device.age + 1 < Collection
      <4>1. r.res = device.res /\ r.age = device.age + 1
        BY <1>5, <1>8, <3>4
      <4>2. AllStand(r, 0) \/ (r.age >= at.tries + 1 /\ r.age < Collection)
        BY <1>2, <2>2, <3>1, <3>4, <4>1 DEF AllStand
      <4> QED BY <2>3, <3>2, <4>2 DEF RegistryDuty
    <3>5. CASE device.age = Collection /\ r.res = device.res
      <4>1. AllStand(r, 0)
        BY <2>2, <3>1, <3>5 DEF AllStand
      <4> QED BY <2>3, <3>2, <4>1 DEF RegistryDuty
    <3> QED BY <1>5, <1>8, <3>3, <3>4, <3>5
  <2>4. CASE at.step \in {"sync", "modified", "removed", "added"}
    <3>1. Waiting(device, at.tries)
      BY <2>1, <2>4 DEF RegistryDuty
    <3>2. at.tries < WsTimeout /\ (at.tries + 1 = WsTimeout => \A q \in G!Type : device.wire[q] = <<>>)
      BY <1>1, <2>4, RegistrySleeps
    <3>3. device.age + 1 < Collection /\ device.age + 1 <= at.tries + 1 /\ at.tries + 1 <= WsTimeout
      BY <1>2, <2>2, <3>1, <3>2 DEF Waiting
    <3>4. r.res = device.res /\ r.wire = device.wire /\ r.age = device.age + 1
      BY <1>5, <1>8, <3>3
    <3>5. Waiting(r, at.tries + 1)
      BY <1>5, <3>1, <3>2, <3>3, <3>4 DEF Waiting
    <3> QED BY <2>1, <2>4, <3>4, <3>5 DEF RegistryDuty, AllStand, AllTold, Told
  <2> QED BY <1>1, <2>3, <2>4, RegistrySleeps
<1>9. device.fault = "none" => NodeAlive(r)
  BY <1>5 DEF RegistryPromise, RegistryPass
<1> QED BY <1>1, <1>2, <1>4, <1>5, <1>6, <1>7, <1>8, <1>9, RegistryGoesOn

\* An event that comes.
LEMMA RegistryDelivers ==
    ASSUME device \in RegistryDevice, noted \in RegistryNotes, NEW q \in G!Type, G!Deliver(q)
    PROVE  /\ device' \in RegistryDevice /\ noted' \in RegistryNotes
           /\ device'.fault = device.fault /\ device'.res = device.res /\ device'.age = device.age
           /\ device'.open = device.open /\ noted'.data = noted.data /\ noted'.old = noted.old
           /\ device.wire[q] # <<>>
           /\ \A p \in G!Type : \A a, b : Told(device, noted, p, a, b) => Told(device', noted', p, a, b)
<1>1. PICK w \in Seq(G!Event), g \in Seq(G!Event) : w = device.wire[q] /\ g = noted.got[q]
  BY DEF RegistryDevice, RegistryNotes
<1>2. w # <<>> /\ Head(w) \in G!Event /\ Tail(w) \in Seq(G!Event)
  BY <1>1, HeadTailProperties DEF G!Deliver
<1>3. PICK wire : wire = [device.wire EXCEPT ![q] = Tail(w)]
  OBVIOUS
<1>4. PICK got : got = [noted.got EXCEPT ![q] = Append(g, Head(w))]
  OBVIOUS
<1>5. device' = [device EXCEPT !.wire = wire] /\ noted' = [noted EXCEPT !.got = got]
  BY <1>1, <1>3, <1>4 DEF G!Deliver, RegistryDevice, RegistryNotes
<1>6. /\ wire \in [G!Type -> Seq(G!Event)] /\ wire[q] = Tail(w)
      /\ \A p \in G!Type : p # q => wire[p] = device.wire[p]
  BY <1>2, <1>3 DEF RegistryDevice
<1>7. Append(g, Head(w)) \in Seq(G!Event)
  BY <1>2
<1>8. /\ got \in [G!Type -> Seq(G!Event)] /\ got[q] = Append(g, Head(w))
      /\ \A p \in G!Type : p # q => got[p] = noted.got[p]
  BY <1>4, <1>7 DEF RegistryNotes
<1>9. /\ device' \in RegistryDevice /\ device'.fault = device.fault /\ device'.res = device.res
      /\ device'.age = device.age /\ device'.open = device.open /\ device'.wire = wire
  BY <1>5, <1>6 DEF RegistryDevice
<1>10. noted' \in RegistryNotes /\ noted'.data = noted.data /\ noted'.old = noted.old /\ noted'.got = got
  BY <1>5, <1>8 DEF RegistryNotes
<1>11. G!Range(w) \subseteq {Head(w)} \cup G!Range(Tail(w))
  <2>1. Len(w) = 1 => \A x \in U!Range(w) : x = Head(w)
    BY <1>2, FirstIsDone
  <2>2. Len(w) # 1 => \A x \in U!Range(w) : x = Head(w) \/ x \in U!Range(Tail(w))
    BY <1>2, FirstIsDone
  <2> QED BY <2>1, <2>2 DEF U!Range, G!Range
<1>12. Append(g, Head(w)) = g \o <<Head(w)>>
  BY <1>2
<1>13. G!Range(Append(g, Head(w))) = G!Range(g) \cup {Head(w)}
  BY <1>2, <1>12, TellingMore
<1>14. ASSUME NEW p \in G!Type, NEW a, NEW b, Told(device, noted, p, a, b) PROVE Told(device', noted', p, a, b)
  <2>1. CASE p # q
    BY <1>6, <1>8, <1>9, <1>10, <1>14, <2>1 DEF Told
  <2>2. CASE p = q
    BY <1>1, <1>6, <1>8, <1>9, <1>10, <1>11, <1>13, <1>14, <2>2 DEF Told
  <2> QED BY <2>1, <2>2
<1> QED BY <1>1, <1>2, <1>9, <1>10, <1>14

LEMMA RegistryDeliverStep ==
    ASSUME RegistryPromise, NEW q \in G!Type, G!Deliver(q)
    PROVE  RegistryPromise'
<1>1. device \in RegistryDevice /\ noted \in RegistryNotes
  BY DEF RegistryPromise, RegistryTypes
<1>2. PICK r, n : r = device' /\ n = noted'
  OBVIOUS
<1>3. /\ r \in RegistryDevice /\ n \in RegistryNotes /\ r.fault = device.fault /\ r.res = device.res
      /\ r.age = device.age /\ r.open = device.open /\ n.data = noted.data /\ n.old = noted.old
      /\ device.wire[q] # <<>>
      /\ \A p \in G!Type : \A a, b : Told(device, noted, p, a, b) => Told(r, n, p, a, b)
  BY <1>1, <1>2, RegistryDelivers
<1>4. at' = at /\ verdict' = verdict
  BY DEF G!Deliver
<1>5. \A t, step, todo : RegistryData(noted, t, step, todo) => RegistryData(n, t, step, todo)
  BY <1>3 DEF RegistryData
<1>6. RegistryTypes'
  <2>0. IsRun /\ Judged /\ at'.tries \in Nat
    BY <1>4 DEF RegistryPromise, RegistryTypes
  <2>a. GoesOn(at.step, at.todo, at.tries)
    BY <1>4, <2>0 DEF GoesOn, IsRun
  <2>1. IsRun' /\ Judged' /\ (Ended' <=> Ended)
    BY <2>0, <2>a, RunGoesOn
  <2>2. device' \in RegistryDevice /\ noted' \in RegistryNotes
    BY <1>2, <1>3 DEF RegistryDevice, RegistryNotes
  <2>3. at.step # "begin" => /\ RegistryVisit(Head(at.plan), at.step, at.todo)
                             /\ RegistryData(n, Head(at.plan), at.step, at.todo)
    BY <1>5 DEF RegistryPromise, RegistryTypes
  <2>4. at.step # "begin" => ~Ended
    BY DEF RegistryPromise, RegistryTypes
  <2> QED BY <1>2, <1>4, <2>0, <2>1, <2>2, <2>3, <2>4
       DEF RegistryTypes, RegistryVisit, RegistryData, Forward, Backward, Left
<1>7. ASSUME NEW t, NEW step, NEW todo, NEW tries, RegistryDuty(device, noted, t, step, todo, tries)
      PROVE  RegistryDuty(r, n, t, step, todo, tries)
  <2>1. Waiting(device, tries) => Waiting(r, tries)
    BY <1>3 DEF Waiting
  <2>2. \A k : AllStand(device, k) => AllStand(r, k)
    BY <1>3 DEF AllStand
  <2>3. \A j, k : Stands(device, todo, j, k) => Stands(r, todo, j, k)
    BY <1>3 DEF Stands
  <2>4. \A j, k : AllTold(device, noted, j, k) => AllTold(r, n, j, k)
    BY <1>3 DEF AllTold
  <2>5. \A j, k : DoneTold(device, noted, todo, j, k) => DoneTold(r, n, todo, j, k)
    BY <1>3 DEF DoneTold
  <2>6. NewlyAlive(device, todo) => NewlyAlive(r, todo)
    BY <1>3 DEF NewlyAlive
  <2> QED BY <1>3, <1>7, <2>1, <2>2, <2>3, <2>4, <2>5, <2>6 DEF RegistryDuty
<1>8. ASSUME device'.fault = "none" PROVE RegistryPass'
  <2>1. RegistryPass
    BY <1>2, <1>3, <1>8 DEF RegistryPromise
  <2>2. NoneFailed' /\ NodeAlive(r)
    BY <1>3, <1>4, <2>1 DEF RegistryPass, NoneFailed, NodeAlive
  <2>3. at.step # "begin" => RegistryDuty(r, n, Head(at.plan), at.step, at.todo, at.tries)
    BY <1>7, <2>1 DEF RegistryPass
  <2> QED BY <1>2, <1>4, <2>2, <2>3
       DEF RegistryPass, NodeAlive, RegistryDuty, Stands, AllStand, AllTold, DoneTold, NewlyAlive, Waiting, Told, Left
<1> QED BY <1>6, <1>8 DEF RegistryPromise


\* What a conforming registry answers to new ids.
LEMMA RegistryAnswers ==
    ASSUME NEW d \in RegistryDevice, d.fault = "none"
    PROVE  G!Created(d) /\ G!Changed(d) /\ G!Refused(d)
<1>1. ASSUME NEW r \in G!Type, r # G!Node PROVE Parent[r] \in G!Above(r) /\ Parent[r] \in G!Type
  <2>1. PICK k \in 1..Len(Types) : r = Types[k]
    BY RegistryConstants
  <2>2. k \in 2..Len(Types)
    BY <1>1, <2>1, RegistryConstants
  <2>3. PICK j \in 1..(k - 1) : Parent[r] = Types[j]
    BY <2>1, <2>2, RegistryConstants
  <2>4. j \in 1..Len(Types) /\ j # k
    BY <2>2, <2>3, RegistryConstants
  <2>5. Parent[r] # r
    BY <2>1, <2>3, <2>4, RegistryConstants
  <2>6. r \in G!Below(Parent[r]) /\ Parent[r] \in G!Type
    BY <1>1, RegistryConstants DEF G!Below
  <2>7. Parent[r] \in {q \in G!Type : r \in G!Below(q)}
    BY <2>6
  <2> QED BY <2>5, <2>6, <2>7 DEF G!Above
<1>2. ASSUME NEW these
      PROVE  /\ G!Only(d, these) \in RegistryDevice /\ G!Only(d, these).fault = "none"
             /\ \A q \in G!Type : G!Only(d, these).res[q] = IF q \in these THEN 1 ELSE 0
  <2>1. PICK res : res = [q \in G!Type |-> IF q \in these THEN 1 ELSE 0]
    OBVIOUS
  <2>2. PICK o : o = G!Only(d, these)
    OBVIOUS
  <2>3. o = [d EXCEPT !.res = res]
    BY <2>1, <2>2 DEF G!Only
  <2>a. res \in [G!Type -> 0..3]
    BY <2>1
  <2>4. o \in RegistryDevice /\ o.fault = "none" /\ o.res = res
    BY <2>a, <2>3 DEF RegistryDevice
  <2>5. \A q \in G!Type : o.res[q] = IF q \in these THEN 1 ELSE 0
    BY <2>1, <2>4
  <2> QED BY <2>2, <2>4, <2>5
<1>3. ASSUME NEW r \in G!Type PROVE G!Code(G!Only(d, G!Above(r)), r) = 201
  <2>1. PICK o : o = G!Only(d, G!Above(r))
    OBVIOUS
  <2>2. o \in RegistryDevice /\ o.fault = "none" /\ o.res[r] = 0 /\ (r # G!Node => o.res[Parent[r]] > 0)
    BY <1>1, <1>2, <2>1 DEF G!Above
  <2>3. G!Code(o, r) = 201
    BY <2>2, RegistryCodes
  <2> QED BY <2>1, <2>3
<1>4. ASSUME NEW r \in G!Type PROVE G!Code(G!Only(d, G!Above(r) \cup {r}), r) = 200
  <2>1. PICK o : o = G!Only(d, G!Above(r) \cup {r})
    OBVIOUS
  <2>2. o \in RegistryDevice /\ o.fault = "none" /\ o.res[r] = 1 /\ (r # G!Node => o.res[Parent[r]] > 0)
    BY <1>1, <1>2, <2>1
  <2>3. G!Code(o, r) = 200
    BY <2>2, RegistryCodes
  <2> QED BY <2>1, <2>3
<1>5. ASSUME NEW r \in G!Type \ {G!Node} PROVE G!Code(G!Only(d, {}), r) = 400
  <2>1. PICK o : o = G!Only(d, {})
    OBVIOUS
  <2>2. o.fault = "none" /\ o.res[Parent[r]] = 0
    BY <1>1, <1>2, <2>1
  <2>3. G!Code(o, r) = 400
    BY <2>2 DEF G!Code
  <2> QED BY <2>1, <2>3
<1> QED BY <1>3, <1>4, <1>5 DEF G!Created, G!Changed, G!Refused

\* The tests of a single step.
LEMMA RegistryJudgesStep ==
    ASSUME RegistryPromise, G!SetUp \/ G!NewIds \/ G!Heartbeat
    PROVE  RegistryPromise'
<1>0. /\ device \in RegistryDevice /\ noted \in RegistryNotes
      /\ device.fault = "none" => NodeAlive(device)
  BY DEF RegistryPromise, RegistryTypes, RegistryPass
<1>1. {"PASS", "FAIL", "DISABLED"} \subseteq Verdict
  BY DEF Verdict
<1>2. \A ok : G!Judged(ok) => Conclude("PASS") \/ (Conclude("FAIL") /\ ~ok)
  BY RegistryRun DEF G!Judged
<1>3. CASE G!SetUp
  BY <1>0, <1>1, <1>3, RegistryRun, RegistryEnds DEF G!SetUp, On
<1>4. CASE G!NewIds
  <2>1. ~Ended /\ device' = device /\ noted' = noted
    BY <1>4, RegistryRun DEF G!NewIds, On
  <2>2. device.fault = "none" => G!Created(device) /\ G!Changed(device) /\ G!Refused(device)
    BY <1>0, RegistryAnswers
  <2>3. Conclude("PASS") \/ Conclude("DISABLED") \/ (Conclude("FAIL") /\ device.fault # "none")
    BY <1>2, <1>4, <2>2, RegistryRun DEF G!NewIds
  <2>4. CASE Conclude("PASS")
    BY <1>0, <1>1, <2>1, <2>4, RegistryEnds
  <2>5. CASE Conclude("DISABLED")
    BY <1>0, <1>1, <2>1, <2>5, RegistryEnds
  <2>6. CASE Conclude("FAIL") /\ device.fault # "none"
    BY <1>0, <1>1, <2>1, <2>6, RegistryEnds
  <2> QED BY <2>3, <2>4, <2>5, <2>6
<1>5. CASE G!Heartbeat
  <2>a. PICK version \in Versions, q \in G!Type : version = 2 /\ q = G!Node
    BY RegistryConstants DEF Versions
  <2>b. version \in Versions /\ q \in G!Type
    BY <2>a
  <2>1. PICK r : r = G!Post(device, q, version)
    OBVIOUS
  <2>2. ~Ended /\ device' = r /\ noted' = noted
    BY <1>5, <2>1, <2>a, RegistryRun DEF G!Heartbeat, On
  <2>3. r \in RegistryDevice /\ r.fault = device.fault /\ (NodeAlive(device) => NodeAlive(r))
    <3>1. PostKeeps(device, r)
      BY <1>0, <2>1, <2>b, RegistryPosts
    <3> QED BY <3>1 DEF PostKeeps
  <2>4. Conclude("PASS") \/ (Conclude("FAIL") /\ device.fault # "none")
    BY <1>5, RegistryRun DEF G!Heartbeat
  <2>5. CASE Conclude("PASS")
    BY <1>0, <1>1, <2>2, <2>3, <2>5, RegistryEnds
  <2>6. CASE Conclude("FAIL") /\ device.fault # "none"
    BY <1>0, <1>1, <2>2, <2>3, <2>6, RegistryEnds
  <2> QED BY <2>4, <2>5, <2>6
<1> QED BY <1>3, <1>4, <1>5

\* The next resource of the test data is posted to a conforming registry.
Posted(d, todo, version, r) ==
    /\ G!Code(d, Head(todo)) = IF d.res[Head(todo)] = 0 THEN 201 ELSE 200
    /\ r.res[Head(todo)] = version
    /\ \A p \in G!Type \ {Head(todo)} : r.res[p] = d.res[p] /\ r.wire[p] = d.wire[p]
    /\ NewlyAlive(d, todo) /\ (Left(todo) = G!Type => d.res[Head(todo)] = 0) => r.age = 0
    /\ d.age = 0 => r.age = 0
    /\ d.open /\ d.res[Head(todo)] # version =>
           r.wire[Head(todo)] = d.wire[Head(todo)] \o <<[pre |-> d.res[Head(todo)], post |-> version]>>

LEMMA RegistryPosting ==
    ASSUME NEW d \in RegistryDevice, d.fault = "none", NEW todo, Forward(todo), NEW version \in Versions,
           \A q \in G!Type \ Left(todo) : d.res[q] > 0, NEW r, r = G!Post(d, Head(todo), version)
    PROVE  Posted(d, todo, version, r)
<1>1. PICK q \in G!Type : q = Head(todo)
  BY TakingTypes
<1>2. q = G!Node \/ d.res[Parent[q]] > 0
  BY <1>1, TakingInOrder
<1>3. G!Code(d, q) = IF d.res[q] = 0 THEN 201 ELSE 200
  BY <1>2, RegistryCodes
<1>4. G!Code(d, q) # 400
  BY <1>3
<1>a. PICK s : s = G!Post(d, q, version)
  OBVIOUS
<1>5. /\ s.res[q] = version /\ \A p \in G!Type \ {q} : s.res[p] = d.res[p] /\ s.wire[p] = d.wire[p]
      /\ s.age \in {0, d.age} /\ (q = G!Node /\ d.res[q] = 0 => s.age = 0)
      /\ d.open /\ d.res[q] # version => s.wire[q] = d.wire[q] \o <<[pre |-> d.res[q], post |-> version]>>
  BY <1>4, <1>a, RegistryPosts
<1>6. Left(todo) = G!Type => q = G!Node
  BY <1>1, TakingInOrder
<1>7. r = s
  BY <1>1, <1>a
<1> QED BY <1>1, <1>3, <1>5, <1>6, <1>7 DEF NewlyAlive, Posted

\* The posts of test_27 and test_28 ...
LEMMA RegistryPostStep ==
    ASSUME RegistryPromise, ~Ended, at.step = "post", noted' = noted, NEW next,
           \/ Head(at.plan) = "test_27" /\ next = "expire"
           \/ Head(at.plan) = "test_28" /\ next = "remove",
           G!PostAll({200, 201}, 2, next)
    PROVE  RegistryPromise'
<1>0. /\ IsRun /\ device \in RegistryDevice /\ noted \in RegistryNotes /\ Forward(at.todo) /\ at.tries \in Nat
      /\ device.fault = "none" => /\ NodeAlive(device)
                                  /\ \A q \in G!Type \ Left(at.todo) : device.res[q] > 0
  BY DEF RegistryPromise, RegistryTypes, RegistryPass, RegistryVisit, RegistryDuty
<1>1. /\ Subject \in G!Type /\ Subject = Head(at.todo)
      /\ Len(at.todo) = 1 => Left(at.todo) = {Subject}
      /\ Len(at.todo) # 1 => Forward(Tail(at.todo)) /\ Left(Tail(at.todo)) = Left(at.todo) \ {Subject}
  BY <1>0, TakingTypes DEF Subject
<1>a. PICK version \in Versions, q \in G!Type : version = 2 /\ q = Subject
  BY <1>1 DEF Versions
<1>b. version \in Versions /\ q \in G!Type
  BY <1>a
<1>2. PICK r : r = G!Post(device, q, version)
  OBVIOUS
<1>3. device' = r
  BY <1>2, <1>a, RegistryRun DEF G!PostAll
<1>4. "FAIL" \in Verdict
  BY DEF Verdict
<1>5. r \in RegistryDevice /\ r.fault = device.fault /\ (NodeAlive(device) => NodeAlive(r))
  <2>1. PostKeeps(device, r)
    BY <1>0, <1>2, <1>b, RegistryPosts
  <2> QED BY <2>1 DEF PostKeeps
<1>c. r = G!Post(device, Head(at.todo), version)
  BY <1>1, <1>2, <1>a
<1>d. device.fault = "none" => Posted(device, at.todo, version, r)
  BY <1>0, <1>b, <1>c, RegistryPosting
<1>6. ASSUME device.fault = "none"
      PROVE  /\ G!Code(device, Subject) \in {200, 201}
             /\ r.res[Subject] = 2 /\ \A p \in G!Type \ {Subject} : r.res[p] = device.res[p]
  BY <1>1, <1>6, <1>a, <1>d DEF Posted
<1>7. CASE G!Code(device, Subject) \notin {200, 201}
  <2>1. Conclude("FAIL")
    BY <1>7, RegistryRun DEF G!PostAll
  <2> QED BY <1>0, <1>3, <1>4, <1>5, <1>6, <1>7, <2>1, RegistryEnds
<1>8. CASE G!Code(device, Subject) \in {200, 201}
  <2>1. \/ Len(at.todo) = 1 /\ GoesOn(next, at.todo, 0)
        \/ Len(at.todo) # 1 /\ GoesOn("post", Tail(at.todo), at.tries)
    BY <1>0, <1>8, RegistryRun, RegistryAnother DEF G!PostAll
  <2>2. CASE Len(at.todo) = 1 /\ GoesOn(next, at.todo, 0)
    <3>1. ASSUME device.fault = "none" PROVE RegistryDuty(r, noted, Head(at.plan), next, at.todo, 0)
      <4>1. \A p \in G!Type : r.res[p] > 0
        BY <1>0, <1>1, <1>6, <2>2, <3>1
      <4>2. r.age \in 0..Collection /\ r.age < Collection /\ Collection \in Nat
        BY <1>0, <1>5, <3>1, <4>1, RegistryConstants DEF NodeAlive, RegistryDevice
      <4> QED BY <4>2 DEF RegistryDuty
    <3>2. RegistryVisit(Head(at.plan), next, at.todo) /\ RegistryData(noted', Head(at.plan), next, at.todo)
      BY DEF RegistryVisit, RegistryData
    <3> QED BY <1>0, <1>3, <1>5, <2>2, <3>1, <3>2, RegistryGoesOn
  <2>3. CASE Len(at.todo) # 1 /\ GoesOn("post", Tail(at.todo), at.tries)
    <3>1. ASSUME device.fault = "none" PROVE RegistryDuty(r, noted, Head(at.plan), "post", Tail(at.todo), at.tries)
      <4>1. \A p \in G!Type \ Left(Tail(at.todo)) : r.res[p] > 0
        BY <1>0, <1>1, <1>6, <2>3, <3>1
      <4> QED BY <4>1 DEF RegistryDuty
    <3>2. /\ RegistryVisit(Head(at.plan), "post", Tail(at.todo))
          /\ RegistryData(noted', Head(at.plan), "post", Tail(at.todo))
      BY <1>1, <2>3 DEF RegistryVisit, RegistryData
    <3> QED BY <1>0, <1>3, <1>5, <2>3, <3>1, <3>2, RegistryGoesOn
  <2> QED BY <2>1, <2>2, <2>3
<1> QED BY <1>7, <1>8


\* ... and these tests.
LEMMA RegistryOneByOneStep ==
    ASSUME RegistryPromise, G!Expire \/ G!RemoveNode
    PROVE  RegistryPromise'
<1>0. /\ IsRun /\ device \in RegistryDevice /\ noted \in RegistryNotes /\ at.tries \in Nat
      /\ device.fault = "none" => NodeAlive(device)
  BY DEF RegistryPromise, RegistryTypes, RegistryPass
<1>1. {"PASS", "FAIL"} \subseteq Verdict
  BY DEF Verdict
<1>2. ASSUME NEW t, G!Begin({t}, "post"), t \in {"test_27", "test_28"} PROVE RegistryPromise'
  <2>1. /\ ~Ended /\ Head(at.plan) = t /\ device' = device /\ noted' = noted
        /\ GoesOn("post", Types, at.tries)
    <3>1. ~Ended /\ Head(at.plan) = t /\ device' = device /\ noted' = noted /\ verdict' = verdict
      BY <1>2, RegistryRun DEF G!Begin, On
    <3>2. at' = [at EXCEPT !.step = "post", !.todo = Types]
      BY <1>2 DEF G!Begin
    <3> QED BY <1>0, <3>1, <3>2 DEF IsRun, GoesOn
  <2>2. RegistryVisit(t, "post", Types) /\ RegistryData(noted, t, "post", Types)
    BY <1>2, TakingInOrder DEF RegistryVisit, RegistryData
  <2>3. RegistryDuty(device, noted, t, "post", Types, at.tries)
    BY <1>2, TakingInOrder DEF RegistryDuty
  <2> QED BY <1>0, <2>1, <2>2, <2>3, RegistryGoesOn
<1>3. ASSUME NEW t, NEW next, <<t, next>> \in {<<"test_27", "expire">>, <<"test_28", "remove">>},
             G!On({t}, "post") /\ G!PostAll({200, 201}, 2, next) /\ UNCHANGED noted
      PROVE  RegistryPromise'
  <2>1. ~Ended /\ Head(at.plan) = t /\ at.step = "post" /\ noted' = noted
    BY <1>3, RegistryRun DEF On
  <2>2. \/ Head(at.plan) = "test_27" /\ next = "expire"
        \/ Head(at.plan) = "test_28" /\ next = "remove"
    BY <1>3, <2>1
  <2> QED BY <1>3, <2>1, <2>2, RegistryPostStep
<1>4. CASE G!Slept("test_27", "expire") /\ ~G!On({"test_27"}, "begin") /\ ~G!On({"test_27"}, "post") /\ G!Expire
  <2>1. /\ ~Ended /\ at.step = "expire" /\ at.tries = Collection + 1
        /\ device' = device /\ noted' = noted
        /\ Conclude("PASS") \/ (Conclude("FAIL") /\ ~AllStand(device, 0))
    <3>1. /\ ~Ended /\ at.step = "expire" /\ at.tries = Collection + 1
      BY <1>4, RegistryRun, RegistrySleeps DEF G!Slept, On
    <3>2. /\ device' = device /\ noted' = noted
          /\ G!Conclude(IF \A r \in G!Type : device.res[r] = 0 THEN "PASS" ELSE "FAIL")
      BY <1>4 DEF G!Expire, G!Begin
    <3> QED BY <3>1, <3>2, RegistryRun DEF AllStand
  <2>2. device.fault = "none" => AllStand(device, 0)
    <3>1. Collection \in Nat /\ device.age \in Nat
      BY <1>0, RegistryConstants DEF RegistryDevice
    <3> QED BY <2>1, <3>1 DEF RegistryPromise, RegistryPass, RegistryDuty
  <2>3. CASE Conclude("PASS")
    BY <1>0, <1>1, <2>1, <2>3, RegistryEnds
  <2>4. CASE Conclude("FAIL") /\ device.fault # "none"
    BY <1>0, <1>1, <2>1, <2>4, RegistryEnds
  <2> QED BY <2>1, <2>2, <2>3, <2>4
<1>5. CASE G!On({"test_28"}, "remove") /\ ~G!On({"test_28"}, "begin") /\ ~G!On({"test_28"}, "post") /\ G!RemoveNode
  <2>1. PICK gone : gone = G!Removed(device, G!Node)
    OBVIOUS
  <2>2. PICK r : r = G!Unregister(device, gone)
    OBVIOUS
  <2>3. /\ ~Ended /\ device' = r /\ noted' = noted
        /\ Conclude("PASS") \/ (Conclude("FAIL") /\ ~AllStand(r, 0))
    <3>1. /\ device' = r /\ noted' = noted
          /\ G!Conclude(IF \A q \in G!Type : device'.res[q] = 0 THEN "PASS" ELSE "FAIL")
      BY <1>5, <2>1, <2>2 DEF G!RemoveNode, G!Begin
    <3>2. ~Ended
      BY <1>5, RegistryRun DEF On
    <3> QED BY <3>1, <3>2, RegistryRun DEF AllStand
  <2>4. /\ r \in RegistryDevice /\ r.fault = device.fault /\ r.age = device.age
        /\ \A q \in G!Type : r.res[q] = IF q \in gone THEN 0 ELSE device.res[q]
    BY <1>0, <2>2, RegistryRemoves
  <2>5. device.fault = "none" => \A q \in G!Type : q \in gone
    BY <2>1, RegistryConstants DEF G!Removed, G!Below
  <2>6. device.fault = "none" => AllStand(r, 0) /\ NodeAlive(r)
    BY <2>4, <2>5, RegistryConstants DEF AllStand, NodeAlive
  <2>7. CASE Conclude("PASS")
    BY <1>0, <1>1, <2>3, <2>4, <2>6, <2>7, RegistryEnds
  <2>8. CASE Conclude("FAIL") /\ device.fault # "none"
    BY <1>0, <1>1, <2>3, <2>4, <2>8, RegistryEnds
  <2> QED BY <2>3, <2>6, <2>7, <2>8
<1>6. ASSUME NEW t, NEW step, step \in {"begin", "post"}, at.step \notin {"begin", "post"} PROVE ~G!On({t}, step)
  BY <1>6, RegistryRun DEF On
<1>7. CASE G!Expire
  <2>1. CASE G!Begin({"test_27"}, "post")
    BY <1>2, <2>1
  <2>2. CASE G!On({"test_27"}, "post") /\ G!PostAll({200, 201}, 2, "expire") /\ UNCHANGED noted
    BY <1>3, <2>2
  <2>3. CASE G!Slept("test_27", "expire")
    <3>1. at.step = "expire"
      BY <2>3, RegistryRun DEF G!Slept, On
    <3> QED BY <1>4, <1>6, <1>7, <2>3, <3>1
  <2> QED BY <1>7, <2>1, <2>2, <2>3 DEF G!Expire
<1>8. CASE G!RemoveNode
  <2>1. CASE G!Begin({"test_28"}, "post")
    BY <1>2, <2>1
  <2>2. CASE G!On({"test_28"}, "post") /\ G!PostAll({200, 201}, 2, "remove") /\ UNCHANGED noted
    BY <1>3, <2>2
  <2>3. CASE G!On({"test_28"}, "remove")
    <3>1. at.step = "remove"
      BY <2>3, RegistryRun DEF On
    <3> QED BY <1>5, <1>6, <1>8, <2>3, <3>1
  <2> QED BY <1>8, <2>1, <2>2, <2>3 DEF G!RemoveNode
<1> QED BY <1>7, <1>8

\* test_31: what is left is deleted.
LEMMA RegistryCleanStep ==
    ASSUME RegistryPromise, G!CleanState
    PROVE  RegistryPromise'
<1>0. /\ IsRun /\ device \in RegistryDevice /\ noted \in RegistryNotes /\ at.tries \in Nat
      /\ device.fault = "none" => NodeAlive(device)
  BY DEF RegistryPromise, RegistryTypes, RegistryPass
<1>1. CASE at.step = "begin"
  <2>1. PICK data : data = [r \in G!Type |-> 1]
    OBVIOUS
  <2>2. /\ ~Ended /\ Head(at.plan) = "test_31" /\ device' = device /\ noted' = [noted EXCEPT !.data = data]
        /\ at' = [at EXCEPT !.step = "clean", !.todo = Types] /\ verdict' = verdict
    BY <1>1, <2>1, RegistryRun DEF G!CleanState, On
  <2>3. GoesOn("clean", Types, at.tries)
    BY <1>0, <2>2 DEF IsRun, GoesOn
  <2>4. data \in [G!Type -> 1..3]
    BY <2>1
  <2>5. noted' \in RegistryNotes /\ \A r \in G!Type : noted'.data[r] = 1
    BY <1>0, <2>1, <2>2, <2>4 DEF RegistryNotes
  <2>6. RegistryVisit("test_31", "clean", Types) /\ RegistryData(noted', "test_31", "clean", Types)
    BY <2>5, TakingInOrder DEF RegistryVisit, RegistryData
  <2>7. RegistryDuty(device', noted', "test_31", "clean", Types, at.tries)
    BY TakingInOrder DEF RegistryDuty
  <2> QED BY <1>0, <2>2, <2>3, <2>5, <2>6, <2>7, RegistryGoesOn
<1>2. CASE at.step = "clean"
  <2>1. ~G!On({"test_31"}, "begin")
    BY <1>2, RegistryRun DEF On
  <2>2. /\ ~Ended /\ Head(at.plan) = "test_31" /\ noted' = noted /\ verdict' = verdict
        /\ device' = IF device.res[Subject] > 0 THEN G!Unregister(device, G!Removed(device, Subject)) ELSE device
        /\ IF Len(at.todo) = 1 THEN at' = [at EXCEPT !.step = "post", !.todo = Types]
           ELSE at' = [at EXCEPT !.todo = Tail(@)]
    BY <1>2, <2>1, RegistryRun DEF G!CleanState, On
  <2>3. /\ Forward(at.todo) /\ \A q \in G!Type : noted.data[q] = 1
        /\ device.fault = "none" => \A q \in G!Type \ Left(at.todo) : device.res[q] = 0
    BY <1>2, <2>2 DEF RegistryPromise, RegistryTypes, RegistryVisit, RegistryData, RegistryPass, RegistryDuty
  <2>4. /\ Subject \in G!Type
        /\ Len(at.todo) = 1 => Left(at.todo) = {Subject}
        /\ Len(at.todo) # 1 => Forward(Tail(at.todo)) /\ Left(Tail(at.todo)) = Left(at.todo) \ {Subject}
    BY <2>3, TakingTypes DEF Subject
  <2>5. PICK gone : gone = G!Removed(device, Subject)
    OBVIOUS
  <2>6. PICK r : r = G!Unregister(device, gone)
    OBVIOUS
  <2>7. /\ r \in RegistryDevice /\ r.fault = device.fault /\ r.age = device.age
        /\ \A q \in G!Type : r.res[q] = IF q \in gone THEN 0 ELSE device.res[q]
    BY <1>0, <2>6, RegistryRemoves
  <2>8. Subject \in gone
    BY <2>4, <2>5 DEF G!Removed, G!Below
  <2>9. PICK d : d = device'
    OBVIOUS
  <2>10. \A q \in G!Type : device.res[q] \in 0..3
    BY <1>0 DEF RegistryDevice
  <2>11. /\ d \in RegistryDevice /\ d.fault = device.fault /\ d.age = device.age /\ d.res[Subject] = 0
         /\ \A q \in G!Type : d.res[q] \in {0, device.res[q]}
    <3>1. CASE device.res[Subject] > 0
      <4>1. d = r
        BY <2>2, <2>5, <2>6, <2>9, <3>1
      <4> QED BY <2>4, <2>7, <2>8, <4>1
    <3>2. CASE ~(device.res[Subject] > 0)
      <4>1. d = device /\ device.res[Subject] = 0
        BY <2>2, <2>4, <2>9, <2>10, <3>2
      <4> QED BY <1>0, <4>1
    <3> QED BY <3>1, <3>2
  <2>12. device.fault = "none" => NodeAlive(d)
    <3>1. d.res[G!Node] > 0 => device.res[G!Node] > 0
      BY <2>11, RegistryConstants
    <3> QED BY <1>0, <2>11, <3>1 DEF NodeAlive
  <2>13. CASE Len(at.todo) = 1
    <3>1. GoesOn("post", Types, at.tries)
      BY <1>0, <2>2, <2>13 DEF IsRun, GoesOn
    <3>2. RegistryVisit("test_31", "post", Types) /\ RegistryData(noted', "test_31", "post", Types)
      BY <2>2, <2>3, TakingInOrder DEF RegistryVisit, RegistryData
    <3>3. ASSUME device.fault = "none" PROVE RegistryDuty(d, noted', "test_31", "post", Types, at.tries)
      <4>1. \A q \in G!Type : d.res[q] = 0
        BY <2>3, <2>4, <2>11, <2>13, <3>3
      <4> QED BY <4>1, TakingInOrder DEF RegistryDuty, Stands, NewlyAlive
    <3> QED BY <1>0, <2>2, <2>9, <2>11, <2>12, <3>1, <3>2, <3>3, RegistryGoesOn
  <2>14. CASE Len(at.todo) # 1
    <3>1. GoesOn("clean", Tail(at.todo), at.tries)
      BY <1>0, <1>2, <2>2, <2>14 DEF IsRun, GoesOn
    <3>2. /\ RegistryVisit("test_31", "clean", Tail(at.todo))
          /\ RegistryData(noted', "test_31", "clean", Tail(at.todo))
      BY <2>2, <2>3, <2>4, <2>14 DEF RegistryVisit, RegistryData
    <3>3. ASSUME device.fault = "none" PROVE RegistryDuty(d, noted', "test_31", "clean", Tail(at.todo), at.tries)
      <4>1. \A q \in G!Type \ Left(Tail(at.todo)) : d.res[q] = 0
        BY <2>3, <2>4, <2>11, <2>14, <3>3
      <4> QED BY <4>1 DEF RegistryDuty
    <3> QED BY <1>0, <2>2, <2>9, <2>11, <2>12, <3>1, <3>2, <3>3, RegistryGoesOn
  <2> QED BY <2>13, <2>14
<1> QED BY <1>1, <1>2, RegistryRun DEF G!CleanState, On


\* The next post of test_31, of resources that are yet at one version and done at another.
Reposted(d, n, m, todo, done, yet, r) ==
    /\ G!Code(d, Head(todo)) = IF yet = 0 THEN 201 ELSE 200
    /\ \A q \in G!Type : r.res[q] = IF q \in Left(todo) \ {Head(todo)} THEN yet ELSE done
    /\ r.age = 0
    /\ d.open /\ DoneTold(d, n, todo, yet, done) =>
           \A q \in G!Type \ (Left(todo) \ {Head(todo)}) : Told(r, m, q, yet, done)

LEMMA RegistryReposts ==
    ASSUME NEW d \in RegistryDevice, d.fault = "none", NEW todo, Forward(todo), NEW done \in Versions,
           NEW yet, yet \in 0..3, yet # done, Stands(d, todo, done, yet), NewlyAlive(d, todo),
           yet # 0 => d.age = 0, NEW r \in RegistryDevice, r = G!Post(d, Head(todo), done),
           NEW n, NEW m, m.got = n.got
    PROVE  Reposted(d, n, m, todo, done, yet, r)
<1>1. PICK first \in G!Type : first = Head(todo) /\ first \in Left(todo)
  BY TakingTypes
<1>2. done > 0 /\ done \in 0..3
  BY DEF Versions
<1>3. \A q \in G!Type : d.res[q] = IF q \in Left(todo) THEN yet ELSE done
  BY DEF Stands
<1>4. \A q \in G!Type \ Left(todo) : d.res[q] > 0
  BY <1>2, <1>3
<1>5. Posted(d, todo, done, r)
  BY <1>4, RegistryPosting
<1>6. /\ G!Code(d, Head(todo)) = IF d.res[first] = 0 THEN 201 ELSE 200
      /\ r.res[first] = done
      /\ \A p \in G!Type \ {first} : r.res[p] = d.res[p] /\ r.wire[p] = d.wire[p]
      /\ NewlyAlive(d, todo) /\ (Left(todo) = G!Type => d.res[first] = 0) => r.age = 0
      /\ d.age = 0 => r.age = 0
      /\ d.open /\ d.res[first] # done =>
             r.wire[first] = d.wire[first] \o <<[pre |-> d.res[first], post |-> done]>>
  BY <1>1, <1>5 DEF Posted
<1>7. d.res[first] = yet
  BY <1>1, <1>3
<1>8. \A q \in G!Type : r.res[q] = IF q \in Left(todo) \ {first} THEN yet ELSE done
  BY <1>3, <1>6
<1>9. r.age = 0
  BY <1>6, <1>7
<1>10. ASSUME d.open, DoneTold(d, n, todo, yet, done), NEW q \in G!Type \ (Left(todo) \ {first})
       PROVE  Told(r, m, q, yet, done)
  <2>1. CASE q = first
    <3>1. r.wire[q] = d.wire[q] \o <<[pre |-> yet, post |-> done]>>
      BY <1>6, <1>7, <1>10, <2>1
    <3>2. yet \in 0..3 /\ done \in 0..3 /\ q \in G!Type
      BY <1>2, <1>10
    <3> QED BY <3>1, <3>2, RegistryTells
  <2>2. CASE q # first
    <3>1. Told(d, n, q, yet, done) /\ r.wire[q] = d.wire[q]
      BY <1>6, <1>10, <2>2 DEF DoneTold
    <3> QED BY <1>2, <3>1, RegistryTells
  <2> QED BY <2>1, <2>2
<1> QED BY <1>1, <1>6, <1>7, <1>8, <1>9, <1>10 DEF Reposted

\* The versions before and after the posts of a step.
PostSteps(now, next, yet, done) ==
    \/ now = "post" /\ next = "open" /\ yet = 0 /\ done = 1
    \/ now = "update" /\ next = "modified" /\ yet = 1 /\ done = 2
    \/ now = "again" /\ next = "added" /\ yet = 0 /\ done = 3

LEMMA RegistryPostsOn ==
    ASSUME RegistryPromise, ~Ended, Head(at.plan) = "test_31", NEW now, at.step = now, NEW next,
           NEW yet, NEW done, PostSteps(now, next, yet, done),
           NEW r \in RegistryDevice, r.fault = device.fault, r.open = device.open,
           NodeAlive(device) => NodeAlive(r), device' = r, noted' \in RegistryNotes,
           noted'.got = noted.got, noted'.old = noted.old,
           \A q \in G!Type : noted'.data[q] = IF q = Subject THEN done ELSE noted.data[q],
           device.fault = "none" => Reposted(device, noted, noted', at.todo, done, yet, r),
           G!Another(next)
    PROVE  RegistryPromise'
<1>0. /\ IsRun /\ device \in RegistryDevice /\ at.tries \in Nat /\ Forward(at.todo)
      /\ device.fault = "none" => NodeAlive(device)
  BY DEF RegistryPromise, RegistryTypes, RegistryPass, RegistryVisit, PostSteps
<1>1. /\ Subject = Head(at.todo) /\ Left(at.todo) \subseteq G!Type
      /\ Len(at.todo) = 1 => Left(at.todo) = {Subject}
      /\ Len(at.todo) # 1 => Forward(Tail(at.todo)) /\ Left(Tail(at.todo)) = Left(at.todo) \ {Subject}
  BY <1>0, TakingTypes DEF Subject
<1>2. \/ Len(at.todo) = 1 /\ GoesOn(next, at.todo, 0)
      \/ Len(at.todo) # 1 /\ GoesOn(now, Tail(at.todo), at.tries)
  BY <1>0, RegistryAnother
<1>3. PICK n : n = noted'
  OBVIOUS
<1>4. RegistryData(noted, "test_31", now, at.todo)
  BY DEF RegistryPromise, RegistryTypes, PostSteps
<1>5. \A q \in G!Type : n.data[q] = IF q = Subject THEN done ELSE noted.data[q]
  BY <1>3
<1>6. ASSUME device.fault = "none"
      PROVE  /\ RegistryDuty(device, noted, "test_31", now, at.todo, at.tries)
             /\ \A q \in G!Type : r.res[q] = IF q \in Left(at.todo) \ {Subject} THEN yet ELSE done
             /\ r.age = 0
             /\ device.open /\ DoneTold(device, noted, at.todo, yet, done) =>
                    \A q \in G!Type \ (Left(at.todo) \ {Subject}) : Told(r, n, q, yet, done)
  <2>1. RegistryDuty(device, noted, "test_31", now, at.todo, at.tries)
    BY <1>6 DEF RegistryPromise, RegistryPass, PostSteps
  <2> QED BY <1>1, <1>3, <1>6, <2>1 DEF Reposted
<1>7. CASE Len(at.todo) = 1 /\ GoesOn(next, at.todo, 0)
  <2>1. RegistryVisit("test_31", next, at.todo)
    BY DEF RegistryVisit, PostSteps
  <2>2. RegistryData(n, "test_31", next, at.todo)
    <3>1. CASE now = "post" /\ next = "open" /\ done = 1
      BY <1>4, <1>5, <3>1 DEF RegistryData
    <3>2. CASE now = "update" /\ next = "modified" /\ done = 2
      BY <1>1, <1>4, <1>5, <1>7, <3>2 DEF RegistryData
    <3>3. CASE now = "again" /\ next = "added" /\ done = 3
      BY <1>1, <1>4, <1>5, <1>7, <3>3 DEF RegistryData
    <3> QED BY <3>1, <3>2, <3>3 DEF PostSteps
  <2>3. ASSUME device.fault = "none" PROVE RegistryDuty(r, n, "test_31", next, at.todo, 0)
    <3>1. AllStand(r, done) /\ r.age = 0
      BY <1>1, <1>6, <1>7, <2>3 DEF AllStand
    <3>2. r.open => Waiting(r, 0)
      BY <3>1, RegistryConstants DEF Waiting
    <3>3. device.open /\ DoneTold(device, noted, at.todo, yet, done) => AllTold(r, n, yet, done)
      BY <1>1, <1>6, <1>7, <2>3 DEF AllTold
    <3>4. CASE now = "post" /\ next = "open" /\ yet = 0 /\ done = 1
      BY <3>1, <3>4 DEF RegistryDuty
    <3>5. CASE now = "update" /\ next = "modified" /\ yet = 1 /\ done = 2
      BY <1>3, <1>6, <2>3, <3>1, <3>2, <3>3, <3>5 DEF RegistryDuty
    <3>6. CASE now = "again" /\ next = "added" /\ yet = 0 /\ done = 3
      BY <1>6, <2>3, <3>1, <3>2, <3>3, <3>6 DEF RegistryDuty
    <3> QED BY <3>4, <3>5, <3>6 DEF PostSteps
  <2> QED BY <1>0, <1>3, <1>7, <2>1, <2>2, <2>3, RegistryGoesOn
<1>8. CASE Len(at.todo) # 1 /\ GoesOn(now, Tail(at.todo), at.tries)
  <2>0. Forward(Tail(at.todo)) /\ Left(Tail(at.todo)) = Left(at.todo) \ {Subject}
    BY <1>1, <1>8
  <2>1. RegistryVisit("test_31", now, Tail(at.todo))
    BY <2>0 DEF RegistryVisit, PostSteps
  <2>2. RegistryData(n, "test_31", now, Tail(at.todo))
    <3>1. CASE now = "post" /\ done = 1
      BY <1>4, <1>5, <3>1 DEF RegistryData
    <3>2. CASE now = "update" /\ done = 2
      BY <1>4, <1>5, <2>0, <3>2 DEF RegistryData
    <3>3. CASE now = "again" /\ done = 3
      BY <1>4, <1>5, <2>0, <3>3 DEF RegistryData
    <3> QED BY <3>1, <3>2, <3>3 DEF PostSteps
  <2>3. ASSUME device.fault = "none" PROVE RegistryDuty(r, n, "test_31", now, Tail(at.todo), at.tries)
    <3>1. Stands(r, Tail(at.todo), done, yet) /\ r.age = 0 /\ NewlyAlive(r, Tail(at.todo))
      BY <1>6, <2>0, <2>3 DEF Stands, NewlyAlive
    <3>2. device.open /\ DoneTold(device, noted, at.todo, yet, done) => DoneTold(r, n, Tail(at.todo), yet, done)
      BY <1>6, <2>0, <2>3 DEF DoneTold
    <3>3. CASE now = "post" /\ yet = 0 /\ done = 1
      BY <3>1, <3>3 DEF RegistryDuty
    <3>4. CASE now = "update" /\ yet = 1 /\ done = 2
      BY <1>3, <1>6, <2>3, <3>1, <3>2, <3>4 DEF RegistryDuty
    <3>5. CASE now = "again" /\ yet = 0 /\ done = 3
      BY <1>6, <2>3, <3>1, <3>2, <3>5 DEF RegistryDuty
    <3> QED BY <3>3, <3>4, <3>5 DEF PostSteps
  <2> QED BY <1>0, <1>3, <1>8, <2>1, <2>2, <2>3, RegistryGoesOn
<1> QED BY <1>2, <1>7, <1>8


\* However a test ends, its websockets are closed; a heartbeat keeps the Node.
LEMMA RegistryCloses ==
    ASSUME NEW d \in RegistryDevice
    PROVE  /\ G!Closed(d) \in RegistryDevice /\ G!Closed(d).fault = d.fault
           /\ G!Closed(d).res = d.res /\ G!Closed(d).age = d.age
           /\ G!Kept(d) \in RegistryDevice /\ G!Kept(d).fault = d.fault /\ G!Kept(d).open = d.open
           /\ G!Kept(d).res = d.res /\ G!Kept(d).wire = d.wire
           /\ d.res[G!Node] > 0 => G!Kept(d).age = 0
           /\ NodeAlive(d) => NodeAlive(G!Closed(d)) /\ NodeAlive(G!Kept(d))
<1>1. PICK c : c = G!Closed(d)
  OBVIOUS
<1>2. PICK k : k = G!Kept(d)
  OBVIOUS
<1>3. PICK quiet : quiet = G!Quiet
  OBVIOUS
<1>4. quiet \in [G!Type -> Seq(G!Event)]
  BY <1>3 DEF G!Quiet
<1>5. c = [d EXCEPT !.open = FALSE, !.wire = quiet]
  BY <1>1, <1>3 DEF G!Closed
<1>6. c \in RegistryDevice /\ c.fault = d.fault /\ c.res = d.res /\ c.age = d.age
  BY <1>4, <1>5 DEF RegistryDevice
<1>7. 0 \in 0..Collection /\ 0 < Collection
  BY RegistryConstants
<1>8. /\ k \in RegistryDevice /\ k.fault = d.fault /\ k.open = d.open /\ k.res = d.res /\ k.wire = d.wire
      /\ d.res[G!Node] > 0 => k.age = 0
  <2>1. k = IF d.res[G!Node] > 0 THEN [d EXCEPT !.age = 0] ELSE d
    BY <1>2 DEF G!Kept
  <2> QED BY <1>7, <2>1 DEF RegistryDevice
<1>9. NodeAlive(d) => NodeAlive(c) /\ NodeAlive(k)
  BY <1>6, <1>7, <1>8 DEF NodeAlive
<1> QED BY <1>1, <1>2, <1>6, <1>8, <1>9

LEMMA RegistryOpenStep ==
    ASSUME RegistryPromise, G!OpenSockets
    PROVE  RegistryPromise'
<1>0. /\ IsRun /\ device \in RegistryDevice /\ noted \in RegistryNotes /\ at.tries \in Nat
      /\ device.fault = "none" => NodeAlive(device)
  BY DEF RegistryPromise, RegistryTypes, RegistryPass
<1>1. CASE at.step = "post"
  <2>1. ~G!On({"test_31"}, "open")
    BY <1>1, RegistryRun DEF On
  <2>2. ~Ended /\ Head(at.plan) = "test_31" /\ noted' = noted /\ G!PostAll({201}, noted.data[Subject], "open")
    BY <1>1, <2>1, RegistryRun DEF G!OpenSockets, On
  <2>3. /\ Forward(at.todo) /\ \A q \in G!Type : noted.data[q] = 1
        /\ device.fault = "none" => Stands(device, at.todo, 1, 0) /\ NewlyAlive(device, at.todo)
    BY <1>1, <2>2 DEF RegistryPromise, RegistryTypes, RegistryVisit, RegistryData, RegistryPass, RegistryDuty
  <2>4. Subject \in G!Type /\ Subject = Head(at.todo)
    BY <2>3, TakingTypes DEF Subject
  <2>5. PICK done, yet : done = 1 /\ yet = 0
    OBVIOUS
  <2>6. /\ done \in Versions /\ yet \in 0..3 /\ yet # done /\ ~(yet # 0) /\ done = noted.data[Subject]
        /\ device.fault = "none" => Stands(device, at.todo, done, yet)
    BY <2>3, <2>4, <2>5 DEF Versions
  <2>7. PICK r : r = G!Post(device, Subject, done)
    OBVIOUS
  <2>8. device' = r /\ IF G!Code(device, Subject) = 201 THEN G!Another("open") ELSE Conclude("FAIL")
    BY <2>2, <2>6, <2>7, RegistryRun DEF G!PostAll
  <2>9. PostKeeps(device, r)
    BY <1>0, <2>4, <2>6, <2>7, RegistryPosts
  <2>10. /\ r \in RegistryDevice /\ r.fault = device.fault /\ r.open = device.open
         /\ NodeAlive(device) => NodeAlive(r)
    BY <2>9 DEF PostKeeps
  <2>11. r = G!Post(device, Head(at.todo), done)
    BY <2>4, <2>7
  <2>12. device.fault = "none" => Reposted(device, noted, noted, at.todo, done, yet, r)
    BY <1>0, <2>3, <2>6, <2>10, <2>11, RegistryReposts
  <2>13. CASE G!Code(device, Subject) = 201
    <3>1. PostSteps("post", "open", yet, done)
      BY <2>5 DEF PostSteps
    <3>2. \A q \in G!Type : noted.data[q] = IF q = Subject THEN done ELSE noted.data[q]
      BY <2>6
    <3> QED BY <1>0, <1>1, <2>2, <2>8, <2>10, <2>12, <2>13, <3>1, <3>2, RegistryPostsOn
  <2>14. CASE G!Code(device, Subject) # 201
    <3>1. device.fault # "none"
      BY <2>4, <2>5, <2>12, <2>14 DEF Reposted
    <3>2. "FAIL" \in Verdict /\ Conclude("FAIL")
      BY <2>8, <2>14 DEF Verdict
    <3> QED BY <1>0, <2>2, <2>8, <2>10, <3>1, <3>2, RegistryEnds
  <2> QED BY <2>13, <2>14
<1>2. CASE at.step = "open"
  <2>1. ~G!On({"test_31"}, "post")
    BY <1>2, RegistryRun DEF On
  <2>2. PICK wire : wire = [r \in G!Type |-> G!Spoilt(device.fault, device.res[r], device.res[r])]
    OBVIOUS
  <2>3. PICK quiet : quiet = G!Quiet
    OBVIOUS
  <2>4. /\ ~Ended /\ Head(at.plan) = "test_31" /\ Step("sync", 0)
        /\ device' = [device EXCEPT !.open = TRUE, !.wire = wire] /\ noted' = [noted EXCEPT !.got = quiet]
    BY <1>2, <2>1, <2>2, <2>3, RegistryRun DEF G!OpenSockets, On
  <2>5. \A q \in G!Type : /\ device.res[q] \in 0..3
                          /\ G!Spoilt(device.fault, device.res[q], device.res[q]) \in Seq(G!Event)
    BY <1>0, SpoiltEvents DEF RegistryDevice
  <2>6. wire \in [G!Type -> Seq(G!Event)]
    BY <2>2, <2>5
  <2>7. quiet \in [G!Type -> Seq(G!Event)]
    BY <2>3 DEF G!Quiet
  <2>8. PICK d, n : d = device' /\ n = noted'
    OBVIOUS
  <2>9. /\ d \in RegistryDevice /\ d.fault = device.fault /\ d.res = device.res /\ d.age = device.age
        /\ d.open /\ d.wire = wire
    BY <1>0, <2>4, <2>6, <2>8 DEF RegistryDevice
  <2>10. n \in RegistryNotes /\ n.data = noted.data
    BY <1>0, <2>4, <2>7, <2>8 DEF RegistryNotes
  <2>11. GoesOn("sync", at.todo, 0)
    BY <1>0, <2>4, RunSteps
  <2>12. RegistryVisit("test_31", "sync", at.todo) /\ RegistryData(n, "test_31", "sync", at.todo)
    BY <1>2, <2>4, <2>10 DEF RegistryPromise, RegistryTypes, RegistryVisit, RegistryData
  <2>13. ASSUME device.fault = "none" PROVE NodeAlive(d) /\ RegistryDuty(d, n, "test_31", "sync", at.todo, 0)
    <3>1. AllStand(device, 1) /\ device.age = 0
      BY <1>2, <2>4, <2>13 DEF RegistryPromise, RegistryPass, RegistryDuty
    <3>2. AllStand(d, 1) /\ Waiting(d, 0)
      BY <2>9, <3>1, RegistryConstants DEF AllStand, Waiting
    <3>3. ASSUME NEW q \in G!Type PROVE Told(d, n, q, 1, 1)
      <4>1. wire[q] = G!Spoilt(device.fault, 1, 1)
        BY <2>2, <3>1 DEF AllStand
      <4>2. PICK one \in 0..3 : one = 1
        OBVIOUS
      <4>3. G!Spoilt(device.fault, 1, 1) = <<[pre |-> 1, post |-> 1]>>
        BY <2>13 DEF G!Spoilt
      <4>4. G!Range(<<[pre |-> 1, post |-> 1]>>) = {[pre |-> 1, post |-> 1]}
        BY DEF G!Range
      <4> QED BY <2>9, <4>1, <4>3, <4>4 DEF Told
    <3>4. AllTold(d, n, 1, 1)
      BY <3>3 DEF AllTold
    <3> QED BY <1>0, <2>9, <2>13, <3>2, <3>4 DEF RegistryDuty, NodeAlive
  <2> QED BY <1>0, <2>4, <2>8, <2>9, <2>10, <2>11, <2>12, <2>13, RegistryGoesOn
<1> QED BY <1>1, <1>2, RegistryRun DEF G!OpenSockets, On

\* The later posts.
LEMMA RegistryRepostStep ==
    ASSUME RegistryPromise, G!Update \/ G!Again
    PROVE  RegistryPromise'
<1>0. /\ IsRun /\ device \in RegistryDevice /\ noted \in RegistryNotes /\ at.tries \in Nat
      /\ device.fault = "none" => NodeAlive(device)
  BY DEF RegistryPromise, RegistryTypes, RegistryPass
<1>1. PICK now, next, yet, done, code :
         /\ ~Ended /\ Head(at.plan) = "test_31" /\ at.step = now /\ G!Repost(code, next)
         /\ \/ now = "update" /\ next = "modified" /\ yet = 1 /\ done = 2 /\ code = 200
            \/ now = "again" /\ next = "added" /\ yet = 0 /\ done = 3 /\ code = 201
  <2>1. CASE G!Update
    BY <2>1, RegistryRun DEF G!Update, On
  <2>2. CASE G!Again
    BY <2>2, RegistryRun DEF G!Again, On
  <2> QED BY <2>1, <2>2
<1>2. /\ PostSteps(now, next, yet, done) /\ done \in Versions /\ yet \in 0..3 /\ yet # done
      /\ code = IF yet = 0 THEN 201 ELSE 200
  BY <1>1 DEF PostSteps, Versions
<1>3. Forward(at.todo)
  BY <1>1 DEF RegistryPromise, RegistryTypes, RegistryVisit
<1>4. /\ Subject \in G!Type /\ Subject = Head(at.todo) /\ Subject \in Left(at.todo)
  BY <1>3, TakingTypes DEF Subject
<1>5. done = noted.data[Subject] + 1
  <2>1. RegistryData(noted, "test_31", now, at.todo)
    BY <1>1 DEF RegistryPromise, RegistryTypes
  <2>2. CASE now = "update" /\ done = 2
    BY <1>4, <2>1, <2>2 DEF RegistryData
  <2>3. CASE now = "again" /\ done = 3
    BY <1>4, <2>1, <2>3 DEF RegistryData
  <2> QED BY <1>1, <2>2, <2>3
<1>6. ASSUME device.fault = "none"
      PROVE  Stands(device, at.todo, done, yet) /\ NewlyAlive(device, at.todo) /\ (yet # 0 => device.age = 0)
  <2>1. RegistryDuty(device, noted, "test_31", now, at.todo, at.tries)
    BY <1>1, <1>6 DEF RegistryPromise, RegistryPass
  <2>2. CASE now = "update" /\ yet = 1 /\ done = 2
    BY <2>1, <2>2 DEF RegistryDuty, NewlyAlive
  <2>3. CASE now = "again" /\ yet = 0 /\ done = 3
    BY <2>1, <2>3 DEF RegistryDuty
  <2> QED BY <1>1, <2>2, <2>3
<1>7. PICK r : r = G!Post(device, Subject, done)
  OBVIOUS
<1>8. PICK ok \in BOOLEAN : ok <=> G!Code(device, Subject) = code
  OBVIOUS
<1>9. /\ device' = IF ok THEN r ELSE G!Closed(r)
      /\ noted' = [noted EXCEPT !.data[Subject] = done]
      /\ IF ok THEN G!Another(next) ELSE Conclude("FAIL")
  BY <1>1, <1>5, <1>7, <1>8, RegistryRun DEF G!Repost, G!Settle
<1>10. PostKeeps(device, r)
  <2>1. done \in Versions
    BY <1>2
  <2> QED BY <1>0, <1>4, <1>7, <2>1, RegistryPosts
<1>11. r \in RegistryDevice /\ r.fault = device.fault /\ r.open = device.open /\ (NodeAlive(device) => NodeAlive(r))
  BY <1>10 DEF PostKeeps
<1>12. PICK data : data = [noted.data EXCEPT ![Subject] = done]
  OBVIOUS
<1>13. /\ data \in [G!Type -> 1..3]
       /\ \A q \in G!Type : data[q] = IF q = Subject THEN done ELSE noted.data[q]
  BY <1>0, <1>2, <1>12 DEF RegistryNotes, Versions
<1>14. PICK n : n = noted'
  OBVIOUS
<1>15. n = [noted EXCEPT !.data = data]
  BY <1>9, <1>12, <1>14
<1>16. n \in RegistryNotes /\ n.data = data /\ n.old = noted.old /\ n.got = noted.got
  BY <1>0, <1>13, <1>15 DEF RegistryNotes
<1>17. r = G!Post(device, Head(at.todo), done)
  BY <1>4, <1>7
<1>18. device.fault = "none" => Reposted(device, noted, n, at.todo, done, yet, r)
  BY <1>0, <1>2, <1>3, <1>6, <1>11, <1>16, <1>17, RegistryReposts
<1>19. CASE ok
  BY <1>1, <1>2, <1>9, <1>11, <1>13, <1>14, <1>16, <1>18, <1>19, RegistryPostsOn
<1>20. CASE ~ok
  <2>1. device.fault # "none"
    BY <1>2, <1>4, <1>8, <1>18, <1>20 DEF Reposted
  <2>2. "FAIL" \in Verdict /\ Conclude("FAIL") /\ device' = G!Closed(r)
    BY <1>9, <1>20 DEF Verdict
  <2>3. G!Closed(r) \in RegistryDevice /\ G!Closed(r).fault = r.fault
    BY <1>11, RegistryCloses
  <2> QED BY <1>1, <1>11, <1>14, <1>16, <2>1, <2>2, <2>3, RegistryEnds
<1> QED BY <1>19, <1>20


\* The messages that have come by the end of a sleep: the next step, or the end of the test.
LEMMA RegistryHears ==
    ASSUME RegistryPromise, NEW now, G!Slept("test_31", now), NEW next, NEW todo, NEW ok \in BOOLEAN,
           NEW d \in RegistryDevice, d.fault = device.fault,
           device.fault = "none" => NodeAlive(d),
           device' = IF ok THEN d ELSE G!Closed(d),
           noted' = [noted EXCEPT !.got = G!Quiet, !.old = noted.data],
           ok => GoesOn(next, todo, 0),
           ~ok => Conclude("FAIL") /\ device.fault # "none",
           RegistryVisit("test_31", next, todo),
           \A n \in RegistryNotes : n.data = noted.data => RegistryData(n, "test_31", next, todo),
           device.fault = "none" => \A n \in RegistryNotes : n.data = noted.data /\ n.old = noted.data =>
               RegistryDuty(d, n, "test_31", next, todo, 0)
    PROVE  RegistryPromise'
<1>0. IsRun /\ noted \in RegistryNotes /\ ~Ended /\ Head(at.plan) = "test_31"
  BY RegistryRun DEF RegistryPromise, RegistryTypes, G!Slept, On
<1>1. PICK quiet : quiet = G!Quiet
  OBVIOUS
<1>2. quiet \in [G!Type -> Seq(G!Event)]
  BY <1>1 DEF G!Quiet
<1>3. PICK n : n = noted'
  OBVIOUS
<1>4. n = [noted EXCEPT !.got = quiet, !.old = noted.data]
  BY <1>1, <1>3
<1>5. n \in RegistryNotes /\ n.data = noted.data /\ n.old = noted.data
  BY <1>0, <1>2, <1>4 DEF RegistryNotes
<1>6. RegistryData(n, "test_31", next, todo)
  BY <1>5
<1>7. device.fault = "none" => RegistryDuty(d, n, "test_31", next, todo, 0)
  BY <1>5
<1>8. CASE ok
  <2>1. device' = d /\ GoesOn(next, todo, 0)
    BY <1>8
  <2> QED BY <1>0, <1>3, <1>5, <1>6, <1>7, <2>1, RegistryGoesOn
<1>9. CASE ~ok
  <2>1. device' = G!Closed(d) /\ Conclude("FAIL") /\ device.fault # "none" /\ "FAIL" \in Verdict
    BY <1>9 DEF Verdict
  <2>2. G!Closed(d) \in RegistryDevice /\ G!Closed(d).fault = d.fault
    BY RegistryCloses
  <2> QED BY <1>0, <1>3, <1>5, <2>1, <2>2, RegistryEnds
<1> QED BY <1>8, <1>9

\* What has been told of a resource has come by the end of a sleep.
LEMMA RegistryHasCome ==
    ASSUME RegistryPromise, device.fault = "none", NEW now \in {"sync", "modified", "removed", "added"},
           G!Slept("test_31", now)
    PROVE  /\ \A q \in G!Type : \A a, b : Told(device, noted, q, a, b) => G!Got(q, a, b)
           /\ RegistryDuty(device, noted, "test_31", now, at.todo, at.tries) /\ NodeAlive(device)
           /\ RegistryData(noted, "test_31", now, at.todo)
<1>1. ~Ended /\ Head(at.plan) = "test_31" /\ at.step = now /\ at.tries = WsTimeout
  BY RegistryRun, RegistrySleeps DEF G!Slept, On
<1>2. /\ RegistryDuty(device, noted, "test_31", now, at.todo, at.tries) /\ NodeAlive(device)
      /\ RegistryData(noted, "test_31", now, at.todo)
  BY <1>1 DEF RegistryPromise, RegistryPass, RegistryTypes
<1>3. Waiting(device, at.tries)
  BY <1>2 DEF RegistryDuty
<1>4. \A q \in G!Type : device.wire[q] = <<>>
  BY <1>1, <1>3 DEF Waiting
<1>5. G!Range(<<>>) = {}
  BY DEF G!Range
<1>6. \A q \in G!Type : \A a, b : Told(device, noted, q, a, b) => G!Got(q, a, b)
  BY <1>4, <1>5 DEF Told, G!Got
<1> QED BY <1>2, <1>6

LEMMA RegistryHeardStep ==
    ASSUME RegistryPromise, G!SyncHeard \/ G!ModifiedHeard \/ G!RemovedHeard
    PROVE  RegistryPromise'
<1>0. IsRun /\ device \in RegistryDevice /\ noted \in RegistryNotes /\ at.tries \in Nat
  BY DEF RegistryPromise, RegistryTypes
<1>a. PICK k : k = G!Kept(device)
  OBVIOUS
<1>b. /\ k \in RegistryDevice /\ k.fault = device.fault /\ k.open = device.open
      /\ k.res = device.res /\ k.wire = device.wire
      /\ device.res[G!Node] > 0 => k.age = 0
      /\ NodeAlive(device) => NodeAlive(k)
  BY <1>0, <1>a, RegistryCloses
<1>c. G!Node \in G!Type
  BY RegistryConstants
<1>1. CASE G!SyncHeard
  <2>1. PICK ok \in BOOLEAN : ok <=> \A r \in G!Type : G!Got(r, noted.data[r], noted.data[r])
    OBVIOUS
  <2>2. /\ G!Slept("test_31", "sync") /\ device' = IF ok THEN k ELSE G!Closed(k)
        /\ noted' = [noted EXCEPT !.got = G!Quiet, !.old = noted.data]
        /\ IF ok THEN at' = [at EXCEPT !.step = "update", !.todo = Types, !.tries = 0] /\ verdict' = verdict
           ELSE Conclude("FAIL")
    BY <1>1, <1>a, <2>1, RegistryRun DEF G!SyncHeard, G!Heard, G!Settle
  <2>a. at.step = "sync" /\ Head(at.plan) = "test_31" /\ ~Ended
    BY <2>2, RegistryRun DEF G!Slept, On
  <2>b. ok => GoesOn("update", Types, 0)
    BY <1>0, <2>2 DEF IsRun, GoesOn
  <2>3. (ok => GoesOn("update", Types, 0)) /\ at.step = "sync" /\ Head(at.plan) = "test_31" /\ ~Ended
    BY <2>a, <2>b
  <2>4. \A q \in G!Type : noted.data[q] = 1
    BY <2>3 DEF RegistryPromise, RegistryTypes, RegistryData
  <2>5. ASSUME device.fault = "none"
        PROVE  /\ ok /\ NodeAlive(k)
               /\ AllStand(k, 1) /\ k.age = 0 /\ k.open
    <3>1. /\ \A q \in G!Type : \A a, b : Told(device, noted, q, a, b) => G!Got(q, a, b)
          /\ RegistryDuty(device, noted, "test_31", "sync", at.todo, at.tries) /\ NodeAlive(device)
      BY <2>2, <2>5, RegistryHasCome
    <3>2. AllStand(device, 1) /\ AllTold(device, noted, 1, 1) /\ device.open
      BY <3>1 DEF RegistryDuty, Waiting
    <3>3. \A q \in G!Type : G!Got(q, 1, 1)
      BY <3>1, <3>2 DEF AllTold
    <3>4. device.res[G!Node] > 0
      BY <1>c, <3>2 DEF AllStand
    <3> QED BY <1>b, <2>1, <2>4, <3>1, <3>2, <3>3, <3>4 DEF AllStand
  <2>6. RegistryVisit("test_31", "update", Types)
    BY TakingInOrder DEF RegistryVisit
  <2>7. \A n \in RegistryNotes : n.data = noted.data => RegistryData(n, "test_31", "update", Types)
    BY <2>4, TakingInOrder DEF RegistryData
  <2>8. ASSUME device.fault = "none", NEW n \in RegistryNotes, n.old = noted.data
        PROVE  RegistryDuty(k, n, "test_31", "update", Types, 0)
    <3>1. Stands(k, Types, 2, 1) /\ DoneTold(k, n, Types, 1, 2)
      BY <2>5, <2>8, TakingInOrder DEF Stands, DoneTold, AllStand
    <3> QED BY <2>4, <2>5, <2>8, <3>1 DEF RegistryDuty
  <2> QED BY <1>b, <2>2, <2>3, <2>5, <2>6, <2>7, <2>8, RegistryHears
<1>2. CASE G!ModifiedHeard
  <2>0. PICK reversed : reversed = G!Reverse(Types)
    OBVIOUS
  <2>1. PICK ok \in BOOLEAN : ok <=> \A r \in G!Type : G!Got(r, noted.old[r], noted.data[r])
    OBVIOUS
  <2>2. /\ G!Slept("test_31", "modified") /\ device' = IF ok THEN k ELSE G!Closed(k)
        /\ noted' = [noted EXCEPT !.got = G!Quiet, !.old = noted.data]
        /\ IF ok THEN at' = [at EXCEPT !.step = "delete", !.todo = reversed, !.tries = 0] /\ verdict' = verdict
           ELSE Conclude("FAIL")
    BY <1>2, <1>a, <2>0, <2>1, RegistryRun DEF G!ModifiedHeard, G!Heard, G!Settle
  <2>a. at.step = "modified" /\ Head(at.plan) = "test_31" /\ ~Ended
    BY <2>2, RegistryRun DEF G!Slept, On
  <2>b. ok => GoesOn("delete", reversed, 0)
    BY <1>0, <2>2 DEF IsRun, GoesOn
  <2>3. (ok => GoesOn("delete", reversed, 0)) /\ at.step = "modified" /\ Head(at.plan) = "test_31" /\ ~Ended
    BY <2>a, <2>b
  <2>4. \A q \in G!Type : noted.data[q] = 2
    BY <2>3 DEF RegistryPromise, RegistryTypes, RegistryData
  <2>5. ASSUME device.fault = "none"
        PROVE  /\ ok /\ NodeAlive(k)
               /\ AllStand(k, 2) /\ k.age = 0 /\ k.open
    <3>1. /\ \A q \in G!Type : \A a, b : Told(device, noted, q, a, b) => G!Got(q, a, b)
          /\ RegistryDuty(device, noted, "test_31", "modified", at.todo, at.tries) /\ NodeAlive(device)
      BY <2>2, <2>5, RegistryHasCome
    <3>2. /\ AllStand(device, 2) /\ AllTold(device, noted, 1, 2) /\ device.open
          /\ \A q \in G!Type : noted.old[q] = 1
      BY <3>1 DEF RegistryDuty, Waiting
    <3>3. \A q \in G!Type : G!Got(q, 1, 2)
      BY <3>1, <3>2 DEF AllTold
    <3>4. device.res[G!Node] > 0
      BY <1>c, <3>2 DEF AllStand
    <3> QED BY <1>b, <2>1, <2>4, <3>1, <3>2, <3>3, <3>4 DEF AllStand
  <2>6. Backward(reversed) /\ Left(reversed) = G!Type
    <3>1. /\ Len(Types) \in Nat \ {0} /\ \A j \in 1..Len(Types) : Types[j] \in G!Type
          /\ \A r \in G!Type : \E j \in 1..Len(Types) : r = Types[j]
      BY RegistryConstants
    <3>2. PICK last : last = Len(Types)
      OBVIOUS
    <3>3. last \in Nat \ {0} /\ reversed = [n \in 1..last |-> Types[(last - n) + 1]]
      BY <2>0, <3>1, <3>2 DEF G!Reverse
    <3>4. \A j \in 1..last : last + 1 - j \in 1..last /\ last + 1 - (last + 1 - j) = j
      BY <3>3
    <3>5. reversed \in Seq(G!Type) /\ Len(reversed) = last /\ DOMAIN reversed = 1..last
      BY <3>1, <3>2, <3>3, <3>4
    <3>6. \A j \in 1..last : reversed[j] = Types[last + 1 - j] /\ reversed[last + 1 - j] = Types[j]
      <4>1. \A j \in 1..last : (last - j) + 1 = last + 1 - j
        BY <3>3
      <4> QED BY <3>3, <3>4, <4>1
    <3>7. Backward(reversed)
      BY <3>2, <3>3, <3>5, <3>6 DEF Backward
    <3>8. G!Type \subseteq Left(reversed)
      <4>1. ASSUME NEW r \in G!Type PROVE r \in Left(reversed)
        <5>1. PICK j \in 1..last : r = Types[j]
          BY <3>1, <3>2
        <5>2. PICK i : i = last + 1 - j
          OBVIOUS
        <5>3. i \in DOMAIN reversed /\ reversed[i] = r
          BY <3>4, <3>5, <3>6, <5>1, <5>2
        <5> QED BY <5>3 DEF Left, G!Range
      <4> QED BY <4>1
    <3> QED BY <3>7, <3>8, TakingTypes
  <2>7. RegistryVisit("test_31", "delete", reversed)
    BY <2>6 DEF RegistryVisit
  <2>8. \A n \in RegistryNotes : n.data = noted.data => RegistryData(n, "test_31", "delete", reversed)
    BY <2>4 DEF RegistryData
  <2>9. ASSUME device.fault = "none", NEW n \in RegistryNotes PROVE RegistryDuty(k, n, "test_31", "delete", reversed, 0)
    <3>1. Stands(k, reversed, 0, 2) /\ DoneTold(k, n, reversed, 2, 0)
      BY <2>5, <2>6, <2>9 DEF Stands, DoneTold, AllStand
    <3> QED BY <2>5, <2>9, <3>1 DEF RegistryDuty
  <2> QED BY <1>b, <2>2, <2>3, <2>5, <2>7, <2>8, <2>9, RegistryHears
<1>3. CASE G!RemovedHeard
  <2>1. PICK ok \in BOOLEAN : ok <=> \A r \in G!Type : G!Got(r, noted.data[r], 0)
    OBVIOUS
  <2>2. /\ G!Slept("test_31", "removed") /\ device' = IF ok THEN device ELSE G!Closed(device)
        /\ noted' = [noted EXCEPT !.got = G!Quiet, !.old = noted.data]
        /\ IF ok THEN at' = [at EXCEPT !.step = "again", !.todo = Types, !.tries = 0] /\ verdict' = verdict
           ELSE Conclude("FAIL")
    BY <1>3, <2>1, RegistryRun DEF G!RemovedHeard, G!Heard, G!Settle
  <2>a. at.step = "removed" /\ Head(at.plan) = "test_31" /\ ~Ended
    BY <2>2, RegistryRun DEF G!Slept, On
  <2>b. ok => GoesOn("again", Types, 0)
    BY <1>0, <2>2 DEF IsRun, GoesOn
  <2>3. (ok => GoesOn("again", Types, 0)) /\ at.step = "removed" /\ Head(at.plan) = "test_31" /\ ~Ended
    BY <2>a, <2>b
  <2>4. \A q \in G!Type : noted.data[q] = 2
    BY <2>3 DEF RegistryPromise, RegistryTypes, RegistryData
  <2>5. ASSUME device.fault = "none"
        PROVE  ok /\ NodeAlive(device) /\ AllStand(device, 0) /\ device.open
    <3>1. /\ \A q \in G!Type : \A a, b : Told(device, noted, q, a, b) => G!Got(q, a, b)
          /\ RegistryDuty(device, noted, "test_31", "removed", at.todo, at.tries) /\ NodeAlive(device)
      BY <2>2, <2>5, RegistryHasCome
    <3>2. AllStand(device, 0) /\ AllTold(device, noted, 2, 0) /\ device.open
      BY <3>1 DEF RegistryDuty, Waiting
    <3>3. \A q \in G!Type : G!Got(q, 2, 0)
      BY <3>1, <3>2 DEF AllTold
    <3> QED BY <2>1, <2>4, <3>1, <3>2, <3>3
  <2>6. RegistryVisit("test_31", "again", Types)
    BY TakingInOrder DEF RegistryVisit
  <2>7. \A n \in RegistryNotes : n.data = noted.data => RegistryData(n, "test_31", "again", Types)
    BY <2>4, TakingInOrder DEF RegistryData
  <2>8. ASSUME device.fault = "none", NEW n \in RegistryNotes
        PROVE  RegistryDuty(device, n, "test_31", "again", Types, 0)
    <3>1. Stands(device, Types, 3, 0) /\ DoneTold(device, n, Types, 0, 3) /\ NewlyAlive(device, Types)
      BY <2>5, <2>8, TakingInOrder DEF Stands, DoneTold, AllStand, NewlyAlive
    <3> QED BY <2>5, <2>8, <3>1 DEF RegistryDuty
  <2>9. PICK d : d = device
    OBVIOUS
  <2> QED BY <1>0, <2>2, <2>3, <2>5, <2>6, <2>7, <2>8, <2>9, RegistryHears
<1> QED BY <1>1, <1>2, <1>3


\* The removals, and the end of test_31.
LEMMA RegistryDeleteStep ==
    ASSUME RegistryPromise, G!Delete
    PROVE  RegistryPromise'
<1>0. /\ IsRun /\ device \in RegistryDevice /\ noted \in RegistryNotes /\ at.tries \in Nat
      /\ device.fault = "none" => NodeAlive(device)
  BY DEF RegistryPromise, RegistryTypes, RegistryPass
<1>1. /\ ~Ended /\ Head(at.plan) = "test_31" /\ at.step = "delete" /\ noted' = noted
      /\ device' = G!Settle(G!Unregister(device, G!Removed(device, Subject)), device.res[Subject] > 0)
      /\ IF device.res[Subject] > 0 THEN G!Another("removed") ELSE Conclude("FAIL")
  BY RegistryRun DEF G!Delete, On
<1>2. /\ Backward(at.todo) /\ RegistryData(noted, "test_31", "delete", at.todo)
      /\ device.fault = "none" => RegistryDuty(device, noted, "test_31", "delete", at.todo, at.tries)
  BY <1>1 DEF RegistryPromise, RegistryTypes, RegistryVisit, RegistryPass
<1>3. /\ Subject \in G!Type /\ Subject = Head(at.todo) /\ Subject \in Left(at.todo)
      /\ Left(at.todo) \subseteq G!Type
      /\ Len(at.todo) = 1 => Left(at.todo) = {Subject}
      /\ Len(at.todo) # 1 => Backward(Tail(at.todo)) /\ Left(Tail(at.todo)) = Left(at.todo) \ {Subject}
  BY <1>2, TakingTypes DEF Subject
<1>4. PICK gone : gone = G!Removed(device, Subject)
  OBVIOUS
<1>5. PICK r : r = G!Unregister(device, gone)
  OBVIOUS
<1>6. /\ r \in RegistryDevice /\ r.fault = device.fault /\ r.age = device.age /\ r.open = device.open
      /\ \A q \in G!Type : r.res[q] = IF q \in gone THEN 0 ELSE device.res[q]
      /\ \A q \in G!Type : q \notin gone \/ device.res[q] = 0 => r.wire[q] = device.wire[q]
      /\ device.fault = "none" /\ device.open => \A q \in G!Type : q \in gone /\ device.res[q] > 0 =>
             r.wire[q] = device.wire[q] \o <<[pre |-> device.res[q], post |-> 0]>>
  BY <1>0, <1>5, RegistryRemoves
<1>7. /\ device.res[Subject] > 0 => device' = r
      /\ ~(device.res[Subject] > 0) => device' = G!Closed(r)
  BY <1>1, <1>4, <1>5 DEF G!Settle
<1>8. ASSUME device.fault = "none"
      PROVE  /\ device.res[Subject] > 0 /\ NodeAlive(r) /\ r.age = 0 /\ r.open
             /\ \A q \in G!Type : r.res[q] = IF q \in Left(at.todo) \ {Subject} THEN 2 ELSE 0
             /\ \A q \in G!Type \ (Left(at.todo) \ {Subject}) : Told(r, noted, q, 2, 0)
  <2>1. /\ \A q \in G!Type : device.res[q] = IF q \in Left(at.todo) THEN 2 ELSE 0
        /\ \A q \in G!Type \ Left(at.todo) : Told(device, noted, q, 2, 0)
        /\ device.open /\ device.age = 0
    BY <1>2, <1>8 DEF RegistryDuty, Stands, DoneTold
  <2>2. gone \cap Left(at.todo) = {Subject}
    BY <1>2, <1>3, <1>4, <1>8, TakingInOrder DEF G!Removed
  <2>3. \A q \in G!Type : r.res[q] = IF q \in Left(at.todo) \ {Subject} THEN 2 ELSE 0
    BY <1>3, <1>6, <2>1, <2>2
  <2>4. ASSUME NEW q \in G!Type \ (Left(at.todo) \ {Subject}) PROVE Told(r, noted, q, 2, 0)
    <3>1. PICK two \in 0..3, zero \in 0..3 : two = 2 /\ zero = 0
      OBVIOUS
    <3>2. CASE q = Subject
      <4>1. r.wire[q] = device.wire[q] \o <<[pre |-> two, post |-> zero]>>
        <5>1. q \in G!Type /\ q \in gone /\ device.res[q] = two /\ device.res[q] > 0
          BY <1>3, <2>1, <2>2, <3>1, <3>2
        <5>2. r.wire[q] = device.wire[q] \o <<[pre |-> device.res[q], post |-> 0]>>
          BY <1>6, <1>8, <2>1, <5>1
        <5> QED BY <3>1, <5>1, <5>2
      <4>2. two \in 0..3 /\ zero \in 0..3 /\ q \in G!Type
        BY <1>3, <3>1, <3>2
      <4>3. Told(r, noted, q, two, zero)
        BY <1>0, <1>6, <4>1, <4>2, RegistryTells
      <4> QED BY <3>1, <4>3
    <3>3. CASE q # Subject
      <4>1. Told(device, noted, q, 2, 0) /\ r.wire[q] = device.wire[q]
        BY <1>6, <2>1, <2>4, <3>3
      <4> QED BY <4>1 DEF Told
    <3> QED BY <3>2, <3>3
  <2>5. NodeAlive(r)
    BY <1>6, <2>1, RegistryConstants DEF NodeAlive
  <2> QED BY <1>3, <1>6, <2>1, <2>3, <2>4, <2>5
<1>9. CASE ~(device.res[Subject] > 0)
  <2>1. device.fault # "none" /\ "FAIL" \in Verdict /\ Conclude("FAIL") /\ device' = G!Closed(r)
    BY <1>1, <1>7, <1>8, <1>9 DEF Verdict
  <2>2. G!Closed(r) \in RegistryDevice /\ G!Closed(r).fault = r.fault
    BY <1>6, RegistryCloses
  <2> QED BY <1>0, <1>1, <1>6, <2>1, <2>2, RegistryEnds
<1>10. CASE device.res[Subject] > 0
  <2>1. \/ Len(at.todo) = 1 /\ GoesOn("removed", at.todo, 0)
        \/ Len(at.todo) # 1 /\ GoesOn("delete", Tail(at.todo), at.tries)
    BY <1>0, <1>1, <1>10, RegistryAnother
  <2>2. device' = r
    BY <1>7, <1>10
  <2>3. CASE Len(at.todo) = 1 /\ GoesOn("removed", at.todo, 0)
    <3>1. RegistryVisit("test_31", "removed", at.todo) /\ RegistryData(noted, "test_31", "removed", at.todo)
      BY <1>2 DEF RegistryVisit, RegistryData
    <3>2. ASSUME device.fault = "none" PROVE RegistryDuty(r, noted, "test_31", "removed", at.todo, 0)
      <4>1. AllStand(r, 0) /\ AllTold(r, noted, 2, 0)
        BY <1>3, <1>8, <2>3, <3>2 DEF AllStand, AllTold
      <4>2. Waiting(r, 0)
        BY <1>8, <3>2, RegistryConstants DEF Waiting
      <4> QED BY <4>1, <4>2 DEF RegistryDuty
    <3> QED BY <1>0, <1>1, <1>6, <1>8, <2>2, <2>3, <3>1, <3>2, RegistryGoesOn
  <2>4. CASE Len(at.todo) # 1 /\ GoesOn("delete", Tail(at.todo), at.tries)
    <3>0. Backward(Tail(at.todo)) /\ Left(Tail(at.todo)) = Left(at.todo) \ {Subject}
      BY <1>3, <2>4
    <3>1. /\ RegistryVisit("test_31", "delete", Tail(at.todo))
          /\ RegistryData(noted, "test_31", "delete", Tail(at.todo))
      BY <1>2, <3>0 DEF RegistryVisit, RegistryData
    <3>2. ASSUME device.fault = "none"
          PROVE  RegistryDuty(r, noted, "test_31", "delete", Tail(at.todo), at.tries)
      <4>1. Stands(r, Tail(at.todo), 0, 2) /\ DoneTold(r, noted, Tail(at.todo), 2, 0)
        BY <1>8, <3>0, <3>2 DEF Stands, DoneTold
      <4> QED BY <1>8, <3>2, <4>1 DEF RegistryDuty
    <3> QED BY <1>0, <1>1, <1>6, <1>8, <2>2, <2>4, <3>1, <3>2, RegistryGoesOn
  <2> QED BY <2>1, <2>3, <2>4
<1> QED BY <1>9, <1>10

LEMMA RegistryAddedStep ==
    ASSUME RegistryPromise, G!Added
    PROVE  RegistryPromise'
<1>0. /\ IsRun /\ device \in RegistryDevice /\ noted \in RegistryNotes
      /\ device.fault = "none" => NodeAlive(device)
  BY DEF RegistryPromise, RegistryTypes, RegistryPass
<1>1. PICK quiet : quiet = G!Quiet
  OBVIOUS
<1>2. /\ G!Slept("test_31", "added") /\ device' = G!Closed(device) /\ noted' = [noted EXCEPT !.got = quiet]
      /\ Conclude("PASS") \/ (Conclude("FAIL") /\ ~\A r \in G!Type : G!Got(r, 0, noted.data[r]))
  BY <1>1, RegistryRun DEF G!Added, G!Judged
<1>3. ~Ended /\ Head(at.plan) = "test_31" /\ at.step = "added"
  BY <1>2, RegistryRun DEF G!Slept, On
<1>4. quiet \in [G!Type -> Seq(G!Event)]
  BY <1>1 DEF G!Quiet
<1>5. noted' \in RegistryNotes
  BY <1>0, <1>2, <1>4 DEF RegistryNotes
<1>6. ASSUME device.fault = "none" PROVE \A r \in G!Type : G!Got(r, 0, noted.data[r])
  <2>1. \A r \in G!Type : noted.data[r] = 3
    BY <1>3 DEF RegistryPromise, RegistryTypes, RegistryData
  <2>2. /\ \A q \in G!Type : \A a, b : Told(device, noted, q, a, b) => G!Got(q, a, b)
        /\ RegistryDuty(device, noted, "test_31", "added", at.todo, at.tries)
    BY <1>2, <1>6, RegistryHasCome
  <2>3. \A q \in G!Type : Told(device, noted, q, 0, 3)
    BY <2>2 DEF RegistryDuty, AllTold
  <2> QED BY <2>1, <2>2, <2>3
<1>7. /\ G!Closed(device) \in RegistryDevice /\ G!Closed(device).fault = device.fault
      /\ NodeAlive(device) => NodeAlive(G!Closed(device))
  BY <1>0, RegistryCloses
<1>8. {"PASS", "FAIL"} \subseteq Verdict
  BY DEF Verdict
<1>9. CASE Conclude("PASS")
  BY <1>0, <1>2, <1>3, <1>5, <1>7, <1>8, <1>9, RegistryEnds
<1>10. CASE Conclude("FAIL") /\ device.fault # "none"
  BY <1>0, <1>2, <1>3, <1>5, <1>7, <1>8, <1>10, RegistryEnds
<1> QED BY <1>2, <1>6, <1>9, <1>10

LEMMA RegistryPromiseKept ==
    ASSUME RegistryPromise, [G!Next]_suiteVars
    PROVE  RegistryPromise'
<1>1. CASE G!Next
  <2>1. CASE G!Events
    BY <2>1, RegistryCleanStep, RegistryOpenStep, RegistryHeardStep, RegistryRepostStep, RegistryDeleteStep,
       RegistryAddedStep DEF G!Events
  <2> QED BY <1>1, <2>1, RegistryTickStep, RegistryDeliverStep, RegistryJudgesStep, RegistryOneByOneStep
       DEF G!Next
<1>2. CASE UNCHANGED suiteVars
  <2>1. at' = at /\ verdict' = verdict /\ device' = device /\ noted' = noted
    BY <1>2 DEF suiteVars
  <2>2. RegistryTypes'
    <3>a. IsRun /\ Judged /\ at'.tries \in Nat
      BY <2>1 DEF RegistryPromise, RegistryTypes
    <3>b. GoesOn(at.step, at.todo, at.tries)
      BY <2>1, <3>a DEF GoesOn, IsRun
    <3>1. IsRun' /\ Judged' /\ at'.tries \in Nat /\ (Ended' <=> Ended)
      BY <3>a, <3>b, RunGoesOn
    <3>2. device' \in RegistryDevice /\ noted' \in RegistryNotes
      BY <2>1 DEF RegistryPromise, RegistryTypes
    <3>3. at.step # "begin" =>
              /\ ~Ended /\ RegistryVisit(Head(at.plan), at.step, at.todo)
              /\ RegistryData(noted, Head(at.plan), at.step, at.todo)
      BY DEF RegistryPromise, RegistryTypes
    <3>4. RegistryData(noted', Head(at'.plan), at'.step, at'.todo)
              <=> RegistryData(noted, Head(at.plan), at.step, at.todo)
      BY <2>1
    <3> QED BY <2>1, <3>1, <3>2, <3>3, <3>4 DEF RegistryTypes, RegistryVisit, RegistryData, Forward, Backward, Left
  <2>3. RegistryPass => RegistryPass'
    BY <2>1 DEF RegistryPass, NoneFailed, RegistryDuty, NodeAlive, Left, Stands, AllStand, AllTold, DoneTold,
       NewlyAlive, Waiting, Told
  <2> QED BY <2>1, <2>2, <2>3 DEF RegistryPromise
<1> QED BY <1>1, <1>2

LEMMA RegistryBegins ==
    ASSUME G!Init
    PROVE  RegistryPromise
<1>1. PICK fault \in G!Faults, left \in {0, 1}, age \in 0..(Collection - 1), renews \in BOOLEAN :
         /\ device = [fault |-> fault, renews |-> renews, res |-> [r \in G!Type |-> left],
                      age |-> IF left = 0 THEN 0 ELSE age, wire |-> G!Quiet, open |-> FALSE]
         /\ noted = [data |-> [r \in G!Type |-> 1], old |-> [r \in G!Type |-> 1], got |-> G!Quiet]
  BY DEF G!Init
<1>2. PICK order : order = G!Order
  OBVIOUS
<1>3. order = [k \in 1..11 |-> order[k]] /\ \A k \in 1..11 : order[k] # "tear_down_tests"
  BY <1>2 DEF G!Order
<1>4. PICK plan \in Plans(order) : at = Position(plan)
  BY <1>2 DEF G!Init, G!Plans, Plans, G!Position, Position
<1>5. verdict = NoVerdicts(order)
  BY <1>2 DEF G!Init, G!NoVerdicts, NoVerdicts
<1>6. IsRun /\ at.step = "begin" /\ Judged /\ NoneFailed
  BY <1>3, <1>4, <1>5, RunBegins
<1>7. at.tries \in Nat
  BY <1>4 DEF Position
<1>a. PICK quiet : quiet = G!Quiet
  OBVIOUS
<1>8. quiet = G!Quiet /\ quiet \in [G!Type -> Seq(G!Event)]
  BY <1>a DEF G!Quiet
<1>9. PICK start : start = IF left = 0 THEN 0 ELSE age
  OBVIOUS
<1>10. start \in 0..Collection /\ start < Collection
  BY <1>9, RegistryConstants
<1>11. PICK res : res = [r \in G!Type |-> left]
  OBVIOUS
<1>12. res \in [G!Type -> 0..3]
  BY <1>11
<1>13. device = [fault |-> fault, renews |-> renews, res |-> res, age |-> start, wire |-> quiet, open |-> FALSE]
  BY <1>1, <1>8, <1>9, <1>11
<1>14. device \in RegistryDevice /\ NodeAlive(device)
  BY <1>8, <1>10, <1>12, <1>13 DEF RegistryDevice, NodeAlive
<1>15. PICK ones : ones = [r \in G!Type |-> 1]
  OBVIOUS
<1>16. ones \in [G!Type -> 1..3]
  BY <1>15
<1>17. noted = [data |-> ones, old |-> ones, got |-> quiet]
  BY <1>1, <1>8, <1>15
<1>18. noted \in RegistryNotes
  BY <1>8, <1>16, <1>17 DEF RegistryNotes
<1> QED BY <1>6, <1>7, <1>14, <1>18 DEF RegistryPromise, RegistryTypes, RegistryPass

LEMMA RegistrySpeaks ==
    ASSUME RegistryPromise
    PROVE  G!TypeOK /\ G!ConformingRegistryPasses
<1>1. /\ Judged /\ device \in RegistryDevice /\ noted \in RegistryNotes
  BY DEF RegistryPromise, RegistryTypes
<1>2. ASSUME NEW r \in G!Type PROVE G!Range(device.wire[r]) \cup G!Range(noted.got[r]) \subseteq G!Event
  <2>1. device.wire[r] \in Seq(G!Event) /\ noted.got[r] \in Seq(G!Event)
    BY <1>1 DEF RegistryDevice, RegistryNotes
  <2> QED BY <2>1 DEF G!Range
<1>3. device.res \in [G!Type -> 0..3] /\ device.age \in 0..Collection /\ noted.data \in [G!Type -> 1..3]
  BY <1>1 DEF RegistryDevice, RegistryNotes
<1>4. G!TypeOK
  BY <1>1, <1>2, <1>3 DEF G!TypeOK, Judged, G!Verdict, Verdict
<1>5. G!ConformingRegistryPasses
  BY DEF RegistryPromise, RegistryPass, NoneFailed, G!ConformingRegistryPasses
<1> QED BY <1>4, <1>5


-----------------------------------------------------------------------------
(* IS-11: the Inputs and their EDIDs.                                       *)

InputDevice ==
    [fault : E!Faults, pace : {"instant", "prompt", "slow"}, network : {"fine", "failing", "failed"},
     base : [MediaInput -> {"none", "valid", "adjustable", "invalid"}],
     effective : [MediaInput -> {"default", "valid", "adjusted"}],
     signal : [MediaInput -> {"none", "awaiting", "present"}], changed : SUBSET (Sender \cup MediaInput)]
InputNotes ==
    [with : Seq(Sender), silent : SUBSET MediaInput, edid : {"default", "valid", "adjusted"}]

\* The Inputs that a test visits.
InputsVisited(t) ==
    IF t = "test_01_00" THEN Connected
    ELSE IF t \in {"test_01_02", "test_01_03", "test_01_05", "tear_down_tests"} THEN Base
    ELSE IF t = "test_01_04" THEN MediaInput \ Edid
    ELSE IF t = "test_01_06" THEN Adjust ELSE Base \cup {NoInput}

InputTypes ==
    /\ IsRun /\ Judged /\ at.tries \in Nat /\ device \in InputDevice /\ noted \in InputNotes
    /\ at.step # "begin" => /\ ~Ended /\ at.todo \in Seq(InputsVisited(Head(at.plan))) /\ at.todo # <<>>
                            /\ at.step # "visit" => Head(at.todo) \in MediaInput

\* An Input has a Base EDID only while a test has put one there ...
Clean(d, held) ==
    \A j \in MediaInput \ held : d.base[j] # "valid" /\ (d.pace = "instant" => d.base[j] = "none")

\* ... which the test then sees, with its effects.
InputDuty(d, n, t, step, i) ==
    /\ Clean(d, IF step \in {"effective", "put", "delete"} THEN {i} ELSE {})
    /\ t = "test_01_02" /\ step = "effective" => d.base[i] = "valid"
    /\ t = "test_01_06" /\ step = "effective" => d.base[i] = "adjustable"
    /\ d.pace = "instant" /\ t \in {"test_01_02", "test_01_06"} /\ step # "visit" => n.edid = "default"
    /\ t = "test_01_05" /\ step \in {"put", "delete"} => d.base[i] = "valid"
    /\ step \in {"put", "deleted"} => {i} \cup E!SendersOf(i) \subseteq d.changed

\* The tests that may fail such a device.
Excused(t, d, n) ==
    \/ t \in {"test_01_02", "test_01_06"} /\ d.pace = "prompt"
    \/ t = "test_01_00" /\ n.silent # {}

FewFailed == \A t \in DOMAIN verdict : verdict[t] = "FAIL" => Excused(t, device, noted)

InputPass ==
    /\ FewFailed
    /\ at.step = "begin" /\ ~Ended /\ Head(at.plan) # "set_up_tests" => Clean(device, {})
    /\ at.step # "begin" => InputDuty(device, noted, Head(at.plan), at.step, Head(at.todo))

QuickInputs(d) == d.fault = "none" /\ d.pace # "slow" /\ d.network # "failed"

\* What holds of the suite.
InputPromise == InputTypes /\ (QuickInputs(device) => InputPass)

LEMMA InputRun ==
    /\ \A v : E!Conclude(v) <=> Conclude(v)
    /\ \A step, tries : E!Step(step, tries) <=> Step(step, tries)
    /\ \A step : E!Goto(step) <=> Step(step, 0)
    /\ \A list : E!Visit(list) <=> Visit(list)
    /\ \A v : E!LeaveAs(v) <=> LeaveAs(v)
    /\ E!Leave <=> LeaveAs("PASS")
    /\ E!Abort <=> Abort
    /\ E!Ended <=> Ended
    /\ E!Subject = Subject
    /\ \A tests, step : E!On(tests, step) <=> On(tests, step)
<1>1. \A v : E!Conclude(v) <=> Conclude(v)
  BY DEF E!Conclude, Conclude, E!Position, Position
<1>2. \A step, tries : E!Step(step, tries) <=> Step(step, tries)
  BY DEF E!Step, Step
<1>3. \A step : E!Goto(step) <=> Step(step, 0)
  BY <1>2 DEF E!Goto
<1>4. \A list : E!Visit(list) <=> Visit(list)
  BY <1>1 DEF E!Visit, Visit
<1>5. \A v : E!LeaveAs(v) <=> LeaveAs(v)
  BY <1>1 DEF E!LeaveAs, LeaveAs
<1>6. E!Leave <=> LeaveAs("PASS")
  BY <1>5 DEF E!Leave
<1>7. E!Abort <=> Abort
  BY DEF E!Abort, Abort, E!Position, Position
<1>8. (E!Ended <=> Ended) /\ E!Subject = Subject
  BY DEF E!Ended, Ended, E!Subject, Subject
<1>9. \A tests, step : E!On(tests, step) <=> On(tests, step)
  BY <1>8 DEF E!On, On
<1> QED BY <1>1, <1>2, <1>3, <1>4, <1>5, <1>6, <1>7, <1>8, <1>9

\* A question is answered, or asked again unless it was for the last time.
LEMMA InputPolls ==
    ASSUME NEW ok \in BOOLEAN, NEW step, NEW reads
    PROVE  /\ E!Poll(ok, step, reads) =>
                \/ ok /\ Step(step, 0)
                \/ ~ok /\ at.tries + 1 >= reads /\ Conclude("FAIL")
                \/ Step(at.step, at.tries + 1)
           /\ E!Check(ok, step) => \/ ok /\ Step(step, 0)
                                   \/ ~ok /\ Conclude("FAIL")
BY InputRun DEF E!Poll, E!Check

LEMMA InputSets ==
    /\ Adjust \subseteq Base /\ Base \subseteq Edid /\ Edid \subseteq MediaInput /\ Connected \subseteq MediaInput
    /\ Base \subseteq MediaInput /\ Adjust \subseteq Edid /\ NoInput \notin MediaInput
    /\ \A t : InputsVisited(t) \subseteq MediaInput \cup {NoInput}
    /\ \A t \in {"test_01_00", "test_01_02", "test_01_03", "test_01_04", "test_01_05", "test_01_06", "tear_down_tests"} :
          InputsVisited(t) \subseteq MediaInput
<1>1. /\ Adjust \subseteq Base /\ Base \subseteq Edid /\ Edid \subseteq MediaInput
      /\ Connected \subseteq MediaInput /\ NoInput \notin MediaInput
  BY MediaAssumption DEF E!EdidTestsAssumption
<1> QED BY <1>1 DEF InputsVisited

Rebased(d, i, e, r) ==
    /\ r \in InputDevice /\ r.fault = d.fault /\ r.pace = d.pace /\ r.network = d.network
    /\ r.effective = d.effective /\ r.signal = d.signal
    /\ r.base[i] = e /\ \A j \in MediaInput : j # i => r.base[j] = d.base[j]
    /\ d.fault = "none" /\ d.base[i] # e => {i} \cup E!SendersOf(i) \subseteq r.changed

LEMMA InputPuts ==
    ASSUME NEW d \in InputDevice, NEW i \in MediaInput, NEW e, e \in {"none", "valid", "adjustable", "invalid"}
    PROVE  Rebased(d, i, e, E!WithBase(d, i, e))
<1> DEFINE r == E!WithBase(d, i, e)
<1>1. E!SendersOf(i) \subseteq Sender
  BY DEF E!SendersOf
<1>2. PICK changed : changed = IF d.base[i] = e \/ d.fault = "still" THEN d.changed
                               ELSE d.changed \cup {i} \cup E!SendersOf(i)
  OBVIOUS
<1>3. changed \in SUBSET (Sender \cup MediaInput)
  BY <1>1, <1>2 DEF InputDevice
<1>4. PICK base : base = [d.base EXCEPT ![i] = e]
  OBVIOUS
<1>5. /\ base \in [MediaInput -> {"none", "valid", "adjustable", "invalid"}]
      /\ base[i] = e /\ \A j \in MediaInput : j # i => base[j] = d.base[j]
  BY <1>4 DEF InputDevice
<1>6. r = [d EXCEPT !.base = base, !.changed = changed]
  BY <1>2, <1>4 DEF E!WithBase
<1> HIDE DEF r
<1>7. /\ r \in InputDevice /\ r.fault = d.fault /\ r.pace = d.pace /\ r.network = d.network
      /\ r.effective = d.effective /\ r.signal = d.signal /\ r.base = base /\ r.changed = changed
  BY <1>3, <1>5, <1>6 DEF InputDevice
<1>8. Rebased(d, i, e, r)
  BY <1>2, <1>5, <1>7 DEF Rebased
<1> QED BY <1>8 DEF r

\* A Base EDID that is deleted.
LEMMA InputTakesBack ==
    ASSUME device \in InputDevice, NEW i \in MediaInput,
           device' = IF device.fault = "keeps" THEN device ELSE E!WithBase(device, i, "none")
    PROVE  /\ device' \in InputDevice /\ device'.pace = device.pace /\ (QuickInputs(device') => QuickInputs(device))
           /\ QuickInputs(device) =>
                 /\ device'.base[i] = "none" /\ \A j \in MediaInput : j # i => device'.base[j] = device.base[j]
                 /\ device.base[i] # "none" => {i} \cup E!SendersOf(i) \subseteq device'.changed
<1>1. PICK r : r = E!WithBase(device, i, "none")
  OBVIOUS
<1>2. /\ r \in InputDevice /\ r.fault = device.fault /\ r.pace = device.pace /\ r.network = device.network
      /\ r.base[i] = "none" /\ \A j \in MediaInput : j # i => r.base[j] = device.base[j]
      /\ device.fault = "none" /\ device.base[i] # "none" => {i} \cup E!SendersOf(i) \subseteq r.changed
  <2>1. Rebased(device, i, "none", r)
    BY <1>1, InputPuts
  <2> QED BY <2>1 DEF Rebased
<1>3. CASE device.fault = "keeps"
  BY <1>3 DEF QuickInputs
<1>4. CASE device.fault # "keeps"
  BY <1>1, <1>2, <1>4 DEF QuickInputs
<1> QED BY <1>3, <1>4

LEMMA InputSees ==
    ASSUME NEW d \in InputDevice, NEW i, NEW r, r = E!Seen(d, i)
    PROVE  /\ r \in InputDevice /\ r.fault = d.fault /\ r.pace = d.pace /\ r.network = d.network
           /\ r.effective = d.effective /\ r.signal = d.signal /\ r.base = d.base
<1>1. PICK changed : changed = d.changed \ ({i} \cup E!SendersOf(i))
  OBVIOUS
<1>2. changed \in SUBSET (Sender \cup MediaInput)
  BY <1>1 DEF InputDevice
<1>3. r = [d EXCEPT !.changed = changed]
  BY <1>1 DEF E!Seen
<1> QED BY <1>2, <1>3 DEF InputDevice

\* What an Input shows once it has followed.
LEMMA InputSettles ==
    ASSUME ~E!Waiting, NEW i \in Edid, device \in InputDevice, device.fault = "none"
    PROVE  /\ device.base[i] = "none" => device.effective[i] = "default"
           /\ device.base[i] = "valid" => device.effective[i] = "valid"
           /\ device.base[i] = "adjustable" => device.effective[i] # "default"
<1>1. device.effective[i] \in E!Followed(i)
  BY DEF E!Waiting, E!Following
<1> QED BY <1>1 DEF E!Followed

\* How a step keeps it: a test comes to its end ...
LEMMA InputEnds ==
    ASSUME InputPromise, ~Ended, device' \in InputDevice, noted' \in InputNotes,
           noted.silent \subseteq noted'.silent,
           device'.pace = device.pace, QuickInputs(device') => QuickInputs(device),
           NEW v \in Verdict, Conclude(v),
           QuickInputs(device') => Clean(device', {}) /\ (v = "FAIL" => Excused(Head(at.plan), device', noted'))
    PROVE  InputPromise'
<1>1. IsRun /\ Judged /\ (QuickInputs(device) => FewFailed)
  BY DEF InputPromise, InputTypes, InputPass
<1>2. IsRun' /\ Judged' /\ at'.step = "begin" /\ DOMAIN verdict' = DOMAIN verdict /\ at' = Position(Tail(at.plan))
  BY <1>1, RunConcludes, TestEnds DEF Concluded
<1>3. at'.tries \in Nat
  BY <1>2 DEF Position
<1>4. InputTypes'
  BY <1>2, <1>3 DEF InputTypes
<1>5. ASSUME QuickInputs(device') PROVE FewFailed'
  <2>1. verdict'[Head(at.plan)] = v /\ \A t \in DOMAIN verdict \ {Head(at.plan)} : verdict'[t] = verdict[t]
    BY <1>1, TestEnds
  <2> QED BY <1>1, <1>2, <1>5, <2>1 DEF FewFailed, Excused
<1>6. QuickInputs(device') => InputPass'
  BY <1>2, <1>5 DEF InputPass, Clean
<1> QED BY <1>4, <1>6 DEF InputPromise, QuickInputs

\* ... or goes on ...
LEMMA InputGoesOn ==
    ASSUME InputPromise, ~Ended, device' \in InputDevice, noted' \in InputNotes,
           noted.silent \subseteq noted'.silent,
           device'.pace = device.pace, QuickInputs(device') => QuickInputs(device),
           NEW step, NEW todo \in Seq(InputsVisited(Head(at.plan))), todo # <<>>, NEW tries \in Nat,
           GoesOn(step, todo, tries), step # "begin", step # "visit" => Head(todo) \in MediaInput,
           QuickInputs(device') => InputDuty(device', noted', Head(at.plan), step, Head(todo))
    PROVE  InputPromise'
<1>1. IsRun /\ Judged /\ (QuickInputs(device) => FewFailed)
  BY DEF InputPromise, InputTypes, InputPass
<1>2. /\ IsRun' /\ Judged' /\ at'.step = step /\ at'.todo = todo /\ at'.plan = at.plan /\ at'.tries = tries
      /\ (Ended' <=> Ended) /\ verdict' = verdict
  BY <1>1, RunGoesOn DEF GoesOn
<1>3. InputTypes'
  BY <1>2 DEF InputTypes, InputsVisited
<1>4. QuickInputs(device') => FewFailed'
  BY <1>1, <1>2 DEF FewFailed, Excused
<1>5. QuickInputs(device') => InputPass'
  BY <1>2, <1>4 DEF InputPass, InputDuty, Clean, E!SendersOf
<1> QED BY <1>3, <1>5 DEF InputPromise, QuickInputs

\* ... with its first Input, if there is one ...
LEMMA InputVisits ==
    ASSUME InputPromise, ~Ended, at.step = "begin", Head(at.plan) # "set_up_tests",
           device' = device, noted' = noted, NEW list \in Seq(InputsVisited(Head(at.plan))), Visit(list)
    PROVE  InputPromise'
<1>1. IsRun /\ device \in InputDevice /\ noted \in InputNotes
  BY DEF InputPromise, InputTypes
<1>2. QuickInputs(device) => Clean(device, {})
  BY DEF InputPromise, InputPass
<1>3. CASE Conclude("UNCLEAR")
  <2>1. "UNCLEAR" \in Verdict /\ "UNCLEAR" # "FAIL"
    BY DEF Verdict
  <2> QED BY <1>1, <1>2, <1>3, <2>1, InputEnds
<1>4. CASE list # <<>> /\ GoesOn("visit", list, 0)
  <2>1. QuickInputs(device') => InputDuty(device', noted', Head(at.plan), "visit", Head(list))
    BY <1>2 DEF InputDuty
  <2> QED BY <1>1, <1>4, <2>1, InputGoesOn
<1> QED BY <1>1, <1>3, <1>4, RunVisits

\* ... takes a step with it ...
LEMMA InputMoves ==
    ASSUME InputPromise, ~Ended, at.step # "begin", device' \in InputDevice, noted' \in InputNotes,
           noted.silent \subseteq noted'.silent, device'.pace = device.pace, QuickInputs(device') => QuickInputs(device),
           NEW step, NEW tries \in Nat, Step(step, tries), step # "begin", Head(at.todo) \in MediaInput,
           QuickInputs(device') => InputDuty(device', noted', Head(at.plan), step, Head(at.todo))
    PROVE  InputPromise'
<1>1. IsRun /\ at.todo \in Seq(InputsVisited(Head(at.plan))) /\ at.todo # <<>>
  BY DEF InputPromise, InputTypes
<1>2. GoesOn(step, at.todo, tries)
  BY <1>1, RunSteps
<1> QED BY <1>1, <1>2, InputGoesOn

\* ... and is done with it.
LEMMA InputTurns ==
    ASSUME InputPromise, ~Ended, at.step # "begin", device' \in InputDevice, noted' \in InputNotes,
           noted.silent \subseteq noted'.silent, device'.pace = device.pace, QuickInputs(device') => QuickInputs(device),
           NEW v \in Verdict, LeaveAs(v),
           QuickInputs(device') => Clean(device', {}) /\ (v = "FAIL" => Excused(Head(at.plan), device', noted'))
    PROVE  InputPromise'
<1>1. IsRun /\ at.todo \in Seq(InputsVisited(Head(at.plan))) /\ at.todo # <<>>
  BY DEF InputPromise, InputTypes
<1>3. CASE Conclude(v)
  BY <1>3, InputEnds
<1>4. CASE /\ GoesOn("visit", Tail(at.todo), 0) /\ Tail(at.todo) \in Seq(InputsVisited(Head(at.plan)))
           /\ Tail(at.todo) # <<>>
  <2>1. QuickInputs(device') => InputDuty(device', noted', Head(at.plan), "visit", Head(Tail(at.todo)))
    BY DEF InputDuty
  <2>2. PICK todo : todo = Tail(at.todo)
    OBVIOUS
  <2> QED BY <1>4, <2>1, <2>2, InputGoesOn
<1> QED BY <1>1, <1>3, <1>4, RunLeaves

LEMMA InputLeaves ==
    ASSUME InputPromise, ~Ended, at.step # "begin", device' \in InputDevice, noted' \in InputNotes,
           noted.silent \subseteq noted'.silent, device'.pace = device.pace,
           QuickInputs(device') => QuickInputs(device), LeaveAs("PASS"), QuickInputs(device') => Clean(device', {})
    PROVE  InputPromise'
<1>1. "PASS" \in Verdict /\ "PASS" # "FAIL"
  BY DEF Verdict
<1> QED BY <1>1, InputTurns

LEMMA InputKnown ==
    ASSUME InputPromise
    PROVE  /\ IsRun /\ Judged /\ at.tries \in Nat /\ device \in InputDevice /\ noted \in InputNotes
           /\ at.step # "begin" => /\ ~Ended /\ Subject \in InputsVisited(Head(at.plan))
                                   /\ at.step # "visit" => Subject \in MediaInput
           /\ QuickInputs(device) =>
                 /\ device.fault = "none"
                 /\ at.step # "begin" => InputDuty(device, noted, Head(at.plan), at.step, Subject)
                 /\ at.step = "begin" /\ ~Ended /\ Head(at.plan) # "set_up_tests" => Clean(device, {})
<1>1. /\ IsRun /\ Judged /\ at.tries \in Nat /\ device \in InputDevice /\ noted \in InputNotes
      /\ at.step # "begin" => /\ ~Ended /\ at.todo \in Seq(InputsVisited(Head(at.plan))) /\ at.todo # <<>>
                              /\ at.step # "visit" => Subject \in MediaInput
  BY DEF InputPromise, InputTypes, Subject
<1>2. at.step # "begin" => Subject \in InputsVisited(Head(at.plan))
  BY <1>1, FirstIsDone DEF Subject
<1>3. QuickInputs(device) =>
         /\ device.fault = "none"
         /\ at.step # "begin" => InputDuty(device, noted, Head(at.plan), at.step, Subject)
         /\ at.step = "begin" /\ ~Ended /\ Head(at.plan) # "set_up_tests" => Clean(device, {})
  BY DEF InputPromise, InputPass, QuickInputs, Subject
<1> QED BY <1>1, <1>2, <1>3

\* The suite looks at an Input that has followed, at the latest for the last time.
TimelyInputs ==
    /\ at.tries >= Attempts - 1 /\ device.pace = "prompt" => ~E!Waiting
    /\ device.pace = "instant" => ~E!Waiting

\* test_01_02
LEMMA InputPutStep ==
    ASSUME InputPromise, TimelyInputs, E!PutAndDelete
    PROVE  InputPromise'
<1> DEFINE here == Head(at.plan)
           i == Subject
<1>0. /\ at.tries \in Nat /\ device \in InputDevice /\ noted \in InputNotes /\ Attempts \in Nat
      /\ at.step # "begin" => i \in InputsVisited(here)
      /\ QuickInputs(device) =>
            /\ device.fault = "none" /\ device.pace \in {"instant", "prompt"}
            /\ at.step # "begin" => InputDuty(device, noted, here, at.step, i)
  BY InputKnown, MediaAssumption DEF QuickInputs, InputDevice
<1>1. ~Ended /\ here = "test_01_02" /\ InputsVisited(here) = Base
  BY InputRun DEF E!PutAndDelete, E!Begin, On, InputsVisited
<1>2. at.step # "begin" => i \in Base /\ i \in Edid /\ i \in MediaInput /\ Head(at.todo) = i
  BY <1>0, <1>1, InputSets DEF Subject
<1>3. "FAIL" \in Verdict
  BY DEF Verdict
<1>4. CASE at.step = "begin"
  <2>1. E!Visit(E!List(Base)) /\ UNCHANGED <<device, noted>>
    BY <1>4, InputRun DEF E!PutAndDelete, E!Begin, On
  <2>2. E!List(Base) \in Seq(Base)
    BY InputSets, EdidLists
  <2> QED BY <1>1, <1>4, <2>1, <2>2, InputRun, InputVisits
<1>5. CASE at.step = "visit"
  <2>1. /\ noted' = [noted EXCEPT !.edid = device.effective[i]] /\ device' = E!WithBase(device, i, "valid")
        /\ Step("effective", 0)
    BY <1>5, InputRun DEF E!PutAndDelete, E!Begin, On, E!Put
  <2>2. noted' \in InputNotes /\ noted'.edid = device.effective[i] /\ noted'.silent = noted.silent
    BY <1>0, <1>2, <1>5, <2>1 DEF InputNotes, InputDevice
  <2>3. /\ device' \in InputDevice /\ device'.fault = device.fault /\ device'.pace = device.pace
        /\ device'.network = device.network /\ device'.base[i] = "valid"
        /\ \A j \in MediaInput : j # i => device'.base[j] = device.base[j]
    <3>1. device \in InputDevice /\ i \in MediaInput /\ device' = E!WithBase(device, i, "valid")
      BY <1>0, <1>2, <1>5, <2>1
    <3>2. Rebased(device, i, "valid", device')
      BY <3>1, InputPuts
    <3> QED BY <3>2 DEF Rebased
  <2>4. QuickInputs(device) /\ device.pace = "instant" => noted'.edid = "default"
    BY <1>0, <1>2, <1>5, <2>2, InputSettles DEF TimelyInputs, InputDuty, Clean
  <2>5. QuickInputs(device) => InputDuty(device', noted', here, "effective", i)
    BY <1>0, <1>1, <1>5, <2>3, <2>4 DEF InputDuty, Clean
  <2> QED BY <1>1, <1>2, <1>5, <2>1, <2>2, <2>3, <2>5, InputMoves DEF QuickInputs
<1>6. CASE at.step = "effective"
  <2>1. UNCHANGED <<device, noted>> /\ E!Poll(device.effective[i] = "valid", "delete", Attempts)
    BY <1>6, InputRun DEF E!PutAndDelete, E!Begin, On
  <2>2. QuickInputs(device) /\ at.tries + 1 >= Attempts => device.effective[i] = "valid"
    BY <1>0, <1>1, <1>2, <1>6, InputSettles DEF TimelyInputs, InputDuty
  <2>3. QuickInputs(device) => InputDuty(device, noted, here, "delete", i)
    BY <1>0, <1>1, <1>6 DEF InputDuty
  <2>4. CASE Step("delete", 0)
    BY <1>0, <1>1, <1>2, <1>6, <2>1, <2>3, <2>4, InputMoves
  <2>5. CASE Step(at.step, at.tries + 1)
    BY <1>0, <1>1, <1>2, <1>6, <2>1, <2>5, InputMoves
  <2>6. CASE ~QuickInputs(device) /\ Conclude("FAIL")
    BY <1>0, <1>1, <1>3, <2>1, <2>6, InputEnds DEF Excused
  <2>7. (device.effective[i] = "valid") \in BOOLEAN
    OBVIOUS
  <2> QED BY <2>1, <2>2, <2>4, <2>5, <2>6, <2>7, InputPolls
<1>7. CASE at.step = "delete"
  <2>1. /\ device' = IF device.fault = "keeps" THEN device ELSE E!WithBase(device, i, "none")
        /\ E!Check(device'.base[i] = "none", "default") /\ noted' = noted
    BY <1>7, InputRun DEF E!PutAndDelete, E!Begin, On, E!Delete
  <2>2. /\ device' \in InputDevice /\ device'.pace = device.pace /\ (QuickInputs(device') => QuickInputs(device))
        /\ QuickInputs(device) => /\ device'.base[i] = "none"
                                  /\ \A j \in MediaInput : j # i => device'.base[j] = device.base[j]
    BY <1>0, <1>2, <1>7, <2>1, InputTakesBack
  <2>4. QuickInputs(device) => Clean(device', {}) /\ InputDuty(device', noted', here, "default", i)
    BY <1>0, <1>1, <1>7, <2>1, <2>2 DEF InputDuty, Clean
  <2>5. CASE Step("default", 0)
    BY <1>0, <1>1, <1>2, <1>7, <2>1, <2>2, <2>4, <2>5, InputMoves
  <2>6. CASE ~(device'.base[i] = "none") /\ Conclude("FAIL")
    BY <1>0, <1>1, <1>3, <2>1, <2>2, <2>6, InputEnds DEF Excused
  <2>7. (device'.base[i] = "none") \in BOOLEAN
    OBVIOUS
  <2> QED BY <2>1, <2>5, <2>6, <2>7, InputPolls
<1>8. CASE at.step = "default"
  <2>1. UNCHANGED <<device, noted>> /\ E!Poll(device.effective[i] = noted.edid, "leave", Attempts)
    BY <1>8, InputRun DEF E!PutAndDelete, E!Begin, On
  <2>2. QuickInputs(device) /\ device.pace = "instant" => device.effective[i] = noted.edid
    BY <1>0, <1>1, <1>2, <1>8, InputSettles DEF TimelyInputs, InputDuty, Clean
  <2>3. QuickInputs(device) => Clean(device, {}) /\ InputDuty(device, noted, here, "leave", i)
    BY <1>0, <1>1, <1>8 DEF InputDuty
  <2>4. CASE Step("leave", 0)
    BY <1>0, <1>1, <1>2, <1>8, <2>1, <2>3, <2>4, InputMoves
  <2>5. CASE Step(at.step, at.tries + 1)
    BY <1>0, <1>1, <1>2, <1>8, <2>1, <2>5, InputMoves
  <2>6. CASE (QuickInputs(device) => device.pace = "prompt") /\ Conclude("FAIL")
    BY <1>0, <1>1, <1>3, <2>1, <2>3, <2>6, InputEnds DEF Excused
  <2>7. (device.effective[i] = noted.edid) \in BOOLEAN
    OBVIOUS
  <2> QED BY <1>0, <2>1, <2>2, <2>4, <2>5, <2>6, <2>7, InputPolls
<1>9. CASE at.step = "leave"
  <2>1. UNCHANGED <<device, noted>> /\ LeaveAs("PASS")
    BY <1>9, InputRun DEF E!PutAndDelete, E!Begin, On
  <2> QED BY <1>0, <1>1, <1>9, <2>1, InputLeaves DEF InputDuty
<1> QED BY <1>4, <1>5, <1>6, <1>7, <1>8, <1>9, InputRun DEF E!PutAndDelete, E!Begin, On

\* test_01_06
LEMMA InputAdjustStep ==
    ASSUME InputPromise, TimelyInputs, E!Adjusted
    PROVE  InputPromise'
<1> DEFINE here == Head(at.plan)
           i == Subject
<1>0. /\ at.tries \in Nat /\ device \in InputDevice /\ noted \in InputNotes /\ Attempts \in Nat
      /\ at.step # "begin" => i \in InputsVisited(here)
      /\ QuickInputs(device) =>
            /\ device.fault = "none" /\ device.pace \in {"instant", "prompt"}
            /\ at.step # "begin" => InputDuty(device, noted, here, at.step, i)
  BY InputKnown, MediaAssumption DEF QuickInputs, InputDevice
<1>1. ~Ended /\ here = "test_01_06" /\ InputsVisited(here) = Adjust
  BY InputRun DEF E!Adjusted, E!Begin, On, InputsVisited
<1>2. at.step # "begin" => i \in Edid /\ i \in MediaInput /\ Head(at.todo) = i
  BY <1>0, <1>1, InputSets DEF Subject
<1>3. "FAIL" \in Verdict
  BY DEF Verdict
<1>4. CASE at.step = "begin"
  <2>1. E!Visit(E!List(Adjust)) /\ UNCHANGED <<device, noted>>
    BY <1>4, InputRun DEF E!Adjusted, E!Begin, On
  <2>2. E!List(Adjust) \in Seq(Adjust)
    BY InputSets, EdidLists
  <2> QED BY <1>1, <1>4, <2>1, <2>2, InputRun, InputVisits
<1>5. CASE at.step = "visit"
  <2>1. /\ noted' = [noted EXCEPT !.edid = device.effective[i]] /\ device' = E!WithBase(device, i, "adjustable")
        /\ Step("effective", 0)
    BY <1>5, InputRun DEF E!Adjusted, E!Begin, On
  <2>2. noted' \in InputNotes /\ noted'.edid = device.effective[i] /\ noted'.silent = noted.silent
    BY <1>0, <1>2, <1>5, <2>1 DEF InputNotes, InputDevice
  <2>3. Rebased(device, i, "adjustable", device')
    BY <1>0, <1>2, <1>5, <2>1, InputPuts
  <2>4. QuickInputs(device) /\ device.pace = "instant" => noted'.edid = "default"
    BY <1>0, <1>2, <1>5, <2>2, InputSettles DEF TimelyInputs, InputDuty, Clean
  <2>5. QuickInputs(device) => InputDuty(device', noted', here, "effective", i)
    BY <1>0, <1>1, <1>5, <2>3, <2>4 DEF InputDuty, Clean, Rebased
  <2>6. device' \in InputDevice /\ device'.pace = device.pace /\ (QuickInputs(device') => QuickInputs(device))
    BY <2>3 DEF QuickInputs, Rebased
  <2> QED BY <1>1, <1>2, <1>5, <2>1, <2>2, <2>5, <2>6, InputMoves
<1>6. CASE at.step = "effective"
  <2>1. UNCHANGED <<device, noted>> /\ E!Poll(device.effective[i] # noted.edid, "delete", Attempts)
    BY <1>6, InputRun DEF E!Adjusted, E!Begin, On
  <2>2. QuickInputs(device) /\ device.pace = "instant" => device.effective[i] # noted.edid
    BY <1>0, <1>1, <1>2, <1>6, InputSettles DEF TimelyInputs, InputDuty
  <2>3. QuickInputs(device) => InputDuty(device, noted, here, "delete", i)
    BY <1>0, <1>1, <1>6 DEF InputDuty
  <2>4. CASE Step("delete", 0)
    BY <1>0, <1>1, <1>2, <1>6, <2>1, <2>3, <2>4, InputMoves
  <2>5. CASE Step(at.step, at.tries + 1)
    BY <1>0, <1>1, <1>2, <1>6, <2>1, <2>5, InputMoves
  <2>6. CASE (QuickInputs(device) => device.pace = "prompt") /\ Conclude("FAIL")
    <3>1. QuickInputs(device) => Clean(device, {})
      BY <1>0, <1>1, <1>6, <2>6 DEF InputDuty, Clean
    <3> QED BY <1>0, <1>1, <1>3, <2>1, <2>6, <3>1, InputEnds DEF Excused
  <2>7. (device.effective[i] # noted.edid) \in BOOLEAN
    OBVIOUS
  <2> QED BY <1>0, <2>1, <2>2, <2>4, <2>5, <2>6, <2>7, InputPolls
<1>7. CASE at.step = "delete"
  <2>1. /\ device' = IF device.fault = "keeps" THEN device ELSE E!WithBase(device, i, "none")
        /\ Step("default", 0) /\ noted' = noted
    BY <1>7, InputRun DEF E!Adjusted, E!Begin, On, E!Delete
  <2>2. /\ device' \in InputDevice /\ device'.pace = device.pace /\ (QuickInputs(device') => QuickInputs(device))
        /\ QuickInputs(device) => /\ device'.base[i] = "none"
                                  /\ \A j \in MediaInput : j # i => device'.base[j] = device.base[j]
    BY <1>0, <1>2, <1>7, <2>1, InputTakesBack
  <2>3. QuickInputs(device) => InputDuty(device', noted', here, "default", i)
    BY <1>0, <1>1, <1>7, <2>1, <2>2 DEF InputDuty, Clean
  <2> QED BY <1>0, <1>1, <1>2, <1>7, <2>1, <2>2, <2>3, InputMoves
<1>8. CASE at.step = "default"
  <2>1. UNCHANGED <<device, noted>> /\ E!Poll(device.effective[i] = noted.edid, "leave", Attempts)
    BY <1>8, InputRun DEF E!Adjusted, E!Begin, On
  <2>2. QuickInputs(device) /\ device.pace = "instant" => device.effective[i] = noted.edid
    BY <1>0, <1>1, <1>2, <1>8, InputSettles DEF TimelyInputs, InputDuty, Clean
  <2>3. QuickInputs(device) => Clean(device, {}) /\ InputDuty(device, noted, here, "leave", i)
    BY <1>0, <1>1, <1>8 DEF InputDuty
  <2>4. CASE Step("leave", 0)
    BY <1>0, <1>1, <1>2, <1>8, <2>1, <2>3, <2>4, InputMoves
  <2>5. CASE Step(at.step, at.tries + 1)
    BY <1>0, <1>1, <1>2, <1>8, <2>1, <2>5, InputMoves
  <2>6. CASE (QuickInputs(device) => device.pace = "prompt") /\ Conclude("FAIL")
    BY <1>0, <1>1, <1>3, <2>1, <2>3, <2>6, InputEnds DEF Excused
  <2>7. (device.effective[i] = noted.edid) \in BOOLEAN
    OBVIOUS
  <2> QED BY <1>0, <2>1, <2>2, <2>4, <2>5, <2>6, <2>7, InputPolls
<1>9. CASE at.step = "leave"
  <2>1. UNCHANGED <<device, noted>> /\ LeaveAs("PASS")
    BY <1>9, InputRun DEF E!Adjusted, E!Begin, On
  <2> QED BY <1>0, <1>1, <1>9, <2>1, InputLeaves DEF InputDuty
<1> QED BY <1>4, <1>5, <1>6, <1>7, <1>8, <1>9, InputRun DEF E!Adjusted, E!Begin, On

\* test_01_05, and test_02_03_04 as far as it is the same.
LEMMA InputVersionsBegin ==
    ASSUME InputPromise, ~Ended, Head(at.plan) \in {"test_01_05", "test_02_03_04"}, at.step = "visit",
           Subject \in MediaInput,
           device' = E!WithBase(E!Seen(device, Subject), Subject, "valid"), Step("put", 0), noted' = noted
    PROVE  InputPromise'
<1> DEFINE here == Head(at.plan)
           i == Subject
<1>0. /\ device \in InputDevice /\ noted \in InputNotes
      /\ QuickInputs(device) => device.fault = "none" /\ InputDuty(device, noted, here, at.step, i)
  BY InputKnown
<1>1. PICK d : d = E!Seen(device, i)
  OBVIOUS
<1>2. /\ d \in InputDevice /\ d.fault = device.fault /\ d.pace = device.pace /\ d.network = device.network
      /\ d.base = device.base
  BY <1>0, <1>1, InputSees
<1>3. Rebased(d, i, "valid", device')
  BY <1>1, <1>2, InputPuts
<1>4. device' \in InputDevice /\ device'.pace = device.pace /\ (QuickInputs(device') => QuickInputs(device))
  BY <1>2, <1>3 DEF QuickInputs, Rebased
<1>5. QuickInputs(device) => device.base[i] # "valid"
  BY <1>0 DEF InputDuty, Clean
<1>6. QuickInputs(device) => InputDuty(device', noted', here, "put", i)
  BY <1>0, <1>2, <1>3, <1>5 DEF InputDuty, Clean, Rebased
<1> QED BY <1>0, <1>4, <1>6, InputMoves DEF Subject

LEMMA InputVersionsStep ==
    ASSUME InputPromise, E!Versions
    PROVE  InputPromise'
<1> DEFINE here == Head(at.plan)
           i == Subject
           Moved == {i} \cup E!SendersOf(i) \subseteq device.changed
<1>0. /\ device \in InputDevice /\ noted \in InputNotes
      /\ at.step # "begin" => i \in InputsVisited(here)
      /\ QuickInputs(device) =>
            /\ device.fault = "none"
            /\ at.step # "begin" => InputDuty(device, noted, here, at.step, i)
  BY InputKnown
<1>1. ~Ended /\ here = "test_01_05" /\ InputsVisited(here) = Base
  BY InputRun DEF E!Versions, E!Begin, On, InputsVisited
<1>2. at.step # "begin" => i \in MediaInput /\ Head(at.todo) = i
  BY <1>0, <1>1, InputSets DEF Subject
<1>3. "FAIL" \in Verdict /\ Moved \in BOOLEAN
  BY DEF Verdict
<1>4. CASE at.step = "begin"
  <2>1. E!Visit(E!List(Base)) /\ UNCHANGED <<device, noted>>
    BY <1>4, InputRun DEF E!Versions, E!Begin, On
  <2>2. E!List(Base) \in Seq(Base)
    BY InputSets, EdidLists
  <2> QED BY <1>1, <1>4, <2>1, <2>2, InputRun, InputVisits
<1>5. CASE at.step = "visit"
  <2>1. device' = E!WithBase(E!Seen(device, i), i, "valid") /\ Step("put", 0) /\ noted' = noted
    BY <1>5, InputRun DEF E!Versions, E!Begin, On, E!Put
  <2> QED BY <1>1, <1>2, <1>5, <2>1, InputVersionsBegin
<1>6. CASE at.step = "put"
  <2>1. E!Check(Moved, "delete") /\ device' = E!Seen(device, i) /\ noted' = noted
    BY <1>6, InputRun DEF E!Versions, E!Begin, On
  <2>2. /\ device' \in InputDevice /\ device'.fault = device.fault /\ device'.pace = device.pace
        /\ device'.network = device.network /\ device'.base = device.base
    BY <1>0, <2>1, InputSees
  <2>3. QuickInputs(device') => QuickInputs(device)
    BY <2>2 DEF QuickInputs
  <2>4. QuickInputs(device) => Moved
    BY <1>0, <1>6 DEF InputDuty
  <2>5. QuickInputs(device) => InputDuty(device', noted', here, "delete", i)
    BY <1>0, <1>1, <1>6, <2>2 DEF InputDuty, Clean
  <2>6. CASE Step("delete", 0)
    BY <1>0, <1>1, <1>2, <1>6, <2>1, <2>2, <2>3, <2>5, <2>6, InputMoves
  <2>7. CASE ~Moved /\ Conclude("FAIL")
    BY <1>0, <1>1, <1>3, <2>1, <2>2, <2>3, <2>4, <2>7, InputEnds
  <2> QED BY <1>3, <2>1, <2>6, <2>7, InputPolls
<1>7. CASE at.step = "delete"
  <2>1. /\ device' = IF device.fault = "keeps" THEN device ELSE E!WithBase(device, i, "none")
        /\ Step("deleted", 0) /\ noted' = noted
    BY <1>7, InputRun DEF E!Versions, E!Begin, On, E!Delete
  <2>2. /\ device' \in InputDevice /\ device'.pace = device.pace /\ (QuickInputs(device') => QuickInputs(device))
        /\ QuickInputs(device) =>
              /\ device'.base[i] = "none" /\ \A j \in MediaInput : j # i => device'.base[j] = device.base[j]
              /\ device.base[i] # "none" => {i} \cup E!SendersOf(i) \subseteq device'.changed
    BY <1>0, <1>2, <1>7, <2>1, InputTakesBack
  <2>3. QuickInputs(device) => InputDuty(device', noted', here, "deleted", i)
    BY <1>0, <1>1, <1>7, <2>1, <2>2 DEF InputDuty, Clean
  <2> QED BY <1>0, <1>1, <1>2, <1>7, <2>1, <2>2, <2>3, InputMoves
<1>8. CASE at.step = "deleted"
  <2>1. UNCHANGED <<device, noted>> /\ IF Moved THEN LeaveAs("PASS") ELSE Conclude("FAIL")
    BY <1>8, InputRun DEF E!Versions, E!Begin, On
  <2>2. QuickInputs(device) => Moved /\ Clean(device, {})
    BY <1>0, <1>8 DEF InputDuty
  <2>3. CASE Moved /\ LeaveAs("PASS")
    BY <1>0, <1>1, <1>8, <2>1, <2>2, <2>3, InputLeaves
  <2>4. CASE ~Moved /\ Conclude("FAIL")
    BY <1>0, <1>1, <1>3, <2>1, <2>2, <2>4, InputEnds
  <2> QED BY <2>1, <2>3, <2>4
<1> QED BY <1>4, <1>5, <1>6, <1>7, <1>8, InputRun DEF E!Versions, E!Begin, On

\* test_02_03_04
LEMMA InputSendersStep ==
    ASSUME InputPromise, E!SenderInputs
    PROVE  InputPromise'
<1> DEFINE here == Head(at.plan)
           i == Subject
<1>0. /\ device \in InputDevice /\ noted \in InputNotes
      /\ at.step # "begin" => i \in InputsVisited(here) /\ (at.step # "visit" => i \in MediaInput)
      /\ QuickInputs(device) =>
            /\ device.fault = "none"
            /\ at.step # "begin" => InputDuty(device, noted, here, at.step, i)
  BY InputKnown
<1>1. ~Ended /\ here = "test_02_03_04" /\ InputsVisited(here) = Base \cup {NoInput} /\ Head(at.todo) = i
  BY InputRun DEF E!SenderInputs, E!Begin, On, InputsVisited, Subject
<1>2. at.step # "begin" /\ i # NoInput => i \in MediaInput
  BY <1>0, <1>1, InputSets
<1>3. {"FAIL", "UNCLEAR"} \subseteq Verdict
  BY DEF Verdict
<1>4. CASE at.step = "begin"
  <2>1. /\ E!Visit(E!Concatenation([k \in DOMAIN noted.with |-> E!Usable(noted.with[k])]))
        /\ UNCHANGED <<device, noted>>
    BY <1>4, InputRun DEF E!SenderInputs, E!Begin, On
  <2>2. noted.with \in Seq(Sender)
    BY <1>0 DEF InputNotes
  <2>3. E!Concatenation([k \in DOMAIN noted.with |-> E!Usable(noted.with[k])]) \in Seq(Base \cup {NoInput})
    BY <2>2, UsableLists
  <2> QED BY <1>1, <1>4, <2>1, <2>3, InputRun, InputVisits
<1>5. CASE at.step = "visit"
  <2>1. CASE i = NoInput
    <3>1. Conclude("UNCLEAR") /\ UNCHANGED <<device, noted>>
      BY <1>5, <2>1, InputRun DEF E!SenderInputs, E!Begin, On
    <3>2. QuickInputs(device) => Clean(device, {})
      BY <1>0, <1>5 DEF InputDuty
    <3> QED BY <1>0, <1>1, <1>3, <3>1, <3>2, InputEnds
  <2>2. CASE i # NoInput
    <3>1. device' = E!WithBase(E!Seen(device, i), i, "valid") /\ Step("put", 0) /\ noted' = noted
      BY <1>5, <2>2, InputRun DEF E!SenderInputs, E!Begin, On, E!Put
    <3> QED BY <1>1, <1>2, <1>5, <2>2, <3>1, InputVersionsBegin
  <2> QED BY <2>1, <2>2
<1>6. CASE at.step = "put"
  <2>1. UNCHANGED <<device, noted>> /\ E!Check(i \in device.changed, "delete")
    BY <1>6, InputRun DEF E!SenderInputs, E!Begin, On
  <2>2. QuickInputs(device) => i \in device.changed
    BY <1>0, <1>6 DEF InputDuty
  <2>3. QuickInputs(device) => InputDuty(device, noted, here, "delete", i)
    BY <1>0, <1>1, <1>6 DEF InputDuty
  <2>4. CASE Step("delete", 0)
    BY <1>0, <1>1, <1>6, <2>1, <2>3, <2>4, InputMoves
  <2>5. CASE i \notin device.changed /\ Conclude("FAIL")
    BY <1>0, <1>1, <1>3, <2>1, <2>2, <2>5, InputEnds
  <2>6. (i \in device.changed) \in BOOLEAN
    OBVIOUS
  <2> QED BY <2>1, <2>4, <2>5, <2>6, InputPolls
<1>7. CASE at.step = "delete"
  <2>1. /\ device' = IF device.fault = "keeps" THEN device ELSE E!WithBase(device, i, "none")
        /\ LeaveAs("PASS") /\ noted' = noted
    BY <1>7, InputRun DEF E!SenderInputs, E!Begin, On, E!Delete
  <2>2. /\ device' \in InputDevice /\ device'.pace = device.pace /\ (QuickInputs(device') => QuickInputs(device))
        /\ QuickInputs(device) => /\ device'.base[i] = "none"
                                  /\ \A j \in MediaInput : j # i => device'.base[j] = device.base[j]
    BY <1>0, <1>7, <2>1, InputTakesBack
  <2>3. QuickInputs(device) => Clean(device', {})
    BY <1>0, <1>1, <1>7, <2>1, <2>2 DEF InputDuty, Clean
  <2> QED BY <1>0, <1>1, <1>7, <2>1, <2>2, <2>3, InputLeaves
<1> QED BY <1>4, <1>5, <1>6, <1>7, InputRun DEF E!SenderInputs, E!Begin, On

\* test_01_00
LEMMA InputSignalsStep ==
    ASSUME InputPromise, TimelyInputs, E!Signals
    PROVE  InputPromise'
<1> DEFINE here == Head(at.plan)
           i == Subject
<1>0. /\ at.tries \in Nat /\ device \in InputDevice /\ noted \in InputNotes /\ Attempts \in Nat
      /\ at.step # "begin" => i \in InputsVisited(here)
      /\ QuickInputs(device) =>
            /\ device.fault = "none" /\ device.pace \in {"instant", "prompt"}
            /\ at.step # "begin" => InputDuty(device, noted, here, at.step, i)
  BY InputKnown, MediaAssumption DEF QuickInputs, InputDevice
<1>1. ~Ended /\ here = "test_01_00" /\ InputsVisited(here) = Connected
  BY InputRun DEF E!Signals, E!Begin, On, InputsVisited
<1>2. at.step # "begin" => i \in MediaInput /\ Head(at.todo) = i
  BY <1>0, <1>1, InputSets DEF Subject
<1>3. "FAIL" \in Verdict
  BY DEF Verdict
<1>4. at.step # "begin" /\ QuickInputs(device) =>
          Clean(device, IF at.step \in {"effective", "put", "delete"} THEN {i} ELSE {})
  BY <1>0 DEF InputDuty
<1>5. ASSUME NEW step \in {"awaited", "silent"}, QuickInputs(device), at.step \in {"visit", "awaited"}
      PROVE  InputDuty(device, noted, here, step, i)
  BY <1>1, <1>4, <1>5 DEF InputDuty
<1>6. CASE at.step = "begin"
  <2>1. E!Visit(E!List(Connected)) /\ UNCHANGED <<device, noted>>
    BY <1>6, InputRun DEF E!Signals, E!Begin, On
  <2>2. E!List(Connected) \in Seq(Connected)
    BY InputSets, EdidLists
  <2> QED BY <1>1, <1>6, <2>1, <2>2, InputRun, InputVisits
<1>7. CASE at.step = "visit"
  <2>1. UNCHANGED <<device, noted>>
    BY <1>7, InputRun DEF E!Signals, E!Begin, On
  <2>2. LeaveAs(E!Remove(noted.silent)) \/ Step("silent", 0) \/ Step("awaited", 1)
    BY <1>7, InputRun DEF E!Signals, E!Begin, On
  <2>3. CASE LeaveAs(E!Remove(noted.silent))
    <3>1. PICK v : v = E!Remove(noted.silent)
      OBVIOUS
    <3>2. v \in Verdict /\ (v = "FAIL" => Excused(here, device, noted)) /\ LeaveAs(v)
      BY <1>1, <2>3, <3>1 DEF E!Remove, Verdict, Excused
    <3>3. QuickInputs(device) => Clean(device, {}) /\ (v = "FAIL" => Excused(here, device, noted))
      BY <1>4, <1>7, <3>2
    <3> QED BY <1>0, <1>1, <1>7, <2>1, <3>2, <3>3, InputTurns
  <2>4. CASE Step("silent", 0) \/ Step("awaited", 1)
    <3>1. 0 \in Nat /\ 1 \in Nat /\ "silent" # "begin" /\ "awaited" # "begin"
      OBVIOUS
    <3> QED BY <1>0, <1>1, <1>2, <1>5, <1>7, <2>1, <2>4, <3>1, InputMoves
  <2> QED BY <2>2, <2>3, <2>4
<1>8. CASE at.step = "awaited"
  <2>1. UNCHANGED <<device, noted>> /\ E!Poll(device.signal[i] # "awaiting", "silent", Attempts + 1)
    BY <1>8, InputRun DEF E!Signals, E!Begin, On
  <2>2. QuickInputs(device) /\ at.tries + 1 >= Attempts + 1 => device.signal[i] # "awaiting"
    <3>1. ~E!Waiting => device.signal[i] # "awaiting"
      BY <1>2, <1>8 DEF E!Waiting
    <3> QED BY <1>0, <3>1 DEF TimelyInputs
  <2>3. CASE Step("silent", 0)
    BY <1>0, <1>1, <1>2, <1>5, <1>8, <2>1, <2>3, InputMoves
  <2>4. CASE Step(at.step, at.tries + 1)
    BY <1>0, <1>1, <1>2, <1>8, <2>1, <2>4, InputMoves
  <2>5. CASE ~QuickInputs(device) /\ Conclude("FAIL")
    BY <1>0, <1>1, <1>3, <2>1, <2>5, InputEnds
  <2>6. (device.signal[i] # "awaiting") \in BOOLEAN
    OBVIOUS
  <2> QED BY <2>1, <2>2, <2>3, <2>4, <2>5, <2>6, InputPolls
<1>9. CASE at.step = "silent"
  <2>1. /\ noted' = [noted EXCEPT !.silent = @ \cup {i}] /\ device' = device
        /\ LeaveAs(E!Remove(noted'.silent))
    BY <1>9, InputRun DEF E!Signals, E!Begin, On
  <2>2. PICK silent : silent = noted.silent \cup {i}
    OBVIOUS
  <2>3. silent \in SUBSET MediaInput /\ noted' = [noted EXCEPT !.silent = silent]
    BY <1>0, <1>2, <1>9, <2>1, <2>2 DEF InputNotes
  <2>4. noted' \in InputNotes /\ noted'.silent = silent /\ silent # {} /\ noted.silent \subseteq silent
    BY <1>0, <2>2, <2>3 DEF InputNotes
  <2>5. LeaveAs("FAIL") /\ "FAIL" \in Verdict /\ Excused(here, device', noted')
    BY <1>1, <2>1, <2>4 DEF E!Remove, Verdict, Excused
  <2>6. QuickInputs(device') => Clean(device', {})
    BY <1>4, <1>9, <2>1
  <2> QED BY <1>0, <1>1, <1>9, <2>1, <2>4, <2>5, <2>6, InputTurns
<1> QED BY <1>6, <1>7, <1>8, <1>9, InputRun DEF E!Signals, E!Begin, On

LEMMA SendersAreListed == E!List({s \in Sender : InputsOf[s] # <<>>}) \in Seq(Sender)
<1> DEFINE S == {s \in Sender : InputsOf[s] # <<>>}
<1>1. IsFiniteSet(S)
  <2>1. IsFiniteSet(Sender)
    BY MediaAssumption DEF E!EdidTestsAssumption, E!IsFiniteSet, IsFiniteSet
  <2> QED BY <2>1, FS_Subset
<1>2. E!Cardinality(S) = Cardinality(S)
  BY DEF E!Cardinality, Cardinality
<1>3. E!List(S) = SomeOrder(S)
  BY <1>2 DEF E!List, E!SomeOrder, SomeOrder, E!IsInjective, IsInjective
<1>4. SomeOrder(S) \in Seq(S)
  BY <1>1, ListsOfSets
<1> HIDE DEF S
<1>5. S \subseteq Sender
  BY DEF S
<1>6. SomeOrder(S) \in Seq(Sender)
  BY <1>4, <1>5
<1> QED BY <1>3, <1>6 DEF S

\* The tests that only look, and those that set up and tear down.
LEMMA InputLooksStep ==
    ASSUME InputPromise, E!Invalid \/ E!Unsupported \/ E!WithInputs
    PROVE  InputPromise'
<1> DEFINE here == Head(at.plan)
           i == Subject
<1>0. /\ device \in InputDevice /\ noted \in InputNotes
      /\ at.step # "begin" => i \in InputsVisited(here)
      /\ QuickInputs(device) =>
            /\ device.fault = "none"
            /\ at.step # "begin" => InputDuty(device, noted, here, at.step, i)
            /\ at.step = "begin" /\ ~Ended /\ here # "set_up_tests" => Clean(device, {})
  BY InputKnown
<1>1. {"FAIL", "UNCLEAR", "PASS"} \subseteq Verdict
  BY DEF Verdict
<1>2. at.step = "visit" /\ QuickInputs(device) => Clean(device, {})
  BY <1>0 DEF InputDuty
<1>3. CASE E!Invalid
  <2>1. ~Ended /\ here = "test_01_03" /\ InputsVisited(here) = Base
    BY <1>3, InputRun DEF E!Invalid, E!Begin, On, InputsVisited
  <2>2. CASE at.step = "begin"
    <3>1. E!Visit(E!List(Base)) /\ UNCHANGED <<device, noted>>
      BY <1>3, <2>2, InputRun DEF E!Invalid, E!Begin, On
    <3>2. E!List(Base) \in Seq(Base)
      BY InputSets, EdidLists
    <3> QED BY <2>1, <2>2, <3>1, <3>2, InputRun, InputVisits
  <2>3. CASE at.step = "visit" /\ device.fault = "lax"
    <3>1. device' = E!WithBase(device, i, "invalid") /\ Conclude("FAIL") /\ noted' = noted
      BY <1>3, <2>3, InputRun DEF E!Invalid, E!Begin, On
    <3>2. i \in MediaInput
      BY <1>0, <2>1, <2>3, InputSets
    <3>3. Rebased(device, i, "invalid", device')
      BY <1>0, <3>1, <3>2, InputPuts
    <3>4. device' \in InputDevice /\ device'.pace = device.pace /\ ~QuickInputs(device')
      BY <2>3, <3>3 DEF QuickInputs, Rebased
    <3> QED BY <1>0, <1>1, <2>1, <3>1, <3>4, InputEnds
  <2>4. CASE at.step = "visit" /\ device.fault # "lax"
    <3>1. UNCHANGED <<device, noted>> /\ LeaveAs("PASS")
      BY <1>3, <2>4, InputRun DEF E!Invalid, E!Begin, On
    <3> QED BY <1>0, <1>2, <2>1, <2>4, <3>1, InputLeaves
  <2> QED BY <1>3, <2>2, <2>3, <2>4, InputRun DEF E!Invalid, E!Begin, On
<1>4. CASE E!Unsupported
  <2>1. ~Ended /\ here = "test_01_04" /\ InputsVisited(here) = MediaInput \ Edid /\ UNCHANGED <<device, noted>>
    BY <1>4, InputRun DEF E!Unsupported, E!Begin, On, InputsVisited
  <2>2. CASE at.step = "begin"
    <3>1. E!Visit(E!List(MediaInput \ Edid))
      BY <1>4, <2>2, InputRun DEF E!Unsupported, E!Begin, On
    <3>2. E!List(MediaInput \ Edid) \in Seq(MediaInput \ Edid)
      BY EdidLists
    <3> QED BY <2>1, <2>2, <3>1, <3>2, InputRun, InputVisits
  <2>3. CASE at.step = "visit"
    <3>1. \/ device.fault = "open" /\ Conclude("FAIL")
          \/ LeaveAs("PASS")
      BY <1>4, <2>3, InputRun DEF E!Unsupported, E!Begin, On
    <3>2. CASE device.fault = "open" /\ Conclude("FAIL")
      BY <1>0, <1>1, <2>1, <3>2, InputEnds DEF QuickInputs
    <3>3. CASE LeaveAs("PASS")
      BY <1>0, <1>2, <2>1, <2>3, <3>3, InputLeaves
    <3> QED BY <3>1, <3>2, <3>3
  <2> QED BY <1>4, <2>2, <2>3, InputRun DEF E!Unsupported, E!Begin, On
<1>5. CASE E!WithInputs
  <2>1. ~Ended /\ here = "test_02_03_00" /\ at.step = "begin" /\ device' = device
    BY <1>5, InputRun DEF E!WithInputs, On
  <2>2. PICK with : /\ with = E!List({s \in Sender : InputsOf[s] # <<>>})
                    /\ noted' = [noted EXCEPT !.with = with]
                    /\ Conclude("UNCLEAR") \/ Conclude("PASS")
    BY <1>5, InputRun DEF E!WithInputs
  <2>3. with \in Seq(Sender)
    BY <2>2, SendersAreListed
  <2>4. noted' \in InputNotes /\ noted'.silent = noted.silent
    BY <1>0, <2>2, <2>3 DEF InputNotes
  <2> QED BY <1>0, <1>1, <2>1, <2>2, <2>4, InputEnds
<1> QED BY <1>3, <1>4, <1>5

LEMMA InputSetUpStep ==
    ASSUME InputPromise, E!SetUp \/ E!TearDown
    PROVE  InputPromise'
<1> DEFINE here == Head(at.plan)
           i == Subject
<1>0. /\ device \in InputDevice /\ noted \in InputNotes
      /\ at.step # "begin" => i \in InputsVisited(here)
      /\ QuickInputs(device) =>
            /\ device.fault = "none"
            /\ at.step # "begin" => InputDuty(device, noted, here, at.step, i)
            /\ at.step = "begin" /\ ~Ended /\ here # "set_up_tests" => Clean(device, {})
  BY InputKnown
<1>1. "PASS" \in Verdict /\ "PASS" # "FAIL"
  BY DEF Verdict
<1>2. CASE E!SetUp
  <2>1. /\ ~Ended /\ Conclude("PASS") /\ noted' = noted
        /\ device' = IF device.fault = "keeps" THEN device
                     ELSE [device EXCEPT !.base = [j \in MediaInput |-> "none"]]
    BY <1>2, InputRun DEF E!SetUp, On
  <2>2. device.fault # "keeps" =>
           /\ device' \in InputDevice /\ device'.pace = device.pace /\ device'.fault = device.fault
           /\ device'.network = device.network /\ device'.base = [j \in MediaInput |-> "none"]
    BY <1>0, <2>1 DEF InputDevice
  <2>3. device' \in InputDevice /\ device'.pace = device.pace /\ (QuickInputs(device') => QuickInputs(device))
    BY <1>0, <2>1, <2>2 DEF QuickInputs
  <2>4. QuickInputs(device') => Clean(device', {})
    BY <1>0, <2>2, <2>3 DEF Clean
  <2> QED BY <1>0, <1>1, <2>1, <2>3, <2>4, InputEnds
<1>3. CASE E!TearDown /\ at.step = "begin"
  <2>1. /\ ~Ended /\ here = "tear_down_tests" /\ UNCHANGED <<device, noted>>
        /\ \/ Conclude("PASS")
           \/ E!Visit(E!List(Base))
    BY <1>3, InputRun DEF E!TearDown, On
  <2>2. CASE Conclude("PASS")
    BY <1>0, <1>1, <1>3, <2>1, <2>2, InputEnds
  <2>3. CASE E!Visit(E!List(Base))
    <3>1. E!List(Base) \in Seq(InputsVisited(here))
      BY <2>1, InputSets, EdidLists DEF InputsVisited
    <3> QED BY <1>3, <2>1, <2>3, <3>1, InputRun, InputVisits
  <2> QED BY <2>1, <2>2, <2>3
<1>4. CASE E!TearDown /\ at.step = "visit"
  <2>1. /\ ~Ended /\ here = "tear_down_tests" /\ noted' = noted /\ LeaveAs("PASS")
        /\ \/ device' = IF device.fault = "keeps" THEN device ELSE E!WithBase(device, i, "none")
           \/ device' = [device EXCEPT !.network = "failed"]
    BY <1>4, InputRun DEF E!TearDown, On, E!Delete
  <2>2. i \in MediaInput /\ (QuickInputs(device) => Clean(device, {}))
    BY <1>0, <1>4, <2>1, InputSets DEF InputDuty
  <2>3. CASE device' = IF device.fault = "keeps" THEN device ELSE E!WithBase(device, i, "none")
    <3>1. /\ device' \in InputDevice /\ device'.pace = device.pace /\ (QuickInputs(device') => QuickInputs(device))
          /\ QuickInputs(device) => /\ device'.base[i] = "none"
                                    /\ \A j \in MediaInput : j # i => device'.base[j] = device.base[j]
      BY <1>0, <2>2, <2>3, InputTakesBack
    <3>2. QuickInputs(device) => Clean(device', {})
      BY <2>2, <3>1 DEF Clean
    <3> QED BY <1>0, <1>4, <2>1, <3>1, <3>2, InputLeaves
  <2>4. CASE device' = [device EXCEPT !.network = "failed"]
    <3>1. device' \in InputDevice /\ device'.pace = device.pace /\ device'.network = "failed"
      BY <1>0, <2>4 DEF InputDevice
    <3> QED BY <1>0, <1>4, <2>1, <3>1, InputLeaves DEF QuickInputs
  <2> QED BY <2>1, <2>3, <2>4
<1> QED BY <1>2, <1>3, <1>4, InputRun DEF E!TearDown, On

LEMMA InputHiccupStep ==
    ASSUME InputPromise, E!Hiccup
    PROVE  InputPromise'
<1>0. IsRun /\ Judged /\ device \in InputDevice /\ noted \in InputNotes
  BY InputKnown
<1>1. /\ ~Ended /\ device' = [device EXCEPT !.network = "failed"] /\ noted' = noted
      /\ Abort \/ Conclude("FAIL")
  BY InputRun DEF E!Hiccup
<1>2. device' \in InputDevice /\ device'.pace = device.pace /\ device'.network = "failed"
  BY <1>0, <1>1 DEF InputDevice
<1>3. CASE Conclude("FAIL")
  BY <1>0, <1>1, <1>2, <1>3, InputEnds DEF QuickInputs, Verdict
<1>4. CASE Abort
  <2>1. at' = Position(<<>>) /\ verdict' = verdict
    BY <1>4 DEF Abort
  <2>2. IsRun' /\ at'.step = "begin" /\ at'.tries \in Nat
    BY <1>0, <2>1 DEF IsRun, IsPlan, Position
  <2> QED BY <1>0, <1>1, <1>2, <2>1, <2>2 DEF InputPromise, InputTypes, QuickInputs, Judged
<1> QED BY <1>1, <1>3, <1>4

\* The Inputs move between the steps of the suite.
LEMMA InputMovesStep ==
    ASSUME InputPromise, UNCHANGED <<at, noted, verdict>>,
           \/ device' = device
           \/ \E i \in MediaInput, e \in {"default", "valid", "adjusted"} :
                  device' = [device EXCEPT !.effective[i] = e]
           \/ \E i \in MediaInput, s \in {"none", "present"} :
                  device' = [device EXCEPT !.signal[i] = s]
    PROVE  InputPromise'
<1>1. device \in InputDevice
  BY InputKnown
<1> DEFINE Still == /\ device' \in InputDevice /\ device'.fault = device.fault /\ device'.pace = device.pace
                    /\ device'.network = device.network /\ device'.base = device.base
                    /\ device'.changed = device.changed
<1>2. Still
  <2>1. ASSUME NEW i \in MediaInput, NEW e \in {"default", "valid", "adjusted"},
               device' = [device EXCEPT !.effective[i] = e]
        PROVE  Still
    <3>1. PICK effective : effective = [device.effective EXCEPT ![i] = e]
      OBVIOUS
    <3>2. effective \in [MediaInput -> {"default", "valid", "adjusted"}] /\ device' = [device EXCEPT !.effective = effective]
      BY <1>1, <2>1, <3>1 DEF InputDevice
    <3> QED BY <1>1, <3>2 DEF InputDevice
  <2>2. ASSUME NEW i \in MediaInput, NEW s \in {"none", "present"}, device' = [device EXCEPT !.signal[i] = s]
        PROVE  Still
    <3>1. PICK signal : signal = [device.signal EXCEPT ![i] = s]
      OBVIOUS
    <3>2. signal \in [MediaInput -> {"none", "awaiting", "present"}] /\ device' = [device EXCEPT !.signal = signal]
      BY <1>1, <2>2, <3>1 DEF InputDevice
    <3> QED BY <1>1, <3>2 DEF InputDevice
  <2> QED BY <1>1, <2>1, <2>2
<1>3. InputTypes'
  BY <1>2 DEF InputPromise, InputTypes, IsRun, IsPlan, Judged, Ended, InputsVisited, InputNotes
<1>4. QuickInputs(device') => QuickInputs(device)
  BY <1>2 DEF QuickInputs
<1>5. QuickInputs(device) => InputPass'
  BY <1>2 DEF InputPromise, InputPass, FewFailed, Excused, Clean, InputDuty, Ended, E!SendersOf
<1> QED BY <1>3, <1>4, <1>5 DEF InputPromise, QuickInputs

LEMMA InputStep ==
    ASSUME InputPromise, [E!Next]_suiteVars
    PROVE  InputPromise'
<1>1. CASE UNCHANGED suiteVars
  BY <1>1, InputMovesStep DEF suiteVars
<1>2. ASSUME NEW i \in MediaInput, E!Follow(i) \/ E!Signal(i) PROVE InputPromise'
  <2>1. E!Followed(i) \subseteq {"default", "valid", "adjusted"}
    BY DEF E!Followed
  <2> QED BY <1>2, <2>1, InputMovesStep DEF E!Follow, E!Signal
<1>3. CASE TimelyInputs /\ E!Tests
  BY <1>3, InputSetUpStep, InputHiccupStep, InputSignalsStep, InputPutStep, InputLooksStep, InputVersionsStep,
     InputAdjustStep, InputSendersStep DEF E!Tests
<1>4. E!Next => (\E i \in MediaInput : E!Follow(i) \/ E!Signal(i)) \/ (TimelyInputs /\ E!Tests)
  BY DEF E!Next, E!LastAttempt, TimelyInputs
<1> QED BY <1>1, <1>2, <1>3, <1>4

LEMMA InputBegins ==
    ASSUME E!Init
    PROVE  InputPromise
<1>1. device \in InputDevice /\ noted \in InputNotes
  <2>1. noted \in InputNotes
    BY DEF E!Init, InputNotes
  <2>2. device \in InputDevice
    BY DEF E!Init, InputDevice
  <2> QED BY <2>1, <2>2
<1>2. PICK order : order = E!Order
  OBVIOUS
<1>3. order = [k \in 1..8 |-> order[k]] /\ \A k \in 1..8 : order[k] # "tear_down_tests"
  BY <1>2 DEF E!Order
<1>a. E!Plans(order) = Plans(order) /\ \A plan : E!Position(plan) = Position(plan)
  BY DEF E!Plans, Plans, E!Position, Position
<1>b. (\E plan \in E!Plans(order) : at = E!Position(plan)) /\ verdict = E!NoVerdicts(order)
  BY <1>2 DEF E!Init
<1>4. PICK plan \in Plans(order) : at = Position(plan)
  BY <1>a, <1>b
<1>5. verdict = NoVerdicts(order)
  BY <1>b DEF E!NoVerdicts, NoVerdicts
<1>6. IsRun /\ at.step = "begin" /\ Judged /\ NoneFailed /\ Head(at.plan) = "set_up_tests"
  BY <1>3, <1>4, <1>5, RunBegins, PlansArePlans
<1>7. at.tries \in Nat
  BY <1>4 DEF Position
<1> QED BY <1>1, <1>6, <1>7 DEF InputPromise, InputTypes, InputPass, NoneFailed, FewFailed

LEMMA InputSpeaks ==
    ASSUME InputPromise
    PROVE  E!TypeOK /\ E!ConformingInputPasses
<1>1. E!TypeOK
  BY DEF InputPromise, InputTypes, InputDevice, InputNotes, E!TypeOK, Judged, E!Verdict, Verdict
<1>2. E!ConformingInputPasses
  BY DEF InputPromise, QuickInputs, InputPass, FewFailed, Excused, E!ConformingInputPasses, E!Conforming
<1> QED BY <1>1, <1>2

-----------------------------------------------------------------------------
(* What all of these suites promise.                                        *)

PromisingSuites == {"edid", "connection", "updates", "registry"}

Promises ==
    /\ suite = "edid" => InputPromise
    /\ suite = "connection" => ConnectionPromise
    /\ suite = "updates" => UpdatePromise
    /\ suite = "registry" => RegistryPromise

LEMMA PromisesBegin == MediaInit => Promises
<1> SUFFICES ASSUME MediaInit PROVE Promises
  OBVIOUS
<1>1. CASE suite = "connection"
  <2>1. P!Init
    BY <1>1 DEF MediaInit
  <2> QED BY <1>1, <2>1, ConnectionBegins DEF Promises, ConnectionPromise
<1>2. CASE suite = "updates"
  <2>1. U!Init
    BY <1>2 DEF MediaInit
  <2> QED BY <1>2, <2>1, UpdateBegins DEF Promises
<1>3. CASE suite = "registry"
  <2>1. G!Init
    BY <1>3 DEF MediaInit
  <2> QED BY <1>3, <2>1, RegistryBegins DEF Promises
<1>4. CASE suite = "edid"
  <2>1. E!Init
    BY <1>4 DEF MediaInit
  <2> QED BY <1>4, <2>1, InputBegins DEF Promises
<1> QED BY <1>1, <1>2, <1>3, <1>4 DEF Promises

LEMMA PromisesStep ==
    ASSUME Promises, [MediaNext]_mediaVars
    PROVE  Promises'
<1>1. /\ suite' = suite /\ (suite = "connection" => [P!Next]_suiteVars)
      /\ suite = "edid" => [E!Next]_suiteVars
  BY MediaSteps DEF P!suiteVars, E!suiteVars, suiteVars
<1>2. (suite = "updates" => [U!Next]_suiteVars) /\ (suite = "registry" => [G!Next]_suiteVars)
  BY DEF MediaNext, mediaVars
<1>3. CASE suite = "connection"
  BY <1>1, <1>3, ConnectionPromiseKept DEF Promises
<1>4. CASE suite = "updates"
  BY <1>1, <1>2, <1>4, UpdateStep DEF Promises
<1>5. CASE suite = "registry"
  BY <1>1, <1>2, <1>5, RegistryPromiseKept DEF Promises
<1>6. CASE suite = "edid"
  BY <1>1, <1>6, InputStep DEF Promises
<1> QED BY <1>1, <1>3, <1>4, <1>5, <1>6 DEF Promises

LEMMA PromisesSpeak ==
    ASSUME Promises, suite \in PromisingSuites
    PROVE  MediaTypeOK /\ ConformingDevicesPass
<1>1. CASE suite = "connection"
  BY <1>1, ConnectionSpeaks DEF Promises, ConnectionPromise, MediaTypeOK, ConformingDevicesPass
<1>2. CASE suite = "updates"
  BY <1>2, UpdateSpeaks DEF Promises, MediaTypeOK, ConformingDevicesPass
<1>3. CASE suite = "registry"
  BY <1>3, RegistrySpeaks DEF Promises, MediaTypeOK, ConformingDevicesPass
<1>4. CASE suite = "edid"
  BY <1>4, InputSpeaks DEF Promises, MediaTypeOK, ConformingDevicesPass
<1> QED BY <1>1, <1>2, <1>3, <1>4 DEF PromisingSuites

\* The suites of IS-05, of IS-04 with IS-05, of the registry and of the Inputs of IS-11
\* fail no Node, port, registry or Input that follows its specification in time, whatever
\* its ports, files, times of expiry, types of resources and EDIDs, and wherever a test
\* returns early (IS0501Test.py, IS0502Test.py, IS0402Test.py, IS1101Test.py), but for three
\* tests of Inputs: two that do not wait for an Effective EDID, and test_01_00, which raises
\* a ValueError at a connected Input without a signal (IS1101Test.py:216-219).
THEOREM ConformingPortsPass == MediaSpec => [](suite \in PromisingSuites => ConformingDevicesPass)
<1>1. Promises => (suite \in PromisingSuites => ConformingDevicesPass)
  BY PromisesSpeak
<1> QED BY PromisesBegin, PromisesStep, <1>1, PTL DEF MediaSpec

\* Their states stay of their kind, and with them the lists that the tests of a registry
\* take from its WebSockets.
THEOREM PortTypes == MediaSpec => [](suite \in PromisingSuites => MediaTypeOK)
<1>1. Promises => (suite \in PromisingSuites => MediaTypeOK)
  BY PromisesSpeak
<1> QED BY PromisesBegin, PromisesStep, <1>1, PTL DEF MediaSpec
=============================================================================
