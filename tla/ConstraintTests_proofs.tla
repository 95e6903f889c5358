----------------------- MODULE ConstraintTests_proofs -----------------------
(***************************************************************************)
(* The tests of Active Constraints: what they keep true of the device and  *)
(* of the order of the tests, how a run of them begins, what a step of a   *)
(* test has to do to keep it so, and that every step does; and with that,  *)
(* what the suites of MediaSuites leave behind.                            *)
(***************************************************************************)
EXTENDS MediaSuites_proofs

IsSenderDevice(d) ==
    /\ d = [fault |-> d.fault, able |-> d.able, pace |-> d.pace, network |-> d.network,
            active |-> d.active, status |-> d.status, rate |-> d.rate, changed |-> d.changed]
    /\ d.active = [s \in Sender |-> d.active[s]]
    /\ d.status = [s \in Sender |-> d.status[s]]
    /\ d.rate = [s \in Sender |-> d.rate[s]]

\* What the device was told to be does not change.
SameKind(d, e) == e.fault = d.fault /\ e.able = d.able /\ e.pace = d.pace /\ e.network = d.network

\* What a Sender can be asked for; "none" releases it.
Wishes == {"none", "same", "other", "choice"}

\* A Sender that is not awaiting its essence has followed its constraints.
HasFollowed(d) ==
    \A s \in Sender :
        /\ d.active[s] \in Wishes
        /\ d.status[s] # "awaiting" =>
              d.status[s] = C!Outcome(d, s).status /\ d.rate[s] = C!Outcome(d, s).rate

IsSettled(d) == \A s \in Sender : d.status[s] # "awaiting"

FieldsOfDevice == {"fault", "able", "pace", "network", "active", "status", "rate", "changed"}

\* A device with some of its fields changed.
With(d, active, status, rate, changed) ==
    [[[[d EXCEPT !.active = active] EXCEPT !.status = status] EXCEPT !.rate = rate]
        EXCEPT !.changed = changed]

\* Such a device is what its fields say.
LEMMA DeviceWith ==
    ASSUME NEW d, IsSenderDevice(d), NEW active, NEW status, NEW rate, NEW changed,
           active = [s \in Sender |-> active[s]], status = [s \in Sender |-> status[s]],
           rate = [s \in Sender |-> rate[s]]
    PROVE  LET e == With(d, active, status, rate, changed)
           IN /\ IsSenderDevice(e) /\ SameKind(d, e)
              /\ e.active = active /\ e.status = status /\ e.rate = rate /\ e.changed = changed
<1> DEFINE e == With(d, active, status, rate, changed)
<1>1. DOMAIN d = FieldsOfDevice
  BY DEF IsSenderDevice, FieldsOfDevice
<1>2. DOMAIN e = DOMAIN d /\ e = [x \in DOMAIN e |-> e[x]]
  BY DEF With
<1>3. /\ e.fault = d.fault /\ e.able = d.able /\ e.pace = d.pace /\ e.network = d.network
      /\ e.active = active /\ e.status = status /\ e.rate = rate /\ e.changed = changed
  BY <1>1 DEF FieldsOfDevice, With
<1> HIDE DEF e
<1>4. e = [fault |-> e.fault, able |-> e.able, pace |-> e.pace, network |-> e.network,
           active |-> e.active, status |-> e.status, rate |-> e.rate, changed |-> e.changed]
  BY <1>1, <1>2 DEF FieldsOfDevice
<1> QED
  BY <1>3, <1>4 DEF IsSenderDevice, SameKind, e

\* A Sender that settles is given the status and the rate of its outcome, no other is.
LEMMA Settling ==
    ASSUME NEW d, IsSenderDevice(d), NEW s \in Sender
    PROVE  LET e == C!Settled(d, s)
           IN /\ IsSenderDevice(e) /\ SameKind(d, e) /\ e.active = d.active
              /\ e.status = [d.status EXCEPT ![s] = C!Outcome(d, s).status]
              /\ e.rate = [d.rate EXCEPT ![s] = C!Outcome(d, s).rate]
              /\ d.changed \subseteq e.changed
              /\ d.fault # "still" => s \in e.changed
<1> DEFINE active == d.active
           o == C!Outcome(d, s)
           status == [d.status EXCEPT ![s] = o.status]
           rate == [d.rate EXCEPT ![s] = o.rate]
           changed == IF d.fault = "still" THEN d.changed ELSE d.changed \cup {s}
           e == With(d, active, status, rate, changed)
<1> HIDE DEF o
<1>1. C!Settled(d, s) = e
  BY DEF C!Settled, IsSenderDevice, With, o
<1>2. /\ active = [x \in Sender |-> active[x]]
      /\ status = [x \in Sender |-> status[x]] /\ rate = [x \in Sender |-> rate[x]]
  BY DEF IsSenderDevice
<1>3. d.changed \subseteq changed /\ (d.fault # "still" => s \in changed)
  OBVIOUS
<1> HIDE DEF active, status, rate, changed
<1>4. /\ IsSenderDevice(e) /\ SameKind(d, e) /\ e.active = active
      /\ e.status = status /\ e.rate = rate /\ e.changed = changed
  BY <1>2, DeviceWith
<1> QED
  BY <1>1, <1>3, <1>4 DEF active, status, rate, o

\* Taking constraints: at once, if the Sender follows them already or is quick.
LEMMA Constraining ==
    ASSUME NEW d, IsSenderDevice(d), NEW s \in Sender, NEW c
    PROVE  LET e == C!Constrain(d, s, c)
           IN /\ IsSenderDevice(e) /\ SameKind(d, e)
              /\ e.active = [d.active EXCEPT ![s] = c] /\ d.changed \subseteq e.changed
              /\ d.fault # "still" => {s} \cup C!Range(InputsOf[s]) \subseteq e.changed
              /\ \/ /\ d.active[s] = c /\ d.status[s] # "awaiting"
                    /\ e.status = d.status /\ e.rate = d.rate
                 \/ /\ d.pace # "instant"
                    /\ e.status = [d.status EXCEPT ![s] = "awaiting"] /\ e.rate = d.rate
                 \/ /\ d.pace = "instant"
                    /\ e.status = [d.status EXCEPT ![s] = C!Outcome(e, s).status]
                    /\ e.rate = [d.rate EXCEPT ![s] = C!Outcome(e, s).rate]
<1> DEFINE active == [d.active EXCEPT ![s] = c]
           status == [d.status EXCEPT ![s] = "awaiting"]
           rate == d.rate
           changed == IF d.fault = "still" THEN d.changed
                      ELSE d.changed \cup {s} \cup C!Range(InputsOf[s])
           new == With(d, active, status, rate, changed)
           e == C!Constrain(d, s, c)
           same == d.active[s] = c /\ d.status[s] # "awaiting"
           back == d.status[s]
<1>1. /\ same => e = [new EXCEPT !.status[s] = back]
      /\ ~same /\ d.pace = "instant" => e = C!Settled(new, s)
      /\ ~same /\ d.pace # "instant" => e = new
  <2> DEFINE put == [d EXCEPT !.active[s] = c, !.status[s] = "awaiting",
                              !.changed = IF d.fault = "still" THEN @
                                          ELSE @ \cup {s} \cup C!Range(InputsOf[s])]
  <2>1. put = new
    BY DEF IsSenderDevice, With
  <2> DEFINE kept == [put EXCEPT !.status[s] = d.status[s]]
             quick == C!Settled(put, s)
  <2>2. e = IF d.active[s] = c /\ d.status[s] # "awaiting" THEN kept
            ELSE IF d.pace = "instant" THEN quick ELSE put
    BY DEF C!Constrain
  <2>3. kept = [new EXCEPT !.status[s] = back] /\ quick = C!Settled(new, s)
    <3> HIDE DEF new, put
    <3> QED
      BY <2>1
  <2> HIDE DEF put, new, e, kept, quick
  <2>4. same => e = kept
    BY <2>2
  <2>5. ~same /\ d.pace = "instant" => e = quick
    BY <2>2
  <2>6. ~same /\ d.pace # "instant" => e = put
    BY <2>2
  <2> QED
    BY <2>1, <2>3, <2>4, <2>5, <2>6
<1>2. /\ active = [x \in Sender |-> active[x]]
      /\ status = [x \in Sender |-> status[x]] /\ rate = [x \in Sender |-> rate[x]]
  BY DEF IsSenderDevice
<1>3. d.changed \subseteq changed /\ (d.fault # "still" => {s} \cup C!Range(InputsOf[s]) \subseteq changed)
  OBVIOUS
<1> HIDE DEF active, status, rate, changed
<1>4. /\ IsSenderDevice(new) /\ SameKind(d, new) /\ new.active = active
      /\ new.status = status /\ new.rate = rate /\ new.changed = changed
  BY <1>2, DeviceWith
<1> HIDE DEF new, e
<1>5. CASE d.active[s] = c /\ d.status[s] # "awaiting"
  <2> DEFINE old == d.status
             a == new.active  r == new.rate  h == new.changed
  <2>1. e = With(new, a, old, r, h)
    <3>1. e = [new EXCEPT !.status[s] = back]
      BY <1>1, <1>5
    <3>2. [new.status EXCEPT ![s] = back] = d.status
      BY <1>4 DEF IsSenderDevice, status
    <3>3. e = [new EXCEPT !.status = d.status]
      BY <3>1, <3>2
    <3> QED
      BY <1>4, <3>3 DEF With, IsSenderDevice
  <2>2. /\ a = [x \in Sender |-> a[x]] /\ old = [x \in Sender |-> old[x]]
        /\ r = [x \in Sender |-> r[x]]
    BY <1>4 DEF IsSenderDevice
  <2> HIDE DEF a, r, h, old
  <2>3. /\ IsSenderDevice(e) /\ SameKind(new, e)
        /\ e.active = a /\ e.status = old /\ e.rate = r /\ e.changed = h
    BY <1>4, <2>1, <2>2, DeviceWith
  <2> QED
    BY <1>3, <1>4, <1>5, <2>3 DEF a, r, h, old, active, rate, SameKind, e
<1>6. CASE ~(d.active[s] = c /\ d.status[s] # "awaiting") /\ d.pace = "instant"
  <2>1. e = C!Settled(new, s)
    BY <1>1, <1>6
  <2>2. /\ IsSenderDevice(e) /\ SameKind(new, e) /\ e.active = new.active
        /\ e.status = [new.status EXCEPT ![s] = C!Outcome(new, s).status]
        /\ e.rate = [new.rate EXCEPT ![s] = C!Outcome(new, s).rate]
        /\ new.changed \subseteq e.changed
    BY <1>4, <2>1, Settling
  <2>3. C!Outcome(new, s) = C!Outcome(e, s)
    BY <2>2 DEF C!Outcome, SameKind
  <2>4. /\ e.status = [status EXCEPT ![s] = C!Outcome(e, s).status]
        /\ e.rate = [rate EXCEPT ![s] = C!Outcome(e, s).rate]
    BY <1>4, <2>2, <2>3
  <2>5. /\ e.status = [d.status EXCEPT ![s] = C!Outcome(e, s).status]
        /\ e.rate = [d.rate EXCEPT ![s] = C!Outcome(e, s).rate]
    BY <2>4 DEF IsSenderDevice, status, rate
  <2> QED
    BY <1>3, <1>4, <1>6, <2>2, <2>5 DEF active, SameKind, e
<1>7. CASE ~(d.active[s] = c /\ d.status[s] # "awaiting") /\ d.pace # "instant"
  <2>1. e = new
    BY <1>1, <1>7
  <2> QED
    BY <1>3, <1>4, <1>7, <2>1 DEF active, status, rate, e
<1> QED
  BY <1>5, <1>6, <1>7

\* A version that was read is no change any more.
LEMMA Noticing ==
    ASSUME NEW d, IsSenderDevice(d), NEW x
    PROVE  LET e == C!Seen(d, x)
           IN /\ IsSenderDevice(e) /\ SameKind(d, e)
              /\ e.active = d.active /\ e.status = d.status /\ e.rate = d.rate
<1> DEFINE active == d.active  status == d.status  rate == d.rate  changed == d.changed \ {x}
           e == With(d, active, status, rate, changed)
<1>1. C!Seen(d, x) = e
  BY DEF C!Seen, IsSenderDevice, With
<1>2. /\ active = [s \in Sender |-> active[s]] /\ status = [s \in Sender |-> status[s]]
      /\ rate = [s \in Sender |-> rate[s]]
  BY DEF IsSenderDevice
<1> HIDE DEF active, status, rate, changed
<1>3. /\ IsSenderDevice(e) /\ SameKind(d, e)
      /\ e.active = active /\ e.status = status /\ e.rate = rate
  BY <1>2, DeviceWith
<1> QED
  BY <1>1, <1>3 DEF active, status, rate

-----------------------------------------------------------------------------
(* The order of the tests.                                                  *)

\* The tests that put constraints, and those that delete them all in the end.
PutTests ==
    {"test_02_02_04_01", "test_02_02_04_02", "test_02_02_05_01", "test_02_02_05_02",
     "test_02_02_06_01", "test_02_02_06_02", "test_02_02_07_01", "test_02_02_07_02",
     "test_02_03_05_01", "test_02_03_05_02"}
InputTests == {"test_02_03_05_01", "test_02_03_05_02"}

HasAny(plan, tests) == \E k \in 1..Len(plan) : plan[k] \in tests
CleansUp(plan) ==
    \E m, n \in 1..Len(plan) : m < n /\ plan[m] = "test_06_02" /\ plan[n] = "test_06_03"

\* Constraints are put only before test_06_02 and test_06_03, and Flows are noted right
\* after the status of all Senders has been awaited.
Whole(plan) ==
    /\ \A k \in 1..Len(plan) : plan[k] \in PutTests =>
          \E m, n \in 1..Len(plan) :
              k < m /\ m < n /\ plan[m] = "test_06_02" /\ plan[n] = "test_06_03"
    /\ \A k \in 2..Len(plan) : plan[k] = "test_02_02_03" => plan[k - 1] = "test_02_02_01"

\* The tests that are left when the first has ended.
LEMMA RestOfPlan ==
    ASSUME NEW T0, NEW plan \in Seq(T0), plan # <<>>
    PROVE  /\ Tail(plan) \in Seq(T0) /\ Len(plan) \in Nat \ {0} /\ Len(Tail(plan)) = Len(plan) - 1
           /\ Head(plan) = plan[1]
           /\ \A k \in 1..Len(Tail(plan)) : Tail(plan)[k] = plan[k + 1]
  BY HeadTailProperties, EmptySeq

\* When a test that puts constraints has ended, tests that delete them are to come.
LEMMA WholePlans ==
    ASSUME NEW T0, NEW plan \in Seq(T0), plan # <<>>, Whole(plan)
    PROVE  /\ Whole(Tail(plan))
           /\ Head(plan) \in PutTests => CleansUp(Tail(plan))
           /\ Tail(plan) # <<>> /\ Head(Tail(plan)) = "test_02_02_03" => Head(plan) = "test_02_02_01"
<1> DEFINE rest == Tail(plan)
<1>1. /\ rest \in Seq(T0) /\ Len(plan) \in Nat \ {0} /\ Len(rest) = Len(plan) - 1
      /\ Head(plan) = plan[1] /\ \A k \in 1..Len(rest) : rest[k] = plan[k + 1]
  BY RestOfPlan
<1> HIDE DEF rest
<1>2. ASSUME NEW k \in 1..Len(rest), rest[k] \in PutTests
      PROVE  \E m, n \in 1..Len(rest) :
                 k < m /\ m < n /\ rest[m] = "test_06_02" /\ rest[n] = "test_06_03"
  <2>1. k + 1 \in 1..Len(plan) /\ plan[k + 1] \in PutTests
    BY <1>1, <1>2
  <2>2. PICK m, n \in 1..Len(plan) :
               k + 1 < m /\ m < n /\ plan[m] = "test_06_02" /\ plan[n] = "test_06_03"
    BY <2>1 DEF Whole
  <2>3. m - 1 \in 1..Len(rest) /\ n - 1 \in 1..Len(rest) /\ k < m - 1 /\ m - 1 < n - 1
    BY <1>1, <2>2
  <2>4. rest[m - 1] = plan[m] /\ rest[n - 1] = plan[n]
    BY <1>1, <2>2, <2>3
  <2> QED
    BY <2>2, <2>3, <2>4
<1>3. ASSUME NEW k \in 2..Len(rest), rest[k] = "test_02_02_03" PROVE rest[k - 1] = "test_02_02_01"
  <2>1. k + 1 \in 2..Len(plan) /\ k \in 1..Len(rest) /\ k - 1 \in 1..Len(rest)
    BY <1>1
  <2>2. plan[k + 1] = rest[k] /\ plan[k] = rest[k - 1]
    BY <1>1, <2>1
  <2>3. plan[(k + 1) - 1] = "test_02_02_01"
    BY <1>3, <2>1, <2>2 DEF Whole
  <2> QED
    BY <2>2, <2>3
<1>4. ASSUME Head(plan) \in PutTests PROVE CleansUp(rest)
  <2>1. 1 \in 1..Len(plan) /\ plan[1] \in PutTests
    BY <1>1, <1>4
  <2>2. PICK m, n \in 1..Len(plan) :
               1 < m /\ m < n /\ plan[m] = "test_06_02" /\ plan[n] = "test_06_03"
    BY <2>1 DEF Whole
  <2>3. m - 1 \in 1..Len(rest) /\ n - 1 \in 1..Len(rest) /\ m - 1 < n - 1
    BY <1>1, <2>2
  <2>4. rest[m - 1] = plan[m] /\ rest[n - 1] = plan[n]
    BY <1>1, <2>2, <2>3
  <2> QED
    BY <2>2, <2>3, <2>4 DEF CleansUp
<1>5. ASSUME rest # <<>>, Head(rest) = "test_02_02_03" PROVE Head(plan) = "test_02_02_01"
  <2>1. Len(rest) # 0 /\ Head(rest) = rest[1]
    BY <1>1, <1>5, EmptySeq
  <2>2. 2 \in 2..Len(plan) /\ 1 \in 1..Len(rest)
    BY <1>1, <2>1
  <2>3. plan[2] = "test_02_02_03"
    BY <1>1, <1>5, <2>1, <2>2
  <2>4. plan[2 - 1] = "test_02_02_01"
    BY <2>2, <2>3 DEF Whole
  <2> QED
    BY <1>1, <2>4
<1> QED
  BY <1>2, <1>3, <1>4, <1>5 DEF Whole, rest

\* A test is to come if it is the first or comes after it.
LEMMA TestsToCome ==
    ASSUME NEW T0, NEW plan \in Seq(T0), plan # <<>>, NEW tests
    PROVE  /\ HasAny(Tail(plan), tests) => HasAny(plan, tests)
           /\ Head(plan) \in tests => HasAny(plan, tests)
           /\ HasAny(plan, tests) => Head(plan) \in tests \/ HasAny(Tail(plan), tests)
<1> DEFINE rest == Tail(plan)
<1>1. /\ rest \in Seq(T0) /\ Len(plan) \in Nat \ {0} /\ Len(rest) = Len(plan) - 1
      /\ Head(plan) = plan[1] /\ \A k \in 1..Len(rest) : rest[k] = plan[k + 1]
  BY RestOfPlan
<1> HIDE DEF rest
<1>2. ASSUME NEW k \in 1..Len(rest), rest[k] \in tests PROVE HasAny(plan, tests)
  <2>1. k + 1 \in 1..Len(plan) /\ plan[k + 1] \in tests
    BY <1>1, <1>2
  <2> QED
    BY <2>1 DEF HasAny
<1>3. ASSUME NEW k \in 1..Len(plan), plan[k] \in tests, k # 1 PROVE HasAny(rest, tests)
  <2>1. k - 1 \in 1..Len(rest) /\ (k - 1) + 1 = k
    BY <1>1, <1>3
  <2>2. rest[k - 1] \in tests
    BY <1>1, <1>3, <2>1
  <2> QED
    BY <2>1, <2>2 DEF HasAny
<1>4. Head(plan) \in tests => HasAny(plan, tests)
  BY <1>1 DEF HasAny
<1> QED
  BY <1>1, <1>2, <1>3, <1>4 DEF HasAny, rest

\* The last test that deletes constraints is to come until it is the first one.
LEMMA CleaningPlans ==
    ASSUME NEW T0, NEW plan \in Seq(T0), plan # <<>>, CleansUp(plan)
    PROVE  /\ HasAny(Tail(plan), {"test_06_03"})
           /\ Head(plan) # "test_06_02" => CleansUp(Tail(plan))
<1> DEFINE rest == Tail(plan)
<1>1. /\ rest \in Seq(T0) /\ Len(plan) \in Nat \ {0} /\ Len(rest) = Len(plan) - 1
      /\ Head(plan) = plan[1] /\ \A k \in 1..Len(rest) : rest[k] = plan[k + 1]
  BY RestOfPlan
<1> HIDE DEF rest
<1>2. PICK m, n \in 1..Len(plan) : m < n /\ plan[m] = "test_06_02" /\ plan[n] = "test_06_03"
  BY DEF CleansUp
<1>3. n - 1 \in 1..Len(rest) /\ rest[n - 1] = "test_06_03"
  BY <1>1, <1>2
<1>4. ASSUME m # 1 PROVE CleansUp(rest)
  <2>1. m - 1 \in 1..Len(rest) /\ m - 1 < n - 1
    BY <1>1, <1>2, <1>4
  <2>2. rest[m - 1] = "test_06_02"
    BY <1>1, <1>2, <2>1
  <2> QED
    BY <1>3, <2>1, <2>2 DEF CleansUp
<1> QED
  BY <1>1, <1>2, <1>3, <1>4 DEF HasAny, rest

-----------------------------------------------------------------------------
(* IS-11: no Active Constraints are left.                                   *)

\* The devices that NoConstraintsAreLeft is about.
Fit ==
    C!Conforming /\ (device.pace = "instant" \/ (device.pace = "prompt" /\ device.able = "yes"))

\* The records of the suite, and the subjects of a test that visits them.
ConstraintRecords ==
    /\ noted = [known |-> noted.known, with |-> noted.with, without |-> noted.without,
                rate |-> noted.rate, flow |-> noted.flow]
    /\ noted.known = [f \in C!Format |-> noted.known[f]]
    /\ \A f \in C!Format : noted.known[f] \in Seq(Sender)
    /\ noted.with \in Seq(Sender) /\ noted.without \in Seq(Sender)
    /\ noted.rate = [s \in Sender |-> noted.rate[s]]

UnderWay == ~C!Ended /\ at.step # "begin"
SetUpDone == ~C!Ended /\ Head(at.plan) # "set_up_tests"

SenderTodo ==
    UnderWay =>
        /\ at.tries \in Nat /\ at.todo # <<>>
        /\ Head(at.plan) \notin InputTests => at.todo \in Seq(Sender)
        /\ Head(at.plan) \in InputTests =>
              C!First \in Sender /\ at.todo \in Seq(C!Range(InputsOf[C!First]))

\* The order of the tests to come: that of the suite, or that of a single test, which has
\* no Senders to put constraints to or puts none.
InOrder ==
    /\ \A k \in 2..Len(at.plan) : at.plan[k] # "set_up_tests"
    /\ \/ Whole(at.plan)
       \/ ~HasAny(at.plan, PutTests)
       \/ ~HasAny(at.plan, {"test_02_02_03"}) /\ \A f \in C!Format : noted.known[f] = <<>>
    /\ UnderWay /\ Head(at.plan) \in PutTests => Whole(at.plan)

Frees(d) == \A s \in Sender : d.active[s] = "none"

ConstraintTearDown ==
    /\ "tear_down_tests" \in DOMAIN verdict
    /\ ~C!Ended => verdict["tear_down_tests"] = "none"
    /\ C!Ended /\ verdict["tear_down_tests"] # "none" => Frees(device)

\* A test that is still to come deletes all constraints, whether or not a request
\* fails, for no more than one does ...
EmptiedLater(plan, network) ==
    \/ CleansUp(Tail(plan))
    \/ network # "failing" /\ HasAny(Tail(plan), {"test_06_03"})

\* ... or the test at work does, and has yet to come to this Sender.
EmptiedNow(plan, step, todo, network, s) ==
    /\ \/ Head(plan) = "test_06_02" /\ HasAny(Tail(plan), {"test_06_03"})
       \/ Head(plan) = "test_06_03" /\ network # "failing"
    /\ step = "begin" \/ (s \in C!Range(todo) /\ (step = "look" => s # Head(todo)))

WillBeFreed(plan, step, todo, network, s) ==
    EmptiedLater(plan, network) \/ EmptiedNow(plan, step, todo, network, s)

Emptiers == {"test_06_02", "test_06_03"}

\* A quick device, whose requests may fail.
Quick ==
    SetUpDone =>
        /\ IsSettled(device)
        /\ \A s \in Sender : device.active[s] # "none" =>
              WillBeFreed(at.plan, at.step, at.todo, device.network, s)
        /\ Head(at.plan) \in Emptiers /\ at.step = "look" => device.active[C!Subject] = "none"

\* A device that takes its time, but can do what it is asked for: its constraints are
\* those of the one step that needs them.
VersionTests == {"test_02_02_04_01", "test_02_02_04_02"}
NoOpTests == {"test_02_02_05_01", "test_02_02_05_02"}
ReferenceTests ==
    {"test_02_02_06_01", "test_02_02_06_02", "test_02_02_07_01", "test_02_02_07_02"}

Target == IF Head(at.plan) \in InputTests THEN C!First ELSE C!Subject
Puts ==
    IF Head(at.plan) \in InputTests THEN {"other"}
    ELSE IF Head(at.plan) \in ReferenceTests THEN {"same", "choice"} ELSE {"same"}

Keeping == {"changed", "wait", "stable", "status", "compare", "delete"}
Keeps(step) == Head(at.plan) \in PutTests /\ step \in Keeping
HoldsAt(step, d) ==
    /\ ~Keeps(step) => Frees(d)
    /\ Keeps(step) => \E c \in Puts : \A s \in Sender : d.active[s] = IF s = Target THEN c ELSE "none"

NoticedAt(step, d, flow) ==
    /\ Head(at.plan) \in VersionTests \cup InputTests /\ step = "changed" =>
          C!Subject \in d.changed
    /\ Head(at.plan) \in NoOpTests \cup InputTests /\ step = "compare" =>
          d.status[Target] = "constrained"
    /\ Head(at.plan) \in ReferenceTests /\ step \in {"put", "compare"} =>
          flow = "native" /\ d.rate[C!Subject] = "native"

SettledAt(step, d) ==
    /\ Head(at.plan) = "test_02_02_01" /\ step # "begin" =>
          \A s \in Sender : \/ d.status[s] = "unconstrained"
                            \/ s \in C!Range(at.todo) /\ (step = "right" => s # C!Subject)
    /\ Head(at.plan) = "test_02_02_03" /\ HasAny(at.plan, PutTests) =>
          \A s \in Sender : d.status[s] = "unconstrained"

AreNative(rate) == \A s \in Sender : rate[s] = "native"

Patient ==
    /\ AreNative(noted.rate) \/ ~HasAny(at.plan, PutTests)
    /\ SetUpDone =>
          /\ HoldsAt(at.step, device)
          /\ NoticedAt(at.step, device, noted.flow)
          /\ SettledAt(at.step, device)

\* What is true of all devices, and of the fit ones.
ConstraintBasics ==
    /\ IsSenderDevice(device) /\ HasFollowed(device)
    /\ ConstraintRecords /\ IsRun /\ InOrder /\ SenderTodo

ConstraintInv ==
    /\ ConstraintBasics
    /\ Fit => /\ ConstraintTearDown
              /\ device.network # "fine" => device.pace = "instant"
              /\ device.pace = "instant" => Quick
              /\ device.pace = "prompt" => Patient

\* When the tear down has ended, no test is to come that could delete constraints.
LEMMA NoConstraintLeft == ConstraintInv => C!NoConstraintsAreLeft
  BY DEF ConstraintInv, ConstraintTearDown, Frees, Fit, C!NoConstraintsAreLeft

\* What a request to a Sender leaves true of the device.
LEMMA Outcomes ==
    ASSUME NEW d, NEW s \in Sender, d.active[s] \in Wishes
    PROVE  /\ C!Outcome(d, s).status \in {"unconstrained", "constrained", "violation"}
           /\ d.active[s] = "none" =>
                 C!Outcome(d, s).status = "unconstrained" /\ C!Outcome(d, s).rate = "native"
           /\ d.active[s] \in {"same", "choice"} /\ d.fault = "none" =>
                 C!Outcome(d, s).status = "constrained" /\ C!Outcome(d, s).rate = "native"
           /\ d.active[s] = "other" /\ d.fault = "none" /\ d.able = "yes" =>
                 C!Outcome(d, s).status = "constrained" /\ C!Outcome(d, s).rate = "another"
  BY DEF C!Outcome, Wishes

\* A Sender is given constraints.
LEMMA Asking ==
    ASSUME NEW d, IsSenderDevice(d), HasFollowed(d), NEW s \in Sender,
           NEW c \in Wishes
    PROVE  LET e == C!Constrain(d, s, c)
           IN /\ IsSenderDevice(e) /\ SameKind(d, e) /\ HasFollowed(e)
              /\ d.pace = "instant" /\ IsSettled(d) => IsSettled(e)
              /\ e.active = [d.active EXCEPT ![s] = c]
              /\ d.changed \subseteq e.changed
              /\ d.fault # "still" => {s} \cup C!Range(InputsOf[s]) \subseteq e.changed
              /\ d.pace # "instant" => e.rate = d.rate
<1> DEFINE e == C!Constrain(d, s, c)
<1>1. /\ IsSenderDevice(e) /\ SameKind(d, e)
      /\ e.active = [d.active EXCEPT ![s] = c] /\ d.changed \subseteq e.changed
      /\ d.fault # "still" => {s} \cup C!Range(InputsOf[s]) \subseteq e.changed
      /\ \/ /\ d.active[s] = c /\ d.status[s] # "awaiting"
            /\ e.status = d.status /\ e.rate = d.rate
         \/ /\ d.pace # "instant"
            /\ e.status = [d.status EXCEPT ![s] = "awaiting"] /\ e.rate = d.rate
         \/ /\ d.pace = "instant"
            /\ e.status = [d.status EXCEPT ![s] = C!Outcome(e, s).status]
            /\ e.rate = [d.rate EXCEPT ![s] = C!Outcome(e, s).rate]
  BY Constraining
<1> HIDE DEF e
<1>2. e.active[s] = c /\ \A x \in Sender \ {s} : e.active[x] = d.active[x]
  BY <1>1 DEF IsSenderDevice
<1>3. \A x \in Sender \ {s} : /\ e.status[x] = d.status[x] /\ e.rate[x] = d.rate[x]
                              /\ C!Outcome(e, x) = C!Outcome(d, x)
  <2>1. \A x \in Sender \ {s} : e.status[x] = d.status[x] /\ e.rate[x] = d.rate[x]
    BY <1>1 DEF IsSenderDevice
  <2>2. ASSUME NEW x \in Sender \ {s} PROVE C!Outcome(e, x) = C!Outcome(d, x)
    BY <1>1, <1>2, <2>2 DEF C!Outcome, SameKind
  <2> QED
    BY <2>1, <2>2
<1>4. \/ /\ d.active[s] = c /\ d.status[s] # "awaiting"
         /\ e.status[s] = d.status[s] /\ e.rate[s] = d.rate[s]
         /\ C!Outcome(e, s) = C!Outcome(d, s)
      \/ d.pace # "instant" /\ e.status[s] = "awaiting"
      \/ /\ d.pace = "instant" /\ e.status[s] = C!Outcome(e, s).status
         /\ e.rate[s] = C!Outcome(e, s).rate
  <2>1. d.active[s] = c => C!Outcome(e, s) = C!Outcome(d, s)
    BY <1>1, <1>2 DEF C!Outcome, SameKind
  <2> QED
    BY <1>1, <2>1 DEF IsSenderDevice
<1>5. C!Outcome(e, s).status # "awaiting"
  BY <1>2, Outcomes
<1>6. HasFollowed(e)
  BY <1>2, <1>3, <1>4 DEF HasFollowed
<1>7. d.pace = "instant" /\ IsSettled(d) => IsSettled(e)
  BY <1>3, <1>4, <1>5 DEF IsSettled
<1> QED
  BY <1>1, <1>6, <1>7 DEF e

\* A Sender is released, unless its constraints stick.
LEMMA Releasing ==
    ASSUME NEW d, IsSenderDevice(d), HasFollowed(d), NEW s \in Sender
    PROVE  LET e == C!Release(d, s)
           IN /\ IsSenderDevice(e) /\ SameKind(d, e) /\ HasFollowed(e)
              /\ d.pace = "instant" /\ IsSettled(d) => IsSettled(e)
              /\ d.fault = "none" => e.active = [d.active EXCEPT ![s] = "none"]
<1>1. CASE d.fault = "sticks"
  BY <1>1 DEF C!Release, SameKind
<1>2. CASE d.fault # "sticks"
  <2> DEFINE e == C!Constrain(d, s, "none")
  <2>1. C!Release(d, s) = e
    BY <1>2 DEF C!Release
  <2>2. /\ IsSenderDevice(e) /\ SameKind(d, e) /\ HasFollowed(e)
        /\ d.pace = "instant" /\ IsSettled(d) => IsSettled(e)
        /\ e.active = [d.active EXCEPT ![s] = "none"]
        /\ d.changed \subseteq e.changed
        /\ d.fault # "still" => {s} \cup C!Range(InputsOf[s]) \subseteq e.changed
        /\ d.pace # "instant" => e.rate = d.rate
    <3>1. "none" \in Wishes
      BY DEF Wishes
    <3> QED
      BY <3>1, Asking, Zenon
  <2> QED
    BY <2>1, <2>2
<1> QED
  BY <1>1, <1>2

\* A version is read: nothing else changes.
LEMMA Looking ==
    ASSUME NEW d, IsSenderDevice(d), HasFollowed(d), NEW x
    PROVE  LET e == C!Seen(d, x)
           IN /\ IsSenderDevice(e) /\ SameKind(d, e) /\ HasFollowed(e)
              /\ IsSettled(d) => IsSettled(e)
              /\ e.active = d.active /\ e.status = d.status /\ e.rate = d.rate
<1> DEFINE e == C!Seen(d, x)
<1>1. /\ IsSenderDevice(e) /\ SameKind(d, e)
      /\ e.active = d.active /\ e.status = d.status /\ e.rate = d.rate
  BY Noticing
<1> HIDE DEF e
<1>2. \A s \in Sender : C!Outcome(e, s) = C!Outcome(d, s)
  BY <1>1 DEF C!Outcome, SameKind
<1> QED
  BY <1>1, <1>2 DEF HasFollowed, IsSettled, e

\* A Sender follows its constraints when it has had its time.
LEMMA Following ==
    ASSUME NEW d, IsSenderDevice(d), HasFollowed(d), NEW s \in Sender
    PROVE  LET e == C!Settled(d, s)
           IN /\ IsSenderDevice(e) /\ SameKind(d, e) /\ HasFollowed(e)
              /\ IsSettled(d) => IsSettled(e)
              /\ e.active = d.active /\ d.changed \subseteq e.changed
              /\ \A x \in Sender \ {s} : e.status[x] = d.status[x] /\ e.rate[x] = d.rate[x]
              /\ e.status[s] = C!Outcome(d, s).status /\ e.rate[s] = C!Outcome(d, s).rate
<1> DEFINE e == C!Settled(d, s)
<1>1. /\ IsSenderDevice(e) /\ SameKind(d, e) /\ e.active = d.active
      /\ e.status = [d.status EXCEPT ![s] = C!Outcome(d, s).status]
      /\ e.rate = [d.rate EXCEPT ![s] = C!Outcome(d, s).rate]
      /\ d.changed \subseteq e.changed
  BY Settling
<1> HIDE DEF e
<1>2. /\ \A x \in Sender \ {s} : e.status[x] = d.status[x] /\ e.rate[x] = d.rate[x]
      /\ e.status[s] = C!Outcome(d, s).status /\ e.rate[s] = C!Outcome(d, s).rate
  BY <1>1 DEF IsSenderDevice
<1>3. \A x \in Sender : C!Outcome(e, x) = C!Outcome(d, x)
  BY <1>1 DEF C!Outcome, SameKind
<1>4. HasFollowed(e)
  BY <1>1, <1>2, <1>3 DEF HasFollowed
<1>5. C!Outcome(d, s).status # "awaiting"
  BY Outcomes DEF HasFollowed
<1> QED
  BY <1>1, <1>2, <1>4, <1>5 DEF IsSettled, e

\* A test that does not delete all constraints itself ends: a later one will.
LEMMA FreedLater ==
    ASSUME NEW T0, NEW plan \in Seq(T0), plan # <<>>, NEW network, NEW later, NEW s,
           later = "failing" => network = "failing",
           \/ EmptiedLater(plan, network)
           \/ /\ Head(plan) = "test_06_02" /\ HasAny(Tail(plan), {"test_06_03"})
              /\ later # "failing"
    PROVE  Tail(plan) # <<>> /\ WillBeFreed(Tail(plan), "begin", <<>>, later, s)
<1> DEFINE rest == Tail(plan)
<1>1. rest \in Seq(T0)
  BY RestOfPlan
<1>2. \/ CleansUp(rest)
      \/ later # "failing" /\ HasAny(rest, {"test_06_03"})
  BY DEF EmptiedLater
<1> HIDE DEF rest
<1>3. rest # <<>>
  BY <1>2, EmptySeq DEF CleansUp, HasAny
<1>4. CASE CleansUp(rest)
  <2>1. /\ HasAny(Tail(rest), {"test_06_03"})
        /\ Head(rest) # "test_06_02" => CleansUp(Tail(rest))
    BY <1>1, <1>3, <1>4, CleaningPlans
  <2> QED
    BY <2>1, <1>3 DEF WillBeFreed, EmptiedLater, EmptiedNow, rest
<1>5. CASE later # "failing" /\ HasAny(rest, {"test_06_03"})
  <2>1. Head(rest) \in {"test_06_03"} \/ HasAny(Tail(rest), {"test_06_03"})
    BY <1>1, <1>3, <1>5, TestsToCome
  <2> QED
    BY <2>1, <1>3, <1>5 DEF WillBeFreed, EmptiedLater, EmptiedNow, rest
<1> QED
  BY <1>2, <1>3, <1>4, <1>5 DEF rest

\* The end of a test keeps the order of those to come.
LEMMA OrderIsKept ==
    ASSUME IsRun, InOrder, ~C!Ended, at'.plan = Tail(at.plan), at'.step = "begin",
           noted'.known = noted.known \/ Head(at.plan) = "test_02_02_03"
    PROVE  InOrder'
<1> DEFINE T0 == DOMAIN verdict
<1>1. at.plan \in Seq(T0) /\ at.plan # <<>>
  BY DEF IsRun, IsPlan, C!Ended
<1> HIDE DEF T0
<1>2. /\ Len(at.plan) \in Nat \ {0} /\ Len(Tail(at.plan)) = Len(at.plan) - 1
      /\ \A k \in 1..Len(Tail(at.plan)) : Tail(at.plan)[k] = at.plan[k + 1]
  BY <1>1, RestOfPlan
<1>3. \A k \in 2..Len(Tail(at.plan)) : Tail(at.plan)[k] # "set_up_tests"
  <2> SUFFICES ASSUME NEW k \in 2..Len(Tail(at.plan)) PROVE Tail(at.plan)[k] # "set_up_tests"
    OBVIOUS
  <2>1. k \in 1..Len(Tail(at.plan)) /\ k + 1 \in 2..Len(at.plan)
    BY <1>2
  <2> QED
    BY <1>2, <2>1 DEF InOrder
<1>4. Whole(at.plan) => Whole(Tail(at.plan))
  BY <1>1, WholePlans
<1>5. ~HasAny(at.plan, PutTests) => ~HasAny(Tail(at.plan), PutTests)
  BY <1>1, TestsToCome
<1>6. ~HasAny(at.plan, {"test_02_02_03"}) =>
        ~HasAny(Tail(at.plan), {"test_02_02_03"}) /\ Head(at.plan) # "test_02_02_03"
  BY <1>1, TestsToCome
<1> QED
  BY <1>3, <1>4, <1>5, <1>6 DEF InOrder, UnderWay

\* The tests that put constraints are followed by those that delete them all.
LEMMA PutsAreFollowed ==
    ASSUME ConstraintInv, UnderWay, Head(at.plan) \in PutTests, NEW network
    PROVE  EmptiedLater(at.plan, network) /\ HasAny(at.plan, PutTests)
<1>1. at.plan \in Seq(DOMAIN verdict) /\ at.plan # <<>> /\ Whole(at.plan)
  BY DEF ConstraintInv, ConstraintBasics, IsRun, IsPlan, UnderWay, C!Ended, InOrder
<1> QED
  BY <1>1, WholePlans, TestsToCome DEF EmptiedLater

\* A change of the device by one request or one settlement, or a request that fails.
Gently ==
    /\ IsSenderDevice(device)' /\ HasFollowed(device)' /\ ConstraintRecords'
    /\ device.pace = "instant" /\ IsSettled(device) => IsSettled(device)'
    /\ device'.fault = device.fault /\ device'.able = device.able /\ device'.pace = device.pace
    /\ device'.network # device.network => device.network = "failing" /\ device'.network = "failed"

\* What a device is able to do does not change.
LEMMA FitForEver == Gently => (Fit' <=> Fit)
  BY DEF Gently, Fit, C!Conforming

\* What the end of a test asks of a step.
LEMMA ConstraintEnds ==
    ASSUME ConstraintInv, ~C!Ended, NEW v, C!Conclude(v), Gently,
           noted'.known = noted.known \/ Head(at.plan) = "test_02_02_03",
           Fit /\ device.pace = "instant" =>
               /\ Head(at.plan) = "set_up_tests" => Frees(device') /\ IsSettled(device')
               /\ \A s \in Sender :
                     \/ device'.active[s] = "none"
                     \/ UnderWay /\ Head(at.plan) \in PutTests
                     \/ EmptiedLater(at.plan, device.network)
                     \/ /\ device'.active[s] = device.active[s]
                        /\ Head(at.plan) \notin Emptiers \/ device'.network # device.network,
           Fit /\ device.pace = "prompt" =>
               /\ Frees(device')
               /\ \/ noted'.rate = noted.rate \/ ~HasAny(at.plan, PutTests)
                  \/ AreNative(noted'.rate)
               /\ Head(at.plan) = "test_02_02_01" =>
                     \A s \in Sender : device'.status[s] = "unconstrained"
    PROVE  ConstraintInv'
<1> DEFINE T0 == DOMAIN verdict  rest == Tail(at.plan)
<1>1. Conclude(v) /\ ~Ended /\ IsRun
  BY DEF C!Conclude, Conclude, C!Position, Position, C!Ended, Ended, ConstraintInv, ConstraintBasics
<1>2. /\ IsRun' /\ at' = Position(Tail(at.plan)) /\ DOMAIN verdict' = DOMAIN verdict
      /\ \A t \in DOMAIN verdict \ {Head(at.plan)} : verdict'[t] = verdict[t]
      /\ Head(at.plan) = "tear_down_tests" <=> Tail(at.plan) = <<>>
  BY <1>1, TestEnds DEF Conclude
<1>3. /\ at'.step = "begin" /\ at'.plan = rest /\ at'.todo = <<>> /\ ~UnderWay'
      /\ C!Ended' <=> Head(at.plan) = "tear_down_tests"
  BY <1>2 DEF Position, UnderWay, C!Ended
<1>4. at.plan \in Seq(T0) /\ at.plan # <<>>
  BY <1>1 DEF IsRun, IsPlan, Ended
<1>5. InOrder'
  BY <1>1, <1>3, OrderIsKept DEF ConstraintInv, ConstraintBasics
<1>6. ConstraintBasics'
  BY <1>2, <1>3, <1>5 DEF ConstraintBasics, SenderTodo, Gently
<1> HIDE DEF rest, T0
<1> SUFFICES ASSUME Fit
             PROVE  /\ ConstraintTearDown'
                    /\ device'.network # "fine" => device'.pace = "instant"
                    /\ device'.pace = "instant" => Quick'
                    /\ device'.pace = "prompt" => Patient'
  BY <1>6, FitForEver DEF ConstraintInv
<1>8. /\ ConstraintTearDown /\ (device.network # "fine" => device.pace = "instant")
      /\ device.pace = "instant" => Quick
      /\ device.pace = "prompt" => Patient
  BY DEF ConstraintInv
<1>9. /\ device'.network # "fine" => device'.pace = "instant"
      /\ device'.pace = device.pace /\ (device'.network = "failing" => device.network = "failing")
  BY <1>8 DEF Gently
<1>10. device.pace \in {"instant", "prompt"}
  BY DEF Fit
<1>12. CASE device.pace = "instant"
  <2>1. IsSettled(device')
    BY <1>8, <1>12 DEF Quick, Gently, SetUpDone
  <2>2. ASSUME NEW s \in Sender, device'.active[s] # "none"
        PROVE  rest # <<>> /\ WillBeFreed(rest, "begin", <<>>, device'.network, s)
    <3>1. SetUpDone
      BY <1>12, <2>2 DEF Frees, SetUpDone
    <3>2. CASE EmptiedLater(at.plan, device.network)
      BY <1>4, <1>9, <3>2, FreedLater DEF rest
    <3>3. CASE UnderWay /\ Head(at.plan) \in PutTests
      BY <3>2, <3>3, PutsAreFollowed
    <3>4. CASE /\ device'.active[s] = device.active[s]
               /\ Head(at.plan) \notin Emptiers \/ device'.network # device.network
      <4>1. WillBeFreed(at.plan, at.step, at.todo, device.network, s)
        BY <1>8, <1>12, <2>2, <3>1, <3>4 DEF Quick
      <4>2. \/ EmptiedLater(at.plan, device.network)
            \/ /\ Head(at.plan) = "test_06_02" /\ HasAny(Tail(at.plan), {"test_06_03"})
               /\ device'.network # "failing"
        BY <3>4, <4>1 DEF WillBeFreed, EmptiedNow, Emptiers, Gently
      <4> QED
        BY <1>4, <1>9, <4>2, FreedLater DEF rest
    <3> QED
      BY <1>12, <2>2, <3>2, <3>3, <3>4
  <2>3. Quick'
    BY <1>3, <2>1, <2>2 DEF Quick
  <2>4. Head(at.plan) = "tear_down_tests" => Frees(device')
    BY <1>2, <2>2 DEF Frees, rest
  <2>5. ConstraintTearDown'
    BY <1>2, <1>3, <1>8, <2>4 DEF ConstraintTearDown
  <2> QED
    BY <1>9, <1>12, <2>3, <2>5
<1>13. CASE device.pace = "prompt"
  <2>1. Frees(device)'
    BY <1>13 DEF Frees
  <2>2. ConstraintTearDown'
    BY <1>2, <1>3, <1>8, <2>1 DEF ConstraintTearDown
  <2>3. HasAny(rest, PutTests) => HasAny(at.plan, PutTests)
    BY <1>4, TestsToCome DEF rest
  <2>4. AreNative(noted.rate)' \/ ~HasAny(at'.plan, PutTests)
    BY <1>3, <1>8, <1>13, <2>3 DEF Patient, AreNative
  <2>5. SetUpDone' => SettledAt(at.step, device)'
    <3> SUFFICES ASSUME rest # <<>>, Head(rest) = "test_02_02_03", HasAny(rest, PutTests)
                 PROVE  \A s \in Sender : device'.status[s] = "unconstrained"
      BY <1>3 DEF SettledAt, SetUpDone, C!Ended
    <3>1. HasAny(rest, {"test_02_02_03"}) /\ HasAny(at.plan, {"test_02_02_03"})
      <4>1. rest \in Seq(T0)
        BY <1>4, RestOfPlan DEF rest
      <4>2. HasAny(rest, {"test_02_02_03"})
        BY <4>1, TestsToCome
      <4> QED
        BY <1>4, <4>2, TestsToCome DEF rest
    <3>2. Whole(at.plan)
      BY <2>3, <3>1 DEF ConstraintInv, ConstraintBasics, InOrder
    <3>3. Head(at.plan) = "test_02_02_01"
      BY <1>4, <3>2, WholePlans DEF rest
    <3> QED
      BY <1>13, <3>3
  <2>6. NoticedAt(at.step, device, noted.flow)' /\ HoldsAt(at.step, device)'
    BY <1>3, <2>1 DEF HoldsAt, NoticedAt, Keeps, Keeping
  <2>7. Patient'
    BY <2>4, <2>5, <2>6 DEF Patient
  <2> QED
    BY <1>9, <1>13, <2>2, <2>7
<1> QED
  BY <1>10, <1>12, <1>13

\* What a step within a test asks of it.
LEMMA ConstraintMoves ==
    ASSUME ConstraintInv, UnderWay, NEW step, step # "begin", NEW tries \in Nat,
           C!Step(step, tries), Gently, device'.network = device.network,
           noted'.known = noted.known, Head(at.plan) # "set_up_tests",
           Fit /\ device.pace = "instant" =>
               /\ Head(at.plan) \notin PutTests =>
                     \A s \in Sender :
                        \/ device'.active[s] = "none"
                        \/ /\ device'.active[s] = device.active[s]
                           /\ Head(at.plan) \in Emptiers => at.step = "visit" /\ s # C!Subject
               /\ Head(at.plan) \in Emptiers /\ step = "look" => device'.active[C!Subject] = "none",
           Fit /\ device.pace = "prompt" =>
               /\ noted'.rate = noted.rate
               /\ HoldsAt(step, device') /\ NoticedAt(step, device', noted'.flow)
               /\ SettledAt(step, device')
    PROVE  ConstraintInv'
<1>1. /\ IsRun' /\ at'.step = step /\ at'.plan = at.plan /\ at'.todo = at.todo
      /\ at'.tries = tries /\ verdict' = verdict
  BY TestSteps DEF C!Step, Step, ConstraintInv, ConstraintBasics
<1>2. /\ C!Subject' = C!Subject /\ C!First' = C!First /\ UnderWay' /\ ~C!Ended' /\ ~C!Ended
  BY <1>1 DEF C!Subject, C!First, C!Known, UnderWay, C!Ended
<1>3. ConstraintBasics'
  <2>1. InOrder'
    BY <1>1, <1>2 DEF ConstraintInv, ConstraintBasics, InOrder
  <2>2. SenderTodo'
    BY <1>1, <1>2 DEF ConstraintInv, ConstraintBasics, SenderTodo
  <2> QED
    BY <1>1, <2>1, <2>2 DEF ConstraintBasics, Gently
<1> SUFFICES ASSUME Fit
             PROVE  /\ ConstraintTearDown'
                    /\ device'.network # "fine" => device'.pace = "instant"
                    /\ device'.pace = "instant" => Quick'
                    /\ device'.pace = "prompt" => Patient'
  BY <1>3, FitForEver DEF ConstraintInv
<1>4. /\ ConstraintTearDown /\ (device.network # "fine" => device.pace = "instant")
      /\ device.pace = "instant" => Quick
      /\ device.pace = "prompt" => Patient
  BY DEF ConstraintInv
<1>5. device'.pace = device.pace
  BY DEF Gently
<1>6. ConstraintTearDown'
  BY <1>1, <1>2, <1>4 DEF ConstraintTearDown
<1>7. SetUpDone /\ SetUpDone'
  BY <1>1, <1>2 DEF SetUpDone
<1>8. ASSUME device.pace = "instant" PROVE Quick'
  <2>1. IsSettled(device)'
    BY <1>4, <1>7, <1>8 DEF Quick, Gently
  <2>2. ASSUME NEW s \in Sender, device'.active[s] # "none"
        PROVE  WillBeFreed(at.plan, step, at.todo, device.network, s)
    <3>1. CASE Head(at.plan) \in PutTests
      BY <3>1, PutsAreFollowed DEF WillBeFreed
    <3>2. CASE Head(at.plan) \notin PutTests
      <4>1. /\ WillBeFreed(at.plan, at.step, at.todo, device.network, s)
            /\ Head(at.plan) \in Emptiers => at.step = "visit" /\ s # Head(at.todo)
        BY <1>4, <1>7, <1>8, <2>2, <3>2 DEF Quick, C!Subject
      <4> QED
        BY <4>1 DEF WillBeFreed, EmptiedNow, Emptiers
    <3> QED
      BY <3>1, <3>2
  <2> QED
    BY <1>1, <1>2, <1>8, <2>1, <2>2 DEF Quick
<1>9. ASSUME device.pace = "prompt" PROVE Patient'
  <2>1. Target' = Target /\ Puts' = Puts /\ Keeps(at.step)' = Keeps(step)
    BY <1>1, <1>2 DEF Target, Puts, Keeps
  <2>2. HoldsAt(at.step, device)'
    BY <1>1, <1>9, <2>1 DEF HoldsAt, Frees
  <2>3. NoticedAt(at.step, device, noted.flow)'
    BY <1>1, <1>2, <1>9, <2>1 DEF NoticedAt
  <2>4. SettledAt(at.step, device)'
    BY <1>1, <1>2, <1>9 DEF SettledAt
  <2> QED
    BY <1>1, <1>4, <1>9, <2>2, <2>3, <2>4 DEF Patient, AreNative
<1> QED
  BY <1>4, <1>5, <1>6, <1>8, <1>9

\* What the turn to another subject asks of a step, be it the first or a later one.
LEMMA ConstraintTurns ==
    ASSUME ConstraintInv, ~C!Ended, NEW todo, todo # <<>>,
           at' = [at EXCEPT !.step = "visit", !.todo = todo, !.tries = 0], verdict' = verdict,
           Gently, device'.network = device.network,
           noted'.known = noted.known \/ Head(at.plan) = "test_02_02_03",
           Head(at.plan) # "set_up_tests",
           Head(at.plan) \notin InputTests => todo \in Seq(Sender),
           Head(at.plan) \in InputTests =>
               C!First \in Sender /\ todo \in Seq(C!Range(InputsOf[C!First])),
           Head(at.plan) \in PutTests => Whole(at.plan),
           Fit /\ device.pace = "instant" =>
               \A s \in Sender :
                  \/ device'.active[s] = "none"
                  \/ UnderWay /\ Head(at.plan) \in PutTests
                  \/ /\ device'.active[s] = device.active[s]
                     /\ EmptiedNow(at.plan, at.step, at.todo, device.network, s) => s \in C!Range(todo),
           Fit /\ device.pace = "prompt" =>
               /\ Frees(device')
               /\ \/ noted'.rate = noted.rate \/ ~HasAny(at.plan, PutTests)
                  \/ AreNative(noted'.rate)
               /\ Head(at.plan) = "test_02_02_01" =>
                     \A s \in Sender : device'.status[s] = "unconstrained" \/ s \in C!Range(todo)
               /\ Head(at.plan) = "test_02_02_03" /\ HasAny(at.plan, PutTests) =>
                     \A s \in Sender : device'.status[s] = "unconstrained"
    PROVE  ConstraintInv'
<1> DEFINE T0 == DOMAIN verdict
<1>1. /\ at = [plan |-> at.plan, step |-> at.step, todo |-> at.todo, tries |-> at.tries]
      /\ at.plan \in Seq(T0) /\ at.plan # <<>> /\ IsRun
  BY DEF ConstraintInv, ConstraintBasics, IsRun, IsPlan, C!Ended
<1>2. at' = [plan |-> at.plan, step |-> "visit", todo |-> todo, tries |-> 0]
  BY <1>1
<1>3. /\ at'.plan = at.plan /\ at'.step = "visit" /\ at'.todo = todo /\ at'.tries = 0
      /\ at' = [plan |-> at'.plan, step |-> at'.step, todo |-> at'.todo, tries |-> at'.tries]
  BY <1>2
<1>4. IsRun'
  BY <1>1, <1>3, TestGoesOn
<1>5. UnderWay' /\ ~C!Ended'
  BY <1>3 DEF UnderWay, C!Ended
<1>6. Head(at.plan) \in InputTests => C!First' = C!First
  BY <1>3 DEF C!First, C!Known, InputTests
<1>7. SenderTodo'
  BY <1>3, <1>6 DEF SenderTodo
<1>8. InOrder'
  <2>1. /\ \A k \in 2..Len(at.plan) : at.plan[k] # "set_up_tests"
        /\ \/ Whole(at.plan)
           \/ ~HasAny(at.plan, PutTests)
           \/ ~HasAny(at.plan, {"test_02_02_03"}) /\ \A f \in C!Format : noted.known[f] = <<>>
    BY DEF ConstraintInv, ConstraintBasics, InOrder
  <2>2. Head(at.plan) = "test_02_02_03" => HasAny(at.plan, {"test_02_02_03"})
    BY <1>1, TestsToCome
  <2> QED
    BY <1>3, <2>1, <2>2 DEF InOrder
<1>9. ConstraintBasics'
  BY <1>4, <1>7, <1>8 DEF ConstraintBasics, Gently
<1> SUFFICES ASSUME Fit
             PROVE  /\ ConstraintTearDown'
                    /\ device'.network # "fine" => device'.pace = "instant"
                    /\ device'.pace = "instant" => Quick'
                    /\ device'.pace = "prompt" => Patient'
  BY <1>9, FitForEver DEF ConstraintInv
<1>10. /\ ConstraintTearDown /\ (device.network # "fine" => device.pace = "instant")
       /\ device.pace = "instant" => Quick
       /\ device.pace = "prompt" => Patient
  BY DEF ConstraintInv
<1>11. device'.pace = device.pace
  BY DEF Gently
<1>12. ConstraintTearDown'
  BY <1>5, <1>10 DEF ConstraintTearDown
<1>13. SetUpDone /\ SetUpDone'
  BY <1>3, <1>5 DEF SetUpDone
<1>14. ASSUME device.pace = "instant" PROVE Quick'
  <2>1. IsSettled(device)'
    BY <1>10, <1>13, <1>14 DEF Quick, Gently
  <2>2. ASSUME NEW s \in Sender, device'.active[s] # "none"
        PROVE  WillBeFreed(at.plan, "visit", todo, device.network, s)
    <3>1. CASE UnderWay /\ Head(at.plan) \in PutTests
      BY <3>1, PutsAreFollowed DEF WillBeFreed
    <3>2. CASE /\ device'.active[s] = device.active[s]
               /\ EmptiedNow(at.plan, at.step, at.todo, device.network, s) => s \in C!Range(todo)
      <4>1. WillBeFreed(at.plan, at.step, at.todo, device.network, s)
        BY <1>10, <1>13, <1>14, <2>2, <3>2 DEF Quick
      <4> QED
        BY <3>2, <4>1 DEF WillBeFreed, EmptiedNow
    <3> QED
      BY <1>14, <2>2, <3>1, <3>2
  <2> QED
    BY <1>3, <2>1, <2>2 DEF Quick
<1>15. ASSUME device.pace = "prompt" PROVE Patient'
  <2>1. HoldsAt(at.step, device)' /\ NoticedAt(at.step, device, noted.flow)'
    BY <1>3, <1>15 DEF HoldsAt, Frees, NoticedAt, Keeps, Keeping
  <2>2. SettledAt(at.step, device)'
    BY <1>3, <1>15 DEF SettledAt
  <2> QED
    BY <1>3, <1>10, <1>15, <2>1, <2>2 DEF Patient, AreNative
<1> QED
  BY <1>10, <1>11, <1>12, <1>14, <1>15

\* A loop over Senders begins; the device and the records stay as they are.
LEMMA StayingGently ==
    ASSUME ConstraintInv, device' = device, noted' = noted
    PROVE  Gently /\ device'.network = device.network /\ noted'.known = noted.known
  BY DEF ConstraintInv, ConstraintBasics, ConstraintRecords, Gently, HasFollowed, IsSenderDevice,
         IsSettled, C!Outcome

\* A test begins its loop: what it visits is what its kind of test visits.
LEMMA ConstraintBegins ==
    ASSUME ConstraintInv, ~C!Ended, at.step = "begin", Head(at.plan) # "set_up_tests",
           NEW subjects, C!Visit(subjects), device' = device, noted' = noted,
           Head(at.plan) \notin InputTests => subjects \in Seq(Sender),
           Head(at.plan) \in InputTests /\ subjects # <<>> =>
               C!First \in Sender /\ subjects \in Seq(C!Range(InputsOf[C!First])),
           Head(at.plan) \in PutTests /\ subjects # <<>> =>
               \E f \in C!Format : noted.known[f] # <<>>,
           Head(at.plan) \in Emptiers \cup {"test_02_02_01"} => C!Range(subjects) = Sender
    PROVE  ConstraintInv'
<1>1. Gently /\ device'.network = device.network /\ noted'.known = noted.known
  BY StayingGently
<1>2. Fit /\ device.pace = "prompt" =>
        /\ Frees(device) /\ SettledAt(at.step, device)
        /\ Head(at.plan) = "test_02_02_03" /\ HasAny(at.plan, PutTests) =>
              \A s \in Sender : device.status[s] = "unconstrained"
  BY DEF ConstraintInv, Patient, SetUpDone, HoldsAt, Keeps, Keeping, SettledAt
<1>3. CASE subjects = <<>>
  <2>1. C!Conclude("UNCLEAR")
    BY <1>3 DEF C!Visit
  <2>2. Head(at.plan) \in Emptiers \cup {"test_02_02_01"} => Sender = {}
    BY <1>3 DEF C!Range
  <2> QED
    BY <1>1, <1>2, <2>1, <2>2, ConstraintEnds
<1>4. CASE subjects # <<>>
  <2>1. /\ at' = [at EXCEPT !.step = "visit", !.todo = subjects, !.tries = 0]
        /\ verdict' = verdict
    BY <1>4 DEF C!Visit
  <2>2. Head(at.plan) \in PutTests => Whole(at.plan)
    <3> SUFFICES ASSUME Head(at.plan) \in PutTests PROVE Whole(at.plan)
      OBVIOUS
    <3>1. HasAny(at.plan, PutTests)
      BY TestsToCome DEF ConstraintInv, ConstraintBasics, IsRun, IsPlan, C!Ended
    <3> QED
      BY <1>4, <3>1 DEF ConstraintInv, ConstraintBasics, InOrder
  <2>3. ASSUME NEW s \in Sender, EmptiedNow(at.plan, at.step, at.todo, device.network, s)
        PROVE  s \in C!Range(subjects)
    BY <2>3 DEF EmptiedNow, Emptiers
  <2> QED
    BY <1>1, <1>2, <1>4, <2>1, <2>2, <2>3, ConstraintTurns
<1> QED
  BY <1>3, <1>4

\* A test is done with a Sender.
LEMMA ConstraintLeaves ==
    ASSUME ConstraintInv, UnderWay, C!Leave, Gently, device'.network = device.network,
           noted'.known = noted.known \/ Head(at.plan) = "test_02_02_03",
           Head(at.plan) # "set_up_tests",
           Fit /\ device.pace = "instant" =>
               \A s \in Sender :
                  \/ device'.active[s] = "none"
                  \/ Head(at.plan) \in PutTests
                  \/ /\ device'.active[s] = device.active[s]
                     /\ Head(at.plan) \in Emptiers => at.step = "look",
           Fit /\ device.pace = "prompt" =>
               /\ Frees(device')
               /\ \/ noted'.rate = noted.rate \/ ~HasAny(at.plan, PutTests)
                  \/ AreNative(noted'.rate)
               /\ Head(at.plan) = "test_02_02_01" =>
                     \A s \in Sender : \/ device'.status[s] = "unconstrained"
                                       \/ s \in C!Range(at.todo) /\ s # C!Subject
               /\ Head(at.plan) = "test_02_02_03" /\ HasAny(at.plan, PutTests) =>
                     \A s \in Sender : device'.status[s] = "unconstrained"
    PROVE  ConstraintInv'
<1>1. at.todo # <<>> /\ ~C!Ended /\ SenderTodo
  BY DEF ConstraintInv, ConstraintBasics, SenderTodo, UnderWay
<1>2. PICK T0 : at.todo \in Seq(T0)
  BY <1>1 DEF SenderTodo
<1>3. /\ Tail(at.todo) \in Seq(T0) /\ Len(at.todo) \in Nat \ {0}
      /\ Len(Tail(at.todo)) = Len(at.todo) - 1 /\ Head(at.todo) = at.todo[1]
      /\ \A k \in 1..Len(Tail(at.todo)) : Tail(at.todo)[k] = at.todo[k + 1]
  BY <1>1, <1>2, RestOfPlan
<1>4. ASSUME NEW s \in C!Range(at.todo), s # C!Subject
      PROVE  Len(at.todo) # 1 /\ s \in C!Range(Tail(at.todo))
  <2>1. PICK k \in 1..Len(at.todo) : at.todo[k] = s
    BY <1>2, <1>4 DEF C!Range
  <2>2. k # 1 /\ Len(at.todo) # 1
    BY <1>3, <1>4, <2>1 DEF C!Subject
  <2>3. k - 1 \in 1..Len(Tail(at.todo)) /\ Tail(at.todo)[k - 1] = s
    BY <1>3, <2>1, <2>2
  <2>4. k - 1 \in DOMAIN Tail(at.todo)
    BY <1>3, <2>3
  <2> QED
    BY <2>2, <2>3, <2>4 DEF C!Range
<1>5. ASSUME Fit, device.pace = "instant", NEW s \in Sender, device'.active[s] # "none",
             Head(at.plan) \notin PutTests
      PROVE  /\ device'.active[s] = device.active[s]
             /\ Head(at.plan) \in Emptiers => at.step = "look"
             /\ WillBeFreed(at.plan, at.step, at.todo, device.network, s)
  BY <1>1, <1>5 DEF ConstraintInv, Quick, SetUpDone
<1>6. CASE Len(at.todo) = 1
  <2>1. C!Conclude("PASS")
    BY <1>6 DEF C!Leave, C!LeaveAs
  <2>2. ASSUME Fit, device.pace = "instant", NEW s \in Sender, device'.active[s] # "none",
               Head(at.plan) \in Emptiers
        PROVE  EmptiedLater(at.plan, device.network)
    <3>1. /\ at.step = "look" /\ WillBeFreed(at.plan, at.step, at.todo, device.network, s)
      BY <1>5, <2>2 DEF Emptiers, PutTests
    <3> QED
      BY <1>4, <1>6, <3>1 DEF WillBeFreed, EmptiedNow, C!Subject
  <2> QED
    BY <1>1, <1>4, <1>5, <1>6, <2>1, <2>2, ConstraintEnds
<1>7. CASE Len(at.todo) # 1
  <2>1. /\ at' = [at EXCEPT !.step = "visit", !.todo = Tail(@), !.tries = 0]
        /\ verdict' = verdict
    BY <1>7 DEF C!Leave, C!LeaveAs
  <2> DEFINE todo == Tail(at.todo)
  <2>2. /\ at' = [at EXCEPT !.step = "visit", !.todo = todo, !.tries = 0]
    BY <2>1
  <2>3. /\ todo # <<>>
        /\ Head(at.plan) \notin InputTests => todo \in Seq(Sender)
        /\ Head(at.plan) \in InputTests =>
              C!First \in Sender /\ todo \in Seq(C!Range(InputsOf[C!First]))
    <3>1. todo # <<>>
      <4>1. Len(todo) # 0
        BY <1>3, <1>7
      <4> HIDE DEF todo
      <4> QED
        BY <4>1, EmptySeq
    <3> QED
      BY <1>1, <3>1, RestOfPlan DEF SenderTodo
  <2>4. Head(at.plan) \in PutTests => Whole(at.plan)
    BY DEF ConstraintInv, ConstraintBasics, InOrder
  <2>5. ASSUME Fit, device.pace = "instant", NEW s \in Sender,
               EmptiedNow(at.plan, at.step, at.todo, device.network, s), at.step = "look"
        PROVE  s \in C!Range(todo)
    BY <1>4, <2>5 DEF EmptiedNow, C!Subject
  <2> HIDE DEF todo
  <2>6. ASSUME Fit, device.pace = "instant", NEW s \in Sender
        PROVE  \/ device'.active[s] = "none"
               \/ UnderWay /\ Head(at.plan) \in PutTests
               \/ /\ device'.active[s] = device.active[s]
                  /\ EmptiedNow(at.plan, at.step, at.todo, device.network, s) => s \in C!Range(todo)
    <3>1. EmptiedNow(at.plan, at.step, at.todo, device.network, s) => Head(at.plan) \in Emptiers
      BY DEF EmptiedNow, Emptiers
    <3> QED
      BY <2>5, <2>6, <3>1
  <2>7. Fit /\ device.pace = "prompt" =>
          /\ Head(at.plan) = "test_02_02_01" =>
                \A s \in Sender : device'.status[s] = "unconstrained" \/ s \in C!Range(todo)
    BY <1>4 DEF todo
  <2> QED
    BY <1>1, <2>1, <2>2, <2>3, <2>4, <2>6, <2>7, ConstraintTurns
<1> QED
  BY <1>6, <1>7

-----------------------------------------------------------------------------
(* The tests, one by one.                                                   *)

\* A set of Senders as a list.
LEMMA SenderLists ==
    ASSUME NEW S \in SUBSET Sender
    PROVE  C!SomeOrder(S) \in Seq(Sender) /\ C!Range(C!SomeOrder(S)) = S
<1>1. IsFiniteSet(S)
  <2>1. IsFiniteSet(Sender)
    BY MediaAssumption DEF C!ConstraintTestsAssumption, C!IsFiniteSet, IsFiniteSet
  <2> QED
    BY <2>1, FS_Subset
<1>2. C!SomeOrder(S) = SomeOrder(S)
  <2>1. C!Cardinality(S) = Cardinality(S)
    BY DEF C!Cardinality, Cardinality
  <2> QED
    BY <2>1 DEF C!SomeOrder, SomeOrder, C!IsInjective, IsInjective
<1>3. SomeOrder(S) \in Seq(S) /\ Range(SomeOrder(S)) = S
  BY <1>1, ListsOfSets
<1>4. C!Range(SomeOrder(S)) = Range(SomeOrder(S))
  BY DEF C!Range, Range
<1>5. ASSUME NEW list \in Seq(S) PROVE list \in Seq(Sender)
  BY <1>5
<1> QED
  BY <1>2, <1>3, <1>4, <1>5

\* The tests of each kind, by their names.
LEMMA TestNames ==
    /\ C!Of(C!VersionTest) = VersionTests /\ C!Of(C!NoOpTest) = NoOpTests
    /\ C!Of(C!InputTest) = InputTests
    /\ C!ReferenceTests = ReferenceTests
    /\ C!Of(C!SupportedTest) \cup C!Of(C!PreferenceTest) = ReferenceTests
    /\ \A f \in C!Format : /\ C!VersionTest[f] \in VersionTests /\ C!NoOpTest[f] \in NoOpTests
                           /\ C!InputTest[f] \in InputTests
                           /\ C!SupportedTest[f] \in ReferenceTests
                           /\ C!PreferenceTest[f] \in ReferenceTests
    /\ DOMAIN C!VersionTest = C!Format /\ DOMAIN C!NoOpTest = C!Format
    /\ DOMAIN C!InputTest = C!Format
    /\ DOMAIN C!SupportedTest = C!Format /\ DOMAIN C!PreferenceTest = C!Format
    /\ VersionTests \cup NoOpTests \cup InputTests \cup ReferenceTests = PutTests
  BY DEF C!Of, C!VersionTest, C!NoOpTest, C!InputTest, C!SupportedTest, C!PreferenceTest,
         C!ReferenceTests, VersionTests, NoOpTests, InputTests, ReferenceTests, PutTests, C!Format

\* A test under way is about a Sender, or an Input of the first one.
LEMMA Subjects ==
    ASSUME ConstraintInv, UnderWay
    PROVE  /\ Head(at.plan) \notin InputTests => C!Subject \in Sender /\ C!Subject \in C!Range(at.todo)
           /\ Head(at.plan) \in InputTests =>
                 C!First \in Sender /\ C!Subject \in C!Range(InputsOf[C!First])
<1>1. SenderTodo /\ at.todo # <<>>
  BY DEF ConstraintInv, ConstraintBasics, SenderTodo
<1>2. ASSUME NEW T0, at.todo \in Seq(T0) PROVE Head(at.todo) \in T0 /\ Head(at.todo) \in C!Range(at.todo)
  <2>1. Head(at.todo) = at.todo[1] /\ Len(at.todo) \in Nat \ {0}
    BY <1>1, <1>2, RestOfPlan
  <2>2. 1 \in DOMAIN at.todo
    BY <1>2, <2>1
  <2> QED
    BY <1>2, <2>1, <2>2 DEF C!Range
<1> QED
  BY <1>1, <1>2 DEF SenderTodo, C!Subject

\* A PUT to a Sender, of a device whose versions may have been read before.
LEMMA AskingGently ==
    ASSUME ConstraintInv, NEW d, IsSenderDevice(d), SameKind(device, d), HasFollowed(d),
           IsSettled(device) => IsSettled(d), d.active = device.active, d.rate = device.rate,
           NEW s \in Sender, NEW c \in Wishes,
           device' = C!Constrain(d, s, c), noted' = noted
    PROVE  /\ Gently /\ device'.network = device.network /\ noted'.known = noted.known
           /\ \A x \in Sender : device'.active[x] = IF x = s THEN c ELSE device.active[x]
           /\ device.fault = "none" => {s} \cup C!Range(InputsOf[s]) \subseteq device'.changed
           /\ device.pace # "instant" => device'.rate = device.rate
<1> DEFINE e == C!Constrain(d, s, c)
<1>1. /\ IsSenderDevice(e) /\ SameKind(d, e) /\ HasFollowed(e)
      /\ d.pace = "instant" /\ IsSettled(d) => IsSettled(e)
      /\ e.active = [d.active EXCEPT ![s] = c]
      /\ d.changed \subseteq e.changed
      /\ d.fault # "still" => {s} \cup C!Range(InputsOf[s]) \subseteq e.changed
      /\ d.pace # "instant" => e.rate = d.rate
  BY Asking, Zenon
<1>2. device' = e
  OBVIOUS
<1> HIDE DEF e
<1>3. ConstraintRecords'
  BY DEF ConstraintInv, ConstraintBasics, ConstraintRecords
<1>4. IsSenderDevice(device)' /\ HasFollowed(device)' /\ (IsSettled(e) => IsSettled(device)')
  <2>1. IsSenderDevice(device)'
    BY <1>1, <1>2 DEF IsSenderDevice
  <2>2. HasFollowed(device)'
    <3>1. ASSUME NEW x \in Sender PROVE C!Outcome(device, x)' = C!Outcome(e, x)
      BY <1>2 DEF C!Outcome
    <3> QED
      BY <1>1, <1>2, <3>1 DEF HasFollowed
  <2> QED
    BY <1>2, <2>1, <2>2 DEF IsSettled
<1>5. Gently
  BY <1>1, <1>2, <1>3, <1>4 DEF Gently, SameKind
<1>6. \A x \in Sender : device'.active[x] = IF x = s THEN c ELSE device.active[x]
  BY <1>1, <1>2 DEF IsSenderDevice
<1> QED
  BY <1>1, <1>2, <1>5, <1>6 DEF SameKind

\* A DELETE to a Sender.
LEMMA ReleasingGently ==
    ASSUME ConstraintInv, NEW s \in Sender, device' = C!Release(device, s), noted' = noted
    PROVE  /\ Gently /\ device'.network = device.network /\ noted'.known = noted.known
           /\ Fit => \A x \in Sender : device'.active[x] = IF x = s THEN "none" ELSE device.active[x]
<1> DEFINE e == C!Release(device, s)
<1>0. IsSenderDevice(device) /\ HasFollowed(device) /\ ConstraintRecords
  BY DEF ConstraintInv, ConstraintBasics
<1>1. /\ IsSenderDevice(e) /\ SameKind(device, e) /\ HasFollowed(e)
      /\ device.pace = "instant" /\ IsSettled(device) => IsSettled(e)
      /\ device.fault = "none" => e.active = [device.active EXCEPT ![s] = "none"]
  BY <1>0, Releasing, Zenon
<1>2. device' = e
  OBVIOUS
<1> HIDE DEF e
<1>3. ConstraintRecords'
  BY <1>0 DEF ConstraintRecords
<1>4. IsSenderDevice(device)' /\ HasFollowed(device)' /\ (IsSettled(e) => IsSettled(device)')
  BY <1>1, <1>2 DEF IsSenderDevice, HasFollowed, IsSettled, C!Outcome
<1>5. Gently
  BY <1>1, <1>2, <1>3, <1>4 DEF Gently, SameKind
<1>6. Fit => \A x \in Sender : device'.active[x] = IF x = s THEN "none" ELSE device.active[x]
  BY <1>0, <1>1, <1>2 DEF IsSenderDevice, Fit, C!Conforming
<1> QED
  BY <1>1, <1>2, <1>5, <1>6 DEF SameKind

InTime == C!LastAttempt /\ device.pace # "slow" => ~C!Awaiting

\* The four ends of a wait for a status.
LEMMA StatusAwaited ==
    ASSUME ConstraintInv, UnderWay, InTime, NEW s \in Sender, NEW status, status # "awaiting", NEW next,
           C!AwaitStatus(s, status, next)
    PROVE  \/ device.status[s] = "awaiting" /\ C!Step(at.step, at.tries + 1)
           \/ device.pace = "slow" /\ C!Conclude("FAIL")
           \/ device.status[s] \notin {"awaiting", status} /\ C!Conclude("FAIL")
           \/ device.status[s] = status /\ C!Step(next, 0)
<1>1. at.tries \in Nat /\ Attempts \in Nat
  BY MediaAssumption DEF ConstraintInv, ConstraintBasics, SenderTodo
<1>2. CASE device.status[s] = "awaiting"
  <2>1. C!Poll(FALSE, next, Attempts + 1)
    BY <1>2 DEF C!AwaitStatus
  <2>2. CASE at.tries + 1 >= Attempts + 1
    <3>1. C!Conclude("FAIL")
      BY <2>1, <2>2 DEF C!Poll, C!Check
    <3>2. C!LastAttempt /\ C!Awaiting
      BY <1>1, <1>2, <2>2 DEF C!LastAttempt, C!Awaiting
    <3> QED
      BY <3>1, <3>2 DEF InTime
  <2>3. CASE ~(at.tries + 1 >= Attempts + 1)
    BY <1>2, <2>1, <2>3 DEF C!Poll
  <2> QED
    BY <2>2, <2>3
<1>3. CASE device.status[s] # "awaiting"
  BY <1>3 DEF C!AwaitStatus, C!Check, C!Goto
<1> QED
  BY <1>2, <1>3

\* The loops over Senders of the tests that put no constraints.
LEMMA ListBegins ==
    ASSUME ConstraintInv, NEW tests, NEW subjects \in Seq(Sender), C!Begin(tests, subjects),
           tests \cap (PutTests \cup {"set_up_tests"}) = {},
           tests \cap (Emptiers \cup {"test_02_02_01"}) # {} => C!Range(subjects) = Sender
    PROVE  ConstraintInv'
<1>1. /\ ~C!Ended /\ Head(at.plan) \in tests /\ at.step = "begin" /\ C!Visit(subjects)
      /\ device' = device /\ noted' = noted
  BY DEF C!Begin, C!On
<1>2. Head(at.plan) \notin PutTests \cup InputTests \cup {"set_up_tests"}
  BY <1>1 DEF PutTests, InputTests
<1> QED
  BY <1>1, <1>2, ConstraintBegins

LEMMA SendersBegin ==
    ASSUME ConstraintInv, NEW tests, C!Begin(tests, C!Senders),
           tests \cap (PutTests \cup {"set_up_tests"}) = {}
    PROVE  ConstraintInv'
<1>1. C!Senders \in Seq(Sender) /\ C!Range(C!Senders) = Sender
  BY SenderLists DEF C!Senders
<1> QED
  BY <1>1, ListBegins

\* The loops over the Senders of a format, of the tests that put constraints.
LEMMA FormatBegins ==
    ASSUME ConstraintInv, NEW tests, C!BeginFormat(tests), DOMAIN tests = C!Format,
           \A f \in C!Format : tests[f] \in PutTests \ InputTests
    PROVE  ConstraintInv'
<1>1. PICK f \in C!Format : C!Begin({tests[f]}, C!Known(f))
  BY DEF C!BeginFormat
<1>2. /\ ~C!Ended /\ Head(at.plan) \in PutTests \ InputTests /\ at.step = "begin"
      /\ C!Visit(noted.known[f]) /\ device' = device /\ noted' = noted
  BY <1>1 DEF C!Begin, C!On, C!Known
<1>3. noted.known[f] \in Seq(Sender)
  BY DEF ConstraintInv, ConstraintBasics, ConstraintRecords
<1>4. Head(at.plan) \notin Emptiers \cup {"set_up_tests", "test_02_02_01"}
  BY <1>2 DEF PutTests, Emptiers
<1> QED
  BY <1>2, <1>3, <1>4, ConstraintBegins

\* What is known of a device that takes its time while a test is at work.
LEMMA InPatience ==
    ASSUME ConstraintInv, ~C!Ended, Head(at.plan) # "set_up_tests", Fit, device.pace = "prompt"
    PROVE  /\ HoldsAt(at.step, device) /\ NoticedAt(at.step, device, noted.flow)
           /\ SettledAt(at.step, device)
           /\ AreNative(noted.rate) \/ ~HasAny(at.plan, PutTests)
           /\ HasFollowed(device) /\ device.fault = "none" /\ device.able = "yes"
           /\ Head(at.plan) \notin PutTests => Frees(device)
  BY DEF ConstraintInv, ConstraintBasics, Patient, SetUpDone, HoldsAt, Keeps, Fit, C!Conforming

LEMMA Resetting == ConstraintInv /\ C!ResetAll => ConstraintInv'
<1> SUFFICES ASSUME ConstraintInv, C!ResetAll PROVE ConstraintInv'
  OBVIOUS
<1>1. CASE C!Begin({"test_02_00"}, C!Senders)
  BY <1>1, SendersBegin DEF PutTests
<1>2. CASE C!On({"test_02_00"}, "visit") /\ device' = C!Release(device, C!Subject) /\ C!Leave /\ noted' = noted
  <2>1. /\ ~C!Ended /\ UnderWay /\ Head(at.plan) = "test_02_00"
    BY <1>2 DEF C!On, UnderWay
  <2>2. Head(at.plan) \notin PutTests \cup InputTests \cup Emptiers
    BY <2>1 DEF PutTests, InputTests, Emptiers
  <2>3. C!Subject \in Sender
    BY <2>1, <2>2, Subjects
  <2>4. /\ Gently /\ device'.network = device.network /\ noted'.known = noted.known
        /\ Fit => \A x \in Sender : device'.active[x] = IF x = C!Subject THEN "none" ELSE device.active[x]
    BY <1>2, <2>3, ReleasingGently
  <2>5. Fit /\ device.pace = "prompt" => Frees(device')
    BY <2>1, <2>2, <2>4, InPatience DEF Frees
  <2> QED
    BY <1>2, <2>1, <2>2, <2>4, <2>5, ConstraintLeaves
<1> QED
  BY <1>1, <1>2 DEF C!ResetAll

LEMMA LookingForUnconstrained == ConstraintInv /\ InTime /\ C!Unconstrained => ConstraintInv'
<1> SUFFICES ASSUME ConstraintInv, InTime, C!Unconstrained PROVE ConstraintInv'
  OBVIOUS
<1> DEFINE tests == {"test_02_02_01", "test_02_03_03"}
<1>1. CASE C!Begin({"test_02_02_01"}, C!Senders)
  BY <1>1, SendersBegin DEF PutTests
<1>2. CASE C!Begin({"test_02_03_03"}, noted.with)
  <2>1. noted.with \in Seq(Sender)
    BY DEF ConstraintInv, ConstraintBasics, ConstraintRecords
  <2> QED
    BY <1>2, <2>1, ListBegins DEF PutTests, Emptiers
<1>3. CASE C!On(tests, "visit") /\ C!AwaitStatus(C!Subject, "unconstrained", "right") /\ device' = device /\ noted' = noted
  <2>1. /\ ~C!Ended /\ UnderWay /\ Head(at.plan) \in tests /\ at.step = "visit"
    BY <1>3 DEF C!On, UnderWay
  <2>2. Head(at.plan) \notin PutTests \cup InputTests \cup Emptiers \cup {"set_up_tests", "test_02_02_03"}
    BY <2>1 DEF PutTests, InputTests, Emptiers
  <2>3. C!Subject \in Sender /\ C!Subject \in C!Range(at.todo)
    BY <2>1, <2>2, Subjects
  <2>4. Gently /\ device'.network = device.network /\ noted'.known = noted.known
    BY <1>3, StayingGently
  <2>5. Fit /\ device.pace = "prompt" => Frees(device) /\ HasFollowed(device) /\ SettledAt(at.step, device)
    BY <2>1, <2>2, InPatience
  <2>6. at.tries + 1 \in Nat /\ 0 \in Nat
    BY <2>1 DEF ConstraintInv, ConstraintBasics, SenderTodo
  <2>7. CASE device.status[C!Subject] = "awaiting" /\ C!Step(at.step, at.tries + 1)
    <3>1. Fit /\ device.pace = "prompt" =>
            /\ HoldsAt("visit", device') /\ NoticedAt("visit", device', noted'.flow)
            /\ SettledAt("visit", device')
      BY <1>3, <2>1, <2>2, <2>5 DEF HoldsAt, NoticedAt, Keeps, Keeping
    <3> QED
      BY <1>3, <2>1, <2>2, <2>4, <2>6, <2>7, <3>1, ConstraintMoves
  <2>8. CASE device.status[C!Subject] = "unconstrained" /\ C!Step("right", 0)
    <3>1. Fit /\ device.pace = "prompt" =>
            /\ HoldsAt("right", device') /\ NoticedAt("right", device', noted'.flow)
            /\ SettledAt("right", device')
      BY <1>3, <2>1, <2>2, <2>5, <2>8 DEF HoldsAt, NoticedAt, Keeps, Keeping, SettledAt
    <3> QED
      BY <1>3, <2>1, <2>2, <2>4, <2>6, <2>8, <3>1, ConstraintMoves
  <2>9. CASE (device.pace = "slow" \/ device.status[C!Subject] \notin {"awaiting", "unconstrained"}) /\ C!Conclude("FAIL")
    <3>1. ~(Fit /\ device.pace = "prompt")
      <4> SUFFICES ASSUME Fit, device.pace = "prompt" PROVE FALSE
        OBVIOUS
      <4>1. device.status[C!Subject] \notin {"awaiting", "unconstrained"}
        BY <2>9
      <4>2. device.active[C!Subject] = "none" /\ device.status[C!Subject] = C!Outcome(device, C!Subject).status
        BY <2>3, <2>5, <4>1 DEF Frees, HasFollowed
      <4> QED
        BY <2>3, <4>1, <4>2, Outcomes DEF Wishes
    <3> QED
      BY <1>3, <2>1, <2>2, <2>4, <2>9, <3>1, ConstraintEnds
  <2> QED
    BY <1>3, <2>1, <2>3, <2>7, <2>8, <2>9, StatusAwaited
<1>4. CASE C!On(tests, "right") /\ C!Leave /\ device' = device /\ noted' = noted
  <2>1. /\ ~C!Ended /\ UnderWay /\ Head(at.plan) \in tests /\ at.step = "right"
    BY <1>4 DEF C!On, UnderWay
  <2>2. Head(at.plan) \notin PutTests \cup InputTests \cup Emptiers \cup {"set_up_tests", "test_02_02_03"}
    BY <2>1 DEF PutTests, InputTests, Emptiers
  <2>3. Gently /\ device'.network = device.network /\ noted'.known = noted.known
    BY <1>4, StayingGently
  <2>4. Fit /\ device.pace = "prompt" => Frees(device) /\ SettledAt(at.step, device)
    BY <2>1, <2>2, InPatience
  <2> QED
    BY <1>4, <2>1, <2>2, <2>3, <2>4, ConstraintLeaves DEF SettledAt
<1> QED
  BY <1>1, <1>2, <1>3, <1>4 DEF C!Unconstrained

LEMMA NotingFlows == ConstraintInv /\ C!NoteFlows => ConstraintInv'
<1> SUFFICES ASSUME ConstraintInv, C!NoteFlows PROVE ConstraintInv'
  OBVIOUS
<1>1. CASE C!Begin({"test_02_02_03"}, C!Senders)
  BY <1>1, SendersBegin DEF PutTests
<1>2. CASE /\ C!On({"test_02_02_03"}, "visit") /\ C!Leave /\ device' = device
           /\ noted' = [noted EXCEPT !.known[C!SenderFormat(C!Subject)] = Append(@, C!Subject),
                                     !.rate[C!Subject] = device.rate[C!Subject]]
  <2> DEFINE s == C!Subject  format == C!SenderFormat(C!Subject)
  <2>1. /\ ~C!Ended /\ UnderWay /\ Head(at.plan) = "test_02_02_03" /\ at.step = "visit"
    BY <1>2 DEF C!On, UnderWay
  <2>2. Head(at.plan) \notin PutTests \cup InputTests \cup Emptiers
    BY <2>1 DEF PutTests, InputTests, Emptiers
  <2>3. s \in Sender /\ format \in C!Format
    BY <2>1, <2>2, Subjects DEF C!SenderFormat, C!Format
  <2>4. ConstraintRecords /\ IsSenderDevice(device) /\ HasFollowed(device)
    BY DEF ConstraintInv, ConstraintBasics
  <2> DEFINE known == [noted.known EXCEPT ![format] = Append(@, s)]
             rate == [noted.rate EXCEPT ![s] = device.rate[s]]
  <2>5. noted' = [known |-> known, with |-> noted.with, without |-> noted.without,
                  rate |-> rate, flow |-> noted.flow]
    BY <1>2, <2>4 DEF ConstraintRecords
  <2>6. ConstraintRecords'
    <3>1. known = [f \in C!Format |-> known[f]] /\ rate = [x \in Sender |-> rate[x]]
      BY <2>4 DEF ConstraintRecords
    <3>2. ASSUME NEW f \in C!Format PROVE known[f] \in Seq(Sender)
      <4>1. noted.known[f] \in Seq(Sender)
        BY <2>4 DEF ConstraintRecords
      <4>2. known[f] = IF f = format THEN Append(noted.known[f], s) ELSE noted.known[f]
        BY <2>4 DEF ConstraintRecords
      <4> HIDE DEF known, s, format
      <4> QED
        BY <2>3, <4>1, <4>2
    <3> HIDE DEF known, rate, s, format
    <3> QED
      BY <2>4, <2>5, <3>1, <3>2 DEF ConstraintRecords
  <2>7. Gently /\ device'.network = device.network
    <3>1. IsSenderDevice(device)' /\ HasFollowed(device)' /\ (IsSettled(device) => IsSettled(device)')
      BY <1>2, <2>4 DEF IsSenderDevice, HasFollowed, IsSettled, C!Outcome
    <3> QED
      BY <1>2, <2>6, <3>1 DEF Gently
  <2>8. ASSUME Fit, device.pace = "prompt"
        PROVE  /\ Frees(device')
               /\ AreNative(noted'.rate) \/ ~HasAny(at.plan, PutTests)
               /\ HasAny(at.plan, PutTests) => \A x \in Sender : device'.status[x] = "unconstrained"
    <3>1. Frees(device) /\ SettledAt(at.step, device)
      BY <2>1, <2>2, <2>8, InPatience
    <3>2. ASSUME HasAny(at.plan, PutTests) PROVE AreNative(noted'.rate)
      <4>1. device.status[s] = "unconstrained" /\ device.active[s] = "none" /\ AreNative(noted.rate)
        BY <2>1, <2>3, <2>8, <3>1, <3>2, InPatience DEF SettledAt, Frees
      <4>2. device.rate[s] = "native"
        <5>1. device.rate[s] = C!Outcome(device, s).rate
          BY <2>3, <2>4, <4>1 DEF HasFollowed
        <5>2. device.active[s] \in Wishes
          BY <2>3, <2>4 DEF HasFollowed
        <5> QED
          BY <2>3, <4>1, <5>1, <5>2, Outcomes
      <4> QED
        BY <2>3, <2>4, <2>5, <4>1, <4>2 DEF AreNative, ConstraintRecords
    <3> QED
      BY <1>2, <2>1, <3>1, <3>2 DEF SettledAt
  <2> HIDE DEF s, format, known, rate
  <2> QED
    BY <1>2, <2>1, <2>2, <2>7, <2>8, ConstraintLeaves
<1> QED
  BY <1>1, <1>2 DEF C!NoteFlows

\* The tests that put constraints are no others, and of one kind each.
LEMMA KindsOfTests ==
    ASSUME NEW t
    PROVE  /\ t \in PutTests => t \notin Emptiers \cup {"set_up_tests", "test_02_02_01", "test_02_02_03"}
           /\ t \in VersionTests \cup NoOpTests \cup ReferenceTests \cup InputTests => t \in PutTests
           /\ t \in VersionTests => t \notin NoOpTests \cup ReferenceTests \cup InputTests
           /\ t \in NoOpTests => t \notin ReferenceTests \cup InputTests
           /\ t \in ReferenceTests => t \notin InputTests
  BY DEF PutTests, Emptiers, VersionTests, NoOpTests, ReferenceTests, InputTests

\* Such a test goes on, ends, or is done with a Sender.
LEMMA PutMoves ==
    ASSUME ConstraintInv, UnderWay, Head(at.plan) \in PutTests, NEW step, step # "begin",
           NEW tries \in Nat, C!Step(step, tries), Gently, device'.network = device.network,
           noted'.known = noted.known,
           Fit /\ device.pace = "prompt" =>
               /\ noted'.rate = noted.rate
               /\ HoldsAt(step, device') /\ NoticedAt(step, device', noted'.flow)
    PROVE  ConstraintInv'
<1>1. Head(at.plan) \notin Emptiers \cup {"set_up_tests", "test_02_02_01", "test_02_02_03"}
  BY KindsOfTests
<1>2. SettledAt(step, device')
  BY <1>1 DEF SettledAt
<1> QED
  BY <1>1, <1>2, ConstraintMoves

\* A test that puts constraints ends, ...
LEMMA PutEnds ==
    ASSUME ConstraintInv, UnderWay, Head(at.plan) \in PutTests, NEW v, C!Conclude(v), Gently,
           noted' = noted, Fit /\ device.pace = "prompt" => Frees(device')
    PROVE  ConstraintInv'
<1>1. Head(at.plan) \notin Emptiers \cup {"set_up_tests", "test_02_02_01", "test_02_02_03"}
  BY KindsOfTests
<1> QED
  BY <1>1, ConstraintEnds DEF UnderWay

\* ... or is done with a Sender: all are free again if the device takes its time.
LEMMA PutLeaves ==
    ASSUME ConstraintInv, UnderWay, Head(at.plan) \in PutTests, C!Leave, Gently,
           device'.network = device.network, noted' = noted,
           Fit /\ device.pace = "prompt" => Frees(device')
    PROVE  ConstraintInv'
<1>1. Head(at.plan) \notin Emptiers \cup {"set_up_tests", "test_02_02_01", "test_02_02_03"}
  BY KindsOfTests
<1> QED
  BY <1>1, ConstraintLeaves DEF UnderWay

\* A GET of a version, as a step of the suite.
LEMMA SeeingGently ==
    ASSUME ConstraintInv, NEW x, device' = C!Seen(device, x), noted' = noted
    PROVE  /\ Gently /\ device'.network = device.network /\ noted'.known = noted.known
           /\ device'.active = device.active /\ device'.status = device.status
<1> DEFINE e == C!Seen(device, x)
<1>0. IsSenderDevice(device) /\ HasFollowed(device) /\ ConstraintRecords
  BY DEF ConstraintInv, ConstraintBasics
<1>1. /\ IsSenderDevice(e) /\ SameKind(device, e) /\ HasFollowed(e)
      /\ IsSettled(device) => IsSettled(e)
      /\ e.active = device.active /\ e.status = device.status /\ e.rate = device.rate
  BY <1>0, Looking, Zenon
<1>2. device' = e
  OBVIOUS
<1> HIDE DEF e
<1>3. ConstraintRecords'
  BY <1>0 DEF ConstraintRecords
<1>4. IsSenderDevice(device)' /\ HasFollowed(device)' /\ (IsSettled(e) => IsSettled(device)')
  <2>1. IsSenderDevice(device)'
    BY <1>1, <1>2 DEF IsSenderDevice
  <2>2. HasFollowed(device)'
    <3>1. ASSUME NEW s \in Sender PROVE C!Outcome(device, s)' = C!Outcome(e, s)
      BY <1>2 DEF C!Outcome
    <3> QED
      BY <1>1, <1>2, <3>1 DEF HasFollowed
  <2> QED
    BY <1>2, <2>1, <2>2 DEF IsSettled
<1>5. Gently
  BY <1>1, <1>2, <1>3, <1>4 DEF Gently, SameKind
<1> QED
  BY <1>1, <1>2, <1>5 DEF SameKind

\* The one test at work with its step, and the Sender it is about.
LEMMA AtWork ==
    ASSUME ConstraintInv, NEW tests, NEW step, C!On(tests, step), step # "begin"
    PROVE  /\ ~C!Ended /\ UnderWay /\ Head(at.plan) \in tests /\ at.step = step
           /\ at.tries \in Nat /\ at.tries + 1 \in Nat /\ 0 \in Nat
           /\ Head(at.plan) \notin InputTests => C!Subject \in Sender
<1>1. ~C!Ended /\ UnderWay /\ Head(at.plan) \in tests /\ at.step = step
  BY DEF C!On, UnderWay
<1>2. at.tries \in Nat /\ at.tries + 1 \in Nat
  BY <1>1 DEF ConstraintInv, ConstraintBasics, SenderTodo
<1> QED
  BY <1>1, <1>2, Subjects

-----------------------------------------------------------------------------
(* How a run of these tests begins.                                         *)

Concatenates(j, s, t) ==
    /\ Len(j) = Len(s) + Len(t)
    /\ \A k \in 1..Len(s) : j[k] = s[k]
    /\ \A k \in 1..Len(t) : j[Len(s) + k] = t[k]

\* The elements of a concatenation.
LEMMA Concatenating ==
    ASSUME NEW S, NEW s \in Seq(S), NEW t \in Seq(S)
    PROVE  s \o t \in Seq(S) /\ Concatenates(s \o t, s, t)
<1> DEFINE j == s \o t
<1>1. /\ j \in Seq(S) /\ Len(j) = Len(s) + Len(t)
      /\ \A i \in 1..Len(s) + Len(t) : j[i] = IF i <= Len(s) THEN s[i] ELSE t[i - Len(s)]
  BY ConcatProperties
<1>2. Len(s) \in Nat /\ Len(t) \in Nat
  OBVIOUS
<1> HIDE DEF j
<1>3. ASSUME NEW k \in 1..Len(t) PROVE j[Len(s) + k] = t[k]
  <2>1. /\ Len(s) + k \in 1..Len(s) + Len(t) /\ ~(Len(s) + k <= Len(s))
        /\ (Len(s) + k) - Len(s) = k
    BY <1>2
  <2> QED
    BY <1>1, <2>1
<1>4. ASSUME NEW k \in 1..Len(s) PROVE j[k] = s[k]
  BY <1>1, <1>2
<1> QED
  BY <1>1, <1>3, <1>4 DEF Concatenates, j

TestSet ==
    {"test_02_00", "test_02_02_01", "test_02_02_03",
     "test_02_02_04_01", "test_02_02_04_02", "test_02_02_05_01", "test_02_02_05_02",
     "test_02_02_06_01", "test_02_02_06_02", "test_02_02_07_01", "test_02_02_07_02",
     "test_02_03_00", "test_02_03_03", "test_02_03_05_01", "test_02_03_05_02",
     "test_02_04", "test_02_04_01", "test_06_01", "test_06_02", "test_06_03"}

\* The order in which the tests of a whole suite come.
LEMMA OrderOfTests ==
    /\ C!Order = [k \in 1..20 |-> C!Order[k]] /\ C!Order \in Seq(TestSet)
    /\ C!Order[1] = "test_02_00" /\ C!Order[2] = "test_02_02_01" /\ C!Order[3] = "test_02_02_03"
    /\ C!Order[4] = "test_02_02_04_01" /\ C!Order[5] = "test_02_02_04_02"
    /\ C!Order[6] = "test_02_02_05_01" /\ C!Order[7] = "test_02_02_05_02"
    /\ C!Order[8] = "test_02_02_06_01" /\ C!Order[9] = "test_02_02_06_02"
    /\ C!Order[10] = "test_02_02_07_01" /\ C!Order[11] = "test_02_02_07_02"
    /\ C!Order[12] = "test_02_03_00" /\ C!Order[13] = "test_02_03_03"
    /\ C!Order[14] = "test_02_03_05_01" /\ C!Order[15] = "test_02_03_05_02"
    /\ C!Order[16] = "test_02_04" /\ C!Order[17] = "test_02_04_01"
    /\ C!Order[18] = "test_06_01" /\ C!Order[19] = "test_06_02" /\ C!Order[20] = "test_06_03"
<1> DEFINE noFormat == C!NoFormat  inert == C!Inert  late == C!Late
           versions == C!Pair(C!VersionTest)  noOps == C!Pair(C!NoOpTest)
           supported == C!Pair(C!SupportedTest)  preferred == C!Pair(C!PreferenceTest)
           inputs == C!Pair(C!InputTest)
           o1 == noFormat \o versions
           o2 == o1 \o noOps
           o3 == o2 \o supported
           o4 == o3 \o preferred
           o5 == o4 \o inert
           o6 == o5 \o inputs
           o7 == o6 \o late
<1>1. /\ noFormat \in Seq(TestSet) /\ Len(noFormat) = 3 /\ noFormat[1] = "test_02_00"
      /\ noFormat[2] = "test_02_02_01" /\ noFormat[3] = "test_02_02_03"
  <2>1. noFormat = <<"test_02_00", "test_02_02_01", "test_02_02_03">>
    BY DEF C!NoFormat
  <2> QED
    BY <2>1 DEF TestSet
<1>2. inert \in Seq(TestSet) /\ Len(inert) = 2 /\ inert[1] = "test_02_03_00" /\ inert[2] = "test_02_03_03"
  <2>1. inert = <<"test_02_03_00", "test_02_03_03">>
    BY DEF C!Inert
  <2> QED
    BY <2>1 DEF TestSet
<1>3. /\ late \in Seq(TestSet) /\ Len(late) = 5 /\ late[1] = "test_02_04" /\ late[2] = "test_02_04_01"
      /\ late[3] = "test_06_01" /\ late[4] = "test_06_02" /\ late[5] = "test_06_03"
  <2>1. late = <<"test_02_04", "test_02_04_01", "test_06_01", "test_06_02", "test_06_03">>
    BY DEF C!Late
  <2> HIDE DEF late
  <2> QED
    BY <2>1 DEF TestSet
<1>4. versions \in Seq(TestSet) /\ Len(versions) = 2 /\ versions[1] = "test_02_02_04_01" /\ versions[2] = "test_02_02_04_02"
  <2>1. versions = <<"test_02_02_04_01", "test_02_02_04_02">>
    BY DEF C!Pair, C!VersionTest
  <2> HIDE DEF versions
  <2> QED
    BY <2>1 DEF TestSet
<1>18. noOps \in Seq(TestSet) /\ Len(noOps) = 2 /\ noOps[1] = "test_02_02_05_01" /\ noOps[2] = "test_02_02_05_02"
  <2>1. noOps = <<"test_02_02_05_01", "test_02_02_05_02">>
    BY DEF C!Pair, C!NoOpTest
  <2> HIDE DEF noOps
  <2> QED
    BY <2>1 DEF TestSet
<1>19. supported \in Seq(TestSet) /\ Len(supported) = 2 /\ supported[1] = "test_02_02_06_01" /\ supported[2] = "test_02_02_06_02"
  <2>1. supported = <<"test_02_02_06_01", "test_02_02_06_02">>
    BY DEF C!Pair, C!SupportedTest
  <2> HIDE DEF supported
  <2> QED
    BY <2>1 DEF TestSet
<1>20. preferred \in Seq(TestSet) /\ Len(preferred) = 2 /\ preferred[1] = "test_02_02_07_01" /\ preferred[2] = "test_02_02_07_02"
  <2>1. preferred = <<"test_02_02_07_01", "test_02_02_07_02">>
    BY DEF C!Pair, C!PreferenceTest
  <2> HIDE DEF preferred
  <2> QED
    BY <2>1 DEF TestSet
<1>21. inputs \in Seq(TestSet) /\ Len(inputs) = 2 /\ inputs[1] = "test_02_03_05_01" /\ inputs[2] = "test_02_03_05_02"
  <2>1. inputs = <<"test_02_03_05_01", "test_02_03_05_02">>
    BY DEF C!Pair, C!InputTest
  <2> HIDE DEF inputs
  <2> QED
    BY <2>1 DEF TestSet
<1>5. C!Order = o7
  BY DEF C!Order
<1> HIDE DEF noFormat, inert, late, versions, noOps, supported, preferred, inputs
<1> HIDE DEF o1, o2, o3, o4, o5, o6, o7
<1>6. /\ o1 \in Seq(TestSet) /\ Len(o1) = 5
      /\ \A k \in 1..3 : o1[k] = noFormat[k]
      /\ o1[4] = "test_02_02_04_01"
      /\ o1[5] = "test_02_02_04_02"
  <2>1. o1 \in Seq(TestSet) /\ Concatenates(o1, noFormat, versions)
    BY <1>1, <1>4, Concatenating DEF o1
  <2>2. \A k \in 1..2 : o1[3 + k] = versions[k]
    BY <1>1, <1>4, <2>1 DEF Concatenates
  <2> QED
    BY <1>1, <1>4, <2>1, <2>2 DEF Concatenates
<1>7. /\ o2 \in Seq(TestSet) /\ Len(o2) = 7
      /\ \A k \in 1..5 : o2[k] = o1[k]
      /\ o2[6] = "test_02_02_05_01"
      /\ o2[7] = "test_02_02_05_02"
  <2>1. o2 \in Seq(TestSet) /\ Concatenates(o2, o1, noOps)
    BY <1>6, <1>18, Concatenating DEF o2
  <2>2. \A k \in 1..2 : o2[5 + k] = noOps[k]
    BY <1>6, <1>18, <2>1 DEF Concatenates
  <2> QED
    BY <1>6, <1>18, <2>1, <2>2 DEF Concatenates
<1>8. /\ o3 \in Seq(TestSet) /\ Len(o3) = 9
      /\ \A k \in 1..7 : o3[k] = o2[k]
      /\ o3[8] = "test_02_02_06_01"
      /\ o3[9] = "test_02_02_06_02"
  <2>1. o3 \in Seq(TestSet) /\ Concatenates(o3, o2, supported)
    BY <1>7, <1>19, Concatenating DEF o3
  <2>2. \A k \in 1..2 : o3[7 + k] = supported[k]
    BY <1>7, <1>19, <2>1 DEF Concatenates
  <2> QED
    BY <1>7, <1>19, <2>1, <2>2 DEF Concatenates
<1>9. /\ o4 \in Seq(TestSet) /\ Len(o4) = 11
      /\ \A k \in 1..9 : o4[k] = o3[k]
      /\ o4[10] = "test_02_02_07_01"
      /\ o4[11] = "test_02_02_07_02"
  <2>1. o4 \in Seq(TestSet) /\ Concatenates(o4, o3, preferred)
    BY <1>8, <1>20, Concatenating DEF o4
  <2>2. \A k \in 1..2 : o4[9 + k] = preferred[k]
    BY <1>8, <1>20, <2>1 DEF Concatenates
  <2> QED
    BY <1>8, <1>20, <2>1, <2>2 DEF Concatenates
<1>10. /\ o5 \in Seq(TestSet) /\ Len(o5) = 13
      /\ \A k \in 1..11 : o5[k] = o4[k]
      /\ o5[12] = "test_02_03_00"
      /\ o5[13] = "test_02_03_03"
  <2>1. o5 \in Seq(TestSet) /\ Concatenates(o5, o4, inert)
    BY <1>9, <1>2, Concatenating DEF o5
  <2>2. \A k \in 1..2 : o5[11 + k] = inert[k]
    BY <1>9, <1>2, <2>1 DEF Concatenates
  <2> QED
    BY <1>9, <1>2, <2>1, <2>2 DEF Concatenates
<1>11. /\ o6 \in Seq(TestSet) /\ Len(o6) = 15
      /\ \A k \in 1..13 : o6[k] = o5[k]
      /\ o6[14] = "test_02_03_05_01"
      /\ o6[15] = "test_02_03_05_02"
  <2>1. o6 \in Seq(TestSet) /\ Concatenates(o6, o5, inputs)
    BY <1>10, <1>21, Concatenating DEF o6
  <2>2. \A k \in 1..2 : o6[13 + k] = inputs[k]
    BY <1>10, <1>21, <2>1 DEF Concatenates
  <2> QED
    BY <1>10, <1>21, <2>1, <2>2 DEF Concatenates
<1>12. /\ o7 \in Seq(TestSet) /\ Len(o7) = 20
      /\ \A k \in 1..15 : o7[k] = o6[k]
      /\ o7[16] = "test_02_04"
      /\ o7[17] = "test_02_04_01"
      /\ o7[18] = "test_06_01"
      /\ o7[19] = "test_06_02"
      /\ o7[20] = "test_06_03"
  <2>1. o7 \in Seq(TestSet) /\ Concatenates(o7, o6, late)
    BY <1>11, <1>3, Concatenating DEF o7
  <2>2. \A k \in 1..5 : o7[15 + k] = late[k]
    BY <1>11, <1>3, <2>1 DEF Concatenates
  <2> QED
    BY <1>11, <1>3, <2>1, <2>2 DEF Concatenates
<1>13. o7 = [k \in 1..20 |-> o7[k]]
  BY <1>12
<1>16. /\ o7[1] = noFormat[1] /\ o7[2] = noFormat[2] /\ o7[3] = noFormat[3]
       /\ o7[4] = o1[4] /\ o7[5] = o1[5] /\ o7[6] = o2[6] /\ o7[7] = o2[7]
       /\ o7[8] = o3[8] /\ o7[9] = o3[9] /\ o7[10] = o4[10] /\ o7[11] = o4[11]
       /\ o7[12] = o5[12] /\ o7[13] = o5[13] /\ o7[14] = o6[14] /\ o7[15] = o6[15]
  <2>1. \A k \in 1..15 : o7[k] = o6[k]
    BY <1>12
  <2>2. \A k \in 1..13 : o7[k] = o5[k]
    BY <1>11, <2>1
  <2>3. \A k \in 1..11 : o7[k] = o4[k]
    BY <1>10, <2>2
  <2>4. \A k \in 1..9 : o7[k] = o3[k]
    BY <1>9, <2>3
  <2>5. \A k \in 1..7 : o7[k] = o2[k]
    BY <1>8, <2>4
  <2>6. \A k \in 1..5 : o7[k] = o1[k]
    BY <1>7, <2>5
  <2>7. \A k \in 1..3 : o7[k] = noFormat[k]
    BY <1>6, <2>6
  <2> QED
    BY <2>1, <2>2, <2>3, <2>4, <2>5, <2>6, <2>7
<1> QED
  BY <1>1, <1>5, <1>6, <1>7, <1>8, <1>9, <1>10, <1>11, <1>12, <1>13, <1>16

IsPlanOf(plan, tests) ==
    plan = <<"set_up_tests">> \o tests \o <<"tear_down_tests">>

HasEnds(S) == "set_up_tests" \in S /\ "tear_down_tests" \in S
Frames(plan, tests) ==
    /\ Len(plan) = Len(tests) + 2 /\ Len(tests) \in Nat
    /\ plan[1] = "set_up_tests" /\ plan[Len(tests) + 2] = "tear_down_tests"
    /\ \A k \in 1..Len(tests) : plan[k + 1] = tests[k]

\* A plan is the tests between set up and tear down.
LEMMA PlanOfTests ==
    ASSUME NEW S, HasEnds(S), NEW tests \in Seq(S), NEW plan, IsPlanOf(plan, tests)
    PROVE  plan \in Seq(S) /\ Frames(plan, tests)
<1> DEFINE first == <<"set_up_tests">>  last == <<"tear_down_tests">>  rest == first \o tests
<1>1. /\ first \in Seq(S) /\ Len(first) = 1 /\ first[1] = "set_up_tests"
      /\ last \in Seq(S) /\ Len(last) = 1 /\ last[1] = "tear_down_tests"
  BY DEF HasEnds
<1>2. plan = rest \o last
  BY DEF IsPlanOf
<1> HIDE DEF first, last
<1>3. rest \in Seq(S) /\ Concatenates(rest, first, tests)
  BY <1>1, Concatenating
<1> HIDE DEF rest
<1>4. plan \in Seq(S) /\ Concatenates(plan, rest, last)
  BY <1>1, <1>2, <1>3, Concatenating
<1>5. Len(tests) \in Nat /\ Len(rest) = Len(tests) + 1 /\ Len(plan) = Len(tests) + 2
  BY <1>1, <1>3, <1>4 DEF Concatenates
<1>6. plan[1] = "set_up_tests"
  <2>1. 1 \in 1..Len(rest) /\ 1 \in 1..Len(first)
    BY <1>1, <1>5
  <2> QED
    BY <1>1, <1>3, <1>4, <2>1 DEF Concatenates
<1>7. plan[Len(tests) + 2] = "tear_down_tests"
  <2>1. 1 \in 1..Len(last) /\ Len(tests) + 2 = Len(rest) + 1
    BY <1>1, <1>5
  <2> QED
    BY <1>1, <1>4, <2>1 DEF Concatenates
<1>8. ASSUME NEW k \in 1..Len(tests) PROVE plan[k + 1] = tests[k]
  <2>1. k + 1 \in 1..Len(rest) /\ Len(first) + k = k + 1
    BY <1>1, <1>5
  <2> QED
    BY <1>3, <1>4, <2>1 DEF Concatenates
<1> QED
  BY <1>4, <1>5, <1>6, <1>7, <1>8 DEF Frames

\* Every run, of the suite or of one test, has its tests in order.
LEMMA ConstraintOrder ==
    ASSUME C!Init
    PROVE  IsRun /\ InOrder /\ at.plan # <<>> /\ Head(at.plan) = "set_up_tests"
<1> DEFINE order == C!Order
           S == TestSet \cup {"set_up_tests", "tear_down_tests"}
<1>0. /\ order = [k \in 1..20 |-> order[k]] /\ order \in Seq(TestSet)
      /\ Len(order) = 20 /\ DOMAIN order = 1..20
      /\ order[2] = "test_02_02_01" /\ order[19] = "test_06_02" /\ order[20] = "test_06_03"
  BY OrderOfTests
<1>1. \A k \in 1..20 : /\ order[k] \in PutTests => k < 19
                       /\ order[k] = "test_02_02_03" => k = 3
                       /\ order[k] \in TestSet
  <2>1. \A k \in 1..20 : /\ order[k] \in PutTests => k < 19
                         /\ order[k] = "test_02_02_03" => k = 3
    BY OrderOfTests DEF PutTests
  <2> QED
    BY <1>0, <2>1
<1> HIDE DEF order
<1>2. PICK plan \in C!Plans(order) : at = C!Position(plan)
  BY DEF C!Init, order
<1>3. PICK tests \in {order} \cup {<<order[k]>> : k \in 1..20} :
        plan = <<"set_up_tests">> \o tests \o <<"tear_down_tests">>
  BY <1>0, <1>2 DEF C!Plans
<1>4. IsRun /\ Head(at.plan) = "set_up_tests"
  <2>1. /\ plan \in Plans(order) /\ at = Position(plan) /\ verdict = NoVerdicts(order)
    BY <1>2 DEF Plans, C!Plans, Position, C!Position, NoVerdicts, C!NoVerdicts, C!Init, order
  <2>2. \A k \in 1..20 : order[k] # "tear_down_tests"
    BY <1>1 DEF TestSet
  <2> QED
    BY <1>0, <2>1, <2>2, PlansArePlans
<1>5. at.plan = plan /\ at.step = "begin" /\ \A f \in C!Format : noted.known[f] = <<>>
  BY <1>2 DEF C!Position, C!Init
<1>6. /\ "set_up_tests" \notin TestSet /\ "tear_down_tests" \notin TestSet \cup PutTests
      /\ "set_up_tests" \notin PutTests /\ "test_02_02_03" \notin PutTests
      /\ "set_up_tests" \in S /\ "tear_down_tests" \in S /\ TestSet \subseteq S
  BY DEF TestSet, PutTests
<1>9. IsPlanOf(plan, tests)
  BY <1>3 DEF IsPlanOf
<1>10. HasEnds(S)
  BY DEF HasEnds
<1> HIDE DEF S
<1>7. CASE tests = order
  <2>1. tests \in Seq(S) /\ Len(tests) = 20
    BY <1>0, <1>6, <1>7
  <2>2. plan \in Seq(S) /\ Frames(plan, tests)
    BY <1>9, <1>10, <2>1, PlanOfTests
  <2>3. /\ Len(plan) = 22 /\ plan[1] = "set_up_tests" /\ plan[22] = "tear_down_tests"
        /\ \A k \in 1..20 : plan[k + 1] = order[k]
    BY <1>7, <2>1, <2>2 DEF Frames
  <2>4. \A k \in 2..21 : k - 1 \in 1..20 /\ plan[k] = order[k - 1]
    BY <2>3
  <2>5. \A k \in 2..22 : plan[k] # "set_up_tests"
    <3> SUFFICES ASSUME NEW k \in 2..22 PROVE plan[k] # "set_up_tests"
      OBVIOUS
    <3>1. k = 22 \/ k \in 2..21
      OBVIOUS
    <3> QED
      BY <1>1, <1>6, <2>3, <2>4, <3>1
  <2>6. plan[20] = "test_06_02" /\ plan[21] = "test_06_03" /\ plan[3] = "test_02_02_01"
    BY <1>0, <2>4
  <2>7. ASSUME NEW k \in 1..22, plan[k] \in PutTests PROVE k < 20
    <3>1. k # 1 /\ k # 22
      BY <1>6, <2>3, <2>7
    <3>3. k \in 2..21
      BY <3>1
    <3>2. k - 1 < 19
      BY <1>1, <2>4, <2>7, <3>3
    <3> QED
      BY <3>2
  <2>8. ASSUME NEW k \in 2..22, plan[k] = "test_02_02_03" PROVE plan[k - 1] = "test_02_02_01"
    <3>1. k \in 2..21
      BY <2>3, <2>8
    <3>2. k - 1 = 3
      BY <1>1, <2>4, <2>8, <3>1
    <3> QED
      BY <2>6, <3>2
  <2>9. Whole(plan)
    <3>1. 20 \in 1..22 /\ 21 \in 1..22 /\ 20 < 21
      OBVIOUS
    <3>2. ASSUME NEW k \in 1..22, plan[k] \in PutTests
          PROVE  \E m, n \in 1..22 :
                     k < m /\ m < n /\ plan[m] = "test_06_02" /\ plan[n] = "test_06_03"
      <4>1. k < 20
        BY <2>7, <3>2
      <4> QED
        BY <2>6, <3>1, <4>1
    <3> QED
      BY <2>3, <2>8, <3>2 DEF Whole
  <2>10. plan # <<>>
    <3>1. Len(plan) # 0
      BY <2>3
    <3> QED
      BY <3>1, EmptySeq
  <2> QED
    BY <1>4, <1>5, <2>3, <2>5, <2>9, <2>10 DEF InOrder, UnderWay
<1>8. CASE \E k \in 1..20 : tests = <<order[k]>>
  <2>1. PICK x \in TestSet : tests = <<x>>
    BY <1>1, <1>8
  <2>2. tests \in Seq(S) /\ Len(tests) = 1 /\ tests[1] = x
    BY <1>6, <2>1
  <2>3. plan \in Seq(S) /\ Frames(plan, tests)
    BY <1>9, <1>10, <2>2, PlanOfTests
  <2>4. /\ Len(plan) = 3 /\ plan[1] = "set_up_tests" /\ plan[2] = x
        /\ plan[3] = "tear_down_tests"
    <3>1. 1 \in 1..Len(tests)
      BY <2>2
    <3> QED
      BY <2>2, <2>3, <3>1 DEF Frames
  <2>5. /\ \A k \in 1..Len(plan) : k = 1 \/ k = 2 \/ k = 3
        /\ \A k \in 2..Len(plan) : k = 2 \/ k = 3
    BY <2>4
  <2>6. \A k \in 2..Len(plan) : plan[k] # "set_up_tests"
    BY <1>6, <2>4, <2>5
  <2>7. CASE x \in PutTests
    <3>1. \A k \in 1..Len(plan) : plan[k] \notin {"test_02_02_03"}
      BY <1>6, <2>4, <2>5, <2>7
    <3> QED
      BY <1>4, <1>5, <2>4, <2>6, <3>1, EmptySeq DEF InOrder, UnderWay, HasAny
  <2>8. CASE x \notin PutTests
    <3>1. \A k \in 1..Len(plan) : plan[k] \notin PutTests
      BY <1>6, <2>4, <2>5, <2>8
    <3> QED
      BY <1>4, <1>5, <2>4, <2>6, <3>1, EmptySeq DEF InOrder, UnderWay, HasAny
  <2> QED
    BY <2>7, <2>8
<1> QED
  BY <1>3, <1>7, <1>8

LEMMA ConstraintInit == C!Init => ConstraintInv
<1> SUFFICES ASSUME C!Init PROVE ConstraintInv
  OBVIOUS
<1>1. IsRun /\ InOrder /\ at.plan # <<>> /\ Head(at.plan) = "set_up_tests" /\ at.step = "begin"
  BY ConstraintOrder DEF C!Init, C!Position
<1>2. /\ IsSenderDevice(device)
      /\ \A s \in Sender : device.active[s] \in {"none", "other"} /\ device.status[s] = "awaiting"
      /\ device.network \in {"fine", "failing"}
      /\ device.network = "failing" => device.pace = "instant"
  BY DEF C!Init, IsSenderDevice
<1>3. HasFollowed(device)
  BY <1>2 DEF HasFollowed, Wishes
<1>4. ConstraintRecords /\ AreNative(noted.rate)
  BY DEF C!Init, ConstraintRecords, AreNative, C!Format
<1>5. "tear_down_tests" \in DOMAIN verdict /\ verdict["tear_down_tests"] = "none"
  BY DEF C!Init, C!NoVerdicts
<1>6. ~UnderWay /\ ~SetUpDone /\ ~C!Ended
  BY <1>1 DEF UnderWay, SetUpDone, C!Ended
<1> QED
  BY <1>1, <1>2, <1>3, <1>4, <1>5, <1>6
     DEF ConstraintInv, ConstraintBasics, SenderTodo, ConstraintTearDown, Quick, Patient

-----------------------------------------------------------------------------
(* Every step of every test.                                                *)

\* test_02_02_04_01 and _02: a PUT and a DELETE change the version of a Sender.
LEMMA ChangingVersions == ConstraintInv /\ C!Versions => ConstraintInv'
<1> SUFFICES ASSUME ConstraintInv, C!Versions PROVE ConstraintInv'
  OBVIOUS
<1> DEFINE s == C!Subject
<1>1. CASE C!BeginFormat(C!VersionTest)
  <2>1. \A f \in C!Format : C!VersionTest[f] \in PutTests \ InputTests
    BY TestNames, KindsOfTests
  <2> QED
    BY <1>1, <2>1, TestNames, FormatBegins
<1>2. ASSUME NEW step, step # "begin", C!On(C!Of(C!VersionTest), step)
      PROVE  /\ UnderWay /\ Head(at.plan) \in PutTests /\ Head(at.plan) \in VersionTests /\ at.step = step
             /\ Head(at.plan) \notin NoOpTests \cup ReferenceTests \cup InputTests
             /\ Head(at.plan) # "set_up_tests" /\ s \in Sender /\ 0 \in Nat /\ ~C!Ended
  BY <1>2, AtWork, TestNames, KindsOfTests
<1>3. CASE /\ C!On(C!Of(C!VersionTest), "visit") /\ C!Goto("changed") /\ noted' = noted
           /\ device' = C!Constrain(C!Seen(device, s), s, "same")
  <2> DEFINE d == C!Seen(device, s)
  <2>1. /\ UnderWay /\ Head(at.plan) \in PutTests /\ Head(at.plan) \in VersionTests /\ at.step = "visit"
        /\ Head(at.plan) \notin NoOpTests \cup ReferenceTests \cup InputTests
        /\ Head(at.plan) # "set_up_tests" /\ s \in Sender /\ 0 \in Nat /\ ~C!Ended
    BY <1>2, <1>3
  <2>2. /\ IsSenderDevice(d) /\ SameKind(device, d) /\ HasFollowed(d)
        /\ IsSettled(device) => IsSettled(d)
        /\ d.active = device.active /\ d.status = device.status /\ d.rate = device.rate
    BY Looking, Zenon DEF ConstraintInv, ConstraintBasics
  <2> HIDE DEF d, s
  <2>3. "same" \in Wishes
    BY DEF Wishes
  <2>4. /\ Gently /\ device'.network = device.network /\ noted'.known = noted.known
        /\ \A x \in Sender : device'.active[x] = IF x = s THEN "same" ELSE device.active[x]
        /\ device.fault = "none" => {s} \cup C!Range(InputsOf[s]) \subseteq device'.changed
    BY <1>3, <2>1, <2>2, <2>3, AskingGently DEF d
  <2>5. Fit /\ device.pace = "prompt" =>
          HoldsAt("changed", device') /\ NoticedAt("changed", device', noted'.flow)
    <3> SUFFICES ASSUME Fit, device.pace = "prompt"
                 PROVE  HoldsAt("changed", device') /\ NoticedAt("changed", device', noted'.flow)
      OBVIOUS
    <3>1. Frees(device) /\ device.fault = "none"
      BY <2>1, InPatience DEF HoldsAt, Keeps, Keeping
    <3> QED
      BY <2>1, <2>4, <3>1 DEF HoldsAt, Keeps, Keeping, Puts, Target, NoticedAt, Frees, s
  <2> QED
    BY <1>3, <2>1, <2>4, <2>5, PutMoves DEF C!Goto
<1>4. CASE /\ C!On(C!Of(C!VersionTest), "changed") /\ noted' = noted /\ device' = C!Seen(device, s)
           /\ C!Check(s \in device.changed /\ device.active[s] = "same", "delete")
  <2>1. /\ UnderWay /\ Head(at.plan) \in PutTests /\ Head(at.plan) \in VersionTests /\ at.step = "changed"
        /\ Head(at.plan) \notin NoOpTests \cup ReferenceTests \cup InputTests
        /\ Head(at.plan) # "set_up_tests" /\ s \in Sender /\ 0 \in Nat /\ ~C!Ended
    BY <1>2, <1>4
  <2>2. /\ Gently /\ device'.network = device.network /\ noted'.known = noted.known
        /\ device'.active = device.active
    BY <1>4, SeeingGently
  <2>3. Fit /\ device.pace = "prompt" =>
          /\ s \in device.changed /\ device.active[s] = "same"
          /\ HoldsAt("delete", device') /\ NoticedAt("delete", device', noted'.flow)
    <3> SUFFICES ASSUME Fit, device.pace = "prompt"
                 PROVE  /\ s \in device.changed /\ device.active[s] = "same"
                        /\ HoldsAt("delete", device') /\ NoticedAt("delete", device', noted'.flow)
      OBVIOUS
    <3>1. HoldsAt("changed", device) /\ NoticedAt("changed", device, noted.flow)
      BY <2>1, InPatience
    <3> QED
      BY <2>1, <2>2, <3>1 DEF HoldsAt, Keeps, Keeping, Puts, Target, NoticedAt, Frees
  <2>4. \/ C!Step("delete", 0)
        \/ C!Conclude("FAIL") /\ ~(s \in device.changed /\ device.active[s] = "same")
    BY <1>4 DEF C!Check, C!Goto
  <2> QED
    BY <1>4, <2>1, <2>2, <2>3, <2>4, PutMoves, PutEnds
<1>5. CASE /\ C!On(C!Of(C!VersionTest), "delete") /\ device' = C!Release(device, s)
           /\ C!Goto("deleted") /\ noted' = noted
  <2>1. /\ UnderWay /\ Head(at.plan) \in PutTests /\ Head(at.plan) \in VersionTests /\ at.step = "delete"
        /\ Head(at.plan) \notin NoOpTests \cup ReferenceTests \cup InputTests
        /\ Head(at.plan) # "set_up_tests" /\ s \in Sender /\ 0 \in Nat /\ ~C!Ended
    BY <1>2, <1>5
  <2>2. /\ Gently /\ device'.network = device.network /\ noted'.known = noted.known
        /\ Fit => \A x \in Sender : device'.active[x] = IF x = s THEN "none" ELSE device.active[x]
    BY <1>5, <2>1, ReleasingGently
  <2>3. Fit /\ device.pace = "prompt" =>
          HoldsAt("deleted", device') /\ NoticedAt("deleted", device', noted'.flow)
    <3> SUFFICES ASSUME Fit, device.pace = "prompt"
                 PROVE  HoldsAt("deleted", device') /\ NoticedAt("deleted", device', noted'.flow)
      OBVIOUS
    <3>1. HoldsAt("delete", device)
      BY <2>1, InPatience
    <3> QED
      BY <2>1, <2>2, <3>1 DEF HoldsAt, Keeps, Keeping, Target, NoticedAt, Frees
  <2> QED
    BY <1>5, <2>1, <2>2, <2>3, PutMoves DEF C!Goto
<1>6. CASE /\ C!On(C!Of(C!VersionTest), "deleted") /\ device' = C!Seen(device, s) /\ noted' = noted
           /\ C!Leave \/ C!Conclude("FAIL")
  <2>1. /\ UnderWay /\ Head(at.plan) \in PutTests /\ Head(at.plan) \in VersionTests /\ at.step = "deleted"
        /\ Head(at.plan) \notin NoOpTests \cup ReferenceTests \cup InputTests
        /\ Head(at.plan) # "set_up_tests" /\ s \in Sender /\ 0 \in Nat /\ ~C!Ended
    BY <1>2, <1>6
  <2>2. /\ Gently /\ device'.network = device.network /\ noted'.known = noted.known
        /\ device'.active = device.active
    BY <1>6, SeeingGently
  <2>3. Fit /\ device.pace = "prompt" => Frees(device')
    BY <2>1, <2>2, InPatience DEF HoldsAt, Keeps, Keeping, Frees
  <2> QED
    BY <1>6, <2>1, <2>2, <2>3, PutLeaves, PutEnds
<1> QED
  BY <1>1, <1>3, <1>4, <1>5, <1>6 DEF C!Versions, C!PutVersion, C!DeleteVersion

\* The tests that ask a Sender for what it does already.
LEMMA PuttingNoOps == ConstraintInv /\ InTime /\ C!NoOp => ConstraintInv'
<1> SUFFICES ASSUME ConstraintInv, InTime, C!NoOp PROVE ConstraintInv'
  OBVIOUS
<1> DEFINE s == C!Subject
<1>1. CASE C!BeginFormat(C!NoOpTest)
  <2>1. \A f \in C!Format : C!NoOpTest[f] \in PutTests \ InputTests
    BY TestNames, KindsOfTests
  <2> QED
    BY <1>1, <2>1, TestNames, FormatBegins
<1>2. ASSUME NEW step, step # "begin", C!On(C!Of(C!NoOpTest), step)
      PROVE  /\ UnderWay /\ Head(at.plan) \in PutTests /\ Head(at.plan) \in NoOpTests /\ at.step = step
             /\ Head(at.plan) \notin VersionTests \cup ReferenceTests \cup InputTests
             /\ Head(at.plan) # "set_up_tests" /\ s \in Sender /\ 0 \in Nat /\ ~C!Ended
             /\ at.tries + 1 \in Nat
  BY <1>2, AtWork, TestNames, KindsOfTests
<1>3. CASE /\ C!On(C!Of(C!NoOpTest), "visit") /\ C!AwaitStatus(s, "unconstrained", "put")
           /\ device' = device /\ noted' = noted
  <2>1. /\ UnderWay /\ Head(at.plan) \in PutTests /\ Head(at.plan) \in NoOpTests /\ at.step = "visit"
        /\ Head(at.plan) \notin VersionTests \cup ReferenceTests \cup InputTests
        /\ Head(at.plan) # "set_up_tests" /\ s \in Sender /\ 0 \in Nat /\ ~C!Ended
        /\ at.tries + 1 \in Nat
    BY <1>2, <1>3
  <2>2. Gently /\ device'.network = device.network /\ noted'.known = noted.known
    BY <1>3, StayingGently
  <2>3. Fit /\ device.pace = "prompt" =>
          /\ Frees(device')
          /\ \A step \in {"visit", "put"} :
                HoldsAt(step, device') /\ NoticedAt(step, device', noted'.flow)
    BY <1>3, <2>1, InPatience DEF HoldsAt, Keeps, Keeping, NoticedAt
  <2>4. C!Step("visit", at.tries + 1) \/ C!Step("put", 0) \/ C!Conclude("FAIL")
    BY <1>3, <2>1, StatusAwaited
  <2> QED
    BY <1>3, <2>1, <2>2, <2>3, <2>4, PutMoves, PutEnds
<1>4. CASE /\ C!On(C!Of(C!NoOpTest), "put") /\ C!Goto("wait") /\ noted' = noted
           /\ device' = C!Constrain(device, s, "same")
  <2>1. /\ UnderWay /\ Head(at.plan) \in PutTests /\ Head(at.plan) \in NoOpTests /\ at.step = "put"
        /\ Head(at.plan) \notin VersionTests \cup ReferenceTests \cup InputTests
        /\ Head(at.plan) # "set_up_tests" /\ s \in Sender /\ 0 \in Nat /\ ~C!Ended
    BY <1>2, <1>4
  <2>2. /\ IsSenderDevice(device) /\ SameKind(device, device) /\ HasFollowed(device)
        /\ "same" \in Wishes
    BY DEF ConstraintInv, ConstraintBasics, SameKind, Wishes
  <2> HIDE DEF s
  <2>3. /\ Gently /\ device'.network = device.network /\ noted'.known = noted.known
        /\ \A x \in Sender : device'.active[x] = IF x = s THEN "same" ELSE device.active[x]
    BY <1>4, <2>1, <2>2, AskingGently
  <2>4. Fit /\ device.pace = "prompt" =>
          HoldsAt("wait", device') /\ NoticedAt("wait", device', noted'.flow)
    <3> SUFFICES ASSUME Fit, device.pace = "prompt"
                 PROVE  HoldsAt("wait", device') /\ NoticedAt("wait", device', noted'.flow)
      OBVIOUS
    <3>1. Frees(device)
      BY <2>1, InPatience DEF HoldsAt, Keeps, Keeping
    <3> QED
      BY <2>1, <2>3, <3>1 DEF HoldsAt, Keeps, Keeping, Puts, Target, NoticedAt, Frees, s
  <2> QED
    BY <1>4, <2>1, <2>3, <2>4, PutMoves DEF C!Goto
<1>5. CASE /\ C!On(C!Of(C!NoOpTest), "wait") /\ C!AwaitStatus(s, "constrained", "compare")
           /\ device' = device /\ noted' = noted
  <2>1. /\ UnderWay /\ Head(at.plan) \in PutTests /\ Head(at.plan) \in NoOpTests /\ at.step = "wait"
        /\ Head(at.plan) \notin VersionTests \cup ReferenceTests \cup InputTests
        /\ Head(at.plan) # "set_up_tests" /\ s \in Sender /\ 0 \in Nat /\ ~C!Ended
        /\ at.tries + 1 \in Nat
    BY <1>2, <1>5
  <2>2. Gently /\ device'.network = device.network /\ noted'.known = noted.known
    BY <1>5, StayingGently
  <2>3. Fit /\ device.pace = "prompt" =>
          /\ HoldsAt("wait", device') /\ NoticedAt("wait", device', noted'.flow)
          /\ HoldsAt("compare", device')
          /\ device.status[s] = "constrained" => NoticedAt("compare", device', noted'.flow)
    BY <1>5, <2>1, InPatience DEF HoldsAt, Keeps, Keeping, NoticedAt, Target
  <2>4. Fit /\ device.pace = "prompt" => device.status[s] \in {"awaiting", "constrained"}
    <3> SUFFICES ASSUME Fit, device.pace = "prompt", device.status[s] # "awaiting"
                 PROVE  device.status[s] = "constrained"
      OBVIOUS
    <3>1. HoldsAt("wait", device) /\ HasFollowed(device) /\ device.fault = "none"
      BY <2>1, InPatience
    <3>2. device.active[s] = "same"
      BY <2>1, <3>1 DEF HoldsAt, Keeps, Keeping, Puts, Target
    <3> QED
      BY <2>1, <3>1, <3>2, Outcomes DEF HasFollowed
  <2>5. \/ C!Step("wait", at.tries + 1)
        \/ device.status[s] = "constrained" /\ C!Step("compare", 0)
        \/ device.pace = "slow" /\ C!Conclude("FAIL")
        \/ device.status[s] \notin {"awaiting", "constrained"} /\ C!Conclude("FAIL")
    BY <1>5, <2>1, StatusAwaited
  <2> QED
    BY <1>5, <2>1, <2>2, <2>3, <2>4, <2>5, PutMoves, PutEnds
<1>6. CASE /\ C!On(C!Of(C!NoOpTest), "compare") /\ device' = device /\ noted' = noted
           /\ C!Check(device.rate[s] = noted.rate[s], "delete")
  <2>1. /\ UnderWay /\ Head(at.plan) \in PutTests /\ Head(at.plan) \in NoOpTests /\ at.step = "compare"
        /\ Head(at.plan) \notin VersionTests \cup ReferenceTests \cup InputTests
        /\ Head(at.plan) # "set_up_tests" /\ s \in Sender /\ 0 \in Nat /\ ~C!Ended
    BY <1>2, <1>6
  <2>2. Gently /\ device'.network = device.network /\ noted'.known = noted.known
    BY <1>6, StayingGently
  <2>3. Fit /\ device.pace = "prompt" =>
          /\ HoldsAt("delete", device') /\ NoticedAt("delete", device', noted'.flow)
          /\ device.rate[s] = noted.rate[s]
    <3> SUFFICES ASSUME Fit, device.pace = "prompt"
                 PROVE  /\ HoldsAt("delete", device') /\ NoticedAt("delete", device', noted'.flow)
                        /\ device.rate[s] = noted.rate[s]
      OBVIOUS
    <3>1. /\ HoldsAt("compare", device) /\ NoticedAt("compare", device, noted.flow)
          /\ HasFollowed(device) /\ device.fault = "none"
          /\ AreNative(noted.rate) \/ ~HasAny(at.plan, PutTests)
      BY <2>1, InPatience
    <3>2. device.active[s] = "same" /\ device.status[s] = "constrained"
      BY <2>1, <3>1 DEF HoldsAt, Keeps, Keeping, Puts, Target, NoticedAt
    <3>3. device.rate[s] = "native"
      BY <2>1, <3>1, <3>2, Outcomes DEF HasFollowed
    <3>4. noted.rate[s] = "native"
      BY <2>1, <3>1, PutsAreFollowed DEF AreNative
    <3> QED
      BY <1>6, <2>1, <3>1, <3>3, <3>4 DEF HoldsAt, Keeps, Keeping, NoticedAt
  <2>4. C!Step("delete", 0) \/ (C!Conclude("FAIL") /\ device.rate[s] # noted.rate[s])
    BY <1>6 DEF C!Check, C!Goto
  <2> QED
    BY <1>6, <2>1, <2>2, <2>3, <2>4, PutMoves, PutEnds
<1> QED
  BY <1>1, <1>3, <1>4, <1>5, <1>6 DEF C!NoOp, C!PutNoOp

\* The DELETE after which these tests are done with a Sender.
LEMMA DeletingAfter == ConstraintInv /\ C!ReleaseAfter => ConstraintInv'
<1> SUFFICES ASSUME ConstraintInv, C!ReleaseAfter PROVE ConstraintInv'
  OBVIOUS
<1> DEFINE s == C!Subject
<1>1. /\ C!On(NoOpTests \cup ReferenceTests, "delete")
      /\ device' = C!Release(device, s) /\ C!Leave /\ noted' = noted
  <2>1. C!Of(C!NoOpTest) \cup C!Of(C!SupportedTest) \cup C!Of(C!PreferenceTest) = NoOpTests \cup ReferenceTests
    BY TestNames
  <2> QED
    BY <2>1 DEF C!ReleaseAfter
<1>2. /\ UnderWay /\ Head(at.plan) \in PutTests /\ at.step = "delete"
      /\ Head(at.plan) \notin InputTests
      /\ Head(at.plan) # "set_up_tests" /\ s \in Sender /\ ~C!Ended
  BY <1>1, AtWork, KindsOfTests
<1>3. /\ Gently /\ device'.network = device.network /\ noted'.known = noted.known
      /\ Fit => \A x \in Sender : device'.active[x] = IF x = s THEN "none" ELSE device.active[x]
  BY <1>1, <1>2, ReleasingGently
<1>4. Fit /\ device.pace = "prompt" => Frees(device')
  <2> SUFFICES ASSUME Fit, device.pace = "prompt" PROVE Frees(device')
    OBVIOUS
  <2>1. HoldsAt("delete", device)
    BY <1>2, InPatience
  <2> QED
    BY <1>2, <1>3, <2>1 DEF HoldsAt, Keeps, Keeping, Target, Frees
<1> QED
  BY <1>1, <1>2, <1>3, <1>4, PutLeaves

\* The tests that ask a Sender for what it supports or prefers.
LEMMA PuttingReferences == ConstraintInv /\ InTime /\ C!Reference => ConstraintInv'
<1> SUFFICES ASSUME ConstraintInv, InTime, C!Reference PROVE ConstraintInv'
  OBVIOUS
<1> DEFINE s == C!Subject
<1>1. CASE C!BeginFormat(C!SupportedTest) \/ C!BeginFormat(C!PreferenceTest)
  <2>1. \A f \in C!Format : /\ C!SupportedTest[f] \in PutTests \ InputTests
                            /\ C!PreferenceTest[f] \in PutTests \ InputTests
    BY TestNames, KindsOfTests
  <2> QED
    BY <1>1, <2>1, TestNames, FormatBegins
<1>2. ASSUME NEW step, step # "begin", C!On(C!ReferenceTests, step)
      PROVE  /\ UnderWay /\ Head(at.plan) \in PutTests /\ Head(at.plan) \in ReferenceTests /\ at.step = step
             /\ Head(at.plan) \notin VersionTests \cup NoOpTests \cup InputTests
             /\ Head(at.plan) # "set_up_tests" /\ s \in Sender /\ 0 \in Nat /\ ~C!Ended
             /\ at.tries + 1 \in Nat
  BY <1>2, AtWork, TestNames, KindsOfTests
<1>3. CASE C!AwaitReference
  <2>0. /\ C!On(C!ReferenceTests, "visit") /\ C!AwaitStatus(s, "unconstrained", "put") /\ device' = device
        /\ noted' = [noted EXCEPT !.flow = device.rate[s]]
    BY <1>3 DEF C!AwaitReference
  <2>1. /\ UnderWay /\ Head(at.plan) \in PutTests /\ Head(at.plan) \in ReferenceTests /\ at.step = "visit"
        /\ Head(at.plan) \notin VersionTests \cup NoOpTests \cup InputTests
        /\ Head(at.plan) # "set_up_tests" /\ s \in Sender /\ 0 \in Nat /\ ~C!Ended
        /\ at.tries + 1 \in Nat
    BY <1>2, <2>0
  <2>2. /\ IsSenderDevice(device) /\ HasFollowed(device) /\ ConstraintRecords
    BY DEF ConstraintInv, ConstraintBasics
  <2>3. noted' = [known |-> noted.known, with |-> noted.with, without |-> noted.without,
                  rate |-> noted.rate, flow |-> device.rate[s]]
    BY <2>0, <2>2 DEF ConstraintRecords
  <2>4. /\ Gently /\ device'.network = device.network /\ noted'.known = noted.known
        /\ noted'.rate = noted.rate /\ noted'.flow = device.rate[s]
    <3>1. ConstraintRecords'
      BY <2>2, <2>3 DEF ConstraintRecords
    <3>2. IsSenderDevice(device)' /\ HasFollowed(device)' /\ (IsSettled(device) => IsSettled(device)')
      BY <2>0, <2>2 DEF IsSenderDevice, HasFollowed, IsSettled, C!Outcome
    <3> QED
      BY <2>0, <2>3, <3>1, <3>2 DEF Gently
  <2>5. Fit /\ device.pace = "prompt" =>
          /\ Frees(device') /\ HoldsAt("visit", device') /\ HoldsAt("put", device')
          /\ NoticedAt("visit", device', noted'.flow)
    BY <2>0, <2>1, InPatience DEF HoldsAt, Keeps, Keeping, NoticedAt
  <2>6. Fit /\ device.pace = "prompt" /\ device.status[s] = "unconstrained" =>
          NoticedAt("put", device', noted'.flow)
    <3> SUFFICES ASSUME Fit, device.pace = "prompt", device.status[s] = "unconstrained"
                 PROVE  NoticedAt("put", device', noted'.flow)
      OBVIOUS
    <3>1. device.active[s] = "none" /\ device.active[s] \in Wishes
      BY <2>0, <2>1, <2>5 DEF Frees, Wishes
    <3>2. device.rate[s] = "native"
      BY <2>1, <2>2, <3>1, Outcomes DEF HasFollowed
    <3> QED
      BY <2>0, <2>1, <2>4, <3>2 DEF NoticedAt
  <2>7. \/ C!Step("visit", at.tries + 1)
        \/ device.status[s] = "unconstrained" /\ C!Step("put", 0)
        \/ C!Conclude("FAIL")
    BY <2>0, <2>1, StatusAwaited
  <2>8. CASE C!Conclude("FAIL")
    <3>1. Head(at.plan) \notin Emptiers \cup {"set_up_tests", "test_02_02_01", "test_02_02_03"}
      BY <2>1, KindsOfTests
    <3> QED
      BY <2>1, <2>4, <2>5, <2>8, <3>1, ConstraintEnds
  <2> QED
    BY <2>1, <2>4, <2>5, <2>6, <2>7, <2>8, PutMoves
<1>4. CASE C!PutReference
  <2> DEFINE wish == CASE C!On({C!PreferenceTest.video}, "put") -> C!PreferredVideo
                       [] C!On({C!PreferenceTest.audio}, "put") -> C!PreferredAudio
                       [] OTHER -> "same"
  <2>0. /\ C!On(C!ReferenceTests, "put") /\ C!Goto("compare") /\ noted' = noted
        /\ device' = C!Constrain(device, s, wish)
    BY <1>4 DEF C!PutReference
  <2>1. /\ UnderWay /\ Head(at.plan) \in PutTests /\ Head(at.plan) \in ReferenceTests /\ at.step = "put"
        /\ Head(at.plan) \notin VersionTests \cup NoOpTests \cup InputTests
        /\ Head(at.plan) # "set_up_tests" /\ s \in Sender /\ 0 \in Nat /\ ~C!Ended
    BY <1>2, <2>0
  <2>2. wish \in {"same", "choice"} /\ wish \in Wishes
    BY DEF C!PreferredVideo, C!PreferredAudio, Wishes
  <2>3. IsSenderDevice(device) /\ SameKind(device, device) /\ HasFollowed(device)
    BY DEF ConstraintInv, ConstraintBasics, SameKind
  <2> HIDE DEF s, wish
  <2>4. /\ Gently /\ device'.network = device.network /\ noted'.known = noted.known
        /\ \A x \in Sender : device'.active[x] = IF x = s THEN wish ELSE device.active[x]
        /\ device.pace # "instant" => device'.rate = device.rate
    BY <2>0, <2>1, <2>2, <2>3, AskingGently
  <2>5. Fit /\ device.pace = "prompt" =>
          HoldsAt("compare", device') /\ NoticedAt("compare", device', noted'.flow)
    <3> SUFFICES ASSUME Fit, device.pace = "prompt"
                 PROVE  HoldsAt("compare", device') /\ NoticedAt("compare", device', noted'.flow)
      OBVIOUS
    <3>1. Frees(device) /\ NoticedAt("put", device, noted.flow)
      BY <2>1, InPatience DEF HoldsAt, Keeps, Keeping
    <3>2. HoldsAt("compare", device')
      BY <2>1, <2>2, <2>4, <3>1 DEF HoldsAt, Keeps, Keeping, Puts, Target, Frees, s
    <3> QED
      BY <2>0, <2>1, <2>4, <3>1, <3>2 DEF NoticedAt
  <2> QED
    BY <2>0, <2>1, <2>4, <2>5, PutMoves DEF C!Goto
<1>5. CASE C!CompareReference
  <2>0. /\ C!On(C!ReferenceTests, "compare") /\ device' = device /\ noted' = noted
        /\ C!Check(device.rate[s] = noted.flow, "delete")
    BY <1>5 DEF C!CompareReference
  <2>1. /\ UnderWay /\ Head(at.plan) \in PutTests /\ Head(at.plan) \in ReferenceTests /\ at.step = "compare"
        /\ Head(at.plan) \notin VersionTests \cup NoOpTests \cup InputTests
        /\ Head(at.plan) # "set_up_tests" /\ s \in Sender /\ 0 \in Nat /\ ~C!Ended
    BY <1>2, <2>0
  <2>2. Gently /\ device'.network = device.network /\ noted'.known = noted.known
    BY <2>0, StayingGently
  <2>3. Fit /\ device.pace = "prompt" =>
          /\ HoldsAt("delete", device') /\ NoticedAt("delete", device', noted'.flow)
          /\ device.rate[s] = noted.flow
    <3> SUFFICES ASSUME Fit, device.pace = "prompt"
                 PROVE  /\ HoldsAt("delete", device') /\ NoticedAt("delete", device', noted'.flow)
                        /\ device.rate[s] = noted.flow
      OBVIOUS
    <3>1. HoldsAt("compare", device) /\ NoticedAt("compare", device, noted.flow)
      BY <2>1, InPatience
    <3> QED
      BY <2>0, <2>1, <3>1 DEF HoldsAt, Keeps, Keeping, NoticedAt
  <2>4. C!Step("delete", 0) \/ (C!Conclude("FAIL") /\ device.rate[s] # noted.flow)
    BY <2>0 DEF C!Check, C!Goto
  <2> QED
    BY <2>0, <2>1, <2>2, <2>3, <2>4, PutMoves, PutEnds
<1> QED
  BY <1>1, <1>3, <1>4, <1>5 DEF C!Reference

LEMMA SortingByInputs == ConstraintInv /\ C!SortByInputs => ConstraintInv'
<1> SUFFICES ASSUME ConstraintInv, C!SortByInputs PROVE ConstraintInv'
  OBVIOUS
<1> DEFINE with == C!SomeOrder({s \in Sender : InputsOf[s] # <<>>})
           without == C!SomeOrder({s \in Sender : InputsOf[s] = <<>>})
<1>1. /\ ~C!Ended /\ Head(at.plan) \in {"test_02_03_00", "test_02_04"} /\ at.step = "begin"
      /\ device' = device /\ \E v : C!Conclude(v)
      /\ noted' = [noted EXCEPT !.with = with] \/ noted' = [noted EXCEPT !.without = without]
  BY DEF C!SortByInputs, C!On
<1>2. with \in Seq(Sender) /\ without \in Seq(Sender)
  BY SenderLists
<1> HIDE DEF with, without
<1>3. IsSenderDevice(device) /\ HasFollowed(device) /\ ConstraintRecords
  BY DEF ConstraintInv, ConstraintBasics
<1>4. \/ noted' = [known |-> noted.known, with |-> with, without |-> noted.without,
                   rate |-> noted.rate, flow |-> noted.flow]
      \/ noted' = [known |-> noted.known, with |-> noted.with, without |-> without,
                   rate |-> noted.rate, flow |-> noted.flow]
  BY <1>1, <1>3 DEF ConstraintRecords
<1>5. ConstraintRecords' /\ noted'.known = noted.known /\ noted'.rate = noted.rate
  BY <1>2, <1>3, <1>4 DEF ConstraintRecords
<1>6. Gently
  <2>1. IsSenderDevice(device)' /\ HasFollowed(device)' /\ (IsSettled(device) => IsSettled(device)')
    BY <1>1, <1>3 DEF IsSenderDevice, HasFollowed, IsSettled, C!Outcome
  <2> QED
    BY <1>1, <1>5, <2>1 DEF Gently
<1>7. Head(at.plan) \notin PutTests \cup Emptiers \cup {"set_up_tests", "test_02_02_01"}
  BY <1>1 DEF PutTests, Emptiers
<1>8. Fit /\ device.pace = "prompt" => Frees(device')
  BY <1>1, <1>7, InPatience
<1>9. PICK v : C!Conclude(v)
  BY <1>1
<1> QED
  BY <1>1, <1>5, <1>6, <1>7, <1>8, <1>9, ConstraintEnds

\* The Inputs of a Sender that can be asked for are Inputs of it.
LEMMA UsableInputsOf ==
    ASSUME NEW s \in Sender
    PROVE  C!Usable(s) \in Seq(C!Range(InputsOf[s]))
<1> DEFINE list == InputsOf[s]
           bad == {k \in DOMAIN InputsOf[s] : InputsOf[s][k] \notin BaseEdid}
           n == IF bad = {} THEN Len(list) ELSE C!Min(bad) - 1
<1>1. PICK Elements : list \in Seq(Elements)
  BY MediaAssumption DEF C!ConstraintTestsAssumption
<1>2. Len(list) \in Nat /\ DOMAIN list = 1..Len(list) /\ bad \subseteq 1..Len(list)
  <2> HIDE DEF list
  <2> QED
    BY <1>1 DEF list
<1> HIDE DEF list, bad
<1>3. n \in 0..Len(list)
  <2>1. CASE bad = {}
    BY <1>2, <2>1
  <2>2. CASE bad # {}
    <3>1. \E k \in bad : \A m \in bad : k <= m
      <4>1. bad \subseteq Nat
        BY <1>2
      <4> QED
        BY <2>2, <4>1, LeastNumber
    <3>2. C!Min(bad) \in bad
      BY <3>1 DEF C!Min
    <3>3. PICK m \in 1..Len(list) : m = C!Min(bad)
      BY <1>2, <3>2
    <3>4. n = m - 1
      BY <2>2, <3>3
    <3> HIDE DEF n
    <3> QED
      BY <1>2, <3>3, <3>4
  <2> QED
    BY <2>1, <2>2
<1> HIDE DEF n
<1> DEFINE usable == SubSeq(list, 1, n)
<1>4. usable = [k \in 1..n |-> list[k]]
  BY <1>1, <1>3
<1>5. \A k \in 1..n : list[k] \in C!Range(list)
  BY <1>2, <1>3 DEF C!Range
<1>6. usable \in Seq(C!Range(list))
  <2> HIDE DEF usable
  <2> QED
    BY <1>3, <1>4, <1>5
<1>7. C!Usable(s) = usable
  BY DEF C!Usable, usable, n, list, bad
<1> HIDE DEF usable
<1> QED
  BY <1>6, <1>7 DEF list

\* The loop over the Inputs of the first Sender.
LEMMA InputsBegin ==
    ASSUME ConstraintInv, NEW f \in C!Format, C!Begin({C!InputTest[f]}, C!Inputs(f))
    PROVE  ConstraintInv'
<1> DEFINE subjects == C!Inputs(f)
<1>1. /\ ~C!Ended /\ Head(at.plan) = C!InputTest[f] /\ at.step = "begin" /\ C!Visit(subjects)
      /\ device' = device /\ noted' = noted
  BY DEF C!Begin, C!On
<1>2. Head(at.plan) \in InputTests /\ Head(at.plan) \in PutTests
  BY <1>1, TestNames, KindsOfTests
<1>3. Head(at.plan) \notin Emptiers \cup {"set_up_tests", "test_02_02_01"}
  BY <1>2, KindsOfTests
<1>4. C!First = Head(C!Known(f))
  BY <1>1 DEF C!First, C!InputTest, C!Format
<1>5. subjects # <<>> => /\ noted.known[f] # <<>> /\ C!First \in Sender
                         /\ subjects \in Seq(C!Range(InputsOf[C!First]))
  <2> SUFFICES ASSUME subjects # <<>>
               PROVE  /\ noted.known[f] # <<>> /\ C!First \in Sender
                      /\ subjects \in Seq(C!Range(InputsOf[C!First]))
    OBVIOUS
  <2>1. noted.known[f] # <<>> /\ subjects = C!Usable(C!First)
    BY <1>4 DEF C!Inputs, C!Known
  <2>2. noted.known[f] \in Seq(Sender)
    BY DEF ConstraintInv, ConstraintBasics, ConstraintRecords
  <2>3. C!First \in Sender
    <3>1. Len(noted.known[f]) \in Nat \ {0} /\ Head(noted.known[f]) = noted.known[f][1]
      BY <2>1, <2>2, RestOfPlan
    <3> QED
      BY <1>4, <2>2, <3>1 DEF C!Known
  <2> QED
    BY <2>1, <2>3, UsableInputsOf
<1> HIDE DEF subjects
<1> QED
  BY <1>1, <1>2, <1>3, <1>5, ConstraintBegins

\* The tests that ask for another rate: one that waits for it must get it.
LEMMA GivingAnotherRate == ConstraintInv /\ InTime /\ C!AnotherRate => ConstraintInv'
<1> SUFFICES ASSUME ConstraintInv, InTime, C!AnotherRate PROVE ConstraintInv'
  OBVIOUS
<1> DEFINE i == C!Subject  s == C!First
<1>1. CASE \E f \in DOMAIN C!InputTest : C!Begin({C!InputTest[f]}, C!Inputs(f))
  BY <1>1, TestNames, InputsBegin
<1>2. ASSUME NEW step, step # "begin", C!On(C!Of(C!InputTest), step)
      PROVE  /\ UnderWay /\ Head(at.plan) \in PutTests /\ Head(at.plan) \in InputTests /\ at.step = step
             /\ Head(at.plan) \notin VersionTests \cup NoOpTests \cup ReferenceTests
             /\ Head(at.plan) # "set_up_tests" /\ s \in Sender /\ 0 \in Nat /\ ~C!Ended
             /\ at.tries + 1 \in Nat /\ i \in C!Range(InputsOf[s])
  BY <1>2, AtWork, TestNames, KindsOfTests, Subjects
<1>3. CASE /\ C!On(C!Of(C!InputTest), "visit") /\ noted' = noted
           /\ IF device.able = "refuses"
              THEN C!Conclude("FAIL") /\ device' = device
              ELSE /\ device' = C!Constrain(C!Seen(C!Seen(device, i), s), s, "other")
                   /\ C!Goto("changed")
  <2> DEFINE d == C!Seen(C!Seen(device, i), s)
  <2>1. /\ UnderWay /\ Head(at.plan) \in PutTests /\ Head(at.plan) \in InputTests /\ at.step = "visit"
        /\ Head(at.plan) \notin VersionTests \cup NoOpTests \cup ReferenceTests
        /\ Head(at.plan) # "set_up_tests" /\ s \in Sender /\ 0 \in Nat /\ ~C!Ended
        /\ at.tries + 1 \in Nat /\ i \in C!Range(InputsOf[s])
    BY <1>2, <1>3
  <2>2. CASE device.able = "refuses" /\ C!Conclude("FAIL") /\ device' = device
    BY <1>3, <2>1, <2>2, StayingGently, PutEnds DEF Fit, C!Conforming
  <2>3. CASE device' = C!Constrain(d, s, "other") /\ C!Goto("changed")
    <3> DEFINE c == C!Seen(device, i)
    <3>1. /\ IsSenderDevice(c) /\ SameKind(device, c) /\ HasFollowed(c)
          /\ IsSettled(device) => IsSettled(c)
          /\ c.active = device.active /\ c.status = device.status /\ c.rate = device.rate
      BY Looking, Zenon DEF ConstraintInv, ConstraintBasics
    <3> HIDE DEF c
    <3>2. /\ IsSenderDevice(d) /\ SameKind(c, d) /\ HasFollowed(d)
          /\ IsSettled(c) => IsSettled(d)
          /\ d.active = c.active /\ d.status = c.status /\ d.rate = c.rate
      <4>1. d = C!Seen(c, s)
        BY DEF c
      <4> HIDE DEF d, s
      <4> DEFINE e == C!Seen(c, s)
      <4>2. /\ IsSenderDevice(e) /\ SameKind(c, e) /\ HasFollowed(e)
            /\ IsSettled(c) => IsSettled(e)
            /\ e.active = c.active /\ e.status = c.status /\ e.rate = c.rate
        BY <3>1, Looking, Zenon
      <4> QED
        BY <4>1, <4>2, Zenon
    <3> HIDE DEF d, s
    <3>3. SameKind(device, d) /\ d.active = device.active /\ d.rate = device.rate /\ "other" \in Wishes
      BY <3>1, <3>2 DEF SameKind, Wishes
    <3>4. /\ Gently /\ device'.network = device.network /\ noted'.known = noted.known
          /\ \A x \in Sender : device'.active[x] = IF x = s THEN "other" ELSE device.active[x]
          /\ device.fault = "none" => {s} \cup C!Range(InputsOf[s]) \subseteq device'.changed
      BY <1>3, <2>1, <2>3, <3>1, <3>2, <3>3, AskingGently
    <3>5. Fit /\ device.pace = "prompt" =>
            HoldsAt("changed", device') /\ NoticedAt("changed", device', noted'.flow)
      <4> SUFFICES ASSUME Fit, device.pace = "prompt"
                   PROVE  HoldsAt("changed", device') /\ NoticedAt("changed", device', noted'.flow)
        OBVIOUS
      <4>1. Frees(device) /\ device.fault = "none"
        BY <2>1, InPatience DEF HoldsAt, Keeps, Keeping
      <4> QED
        BY <2>1, <3>4, <4>1 DEF HoldsAt, Keeps, Keeping, Puts, Target, NoticedAt, Frees, s
    <3> QED
      BY <1>3, <2>1, <2>3, <3>4, <3>5, PutMoves DEF C!Goto
  <2> QED
    BY <1>3, <2>2, <2>3
<1>4. CASE /\ C!On(C!Of(C!InputTest), "changed") /\ device' = device /\ noted' = noted
           /\ C!Check(i \in device.changed, "stable")
  <2>1. /\ UnderWay /\ Head(at.plan) \in PutTests /\ Head(at.plan) \in InputTests /\ at.step = "changed"
        /\ Head(at.plan) \notin VersionTests \cup NoOpTests \cup ReferenceTests
        /\ Head(at.plan) # "set_up_tests" /\ s \in Sender /\ 0 \in Nat /\ ~C!Ended
        /\ at.tries + 1 \in Nat /\ i \in C!Range(InputsOf[s])
    BY <1>2, <1>4
  <2>2. Gently /\ device'.network = device.network /\ noted'.known = noted.known
    BY <1>4, StayingGently
  <2>3. Fit /\ device.pace = "prompt" =>
          /\ i \in device.changed
          /\ HoldsAt("stable", device') /\ NoticedAt("stable", device', noted'.flow)
    BY <1>4, <2>1, InPatience DEF HoldsAt, Keeps, Keeping, NoticedAt
  <2>4. C!Step("stable", 0) \/ (C!Conclude("FAIL") /\ i \notin device.changed)
    BY <1>4 DEF C!Check, C!Goto
  <2> QED
    BY <1>4, <2>1, <2>2, <2>3, <2>4, PutMoves, PutEnds
<1>5. CASE C!StableVersion
  <2>0. /\ C!On(C!Of(C!InputTest), "stable") /\ device' = C!Seen(device, s) /\ noted' = noted
        /\ C!Step("stable", 0) \/ C!Step("stable", at.tries + 1) \/ C!Step("status", 0)
    BY <1>5 DEF C!StableVersion, C!Goto
  <2>1. /\ UnderWay /\ Head(at.plan) \in PutTests /\ Head(at.plan) \in InputTests /\ at.step = "stable"
        /\ Head(at.plan) \notin VersionTests \cup NoOpTests \cup ReferenceTests
        /\ Head(at.plan) # "set_up_tests" /\ s \in Sender /\ 0 \in Nat /\ ~C!Ended
        /\ at.tries + 1 \in Nat /\ i \in C!Range(InputsOf[s])
    BY <1>2, <2>0
  <2>2. /\ Gently /\ device'.network = device.network /\ noted'.known = noted.known
        /\ device'.active = device.active
    BY <2>0, SeeingGently
  <2>3. Fit /\ device.pace = "prompt" =>
          \A step \in {"stable", "status"} :
             HoldsAt(step, device') /\ NoticedAt(step, device', noted'.flow)
    <3> SUFFICES ASSUME Fit, device.pace = "prompt", NEW step \in {"stable", "status"}
                 PROVE  HoldsAt(step, device') /\ NoticedAt(step, device', noted'.flow)
      OBVIOUS
    <3>1. HoldsAt("stable", device)
      BY <2>1, InPatience
    <3> QED
      BY <2>1, <2>2, <3>1 DEF HoldsAt, Keeps, Keeping, NoticedAt
  <2> QED
    BY <2>0, <2>1, <2>2, <2>3, PutMoves
<1>6. CASE C!RateStatus
  <2>0. /\ C!On(C!Of(C!InputTest), "status") /\ device' = device /\ noted' = noted
        /\ \/ device.status[s] = "violation" /\ C!Conclude("UNCLEAR")
           \/ C!AwaitStatus(s, "constrained", "compare")
    BY <1>6 DEF C!RateStatus
  <2>1. /\ UnderWay /\ Head(at.plan) \in PutTests /\ Head(at.plan) \in InputTests /\ at.step = "status"
        /\ Head(at.plan) \notin VersionTests \cup NoOpTests \cup ReferenceTests
        /\ Head(at.plan) # "set_up_tests" /\ s \in Sender /\ 0 \in Nat /\ ~C!Ended
        /\ at.tries + 1 \in Nat /\ i \in C!Range(InputsOf[s])
    BY <1>2, <2>0
  <2>2. Gently /\ device'.network = device.network /\ noted'.known = noted.known
    BY <2>0, StayingGently
  <2>3. Fit /\ device.pace = "prompt" =>
          /\ HoldsAt("status", device') /\ NoticedAt("status", device', noted'.flow)
          /\ HoldsAt("compare", device')
          /\ device.status[s] = "constrained" => NoticedAt("compare", device', noted'.flow)
    BY <2>0, <2>1, InPatience DEF HoldsAt, Keeps, Keeping, NoticedAt, Target
  <2>4. Fit /\ device.pace = "prompt" => device.status[s] \in {"awaiting", "constrained"}
    <3> SUFFICES ASSUME Fit, device.pace = "prompt", device.status[s] # "awaiting"
                 PROVE  device.status[s] = "constrained"
      OBVIOUS
    <3>1. /\ HoldsAt("status", device) /\ HasFollowed(device)
          /\ device.fault = "none" /\ device.able = "yes"
      BY <2>1, InPatience
    <3>2. device.active[s] = "other"
      BY <2>1, <3>1 DEF HoldsAt, Keeps, Keeping, Puts, Target
    <3> QED
      BY <2>1, <3>1, <3>2, Outcomes DEF HasFollowed
  <2>5. \/ C!Step("status", at.tries + 1)
        \/ device.status[s] = "constrained" /\ C!Step("compare", 0)
        \/ device.pace = "slow" /\ C!Conclude("FAIL")
        \/ device.status[s] \notin {"awaiting", "constrained"} /\ \E v : C!Conclude(v)
    BY <2>0, <2>1, StatusAwaited
  <2> QED
    BY <2>0, <2>1, <2>2, <2>3, <2>4, <2>5, PutMoves, PutEnds
<1>7. CASE /\ C!On(C!Of(C!InputTest), "compare") /\ device' = device /\ noted' = noted
           /\ C!Check(device.rate[s] # noted.rate[s], "delete")
  <2>1. /\ UnderWay /\ Head(at.plan) \in PutTests /\ Head(at.plan) \in InputTests /\ at.step = "compare"
        /\ Head(at.plan) \notin VersionTests \cup NoOpTests \cup ReferenceTests
        /\ Head(at.plan) # "set_up_tests" /\ s \in Sender /\ 0 \in Nat /\ ~C!Ended
        /\ at.tries + 1 \in Nat /\ i \in C!Range(InputsOf[s])
    BY <1>2, <1>7
  <2>2. Gently /\ device'.network = device.network /\ noted'.known = noted.known
    BY <1>7, StayingGently
  <2>3. Fit /\ device.pace = "prompt" =>
          /\ HoldsAt("delete", device') /\ NoticedAt("delete", device', noted'.flow)
          /\ device.rate[s] # noted.rate[s]
    <3> SUFFICES ASSUME Fit, device.pace = "prompt"
                 PROVE  /\ HoldsAt("delete", device') /\ NoticedAt("delete", device', noted'.flow)
                        /\ device.rate[s] # noted.rate[s]
      OBVIOUS
    <3>1. /\ HoldsAt("compare", device) /\ NoticedAt("compare", device, noted.flow)
          /\ HasFollowed(device) /\ device.fault = "none" /\ device.able = "yes"
          /\ AreNative(noted.rate) \/ ~HasAny(at.plan, PutTests)
      BY <2>1, InPatience
    <3>2. device.active[s] = "other" /\ device.status[s] = "constrained"
      BY <2>1, <3>1 DEF HoldsAt, Keeps, Keeping, Puts, Target, NoticedAt
    <3>3. device.rate[s] = "another"
      BY <2>1, <3>1, <3>2, Outcomes DEF HasFollowed
    <3>4. noted.rate[s] = "native"
      BY <2>1, <3>1, PutsAreFollowed DEF AreNative
    <3> QED
      BY <1>7, <2>1, <3>1, <3>3, <3>4 DEF HoldsAt, Keeps, Keeping, NoticedAt
  <2>4. C!Step("delete", 0) \/ (C!Conclude("FAIL") /\ ~(device.rate[s] # noted.rate[s]))
    BY <1>7 DEF C!Check, C!Goto
  <2> QED
    BY <1>7, <2>1, <2>2, <2>3, <2>4, PutMoves, PutEnds
<1>8. CASE /\ C!On(C!Of(C!InputTest), "delete") /\ device' = C!Release(device, s)
           /\ C!Leave /\ noted' = noted
  <2>1. /\ UnderWay /\ Head(at.plan) \in PutTests /\ Head(at.plan) \in InputTests /\ at.step = "delete"
        /\ Head(at.plan) \notin VersionTests \cup NoOpTests \cup ReferenceTests
        /\ Head(at.plan) # "set_up_tests" /\ s \in Sender /\ 0 \in Nat /\ ~C!Ended
        /\ at.tries + 1 \in Nat /\ i \in C!Range(InputsOf[s])
    BY <1>2, <1>8
  <2>2. /\ Gently /\ device'.network = device.network /\ noted'.known = noted.known
        /\ Fit => \A x \in Sender : device'.active[x] = IF x = s THEN "none" ELSE device.active[x]
    BY <1>8, <2>1, ReleasingGently
  <2>3. Fit /\ device.pace = "prompt" => Frees(device')
    <3> SUFFICES ASSUME Fit, device.pace = "prompt" PROVE Frees(device')
      OBVIOUS
    <3>1. HoldsAt("delete", device)
      BY <2>1, InPatience
    <3> QED
      BY <2>1, <2>2, <3>1 DEF HoldsAt, Keeps, Keeping, Target, Frees
  <2> QED
    BY <1>8, <2>1, <2>2, <2>3, PutLeaves
<1> QED
  BY <1>1, <1>3, <1>4, <1>5, <1>6, <1>7, <1>8 DEF C!AnotherRate, C!PutRate, C!CompareRate

LEMMA LookingWithoutInputs == ConstraintInv /\ C!WithoutInputs => ConstraintInv'
<1> SUFFICES ASSUME ConstraintInv, C!WithoutInputs PROVE ConstraintInv'
  OBVIOUS
<1>1. CASE C!Begin({"test_02_04_01"}, noted.without)
  <2>1. noted.without \in Seq(Sender)
    BY DEF ConstraintInv, ConstraintBasics, ConstraintRecords
  <2> QED
    BY <1>1, <2>1, ListBegins DEF PutTests, Emptiers
<1>2. CASE /\ C!On({"test_02_04_01"}, "visit") /\ device' = device /\ noted' = noted
           /\ C!Leave \/ C!Conclude("FAIL")
  <2>1. /\ ~C!Ended /\ UnderWay /\ Head(at.plan) = "test_02_04_01"
    BY <1>2 DEF C!On, UnderWay
  <2>2. Head(at.plan) \notin PutTests \cup Emptiers
    BY <2>1 DEF PutTests, Emptiers
  <2>3. Fit /\ device.pace = "prompt" => Frees(device')
    BY <1>2, <2>1, <2>2, InPatience
  <2> QED
    BY <1>2, <2>1, <2>2, <2>3, StayingGently, ConstraintLeaves, ConstraintEnds
<1> QED
  BY <1>1, <1>2 DEF C!WithoutInputs

LEMMA PuttingUnknown == ConstraintInv /\ C!Unknown => ConstraintInv'
<1> SUFFICES ASSUME ConstraintInv, C!Unknown PROVE ConstraintInv'
  OBVIOUS
<1> DEFINE s == C!Subject
<1>1. CASE C!Begin({"test_06_01"}, C!Senders)
  BY <1>1, SendersBegin DEF PutTests
<1>2. CASE /\ C!On({"test_06_01"}, "visit") /\ noted' = noted
           /\ IF device.fault = "lax"
              THEN device' = C!Constrain(device, s, "other") /\ C!Conclude("FAIL")
              ELSE C!Leave /\ device' = device
  <2>1. /\ ~C!Ended /\ UnderWay /\ Head(at.plan) = "test_06_01"
    BY <1>2 DEF C!On, UnderWay
  <2>2. Head(at.plan) \notin PutTests \cup Emptiers \cup InputTests
    BY <2>1 DEF PutTests, Emptiers, InputTests
  <2>3. CASE device.fault = "lax" /\ device' = C!Constrain(device, s, "other") /\ C!Conclude("FAIL")
    <3>1. /\ IsSenderDevice(device) /\ SameKind(device, device) /\ HasFollowed(device)
          /\ s \in Sender /\ "other" \in Wishes
      BY <2>1, <2>2, Subjects DEF ConstraintInv, ConstraintBasics, SameKind, Wishes
    <3> HIDE DEF s
    <3>2. Gently /\ device'.network = device.network /\ noted'.known = noted.known
      BY <1>2, <2>3, <3>1, AskingGently
    <3>3. ~Fit
      BY <2>3 DEF Fit, C!Conforming
    <3> QED
      BY <2>1, <2>3, <3>2, <3>3, ConstraintEnds
  <2>4. CASE C!Leave /\ device' = device
    <3>1. Fit /\ device.pace = "prompt" => Frees(device')
      BY <2>1, <2>2, <2>4, InPatience
    <3> QED
      BY <1>2, <2>1, <2>2, <2>4, <3>1, StayingGently, ConstraintLeaves
  <2> QED
    BY <1>2, <2>3, <2>4
<1> QED
  BY <1>1, <1>2 DEF C!Unknown

\* test_06_02 and test_06_03: the Senders they have passed are free.
LEMMA Emptying == ConstraintInv /\ C!Emptied => ConstraintInv'
<1> SUFFICES ASSUME ConstraintInv, C!Emptied PROVE ConstraintInv'
  OBVIOUS
<1> DEFINE s == C!Subject
<1>0. Emptiers \cap (PutTests \cup InputTests \cup {"set_up_tests", "test_02_02_01", "test_02_02_03"}) = {}
  BY DEF Emptiers, PutTests, InputTests
<1>1. CASE C!Begin(Emptiers, C!Senders)
  BY <1>0, <1>1, SendersBegin
<1>2. CASE /\ C!On(Emptiers, "visit") /\ C!Goto("look") /\ noted' = noted
           /\ device' = C!Constrain(device, s, "none") \/ device' = C!Release(device, s)
  <2>1. /\ ~C!Ended /\ UnderWay /\ Head(at.plan) \in Emptiers /\ at.step = "visit" /\ 0 \in Nat
    BY <1>2 DEF C!On, UnderWay
  <2>2. Head(at.plan) \notin PutTests \cup InputTests \cup {"set_up_tests", "test_02_02_01", "test_02_02_03"}
    BY <1>0, <2>1
  <2>3. /\ IsSenderDevice(device) /\ SameKind(device, device) /\ HasFollowed(device)
        /\ s \in Sender /\ "none" \in Wishes
    BY <2>1, <2>2, Subjects DEF ConstraintInv, ConstraintBasics, SameKind, Wishes
  <2> HIDE DEF s
  <2>4. /\ Gently /\ device'.network = device.network /\ noted'.known = noted.known
        /\ Fit => \A x \in Sender : device'.active[x] = IF x = s THEN "none" ELSE device.active[x]
    <3>1. CASE device' = C!Constrain(device, s, "none")
      BY <1>2, <2>3, <3>1, AskingGently
    <3>2. CASE device' = C!Release(device, s)
      BY <1>2, <2>3, <3>2, ReleasingGently
    <3> QED
      BY <1>2, <3>1, <3>2
  <2>5. Fit /\ device.pace = "prompt" =>
          /\ HoldsAt("look", device') /\ NoticedAt("look", device', noted'.flow)
          /\ SettledAt("look", device')
    <3> SUFFICES ASSUME Fit, device.pace = "prompt"
                 PROVE  /\ HoldsAt("look", device') /\ NoticedAt("look", device', noted'.flow)
                        /\ SettledAt("look", device')
      OBVIOUS
    <3>1. Frees(device)
      BY <2>1, <2>2, InPatience
    <3> QED
      BY <2>2, <2>4, <3>1 DEF HoldsAt, Keeps, Keeping, NoticedAt, SettledAt, Frees
  <2> QED
    BY <1>2, <2>1, <2>2, <2>3, <2>4, <2>5, ConstraintMoves DEF C!Goto, s
<1>3. CASE /\ C!On(Emptiers, "look") /\ device' = device /\ noted' = noted
           /\ \/ C!Leave
              \/ /\ device.active[s] # "none" \/ device.status[s] # "unconstrained"
                 /\ \E v : C!Conclude(v)
  <2>1. /\ ~C!Ended /\ UnderWay /\ Head(at.plan) \in Emptiers /\ at.step = "look"
    BY <1>3 DEF C!On, UnderWay
  <2>2. Head(at.plan) \notin PutTests \cup InputTests \cup {"set_up_tests", "test_02_02_01", "test_02_02_03"}
    BY <1>0, <2>1
  <2>3. Gently /\ device'.network = device.network /\ noted'.known = noted.known
    BY <1>3, StayingGently
  <2>4. Fit /\ device.pace = "prompt" => Frees(device')
    BY <1>3, <2>1, <2>2, InPatience
  <2>5. Fit /\ device.pace = "instant" =>
          device.active[s] = "none" /\ device.status[s] = "unconstrained"
    <3> SUFFICES ASSUME Fit, device.pace = "instant"
                 PROVE  device.active[s] = "none" /\ device.status[s] = "unconstrained"
      OBVIOUS
    <3>1. Quick /\ SetUpDone /\ HasFollowed(device) /\ s \in Sender
      BY <2>1, <2>2, Subjects DEF ConstraintInv, ConstraintBasics, SetUpDone
    <3>2. device.active[s] = "none" /\ device.status[s] # "awaiting"
      BY <2>1, <3>1 DEF Quick, IsSettled
    <3> QED
      BY <3>1, <3>2, Outcomes DEF HasFollowed
  <2>6. CASE C!Leave
    BY <1>3, <2>1, <2>2, <2>3, <2>4, <2>6, ConstraintLeaves
  <2>7. CASE /\ device.active[s] # "none" \/ device.status[s] # "unconstrained"
             /\ \E v : C!Conclude(v)
    <3>1. PICK v : C!Conclude(v)
      BY <2>7
    <3> QED
      BY <1>3, <2>1, <2>2, <2>3, <2>4, <2>5, <2>7, <3>1, ConstraintEnds
  <2> QED
    BY <1>3, <2>6, <2>7
<1>4. \/ C!Begin(Emptiers, C!Senders)
      \/ /\ C!On(Emptiers, "visit") /\ C!Goto("look") /\ noted' = noted
         /\ device' = C!Constrain(device, s, "none") \/ device' = C!Release(device, s)
      \/ /\ C!On(Emptiers, "look") /\ device' = device /\ noted' = noted
         /\ \/ C!Leave
            \/ /\ device.active[s] # "none" \/ device.status[s] # "unconstrained"
               /\ \E v : C!Conclude(v)
  BY DEF C!Emptied, Emptiers
<1> QED
  BY <1>1, <1>2, <1>3, <1>4

LEMMA TearingDown == ConstraintInv /\ C!TearDown => ConstraintInv'
<1> SUFFICES ASSUME ConstraintInv, C!TearDown PROVE ConstraintInv'
  OBVIOUS
<1>1. /\ ~C!Ended /\ Head(at.plan) = "tear_down_tests" /\ C!Conclude("PASS")
      /\ device' = device /\ noted' = noted
  BY DEF C!TearDown, C!On
<1>2. Head(at.plan) \notin PutTests \cup Emptiers
  BY <1>1 DEF PutTests, Emptiers
<1>3. Fit /\ device.pace = "prompt" => Frees(device')
  BY <1>1, <1>2, InPatience
<1> QED
  BY <1>1, <1>2, <1>3, StayingGently, ConstraintEnds

LEMMA Hiccuping == ConstraintInv /\ C!Hiccup => ConstraintInv'
<1> SUFFICES ASSUME ConstraintInv, C!Hiccup PROVE ConstraintInv'
  OBVIOUS
<1>1. /\ ~C!Ended /\ device.network = "failing" /\ noted' = noted
      /\ device' = [device EXCEPT !.network = "failed"]
  BY DEF C!Hiccup
<1>2. IsSenderDevice(device) /\ HasFollowed(device) /\ ConstraintRecords /\ IsRun
  BY DEF ConstraintInv, ConstraintBasics
<1>3. device' = [fault |-> device.fault, able |-> device.able, pace |-> device.pace,
                 network |-> "failed", active |-> device.active, status |-> device.status,
                 rate |-> device.rate, changed |-> device.changed]
  BY <1>1, <1>2 DEF IsSenderDevice
<1>4. /\ device'.fault = device.fault /\ device'.able = device.able /\ device'.pace = device.pace
      /\ device'.network = "failed" /\ device'.active = device.active
      /\ device'.status = device.status /\ device'.rate = device.rate
      /\ device'.changed = device.changed
  BY <1>3
<1>5. Gently
  <2>1. IsSenderDevice(device)'
    BY <1>2, <1>3, <1>4 DEF IsSenderDevice
  <2>2. HasFollowed(device)'
    <3>1. ASSUME NEW s \in Sender PROVE C!Outcome(device, s)' = C!Outcome(device, s)
      BY <1>4 DEF C!Outcome
    <3> QED
      BY <1>2, <1>4, <3>1 DEF HasFollowed
  <2>3. IsSettled(device) => IsSettled(device)'
    BY <1>4 DEF IsSettled
  <2>4. ConstraintRecords'
    BY <1>1, <1>2 DEF ConstraintRecords
  <2> QED
    BY <1>1, <1>4, <2>1, <2>2, <2>3, <2>4 DEF Gently
<1>6. Fit => device.pace = "instant" /\ ConstraintTearDown
  BY <1>1 DEF ConstraintInv
<1>7. CASE Head(at.plan) # "set_up_tests"
  <2>1. C!Conclude("FAIL")
    BY <1>7 DEF C!Hiccup
  <2> QED
    BY <1>1, <1>4, <1>5, <1>6, <1>7, <2>1, ConstraintEnds
<1>8. CASE Head(at.plan) = "set_up_tests"
  <2>1. at' = [plan |-> <<>>, step |-> "begin", todo |-> <<>>, tries |-> 0] /\ verdict' = verdict
    BY <1>8 DEF C!Hiccup, C!Abort, C!Position
  <2>2. C!Ended' /\ ~UnderWay' /\ ~SetUpDone'
    BY <2>1 DEF C!Ended, UnderWay, SetUpDone
  <2>3. IsRun'
    BY <1>2, <2>1 DEF IsRun, IsPlan
  <2>4. InOrder'
    BY <2>1, <2>2 DEF InOrder, Whole
  <2>5. ConstraintBasics'
    BY <1>5, <2>2, <2>3, <2>4 DEF ConstraintBasics, Gently, SenderTodo
  <2>6. Fit => ConstraintTearDown' /\ Quick'
    BY <1>1, <1>6, <2>1, <2>2 DEF ConstraintTearDown, Quick
  <2> QED
    BY <1>4, <1>5, <1>6, <2>5, <2>6, FitForEver DEF ConstraintInv
<1> QED
  BY <1>7, <1>8

\* A Sender settles between two steps of a test.
LEMMA SettlingLater == ConstraintInv /\ (\E s \in Sender : C!Settle(s)) => ConstraintInv'
<1> SUFFICES ASSUME ConstraintInv, NEW s \in Sender, C!Settle(s) PROVE ConstraintInv'
  OBVIOUS
<1> DEFINE e == C!Settled(device, s)
<1>1. /\ device.status[s] = "awaiting" /\ device' = e
      /\ at' = at /\ noted' = noted /\ verdict' = verdict
  BY DEF C!Settle
<1>2. IsSenderDevice(device) /\ HasFollowed(device) /\ ConstraintRecords
  BY DEF ConstraintInv, ConstraintBasics
<1>3. /\ IsSenderDevice(e) /\ SameKind(device, e) /\ HasFollowed(e)
      /\ IsSettled(device) => IsSettled(e)
      /\ e.active = device.active /\ device.changed \subseteq e.changed
      /\ \A x \in Sender \ {s} : e.status[x] = device.status[x] /\ e.rate[x] = device.rate[x]
      /\ e.status[s] = C!Outcome(device, s).status /\ e.rate[s] = C!Outcome(device, s).rate
  BY <1>2, Following, Zenon
<1> HIDE DEF e
<1>4. Gently /\ device'.network = device.network
  <2>1. IsSenderDevice(device)'
    BY <1>1, <1>3 DEF IsSenderDevice
  <2>2. HasFollowed(device)'
    <3>1. ASSUME NEW x \in Sender PROVE C!Outcome(device, x)' = C!Outcome(e, x)
      BY <1>1 DEF C!Outcome
    <3> QED
      BY <1>1, <1>3, <3>1 DEF HasFollowed
  <2>3. IsSettled(device) => IsSettled(device)'
    BY <1>1, <1>3 DEF IsSettled
  <2>4. ConstraintRecords'
    BY <1>1, <1>2 DEF ConstraintRecords
  <2> QED
    BY <1>1, <1>3, <2>1, <2>2, <2>3, <2>4 DEF Gently, SameKind
<1>5. /\ C!Ended' = C!Ended /\ UnderWay' = UnderWay /\ SetUpDone' = SetUpDone
      /\ C!First' = C!First /\ C!Subject' = C!Subject
  BY <1>1 DEF C!Ended, UnderWay, SetUpDone, C!First, C!Known, C!Subject
<1>6. ConstraintBasics'
  <2>1. IsRun' /\ InOrder' /\ SenderTodo'
    BY <1>1, <1>5 DEF ConstraintInv, ConstraintBasics, IsRun, IsPlan, InOrder, SenderTodo
  <2> QED
    BY <1>4, <2>1 DEF ConstraintBasics, Gently
<1> SUFFICES ASSUME Fit
             PROVE  /\ ConstraintTearDown'
                    /\ device'.network # "fine" => device'.pace = "instant"
                    /\ device'.pace = "instant" => Quick'
                    /\ device'.pace = "prompt" => Patient'
  BY <1>4, <1>6, FitForEver DEF ConstraintInv
<1>7. /\ ConstraintTearDown /\ (device.network # "fine" => device.pace = "instant")
      /\ device.pace = "instant" => Quick
      /\ device.pace = "prompt" => Patient
  BY DEF ConstraintInv
<1>8. ConstraintTearDown'
  BY <1>1, <1>3, <1>5, <1>7 DEF ConstraintTearDown, Frees
<1>9. ASSUME device.pace = "instant" PROVE Quick'
  BY <1>1, <1>3, <1>4, <1>5, <1>7, <1>9 DEF Quick, IsSettled
<1>10. ASSUME device.pace = "prompt", SetUpDone
       PROVE  HoldsAt(at.step, device)' /\ NoticedAt(at.step, device, noted.flow)' /\ SettledAt(at.step, device)'
  <2>1. /\ HoldsAt(at.step, device) /\ NoticedAt(at.step, device, noted.flow)
        /\ SettledAt(at.step, device) /\ device.fault = "none"
    BY <1>7, <1>10 DEF Patient, Fit, C!Conforming
  <2>2. Target' = Target /\ Puts' = Puts /\ Keeps(at.step)' = Keeps(at.step)
    BY <1>1, <1>5 DEF Target, Puts, Keeps
  <2>3. HoldsAt(at.step, device)'
    BY <1>1, <1>3, <2>1, <2>2 DEF HoldsAt, Frees
  <2>4. NoticedAt(at.step, device, noted.flow)'
    <3>1. UnderWay => (Head(at.plan) \in InputTests => C!First \in Sender)
                      /\ (Head(at.plan) \notin InputTests => C!Subject \in Sender)
      BY Subjects
    <3>2. Head(at.plan) \in VersionTests \cup InputTests /\ at.step = "changed" =>
            C!Subject \in device'.changed
      BY <1>1, <1>3, <2>1 DEF NoticedAt
    <3>3. Head(at.plan) \in NoOpTests \cup InputTests /\ at.step = "compare" =>
            device'.status[Target] = "constrained"
      <4> SUFFICES ASSUME Head(at.plan) \in NoOpTests \cup InputTests, at.step = "compare"
                   PROVE  device'.status[Target] = "constrained"
        OBVIOUS
      <4>1. Target \in Sender /\ device.status[Target] = "constrained"
        BY <1>10, <2>1, <3>1 DEF Target, NoticedAt, SetUpDone, UnderWay
      <4> QED
        BY <1>1, <1>3, <4>1
    <3>4. Head(at.plan) \in ReferenceTests /\ at.step \in {"put", "compare"} =>
            noted.flow = "native" /\ device'.rate[C!Subject] = "native"
      <4> SUFFICES ASSUME Head(at.plan) \in ReferenceTests, at.step \in {"put", "compare"}
                   PROVE  noted.flow = "native" /\ device'.rate[C!Subject] = "native"
        OBVIOUS
      <4>1. Head(at.plan) \notin InputTests /\ Head(at.plan) \in PutTests
        BY KindsOfTests
      <4>2. C!Subject \in Sender /\ noted.flow = "native" /\ device.rate[C!Subject] = "native"
        BY <1>10, <2>1, <3>1, <4>1 DEF NoticedAt, SetUpDone, UnderWay
      <4>3. device.active[C!Subject] \in {"none", "same", "choice"}
        BY <2>1, <4>1, <4>2 DEF HoldsAt, Keeps, Keeping, Puts, Target, Frees
      <4>4. C!Outcome(device, C!Subject).rate = "native"
        BY <2>1, <4>2, <4>3, Outcomes DEF Wishes
      <4> QED
        BY <1>1, <1>3, <4>2, <4>4
    <3> QED
      BY <1>1, <1>5, <2>2, <3>2, <3>3, <3>4 DEF NoticedAt
  <2>5. SettledAt(at.step, device)'
    BY <1>1, <1>3, <1>5, <2>1 DEF SettledAt
  <2> QED
    BY <2>3, <2>4, <2>5
<1>11. ASSUME device.pace = "prompt" PROVE Patient'
  BY <1>1, <1>5, <1>7, <1>10, <1>11 DEF Patient, AreNative
<1> QED
  BY <1>4, <1>7, <1>8, <1>9, <1>11 DEF Gently

\* Set up releases every Sender of a device whose constraints do not stick.
LEMMA SettingUp == ConstraintInv /\ C!SetUp => ConstraintInv'
<1> SUFFICES ASSUME ConstraintInv, C!SetUp PROVE ConstraintInv'
  OBVIOUS
<1>1. /\ ~C!Ended /\ Head(at.plan) = "set_up_tests" /\ C!Conclude("PASS") /\ noted' = noted
      /\ device' = IF device.pace = "instant" THEN C!ReleaseAll(C!Settled) ELSE C!ReleaseAll(C!Awaited)
  BY DEF C!SetUp, C!On
<1>2. IsSenderDevice(device) /\ HasFollowed(device) /\ ConstraintRecords
  BY DEF ConstraintInv, ConstraintBasics
<1> DEFINE bare(s) == [device EXCEPT !.active[s] = "none"]
           free(s) == IF device.fault = "sticks" THEN device
                      ELSE IF device.pace = "instant" THEN C!Settled(bare(s), s)
                      ELSE C!Awaited(bare(s), s)
           active == [s \in Sender |-> free(s).active[s]]
           status == [s \in Sender |-> free(s).status[s]]
           rate == [s \in Sender |-> free(s).rate[s]]
           changed == device.changed
           e == With(device, active, status, rate, changed)
<1>3. device' = [device EXCEPT !.active = active, !.status = status, !.rate = rate]
  <2>1. CASE device.fault = "sticks"
    BY <1>1, <2>1 DEF C!ReleaseAll
  <2>2. CASE device.fault # "sticks" /\ device.pace = "instant"
    BY <1>1, <2>2 DEF C!ReleaseAll
  <2>3. CASE device.fault # "sticks" /\ device.pace # "instant"
    BY <1>1, <2>3 DEF C!ReleaseAll
  <2> QED
    BY <2>1, <2>2, <2>3
<1>4. device' = e
  <2> HIDE DEF active, status, rate
  <2>1. DOMAIN device = FieldsOfDevice
    BY <1>2 DEF IsSenderDevice, FieldsOfDevice
  <2> QED
    BY <1>2, <1>3, <2>1 DEF With, FieldsOfDevice
<1>5. ASSUME NEW s \in Sender
      PROVE  IF device.fault = "sticks"
             THEN active[s] = device.active[s] /\ status[s] = device.status[s] /\ rate[s] = device.rate[s]
             ELSE /\ active[s] = "none"
                  /\ device.pace = "instant" => status[s] = "unconstrained" /\ rate[s] = "native"
                  /\ device.pace # "instant" => status[s] = "awaiting"
  <2>1. /\ active[s] = free(s).active[s] /\ status[s] = free(s).status[s]
        /\ rate[s] = free(s).rate[s]
    OBVIOUS
  <2> DEFINE b == bare(s)
  <2>2. IsSenderDevice(b) /\ SameKind(device, b) /\ b.active[s] = "none" /\ b.status = device.status
    <3> DEFINE none == [device.active EXCEPT ![s] = "none"]  st == device.status  ra == device.rate
    <3>1. b = With(device, none, st, ra, changed)
      BY <1>2 DEF IsSenderDevice, With
    <3>2. /\ none = [x \in Sender |-> none[x]] /\ st = [x \in Sender |-> st[x]]
          /\ ra = [x \in Sender |-> ra[x]] /\ none[s] = "none"
      BY <1>2 DEF IsSenderDevice
    <3> HIDE DEF none, st, ra, b, changed
    <3>3. /\ IsSenderDevice(b) /\ SameKind(device, b) /\ b.active = none /\ b.status = st
          /\ b.rate = ra /\ b.changed = changed
      BY <1>2, <3>1, <3>2, DeviceWith
    <3> QED
      BY <3>2, <3>3 DEF st
  <2>3. CASE device.fault = "sticks"
    BY <2>1, <2>3
  <2>4. CASE device.fault # "sticks" /\ device.pace = "instant"
    <3> DEFINE f == C!Settled(b, s)
    <3>1. free(s) = f
      BY <2>4
    <3> HIDE DEF f, b, free, active, status, rate
    <3>2. /\ IsSenderDevice(f) /\ SameKind(b, f) /\ f.active = b.active
          /\ f.status = [b.status EXCEPT ![s] = C!Outcome(b, s).status]
          /\ f.rate = [b.rate EXCEPT ![s] = C!Outcome(b, s).rate]
          /\ b.changed \subseteq f.changed
      BY <2>2, Settling DEF f
    <3>3. C!Outcome(b, s).status = "unconstrained" /\ C!Outcome(b, s).rate = "native"
      BY <2>2, Outcomes DEF Wishes
    <3> QED
      BY <2>1, <2>2, <2>4, <3>1, <3>2, <3>3 DEF IsSenderDevice
  <2>5. CASE device.fault # "sticks" /\ device.pace # "instant"
    <3>1. free(s) = C!Awaited(b, s)
      BY <2>5
    <3> HIDE DEF b, free, active, status, rate
    <3>2. C!Awaited(b, s) = [b EXCEPT !.status[s] = "awaiting"]
      BY DEF C!Awaited
    <3>3. /\ C!Awaited(b, s).active[s] = "none"
          /\ C!Awaited(b, s).status[s] = "awaiting"
      BY <2>2, <3>2 DEF IsSenderDevice
    <3> QED
      BY <2>1, <2>5, <3>1, <3>3
  <2> QED
    BY <2>3, <2>4, <2>5
<1>6. /\ active = [s \in Sender |-> active[s]] /\ status = [s \in Sender |-> status[s]]
      /\ rate = [s \in Sender |-> rate[s]]
  OBVIOUS
<1> HIDE DEF active, status, rate, changed, free, bare
<1>7. /\ IsSenderDevice(e) /\ SameKind(device, e)
      /\ e.active = active /\ e.status = status /\ e.rate = rate /\ e.changed = changed
  BY <1>2, <1>6, DeviceWith
<1> HIDE DEF e
<1>8. HasFollowed(e)
  <2> SUFFICES ASSUME NEW s \in Sender
               PROVE  /\ e.active[s] \in Wishes
                      /\ e.status[s] # "awaiting" =>
                            e.status[s] = C!Outcome(e, s).status /\ e.rate[s] = C!Outcome(e, s).rate
    BY DEF HasFollowed
  <2>1. CASE device.fault = "sticks"
    <3>1. /\ e.active[s] = device.active[s] /\ e.status[s] = device.status[s]
          /\ e.rate[s] = device.rate[s]
      BY <1>5, <1>7, <2>1
    <3>2. C!Outcome(e, s) = C!Outcome(device, s)
      BY <1>7, <3>1 DEF C!Outcome, SameKind
    <3> QED
      BY <1>2, <3>1, <3>2 DEF HasFollowed
  <2>2. CASE device.fault # "sticks"
    <3>1. e.active[s] = "none" /\ e.active[s] \in Wishes
      BY <1>5, <1>7, <2>2 DEF Wishes
    <3>2. C!Outcome(e, s).status = "unconstrained" /\ C!Outcome(e, s).rate = "native"
      BY <3>1, Outcomes
    <3> QED
      BY <1>5, <1>7, <2>2, <3>1, <3>2
  <2> QED
    BY <2>1, <2>2
<1>9. Gently
  <2>1. IsSenderDevice(device)' /\ HasFollowed(device)'
    <3>1. /\ device'.active = e.active /\ device'.status = e.status /\ device'.rate = e.rate
          /\ device' = e
      BY <1>4
    <3>2. \A s \in Sender : C!Outcome(device, s)' = C!Outcome(e, s)
      BY <3>1 DEF C!Outcome
    <3> QED
      BY <1>7, <1>8, <3>1, <3>2 DEF IsSenderDevice, HasFollowed
  <2>2. device.pace = "instant" /\ IsSettled(device) => IsSettled(device)'
    BY <1>4, <1>5, <1>7 DEF IsSettled
  <2>3. ConstraintRecords'
    BY <1>1, <1>2 DEF ConstraintRecords, C!Format
  <2> QED
    BY <1>4, <1>7, <2>1, <2>2, <2>3 DEF Gently, SameKind
<1>10. Fit => Frees(device') /\ (device.pace = "instant" => IsSettled(device'))
  BY <1>4, <1>5, <1>7 DEF Fit, C!Conforming, Frees, IsSettled
<1> QED
  BY <1>1, <1>9, <1>10, ConstraintEnds DEF Frees

LEMMA ConstraintStep == ConstraintInv /\ [C!Next]_C!suiteVars => ConstraintInv'
<1>1. ASSUME ConstraintInv, UNCHANGED C!suiteVars PROVE ConstraintInv'
  <2>1. at' = at /\ device' = device /\ noted' = noted /\ verdict' = verdict
    BY <1>1 DEF C!suiteVars
  <2>2. \A s \in Sender : C!Outcome(device, s)' = C!Outcome(device, s)
    BY <2>1 DEF C!Outcome
  <2>3. IsSenderDevice(device)' /\ HasFollowed(device)' /\ ConstraintRecords'
    BY <1>1, <2>1, <2>2
       DEF ConstraintInv, ConstraintBasics, IsSenderDevice, HasFollowed, ConstraintRecords, C!Format
  <2>4. IsRun' /\ InOrder' /\ SenderTodo'
    BY <1>1, <2>1
       DEF ConstraintInv, ConstraintBasics, IsRun, IsPlan, InOrder, SenderTodo, UnderWay, C!Ended,
           C!Format, C!First, C!Known
  <2>5. (Fit' <=> Fit) /\ (ConstraintTearDown' <=> ConstraintTearDown)
    BY <2>1 DEF Fit, C!Conforming, ConstraintTearDown, Frees, C!Ended
  <2>6. Quick' <=> Quick
    BY <2>1
       DEF Quick, SetUpDone, C!Ended, IsSettled, WillBeFreed, EmptiedLater, EmptiedNow, C!Subject
  <2>7. Patient' <=> Patient
    BY <2>1
       DEF Patient, AreNative, SetUpDone, C!Ended, HoldsAt, NoticedAt, SettledAt, Keeps, Puts,
           Target, Frees, C!Subject, C!First, C!Known
  <2> QED
    BY <1>1, <2>1, <2>3, <2>4, <2>5, <2>6, <2>7 DEF ConstraintInv, ConstraintBasics
<1>2. ASSUME ConstraintInv, C!Next PROVE ConstraintInv'
  <2>1. CASE \E s \in Sender : C!Settle(s)
    BY <1>2, <2>1, SettlingLater
  <2>2. CASE InTime /\ C!Tests
    <3>1. \/ C!SetUp \/ C!TearDown \/ C!Hiccup
          \/ C!ResetAll \/ C!Unconstrained \/ C!NoteFlows \/ C!Versions \/ C!NoOp \/ C!ReleaseAfter
          \/ C!Reference \/ C!SortByInputs \/ C!AnotherRate \/ C!WithoutInputs \/ C!Unknown
          \/ C!Emptied
      BY <2>2 DEF C!Tests
    <3> QED
      BY <1>2, <2>2, <3>1, SettingUp, TearingDown, Hiccuping, Resetting, LookingForUnconstrained,
         NotingFlows, ChangingVersions, PuttingNoOps, DeletingAfter, PuttingReferences,
         SortingByInputs, GivingAnotherRate, LookingWithoutInputs, PuttingUnknown, Emptying
  <2> QED
    BY <1>2, <2>1, <2>2 DEF C!Next, InTime
<1> QED
  BY <1>1, <1>2

-----------------------------------------------------------------------------
(* What the suites leave behind.                                            *)

LeavingInv == MediaInv /\ (suite = "constraints" => ConstraintInv)

LEMMA LeavingInvInit == MediaInit => LeavingInv
  BY MediaInvInit, ConstraintInit DEF MediaInit, LeavingInv

LEMMA LeavingInvStep == LeavingInv /\ [MediaNext]_mediaVars => LeavingInv'
<1> SUFFICES ASSUME LeavingInv, [MediaNext]_mediaVars PROVE LeavingInv'
  OBVIOUS
<1>1. MediaInv' /\ suite' = suite
  BY MediaInvStep, MediaSteps DEF LeavingInv
<1>2. suite = "constraints" => [C!Next]_C!suiteVars
  <2>1. CASE UNCHANGED mediaVars
    BY <2>1 DEF mediaVars, suiteVars, C!suiteVars
  <2>2. CASE MediaNext
    BY <2>2 DEF MediaNext
  <2> QED
    BY <2>1, <2>2
<1> QED
  BY <1>1, <1>2, ConstraintStep DEF LeavingInv

\* IS-11: no Active Constraints are left on a conforming device, instant or prompt and
\* able to give another rate, once it has been torn down: not where a test returns
\* early, nor when a request to an instant device fails; for any Senders and Inputs.
THEOREM NoConstraintsAreLeft ==
    MediaSpec => [](suite = "constraints" => C!NoConstraintsAreLeft)
<1>1. LeavingInv => (suite = "constraints" => C!NoConstraintsAreLeft)
  BY NoConstraintLeft DEF LeavingInv
<1> QED BY LeavingInvInit, LeavingInvStep, <1>1, PTL DEF MediaSpec

\* A run of the IS-11 suite leaves no Active Constraints and no Base EDID of its own on
\* a conforming device, and one of the IS-08 suite no activation that is yet to come.
THEOREM NothingIsEverLeft == MediaSpec => []NothingIsLeft
<1>1. LeavingInv => NothingIsLeft
  BY NoConstraintLeft, NoEdidLeft, NoActivationLeft DEF LeavingInv, MediaInv, NothingIsLeft
<1> QED BY LeavingInvInit, LeavingInvStep, <1>1, PTL DEF MediaSpec

=============================================================================
