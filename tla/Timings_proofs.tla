--------------------------- MODULE Timings_proofs ---------------------------
(***************************************************************************)
(* Theorems about the races of Timings, for any timeouts and delays and    *)
(* any number of servers: what the margin of 2 * API_PROCESSING_TIMEOUT    *)
(* buys; why a question that is asked before the change it asks for is     *)
(* judged fairly; that the registries are taken away in turn, unless the   *)
(* Node follows the invalid one, and that a Node that follows IS-04 passes.*)
(***************************************************************************)
EXTENDS Timings, FiniteSets, FiniteSetTheorems, WellFoundedInduction, TLAPS

-----------------------------------------------------------------------------
(* The question that times out.                                             *)

\* An answer on its way is no older than its way is long, and was submitted
\* while the button was enabled.
OnItsWay ==
    answer = "posted" =>
        /\ age <= postedAt + Travel
        /\ postedAt <= Timeout + Skew + Refresh

\* Inductive invariant.
TimeoutInv == TypeOK /\ OnItsWay /\ NoLateAnswer

LEMMA TimeoutInvInit == Init => TimeoutInv
  BY FacadeTimeoutAssumption DEF Init, TimeoutInv, TypeOK, OnItsWay, NoLateAnswer

LEMMA TimeoutInvStep ==
    ASSUME MarginSuffices, TimeoutInv, [Next]_vars PROVE TimeoutInv'
<1> USE FacadeTimeoutAssumption DEF TimeoutInv
<1>1. CASE Tick
  BY <1>1 DEF Tick, TypeOK, OnItsWay, NoLateAnswer
<1>2. CASE StartWaiting
  BY <1>2 DEF StartWaiting, TypeOK, OnItsWay, NoLateAnswer
<1>3. CASE PostAnswer
  BY <1>3 DEF PostAnswer, ButtonEnabled, TypeOK, OnItsWay, NoLateAnswer
<1>4. CASE ReceiveAnswer
  BY <1>4 DEF ReceiveAnswer, TypeOK, OnItsWay, NoLateAnswer
<1>5. CASE TakeAnswer
  BY <1>5 DEF TakeAnswer, TypeOK, OnItsWay, NoLateAnswer
<1>6. CASE TimeOut
  <2>1. /\ age = started + Timeout + Margin /\ started \in Nat
        /\ answer # "received" /\ suite' = "timedout"
        /\ UNCHANGED <<age, started, answer, postedAt>>
    BY <1>6 DEF TimeOut, Deadline, TypeOK
  <2>2. answer # "posted"
    BY <2>1 DEF MarginSuffices, OnItsWay, TypeOK
  <2>3. ~ButtonEnabled'
    BY <2>1 DEF MarginSuffices, ButtonEnabled, TypeOK
  <2> QED BY <2>1, <2>2, <2>3 DEF TypeOK, OnItsWay, NoLateAnswer
<1>7. CASE UNCHANGED vars
  BY <1>7 DEF vars, TypeOK, OnItsWay, NoLateAnswer, ButtonEnabled
<1> QED BY <1>1, <1>2, <1>3, <1>4, <1>5, <1>6, <1>7 DEF Next

\* For every timeout and every start of the wait: while the page's refresh, the
\* browser's clock skew and the way of the answer together are less than the
\* margin, no answer given on an enabled page comes too late.
THEOREM MarginPreventsLateAnswers ==
    ASSUME MarginSuffices PROVE Spec => []NoLateAnswer
<1>1. TimeoutInv /\ [Next]_vars => TimeoutInv'
  BY TimeoutInvStep
<1>2. TimeoutInv => NoLateAnswer
  BY DEF TimeoutInv
<1> QED BY TimeoutInvInit, <1>1, <1>2, PTL DEF Spec

-----------------------------------------------------------------------------
(* The question that is asked before what it asks for happens.              *)

\* The answer of a prompt user follows the change.
FollowsTheChange ==
    prompt /\ answer # "none" =>
        step = "changed" /\ changed <= postedAt /\ postedAt <= changed + Reaction

Travels ==
    /\ answer = "posted" => postedAt <= age /\ age <= postedAt + Travel
    /\ answer = "received" =>
         postedAt <= received /\ received <= postedAt + Travel /\ received <= age

\* The delay was cut short by an answer, which came too early.
CutShort == ~prompt /\ answer = "received" /\ received < planned

\* The resource changes when it was planned, give or take a slow step, unless an
\* answer cut the delay short.
OnTime ==
    /\ step = "asking" => suite = "sent"
    /\ step = "delaying" =>
         /\ suite = "sent" /\ age <= planned /\ until = planned
         /\ event => answer = "received"
    /\ step = "changing" =>
         /\ suite = "sent" /\ age <= until /\ until <= planned + Slow
         /\ planned <= age \/ CutShort
    /\ step = "changed" =>
         /\ changed <= planned + Slow /\ changed <= age
         /\ planned <= changed \/ CutShort
    /\ suite = "answered" => step = "changed" /\ answer = "received"

\* Inductive invariant.
TimedInv == TimedTypeOK /\ FollowsTheChange /\ Travels /\ OnTime

LEMMA TimedInvInit == TimedInit => TimedInv
  BY FacadeTimeoutAssumption, TimedQuestionAssumption
  DEF TimedInit, Init, TimedInv, TimedTypeOK, TypeOK, FollowsTheChange, Travels, OnTime

LEMMA TimedInvStep == TimedInv /\ [TimedNext]_timedVars => TimedInv'
<1> SUFFICES ASSUME TimedInv, [TimedNext]_timedVars PROVE TimedInv'
  OBVIOUS
<1> USE FacadeTimeoutAssumption, TimedQuestionAssumption
    DEF TimedInv, TimedTypeOK, TypeOK, FollowsTheChange, Travels, OnTime, CutShort
<1>1. CASE Plan
  <2>1. PICK delay \in Delays : planned' = age + delay
    BY <1>1 DEF Plan
  <2>2. delay \in Nat
    OBVIOUS
  <2>3. /\ planned' \in Nat /\ until' \in Nat
        /\ step = "asking" /\ step' = "delaying" /\ event' = FALSE
        /\ age' = age /\ age <= planned' /\ until' = planned'
        /\ UNCHANGED <<suite, started, answer, postedAt, changed, received, prompt>>
    BY <1>1, <2>1, <2>2 DEF Plan, vars
  <2> QED BY <2>3
<1>2. CASE Wake
  BY <1>2 DEF Wake, vars
<1>3. CASE Change
  BY <1>3 DEF Change, vars
<1>4. CASE Wait
  BY <1>4 DEF Wait, StartWaiting
<1>5. CASE Press
  BY <1>5 DEF Press, PostAnswer
<1>6. CASE Receive
  BY <1>6 DEF Receive, ReceiveAnswer
<1>7. CASE Conclude
  BY <1>7 DEF Conclude, TakeAnswer, TimeOut
<1>8. CASE Elapse
  BY <1>8 DEF Elapse, Tick
<1>9. CASE UNCHANGED timedVars
  BY <1>9 DEF timedVars, vars
<1> QED BY <1>1, <1>2, <1>3, <1>4, <1>5, <1>6, <1>7, <1>8, <1>9 DEF TimedNext

LEMMA TimedInvIsFair == LimitSuffices /\ TimedInv => VerdictIsFair
<1> SUFFICES ASSUME LimitSuffices, TimedInv, suite = "answered" PROVE VerdictIsFair
  BY DEF VerdictIsFair, Judgement
<1> USE FacadeTimeoutAssumption, TimedQuestionAssumption
    DEF TimedInv, TimedTypeOK, TypeOK, OnTime, CutShort
<1>1. Judgement = IF received \in planned..(planned + Limit) THEN "PASS" ELSE "FAIL"
  BY DEF Judgement
<1>2. ASSUME prompt PROVE received \in planned..(planned + Limit)
  BY <1>2 DEF LimitSuffices, FollowsTheChange, Travels
<1>3. ASSUME received \in planned..(planned + Limit)
      PROVE  changed <= received + Slow /\ received <= changed + Limit
  BY <1>3
<1> QED BY <1>1, <1>2, <1>3 DEF VerdictIsFair

\* If the limit pays for a slow step, the user's reaction and the way of the answer,
\* no prompt user fails, and whoever passes answered when the resource had changed
\* or was about to, whatever the delay and whenever the delay is interrupted.
THEOREM TimedQuestionIsFair ==
    ASSUME LimitSuffices PROVE TimedSpec => []VerdictIsFair
<1>1. TimedInv => VerdictIsFair
  BY TimedInvIsFair
<1> QED BY TimedInvInit, TimedInvStep, <1>1, PTL DEF TimedSpec

\* Each of its steps is one of a question's that waits, or leaves it alone.
THEOREM TimedQuestionIsAQuestion == TimedSpec => Spec
<1>1. TimedInit => Init
  BY DEF TimedInit
<1>2. [TimedNext]_timedVars => [Next]_vars
  BY DEF TimedNext, timedVars, Plan, Wake, Change, Wait, Press, Receive, Conclude, Elapse, Next
<1> QED BY <1>1, <1>2, PTL DEF TimedSpec, Spec

-----------------------------------------------------------------------------
(* The registries that are taken away one by one.                           *)

\* The types that the theorems need.
FailoverParts ==
    /\ pc \in {"reset", "discover", "settle", "beats", "failover", "clean", "done"}
    /\ timer \in Nat /\ quiet \in Nat /\ due \in Nat
    /\ enabled \subseteq Mocks
    /\ beats \in [Mocks -> 0..2]
    /\ since \in [Primaries -> 0..Interval + Second] /\ uneven \subseteq Primaries

LEMMA StepKeepsFailoverParts ==
    ASSUME FailoverParts, [FailoverNext]_failoverVars
    PROVE  FailoverParts'
<1> USE RegistryFailoverAssumption DEF FailoverParts
<1>1. CASE UNCHANGED failoverVars
  BY <1>1 DEF failoverVars
<1>2. CASE Suite
  <2>1. Countdown(1) \in Nat /\ Countdown(NextRegistry(current)) \in Nat
    BY DEF Countdown
  <2>2. UNCHANGED <<quiet, due, beats, since, uneven>>
    BY <1>2 DEF Suite, Advertise, Discovered, Settled, TwoBeats, Followed, GiveUp, CleanUp, Goto
  <2>3. enabled' \subseteq Mocks
    <3>1. Primaries \subseteq Mocks /\ Registries \subseteq Mocks
      BY DEF Primaries, Mocks, Registries, Server, Unreachable
    <3> QED
      BY <1>2, <3>1 DEF Suite, Advertise, Discovered, Settled, TwoBeats, Followed, GiveUp, CleanUp
  <2>4. timer' \in Nat
    BY <1>2, <2>1 DEF Suite, Advertise, Discovered, Settled, TwoBeats, Followed, GiveUp, CleanUp
  <2>5. pc' \in {"reset", "discover", "settle", "beats", "failover", "clean", "done"}
    BY <1>2 DEF Suite, Advertise, Discovered, Settled, TwoBeats, Followed, GiveUp, CleanUp, Goto
  <2> QED
    BY <2>2, <2>3, <2>4, <2>5
<1>3. ASSUME NEW r \in Primaries, Register(r) PROVE FailoverParts'
  BY <1>3 DEF Register, suiteVars
<1>4. CASE Heartbeat
  <2>1. due' \in Nat
    BY <1>4 DEF Heartbeat, Distances
  <2> QED
    BY <1>4, <2>1 DEF Heartbeat, suiteVars
<1>5. CASE MoveOn
  BY <1>5 DEF MoveOn, suiteVars
<1>6. CASE FallSilent \/ RegisterAgain \/ WrongTurn
  BY <1>6 DEF FallSilent, RegisterAgain, WrongTurn, suiteVars
<1>7. CASE FailoverTick
  <2>1. \A n \in 0..Interval + Second : More(n) \in 0..Interval + Second
    BY DEF More
  <2>2. quiet' \in Nat
    BY <1>7 DEF FailoverTick, More
  <2> QED
    BY <1>7, <2>1, <2>2 DEF FailoverTick, Less
<1> QED
  BY <1>1, <1>2, <1>3, <1>4, <1>5, <1>6, <1>7 DEF FailoverNext, Node

-----------------------------------------------------------------------------

\* The registry that was disabled last is one from which there is a next.
TurnInv ==
    FailoverParts /\ RegistriesAreTakenInTurn /\ (pc = "failover" => current \in 1..Last - 2)

\* The next registry is the next by number, or the last past the address that
\* never answers.
LEMMA NextIsLater ==
    ASSUME NEW c \in 1..Last - 2
    PROVE  /\ NextRegistry(c) \in Registries /\ NextRegistry(c) > c
           /\ NextRegistry(c) = Last \/ NextRegistry(c) \in 2..Last - 2
           /\ NextRegistry(c) = Last <=> c = Last - 2
           /\ NextRegistry(c) # Last => NextRegistry(c) = c + 1
  BY RegistryFailoverAssumption DEF NextRegistry, Registries, Server, Unreachable

LEMMA StepKeepsTurn == TurnInv /\ [FailoverNext]_failoverVars => TurnInv'
<1> SUFFICES ASSUME TurnInv, [FailoverNext]_failoverVars PROVE TurnInv'
  OBVIOUS
<1>1. FailoverParts'
  BY StepKeepsFailoverParts DEF TurnInv
<1> USE RegistryFailoverAssumption DEF TurnInv, RegistriesAreTakenInTurn
<1>2. CASE UNCHANGED failoverVars
  BY <1>1, <1>2 DEF failoverVars
<1>3. CASE Advertise \/ Discovered \/ Settled \/ GiveUp \/ CleanUp
  BY <1>1, <1>3 DEF Advertise, Discovered, Settled, GiveUp, CleanUp, Goto
<1>4. CASE TwoBeats
  <2>1. beats[1] > 0 \/ beats[Invalid] = 2
    BY <1>4 DEF TwoBeats, Primaries
  <2> QED
    BY <1>1, <1>4, <2>1 DEF TwoBeats, Goto
<1>5. CASE Followed
  <2> DEFINE next == NextRegistry(current)
  <2>1. /\ pc = "failover" /\ current \in 1..Last - 2 /\ beats[next] > 0
        /\ current' = next /\ enabled' = enabled \ {next} /\ UNCHANGED beats
        /\ pc' = "failover" => next # Last
    BY <1>5 DEF Followed, Goto
  <2>2. next \in Registries /\ next > current /\ (next = Last \/ next \in 2..Last - 2)
    BY <2>1, NextIsLater
  <2> HIDE DEF next
  <2>3. \A r \in Registries \ enabled' :
          /\ r \in Nat /\ r <= next
          /\ beats[r] > 0 \/ (r = 1 /\ beats[Invalid] = 2)
    BY <2>1, <2>2 DEF Registries, Server
  <2> QED
    BY <1>1, <2>1, <2>2, <2>3
<1>6. CASE Heartbeat
  <2>1. /\ UNCHANGED <<pc, current, enabled>> /\ node \in Mocks
        /\ beats' = [beats EXCEPT ![node] = IF @ < 2 THEN @ + 1 ELSE @]
    BY <1>6 DEF Heartbeat, suiteVars, FailoverParts
  <2>2. \A r \in Mocks : /\ beats[r] > 0 => beats'[r] > 0
                         /\ beats[r] = 2 => beats'[r] = 2
    BY <2>1 DEF FailoverParts
  <2>3. Registries \subseteq Mocks /\ Invalid \in Mocks
    BY DEF Mocks
  <2> QED
    BY <1>1, <2>1, <2>2, <2>3
<1>7. CASE (\E r \in Primaries : Register(r)) \/ MoveOn \/ FallSilent \/ RegisterAgain \/ WrongTurn \/ FailoverTick
  BY <1>1, <1>7 DEF Register, MoveOn, FallSilent, RegisterAgain, WrongTurn, FailoverTick, suiteVars
<1> QED
  BY <1>2, <1>3, <1>4, <1>5, <1>6, <1>7 DEF FailoverNext, Suite, Node

\* Registries are taken away in turn, each after the Node has come to it, even
\* if the Node falls silent, registers again or ignores the priorities: all but
\* the first, which is taken away too from a Node that sent two heartbeats to the
\* invalid registry.
THEOREM RegistriesGoInTurn == FailoverSpec => []RegistriesAreTakenInTurn
<1>1. FailoverInit => TurnInv
  BY RegistryFailoverAssumption DEF FailoverInit, TurnInv, FailoverParts, RegistriesAreTakenInTurn
<1>2. TurnInv => RegistriesAreTakenInTurn
  BY DEF TurnInv
<1> QED
  BY <1>1, StepKeepsTurn, <1>2, PTL DEF FailoverSpec

-----------------------------------------------------------------------------
(* The Node that follows IS-04.                                             *)

\* The place of a registry in the order of first heartbeats.
Rank(r) == IF r = Last THEN Last - 1 ELSE r

Ordered == order = [r \in Mocks |-> IF beats[r] = 0 THEN 0 ELSE Rank(r)]

OnlyFirstUsed == /\ \A r \in Mocks \ {1} : beats[r] = 0
                 /\ posts = IF node = Nowhere THEN {} ELSE {1}
                 /\ node \in {Nowhere, 1}
                 /\ node = Nowhere => beats[1] = 0

\* Until the others are advertised, the Node knows the first registry only, and
\* sends its first heartbeat before the suite takes it to be settled.
Early ==
    /\ pc \in {"reset", "discover", "settle", "beats"}
    /\ enabled = (IF pc = "reset" THEN {} ELSE Primaries) /\ visible = enabled
    /\ OnlyFirstUsed /\ due <= Interval + Jitter
    /\ node = 1 /\ beats[1] = 0 => quiet + due <= Interval + Jitter
    /\ pc = "reset" => node = Nowhere
    /\ pc = "beats" => beats[1] > 0

\* What the Node still needs, once its next heartbeat is due, to send one to the
\* registry after the current one.
Rest ==
    IF node = NextRegistry(current) THEN 0
    ELSE IF node = Unreachable THEN Latency
    ELSE IF NextRegistry(current) = Last THEN Latency + ConnectTimeout + Latency
    ELSE Latency

\* The Node is on its way from the registry that was disabled last to the next,
\* and will have come to it before the countdown is over.
Failing ==
    LET next == NextRegistry(current)
    IN  /\ pc = "failover" /\ current \in 1..Last - 2
        /\ visible = Places /\ enabled = {r \in Registries : r > current}
        /\ posts = {1} /\ beats[1] = 2
        /\ \A r \in Registries : r <= current => beats[r] > 0
        /\ \A r \in Registries : r > current /\ r # next => beats[r] = 0
        /\ node \in current..next
        /\ beats[next] = 0 => due + Rest < timer
        /\ beats[next] > 0 => node = next /\ due \in 1..Interval + Jitter

\* In the end the Node has used all registries, or none.
AllUsed ==
    /\ \A r \in Registries : beats[r] > 0
    /\ beats[1] = 2 /\ posts = {1}
    /\ enabled = {} /\ node = Last /\ visible \subseteq Places

NoneUsed ==
    /\ beats[1] = 0 /\ OnlyFirstUsed
    /\ pc = "clean" => enabled = Primaries /\ visible = Primaries /\ (node = 1 => due > 0)
    /\ pc = "done" => enabled = {} /\ visible = {}

Late == pc \in {"clean", "done"} /\ (AllUsed \/ NoneUsed)

\* The next heartbeat of the Node will be at the right distance from the last
\* one, or not too long after its registration.
Paced ==
    /\ uneven = {} /\ beats[Invalid] = 0
    /\ node = Nowhere => since[1] = 0
    /\ node = 1 /\ 1 \in enabled =>
         /\ since[1] + due <= Interval + Jitter
         /\ beats[1] > 0 => since[1] + due >= Interval - Jitter

ConformingInv ==
    FailoverParts /\ (conforming => Ordered /\ Paced /\ (Early \/ Failing \/ Late))

\* The first heartbeat at a registry gives it the place after those that have one.
LEMMA PlaceOfFirstHeartbeat ==
    ASSUME NEW f \in [Mocks -> Nat], NEW m \in 0..Last,
           \E r \in Mocks : f[r] = m, \A r \in Mocks : f[r] <= m
    PROVE  m = CHOOSE n \in 0..Last : /\ \E r \in Mocks : f[r] = n
                                      /\ \A r \in Mocks : f[r] <= n
<1> DEFINE P(n) == (\E r \in Mocks : f[r] = n) /\ (\A r \in Mocks : f[r] <= n)
<1>1. P(m)
  OBVIOUS
<1>2. ASSUME NEW n \in 0..Last, P(n)
      PROVE  n = m
  BY <1>2, RegistryFailoverAssumption
<1> HIDE DEF P
<1>3. m = CHOOSE n \in 0..Last : P(n)
  BY <1>1, <1>2
<1> QED
  BY <1>3 DEF P

LEMMA RegistryNumbers ==
    /\ Mocks = Registries \cup {Invalid} /\ Primaries = {1, Invalid}
    /\ Mocks \subseteq Nat \ {0} /\ Invalid \notin Server /\ Invalid > Last
    /\ Places = Server \cup {Invalid}
    /\ 1 \in Registries /\ Last \in Registries /\ Unreachable \notin Registries
    /\ Registries \subseteq Nat \ {0} /\ \A r \in Registries : r <= Last
    /\ Last \in Nat /\ Last >= 4 /\ Unreachable = Last - 1
  BY RegistryFailoverAssumption
     DEF Registries, Server, Unreachable, Mocks, Primaries, Places, Invalid

\* The suite up to the failover: a Node that is registered has sent a heartbeat
\* when it is taken to be settled.
LEMMA EarlySuite ==
    ASSUME AllowancesSuffice, FailoverParts, conforming, Ordered, Paced, Early, Suite
    PROVE  Early' \/ Failing' \/ Late'
<1> USE DEF FailoverParts, Early, OnlyFirstUsed
<1>1. CASE Advertise
  BY <1>1 DEF Advertise, Goto
<1>2. CASE Discovered
  BY <1>2 DEF Discovered, Goto
<1>3. CASE Settled
  <2>1. node = 1 => beats[1] > 0
    <3> SUFFICES ASSUME node = 1, beats[1] = 0 PROVE FALSE
      BY RegistryNumbers
    <3>1. quiet = Interval + Second /\ quiet + due <= Interval + Jitter
      BY <1>3 DEF Settled
    <3> QED
      BY <3>1, RegistryFailoverAssumption DEF AllowancesSuffice
  <2>2. CASE beats[1] > 0
    BY <1>3, <2>2, RegistryNumbers DEF Settled, Goto
  <2>3. CASE ~(beats[1] > 0)
    <3>1. \A r \in Primaries : beats[r] = 0
      BY <2>3, RegistryNumbers DEF Paced
    <3>2. pc' = "clean" /\ UNCHANGED <<beats, posts, enabled, visible, node, due>>
      BY <1>3, <3>1 DEF Settled, Goto
    <3>3. node # 1 /\ beats[1] = 0
      BY <2>1, <3>1, RegistryNumbers
    <3> QED
      BY <1>3, <3>2, <3>3 DEF Settled, Late, NoneUsed
  <2> QED
    BY <2>2, <2>3
<1>4. CASE TwoBeats
  <2>1. /\ pc' = "failover" /\ visible' = Places /\ enabled' = Registries \ {1}
        /\ current' = 1 /\ timer' = Countdown(1) /\ beats[1] = 2
        /\ UNCHANGED <<posts, beats, order, node, due>>
    BY <1>4, RegistryNumbers DEF TwoBeats, Goto, Paced
  <2>2. node = 1 /\ posts = {1} /\ due \in Nat /\ due <= Interval + Jitter
    BY <2>1
  <2>3. /\ NextRegistry(1) = 2 /\ NextRegistry(1) \in Registries
        /\ NextRegistry(1) # Last /\ 2 # Unreachable
    BY RegistryFailoverAssumption DEF NextRegistry, Unreachable, Registries, Server
  <2>4. NextRegistry(current') = 2
    BY <2>1, <2>3
  <2>5. Rest' = Latency /\ timer' = Interval + Second
    BY <2>1, <2>2, <2>3, <2>4, RegistryFailoverAssumption DEF Rest, Countdown, Unreachable
  <2>6. due' + Rest' < timer'
    BY <2>1, <2>2, <2>5, RegistryFailoverAssumption DEF AllowancesSuffice
  <2>7. enabled' = {r \in Registries : r > current'}
    <3>1. \A r \in Registries : r # 1 <=> r > 1
      BY RegistryNumbers
    <3> QED
      BY <2>1, <3>1
  <2>8. \A r \in Registries : r <= current' => r = 1
    BY <2>1, RegistryNumbers
  <2>9. /\ \A r \in Registries : r <= current' => beats'[r] > 0
        /\ \A r \in Registries : r > current' /\ r # NextRegistry(current') => beats'[r] = 0
        /\ beats'[NextRegistry(current')] = 0
    <3>1. \A r \in Registries : r # 1 => beats[r] = 0
      BY RegistryNumbers
    <3>2. \A r \in Registries : r > current' => r # 1
      BY <2>1
    <3> QED
      BY <2>1, <2>3, <2>4, <2>8, <3>1, <3>2
  <2>10. Failing'
    BY <2>1, <2>2, <2>4, <2>6, <2>7, <2>9, RegistryNumbers DEF Failing
  <2> QED
    BY <2>10
<1> QED
  BY <1>1, <1>2, <1>3, <1>4 DEF Suite, Followed, GiveUp, CleanUp

\* The suite from the failover on: the countdown is never over before the Node
\* has come.
LEMMA LaterSuite ==
    ASSUME AllowancesSuffice, FailoverParts, conforming, Ordered, Failing \/ Late, Suite
    PROVE  Failing' \/ Late'
<1> DEFINE next == NextRegistry(current)
<1>1. CASE Followed
  <2>1. /\ Failing /\ beats[next] > 0 /\ current' = next /\ enabled' = enabled \ {next}
        /\ timer' = Countdown(next) /\ pc' = (IF next = Last THEN "clean" ELSE "failover")
        /\ UNCHANGED <<visible, posts, beats, node, due>>
    BY <1>1 DEF Followed, Goto, Late
  <2>2. /\ next \in Registries /\ next > current /\ current \in 1..Last - 2
        /\ node = next /\ due \in 1..Interval + Jitter
        /\ next = Last <=> current = Last - 2
        /\ next # Last => next = current + 1 /\ next \in 2..Last - 2
    BY <2>1, NextIsLater DEF Failing
  <2>3. /\ \A r \in Registries : r <= next => beats[r] > 0
        /\ enabled' = {r \in Registries : r > next}
    <3>1. \A r \in Registries : r <= next => r <= current \/ r = next
      BY <2>2, RegistryNumbers
    <3>2. \A r \in Registries : r <= next => beats[r] > 0
      BY <2>1, <3>1 DEF Failing
    <3>3. \A r \in Registries : r > next <=> r > current /\ r # next
      BY <2>2, <3>1, RegistryNumbers
    <3>4. enabled' = {r \in Registries : r > next}
      BY <2>1, <3>3 DEF Failing
    <3> QED
      BY <3>2, <3>4
  <2>4. CASE next = Last
    <3>1. AllUsed'
      <4>1. \A r \in Registries : r <= next /\ ~(r > next)
        BY <2>4, RegistryNumbers
      <4>2. enabled' = {} /\ \A r \in Registries : beats[r] > 0
        BY <2>3, <4>1
      <4>3. beats[1] = 2 /\ posts = {1} /\ visible = Places
        BY <2>1 DEF Failing
      <4> QED
        BY <2>1, <2>2, <2>4, <4>2, <4>3 DEF AllUsed
    <3> QED
      BY <2>1, <2>4, <3>1 DEF Late
  <2>5. CASE next # Last
    <3> DEFINE after == NextRegistry(next)
    <3>1. /\ after \in Registries /\ after > next
          /\ after = Last <=> next = Last - 2
          /\ after # Last => after = next + 1
      BY <2>2, <2>5, NextIsLater
    <3>2. \A r \in Registries : r > next => beats[r] = 0
      BY <2>1, <2>2, RegistryNumbers DEF Failing
    <3>3. node # Unreachable
      BY <2>2, RegistryNumbers
    <3>4. Rest' = (IF after = Last THEN Latency + ConnectTimeout + Latency ELSE Latency)
      BY <2>1, <2>2, <3>1, <3>3, RegistryNumbers DEF Rest, Unreachable
    <3>5. due + Rest' < Countdown(next)
      BY <2>2, <3>4, RegistryFailoverAssumption DEF AllowancesSuffice, Countdown
    <3> QED
      BY <2>1, <2>2, <2>3, <2>5, <3>1, <3>2, <3>5, RegistryNumbers DEF Failing
  <2> QED
    BY <2>4, <2>5
<1>2. CASE GiveUp
  <2>1. Failing /\ beats[next] = 0 /\ timer = 0
    BY <1>2 DEF GiveUp, Late
  <2>2. Rest \in Nat
    BY RegistryFailoverAssumption DEF Rest
  <2>3. due + Rest < 0
    BY <2>1 DEF Failing
  <2> QED
    BY <2>2, <2>3 DEF FailoverParts
<1>3. CASE CleanUp
  BY <1>3 DEF CleanUp, Goto, Failing, Late, AllUsed, NoneUsed, OnlyFirstUsed
<1> QED
  BY <1>1, <1>2, <1>3 DEF Suite, Advertise, Discovered, Settled, TwoBeats, Failing, Late

-----------------------------------------------------------------------------

LEMMA RegisterKeepsOrder ==
    ASSUME FailoverParts, conforming, Ordered, Early \/ Failing \/ Late,
           NEW r \in Primaries, Register(r)
    PROVE  Early' \/ Failing' \/ Late'
<1>1. /\ node = Nowhere /\ 1 \in visible \cap enabled
      /\ node' = 1 /\ due' \in 1..Interval + Jitter /\ posts' = posts \cup {1} /\ quiet' = 0
      /\ UNCHANGED <<pc, current, timer, enabled, visible, conforming, beats, order>>
  BY RegistryNumbers DEF Register, suiteVars
<1>2. CASE Early
  <2>1. pc \in {"discover", "settle"} /\ enabled = Primaries /\ visible = Primaries /\ posts = {} /\ beats[1] = 0
    BY <1>1, <1>2, RegistryNumbers DEF Early, OnlyFirstUsed
  <2>2. OnlyFirstUsed'
    BY <1>1, <1>2, <2>1 DEF Early, OnlyFirstUsed, Nowhere
  <2>3. due' <= Interval + Jitter /\ quiet' + due' <= Interval + Jitter
    <3>1. due' \in Nat /\ due' <= Interval + Jitter /\ quiet' = 0
      BY <1>1, RegistryFailoverAssumption
    <3> QED
      BY <3>1
  <2>4. Early'
    BY <1>1, <2>1, <2>2, <2>3 DEF Early
  <2> QED
    BY <2>4
<1>3. CASE Failing
  BY <1>1, <1>3, RegistryNumbers DEF Failing, Nowhere
<1>4. CASE Late
  BY <1>1, <1>4, RegistryFailoverAssumption DEF Late, AllUsed, NoneUsed, OnlyFirstUsed, Nowhere
<1> QED
  BY <1>2, <1>3, <1>4

\* A heartbeat is the first one at its registry, or a further one at the first
\* registry.
LEMMA HeartbeatKeepsOrder ==
    ASSUME FailoverParts, conforming, Ordered, Paced, Early \/ Failing \/ Late, Heartbeat
    PROVE  Ordered' /\ (Early' \/ Failing' \/ Late')
<1>1. /\ node \in enabled /\ node \in Mocks /\ due = 0 /\ due' \in 1..Interval + Jitter
      /\ beats' = [beats EXCEPT ![node] = IF @ < 2 THEN @ + 1 ELSE @]
      /\ UNCHANGED <<pc, current, timer, quiet, posts, enabled, visible, conforming, node>>
  <2>1. Distances \subseteq 1..Interval + Jitter
    BY RegistryFailoverAssumption DEF Distances
  <2> QED
    BY <2>1 DEF Heartbeat, suiteVars, FailoverParts
<1>2. /\ \A r \in Mocks : r # node => beats'[r] = beats[r]
      /\ beats'[node] > 0 /\ beats'[node] >= beats[node]
      /\ beats[node] = 2 => beats'[node] = 2
  BY <1>1 DEF FailoverParts
<1> DEFINE max == CHOOSE n \in 0..Last : /\ \E r \in Mocks : order[r] = n
                                         /\ \A r \in Mocks : order[r] <= n
<1>3. order' = [order EXCEPT ![node] = IF @ = 0 THEN 1 + max ELSE @]
  BY DEF Heartbeat
<1> HIDE DEF max
<1>4. /\ \A r \in Mocks : order[r] = IF beats[r] = 0 THEN 0 ELSE Rank(r)
      /\ order \in [Mocks -> Nat]
  BY RegistryNumbers DEF Ordered, Rank
<1>5. CASE Early
  <2>1. node = 1 /\ \A r \in Mocks : r # 1 => beats[r] = 0
    BY <1>1, <1>5, RegistryNumbers DEF Early, OnlyFirstUsed, Nowhere
  <2>2. beats[1] = 0 => max = 0
    <3> SUFFICES ASSUME beats[1] = 0 PROVE max = 0
      OBVIOUS
    <3>1. \A r \in Mocks : order[r] = 0
      BY <1>4, <2>1
    <3>2. 0 \in 0..Last
      BY RegistryNumbers
    <3> QED
      BY <1>4, <3>1, <3>2, RegistryNumbers, PlaceOfFirstHeartbeat DEF max
  <2>3. Ordered'
    <3>1. Rank(1) = 1
      BY RegistryNumbers DEF Rank
    <3>2. order' = [order EXCEPT ![1] = 1]
      <4>1. beats[1] = 0 => order[1] = 0 /\ 1 + max = 1
        BY <1>4, <2>2, RegistryNumbers
      <4>2. beats[1] # 0 => order[1] = 1
        BY <1>4, <3>1, RegistryNumbers
      <4>3. 1 \in Mocks
        BY RegistryNumbers
      <4>4. order'[1] = 1 /\ \A r \in Mocks : r # 1 => order'[r] = order[r]
        BY <1>3, <1>4, <2>1, <4>1, <4>2, <4>3
      <4> QED
        BY <1>3, <1>4, <2>1, <4>3, <4>4
    <3>3. \A r \in Mocks : order'[r] = IF beats'[r] = 0 THEN 0 ELSE Rank(r)
      BY <1>2, <1>4, <2>1, <3>1, <3>2
    <3> QED
      BY <1>4, <3>2, <3>3 DEF Ordered
  <2>4. Early'
    BY <1>1, <1>2, <1>5, <2>1, RegistryFailoverAssumption DEF Early, OnlyFirstUsed, Nowhere
  <2> QED
    BY <2>3, <2>4
<1>6. CASE Failing
  <2> DEFINE next == NextRegistry(current)
  <2>1. /\ node = next /\ beats[next] = 0 /\ next \in Registries
        /\ next > current /\ current \in 1..Last - 2
        /\ next = Last \/ next = current + 1
        /\ next = Last <=> current = Last - 2
    BY <1>1, <1>6, NextIsLater, RegistryNumbers DEF Failing, FailoverParts, Server
  <2>2. max = current
    <3>1. \A r \in Mocks : r <= current => order[r] = r
      BY <1>4, <1>6, <2>1, RegistryNumbers DEF Failing, Rank
    <3>2. \A r \in Mocks : r > current => order[r] = 0
      BY <1>4, <1>6, <2>1, RegistryNumbers DEF Failing, Paced
    <3>3. current \in Mocks /\ current \in 0..Last
      BY <2>1, RegistryNumbers DEF Mocks, Registries, Server, Unreachable
    <3>4. \A r \in Mocks : order[r] <= current
      BY <2>1, <3>1, <3>2, RegistryNumbers
    <3>5. \E r \in Mocks : order[r] = current
      BY <3>1, <3>3
    <3> QED
      BY <1>4, <3>3, <3>4, <3>5, PlaceOfFirstHeartbeat DEF max
  <2>3. 1 + max = Rank(next)
    BY <2>1, <2>2, RegistryNumbers DEF Rank
  <2>4. Ordered'
    BY <1>1, <1>2, <1>3, <1>4, <2>1, <2>3 DEF Ordered, Rank
  <2>5. Failing'
    BY <1>1, <1>2, <1>6, <2>1, RegistryNumbers DEF Failing
  <2> QED
    BY <2>4, <2>5
<1>7. CASE Late
  <2>1. enabled # {}
    BY <1>1
  <2>2. NoneUsed /\ pc = "clean"
    BY <1>7, <2>1 DEF Late, AllUsed, NoneUsed
  <2>3. node \in {Nowhere, 1} /\ node # Nowhere
    BY <1>1, <2>2, RegistryNumbers DEF NoneUsed, OnlyFirstUsed, Nowhere
  <2> QED
    BY <1>1, <2>2, <2>3 DEF NoneUsed
<1> QED
  BY <1>5, <1>6, <1>7

\* Moving on takes no more than what the Node then still needs is less.
LEMMA MoveOnKeepsOrder ==
    ASSUME AllowancesSuffice, FailoverParts, conforming, Ordered, Early \/ Failing \/ Late, MoveOn
    PROVE  Early' \/ Failing' \/ Late'
<1>1. /\ node \in Places \ enabled /\ due = 0
      /\ UNCHANGED <<pc, current, timer, quiet, posts, beats, enabled, visible, conforming>>
      /\ node + 1 \in visible =>
            /\ node' = node + 1
            /\ \E delay \in 0..Latency :
                  due' = delay + (IF node + 1 = Unreachable THEN ConnectTimeout ELSE 0)
      /\ node + 1 \notin visible => due' = Interval /\ node' = node
  BY DEF MoveOn, suiteVars
<1>2. CASE Early
  <2>1. node \in {0, 1} /\ node # 0 /\ node \notin enabled
    BY <1>1, <1>2, RegistryNumbers DEF Early, OnlyFirstUsed, Nowhere, Server
  <2>2. pc = "reset"
    BY <1>2, <2>1, RegistryNumbers DEF Early
  <2> QED
    BY <1>2, <2>1, <2>2 DEF Early, Nowhere
<1>3. CASE Failing
  <2> DEFINE next == NextRegistry(current)
  <2>1. /\ current \in 1..Last - 2 /\ next \in Registries /\ next > current
        /\ next = Last => current = Last - 2
        /\ next # Last => next = current + 1
        /\ enabled = {r \in Registries : r > current} /\ node \in current..next
    BY <1>3, NextIsLater DEF Failing
  <2>2. node # next /\ node + 1 \in current..next
    BY <1>1, <2>1, RegistryNumbers
  <2>3. beats[next] = 0 /\ due + Rest < timer
    BY <1>3, <2>1, <2>2 DEF Failing, FailoverParts
  <2>4. node + 1 \in visible
    BY <1>3, <2>1, <2>2, RegistryNumbers DEF Failing, Server
  <2>5. node' = node + 1 /\ next' = next
    BY <1>1, <2>4
  <2>6. due' + Rest' <= Rest /\ due' + Rest' \in Nat /\ Rest \in Nat
    <3>1. PICK delay \in 0..Latency :
            due' = delay + (IF node + 1 = Unreachable THEN ConnectTimeout ELSE 0)
      BY <1>1, <2>4
    <3>2. CASE node = Unreachable
      <4>1. node + 1 = Last /\ next = Last
        BY <2>1, <2>2, <3>2, RegistryNumbers
      <4>2. Rest = Latency /\ Rest' = 0
        BY <2>2, <2>5, <3>2, <4>1 DEF Rest
      <4> QED
        BY <3>1, <4>1, <4>2, RegistryNumbers, RegistryFailoverAssumption
    <3>3. CASE node # Unreachable /\ next # Last
      <4>1. node + 1 = next /\ next # Unreachable
        BY <2>1, <2>2, RegistryNumbers, <3>3
      <4>2. Rest = Latency /\ Rest' = 0
        BY <2>2, <2>5, <3>3, <4>1 DEF Rest
      <4> QED
        BY <3>1, <4>1, <4>2, RegistryFailoverAssumption
    <3>4. CASE node # Unreachable /\ next = Last
      <4>1. node + 1 = Unreachable
        BY <2>1, <2>2, <3>4, RegistryNumbers
      <4>2. Rest = Latency + ConnectTimeout + Latency /\ Rest' = Latency
        BY <2>2, <2>5, <3>4, <4>1, RegistryNumbers DEF Rest
      <4> QED
        BY <3>1, <4>1, <4>2, RegistryFailoverAssumption
    <3> QED
      BY <3>2, <3>3, <3>4
  <2>7. due' + Rest' < timer
    BY <1>1, <2>3, <2>6 DEF FailoverParts
  <2> QED
    BY <1>1, <1>3, <2>2, <2>3, <2>5, <2>7 DEF Failing
<1>4. CASE Late
  <2>1. node + 1 \notin visible
    <3>1. CASE AllUsed
      <4>1. node = Last /\ visible \subseteq Places
        BY <3>1 DEF AllUsed
      <4>2. Last + 1 \notin Places
        BY RegistryFailoverAssumption DEF Places, Server, Invalid
      <4> QED
        BY <4>1, <4>2
    <3>2. CASE NoneUsed
      <4>1. node = 1
        BY <1>1, <3>2, RegistryNumbers DEF NoneUsed, OnlyFirstUsed, Nowhere, Server
      <4>2. visible = {}
        BY <1>1, <1>4, <3>2, <4>1 DEF NoneUsed, Late
      <4> QED
        BY <4>2
    <3> QED
      BY <1>4, <3>1, <3>2 DEF Late
  <2> QED
    BY <1>1, <1>4, <2>1, RegistryFailoverAssumption DEF Late, AllUsed, NoneUsed, OnlyFirstUsed
<1> QED
  BY <1>2, <1>3, <1>4

\* One count gains at most what another loses.
LEMMA TimeMovesOn ==
    ASSUME NEW q \in Nat, NEW d \in Nat, NEW r \in Nat, NEW e \in Nat,
           d > 0 /\ e = d - 1, r <= q + 1
    PROVE  r + e <= q + d
  OBVIOUS

\* Time passes only while the Node's next heartbeat is not due and the countdown
\* is not over.
LEMMA TickKeepsOrder ==
    ASSUME FailoverParts, conforming, Ordered, Early \/ Failing \/ Late, FailoverTick
    PROVE  Early' \/ Failing' \/ Late'
<1>1. /\ ~Urgent /\ timer' = Less(timer) /\ due' = Less(due)
      /\ quiet' = More(quiet)
      /\ UNCHANGED <<pc, current, enabled, visible, posts, beats, order, conforming, node>>
  BY DEF FailoverTick
<1>2. ~Ready /\ (node \in Places => due > 0)
  BY <1>1 DEF Urgent, FailoverParts
<1>3. CASE Early
  <2>1. node = 1 => quiet' + due' <= quiet + due
    <3> SUFFICES ASSUME node = 1 PROVE quiet' + due' <= quiet + due
      OBVIOUS
    <3>1. due > 0 /\ due' = due - 1
      BY <1>1, <1>2, RegistryNumbers DEF Places, Server, Less, FailoverParts
    <3>2. quiet' <= quiet + 1 /\ quiet' \in Nat
      BY <1>1 DEF FailoverParts, More
    <3>3. quiet \in Nat /\ due \in Nat /\ due' \in Nat
      BY <3>1 DEF FailoverParts
    <3> QED
      BY <3>1, <3>2, <3>3, TimeMovesOn
  <2>2. due' <= due /\ due' \in Nat /\ quiet' \in Nat
    BY <1>1 DEF Less, More, FailoverParts
  <2>3. Early'
    BY <1>1, <1>3, <2>1, <2>2, RegistryFailoverAssumption DEF Early, OnlyFirstUsed, FailoverParts
  <2> QED
    BY <2>3
<1>4. CASE Failing
  <2> DEFINE next == NextRegistry(current)
  <2>1. next \in Registries /\ node \in Places
    BY <1>4, NextIsLater, RegistryNumbers DEF Failing, Server
  <2>2. beats[next] = 0 /\ timer # 0 /\ due > 0
    <3>1. pc = "failover" /\ beats[next] \in 0..2
      BY <1>4, <2>1, RegistryNumbers DEF Failing, FailoverParts
    <3>2. ~(beats[next] > 0) /\ timer # 0
      BY <1>2, <3>1 DEF Ready
    <3> QED
      BY <1>2, <2>1, <3>1, <3>2
  <2>3. due' = due - 1 /\ timer' = timer - 1 /\ Rest' = Rest /\ Rest \in Nat
    BY <1>1, <2>2, RegistryFailoverAssumption DEF Less, FailoverParts, Rest
  <2>4. due' + Rest' < timer'
    BY <1>4, <2>2, <2>3 DEF Failing, FailoverParts
  <2>5. Failing'
    BY <1>1, <1>4, <2>2, <2>4 DEF Failing
  <2> QED
    BY <2>5
<1>5. CASE Late
  <2>1. pc = "done"
    BY <1>2, <1>5 DEF Late, Ready
  <2>2. Late'
    BY <1>1, <1>5, <2>1 DEF Late, AllUsed, NoneUsed, OnlyFirstUsed
  <2> QED
    BY <2>2
<1> QED
  BY <1>3, <1>4, <1>5

\* Every heartbeat of the Node is at the distance that the suite expects.
LEMMA StepKeepsPace ==
    ASSUME AllowancesSuffice, FailoverParts, conforming, Paced, Early \/ Failing \/ Late,
           Suite \/ Node \/ FailoverTick
    PROVE  Paced'
<1> USE RegistryFailoverAssumption DEF FailoverParts
<1>1. /\ Jitter \in Nat /\ Interval \in Nat /\ Second \in Nat /\ due \in Nat
      /\ Jitter < Second /\ 2 * Jitter <= Second /\ Jitter < Interval
      /\ 1 \in Mocks /\ Invalid \in Mocks /\ 1 # Invalid /\ Primaries = {1, Invalid}
      /\ since[1] \in 0..Interval + Second
  BY RegistryNumbers DEF AllowancesSuffice
<1>2. /\ node = Nowhere => beats[1] = 0 /\ posts = {}
      /\ node # Invalid
  BY RegistryNumbers, NextIsLater DEF Early, Failing, Late, AllUsed, NoneUsed, OnlyFirstUsed, Nowhere
<1>3. CASE Suite
  <2>1. UNCHANGED <<beats, since, uneven, node, due>>
    BY <1>3 DEF Suite, Advertise, Discovered, Settled, TwoBeats, Followed, GiveUp, CleanUp, Goto
  <2>2. node = 1 /\ 1 \in enabled' => 1 \in enabled
    <3>1. CASE Advertise
      BY <3>1 DEF Advertise, Early, Failing, Late, Nowhere
    <3>2. CASE TwoBeats
      BY <3>2 DEF TwoBeats
    <3>3. CASE UNCHANGED enabled
      BY <3>3
    <3>4. CASE Followed \/ CleanUp
      BY <3>4 DEF Followed, CleanUp
    <3> QED
      BY <1>3, <3>1, <3>2, <3>3, <3>4 DEF Suite, Discovered, Settled, GiveUp
  <2> QED
    BY <2>1, <2>2 DEF Paced
<1>4. ASSUME NEW r \in Primaries, Register(r) PROVE Paced'
  <2>1. /\ r = 1 /\ node = Nowhere /\ node' = 1 /\ due' \in 1..Interval + Jitter
        /\ UNCHANGED <<beats, since, uneven>>
    BY <1>1, <1>4 DEF Register
  <2>2. since[1] = 0 /\ beats[1] = 0
    BY <1>2, <2>1 DEF Paced
  <2>3. since' = since /\ beats' = beats /\ uneven' = uneven
    BY <2>1
  <2>4. due' \in Nat /\ due' <= Interval + Jitter
    <3>1. due' \in 1..Interval + Jitter
      BY <2>1
    <3> QED
      BY <1>1, <3>1
  <2>5. since'[1] + due' <= Interval + Jitter
    BY <2>2, <2>3, <2>4
  <2>6. uneven' = {} /\ beats'[Invalid] = 0 /\ beats'[1] = 0
    BY <2>2, <2>3 DEF Paced
  <2>7. node' # Nowhere
    BY <2>1 DEF Nowhere
  <2> QED
    BY <2>5, <2>6, <2>7 DEF Paced
<1>5. CASE Heartbeat
  <2>1. /\ node \in enabled /\ due = 0 /\ due' \in Interval - Jitter..Interval + Jitter
        /\ beats' = [beats EXCEPT ![node] = IF @ < 2 THEN @ + 1 ELSE @]
        /\ since' = [q \in Primaries |-> IF q = node THEN 0 ELSE since[q]]
        /\ uneven' = uneven \cup {q \in Primaries \cap {node} : TooFrequent(q) \/ TooLate(q)}
        /\ node' = node /\ enabled' = enabled
    BY <1>5 DEF Heartbeat, Distances, suiteVars
  <2>2. beats'[Invalid] = 0
    BY <1>1, <1>2, <2>1 DEF Paced
  <2>3. node = 1 => ~TooFrequent(1) /\ ~TooLate(1)
    BY <1>1, <2>1 DEF Paced, TooFrequent, TooLate
  <2>4. uneven' = {}
    BY <1>1, <1>2, <2>1, <2>3 DEF Paced
  <2>5. node = 1 => since'[1] = 0
    BY <1>1, <2>1
  <2>6. node = Nowhere => since'[1] = 0
    BY <1>1, <2>1 DEF Paced
  <2> QED
    BY <1>1, <2>1, <2>2, <2>4, <2>5, <2>6 DEF Paced
<1>6. CASE MoveOn
  <2>1. /\ node \in Places \ enabled /\ node' \in {node, node + 1}
        /\ UNCHANGED <<enabled, beats, since, uneven>>
    BY <1>6 DEF MoveOn, suiteVars
  <2>2. node' # Nowhere /\ (node' = 1 => node = 1)
    BY <2>1, RegistryNumbers DEF Server, Nowhere
  <2> QED
    BY <2>1, <2>2 DEF Paced
<1>7. CASE FailoverTick
  <2>1. /\ UNCHANGED <<enabled, beats, uneven, node>> /\ due' = Less(due)
        /\ since'[1] = IF 1 \in enabled /\ (1 \in posts \/ beats[1] > 0) THEN More(since[1]) ELSE 0
    BY <1>1, <1>7 DEF FailoverTick
  <2>2. node = Nowhere => since'[1] = 0
    BY <1>2, <2>1
  <2>3. ASSUME node = 1, 1 \in enabled
        PROVE  /\ since'[1] + due' <= Interval + Jitter
               /\ beats[1] > 0 => since'[1] + due' >= Interval - Jitter
    <3>1. due > 0 /\ due' = due - 1
      BY <1>1, <1>7, <2>1, <2>3, RegistryNumbers DEF FailoverTick, Urgent, Less, Server
    <3>2. /\ since[1] + due <= Interval + Jitter
          /\ beats[1] > 0 => since[1] + due >= Interval - Jitter
      BY <2>3 DEF Paced
    <3>3. since[1] < Interval + Second /\ since'[1] \in {0, since[1] + 1}
          /\ (beats[1] > 0 => since'[1] = since[1] + 1)
      BY <1>1, <2>1, <2>3, <3>1, <3>2 DEF More
    <3> QED
      BY <1>1, <3>1, <3>2, <3>3
  <2> QED
    BY <2>1, <2>2, <2>3 DEF Paced
<1> QED
  BY <1>3, <1>4, <1>5, <1>6, <1>7 DEF Node

-----------------------------------------------------------------------------

LEMMA ConformingStep ==
    ASSUME AllowancesSuffice, ConformingInv, [FailoverNext]_failoverVars
    PROVE  ConformingInv'
<1>1. FailoverParts' /\ conforming' = conforming
  <2>1. conforming' = conforming
    BY DEF FailoverNext, failoverVars, Suite, Advertise, Discovered, Settled, TwoBeats, Followed, GiveUp,
           CleanUp, Goto, Node, Register, Heartbeat, MoveOn, FallSilent, RegisterAgain, WrongTurn,
           FailoverTick, Lapse, suiteVars
  <2> QED
    BY <2>1, StepKeepsFailoverParts DEF ConformingInv
<1> SUFFICES ASSUME conforming
             PROVE  Ordered' /\ Paced' /\ (Early' \/ Failing' \/ Late')
  BY <1>1 DEF ConformingInv
<1>2. FailoverParts /\ Ordered /\ Paced /\ (Early \/ Failing \/ Late)
  BY DEF ConformingInv
<1>3. CASE UNCHANGED failoverVars
  <2>1. Ordered'
    BY <1>2, <1>3 DEF failoverVars, Ordered
  <2>2. Early => Early'
    BY <1>3 DEF failoverVars, Early, OnlyFirstUsed
  <2>3. Failing => Failing'
    BY <1>3 DEF failoverVars, Failing, Rest
  <2>4. Late => Late'
    BY <1>3 DEF failoverVars, Late, AllUsed, NoneUsed, OnlyFirstUsed
  <2>5. Paced'
    BY <1>2, <1>3 DEF failoverVars, Paced
  <2> QED
    BY <1>2, <2>1, <2>2, <2>3, <2>4, <2>5
<1>4. CASE Suite
  <2>1. Ordered'
    BY <1>2, <1>4 DEF Suite, Advertise, Discovered, Settled, TwoBeats, Followed, GiveUp, CleanUp,
                      Goto, Ordered
  <2> QED
    BY <1>2, <1>4, <2>1, EarlySuite, LaterSuite, StepKeepsPace
<1>5. CASE \E r \in Primaries : Register(r)
  <2>1. Ordered'
    BY <1>2, <1>5 DEF Register, Ordered
  <2> QED
    BY <1>2, <1>5, <2>1, RegisterKeepsOrder, StepKeepsPace DEF Node
<1>6. CASE Heartbeat
  BY <1>2, <1>6, HeartbeatKeepsOrder, StepKeepsPace DEF Node
<1>7. CASE MoveOn
  <2>1. Ordered'
    BY <1>2, <1>7 DEF MoveOn, Ordered
  <2> QED
    BY <1>2, <1>7, <2>1, MoveOnKeepsOrder, StepKeepsPace DEF Node
<1>8. CASE FailoverTick
  <2>1. Ordered'
    BY <1>2, <1>8 DEF FailoverTick, Ordered
  <2> QED
    BY <1>2, <1>8, <2>1, TickKeepsOrder, StepKeepsPace
<1> QED
  BY <1>3, <1>4, <1>5, <1>6, <1>7, <1>8
  DEF FailoverNext, Node, FallSilent, RegisterAgain, WrongTurn, Lapse

LEMMA InitConforming == FailoverInit => ConformingInv
<1> SUFFICES ASSUME FailoverInit PROVE ConformingInv
  OBVIOUS
<1>1. FailoverParts
  BY RegistryFailoverAssumption DEF FailoverInit, FailoverParts
<1>2. Ordered
  BY DEF FailoverInit, Ordered
<1>3. Early
  BY RegistryNumbers, RegistryFailoverAssumption DEF FailoverInit, Early, OnlyFirstUsed, Nowhere
<1>4. Paced
  BY RegistryNumbers DEF FailoverInit, Paced, Nowhere
<1> QED
  BY <1>1, <1>2, <1>3, <1>4 DEF ConformingInv

LEMMA ConformingInvPasses == ConformingInv => ConformingNodePasses
<1> SUFFICES ASSUME ConformingInv, pc = "done", conforming, posts # {}, beats[1] > 0
             PROVE  Test05 /\ Test15 /\ Test16 /\ Test16_01
  BY DEF ConformingNodePasses
<1>1. AllUsed /\ Ordered /\ Paced
  BY DEF ConformingInv, Early, Failing, Late, NoneUsed
<1>2. \A r \in Registries : order[r] = Rank(r)
  <2>1. \A r \in Registries : beats[r] # 0 /\ r \in Mocks
    BY <1>1, RegistryNumbers DEF AllUsed
  <2> QED
    BY <1>1, <2>1 DEF Ordered
<1>3. Test05 /\ Test16 /\ Test16_01
  BY <1>1, RegistryNumbers DEF AllUsed, Paced, Judged, Test05, Test16, Test16_01
<1>4. Test15
  BY <1>1, <1>2, RegistryNumbers DEF AllUsed, Test15, Rank
<1> QED
  BY <1>3, <1>4

\* Whatever the interval, the advertisement's timeout and the number of servers,
\* a Node that follows IS-04 and has registered in time passes, if the allowances
\* of the countdowns suffice for its moves.
THEOREM ConformingNodesPass ==
    ASSUME AllowancesSuffice
    PROVE  FailoverSpec => []ConformingNodePasses
<1>1. ConformingInv /\ [FailoverNext]_failoverVars => ConformingInv'
  BY ConformingStep
<1> QED
  BY InitConforming, <1>1, ConformingInvPasses, PTL DEF FailoverSpec
-----------------------------------------------------------------------------
(* The places of the registries in the order of their first heartbeats.     *)

\* No place is beyond the number of registries that have one.
Placed ==
    \A r \in Mocks : order[r] <= Cardinality({q \in Mocks : order[q] # 0})

LEMMA LeastNumber ==
    ASSUME NEW T, T \subseteq Nat, T # {}
    PROVE  \E n \in T : \A m \in T : n <= m
<1> DEFINE R == OpToRel(<, Nat)
<1>1. IsWellFoundedOn(R, Nat)
  BY NatLessThanWellFounded
<1>2. PICK n \in T : \A m \in T : <<m, n>> \notin R
  <2> HIDE DEF R
  <2> QED
    BY <1>1, WFMin
<1>3. \A m \in T : ~(m < n)
  BY <1>2 DEF OpToRel
<1> QED
  BY <1>3

LEMMA RegistriesAreCounted ==
    ASSUME NEW S \in SUBSET Mocks
    PROVE  /\ IsFiniteSet(S) /\ Cardinality(S) \in Nat /\ Cardinality(S) <= Last
           /\ \A r \in Mocks \ S :
                Cardinality(S \cup {r}) = Cardinality(S) + 1 /\ Cardinality(S) + 1 <= Last
<1> DEFINE I == 1..Last
<1>1. IsFiniteSet(I) /\ Cardinality(I) = Last
  BY RegistryFailoverAssumption, FS_Interval
<1>2. Unreachable \in I /\ Registries = I \ {Unreachable} /\ Mocks = Registries \cup {Invalid}
  BY RegistryFailoverAssumption DEF Registries, Server, Unreachable, Mocks
<1>3. IsFiniteSet(Registries) /\ Cardinality(Registries) = Last - 1
  <2> HIDE DEF I
  <2> QED
    BY <1>1, <1>2, FS_RemoveElement
<1>4. IsFiniteSet(Mocks) /\ Cardinality(Mocks) = Last
  <2>1. Invalid \notin Registries
    BY RegistryNumbers
  <2>2. /\ IsFiniteSet(Registries \cup {Invalid})
        /\ Cardinality(Registries \cup {Invalid}) = Cardinality(Registries) + 1
    BY <1>3, <2>1, FS_AddElement
  <2> QED
    BY <1>2, <1>3, <2>2, RegistryFailoverAssumption
<1>5. \A T \in SUBSET Mocks :
        IsFiniteSet(T) /\ Cardinality(T) \in Nat /\ Cardinality(T) <= Last
  BY <1>4, FS_Subset, FS_CardinalityType
<1>6. \A r \in Mocks \ S : S \cup {r} \in SUBSET Mocks
  OBVIOUS
<1>7. \A r \in Mocks \ S : Cardinality(S \cup {r}) = Cardinality(S) + 1
  BY <1>5, FS_AddElement
<1> QED
  BY <1>5, <1>6, <1>7, RegistryFailoverAssumption

\* There is a last place so far, that is, a greatest one.
LEMMA SomePlaceIsLast ==
    ASSUME order \in [Mocks -> 0..Last]
    PROVE  \E n \in 0..Last : /\ \E r \in Mocks : order[r] = n
                              /\ \A r \in Mocks : order[r] <= n
<1> DEFINE T == {n \in 0..Last : \A r \in Mocks : order[r] <= n}
<1>1. PICK n \in T : \A m \in T : n <= m
  <2>1. T \subseteq Nat /\ Last \in T
    BY RegistryFailoverAssumption
  <2> HIDE DEF T
  <2> QED
    BY <2>1, LeastNumber
<1>2. \E r \in Mocks : order[r] = n
  <2> SUFFICES ASSUME \A r \in Mocks : order[r] # n PROVE FALSE
    OBVIOUS
  <2>1. \A r \in Mocks : order[r] \in Nat /\ order[r] < n
    BY RegistryFailoverAssumption
  <2>2. 1 \in Mocks
    BY RegistryNumbers
  <2>3. n - 1 \in T
    BY <2>1, <2>2, RegistryFailoverAssumption
  <2> QED
    BY <1>1, <2>3, RegistryFailoverAssumption
<1> QED
  BY <1>2

\* A first heartbeat takes the next place.
LEMMA HeartbeatPlaces ==
    ASSUME FailoverTypeOK, Placed, Heartbeat
    PROVE  order' \in [Mocks -> 0..Last] /\ Placed'
<1> DEFINE last == CHOOSE n \in 0..Last : /\ \E r \in Mocks : order[r] = n
                                          /\ \A r \in Mocks : order[r] <= n
           S == {q \in Mocks : order[q] # 0}
<1>1. /\ order' = [order EXCEPT ![node] = IF @ = 0 THEN 1 + last ELSE @] /\ node \in Mocks
      /\ order \in [Mocks -> 0..Last]
  BY DEF Heartbeat, FailoverTypeOK
<1>2. last \in 0..Last /\ \E r \in Mocks : order[r] = last
  BY <1>1, SomePlaceIsLast
<1> HIDE DEF last
<1>3. CASE order[node] # 0
  <2>1. order' = order
    BY <1>1, <1>3
  <2> QED
    BY <1>1, <2>1 DEF Placed
<1>4. CASE order[node] = 0
  <2>1. S \in SUBSET Mocks /\ node \in Mocks \ S
    BY <1>1, <1>4
  <2>2. last <= Cardinality(S) /\ \A r \in Mocks : order[r] <= Cardinality(S)
    BY <1>2 DEF Placed
  <2>3. /\ order'[node] = 1 + last
        /\ \A r \in Mocks : r # node => order'[r] = order[r]
    BY <1>1, <1>4
  <2>4. {q \in Mocks : order'[q] # 0} = S \cup {node}
    BY <1>2, <2>1, <2>3, RegistryFailoverAssumption
  <2> HIDE DEF S
  <2>5. /\ Cardinality(S \cup {node}) = Cardinality(S) + 1 /\ Cardinality(S) \in Nat
        /\ Cardinality(S) + 1 <= Last
    BY <2>1, RegistriesAreCounted
  <2>6. last \in Nat /\ \A r \in Mocks : order[r] \in Nat
    BY <1>1, <1>2, RegistryFailoverAssumption
  <2>7. \A r \in Mocks : order'[r] <= Cardinality(S) + 1
    BY <2>2, <2>3, <2>5, <2>6
  <2>8. 1 + last \in 0..Last
    BY <2>2, <2>5, <2>6, RegistryFailoverAssumption
  <2> QED
    BY <1>1, <2>4, <2>5, <2>7, <2>8 DEF Placed
<1> QED
  BY <1>3, <1>4

LEMMA StepKeepsFailoverTypes ==
    ASSUME FailoverTypeOK, Placed, TurnInv, [FailoverNext]_failoverVars
    PROVE  FailoverTypeOK' /\ Placed'
<1>1. FailoverParts'
  BY StepKeepsFailoverParts DEF TurnInv
<1> DEFINE Others == /\ current' \in 0..Last /\ quiet' \in 0..Interval + Second
                     /\ visible' \subseteq Places /\ posts' \subseteq Mocks
                     /\ conforming' \in BOOLEAN /\ lapses' \in 0..MaxLapses
                     /\ node' \in 0..Invalid
<1>2. SUFFICES Others /\ order' \in [Mocks -> 0..Last] /\ Placed'
  BY <1>1 DEF FailoverParts, FailoverTypeOK
<1> USE RegistryFailoverAssumption
<1>3. CASE UNCHANGED failoverVars
  BY <1>3 DEF failoverVars, FailoverTypeOK, Placed
<1>4. CASE Suite
  <2>1. UNCHANGED <<quiet, posts, beats, order, conforming, lapses, node>>
    BY <1>4 DEF Suite, Advertise, Discovered, Settled, TwoBeats, Followed, GiveUp, CleanUp, Goto
  <2>2. current' \in 0..Last
    <3>1. CASE Followed
      BY <3>1, NextIsLater DEF Followed, TurnInv, Registries, Server
    <3>2. CASE TwoBeats
      BY <3>2 DEF TwoBeats
    <3>3. CASE UNCHANGED current
      BY <3>3 DEF FailoverTypeOK
    <3> QED
      BY <1>4, <3>1, <3>2, <3>3 DEF Suite, Advertise, Discovered, Settled, GiveUp, CleanUp
  <2>3. visible' \subseteq Places
    <3>1. CASE Advertise
      <4>1. Primaries \subseteq Places
        BY DEF Primaries, Places, Server
      <4> QED
        BY <3>1, <4>1 DEF Advertise
    <3>2. CASE TwoBeats \/ CleanUp
      BY <3>2 DEF TwoBeats, CleanUp
    <3>3. CASE UNCHANGED visible
      BY <3>3 DEF FailoverTypeOK
    <3> QED
      BY <1>4, <3>1, <3>2, <3>3 DEF Suite, Discovered, Settled, Followed, GiveUp
  <2> QED
    BY <2>1, <2>2, <2>3 DEF FailoverTypeOK, Placed
<1>5. ASSUME NEW r \in Primaries, Register(r)
      PROVE  Others /\ order' \in [Mocks -> 0..Last] /\ Placed'
  <2>1. r \in Mocks /\ r \in 0..Invalid
    BY RegistryNumbers DEF Invalid
  <2> QED
    BY <1>5, <2>1 DEF Register, suiteVars, FailoverTypeOK, Placed
<1>6. CASE Heartbeat
  <2>1. Others
    BY <1>6 DEF Heartbeat, suiteVars, FailoverTypeOK
  <2> QED
    BY <1>6, <2>1, HeartbeatPlaces
<1>7. \A q \in Places : q \in 0..Invalid
  BY DEF Places, Server, Invalid
<1>8. CASE MoveOn
  <2>1. node + 1 \in visible => node + 1 \in Places
    BY DEF FailoverTypeOK
  <2> QED
    BY <1>7, <1>8, <2>1 DEF MoveOn, suiteVars, FailoverTypeOK, Placed
<1>9. Lapse => lapses' \in 0..MaxLapses
  BY DEF Lapse, FailoverTypeOK
<1>10. CASE FallSilent
  <2>1. Stopped \in 0..Invalid
    BY DEF Stopped, Invalid
  <2> QED
    BY <1>9, <1>10, <2>1 DEF FallSilent, suiteVars, FailoverTypeOK, Placed
<1>11. CASE RegisterAgain
  BY <1>9, <1>11 DEF RegisterAgain, suiteVars, FailoverTypeOK, Placed
<1>12. CASE WrongTurn
  BY <1>7, <1>9, <1>12 DEF WrongTurn, suiteVars, FailoverTypeOK, Placed
<1>13. CASE FailoverTick
  BY <1>13 DEF FailoverTick, More, FailoverTypeOK, Placed
<1> QED
  BY <1>3, <1>4, <1>5, <1>6, <1>8, <1>10, <1>11, <1>12, <1>13 DEF FailoverNext, Node

-----------------------------------------------------------------------------
(* All races at once.                                                       *)

LEMMA StepKeepsTimeoutTypes == TypeOK /\ [Next]_vars => TypeOK'
  BY FacadeTimeoutAssumption
  DEF TypeOK, Next, vars, Tick, StartWaiting, PostAnswer, ReceiveAnswer, TakeAnswer, TimeOut

LEMMA StepKeepsTimedTypes ==
    ASSUME TimedTypeOK, [TimedNext]_timedVars
    PROVE  TimedTypeOK' /\ [Next]_vars
<1>1. [Next]_vars
  BY DEF TimedNext, timedVars, Plan, Wake, Change, Wait, Press, Receive, Conclude, Elapse, Next
<1>2. TypeOK' /\ age \in Nat
  BY <1>1, StepKeepsTimeoutTypes DEF TimedTypeOK, TypeOK
<1> USE <1>1, <1>2, TimedQuestionAssumption DEF TimedTypeOK
<1>3. CASE Plan
  <2>1. PICK delay \in Delays : planned' = age + delay
    BY <1>3 DEF Plan
  <2>2. planned' \in Nat
    BY <2>1
  <2> QED
    BY <1>3, <2>2 DEF Plan
<1>4. CASE Wake
  <2>1. until' \in Nat
    BY <1>4 DEF Wake
  <2> QED
    BY <1>4, <2>1 DEF Wake
<1>7. CASE Change \/ Receive
  BY <1>7 DEF Change, Receive
<1>5. CASE Wait \/ Press \/ Conclude \/ Elapse
  BY <1>5 DEF Wait, Press, Conclude, Elapse
<1>6. CASE UNCHANGED timedVars
  BY <1>6 DEF timedVars
<1> QED
  BY <1>3, <1>4, <1>5, <1>6, <1>7 DEF TimedNext

\* Inductive invariant of the types alone.
WellFormed == TimedTypeOK /\ FailoverTypeOK /\ Placed /\ TurnInv

LEMMA InitWellFormed == RaceInit => WellFormed
<1> SUFFICES ASSUME RaceInit PROVE WellFormed
  OBVIOUS
<1>1. TimedTypeOK
  BY TimedInvInit DEF RaceInit, TimedInv
<1>2. FailoverTypeOK /\ Placed
  <2>1. \A r \in Mocks : order[r] = 0
    BY DEF RaceInit, FailoverInit
  <2>2. Cardinality({q \in Mocks : order[q] # 0}) \in Nat
    BY RegistriesAreCounted
  <2> QED
    BY <2>1, <2>2, RegistryFailoverAssumption
    DEF RaceInit, FailoverInit, FailoverTypeOK, Placed, Nowhere, Invalid
<1>3. TurnInv
  BY RegistryFailoverAssumption
  DEF RaceInit, FailoverInit, TurnInv, FailoverParts, RegistriesAreTakenInTurn
<1> QED
  BY <1>1, <1>2, <1>3 DEF WellFormed

\* A step of one race is a step of its own specification, and leaves the others alone.
LEMMA RacesAreApart ==
    ASSUME [RaceNext]_raceVars
    PROVE  /\ race' = race
           /\ race = "question" =>
                [Next]_vars /\ UNCHANGED <<step, event, planned, until, changed, received, prompt>>
           /\ race # "question" => [TimedNext]_timedVars
           /\ [FailoverNext]_failoverVars
<1>1. CASE UNCHANGED raceVars
  BY <1>1 DEF raceVars, timedVars
<1>2. CASE OfQuestion(Next)
  BY <1>2 DEF OfQuestion
<1>3. CASE OfTimed(TimedNext)
  BY <1>3 DEF OfTimed
<1>4. CASE OfFailover(FailoverNext)
  BY <1>4 DEF OfFailover, timedVars
<1> QED
  BY <1>1, <1>2, <1>3, <1>4 DEF RaceNext

LEMMA StepKeepsWellFormed ==
    ASSUME WellFormed, [RaceNext]_raceVars
    PROVE  WellFormed'
<1>1. TimedTypeOK'
  <2>1. CASE race = "question"
    BY <2>1, RacesAreApart, StepKeepsTimeoutTypes DEF WellFormed, TimedTypeOK
  <2>2. CASE race # "question"
    BY <2>2, RacesAreApart, StepKeepsTimedTypes DEF WellFormed
  <2> QED
    BY <2>1, <2>2
<1>2. FailoverTypeOK' /\ Placed'
  BY RacesAreApart, StepKeepsFailoverTypes DEF WellFormed
<1>3. TurnInv'
  BY RacesAreApart, StepKeepsTurn DEF WellFormed
<1> QED
  BY <1>1, <1>2, <1>3 DEF WellFormed

\* The variables of all races are of their types: no registry gets a place in the
\* order of the first heartbeats that is beyond the number of registries, and the
\* timers of the suite and of the page do not run below zero.
THEOREM RacesAreWellFormed == RaceSpec => []RaceTypeOK
<1>1. WellFormed /\ [RaceNext]_raceVars => WellFormed'
  BY StepKeepsWellFormed
<1>2. WellFormed => RaceTypeOK
  BY DEF WellFormed, RaceTypeOK
<1> QED
  BY InitWellFormed, <1>1, <1>2, PTL DEF RaceSpec

\* Inductive invariant: that of each race, where it is run.
RaceInv ==
    /\ WellFormed /\ TimeoutInv /\ ConformingInv
    /\ IF race = "question" THEN planned = 0 /\ changed = 0 /\ received = 0 ELSE TimedInv

LEMMA InitRaceInv == RaceInit => RaceInv
<1> SUFFICES ASSUME RaceInit PROVE RaceInv
  OBVIOUS
<1>1. TimeoutInv
  BY TimeoutInvInit DEF RaceInit, TimedInit
<1>2. TimedInv
  BY TimedInvInit DEF RaceInit
<1>3. ConformingInv
  BY InitConforming DEF RaceInit
<1> QED
  BY <1>1, <1>2, <1>3, InitWellFormed DEF RaceInit, TimedInit, RaceInv

LEMMA StepKeepsRaceInv ==
    ASSUME MarginSuffices, AllowancesSuffice, RaceInv, [RaceNext]_raceVars
    PROVE  RaceInv'
<1>1. WellFormed'
  BY StepKeepsWellFormed DEF RaceInv
<1>2. TimeoutInv'
  <2>1. [Next]_vars
    BY RacesAreApart, StepKeepsTimedTypes DEF RaceInv, WellFormed
  <2> QED
    BY <2>1, TimeoutInvStep DEF RaceInv
<1>3. ConformingInv'
  BY RacesAreApart, ConformingStep DEF RaceInv
<1>4. CASE race = "question"
  BY <1>1, <1>2, <1>3, <1>4, RacesAreApart DEF RaceInv
<1>5. CASE race # "question"
  BY <1>1, <1>2, <1>3, <1>5, RacesAreApart, TimedInvStep DEF RaceInv
<1> QED
  BY <1>4, <1>5

\* Where the margin, the limit and the allowances pay for what they are meant to
\* pay for, no race is lost: no answer comes too late, no verdict is unfair, no
\* conforming Node fails, and no registry is taken away out of turn.
THEOREM RacesAreWon ==
    ASSUME MarginSuffices, LimitSuffices, AllowancesSuffice
    PROVE  RaceSpec => [](/\ NoLateAnswer /\ VerdictIsFair
                          /\ ConformingNodePasses /\ RegistriesAreTakenInTurn)
<1>1. RaceInv /\ [RaceNext]_raceVars => RaceInv'
  BY StepKeepsRaceInv
<1>2. RaceInv => VerdictIsFair
  <2> SUFFICES ASSUME RaceInv PROVE VerdictIsFair
    OBVIOUS
  <2>1. CASE race = "question"
    BY <2>1, TimedQuestionAssumption DEF RaceInv, VerdictIsFair, Judgement
  <2>2. CASE race # "question"
    BY <2>2, TimedInvIsFair DEF RaceInv
  <2> QED
    BY <2>1, <2>2
<1>3. RaceInv => NoLateAnswer /\ ConformingNodePasses /\ RegistriesAreTakenInTurn
  BY ConformingInvPasses DEF RaceInv, TimeoutInv, WellFormed, TurnInv
<1> QED
  BY InitRaceInv, <1>1, <1>2, <1>3, PTL DEF RaceSpec
=============================================================================
