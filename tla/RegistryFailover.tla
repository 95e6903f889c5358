-------------------------- MODULE RegistryFailover --------------------------
(***************************************************************************)
(* do_registry_basics_prereqs of nmostesting/suites/IS0401Test.py: the     *)
(* suite advertises mock registries to the Node under test, lets it        *)
(* register, and takes the registries away one by one while it watches to  *)
(* which of them the Node sends its heartbeats.  Beside the first of them  *)
(* is one whose advertisement no Node should follow.  The Node is          *)
(* external: it follows IS-04 if it is conforming, and may otherwise use   *)
(* that registry, fall silent, register again, ignore the priorities, and  *)
(* send its heartbeats at any distance.                                    *)
(*                                                                         *)
(* Time passes in ticks.  The suite's loops poll often enough to see what  *)
(* happens within the same tick.                                           *)
(***************************************************************************)
EXTENDS Naturals

CONSTANTS
    Last,           \* servers 1..Last by priority; Last-1 is an address that never answers
    Second,         \* ticks of the suite's allowance of one second
    Interval,       \* HEARTBEAT_INTERVAL, the distance of a conforming Node's heartbeats ...
    Jitter,         \* ... give or take as much
    AdvertTimeout,  \* DNS_SD_ADVERT_TIMEOUT
    Irregular,      \* the distances of any other Node's heartbeats
    MaxLapses,      \* bound: how often it does what a conforming Node does not
    Latency,        \* the longest the Node takes to move on after a failed heartbeat
    ConnectTimeout  \* after which it gives up a connection attempt

ASSUME RegistryFailoverAssumption ==
    /\ Last \in Nat /\ Last >= 4
    /\ Second \in Nat \ {0} /\ Interval \in Nat \ {0} /\ AdvertTimeout \in Nat
    /\ Jitter \in Nat /\ Jitter < Interval /\ Irregular \subseteq Nat /\ MaxLapses \in Nat
    /\ Latency \in Nat /\ ConnectTimeout \in Nat

\* What the allowances have to pay for: heartbeats that are not quite regular, a
\* move to the next registry, and one past the address that never answers.
AllowancesSuffice ==
    /\ 2 * Jitter <= Second
    /\ Jitter + Latency < Second
    /\ Jitter + Latency + ConnectTimeout + Latency < Interval + Second

VARIABLES
    pc,         \* the suite: "reset", "discover", "settle", "beats", "failover", "clean", "done"
    current,    \* the registry that was disabled last
    timer,      \* what is left of the wait in progress
    quiet,      \* time since the last registration, or the reset: last_time
    enabled,    \* registries that answer
    visible,    \* servers that are advertised
    posts,      \* registries with a POST of the Node's resources
    beats,      \* heartbeats that each registry has answered, counted up to 2
    order,      \* registries by their first heartbeat
    since,      \* time since the last heartbeat, or before it the first POST
    uneven,     \* registries that had a heartbeat too late or too soon
    conforming, \* the Node under test follows IS-04
    lapses,     \* how often it has not
    node,       \* where the Node sends its heartbeats
    due         \* time until the Node's next heartbeat

suiteVars == <<pc, current, timer, enabled, visible, conforming>>
failoverVars ==
    <<pc, current, timer, quiet, enabled, visible, posts, beats, order, since, uneven,
      conforming, lapses, node, due>>

Server == 1..Last
Unreachable == Last - 1
Registries == Server \ {Unreachable}
Nowhere == 0
Stopped == Last + 1

\* The registry of the invalid advertisements, and where a Node can send to.
Invalid == Last + 2
Places == Server \cup {Invalid}
Mocks == Registries \cup {Invalid}

\* The two that are there from the start, one of which test_05 looks at.
Primaries == {1, Invalid}

NextRegistry(r) == IF r + 1 = Unreachable THEN Last ELSE r + 1

FailoverTypeOK ==
    /\ pc \in {"reset", "discover", "settle", "beats", "failover", "clean", "done"}
    /\ current \in 0..Last
    /\ timer \in Nat /\ quiet \in 0..Interval + Second /\ due \in Nat
    /\ enabled \subseteq Mocks /\ visible \subseteq Places
    /\ posts \subseteq Mocks
    /\ beats \in [Mocks -> 0..2]
    /\ order \in [Mocks -> 0..Last]
    /\ since \in [Primaries -> 0..Interval + Second] /\ uneven \subseteq Primaries
    /\ conforming \in BOOLEAN /\ lapses \in 0..MaxLapses /\ node \in 0..Invalid

FailoverInit ==
    /\ pc = "reset" /\ current = 0 /\ timer = 0 /\ quiet = 0
    /\ enabled = {} /\ visible = {} /\ posts = {}
    /\ beats = [r \in Mocks |-> 0] /\ order = [r \in Mocks |-> 0]
    /\ since = [r \in Primaries |-> 0] /\ uneven = {}
    /\ conforming \in BOOLEAN /\ lapses = 0 /\ node = Nowhere /\ due = 0

-----------------------------------------------------------------------------
(* The suite.                                                               *)

Goto(to) ==
    /\ pc' = to
    /\ UNCHANGED <<quiet, posts, beats, order, since, uneven, conforming, lapses, node, due>>

Advertise ==
    /\ pc = "reset"
    /\ enabled' = Primaries /\ visible' = Primaries /\ timer' = AdvertTimeout
    /\ Goto("discover") /\ UNCHANGED current

Discovered ==
    /\ pc = "discover"
    /\ posts # {} \/ timer = 0
    /\ Goto("settle") /\ UNCHANGED <<current, timer, enabled, visible>>

\* Fault: the second heartbeat is awaited from a Node that sends none.
SettledFault ==
    /\ pc = "settle" /\ quiet = Interval + Second
    /\ Goto("beats")
    /\ UNCHANGED <<current, timer, enabled, visible>>

\* Nothing has been registered with either for longer than the interval.  The
\* tests of failover are made only if the Node sends heartbeats at all.
Settled ==
    /\ pc = "settle" /\ quiet = Interval + Second
    /\ Goto(IF \E r \in Primaries : beats[r] > 0 THEN "beats" ELSE "clean")
    /\ UNCHANGED <<current, timer, enabled, visible>>

\* Fault: no allowance for the address that never answers.
CountdownFault(r) == Interval + Second

\* The wait for the first heartbeat to the registry after r.
Countdown(r) == Interval + Second + (IF NextRegistry(r) = Last THEN Interval ELSE 0)

\* One of the two has had two heartbeats: all other registries are enabled and
\* advertised, and these two are disabled.
TwoBeats ==
    /\ pc = "beats" /\ \E r \in Primaries : beats[r] = 2
    /\ visible' = Places /\ enabled' = Registries \ {1}
    /\ current' = 1 /\ timer' = Countdown(1)
    /\ Goto("failover")

\* Fault: the registry after the next is disabled with it.
FollowedFault ==
    /\ pc = "failover" /\ beats[NextRegistry(current)] > 0
    /\ LET next == NextRegistry(current)
       IN /\ current' = next
          /\ enabled' = enabled \ {next, NextRegistry(next)}
          /\ timer' = Countdown(next)
          /\ Goto(IF next = Last THEN "clean" ELSE "failover")
    /\ UNCHANGED visible

\* The Node has come to the next registry, which is disabled in its turn.
Followed ==
    /\ pc = "failover" /\ beats[NextRegistry(current)] > 0
    /\ LET next == NextRegistry(current)
       IN /\ current' = next /\ enabled' = enabled \ {next}
          /\ timer' = Countdown(next)
          /\ Goto(IF next = Last THEN "clean" ELSE "failover")
    /\ UNCHANGED visible

\* "Testing has failed at this point, so we might as well abort."
GiveUp ==
    /\ pc = "failover" /\ timer = 0 /\ beats[NextRegistry(current)] = 0
    /\ Goto("clean") /\ UNCHANGED <<current, timer, enabled, visible>>

CleanUp ==
    /\ pc = "clean"
    /\ enabled' = {} /\ visible' = {}
    /\ Goto("done") /\ UNCHANGED <<current, timer>>

Suite ==
    \/ Advertise
    \/ Discovered
    \/ Settled
    \/ TwoBeats
    \/ Followed
    \/ GiveUp
    \/ CleanUp

-----------------------------------------------------------------------------
(* The Node under test.                                                     *)

\* A conforming Node does not register where the version or the protocol that
\* is advertised is none of its own.
Register(r) ==
    /\ node = Nowhere /\ r \in Primaries \cap visible \cap enabled
    /\ conforming => r # Invalid
    /\ node' = r /\ due' \in 1..Interval + Jitter
    /\ posts' = posts \cup {r} /\ quiet' = 0
    /\ UNCHANGED <<suiteVars, beats, order, since, uneven, lapses>>

\* Time from one heartbeat of the Node to the next.
Distances ==
    IF conforming THEN Interval - Jitter..Interval + Jitter ELSE Irregular

\* "Heartbeats are too frequent": closer than the interval by half a second ...
TooFrequent(r) == beats[r] > 0 /\ 2 * since[r] + Second < 2 * Interval

\* ... or later by as much, the first of them after the registration.
TooLate(r) == 2 * since[r] > 2 * Interval + Second

\* The shared resources of the mock registries make a heartbeat to any of them
\* a heartbeat of a registered Node.
Heartbeat ==
    /\ node \in enabled /\ due = 0
    /\ beats' = [beats EXCEPT ![node] = IF @ < 2 THEN @ + 1 ELSE @]
    /\ order' = [order EXCEPT ![node] =
                  IF @ = 0 THEN 1 + (CHOOSE n \in 0..Last :
                                       /\ \E r \in Mocks : order[r] = n
                                       /\ \A r \in Mocks : order[r] <= n)
                  ELSE @]
    /\ since' = [r \in Primaries |-> IF r = node THEN 0 ELSE since[r]]
    /\ uneven' = uneven \cup {r \in Primaries \cap {node} : TooFrequent(r) \/ TooLate(r)}
    /\ due' \in Distances
    /\ UNCHANGED <<suiteVars, quiet, posts, lapses, node>>

\* 503 from a disabled registry, or no answer: on to the next by priority.
MoveOn ==
    /\ node \in Places \ enabled /\ due = 0
    /\ IF node + 1 \in visible
       THEN /\ node' = node + 1
            /\ \E delay \in 0..Latency :
                  due' = delay + (IF node + 1 = Unreachable THEN ConnectTimeout ELSE 0)
       ELSE /\ due' = Interval /\ UNCHANGED node
    /\ UNCHANGED <<suiteVars, quiet, posts, beats, order, since, uneven, lapses>>

Lapse == ~conforming /\ lapses < MaxLapses /\ lapses' = lapses + 1

FallSilent ==
    /\ Lapse /\ node \in Places
    /\ node' = Stopped
    /\ UNCHANGED <<suiteVars, quiet, posts, beats, order, since, uneven, due>>

RegisterAgain ==
    /\ Lapse /\ node \in enabled
    /\ quiet' = 0 /\ posts' = posts \cup {node}
    /\ UNCHANGED <<suiteVars, beats, order, since, uneven, node, due>>

\* Priorities are ignored.
WrongTurn ==
    /\ Lapse /\ node \in Places
    /\ node' \in visible \ {node}
    /\ UNCHANGED <<suiteVars, quiet, posts, beats, order, since, uneven, due>>

Node == (\E r \in Primaries : Register(r)) \/ Heartbeat \/ MoveOn

-----------------------------------------------------------------------------

\* What ends the suite's wait has come: its loops poll.
Ready ==
    \/ pc \in {"reset", "clean"}
    \/ pc = "discover" /\ (posts # {} \/ timer = 0)
    \/ pc = "settle" /\ quiet = Interval + Second
    \/ pc = "beats" /\ \E r \in Primaries : beats[r] = 2
    \/ pc = "failover" /\ (beats[NextRegistry(current)] > 0 \/ timer = 0)

\* Nothing waits that would be done before time goes on.
Urgent == Ready \/ (node \in Places /\ due = 0)

\* Fault: the countdown goes on below zero.
LessFault(n) == n - 1

Less(n) == IF n = 0 THEN 0 ELSE n - 1

\* Longer than the interval and a second is not told apart.
More(n) == IF n = Interval + Second THEN n ELSE n + 1

FailoverTick ==
    /\ ~Urgent
    /\ timer' = Less(timer) /\ due' = Less(due) /\ quiet' = More(quiet)
    /\ since' = [r \in Primaries |->
                   IF r \in enabled /\ (r \in posts \/ beats[r] > 0) THEN More(since[r]) ELSE 0]
    /\ UNCHANGED <<pc, current, enabled, visible, posts, beats, order, uneven,
                   conforming, lapses, node>>

FailoverNext ==
    \/ Suite
    \/ Node
    \/ FallSilent
    \/ RegisterAgain
    \/ WrongTurn
    \/ FailoverTick

FailoverSpec == FailoverInit /\ [][FailoverNext]_failoverVars

-----------------------------------------------------------------------------
(* The tests that use what was collected, for a Node that did register.     *)

\* registry_primary_data: a Node that preferred the invalid registry is judged
\* by what it did there.
Judged == IF Invalid \in posts THEN Invalid ELSE 1

\* Two heartbeats at least, all of them an interval apart.
Test05 == Judged \in posts /\ beats[Judged] >= 2 /\ Judged \notin uneven

\* Every failover registry but the last was contacted, in order of priority.
Test15 ==
    /\ \A r \in Registries \ {1, Last} : beats[r] > 0
    /\ \A r, s \in Registries \ {1, Last} : r < s => order[r] < order[s]

\* ... and none of them was registered with again.
Test16 ==
    /\ \A r \in Registries \ {1, Last} : beats[r] > 0
    /\ posts \subseteq {1, 2, Last}

Test16_01 == beats[Last] > 0 /\ Last \notin posts

-----------------------------------------------------------------------------

\* A Node that follows IS-04 and has registered within the suite's wait passes
\* the tests of its heartbeats, of their distances, of its failover and of its
\* connection timeout: the suite's countdowns leave it the time it needs.
ConformingNodePasses ==
    pc = "done" /\ conforming /\ posts # {} /\ beats[1] > 0 =>
        Test05 /\ Test15 /\ Test16 /\ Test16_01

\* Registries are taken away in the order of their priorities, each after the
\* Node has used it, whatever the Node does otherwise: only a Node that sent two
\* heartbeats to the invalid registry loses the first unused.
RegistriesAreTakenInTurn ==
    pc = "failover" =>
        \A r \in Registries \ enabled :
            /\ r <= current
            /\ beats[r] > 0 \/ (r = 1 /\ beats[Invalid] = 2)
=============================================================================
