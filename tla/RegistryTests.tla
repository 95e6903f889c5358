--------------------------- MODULE RegistryTests ---------------------------
(***************************************************************************)
(* The registry suite (nmostesting/suites/IS0402Test.py): the suite plays  *)
(* a Node that registers, updates, keeps alive and removes its resources,  *)
(* and a client that hears of it over one websocket per type of resource.  *)
(*                                                                         *)
(* Some tests make up new ids; four share those of the test data and find  *)
(* what the one before has left.  Versions are counted from 1, 0 is for    *)
(* none.  Time goes by while the suite sleeps.                             *)
(***************************************************************************)
EXTENDS Suite

CONSTANTS
    Types,       \* the types of resource in the order in which they are posted
    Parent,      \* what each type belongs to; a Node belongs to itself
    Collection,  \* the registry's garbage collection interval
    WsTimeout,   \* CONFIG.WS_MESSAGE_TIMEOUT
    Auth         \* CONFIG.ENABLE_AUTH

Type == Range(Types)
Node == Types[1]

\* What a type belongs to is posted before it, a Device or the Node.
RegistryTestsAssumption ==
    /\ Types \in Seq(Type) /\ Types # <<>> /\ \A j, k \in DOMAIN Types : Types[j] = Types[k] => j = k
    /\ Parent \in [Type -> Type] /\ Parent[Node] = Node /\ \A r \in Type : Parent[Parent[r]] = Node
    /\ \A k \in 2..Len(Types) : \E j \in 1..(k - 1) : Parent[Types[k]] = Types[j]
    /\ Collection \in Nat /\ WsTimeout \in 1..(Collection - 1)

Faults == {"none", "invalid", "update", "orphans", "immortal", "children", "heartbeat", "conflict",
           "client", "sync", "modified", "removed", "added", "silent"}

Event == [pre : 0..3, post : 0..3]

TypeOK ==
    /\ device.res \in [Type -> 0..3] /\ device.age \in 0..Collection
    /\ \A r \in Type : Range(device.wire[r]) \cup Range(noted.got[r]) \subseteq Event
    /\ noted.data \in [Type -> 1..3]
    /\ \A t \in DOMAIN verdict : verdict[t] \in Verdict

-----------------------------------------------------------------------------
(* The registry.                                                            *)

\* What belongs to a resource, itself included.
Below(r) == {q \in Type : q = r \/ Parent[q] = r \/ Parent[Parent[q]] = r}

\* The events a mistaken registry would rather send.
Spoilt(fault, pre, post) ==
    CASE fault = "silent" -> <<>>
      [] fault = "sync" /\ pre = post -> <<[pre |-> 0, post |-> post]>>
      [] fault = "modified" /\ pre # post /\ pre > 0 /\ post > 0 -> <<[pre |-> post, post |-> post]>>
      [] fault = "removed" /\ post = 0 -> <<[pre |-> pre, post |-> pre]>>
      [] fault = "added" /\ pre = 0 -> <<>>
      [] OTHER -> <<[pre |-> pre, post |-> post]>>

\* A resource is stored or removed, and the open websockets are told.
Put(d, changes) ==
    [d EXCEPT !.res = [r \in Type |-> IF r \in DOMAIN changes THEN changes[r] ELSE d.res[r]],
              !.wire = [r \in Type |->
                  IF r \in DOMAIN changes /\ d.open /\ (changes[r] # d.res[r])
                  THEN d.wire[r] \o Spoilt(d.fault, d.res[r], changes[r]) ELSE d.wire[r]]]

Unregister(d, gone) == Put(d, [r \in {q \in gone : d.res[q] > 0} |-> 0])

\* What a DELETE takes with it.
Removed(d, r) == IF d.fault = "children" THEN {r} ELSE Below(r)

\* The Node is removed when no heartbeat has come for the interval.
Collect(d) == IF d.fault = "immortal" THEN d ELSE Unregister(d, Type)

\* The registry as new ids see it: nothing registered but these.
Only(d, these) == [d EXCEPT !.res = [r \in Type |-> IF r \in these THEN 1 ELSE 0]]

\* Whether a change of the Node renews its health, is the registry's choice.
\* POST resource: 201 or 200 when it is stored, 400 when its parent is not registered.
Code(d, r) ==
    CASE r # Node /\ d.res[Parent[r]] = 0 /\ d.fault # "orphans" -> 400
      [] OTHER -> IF d.res[r] = 0 \/ d.fault = "update" THEN 201 ELSE 200
Post(d, r, version) ==
    IF Code(d, r) = 400 THEN d
    ELSE [Put(d, [q \in {r} |-> version]) EXCEPT !.age = IF r = Node /\ (d.renews \/ d.res[Node] = 0) THEN 0 ELSE @]

-----------------------------------------------------------------------------
(* The suite.                                                               *)

Own == {"test_27", "test_28", "test_30", "test_31"}  \* use the ids of the test data
Order == <<"test_03", "test_04", "test_05", "test_15", "test_26", "test_27", "test_28", "test_30",
           "test_31", "test_32", "test_33">>
\* How long the tests sleep in each step.
Sleeps == [expire |-> Collection + 1, sync |-> WsTimeout, modified |-> WsTimeout,
           removed |-> WsTimeout, added |-> WsTimeout]
Sleeping == ~Ended /\ at.step \in DOMAIN Sleeps /\ at.tries < Sleeps[at.step]
Slept(test, step) == On({test}, step) /\ at.tries = Sleeps[step]

\* Time goes by for the registry while the suite sleeps; what was sent has come by the end.
Tick ==
    /\ Sleeping
    /\ at.tries + 1 = Sleeps[at.step] => \A r \in Type : device.wire[r] = <<>>
    /\ LET d == [device EXCEPT !.age = IF @ = Collection THEN @ ELSE @ + 1]
       IN  device' = IF device.age + 1 = Collection THEN Collect(d) ELSE d
    /\ Step(at.step, at.tries + 1) /\ UNCHANGED noted

Deliver(r) ==
    /\ device.wire[r] # <<>>
    /\ device' = [device EXCEPT !.wire[r] = Tail(@)]
    /\ noted' = [noted EXCEPT !.got[r] = Append(@, Head(device.wire[r]))]
    /\ UNCHANGED <<at, verdict>>

Quiet == [r \in Type |-> <<>>]

Init ==
    /\ \E plan \in Plans(Order) : at = Position(plan)
    /\ \E fault \in Faults, left \in {0, 1}, age \in 0..(Collection - 1), renews \in BOOLEAN :
         device = [fault |-> fault, renews |-> renews, res |-> [r \in Type |-> left], age |-> IF left = 0 THEN 0 ELSE age,
                   wire |-> Quiet, open |-> FALSE]
    /\ noted = [data |-> [r \in Type |-> 1], old |-> [r \in Type |-> 1], got |-> Quiet]
    /\ verdict = NoVerdicts(Order)

SetUp == On({"set_up_tests", "tear_down_tests"}, "begin") /\ Conclude("PASS") /\ UNCHANGED <<device, noted>>

\* The tests with new ids judge by what answers the resources get whose parents, if any,
\* were posted before them ...
Above(r) == {q \in Type : r \in Below(q)} \ {r}
Created(d) == \A r \in Type : Code(Only(d, Above(r)), r) = 201
Changed(d) == \A r \in Type : Code(Only(d, Above(r) \cup {r}), r) = 200
Refused(d) == \A r \in Type \ {Node} : Code(Only(d, {}), r) = 400
Judged(ok) == Conclude(IF ok THEN "PASS" ELSE "FAIL")

\* ... for new resources, invalid ones, changed ones, and ones without a parent; and for
\* versions that conflict and the clients of others.
NewIds ==
    /\ \/ On({"test_03", "test_05"}, "begin") /\ Judged(Created(device))
       \/ On({"test_04"}, "begin") /\ Judged(device.fault # "invalid")
       \/ On({"test_15"}, "begin") /\ Judged(Created(device) /\ Changed(device))
       \/ On({"test_26"}, "begin") /\ Judged(Refused(device))
       \/ On({"test_32"}, "begin") /\ Judged(device.fault # "conflict")
       \/ On({"test_33"}, "begin") /\ Auth /\ Judged(device.fault # "client")
       \/ On({"test_33"}, "begin") /\ ~Auth /\ Conclude("DISABLED")
    /\ UNCHANGED <<device, noted>>

\* All resources of the test data are posted, one after another, as new or as they are.
Begin(tests, next) ==
    /\ On(tests, "begin")
    /\ at' = [at EXCEPT !.step = next, !.todo = Types] /\ UNCHANGED <<verdict, device, noted>>

Another(next) ==
    IF Len(at.todo) = 1 THEN Goto(next)
    ELSE at' = [at EXCEPT !.todo = Tail(@)] /\ UNCHANGED verdict

\* post_resource: stored as expected, or the end of the test.
PostAll(codes, version, next) ==
    /\ device' = Post(device, Subject, version)
    /\ IF Code(device, Subject) \in codes THEN Another(next) ELSE Conclude("FAIL")

\* test_27: nothing is left when no heartbeat has come.
Expire ==
    \/ Begin({"test_27"}, "post")
    \/ On({"test_27"}, "post") /\ PostAll({200, 201}, 2, "expire") /\ UNCHANGED noted
    \/ /\ Slept("test_27", "expire")
       /\ Conclude(IF \A r \in Type : device.res[r] = 0 THEN "PASS" ELSE "FAIL")
       /\ UNCHANGED <<device, noted>>

\* test_28: nothing is left when the Node has been removed.
RemoveNode ==
    \/ Begin({"test_28"}, "post")
    \/ On({"test_28"}, "post") /\ PostAll({200, 201}, 2, "remove") /\ UNCHANGED noted
    \/ /\ On({"test_28"}, "remove")
       /\ device' = Unregister(device, Removed(device, Node))
       /\ Conclude(IF \A r \in Type : device'.res[r] = 0 THEN "PASS" ELSE "FAIL")
       /\ UNCHANGED noted

\* test_30: a heartbeat for a Node that has just been posted.
Heartbeat ==
    /\ On({"test_30"}, "begin")
    /\ device' = Post(device, Node, 2)
    /\ Conclude(IF device.fault = "heartbeat" THEN "FAIL" ELSE "PASS")
    /\ UNCHANGED noted

-----------------------------------------------------------------------------
(* test_31: the events of a synchronisation, a change, a removal and an     *)
(* addition.                                                                *)

\* What is left of the test data is deleted, found registered or not.
CleanState ==
    \/ /\ On({"test_31"}, "begin")
       /\ noted' = [noted EXCEPT !.data = [r \in Type |-> 1]]
       /\ at' = [at EXCEPT !.step = "clean", !.todo = Types] /\ UNCHANGED <<device, verdict>>
    \/ /\ On({"test_31"}, "clean")
       /\ device' = IF device.res[Subject] > 0 THEN Unregister(device, Removed(device, Subject)) ELSE device
       /\ IF Len(at.todo) = 1 THEN at' = [at EXCEPT !.step = "post", !.todo = Types]
          ELSE at' = [at EXCEPT !.todo = Tail(@)]
       /\ UNCHANGED <<noted, verdict>>

\* However the test ends, its websockets are closed.
Closed(d) == [d EXCEPT !.open = FALSE, !.wire = Quiet]
Settle(d, ok) == IF ok THEN d ELSE Closed(d)

\* The posts that open the test; then the websockets are opened and the registry
\* sends what there is.
OpenSockets ==
    \/ On({"test_31"}, "post") /\ PostAll({201}, noted.data[Subject], "open") /\ UNCHANGED noted
    \/ /\ On({"test_31"}, "open")
       /\ device' = [device EXCEPT !.open = TRUE,
                        !.wire = [r \in Type |-> Spoilt(device.fault, device.res[r], device.res[r])]]
       /\ noted' = [noted EXCEPT !.got = Quiet]
       /\ Goto("sync")

Got(r, pre, post) == [pre |-> pre, post |-> post] \in Range(noted.got[r])
Kept(d) == IF d.res[Node] > 0 THEN [d EXCEPT !.age = 0] ELSE d

\* The heartbeat after a sleep, if there is one, and the messages that have come: the next
\* step with these resources if all are right, or the end.
Heard(step, right(_), next, todo, beat) ==
    LET ok == \A r \in Type : right(r)
        d == IF beat THEN Kept(device) ELSE device
    IN  /\ Slept("test_31", step)
        /\ device' = Settle(d, ok)
        /\ noted' = [noted EXCEPT !.got = Quiet, !.old = noted.data]
        /\ IF ok THEN at' = [at EXCEPT !.step = next, !.todo = todo, !.tries = 0] /\ UNCHANGED verdict
           ELSE Conclude("FAIL")

SyncHeard ==
    Heard("sync", LAMBDA r : Got(r, noted.data[r], noted.data[r]), "update", Types, TRUE)

\* A post of the test's data with a later version.
Repost(code, next) ==
    LET version == noted.data[Subject] + 1  ok == Code(device, Subject) = code
    IN  /\ device' = Settle(Post(device, Subject, version), ok)
        /\ noted' = [noted EXCEPT !.data[Subject] = version]
        /\ IF ok THEN Another(next) ELSE Conclude("FAIL")

Update == On({"test_31"}, "update") /\ Repost(200, "modified")

ModifiedHeard ==
    Heard("modified", LAMBDA r : Got(r, noted.old[r], noted.data[r]), "delete", Reverse(Types), TRUE)

Delete ==
    /\ On({"test_31"}, "delete")
    /\ device' = Settle(Unregister(device, Removed(device, Subject)), device.res[Subject] > 0)
    /\ IF device.res[Subject] > 0 THEN Another("removed") ELSE Conclude("FAIL")
    /\ UNCHANGED noted

RemovedHeard == Heard("removed", LAMBDA r : Got(r, noted.data[r], 0), "again", Types, FALSE)

Again == On({"test_31"}, "again") /\ Repost(201, "added")

Added ==
    /\ Slept("test_31", "added")
    /\ device' = Closed(device)
    /\ noted' = [noted EXCEPT !.got = Quiet]
    /\ Judged(\A r \in Type : Got(r, 0, noted.data[r]))

Events ==
    \/ CleanState \/ OpenSockets \/ SyncHeard \/ Update \/ ModifiedHeard \/ Delete \/ RemovedHeard
    \/ Again \/ Added

Next ==
    \/ Tick \/ (\E r \in Type : Deliver(r))
    \/ SetUp \/ NewIds \/ Expire \/ RemoveNode \/ Heartbeat \/ Events

Spec == Init /\ [][Next]_suiteVars

-----------------------------------------------------------------------------

\* A registry that follows IS-04 is not failed, whatever the tests before, or another
\* run, have left registered, if a websocket's messages are waited for less long than
\* the registry waits for heartbeats.
ConformingRegistryPasses == device.fault = "none" => \A t \in DOMAIN verdict : verdict[t] # "FAIL"

\* Every mistake is found by a run of the whole suite.
RegistryMistakesAreFound ==
    /\ Ended /\ device.fault # "none" /\ (device.fault = "client" => Auth)
    /\ \A t \in DOMAIN verdict : verdict[t] # "none"
    => \E t \in DOMAIN verdict : verdict[t] = "FAIL"
=============================================================================
