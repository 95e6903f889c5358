# A verification project for the NMOS testing tool

TLA+ specifications, TLC configurations and TLAPS proofs of the AMWA NMOS
testing tool (`nmos-test.py`, `nmos-testing-facade.py` and the package
`nmostesting`). Paths below are relative to the repository's root.

## The system

The tool runs test suites against NMOS devices. It is one process with many
threads: a Flask application that takes requests for runs, a thread per request
in which a suite runs, web servers for the mock services (six registries, a
Node, a System API, two authorization servers, CRL and OCSP), a websocket
thread per subscription, and a DNS server. A second process, the Testing
Facade, puts the questions of controller suites to a person or to a script.

| Part | State | Operations | Talks to |
|---|---|---|---|
| Runner (`NMOSTesting.py`, `GenericTest.py`) | `TEST_ACTIVE`, a test object with its results, `CONFIG` and `CONFIG.AUTH_TOKEN` | take a request, build the suite, set up, run tests, tear down, report | all mock services, shared by every run |
| Facade protocol (`TestingFacadeUtils.py`, `ControllerTest.py`) | the answer queue, `exitTestEvent` | ask, wait, check the id, time out, reset | the facade, by HTTP in both directions |
| Testing Facade (`nmos-testing-facade.py`, `testingfacade/`) | one `DataStore`, its pages in browsers | store a question, clear, render, post an answer | the suite's answer API, browsers |
| Mock registry (`mocks/Registry.py`) | resources and subscriptions shared by all six, websockets, posts, heartbeats and the `enabled` flag of each | register, delete, heartbeat, subscribe, query, page, enable, disable, reset | the mock Node, controllers and Nodes under test |
| Subscription websocket (`TestHelper.py`) | its clients, a queue of messages | connect, queue, broadcast | the registry, by callback |
| Mock Node (`mocks/Node.py`) | Senders and Receivers with staged and active parameters | add, delete, PATCH, activate | the mock registry, by HTTP |
| IS-04 Node suite (`suites/IS0401Test.py`) | what was collected from each registry | advertise, wait, disable registries in turn | the registries' flags and data, a Node under test |
| Registry suite (`suites/IS0402Test.py`) | ids and versions of what it has posted, one websocket per type | post, update, delete, keep alive, subscribe, page | a registry under test |
| Connection suites (`IS0501Test.py`, `IS0502Test.py`) | resources and transport files it has read | stage, activate at once or later, compare with IS-04 | a Node under test, two APIs |
| Event suite (`IS0702Test.py`) | websockets, received messages | connect, subscribe, keep alive, fall silent, MQTT | a Node and a broker |
| Channel mapping suite (`IS0801Test.py`, `suites/is08`) | the actions of the last activation | activate at once or later, check locks and constraints, delete | a device under test |
| Stream compatibility suite (`IS1101Test.py`) | versions, EDIDs, constraints it has noted | constrain, set EDIDs, make reference Senders stream, poll | a Node under test and a reference Node |
| Device control suites (`MS0501Test.py`, `IS1201Test.py`, `IS1401Test.py`, `BCP008*.py`) | the device model, tables of findings, backups | walk the model, write and write back, backup and restore, watch monitors | a device under test |
| IS-12 client (`IS12Utils.py`) | one websocket, a handle, collected messages, notifications | send a command, collect its response | a device under test |
| Authorization, System, DNS, CRL, OCSP mocks | tokens and codes; a flag; zones and awaited queries; files | requests, `load_zone`, `wait_for_query` | suites and devices |
| Other suites (`suites/`) | saved entities | requests and checks | a device under test |

`PROJECT.json` lists these parts in more detail, says which are modelled, and
lists the hazards: the places where an order of steps, a lost message, a stale
value or a boundary can go wrong.

What is hard about this code: web server threads, the suite's thread and the
websockets' threads share tables and flags, mostly without locks; one lock per
registry guards tables that all registries share; questions and answers are
matched by strings that are used again; two processes run two countdowns for
one question; waits poll for conditions that a device under test need not ever
make true; set up and tear down of the shared services are two halves of a
protocol that exceptions can break; and a suite that writes to a device judges
it by values that it read earlier, at a moment that the device chose.

What makes the parts correct:

* Facade: an answer is taken for the asking it was given to; no question fails
  for another one's answer; a run ends, and ends with its tear down; a prompt
  user is not failed for the delays of the tool.
* Runner: one run at a time, each with its own services; the flag is never left
  behind; a report is complete or is not made.
* Registry: a controller's view converges to the matching resources; a
  subscription that is answered is served; ports are free; a walk over pages
  sees every resource and ends.
* Node: the registry tells of a resource what the Connection API says; what is
  offline stays offline.
* Suites: a device that follows its specification passes; a device that makes
  the mistake a test is for does not; what a suite puts on a device to test it
  is taken back, where the suite does that at all; a result is about the
  activation, the message or the object that the test meant.

## Modules

### Mock services, runner and facade

| Module | Models | State and actions |
|---|---|---|
| `TestingFacade` | questions and answers between a controller suite, the facade and its pages | `asks` records each sending of a question and what became of it; `queue` is `_answer_response_queue`; `facade` the `DataStore`; `rendering` and `tabs` the pages. `SendQuestion`/`SendFails` are `send_testing_facade_questions`, `AcceptAnswer`/`RejectAnswer`/`CrashOnNullId`/`TimeOut` the outcomes of `wait_for_testing_facade`, `BeginPage`, `ReadTimes` and `EndPage` the reads of the DataStore in one GET, of the question, of the times from which the page counts down, and of the form's hidden fields; `WholePage` is a GET that no POST interrupts; `SubmitAnswer` the form's POST up to `receive_answer` |
| `Dialogue` | abstract: one question open at a time, accepted exactly if it was replied to | implemented by `TestingFacade` with a prompt user (`CarriesTheDialogue`) |
| `FacadeTimeout` | the two countdowns of one question | `age` is the time since the question was stored; `Deadline` is the timer of `get_answer_response`, `ButtonEnabled` the page's countdown |
| `TimedQuestion` | the questions with a random delay of `IS0404Test.test_05` and `IS0503Test.test_04` | extends `FacadeTimeout`: the suite sleeps on `exitTestEvent`, changes the resource, waits, and judges by `time_received` |
| `TestRunner` | runs from request to report | `pc` is how far each run is; `active` is `TEST_ACTIVE`; `token` and `services` name the run that last set up what they stand for. The check and the setting of the flag are separate steps, `BuildFails`, `SetUpFails`, `Abort`, `TearDownFails` the exceptions |
| `SuiteTurns` | abstract: whoever asks is turned away, fails, or has the turn alone and is answered once | implemented by `TestRunner` with spaced requests (`RunsTakeTurns`) |
| `DataGrains` | resources, grains and the clients of one subscription | `request` holds the registration requests at each point where another thread can come between: `Note`, `Store`, `Announce` for a POST, `Delete`, `Remove` for a removal; `sync` a sync grain under construction; `view` what a client makes of its grains |
| `QuerySubscriptions` | subscriptions, websockets and ports of several registries | `table` is the shared dictionary of subscriptions, `sockets` each registry's websockets, `deleting` a DELETE between its two halves, `missed` the websockets that a change did not reach |
| `QueryPaging` | a controller's walk through the pages of the Query API while resources are updated | `version` is the order of the table, `walk` the link that is followed; `NextBound`, `PrevBound`, `UntilIndex` are the arithmetic of `get_resources` |
| `NodeConnection` | one Sender or Receiver of the mock Node and its entry in the registry | `patch` holds each PATCH at each point where another can come between; `staged`, `active`, `subscription` are the Node's data by generation of the resource; `registered` is the registry's. `patch_staged` and `_patch_staged_mxl` take the same steps |
| `RegistryFailover` | the registration prerequisites of the IS-04 Node suite and the tests that use them | `pc` follows `do_registry_basics_prereqs`; `timer`, `quiet`, `due` are times in ticks; `beats`, `order`, `posts`, `since` and `uneven` are what the registries collect, the distances of heartbeats among it. The registry with the invalid advertisement (`Invalid`) is enabled beside the first. `conforming`, chosen at the start, says which kind of Node is under test. `Node` is a device that follows IS-04; one that does not may prefer the invalid registry, beat at other distances (`Irregular`), `FallSilent`, `RegisterAgain` or take a `WrongTurn` |

### Suites at work on a device

`Suite` is the common part, `GenericTest.run_tests`: set up, one test or all of
them in order, tear down, an exception in each place. `at` is the test in
progress and its place in it, `device` the device under test, `noted` what the
suite object holds, `verdict` the results. A test is a few steps over its
subjects; between any two of them the device may move, and it moves within what
its specification allows. What is wrong with a device is chosen at the start, as
the field `fault` of `device`; "none" is a device that follows its specification.

| Module | Suite | The device, and what a test can meet |
|---|---|---|
| `RegistryTests` | `IS0402Test`: test_03 to test_20, one for each kind of test, test_26 to test_28, test_30 to test_33 | a registry that stores, expires and announces; versions, children, heartbeats, one websocket per type whose events come in late |
| `PagingTests` | `IS0402Test`: test_21_1 to test_21_8 | a registry whose time stamps the suite knows only between two of its own, with the bounds, the limit and the links that it answers; its clock may be ahead |
| `ConnectionTests` | `IS0501Test`, `IS05Utils` | ports with staged and active parameters, locked until a scheduled activation fires |
| `UpdateTests` | `IS0502Test` | a Node API that shows in its own time what was activated; versions and caches |
| `EventTests` | `IS0702Test` | websockets with heartbeats and without, states of several Sources, MQTT with retained messages |
| `MappingTests` | `IS0801Test`, `suites/is08` | routes with constraints, scheduled activations with locks, a lost answer |
| `ConstraintTests`, `EdidTests`, `ReceiverTests` | `IS1101Test`, `IS11Utils` | a Sender that follows its Active Constraints, an Input that follows its Base EDID, a Receiver that locks to a stream, each after a while |
| `ControlClient` | `IS12Utils`, `WebsocketWorker` | a device that answers in its own order and time, also late, and notifies |
| `DeviceModelTests` | `MS0501Test`, the walk and the tests that judge by it | a tree of blocks and workers; the walk may be cut short by a lost answer and done again |
| `PropertyTests` | `MS0501Test`, the invasive tests | constraints at three levels, sequences, read only properties |
| `BackupTests` | `IS1401Test`: test_15 to test_27 | a tree whose blocks may be rebuildable; backups that are changed, validated, restored and undone |
| `MonitorTests` | `BCP008Test`, `BCP0080101Test`, `BCP0080201Test` | a monitor with its reporting delay, whose notifications come in while the suite waits |

`MockServices` (`NodeConnection`, `DataGrains`, `QuerySubscriptions`,
`QueryPaging`), `Timings` (`TimedQuestion`, `RegistryFailover`), `MediaSuites`
(the suites of IS-04, IS-05, IS-07, IS-08 and IS-11) and `ControlSuites` (those of
MS-05, IS-14 and BCP-008, with the IS-12 client) bring together modules of one
kind, each of which runs on its own, chosen in the initial state: what they
promise is a conjunction over the parts. The `MC*` modules give the constants of an
instance; where sets of model values are all it needs, the `.cfg` gives them. `*_proofs` modules hold the proofs, most about these compositions, so
that what is proved is what the runs check. An operator `XFault` is `X`
with a plausible mistake; it is not part of any specification, and with it in
the place of `X` a property must fail.

The modules meet at the shared tables: `TestRunner!services` abstracts what
`QuerySubscriptions!SetUp`, `Disable` and `TestingFacade!TearDown` do;
`NodeConnection!Register` is `DataGrains!Post` to `Announce` of one resource;
`RegistryFailover` uses the flag that `QuerySubscriptions` calls `enabled`;
`PagingTests` asks a registry for what `QueryPaging` models the mock's answer of;
`TimedQuestion` takes the steps of `FacadeTimeout`; the suites for device control
send what they send by `ControlClient`.

## Runs

Every run's configuration has the run's name. The runs that pass:

| Run | Properties | Bounds |
|---|---|---|
| `facade_prompt` | `TypeOK`, `AcceptedAnswerIsForThisAsking`, `NoIntegrityFailure`, `CarriesTheDialogue` | 2 runs of pre message, a test with two questions, post message; 1 tab; 2 answers in the queue |
| `facade_attended` | `EveryRunEnds`, without a timeout but with a user | 2 runs of pre message, a test, post message; 1 tab; 1 answer in the queue, which may be of another question, another run or none |
| `runner_spaced` | `TypeOK`, `NeverStuck`, `OneRunAtATime`, `RunKeepsItsServices`, `ReportIsComplete`, `RunsTakeTurns` | 3 runs, one from the command line; 2 tests |
| `timings` | `RaceTypeOK`, `NoLateAnswer`, `VerdictIsFair`, `ConformingNodePasses`, `RegistriesAreTakenInTurn`, `PrereqsEnd` | a question: timeout 6, margin 4, other delays 1; one with a delay of 2 or 4, limit 4, a user who takes 2; five servers and the invalid registry, an interval of 4 ticks, a second of 3 ticks, heartbeats a tick early or late; a Node that conforms, or one that fails to up to 3 times and beats at distances of 1, 2 or 7 |
| `mocks` | `MocksTypeOK`, `RegistryAgrees`, `OfflineStaysOffline`, `ViewsAreRight`, `RepliesAreServed`, `NoChangeIsMissed`, `PortsAreFree`, `ForwardWalkIsComplete`, `BackwardWalkIsComplete`, `WalksEnd` | 3 PATCH requests, 2 peers, 2 generations; 2 resources, a matching and another content, 3 requests, 2 clients; 2 registries, 2 types, 2 rates, 4 subscriptions; 4 resources, pages of 1 to 3, times to 10 |
| `suites_media` | `MediaTypeOK`, `ConformingDevicesPass`, `MistakesAreFound`, `NothingIsLeft`, `ActivationIsAwaited`, `StreamsAreReceived` | every single test and the whole suite; two or three ports, Inputs, Outputs or resources; every fault of each module's `Faults`; 2 attempts where the code has 3 or more |
| `suites_control` | `ControlTypeOK`, `ConformingDevicesPass`, `MistakesAreFound`, `ErrorsAreReal`, `RestoredOrReleased`, `AnswersAreMatched`, `NotificationsAreKept` | every single test and the whole suite; five objects of four classes; three sequences, four constraints and datatypes of two widths; eight objects in nested blocks, of which none, one with a member of its own or two nested ones may be rebuildable; two monitors, a delay of 4; 3 requests, of which the commands may be answered late |

What they show: with one question, one run and one request at a time the
services keep what the suites take from them; the suites' countdowns and
allowances are enough for a device, or a user, that keeps to the stated times;
and what each suite concludes of a device is right, in that a device that
conforms is not failed, wherever between two requests it moves, and one with
a mistake that the suite tests for is found out. Where the code fails a device
that conforms, the definition of the suite's part names the test and the case,
and "What else the models showed" lists it. `ConformingDevicesPass` and
`MistakesAreFound` together rule out a test that looks too early, at an old
value, or at another subject's.

The other runs end with a violation: the code does what a document, a docstring,
a comment or a test of the repository rules out. `PROJECT.json` quotes the line.

| Run | Violated | What the code does |
|---|---|---|
| `facade_reused_id` | `AcceptedAnswerIsForThisAsking` | an answer from one run is accepted in the next, which sends the same ids: all pages are whole (`SpecWhole`), so that each carries the id of what it shows |
| `runner_overlap` | `OneRunAtATime` | two requests pass the check before either sets the flag |
| `grains_ghost` | `RemovedIsForgotten` | a removed resource comes back with a sync grain |
| `subs_ports` | `PortsAreFree` | a port is given twice |
| `backup_nested` | `NestedBlocksAreRestored` | when a rebuildable block lies within another, only the one visited last gets its members back |

### Conditions

Some specifications state the conditions under which the promises hold, next
to the one that has every interleaving: `SpecPrompt` (the user answers the
question being asked, once, from a page that shows it; so neither an answer that
comes late nor a page that mixes two questions is ever submitted), `SpecSpaced` of
`TestRunner` (no request while another is being built), `NextSpaced` of
`DataGrains` (one request at a time, no sync grain while it is handled),
`SpecSerial` (one PATCH at a time, none while the suite moves the resource, a
registry that answers) and `SpecController` (the protocol of controller suites,
which end with their tear down). They are conditions on the environment, not on
the code: the code does not enforce them. Under `Spec`, without them:

* an answer sent twice, or after its question timed out, is taken by the next
  question, which fails although its own answer is in the queue behind it; an
  answer with a null id ends the run with a `TypeError` (`CrashOnNullId`) and
  without tear down, if the question was a pre or post tests message;
* a registration or removal during the construction of a sync grain loses the
  grain (`SyncFails`);
* a POST of a subscription that exists, without `secure`, is a `KeyError`; one
  that was left in the table by `disable`, or is being deleted, is answered
  again without a websocket; a change then stops at it, and the subscriptions
  behind it hear nothing; the second reset in `_populate_registry` silences a
  websocket opened since the first;
* PATCH requests that race, or a POST that fails, leave the registry with
  another subscription than the active parameters, and a PATCH under way while
  the suite takes the resource offline registers it again;
* a Node that falls silent after its first heartbeat, or that keeps updating its
  resources, holds `do_registry_basics_prereqs` for ever: `PrereqsEnd` is about
  conforming Nodes.

The instances of `ControlClient` have `Late = {"command"}`: the reply to a
subscription comes before the client gives up. With a late one
`AnswersAreMatched` fails, since `IS12Utils.py:198` takes any
SubscriptionResponse for the answer.

### Why the bounds are enough

Two runs are enough for an answer to cross from one to the next, two tabs and
two answers for one to overtake another. Three runs of the runner have a
command line run against two web requests. Three registration requests and two
clients give a POST, a change and a removal with a client that connects at any
point between. Two subscriptions show every case of ports and silenced
websockets; four allow the table to be rebuilt. A PATCH disturbs one other
PATCH or the suite; the third shows that what is left behind does no harm.
Four resources with pages of one to three have full, partial and empty pages in
both directions with an update in each position, and two resources of the same
version. Five servers are the first, one from which to fail over to another that
answers, one from which to fail over past the unreachable address, that address
and the last; the suite has six, with one more of the second kind. The invalid
registry is a further one. The jitter is below the half second that
test_05 allows, and three lapses let a Node prefer the invalid registry, return and fall
silent.

The tests of a suite meet each other only through what they leave in the device
and in the suite object, so that one test by itself and the whole suite in its
order are all the plans there are. Their loops treat one subject after another:
two of a kind show a value carried from one to the next, a third, of another
kind, the one that is skipped. A polling loop that is cut from five attempts to
two has a first, a last and an answer before, between and after. The paging
tests have all of their twenty posts. The timings of the event suite are the
code's own seconds; those of the monitor suite are scaled with their order kept.

`MaxRuns`, `MaxTabs`, `MaxQueue`, `MaxId`, `MaxGen`, `MaxStart`, `Horizon`,
`Requests`, `Attempts`, `Reads` and `Tries` are the names of all bounds on what
grows; `beats` counts to 2, which is all that is asked of it.

### Fairness

`SpecAttended` of `TestingFacade`, for a timeout of `None`, asks that the suite's
thread runs, that pages are rendered, that tabs of earlier questions are
reloaded by the `update` event, and strong fairness of the user, who may have
the right tab only from time to time. `RaceSpec` of `Timings` asks that the
suite's thread runs, that time passes and that a Node sends what is due; it does
not ask that the Node registers. `MocksSpec` of `MockServices` asks that a controller
that walks through pages goes on (`WalksEnd`). No fairness is assumed of updates,
of requests for runs, or of devices under test; the suites' runs have none.

## Proofs

All theorems hold for every value of the constants that satisfies the module's
named assumption and those named below. TLC evaluates the assumptions on the
instances. They are about the specifications that the runs check, but for
`FlagIsNeverLeftBehind`, `RunnerTypes` and `NothingIsMissingFromAReport`, which
go further than `runner_spaced`: they are about requests that race.

* `TestingFacade_proofs`: `TypeCorrect` for `Spec`; `PromptUserIsUnderstood` and
  `NoQuestionFailsItsIntegrityCheck` for `SpecPrompt`. The promise is not
  inductive by itself. The invariant (`PromptInv`) adds that while the thread
  waits the DataStore holds the question it waits for, with that question's id;
  that a page of that question also carries its id, since the DataStore changes
  under a page only when its question is over; and that the queue holds at most
  one answer, only while the thread waits, given to the last ask and naming it.
  An answer then always finds the question it was given for, and the queue is
  empty when the next one is sent. `FacadeImplementsDialogue` maps the asks that
  are over to `outcomes`, and the state of the last one to `question`, and shows
  for each action, under the same invariant, which step of `Dialogue` it is, or
  that it is none.
* `Timings_proofs`, for each protocol and, in `RacesAreWon`, for the three
  together:
  * `MarginPreventsLateAnswers`, under `MarginSuffices`. The invariant bounds the
    moment an answer under way was posted by the page's countdown, and the present
    by that moment and the length of its way; the rest is arithmetic.
    `TimedQuestionIsAQuestion` carries it over to the question with a delay.
  * `TimedQuestionIsFair`, under `LimitSuffices`: the change happens at most a slow
    step after it was planned, or after the answer that interrupted the delay, and
    the answer of a prompt user at most a reaction and its way later.
  * `RegistriesGoInTurn` for any Node, from the places of the registries by
    priority: of all of them only the first is ever taken away unused, from a Node
    that sent its two heartbeats to the invalid one; `ConformingNodesPass`, under `AllowancesSuffice`. Its invariant splits
    a run into three: before the others are advertised the Node knows only the
    first registry, and what is left until its next heartbeat and the quiet that
    the suite waits for add up to less than the wait; during the failover the
    Node's way to the next registry is shorter than what is left of the countdown,
    in each of the cases where it has yet to fail, has failed, or waits for the
    address that never answers; in the end it has used all registries in order, or
    none. Throughout, the time since the last heartbeat and the time until the next
    add up to the interval, give or take the jitter (`Paced`): test_05 looks at that.
  * `RacesAreWellFormed`: the types. That the number of heartbeats in `order` stays
    below the number of registries needs that no registry is in it twice, and that
    a sequence without repetitions over a finite set is no longer than the set.
* `TestRunner_proofs`: `FlagIsNeverLeftBehind` for `Spec`, from the invariant
  that some run is between setting and clearing whenever the flag is set, kept
  by overlapping runs because clearing is unconditional; `SpacedRunsAreExclusive`
  and `SpacedRunsKeepTheirServices` for `SpecSpaced`, whose invariant adds that
  the flag is set whenever a run is in progress, that nothing is being built
  beside it, and that two runs are never being built; `RunnerImplementsTurns`,
  by mapping where each run is to its stage in `SuiteTurns`; `RunnerTypes` and
  `NothingIsMissingFromAReport`, from an invariant (`ReportInv`) that says at
  each point of a run how long its results are and which test each entry is of.
* `MockServices_proofs`, for each service and, in `MocksKeepTheirPromises`, for the
  four together:
  * `NodeAndRegistryAgree` and `OfflineResourcesStayOffline` for `SpecSerial`. The
    invariant says for each point of a PATCH what the subscription, the registry
    and the parameters have in common, and that at most one PATCH is at such a
    point.
  * `SubscriptionsStayInStep`, and from it `ControllersAreServed`,
    `ControllersMissNothing` and `CountedPortsAreFree`, for `SpecController`. The
    shared table and each registry's websockets are created together and cleared
    apart; the invariant (`ControllerInv`) is that one registry serves at a time,
    that only it has websockets, and these only once the second reset is over,
    that table and websockets name the same subscriptions, and that the ports in
    use are those below their number.
  * `ClientsSeeWhatMatches`, for requests that do not overlap. That a client knows
    what the table holds once nothing is under way is not inductive: grains may be
    on their way in several queues. The invariant (`GrainsInv`) follows the last
    grain about each resource, in the client's view, in its queue or among the
    posts, and says that it tells the resource's present state.
  * `ForwardWalksAreComplete` and `BackwardWalksAreComplete`, for any limits and
    times. The table is a ranking of the resources by version; the invariant
    (`PagingInv`) is that the walk has seen every resource on one side of its link
    as it is, where an update moves a resource to the end. The ranks come from the
    cardinality of the sets of earlier resources.
  * `MocksAreWellFormed`: the types of the four, which rest on those invariants.
* `MediaSuites_proofs`: what a suite's tests leave true of their device, for any
  Senders, Receivers, Inputs, Outputs, ports and numbers of attempts. A run is
  followed by what is left of its plan (`IsRun`).
  * `StreamsAreSeen`: in the step in which a stream test counts a Receiver, that is
    enabled and fed by a reference Sender of the test's list. The code looks at the
    Receiver's status only. The invariant (`ReceptionInv`) is that enabled Receivers
    have a source on the list (`OnlyFed`), that no stream test comes before the list
    is made (`ListedFirst`), and that a stream test past its first step has a fit
    Sender still before it or streaming to the first Receiver (`Coming`).
  * `ActivationsAreAwaited`: a step that is done with a port has seen it activate
    since it was asked to, or fails the test. This is about the steps, one by one;
    the invariant (`ConnectionInv`) only adds the shape of the records.
  * `NoActivationsAreLeft`: the device has a pending activation only while a test
    is under way that waits for it, deletes it, or has lost its answer
    (`MappingInv`).
  * `NoEdidsAreLeft`: a Base EDID of the suite's is on the one Input that the test at
    work puts one on, or on Inputs that the tear down will look at, which reaches
    all of them unless a request fails; and a request that fails finds the device
    bare (`EdidInv`).
* `ConstraintTests_proofs`: `NoConstraintsAreLeft`, and
  with the above `NothingIsEverLeft`. Tear down does not delete Active
  Constraints, so the invariant (`ConstraintInv`) is about the tests to come. It
  is in two parts. For a device that is instant, whose requests may fail: each
  Sender that has constraints will be freed (`WillBeFreed`) by test_06_02 or
  test_06_03, one of which is still to come or has yet to reach that Sender, and of
  which only one can be spoiled by the request that fails. For one that takes its
  time: only the Sender that the present step is about has constraints, those that
  this step put (`HoldsAt`), and the step finds the status (`SettledAt`), the version
  and the rate (`NoticedAt`) that let it go on to its DELETE. Both rest on the order
  of the tests (`Whole`): constraints are put only before test_06_02 and test_06_03,
  and the rates are noted right after all Senders were seen unconstrained. A single
  test puts no constraints, since it has noted no Senders (`InOrder`).

  The invariant showed that a device that takes its time has to be able to give
  another rate: test_02_03_05_* returns UNCLEAR at a violation, without its DELETE,
  and test_06_02 and test_06_03 return at the first Sender that is awaiting its
  essence (`IS1101Test.py:3583`, `3628`), so that a second one keeps its constraints. With
  two Senders no run of the model had shown it.

* `ControlSuites_proofs`, for the suites of device control and their client:
  * `LateCommandsAreHarmless`, under `Late \subseteq {"command"}`: replies carry the
    handle of a request already made, those to subscriptions and errors can only be
    those of the request that is pending, so that what is taken for its answer is
    its answer. `NotificationsAreNotMissed`, for any `Late`: the log followed by the
    notifications still in the socket is all that was sent (`KeptInv`). The filter of
    the messages is described by the places that it keeps, counted from the least
    one, because the prover has no induction over the recursive definition.
  * `NotedErrorsAreReal`, for any tree of blocks and members and any mistake in it.
    The lists that the walk compares with outlive it, so that an object seen twice
    would be an error that is none. The invariant (`ModelInv`) is that while no
    answer was lost there has been one walk only, that the ids it has noted are those
    of the objects it has come to, and that what is left to do is of objects and
    blocks it has not come to, in blocks it has (`OneWalk`).
  * `RunsRestoreOrRelease`, from an invariant for each suite. `PropertyInv` says which
    one value is not the original one at each point of a test that writes, and what
    the suite holds to put it back, for a property whose limits are numbers of its
    datatype (`Fitting`). `BackupInv` says what is restored at each point: in the walk
    only labels differ (`WalkIsUndone`); test_21 to test_23 have changed values that
    they may change back, and look at the device model between the steps
    (`RestoreIsUndone`); test_24 and test_25 have changed the members of one block, and
    nothing of the other rebuildable blocks is left in the data set, so that the block
    visited last is the one that was changed (`BlockIsUndone`), which is where it
    matters that no rebuildable block lies within another. These two are about devices
    of which no request is lost: an exception skips what would undo the rest, in the
    model as in the code. `MonitorInv` says that only the monitor at work is active,
    or the one of a lost request. It does not say that BCP-008 restores anything: those
    that were active before are left inactive, and `statusReportingDelay` and
    `autoResetCounters` stay set (`device.set`).
  * `ConformingModelsPass`: the walk, and the tests that write, fail no device that
    follows MS-05, by `OneFails` and the last part of `PropertyInv`, where no request is
    lost and test_29 has a valid value for the number (`Proper`); the tests of
    backups fail none that follows IS-14, by an invariant of its own (`PassInv`) that says
    at each step how the data set at hand differs from the device, which notices
    restoring it will therefore give, and what the second backup has to show.
  * `ControlTypesHold`: the types of the five, which rest on those invariants.
* `MediaVerdicts_proofs`: `ConformingPortsPass` and `PortTypes`, for four suites of
  `MediaSuites` (`PromisingSuites`). What a device of each owes to the test that is
  under way, at each step of it, is one definition, and the invariant that it is met:
  * `ConnectionPromise` (IS-05; in `MediaSuites_proofs`): what is staged at the port at
    hand is what the suite has noted (`PortStands`), an activation that is no longer
    pending has made it active, in the mode that was asked for (`PortShows`), and
    nothing is pending at any other port.
  * `UpdatePromise` (IS-04 with IS-05): the Node API shows what is active of every port
    that it does not still owe (`Faithful`), no transport file that was kept is wrong
    (`NoWrongFiles`), and the ports that a test is done with are as it left them
    (`UpdateDuty`).
  * `RegistryPromise` (IS-04): at each step, which version of each type's resource the
    registry holds, that its Node has not expired unless the test waits for that, and
    what has come over each WebSocket or is still to come (`RegistryDuty`, `Told`), for
    types that the loop has passed and those it has yet to reach. Parents are posted
    first and deleted last, so that nothing is refused.
  * `InputPromise` (the Inputs of IS-11): a Base EDID that the suite put is on the one
    Input that the present step is about, and else on none (`Clean`); a step that judges
    the Effective EDID finds the Base EDID that gives it, and one that judges versions
    finds the Input and its Senders changed (`InputDuty`). Two tests may fail a prompt
    device, and test_01_00 one with a connected Input that has no signal, which
    `ConformingInputPasses` excepts (`FewFailed`).

Sequences are described by their elements, sets by their least members, wherever
one would argue by induction over their length.

Only model-checked: `ConformingDevicesPass` of the suites not named above (paging,
events, channel mapping, Receivers, Active Constraints, status monitors) and
`MediaTypeOK` of those of `MediaSuites`; `MistakesAreFound`, a conjunction over the
verdicts of a hundred tests, each with an argument of its own; liveness
(`EveryRunEnds`, `PrereqsEnd`, `WalksEnd`). What is asked of pages is in folds and
filters of lists. Liveness under fairness and ENABLED, induction over data, and
RECURSIVE operators are out of the prover's reach.

The proofs assume of the constants what `MediaAssumption` and `ControlAssumption`
and the assumptions of the suites say: among them that no port is both a Sender and
a Receiver, that no type of resource is listed twice, that what a resource belongs
to is a Device or the Node and is posted before it, and that a registry's garbage
collection waits longer than the suite listens to a WebSocket.

## What else the models showed

Places where the code does something a reader of it should know, and that no
quoted document forbids. Conforming devices and tests are modelled with it.

* IS-04: test_31 needs `WS_MESSAGE_TIMEOUT` below `GARBAGE_COLLECTION_TIMEOUT`;
  the paging tests need their twenty posts within one garbage collection interval,
  accept a registry whose windows are open at the wrong end (`IS0402Test.py:342`),
  and fail one whose clock is ahead of the suite's (361). A Node that sends two
  heartbeats to the registry with the invalid advertisement ends the wait for those
  to the first (`IS0401Test.py:217`), which is then taken away without one. The limit of the questions with a delay counts from the
  time that was planned, not from the change (`IS0404Test.py:309`,
  `IS0503Test.py:427`).
* IS-05: test_21 and test_22 judge the answer to the PATCH and throw the GET away
  (`IS0501Test.py:514`, `540`); a scheduled activation that comes after the last
  attempt leaves the port locked. IS-05-02 reads each transport file once, and
  sleeps once where others poll.
* IS-07: a device that uses several `connection_uri`s fails test_05, which wants a
  state of every Source from each of them (`IS0702Test.py:787`); its wait ends
  at two messages, so that a state of the first run may count for the second;
  Senders that test_05 activates are not deactivated.
* IS-08: a refusal of any kind counts as the refusal that test_14 and test_15 ask
  for; test_14 uses a block size left over from another loop, and posts an activation
  of nothing where no Input has the blocks for it (342); an activation is
  left pending where test_06 fails on the lock or loses an answer; the routes are
  not put back at the end.
* IS-11: test_01_00 removes an Input from a list that holds only the Inputs' ids, a
  `ValueError` that fails every device with a connected Input without a signal
  (`IS1101Test.py:219`); a Receiver test whose reference Senders have no flow goes on,
  since the `"UNCLEAR"` that it gets is true (`IS11Utils.py:161`), and a Sender without
  a transport file ends it in an `AttributeError`; 02_04_01 judges before its loop waits; a test that finds nothing to do
  for its first Sender returns from the loop over all of them
  (`IS1101Test.py:2538`, `2883`); an UNCLEAR in between leaves constraints behind
  (2439), as does an UNCLEAR of the test that should delete them (3583, 3628);
  Receivers and reference Senders are left streaming; tear down looks once at the
  Inputs (164).
* IS-12: the messages after an Error in the same batch are dropped
  (`IS12Utils.py:202`); a command on a closed websocket is silently not sent.
* MS-05: a class is marked as validated before its check has ended
  (`MS0501Test.py:752`), so that a walk that is done again passes over it; limits
  of 0 are taken for none (569, 598, 1823); without a maximum test_29 writes about half
  of `sys.maxsize`, which a property of a narrower datatype has to refuse, so that it
  fails (1823-1831); a lost answer leaves a written value in place, a lost request for
  touchpoints ends the walk after owner and manager were noted (500); sequence items are looked for at a wrong index after an error (300).
* IS-14: the FAIL of test_02 is not returned (296); an exception in the tests of
  structure leaves the device changed (1220); after the undo of test_22 and test_23 the
  device model is looked at again, and an error in it fails the test (1234-1244);
  objects missing from a data set are not noticed (767).
* BCP-008: the reporting delay is compared without a tolerance, only the last
  status of a stretch of notifications is looked at, and notifications are chosen
  by their property and not by their object. Resources that were active are left
  inactive, a lost request leaves one active (`BCP0080101Test.py:287-298`), and
  `statusReportingDelay` and `autoResetCounters` are not set back
  (`BCP008Test.py:471-474`, `652-655`).

## Abstractions

Names, payloads and texts are model values. The contents of questions, of SDP
files and of transport parameters are left out: a refused PATCH is a choice. A
content either matches a subscription's `params` or does not. Versions are seen
as changed or unchanged since they were last read. Time appears where a property
is about it, in ticks. HTTP requests are steps that succeed or fail, and fail
only where losing the answer makes a difference; retries by `requests` are not
modelled because there are none. Websockets of a subscription that is closed are
gone at once. A device has at most one mistake. `MAX_TEST_ITERATIONS` is 0, its
default: a suite tests all subjects of a kind.

## Not modelled

* The authorization server, and the registry's checks of clients: what decides is
  in tokens and certificates, which libraries check; between two requests little
  state is kept. IS-10 and BCP-003 test others in the same way.
* The System API, and IS-09: one table that is read. Its discovery follows the
  pattern of `RegistryFailover` with one server that matters.
* DNS and mDNS: the responder is a library; that a name is advertised is a step of
  `RegistryFailover`. Unicast discovery differs from it in that step; HTTPS is left out.
* CRL and OCSP: files that are returned.
* RQL, the filters of the Query API, downgrade and ancestry: functions of one
  resource and one query, by a parser generator.
* `PATCH /config`: a run reads its settings at any moment and the API allows their
  change at any; there is no promise to check.
* Plain reads and schema checks of all suites, the suites of IS-04-03, IS-06,
  IS-07-01, IS-08-02, BCP-005, BCP-006 and BCP-007: one request, or what it
  returned compared with a schema, with itself or with another read.
* The scripts under `utilities/`, which call the tool or a device once.
* Specifications, schemas, the generation of automatic tests, and formatting.
