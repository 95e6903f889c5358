----------------------------- MODULE DataGrains -----------------------------
(***************************************************************************)
(* What a client of one Query API subscription of the mock registry sees   *)
(* (nmostesting/mocks/Registry.py, SubscriptionWebsocketWorker of          *)
(* nmostesting/TestHelper.py).                                             *)
(*                                                                         *)
(* Every registration request is a thread.  It changes the table of        *)
(* resources without a lock and queues a data grain under the lock that    *)
(* subscription_lock is.  A client that connects makes the websocket's     *)
(* thread queue a sync grain, built from the live table under the same     *)
(* lock.  The websocket sends each grain to all of its clients.            *)
(***************************************************************************)
EXTENDS Naturals, Sequences

CONSTANTS
    Id,        \* resources of the subscription's type
    Value,     \* their possible contents
    Matching,  \* the contents that the subscription's params select
    NoValue,   \* the content of a resource that is not there
    Request,   \* the registration requests to come: posts and deletes
    Client     \* the connections of clients, each connecting once

ASSUME DataGrainsAssumption ==
    /\ NoValue \notin Value
    /\ Matching \subseteq Value

VARIABLES
    resources,  \* common.resources[resource_type]
    request,    \* where each request is, with the resource and content it is for
    sync,       \* the keys that the sync grain under construction began with
    queue,      \* _message_queue: grains, as the contents they give to some ids
    syncsDue,   \* clients whose connection has called for a sync grain
    connected,  \* _connected_clients
    view        \* what each client takes the resources to be

grainVars == <<resources, request, sync, queue, syncsDue, connected, view>>

Content == Value \cup {NoValue}
Unasked == [at |-> "idle"]
Answered == [at |-> "done"]
NoSync == [on |-> FALSE]

Present == {id \in Id : resources[id] # NoValue}

\* What the subscription shows of a content.
Shown(content) == IF content \in Matching THEN content ELSE NoValue

GrainsTypeOK ==
    /\ resources \in [Id -> Content]
    /\ request \in [Request ->
          {Unasked, Answered}
          \cup [at : {"post"}, id : Id, value : Value]
          \cup [at : {"stored", "noted"}, id : Id, value : Value, pre : Content]
          \cup [at : {"announced"}, id : Id]]
    /\ sync \in {NoSync} \cup [on : {TRUE}, keys : SUBSET Id]
    /\ queue \in Seq(UNION {[ids -> Content] : ids \in SUBSET Id})
    /\ syncsDue \subseteq connected
    /\ connected \subseteq Client
    /\ view \in [Client -> [Id -> Content]]

GrainsInit ==
    /\ resources \in [Id -> Content]
    /\ request = [r \in Request |-> Unasked]
    /\ sync = NoSync /\ queue = <<>>
    /\ syncsDue = {} /\ connected = {}
    /\ view = [c \in Client |-> [id \in Id |-> NoValue]]

-----------------------------------------------------------------------------
(* Registration requests.                                                   *)

Proceed(r, to) == request' = [request EXCEPT ![r] = to]

\* Fault: only a content that matches now makes an entry.
GrainFault(id, pre, post) ==
    queue' = IF post \in Matching
             THEN Append(queue, [i \in {id} |-> post]) ELSE queue

\* One entry, with the 'post' of the resource only if it matches; no grain if
\* neither the content before nor the content after matches.
Grain(id, pre, post) ==
    queue' = IF pre \in Matching \/ post \in Matching
             THEN Append(queue, [i \in {id} |-> Shown(post)]) ELSE queue

\* _create_and_queue_data_grains holds the lock for all of a grain.
LockFree == ~sync.on

Post(r, id, value) ==
    /\ request[r] = Unasked
    /\ Proceed(r, [at |-> "post", id |-> id, value |-> value])
    /\ UNCHANGED <<resources, sync, queue, syncsDue, connected, view>>

\* add: existing_resource is read ...
Note(r) ==
    /\ request[r].at = "post"
    /\ Proceed(r, [at |-> "noted", id |-> request[r].id, value |-> request[r].value,
                pre |-> resources[request[r].id]])
    /\ UNCHANGED <<resources, sync, queue, syncsDue, connected, view>>

\* ... the new one is stored ...
Store(r) ==
    /\ request[r].at = "noted"
    /\ resources' = [resources EXCEPT ![request[r].id] = request[r].value]
    /\ Proceed(r, [request[r] EXCEPT !.at = "stored"])
    /\ UNCHANGED <<sync, queue, syncsDue, connected, view>>

\* ... and the grain is queued.
Announce(r) ==
    /\ request[r].at = "stored" /\ LockFree
    /\ Grain(request[r].id, request[r].pre, request[r].value)
    /\ Proceed(r, Answered)
    /\ UNCHANGED <<resources, sync, syncsDue, connected, view>>

\* delete: the grain of a removal is queued first; 404 if it is not there ...
Delete(r, id) ==
    /\ request[r] = Unasked /\ LockFree
    /\ IF resources[id] = NoValue
       THEN Proceed(r, Answered) /\ UNCHANGED queue
       ELSE Grain(id, resources[id], NoValue) /\ Proceed(r, [at |-> "announced", id |-> id])
    /\ UNCHANGED <<resources, sync, syncsDue, connected, view>>

\* ... and then the resource is removed.
RemoveResource(r) ==
    /\ request[r].at = "announced"
    /\ resources' = [resources EXCEPT ![request[r].id] = NoValue]
    /\ Proceed(r, Answered)
    /\ UNCHANGED <<sync, queue, syncsDue, connected, view>>

-----------------------------------------------------------------------------
(* The websocket and its clients.                                           *)

\* producer_handler adds the client and schedules queue_sync_data_grain.
ConnectClient(c) ==
    /\ c \notin connected
    /\ connected' = connected \cup {c}
    /\ syncsDue' = syncsDue \cup {c}
    /\ UNCHANGED <<resources, request, sync, queue, view>>

BeginSync(c) ==
    /\ c \in syncsDue /\ LockFree
    /\ sync' = [on |-> TRUE, keys |-> Present]
    /\ syncsDue' = syncsDue \ {c}
    /\ UNCHANGED <<resources, request, queue, connected, view>>

\* An empty grain is not sent.
EndSync ==
    /\ sync.on /\ Present = sync.keys
    /\ LET entries == {id \in Present : resources[id] \in Matching}
       IN queue' = IF entries = {} THEN queue
                   ELSE Append(queue, [id \in entries |-> resources[id]])
    /\ sync' = NoSync
    /\ UNCHANGED <<resources, request, syncsDue, connected, view>>

\* "dictionary changed size during iteration": the lock is released by the
\* finally clause and the exception ends in the event loop's log.
SyncFails ==
    /\ sync.on /\ Present # sync.keys
    /\ sync' = NoSync
    /\ UNCHANGED <<resources, request, queue, syncsDue, connected, view>>

Overlay(before, grain) ==
    [id \in Id |-> IF id \in DOMAIN grain THEN grain[id] ELSE before[id]]

\* The grain is sent to every client, which changes its view by it.
Deliver ==
    /\ queue # <<>> /\ connected # {}
    /\ queue' = Tail(queue)
    /\ view' = [c \in Client |-> IF c \in connected THEN Overlay(view[c], Head(queue))
                                 ELSE view[c]]
    /\ UNCHANGED <<resources, request, sync, syncsDue, connected>>

-----------------------------------------------------------------------------

Ask(r) == \E id \in Id : Delete(r, id) \/ \E value \in Value : Post(r, id, value)

Handle(r) == Note(r) \/ Store(r) \/ Announce(r) \/ RemoveResource(r)

Websocket ==
    \/ \E c \in Client : ConnectClient(c) \/ BeginSync(c)
    \/ EndSync
    \/ SyncFails
    \/ Deliver

GrainsNext ==
    \/ \E r \in Request : Ask(r) \/ Handle(r)
    \/ Websocket

GrainsSpec == GrainsInit /\ [][GrainsNext]_grainVars

BeingHandled(r) == request[r].at \notin {"idle", "done"}

\* Requests come one after another, from one Node that waits for its answers,
\* and no sync grain is built while one is handled.  Connections are made and
\* grains are delivered at any time.
SpacedGrains ==
    \/ \E r \in Request :
         \/ (\A s \in Request : ~BeingHandled(s)) /\ LockFree /\ Ask(r)
         \/ Handle(r)
    \/ \E c \in Client : ConnectClient(c) \/ ((\A r \in Request : ~BeingHandled(r)) /\ BeginSync(c))
    \/ EndSync
    \/ Deliver

GrainsSpecSpaced == GrainsInit /\ [][SpacedGrains]_grainVars

-----------------------------------------------------------------------------
(* What a subscription promises.                                            *)

Quiescent ==
    /\ \A r \in Request : ~BeingHandled(r)
    /\ LockFree /\ syncsDue = {} /\ queue = <<>>

\* When nothing is under way, every client of the websocket knows exactly the
\* resources that match, each with its last content.
ViewsAreRight ==
    Quiescent => \A c \in connected : view[c] = [id \in Id |-> Shown(resources[id])]

\* A Sender that the suite has "put offline" is gone from the lists of all
\* controllers under test once nothing is under way.
RemovedIsForgotten ==
    Quiescent => \A c \in connected, id \in Id :
                     resources[id] = NoValue => view[c][id] = NoValue
=============================================================================
