------------------------- MODULE QuerySubscriptions -------------------------
(***************************************************************************)
(* The subscriptions of the mock registries' Query APIs and the websockets *)
(* that serve them (nmostesting/mocks/Registry.py).                        *)
(*                                                                         *)
(* The resources, and the subscriptions among them, are in REGISTRY_COMMON *)
(* and shared by all registries; the websockets belong to the registry     *)
(* that was asked for the subscription.  The two are created together, but *)
(* they are not cleared together: reset clears the shared resources and    *)
(* disable closes one registry's websockets.                               *)
(***************************************************************************)
EXTENDS Naturals, Sequences, FiniteSets

CONSTANTS
    Registry,   \* the mock registries
    Type,       \* resource types
    Rate,       \* values of max_update_rate_ms
    Deletable,  \* requests have persist = true, and DELETE of subscriptions is used
    MaxId       \* bound: subscriptions created

ASSUME QuerySubscriptionsAssumption ==
    Deletable \in BOOLEAN /\ MaxId \in Nat

VARIABLES
    enabled,    \* registries that answer requests
    populating, \* registries whose suite is between enabling and populating them
    table,      \* common.resources['subscription'], in the order of insertion
    sockets,    \* subscription_websockets of each registry, with their ports
    deleting,   \* a DELETE that has closed the websocket but not removed the entry
    created,    \* subscriptions created so far: their ids are 1..created
    reply,      \* the answer to the last POST of a subscription
    missed      \* open websockets that were not sent a change of their registry

subscriptionVars == <<enabled, populating, table, sockets, deleting, created, reply, missed>>

Port == 0..MaxId
Socket == [id : 1..MaxId, type : Type, port : Port]
Entry == [id : 1..MaxId, type : Type, rate : Rate]
NoReply == [status |-> "none"]
Failed(why) == [status |-> why]
Nothing == [id |-> 0]

SubscriptionsTypeOK ==
    /\ enabled \subseteq Registry /\ populating \subseteq enabled
    /\ table \in Seq(Entry)
    /\ sockets \in [Registry -> SUBSET Socket]
    /\ deleting \in {Nothing} \cup [id : 1..MaxId]
    /\ created \in 0..MaxId
    /\ reply \in {NoReply, Failed("port in use"), Failed("KeyError")}
                 \cup [status : {"ok"}, id : 1..MaxId]
    /\ missed \subseteq 1..MaxId

SubscriptionsInit ==
    /\ enabled = {} /\ populating = {}
    /\ table = <<>>
    /\ sockets = [g \in Registry |-> {}]
    /\ deleting = Nothing /\ created = 0
    /\ reply = NoReply /\ missed = {}

-----------------------------------------------------------------------------

Ids(g) == {s.id : s \in sockets[g]}
PortsInUse == {s.port : s \in UNION {sockets[g] : g \in Registry}}

\* Fault: reset leaves the subscriptions.
ResetFault == UNCHANGED table

\* RegistryCommon.reset: the resources of all registries, subscriptions too.
Reset == table' = <<>>

\* set_up_tests of a controller suite: reset and enable ...
SetUp(g) ==
    /\ populating = {}
    /\ Reset
    /\ enabled' = enabled \cup {g}
    /\ populating' = populating \cup {g}
    /\ reply' = NoReply
    /\ UNCHANGED <<sockets, deleting, created, missed>>

\* ... and _populate_registry, which resets the common resources once more.
Populate(g) ==
    /\ g \in populating
    /\ Reset
    /\ populating' = populating \ {g}
    /\ reply' = NoReply
    /\ UNCHANGED <<enabled, sockets, deleting, created, missed>>

\* enable without a reset, as IS0401Test does for one registry after another.
Enable(g) ==
    /\ g \notin enabled
    /\ enabled' = enabled \cup {g}
    /\ reply' = NoReply
    /\ UNCHANGED <<populating, table, sockets, deleting, created, missed>>

\* disable: every websocket of the registry is closed and forgotten.
Disable(g) ==
    /\ g \in enabled \ populating
    /\ enabled' = enabled \ {g}
    /\ sockets' = [sockets EXCEPT ![g] = {}]
    /\ missed' = missed \ Ids(g)
    /\ reply' = NoReply
    /\ UNCHANGED <<populating, table, deleting, created>>

-----------------------------------------------------------------------------
(* subscribe_to_query_api, which holds the lock of its registry throughout. *)

\* Subscriptions that agree with the request in all but 'secure' and 'params',
\* which are compared last.
Alike(type, rate) == {k \in 1..Len(table) : table[k].type = type /\ table[k].rate = rate}

Reuse(g, type, rate, secureGiven) ==
    /\ g \in enabled
    /\ \E k \in Alike(type, rate) :
         /\ \A j \in Alike(type, rate) : k <= j
         /\ reply' = IF secureGiven THEN [status |-> "ok", id |-> table[k].id]
                     ELSE Failed("KeyError")
    /\ UNCHANGED <<enabled, populating, table, sockets, deleting, created, missed>>

\* Fault: every registry numbers its websockets from the start of the range.
NextPortFault(g) == 0

\* WEBSOCKET_PORT_BASE + len(self.subscription_websockets), the base being 0.
NextPort(g) == Cardinality(sockets[g])

Create(g, type, rate) ==
    /\ g \in enabled /\ Alike(type, rate) = {} /\ created < MaxId
    /\ IF NextPort(g) \in PortsInUse
       THEN /\ reply' = Failed("port in use")
            /\ UNCHANGED <<table, sockets, created>>
       ELSE /\ created' = created + 1
            /\ table' = Append(table, [id |-> created', type |-> type, rate |-> rate])
            /\ sockets' = [sockets EXCEPT ![g] =
                             @ \cup {[id |-> created', type |-> type, port |-> NextPort(g)]}]
            /\ reply' = [status |-> "ok", id |-> created']
    /\ UNCHANGED <<enabled, populating, deleting, missed>>

-----------------------------------------------------------------------------
(* delete_subscription, which does not take the lock.                       *)

\* The websocket is closed and removed ...
CloseDeleted(g, id) ==
    /\ Deletable /\ g \in enabled /\ deleting = Nothing
    /\ \E k \in 1..Len(table) : table[k].id = id
    /\ id \in Ids(g)
    /\ sockets' = [sockets EXCEPT ![g] = {s \in @ : s.id # id}]
    /\ missed' = missed \ {id}
    /\ deleting' = [id |-> id]
    /\ reply' = NoReply
    /\ UNCHANGED <<enabled, populating, table, created>>

\* ... and then the subscription.
ForgetDeleted ==
    /\ deleting # Nothing
    /\ table' = SelectSeq(table, LAMBDA s : s.id # deleting.id)
    /\ deleting' = Nothing
    /\ reply' = NoReply
    /\ UNCHANGED <<enabled, populating, sockets, created, missed>>

-----------------------------------------------------------------------------

OfType(type) == {k \in 1..Len(table) : table[k].type = type}

\* Fault: the first subscription of the type takes the grain.
ServedFault(g, type) ==
    {table[k].id : k \in {k \in OfType(type) :
        table[k].id \in Ids(g) /\ \A j \in OfType(type) : k <= j}}

\* _create_and_queue_data_grains goes through the subscriptions of the type in
\* order; one without a websocket of this registry is a KeyError, which ends it.
Served(g, type) ==
    {table[k].id : k \in {k \in OfType(type) :
        \A j \in OfType(type) : j <= k => table[j].id \in Ids(g)}}

\* A resource of the type is registered, changed or deleted at a registry.
Change(g, type) ==
    /\ g \in enabled
    /\ missed' = missed \cup ({s.id : s \in {s \in sockets[g] : s.type = type}} \ Served(g, type))
    /\ reply' = NoReply
    /\ UNCHANGED <<enabled, populating, table, sockets, deleting, created>>

-----------------------------------------------------------------------------

Subscribe(g) ==
    \E type \in Type, rate \in Rate :
        \/ Create(g, type, rate)
        \/ \E secureGiven \in BOOLEAN : Reuse(g, type, rate, secureGiven)

SubscriptionsNext ==
    \/ \E g \in Registry :
         \/ SetUp(g)
         \/ Populate(g)
         \/ Enable(g)
         \/ Disable(g)
         \/ Subscribe(g)
         \/ \E id \in 1..created : CloseDeleted(g, id)
         \/ \E type \in Type : Change(g, type)
    \/ ForgetDeleted

SubscriptionsSpec == SubscriptionsInit /\ [][SubscriptionsNext]_subscriptionVars

\* A controller suite that always ends with its tear down, whose controllers
\* subscribe, with 'secure', when the registry has been populated.
NextController ==
    \E g \in Registry :
        \/ enabled = {} /\ SetUp(g)
        \/ Populate(g)
        \/ Disable(g)
        \/ populating = {} /\ \E type \in Type, rate \in Rate :
                                 Create(g, type, rate) \/ Reuse(g, type, rate, TRUE)
        \/ \E type \in Type : Change(g, type)

SpecController == SubscriptionsInit /\ [][NextController]_subscriptionVars

-----------------------------------------------------------------------------
(* What the subscriptions promise.                                          *)

\* A POST that is answered with a subscription names a websocket that is open:
\* subscribe_to_query_api "creates a subscription and starts a Subscription
\* WebSocket".
RepliesAreServed == reply.status = "ok" => \E g \in Registry : reply.id \in Ids(g)

\* Every change at a registry is sent to all its open websockets of the type:
\* table and websockets never come apart in a way that silences a controller.
NoChangeIsMissed == missed = {}

\* No subscription fails because its websocket's port is taken by another.
PortsAreFree == reply.status # "port in use"
=============================================================================
