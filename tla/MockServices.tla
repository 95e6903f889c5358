---------------------------- MODULE MockServices ----------------------------
(***************************************************************************)
(* The mock services, each one at work on its own: a Sender or Receiver of *)
(* the mock Node, the grains of a subscription, the subscriptions of the   *)
(* registries, and the pages of the Query API.                             *)
(***************************************************************************)
EXTENDS NodeConnection, DataGrains, QuerySubscriptions, QueryPaging

VARIABLE mock

connectionVars == vars
mockVars == <<mock, connectionVars, grainVars, subscriptionVars, pagingVars>>

MocksInit ==
    /\ mock \in {"connection", "grains", "subscriptions", "paging"}
    /\ Init /\ GrainsInit /\ SubscriptionsInit /\ PagingInit
    /\ mock # "grains" => Present = {}
    /\ mock # "paging" =>
         Registered = {} /\ walk.rel = "next" /\ walk.limit = CHOOSE limit \in Limits : TRUE

OfNode(action) ==
    mock = "connection" /\ action /\ UNCHANGED <<mock, grainVars, subscriptionVars, pagingVars>>
OfGrains(action) ==
    mock = "grains" /\ action /\ UNCHANGED <<mock, connectionVars, subscriptionVars, pagingVars>>
OfSubscriptions(action) ==
    mock = "subscriptions" /\ action /\ UNCHANGED <<mock, connectionVars, grainVars, pagingVars>>
OfPaging(action) ==
    mock = "paging" /\ action /\ UNCHANGED <<mock, connectionVars, grainVars, subscriptionVars>>

\* PATCH and registration requests come one at a time, controllers subscribe in
\* suites that end with their tear down.
MocksNext ==
    \/ OfNode(NextSerial)
    \/ OfGrains(SpacedGrains)
    \/ OfSubscriptions(NextController)
    \/ OfPaging(PagingNext)

\* The controller that walks through the pages goes on.
MocksSpec == MocksInit /\ [][MocksNext]_mockVars /\ WF_mockVars(OfPaging(GetPage))

-----------------------------------------------------------------------------

MocksTypeOK == TypeOK /\ GrainsTypeOK /\ SubscriptionsTypeOK /\ PagingTypeOK

\* A walk through the pages, in either direction, comes to its end while resources
\* are updated.
WalksEnd == mock = "paging" ~> done
=============================================================================
