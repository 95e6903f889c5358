---------------------------- MODULE QueryPaging ----------------------------
(***************************************************************************)
(* Pages of the mock registry's Query API (query_resource of               *)
(* nmostesting/mocks/Registry.py), walked by a controller that follows the *)
(* links of each answer while resources are updated.                       *)
(*                                                                         *)
(* Updates come at even times, requests at the odd times between.  A       *)
(* resource that is not registered has version 0, the "0:0" that no        *)
(* version comes before.                                                   *)
(***************************************************************************)
EXTENDS Naturals, FiniteSets

CONSTANTS
    Resource,
    Pos,       \* the place of each resource in the table, which ties are sorted by
    Horizon,   \* a bound on time
    Limits     \* the limits a controller asks for, at most paging_limit

ASSUME QueryPagingAssumption ==
    /\ IsFiniteSet(Resource)
    /\ Pos \in [Resource -> Nat] /\ \A q, r \in Resource : Pos[q] = Pos[r] => q = r
    /\ Horizon \in Nat /\ Limits \subseteq Nat \ {0}

VARIABLES
    now,
    version,  \* the resources' versions
    walk,     \* the link that is followed next: its direction, its limit, its bound
    seen,     \* the versions the controller has seen last
    changed,  \* the resources updated since the walk began
    done      \* an empty page was met

pagingVars == <<now, version, walk, seen, changed, done>>

Registered == {r \in Resource : version[r] > 0}

PagingTypeOK ==
    /\ now \in 0..Horizon
    /\ version \in [Resource -> 0..Horizon] /\ seen \in [Resource -> 0..Horizon]
    /\ walk \in [rel : {"next", "prev"}, limit : Limits, bound : 0..Horizon + 1]
    /\ changed \subseteq Resource /\ done \in BOOLEAN

PagingInit ==
    /\ now = Horizon \div 2
    /\ \E times \in SUBSET (1..(Horizon \div 4)), rel \in {"next", "prev"}, limit \in Limits :
         /\ version \in [Resource -> {0} \cup {2 * t : t \in times}]
         /\ \A t \in times :
              Cardinality({r \in Resource : version[r] = 2 * t}) \in 1..(IF rel = "next" THEN limit ELSE 1)
         /\ walk = [rel |-> rel, limit |-> limit, bound |-> IF rel = "next" THEN 0 ELSE now + 1]
    /\ seen = [r \in Resource |-> 0]
    /\ changed = {} /\ done = FALSE

\* A Node registers or updates a resource.
Update(r) ==
    /\ ~done /\ now + 2 <= Horizon
    /\ now' = now + 2
    /\ version' = [version EXCEPT ![r] = now']
    /\ changed' = changed \cup {r}
    /\ UNCHANGED <<walk, seen, done>>

-----------------------------------------------------------------------------

MaxUntil == now + 1

\* How many resources come before a time; the place of a resource when they are sorted.
Before(t) == Cardinality({r \in Registered : version[r] < t})
Rank(r) == Cardinality({q \in Registered :
              version[q] < version[r] \/ (version[q] = version[r] /\ Pos[q] < Pos[r])})

Least(m, n) == IF m < n THEN m ELSE n
Less(m, n) == IF m > n THEN m - n ELSE 0

\* The indices of the page, for paging.since alone and for paging.until alone.
SinceIndex == IF walk.rel = "prev" THEN Less(Before(walk.bound), walk.limit) ELSE Before(walk.bound)

\* Fault: one too far.
UntilIndexFault == IF walk.rel = "prev" THEN Before(walk.bound) - 1
                   ELSE Least(Before(MaxUntil), SinceIndex + walk.limit)

UntilIndex == IF walk.rel = "prev" THEN Before(walk.bound)
              ELSE Least(Before(MaxUntil), SinceIndex + walk.limit)

Page == {r \in Registered : SinceIndex <= Rank(r) /\ Rank(r) < UntilIndex}

\* The version at an index, or the time at the end.
VersionAt(index, otherwise) ==
    IF index < Cardinality(Registered) THEN version[CHOOSE r \in Registered : Rank(r) = index]
    ELSE otherwise

\* Fault: the link to what follows starts after the last resource of the page.
NextBoundFault == VersionAt(UntilIndex, MaxUntil) + 1

\* The bounds of the links that come with the page.
NextBound == VersionAt(UntilIndex, MaxUntil)

\* Fault: the link to what comes before does not leave out the page's first resource.
PrevBoundFault == VersionAt(SinceIndex, walk.bound) + 1

PrevBound == VersionAt(SinceIndex, walk.bound)

\* query_resource, and the controller that follows its link as long as there is
\* something on the page.
GetPage ==
    /\ ~done
    /\ seen' = [r \in Resource |-> IF r \in Page THEN version[r] ELSE seen[r]]
    /\ IF Page = {} THEN done' = TRUE /\ UNCHANGED walk
       ELSE /\ walk' = [walk EXCEPT !.bound = IF walk.rel = "prev" THEN PrevBound ELSE NextBound]
            /\ UNCHANGED done
    /\ UNCHANGED <<now, version, changed>>

PagingNext == GetPage \/ \E r \in Resource : Update(r)

PagingSpec == PagingInit /\ [][PagingNext]_pagingVars

-----------------------------------------------------------------------------

\* A controller that follows "next" from the first page until there is nothing more
\* knows every resource as it is, whatever was updated on the way, if no more
\* resources share a version than fit on a page.
ForwardWalkIsComplete ==
    done /\ walk.rel = "next" => \A r \in Registered : seen[r] = version[r]

\* One that follows "prev" from now on sees every resource that was not updated on
\* the way, if no two share a version.
BackwardWalkIsComplete ==
    done /\ walk.rel = "prev" => \A r \in Registered \ changed : seen[r] = version[r]
=============================================================================
