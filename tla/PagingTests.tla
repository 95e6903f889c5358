---------------------------- MODULE PagingTests ----------------------------
(***************************************************************************)
(* The tests of pagination of the registry suite (test_21_1 to test_21_8   *)
(* of nmostesting/suites/IS0402Test.py): Nodes are posted one after        *)
(* another, and pages of them are asked for.                               *)
(*                                                                         *)
(* The suite does not know the times at which the registry stores its      *)
(* posts, only a time before and a time after each; it asks with the       *)
(* latter, and expects what the registry answers to lie in ranges.         *)
(***************************************************************************)
EXTENDS Suite, FiniteSetsExt

Faults ==
    {"none", "unpaged", "ascending", "limit", "since", "until", "filter", "epoch", "stamp", "bounds",
     "links", "ahead"}

CONSTANT Posts  \* how many sample Nodes most tests post

PagingTestsAssumption == Posts \in 20..100

TypeOK ==
    /\ device \in [fault : Faults, tight : BOOLEAN]
    /\ noted = <<>>
    /\ \A t \in DOMAIN verdict : verdict[t] \in Verdict

-----------------------------------------------------------------------------
(* Times: post_sample_nodes waits before and after each post.               *)

Lower(p) == 10 * p
Stored(p) == 10 * p + 5
Upper(p) == 10 * p + 9
Now == 10 * Posts + 100
Always == 10 * Now  \* later than any time

Span(i, j) == [n \in 1..(j - i + 1) |-> i + n - 1]

\* TS: ranges of times.
Required(t) == [lo |-> t, hi |-> t]
Epoch == Required(0)
From(t) == [lo |-> t, hi |-> Always]
Between(p, q) == [lo |-> Lower(p), hi |-> IF q > Posts THEN Always ELSE Upper(q)]
Within(range, t) == range.lo <= t /\ t <= range.hi
Anything == [lo |-> 0, hi |-> Always]

-----------------------------------------------------------------------------
(* A registry that pages as IS-04 has it, or nearly so.                     *)

\* The version, which an update changes unless it is the mistake.
StampOf(q, p) == IF device.fault = "stamp" THEN Stored(p) ELSE q.stored[p]

\* The newest matches up to paging.until, or the oldest after paging.since; at most
\* paging.limit of them, the newest first.
Matching(q) ==
    {p \in DOMAIN q.stored :
        /\ p \in q.filter \/ device.fault = "filter"
        /\ q.since = -1 \/ StampOf(q, p) > q.since \/ device.fault = "since"
        /\ q.until = -1 \/ StampOf(q, p) <= q.until \/ device.fault = "until"}

InOrder(q, ps) ==
    SelectSeq(IF device.fault = "stamp" THEN Span(1, Len(q.order)) ELSE q.order, LAMBDA p : p \in ps)
Limit(q) == IF device.fault = "limit" THEN q.limit + 1 ELSE q.limit
Cut(q) ==
    LET all == InOrder(q, Matching(q))
        n == IF Limit(q) < Len(all) THEN Limit(q) ELSE Len(all)
    IN  IF q.since = -1 THEN SubSeq(all, Len(all) - n + 1, Len(all)) ELSE SubSeq(all, 1, n)
Page(q) ==
    LET cut == SelectSeq(Cut(q), LAMBDA p : p \in q.filter)
    IN  IF device.fault = "ascending" THEN cut ELSE Reverse(cut)

\* X-Paging-Since and X-Paging-Until: the bounds asked for, but where the page was cut;
\* there any time between two resources will do.
Until(q) == IF q.until = -1 THEN Now ELSE q.until
Left(q) == {StampOf(q, p) : p \in Matching(q) \ Range(Cut(q))}
Taken(q) == {StampOf(q, p) : p \in Range(Cut(q))}
XSince(q) ==
    CASE q.since # -1 -> q.since
      [] q.since = -1 /\ Left(q) = {} -> IF device.fault = "epoch" THEN Lower(1) ELSE 0
      [] q.since = -1 /\ Left(q) # {} /\ Taken(q) = {} -> Until(q)
      [] OTHER -> IF device.fault = "bounds" THEN Max(Taken(q))
                  ELSE IF device.tight THEN Max(Left(q)) ELSE Min(Taken(q)) - 1
XUntil(q) ==
    CASE q.since = -1 \/ Left(q) = {} -> Until(q)
      [] q.since # -1 /\ Left(q) # {} /\ Taken(q) = {} -> q.since
      [] OTHER -> IF device.tight THEN Max(Taken(q)) ELSE Min(Left(q)) - 1

\* The Link header: the pages before and after this one, at the ends of all, and
\* what they are asked for with.
Links(q) ==
    LET Asked(since, until) ==
            [since |-> since, until |-> until, limit |-> Limit(q), filter |-> q.filter]
        keeps == device.fault = "links"  \* the bounds that were asked for
    IN  [prev |-> Asked(IF keeps THEN q.since ELSE -1, XSince(q)),
         next |-> Asked(XUntil(q), IF keeps THEN q.until ELSE -1),
         first |-> Asked(0, -1),
         last |-> Asked(-1, -1)]

-----------------------------------------------------------------------------
(* What the tests ask for and expect.                                       *)

All == 1..Posts
AsPosted == [p \in All |-> Stored(p)]

Query(filter, since, until, limit, ids, xsince, xuntil) ==
    [filter |-> filter, since |-> since, until |-> until, limit |-> limit, stored |-> AsPosted,
     order |-> Span(1, Posts),
     ids |-> ids, xsince |-> xsince, xuntil |-> xuntil]

Default == 100  \* no limit given

\* test_21_2: the examples of the documentation.
Examples == <<
    Query(All, -1, -1, 10, Span(Posts - 9, Posts), Between(Posts - 10, Posts - 9), Between(Posts, Posts + 1)),
    Query(All, -1, -1, 5, Span(Posts - 4, Posts), Between(Posts - 5, Posts - 4), Between(Posts, Posts + 1)),
    Query(All, Upper(4), -1, 10, Span(5, 14), Required(Upper(4)), Between(14, 15)),
    Query(All, -1, Upper(16), 10, Span(7, 16), Between(6, 7), Required(Upper(16))),
    Query(All, Upper(4), Upper(16), 10, Span(5, 14), Required(Upper(4)), Between(14, 15)) >>

\* test_21_3: edge cases.
Edges == <<
    Query(All, Upper(Posts), -1, Default, <<>>, Required(Upper(Posts)), From(Upper(Posts))),
    Query(All, -1, Lower(1), Default, <<>>, Epoch, Required(Lower(1))),
    Query({13}, -1, -1, Default, <<13>>, Epoch, From(Lower(Posts))),
    Query({}, -1, -1, Default, <<>>, Epoch, From(Lower(Posts))) >>

\* test_21_4: nothing is asked for.
Empties == <<
    Query(All, Upper(13), Upper(13), 10, <<>>, Required(Upper(13)), Required(Upper(13))),
    Query(All, Upper(13), -1, 0, <<>>, Required(Upper(13)), Required(Upper(13))),
    Query(All, -1, Upper(13), 0, <<>>, Required(Upper(13)), Required(Upper(13))) >>

\* test_21_5: resources between others that do not match.  The suite counts from 0.
Foo == {p \in 1..20 : p % 5 < 3}
Bar == (1..20) \ Foo
Sorted(s) == SelectSeq(Span(1, 20), LAMBDA p : p \in s)
Filters == <<
    Query(Foo, -1, -1, 10, SubSeq(Sorted(Foo), Cardinality(Foo) - 9, Cardinality(Foo)), Between(2, 5), From(Lower(20))),
    Query(Foo, -1, Upper(2), 10, SubSeq(Sorted(Foo), 1, Cardinality(Foo) - 10), Epoch, From(Upper(2))),
    Query(Foo, Upper(20), -1, 10, <<>>, Required(Upper(20)), From(Upper(20))),
    Query(Bar, -1, -1, 10, Sorted(Bar), Epoch, From(Lower(20))),
    Query(Bar, -1, -1, 3, <<14, 18, 19>>, Between(13, 14), From(Lower(19))),
    Query(Bar, -1, Upper(13), 3, <<8, 9, 13>>, Between(4, 8), Required(Upper(13))),
    Query(Bar, Upper(5), Upper(13), 3, <<8, 9, 13>>, Required(Upper(5)), Required(Upper(13))),
    Query(Bar, Upper(10), Upper(13), 3, <<13>>, Required(Upper(10)), Required(Upper(13))),
    Query(Bar, Upper(10), Upper(12), 3, <<>>, Required(Upper(10)), Required(Upper(12))) >>

\* test_21_7: three Nodes, posted and then updated in another order.
Updated(order) == [p \in 1..3 |-> IF p \in Range(order)
                                  THEN Now - 50 + CHOOSE n \in DOMAIN order : order[n] = p ELSE Stored(p)]
Later(order, since, until, ids, xsince, xuntil) ==
    [filter |-> 1..3, since |-> since, until |-> until, limit |-> 3, stored |-> Updated(order),
     order |-> SelectSeq(Span(1, 3), LAMBDA p : p \notin Range(order)) \o order,
     ids |-> ids, xsince |-> xsince, xuntil |-> xuntil]
Updates == <<
    Later(<<>>, -1, -1, <<1, 2, 3>>, Epoch, From(Lower(3))),
    Later(<<>>, Upper(3), -1, <<>>, Required(Upper(3)), Anything),
    Later(<<>>, -1, Upper(3), <<1, 2, 3>>, Anything, From(Lower(3))),
    Later(<<2>>, Upper(3), -1, <<2>>, Required(Upper(3)), Anything),
    Later(<<2>>, -1, Upper(3), <<1, 3>>, Anything, Required(Upper(3))),
    Later(<<2, 3, 1>>, -1, Upper(3), <<>>, Anything, Required(Upper(3))),
    Later(<<2, 3, 1>>, Upper(3), -1, <<2, 3, 1>>, Required(Upper(3)), Anything) >>

\* The queries of each test; those of Headers look for no resources and no values of
\* the bounds, which the links have to agree with nevertheless.
Queries == [test_21_1 |-> <<Query(All, -1, -1, Default, <<>>, Anything, Anything)>>,
            test_21_1_1 |-> <<Query(All, -1, -1, 10, <<>>, Anything, Anything)>>,
            test_21_8 |-> <<Query({}, -1, -1, Default, <<>>, Anything, Anything)>>,
            test_21_2 |-> Examples, test_21_3 |-> Edges, test_21_4 |-> Empties,
            test_21_5 |-> Filters, test_21_7 |-> Updates]
Headers == {"test_21_1", "test_21_1_1", "test_21_8"}
Order == <<"test_21_1", "test_21_1_1", "test_21_2", "test_21_3", "test_21_4", "test_21_5",
           "test_21_6", "test_21_7", "test_21_8">>

-----------------------------------------------------------------------------

Init ==
    /\ \E plan \in Plans(Order) : at = Position(plan)
    /\ device \in [fault : Faults, tight : BOOLEAN]
    /\ noted = <<>>
    /\ verdict = NoVerdicts(Order)

SetUp == On({"set_up_tests", "tear_down_tests"}, "begin") /\ Conclude("PASS") /\ UNCHANGED <<device, noted>>

\* A test posts its Nodes.  The time that the registry gives for one of them, if it
\* gives any, is not within its post if its clock is ahead.
PostSamples ==
    /\ On(DOMAIN Queries, "begin")
    /\ IF device.fault = "ahead" /\ Head(at.plan) \notin Headers THEN Conclude("FAIL")
       ELSE Visit(Queries[Head(at.plan)])
    /\ UNCHANGED <<device, noted>>

RightBounds(q) ==
    /\ Within(q.xsince, XSince(q)) /\ Within(q.xuntil, XUntil(q))
    /\ q.limit \in {Default, Limit(q)}

RightLinks(q) ==
    /\ Links(q).prev.until = XSince(q) /\ Links(q).prev.since = -1
    /\ Links(q).next.since = XUntil(q) /\ Links(q).next.until = -1
    /\ Links(q).first.since = 0 /\ Links(q).first.until = -1
    /\ Links(q).last.since = -1 /\ Links(q).last.until = -1
    /\ \A rel \in DOMAIN Links(q) : Links(q)[rel].limit = Limit(q) /\ Links(q)[rel].filter = q.filter

\* Fault: the order of the resources is not looked at.
PagedResponseFault ==
    /\ On(DOMAIN Queries, "visit")
    /\ LET q == Subject
       IN  \/ device.fault = "unpaged" /\ Conclude("OPTIONAL")
           \/ /\ device.fault # "unpaged"
              /\ IF /\ RightLinks(q)
                    /\ Head(at.plan) \in Headers \/ (Range(Page(q)) = Range(q.ids) /\ RightBounds(q))
                 THEN Leave ELSE Conclude("FAIL")
    /\ UNCHANGED <<device, noted>>

\* do_test_paged_response, for one query after the other.
PagedResponse ==
    /\ On(DOMAIN Queries, "visit")
    /\ LET q == Subject
       IN  \/ device.fault = "unpaged" /\ Conclude("OPTIONAL")
           \/ /\ device.fault # "unpaged"
              /\ IF /\ RightLinks(q)
                    /\ Head(at.plan) \in Headers \/ (Page(q) = Reverse(q.ids) /\ RightBounds(q))
                 THEN Leave ELSE Conclude("FAIL")
    /\ UNCHANGED <<device, noted>>

\* test_21_6: since after until is a bad request.
BadRequest ==
    /\ On({"test_21_6"}, "begin")
    /\ Conclude(CASE device.fault = "unpaged" -> "OPTIONAL"
                  [] device.fault \in {"since", "until"} -> "FAIL"
                  [] OTHER -> "PASS")
    /\ UNCHANGED <<device, noted>>

Next == SetUp \/ PostSamples \/ PagedResponse \/ BadRequest

Spec == Init /\ [][Next]_suiteVars

-----------------------------------------------------------------------------

\* A registry that pages as IS-04 has it passes, whichever of the possible times it
\* gives for the bounds of a page it has cut.
ConformingPagesPass == device.fault = "none" => \A t \in DOMAIN verdict : verdict[t] # "FAIL"

\* Every mistake is found by a run of the whole suite, whichever times are given.
PageMistakesAreFound ==
    /\ Ended /\ device.fault \notin {"none", "unpaged"}
    /\ \A t \in DOMAIN verdict : verdict[t] # "none"
    => \E t \in DOMAIN verdict : verdict[t] = "FAIL"
=============================================================================
