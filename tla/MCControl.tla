----------------------------- MODULE MCControl -----------------------------
(***************************************************************************)
(* Small devices for the suites of MS-05, IS-14 and BCP-008.  Sets and     *)
(* sequences of model values are in the .cfg.                              *)
(***************************************************************************)
EXTENDS ControlSuites, TLC

CONSTANTS root, mgr, blk, w1, w2, vnd, p, q, e, b1, x, b2, y, nr, nb, nc, mon1, mon2

\* MS-05: a manager, a block and a worker in the root block, a worker and an
\* object of a vendor's class in the block.
MCMembers == (root :> <<mgr, blk, w1>> @@ blk :> <<w2, vnd>>)
MCClassOf ==
    (blk :> "block" @@ mgr :> "manager" @@ w1 :> "worker" @@ w2 :> "worker" @@ vnd :> "vendor")
MCFeatures ==
    [block |-> {"item", "length"}, manager |-> {},
     worker |-> {"runtime", "property", "hierarchy", "touchpoints"},
     vendor |-> {"parameter", "deprecated"}]

\* MS-05: levels that narrow and widen, with limits at zero; an empty, a short
\* and a longer sequence.
Level(min, max, step) == [min |-> min, max |-> max, step |-> step]
Without == 107
MCLimits == {Level(0, 3, 1), Level(Without, 3, Without), Level(-2, 0, 2), Level(1, 4, 3)}
MCStored == (p :> <<1, 2>> @@ q :> <<5>> @@ e :> <<>>)
MCSequences == <<p, q, e>>

\* IS-14: two blocks, one within the other, each with another object.
MCListed == <<root, b1, x, b2, y, nr, nb, nc>>
MCUp == (b1 :> root @@ x :> b1 @@ b2 :> b1 @@ y :> b2 @@ nr :> root @@ nb :> b1 @@ nc :> b2)
MCNew == (root :> nr @@ b1 :> nb @@ b2 :> nc)

\* BCP-008: two monitors.
MCMonitors == <<mon1, mon2>>
=============================================================================
