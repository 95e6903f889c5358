------------------------------ MODULE MCMedia ------------------------------
(***************************************************************************)
(* Small registries and devices for the suites of IS-04, IS-05, IS-07,     *)
(* IS-08 and IS-11.  Sets and sequences of model values are in the .cfg.   *)
(***************************************************************************)
EXTENDS MediaSuites, TLC

CONSTANTS v1, a, i, j, o, rv, ra, rn, sv, sa, x, y, node, dev, src, ia, ib, ic, oa, ob, oc

\* IS-11: a video Sender with two Inputs, and an audio Sender without.  One Input
\* has every feature, one cannot adjust, one has no EDID.  Three Receivers, of which
\* an audio one has no Output.
MCInputsOf == (v1 :> <<i, j>> @@ a :> <<>>)
MCOutputsOf == [r \in {rv, ra, rn} |-> IF r = rn THEN {} ELSE {o}]
MCFormatOf == [p \in {rv, ra, rn, sv, sa} |-> IF p \in {rv, sv} THEN "video" ELSE "audio"]
MCRefSender == <<sv, sa>>

\* IS-05: a port with a single value that its constraints allow; for the updates,
\* a Sender that is not RTP.
MCPortSenders == <<v1>>
MCPortReceivers == <<rv, ra>>
MCAllowed == [p \in {v1, rv, ra} |-> IF p = ra THEN {x} ELSE {x, y}]
MCUpdatedSenders == <<v1, a>>
MCUpdatedReceivers == <<rv>>

\* IS-04: a Node, its Device, and a Source of the Device.
MCTypes == <<node, dev, src>>
MCParent == (node :> node @@ dev :> node @@ src :> dev)

\* IS-08: an Input that keeps its order and one that is routed in blocks; an Output
\* that can be unrouted, one with two Inputs, and one with two blocks of one Input.
MCMapInputs == <<ia, ib, ic>>
MCMapOutputs == <<oa, ob, oc>>
MCWidth == [c \in {ia, ib, ic, oa, ob, oc} |-> IF c = ic THEN 4 ELSE 2]
MCBlockSize == (ia :> 1 @@ ib :> 1 @@ ic :> 2)
MCReorders == (ia :> FALSE @@ ib :> TRUE @@ ic :> TRUE)
MCRoutable == (oa :> <<NoInput, ia>> @@ ob :> <<ia, ic>> @@ oc :> <<ic>>)
=============================================================================
