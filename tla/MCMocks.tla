------------------------------ MODULE MCMocks ------------------------------
(***************************************************************************)
(* A small instance of the mock services: two peers and three PATCHes, two *)
(* resources and two clients with three registration requests, two         *)
(* registries with two types, and pages of four resources.                 *)
(***************************************************************************)
EXTENDS MockServices, TLC

CONSTANTS
    s1, s2, p1, p2, p3,                            \* peers and PATCH requests
    i1, i2, on, off, r1, r2, r3, c1, c2,           \* ids, contents, requests, clients
    g1, g2, sender, receiver, slow, fast           \* registries, types and rates

MCPeer == {s1, s2}
MCPatch == {p1, p2, p3}
MCId == {i1, i2}
MCValue == {on, off}
MCMatching == {on}
MCRequest == {r1, r2, r3}
MCClient == {c1, c2}
MCRegistry == {g1, g2}
MCType == {sender, receiver}
MCRate == {slow, fast}
MCResource == 1..4
MCPos == [r \in MCResource |-> r]
=============================================================================
