---------------------------- MODULE MCTestRunner ----------------------------
(***************************************************************************)
(* Instances of TestRunner for TLC: runs are symmetric among web requests. *)
(***************************************************************************)
EXTENDS TestRunner, TLC

CONSTANTS cli, web1, web2

MCRun == {cli, web1, web2}
MCCommandLine == {cli}
MCTests == <<"auto", "test_01">>
MCShortTests == <<"test_01">>
Symmetry == Permutations({web1, web2})
=============================================================================
