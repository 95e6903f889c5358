-------------------------- MODULE MCTestingFacade --------------------------
(***************************************************************************)
(* Instances of TestingFacade for TLC: a run of pre_tests_message, one or  *)
(* two tests, one of them with two questions, and post_tests_message.      *)
(***************************************************************************)
EXTENDS TestingFacade

MCShortScript == << <<"pre">>, <<"t1">>, <<"post">> >>
MCScript == << <<"pre">>, <<"t1", "t1_1">>, <<"post">> >>
MCQuestionId == {"pre", "t1", "t1_1", "post"}
MCNoId == "null"
=============================================================================
