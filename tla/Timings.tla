------------------------------ MODULE Timings ------------------------------
(***************************************************************************)
(* The places where the suites race a clock against somebody else's time,  *)
(* each on its own: the question that times out, the one that is asked     *)
(* before what it asks for happens, and the registries that are taken away *)
(* one by one.                                                             *)
(***************************************************************************)
EXTENDS TimedQuestion, RegistryFailover

VARIABLE race

raceVars == <<race, timedVars, failoverVars>>

RaceInit ==
    /\ race \in {"question", "timed", "failover"}
    /\ TimedInit /\ FailoverInit
    /\ race # "failover" => conforming
    /\ race # "timed" => prompt

OfQuestion(action) ==
    /\ race = "question" /\ action
    /\ UNCHANGED <<race, step, event, planned, until, changed, received, prompt, failoverVars>>
OfTimed(action) == race = "timed" /\ action /\ UNCHANGED <<race, failoverVars>>
OfFailover(action) == race = "failover" /\ action /\ UNCHANGED <<race, timedVars>>

RaceNext ==
    \/ OfQuestion(Next)
    \/ OfTimed(TimedNext)
    \/ OfFailover(FailoverNext)

\* Time goes on, the suite's thread runs, and a Node that sends a heartbeat
\* when it is due is not held up.  A Node need not register.
RaceSpec ==
    /\ RaceInit /\ [][RaceNext]_raceVars
    /\ WF_raceVars(OfFailover(Suite))
    /\ WF_raceVars(OfFailover(Heartbeat \/ MoveOn))
    /\ WF_raceVars(OfFailover(FailoverTick))

-----------------------------------------------------------------------------

RaceTypeOK == TimedTypeOK /\ FailoverTypeOK

\* With a conforming Node, or none that registers, the prerequisites come to an
\* end.  The loop that waits for the second heartbeat has no timeout, so that
\* nothing of the kind holds of a Node that falls silent after its first.
PrereqsEnd == race = "failover" /\ conforming ~> pc = "done"
=============================================================================
