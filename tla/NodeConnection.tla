--------------------------- MODULE NodeConnection ---------------------------
(***************************************************************************)
(* One Sender or Receiver of the mock Node's Connection API and its entry  *)
(* in the mock registry (nmostesting/mocks/Node.py, ControllerTest.py,     *)
(* IS0404Test.py).                                                         *)
(*                                                                         *)
(* A PATCH of the staged parameters is a thread of the Node's web server,  *)
(* or the suite's own thread; nothing excludes them from one another.  A   *)
(* PATCH with an activation changes the subscription of the IS-04 resource *)
(* that the Node holds, POSTs that resource to the registry, and only then *)
(* changes the active and the staged parameters.  Meanwhile the suite may  *)
(* take the resource offline and put it online again, as a new generation. *)
(***************************************************************************)
EXTENDS Naturals

CONSTANTS
    Peer,      \* what the resource can be connected to
    NoPeer,    \* null
    Absent,    \* the registry has no such resource
    Kept,      \* a field that a PATCH leaves out
    Enabled,   \* master_enable of a new resource: a Sender's, not a Receiver's
    Patch,     \* the PATCH requests to come
    MaxGen     \* bound: times the resource is put online

ASSUME NodeConnectionAssumption ==
    /\ NoPeer \notin Peer
    /\ Kept \notin Peer \cup {NoPeer} \cup BOOLEAN
    /\ Absent \notin [active : BOOLEAN, peer : Peer \cup {NoPeer}]
    /\ Enabled \in BOOLEAN
    /\ MaxGen \in Nat \ {0}

VARIABLES
    gen,           \* the generation of the resource
    suite,         \* how far the suite is with taking it offline or online
    staged,        \* activations['staged'] of each generation
    active,        \* activations['active'] of each generation
    subscription,  \* the subscription of the Node's IS-04 resource
    registered,    \* the subscription in the registry
    patch          \* where each PATCH is

vars == <<gen, suite, staged, active, subscription, registered, patch>>

Params == [enable : BOOLEAN, peer : Peer \cup {NoPeer}]
Subscription == [active : BOOLEAN, peer : Peer \cup {NoPeer}]
Gen == 1..MaxGen
Unconnected == [enable |-> Enabled, peer |-> NoPeer]
Unsubscribed == [active |-> Enabled, peer |-> NoPeer]
Idle == [at |-> "idle"]
Done == [at |-> "done"]
Stages == {"activate", "connect", "post", "apply", "stage"}

\* The subscription that goes with active parameters.
Of(params) == [active |-> params.enable,
               peer |-> IF params.enable THEN params.peer ELSE NoPeer]

TypeOK ==
    /\ gen \in Gen
    /\ suite \in {"online", "unregistered", "offline", "reregistered"}
    /\ staged \in [Gen -> Params] /\ active \in [Gen -> Params]
    /\ subscription \in [Gen -> Subscription]
    /\ registered \in Subscription \cup {Absent}
    /\ patch \in [Patch ->
          {Idle, Done}
          \cup [at : Stages, of : Gen, response : Params]
          \cup [at : {"sent"}, of : Gen, response : Params, body : Subscription]]

Init ==
    /\ gen = 1 /\ suite = "online"
    /\ staged = [g \in Gen |-> Unconnected]
    /\ active = [g \in Gen |-> Unconnected]
    /\ subscription = [g \in Gen |-> Unsubscribed]
    /\ registered = Unsubscribed
    /\ patch = [p \in Patch |-> Idle]

-----------------------------------------------------------------------------
(* patch_staged and _patch_staged_mxl.                                      *)

Goto(p, at) == patch' = [patch EXCEPT ![p].at = at]
Finish(p) == patch' = [patch EXCEPT ![p] = Done]
My(p) == patch[p].of

\* 404 for a resource that the Node does not have, 400 for a constraint that
\* is not met: nothing changes.
Refuse(p) ==
    /\ patch[p].at = "idle"
    /\ Finish(p)
    /\ UNCHANGED <<gen, suite, staged, active, subscription, registered>>

Has == suite \in {"online", "unregistered"}

Given(field, old) == IF field = Kept THEN old ELSE field

\* The staged parameters, copied, with the fields of the request laid over them.
Read(p, enable, peer, activation) ==
    /\ patch[p].at = "idle" /\ Has
    /\ patch' = [patch EXCEPT ![p] =
                  [at |-> IF activation THEN "activate" ELSE "stage", of |-> gen,
                   response |-> [enable |-> Given(enable, staged[gen].enable),
                                 peer |-> Given(peer, staged[gen].peer)]]]
    /\ UNCHANGED <<gen, suite, staged, active, subscription, registered>>

\* subscription['active'] = master_enable ...
Activate(p) ==
    /\ patch[p].at = "activate"
    /\ subscription' = [subscription EXCEPT ![My(p)].active = patch[p].response.enable]
    /\ Goto(p, "connect")
    /\ UNCHANGED <<gen, suite, staged, active, registered>>

\* Fault: the peer of a deactivated resource is kept.
ConnectFault(p) ==
    /\ patch[p].at = "connect"
    /\ subscription' = [subscription EXCEPT ![My(p)].peer = patch[p].response.peer]
    /\ Goto(p, "post")
    /\ UNCHANGED <<gen, suite, staged, active, registered>>

\* ... and its peer, by the subscription's 'active' as it is now.
Connect(p) ==
    /\ patch[p].at = "connect"
    /\ subscription' = [subscription EXCEPT ![My(p)].peer =
                         IF subscription[My(p)].active THEN patch[p].response.peer ELSE NoPeer]
    /\ Goto(p, "post")
    /\ UNCHANGED <<gen, suite, staged, active, registered>>

\* Fault: the parameters of the PATCH are sent in the place of the resource.
SendFault(p) ==
    /\ patch[p].at = "post"
    /\ patch' = [patch EXCEPT ![p] = [at |-> "sent", of |-> My(p), response |-> patch[p].response,
                                      body |-> patch[p].response]]
    /\ UNCHANGED <<gen, suite, staged, active, subscription, registered>>

\* The resource is serialised and sent to the registry ...
Send(p) ==
    /\ patch[p].at = "post"
    /\ patch' = [patch EXCEPT ![p] = [at |-> "sent", of |-> My(p), response |-> patch[p].response,
                                      body |-> subscription[My(p)]]]
    /\ UNCHANGED <<gen, suite, staged, active, subscription, registered>>

GoOn(p) == patch' = [patch EXCEPT ![p] =
                      [at |-> "apply", of |-> My(p), response |-> patch[p].response]]

\* ... which stores it ...
Register(p) ==
    /\ patch[p].at = "sent"
    /\ registered' = patch[p].body
    /\ GoOn(p)
    /\ UNCHANGED <<gen, suite, staged, active, subscription>>

\* ... or does not: it is disabled or cannot be reached, which is ignored.
NotRegistered(p) ==
    /\ patch[p].at = "sent"
    /\ GoOn(p)
    /\ UNCHANGED <<gen, suite, staged, active, subscription, registered>>

Apply(p) ==
    /\ patch[p].at = "apply"
    /\ active' = [active EXCEPT ![My(p)] = patch[p].response]
    /\ Goto(p, "stage")
    /\ UNCHANGED <<gen, suite, staged, subscription, registered>>

Stage(p) ==
    /\ patch[p].at = "stage"
    /\ staged' = [staged EXCEPT ![My(p)] = patch[p].response]
    /\ Finish(p)
    /\ UNCHANGED <<gen, suite, active, subscription, registered>>

-----------------------------------------------------------------------------
(* The suite's thread, in IS0404Test.test_05.                               *)

Suite(from, to) == suite = from /\ suite' = to

\* Fault: the resource is only taken from the Node.
UnregisterFault ==
    /\ Suite("online", "unregistered")
    /\ UNCHANGED <<gen, staged, active, subscription, registered, patch>>

\* delete_sender of ControllerTest: DELETE at the registry ...
Unregister ==
    /\ Suite("online", "unregistered")
    /\ registered' = Absent
    /\ UNCHANGED <<gen, staged, active, subscription, patch>>

\* ... then delete_sender of the Node.
Remove ==
    /\ Suite("unregistered", "offline")
    /\ UNCHANGED <<gen, staged, active, subscription, registered, patch>>

\* _register_sender ...
Reregister ==
    /\ gen < MaxGen
    /\ Suite("offline", "reregistered")
    /\ registered' = Unsubscribed
    /\ UNCHANGED <<gen, staged, active, subscription, patch>>

\* ... and add_sender, with new parameters.
Add ==
    /\ Suite("reregistered", "online")
    /\ gen' = gen + 1
    /\ UNCHANGED <<staged, active, subscription, registered, patch>>

-----------------------------------------------------------------------------

Begin(p) ==
    \/ Refuse(p)
    \/ \E enable \in BOOLEAN \cup {Kept}, peer \in Peer \cup {NoPeer, Kept}, activation \in BOOLEAN :
            Read(p, enable, peer, activation)

Continue(p) ==
    \/ Activate(p)
    \/ Connect(p)
    \/ Send(p)
    \/ Register(p)
    \/ Apply(p)
    \/ Stage(p)

Offline ==
    \/ Unregister
    \/ Remove
    \/ Reregister
    \/ Add

Next ==
    \/ \E p \in Patch : Begin(p) \/ Continue(p) \/ NotRegistered(p)
    \/ Offline

Spec == Init /\ [][Next]_vars

Busy(p) == patch[p].at \notin {"idle", "done"}
NoneBusy == \A p \in Patch : ~Busy(p)

\* One PATCH at a time, none while the suite takes the resource offline or
\* online, and a registry that answers.
NextSerial ==
    \/ \E p \in Patch :
         \/ NoneBusy /\ suite \in {"online", "offline"} /\ Begin(p)
         \/ Continue(p)
    \/ NoneBusy /\ Offline

SpecSerial == Init /\ [][NextSerial]_vars

-----------------------------------------------------------------------------
(* What the Node and the registry promise together.                         *)

\* When nothing is under way the registry shows of the resource what the Node's
\* Connection API says is active.
RegistryAgrees ==
    suite = "online" /\ NoneBusy => registered = Of(active[gen])

\* A resource that the suite has put offline stays out of the registry.
OfflineStaysOffline == suite = "offline" => registered = Absent
=============================================================================
