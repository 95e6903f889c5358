------------------------- MODULE MockServices_proofs -------------------------
(***************************************************************************)
(* Theorems about the mock services, for any peers, requests, types, rates *)
(* and limits: the Connection API of the mock Node, the subscriptions of   *)
(* the mock registries, their grains and the pages of their answers.       *)
(***************************************************************************)
EXTENDS MockServices, FiniteSetTheorems, TLAPS

-----------------------------------------------------------------------------
(* The Connection API: with one PATCH at a time and a registry that         *)
(* answers, the mock registry and the mock Node tell the same story         *)
(* whenever nothing is under way, and what is offline is in neither.        *)

\* What is known of a PATCH at each of its stages: how far the connection it
\* asked for has come from the Node's resource to the registry and back.
Progress(p) ==
    /\ patch[p].at = "connect" => subscription[gen].active = patch[p].response.enable
    /\ patch[p].at = "post" => subscription[gen] = Of(patch[p].response)
    /\ patch[p].at = "sent" => patch[p].body = Of(patch[p].response)
    /\ patch[p].at = "apply" => registered = Of(patch[p].response)
    /\ patch[p].at = "stage" => registered = Of(active[gen])

\* A PATCH under way is the only one, and belongs to the resource that is online.
Alone ==
    \A p \in Patch : Busy(p) =>
        /\ suite = "online" /\ patch[p].of = gen
        /\ \A q \in Patch : Busy(q) => q = p

Settled ==
    /\ RegistryAgrees
    /\ OfflineStaysOffline
    /\ suite = "unregistered" => registered = Absent
    /\ suite = "reregistered" => registered = Unsubscribed /\ gen < MaxGen

\* Generations to come have the parameters that add_sender gives them.
Fresh == \A g \in Gen : g > gen => active[g] = Unconnected

\* The part of TypeOK that the induction needs.
ConnectionParts ==
    /\ gen \in Gen
    /\ staged \in [Gen -> Params] /\ active \in [Gen -> Params]
    /\ subscription \in [Gen -> Subscription]
    /\ DOMAIN patch = Patch
    /\ \A p \in Patch :
         /\ patch[p].at \in {"idle", "done", "sent"} \cup Stages
         /\ Busy(p) => patch[p].response \in Params /\ patch[p].of \in Gen

SerialInv ==
    /\ ConnectionParts
    /\ Alone
    /\ \A p \in Patch : Progress(p)
    /\ Settled
    /\ Fresh

LEMMA InitSerialInv == Init => SerialInv
<1> SUFFICES ASSUME Init PROVE SerialInv
  OBVIOUS
<1> USE NodeConnectionAssumption
<1>1. ConnectionParts
  BY DEF Init, ConnectionParts, Gen, Params, Subscription, Unconnected, Unsubscribed, Busy, Idle
<1>2. Alone
  BY DEF Init, Alone, Busy, Idle
<1>3. \A p \in Patch : Progress(p)
  BY DEF Init, Progress, Idle
<1>4. Settled
  BY DEF Init, Settled, RegistryAgrees, OfflineStaysOffline, Of, Unconnected, Unsubscribed, Gen
<1>5. Fresh
  BY DEF Init, Fresh
<1> QED
  BY <1>1, <1>2, <1>3, <1>4, <1>5 DEF SerialInv

-----------------------------------------------------------------------------

LEMMA BeginKeepsSerialInv ==
    ASSUME SerialInv, NEW p \in Patch, NoneBusy, suite \in {"online", "offline"}, Begin(p)
    PROVE  SerialInv'
<1> USE NodeConnectionAssumption DEF SerialInv
<1>1. CASE Refuse(p)
  <2>1. ConnectionParts'
    BY <1>1 DEF Refuse, Finish, ConnectionParts, Busy, Done
  <2>2. NoneBusy'
    BY <1>1 DEF Refuse, Finish, NoneBusy, Busy, Done, ConnectionParts
  <2>3. (\A q \in Patch : Progress(q))' /\ Alone'
    BY <1>1, <2>2 DEF NoneBusy, Busy, ConnectionParts, Alone, Progress, Refuse, Finish, Done, Stages
  <2>4. Settled' /\ Fresh'
    BY <1>1 DEF Refuse, Settled, Fresh, RegistryAgrees, OfflineStaysOffline
  <2> QED
    BY <2>1, <2>3, <2>4
<1>2. ASSUME NEW enable \in BOOLEAN \cup {Kept}, NEW peer \in Peer \cup {NoPeer, Kept},
             NEW activation \in BOOLEAN, Read(p, enable, peer, activation)
      PROVE  SerialInv'
  <2> DEFINE response == [enable |-> Given(enable, staged[gen].enable),
                          peer |-> Given(peer, staged[gen].peer)]
             at == IF activation THEN "activate" ELSE "stage"
  <2>1. suite = "online"
    BY <1>2 DEF Read, Has
  <2>2. registered = Of(active[gen])
    BY <2>1 DEF Settled, RegistryAgrees
  <2>3. response \in Params
    BY DEF ConnectionParts, Params, Given
  <2>4. patch' = [patch EXCEPT ![p] = [at |-> at, of |-> gen, response |-> response]]
    BY <1>2 DEF Read
  <2>5. /\ patch'[p].at = at /\ patch'[p].of = gen /\ patch'[p].response = response
        /\ \A q \in Patch \ {p} : patch'[q] = patch[q]
        /\ DOMAIN patch' = Patch
    BY <2>4 DEF ConnectionParts
  <2> HIDE DEF response, at
  <2>6. at \in {"activate", "stage"}
    BY DEF at
  <2>7. UNCHANGED <<gen, suite, staged, active, subscription, registered>>
    BY <1>2 DEF Read
  <2>8. ConnectionParts'
    BY <2>3, <2>5, <2>6, <2>7 DEF ConnectionParts, Busy, Stages
  <2>9. Busy(p)'
    BY <2>5, <2>6 DEF Busy
  <2>10. Alone'
    BY <2>1, <2>5, <2>7 DEF Alone, NoneBusy, Busy
  <2>11. (\A q \in Patch : Progress(q))'
    BY <2>2, <2>5, <2>6, <2>7 DEF Progress
  <2>12. Settled'
    BY <2>1, <2>7, <2>9 DEF Settled, RegistryAgrees, NoneBusy, OfflineStaysOffline
  <2>13. Fresh'
    BY <2>7 DEF Fresh
  <2> QED
    BY <2>8, <2>10, <2>11, <2>12, <2>13
<1> QED
  BY <1>1, <1>2 DEF Begin

\* A PATCH under way keeps to itself: the others stay idle or done.
LEMMA ContinueKeepsSerialInv ==
    ASSUME SerialInv, NEW p \in Patch, Continue(p)
    PROVE  SerialInv'
<1> USE NodeConnectionAssumption DEF SerialInv
<1>1. Busy(p) /\ suite = "online" /\ patch[p].of = gen /\ patch[p].response \in Params
  <2>1. Busy(p)
    BY DEF Continue, Activate, Connect, Send, Register, Apply, Stage, Busy
  <2> QED
    BY <2>1 DEF Alone, ConnectionParts
<1>2. \A q \in Patch \ {p} : ~Busy(q) /\ patch[q].at \in {"idle", "done"}
  BY <1>1 DEF Alone, Busy
<1>3. UNCHANGED <<gen, suite>>
  BY DEF Continue, Activate, Connect, Send, Register, Apply, Stage
<1>4. /\ DOMAIN patch' = Patch
      /\ \A q \in Patch \ {p} : patch'[q] = patch[q]
  BY DEF Continue, Activate, Connect, Send, Register, Apply, Stage, Goto, GoOn, Finish, ConnectionParts
<1>5. ASSUME Busy(p)', patch'[p].of = gen, patch'[p].response = patch[p].response,
             patch'[p].at \in {"sent"} \cup Stages,
             staged' \in [Gen -> Params], active' \in [Gen -> Params],
             subscription' \in [Gen -> Subscription],
             Progress(p)', UNCHANGED active \/ Fresh'
      PROVE  SerialInv'
  <2>1. ConnectionParts'
    BY <1>1, <1>2, <1>3, <1>4, <1>5 DEF ConnectionParts, Busy
  <2>2. Alone'
    BY <1>1, <1>2, <1>3, <1>4, <1>5 DEF Alone, Busy
  <2>3. (\A q \in Patch : Progress(q))'
    BY <1>2, <1>4, <1>5 DEF Progress
  <2>4. Settled'
    BY <1>1, <1>3, <1>5 DEF Settled, RegistryAgrees, NoneBusy, OfflineStaysOffline
  <2>5. Fresh'
    BY <1>3, <1>5 DEF Fresh
  <2> QED
    BY <2>1, <2>2, <2>3, <2>4, <2>5
<1>6. CASE Activate(p)
  <2>1. /\ patch'[p].at = "connect" /\ patch'[p].of = gen
        /\ patch'[p].response = patch[p].response
    BY <1>1, <1>6 DEF Activate, Goto, ConnectionParts
  <2>2. subscription' \in [Gen -> Subscription]
    BY <1>1, <1>6 DEF Activate, My, ConnectionParts, Subscription, Params
  <2>3. Progress(p)'
    BY <1>1, <1>3, <1>6, <2>1 DEF Activate, My, Progress, ConnectionParts, Subscription
  <2> QED
    BY <1>5, <1>6, <2>1, <2>2, <2>3 DEF Activate, ConnectionParts, Busy, Stages
<1>7. CASE Connect(p)
  <2>1. /\ patch'[p].at = "post" /\ patch'[p].of = gen
        /\ patch'[p].response = patch[p].response
    BY <1>1, <1>7 DEF Connect, Goto, ConnectionParts
  <2>2. subscription' \in [Gen -> Subscription]
    BY <1>1, <1>7 DEF Connect, My, ConnectionParts, Subscription, Params
  <2>3. subscription[gen] \in Subscription /\ subscription[gen].active = patch[p].response.enable
    BY <1>1, <1>7 DEF Connect, Progress, ConnectionParts
  <2>4. subscription'[gen] = Of(patch[p].response)
    BY <1>1, <1>7, <2>3 DEF Connect, My, ConnectionParts, Subscription, Params, Of
  <2>5. Progress(p)'
    BY <1>3, <2>1, <2>4 DEF Progress, Of
  <2> QED
    BY <1>5, <1>7, <2>1, <2>2, <2>5 DEF Connect, ConnectionParts, Busy, Stages
<1>8. CASE Send(p)
  <2>1. /\ patch'[p].at = "sent" /\ patch'[p].of = gen
        /\ patch'[p].response = patch[p].response
        /\ patch'[p].body = subscription[gen]
    BY <1>1, <1>8 DEF Send, My, ConnectionParts
  <2>2. Progress(p)'
    BY <1>3, <1>8, <2>1 DEF Send, Progress, Of
  <2> QED
    BY <1>5, <1>8, <2>1, <2>2 DEF Send, ConnectionParts, Busy, Stages
<1>9. CASE Register(p)
  <2>1. /\ patch'[p].at = "apply" /\ patch'[p].of = gen
        /\ patch'[p].response = patch[p].response
    BY <1>1, <1>9 DEF Register, GoOn, My, ConnectionParts
  <2>2. Progress(p)'
    BY <1>3, <1>9, <2>1 DEF Register, Progress, Of
  <2> QED
    BY <1>5, <1>9, <2>1, <2>2 DEF Register, ConnectionParts, Busy, Stages
<1>10. CASE Apply(p)
  <2>1. /\ patch'[p].at = "stage" /\ patch'[p].of = gen
        /\ patch'[p].response = patch[p].response
    BY <1>1, <1>10 DEF Apply, Goto, ConnectionParts
  <2>2. /\ active' \in [Gen -> Params] /\ active'[gen] = patch[p].response
        /\ \A g \in Gen \ {gen} : active'[g] = active[g]
    BY <1>1, <1>10 DEF Apply, My, ConnectionParts
  <2>3. Progress(p)'
    BY <1>3, <1>10, <2>1, <2>2 DEF Apply, Progress, Of
  <2>4. Fresh'
    BY <1>3, <2>2 DEF Fresh, ConnectionParts, Gen
  <2> QED
    BY <1>5, <1>10, <2>1, <2>2, <2>3, <2>4 DEF Apply, ConnectionParts, Busy, Stages
<1>11. CASE Stage(p)
  <2>1. patch'[p] = Done
    BY <1>11 DEF Stage, Finish, ConnectionParts
  <2>2. staged' \in [Gen -> Params]
    BY <1>1, <1>11 DEF Stage, My, ConnectionParts
  <2>3. UNCHANGED <<active, subscription, registered>>
    BY <1>11 DEF Stage
  <2>4. patch'[p].at = "done"
    BY <2>1 DEF Done
  <2>5. ConnectionParts'
    BY <1>2, <1>3, <1>4, <2>2, <2>3, <2>4 DEF ConnectionParts, Busy
  <2>6. Alone' /\ (\A q \in Patch : Progress(q))'
    BY <1>2, <1>4, <2>4 DEF Alone, Busy, Progress
  <2>7. registered = Of(active[gen])
    BY <1>11 DEF Stage, Progress
  <2>8. Settled' /\ Fresh'
    BY <1>1, <1>3, <2>3, <2>7 DEF Settled, RegistryAgrees, OfflineStaysOffline, Fresh, Of
  <2> QED
    BY <2>5, <2>6, <2>8
<1> QED
  BY <1>6, <1>7, <1>8, <1>9, <1>10, <1>11 DEF Continue

LEMMA OfflineKeepsSerialInv ==
    ASSUME SerialInv, NoneBusy, Offline
    PROVE  SerialInv'
<1> USE NodeConnectionAssumption DEF SerialInv
<1>1. UNCHANGED <<staged, active, subscription, patch>> /\ gen' \in Gen /\ gen <= gen'
  BY DEF Offline, Unregister, Remove, Reregister, Add, Suite, Settled, ConnectionParts, Gen
<1>2. ConnectionParts'
  BY <1>1 DEF ConnectionParts, Busy
<1>3. \A p \in Patch : patch'[p].at \in {"idle", "done"}
  BY <1>1 DEF NoneBusy, Busy
<1>4. Alone' /\ (\A p \in Patch : Progress(p))'
  BY <1>3 DEF Alone, Busy, Progress
<1>5. Fresh'
  BY <1>1 DEF Fresh, ConnectionParts, Gen
<1>6. Settled'
  <2>1. CASE Unregister \/ Remove
    BY <2>1 DEF Unregister, Remove, Suite, Settled, RegistryAgrees, OfflineStaysOffline
  <2>2. CASE Reregister
    BY <2>2 DEF Reregister, Suite, Settled, RegistryAgrees, OfflineStaysOffline
  <2>3. CASE Add
    <3>1. suite' = "online" /\ registered' = Unsubscribed /\ gen' \in Gen /\ gen' > gen
      BY <2>3, <1>1 DEF Add, Suite, Settled, ConnectionParts, Gen
    <3>2. active'[gen'] = Unconnected
      BY <1>1, <3>1 DEF Fresh
    <3>3. Of(Unconnected) = Unsubscribed
      BY DEF Of, Unconnected, Unsubscribed
    <3> QED
      BY <3>1, <3>2, <3>3 DEF Settled, RegistryAgrees, OfflineStaysOffline
  <2> QED
    BY <2>1, <2>2, <2>3 DEF Offline
<1> QED
  BY <1>2, <1>4, <1>5, <1>6

LEMMA StepKeepsSerialInv == SerialInv /\ [NextSerial]_vars => SerialInv'
<1> SUFFICES ASSUME SerialInv, [NextSerial]_vars PROVE SerialInv'
  OBVIOUS
<1>1. CASE UNCHANGED vars
  BY <1>1 DEF vars, SerialInv, ConnectionParts, Alone, Progress, Settled, Fresh, Busy, NoneBusy,
              RegistryAgrees, OfflineStaysOffline, Of
<1>2. CASE NextSerial
  BY <1>2, BeginKeepsSerialInv, ContinueKeepsSerialInv, OfflineKeepsSerialInv DEF NextSerial
<1> QED
  BY <1>1, <1>2

\* Between PATCHes the mock registry shows the connection that the Connection
\* API calls active, and shows nothing of a resource that is offline.
THEOREM NodeAndRegistryAgree ==
    SpecSerial => [](RegistryAgrees /\ OfflineStaysOffline)
<1>1. SerialInv => RegistryAgrees /\ OfflineStaysOffline
  BY DEF SerialInv, Settled
<1> QED
  BY InitSerialInv, StepKeepsSerialInv, <1>1, PTL DEF SpecSerial

\* A Sender or Receiver that the suite has taken offline is not registered by a
\* PATCH of its own: only the suite brings it back.
THEOREM OfflineResourcesStayOffline == SpecSerial => []OfflineStaysOffline
  BY NodeAndRegistryAgree, PTL

\* Everything that is stored of the resource, and every PATCH on its way, is well
\* formed; a generation begins only while there are more to come.
LEMMA StepKeepsConnectionTypes == TypeOK /\ SerialInv /\ [NextSerial]_vars => TypeOK'
<1> SUFFICES ASSUME TypeOK, SerialInv, [NextSerial]_vars PROVE TypeOK'
  OBVIOUS
<1> DEFINE Under == [at : Stages, of : Gen, response : Params]
           Sent == [at : {"sent"}, of : Gen, response : Params, body : Subscription]
<1>1. \A p \in Patch : patch[p] \in {Idle, Done} \cup Under \cup Sent
  BY DEF TypeOK
<1>2. ASSUME NEW p \in Patch, patch[p].at \in Stages
      PROVE  patch[p] \in Under
  BY <1>1, <1>2 DEF Idle, Done, Stages
<1>3. ASSUME NEW p \in Patch, patch[p].at \in Stages, NEW at \in Stages, Goto(p, at)
      PROVE  patch' \in [Patch -> {Idle, Done} \cup Under \cup Sent]
  <2>1. [patch[p] EXCEPT !.at = at] \in Under
    BY <1>2, <1>3
  <2>2. patch' = [patch EXCEPT ![p] = [patch[p] EXCEPT !.at = at]]
    BY <1>3 DEF Goto
  <2> QED
    BY <2>1, <2>2 DEF TypeOK
<1>4. ASSUME NEW p \in Patch, Finish(p)
      PROVE  patch' \in [Patch -> {Idle, Done} \cup Under \cup Sent]
  BY <1>4 DEF TypeOK, Finish
<1>5. ASSUME NEW p \in Patch, NEW to \in Under \cup Sent, patch' = [patch EXCEPT ![p] = to]
      PROVE  patch' \in [Patch -> {Idle, Done} \cup Under \cup Sent]
  BY <1>5 DEF TypeOK
<1>6. CASE UNCHANGED vars
  BY <1>6 DEF vars, TypeOK
<1>7. ASSUME NEW p \in Patch, Begin(p) PROVE TypeOK'
  <2>1. CASE Refuse(p)
    BY <2>1, <1>4 DEF Refuse, TypeOK
  <2>2. ASSUME NEW enable \in BOOLEAN \cup {Kept}, NEW peer \in Peer \cup {NoPeer, Kept},
               NEW activation \in BOOLEAN, Read(p, enable, peer, activation)
        PROVE  TypeOK'
    <3> DEFINE to == [at |-> IF activation THEN "activate" ELSE "stage", of |-> gen,
                      response |-> [enable |-> Given(enable, staged[gen].enable),
                                    peer |-> Given(peer, staged[gen].peer)]]
    <3>1. staged[gen] \in Params /\ gen \in Gen
      BY DEF TypeOK
    <3>2. /\ Given(enable, staged[gen].enable) \in BOOLEAN
          /\ Given(peer, staged[gen].peer) \in Peer \cup {NoPeer}
      BY <3>1 DEF Given, Params
    <3>3. to \in Under
      BY <3>1, <3>2 DEF Stages, Params
    <3>4. patch' \in [Patch -> {Idle, Done} \cup Under \cup Sent]
      <4>1. patch' = [patch EXCEPT ![p] = to]
        BY <2>2 DEF Read
      <4> HIDE DEF to
      <4> QED
        BY <4>1, <3>3, <1>5
    <3> QED
      BY <2>2, <3>4 DEF Read, TypeOK
  <2> QED
    BY <1>7, <2>1, <2>2 DEF Begin
<1>8. ASSUME NEW p \in Patch, Continue(p) PROVE TypeOK'
  <2>1. CASE Activate(p)
    <3>1. patch[p] \in Under
      BY <2>1, <1>2 DEF Activate, Stages
    <3>2. patch' \in [Patch -> {Idle, Done} \cup Under \cup Sent]
      BY <2>1, <1>3 DEF Activate, Stages
    <3>3. subscription' \in [Gen -> Subscription]
      BY <2>1, <3>1 DEF Activate, TypeOK, My, Subscription, Params
    <3> QED
      BY <2>1, <3>2, <3>3 DEF Activate, TypeOK
  <2>2. CASE Connect(p)
    <3>1. patch[p] \in Under
      BY <2>2, <1>2 DEF Connect, Stages
    <3>2. patch' \in [Patch -> {Idle, Done} \cup Under \cup Sent]
      BY <2>2, <1>3 DEF Connect, Stages
    <3>3. subscription' \in [Gen -> Subscription]
      BY <2>2, <3>1 DEF Connect, TypeOK, My, Subscription, Params
    <3> QED
      BY <2>2, <3>2, <3>3 DEF Connect, TypeOK
  <2>3. CASE Send(p)
    <3> DEFINE to == [at |-> "sent", of |-> My(p), response |-> patch[p].response,
                      body |-> subscription[My(p)]]
    <3>1. patch[p] \in Under
      BY <2>3, <1>2 DEF Send, Stages
    <3>2. to \in Sent /\ patch' = [patch EXCEPT ![p] = to]
      BY <2>3, <3>1 DEF Send, My, TypeOK
    <3>3. patch' \in [Patch -> {Idle, Done} \cup Under \cup Sent]
      <4> HIDE DEF to
      <4> QED
        BY <3>2, <1>5
    <3> QED
      BY <2>3, <3>3 DEF Send, TypeOK
  <2>4. CASE Register(p)
    <3> DEFINE to == [at |-> "apply", of |-> My(p), response |-> patch[p].response]
    <3>1. patch[p] \in Sent
      BY <2>4, <1>1 DEF Register, Idle, Done, Stages
    <3>2. to \in Under /\ patch' = [patch EXCEPT ![p] = to] /\ registered' \in Subscription
      BY <2>4, <3>1 DEF Register, GoOn, My, Stages
    <3>3. patch' \in [Patch -> {Idle, Done} \cup Under \cup Sent]
      <4> HIDE DEF to
      <4> QED
        BY <3>2, <1>5
    <3> QED
      BY <2>4, <3>2, <3>3 DEF Register, TypeOK
  <2>5. CASE Apply(p)
    <3>1. patch[p] \in Under
      BY <2>5, <1>2 DEF Apply, Stages
    <3>2. patch' \in [Patch -> {Idle, Done} \cup Under \cup Sent]
      BY <2>5, <1>3 DEF Apply, Stages
    <3>3. active' \in [Gen -> Params]
      BY <2>5, <3>1 DEF Apply, TypeOK, My
    <3> QED
      BY <2>5, <3>2, <3>3 DEF Apply, TypeOK
  <2>6. CASE Stage(p)
    <3>1. patch[p] \in Under
      BY <2>6, <1>2 DEF Stage, Stages
    <3>2. staged' \in [Gen -> Params]
      BY <2>6, <3>1 DEF Stage, TypeOK, My
    <3> QED
      BY <2>6, <1>4, <3>2 DEF Stage, TypeOK
  <2> QED
    BY <1>8, <2>1, <2>2, <2>3, <2>4, <2>5, <2>6 DEF Continue
<1>9. ASSUME Offline PROVE TypeOK'
  <2>1. /\ UNCHANGED <<staged, active, subscription, patch>>
        /\ suite' \in {"online", "unregistered", "offline", "reregistered"}
        /\ registered' \in Subscription \cup {Absent}
    BY <1>9, NodeConnectionAssumption DEF TypeOK, Offline, Unregister, Remove, Reregister, Add,
       Suite, Unsubscribed, Subscription
  <2>2. gen' \in Gen
    BY <1>9, NodeConnectionAssumption DEF TypeOK, Gen, SerialInv, Settled, Offline, Unregister,
       Remove, Reregister, Add, Suite
  <2> QED
    BY <2>1, <2>2 DEF TypeOK
<1> QED
  BY <1>6, <1>7, <1>8, <1>9 DEF NextSerial

LEMMA InitConnectionTypes == Init => TypeOK
BY NodeConnectionAssumption DEF Init, TypeOK, Gen, Params, Subscription, Unconnected, Unsubscribed

-----------------------------------------------------------------------------
(* The subscriptions: in controller suites that end with their tear down,   *)
(* the shared table and each registry's websockets stay in step, although   *)
(* they are created together and cleared apart.                             *)

\* The types that the theorems need.
TableParts ==
    /\ enabled \subseteq Registry /\ populating \subseteq enabled
    /\ table \in Seq(Entry)
    /\ sockets \in [Registry -> SUBSET Socket]
    /\ created \in 0..MaxId

\* One registry serves at a time, and only it has websockets, from the moment
\* it has been populated.
OneServes ==
    /\ \A g, h \in enabled : g = h
    /\ populating # {} => table = <<>>
    /\ \A g \in Registry : g \notin enabled \/ populating # {} => sockets[g] = {}

\* The table and the websockets of the registry that serves name the same
\* subscriptions, each of one type.
InStep ==
    \A g \in enabled :
        /\ \A k \in 1..Len(table) : table[k].id \in Ids(g)
        /\ \A s \in sockets[g] : \E k \in 1..Len(table) :
               table[k].id = s.id /\ table[k].type = s.type

\* Websockets are numbered by their count, which no disable leaves a gap in.
PortsCounted ==
    \A g \in Registry :
        /\ IsFiniteSet(sockets[g]) /\ Cardinality(sockets[g]) <= created
        /\ \A s \in sockets[g] : s.port < Cardinality(sockets[g])

ControllerInv ==
    /\ TableParts /\ OneServes /\ InStep /\ PortsCounted
    /\ RepliesAreServed /\ NoChangeIsMissed /\ PortsAreFree

-----------------------------------------------------------------------------

LEMMA InitControllerInv == SubscriptionsInit => ControllerInv
<1> SUFFICES ASSUME SubscriptionsInit PROVE ControllerInv
  OBVIOUS
<1> USE DEF SubscriptionsInit
<1>1. TableParts
  <2>1. 0 \in 0..MaxId
    BY QuerySubscriptionsAssumption
  <2>2. <<>> \in Seq(Entry)
    OBVIOUS
  <2> QED
    BY <2>1, <2>2 DEF TableParts
<1>2. OneServes /\ InStep
  BY DEF OneServes, InStep
<1>3. PortsCounted
  BY QuerySubscriptionsAssumption, FS_EmptySet DEF PortsCounted
<1>4. RepliesAreServed /\ NoChangeIsMissed /\ PortsAreFree
  BY DEF RepliesAreServed, NoChangeIsMissed, PortsAreFree, NoReply
<1> QED
  BY <1>1, <1>2, <1>3, <1>4 DEF ControllerInv

\* Set up and populating find no websocket of an enabled registry: the table
\* can be cleared.
LEMMA ResetKeepsControllerInv ==
    ASSUME ControllerInv, NEW g \in Registry, (enabled = {} /\ SetUp(g)) \/ Populate(g)
    PROVE  ControllerInv'
<1>1. /\ table' = <<>> /\ UNCHANGED <<sockets, created, missed>> /\ reply' = NoReply
      /\ enabled' \subseteq Registry /\ populating' \subseteq enabled'
      /\ \A h, i \in enabled' : h = i
  BY DEF ControllerInv, TableParts, OneServes, SetUp, Populate, Reset
<1>2. \A h \in Registry : sockets'[h] = {}
  BY <1>1 DEF ControllerInv, OneServes, SetUp, Populate
<1>3. TableParts'
  <2>1. <<>> \in Seq(Entry)
    OBVIOUS
  <2> QED
    BY <1>1, <2>1 DEF ControllerInv, TableParts
<1>4. OneServes'
  BY <1>1, <1>2 DEF OneServes
<1>5. InStep'
  BY <1>1, <1>2 DEF InStep
<1>6. PortsCounted'
  BY <1>1 DEF ControllerInv, PortsCounted
<1>7. RepliesAreServed' /\ NoChangeIsMissed' /\ PortsAreFree'
  BY <1>1 DEF ControllerInv, RepliesAreServed, NoChangeIsMissed, PortsAreFree, NoReply
<1> QED
  BY <1>3, <1>4, <1>5, <1>6, <1>7 DEF ControllerInv

LEMMA DisableKeepsControllerInv ==
    ASSUME ControllerInv, NEW g \in Registry, Disable(g)
    PROVE  ControllerInv'
<1>1. /\ enabled' = {} /\ populating = {} /\ UNCHANGED <<populating, table, created>>
      /\ reply' = NoReply /\ missed' = {}
  BY DEF ControllerInv, TableParts, OneServes, Disable, NoChangeIsMissed
<1>2. \A h \in Registry : sockets'[h] = {}
  BY DEF ControllerInv, TableParts, OneServes, Disable
<1>3. TableParts'
  BY <1>1 DEF ControllerInv, TableParts, Disable
<1>4. OneServes' /\ InStep'
  BY <1>1, <1>2 DEF OneServes, InStep
<1>5. PortsCounted'
  <2>1. IsFiniteSet({}) /\ Cardinality({}) = 0 /\ 0 <= created
    BY FS_EmptySet DEF ControllerInv, TableParts
  <2> QED
    BY <1>1, <1>2, <2>1 DEF PortsCounted
<1>6. RepliesAreServed' /\ NoChangeIsMissed' /\ PortsAreFree'
  BY <1>1 DEF RepliesAreServed, NoChangeIsMissed, PortsAreFree, NoReply
<1> QED
  BY <1>3, <1>4, <1>5, <1>6 DEF ControllerInv

\* A subscription that is there is served already.
LEMMA ReuseKeepsControllerInv ==
    ASSUME ControllerInv, NEW g \in Registry, NEW type \in Type, NEW rate \in Rate,
           Reuse(g, type, rate, TRUE)
    PROVE  ControllerInv'
<1>1. /\ UNCHANGED <<enabled, populating, table, sockets, created, missed>>
      /\ g \in enabled
  BY DEF Reuse
<1>2. PICK k \in 1..Len(table) : reply' = [status |-> "ok", id |-> table[k].id]
  BY DEF Reuse, Alike
<1>3. TableParts' /\ OneServes' /\ InStep' /\ PortsCounted' /\ NoChangeIsMissed'
  BY <1>1 DEF ControllerInv, TableParts, OneServes, InStep, Ids, PortsCounted, NoChangeIsMissed
<1>4. table[k].id \in Ids(g) /\ Ids(g)' = Ids(g)
  BY <1>1 DEF ControllerInv, InStep, Ids
<1>5. RepliesAreServed' /\ PortsAreFree'
  BY <1>2, <1>4 DEF RepliesAreServed, PortsAreFree
<1> QED
  BY <1>3, <1>5 DEF ControllerInv

\* The next port is free, since all ports in use are the registry's own, and the
\* new subscription goes into table and websockets at once.
LEMMA CreateKeepsControllerInv ==
    ASSUME ControllerInv, NEW g \in Registry, NEW type \in Type, NEW rate \in Rate,
           populating = {}, Create(g, type, rate)
    PROVE  ControllerInv'
<1>1. /\ g \in enabled /\ \A h \in enabled : h = g
      /\ \A h \in Registry : h # g => sockets[h] = {}
      /\ IsFiniteSet(sockets[g]) /\ Cardinality(sockets[g]) \in Nat
  BY FS_CardinalityType DEF ControllerInv, OneServes, TableParts, PortsCounted, Create
<1>2. NextPort(g) \notin PortsInUse
  <2>1. \A s \in UNION {sockets[h] : h \in Registry} : s \in sockets[g] /\ s.port \in Port
    BY <1>1 DEF ControllerInv, TableParts, Socket
  <2> QED
    BY <1>1, <2>1 DEF ControllerInv, PortsCounted, PortsInUse, NextPort, Port
<1> DEFINE new == [id |-> created + 1, type |-> type, port |-> NextPort(g)]
           entry == [id |-> created + 1, type |-> type, rate |-> rate]
<1>3. /\ created' = created + 1 /\ created < MaxId
      /\ table' = Append(table, entry)
      /\ sockets' = [sockets EXCEPT ![g] = @ \cup {new}]
      /\ reply' = [status |-> "ok", id |-> created + 1]
      /\ UNCHANGED <<enabled, populating, missed>>
  BY <1>2 DEF Create
<1> HIDE DEF new, entry
<1>4. new.id = created + 1 /\ new.type = type /\ new.port = NextPort(g) /\ new \in Socket
  <2>1. created + 1 \in 1..MaxId /\ NextPort(g) \in 0..MaxId
    BY <1>1, <1>3, QuerySubscriptionsAssumption DEF ControllerInv, TableParts, PortsCounted, NextPort
  <2> QED
    BY <2>1 DEF new, Socket, Port
<1>5. entry.id = created + 1 /\ entry.type = type /\ entry \in Entry
  <2>1. created + 1 \in 1..MaxId
    BY <1>3, QuerySubscriptionsAssumption DEF ControllerInv, TableParts
  <2> QED
    BY <2>1 DEF entry, Entry
<1>6. /\ table' \in Seq(Entry) /\ Len(table') = Len(table) + 1 /\ Len(table) \in Nat
      /\ \A k \in 1..Len(table) : table'[k] = table[k]
      /\ table'[Len(table) + 1] = entry
  BY <1>3, <1>5 DEF ControllerInv, TableParts
<1>7. /\ sockets' \in [Registry -> SUBSET Socket]
      /\ sockets'[g] = sockets[g] \cup {new}
      /\ \A h \in Registry : h # g => sockets'[h] = sockets[h]
  BY <1>3, <1>4 DEF ControllerInv, TableParts
<1>8. TableParts'
  BY <1>3, <1>6, <1>7, QuerySubscriptionsAssumption DEF ControllerInv, TableParts
<1>9. OneServes'
  BY <1>1, <1>3, <1>7 DEF ControllerInv, OneServes
<1>10. InStep'
  <2>1. ASSUME NEW k \in 1..Len(table') PROVE table'[k].id \in Ids(g)'
    <3>1. CASE k = Len(table) + 1
      BY <1>4, <1>5, <1>6, <1>7, <3>1 DEF Ids
    <3>2. CASE k # Len(table) + 1
      <4>1. k \in 1..Len(table) /\ table'[k] = table[k]
        BY <1>6, <3>2
      <4>2. table[k].id \in Ids(g)
        BY <1>1, <4>1 DEF ControllerInv, InStep
      <4> QED
        BY <1>7, <4>1, <4>2 DEF Ids
    <3> QED
      BY <3>1, <3>2
  <2>2. ASSUME NEW s \in sockets'[g]
        PROVE  \E k \in 1..Len(table') : table'[k].id = s.id /\ table'[k].type = s.type
    <3>1. CASE s = new
      <4>1. Len(table) + 1 \in 1..Len(table')
        BY <1>6
      <4> QED
        BY <1>4, <1>5, <1>6, <3>1, <4>1
    <3>2. CASE s \in sockets[g]
      <4>1. PICK k \in 1..Len(table) : table[k].id = s.id /\ table[k].type = s.type
        BY <1>1, <3>2 DEF ControllerInv, InStep
      <4> QED
        BY <1>6, <4>1
    <3> QED
      BY <1>7, <3>1, <3>2
  <2> QED
    BY <1>1, <1>3, <2>1, <2>2 DEF InStep
<1>11. PortsCounted'
  <2>1. new \notin sockets[g]
    BY <1>1, <1>4 DEF ControllerInv, PortsCounted, NextPort
  <2>2. IsFiniteSet(sockets'[g]) /\ Cardinality(sockets'[g]) = Cardinality(sockets[g]) + 1
    <3>1. /\ IsFiniteSet(sockets[g] \cup {new})
          /\ Cardinality(sockets[g] \cup {new}) = Cardinality(sockets[g]) + 1
      BY <1>1, <2>1, FS_AddElement
    <3> QED
      BY <1>7, <3>1
  <2>3. \A s \in sockets'[g] : s.port < Cardinality(sockets'[g])
    <3>1. \A s \in sockets[g] : s.port \in Nat /\ s.port < Cardinality(sockets[g])
      BY QuerySubscriptionsAssumption DEF ControllerInv, PortsCounted, TableParts, Socket, Port
    <3> QED
      BY <1>1, <1>4, <1>7, <2>2, <3>1 DEF NextPort
  <2>4. Cardinality(sockets'[g]) <= created'
    BY <1>1, <1>3, <2>2 DEF ControllerInv, TableParts, PortsCounted
  <2>5. ASSUME NEW h \in Registry, h # g
        PROVE  /\ IsFiniteSet(sockets'[h]) /\ Cardinality(sockets'[h]) <= created'
               /\ sockets'[h] = {}
    <3>1. sockets'[h] = {}
      BY <1>1, <1>7, <2>5
    <3>2. IsFiniteSet({}) /\ Cardinality({}) = 0 /\ 0 <= created'
      BY <1>3, FS_EmptySet DEF ControllerInv, TableParts
    <3> QED
      BY <3>1, <3>2
  <2> QED
    BY <2>2, <2>3, <2>4, <2>5 DEF PortsCounted
<1>12. RepliesAreServed' /\ PortsAreFree'
  <2>1. created + 1 \in Ids(g)'
    BY <1>4, <1>7 DEF Ids
  <2> QED
    BY <1>3, <2>1 DEF RepliesAreServed, PortsAreFree
<1>13. NoChangeIsMissed'
  BY <1>3 DEF ControllerInv, NoChangeIsMissed
<1> QED
  BY <1>8, <1>9, <1>10, <1>11, <1>12, <1>13 DEF ControllerInv

\* No subscription of the type lacks a websocket, so that the loop over them
\* reaches every websocket of the type.
LEMMA ChangeKeepsControllerInv ==
    ASSUME ControllerInv, NEW g \in Registry, NEW type \in Type, Change(g, type)
    PROVE  ControllerInv'
<1>1. /\ g \in enabled /\ reply' = NoReply
      /\ UNCHANGED <<enabled, populating, table, sockets, created>>
  BY DEF Change
<1>2. \A k \in 1..Len(table) : table[k].id \in Ids(g)
  BY <1>1 DEF ControllerInv, InStep
<1>3. ASSUME NEW s \in sockets[g], s.type = type
      PROVE  s.id \in Served(g, type)
  <2>1. PICK k \in 1..Len(table) : table[k].id = s.id /\ table[k].type = s.type
    BY <1>1 DEF ControllerInv, InStep
  <2> QED
    BY <1>2, <1>3, <2>1 DEF Served, OfType
<1>4. missed' = {}
  BY <1>3 DEF ControllerInv, NoChangeIsMissed, Change
<1>5. TableParts' /\ OneServes' /\ InStep' /\ PortsCounted'
  BY <1>1 DEF ControllerInv, TableParts, OneServes, InStep, Ids, PortsCounted
<1>6. RepliesAreServed' /\ NoChangeIsMissed' /\ PortsAreFree'
  BY <1>1, <1>4 DEF RepliesAreServed, NoChangeIsMissed, PortsAreFree, NoReply
<1> QED
  BY <1>5, <1>6 DEF ControllerInv

-----------------------------------------------------------------------------

LEMMA StepKeepsControllerInv ==
    ControllerInv /\ [NextController]_subscriptionVars => ControllerInv'
<1> SUFFICES ASSUME ControllerInv, [NextController]_subscriptionVars PROVE ControllerInv'
  OBVIOUS
<1>1. CASE UNCHANGED subscriptionVars
  <2>1. TableParts' /\ OneServes' /\ InStep'
    BY <1>1 DEF subscriptionVars, ControllerInv, TableParts, OneServes, InStep, Ids
  <2>2. PortsCounted'
    BY <1>1 DEF subscriptionVars, ControllerInv, PortsCounted
  <2>3. RepliesAreServed' /\ NoChangeIsMissed' /\ PortsAreFree'
    BY <1>1 DEF subscriptionVars, ControllerInv, RepliesAreServed, NoChangeIsMissed,
                PortsAreFree, Ids
  <2> QED
    BY <2>1, <2>2, <2>3 DEF ControllerInv
<1>2. CASE NextController
  BY <1>2, ResetKeepsControllerInv, DisableKeepsControllerInv, CreateKeepsControllerInv,
     ReuseKeepsControllerInv, ChangeKeepsControllerInv DEF NextController
<1> QED
  BY <1>1, <1>2

\* Table and websockets stay in step, over any number of controller suites.
THEOREM SubscriptionsStayInStep == SpecController => []ControllerInv
BY InitControllerInv, StepKeepsControllerInv, PTL DEF SpecController

\* A controller that is answered with a subscription finds its websocket open.
THEOREM ControllersAreServed == SpecController => []RepliesAreServed
<1>1. ControllerInv => RepliesAreServed
  BY DEF ControllerInv
<1> QED
  BY <1>1, SubscriptionsStayInStep, PTL

\* Each change reaches every websocket of its type: none is silenced by one of
\* another registry or of an earlier suite that is still in the table.
THEOREM ControllersMissNothing == SpecController => []NoChangeIsMissed
<1>1. ControllerInv => NoChangeIsMissed
  BY DEF ControllerInv
<1> QED
  BY <1>1, SubscriptionsStayInStep, PTL

\* The count of the websockets is a free port, as long as none is deleted.
THEOREM CountedPortsAreFree == SpecController => []PortsAreFree
<1>1. ControllerInv => PortsAreFree
  BY DEF ControllerInv
<1> QED
  BY <1>1, SubscriptionsStayInStep, PTL

\* All of the state is well formed; no DELETE of a subscription is under way.
LEMMA StepKeepsSubscriptionTypes ==
    SubscriptionsTypeOK /\ ControllerInv /\ [NextController]_subscriptionVars => SubscriptionsTypeOK'
<1> SUFFICES ASSUME SubscriptionsTypeOK, ControllerInv, [NextController]_subscriptionVars
             PROVE  SubscriptionsTypeOK'
  OBVIOUS
<1>1. TableParts' /\ missed' = {}
  BY StepKeepsControllerInv DEF ControllerInv, NoChangeIsMissed
<1> DEFINE Replies == {NoReply, Failed("port in use"), Failed("KeyError")}
                      \cup [status : {"ok"}, id : 1..MaxId]
<1>2. reply \in Replies /\ deleting \in {Nothing} \cup [id : 1..MaxId]
  BY DEF SubscriptionsTypeOK
<1>3. NoReply \in Replies /\ Failed("port in use") \in Replies
  OBVIOUS
<1>4. \A i \in 1..MaxId : [status |-> "ok", id |-> i] \in Replies
  OBVIOUS
<1>5. reply' \in Replies /\ deleting' = deleting
  <2> HIDE DEF Replies
  <2>1. CASE UNCHANGED subscriptionVars
    BY <2>1, <1>2 DEF subscriptionVars
  <2>2. ASSUME NEW g \in Registry, SetUp(g) \/ Populate(g) \/ Disable(g)
        PROVE  reply' \in Replies /\ deleting' = deleting
    BY <2>2, <1>3 DEF SetUp, Populate, Disable
  <2>3. ASSUME NEW g \in Registry, NEW type \in Type, NEW rate \in Rate, Reuse(g, type, rate, TRUE)
        PROVE  reply' \in Replies /\ deleting' = deleting
    <3>1. PICK k \in 1..Len(table) : reply' = [status |-> "ok", id |-> table[k].id]
      BY <2>3 DEF Reuse, Alike
    <3>2. table[k].id \in 1..MaxId
      <4>1. table[k] \in Entry
        <5>1. table \in Seq(Entry)
          BY DEF SubscriptionsTypeOK
        <5> QED
          BY <5>1
      <4> QED
        BY <4>1 DEF Entry
    <3> QED
      BY <2>3, <3>1, <3>2, <1>4 DEF Reuse
  <2>4. ASSUME NEW g \in Registry, NEW type \in Type, NEW rate \in Rate, Create(g, type, rate)
        PROVE  reply' \in Replies /\ deleting' = deleting
    <3>1. created < MaxId /\ created \in 0..MaxId
      BY <2>4 DEF Create, SubscriptionsTypeOK
    <3>2. created + 1 \in 1..MaxId
      BY <3>1, QuerySubscriptionsAssumption
    <3>3. reply' = Failed("port in use") \/ reply' = [status |-> "ok", id |-> created + 1]
      BY <2>4 DEF Create
    <3> QED
      BY <2>4, <3>2, <3>3, <1>3, <1>4 DEF Create
  <2>5. ASSUME NEW g \in Registry, NEW type \in Type, Change(g, type)
        PROVE  reply' \in Replies /\ deleting' = deleting
    BY <2>5, <1>2, <1>3 DEF Change
  <2> QED
    BY <2>1, <2>2, <2>3, <2>4, <2>5 DEF NextController
<1> QED
  BY <1>1, <1>2, <1>5 DEF SubscriptionsTypeOK, TableParts

LEMMA InitSubscriptionTypes == SubscriptionsInit => SubscriptionsTypeOK
<1> SUFFICES ASSUME SubscriptionsInit PROVE SubscriptionsTypeOK
  OBVIOUS
<1>1. TableParts
  BY InitControllerInv DEF ControllerInv
<1> QED
  BY <1>1 DEF SubscriptionsInit, SubscriptionsTypeOK, TableParts

-----------------------------------------------------------------------------
(* The grains and the pages.                                                *)

\* The content that the grains queued for a resource lead up to: the present one,
\* unless the request that changes it is on its way between grain and table.
Announces(id, content) ==
    /\ \A r \in Request : request[r].at = "stored" /\ request[r].id = id =>
                              content = Shown(request[r].pre)
    /\ \A r \in Request : request[r].at = "announced" /\ request[r].id = id => content = NoValue
    /\ (\A r \in Request : request[r].at \in {"stored", "announced"} => request[r].id # id) =>
           content = Shown(resources[id])

\* One request at a time, which knows what it found, and none beside a sync grain.
OneAtATime ==
    /\ \A q, r \in Request : BeingHandled(q) /\ BeingHandled(r) => q = r
    /\ sync.on => sync.keys = Present /\ \A r \in Request : ~BeingHandled(r)
    /\ \A r \in Request :
         /\ request[r].at = "noted" => request[r].pre = resources[request[r].id]
         /\ request[r].at = "stored" => request[r].value = resources[request[r].id]

\* The last grain about a resource says what is announced of it.
QueueIsRight ==
    \A k \in 1..Len(queue) : \A id \in DOMAIN queue[k] :
        (\A j \in 1..Len(queue) : j > k => id \notin DOMAIN queue[j]) => Announces(id, queue[k][id])

Unmentioned(id) == \A k \in 1..Len(queue) : id \notin DOMAIN queue[k]

\* If there is none, every client knows already, or it does not know of the
\* resource at all and a sync grain is to come.
SightIsRight ==
    \A c \in connected, id \in Id :
        Unmentioned(id) =>
            \/ Announces(id, view[c][id])
            \/ view[c][id] = NoValue /\ (c \in syncsDue \/ sync.on)

GrainsInv ==
    /\ GrainsTypeOK /\ OneAtATime /\ QueueIsRight /\ SightIsRight
    /\ \A c \in Client \ connected, id \in Id : view[c][id] = NoValue

LEMMA InitGrainsInv == GrainsInit => GrainsInv
<1> SUFFICES ASSUME GrainsInit PROVE GrainsInv
  OBVIOUS
<1>1. /\ queue = <<>> /\ connected = {} /\ sync.on = FALSE
      /\ \A r \in Request : request[r].at = "idle"
  BY DEF GrainsInit, Unasked, NoSync
<1>2. GrainsTypeOK
  BY DEF GrainsInit, GrainsTypeOK, Content
<1>3. OneAtATime /\ QueueIsRight /\ SightIsRight
  BY <1>1 DEF OneAtATime, QueueIsRight, SightIsRight, BeingHandled
<1>4. \A c \in Client, id \in Id : view[c][id] = NoValue
  BY DEF GrainsInit
<1> QED
  BY <1>2, <1>3, <1>4 DEF GrainsInv

\* What the type says of a request.
LEMMA RequestParts ==
    ASSUME GrainsTypeOK, NEW r \in Request
    PROVE  /\ request[r].at \in {"idle", "done", "post", "noted", "stored", "announced"}
           /\ BeingHandled(r) => request[r].id \in Id
           /\ request[r].at \in {"post", "noted", "stored"} => request[r].value \in Value
           /\ request[r].at \in {"noted", "stored"} => request[r].pre \in Content
<1> DEFINE Part(x) ==
       \/ x \in {Unasked, Answered}
       \/ x \in [at : {"post"}, id : Id, value : Value]
       \/ x \in [at : {"stored", "noted"}, id : Id, value : Value, pre : Content]
       \/ x \in [at : {"announced"}, id : Id]
<1>1. Part(request[r])
  BY DEF GrainsTypeOK
<1>2. CASE request[r] \in {Unasked, Answered}
  BY <1>2 DEF Unasked, Answered, BeingHandled
<1>3. CASE request[r] \in [at : {"post"}, id : Id, value : Value]
  BY <1>3 DEF BeingHandled
<1>4. CASE request[r] \in [at : {"stored", "noted"}, id : Id, value : Value, pre : Content]
  BY <1>4 DEF BeingHandled
<1>5. CASE request[r] \in [at : {"announced"}, id : Id]
  BY <1>5 DEF BeingHandled
<1> QED
  BY <1>1, <1>2, <1>3, <1>4, <1>5

\* What the type says of the queue.
LEMMA QueueParts ==
    ASSUME GrainsTypeOK
    PROVE  /\ Len(queue) \in Nat
           /\ \A k \in 1..Len(queue) : DOMAIN queue[k] \subseteq Id
           /\ \A k \in 1..Len(queue) : \A id \in DOMAIN queue[k] : queue[k][id] \in Content
<1> DEFINE G == UNION {[ids -> Content] : ids \in SUBSET Id}
<1>1. queue \in Seq(G)
  BY DEF GrainsTypeOK
<1>2. \A g \in G : DOMAIN g \subseteq Id /\ \A id \in DOMAIN g : g[id] \in Content
  OBVIOUS
<1>3. Len(queue) \in Nat /\ \A k \in 1..Len(queue) : queue[k] \in G
  <2> HIDE DEF G
  <2> QED
    BY <1>1
<1> QED
  BY <1>2, <1>3

LEMMA OneAnnouncement ==
    ASSUME NEW id, NEW x, NEW y, Announces(id, x), Announces(id, y)
    PROVE  x = y
BY DEF Announces

\* A step that changes neither what is announced nor what is known of it.
LEMMA SameNewsKeepsGrainsInv ==
    ASSUME GrainsInv, GrainsTypeOK', OneAtATime',
           UNCHANGED <<queue, connected, view, sync>>, syncsDue \subseteq syncsDue',
           \A id \in Id : \A x : Announces(id, x) => Announces(id, x)'
    PROVE  GrainsInv'
<1>1. QueueIsRight'
  BY QueueParts DEF GrainsInv, QueueIsRight
<1>2. SightIsRight'
  BY DEF GrainsInv, SightIsRight, Unmentioned
<1> QED
  BY <1>1, <1>2 DEF GrainsInv

\* A request that queues its grain, if it has something to say.
LEMMA GrainKeepsGrainsInv ==
    ASSUME GrainsInv, GrainsTypeOK', OneAtATime',
           UNCHANGED <<connected, view, sync, syncsDue>>,
           NEW id \in Id, NEW pre \in Content, NEW post \in Content, Grain(id, pre, post),
           Announces(id, Shown(pre)), Announces(id, Shown(post))',
           \A i \in Id \ {id} : \A x : Announces(i, x) => Announces(i, x)'
    PROVE  GrainsInv'
<1>1. CASE ~(pre \in Matching \/ post \in Matching)
  <2>1. Shown(pre) = Shown(post) /\ UNCHANGED queue
    BY <1>1 DEF Shown, Grain
  <2>2. \A x : Announces(id, x) => Announces(id, x)'
    BY <2>1, OneAnnouncement DEF Shown
  <2> QED
    BY <2>1, <2>2, SameNewsKeepsGrainsInv
<1>2. CASE pre \in Matching \/ post \in Matching
  <2> DEFINE grain == [i \in {id} |-> Shown(post)]
  <2>1. queue' = Append(queue, grain)
    BY <1>2 DEF Grain
  <2>2. /\ Len(queue) \in Nat /\ Len(queue') = Len(queue) + 1
        /\ \A k \in 1..Len(queue) : queue'[k] = queue[k]
        /\ queue'[Len(queue) + 1] = grain
    <3> HIDE DEF grain
    <3> QED
      BY <2>1 DEF GrainsInv, GrainsTypeOK
  <2>3. QueueIsRight'
    <3> SUFFICES ASSUME NEW k \in 1..Len(queue'), NEW i \in DOMAIN queue'[k],
                        \A j \in 1..Len(queue') : j > k => i \notin DOMAIN queue'[j]
                 PROVE  Announces(i, queue[k][i])'
      BY DEF QueueIsRight
    <3>1. CASE k = Len(queue) + 1
      BY <3>1, <2>2
    <3>2. CASE k \in 1..Len(queue)
      <4>1. i \in Id /\ i # id
        BY <3>2, <2>2, QueueParts DEF GrainsInv
      <4>2. Announces(i, queue[k][i])
        BY <3>2, <2>2 DEF GrainsInv, QueueIsRight
      <4> QED
        BY <4>1, <4>2, <3>2, <2>2
    <3> QED
      BY <3>1, <3>2, <2>2
  <2>4. SightIsRight'
    <3> SUFFICES ASSUME NEW c \in connected, NEW i \in Id, Unmentioned(i)'
                 PROVE  \/ Announces(i, view[c][i])'
                        \/ view[c][i] = NoValue /\ (c \in syncsDue \/ sync.on)
      BY DEF SightIsRight
    <3>1. i # id /\ Unmentioned(i)
      BY <2>2 DEF Unmentioned
    <3> QED
      BY <3>1 DEF GrainsInv, SightIsRight
  <2> QED
    BY <2>3, <2>4 DEF GrainsInv
<1> QED
  BY <1>1, <1>2

LEMMA GrainTypes ==
    ASSUME GrainsTypeOK, NEW id \in Id, NEW pre \in Content, NEW post \in Content,
           Grain(id, pre, post)
    PROVE  queue' \in Seq(UNION {[ids -> Content] : ids \in SUBSET Id})
<1> DEFINE G == UNION {[ids -> Content] : ids \in SUBSET Id}
           grain == [i \in {id} |-> Shown(post)]
<1>1. grain \in G
  <2>1. Shown(post) \in Content
    BY DEF Shown, Content
  <2>2. grain \in [{id} -> Content] /\ {id} \in SUBSET Id
    BY <2>1
  <2> QED
    BY <2>2
<1>2. queue \in Seq(G) /\ (queue' = queue \/ queue' = Append(queue, grain))
  BY DEF GrainsTypeOK, Grain
<1>3. queue' \in Seq(G)
  <2> HIDE DEF G, grain
  <2> QED
    BY <1>1, <1>2
<1> QED
  BY <1>3

\* A new request, that found nobody else's under way.
LEMMA AskKeepsGrainsInv ==
    ASSUME GrainsInv, NEW r \in Request, \A q \in Request : ~BeingHandled(q), LockFree, Ask(r)
    PROVE  GrainsInv'
<1>1. GrainsTypeOK /\ ~sync.on /\ \A q \in Request : request[q].at \in {"idle", "done"}
  BY RequestParts DEF GrainsInv, LockFree, BeingHandled
<1>2. ASSUME NEW id \in Id, NEW value \in Value, Post(r, id, value)
      PROVE  GrainsInv'
  <2> DEFINE to == [at |-> "post", id |-> id, value |-> value]
  <2>1. /\ request' = [request EXCEPT ![r] = to]
        /\ UNCHANGED <<resources, sync, queue, syncsDue, connected, view>>
    BY <1>2 DEF Post, Proceed
  <2>2. request'[r] = to /\ \A q \in Request : q # r => request'[q] = request[q]
    BY <1>1, <2>1 DEF GrainsTypeOK
  <2>3. GrainsTypeOK'
    BY <1>1, <2>1 DEF GrainsTypeOK, Content, Unasked, Answered
  <2>4. OneAtATime'
    BY <1>1, <2>1, <2>2 DEF OneAtATime, BeingHandled
  <2>5. \A i \in Id : \A x : Announces(i, x) => Announces(i, x)'
    BY <1>1, <2>1, <2>2 DEF Announces, Shown
  <2> QED
    BY <2>1, <2>3, <2>4, <2>5, SameNewsKeepsGrainsInv
<1>3. ASSUME NEW id \in Id, Delete(r, id), resources[id] = NoValue
      PROVE  GrainsInv'
  <2>1. /\ request' = [request EXCEPT ![r] = Answered]
        /\ UNCHANGED <<resources, sync, queue, syncsDue, connected, view>>
    BY <1>3 DEF Delete, Proceed
  <2>2. request'[r] = Answered /\ \A q \in Request : q # r => request'[q] = request[q]
    BY <1>1, <2>1 DEF GrainsTypeOK
  <2>3. GrainsTypeOK'
    BY <1>1, <2>1 DEF GrainsTypeOK, Content
  <2>4. OneAtATime'
    BY <1>1, <2>1, <2>2 DEF OneAtATime, BeingHandled, Answered
  <2>5. \A i \in Id : \A x : Announces(i, x) => Announces(i, x)'
    BY <1>1, <2>1, <2>2 DEF Announces, Shown, Answered
  <2> QED
    BY <2>1, <2>3, <2>4, <2>5, SameNewsKeepsGrainsInv
<1>4. ASSUME NEW id \in Id, Delete(r, id), resources[id] # NoValue
      PROVE  GrainsInv'
  <2> DEFINE to == [at |-> "announced", id |-> id]
  <2>1. /\ request' = [request EXCEPT ![r] = to] /\ Grain(id, resources[id], NoValue)
        /\ UNCHANGED <<resources, sync, syncsDue, connected, view>>
    BY <1>4 DEF Delete, Proceed
  <2>2. request'[r] = to /\ \A q \in Request : q # r => request'[q] = request[q]
    BY <1>1, <2>1 DEF GrainsTypeOK
  <2>3. GrainsTypeOK'
    <3>1. request' \in [Request ->
            {Unasked, Answered}
            \cup [at : {"post"}, id : Id, value : Value]
            \cup [at : {"stored", "noted"}, id : Id, value : Value, pre : Content]
            \cup [at : {"announced"}, id : Id]]
      BY <1>1, <2>1 DEF GrainsTypeOK
    <3>2. queue' \in Seq(UNION {[ids -> Content] : ids \in SUBSET Id})
      <4>1. resources[id] \in Content /\ NoValue \in Content
        BY <1>1 DEF GrainsTypeOK, Content
      <4> QED
        BY <1>1, <2>1, <4>1, GrainTypes
    <3> QED
      BY <1>1, <2>1, <3>1, <3>2 DEF GrainsTypeOK
  <2>4. OneAtATime'
    BY <1>1, <2>1, <2>2 DEF OneAtATime, BeingHandled
  <2>5. Announces(id, Shown(resources[id])) /\ Announces(id, Shown(NoValue))'
    BY <1>1, <2>1, <2>2, DataGrainsAssumption DEF Announces, Shown
  <2>6. \A i \in Id \ {id} : \A x : Announces(i, x) => Announces(i, x)'
    BY <1>1, <2>1, <2>2 DEF Announces, Shown
  <2>7. resources[id] \in Content /\ NoValue \in Content
    BY <1>1 DEF GrainsTypeOK, Content
  <2> QED
    BY <2>1, <2>3, <2>4, <2>5, <2>6, <2>7, GrainKeepsGrainsInv
<1> QED
  BY <1>2, <1>3, <1>4 DEF Ask

\* The request under way goes on.
LEMMA HandleKeepsGrainsInv ==
    ASSUME GrainsInv, NEW r \in Request, Handle(r)
    PROVE  GrainsInv'
<1>1. BeingHandled(r)
  BY DEF Handle, Note, Store, Announce, RemoveResource, BeingHandled
<1>2. /\ GrainsTypeOK /\ ~sync.on
      /\ \A q \in Request : q # r => request[q].at \in {"idle", "done"}
  <2>1. \A q \in Request : q # r => ~BeingHandled(q)
    BY <1>1 DEF GrainsInv, OneAtATime
  <2> QED
    BY <1>1, <2>1, RequestParts DEF GrainsInv, OneAtATime, BeingHandled
<1>3. request[r].id \in Id
  BY <1>1, <1>2, RequestParts
<1>4. CASE Note(r)
  <2> DEFINE to == [at |-> "noted", id |-> request[r].id, value |-> request[r].value,
                    pre |-> resources[request[r].id]]
  <2>1. /\ request' = [request EXCEPT ![r] = to] /\ request[r].at = "post"
        /\ UNCHANGED <<resources, sync, queue, syncsDue, connected, view>>
    BY <1>4 DEF Note, Proceed
  <2>2. request'[r] = to /\ \A q \in Request : q # r => request'[q] = request[q]
    BY <1>2, <2>1 DEF GrainsTypeOK
  <2>3. to \in [at : {"stored", "noted"}, id : Id, value : Value, pre : Content]
    BY <1>2, <1>3, <2>1, RequestParts DEF GrainsTypeOK
  <2>4. GrainsTypeOK'
    <3> HIDE DEF to
    <3> QED
      BY <1>2, <2>1, <2>3 DEF GrainsTypeOK, Content
  <2>5. OneAtATime'
    BY <1>2, <2>1, <2>2 DEF OneAtATime, BeingHandled
  <2>6. \A i \in Id : \A x : Announces(i, x) => Announces(i, x)'
    BY <1>2, <2>1, <2>2 DEF Announces, Shown
  <2> QED
    BY <2>1, <2>4, <2>5, <2>6, SameNewsKeepsGrainsInv
<1>5. CASE Store(r)
  <2> DEFINE to == [request[r] EXCEPT !.at = "stored"]
  <2>1. /\ request' = [request EXCEPT ![r] = to] /\ request[r].at = "noted"
        /\ resources' = [resources EXCEPT ![request[r].id] = request[r].value]
        /\ UNCHANGED <<sync, queue, syncsDue, connected, view>>
    BY <1>5 DEF Store, Proceed
  <2>2. request'[r] = to /\ \A q \in Request : q # r => request'[q] = request[q]
    BY <1>2, <2>1 DEF GrainsTypeOK
  <2>3. request[r] \in [at : {"stored", "noted"}, id : Id, value : Value, pre : Content]
    BY <1>2, <2>1 DEF GrainsTypeOK, Unasked, Answered
  <2>4. /\ to \in [at : {"stored", "noted"}, id : Id, value : Value, pre : Content]
        /\ to.at = "stored" /\ to.id = request[r].id
        /\ to.value = request[r].value /\ to.pre = request[r].pre
    BY <2>3
  <2>5. /\ resources' \in [Id -> Content] /\ resources'[request[r].id] = request[r].value
        /\ \A i \in Id : i # request[r].id => resources'[i] = resources[i]
    BY <1>2, <1>3, <2>1, <2>3 DEF GrainsTypeOK, Content
  <2>6. GrainsTypeOK'
    <3> HIDE DEF to
    <3> QED
      BY <1>2, <2>1, <2>4, <2>5 DEF GrainsTypeOK
  <2>7. OneAtATime'
    <3> HIDE DEF to
    <3> QED
      BY <1>2, <2>1, <2>2, <2>4, <2>5 DEF OneAtATime, BeingHandled
  <2>8. request[r].pre = resources[request[r].id]
    BY <2>1 DEF GrainsInv, OneAtATime
  <2>9. \A i \in Id : \A x : Announces(i, x) => Announces(i, x)'
    <3> HIDE DEF to
    <3> QED
      BY <1>2, <2>1, <2>2, <2>4, <2>5, <2>8 DEF Announces, Shown
  <2> QED
    BY <2>1, <2>6, <2>7, <2>9, SameNewsKeepsGrainsInv
<1>6. CASE Announce(r)
  <2>1. PICK id \in Id, pre \in Content, post \in Content :
            id = request[r].id /\ pre = request[r].pre /\ post = request[r].value
    BY <1>2, <1>3, <1>6, RequestParts DEF Announce, Content
  <2>2. /\ request' = [request EXCEPT ![r] = Answered] /\ request[r].at = "stored"
        /\ Grain(id, pre, post)
        /\ UNCHANGED <<resources, sync, syncsDue, connected, view>>
    BY <1>6, <2>1 DEF Announce, Proceed
  <2>3. request'[r] = Answered /\ \A q \in Request : q # r => request'[q] = request[q]
    BY <1>2, <2>2 DEF GrainsTypeOK
  <2>4. GrainsTypeOK'
    <3>1. request' \in [Request ->
            {Unasked, Answered}
            \cup [at : {"post"}, id : Id, value : Value]
            \cup [at : {"stored", "noted"}, id : Id, value : Value, pre : Content]
            \cup [at : {"announced"}, id : Id]]
      BY <1>2, <2>2 DEF GrainsTypeOK
    <3>2. queue' \in Seq(UNION {[ids -> Content] : ids \in SUBSET Id})
      BY <1>2, <2>2, GrainTypes
    <3> QED
      BY <1>2, <2>2, <3>1, <3>2 DEF GrainsTypeOK
  <2>5. OneAtATime'
    BY <1>2, <2>2, <2>3 DEF OneAtATime, BeingHandled, Answered
  <2>6. Announces(id, Shown(pre))
    BY <1>2, <2>1, <2>2 DEF Announces, Shown
  <2>7. resources[id] = post
    BY <2>1, <2>2 DEF GrainsInv, OneAtATime
  <2>8. Announces(id, Shown(post))'
    BY <1>2, <2>2, <2>3, <2>7 DEF Announces, Shown, Answered
  <2>9. \A i \in Id \ {id} : \A x : Announces(i, x) => Announces(i, x)'
    BY <1>2, <2>1, <2>2, <2>3 DEF Announces, Shown, Answered
  <2> QED
    BY <2>2, <2>4, <2>5, <2>6, <2>8, <2>9, GrainKeepsGrainsInv
<1>7. CASE RemoveResource(r)
  <2>1. /\ request' = [request EXCEPT ![r] = Answered] /\ request[r].at = "announced"
        /\ resources' = [resources EXCEPT ![request[r].id] = NoValue]
        /\ UNCHANGED <<sync, queue, syncsDue, connected, view>>
    BY <1>7 DEF RemoveResource, Proceed
  <2>2. request'[r] = Answered /\ \A q \in Request : q # r => request'[q] = request[q]
    BY <1>2, <2>1 DEF GrainsTypeOK
  <2>3. GrainsTypeOK'
    BY <1>2, <1>3, <2>1 DEF GrainsTypeOK, Content
  <2>4. OneAtATime'
    BY <1>2, <2>1, <2>2 DEF OneAtATime, BeingHandled, Answered
  <2>5. /\ resources'[request[r].id] = NoValue /\ Shown(NoValue) = NoValue
        /\ \A i \in Id : i # request[r].id => resources'[i] = resources[i]
    BY <1>2, <1>3, <2>1, DataGrainsAssumption DEF GrainsTypeOK, Shown
  <2>6. \A i \in Id : \A x : Announces(i, x) => Announces(i, x)'
    BY <1>2, <2>1, <2>2, <2>5 DEF Announces, Shown, Answered
  <2> QED
    BY <2>1, <2>3, <2>4, <2>6, SameNewsKeepsGrainsInv
<1> QED
  BY <1>4, <1>5, <1>6, <1>7 DEF Handle

\* The websocket: a client that connects, and the sync grain of its connection.
LEMMA ClientKeepsGrainsInv ==
    ASSUME GrainsInv, NEW c \in Client,
           ConnectClient(c) \/ ((\A r \in Request : ~BeingHandled(r)) /\ BeginSync(c))
    PROVE  GrainsInv'
<1>1. /\ UNCHANGED <<resources, request, queue, view>> /\ connected' \subseteq Client
      /\ connected \subseteq connected' /\ GrainsTypeOK
  BY DEF ConnectClient, BeginSync, GrainsInv, GrainsTypeOK
<1>2. \A i : \A x : Announces(i, x) => Announces(i, x)'
  BY <1>1 DEF Announces, Shown
<1>3. GrainsTypeOK' /\ OneAtATime'
  <2>1. CASE ConnectClient(c)
    <3>1. GrainsTypeOK'
      BY <1>1, <2>1 DEF GrainsTypeOK, ConnectClient
    <3>2. OneAtATime'
      BY <1>1, <2>1 DEF GrainsInv, OneAtATime, BeingHandled, ConnectClient, Present
    <3> QED
      BY <3>1, <3>2
  <2>2. CASE (\A r \in Request : ~BeingHandled(r)) /\ BeginSync(c)
    <3>1. GrainsTypeOK'
      BY <1>1, <2>2 DEF GrainsTypeOK, BeginSync, Present
    <3>2. OneAtATime'
      BY <1>1, <2>2 DEF GrainsInv, OneAtATime, BeingHandled, BeginSync, Present
    <3> QED
      BY <3>1, <3>2
  <2> QED
    BY <2>1, <2>2
<1>4. QueueIsRight'
  BY <1>1, <1>2 DEF GrainsInv, QueueIsRight
<1>5. SightIsRight'
  <2> SUFFICES ASSUME NEW d \in connected', NEW i \in Id, Unmentioned(i)
               PROVE  \/ Announces(i, view[d][i])
                      \/ view[d][i] = NoValue /\ (d \in syncsDue' \/ sync'.on)
    BY <1>1, <1>2 DEF SightIsRight, Unmentioned
  <2>1. CASE d \in connected
    BY <2>1 DEF GrainsInv, SightIsRight, ConnectClient, BeginSync
  <2>2. CASE d \notin connected
    BY <1>1, <2>2 DEF GrainsInv, ConnectClient, BeginSync
  <2> QED
    BY <2>1, <2>2
<1> QED
  BY <1>1, <1>3, <1>4, <1>5 DEF GrainsInv

\* The sync grain is right about all that it shows, and what it does not show
\* nobody is to be told of.
LEMMA EndSyncKeepsGrainsInv ==
    ASSUME GrainsInv, EndSync
    PROVE  GrainsInv'
<1> DEFINE entries == {id \in Present : resources[id] \in Matching}
           grain == [id \in entries |-> resources[id]]
<1>1. /\ sync.on /\ sync' = NoSync
      /\ queue' = IF entries = {} THEN queue ELSE Append(queue, grain)
      /\ UNCHANGED <<resources, request, syncsDue, connected, view>>
  BY DEF EndSync
<1>2. GrainsTypeOK /\ \A r \in Request : request[r].at \in {"idle", "done"}
  BY <1>1, RequestParts DEF GrainsInv, OneAtATime, BeingHandled
<1>3. \A i : Announces(i, Shown(resources[i])) /\ Announces(i, Shown(resources[i]))'
  BY <1>1, <1>2 DEF Announces, Shown
<1>4. \A i : \A x : Announces(i, x) => Announces(i, x)'
  BY <1>1, <1>2 DEF Announces, Shown
<1>5. GrainsTypeOK'
  <2> DEFINE G == UNION {[ids -> Content] : ids \in SUBSET Id}
  <2>1. grain \in [entries -> Content] /\ entries \in SUBSET Id
    BY <1>2 DEF Present, GrainsTypeOK
  <2>2. grain \in G
    <3> HIDE DEF grain, entries
    <3> QED
      BY <2>1
  <2>3. queue' \in Seq(G)
    <3>1. queue \in Seq(G)
      BY <1>2 DEF GrainsTypeOK
    <3> HIDE DEF G, grain, entries
    <3> QED
      BY <1>1, <2>2, <3>1
  <2> QED
    BY <1>1, <1>2, <2>3 DEF GrainsTypeOK
<1>6. OneAtATime'
  BY <1>1, <1>2 DEF OneAtATime, NoSync, BeingHandled
<1>7. \A i \in Id : i \notin entries => Shown(resources[i]) = NoValue
  BY <1>2, DataGrainsAssumption DEF GrainsTypeOK, Present, Shown
<1>8. CASE entries = {}
  <2>1. queue' = queue
    BY <1>1, <1>8
  <2>2. QueueIsRight'
    BY <1>4, <2>1 DEF GrainsInv, QueueIsRight
  <2>3. SightIsRight'
    BY <1>1, <1>3, <1>4, <1>7, <1>8, <2>1 DEF GrainsInv, SightIsRight, Unmentioned
  <2> QED
    BY <1>1, <1>5, <1>6, <2>2, <2>3 DEF GrainsInv
<1>9. CASE entries # {}
  <2>1. /\ Len(queue) \in Nat /\ Len(queue') = Len(queue) + 1
        /\ \A k \in 1..Len(queue) : queue'[k] = queue[k]
        /\ queue'[Len(queue) + 1] = grain
    <3> HIDE DEF grain
    <3> QED
      BY <1>1, <1>2, <1>9 DEF GrainsTypeOK
  <2>2. \A i \in entries : i \in Id /\ resources[i] = Shown(resources[i])
    BY DEF Present, Shown
  <2>3. QueueIsRight'
    <3> SUFFICES ASSUME NEW k \in 1..Len(queue'), NEW i \in DOMAIN queue'[k],
                        \A j \in 1..Len(queue') : j > k => i \notin DOMAIN queue'[j]
                 PROVE  Announces(i, queue[k][i])'
      BY DEF QueueIsRight
    <3>1. CASE k = Len(queue) + 1
      BY <3>1, <1>1, <1>3, <2>1, <2>2
    <3>2. CASE k \in 1..Len(queue)
      <4>1. Announces(i, queue[k][i])
        BY <3>2, <2>1 DEF GrainsInv, QueueIsRight
      <4> QED
        BY <4>1, <3>2, <1>4, <2>1
    <3> QED
      BY <3>1, <3>2, <2>1
  <2>4. SightIsRight'
    <3> SUFFICES ASSUME NEW c \in connected, NEW i \in Id, Unmentioned(i)'
                 PROVE  Announces(i, view[c][i])'
      BY <1>1 DEF SightIsRight
    <3>1. i \notin entries /\ Unmentioned(i)
      BY <2>1 DEF Unmentioned
    <3> QED
      BY <1>1, <1>3, <1>4, <1>7, <3>1 DEF GrainsInv, SightIsRight
  <2> QED
    BY <1>1, <1>5, <1>6, <2>3, <2>4 DEF GrainsInv
<1> QED
  BY <1>8, <1>9

\* The first grain reaches the clients: if it is the last about a resource, all of
\* them know.
LEMMA DeliverKeepsGrainsInv ==
    ASSUME GrainsInv, Deliver
    PROVE  GrainsInv'
<1>1. /\ queue # <<>> /\ queue' = Tail(queue) /\ GrainsTypeOK
      /\ view' = [c \in Client |-> IF c \in connected THEN Overlay(view[c], Head(queue))
                                   ELSE view[c]]
      /\ UNCHANGED <<resources, request, sync, syncsDue, connected>>
  BY DEF Deliver, GrainsInv
<1>2. /\ Len(queue) \in Nat /\ Len(queue) >= 1 /\ Len(queue') = Len(queue) - 1
      /\ \A k \in 1..Len(queue') : queue'[k] = queue[k + 1]
      /\ Head(queue) = queue[1]
  BY <1>1 DEF GrainsTypeOK
<1>3. \A i : \A x : Announces(i, x) => Announces(i, x)'
  BY <1>1 DEF Announces, Shown
<1>4. GrainsTypeOK'
  <2> DEFINE G == UNION {[ids -> Content] : ids \in SUBSET Id}
  <2>1. queue' \in Seq(G)
    <3>1. queue \in Seq(G)
      BY <1>1 DEF GrainsTypeOK
    <3> HIDE DEF G
    <3> QED
      BY <1>1, <3>1
  <2>2. \A i \in DOMAIN Head(queue) : Head(queue)[i] \in Content
    BY <1>1, <1>2, QueueParts
  <2>3. view' \in [Client -> [Id -> Content]]
    <3>1. \A c \in Client : view[c] \in [Id -> Content]
      BY <1>1 DEF GrainsTypeOK
    <3>2. \A c \in Client : Overlay(view[c], Head(queue)) \in [Id -> Content]
      BY <2>2, <3>1 DEF Overlay
    <3> QED
      BY <1>1, <3>1, <3>2
  <2> QED
    BY <1>1, <2>1, <2>3 DEF GrainsTypeOK
<1>5. OneAtATime'
  BY <1>1 DEF GrainsInv, OneAtATime, BeingHandled, Present
<1>6. QueueIsRight'
  <2> SUFFICES ASSUME NEW k \in 1..Len(queue'), NEW i \in DOMAIN queue'[k],
                      \A j \in 1..Len(queue') : j > k => i \notin DOMAIN queue'[j]
               PROVE  Announces(i, queue[k][i])'
    BY DEF QueueIsRight
  <2>1. k + 1 \in 1..Len(queue) /\ i \in DOMAIN queue[k + 1]
    BY <1>2
  <2>2. ASSUME NEW j \in 1..Len(queue), j > k + 1
        PROVE  i \notin DOMAIN queue[j]
    <3>1. j - 1 \in 1..Len(queue') /\ j - 1 > k /\ queue'[j - 1] = queue[j]
      BY <1>2, <2>2
    <3> QED
      BY <3>1
  <2>3. Announces(i, queue[k + 1][i])
    BY <2>1, <2>2 DEF GrainsInv, QueueIsRight
  <2> QED
    BY <1>2, <1>3, <2>3
<1>7. SightIsRight'
  <2> SUFFICES ASSUME NEW c \in connected, NEW i \in Id, Unmentioned(i)'
               PROVE  \/ Announces(i, view[c][i])'
                      \/ view'[c][i] = NoValue /\ (c \in syncsDue \/ sync.on)
    BY <1>1 DEF SightIsRight
  <2>1. c \in Client
    BY <1>1 DEF GrainsTypeOK
  <2>2. \A k \in 2..Len(queue) : i \notin DOMAIN queue[k]
    <3> SUFFICES ASSUME NEW k \in 2..Len(queue) PROVE i \notin DOMAIN queue[k]
      OBVIOUS
    <3>1. k - 1 \in 1..Len(queue') /\ queue'[k - 1] = queue[k]
      BY <1>2
    <3> QED
      BY <3>1 DEF Unmentioned
  <2>3. CASE i \in DOMAIN queue[1]
    <3>1. Announces(i, queue[1][i])
      BY <1>2, <2>2, <2>3 DEF GrainsInv, QueueIsRight
    <3>2. view'[c][i] = queue[1][i]
      BY <1>1, <1>2, <2>1, <2>3 DEF Overlay
    <3> QED
      BY <1>3, <3>1, <3>2
  <2>4. CASE i \notin DOMAIN queue[1]
    <3>1. Unmentioned(i)
      BY <1>2, <2>2, <2>4 DEF Unmentioned
    <3>2. view'[c][i] = view[c][i]
      BY <1>1, <1>2, <2>1, <2>4 DEF Overlay
    <3> QED
      BY <1>1, <1>3, <3>1, <3>2 DEF GrainsInv, SightIsRight
  <2> QED
    BY <2>3, <2>4
<1>8. \A c \in Client \ connected, id \in Id : view'[c][id] = NoValue
  BY <1>1 DEF GrainsInv
<1> QED
  BY <1>1, <1>4, <1>5, <1>6, <1>7, <1>8 DEF GrainsInv

LEMMA StepKeepsGrainsInv == GrainsInv /\ SpacedGrains => GrainsInv'
BY AskKeepsGrainsInv, HandleKeepsGrainsInv, ClientKeepsGrainsInv, EndSyncKeepsGrainsInv,
   DeliverKeepsGrainsInv DEF SpacedGrains

LEMMA NoStepKeepsGrainsInv == GrainsInv /\ UNCHANGED grainVars => GrainsInv'
<1> SUFFICES ASSUME GrainsInv, UNCHANGED grainVars PROVE GrainsInv'
  OBVIOUS
<1>1. GrainsTypeOK'
  BY DEF grainVars, GrainsInv, GrainsTypeOK
<1>2. OneAtATime'
  BY DEF grainVars, GrainsInv, OneAtATime, BeingHandled, Present
<1>3. \A id \in Id : \A x : Announces(id, x) => Announces(id, x)'
  BY DEF grainVars, Announces, Shown
<1> QED
  BY <1>1, <1>2, <1>3, SameNewsKeepsGrainsInv DEF grainVars

\* Nothing under way: nothing queued, nothing due, and what is announced of a
\* resource is what the subscription shows of it.
LEMMA GrainsInvShows == GrainsInv => ViewsAreRight
<1> SUFFICES ASSUME GrainsInv, Quiescent, NEW c \in connected
             PROVE  view[c] = [id \in Id |-> Shown(resources[id])]
  BY DEF ViewsAreRight
<1>1. GrainsTypeOK /\ queue = <<>> /\ c \notin syncsDue /\ ~sync.on
  BY DEF GrainsInv, Quiescent, LockFree
<1>2. \A r \in Request : request[r].at \in {"idle", "done"}
  BY <1>1, RequestParts DEF Quiescent, BeingHandled
<1>3. \A id \in Id : Announces(id, view[c][id])
  BY <1>1 DEF GrainsInv, SightIsRight, Unmentioned
<1>4. \A id \in Id : view[c][id] = Shown(resources[id])
  BY <1>2, <1>3 DEF Announces
<1>5. view[c] \in [Id -> Content]
  BY <1>1 DEF GrainsTypeOK
<1> QED
  BY <1>4, <1>5

-----------------------------------------------------------------------------
(* The pages of the Query API.                                              *)

Precedes(q, r) == version[q] < version[r] \/ (version[q] = version[r] /\ Pos[q] < Pos[r])

\* What the walk has left behind is known: all of it, or what was not updated since.
Walked ==
    IF walk.rel = "next"
    THEN \A r \in Registered : done \/ version[r] < walk.bound => seen[r] = version[r]
    ELSE /\ \A q, r \in Registered : version[q] = version[r] => q = r
         /\ \A r \in Registered \ changed : done \/ version[r] >= walk.bound => seen[r] = version[r]

PagingInv ==
    /\ PagingTypeOK /\ Walked
    /\ walk.bound <= now + 1
    /\ \A r \in Resource : version[r] <= now

LEMMA PagingParts ==
    ASSUME PagingTypeOK
    PROVE  /\ now \in Nat /\ walk.rel \in {"next", "prev"} /\ walk.bound \in Nat
           /\ walk.limit \in Nat /\ walk.limit > 0
           /\ \A r \in Resource : version[r] \in Nat
<1>1. now \in 0..Horizon /\ Horizon \in Nat /\ \A r \in Resource : version[r] \in 0..Horizon
  BY QueryPagingAssumption DEF PagingTypeOK
<1>2. walk.rel \in {"next", "prev"} /\ walk.limit \in Limits /\ walk.bound \in 0..Horizon + 1
  BY DEF PagingTypeOK
<1>3. walk.limit \in Nat \ {0}
  BY <1>2, QueryPagingAssumption
<1> QED
  BY <1>1, <1>2, <1>3

\* A part of the registered resources is counted, and a smaller part for less.
LEMMA Counted ==
    ASSUME NEW S \in SUBSET Registered
    PROVE  /\ IsFiniteSet(S) /\ Cardinality(S) \in Nat
           /\ \A T \in SUBSET S : Cardinality(T) <= Cardinality(S)
           /\ \A T \in SUBSET S : T # S => Cardinality(T) < Cardinality(S)
<1>1. IsFiniteSet(S)
  BY FS_Subset, QueryPagingAssumption DEF Registered
<1>2. Cardinality(S) \in Nat
  BY <1>1, FS_CardinalityType
<1>3. \A T \in SUBSET S : /\ IsFiniteSet(T) /\ Cardinality(T) <= Cardinality(S)
                          /\ Cardinality(S) = Cardinality(T) => S = T
  BY <1>1, FS_Subset
<1>4. \A T \in SUBSET S : Cardinality(T) \in Nat
  BY <1>3, FS_CardinalityType
<1> QED
  BY <1>1, <1>2, <1>3, <1>4

LEMMA RankParts ==
    ASSUME PagingTypeOK, NEW r \in Registered
    PROVE  /\ Rank(r) \in Nat /\ Rank(r) < Cardinality(Registered)
           /\ Cardinality(Registered) \in Nat
<1> DEFINE S == {q \in Registered : Precedes(q, r)}
<1>1. Rank(r) = Cardinality(S)
  BY DEF Rank, Precedes
<1>2. S \in SUBSET Registered /\ r \notin S
  <2>1. r \in Resource /\ version[r] \in Nat /\ Pos[r] \in Nat
    BY PagingParts, QueryPagingAssumption DEF Registered
  <2> QED
    BY <2>1 DEF Precedes
<1>3. S # Registered
  BY <1>2
<1> QED
  <2> HIDE DEF S
  <2>1. Cardinality(S) \in Nat
    BY <1>2, Counted
  <2>2. Registered \in SUBSET Registered
    OBVIOUS
  <2> QED
    BY <1>1, <1>2, <1>3, <2>1, <2>2, Counted

\* Whoever comes before has the lower rank.
LEMMA RankGrows ==
    ASSUME PagingTypeOK, NEW q \in Registered, NEW r \in Registered, Precedes(q, r)
    PROVE  Rank(q) < Rank(r)
<1> DEFINE S(x) == {p \in Registered : Precedes(p, x)}
<1>1. Rank(q) = Cardinality(S(q)) /\ Rank(r) = Cardinality(S(r))
  BY DEF Rank, Precedes
<1>2. \A x \in Registered : x \in Resource /\ version[x] \in Nat /\ Pos[x] \in Nat
  BY PagingParts, QueryPagingAssumption DEF Registered
<1>3. /\ S(r) \in SUBSET Registered /\ S(q) \in SUBSET S(r)
      /\ q \in S(r) /\ q \notin S(q)
  BY <1>2 DEF Precedes
<1> HIDE DEF S
<1> QED
  BY <1>1, <1>3, Counted

\* Of two resources one comes before the other.
LEMMA RankTells ==
    ASSUME PagingTypeOK, NEW q \in Registered, NEW r \in Registered, q # r
    PROVE  Rank(q) # Rank(r)
<1>1. \A x \in Registered : x \in Resource /\ version[x] \in Nat /\ Pos[x] \in Nat
  BY PagingParts, QueryPagingAssumption DEF Registered
<1>2. Pos[q] # Pos[r]
  BY <1>1, QueryPagingAssumption
<1>3. Precedes(q, r) \/ Precedes(r, q)
  BY <1>1, <1>2 DEF Precedes
<1> QED
  BY <1>3, RankGrows, RankParts

\* Every index below the number of resources is somebody's: otherwise the ranks
\* would be fewer than the resources.
LEMMA EveryRankIsTaken ==
    ASSUME PagingTypeOK, NEW i \in Nat, i < Cardinality(Registered)
    PROVE  \E r \in Registered : Rank(r) = i
<1> DEFINE N == Cardinality(Registered)
           T == (0..N - 1) \ {i}
           f == [r \in Registered |-> Rank(r)]
<1> SUFFICES ASSUME \A r \in Registered : Rank(r) # i
             PROVE  FALSE
  OBVIOUS
<1>1. IsFiniteSet(Registered) /\ N \in Nat
  BY Counted
<1>2. IsFiniteSet(T) /\ Cardinality(T) < Cardinality(Registered)
  <2> HIDE DEF N
  <2>1. IsFiniteSet(0..N - 1) /\ Cardinality(0..N - 1) = N
    BY <1>1, FS_Interval
  <2>2. i \in 0..N - 1
    BY <1>1 DEF N
  <2>3. IsFiniteSet(T) /\ Cardinality(T) = N - 1
    <3> DEFINE I == 0..N - 1
    <3> HIDE DEF I
    <3>1. IsFiniteSet(I) /\ Cardinality(I) = N /\ i \in I /\ T = I \ {i}
      BY <2>1, <2>2 DEF I
    <3> QED
      BY <3>1, FS_RemoveElement
  <2> QED
    BY <2>3, <1>1 DEF N
<1>3. f \in [Registered -> T]
  BY RankParts
<1>4. \E q, r \in Registered : q # r /\ f[q] = f[r]
  <2> HIDE DEF f, T, N
  <2> QED
    BY <1>1, <1>2, <1>3, FS_PigeonHole
<1> QED
  BY <1>4, RankTells

\* Before counts the resources that a walk has to leave behind.
LEMMA BeforeParts ==
    ASSUME PagingTypeOK, NEW t \in Nat
    PROVE  /\ Before(t) \in Nat /\ Before(t) <= Cardinality(Registered)
           /\ \A r \in Registered : version[r] < t => Rank(r) < Before(t)
           /\ \A r \in Registered : version[r] >= t => Rank(r) >= Before(t)
           /\ (\A r \in Registered : version[r] < t) => Before(t) = Cardinality(Registered)
<1> DEFINE B == {r \in Registered : version[r] < t}
           S(x) == {p \in Registered : Precedes(p, x)}
<1>1. Before(t) = Cardinality(B) /\ \A x : Rank(x) = Cardinality(S(x))
  BY DEF Before, Rank, Precedes
<1>2. \A x \in Registered : version[x] \in Nat
  BY PagingParts DEF Registered
<1>3. /\ B \in SUBSET Registered
      /\ \A x : S(x) \in SUBSET Registered
      /\ Registered \in SUBSET Registered
  OBVIOUS
<1>4. \A r \in Registered : version[r] < t => S(r) \in SUBSET B /\ r \in B /\ r \notin S(r)
  <2>1. \A x \in Registered : Pos[x] \in Nat
    BY QueryPagingAssumption DEF Registered
  <2> QED
    BY <1>2, <2>1 DEF Precedes
<1>5. \A r \in Registered : version[r] >= t => B \in SUBSET S(r)
  BY <1>2 DEF Precedes
<1>6. (\A r \in Registered : version[r] < t) => B = Registered
  OBVIOUS
<1>7. Cardinality(B) \in Nat /\ Cardinality(B) <= Cardinality(Registered)
  <2> HIDE DEF B
  <2> QED
    BY <1>3, Counted
<1> HIDE DEF B, S
<1>8. ASSUME NEW r \in Registered, version[r] < t PROVE Rank(r) < Before(t)
  BY <1>1, <1>3, <1>4, <1>8, Counted
<1>9. ASSUME NEW r \in Registered, version[r] >= t PROVE Rank(r) >= Before(t)
  <2>1. Cardinality(B) <= Cardinality(S(r))
    BY <1>3, <1>5, <1>9, Counted
  <2> QED
    BY <1>1, <2>1, <1>7, RankParts
<1> QED
  BY <1>1, <1>6, <1>7, <1>8, <1>9

LEMMA VersionAtParts ==
    ASSUME PagingTypeOK, NEW i \in Nat, NEW t
    PROVE  /\ i < Cardinality(Registered) =>
                  \E x \in Registered : Rank(x) = i /\ VersionAt(i, t) = version[x]
           /\ ~(i < Cardinality(Registered)) => VersionAt(i, t) = t
<1> DEFINE x == CHOOSE r \in Registered : Rank(r) = i
<1>1. ASSUME i < Cardinality(Registered)
      PROVE  x \in Registered /\ Rank(x) = i
  BY <1>1, EveryRankIsTaken
<1> QED
  BY <1>1 DEF VersionAt

\* A page of the walk that follows "next": nothing is between the resources known
\* before it and those that begin the page to come, and it is empty at the end only.
LEMMA ForwardPageKeepsWalked ==
    ASSUME PagingInv, GetPage, walk.rel = "next"
    PROVE  Walked' /\ walk'.bound <= now + 1 /\ walk'.bound \in 0..Horizon + 1
<1> DEFINE N == Cardinality(Registered)
           S == SinceIndex
           U == UntilIndex
<1>1. /\ PagingTypeOK /\ now \in Nat /\ walk.bound \in Nat /\ walk.limit \in Nat /\ walk.limit > 0
      /\ \A r \in Registered : r \in Resource /\ version[r] \in Nat /\ version[r] <= now
  BY PagingParts DEF PagingInv, Registered
<1>2. /\ S = Before(walk.bound) /\ S \in Nat
      /\ \A r \in Registered : version[r] >= walk.bound => Rank(r) >= S
  BY <1>1, BeforeParts DEF SinceIndex
<1>3. Before(MaxUntil) = N /\ N \in Nat
  BY <1>1, BeforeParts DEF MaxUntil
<1>4. /\ U \in Nat /\ U <= N /\ (U = N \/ (U < N /\ S < U))
  BY <1>1, <1>2, <1>3 DEF UntilIndex, Least
<1> HIDE DEF N, S, U
<1>5. \A r \in Registered : Rank(r) \in Nat /\ Rank(r) < N /\ (r \in Page <=> S <= Rank(r) /\ Rank(r) < U)
  BY <1>1, RankParts DEF Page, S, U, N
<1>6. /\ seen' = [r \in Resource |-> IF r \in Page THEN version[r] ELSE seen[r]]
      /\ ~done /\ UNCHANGED <<now, version, changed>> /\ Registered' = Registered
  BY DEF GetPage, Registered
<1>7. \A r \in Registered : seen'[r] = IF r \in Page THEN version[r] ELSE seen[r]
  BY <1>1, <1>6
<1>8. \A r \in Registered : version[r] < walk.bound => seen'[r] = version[r]
  BY <1>6, <1>7 DEF PagingInv, Walked
<1>9. CASE Page = {}
  <2>1. U = N
    <3> SUFFICES ASSUME U < N /\ S < U PROVE FALSE
      BY <1>4
    <3>1. PICK r \in Registered : Rank(r) = S
      BY <1>1, <1>2, <1>3, <1>4, EveryRankIsTaken DEF N
    <3> QED
      BY <3>1, <1>2, <1>5, <1>9
  <2>2. \A r \in Registered : version[r] < walk.bound
    BY <2>1, <1>1, <1>2, <1>5, <1>9
  <2>3. walk' = walk /\ walk.bound <= now + 1 /\ walk.bound \in 0..Horizon + 1
    BY <1>9 DEF GetPage, PagingInv, PagingTypeOK
  <2> QED
    BY <2>2, <2>3, <1>6, <1>8 DEF Walked
<1>10. CASE Page # {}
  <2>1. walk' = [walk EXCEPT !.bound = NextBound] /\ done' = done
    BY <1>10 DEF GetPage
  <2>2. walk'.bound = NextBound /\ walk'.rel = "next"
    BY <2>1, <1>1 DEF PagingTypeOK
  <2>3. /\ U < N => \E x \in Registered : Rank(x) = U /\ NextBound = version[x]
        /\ U = N => NextBound = now + 1
    BY <1>1, <1>3, <1>4, VersionAtParts DEF NextBound, MaxUntil, U, N
  <2>4. NextBound \in Nat /\ NextBound <= now + 1 /\ now <= Horizon
    BY <2>3, <1>1, <1>4 DEF PagingTypeOK
  <2>5. ASSUME NEW r \in Registered, version[r] < NextBound, version[r] >= walk.bound
        PROVE  seen'[r] = version[r]
    <3>1. Rank(r) >= S
      BY <2>5, <1>2
    <3>2. Rank(r) < U
      <4>1. CASE U = N
        BY <4>1, <1>5
      <4>2. CASE U < N
        <5>1. PICK x \in Registered : Rank(x) = U /\ NextBound = version[x]
          BY <4>2, <2>3
        <5> QED
          BY <5>1, <2>5, <1>1, RankGrows DEF Precedes
      <4> QED
        BY <4>1, <4>2, <1>4
    <3> QED
      BY <3>1, <3>2, <1>2, <1>5, <1>7
  <2>6. \A r \in Registered : version[r] < NextBound => seen'[r] = version[r]
    BY <2>5, <1>1, <1>8
  <2>7. NextBound \in 0..Horizon + 1
    BY <2>4, QueryPagingAssumption, <1>1
  <2> QED
    BY <2>1, <2>2, <2>4, <2>6, <2>7, <1>6 DEF Walked
<1> QED
  BY <1>9, <1>10

\* A page of the walk that follows "prev", the last of those that come before its
\* bound: its first resource is the bound of the page to come, which no other
\* shares.
LEMMA BackwardPageKeepsWalked ==
    ASSUME PagingInv, GetPage, walk.rel = "prev"
    PROVE  Walked' /\ walk'.bound <= now + 1 /\ walk'.bound \in 0..Horizon + 1
<1> DEFINE N == Cardinality(Registered)
           S == SinceIndex
           U == UntilIndex
<1>1. /\ PagingTypeOK /\ now \in Nat /\ walk.bound \in Nat /\ walk.limit \in Nat /\ walk.limit > 0
      /\ \A r \in Registered : r \in Resource /\ version[r] \in Nat /\ version[r] <= now
  BY PagingParts DEF PagingInv, Registered
<1>2. /\ U = Before(walk.bound) /\ U \in Nat /\ U <= N /\ N \in Nat
      /\ \A r \in Registered : version[r] < walk.bound => Rank(r) < U
  BY <1>1, BeforeParts, Counted DEF UntilIndex
<1>3. S \in Nat /\ (U > 0 => S < U) /\ (U = 0 => S = 0)
  BY <1>1, <1>2 DEF SinceIndex, Less
<1> HIDE DEF N, S, U
<1>4. \A r \in Registered : Rank(r) \in Nat /\ Rank(r) < N /\ (r \in Page <=> S <= Rank(r) /\ Rank(r) < U)
  BY <1>1, RankParts DEF Page, S, U, N
<1>5. /\ seen' = [r \in Resource |-> IF r \in Page THEN version[r] ELSE seen[r]]
      /\ ~done /\ UNCHANGED <<now, version, changed>> /\ Registered' = Registered
  BY DEF GetPage, Registered
<1>6. \A r \in Registered : seen'[r] = IF r \in Page THEN version[r] ELSE seen[r]
  BY <1>1, <1>5
<1>7. /\ \A q, r \in Registered : version[q] = version[r] => q = r
      /\ \A r \in Registered \ changed : version[r] >= walk.bound => seen'[r] = version[r]
  BY <1>5, <1>6 DEF PagingInv, Walked
<1>8. CASE Page = {}
  <2>1. U = 0
    <3> SUFFICES ASSUME U > 0 PROVE FALSE
      BY <1>2
    <3>1. PICK r \in Registered : Rank(r) = S
      BY <1>1, <1>2, <1>3, EveryRankIsTaken DEF N
    <3> QED
      BY <3>1, <1>3, <1>4, <1>8
  <2>2. \A r \in Registered : version[r] >= walk.bound
    BY <2>1, <1>1, <1>2, <1>4
  <2>3. walk' = walk /\ walk.bound <= now + 1 /\ walk.bound \in 0..Horizon + 1
    BY <1>8 DEF GetPage, PagingInv, PagingTypeOK
  <2> QED
    BY <2>2, <2>3, <1>5, <1>7 DEF Walked
<1>9. CASE Page # {}
  <2>1. walk' = [walk EXCEPT !.bound = PrevBound] /\ done' = done
    BY <1>9 DEF GetPage
  <2>2. walk'.bound = PrevBound /\ walk'.rel = "prev"
    BY <2>1, <1>1 DEF PagingTypeOK
  <2>3. S < N
    <3>1. PICK r \in Registered : r \in Page
      BY <1>9 DEF Page
    <3> QED
      BY <3>1, <1>2, <1>3, <1>4
  <2>4. PICK x \in Registered : Rank(x) = S /\ PrevBound = version[x]
    BY <1>1, <1>3, <2>3, VersionAtParts DEF PrevBound, S, N
  <2>5. PrevBound \in Nat /\ PrevBound <= now + 1 /\ now <= Horizon
    BY <2>4, <1>1 DEF PagingTypeOK
  <2>6. ASSUME NEW r \in Registered \ changed, version[r] >= PrevBound, version[r] < walk.bound
        PROVE  seen'[r] = version[r]
    <3>1. Rank(r) < U
      BY <2>6, <1>2
    <3>2. Rank(r) >= S
      <4>1. CASE r = x
        BY <4>1, <2>4, <1>3
      <4>2. CASE r # x
        <5>1. Precedes(x, r)
          BY <4>2, <2>4, <2>6, <1>1, <1>7 DEF Precedes
        <5> QED
          BY <5>1, <2>4, <1>1, <1>3, <1>4, RankGrows
      <4> QED
        BY <4>1, <4>2
    <3> QED
      BY <3>1, <3>2, <1>4, <1>6
  <2>7. \A r \in Registered \ changed : version[r] >= PrevBound => seen'[r] = version[r]
    BY <2>6, <1>1, <1>7
  <2>8. PrevBound \in 0..Horizon + 1
    BY <2>5, QueryPagingAssumption, <1>1
  <2> QED
    BY <2>1, <2>2, <2>5, <2>7, <2>8, <1>5, <1>7 DEF Walked
<1> QED
  BY <1>8, <1>9

LEMMA InitPagingInv == PagingInit => PagingInv
<1> SUFFICES ASSUME PagingInit PROVE PagingInv
  OBVIOUS
<1>1. PICK times \in SUBSET (1..(Horizon \div 4)), rel \in {"next", "prev"}, limit \in Limits :
        /\ version \in [Resource -> {0} \cup {2 * t : t \in times}]
        /\ \A t \in times :
             Cardinality({r \in Resource : version[r] = 2 * t}) \in 1..(IF rel = "next" THEN limit ELSE 1)
        /\ walk = [rel |-> rel, limit |-> limit, bound |-> IF rel = "next" THEN 0 ELSE now + 1]
  BY DEF PagingInit
<1>2. now = Horizon \div 2 /\ Horizon \in Nat
  BY QueryPagingAssumption DEF PagingInit
<1>3. /\ now \in 0..Horizon
      /\ \A t \in times : t \in Nat /\ t >= 1 /\ 2 * t \in 0..Horizon /\ 2 * t <= now
  BY <1>2
<1>4. \A r \in Resource : version[r] = 0 \/ \E t \in times : version[r] = 2 * t
  BY <1>1
<1>5. version \in [Resource -> 0..Horizon] /\ \A r \in Resource : version[r] <= now
  <2>1. \A r \in Resource : version[r] \in 0..Horizon /\ version[r] <= now
    BY <1>2, <1>3, <1>4
  <2> QED
    BY <2>1, <1>1
<1>6. walk.bound \in 0..Horizon + 1 /\ walk.bound <= now + 1
  BY <1>1, <1>2, <1>3
<1>7. PagingTypeOK
  <2>1. seen \in [Resource -> 0..Horizon] /\ changed \subseteq Resource /\ done \in BOOLEAN
    <3>1. seen = [r \in Resource |-> 0] /\ changed = {} /\ done = FALSE
      BY DEF PagingInit
    <3>2. 0 \in 0..Horizon
      BY <1>2
    <3> QED
      BY <3>1, <3>2
  <2>2. walk \in [rel : {"next", "prev"}, limit : Limits, bound : 0..Horizon + 1]
    <3> DEFINE bound == IF rel = "next" THEN 0 ELSE now + 1
    <3>1. bound \in 0..Horizon + 1 /\ walk = [rel |-> rel, limit |-> limit, bound |-> bound]
      BY <1>1, <1>6
    <3> HIDE DEF bound
    <3> QED
      BY <3>1
  <2> QED
    BY <1>3, <1>5, <2>1, <2>2 DEF PagingTypeOK
<1>8. ASSUME rel = "prev" PROVE \A q, r \in Registered : version[q] = version[r] => q = r
  <2> SUFFICES ASSUME NEW q \in Registered, NEW r \in Registered, version[q] = version[r]
               PROVE  q = r
    OBVIOUS
  <2>1. PICK t \in times : version[r] = 2 * t
    BY <1>4 DEF Registered
  <2> DEFINE Same == {p \in Resource : version[p] = 2 * t}
  <2>2. q \in Same /\ r \in Same
    BY <2>1 DEF Registered
  <2>3. IsFiniteSet(Same)
    BY FS_Subset, QueryPagingAssumption
  <2>4. Cardinality(Same) = 1
    BY <1>1, <1>8
  <2> HIDE DEF Same
  <2>5. PICK p : Same = {p}
    BY <2>3, <2>4, FS_Singleton
  <2> QED
    BY <2>2, <2>5
<1>9. Walked
  <2>1. done = FALSE /\ \A r \in Registered : version[r] \in Nat /\ version[r] <= now
    BY <1>5, <1>2 DEF PagingInit, Registered
  <2>2. CASE rel = "next"
    BY <2>1, <2>2, <1>1 DEF Walked
  <2>3. CASE rel = "prev"
    BY <2>1, <2>3, <1>1, <1>2, <1>8 DEF Walked
  <2> QED
    BY <2>2, <2>3
<1> QED
  BY <1>5, <1>6, <1>7, <1>9 DEF PagingInv

LEMMA GetPageKeepsPagingInv == PagingInv /\ GetPage => PagingInv'
<1> SUFFICES ASSUME PagingInv, GetPage PROVE PagingInv'
  OBVIOUS
<1>1. PagingTypeOK /\ UNCHANGED <<now, version, changed>>
  BY DEF PagingInv, GetPage
<1>2. Walked' /\ walk'.bound <= now + 1 /\ walk'.bound \in 0..Horizon + 1
  <2>1. walk.rel \in {"next", "prev"}
    BY <1>1, PagingParts
  <2> QED
    BY <2>1, ForwardPageKeepsWalked, BackwardPageKeepsWalked
<1>3. seen' \in [Resource -> 0..Horizon]
  BY <1>1 DEF GetPage, PagingTypeOK
<1>4. /\ walk' \in [rel : {"next", "prev"}, limit : Limits, bound : 0..Horizon + 1]
      /\ done' \in BOOLEAN
  <2>1. CASE Page = {}
    BY <2>1, <1>1 DEF GetPage, PagingTypeOK
  <2>2. CASE Page # {}
    <3>1. PICK b : walk' = [walk EXCEPT !.bound = b] /\ done' = done
      BY <2>2 DEF GetPage
    <3>2. walk'.bound = b
      BY <3>1, <1>1 DEF PagingTypeOK
    <3> QED
      BY <3>1, <3>2, <1>1, <1>2 DEF PagingTypeOK
  <2> QED
    BY <2>1, <2>2
<1> QED
  BY <1>1, <1>2, <1>3, <1>4 DEF PagingInv, PagingTypeOK

\* An update comes later than all that the walk has left behind or has yet to ask for.
LEMMA UpdateKeepsPagingInv ==
    ASSUME PagingInv, NEW r \in Resource, Update(r)
    PROVE  PagingInv'
<1>1. /\ ~done /\ now + 2 <= Horizon /\ now' = now + 2 /\ changed' = changed \cup {r}
      /\ version' = [version EXCEPT ![r] = now + 2] /\ UNCHANGED <<walk, seen, done>>
  BY DEF Update
<1>2. /\ PagingTypeOK /\ now \in Nat /\ walk.bound \in Nat /\ walk.bound <= now + 1
      /\ \A q \in Resource : version[q] \in Nat /\ version[q] <= now
      /\ walk.rel \in {"next", "prev"}
  BY PagingParts DEF PagingInv
<1>3. /\ version'[r] = now + 2
      /\ \A q \in Resource : q # r => version'[q] = version[q]
      /\ Registered' = Registered \cup {r}
  <2>1. version'[r] = now + 2 /\ \A q \in Resource : q # r => version'[q] = version[q]
    BY <1>1, <1>2 DEF PagingTypeOK
  <2> QED
    BY <2>1, <1>2 DEF Registered
<1>4. PagingTypeOK'
  <2>1. now + 2 \in 0..Horizon
    BY <1>1, <1>2, QueryPagingAssumption
  <2> QED
    BY <2>1, <1>1, <1>2 DEF PagingTypeOK
<1>5. \A q \in Registered' : q # r => q \in Registered /\ q \in Resource
  BY <1>3 DEF Registered
<1>6. Walked'
  <2>1. CASE walk.rel = "next"
    <3>1. ASSUME NEW q \in Registered', version'[q] < walk.bound
          PROVE  seen[q] = version'[q]
      BY <3>1, <2>1, <1>2, <1>3, <1>5 DEF PagingInv, Walked
    <3> QED
      BY <3>1, <2>1, <1>1 DEF Walked
  <2>2. CASE walk.rel = "prev"
    <3>1. \A p, q \in Registered : version[p] = version[q] => p = q
      BY <2>2 DEF PagingInv, Walked
    <3>2. ASSUME NEW p \in Registered', NEW q \in Registered', version'[p] = version'[q]
          PROVE  p = q
      BY <3>1, <3>2, <1>2, <1>3, <1>5
    <3>3. ASSUME NEW q \in Registered' \ changed', version'[q] >= walk.bound
          PROVE  seen[q] = version'[q]
      BY <3>3, <2>2, <1>1, <1>3, <1>5 DEF PagingInv, Walked
    <3> QED
      BY <3>2, <3>3, <2>2, <1>1 DEF Walked
  <2> QED
    BY <2>1, <2>2, <1>2
<1> QED
  BY <1>1, <1>2, <1>3, <1>4, <1>6 DEF PagingInv

LEMMA StepKeepsPagingInv == PagingInv /\ [PagingNext]_pagingVars => PagingInv'
<1>1. PagingInv /\ UNCHANGED pagingVars => PagingInv'
  BY DEF PagingInv, PagingTypeOK, Walked, Registered, pagingVars
<1> QED
  BY <1>1, GetPageKeepsPagingInv, UpdateKeepsPagingInv DEF PagingNext

LEMMA PagingInvWalks == PagingInv => ForwardWalkIsComplete /\ BackwardWalkIsComplete
BY DEF PagingInv, Walked, ForwardWalkIsComplete, BackwardWalkIsComplete

-----------------------------------------------------------------------------
(* The services, each one at work on its own.                               *)

MocksInv ==
    /\ SerialInv /\ TypeOK
    /\ GrainsInv
    /\ ControllerInv /\ SubscriptionsTypeOK
    /\ PagingInv

LEMMA InitMocksInv == MocksInit => MocksInv
BY InitSerialInv, InitConnectionTypes, InitGrainsInv, InitControllerInv, InitSubscriptionTypes,
   InitPagingInv DEF MocksInit, MocksInv

\* A service that is at work leaves the others as they are.
LEMMA StepKeepsMocksInv == MocksInv /\ [MocksNext]_mockVars => MocksInv'
<1>1. MocksInv /\ [NextSerial]_vars => (SerialInv /\ TypeOK)'
  BY StepKeepsSerialInv, StepKeepsConnectionTypes DEF MocksInv
<1>2. MocksInv /\ [SpacedGrains]_grainVars => GrainsInv'
  BY StepKeepsGrainsInv, NoStepKeepsGrainsInv DEF MocksInv
<1>3. MocksInv /\ [NextController]_subscriptionVars => (ControllerInv /\ SubscriptionsTypeOK)'
  BY StepKeepsControllerInv, StepKeepsSubscriptionTypes DEF MocksInv
<1>4. MocksInv /\ [PagingNext]_pagingVars => PagingInv'
  BY StepKeepsPagingInv DEF MocksInv
<1>5. [MocksNext]_mockVars =>
          /\ [NextSerial]_vars /\ [SpacedGrains]_grainVars
          /\ [NextController]_subscriptionVars /\ [PagingNext]_pagingVars
  BY DEF MocksNext, mockVars, connectionVars, OfNode, OfGrains, OfSubscriptions, OfPaging
<1> QED
  BY <1>1, <1>2, <1>3, <1>4, <1>5 DEF MocksInv

\* When nothing is under way, every client of a subscription's websocket knows
\* exactly the resources that match, each with its last content, however requests,
\* sync grains, connections and deliveries came about before.
THEOREM ClientsSeeWhatMatches == GrainsSpecSpaced => []ViewsAreRight
<1>1. GrainsInv /\ [SpacedGrains]_grainVars => GrainsInv'
  BY StepKeepsGrainsInv, NoStepKeepsGrainsInv
<1> QED
  BY InitGrainsInv, <1>1, GrainsInvShows, PTL DEF GrainsSpecSpaced

\* A controller that follows the links "next" to their end knows every resource as
\* it is, whatever was updated on the way.
THEOREM ForwardWalksAreComplete == PagingSpec => []ForwardWalkIsComplete
<1>1. PagingInv => ForwardWalkIsComplete
  BY PagingInvWalks
<1> QED
  BY InitPagingInv, StepKeepsPagingInv, <1>1, PTL DEF PagingSpec

\* One that follows the links "prev" knows every resource that was not updated on the
\* way, if no two resources shared a version when it began.
THEOREM BackwardWalksAreComplete == PagingSpec => []BackwardWalkIsComplete
<1>1. PagingInv => BackwardWalkIsComplete
  BY PagingInvWalks
<1> QED
  BY InitPagingInv, StepKeepsPagingInv, <1>1, PTL DEF PagingSpec

\* The services together keep what each one promises alone.
THEOREM MocksKeepTheirPromises ==
    MocksSpec => [](/\ RegistryAgrees /\ OfflineStaysOffline /\ ViewsAreRight
                    /\ RepliesAreServed /\ NoChangeIsMissed /\ PortsAreFree
                    /\ ForwardWalkIsComplete /\ BackwardWalkIsComplete)
<1>1. MocksInv => /\ RegistryAgrees /\ OfflineStaysOffline /\ ViewsAreRight
                  /\ RepliesAreServed /\ NoChangeIsMissed /\ PortsAreFree
                  /\ ForwardWalkIsComplete /\ BackwardWalkIsComplete
  BY GrainsInvShows, PagingInvWalks DEF MocksInv, SerialInv, Settled, ControllerInv
<1> QED
  BY InitMocksInv, StepKeepsMocksInv, <1>1, PTL DEF MocksSpec

\* The states of all services are well formed.
THEOREM MocksAreWellFormed == MocksSpec => []MocksTypeOK
<1>1. MocksInv => MocksTypeOK
  BY DEF MocksInv, GrainsInv, PagingInv, MocksTypeOK
<1> QED
  BY InitMocksInv, StepKeepsMocksInv, <1>1, PTL DEF MocksSpec
=============================================================================
