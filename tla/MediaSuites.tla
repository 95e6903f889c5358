---------------------------- MODULE MediaSuites ----------------------------
(***************************************************************************)
(* The suites of IS-04, IS-05, IS-07, IS-08 and IS-11, each at work on a   *)
(* registry or device of its own.                                          *)
(***************************************************************************)
EXTENDS Suite

CONSTANTS
    Sender, InputsOf, Video, BaseEdid, Reads,              \* IS-11: ConstraintTests
    MediaInput, Connected, Edid, Base, Adjust, NoInput,    \* EdidTests, with the same Senders
    Receiver, Output, OutputsOf, FormatOf, RefSender, NoSender,     \* ReceiverTests
    PortSenders, PortReceivers, Allowed, Tries,            \* IS-05: ConnectionTests
    UpdatedSenders, UpdatedReceivers, Rtp,                 \* IS-04 and IS-05: UpdateTests
    Types, Parent, Collection, WsTimeout, Auth, Posts,     \* IS-04: RegistryTests, PagingTests
    MapInputs, MapOutputs, Width, BlockSize, Reorders, Routable,    \* IS-08: MappingTests
    Sources, Uris, MqttSources, Statusless, ReplyTime, Slack        \* IS-07: EventTests

VARIABLE suite

mediaVars == <<suite, suiteVars>>

C == INSTANCE ConstraintTests
E == INSTANCE EdidTests WITH Input <- MediaInput
R == INSTANCE ReceiverTests
P == INSTANCE ConnectionTests WITH Senders <- PortSenders, Receivers <- PortReceivers
U == INSTANCE UpdateTests WITH Senders <- UpdatedSenders, Receivers <- UpdatedReceivers
G == INSTANCE RegistryTests
T == INSTANCE PagingTests
M == INSTANCE MappingTests WITH Inputs <- MapInputs, Outputs <- MapOutputs, Block <- BlockSize
V == INSTANCE EventTests WITH Reply <- ReplyTime

ASSUME MediaAssumption ==
    /\ Attempts \in Nat
    /\ C!ConstraintTestsAssumption /\ E!EdidTestsAssumption /\ R!ReceiverTestsAssumption
    /\ P!ConnectionTestsAssumption /\ U!UpdateTestsAssumption /\ G!RegistryTestsAssumption
    /\ T!PagingTestsAssumption /\ M!MappingTestsAssumption /\ V!EventTestsAssumption

-----------------------------------------------------------------------------

MediaInit ==
    \/ suite = "constraints" /\ C!Init
    \/ suite = "edid" /\ E!Init
    \/ suite = "receivers" /\ R!Init
    \/ suite = "connection" /\ P!Init
    \/ suite = "updates" /\ U!Init
    \/ suite = "registry" /\ G!Init
    \/ suite = "paging" /\ T!Init
    \/ suite = "mapping" /\ M!Init
    \/ suite = "events" /\ V!Init

MediaNext ==
    \/ suite = "constraints" /\ C!Next /\ UNCHANGED suite
    \/ suite = "edid" /\ E!Next /\ UNCHANGED suite
    \/ suite = "receivers" /\ R!Next /\ UNCHANGED suite
    \/ suite = "connection" /\ P!Next /\ UNCHANGED suite
    \/ suite = "updates" /\ U!Next /\ UNCHANGED suite
    \/ suite = "registry" /\ G!Next /\ UNCHANGED suite
    \/ suite = "paging" /\ T!Next /\ UNCHANGED suite
    \/ suite = "mapping" /\ M!Next /\ UNCHANGED suite
    \/ suite = "events" /\ V!Next /\ UNCHANGED suite

MediaSpec == MediaInit /\ [][MediaNext]_mediaVars

-----------------------------------------------------------------------------
(* What the suites promise, each of its own runs.                           *)

MediaTypeOK ==
    CASE suite = "constraints" -> C!TypeOK [] suite = "edid" -> E!TypeOK
      [] suite = "receivers" -> R!TypeOK [] suite = "connection" -> P!TypeOK
      [] suite = "updates" -> U!TypeOK [] suite = "registry" -> G!TypeOK
      [] suite = "paging" -> T!TypeOK [] suite = "mapping" -> M!TypeOK
      [] suite = "events" -> V!TypeOK

\* No suite fails a device or registry that follows its specification and keeps to
\* the times the suite allows (the exceptions are named where the parts are stated).
ConformingDevicesPass ==
    CASE suite = "constraints" -> C!ConformingSenderPasses
      [] suite = "edid" -> E!ConformingInputPasses
      [] suite = "receivers" -> R!ConformingReceiverPasses
      [] suite = "connection" -> P!ConformingPortPasses
      [] suite = "updates" -> U!ConformingUpdatesPass
      [] suite = "registry" -> G!ConformingRegistryPasses
      [] suite = "paging" -> T!ConformingPagesPass
      [] suite = "mapping" -> M!ConformingMappingPasses
      [] suite = "events" -> V!ConformingEventsPass

\* A run of a whole suite fails a device or registry for each of the mistakes that
\* the suite is there to find.
MistakesAreFound ==
    CASE suite = "constraints" -> C!SenderMistakesAreFound
      [] suite = "edid" -> E!InputMistakesAreFound
      [] suite = "receivers" -> R!ReceiverMistakesAreSeen
      [] suite = "connection" -> P!PortMistakesAreFound
      [] suite = "updates" -> U!UpdateMistakesAreFound
      [] suite = "registry" -> G!RegistryMistakesAreFound
      [] suite = "paging" -> T!PageMistakesAreFound
      [] suite = "mapping" -> M!MappingMistakesAreFound
      [] suite = "events" -> V!EventMistakesAreFound

\* A run of the IS-11 suite leaves no Active Constraints and no Base EDID of its own
\* on a conforming device, and one of the IS-08 suite no activation that is yet to
\* come, wherever their tests return or fail (but for the exceptions named there).
NothingIsLeft ==
    /\ suite = "constraints" => C!NoConstraintsAreLeft
    /\ suite = "edid" => E!NoEdidIsLeft
    /\ suite = "mapping" => M!NoActivationIsLeft

\* An outcome of an earlier activation is not taken for the one asked for (IS-05).
ActivationIsAwaited == [][suite = "connection" => P!ActivationIsAwaited]_mediaVars

\* A stream test counts a Receiver only while a reference Sender feeds it (IS-11).
StreamsAreReceived == [][suite = "receivers" => R!StreamsAreReceived]_mediaVars
=============================================================================
