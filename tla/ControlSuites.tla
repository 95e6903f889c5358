--------------------------- MODULE ControlSuites ---------------------------
(***************************************************************************)
(* The suites of MS-05, IS-14 and BCP-008, each at work on a device of its *)
(* own, and the IS-12 client that they send commands with, to a device     *)
(* that may be late with its replies.                                      *)
(***************************************************************************)
EXTENDS Suite, Integers

CONSTANTS
    Root, Members, ClassOf, Features, Manager, Vendor, Exhaustive,    \* MS-05: DeviceModelTests
    Limits, Widths, MaxSize, Stored, Sequences, ReadOnly,             \* PropertyTests
    Listed, Up, New, Rebuildables, Constrained, Stray, Invasive,      \* IS-14: BackupTests
    Monitors, Latency, Delay,                                         \* BCP-008: MonitorTests
    Requests, Kinds, Late                                             \* IS-12: ControlClient

VARIABLES suite, handle, pending, expect, results, outcome, log, asked, inbox, open, told, lost

D == INSTANCE DeviceModelTests
P == INSTANCE PropertyTests WITH Original <- Stored
B == INSTANCE BackupTests
M == INSTANCE MonitorTests
K == INSTANCE ControlClient

clientVars == <<handle, pending, expect, results, outcome, log, asked, inbox, open, told, lost>>

controlVars == <<suite, suiteVars, clientVars>>

ASSUME ControlAssumption ==
    /\ Attempts \in Nat
    /\ D!DeviceModelTestsAssumption /\ P!PropertyTestsAssumption /\ B!BackupTestsAssumption
    /\ M!MonitorTestsAssumption /\ K!ControlClientAssumption

-----------------------------------------------------------------------------

NoSuite == at = Position(<<>>) /\ device = <<>> /\ noted = <<>> /\ verdict = <<>>

ControlInit ==
    /\ K!Init
    /\ \/ suite = "model" /\ D!Init
       \/ suite = "properties" /\ P!Init
       \/ suite = "backup" /\ B!Init
       \/ suite = "monitors" /\ M!Init
       \/ suite = "client" /\ NoSuite

ControlNext ==
    /\ UNCHANGED suite
    /\ \/ suite = "model" /\ D!Next /\ UNCHANGED clientVars
       \/ suite = "properties" /\ P!Next /\ UNCHANGED clientVars
       \/ suite = "backup" /\ B!Next /\ UNCHANGED clientVars
       \/ suite = "monitors" /\ M!Next /\ UNCHANGED clientVars
       \/ suite = "client" /\ K!Next /\ UNCHANGED suiteVars

ControlSpec == ControlInit /\ [][ControlNext]_controlVars

-----------------------------------------------------------------------------
(* What the suites promise, each of its own runs.                           *)

ControlTypeOK ==
    /\ K!TypeOK
    /\ CASE suite = "model" -> D!TypeOK [] suite = "properties" -> P!TypeOK
         [] suite = "backup" -> B!TypeOK [] suite = "monitors" -> M!TypeOK
         [] suite = "client" -> NoSuite

\* No suite fails a device that follows its specification, but where the suite itself is
\* to blame.  A request that is not answered costs a test (IS-14 and BCP-008; nothing is said
\* of MS-05's writing tests then).  test_29 of MS-05 has no valid value for a maximum of 0 or
\* a negative one without a minimum, nor without a maximum for a datatype or a minimum that
\* half of sys.maxsize does not suit (P!Proper); test_26 is right of limits that do not widen.
\* BCP-008 misjudges two notifications of one change on both sides of the delay's end (M!Clear).
ConformingDevicesPass ==
    CASE suite = "model" -> D!ConformingModelPasses
      [] suite = "properties" -> P!ConformingPropertiesPass
      [] suite = "backup" -> B!ConformingDevicePasses
      [] suite = "monitors" -> M!ConformingMonitorPasses
      [] OTHER -> TRUE

\* What a suite is there to find, a run of it finds.
MistakesAreFound ==
    CASE suite = "model" -> D!ModelMistakesAreFound
      [] suite = "properties" -> P!PropertyMistakesAreFound
      [] suite = "backup" -> B!BackupMistakesAreFound
      [] suite = "monitors" -> M!MonitorMistakesAreFound
      [] OTHER -> TRUE

\* What a walk through the device model notes as wrong is so, though the lists it
\* compares with outlive the walk (MS-05).
ErrorsAreReal == suite = "model" => D!ErrorsAreReal

\* MS-05 and IS-14 set values and blocks back over many requests: a device that takes what
\* it may take, and of which no request is lost, is as it was once the run (MS-05) or the
\* test (IS-14, no rebuildable block within another) is over.  What an exception in between
\* leaves behind is not restored.  BCP-008 restores nothing: between its tests no
\* resource is active that was not at first, but for the one of a lost request, those that
\* were active are left inactive, and what was set of a monitor stays set.
RestoredOrReleased ==
    /\ suite = "properties" => P!DeviceIsRestored
    /\ suite = "backup" => B!DeviceIsLeftAsFound
    /\ suite = "monitors" => M!ResourcesAreReleased

\* send_command never returns another request's reply, if only those to commands come
\* late (IS-12).
AnswersAreMatched == K!AnswersAreMatched

\* Each notification that comes while they are logged is in the log or still in the
\* socket (IS-12).
NotificationsAreKept == K!NotificationsAreKept
=============================================================================
