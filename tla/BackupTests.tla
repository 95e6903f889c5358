---------------------------- MODULE BackupTests ----------------------------
(***************************************************************************)
(* Backup and restore of a device model (nmostesting/suites/IS1401Test.py, *)
(* test_15 to test_27).  A data set holds the values of properties of some *)
(* objects.  The device restores it (PUT) or says what it would do (PATCH), *)
(* to one object or to all below it; with a validation for each object and *)
(* a notice for each property it does not set.                             *)
(*                                                                         *)
(* An object has a label, which may be written, a fixed value and, if it   *)
(* is a block, members; these two only a rebuild may change.               *)
(***************************************************************************)
EXTENDS Suite

CONSTANTS
    Root,          \* the root block
    Up,            \* the block of each object, those to be added included
    Listed,        \* the objects in the order of a data set
    New,           \* what may be added to a block
    Rebuildables,  \* the sets of objects that may be rebuildable
    Constrained,   \* the objects whose label is constrained
    Stray,         \* a path of no object
    Invasive       \* MS05_INVASIVE_TESTING

Universe == Range(Listed)
Block == DOMAIN New
Original == Universe \ Range(New)
Prop == {"label", "fixed", "members"}

\* An object and all that is below it: the target is in every set of blocks that has
\* the object's own block and, with each block, the one that it is in.
BelowOf ==
    [target \in Universe |->
        {o \in Universe : o = target \/ (o # Root /\ \A S \in SUBSET Block :
            Up[o] \in S /\ (\A b \in S \ {Root} : Up[b] \in S) => target \in S)}]

BackupTestsAssumption ==
    /\ Root \in Block /\ Block \subseteq Original /\ Stray \notin Universe
    /\ Up \in [Universe \ {Root} -> Block] /\ BelowOf[Root] = Universe
    /\ New \in [Block -> Universe] /\ \A b \in Block : Up[New[b]] = b
    /\ Listed \in Seq(Universe) /\ IsInjective(Listed)
    /\ Rebuildables \subseteq SUBSET (Original \ {Root})

\* No value that a property could have.
Incorrect == 3

WalkTests == <<"test_15", "test_16", "test_17", "test_18", "test_19", "test_20">>
RestoreTests == {"test_21", "test_22", "test_23"}
BlockTests == {"test_24", "test_25"}
Order == WalkTests \o <<"test_21", "test_22", "test_23", "test_24", "test_25", "test_26", "test_27">>

\* The six results that the walk notes, and the own one of each test after it.
Result == {"validate type", "restore type", "validate objects", "restore objects",
           "validate modifies", "restore modifies", "own"}

TypeOK ==
    /\ device.label \in [Universe -> 0..Incorrect] /\ device.fixed \in [Universe -> 0..2]
    /\ device.has \subseteq Universe
    /\ noted.errors \cup noted.checked \cup noted.warnings \subseteq Result
    /\ noted.done \in BOOLEAN /\ noted.target \in Block
    /\ DOMAIN noted.data \cup DOMAIN noted.original \subseteq Universe \X Prop
    /\ \A t \in DOMAIN verdict : verdict[t] \in Verdict

-----------------------------------------------------------------------------
(* The device and its data sets.                                            *)

MembersOf(d, b) == {o \in d.has : o # Root /\ Up[o] = b}
PropsOf(o) == {"label", "fixed"} \cup (IF o \in Block THEN {"members"} ELSE {})
ValueOf(d, o, p) ==
    CASE p = "label" -> d.label[o] [] p = "fixed" -> d.fixed[o] [] OTHER -> MembersOf(d, o)

\* The answer to GET bulkProperties: a data set of the object and all below it.
Backup(d, target) ==
    [k \in {k \in (BelowOf[target] \cap d.has) \X Prop : k[2] \in PropsOf(k[1])} |->
        ValueOf(d, k[1], k[2])]

ObjectsOf(data) == {k[1] : k \in DOMAIN data}
Only(data, keys) == [k \in DOMAIN data \cap keys |-> data[k]]
Without(data, keys) == [k \in DOMAIN data \ keys |-> data[k]]

\* What the device sets of a data set, and what it gives notice of.
InScope(d, data, target, recurse) ==
    LET below == recurse # (d.mistake = <<"depth", recurse>>)
    IN  {k \in DOMAIN data : k[1] = target \/ (below /\ k[1] \in BelowOf[target])}
Accepts(d, k, value, rebuild) ==
    IF k[1] \notin d.has THEN rebuild /\ d.structure
    ELSE CASE k[2] = "label" ->
                k[1] \notin d.locked /\ (value # Incorrect \/ d.mistake = <<"lenient", k[1]>>)
           [] k[2] = "fixed" -> rebuild /\ k[1] \in d.rebuildable
           [] OTHER -> rebuild /\ d.structure /\ k[1] \in d.rebuildable
Differs(d, k, value) == k[1] \notin d.has \/ value # ValueOf(d, k[1], k[2])
NoticesOf(d, data, target, rebuild, recurse) ==
    {k \in InScope(d, data, target, recurse) :
        Differs(d, k, data[k]) /\ ~Accepts(d, k, data[k], rebuild)}
Ignored(d, k) == d.mistake = <<"deaf", k[1], k[2]>>

\* The objects after a restore: one that a block's members leave out is gone, with all below.
HasAfter(d, data, set) ==
    LET blocks == {k[1] : k \in {k \in set : k[2] = "members"}}
        come == UNION {data[<<b, "members">>] : b \in blocks}
        gone == UNION {MembersOf(d, b) \ data[<<b, "members">>] : b \in blocks}
        has == (d.has \cup come) \ gone
    IN  {o \in has : \A b \in Block : o \in BelowOf[b] => b \in has}

Restored(d, data, target, rebuild, recurse) ==
    LET set == {k \in InScope(d, data, target, recurse) :
                   Accepts(d, k, data[k], rebuild) /\ ~Ignored(d, k)}
        has == HasAfter(d, data, set)
        Value(o, p, old) == IF <<o, p>> \in set /\ o \in has THEN data[<<o, p>>] ELSE old
    IN  [d EXCEPT
            !.has = IF d.mistake[1] = "drops" /\ ~rebuild THEN has \ {d.mistake[2]} ELSE has,
            !.label = [o \in Universe |-> Value(o, "label", @[o])],
            !.fixed = [o \in Universe |-> Value(o, "fixed", @[o])]]

\* The validations: their paths with a status each, and the notices.
Answer(d, data, target, rebuild, recurse) ==
    LET scope == {k[1] : k \in InScope(d, data, target, recurse)}
        told == CASE d.mistake[1] = "untold" -> scope \ {d.mistake[2]}
                  [] d.mistake[1] = "surplus" -> scope \cup {Stray}
                  [] OTHER -> scope
    IN  [status |-> [o \in told |-> CASE d.mistake = <<"status", o, "error">> -> 500
                                      [] d.mistake = <<"status", o, "failed">> -> 400
                                      [] OTHER -> 200],
         notices |-> NoticesOf(d, data, target, rebuild, recurse)]

\* After a PATCH, as it should be and as it may be.
Validated(d, data, target, rebuild, recurse) ==
    IF d.mistake[1] = "validates" THEN Restored(d, data, target, rebuild, recurse) ELSE d

\* An unsound device model is not as MS-05-02 has it, restored or not.
Mistake ==
    {<<"none">>, <<"validates">>, <<"unsound">>, <<"surplus">>, <<"depth", TRUE>>, <<"depth", FALSE>>}
    \cup {<<kind, o>> : kind \in {"untold", "lenient", "drops"}, o \in Original \ {Root}}
    \cup {<<"status", o, status>> : o \in Original, status \in {"error", "failed"}}
    \cup {<<"deaf", o, p>> : o \in Original, p \in Prop}

-----------------------------------------------------------------------------
(* What the suite makes of the answers.                                     *)

\* _check_object_properties_set_validations.
ObjectsWrong(data, answer, target, recurse) ==
    LET expected == {o \in ObjectsOf(data) : recurse \/ o = target}
        told == DOMAIN answer.status
    IN  \/ Cardinality(expected) # Cardinality(told)
        \/ ~(told \subseteq ObjectsOf(data))
        \/ \E o \in told : answer.status[o] = 500
Warned(answer) == \E o \in DOMAIN answer.status : answer.status[o] = 400

\* Lists are compared by their lengths.
Same(p, x, y) == IF p = "members" THEN Cardinality(x) = Cardinality(y) ELSE x = y

\* Fault: properties with a notice are compared as well.
ComparedFault(updated, notices) == DOMAIN updated

Compared(updated, notices) == DOMAIN updated \ notices

\* _compare_backup_datasets: not updated, or updated unexpectedly.
CompareFails(original, applied, updated, target, notices, recurse, validate) ==
    \E k \in Compared(updated, notices) \cap DOMAIN applied :
        \/ (k[1] = target \/ recurse) /\ ~validate /\ ~Same(k[2], applied[k], updated[k])
        \/ validate /\ k \notin DOMAIN original
        \/ /\ validate \/ (~recurse /\ k[1] # target)
           /\ k \in DOMAIN original /\ ~Same(k[2], original[k], updated[k])

Book(errors, checked, warnings) ==
    [noted EXCEPT !.errors = @ \cup errors, !.checked = @ \cup checked, !.warnings = @ \cup warnings]
If(cond, result) == IF cond THEN {result} ELSE {}

\* A new string for a label, another value for a fixed one.
Changed(v) == IF v = 1 THEN 2 ELSE 1

Untouched == [label |-> [o \in Universe |-> 0], fixed |-> [o \in Universe |-> 0], has |-> Original]
LeftAsFound == \A f \in DOMAIN Untouched :
    IF f = "has" THEN device.has = Original
    ELSE \A o \in Original : device[f][o] = Untouched[f][o]

NothingNoted ==
    [errors |-> {}, checked |-> {}, warnings |-> {}, done |-> FALSE, target |-> Root,
     first |-> <<>>, original |-> <<>>, data |-> <<>>]

Devices ==
    {[label |-> Untouched.label, fixed |-> Untouched.fixed, has |-> Original, mistake |-> m,
      rebuildable |-> r, locked |-> l, structure |-> st, loses |-> ls] :
        m \in Mistake, r \in Rebuildables, l \in {{}, {Root}}, st \in BOOLEAN,
        ls \in {"nothing", "one"}}

Init ==
    /\ \E plan \in Plans(Order) : at = Position(plan)
    /\ device \in {d \in Devices :
            /\ d.loses = "one" => d.mistake = <<"none">>
            /\ d.loses = "one" \/ d.mistake # <<"none">> => d.structure /\ d.locked = {}}
    /\ noted = NothingNoted
    /\ verdict = NoVerdicts(Order)

SetUp ==
    /\ On({"set_up_tests"}, "begin") /\ Conclude("PASS")
    /\ noted' = NothingNoted /\ UNCHANGED device
TearDown == On({"tear_down_tests"}, "begin") /\ Conclude("PASS") /\ UNCHANGED <<device, noted>>

-----------------------------------------------------------------------------
(* test_15 to test_20: one walk, over all paths with and without recursion. *)

Walking == Range(WalkTests)

\* The root comes last.
Paths ==
    LET targets == Append(Select(Listed, device.has \ {Root}), Root)
    IN  [n \in 1..2 * Len(targets) |-> <<targets[(n + 1) \div 2], n % 2 = 1>>]

WalkBegins ==
    /\ On(Walking, "begin") /\ ~noted.done
    /\ noted' = [noted EXCEPT !.first = Backup(device, Root)]
    /\ Visit(Paths) /\ UNCHANGED device

\* A path's turn ends; the last one is followed by the restore of everything.
NextPath ==
    IF Len(at.todo) = 1 THEN Goto("reset")
    ELSE at' = [at EXCEPT !.step = "visit", !.todo = Tail(@)] /\ UNCHANGED verdict

\* The labels' new values are validated, and the labels looked at.
ValidateLabels ==
    /\ On(Walking, "visit") /\ Subject[1] \in device.has
    /\ LET target == Subject[1]  recurse == Subject[2]
           original == Backup(device, target)
           labels == Only(original, Universe \X {"label"})
           data == [k \in DOMAIN labels |-> Changed(labels[k])]
           answer == Answer(device, data, target, FALSE, recurse)
           after == Validated(device, data, target, FALSE, recurse)
           modified == CompareFails(original, data, Backup(after, target), target,
                                    answer.notices, recurse, TRUE)
       IN  /\ device' = after
           /\ noted' = [Book(If(modified, "validate modifies")
                                 \cup If(ObjectsWrong(data, answer, target, recurse), "validate objects"),
                             {"validate type", "validate objects", "validate modifies"}, {})
                        EXCEPT !.original = original, !.data = data]
           /\ IF "validate modifies" \in noted'.errors THEN NextPath ELSE Goto("restore")

\* There is no such object any more.
NotFound ==
    /\ On(Walking, "visit") /\ Subject[1] \notin device.has
    /\ Conclude("FAIL") /\ UNCHANGED <<device, noted>>

\* Then they are restored, and looked at again.
RestoreLabels ==
    /\ On(Walking, "restore")
    /\ LET target == Subject[1]  recurse == Subject[2]  data == noted.data
           answer == Answer(device, data, target, FALSE, recurse)
           after == Restored(device, data, target, FALSE, recurse)
           failed == CompareFails(noted.original, data, Backup(after, target), target,
                                  answer.notices, recurse, FALSE)
       IN  /\ device' = after
           /\ noted' = Book(If(failed, "restore modifies")
                                \cup If(ObjectsWrong(data, answer, target, recurse), "restore objects"),
                            {"restore type", "restore objects", "restore modifies"}, {})
           /\ IF target \in after.has THEN NextPath ELSE Conclude("FAIL")

Reset ==
    /\ On(Walking, "reset")
    /\ device' = Restored(device, noted.first, Root, FALSE, TRUE)
    /\ noted' = [noted EXCEPT !.done = TRUE, !.checked = @ \cup {"restore type"}]
    /\ Goto("begin")

\* The results of test_15 and test_16 are never wrong: a wrong type raises an exception.
Judged(test) ==
    CASE test = "test_15" -> <<"validate type", "validate objects">>
      [] test = "test_16" -> <<"restore type", "restore type">>
      [] test = "test_17" -> <<"validate objects", "validate objects">>
      [] test = "test_18" -> <<"restore objects", "restore objects">>
      [] test = "test_19" -> <<"validate modifies", "validate modifies">>
      [] test = "test_20" -> <<"restore modifies", "restore modifies">>

JudgeWalk ==
    /\ On(Walking, "begin") /\ noted.done
    /\ LET judged == Judged(Head(at.plan))
       IN  Conclude(IF judged[1] \in noted.errors THEN "FAIL"
                    ELSE IF judged[2] \notin noted.checked THEN "UNCLEAR" ELSE "PASS")
    /\ UNCHANGED <<device, noted>>

-----------------------------------------------------------------------------
(* test_21 to test_23: everything that may be changed is, and changed back. *)

OwnResult ==
    IF "own" \in noted.errors THEN "FAIL"
    ELSE IF "own" \in noted.warnings THEN "WARNING"
    ELSE IF "own" \notin noted.checked THEN "UNCLEAR" ELSE "PASS"
Rebuild == Head(at.plan) # "test_21"
Anew == [noted EXCEPT !.errors = @ \ {"own"}, !.checked = @ \ {"own"}, !.warnings = @ \ {"own"}]

NotInvasive ==
    /\ On(RestoreTests \cup BlockTests, "begin") /\ ~Invasive
    /\ Conclude("DISABLED") /\ UNCHANGED <<device, noted>>

\* The values that the test is about, changed, and validated at the root.
UnderTest(test) ==
    CASE test = "test_21" -> Universe \X {"label"}
      [] test = "test_22" -> (Universe \ device.rebuildable) \X {"label"}
      [] test = "test_23" -> (device.rebuildable \ Block) \X {"fixed"}

ValidateAll ==
    /\ On(RestoreTests, "begin") /\ Invasive
    /\ LET original == Backup(device, Root)
           values == Only(original, UnderTest(Head(at.plan)))
           data == [k \in DOMAIN values |-> Changed(values[k])]
           answer == Answer(device, data, Root, Rebuild, TRUE)
           left == Without(data, answer.notices)
       IN  /\ device' = IF DOMAIN data = {} THEN device ELSE Validated(device, data, Root, Rebuild, TRUE)
           /\ noted' = [Anew EXCEPT !.original = original, !.data = left]
           /\ IF DOMAIN left # {} THEN Goto("restore")
              ELSE IF Rebuild THEN Goto("model") ELSE Conclude("UNCLEAR")

\* The members of the blocks among the restored objects, against those known before.
StructureChanged(now) ==
    \E b \in Block \cap ObjectsOf(noted.data) : MembersOf(now, b) # noted.original[<<b, "members">>]

RestoreAll ==
    /\ On(RestoreTests, "restore")
    /\ LET data == noted.data
           answer == Answer(device, data, Root, Rebuild, TRUE)
           after == Restored(device, data, Root, Rebuild, TRUE)
           failed == \/ ObjectsWrong(data, answer, Root, TRUE)
                     \/ CompareFails(noted.original, data, Backup(after, Root), Root,
                                     answer.notices, TRUE, FALSE)
       IN  /\ device' = after
           /\ noted' = Book(If(failed, "own"), {"own"}, If(Warned(answer), "own"))
           /\ IF ~Rebuild /\ StructureChanged(after) THEN Conclude("FAIL") ELSE Goto("undo")

Undo ==
    /\ On(RestoreTests, "undo")
    /\ device' = Restored(device, noted.original, Root, Rebuild, TRUE)
    /\ (IF Rebuild THEN Goto("model") ELSE Conclude(OwnResult)) /\ UNCHANGED noted

\* After a rebuild the device model is read anew and checked; an error of it comes before
\* all that the restore has shown.
CheckModel ==
    /\ On(RestoreTests, "model")
    /\ Conclude(IF device.mistake = <<"unsound">> THEN "FAIL" ELSE OwnResult)
    /\ UNCHANGED <<device, noted>>

-----------------------------------------------------------------------------
(* test_24 and test_25: a member of a rebuildable block is removed, added.  *)

BlockBegins ==
    /\ On(BlockTests, "begin") /\ Invasive
    /\ LET original == Backup(device, Root)
           blocks == Select(Listed, Block \cap device.rebuildable \cap device.has)
       IN  /\ noted' = [Anew EXCEPT !.original = original, !.data = original, !.target = Root]
           /\ at' = [at EXCEPT !.step = "visit", !.todo = blocks]
    /\ UNCHANGED <<device, verdict>>

Children(b) == Select(Listed, ObjectsOf(noted.data) \cap (BelowOf[b] \ {b}))
Suits(b) == b \in ObjectsOf(noted.data) /\ Children(b) # <<>>
NextBlock == at' = [at EXCEPT !.step = "visit", !.todo = Tail(@)] /\ UNCHANGED verdict

\* What is left of the data set: the block and what is below it, without its first child or
\* with another one like it.
Modified(b, test) ==
    LET child == Children(b)[1]  members == noted.data[<<b, "members">>]
        mine == Only(noted.data, BelowOf[b] \X Prop)
        Like(o) == IF o = New[b] THEN child ELSE o
    IN  IF test = "test_24"
        THEN [Without(mine, {child} \X Prop) EXCEPT ![<<b, "members">>] = members \ {child}]
        ELSE [k \in DOMAIN mine \cup ({New[b]} \X (Prop \ {"members"})) |->
                 IF k = <<b, "members">> THEN members \cup {New[b]}
                 ELSE IF k[1] = New[b] THEN noted.data[<<child, k[2]>>] ELSE mine[k]]

SkipBlock ==
    /\ On(BlockTests, "visit") /\ at.todo # <<>> /\ ~Suits(Subject)
    /\ NextBlock /\ UNCHANGED <<device, noted>>

\* Problems that the validation tells of are booked, but the restore is tried all the same.
ValidateBlock ==
    /\ On(BlockTests, "visit") /\ at.todo # <<>> /\ Suits(Subject)
    /\ LET b == Subject  data == Modified(b, Head(at.plan))
           answer == Answer(device, data, b, TRUE, TRUE)
           after == Validated(device, data, b, TRUE, TRUE)
           changed == CompareFails(noted.original, data, Backup(after, b), b,
                                   answer.notices, TRUE, TRUE)
           wrong == <<b, "members">> \notin answer.notices
                    /\ \E o \in DOMAIN answer.status : answer.status[o] # 200
       IN  /\ device' = after
           /\ noted' = [Book(If(changed \/ wrong, "own"), {"own"}, {}) EXCEPT
                            !.data = data, !.target = b]
           /\ Goto(IF changed THEN "undo" ELSE "restore")

RestoreBlock ==
    /\ On(BlockTests, "restore")
    /\ LET b == Subject  data == noted.data
           answer == Answer(device, data, b, TRUE, TRUE)
           after == Restored(device, data, b, TRUE, TRUE)
           failed == \/ ObjectsWrong(data, answer, b, TRUE)
                     \/ CompareFails(noted.original, data, Backup(after, b), b,
                                     answer.notices, TRUE, FALSE)
       IN  /\ device' = after
           /\ noted' = Book(If(failed, "own"), {"own"}, If(Warned(answer), "own"))
           /\ IF "own" \in noted'.errors THEN Goto("undo") ELSE NextBlock

\* The device is restored at the block that was visited last.
UndoBlocks ==
    /\ On(BlockTests, "undo") \/ (On(BlockTests, "visit") /\ at.todo = <<>>)
    /\ device' = Restored(device, noted.original, noted.target, TRUE, TRUE)
    /\ noted' = Book({}, {"own"}, {})
    /\ Conclude(IF "own" \in noted.errors THEN "FAIL"
                ELSE IF "own" \in noted.warnings THEN "WARNING" ELSE "PASS")

-----------------------------------------------------------------------------
(* test_26 and test_27: incorrect values, only validated.                   *)

IncorrectOf(test) == IF test = "test_26" THEN Universe \X {"label"} ELSE Constrained \X {"label"}

IncorrectValues ==
    /\ On({"test_26", "test_27"}, "begin")
    /\ LET labels == Only(Backup(device, Root), IncorrectOf(Head(at.plan)))
           data == [k \in DOMAIN labels |-> Incorrect]
           answer == Answer(device, data, Root, FALSE, TRUE)
       IN  IF DOMAIN data = {} THEN Conclude("UNCLEAR") /\ UNCHANGED device
           ELSE /\ Conclude(IF DOMAIN data \subseteq answer.notices THEN "PASS" ELSE "FAIL")
                /\ device' = Validated(device, data, Root, FALSE, TRUE)
    /\ UNCHANGED noted

-----------------------------------------------------------------------------

\* What the request that is being sent does to the device.
Sent ==
    CASE On(Walking, "restore") -> Restored(device, noted.data, Subject[1], FALSE, Subject[2])
      [] On(Walking, "reset") -> Restored(device, noted.first, Root, FALSE, TRUE)
      [] On(RestoreTests, "restore") -> Restored(device, noted.data, Root, Rebuild, TRUE)
      [] On(RestoreTests, "undo") -> Restored(device, noted.original, Root, Rebuild, TRUE)
      [] On(BlockTests, "restore") -> Restored(device, noted.data, Subject, TRUE, TRUE)
      [] On(BlockTests, "undo") -> Restored(device, noted.original, noted.target, TRUE, TRUE)
      [] OTHER -> device

\* A request, or its answer, is lost: the exception ends the test where it is.
AnswerLost ==
    /\ ~Ended /\ Head(at.plan) \in Range(Order) /\ device.loses = "one"
    /\ ~(Head(at.plan) \in Walking /\ at.step = "begin" /\ noted.done)
    /\ ~(On(RestoreTests \cup BlockTests, "begin") /\ ~Invasive)
    /\ \E d \in {device, Sent} : device' = [d EXCEPT !.loses = "lost"]
    /\ Conclude("FAIL") /\ UNCHANGED noted

Next ==
    \/ SetUp \/ TearDown \/ WalkBegins \/ NotFound \/ ValidateLabels \/ RestoreLabels \/ Reset \/ JudgeWalk
    \/ NotInvasive \/ ValidateAll \/ RestoreAll \/ Undo \/ CheckModel
    \/ BlockBegins \/ SkipBlock \/ ValidateBlock \/ RestoreBlock \/ UndoBlocks
    \/ IncorrectValues \/ AnswerLost

Spec == Init /\ [][Next]_suiteVars

-----------------------------------------------------------------------------

Failed == {t \in DOMAIN verdict : verdict[t] = "FAIL"}

\* A device that restores as IS-14 says is not failed, whatever is rebuildable in it and
\* whatever it gives notice of; a lost answer costs one test, though a walk that was broken
\* off leaves its labels behind and is done again.
ConformingDevicePasses ==
    device.mistake = <<"none">> => Cardinality(Failed) <= IF device.loses = "lost" THEN 1 ELSE 0

Nested == \E b, c \in device.rebuildable \cap Block : b # c /\ c \in BelowOf[b]

\* Whenever a test begins, the device is as it was before the first one: whatever the tests
\* before it have changed is changed back, if the device does what it is asked and nothing is
\* lost, and no rebuildable block holds another.
DeviceIsLeftAsFound ==
    (Ended \/ at.step = "begin") /\ device.mistake = <<"none">> /\ device.loses # "lost"
        /\ ~Nested => LeftAsFound

\* What is mistaken is found, by each of the tests that are about it, unless rebuildable
\* blocks hold one another.  A member that is lost in the walk ends it.
Finders(m) ==
    CASE m = <<"validates">> -> {"test_19"}
      [] m = <<"unsound">> -> {"test_22", "test_23"}
      [] m[1] \in {"surplus", "untold"} -> {"test_17", "test_18"}
      [] m[1] = "depth" -> {"test_20"}
      [] m[1] = "status" -> IF m[3] = "error" THEN {"test_17", "test_18"} ELSE {"test_21"}
      [] m[1] = "deaf" ->
           CASE m[3] = "label" -> {"test_20", "test_21"}
             [] m[3] = "fixed" -> IF m[2] \in device.rebuildable \ Block THEN {"test_23"} ELSE {}
             [] OTHER -> IF m[2] \in device.rebuildable \cap Block THEN BlockTests ELSE {}
      [] m[1] = "lenient" -> {"test_26"} \cup (IF m[2] \in Constrained THEN {"test_27"} ELSE {})
      [] m[1] = "drops" -> {"test_15"}
      [] OTHER -> {}
BackupMistakesAreFound ==
    ~Nested => \A t \in Finders(device.mistake) : verdict[t] \in {"none", "FAIL", "WARNING"}

\* Rebuildable blocks that hold one another are changed back as well ("Restore the original
\* bulk properties holder").
NestedBlocksAreRestored ==
    Ended /\ device.mistake = <<"none">> /\ device.loses # "lost" => LeftAsFound
=============================================================================
