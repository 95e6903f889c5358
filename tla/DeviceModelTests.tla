-------------------------- MODULE DeviceModelTests --------------------------
(***************************************************************************)
(* The walk over a device model (nmostesting/suites/MS0501Test.py, the     *)
(* base of the IS-12 and IS-14 suites): the first test that needs it goes  *)
(* through all objects, block by block, and notes what is wrong; the tests *)
(* after it only judge by what was noted.                                  *)
(*                                                                         *)
(* An exception ends a walk, and the next test begins another one; what    *)
(* the broken walk has noted stays.                                        *)
(***************************************************************************)
EXTENDS Suite

CONSTANTS
    Root,       \* the root block, which is not among the objects
    Members,    \* the members of each block, in order
    ClassOf,    \* the class of each object
    Features,   \* what the objects of a class have: sequences, constraints and so on
    Manager,    \* the classes of managers
    Vendor,     \* the classes with an authority key
    Exhaustive  \* MS05_EXHAUSTIVE_TESTING

Object == DOMAIN ClassOf
Block == DOMAIN Members
BlockOf(o) == CHOOSE b \in Block : o \in Range(Members[b])

\* What is checked of each object's own properties, touchpoints and constraints.
Details == {"deprecated", "item", "length", "runtime", "property", "parameter", "hierarchy"}
Kind == Details \cup {"model", "roles", "oids", "organization", "touchpoints", "root", "singletons"}

\* A class that the Class Manager does not know and that has no authority key.
Class == Range(ClassOf) \cup {"stray"}

DeviceModelTestsAssumption ==
    /\ Root \in Block \ Object /\ ClassOf \in [Object -> Class]
    /\ \A b \in Block : Members[b] \in Seq(Object) /\ IsInjective(Members[b])
    /\ \A o \in Object : \E b \in Block : \A c \in Block : o \in Range(Members[c]) <=> c = b
    /\ Manager \subseteq Class /\ Vendor \subseteq Class \ Manager
    /\ Features \in [Range(ClassOf) -> SUBSET (Details \cup {"touchpoints"})]

Order == <<"test_02", "test_03", "test_04", "test_05", "test_06", "test_07", "test_09", "test_10",
           "test_16", "test_17", "test_22", "test_23", "test_25", "test_26">>
Judges ==
    [test_02 |-> "model", test_03 |-> "roles", test_04 |-> "oids", test_05 |-> "organization",
     test_06 |-> "touchpoints", test_07 |-> "deprecated", test_09 |-> "root",
     test_10 |-> "singletons", test_16 |-> "item", test_17 |-> "length", test_22 |-> "runtime",
     test_23 |-> "property", test_25 |-> "parameter", test_26 |-> "hierarchy"]

TypeOK ==
    /\ device.role \in [Object -> Object] /\ device.oid \in [Object -> Object]
    /\ device.owner \in [Object -> Block] /\ device.class \in [Object -> Class]
    /\ noted.errors \cup noted.checked \subseteq Kind /\ noted.classes \subseteq Class
    /\ noted.oids \subseteq Object /\ noted.done \in BOOLEAN
    /\ Range(noted.left) \subseteq {"block"} \X Block \cup {"member"} \X Object
    /\ \A t \in DOMAIN verdict : verdict[t] \in Verdict

-----------------------------------------------------------------------------
(* The device.                                                              *)

Perfect ==
    [role |-> [o \in Object |-> o], oid |-> [o \in Object |-> o],
     owner |-> [o \in Object |-> BlockOf(o)], class |-> ClassOf, wrong |-> {}, loses |-> "nothing"]

\* A role, an object id, an owner or a class of another object, or something wrong
\* with what an object has.  A value that is not of its property's type, "type", makes
\* the check raise an exception.
Mistaken ==
    {[Perfect EXCEPT !.role[o] = p] : o \in Object, p \in Object}
    \cup {[Perfect EXCEPT !.oid[o] = p] : o \in Object, p \in Object}
    \cup {[Perfect EXCEPT !.owner[o] = b] : o \in Object, b \in Block}
    \cup {[Perfect EXCEPT !.class[o] = c] : o \in Object \ Block, c \in {"stray"} \cup Manager}
    \cup {[Perfect EXCEPT !.wrong = {x}] :
              x \in {<<o, "type">> : o \in Object}
                    \cup {x \in Object \X (Details \cup {"touchpoints"}) : x[2] \in Features[ClassOf[x[1]]]}}

Duplicate(key, o) == \E p \in Object \ {o} : key[p] = key[o]
Siblings(o) == Range(Members[BlockOf(o)]) \ {o}

\* What is wrong with a device, as MS-05-02 has it.
Wrong(d) ==
    {k \in Kind :
        CASE k = "roles" -> \E o \in Object : \E p \in Siblings(o) : d.role[p] = d.role[o]
          [] k = "oids" -> \E o \in Object : Duplicate(d.oid, o)
          [] k = "organization" -> \E o \in Object : d.class[o] = "stray"
          [] k = "root" -> \E o \in Object : d.class[o] \in Manager /\ BlockOf(o) # Root
          [] k = "singletons" -> \E o \in Object : d.class[o] \in Manager /\ Duplicate(d.class, o)
          [] k = "model" -> \E o \in Object :
                 d.owner[o] # BlockOf(o) \/ d.class[o] = "stray" \/ <<o, "type">> \in d.wrong
          [] OTHER -> \E o \in Object : <<o, k>> \in d.wrong}

-----------------------------------------------------------------------------
(* The walk.                                                                *)

\* What _check_block has to do for a block: the blocks below first, then the members.
Each(what, objects) == [i \in DOMAIN objects |-> <<what, objects[i]>>]
Checks(b) == Each("block", Select(Members[b], Block)) \o Each("member", Members[b])
\* Fault: with the object itself.
BeforeFault(o) ==
    LET seq == Members[BlockOf(o)] IN {seq[i] : i \in 1..(CHOOSE j \in DOMAIN seq : seq[j] = o)}

\* The members of its block that come before an object.
Before(o) ==
    LET seq == Members[BlockOf(o)] IN {seq[i] : i \in 1..(CHOOSE j \in DOMAIN seq : seq[j] = o) - 1}

\* Whether the object's class is looked at more closely.
Closely(o) == device.class[o] # "stray" /\ (Exhaustive \/ device.class[o] \notin noted.classes)

Only(S, cond) == IF cond THEN S ELSE {}
Has(o) == IF device.class[o] = "stray" THEN {} ELSE Features[device.class[o]]
BadOf(o) == {k \in Kind : <<o, k>> \in device.wrong}

\* A manager is noted by its class among the members of its block.
Again(o) == \E p \in Before(o) : device.class[p] = device.class[o]
ErrorsOf(o) ==
    Only({"roles"}, \E p \in Before(o) : device.role[p] = device.role[o])
    \cup Only({"oids"}, device.oid[o] \in noted.oids)
    \cup Only({"model"}, device.owner[o] # BlockOf(o))
    \cup Only({"root"}, device.class[o] \in Manager /\ device.owner[o] # Root)
    \cup Only({"singletons"}, device.class[o] \in Manager /\ Again(o))
    \cup Only({"model", "organization"}, device.class[o] = "stray")
    \cup (BadOf(o) \cap Only({"touchpoints"}, TRUE))
    \cup (BadOf(o) \cap Only(Details, Closely(o)))
CheckedOf(o) ==
    Only({"roles"}, \A p \in Before(o) : device.role[p] # device.role[o])
    \cup Only({"oids"}, device.oid[o] \notin noted.oids)
    \cup Only({"organization"}, device.class[o] \in Vendor)
    \cup Only({"root", "singletons"}, device.class[o] \in Manager /\ ~Again(o))
    \cup (Has(o) \cap Only({"touchpoints"}, <<o, "touchpoints">> \notin device.wrong))
    \cup (Has(o) \cap Only(Details, Closely(o)))

NothingNoted == [left |-> <<>>, done |-> FALSE, oids |-> {}, classes |-> {}, errors |-> {}, checked |-> {}]

Init ==
    /\ \E plan \in Plans(Order) : at = Position(plan)
    /\ \E d \in {Perfect} \cup Mistaken, loses \in {"nothing", "one"} :
         device = [d EXCEPT !.loses = loses]
    /\ noted = NothingNoted
    /\ verdict = NoVerdicts(Order)

SetUp ==
    /\ On({"set_up_tests"}, "begin") /\ Conclude("PASS")
    /\ noted' = NothingNoted /\ UNCHANGED device
TearDown == On({"tear_down_tests"}, "begin") /\ Conclude("PASS") /\ UNCHANGED <<device, noted>>

Testing == ~Ended /\ Head(at.plan) \in Range(Order)

\* _check_device_model: a walk, unless one has come to its end.
Walk ==
    /\ Testing /\ at.step = "begin" /\ ~noted.done
    /\ noted' = [noted EXCEPT !.left = Checks(Root)]
    /\ Goto("walk") /\ UNCHANGED device

Checking(what) ==
    Testing /\ at.step = "walk" /\ noted.left # <<>> /\ Head(noted.left)[1] = what

\* _check_block calls itself.
CheckBlock ==
    /\ Checking("block")
    /\ noted' = [noted EXCEPT !.left = Checks(Head(@)[2]) \o Tail(@)]
    /\ UNCHANGED <<at, device, verdict>>

\* Fault: the id is not noted.
NotedFault(oids, oid) == oids

Noted(oids, oid) == oids \cup {oid}

\* The body of the loop in _check_block, to its end.
CheckMember ==
    /\ Checking("member")
    /\ LET o == Head(noted.left)[2]
       IN  /\ ~(Closely(o) /\ <<o, "type">> \in device.wrong)
           /\ noted' = [noted EXCEPT
                 !.oids = Noted(@, device.oid[o]),
                 !.classes = @ \cup Only({device.class[o]}, Closely(o)),
                 !.errors = @ \cup ErrorsOf(o), !.checked = @ \cup CheckedOf(o),
                 !.left = Tail(@)]
    /\ Goto("walk") /\ UNCHANGED device

\* An exception breaks the walk off, when these kinds have been looked at, and of these
\* others a part: they count as checked before they are compared.
Named == {"roles", "oids"}
Placed(o) == Named \cup {"root", "singletons", "organization"} \cup Only({"model"}, device.owner[o] # BlockOf(o))
Closer(o) == Placed(o) \cup {"touchpoints"}
Requested == {"deprecated", "item", "length"}
BreakOff(o, whole, part) ==
    /\ noted' = [noted EXCEPT
          !.oids = Noted(@, device.oid[o]),
          !.classes = @ \cup Only({device.class[o]}, "touchpoints" \in whole),
          !.errors = @ \cup (ErrorsOf(o) \cap (whole \ {"organization"})),
          !.checked = @ \cup (CheckedOf(o) \cap (whole \cup part)),
          !.left = <<>>]
    /\ Conclude("FAIL")

\* A close look, at any property of the object, finds a value of the wrong type ...
WrongType ==
    /\ Checking("member")
    /\ LET o == Head(noted.left)[2]
       IN  /\ Closely(o) /\ <<o, "type">> \in device.wrong
           /\ \E seen, part \in SUBSET Requested : BreakOff(o, Closer(o) \cup seen, part)
    /\ UNCHANGED device

\* ... or a request is not answered: the one for the owner, the one for the touchpoints, or
\* one of a close look.
RequestLost ==
    /\ Checking("member") /\ device.loses = "one"
    /\ LET o == Head(noted.left)[2]
       IN  \/ \E whole \in {Named, Placed(o)} : BreakOff(o, whole, {})
           \/ /\ Closely(o)
              /\ \E seen, part \in SUBSET Requested : BreakOff(o, Closer(o) \cup seen, part)
    /\ device' = [device EXCEPT !.loses = "lost"]

WalkEnds ==
    /\ Testing /\ at.step = "walk" /\ noted.left = <<>>
    /\ noted' = [noted EXCEPT !.done = TRUE]
    /\ Goto("judge") /\ UNCHANGED device

\* The test's own part of what was noted; the hierarchy of constraints is not judged
\* when the model is wrong.
Judge ==
    /\ Testing /\ (at.step = "judge" \/ (at.step = "begin" /\ noted.done))
    /\ LET test == Head(at.plan)  kind == Judges[test]
       IN  Conclude(IF kind \in noted.errors \/ (test = "test_26" /\ "model" \in noted.errors) THEN "FAIL"
                    ELSE IF kind # "model" /\ kind \notin noted.checked THEN "UNCLEAR" ELSE "PASS")
    /\ UNCHANGED <<device, noted>>

Next == SetUp \/ TearDown \/ Walk \/ CheckBlock \/ CheckMember \/ WrongType \/ RequestLost \/ WalkEnds \/ Judge

Spec == Init /\ [][Next]_suiteVars

-----------------------------------------------------------------------------

\* A walk was broken off.
Broken == device.loses = "lost" \/ \E o \in Object : <<o, "type">> \in device.wrong

\* A device whose model is right is not failed; if one of its answers is lost, one test is
\* failed for it, and no other but that of the ids.
ConformingModelPasses ==
    LET failed == {t \in DOMAIN verdict : verdict[t] = "FAIL"}
    IN  Wrong(device) = {} =>
          /\ device.loses # "lost" => failed = {}
          /\ Cardinality(failed \ {"test_04"}) <= 1

\* What a walk notes as wrong is so.  Only the ids are not to be trusted when the walk
\* before was broken off; a manager whose owner is wrong seems not to be in the root block.
ErrorsAreReal ==
    /\ noted.errors \ {"oids", "root"} \subseteq Wrong(device)
    /\ "root" \in noted.errors => Wrong(device) \cap {"root", "model"} # {}
    /\ "oids" \in noted.errors => "oids" \in Wrong(device) \/ Broken

\* The objects in the order of a whole walk.
WalkOf[b \in Block] ==
    LET below == Select(Members[b], Block)
    IN  Concatenation([i \in DOMAIN below |-> WalkOf[below[i]]]) \o Members[b]

\* The first of its class that a walk comes to.
FirstOfClass(o) ==
    LET seq == WalkOf[Root]  place == CHOOSE i \in DOMAIN seq : seq[i] = o
    IN  \A i \in 1..(place - 1) : device.class[seq[i]] # device.class[o]
LookedAt(o) == Exhaustive \/ FirstOfClass(o)

\* A whole run finds every mistake, each with its test; of a class it looks at one object
\* unless the tests are exhaustive, and for a second manager only within a block.
ModelMistakesAreFound ==
    (Ended /\ device.loses # "lost" /\ \A t \in DOMAIN verdict : verdict[t] # "none") =>
        \A test \in Range(Order) :
            LET kind == Judges[test]
                seen == CASE kind \in Details \/ (kind = "model" /\ Broken) ->
                                \A o \in Object : (\E k \in Kind \cup {"type"} : <<o, k>> \in device.wrong) => LookedAt(o)
                          [] kind = "singletons" ->
                                \E o \in Object : device.class[o] \in Manager /\ Again(o)
                          [] OTHER -> TRUE
            IN  kind \in Wrong(device) /\ seen => verdict[test] = "FAIL"
=============================================================================
