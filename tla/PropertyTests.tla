--------------------------- MODULE PropertyTests ---------------------------
(***************************************************************************)
(* The tests of MS-05 that write to a device (nmostesting/suites/          *)
(* MS0501Test.py, with MS05_INVASIVE_TESTING): values inside and outside   *)
(* of the constraints of a number and of a sequence, items added to        *)
(* sequences, set and removed again, and a label.  Each test means to      *)
(* leave the device as it found it.                                        *)
(***************************************************************************)
EXTENDS Suite, Integers

CONSTANTS
    Limits,    \* the constraints a level may have
    Widths,    \* the greatest numbers of the datatypes a number may have
    MaxSize,   \* sys.maxsize
    Original,  \* the writable sequences and what is in them
    Sequences, \* their order in the device model
    ReadOnly   \* whether the device has read only properties

None == MaxSize + 100
NoConstraint == [min |-> None, max |-> None, step |-> None]

PropertyTestsAssumption ==
    /\ MaxSize \in Nat /\ Widths \subseteq Nat
    /\ Limits \subseteq [min : Int, max : Int, step : Int] /\ NoConstraint \notin Limits
    /\ \A c \in Limits :
         /\ c.min = None \/ c.max = None \/ c.min <= c.max
         /\ c.step # None => c.step > 0
    /\ Original \in [DOMAIN Original -> Seq(Int)] /\ Sequences \in Seq(DOMAIN Original)

Mistakes ==
    {"none", "min", "max", "step", "refuses", "readonly", "nolabel", "noadd", "front", "index",
     "noset", "seterror", "noremove"}

Order == <<"test_15", "test_26", "test_29", "test_31", "test_33", "test_37", "test_38", "test_39">>
Written == {"test_37", "test_38", "test_39"}

TypeOK ==
    /\ device.mistake \in Mistakes /\ device.label \in {"old", "new"}
    /\ device.number \in Int /\ device.width \in Nat /\ \A q \in DOMAIN Original : device.seq[q] \in Seq(Int)
    /\ noted.errors \cup noted.checked \subseteq {"property", "add", "set", "remove"}
    /\ \A t \in DOMAIN verdict : verdict[t] \in Verdict

-----------------------------------------------------------------------------
(* Constraints of numbers, on up to three levels.                           *)

\* _get_constraints: what holds is the last level that has any.
Effective(levels) ==
    IF levels.runtime # NoConstraint THEN levels.runtime
    ELSE IF levels.property # NoConstraint THEN levels.property ELSE levels.datatype

\* The limits that a value breaks.
Breaks(c, v) ==
    {l \in {"min", "max", "step"} :
        c[l] # None /\ CASE l = "min" -> v < c.min [] l = "max" -> v > c.max
                         [] l = "step" -> (v - (IF c.min = None THEN 0 ELSE c.min)) % c.step # 0}

\* "x or y" of Python, for which a limit of 0 is none.
Or(x, y) == IF x \in {None, 0} THEN y ELSE x

\* _generate_number_parameters: a valid value, and invalid ones.
ValidValue(c) ==
    LET step == Or(c.step, 1)
    IN  ((Or(c.max, MaxSize) - Or(c.min, 0)) \div (2 * step)) * step + Or(c.min, 0)
InvalidValues(c) ==
    (IF c.min # None THEN <<Or(c.min, 0) - Or(c.step, 1)>> ELSE <<>>)
    \o (IF c.max # None THEN <<Or(c.max, MaxSize) + Or(c.step, 1)>> ELSE <<>>)
    \o (IF c.step # None /\ c.step > 1 THEN <<ValidValue(c) + c.step \div 2>> ELSE <<>>)
Parameters(c) ==
    <<[value |-> ValidValue(c), violates |-> FALSE]>>
    \o [i \in DOMAIN InvalidValues(c) |-> [value |-> InvalidValues(c)[i], violates |-> TRUE]]

\* _check_constraint_override, of a number: not all limits, or wider ones.
Partial(c, over) == \E l \in {"min", "max", "step"} : c[l] # None /\ over[l] = None
WidensAt(c, over, limit) ==
    CASE limit = "min" -> over.min < c.min
      [] limit = "max" -> over.max > c.max
      [] limit = "step" -> over.step < c.step

Widens(c, over) == \E l \in {"min", "max", "step"} : c[l] \notin {None, 0} /\ WidensAt(c, over, l)

\* The pairs of levels that _check_constraints_hierarchy compares.
Overrides(levels) ==
    {p \in {<<levels.datatype, levels.property>>, <<levels.datatype, levels.runtime>>,
            <<levels.property, levels.runtime>>} : p[1] # NoConstraint /\ p[2] # NoConstraint}

-----------------------------------------------------------------------------
(* The device.                                                              *)

Constraint == Effective(device.levels)
\* The numbers of a datatype, as NcInt16 to NcInt64.
Numbers(width) == (-width - 1)..width
\* Whether it takes a value; none that is not of its datatype.
Takes(v) ==
    /\ v \in Numbers(device.width)
    /\ IF device.mistake = "refuses" THEN v = device.number
       ELSE Breaks(Constraint, v) \ {device.mistake} = {}
\* The limits of a constraint are of the datatype.
Fits(c, width) == \A l \in {"min", "max"} : c[l] # None => c[l] \in Numbers(width)

Init ==
    /\ \E plan \in Plans(Order) : at = Position(plan)
    /\ \E mistake \in Mistakes, datatype \in Limits \cup {NoConstraint},
          runtime \in Limits \cup {NoConstraint}, width \in Widths, loses \in {"nothing", "one"} :
         LET levels == [datatype |-> datatype, property |-> NoConstraint, runtime |-> runtime]
         IN  /\ Fits(datatype, width) /\ Fits(runtime, width) /\ (loses = "one" => mistake = "none")
             /\ \E number \in {v \in -2..3 : Breaks(Effective(levels), v) = {}} :
                  /\ number \in Numbers(width)
                  /\ device = [mistake |-> mistake, loses |-> loses, number |-> number,
                               seq |-> Original, label |-> "old", levels |-> levels, width |-> width]
    /\ noted = [errors |-> {}, checked |-> {}, validated |-> FALSE, number |-> device.number]
    /\ verdict = NoVerdicts(Order)

\* A request without an answer: an exception, at any point of a test.
RequestLost ==
    /\ ~Ended /\ Head(at.plan) \in Range(Order) /\ device.loses = "one"
    /\ device' = [device EXCEPT !.loses = "lost"]
    /\ Conclude("FAIL") /\ UNCHANGED noted

-----------------------------------------------------------------------------
(* The suite.                                                               *)

Judged(errors, checked) ==
    Conclude(CASE errors -> "FAIL" [] ~errors /\ ~checked -> "UNCLEAR" [] OTHER -> "PASS")

SetUp ==
    /\ On({"set_up_tests", "tear_down_tests"}, "begin")
    /\ noted' = [noted EXCEPT !.errors = {}, !.checked = {}, !.validated = FALSE]
    /\ Conclude("PASS") /\ UNCHANGED device

\* test_15: the label of the root block is set, and set back.
Label ==
    \/ /\ On({"test_15"}, "begin")
       /\ device' = [device EXCEPT !.label = IF device.mistake = "nolabel" THEN @ ELSE "new"]
       /\ Check(device'.label = "new", "reset") /\ UNCHANGED noted
    \/ /\ On({"test_15"}, "reset")
       /\ device' = [device EXCEPT !.label = "old"]
       /\ Conclude("PASS") /\ UNCHANGED noted

\* test_26
Hierarchy ==
    /\ On({"test_26"}, "begin")
    /\ LET pairs == Overrides(device.levels)
       IN  Judged(\E p \in pairs : Partial(p[1], p[2]) \/ Widens(p[1], p[2]), pairs # {})
    /\ UNCHANGED <<device, noted>>

\* test_29: the value is kept, and the number set to the parameters one after another ...
BeginNumber ==
    /\ On({"test_29"}, "begin")
    /\ IF Constraint = NoConstraint THEN Conclude("UNCLEAR") /\ UNCHANGED noted
       ELSE /\ noted' = [noted EXCEPT !.errors = @ \ {"property"}, !.checked = @ \ {"property"},
                                      !.number = device.number]
            /\ at' = [at EXCEPT !.step = "set", !.todo = Parameters(Constraint)] /\ UNCHANGED verdict
    /\ UNCHANGED device

\* What is noted of an answer: _do_check in _invasive_check_constrained_parameter.
Noting(param, taken) ==
    [noted EXCEPT !.errors = IF taken = param.violates THEN @ \cup {"property"} ELSE @,
                  !.checked = IF param.violates /\ ~taken THEN @ \cup {"property"} ELSE @]

NextParameter(next) ==
    /\ at' = [at EXCEPT !.step = IF Len(at.todo) = 1 THEN next ELSE @, !.todo = Tail(@)]
    /\ UNCHANGED verdict

SetNumber ==
    /\ On({"test_29"}, "set")
    /\ LET taken == Takes(Subject.value)
       IN  /\ device' = [device EXCEPT !.number = IF taken THEN Subject.value ELSE @]
           /\ noted' = Noting(Subject, taken)
    /\ NextParameter("reset")

\* Fault: the value is not set back when there was an error.
ResetNumberFault ==
    /\ On({"test_29"}, "reset")
    /\ device' = [device EXCEPT !.number = IF noted.errors # {} THEN @ ELSE noted.number]
    /\ Judged("property" \in noted.errors, "property" \in noted.checked)
    /\ UNCHANGED noted

\* ... and back.
ResetNumber ==
    /\ On({"test_29"}, "reset")
    /\ device' = [device EXCEPT !.number = noted.number]
    /\ Judged("property" \in noted.errors, "property" \in noted.checked)
    /\ UNCHANGED noted

\* test_33: a read only property is set to its own value.
SetReadOnly ==
    /\ On({"test_33"}, "begin")
    /\ IF ReadOnly THEN Judged(device.mistake = "readonly", TRUE) ELSE Conclude("UNCLEAR")
    /\ UNCHANGED <<device, noted>>

\* test_31, test_32: a sequence is set to its reverse, and back; both are taken.
Reversing ==
    \/ /\ On({"test_31"}, "begin") /\ Visit(Sequences)
       /\ noted' = [noted EXCEPT !.errors = @ \ {"property"}, !.checked = @ \ {"property"}]
       /\ UNCHANGED device
    \/ /\ On({"test_31"}, "visit")
       /\ device' = [device EXCEPT !.seq[Subject] = Reverse(@)]
       /\ Goto("reset") /\ UNCHANGED noted
    \/ /\ On({"test_31"}, "reset")
       /\ device' = [device EXCEPT !.seq[Subject] = Reverse(@)]
       /\ Leave /\ UNCHANGED noted

-----------------------------------------------------------------------------
(* test_37 to test_39: the first of them goes through all sequences, the    *)
(* others only judge.                                                       *)

Err(kinds) == [noted EXCEPT !.errors = @ \cup kinds]
Fine(kind, errors) == [noted EXCEPT !.errors = @ \cup errors, !.checked = @ \cup {kind}]

BeginSequences ==
    /\ On(Written, "begin") /\ ~noted.validated
    /\ Visit(Sequences) /\ UNCHANGED <<device, noted>>

\* The end of the turn of a sequence; of all, and the verdict of this test.
TurnEnds ==
    IF Len(at.todo) = 1 THEN Goto("judge")
    ELSE at' = [at EXCEPT !.step = "visit", !.todo = Tail(@)] /\ UNCHANGED verdict

\* AddSequenceItem with the first item: the index it answers, and the item that is there.
\* Nothing can be added to an empty sequence.
Added(s) == CASE device.mistake = "noadd" -> s [] device.mistake = "front" -> <<s[1]>> \o s
              [] OTHER -> Append(s, s[1])
AddItem ==
    /\ On(Written, "visit")
    /\ LET s == device.seq[Subject]  n == Len(s)
       IN  IF s = <<>> THEN TurnEnds /\ UNCHANGED <<device, noted>>
           ELSE LET t == Added(s)
                    wrong == device.mistake = "index" \/ Len(t) = n
                IN  /\ device' = [device EXCEPT !.seq[Subject] = t]
                    /\ noted' = IF wrong THEN Err({"add"})
                                ELSE Fine("add", IF t[n + 1] # s[1] THEN {"add"} ELSE {})
                    /\ IF wrong THEN TurnEnds ELSE Goto("setitem")

\* SetSequenceItem of the added item to the one before it.
SetItem ==
    /\ On(Written, "setitem")
    /\ LET s == device.seq[Subject]  n == Len(s)
           t == IF device.mistake \in {"noset", "seterror"} THEN s ELSE [s EXCEPT ![n] = s[n - 1]]
       IN  /\ device' = [device EXCEPT !.seq[Subject] = t]
           /\ noted' = IF device.mistake = "seterror" THEN Err({"add"})
                       ELSE Fine("set", IF t[n] # s[n - 1] THEN {"set"} ELSE {})
    /\ Goto("remove")

\* RemoveSequenceItem of the added item, and the length again.
RemoveItem ==
    /\ On(Written, "remove")
    /\ LET s == device.seq[Subject]  t == IF device.mistake = "noremove" THEN s ELSE SubSeq(s, 1, Len(s) - 1)
       IN  /\ device' = [device EXCEPT !.seq[Subject] = t]
           /\ noted' = Fine("remove", IF Len(t) = Len(s) THEN {"remove"} ELSE {})
    /\ TurnEnds

JudgeSequences ==
    /\ On(Written, "judge") \/ (On(Written, "begin") /\ noted.validated)
    /\ noted' = [noted EXCEPT !.validated = TRUE]
    /\ LET kind == [test_37 |-> "set", test_38 |-> "add", test_39 |-> "remove"][Head(at.plan)]
       IN  Judged(kind \in noted.errors, kind \in noted.checked)
    /\ UNCHANGED device

Next ==
    \/ SetUp \/ RequestLost \/ Label \/ Hierarchy \/ BeginNumber \/ SetNumber \/ ResetNumber
    \/ SetReadOnly \/ Reversing \/ BeginSequences \/ AddItem \/ SetItem \/ RemoveItem \/ JudgeSequences

Spec == Init /\ [][Next]_suiteVars

-----------------------------------------------------------------------------

\* The numbers that test_29 has a valid value for: a maximum of 0 counts as none, a missing
\* minimum as 0, which no negative maximum suits, and a missing maximum as sys.maxsize, half of
\* which a datatype may not have.
Proper(c) ==
    /\ c.max # 0 /\ (c.min = None /\ c.max # None => c.max > 0)
    /\ c.max = None /\ c.min # None => c.min <= MaxSize
    /\ c.max = None => ValidValue(c) \in Numbers(device.width)

\* Constraints that do not widen on any level, a limit of 0 apart.
Narrowing(levels, limits) ==
    \A p \in Overrides(levels) :
        ~Partial(p[1], p[2]) /\ \A l \in {"min", "max", "step"} :
            p[1][l] \in {None} \cup limits \/ ~WidensAt(p[1], p[2], l)

\* A device that keeps to its constraints and whose sequences work is not failed, if every
\* request is answered and test_29 has a valid value for it.
ConformingPropertiesPass ==
    device.mistake = "none" /\ device.loses # "lost" /\ Proper(Constraint)
    /\ Narrowing(device.levels, {}) => \A t \in DOMAIN verdict : verdict[t] # "FAIL"

\* At the end of a run such a device is as it was, even if it enforces no constraint.
DeviceIsRestored ==
    Ended /\ device.mistake \in {"none", "min", "max", "step", "refuses"} /\ device.loses # "lost" =>
        device.seq = Original /\ device.label = "old" /\ device.number = noted.number

\* The mistakes that a whole run can see, of this device.
Visible ==
    LET c == Constraint
        distinct(q) == q # <<>> /\ q[Len(q)] # Head(q)
    IN  CASE device.mistake = "min" -> c.min # None /\ c.min - Or(c.step, 1) \in Numbers(device.width)
          [] device.mistake = "max" ->
               LET beyond == Or(c.max, MaxSize) + Or(c.step, 1)
               IN  c.max # None /\ beyond \in Numbers(device.width) /\ Breaks([c EXCEPT !.max = None], beyond) = {}
          [] device.mistake = "step" ->
               c.step # None /\ c.step > 1 /\ ValidValue(c) + c.step \div 2 \in Numbers(device.width)
          [] device.mistake = "refuses" -> c # NoConstraint /\ device.number # ValidValue(c)
          [] device.mistake = "readonly" -> ReadOnly
          [] device.mistake \in {"front", "noset"} -> \E q \in Range(Sequences) : distinct(Original[q])
          [] device.mistake \in {"noadd", "index", "seterror", "noremove"} ->
               \E q \in Range(Sequences) : Original[q] # <<>>
          [] OTHER -> device.mistake = "nolabel"

\* A whole run finds every such mistake, and constraints that widen on another level.
PropertyMistakesAreFound ==
    (Ended /\ device.loses # "lost" /\ \A t \in DOMAIN verdict : verdict[t] # "none") =>
        /\ Visible => \E t \in DOMAIN verdict : verdict[t] = "FAIL"
        /\ ~Narrowing(device.levels, {0}) => verdict["test_26"] = "FAIL"
=============================================================================
