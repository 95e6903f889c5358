----------------------- MODULE ControlSuites_proofs -----------------------
(***************************************************************************)
(* Theorems about ControlSuites, for any number of requests and any device *)
(* that the suites can be at work on.                                      *)
(***************************************************************************)
EXTENDS ControlSuites, SequenceTheorems, FiniteSetTheorems, WellFoundedInduction, TLAPS

--------------------
(* Induction, and what is known of sequences.                               *)

\* Induction over the numbers up to N, by the least one that is not in the set.
LEMMA LeastNumber ==
    ASSUME NEW T, T \subseteq Nat, T # {}
    PROVE  \E n \in T : \A m \in T : n <= m
<1> DEFINE R == OpToRel(<, Nat)
<1>1. IsWellFoundedOn(R, Nat)
  BY NatLessThanWellFounded
<1>2. PICK n \in T : \A m \in T : <<m, n>> \notin R
  <2> HIDE DEF R
  <2> QED
    BY <1>1, WFMin
<1>3. \A m \in T : ~(m < n)
  BY <1>2 DEF OpToRel
<1> QED
  BY <1>3

LEMMA UpTo ==
    ASSUME NEW S, NEW N \in Nat, 0 \in S, \A n \in 0..N - 1 : n \in S => n + 1 \in S
    PROVE  0..N \subseteq S
<1> DEFINE T == 0..N \ S
<1> SUFFICES ASSUME T # {} PROVE FALSE
  OBVIOUS
<1>1. PICK n \in T : \A m \in T : n <= m
  <2>1. T \subseteq Nat
    OBVIOUS
  <2> HIDE DEF T
  <2> QED
    BY <2>1, LeastNumber
<1>2. n - 1 \in 0..N - 1 /\ n - 1 \notin T
  BY <1>1
<1> QED
  BY <1>1, <1>2

\* The elements of a sequence, and whether none is there twice.
Elems(s) == {s[i] : i \in 1..Len(s)}
Distinct(s) == \A i, j \in 1..Len(s) : s[i] = s[j] => i = j

\* A further element of a sequence.
LEMMA AppendParts ==
    ASSUME NEW X, NEW s \in Seq(X), NEW x \in X
    PROVE  /\ Append(s, x) \in Seq(X) /\ Elems(Append(s, x)) = Elems(s) \cup {x}
           /\ Distinct(s) /\ x \notin Elems(s) => Distinct(Append(s, x))
<1>1. /\ Append(s, x) \in Seq(X) /\ Len(Append(s, x)) = Len(s) + 1 /\ Len(s) \in Nat
      /\ \A i \in 1..Len(s) : Append(s, x)[i] = s[i]
      /\ Append(s, x)[Len(s) + 1] = x
  OBVIOUS
<1> DEFINE t == Append(s, x)
<1> HIDE DEF t
<1>2. /\ t \in Seq(X) /\ Len(t) = Len(s) + 1 /\ Len(s) \in Nat
      /\ \A i \in 1..Len(s) : t[i] = s[i]
      /\ t[Len(s) + 1] = x
  BY <1>1 DEF t
<1>3. Elems(t) = Elems(s) \cup {x}
  <2>1. ASSUME NEW i \in 1..Len(t) PROVE t[i] \in Elems(s) \cup {x}
    <3>1. i \in 1..Len(s) \/ i = Len(s) + 1
      BY <1>2
    <3> QED BY <1>2, <3>1 DEF Elems
  <2>2. ASSUME NEW i \in 1..Len(s) PROVE s[i] \in Elems(t)
    <3>1. i \in 1..Len(t) /\ s[i] = t[i]
      BY <1>2
    <3> QED BY <3>1 DEF Elems
  <2>3. x \in Elems(t)
    <3>1. Len(s) + 1 \in 1..Len(t)
      BY <1>2
    <3> QED BY <1>2, <3>1 DEF Elems
  <2> QED BY <2>1, <2>2, <2>3 DEF Elems
<1>4. Distinct(s) /\ x \notin Elems(s) => Distinct(t)
  <2> SUFFICES ASSUME Distinct(s), x \notin Elems(s), NEW i \in 1..Len(t), NEW j \in 1..Len(t), t[i] = t[j]
               PROVE  i = j
    BY DEF Distinct
  <2>1. (i \in 1..Len(s) \/ i = Len(s) + 1) /\ (j \in 1..Len(s) \/ j = Len(s) + 1)
    BY <1>2
  <2>2. \A k \in 1..Len(s) : s[k] # x
    BY DEF Elems
  <2>3. CASE i \in 1..Len(s) /\ j \in 1..Len(s)
    BY <1>2, <2>3 DEF Distinct
  <2> QED BY <1>2, <2>1, <2>2, <2>3
<1> QED BY <1>2, <1>3, <1>4 DEF t

\* What is left without the first, and two sequences one after the other.
LEMMA TailParts ==
    ASSUME NEW X, NEW s \in Seq(X), s # <<>>
    PROVE  /\ Tail(s) \in Seq(X) /\ Head(s) \in Elems(s) /\ Head(s) \in X
           /\ Elems(Tail(s)) \subseteq Elems(s)
           /\ Distinct(s) => Distinct(Tail(s)) /\ Head(s) \notin Elems(Tail(s))
<1>1. /\ Tail(s) \in Seq(X) /\ Len(s) \in Nat /\ Len(s) >= 1 /\ Len(Tail(s)) = Len(s) - 1
      /\ \A i \in 1..(Len(s) - 1) : Tail(s)[i] = s[i + 1]
      /\ Head(s) = s[1] /\ s[1] \in X
  OBVIOUS
<1>2. \A i \in 1..Len(Tail(s)) : i + 1 \in 1..Len(s) /\ Tail(s)[i] = s[i + 1]
  BY <1>1
<1>3. 1 \in 1..Len(s)
  BY <1>1
<1>4. Elems(Tail(s)) \subseteq Elems(s) /\ Head(s) \in Elems(s)
  BY <1>1, <1>2, <1>3 DEF Elems
<1>5. ASSUME Distinct(s) PROVE Head(s) \notin Elems(Tail(s))
  <2> SUFFICES ASSUME NEW i \in 1..Len(Tail(s)), Tail(s)[i] = s[1] PROVE FALSE
    BY <1>1 DEF Elems
  <2>1. i + 1 = 1
    BY <1>2, <1>3, <1>5 DEF Distinct
  <2> QED BY <2>1, <1>1
<1>6. ASSUME Distinct(s) PROVE Distinct(Tail(s))
  <2> SUFFICES ASSUME NEW i \in 1..Len(Tail(s)), NEW j \in 1..Len(Tail(s)), Tail(s)[i] = Tail(s)[j]
               PROVE  i = j
    BY DEF Distinct
  <2>1. i + 1 = j + 1
    BY <1>2, <1>6 DEF Distinct
  <2> QED BY <2>1, <1>1
<1> QED BY <1>1, <1>4, <1>5, <1>6

LEMMA ConcatParts ==
    ASSUME NEW X, NEW s \in Seq(X), NEW t \in Seq(X)
    PROVE  /\ s \o t \in Seq(X) /\ Elems(s \o t) = Elems(s) \cup Elems(t)
           /\ Distinct(s) /\ Distinct(t) /\ Elems(s) \cap Elems(t) = {} => Distinct(s \o t)
<1> DEFINE u == s \o t
<1>1. /\ u \in Seq(X) /\ Len(u) = Len(s) + Len(t) /\ Len(s) \in Nat /\ Len(t) \in Nat
      /\ \A i \in 1..Len(s) : u[i] = s[i]
      /\ \A i \in (Len(s) + 1)..Len(u) : u[i] = t[i - Len(s)]
      /\ \A i \in 1..Len(t) : u[i + Len(s)] = t[i]
  OBVIOUS
<1> HIDE DEF u
<1>2. \A i \in 1..Len(u) : \/ i \in 1..Len(s) /\ u[i] = s[i]
                           \/ i - Len(s) \in 1..Len(t) /\ u[i] = t[i - Len(s)]
  <2> SUFFICES ASSUME NEW i \in 1..Len(u), i \notin 1..Len(s)
               PROVE  i - Len(s) \in 1..Len(t) /\ u[i] = t[i - Len(s)]
    BY <1>1
  <2>1. i \in (Len(s) + 1)..Len(u)
    BY <1>1
  <2> QED BY <1>1, <2>1
<1>3. Elems(u) = Elems(s) \cup Elems(t)
  <2>1. Elems(u) \subseteq Elems(s) \cup Elems(t)
    BY <1>2 DEF Elems
  <2>2. \A i \in 1..Len(s) : i \in 1..Len(u) /\ u[i] = s[i]
    BY <1>1
  <2>3. \A i \in 1..Len(t) : i + Len(s) \in 1..Len(u) /\ u[i + Len(s)] = t[i]
    BY <1>1
  <2>4. Elems(s) \subseteq Elems(u)
    BY <2>2 DEF Elems
  <2>5. Elems(t) \subseteq Elems(u)
    BY <2>3 DEF Elems
  <2> QED BY <2>1, <2>4, <2>5
<1>4. ASSUME Distinct(s), Distinct(t), Elems(s) \cap Elems(t) = {} PROVE Distinct(u)
  <2> SUFFICES ASSUME NEW i \in 1..Len(u), NEW j \in 1..Len(u), u[i] = u[j] PROVE i = j
    BY DEF Distinct
  <2>1. CASE i \in 1..Len(s) /\ u[i] = s[i] /\ j \in 1..Len(s) /\ u[j] = s[j]
    BY <1>4, <2>1 DEF Distinct
  <2>2. CASE /\ i - Len(s) \in 1..Len(t) /\ u[i] = t[i - Len(s)]
             /\ j - Len(s) \in 1..Len(t) /\ u[j] = t[j - Len(s)]
    <3>1. i - Len(s) = j - Len(s)
      BY <1>4, <2>2 DEF Distinct
    <3> QED BY <3>1, <1>1
  <2>3. ASSUME NEW k \in 1..Len(s), NEW l \in 1..Len(t), s[k] = t[l] PROVE FALSE
    BY <1>4, <2>3 DEF Elems
  <2> QED BY <1>2, <2>1, <2>2, <2>3
<1> QED BY <1>1, <1>3, <1>4 DEF u

\* f selects among the first n elements of a sequence, for n up to N.
Selects(f, s, set, N) ==
    f = [n \in 0..N |-> IF n = 0 THEN <<>>
                        ELSE IF s[n] \in set THEN Append(f[n - 1], s[n]) ELSE f[n - 1]]

LEMMA SomeSelects ==
    ASSUME NEW s, NEW set, NEW N \in Nat
    PROVE  \E f : Selects(f, s, set, N)
<1> DEFINE S == {n \in Nat : \E f : Selects(f, s, set, n)}
<1>1. 0 \in S
  <2> DEFINE f == [n \in 0..0 |-> <<>>]
  <2>1. Selects(f, s, set, 0)
    BY DEF Selects
  <2> HIDE DEF f
  <2> QED
    BY <2>1
<1>2. ASSUME NEW n \in S PROVE n + 1 \in S
  <2>1. PICK f : Selects(f, s, set, n)
    OBVIOUS
  <2> DEFINE g == [k \in 0..n + 1 |->
                     IF k <= n THEN f[k]
                     ELSE IF s[k] \in set THEN Append(f[n], s[k]) ELSE f[n]]
  <2>2. n \in Nat
    OBVIOUS
  <2>3. \A k \in 0..n + 1 :
          g[k] = IF k = 0 THEN <<>>
                 ELSE IF s[k] \in set THEN Append(g[k - 1], s[k]) ELSE g[k - 1]
    <3> SUFFICES ASSUME NEW k \in 0..n + 1
                 PROVE  g[k] = IF k = 0 THEN <<>>
                               ELSE IF s[k] \in set THEN Append(g[k - 1], s[k]) ELSE g[k - 1]
      OBVIOUS
    <3>1. CASE k = n + 1
      <4>1. k # 0 /\ g[k - 1] = f[n] /\ ~(k <= n)
        BY <3>1, <2>2
      <4> QED
        BY <4>1
    <3>2. CASE k \in 0..n
      <4>1. g[k] = f[k] /\ (k # 0 => g[k - 1] = f[k - 1])
        BY <3>2, <2>2
      <4>2. f[k] = IF k = 0 THEN <<>>
                   ELSE IF s[k] \in set THEN Append(f[k - 1], s[k]) ELSE f[k - 1]
        BY <3>2, <2>1 DEF Selects
      <4> HIDE DEF g
      <4> QED
        BY <4>1, <4>2
    <3> QED
      BY <3>1, <3>2, <2>2
  <2>4. Selects(g, s, set, n + 1)
    BY <2>3 DEF Selects
  <2> HIDE DEF g
  <2> QED
    BY <2>2, <2>4
<1>3. N \in S
  <2> HIDE DEF S
  <2>1. 0..N \subseteq S
    BY <1>1, <1>2, UpTo
  <2> QED
    BY <2>1
<1> QED
  BY <1>3

\* Select keeps the elements that are in the set, and none twice.
LEMMA SelectParts ==
    ASSUME NEW X, NEW s \in Seq(X), NEW set
    PROVE  /\ Select(s, set) \in Seq(X)
           /\ Elems(Select(s, set)) = Elems(s) \cap set
           /\ Distinct(s) => Distinct(Select(s, set))
<1> DEFINE N == Len(s)
           first(n) == {s[i] : i \in 1..n}
<1>1. N \in Nat /\ \A n \in 1..N : s[n] \in X
  OBVIOUS
<1>2. PICK f : Selects(f, s, set, N) /\ Select(s, set) = f[N]
  <2> DEFINE f == CHOOSE f : Selects(f, s, set, N)
  <2>1. Selects(f, s, set, N)
    BY <1>1, SomeSelects
  <2>2. Select(s, set) = f[N]
    BY DEF Select, Selects
  <2> QED BY <2>1, <2>2
<1>3. \A n \in 0..N : f[n] = IF n = 0 THEN <<>>
                             ELSE IF s[n] \in set THEN Append(f[n - 1], s[n]) ELSE f[n - 1]
  BY <1>2 DEF Selects
<1> DEFINE S == {n \in 0..N : /\ f[n] \in Seq(X) /\ Elems(f[n]) = first(n) \cap set
                              /\ Distinct(s) => Distinct(f[n])}
<1>4. 0 \in S
  <2>1. f[0] = <<>> /\ 0 \in 0..N
    BY <1>1, <1>3
  <2>2. <<>> \in Seq(X) /\ Elems(<<>>) = {} /\ first(0) = {} /\ Distinct(<<>>)
    BY DEF Elems, Distinct
  <2> QED BY <2>1, <2>2
<1>5. ASSUME NEW n \in 0..N - 1, n \in S PROVE n + 1 \in S
  <2>1. n + 1 \in 0..N /\ n + 1 # 0 /\ (n + 1) - 1 = n /\ s[n + 1] \in X /\ n + 1 \in 1..N
    BY <1>1
  <2>2. f[n + 1] = IF s[n + 1] \in set THEN Append(f[n], s[n + 1]) ELSE f[n]
    BY <1>3, <2>1
  <2>3. first(n + 1) = first(n) \cup {s[n + 1]}
    <3>1. \A i \in 1..(n + 1) : i \in 1..n \/ i = n + 1
      OBVIOUS
    <3>2. \A i \in 1..n : i \in 1..(n + 1)
      OBVIOUS
    <3>3. n + 1 \in 1..(n + 1)
      OBVIOUS
    <3> QED BY <3>1, <3>2, <3>3
  <2>4. f[n] \in Seq(X) /\ Elems(f[n]) = first(n) \cap set /\ (Distinct(s) => Distinct(f[n]))
    BY <1>5
  <2>5. ASSUME Distinct(s) PROVE s[n + 1] \notin first(n)
    <3>1. \A i \in 1..n : i \in 1..N /\ i # n + 1
      BY <1>1
    <3> QED BY <2>1, <2>5, <3>1 DEF Distinct
  <2> HIDE DEF S, first
  <2>6. f[n + 1] \in Seq(X) /\ Elems(f[n + 1]) = first(n + 1) \cap set /\ (Distinct(s) => Distinct(f[n + 1]))
    <3>1. CASE s[n + 1] \in set
      <4>1. f[n + 1] = Append(f[n], s[n + 1])
        BY <2>2, <3>1
      <4>2. f[n + 1] \in Seq(X) /\ Elems(f[n + 1]) = Elems(f[n]) \cup {s[n + 1]}
        BY <2>1, <2>4, <4>1, AppendParts
      <4>3. Distinct(s) => Distinct(f[n + 1])
        BY <2>1, <2>4, <2>5, <4>1, AppendParts
      <4> QED BY <2>3, <2>4, <3>1, <4>2, <4>3
    <3>2. CASE s[n + 1] \notin set
      BY <2>2, <2>3, <2>4, <3>2
    <3> QED BY <3>1, <3>2
  <2> QED BY <2>1, <2>6 DEF S
<1>6. N \in S
  <2> HIDE DEF S
  <2>1. 0..N \subseteq S
    BY <1>1, <1>4, <1>5, UpTo
  <2> QED BY <1>1, <2>1
<1> QED BY <1>2, <1>6 DEF Elems

--------------------
(* The run of a suite.                                                      *)

IsRun ==
    /\ at = [plan |-> at.plan, step |-> at.step, todo |-> at.todo, tries |-> at.tries]
    /\ \A t \in DOMAIN verdict : verdict[t] \in Verdict

LEMMA RunBegins ==
    ASSUME NEW order, NEW plan, at = Position(plan), verdict = NoVerdicts(order)
    PROVE  /\ IsRun /\ at.step = "begin" /\ at.todo = <<>>
           /\ \A t \in DOMAIN verdict : verdict[t] = "none"
BY DEF IsRun, Position, NoVerdicts, Verdict

\* How it goes on: a test ends, or goes on to its next step or subject.
LEMMA TestEnds ==
    ASSUME IsRun, NEW v \in Verdict, Conclude(v)
    PROVE  /\ IsRun' /\ at'.step = "begin" /\ at'.todo = <<>> /\ at'.plan = Tail(at.plan)
           /\ DOMAIN verdict' = DOMAIN verdict
           /\ \A t \in DOMAIN verdict : verdict'[t] = IF t = Head(at.plan) THEN v ELSE verdict[t]
BY DEF IsRun, Conclude, Position

LEMMA TestSteps ==
    ASSUME IsRun, NEW step, NEW tries, Step(step, tries)
    PROVE  /\ IsRun' /\ at'.step = step /\ at'.plan = at.plan /\ at'.todo = at.todo
           /\ at'.tries = tries /\ verdict' = verdict
BY DEF IsRun, Step

LEMMA TestGoesOn ==
    ASSUME IsRun, verdict' = verdict, NEW step, NEW todo,
           \/ at' = [at EXCEPT !.step = step, !.todo = todo]
           \/ at' = [at EXCEPT !.step = step, !.todo = todo, !.tries = 0]
    PROVE  IsRun' /\ at'.step = step /\ at'.plan = at.plan /\ at'.todo = todo
BY DEF IsRun

--------------------
(* The client of IS-12.  Of the steps of all suites, only the client's own  *)
(* are about it.                                                            *)

LEMMA ClientSteps == [ControlNext]_controlVars => [K!Next]_clientVars
BY DEF ControlNext, controlVars, clientVars

Message == [type : {"CommandResponse", "SubscriptionResponse", "Error", "Notification"},
            of : Nat]
Unnumbered(m) == m.type \in {"SubscriptionResponse", "Error"}
Uncertain(r) == r.kind # "command"

Types ==
    /\ handle \in Nat
    /\ asked \in Seq([kind : Kinds, of : Nat])
    /\ inbox \in Seq(Message)
    /\ results \subseteq Message

\* Requests are served in the order of their handles, and what comes answers one
\* that was made.
InOrder ==
    /\ \A n \in 1..Len(asked) : asked[n].of <= handle
    /\ \A k \in 1..Len(inbox) : inbox[k].of <= handle
    /\ \A n, k \in 1..Len(asked) : n < k => asked[n].of < asked[k].of

\* A request whose reply bears no handle is the one the client waits for, and
\* nothing that could be taken for its reply has come.
UncertainIsWaitedFor ==
    \A n \in 1..Len(asked) : Uncertain(asked[n]) =>
        /\ ~K!Idle /\ asked[n].of = handle /\ results = {}
        /\ \A k \in 1..Len(inbox) : ~Unnumbered(inbox[k])
        /\ \A k \in 1..Len(inbox) :
             inbox[k].type = "CommandResponse" => inbox[k].of # handle

\* A reply without a handle is in the socket only while its request is waited for.
UnnumberedIsOurs ==
    \A k \in 1..Len(inbox) : Unnumbered(inbox[k]) => ~K!Idle /\ inbox[k].of = handle

ResultsAreOurs == \A m \in results : m.of = handle

ClientInv ==
    /\ Types
    /\ InOrder
    /\ UncertainIsWaitedFor
    /\ UnnumberedIsOurs
    /\ ResultsAreOurs
    /\ K!AnswersAreMatched

--------------------

\* The requests and messages under way are well-formed.
LEMMA Elements ==
    ASSUME Types
    PROVE  /\ Len(asked) \in Nat /\ Len(inbox) \in Nat
           /\ \A n \in 1..Len(asked) : asked[n] \in [kind : Kinds, of : Nat]
           /\ \A n \in 1..Len(asked) : asked[n].of \in Nat
           /\ \A k \in 1..Len(inbox) : inbox[k] \in Message /\ inbox[k].of \in Nat
<1>1. /\ Len(asked) \in Nat
      /\ \A n \in 1..Len(asked) : asked[n] \in [kind : Kinds, of : Nat]
  <2> DEFINE R == [kind : Kinds, of : Nat]
  <2>1. asked \in Seq(R)
    BY DEF Types
  <2> HIDE DEF R
  <2>2. Len(asked) \in Nat /\ \A n \in 1..Len(asked) : asked[n] \in R
    BY <2>1
  <2> QED BY <2>2 DEF R
<1>2. Len(inbox) \in Nat /\ \A k \in 1..Len(inbox) : inbox[k] \in Message
  BY DEF Types
<1> QED BY <1>1, <1>2 DEF Message

\* A new request is numbered after all others, and nothing is left of those whose
\* replies bear no handle.
LEMMA RequestStep ==
    ASSUME K!ControlClientAssumption, ClientInv, NEW kind \in Kinds, K!Request(kind)
    PROVE  ClientInv'
<1> DEFINE r == [kind |-> kind, of |-> handle + 1]
<1> USE DEF ClientInv, Types
<1>1. /\ handle' = handle + 1 /\ handle \in Nat /\ results' = {} /\ inbox' = inbox
      /\ asked' \in {asked, Append(asked, r)}
      /\ outcome'.by = "none" /\ pending' = kind /\ K!Idle
  BY DEF K!Request
<1>2. r \in [kind : Kinds, of : Nat]
  BY <1>1
<1>3. \A n \in 1..Len(asked) : ~Uncertain(asked[n])
  BY <1>1 DEF UncertainIsWaitedFor
<1>4. \A k \in 1..Len(inbox) : ~Unnumbered(inbox[k])
  BY <1>1 DEF UnnumberedIsOurs
<1>5. \A n \in 1..Len(asked') :
        \/ n \in 1..Len(asked) /\ asked'[n] = asked[n]
        \/ n = Len(asked) + 1 /\ n = Len(asked') /\ asked'[n] = r
  BY <1>1, <1>2
<1>6. Types'
  <2> DEFINE R == [kind : Kinds, of : Nat]
  <2>1. r \in R /\ asked \in Seq(R)
    BY <1>2
  <2> HIDE DEF R, r
  <2>2. asked' \in Seq(R)
    BY <1>1, <2>1
  <2> QED BY <1>1, <2>2 DEF R
<1> HIDE DEF r
<1>7. r.of = handle + 1
  BY DEF r
<1>8. InOrder'
  <2>1. \A n \in 1..Len(asked) : asked[n].of \in Nat /\ asked[n].of < handle + 1
    <3> HIDE DEF Types
    <3> QED BY <1>1, Elements DEF InOrder
  <2>2. ASSUME NEW n \in 1..Len(asked') PROVE asked'[n].of <= handle'
    <3> HIDE DEF ClientInv, Types
    <3>1. CASE n \in 1..Len(asked) /\ asked'[n] = asked[n]
      BY <1>1, <2>1, <3>1
    <3>2. CASE asked'[n] = r
      BY <1>1, <1>7, <3>2
    <3> QED BY <1>5, <3>1, <3>2
  <2>3. ASSUME NEW n \in 1..Len(asked'), NEW k \in 1..Len(asked'), n < k
        PROVE  asked'[n].of < asked'[k].of
    <3>1. Len(asked) \in Nat /\ Len(asked') \in Nat
      BY <1>6
    <3>2. n \in 1..Len(asked) /\ asked'[n] = asked[n]
      <4> HIDE DEF ClientInv, Types
      <4> QED BY <1>5, <2>3, <3>1
    <3>3. CASE k \in 1..Len(asked) /\ asked'[k] = asked[k]
      BY <2>3, <3>2, <3>3 DEF InOrder
    <3>4. CASE asked'[k] = r
      BY <1>7, <2>1, <3>2, <3>4
    <3> QED BY <1>5, <3>3, <3>4
  <2>4. \A k \in 1..Len(inbox') : inbox'[k].of <= handle'
    <3> HIDE DEF Types
    <3> QED BY <1>1, Elements DEF InOrder
  <2> QED BY <2>2, <2>3, <2>4 DEF InOrder
<1>9. UncertainIsWaitedFor'
  <2>1. ASSUME NEW n \in 1..Len(asked'), Uncertain(asked'[n])
        PROVE  asked'[n] = r /\ ~K!Idle'
    <3>1. asked'[n] = r
      BY <1>3, <1>5, <2>1 DEF Uncertain
    <3>2. kind # "none"
      BY DEF K!ControlClientAssumption
    <3> QED BY <1>1, <3>1, <3>2 DEF K!Idle
  <2>2. \A k \in 1..Len(inbox') : inbox'[k].of # handle'
    BY <1>1 DEF InOrder, Message
  <2> QED BY <1>1, <1>4, <1>7, <2>1, <2>2 DEF UncertainIsWaitedFor, Uncertain, Unnumbered
<1>10. UnnumberedIsOurs' /\ ResultsAreOurs' /\ K!AnswersAreMatched'
  BY <1>1, <1>4 DEF UnnumberedIsOurs, ResultsAreOurs, K!AnswersAreMatched, Unnumbered
<1> QED BY <1>6, <1>8, <1>9, <1>10

\* What has come is looked at in order, up to an Error: if the request bears no
\* handle and is still to be served, nothing of it is for the client.
LEMMA PollStep ==
    ASSUME ClientInv, K!Poll
    PROVE  ClientInv'
<1> USE DEF ClientInv, Types
<1>1. PICK until \in DOMAIN inbox :
        /\ results' = results \cup {m \in K!Range(SubSeq(inbox, 1, until)) : K!Ours(m)}
        /\ \/ K!IsError(inbox[until]) /\ K!Finish("error", inbox[until].of)
           \/ ~K!IsError(inbox[until]) /\ K!Several(results') /\ K!Finish("several", 0)
           \/ \E m \in results' : results' = {m} /\ K!Finish("reply", m.of)
           \/ UNCHANGED <<pending, outcome>>
  BY DEF K!Poll
<1>2. inbox' = <<>> /\ UNCHANGED <<handle, asked>> /\ ~K!Idle
  BY DEF K!Poll
<1>3. until \in 1..Len(inbox) /\ inbox[until] \in Message
  OBVIOUS
<1>4. \A m \in K!Range(SubSeq(inbox, 1, until)) : \E k \in 1..Len(inbox) : m = inbox[k]
  BY <1>3 DEF K!Range
<1>5. \A m \in results' : m \in results \/ \E k \in 1..Len(inbox) : m = inbox[k] /\ K!Ours(m)
  BY <1>1, <1>4
<1>6. results' \subseteq Message
  BY <1>5
<1>7. ResultsAreOurs'
  BY <1>2, <1>5 DEF ResultsAreOurs, K!Ours, UnnumberedIsOurs, Unnumbered
<1>8. K!AnswersAreMatched'
  <2>1. CASE K!IsError(inbox[until]) /\ K!Finish("error", inbox[until].of)
    BY <1>2, <1>3, <2>1 DEF K!IsError, K!Finish, UnnumberedIsOurs, Unnumbered, K!AnswersAreMatched
  <2>2. CASE K!Finish("several", 0)
    BY <2>2 DEF K!Finish, K!AnswersAreMatched
  <2>3. CASE \E m \in results' : K!Finish("reply", m.of)
    BY <1>7, <2>3 DEF K!Finish, ResultsAreOurs, K!AnswersAreMatched
  <2>4. CASE UNCHANGED <<pending, outcome>>
    BY <1>2, <2>4 DEF K!AnswersAreMatched
  <2> QED BY <1>1, <2>1, <2>2, <2>3, <2>4
<1>9. UncertainIsWaitedFor'
  <2>1. SUFFICES ASSUME NEW n \in 1..Len(asked), Uncertain(asked[n])
                 PROVE  results' = {} /\ ~K!Idle' /\ asked[n].of = handle
    BY <1>2 DEF UncertainIsWaitedFor, Uncertain, Unnumbered
  <2>2. \A k \in 1..Len(inbox) : ~K!Ours(inbox[k]) /\ ~K!IsError(inbox[k])
    BY <2>1 DEF UncertainIsWaitedFor, K!Ours, K!IsError, Unnumbered
  <2>3. results' = {}
    BY <1>5, <2>1, <2>2 DEF UncertainIsWaitedFor
  <2>4. UNCHANGED pending
    BY <1>1, <1>3, <2>2, <2>3 DEF K!Several
  <2> QED BY <1>2, <2>1, <2>3, <2>4 DEF UncertainIsWaitedFor, K!Idle
<1>10. InOrder' /\ UnnumberedIsOurs' /\ Types'
  BY <1>2, <1>6 DEF InOrder, UnnumberedIsOurs, Types
<1> QED BY <1>7, <1>8, <1>9, <1>10

\* The device replies to the oldest request.
LEMMA ServeStep ==
    ASSUME ClientInv, K!Serve
    PROVE  ClientInv'
<1> DEFINE r == asked[1]
           note == [type |-> "Notification", of |-> r.of]
           type == CASE r.kind = "command" -> "CommandResponse"
                     [] r.kind = "subscription" -> "SubscriptionResponse"
                     [] OTHER -> "Error"
           reply == [of |-> r.of, type |-> type]
<1> USE DEF ClientInv, Types
<1>1. /\ Len(asked) >= 1 /\ Head(asked) = r /\ asked' = Tail(asked)
      /\ UNCHANGED <<handle, pending, results, outcome>>
  <2>1. asked # <<>> /\ asked \in Seq([kind : Kinds, of : Nat])
    BY DEF K!Serve
  <2> QED BY <2>1 DEF K!Serve
<1>2. r \in [kind : Kinds, of : Nat] /\ r.of \in Nat
  <2> HIDE DEF r, Types
  <2>1. 1 \in 1..Len(asked)
    BY <1>1, Elements
  <2> QED BY <2>1, Elements DEF r
<1>3. /\ type \in {"CommandResponse", "SubscriptionResponse", "Error"}
      /\ type = "CommandResponse" <=> r.kind = "command"
  OBVIOUS
<1> HIDE DEF type
<1>4. reply \in Message /\ note \in Message
  BY <1>2, <1>3 DEF Message
<1>5. inbox' \in {Append(inbox, reply), inbox \o <<note, reply>>, inbox \o <<reply, note>>}
  BY <1>1 DEF K!Serve, type
<1>6. /\ inbox' \in Seq(Message) /\ Len(inbox') \in Nat
      /\ \A k \in 1..Len(inbox') : (k <= Len(inbox) /\ inbox'[k] = inbox[k])
                                   \/ inbox'[k] = reply \/ inbox'[k] = note
  <2> HIDE DEF reply, note
  <2>1. CASE inbox' = Append(inbox, reply)
    BY <1>4, <2>1
  <2>2. ASSUME NEW x \in {reply, note}, NEW y \in {reply, note}, inbox' = inbox \o <<x, y>>
        PROVE  /\ inbox' \in Seq(Message) /\ Len(inbox') \in Nat
               /\ \A k \in 1..Len(inbox') : (k <= Len(inbox) /\ inbox'[k] = inbox[k])
                                            \/ inbox'[k] = x \/ inbox'[k] = y
    <3>1. <<x, y>> \in Seq(Message) /\ Len(<<x, y>>) = 2
      BY <1>4
    <3> QED BY <1>4, <2>2, <3>1
  <2> QED BY <1>5, <2>1, <2>2
<1>7. /\ reply.of = r.of /\ reply.type = type
      /\ note.of = r.of /\ note.type = "Notification"
  OBVIOUS
<1> HIDE DEF reply, note
<1>8. /\ asked' \in Seq([kind : Kinds, of : Nat]) /\ Len(asked') = Len(asked) - 1
      /\ \A n \in 1..Len(asked') : n + 1 \in 1..Len(asked) /\ asked'[n] = asked[n + 1]
  BY <1>1
<1>9. r.of <= handle /\ \A n \in 1..Len(asked') : r.of < asked'[n].of
  BY <1>1, <1>8 DEF InOrder
<1>10. InOrder'
  <2>1. \A n \in 1..Len(asked') : asked'[n].of <= handle'
    BY <1>1, <1>8 DEF InOrder
  <2>2. ASSUME NEW n \in 1..Len(asked'), NEW k \in 1..Len(asked'), n < k
        PROVE  asked'[n].of < asked'[k].of
    <3>1. n + 1 \in 1..Len(asked) /\ k + 1 \in 1..Len(asked) /\ n + 1 < k + 1
      <4>1. n \in Nat /\ k \in Nat
        BY <1>8
      <4> QED BY <1>8, <2>2, <4>1
    <3> QED BY <1>8, <3>1 DEF InOrder
  <2>3. \A k \in 1..Len(inbox') : inbox'[k].of <= handle'
    BY <1>1, <1>6, <1>7, <1>9 DEF InOrder
  <2> QED BY <2>1, <2>2, <2>3 DEF InOrder
<1>11. UnnumberedIsOurs'
  <2>1. ASSUME type # "CommandResponse"
        PROVE  ~K!Idle /\ r.of = handle
    BY <1>1, <1>3, <2>1 DEF UncertainIsWaitedFor, Uncertain
  <2>2. ASSUME NEW k \in 1..Len(inbox'), Unnumbered(inbox'[k])
        PROVE  ~K!Idle /\ inbox'[k].of = handle
    <3>1. CASE k <= Len(inbox) /\ inbox'[k] = inbox[k]
      BY <2>2, <3>1 DEF UnnumberedIsOurs
    <3>2. CASE inbox'[k] = reply
      BY <1>3, <1>7, <2>1, <2>2, <3>2 DEF Unnumbered
    <3>3. inbox'[k] # note
      BY <1>7, <2>2 DEF Unnumbered
    <3> QED BY <1>6, <3>1, <3>2, <3>3
  <2> QED BY <1>1, <2>2 DEF UnnumberedIsOurs, K!Idle
<1>12. UncertainIsWaitedFor'
  <2> SUFFICES ASSUME NEW n \in 1..Len(asked'), Uncertain(asked'[n])
               PROVE  /\ ~K!Idle /\ asked'[n].of = handle /\ results = {}
                      /\ \A k \in 1..Len(inbox') : ~Unnumbered(inbox'[k])
                      /\ \A k \in 1..Len(inbox') :
                           inbox'[k].type = "CommandResponse" => inbox'[k].of # handle
    BY <1>1 DEF UncertainIsWaitedFor, K!Idle, Unnumbered
  <2>1. /\ ~K!Idle /\ asked'[n].of = handle /\ results = {}
        /\ \A k \in 1..Len(inbox) : ~Unnumbered(inbox[k])
        /\ \A k \in 1..Len(inbox) :
             inbox[k].type = "CommandResponse" => inbox[k].of # handle
    BY <1>8 DEF UncertainIsWaitedFor
  <2>2. r.of # handle
    BY <1>2, <1>8, <1>9, <2>1
  <2>3. type = "CommandResponse"
    BY <1>1, <1>3, <2>2 DEF UncertainIsWaitedFor, Uncertain
  <2>4. ASSUME NEW k \in 1..Len(inbox')
        PROVE  /\ ~Unnumbered(inbox'[k])
               /\ inbox'[k].type = "CommandResponse" => inbox'[k].of # handle
    <3>1. CASE k <= Len(inbox) /\ inbox'[k] = inbox[k]
      BY <2>1, <3>1
    <3>2. CASE inbox'[k] = reply \/ inbox'[k] = note
      BY <1>7, <2>2, <2>3, <3>2 DEF Unnumbered
    <3> QED BY <1>6, <3>1, <3>2
  <2> QED BY <2>1, <2>4
<1>13. ResultsAreOurs' /\ K!AnswersAreMatched'
  BY <1>1 DEF ResultsAreOurs, K!AnswersAreMatched
<1> QED BY <1>1, <1>6, <1>8, <1>10, <1>11, <1>12, <1>13

--------------------

\* send_command never returns another request's reply, however late the device is
\* with the replies to commands, which bear the handle of their request.
THEOREM LateCommandsAreHarmless ==
    ASSUME Late \subseteq {"command"}
    PROVE  ControlSpec => []AnswersAreMatched
<1>1. ControlInit => ClientInv
  BY DEF ControlInit, K!Init, ClientInv, Types, InOrder, UncertainIsWaitedFor, UnnumberedIsOurs,
         ResultsAreOurs, K!AnswersAreMatched
<1>2. ClientInv /\ [ControlNext]_controlVars => ClientInv'
  <2> SUFFICES ASSUME ClientInv, [ControlNext]_controlVars PROVE ClientInv'
    OBVIOUS
  <2>0. [K!Next]_clientVars
    BY ClientSteps
  <2>1. ASSUME NEW kind \in Kinds, K!Request(kind) PROVE ClientInv'
    BY <2>1, RequestStep, ControlAssumption DEF ControlAssumption
  <2>2. CASE K!StartLogging \/ K!StopLogging \/ UNCHANGED clientVars
    BY <2>2 DEF K!StartLogging, K!StopLogging, clientVars, ClientInv, Types, InOrder, K!Idle,
       UncertainIsWaitedFor, UnnumberedIsOurs, ResultsAreOurs, K!AnswersAreMatched
  <2>3. CASE K!GetNotifications
    BY <2>3 DEF K!GetNotifications, ClientInv, Types, InOrder, K!Idle,
       UncertainIsWaitedFor, UnnumberedIsOurs, ResultsAreOurs, K!AnswersAreMatched
  <2>4. CASE K!Poll
    BY <2>4, PollStep
  <2>5. CASE K!TimeOut
    <3>0. DOMAIN asked = 1..Len(asked)
      BY DEF ClientInv, Types
    <3>1. \A n \in 1..Len(asked) : ~Uncertain(asked[n])
      BY <2>5, <3>0 DEF K!TimeOut, Uncertain
    <3>2. UNCHANGED <<handle, results, asked, inbox>> /\ inbox = <<>>
      BY <2>5 DEF K!TimeOut
    <3>3. K!AnswersAreMatched'
      BY <2>5 DEF K!TimeOut, K!Finish, ClientInv, ResultsAreOurs, K!AnswersAreMatched
    <3> QED BY <3>1, <3>2, <3>3 DEF ClientInv, Types, InOrder, UncertainIsWaitedFor,
            UnnumberedIsOurs, ResultsAreOurs, Uncertain
  <2>6. CASE K!Serve
    BY <2>6, ServeStep
  <2>7. CASE K!Close
    BY <2>7 DEF K!Close, ClientInv, Types, InOrder, K!Idle,
       UncertainIsWaitedFor, UnnumberedIsOurs, ResultsAreOurs, K!AnswersAreMatched
  <2> QED BY <2>0, <2>1, <2>2, <2>3, <2>4, <2>5, <2>6, <2>7 DEF K!Next
<1>3. ClientInv => AnswersAreMatched
  BY DEF ClientInv, AnswersAreMatched
<1> QED BY <1>1, <1>2, <1>3, PTL DEF ControlSpec

--------------------
(* The notifications among the messages, which are collected one by one.    *)

\* f gives the notifications among the first n of the messages, for n up to N.
Collects(f, messages, N) ==
    f = [n \in 0..N |-> IF n = 0 THEN <<>>
                        ELSE IF messages[n].type = "Notification" THEN Append(f[n - 1], messages[n])
                        ELSE f[n - 1]]

LEMMA SomeCollects ==
    ASSUME NEW messages, NEW N \in Nat
    PROVE  \E f : Collects(f, messages, N)
<1> DEFINE S == {n \in Nat : \E f : Collects(f, messages, n)}
<1>1. 0 \in S
  <2> DEFINE f == [n \in 0..0 |-> <<>>]
  <2>1. Collects(f, messages, 0)
    BY DEF Collects
  <2> HIDE DEF f
  <2> QED
    BY <2>1
<1>2. ASSUME NEW n \in S PROVE n + 1 \in S
  <2>1. PICK f : Collects(f, messages, n)
    OBVIOUS
  <2> DEFINE g == [k \in 0..n + 1 |->
                     IF k <= n THEN f[k]
                     ELSE IF messages[k].type = "Notification" THEN Append(f[n], messages[k])
                     ELSE f[n]]
  <2>2. n \in Nat
    OBVIOUS
  <2>3. \A k \in 0..n + 1 :
          g[k] = IF k = 0 THEN <<>>
                 ELSE IF messages[k].type = "Notification" THEN Append(g[k - 1], messages[k])
                 ELSE g[k - 1]
    <3> SUFFICES ASSUME NEW k \in 0..n + 1
                 PROVE  g[k] = IF k = 0 THEN <<>>
                               ELSE IF messages[k].type = "Notification"
                               THEN Append(g[k - 1], messages[k])
                               ELSE g[k - 1]
      OBVIOUS
    <3>1. CASE k = n + 1
      <4>1. k # 0 /\ g[k - 1] = f[n] /\ ~(k <= n)
        BY <3>1, <2>2
      <4> QED
        BY <4>1
    <3>2. CASE k \in 0..n
      <4>1. g[k] = f[k] /\ (k # 0 => g[k - 1] = f[k - 1])
        BY <3>2, <2>2
      <4>2. f[k] = IF k = 0 THEN <<>>
                   ELSE IF messages[k].type = "Notification" THEN Append(f[k - 1], messages[k])
                   ELSE f[k - 1]
        BY <3>2, <2>1 DEF Collects
      <4> HIDE DEF g
      <4> QED
        BY <4>1, <4>2
    <3> QED
      BY <3>1, <3>2, <2>2
  <2>4. Collects(g, messages, n + 1)
    BY <2>3 DEF Collects
  <2> HIDE DEF g
  <2> QED
    BY <2>2, <2>4
<1>3. N \in S
  <2> HIDE DEF S
  <2>1. 0..N \subseteq S
    BY <1>1, <1>2, UpTo
  <2> QED
    BY <2>1
<1> QED
  BY <1>3

LEMMA NotesCollects ==
    ASSUME NEW messages, Len(messages) \in Nat
    PROVE  \E f : Collects(f, messages, Len(messages)) /\ K!Notes(messages) = f[Len(messages)]
<1> DEFINE f == CHOOSE f : Collects(f, messages, Len(messages))
<1>1. Collects(f, messages, Len(messages))
  BY SomeCollects
<1>2. K!Notes(messages) = f[Len(messages)]
  BY DEF K!Notes, Collects
<1> QED
  BY <1>1, <1>2

\* What is known of the notifications among messages: they are messages, and a
\* further message adds itself, if it is one.
LEMMA NotesParts ==
    ASSUME NEW messages \in Seq(Message)
    PROVE  /\ K!Notes(messages) \in Seq(Message)
           /\ \A m \in Message : K!Notes(Append(messages, m)) =
                  IF m.type = "Notification" THEN Append(K!Notes(messages), m) ELSE K!Notes(messages)
<1> DEFINE N == Len(messages)
<1>1. N \in Nat /\ \A n \in 1..N : messages[n] \in Message
  OBVIOUS
<1>2. PICK f : Collects(f, messages, N) /\ K!Notes(messages) = f[N]
  BY <1>1, NotesCollects
<1>3. \A n \in 0..N : f[n] = IF n = 0 THEN <<>>
                             ELSE IF messages[n].type = "Notification"
                             THEN Append(f[n - 1], messages[n])
                             ELSE f[n - 1]
  BY <1>2 DEF Collects
<1>4. f[N] \in Seq(Message)
  <2> DEFINE S == {n \in 0..N : f[n] \in Seq(Message)}
  <2>1. 0 \in S
    <3>1. 0 \in 0..N
      BY <1>1
    <3>2. f[0] = <<>>
      BY <1>3, <3>1
    <3>3. <<>> \in Seq(Message)
      OBVIOUS
    <3> QED
      BY <3>1, <3>2, <3>3
  <2>2. ASSUME NEW n \in 0..N - 1, n \in S PROVE n + 1 \in S
    <3>1. n + 1 \in 0..N /\ n + 1 # 0 /\ (n + 1) - 1 = n /\ messages[n + 1] \in Message
      BY <1>1
    <3>2. f[n + 1] = IF messages[n + 1].type = "Notification" THEN Append(f[n], messages[n + 1]) ELSE f[n]
      BY <1>3, <3>1
    <3>3. f[n] \in Seq(Message)
      BY <2>2
    <3>4. f[n + 1] \in Seq(Message)
      BY <3>1, <3>2, <3>3
    <3> QED
      BY <3>1, <3>4
  <2>3. 0..N \subseteq S
    <3> HIDE DEF S
    <3> QED
      BY <1>1, <2>1, <2>2, UpTo
  <2> QED
    BY <1>1, <2>3
<1>5. ASSUME NEW m \in Message
      PROVE  K!Notes(Append(messages, m)) =
                 IF m.type = "Notification" THEN Append(K!Notes(messages), m) ELSE K!Notes(messages)
  <2> DEFINE more == Append(messages, m)
  <2>1. /\ Len(more) = N + 1 /\ more[N + 1] = m
        /\ \A n \in 1..N : more[n] = messages[n]
    OBVIOUS
  <2> HIDE DEF more
  <2>2. PICK g : Collects(g, more, N + 1) /\ K!Notes(more) = g[N + 1]
    BY <1>1, <2>1, NotesCollects
  <2>3. \A n \in 0..N + 1 : g[n] = IF n = 0 THEN <<>>
                                   ELSE IF more[n].type = "Notification"
                                   THEN Append(g[n - 1], more[n])
                                   ELSE g[n - 1]
    BY <2>2 DEF Collects
  <2> DEFINE S == {n \in 0..N : g[n] = f[n]}
  <2>4. 0 \in S
    BY <1>1, <1>3, <2>3
  <2>5. ASSUME NEW n \in 0..N - 1, n \in S PROVE n + 1 \in S
    <3>1. /\ n + 1 \in 0..N /\ n + 1 \in 0..N + 1 /\ n + 1 # 0 /\ (n + 1) - 1 = n
          /\ more[n + 1] = messages[n + 1]
      BY <1>1, <2>1
    <3>2. f[n + 1] = IF messages[n + 1].type = "Notification" THEN Append(f[n], messages[n + 1]) ELSE f[n]
      BY <1>3, <3>1
    <3>3. g[n + 1] = IF messages[n + 1].type = "Notification" THEN Append(g[n], messages[n + 1]) ELSE g[n]
      BY <2>3, <3>1
    <3> QED
      BY <2>5, <3>1, <3>2, <3>3
  <2>6. g[N] = f[N]
    <3>1. 0..N \subseteq S
      <4> HIDE DEF S
      <4> QED
        BY <1>1, <2>4, <2>5, UpTo
    <3> QED
      BY <1>1, <3>1
  <2>7. N + 1 \in 0..N + 1 /\ N + 1 # 0 /\ (N + 1) - 1 = N
    BY <1>1
  <2>8. g[N + 1] = IF m.type = "Notification" THEN Append(g[N], m) ELSE g[N]
    BY <2>1, <2>3, <2>7
  <2>9. K!Notes(more) = IF m.type = "Notification" THEN Append(K!Notes(messages), m) ELSE K!Notes(messages)
    BY <1>2, <2>2, <2>6, <2>8
  <2> QED
    BY <2>9 DEF more
<1> QED
  BY <1>2, <1>4, <1>5

LEMMA NoNotes == K!Notes(<<>>) = <<>>
<1>1. Len(<<>>) = 0
  OBVIOUS
<1>2. PICK f : Collects(f, <<>>, 0) /\ K!Notes(<<>>) = f[0]
  BY <1>1, NotesCollects
<1> QED
  BY <1>2 DEF Collects

--------------------

\* What was sent while notifications are logged is in the log or on its way there.
KeptInv ==
    /\ asked \in Seq([kind : Kinds, of : Nat]) /\ handle \in Nat
    /\ inbox \in Seq(Message) /\ log \in Seq(Message) /\ told \in Seq(Message)
    /\ K!NotificationsAreKept

\* The messages that one poll goes through.
LEMMA PollKeepsNotifications ==
    ASSUME KeptInv, K!Poll
    PROVE  KeptInv'
<1>1. PICK until \in DOMAIN inbox :
        /\ log' = log \o K!Notes(SubSeq(inbox, 1, until))
        /\ lost' = (lost \/ K!Notes(inbox) # K!Notes(SubSeq(inbox, 1, until)))
  BY DEF K!Poll
<1>2. inbox' = <<>> /\ UNCHANGED <<handle, expect, asked, told>>
  BY DEF K!Poll
<1>3. inbox \in Seq(Message) /\ log \in Seq(Message)
  BY DEF KeptInv
<1> DEFINE seen == SubSeq(inbox, 1, until)
<1>4. seen \in Seq(Message)
  <2>1. until \in 1..Len(inbox)
    BY <1>3
  <2> QED
    BY <1>3, <2>1
<1> HIDE DEF seen
<1>5. K!Notes(seen) \in Seq(Message) /\ log' = log \o K!Notes(seen)
  BY <1>1, <1>4, NotesParts DEF seen
<1>6. log' \in Seq(Message) /\ log' \o <<>> = log'
  BY <1>3, <1>5
<1>7. K!NotificationsAreKept'
  <2> SUFFICES ASSUME expect', ~lost' PROVE log' \o K!Notes(<<>>) = told'
    BY <1>2 DEF K!NotificationsAreKept
  <2>1. K!Notes(inbox) = K!Notes(seen) /\ ~lost /\ expect
    BY <1>1, <1>2 DEF seen
  <2> QED
    BY <2>1, <1>2, <1>5, <1>6, NoNotes DEF KeptInv, K!NotificationsAreKept
<1> QED
  BY <1>2, <1>6, <1>7 DEF KeptInv

\* The device sends its notification before or after the reply.
LEMMA ServeKeepsNotifications ==
    ASSUME KeptInv, K!Serve
    PROVE  KeptInv'
<1> DEFINE R == [kind : Kinds, of : Nat]
           r == Head(asked)
           note == [type |-> "Notification", of |-> r.of]
           reply == [of |-> r.of,
                     type |-> CASE r.kind = "command" -> "CommandResponse"
                                [] r.kind = "subscription" -> "SubscriptionResponse"
                                [] OTHER -> "Error"]
<1>1. asked # <<>> /\ asked \in Seq(R) /\ asked' = Tail(asked)
  BY DEF KeptInv, K!Serve
<1>2. r \in R /\ asked' \in Seq(R)
  <2> HIDE DEF R
  <2> QED
    BY <1>1
<1>3. note \in Message /\ reply \in Message /\ reply.type # "Notification"
  BY <1>2 DEF Message
<1>4. /\ UNCHANGED <<handle, expect, log, lost>>
      /\ \/ inbox' = Append(inbox, reply) /\ UNCHANGED told
         \/ inbox' = inbox \o <<note, reply>> /\ told' = Append(told, note)
         \/ inbox' = inbox \o <<reply, note>> /\ told' = Append(told, note)
  BY DEF K!Serve
<1>5. note.type = "Notification"
  OBVIOUS
<1> HIDE DEF note, reply
<1>6. inbox \in Seq(Message) /\ log \in Seq(Message) /\ told \in Seq(Message)
  BY DEF KeptInv
<1>7. K!Notes(inbox) \in Seq(Message)
  BY <1>6, NotesParts
<1>8. CASE inbox' = Append(inbox, reply) /\ UNCHANGED told
  <2>1. inbox' \in Seq(Message) /\ K!Notes(inbox') = K!Notes(inbox)
    BY <1>3, <1>6, <1>8, NotesParts
  <2> QED
    BY <2>1, <1>2, <1>4, <1>8 DEF KeptInv, K!NotificationsAreKept
<1>9. CASE \/ inbox' = inbox \o <<note, reply>> /\ told' = Append(told, note)
           \/ inbox' = inbox \o <<reply, note>> /\ told' = Append(told, note)
  <2>1. told' = Append(told, note) /\ told' \in Seq(Message)
    <3>1. told' = Append(told, note)
      BY <1>9
    <3> QED
      BY <3>1, <1>3, <1>6
  <2>2. inbox' \in Seq(Message) /\ K!Notes(inbox') = Append(K!Notes(inbox), note)
    <3>1. \A m, n \in Message : /\ inbox \o <<m, n>> = Append(Append(inbox, m), n)
                                /\ Append(inbox, m) \in Seq(Message)
                                /\ Append(Append(inbox, m), n) \in Seq(Message)
      BY <1>6
    <3>2. CASE inbox' = inbox \o <<note, reply>>
      <4>1. inbox' = Append(Append(inbox, note), reply)
        BY <3>1, <3>2, <1>3
      <4>2. K!Notes(Append(inbox, note)) = Append(K!Notes(inbox), note)
        BY <1>3, <1>5, <1>6, NotesParts
      <4> QED
        BY <4>1, <4>2, <3>1, <1>3, NotesParts
    <3>3. CASE inbox' = inbox \o <<reply, note>>
      <4>1. inbox' = Append(Append(inbox, reply), note)
        BY <3>1, <3>3, <1>3
      <4>2. K!Notes(Append(inbox, reply)) = K!Notes(inbox)
        BY <1>3, <1>6, NotesParts
      <4> QED
        BY <4>1, <4>2, <3>1, <1>3, <1>5, NotesParts
    <3> QED
      BY <3>2, <3>3, <1>9
  <2>3. log \o Append(K!Notes(inbox), note) = Append(log \o K!Notes(inbox), note)
    BY <1>3, <1>6, <1>7
  <2>4. K!NotificationsAreKept'
    BY <2>1, <2>2, <2>3, <1>4 DEF KeptInv, K!NotificationsAreKept
  <2> QED
    BY <2>1, <2>2, <2>4, <1>2, <1>4, <1>6 DEF KeptInv
<1> QED
  BY <1>4, <1>8, <1>9

\* While notifications are logged, each one that comes is in the log or still in the
\* socket, in the device's order, over any number of requests and however late the
\* device is with whatever reply, unless an Error came before it in one poll.
THEOREM NotificationsAreNotMissed == ControlSpec => []NotificationsAreKept
<1>1. ControlInit => KeptInv
  BY NoNotes DEF ControlInit, K!Init, KeptInv, K!NotificationsAreKept
<1>2. KeptInv /\ [ControlNext]_controlVars => KeptInv'
  <2> SUFFICES ASSUME KeptInv, [ControlNext]_controlVars PROVE KeptInv'
    OBVIOUS
  <2>0. [K!Next]_clientVars
    BY ClientSteps
  <2>1. inbox \in Seq(Message) /\ log \in Seq(Message) /\ K!Notes(inbox) \in Seq(Message)
    BY NotesParts DEF KeptInv
  <2>2. ASSUME NEW kind \in Kinds, K!Request(kind) PROVE KeptInv'
    <3> DEFINE R == [kind : Kinds, of : Nat]
               r == [kind |-> kind, of |-> handle + 1]
    <3>1. handle' = handle + 1 /\ handle \in Nat /\ asked' \in {asked, Append(asked, r)}
      BY <2>2 DEF K!Request, KeptInv
    <3>2. r \in R /\ asked \in Seq(R)
      BY <3>1 DEF KeptInv
    <3>3. asked' \in Seq(R)
      <4> HIDE DEF R, r
      <4> QED
        BY <3>1, <3>2
    <3> QED
      BY <2>2, <3>1, <3>3 DEF K!Request, KeptInv, K!NotificationsAreKept
  <2>3. CASE K!StartLogging
    <3>1. log' = <<>> /\ told' = K!Notes(inbox) /\ UNCHANGED <<handle, asked, inbox>>
      BY <2>3 DEF K!StartLogging
    <3>2. <<>> \in Seq(Message) /\ <<>> \o K!Notes(inbox) = K!Notes(inbox)
      BY <2>1
    <3> QED
      BY <3>1, <3>2, <2>1 DEF KeptInv, K!NotificationsAreKept
  <2>4. CASE K!StopLogging \/ K!TimeOut \/ UNCHANGED clientVars
    <3>1. UNCHANGED <<handle, asked, inbox, log, told, lost>> /\ (expect' => expect)
      BY <2>4 DEF K!StopLogging, K!TimeOut, clientVars
    <3> QED
      BY <3>1 DEF KeptInv, K!NotificationsAreKept
  <2>5. CASE K!GetNotifications
    <3>1. /\ log' = log \o K!Notes(inbox) /\ inbox' = <<>>
          /\ UNCHANGED <<handle, asked, told, expect, lost>>
      BY <2>5 DEF K!GetNotifications
    <3>2. log' \in Seq(Message) /\ log' \o <<>> = log'
      BY <3>1, <2>1
    <3> QED
      BY <3>1, <3>2, NoNotes DEF KeptInv, K!NotificationsAreKept
  <2>6. CASE K!Poll
    BY <2>6, PollKeepsNotifications
  <2>7. CASE K!Serve
    BY <2>7, ServeKeepsNotifications
  <2>8. CASE K!Close
    BY <2>8 DEF K!Close, KeptInv, K!NotificationsAreKept
  <2> QED
    BY <2>0, <2>2, <2>3, <2>4, <2>5, <2>6, <2>7, <2>8 DEF K!Next
<1>3. KeptInv => NotificationsAreKept
  BY DEF KeptInv, NotificationsAreKept
<1> QED
  BY <1>1, <1>2, <1>3, PTL DEF ControlSpec
--------------------
(* MS-05: the walk through a device model.                                  *)

\* What the walk has to do, the device, and what is noted of it.
Item == {"block"} \X D!Block \cup {"member"} \X D!Object
Model ==
    [role : [D!Object -> D!Object], oid : [D!Object -> D!Object], owner : [D!Object -> D!Block],
     class : [D!Object -> D!Class], wrong : SUBSET (D!Object \X (D!Kind \cup {"type"})),
     loses : {"nothing", "one", "lost"}]
ModelNotes ==
    [left : Seq(Item), done : BOOLEAN, oids : SUBSET D!Object, classes : SUBSET D!Class,
     errors : SUBSET D!Kind, checked : SUBSET D!Kind]
ModelTypes == IsRun /\ device \in Model /\ noted \in ModelNotes

\* The walk has come to these objects, in these blocks, and to no object or block twice.
Visited(visited, opened) ==
    /\ noted.oids = {device.oid[o] : o \in visited}
    /\ \A o \in visited : D!BlockOf(o) \in opened
    /\ \A b \in opened : b = Root \/ D!BlockOf(b) \in opened
    /\ Distinct(noted.left)
    /\ \A x \in Elems(noted.left) :
         /\ x[2] \in D!Object /\ D!BlockOf(x[2]) \in opened
         /\ x[1] = "block" => x[2] \notin opened
         /\ x[1] = "member" => x[2] \notin visited

\* As long as no walk is broken off there is only one.
OneWalk ==
    /\ at.step # "walk" => noted.left = <<>> /\ (noted.done \/ noted.oids = {})
    /\ at.step = "walk" =>
         \E visited \in SUBSET D!Object, opened \in SUBSET D!Block : Visited(visited, opened)

FailedTests == {t \in DOMAIN verdict : verdict[t] = "FAIL"}

\* What has failed of a device whose model is right.
OneFails ==
    /\ device.loses # "lost" => FailedTests = {}
    /\ \E test : FailedTests \subseteq {test, "test_04"}

ModelInv ==
    /\ ModelTypes
    /\ D!ErrorsAreReal
    /\ D!Broken \/ OneWalk
    /\ D!Wrong(device) = {} => OneFails

\* The suite's own words for its run are those of Suite.
LEMMA ModelRun ==
    /\ \A v : D!Conclude(v) <=> Conclude(v)
    /\ \A step : D!Goto(step) <=> Step(step, 0)
    /\ \A tests, step : D!On(tests, step) <=> On(tests, step)
    /\ D!Ended <=> Ended
    /\ D!Verdict = Verdict /\ D!NoVerdicts(D!Order) = NoVerdicts(D!Order)
    /\ \A plan : D!Position(plan) = Position(plan)
    /\ \A s, set : D!Select(s, set) = Select(s, set)
<1>1. \A s, set : D!Select(s, set) = Select(s, set)
  BY DEF D!Select, Select
<1> QED BY <1>1 DEF D!Conclude, Conclude, D!Position, Position, D!Goto, D!Step, Step, D!On, On, D!Ended, Ended,
     D!Verdict, Verdict, D!NoVerdicts, NoVerdicts

\* Each object is a member of one block.
LEMMA Blocks ==
    /\ Root \in D!Block /\ Root \notin D!Object
    /\ \A b \in D!Block : Members[b] \in Seq(D!Object) /\ Distinct(Members[b])
                          /\ Elems(Members[b]) = D!Range(Members[b])
    /\ \A o \in D!Object : /\ D!BlockOf(o) \in D!Block
                           /\ o \in Elems(Members[D!BlockOf(o)])
                           /\ \A b \in D!Block : o \in Elems(Members[b]) => b = D!BlockOf(o)
<1>1. D!DeviceModelTestsAssumption
  BY ControlAssumption DEF ControlAssumption
<1>2. \A b \in D!Block : Members[b] \in Seq(D!Object) /\ D!IsInjective(Members[b])
  BY <1>1 DEF D!DeviceModelTestsAssumption
<1>3. ASSUME NEW b \in D!Block
      PROVE Distinct(Members[b]) /\ Elems(Members[b]) = D!Range(Members[b])
  <2>1. DOMAIN Members[b] = 1..Len(Members[b])
    BY <1>2
  <2> QED BY <1>2, <2>1 DEF Distinct, Elems, D!Range, D!IsInjective
<1>4. ASSUME NEW o \in D!Object
      PROVE  /\ D!BlockOf(o) \in D!Block
             /\ o \in Elems(Members[D!BlockOf(o)])
             /\ \A b \in D!Block : o \in Elems(Members[b]) => b = D!BlockOf(o)
  <2>1. PICK b \in D!Block : \A c \in D!Block : o \in D!Range(Members[c]) <=> c = b
    BY <1>1 DEF D!DeviceModelTestsAssumption
  <2>2. D!BlockOf(o) \in D!Block /\ o \in D!Range(Members[D!BlockOf(o)])
    BY <2>1 DEF D!BlockOf
  <2> QED BY <1>3, <2>1, <2>2
<1> QED BY <1>1, <1>2, <1>3, <1>4 DEF D!DeviceModelTestsAssumption

\* What comes before an object in its block is beside it.
LEMMA BeforeIsBeside ==
    ASSUME NEW o \in D!Object
    PROVE  D!Before(o) \subseteq D!Siblings(o) /\ D!Siblings(o) \subseteq D!Object \ {o}
<1> DEFINE seq == Members[D!BlockOf(o)]
<1>1. seq \in Seq(D!Object) /\ Distinct(seq) /\ Elems(seq) = D!Range(seq) /\ o \in Elems(seq)
  BY Blocks
<1>2. D!Siblings(o) = D!Range(seq) \ {o}
  BY DEF D!Siblings
<1>3. D!Before(o) = {seq[i] : i \in 1..(CHOOSE j \in DOMAIN seq : seq[j] = o) - 1}
  BY DEF D!Before
<1> HIDE DEF seq
<1>4. PICK j \in 1..Len(seq) : seq[j] = o /\ j = CHOOSE k \in DOMAIN seq : seq[k] = o
  <2>1. DOMAIN seq = 1..Len(seq) /\ \E k \in DOMAIN seq : seq[k] = o
    BY <1>1 DEF Elems
  <2> QED BY <2>1
<1>5. \A i \in 1..(j - 1) : i \in 1..Len(seq) /\ seq[i] # o
  <2>1. \A i \in 1..(j - 1) : i \in 1..Len(seq) /\ i # j
    <3>1. Len(seq) \in Nat
      BY <1>1
    <3> QED BY <3>1
  <2> QED BY <1>1, <1>4, <2>1 DEF Distinct
<1>6. D!Before(o) \subseteq Elems(seq) \ {o}
  BY <1>3, <1>4, <1>5 DEF Elems
<1>7. Elems(seq) \subseteq D!Object
  BY <1>1 DEF Elems
<1> QED BY <1>1, <1>2, <1>6, <1>7

\* When a kind of mistake is in a model.
LEMMA WrongParts ==
    ASSUME NEW d
    PROVE  /\ D!Wrong(d) \subseteq D!Kind
           /\ "roles" \in D!Wrong(d) <=> \E o \in D!Object : \E p \in D!Siblings(o) : d.role[p] = d.role[o]
           /\ "oids" \in D!Wrong(d) <=> \E o \in D!Object : D!Duplicate(d.oid, o)
           /\ "organization" \in D!Wrong(d) <=> \E o \in D!Object : d.class[o] = "stray"
           /\ "root" \in D!Wrong(d) <=> \E o \in D!Object : d.class[o] \in Manager /\ D!BlockOf(o) # Root
           /\ "singletons" \in D!Wrong(d) <=> \E o \in D!Object : d.class[o] \in Manager /\ D!Duplicate(d.class, o)
           /\ "model" \in D!Wrong(d) <=> \E o \in D!Object :
                 d.owner[o] # D!BlockOf(o) \/ d.class[o] = "stray" \/ <<o, "type">> \in d.wrong
           /\ \A k \in D!Details \cup {"touchpoints"} :
                 k \in D!Wrong(d) <=> \E o \in D!Object : <<o, k>> \in d.wrong
<1> HIDE DEF D!Object, D!Siblings, D!Duplicate, D!BlockOf
<1>1. D!Wrong(d) \subseteq D!Kind
  BY DEF D!Wrong
<1>2. "roles" \in D!Kind /\ "oids" \in D!Kind /\ "organization" \in D!Kind /\ "root" \in D!Kind
      /\ "singletons" \in D!Kind /\ "model" \in D!Kind
  BY DEF D!Kind
<1>3. "roles" \in D!Wrong(d) <=> \E o \in D!Object : \E p \in D!Siblings(o) : d.role[p] = d.role[o]
  BY <1>2 DEF D!Wrong
<1>4. "oids" \in D!Wrong(d) <=> \E o \in D!Object : D!Duplicate(d.oid, o)
  BY <1>2 DEF D!Wrong
<1>5. "organization" \in D!Wrong(d) <=> \E o \in D!Object : d.class[o] = "stray"
  BY <1>2 DEF D!Wrong
<1>6. "root" \in D!Wrong(d) <=> \E o \in D!Object : d.class[o] \in Manager /\ D!BlockOf(o) # Root
  BY <1>2 DEF D!Wrong
<1>7. "singletons" \in D!Wrong(d) <=> \E o \in D!Object : d.class[o] \in Manager /\ D!Duplicate(d.class, o)
  BY <1>2 DEF D!Wrong
<1>8. "model" \in D!Wrong(d) <=> \E o \in D!Object :
          d.owner[o] # D!BlockOf(o) \/ d.class[o] = "stray" \/ <<o, "type">> \in d.wrong
  BY <1>2 DEF D!Wrong
<1>9. ASSUME NEW k \in D!Details \cup {"touchpoints"}
      PROVE  k \in D!Wrong(d) <=> \E o \in D!Object : <<o, k>> \in d.wrong
  <2>1. k \in D!Kind /\ k \notin {"roles", "oids", "organization", "root", "singletons", "model"}
    BY DEF D!Kind, D!Details
  <2> QED BY <2>1 DEF D!Wrong
<1> QED BY <1>1, <1>3, <1>4, <1>5, <1>6, <1>7, <1>8, <1>9


\* What the check of one object finds wrong, is wrong in the model, but for the ids.
LEMMA ErrorsOfAreReal ==
    ASSUME device \in Model, NEW o \in D!Object
    PROVE  /\ D!ErrorsOf(o) \subseteq D!Kind
           /\ D!ErrorsOf(o) \ {"oids", "root"} \subseteq D!Wrong(device)
           /\ "root" \in D!ErrorsOf(o) => D!Wrong(device) \cap {"root", "model"} # {}
           /\ "oids" \in D!ErrorsOf(o) => device.oid[o] \in noted.oids
<1> HIDE DEF D!Object, D!Siblings
<1>1. D!BadOf(o) = {k \in D!Kind : <<o, k>> \in device.wrong}
  BY DEF D!BadOf
<1>2. "roles" \in D!ErrorsOf(o) => \E p \in D!Siblings(o) : device.role[p] = device.role[o]
  BY BeforeIsBeside DEF D!ErrorsOf, D!Only, D!Details, D!BadOf
<1>3. "oids" \in D!ErrorsOf(o) => device.oid[o] \in noted.oids
  BY DEF D!ErrorsOf, D!Only, D!Details, D!BadOf
<1>4. "model" \in D!ErrorsOf(o) => device.owner[o] # D!BlockOf(o) \/ device.class[o] = "stray"
  BY DEF D!ErrorsOf, D!Only, D!Details, D!BadOf
<1>5. "root" \in D!ErrorsOf(o) => device.class[o] \in Manager /\ device.owner[o] # Root
  BY DEF D!ErrorsOf, D!Only, D!Details, D!BadOf
<1>6. "singletons" \in D!ErrorsOf(o) => device.class[o] \in Manager /\ D!Again(o)
  BY DEF D!ErrorsOf, D!Only, D!Details, D!BadOf
<1>7. "organization" \in D!ErrorsOf(o) => device.class[o] = "stray"
  BY DEF D!ErrorsOf, D!Only, D!Details, D!BadOf
<1>8. \A k \in D!ErrorsOf(o) \ {"roles", "oids", "model", "root", "singletons", "organization"} :
         k \in D!Details \cup {"touchpoints"} /\ <<o, k>> \in device.wrong
  BY <1>1 DEF D!ErrorsOf, D!Only
<1>9. D!Again(o) => D!Duplicate(device.class, o)
  BY BeforeIsBeside DEF D!Again, D!Duplicate
<1>10. D!ErrorsOf(o) \subseteq D!Kind
  BY <1>1 DEF D!ErrorsOf, D!Only, D!Kind
<1>11. "roles" \in D!ErrorsOf(o) => "roles" \in D!Wrong(device)
  BY <1>2, WrongParts
<1>12. "model" \in D!ErrorsOf(o) => "model" \in D!Wrong(device)
  BY <1>4, WrongParts
<1>13. "singletons" \in D!ErrorsOf(o) => "singletons" \in D!Wrong(device)
  BY <1>6, <1>9, WrongParts
<1>14. "organization" \in D!ErrorsOf(o) => "organization" \in D!Wrong(device)
  BY <1>7, WrongParts
<1>15. "root" \in D!ErrorsOf(o) => D!Wrong(device) \cap {"root", "model"} # {}
  <2>1. "root" \in D!ErrorsOf(o) => "model" \in D!Wrong(device) \/ "root" \in D!Wrong(device)
    BY <1>5, WrongParts
  <2> QED BY <2>1
<1>16. \A k \in D!Details \cup {"touchpoints"} : <<o, k>> \in device.wrong => k \in D!Wrong(device)
  BY WrongParts
<1> HIDE DEF D!ErrorsOf
<1>17. D!ErrorsOf(o) \ {"oids", "root"} \subseteq D!Wrong(device)
  BY <1>8, <1>11, <1>12, <1>13, <1>14, <1>16
<1> QED BY <1>3, <1>10, <1>15, <1>17

\* What is wrong does not depend on what is lost.
LEMMA WrongStays ==
    ASSUME device \in Model, device' \in {device, [device EXCEPT !.loses = "lost"]}
    PROVE  /\ device' \in Model /\ D!Wrong(device') = D!Wrong(device)
           /\ D!Broken => D!Broken'
           /\ device'.oid = device.oid
<1>1. /\ device'.role = device.role /\ device'.oid = device.oid /\ device'.owner = device.owner
      /\ device'.class = device.class /\ device'.wrong = device.wrong
      /\ device'.loses \in {device.loses, "lost"} /\ device' \in Model
  BY DEF Model
<1>2. D!Wrong(device') = D!Wrong(device)
  BY <1>1 DEF D!Wrong, D!Duplicate
<1>3. D!Broken => D!Broken'
  BY <1>1 DEF D!Broken
<1> QED BY <1>1, <1>2, <1>3

\* The blocks of a block, then its members.
LEMMA ChecksParts ==
    ASSUME NEW b \in D!Block
    PROVE  /\ D!Checks(b) \in Seq(Item) /\ Distinct(D!Checks(b))
           /\ \A x \in Elems(D!Checks(b)) :
                /\ x[2] \in D!Object /\ D!BlockOf(x[2]) = b
                /\ x[1] = "block" => x[2] \in D!Block
<1> DEFINE below == D!Select(Members[b], D!Block)
<1> USE DEF Item
<1>1. /\ below \in Seq(D!Object) /\ Distinct(below) /\ Elems(below) = Elems(Members[b]) \cap D!Block
  BY ModelRun, Blocks, SelectParts
<1>2. Members[b] \in Seq(D!Object) /\ Distinct(Members[b])
      /\ \A o \in Elems(Members[b]) : o \in D!Object /\ D!BlockOf(o) = b
  <2>1. Members[b] \in Seq(D!Object) /\ Distinct(Members[b])
    BY Blocks
  <2>2. Elems(Members[b]) \subseteq D!Object
    BY <2>1 DEF Elems
  <2> QED BY <2>1, <2>2, Blocks
<1> HIDE DEF below, Item
<1>3. ASSUME NEW s \in Seq(D!Object), Distinct(s), NEW what, \A o \in Elems(s) : <<what, o>> \in Item
      PROVE  /\ D!Each(what, s) \in Seq(Item) /\ Distinct(D!Each(what, s))
             /\ Elems(D!Each(what, s)) = {<<what, o>> : o \in Elems(s)}
  <2> DEFINE t == D!Each(what, s)
  <2>1. t = [i \in 1..Len(s) |-> <<what, s[i]>>] /\ Len(s) \in Nat
    BY DEF D!Each
  <2>2. \A i \in 1..Len(s) : t[i] \in Item
    BY <1>3, <2>1 DEF Elems
  <2>3. t \in Seq(Item) /\ Len(t) = Len(s)
    BY <2>1, <2>2
  <2>4. \A i \in 1..Len(s) : t[i] = <<what, s[i]>>
    BY <2>1
  <2> HIDE DEF t
  <2>5. Distinct(t)
    BY <1>3, <2>3, <2>4 DEF Distinct
  <2>6. Elems(t) = {<<what, o>> : o \in Elems(s)}
    BY <2>3, <2>4 DEF Elems
  <2> QED BY <2>3, <2>5, <2>6 DEF t
<1>4. \A o \in Elems(below) : <<"block", o>> \in Item
  BY <1>1 DEF Item
<1>5. \A o \in Elems(Members[b]) : <<"member", o>> \in Item
  BY <1>2 DEF Item
<1> DEFINE s == D!Each("block", below)  t == D!Each("member", Members[b])
<1>6. s \in Seq(Item) /\ Distinct(s) /\ Elems(s) = {<<"block", o>> : o \in Elems(below)}
  BY <1>1, <1>3, <1>4
<1>7. t \in Seq(Item) /\ Distinct(t) /\ Elems(t) = {<<"member", o>> : o \in Elems(Members[b])}
  BY <1>2, <1>3, <1>5
<1>8. D!Checks(b) = s \o t
  BY DEF D!Checks, below
<1> HIDE DEF s, t
<1>9. Elems(s) \cap Elems(t) = {}
  BY <1>6, <1>7
<1>10. D!Checks(b) \in Seq(Item) /\ Distinct(D!Checks(b)) /\ Elems(D!Checks(b)) = Elems(s) \cup Elems(t)
  BY <1>6, <1>7, <1>8, <1>9, ConcatParts
<1> QED BY <1>1, <1>2, <1>6, <1>7, <1>10


LEMMA ModelBegins == D!Init => ModelInv
<1> SUFFICES ASSUME D!Init PROVE ModelInv
  OBVIOUS
<1>0. D!DeviceModelTestsAssumption
  BY ControlAssumption DEF ControlAssumption
<1>1. D!Perfect \in Model
  <2>1. ClassOf \in [D!Object -> D!Class]
    BY <1>0 DEF D!DeviceModelTestsAssumption
  <2> QED BY <2>1, Blocks DEF D!Perfect, Model
<1>2. \A d \in D!Mistaken : d \in Model
  <2>1. \A o, p \in D!Object : /\ [D!Perfect EXCEPT !.role[o] = p] \in Model
                               /\ [D!Perfect EXCEPT !.oid[o] = p] \in Model
    BY <1>1 DEF Model
  <2>2. \A o \in D!Object, b \in D!Block : [D!Perfect EXCEPT !.owner[o] = b] \in Model
    BY <1>1 DEF Model
  <2>3. \A o \in D!Object, c \in {"stray"} \cup Manager : [D!Perfect EXCEPT !.class[o] = c] \in Model
    <3>1. {"stray"} \cup Manager \subseteq D!Class
      BY <1>0 DEF D!DeviceModelTestsAssumption, D!Class
    <3> QED BY <1>1, <3>1 DEF Model
  <2>4. \A x \in D!Object \X (D!Kind \cup {"type"}) : [D!Perfect EXCEPT !.wrong = {x}] \in Model
    BY <1>1 DEF Model
  <2>5. D!Details \cup {"touchpoints"} \subseteq D!Kind
    BY DEF D!Kind
  <2> SUFFICES ASSUME NEW d \in D!Mistaken PROVE d \in Model
    OBVIOUS
  <2> HIDE DEF D!Object, D!Details, D!Kind
  <2>6. CASE d \in {[D!Perfect EXCEPT !.role[o] = p] : o \in D!Object, p \in D!Object}
    <3>1. PICK o \in D!Object, p \in D!Object : d = [D!Perfect EXCEPT !.role[o] = p]
      BY <2>6
    <3> QED BY <2>1, <3>1
  <2>7. CASE d \in {[D!Perfect EXCEPT !.oid[o] = p] : o \in D!Object, p \in D!Object}
    <3>1. PICK o \in D!Object, p \in D!Object : d = [D!Perfect EXCEPT !.oid[o] = p]
      BY <2>7
    <3> QED BY <2>1, <3>1
  <2>8. CASE d \in {[D!Perfect EXCEPT !.owner[o] = b] : o \in D!Object, b \in D!Block}
    BY <2>2, <2>8
  <2>9. CASE d \in {[D!Perfect EXCEPT !.class[o] = c] : o \in D!Object \ D!Block, c \in {"stray"} \cup Manager}
    BY <2>3, <2>9
  <2>10. CASE d \in {[D!Perfect EXCEPT !.wrong = {x}] :
                     x \in {<<o, "type">> : o \in D!Object}
                           \cup {x \in D!Object \X (D!Details \cup {"touchpoints"}) :
                                   x[2] \in Features[ClassOf[x[1]]]}}
    BY <2>4, <2>5, <2>10
  <2> QED BY <2>6, <2>7, <2>8, <2>9, <2>10 DEF D!Mistaken
<1>3. device \in Model
  <2>1. PICK d \in {D!Perfect} \cup D!Mistaken, loses \in {"nothing", "one"} :
           device = [d EXCEPT !.loses = loses]
    BY DEF D!Init
  <2> QED BY <1>1, <1>2, <2>1 DEF Model
<1>4. noted \in ModelNotes /\ noted.left = <<>> /\ noted.oids = {} /\ noted.errors = {}
  BY DEF D!Init, D!NothingNoted, ModelNotes
<1>5. IsRun /\ at.step = "begin" /\ FailedTests = {}
  <2>1. PICK plan : at = Position(plan)
    BY ModelRun DEF D!Init
  <2>2. verdict = NoVerdicts(D!Order)
    BY ModelRun DEF D!Init
  <2> QED BY <2>1, <2>2, RunBegins DEF FailedTests
<1> QED BY <1>3, <1>4, <1>5 DEF ModelInv, ModelTypes, D!ErrorsAreReal, OneWalk, OneFails

\* What a verdict does to the tests that have failed.
LEMMA FailedParts ==
    ASSUME IsRun, NEW v \in Verdict, Conclude(v)
    PROVE  /\ FailedTests' \subseteq FailedTests \cup {Head(at.plan)}
           /\ v # "FAIL" => FailedTests' \subseteq FailedTests
BY TestEnds DEF FailedTests

\* Nothing is noted in most steps.
LEMMA ModelSetUp ==
    ASSUME ModelInv, D!SetUp \/ D!TearDown
    PROVE  ModelInv'
<1>1. Conclude("PASS") /\ at.step = "begin" /\ device' = device /\ noted' \in {D!NothingNoted, noted}
  BY ModelRun DEF D!SetUp, D!TearDown, On
<1>2. "PASS" \in Verdict
  BY DEF Verdict
<1>3. IsRun' /\ at'.step = "begin" /\ FailedTests' \subseteq FailedTests
  BY <1>1, <1>2, TestEnds, FailedParts DEF ModelInv, ModelTypes
<1>4. /\ D!NothingNoted \in ModelNotes /\ D!NothingNoted.left = <<>> /\ D!NothingNoted.oids = {}
      /\ D!NothingNoted.errors = {}
  BY DEF D!NothingNoted, ModelNotes
<1>5. ModelTypes' /\ D!ErrorsAreReal'
  BY <1>1, <1>3, <1>4 DEF ModelInv, ModelTypes, D!ErrorsAreReal, D!Broken
<1>6. D!Broken' <=> D!Broken
  BY <1>1 DEF D!Broken
<1>7. OneWalk => OneWalk'
  BY <1>1, <1>3, <1>4 DEF OneWalk
<1>8. D!Wrong(device) = {} => OneFails'
  BY <1>1, <1>3 DEF ModelInv, OneFails
<1> QED BY <1>1, <1>5, <1>6, <1>7, <1>8 DEF ModelInv

\* A walk begins at the root.
LEMMA WalkStep ==
    ASSUME ModelInv, D!Walk
    PROVE  ModelInv'
<1>1. /\ at.step = "begin" /\ ~noted.done /\ noted' = [noted EXCEPT !.left = D!Checks(Root)]
      /\ Step("walk", 0) /\ device' = device
  BY ModelRun DEF D!Walk
<1>2. IsRun' /\ at'.step = "walk" /\ verdict' = verdict
  BY <1>1, TestSteps DEF ModelInv, ModelTypes
<1>3. D!Checks(Root) \in Seq(Item) /\ Distinct(D!Checks(Root))
  BY Blocks, ChecksParts
<1>4. noted' \in ModelNotes /\ noted'.left = D!Checks(Root) /\ noted'.oids = noted.oids
      /\ noted'.errors = noted.errors
  BY <1>1, <1>3 DEF ModelInv, ModelTypes, ModelNotes
<1>5. ModelTypes' /\ D!ErrorsAreReal' /\ (D!Broken' <=> D!Broken)
  BY <1>1, <1>2, <1>4 DEF ModelInv, ModelTypes, D!ErrorsAreReal, D!Broken
<1>6. ASSUME OneWalk PROVE OneWalk'
  <2>1. noted.oids = {}
    BY <1>1, <1>6 DEF OneWalk
  <2>2. Visited({}, {Root})'
    BY <1>3, <1>4, <2>1, Blocks, ChecksParts DEF Visited
  <2>3. {Root} \in SUBSET D!Block
    BY Blocks
  <2> QED BY <1>2, <2>2, <2>3 DEF OneWalk
<1>7. D!Wrong(device) = {} => OneFails'
  BY <1>1, <1>2 DEF ModelInv, OneFails, FailedTests
<1> QED BY <1>1, <1>5, <1>6, <1>7 DEF ModelInv

\* It goes on in a block within the one that it is at.
LEMMA BlockStep ==
    ASSUME ModelInv, D!CheckBlock
    PROVE  ModelInv'
<1> DEFINE left == noted.left
<1>0. PICK b : b = Head(left)[2]
  OBVIOUS
<1>1. /\ left # <<>> /\ Head(left)[1] = "block" /\ at.step = "walk"
      /\ noted' = [noted EXCEPT !.left = D!Checks(b) \o Tail(left)]
      /\ UNCHANGED <<at, device, verdict>>
  BY <1>0 DEF D!CheckBlock, D!Checking
<1>2. left \in Seq(Item)
  BY DEF ModelInv, ModelTypes, ModelNotes
<1> HIDE DEF left
<1>3. Tail(left) \in Seq(Item) /\ Head(left) \in Elems(left) /\ Head(left) \in Item
      /\ Elems(Tail(left)) \subseteq Elems(left)
      /\ (Distinct(left) => Distinct(Tail(left)) /\ Head(left) \notin Elems(Tail(left)))
  BY <1>1, <1>2, TailParts
<1>4. b \in D!Block
  BY <1>0, <1>1, <1>3 DEF Item
<1>5. D!Checks(b) \in Seq(Item) /\ Distinct(D!Checks(b))
      /\ \A x \in Elems(D!Checks(b)) : x[2] \in D!Object /\ D!BlockOf(x[2]) = b
  BY <1>4, ChecksParts
<1> DEFINE new == D!Checks(b) \o Tail(left)
<1>6. /\ new \in Seq(Item) /\ Elems(new) = Elems(D!Checks(b)) \cup Elems(Tail(left))
      /\ Distinct(Tail(left)) /\ Elems(D!Checks(b)) \cap Elems(Tail(left)) = {} => Distinct(new)
  <2> DEFINE s == D!Checks(b)  t == Tail(left)
  <2>1. s \in Seq(Item) /\ t \in Seq(Item) /\ Distinct(s)
    BY <1>3, <1>5
  <2> HIDE DEF s, t
  <2>2. /\ s \o t \in Seq(Item) /\ Elems(s \o t) = Elems(s) \cup Elems(t)
        /\ Distinct(t) /\ Elems(s) \cap Elems(t) = {} => Distinct(s \o t)
    BY <2>1, ConcatParts
  <2> QED BY <2>2 DEF s, t
<1> HIDE DEF new
<1>7. noted' \in ModelNotes /\ noted'.left = new /\ noted'.oids = noted.oids
      /\ noted'.errors = noted.errors
  <2>1. noted' = [noted EXCEPT !.left = new]
    BY <1>1 DEF new
  <2> QED BY <1>6, <2>1 DEF ModelInv, ModelTypes, ModelNotes
<1>8. ModelTypes' /\ D!ErrorsAreReal' /\ (D!Broken' <=> D!Broken)
  BY <1>1, <1>7 DEF ModelInv, ModelTypes, D!ErrorsAreReal, D!Broken, IsRun
<1>9. ASSUME OneWalk PROVE OneWalk'
  <2>1. PICK visited \in SUBSET D!Object, opened \in SUBSET D!Block : Visited(visited, opened)
    BY <1>1, <1>9 DEF OneWalk
  <2>a. PICK now : now = opened \cup {b}
    OBVIOUS
  <2>2. /\ Distinct(left) /\ b \in D!Object /\ D!BlockOf(b) \in opened /\ b \notin opened
        /\ \A x \in Elems(left) : /\ x[2] \in D!Object /\ D!BlockOf(x[2]) \in opened
                                  /\ x[1] = "block" => x[2] \notin opened
                                  /\ x[1] = "member" => x[2] \notin visited
        /\ \A o \in visited : D!BlockOf(o) \in opened
        /\ \A c \in opened : c = Root \/ D!BlockOf(c) \in opened
        /\ noted.oids = {device.oid[o] : o \in visited}
    BY <1>0, <1>1, <1>3, <2>1 DEF Visited, left
  <2>3. Elems(D!Checks(b)) \cap Elems(Tail(left)) = {}
    BY <1>3, <1>5, <2>2
  <2>4. Distinct(new)
    BY <1>3, <1>6, <2>2, <2>3
  <2>5. ASSUME NEW x \in Elems(Tail(left)), x[1] = "block" PROVE x[2] # b
    <3>1. x \in Elems(left) /\ x # Head(left)
      BY <1>3, <2>2, <2>5, <2>a
    <3>2. x \in Item /\ Head(left) \in Item
      <4>1. x \in Elems(Tail(left)) /\ Tail(left) \in Seq(Item)
        BY <1>3
      <4>2. x \in Item
        BY <4>1 DEF Elems
      <4> QED BY <1>3, <4>2
    <3> QED BY <1>0, <1>1, <2>5, <3>1, <3>2 DEF Item
  <2>6. ASSUME NEW x \in Elems(D!Checks(b))
        PROVE  /\ x[2] \in D!Object /\ D!BlockOf(x[2]) \in now
               /\ x[1] = "block" => x[2] \notin now
               /\ x[1] = "member" => x[2] \notin visited
    <3>1. x[2] \in D!Object /\ D!BlockOf(x[2]) = b
      BY <1>5
    <3>2. x[2] \notin visited
      BY <2>2, <3>1
    <3>3. x[2] \notin opened
      BY <2>2, <3>1, Blocks
    <3>4. x[2] # b
      BY <2>2, <3>1
    <3> QED BY <2>a, <3>1, <3>2, <3>3, <3>4
  <2>7. ASSUME NEW x \in Elems(Tail(left))
        PROVE  /\ x[2] \in D!Object /\ D!BlockOf(x[2]) \in now
               /\ x[1] = "block" => x[2] \notin now
               /\ x[1] = "member" => x[2] \notin visited
    BY <1>3, <2>2, <2>5, <2>a
  <2>8. Visited(visited, now)'
    <3>1. noted'.left = new /\ noted'.oids = noted.oids /\ device' = device
      BY <1>1, <1>7
    <3>2. \A c \in now : c = Root \/ D!BlockOf(c) \in now
      BY <2>2, <2>a
    <3>3. \A o \in visited : D!BlockOf(o) \in now
      BY <2>2, <2>a
    <3>4. \A x \in Elems(new) :
            /\ x[2] \in D!Object /\ D!BlockOf(x[2]) \in now
            /\ x[1] = "block" => x[2] \notin now
            /\ x[1] = "member" => x[2] \notin visited
      BY <1>6, <2>6, <2>7
    <3>5. noted'.oids = {device'.oid[o] : o \in visited}
      BY <2>2, <3>1
    <3>6. Distinct(noted'.left) /\ Elems(noted'.left) = Elems(new)
      BY <2>4, <3>1
    <3> QED BY <3>2, <3>3, <3>4, <3>5, <3>6 DEF Visited
  <2>9. now \in SUBSET D!Block
    BY <1>4, <2>a
  <2> QED BY <1>1, <2>8, <2>9 DEF OneWalk
<1>10. D!Wrong(device) = {} => OneFails'
  BY <1>1 DEF ModelInv, OneFails, FailedTests
<1> QED BY <1>1, <1>8, <1>9, <1>10 DEF ModelInv


LEMMA CheckedKinds ==
    ASSUME device \in Model, NEW o \in D!Object
    PROVE  D!CheckedOf(o) \subseteq D!Kind
<1>1. D!DeviceModelTestsAssumption
  BY ControlAssumption DEF ControlAssumption
<1>2. D!Has(o) \subseteq D!Kind
  BY <1>1 DEF D!Has, D!DeviceModelTestsAssumption, Model, D!Class, D!Kind
<1> QED BY <1>2 DEF D!CheckedOf, D!Only, D!Kind

\* An object is checked to the end.
LEMMA MemberStep ==
    ASSUME ModelInv, D!CheckMember
    PROVE  ModelInv'
<1> DEFINE left == noted.left
<1>0. PICK o : o = Head(left)[2]
  OBVIOUS
<1>1. /\ left # <<>> /\ Head(left)[1] = "member" /\ at.step = "walk" /\ device' = device
      /\ noted' = [noted EXCEPT
             !.oids = D!Noted(noted.oids, device.oid[o]),
             !.classes = noted.classes \cup D!Only({device.class[o]}, D!Closely(o)),
             !.errors = noted.errors \cup D!ErrorsOf(o), !.checked = noted.checked \cup D!CheckedOf(o),
             !.left = Tail(left)]
      /\ Step("walk", 0)
  BY <1>0, ModelRun DEF D!CheckMember, D!Checking
<1>2. left \in Seq(Item)
  BY DEF ModelInv, ModelTypes, ModelNotes
<1> HIDE DEF left
<1>3. Tail(left) \in Seq(Item) /\ Head(left) \in Elems(left) /\ Head(left) \in Item
      /\ Elems(Tail(left)) \subseteq Elems(left)
      /\ (Distinct(left) => Distinct(Tail(left)) /\ Head(left) \notin Elems(Tail(left)))
  BY <1>1, <1>2, TailParts
<1>4. o \in D!Object
  BY <1>0, <1>1, <1>3 DEF Item
<1>5. /\ D!ErrorsOf(o) \subseteq D!Kind
      /\ D!ErrorsOf(o) \ {"oids", "root"} \subseteq D!Wrong(device)
      /\ "root" \in D!ErrorsOf(o) => D!Wrong(device) \cap {"root", "model"} # {}
      /\ "oids" \in D!ErrorsOf(o) => device.oid[o] \in noted.oids
  BY <1>4, ErrorsOfAreReal DEF ModelInv, ModelTypes
<1>6. D!CheckedOf(o) \subseteq D!Kind
  BY CheckedKinds, <1>4 DEF ModelInv, ModelTypes
<1>7. device.oid[o] \in D!Object /\ device.class[o] \in D!Class
  BY <1>4 DEF ModelInv, ModelTypes, Model
<1>8. /\ noted' \in ModelNotes /\ noted'.errors = noted.errors \cup D!ErrorsOf(o)
      /\ noted'.left = Tail(left) /\ noted'.done = noted.done
      /\ noted'.oids = noted.oids \cup {device.oid[o]}
  <2> DEFINE oids == D!Noted(noted.oids, device.oid[o])
             classes == noted.classes \cup D!Only({device.class[o]}, D!Closely(o))
             errors == noted.errors \cup D!ErrorsOf(o)
             checked == noted.checked \cup D!CheckedOf(o)
             rest == Tail(left)
  <2>1. noted \in ModelNotes
    BY DEF ModelInv, ModelTypes
  <2>2. /\ oids \in SUBSET D!Object /\ classes \in SUBSET D!Class /\ errors \in SUBSET D!Kind
        /\ checked \in SUBSET D!Kind /\ rest \in Seq(Item)
        /\ oids = noted.oids \cup {device.oid[o]}
    BY <1>3, <1>5, <1>6, <1>7, <2>1 DEF ModelNotes, D!Only, D!Noted
  <2>3. noted' = [noted EXCEPT !.oids = oids, !.classes = classes, !.errors = errors,
                               !.checked = checked, !.left = rest]
    BY <1>1
  <2> HIDE DEF oids, classes, errors, checked, rest
  <2>4. /\ noted' \in ModelNotes /\ noted'.errors = errors /\ noted'.left = rest
        /\ noted'.done = noted.done /\ noted'.oids = oids
    BY <2>1, <2>2, <2>3 DEF ModelNotes
  <2> QED BY <2>2, <2>4 DEF errors, rest
<1>9. IsRun' /\ at'.step = "walk" /\ verdict' = verdict
  BY <1>1, TestSteps DEF ModelInv, ModelTypes
<1>10. D!Broken' <=> D!Broken
  BY <1>1 DEF D!Broken
<1>12. D!Broken \/ OneWalk'
  <2> SUFFICES ASSUME ~D!Broken PROVE OneWalk'
    OBVIOUS
  <2>1. PICK visited \in SUBSET D!Object, opened \in SUBSET D!Block : Visited(visited, opened)
    BY <1>1 DEF ModelInv, OneWalk
  <2>2. PICK now : now = visited \cup {o}
    OBVIOUS
  <2>3. /\ Distinct(left)
        /\ \A x \in Elems(left) :
             /\ x[2] \in D!Object /\ D!BlockOf(x[2]) \in opened
             /\ x[1] = "block" => x[2] \notin opened
             /\ x[1] = "member" => x[2] \notin visited
        /\ \A p \in visited : D!BlockOf(p) \in opened
        /\ \A c \in opened : c = Root \/ D!BlockOf(c) \in opened
        /\ noted.oids = {device.oid[p] : p \in visited}
    BY <2>1 DEF Visited, left
  <2>4. D!BlockOf(o) \in opened /\ o \notin visited
    BY <1>0, <1>1, <1>3, <2>3
  <2>5. noted'.left = Tail(left) /\ device' = device
    BY <1>1, <1>8
  <2>6. noted'.oids = {device'.oid[p] : p \in now}
    BY <1>8, <2>2, <2>3, <2>5
  <2>7. ASSUME NEW x \in Elems(Tail(left)), x[1] = "member" PROVE x[2] # o
    <3>1. x \in Elems(left) /\ x # Head(left)
      BY <1>3, <2>3, <2>7
    <3>2. x \in Item /\ Head(left) \in Item
      <4>1. x \in Elems(Tail(left)) /\ Tail(left) \in Seq(Item)
        BY <1>3
      <4>2. x \in Item
        BY <4>1 DEF Elems
      <4> QED BY <1>3, <4>2
    <3> QED BY <1>0, <1>1, <2>7, <3>1, <3>2 DEF Item
  <2>8. \A x \in Elems(noted'.left) :
          /\ x[2] \in D!Object /\ D!BlockOf(x[2]) \in opened
          /\ x[1] = "block" => x[2] \notin opened
          /\ x[1] = "member" => x[2] \notin now
    BY <1>3, <2>2, <2>3, <2>5, <2>7
  <2>9. Distinct(noted'.left)
    BY <1>3, <2>3, <2>5
  <2>10. \A p \in now : D!BlockOf(p) \in opened
    BY <2>2, <2>3, <2>4
  <2>11. Visited(now, opened)'
    BY <2>3, <2>6, <2>8, <2>9, <2>10 DEF Visited
  <2>12. now \in SUBSET D!Object
    BY <1>4, <2>2
  <2> QED BY <1>9, <2>11, <2>12 DEF OneWalk
<1>13. D!ErrorsAreReal'
  <2>1. noted'.errors \ {"oids", "root"} \subseteq D!Wrong(device)
    BY <1>5, <1>8 DEF ModelInv, D!ErrorsAreReal
  <2>2. "root" \in noted'.errors => D!Wrong(device) \cap {"root", "model"} # {}
    BY <1>5, <1>8 DEF ModelInv, D!ErrorsAreReal
  <2>3. ASSUME "oids" \in D!ErrorsOf(o), ~D!Broken PROVE "oids" \in D!Wrong(device)
    <3>1. PICK visited \in SUBSET D!Object, opened \in SUBSET D!Block : Visited(visited, opened)
      BY <1>1, <2>3 DEF ModelInv, OneWalk
    <3>2. o \notin visited /\ noted.oids = {device.oid[p] : p \in visited}
      BY <1>0, <1>1, <1>3, <3>1 DEF Visited, left
    <3>3. PICK p \in visited : device.oid[o] = device.oid[p]
      BY <1>5, <2>3, <3>2
    <3>4. D!Duplicate(device.oid, o)
      BY <3>2, <3>3 DEF D!Duplicate
    <3> QED BY <1>4, <3>4, WrongParts
  <2> QED BY <1>1, <1>8, <1>10, <2>1, <2>2, <2>3 DEF ModelInv, D!ErrorsAreReal
<1>14. D!Wrong(device) = {} => OneFails'
  BY <1>1, <1>9 DEF ModelInv, OneFails, FailedTests
<1>15. ModelTypes'
  BY <1>1, <1>8, <1>9 DEF ModelInv, ModelTypes
<1> QED BY <1>1, <1>10, <1>12, <1>13, <1>14, <1>15 DEF ModelInv

\* A value of the wrong type or a request that is not answered breaks the walk off.
LEMMA WalkLost ==
    ASSUME ModelInv, D!RequestLost \/ D!WrongType
    PROVE  ModelInv'
<1> DEFINE left == noted.left
<1>0. PICK o : o = Head(left)[2]
  OBVIOUS
<1>a. PICK whole, part : D!BreakOff(o, whole, part)
  BY <1>0 DEF D!RequestLost, D!WrongType
<1>b. /\ left # <<>> /\ Head(left)[1] = "member" /\ at.step = "walk"
      /\ \/ device' = [device EXCEPT !.loses = "lost"] /\ device.loses = "one"
         \/ device' = device /\ <<o, "type">> \in device.wrong
  BY <1>0 DEF D!RequestLost, D!WrongType, D!Checking
<1>1. /\ noted' = [noted EXCEPT
             !.oids = D!Noted(noted.oids, device.oid[o]),
             !.classes = noted.classes \cup D!Only({device.class[o]}, "touchpoints" \in whole),
             !.errors = noted.errors \cup (D!ErrorsOf(o) \cap (whole \ {"organization"})),
             !.checked = noted.checked \cup (D!CheckedOf(o) \cap (whole \cup part)),
             !.left = <<>>]
      /\ Conclude("FAIL")
  BY <1>a, ModelRun DEF D!BreakOff
<1>2. left \in Seq(Item)
  BY DEF ModelInv, ModelTypes, ModelNotes
<1> HIDE DEF left
<1>3. Head(left) \in Item
  BY <1>b, <1>2, TailParts
<1>4. o \in D!Object
  BY <1>0, <1>b, <1>3 DEF Item
<1>5. /\ D!ErrorsOf(o) \subseteq D!Kind
      /\ D!ErrorsOf(o) \ {"oids", "root"} \subseteq D!Wrong(device)
      /\ "root" \in D!ErrorsOf(o) => D!Wrong(device) \cap {"root", "model"} # {}
  BY <1>4, ErrorsOfAreReal DEF ModelInv, ModelTypes
<1>6. D!CheckedOf(o) \subseteq D!Kind
  BY CheckedKinds, <1>4 DEF ModelInv, ModelTypes
<1>7. device.oid[o] \in D!Object /\ device.class[o] \in D!Class
  BY <1>4 DEF ModelInv, ModelTypes, Model
<1>8. /\ noted' \in ModelNotes /\ noted'.errors \subseteq noted.errors \cup D!ErrorsOf(o)
  <2> DEFINE oids == D!Noted(noted.oids, device.oid[o])
             classes == noted.classes \cup D!Only({device.class[o]}, "touchpoints" \in whole)
             errors == noted.errors \cup (D!ErrorsOf(o) \cap (whole \ {"organization"}))
             checked == noted.checked \cup (D!CheckedOf(o) \cap (whole \cup part))
  <2>1. noted \in ModelNotes
    BY DEF ModelInv, ModelTypes
  <2>2. /\ oids \in SUBSET D!Object /\ classes \in SUBSET D!Class /\ errors \in SUBSET D!Kind
        /\ checked \in SUBSET D!Kind /\ errors \subseteq noted.errors \cup D!ErrorsOf(o)
    BY <1>5, <1>6, <1>7, <2>1 DEF ModelNotes, D!Only, D!Noted
  <2>3. noted' = [noted EXCEPT !.oids = oids, !.classes = classes, !.errors = errors,
                               !.checked = checked, !.left = <<>>]
    BY <1>1
  <2> HIDE DEF oids, classes, errors, checked
  <2>4. <<>> \in Seq(Item)
    OBVIOUS
  <2>5. noted' \in ModelNotes /\ noted'.errors = errors
    BY <2>1, <2>2, <2>3, <2>4 DEF ModelNotes
  <2> QED BY <2>2, <2>5
<1>9. /\ device' \in Model /\ D!Wrong(device') = D!Wrong(device) /\ D!Broken'
      /\ device'.loses = "lost" \/ device' = device
  <2>1. device \in Model
    BY DEF ModelInv, ModelTypes
  <2>2. CASE device' = [device EXCEPT !.loses = "lost"]
    <3>1. device'.loses = "lost"
      BY <2>1, <2>2 DEF Model
    <3> QED BY <2>1, <2>2, <3>1, WrongStays DEF D!Broken
  <2>3. CASE device' = device /\ <<o, "type">> \in device.wrong
    BY <1>4, <2>1, <2>3, WrongStays DEF D!Broken
  <2> QED BY <1>b, <2>2, <2>3
<1>10. IsRun' /\ FailedTests' \subseteq FailedTests \cup {Head(at.plan)}
  <2>1. "FAIL" \in Verdict
    BY DEF Verdict
  <2> QED BY <1>1, <2>1, TestEnds, FailedParts DEF ModelInv, ModelTypes
<1>11. ASSUME D!Wrong(device) = {} PROVE OneFails'
  <2>0. <<o, "type">> \notin device.wrong
    BY <1>4, <1>11, WrongParts
  <2>a. device.loses = "one" /\ device'.loses = "lost"
    BY <1>b, <2>0 DEF ModelInv, ModelTypes, Model
  <2>1. FailedTests = {}
    BY <1>11, <2>a DEF ModelInv, OneFails
  <2> QED BY <1>10, <2>1, <2>a DEF OneFails
<1>12. D!ErrorsAreReal'
  BY <1>5, <1>8, <1>9 DEF ModelInv, D!ErrorsAreReal
<1> QED BY <1>8, <1>9, <1>10, <1>11, <1>12 DEF ModelInv, ModelTypes

LEMMA WalkEndsStep ==
    ASSUME ModelInv, D!WalkEnds
    PROVE  ModelInv'
<1>1. /\ noted.left = <<>> /\ noted' = [noted EXCEPT !.done = TRUE]
      /\ Step("judge", 0) /\ device' = device
  BY ModelRun DEF D!WalkEnds
<1>2. IsRun' /\ at'.step = "judge" /\ verdict' = verdict
  BY <1>1, TestSteps DEF ModelInv, ModelTypes
<1>3. noted' \in ModelNotes /\ noted'.left = <<>> /\ noted'.done /\ noted'.errors = noted.errors
  BY <1>1 DEF ModelInv, ModelTypes, ModelNotes
<1>4. ModelTypes' /\ D!ErrorsAreReal' /\ (D!Broken' <=> D!Broken) /\ OneWalk'
  BY <1>1, <1>2, <1>3 DEF ModelInv, ModelTypes, D!ErrorsAreReal, D!Broken, OneWalk
<1>5. D!Wrong(device) = {} => OneFails'
  BY <1>1, <1>2 DEF ModelInv, OneFails, FailedTests
<1> QED BY <1>1, <1>4, <1>5 DEF ModelInv

\* A test that judges by what was noted fails only for what is noted.
LEMMA JudgeStep ==
    ASSUME ModelInv, D!Judge
    PROVE  ModelInv'
<1> DEFINE test == Head(at.plan)  kind == D!Judges[test]
           v == IF kind \in noted.errors \/ (test = "test_26" /\ "model" \in noted.errors) THEN "FAIL"
                ELSE IF kind # "model" /\ kind \notin noted.checked THEN "UNCLEAR" ELSE "PASS"
<1>1. /\ at.step = "judge" \/ (at.step = "begin" /\ noted.done)
      /\ Conclude(v) /\ device' = device /\ noted' = noted
      /\ test \in D!Range(D!Order)
  BY ModelRun DEF D!Judge, D!Testing
<1>2. v \in Verdict
  BY DEF Verdict
<1>3. "oids" = kind => test = "test_04"
  <2>1. test \in {"test_02", "test_03", "test_04", "test_05", "test_06", "test_07", "test_09", "test_10",
                  "test_16", "test_17", "test_22", "test_23", "test_25", "test_26"}
    BY <1>1 DEF D!Range, D!Order
  <2> QED BY <2>1 DEF D!Judges
<1>4. v = "FAIL" => kind \in noted.errors \/ "model" \in noted.errors
  OBVIOUS
<1> HIDE DEF v, kind
<1>5. /\ IsRun' /\ at'.step = "begin" /\ FailedTests' \subseteq FailedTests \cup {test}
      /\ v # "FAIL" => FailedTests' \subseteq FailedTests
  BY <1>1, <1>2, TestEnds, FailedParts DEF ModelInv, ModelTypes
<1>6. ModelTypes' /\ D!ErrorsAreReal' /\ (D!Broken' <=> D!Broken)
  BY <1>1, <1>5 DEF ModelInv, ModelTypes, D!ErrorsAreReal, D!Broken
<1>7. OneWalk => OneWalk'
  BY <1>1, <1>5 DEF OneWalk
<1>8. ASSUME D!Wrong(device) = {} PROVE OneFails'
  <2>1. noted.errors \subseteq {"oids"}
    BY <1>8 DEF ModelInv, D!ErrorsAreReal
  <2>2. v = "FAIL" => test = "test_04" /\ "oids" \in noted.errors
    BY <1>3, <1>4, <2>1
  <2>3. ASSUME device.loses # "lost" PROVE v # "FAIL"
    <3>1. ~D!Broken
      BY <1>8, <2>3, WrongParts DEF D!Broken
    <3> QED BY <1>8, <2>2, <3>1 DEF ModelInv, D!ErrorsAreReal
  <2>4. CASE v # "FAIL"
    BY <1>1, <1>5, <1>8, <2>4 DEF ModelInv, OneFails
  <2>5. CASE v = "FAIL"
    BY <1>1, <1>5, <1>8, <2>2, <2>3, <2>5 DEF ModelInv, OneFails
  <2> QED BY <2>4, <2>5
<1> QED BY <1>1, <1>6, <1>7, <1>8 DEF ModelInv

LEMMA ModelStep ==
    ASSUME ModelInv, [D!Next]_suiteVars
    PROVE  ModelInv'
<1>1. CASE UNCHANGED suiteVars
  <2>1. at' = at /\ device' = device /\ noted' = noted /\ verdict' = verdict
    BY <1>1 DEF suiteVars
  <2>2. ASSUME OneWalk PROVE OneWalk'
    <3>1. ASSUME NEW visited, NEW opened, Visited(visited, opened) PROVE Visited(visited, opened)'
      BY <2>1, <3>1 DEF Visited
    <3> QED BY <2>1, <2>2, <3>1 DEF OneWalk
  <2>3. ModelTypes' /\ D!ErrorsAreReal' /\ (D!Broken' <=> D!Broken) /\ (OneFails => OneFails')
    BY <2>1 DEF ModelInv, ModelTypes, D!ErrorsAreReal, D!Broken, OneFails, FailedTests, IsRun
  <2> QED BY <2>1, <2>2, <2>3 DEF ModelInv
<1> QED BY <1>1, ModelSetUp, WalkStep, BlockStep, MemberStep, WalkLost, WalkEndsStep, JudgeStep DEF D!Next

LEMMA ModelHolds ==
    ASSUME ModelInv
    PROVE  D!TypeOK /\ D!ErrorsAreReal /\ D!ConformingModelPasses
<1>1. D!TypeOK
  <2>1. noted.left \in Seq(Item) /\ D!Range(noted.left) \subseteq Item
    <3>1. noted.left \in Seq(Item)
      BY DEF ModelInv, ModelTypes, ModelNotes
    <3> QED BY <3>1 DEF D!Range
  <2> QED BY <2>1, ModelRun DEF ModelInv, ModelTypes, Model, ModelNotes, D!TypeOK, IsRun, Item
<1>2. ASSUME D!Wrong(device) = {}
      PROVE  /\ device.loses # "lost" => FailedTests = {}
             /\ D!Cardinality(FailedTests \ {"test_04"}) <= 1
  <2>1. PICK test : FailedTests \subseteq {test, "test_04"}
    BY <1>2 DEF ModelInv, OneFails
  <2>2. FailedTests \ {"test_04"} = {} \/ FailedTests \ {"test_04"} = {test}
    BY <2>1
  <2>3. Cardinality({}) = 0 /\ Cardinality({test}) = 1
    BY FS_EmptySet, FS_Singleton
  <2>4. \A S : D!Cardinality(S) = Cardinality(S)
    BY DEF D!Cardinality, Cardinality
  <2>5. Cardinality(FailedTests \ {"test_04"}) <= 1
    BY <2>2, <2>3
  <2> QED BY <1>2, <2>4, <2>5 DEF ModelInv, OneFails
<1> QED BY <1>1, <1>2 DEF ModelInv, D!ConformingModelPasses, FailedTests


ModelSuite == suite = "model" => ModelInv

LEMMA ModelSuiteHolds == ControlSpec => []ModelSuite
<1>1. ControlInit => ModelSuite
  BY ModelBegins DEF ControlInit, ModelSuite
<1>2. ModelSuite /\ [ControlNext]_controlVars => ModelSuite'
  <2> SUFFICES ASSUME ModelSuite, [ControlNext]_controlVars, suite' = "model" PROVE ModelInv'
    BY DEF ModelSuite
  <2>1. suite = "model" /\ [D!Next]_suiteVars
    BY DEF ControlNext, controlVars, suiteVars
  <2> QED BY <2>1, ModelStep DEF ModelSuite
<1> QED BY <1>1, <1>2, PTL DEF ControlSpec

\* What a walk notes as wrong is wrong, whatever the device model and however often a walk
\* was broken off and begun again; of a second walk all but the ids (_check_block,
\* MS0501Test.py).
THEOREM NotedErrorsAreReal == ControlSpec => []ErrorsAreReal
<1>1. ModelSuite => ErrorsAreReal
  BY ModelHolds DEF ModelSuite, ErrorsAreReal
<1> QED BY <1>1, ModelSuiteHolds, PTL

--------------------
(* MS-05: the values that are written to a device.                          *)

\* The remainder of a multiple and a little more.
LEMMA Remainder ==
    ASSUME NEW k \in Int, NEW s \in Nat, s > 0, NEW r \in 0..(s - 1)
    PROVE  (k * s + r) % s = r
<1> DEFINE n == k * s + r  q == n \div s  m == n % s
<1>1. n \in Int /\ q \in Int /\ m \in 0..(s - 1) /\ n = s * q + m
  OBVIOUS
<1>2. s * (k - q) = m - r
  <2>1. s * (k - q) = s * k - s * q
    BY <1>1
  <2>2. s * k = k * s
    OBVIOUS
  <2> QED BY <1>1, <2>1, <2>2
<1> HIDE DEF n, q, m
<1>3. \A d \in Int : d >= 1 => s * d >= s
  <2> SUFFICES ASSUME NEW d \in Int, d >= 1 PROVE s * d >= s
    OBVIOUS
  <2>1. s * (d - 1) >= 0
    OBVIOUS
  <2>2. s * (d - 1) = s * d - s
    OBVIOUS
  <2> QED BY <2>1, <2>2
<1>4. ~(k - q >= 1)
  <2> SUFFICES ASSUME k - q >= 1 PROVE FALSE
    OBVIOUS
  <2>1. s * (k - q) >= s
    BY <1>1, <1>3
  <2> QED BY <1>1, <1>2, <2>1
<1>5. ~(q - k >= 1)
  <2> SUFFICES ASSUME q - k >= 1 PROVE FALSE
    OBVIOUS
  <2>1. s * (q - k) >= s
    BY <1>1, <1>3
  <2>2. s * (q - k) = 0 - s * (k - q)
    BY <1>1
  <2> QED BY <1>1, <1>2, <2>1, <2>2
<1>6. k = q
  BY <1>1, <1>4, <1>5
<1>7. s * (k - q) = 0
  BY <1>1, <1>6
<1> QED BY <1>1, <1>2, <1>7 DEF n, m

\* Half of the way between two numbers, in steps, is between them.
LEMMA Halfway ==
    ASSUME NEW d \in Nat, NEW s \in Nat, s > 0
    PROVE  /\ d \div (2 * s) \in Nat
           /\ (d \div (2 * s)) * s \in 0..d
<1> DEFINE w == 2 * s  q == d \div w
<1>1. w \in Nat /\ w > 0
  OBVIOUS
<1>2. q \in Int /\ d = w * q + (d % w) /\ d % w \in 0..(w - 1)
  BY <1>1
<1>3. q >= 0
  <2> HIDE DEF q, w
  <2> SUFFICES ASSUME q <= 0 - 1 PROVE FALSE
    BY <1>2
  <2>1. w * (q + 1) <= 0
    BY <1>1, <1>2
  <2>2. w * (q + 1) = w * q + w
    BY <1>1, <1>2
  <2> QED BY <1>1, <1>2, <2>1, <2>2
<1>4. w * q = 2 * (q * s)
  BY <1>2
<1>5. q * s \in Int /\ q * s >= 0
  <2> HIDE DEF q
  <2> QED BY <1>2, <1>3
<1>6. q * s <= d
  <2> DEFINE h == q * s
  <2> HIDE DEF h, q, w
  <2>1. h \in Int /\ h >= 0 /\ d = 2 * h + (d % w) /\ d % w \in 0..(w - 1)
    BY <1>2, <1>4, <1>5 DEF h
  <2>2. h <= d
    BY <1>1, <2>1
  <2> QED BY <2>2 DEF h
<1> QED BY <1>2, <1>3, <1>5, <1>6

Limit == [min : Int, max : Int, step : Int]

\* A constraint of a device: of no level or of one that is said to have one.
LEMMA Constraints ==
    /\ MaxSize \in Nat /\ P!None = MaxSize + 100 /\ P!NoConstraint \in Limit
    /\ \A c \in Limits : /\ c \in Limit /\ c # P!NoConstraint
                         /\ c.min = P!None \/ c.max = P!None \/ c.min <= c.max
                         /\ c.step # P!None => c.step > 0
    /\ \A q \in DOMAIN Stored : Stored[q] \in Seq(Int)
    /\ Stored \in [DOMAIN Stored -> Seq(Int)] /\ Sequences \in Seq(DOMAIN Stored)
<1>1. P!PropertyTestsAssumption
  BY ControlAssumption DEF ControlAssumption
<1> QED BY <1>1 DEF P!PropertyTestsAssumption, P!None, P!NoConstraint, Limit

Parameter == [value : Int, violates : BOOLEAN]

\* What is generated for a number: a value that its constraint allows and others that break
\* it, as long as no limit is 0 or beyond sys.maxsize.
LEMMA ValidValues ==
    ASSUME NEW c \in Limits
    PROVE  /\ P!ValidValue(c) \in Int
           /\ P!Proper(c) => P!Breaks(c, P!ValidValue(c)) = {}
           /\ P!Proper(c) /\ c.step # P!None /\ c.step > 1 =>
                P!Breaks(c, P!ValidValue(c) + c.step \div 2) # {}
           /\ P!Proper(c) /\ P!Fits(c, device.width) /\ device.width \in Nat =>
                P!ValidValue(c) \in P!Numbers(device.width)
<1> DEFINE none == P!None
           step == P!Or(c.step, 1)  max == P!Or(c.max, MaxSize)  min == P!Or(c.min, 0)
           d == max - min  k == d \div (2 * step)
<1>1. /\ c \in Limit /\ none \in Nat /\ MaxSize \in Nat /\ MaxSize < none
      /\ c.min = none \/ c.max = none \/ c.min <= c.max
      /\ c.step # none => c.step > 0
  BY Constraints
<1>2. /\ step \in Nat /\ step > 0 /\ (c.step # none => step = c.step)
      /\ max \in Int /\ (c.max # none /\ c.max # 0 => max = c.max) /\ (c.max = none => max = MaxSize)
      /\ min \in Int /\ (c.min # none => min = c.min) /\ (c.min = none => min = 0)
  BY <1>1 DEF P!Or, Limit
<1>3. P!ValidValue(c) = k * step + min
  BY DEF P!ValidValue
<1> HIDE DEF none, step, max, min
<1>4. d \in Int /\ k \in Int /\ k * step \in Int
  <2>1. d \in Int /\ 2 * step \in Nat /\ 2 * step > 0
    BY <1>2
  <2>2. k \in Int
    BY <2>1
  <2> HIDE DEF k
  <2> QED BY <1>2, <2>1, <2>2
<1>5. ASSUME P!Proper(c) PROVE d \in Nat
  <2>1. c.max # 0 /\ (c.min = none /\ c.max # none => c.max > 0)
        /\ (c.max = none /\ c.min # none => c.min <= MaxSize)
    BY <1>5 DEF P!Proper, none
  <2>2. c.max \in Int /\ c.min \in Int
    BY <1>1 DEF Limit
  <2> QED BY <1>1, <1>2, <2>1, <2>2
<1>6. ASSUME NEW v \in Int
      PROVE  /\ "min" \in P!Breaks(c, v) <=> c.min # none /\ v < c.min
             /\ "max" \in P!Breaks(c, v) <=> c.max # none /\ v > c.max
             /\ "step" \in P!Breaks(c, v) <=> c.step # none /\ (v - min) % c.step # 0
             /\ P!Breaks(c, v) \subseteq {"min", "max", "step"}
  <2>1. min = (IF c.min = none THEN 0 ELSE c.min)
    BY <1>2
  <2> QED BY <2>1 DEF P!Breaks, none
<1>7. ASSUME P!Proper(c) PROVE P!Breaks(c, P!ValidValue(c)) = {}
  <2> DEFINE h == k * step
  <2>1. h \in 0..d
    BY <1>2, <1>5, <1>7, Halfway
  <2> HIDE DEF h
  <2>2. P!ValidValue(c) = h + min
    BY <1>3 DEF h
  <2>3. h + min \in Int /\ (h + min) - min = h /\ h + min >= min /\ h + min <= max
    BY <1>2, <2>1, <1>4
  <2>4. c.step # none => h % c.step = 0
    <3>1. (k * step + 0) % step = 0
      <4> HIDE DEF k
      <4> QED BY <1>2, <1>4, Remainder
    <3>2. k * step + 0 = h
      BY <1>4 DEF h
    <3> QED BY <1>2, <3>1, <3>2
  <2>5. c.max # none => max = c.max
    BY <1>2, <1>7 DEF P!Proper
  <2>6. c.max \in Int /\ c.min \in Int
    BY <1>1 DEF Limit
  <2> HIDE DEF P!ValidValue
  <2>7. "min" \notin P!Breaks(c, h + min)
    BY <1>2, <1>6, <2>3, <2>6
  <2>8. "max" \notin P!Breaks(c, h + min)
    BY <1>2, <1>6, <2>3, <2>5, <2>6
  <2>9. "step" \notin P!Breaks(c, h + min)
    BY <1>6, <2>3, <2>4
  <2> QED BY <1>6, <2>2, <2>3, <2>7, <2>8, <2>9
<1>8. ASSUME c.step # none, c.step > 1
      PROVE  P!Breaks(c, P!ValidValue(c) + c.step \div 2) # {}
  <2> DEFINE r == c.step \div 2
  <2>1. r \in 1..(step - 1) /\ c.step = step /\ step > 1 /\ step \in Nat
    BY <1>2, <1>8
  <2> HIDE DEF r
  <2>2. (k * step + r) % step = r
    <3> HIDE DEF k
    <3> QED BY <1>4, <2>1, Remainder
  <2> DEFINE h == k * step
  <2>3. h \in Int
    BY <1>4
  <2> HIDE DEF h
  <2>4. P!ValidValue(c) + r = h + min + r /\ (h + min + r) - min = h + r /\ h + min + r \in Int
    BY <1>2, <1>3, <2>1, <2>3 DEF h
  <2>5. (h + r) % c.step # 0
    BY <2>1, <2>2 DEF h
  <2>6. "step" \in P!Breaks(c, h + min + r)
    BY <1>6, <1>8, <2>4, <2>5
  <2> QED BY <2>4, <2>6 DEF r
<1>9. P!ValidValue(c) \in Int
  <2> DEFINE h == k * step
  <2>1. h \in Int
    BY <1>4
  <2> HIDE DEF h
  <2> QED BY <1>2, <1>3, <2>1 DEF h
<1>10. ASSUME P!Proper(c), P!Fits(c, device.width), device.width \in Nat
       PROVE  P!ValidValue(c) \in P!Numbers(device.width)
  <2>1. CASE c.max = none
    BY <1>10, <2>1 DEF P!Proper, none
  <2>2. CASE c.max # none
    <3> DEFINE h == k * step  w == device.width
    <3>1. h \in 0..d
      BY <1>2, <1>5, <1>10, Halfway
    <3> HIDE DEF h
    <3>2. P!ValidValue(c) = h + min
      BY <1>3 DEF h
    <3> HIDE DEF w
    <3>3. max = c.max /\ max >= -w - 1 /\ max <= w /\ w \in Nat
      BY <1>2, <1>10, <2>2 DEF P!Proper, P!Fits, P!Numbers, none, w
    <3>4. min >= -w - 1
      BY <1>1, <1>2, <1>10, <3>3 DEF P!Fits, P!Numbers, Limit, none, w
    <3>5. h + min \in (-w - 1)..w
      BY <1>2, <1>4, <3>1, <3>3, <3>4
    <3> QED BY <3>2, <3>5 DEF P!Numbers, w
  <2> QED BY <2>1, <2>2
<1> QED BY <1>7, <1>8, <1>9, <1>10 DEF none


LEMMA InvalidParts ==
    ASSUME NEW c \in Limits
    PROVE  /\ P!InvalidValues(c) \in Seq(Int)
           /\ P!Proper(c) => \A v \in Elems(P!InvalidValues(c)) : P!Breaks(c, v) # {}
<1> DEFINE none == P!None
           low == P!Or(c.min, 0) - P!Or(c.step, 1)
           high == P!Or(c.max, MaxSize) + P!Or(c.step, 1)
           odd == P!ValidValue(c) + c.step \div 2
           x == IF c.min # none THEN <<low>> ELSE <<>>
           y == IF c.max # none THEN <<high>> ELSE <<>>
           z == IF c.step # none /\ c.step > 1 THEN <<odd>> ELSE <<>>
<1>1. /\ c.min \in Int /\ c.max \in Int /\ c.step \in Int /\ none \in Nat /\ MaxSize \in Nat
      /\ c.step # none => c.step > 0
  BY Constraints DEF Limit
<1>2. /\ low \in Int /\ (c.min # none => low < c.min)
      /\ high \in Int /\ (c.max # none /\ c.max # 0 => high > c.max)
  BY <1>1 DEF P!Or
<1>3. odd \in Int
  BY <1>1, ValidValues
<1>4. c.min # none => P!Breaks(c, low) # {}
  <2> SUFFICES ASSUME c.min # none PROVE "min" \in P!Breaks(c, low)
    OBVIOUS
  <2> HIDE DEF low
  <2> QED BY <1>2 DEF P!Breaks
<1>5. c.max # none /\ c.max # 0 => P!Breaks(c, high) # {}
  <2> SUFFICES ASSUME c.max # none, c.max # 0 PROVE "max" \in P!Breaks(c, high)
    OBVIOUS
  <2> HIDE DEF high
  <2> QED BY <1>2 DEF P!Breaks
<1>6. P!Proper(c) /\ c.step # none /\ c.step > 1 => P!Breaks(c, odd) # {}
  BY ValidValues
<1>7. P!Proper(c) => c.max # 0
  BY DEF P!Proper
<1>8. P!InvalidValues(c) = (x \o y) \o z
  BY DEF P!InvalidValues
<1> DEFINE Wanted(s) == s \in Seq(Int) /\ (P!Proper(c) => \A v \in Elems(s) : P!Breaks(c, v) # {})
<1>9. Wanted(<<>>)
  BY DEF Elems
<1>10. ASSUME NEW v \in Int, P!Proper(c) => P!Breaks(c, v) # {} PROVE Wanted(<<v>>)
  BY <1>10 DEF Elems
<1>11. ASSUME NEW s, NEW t, Wanted(s), Wanted(t) PROVE Wanted(s \o t)
  <2>1. s \o t \in Seq(Int) /\ Elems(s \o t) = Elems(s) \cup Elems(t)
    BY <1>11, ConcatParts
  <2> QED BY <1>11, <2>1
<1> HIDE DEF none, low, high, odd, Wanted
<1>12. Wanted(x)
  BY <1>2, <1>4, <1>9, <1>10
<1>13. Wanted(y)
  BY <1>2, <1>5, <1>7, <1>9, <1>10
<1>14. Wanted(z)
  BY <1>3, <1>6, <1>9, <1>10
<1> HIDE DEF x, y, z
<1>15. Wanted((x \o y) \o z)
  BY <1>11, <1>12, <1>13, <1>14
<1> QED BY <1>8, <1>15 DEF Wanted

LEMMA ParametersParts ==
    ASSUME NEW c \in Limits
    PROVE  /\ P!Parameters(c) \in Seq(Parameter) /\ P!Parameters(c) # <<>>
           /\ P!Proper(c) =>
                \A x \in Elems(P!Parameters(c)) : x.violates <=> P!Breaks(c, x.value) # {}
           /\ \A x \in Elems(P!Parameters(c)) : x.violates \/ x.value = P!ValidValue(c)
<1> DEFINE valid == [value |-> P!ValidValue(c), violates |-> FALSE]
           bad == P!InvalidValues(c)
           rest == [i \in DOMAIN bad |-> [value |-> bad[i], violates |-> TRUE]]
<1>1. P!Parameters(c) = <<valid>> \o rest
  BY DEF P!Parameters
<1>2. bad \in Seq(Int) /\ (P!Proper(c) => \A v \in Elems(bad) : P!Breaks(c, v) # {})
  BY InvalidParts
<1>3. P!ValidValue(c) \in Int /\ (P!Proper(c) => P!Breaks(c, P!ValidValue(c)) = {})
  BY ValidValues
<1>4. valid \in Parameter /\ valid.value = P!ValidValue(c) /\ ~valid.violates
  BY <1>3 DEF Parameter
<1> HIDE DEF bad, valid
<1>5. /\ rest \in Seq(Parameter) /\ Len(rest) = Len(bad)
      /\ \A i \in 1..Len(bad) : rest[i].value = bad[i] /\ rest[i].violates
  <2>1. rest = [i \in 1..Len(bad) |-> [value |-> bad[i], violates |-> TRUE]] /\ Len(bad) \in Nat
    BY <1>2
  <2>2. \A i \in 1..Len(bad) : [value |-> bad[i], violates |-> TRUE] \in Parameter
    BY <1>2 DEF Parameter
  <2>3. rest \in Seq(Parameter) /\ Len(rest) = Len(bad)
    BY <2>1, <2>2
  <2>4. \A i \in 1..Len(bad) : rest[i] = [value |-> bad[i], violates |-> TRUE]
    BY <2>1
  <2> QED BY <2>3, <2>4
<1> HIDE DEF rest
<1>6. \A x \in Elems(rest) : x.value \in Elems(bad) /\ x.violates
  BY <1>5 DEF Elems
<1>7. <<valid>> \in Seq(Parameter) /\ Elems(<<valid>>) = {valid}
  BY <1>4 DEF Elems
<1>8. <<valid>> \o rest \in Seq(Parameter) /\ Elems(<<valid>> \o rest) = {valid} \cup Elems(rest)
  <2>1. PICK s : s = <<valid>>
    OBVIOUS
  <2>2. s \in Seq(Parameter) /\ Elems(s) = {valid}
    BY <1>7, <2>1
  <2>3. s \o rest \in Seq(Parameter) /\ Elems(s \o rest) = Elems(s) \cup Elems(rest)
    BY <1>5, <2>2, ConcatParts
  <2> QED BY <2>1, <2>2, <2>3
<1>9. <<valid>> \o rest # <<>>
  BY <1>4, <1>5
<1>10. \A x \in Elems(P!Parameters(c)) : x = valid \/ x \in Elems(rest)
  BY <1>1, <1>8
<1> QED BY <1>1, <1>2, <1>3, <1>4, <1>6, <1>8, <1>9, <1>10

\* The device that is written to, what is noted of it, and the values in the test's turn.
WrittenDevice ==
    [mistake : P!Mistakes, loses : {"nothing", "one", "lost"}, number : Int,
     seq : [DOMAIN Stored -> Seq(Int)], label : {"old", "new"}, width : Nat,
     levels : [datatype : Limits \cup {P!NoConstraint}, property : {P!NoConstraint},
               runtime : Limits \cup {P!NoConstraint}]]
PropertyNotes ==
    [errors : SUBSET {"property", "add", "set", "remove"},
     checked : SUBSET {"property", "add", "set", "remove"}, validated : BOOLEAN, number : Int]

Numbered == On({"test_29"}, "set") \/ On({"test_29"}, "reset")
Reversed == On({"test_31"}, "reset")
Longer == On(P!Written, "setitem") \/ On(P!Written, "remove")
InTurn == Reversed \/ Longer \/ On({"test_31"} \cup P!Written, "visit")

PropertyTypes ==
    /\ IsRun /\ device \in WrittenDevice /\ noted \in PropertyNotes
    /\ On({"test_29"}, "set") =>
         /\ P!Constraint \in Limits /\ at.todo # <<>> /\ at.todo \in Seq(Parameter)
         /\ Elems(at.todo) \subseteq Elems(P!Parameters(P!Constraint))
    /\ InTurn => at.todo \in Seq(DOMAIN Stored) /\ at.todo # <<>>
    /\ Longer => Len(device.seq[Subject]) > 1

\* What is changed in the middle of a test, and is changed back.
Changes ==
    /\ device.label = "old" \/ On({"test_15"}, "reset")
    /\ device.number = noted.number \/ Numbered
    /\ \A q \in DOMAIN Stored : device.seq[q] = Stored[q] \/ ((Reversed \/ Longer) /\ q = Subject)
    /\ Reversed => device.seq[Subject] = P!Reverse(Stored[Subject])
    /\ Longer => Stored[Subject] # <<>> /\ \E x \in Int : device.seq[Subject] = Append(Stored[Subject], x)

\* A device that sets what it is asked to, or that takes values it should not, or none.
Restorable == device.mistake \in {"none", "min", "max", "step", "refuses"} /\ device.loses # "lost"
Conforming ==
    /\ device.mistake = "none" /\ device.loses # "lost"
    /\ P!Proper(P!Constraint) /\ P!Narrowing(device.levels, {})

PropertyInv ==
    /\ PropertyTypes
    /\ Restorable => Changes
    /\ Conforming => noted.errors = {} /\ FailedTests = {}

LEMMA PropertyRun ==
    /\ \A v : P!Conclude(v) <=> Conclude(v)
    /\ \A step : P!Goto(step) <=> Step(step, 0)
    /\ \A tests, step : P!On(tests, step) <=> On(tests, step)
    /\ P!Ended <=> Ended
    /\ P!Subject = Subject
    /\ P!Verdict = Verdict /\ P!NoVerdicts(P!Order) = NoVerdicts(P!Order)
    /\ \A plan : P!Position(plan) = Position(plan)
BY DEF P!Conclude, Conclude, P!Position, Position, P!Goto, P!Step, Step, P!On, On, P!Ended, Ended,
     P!Verdict, Verdict, P!NoVerdicts, NoVerdicts, P!Subject, Subject


\* The device changes in its values only.
SameDevice ==
    /\ device'.mistake = device.mistake /\ device'.loses = device.loses
    /\ device'.levels = device.levels /\ device'.width = device.width

\* The limits of its constraints are numbers of the property's datatype.
Fitting == P!Fits(device.levels.datatype, device.width) /\ P!Fits(device.levels.runtime, device.width)

LEMMA SameDeviceParts ==
    ASSUME SameDevice
    PROVE  /\ P!Constraint' = P!Constraint
           /\ Restorable' <=> Restorable
           /\ Conforming' <=> Conforming
           /\ Fitting' <=> Fitting
<1>1. P!Constraint' = P!Constraint
  BY DEF SameDevice, P!Constraint
<1>2. P!Proper(P!Constraint)' <=> P!Proper(P!Constraint)
  BY <1>1 DEF SameDevice, P!Proper
<1> QED BY <1>1, <1>2 DEF SameDevice, Restorable, Conforming, P!Narrowing, Fitting

AsStored ==
    /\ device.label = "old" /\ device.number = noted.number
    /\ \A q \in DOMAIN Stored : device.seq[q] = Stored[q]

\* Between two tests nothing is changed.
LEMMA BetweenTests ==
    ASSUME PropertyInv, Restorable, at.step = "begin" \/ Ended
    PROVE  AsStored
BY DEF PropertyInv, Changes, Numbered, Reversed, Longer, On, AsStored

\* A test ends with nothing changed, and no test of a conforming device fails.
LEMMA PropertyTestEnds ==
    ASSUME PropertyInv, NEW v \in Verdict, Conclude(v),
           device' \in WrittenDevice, noted' \in PropertyNotes,
           Restorable' => AsStored',
           Conforming' => Conforming /\ noted'.errors = {} /\ v # "FAIL"
    PROVE  PropertyInv'
<1>1. IsRun' /\ at'.step = "begin" /\ (v # "FAIL" => FailedTests' \subseteq FailedTests)
  BY TestEnds, FailedParts DEF PropertyInv, PropertyTypes
<1>2. ~Numbered' /\ ~Reversed' /\ ~Longer' /\ ~InTurn' /\ ~On({"test_29"}, "set")'
  BY <1>1 DEF Numbered, Reversed, Longer, InTurn, On
<1>3. PropertyTypes'
  BY <1>1, <1>2 DEF PropertyTypes
<1>4. Restorable' => Changes'
  BY <1>2 DEF AsStored, Changes
<1>5. Conforming' => noted'.errors = {} /\ FailedTests' = {}
  BY <1>1 DEF PropertyInv
<1> QED BY <1>3, <1>4, <1>5 DEF PropertyInv

\* A test goes on, with what it has changed.
LEMMA PropertyTestGoesOn ==
    ASSUME PropertyInv, IsRun', verdict' = verdict, PropertyTypes', SameDevice,
           Restorable => Changes', Conforming => noted'.errors = {}
    PROVE  PropertyInv'
BY SameDeviceParts DEF PropertyInv, FailedTests

LEMMA PropertiesBegin == P!Init => PropertyInv /\ Fitting
<1> SUFFICES ASSUME P!Init PROVE PropertyInv /\ Fitting
  OBVIOUS
<1>1. PICK plan : at = Position(plan)
  BY PropertyRun DEF P!Init
<1>2. verdict = NoVerdicts(P!Order)
  BY PropertyRun DEF P!Init
<1>3. IsRun /\ at.step = "begin" /\ FailedTests = {}
  BY <1>1, <1>2, RunBegins DEF FailedTests
<1>4. PICK mistake \in P!Mistakes, datatype \in Limits \cup {P!NoConstraint},
           runtime \in Limits \cup {P!NoConstraint}, width \in Widths, loses \in {"nothing", "one"}, number \in -2..3 :
         /\ device = [mistake |-> mistake, loses |-> loses, number |-> number, seq |-> Stored, label |-> "old",
                      levels |-> [datatype |-> datatype, property |-> P!NoConstraint, runtime |-> runtime],
                      width |-> width]
         /\ P!Fits(datatype, width) /\ P!Fits(runtime, width) /\ width \in Nat
  <2>1. Widths \subseteq Nat
    BY ControlAssumption DEF ControlAssumption, P!PropertyTestsAssumption
  <2>2. PICK mistake \in P!Mistakes, datatype \in Limits \cup {P!NoConstraint},
             runtime \in Limits \cup {P!NoConstraint}, width \in Widths, loses \in {"nothing", "one"} :
           LET levels == [datatype |-> datatype, property |-> P!NoConstraint, runtime |-> runtime]
           IN  /\ P!Fits(datatype, width) /\ P!Fits(runtime, width) /\ (loses = "one" => mistake = "none")
               /\ \E number \in {v \in -2..3 : P!Breaks(P!Effective(levels), v) = {}} :
                    /\ number \in P!Numbers(width)
                    /\ device = [mistake |-> mistake, loses |-> loses, number |-> number,
                                 seq |-> Stored, label |-> "old", levels |-> levels, width |-> width]
    BY DEF P!Init
  <2>3. PICK number \in -2..3 :
           device = [mistake |-> mistake, loses |-> loses, number |-> number, seq |-> Stored, label |-> "old",
                     levels |-> [datatype |-> datatype, property |-> P!NoConstraint, runtime |-> runtime],
                     width |-> width]
    BY <2>2, Zenon
  <2>4. P!Fits(datatype, width) /\ P!Fits(runtime, width) /\ width \in Nat
    BY <2>1, <2>2
  <2> QED BY <2>3, <2>4
<1>5. device \in WrittenDevice /\ device.label = "old" /\ device.seq = Stored
  BY <1>4, Constraints DEF WrittenDevice
<1>8. Fitting
  BY <1>4 DEF Fitting
<1>6. noted = [errors |-> {}, checked |-> {}, validated |-> FALSE, number |-> device.number]
  BY DEF P!Init
<1>7. noted \in PropertyNotes /\ noted.errors = {} /\ noted.number = device.number
  BY <1>5, <1>6 DEF PropertyNotes, WrittenDevice
<1> QED BY <1>3, <1>5, <1>7, <1>8 DEF PropertyInv, PropertyTypes, Changes, InTurn, Reversed, Longer, On

LEMMA Verdicts == \A v \in {"PASS", "FAIL", "UNCLEAR"} : v \in Verdict
BY DEF Verdict

\* A test that only judges, by what it is told or what was noted.
LEMMA JudgedParts ==
    ASSUME PropertyInv, NEW errors \in BOOLEAN, NEW checked \in BOOLEAN, P!Judged(errors, checked)
    PROVE  \E v \in Verdict : Conclude(v) /\ (v = "FAIL" <=> errors)
<1> DEFINE v == CASE errors -> "FAIL" [] ~errors /\ ~checked -> "UNCLEAR" [] OTHER -> "PASS"
<1>1. Conclude(v)
  BY PropertyRun DEF P!Judged
<1>2. v \in Verdict /\ (v = "FAIL" <=> errors)
  BY Verdicts
<1> QED BY <1>1, <1>2

LEMMA PropertySetUp ==
    ASSUME PropertyInv, P!SetUp
    PROVE  PropertyInv'
<1>1. /\ at.step = "begin" /\ Conclude("PASS") /\ device' = device
      /\ noted' = [noted EXCEPT !.errors = {}, !.checked = {}, !.validated = FALSE]
  BY PropertyRun DEF P!SetUp, On
<1>2. noted' \in PropertyNotes /\ noted'.errors = {} /\ noted'.number = noted.number
  BY <1>1 DEF PropertyInv, PropertyTypes, PropertyNotes
<1>3. SameDevice
  BY <1>1 DEF SameDevice
<1>4. Restorable' => AsStored'
  BY <1>1, <1>2, <1>3, SameDeviceParts, BetweenTests DEF AsStored
<1>5. device' \in WrittenDevice
  BY <1>1 DEF PropertyInv, PropertyTypes
<1> QED BY <1>1, <1>2, <1>3, <1>4, <1>5, SameDeviceParts, PropertyTestEnds, Verdicts

LEMMA PropertyLost ==
    ASSUME PropertyInv, P!RequestLost
    PROVE  PropertyInv'
<1>1. Conclude("FAIL") /\ device' = [device EXCEPT !.loses = "lost"] /\ noted' = noted
  BY PropertyRun DEF P!RequestLost
<1>2. device' \in WrittenDevice /\ ~Restorable' /\ ~Conforming'
  BY <1>1 DEF PropertyInv, PropertyTypes, WrittenDevice, Restorable, Conforming
<1>3. noted' \in PropertyNotes
  BY <1>1 DEF PropertyInv, PropertyTypes
<1> QED BY <1>1, <1>2, <1>3, PropertyTestEnds, Verdicts

LEMMA LabelStep ==
    ASSUME PropertyInv, P!Label
    PROVE  PropertyInv'
<1>1. noted' = noted /\ noted' \in PropertyNotes
  BY DEF P!Label, PropertyInv, PropertyTypes
<1>2. PICK label \in {"old", "new"} : device' = [device EXCEPT !.label = label]
  BY DEF P!Label, PropertyInv, PropertyTypes, WrittenDevice
<1>3. device' \in WrittenDevice /\ SameDevice /\ device'.number = device.number /\ device'.seq = device.seq
      /\ device'.label = label
  BY <1>2 DEF PropertyInv, PropertyTypes, WrittenDevice, SameDevice
<1>4. CASE On({"test_15"}, "begin") /\ P!Check(device'.label = "new", "reset")
           /\ device' = [device EXCEPT !.label = IF device.mistake = "nolabel" THEN device.label ELSE "new"]
  <2>1. at.step = "begin" /\ ~Ended /\ Head(at.plan) = "test_15"
    BY <1>4 DEF On
  <2>2. device.mistake # "nolabel" => label = "new"
    BY <1>3, <1>4 DEF PropertyInv, PropertyTypes, WrittenDevice
  <2>3. CASE label # "new"
    <3>1. Conclude("FAIL")
      BY <1>3, <1>4, <2>3, PropertyRun DEF P!Check
    <3>2. ~Restorable' /\ ~Conforming'
      BY <1>3, <2>2, <2>3 DEF Restorable, Conforming, SameDevice
    <3> QED BY <1>1, <1>3, <3>1, <3>2, PropertyTestEnds, Verdicts
  <2>4. CASE label = "new"
    <3>1. Step("reset", 0)
      BY <1>3, <1>4, <2>4, PropertyRun DEF P!Check
    <3>2. IsRun' /\ verdict' = verdict /\ at'.step = "reset" /\ at'.plan = at.plan
      BY <3>1, TestSteps DEF PropertyInv, PropertyTypes
    <3>3. On({"test_15"}, "reset")' /\ ~Numbered' /\ ~Reversed' /\ ~Longer' /\ ~InTurn' /\ ~On({"test_29"}, "set")'
      BY <2>1, <3>2 DEF On, Ended, Numbered, Reversed, Longer, InTurn, P!Written
    <3>4. PropertyTypes'
      BY <1>1, <1>3, <3>2, <3>3 DEF PropertyTypes
    <3>5. Restorable => Changes'
      BY <1>1, <1>3, <2>1, <3>3, BetweenTests DEF AsStored, Changes
    <3> QED BY <1>1, <1>3, <3>2, <3>4, <3>5, PropertyTestGoesOn DEF PropertyInv
  <2> QED BY <2>3, <2>4
<1>5. CASE On({"test_15"}, "reset") /\ Conclude("PASS") /\ device' = [device EXCEPT !.label = "old"]
  <2>1. device'.label = "old"
    BY <1>5 DEF PropertyInv, PropertyTypes, WrittenDevice
  <2>2. ~Numbered /\ ~Reversed /\ ~Longer
    BY <1>5 DEF On, Numbered, Reversed, Longer, P!Written
  <2>3. Restorable' => AsStored'
    BY <1>1, <1>3, <2>1, <2>2, SameDeviceParts DEF PropertyInv, Changes, AsStored
  <2> QED BY <1>1, <1>3, <1>5, <2>3, SameDeviceParts, PropertyTestEnds, Verdicts DEF PropertyInv
<1> QED BY <1>4, <1>5, PropertyRun DEF P!Label

\* The levels of a conforming device's constraints are not found to widen.
LEMMA HierarchyStep ==
    ASSUME PropertyInv, P!Hierarchy
    PROVE  PropertyInv'
<1> DEFINE pairs == P!Overrides(device.levels)
           errors == \E p \in pairs : P!Partial(p[1], p[2]) \/ P!Widens(p[1], p[2])
<1>1. at.step = "begin" /\ P!Judged(errors, pairs # {}) /\ device' = device /\ noted' = noted
  BY PropertyRun DEF P!Hierarchy, On
<1>2. Conforming => ~errors
  BY DEF Conforming, P!Narrowing, P!Widens
<1>3. errors \in BOOLEAN
  OBVIOUS
<1> HIDE DEF errors, pairs
<1>4. PICK v \in Verdict : Conclude(v) /\ (v = "FAIL" <=> errors)
  BY <1>1, <1>3, JudgedParts
<1>5. SameDevice /\ device' \in WrittenDevice /\ noted' \in PropertyNotes
  BY <1>1 DEF SameDevice, PropertyInv, PropertyTypes
<1>6. Restorable' => AsStored'
  BY <1>1, <1>5, SameDeviceParts, BetweenTests DEF AsStored
<1>7. Conforming' => Conforming /\ noted'.errors = {} /\ v # "FAIL"
  BY <1>1, <1>2, <1>4, <1>5, SameDeviceParts DEF PropertyInv
<1> QED BY <1>4, <1>5, <1>6, <1>7, PropertyTestEnds

LEMMA ReadOnlyStep ==
    ASSUME PropertyInv, P!SetReadOnly
    PROVE  PropertyInv'
<1>1. at.step = "begin" /\ device' = device /\ noted' = noted
  BY PropertyRun DEF P!SetReadOnly, On
<1>2. PICK v \in Verdict : Conclude(v) /\ (v = "FAIL" => device.mistake = "readonly")
  <2>1. CASE ReadOnly
    <3>1. P!Judged(device.mistake = "readonly", TRUE)
      BY <2>1 DEF P!SetReadOnly
    <3> QED BY <3>1, JudgedParts
  <2>2. CASE ~ReadOnly
    <3>1. Conclude("UNCLEAR")
      BY <2>2, PropertyRun DEF P!SetReadOnly
    <3> QED BY <3>1, Verdicts
  <2> QED BY <2>1, <2>2
<1>5. SameDevice /\ device' \in WrittenDevice /\ noted' \in PropertyNotes
  BY <1>1 DEF SameDevice, PropertyInv, PropertyTypes
<1>6. Restorable' => AsStored'
  BY <1>1, <1>5, SameDeviceParts, BetweenTests DEF AsStored
<1>7. Conforming' => Conforming /\ noted'.errors = {} /\ v # "FAIL"
  BY <1>1, <1>2, <1>5, SameDeviceParts DEF PropertyInv, Conforming
<1> QED BY <1>2, <1>5, <1>6, <1>7, PropertyTestEnds

\* The constraint that holds, if any level has one.
LEMMA SomeConstraint ==
    ASSUME PropertyInv, P!Constraint # P!NoConstraint
    PROVE  P!Constraint \in Limits
BY DEF P!Constraint, P!Effective, PropertyInv, PropertyTypes, WrittenDevice

LEMMA BeginNumberStep ==
    ASSUME PropertyInv, P!BeginNumber
    PROVE  PropertyInv'
<1>1. at.step = "begin" /\ ~Ended /\ Head(at.plan) = "test_29" /\ device' = device
  BY PropertyRun DEF P!BeginNumber, On
<1>2. SameDevice /\ device' \in WrittenDevice /\ noted \in PropertyNotes
  BY <1>1 DEF SameDevice, PropertyInv, PropertyTypes
<1>3. CASE P!Constraint = P!NoConstraint
  <2>1. Conclude("UNCLEAR") /\ noted' = noted
    BY <1>3, PropertyRun DEF P!BeginNumber
  <2>2. Restorable' => AsStored'
    BY <1>1, <1>2, <2>1, SameDeviceParts, BetweenTests DEF AsStored
  <2> QED BY <1>2, <2>1, <2>2, SameDeviceParts, PropertyTestEnds, Verdicts DEF PropertyInv
<1>4. CASE P!Constraint # P!NoConstraint
  <2>1. /\ noted' = [noted EXCEPT !.errors = @ \ {"property"}, !.checked = @ \ {"property"},
                                  !.number = device.number]
        /\ at' = [at EXCEPT !.step = "set", !.todo = P!Parameters(P!Constraint)] /\ verdict' = verdict
    BY <1>4 DEF P!BeginNumber
  <2>2. noted' \in PropertyNotes /\ noted'.errors \subseteq noted.errors /\ noted'.number = device.number
    BY <1>2, <2>1 DEF PropertyNotes, PropertyInv, PropertyTypes, WrittenDevice
  <2>3. P!Constraint \in Limits
    BY <1>4, SomeConstraint
  <2>4. P!Parameters(P!Constraint) \in Seq(Parameter) /\ P!Parameters(P!Constraint) # <<>>
    BY <2>3, ParametersParts
  <2>5. IsRun' /\ at'.step = "set" /\ at'.plan = at.plan /\ at'.todo = P!Parameters(P!Constraint)
    BY <2>1, TestGoesOn DEF PropertyInv, PropertyTypes
  <2>6. On({"test_29"}, "set")' /\ ~Reversed' /\ ~Longer' /\ ~InTurn'
    BY <1>1, <2>5 DEF On, Ended, Reversed, Longer, InTurn
  <2>7. P!Constraint' = P!Constraint /\ P!Parameters(P!Constraint)' = P!Parameters(P!Constraint)
    BY <1>1 DEF P!Constraint
  <2>8. PropertyTypes'
    BY <1>2, <2>2, <2>3, <2>4, <2>5, <2>6, <2>7 DEF PropertyTypes, Elems
  <2>9. Restorable => Changes'
    BY <1>1, <2>6, BetweenTests DEF AsStored, Changes, Numbered
  <2> QED BY <1>2, <2>1, <2>2, <2>5, <2>8, <2>9, PropertyTestGoesOn DEF PropertyInv
<1> QED BY <1>3, <1>4

\* A conforming device takes the values that do not break its constraint, and no others.
LEMMA SetNumberStep ==
    ASSUME PropertyInv, Fitting, P!SetNumber
    PROVE  PropertyInv'
<1> DEFINE x == Subject  taken == P!Takes(x.value)  next == Len(at.todo) = 1
           step == IF next THEN "reset" ELSE "set"
<1>1. /\ at.step = "set" /\ ~Ended /\ Head(at.plan) = "test_29" /\ On({"test_29"}, "set")
      /\ device' = [device EXCEPT !.number = IF taken THEN x.value ELSE @]
      /\ noted' = P!Noting(x, taken) /\ verdict' = verdict
      /\ at' = [at EXCEPT !.step = step, !.todo = Tail(@)]
  <2>1. P!SetNumber
    OBVIOUS
  <2>2. On({"test_29"}, "set") /\ P!Subject = x
    BY <2>1, PropertyRun DEF P!SetNumber
  <2>3. at.step = "set" /\ ~Ended /\ Head(at.plan) = "test_29"
    BY <2>2 DEF On
  <2>4. /\ device' = [device EXCEPT !.number = IF taken THEN x.value ELSE @]
        /\ noted' = P!Noting(x, taken) /\ P!NextParameter("reset")
    BY <2>2 DEF P!SetNumber
  <2>5. at' = [at EXCEPT !.step = step, !.todo = Tail(@)] /\ verdict' = verdict
    BY <2>3, <2>4 DEF P!NextParameter
  <2> QED BY <2>2, <2>3, <2>4, <2>5
<1>2. /\ P!Constraint \in Limits /\ at.todo \in Seq(Parameter) /\ at.todo # <<>>
      /\ Elems(at.todo) \subseteq Elems(P!Parameters(P!Constraint))
  BY <1>1 DEF PropertyInv, PropertyTypes
<1>3. /\ x \in Elems(at.todo) /\ x \in Parameter
      /\ Tail(at.todo) \in Seq(Parameter) /\ Elems(Tail(at.todo)) \subseteq Elems(at.todo)
      /\ (~next => Tail(at.todo) # <<>>)
  <2>1. at.todo \in Seq(Parameter) /\ at.todo # <<>>
    BY <1>2
  <2>2. /\ Tail(at.todo) \in Seq(Parameter) /\ Head(at.todo) \in Elems(at.todo) /\ Head(at.todo) \in Parameter
        /\ Elems(Tail(at.todo)) \subseteq Elems(at.todo)
    BY <2>1, TailParts
  <2>3. ~next => Tail(at.todo) # <<>>
    <3>1. PICK t : t = at.todo
      OBVIOUS
    <3>2. t \in Seq(Parameter) /\ t # <<>>
      BY <2>1, <3>1
    <3>3. Len(t) \in Nat /\ Len(t) >= 1 /\ Len(Tail(t)) = Len(t) - 1
      BY <3>2
    <3>4. Len(t) # 1 => Tail(t) # <<>>
      <4> DEFINE u == Tail(t)
      <4>1. Len(t) # 1 => Len(u) # 0
        BY <3>3
      <4> HIDE DEF u
      <4>2. Len(u) # 0 => u # <<>>
        OBVIOUS
      <4> QED BY <4>1, <4>2 DEF u
    <3> QED BY <3>1, <3>4
  <2> QED BY <2>2, <2>3 DEF Subject
<1>4. taken \in BOOLEAN
  BY DEF P!Takes
<1>5. ASSUME Conforming PROVE taken <=> ~x.violates
  <2>1. taken <=> P!Breaks(P!Constraint, x.value) = {} /\ x.value \in P!Numbers(device.width)
    <3>1. "none" \notin P!Breaks(P!Constraint, x.value)
      BY DEF P!Breaks
    <3> QED BY <1>5, <3>1 DEF P!Takes, Conforming
  <2>2. x.violates <=> P!Breaks(P!Constraint, x.value) # {}
    BY <1>2, <1>3, <1>5, ParametersParts DEF Conforming
  <2>3. ~x.violates => x.value \in P!Numbers(device.width)
    <3>1. x.violates \/ x.value = P!ValidValue(P!Constraint)
      BY <1>2, <1>3, ParametersParts
    <3>2. P!Fits(P!Constraint, device.width)
      BY <1>2, Constraints DEF Fitting, P!Constraint, P!Effective, PropertyInv, PropertyTypes, WrittenDevice
    <3>3. device.width \in Nat
      BY DEF PropertyInv, PropertyTypes, WrittenDevice
    <3>4. P!ValidValue(P!Constraint) \in P!Numbers(device.width)
      BY <1>2, <1>5, <3>2, <3>3, ValidValues DEF Conforming
    <3> QED BY <3>1, <3>4
  <2> QED BY <2>1, <2>2, <2>3
<1> HIDE DEF taken, x, next
<1>6. x.value \in Int /\ x.violates \in BOOLEAN
  BY <1>3 DEF Parameter
<1>7. /\ device' \in WrittenDevice /\ SameDevice /\ device'.label = device.label /\ device'.seq = device.seq
  BY <1>1, <1>6 DEF PropertyInv, PropertyTypes, WrittenDevice, SameDevice
<1>8. noted' \in PropertyNotes /\ noted'.number = noted.number
  <2> DEFINE e == IF taken = x.violates THEN noted.errors \cup {"property"} ELSE noted.errors
             c == IF x.violates /\ ~taken THEN noted.checked \cup {"property"} ELSE noted.checked
  <2>1. noted' = [noted EXCEPT !.errors = e, !.checked = c]
    BY <1>1 DEF P!Noting
  <2>2. noted \in PropertyNotes
    BY DEF PropertyInv, PropertyTypes
  <2>3. e \in SUBSET {"property", "add", "set", "remove"} /\ c \in SUBSET {"property", "add", "set", "remove"}
    BY <2>2 DEF PropertyNotes
  <2> HIDE DEF e, c
  <2> QED BY <2>1, <2>2, <2>3 DEF PropertyNotes
<1>9. Conforming => noted'.errors = {}
  <2> SUFFICES ASSUME Conforming PROVE noted'.errors = {}
    OBVIOUS
  <2>1. ~(taken = x.violates)
    BY <1>4, <1>5, <1>6
  <2>2. noted'.errors = noted.errors
    BY <1>1, <2>1 DEF P!Noting, PropertyInv, PropertyTypes, PropertyNotes
  <2> QED BY <2>2 DEF PropertyInv
<1>10. IsRun' /\ at'.step = step /\ at'.plan = at.plan /\ at'.todo = Tail(at.todo)
  <2>1. PICK t : t = Tail(at.todo)
    OBVIOUS
  <2>2. at' = [at EXCEPT !.step = step, !.todo = t]
    BY <1>1, <2>1
  <2>3. PICK u : u = step
    OBVIOUS
  <2>4. at' = [at EXCEPT !.step = u, !.todo = t]
    BY <2>2, <2>3
  <2> QED BY <1>1, <2>1, <2>3, <2>4, TestGoesOn DEF PropertyInv, PropertyTypes
<1>11. ~Ended' /\ Head(at'.plan) = "test_29"
  BY <1>1, <1>10 DEF Ended
<1>12. Numbered' /\ ~Reversed' /\ ~Longer' /\ ~InTurn' /\ (On({"test_29"}, "set")' => ~next)
  BY <1>10, <1>11 DEF On, Numbered, Reversed, Longer, InTurn, P!Written
<1>13. P!Constraint' = P!Constraint /\ P!Parameters(P!Constraint)' = P!Parameters(P!Constraint)
  BY <1>7, SameDeviceParts
<1>14. PropertyTypes'
  <2>1. On({"test_29"}, "set")' => at'.todo # <<>> /\ at'.todo \in Seq(Parameter)
                                  /\ Elems(at.todo)' \subseteq Elems(P!Parameters(P!Constraint))
    <3>1. Elems(at.todo)' = Elems(Tail(at.todo))
      BY <1>10 DEF Elems
    <3> QED BY <1>2, <1>3, <1>10, <1>12, <3>1
  <2>2. Elems(P!Parameters(P!Constraint))' = Elems(P!Parameters(P!Constraint))
    BY <1>13 DEF Elems
  <2> QED BY <1>2, <1>7, <1>8, <1>10, <1>12, <1>13, <2>1, <2>2 DEF PropertyTypes
<1>15. Restorable => Changes'
  <2> SUFFICES ASSUME Restorable PROVE Changes'
    OBVIOUS
  <2>1. ~Reversed /\ ~Longer /\ ~On({"test_15"}, "reset")
    BY <1>1 DEF Reversed, Longer, On, P!Written
  <2>2. device.label = "old" /\ \A q \in DOMAIN Stored : device.seq[q] = Stored[q]
    BY <2>1 DEF PropertyInv, Changes
  <2> QED BY <1>7, <1>12, <2>2 DEF Changes
<1> QED BY <1>1, <1>7, <1>9, <1>10, <1>14, <1>15, PropertyTestGoesOn

LEMMA ResetNumberStep ==
    ASSUME PropertyInv, P!ResetNumber
    PROVE  PropertyInv'
<1> DEFINE errors == "property" \in noted.errors  checked == "property" \in noted.checked
<1>1. /\ On({"test_29"}, "reset") /\ noted' = noted /\ P!Judged(errors, checked)
      /\ device' = [device EXCEPT !.number = noted.number]
  BY PropertyRun DEF P!ResetNumber
<1>2. PICK v \in Verdict : Conclude(v) /\ (v = "FAIL" <=> errors)
  <2>1. errors \in BOOLEAN /\ checked \in BOOLEAN
    OBVIOUS
  <2> HIDE DEF errors, checked
  <2> QED BY <1>1, <2>1, JudgedParts
<1>3. noted' \in PropertyNotes /\ noted.number \in Int
  BY <1>1 DEF PropertyInv, PropertyTypes, PropertyNotes
<1>4. /\ device' \in WrittenDevice /\ SameDevice /\ device'.label = device.label /\ device'.seq = device.seq
      /\ device'.number = noted.number
  BY <1>1, <1>3 DEF PropertyInv, PropertyTypes, WrittenDevice, SameDevice
<1>5. ~Reversed /\ ~Longer /\ ~On({"test_15"}, "reset")
  BY <1>1 DEF Reversed, Longer, On, P!Written
<1>6. Restorable' => AsStored'
  BY <1>1, <1>4, <1>5, SameDeviceParts DEF PropertyInv, Changes, AsStored
<1>7. Conforming' => Conforming /\ noted'.errors = {} /\ v # "FAIL"
  BY <1>1, <1>2, <1>4, SameDeviceParts DEF PropertyInv
<1> QED BY <1>2, <1>3, <1>4, <1>6, <1>7, PropertyTestEnds

\* A sequence in reverse twice, and without what was appended to it.
LEMMA ReverseTwice ==
    ASSUME NEW s \in Seq(Int)
    PROVE  P!Reverse(s) \in Seq(Int) /\ P!Reverse(P!Reverse(s)) = s
<1> DEFINE r == P!Reverse(s)
<1>1. Len(s) \in Nat /\ r = [i \in 1..Len(s) |-> s[(Len(s) - i) + 1]]
  BY DEF P!Reverse
<1>2. \A i \in 1..Len(s) : (Len(s) - i) + 1 \in 1..Len(s) /\ s[i] \in Int
  BY <1>1
<1>3. \A i \in 1..Len(s) : s[(Len(s) - i) + 1] \in Int
  BY <1>2
<1>4. r \in Seq(Int) /\ Len(r) = Len(s) /\ \A i \in 1..Len(s) : r[i] = s[(Len(s) - i) + 1]
  BY <1>1, <1>3
<1> HIDE DEF r
<1>5. P!Reverse(r) = [i \in 1..Len(s) |-> r[(Len(s) - i) + 1]]
  BY <1>4 DEF P!Reverse
<1>6. \A i \in 1..Len(s) : r[(Len(s) - i) + 1] = s[i]
  <2> SUFFICES ASSUME NEW i \in 1..Len(s) PROVE r[(Len(s) - i) + 1] = s[i]
    OBVIOUS
  <2> DEFINE j == (Len(s) - i) + 1
  <2>1. j \in 1..Len(s) /\ (Len(s) - j) + 1 = i
    BY <1>1
  <2> HIDE DEF j
  <2>2. r[j] = s[i]
    BY <1>4, <2>1
  <2> QED BY <2>2 DEF j
<1>7. P!Reverse(r) = [i \in 1..Len(s) |-> s[i]]
  BY <1>5, <1>6
<1>8. s = [i \in 1..Len(s) |-> s[i]]
  OBVIOUS
<1> QED BY <1>4, <1>7, <1>8 DEF r

LEMMA FrontParts ==
    ASSUME NEW s \in Seq(Int)
    PROVE  /\ s # <<>> => SubSeq(s, 1, Len(s) - 1) \in Seq(Int)
           /\ \A x \in Int : /\ Append(s, x) \in Seq(Int)
                            /\ SubSeq(Append(s, x), 1, Len(Append(s, x)) - 1) = s
<1>1. ASSUME s # <<>> PROVE SubSeq(s, 1, Len(s) - 1) \in Seq(Int)
  <2>1. Len(s) \in Nat /\ Len(s) >= 1
    BY <1>1
  <2> QED BY <2>1
<1>2. ASSUME NEW x \in Int
      PROVE Append(s, x) \in Seq(Int) /\ SubSeq(Append(s, x), 1, Len(Append(s, x)) - 1) = s
  <2> DEFINE t == Append(s, x)  u == SubSeq(t, 1, Len(t) - 1)
  <2>1. /\ t \in Seq(Int) /\ Len(t) = Len(s) + 1 /\ Len(s) \in Nat
        /\ \A i \in 1..Len(s) : t[i] = s[i]
    OBVIOUS
  <2> HIDE DEF t
  <2>2. Len(t) - 1 = Len(s)
    BY <2>1
  <2>3. u \in Seq(Int) /\ Len(u) = Len(s) /\ \A i \in 1..Len(s) : u[i] = t[i]
    BY <2>1, <2>2
  <2> HIDE DEF u
  <2>4. u = s
    <3>1. \A i \in 1..Len(s) : u[i] = s[i]
      BY <2>1, <2>3
    <3>2. s = [i \in 1..Len(s) |-> s[i]]
      OBVIOUS
    <3>3. u = [i \in 1..Len(s) |-> u[i]]
      BY <2>3
    <3> QED BY <3>1, <3>2, <3>3
  <2>5. SubSeq(t, 1, Len(t) - 1) = u
    BY DEF u
  <2> QED BY <2>1, <2>4, <2>5 DEF t
<1> QED BY <1>1, <1>2

\* The loop over the sequences begins, goes on and ends.
LEMMA TurnBegins ==
    ASSUME PropertyInv, P!Visit(Sequences), at.step = "begin", ~Ended,
           Head(at.plan) \in {"test_31"} \cup P!Written, device' = device, noted' \in PropertyNotes,
           noted'.number = noted.number, noted'.errors \subseteq noted.errors
    PROVE  PropertyInv'
<1>1. SameDevice /\ device' \in WrittenDevice
  BY DEF SameDevice, PropertyInv, PropertyTypes
<1>2. CASE Sequences = <<>>
  <2>1. Conclude("UNCLEAR")
    BY <1>2, PropertyRun DEF P!Visit
  <2>2. Restorable' => AsStored'
    BY <1>1, SameDeviceParts, BetweenTests DEF AsStored
  <2> QED BY <1>1, <2>1, <2>2, SameDeviceParts, PropertyTestEnds, Verdicts DEF PropertyInv
<1>3. CASE Sequences # <<>>
  <2>1. at' = [at EXCEPT !.step = "visit", !.todo = Sequences, !.tries = 0] /\ verdict' = verdict
    BY <1>3 DEF P!Visit
  <2>2. IsRun' /\ at'.step = "visit" /\ at'.plan = at.plan /\ at'.todo = Sequences
    BY <2>1, TestGoesOn DEF PropertyInv, PropertyTypes
  <2>3. ~On({"test_29"}, "set")' /\ ~Numbered' /\ ~Reversed' /\ ~Longer'
    BY <2>2 DEF On, Numbered, Reversed, Longer
  <2>4. PropertyTypes'
    BY <1>1, <1>3, <2>2, <2>3, Constraints DEF PropertyTypes
  <2>5. Restorable => Changes'
    BY <2>3, BetweenTests DEF AsStored, Changes
  <2> QED BY <1>1, <2>1, <2>2, <2>4, <2>5, PropertyTestGoesOn DEF PropertyInv
<1> QED BY <1>2, <1>3

\* The turn of a sequence, in which it changes.
LEMMA TurnParts ==
    ASSUME PropertyInv, InTurn
    PROVE  /\ at.todo \in Seq(DOMAIN Stored) /\ at.todo # <<>>
           /\ Subject \in DOMAIN Stored /\ device.seq[Subject] \in Seq(Int)
           /\ Stored[Subject] \in Seq(Int)
           /\ Tail(at.todo) \in Seq(DOMAIN Stored)
           /\ Len(at.todo) # 1 => Tail(at.todo) # <<>>
<1>1. at.todo \in Seq(DOMAIN Stored) /\ at.todo # <<>>
  BY DEF PropertyInv, PropertyTypes
<1>2. Tail(at.todo) \in Seq(DOMAIN Stored) /\ Head(at.todo) \in DOMAIN Stored
  BY <1>1, TailParts
<1>3. Len(at.todo) # 1 => Tail(at.todo) # <<>>
  <2> DEFINE t == at.todo  u == Tail(t)
  <2>1. Len(t) \in Nat /\ Len(t) >= 1 /\ Len(u) = Len(t) - 1
    BY <1>1
  <2> HIDE DEF u
  <2>2. Len(u) # 0 => u # <<>>
    OBVIOUS
  <2> QED BY <2>1, <2>2 DEF u
<1>4. Subject \in DOMAIN Stored
  BY <1>2 DEF Subject
<1>5. device.seq[Subject] \in Seq(Int) /\ Stored[Subject] \in Seq(Int)
  <2>1. device.seq \in [DOMAIN Stored -> Seq(Int)] /\ Stored \in [DOMAIN Stored -> Seq(Int)]
    BY Constraints DEF PropertyInv, PropertyTypes, WrittenDevice
  <2> QED BY <1>4, <2>1
<1> QED BY <1>1, <1>2, <1>3, <1>4, <1>5

LEMMA SequenceChanges ==
    ASSUME PropertyInv, NEW q \in DOMAIN Stored, NEW s \in Seq(Int),
           device' = [device EXCEPT !.seq[q] = s]
    PROVE  /\ device' \in WrittenDevice /\ SameDevice
           /\ device'.label = device.label /\ device'.number = device.number
           /\ device'.seq[q] = s
           /\ \A p \in DOMAIN Stored \ {q} : device'.seq[p] = device.seq[p]
<1> DEFINE seq == [device.seq EXCEPT ![q] = s]
<1>1. device \in WrittenDevice /\ device.seq \in [DOMAIN Stored -> Seq(Int)]
  BY DEF PropertyInv, PropertyTypes, WrittenDevice
<1>2. /\ seq \in [DOMAIN Stored -> Seq(Int)] /\ seq[q] = s
      /\ \A p \in DOMAIN Stored \ {q} : seq[p] = device.seq[p]
  BY <1>1
<1>3. device' = [device EXCEPT !.seq = seq]
  OBVIOUS
<1> HIDE DEF seq
<1> QED BY <1>1, <1>2, <1>3 DEF WrittenDevice, SameDevice

LEMMA TurnGoesOn ==
    ASSUME PropertyInv, InTurn, Len(at.todo) # 1, verdict' = verdict,
           \/ at' = [at EXCEPT !.step = "visit", !.todo = Tail(@), !.tries = 0]
           \/ at' = [at EXCEPT !.step = "visit", !.todo = Tail(@)],
           device' \in WrittenDevice, SameDevice, noted' \in PropertyNotes,
           Restorable => AsStored', Conforming => noted'.errors = {}
    PROVE  PropertyInv'
<1>1. IsRun' /\ at'.step = "visit" /\ at'.todo = Tail(at.todo)
  <2>1. PICK t : t = Tail(at.todo)
    OBVIOUS
  <2>2. \/ at' = [at EXCEPT !.step = "visit", !.todo = t, !.tries = 0]
        \/ at' = [at EXCEPT !.step = "visit", !.todo = t]
    BY <2>1
  <2> QED BY <2>1, <2>2, TestGoesOn DEF PropertyInv, PropertyTypes
<1>2. ~On({"test_29"}, "set")' /\ ~Numbered' /\ ~Reversed' /\ ~Longer'
  BY <1>1 DEF On, Numbered, Reversed, Longer
<1>3. PropertyTypes'
  BY <1>1, <1>2, TurnParts DEF PropertyTypes
<1>4. Restorable => Changes'
  BY <1>2 DEF AsStored, Changes
<1> QED BY <1>1, <1>3, <1>4, PropertyTestGoesOn

\* The step after which only the verdict is left.
LEMMA TurnsEnd ==
    ASSUME PropertyInv, P!Goto("judge"),
           device' \in WrittenDevice, SameDevice, noted' \in PropertyNotes,
           Restorable => AsStored', Conforming => noted'.errors = {}
    PROVE  PropertyInv'
<1>1. IsRun' /\ at'.step = "judge" /\ verdict' = verdict
  <2>1. Step("judge", 0)
    BY PropertyRun
  <2> QED BY <2>1, TestSteps DEF PropertyInv, PropertyTypes
<1>2. ~On({"test_29"}, "set")' /\ ~Numbered' /\ ~Reversed' /\ ~Longer' /\ ~InTurn'
  BY <1>1 DEF On, Numbered, Reversed, Longer, InTurn
<1>3. PropertyTypes'
  BY <1>1, <1>2 DEF PropertyTypes
<1>4. Restorable => Changes'
  BY <1>2 DEF AsStored, Changes
<1> QED BY <1>1, <1>3, <1>4, PropertyTestGoesOn

LEMMA TurnEndsParts ==
    ASSUME PropertyInv, InTurn, P!TurnEnds,
           device' \in WrittenDevice, SameDevice, noted' \in PropertyNotes,
           Restorable => AsStored', Conforming => noted'.errors = {}
    PROVE  PropertyInv'
<1>1. CASE Len(at.todo) = 1
  <2>1. P!Goto("judge")
    BY <1>1 DEF P!TurnEnds
  <2> QED BY <2>1, TurnsEnd
<1>2. CASE Len(at.todo) # 1
  <2>1. at' = [at EXCEPT !.step = "visit", !.todo = Tail(@)] /\ verdict' = verdict
    BY <1>2 DEF P!TurnEnds
  <2> QED BY <1>2, <2>1, TurnGoesOn
<1> QED BY <1>1, <1>2

\* In the middle of a turn.
LEMMA TurnSteps ==
    ASSUME PropertyInv, InTurn, NEW step, P!Goto(step), step \in {"reset", "setitem", "remove"},
           device' \in WrittenDevice, SameDevice, noted' \in PropertyNotes,
           step = "reset" => Head(at.plan) = "test_31", ~Ended,
           step # "reset" => Head(at.plan) \in P!Written /\ Len(device'.seq[Subject]) > 1,
           Restorable => Changes', Conforming => noted'.errors = {}
    PROVE  PropertyInv'
<1>1. /\ IsRun' /\ at'.step = step /\ at'.todo = at.todo /\ at'.plan = at.plan /\ verdict' = verdict
      /\ Subject' = Subject
  <2>1. Step(step, 0)
    BY PropertyRun
  <2> QED BY <2>1, TestSteps DEF PropertyInv, PropertyTypes, Subject
<1>2. ~On({"test_29"}, "set")'
  BY <1>1 DEF On
<1>3. Longer' => Len(device'.seq[Subject]) > 1
  BY <1>1 DEF Longer, On, P!Written
<1>4. PropertyTypes'
  BY <1>1, <1>2, <1>3, TurnParts DEF PropertyTypes
<1> QED BY <1>1, <1>4, PropertyTestGoesOn

LEMMA ReversingStep ==
    ASSUME PropertyInv, P!Reversing
    PROVE  PropertyInv'
<1> DEFINE s == device.seq[Subject]  r == P!Reverse(s)
<1>1. CASE On({"test_31"}, "begin") /\ P!Visit(Sequences) /\ device' = device
           /\ noted' = [noted EXCEPT !.errors = @ \ {"property"}, !.checked = @ \ {"property"}]
  <2>1. at.step = "begin" /\ ~Ended /\ Head(at.plan) = "test_31"
    BY <1>1 DEF On
  <2>2. noted' \in PropertyNotes /\ noted'.number = noted.number /\ noted'.errors \subseteq noted.errors
    BY <1>1 DEF PropertyInv, PropertyTypes, PropertyNotes
  <2> QED BY <1>1, <2>1, <2>2, TurnBegins
<1>2. CASE On({"test_31"}, "visit") /\ device' = [device EXCEPT !.seq[Subject] = r]
           /\ P!Goto("reset") /\ noted' = noted
  <2>1. InTurn /\ at.step = "visit" /\ ~Ended /\ Head(at.plan) = "test_31"
    BY <1>2 DEF InTurn, On
  <2>2. Subject \in DOMAIN Stored /\ r \in Seq(Int)
    BY <2>1, TurnParts, ReverseTwice
  <2> HIDE DEF r
  <2>3. /\ device' \in WrittenDevice /\ SameDevice
        /\ device'.label = device.label /\ device'.number = device.number
        /\ device'.seq[Subject] = r
        /\ \A p \in DOMAIN Stored \ {Subject} : device'.seq[p] = device.seq[p]
    BY <1>2, <2>2, SequenceChanges
  <2>4. /\ Step("reset", 0) /\ at'.step = "reset" /\ at'.plan = at.plan /\ Subject' = Subject
    BY <1>2, PropertyRun, TestSteps DEF PropertyInv, PropertyTypes, Subject
  <2>5. Reversed' /\ ~Longer'
    BY <2>1, <2>4 DEF On, Ended, Reversed, Longer
  <2>6. Restorable => Changes'
    <3> SUFFICES ASSUME Restorable PROVE Changes'
      OBVIOUS
    <3>1. ~Numbered /\ ~Reversed /\ ~Longer /\ ~On({"test_15"}, "reset")
      BY <2>1 DEF On, Numbered, Reversed, Longer
    <3>2. device.label = "old" /\ device.number = noted.number /\ \A q \in DOMAIN Stored : device.seq[q] = Stored[q]
      BY <3>1 DEF PropertyInv, Changes
    <3>3. r = P!Reverse(Stored[Subject])
      BY <2>2, <3>2 DEF r
    <3> QED BY <1>2, <2>2, <2>3, <2>4, <2>5, <3>2, <3>3 DEF Changes
  <2> QED BY <1>2, <2>1, <2>3, <2>6, TurnSteps DEF PropertyInv, PropertyTypes
<1>3. CASE On({"test_31"}, "reset") /\ device' = [device EXCEPT !.seq[Subject] = r]
           /\ P!Leave /\ noted' = noted
  <2>1. InTurn /\ Reversed /\ at.step = "reset" /\ ~Ended
    BY <1>3 DEF InTurn, Reversed, On
  <2>2. Subject \in DOMAIN Stored /\ r \in Seq(Int)
    BY <2>1, TurnParts, ReverseTwice
  <2>3. Restorable => r = Stored[Subject]
    BY <2>1, TurnParts, ReverseTwice DEF PropertyInv, Changes
  <2> HIDE DEF r
  <2>4. /\ device' \in WrittenDevice /\ SameDevice
        /\ device'.label = device.label /\ device'.number = device.number
        /\ device'.seq[Subject] = r
        /\ \A p \in DOMAIN Stored \ {Subject} : device'.seq[p] = device.seq[p]
    BY <1>3, <2>2, SequenceChanges
  <2>5. Restorable => AsStored'
    <3> SUFFICES ASSUME Restorable PROVE AsStored'
      OBVIOUS
    <3>1. ~Numbered /\ ~Longer /\ ~On({"test_15"}, "reset")
      BY <1>3 DEF On, Numbered, Longer, P!Written
    <3>2. device.label = "old" /\ device.number = noted.number
          /\ \A q \in DOMAIN Stored \ {Subject} : device.seq[q] = Stored[q]
      BY <3>1 DEF PropertyInv, Changes
    <3> QED BY <1>3, <2>3, <2>4, <3>2 DEF AsStored
  <2>6. noted' \in PropertyNotes
    BY <1>3 DEF PropertyInv, PropertyTypes
  <2>7. CASE Len(at.todo) = 1
    <3>1. Conclude("PASS")
      BY <1>3, <2>7, PropertyRun DEF P!Leave, P!LeaveAs
    <3> QED BY <1>3, <2>4, <2>5, <2>6, <3>1, SameDeviceParts, PropertyTestEnds, Verdicts DEF PropertyInv
  <2>8. CASE Len(at.todo) # 1
    <3>1. at' = [at EXCEPT !.step = "visit", !.todo = Tail(@), !.tries = 0] /\ verdict' = verdict
      BY <1>3, <2>8 DEF P!Leave, P!LeaveAs
    <3> QED BY <1>3, <2>1, <2>4, <2>5, <2>6, <2>8, <3>1, TurnGoesOn DEF PropertyInv
  <2> QED BY <2>7, <2>8
<1> QED BY <1>1, <1>2, <1>3, PropertyRun DEF P!Reversing

Noticed == {"property", "add", "set", "remove"}

LEMMA NotingParts ==
    ASSUME PropertyInv, NEW errors \in SUBSET Noticed, NEW kind \in Noticed
    PROVE  /\ P!Err(errors) \in PropertyNotes /\ P!Err(errors).errors = noted.errors \cup errors
           /\ P!Err(errors).number = noted.number
           /\ P!Fine(kind, errors) \in PropertyNotes
           /\ P!Fine(kind, errors).errors = noted.errors \cup errors
           /\ P!Fine(kind, errors).number = noted.number
<1> DEFINE e == noted.errors \cup errors  c == noted.checked \cup {kind}
<1>1. noted \in PropertyNotes /\ e \in SUBSET Noticed /\ c \in SUBSET Noticed
  BY DEF PropertyInv, PropertyTypes, PropertyNotes, Noticed
<1>2. P!Err(errors) = [noted EXCEPT !.errors = e] /\ P!Fine(kind, errors) = [noted EXCEPT !.errors = e, !.checked = c]
  BY DEF P!Err, P!Fine
<1> HIDE DEF e, c
<1>3. /\ [noted EXCEPT !.errors = e] \in PropertyNotes /\ [noted EXCEPT !.errors = e].errors = e
      /\ [noted EXCEPT !.errors = e].number = noted.number
  BY <1>1 DEF PropertyNotes, Noticed
<1>4. /\ [noted EXCEPT !.errors = e, !.checked = c] \in PropertyNotes
      /\ [noted EXCEPT !.errors = e, !.checked = c].errors = e
      /\ [noted EXCEPT !.errors = e, !.checked = c].number = noted.number
  BY <1>1 DEF PropertyNotes, Noticed
<1> QED BY <1>2, <1>3, <1>4 DEF e

\* What is so during the turn of a sequence, before it has changed.
LEMMA BeforeTheTurn ==
    ASSUME PropertyInv, Restorable, at.step = "visit"
    PROVE  AsStored /\ ~Reversed /\ ~Longer
BY DEF PropertyInv, Changes, Numbered, Reversed, Longer, On, AsStored

LEMMA BeginSequencesStep ==
    ASSUME PropertyInv, P!BeginSequences
    PROVE  PropertyInv'
<1>1. /\ at.step = "begin" /\ ~Ended /\ Head(at.plan) \in P!Written
      /\ P!Visit(Sequences) /\ device' = device /\ noted' = noted
  BY PropertyRun DEF P!BeginSequences, On
<1>2. noted' \in PropertyNotes
  BY <1>1 DEF PropertyInv, PropertyTypes
<1> QED BY <1>1, <1>2, TurnBegins

\* What is added by a device that can be restored is its first item, at the end.
LEMMA AddItemStep ==
    ASSUME PropertyInv, P!AddItem
    PROVE  PropertyInv'
<1> DEFINE s == device.seq[Subject]  n == Len(s)  t == P!Added(s)
           wrong == device.mistake = "index" \/ Len(t) = n
           errors == IF t[n + 1] # s[1] THEN {"add"} ELSE {}
<1>1. at.step = "visit" /\ InTurn /\ ~Ended /\ Head(at.plan) \in P!Written
  BY PropertyRun DEF P!AddItem, On, InTurn
<1>2. s \in Seq(Int) /\ Stored[Subject] \in Seq(Int) /\ Subject \in DOMAIN Stored
  BY <1>1, TurnParts
<1>3. noted \in PropertyNotes
  BY DEF PropertyInv, PropertyTypes
<1>4. CASE s = <<>>
  <2>1. P!TurnEnds /\ device' = device /\ noted' = noted
    BY <1>4, PropertyRun DEF P!AddItem
  <2>2. SameDevice /\ device' \in WrittenDevice
    BY <2>1 DEF SameDevice, PropertyInv, PropertyTypes
  <2>3. Restorable => AsStored'
    BY <1>1, <2>1, BeforeTheTurn DEF AsStored
  <2> QED BY <1>1, <1>3, <2>1, <2>2, <2>3, TurnEndsParts DEF PropertyInv
<1>5. CASE s # <<>>
  <2>1. /\ device' = [device EXCEPT !.seq[Subject] = t]
        /\ noted' = IF wrong THEN P!Err({"add"}) ELSE P!Fine("add", errors)
        /\ IF wrong THEN P!TurnEnds ELSE P!Goto("setitem")
    BY <1>5, PropertyRun DEF P!AddItem
  <2>2. n \in Nat /\ n >= 1 /\ s[1] \in Int
    BY <1>2, <1>5
  <2>3. /\ t \in Seq(Int) /\ (Len(t) = n \/ Len(t) = n + 1)
        /\ Restorable => t = Append(s, s[1]) /\ Len(t) = n + 1 /\ t[n + 1] = s[1] /\ device.mistake # "index"
    <3>1. /\ Append(s, s[1]) \in Seq(Int) /\ Len(Append(s, s[1])) = n + 1 /\ Append(s, s[1])[n + 1] = s[1]
      BY <1>2, <2>2
    <3>2. /\ <<s[1]>> \o s \in Seq(Int) /\ Len(<<s[1]>> \o s) = n + 1
      BY <1>2, <2>2
    <3>3. t \in {s, <<s[1]>> \o s, Append(s, s[1])}
      BY DEF P!Added
    <3>4. Restorable => t = Append(s, s[1]) /\ device.mistake # "index"
      BY DEF P!Added, Restorable
    <3> HIDE DEF t
    <3> QED BY <1>2, <3>1, <3>2, <3>3, <3>4
  <2>4. Restorable => AsStored /\ ~Reversed /\ ~Longer
    BY <1>1, BeforeTheTurn
  <2>5. Conforming => Restorable
    BY DEF Conforming, Restorable
  <2> HIDE DEF t, s, n
  <2>6. Restorable => ~wrong /\ errors = {}
    BY <2>2, <2>3
  <2>7. errors \in SUBSET Noticed /\ {"add"} \in SUBSET Noticed /\ "add" \in Noticed
    BY DEF Noticed
  <2>8. /\ P!Err({"add"}) \in PropertyNotes /\ P!Err({"add"}).number = noted.number
        /\ P!Fine("add", errors) \in PropertyNotes /\ P!Fine("add", errors).number = noted.number
        /\ P!Fine("add", errors).errors = noted.errors \cup errors
    <3> HIDE DEF errors
    <3> QED BY <2>7, NotingParts
  <2>9. /\ device' \in WrittenDevice /\ SameDevice
        /\ device'.label = device.label /\ device'.number = device.number
        /\ device'.seq[Subject] = t
        /\ \A p \in DOMAIN Stored \ {Subject} : device'.seq[p] = device.seq[p]
    BY <1>2, <2>1, <2>3, SequenceChanges
  <2>10. CASE wrong
    <3>1. P!TurnEnds /\ noted' = P!Err({"add"})
      BY <2>1, <2>10
    <3>2. ~Restorable /\ ~Conforming
      BY <2>5, <2>6, <2>10
    <3> QED BY <1>1, <2>8, <2>9, <3>1, <3>2, TurnEndsParts
  <2>11. CASE ~wrong
    <3>1. P!Goto("setitem") /\ noted' = P!Fine("add", errors)
      BY <2>1, <2>11
    <3>2. Len(t) > 1
      BY <2>2, <2>3, <2>11
    <3>3. at'.step = "setitem" /\ at'.plan = at.plan /\ Subject' = Subject
      <4>1. Step("setitem", 0)
        BY <3>1, PropertyRun
      <4> QED BY <4>1, TestSteps DEF PropertyInv, PropertyTypes, Subject
    <3>4. Longer' /\ ~Reversed'
      BY <1>1, <3>3 DEF Longer, Reversed, On, Ended
    <3>5. Restorable => Changes'
      <4> SUFFICES ASSUME Restorable PROVE Changes'
        OBVIOUS
      <4>1. s = Stored[Subject] /\ device.label = "old" /\ device.number = noted.number
            /\ \A q \in DOMAIN Stored : device.seq[q] = Stored[q]
        BY <1>2, <2>4 DEF AsStored, s
      <4>2. device'.seq[Subject] = Append(Stored[Subject], s[1]) /\ s[1] \in Int /\ Stored[Subject] # <<>>
        BY <1>5, <2>2, <2>3, <2>9, <4>1
      <4>3. noted'.number = noted.number
        BY <2>8, <3>1
      <4> QED BY <1>2, <2>9, <3>3, <3>4, <4>1, <4>2, <4>3 DEF Changes
    <3>6. Conforming => noted'.errors = {}
      BY <2>5, <2>6, <2>8, <3>1 DEF PropertyInv
    <3> QED BY <1>1, <2>8, <2>9, <3>1, <3>2, <3>5, <3>6, TurnSteps
  <2> QED BY <2>10, <2>11
<1> QED BY <1>4, <1>5

\* The added item is set, and nothing else.
LEMMA SetLast ==
    ASSUME NEW s \in Seq(Int), Len(s) > 1
    PROVE  LET n == Len(s)  t == [s EXCEPT ![n] = s[n - 1]]
           IN  /\ t \in Seq(Int) /\ Len(t) = n /\ t[n] = s[n - 1]
               /\ \A u \in Seq(Int), x \in Int : s = Append(u, x) => t = Append(u, s[n - 1])
<1> DEFINE n == Len(s)  t == [s EXCEPT ![n] = s[n - 1]]
<1>1. n \in Nat /\ n \in 1..Len(s) /\ n - 1 \in 1..Len(s) /\ s[n - 1] \in Int
  OBVIOUS
<1>2. t \in Seq(Int) /\ Len(t) = n /\ t[n] = s[n - 1] /\ \A i \in 1..n : i # n => t[i] = s[i]
  BY <1>1
<1>3. ASSUME NEW u \in Seq(Int), NEW x \in Int, s = Append(u, x) PROVE t = Append(u, s[n - 1])
  <2>1. n = Len(u) + 1 /\ Len(u) \in Nat /\ \A i \in 1..Len(u) : s[i] = u[i]
    BY <1>3
  <2> DEFINE y == s[n - 1]  v == Append(u, y)
  <2>2. v \in Seq(Int) /\ Len(v) = n /\ v[n] = y /\ \A i \in 1..Len(u) : v[i] = u[i]
    BY <1>1, <2>1
  <2> HIDE DEF t, v
  <2>3. \A i \in 1..n : t[i] = v[i]
    <3>1. \A i \in 1..n : i \in 1..Len(u) \/ i = n
      BY <2>1
    <3> QED BY <1>1, <1>2, <2>1, <2>2, <3>1
  <2>4. t = [i \in 1..n |-> t[i]] /\ v = [i \in 1..n |-> v[i]]
    BY <1>2, <2>2
  <2>5. t = v
    BY <2>3, <2>4
  <2> QED BY <2>5 DEF v
<1> QED BY <1>2, <1>3

LEMMA SetItemStep ==
    ASSUME PropertyInv, P!SetItem
    PROVE  PropertyInv'
<1> DEFINE s == device.seq[Subject]  n == Len(s)
           last == [s EXCEPT ![n] = s[n - 1]]
           t == IF device.mistake \in {"noset", "seterror"} THEN s ELSE last
           errors == IF t[n] # s[n - 1] THEN {"set"} ELSE {}
<1>1. at.step = "setitem" /\ InTurn /\ Longer /\ ~Ended /\ Head(at.plan) \in P!Written
  BY PropertyRun DEF P!SetItem, On, InTurn, Longer
<1>2. /\ device' = [device EXCEPT !.seq[Subject] = t]
      /\ noted' = IF device.mistake = "seterror" THEN P!Err({"add"}) ELSE P!Fine("set", errors)
      /\ P!Goto("remove")
  BY PropertyRun DEF P!SetItem
<1>3. s \in Seq(Int) /\ Stored[Subject] \in Seq(Int) /\ Subject \in DOMAIN Stored
  BY <1>1, TurnParts
<1>4. n > 1
  BY <1>1 DEF PropertyInv, PropertyTypes
<1>5. /\ last \in Seq(Int) /\ Len(last) = n /\ last[n] = s[n - 1]
      /\ \A u \in Seq(Int), x \in Int : s = Append(u, x) => last = Append(u, s[n - 1])
  BY <1>3, <1>4, SetLast
<1>6. s[n - 1] \in Int
  BY <1>3, <1>4
<1>7. Restorable => t = last
  BY DEF Restorable
<1>8. t \in Seq(Int) /\ Len(t) = n
  BY <1>3, <1>5
<1>9. Conforming => Restorable /\ device.mistake = "none"
  BY DEF Conforming, Restorable
<1>10. Restorable => errors = {}
  BY <1>5, <1>7
<1>11. errors \in SUBSET Noticed /\ {"add"} \in SUBSET Noticed /\ "set" \in Noticed
  BY DEF Noticed
<1> HIDE DEF s, n, last, t, errors
<1>12. /\ P!Err({"add"}) \in PropertyNotes /\ P!Err({"add"}).number = noted.number
       /\ P!Fine("set", errors) \in PropertyNotes /\ P!Fine("set", errors).number = noted.number
       /\ P!Fine("set", errors).errors = noted.errors \cup errors
  BY <1>11, NotingParts
<1>13. noted' \in PropertyNotes /\ noted'.number = noted.number
  BY <1>2, <1>12
<1>14. Conforming => noted'.errors = {}
  <2> SUFFICES ASSUME Conforming PROVE noted'.errors = {}
    OBVIOUS
  <2>1. noted' = P!Fine("set", errors)
    BY <1>2, <1>9
  <2> QED BY <1>9, <1>10, <1>12, <2>1 DEF PropertyInv
<1>15. /\ device' \in WrittenDevice /\ SameDevice
       /\ device'.label = device.label /\ device'.number = device.number
       /\ device'.seq[Subject] = t
       /\ \A p \in DOMAIN Stored \ {Subject} : device'.seq[p] = device.seq[p]
  BY <1>2, <1>3, <1>8, SequenceChanges
<1>16. at'.step = "remove" /\ at'.plan = at.plan /\ Subject' = Subject
  <2>1. Step("remove", 0)
    BY <1>2, PropertyRun
  <2> QED BY <2>1, TestSteps DEF PropertyInv, PropertyTypes, Subject
<1>17. Longer' /\ ~Reversed'
  BY <1>1, <1>16 DEF Longer, Reversed, On, Ended
<1>18. Restorable => Changes'
  <2> SUFFICES ASSUME Restorable PROVE Changes'
    OBVIOUS
  <2>1. ~Numbered /\ ~Reversed /\ ~On({"test_15"}, "reset")
    BY <1>1 DEF On, Numbered, Reversed
  <2>2. /\ device.label = "old" /\ device.number = noted.number
        /\ \A q \in DOMAIN Stored \ {Subject} : device.seq[q] = Stored[q]
        /\ Stored[Subject] # <<>>
    BY <1>1, <2>1 DEF PropertyInv, Changes
  <2>3. PICK x \in Int : s = Append(Stored[Subject], x)
    BY <1>1 DEF PropertyInv, Changes, s
  <2>4. t = Append(Stored[Subject], s[n - 1])
    BY <1>3, <1>5, <1>7, <2>3
  <2> QED BY <1>3, <1>6, <1>13, <1>15, <1>16, <1>17, <2>2, <2>4 DEF Changes
<1> QED BY <1>1, <1>2, <1>4, <1>8, <1>13, <1>14, <1>15, <1>18, TurnSteps

LEMMA RemoveItemStep ==
    ASSUME PropertyInv, P!RemoveItem
    PROVE  PropertyInv'
<1> DEFINE s == device.seq[Subject]
           t == IF device.mistake = "noremove" THEN s ELSE SubSeq(s, 1, Len(s) - 1)
           errors == IF Len(t) = Len(s) THEN {"remove"} ELSE {}
<1>1. at.step = "remove" /\ InTurn /\ Longer /\ ~Ended
  BY PropertyRun DEF P!RemoveItem, On, InTurn, Longer
<1>2. /\ device' = [device EXCEPT !.seq[Subject] = t]
      /\ noted' = P!Fine("remove", errors) /\ P!TurnEnds
  BY PropertyRun DEF P!RemoveItem
<1>3. s \in Seq(Int) /\ Stored[Subject] \in Seq(Int) /\ Subject \in DOMAIN Stored
  BY <1>1, TurnParts
<1>4. Len(s) > 1
  BY <1>1 DEF PropertyInv, PropertyTypes
<1>5. t \in Seq(Int)
  <2>1. s # <<>>
    BY <1>3, <1>4
  <2> QED BY <1>3, <2>1, FrontParts
<1>6. Conforming => Restorable
  BY DEF Conforming, Restorable
<1>7. Restorable => t = Stored[Subject] /\ Len(t) # Len(s)
  <2> SUFFICES ASSUME Restorable PROVE t = Stored[Subject] /\ Len(t) # Len(s)
    OBVIOUS
  <2>1. PICK x \in Int : s = Append(Stored[Subject], x)
    BY <1>1 DEF PropertyInv, Changes
  <2>2. SubSeq(s, 1, Len(s) - 1) = Stored[Subject]
    BY <1>3, <2>1, FrontParts
  <2>3. Len(s) = Len(Stored[Subject]) + 1 /\ Len(Stored[Subject]) \in Nat
    BY <1>3, <2>1
  <2> HIDE DEF s
  <2>4. t = Stored[Subject]
    BY <2>2 DEF Restorable
  <2> QED BY <2>3, <2>4
<1>8. errors \in SUBSET Noticed /\ "remove" \in Noticed /\ (Restorable => errors = {})
  BY <1>7 DEF Noticed
<1> HIDE DEF s, t, errors
<1>9. noted' \in PropertyNotes /\ noted'.number = noted.number /\ noted'.errors = noted.errors \cup errors
  BY <1>2, <1>8, NotingParts
<1>10. Conforming => noted'.errors = {}
  BY <1>6, <1>8, <1>9 DEF PropertyInv
<1>11. /\ device' \in WrittenDevice /\ SameDevice
       /\ device'.label = device.label /\ device'.number = device.number
       /\ device'.seq[Subject] = t
       /\ \A p \in DOMAIN Stored \ {Subject} : device'.seq[p] = device.seq[p]
  BY <1>2, <1>3, <1>5, SequenceChanges
<1>12. Restorable => AsStored'
  <2> SUFFICES ASSUME Restorable PROVE AsStored'
    OBVIOUS
  <2>1. ~Numbered /\ ~Reversed /\ ~On({"test_15"}, "reset")
    BY <1>1 DEF On, Numbered, Reversed
  <2>2. /\ device.label = "old" /\ device.number = noted.number
        /\ \A q \in DOMAIN Stored \ {Subject} : device.seq[q] = Stored[q]
    BY <2>1 DEF PropertyInv, Changes
  <2> QED BY <1>7, <1>9, <1>11, <2>2 DEF AsStored
<1> QED BY <1>1, <1>2, <1>9, <1>10, <1>11, <1>12, TurnEndsParts

LEMMA JudgeSequencesStep ==
    ASSUME PropertyInv, P!JudgeSequences
    PROVE  PropertyInv'
<1> DEFINE kind == [test_37 |-> "set", test_38 |-> "add", test_39 |-> "remove"][Head(at.plan)]
           errors == kind \in noted.errors  checked == kind \in noted.checked
<1>1. /\ at.step \in {"judge", "begin"} /\ noted' = [noted EXCEPT !.validated = TRUE]
      /\ P!Judged(errors, checked) /\ device' = device
  BY PropertyRun DEF P!JudgeSequences, On
<1>2. PICK v \in Verdict : Conclude(v) /\ (v = "FAIL" <=> errors)
  <2>1. errors \in BOOLEAN /\ checked \in BOOLEAN
    OBVIOUS
  <2> HIDE DEF errors, checked
  <2> QED BY <1>1, <2>1, JudgedParts
<1>3. noted' \in PropertyNotes /\ noted'.number = noted.number /\ noted'.errors = noted.errors
  BY <1>1 DEF PropertyInv, PropertyTypes, PropertyNotes
<1>4. SameDevice /\ device' \in WrittenDevice
  BY <1>1 DEF SameDevice, PropertyInv, PropertyTypes
<1>5. ~Numbered /\ ~Reversed /\ ~Longer /\ ~On({"test_15"}, "reset")
  BY <1>1 DEF Numbered, Reversed, Longer, On
<1>6. Restorable' => AsStored'
  BY <1>1, <1>3, <1>4, <1>5, SameDeviceParts DEF PropertyInv, Changes, AsStored
<1>7. Conforming' => Conforming /\ noted'.errors = {} /\ v # "FAIL"
  BY <1>2, <1>3, <1>4, SameDeviceParts DEF PropertyInv
<1> QED BY <1>2, <1>3, <1>4, <1>6, <1>7, PropertyTestEnds

\* The datatype and the constraints stay.
LEMMA FittingStep ==
    ASSUME PropertyInv, Fitting, [P!Next]_suiteVars
    PROVE  Fitting'
<1> SUFFICES device'.levels = device.levels /\ device'.width = device.width
  BY DEF Fitting
<1>1. device \in WrittenDevice
  BY DEF PropertyInv, PropertyTypes
<1>2. CASE UNCHANGED suiteVars \/ P!SetUp \/ P!Hierarchy \/ P!BeginNumber \/ P!SetReadOnly
           \/ P!BeginSequences \/ P!JudgeSequences
  BY <1>2 DEF suiteVars, P!SetUp, P!Hierarchy, P!BeginNumber, P!SetReadOnly, P!BeginSequences, P!JudgeSequences
<1>3. CASE P!RequestLost \/ P!Label \/ P!SetNumber \/ P!ResetNumber
  BY <1>1, <1>3 DEF WrittenDevice, P!RequestLost, P!Label, P!SetNumber, P!ResetNumber
<1>4. CASE P!Reversing \/ P!AddItem \/ P!SetItem \/ P!RemoveItem
  BY <1>1, <1>4 DEF WrittenDevice, P!Reversing, P!AddItem, P!SetItem, P!RemoveItem
<1> QED BY <1>2, <1>3, <1>4 DEF P!Next

LEMMA PropertyStep ==
    ASSUME PropertyInv, Fitting, [P!Next]_suiteVars
    PROVE  PropertyInv'
<1>1. CASE UNCHANGED suiteVars
  <2>1. Conforming' <=> Conforming
    BY <1>1, SameDeviceParts DEF suiteVars, SameDevice
  <2> QED BY <1>1, <2>1 DEF suiteVars, PropertyInv, PropertyTypes, Restorable, Changes, FailedTests, Numbered,
     Reversed, Longer, InTurn, On, Ended, Subject, IsRun, Elems, P!Constraint
<1>2. CASE P!Next
  BY <1>2, PropertySetUp, PropertyLost, LabelStep, HierarchyStep, BeginNumberStep, SetNumberStep,
     ResetNumberStep, ReadOnlyStep, ReversingStep, BeginSequencesStep, AddItemStep, SetItemStep,
     RemoveItemStep, JudgeSequencesStep DEF P!Next
<1> QED BY <1>1, <1>2

LEMMA PropertyHolds ==
    PropertyInv => P!TypeOK /\ P!DeviceIsRestored /\ P!ConformingPropertiesPass
<1> SUFFICES ASSUME PropertyInv PROVE P!TypeOK /\ P!DeviceIsRestored /\ P!ConformingPropertiesPass
  OBVIOUS
<1>1. P!TypeOK
  <2>1. device \in WrittenDevice /\ noted \in PropertyNotes
    BY DEF PropertyInv, PropertyTypes
  <2>2. \A t \in DOMAIN verdict : verdict[t] \in P!Verdict
    BY PropertyRun DEF PropertyInv, PropertyTypes, IsRun
  <2>3. device.mistake \in P!Mistakes /\ device.label \in {"old", "new"} /\ device.number \in Int
        /\ device.width \in Nat
        /\ \A q \in DOMAIN Stored : device.seq[q] \in Seq(Int)
    BY <2>1 DEF WrittenDevice
  <2> QED BY <2>1, <2>2, <2>3 DEF P!TypeOK, PropertyNotes
<1>2. P!DeviceIsRestored
  <2> SUFFICES ASSUME Ended, Restorable
               PROVE  device.seq = Stored /\ device.label = "old" /\ device.number = noted.number
    BY PropertyRun DEF P!DeviceIsRestored, Restorable
  <2>1. AsStored
    BY BetweenTests
  <2>2. device.seq \in [DOMAIN Stored -> Seq(Int)] /\ Stored \in [DOMAIN Stored -> Seq(Int)]
    BY Constraints DEF PropertyInv, PropertyTypes, WrittenDevice
  <2> QED BY <2>1, <2>2 DEF AsStored
<1>3. P!ConformingPropertiesPass
  BY DEF PropertyInv, P!ConformingPropertiesPass, Conforming, FailedTests
<1> QED BY <1>1, <1>2, <1>3

PropertySuite == suite = "properties" => PropertyInv /\ Fitting

LEMMA PropertySuiteHolds == ControlSpec => []PropertySuite
<1>1. ControlInit => PropertySuite
  BY PropertiesBegin DEF ControlInit, PropertySuite
<1>2. PropertySuite /\ [ControlNext]_controlVars => PropertySuite'
  <2> SUFFICES ASSUME PropertySuite, [ControlNext]_controlVars, suite' = "properties" PROVE PropertyInv' /\ Fitting'
    BY DEF PropertySuite
  <2>1. suite = "properties" /\ [P!Next]_suiteVars
    BY DEF ControlNext, controlVars
  <2> QED BY <2>1, PropertyStep, FittingStep DEF PropertySuite
<1> QED BY <1>1, <1>2, PTL DEF ControlSpec

--------------------
(* The types of the client's state.                                         *)

Asked == [kind : Kinds, of : 1..Requests]
Outcome == [by : {"none", "reply", "silence", "error", "several", "unnotified"}, of : 0..Requests]

ClientTypes ==
    /\ handle \in 0..Requests /\ pending \in Kinds \cup {"none"}
    /\ results \subseteq K!Reply /\ outcome \in Outcome
    /\ asked \in Seq(Asked) /\ inbox \in Seq(K!Reply \cup K!Notification)

LEMMA ClientBegins == K!Init => ClientTypes
<1> SUFFICES ASSUME K!Init PROVE ClientTypes
  OBVIOUS
<1>1. Requests \in Nat
  BY ControlAssumption DEF ControlAssumption, K!ControlClientAssumption
<1>2. <<>> \in Seq(Asked) /\ <<>> \in Seq(K!Reply \cup K!Notification)
  OBVIOUS
<1>3. handle = 0 /\ pending = "none" /\ results = {} /\ outcome = [by |-> "none", of |-> 0]
      /\ asked = <<>> /\ inbox = <<>>
  BY DEF K!Init
<1> QED BY <1>1, <1>2, <1>3 DEF ClientTypes, Outcome

LEMMA ClientTypesStep ==
    ASSUME ClientTypes, [K!Next]_clientVars
    PROVE  ClientTypes'
<1> DEFINE M1 == K!Reply \cup K!Notification
<1>1. /\ Requests \in Nat /\ handle \in 0..Requests /\ pending \in Kinds \cup {"none"}
      /\ results \subseteq K!Reply /\ outcome \in Outcome
      /\ asked \in Seq(Asked) /\ inbox \in Seq(M1) /\ <<>> \in Seq(M1) /\ <<>> \in Seq(Asked)
      /\ Kinds \subseteq {"command", "subscription", "illegal"}
  BY ControlAssumption DEF ControlAssumption, K!ControlClientAssumption, ClientTypes
<1>2. ASSUME NEW m \in M1 PROVE m.of \in 1..Requests
  BY DEF K!Reply, K!Notification
<1>3. CASE UNCHANGED clientVars
  BY <1>3 DEF clientVars, ClientTypes
<1>4. ASSUME NEW kind \in Kinds, K!Request(kind) PROVE ClientTypes'
  <2> DEFINE r == [kind |-> kind, of |-> handle + 1]
  <2>1. handle < Requests /\ handle + 1 \in 1..Requests
    BY <1>1, <1>4 DEF K!Request
  <2>2. r \in Asked
    BY <2>1 DEF Asked
  <2>3. asked' \in {asked, Append(asked, r)}
    BY <1>4 DEF K!Request
  <2>4. Append(asked, r) \in Seq(Asked)
    BY <1>1, <2>2
  <2>5. /\ handle' = handle + 1 /\ pending' = kind /\ results' = {} /\ inbox' = inbox
        /\ outcome' = [by |-> "none", of |-> 0]
    BY <1>4 DEF K!Request
  <2>6. outcome' \in Outcome
    BY <1>1, <2>5 DEF Outcome
  <2> HIDE DEF r
  <2> QED BY <1>1, <2>1, <2>3, <2>4, <2>5, <2>6 DEF ClientTypes
<1>5. CASE K!StartLogging \/ K!StopLogging
  BY <1>5 DEF K!StartLogging, K!StopLogging, ClientTypes
<1>6. CASE K!GetNotifications
  BY <1>1, <1>6 DEF K!GetNotifications, ClientTypes
<1>7. ASSUME NEW by \in {"reply", "silence", "error", "several", "unnotified"}, NEW of \in 0..Requests,
             K!Finish(by, of)
      PROVE  pending' = "none" /\ outcome' \in Outcome
  BY <1>7 DEF K!Finish, Outcome
<1>8. CASE K!Poll
  <2>1. /\ inbox' = <<>> /\ handle' = handle /\ asked' = asked
    BY <1>8 DEF K!Poll
  <2>2. PICK until \in DOMAIN inbox :
          /\ results' = results \cup {m \in K!Range(SubSeq(inbox, 1, until)) : K!Ours(m)}
          /\ \/ K!Finish("error", inbox[until].of)
             \/ K!Finish("several", 0)
             \/ \E m \in results' : K!Finish("reply", m.of)
             \/ UNCHANGED <<pending, outcome>>
    BY <1>8 DEF K!Poll
  <2>3. until \in 1..Len(inbox) /\ inbox[until] \in M1
    BY <1>1
  <2>4. \A m \in K!Range(SubSeq(inbox, 1, until)) : m \in M1
    <3> HIDE DEF M1
    <3> QED BY <1>1, <2>3 DEF K!Range
  <2>5. results' \subseteq K!Reply
    BY <1>1, <2>2, <2>4 DEF K!Ours, K!Reply, K!Notification
  <2>6. pending' \in Kinds \cup {"none"} /\ outcome' \in Outcome
    <3>1. inbox[until].of \in 0..Requests /\ 0 \in 0..Requests /\ \A m \in results' : m.of \in 0..Requests
      BY <1>1, <1>2, <2>3, <2>5
    <3>2. CASE K!Finish("error", inbox[until].of)
      BY <1>7, <3>1, <3>2
    <3>3. CASE K!Finish("several", 0)
      BY <1>7, <3>1, <3>3
    <3>4. CASE \E m \in results' : K!Finish("reply", m.of)
      BY <1>7, <3>1, <3>4
    <3> QED BY <1>1, <2>2, <3>2, <3>3, <3>4
  <2> QED BY <1>1, <2>1, <2>5, <2>6 DEF ClientTypes
<1>9. CASE K!TimeOut
  <2>1. /\ inbox' = inbox /\ handle' = handle /\ asked' = asked /\ results' = results
        /\ \/ K!Finish("silence", 0)
           \/ K!Finish("several", 0)
           \/ \E m \in results : K!Finish("unnotified", 0) \/ K!Finish("reply", m.of)
    BY <1>9 DEF K!TimeOut
  <2>2. 0 \in 0..Requests /\ \A m \in results : m.of \in 0..Requests
    BY <1>1, <1>2
  <2>3. ASSUME NEW m \in results, K!Finish("unnotified", 0) \/ K!Finish("reply", m.of)
        PROVE  pending' = "none" /\ outcome' \in Outcome
    BY <1>7, <2>2, <2>3
  <2>6. pending' = "none" /\ outcome' \in Outcome
    <3>1. CASE K!Finish("silence", 0)
      BY <1>7, <2>2, <3>1
    <3>2. CASE K!Finish("several", 0)
      BY <1>7, <2>2, <3>2
    <3> QED BY <2>1, <2>3, <3>1, <3>2
  <2> QED BY <1>1, <2>1, <2>6 DEF ClientTypes
<1>10. CASE K!Serve
  <2> DEFINE r == Head(asked)
             note == [type |-> "Notification", of |-> r.of]
             type == CASE r.kind = "command" -> "CommandResponse"
                       [] r.kind = "subscription" -> "SubscriptionResponse"
                       [] OTHER -> "Error"
             reply == [of |-> r.of, type |-> type]
  <2>1. asked # <<>> /\ asked' = Tail(asked)
        /\ UNCHANGED <<handle, pending, results, outcome>>
    BY <1>10 DEF K!Serve
  <2>2. inbox' \in {Append(inbox, reply), inbox \o <<note, reply>>, inbox \o <<reply, note>>}
    BY <1>10 DEF K!Serve
  <2>3. r \in Asked /\ Tail(asked) \in Seq(Asked)
    <3>1. PICK s : s = asked
      OBVIOUS
    <3> HIDE DEF r
    <3>2. s \in Seq(Asked) /\ s # <<>>
      BY <1>1, <2>1, <3>1
    <3>3. Head(s) \in Asked /\ Tail(s) \in Seq(Asked)
      BY <3>2
    <3> QED BY <3>1, <3>3 DEF r
  <2>4. type \in {"CommandResponse", "SubscriptionResponse", "Error"}
    OBVIOUS
  <2> HIDE DEF r, type
  <2>5. note \in M1 /\ reply \in M1
    BY <2>3, <2>4 DEF K!Reply, K!Notification, Asked
  <2> HIDE DEF note, reply, M1
  <2>6. /\ Append(inbox, reply) \in Seq(M1) /\ inbox \o <<note, reply>> \in Seq(M1)
        /\ inbox \o <<reply, note>> \in Seq(M1)
    BY <1>1, <2>5
  <2>7. inbox' \in Seq(M1)
    BY <2>2, <2>6
  <2> QED BY <1>1, <2>1, <2>3, <2>7 DEF ClientTypes, M1
<1>11. CASE K!Close
  BY <1>1, <1>11 DEF K!Close, ClientTypes
<1> QED BY <1>3, <1>4, <1>5, <1>6, <1>8, <1>9, <1>10, <1>11 DEF K!Next

LEMMA ClientTypesHold == ControlSpec => [](ClientTypes /\ (suite = "client" => NoSuite))
<1> DEFINE Inv == ClientTypes /\ (suite = "client" => NoSuite)
<1>1. ControlInit => Inv
  BY ClientBegins DEF ControlInit
<1>2. Inv /\ [ControlNext]_controlVars => Inv'
  <2> SUFFICES ASSUME Inv, [ControlNext]_controlVars PROVE Inv'
    OBVIOUS
  <2>1. ClientTypes'
    BY ClientTypesStep, ClientSteps
  <2>2. suite' = "client" => UNCHANGED suiteVars /\ suite = "client"
    BY DEF ControlNext, controlVars
  <2> QED BY <2>1, <2>2 DEF suiteVars, NoSuite, Position
<1> QED BY <1>1, <1>2, PTL DEF ControlSpec

LEMMA ClientTypesGiven == ClientTypes => K!TypeOK
<1> SUFFICES ASSUME ClientTypes PROVE K!TypeOK
  OBVIOUS
<1>1. K!Range(inbox) \subseteq K!Reply \cup K!Notification
  <2> DEFINE M1 == K!Reply \cup K!Notification
  <2>1. inbox \in Seq(M1)
    BY DEF ClientTypes
  <2> HIDE DEF M1
  <2>2. K!Range(inbox) \subseteq M1
    BY <2>1 DEF K!Range
  <2> QED BY <2>2 DEF M1
<1> QED BY <1>1 DEF K!TypeOK, ClientTypes, Outcome

--------------------
(* BCP-008: the resources that are activated.                               *)

Resources == M!Range(Monitors)
Marks == {"checked", "error", "manual"}
Meta == [M!Topics -> SUBSET Marks]
Sent == [notes : Seq(M!Notes), age : Nat]

MonitoredDevice ==
    [fault : M!Faults, streamless : BOOLEAN, apart : BOOLEAN, status : [Resources -> M!Statuses],
     overall : [Resources -> M!Statuses], counter : [Resources -> BOOLEAN],
     left : [Resources -> M!Statuses], set : SUBSET M!Settings, loses : {"nothing", "one", "lost"},
     timer : Nat, wire : Seq(Sent)]

AreNotes(n) ==
    /\ n = [meta |-> n.meta, found |-> n.found, now |-> n.now, inbox |-> n.inbox,
            log |-> n.log, before |-> n.before]
    /\ n.meta \in Meta /\ n.found \in BOOLEAN
MonitorNotes == AreNotes(noted)

MonitorTypes ==
    /\ IsRun /\ device \in MonitoredDevice /\ MonitorNotes
    /\ at.step # "begin" => at.todo \in Seq(Resources) /\ at.todo # <<>>

\* What of a device no request changes; and the resources that are active and were not.
Alike(r, d) == r.fault = d.fault /\ r.left = d.left /\ r.loses = d.loses
StillActive(d) == {m \in Resources : d.left[m] = "inactive" /\ d.status[m] # "inactive"}

\* A resource is active only in its own turn or, left so by whoever used it before, until
\* then; a lost request leaves at most one so.
Released ==
    /\ at.step \in {"watch", "brief", "auto", "again"} => device.status[Subject] # "inactive"
    /\ at.step \in {"cut", "rest", "last"} => device.status[Subject] = "inactive" /\ device.timer = 0
    /\ at.step # "begin" => \A m \in Resources \ Elems(at.todo) : device.status[m] = "inactive"
    /\ device.loses # "lost" /\ at.step # "begin" => StillActive(device) \subseteq {Subject}
    /\ device.loses # "lost" /\ at.step = "begin" =>
         /\ StillActive(device) = {}
         /\ noted.found => \A m \in Resources : device.status[m] = "inactive"
    /\ at.step = "begin" => \A m, n \in StillActive(device) : m = n

MonitorInv == MonitorTypes /\ (device.fault = "none" => Released)

LEMMA MonitorRun ==
    /\ \A v : M!Conclude(v) <=> Conclude(v)
    /\ \A step : M!Goto(step) <=> Step(step, 0)
    /\ \A step, tries : M!Step(step, tries) <=> Step(step, tries)
    /\ \A tests, step : M!On(tests, step) <=> On(tests, step)
    /\ M!Ended <=> Ended
    /\ M!Subject = Subject
    /\ M!Verdict = Verdict /\ M!NoVerdicts(M!Order) = NoVerdicts(M!Order)
    /\ \A plan : M!Position(plan) = Position(plan)
BY DEF M!Conclude, Conclude, M!Position, Position, M!Goto, M!Step, Step, M!On, On, M!Ended, Ended,
     M!Verdict, Verdict, M!NoVerdicts, NoVerdicts, M!Subject, Subject

LEMMA MonitorValues ==
    /\ Monitors \in Seq(Resources) /\ Resources = Elems(Monitors) /\ Delay \in Nat
    /\ \A v \in {"PASS", "FAIL", "UNCLEAR", "MANUAL"} : v \in Verdict
    /\ "inactive" \in M!Statuses /\ "healthy" \in M!Statuses /\ M!Unhealthy \in M!Statuses
<1>1. Monitors \in Seq(Resources) /\ Delay \in Nat
  BY ControlAssumption DEF ControlAssumption, M!MonitorTestsAssumption, Resources
<1>2. Resources = Elems(Monitors)
  <2>1. DOMAIN Monitors = 1..Len(Monitors)
    BY <1>1
  <2> QED BY <2>1 DEF Resources, M!Range, Elems
<1> QED BY <1>1, <1>2 DEF Verdict, M!Statuses, M!Unhealthy

\* What is sent changes only what is on its way.
LEMMA SendParts ==
    ASSUME NEW d \in MonitoredDevice, NEW notes \in Seq(M!Notes)
    PROVE  \E wire \in Seq(Sent) : M!Send(d, notes) = [d EXCEPT !.wire = wire]
<1> DEFINE each == [n \in DOMAIN notes |-> [notes |-> <<notes[n]>>, age |-> 0]]
           one == [notes |-> notes, age |-> 0]
           wire == d.wire \o IF d.apart THEN each ELSE <<one>>
<1>1. d.wire \in Seq(Sent)
  BY DEF MonitoredDevice
<1>2. each \in Seq(Sent)
  <2>1. each = [n \in 1..Len(notes) |-> [notes |-> <<notes[n]>>, age |-> 0]] /\ Len(notes) \in Nat
    OBVIOUS
  <2>2. ASSUME NEW n \in 1..Len(notes) PROVE [notes |-> <<notes[n]>>, age |-> 0] \in Sent
    <3>1. notes[n] \in M!Notes
      OBVIOUS
    <3> HIDE DEF M!Notes
    <3>2. <<notes[n]>> \in Seq(M!Notes)
      BY <3>1
    <3> QED BY <3>2 DEF Sent
  <2> QED BY <2>1, <2>2
<1>3. one \in Sent
  BY DEF Sent
<1> HIDE DEF each, one
<1>4. <<one>> \in Seq(Sent)
  BY <1>3
<1>5. wire \in Seq(Sent)
  <2> DEFINE first == d.wire  second == IF d.apart THEN each ELSE <<one>>
  <2>1. first \in Seq(Sent) /\ second \in Seq(Sent)
    BY <1>1, <1>2, <1>4
  <2>2. wire = first \o second
    OBVIOUS
  <2> HIDE DEF first, second, wire
  <2> QED BY <2>1, <2>2
<1>6. M!Send(d, notes) = [d EXCEPT !.wire = wire]
  BY DEF M!Send, each, one
<1> HIDE DEF wire
<1> QED BY <1>5, <1>6

\* The status of one resource is reported.
Reported(r, d, m, status) ==
    /\ r \in MonitoredDevice /\ Alike(r, d) /\ r.timer = d.timer
    /\ r.status[m] = status /\ \A x \in Resources \ {m} : r.status[x] = d.status[x]

LEMMA ReportParts ==
    ASSUME NEW d \in MonitoredDevice, NEW m \in Resources, NEW status \in M!Statuses
    PROVE  Reported(M!Report(d, m, status), d, m, status)
<1> DEFINE all == M!Overall(d, status)
           st == [d.status EXCEPT ![m] = status]  ov == [d.overall EXCEPT ![m] = all]
           co == [d.counter EXCEPT ![m] = @ \/ status = M!Unhealthy]
           e == [d EXCEPT !.status[m] = status, !.overall[m] = all,
                          !.counter[m] = @ \/ status = M!Unhealthy]
           x == [p |-> "connection", v |-> status]  y == [p |-> "overall", v |-> all]
           z == [p |-> "counter", v |-> status]
           two == <<x, y>>  more == IF status = M!Unhealthy THEN <<z>> ELSE <<>>
<1>1. all \in M!Statuses
  BY DEF M!Overall, M!Statuses
<1>2. /\ st \in [Resources -> M!Statuses] /\ st[m] = status
      /\ \A k \in Resources \ {m} : st[k] = d.status[k]
  BY DEF MonitoredDevice
<1>3. ov \in [Resources -> M!Statuses]
  BY <1>1 DEF MonitoredDevice
<1>4. co \in [Resources -> BOOLEAN]
  <2>1. d.counter \in [Resources -> BOOLEAN] /\ (d.counter[m] \/ status = M!Unhealthy) \in BOOLEAN
    BY DEF MonitoredDevice
  <2> QED BY <2>1
<1>5. x \in M!Notes /\ y \in M!Notes /\ z \in M!Notes
  BY <1>1 DEF M!Notes
<1>6. e = [d EXCEPT !.status = st, !.overall = ov, !.counter = co]
  BY DEF MonitoredDevice
<1> HIDE DEF st, ov, co, e
<1>7. e \in MonitoredDevice /\ e.status = st /\ Alike(e, d) /\ e.timer = d.timer
  BY <1>2, <1>3, <1>4, <1>6 DEF MonitoredDevice, Alike
<1> HIDE DEF x, y, z
<1>8. two \o more \in Seq(M!Notes)
  <2>1. two \in Seq(M!Notes) /\ <<z>> \in Seq(M!Notes) /\ <<>> \in Seq(M!Notes)
    BY <1>5
  <2>2. more \in Seq(M!Notes)
    BY <2>1
  <2> HIDE DEF two, more
  <2> QED BY <2>1, <2>2
<1>9. PICK wire \in Seq(Sent) : M!Report(d, m, status) = [e EXCEPT !.wire = wire]
  <2>1. M!Report(d, m, status) = M!Send(e, two \o more)
    BY DEF M!Report, e, x, y, z
  <2> HIDE DEF two, more
  <2> QED BY <1>7, <1>8, <2>1, SendParts
<1> QED BY <1>2, <1>7, <1>9 DEF MonitoredDevice, Reported, Alike

\* A resource is activated or deactivated.
LEMMA ActivateParts ==
    ASSUME NEW d \in MonitoredDevice, NEW m \in Resources
    PROVE  LET r == M!Activate(d, m)
           IN  /\ r \in MonitoredDevice /\ Alike(r, d)
               /\ \A x \in Resources \ {m} : r.status[x] = d.status[x]
               /\ d.fault = "none" => r.status[m] = "healthy"
<1> DEFINE co == [d.counter EXCEPT ![m] = FALSE]
           cleared == IF <<m, "auto">> \in d.set /\ d.fault # "noauto" THEN [d EXCEPT !.counter = co] ELSE d
           rep == M!Report(cleared, m, "healthy")
           time == IF ~d.streamless THEN 0 ELSE IF d.fault = "early" THEN 1 ELSE Delay
<1>1. cleared \in MonitoredDevice /\ Alike(cleared, d) /\ cleared.status = d.status
  <2>1. co \in [Resources -> BOOLEAN]
    BY DEF MonitoredDevice
  <2> HIDE DEF co
  <2>2. /\ [d EXCEPT !.counter = co] \in MonitoredDevice /\ Alike([d EXCEPT !.counter = co], d)
        /\ [d EXCEPT !.counter = co].status = d.status
    BY <2>1 DEF MonitoredDevice, Alike
  <2>3. Alike(d, d)
    BY DEF Alike
  <2> QED BY <2>2, <2>3
<1>2. time \in Nat
  BY MonitorValues
<1>3. M!Activate(d, m) = IF d.fault = "silent" THEN d ELSE [rep EXCEPT !.timer = time]
  <2>1. [d EXCEPT !.counter[m] = FALSE] = [d EXCEPT !.counter = co]
    BY DEF MonitoredDevice
  <2> QED BY <2>1 DEF M!Activate
<1> HIDE DEF cleared, time
<1>4. /\ rep \in MonitoredDevice /\ Alike(rep, d) /\ rep.status[m] = "healthy"
      /\ \A x \in Resources \ {m} : rep.status[x] = d.status[x]
  <2>1. Reported(rep, cleared, m, "healthy")
    BY <1>1, MonitorValues, ReportParts
  <2> HIDE DEF rep
  <2> QED BY <1>1, <2>1 DEF Reported, Alike
<1> HIDE DEF rep
<1>5. /\ [rep EXCEPT !.timer = time] \in MonitoredDevice
      /\ Alike([rep EXCEPT !.timer = time], rep)
      /\ [rep EXCEPT !.timer = time].status = rep.status
  BY <1>2, <1>4 DEF MonitoredDevice, Alike
<1> HIDE DEF M!Activate
<1> QED BY <1>3, <1>4, <1>5 DEF Alike

LEMMA DeactivateParts ==
    ASSUME NEW d \in MonitoredDevice, NEW m \in Resources
    PROVE  LET r == M!Deactivate(d, m)
           IN  /\ r \in MonitoredDevice /\ Alike(r, d)
               /\ \A x \in Resources \ {m} : r.status[x] = d.status[x]
               /\ d.fault = "none" => /\ r.status[m] = "inactive"
                                      /\ (d.timer # 0 => d.status[m] # "inactive") => r.timer = 0
<1> DEFINE before == IF d.fault = "unclean" THEN M!Report(d, m, "unhealthy") ELSE d
           rep == M!Report(before, m, "inactive")
<1>1. before \in MonitoredDevice /\ Alike(before, d)
      /\ \A x \in Resources \ {m} : before.status[x] = d.status[x]
  <2>1. "unhealthy" \in M!Statuses
    BY DEF M!Statuses
  <2> DEFINE r == M!Report(d, m, "unhealthy")
  <2>2. Reported(r, d, m, "unhealthy")
    BY <2>1, ReportParts
  <2> HIDE DEF r
  <2>3. before = IF d.fault = "unclean" THEN r ELSE d
    BY DEF r
  <2> QED BY <2>2, <2>3 DEF Reported, Alike
<1> HIDE DEF before
<1>2. /\ rep \in MonitoredDevice /\ Alike(rep, d) /\ rep.status[m] = "inactive"
      /\ \A x \in Resources \ {m} : rep.status[x] = d.status[x]
  <2>1. /\ rep \in MonitoredDevice /\ Alike(rep, before) /\ rep.status[m] = "inactive"
        /\ \A x \in Resources \ {m} : rep.status[x] = before.status[x]
    <3>1. Reported(rep, before, m, "inactive")
      BY <1>1, MonitorValues, ReportParts
    <3> QED BY <3>1 DEF Reported
  <2> HIDE DEF rep
  <2> QED BY <1>1, <2>1 DEF Alike
<1>3. M!Deactivate(d, m) = IF d.fault = "stuck" \/ d.status[m] = "inactive" THEN d ELSE [rep EXCEPT !.timer = 0]
  BY DEF M!Deactivate, before
<1> HIDE DEF rep
<1>4. /\ [rep EXCEPT !.timer = 0] \in MonitoredDevice
      /\ Alike([rep EXCEPT !.timer = 0], rep) /\ [rep EXCEPT !.timer = 0].timer = 0
      /\ [rep EXCEPT !.timer = 0].status = rep.status
  BY <1>2 DEF MonitoredDevice, Alike
<1> HIDE DEF M!Deactivate
<1> QED BY <1>2, <1>3, <1>4 DEF Alike

\* A setting of a monitor changes nothing else.
LEMMA SetParts ==
    ASSUME NEW d \in MonitoredDevice, NEW settings, settings \subseteq M!Settings
    PROVE  LET r == M!Set(d, settings)
           IN  r \in MonitoredDevice /\ Alike(r, d) /\ r.status = d.status /\ r.timer = d.timer
<1>1. d.set \cup settings \in SUBSET M!Settings
  BY DEF MonitoredDevice
<1> QED BY <1>1 DEF M!Set, MonitoredDevice, Alike

LEMMA SettingsParts ==
    ASSUME NEW m \in Resources
    PROVE  {<<m, "delay">>} \subseteq M!Settings /\ {<<m, "auto">>} \subseteq M!Settings
BY DEF M!Settings, Resources

\* What is kept when one resource changes.
LEMMA StillActiveParts ==
    ASSUME NEW d, NEW r, r.left = d.left, NEW s,
           \A x \in Resources \ {s} : r.status[x] = d.status[x]
    PROVE  /\ StillActive(r) \subseteq StillActive(d) \cup {s}
           /\ r.status[s] = "inactive" => StillActive(r) \subseteq StillActive(d) \ {s}
BY DEF StillActive

\* The turn of a monitor goes on with another step, or ends; and a test that has none.
OthersStay == \A m \in Resources \ {Subject} : device'.status[m] = device.status[m]

LEMMA MonitorTurn ==
    ASSUME MonitorInv, at.step # "begin"
    PROVE  /\ at.todo \in Seq(Resources) /\ at.todo # <<>> /\ device \in MonitoredDevice
           /\ Subject \in Resources /\ Subject \in Elems(at.todo)
           /\ Tail(at.todo) \in Seq(Resources) /\ (Len(at.todo) # 1 => Tail(at.todo) # <<>>)
           /\ \A m \in Elems(at.todo) : m = Subject \/ m \in Elems(Tail(at.todo))
           /\ Len(at.todo) = 1 => Elems(Tail(at.todo)) = {}
<1>1. PICK s : s = at.todo
  OBVIOUS
<1>2. s \in Seq(Resources) /\ s # <<>> /\ device \in MonitoredDevice
  BY <1>1 DEF MonitorInv, MonitorTypes
<1>3. Head(s) \in Resources /\ Head(s) \in Elems(s) /\ Tail(s) \in Seq(Resources)
  BY <1>2, TailParts
<1> DEFINE t == Tail(s)
<1>4. /\ Len(s) \in Nat /\ Len(s) >= 1 /\ Len(t) = Len(s) - 1 /\ Head(s) = s[1]
      /\ \A i \in 1..(Len(s) - 1) : t[i] = s[i + 1]
  BY <1>2
<1> HIDE DEF t
<1>5. Len(s) # 1 => t # <<>>
  <2>1. Len(t) # 0 => t # <<>>
    OBVIOUS
  <2> QED BY <1>4, <2>1
<1>6. \A m \in Elems(s) : m = Head(s) \/ m \in Elems(t)
  <2> SUFFICES ASSUME NEW i \in 1..Len(s), i # 1 PROVE s[i] \in Elems(t)
    BY <1>4 DEF Elems
  <2>1. i - 1 \in 1..Len(t) /\ t[i - 1] = s[i]
    BY <1>4
  <2> QED BY <2>1 DEF Elems
<1>7. Len(s) = 1 => Elems(t) = {}
  BY <1>4 DEF Elems
<1> QED BY <1>1, <1>2, <1>3, <1>5, <1>6, <1>7 DEF t, Subject

LEMMA MonitorStepsOn ==
    ASSUME MonitorInv, at.step # "begin", NEW step, NEW tries, step # "begin", Step(step, tries),
           device' \in MonitoredDevice, MonitorNotes', device'.fault = device.fault,
           device'.left = device.left, device'.loses \in {device.loses, "lost"},
           device.fault = "none" =>
               /\ OthersStay
               /\ step \in {"watch", "brief", "auto", "again"} => device'.status[Subject] # "inactive"
               /\ step \in {"cut", "rest", "last"} => device'.status[Subject] = "inactive" /\ device'.timer = 0
    PROVE  MonitorInv'
<1>1. /\ IsRun' /\ at'.step = step /\ at'.todo = at.todo
  BY TestSteps DEF MonitorInv, MonitorTypes
<1>2. Subject' = Subject /\ Elems(at.todo)' = Elems(at.todo)
  BY <1>1 DEF Subject, Elems
<1>3. MonitorTypes'
  BY <1>1, MonitorTurn DEF MonitorTypes
<1>4. device.fault = "none" => Released'
  <2> SUFFICES ASSUME device.fault = "none" PROVE Released'
    OBVIOUS
  <2>1. \A m \in Resources \ Elems(at.todo) : device.status[m] = "inactive" /\ m # Subject
    BY MonitorTurn DEF MonitorInv, Released
  <2>2. StillActive(device') \subseteq StillActive(device) \cup {Subject}
    BY StillActiveParts DEF OthersStay
  <2>3. device'.loses # "lost" => StillActive(device') \subseteq {Subject}
    BY <2>2 DEF MonitorInv, Released
  <2>4. StillActive(device)' = StillActive(device')
    BY DEF StillActive
  <2> QED BY <1>1, <1>2, <2>1, <2>3, <2>4 DEF Released, OthersStay
<1> QED BY <1>3, <1>4 DEF MonitorInv

LEMMA JudgeIsVerdict == \A n : M!Judge(n) \in Verdict
<1> SUFFICES ASSUME NEW n PROVE M!Judge(n) \in Verdict
  OBVIOUS
<1>1. M!Judge(n) \in {"UNCLEAR", "FAIL", "MANUAL", "PASS"}
  BY DEF M!Judge
<1> QED BY <1>1, MonitorValues

LEMMA MonitorTurnEnds ==
    ASSUME MonitorInv, at.step # "begin", NEW n, M!Onward(n),
           device' \in MonitoredDevice, MonitorNotes', Alike(device', device),
           device.fault = "none" => OthersStay /\ device'.status[Subject] = "inactive"
    PROVE  MonitorInv'
<1>0. StillActive(device)' = StillActive(device')
  BY DEF StillActive
<1>1. ASSUME device.fault = "none"
      PROVE  \A m \in Resources \ Elems(Tail(at.todo)) : device'.status[m] = "inactive"
  <2> SUFFICES ASSUME NEW m \in Resources \ Elems(Tail(at.todo)), m # Subject
               PROVE  device'.status[m] = "inactive"
    BY <1>1
  <2>1. m \notin Elems(at.todo)
    BY MonitorTurn
  <2>2. device.status[m] = "inactive"
    BY <1>1, <2>1 DEF MonitorInv, Released
  <2> QED BY <1>1, <2>2 DEF OthersStay
<1>2. CASE Len(at.todo) = 1
  <2>1. PICK v \in Verdict : Conclude(v)
    BY <1>2, JudgeIsVerdict, MonitorRun DEF M!Onward
  <2>2. IsRun' /\ at'.step = "begin"
    BY <2>1, TestEnds DEF MonitorInv, MonitorTypes
  <2>3. device.fault = "none" => \A m \in Resources : device'.status[m] = "inactive"
    BY <1>1, <1>2, MonitorTurn
  <2>4. device.fault = "none" => StillActive(device') = {}
    BY <2>3 DEF StillActive
  <2> QED BY <1>0, <2>2, <2>3, <2>4 DEF MonitorInv, MonitorTypes, Released, Alike
<1>3. CASE Len(at.todo) # 1
  <2>1. PICK t : t = Tail(at.todo)
    OBVIOUS
  <2>2. at' = [at EXCEPT !.step = "visit", !.todo = t, !.tries = 0] /\ verdict' = verdict
    BY <1>3, <2>1 DEF M!Onward
  <2>3. IsRun' /\ at'.step = "visit" /\ at'.todo = t
    BY <2>2, TestGoesOn DEF MonitorInv, MonitorTypes
  <2>4. MonitorTypes'
    BY <1>3, <2>1, <2>3, MonitorTurn DEF MonitorTypes
  <2>5. Elems(at.todo)' = Elems(Tail(at.todo))
    BY <2>1, <2>3 DEF Elems
  <2>6. ASSUME device.fault = "none", device.loses # "lost" PROVE StillActive(device') = {}
    <3>1. StillActive(device) \subseteq {Subject} /\ StillActive(device') \subseteq StillActive(device) \ {Subject}
      BY <2>6, StillActiveParts DEF OthersStay, MonitorInv, Released, Alike
    <3> QED BY <3>1
  <2>7. device.fault = "none" => Released'
    BY <1>0, <1>1, <2>3, <2>5, <2>6 DEF Released, Alike
  <2> QED BY <2>4, <2>7 DEF MonitorInv, Alike
<1> QED BY <1>2, <1>3

LEMMA MonitorConcludes ==
    ASSUME MonitorInv, NEW v \in Verdict, Conclude(v), MonitorNotes',
           device' \in MonitoredDevice, Alike(device', device), device'.status = device.status,
           device.fault = "none" => at.step = "begin" /\ noted'.found = noted.found
    PROVE  MonitorInv'
<1>1. IsRun' /\ at'.step = "begin"
  BY TestEnds DEF MonitorInv, MonitorTypes
<1>2. MonitorTypes'
  BY <1>1 DEF MonitorInv, MonitorTypes
<1>3. device.fault = "none" => Released'
  <2>1. StillActive(device)' = StillActive(device)
    BY DEF StillActive, Alike
  <2> QED BY <1>1, <2>1 DEF MonitorInv, Released, Alike
<1> QED BY <1>2, <1>3 DEF MonitorInv, Alike

\* A lost request ends the test: only the resource in its turn may be left active.
LEMMA LostConcludes ==
    ASSUME MonitorInv, device.loses = "one", Conclude("FAIL"), MonitorNotes',
           NEW d \in MonitoredDevice, device' = [d EXCEPT !.loses = "lost"], Alike(d, device),
           at.step = "begin" => d.status = device.status,
           at.step # "begin" => \A x \in Resources \ {Subject} : d.status[x] = device.status[x]
    PROVE  MonitorInv'
<1>1. IsRun' /\ at'.step = "begin"
  BY TestEnds, MonitorValues DEF MonitorInv, MonitorTypes
<1>2. /\ device' \in MonitoredDevice /\ device'.fault = device.fault /\ device'.left = device.left
      /\ device'.loses = "lost" /\ device'.status = d.status
  BY DEF MonitoredDevice, Alike
<1>3. MonitorTypes'
  BY <1>1, <1>2 DEF MonitorTypes
<1>4. StillActive(device)' = StillActive(device')
  BY DEF StillActive
<1>5. ASSUME device.fault = "none" PROVE \A m, n \in StillActive(device') : m = n
  <2>1. Released
    BY <1>5 DEF MonitorInv
  <2>2. CASE at.step = "begin"
    <3>1. StillActive(device') = StillActive(device)
      BY <1>2, <2>2 DEF StillActive
    <3> QED BY <2>1, <2>2, <3>1 DEF Released
  <2>3. CASE at.step # "begin"
    <3>1. StillActive(device) \subseteq {Subject}
      BY <2>1, <2>3 DEF Released
    <3>2. \A x \in Resources \ {Subject} : device'.status[x] = device.status[x]
      BY <1>2, <2>3
    <3>3. StillActive(device') \subseteq StillActive(device) \cup {Subject}
      BY <1>2, <3>2 DEF StillActive
    <3> QED BY <3>1, <3>3
  <2> QED BY <2>2, <2>3
<1> QED BY <1>1, <1>2, <1>3, <1>4, <1>5 DEF MonitorInv, Released

\* What is noted, of the log as of the findings.
LEMMA NoteParts ==
    ASSUME NEW meta \in Meta, NEW topic \in M!Topics, NEW marks \in SUBSET Marks
    PROVE  M!Note(meta, topic, marks) \in Meta
<1>1. meta[topic] \cup marks \in SUBSET Marks
  BY DEF Meta
<1> QED BY <1>1 DEF M!Note, Meta

LEMMA MonitorBegins == M!Init => MonitorInv
<1> SUFFICES ASSUME M!Init PROVE MonitorInv
  OBVIOUS
<1>1. PICK plan : at = Position(plan)
  BY MonitorRun DEF M!Init
<1>2. IsRun /\ at.step = "begin"
  BY <1>1, MonitorRun, RunBegins DEF M!Init
<1>3. noted = [meta |-> M!Nothing, found |-> FALSE, now |-> 1, inbox |-> <<>>, log |-> <<>>,
               before |-> [connection |-> "inactive", overall |-> "inactive"]]
  BY DEF M!Init
<1>4. M!Nothing \in Meta
  BY DEF M!Nothing, Meta
<1>5. MonitorNotes /\ ~noted.found
  BY <1>3, <1>4 DEF MonitorNotes, AreNotes
<1>6. PICK fault \in M!Faults, streamless \in BOOLEAN, apart \in BOOLEAN,
           loses \in {"nothing", "one"}, left \in [Resources -> {"inactive", "unhealthy"}] :
        device = [fault |-> fault, streamless |-> streamless, apart |-> apart, status |-> left,
                  overall |-> left, counter |-> [m \in Resources |-> FALSE],
                  left |-> left, set |-> {}, loses |-> loses, timer |-> 0, wire |-> <<>>]
  <2>1. PICK fault \in M!Faults, streamless \in BOOLEAN, apart \in BOOLEAN, loses \in {"nothing", "one"},
           left \in [M!Range(Monitors) -> {"inactive", "unhealthy"}] :
         /\ fault # "none" => ~apart /\ \A m \in M!Range(Monitors) : left[m] = "inactive"
         /\ loses = "one" => fault = "none" /\ ~apart
         /\ device = [fault |-> fault, streamless |-> streamless, apart |-> apart, status |-> left,
                      overall |-> left, counter |-> [m \in M!Range(Monitors) |-> FALSE],
                      left |-> left, set |-> {}, loses |-> loses, timer |-> 0, wire |-> <<>>]
    BY Zenon DEF M!Init
  <2> QED BY <2>1 DEF Resources
<1>7. left \in [Resources -> M!Statuses] /\ <<>> \in Seq(Sent)
  BY DEF M!Statuses
<1>8. device \in MonitoredDevice
  BY <1>6, <1>7 DEF MonitoredDevice
<1>9. StillActive(device) = {}
  BY <1>6 DEF StillActive
<1> QED BY <1>2, <1>5, <1>8, <1>9 DEF MonitorInv, MonitorTypes, Released

\* Notifications come in, and time goes by: at the end of the delay a stream breaks, if it
\* is being watched.
LEMMA DeliverStep ==
    ASSUME MonitorInv, M!Deliver
    PROVE  MonitorInv'
<1> DEFINE wire == Tail(device.wire)
           came == noted.inbox \o [n \in DOMAIN Head(device.wire).notes |->
                       [p |-> Head(device.wire).notes[n].p, v |-> Head(device.wire).notes[n].v,
                        t |-> noted.now]]
<1>1. /\ device.wire # <<>> /\ device' = [device EXCEPT !.wire = wire]
      /\ noted' = [noted EXCEPT !.inbox = came] /\ at' = at /\ verdict' = verdict
  BY DEF M!Deliver
<1>2. device \in MonitoredDevice /\ MonitorNotes
  BY DEF MonitorInv, MonitorTypes
<1>3. wire \in Seq(Sent)
  <2>1. PICK w : w = device.wire
    OBVIOUS
  <2>2. w \in Seq(Sent) /\ w # <<>>
    BY <1>1, <1>2, <2>1 DEF MonitoredDevice
  <2>3. Tail(w) \in Seq(Sent)
    BY <2>2
  <2> QED BY <2>1, <2>3
<1> HIDE DEF wire, came
<1>4. /\ device' \in MonitoredDevice /\ device'.fault = device.fault /\ device'.status = device.status
      /\ device'.timer = device.timer /\ device'.left = device.left /\ device'.loses = device.loses
  BY <1>1, <1>2, <1>3 DEF MonitoredDevice
<1>5. MonitorNotes' /\ noted'.found = noted.found
  BY <1>1, <1>2 DEF MonitorNotes, AreNotes
<1>6. Subject' = Subject /\ Elems(at.todo)' = Elems(at.todo) /\ IsRun'
  BY <1>1 DEF Subject, Elems, MonitorInv, MonitorTypes, IsRun
<1>7. StillActive(device)' = StillActive(device)
  BY <1>4 DEF StillActive
<1> QED BY <1>1, <1>4, <1>5, <1>6, <1>7 DEF MonitorInv, MonitorTypes, Released

LEMMA TickStep ==
    ASSUME MonitorInv, M!Tick
    PROVE  MonitorInv'
<1> DEFINE wire == M!Older(device.wire)
           timer == IF device.timer = 0 THEN 0 ELSE device.timer - 1
           d == [device EXCEPT !.wire = wire, !.timer = timer]
<1>1. /\ device' = IF device.timer = 1 THEN M!Report(d, Subject, M!Unhealthy) ELSE d
      /\ noted' = [noted EXCEPT !.now = @ + 1] /\ Step(at.step, at.tries + 1)
  <2>1. device' = IF device.timer = 1 THEN M!Report(d, M!Subject, M!Unhealthy) ELSE d
    BY DEF M!Tick
  <2>2. noted' = [noted EXCEPT !.now = @ + 1] /\ M!Step(at.step, at.tries + 1)
    BY DEF M!Tick
  <2> HIDE DEF d
  <2> QED BY <2>1, <2>2, MonitorRun
<1>2. at.step # "begin"
  BY DEF M!Tick, M!Asleep, M!Sleeps
<1>3. device \in MonitoredDevice /\ MonitorNotes
  BY DEF MonitorInv, MonitorTypes
<1>4. wire \in Seq(Sent)
  <2>1. device.wire \in Seq(Sent)
    BY <1>3 DEF MonitoredDevice
  <2> DEFINE w == device.wire  Aged(n) == [w[n] EXCEPT !.age = @ + 1]
  <2>2. wire = [n \in 1..Len(w) |-> Aged(n)] /\ Len(w) \in Nat
    BY <2>1 DEF M!Older
  <2>3. ASSUME NEW n \in 1..Len(w) PROVE Aged(n) \in Sent
    <3>1. w[n] \in Sent
      BY <2>1
    <3> QED BY <3>1 DEF Sent
  <2> HIDE DEF w, Aged, wire
  <2> QED BY <2>2, <2>3
<1>5. /\ timer \in Nat /\ (device.timer = 1 => timer = 0)
      /\ (timer # 0 => device.timer # 0)
  BY <1>3 DEF MonitoredDevice
<1> HIDE DEF wire, timer
<1>6. d \in MonitoredDevice /\ Alike(d, device) /\ d.status = device.status /\ d.timer = timer
  BY <1>3, <1>4, <1>5 DEF MonitoredDevice, Alike
<1> HIDE DEF d
<1>7. Subject \in Resources
  BY <1>2, MonitorTurn
<1> DEFINE r == M!Report(d, Subject, M!Unhealthy)
<1>8. /\ r \in MonitoredDevice /\ Alike(r, d) /\ r.timer = d.timer
      /\ r.status[Subject] = M!Unhealthy /\ \A x \in Resources \ {Subject} : r.status[x] = d.status[x]
  <2>1. Reported(r, d, Subject, M!Unhealthy)
    BY <1>6, <1>7, MonitorValues, ReportParts
  <2> HIDE DEF r
  <2> QED BY <2>1 DEF Reported
<1> HIDE DEF r
<1>9. device' \in MonitoredDevice /\ Alike(device', device) /\ device'.timer = timer
  BY <1>1, <1>6, <1>8 DEF r, Alike
<1>10. MonitorNotes'
  BY <1>1, <1>3 DEF MonitorNotes, AreNotes
<1>11. ASSUME device.fault = "none"
       PROVE  /\ OthersStay
              /\ at.step \in {"watch", "brief", "auto", "again"} => device'.status[Subject] # "inactive"
              /\ at.step \in {"cut", "rest", "last"} => device'.status[Subject] = "inactive" /\ device'.timer = 0
  <2>1. Released
    BY <1>11 DEF MonitorInv
  <2>2. CASE device.timer = 1
    <3>1. at.step \notin {"cut", "rest", "last"} /\ device' = r
      BY <1>1, <2>1, <2>2 DEF Released, r
    <3>2. M!Unhealthy # "inactive"
      BY DEF M!Unhealthy
    <3> QED BY <1>6, <1>8, <3>1, <3>2 DEF OthersStay
  <2>3. CASE device.timer # 1
    <3>1. device'.status = device.status
      BY <1>1, <1>6, <2>3
    <3>2. device.timer = 0 => device'.timer = 0
      BY <1>5, <1>9
    <3> QED BY <2>1, <3>1, <3>2 DEF Released, OthersStay
  <2> QED BY <2>2, <2>3
<1> QED BY <1>1, <1>2, <1>9, <1>10, <1>11, MonitorStepsOn DEF Alike

LEMMA MonitorsAsked ==
    ASSUME MonitorInv, M!SetUp \/ M!AskAll
    PROVE  MonitorInv'
<1>1. at.step = "begin" /\ device' = device /\ noted' = noted
  BY MonitorRun DEF M!SetUp, M!AskAll, On
<1>2. MonitorNotes' /\ device \in MonitoredDevice /\ Alike(device, device)
  BY <1>1 DEF MonitorInv, MonitorTypes, MonitorNotes, AreNotes, Alike
<1>3. CASE M!Abort
  <2>1. at' = Position(<<>>) /\ verdict' = verdict
    BY <1>3, MonitorRun DEF M!Abort
  <2>2. IsRun' /\ at'.step = "begin"
    BY <2>1 DEF IsRun, Position, MonitorInv, MonitorTypes
  <2>3. StillActive(device)' = StillActive(device)
    BY <1>1 DEF StillActive
  <2> QED BY <1>1, <1>2, <2>2, <2>3 DEF MonitorInv, MonitorTypes, Released
<1>4. CASE \E v \in {"PASS", "FAIL", "UNCLEAR", "MANUAL"} : Conclude(v)
  BY <1>1, <1>2, <1>4, MonitorValues, MonitorConcludes
<1>5. M!Abort \/ \E v \in {"PASS", "FAIL", "UNCLEAR", "MANUAL"} : Conclude(v)
  BY MonitorRun DEF M!SetUp, M!AskAll
<1> QED BY <1>3, <1>4, <1>5

LEMMA DelaysStep ==
    ASSUME MonitorInv, M!SetDelays
    PROVE  MonitorInv'
<1> DEFINE d == M!Set(device, M!Range(Monitors) \X {"delay"})
<1>1. at.step = "begin" /\ noted' = noted /\ (device' = device \/ device' = d)
  BY MonitorRun DEF M!SetDelays, On
<1>2. PICK v \in {"PASS", "FAIL"} : Conclude(v)
  BY MonitorRun DEF M!SetDelays
<1>3. M!Range(Monitors) \X {"delay"} \subseteq M!Settings
  BY DEF M!Settings
<1>4. device \in MonitoredDevice
  BY DEF MonitorInv, MonitorTypes
<1>5. d \in MonitoredDevice /\ Alike(d, device) /\ d.status = device.status
  BY <1>3, <1>4, SetParts
<1> HIDE DEF d
<1>6. device' \in MonitoredDevice /\ Alike(device', device) /\ device'.status = device.status
  BY <1>1, <1>4, <1>5 DEF Alike
<1>7. MonitorNotes'
  BY <1>1 DEF MonitorInv, MonitorTypes, MonitorNotes, AreNotes
<1> QED BY <1>1, <1>2, <1>6, <1>7, MonitorValues, MonitorConcludes

\* A test that only looks up what was found, or the first to go through the monitors.
LEMMA BeginChecks ==
    ASSUME MonitorInv, M!Begin
    PROVE  MonitorInv'
<1>1. at.step = "begin" /\ device' = device
  BY MonitorRun DEF M!Begin, On
<1>2. MonitorNotes /\ device \in MonitoredDevice /\ Alike(device, device) /\ StillActive(device)' = StillActive(device)
  BY <1>1 DEF MonitorInv, MonitorTypes, Alike, StillActive
<1>3. CASE noted' = noted /\ M!Conclude(M!Judge(noted))
  BY <1>1, <1>2, <1>3, JudgeIsVerdict, MonitorRun, MonitorConcludes DEF MonitorNotes, AreNotes
<1>4. ASSUME NEW mark \in {"error", "checked"}
      PROVE  M!Note(noted.meta, "touchpoint", {mark}) \in Meta
  BY <1>2, NoteParts DEF MonitorNotes, AreNotes, Marks, M!Topics
<1>5. CASE device.fault = "touchpoint" /\ M!Conclude(M!Judge(noted'))
           /\ noted' = [noted EXCEPT !.meta = M!Note(@, "touchpoint", {"error"})]
  <2>1. PICK meta \in Meta : noted' = [noted EXCEPT !.meta = meta]
    BY <1>4, <1>5
  <2>2. MonitorNotes'
    BY <1>2, <2>1 DEF MonitorNotes, AreNotes
  <2>3. Conclude(M!Judge(noted'))
    BY <1>5, MonitorRun
  <2>4. PICK v : v = M!Judge(noted')
    OBVIOUS
  <2> QED BY <1>1, <1>2, <1>5, <2>2, <2>3, <2>4, JudgeIsVerdict, MonitorConcludes
<1>6. CASE M!Visit(Monitors)
           /\ noted' = [noted EXCEPT !.meta = M!Note(@, "touchpoint", {"checked"}), !.found = TRUE]
  <2>1. PICK meta \in Meta : noted' = [noted EXCEPT !.meta = meta, !.found = TRUE]
    BY <1>4, <1>6
  <2>2. MonitorNotes'
    BY <1>2, <2>1 DEF MonitorNotes, AreNotes
  <2>3. CASE Monitors = <<>>
    <3>1. Conclude("UNCLEAR")
      BY <1>6, <2>3, MonitorRun DEF M!Visit
    <3>2. IsRun' /\ at'.step = "begin"
      BY <3>1, MonitorValues, TestEnds DEF MonitorInv, MonitorTypes
    <3>3. Resources = {}
      <4>1. Len(Monitors) = 0
        BY <2>3
      <4> QED BY <4>1, MonitorValues DEF Elems
    <3> QED BY <1>1, <1>2, <2>2, <3>2, <3>3 DEF MonitorInv, MonitorTypes, Released
  <2>4. CASE Monitors # <<>>
    <3>1. at' = [at EXCEPT !.step = "visit", !.todo = Monitors, !.tries = 0] /\ verdict' = verdict
      BY <1>6, <2>4 DEF M!Visit
    <3>2. IsRun' /\ at'.step = "visit" /\ at'.todo = Monitors
      BY <3>1, TestGoesOn DEF MonitorInv, MonitorTypes
    <3>3. MonitorTypes'
      BY <1>1, <1>2, <2>2, <2>4, <3>2, MonitorValues DEF MonitorTypes
    <3>4. Elems(at.todo)' = Resources
      BY <3>2, MonitorValues DEF Elems
    <3> QED BY <1>1, <1>2, <3>2, <3>3, <3>4 DEF MonitorInv, Released
  <2> QED BY <2>3, <2>4
<1> QED BY <1>3, <1>5, <1>6 DEF M!Begin

\* The steps of a turn: each activates the resource, or deactivates it, or neither.
LEMMA Activates ==
    ASSUME MonitorInv, at.step # "begin", NEW d \in MonitoredDevice, Alike(d, device),
           d.status = device.status, device' = M!Activate(d, Subject),
           NEW step \in {"watch", "brief", "auto", "again"}, Step(step, 0), MonitorNotes'
    PROVE  MonitorInv'
<1>1. Subject \in Resources
  BY MonitorTurn
<1>2. /\ device' \in MonitoredDevice /\ Alike(device', device)
      /\ \A x \in Resources \ {Subject} : device'.status[x] = device.status[x]
      /\ device.fault = "none" => device'.status[Subject] = "healthy"
  BY <1>1, ActivateParts DEF Alike
<1> QED BY <1>2, MonitorStepsOn DEF OthersStay, Alike

LEMMA Deactivates ==
    ASSUME MonitorInv, at.step # "begin", NEW d \in MonitoredDevice, Alike(d, device),
           d.status = device.status, d.timer = device.timer, device' = M!Deactivate(d, Subject),
           NEW step \in {"activate", "quiet", "settle", "cut", "rest", "last"}, Step(step, 0), MonitorNotes',
           step \in {"cut", "rest", "last"} => at.step \in {"brief", "auto", "again"}
    PROVE  MonitorInv'
<1>1. Subject \in Resources
  BY MonitorTurn
<1>2. /\ device' \in MonitoredDevice /\ Alike(device', device)
      /\ \A x \in Resources \ {Subject} : device'.status[x] = device.status[x]
      /\ device.fault = "none" => /\ device'.status[Subject] = "inactive"
                                  /\ (device.timer # 0 => device.status[Subject] # "inactive") => device'.timer = 0
  BY <1>1, DeactivateParts DEF Alike
<1>3. device.fault = "none" /\ step \in {"cut", "rest", "last"} => device'.timer = 0
  BY <1>2 DEF MonitorInv, Released
<1> QED BY <1>2, <1>3, MonitorStepsOn DEF OthersStay, Alike

\* What a test notes of what it has seen.
LEMMA DrainedParts ==
    ASSUME MonitorInv
    PROVE  /\ \E seen : M!Drained(noted) = [noted EXCEPT !.log = seen, !.inbox = <<>>]
           /\ M!Drained(noted).meta = noted.meta /\ M!Drained(noted).found = noted.found
           /\ noted.meta \in Meta /\ AreNotes(noted) /\ AreNotes(M!Drained(noted))
<1> DEFINE seen == noted.log \o noted.inbox
<1>1. M!Drained(noted) = [noted EXCEPT !.log = seen, !.inbox = <<>>]
  BY DEF M!Drained
<1>2. AreNotes(noted)
  BY DEF MonitorInv, MonitorTypes, MonitorNotes
<1> HIDE DEF seen
<1> QED BY <1>1, <1>2 DEF AreNotes

LEMMA PrepareStep ==
    ASSUME MonitorInv, M!Prepare
    PROVE  MonitorInv'
<1> DEFINE d == M!Set(device, {<<Subject, "delay">>})
<1>1. at.step = "visit" /\ noted' = M!Drained(noted)
  BY MonitorRun DEF M!Prepare, On
<1>2. MonitorNotes'
  BY <1>1, DrainedParts DEF MonitorNotes
<1>3. CASE device.fault = "delay"
  <2>1. Conclude("FAIL") /\ device' = device
    BY <1>3, MonitorRun DEF M!Prepare
  <2>2. device \in MonitoredDevice /\ Alike(device, device)
    BY DEF MonitorInv, MonitorTypes, Alike
  <2> QED BY <1>2, <1>3, <2>1, <2>2, MonitorValues, MonitorConcludes
<1>4. CASE device.fault # "delay"
  <2>1. device' = M!Deactivate(d, Subject)
    BY <1>4, MonitorRun DEF M!Prepare
  <2>2. PICK step \in {"activate", "quiet"} : Step(step, 0)
    BY <1>4, MonitorRun DEF M!Prepare
  <2>3. d \in MonitoredDevice /\ Alike(d, device) /\ d.status = device.status /\ d.timer = device.timer
    BY <1>1, MonitorTurn, SettingsParts, SetParts
  <2> HIDE DEF d
  <2> QED BY <1>1, <1>2, <2>1, <2>2, <2>3, Deactivates
<1> QED BY <1>3, <1>4

LEMMA ActivateStep ==
    ASSUME MonitorInv, M!ActivateResource
    PROVE  MonitorInv'
<1>1. at.step # "begin" /\ device' = M!Activate(device, Subject) /\ Step("watch", 0)
  BY MonitorRun DEF M!ActivateResource, On, M!Awake
<1>2. PICK seen, before : noted' = [noted EXCEPT !.log = seen, !.inbox = <<>>, !.now = 1, !.before = before]
  BY DEF M!ActivateResource
<1>3. MonitorNotes'
  BY <1>2, DrainedParts DEF MonitorNotes, AreNotes
<1>4. Alike(device, device)
  BY DEF Alike
<1> QED BY <1>1, <1>3, <1>4, Activates DEF MonitorInv, MonitorTypes

LEMMA StreamMarksParts ==
    ASSUME NEW meta \in Meta, NEW seen
    PROVE  M!StreamMarks(meta, seen) \in Meta
<1> DEFINE changes == M!Select(M!Of(seen, "connection"),
                               {n \in M!Range(seen) : n.t >= M!ActivationTime(seen)})
           early == Len(changes) > 1 /\ changes[2].v # "inactive"
                    /\ changes[2].t + 1 < M!ActivationTime(seen) + Delay
           first == {"checked"} \cup IF changes[1].v # "healthy" \/ early THEN {"error"} ELSE {}
           then == IF Len(changes) > 1 THEN {"checked"} ELSE {}
<1>1. M!StreamMarks(meta, seen) = IF changes = <<>> THEN M!Note(meta, "activation", {"error"})
                                 ELSE M!Note(M!Note(meta, "activation", first), "unhealthy", then)
  BY DEF M!StreamMarks
<1>2. first \in SUBSET Marks /\ then \in SUBSET Marks /\ {"error"} \in SUBSET Marks
  BY DEF Marks
<1>3. "activation" \in M!Topics /\ "unhealthy" \in M!Topics
  BY DEF M!Topics
<1> HIDE DEF changes, first, then
<1>4. M!Note(meta, "activation", first) \in Meta /\ M!Note(meta, "activation", {"error"}) \in Meta
  BY <1>2, <1>3, NoteParts
<1>5. M!Note(M!Note(meta, "activation", first), "unhealthy", then) \in Meta
  BY <1>2, <1>3, <1>4, NoteParts
<1> QED BY <1>1, <1>4, <1>5

LEMMA FindingsParts ==
    ASSUME MonitorInv
    PROVE  AreNotes(M!Findings)
<1> DEFINE n == M!Drained(noted)
           m1 == IF M!Active(n.log) = <<>> THEN M!Note(n.meta, "activation", {"error"}) ELSE n.meta
           a2 == {"checked"} \cup IF \E s \in M!Stretches(n.log) : ~M!Mapped(s) THEN {"error"} ELSE {}
           m2 == M!Note(m1, "overall", a2)
           a3 == (IF \E s \in M!Stretches(n.log) : ~M!Legal(s) THEN {"error"} ELSE {})
                    \cup (IF \E s \in M!Stretches(n.log) : M!Legal(s) THEN {"checked"} ELSE {})
           m3 == M!Note(m2, "values", a3)
           m4 == M!StreamMarks(m3, n.log)
           a5 == IF M!Of(n.log, "counter") # <<>> THEN {"checked"} ELSE {}
           m5 == M!Note(m4, "counted", a5)
<1>2. M!Findings = [n EXCEPT !.meta = m5]
  BY DEF M!Findings
<1>3. /\ a2 \in SUBSET Marks /\ a3 \in SUBSET Marks /\ a5 \in SUBSET Marks /\ {"error"} \in SUBSET Marks
      /\ {"activation", "overall", "values", "counted"} \subseteq M!Topics
  BY DEF Marks, M!Topics
<1>4. n.meta \in Meta
  BY DrainedParts
<1> HIDE DEF n, a2, a3, a5
<1>5. m1 \in Meta
  BY <1>3, <1>4, NoteParts
<1> HIDE DEF m1
<1>6. m2 \in Meta
  BY <1>3, <1>5, NoteParts
<1> HIDE DEF m2
<1>7. m3 \in Meta
  BY <1>3, <1>6, NoteParts
<1> HIDE DEF m3
<1>8. m4 \in Meta
  BY <1>7, StreamMarksParts
<1> HIDE DEF m4
<1>9. m5 \in Meta
  BY <1>3, <1>8, NoteParts
<1> HIDE DEF m5
<1>10. AreNotes(n)
  BY DrainedParts DEF n
<1> QED BY <1>2, <1>9, <1>10 DEF AreNotes

LEMMA WatchedStep ==
    ASSUME MonitorInv, M!Watched
    PROVE  MonitorInv'
<1>1. at.step # "begin" /\ device' = M!Deactivate(device, Subject) /\ Step("settle", 0) /\ noted' = M!Findings
  BY MonitorRun DEF M!Watched, M!Awake
<1>2. MonitorNotes'
  BY <1>1, FindingsParts DEF MonitorNotes
<1>3. Alike(device, device) /\ device \in MonitoredDevice
  BY DEF Alike, MonitorInv, MonitorTypes
<1> QED BY <1>1, <1>2, <1>3, Deactivates

\* The counters are reset.
LEMMA ResetNotes ==
    ASSUME MonitorInv, at.step # "begin"
    PROVE  AreNotes(M!Reset(noted))
<1> DEFINE marks == M!ResetMarks
<1>1. marks \in SUBSET Marks
  <2>1. device.counter[Subject] \in BOOLEAN
    BY MonitorTurn DEF MonitoredDevice
  <2> QED BY <2>1, MonitorRun DEF Marks, M!ResetMarks
<1>2. M!Reset(noted) = [noted EXCEPT !.meta = M!Note(@, "reset", marks), !.log = <<>>, !.inbox = <<>>, !.now = 1]
  BY DEF M!Reset
<1> HIDE DEF marks
<1>3. AreNotes(noted)
  BY DrainedParts
<1>4. M!Note(noted.meta, "reset", marks) \in Meta
  BY <1>1, <1>3, NoteParts DEF M!Topics, AreNotes
<1> QED BY <1>2, <1>3, <1>4 DEF AreNotes

LEMMA ClearedParts ==
    ASSUME MonitorInv, at.step # "begin"
    PROVE  /\ M!Cleared \in MonitoredDevice /\ Alike(M!Cleared, device)
           /\ M!Cleared.status = device.status /\ M!Cleared.timer = device.timer
<1> DEFINE count == device.counter[Subject] /\ device.fault \in {"refuses", "noreset"}
           co == [device.counter EXCEPT ![Subject] = count]
           d == [device EXCEPT !.counter = co]
<1>1. Subject \in Resources /\ device \in MonitoredDevice
  BY MonitorTurn
<1>2. M!Cleared = d
  <2>1. [device EXCEPT !.counter[Subject] = @ /\ device.fault \in {"refuses", "noreset"}] = d
    BY <1>1 DEF MonitoredDevice
  <2> QED BY <2>1, MonitorRun DEF M!Cleared
<1>3. count \in BOOLEAN
  BY <1>1 DEF MonitoredDevice
<1> HIDE DEF count
<1>4. co \in [Resources -> BOOLEAN]
  BY <1>1, <1>3 DEF MonitoredDevice
<1> HIDE DEF co
<1>5. d \in MonitoredDevice /\ Alike(d, device) /\ d.status = device.status /\ d.timer = device.timer
  BY <1>1, <1>4 DEF MonitoredDevice, Alike
<1> QED BY <1>2, <1>5

LEMMA ResetStep ==
    ASSUME MonitorInv, M!ResetCounters
    PROVE  MonitorInv'
<1>1. at.step # "begin" /\ Step("brief", 0) /\ noted' = M!Reset(noted) /\ device' = M!Activate(M!Cleared, Subject)
  BY MonitorRun DEF M!ResetCounters, M!Awake
<1>2. MonitorNotes'
  BY <1>1, ResetNotes DEF MonitorNotes
<1> QED BY <1>1, <1>2, ClearedParts, Activates

LEMMA EarlyStep ==
    ASSUME MonitorInv, M!DeactivateEarly
    PROVE  MonitorInv'
<1>1. at.step = "brief" /\ device' = M!Deactivate(device, Subject) /\ Step("cut", 0) /\ noted' = noted
  BY MonitorRun DEF M!DeactivateEarly, M!Awake
<1>2. MonitorNotes'
  BY <1>1, DrainedParts DEF MonitorNotes
<1>3. Alike(device, device) /\ device \in MonitoredDevice
  BY DEF Alike, MonitorInv, MonitorTypes
<1> QED BY <1>1, <1>2, <1>3, Deactivates

LEMMA ConductParts ==
    ASSUME MonitorInv
    PROVE  AreNotes(M!Conduct)
<1> DEFINE n == M!Drained(noted)
           since == M!Select(n.log, {x \in M!Range(n.log) : x.t >= M!ActivationTime(n.log)})
           clean == \A p \in {"connection", "overall"} :
                       M!Of(since, p) # <<>> /\ M!Of(since, p)[Len(M!Of(since, p))].v = "inactive"
           m1 == IF M!Active(n.log) = <<>> THEN M!Note(n.meta, "activation", {"error"}) ELSE n.meta
           a2 == {"checked"} \cup IF clean THEN {} ELSE {"error"}
           m2 == M!Note(m1, "deactivation", a2)
<1>2. M!Conduct = [n EXCEPT !.log = <<>>, !.meta = m2]
  BY DEF M!Conduct
<1>3. /\ a2 \in SUBSET Marks /\ {"error"} \in SUBSET Marks
      /\ {"activation", "deactivation"} \subseteq M!Topics
  BY DEF Marks, M!Topics
<1>4. n.meta \in Meta /\ AreNotes(n)
  BY DrainedParts
<1> HIDE DEF n, a2
<1>5. m1 \in Meta
  BY <1>3, <1>4, NoteParts
<1> HIDE DEF m1
<1>6. m2 \in Meta
  BY <1>3, <1>5, NoteParts
<1> HIDE DEF m2
<1> QED BY <1>2, <1>4, <1>6 DEF AreNotes

LEMMA DeactivatedStep ==
    ASSUME MonitorInv, M!Deactivated
    PROVE  MonitorInv'
<1> DEFINE d == M!Set(device, {<<Subject, "auto">>})
<1>1. at.step # "begin" /\ device' = M!Activate(d, Subject) /\ Step("auto", 0) /\ noted' = M!Conduct
  BY MonitorRun DEF M!Deactivated, M!Awake
<1>2. MonitorNotes'
  BY <1>1, ConductParts DEF MonitorNotes
<1>3. d \in MonitoredDevice /\ Alike(d, device) /\ d.status = device.status
  BY <1>1, MonitorTurn, SettingsParts, SetParts
<1> HIDE DEF d
<1> QED BY <1>1, <1>2, <1>3, Activates

LEMMA EmptiedParts ==
    ASSUME MonitorInv
    PROVE  AreNotes(M!Forgotten(noted)) /\ AreNotes(M!Emptied(noted))
<1>1. PICK n : n = noted
  OBVIOUS
<1>2. AreNotes(n)
  BY <1>1, DrainedParts
<1>3. PICK e : e = [n EXCEPT !.log = <<>>, !.inbox = <<>>, !.now = 1]
  OBVIOUS
<1>4. AreNotes(e)
  BY <1>2, <1>3 DEF AreNotes
<1> QED BY <1>1, <1>3, <1>4 DEF M!Forgotten, M!Emptied

\* One more mark of the check of automatic resets.
LEMMA AutoMarks ==
    ASSUME NEW n, AreNotes(n), NEW marks \in SUBSET Marks
    PROVE  AreNotes([n EXCEPT !.meta = M!Note(@, "auto", marks)])
<1>1. PICK meta \in Meta : meta = M!Note(n.meta, "auto", marks)
  BY NoteParts DEF AreNotes, M!Topics
<1>2. [n EXCEPT !.meta = M!Note(@, "auto", marks)] = [n EXCEPT !.meta = meta]
  BY <1>1 DEF AreNotes
<1>3. AreNotes([n EXCEPT !.meta = meta])
  BY DEF AreNotes
<1> QED BY <1>2, <1>3

LEMMA AutoCheckedParts ==
    ASSUME MonitorInv
    PROVE  AreNotes(M!AutoChecked)
<1> DEFINE marks == {"checked"} \cup IF device.counter[Subject] THEN {"manual"} ELSE {}
           n == M!Forgotten(noted)
<1>1. M!AutoChecked = [n EXCEPT !.meta = M!Note(@, "auto", marks)]
  BY MonitorRun DEF M!AutoChecked
<1>2. marks \in SUBSET Marks
  BY DEF Marks
<1>3. AreNotes(n)
  BY EmptiedParts
<1> HIDE DEF marks, n
<1> QED BY <1>1, <1>2, <1>3, AutoMarks

LEMMA AutoSteps ==
    ASSUME MonitorInv, M!AutoReset \/ M!AutoResetChecked
    PROVE  MonitorInv'
<1>2. device \in MonitoredDevice /\ AreNotes(noted) /\ Alike(device, device)
  BY DrainedParts DEF MonitorInv, MonitorTypes, Alike
<1>3. noted' = M!Forgotten(noted) => MonitorNotes'
  BY EmptiedParts DEF MonitorNotes
<1>4. CASE at.step = "auto" /\ device' = M!Deactivate(device, Subject) /\ Step("rest", 0) /\ noted' = noted
  <2>1. MonitorNotes'
    BY <1>2, <1>4 DEF MonitorNotes
  <2> QED BY <1>2, <1>4, <2>1, Deactivates
<1>5. CASE at.step = "rest" /\ noted' = M!Forgotten(noted) /\ device' = M!Activate(device, Subject)
           /\ Step("again", 0)
  BY <1>2, <1>3, <1>5, Activates
<1>6. CASE at.step \in {"rest", "last"} /\ noted' = M!Forgotten(noted) /\ device' = device
           /\ (M!Onward(noted) \/ M!Onward(noted'))
  <2>1. device.fault = "none" => OthersStay /\ device'.status[Subject] = "inactive"
    BY <1>6 DEF MonitorInv, Released, OthersStay
  <2>2. PICK n : n = noted'
    OBVIOUS
  <2>3. M!Onward(noted) \/ M!Onward(n)
    BY <1>6, <2>2
  <2> QED BY <1>2, <1>3, <1>6, <2>1, <2>3, MonitorTurnEnds
<1>7. ASSUME M!AutoResetChecked PROVE MonitorInv'
  <2>1. at.step = "again" /\ device' = M!Deactivate(device, Subject) /\ Step("last", 0) /\ noted' = M!AutoChecked
    BY <1>7, MonitorRun DEF M!AutoResetChecked, M!Awake
  <2>2. MonitorNotes'
    BY <2>1, AutoCheckedParts DEF MonitorNotes
  <2> QED BY <1>2, <2>1, <2>2, Deactivates
<1>8. ASSUME M!AutoReset PROVE MonitorInv'
  BY <1>4, <1>5, <1>6, <1>8, MonitorRun DEF M!AutoReset, M!Awake
<1> QED BY <1>7, <1>8

\* A request is lost: between two tests, or in the turn of a monitor.
LostAs(d, n) == device' = [d EXCEPT !.loses = "lost"] /\ noted' = n /\ Conclude("FAIL")

LEMMA FailsRun == \A d, n : M!Fails(d, n) <=> LostAs(d, n)
BY MonitorRun DEF M!Fails, LostAs

LEMMA LostBetween ==
    ASSUME MonitorInv, device.loses = "one", at.step = "begin", NEW d \in MonitoredDevice, Alike(d, device),
           d.status = device.status, NEW n, AreNotes(n), LostAs(d, n)
    PROVE  MonitorInv'
BY LostConcludes DEF LostAs, MonitorNotes

LEMMA LostInTurn ==
    ASSUME MonitorInv, device.loses = "one", at.step # "begin", NEW d \in MonitoredDevice, Alike(d, device),
           NEW n, AreNotes(n),
           LostAs(d, n) \/ LostAs(M!Activate(d, Subject), n) \/ LostAs(M!Deactivate(d, Subject), n),
           d.status = device.status
    PROVE  MonitorInv'
<1>1. Subject \in Resources
  BY MonitorTurn
<1>2. ASSUME NEW e \in MonitoredDevice, Alike(e, device), LostAs(e, n),
             \A x \in Resources \ {Subject} : e.status[x] = device.status[x]
      PROVE  MonitorInv'
  BY <1>2, LostConcludes DEF LostAs, MonitorNotes
<1>3. CASE LostAs(d, n)
  BY <1>2, <1>3
<1>4. CASE LostAs(M!Activate(d, Subject), n)
  <2> DEFINE e == M!Activate(d, Subject)
  <2>1. e \in MonitoredDevice /\ Alike(e, d) /\ \A x \in Resources \ {Subject} : e.status[x] = d.status[x]
    BY <1>1, ActivateParts
  <2> HIDE DEF e
  <2>2. Alike(e, device) /\ LostAs(e, n)
    BY <1>4, <2>1 DEF Alike, e
  <2> QED BY <1>2, <2>1, <2>2
<1>5. CASE LostAs(M!Deactivate(d, Subject), n)
  <2> DEFINE e == M!Deactivate(d, Subject)
  <2>1. e \in MonitoredDevice /\ Alike(e, d) /\ \A x \in Resources \ {Subject} : e.status[x] = d.status[x]
    BY <1>1, DeactivateParts
  <2> HIDE DEF e
  <2>2. Alike(e, device) /\ LostAs(e, n)
    BY <1>5, <2>1 DEF Alike, e
  <2> QED BY <1>2, <2>1, <2>2
<1> QED BY <1>3, <1>4, <1>5

LEMMA MonitorLostStep ==
    ASSUME MonitorInv, M!RequestLost
    PROVE  MonitorInv'
<1> DEFINE set == M!Set(device, {<<Subject, "delay">>})
<1>1. device.loses = "one"
  BY DEF M!RequestLost
<1>2. device \in MonitoredDevice /\ Alike(device, device) /\ AreNotes(noted)
  BY DrainedParts DEF MonitorInv, MonitorTypes, Alike
<1>3. CASE at.step = "begin" /\ \E reached \in SUBSET M!Range(Monitors) :
             LostAs(M!Set(device, reached \X {"delay"}), noted)
  <2>1. PICK reached \in SUBSET M!Range(Monitors) : LostAs(M!Set(device, reached \X {"delay"}), noted)
    BY <1>3
  <2>2. PICK settings : settings = reached \X {"delay"}
    OBVIOUS
  <2>3. settings \subseteq M!Settings /\ LostAs(M!Set(device, settings), noted)
    BY <2>1, <2>2 DEF M!Settings
  <2>4. PICK d : d = M!Set(device, settings)
    OBVIOUS
  <2>5. d \in MonitoredDevice /\ Alike(d, device) /\ d.status = device.status
    BY <1>2, <2>3, <2>4, SetParts
  <2> QED BY <1>1, <1>2, <1>3, <2>3, <2>4, <2>5, LostBetween
<1>4. CASE at.step = "begin" /\ LostAs(device, noted)
  BY <1>1, <1>2, <1>4, LostBetween
<1>5. CASE at.step = "begin" /\ \E marks \in {{}, {"checked"}} :
             LostAs(device, [noted EXCEPT !.meta = M!Note(@, "touchpoint", marks)])
  <2>1. PICK marks \in {{}, {"checked"}} : LostAs(device, [noted EXCEPT !.meta = M!Note(@, "touchpoint", marks)])
    BY <1>5
  <2>2. PICK meta \in Meta : meta = M!Note(noted.meta, "touchpoint", marks)
    BY <1>2, NoteParts DEF AreNotes, M!Topics, Marks
  <2>3. PICK n : n = [noted EXCEPT !.meta = meta]
    OBVIOUS
  <2>4. AreNotes(n)
    BY <1>2, <2>3 DEF AreNotes
  <2>5. [noted EXCEPT !.meta = M!Note(@, "touchpoint", marks)] = n
    BY <1>2, <2>2, <2>3 DEF AreNotes
  <2> QED BY <1>1, <1>2, <1>5, <2>1, <2>4, <2>5, LostBetween
<1>6. CASE at.step = "visit" /\ \E d \in {device, set, M!Deactivate(set, Subject)} : LostAs(d, M!Drained(noted))
  <2>1. AreNotes(M!Drained(noted))
    BY DrainedParts
  <2>2. set \in MonitoredDevice /\ Alike(set, device) /\ set.status = device.status
    BY <1>6, MonitorTurn, SettingsParts, SetParts
  <2> HIDE DEF set
  <2>3. LostAs(device, M!Drained(noted)) \/ LostAs(set, M!Drained(noted))
        \/ LostAs(M!Deactivate(set, Subject), M!Drained(noted))
    BY <1>6
  <2> QED BY <1>1, <1>2, <1>6, <2>1, <2>2, <2>3, LostInTurn
<1>7. CASE at.step \in {"activate", "quiet"} /\ \E d \in {device, M!Activate(device, Subject)} : LostAs(d, M!Emptied(noted))
  <2>1. LostAs(device, M!Emptied(noted)) \/ LostAs(M!Activate(device, Subject), M!Emptied(noted))
    BY <1>7
  <2> QED BY <1>1, <1>2, <1>7, <2>1, EmptiedParts, LostInTurn
<1>8. CASE at.step = "watch" /\ \E d \in {device, M!Deactivate(device, Subject)} : LostAs(d, M!Findings)
  <2>1. LostAs(device, M!Findings) \/ LostAs(M!Deactivate(device, Subject), M!Findings)
    BY <1>8
  <2> QED BY <1>1, <1>2, <1>8, <2>1, FindingsParts, LostInTurn
<1>9. CASE /\ at.step = "settle"
           /\ \/ \E d \in {device, M!Cleared} : LostAs(d, noted)
              \/ \E d \in {M!Cleared, M!Activate(M!Cleared, Subject)} : LostAs(d, M!Reset(noted))
  <2>1. \/ LostAs(device, noted) \/ LostAs(M!Cleared, noted)
        \/ LostAs(M!Cleared, M!Reset(noted)) \/ LostAs(M!Activate(M!Cleared, Subject), M!Reset(noted))
    BY <1>9
  <2>2. at.step # "begin"
    BY <1>9
  <2> QED BY <1>1, <1>2, <2>1, <2>2, ClearedParts, ResetNotes, LostInTurn
<1>10. CASE at.step = "brief" /\ \E d \in {device, M!Deactivate(device, Subject)} : LostAs(d, noted)
  <2>1. LostAs(device, noted) \/ LostAs(M!Deactivate(device, Subject), noted)
    BY <1>10
  <2> QED BY <1>1, <1>2, <1>10, <2>1, LostInTurn
<1>11. CASE at.step = "again" /\ \E d \in {device, M!Deactivate(device, Subject)} : LostAs(d, M!AutoChecked)
  <2>1. LostAs(device, M!AutoChecked) \/ LostAs(M!Deactivate(device, Subject), M!AutoChecked)
    BY <1>11
  <2> QED BY <1>1, <1>2, <1>11, <2>1, AutoCheckedParts, LostInTurn
<1> HIDE DEF set
<1> QED BY <1>3, <1>4, <1>5, <1>6, <1>7, <1>8, <1>9, <1>10, <1>11, MonitorRun, FailsRun
    DEF M!RequestLost, M!Awake, On, set

\* An exception in the check of automatic resets: the resource is deactivated.
LEMMA AutoCaught ==
    ASSUME MonitorInv, at.step # "begin", NEW d \in MonitoredDevice, Alike(d, device),
           \A x \in Resources \ {Subject} : d.status[x] = device.status[x],
           device.fault = "none" => (d.timer # 0 => d.status[Subject] # "inactive"),
           device' = [M!Deactivate(d, Subject) EXCEPT !.loses = "lost"], Step("last", 0), MonitorNotes'
    PROVE  MonitorInv'
<1> DEFINE e == M!Deactivate(d, Subject)
<1>1. Subject \in Resources
  BY MonitorTurn
<1>2. /\ e \in MonitoredDevice /\ Alike(e, d)
      /\ \A x \in Resources \ {Subject} : e.status[x] = d.status[x]
      /\ d.fault = "none" => /\ e.status[Subject] = "inactive"
                             /\ (d.timer # 0 => d.status[Subject] # "inactive") => e.timer = 0
  BY <1>1, DeactivateParts
<1> HIDE DEF e
<1>3. /\ device' \in MonitoredDevice /\ device'.fault = device.fault /\ device'.left = device.left
      /\ device'.loses = "lost" /\ device'.status = e.status /\ device'.timer = e.timer
  BY <1>2 DEF MonitoredDevice, Alike, e
<1>4. device.fault = "none" => OthersStay /\ device'.status[Subject] = "inactive" /\ device'.timer = 0
  BY <1>2, <1>3 DEF OthersStay, Alike
<1> QED BY <1>3, <1>4, MonitorStepsOn

LEMMA AutoLostStep ==
    ASSUME MonitorInv, M!AutoLost
    PROVE  MonitorInv'
<1> DEFINE set == M!Set(device, {<<Subject, "auto">>})
           Caught(d, n) == /\ device' = [M!Deactivate(d, Subject) EXCEPT !.loses = "lost"]
                           /\ noted' = [n EXCEPT !.meta = M!Note(@, "auto", {"error"})]
                           /\ Step("last", 0)
<1>1. ASSUME NEW n, AreNotes(n), at.step # "begin", NEW d \in MonitoredDevice, Alike(d, device), Caught(d, n),
             \A x \in Resources \ {Subject} : d.status[x] = device.status[x],
             device.fault = "none" => (d.timer # 0 => d.status[Subject] # "inactive")
      PROVE  MonitorInv'
  <2>1. {"error"} \in SUBSET Marks
    BY DEF Marks
  <2>2. MonitorNotes'
    BY <1>1, <2>1, AutoMarks DEF MonitorNotes
  <2> QED BY <1>1, <2>2, AutoCaught
<1> DEFINE act == M!Activate(device, Subject)  acted == M!Activate(set, Subject)
<1>2. /\ \E step \in {"cut", "auto", "again", "rest"} : at.step = step
      /\ \/ at.step = "cut" /\ (Caught(device, M!Conduct) \/ Caught(set, M!Conduct) \/ Caught(acted, M!Conduct))
         \/ at.step \in {"auto", "again"} /\ Caught(device, noted)
         \/ at.step = "rest" /\ (Caught(device, M!Forgotten(noted)) \/ Caught(act, M!Forgotten(noted)))
  BY MonitorRun DEF M!AutoLost, M!Awake
<1>3. at.step # "begin" /\ Subject \in Resources /\ device \in MonitoredDevice /\ Alike(device, device)
  BY <1>2, MonitorTurn DEF Alike
<1>4. AreNotes(noted) /\ AreNotes(M!Conduct) /\ AreNotes(M!Forgotten(noted))
  BY DrainedParts, ConductParts, EmptiedParts
<1>5. device.fault = "none" => (device.timer # 0 => device.status[Subject] # "inactive")
  BY <1>2 DEF MonitorInv, Released
<1>6. set \in MonitoredDevice /\ Alike(set, device) /\ set.status = device.status /\ set.timer = device.timer
  BY <1>3, SettingsParts, SetParts
<1>7. /\ act \in MonitoredDevice /\ Alike(act, device)
      /\ \A x \in Resources \ {Subject} : act.status[x] = device.status[x]
      /\ device.fault = "none" => act.status[Subject] # "inactive"
  BY <1>3, ActivateParts
<1> HIDE DEF set
<1>8. /\ acted \in MonitoredDevice /\ Alike(acted, device)
      /\ \A x \in Resources \ {Subject} : acted.status[x] = device.status[x]
      /\ device.fault = "none" => acted.status[Subject] # "inactive"
  BY <1>3, <1>6, ActivateParts DEF Alike
<1> HIDE DEF act, acted, Caught
<1>9. CASE at.step = "cut"
  BY <1>1, <1>2, <1>3, <1>4, <1>5, <1>6, <1>8, <1>9
<1>10. CASE at.step \in {"auto", "again"}
  BY <1>1, <1>2, <1>3, <1>4, <1>5, <1>10
<1>11. CASE at.step = "rest"
  BY <1>1, <1>2, <1>3, <1>4, <1>5, <1>7, <1>11
<1> QED BY <1>2, <1>9, <1>10, <1>11

LEMMA MonitorStep ==
    ASSUME MonitorInv, [M!Next]_suiteVars
    PROVE  MonitorInv'
<1>1. CASE UNCHANGED suiteVars
  BY <1>1 DEF suiteVars, MonitorInv, MonitorTypes, MonitorNotes, AreNotes, Released, IsRun, Elems, Subject, StillActive
<1>2. CASE M!Next
  BY <1>2, DeliverStep, TickStep, MonitorsAsked, DelaysStep, BeginChecks, PrepareStep, ActivateStep,
     WatchedStep, ResetStep, EarlyStep, DeactivatedStep, AutoSteps, MonitorLostStep, AutoLostStep DEF M!Next
<1> QED BY <1>1, <1>2

LEMMA MonitorHolds == MonitorInv => M!TypeOK /\ M!ResourcesAreReleased
<1> SUFFICES ASSUME MonitorInv PROVE M!TypeOK /\ M!ResourcesAreReleased
  OBVIOUS
<1>1. device \in MonitoredDevice /\ MonitorNotes /\ IsRun
  BY DEF MonitorInv, MonitorTypes
<1>2. \A n \in DOMAIN device.wire : M!Range(device.wire[n].notes) \subseteq M!Notes
  <2> DEFINE w == device.wire
  <2>1. w \in Seq(Sent)
    BY <1>1 DEF MonitoredDevice
  <2> SUFFICES ASSUME NEW n \in DOMAIN w PROVE M!Range(w[n].notes) \subseteq M!Notes
    OBVIOUS
  <2> HIDE DEF w
  <2>2. w[n] \in Sent
    BY <2>1
  <2> DEFINE notes == w[n].notes
  <2>3. notes \in Seq(M!Notes)
    BY <2>2 DEF Sent
  <2> HIDE DEF notes
  <2>4. M!Range(notes) \subseteq M!Notes
    BY <2>3 DEF M!Range
  <2> QED BY <2>4 DEF notes
<1>3. M!TypeOK
  <2>1. /\ device.status \in [M!Range(Monitors) -> M!Statuses]
        /\ device.overall \in [M!Range(Monitors) -> M!Statuses] /\ device.set \subseteq M!Settings
    BY <1>1 DEF MonitoredDevice, Resources
  <2>2. noted.meta \in [M!Topics -> SUBSET {"checked", "error", "manual"}]
    BY <1>1 DEF MonitorNotes, AreNotes, Meta, Marks
  <2>3. \A t \in DOMAIN verdict : verdict[t] \in M!Verdict
    BY <1>1, MonitorRun DEF IsRun
  <2> QED BY <1>2, <2>1, <2>2, <2>3 DEF M!TypeOK
<1>4. M!ResourcesAreReleased
  <2>1. M!LeftActive = StillActive(device)
    BY DEF M!LeftActive, StillActive, Resources
  <2> QED BY <2>1, MonitorRun DEF MonitorInv, Released, M!ResourcesAreReleased, Resources
<1> QED BY <1>3, <1>4

MonitorSuite == suite = "monitors" => MonitorInv

LEMMA MonitorSuiteHolds == ControlSpec => []MonitorSuite
<1>1. ControlInit => MonitorSuite
  BY MonitorBegins DEF ControlInit, MonitorSuite
<1>2. MonitorSuite /\ [ControlNext]_controlVars => MonitorSuite'
  <2> SUFFICES ASSUME MonitorSuite, [ControlNext]_controlVars, suite' = "monitors" PROVE MonitorInv'
    BY DEF MonitorSuite
  <2>1. suite = "monitors" /\ [M!Next]_suiteVars
    BY DEF ControlNext, controlVars
  <2> QED BY <2>1, MonitorStep DEF MonitorSuite
<1> QED BY <1>1, <1>2, PTL DEF ControlSpec

--------------------
(* IS-14: what is below a block.                                            *)

Below(t) == B!BelowOf[t]

\* A set of blocks that has, with each block, the one that it is in.
Upward(S) == \A b \in S \ {Root} : Up[b] \in S

LEMMA BackupValues ==
    /\ Root \in B!Block /\ B!Block \subseteq B!Original /\ B!Original \subseteq B!Universe
    /\ \A o \in B!Universe \ {Root} : Up[o] \in B!Block
    /\ \A b \in B!Block : New[b] \in B!Universe /\ New[b] \notin B!Original /\ New[b] # Root /\ Up[New[b]] = b
    /\ \A o \in B!Universe \ B!Original : \E b \in B!Block : o = New[b]
    /\ Below(Root) = B!Universe
    /\ Listed \in Seq(B!Universe) /\ Elems(Listed) = B!Universe /\ Distinct(Listed)
    /\ \A r \in Rebuildables : r \subseteq B!Original \ {Root}
<1>1. B!BackupTestsAssumption
  BY ControlAssumption DEF ControlAssumption
<1>2. \A b \in B!Block : New[b] \notin B!Original
  BY DEF B!Original, B!Block, B!Range
<1>3. \A o \in B!Universe \ B!Original : \E b \in B!Block : o = New[b]
  BY DEF B!Original, B!Block, B!Range
<1>4. Root \in B!Block /\ B!Block \subseteq B!Original /\ B!Original \subseteq B!Universe
  BY <1>1 DEF B!BackupTestsAssumption, B!Original
<1>5. \A b \in B!Block : New[b] \in B!Universe /\ New[b] # Root /\ Up[New[b]] = b
  BY <1>1, <1>2, <1>4 DEF B!BackupTestsAssumption
<1>6. \A o \in B!Universe \ {Root} : Up[o] \in B!Block
  BY <1>1 DEF B!BackupTestsAssumption
<1>7. Listed \in Seq(B!Universe) /\ DOMAIN Listed = 1..Len(Listed)
  BY <1>1 DEF B!BackupTestsAssumption
<1>8. Elems(Listed) = B!Universe
  BY <1>7 DEF Elems, B!Universe, B!Range
<1>9. Distinct(Listed)
  BY <1>1, <1>7 DEF B!BackupTestsAssumption, B!IsInjective, Distinct
<1> QED BY <1>1, <1>2, <1>3, <1>4, <1>5, <1>6, <1>7, <1>8, <1>9 DEF B!BackupTestsAssumption, Below

\* What it is to be below an object, one object up at a time.
LEMMA BelowParts ==
    ASSUME NEW t \in B!Universe
    PROVE  /\ t \in Below(t) /\ Below(t) \subseteq B!Universe
           /\ \A o \in Below(t) \ {t} : o # Root /\ Up[o] \in B!Block /\ Up[o] \in Below(t)
<1>1. \A o : o \in Below(t) <=>
          o \in B!Universe /\ (o = t \/ (o # Root /\ \A S \in SUBSET B!Block :
                                  Up[o] \in S /\ Upward(S) => t \in S))
  BY DEF Below, B!BelowOf, Upward
<1> SUFFICES ASSUME NEW o \in Below(t), o # t
             PROVE  o # Root /\ Up[o] \in B!Block /\ Up[o] \in Below(t)
  BY <1>1
<1>2. o \in B!Universe /\ o # Root /\ \A S \in SUBSET B!Block : Up[o] \in S /\ Upward(S) => t \in S
  BY <1>1
<1>3. Up[o] \in B!Block /\ Up[o] \in B!Universe
  BY <1>2, BackupValues
<1>4. CASE Up[o] = t
  BY <1>1, <1>2, <1>3, <1>4
<1>5. CASE Up[o] # t
  <2>1. Up[o] # Root
    <3> SUFFICES ASSUME Up[o] = Root PROVE FALSE
      OBVIOUS
    <3>1. {Root} \in SUBSET B!Block /\ Upward({Root})
      BY BackupValues DEF Upward
    <3> QED BY <1>2, <1>5, <3>1
  <2>2. ASSUME NEW S \in SUBSET B!Block, Up[Up[o]] \in S, Upward(S) PROVE t \in S
    <3>1. S \cup {Up[o]} \in SUBSET B!Block /\ Upward(S \cup {Up[o]})
      BY <1>3, <2>2 DEF Upward
    <3> QED BY <1>2, <1>5, <3>1
  <2> QED BY <1>1, <1>2, <1>3, <2>1, <2>2
<1> QED BY <1>4, <1>5

LEMMA BelowChain ==
    ASSUME NEW t \in B!Universe, NEW s \in Below(t), NEW o \in Below(s)
    PROVE  o \in Below(t)
<1>1. s \in B!Universe /\ o \in B!Universe
  BY BelowParts
<1>2. CASE o = s \/ s = t
  BY <1>2
<1>3. CASE o # s /\ s # t
  <2>1. o # Root /\ s # Root
    BY <1>1, <1>3, BelowParts
  <2>2. ASSUME NEW S \in SUBSET B!Block, Up[o] \in S, Upward(S) PROVE t \in S
    <3>1. s \in S
      BY <1>1, <1>3, <2>2 DEF Below, B!BelowOf, Upward
    <3>2. Up[s] \in S
      BY <2>1, <2>2, <3>1 DEF Upward
    <3> QED BY <1>1, <1>3, <2>2, <3>2 DEF Below, B!BelowOf, Upward
  <2> QED BY <1>1, <2>1, <2>2 DEF Below, B!BelowOf, Upward
<1> QED BY <1>2, <1>3

LEMMA BelowUp ==
    ASSUME NEW o \in B!Universe \ {Root}
    PROVE  o \in Below(Up[o])
<1>1. Up[o] \in B!Universe
  BY BackupValues
<1> QED BY <1>1 DEF Below, B!BelowOf

\* No two objects are below one another: the root would be among those that are.
LEMMA NoCircle ==
    ASSUME NEW c \in B!Universe, NEW b \in Below(c), b # c
    PROVE  c \notin Below(b)
<1> SUFFICES ASSUME c \in Below(b) PROVE FALSE
  OBVIOUS
<1> DEFINE S == {s \in B!Block : s \in Below(c) /\ c \in Below(s)}
<1>1. b \in B!Universe /\ b # Root /\ c # Root /\ Up[b] \in B!Block
  BY BelowParts, BackupValues
<1>2. ASSUME NEW s \in B!Universe \ {Root}, s \in Below(c), c \in Below(s) PROVE Up[s] \in S
  <2>1. Up[s] \in B!Block /\ Up[s] \in B!Universe
    BY BackupValues
  <2>2. Up[s] \in Below(c)
    <3>1. CASE s # c
      BY <1>2, <3>1, BelowParts
    <3>2. CASE s = c
      <4>1. Up[c] \in Below(b)
        BY <1>1, BelowParts
      <4> QED BY <3>2, <4>1, BelowChain
    <3> QED BY <3>1, <3>2
  <2>3. s \in Below(Up[s])
    BY BelowUp
  <2>4. c \in Below(Up[s])
    BY <1>2, <2>1, <2>3, BelowChain
  <2> QED BY <2>1, <2>2, <2>4
<1>3. Up[b] \in S
  BY <1>1, <1>2
<1>4. Upward(S) /\ S \in SUBSET B!Block
  BY <1>2, BackupValues DEF Upward
<1>5. Root \in S
  <2> HIDE DEF S
  <2>1. b \in Below(Root)
    BY <1>1, BackupValues
  <2> QED BY <1>1, <1>3, <1>4, <2>1, BackupValues DEF Below, B!BelowOf, Upward
<1>6. Root \in Below(c)
  BY <1>5
<1> QED BY <1>1, <1>6, BelowParts

--------------------
(* IS-14: data sets, and the device that restores them.                     *)

IsDataSet(data) ==
    /\ DOMAIN data \subseteq B!Universe \X B!Prop
    /\ \A k \in DOMAIN data :
        /\ k[2] = "label" => data[k] \in 0..B!Incorrect
        /\ k[2] = "fixed" => data[k] \in 0..2
        /\ k[2] = "members" => k[1] \in B!Block /\ data[k] \subseteq B!Universe

\* With all the properties of each of its objects.
Complete(data) == \A k \in DOMAIN data : \A p \in B!PropsOf(k[1]) : <<k[1], p>> \in DOMAIN data

BackupDevice ==
    [label : [B!Universe -> 0..B!Incorrect], fixed : [B!Universe -> 0..2], has : SUBSET B!Universe,
     mistake : B!Mistake, rebuildable : SUBSET (B!Original \ {Root}), locked : SUBSET {Root},
     structure : BOOLEAN, loses : {"nothing", "one", "lost"}]

LEMMA BackupParts ==
    ASSUME NEW d \in BackupDevice, NEW t
    PROVE  IsDataSet(B!Backup(d, t)) /\ Complete(B!Backup(d, t))
<1> DEFINE keys == {k \in (Below(t) \cap d.has) \X B!Prop : k[2] \in B!PropsOf(k[1])}
           data == B!Backup(d, t)
<1>1. DOMAIN data = keys /\ \A k \in keys : data[k] = B!ValueOf(d, k[1], k[2])
  BY DEF B!Backup, Below
<1>2. /\ d.label \in [B!Universe -> 0..B!Incorrect] /\ d.fixed \in [B!Universe -> 0..2]
      /\ d.has \subseteq B!Universe
  BY DEF BackupDevice
<1>3. \A o : B!PropsOf(o) \subseteq B!Prop /\ ("members" \in B!PropsOf(o) => o \in B!Block)
  BY DEF B!PropsOf, B!Prop
<1>4. keys \subseteq B!Universe \X B!Prop
  BY <1>2
<1>5. ASSUME NEW k \in keys
      PROVE  /\ k[2] = "label" => data[k] \in 0..B!Incorrect
             /\ k[2] = "fixed" => data[k] \in 0..2
             /\ k[2] = "members" => k[1] \in B!Block /\ data[k] \subseteq B!Universe
  <2>1. k[1] \in B!Universe
    BY <1>4
  <2>2. B!MembersOf(d, k[1]) \subseteq B!Universe
    BY <1>2 DEF B!MembersOf
  <2> HIDE DEF data
  <2> QED BY <1>1, <1>2, <1>3, <2>1, <2>2 DEF B!ValueOf
<1>6. ASSUME NEW k \in keys, NEW p \in B!PropsOf(k[1]) PROVE <<k[1], p>> \in keys
  BY <1>3
<1> HIDE DEF data, keys
<1>7. IsDataSet(data)
  BY <1>1, <1>4, <1>5 DEF IsDataSet
<1>8. Complete(data)
  BY <1>1, <1>6 DEF Complete
<1> QED BY <1>7, <1>8 DEF data

\* What is restored is of the same kind, with nothing changed but what data sets are about.
LEMMA RestoredParts ==
    ASSUME NEW d \in BackupDevice, NEW data, IsDataSet(data), NEW t, NEW rebuild, NEW recurse,
           NEW r, r = B!Restored(d, data, t, rebuild, recurse)
    PROVE  /\ r \in BackupDevice /\ r.mistake = d.mistake /\ r.rebuildable = d.rebuildable
           /\ r.locked = d.locked /\ r.structure = d.structure /\ r.loses = d.loses
<1> DEFINE set == {k \in B!InScope(d, data, t, recurse) :
                      B!Accepts(d, k, data[k], rebuild) /\ ~B!Ignored(d, k)}
           after == B!HasAfter(d, data, set)
           has == IF d.mistake[1] = "drops" /\ ~rebuild THEN after \ {d.mistake[2]} ELSE after
           label == [o \in B!Universe |->
                        IF <<o, "label">> \in set /\ o \in after THEN data[<<o, "label">>] ELSE d.label[o]]
           fixed == [o \in B!Universe |->
                        IF <<o, "fixed">> \in set /\ o \in after THEN data[<<o, "fixed">>] ELSE d.fixed[o]]
<1>1. B!Restored(d, data, t, rebuild, recurse) = [d EXCEPT !.has = has, !.label = label, !.fixed = fixed]
  BY DEF B!Restored
<1>2. set \subseteq DOMAIN data
  BY DEF B!InScope
<1>3. after \subseteq B!Universe
  <2> DEFINE blocks == {k[1] : k \in {k \in set : k[2] = "members"}}
             come == UNION {data[<<b, "members">>] : b \in blocks}
  <2> HIDE DEF set
  <2>1. ASSUME NEW b \in blocks PROVE data[<<b, "members">>] \subseteq B!Universe
    <3>1. PICK k \in set : k[2] = "members" /\ k[1] = b
      OBVIOUS
    <3>2. k = <<b, "members">> /\ k \in DOMAIN data
      BY <1>2, <3>1 DEF IsDataSet
    <3> QED BY <3>1, <3>2 DEF IsDataSet
  <2>2. come \subseteq B!Universe
    BY <2>1
  <2>3. d.has \subseteq B!Universe
    BY DEF BackupDevice
  <2>4. after \subseteq d.has \cup come
    BY DEF B!HasAfter
  <2> QED BY <2>2, <2>3, <2>4
<1>4. label \in [B!Universe -> 0..B!Incorrect]
  <2>1. d.label \in [B!Universe -> 0..B!Incorrect]
    BY DEF BackupDevice
  <2> HIDE DEF set, after
  <2>2. ASSUME NEW o \in B!Universe, <<o, "label">> \in set PROVE data[<<o, "label">>] \in 0..B!Incorrect
    BY <1>2, <2>2 DEF IsDataSet
  <2> QED BY <2>1, <2>2
<1>5. fixed \in [B!Universe -> 0..2]
  <2>1. d.fixed \in [B!Universe -> 0..2]
    BY DEF BackupDevice
  <2> HIDE DEF set, after
  <2>2. ASSUME NEW o \in B!Universe, <<o, "fixed">> \in set PROVE data[<<o, "fixed">>] \in 0..2
    BY <1>2, <2>2 DEF IsDataSet
  <2> QED BY <2>1, <2>2
<1>6. has \subseteq B!Universe
  BY <1>3
<1> HIDE DEF set, after, has, label, fixed
<1> QED BY <1>1, <1>4, <1>5, <1>6 DEF BackupDevice

\* What a device without mistakes sets of a data set.
Accepted(d, data, t, rebuild, recurse) ==
    {k \in DOMAIN data :
        /\ k[1] = t \/ (recurse /\ k[1] \in Below(t))
        /\ \/ k[1] \notin d.has /\ rebuild /\ d.structure
           \/ k[1] \in d.has /\ k[2] = "label" /\ k[1] \notin d.locked /\ data[k] # B!Incorrect
           \/ k[1] \in d.has /\ k[2] = "fixed" /\ rebuild /\ k[1] \in d.rebuildable
           \/ k[1] \in d.has /\ k[2] = "members" /\ rebuild /\ d.structure /\ k[1] \in d.rebuildable}

\* The objects that the data set adds or does not take away.
Kept(d, data, set) ==
    {o \in B!Universe :
        /\ o \in d.has \/ \E b \in B!Block : <<b, "members">> \in set /\ o \in data[<<b, "members">>]
        /\ \A b \in B!Block : <<b, "members">> \in set /\ o # Root /\ o \in d.has /\ Up[o] = b
                                => o \in data[<<b, "members">>]}

LEMMA KeptParts ==
    ASSUME NEW d \in BackupDevice, NEW data, IsDataSet(data), NEW set, set \subseteq DOMAIN data
    PROVE  B!HasAfter(d, data, set) =
               {o \in Kept(d, data, set) : \A b \in B!Block : o \in Below(b) => b \in Kept(d, data, set)}
<1> DEFINE blocks == {k[1] : k \in {k \in set : k[2] = "members"}}
           come == UNION {data[<<b, "members">>] : b \in blocks}
           gone == UNION {B!MembersOf(d, b) \ data[<<b, "members">>] : b \in blocks}
           has == (d.has \cup come) \ gone
<1>1. B!HasAfter(d, data, set) = {o \in has : \A b \in B!Block : o \in Below(b) => b \in has}
  BY DEF B!HasAfter, Below
<1>2. \A b : b \in blocks <=> b \in B!Block /\ <<b, "members">> \in set
  <2>1. ASSUME NEW b \in blocks PROVE b \in B!Block /\ <<b, "members">> \in set
    <3>1. PICK k \in set : k[2] = "members" /\ k[1] = b
      OBVIOUS
    <3>2. k = <<b, "members">> /\ k \in DOMAIN data
      BY <3>1 DEF IsDataSet
    <3> QED BY <3>1, <3>2 DEF IsDataSet
  <2>2. ASSUME NEW b, <<b, "members">> \in set PROVE b \in blocks
    <3>1. PICK k : k = <<b, "members">>
      OBVIOUS
    <3>2. k \in set /\ k[1] = b /\ k[2] = "members"
      BY <2>2, <3>1
    <3> QED BY <3>2
  <2> QED BY <2>1, <2>2
<1>3. \A b \in blocks : data[<<b, "members">>] \subseteq B!Universe
  BY <1>2 DEF IsDataSet
<1>4. \A o : o \in come <=> \E b \in blocks : o \in data[<<b, "members">>]
  OBVIOUS
<1>5. \A o : o \in gone <=> \E b \in blocks : o \in B!MembersOf(d, b) /\ o \notin data[<<b, "members">>]
  <2> DEFINE left(b) == B!MembersOf(d, b) \ data[<<b, "members">>]
  <2>1. \A b, o : o \in left(b) <=> o \in B!MembersOf(d, b) /\ o \notin data[<<b, "members">>]
    OBVIOUS
  <2>2. gone = UNION {left(b) : b \in blocks}
    OBVIOUS
  <2> HIDE DEF left, blocks, gone
  <2>3. \A o : o \in gone <=> \E b \in blocks : o \in left(b)
    BY <2>2
  <2> QED BY <2>1, <2>3
<1> HIDE DEF blocks, come, gone
<1>6. \A o : o \in gone <=> \E b \in blocks : o # Root /\ o \in d.has /\ Up[o] = b /\ o \notin data[<<b, "members">>]
  BY <1>5 DEF B!MembersOf
<1>7. d.has \subseteq B!Universe
  BY DEF BackupDevice
<1>8. has = Kept(d, data, set)
  BY <1>2, <1>3, <1>4, <1>6, <1>7 DEF Kept
<1> HIDE DEF has
<1> QED BY <1>1, <1>8

\* What is there after a restore, and with which values.
IsRestored(r, d, data, set) ==
    /\ \A o : o \in r.has <=> /\ o \in Kept(d, data, set)
                           /\ \A b \in B!Block : o \in Below(b) => b \in Kept(d, data, set)
    /\ \A o \in B!Universe :
        /\ r.label[o] = IF <<o, "label">> \in set /\ o \in r.has THEN data[<<o, "label">>] ELSE d.label[o]
        /\ r.fixed[o] = IF <<o, "fixed">> \in set /\ o \in r.has THEN data[<<o, "fixed">>] ELSE d.fixed[o]

LEMMA RestoredIs ==
    ASSUME NEW d \in BackupDevice, d.mistake = <<"none">>, NEW data, IsDataSet(data), NEW t,
           NEW rebuild \in BOOLEAN, NEW recurse \in BOOLEAN,
           NEW r, r = B!Restored(d, data, t, rebuild, recurse),
           NEW set, set = Accepted(d, data, t, rebuild, recurse)
    PROVE  IsRestored(r, d, data, set)
<1> DEFINE mine == {k \in B!InScope(d, data, t, recurse) :
                      B!Accepts(d, k, data[k], rebuild) /\ ~B!Ignored(d, k)}
           has == B!HasAfter(d, data, mine)
           label == [o \in B!Universe |->
                        IF <<o, "label">> \in mine /\ o \in has THEN data[<<o, "label">>] ELSE d.label[o]]
           fixed == [o \in B!Universe |->
                        IF <<o, "fixed">> \in mine /\ o \in has THEN data[<<o, "fixed">>] ELSE d.fixed[o]]
<1>1. /\ d.mistake[1] = "none" /\ \A x : d.mistake # <<"depth", x>> /\ d.mistake # <<"lenient", x>>
      /\ \A x, y : d.mistake # <<"deaf", x, y>>
  OBVIOUS
<1>2. r = [d EXCEPT !.has = has, !.label = label, !.fixed = fixed]
  BY <1>1 DEF B!Restored
<1>3. mine = set
  <2>1. \A k : k \in B!InScope(d, data, t, recurse) <=>
            k \in DOMAIN data /\ (k[1] = t \/ (recurse /\ k[1] \in Below(t)))
    BY <1>1 DEF B!InScope, Below
  <2>2. ASSUME NEW k \in DOMAIN data
        PROVE  ~B!Ignored(d, k) /\ k[2] \in {"label", "fixed", "members"}
    BY <1>1 DEF B!Ignored, IsDataSet, B!Prop
  <2>3. ASSUME NEW k \in DOMAIN data
        PROVE  B!Accepts(d, k, data[k], rebuild) <=>
               \/ k[1] \notin d.has /\ rebuild /\ d.structure
               \/ k[1] \in d.has /\ k[2] = "label" /\ k[1] \notin d.locked /\ data[k] # B!Incorrect
               \/ k[1] \in d.has /\ k[2] = "fixed" /\ rebuild /\ k[1] \in d.rebuildable
               \/ k[1] \in d.has /\ k[2] = "members" /\ rebuild /\ d.structure /\ k[1] \in d.rebuildable
    <3>1. d.structure \in BOOLEAN
      BY DEF BackupDevice
    <3> QED BY <1>1, <2>2, <3>1 DEF B!Accepts
  <2> QED BY <2>1, <2>2, <2>3 DEF Accepted
<1>4. has = {o \in Kept(d, data, mine) : \A b \in B!Block : o \in Below(b) => b \in Kept(d, data, mine)}
  <2>1. mine \subseteq DOMAIN data
    BY DEF B!InScope
  <2> HIDE DEF mine
  <2> QED BY <2>1, KeptParts
<1> HIDE DEF mine, has
<1>5. \A o \in B!Universe :
        /\ label[o] = IF <<o, "label">> \in mine /\ o \in has THEN data[<<o, "label">>] ELSE d.label[o]
        /\ fixed[o] = IF <<o, "fixed">> \in mine /\ o \in has THEN data[<<o, "fixed">>] ELSE d.fixed[o]
  OBVIOUS
<1> HIDE DEF label, fixed
<1>6. r.has = has /\ r.label = label /\ r.fixed = fixed
  BY <1>2 DEF BackupDevice
<1>7. IsRestored(r, d, data, mine)
  BY <1>4, <1>5, <1>6 DEF IsRestored
<1> QED BY <1>3, <1>7

\* The data set of a device as it was before the first test.
Inside(b) == {o \in B!Original : o # Root /\ Up[o] = b}
Found ==
    [k \in {k \in B!Original \X B!Prop : k[2] \in B!PropsOf(k[1])} |->
        IF k[2] = "members" THEN Inside(k[1]) ELSE 0]

AsFound(d) == d.has = B!Original /\ \A o \in B!Original : d.label[o] = 0 /\ d.fixed[o] = 0

LEMMA FoundParts ==
    /\ IsDataSet(Found) /\ Complete(Found)
    /\ \A k : k \in DOMAIN Found <=> \E o \in B!Original : \E p \in B!PropsOf(o) : k = <<o, p>>
    /\ \A o \in B!Original : Found[<<o, "label">>] = 0 /\ Found[<<o, "fixed">>] = 0
    /\ \A b \in B!Block : Found[<<b, "members">>] = Inside(b)
<1> DEFINE keys == {k \in B!Original \X B!Prop : k[2] \in B!PropsOf(k[1])}
<1>1. /\ \A o \in B!Original : /\ B!PropsOf(o) \subseteq B!Prop
                               /\ "label" \in B!PropsOf(o) /\ "fixed" \in B!PropsOf(o)
      /\ \A b : "members" \in B!PropsOf(b) <=> b \in B!Block
  BY DEF B!PropsOf, B!Prop
<1>2. \A k : k \in keys <=> \E o \in B!Original : \E p \in B!PropsOf(o) : k = <<o, p>>
  BY <1>1
<1>3. DOMAIN Found = keys
  BY DEF Found
<1>4. \A k \in keys : Found[k] = IF k[2] = "members" THEN Inside(k[1]) ELSE 0
  BY DEF Found
<1>5. \A k \in keys : k[2] = "members" => k[1] \in B!Block
  BY <1>1
<1>6. keys \subseteq B!Universe \X B!Prop
  BY BackupValues
<1> HIDE DEF keys
<1>7. IsDataSet(Found)
  BY <1>3, <1>4, <1>5, <1>6, BackupValues DEF IsDataSet, Inside, B!Incorrect
<1>8. Complete(Found)
  BY <1>2, <1>3 DEF Complete
<1>9. \A o \in B!Original : Found[<<o, "label">>] = 0 /\ Found[<<o, "fixed">>] = 0
  BY <1>1, <1>2, <1>4
<1>10. \A b \in B!Block : Found[<<b, "members">>] = Inside(b)
  BY <1>1, <1>2, <1>4, BackupValues
<1> QED BY <1>2, <1>3, <1>7, <1>8, <1>9, <1>10

LEMMA FoundIsBackup ==
    ASSUME NEW d \in BackupDevice, AsFound(d)
    PROVE  B!Backup(d, Root) = Found
<1>1. (Below(Root) \cap d.has) = B!Original
  BY BackupValues DEF AsFound
<1>2. \A k \in B!Original \X B!Prop :
          k[2] \in B!PropsOf(k[1]) =>
              B!ValueOf(d, k[1], k[2]) = IF k[2] = "members" THEN Inside(k[1]) ELSE 0
  BY DEF B!ValueOf, AsFound, B!MembersOf, Inside, B!Prop
<1> QED BY <1>1, <1>2 DEF B!Backup, Found, Below

--------------------
(* IS-14: what the tests do to a device without mistakes, and how it is     *)
(* undone.                                                                  *)

\* No rebuildable block is below another.
Apart(d) == \A b, c \in d.rebuildable \cap B!Block : b # c => c \notin Below(b)

\* In the walk, at the restore of everything, and at a block.
Relabelled(d) ==
    /\ d.has = B!Original
    /\ \A o \in B!Original : d.fixed[o] = 0 /\ (o \in d.locked => d.label[o] = 0)
Rewritten(d, rebuild) ==
    /\ d.has = B!Original
    /\ \A o \in B!Original : /\ o \in d.locked => d.label[o] = 0
                             /\ ~rebuild \/ o \notin d.rebuildable => d.fixed[o] = 0
Cut(d, b) ==
    /\ \A o \in B!Original : d.label[o] = 0 /\ d.fixed[o] = 0
    /\ b \in d.has /\ d.has \subseteq B!Original \cup {New[b]}
    /\ d.has # B!Original => d.structure /\ b \in d.rebuildable
    /\ \A o \in B!Original \ d.has : o # b /\ o \in Below(b) /\ (Up[o] = b \/ Up[o] \notin d.has)

\* The data set of a block that one member is taken from, or added to.
Edited(data, b) ==
    /\ \A k \in DOMAIN data : k[1] \in Below(b) /\ (k[2] # "members" => data[k] = 0)
    /\ <<b, "members">> \in DOMAIN data =>
           \/ data[<<b, "members">>] = Inside(b) \cup {New[b]}
           \/ \E child \in Below(b) \ {b} : data[<<b, "members">>] = Inside(b) \ {child}

LEMMA Unmoved ==
    ASSUME NEW d \in BackupDevice, d.has = B!Original, NEW data, IsDataSet(data), NEW set,
           \A b \in B!Block : <<b, "members">> \in set => data[<<b, "members">>] = Inside(b),
           NEW r, IsRestored(r, d, data, set)
    PROVE  r.has = B!Original
<1> DEFINE kept == Kept(d, data, set)
<1>1. kept = B!Original
  <2>1. \A o \in B!Original : o \in kept
    BY BackupValues DEF Kept, Inside
  <2>2. \A o \in kept : o \in B!Original
    BY DEF Kept, Inside
  <2> HIDE DEF kept
  <2> QED BY <2>1, <2>2
<1>2. \A o : o \in r.has <=> o \in kept /\ \A b \in B!Block : o \in Below(b) => b \in kept
  BY DEF IsRestored
<1> HIDE DEF kept
<1> QED BY <1>1, <1>2, BackupValues

LEMMA RelabelParts ==
    ASSUME NEW d \in BackupDevice, d.mistake = <<"none">>, Relabelled(d), NEW data, IsDataSet(data),
           NEW t, NEW recurse \in BOOLEAN
    PROVE  Relabelled(B!Restored(d, data, t, FALSE, recurse))
<1>0. PICK no \in BOOLEAN : no = FALSE
  OBVIOUS
<1>a. PICK r : r = B!Restored(d, data, t, no, recurse)
  OBVIOUS
<1>b. PICK set : set = Accepted(d, data, t, no, recurse)
  OBVIOUS
<1>1. \A o : /\ <<o, "members">> \notin set /\ <<o, "fixed">> \notin set
             /\ <<o, "label">> \in set => o \notin d.locked
  BY <1>0, <1>b DEF Accepted
<1>2. IsRestored(r, d, data, set)
  BY <1>a, <1>b, RestoredIs
<1>3. r.locked = d.locked
  BY <1>a, RestoredParts
<1>4. r.has = B!Original
  BY <1>1, <1>2, Unmoved DEF Relabelled
<1>5. Relabelled(r)
  BY <1>1, <1>2, <1>3, <1>4, BackupValues DEF IsRestored, Relabelled
<1> QED BY <1>5, <1>0, <1>a

LEMMA RewriteParts ==
    ASSUME NEW d \in BackupDevice, d.mistake = <<"none">>, AsFound(d), NEW data, IsDataSet(data),
           \A k \in DOMAIN data : k[2] # "members", NEW rebuild \in BOOLEAN
    PROVE  Rewritten(B!Restored(d, data, Root, rebuild, TRUE), rebuild)
<1>0. PICK yes \in BOOLEAN : yes = TRUE
  OBVIOUS
<1>a. PICK r : r = B!Restored(d, data, Root, rebuild, yes)
  OBVIOUS
<1>b. PICK set : set = Accepted(d, data, Root, rebuild, yes)
  OBVIOUS
<1>1. \A o : /\ <<o, "members">> \notin set
             /\ <<o, "label">> \in set /\ o \in d.has => o \notin d.locked
             /\ <<o, "fixed">> \in set /\ o \in d.has => rebuild /\ o \in d.rebuildable
  BY <1>b DEF Accepted
<1>2. IsRestored(r, d, data, set)
  BY <1>a, <1>b, RestoredIs
<1>3. r.locked = d.locked /\ r.rebuildable = d.rebuildable
  BY <1>a, RestoredParts
<1>4. r.has = B!Original /\ d.has = B!Original
  BY <1>1, <1>2, Unmoved DEF AsFound
<1>5. Rewritten(r, rebuild)
  BY <1>1, <1>2, <1>3, <1>4, BackupValues DEF IsRestored, Rewritten, AsFound
<1> QED BY <1>5, <1>0, <1>a

LEMMA UndoParts ==
    ASSUME NEW d \in BackupDevice, d.mistake = <<"none">>, NEW rebuild \in BOOLEAN, Rewritten(d, rebuild)
    PROVE  AsFound(B!Restored(d, Found, Root, rebuild, TRUE))
<1>0. PICK yes \in BOOLEAN : yes = TRUE
  OBVIOUS
<1>a. PICK r : r = B!Restored(d, Found, Root, rebuild, yes)
  OBVIOUS
<1>b. PICK set : set = Accepted(d, Found, Root, rebuild, yes)
  OBVIOUS
<1>1. d.has = B!Original /\ \A o \in B!Original : o \in Below(Root)
  BY BackupValues DEF Rewritten
<1>2. ASSUME NEW o \in B!Original
      PROVE  /\ o \notin d.locked => <<o, "label">> \in set
             /\ rebuild /\ o \in d.rebuildable => <<o, "fixed">> \in set
  <2>1. /\ <<o, "label">> \in DOMAIN Found /\ <<o, "fixed">> \in DOMAIN Found
        /\ Found[<<o, "label">>] # B!Incorrect
    BY FoundParts DEF B!PropsOf, B!Incorrect
  <2> QED BY <1>0, <1>1, <1>b, <2>1 DEF Accepted
<1>3. IsRestored(r, d, Found, set)
  BY <1>a, <1>b, FoundParts, RestoredIs
<1>4. r.has = B!Original
  BY <1>1, <1>3, FoundParts, Unmoved
<1>5. AsFound(r)
  BY <1>2, <1>3, <1>4, BackupValues, FoundParts DEF IsRestored, AsFound, Rewritten
<1> QED BY <1>5, <1>0, <1>a

\* The reset of the walk is an undo without rebuild.
LEMMA RelabelledIsRewritten == \A d : Relabelled(d) => Rewritten(d, FALSE)
BY DEF Relabelled, Rewritten

\* A block without one of its members is without all that is below it; and no other block
\* below it can be changed.
LEMMA CutParts ==
    ASSUME NEW d \in BackupDevice, d.mistake = <<"none">>, AsFound(d), Apart(d),
           NEW b \in B!Block, b \in d.rebuildable, NEW data, IsDataSet(data), Edited(data, b)
    PROVE  Cut(B!Restored(d, data, b, TRUE, TRUE), b)
<1>0. PICK yes \in BOOLEAN : yes = TRUE
  OBVIOUS
<1>a. PICK r : r = B!Restored(d, data, b, yes, yes)
  OBVIOUS
<1>b. PICK set : set = Accepted(d, data, b, yes, yes)
  OBVIOUS
<1>c. PICK kept : kept = Kept(d, data, set)
  OBVIOUS
<1>1. d.has = B!Original /\ b \in B!Universe /\ b \in B!Original
  BY BackupValues DEF AsFound
<1>2. ASSUME NEW c \in B!Block, <<c, "members">> \in set
      PROVE  c = b /\ d.structure /\ <<b, "members">> \in DOMAIN data
  <2>1. /\ <<c, "members">> \in DOMAIN data
        /\ c \in d.rebuildable /\ d.structure
    BY <1>b, <1>1, <1>2, BackupValues DEF Accepted
  <2>2. c \in Below(b)
    BY <2>1 DEF Edited
  <2> QED BY <2>1, <2>2 DEF Apart
<1>3. IsRestored(r, d, data, set)
  BY <1>a, <1>b, RestoredIs
<1>d. \A o : o \in r.has <=> o \in kept /\ \A c \in B!Block : o \in Below(c) => c \in kept
  BY <1>c, <1>3 DEF IsRestored
<1>e. \A o \in B!Universe :
        /\ r.label[o] = IF <<o, "label">> \in set /\ o \in r.has THEN data[<<o, "label">>] ELSE d.label[o]
        /\ r.fixed[o] = IF <<o, "fixed">> \in set /\ o \in r.has THEN data[<<o, "fixed">>] ELSE d.fixed[o]
  BY <1>3 DEF IsRestored
<1>4. r.structure = d.structure /\ r.rebuildable = d.rebuildable
  BY <1>a, RestoredParts
<1>5. set \subseteq DOMAIN data
  BY <1>b DEF Accepted
<1>6. kept = {o \in B!Universe :
                /\ o \in B!Original \/ (<<b, "members">> \in set /\ o \in data[<<b, "members">>])
                /\ <<b, "members">> \in set /\ o # Root /\ o \in B!Original /\ Up[o] = b
                       => o \in data[<<b, "members">>]}
  BY <1>c, <1>1, <1>2 DEF Kept
<1>7. \A o \in B!Original : r.label[o] = 0 /\ r.fixed[o] = 0
  BY <1>e, <1>5, BackupValues DEF Edited, AsFound
<1>8. CASE <<b, "members">> \notin set
  <2>1. kept = B!Original
    BY <1>6, <1>8, BackupValues
  <2>2. r.has = B!Original
    BY <1>d, <2>1, BackupValues
  <2> QED BY <1>1, <1>7, <2>2, <1>0, <1>a DEF Cut
<1>9. CASE <<b, "members">> \in set /\ data[<<b, "members">>] = Inside(b) \cup {New[b]}
  <2>1. kept = B!Original \cup {New[b]}
    BY <1>6, <1>9, BackupValues DEF Inside
  <2>2. r.has = B!Original \cup {New[b]}
    BY <1>d, <2>1, BackupValues
  <2> QED BY <1>1, <1>2, <1>4, <1>7, <1>9, <2>2, <1>0, <1>a DEF Cut
<1>10. ASSUME <<b, "members">> \in set, NEW child \in Below(b) \ {b},
              data[<<b, "members">>] = Inside(b) \ {child}
       PROVE  Cut(r, b)
  <2>1. \A o : o \in kept <=> o \in B!Original /\ (o # child \/ Up[child] # b \/ child = Root)
    BY <1>6, <1>10, BackupValues DEF Inside
  <2>2. child # Root /\ child \in B!Universe
    BY <1>1, BelowParts
  <2>3. b \notin Below(child)
    BY <1>1, <1>10, NoCircle
  <2>4. b \in r.has
    BY <1>1, <1>d, <1>10, <2>1, <2>3, BackupValues
  <2>5. r.has \subseteq B!Original
    BY <1>d, <2>1
  <2>6. ASSUME NEW o \in B!Original \ r.has
        PROVE  o # b /\ o \in Below(b) /\ (Up[o] = b \/ Up[o] \notin r.has)
    <3>1. CASE o \notin kept
      BY <1>10, <2>1, <3>1
    <3>2. ASSUME NEW c \in B!Block, o \in Below(c), c \notin kept
          PROVE  o # b /\ o \in Below(b) /\ (Up[o] = b \/ Up[o] \notin r.has)
      <4>1. c = child /\ Up[child] = b
        BY <2>1, <3>2, BackupValues
      <4>2. o \in Below(b) /\ o # b
        BY <1>1, <1>10, <2>3, <3>2, <4>1, BelowChain
      <4>3. CASE o = child
        BY <4>1, <4>2, <4>3
      <4>4. CASE o # child
        <5>1. Up[o] \in Below(child)
          BY <2>2, <3>2, <4>1, <4>4, BelowParts
        <5>2. Up[o] \notin r.has
          BY <1>d, <3>2, <4>1, <5>1
        <5> QED BY <4>2, <5>2
      <4> QED BY <4>3, <4>4
    <3> QED BY <1>d, <3>1, <3>2
  <2> QED BY <1>2, <1>4, <1>7, <1>10, <2>4, <2>5, <2>6 DEF Cut
<1>11. <<b, "members">> \in set =>
          \/ data[<<b, "members">>] = Inside(b) \cup {New[b]}
          \/ \E child \in Below(b) \ {b} : data[<<b, "members">>] = Inside(b) \ {child}
  BY <1>5 DEF Edited
<1> QED BY <1>8, <1>9, <1>10, <1>11, <1>0, <1>a

\* What is gone comes back, one object after the other, from its block down.
LEMMA MendParts ==
    ASSUME NEW d \in BackupDevice, d.mistake = <<"none">>, Apart(d), NEW b \in B!Block, Cut(d, b)
    PROVE  AsFound(B!Restored(d, Found, b, TRUE, TRUE))
<1>0. PICK yes \in BOOLEAN : yes = TRUE
  OBVIOUS
<1>a. PICK r : r = B!Restored(d, Found, b, yes, yes)
  OBVIOUS
<1>b. PICK set : set = Accepted(d, Found, b, yes, yes)
  OBVIOUS
<1>c. PICK kept : kept = Kept(d, Found, set)
  OBVIOUS
<1>1. b \in B!Universe /\ b \in B!Original
  BY BackupValues
<1>2. IsRestored(r, d, Found, set)
  BY <1>a, <1>b, FoundParts, RestoredIs
<1>d. \A o : o \in r.has <=> o \in kept /\ \A c \in B!Block : o \in Below(c) => c \in kept
  BY <1>c, <1>2 DEF IsRestored
<1>e. \A o \in B!Universe :
        /\ r.label[o] = IF <<o, "label">> \in set /\ o \in r.has THEN Found[<<o, "label">>] ELSE d.label[o]
        /\ r.fixed[o] = IF <<o, "fixed">> \in set /\ o \in r.has THEN Found[<<o, "fixed">>] ELSE d.fixed[o]
  BY <1>2 DEF IsRestored
<1>3. \A c \in B!Block : <<c, "members">> \in DOMAIN Found
  BY BackupValues, FoundParts DEF B!PropsOf
<1>4. CASE d.has = B!Original
  <2>1. r.has = B!Original
    BY <1>2, <1>4, FoundParts, Unmoved
  <2>2. \A o \in B!Original : r.label[o] = 0 /\ r.fixed[o] = 0
    BY <1>e, BackupValues, FoundParts DEF Cut
  <2>3. AsFound(r)
    BY <2>1, <2>2 DEF AsFound
  <2> QED BY <1>0, <1>a, <2>3
<1>5. CASE d.has # B!Original
  <2>1. d.structure /\ b \in d.rebuildable
    BY <1>5 DEF Cut
  <2>2. <<b, "members">> \in set
    BY <1>0, <1>b, <1>3, <2>1 DEF Accepted, Cut
  <2>3. ASSUME NEW c \in B!Block, c \in Below(b), c \notin d.has PROVE <<c, "members">> \in set
    BY <1>0, <1>b, <1>3, <2>1, <2>3 DEF Accepted
  <2>4. ASSUME NEW c \in B!Block, <<c, "members">> \in set, c # b PROVE c \notin d.has
    <3>1. c \in d.has => c \in d.rebuildable
      BY <1>b, <2>4 DEF Accepted
    <3>2. c \in Below(b)
      BY <1>b, <2>4 DEF Accepted
    <3> QED BY <2>1, <2>4, <3>1, <3>2 DEF Apart
  <2>5. ASSUME NEW o \in B!Original PROVE o \in kept
    <3>1. \A c \in B!Block : o # Root /\ Up[o] = c => o \in Found[<<c, "members">>]
      BY FoundParts DEF Inside
    <3>2. CASE o \in d.has
      BY <1>c, <3>1, <3>2, BackupValues DEF Kept
    <3>3. CASE o \notin d.has
      <4>1. o # b /\ o \in Below(b) /\ (Up[o] = b \/ Up[o] \notin d.has)
        BY <3>3 DEF Cut
      <4>2. o # Root /\ Up[o] \in B!Block /\ Up[o] \in Below(b)
        BY <1>1, <4>1, BelowParts
      <4>3. <<Up[o], "members">> \in set
        BY <2>2, <2>3, <4>1, <4>2
      <4> QED BY <1>c, <3>1, <4>2, <4>3, BackupValues DEF Kept
    <3> QED BY <3>2, <3>3
  <2>6. ASSUME NEW o \in kept PROVE o \in B!Original
    <3>1. \A c \in B!Block : Found[<<c, "members">>] \subseteq B!Original
      BY FoundParts DEF Inside
    <3> SUFFICES ASSUME o \notin B!Original PROVE FALSE
      OBVIOUS
    <3>2. o = New[b]
      BY <1>c, <3>1 DEF Kept, Cut
    <3>3. o # Root /\ o \in d.has /\ Up[o] = b
      BY <1>c, <3>1, <3>2, BackupValues DEF Kept
    <3> QED BY <1>c, <2>2, <3>1, <3>3 DEF Kept
  <2>7. kept = B!Original
    BY <2>5, <2>6
  <2>8. r.has = B!Original
    BY <1>d, <2>7, BackupValues
  <2>9. \A o \in B!Original : r.label[o] = 0 /\ r.fixed[o] = 0
    BY <1>e, BackupValues, FoundParts DEF Cut
  <2>10. AsFound(r)
    BY <2>8, <2>9 DEF AsFound
  <2> QED BY <1>0, <1>a, <2>10
<1> QED BY <1>4, <1>5

--------------------
(* IS-14: the run of the suite.                                             *)

Path == B!Universe \X BOOLEAN

IsNotes(n) ==
    /\ n = [errors |-> n.errors, checked |-> n.checked, warnings |-> n.warnings, done |-> n.done,
            target |-> n.target, first |-> n.first, original |-> n.original, data |-> n.data]
    /\ n.errors \cup n.checked \cup n.warnings \subseteq B!Result
    /\ n.done \in BOOLEAN /\ n.target \in B!Block
    /\ IsDataSet(n.first) /\ IsDataSet(n.original) /\ IsDataSet(n.data)

BackupTypes ==
    /\ IsRun /\ device \in BackupDevice /\ IsNotes(noted)
    /\ On(B!Walking, "visit") \/ On(B!Walking, "restore") => at.todo \in Seq(Path) /\ at.todo # <<>>
    /\ On(B!BlockTests, "visit") \/ On(B!BlockTests, "restore") =>
           at.todo \in Seq(B!Block) /\ Complete(noted.data)
    /\ On(B!BlockTests, "restore") => at.todo # <<>>

Faithful == device.mistake = <<"none">> /\ device.loses # "lost" /\ Apart(device)

\* In the walk only labels change, and the ones that its last step sets again.
WalkIsUndone ==
    /\ On(B!Walking, "visit") \/ On(B!Walking, "restore") => \A e \in Elems(at.todo) : e[1] \in B!Original
    /\ On(B!Walking, "visit") \/ On(B!Walking, "restore") \/ On(B!Walking, "reset") =>
           Relabelled(device) /\ noted.first = Found

RestoreIsUndone ==
    /\ On(B!RestoreTests, "restore") =>
           AsFound(device) /\ noted.original = Found /\ \A k \in DOMAIN noted.data : k[2] # "members"
    /\ On(B!RestoreTests, "undo") => noted.original = Found /\ Rewritten(device, B!Rebuild)
    /\ On(B!RestoreTests, "model") => AsFound(device)

\* One block is changed; after it, there is nothing of the others left in the data set.
BlockIsUndone ==
    /\ On(B!BlockTests, "visit") \/ On(B!BlockTests, "restore") =>
           noted.original = Found /\ Elems(at.todo) \subseteq device.rebuildable /\ Distinct(at.todo)
    /\ On(B!BlockTests, "visit") =>
           \/ AsFound(device) /\ noted.data = Found /\ noted.target = Root
           \/ Cut(device, noted.target) /\ Elems(at.todo) \cap B!ObjectsOf(noted.data) = {}
    /\ On(B!BlockTests, "restore") =>
           /\ AsFound(device) /\ noted.target = Subject /\ Edited(noted.data, Subject)
           /\ Elems(Tail(at.todo)) \cap B!ObjectsOf(noted.data) = {}
    /\ On(B!BlockTests, "undo") => noted.original = Found /\ Cut(device, noted.target)

BackupInv ==
    /\ BackupTypes
    /\ Faithful => /\ Ended \/ at.step = "begin" => AsFound(device)
                   /\ WalkIsUndone /\ RestoreIsUndone /\ BlockIsUndone

LEMMA BackupRun ==
    /\ \A v : B!Conclude(v) <=> Conclude(v)
    /\ \A step : B!Goto(step) <=> Step(step, 0)
    /\ \A tests, step : B!On(tests, step) <=> On(tests, step)
    /\ B!Ended <=> Ended
    /\ B!Subject = Subject
    /\ B!Verdict = Verdict /\ B!NoVerdicts(B!Order) = NoVerdicts(B!Order)
    /\ \A plan : B!Position(plan) = Position(plan)
    /\ \A s, set : B!Select(s, set) = Select(s, set)
BY DEF B!Conclude, Conclude, B!Position, Position, B!Goto, B!Step, Step, B!On, On, B!Ended, Ended,
     B!Verdict, Verdict, B!NoVerdicts, NoVerdicts, B!Subject, Subject, B!Select, Select

LEMMA BackupVerdicts == \A v \in {"PASS", "FAIL", "UNCLEAR", "WARNING", "DISABLED"} : v \in Verdict
BY DEF Verdict

LEMMA TestsApart ==
    /\ B!Walking \cap B!RestoreTests = {} /\ B!Walking \cap B!BlockTests = {}
    /\ B!RestoreTests \cap B!BlockTests = {}
<1>1. B!Walking = {"test_15", "test_16", "test_17", "test_18", "test_19", "test_20"}
  <2> DEFINE w == <<"test_15", "test_16", "test_17", "test_18", "test_19", "test_20">>
  <2>1. B!Walking = {w[i] : i \in DOMAIN w}
    BY DEF B!Walking, B!Range, B!WalkTests
  <2>2. DOMAIN w = {1, 2, 3, 4, 5, 6}
    OBVIOUS
  <2>3. {w[i] : i \in {1, 2, 3, 4, 5, 6}} = {w[1], w[2], w[3], w[4], w[5], w[6]}
    OBVIOUS
  <2> QED BY <2>1, <2>2, <2>3
<1> QED BY <1>1 DEF B!RestoreTests, B!BlockTests

\* The device changes in its values and objects only.
SameMake ==
    /\ device' \in BackupDevice /\ device'.mistake = device.mistake
    /\ device'.rebuildable = device.rebuildable /\ device'.loses = device.loses

LEMMA SameFaith ==
    ASSUME SameMake
    PROVE  Faithful' <=> Faithful
BY DEF SameMake, Faithful, Apart

LEMMA BackupConcludes ==
    ASSUME BackupTypes, NEW v \in Verdict, Conclude(v), device' \in BackupDevice, IsNotes(noted)',
           Faithful' => AsFound(device)'
    PROVE  BackupInv'
<1>1. IsRun' /\ at'.step = "begin"
  BY TestEnds DEF BackupTypes
<1>2. \A tests : /\ ~On(tests, "visit")' /\ ~On(tests, "restore")' /\ ~On(tests, "reset")'
                /\ ~On(tests, "undo")' /\ ~On(tests, "model")'
  BY <1>1 DEF On
<1>3. BackupTypes'
  BY <1>1, <1>2 DEF BackupTypes
<1>4. WalkIsUndone' /\ RestoreIsUndone' /\ BlockIsUndone'
  BY <1>2 DEF WalkIsUndone, RestoreIsUndone, BlockIsUndone
<1> QED BY <1>3, <1>4 DEF BackupInv

LEMMA WalkGoesOn ==
    ASSUME ~Ended, Head(at.plan) \in B!Walking, IsRun', at'.plan = at.plan,
           at'.step \in {"visit", "restore", "reset"}, device' \in BackupDevice, IsNotes(noted)',
           at'.step # "reset" => at'.todo \in Seq(Path) /\ at'.todo # <<>>,
           Faithful' => /\ Relabelled(device)' /\ noted'.first = Found
                        /\ at'.step # "reset" => \A e \in Elems(at'.todo) : e[1] \in B!Original
    PROVE  BackupInv'
<1>1. /\ ~Ended' /\ Head(at'.plan) \notin B!RestoreTests /\ Head(at'.plan) \notin B!BlockTests
  BY TestsApart DEF Ended
<1>2. \A step : ~On(B!RestoreTests, step)' /\ ~On(B!BlockTests, step)'
  BY <1>1 DEF On
<1>3. On(B!Walking, "visit")' \/ On(B!Walking, "restore")' => at'.step # "reset"
  BY DEF On
<1>4. BackupTypes'
  BY <1>2, <1>3 DEF BackupTypes
<1>5. RestoreIsUndone' /\ BlockIsUndone'
  BY <1>2 DEF RestoreIsUndone, BlockIsUndone
<1>6. Faithful' => WalkIsUndone'
  BY <1>3 DEF WalkIsUndone, Elems
<1> QED BY <1>1, <1>4, <1>5, <1>6 DEF BackupInv

LEMMA RestoreGoesOn ==
    ASSUME ~Ended, Head(at.plan) \in B!RestoreTests, IsRun', at'.plan = at.plan,
           at'.step \in {"restore", "undo", "model"}, device' \in BackupDevice, IsNotes(noted)',
           Faithful' => /\ noted'.original = Found
                        /\ at'.step = "restore" =>
                               AsFound(device)' /\ \A k \in DOMAIN noted'.data : k[2] # "members"
                        /\ at'.step = "model" => AsFound(device)'
                        /\ at'.step = "undo" => Rewritten(device', B!Rebuild)
    PROVE  BackupInv'
<1>1. /\ ~Ended' /\ Head(at'.plan) \notin B!Walking /\ Head(at'.plan) \notin B!BlockTests
  BY TestsApart DEF Ended
<1>2. \A step : ~On(B!Walking, step)' /\ ~On(B!BlockTests, step)'
  BY <1>1 DEF On
<1>3. /\ On(B!RestoreTests, "restore")' => at'.step = "restore"
      /\ On(B!RestoreTests, "undo")' => at'.step = "undo"
      /\ On(B!RestoreTests, "model")' => at'.step = "model"
  BY DEF On
<1>4. BackupTypes'
  BY <1>2 DEF BackupTypes
<1>5. WalkIsUndone' /\ BlockIsUndone'
  BY <1>2 DEF WalkIsUndone, BlockIsUndone
<1>6. B!Rebuild' = B!Rebuild
  BY DEF B!Rebuild
<1>7. Faithful' => RestoreIsUndone'
  BY <1>3, <1>6 DEF RestoreIsUndone, AsFound
<1> QED BY <1>1, <1>4, <1>5, <1>7 DEF BackupInv

LEMMA BlocksGoOn ==
    ASSUME ~Ended, Head(at.plan) \in B!BlockTests, IsRun', at'.plan = at.plan,
           at'.step \in {"visit", "restore", "undo"}, device' \in BackupDevice, IsNotes(noted)',
           at'.step # "undo" => at'.todo \in Seq(B!Block) /\ Complete(noted'.data),
           at'.step = "restore" => at'.todo # <<>>,
           Faithful' => BlockIsUndone'
    PROVE  BackupInv'
<1>1. /\ ~Ended' /\ Head(at'.plan) \notin B!Walking /\ Head(at'.plan) \notin B!RestoreTests
  BY TestsApart DEF Ended
<1>2. \A step : ~On(B!Walking, step)' /\ ~On(B!RestoreTests, step)'
  BY <1>1 DEF On
<1>3. /\ On(B!BlockTests, "visit")' \/ On(B!BlockTests, "restore")' => at'.step # "undo"
      /\ On(B!BlockTests, "restore")' => at'.step = "restore"
  BY DEF On
<1>4. BackupTypes'
  BY <1>2, <1>3 DEF BackupTypes, Complete
<1>5. WalkIsUndone' /\ RestoreIsUndone'
  BY <1>2 DEF WalkIsUndone, RestoreIsUndone
<1> QED BY <1>1, <1>4, <1>5 DEF BackupInv

\* What is booked changes only results.
LEMMA BookParts ==
    ASSUME IsNotes(noted), NEW errors \in SUBSET B!Result, NEW checked \in SUBSET B!Result,
           NEW warnings \in SUBSET B!Result, NEW n, n = B!Book(errors, checked, warnings)
    PROVE  /\ IsNotes(n) /\ n.done = noted.done /\ n.target = noted.target /\ n.first = noted.first
           /\ n.original = noted.original /\ n.data = noted.data
<1> DEFINE e == noted.errors \cup errors  c == noted.checked \cup checked  w == noted.warnings \cup warnings
<1>1. n = [noted EXCEPT !.errors = e, !.checked = c, !.warnings = w]
  BY DEF B!Book
<1>2. e \cup c \cup w \subseteq B!Result
  BY DEF IsNotes
<1> HIDE DEF e, c, w
<1> QED BY <1>1, <1>2 DEF IsNotes

LEMMA NotesWith ==
    ASSUME NEW n, IsNotes(n), NEW original, NEW data, IsDataSet(original), IsDataSet(data),
           NEW target \in B!Block
    PROVE  /\ IsNotes([n EXCEPT !.data = data]) /\ IsNotes([n EXCEPT !.first = data])
           /\ IsNotes([n EXCEPT !.original = original, !.data = data])
           /\ IsNotes([n EXCEPT !.data = data, !.target = target])
           /\ IsNotes([n EXCEPT !.original = original, !.data = data, !.target = target])
<1>1. IsNotes([n EXCEPT !.data = data])
  BY DEF IsNotes
<1>2. IsNotes([n EXCEPT !.first = data])
  BY DEF IsNotes
<1>a. PICK o : o = [n EXCEPT !.original = original]
  OBVIOUS
<1>b. PICK m : m = [n EXCEPT !.data = data]
  OBVIOUS
<1>c. PICK l : l = [o EXCEPT !.data = data]
  OBVIOUS
<1>d. IsNotes(o)
  BY <1>a DEF IsNotes
<1>e. IsNotes(l)
  BY <1>c, <1>d DEF IsNotes
<1>3. IsNotes([n EXCEPT !.original = original, !.data = data])
  BY <1>a, <1>c, <1>e
<1>f. IsNotes(m)
  BY <1>1, <1>b
<1>4. IsNotes([n EXCEPT !.data = data, !.target = target])
  <2>1. IsNotes([m EXCEPT !.target = target])
    BY <1>f DEF IsNotes
  <2> QED BY <1>b, <2>1
<1>5. IsNotes([n EXCEPT !.original = original, !.data = data, !.target = target])
  <2>1. IsNotes([l EXCEPT !.target = target])
    BY <1>e DEF IsNotes
  <2> QED BY <1>a, <1>c, <2>1
<1> QED BY <1>1, <1>2, <1>3, <1>4, <1>5

LEMMA AnewParts ==
    ASSUME IsNotes(noted)
    PROVE  /\ IsNotes(B!Anew) /\ B!Anew.first = noted.first /\ B!Anew.done = noted.done
<1> DEFINE e == noted.errors \ {"own"}  c == noted.checked \ {"own"}  w == noted.warnings \ {"own"}
<1>1. B!Anew = [noted EXCEPT !.errors = e, !.checked = c, !.warnings = w]
  BY DEF B!Anew
<1>2. e \cup c \cup w \subseteq B!Result
  BY DEF IsNotes
<1> HIDE DEF e, c, w
<1> QED BY <1>1, <1>2 DEF IsNotes

LEMMA NothingIsNoted == IsNotes(B!NothingNoted)
<1> DEFINE none == <<>>
<1>1. IsDataSet(none)
  <2>1. DOMAIN none = {}
    OBVIOUS
  <2> HIDE DEF none
  <2> QED BY <2>1 DEF IsDataSet
<1> HIDE DEF none
<1>2. B!NothingNoted = [errors |-> {}, checked |-> {}, warnings |-> {}, done |-> FALSE,
                        target |-> Root, first |-> none, original |-> none, data |-> none]
  BY DEF B!NothingNoted, none
<1> QED BY <1>1, <1>2, BackupValues DEF IsNotes

LEMMA BackupBegins == B!Init => BackupInv
<1> SUFFICES ASSUME B!Init PROVE BackupInv
  OBVIOUS
<1>1. PICK plan : at = Position(plan)
  BY BackupRun DEF B!Init
<1>2. IsRun /\ at.step = "begin"
  BY <1>1, BackupRun, RunBegins DEF B!Init
<1>3. IsNotes(noted)
  BY NothingIsNoted DEF B!Init
<1>4. device \in BackupDevice /\ AsFound(device)
  <2> DEFINE zeros == [o \in B!Universe |-> 0]
  <2>1. PICK m \in B!Mistake, r \in Rebuildables, l \in {{}, {Root}}, st \in BOOLEAN,
             ls \in {"nothing", "one"} :
           device = [label |-> zeros, fixed |-> zeros, has |-> B!Original, mistake |-> m,
                     rebuildable |-> r, locked |-> l, structure |-> st, loses |-> ls]
    BY DEF B!Init, B!Devices, B!Untouched
  <2>2. /\ zeros \in [B!Universe -> 0..B!Incorrect] /\ zeros \in [B!Universe -> 0..2]
        /\ \A o \in B!Original : zeros[o] = 0
    BY BackupValues DEF B!Incorrect
  <2>3. r \in SUBSET (B!Original \ {Root}) /\ l \in SUBSET {Root} /\ B!Original \in SUBSET B!Universe
        /\ ls \in {"nothing", "one", "lost"}
    BY BackupValues
  <2> HIDE DEF zeros
  <2> QED BY <2>1, <2>2, <2>3 DEF BackupDevice, AsFound
<1>5. \A tests : /\ ~On(tests, "visit") /\ ~On(tests, "restore") /\ ~On(tests, "reset")
                /\ ~On(tests, "undo") /\ ~On(tests, "model")
  BY <1>2 DEF On
<1>6. BackupTypes
  BY <1>2, <1>3, <1>4, <1>5 DEF BackupTypes
<1>7. WalkIsUndone /\ RestoreIsUndone /\ BlockIsUndone
  BY <1>5 DEF WalkIsUndone, RestoreIsUndone, BlockIsUndone
<1> QED BY <1>4, <1>6, <1>7 DEF BackupInv

--------------------
(* IS-14: the steps of the walk.                                            *)

LEMMA PathsParts ==
    ASSUME device \in BackupDevice
    PROVE  /\ B!Paths \in Seq(Path) /\ B!Paths # <<>>
           /\ Root \in device.has => \A e \in Elems(B!Paths) : e[1] \in device.has
<1> DEFINE some == Select(Listed, device.has \ {Root})
           targets == Append(some, Root)
           paths == [n \in 1..2 * Len(targets) |-> <<targets[(n + 1) \div 2], n % 2 = 1>>]
<1>1. B!Paths = paths
  BY BackupRun DEF B!Paths
<1>2. some \in Seq(B!Universe) /\ Elems(some) = B!Universe \cap (device.has \ {Root})
  BY BackupValues, SelectParts
<1>3. Root \in B!Universe
  BY BackupValues
<1> HIDE DEF some
<1>4. targets \in Seq(B!Universe) /\ Elems(targets) = Elems(some) \cup {Root} /\ Len(targets) = Len(some) + 1
      /\ Len(some) \in Nat
  BY <1>2, <1>3, AppendParts
<1> HIDE DEF targets
<1>5. PICK N \in Nat : N = Len(targets) /\ N > 0
  BY <1>4
<1>6. ASSUME NEW n \in 1..2 * N PROVE (n + 1) \div 2 \in 1..N
  BY <1>5
<1>7. ASSUME NEW n \in 1..2 * N
      PROVE  targets[(n + 1) \div 2] \in B!Universe /\ targets[(n + 1) \div 2] \in Elems(targets)
  <2> DEFINE i == (n + 1) \div 2
  <2>1. i \in 1..Len(targets)
    BY <1>5, <1>6
  <2> HIDE DEF i
  <2>2. targets[i] \in B!Universe /\ targets[i] \in Elems(targets)
    BY <1>4, <2>1 DEF Elems
  <2> QED BY <2>2 DEF i
<1> DEFINE on(n) == n % 2 = 1  target(n) == targets[(n + 1) \div 2]
<1>8. paths = [n \in 1..2 * N |-> <<target(n), on(n)>>]
  BY <1>5
<1>9. \A n \in 1..2 * N : on(n) \in BOOLEAN /\ target(n) \in B!Universe /\ target(n) \in Elems(targets)
  BY <1>7
<1> HIDE DEF on, target, paths
<1>10. \A n \in 1..2 * N : <<target(n), on(n)>> \in Path
  BY <1>9 DEF Path
<1>11. 2 * N \in Nat /\ 2 * N # 0
  BY <1>5
<1>12. paths \in Seq(Path) /\ Len(paths) = 2 * N
  BY <1>8, <1>10, <1>11
<1>13. paths # <<>>
  <2>1. Len(paths) # 0 => paths # <<>>
    OBVIOUS
  <2> QED BY <1>11, <1>12, <2>1
<1>14. \A e \in Elems(paths) : e[1] \in Elems(targets)
  BY <1>8, <1>9, <1>12 DEF Elems
<1>15. Root \in device.has => Elems(targets) \subseteq device.has
  BY <1>2, <1>4
<1> QED BY <1>1, <1>12, <1>13, <1>14, <1>15

LEMMA WalkBeginsStep ==
    ASSUME BackupInv, B!WalkBegins
    PROVE  BackupInv'
<1>1. On(B!Walking, "begin") /\ device' = device /\ B!Visit(B!Paths)
      /\ noted' = [noted EXCEPT !.first = B!Backup(device, Root)]
  BY BackupRun DEF B!WalkBegins
<1>2. device \in BackupDevice /\ IsNotes(noted) /\ IsRun
  BY DEF BackupInv, BackupTypes
<1>3. PICK paths : paths = B!Paths
  OBVIOUS
<1>4. at' = [at EXCEPT !.step = "visit", !.todo = paths, !.tries = 0] /\ verdict' = verdict
  BY <1>1, <1>2, <1>3, PathsParts DEF B!Visit
<1>5. IsRun' /\ at'.step = "visit" /\ at'.plan = at.plan /\ at'.todo = paths
  BY <1>2, <1>4, TestGoesOn
<1>6. PICK first : first = B!Backup(device, Root)
  OBVIOUS
<1>7. IsDataSet(first)
  BY <1>2, <1>6, BackupParts
<1>8. IsNotes(noted)' /\ noted'.first = first
  BY <1>1, <1>2, <1>6, <1>7 DEF IsNotes
<1>9. ASSUME Faithful'
      PROVE  Relabelled(device)' /\ noted'.first = Found /\ \A e \in Elems(at'.todo) : e[1] \in B!Original
  <2>1. AsFound(device)
    BY <1>1, <1>9 DEF BackupInv, Faithful, Apart, On
  <2>2. Relabelled(device)' /\ device.has = B!Original
    BY <1>1, <2>1 DEF Relabelled, AsFound
  <2> QED BY <1>2, <1>3, <1>5, <1>6, <1>8, <2>1, <2>2, BackupValues, FoundIsBackup, PathsParts
<1>10. ~Ended /\ Head(at.plan) \in B!Walking /\ device' \in BackupDevice
  BY <1>1, <1>2 DEF On
<1> QED BY <1>2, <1>3, <1>5, <1>8, <1>9, <1>10, PathsParts, WalkGoesOn

\* A path's turn ends.
LEMMA NextPathParts ==
    ASSUME IsRun, at.todo \in Seq(Path), at.todo # <<>>, B!NextPath
    PROVE  /\ IsRun' /\ at'.plan = at.plan /\ at'.step \in {"visit", "reset"}
           /\ at'.step # "reset" =>
                  at'.todo \in Seq(Path) /\ at'.todo # <<>> /\ Elems(at'.todo) \subseteq Elems(at.todo)
<1>1. PICK s : s = at.todo
  OBVIOUS
<1>2. s \in Seq(Path) /\ s # <<>>
  BY <1>1
<1> DEFINE t == Tail(s)
<1>3. t \in Seq(Path) /\ Len(t) = Len(s) - 1 /\ Len(s) \in Nat /\ Len(s) >= 1
  BY <1>2
<1>4. Elems(t) \subseteq Elems(s)
  BY <1>2, TailParts
<1> HIDE DEF t
<1>5. Len(s) # 1 => t # <<>>
  <2>1. Len(t) # 0 => t # <<>>
    OBVIOUS
  <2> QED BY <1>3, <2>1
<1>6. CASE Len(s) = 1
  <2>1. Step("reset", 0)
    BY <1>1, <1>6, BackupRun DEF B!NextPath
  <2> QED BY <2>1, TestSteps
<1>7. CASE Len(s) # 1
  <2>1. at' = [at EXCEPT !.step = "visit", !.todo = t] /\ verdict' = verdict
    BY <1>1, <1>7 DEF B!NextPath, t
  <2>2. IsRun' /\ at'.step = "visit" /\ at'.plan = at.plan /\ at'.todo = t
    BY <2>1, TestGoesOn
  <2> QED BY <1>1, <1>3, <1>4, <1>5, <1>7, <2>2 DEF Elems
<1> QED BY <1>6, <1>7

LEMMA WalkTurn ==
    ASSUME BackupInv, On(B!Walking, "visit") \/ On(B!Walking, "restore")
    PROVE  /\ IsRun /\ device \in BackupDevice /\ IsNotes(noted)
           /\ at.todo \in Seq(Path) /\ at.todo # <<>> /\ Subject \in Path /\ ~Ended
           /\ Head(at.plan) \in B!Walking
           /\ Faithful => /\ Relabelled(device) /\ noted.first = Found
                          /\ Subject[1] \in B!Original /\ \A e \in Elems(at.todo) : e[1] \in B!Original
<1>1. PICK s : s = at.todo
  OBVIOUS
<1>2. s \in Seq(Path) /\ s # <<>>
  BY <1>1 DEF BackupInv, BackupTypes
<1>3. Head(s) \in Path /\ Head(s) \in Elems(s)
  BY <1>2, TailParts
<1> QED BY <1>1, <1>2, <1>3 DEF BackupInv, BackupTypes, WalkIsUndone, Subject, On

LEMMA NotFoundStep ==
    ASSUME BackupInv, B!NotFound
    PROVE  BackupInv'
<1>1. On(B!Walking, "visit") /\ Subject[1] \notin device.has /\ Conclude("FAIL")
      /\ device' = device /\ noted' = noted
  BY BackupRun DEF B!NotFound
<1>2. ~Faithful'
  BY <1>1, WalkTurn DEF Faithful, Apart, Relabelled
<1> QED BY <1>1, <1>2, WalkTurn, BackupVerdicts, BackupConcludes DEF BackupInv, IsNotes

LEMMA ValidatedParts ==
    ASSUME NEW d \in BackupDevice, NEW data, IsDataSet(data), NEW t, NEW rebuild, NEW recurse,
           NEW v, v = B!Validated(d, data, t, rebuild, recurse)
    PROVE  /\ v \in BackupDevice /\ v.mistake = d.mistake /\ v.rebuildable = d.rebuildable
           /\ v.loses = d.loses /\ (d.mistake = <<"none">> => v = d)
<1>1. CASE d.mistake[1] = "validates"
  <2>1. v = B!Restored(d, data, t, rebuild, recurse)
    BY <1>1 DEF B!Validated
  <2> QED BY <1>1, <2>1, RestoredParts
<1>2. CASE d.mistake[1] # "validates"
  BY <1>2 DEF B!Validated
<1> QED BY <1>1, <1>2

\* Of a data set: the properties of some objects, with values changed, and without some.
LEMMA ChangedParts ==
    ASSUME NEW data, IsDataSet(data), NEW keys, \A k \in keys : k[2] # "members",
           NEW some, some = B!Only(data, keys)
    PROVE  /\ IsDataSet([k \in DOMAIN some |-> B!Changed(some[k])])
           /\ \A k \in DOMAIN some : k[2] # "members"
<1>1. DOMAIN some = DOMAIN data \cap keys /\ \A k \in DOMAIN some : some[k] = data[k]
  BY DEF B!Only
<1>2. \A v : B!Changed(v) \in 0..2 /\ B!Changed(v) \in 0..B!Incorrect
  BY DEF B!Changed, B!Incorrect
<1> QED BY <1>1, <1>2 DEF IsDataSet

LEMMA WithoutParts ==
    ASSUME NEW data, IsDataSet(data), NEW keys
    PROVE  IsDataSet(B!Without(data, keys)) /\ DOMAIN B!Without(data, keys) \subseteq DOMAIN data
<1>1. /\ DOMAIN B!Without(data, keys) = DOMAIN data \ keys
      /\ \A k \in DOMAIN data \ keys : B!Without(data, keys)[k] = data[k]
  BY DEF B!Without
<1> QED BY <1>1 DEF IsDataSet

LEMMA IfParts == \A cond, result : result \in B!Result => B!If(cond, result) \in SUBSET B!Result
BY DEF B!If

LEMMA ValidateLabelsStep ==
    ASSUME BackupInv, B!ValidateLabels
    PROVE  BackupInv'
<1>0. PICK no \in BOOLEAN : no = FALSE
  OBVIOUS
<1> DEFINE target == Subject[1]  recurse == Subject[2]
           original == B!Backup(device, target)
           labels == B!Only(original, B!Universe \X {"label"})
           data == [k \in DOMAIN labels |-> B!Changed(labels[k])]
           answer == B!Answer(device, data, target, FALSE, recurse)
           after == B!Validated(device, data, target, no, recurse)
           modified == B!CompareFails(original, data, B!Backup(after, target), target,
                                      answer.notices, recurse, TRUE)
           errors == B!If(modified, "validate modifies")
                         \cup B!If(B!ObjectsWrong(data, answer, target, recurse), "validate objects")
           checked == {"validate type", "validate objects", "validate modifies"}
           book == B!Book(errors, checked, {})
<1>1. /\ On(B!Walking, "visit") /\ device' = after
      /\ noted' = [book EXCEPT !.original = original, !.data = data]
      /\ B!NextPath \/ Step("restore", 0)
  <2>1. B!On(B!Walking, "visit") /\ B!Subject = Subject /\ (B!Goto("restore") <=> Step("restore", 0))
    BY BackupRun DEF B!ValidateLabels
  <2> QED BY <1>0, <2>1, BackupRun DEF B!ValidateLabels
<1>2. /\ IsRun /\ device \in BackupDevice /\ IsNotes(noted)
      /\ at.todo \in Seq(Path) /\ at.todo # <<>> /\ ~Ended /\ Head(at.plan) \in B!Walking
      /\ Faithful => /\ Relabelled(device) /\ noted.first = Found
                     /\ \A e \in Elems(at.todo) : e[1] \in B!Original
  BY <1>1, WalkTurn
<1>3. IsDataSet(original)
  BY <1>2, BackupParts
<1>4. IsDataSet(data)
  <2> HIDE DEF original
  <2> QED BY <1>3, ChangedParts
<1>5. errors \in SUBSET B!Result /\ checked \in SUBSET B!Result
  <2> HIDE DEF modified, data, answer, target, recurse
  <2>1. checked \in SUBSET B!Result
    BY DEF B!Result
  <2> QED BY <2>1, IfParts
<1> HIDE DEF data, answer, modified, errors, checked, original
<1>6. /\ after \in BackupDevice /\ after.mistake = device.mistake /\ after.rebuildable = device.rebuildable
      /\ after.loses = device.loses /\ (device.mistake = <<"none">> => after = device)
  BY <1>2, <1>4, ValidatedParts
<1>7. IsNotes(book) /\ book.first = noted.first
  <2>1. {} \in SUBSET B!Result
    OBVIOUS
  <2> QED BY <1>2, <1>5, <2>1, BookParts
<1> HIDE DEF after, book
<1>8. IsNotes(noted)' /\ noted'.first = noted.first
  <2>1. IsNotes([book EXCEPT !.original = original, !.data = data])
    BY <1>3, <1>4, <1>7, BackupValues, NotesWith
  <2>2. [book EXCEPT !.original = original, !.data = data].first = book.first
    BY <1>7 DEF IsNotes
  <2> QED BY <1>1, <1>7, <2>1, <2>2
<1>9. SameMake /\ device' \in BackupDevice
  BY <1>1, <1>6 DEF SameMake
<1>10. Faithful' => /\ Relabelled(device)' /\ noted'.first = Found
                    /\ \A e \in Elems(at.todo) : e[1] \in B!Original
  <2> SUFFICES ASSUME Faithful' PROVE /\ Relabelled(device)' /\ noted'.first = Found
                                      /\ \A e \in Elems(at.todo) : e[1] \in B!Original
    OBVIOUS
  <2>1. Faithful
    BY <1>9, SameFaith
  <2>2. device' = device
    BY <1>1, <1>6, <2>1 DEF Faithful
  <2> QED BY <1>2, <1>8, <2>1, <2>2 DEF Relabelled
<1>11. /\ IsRun' /\ at'.plan = at.plan /\ at'.step \in {"visit", "restore", "reset"}
       /\ at'.step # "reset" =>
              at'.todo \in Seq(Path) /\ at'.todo # <<>> /\ Elems(at'.todo) \subseteq Elems(at.todo)
  <2>1. CASE B!NextPath
    BY <1>2, <2>1, NextPathParts
  <2>2. CASE Step("restore", 0)
    <3>1. IsRun' /\ at'.step = "restore" /\ at'.plan = at.plan /\ at'.todo = at.todo
      BY <1>2, <2>2, TestSteps
    <3> QED BY <1>2, <3>1
  <2> QED BY <1>1, <2>1, <2>2
<1> QED BY <1>2, <1>8, <1>9, <1>10, <1>11, WalkGoesOn

LEMMA RestoreLabelsStep ==
    ASSUME BackupInv, B!RestoreLabels
    PROVE  BackupInv'
<1>0. PICK no \in BOOLEAN : no = FALSE
  OBVIOUS
<1> DEFINE target == Subject[1]  recurse == Subject[2]  data == noted.data
           answer == B!Answer(device, data, target, FALSE, recurse)
           after == B!Restored(device, data, target, no, recurse)
           failed == B!CompareFails(noted.original, data, B!Backup(after, target), target,
                                    answer.notices, recurse, FALSE)
           errors == B!If(failed, "restore modifies")
                         \cup B!If(B!ObjectsWrong(data, answer, target, recurse), "restore objects")
           checked == {"restore type", "restore objects", "restore modifies"}
           book == B!Book(errors, checked, {})
<1>1. /\ On(B!Walking, "restore") /\ device' = after /\ noted' = book
      /\ IF target \in after.has THEN B!NextPath ELSE Conclude("FAIL")
  <2>1. B!On(B!Walking, "restore") /\ B!Subject = Subject /\ (B!Conclude("FAIL") <=> Conclude("FAIL"))
    BY BackupRun DEF B!RestoreLabels
  <2> QED BY <1>0, <2>1, BackupRun DEF B!RestoreLabels
<1>2. /\ IsRun /\ device \in BackupDevice /\ IsNotes(noted) /\ Subject \in Path
      /\ at.todo \in Seq(Path) /\ at.todo # <<>> /\ ~Ended /\ Head(at.plan) \in B!Walking
      /\ Faithful => /\ Relabelled(device) /\ noted.first = Found
                     /\ Subject[1] \in B!Original /\ \A e \in Elems(at.todo) : e[1] \in B!Original
  BY <1>1, WalkTurn
<1>3. IsDataSet(data) /\ recurse \in BOOLEAN
  BY <1>2 DEF IsNotes, Path
<1>4. errors \in SUBSET B!Result /\ checked \in SUBSET B!Result
  <2> HIDE DEF failed, data, answer, target, recurse
  <2>1. checked \in SUBSET B!Result
    BY DEF B!Result
  <2>2. "restore modifies" \in B!Result /\ "restore objects" \in B!Result
    BY DEF B!Result
  <2> HIDE DEF checked
  <2> QED BY <2>1, <2>2, IfParts
<1> HIDE DEF data, answer, failed, errors, checked
<1>5. /\ after \in BackupDevice /\ after.mistake = device.mistake /\ after.rebuildable = device.rebuildable
      /\ after.loses = device.loses
  BY <1>2, <1>3, RestoredParts
<1>6. device.mistake = <<"none">> /\ Relabelled(device) => Relabelled(after)
  BY <1>0, <1>2, <1>3, RelabelParts
<1>7. IsNotes(book) /\ book.first = noted.first
  <2>1. {} \in SUBSET B!Result
    OBVIOUS
  <2> QED BY <1>2, <1>4, <2>1, BookParts
<1> HIDE DEF after, book
<1>8. IsNotes(noted)' /\ noted'.first = noted.first
  BY <1>1, <1>7
<1>9. SameMake /\ device' \in BackupDevice
  BY <1>1, <1>5 DEF SameMake
<1>10. Faithful' => /\ Relabelled(device)' /\ noted'.first = Found /\ target \in after.has
                    /\ \A e \in Elems(at.todo) : e[1] \in B!Original
  <2> SUFFICES ASSUME Faithful' PROVE /\ Relabelled(device)' /\ noted'.first = Found /\ target \in after.has
                                      /\ \A e \in Elems(at.todo) : e[1] \in B!Original
    OBVIOUS
  <2>1. Faithful
    BY <1>9, SameFaith
  <2>2. Relabelled(after)
    BY <1>2, <1>6, <2>1 DEF Faithful
  <2> QED BY <1>1, <1>2, <1>8, <2>1, <2>2 DEF Relabelled
<1>11. CASE B!NextPath /\ target \in after.has
  <2>1. /\ IsRun' /\ at'.plan = at.plan /\ at'.step \in {"visit", "restore", "reset"}
        /\ at'.step # "reset" =>
               at'.todo \in Seq(Path) /\ at'.todo # <<>> /\ Elems(at'.todo) \subseteq Elems(at.todo)
    BY <1>2, <1>11, NextPathParts
  <2> QED BY <1>2, <1>8, <1>9, <1>10, <2>1, WalkGoesOn
<1>12. CASE Conclude("FAIL") /\ target \notin after.has
  BY <1>8, <1>9, <1>10, <1>12, BackupVerdicts, BackupConcludes DEF BackupInv
<1> QED BY <1>1, <1>11, <1>12

LEMMA WalkResetStep ==
    ASSUME BackupInv, B!Reset
    PROVE  BackupInv'
<1>0. PICK no \in BOOLEAN : no = FALSE
  OBVIOUS
<1>00. PICK yes \in BOOLEAN : yes = TRUE
  OBVIOUS
<1> DEFINE after == B!Restored(device, noted.first, Root, no, yes)
           checked == noted.checked \cup {"restore type"}
<1>1. /\ On(B!Walking, "reset") /\ device' = after
      /\ noted' = [noted EXCEPT !.done = TRUE, !.checked = checked] /\ Step("begin", 0)
  BY <1>0, <1>00, BackupRun DEF B!Reset
<1>2. IsRun /\ device \in BackupDevice /\ IsNotes(noted) /\ IsDataSet(noted.first)
  BY DEF BackupInv, BackupTypes, IsNotes
<1>3. /\ after \in BackupDevice /\ after.mistake = device.mistake /\ after.rebuildable = device.rebuildable
      /\ after.loses = device.loses
  BY <1>2, RestoredParts
<1>4. device.mistake = <<"none">> /\ Rewritten(device, no) => AsFound(B!Restored(device, Found, Root, no, TRUE))
  BY <1>2, UndoParts
<1>5. Faithful => AsFound(after)
  BY <1>0, <1>00, <1>1, <1>4, RelabelledIsRewritten DEF BackupInv, WalkIsUndone, Faithful
<1>6. checked \in SUBSET B!Result
  BY <1>2 DEF IsNotes, B!Result
<1> HIDE DEF after, checked
<1>7. IsNotes(noted)'
  BY <1>1, <1>2, <1>6 DEF IsNotes
<1>8. IsRun' /\ at'.step = "begin"
  BY <1>1, <1>2, TestSteps
<1>9. \A tests : \A step \in {"visit", "restore", "reset", "undo", "model"} : ~On(tests, step)'
  BY <1>8 DEF On
<1>10. BackupTypes' /\ SameMake
  BY <1>1, <1>3, <1>7, <1>8, <1>9 DEF BackupTypes, SameMake
<1>11. WalkIsUndone' /\ RestoreIsUndone' /\ BlockIsUndone'
  BY <1>9 DEF WalkIsUndone, RestoreIsUndone, BlockIsUndone
<1> QED BY <1>1, <1>5, <1>10, <1>11, SameFaith DEF BackupInv, AsFound

\* A test that ends where it begins: one that only judges, does nothing or only asks.
LEMMA BackupEnds ==
    ASSUME BackupInv, Ended \/ at.step = "begin", NEW v \in Verdict, Conclude(v), device' = device,
           IsNotes(noted)'
    PROVE  BackupInv'
<1>1. device' \in BackupDevice /\ SameMake
  BY DEF BackupInv, BackupTypes, SameMake
<1>2. Faithful' => AsFound(device)'
  BY <1>1, SameFaith DEF BackupInv, AsFound
<1> QED BY <1>1, <1>2, BackupConcludes DEF BackupInv

LEMMA BackupJudges ==
    ASSUME BackupInv, B!SetUp \/ B!TearDown \/ B!JudgeWalk \/ B!NotInvasive
    PROVE  BackupInv'
<1>1. IsNotes(noted)
  BY DEF BackupInv, BackupTypes
<1>2. /\ at.step = "begin" /\ device' = device /\ (noted' = noted \/ noted' = B!NothingNoted)
      /\ \E v \in {"PASS", "FAIL", "UNCLEAR", "DISABLED"} : Conclude(v)
  BY BackupRun DEF B!SetUp, B!TearDown, B!JudgeWalk, B!NotInvasive, On
<1>3. IsNotes(noted)'
  BY <1>1, <1>2, NothingIsNoted
<1> QED BY <1>2, <1>3, BackupVerdicts, BackupEnds

LEMMA IncorrectStep ==
    ASSUME BackupInv, B!IncorrectValues
    PROVE  BackupInv'
<1>0. PICK no \in BOOLEAN : no = FALSE
  OBVIOUS
<1>00. PICK yes \in BOOLEAN : yes = TRUE
  OBVIOUS
<1> DEFINE labels == B!Only(B!Backup(device, Root), B!IncorrectOf(Head(at.plan)))
           data == [k \in DOMAIN labels |-> B!Incorrect]
           after == B!Validated(device, data, Root, no, yes)
<1>1. /\ at.step = "begin" /\ noted' = noted /\ (device' = device \/ device' = after)
      /\ \E v \in {"PASS", "FAIL", "UNCLEAR"} : Conclude(v)
  BY <1>0, <1>00, BackupRun DEF B!IncorrectValues, On
<1>2. device \in BackupDevice /\ IsNotes(noted)
  BY DEF BackupInv, BackupTypes
<1>3. IsDataSet(data)
  <2>1. IsDataSet(B!Backup(device, Root))
    BY <1>2, BackupParts
  <2>2. \A k \in DOMAIN labels : k \in DOMAIN B!Backup(device, Root) /\ k[2] = "label"
    BY DEF B!Only, B!IncorrectOf
  <2> HIDE DEF labels
  <2> QED BY <2>1, <2>2 DEF IsDataSet, B!Incorrect
<1> HIDE DEF data
<1>4. /\ after \in BackupDevice /\ after.mistake = device.mistake /\ after.rebuildable = device.rebuildable
      /\ after.loses = device.loses /\ (device.mistake = <<"none">> => after = device)
  BY <1>2, <1>3, ValidatedParts
<1> HIDE DEF after
<1>5. SameMake /\ device' \in BackupDevice /\ (device.mistake = <<"none">> => device' = device)
  BY <1>1, <1>2, <1>4 DEF SameMake
<1>6. Faithful' => AsFound(device)'
  BY <1>1, <1>5, SameFaith DEF BackupInv, AsFound, Faithful
<1> QED BY <1>1, <1>2, <1>5, <1>6, BackupVerdicts, BackupConcludes DEF BackupInv

--------------------
(* IS-14: everything that may be changed is, and changed back.              *)

LEMMA ValidateAllStep ==
    ASSUME BackupInv, B!ValidateAll
    PROVE  BackupInv'
<1>a. PICK yes \in BOOLEAN : yes = TRUE
  OBVIOUS
<1>b. PICK rebuild \in BOOLEAN : rebuild = B!Rebuild
  BY DEF B!Rebuild
<1> DEFINE original == B!Backup(device, Root)
           values == B!Only(original, B!UnderTest(Head(at.plan)))
           data == [k \in DOMAIN values |-> B!Changed(values[k])]
           answer == B!Answer(device, data, Root, B!Rebuild, TRUE)
           left == B!Without(data, answer.notices)
           after == B!Validated(device, data, Root, rebuild, yes)
<1>1. /\ On(B!RestoreTests, "begin") /\ (device' = device \/ device' = after)
      /\ noted' = [B!Anew EXCEPT !.original = original, !.data = left]
      /\ Conclude("UNCLEAR") \/ Step("restore", 0) \/ Step("model", 0)
  <2>1. /\ B!On(B!RestoreTests, "begin") /\ (B!Conclude("UNCLEAR") <=> Conclude("UNCLEAR"))
        /\ (B!Goto("restore") <=> Step("restore", 0)) /\ (B!Goto("model") <=> Step("model", 0))
    BY BackupRun DEF B!ValidateAll
  <2> QED BY <1>a, <1>b, <2>1, BackupRun DEF B!ValidateAll
<1>2. IsRun /\ device \in BackupDevice /\ IsNotes(noted)
  BY DEF BackupInv, BackupTypes
<1>3. IsDataSet(original)
  BY <1>2, BackupParts
<1>4. \A k \in B!UnderTest(Head(at.plan)) : k[2] # "members"
  BY <1>1 DEF B!UnderTest, B!RestoreTests, On
<1>5. IsDataSet(data) /\ \A k \in DOMAIN data : k[2] # "members"
  <2> HIDE DEF original
  <2> QED BY <1>3, <1>4, ChangedParts
<1>6. IsDataSet(left) /\ \A k \in DOMAIN left : k[2] # "members"
  <2> HIDE DEF data, answer
  <2> QED BY <1>5, WithoutParts
<1> HIDE DEF data, answer, left, original
<1>7. /\ after \in BackupDevice /\ after.mistake = device.mistake /\ after.rebuildable = device.rebuildable
      /\ after.loses = device.loses /\ (device.mistake = <<"none">> => after = device)
  BY <1>2, <1>5, ValidatedParts
<1> HIDE DEF after
<1>8. IsNotes(noted)' /\ noted'.original = original /\ noted'.data = left
  <2>1. IsNotes([B!Anew EXCEPT !.original = original, !.data = left])
    BY <1>2, <1>3, <1>6, AnewParts, BackupValues, NotesWith
  <2>2. /\ [B!Anew EXCEPT !.original = original, !.data = left].original = original
        /\ [B!Anew EXCEPT !.original = original, !.data = left].data = left
    BY <1>2, AnewParts DEF IsNotes
  <2> QED BY <1>1, <2>1, <2>2
<1>9. SameMake /\ device' \in BackupDevice /\ (device.mistake = <<"none">> => device' = device)
  BY <1>1, <1>2, <1>7 DEF SameMake
<1>10. Faithful' => AsFound(device)' /\ noted'.original = Found
  <2> SUFFICES ASSUME Faithful' PROVE AsFound(device)' /\ noted'.original = Found
    OBVIOUS
  <2>1. Faithful /\ device' = device
    BY <1>9, SameFaith DEF Faithful
  <2>2. AsFound(device)
    BY <1>1, <2>1 DEF BackupInv, On
  <2>3. original = Found
    BY <1>2, <2>2, FoundIsBackup DEF original
  <2> QED BY <1>8, <2>1, <2>2, <2>3 DEF AsFound
<1>11. CASE Conclude("UNCLEAR")
  BY <1>8, <1>9, <1>10, <1>11, BackupVerdicts, BackupConcludes DEF BackupInv
<1>12. CASE Step("restore", 0)
  <2>1. IsRun' /\ at'.step = "restore" /\ at'.plan = at.plan
    BY <1>2, <1>12, TestSteps
  <2>2. ~Ended /\ Head(at.plan) \in B!RestoreTests
    BY <1>1 DEF On
  <2> QED BY <1>6, <1>8, <1>9, <1>10, <2>1, <2>2, RestoreGoesOn
<1>13. CASE Step("model", 0)
  <2>1. IsRun' /\ at'.step = "model" /\ at'.plan = at.plan
    BY <1>2, <1>13, TestSteps
  <2>2. ~Ended /\ Head(at.plan) \in B!RestoreTests
    BY <1>1 DEF On
  <2> QED BY <1>8, <1>9, <1>10, <2>1, <2>2, RestoreGoesOn
<1> QED BY <1>1, <1>11, <1>12, <1>13

LEMMA RestoreAllStep ==
    ASSUME BackupInv, B!RestoreAll
    PROVE  BackupInv'
<1>a. PICK yes \in BOOLEAN : yes = TRUE
  OBVIOUS
<1>b. PICK rebuild \in BOOLEAN : rebuild = B!Rebuild
  BY DEF B!Rebuild
<1> DEFINE data == noted.data
           answer == B!Answer(device, data, Root, B!Rebuild, TRUE)
           after == B!Restored(device, data, Root, rebuild, yes)
           failed == \/ B!ObjectsWrong(data, answer, Root, TRUE)
                     \/ B!CompareFails(noted.original, data, B!Backup(after, Root), Root,
                                       answer.notices, TRUE, FALSE)
           errors == B!If(failed, "own")
           warnings == B!If(B!Warned(answer), "own")
           book == B!Book(errors, {"own"}, warnings)
<1>1. /\ On(B!RestoreTests, "restore") /\ device' = after /\ noted' = book
      /\ IF ~B!Rebuild /\ B!StructureChanged(after) THEN Conclude("FAIL") ELSE Step("undo", 0)
  <2>1. /\ B!On(B!RestoreTests, "restore") /\ (B!Conclude("FAIL") <=> Conclude("FAIL"))
        /\ (B!Goto("undo") <=> Step("undo", 0))
    BY BackupRun DEF B!RestoreAll
  <2> QED BY <1>a, <1>b, <2>1, BackupRun DEF B!RestoreAll
<1>2. IsRun /\ device \in BackupDevice /\ IsNotes(noted) /\ IsDataSet(data)
  BY DEF BackupInv, BackupTypes, IsNotes
<1>3. Faithful => AsFound(device) /\ noted.original = Found /\ \A k \in DOMAIN data : k[2] # "members"
  BY <1>1 DEF BackupInv, RestoreIsUndone
<1> HIDE DEF data, answer, failed
<1>4. errors \in SUBSET B!Result /\ {"own"} \in SUBSET B!Result /\ warnings \in SUBSET B!Result
  <2>1. "own" \in B!Result
    BY DEF B!Result
  <2> QED BY <2>1, IfParts
<1>5. /\ after \in BackupDevice /\ after.mistake = device.mistake /\ after.rebuildable = device.rebuildable
      /\ after.loses = device.loses
  BY <1>2, RestoredParts
<1>6. Faithful => Rewritten(after, rebuild)
  BY <1>a, <1>2, <1>3, RewriteParts DEF Faithful
<1> HIDE DEF errors, warnings
<1>7. IsNotes(book) /\ book.original = noted.original
  BY <1>2, <1>4, BookParts
<1> HIDE DEF after, book
<1>8. SameMake /\ device' \in BackupDevice
  BY <1>1, <1>5 DEF SameMake
<1>9. ASSUME Faithful PROVE ~B!StructureChanged(after)
  <2> SUFFICES ASSUME NEW b \in B!Block PROVE B!MembersOf(after, b) = noted.original[<<b, "members">>]
    BY DEF B!StructureChanged
  <2>1. B!MembersOf(after, b) = Inside(b)
    BY <1>6, <1>9 DEF B!MembersOf, Inside, Rewritten
  <2> QED BY <1>3, <1>9, <2>1, FoundParts
<1>10. CASE Conclude("FAIL") /\ B!StructureChanged(after)
  BY <1>1, <1>7, <1>8, <1>9, <1>10, SameFaith, BackupVerdicts, BackupConcludes DEF BackupInv
<1>11. CASE Step("undo", 0)
  <2>1. IsRun' /\ at'.step = "undo" /\ at'.plan = at.plan
    BY <1>2, <1>11, TestSteps
  <2>2. ~Ended /\ Head(at.plan) \in B!RestoreTests
    BY <1>1 DEF On
  <2>3. Faithful' => noted'.original = Found /\ Rewritten(device', B!Rebuild)
    BY <1>b, <1>1, <1>3, <1>6, <1>7, <1>8, SameFaith
  <2>4. IsNotes(noted)'
    BY <1>1, <1>7
  <2> QED BY <1>8, <2>1, <2>2, <2>3, <2>4, RestoreGoesOn
<1> QED BY <1>1, <1>10, <1>11

LEMMA UndoStep ==
    ASSUME BackupInv, B!Undo
    PROVE  BackupInv'
<1>a. PICK yes \in BOOLEAN : yes = TRUE
  OBVIOUS
<1>b. PICK rebuild \in BOOLEAN : rebuild = B!Rebuild
  BY DEF B!Rebuild
<1> DEFINE after == B!Restored(device, noted.original, Root, rebuild, yes)
<1>1. /\ On(B!RestoreTests, "undo") /\ device' = after /\ noted' = noted
      /\ Conclude(B!OwnResult) \/ Step("model", 0)
  BY <1>a, <1>b, BackupRun DEF B!Undo
<1>2. B!OwnResult \in Verdict
  BY BackupVerdicts DEF B!OwnResult
<1>3. IsRun /\ device \in BackupDevice /\ IsNotes(noted) /\ IsDataSet(noted.original)
  BY DEF BackupInv, BackupTypes, IsNotes
<1>4. /\ after \in BackupDevice /\ after.mistake = device.mistake /\ after.rebuildable = device.rebuildable
      /\ after.loses = device.loses
  BY <1>3, RestoredParts
<1>5. Faithful => noted.original = Found /\ Rewritten(device, rebuild)
  BY <1>b, <1>1 DEF BackupInv, RestoreIsUndone
<1>6. Faithful => AsFound(after)
  BY <1>a, <1>3, <1>5, UndoParts DEF Faithful
<1> HIDE DEF after
<1>7. SameMake /\ device' \in BackupDevice /\ IsNotes(noted)'
  BY <1>1, <1>3, <1>4 DEF SameMake
<1>8. Faithful' => AsFound(device)'
  BY <1>1, <1>6, <1>7, SameFaith DEF AsFound
<1>9. PICK v \in Verdict : v = B!OwnResult
  BY <1>2
<1>10. CASE Conclude(B!OwnResult)
  BY <1>1, <1>7, <1>8, <1>9, <1>10, BackupConcludes DEF BackupInv
<1>11. CASE Step("model", 0)
  <2>1. IsRun' /\ at'.step = "model" /\ at'.plan = at.plan
    BY <1>3, <1>11, TestSteps
  <2>2. ~Ended /\ Head(at.plan) \in B!RestoreTests
    BY <1>1 DEF On
  <2>3. Faithful' => noted'.original = Found
    BY <1>1, <1>5, <1>7, SameFaith
  <2> QED BY <1>7, <1>8, <2>1, <2>2, <2>3, RestoreGoesOn
<1> QED BY <1>1, <1>10, <1>11

LEMMA CheckModelStep ==
    ASSUME BackupInv, B!CheckModel
    PROVE  BackupInv'
<1>1. PICK v \in {"FAIL", B!OwnResult} : Conclude(v)
  BY BackupRun DEF B!CheckModel
<1>2. On(B!RestoreTests, "model") /\ device' = device /\ noted' = noted
  BY BackupRun DEF B!CheckModel
<1>3. v \in Verdict
  BY BackupVerdicts DEF B!OwnResult
<1>4. device' \in BackupDevice /\ IsNotes(noted)'
  BY <1>2 DEF BackupInv, BackupTypes, IsNotes
<1>5. Faithful' => AsFound(device)'
  BY <1>2 DEF BackupInv, RestoreIsUndone, Faithful, Apart, AsFound
<1> QED BY <1>1, <1>3, <1>4, <1>5, BackupConcludes DEF BackupInv


--------------------
(* IS-14: a member of a rebuildable block is removed, or added.             *)

LEMMA FoundIsZero == \A k \in DOMAIN Found : k[2] # "members" => Found[k] = 0
BY DEF Found

LEMMA SeqOf ==
    ASSUME NEW X, NEW Y, NEW s \in Seq(X), Elems(s) \subseteq Y
    PROVE  s \in Seq(Y)
<1>1. s = [i \in 1..Len(s) |-> s[i]] /\ Len(s) \in Nat
  OBVIOUS
<1>2. \A i \in 1..Len(s) : s[i] \in Y
  BY DEF Elems
<1>3. [i \in 1..Len(s) |-> s[i]] \in Seq(Y)
  BY <1>1, <1>2
<1> QED BY <1>1, <1>3

\* The first of the children that are in the data set.
LEMMA ChildParts ==
    ASSUME NEW b \in B!Block, B!Suits(b), NEW child, child = B!Children(b)[1]
    PROVE  /\ b \in B!ObjectsOf(noted.data) /\ child \in B!ObjectsOf(noted.data)
           /\ child \in Below(b) \ {b} /\ child \in B!Universe
<1> DEFINE set == B!ObjectsOf(noted.data) \cap (Below(b) \ {b})
           s == Select(Listed, set)
<1>1. s = B!Children(b) /\ s # <<>> /\ b \in B!ObjectsOf(noted.data)
  BY BackupRun DEF B!Suits, B!Children, Below
<1>2. s \in Seq(B!Universe) /\ Elems(s) = B!Universe \cap set
  BY BackupValues, SelectParts
<1> HIDE DEF s
<1>3. 1 \in 1..Len(s)
  BY <1>1, <1>2
<1>4. s[1] \in Elems(s)
  BY <1>3 DEF Elems
<1> QED BY <1>1, <1>2, <1>4

\* What is in the data set without the first child.
LEMMA RemovedIs ==
    ASSUME IsNotes(noted), Complete(noted.data), NEW b \in B!Block, B!Suits(b),
           NEW data, data = B!Modified(b, "test_24"), NEW child, child = B!Children(b)[1],
           NEW old, old = noted.data
    PROVE  /\ \A k : k \in DOMAIN data <=> k \in DOMAIN old /\ k[1] \in Below(b) /\ k[1] # child
           /\ \A k \in DOMAIN data :
                  data[k] = IF k = <<b, "members">> THEN old[k] \ {child} ELSE old[k]
<1>1. DOMAIN old \subseteq B!Universe \X B!Prop
  BY DEF IsNotes, IsDataSet
<1> DEFINE mine == B!Only(old, Below(b) \X B!Prop)
           less == B!Without(mine, {child} \X B!Prop)
<1>2. data = [less EXCEPT ![<<b, "members">>] = old[<<b, "members">>] \ {child}]
  BY DEF B!Modified, Below
<1>3. DOMAIN mine = {k \in DOMAIN old : k[1] \in Below(b)} /\ \A k \in DOMAIN mine : mine[k] = old[k]
  BY <1>1 DEF B!Only
<1> HIDE DEF mine
<1>4. /\ \A k : k \in DOMAIN less <=> k \in DOMAIN old /\ k[1] \in Below(b) /\ k[1] # child
      /\ \A k \in DOMAIN less : less[k] = old[k]
  BY <1>1, <1>3 DEF B!Without
<1> HIDE DEF less
<1> QED BY <1>2, <1>4

LEMMA RemovedParts ==
    ASSUME IsNotes(noted), Complete(noted.data), NEW b \in B!Block, B!Suits(b),
           NEW data, data = B!Modified(b, "test_24")
    PROVE  IsDataSet(data) /\ Complete(data) /\ (noted.data = Found => Edited(data, b))
<1>1. PICK child : child = B!Children(b)[1]
  OBVIOUS
<1>2. PICK old : old = noted.data
  OBVIOUS
<1>3. IsDataSet(old) /\ Complete(old)
  BY <1>2 DEF IsNotes
<1>4. /\ b \in B!ObjectsOf(old) /\ child \in Below(b) \ {b} /\ child \in B!Universe
  BY <1>1, <1>2, ChildParts
<1> DEFINE keys == {k \in DOMAIN old : k[1] \in Below(b) /\ k[1] # child}
<1>7. DOMAIN data = keys /\ \A k \in keys : data[k] = IF k = <<b, "members">> THEN old[k] \ {child} ELSE old[k]
  <2>1. /\ \A k : k \in DOMAIN data <=> k \in keys
        /\ \A k \in DOMAIN data :
               data[k] = IF k = <<b, "members">> THEN old[k] \ {child} ELSE old[k]
    BY <1>1, <1>2, RemovedIs
  <2> HIDE DEF keys
  <2> QED BY <2>1
<1>8. keys \subseteq DOMAIN old
  OBVIOUS
<1>9. IsDataSet(data)
  <2> HIDE DEF keys
  <2>1. ASSUME NEW k \in keys
        PROVE  /\ k \in B!Universe \X B!Prop
               /\ k[2] = "label" => data[k] \in 0..B!Incorrect
               /\ k[2] = "fixed" => data[k] \in 0..2
               /\ k[2] = "members" => k[1] \in B!Block /\ data[k] \subseteq B!Universe
    <3>1. k \in DOMAIN old
      BY <1>8
    <3>2. data[k] = IF k = <<b, "members">> THEN old[k] \ {child} ELSE old[k]
      BY <1>7
    <3> QED BY <1>3, <3>1, <3>2 DEF IsDataSet
  <2> QED BY <1>7, <2>1 DEF IsDataSet
<1>10. Complete(data)
  <2> SUFFICES ASSUME NEW k \in keys, NEW p \in B!PropsOf(k[1]) PROVE <<k[1], p>> \in keys
    BY <1>7 DEF Complete
  <2>1. <<k[1], p>> \in DOMAIN old
    BY <1>3 DEF Complete
  <2> QED BY <2>1
<1>11. ASSUME old = Found PROVE Edited(data, b)
  <2>1. Found[<<b, "members">>] = Inside(b)
    BY FoundParts
  <2>2. \A k \in keys : k[1] \in Below(b)
    OBVIOUS
  <2> HIDE DEF keys
  <2>3. ASSUME NEW k \in keys, k[2] # "members" PROVE data[k] = 0
    <3>1. k # <<b, "members">>
      BY <2>3
    <3>2. data[k] = old[k]
      BY <1>7, <3>1
    <3>3. k \in DOMAIN Found
      BY <1>8, <1>11
    <3> QED BY <1>11, <2>3, <3>2, <3>3, FoundIsZero
  <2>4. <<b, "members">> \in keys => data[<<b, "members">>] = Inside(b) \ {child}
    BY <1>7, <1>11, <2>1
  <2> QED BY <1>4, <1>7, <2>2, <2>3, <2>4 DEF Edited
<1> QED BY <1>2, <1>9, <1>10, <1>11

\* What is in the data set with another child.
LEMMA AddedIs ==
    ASSUME IsNotes(noted), Complete(noted.data), NEW b \in B!Block, B!Suits(b),
           NEW test, test # "test_24", NEW data, data = B!Modified(b, test),
           NEW child, child = B!Children(b)[1], NEW old, old = noted.data, NEW new, new = New[b]
    PROVE  /\ \A k : k \in DOMAIN data <=> \/ k \in DOMAIN old /\ k[1] \in Below(b)
                                          \/ k = <<new, "label">> \/ k = <<new, "fixed">>
           /\ \A k \in DOMAIN data :
                  data[k] = IF k = <<b, "members">> THEN old[k] \cup {new}
                            ELSE IF k[1] = new THEN old[<<child, k[2]>>] ELSE old[k]
<1>1. DOMAIN old \subseteq B!Universe \X B!Prop
  BY DEF IsNotes, IsDataSet
<1> DEFINE mine == B!Only(old, Below(b) \X B!Prop)
           all == DOMAIN mine \cup {new} \X (B!Prop \ {"members"})
<1>2. data = [k \in all |-> IF k = <<b, "members">> THEN old[<<b, "members">>] \cup {new}
                            ELSE IF k[1] = new THEN old[<<child, k[2]>>] ELSE mine[k]]
  BY DEF B!Modified, Below
<1>3. DOMAIN mine = {k \in DOMAIN old : k[1] \in Below(b)} /\ \A k \in DOMAIN mine : mine[k] = old[k]
  BY <1>1 DEF B!Only
<1> HIDE DEF mine
<1>4. \A k : k \in all <=> \/ k \in DOMAIN old /\ k[1] \in Below(b)
                          \/ k = <<new, "label">> \/ k = <<new, "fixed">>
  BY <1>3 DEF B!Prop
<1>5. \A k \in all : k[1] # new => k \in DOMAIN mine
  BY <1>3, <1>4
<1> HIDE DEF all
<1>6. DOMAIN data = all
  BY <1>2
<1>7. ASSUME NEW k \in all
      PROVE  data[k] = IF k = <<b, "members">> THEN old[k] \cup {new}
                       ELSE IF k[1] = new THEN old[<<child, k[2]>>] ELSE old[k]
  <2>1. data[k] = IF k = <<b, "members">> THEN old[<<b, "members">>] \cup {new}
                  ELSE IF k[1] = new THEN old[<<child, k[2]>>] ELSE mine[k]
    BY <1>2
  <2>2. k[1] # new => mine[k] = old[k]
    BY <1>3, <1>5
  <2> QED BY <2>1, <2>2
<1> QED BY <1>4, <1>6, <1>7

LEMMA AddedParts ==
    ASSUME IsNotes(noted), Complete(noted.data), NEW b \in B!Block, B!Suits(b),
           NEW test, test # "test_24", NEW data, data = B!Modified(b, test)
    PROVE  IsDataSet(data) /\ Complete(data) /\ (noted.data = Found => Edited(data, b))
<1>1. PICK child : child = B!Children(b)[1]
  OBVIOUS
<1>2. PICK old : old = noted.data
  OBVIOUS
<1>3. IsDataSet(old) /\ Complete(old)
  BY <1>2 DEF IsNotes
<1>4. b \in B!ObjectsOf(old) /\ child \in B!ObjectsOf(old)
  BY <1>1, <1>2, ChildParts
<1>5. /\ <<b, "members">> \in DOMAIN old /\ <<child, "label">> \in DOMAIN old
      /\ <<child, "fixed">> \in DOMAIN old
  BY <1>3, <1>4 DEF Complete, B!ObjectsOf, B!PropsOf
<1>6. PICK new : new = New[b]
  OBVIOUS
<1>7. new \in B!Universe /\ new \notin B!Block /\ new \in Below(b)
  <2>1. new \in B!Universe \ {Root} /\ Up[new] = b /\ new \notin B!Block
    BY <1>6, BackupValues
  <2> QED BY <2>1, BelowUp
<1> DEFINE keys == {k \in DOMAIN old : k[1] \in Below(b)} \cup {new} \X {"label", "fixed"}
<1>8. DOMAIN old \subseteq B!Universe \X B!Prop
  BY <1>3 DEF IsDataSet
<1>9. /\ DOMAIN data = keys
      /\ \A k \in keys : data[k] = IF k = <<b, "members">> THEN old[k] \cup {new}
                                   ELSE IF k[1] = new THEN old[<<child, k[2]>>] ELSE old[k]
  <2>1. /\ \A k : k \in DOMAIN data <=> \/ k \in DOMAIN old /\ k[1] \in Below(b)
                                       \/ k = <<new, "label">> \/ k = <<new, "fixed">>
        /\ \A k \in DOMAIN data :
               data[k] = IF k = <<b, "members">> THEN old[k] \cup {new}
                         ELSE IF k[1] = new THEN old[<<child, k[2]>>] ELSE old[k]
    BY <1>1, <1>2, <1>6, AddedIs
  <2>2. \A k : k \in keys <=> \/ k \in DOMAIN old /\ k[1] \in Below(b)
                             \/ k = <<new, "label">> \/ k = <<new, "fixed">>
    OBVIOUS
  <2> HIDE DEF keys
  <2> QED BY <2>1, <2>2
<1>10. \A k \in keys : k \in DOMAIN old \/ k = <<new, "label">> \/ k = <<new, "fixed">>
  OBVIOUS
<1>11. \A k \in keys : k[1] = new => k = <<new, "label">> \/ k = <<new, "fixed">>
  <2> SUFFICES ASSUME NEW k \in DOMAIN old, k[1] = new PROVE k = <<new, "label">> \/ k = <<new, "fixed">>
    OBVIOUS
  <2>1. k[2] # "members"
    BY <1>3, <1>7 DEF IsDataSet
  <2> QED BY <1>8, <2>1 DEF B!Prop
<1>12. IsDataSet(data)
  <2> HIDE DEF keys
  <2>1. ASSUME NEW k \in keys
        PROVE  /\ k \in B!Universe \X B!Prop
               /\ k[2] = "label" => data[k] \in 0..B!Incorrect
               /\ k[2] = "fixed" => data[k] \in 0..2
               /\ k[2] = "members" => k[1] \in B!Block /\ data[k] \subseteq B!Universe
    <3>1. CASE k[1] = new
      <4>1. k = <<new, "label">> \/ k = <<new, "fixed">>
        BY <1>11, <3>1
      <4>2. data[k] = old[<<child, k[2]>>]
        BY <1>9, <3>1, <4>1
      <4> QED BY <1>3, <1>5, <1>7, <4>1, <4>2 DEF IsDataSet, B!Prop
    <3>2. CASE k[1] # new
      <4>1. k \in DOMAIN old
        BY <1>10, <3>2
      <4>2. data[k] = IF k = <<b, "members">> THEN old[k] \cup {new} ELSE old[k]
        BY <1>9, <3>2
      <4> QED BY <1>3, <1>7, <4>1, <4>2 DEF IsDataSet
    <3> QED BY <3>1, <3>2
  <2> QED BY <1>9, <2>1 DEF IsDataSet
<1>13. Complete(data)
  <2> SUFFICES ASSUME NEW k \in keys, NEW p \in B!PropsOf(k[1]) PROVE <<k[1], p>> \in keys
    BY <1>9 DEF Complete
  <2>1. CASE k[1] = new
    BY <1>7, <2>1 DEF B!PropsOf
  <2>2. CASE k[1] # new
    <3>1. k \in DOMAIN old /\ k[1] \in Below(b)
      BY <2>2
    <3>2. <<k[1], p>> \in DOMAIN old
      BY <1>3, <3>1 DEF Complete
    <3> QED BY <3>1, <3>2
  <2> QED BY <2>1, <2>2
<1>14. ASSUME old = Found PROVE Edited(data, b)
  <2>1. Found[<<b, "members">>] = Inside(b)
    BY FoundParts
  <2>2. Found[<<child, "label">>] = 0 /\ Found[<<child, "fixed">>] = 0
    BY <1>5, <1>14, FoundIsZero
  <2>3. \A k \in keys : k[1] \in Below(b)
    BY <1>7
  <2> HIDE DEF keys
  <2>4. ASSUME NEW k \in keys, k[2] # "members" PROVE data[k] = 0
    <3>1. CASE k[1] = new
      BY <1>9, <1>11, <1>14, <2>2, <2>4, <3>1
    <3>2. CASE k[1] # new
      <4>1. k \in DOMAIN Found
        BY <1>10, <1>14, <3>2
      <4>2. k # <<b, "members">>
        BY <2>4
      <4>3. data[k] = old[k]
        BY <1>9, <3>2, <4>2
      <4> QED BY <1>14, <2>4, <4>1, <4>3, FoundIsZero
    <3> QED BY <3>1, <3>2
  <2>5. <<b, "members">> \in keys => data[<<b, "members">>] = Inside(b) \cup {New[b]}
    BY <1>6, <1>9, <1>14, <2>1
  <2> QED BY <1>9, <2>3, <2>4, <2>5 DEF Edited
<1> QED BY <1>2, <1>12, <1>13, <1>14

--------------------
(* IS-14: one block after the other.                                        *)

LEMMA CutNothing ==
    ASSUME NEW d, AsFound(d), NEW b \in B!Block
    PROVE  Cut(d, b)
BY BackupValues DEF AsFound, Cut

LEMMA BlockBeginsStep ==
    ASSUME BackupInv, B!BlockBegins
    PROVE  BackupInv'
<1> DEFINE original == B!Backup(device, Root)
           blocks == Select(Listed, B!Block \cap device.rebuildable \cap device.has)
<1>1. /\ On(B!BlockTests, "begin") /\ device' = device /\ verdict' = verdict
      /\ noted' = [B!Anew EXCEPT !.original = original, !.data = original, !.target = Root]
      /\ at' = [at EXCEPT !.step = "visit", !.todo = blocks]
  BY BackupRun DEF B!BlockBegins
<1>2. IsRun /\ device \in BackupDevice /\ IsNotes(noted)
  BY DEF BackupInv, BackupTypes
<1>3. IsDataSet(original) /\ Complete(original)
  BY <1>2, BackupParts
<1>4. Faithful => AsFound(device) /\ original = Found
  <2>1. Faithful => AsFound(device)
    BY <1>1 DEF BackupInv, On
  <2> QED BY <1>2, <2>1, FoundIsBackup
<1>5. blocks \in Seq(B!Block) /\ Elems(blocks) \subseteq device.rebuildable /\ Distinct(blocks)
  <2>1. /\ blocks \in Seq(B!Universe) /\ Distinct(blocks)
        /\ Elems(blocks) = B!Universe \cap (B!Block \cap device.rebuildable \cap device.has)
    BY BackupValues, SelectParts
  <2> HIDE DEF blocks
  <2>2. blocks \in Seq(B!Block)
    BY <2>1, SeqOf
  <2> QED BY <2>1, <2>2
<1> HIDE DEF blocks, original
<1>6. /\ IsNotes(noted)' /\ noted'.original = original /\ noted'.data = original
      /\ noted'.target = Root
  <2>1. IsNotes([B!Anew EXCEPT !.original = original, !.data = original, !.target = Root])
    BY <1>2, <1>3, AnewParts, BackupValues, NotesWith
  <2>2. IsNotes(B!Anew)
    BY <1>2, AnewParts
  <2> QED BY <1>1, <2>1, <2>2 DEF IsNotes
<1>7. IsRun' /\ at'.step = "visit" /\ at'.plan = at.plan /\ at'.todo = blocks
  BY <1>1, <1>2, TestGoesOn
<1>8. SameMake
  BY <1>1, <1>2 DEF SameMake
<1>9. Faithful' => BlockIsUndone'
  <2> SUFFICES ASSUME Faithful' PROVE BlockIsUndone'
    OBVIOUS
  <2>1. AsFound(device)' /\ original = Found
    BY <1>1, <1>4, <1>8, SameFaith DEF AsFound
  <2>2. Elems(at.todo)' \subseteq device'.rebuildable /\ Distinct(at.todo)'
    BY <1>1, <1>5, <1>7 DEF Elems, Distinct
  <2> QED BY <1>6, <1>7, <2>1, <2>2 DEF BlockIsUndone, On
<1>10. /\ ~Ended /\ Head(at.plan) \in B!BlockTests /\ device' \in BackupDevice
       /\ at'.todo \in Seq(B!Block) /\ Complete(noted'.data)
  BY <1>1, <1>2, <1>3, <1>5, <1>6, <1>7 DEF On
<1> QED BY <1>6, <1>7, <1>9, <1>10, BlocksGoOn

LEMMA BlockTurn ==
    ASSUME BackupInv, On(B!BlockTests, "visit") \/ On(B!BlockTests, "restore"), at.todo # <<>>
    PROVE  /\ IsRun /\ device \in BackupDevice /\ IsNotes(noted) /\ Complete(noted.data)
           /\ ~Ended /\ Head(at.plan) \in B!BlockTests
           /\ Subject \in B!Block /\ Subject \in Elems(at.todo)
           /\ Tail(at.todo) \in Seq(B!Block) /\ Elems(Tail(at.todo)) \subseteq Elems(at.todo)
           /\ Faithful => /\ noted.original = Found /\ Elems(at.todo) \subseteq device.rebuildable
                          /\ Distinct(Tail(at.todo)) /\ Subject \notin Elems(Tail(at.todo))
<1>1. PICK s : s = at.todo
  OBVIOUS
<1>2. s \in Seq(B!Block) /\ s # <<>> /\ (Faithful => Distinct(s))
  BY <1>1 DEF BackupInv, BackupTypes, BlockIsUndone
<1>3. /\ Tail(s) \in Seq(B!Block) /\ Head(s) \in Elems(s) /\ Head(s) \in B!Block
      /\ Elems(Tail(s)) \subseteq Elems(s)
      /\ Faithful => Distinct(Tail(s)) /\ Head(s) \notin Elems(Tail(s))
  BY <1>2, TailParts
<1> QED BY <1>1, <1>3 DEF BackupInv, BackupTypes, BlockIsUndone, Subject, On

\* A block's turn ends: either it was passed over or it is changed.
LEMMA NextBlockParts ==
    ASSUME BackupInv, On(B!BlockTests, "visit") \/ On(B!BlockTests, "restore"), at.todo # <<>>,
           B!NextBlock, SameMake, IsNotes(noted)', Complete(noted'.data),
           Faithful => /\ noted'.original = Found
                       /\ \/ AsFound(device)' /\ noted'.data = Found /\ noted'.target = Root
                          \/ /\ Cut(device', noted'.target)
                             /\ Elems(Tail(at.todo)) \cap B!ObjectsOf(noted'.data) = {}
    PROVE  BackupInv'
<1>1. PICK t : t = Tail(at.todo)
  OBVIOUS
<1>2. IsRun' /\ at'.step = "visit" /\ at'.plan = at.plan /\ at'.todo = t
  <2>1. at' = [at EXCEPT !.step = "visit", !.todo = t] /\ verdict' = verdict
    BY <1>1 DEF B!NextBlock
  <2> QED BY <2>1, BlockTurn, TestGoesOn
<1>3. Faithful' => BlockIsUndone'
  <2> SUFFICES ASSUME Faithful' PROVE BlockIsUndone'
    OBVIOUS
  <2>1. Faithful
    BY SameFaith
  <2>2. Elems(t) \subseteq device.rebuildable /\ Distinct(t)
    BY <1>1, <2>1, BlockTurn
  <2>3. Elems(at.todo)' = Elems(t)
    BY <1>2 DEF Elems
  <2>4. Distinct(at.todo)'
    BY <1>2, <2>2 DEF Distinct
  <2>5. Elems(at.todo)' \subseteq device'.rebuildable
    BY <2>2, <2>3 DEF SameMake
  <2>6. B!ObjectsOf(noted.data)' = B!ObjectsOf(noted'.data) /\ Cut(device, noted.target)' = Cut(device', noted'.target)
    BY DEF B!ObjectsOf, Cut
  <2>7. \/ AsFound(device)' /\ noted'.data = Found /\ noted'.target = Root
        \/ Cut(device, noted.target)' /\ Elems(at.todo)' \cap B!ObjectsOf(noted.data)' = {}
    BY <1>1, <2>1, <2>3, <2>6
  <2>8. ~On(B!BlockTests, "restore")' /\ ~On(B!BlockTests, "undo")'
    BY <1>2 DEF On
  <2>9. noted'.original = Found
    BY <2>1
  <2> QED BY <2>4, <2>5, <2>7, <2>8, <2>9 DEF BlockIsUndone
<1>4. t \in Seq(B!Block) /\ ~Ended /\ Head(at.plan) \in B!BlockTests
  BY <1>1, BlockTurn
<1>5. device' \in BackupDevice
  BY DEF SameMake
<1> QED BY <1>2, <1>3, <1>4, <1>5, BlocksGoOn

LEMMA SkipBlockStep ==
    ASSUME BackupInv, B!SkipBlock
    PROVE  BackupInv'
<1>1. /\ On(B!BlockTests, "visit") /\ at.todo # <<>> /\ B!NextBlock
      /\ device' = device /\ noted' = noted
  BY BackupRun DEF B!SkipBlock
<1>2. SameMake /\ IsNotes(noted)' /\ Complete(noted'.data)
  BY <1>1, BlockTurn DEF SameMake, IsNotes
<1>3. ASSUME Faithful
      PROVE  /\ noted'.original = Found
             /\ \/ AsFound(device)' /\ noted'.data = Found /\ noted'.target = Root
                \/ /\ Cut(device', noted'.target)
                   /\ Elems(Tail(at.todo)) \cap B!ObjectsOf(noted'.data) = {}
  <2>1. Elems(Tail(at.todo)) \subseteq Elems(at.todo)
    BY <1>1, BlockTurn
  <2>2. /\ noted.original = Found
        /\ \/ AsFound(device) /\ noted.data = Found /\ noted.target = Root
           \/ Cut(device, noted.target) /\ Elems(at.todo) \cap B!ObjectsOf(noted.data) = {}
    BY <1>1, <1>3 DEF BackupInv, BlockIsUndone
  <2> QED BY <1>1, <2>1, <2>2 DEF AsFound
<1> QED BY <1>1, <1>2, <1>3, NextBlockParts

LEMMA EditedBelow ==
    ASSUME NEW data, NEW b, Edited(data, b), NEW o \in B!ObjectsOf(data)
    PROVE  o \in Below(b)
BY DEF Edited, B!ObjectsOf

\* A block that is still to come is not in what is left of the data set.
LEMMA ValidateBlockStep ==
    ASSUME BackupInv, B!ValidateBlock
    PROVE  BackupInv'
<1>0. PICK yes \in BOOLEAN : yes = TRUE
  OBVIOUS
<1>a. PICK b : b = Subject
  OBVIOUS
<1> DEFINE data == B!Modified(Subject, Head(at.plan))
           answer == B!Answer(device, data, Subject, TRUE, TRUE)
           after == B!Validated(device, data, Subject, yes, yes)
           changed == B!CompareFails(noted.original, data, B!Backup(after, Subject), Subject,
                                     answer.notices, TRUE, TRUE)
           wrong == <<Subject, "members">> \notin answer.notices
                    /\ \E o \in DOMAIN answer.status : answer.status[o] # 200
           errors == B!If(changed \/ wrong, "own")
           book == B!Book(errors, {"own"}, {})
<1>1. /\ On(B!BlockTests, "visit") /\ at.todo # <<>> /\ B!Suits(Subject) /\ device' = after
      /\ noted' = [book EXCEPT !.data = data, !.target = Subject]
      /\ Step("undo", 0) \/ Step("restore", 0)
  <2>1. /\ B!On(B!BlockTests, "visit") /\ (B!Goto("undo") <=> Step("undo", 0))
        /\ (B!Goto("restore") <=> Step("restore", 0)) /\ B!Subject = Subject
    BY BackupRun DEF B!ValidateBlock
  <2>2. at.todo # <<>> /\ B!Suits(Subject) /\ device' = after
    BY <1>0, <2>1 DEF B!ValidateBlock
  <2>3. noted' = [book EXCEPT !.data = data, !.target = Subject]
    BY <1>0, <2>1 DEF B!ValidateBlock
  <2>4. Step("undo", 0) \/ Step("restore", 0)
    BY <1>0, <2>1 DEF B!ValidateBlock
  <2> QED BY <2>1, <2>2, <2>3, <2>4, BackupRun
<1>2. /\ IsRun /\ device \in BackupDevice /\ IsNotes(noted) /\ Complete(noted.data) /\ b \in B!Block
      /\ ~Ended /\ Head(at.plan) \in B!BlockTests /\ b \in Elems(at.todo)
      /\ Tail(at.todo) \in Seq(B!Block) /\ Elems(Tail(at.todo)) \subseteq Elems(at.todo)
      /\ at.todo \in Seq(B!Block)
  BY <1>1, <1>a, BlockTurn DEF BackupInv, BackupTypes
<1>3. IsDataSet(data) /\ Complete(data) /\ (noted.data = Found => Edited(data, b))
  <2>1. PICK test : test = Head(at.plan)
    OBVIOUS
  <2>2. PICK new : new = B!Modified(b, test)
    OBVIOUS
  <2>3. CASE test = "test_24"
    <3>1. new = B!Modified(b, "test_24")
      BY <2>2, <2>3
    <3> QED BY <1>1, <1>2, <1>a, <2>1, <2>2, <3>1, RemovedParts
  <2>4. CASE test # "test_24"
    BY <1>1, <1>2, <1>a, <2>1, <2>2, <2>4, AddedParts
  <2> QED BY <2>3, <2>4
<1> HIDE DEF data, answer, changed, wrong
<1>4. /\ after \in BackupDevice /\ after.mistake = device.mistake /\ after.rebuildable = device.rebuildable
      /\ after.loses = device.loses /\ (device.mistake = <<"none">> => after = device)
  BY <1>2, <1>3, ValidatedParts
<1>5. errors \in SUBSET B!Result /\ {"own"} \in SUBSET B!Result /\ {} \in SUBSET B!Result
  <2>1. "own" \in B!Result
    BY DEF B!Result
  <2> QED BY <2>1, IfParts
<1> HIDE DEF after, errors
<1>6. IsNotes(book) /\ book.original = noted.original
  BY <1>2, <1>5, BookParts
<1> HIDE DEF book
<1>7. IsNotes(noted)' /\ noted'.original = noted.original /\ noted'.data = data /\ noted'.target = b
  <2>1. IsNotes([book EXCEPT !.data = data, !.target = b])
    BY <1>2, <1>3, <1>6, NotesWith
  <2>2. noted' = [book EXCEPT !.data = data, !.target = b]
    BY <1>1, <1>a
  <2> QED BY <1>6, <2>1, <2>2 DEF IsNotes
<1>8. SameMake /\ (device.mistake = <<"none">> => device' = device)
  BY <1>1, <1>4 DEF SameMake
<1>9. ASSUME Faithful
      PROVE  /\ device' = device /\ AsFound(device) /\ noted.original = Found /\ Edited(data, b)
             /\ Elems(at.todo) \subseteq device.rebuildable /\ Distinct(at.todo)
             /\ Elems(Tail(at.todo)) \cap B!ObjectsOf(data) = {}
  <2>1. b \in B!ObjectsOf(noted.data)
    BY <1>1, <1>a DEF B!Suits
  <2>2. AsFound(device) /\ noted.data = Found
    BY <1>1, <1>2, <1>9, <2>1 DEF BackupInv, BlockIsUndone
  <2>3. Distinct(at.todo)
    BY <1>1, <1>9 DEF BackupInv, BlockIsUndone
  <2>4. /\ noted.original = Found /\ Elems(at.todo) \subseteq device.rebuildable
        /\ b \notin Elems(Tail(at.todo))
    BY <1>1, <1>9, <1>a, BlockTurn
  <2>5. Elems(Tail(at.todo)) \subseteq B!Block
    BY <1>2 DEF Elems
  <2>6. ASSUME NEW c \in Elems(Tail(at.todo)) PROVE c \notin Below(b)
    <3>1. c \in device.rebuildable \cap B!Block /\ b \in device.rebuildable \cap B!Block /\ c # b
      BY <1>2, <2>4, <2>5
    <3> QED BY <1>9, <3>1 DEF Faithful, Apart
  <2>7. Elems(Tail(at.todo)) \cap B!ObjectsOf(data) = {}
    BY <1>3, <2>2, <2>6, EditedBelow
  <2> QED BY <1>3, <1>8, <1>9, <2>2, <2>3, <2>4, <2>7 DEF Faithful
<1>10. IsRun' /\ at'.step \in {"restore", "undo"} /\ at'.plan = at.plan /\ at'.todo = at.todo
  BY <1>1, <1>2, TestSteps
<1>11. Faithful' => BlockIsUndone'
  <2> SUFFICES ASSUME Faithful' PROVE BlockIsUndone'
    OBVIOUS
  <2>1. Faithful
    BY <1>8, SameFaith
  <2>2. /\ Elems(at.todo)' = Elems(at.todo) /\ (Distinct(at.todo)' <=> Distinct(at.todo))
        /\ Elems(Tail(at.todo))' = Elems(Tail(at.todo))
    BY <1>10 DEF Elems, Distinct
  <2>3. B!ObjectsOf(noted.data)' = B!ObjectsOf(data)
    BY <1>7 DEF B!ObjectsOf
  <2>4. Edited(noted.data, Subject)' /\ noted'.target = Subject'
    BY <1>a, <1>7, <1>9, <1>10, <2>1 DEF Edited, Subject
  <2>5. Cut(device, noted.target)' /\ AsFound(device)'
    <3>1. Cut(device, b)
      BY <1>2, <1>9, <2>1, CutNothing
    <3> QED BY <1>7, <1>9, <2>1, <3>1 DEF Cut, AsFound
  <2>6. ~On(B!BlockTests, "visit")'
    BY <1>10 DEF On
  <2>7. device'.rebuildable = device.rebuildable
    BY <1>8 DEF SameMake
  <2> QED BY <1>7, <1>9, <2>1, <2>2, <2>3, <2>4, <2>5, <2>6, <2>7 DEF BlockIsUndone
<1>12. device' \in BackupDevice /\ Complete(noted'.data)
  BY <1>3, <1>7, <1>8 DEF SameMake
<1> QED BY <1>1, <1>2, <1>7, <1>10, <1>11, <1>12, BlocksGoOn

LEMMA RestoreBlockStep ==
    ASSUME BackupInv, B!RestoreBlock
    PROVE  BackupInv'
<1>0. PICK yes \in BOOLEAN : yes = TRUE
  OBVIOUS
<1>a. PICK b : b = Subject
  OBVIOUS
<1> DEFINE data == noted.data
           answer == B!Answer(device, data, Subject, TRUE, TRUE)
           after == B!Restored(device, data, Subject, yes, yes)
           failed == \/ B!ObjectsWrong(data, answer, Subject, TRUE)
                     \/ B!CompareFails(noted.original, data, B!Backup(after, Subject), Subject,
                                       answer.notices, TRUE, FALSE)
           errors == B!If(failed, "own")
           warnings == B!If(B!Warned(answer), "own")
           book == B!Book(errors, {"own"}, warnings)
<1>1. /\ On(B!BlockTests, "restore") /\ device' = after /\ noted' = book
      /\ Step("undo", 0) \/ B!NextBlock
  <2>1. /\ B!On(B!BlockTests, "restore") /\ (B!Goto("undo") <=> Step("undo", 0)) /\ B!Subject = Subject
    BY BackupRun DEF B!RestoreBlock
  <2> QED BY <1>0, <2>1, BackupRun DEF B!RestoreBlock
<1>2. at.todo # <<>>
  BY <1>1 DEF BackupInv, BackupTypes
<1>3. /\ IsRun /\ device \in BackupDevice /\ IsNotes(noted) /\ Complete(data) /\ b \in B!Block
      /\ ~Ended /\ Head(at.plan) \in B!BlockTests /\ b \in Elems(at.todo) /\ IsDataSet(data)
  BY <1>1, <1>2, <1>a, BlockTurn DEF IsNotes
<1>4. Faithful => /\ AsFound(device) /\ noted.target = b /\ Edited(data, b) /\ b \in device.rebuildable
                  /\ noted.original = Found /\ Elems(Tail(at.todo)) \cap B!ObjectsOf(data) = {}
  BY <1>1, <1>3, <1>a DEF BackupInv, BlockIsUndone
<1> HIDE DEF data, answer, failed
<1>5. errors \in SUBSET B!Result /\ {"own"} \in SUBSET B!Result /\ warnings \in SUBSET B!Result
  <2>1. "own" \in B!Result
    BY DEF B!Result
  <2> QED BY <2>1, IfParts
<1>6. /\ after \in BackupDevice /\ after.mistake = device.mistake /\ after.rebuildable = device.rebuildable
      /\ after.loses = device.loses
  BY <1>3, RestoredParts
<1>7. Faithful => Cut(after, b)
  <2>1. after = B!Restored(device, data, b, TRUE, TRUE)
    BY <1>0, <1>a
  <2> HIDE DEF after
  <2> QED BY <1>3, <1>4, <2>1, CutParts DEF Faithful
<1> HIDE DEF errors, warnings
<1>8. /\ IsNotes(book) /\ book.original = noted.original /\ book.data = noted.data
      /\ book.target = noted.target
  BY <1>3, <1>5, BookParts
<1> HIDE DEF after, book
<1>9. SameMake /\ device' \in BackupDevice /\ IsNotes(noted)'
  BY <1>1, <1>6, <1>8 DEF SameMake
<1>10. Complete(noted'.data)
  BY <1>1, <1>3, <1>8 DEF data
<1>11. CASE Step("undo", 0)
  <2>1. IsRun' /\ at'.step = "undo" /\ at'.plan = at.plan
    BY <1>3, <1>11, TestSteps
  <2>2. Faithful' => BlockIsUndone'
    <3> SUFFICES ASSUME Faithful' PROVE BlockIsUndone'
      OBVIOUS
    <3>1. Faithful
      BY <1>9, SameFaith
    <3>2. Cut(device, noted.target)'
      BY <1>1, <1>4, <1>7, <1>8, <3>1 DEF Cut
    <3> QED BY <1>1, <1>4, <1>8, <2>1, <3>1, <3>2 DEF BlockIsUndone, On
  <2> QED BY <1>3, <1>9, <2>1, <2>2, BlocksGoOn
<1>12. CASE B!NextBlock
  <2>1. Faithful => /\ noted'.original = Found /\ Cut(device', noted'.target)
                    /\ Elems(Tail(at.todo)) \cap B!ObjectsOf(noted'.data) = {}
    BY <1>1, <1>4, <1>7, <1>8 DEF data
  <2> QED BY <1>1, <1>2, <1>9, <1>10, <1>12, <2>1, NextBlockParts
<1> QED BY <1>1, <1>11, <1>12

LEMMA UndoBlocksStep ==
    ASSUME BackupInv, B!UndoBlocks
    PROVE  BackupInv'
<1>0. PICK yes \in BOOLEAN : yes = TRUE
  OBVIOUS
<1> DEFINE after == B!Restored(device, noted.original, noted.target, yes, yes)
           book == B!Book({}, {"own"}, {})
<1>1. /\ On(B!BlockTests, "undo") \/ (On(B!BlockTests, "visit") /\ at.todo = <<>>)
      /\ device' = after /\ noted' = book /\ \E v \in {"FAIL", "WARNING", "PASS"} : Conclude(v)
  <2>1. /\ B!On(B!BlockTests, "undo") <=> On(B!BlockTests, "undo")
        /\ B!On(B!BlockTests, "visit") <=> On(B!BlockTests, "visit")
        /\ \A v \in {"FAIL", "WARNING", "PASS"} : B!Conclude(v) <=> Conclude(v)
    BY BackupRun
  <2> QED BY <1>0, <2>1 DEF B!UndoBlocks
<1>2. /\ IsRun /\ device \in BackupDevice /\ IsNotes(noted) /\ IsDataSet(noted.original)
      /\ noted.target \in B!Block
  BY DEF BackupInv, BackupTypes, IsNotes
<1>3. Faithful => noted.original = Found /\ Cut(device, noted.target)
  BY <1>1, <1>2, CutNothing, BackupValues DEF BackupInv, BlockIsUndone
<1>4. /\ after \in BackupDevice /\ after.mistake = device.mistake /\ after.rebuildable = device.rebuildable
      /\ after.loses = device.loses
  BY <1>2, RestoredParts
<1>5. Faithful => AsFound(after)
  BY <1>0, <1>2, <1>3, MendParts DEF Faithful
<1>6. {"own"} \in SUBSET B!Result /\ {} \in SUBSET B!Result
  BY DEF B!Result
<1>7. IsNotes(book)
  BY <1>2, <1>6, BookParts
<1> HIDE DEF after, book
<1>8. SameMake /\ device' \in BackupDevice /\ IsNotes(noted)'
  BY <1>1, <1>4, <1>7 DEF SameMake
<1>9. Faithful' => AsFound(device)'
  BY <1>1, <1>5, <1>8, SameFaith DEF AsFound
<1> QED BY <1>1, <1>8, <1>9, BackupVerdicts, BackupConcludes DEF BackupInv

--------------------
(* IS-14: a lost answer, and all steps.                                     *)

LEMMA SentIsOfKind ==
    ASSUME BackupInv
    PROVE  B!Sent \in BackupDevice
<1>1. device \in BackupDevice /\ IsDataSet(noted.first) /\ IsDataSet(noted.original) /\ IsDataSet(noted.data)
  BY DEF BackupInv, BackupTypes, IsNotes
<1>2. \A data, t, rebuild, recurse :
        IsDataSet(data) => B!Restored(device, data, t, rebuild, recurse) \in BackupDevice
  BY <1>1, RestoredParts
<1>3. PICK no \in BOOLEAN : no = FALSE
  OBVIOUS
<1>4. PICK yes \in BOOLEAN : yes = TRUE
  OBVIOUS
<1>5. PICK rebuild \in BOOLEAN : rebuild = B!Rebuild
  BY DEF B!Rebuild
<1>6. /\ B!Restored(device, noted.data, B!Subject[1], no, B!Subject[2]) \in BackupDevice
      /\ B!Restored(device, noted.first, Root, no, yes) \in BackupDevice
      /\ B!Restored(device, noted.data, Root, rebuild, yes) \in BackupDevice
      /\ B!Restored(device, noted.original, Root, rebuild, yes) \in BackupDevice
      /\ B!Restored(device, noted.data, B!Subject, yes, yes) \in BackupDevice
      /\ B!Restored(device, noted.original, noted.target, yes, yes) \in BackupDevice
  BY <1>1, <1>2
<1>7. B!Restored(device, noted.data, B!Subject[1], FALSE, B!Subject[2]) \in BackupDevice
  BY <1>3, <1>6
<1>8. B!Restored(device, noted.first, Root, FALSE, TRUE) \in BackupDevice
  BY <1>3, <1>4, <1>6
<1>9. /\ B!Restored(device, noted.data, Root, B!Rebuild, TRUE) \in BackupDevice
      /\ B!Restored(device, noted.original, Root, B!Rebuild, TRUE) \in BackupDevice
  BY <1>4, <1>5, <1>6
<1>10. /\ B!Restored(device, noted.data, B!Subject, TRUE, TRUE) \in BackupDevice
       /\ B!Restored(device, noted.original, noted.target, TRUE, TRUE) \in BackupDevice
  BY <1>4, <1>6
<1> QED BY <1>1, <1>7, <1>8, <1>9, <1>10 DEF B!Sent

LEMMA BackupLostStep ==
    ASSUME BackupInv, B!AnswerLost
    PROVE  BackupInv'
<1>1. PICK d \in {device, B!Sent} : device' = [d EXCEPT !.loses = "lost"]
  BY DEF B!AnswerLost
<1>2. Conclude("FAIL") /\ noted' = noted
  BY BackupRun DEF B!AnswerLost
<1>3. d \in BackupDevice
  BY SentIsOfKind DEF BackupInv, BackupTypes
<1>4. device' \in BackupDevice /\ device'.loses = "lost"
  BY <1>1, <1>3 DEF BackupDevice
<1>5. ~Faithful'
  BY <1>4 DEF Faithful
<1>6. IsNotes(noted)'
  BY <1>2 DEF BackupInv, BackupTypes, IsNotes
<1> QED BY <1>2, <1>4, <1>5, <1>6, BackupVerdicts, BackupConcludes DEF BackupInv

LEMMA BackupStays ==
    ASSUME BackupInv, UNCHANGED suiteVars
    PROVE  BackupInv'
<1>1. at' = at /\ device' = device /\ noted' = noted /\ verdict' = verdict
  BY DEF suiteVars
<1>2. \A tests, step : On(tests, step)' <=> On(tests, step)
  BY <1>1 DEF On, Ended
<1>3. IsRun' /\ IsNotes(noted)' /\ (Ended' <=> Ended) /\ Subject' = Subject /\ B!Rebuild' = B!Rebuild
  BY <1>1 DEF BackupInv, BackupTypes, IsRun, IsNotes, Ended, Subject, B!Rebuild
<1>4. (Complete(noted.data)' <=> Complete(noted.data)) /\ (Faithful' <=> Faithful)
  BY <1>1 DEF Complete, Faithful, Apart
<1>5. /\ Elems(at.todo)' = Elems(at.todo) /\ (Distinct(at.todo)' <=> Distinct(at.todo))
      /\ Elems(Tail(at.todo))' = Elems(Tail(at.todo))
      /\ B!ObjectsOf(noted.data)' = B!ObjectsOf(noted.data)
  BY <1>1 DEF Elems, Distinct, B!ObjectsOf
<1>6. /\ AsFound(device)' <=> AsFound(device)
      /\ Relabelled(device)' <=> Relabelled(device)
      /\ Cut(device, noted.target)' <=> Cut(device, noted.target)
      /\ Rewritten(device, B!Rebuild)' <=> Rewritten(device, B!Rebuild)
      /\ Edited(noted.data, Subject)' <=> Edited(noted.data, Subject)
  BY <1>1, <1>3 DEF AsFound, Relabelled, Cut, Rewritten, Edited
<1>7. BackupTypes'
  BY <1>1, <1>2, <1>3, <1>4 DEF BackupInv, BackupTypes
<1>8. Faithful => WalkIsUndone'
  BY <1>1, <1>2, <1>5, <1>6 DEF BackupInv, WalkIsUndone
<1>9. Faithful => RestoreIsUndone'
  BY <1>1, <1>2, <1>6 DEF BackupInv, RestoreIsUndone
<1>10. Faithful => BlockIsUndone'
  BY <1>1, <1>2, <1>3, <1>5, <1>6 DEF BackupInv, BlockIsUndone
<1> QED BY <1>1, <1>3, <1>4, <1>6, <1>7, <1>8, <1>9, <1>10 DEF BackupInv

LEMMA BackupStep ==
    ASSUME BackupInv, [B!Next]_suiteVars
    PROVE  BackupInv'
<1>1. CASE UNCHANGED suiteVars
  BY <1>1, BackupStays
<1>2. CASE B!Next
  BY <1>2, BackupJudges, WalkBeginsStep, NotFoundStep, ValidateLabelsStep, RestoreLabelsStep,
     WalkResetStep, ValidateAllStep, RestoreAllStep, UndoStep, CheckModelStep, BlockBeginsStep,
     SkipBlockStep, ValidateBlockStep, RestoreBlockStep, UndoBlocksStep, IncorrectStep, BackupLostStep DEF B!Next
<1> QED BY <1>1, <1>2

LEMMA BackupHolds == BackupInv => B!TypeOK /\ B!DeviceIsLeftAsFound
<1> SUFFICES ASSUME BackupInv PROVE B!TypeOK /\ B!DeviceIsLeftAsFound
  OBVIOUS
<1>1. device \in BackupDevice /\ IsNotes(noted) /\ IsRun
  BY DEF BackupInv, BackupTypes
<1>2. B!TypeOK
  <2>1. /\ device.label \in [B!Universe -> 0..B!Incorrect] /\ device.fixed \in [B!Universe -> 0..2]
        /\ device.has \subseteq B!Universe
    BY <1>1 DEF BackupDevice
  <2>2. DOMAIN noted.data \cup DOMAIN noted.original \subseteq B!Universe \X B!Prop
    BY <1>1 DEF IsNotes, IsDataSet
  <2>3. \A t \in DOMAIN verdict : verdict[t] \in B!Verdict
    BY <1>1, BackupRun DEF IsRun
  <2> QED BY <1>1, <2>1, <2>2, <2>3 DEF B!TypeOK, IsNotes
<1>3. ~B!Nested => Apart(device)
  BY DEF B!Nested, Apart, Below
<1>4. AsFound(device) => B!LeftAsFound
  <2> SUFFICES ASSUME AsFound(device), NEW f \in {"label", "fixed", "has"}
               PROVE  IF f = "has" THEN device.has = B!Original
                      ELSE \A o \in B!Original : device[f][o] = B!Untouched[f][o]
    BY DEF B!LeftAsFound, B!Untouched
  <2>1. \A o \in B!Original : B!Untouched.label[o] = 0 /\ B!Untouched.fixed[o] = 0
    BY BackupValues DEF B!Untouched
  <2>2. CASE f = "label"
    BY <2>1, <2>2 DEF AsFound
  <2>3. CASE f = "fixed"
    BY <2>1, <2>3 DEF AsFound
  <2>4. CASE f = "has"
    BY <2>4 DEF AsFound
  <2> QED BY <2>2, <2>3, <2>4
<1>5. B!DeviceIsLeftAsFound
  <2> SUFFICES ASSUME Ended \/ at.step = "begin", device.mistake = <<"none">>, device.loses # "lost",
                      ~B!Nested
               PROVE  B!LeftAsFound
    BY BackupRun DEF B!DeviceIsLeftAsFound
  <2> QED BY <1>3, <1>4 DEF BackupInv, Faithful
<1> QED BY <1>2, <1>5

BackupSuite == suite = "backup" => BackupInv

LEMMA BackupSuiteHolds == ControlSpec => []BackupSuite
<1>1. ControlInit => BackupSuite
  BY BackupBegins DEF ControlInit, BackupSuite
<1>2. BackupSuite /\ [ControlNext]_controlVars => BackupSuite'
  <2> SUFFICES ASSUME BackupSuite, [ControlNext]_controlVars, suite' = "backup" PROVE BackupInv'
    BY DEF BackupSuite
  <2>1. suite = "backup" /\ [B!Next]_suiteVars
    BY DEF ControlNext, controlVars
  <2> QED BY <2>1, BackupStep DEF BackupSuite
<1> QED BY <1>1, <1>2, PTL DEF ControlSpec

--------------------
(* IS-14: what a conforming device makes of a data set.                     *)

\* The root is there, and with an object all blocks that it is in; no label is incorrect.
Solid(d) ==
    /\ Root \in d.has
    /\ \A o \in d.has : \A b \in B!Block : o \in Below(b) => b \in d.has
    /\ \A o \in B!Universe : d.label[o] # B!Incorrect

\* The members of a block are in it; no label is incorrect.
Plain(data) ==
    /\ \A k \in DOMAIN data : k[2] = "label" => data[k] # B!Incorrect
    /\ \A b \in B!Block : <<b, "members">> \in DOMAIN data =>
           \A o \in data[<<b, "members">>] : o # Root /\ Up[o] = b

\* What is asked of the device, and what it sets of it.
Asks(r, d, data, t, rebuild, recurse, set) ==
    /\ IsRestored(r, d, data, set)
    /\ set = Accepted(d, data, t, rebuild, recurse)
    /\ d \in BackupDevice /\ d.mistake = <<"none">> /\ Solid(d)
    /\ IsDataSet(data) /\ Plain(data) /\ t \in B!Universe

LEMMA RootIsTop ==
    ASSUME NEW b \in B!Block, Root \in Below(b)
    PROVE  b = Root
BY BackupValues, BelowParts

LEMMA SolidStays ==
    ASSUME NEW r, NEW d, NEW data, NEW t, NEW rebuild \in BOOLEAN, NEW recurse \in BOOLEAN, NEW set,
           Asks(r, d, data, t, rebuild, recurse, set)
    PROVE  Solid(r) /\ (~rebuild => r.has = d.has)
<1>a. PICK kept : kept = Kept(d, data, set)
  OBVIOUS
<1>1. \A o : o \in r.has <=> o \in kept /\ \A b \in B!Block : o \in Below(b) => b \in kept
  BY <1>a DEF Asks, IsRestored
<1>2. d.has \subseteq B!Universe /\ kept \subseteq B!Universe /\ r.has \subseteq B!Universe
  BY <1>1, <1>a DEF Asks, BackupDevice, Kept
<1>3. Root \in r.has
  <2>1. Root \in kept
    BY <1>2, <1>a DEF Asks, Solid, Kept
  <2> QED BY <1>1, <2>1, RootIsTop
<1>4. ASSUME NEW o \in r.has, NEW b \in B!Block, o \in Below(b) PROVE b \in r.has
  <2>1. b \in kept
    BY <1>1, <1>4
  <2>2. ASSUME NEW c \in B!Block, b \in Below(c) PROVE c \in kept
    <3>1. o \in Below(c)
      BY <1>4, <2>2, BackupValues, BelowChain
    <3> QED BY <1>1, <3>1
  <2> QED BY <1>1, <2>1, <2>2
<1>5. ASSUME NEW o \in B!Universe PROVE r.label[o] # B!Incorrect
  <2>1. r.label[o] = IF <<o, "label">> \in set /\ o \in r.has THEN data[<<o, "label">>] ELSE d.label[o]
    BY DEF Asks, IsRestored
  <2>2. <<o, "label">> \in set => data[<<o, "label">>] # B!Incorrect
    BY DEF Asks, Accepted, Plain
  <2> QED BY <2>1, <2>2 DEF Asks, Solid
<1>6. ASSUME ~rebuild PROVE r.has = d.has
  <2>1. \A b : <<b, "members">> \notin set
    BY <1>6 DEF Asks, Accepted
  <2>2. kept = d.has
    BY <1>2, <1>a, <2>1 DEF Kept
  <2> QED BY <1>1, <2>2 DEF Asks, Solid
<1> QED BY <1>3, <1>4, <1>5, <1>6 DEF Solid

\* An object that is there with its block is kept with all blocks that it is in.
LEMMA MemberIsKept ==
    ASSUME NEW r, NEW d, NEW data, NEW t, NEW rebuild \in BOOLEAN, NEW recurse \in BOOLEAN, NEW set,
           Asks(r, d, data, t, rebuild, recurse, set),
           NEW x \in B!Universe \ {Root}, Up[x] \in r.has, x \in Kept(d, data, set)
    PROVE  x \in r.has
<1>1. \A o : o \in r.has <=> /\ o \in Kept(d, data, set)
                             /\ \A b \in B!Block : o \in Below(b) => b \in Kept(d, data, set)
  BY DEF Asks, IsRestored
<1>2. ASSUME NEW c \in B!Block, x \in Below(c) PROVE c \in Kept(d, data, set)
  <2>1. CASE c = x
    BY <2>1
  <2>2. CASE c # x
    <3>1. Up[x] \in Below(c)
      BY <1>2, <2>2, BackupValues, BelowParts
    <3> QED BY <1>1, <3>1
  <2> QED BY <2>1, <2>2
<1> QED BY <1>1, <1>2

\* What is set has the value of the data set.
LEMMA SetValues ==
    ASSUME NEW r, NEW d, NEW data, NEW t, NEW rebuild \in BOOLEAN, NEW recurse \in BOOLEAN, NEW set,
           Asks(r, d, data, t, rebuild, recurse, set), NEW k \in set, k[1] \in r.has
    PROVE  B!ValueOf(r, k[1], k[2]) = data[k]
<1>1. k \in DOMAIN data /\ k \in B!Universe \X B!Prop
  BY DEF Asks, Accepted, IsDataSet
<1>a. PICK o \in B!Universe, p \in B!Prop : k = <<o, p>>
  BY <1>1
<1>2. CASE p = "label"
  BY <1>a, <1>2 DEF Asks, IsRestored, B!ValueOf
<1>3. CASE p = "fixed"
  BY <1>a, <1>3 DEF Asks, IsRestored, B!ValueOf
<1>4. CASE p = "members"
  <2>1. k = <<o, "members">> /\ o \in B!Block /\ o \in r.has /\ data[k] \subseteq B!Universe
    BY <1>1, <1>4, <1>a DEF Asks, IsDataSet
  <2>2. \A b \in B!Block : <<b, "members">> \in set =>
            \A x \in data[<<b, "members">>] : x # Root /\ Up[x] = b
    BY DEF Asks, Accepted, Plain
  <2>3. ASSUME NEW x \in r.has, x # Root, Up[x] = o PROVE x \in data[k]
    <3>1. x \in Kept(d, data, set)
      BY DEF Asks, IsRestored
    <3> QED BY <2>1, <2>2, <2>3, <3>1 DEF Kept
  <2>4. ASSUME NEW x \in data[k] PROVE x \in r.has /\ x # Root /\ Up[x] = o
    <3>1. x # Root /\ Up[x] = o
      BY <2>1, <2>2
    <3>2. x \in Kept(d, data, set)
      BY <2>1, <3>1 DEF Kept
    <3> QED BY <2>1, <3>1, <3>2, MemberIsKept
  <2>5. B!ValueOf(r, k[1], k[2]) = {x \in r.has : x # Root /\ Up[x] = o}
    BY <2>1 DEF B!ValueOf, B!MembersOf
  <2> QED BY <2>3, <2>4, <2>5
<1> QED BY <1>2, <1>3, <1>4 DEF B!Prop

\* What is not set has the value it had.
LEMMA UnsetValues ==
    ASSUME NEW r, NEW d, NEW data, NEW t, NEW rebuild \in BOOLEAN, NEW recurse \in BOOLEAN, NEW set,
           Asks(r, d, data, t, rebuild, recurse, set),
           NEW o \in r.has, o \in d.has, NEW p \in B!PropsOf(o), <<o, p>> \notin set
    PROVE  B!ValueOf(r, o, p) = B!ValueOf(d, o, p)
<1>1. o \in B!Universe
  BY DEF Asks, BackupDevice
<1>2. CASE p = "label"
  BY <1>1, <1>2 DEF Asks, IsRestored, B!ValueOf
<1>3. CASE p = "fixed"
  BY <1>1, <1>3 DEF Asks, IsRestored, B!ValueOf
<1>4. CASE p = "members"
  <2>1. \A b \in B!Block : <<b, "members">> \in set =>
            b # o /\ \A x \in data[<<b, "members">>] : x # Root /\ Up[x] = b
    BY <1>4 DEF Asks, Accepted, Plain
  <2>2. ASSUME NEW x \in r.has, x # Root, Up[x] = o PROVE x \in d.has
    <3>1. x \in Kept(d, data, set)
      BY DEF Asks, IsRestored
    <3> QED BY <2>1, <2>2, <3>1 DEF Kept
  <2>3. ASSUME NEW x \in d.has, x # Root, Up[x] = o PROVE x \in r.has
    <3>1. x \in B!Universe
      BY DEF Asks, BackupDevice
    <3>2. x \in Kept(d, data, set)
      BY <2>1, <2>3, <3>1 DEF Kept
    <3> QED BY <2>3, <3>1, <3>2, MemberIsKept
  <2>4. /\ B!ValueOf(r, o, p) = {x \in r.has : x # Root /\ Up[x] = o}
        /\ B!ValueOf(d, o, p) = {x \in d.has : x # Root /\ Up[x] = o}
    BY <1>4 DEF B!ValueOf, B!MembersOf
  <2> QED BY <2>2, <2>3, <2>4
<1> QED BY <1>2, <1>3, <1>4 DEF B!PropsOf

--------------------
(* IS-14: what the suite makes of it.                                       *)

\* Without a notice, a property is set or has the value already.
LEMMA NotNoticed ==
    ASSUME NEW r, NEW d, NEW data, NEW t, NEW rebuild \in BOOLEAN, NEW recurse \in BOOLEAN, NEW set,
           Asks(r, d, data, t, rebuild, recurse, set),
           NEW k \in DOMAIN data, k[1] = t \/ (recurse /\ k[1] \in Below(t)),
           k \notin B!NoticesOf(d, data, t, rebuild, recurse)
    PROVE  k \in set \/ (k[1] \in d.has /\ data[k] = B!ValueOf(d, k[1], k[2]))
<1>1. /\ d.mistake = <<"none">> /\ \A x : d.mistake # <<"depth", x>> /\ d.mistake # <<"lenient", x>>
      /\ d.structure \in BOOLEAN
  BY DEF Asks, BackupDevice
<1>2. k \in B!InScope(d, data, t, recurse)
  BY <1>1 DEF B!InScope, Below
<1>3. ~B!Differs(d, k, data[k]) \/ B!Accepts(d, k, data[k], rebuild)
  BY <1>2 DEF B!NoticesOf
<1>4. CASE ~B!Differs(d, k, data[k])
  BY <1>4 DEF B!Differs
<1>5. CASE B!Accepts(d, k, data[k], rebuild)
  <2>1. k[2] \in {"label", "fixed", "members"}
    BY DEF Asks, IsDataSet, B!Prop
  <2>2. \/ k[1] \notin d.has /\ rebuild /\ d.structure
        \/ k[1] \in d.has /\ k[2] = "label" /\ k[1] \notin d.locked /\ data[k] # B!Incorrect
        \/ k[1] \in d.has /\ k[2] = "fixed" /\ rebuild /\ k[1] \in d.rebuildable
        \/ k[1] \in d.has /\ k[2] = "members" /\ rebuild /\ d.structure /\ k[1] \in d.rebuildable
    BY <1>1, <1>5, <2>1 DEF B!Accepts
  <2> QED BY <2>2 DEF Asks, Accepted
<1> QED BY <1>3, <1>4, <1>5

LEMMA AppliedValues ==
    ASSUME NEW r, NEW d, NEW data, NEW t, NEW rebuild \in BOOLEAN, NEW recurse \in BOOLEAN, NEW set,
           Asks(r, d, data, t, rebuild, recurse, set),
           NEW k \in DOMAIN data, k[1] = t \/ (recurse /\ k[1] \in Below(t)),
           k \notin B!NoticesOf(d, data, t, rebuild, recurse),
           k[1] \in r.has, k[2] \in B!PropsOf(k[1])
    PROVE  B!ValueOf(r, k[1], k[2]) = data[k]
<1>1. CASE k \in set
  BY <1>1, SetValues
<1>2. CASE k \notin set
  <2>1. k[1] \in d.has /\ data[k] = B!ValueOf(d, k[1], k[2])
    BY <1>2, NotNoticed
  <2>2. k = <<k[1], k[2]>>
    BY DEF Asks, IsDataSet
  <2>3. PICK o, p : o = k[1] /\ p = k[2]
    OBVIOUS
  <2>4. o \in r.has /\ o \in d.has /\ p \in B!PropsOf(o) /\ <<o, p>> \notin set
    BY <1>2, <2>1, <2>2, <2>3
  <2>5. B!ValueOf(r, o, p) = B!ValueOf(d, o, p)
    BY <2>4, UnsetValues
  <2> QED BY <2>1, <2>3, <2>5
<1> QED BY <1>1, <1>2

LEMMA BackupKeys ==
    ASSUME NEW d, NEW t, d.has \subseteq B!Universe
    PROVE  /\ \A k \in DOMAIN B!Backup(d, t) :
                  /\ k = <<k[1], k[2]>> /\ k[1] \in Below(t) /\ k[1] \in d.has /\ k[2] \in B!PropsOf(k[1])
                  /\ B!Backup(d, t)[k] = B!ValueOf(d, k[1], k[2])
           /\ \A o \in Below(t) \cap d.has : \A p \in B!PropsOf(o) : <<o, p>> \in DOMAIN B!Backup(d, t)
<1>1. \A o : B!PropsOf(o) \subseteq B!Prop
  BY DEF B!PropsOf, B!Prop
<1> QED BY <1>1 DEF B!Backup, Below

LEMMA SameAsItself == \A p, x : B!Same(p, x, x)
BY DEF B!Same

\* After a restore, the data set that is read agrees with the one that was sent.
LEMMA RestoreAgrees ==
    ASSUME NEW r, NEW d, NEW data, NEW t, NEW rebuild \in BOOLEAN, NEW recurse \in BOOLEAN, NEW set,
           Asks(r, d, data, t, rebuild, recurse, set), r.has \subseteq B!Universe,
           NEW original, recurse \/ (~rebuild /\ original = B!Backup(d, t)),
           NEW notices, notices = B!NoticesOf(d, data, t, rebuild, recurse)
    PROVE  ~B!CompareFails(original, data, B!Backup(r, t), t, notices, recurse, FALSE)
<1>a. PICK updated : updated = B!Backup(r, t)
  OBVIOUS
<1>1. \A k \in DOMAIN updated :
         /\ k = <<k[1], k[2]>> /\ k[1] \in Below(t) /\ k[1] \in r.has /\ k[2] \in B!PropsOf(k[1])
         /\ updated[k] = B!ValueOf(r, k[1], k[2])
  BY <1>a, BackupKeys
<1> SUFFICES ASSUME NEW k \in DOMAIN updated, k \notin notices, k \in DOMAIN data
             PROVE  /\ k[1] = t \/ recurse => B!Same(k[2], data[k], updated[k])
                    /\ ~recurse /\ k[1] # t /\ k \in DOMAIN original => B!Same(k[2], original[k], updated[k])
  BY <1>a DEF B!CompareFails, B!Compared
<1>2. ASSUME k[1] = t \/ recurse PROVE B!Same(k[2], data[k], updated[k])
  <2>1. updated[k] = data[k]
    BY <1>1, <1>2, AppliedValues
  <2> QED BY <2>1, SameAsItself
<1>3. ASSUME ~recurse, k[1] # t, k \in DOMAIN original PROVE B!Same(k[2], original[k], updated[k])
  <2>1. ~rebuild /\ original = B!Backup(d, t)
    BY <1>3
  <2>2. d.has \subseteq B!Universe
    BY DEF Asks, BackupDevice
  <2>3. k[1] \in d.has /\ original[k] = B!ValueOf(d, k[1], k[2])
    BY <1>3, <2>1, <2>2, BackupKeys
  <2>4. k \notin set
    BY <1>3 DEF Asks, Accepted
  <2>5. PICK o, p : o = k[1] /\ p = k[2]
    OBVIOUS
  <2>6. o \in r.has /\ o \in d.has /\ p \in B!PropsOf(o) /\ <<o, p>> \notin set
    BY <1>1, <2>3, <2>4, <2>5
  <2>7. B!ValueOf(r, o, p) = B!ValueOf(d, o, p)
    BY <2>6, UnsetValues
  <2>8. updated[k] = original[k]
    BY <1>1, <2>3, <2>5, <2>7
  <2> QED BY <2>8, SameAsItself
<1> QED BY <1>2, <1>3

\* A validation tells of all objects asked about, and of no problem.
LEMMA AllIsTold ==
    ASSUME NEW d, d.mistake = <<"none">>, NEW data, NEW t, NEW rebuild, NEW recurse \in BOOLEAN,
           \A k \in DOMAIN data : k[1] \in Below(t),
           NEW answer, answer = B!Answer(d, data, t, rebuild, recurse)
    PROVE  /\ answer.notices = B!NoticesOf(d, data, t, rebuild, recurse)
           /\ ~B!ObjectsWrong(data, answer, t, recurse) /\ ~B!Warned(answer)
           /\ \A o \in DOMAIN answer.status : answer.status[o] = 200
<1> DEFINE scope == {k[1] : k \in B!InScope(d, data, t, recurse)}
           expected == {o \in B!ObjectsOf(data) : recurse \/ o = t}
<1>1. /\ d.mistake[1] = "none" /\ \A x : d.mistake # <<"depth", x>>
      /\ \A x, y : d.mistake # <<"status", x, y>>
  OBVIOUS
<1>2. answer = [status |-> [o \in scope |-> 200], notices |-> B!NoticesOf(d, data, t, rebuild, recurse)]
  BY <1>1 DEF B!Answer
<1>3. B!InScope(d, data, t, recurse) = {k \in DOMAIN data : k[1] = t \/ recurse}
  BY <1>1 DEF B!InScope, Below
<1>4. scope = expected
  BY <1>3 DEF B!ObjectsOf
<1>5. scope \subseteq B!ObjectsOf(data)
  BY <1>4
<1> HIDE DEF scope
<1>6. DOMAIN answer.status = scope /\ \A o \in scope : answer.status[o] = 200
  BY <1>2
<1>7. ~B!ObjectsWrong(data, answer, t, recurse)
  BY <1>4, <1>5, <1>6 DEF B!ObjectsWrong
<1>8. ~B!Warned(answer)
  BY <1>6 DEF B!Warned
<1> QED BY <1>2, <1>6, <1>7, <1>8

\* What the device holds is plain, and so are its labels when they are changed.
LEMMA PlainBackup ==
    ASSUME NEW d \in BackupDevice, Solid(d), NEW t
    PROVE  Plain(B!Backup(d, t))
<1>a. PICK data : data = B!Backup(d, t)
  OBVIOUS
<1>1. d.has \subseteq B!Universe
  BY DEF BackupDevice
<1>2. \A k \in DOMAIN data : k = <<k[1], k[2]>> /\ k[1] \in d.has /\ data[k] = B!ValueOf(d, k[1], k[2])
  BY <1>1, <1>a, BackupKeys
<1>3. ASSUME NEW k \in DOMAIN data, k[2] = "label" PROVE data[k] # B!Incorrect
  BY <1>1, <1>2, <1>3 DEF B!ValueOf, Solid
<1>4. ASSUME NEW b \in B!Block, <<b, "members">> \in DOMAIN data, NEW o \in data[<<b, "members">>]
      PROVE  o # Root /\ Up[o] = b
  BY <1>2, <1>4 DEF B!ValueOf, B!MembersOf
<1> QED BY <1>3, <1>4, <1>a DEF Plain

LEMMA PlainChanges ==
    ASSUME NEW data, NEW keys, \A k \in keys : k[2] # "members", NEW some, some = B!Only(data, keys)
    PROVE  Plain([k \in DOMAIN some |-> B!Changed(some[k])])
<1>1. DOMAIN some \subseteq keys /\ \A v : B!Changed(v) # B!Incorrect
  BY DEF B!Only, B!Changed, B!Incorrect
<1>2. \A b : <<b, "members">> \notin keys
  OBVIOUS
<1> QED BY <1>1, <1>2 DEF Plain

LEMMA PlainWithout ==
    ASSUME NEW data, Plain(data), NEW keys
    PROVE  Plain(B!Without(data, keys))
BY DEF Plain, B!Without

--------------------
(* IS-14: the run with a conforming device.                                 *)

\* Nothing is held against it, and what is noted of it or meant for it is plain.
Clean(n) == n.errors = {} /\ Plain(n.first) /\ Plain(n.original) /\ Plain(n.data)

\* What is left of the data set is about the block that was visited last and what is below
\* it.  But for that block's members and the object added to it, it is as it was read, and so
\* is the device.
Agrees(d, n) ==
    /\ \A k \in DOMAIN n.data : k[1] \in Below(n.target)
    /\ \A k \in DOMAIN n.data : k[1] # New[n.target] /\ k # <<n.target, "members">> =>
           /\ k \in DOMAIN n.original /\ n.data[k] = n.original[k]
           /\ k[1] \in d.has => B!ValueOf(d, k[1], k[2]) = n.original[k]

\* With an object, what is in it.
Closed(data) ==
    \A b \in B!Block : <<b, "members">> \in DOMAIN data =>
        data[<<b, "members">>] \subseteq B!ObjectsOf(data)

\* Of a data set as it was read.
Reread(n, d, t) == n.original = B!Backup(d, t) /\ DOMAIN n.data \subseteq DOMAIN n.original

WalkPasses ==
    /\ On(B!Walking, "visit") \/ On(B!Walking, "restore") => \A e \in Elems(at.todo) : e[1] \in device.has
    /\ On(B!Walking, "restore") => Reread(noted, device, Subject[1])
RestorePasses == On(B!RestoreTests, "restore") => Reread(noted, device, Root)
BlocksPass ==
    /\ On(B!BlockTests, "visit") \/ On(B!BlockTests, "restore") =>
           /\ Distinct(at.todo) /\ Agrees(device, noted)
           /\ Head(at.plan) # "test_24" => Closed(noted.data)
    /\ On(B!BlockTests, "visit") => noted.target \notin Elems(at.todo)
    /\ On(B!BlockTests, "restore") => noted.target = Subject

FewFail ==
    /\ device.loses # "lost" => FailedTests = {}
    /\ \E test : FailedTests \subseteq {test}

Passes ==
    Solid(device) /\ Clean(noted) /\ WalkPasses /\ RestorePasses /\ BlocksPass /\ FewFail
PassInv == device.mistake = <<"none">> => Passes

LEMMA FewStay ==
    ASSUME FewFail, verdict' = verdict, device'.loses = device.loses
    PROVE  FewFail'
BY DEF FewFail, FailedTests

LEMMA PassConcludes ==
    ASSUME IsRun, FewFail, NEW v \in Verdict, Conclude(v), Solid(device'), Clean(noted'),
           \/ v # "FAIL" /\ device'.loses = device.loses
           \/ device.loses # "lost" /\ device'.loses = "lost"
    PROVE  Passes'
<1>1. at'.step = "begin"
  BY TestEnds
<1>2. \A tests : ~On(tests, "visit")' /\ ~On(tests, "restore")'
  BY <1>1 DEF On
<1>3. FewFail'
  <2>1. /\ FailedTests' \subseteq FailedTests \cup {Head(at.plan)}
        /\ v # "FAIL" => FailedTests' \subseteq FailedTests
    BY FailedParts
  <2> QED BY <2>1 DEF FewFail
<1>4. Solid(device)' /\ Clean(noted)'
  BY DEF Solid, Clean, Plain
<1>5. WalkPasses' /\ RestorePasses' /\ BlocksPass'
  BY <1>2 DEF WalkPasses, RestorePasses, BlocksPass
<1> QED BY <1>3, <1>4, <1>5 DEF Passes

LEMMA PassGoesOn ==
    ASSUME ~Ended, at'.plan = at.plan, FewFail, verdict' = verdict, device'.loses = device.loses,
           Solid(device'), Clean(noted'),
           Head(at.plan) \in B!Walking => WalkPasses',
           Head(at.plan) \in B!RestoreTests => RestorePasses',
           Head(at.plan) \in B!BlockTests => BlocksPass'
    PROVE  Passes'
<1>1. FewFail'
  BY FewStay
<1>2. Solid(device)' /\ Clean(noted)'
  BY DEF Solid, Clean, Plain
<1>3. \A tests, step : On(tests, step)' => Head(at.plan) \in tests
  BY DEF On
<1>4. WalkPasses' /\ RestorePasses' /\ BlocksPass'
  BY <1>3 DEF WalkPasses, RestorePasses, BlocksPass
<1> QED BY <1>1, <1>2, <1>4 DEF Passes

\* A device does not come to make other mistakes; it is lost once.
LEMMA SameMistake ==
    ASSUME BackupInv, B!Next
    PROVE  device'.mistake = device.mistake
<1>a. PICK yes \in BOOLEAN : yes = TRUE
  OBVIOUS
<1>b. PICK no \in BOOLEAN : no = FALSE
  OBVIOUS
<1>c. PICK rebuild \in BOOLEAN : rebuild = B!Rebuild
  BY DEF B!Rebuild
<1>1. device \in BackupDevice
  BY DEF BackupInv, BackupTypes
<1>2. ASSUME NEW data, NEW t, NEW build, NEW recurse
      PROVE  B!Restored(device, data, t, build, recurse).mistake = device.mistake
  <2>1. PICK h, l, f : B!Restored(device, data, t, build, recurse)
                           = [device EXCEPT !.has = h, !.label = l, !.fixed = f]
    BY DEF B!Restored
  <2> QED BY <1>1, <2>1 DEF BackupDevice
<1>3. ASSUME NEW data, NEW t, NEW build, NEW recurse
      PROVE  B!Validated(device, data, t, build, recurse).mistake = device.mistake
  BY <1>2 DEF B!Validated
<1>4. CASE B!SetUp \/ B!TearDown \/ B!WalkBegins \/ B!NotFound \/ B!JudgeWalk \/ B!NotInvasive
           \/ B!CheckModel \/ B!BlockBegins \/ B!SkipBlock
  BY <1>4 DEF B!SetUp, B!TearDown, B!WalkBegins, B!NotFound, B!JudgeWalk, B!NotInvasive,
              B!CheckModel, B!BlockBegins, B!SkipBlock
<1>5. CASE B!ValidateLabels
  <2>1. PICK data, t, recurse : device' = B!Validated(device, data, t, no, recurse)
    BY <1>b, <1>5 DEF B!ValidateLabels
  <2> QED BY <1>3, <2>1
<1>6. CASE B!RestoreLabels
  <2>1. PICK data, t, recurse : device' = B!Restored(device, data, t, no, recurse)
    BY <1>b, <1>6 DEF B!RestoreLabels
  <2> QED BY <1>2, <2>1
<1>7. CASE B!Reset
  <2>1. PICK data : device' = B!Restored(device, data, Root, no, yes)
    BY <1>a, <1>b, <1>7 DEF B!Reset
  <2> QED BY <1>2, <2>1
<1>8. CASE B!ValidateAll
  <2>1. PICK data : device' = device \/ device' = B!Validated(device, data, Root, rebuild, yes)
    BY <1>a, <1>c, <1>8 DEF B!ValidateAll
  <2> QED BY <1>3, <2>1
<1>9. CASE B!RestoreAll \/ B!Undo
  <2>1. PICK data : device' = B!Restored(device, data, Root, rebuild, yes)
    BY <1>a, <1>c, <1>9 DEF B!RestoreAll, B!Undo
  <2> QED BY <1>2, <2>1
<1>10. CASE B!ValidateBlock
  <2>1. PICK data, t : device' = B!Validated(device, data, t, yes, yes)
    BY <1>a, <1>10 DEF B!ValidateBlock
  <2> QED BY <1>3, <2>1
<1>11. CASE B!RestoreBlock \/ B!UndoBlocks
  <2>1. PICK data, t : device' = B!Restored(device, data, t, yes, yes)
    BY <1>a, <1>11 DEF B!RestoreBlock, B!UndoBlocks
  <2> QED BY <1>2, <2>1
<1>12. CASE B!IncorrectValues
  <2>1. PICK data : device' = device \/ device' = B!Validated(device, data, Root, no, yes)
    BY <1>a, <1>b, <1>12 DEF B!IncorrectValues
  <2> QED BY <1>3, <2>1
<1>13. CASE B!AnswerLost
  <2>1. PICK d \in {device, B!Sent} : device' = [d EXCEPT !.loses = "lost"]
    BY <1>13 DEF B!AnswerLost
  <2>2. d \in BackupDevice /\ d.mistake = device.mistake
    <3>1. /\ B!Restored(device, noted.data, B!Subject[1], no, B!Subject[2]).mistake = device.mistake
          /\ B!Restored(device, noted.first, Root, no, yes).mistake = device.mistake
          /\ B!Restored(device, noted.data, Root, rebuild, yes).mistake = device.mistake
          /\ B!Restored(device, noted.original, Root, rebuild, yes).mistake = device.mistake
          /\ B!Restored(device, noted.data, B!Subject, yes, yes).mistake = device.mistake
          /\ B!Restored(device, noted.original, noted.target, yes, yes).mistake = device.mistake
      BY <1>2
    <3>2. B!Sent.mistake = device.mistake
      BY <1>a, <1>b, <1>c, <3>1 DEF B!Sent
    <3> QED BY <1>1, <2>1, <3>2, SentIsOfKind
  <2> QED BY <2>1, <2>2 DEF BackupDevice
<1> QED BY <1>4, <1>5, <1>6, <1>7, <1>8, <1>9, <1>10, <1>11, <1>12, <1>13 DEF B!Next

LEMMA RestoresWell ==
    ASSUME NEW d \in BackupDevice, d.mistake = <<"none">>, Solid(d), NEW data, IsDataSet(data), Plain(data),
           NEW t \in B!Universe, NEW rebuild \in BOOLEAN, NEW recurse \in BOOLEAN,
           NEW r, r = B!Restored(d, data, t, rebuild, recurse),
           NEW set, set = Accepted(d, data, t, rebuild, recurse)
    PROVE  /\ Asks(r, d, data, t, rebuild, recurse, set) /\ Solid(r) /\ (~rebuild => r.has = d.has)
           /\ r.has \subseteq B!Universe /\ r.loses = d.loses
<1>1. Asks(r, d, data, t, rebuild, recurse, set)
  BY RestoredIs DEF Asks
<1>2. r \in BackupDevice /\ r.loses = d.loses
  BY RestoredParts
<1>3. r.has \subseteq B!Universe
  BY <1>2 DEF BackupDevice
<1> QED BY <1>1, <1>2, <1>3, SolidStays

\* Of a device that is only asked, what was read is what is read again.
LEMMA ValidationAgrees ==
    ASSUME NEW original, NEW data, NEW updated, NEW t, NEW notices, NEW recurse \in BOOLEAN,
           \A k \in DOMAIN updated \cap DOMAIN data : k \in DOMAIN original /\ original[k] = updated[k]
    PROVE  ~B!CompareFails(original, data, updated, t, notices, recurse, TRUE)
<1> SUFFICES ASSUME NEW k \in DOMAIN updated, k \in DOMAIN data
             PROVE  k \in DOMAIN original /\ B!Same(k[2], original[k], updated[k])
  BY DEF B!CompareFails, B!Compared
<1> QED BY SameAsItself

\* What is booked, when there is nothing to book.
LEMMA BookNothing ==
    ASSUME IsNotes(noted), Clean(noted), NEW errors, errors = {}, NEW checked \in SUBSET B!Result,
           NEW warnings \in SUBSET B!Result, NEW n, n = B!Book(errors, checked, warnings)
    PROVE  /\ IsNotes(n) /\ Clean(n) /\ n.done = noted.done /\ n.target = noted.target
           /\ n.first = noted.first /\ n.original = noted.original /\ n.data = noted.data
<1>1. errors \in SUBSET B!Result
  OBVIOUS
<1>2. n.errors = noted.errors \cup errors
  BY DEF B!Book, IsNotes
<1> QED BY <1>1, <1>2, BookParts DEF Clean

LEMMA CleanWith ==
    ASSUME NEW n, IsNotes(n), Clean(n), NEW original, NEW data, Plain(original), Plain(data), NEW target
    PROVE  /\ Clean([n EXCEPT !.data = data]) /\ Clean([n EXCEPT !.first = data])
           /\ Clean([n EXCEPT !.original = original, !.data = data])
           /\ Clean([n EXCEPT !.data = data, !.target = target])
           /\ Clean([n EXCEPT !.original = original, !.data = data, !.target = target])
BY DEF IsNotes, Clean

LEMMA PassRun ==
    ASSUME BackupInv, Passes
    PROVE  /\ IsRun /\ device \in BackupDevice /\ IsNotes(noted) /\ Solid(device) /\ Clean(noted) /\ FewFail
           /\ IsDataSet(noted.first) /\ IsDataSet(noted.original) /\ IsDataSet(noted.data)
           /\ Plain(noted.first) /\ Plain(noted.original) /\ Plain(noted.data)
BY DEF BackupInv, BackupTypes, IsNotes, Passes, Clean

LEMMA PassWalkTurn ==
    ASSUME BackupInv, Passes, On(B!Walking, "visit") \/ On(B!Walking, "restore")
    PROVE  Subject[1] \in device.has /\ \A e \in Elems(at.todo) : e[1] \in device.has
<1>1. PICK s : s = at.todo
  OBVIOUS
<1>2. Head(s) \in Elems(s)
  BY <1>1, WalkTurn, TailParts
<1> QED BY <1>1, <1>2 DEF Passes, WalkPasses, Subject

LEMMA PassJudges ==
    ASSUME BackupInv, Passes, B!SetUp \/ B!TearDown \/ B!JudgeWalk \/ B!NotInvasive
    PROVE  Passes'
<1>1. noted.errors = {}
  BY DEF Passes, Clean
<1>2. /\ device' = device /\ (noted' = noted \/ noted' = B!NothingNoted)
      /\ \E v \in {"PASS", "UNCLEAR", "DISABLED"} : Conclude(v)
  BY <1>1, BackupRun DEF B!SetUp, B!TearDown, B!JudgeWalk, B!NotInvasive
<1>3. Clean(B!NothingNoted)
  <2>1. \A k : k \notin DOMAIN <<>>
    OBVIOUS
  <2>2. PICK none : none = <<>>
    OBVIOUS
  <2>3. Plain(none)
    BY <2>1, <2>2 DEF Plain
  <2> QED BY <2>2, <2>3 DEF Clean, B!NothingNoted
<1> QED BY <1>2, <1>3, PassRun, BackupVerdicts, PassConcludes

LEMMA PassNotFound ==
    ASSUME BackupInv, Passes, B!NotFound
    PROVE  Passes'
BY BackupRun, PassWalkTurn DEF B!NotFound

LEMMA PassWalkBegins ==
    ASSUME BackupInv, Passes, B!WalkBegins
    PROVE  Passes'
<1>1. On(B!Walking, "begin") /\ device' = device /\ B!Visit(B!Paths)
      /\ noted' = [noted EXCEPT !.first = B!Backup(device, Root)]
  BY BackupRun DEF B!WalkBegins
<1>2. device \in BackupDevice /\ IsNotes(noted) /\ IsRun /\ Solid(device) /\ Clean(noted) /\ FewFail
  BY PassRun
<1>3. PICK paths : paths = B!Paths
  OBVIOUS
<1>4. at' = [at EXCEPT !.step = "visit", !.todo = paths, !.tries = 0] /\ verdict' = verdict
  BY <1>1, <1>2, <1>3, PathsParts DEF B!Visit
<1>5. IsRun' /\ at'.step = "visit" /\ at'.plan = at.plan /\ at'.todo = paths
  BY <1>2, <1>4, TestGoesOn
<1>6. \A e \in Elems(paths) : e[1] \in device.has
  BY <1>2, <1>3, PathsParts DEF Solid
<1>7. Elems(at.todo)' = Elems(paths)
  BY <1>5 DEF Elems
<1>8. WalkPasses'
  BY <1>1, <1>5, <1>6, <1>7 DEF WalkPasses, On
<1>9. Clean(noted')
  BY <1>1, <1>2, PlainBackup, CleanWith
<1>10. ~Ended /\ Head(at.plan) \notin B!RestoreTests /\ Head(at.plan) \notin B!BlockTests
  BY <1>1, TestsApart DEF On
<1>11. Solid(device')
  BY <1>1, <1>2
<1> QED BY <1>1, <1>2, <1>4, <1>5, <1>8, <1>9, <1>10, <1>11, PassGoesOn

LEMMA PassNextPath ==
    ASSUME BackupInv, Passes, On(B!Walking, "visit") \/ On(B!Walking, "restore"), B!NextPath,
           device'.has = device.has, device'.loses = device.loses, Solid(device'), Clean(noted')
    PROVE  Passes'
<1>1. IsRun /\ FewFail /\ at.todo \in Seq(Path) /\ at.todo # <<>> /\ ~Ended /\ Head(at.plan) \in B!Walking
  BY PassRun, WalkTurn
<1>2. /\ at'.plan = at.plan /\ at'.step \in {"visit", "reset"}
      /\ at'.step # "reset" => Elems(at'.todo) \subseteq Elems(at.todo)
  BY <1>1, NextPathParts
<1>3. verdict' = verdict
  BY BackupRun DEF B!NextPath, Step
<1>4. WalkPasses'
  <2>1. \A e \in Elems(at.todo) : e[1] \in device'.has
    BY PassWalkTurn
  <2>2. Elems(at.todo)' = Elems(at'.todo)
    BY DEF Elems
  <2>3. ~On(B!Walking, "restore")' /\ (On(B!Walking, "visit")' => at'.step # "reset")
    BY <1>2 DEF On
  <2> QED BY <1>2, <2>1, <2>2, <2>3 DEF WalkPasses
<1>5. Head(at.plan) \notin B!RestoreTests /\ Head(at.plan) \notin B!BlockTests
  BY <1>1, TestsApart
<1> QED BY <1>1, <1>2, <1>3, <1>4, <1>5, PassGoesOn

LEMMA PassValidateLabels ==
    ASSUME BackupInv, Passes, device.mistake = <<"none">>, B!ValidateLabels
    PROVE  Passes'
<1>0. PICK no \in BOOLEAN : no = FALSE
  OBVIOUS
<1> DEFINE target == Subject[1]  recurse == Subject[2]
           original == B!Backup(device, target)
           keys == B!Universe \X {"label"}
           labels == B!Only(original, keys)
           data == [k \in DOMAIN labels |-> B!Changed(labels[k])]
           answer == B!Answer(device, data, target, no, recurse)
           after == B!Validated(device, data, target, no, recurse)
           modified == B!CompareFails(original, data, B!Backup(after, target), target,
                                      answer.notices, recurse, TRUE)
           errors == B!If(modified, "validate modifies")
                         \cup B!If(B!ObjectsWrong(data, answer, target, recurse), "validate objects")
           checked == {"validate type", "validate objects", "validate modifies"}
           book == B!Book(errors, checked, {})
<1>1. /\ On(B!Walking, "visit") /\ device' = after
      /\ noted' = [book EXCEPT !.original = original, !.data = data]
      /\ "validate modifies" \in noted'.errors \/ Step("restore", 0)
  <2>1. B!On(B!Walking, "visit") /\ B!Subject = Subject /\ (B!Goto("restore") <=> Step("restore", 0))
    BY BackupRun DEF B!ValidateLabels
  <2> QED BY <1>0, <2>1, BackupRun DEF B!ValidateLabels
<1>2. /\ IsRun /\ device \in BackupDevice /\ IsNotes(noted) /\ Subject \in Path
      /\ at.todo \in Seq(Path) /\ at.todo # <<>> /\ ~Ended /\ Head(at.plan) \in B!Walking
      /\ Solid(device) /\ Clean(noted) /\ FewFail
  BY <1>1, WalkTurn, PassRun
<1>3. recurse \in BOOLEAN /\ target \in B!Universe /\ device.has \subseteq B!Universe
  BY <1>2 DEF Path, BackupDevice
<1>4. IsDataSet(original) /\ Plain(original)
  BY <1>2, BackupParts, PlainBackup
<1>5. DOMAIN data \subseteq DOMAIN original
  BY DEF B!Only
<1>6. \A k \in DOMAIN original : k[1] \in Below(target)
  BY <1>3, BackupKeys
<1>7. IsDataSet(data) /\ Plain(data)
  <2>1. \A k \in keys : k[2] # "members"
    OBVIOUS
  <2> HIDE DEF original, keys
  <2> QED BY <1>4, <2>1, ChangedParts, PlainChanges
<1> HIDE DEF data
<1>8. after = device
  BY <1>2, <1>7, ValidatedParts
<1>9. ~modified
  <2>1. \A k \in DOMAIN B!Backup(after, target) \cap DOMAIN data :
            k \in DOMAIN original /\ original[k] = B!Backup(after, target)[k]
    BY <1>8
  <2> HIDE DEF after, original, answer
  <2> QED BY <1>3, <2>1, ValidationAgrees
<1>10. ~B!ObjectsWrong(data, answer, target, recurse)
  <2>1. \A k \in DOMAIN data : k[1] \in Below(target)
    BY <1>5, <1>6
  <2> HIDE DEF answer
  <2>2. answer = B!Answer(device, data, target, no, recurse)
    BY DEF answer
  <2> QED BY <1>3, <2>1, <2>2, AllIsTold
<1> HIDE DEF modified, answer, after
<1>11. errors = {}
  BY <1>9, <1>10 DEF B!If
<1>12. checked \in SUBSET B!Result /\ {} \in SUBSET B!Result
  BY DEF B!Result
<1> HIDE DEF original, errors, checked
<1>13. IsNotes(book) /\ Clean(book)
  BY <1>2, <1>11, <1>12, BookNothing
<1> HIDE DEF book
<1>14. /\ Clean(noted') /\ noted'.original = original /\ noted'.data = data
  <2>1. Clean([book EXCEPT !.original = original, !.data = data])
    BY <1>4, <1>7, <1>13, CleanWith
  <2> QED BY <1>1, <1>13, <2>1 DEF IsNotes
<1>15. Step("restore", 0)
  BY <1>1, <1>14 DEF Clean
<1>16. at'.step = "restore" /\ at'.plan = at.plan /\ at'.todo = at.todo /\ verdict' = verdict
  BY <1>2, <1>15, TestSteps
<1>17. device' = device
  BY <1>1, <1>8
<1>18. WalkPasses'
  <2>1. Elems(at.todo)' = Elems(at.todo) /\ Subject' = Subject
    BY <1>16 DEF Elems, Subject
  <2>2. \A e \in Elems(at.todo)' : e[1] \in device'.has
    BY <1>1, <1>17, <2>1, PassWalkTurn
  <2>3. Reread(noted, device, Subject[1])'
    BY <1>5, <1>14, <1>17, <2>1 DEF Reread, original
  <2> QED BY <2>2, <2>3 DEF WalkPasses
<1>19. Head(at.plan) \notin B!RestoreTests /\ Head(at.plan) \notin B!BlockTests
  BY <1>2, TestsApart
<1> QED BY <1>2, <1>14, <1>16, <1>17, <1>18, <1>19, PassGoesOn

LEMMA PassRestoreLabels ==
    ASSUME BackupInv, Passes, device.mistake = <<"none">>, B!RestoreLabels
    PROVE  Passes'
<1>0. PICK no \in BOOLEAN : no = FALSE
  OBVIOUS
<1> DEFINE target == Subject[1]  recurse == Subject[2]  data == noted.data
           answer == B!Answer(device, data, target, no, recurse)
           after == B!Restored(device, data, target, no, recurse)
           set == Accepted(device, data, target, no, recurse)
           failed == B!CompareFails(noted.original, data, B!Backup(after, target), target,
                                    answer.notices, recurse, FALSE)
           errors == B!If(failed, "restore modifies")
                         \cup B!If(B!ObjectsWrong(data, answer, target, recurse), "restore objects")
           checked == {"restore type", "restore objects", "restore modifies"}
           book == B!Book(errors, checked, {})
<1>1. /\ On(B!Walking, "restore") /\ device' = after /\ noted' = book
      /\ target \in after.has => B!NextPath
  <2>1. B!On(B!Walking, "restore") /\ B!Subject = Subject
    BY BackupRun DEF B!RestoreLabels
  <2> QED BY <1>0, <2>1, BackupRun DEF B!RestoreLabels
<1>2. /\ device \in BackupDevice /\ IsNotes(noted) /\ Subject \in Path
      /\ Solid(device) /\ Clean(noted) /\ IsDataSet(data) /\ Plain(data)
      /\ target \in device.has
  BY <1>1, WalkTurn, PassRun, PassWalkTurn
<1>3. recurse \in BOOLEAN /\ target \in B!Universe /\ device.has \subseteq B!Universe
  BY <1>2 DEF Path, BackupDevice
<1>4. noted.original = B!Backup(device, target) /\ DOMAIN data \subseteq DOMAIN noted.original
  BY <1>1 DEF Passes, WalkPasses, Reread
<1>5. \A k \in DOMAIN data : k[1] \in Below(target)
  BY <1>3, <1>4, BackupKeys
<1> HIDE DEF data, target, recurse
<1>6. /\ Asks(after, device, data, target, no, recurse, set) /\ Solid(after) /\ after.has = device.has
      /\ after.has \subseteq B!Universe /\ after.loses = device.loses
  BY <1>0, <1>2, <1>3, RestoresWell
<1> HIDE DEF after, set
<1>7. /\ answer.notices = B!NoticesOf(device, data, target, no, recurse)
      /\ ~B!ObjectsWrong(data, answer, target, recurse)
  BY <1>3, <1>5, AllIsTold
<1> HIDE DEF answer
<1>8. ~failed
  <2>1. PICK notices, original :
            /\ notices = answer.notices /\ original = noted.original
            /\ notices = B!NoticesOf(device, data, target, no, recurse)
            /\ original = B!Backup(device, target)
    BY <1>4, <1>7
  <2>2. ~B!CompareFails(original, data, B!Backup(after, target), target, notices, recurse, FALSE)
    BY <1>0, <1>3, <1>6, <2>1, RestoreAgrees
  <2> QED BY <2>1, <2>2
<1> HIDE DEF failed
<1>9. errors = {}
  BY <1>7, <1>8 DEF B!If
<1>10. checked \in SUBSET B!Result /\ {} \in SUBSET B!Result
  BY DEF B!Result
<1> HIDE DEF errors, checked
<1>11. Clean(book)
  BY <1>2, <1>9, <1>10, BookNothing
<1> HIDE DEF book
<1>12. B!NextPath /\ Clean(noted') /\ Solid(device') /\ device'.has = device.has /\ device'.loses = device.loses
  BY <1>1, <1>2, <1>6, <1>11
<1> QED BY <1>1, <1>12, PassNextPath

LEMMA PassReset ==
    ASSUME BackupInv, Passes, device.mistake = <<"none">>, B!Reset
    PROVE  Passes'
<1>0. PICK no \in BOOLEAN : no = FALSE
  OBVIOUS
<1>00. PICK yes \in BOOLEAN : yes = TRUE
  OBVIOUS
<1> DEFINE after == B!Restored(device, noted.first, Root, no, yes)
           checked == noted.checked \cup {"restore type"}
<1>1. /\ On(B!Walking, "reset") /\ device' = after
      /\ noted' = [noted EXCEPT !.done = TRUE, !.checked = checked] /\ Step("begin", 0)
  BY <1>0, <1>00, BackupRun DEF B!Reset
<1>2. Solid(after) /\ after.loses = device.loses
  BY PassRun, BackupValues, RestoresWell
<1> HIDE DEF after, checked
<1>3. Clean(noted')
  BY <1>1, PassRun DEF IsNotes, Clean
<1>4. at'.step = "begin" /\ at'.plan = at.plan /\ verdict' = verdict
  BY <1>1, PassRun, TestSteps
<1>5. WalkPasses'
  BY <1>4 DEF WalkPasses, On
<1>6. ~Ended /\ Head(at.plan) \notin B!RestoreTests /\ Head(at.plan) \notin B!BlockTests
  BY <1>1, TestsApart DEF On
<1> QED BY <1>1, <1>2, <1>3, <1>4, <1>5, <1>6, PassRun, PassGoesOn

\* No label is set to an incorrect value, and all have another one.
LEMMA PassIncorrect ==
    ASSUME BackupInv, Passes, device.mistake = <<"none">>, B!IncorrectValues
    PROVE  Passes'
<1>0. PICK no \in BOOLEAN : no = FALSE
  OBVIOUS
<1>00. PICK yes \in BOOLEAN : yes = TRUE
  OBVIOUS
<1> DEFINE original == B!Backup(device, Root)
           labels == B!Only(original, B!IncorrectOf(Head(at.plan)))
           data == [k \in DOMAIN labels |-> B!Incorrect]
           answer == B!Answer(device, data, Root, no, yes)
           after == B!Validated(device, data, Root, no, yes)
<1>1. device \in BackupDevice /\ IsNotes(noted) /\ IsRun /\ Solid(device) /\ Clean(noted) /\ FewFail
  BY PassRun
<1>2. \A k \in DOMAIN labels : k \in DOMAIN original /\ k[2] = "label"
  BY DEF B!Only, B!IncorrectOf
<1>3. device.has \subseteq B!Universe
  BY <1>1 DEF BackupDevice
<1>4. \A k \in DOMAIN original : k[1] \in device.has /\ k[1] \in Below(Root)
  BY <1>3, BackupKeys
<1>5. IsDataSet(data)
  <2>1. IsDataSet(original)
    BY <1>1, BackupParts
  <2> HIDE DEF labels, original
  <2> QED BY <1>2, <2>1 DEF IsDataSet, B!Incorrect
<1>6. DOMAIN data = DOMAIN labels /\ \A k \in DOMAIN data : data[k] = B!Incorrect
  OBVIOUS
<1> HIDE DEF data, labels
<1>7. after = device
  BY <1>1, <1>5, ValidatedParts
<1>8. answer.notices = B!NoticesOf(device, data, Root, no, yes)
  <2>1. \A k \in DOMAIN data : k[1] \in Below(Root)
    BY <1>2, <1>4, <1>6
  <2>2. answer = B!Answer(device, data, Root, no, yes)
    OBVIOUS
  <2> HIDE DEF answer
  <2> QED BY <2>1, <2>2, AllIsTold
<1>9. DOMAIN data \subseteq answer.notices
  <2> SUFFICES ASSUME NEW k \in DOMAIN data PROVE k \in B!NoticesOf(device, data, Root, no, yes)
    BY <1>8
  <2>1. k[2] = "label" /\ k[1] \in device.has /\ k[1] \in Below(Root) /\ data[k] = B!Incorrect
    BY <1>2, <1>4, <1>6
  <2>2. \A x : device.mistake # <<"depth", x>> /\ device.mistake # <<"lenient", x>>
    OBVIOUS
  <2>3. k \in B!InScope(device, data, Root, yes)
    BY <1>00, <2>1, <2>2 DEF B!InScope, Below
  <2>4. B!Differs(device, k, data[k])
    BY <1>1, <1>3, <2>1 DEF B!Differs, B!ValueOf, Solid
  <2>5. ~B!Accepts(device, k, data[k], no)
    BY <2>1, <2>2 DEF B!Accepts
  <2> QED BY <2>3, <2>4, <2>5 DEF B!NoticesOf
<1>10. noted' = noted
  BY DEF B!IncorrectValues
<1>11. \/ Conclude("UNCLEAR") /\ device' = device
       \/ device' = after /\ Conclude(IF DOMAIN data \subseteq answer.notices THEN "PASS" ELSE "FAIL")
  BY <1>0, <1>00, BackupRun DEF B!IncorrectValues, data, labels
<1> HIDE DEF answer, after
<1>12. device' = device /\ \E v \in {"UNCLEAR", "PASS"} : Conclude(v)
  BY <1>7, <1>9, <1>11
<1> QED BY <1>1, <1>10, <1>12, BackupVerdicts, PassConcludes

--------------------
(* IS-14: a conforming device and the tests that restore everything.        *)

LEMMA AnewIsClean ==
    ASSUME IsNotes(noted), Clean(noted)
    PROVE  IsNotes(B!Anew) /\ Clean(B!Anew)
<1>1. /\ B!Anew.errors = noted.errors \ {"own"} /\ B!Anew.first = noted.first
      /\ B!Anew.original = noted.original /\ B!Anew.data = noted.data
  BY DEF B!Anew, IsNotes
<1> QED BY <1>1, AnewParts DEF Clean

LEMMA PassValidateAll ==
    ASSUME BackupInv, Passes, device.mistake = <<"none">>, B!ValidateAll
    PROVE  Passes'
<1>a. PICK yes \in BOOLEAN : yes = TRUE
  OBVIOUS
<1>b. PICK rebuild \in BOOLEAN : rebuild = B!Rebuild
  BY DEF B!Rebuild
<1> DEFINE original == B!Backup(device, Root)
           keys == B!UnderTest(Head(at.plan))
           values == B!Only(original, keys)
           data == [k \in DOMAIN values |-> B!Changed(values[k])]
           answer == B!Answer(device, data, Root, B!Rebuild, TRUE)
           left == B!Without(data, answer.notices)
           after == B!Validated(device, data, Root, rebuild, yes)
<1>1. /\ On(B!RestoreTests, "begin") /\ (device' = device \/ device' = after)
      /\ noted' = [B!Anew EXCEPT !.original = original, !.data = left]
      /\ Conclude("UNCLEAR") \/ Step("restore", 0) \/ Step("model", 0)
  <2>1. /\ B!On(B!RestoreTests, "begin") /\ (B!Conclude("UNCLEAR") <=> Conclude("UNCLEAR"))
        /\ (B!Goto("restore") <=> Step("restore", 0)) /\ (B!Goto("model") <=> Step("model", 0))
    BY BackupRun DEF B!ValidateAll
  <2> QED BY <1>a, <1>b, <2>1, BackupRun DEF B!ValidateAll
<1>2. device \in BackupDevice /\ IsNotes(noted) /\ IsRun /\ Solid(device) /\ Clean(noted) /\ FewFail
  BY PassRun
<1>3. IsDataSet(original) /\ Plain(original)
  BY <1>2, BackupParts, PlainBackup
<1>4. \A k \in keys : k[2] # "members"
  BY <1>1 DEF B!UnderTest, B!RestoreTests, On
<1>5. DOMAIN data \subseteq DOMAIN original
  BY DEF B!Only
<1>6. IsDataSet(data) /\ Plain(data)
  <2> HIDE DEF original, keys
  <2> QED BY <1>3, <1>4, ChangedParts, PlainChanges
<1> HIDE DEF data, answer, original
<1>7. Plain(left) /\ DOMAIN left \subseteq DOMAIN original
  BY <1>5, <1>6, PlainWithout, WithoutParts
<1>8. after = device
  BY <1>2, <1>6, ValidatedParts
<1> HIDE DEF left, after
<1>9. Clean(noted') /\ noted'.original = original /\ noted'.data = left
  <2>1. IsNotes(B!Anew) /\ Clean(B!Anew)
    BY <1>2, AnewIsClean
  <2>2. Clean([B!Anew EXCEPT !.original = original, !.data = left])
    BY <1>3, <1>7, <2>1, CleanWith
  <2> QED BY <1>1, <2>1, <2>2 DEF IsNotes
<1>10. device' = device
  BY <1>1, <1>8
<1>11. CASE Conclude("UNCLEAR")
  BY <1>2, <1>9, <1>10, <1>11, BackupVerdicts, PassConcludes
<1>12. CASE Step("restore", 0)
  <2>1. at'.step = "restore" /\ at'.plan = at.plan /\ verdict' = verdict
    BY <1>2, <1>12, TestSteps
  <2>2. ~Ended /\ Head(at.plan) \notin B!Walking /\ Head(at.plan) \notin B!BlockTests
    BY <1>1, TestsApart DEF On
  <2>3. RestorePasses'
    BY <1>7, <1>9, <1>10 DEF RestorePasses, Reread, original
  <2> QED BY <1>2, <1>9, <1>10, <2>1, <2>2, <2>3, PassGoesOn
<1>13. CASE Step("model", 0)
  <2>1. at'.step = "model" /\ at'.plan = at.plan /\ verdict' = verdict
    BY <1>2, <1>13, TestSteps
  <2>2. ~Ended /\ Head(at.plan) \notin B!Walking /\ Head(at.plan) \notin B!BlockTests
    BY <1>1, TestsApart DEF On
  <2>3. RestorePasses'
    BY <2>1 DEF RestorePasses, On
  <2> QED BY <1>2, <1>9, <1>10, <2>1, <2>2, <2>3, PassGoesOn
<1> QED BY <1>1, <1>11, <1>12, <1>13

LEMMA PassRestoreAll ==
    ASSUME BackupInv, Passes, device.mistake = <<"none">>, B!RestoreAll
    PROVE  Passes'
<1>a. PICK yes \in BOOLEAN : yes = TRUE
  OBVIOUS
<1>b. PICK rebuild \in BOOLEAN : rebuild = B!Rebuild
  BY DEF B!Rebuild
<1> DEFINE data == noted.data
           answer == B!Answer(device, data, Root, rebuild, yes)
           after == B!Restored(device, data, Root, rebuild, yes)
           set == Accepted(device, data, Root, rebuild, yes)
           failed == \/ B!ObjectsWrong(data, answer, Root, yes)
                     \/ B!CompareFails(noted.original, data, B!Backup(after, Root), Root,
                                       answer.notices, yes, FALSE)
           errors == B!If(failed, "own")
           warnings == B!If(B!Warned(answer), "own")
           book == B!Book(errors, {"own"}, warnings)
<1>1. /\ On(B!RestoreTests, "restore") /\ device' = after /\ noted' = book
      /\ IF ~B!Rebuild /\ B!StructureChanged(after) THEN Conclude("FAIL") ELSE Step("undo", 0)
  <2>1. /\ B!On(B!RestoreTests, "restore") /\ (B!Conclude("FAIL") <=> Conclude("FAIL"))
        /\ (B!Goto("undo") <=> Step("undo", 0))
    BY BackupRun DEF B!RestoreAll
  <2> QED BY <1>a, <1>b, <2>1, BackupRun DEF B!RestoreAll
<1>2. /\ device \in BackupDevice /\ IsNotes(noted) /\ IsRun /\ Solid(device) /\ Clean(noted) /\ FewFail
      /\ IsDataSet(data) /\ Plain(data) /\ Root \in B!Universe
  BY PassRun, BackupValues
<1>3. noted.original = B!Backup(device, Root) /\ DOMAIN data \subseteq DOMAIN noted.original
  BY <1>1 DEF Passes, RestorePasses, Reread
<1>4. device.has \subseteq B!Universe
  BY <1>2 DEF BackupDevice
<1>5. \A k \in DOMAIN data : k[1] \in Below(Root) /\ k[1] \in device.has
  BY <1>3, <1>4, BackupKeys
<1> HIDE DEF data
<1>6. /\ Asks(after, device, data, Root, rebuild, yes, set) /\ Solid(after)
      /\ (~rebuild => after.has = device.has)
      /\ after.has \subseteq B!Universe /\ after.loses = device.loses
  BY <1>2, RestoresWell
<1> HIDE DEF after, set
<1>7. answer.notices = B!NoticesOf(device, data, Root, rebuild, yes) /\ ~B!ObjectsWrong(data, answer, Root, yes)
  BY <1>5, AllIsTold
<1> HIDE DEF answer
<1>8. ~failed
  <2>1. PICK notices, original :
            /\ notices = answer.notices /\ original = noted.original
            /\ notices = B!NoticesOf(device, data, Root, rebuild, yes)
    BY <1>7
  <2>2. ~B!CompareFails(original, data, B!Backup(after, Root), Root, notices, yes, FALSE)
    BY <1>a, <1>6, <2>1, RestoreAgrees
  <2> QED BY <1>7, <2>1, <2>2
<1> HIDE DEF failed
<1>9. errors = {}
  BY <1>8 DEF B!If
<1>10. {"own"} \in SUBSET B!Result /\ warnings \in SUBSET B!Result
  BY IfParts DEF B!Result
<1> HIDE DEF errors, warnings
<1>11. Clean(book)
  BY <1>2, <1>9, <1>10, BookNothing
<1> HIDE DEF book
<1>12. ~B!Rebuild => ~B!StructureChanged(after)
  <2> SUFFICES ASSUME after.has = device.has, NEW b \in B!Block, b \in B!ObjectsOf(data)
               PROVE  B!MembersOf(after, b) = noted.original[<<b, "members">>]
    BY <1>b, <1>6 DEF B!StructureChanged, data
  <2>1. b \in device.has /\ b \in Below(Root) /\ "members" \in B!PropsOf(b)
    BY <1>5 DEF B!ObjectsOf, B!PropsOf
  <2>2. PICK k : k = <<b, "members">>
    OBVIOUS
  <2>3. k \in DOMAIN B!Backup(device, Root)
    BY <1>4, <2>1, <2>2, BackupKeys
  <2>4. B!Backup(device, Root)[k] = B!ValueOf(device, k[1], k[2])
    BY <1>4, <2>3, BackupKeys
  <2>5. B!ValueOf(device, k[1], k[2]) = B!MembersOf(device, b)
    BY <2>2 DEF B!ValueOf
  <2>6. B!MembersOf(after, b) = B!MembersOf(device, b)
    BY DEF B!MembersOf
  <2> QED BY <1>3, <2>2, <2>4, <2>5, <2>6
<1>13. Step("undo", 0) /\ Clean(noted') /\ Solid(device') /\ device'.loses = device.loses
  BY <1>1, <1>6, <1>11, <1>12
<1>14. at'.step = "undo" /\ at'.plan = at.plan /\ verdict' = verdict
  BY <1>2, <1>13, TestSteps
<1>15. ~Ended /\ Head(at.plan) \notin B!Walking /\ Head(at.plan) \notin B!BlockTests
  BY <1>1, TestsApart DEF On
<1>16. RestorePasses'
  BY <1>14 DEF RestorePasses, On
<1> QED BY <1>2, <1>13, <1>14, <1>15, <1>16, PassGoesOn

LEMMA PassUndo ==
    ASSUME BackupInv, Passes, device.mistake = <<"none">>, B!Undo
    PROVE  Passes'
<1>a. PICK yes \in BOOLEAN : yes = TRUE
  OBVIOUS
<1>b. PICK rebuild \in BOOLEAN : rebuild = B!Rebuild
  BY DEF B!Rebuild
<1> DEFINE after == B!Restored(device, noted.original, Root, rebuild, yes)
<1>1. /\ On(B!RestoreTests, "undo") /\ device' = after /\ noted' = noted
      /\ Conclude(B!OwnResult) \/ Step("model", 0)
  BY <1>a, <1>b, BackupRun DEF B!Undo
<1>2. Solid(after) /\ after.loses = device.loses
  BY PassRun, BackupValues, RestoresWell
<1>3. PICK v \in {"PASS", "UNCLEAR", "WARNING"} : v = B!OwnResult
  BY PassRun DEF B!OwnResult, Clean
<1> HIDE DEF after
<1>4. CASE Conclude(B!OwnResult)
  BY <1>1, <1>2, <1>3, <1>4, PassRun, BackupVerdicts, PassConcludes
<1>5. CASE Step("model", 0)
  <2>1. at'.step = "model" /\ at'.plan = at.plan /\ verdict' = verdict
    BY <1>5, PassRun, TestSteps
  <2>2. ~Ended /\ Head(at.plan) \notin B!Walking /\ Head(at.plan) \notin B!BlockTests
    BY <1>1, TestsApart DEF On
  <2>3. RestorePasses'
    BY <2>1 DEF RestorePasses, On
  <2> QED BY <1>1, <1>2, <2>1, <2>2, <2>3, PassRun, PassGoesOn
<1> QED BY <1>1, <1>4, <1>5

LEMMA PassCheckModel ==
    ASSUME BackupInv, Passes, device.mistake = <<"none">>, B!CheckModel
    PROVE  Passes'
<1>1. PICK v \in {"PASS", "UNCLEAR", "WARNING"} : v = B!OwnResult
  BY PassRun DEF B!OwnResult, Clean
<1>2. Conclude(v) /\ device' = device /\ noted' = noted
  BY <1>1, BackupRun DEF B!CheckModel
<1> QED BY <1>1, <1>2, PassRun, BackupVerdicts, PassConcludes


--------------------
(* IS-14: a conforming device and the blocks that are changed.              *)

\* Of a block below the one that was visited last, all is as it was read.
LEMMA RestIsAsRead ==
    ASSUME NEW d, NEW n, Agrees(d, n), n.target \in B!Block, NEW b \in B!Block, b \in B!ObjectsOf(n.data),
           b # n.target
    PROVE  \A k \in DOMAIN n.data : k[1] \in Below(b) =>
               /\ k[1] # New[n.target] /\ k \in DOMAIN n.original /\ n.data[k] = n.original[k]
               /\ k[1] \in d.has => B!ValueOf(d, k[1], k[2]) = n.original[k]
<1>a. PICK t : t = n.target
  OBVIOUS
<1>1. b \in Below(t) /\ t \in B!Universe /\ b \in B!Universe
  BY <1>a, BackupValues DEF Agrees, B!ObjectsOf
<1>2. t \notin Below(b)
  BY <1>1, <1>a, NoCircle
<1>3. New[t] \notin Below(b)
  <2>1. New[t] # b /\ Up[New[t]] = t
    BY <1>a, BackupValues
  <2> QED BY <1>1, <1>2, <2>1, BelowParts
<1>4. ASSUME NEW k \in DOMAIN n.data, k[1] \in Below(b) PROVE k[1] # New[t] /\ k # <<t, "members">>
  <2>1. k = <<t, "members">> => k[1] = t
    OBVIOUS
  <2> QED BY <1>2, <1>3, <1>4, <2>1
<1> QED BY <1>4, <1>a DEF Agrees

\* What is sent of a block fits what was read and what the device holds.
Fits(data, b, test) ==
    /\ Plain(data)
    /\ \A k \in DOMAIN data : k[1] \in Below(b)
    /\ \A k \in DOMAIN data : k[1] # New[b] /\ k # <<b, "members">> =>
           /\ k \in DOMAIN noted.original /\ data[k] = noted.original[k]
           /\ k[1] \in device.has => B!ValueOf(device, k[1], k[2]) = noted.original[k]
    /\ \A k \in DOMAIN data : k[1] \in device.has =>
           k \in DOMAIN noted.original /\ noted.original[k] = B!ValueOf(device, k[1], k[2])
    /\ test # "test_24" => Closed(data)

LEMMA RemovedFits ==
    ASSUME IsNotes(noted), Complete(noted.data), Plain(noted.data), Agrees(device, noted),
           NEW b \in B!Block, B!Suits(b), b # noted.target, NEW data, data = B!Modified(b, "test_24")
    PROVE  Fits(data, b, "test_24")
<1>a. PICK child : child = B!Children(b)[1]
  OBVIOUS
<1>b. PICK old : old = noted.data
  OBVIOUS
<1>1. /\ \A k : k \in DOMAIN data <=> k \in DOMAIN old /\ k[1] \in Below(b) /\ k[1] # child
      /\ \A k \in DOMAIN data :
             data[k] = IF k = <<b, "members">> THEN old[k] \ {child} ELSE old[k]
  BY <1>a, <1>b, RemovedIs
<1>2. \A k \in DOMAIN old : k[1] \in Below(b) =>
          /\ k \in DOMAIN noted.original /\ old[k] = noted.original[k]
          /\ k[1] \in device.has => B!ValueOf(device, k[1], k[2]) = noted.original[k]
  BY <1>b, RestIsAsRead DEF IsNotes, B!Suits
<1>3. Plain(data)
  <2>1. ASSUME NEW k \in DOMAIN data, k[2] = "label" PROVE data[k] # B!Incorrect
    <3>1. k # <<b, "members">>
      BY <2>1
    <3> QED BY <1>1, <1>b, <2>1, <3>1 DEF Plain
  <2>2. ASSUME NEW c \in B!Block, <<c, "members">> \in DOMAIN data, NEW o \in data[<<c, "members">>]
        PROVE  o # Root /\ Up[o] = c
    <3>1. <<c, "members">> \in DOMAIN old /\ o \in old[<<c, "members">>]
      BY <1>1, <2>2
    <3> QED BY <1>b, <3>1 DEF Plain
  <2> QED BY <2>1, <2>2 DEF Plain
<1>4. ASSUME NEW k \in DOMAIN data
      PROVE  /\ k[1] \in Below(b) /\ k \in DOMAIN noted.original
             /\ k # <<b, "members">> => data[k] = noted.original[k]
             /\ k[1] \in device.has => B!ValueOf(device, k[1], k[2]) = noted.original[k]
  BY <1>1, <1>2
<1> QED BY <1>3, <1>4 DEF Fits

LEMMA AddedFits ==
    ASSUME IsNotes(noted), Complete(noted.data), Plain(noted.data), Agrees(device, noted),
           NEW b \in B!Block, B!Suits(b), b # noted.target, Closed(noted.data), Solid(device),
           NEW test, test # "test_24", NEW data, data = B!Modified(b, test)
    PROVE  Fits(data, b, test)
<1>a. PICK child : child = B!Children(b)[1]
  OBVIOUS
<1>b. PICK old : old = noted.data
  OBVIOUS
<1>c. PICK new : new = New[b]
  OBVIOUS
<1>1. /\ \A k : k \in DOMAIN data <=> \/ k \in DOMAIN old /\ k[1] \in Below(b)
                                      \/ k = <<new, "label">> \/ k = <<new, "fixed">>
      /\ \A k \in DOMAIN data :
             data[k] = IF k = <<b, "members">> THEN old[k] \cup {new}
                       ELSE IF k[1] = new THEN old[<<child, k[2]>>] ELSE old[k]
  BY <1>a, <1>b, <1>c, AddedIs
<1>2. \A k \in DOMAIN old : k[1] \in Below(b) =>
          /\ k \in DOMAIN noted.original /\ old[k] = noted.original[k]
          /\ k[1] \in device.has => B!ValueOf(device, k[1], k[2]) = noted.original[k]
  BY <1>b, RestIsAsRead DEF IsNotes, B!Suits
<1>3. /\ new # Root /\ Up[new] = b /\ new \in B!Universe /\ new \notin B!Block /\ new \in Below(b)
      /\ b \in B!Universe /\ b \in Below(b)
  <2>1. /\ new \in B!Universe /\ new # Root /\ Up[new] = b /\ new \notin B!Block
        /\ b \in B!Universe
    BY <1>c, BackupValues
  <2> QED BY <2>1, BelowUp, BelowParts
<1>4. IsDataSet(old) /\ Complete(old) /\ child \in B!ObjectsOf(old) /\ b \in B!ObjectsOf(old)
  BY <1>a, <1>b, ChildParts DEF IsNotes
<1>5. <<child, "label">> \in DOMAIN old /\ <<b, "members">> \in DOMAIN old
  BY <1>4 DEF Complete, B!ObjectsOf, B!PropsOf
<1>6. Plain(data)
  <2>1. ASSUME NEW k \in DOMAIN data, k[2] = "label" PROVE data[k] # B!Incorrect
    <3>1. k # <<b, "members">>
      BY <2>1
    <3>2. data[k] = old[<<child, "label">>] \/ (k \in DOMAIN old /\ data[k] = old[k])
      BY <1>1, <2>1, <3>1
    <3> QED BY <1>5, <1>b, <2>1, <3>2 DEF Plain
  <2>2. ASSUME NEW c \in B!Block, <<c, "members">> \in DOMAIN data, NEW o \in data[<<c, "members">>]
        PROVE  o # Root /\ Up[o] = c
    <3>1. <<c, "members">> \in DOMAIN old /\ (o \in old[<<c, "members">>] \/ (o = new /\ c = b))
      BY <1>1, <1>3, <2>2
    <3> QED BY <1>3, <1>b, <3>1 DEF Plain
  <2> QED BY <2>1, <2>2 DEF Plain
<1>7. \A k \in DOMAIN data : k[1] \in Below(b)
  BY <1>1, <1>3
<1>8. ASSUME NEW k \in DOMAIN data, k[1] # new, k # <<b, "members">>
      PROVE  /\ k \in DOMAIN noted.original /\ data[k] = noted.original[k]
             /\ k[1] \in device.has => B!ValueOf(device, k[1], k[2]) = noted.original[k]
  <2>1. k \in DOMAIN old /\ k[1] \in Below(b) /\ data[k] = old[k]
    BY <1>1, <1>8
  <2> QED BY <1>2, <2>1
<1>9. \A b2 \in B!Block : <<b2, "members">> \in DOMAIN old => old[<<b2, "members">>] \subseteq B!ObjectsOf(old)
  BY <1>b DEF Closed
<1>10. ASSUME NEW k \in DOMAIN data, k[1] \in device.has
       PROVE  k \in DOMAIN noted.original /\ noted.original[k] = B!ValueOf(device, k[1], k[2])
  <2>1. CASE k \in DOMAIN old /\ k[1] \in Below(b)
    BY <1>2, <1>10, <2>1
  <2>2. CASE k = <<new, "label">> \/ k = <<new, "fixed">>
    <3>1. new \in device.has
      BY <1>10, <2>2
    <3>2. b \in device.has
      BY <1>3, <3>1 DEF Solid
    <3>3. PICK m : m = <<b, "members">>
      OBVIOUS
    <3>4. m[1] = b /\ m[2] = "members" /\ m \in DOMAIN old
      BY <1>5, <3>3
    <3>5. old[m] = B!ValueOf(device, b, "members")
      BY <1>2, <1>3, <3>2, <3>4
    <3>6. new \in old[m]
      BY <1>3, <3>1, <3>5 DEF B!ValueOf, B!MembersOf
    <3>7. new \in B!ObjectsOf(old)
      BY <1>9, <3>3, <3>4, <3>6
    <3>8. k \in DOMAIN old /\ k[1] = new
      BY <1>4, <2>2, <3>7 DEF Complete, B!ObjectsOf, B!PropsOf
    <3> QED BY <1>2, <1>3, <3>1, <3>8
  <2> QED BY <1>1, <2>1, <2>2
<1>11. Closed(data)
  <2> SUFFICES ASSUME NEW c \in B!Block, <<c, "members">> \in DOMAIN data, NEW o \in data[<<c, "members">>]
               PROVE  o \in B!ObjectsOf(data)
    BY DEF Closed
  <2>1. /\ <<c, "members">> \in DOMAIN old /\ c \in Below(b)
        /\ o \in old[<<c, "members">>] \/ o = new
    <3>1. PICK m : m = <<c, "members">>
      OBVIOUS
    <3>2. m[1] = c /\ m # <<new, "label">> /\ m # <<new, "fixed">> /\ m[1] # new
      BY <1>3, <3>1
    <3>3. m \in DOMAIN data /\ m \in DOMAIN old /\ m[1] \in Below(b)
      BY <1>1, <3>1, <3>2
    <3>4. data[m] = old[m] \cup {new} \/ data[m] = old[m]
      BY <1>1, <3>2, <3>3
    <3> QED BY <3>1, <3>2, <3>3, <3>4
  <2>2. CASE o = new
    <3>1. PICK k : k = <<new, "label">>
      OBVIOUS
    <3>2. k \in DOMAIN data /\ k[1] = new
      BY <1>1, <3>1
    <3> QED BY <2>2, <3>2 DEF B!ObjectsOf
  <2>3. CASE o \in old[<<c, "members">>]
    <3>1. o # Root /\ Up[o] = c /\ o \in B!Universe
      BY <1>4, <1>b, <2>1, <2>3 DEF Plain, IsDataSet
    <3>2. o \in Below(c)
      BY <3>1, BelowUp
    <3>3. o \in Below(b)
      BY <1>3, <2>1, <3>2, BelowChain
    <3>4. PICK k \in DOMAIN old : k[1] = o
      BY <1>9, <2>1, <2>3 DEF B!ObjectsOf
    <3>5. k \in DOMAIN data
      BY <1>1, <3>3, <3>4
    <3> QED BY <3>4, <3>5 DEF B!ObjectsOf
  <2> QED BY <2>1, <2>2, <2>3
<1> QED BY <1>6, <1>7, <1>8, <1>10, <1>11, <1>c DEF Fits

LEMMA PassBlockTurn ==
    ASSUME BackupInv, Passes, On(B!BlockTests, "visit") \/ On(B!BlockTests, "restore"), at.todo # <<>>
    PROVE  /\ Subject \in B!Block /\ Subject \in Elems(at.todo) /\ ~Ended /\ Complete(noted.data)
           /\ Head(at.plan) \in B!BlockTests
           /\ Head(at.plan) \notin B!Walking /\ Head(at.plan) \notin B!RestoreTests
           /\ Elems(Tail(at.todo)) \subseteq Elems(at.todo)
           /\ Distinct(at.todo) /\ Distinct(Tail(at.todo)) /\ Subject \notin Elems(Tail(at.todo))
           /\ Agrees(device, noted) /\ (Head(at.plan) # "test_24" => Closed(noted.data))
<1>1. PICK s : s = at.todo
  OBVIOUS
<1>2. s \in Seq(B!Block) /\ s # <<>> /\ Distinct(s)
  BY <1>1 DEF BackupInv, BackupTypes, Passes, BlocksPass
<1>3. Distinct(Tail(s)) /\ Head(s) \notin Elems(Tail(s))
  BY <1>2, TailParts
<1>4. Agrees(device, noted) /\ (Head(at.plan) # "test_24" => Closed(noted.data))
  BY DEF Passes, BlocksPass
<1> QED BY <1>1, <1>2, <1>3, <1>4, BlockTurn, TestsApart DEF Subject

LEMMA PassBlockBegins ==
    ASSUME BackupInv, Passes, B!BlockBegins
    PROVE  Passes'
<1> DEFINE original == B!Backup(device, Root)
           blocks == Select(Listed, B!Block \cap device.rebuildable \cap device.has)
<1>1. /\ On(B!BlockTests, "begin") /\ device' = device /\ verdict' = verdict
      /\ noted' = [B!Anew EXCEPT !.original = original, !.data = original, !.target = Root]
      /\ at' = [at EXCEPT !.step = "visit", !.todo = blocks]
  BY BackupRun DEF B!BlockBegins
<1>2. device \in BackupDevice /\ IsNotes(noted) /\ IsRun /\ Solid(device) /\ Clean(noted) /\ FewFail
  BY PassRun
<1>3. device.has \subseteq B!Universe /\ device.rebuildable \subseteq B!Original \ {Root}
  BY <1>2 DEF BackupDevice
<1>4. Distinct(blocks) /\ Root \notin Elems(blocks)
  BY <1>3, BackupValues, SelectParts
<1>5. Plain(original)
  BY <1>2, PlainBackup
<1>6. \A k \in DOMAIN original :
          /\ k[1] \in Below(Root) /\ k[1] \in device.has
          /\ original[k] = B!ValueOf(device, k[1], k[2])
  BY <1>3, BackupKeys
<1>7. Closed(original)
  <2> SUFFICES ASSUME NEW b \in B!Block, <<b, "members">> \in DOMAIN original,
                      NEW o \in original[<<b, "members">>]
               PROVE  o \in B!ObjectsOf(original)
    BY DEF Closed
  <2>1. o \in device.has
    BY <1>6 DEF B!ValueOf, B!MembersOf
  <2>2. o \in Below(Root) /\ "label" \in B!PropsOf(o)
    BY <1>3, <2>1, BackupValues DEF B!PropsOf
  <2>3. PICK k : k = <<o, "label">>
    OBVIOUS
  <2>4. k \in DOMAIN original /\ k[1] = o
    BY <1>3, <2>1, <2>2, <2>3, BackupKeys
  <2> QED BY <2>4 DEF B!ObjectsOf
<1> HIDE DEF blocks, original
<1>8. /\ Clean(noted') /\ noted'.original = original /\ noted'.data = original /\ noted'.target = Root
  <2>1. IsNotes(B!Anew) /\ Clean(B!Anew)
    BY <1>2, AnewIsClean
  <2>2. Clean([B!Anew EXCEPT !.original = original, !.data = original, !.target = Root])
    BY <1>5, <2>1, CleanWith
  <2> QED BY <1>1, <2>1, <2>2 DEF IsNotes
<1>9. at'.step = "visit" /\ at'.plan = at.plan /\ at'.todo = blocks
  BY <1>1, <1>2, TestGoesOn
<1>10. BlocksPass'
  <2>1. Agrees(device, noted)'
    BY <1>1, <1>6, <1>8 DEF Agrees
  <2>2. Closed(noted.data)' /\ Distinct(at.todo)' /\ noted'.target \notin Elems(at.todo)'
    BY <1>4, <1>7, <1>8, <1>9 DEF Closed, B!ObjectsOf, Distinct, Elems
  <2>3. ~On(B!BlockTests, "restore")'
    BY <1>9 DEF On
  <2> QED BY <2>1, <2>2, <2>3 DEF BlocksPass
<1>11. ~Ended /\ Head(at.plan) \notin B!Walking /\ Head(at.plan) \notin B!RestoreTests
  BY <1>1, TestsApart DEF On
<1> QED BY <1>1, <1>2, <1>8, <1>9, <1>10, <1>11, PassGoesOn

\* A block's turn ends.
LEMMA PassNextBlock ==
    ASSUME BackupInv, Passes, On(B!BlockTests, "visit") \/ On(B!BlockTests, "restore"), at.todo # <<>>,
           B!NextBlock, device'.loses = device.loses, Solid(device'), Clean(noted'),
           Agrees(device', noted'), Head(at.plan) # "test_24" => Closed(noted'.data),
           noted'.target \notin Elems(Tail(at.todo))
    PROVE  Passes'
<1>1. PICK t : t = Tail(at.todo)
  OBVIOUS
<1>2. at'.step = "visit" /\ at'.plan = at.plan /\ at'.todo = t /\ verdict' = verdict
  BY <1>1, PassRun, TestGoesOn DEF B!NextBlock
<1>3. Distinct(at.todo)' /\ noted'.target \notin Elems(at.todo)'
  <2>1. Distinct(t) /\ noted'.target \notin Elems(t)
    BY <1>1, PassBlockTurn
  <2> QED BY <1>2, <2>1 DEF Distinct, Elems
<1>4. BlocksPass'
  <2>1. Agrees(device, noted)' /\ (Head(at.plan)' # "test_24" => Closed(noted.data)')
    BY <1>2 DEF Agrees, Closed, B!ObjectsOf
  <2>2. ~On(B!BlockTests, "restore")'
    BY <1>2 DEF On
  <2> QED BY <1>3, <2>1, <2>2 DEF BlocksPass
<1> QED BY <1>2, <1>4, PassRun, PassBlockTurn, PassGoesOn

LEMMA PassSkipBlock ==
    ASSUME BackupInv, Passes, B!SkipBlock
    PROVE  Passes'
<1>1. /\ On(B!BlockTests, "visit") /\ at.todo # <<>> /\ B!NextBlock
      /\ device' = device /\ noted' = noted
  BY BackupRun DEF B!SkipBlock
<1>2. noted.target \notin Elems(Tail(at.todo))
  BY <1>1, PassBlockTurn DEF Passes, BlocksPass
<1> QED BY <1>1, <1>2, PassRun, PassBlockTurn, PassNextBlock

LEMMA PassValidateBlock ==
    ASSUME BackupInv, Passes, device.mistake = <<"none">>, B!ValidateBlock
    PROVE  Passes'
<1>0. PICK yes \in BOOLEAN : yes = TRUE
  OBVIOUS
<1>a. PICK b : b = Subject
  OBVIOUS
<1>b. PICK test : test = Head(at.plan)
  OBVIOUS
<1> DEFINE data == B!Modified(b, test)
           answer == B!Answer(device, data, b, yes, yes)
           after == B!Validated(device, data, b, yes, yes)
           changed == B!CompareFails(noted.original, data, B!Backup(after, b), b,
                                     answer.notices, yes, TRUE)
           wrong == <<b, "members">> \notin answer.notices
                    /\ \E o \in DOMAIN answer.status : answer.status[o] # 200
           errors == B!If(changed \/ wrong, "own")
           book == B!Book(errors, {"own"}, {})
<1>1. /\ On(B!BlockTests, "visit") /\ at.todo # <<>> /\ B!Suits(b) /\ device' = after
      /\ noted' = [book EXCEPT !.data = data, !.target = b]
      /\ ~changed => Step("restore", 0)
  <2>1. /\ B!On(B!BlockTests, "visit") /\ (B!Goto("restore") <=> Step("restore", 0)) /\ B!Subject = b
    BY <1>a, BackupRun DEF B!ValidateBlock
  <2>2. at.todo # <<>> /\ B!Suits(b) /\ device' = after
    BY <1>0, <1>b, <2>1 DEF B!ValidateBlock
  <2>3. noted' = [book EXCEPT !.data = data, !.target = b]
    BY <1>0, <1>b, <2>1 DEF B!ValidateBlock
  <2>4. ~changed => Step("restore", 0)
    BY <1>0, <1>b, <2>1 DEF B!ValidateBlock
  <2> QED BY <2>1, <2>2, <2>3, <2>4, BackupRun
<1>2. /\ device \in BackupDevice /\ IsNotes(noted) /\ IsRun /\ Solid(device) /\ Clean(noted) /\ FewFail
      /\ Plain(noted.data) /\ b \in B!Block /\ b \in Elems(at.todo) /\ Complete(noted.data)
      /\ Agrees(device, noted) /\ (test # "test_24" => Closed(noted.data)) /\ Distinct(at.todo)
      /\ b # noted.target
  BY <1>1, <1>a, <1>b, PassRun, PassBlockTurn DEF Passes, BlocksPass
<1>3. IsDataSet(data) /\ Fits(data, b, test)
  <2>1. PICK new : new = B!Modified(b, test)
    OBVIOUS
  <2>2. CASE test = "test_24"
    <3>1. new = B!Modified(b, "test_24")
      BY <2>1, <2>2
    <3> QED BY <1>1, <1>2, <2>1, <2>2, <3>1, RemovedParts, RemovedFits
  <2>3. CASE test # "test_24"
    BY <1>1, <1>2, <2>1, <2>3, AddedParts, AddedFits
  <2> QED BY <2>2, <2>3
<1> HIDE DEF data
<1>4. after = device
  BY <1>2, <1>3, ValidatedParts
<1>5. ~changed
  <2>1. device.has \subseteq B!Universe
    BY <1>2 DEF BackupDevice
  <2>2. \A k \in DOMAIN B!Backup(device, b) \cap DOMAIN data :
            k \in DOMAIN noted.original /\ noted.original[k] = B!Backup(device, b)[k]
    BY <1>3, <2>1, BackupKeys DEF Fits
  <2>3. \A k \in DOMAIN B!Backup(after, b) \cap DOMAIN data :
            k \in DOMAIN noted.original /\ noted.original[k] = B!Backup(after, b)[k]
    BY <1>4, <2>2
  <2> HIDE DEF after, answer
  <2> QED BY <2>3, ValidationAgrees
<1>6. ~wrong
  <2>1. \A k \in DOMAIN data : k[1] \in Below(b)
    BY <1>3 DEF Fits
  <2>2. answer = B!Answer(device, data, b, yes, yes)
    OBVIOUS
  <2> HIDE DEF answer
  <2>3. \A o \in DOMAIN answer.status : answer.status[o] = 200
    BY <2>1, <2>2, AllIsTold
  <2> QED BY <2>3
<1> HIDE DEF answer, after, changed, wrong
<1>7. errors = {} /\ {"own"} \in SUBSET B!Result /\ {} \in SUBSET B!Result
  BY <1>5, <1>6 DEF B!If, B!Result
<1> HIDE DEF errors
<1>8. IsNotes(book) /\ Clean(book) /\ book.original = noted.original
  BY <1>2, <1>7, BookNothing
<1> HIDE DEF book
<1>9. Clean(noted') /\ noted'.original = noted.original /\ noted'.data = data /\ noted'.target = b
  <2>1. Clean([book EXCEPT !.data = data, !.target = b])
    BY <1>3, <1>8, CleanWith DEF Fits
  <2> QED BY <1>1, <1>8, <2>1 DEF IsNotes
<1>10. Step("restore", 0)
  BY <1>1, <1>5
<1>11. at'.step = "restore" /\ at'.plan = at.plan /\ at'.todo = at.todo /\ verdict' = verdict
  BY <1>2, <1>10, TestSteps
<1>12. device' = device
  BY <1>1, <1>4
<1>13. BlocksPass'
  <2>1. Agrees(device, noted)'
    BY <1>3, <1>9, <1>12 DEF Agrees, Fits
  <2>2. Head(at.plan)' # "test_24" => Closed(noted.data)'
    BY <1>3, <1>9, <1>11, <1>b DEF Fits, Closed, B!ObjectsOf
  <2>3. Distinct(at.todo)' /\ Subject' = b
    BY <1>2, <1>11, <1>a DEF Distinct, Subject
  <2>4. ~On(B!BlockTests, "visit")'
    BY <1>11 DEF On
  <2> QED BY <1>9, <2>1, <2>2, <2>3, <2>4 DEF BlocksPass
<1> QED BY <1>1, <1>2, <1>9, <1>11, <1>12, <1>13, PassBlockTurn, PassGoesOn

\* What is restored of a block, the device holds; an object that is new to it comes with all
\* of its properties.
LEMMA RestoredAgrees ==
    ASSUME NEW r, NEW d, NEW data, NEW b \in B!Block, NEW rebuild \in BOOLEAN,
           NEW recurse \in BOOLEAN, NEW set, Asks(r, d, data, b, rebuild, recurse, set),
           d.structure => \A k \in DOMAIN data : k[1] \in Below(b) /\ k[1] \notin d.has => k \in set,
           NEW n, n.data = data, n.target = b, Agrees(d, n)
    PROVE  Agrees(r, n)
<1> SUFFICES ASSUME NEW k \in DOMAIN data, k[1] # New[b], k # <<b, "members">>, k[1] \in r.has
             PROVE  B!ValueOf(r, k[1], k[2]) = n.original[k]
  BY DEF Agrees
<1>1. /\ data[k] = n.original[k] /\ k[1] \in Below(b)
      /\ k[1] \in d.has => B!ValueOf(d, k[1], k[2]) = n.original[k]
  BY DEF Agrees
<1>2. CASE k \in set
  <2>1. PICK key \in set : key = k
    BY <1>2
  <2>2. key[1] \in r.has
    BY <2>1
  <2>3. B!ValueOf(r, key[1], key[2]) = data[key]
    BY <2>2, SetValues
  <2> QED BY <1>1, <2>1, <2>3
<1>3. CASE k \notin set
  <2>1. k[1] \in Kept(d, data, set)
    BY DEF Asks, IsRestored
  <2>2. k[1] \in d.has
    <3> SUFFICES ASSUME k[1] \notin d.has PROVE FALSE
      OBVIOUS
    <3>1. PICK c \in B!Block : <<c, "members">> \in set
      BY <2>1 DEF Kept
    <3>2. d.structure
      BY <3>1 DEF Asks, Accepted
    <3>3. k \in set
      BY <1>1, <3>2
    <3> QED BY <1>3, <3>3
  <2>3. k = <<k[1], k[2]>> /\ k[2] \in B!PropsOf(k[1])
    BY DEF Asks, IsDataSet, B!Prop, B!PropsOf
  <2>4. PICK o, p : o = k[1] /\ p = k[2]
    OBVIOUS
  <2>5. o \in r.has /\ o \in d.has /\ p \in B!PropsOf(o) /\ <<o, p>> \notin set
    BY <1>3, <2>2, <2>3, <2>4
  <2> HIDE <2>4
  <2>6. B!ValueOf(r, o, p) = B!ValueOf(d, o, p)
    BY <2>5, UnsetValues
  <2> QED BY <1>1, <2>2, <2>4, <2>6
<1> QED BY <1>2, <1>3

LEMMA PassRestoreBlock ==
    ASSUME BackupInv, Passes, device.mistake = <<"none">>, B!RestoreBlock
    PROVE  Passes'
<1>0. PICK yes \in BOOLEAN : yes = TRUE
  OBVIOUS
<1>a. PICK b : b = Subject
  OBVIOUS
<1> DEFINE data == noted.data
           answer == B!Answer(device, data, b, yes, yes)
           after == B!Restored(device, data, b, yes, yes)
           set == Accepted(device, data, b, yes, yes)
           failed == \/ B!ObjectsWrong(data, answer, b, yes)
                     \/ B!CompareFails(noted.original, data, B!Backup(after, b), b,
                                       answer.notices, yes, FALSE)
           errors == B!If(failed, "own")
           warnings == B!If(B!Warned(answer), "own")
           book == B!Book(errors, {"own"}, warnings)
<1>1. /\ On(B!BlockTests, "restore") /\ device' = after /\ noted' = book
      /\ "own" \in noted'.errors \/ B!NextBlock
  <2>1. /\ B!On(B!BlockTests, "restore") /\ B!Subject = b
    BY <1>a, BackupRun DEF B!RestoreBlock
  <2> QED BY <1>0, <2>1, BackupRun DEF B!RestoreBlock
<1>2. at.todo # <<>>
  BY <1>1 DEF BackupInv, BackupTypes
<1>3. /\ device \in BackupDevice /\ IsNotes(noted) /\ Solid(device) /\ Clean(noted)
      /\ IsDataSet(data) /\ Plain(data) /\ b \in B!Block /\ b \in B!Universe
      /\ Agrees(device, noted) /\ (Head(at.plan) # "test_24" => Closed(data))
      /\ noted.target = b /\ b \notin Elems(Tail(at.todo))
  BY <1>1, <1>2, <1>a, PassRun, PassBlockTurn, BackupValues DEF Passes, BlocksPass
<1>4. \A k \in DOMAIN data : k[1] \in Below(b)
  BY <1>3 DEF Agrees
<1> HIDE DEF data
<1>5. /\ Asks(after, device, data, b, yes, yes, set) /\ Solid(after)
      /\ after.has \subseteq B!Universe /\ after.loses = device.loses
  BY <1>3, RestoresWell
<1> HIDE DEF after, set
<1>6. answer.notices = B!NoticesOf(device, data, b, yes, yes) /\ ~B!ObjectsWrong(data, answer, b, yes)
  BY <1>4, AllIsTold
<1> HIDE DEF answer
<1>7. ~failed
  <2>1. PICK notices, original :
            /\ notices = answer.notices /\ original = noted.original
            /\ notices = B!NoticesOf(device, data, b, yes, yes)
    BY <1>6
  <2>2. ~B!CompareFails(original, data, B!Backup(after, b), b, notices, yes, FALSE)
    BY <1>0, <1>5, <2>1, RestoreAgrees
  <2> QED BY <1>6, <2>1, <2>2
<1> HIDE DEF failed
<1>8. errors = {}
  BY <1>7 DEF B!If
<1>9. {"own"} \in SUBSET B!Result /\ warnings \in SUBSET B!Result
  BY IfParts DEF B!Result
<1> HIDE DEF errors, warnings
<1>10. Clean(book) /\ book.data = noted.data /\ book.target = noted.target
       /\ book.original = noted.original
  BY <1>3, <1>8, <1>9, BookNothing
<1> HIDE DEF book
<1>11. Agrees(after, book)
  <2>1. PICK n : n = book
    OBVIOUS
  <2>2. n.data = data /\ n.target = b /\ Agrees(device, n)
    BY <1>3, <1>10, <2>1 DEF data, Agrees
  <2>a. PICK rebuild \in BOOLEAN : rebuild = yes
    OBVIOUS
  <2>b. PICK recurse \in BOOLEAN : recurse = yes
    OBVIOUS
  <2>c. Asks(after, device, data, b, rebuild, recurse, set)
    BY <1>5, <2>a, <2>b
  <2>d. rebuild /\ recurse
    BY <1>0, <2>a, <2>b
  <2>e. device.structure =>
            \A k \in DOMAIN data : k[1] \in Below(b) /\ k[1] \notin device.has => k \in set
    BY <2>c, <2>d DEF Asks, Accepted
  <2> HIDE <2>a, <2>b
  <2>3. Agrees(after, n)
    BY <1>3, <2>2, <2>c, <2>e, RestoredAgrees
  <2> QED BY <2>1, <2>3
<1>12. B!NextBlock
  BY <1>1, <1>10 DEF Clean
<1>13. /\ Solid(device') /\ device'.loses = device.loses /\ Clean(noted') /\ Agrees(device', noted')
       /\ noted'.target = b /\ noted'.data = data
  BY <1>1, <1>3, <1>5, <1>10, <1>11 DEF data
<1> QED BY <1>1, <1>2, <1>3, <1>12, <1>13, PassNextBlock

LEMMA PassUndoBlocks ==
    ASSUME BackupInv, Passes, device.mistake = <<"none">>, B!UndoBlocks
    PROVE  Passes'
<1>0. PICK yes \in BOOLEAN : yes = TRUE
  OBVIOUS
<1> DEFINE after == B!Restored(device, noted.original, noted.target, yes, yes)
           book == B!Book({}, {"own"}, {})
<1>1. noted.errors = {} /\ noted.target \in B!Universe
  BY PassRun, BackupValues DEF Clean, IsNotes
<1>2. device' = after /\ noted' = book /\ \E v \in {"WARNING", "PASS"} : Conclude(v)
  <2>1. \A v \in {"WARNING", "PASS"} : B!Conclude(v) <=> Conclude(v)
    BY BackupRun
  <2> QED BY <1>0, <1>1, <2>1 DEF B!UndoBlocks
<1>3. Solid(after) /\ after.loses = device.loses
  BY <1>1, PassRun, RestoresWell
<1>4. {"own"} \in SUBSET B!Result /\ {} \in SUBSET B!Result
  BY DEF B!Result
<1>5. Clean(book)
  BY <1>4, PassRun, BookNothing
<1> HIDE DEF after, book
<1> QED BY <1>2, <1>3, <1>5, PassRun, BackupVerdicts, PassConcludes

--------------------
(* IS-14: a conforming device whose answer is lost, and all steps.          *)

LEMMA PassLost ==
    ASSUME BackupInv, Passes, device.mistake = <<"none">>, B!AnswerLost
    PROVE  Passes'
<1>a. PICK yes \in BOOLEAN : yes = TRUE
  OBVIOUS
<1>b. PICK no \in BOOLEAN : no = FALSE
  OBVIOUS
<1>c. PICK rebuild \in BOOLEAN : rebuild = B!Rebuild
  BY DEF B!Rebuild
<1>1. PICK d \in {device, B!Sent} : device' = [d EXCEPT !.loses = "lost"]
  BY DEF B!AnswerLost
<1>2. Conclude("FAIL") /\ noted' = noted /\ device.loses = "one"
  BY BackupRun DEF B!AnswerLost
<1>3. /\ device \in BackupDevice /\ Solid(device) /\ noted.target \in B!Universe
      /\ IsDataSet(noted.first) /\ IsDataSet(noted.original) /\ IsDataSet(noted.data)
      /\ Plain(noted.first) /\ Plain(noted.original) /\ Plain(noted.data)
  BY PassRun, BackupValues DEF IsNotes
<1>4. ASSUME NEW data, IsDataSet(data), Plain(data), NEW t \in B!Universe, NEW build \in BOOLEAN,
             NEW recurse \in BOOLEAN
      PROVE  Solid(B!Restored(device, data, t, build, recurse))
  BY <1>3, <1>4, RestoresWell
<1>5. Solid(B!Sent)
  <2>1. CASE B!On(B!Walking, "restore")
    <3>1. Subject \in Path
      BY <2>1, BackupRun, WalkTurn
    <3>2. B!Subject[1] \in B!Universe /\ B!Subject[2] \in BOOLEAN
      BY <3>1, BackupRun DEF Path
    <3>3. Solid(B!Restored(device, noted.data, B!Subject[1], no, B!Subject[2]))
      BY <1>3, <1>4, <3>2
    <3>a. /\ ~B!On(B!Walking, "reset") /\ ~B!On(B!RestoreTests, "restore") /\ ~B!On(B!RestoreTests, "undo")
          /\ ~B!On(B!BlockTests, "restore") /\ ~B!On(B!BlockTests, "undo")
      BY <2>1, TestsApart DEF B!On
    <3>4. B!Sent = B!Restored(device, noted.data, B!Subject[1], FALSE, B!Subject[2])
      BY <2>1, <3>a DEF B!Sent
    <3> QED BY <1>b, <3>3, <3>4
  <2>2. CASE ~B!On(B!Walking, "restore") /\ B!On(B!BlockTests, "restore")
    <3>1. Subject \in B!Block
      BY <2>2, BackupRun, PassBlockTurn DEF BackupInv, BackupTypes
    <3>2. B!Subject \in B!Universe
      BY <3>1, BackupRun, BackupValues
    <3>3. Solid(B!Restored(device, noted.data, B!Subject, yes, yes))
      BY <1>3, <1>4, <3>2
    <3>4. /\ ~B!On(B!Walking, "reset") /\ ~B!On(B!RestoreTests, "restore") /\ ~B!On(B!RestoreTests, "undo")
          /\ ~B!On(B!BlockTests, "undo")
      BY <2>2, TestsApart DEF B!On
    <3>5. B!Sent = B!Restored(device, noted.data, B!Subject, TRUE, TRUE)
      BY <2>2, <3>4 DEF B!Sent
    <3> QED BY <1>a, <3>3, <3>5
  <2>3. CASE ~B!On(B!Walking, "restore") /\ ~B!On(B!BlockTests, "restore")
    <3>1. /\ Solid(B!Restored(device, noted.first, Root, no, yes))
          /\ Solid(B!Restored(device, noted.data, Root, rebuild, yes))
          /\ Solid(B!Restored(device, noted.original, Root, rebuild, yes))
          /\ Solid(B!Restored(device, noted.original, noted.target, yes, yes))
      BY <1>3, <1>4, BackupValues
    <3> QED BY <1>3, <1>a, <1>b, <1>c, <2>3, <3>1 DEF B!Sent
  <2> QED BY <2>1, <2>2, <2>3
<1>6. d \in BackupDevice /\ Solid(d)
  BY <1>1, <1>3, <1>5, SentIsOfKind
<1>7. device'.loses = "lost" /\ Solid(device')
  BY <1>1, <1>6 DEF BackupDevice, Solid
<1>8. Clean(noted')
  BY <1>2, PassRun
<1> QED BY <1>2, <1>7, <1>8, PassRun, BackupVerdicts, PassConcludes

LEMMA PassBegins == B!Init => PassInv
<1> SUFFICES ASSUME B!Init, device.mistake = <<"none">> PROVE Passes
  BY DEF PassInv
<1>1. BackupInv
  BY BackupBegins
<1>2. PICK plan : at = Position(plan)
  BY BackupRun DEF B!Init
<1>3. at.step = "begin" /\ FailedTests = {}
  BY <1>2, BackupRun, RunBegins DEF B!Init, FailedTests
<1>4. Solid(device)
  <2>1. device.has = B!Original /\ \A o \in B!Universe : device.label[o] = 0
    BY DEF B!Init, B!Devices, B!Untouched
  <2> QED BY <2>1, BackupValues DEF Solid, B!Incorrect
<1>5. Clean(noted)
  <2>1. PICK none : none = <<>>
    OBVIOUS
  <2>2. Plain(none)
    BY <2>1 DEF Plain
  <2> QED BY <2>1, <2>2 DEF Clean, B!Init, B!NothingNoted
<1>6. WalkPasses /\ RestorePasses /\ BlocksPass
  BY <1>3 DEF WalkPasses, RestorePasses, BlocksPass, On
<1>7. FewFail
  BY <1>3 DEF FewFail
<1> QED BY <1>4, <1>5, <1>6, <1>7 DEF Passes

LEMMA PassStays ==
    ASSUME Passes, UNCHANGED suiteVars
    PROVE  Passes'
<1>1. at' = at /\ device' = device /\ noted' = noted /\ verdict' = verdict
  BY DEF suiteVars
<1>2. \A tests, step : On(tests, step)' <=> On(tests, step)
  BY <1>1 DEF On, Ended
<1>3. /\ Solid(device)' /\ Clean(noted)' /\ FewFail'
  BY <1>1 DEF Passes, Solid, Clean, Plain, FewFail, FailedTests
<1>4. /\ Elems(at.todo)' = Elems(at.todo) /\ (Distinct(at.todo)' <=> Distinct(at.todo)) /\ Subject' = Subject
      /\ (Agrees(device, noted)' <=> Agrees(device, noted)) /\ (Closed(noted.data)' <=> Closed(noted.data))
      /\ (Reread(noted, device, Subject[1])' <=> Reread(noted, device, Subject[1]))
      /\ (Reread(noted, device, Root)' <=> Reread(noted, device, Root))
  BY <1>1 DEF Elems, Distinct, Subject, Agrees, Closed, B!ObjectsOf, Reread
<1>5. WalkPasses' /\ RestorePasses'
  BY <1>1, <1>2, <1>4 DEF Passes, WalkPasses, RestorePasses
<1>6. BlocksPass'
  BY <1>1, <1>2, <1>4 DEF Passes, BlocksPass
<1> QED BY <1>3, <1>5, <1>6 DEF Passes

LEMMA PassStep ==
    ASSUME BackupInv, PassInv, [B!Next]_suiteVars
    PROVE  PassInv'
<1> SUFFICES ASSUME device'.mistake = <<"none">> PROVE Passes'
  BY DEF PassInv, Passes
<1>1. CASE UNCHANGED suiteVars
  BY <1>1, PassStays DEF PassInv, suiteVars
<1>2. CASE B!Next
  <2>1. device.mistake = <<"none">> /\ Passes
    BY <1>2, SameMistake DEF PassInv
  <2> QED BY <1>2, <2>1, PassJudges, PassWalkBegins, PassNotFound, PassValidateLabels, PassRestoreLabels,
             PassReset, PassValidateAll, PassRestoreAll, PassUndo, PassCheckModel, PassBlockBegins,
             PassSkipBlock, PassValidateBlock, PassRestoreBlock, PassUndoBlocks, PassIncorrect, PassLost DEF B!Next
<1> QED BY <1>1, <1>2

LEMMA PassHolds == PassInv => B!ConformingDevicePasses
<1> SUFFICES ASSUME PassInv, device.mistake = <<"none">>
             PROVE  B!Cardinality(FailedTests) <= IF device.loses = "lost" THEN 1 ELSE 0
  BY DEF B!ConformingDevicePasses, B!Failed, FailedTests
<1>1. PICK test : FailedTests \subseteq {test}
  BY DEF PassInv, Passes, FewFail
<1>2. device.loses # "lost" => FailedTests = {}
  BY DEF PassInv, Passes, FewFail
<1>3. FailedTests = {} \/ FailedTests = {test}
  BY <1>1
<1>4. Cardinality({}) = 0 /\ Cardinality({test}) = 1
  BY FS_EmptySet, FS_Singleton
<1>5. \A S : B!Cardinality(S) = Cardinality(S)
  BY DEF B!Cardinality, Cardinality
<1>6. Cardinality(FailedTests) <= IF device.loses = "lost" THEN 1 ELSE 0
  BY <1>2, <1>3, <1>4
<1> QED BY <1>5, <1>6

PassSuite == suite = "backup" => PassInv

LEMMA PassSuiteHolds == ControlSpec => []PassSuite
<1>1. ControlInit => PassSuite
  BY PassBegins DEF ControlInit, PassSuite
<1>2. BackupSuite /\ PassSuite /\ [ControlNext]_controlVars => PassSuite'
  <2> SUFFICES ASSUME BackupSuite, PassSuite, [ControlNext]_controlVars, suite' = "backup" PROVE PassInv'
    BY DEF PassSuite
  <2>1. suite = "backup" /\ [B!Next]_suiteVars
    BY DEF ControlNext, controlVars
  <2> QED BY <2>1, PassStep DEF BackupSuite, PassSuite
<1> QED BY <1>1, <1>2, BackupSuiteHolds, PTL DEF ControlSpec

--------------------
(* What all of the suites promise.                                          *)

Suites == suite \in {"model", "properties", "backup", "monitors", "client"}

LEMMA SuitesHold == ControlSpec => []Suites
<1>1. ControlInit => Suites
  BY DEF ControlInit, Suites
<1>2. Suites /\ [ControlNext]_controlVars => Suites'
  BY DEF ControlNext, controlVars, Suites
<1> QED BY <1>1, <1>2, PTL DEF ControlSpec

\* Whichever suite runs, its state stays of its kind: what is noted of a device, the data
\* sets of IS-14, the notifications on the wire of a monitored device and the client's
\* outcomes (MS0501Test.py, IS1401Test.py, BCP0080101Test.py and IS12Utils.py).
THEOREM ControlTypesHold == ControlSpec => []ControlTypeOK
<1>1. Suites /\ ModelSuite /\ PropertySuite /\ BackupSuite /\ MonitorSuite
      /\ ClientTypes /\ (suite = "client" => NoSuite) => ControlTypeOK
  <2> SUFFICES ASSUME Suites, ModelSuite, PropertySuite, BackupSuite, MonitorSuite, ClientTypes,
                      suite = "client" => NoSuite
               PROVE  ControlTypeOK
    OBVIOUS
  <2>1. K!TypeOK
    BY ClientTypesGiven
  <2>2. CASE suite = "model"
    BY <2>1, <2>2, ModelHolds DEF ModelSuite, ControlTypeOK
  <2>3. CASE suite = "properties"
    BY <2>1, <2>3, PropertyHolds DEF PropertySuite, ControlTypeOK
  <2>4. CASE suite = "backup"
    BY <2>1, <2>4, BackupHolds DEF BackupSuite, ControlTypeOK
  <2>5. CASE suite = "monitors"
    BY <2>1, <2>5, MonitorHolds DEF MonitorSuite, ControlTypeOK
  <2>6. CASE suite = "client"
    BY <2>1, <2>6 DEF ControlTypeOK
  <2> QED BY <2>2, <2>3, <2>4, <2>5, <2>6 DEF Suites
<1> QED BY <1>1, SuitesHold, ModelSuiteHolds, PropertySuiteHolds, BackupSuiteHolds, MonitorSuiteHolds,
           ClientTypesHold, PTL

\* Whatever constraints and sequences a device has, the suite of MS-05 leaves it as it was;
\* however its blocks lie, none rebuildable within another, so does each test of IS-14: if
\* the device takes what it may take and nothing is lost, for an exception skips what would
\* undo the rest (MS0501Test.py, IS1401Test.py:1060-1390).  However many monitors there are,
\* the suite of BCP-008 leaves no resource active that was not, but the one of a lost request,
\* and without a loss every resource inactive once they have all been checked, active as it
\* may have been (BCP008Test.py, BCP0080101Test.py:275-298).
THEOREM RunsRestoreOrRelease == ControlSpec => []RestoredOrReleased
<1>1. PropertySuite /\ BackupSuite /\ MonitorSuite => RestoredOrReleased
  BY PropertyHolds, BackupHolds, MonitorHolds
     DEF PropertySuite, BackupSuite, MonitorSuite, RestoredOrReleased
<1> QED BY <1>1, PropertySuiteHolds, BackupSuiteHolds, MonitorSuiteHolds, PTL

\* A device without a mistake passes the suites of MS-05 and IS-14, whatever model, classes,
\* constraints and rebuildable blocks it has: what the walks compare, the values and labels
\* that are written and restored, the notices that a restore or its validation gives, and
\* the second backup all agree with it, at each step of each test (MS0501Test.py,
\* IS1401Test.py).  Not so in MS-05 where a request is lost, or where test_29 has no valid
\* value for the number: a maximum of 0 or a negative one without a minimum, no maximum and
\* a datatype or a minimum that half of sys.maxsize does not suit (MS0501Test.py:1823-1831); in
\* IS-14 a lost answer costs one test.
THEOREM ConformingModelsPass == ControlSpec => [](suite # "monitors" => ConformingDevicesPass)
<1>1. Suites /\ ModelSuite /\ PropertySuite /\ PassSuite => (suite # "monitors" => ConformingDevicesPass)
  <2> SUFFICES ASSUME Suites, ModelSuite, PropertySuite, PassSuite, suite # "monitors"
               PROVE  ConformingDevicesPass
    OBVIOUS
  <2>1. CASE suite = "model"
    BY <2>1, ModelHolds DEF ModelSuite, ConformingDevicesPass
  <2>2. CASE suite = "properties"
    BY <2>2, PropertyHolds DEF PropertySuite, ConformingDevicesPass
  <2>3. CASE suite = "backup"
    BY <2>3, PassHolds DEF PassSuite, ConformingDevicesPass
  <2>4. CASE suite = "client"
    BY <2>4 DEF ConformingDevicesPass
  <2> QED BY <2>1, <2>2, <2>3, <2>4 DEF Suites
<1> QED BY <1>1, SuitesHold, ModelSuiteHolds, PropertySuiteHolds, PassSuiteHolds, PTL

=============================================================================
