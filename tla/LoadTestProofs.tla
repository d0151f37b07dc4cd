--------------------------- MODULE LoadTestProofs ---------------------------
(***************************************************************************)
(* Proofs about LoadTest, for every set of schemas, every limit and any    *)
(* number of tests and handlers.                                           *)
(***************************************************************************)
EXTENDS LoadTest, FiniteSetTheorems, WellFoundedInduction, TLAPS

-----------------------------------------------------------------------------
(* Total adds up the schemas one after the other.  A partial sum of f over *)
(* the subsets of S is a function h with IsSum(f, h, S).                   *)

Pick(T) == CHOOSE s \in T : TRUE
IsSum(f, h, S) ==
  h = [T \in SUBSET S |-> IF T = {} THEN 0 ELSE f[Pick(T)] + h[T \ {Pick(T)}]]
Sums(f, S) == CHOOSE h : IsSum(f, h, S)

LEMMA TotalIsSum == ASSUME NEW f PROVE Total(f) = Sums(f, Schemas)[Schemas]
  BY Zenon DEF Total, MapThenSumSet, MapThenFoldSet, Sums, IsSum, Pick

LEMMA PickIn == ASSUME NEW T, T # {} PROVE Pick(T) \in T
  BY Zenon DEF Pick

\* Induction over the subsets of a finite set, with the sets it holds for as a set.
LEMMA SubsetsReached ==
  ASSUME NEW S, IsFiniteSet(S), NEW Good \in SUBSET (SUBSET S),
         \A T \in SUBSET S : (\A U \in SUBSET T : U # T => U \in Good) => T \in Good
  PROVE  Good = SUBSET S
<1> DEFINE Bad == (SUBSET S) \ Good
<1>1. SUFFICES ASSUME Bad # {} PROVE FALSE
  OBVIOUS
<1>2. Bad \subseteq FiniteSubsetsOf(S)
  BY FS_Subset DEF FiniteSubsetsOf
<1>3. PICK T \in Bad : \A U \in Bad : ~(<<U, T>> \in StrictSubsetOrdering(S))
  <2>1. IsWellFoundedOn(StrictSubsetOrdering(S), FiniteSubsetsOf(S))
    BY FS_StrictSubsetOrderingWellFounded
  <2> HIDE DEF Bad
  <2> QED
    BY <1>1, <1>2, <2>1, WFMin
<1>4. \A U \in SUBSET T : U # T => U \in Good
  BY <1>3 DEF StrictSubsetOrdering
<1> QED
  BY <1>3, <1>4

LEMMA SumAt ==
  ASSUME NEW f, NEW h, NEW S, IsSum(f, h, S), NEW T, T \subseteq S
  PROVE  /\ T = {} => h[T] = 0
         /\ T # {} => h[T] = f[Pick(T)] + h[T \ {Pick(T)}]
<1>1. h[T] = IF T = {} THEN 0 ELSE f[Pick(T)] + h[T \ {Pick(T)}]
  BY Zenon DEF IsSum
<1> QED
  BY <1>1

LEMMA SumsAgree ==
  ASSUME NEW f, NEW h, NEW k, NEW S, NEW V \in SUBSET S, IsFiniteSet(V),
         IsSum(f, h, S), IsSum(f, k, V)
  PROVE  \A T \in SUBSET V : h[T] = k[T]
<1> DEFINE Good == {T \in SUBSET V : h[T] = k[T]}
<1>1. ASSUME NEW T \in SUBSET V, \A U \in SUBSET T : U # T => U \in Good
      PROVE  T \in Good
  <2>1. CASE T = {}
    BY <2>1, SumAt
  <2>2. CASE T # {}
    <3>1. Pick(T) \in T
      BY <2>2, PickIn
    <3>2. T \ {Pick(T)} \in Good
      BY <3>1, <1>1
    <3>3. h[T] = f[Pick(T)] + h[T \ {Pick(T)}] /\ k[T] = f[Pick(T)] + k[T \ {Pick(T)}]
      <4>1. T \subseteq S /\ T \subseteq V
        OBVIOUS
      <4>2. h[T] = f[Pick(T)] + h[T \ {Pick(T)}]
        BY <2>2, <4>1, SumAt
      <4>3. k[T] = f[Pick(T)] + k[T \ {Pick(T)}]
        BY <2>2, <4>1, SumAt
      <4> QED
        BY <4>2, <4>3
    <3> QED
      BY <3>2, <3>3
  <2> QED
    BY <2>1, <2>2
<1>2. Good = SUBSET V
  <2> HIDE DEF Good
  <2>1. Good \in SUBSET (SUBSET V)
    BY DEF Good
  <2> QED
    BY <1>1, <2>1, SubsetsReached
<1> QED
  BY <1>2

\* A finite set has its partial sums.
LEMMA SumsExist == ASSUME NEW f, NEW S, IsFiniteSet(S) PROVE IsSum(f, Sums(f, S), S)
<1> DEFINE Good == {T \in SUBSET S : IsSum(f, Sums(f, T), T)}
<1>1. ASSUME NEW T \in SUBSET S, \A U \in SUBSET T : U # T => U \in Good
      PROVE  T \in Good
  <2> DEFINE h == [U \in SUBSET T |->
                     IF U = {} THEN 0
                     ELSE f[Pick(U)] + Sums(f, U \ {Pick(U)})[U \ {Pick(U)}]]
  <2>1. ASSUME NEW U \in SUBSET T, U # {}
        PROVE  h[U \ {Pick(U)}] = Sums(f, U \ {Pick(U)})[U \ {Pick(U)}]
    <3> DEFINE V == U \ {Pick(U)}
    <3>1. Pick(U) \in U
      BY <2>1, PickIn
    <3>2. V \in SUBSET T /\ V # T /\ IsSum(f, Sums(f, V), V)
      BY <3>1, <1>1
    <3>3. CASE V = {}
      <4>1. h[V] = 0
        BY <3>3
      <4>2. Sums(f, V)[V] = 0
        BY <3>2, <3>3, SumAt
      <4> QED
        BY <4>1, <4>2
    <3>4. CASE V # {}
      <4> DEFINE W == V \ {Pick(V)}
      <4>1. Pick(V) \in V
        BY <3>4, PickIn
      <4>2. W \in SUBSET V /\ W \in SUBSET T /\ W # T /\ IsSum(f, Sums(f, W), W)
        BY <4>1, <3>2, <1>1
      <4>3. IsFiniteSet(W)
        BY <4>2, FS_Subset
      <4> HIDE DEF W
      <4>4. Sums(f, V)[W] = Sums(f, W)[W]
        BY <3>2, <4>2, <4>3, SumsAgree
      <4>5. Sums(f, V)[V] = f[Pick(V)] + Sums(f, V)[W]
        <5>1. V \subseteq V
          OBVIOUS
        <5> QED
          <6> HIDE DEF V
          <6> QED
            BY <5>1, <3>2, <3>4, SumAt DEF W
      <4>6. h[V] = f[Pick(V)] + Sums(f, W)[W]
        BY <3>2, <3>4 DEF W
      <4> QED
        BY <4>4, <4>5, <4>6
    <3> QED
      BY <3>3, <3>4
  <2>2. h = [U \in SUBSET T |-> IF U = {} THEN 0 ELSE f[Pick(U)] + h[U \ {Pick(U)}]]
    BY <2>1
  <2>3. IsSum(f, h, T)
    BY <2>2 DEF IsSum
  <2>4. IsSum(f, Sums(f, T), T)
    <3> HIDE DEF h
    <3> QED
      BY <2>3, Zenon DEF Sums
  <2> QED
    BY <2>4
<1>2. Good = SUBSET S
  <2> HIDE DEF Good
  <2>1. Good \in SUBSET (SUBSET S)
    BY DEF Good
  <2> QED
    BY <1>1, <2>1, SubsetsReached
<1> QED
  BY <1>2

LEMMA SumsStep ==
  ASSUME NEW f, NEW S, IsFiniteSet(S), NEW T, T \subseteq S
  PROVE  /\ T = {} => Sums(f, S)[T] = 0
         /\ T # {} => Sums(f, S)[T] = f[Pick(T)] + Sums(f, S)[T \ {Pick(T)}]
  BY SumsExist, SumAt

LEMMA SumsEmpty == ASSUME NEW f, NEW S, IsFiniteSet(S) PROVE Sums(f, S)[{}] = 0
<1>1. PICK T : T = {}
  OBVIOUS
<1>2. T \subseteq S
  BY <1>1
<1>3. Sums(f, S)[T] = 0
  BY <1>1, <1>2, SumsStep
<1> QED
  BY <1>1, <1>3

LEMMA SumsNat ==
  ASSUME NEW S, IsFiniteSet(S), NEW f \in [S -> Nat]
  PROVE  \A T \in SUBSET S : Sums(f, S)[T] \in Nat
<1> DEFINE Good == {T \in SUBSET S : Sums(f, S)[T] \in Nat}
<1>1. ASSUME NEW T \in SUBSET S, \A U \in SUBSET T : U # T => U \in Good
      PROVE  T \in Good
  <2>1. CASE T = {}
    BY <2>1, SumsStep
  <2>2. CASE T # {}
    <3>1. Pick(T) \in T
      BY <2>2, PickIn
    <3>2. T \ {Pick(T)} \in Good
      BY <3>1, <1>1
    <3>3. T \subseteq S
      OBVIOUS
    <3>4. Sums(f, S)[T] = f[Pick(T)] + Sums(f, S)[T \ {Pick(T)}]
      BY <2>2, <3>3, SumsStep
    <3> QED
      BY <3>1, <3>2, <3>3, <3>4
  <2> QED
    BY <2>1, <2>2
<1>2. Good = SUBSET S
  <2> HIDE DEF Good
  <2>1. Good \in SUBSET (SUBSET S)
    BY DEF Good
  <2> QED
    BY <1>1, <2>1, SubsetsReached
<1> QED
  BY <1>2

LEMMA SumsZero ==
  ASSUME NEW S, IsFiniteSet(S)
  PROVE  \A T \in SUBSET S : Sums([s \in S |-> 0], S)[T] = 0
<1> DEFINE f == [s \in S |-> 0]
           Good == {T \in SUBSET S : Sums(f, S)[T] = 0}
<1>1. ASSUME NEW T \in SUBSET S, \A U \in SUBSET T : U # T => U \in Good
      PROVE  T \in Good
  <2>1. CASE T = {}
    BY <2>1, SumsStep
  <2>2. CASE T # {}
    <3>1. Pick(T) \in T
      BY <2>2, PickIn
    <3>2. T \ {Pick(T)} \in Good
      BY <3>1, <1>1
    <3>3. T \subseteq S
      OBVIOUS
    <3>4. Sums(f, S)[T] = f[Pick(T)] + Sums(f, S)[T \ {Pick(T)}]
      <4> HIDE DEF f
      <4> QED
        BY <2>2, <3>3, SumsStep
    <3>5. f[Pick(T)] = 0
      BY <3>1
    <3> HIDE DEF f
    <3> QED
      BY <3>2, <3>4, <3>5
  <2> QED
    BY <2>1, <2>2
<1>2. Good = SUBSET S
  <2> HIDE DEF Good
  <2>1. Good \in SUBSET (SUBSET S)
    BY DEF Good
  <2> QED
    BY <1>1, <2>1, SubsetsReached
<1> QED
  BY <1>2

\* A value that changes moves the sums it is part of by the difference.
LEMMA SumsUpdate ==
  ASSUME NEW S, IsFiniteSet(S), NEW f \in [S -> Nat], NEW s \in S, NEW v \in Nat,
         NEW g \in [S -> Nat], \A r \in S : g[r] = IF r = s THEN v ELSE f[r]
  PROVE  \A T \in SUBSET S :
           Sums(g, S)[T] = IF s \in T THEN Sums(f, S)[T] + v - f[s] ELSE Sums(f, S)[T]
<1> DEFINE After(T) == IF s \in T THEN Sums(f, S)[T] + v - f[s] ELSE Sums(f, S)[T]
           Good == {T \in SUBSET S : Sums(g, S)[T] = After(T)}
<1>0. Sums(f, S)[{}] = 0 /\ Sums(g, S)[{}] = 0
  BY SumsEmpty
<1>1. ASSUME NEW T \in SUBSET S, \A U \in SUBSET T : U # T => U \in Good
      PROVE  T \in Good
  <2>1. CASE T = {}
    BY <2>1, <1>0
  <2>2. CASE T # {}
    <3> DEFINE U == T \ {Pick(T)}
    <3>1. Pick(T) \in T
      BY <2>2, PickIn
    <3>2. U \in Good
      BY <3>1, <1>1
    <3>3. T \subseteq S /\ U \in SUBSET S
      OBVIOUS
    <3>4. Sums(f, S)[T] = f[Pick(T)] + Sums(f, S)[U]
      BY <2>2, <3>3, SumsStep
    <3>5. Sums(g, S)[T] = g[Pick(T)] + Sums(g, S)[U]
      BY <2>2, <3>3, SumsStep
    <3>6. Sums(f, S)[U] \in Nat
      BY <3>3, SumsNat
    <3>7. g[Pick(T)] = IF Pick(T) = s THEN v ELSE f[Pick(T)]
      BY <3>1
    <3>8. f[Pick(T)] \in Nat /\ f[s] \in Nat
      BY <3>1
    <3>9. Sums(g, S)[U] = IF s \in U THEN Sums(f, S)[U] + v - f[s] ELSE Sums(f, S)[U]
      BY <3>2
    <3>10. s \in U <=> s \in T /\ s # Pick(T)
      OBVIOUS
    <3>11. Sums(g, S)[T] = After(T)
      <4> HIDE DEF U
      <4> QED
        BY <3>1, <3>4, <3>5, <3>6, <3>7, <3>8, <3>9, <3>10
    <3> QED
      BY <3>11
  <2> QED
    BY <2>1, <2>2
<1>2. Good = SUBSET S
  <2> HIDE DEF Good
  <2>1. Good \in SUBSET (SUBSET S)
    BY DEF Good
  <2> QED
    BY <1>1, <2>1, SubsetsReached
<1> QED
  BY <1>2

LEMMA TotalNat == ASSUME NEW f \in [Schemas -> Nat] PROVE Total(f) \in Nat
  BY LoadAssumption, TotalIsSum, SumsNat

LEMMA TotalZero == Total([s \in Schemas |-> 0]) = 0
  BY LoadAssumption, TotalIsSum, SumsZero

LEMMA TotalUpdate ==
  ASSUME NEW f \in [Schemas -> Nat], NEW s \in Schemas, NEW v \in Nat
  PROVE  Total([f EXCEPT ![s] = v]) = Total(f) + v - f[s]
<1> DEFINE g == [f EXCEPT ![s] = v]
<1>1. IsFiniteSet(Schemas) /\ Schemas \in SUBSET Schemas
  BY LoadAssumption
<1>2. g \in [Schemas -> Nat] /\ \A r \in Schemas : g[r] = IF r = s THEN v ELSE f[r]
  OBVIOUS
<1> HIDE DEF g
<1>3. \A T \in SUBSET Schemas :
        Sums(g, Schemas)[T] = IF s \in T THEN Sums(f, Schemas)[T] + v - f[s]
                                         ELSE Sums(f, Schemas)[T]
  BY <1>1, <1>2, SumsUpdate
<1>4. Sums(g, Schemas)[Schemas] = Sums(f, Schemas)[Schemas] + v - f[s]
  BY <1>1, <1>3
<1>5. Total(g) = Sums(g, Schemas)[Schemas] /\ Total(f) = Sums(f, Schemas)[Schemas]
  BY TotalIsSum
<1> QED
  BY <1>4, <1>5 DEF g

-----------------------------------------------------------------------------
(* The inductive invariant.  OneRunning and BudgetKept alone do not say    *)
(* that the active test was started for its schema, nor that it is the     *)
(* last one of it, so that a refused restart that leaves a schema          *)
(* announced replaced a test of frequency 0; InFlightBounded needs the     *)
(* batches that do not exist yet to be settled, and RateRespected the      *)
(* credit a test did not spend.                                            *)

ActiveHasTest ==
  \A s \in Schemas : active[s] # None =>
    test[active[s]] # None /\ test[active[s]].schema = s

\* Tests are numbered in the order of their starts.
InOrder == \A i, j \in Tests : i < j /\ test[j] # None => test[i] # None

ActiveIsLast ==
  \A s \in Schemas : active[s] # None =>
    \A j \in Tests : j > active[s] /\ test[j] # None => test[j].schema # s

Unqueued ==
  \A i \in Tests : \A k \in 1 .. MaxBatches :
    test[i] = None \/ k > test[i].queued => batch[i][k] = [left |-> 0, settled |-> TRUE]

CreditCovered ==
  \A i \in Tests : test[i] # None =>
    test[i].credit + 1000 * test[i].sent <= test[i].rate * test[i].time

LoadInv ==
  TypeOK /\ ActiveHasTest /\ InOrder /\ ActiveIsLast /\ OneRunning /\ BudgetKept
  /\ AnnouncedIsActive /\ Unqueued /\ InFlightBounded /\ CreditCovered

LEMMA NotATest == None \notin Tests
  BY LoadAssumption, LoadBounds DEF Tests

LEMMA InitLoad == Init => LoadInv
<1> SUFFICES ASSUME Init PROVE LoadInv
  OBVIOUS
<1>1. TypeOK
  BY DEF Init, TypeOK, BatchStates
<1>2. /\ ActiveHasTest /\ InOrder /\ ActiveIsLast
      /\ OneRunning /\ AnnouncedIsActive /\ Unqueued /\ CreditCovered
  BY DEF Init, ActiveHasTest, InOrder, ActiveIsLast, OneRunning, AnnouncedIsActive, Unqueued, CreditCovered
<1>3. BudgetKept
  BY TotalZero, LoadAssumption DEF Init, BudgetKept
<1>4. InFlightBounded
  <2>1. \A i \in Tests : Unsettled(i) = {}
    BY DEF Init, Unsettled
  <2>2. Cardinality({}) = 0
    BY FS_EmptySet
  <2>3. \A i \in Tests : test[i] = None
    BY DEF Init
  <2>4. \A i \in Tests : Cardinality(Unsettled(i)) = 0
    BY <2>1, <2>2, Zenon
  <2> QED
    BY <2>3, <2>4, LoadAssumption DEF InFlightBounded
<1> QED
  BY <1>1, <1>2, <1>3, <1>4 DEF LoadInv

LEMMA RequestKeeps ==
  ASSUME LoadInv, NEW q \in Requests, RequestStart(q) \/ PrepareFails(q) PROVE LoadInv'
<1>1. UNCHANGED <<active, frequency, test, batch, announced>>
  BY DEF RequestStart, PrepareFails
<1>2. TypeOK'
  BY <1>1 DEF LoadInv, TypeOK, RequestStart, PrepareFails
<1>3. /\ (ActiveHasTest /\ InOrder /\ ActiveIsLast /\ OneRunning)'
      /\ (AnnouncedIsActive /\ Unqueued /\ CreditCovered)'
  BY <1>1 DEF LoadInv, ActiveHasTest, InOrder, ActiveIsLast, OneRunning, AnnouncedIsActive,
              LastAtZero, Unqueued, CreditCovered
<1>4. (BudgetKept /\ InFlightBounded)'
  BY <1>1 DEF LoadInv, BudgetKept, InFlightBounded, Unsettled
<1> QED
  BY <1>2, <1>3, <1>4 DEF LoadInv

-----------------------------------------------------------------------------
(* What stopLoadTest leaves.                                               *)

Halted(t) == [t EXCEPT !.running = FALSE, !.armed = FALSE]

LEMMA HaltedFields ==
  ASSUME NEW t \in TestStates
  PROVE  /\ Halted(t) \in TestStates /\ ~Halted(t).running /\ ~Halted(t).armed
         /\ Halted(t).schema = t.schema /\ Halted(t).rate = t.rate
         /\ Halted(t).inFlight = t.inFlight /\ Halted(t).credit = t.credit
         /\ Halted(t).time = t.time /\ Halted(t).sent = t.sent /\ Halted(t).queued = t.queued
  BY DEF TestStates, Halted

LEMMA StoppedTest ==
  ASSUME LoadInv, NEW s \in Schemas, NEW i \in Tests
  PROVE  /\ i # active[s] => Stopped(s)[i] = test[i]
         /\ i = active[s] => test[i] \in TestStates /\ Stopped(s)[i] = Halted(test[i])
<1>1. test \in [Tests -> TestStates \cup {None}] /\ (active[s] = None \/ active[s] \in Tests)
  BY DEF LoadInv, TypeOK
<1>2. i = active[s] => active[s] # None /\ test[i] \in TestStates
  BY <1>1, NotATest DEF LoadInv, ActiveHasTest
<1>3. CASE i = active[s]
  <2>1. Stopped(s) = [test EXCEPT ![i].running = FALSE, ![i].armed = FALSE]
    BY <1>2, <1>3 DEF Stopped
  <2>2. Stopped(s)[i] = Halted(test[i])
    BY <1>1, <2>1 DEF Halted
  <2> QED
    BY <1>2, <1>3, <2>2
<1>4. CASE i # active[s]
  BY <1>1, <1>4 DEF Stopped
<1> QED
  BY <1>3, <1>4

LEMMA StoppedFields ==
  ASSUME LoadInv, NEW s \in Schemas, NEW i \in Tests
  PROVE  /\ Stopped(s)[i] \in TestStates \cup {None}
         /\ (Stopped(s)[i] = None) <=> (test[i] = None)
         /\ test[i] # None =>
              /\ test[i] \in TestStates /\ Stopped(s)[i] \in TestStates
              /\ Stopped(s)[i].schema = test[i].schema /\ Stopped(s)[i].rate = test[i].rate
              /\ Stopped(s)[i].inFlight = test[i].inFlight
              /\ Stopped(s)[i].credit = test[i].credit /\ Stopped(s)[i].time = test[i].time
              /\ Stopped(s)[i].sent = test[i].sent /\ Stopped(s)[i].queued = test[i].queued
         /\ i = active[s] => ~Stopped(s)[i].running /\ ~Stopped(s)[i].armed
<1>1. test[i] \in TestStates \cup {None}
  BY DEF LoadInv, TypeOK
<1>2. CASE i # active[s]
  BY <1>1, <1>2, StoppedTest
<1>3. CASE i = active[s]
  <2>1. test[i] \in TestStates /\ Stopped(s)[i] = Halted(test[i])
    BY <1>3, StoppedTest
  <2>2. test[i] # None /\ Halted(test[i]) # None
    BY <2>1, HaltedFields, NoneIsNoTest
  <2> DEFINE t == test[i]
  <2>3. t \in TestStates /\ Stopped(s)[i] = Halted(t) /\ t # None /\ Halted(t) # None
    BY <2>1, <2>2
  <2> HIDE DEF t
  <2>4. /\ Stopped(s)[i] \in TestStates /\ ~Stopped(s)[i].running /\ ~Stopped(s)[i].armed
        /\ Stopped(s)[i].schema = t.schema /\ Stopped(s)[i].rate = t.rate
        /\ Stopped(s)[i].inFlight = t.inFlight /\ Stopped(s)[i].credit = t.credit
        /\ Stopped(s)[i].time = t.time /\ Stopped(s)[i].sent = t.sent
        /\ Stopped(s)[i].queued = t.queued
    BY <2>3, HaltedFields
  <2> QED
    BY <2>3, <2>4 DEF t
<1> QED
  BY <1>2, <1>3

LEMMA StoppedType ==
  ASSUME LoadInv, NEW s \in Schemas
  PROVE  Stopped(s) \in [Tests -> TestStates \cup {None}]
<1>1. DOMAIN Stopped(s) = Tests /\ Stopped(s) = [i \in Tests |-> Stopped(s)[i]]
  BY DEF LoadInv, TypeOK, Stopped
<1> QED
  BY <1>1, StoppedFields

LEMMA ReleasedBudget ==
  ASSUME LoadInv, NEW s \in Schemas
  PROVE  /\ Released(s) \in [Schemas -> Nat]
         /\ Total(Released(s)) \in Nat /\ Total(Released(s)) <= GlobalLimit
         /\ active[s] # None /\ test[active[s]].rate > 0 => Total(Released(s)) < GlobalLimit
<1>1. frequency \in [Schemas -> Nat] /\ Released(s) \in [Schemas -> Nat]
  BY DEF LoadInv, TypeOK, Released
<1>2. Total(frequency) \in Nat /\ Total(Released(s)) \in Nat
  BY <1>1, TotalNat
<1>3. Total(Released(s)) = Total(frequency) + 0 - frequency[s]
  BY <1>1, TotalUpdate DEF Released
<1>4. Total(frequency) <= GlobalLimit /\ GlobalLimit \in Nat
  BY LoadAssumption DEF LoadInv, BudgetKept
<1>5. active[s] # None => frequency[s] = test[active[s]].rate
  BY DEF LoadInv, BudgetKept
<1>6. frequency[s] \in Nat
  BY <1>1
<1> QED
  BY <1>1, <1>2, <1>3, <1>4, <1>5, <1>6

\* A schema whose test and announcement stay is announced as before, whatever tests of
\* other schemas begin.
LEMMA ToldStays ==
  ASSUME LoadInv, NEW r \in Schemas, active'[r] = active[r], announced'[r] = announced[r],
         \A j \in Tests : test[j] # None =>
           test'[j] # None /\ test'[j].schema = test[j].schema /\ test'[j].rate = test[j].rate,
         \A j \in Tests : test[j] = None /\ test'[j] # None => test'[j].schema # r
  PROVE  /\ active'[r] # None /\ test'[active'[r]].rate > 0 => announced'[r] = "started"
         /\ announced'[r] = "started" => active'[r] # None \/ LastAtZero(r)'
<1>1. active[r] # None => active[r] \in Tests /\ test[active[r]] # None
  BY DEF LoadInv, TypeOK, ActiveHasTest
<1>2. LastAtZero(r) => LastAtZero(r)'
  <2> SUFFICES ASSUME LastAtZero(r) PROVE LastAtZero(r)'
    OBVIOUS
  <2>1. PICK i \in Tests : /\ test[i] # None /\ test[i].schema = r /\ test[i].rate = 0
                           /\ \A j \in Tests : j > i /\ test[j] # None => test[j].schema # r
    BY DEF LastAtZero
  <2>2. test'[i] # None /\ test'[i].schema = r /\ test'[i].rate = 0
    BY <2>1
  <2>3. \A j \in Tests : j > i /\ test'[j] # None => test'[j].schema # r
    BY <2>1
  <2> QED
    BY <2>2, <2>3 DEF LastAtZero
<1> QED
  BY <1>1, <1>2 DEF LoadInv, AnnouncedIsActive

-----------------------------------------------------------------------------
(* start_test and stop_test.  They leave the loops and the batches of the  *)
(* tests there are alone, and a test they start has no batch.              *)

Continues(i) ==
  /\ test'[i] # None /\ test'[i].rate = test[i].rate /\ test'[i].schema = test[i].schema
  /\ test'[i].inFlight = test[i].inFlight /\ test'[i].queued = test[i].queued
  /\ test'[i].credit = test[i].credit /\ test'[i].time = test[i].time
  /\ test'[i].sent = test[i].sent

Begins(i) ==
  /\ test'[i] # None /\ test'[i].rate \in Nat
  /\ test'[i].inFlight = 0 /\ test'[i].queued = 0
  /\ test'[i].credit = 0 /\ test'[i].time = 0 /\ test'[i].sent = 0

LEMMA LoopsKept ==
  ASSUME LoadInv, batch' = batch,
         \A i \in Tests : IF test[i] # None THEN Continues(i) ELSE test'[i] = None \/ Begins(i)
  PROVE  (Unqueued /\ InFlightBounded /\ CreditCovered)'
<1>1. Unqueued'
  <2> SUFFICES ASSUME NEW i \in Tests, NEW k \in 1 .. MaxBatches,
                      (test[i] = None \/ k > test[i].queued)'
               PROVE  batch[i][k] = [left |-> 0, settled |-> TRUE]
    BY DEF Unqueued
  <2>1. test[i] = None \/ k > test[i].queued
    BY DEF Continues
  <2> QED
    BY <2>1 DEF LoadInv, Unqueued
<1>2. InFlightBounded'
  <2> SUFFICES ASSUME NEW i \in Tests
               PROVE  /\ test'[i] # None => test'[i].inFlight = Cardinality(Unsettled(i))
                      /\ Cardinality(Unsettled(i)) <= MaxInFlight
    BY DEF InFlightBounded, Unsettled
  <2>1. Cardinality(Unsettled(i)) <= MaxInFlight
    BY DEF LoadInv, InFlightBounded
  <2>2. CASE test[i] # None
    BY <2>1, <2>2 DEF LoadInv, InFlightBounded, Continues
  <2>3. CASE test[i] = None
    <3>1. Unsettled(i) = {}
      BY <2>3 DEF LoadInv, Unqueued, Unsettled
    <3>2. Cardinality(Unsettled(i)) = 0
      BY <3>1, FS_EmptySet, Zenon
    <3> QED
      BY <2>1, <2>3, <3>2 DEF Begins
  <2> QED
    BY <2>2, <2>3
<1>3. CreditCovered'
  <2> SUFFICES ASSUME NEW i \in Tests, test'[i] # None
               PROVE  test'[i].credit + 1000 * test'[i].sent <= test'[i].rate * test'[i].time
    BY DEF CreditCovered
  <2>1. CASE test[i] # None
    BY <2>1 DEF LoadInv, CreditCovered, Continues
  <2>2. CASE test[i] = None
    BY <2>2 DEF Begins
  <2> QED
    BY <2>1, <2>2
<1> QED
  BY <1>1, <1>2, <1>3

LEMMA StopLoadTestKeeps ==
  ASSUME LoadInv, NEW s \in Schemas,
         test' = Stopped(s), frequency' = Released(s), active' = [active EXCEPT ![s] = None],
         batch' = batch,
         request' \in [Requests -> [schema : Schemas, frequency : Frequencies] \cup {None}],
         announced' \in [Schemas -> {"started", "stopped"}],
         \A r \in Schemas \ {s} : announced'[r] = announced[r],
         announced'[s] = "started" => LastAtZero(s)
  PROVE  LoadInv'
<1>1. /\ test' = Stopped(s) /\ frequency' = Released(s)
      /\ active' = [active EXCEPT ![s] = None] /\ batch' = batch
  OBVIOUS
<1>2. TypeOK'
  BY StoppedType, ReleasedBudget DEF LoadInv, TypeOK
<1>3. \A i \in Tests : IF test[i] # None THEN Continues(i) ELSE test'[i] = None
  BY <1>1, StoppedFields DEF Continues
<1>4. (Unqueued /\ InFlightBounded /\ CreditCovered)'
  BY <1>1, <1>3, LoopsKept
<1>5. \A r \in Schemas : active'[r] = IF r = s THEN None ELSE active[r]
  BY <1>1 DEF LoadInv, TypeOK
<1>6. \A r \in Schemas : active[r] # None => active[r] \in Tests
  BY DEF LoadInv, TypeOK
<1>7. ActiveHasTest'
  BY <1>3, <1>5, <1>6 DEF LoadInv, ActiveHasTest, Continues
<1>8. OneRunning'
  <2> SUFFICES ASSUME NEW i \in Tests, test'[i] # None
               PROVE  /\ test'[i].running <=> active'[test'[i].schema] = i
                      /\ test'[i].armed => test'[i].running
    BY DEF OneRunning
  <2>1. test[i] # None /\ test[i] \in TestStates /\ test'[i].schema = test[i].schema
    BY <1>3 DEF LoadInv, TypeOK, Continues
  <2>2. test[i].schema \in Schemas
    BY <2>1 DEF TestStates
  <2>3. CASE i = active[s]
    <3>1. test[i].schema = s
      BY <2>3, NotATest DEF LoadInv, ActiveHasTest
    <3>2. ~test'[i].running /\ ~test'[i].armed
      BY <1>1, <2>3, StoppedFields
    <3>3. active'[s] # i
      BY <1>5, NotATest
    <3> QED
      BY <2>1, <3>1, <3>2, <3>3
  <2>4. CASE i # active[s]
    <3>1. test'[i] = test[i]
      BY <1>1, <2>4, StoppedTest
    <3>2. active'[test[i].schema] = i <=> active[test[i].schema] = i
      BY <1>5, <2>2, <2>4, NotATest
    <3>3. (test[i].running <=> active[test[i].schema] = i) /\ (test[i].armed => test[i].running)
      BY <2>1 DEF LoadInv, OneRunning
    <3> QED
      BY <3>1, <3>2, <3>3
  <2> QED
    BY <2>3, <2>4
<1>9. BudgetKept'
  <2>1. Total(frequency') <= GlobalLimit
    BY <1>1, ReleasedBudget
  <2>2. \A r \in Schemas : frequency'[r] = IF r = s THEN 0 ELSE frequency[r]
    BY <1>1 DEF Released, LoadInv, TypeOK
  <2>3. \A r \in Schemas :
          frequency'[r] = IF active'[r] = None THEN 0 ELSE test'[active'[r]].rate
    BY <1>3, <1>5, <1>6, <2>2 DEF LoadInv, BudgetKept, ActiveHasTest, Continues
  <2> QED
    BY <2>1, <2>3 DEF BudgetKept
<1>10. \A i \in Tests : (test'[i] = None) <=> (test[i] = None)
  BY <1>3 DEF Continues
<1>11. InOrder'
  BY <1>10 DEF LoadInv, InOrder
<1>12. ActiveIsLast'
  BY <1>3, <1>5, <1>6 DEF LoadInv, ActiveIsLast, Continues
<1>13. AnnouncedIsActive'
  <2> SUFFICES ASSUME NEW r \in Schemas
               PROVE  /\ active'[r] # None /\ test'[active'[r]].rate > 0 => announced'[r] = "started"
                      /\ announced'[r] = "started" => active'[r] # None \/ LastAtZero(r)'
    BY DEF AnnouncedIsActive
  <2>1. CASE r # s
    <3>1. active'[r] = active[r] /\ announced'[r] = announced[r]
      BY <1>5, <2>1
    <3> QED
      BY <1>3, <3>1, ToldStays DEF Continues
  <2>2. CASE r = s
    <3>1. active'[r] = None
      BY <1>5, <2>2
    <3>2. LastAtZero(s) => LastAtZero(s)'
      BY <1>3 DEF LastAtZero, Continues
    <3> QED
      BY <2>2, <3>1, <3>2
  <2> QED
    BY <2>1, <2>2
<1> QED
  BY <1>2, <1>4, <1>7, <1>8, <1>9, <1>11, <1>12, <1>13 DEF LoadInv

LEMMA StopTestKeeps == ASSUME LoadInv, NEW s \in Schemas, StopTest(s) PROVE LoadInv'
<1>1. /\ test' = Stopped(s) /\ frequency' = Released(s)
      /\ active' = [active EXCEPT ![s] = None] /\ request' = request /\ batch' = batch
      /\ announced' = [announced EXCEPT ![s] = "stopped"]
  BY DEF StopTest
<1>2. /\ announced' \in [Schemas -> {"started", "stopped"}] /\ announced'[s] = "stopped"
      /\ \A r \in Schemas \ {s} : announced'[r] = announced[r]
  BY <1>1 DEF LoadInv, TypeOK
<1>3. request' \in [Requests -> [schema : Schemas, frequency : Frequencies] \cup {None}]
  BY <1>1 DEF LoadInv, TypeOK
<1> QED
  BY <1>1, <1>2, <1>3, StopLoadTestKeeps

LEMMA StartTestKeeps == ASSUME LoadInv, NEW q \in Requests, StartTest(q) PROVE LoadInv'
<1> DEFINE s == request[q].schema
           budget == RemainingBudget(Released(s))
           actual == Smaller(request[q].frequency, budget)
<1>1. request[q] \in [schema : Schemas, frequency : Frequencies]
  BY DEF LoadInv, TypeOK, StartTest
<1>2. s \in Schemas /\ request[q].frequency \in Nat
  BY <1>1, LoadAssumption
<1>3. request' \in [Requests -> [schema : Schemas, frequency : Frequencies] \cup {None}]
  BY DEF LoadInv, TypeOK, StartTest
<1>4. batch' = batch
  BY DEF StartTest
<1>5. /\ Released(s) \in [Schemas -> Nat]
      /\ Total(Released(s)) \in Nat /\ Total(Released(s)) <= GlobalLimit
      /\ active[s] # None /\ test[active[s]].rate > 0 => Total(Released(s)) < GlobalLimit
  BY <1>2, ReleasedBudget
<1>6. budget = GlobalLimit - Total(Released(s)) /\ budget \in Nat
  BY <1>5, LoadAssumption DEF RemainingBudget
<1>7. CASE budget = 0
  <2>1. /\ test' = Stopped(s) /\ frequency' = Released(s)
        /\ active' = [active EXCEPT ![s] = None] /\ announced' = announced
    BY <1>7 DEF StartTest
  <2>2. active[s] # None => LastAtZero(s)
    <3> SUFFICES ASSUME active[s] # None PROVE LastAtZero(s)
      OBVIOUS
    <3> HIDE DEF s, budget, actual
    <3>1. active[s] \in Tests /\ test[active[s]] \in TestStates /\ test[active[s]].schema = s
      BY <1>2 DEF LoadInv, TypeOK, ActiveHasTest
    <3>2. test[active[s]] # None /\ test[active[s]].rate \in Nat
      BY <1>2, <3>1 DEF LoadInv, ActiveHasTest, TestStates
    <3>3. ~(test[active[s]].rate > 0)
      BY <1>5, <1>6, <1>7, LoadAssumption
    <3>4. test[active[s]].rate = 0
      BY <3>2, <3>3
    <3>5. \A j \in Tests : j > active[s] /\ test[j] # None => test[j].schema # s
      BY <1>2 DEF LoadInv, ActiveIsLast
    <3> QED
      BY <3>1, <3>2, <3>4, <3>5 DEF LastAtZero
  <2>3. /\ announced' \in [Schemas -> {"started", "stopped"}]
        /\ \A r \in Schemas \ {s} : announced'[r] = announced[r]
        /\ announced'[s] = "started" => LastAtZero(s)
    <3> HIDE DEF s, budget, actual
    <3> QED
      BY <1>2, <2>1, <2>2 DEF LoadInv, TypeOK, AnnouncedIsActive
  <2> QED
    BY <1>2, <1>3, <1>4, <2>1, <2>3, StopLoadTestKeeps
<1>8. CASE budget # 0
  <2>1. PICK i \in Tests :
          /\ test[i] = None /\ \A j \in Tests : j < i => test[j] # None
          /\ test' = [Stopped(s) EXCEPT ![i] = NewTest(s, actual)]
          /\ frequency' = [Released(s) EXCEPT ![s] = actual]
          /\ active' = [active EXCEPT ![s] = i]
          /\ announced' = IF actual = 0 THEN announced ELSE [announced EXCEPT ![s] = "started"]
    BY <1>8 DEF StartTest, Announce
  <2>2. actual \in Nat /\ actual <= budget
    BY <1>2, <1>6, <1>8 DEF Smaller
  <2> HIDE DEF s, actual, budget
  <2> DEFINE new == NewTest(s, actual)
  <2>3. /\ new \in TestStates /\ new # None
        /\ new.schema = s /\ new.rate = actual /\ new.running /\ new.armed
        /\ new.inFlight = 0 /\ new.queued = 0 /\ new.credit = 0 /\ new.time = 0 /\ new.sent = 0
    <3>1. new \in TestStates
      BY <1>2, <2>2 DEF NewTest, TestStates
    <3>2. new # None
      BY <3>1, NoneIsNoTest
    <3> QED
      BY <3>1, <3>2 DEF NewTest
  <2> HIDE DEF new
  <2>4. Stopped(s) \in [Tests -> TestStates \cup {None}]
    BY <1>2, StoppedType
  <2>5. test'[i] = new /\ \A j \in Tests \ {i} : test'[j] = Stopped(s)[j]
    BY <2>1, <2>4 DEF new
  <2>6. TypeOK'
    BY <1>2, <1>3, <1>4, <1>5, <2>1, <2>2, <2>3, <2>4 DEF LoadInv, TypeOK, new
  <2>7. \A j \in Tests : test[j] # None => j # i /\ Continues(j)
    BY <1>2, <2>1, <2>5, StoppedFields DEF Continues
  <2>8. Begins(i)
    BY <2>2, <2>3, <2>5 DEF Begins
  <2>9. \A j \in Tests \ {i} : test[j] = None => test'[j] = None
    BY <1>2, <2>5, StoppedFields
  <2>10. (Unqueued /\ InFlightBounded /\ CreditCovered)'
    <3>1. \A j \in Tests : IF test[j] # None THEN Continues(j) ELSE test'[j] = None \/ Begins(j)
      BY <2>7, <2>8, <2>9
    <3> QED
      BY <1>4, <3>1, LoopsKept
  <2>11. \A r \in Schemas : active'[r] = IF r = s THEN i ELSE active[r]
    BY <2>1 DEF LoadInv, TypeOK
  <2>12. \A r \in Schemas : active[r] # None => active[r] \in Tests /\ active[r] # i
    BY <2>1 DEF LoadInv, TypeOK, ActiveHasTest
  <2>13. ActiveHasTest'
    BY <2>2, <2>3, <2>5, <2>7, <2>11, <2>12 DEF LoadInv, ActiveHasTest, Continues
  <2>14. OneRunning'
    <3> SUFFICES ASSUME NEW j \in Tests, test'[j] # None
                 PROVE  /\ test'[j].running <=> active'[test'[j].schema] = j
                        /\ test'[j].armed => test'[j].running
      BY DEF OneRunning
    <3>1. CASE j = i
      BY <1>2, <2>3, <2>5, <2>11, <3>1
    <3>2. CASE j # i
      <4>1. test[j] # None /\ test[j] \in TestStates /\ test'[j].schema = test[j].schema
        BY <2>7, <2>9, <3>2 DEF LoadInv, TypeOK, Continues
      <4>2. test[j].schema \in Schemas
        BY <4>1 DEF TestStates
      <4>3. CASE j = active[s]
        <5>1. test[j].schema = s
          BY <1>2, <4>3, NotATest DEF LoadInv, ActiveHasTest
        <5>2. ~test'[j].running /\ ~test'[j].armed
          BY <1>2, <2>5, <3>2, <4>3, StoppedFields
        <5>3. active'[s] # j
          BY <1>2, <2>11, <3>2
        <5> QED
          BY <4>1, <5>1, <5>2, <5>3
      <4>4. CASE j # active[s]
        <5>1. test'[j] = test[j]
          BY <1>2, <2>5, <3>2, <4>4, StoppedTest
        <5>2. active'[test[j].schema] = j <=> active[test[j].schema] = j
          BY <2>11, <3>2, <4>2, <4>4
        <5>3. (test[j].running <=> active[test[j].schema] = j) /\ (test[j].armed => test[j].running)
          BY <4>1 DEF LoadInv, OneRunning
        <5> QED
          BY <5>1, <5>2, <5>3
      <4> QED
        BY <4>3, <4>4
    <3> QED
      BY <3>1, <3>2
  <2>15. BudgetKept'
    <3>1. Released(s)[s] = 0
      BY <1>2 DEF LoadInv, TypeOK, Released
    <3>2. Total(frequency') = Total(Released(s)) + actual - Released(s)[s]
      BY <1>2, <1>5, <2>1, <2>2, TotalUpdate
    <3>3. Total(frequency') <= GlobalLimit
      BY <1>5, <1>6, <2>2, <3>1, <3>2, LoadAssumption
    <3>4. \A r \in Schemas : frequency'[r] = IF r = s THEN actual ELSE frequency[r]
      BY <2>1 DEF Released, LoadInv, TypeOK
    <3>5. \A r \in Schemas :
            frequency'[r] = IF active'[r] = None THEN 0 ELSE test'[active'[r]].rate
      BY <2>3, <2>5, <2>7, <2>11, <2>12, <3>4, NotATest
         DEF LoadInv, BudgetKept, ActiveHasTest, Continues
    <3> QED
      BY <3>3, <3>5 DEF BudgetKept
  <2>16. \A j \in Tests : j # i => (test'[j] = None <=> test[j] = None)
    BY <2>7, <2>9 DEF Continues
  <2>17. \A j \in Tests : j > i => test[j] = None
    BY <2>1 DEF LoadInv, InOrder
  <2>18. InOrder'
    <3> SUFFICES ASSUME NEW j \in Tests, NEW k \in Tests, j < k, test'[k] # None PROVE test'[j] # None
      BY DEF InOrder
    <3>1. CASE j = i
      BY <2>8, <3>1 DEF Begins
    <3>2. CASE j # i /\ k = i
      BY <2>1, <2>16, <3>2
    <3>3. CASE j # i /\ k # i
      BY <2>16, <3>3 DEF LoadInv, InOrder
    <3> QED
      BY <3>1, <3>2, <3>3
  <2>19. ActiveIsLast'
    <3> SUFFICES ASSUME NEW r \in Schemas, active'[r] # None,
                        NEW j \in Tests, j > active'[r], test'[j] # None
                 PROVE  test'[j].schema # r
      BY DEF ActiveIsLast
    <3>1. CASE r = s
      <4>1. j > i /\ j # i
        BY <2>11, <3>1, LoadBounds DEF Tests
      <4> QED
        BY <2>16, <2>17, <4>1
    <3>2. CASE r # s /\ j = i
      BY <2>3, <2>5, <3>2
    <3>3. CASE r # s /\ j # i
      <4>1. active[r] # None /\ j > active[r] /\ test[j] # None
        BY <2>11, <2>16, <3>3
      <4> QED
        BY <2>7, <4>1 DEF LoadInv, ActiveIsLast, Continues
    <3> QED
      BY <3>1, <3>2, <3>3
  <2>20. announced' \in [Schemas -> {"started", "stopped"}]
    BY <2>1 DEF LoadInv, TypeOK
  <2>21. AnnouncedIsActive'
    <3> SUFFICES ASSUME NEW r \in Schemas
                 PROVE  /\ active'[r] # None /\ test'[active'[r]].rate > 0 => announced'[r] = "started"
                        /\ announced'[r] = "started" => active'[r] # None \/ LastAtZero(r)'
      BY DEF AnnouncedIsActive
    <3>1. CASE r = s
      <4>1. active'[r] = i /\ i # None /\ test'[i].rate = actual
        BY <2>3, <2>5, <2>11, <3>1, NotATest
      <4>2. actual > 0 => announced'[r] = "started"
        BY <1>2, <2>1, <3>1 DEF LoadInv, TypeOK
      <4> QED
        BY <4>1, <4>2
    <3>2. CASE r # s
      <4>1. active'[r] = active[r] /\ announced'[r] = announced[r]
        BY <2>1, <2>11, <3>2 DEF LoadInv, TypeOK
      <4>2. \A j \in Tests : test[j] = None /\ test'[j] # None => test'[j].schema # r
        BY <2>3, <2>5, <2>16, <3>2
      <4> QED
        BY <2>7, <4>1, <4>2, ToldStays DEF Continues
    <3> QED
      BY <3>1, <3>2
  <2> QED
    BY <2>6, <2>10, <2>13, <2>14, <2>15, <2>18, <2>19, <2>21 DEF LoadInv
<1> QED
  BY <1>7, <1>8

-----------------------------------------------------------------------------
(* The loop of a test and its batches.  A step of them changes the counts  *)
(* of one test.                                                            *)

SameTest(i) ==
  /\ test'[i] # None /\ test'[i].schema = test[i].schema /\ test'[i].rate = test[i].rate
  /\ test'[i].running = test[i].running /\ test'[i].armed = test[i].armed

LEMMA CountsOnly ==
  ASSUME LoadInv, NEW i \in Tests, test[i] # None, SameTest(i),
         \A j \in Tests \ {i} : test'[j] = test[j],
         UNCHANGED <<request, active, frequency, announced>>
  PROVE  (ActiveHasTest /\ InOrder /\ ActiveIsLast /\ OneRunning /\ BudgetKept /\ AnnouncedIsActive)'
<1>1. \A r \in Schemas : active[r] # None => active[r] \in Tests
  BY DEF LoadInv, TypeOK
<1>2. \A j \in Tests : test'[j] # None => test[j] # None
  OBVIOUS
<1>3. \A j \in Tests : test[j] # None => SameTest(j)
  BY DEF SameTest
<1>4. ActiveHasTest'
  BY <1>1, <1>3 DEF LoadInv, ActiveHasTest, SameTest
<1>5. OneRunning'
  BY <1>2, <1>3 DEF LoadInv, OneRunning, SameTest
<1>6. BudgetKept'
  BY <1>1, <1>3 DEF LoadInv, BudgetKept, ActiveHasTest, SameTest
<1>7. AnnouncedIsActive'
  <2> SUFFICES ASSUME NEW r \in Schemas
               PROVE  /\ active'[r] # None /\ test'[active'[r]].rate > 0 => announced'[r] = "started"
                      /\ announced'[r] = "started" => active'[r] # None \/ LastAtZero(r)'
    BY DEF AnnouncedIsActive
  <2> QED
    BY <1>2, <1>3, ToldStays DEF SameTest
<1>8. InOrder'
  BY <1>2, <1>3 DEF LoadInv, InOrder, SameTest
<1>9. ActiveIsLast'
  BY <1>2, <1>3 DEF LoadInv, ActiveIsLast, SameTest
<1> QED
  BY <1>4, <1>5, <1>6, <1>7, <1>8, <1>9

LEMMA BacklogNat == ASSUME NEW r \in Nat PROVE Backlog(r) \in Nat
<1>1. r * BacklogMs \in Nat
  BY LoadAssumption
<1>2. (r * BacklogMs) \div 1000 \in Int
  BY <1>1
<1> QED
  BY <1>2 DEF Backlog

LEMMA ChunksNat == ASSUME NEW n \in Nat PROVE Chunks(n) \in Nat
<1>1. n + ChunkSize - 1 \in Nat /\ ChunkSize \in Nat /\ ChunkSize > 0
  BY LoadAssumption
<1> QED
  BY <1>1 DEF Chunks

LEMMA Earned ==
  ASSUME NEW r \in Nat, NEW t \in Nat, NEW d \in Nat
  PROVE  d * r \in Nat /\ r * (t + d) = r * t + d * r
  OBVIOUS


Throttled(t, c, d) == [t EXCEPT !.credit = c, !.time = @ + d]
Queued(t, c, d, n) ==
  [t EXCEPT !.credit = c, !.time = @ + d, !.sent = @ + n, !.queued = @ + 1, !.inFlight = @ + 1]
Returned(t, m) == [t EXCEPT !.inFlight = m]

LEMMA OneField ==
  ASSUME NEW t \in TestStates, NEW n \in Nat
  PROVE  /\ [t EXCEPT !.credit = n] \in TestStates
         /\ [t EXCEPT !.time = n] \in TestStates
         /\ [t EXCEPT !.sent = n] \in TestStates
         /\ [t EXCEPT !.queued = n] \in TestStates
         /\ [t EXCEPT !.inFlight = n] \in TestStates
<1>1. [t EXCEPT !.credit = n] \in TestStates /\ [t EXCEPT !.time = n] \in TestStates
  BY DEF TestStates
<1>2. [t EXCEPT !.sent = n] \in TestStates /\ [t EXCEPT !.queued = n] \in TestStates
  BY DEF TestStates
<1>3. [t EXCEPT !.inFlight = n] \in TestStates
  BY DEF TestStates
<1> QED
  BY <1>1, <1>2, <1>3

LEMMA ThrottledFields ==
  ASSUME NEW t \in TestStates, NEW c \in Nat, NEW d \in Nat
  PROVE  /\ Throttled(t, c, d) \in TestStates
         /\ Throttled(t, c, d).schema = t.schema /\ Throttled(t, c, d).rate = t.rate
         /\ Throttled(t, c, d).running = t.running /\ Throttled(t, c, d).armed = t.armed
         /\ Throttled(t, c, d).credit = c /\ Throttled(t, c, d).time = t.time + d
         /\ Throttled(t, c, d).sent = t.sent /\ Throttled(t, c, d).queued = t.queued
         /\ Throttled(t, c, d).inFlight = t.inFlight
<1>1. Throttled(t, c, d) \in TestStates
  <2> DEFINE u == [t EXCEPT !.credit = c]
  <2>1. u \in TestStates /\ t.time + d \in Nat
    BY OneField DEF TestStates
  <2>2. Throttled(t, c, d) = [u EXCEPT !.time = t.time + d]
    BY DEF Throttled, TestStates
  <2> HIDE DEF u
  <2>3. [u EXCEPT !.time = t.time + d] \in TestStates
    BY <2>1, OneField
  <2> QED
    BY <2>2, <2>3
<1>2. Throttled(t, c, d).schema = t.schema /\ Throttled(t, c, d).rate = t.rate
  BY DEF TestStates, Throttled
<1>3. Throttled(t, c, d).running = t.running /\ Throttled(t, c, d).armed = t.armed
  BY DEF TestStates, Throttled
<1>4. Throttled(t, c, d).credit = c
  BY DEF TestStates, Throttled
<1>5. Throttled(t, c, d).time = t.time + d
  BY DEF TestStates, Throttled
<1>6. Throttled(t, c, d).sent = t.sent
  BY DEF TestStates, Throttled
<1>7. Throttled(t, c, d).queued = t.queued
  BY DEF TestStates, Throttled
<1>8. Throttled(t, c, d).inFlight = t.inFlight
  BY DEF TestStates, Throttled
<1> QED
  BY <1>1, <1>2, <1>3, <1>4, <1>5, <1>6, <1>7, <1>8

LEMMA QueuedFields ==
  ASSUME NEW t \in TestStates, NEW c \in Nat, NEW d \in Nat, NEW n \in Nat
  PROVE  /\ Queued(t, c, d, n) \in TestStates
         /\ Queued(t, c, d, n).schema = t.schema /\ Queued(t, c, d, n).rate = t.rate
         /\ Queued(t, c, d, n).running = t.running /\ Queued(t, c, d, n).armed = t.armed
         /\ Queued(t, c, d, n).credit = c /\ Queued(t, c, d, n).time = t.time + d
         /\ Queued(t, c, d, n).sent = t.sent + n /\ Queued(t, c, d, n).queued = t.queued + 1
         /\ Queued(t, c, d, n).inFlight = t.inFlight + 1
<1>1. Queued(t, c, d, n) \in TestStates
  <2> DEFINE u == [t EXCEPT !.credit = c]
             v == [u EXCEPT !.time = t.time + d]
             w == [v EXCEPT !.sent = t.sent + n]
             x == [w EXCEPT !.queued = t.queued + 1]
             y == [x EXCEPT !.inFlight = t.inFlight + 1]
  <2>1. /\ t.time + d \in Nat /\ t.sent + n \in Nat
        /\ t.queued + 1 \in Nat /\ t.inFlight + 1 \in Nat
    BY DEF TestStates
  <2>2. Queued(t, c, d, n) = y
    BY DEF Queued, TestStates
  <2>3. u \in TestStates
    BY OneField
  <2>4. v \in TestStates
    <3> HIDE DEF u
    <3> QED
      BY <2>1, <2>3, OneField
  <2>5. w \in TestStates
    <3> HIDE DEF v
    <3> QED
      BY <2>1, <2>4, OneField
  <2>6. x \in TestStates
    <3> HIDE DEF w
    <3> QED
      BY <2>1, <2>5, OneField
  <2>7. y \in TestStates
    <3> HIDE DEF x
    <3> QED
      BY <2>1, <2>6, OneField
  <2> HIDE DEF y
  <2> QED
    BY <2>2, <2>7
<1>2. Queued(t, c, d, n).schema = t.schema /\ Queued(t, c, d, n).rate = t.rate
  BY DEF TestStates, Queued
<1>3. Queued(t, c, d, n).running = t.running /\ Queued(t, c, d, n).armed = t.armed
  BY DEF TestStates, Queued
<1>4. Queued(t, c, d, n).credit = c
  BY DEF TestStates, Queued
<1>5. Queued(t, c, d, n).time = t.time + d
  BY DEF TestStates, Queued
<1>6. Queued(t, c, d, n).sent = t.sent + n
  BY DEF TestStates, Queued
<1>7. Queued(t, c, d, n).queued = t.queued + 1
  BY DEF TestStates, Queued
<1>8. Queued(t, c, d, n).inFlight = t.inFlight + 1
  BY DEF TestStates, Queued
<1> QED
  BY <1>1, <1>2, <1>3, <1>4, <1>5, <1>6, <1>7, <1>8

LEMMA ReturnedFields ==
  ASSUME NEW t \in TestStates, NEW m \in Nat
  PROVE  /\ Returned(t, m) \in TestStates
         /\ Returned(t, m).schema = t.schema /\ Returned(t, m).rate = t.rate
         /\ Returned(t, m).running = t.running /\ Returned(t, m).armed = t.armed
         /\ Returned(t, m).credit = t.credit /\ Returned(t, m).time = t.time
         /\ Returned(t, m).sent = t.sent /\ Returned(t, m).queued = t.queued
         /\ Returned(t, m).inFlight = m
<1>1. Returned(t, m) \in TestStates
  BY DEF TestStates, Returned
<1>2. Returned(t, m).schema = t.schema /\ Returned(t, m).rate = t.rate
  BY DEF TestStates, Returned
<1>3. Returned(t, m).running = t.running /\ Returned(t, m).armed = t.armed
  BY DEF TestStates, Returned
<1>4. Returned(t, m).credit = t.credit /\ Returned(t, m).time = t.time
  BY DEF TestStates, Returned
<1>5. Returned(t, m).sent = t.sent /\ Returned(t, m).queued = t.queued
  BY DEF TestStates, Returned
<1>6. Returned(t, m).inFlight = m
  BY DEF TestStates, Returned
<1> QED
  BY <1>1, <1>2, <1>3, <1>4, <1>5, <1>6

LEMMA AtThrottled ==
  ASSUME NEW i \in Tests, NEW c, NEW d, test \in [Tests -> TestStates \cup {None}],
         test' = [test EXCEPT ![i].credit = c, ![i].time = @ + d]
  PROVE  test'[i] = Throttled(test[i], c, d) /\ \A j \in Tests \ {i} : test'[j] = test[j]
<1>1. test'[i] = Throttled(test[i], c, d)
  BY DEF Throttled
<1>2. \A j \in Tests \ {i} : test'[j] = test[j]
  OBVIOUS
<1> QED
  BY <1>1, <1>2

LEMMA AtQueued ==
  ASSUME NEW i \in Tests, NEW c, NEW d, NEW n, test \in [Tests -> TestStates \cup {None}],
         test' = [test EXCEPT ![i].credit = c, ![i].time = @ + d, ![i].sent = @ + n,
                              ![i].queued = @ + 1, ![i].inFlight = @ + 1]
  PROVE  /\ test'[i] = Queued(test[i], c, d, n)
         /\ \A j \in Tests \ {i} : test'[j] = test[j]
         /\ test' = [j \in Tests |-> test'[j]]
<1>1. test'[i] = Queued(test[i], c, d, n)
  BY DEF Queued
<1>2. \A j \in Tests \ {i} : test'[j] = test[j]
  OBVIOUS
<1>3. test' = [j \in Tests |-> test'[j]]
  OBVIOUS
<1> QED
  BY <1>1, <1>2, <1>3

LEMMA AtReturned ==
  ASSUME NEW i \in Tests, test \in [Tests -> TestStates \cup {None}],
         test' = [test EXCEPT ![i].inFlight = IF @ > 0 THEN @ - 1 ELSE 0]
  PROVE  /\ test'[i] = Returned(test[i], IF test[i].inFlight > 0 THEN test[i].inFlight - 1 ELSE 0)
         /\ \A j \in Tests \ {i} : test'[j] = test[j]
  BY DEF Returned

TickThrottles(i, delta, credit) ==
  /\ test' = [test EXCEPT ![i].credit = credit, ![i].time = @ + delta]
  /\ UNCHANGED batch

TickQueues(i, delta, credit, count) ==
  /\ ~Saturated(test[i])
  /\ credit >= 1000
  /\ test[i].queued < MaxBatches
  /\ test' = [test EXCEPT ![i].credit = Spent(credit, count), ![i].time = @ + delta,
                          ![i].sent = @ + count, ![i].queued = @ + 1, ![i].inFlight = @ + 1]
  /\ batch' = [batch EXCEPT ![i][test[i].queued + 1] =
                 [left |-> Chunks(count), settled |-> FALSE]]

LEMMA TickCases ==
  ASSUME NEW i \in Tests, NEW delta \in Deltas, Tick(i, delta)
  PROVE  LET t == test[i]
             credit == Credited(t, delta)
             count == Due(t, credit)
         IN  TickThrottles(i, delta, credit) \/ TickQueues(i, delta, credit, count)
  BY DEF Tick, TickThrottles, TickQueues

LEMMA TickKeeps ==
  ASSUME LoadInv, NEW i \in Tests, NEW delta \in Deltas, Tick(i, delta) PROVE LoadInv'
<1> DEFINE t == test[i]
           credit == Credited(t, delta)
           count == Due(t, credit)
<1>1. t # None /\ t \in TestStates
  BY DEF LoadInv, TypeOK, Tick
<1>2. /\ t.schema \in Schemas /\ t.rate \in Nat /\ t.running \in BOOLEAN /\ t.armed \in BOOLEAN
      /\ t.inFlight \in Nat /\ t.credit \in Nat /\ t.time \in Nat /\ t.sent \in Nat
      /\ t.queued \in Nat
  BY <1>1 DEF TestStates
<1>3. delta \in Nat /\ Backlog(t.rate) \in Nat /\ delta * t.rate \in Nat
  BY <1>2, LoadAssumption, BacklogNat, Earned
<1>4. credit \in Nat /\ credit <= t.credit + delta * t.rate
  BY <1>2, <1>3 DEF Smaller, Credited
<1>5. count \in Nat /\ 1000 * count <= credit
  <2>1. credit \div 1000 \in Nat /\ 1000 * (credit \div 1000) <= credit
    BY <1>4
  <2> DEFINE whole == credit \div 1000
             most == Backlog(t.rate)
  <2>2. whole \in Nat /\ 1000 * whole <= credit /\ most \in Nat /\ credit \in Nat
    BY <1>3, <1>4, <2>1
  <2> HIDE DEF whole, most, credit
  <2>3. Smaller(whole, most) \in Nat /\ 1000 * Smaller(whole, most) <= credit
    BY <2>2 DEF Smaller
  <2> QED
    BY <2>3 DEF whole, most, Due
<1>6. credit + 1000 * t.sent <= t.rate * (t.time + delta)
  <2>1. t.credit + 1000 * t.sent <= t.rate * t.time
    BY <1>1 DEF LoadInv, CreditCovered
  <2>2. t.rate * (t.time + delta) = t.rate * t.time + delta * t.rate /\ t.rate * t.time \in Int
    BY <1>2, <1>3, Earned
  <2> DEFINE before == t.rate * t.time
             earned == delta * t.rate
  <2>3. before \in Int /\ earned \in Nat
    BY <1>3, <2>2
  <2>4. /\ t.credit + 1000 * t.sent <= before /\ credit <= t.credit + earned
        /\ t.rate * (t.time + delta) = before + earned
        /\ credit \in Nat /\ t.credit \in Nat /\ t.sent \in Nat
    BY <1>2, <1>4, <2>1, <2>2
  <2> HIDE DEF before, earned, credit, t
  <2>5. credit + 1000 * t.sent <= before + earned
    BY <2>3, <2>4
  <2> QED
    BY <2>4, <2>5, Zenon
<1>7. UNCHANGED <<request, active, frequency, announced>>
  BY DEF Tick
<1>8. TickThrottles(i, delta, credit) \/ TickQueues(i, delta, credit, count)
  BY TickCases
<1> HIDE DEF t, credit, count
<1>9. batch \in [Tests -> [1 .. MaxBatches -> BatchStates]]
  BY DEF LoadInv, TypeOK
<1>10. CASE TickThrottles(i, delta, credit)
  <2>0. batch' = batch
    BY <1>10 DEF TickThrottles
  <2>1. test'[i] = Throttled(t, credit, delta) /\ \A j \in Tests \ {i} : test'[j] = test[j]
    BY <1>10, AtThrottled DEF LoadInv, TypeOK, TickThrottles, t
  <2>2. test'[i] \in TestStates /\ test'[i] # None
    <3>1. test'[i] \in TestStates
      BY <1>1, <1>3, <1>4, <2>1, ThrottledFields
    <3> QED
      BY <3>1, NoneIsNoTest
  <2>3. /\ test'[i].schema = t.schema /\ test'[i].rate = t.rate
        /\ test'[i].running = t.running /\ test'[i].armed = t.armed
        /\ test'[i].credit = credit /\ test'[i].time = t.time + delta
        /\ test'[i].sent = t.sent /\ test'[i].queued = t.queued /\ test'[i].inFlight = t.inFlight
    BY <1>1, <1>3, <1>4, <2>1, ThrottledFields
  <2>4. TypeOK'
    BY <1>7, <1>10, <2>1, <2>2 DEF LoadInv, TypeOK, TickThrottles
  <2>5. (ActiveHasTest /\ InOrder /\ ActiveIsLast /\ OneRunning /\ BudgetKept /\ AnnouncedIsActive)'
    <3>1. SameTest(i) /\ test[i] # None
      BY <1>1, <2>2, <2>3 DEF SameTest, t
    <3> QED
      BY <1>7, <2>1, <3>1, CountsOnly
  <2>6. Unqueued'
    BY <1>1, <2>0, <2>1, <2>2, <2>3 DEF LoadInv, Unqueued, t
  <2>7. InFlightBounded'
    BY <1>1, <2>0, <2>1, <2>2, <2>3 DEF LoadInv, InFlightBounded, Unsettled, t
  <2>8. CreditCovered'
    BY <1>6, <2>1, <2>2, <2>3 DEF LoadInv, CreditCovered
  <2> QED
    BY <2>4, <2>5, <2>6, <2>7, <2>8 DEF LoadInv
<1>11. CASE TickQueues(i, delta, credit, count)
  <2> DEFINE rest == Spent(credit, count)
             k == t.queued + 1
             new == [left |-> Chunks(count), settled |-> FALSE]
  <2>0. rest \in Nat /\ rest + 1000 * count = credit
    BY <1>4, <1>5 DEF Spent
  <2>1. k \in 1 .. MaxBatches /\ new \in BatchStates /\ new.settled = FALSE
    BY <1>2, <1>5, <1>11, ChunksNat, LoadBounds DEF BatchStates, TickQueues, t
  <2>2. /\ batch'[i][k] = new
        /\ \A m \in (1 .. MaxBatches) \ {k} : batch'[i][m] = batch[i][m]
        /\ \A j \in Tests \ {i} : batch'[j] = batch[j]
        /\ batch' \in [Tests -> [1 .. MaxBatches -> BatchStates]]
    <3> HIDE DEF TickQueues, new, k, t
    <3>1. batch' = [batch EXCEPT ![i][k] = new]
      BY <1>11 DEF TickQueues, new, k, t
    <3> QED
      BY <1>9, <2>1, <3>1
  <2> HIDE DEF rest
  <2>3. /\ test'[i] = Queued(t, rest, delta, count)
        /\ \A j \in Tests \ {i} : test'[j] = test[j]
        /\ test' = [j \in Tests |-> test'[j]]
    BY <1>11, AtQueued DEF LoadInv, TypeOK, TickQueues, t, rest
  <2>4. test'[i] \in TestStates /\ test'[i] # None
    <3>1. test'[i] \in TestStates
      BY <1>1, <1>3, <1>5, <2>0, <2>3, QueuedFields
    <3> QED
      BY <3>1, NoneIsNoTest
  <2>5. /\ test'[i].schema = t.schema /\ test'[i].rate = t.rate
        /\ test'[i].running = t.running /\ test'[i].armed = t.armed
        /\ test'[i].credit = rest /\ test'[i].time = t.time + delta
        /\ test'[i].sent = t.sent + count /\ test'[i].queued = t.queued + 1
        /\ test'[i].inFlight = t.inFlight + 1
    <3>1. /\ t \in TestStates /\ rest \in Nat /\ delta \in Nat /\ count \in Nat
          /\ test'[i] = Queued(t, rest, delta, count)
      BY <1>1, <1>3, <1>5, <2>0, <2>3
    <3> QED
      BY <3>1, QueuedFields
  <2>6. TypeOK'
    BY <1>7, <2>2, <2>3, <2>4 DEF LoadInv, TypeOK
  <2>7. (ActiveHasTest /\ InOrder /\ ActiveIsLast /\ OneRunning /\ BudgetKept /\ AnnouncedIsActive)'
    <3>1. SameTest(i) /\ test[i] # None
      BY <1>1, <2>4, <2>5 DEF SameTest, t
    <3> QED
      BY <1>7, <2>3, <3>1, CountsOnly
  <2>8. Unqueued'
    <3> SUFFICES ASSUME NEW j \in Tests, NEW m \in 1 .. MaxBatches,
                        test'[j] = None \/ m > test'[j].queued
                 PROVE  batch'[j][m] = [left |-> 0, settled |-> TRUE]
      BY DEF Unqueued
    <3>1. CASE j = i
      <4>1. m # k /\ m > t.queued
        BY <1>2, <2>4, <2>5, <3>1
      <4> QED
        BY <2>2, <3>1, <4>1 DEF LoadInv, Unqueued, t
    <3>2. CASE j # i
      BY <2>2, <2>3, <3>2 DEF LoadInv, Unqueued
    <3> QED
      BY <3>1, <3>2
  <2>9. InFlightBounded'
    <3>1. Unsettled(i)' = Unsettled(i) \cup {k}
      BY <2>1, <2>2 DEF Unsettled
    <3>2. k \notin Unsettled(i)
      BY <1>1, <1>2, <2>1 DEF LoadInv, Unqueued, Unsettled, t
    <3>3. IsFiniteSet(Unsettled(i))
      <4>1. IsFiniteSet(1 .. MaxBatches)
        BY FS_Interval, LoadBounds
      <4>2. Unsettled(i) \subseteq 1 .. MaxBatches
        BY DEF Unsettled
      <4> QED
        BY <4>1, <4>2, FS_Subset
    <3>4. Cardinality(Unsettled(i)') = Cardinality(Unsettled(i)) + 1
      BY <3>1, <3>2, <3>3, FS_AddElement
    <3>5. t.inFlight = Cardinality(Unsettled(i)) /\ t.inFlight < MaxInFlight
      BY <1>1, <1>2, <1>11, LoadAssumption DEF LoadInv, InFlightBounded, TickQueues, Saturated, t
    <3>6. \A j \in Tests \ {i} : Unsettled(j)' = Unsettled(j)
      BY <2>2 DEF Unsettled
    <3>7. \A j \in Tests \ {i} : /\ test'[j] # None => test'[j].inFlight = Cardinality(Unsettled(j)')
                                 /\ Cardinality(Unsettled(j)') <= MaxInFlight
      BY <2>3, <3>6 DEF LoadInv, InFlightBounded
    <3>8. test'[i].inFlight = Cardinality(Unsettled(i)') /\ Cardinality(Unsettled(i)') <= MaxInFlight
      BY <1>2, <2>5, <3>4, <3>5, LoadAssumption
    <3> QED
      BY <3>7, <3>8 DEF InFlightBounded
  <2>10. CreditCovered'
    <3>1. rest + 1000 * (t.sent + count) <= t.rate * (t.time + delta)
      BY <1>2, <1>4, <1>5, <1>6, <2>0
    <3> QED
      BY <2>3, <2>4, <2>5, <3>1 DEF LoadInv, CreditCovered
  <2> QED
    BY <2>6, <2>7, <2>8, <2>9, <2>10 DEF LoadInv
<1> QED
  BY <1>8, <1>10, <1>11

\* A step of batch k of test i: either it settles the batch, and test i has one less in
\* flight, or it leaves what is in flight alone.
LEMMA BatchStepKeeps ==
  ASSUME LoadInv, NEW i \in Tests, NEW k \in 1 .. MaxBatches, batch[i][k].left > 0,
         NEW after \in BatchStates,
         batch' = [batch EXCEPT ![i][k] = after],
         \/ test' = test /\ after.settled = batch[i][k].settled
         \/ test' = Settled(i, k) /\ after.settled = TRUE,
         UNCHANGED <<request, active, frequency, announced>>
  PROVE  LoadInv'
<1> DEFINE t == test[i]
           fewer == IF t.inFlight > 0 THEN t.inFlight - 1 ELSE 0
<1>1. batch \in [Tests -> [1 .. MaxBatches -> BatchStates]]
  BY DEF LoadInv, TypeOK
<1>2. /\ batch'[i][k] = after
      /\ \A m \in (1 .. MaxBatches) \ {k} : batch'[i][m] = batch[i][m]
      /\ \A j \in Tests \ {i} : batch'[j] = batch[j]
      /\ batch' \in [Tests -> [1 .. MaxBatches -> BatchStates]]
  BY <1>1
<1>3. t # None /\ t \in TestStates /\ k <= t.queued
  <2>1. batch[i][k] # [left |-> 0, settled |-> TRUE]
    OBVIOUS
  <2>2. t # None /\ ~(k > t.queued)
    BY <2>1 DEF LoadInv, Unqueued
  <2>3. t \in TestStates
    BY <2>2 DEF LoadInv, TypeOK
  <2> QED
    BY <2>2, <2>3 DEF TestStates
<1>4. t.inFlight \in Nat /\ fewer \in Nat /\ t.queued \in Nat
  BY <1>3 DEF TestStates
<1>5. /\ \A j \in Tests \ {i} : test'[j] = test[j]
      /\ SameTest(i) /\ test' \in [Tests -> TestStates \cup {None}]
      /\ test'[i].credit = t.credit /\ test'[i].time = t.time
      /\ test'[i].sent = t.sent /\ test'[i].queued = t.queued
      /\ \/ test'[i].inFlight = t.inFlight /\ after.settled = batch[i][k].settled
         \/ test'[i].inFlight = fewer /\ after.settled /\ ~batch[i][k].settled
  <2>1. test \in [Tests -> TestStates \cup {None}] /\ batch[i][k].settled \in BOOLEAN
    <3>1. batch[i][k] \in BatchStates
      BY <1>1
    <3>2. batch[i][k].settled \in BOOLEAN
      BY <3>1 DEF BatchStates
    <3> QED
      BY <3>2 DEF LoadInv, TypeOK
  <2>2. CASE test' = test /\ after.settled = batch[i][k].settled
    BY <1>3, <2>1, <2>2 DEF SameTest
  <2>3. CASE test' = test /\ after.settled = TRUE /\ batch[i][k].settled
    <3>1. after.settled = batch[i][k].settled
      BY <2>1, <2>3
    <3> QED
      BY <2>2, <2>3, <3>1
  <2>4. CASE test' = Settled(i, k) /\ after.settled = TRUE /\ ~batch[i][k].settled
    <3>1. test' = [test EXCEPT ![i].inFlight = IF @ > 0 THEN @ - 1 ELSE 0]
      BY <2>4 DEF Settled
    <3>2. test'[i] = Returned(t, fewer) /\ \A j \in Tests \ {i} : test'[j] = test[j]
      BY <2>1, <3>1, AtReturned
    <3> HIDE DEF t, fewer
    <3>3. /\ test'[i] \in TestStates
          /\ test'[i].schema = t.schema /\ test'[i].rate = t.rate
          /\ test'[i].running = t.running /\ test'[i].armed = t.armed
          /\ test'[i].credit = t.credit /\ test'[i].time = t.time
          /\ test'[i].sent = t.sent /\ test'[i].queued = t.queued
          /\ test'[i].inFlight = fewer
      <4>1. t \in TestStates /\ fewer \in Nat /\ test'[i] = Returned(t, fewer)
        BY <1>3, <1>4, <3>2
      <4> QED
        BY <4>1, ReturnedFields
    <3>4. test'[i] # None
      BY <3>3, NoneIsNoTest
    <3>5. test' = [j \in Tests |-> test'[j]]
      BY <2>1, <3>1
    <3>6. test' \in [Tests -> TestStates \cup {None}]
      BY <2>1, <3>2, <3>3, <3>5
    <3> QED
      BY <2>4, <3>2, <3>3, <3>4, <3>6 DEF SameTest, t
  <2>5. test' = Settled(i, k) /\ batch[i][k].settled => test' = test
    BY DEF Settled
  <2> QED
    BY <2>1, <2>2, <2>3, <2>4, <2>5
<1>6. TypeOK'
  BY <1>2, <1>5 DEF LoadInv, TypeOK
<1>7. (ActiveHasTest /\ InOrder /\ ActiveIsLast /\ OneRunning /\ BudgetKept /\ AnnouncedIsActive)'
  BY <1>3, <1>5, CountsOnly
<1>8. Unqueued'
  <2> SUFFICES ASSUME NEW j \in Tests, NEW m \in 1 .. MaxBatches,
                      test'[j] = None \/ m > test'[j].queued
               PROVE  batch'[j][m] = [left |-> 0, settled |-> TRUE]
    BY DEF Unqueued
  <2>1. CASE j = i
    <3>1. m > t.queued /\ m # k
      BY <1>3, <1>4, <1>5, <2>1 DEF SameTest
    <3> QED
      BY <1>2, <2>1, <3>1 DEF LoadInv, Unqueued
  <2>2. CASE j # i
    BY <1>2, <1>5, <2>2 DEF LoadInv, Unqueued
  <2> QED
    BY <2>1, <2>2
<1>9. InFlightBounded'
  <2>1. IsFiniteSet(Unsettled(i)) /\ Cardinality(Unsettled(i)) \in Nat
    <3>1. IsFiniteSet(1 .. MaxBatches)
      BY FS_Interval, LoadBounds
    <3>2. Unsettled(i) \subseteq 1 .. MaxBatches
      BY DEF Unsettled
    <3> QED
      BY <3>1, <3>2, FS_Subset, FS_CardinalityType
  <2>2. t.inFlight = Cardinality(Unsettled(i)) /\ t.inFlight <= MaxInFlight
    BY <1>3 DEF LoadInv, InFlightBounded
  <2>3. test'[i].inFlight = Cardinality(Unsettled(i)') /\ test'[i].inFlight <= MaxInFlight
    <3>1. CASE test'[i].inFlight = t.inFlight /\ after.settled = batch[i][k].settled
      <4>1. Unsettled(i)' = Unsettled(i)
        BY <1>2, <3>1 DEF Unsettled
      <4> QED
        BY <2>2, <3>1, <4>1
    <3>2. CASE test'[i].inFlight = fewer /\ after.settled /\ ~batch[i][k].settled
      <4>1. Unsettled(i)' = Unsettled(i) \ {k} /\ k \in Unsettled(i)
        BY <1>2, <3>2 DEF Unsettled
      <4>2. Cardinality(Unsettled(i)') = Cardinality(Unsettled(i)) - 1 /\ Unsettled(i) # {}
        BY <2>1, <4>1, FS_RemoveElement
      <4>3. Cardinality(Unsettled(i)) # 0
        BY <2>1, <4>1, FS_EmptySet
      <4> QED
        BY <1>4, <2>1, <2>2, <3>2, <4>2, <4>3, LoadAssumption
    <3> QED
      BY <1>5, <3>1, <3>2
  <2>4. \A j \in Tests \ {i} : Unsettled(j)' = Unsettled(j)
    BY <1>2 DEF Unsettled
  <2>5. \A j \in Tests \ {i} : /\ test'[j] # None => test'[j].inFlight = Cardinality(Unsettled(j)')
                               /\ Cardinality(Unsettled(j)') <= MaxInFlight
    BY <1>5, <2>4 DEF LoadInv, InFlightBounded
  <2> QED
    BY <2>3, <2>5 DEF InFlightBounded
<1>10. CreditCovered'
  BY <1>3, <1>5 DEF LoadInv, CreditCovered, SameTest
<1> QED
  BY <1>6, <1>7, <1>8, <1>9, <1>10 DEF LoadInv

LEMMA OneChunkLess ==
  ASSUME NEW b \in BatchStates
  PROVE  [b EXCEPT !.left = @ - 1] = [left |-> b.left - 1, settled |-> b.settled]
  BY DEF BatchStates

LEMMA ChunkKeeps ==
  ASSUME LoadInv, NEW i \in Tests, NEW k \in 1 .. MaxBatches, ChunkEnds(i, k) PROVE LoadInv'
<1>1. batch \in [Tests -> [1 .. MaxBatches -> BatchStates]] /\ batch[i][k] \in BatchStates
  BY DEF LoadInv, TypeOK
<1>2. batch[i][k].left \in Nat /\ batch[i][k].settled \in BOOLEAN
  BY <1>1 DEF BatchStates
<1>3. batch[i][k].left > 0 /\ UNCHANGED <<request, active, frequency, announced>>
  BY DEF ChunkEnds, ChunkPublished, ChunkFails
<1> DEFINE done == [left |-> 0, settled |-> TRUE]
           next == [left |-> batch[i][k].left - 1, settled |-> batch[i][k].settled]
           failed == [left |-> batch[i][k].left - 1, settled |-> TRUE]
<1>4. done \in BatchStates /\ next \in BatchStates /\ failed \in BatchStates
  BY <1>2, <1>3 DEF BatchStates
<1>5. [batch EXCEPT ![i][k].left = @ - 1] = [batch EXCEPT ![i][k] = next]
  <2>1. [batch[i][k] EXCEPT !.left = @ - 1] = next
    BY <1>1, OneChunkLess
  <2>2. [batch EXCEPT ![i][k].left = @ - 1]
          = [batch EXCEPT ![i][k] = [batch[i][k] EXCEPT !.left = @ - 1]]
    OBVIOUS
  <2> QED
    BY <2>1, <2>2
<1>6. \/ test' = Settled(i, k) /\ batch' = [batch EXCEPT ![i][k] = done]
      \/ test' = test /\ batch' = [batch EXCEPT ![i][k] = next]
      \/ test' = Settled(i, k) /\ batch' = [batch EXCEPT ![i][k] = failed]
  BY <1>5 DEF ChunkEnds, ChunkPublished, ChunkFails
<1>7. done.settled = TRUE /\ failed.settled = TRUE /\ next.settled = batch[i][k].settled
  OBVIOUS
<1> HIDE DEF done, next, failed
<1> QED
  BY <1>3, <1>4, <1>6, <1>7, BatchStepKeeps

LEMMA LoadStep == ASSUME LoadInv, [Next]_vars PROVE LoadInv'
<1>1. CASE UNCHANGED vars
  <2>1. /\ (TypeOK /\ ActiveHasTest /\ InOrder /\ ActiveIsLast /\ OneRunning)'
        /\ (AnnouncedIsActive /\ Unqueued /\ CreditCovered)'
    BY <1>1 DEF vars, LoadInv, TypeOK, ActiveHasTest, InOrder, ActiveIsLast, OneRunning,
                AnnouncedIsActive, LastAtZero, Unqueued, CreditCovered
  <2>2. (BudgetKept /\ InFlightBounded)'
    BY <1>1 DEF vars, LoadInv, BudgetKept, InFlightBounded, Unsettled
  <2> QED
    BY <2>1, <2>2 DEF LoadInv
<1>2. ASSUME NEW q \in Requests, RequestStart(q) \/ PrepareFails(q) PROVE LoadInv'
  BY <1>2, RequestKeeps
<1>3. ASSUME NEW q \in Requests, StartTest(q) PROVE LoadInv'
  BY <1>3, StartTestKeeps
<1>4. ASSUME NEW s \in Schemas, StopTest(s) PROVE LoadInv'
  BY <1>4, StopTestKeeps
<1>5. ASSUME NEW i \in Tests, NEW delta \in Deltas, Tick(i, delta) PROVE LoadInv'
  BY <1>5, TickKeeps
<1>6. ASSUME NEW i \in Tests, NEW k \in 1 .. MaxBatches, ChunkEnds(i, k) PROVE LoadInv'
  BY <1>6, ChunkKeeps
<1> QED
  BY <1>1, <1>2, <1>3, <1>4, <1>5, <1>6 DEF Next

\* The invariant the theorems below are read off.
THEOREM LoadInvariant == Spec => []LoadInv
<1>1. Init => LoadInv
  BY InitLoad
<1>2. LoadInv /\ [Next]_vars => LoadInv'
  BY LoadStep
<1> QED
  BY <1>1, <1>2, PTL DEF Spec

\* The active tests never promise more than the global limit, however many schemas there
\* are, and nothing stays reserved for a test that is over.
THEOREM LoadBudgetKept == Spec => []BudgetKept
<1>1. LoadInv => BudgetKept
  BY DEF LoadInv
<1> QED
  BY <1>1, LoadInvariant, PTL

\* No loop runs out of reach of stop_test.
THEOREM LoadOneRunning == Spec => []OneRunning
<1>1. LoadInv => OneRunning
  BY DEF LoadInv
<1> QED
  BY <1>1, LoadInvariant, PTL

\* A test that sends messages was announced to the clients and not taken back; a schema
\* announced to be under test is, unless the last test registered for it was one of
\* frequency 0, of which clients are not told.
THEOREM LoadAnnounced == Spec => []AnnouncedIsActive
<1>1. LoadInv => AnnouncedIsActive
  BY DEF LoadInv
<1> QED
  BY <1>1, LoadInvariant, PTL

\* However late its timer, a test queues no more than its frequency allows.
THEOREM LoadRateRespected == Spec => []RateRespected
<1>1. LoadInv => RateRespected
  <2> SUFFICES ASSUME LoadInv, NEW i \in Tests, test[i] # None
               PROVE  1000 * test[i].sent <= test[i].rate * test[i].time
    BY DEF RateRespected
  <2>1. test[i] \in TestStates
    BY DEF LoadInv, TypeOK
  <2>2. /\ test[i].credit \in Nat /\ test[i].sent \in Nat
        /\ test[i].rate \in Nat /\ test[i].time \in Nat
    BY <2>1 DEF TestStates
  <2>3. test[i].credit + 1000 * test[i].sent <= test[i].rate * test[i].time
    BY DEF LoadInv, CreditCovered
  <2>4. test[i].rate * test[i].time \in Nat
    BY <2>2
  <2> QED
    BY <2>2, <2>3, <2>4
<1> QED
  BY <1>1, LoadInvariant, PTL

\* inFlightBatches counts the batches that did not return and stays within its limit.
THEOREM LoadInFlightBounded == Spec => []InFlightBounded
<1>1. LoadInv => InFlightBounded
  BY DEF LoadInv
<1> QED
  BY <1>1, LoadInvariant, PTL

=============================================================================
