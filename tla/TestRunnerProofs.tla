-------------------------- MODULE TestRunnerProofs --------------------------
(***************************************************************************)
(* Theorems about TestRunner, for any number of deployments and attempts:  *)
(* the resource groups stay apart and are accounted for, and the two       *)
(* counts of the errors agree.                                             *)
(***************************************************************************)
EXTENDS TestRunner, FiniteSetTheorems, WellFoundedInduction, TLAPS

(***************************************************************************)
(* Between two attempts nothing of an attempt is left; during one, there   *)
(* is a group and an attempt to spend, and an error leads to the clean-up. *)
(***************************************************************************)
Between == {"none", "prefix", "default", "name", "done"}

Placed(d) ==
  /\ pc[d] = "none" => attempt[d] = 0
  /\ pc[d] \in Between => group[d] = << >> /\ step[d] = 1 /\ errorInfo[d] = Success
  /\ pc[d] \notin Between => group[d] # << >> /\ group[d][2] = d /\ group[d][3] = attempt[d]
  /\ pc[d] \notin {"none", "done"} => attempt[d] < settings.retries
  /\ pc[d] = "start" /\ step[d] # cleanup => errorInfo[d] = Success
  /\ pc[d] = "run" /\ step[d] # cleanup => errorInfo[d] = Success
  /\ pc[d] = "versions" => step[d] \notin {1, cleanup} /\ errorInfo[d] = Success

\* Run waits for all goroutines or has not started any.
Started ==
  /\ main = "init" => \A d \in Deployments : pc[d] = "none"
  /\ main = "waiting" => \A d \in Deployments : pc[d] # "none"
  /\ main = "returned" =>
       \/ \A d \in Deployments : pc[d] = "none"
       \/ /\ \A d \in Deployments : pc[d] = "done"
          /\ ok = \A d \in Deployments : success[d]

TypeInv == TypeOK /\ Started /\ \A d \in Deployments : Placed(d)

(***************************************************************************)
(* A group belongs to an earlier attempt or to the one under way, which    *)
(* has come to create it; a deletion was asked for at the end of one.      *)
(***************************************************************************)
Owned(g) == g[3] < attempt[g[2]] \/ (g = group[g[2]] /\ step[g[2]] # 1)
Removed(g) == g[3] < attempt[g[2]] \/ (g = group[g[2]] /\ pc[g[2]] = "tested")

\* How many groups of earlier attempts of d may stay.
Allowed(d) == IF settings.autoclean THEN 0 ELSE Total(d, StepErrors)

Room(d) ==
  /\ Cardinality(Staying(d) \ {group[d]}) <= Allowed(d)
  /\ UnderWay(d) \/ group[d] \notin Staying(d)

GroupInv ==
  /\ IsFiniteSet(groups)
  /\ left \intersect deleting = {}
  /\ \A g \in groups : Owned(g)
  /\ \A g \in left \union deleting : Removed(g)
  /\ \A d \in Deployments : Room(d)

(***************************************************************************)
(* Every attempt that is over has an error or is the one that succeeded;   *)
(* the report is ahead of the goroutines by the error of an attempt that   *)
(* is still being cleaned up.                                              *)
(***************************************************************************)
Failed(d) == attempt[d] - (IF success[d] THEN 1 ELSE 0)

Counted(d) ==
  /\ Total(d, ErrNames) = Failed(d)
  /\ success[d] => attempt[d] > 0 /\ pc[d] = "done"
  /\ pc[d] = "done" => success[d] \/ attempt[d] = settings.retries

Seen(e) ==
  [d \in Deployments |-> resMap[d][e] + (IF errorInfo[d] = e THEN 1 ELSE 0)]

CountInv ==
  /\ \A d \in Deployments : Counted(d)
  /\ \A e \in StepErrors : failures[e] = Sum(Seen(e))

(***************************************************************************)
(* Sums over finite sets.                                                  *)
(***************************************************************************)
\* A nonempty set of naturals has a smallest element.
LEMMA Smallest ==
  ASSUME NEW T \in SUBSET Nat, T # {}
  PROVE  \E x \in T : \A y \in T : x <= y
<1> DEFINE R == OpToRel(<, Nat)
<1>1. \E x \in T : \A y \in T : ~ (<<y, x>> \in R)
  <2>1. IsWellFoundedOn(R, Nat)
    BY NatLessThanWellFounded
  <2> HIDE DEF R
  <2> QED
    BY <2>1, WFMin
<1>2. \A x, y \in Nat : <<y, x>> \in R <=> y < x
  BY DEF OpToRel
<1> HIDE DEF R
<1>3. PICK x \in T : \A y \in T : ~ (<<y, x>> \in R)
  BY <1>1
<1>4. \A y \in T : ~ (y < x)
  BY <1>2, <1>3
<1>5. \A y \in T : x <= y
  BY <1>4
<1> QED
  BY <1>5

\* A nonempty set of subsets of a finite set has a member from which nothing can be taken.
LEMMA Minimal ==
  ASSUME NEW S, IsFiniteSet(S), NEW B \in SUBSET SUBSET S, B # {}
  PROVE  \E T \in B : \A x \in T : T \ {x} \notin B
<1> DEFINE R == StrictSubsetOrdering(S)
           F == FiniteSubsetsOf(S)
<1>1. IsWellFoundedOn(R, F)
  BY FS_StrictSubsetOrderingWellFounded
<1>2. B \subseteq F
  BY FS_Subset DEF FiniteSubsetsOf
<1>3. \A T, U \in SUBSET S : U \subseteq T /\ U # T => <<U, T>> \in R
  BY DEF StrictSubsetOrdering
<1>4. \E T \in B : \A U \in B : ~ (<<U, T>> \in R)
  <2> HIDE DEF R, F
  <2> QED
    BY <1>1, <1>2, WFMin
<1> HIDE DEF R, F
<1>5. PICK T \in B : \A U \in B : ~ (<<U, T>> \in R)
  BY <1>4
<1>6. ASSUME NEW x \in T, T \ {x} \in B PROVE FALSE
  <2>1. T \ {x} \subseteq T /\ T \ {x} # T
    OBVIOUS
  <2> QED
    BY <2>1, <1>3, <1>5, <1>6
<1> QED
  BY <1>6

Pick(s) == CHOOSE x \in s : TRUE

\* h sums f over the sets of D, element by element.
Sums(f, D, h) == h = [s \in D |-> IF s = {} THEN 0 ELSE f[Pick(s)] + h[s \ {Pick(s)}]]

LEMMA SumChoice ==
  ASSUME NEW f
  PROVE  Sum(f) = (CHOOSE h : Sums(f, SUBSET DOMAIN f, h))[DOMAIN f]
BY DEF Sum, MapThenSumSet, MapThenFoldSet, Sums, Pick

LEMMA Picked ==
  ASSUME NEW s, s # {}
  PROVE  Pick(s) \in s
BY DEF Pick

\* Such a sum exists, by the number of elements of the sets it covers.
LEMMA SumsExist ==
  ASSUME NEW f, IsFiniteSet(DOMAIN f)
  PROVE  \E h : Sums(f, SUBSET DOMAIN f, h)
<1> DEFINE S == DOMAIN f
           D(n) == {s \in SUBSET S : Cardinality(s) <= n}
           None == {n \in Nat : ~ \E h : Sums(f, D(n), h)}
<1>0. \A s \in SUBSET S : IsFiniteSet(s) /\ Cardinality(s) \in Nat
  BY FS_Subset, FS_CardinalityType
<1>1. SUFFICES ASSUME None # {} PROVE FALSE
  <2>1. Cardinality(S) \in Nat
    BY FS_CardinalityType
  <2>2. D(Cardinality(S)) = SUBSET S
    BY FS_Subset, <2>1
  <2>3. None = {} => \E h : Sums(f, D(Cardinality(S)), h)
    <3> HIDE DEF D
    <3> QED
      BY <2>1
  <2> QED
    BY <2>2, <2>3
<1>2. PICK n \in None : \A k \in None : n <= k
  <2>1. None \in SUBSET Nat
    OBVIOUS
  <2> HIDE DEF None
  <2> QED
    BY <1>1, <2>1, Smallest
<1>3. CASE n = 0
  <2>1. \A s \in D(0) : s = {}
    BY <1>0, FS_EmptySet
  <2>2. Sums(f, D(0), [s \in D(0) |-> 0])
    BY <2>1 DEF Sums
  <2> QED
    BY <2>2, <1>2, <1>3
<1>4. CASE n # 0
  <2>0. None \subseteq Nat
    OBVIOUS
  <2>1. n - 1 \in Nat /\ n - 1 \notin None
    <3> HIDE DEF None
    <3> QED
      BY <1>2, <1>4, <2>0
  <2>2. PICK h : Sums(f, D(n - 1), h)
    BY <2>1
  <2> DEFINE g == [s \in D(n) |-> IF s = {} THEN 0 ELSE f[Pick(s)] + h[s \ {Pick(s)}]]
  <2>3. \A s \in D(n) : s # {} => s \ {Pick(s)} \in D(n - 1)
    <3> SUFFICES ASSUME NEW s \in D(n), s # {} PROVE s \ {Pick(s)} \in D(n - 1)
      OBVIOUS
    <3>1. Pick(s) \in s
      BY Picked
    <3>2. Cardinality(s \ {Pick(s)}) = Cardinality(s) - 1
      BY <3>1, <1>0, FS_RemoveElement
    <3> QED
      BY <3>2, <1>0
  <2>4. D(n - 1) \subseteq D(n)
    BY <1>0, <2>1
  <2> HIDE DEF D
  <2>5. \A s \in D(n - 1) : g[s] = h[s]
    BY <2>2, <2>4 DEF Sums
  <2> DEFINE sub(s) == s \ {Pick(s)}
  <2>6. \A s \in D(n) : s # {} => h[sub(s)] = g[sub(s)]
    BY <2>3, <2>5
  <2>7. g = [s \in D(n) |-> IF s = {} THEN 0 ELSE f[Pick(s)] + g[sub(s)]]
    <3>1. \A s \in D(n) : g[s] = IF s = {} THEN 0 ELSE f[Pick(s)] + h[sub(s)]
      OBVIOUS
    <3>2. \A s \in D(n) : g[s] = IF s = {} THEN 0 ELSE f[Pick(s)] + g[sub(s)]
      <4> HIDE DEF g
      <4> QED
        BY <3>1, <2>6
    <3>3. g = [s \in D(n) |-> g[s]]
      OBVIOUS
    <3> HIDE DEF g, sub
    <3> QED
      BY <3>2, <3>3
  <2>8. Sums(f, D(n), g)
    BY <2>7 DEF Sums
  <2> HIDE DEF g
  <2> QED
    BY <2>8, <1>2
<1> QED
  BY <1>3, <1>4

LEMMA SumOf ==
  ASSUME NEW f, IsFiniteSet(DOMAIN f)
  PROVE  \E h : Sums(f, SUBSET DOMAIN f, h) /\ Sum(f) = h[DOMAIN f]
BY SumsExist, SumChoice

\* A sum of naturals is one, and grows with each of them.
LEMMA SumNat ==
  ASSUME NEW f, IsFiniteSet(DOMAIN f), \A x \in DOMAIN f : f[x] \in Nat
  PROVE  /\ Sum(f) \in Nat
         /\ (\A x \in DOMAIN f : f[x] = 0) => Sum(f) = 0
<1> DEFINE S == DOMAIN f
           zero == \A x \in S : f[x] = 0
<1>1. PICK h : Sums(f, SUBSET S, h) /\ Sum(f) = h[S]
  BY SumOf
<1> DEFINE Bad == {s \in SUBSET S : ~ (h[s] \in Nat /\ (zero => h[s] = 0))}
<1>2. SUFFICES ASSUME Bad # {} PROVE FALSE
  BY <1>1
<1>3. PICK s \in Bad : \A x \in s : s \ {x} \notin Bad
  BY <1>2, Minimal
<1>4. s # {}
  BY <1>1, <1>3 DEF Sums
<1>5. h[s] = f[Pick(s)] + h[s \ {Pick(s)}]
  BY <1>1, <1>4 DEF Sums
<1>6. Pick(s) \in s /\ s \ {Pick(s)} \in SUBSET S
  BY <1>4, Picked
<1>7. h[s \ {Pick(s)}] \in Nat /\ (zero => h[s \ {Pick(s)}] = 0)
  BY <1>6, <1>3
<1>8. f[Pick(s)] \in Nat /\ (zero => f[Pick(s)] = 0)
  BY <1>6
<1>9. h[s] \in Nat /\ (zero => h[s] = 0)
  <2> HIDE DEF zero
  <2> QED
    BY <1>5, <1>7, <1>8
<1> QED
  BY <1>9, <1>3

LEMMA SumMore ==
  ASSUME NEW f, NEW g, NEW a \in DOMAIN f, IsFiniteSet(DOMAIN f), DOMAIN g = DOMAIN f,
         \A x \in DOMAIN f : f[x] \in Nat,
         g[a] = f[a] + 1, \A x \in DOMAIN f : x # a => g[x] = f[x]
  PROVE  Sum(g) = Sum(f) + 1
<1> DEFINE S == DOMAIN f
           one(s) == IF a \in s THEN 1 ELSE 0
<1>1. PICK h : Sums(f, SUBSET S, h) /\ Sum(f) = h[S]
  BY SumOf
<1>2. PICK k : Sums(g, SUBSET S, k) /\ Sum(g) = k[S]
  BY SumOf
<1> DEFINE Bad == {s \in SUBSET S : ~ (h[s] \in Nat /\ k[s] = h[s] + one(s))}
<1>3. SUFFICES ASSUME Bad # {} PROVE FALSE
  BY <1>1, <1>2
<1>4. PICK s \in Bad : \A x \in s : s \ {x} \notin Bad
  BY <1>3, Minimal
<1>5. s # {}
  BY <1>1, <1>2, <1>4 DEF Sums
<1> DEFINE x == Pick(s)
           r == s \ {x}
<1>6. h[s] = f[x] + h[r] /\ k[s] = g[x] + k[r]
  BY <1>1, <1>2, <1>5 DEF Sums
<1>7. x \in s /\ r \in SUBSET S
  BY <1>5, Picked
<1>8. h[r] \in Nat /\ k[r] = h[r] + one(r)
  BY <1>7, <1>4
<1>9. f[x] \in Nat
  BY <1>7
<1>10. CASE x = a
  <2>1. one(s) = 1 /\ one(r) = 0 /\ g[x] = f[x] + 1
    BY <1>7, <1>10
  <2> HIDE DEF one, r, x
  <2> QED
    BY <2>1, <1>4, <1>6, <1>8, <1>9
<1>11. CASE x # a
  <2>1. one(s) = one(r) /\ g[x] = f[x] /\ one(r) \in Nat
    BY <1>7, <1>11
  <2> HIDE DEF one, r, x
  <2> QED
    BY <2>1, <1>4, <1>6, <1>8, <1>9
<1> QED
  BY <1>10, <1>11

(***************************************************************************)
(* Types and positions.                                                    *)
(***************************************************************************)
USE DEF At, GoTo, goroutines

ParameterAssumptions == SettingsAssumption /\ ErrorsAssumption /\ FiniteAssumption

LEMMA Assumptions == ParameterAssumptions
BY SettingsAssumption, ErrorsAssumption, FiniteAssumption DEF ParameterAssumptions

LEMMA StepNumbers ==
  /\ cleanup = 7
  /\ \A i \in 1 .. 6 : steps[i] = "generate_template" => i = 3
  /\ steps[3] = "generate_template"
<1>1. cleanup = 7
  BY DEF cleanup, steps
<1>2. /\ steps[1] = "create_resource_group" /\ steps[2] = "predeploy"
      /\ steps[3] = "generate_template" /\ steps[4] = "deploy_template"
      /\ steps[5] = "postdeploy" /\ steps[6] = "validate"
  BY DEF steps
<1>3. \A i \in 1 .. 6 : i = 1 \/ i = 2 \/ i = 3 \/ i = 4 \/ i = 5 \/ i = 6
  OBVIOUS
<1> QED
  BY <1>1, <1>2, <1>3

LEMMA Retries == \A s \in Settings : s.retries \in Nat /\ s.prefix \in Prefixes
BY Assumptions DEF ParameterAssumptions, SettingsAssumption, Prefixes

LEMMA NoClash == Success \notin ErrNames /\ StepErrors \intersect ParseErrors = {}
BY Assumptions DEF ParameterAssumptions, ErrorsAssumption, ErrNames, StepErrors, ParseErrors,
                   ErrUnknown, Success

LEMMA InitTyped == Init => TypeInv
<1> SUFFICES ASSUME Init PROVE TypeInv
  OBVIOUS
<1>1. "" \in Prefixes
  BY DEF Prefixes
<1>2. settings \in Settings
  BY DEF Init
<1>6. settings.retries \in Nat
  BY <1>2, Retries
<1>3. TypeOK
  <2>1. attempt \in [Deployments -> 0 .. settings.retries]
    <3>1. 0 \in 0 .. settings.retries
      BY <1>6
    <3> QED
      BY <3>1 DEF Init
  <2>2. /\ pc \in [Deployments -> PCs]
        /\ group \in [Deployments -> {<< >>} \union Groups]
        /\ errorInfo \in [Deployments -> ErrNames \union {Success}]
        /\ success \in [Deployments -> BOOLEAN]
    BY DEF Init, PCs
  <2>3. step \in [Deployments -> 1 .. cleanup]
    <3>1. 1 \in 1 .. cleanup
      BY StepNumbers
    <3> QED
      BY <3>1 DEF Init
  <2>4. resMap \in [Deployments -> [ErrNames -> Nat]] /\ failures \in [StepErrors -> Nat]
    BY DEF Init
  <2> QED
    BY <1>1, <1>2, <2>1, <2>2, <2>3, <2>4 DEF Init, TypeOK
<1>4. Started
  BY DEF Init, Started
<1>5. ASSUME NEW d \in Deployments PROVE Placed(d)
  <2>1. /\ pc[d] = "none" /\ attempt[d] = 0 /\ group[d] = << >> /\ step[d] = 1
        /\ errorInfo[d] = Success
    BY DEF Init
  <2> QED
    BY <2>1 DEF Placed, Between
<1> QED
  BY <1>3, <1>4, <1>5 DEF TypeInv

\* What a step of the goroutine of d does to its own variables leaves the others alone.
Others(d) ==
  \A e \in Deployments \ {d} :
    /\ pc'[e] = pc[e] /\ attempt'[e] = attempt[e] /\ group'[e] = group[e]
    /\ step'[e] = step[e] /\ errorInfo'[e] = errorInfo[e] /\ success'[e] = success[e]
    /\ resMap'[e] = resMap[e]

LEMMA OthersKept ==
  ASSUME TypeOK, NEW d \in Deployments, testRun(d)
  PROVE  Others(d) /\ settings' = settings
<1> USE DEF TypeOK
<1>1. CASE ReadPrefix(d) BY <1>1 DEF ReadPrefix, Others
<1>2. CASE SetDefault(d) BY <1>2 DEF SetDefault, Others
<1>3. CASE NameGroup(d) BY <1>3 DEF NameGroup, Others
<1>4. CASE TornPrefix(d) BY <1>4 DEF TornPrefix, Others
<1>5. CASE StartStep(d) BY <1>5 DEF StartStep, Others
<1>6. CASE StepDone(d) BY <1>6 DEF StepDone, Others
<1>7. CASE StepFails(d) BY <1>7 DEF StepFails, Others
<1>8. CASE GetVersions(d) BY <1>8 DEF GetVersions, Others
<1>9. CASE Cleanup(d) BY <1>9 DEF Cleanup, Others
<1>10. CASE EndAttempt(d) BY <1>10 DEF EndAttempt, Others
<1> QED
  BY <1>1, <1>2, <1>3, <1>4, <1>5, <1>6, <1>7, <1>8, <1>9, <1>10 DEF testRun

LEMMA StepTypes ==
  ASSUME TypeInv, NEW d \in Deployments, testRun(d)
  PROVE  /\ main' \in {"init", "waiting", "returned", "crashed"}
         /\ ok' \in BOOLEAN /\ lock' \in BOOLEAN
         /\ rgPrefix' \in Prefixes
         /\ pc' \in [Deployments -> PCs]
         /\ group' \in [Deployments -> {<< >>} \union Groups]
         /\ failures' \in [StepErrors -> Nat]
<1> USE DEF TypeOK, TypeInv, PCs
<1>0. settings.retries \in Nat /\ settings.prefix \in Prefixes
  BY Retries
<1>1. CASE ReadPrefix(d) BY <1>0, <1>1 DEF ReadPrefix
<1>2. CASE SetDefault(d) BY <1>2 DEF SetDefault, Prefixes
<1>3. CASE NameGroup(d)
  <2>1. resourceGroup(d) \in Groups
    BY <1>0 DEF resourceGroup, Groups
  <2> QED
    BY <1>3, <2>1 DEF NameGroup
<1>4. CASE TornPrefix(d) BY <1>4 DEF TornPrefix
<1>5. CASE StartStep(d) BY <1>5 DEF StartStep
<1>6. CASE StepDone(d) BY <1>6 DEF StepDone
<1>7. CASE StepFails(d) BY <1>7 DEF StepFails, addFailure
<1>8. CASE GetVersions(d) BY <1>8 DEF GetVersions
<1>9. CASE Cleanup(d) BY <1>9 DEF Cleanup
<1>10. CASE EndAttempt(d) BY <1>10 DEF EndAttempt, AttemptOrEnd
<1> QED
  BY <1>1, <1>2, <1>3, <1>4, <1>5, <1>6, <1>7, <1>8, <1>9, <1>10 DEF testRun

LEMMA StepCounts ==
  ASSUME TypeInv, NEW d \in Deployments, testRun(d)
  PROVE  /\ attempt' \in [Deployments -> 0 .. settings.retries]
         /\ step' \in [Deployments -> 1 .. cleanup]
         /\ errorInfo' \in [Deployments -> ErrNames \union {Success}]
         /\ resMap' \in [Deployments -> [ErrNames -> Nat]]
         /\ success' \in [Deployments -> BOOLEAN]
<1> USE DEF TypeOK, TypeInv
<1>0. /\ settings.retries \in Nat
      /\ pc[d] \notin {"none", "done"} => attempt[d] < settings.retries
  BY Retries DEF Placed
<1>1. CASE UNCHANGED <<attempt, step, errorInfo, resMap, success>>
  BY <1>1
<1>2. CASE NameGroup(d)
  BY <1>2 DEF NameGroup, ErrNames
<1>3. CASE StepDone(d)
  <2>1. step[d] \in 1 .. 6
    BY <1>3, StepNumbers DEF StepDone
  <2>2. step[d] + 1 \in 1 .. cleanup
    BY <2>1, StepNumbers
  <2>3. step' = step \/ step' = [step EXCEPT ![d] = step[d] + 1]
    BY <1>3 DEF StepDone
  <2> HIDE DEF cleanup
  <2> QED
    BY <1>3, <2>2, <2>3 DEF StepDone
<1>4. CASE StepFails(d)
  <2>1. cleanup \in 1 .. cleanup
    BY StepNumbers
  <2>2. errorInfo' \in [Deployments -> ErrNames \union {Success}]
    BY <1>4 DEF StepFails, ErrNames
  <2>3. step' = [step EXCEPT ![d] = cleanup]
    BY <1>4 DEF StepFails
  <2>4. step' \in [Deployments -> 1 .. cleanup]
    BY <2>1, <2>3
  <2> QED
    BY <1>4, <2>2, <2>4 DEF StepFails
<1>5. CASE GetVersions(d)
  <2>1. cleanup \in 1 .. cleanup
    BY StepNumbers
  <2>2. step[d] + 1 \in 1 .. cleanup
    <3>1. step[d] \in 1 .. cleanup /\ step[d] # cleanup
      BY <1>5 DEF GetVersions, Placed
    <3> QED
      BY <3>1, StepNumbers
  <2>3. step' = [step EXCEPT ![d] = step[d] + 1] \/ step' = [step EXCEPT ![d] = cleanup]
    BY <1>5 DEF GetVersions
  <2>4. step' \in [Deployments -> 1 .. cleanup]
    BY <2>1, <2>2, <2>3
  <2>5. errorInfo' \in [Deployments -> ErrNames \union {Success}]
    BY <1>5 DEF GetVersions, ErrNames
  <2> QED
    BY <1>5, <2>4, <2>5 DEF GetVersions
<1>6. CASE EndAttempt(d)
  <2>1. attempt[d] + 1 \in 0 .. settings.retries
    BY <1>0, <1>6 DEF EndAttempt
  <2>2. attempt' = [attempt EXCEPT ![d] = attempt[d] + 1]
    BY <1>6 DEF EndAttempt
  <2>3. attempt' \in [Deployments -> 0 .. settings.retries]
    BY <2>1, <2>2
  <2>4. 1 \in 1 .. cleanup
    BY StepNumbers
  <2>5. step' \in [Deployments -> 1 .. cleanup]
    BY <1>6, <2>4 DEF EndAttempt
  <2>6. resMap' \in [Deployments -> [ErrNames -> Nat]]
    <3> DEFINE e == errorInfo[d]
               row == [resMap[d] EXCEPT ![e] = resMap[d][e] + 1]
    <3>1. e = Success \/ e \in ErrNames
      OBVIOUS
    <3>2. e \in ErrNames => row \in [ErrNames -> Nat]
      OBVIOUS
    <3>3. e # Success => resMap' = [resMap EXCEPT ![d] = row]
      BY <1>6 DEF EndAttempt
    <3>4. e = Success => resMap' = resMap
      BY <1>6 DEF EndAttempt
    <3> HIDE DEF e, row
    <3> QED
      BY <3>1, <3>2, <3>3, <3>4
  <2>7. /\ success' \in [Deployments -> BOOLEAN]
        /\ errorInfo' \in [Deployments -> ErrNames \union {Success}]
    BY <1>6 DEF EndAttempt
  <2> QED
    BY <2>3, <2>5, <2>6, <2>7
<1> QED
  BY <1>1, <1>2, <1>3, <1>4, <1>5, <1>6
     DEF testRun, ReadPrefix, SetDefault, TornPrefix, StartStep, Cleanup

LEMMA StepPlaced ==
  ASSUME TypeInv, NEW d \in Deployments, testRun(d)
  PROVE  Placed(d)'
<1> USE DEF TypeOK, TypeInv, Placed, Between
<1>0. Placed(d) /\ step[d] \in 1 .. 7
  BY StepNumbers
<1>1. CASE ReadPrefix(d) BY <1>0, <1>1 DEF ReadPrefix
<1>2. CASE SetDefault(d) BY <1>0, <1>2 DEF SetDefault
<1>3. CASE NameGroup(d)
  <2>1. /\ group'[d] = <<rgPrefix, d, attempt[d]>>
        /\ attempt' = attempt /\ step' = step /\ settings' = settings
        /\ pc'[d] = "tested" \/ (pc'[d] = "start" /\ errorInfo' = errorInfo)
    BY <1>3 DEF NameGroup, resourceGroup
  <2>2. group'[d] # << >> /\ group'[d][2] = d /\ group'[d][3] = attempt[d]
    BY <2>1
  <2> QED
    BY <1>0, <1>3, <2>1, <2>2 DEF NameGroup
<1>4. CASE TornPrefix(d) BY <1>0, <1>4 DEF TornPrefix
<1>5. CASE StartStep(d) BY <1>0, <1>5 DEF StartStep
<1>6. CASE StepDone(d)
  <2>1. /\ UNCHANGED <<settings, attempt, group, errorInfo>>
        /\ \/ pc'[d] = "versions" /\ step' = step /\ steps[step[d]] = "generate_template"
           \/ pc'[d] = "start"
    BY <1>6 DEF StepDone
  <2>2. step[d] \in 1 .. 6
    BY <1>0, <1>6, StepNumbers DEF StepDone
  <2>3. steps[step[d]] = "generate_template" => step[d] \notin {1, cleanup}
    BY <2>2, StepNumbers
  <2> QED
    BY <1>0, <1>6, <2>1, <2>3 DEF StepDone
<1>7. CASE StepFails(d) BY <1>0, <1>7 DEF StepFails
<1>8. CASE GetVersions(d) BY <1>0, <1>8 DEF GetVersions
<1>9. CASE Cleanup(d) BY <1>0, <1>9 DEF Cleanup
<1>10. CASE EndAttempt(d)
  <2>1. pc'[d] = AttemptOrEnd(attempt[d] + 1, errorInfo[d] = Success)
    BY <1>10 DEF EndAttempt
  <2>2. pc'[d] \in {"prefix", "done"} /\ (pc'[d] = "prefix" => attempt[d] + 1 < settings.retries)
    BY <2>1 DEF AttemptOrEnd
  <2>3. /\ attempt'[d] = attempt[d] + 1 /\ group'[d] = << >> /\ step'[d] = 1
        /\ errorInfo'[d] = Success /\ settings' = settings
    BY <1>10 DEF EndAttempt
  <2> QED
    BY <2>2, <2>3
<1> QED
  BY <1>1, <1>2, <1>3, <1>4, <1>5, <1>6, <1>7, <1>8, <1>9, <1>10 DEF testRun

LEMMA StepGroups ==
  ASSUME TypeInv, GroupInv, NEW d \in Deployments, testRun(d)
  PROVE  /\ groups' \subseteq Groups
         /\ deleting' \subseteq groups' /\ left' \subseteq groups'
<1> USE DEF TypeOK, TypeInv
<1>1. CASE UNCHANGED <<groups, deleting, left>>
  BY <1>1
<1>2. CASE StepDone(d) \/ StepFails(d)
  <2>1. pc[d] = "run"
    BY <1>2 DEF StepDone, StepFails
  <2>2. group[d] \in Groups
    BY <2>1 DEF Placed, Between
  <2>3. groups' \in {groups, groups \union {group[d]}} /\ UNCHANGED <<deleting, left>>
    BY <1>2 DEF StepDone, StepFails, Creates
  <2> QED
    BY <2>2, <2>3
<1>3. CASE Cleanup(d)
  BY <1>3 DEF Cleanup
<1> QED
  BY <1>1, <1>2, <1>3
     DEF testRun, ReadPrefix, SetDefault, NameGroup, TornPrefix, StartStep, GetVersions, EndAttempt

LEMMA StepStarted ==
  ASSUME TypeInv, NEW d \in Deployments, testRun(d)
  PROVE  Started'
<1>1. main = "waiting" /\ main' \in {"waiting", "crashed"} /\ pc[d] \notin {"none", "done"}
  BY DEF testRun, ReadPrefix, SetDefault, NameGroup, TornPrefix, StartStep, StepDone, StepFails,
         GetVersions, Cleanup, EndAttempt
<1>2. pc'[d] # "none"
  BY <1>1, StepPlaced DEF testRun, ReadPrefix, SetDefault, NameGroup, TornPrefix, StartStep,
     StepDone, StepFails, GetVersions, Cleanup, EndAttempt, AttemptOrEnd, TypeInv, TypeOK
<1>3. \A e \in Deployments \ {d} : pc'[e] = pc[e]
  BY OthersKept DEF Others, TypeInv
<1> QED
  BY <1>1, <1>2, <1>3 DEF Started, TypeInv

LEMMA StepTyped == TypeInv /\ GroupInv /\ [Next]_vars => TypeInv'
<1> SUFFICES ASSUME TypeInv, GroupInv, [Next]_vars PROVE TypeInv'
  OBVIOUS
<1>1. ASSUME NEW d \in Deployments, testRun(d) PROVE TypeInv'
  <2>1. settings' = settings /\ Others(d)
    BY <1>1, OthersKept DEF TypeInv
  <2>2. TypeOK'
    BY <1>1, <2>1, StepTypes, StepCounts, StepGroups DEF TypeOK, TypeInv
  <2>3. ASSUME NEW e \in Deployments PROVE Placed(e)'
    <3>1. CASE e = d
      BY <1>1, <3>1, StepPlaced
    <3>2. CASE e # d
      BY <2>1, <3>2 DEF Others, Placed, TypeInv
    <3> QED
      BY <3>1, <3>2
  <2> QED
    BY <1>1, <2>2, <2>3, StepStarted DEF TypeInv
<1>2. CASE Prepare
  <2>1. settings.retries \in Nat
    BY Retries DEF TypeInv, TypeOK
  <2>2. UNCHANGED <<settings, ok, rgPrefix, attempt, group, step, errorInfo, resMap, success,
                    failures, groups, deleting, left>>
    BY <1>2 DEF Prepare
  <2>3. \/ main' = "returned" /\ UNCHANGED <<lock, pc>>
        \/ /\ main' = "waiting" /\ lock' \in BOOLEAN
           /\ pc' = [d \in Deployments |-> AttemptOrEnd(0, FALSE)]
    BY <1>2 DEF Prepare
  <2>4. TypeOK'
    BY <2>2, <2>3 DEF TypeInv, TypeOK, AttemptOrEnd, PCs
  <2>5. Started'
    BY <1>2, <2>2, <2>3 DEF TypeInv, Started, AttemptOrEnd, Prepare
  <2>6. ASSUME NEW d \in Deployments PROVE Placed(d)'
    <3>1. pc[d] = "none"
      BY <1>2 DEF Prepare, TypeInv, Started
    <3>2. pc'[d] = "none" \/ pc'[d] = "done" \/ (pc'[d] = "prefix" /\ 0 < settings.retries)
      BY <2>3, <3>1 DEF AttemptOrEnd
    <3>3. attempt[d] = 0
      BY <3>1 DEF TypeInv, Placed
    <3> QED
      BY <2>2, <3>1, <3>2, <3>3 DEF TypeInv, Placed, Between
  <2> QED
    BY <2>4, <2>5, <2>6 DEF TypeInv
<1>3. CASE Unlock \/ Return \/ UNCHANGED vars
  <2>1. UNCHANGED <<settings, rgPrefix, goroutines, failures, groups, deleting, left>>
    BY <1>3 DEF Unlock, Return, vars
  <2>2. TypeOK'
    BY <1>3, <2>1 DEF TypeInv, TypeOK, Unlock, Return, vars
  <2>3. Started'
    BY <1>3, <2>1 DEF TypeInv, Started, Unlock, Return, vars
  <2> QED
    BY <2>1, <2>2, <2>3 DEF TypeInv, Placed
<1>4. ASSUME NEW g \in deleting, Deleted(g) PROVE TypeInv'
  <2>1. UNCHANGED <<settings, main, ok, lock, rgPrefix, goroutines, failures, left>>
    BY <1>4 DEF Deleted
  <2>2. g \notin left
    BY <1>4 DEF GroupInv
  <2>3. TypeOK'
    BY <1>4, <2>1, <2>2 DEF TypeInv, TypeOK, Deleted
  <2> QED
    BY <2>1, <2>3 DEF TypeInv, Started, Placed
<1> QED
  BY <1>1, <1>2, <1>3, <1>4 DEF Next

(***************************************************************************)
(* The resource groups.                                                    *)
(***************************************************************************)
LEMMA FiniteErrors == IsFiniteSet(StepErrors) /\ IsFiniteSet(ErrNames)
<1>1. IsFiniteSet(StepErrors)
  BY Assumptions, FS_AddElement DEF ParameterAssumptions, FiniteAssumption, StepErrors
<1>2. IsFiniteSet(ErrNames)
  BY <1>1, FS_AddElement DEF ErrNames, ParseErrors
<1> QED
  BY <1>1, <1>2

Row(d, errors) == [e \in errors |-> resMap[d][e]]

LEMMA TotalNat ==
  ASSUME TypeOK, NEW d \in Deployments
  PROVE  Total(d, StepErrors) \in Nat /\ Total(d, ErrNames) \in Nat /\ Allowed(d) \in Nat
<1>1. ASSUME NEW E \in {StepErrors, ErrNames} PROVE Total(d, E) \in Nat
  <2>1. DOMAIN Row(d, E) = E /\ IsFiniteSet(E)
    BY FiniteErrors DEF Row
  <2>2. \A e \in E : Row(d, E)[e] \in Nat
    BY DEF Row, TypeOK, ErrNames
  <2>3. Sum(Row(d, E)) \in Nat
    BY <2>1, <2>2, SumNat
  <2> QED
    BY <2>3 DEF Total, Row
<1> QED
  BY <1>1 DEF Allowed

\* An attempt that ends with an error e counts one more of it.
LEMMA TotalMore ==
  ASSUME TypeOK, NEW d \in Deployments, NEW E \in {StepErrors, ErrNames}, NEW e \in ErrNames,
         resMap' = [resMap EXCEPT ![d][e] = @ + 1]
  PROVE  Total(d, E)' = Total(d, E) + (IF e \in E THEN 1 ELSE 0)
<1> DEFINE f == Row(d, E)
           g == Row(d, E)'
<1>1. \A x \in ErrNames : resMap'[d][x] = IF x = e THEN resMap[d][x] + 1 ELSE resMap[d][x]
  BY DEF TypeOK
<1>2. E \subseteq ErrNames
  BY DEF ErrNames
<1>3. DOMAIN f = E /\ DOMAIN g = E /\ IsFiniteSet(E)
  BY FiniteErrors DEF Row
<1>4. \A x \in E : f[x] \in Nat /\ g[x] = IF x = e THEN f[x] + 1 ELSE f[x]
  BY <1>1, <1>2 DEF Row, TypeOK
<1>5. Total(d, E) = Sum(f) /\ Total(d, E)' = Sum(g)
  BY DEF Total, Row
<1>6. CASE e \in E
  <2>1. g[e] = f[e] + 1 /\ \A x \in E : x # e => g[x] = f[x]
    BY <1>4, <1>6
  <2> HIDE DEF f, g
  <2>2. Sum(g) = Sum(f) + 1
    BY <1>3, <1>4, <1>6, <2>1, SumMore
  <2> QED
    BY <1>5, <1>6, <2>2
<1>7. CASE e \notin E
  <2>1. \A x \in E : resMap'[d][x] = resMap[d][x]
    BY <1>1, <1>2, <1>7
  <2>2. f = g
    BY <2>1 DEF Row
  <2>3. Sum(f) \in Nat
    BY <1>5, TotalNat
  <2> HIDE DEF f, g
  <2> QED
    BY <1>5, <1>7, <2>2, <2>3
<1> QED
  BY <1>6, <1>7

LEMMA InitGroups == Init => GroupInv
<1> SUFFICES ASSUME Init PROVE GroupInv
  OBVIOUS
<1>1. groups = {} /\ left = {} /\ deleting = {}
  BY DEF Init
<1>2. ASSUME NEW d \in Deployments PROVE Room(d)
  <2>1. Staying(d) = {} /\ Staying(d) \ {group[d]} = {}
    BY <1>1 DEF Staying
  <2>2. Allowed(d) \in Nat
    BY InitTyped, TotalNat DEF TypeInv
  <2> QED
    BY <2>1, <2>2, FS_EmptySet DEF Room
<1> QED
  BY <1>1, <1>2, FS_EmptySet DEF GroupInv

\* A group of the attempt under way is known by its deployment, and is new in its name.
LEMMA GroupOfAttempt ==
  ASSUME TypeInv, NEW d \in Deployments, pc[d] \notin Between
  PROVE  group[d] \in Groups /\ group[d][2] = d /\ group[d][3] = attempt[d]
BY DEF TypeInv, TypeOK, Placed

\* What a goroutine does to the groups concerns its own.
LEMMA OwnGroup ==
  ASSUME TypeInv, NEW d \in Deployments, testRun(d)
  PROVE  \A g : g # group[d] => /\ g \in groups' <=> g \in groups
                                /\ g \in left' <=> g \in left
                                /\ g \in deleting' <=> g \in deleting
BY DEF testRun, ReadPrefix, SetDefault, NameGroup, TornPrefix, StartStep, StepDone, StepFails,
       GetVersions, Cleanup, EndAttempt, Creates

LEMMA FiniteGroups ==
  ASSUME TypeInv, GroupInv, NEW d \in Deployments, testRun(d)
  PROVE  IsFiniteSet(groups')
<1>1. groups' \in {groups, groups \union {group[d]}}
  BY DEF testRun, ReadPrefix, SetDefault, NameGroup, TornPrefix, StartStep, StepDone, StepFails,
         GetVersions, Cleanup, EndAttempt, Creates
<1> QED
  BY <1>1, FS_AddElement DEF GroupInv

LEMMA StepOwned ==
  ASSUME TypeInv, GroupInv, NEW d \in Deployments, testRun(d)
  PROVE  /\ left' \intersect deleting' = {}
         /\ \A g \in groups' : Owned(g)'
         /\ \A g \in left' \union deleting' : Removed(g)'
<1>1. \A g : g \in groups \/ g \in left \/ g \in deleting => g \in Groups /\ g[2] \in Deployments
  BY DEF TypeInv, TypeOK, Groups
<1>2. /\ attempt[d] \in Nat
      /\ \A e \in Deployments \ {d} : /\ attempt'[e] = attempt[e] /\ group'[e] = group[e]
                                      /\ step'[e] = step[e] /\ pc'[e] = pc[e]
  BY OthersKept DEF TypeInv, TypeOK, Others
<1>3. \A g \in Groups : g[2] \in Deployments \ {d} =>
        (Owned(g) => Owned(g)') /\ (Removed(g) => Removed(g)')
  BY <1>2 DEF Owned, Removed
<1>4. \A g \in Groups : g[2] # d => g # group[d]
  BY GroupOfAttempt DEF TypeInv, Placed, Groups
<1>5. \A g \in groups : g \in Groups /\ Owned(g)
  BY <1>1 DEF GroupInv
<1>6. \A g \in left \union deleting : g \in Groups /\ Removed(g)
  BY <1>1 DEF GroupInv
<1> DEFINE Mine == {g \in Groups : g[2] = d}
<1>7. /\ left' \intersect deleting' = {}
      /\ \A g \in Mine : g \in groups' => Owned(g)'
      /\ \A g \in Mine : g \in left' \union deleting' => Removed(g)'
  <2>0. \A g \in Mine : g[3] \in Nat
    BY DEF Groups
  <2>1. CASE ReadPrefix(d) \/ SetDefault(d) \/ TornPrefix(d) \/ StartStep(d)
    <3>1. UNCHANGED <<attempt, group, step, groups, left, deleting>> /\ pc[d] # "tested"
      BY <2>1 DEF ReadPrefix, SetDefault, TornPrefix, StartStep
    <3> QED
      BY <3>1, <1>5, <1>6 DEF Owned, Removed, GroupInv
  <2>2. CASE NameGroup(d)
    <3>1. UNCHANGED <<attempt, step, groups, left, deleting>> /\ pc[d] = "name"
      BY <2>2 DEF NameGroup
    <3>2. step[d] = 1
      BY <3>1 DEF TypeInv, Placed, Between
    <3> QED
      BY <3>1, <3>2, <1>5, <1>6 DEF Owned, Removed, GroupInv
  <2>3. CASE StepDone(d) \/ StepFails(d)
    <3>1. UNCHANGED <<attempt, group, left, deleting>> /\ pc[d] = "run"
          /\ groups' \subseteq groups \union {group[d]}
      BY <2>3 DEF StepDone, StepFails, Creates
    <3>2. step'[d] # 1
      <4>1. step[d] \in 1 .. 6
        BY <2>3, StepNumbers DEF StepDone, StepFails, TypeInv, TypeOK
      <4>2. step[d] + 1 # 1
        BY <4>1
      <4>3. steps[step[d]] = "generate_template" => step[d] # 1
        BY <4>1, StepNumbers
      <4>4. cleanup # 1
        BY StepNumbers
      <4> HIDE DEF cleanup
      <4> QED
        BY <2>3, <4>2, <4>3, <4>4 DEF StepDone, StepFails, TypeInv, TypeOK
    <3> QED
      BY <3>1, <3>2, <1>5, <1>6 DEF Owned, Removed, GroupInv
  <2>4. CASE GetVersions(d)
    <3>1. UNCHANGED <<attempt, group, groups, left, deleting>> /\ pc[d] = "versions"
      BY <2>4 DEF GetVersions
    <3>2. step'[d] # 1
      <4>1. step[d] \in 1 .. 7 /\ cleanup = 7
        BY StepNumbers DEF TypeInv, TypeOK
      <4>2. step'[d] = step[d] + 1 \/ step'[d] = cleanup
        BY <2>4 DEF GetVersions, TypeInv, TypeOK
      <4> QED
        BY <4>1, <4>2
    <3> QED
      BY <3>1, <3>2, <1>5, <1>6 DEF Owned, Removed, GroupInv
  <2>5. CASE Cleanup(d)
    <3>1. UNCHANGED <<attempt, group, step, groups>> /\ pc[d] = "run" /\ pc'[d] = "tested"
      BY <2>5 DEF Cleanup, TypeInv, TypeOK
    <3>2. group[d][2] = d /\ group[d][3] = attempt[d]
      BY <3>1, GroupOfAttempt DEF Between
    <3>3. group[d] \notin left \union deleting
      BY <3>1, <3>2, <1>2, <1>6 DEF Removed
    <3>4. \/ UNCHANGED <<left, deleting>>
          \/ left' = left \union {group[d]} /\ deleting' = deleting
          \/ deleting' = deleting \union {group[d]} /\ left' = left
      BY <2>5 DEF Cleanup
    <3>5. left' \intersect deleting' = {}
      BY <3>3, <3>4 DEF GroupInv
    <3> QED
      BY <3>1, <3>4, <3>5, <1>5, <1>6 DEF Owned, Removed
  <2>6. CASE EndAttempt(d)
    <3>1. UNCHANGED <<groups, left, deleting>> /\ pc[d] = "tested" /\ attempt'[d] = attempt[d] + 1
      BY <2>6 DEF EndAttempt, TypeInv, TypeOK
    <3>2. group[d][3] = attempt[d]
      BY <3>1, GroupOfAttempt DEF Between
    <3> QED
      BY <3>1, <3>2, <1>2, <1>5, <1>6, <2>0 DEF Owned, Removed, GroupInv
  <2> QED
    BY <2>1, <2>2, <2>3, <2>4, <2>5, <2>6 DEF testRun
<1>8. ASSUME NEW g \in Groups, g[2] # d
      PROVE  /\ g \in groups' => Owned(g)'
             /\ g \in left' \union deleting' => Removed(g)'
  <2>1. g # group[d] /\ g[2] \in Deployments \ {d}
    BY <1>4, <1>8 DEF Groups
  <2>2. g \in groups' => g \in groups
    BY <2>1, OwnGroup
  <2>3. g \in left' \union deleting' => g \in left \union deleting
    BY <2>1, OwnGroup
  <2> QED
    BY <2>1, <2>2, <2>3, <1>3, <1>5, <1>6
<1>9. groups' \subseteq Groups /\ left' \subseteq Groups /\ deleting' \subseteq Groups
  BY StepGroups
<1> QED
  BY <1>7, <1>8, <1>9

\* Other deployments keep their room.
LEMMA OthersRoom ==
  ASSUME TypeInv, GroupInv, NEW d \in Deployments, testRun(d), NEW e \in Deployments \ {d}
  PROVE  Room(e)'
<1>1. /\ pc'[e] = pc[e] /\ group'[e] = group[e] /\ errorInfo'[e] = errorInfo[e]
      /\ resMap'[e] = resMap[e] /\ settings' = settings
  BY OthersKept DEF TypeInv, Others
<1>2. Row(e, StepErrors)' = Row(e, StepErrors)
  BY <1>1 DEF Row
<1>3. Allowed(e)' = Allowed(e)
  BY <1>1, <1>2 DEF Allowed, Total, Row
<1>4. UnderWay(e)' <=> UnderWay(e)
  BY <1>1 DEF UnderWay, Keeps
<1>5. \A g \in Groups : g[2] = e => g # group[d]
  BY GroupOfAttempt DEF TypeInv, Placed, Groups
<1>6. \A g \in Groups : g[2] = e => (g \in groups' \ (left' \union deleting') <=>
                                     g \in groups \ (left \union deleting))
  BY <1>5, OwnGroup
<1>7. groups \subseteq Groups /\ groups' \subseteq Groups
  BY StepGroups DEF TypeInv, TypeOK
<1>8. Staying(e)' = Staying(e)
  BY <1>6, <1>7 DEF Staying
<1>9. Room(e)
  BY DEF GroupInv
<1> QED
  BY <1>1, <1>3, <1>4, <1>8, <1>9 DEF Room

LEMMA Fewer ==
  ASSUME GroupInv, NEW d, NEW T, T \subseteq Staying(d) \ {group[d]}
  PROVE  /\ IsFiniteSet(T) /\ Cardinality(T) \in Nat
         /\ Cardinality(Staying(d) \ {group[d]}) \in Nat
         /\ Cardinality(T) <= Cardinality(Staying(d) \ {group[d]})
<1>1. Staying(d) \ {group[d]} \in SUBSET groups
  BY DEF Staying
<1>2. IsFiniteSet(Staying(d) \ {group[d]})
  BY <1>1, FS_Subset DEF GroupInv
<1> QED
  BY <1>2, FS_Subset, FS_CardinalityType

LEMMA NoEmptyGroup == TypeOK => << >> \notin groups
<1>1. ASSUME NEW g \in Groups PROVE DOMAIN g = 1 .. 3
  BY DEF Groups
<1>2. 1 \notin DOMAIN << >>
  OBVIOUS
<1>3. << >> \notin Groups
  BY <1>1, <1>2
<1> QED
  BY <1>3 DEF TypeOK

LEMMA OwnRoom ==
  ASSUME TypeInv, GroupInv, NEW d \in Deployments, testRun(d)
  PROVE  Room(d)'
<1>0. settings' = settings /\ Allowed(d) \in Nat /\ Room(d)
  BY OthersKept, TotalNat DEF TypeInv, GroupInv
<1>1. ASSUME resMap' = resMap,
             Staying(d)' \ {group'[d]} \subseteq Staying(d) \ {group[d]},
             UnderWay(d)' \/ group'[d] \notin Staying(d)'
      PROVE  Room(d)'
  <2>1. Allowed(d)' = Allowed(d)
    BY <1>0, <1>1 DEF Allowed, Total
  <2>2. /\ Cardinality(Staying(d)' \ {group'[d]}) \in Nat
        /\ Cardinality(Staying(d) \ {group[d]}) \in Nat
        /\ Cardinality(Staying(d)' \ {group'[d]}) <= Cardinality(Staying(d) \ {group[d]})
    BY <1>1, Fewer
  <2> QED
    BY <1>0, <1>1, <2>1, <2>2 DEF Room
<1>2. CASE ReadPrefix(d) \/ SetDefault(d) \/ TornPrefix(d)
  <2>1. UNCHANGED <<group, groups, left, deleting, resMap>>
    BY <1>2 DEF ReadPrefix, SetDefault, TornPrefix
  <2>2. pc[d] \in Between /\ group[d] = << >>
    BY <1>2 DEF ReadPrefix, SetDefault, TornPrefix, Between, TypeInv, Placed
  <2>3. << >> \notin groups
    BY NoEmptyGroup DEF TypeInv
  <2> QED
    BY <1>1, <2>1, <2>2, <2>3 DEF Staying
<1>3. CASE NameGroup(d)
  <2>1. /\ UNCHANGED <<groups, left, deleting, resMap>> /\ pc[d] = "name"
        /\ group'[d] = <<rgPrefix, d, attempt[d]>>
    BY <1>3 DEF NameGroup, resourceGroup, TypeInv, TypeOK
  <2>2. step[d] = 1 /\ group[d] = << >>
    BY <2>1 DEF TypeInv, Placed, Between
  <2>3. group'[d] \notin groups
    <3>1. group'[d][2] = d /\ group'[d][3] = attempt[d] /\ attempt[d] \in Nat
      BY <2>1 DEF TypeInv, TypeOK
    <3> QED
      BY <2>2, <3>1 DEF GroupInv, Owned
  <2>4. << >> \notin groups
    BY NoEmptyGroup DEF TypeInv
  <2> QED
    BY <1>1, <2>1, <2>2, <2>3, <2>4 DEF Staying
<1>4. CASE StartStep(d) \/ StepDone(d) \/ StepFails(d)
  <2>1. /\ UNCHANGED <<group, left, deleting, resMap>> /\ pc'[d] \in {"start", "run", "versions"}
        /\ groups' \subseteq groups \union {group[d]}
    BY <1>4 DEF StartStep, StepDone, StepFails, Creates, TypeInv, TypeOK
  <2> QED
    BY <1>1, <2>1 DEF Staying, UnderWay
<1>5. CASE GetVersions(d)
  <2>1. UNCHANGED <<group, groups, left, deleting, resMap>> /\ pc'[d] = "start"
    BY <1>5 DEF GetVersions, TypeInv, TypeOK
  <2> QED
    BY <1>1, <2>1 DEF Staying, UnderWay
<1>6. CASE Cleanup(d)
  <2>1. /\ UNCHANGED <<group, groups, resMap, errorInfo>> /\ pc'[d] = "tested"
        /\ left \subseteq left' /\ deleting \subseteq deleting'
    BY <1>6 DEF Cleanup, TypeInv, TypeOK
  <2>2. Keeps(d) \/ group[d] \notin groups \/ group[d] \in left' \union deleting'
    BY <1>6 DEF Cleanup
  <2>3. Keeps(d)' <=> Keeps(d)
    BY <1>0, <2>1 DEF Keeps
  <2> QED
    BY <1>1, <2>1, <2>2, <2>3 DEF Staying, UnderWay
<1>7. CASE EndAttempt(d)
  <2> DEFINE e == errorInfo[d]
             S == Staying(d)
             T == S \ {group[d]}
  <2>1. /\ UNCHANGED <<groups, left, deleting>> /\ group'[d] = << >> /\ pc[d] = "tested"
        /\ e = Success => resMap' = resMap
        /\ e # Success => resMap' = [resMap EXCEPT ![d][e] = @ + 1]
    BY <1>7 DEF EndAttempt, TypeInv, TypeOK
  <2>2. << >> \notin groups
    BY NoEmptyGroup DEF TypeInv
  <2>3. Staying(d)' = S /\ group'[d] \notin S
    BY <2>1, <2>2 DEF Staying
  <2>4. Cardinality(T) \in Nat /\ Cardinality(T) <= Allowed(d)
    BY <1>0, Fewer DEF Room
  <2>7. ASSUME Cardinality(S) <= Allowed(d)' PROVE Room(d)'
    <3>1. Staying(d)' \ {group'[d]} = S
      BY <2>3
    <3> QED
      BY <2>3, <2>7, <3>1 DEF Room
  <2>5. CASE Keeps(d)
    <3>1. ~ settings.autoclean /\ e \in StepErrors
      BY <2>5 DEF Keeps
    <3>2. e # Success /\ e \in ErrNames
      BY <3>1, NoClash DEF ErrNames
    <3>3. Total(d, StepErrors)' = Total(d, StepErrors) + 1
      BY <2>1, <3>1, <3>2, TotalMore DEF TypeInv
    <3>4. Allowed(d)' = Allowed(d) + 1
      BY <1>0, <3>1, <3>3 DEF Allowed
    <3>5. Cardinality(S) <= Cardinality(T) + 1
      <4>1. IsFiniteSet(T) /\ S \in SUBSET (T \union {group[d]})
        BY Fewer
      <4>2. IsFiniteSet(S)
        <5>1. S \in SUBSET groups
          BY DEF Staying
        <5> QED
          BY <5>1, FS_Subset DEF GroupInv
      <4> QED
        BY <4>1, FS_AddElement, FS_Subset, FS_CardinalityType, <2>4
    <3>6. Cardinality(S) \in Nat
      <4>1. S \in SUBSET groups
        BY DEF Staying
      <4> QED
        BY <4>1, FS_Subset, FS_CardinalityType DEF GroupInv
    <3>7. Cardinality(S) <= Allowed(d)'
      <4> HIDE DEF S, T
      <4> QED
        BY <1>0, <2>4, <3>4, <3>5, <3>6
    <3> QED
      BY <2>7, <3>7
  <2>6. CASE ~ Keeps(d)
    <3>1. S = T
      BY <1>0, <2>1, <2>6 DEF Room, UnderWay
    <3>2. Allowed(d)' \in Nat /\ Allowed(d)' >= Allowed(d)
      <4>1. CASE e = Success
        BY <1>0, <2>1, <4>1 DEF Allowed, Total
      <4>2. CASE e # Success
        <5>1. e \in ErrNames
          BY <4>2 DEF TypeInv, TypeOK
        <5>2. Total(d, StepErrors)' = Total(d, StepErrors) + (IF e \in StepErrors THEN 1 ELSE 0)
          BY <2>1, <4>2, <5>1, TotalMore DEF TypeInv
        <5>3. Total(d, StepErrors) \in Nat
          BY TotalNat DEF TypeInv
        <5> HIDE DEF e
        <5>4. Total(d, StepErrors)' \in Nat /\ Total(d, StepErrors)' >= Total(d, StepErrors)
          BY <5>2, <5>3
        <5> QED
          BY <1>0, <5>3, <5>4 DEF Allowed
      <4> QED
        BY <4>1, <4>2
    <3>3. Cardinality(S) <= Allowed(d)'
      <4> HIDE DEF S, T
      <4> QED
        BY <1>0, <2>4, <3>1, <3>2
    <3> QED
      BY <2>7, <3>3
  <2> QED
    BY <2>5, <2>6
<1> QED
  BY <1>2, <1>3, <1>4, <1>5, <1>6, <1>7 DEF testRun

LEMMA StepGroupInv == TypeInv /\ GroupInv /\ [Next]_vars => GroupInv'
<1> SUFFICES ASSUME TypeInv, GroupInv, [Next]_vars PROVE GroupInv'
  OBVIOUS
<1>1. ASSUME NEW d \in Deployments, testRun(d) PROVE GroupInv'
  <2>1. \A e \in Deployments : Room(e)'
    BY <1>1, OthersRoom, OwnRoom
  <2> QED
    BY <1>1, <2>1, FiniteGroups, StepOwned DEF GroupInv
<1>2. CASE Prepare
  <2>1. UNCHANGED <<settings, attempt, group, step, resMap, groups, deleting, left>>
    BY <1>2 DEF Prepare
  <2>2. \A d \in Deployments : pc[d] = "none" /\ group[d] = << >> /\ attempt[d] = 0 /\ step[d] = 1
    BY <1>2 DEF Prepare, TypeInv, Started, Placed, Between
  <2>3. \A g \in groups : g[2] \in Deployments /\ g[3] \in Nat
    BY DEF TypeInv, TypeOK, Groups
  <2>4. groups = {}
    BY <2>2, <2>3 DEF GroupInv, Owned
  <2>5. left = {} /\ deleting = {}
    BY <2>4 DEF TypeInv, TypeOK
  <2>6. ASSUME NEW d \in Deployments PROVE Room(d)'
    <3>1. Staying(d) = {} /\ Staying(d)' = {}
      BY <2>1, <2>4 DEF Staying
    <3>2. Allowed(d)' = Allowed(d)
      BY <2>1 DEF Allowed, Total
    <3>3. Room(d)
      BY DEF GroupInv
    <3> QED
      BY <2>1, <3>1, <3>2, <3>3 DEF Room
  <2> QED
    BY <2>1, <2>4, <2>5, <2>6 DEF GroupInv
<1>3. CASE Unlock \/ Return \/ UNCHANGED vars
  <2>1. UNCHANGED <<settings, pc, errorInfo, attempt, group, step, resMap, groups, deleting, left>>
    BY <1>3 DEF Unlock, Return, vars
  <2>2. ASSUME NEW d \in Deployments PROVE Room(d)'
    <3>1. Room(d)
      BY DEF GroupInv
    <3>2. Allowed(d)' = Allowed(d) /\ Staying(d)' = Staying(d)
      BY <2>1 DEF Allowed, Total, Staying
    <3> QED
      BY <2>1, <3>1, <3>2 DEF Room, UnderWay, Keeps
  <2>3. \A g : (Owned(g)' <=> Owned(g)) /\ (Removed(g)' <=> Removed(g))
    BY <2>1 DEF Owned, Removed
  <2> QED
    BY <2>1, <2>2, <2>3 DEF GroupInv
<1>4. ASSUME NEW g \in deleting, Deleted(g) PROVE GroupInv'
  <2>1. UNCHANGED <<settings, pc, errorInfo, attempt, group, step, resMap, left>>
    BY <1>4 DEF Deleted
  <2>2. groups' = groups \ {g} /\ deleting' = deleting \ {g}
    BY <1>4 DEF Deleted
  <2>3. ASSUME NEW d \in Deployments PROVE Room(d)'
    <3>1. Room(d)
      BY DEF GroupInv
    <3>2. Allowed(d)' = Allowed(d)
      BY <2>1 DEF Allowed, Total
    <3>3. Staying(d)' = Staying(d)
      BY <2>1, <2>2, <1>4 DEF Staying
    <3> QED
      BY <2>1, <3>1, <3>2, <3>3 DEF Room, UnderWay, Keeps
  <2>4. \A h : (Owned(h)' <=> Owned(h)) /\ (Removed(h)' <=> Removed(h))
    BY <2>1 DEF Owned, Removed
  <2>5. IsFiniteSet(groups')
    BY <2>2, FS_RemoveElement DEF GroupInv
  <2> QED
    BY <2>1, <2>2, <2>3, <2>4, <2>5 DEF GroupInv
<1> QED
  BY <1>1, <1>2, <1>3, <1>4 DEF Next

LEMMA GroupInvGives == TypeInv /\ GroupInv => GroupsCleaned
<1> SUFFICES ASSUME TypeInv, GroupInv PROVE GroupsCleaned
  OBVIOUS
<1>1. ASSUME NEW d \in Deployments, pc[d] = "start", step[d] = 1 PROVE group[d] \notin groups
  <2>1. group[d][2] = d /\ group[d][3] = attempt[d]
    BY <1>1, GroupOfAttempt DEF Between
  <2>2. attempt[d] \in Nat
    BY DEF TypeInv, TypeOK
  <2> QED
    BY <1>1, <2>1, <2>2 DEF GroupInv, Owned
<1>2. ASSUME NEW d \in Deployments, NEW e \in Deployments, group[d] = group[e], group[d] # << >>
      PROVE  d = e
  BY <1>2, GroupOfAttempt DEF TypeInv, Placed
<1>3. ASSUME NEW d \in Deployments
      PROVE  Cardinality(Staying(d)) <= (IF UnderWay(d) THEN 1 ELSE 0) + Allowed(d)
  <2> DEFINE S == Staying(d)
             T == S \ {group[d]}
  <2>1. Room(d) /\ Allowed(d) \in Nat
    BY TotalNat DEF GroupInv, TypeInv
  <2>2. Cardinality(T) \in Nat /\ Cardinality(T) <= Allowed(d) /\ IsFiniteSet(T)
    BY <2>1, Fewer DEF Room
  <2>3. S \in SUBSET groups
    BY DEF Staying
  <2>4. IsFiniteSet(S) /\ Cardinality(S) \in Nat
    BY <2>3, FS_Subset, FS_CardinalityType DEF GroupInv
  <2>5. Cardinality(S) = Cardinality(T) \/ Cardinality(S) = Cardinality(T) + 1
    BY <2>4, FS_RemoveElement, FS_CardinalityType, <2>2
  <2>6. ~ UnderWay(d) => S = T
    BY <2>1 DEF Room
  <2> HIDE DEF S
  <2>7. CASE UnderWay(d)
    <3> HIDE DEF T
    <3> QED
      BY <2>1, <2>2, <2>4, <2>5, <2>7 DEF S
  <2>8. CASE ~ UnderWay(d)
    <3> HIDE DEF T
    <3> QED
      BY <2>1, <2>2, <2>4, <2>6, <2>8 DEF S
  <2> QED
    BY <2>7, <2>8
<1> QED
  BY <1>1, <1>2, <1>3 DEF GroupsCleaned, Allowed

(***************************************************************************)
(* The counts.                                                             *)
(***************************************************************************)
LEMMA Nothing ==
  ASSUME NEW f, IsFiniteSet(DOMAIN f), \A x \in DOMAIN f : f[x] = 0
  PROVE  Sum(f) = 0
BY SumNat

LEMMA InitCounts == Init => CountInv
<1> SUFFICES ASSUME Init PROVE CountInv
  OBVIOUS
<1>1. ASSUME NEW d \in Deployments PROVE Counted(d)
  <2>1. DOMAIN Row(d, ErrNames) = ErrNames /\ \A e \in ErrNames : Row(d, ErrNames)[e] = 0
    BY DEF Init, Row
  <2>2. Sum(Row(d, ErrNames)) = 0
    BY <2>1, FiniteErrors, Nothing
  <2>3. Total(d, ErrNames) = 0
    BY <2>2 DEF Total, Row
  <2>4. attempt[d] = 0 /\ ~ success[d] /\ pc[d] = "none"
    BY DEF Init
  <2>5. Failed(d) = 0
    <3>1. (IF success[d] THEN 1 ELSE 0) = 0
      BY <2>4, Zenon
    <3>2. Failed(d) = 0 - 0
      BY <2>4, <3>1, Zenon DEF Failed
    <3> QED
      BY <3>2
  <2> QED
    BY <2>3, <2>4, <2>5 DEF Counted
<1>2. ASSUME NEW e \in StepErrors PROVE failures[e] = Sum(Seen(e))
  <2>1. e # Success /\ e \in ErrNames
    BY NoClash DEF ErrNames
  <2>2. DOMAIN Seen(e) = Deployments /\ IsFiniteSet(Deployments)
    BY Assumptions DEF ParameterAssumptions, FiniteAssumption, Seen
  <2>3. \A d \in Deployments : resMap[d][e] = 0 /\ errorInfo[d] # e
    BY <2>1 DEF Init
  <2>4. \A d \in Deployments : Seen(e)[d] = 0
    BY <2>3 DEF Seen
  <2>5. Sum(Seen(e)) = 0
    BY <2>2, <2>4, Nothing
  <2> QED
    BY <2>5 DEF Init
<1> QED
  BY <1>1, <1>2 DEF CountInv

LEMMA StepCounted ==
  ASSUME TypeInv, NEW d \in Deployments, Counted(d), testRun(d)
  PROVE  Counted(d)'
<1>0. pc[d] \notin {"none", "done"} /\ settings' = settings
  BY OthersKept DEF TypeInv, testRun, ReadPrefix, SetDefault, NameGroup, TornPrefix, StartStep,
                    StepDone, StepFails, GetVersions, Cleanup, EndAttempt
<1>1. /\ success[d] = FALSE /\ attempt[d] \in Nat /\ attempt[d] < settings.retries
      /\ settings.retries \in Nat /\ Total(d, ErrNames) = attempt[d]
  <2>1. success[d] = FALSE
    BY <1>0 DEF Counted, TypeInv, TypeOK
  <2>2. settings.retries \in Nat
    BY Retries DEF TypeInv, TypeOK
  <2>3. attempt[d] \in Nat /\ attempt[d] < settings.retries
    BY <1>0, <2>2 DEF TypeInv, TypeOK, Placed
  <2> QED
    BY <2>1, <2>2, <2>3 DEF Counted, Failed
<1>2. CASE ~ EndAttempt(d)
  <2>1. UNCHANGED <<attempt, success, resMap>> /\ pc'[d] # "done"
    BY <1>2 DEF testRun, ReadPrefix, SetDefault, NameGroup, TornPrefix, StartStep, StepDone,
                StepFails, GetVersions, Cleanup, TypeInv, TypeOK
  <2>2. Total(d, ErrNames)' = Total(d, ErrNames)
    BY <2>1 DEF Total
  <2> QED
    BY <1>1, <2>1, <2>2 DEF Counted, Failed
<1>3. CASE EndAttempt(d)
  <2> DEFINE e == errorInfo[d]
  <2>1. /\ success'[d] = (e = Success)
        /\ attempt'[d] = attempt[d] + 1
        /\ pc'[d] = AttemptOrEnd(attempt[d] + 1, e = Success)
        /\ e = Success => resMap' = resMap
        /\ e # Success => resMap' = [resMap EXCEPT ![d][e] = @ + 1]
    BY <1>3 DEF EndAttempt, TypeInv, TypeOK
  <2>2. CASE e = Success
    <3>1. Total(d, ErrNames)' = Total(d, ErrNames)
      BY <2>1, <2>2 DEF Total
    <3>2. pc'[d] = "done" /\ success'[d] = TRUE
      BY <2>1, <2>2 DEF AttemptOrEnd
    <3> QED
      BY <1>1, <2>1, <3>1, <3>2 DEF Counted, Failed
  <2>3. CASE e # Success
    <3>1. e \in ErrNames
      BY <2>3 DEF TypeInv, TypeOK
    <3>2. Total(d, ErrNames)' = Total(d, ErrNames) + 1
      BY <2>1, <2>3, <3>1, TotalMore DEF TypeInv
    <3>3. success'[d] = FALSE /\ (pc'[d] = "done" => ~ (attempt[d] + 1 < settings.retries))
      BY <2>1, <2>3 DEF AttemptOrEnd
    <3> HIDE DEF e
    <3> QED
      BY <1>0, <1>1, <2>1, <3>2, <3>3 DEF Counted, Failed
  <2> QED
    BY <2>2, <2>3
<1> QED
  BY <1>2, <1>3

LEMMA StepSeen ==
  ASSUME TypeInv, NEW e \in StepErrors, failures[e] = Sum(Seen(e)),
         NEW d \in Deployments, testRun(d)
  PROVE  failures'[e] = Sum(Seen(e)')
<1>1. e # Success /\ e \in ErrNames /\ IsFiniteSet(Deployments)
  BY NoClash, Assumptions DEF ErrNames, ParameterAssumptions, FiniteAssumption
<1>2. \A x \in Deployments \ {d} : errorInfo'[x] = errorInfo[x] /\ resMap'[x] = resMap[x]
  BY OthersKept DEF TypeInv, Others
<1>3. \A x \in Deployments \ {d} : Seen(e)'[x] = Seen(e)[x]
  BY <1>2 DEF Seen
<1>4. DOMAIN Seen(e) = Deployments /\ DOMAIN Seen(e)' = Deployments
  BY DEF Seen
<1>5. ASSUME Seen(e)'[d] = Seen(e)[d], failures'[e] = failures[e] PROVE failures'[e] = Sum(Seen(e)')
  <2>1. Seen(e)' = Seen(e)
    <3>1. \A x \in Deployments : Seen(e)'[x] = Seen(e)[x]
      BY <1>3, <1>5
    <3>2. /\ Seen(e) = [x \in Deployments |-> Seen(e)[x]]
          /\ Seen(e)' = [x \in Deployments |-> Seen(e)'[x]]
      BY DEF Seen
    <3> QED
      BY <3>1, <3>2
  <2> QED
    BY <1>5, <2>1
<1>6. /\ Seen(e)[d] = resMap[d][e] + (IF errorInfo[d] = e THEN 1 ELSE 0)
      /\ Seen(e)'[d] = resMap'[d][e] + (IF errorInfo'[d] = e THEN 1 ELSE 0)
  BY DEF Seen
<1>7. \A x \in Deployments : resMap[x][e] \in Nat
  BY <1>1 DEF TypeInv, TypeOK
<1>8. CASE \/ ReadPrefix(d) \/ SetDefault(d) \/ TornPrefix(d)
           \/ StartStep(d) \/ StepDone(d) \/ Cleanup(d)
  <2>1. UNCHANGED <<errorInfo, resMap, failures>>
    BY <1>8 DEF ReadPrefix, SetDefault, TornPrefix, StartStep, StepDone, Cleanup
  <2> QED
    BY <1>5, <1>6, <2>1
<1>9. CASE NameGroup(d) \/ GetVersions(d)
  <2>1. /\ UNCHANGED <<resMap, failures>> /\ errorInfo[d] = Success
        /\ errorInfo'[d] \in ParseErrors \union {Success}
    BY <1>9 DEF NameGroup, GetVersions, TypeInv, TypeOK, Placed, Between
  <2>2. errorInfo[d] # e /\ errorInfo'[d] # e
    BY <1>1, <2>1, NoClash
  <2> QED
    BY <1>5, <1>6, <2>1, <2>2
<1>10. CASE StepFails(d)
  <2>1. errorInfo[d] = Success
    BY <1>10 DEF StepFails, TypeInv, Placed
  <2>2. PICK x \in StepErrors : errorInfo' = [errorInfo EXCEPT ![d] = x] /\ addFailure(x)
    BY <1>10 DEF StepFails
  <2>3. /\ resMap' = resMap /\ errorInfo'[d] = x
        /\ failures'[e] = IF x = e THEN failures[e] + 1 ELSE failures[e]
    BY <1>10, <2>2 DEF StepFails, addFailure, TypeInv, TypeOK
  <2>4. CASE x = e
    <3>1. Seen(e)'[d] = Seen(e)[d] + 1
      BY <1>1, <1>6, <1>7, <2>1, <2>3, <2>4
    <3>2. \A y \in Deployments : Seen(e)[y] \in Nat
      BY <1>7 DEF Seen
    <3>3. Sum(Seen(e)') = Sum(Seen(e)) + 1
      BY <1>1, <1>3, <1>4, <3>1, <3>2, SumMore
    <3> QED
      BY <2>3, <2>4, <3>3
  <2>5. CASE x # e
    BY <1>1, <1>5, <1>6, <2>1, <2>3, <2>5
  <2> QED
    BY <2>4, <2>5
<1>11. CASE EndAttempt(d)
  <2>1. failures' = failures /\ errorInfo'[d] = Success
    BY <1>11 DEF EndAttempt, TypeInv, TypeOK
  <2>2. resMap'[d][e] = IF errorInfo[d] = e THEN resMap[d][e] + 1 ELSE resMap[d][e]
    <3>1. CASE errorInfo[d] = Success
      BY <1>1, <1>11, <3>1 DEF EndAttempt
    <3>2. CASE errorInfo[d] # Success
      BY <1>1, <1>11, <3>2 DEF EndAttempt, TypeInv, TypeOK
    <3> QED
      BY <3>1, <3>2
  <2> QED
    BY <1>1, <1>5, <1>6, <1>7, <2>1, <2>2
<1> QED
  BY <1>8, <1>9, <1>10, <1>11 DEF testRun

LEMMA StepCountInv == TypeInv /\ CountInv /\ [Next]_vars => CountInv'
<1> SUFFICES ASSUME TypeInv, CountInv, [Next]_vars PROVE CountInv'
  OBVIOUS
<1>1. ASSUME NEW d \in Deployments, testRun(d) PROVE CountInv'
  <2>1. ASSUME NEW e \in Deployments PROVE Counted(e)'
    <3>1. CASE e = d
      BY <1>1, <3>1, StepCounted DEF CountInv
    <3>2. CASE e # d
      <4>1. /\ pc'[e] = pc[e] /\ attempt'[e] = attempt[e] /\ success'[e] = success[e]
            /\ resMap'[e] = resMap[e] /\ settings' = settings
        BY <1>1, <3>2, OthersKept DEF TypeInv, Others
      <4>2. Row(e, ErrNames)' = Row(e, ErrNames)
        BY <4>1 DEF Row
      <4>3. Total(e, ErrNames)' = Total(e, ErrNames)
        BY <4>2 DEF Total, Row
      <4>4. Counted(e)
        BY DEF CountInv
      <4> QED
        BY <4>1, <4>3, <4>4 DEF Counted, Failed
    <3> QED
      BY <3>1, <3>2
  <2>2. ASSUME NEW e \in StepErrors PROVE failures'[e] = Sum(Seen(e)')
    BY <1>1, StepSeen DEF CountInv
  <2> QED
    BY <2>1, <2>2 DEF CountInv
<1>2. CASE ~ \E d \in Deployments : testRun(d)
  <2>1. UNCHANGED <<settings, attempt, success, resMap, errorInfo, failures>>
    BY <1>2 DEF Next, Prepare, Unlock, Deleted, Return, vars
  <2>2. ASSUME NEW d \in Deployments PROVE Counted(d)'
    <3>1. Counted(d) /\ Total(d, ErrNames)' = Total(d, ErrNames)
      BY <2>1 DEF CountInv, Total
    <3>2. pc' = pc \/ (pc[d] = "none" /\ pc'[d] = AttemptOrEnd(0, FALSE))
      BY <1>2 DEF Next, Prepare, Unlock, Deleted, Return, vars, TypeInv, Started
    <3>3. pc[d] = "none" => attempt[d] = 0 /\ success[d] = FALSE
      BY <3>1 DEF TypeInv, TypeOK, Placed, Counted
    <3>4. CASE pc' = pc
      BY <2>1, <3>1, <3>4 DEF Counted, Failed
    <3>5. CASE pc[d] = "none" /\ pc'[d] = AttemptOrEnd(0, FALSE)
      <4>1. settings.retries \in Nat
        BY Retries DEF TypeInv, TypeOK
      <4>2. pc'[d] = "done" => settings.retries = 0
        BY <3>5, <4>1 DEF AttemptOrEnd
      <4> QED
        BY <2>1, <3>1, <3>3, <3>5, <4>2 DEF Counted, Failed
    <3> QED
      BY <3>2, <3>4, <3>5
  <2>3. ASSUME NEW e \in StepErrors PROVE failures'[e] = Sum(Seen(e)')
    <3>1. Seen(e)' = Seen(e)
      BY <2>1 DEF Seen
    <3> QED
      BY <2>1, <3>1 DEF CountInv
  <2> QED
    BY <2>2, <2>3 DEF CountInv
<1> QED
  BY <1>1, <1>2

LEMMA CountInvGives == TypeInv /\ CountInv => VerdictExact
<1> SUFFICES ASSUME TypeInv, CountInv, main = "returned", \E d \in Deployments : pc[d] # "none"
             PROVE  /\ ok <=> \A d \in Deployments : Total(d, ErrNames) < settings.retries
                    /\ \A e \in StepErrors : failures[e] = Times(e)
  BY DEF VerdictExact
<1>1. (\A d \in Deployments : pc[d] = "done") /\ ok = \A d \in Deployments : success[d]
  BY DEF TypeInv, Started
<1>2. ASSUME NEW d \in Deployments PROVE success[d] <=> Total(d, ErrNames) < settings.retries
  <2>1. /\ settings.retries \in Nat /\ attempt[d] \in 0 .. settings.retries
        /\ success[d] \in BOOLEAN
    BY Retries DEF TypeInv, TypeOK
  <2>2. Counted(d) /\ pc[d] = "done"
    BY <1>1 DEF CountInv
  <2>3. CASE success[d]
    BY <2>1, <2>2, <2>3 DEF Counted, Failed
  <2>4. CASE ~ success[d]
    BY <2>1, <2>2, <2>4 DEF Counted, Failed
  <2> QED
    BY <2>3, <2>4
<1>3. ASSUME NEW e \in StepErrors PROVE failures[e] = Times(e)
  <2>1. e # Success
    BY NoClash DEF ErrNames
  <2>2. ASSUME NEW d \in Deployments
        PROVE  resMap[d][e] + (IF errorInfo[d] = e THEN 1 ELSE 0) = resMap[d][e]
    <3>1. errorInfo[d] = Success
      BY <1>1 DEF TypeInv, Placed, Between
    <3>2. resMap[d][e] \in Nat
      BY DEF TypeInv, TypeOK, ErrNames
    <3> QED
      BY <2>1, <3>1, <3>2
  <2>3. Seen(e) = [d \in Deployments |-> resMap[d][e]]
    BY <2>2 DEF Seen
  <2> QED
    BY <2>3 DEF CountInv, Times
<1> QED
  BY <1>1, <1>2, <1>3

\* The types of the variables, and that no deployment has more attempts than it may.
THEOREM TypeCorrect == Spec => []TypeOK
<1>1. Init => TypeInv /\ GroupInv
  BY InitTyped, InitGroups
<1>2. TypeInv /\ GroupInv /\ [Next]_vars => (TypeInv /\ GroupInv)'
  BY StepTyped, StepGroupInv
<1>3. TypeInv /\ GroupInv => TypeOK
  BY DEF TypeInv
<1> QED
  BY <1>1, <1>2, <1>3, PTL DEF Spec

\* However the goroutines overwrite each other's prefix and whatever fails, no two
\* attempts share a resource group, and what stays of a deployment is accounted for.
THEOREM GroupsAccountedFor == Spec => []GroupsCleaned
<1>1. Init => TypeInv /\ GroupInv
  BY InitTyped, InitGroups
<1>2. TypeInv /\ GroupInv /\ [Next]_vars => (TypeInv /\ GroupInv)'
  BY StepTyped, StepGroupInv
<1> QED
  BY <1>1, <1>2, GroupInvGives, PTL DEF Spec

\* The report, which all goroutines write, has every error of every attempt just as often as
\* the goroutines have it, and Run succeeds just when no deployment used up its attempts.
THEOREM VerdictIsExact == Spec => []VerdictExact
<1>1. Init => TypeInv /\ GroupInv /\ CountInv
  BY InitTyped, InitGroups, InitCounts
<1>2. TypeInv /\ GroupInv /\ CountInv /\ [Next]_vars => (TypeInv /\ GroupInv /\ CountInv)'
  BY StepTyped, StepGroupInv, StepCountInv
<1>3. TypeInv /\ GroupInv /\ CountInv => VerdictExact
  BY CountInvGives
<1> QED
  BY <1>1, <1>2, <1>3, PTL DEF Spec
=============================================================================
