-------------------------- MODULE OverridesProofs --------------------------
(***************************************************************************)
(* The overrides of --set for every document and every command: the merged *)
(* document does not depend on the order of the map (OrderFree), and what  *)
(* is accepted is what was asked for (AcceptedMeansAsked).                 *)
(***************************************************************************)
EXTENDS Overrides, SequenceTheorems, FiniteSetTheorems,
        WellFoundedInduction, TLAPS

Paths == Seq(Keys \union Elements)

\* A nonempty set of naturals has a smallest element.
LEMMA Smallest ==
  ASSUME NEW T \in SUBSET Nat, T # {}
  PROVE  \E x \in T : \A y \in T : x <= y
<1> DEFINE R == OpToRel(<, Nat)
<1>1. \E x \in T : \A y \in T : ~ (<<y, x>> \in R)
  <2>1. IsWellFoundedOn(R, Nat)
    BY NatLessThanWellFounded
  <2> HIDE DEF R
  <2> QED
    BY <2>1, WFMin
<1>2. \A x, y \in Nat : <<y, x>> \in R <=> y < x
  BY DEF OpToRel
<1> HIDE DEF R
<1>3. PICK x \in T : \A y \in T : ~ (<<y, x>> \in R)
  BY <1>1
<1>4. \A y \in T : ~ (y < x)
  BY <1>2, <1>3
<1>5. \A y \in T : x <= y
  BY <1>4
<1> QED
  BY <1>5

LEMMA PrefixPoint ==
  ASSUME NEW p \in Paths, NEW q \in Paths
  PROVE  IsPrefix(p, q) <=> Len(p) <= Len(q) /\ \A i \in 1 .. Len(p) : p[i] = q[i]
<1> DEFINE E == Keys \union Elements
<1>0. Len(p) \in Nat /\ Len(q) \in Nat
  BY DEF Paths
<1>1. CASE Len(p) <= Len(q)
  <2>1. SubSeq(p, 1, Len(p)) = p
    BY DEF Paths
  <2>2. \A i \in 1 .. Len(p) : q[i] \in E
    BY <1>1, <1>0, ElementOfSeq DEF Paths
  <2>3. /\ SubSeq(q, 1, Len(p)) \in Seq(E)
        /\ Len(SubSeq(q, 1, Len(p))) = Len(p)
        /\ \A i \in 1 .. Len(p) : SubSeq(q, 1, Len(p))[i] = q[i]
    BY <2>2, <1>0, SubSeqProperties DEF Paths
  <2> QED
    BY <2>1, <2>3, <1>1, SeqEqual DEF IsPrefix, Paths
<1>2. CASE ~ (Len(p) <= Len(q))
  BY <1>2 DEF IsPrefix
<1> QED
  BY <1>1, <1>2

LEMMA PrefixOrder ==
  ASSUME NEW p \in Paths, NEW q \in Paths, NEW r \in Paths
  PROVE  /\ IsPrefix(p, p)
         /\ IsPrefix(p, q) /\ IsPrefix(q, p) => p = q
         /\ IsPrefix(p, q) /\ IsPrefix(q, r) => IsPrefix(p, r)
         /\ IsPrefix(p, r) /\ IsPrefix(q, r) => IsPrefix(p, q) \/ IsPrefix(q, p)
<1>0. Len(p) \in Nat /\ Len(q) \in Nat /\ Len(r) \in Nat
  BY DEF Paths
<1>1. IsPrefix(p, p)
  BY PrefixPoint, <1>0
<1>2. ASSUME IsPrefix(p, q), IsPrefix(q, p) PROVE p = q
  <2>1. Len(p) = Len(q) /\ \A i \in 1 .. Len(p) : p[i] = q[i]
    BY <1>2, <1>0, PrefixPoint
  <2> QED
    BY <2>1, SeqEqual DEF Paths
<1>3. ASSUME IsPrefix(p, q), IsPrefix(q, r) PROVE IsPrefix(p, r)
  BY <1>3, <1>0, PrefixPoint
<1>4. ASSUME IsPrefix(p, r), IsPrefix(q, r) PROVE IsPrefix(p, q) \/ IsPrefix(q, p)
  BY <1>4, <1>0, PrefixPoint
<1> QED
  BY <1>1, <1>2, <1>3, <1>4

(***************************************************************************)
(* A target is a path with an element of an array in at most one place.    *)
(***************************************************************************)
GoodKey(key) == key \in Key /\ (IsIndexed(key) => key.index \in DOMAIN Number)

LEMMA ElementPath ==
  ASSUME NEW key, GoodKey(key), IsIndexed(key)
  PROVE  /\ ElementOf(key) \in Paths
         /\ Len(ElementOf(key)) = Len(key.name) + 1
         /\ \A i \in 1 .. Len(ElementOf(key)) :
              ElementOf(key)[i] \in Elements <=> i = Len(key.name) + 1
<1> DEFINE e == Element[Number[key.index]]
<1>1. e \in Elements
  BY ElementsAssumption DEF GoodKey, Elements
<1>2. key.name \in Seq(Keys) /\ key.name \in Paths
  BY SeqMonotonic DEF GoodKey, Key, Paths
<1>3. Len(key.name) \in Nat /\ \A i \in 1 .. Len(key.name) : key.name[i] \in Keys
  BY <1>2, ElementOfSeq
<1> HIDE DEF e
<1>4. /\ Append(key.name, e) \in Paths
      /\ Len(Append(key.name, e)) = Len(key.name) + 1
      /\ \A i \in 1 .. Len(key.name) : Append(key.name, e)[i] = key.name[i]
      /\ Append(key.name, e)[Len(key.name) + 1] = e
  BY <1>1, <1>2, AppendProperties DEF Paths
<1>5. \A i \in 1 .. Len(key.name) : Append(key.name, e)[i] \notin Elements
  BY <1>3, <1>4, ElementsAssumption
<1>6. ElementOf(key) = Append(key.name, e)
  BY DEF ElementOf, e
<1> HIDE DEF ElementOf
<1> QED
  BY <1>1, <1>3, <1>4, <1>5, <1>6

LEMMA TargetPath ==
  ASSUME NEW key, GoodKey(key)
  PROVE  /\ Target(key) \in Paths
         /\ IsIndexed(key) => IsStrictPrefix(ElementOf(key), Target(key))
         /\ \A i \in 1 .. Len(Target(key)) :
              Target(key)[i] \in Elements <=> IsIndexed(key) /\ i = Len(key.name) + 1
<1>1. CASE ~ IsIndexed(key)
  <2>1. Target(key) = key.name /\ key.name \in Seq(Keys)
    BY <1>1 DEF Target, GoodKey, Key
  <2>2. Target(key) \in Paths
    BY <2>1, SeqMonotonic DEF Paths
  <2>3. \A i \in 1 .. Len(Target(key)) : Target(key)[i] \notin Elements
    BY <2>1, ElementOfSeq, ElementsAssumption
  <2> QED
    BY <1>1, <2>2, <2>3
<1>2. CASE IsIndexed(key)
  <2> DEFINE e == ElementOf(key)
             t == e \o key.property
  <2>1. Target(key) = t
    BY <1>2 DEF Target
  <2>2. /\ e \in Paths /\ Len(e) = Len(key.name) + 1
        /\ \A i \in 1 .. Len(e) : e[i] \in Elements <=> i = Len(key.name) + 1
    BY <1>2, ElementPath
  <2>3. key.property \in Seq(Keys) /\ key.property # << >> /\ key.name \in Seq(Keys)
    BY <1>2 DEF GoodKey, Key
  <2>4. key.property \in Paths
    BY <2>3, SeqMonotonic DEF Paths
  <2>5. Len(key.property) \in Nat /\ Len(key.property) > 0 /\ Len(key.name) \in Nat
    BY <2>3, EmptySeq, LenProperties
  <2> HIDE DEF e
  <2>6. /\ t \in Paths
        /\ Len(t) = Len(e) + Len(key.property)
        /\ \A i \in 1 .. Len(e) + Len(key.property) :
             t[i] = IF i <= Len(e) THEN e[i] ELSE key.property[i - Len(e)]
    BY <2>2, <2>4, ConcatProperties DEF Paths
  <2> HIDE DEF t
  <2>7. \A i \in 1 .. Len(key.property) : key.property[i] \notin Elements
    BY <2>3, ElementOfSeq, ElementsAssumption
  <2>a. Len(e) \in Nat /\ Len(t) \in Nat /\ Len(e) < Len(t)
    <3>1. Len(e) = Len(key.name) + 1 /\ Len(t) = Len(e) + Len(key.property)
      BY <2>2, <2>6
    <3>2. Len(e) \in Nat
      BY <3>1, <2>5
    <3> DEFINE x == Len(e)
               y == Len(key.property)
               z == Len(t)
    <3>3. x \in Nat /\ y \in Nat /\ y > 0 /\ z = x + y
      BY <3>1, <3>2, <2>5
    <3> HIDE DEF x, y, z
    <3>4. z \in Nat /\ x < z
      BY <3>3
    <3> QED
      BY <3>2, <3>4 DEF x, z
  <2>b. \A i \in 1 .. Len(e) : t[i] = e[i]
    BY <2>5, <2>6, <2>a
  <2>c. \A i \in 1 .. Len(t) : i > Len(e) =>
          i - Len(e) \in 1 .. Len(key.property) /\ t[i] = key.property[i - Len(e)]
    BY <2>5, <2>6, <2>a
  <2>8. IsPrefix(e, t) /\ e # t
    <3>1. Len(e) <= Len(t) /\ \A i \in 1 .. Len(e) : e[i] = t[i]
      BY <2>a, <2>b
    <3>2. IsPrefix(e, t)
      BY <3>1, <2>2, <2>6, PrefixPoint
    <3> QED
      BY <3>2, <2>a
  <2>9. \A i \in 1 .. Len(t) : t[i] \in Elements <=> i = Len(key.name) + 1
    <3> SUFFICES ASSUME NEW i \in 1 .. Len(t)
                 PROVE  t[i] \in Elements <=> i = Len(key.name) + 1
      OBVIOUS
    <3>1. CASE i \in 1 .. Len(e)
      BY <3>1, <2>2, <2>b
    <3>2. CASE i > Len(e)
      <4>1. t[i] \notin Elements
        BY <3>2, <2>c, <2>7
      <4>2. i # Len(key.name) + 1
        BY <3>2, <2>2, <2>5, <2>a
      <4> QED
        BY <4>1, <4>2
    <3> QED
      BY <3>1, <3>2, <2>a
  <2> QED
    BY <1>2, <2>1, <2>6, <2>8, <2>9 DEF IsStrictPrefix, e
<1> QED
  BY <1>1, <1>2

(***************************************************************************)
(* q makes an array of a place where p has a key.                          *)
(***************************************************************************)
Diverts(q, p) ==
  \E n \in 1 .. Len(p) - 1 :
    /\ p[n + 1] \notin Elements
    /\ IsStrictPrefix(SubSeq(p, 1, n), q) /\ q[n + 1] \in Elements

LEMMA SubPath ==
  ASSUME NEW p \in Paths, NEW n \in 1 .. Len(p) - 1
  PROVE  /\ SubSeq(p, 1, n) \in Paths /\ Len(SubSeq(p, 1, n)) = n
         /\ \A i \in 1 .. n : SubSeq(p, 1, n)[i] = p[i]
         /\ IsStrictPrefix(SubSeq(p, 1, n), p)
<1>0. Len(p) \in Nat /\ n \in Nat /\ 1 <= n /\ n < Len(p)
  BY DEF Paths
<1>1. \A i \in 1 .. n : p[i] \in Keys \union Elements
  BY <1>0, ElementOfSeq DEF Paths
<1>2. /\ SubSeq(p, 1, n) \in Paths /\ Len(SubSeq(p, 1, n)) = n
      /\ \A i \in 1 .. n : SubSeq(p, 1, n)[i] = p[i]
  BY <1>0, <1>1, SubSeqProperties DEF Paths
<1>3. IsPrefix(SubSeq(p, 1, n), p) /\ SubSeq(p, 1, n) # p
  <2> DEFINE a == SubSeq(p, 1, n)
  <2> HIDE DEF a
  <2>1. a \in Paths /\ Len(a) = n /\ \A i \in 1 .. n : a[i] = p[i]
    BY <1>2 DEF a
  <2>2. IsPrefix(a, p)
    BY <2>1, <1>0, PrefixPoint
  <2>3. a # p
    BY <2>1, <1>0
  <2> QED
    BY <2>2, <2>3 DEF a
<1> QED
  BY <1>2, <1>3 DEF IsStrictPrefix

LEMMA CollidesAlt ==
  ASSUME NEW d, NEW p \in Paths
  PROVE  Collides(d, p) <=> \E q \in DOMAIN d : IsStrictPrefix(q, p) \/ Diverts(q, p)
<1>1. \A n \in 1 .. Len(p) - 1 : Len(SubSeq(p, 1, n)) = n
  BY SubPath
<1> QED
  BY <1>1 DEF Collides, IsArray, Diverts

LEMMA DivertsUp ==
  ASSUME NEW q \in Paths, NEW t \in Paths, NEW p \in Paths, Diverts(q, p), IsPrefix(t, q)
  PROVE  IsStrictPrefix(t, p) \/ Diverts(t, p)
<1>1. PICK n \in 1 .. Len(p) - 1 :
        /\ p[n + 1] \notin Elements
        /\ IsStrictPrefix(SubSeq(p, 1, n), q) /\ q[n + 1] \in Elements
  BY DEF Diverts
<1> DEFINE a == SubSeq(p, 1, n)
<1>2. a \in Paths /\ Len(a) = n /\ IsStrictPrefix(a, p) /\ IsPrefix(a, q)
  BY <1>1, SubPath DEF IsStrictPrefix
<1>3. IsPrefix(t, a) \/ IsPrefix(a, t)
  BY <1>2, PrefixOrder
<1>4. CASE IsPrefix(t, a)
  <2>1. IsPrefix(t, p) /\ (t = p => IsPrefix(p, a))
    BY <1>2, <1>4, PrefixOrder DEF IsStrictPrefix
  <2>2. t # p
    BY <2>1, <1>2, PrefixOrder DEF IsStrictPrefix
  <2> QED
    BY <2>1, <2>2 DEF IsStrictPrefix
<1>5. CASE IsPrefix(a, t) /\ a # t
  <2>0. Len(t) \in Nat /\ Len(a) \in Nat /\ n \in Nat
    BY <1>2 DEF Paths
  <2>1. Len(t) > n
    <3>1. Len(a) <= Len(t) /\ \A i \in 1 .. Len(a) : a[i] = t[i]
      BY <1>2, <1>5, PrefixPoint
    <3>2. Len(a) # Len(t)
      BY <3>1, <1>2, <1>5, SeqEqual DEF Paths
    <3> QED
      BY <3>1, <3>2, <1>2, <2>0
  <2>2. t[n + 1] = q[n + 1]
    BY <2>0, <2>1, PrefixPoint
  <2> QED
    BY <2>2, <1>1, <1>5 DEF Diverts, IsStrictPrefix
<1> QED
  BY <1>3, <1>4, <1>5

LEMMA DivertsDown ==
  ASSUME NEW q \in Paths, NEW r \in Paths, NEW p \in Paths, Diverts(q, p), IsPrefix(q, r)
  PROVE  Diverts(r, p)
<1>1. PICK n \in 1 .. Len(p) - 1 :
        /\ p[n + 1] \notin Elements
        /\ IsStrictPrefix(SubSeq(p, 1, n), q) /\ q[n + 1] \in Elements
  BY DEF Diverts
<1> DEFINE a == SubSeq(p, 1, n)
<1>2. a \in Paths /\ Len(a) = n
  BY SubPath
<1>3. IsPrefix(a, r) /\ a # r
  BY <1>1, <1>2, PrefixOrder DEF IsStrictPrefix
<1>4. Len(q) > n
  <2>0. Len(q) \in Nat /\ Len(a) \in Nat /\ n \in Nat
    BY <1>2 DEF Paths
  <2>1. Len(a) <= Len(q) /\ \A i \in 1 .. Len(a) : a[i] = q[i]
    BY <1>1, <1>2, PrefixPoint DEF IsStrictPrefix
  <2>2. Len(a) # Len(q)
    BY <1>1, <2>1, <1>2, SeqEqual DEF Paths, IsStrictPrefix
  <2> QED
    BY <2>0, <2>1, <2>2, <1>2
<1>5. r[n + 1] = q[n + 1]
  <2>1. \A i \in 1 .. Len(q) : q[i] = r[i]
    BY PrefixPoint
  <2>2. Len(q) \in Nat /\ n \in Nat
    BY <1>2 DEF Paths
  <2>3. n + 1 \in 1 .. Len(q)
    BY <2>2, <1>4
  <2> QED
    BY <2>1, <2>3
<1> QED
  BY <1>1, <1>3, <1>5 DEF Diverts, IsStrictPrefix

LEMMA SettableAlt ==
  ASSUME NEW d, NEW key, GoodKey(key)
  PROVE  Settable(d, key) <=>
           /\ IsIndexed(key) => HasElement(d, key)
           /\ \A q \in DOMAIN d :
                ~ IsStrictPrefix(q, Target(key)) /\ ~ Diverts(q, Target(key))
BY TargetPath, CollidesAlt DEF Settable

\* Of the places of two pairs in one array, either both are in its element or none.
LEMMA ElementShared ==
  ASSUME NEW k, GoodKey(k), NEW j, GoodKey(j), IsIndexed(k),
         IsPrefix(ElementOf(k), Target(j))
  PROVE  IsIndexed(j) /\ ElementOf(j) = ElementOf(k)
<1> DEFINE e == ElementOf(k)
           f == ElementOf(j)
           t == Target(j)
           n == Len(k.name) + 1
<1>1. /\ e \in Paths /\ Len(e) = n
      /\ \A i \in 1 .. Len(e) : e[i] \in Elements <=> i = n
  BY ElementPath
<1>2. n \in Nat /\ n > 0
  BY <1>1 DEF GoodKey, Key
<1>3. t \in Paths /\ \A i \in 1 .. Len(t) : t[i] \in Elements <=> IsIndexed(j) /\ i = Len(j.name) + 1
  BY TargetPath
<1> HIDE DEF e, t, n
<1>4. n <= Len(t) /\ t[n] = e[n] /\ Len(t) \in Nat
  <2>1. Len(e) <= Len(t) /\ \A i \in 1 .. Len(e) : e[i] = t[i]
    BY <1>1, <1>3, PrefixPoint DEF e, t
  <2> QED
    BY <2>1, <1>1, <1>2, <1>3 DEF Paths
<1>5. IsIndexed(j) /\ n = Len(j.name) + 1
  BY <1>1, <1>2, <1>3, <1>4
<1>6. f \in Paths /\ Len(f) = n /\ IsPrefix(f, t)
  BY <1>5, ElementPath, TargetPath DEF IsStrictPrefix, t
<1> HIDE DEF f
<1>7. \A i \in 1 .. n : f[i] = t[i] /\ e[i] = t[i]
  <2>1. \A i \in 1 .. Len(f) : f[i] = t[i]
    BY <1>3, <1>6, PrefixPoint
  <2>2. \A i \in 1 .. Len(e) : e[i] = t[i]
    BY <1>1, <1>3, PrefixPoint DEF e, t
  <2> QED
    BY <2>1, <2>2, <1>1, <1>6
<1>8. e = f
  BY <1>1, <1>6, <1>7, SeqEqual DEF Paths
<1> QED
  BY <1>5, <1>8 DEF e, f

LEMMA DivertsElement ==
  ASSUME NEW k, GoodKey(k), NEW p \in Paths, Diverts(Target(k), p)
  PROVE  IsIndexed(k) /\ Diverts(ElementOf(k), p)
<1> DEFINE t == Target(k)
           e == ElementOf(k)
<1>1. PICK n \in 1 .. Len(p) - 1 :
        /\ p[n + 1] \notin Elements
        /\ IsStrictPrefix(SubSeq(p, 1, n), t) /\ t[n + 1] \in Elements
  BY DEF Diverts
<1> DEFINE a == SubSeq(p, 1, n)
<1>2. a \in Paths /\ Len(a) = n /\ n \in Nat
  BY SubPath
<1>3. t \in Paths /\ \A i \in 1 .. Len(t) : t[i] \in Elements <=> IsIndexed(k) /\ i = Len(k.name) + 1
  BY TargetPath
<1>4. IsPrefix(a, t) /\ a # t
  BY <1>1 DEF IsStrictPrefix
<1> HIDE DEF a, t
<1>5. n + 1 \in 1 .. Len(t)
  <2>0. Len(t) \in Nat
    BY <1>3 DEF Paths
  <2>1. Len(a) <= Len(t) /\ \A i \in 1 .. Len(a) : a[i] = t[i]
    BY <1>2, <1>3, <1>4, PrefixPoint
  <2>2. Len(a) # Len(t)
    BY <1>2, <1>3, <1>4, <2>1, SeqEqual DEF Paths
  <2> QED
    BY <2>0, <2>1, <2>2, <1>2
<1>6. IsIndexed(k) /\ n = Len(k.name)
  <2>1. IsIndexed(k) /\ n + 1 = Len(k.name) + 1
    BY <1>1, <1>3, <1>5 DEF t
  <2>2. Len(k.name) \in Nat
    BY DEF GoodKey, Key
  <2> QED
    BY <2>1, <2>2, <1>2
<1>7. /\ e \in Paths /\ Len(e) = n + 1 /\ e[n + 1] \in Elements /\ IsPrefix(e, t)
  BY <1>2, <1>6, ElementPath, TargetPath DEF IsStrictPrefix, t
<1> HIDE DEF e
<1>8. IsPrefix(a, e)
  <2>1. IsPrefix(a, e) \/ IsPrefix(e, a)
    BY <1>2, <1>3, <1>4, <1>7, PrefixOrder
  <2>2. ~ IsPrefix(e, a)
    BY <1>2, <1>7, PrefixPoint
  <2> QED
    BY <2>1, <2>2
<1>9. a # e
  BY <1>2, <1>7
<1> QED
  BY <1>1, <1>6, <1>7, <1>8, <1>9 DEF Diverts, IsStrictPrefix, a, e

(***************************************************************************)
(* Merged describes what a step of the loop makes of the document.         *)
(***************************************************************************)
Sane ==
  /\ DOMAIN file \subseteq Paths
  /\ file = [q \in DOMAIN file |-> file[q]]
  /\ \A key \in DOMAIN values : GoodKey(key)

KeptOf(keys) == {q \in DOMAIN file : \A key \in Effective(keys) : ~ IsPrefix(Target(key), q)}

WrittenOf(keys) == {Target(key) : key \in Outermost(keys)}

LEMMA OutermostAbove ==
  ASSUME Sane, NEW keys \in SUBSET DOMAIN values, NEW e \in Effective(keys)
  PROVE  \E o \in Outermost(keys) : IsPrefix(Target(o), Target(e))
<1> DEFINE C == {k \in Effective(keys) : IsPrefix(Target(k), Target(e))}
           T == {Len(Target(k)) : k \in C}
<1>1. \A k \in Effective(keys) : Target(k) \in Paths /\ Len(Target(k)) \in Nat
  <2>1. \A k \in Effective(keys) : Target(k) \in Paths
    BY TargetPath DEF Sane, Effective
  <2> QED
    BY <2>1 DEF Paths
<1>2. e \in C
  BY <1>1, PrefixOrder
<1>3. T \in SUBSET Nat /\ T # {}
  BY <1>1, <1>2
<1>4. PICK x \in T : \A y \in T : x <= y
  <2> HIDE DEF T
  <2> QED
    BY <1>3, Smallest
<1>5. PICK o \in C : \A k \in C : Len(Target(o)) <= Len(Target(k))
  BY <1>4
<1>6. ASSUME NEW other \in Effective(keys), IsStrictPrefix(Target(other), Target(o))
      PROVE  FALSE
  <2>1. /\ Target(other) \in Paths /\ Target(o) \in Paths /\ Target(e) \in Paths
        /\ Len(Target(other)) \in Nat /\ Len(Target(o)) \in Nat
    BY <1>1
  <2>2. IsPrefix(Target(other), Target(o)) /\ Target(other) # Target(o)
    BY <1>6 DEF IsStrictPrefix
  <2>3. IsPrefix(Target(other), Target(e))
    BY <2>1, <2>2, PrefixOrder
  <2>4. Len(Target(o)) <= Len(Target(other))
    BY <2>3, <1>5
  <2>5. Len(Target(other)) <= Len(Target(o))
    BY <2>1, <2>2, PrefixPoint
  <2>6. Len(Target(other)) = Len(Target(o))
    BY <2>1, <2>4, <2>5
  <2>7. \A i \in 1 .. Len(Target(other)) : Target(other)[i] = Target(o)[i]
    BY <2>1, <2>2, PrefixPoint
  <2> QED
    BY <2>1, <2>2, <2>6, <2>7, SeqEqual DEF Paths
<1> QED
  BY <1>5, <1>6 DEF Outermost

LEMMA MergedShape ==
  ASSUME Sane, NEW keys \in SUBSET DOMAIN values
  PROVE  /\ DOMAIN Merged(keys) = KeptOf(keys) \union WrittenOf(keys)
         /\ DOMAIN Merged(keys) \subseteq Paths
         /\ \A key \in Effective(keys) : GoodKey(key) /\ Target(key) \in Paths
         /\ \A key \in Outermost(keys) : key \in Effective(keys) /\ Target(key) \in DOMAIN Merged(keys)
<1>1. \A key \in Effective(keys) : GoodKey(key) /\ Target(key) \in Paths
  BY TargetPath DEF Sane, Effective
<1>2. DOMAIN Merged(keys) = KeptOf(keys) \union WrittenOf(keys)
  BY DEF Merged, KeptOf, WrittenOf
<1>3. Outermost(keys) \subseteq Effective(keys)
  BY DEF Outermost
<1> QED
  BY <1>1, <1>2, <1>3 DEF Sane, KeptOf, WrittenOf

\* What the file has stays, or is below what was written.
LEMMA Covered ==
  ASSUME Sane, NEW keys \in SUBSET DOMAIN values, NEW q \in DOMAIN file
  PROVE  q \in DOMAIN Merged(keys) \/ \E o \in Outermost(keys) : IsPrefix(Target(o), q)
<1>1. CASE q \in KeptOf(keys)
  BY <1>1, MergedShape
<1>2. ASSUME NEW e \in Effective(keys), IsPrefix(Target(e), q)
      PROVE  \E o \in Outermost(keys) : IsPrefix(Target(o), q)
  <2>1. PICK o \in Outermost(keys) : IsPrefix(Target(o), Target(e))
    BY OutermostAbove
  <2>2. Target(o) \in Paths /\ Target(e) \in Paths /\ q \in Paths
    BY MergedShape DEF Sane
  <2> QED
    BY <1>2, <2>1, <2>2, PrefixOrder
<1> QED
  BY <1>1, <1>2 DEF KeptOf

\* A pair without a place in the file finds none in the merged document.
LEMMA StaysUnsettable ==
  ASSUME Sane, NEW keys \in SUBSET DOMAIN values, NEW key \in DOMAIN values,
         ~ Settable(file, key)
  PROVE  ~ Settable(Merged(keys), key)
<1> DEFINE doc1 == Merged(keys)
           p == Target(key)
<1>1. GoodKey(key) /\ p \in Paths
  BY TargetPath DEF Sane
<1>2. /\ DOMAIN doc1 = KeptOf(keys) \union WrittenOf(keys)
      /\ DOMAIN doc1 \subseteq Paths /\ DOMAIN file \subseteq Paths
      /\ \A o \in Outermost(keys) :
           /\ o \in Effective(keys) /\ GoodKey(o)
           /\ Target(o) \in Paths /\ Target(o) \in DOMAIN doc1
  BY MergedShape DEF Sane
<1>3. \A q \in DOMAIN file :
        q \in DOMAIN doc1 \/ \E o \in Outermost(keys) : IsPrefix(Target(o), q)
  BY Covered
<1> HIDE DEF doc1
<1>4. CASE IsIndexed(key) /\ ~ HasElement(file, key)
  <2> SUFFICES ASSUME HasElement(doc1, key) PROVE FALSE
    BY <1>1, <1>4, SettableAlt DEF doc1
  <2>1. PICK q \in DOMAIN doc1 : IsPrefix(ElementOf(key), q)
    BY DEF HasElement
  <2>2. q \notin KeptOf(keys)
    BY <1>4, <2>1 DEF HasElement, KeptOf
  <2>3. PICK o \in Outermost(keys) : q = Target(o)
    BY <1>2, <2>2 DEF WrittenOf
  <2>4. IsIndexed(o) /\ ElementOf(o) = ElementOf(key)
    BY <1>1, <1>2, <1>4, <2>1, <2>3, ElementShared
  <2>5. HasElement(file, o)
    BY <1>2, <2>4 DEF Effective, Settable
  <2> QED
    BY <1>4, <2>4, <2>5 DEF HasElement
<1>5. ASSUME NEW q \in DOMAIN file, IsStrictPrefix(q, p) \/ Diverts(q, p)
      PROVE  \E r \in DOMAIN doc1 : IsStrictPrefix(r, p) \/ Diverts(r, p)
  <2>1. CASE q \in DOMAIN doc1
    BY <1>5, <2>1
  <2>2. ASSUME NEW o \in Outermost(keys), IsPrefix(Target(o), q)
        PROVE  IsStrictPrefix(Target(o), p) \/ Diverts(Target(o), p)
    <3>0. q \in Paths /\ Target(o) \in Paths
      BY <1>2
    <3>1. CASE IsStrictPrefix(q, p)
      <4>1. IsPrefix(q, p) /\ q # p
        BY <3>1 DEF IsStrictPrefix
      <4>2. IsPrefix(Target(o), p)
        BY <1>1, <2>2, <3>0, <4>1, PrefixOrder
      <4>3. Target(o) # p
        BY <1>1, <2>2, <3>0, <4>1, PrefixOrder
      <4> QED
        BY <4>2, <4>3 DEF IsStrictPrefix
    <3>2. CASE Diverts(q, p)
      BY <1>1, <2>2, <3>0, <3>2, DivertsUp
    <3> QED
      BY <1>5, <3>1, <3>2
  <2> QED
    BY <1>2, <1>3, <2>1, <2>2
<1> HIDE DEF p
<1>6. Settable(doc1, key) =>
        /\ IsIndexed(key) => HasElement(file, key)
        /\ \A q \in DOMAIN file : ~ (IsStrictPrefix(q, p) \/ Diverts(q, p))
  <2>1. Settable(doc1, key) => \A r \in DOMAIN doc1 : ~ (IsStrictPrefix(r, p) \/ Diverts(r, p))
    BY <1>1, SettableAlt DEF p
  <2>2. Settable(doc1, key) /\ IsIndexed(key) => HasElement(file, key)
    BY <1>4 DEF doc1
  <2> QED
    BY <1>5, <2>1, <2>2
<1> QED
  BY <1>1, <1>6, SettableAlt DEF p, doc1

\* A pair with a place finds it while nothing above it is written, and no longer.
LEMMA StaysSettable ==
  ASSUME Sane, NEW keys \in SUBSET DOMAIN values, NEW key \in DOMAIN values,
         Settable(file, key)
  PROVE  Settable(Merged(keys), key) <=>
           \A e \in Effective(keys) : ~ IsStrictPrefix(Target(e), Target(key))
<1> DEFINE doc1 == Merged(keys)
           p == Target(key)
<1>1. GoodKey(key) /\ p \in Paths
  BY TargetPath DEF Sane
<1>2. /\ DOMAIN doc1 = KeptOf(keys) \union WrittenOf(keys)
      /\ DOMAIN doc1 \subseteq Paths /\ DOMAIN file \subseteq Paths
      /\ \A e \in Effective(keys) : GoodKey(e) /\ Target(e) \in Paths
      /\ \A o \in Outermost(keys) :
           /\ o \in Effective(keys) /\ GoodKey(o)
           /\ Target(o) \in Paths /\ Target(o) \in DOMAIN doc1
  BY MergedShape DEF Sane
<1>3. \A q \in DOMAIN file :
        q \in DOMAIN doc1 \/ \E o \in Outermost(keys) : IsPrefix(Target(o), q)
  BY Covered
<1>4. ASSUME NEW e \in Effective(keys), IsStrictPrefix(Target(e), p)
      PROVE  ~ Settable(doc1, key)
  <2>1. PICK o \in Outermost(keys) : IsPrefix(Target(o), Target(e))
    BY OutermostAbove
  <2>2. IsPrefix(Target(e), p) /\ Target(e) # p
    BY <1>4 DEF IsStrictPrefix
  <2>3. Target(o) \in Paths /\ Target(e) \in Paths
    BY <1>2
  <2>4. IsPrefix(Target(o), p) /\ Target(o) # p
    BY <1>1, <2>1, <2>2, <2>3, PrefixOrder
  <2>5. Target(o) \in DOMAIN doc1 /\ IsStrictPrefix(Target(o), p)
    BY <1>2, <2>4 DEF IsStrictPrefix
  <2> HIDE DEF doc1
  <2> QED
    BY <1>1, <2>5, SettableAlt
<1>5. ASSUME \A e \in Effective(keys) : ~ IsStrictPrefix(Target(e), p)
      PROVE  Settable(doc1, key)
  <2>0. /\ IsIndexed(key) => HasElement(file, key)
        /\ \A q \in DOMAIN file : ~ IsStrictPrefix(q, p) /\ ~ Diverts(q, p)
    BY <1>1, SettableAlt
  <2> HIDE DEF doc1
  <2>1. ASSUME IsIndexed(key) PROVE HasElement(doc1, key)
    <3> DEFINE e == ElementOf(key)
    <3>1. e \in Paths /\ IsStrictPrefix(e, p)
      BY <1>1, <2>1, ElementPath, TargetPath
    <3>2. PICK q \in DOMAIN file : IsPrefix(e, q)
      BY <2>0, <2>1 DEF HasElement
    <3>3. CASE q \in DOMAIN doc1
      BY <3>2, <3>3 DEF HasElement
    <3>4. ASSUME NEW o \in Outermost(keys), IsPrefix(Target(o), q)
          PROVE  HasElement(doc1, key)
      <4> HIDE DEF e, p
      <4>1. q \in Paths /\ Target(o) \in Paths
        BY <1>2
      <4>2. IsPrefix(e, Target(o)) \/ IsPrefix(Target(o), e)
        BY <3>1, <3>2, <3>4, <4>1, PrefixOrder
      <4>3. ~ IsPrefix(Target(o), e)
        <5> SUFFICES ASSUME IsPrefix(Target(o), e) PROVE FALSE
          OBVIOUS
        <5>1. IsPrefix(e, p) /\ e # p
          BY <3>1 DEF IsStrictPrefix
        <5>2. IsPrefix(Target(o), p) /\ Target(o) # p
          BY <1>1, <3>1, <4>1, <5>1, PrefixOrder
        <5> QED
          BY <1>2, <1>5, <5>2 DEF IsStrictPrefix
      <4> QED
        BY <1>2, <4>2, <4>3 DEF HasElement, e
    <3> QED
      BY <1>3, <3>3, <3>4
  <2>2. ASSUME NEW q \in DOMAIN doc1 PROVE ~ IsStrictPrefix(q, p) /\ ~ Diverts(q, p)
    <3>1. CASE q \in KeptOf(keys)
      BY <2>0, <3>1 DEF KeptOf
    <3>2. ASSUME NEW o \in Outermost(keys), q = Target(o)
          PROVE  ~ IsStrictPrefix(q, p) /\ ~ Diverts(q, p)
      <4>1. ~ IsStrictPrefix(q, p)
        BY <1>2, <1>5, <3>2
      <4>2. ~ Diverts(q, p)
        <5> SUFFICES ASSUME Diverts(Target(o), p) PROVE FALSE
          BY <3>2
        <5>1. IsIndexed(o) /\ Diverts(ElementOf(o), p) /\ ElementOf(o) \in Paths
          BY <1>1, <1>2, DivertsElement, ElementPath
        <5>2. PICK r \in DOMAIN file : IsPrefix(ElementOf(o), r)
          BY <1>2, <5>1 DEF Effective, Settable, HasElement
        <5> QED
          BY <1>1, <1>2, <2>0, <5>1, <5>2, DivertsDown
      <4> QED
        BY <4>1, <4>2
    <3> QED
      BY <1>2, <3>1, <3>2 DEF WrittenOf
  <2> QED
    BY <1>1, <2>1, <2>2, SettableAlt
<1> QED
  BY <1>4, <1>5

LEMMA MergedSame ==
  ASSUME NEW ks, NEW ls, KeptOf(ks) = KeptOf(ls), Outermost(ks) = Outermost(ls)
  PROVE  Merged(ks) = Merged(ls)
<1> DEFINE out(o, kept) ==
             [q \in kept \union {Target(key) : key \in o} |->
                IF q \in {Target(key) : key \in o}
                  THEN values[CHOOSE key \in o : Target(key) = q] ELSE file[q]]
<1>1. Merged(ks) = out(Outermost(ks), KeptOf(ks))
  BY DEF Merged, KeptOf
<1>2. Merged(ls) = out(Outermost(ls), KeptOf(ls))
  BY DEF Merged, KeptOf
<1> HIDE DEF out
<1> QED
  BY <1>1, <1>2

\* One step of the loop adds its key to those that Merged is about.
LEMMA MergeStep ==
  ASSUME Sane, Unaliased(DOMAIN values),
         NEW keys \in SUBSET DOMAIN values, NEW key \in DOMAIN values, key \notin keys
  PROVE  (IF Settable(Merged(keys), key) THEN SetP(Merged(keys), Target(key), values[key])
                                         ELSE Merged(keys))
           = Merged(keys \union {key})
<1> DEFINE more == keys \union {key}
           p == Target(key)
           val(ks, q) == values[CHOOSE k \in Outermost(ks) : Target(k) = q]
<1>1. \A ks : Merged(ks) = [q \in KeptOf(ks) \union WrittenOf(ks) |->
                              IF q \in WrittenOf(ks) THEN val(ks, q) ELSE file[q]]
  BY DEF Merged, KeptOf, WrittenOf
<1>2. more \in SUBSET DOMAIN values
  OBVIOUS
<1>3. CASE ~ Settable(file, key)
  <2>1. Effective(more) = Effective(keys)
    BY <1>3 DEF Effective
  <2>2. Outermost(more) = Outermost(keys)
    BY <2>1 DEF Outermost
  <2>3. Merged(more) = Merged(keys)
    BY <2>1, <2>2, MergedSame DEF KeptOf
  <2>4. ~ Settable(Merged(keys), key)
    BY <1>3, StaysUnsettable
  <2> QED
    BY <2>3, <2>4
<1>4. CASE Settable(file, key)
  <2>1. Effective(more) = Effective(keys) \union {key}
    BY <1>4 DEF Effective
  <2>2. \A e \in Effective(more) : Target(e) \in Paths
    BY <1>2, MergedShape
  <2>3. p \in Paths
    BY <2>1, <2>2
  <2>4. ASSUME NEW e \in Effective(keys), IsStrictPrefix(Target(e), p)
        PROVE  Merged(keys) = Merged(more) /\ ~ Settable(Merged(keys), key)
    <3>0. Target(e) \in Paths /\ IsPrefix(Target(e), p) /\ Target(e) # p
      BY <2>1, <2>2, <2>4 DEF IsStrictPrefix
    <3>1. \A q \in Paths : IsPrefix(p, q) => IsPrefix(Target(e), q)
      BY <2>3, <3>0, PrefixOrder
    <3>2. KeptOf(more) = KeptOf(keys)
      BY <2>1, <2>4, <3>1 DEF KeptOf, Sane
    <3>3. \A o \in Effective(keys) :
            IsStrictPrefix(p, Target(o)) => IsStrictPrefix(Target(e), Target(o))
      <4> SUFFICES ASSUME NEW o \in Effective(keys), IsPrefix(p, Target(o)), p # Target(o)
                   PROVE  IsPrefix(Target(e), Target(o)) /\ Target(e) # Target(o)
        BY DEF IsStrictPrefix
      <4>1. Target(o) \in Paths
        BY <2>1, <2>2
      <4> QED
        BY <2>3, <3>0, <4>1, PrefixOrder
    <3>4. Outermost(more) = Outermost(keys)
      <4> HIDE DEF p
      <4>1. key \notin Outermost(more)
        BY <2>1, <2>4 DEF Outermost, p
      <4>2. \A o \in Effective(keys) : o \in Outermost(more) <=> o \in Outermost(keys)
        BY <2>1, <2>4, <3>3 DEF Outermost, p
      <4>3. Outermost(more) \subseteq Effective(more) /\ Outermost(keys) \subseteq Effective(keys)
        BY DEF Outermost
      <4> QED
        BY <2>1, <4>1, <4>2, <4>3
    <3>5. Merged(keys) = Merged(more)
      BY <3>2, <3>4, MergedSame
    <3> QED
      BY <1>4, <2>4, <3>5, StaysSettable
  <2>5. ASSUME \A e \in Effective(keys) : ~ IsStrictPrefix(Target(e), p)
        PROVE  /\ SetP(Merged(keys), p, values[key]) = Merged(more)
               /\ Settable(Merged(keys), key)
    <3>1. Settable(Merged(keys), key)
      BY <1>4, <2>5, StaysSettable
    <3>2. ~ IsStrictPrefix(p, p)
      BY DEF IsStrictPrefix
    <3>3. Outermost(more) =
            {key} \union {o \in Outermost(keys) : ~ IsStrictPrefix(p, Target(o))}
      BY <2>1, <2>5, <3>2 DEF Outermost
    <3>4. \A o \in Outermost(keys) : Target(o) # p /\ o \in DOMAIN values
      <4>1. Outermost(keys) \subseteq keys
        BY DEF Outermost, Effective
      <4> QED
        BY <4>1 DEF Unaliased
    <3>5. Outermost(more) =
            {key} \union {o \in Outermost(keys) : ~ IsPrefix(p, Target(o))}
      BY <3>3, <3>4 DEF IsStrictPrefix
    <3>6. KeptOf(more) = {q \in KeptOf(keys) : ~ IsPrefix(p, q)}
      BY <2>1 DEF KeptOf
    <3>7. WrittenOf(more) = {p} \union {q \in WrittenOf(keys) : ~ IsPrefix(p, q)}
      BY <3>5 DEF WrittenOf
    <3>8. IsPrefix(p, p)
      BY <2>3, PrefixOrder
    <3> DEFINE rest == KeptOf(more) \union WrittenOf(more)
    <3>9. (DOMAIN Merged(keys) \ Under(p, DOMAIN Merged(keys))) \union {p} = rest
      <4>1. DOMAIN Merged(keys) = KeptOf(keys) \union WrittenOf(keys)
        BY MergedShape
      <4> QED
        BY <3>6, <3>7, <4>1 DEF Under
    <3>10. val(more, p) = values[key]
      <4>1. key \in Outermost(more) /\ Outermost(more) \subseteq DOMAIN values
        BY <3>4, <3>5
      <4>2. \A k \in Outermost(more) : Target(k) = p <=> k = key
        BY <4>1 DEF Unaliased
      <4> QED
        BY <4>1, <4>2
    <3>11. ASSUME NEW q \in rest, q # p
           PROVE  Merged(keys)[q] = Merged(more)[q]
      <4>1. q \in KeptOf(keys) \union WrittenOf(keys)
        BY <3>6, <3>7, <3>11
      <4>2. q \in WrittenOf(more) <=> q \in WrittenOf(keys)
        <5>1. ~ IsPrefix(p, q)
          BY <3>6, <3>7, <3>11
        <5> QED
          BY <3>7, <3>11, <5>1
      <4>3. CASE q \notin WrittenOf(keys)
        BY <1>1, <4>1, <4>2, <4>3
      <4>4. CASE q \in WrittenOf(keys)
        <5>1. PICK o \in Outermost(more) : Target(o) = q
          BY <4>2, <4>4 DEF WrittenOf
        <5>2. o \in Outermost(keys) /\ Outermost(keys) \subseteq DOMAIN values
              /\ Outermost(more) \subseteq DOMAIN values
          BY <3>4, <3>5, <3>11, <5>1
        <5>3. \A k \in Outermost(more) \union Outermost(keys) : Target(k) = q <=> k = o
          BY <5>1, <5>2 DEF Unaliased
        <5>4. (CHOOSE k \in Outermost(more) : Target(k) = q) = o
              /\ (CHOOSE k \in Outermost(keys) : Target(k) = q) = o
          BY <5>1, <5>2, <5>3
        <5>5. val(more, q) = val(keys, q)
          BY <5>4
        <5> HIDE DEF val
        <5> QED
          BY <1>1, <4>1, <4>2, <4>4, <5>5
      <4> QED
        BY <4>3, <4>4
    <3>12. \A q \in rest :
             (IF q = p THEN values[key] ELSE Merged(keys)[q]) = Merged(more)[q]
      <4>1. p \in WrittenOf(more)
        BY <3>7
      <4>2. Merged(more)[p] = values[key]
        <5> HIDE DEF val
        <5> QED
          BY <1>1, <3>10, <4>1
      <4> QED
        BY <3>11, <4>2
    <3>13. Merged(more) = [q \in rest |-> Merged(more)[q]]
      BY <1>1
    <3>14. SetP(Merged(keys), p, values[key])
             = [q \in rest |-> IF q = p THEN values[key] ELSE Merged(keys)[q]]
      BY <3>9 DEF SetP
    <3> HIDE DEF rest, p, more
    <3> QED
      BY <3>1, <3>12, <3>13, <3>14
  <2> QED
    BY <2>4, <2>5
<1> QED
  BY <1>3, <1>4

(***************************************************************************)
(* MapValues gives every key a value.                                      *)
(***************************************************************************)
LEMMA ValueType ==
  ASSUME NEW text \in STRING
  PROVE  Value(text) \in APIModelValue
<1>1. text \in DOMAIN Number => Number[text] \in Int
  BY ElementsAssumption
<1>2. CASE text \in DOMAIN Number
  <2>1. Value(text) = [stringValue |-> "", intValue |-> Number[text]]
    BY <1>2 DEF Value
  <2>2. Number[text] \in Int
    BY <1>1, <1>2
  <2>3. [stringValue |-> "", intValue |-> Number[text]] \in [stringValue : STRING, intValue : Int]
    <3> DEFINE n == Number[text]
    <3> HIDE DEF n
    <3>1. n \in Int
      BY <2>2 DEF n
    <3>2. [stringValue |-> "", intValue |-> n] \in [stringValue : STRING, intValue : Int]
      BY <3>1, LiteralsAssumption, Zenon
    <3> QED
      BY <3>2 DEF n
  <2> QED
    BY <2>1, <2>3 DEF APIModelValue
<1>3. CASE text \notin DOMAIN Number
  <2>1. Value(text) = [stringValue |-> text, intValue |-> 0]
    BY <1>3 DEF Value
  <2> QED
    BY <2>1 DEF APIModelValue
<1> QED
  BY <1>2, <1>3

LEMMA MapValuesType ==
  ASSUME NEW pairs \in Commands, ~ PairPanics(pairs)
  PROVE  /\ MapValues(pairs) \in [DOMAIN MapValues(pairs) -> APIModelValue]
         /\ \A key \in DOMAIN MapValues(pairs) : GoodKey(key)
<1>1. /\ DOMAIN pairs = 1 .. Len(pairs) /\ Len(pairs) \in Nat
      /\ \A i \in DOMAIN pairs : pairs[i] \in [key : Key, texts : Seq(STRING)]
  <2>1. pairs \in Seq([key : Key, texts : Seq(STRING)])
    BY CommandsAssumption
  <2> DEFINE R == [key : Key, texts : Seq(STRING)]
  <2>2. pairs \in Seq(R)
    BY <2>1
  <2> HIDE DEF R
  <2>3. DOMAIN pairs = 1 .. Len(pairs) /\ Len(pairs) \in Nat /\ \A i \in DOMAIN pairs : pairs[i] \in R
    BY <2>2, LenProperties, ElementOfSeq
  <2> QED
    BY <2>3 DEF R
<1>2. \A i \in Kept(pairs) : GoodKey(pairs[i].key)
  BY <1>1 DEF Kept, GoodKey
<1>3. \A i \in Kept(pairs) : Value(pairs[i].texts[1]) \in APIModelValue
  <2> TAKE i \in Kept(pairs)
  <2>1. i \in DOMAIN pairs /\ pairs[i].texts \in Seq(STRING) /\ pairs[i].texts # << >>
    BY <1>1 DEF Kept, PairPanics
  <2>2. pairs[i].texts[1] \in STRING
    BY <2>1, EmptySeq, ElementOfSeq, LenProperties
  <2> QED
    BY <2>2, ValueType
<1>4. ASSUME NEW k \in Kept(pairs)
      PROVE  LastOf(pairs, pairs[k].key) \in Kept(pairs)
  <2> DEFINE S == {i \in Kept(pairs) : pairs[i].key = pairs[k].key}
             T == {Len(pairs) - i : i \in S}
  <2>1. S \subseteq 1 .. Len(pairs) /\ k \in S
    BY <1>1 DEF Kept
  <2>2. T \in SUBSET Nat /\ T # {}
    BY <1>1, <2>1
  <2>3. PICK x \in T : \A y \in T : x <= y
    <3> HIDE DEF T
    <3> QED
      BY <2>2, Smallest
  <2>4. PICK i \in S : \A j \in S : Len(pairs) - i <= Len(pairs) - j
    BY <2>3
  <2>5. \A j \in S : j <= i
    BY <1>1, <2>1, <2>4
  <2> QED
    BY <2>5 DEF LastOf
<1> QED
  BY <1>2, <1>3, <1>4 DEF MapValues

(***************************************************************************)
(* The inductive invariant.                                                *)
(***************************************************************************)
Shape ==
  /\ file \in Files /\ set \in Commands
  /\ phase = "mapping" => done = {} /\ doc = file
  /\ values \in [DOMAIN values -> APIModelValue]
  /\ \A key \in DOMAIN values : GoodKey(key)

IInv == Shape /\ TypeOK /\ OrderFree

LEMMA FilesAreSane ==
  ASSUME NEW f \in Files
  PROVE  /\ f \in Document(DOMAIN f) /\ DOMAIN f \subseteq Paths /\ f = [q \in DOMAIN f |-> f[q]]
         /\ \A p, q \in DOMAIN f : ~ IsStrictPrefix(p, q)
BY FilesAssumption DEF Paths, Document

\* What is written takes the place of what was below it.
LEMMA SetKeepsLeaves ==
  ASSUME NEW d, d \in Document(DOMAIN d), \A p, q \in DOMAIN d : ~ IsStrictPrefix(p, q),
         NEW place, ~ Collides(d, place), NEW value \in APIModelValue
  PROVE  LET e == SetP(d, place, value)
         IN /\ e \in Document(DOMAIN e)
            /\ \A p, q \in DOMAIN e : ~ IsStrictPrefix(p, q)
<1> DEFINE e == SetP(d, place, value)
           rest == DOMAIN d \ Under(place, DOMAIN d)
<1>1. DOMAIN e = rest \union {place}
  BY DEF SetP
<1>2. e \in Document(DOMAIN e)
  <2>1. \A q \in DOMAIN e : e[q] \in APIModelValue
    BY DEF SetP, Document
  <2>2. e = [q \in DOMAIN e |-> e[q]]
    BY DEF SetP
  <2> HIDE DEF e
  <2> QED
    BY <2>1, <2>2 DEF Document
<1>3. \A q \in rest : ~ IsStrictPrefix(q, place) /\ ~ IsPrefix(place, q)
  BY DEF Collides, Under
<1>4. \A p, q \in DOMAIN e : ~ IsStrictPrefix(p, q)
  BY <1>1, <1>3 DEF IsStrictPrefix
<1> QED
  BY <1>2, <1>4

\* A document of leaves of the file and targets of keys whose elements the file has.
Rooted(d) ==
  \A q \in DOMAIN d :
    \/ q \in DOMAIN file
    \/ \E k : GoodKey(k) /\ q = Target(k) /\ (IsIndexed(k) => HasElement(file, k))

\* The merge makes no arrays.
LEMMA NoNewArrays ==
  ASSUME \A q \in DOMAIN file : q \in Paths, NEW d, Rooted(d),
         NEW a \in Paths, IsArray(d, a)
  PROVE  IsArray(file, a)
<1>1. PICK q \in DOMAIN d : IsStrictPrefix(a, q) /\ q[Len(a) + 1] \in Elements
  BY DEF IsArray
<1>2. CASE q \in DOMAIN file
  BY <1>1, <1>2 DEF IsArray
<1>3. ASSUME NEW k, GoodKey(k), q = Target(k), IsIndexed(k) => HasElement(file, k)
      PROVE  IsArray(file, a)
  <2> DEFINE e == ElementOf(k)
  <2>1. q \in Paths /\ IsPrefix(a, q) /\ a # q
    BY <1>1, <1>3, TargetPath DEF IsStrictPrefix
  <2>2. Len(a) \in Nat /\ Len(q) \in Nat /\ Len(a) <= Len(q) /\ \A i \in 1 .. Len(a) : a[i] = q[i]
    BY <2>1, PrefixPoint DEF Paths
  <2>3. Len(a) # Len(q)
    BY <2>1, <2>2, SeqEqual DEF Paths
  <2>4. IsIndexed(k) /\ Len(a) = Len(k.name)
    <3>1. Len(a) + 1 \in 1 .. Len(q)
      BY <2>2, <2>3
    <3>2. IsIndexed(k) /\ Len(a) + 1 = Len(k.name) + 1
      BY <1>1, <1>3, <3>1, TargetPath
    <3>3. Len(k.name) \in Nat
      BY <1>3, LenProperties DEF GoodKey, Key
    <3> QED
      BY <2>2, <3>2, <3>3
  <2>5. /\ e \in Paths /\ Len(e) = Len(a) + 1 /\ e[Len(a) + 1] \in Elements
        /\ IsPrefix(e, q)
    BY <1>3, <2>2, <2>4, ElementPath, TargetPath DEF IsStrictPrefix
  <2>6. PICK r \in DOMAIN file : IsPrefix(e, r)
    BY <1>3, <2>4 DEF HasElement
  <2> HIDE DEF e
  <2>7. r \in Paths /\ Len(r) \in Nat /\ Len(e) <= Len(r) /\ \A i \in 1 .. Len(e) : e[i] = r[i]
    BY <2>5, <2>6, PrefixPoint DEF Paths
  <2>8. \A i \in 1 .. Len(e) : e[i] = q[i]
    BY <2>1, <2>5, PrefixPoint
  <2>9. Len(a) <= Len(r) /\ Len(a) # Len(r) /\ \A i \in 1 .. Len(a) : a[i] = r[i]
    BY <2>2, <2>5, <2>7, <2>8
  <2>10. IsStrictPrefix(a, r)
    BY <2>7, <2>9, PrefixPoint DEF IsStrictPrefix
  <2>11. r[Len(a) + 1] \in Elements
    BY <2>2, <2>5, <2>7
  <2> QED
    BY <2>10, <2>11 DEF IsArray
<1> QED
  BY <1>1, <1>2, <1>3 DEF Rooted

\* A name that meets no array in the file meets none later.
LEMMA StaysDirect ==
  ASSUME \A q \in DOMAIN file : q \in Paths, NEW d, Rooted(d),
         NEW key, GoodKey(key), ~ Spreads(file, key)
  PROVE  ~ Spreads(d, key)
<1> SUFFICES ASSUME IsIndexed(key), NEW n \in ArraysOn(d, key.name) PROVE FALSE
  BY DEF Spreads
<1>1. key.name \in Paths
  BY SeqMonotonic DEF GoodKey, Key, Paths
<1>2. n \in 1 .. Len(key.name) - 1 /\ IsArray(d, SubSeq(key.name, 1, n))
  BY DEF ArraysOn
<1>3. IsArray(file, SubSeq(key.name, 1, n))
  BY <1>1, <1>2, SubPath, NoNewArrays
<1> QED
  BY <1>2, <1>3 DEF Spreads, ArraysOn

LEMMA MergedRooted ==
  ASSUME Sane, NEW keys \in SUBSET DOMAIN values
  PROVE  Rooted(Merged(keys))
<1>1. DOMAIN Merged(keys) = KeptOf(keys) \union WrittenOf(keys)
  BY MergedShape
<1>2. \A o \in Outermost(keys) :
        GoodKey(o) /\ (IsIndexed(o) => HasElement(file, o))
  BY MergedShape DEF Effective, Settable
<1> QED
  BY <1>1, <1>2 DEF Rooted, KeptOf, WrittenOf

LEMMA NothingMerged ==
  ASSUME NEW f, f = [q \in DOMAIN f |-> f[q]], file = f
  PROVE  Merged({}) = f
<1>1. Effective({}) = {} /\ Outermost({}) = {}
  BY DEF Effective, Outermost
<1> QED
  BY <1>1 DEF Merged

LEMMA Inductive == IInv /\ [Next]_vars => IInv'
<1> SUFFICES ASSUME IInv, [Next]_vars PROVE IInv'
  OBVIOUS
<1> USE DEF IInv
<1>1. file' = file /\ set' = set
  BY DEF Next, Map, Merge, MergeFound, LoadAPIModel, vars
<1>2. CASE Map
  <2>1. doc = file /\ done = {} /\ doc' = file' /\ done' = {} /\ phase' # "mapping"
    BY <1>1, <1>2 DEF Map, Shape
  <2>2. /\ values' \in [DOMAIN values' -> APIModelValue]
        /\ \A key \in DOMAIN values' : GoodKey(key)
    BY <1>2, MapValuesType DEF Map, Shape
  <2>3. Shape'
    BY <1>1, <2>1, <2>2 DEF Shape
  <2>4. TypeOK'
    BY <1>2, <2>1, <2>2 DEF TypeOK, Map, GoodKey
  <2>5. OrderFree'
    <3>1. file' = [q \in DOMAIN file' |-> file'[q]]
      BY <1>1, FilesAreSane DEF Shape
    <3>2. (Effective({}) = {} /\ Outermost({}) = {})'
      BY DEF Effective, Outermost
    <3>3. Merged(done)' = file'
      BY <2>1, <3>1, <3>2 DEF Merged
    <3> QED
      BY <2>1, <3>3 DEF OrderFree
  <2> QED
    BY <2>3, <2>4, <2>5
<1>3. ASSUME NEW key \in DOMAIN values, Merge(key) PROVE IInv'
  <2>1. values' = values /\ phase = "merging" /\ key \notin done /\ phase' # "mapping"
    BY <1>3 DEF Merge
  <2>2. Shape'
    BY <1>1, <2>1 DEF Shape
  <2>3. CASE IndexPanics(doc, key)
    <3>1. doc' = doc /\ done' = done /\ phase' = "crashed"
      BY <1>3, <2>3 DEF Merge
    <3>2. TypeOK'
      BY <2>1, <3>1 DEF TypeOK
    <3>3. Merged(done)' = Merged(done)
      BY <1>1, <2>1, <3>1 DEF Merged, Outermost, Effective
    <3>4. OrderFree'
      BY <1>1, <2>1, <3>1, <3>3 DEF OrderFree, Direct
    <3> QED
      BY <2>2, <3>2, <3>4
  <2>4. CASE ~ IndexPanics(doc, key)
    <3>1. /\ done' = done \union {key} /\ phase' = phase
          /\ doc' = IF Settable(doc, key) THEN SetP(doc, Target(key), values[key]) ELSE doc
      BY <1>3, <2>4 DEF Merge
    <3>2. TypeOK'
      <4>1. values[key] \in APIModelValue
        BY DEF Shape
      <4>2. doc' \in Document(DOMAIN doc') /\ \A p, q \in DOMAIN doc' : ~ IsStrictPrefix(p, q)
        <5>1. CASE Settable(doc, key)
          <6>1. ~ Collides(doc, Target(key))
            BY <5>1 DEF Settable
          <6> QED
            BY <3>1, <4>1, <5>1, <6>1, SetKeepsLeaves DEF TypeOK
        <5>2. CASE ~ Settable(doc, key)
          BY <3>1, <5>2 DEF TypeOK
        <5> QED
          BY <5>1, <5>2
      <4> QED
        BY <2>1, <3>1, <4>2 DEF TypeOK
    <3>3. OrderFree'
      <4> SUFFICES ASSUME Direct(DOMAIN values), Unaliased(DOMAIN values)
                   PROVE  doc' = Merged(done)'
        BY <1>1, <2>1 DEF OrderFree, Unaliased, Direct
      <4>1. Sane
        BY FilesAreSane DEF Sane, Shape
      <4>2. doc = Merged(done) /\ done \in SUBSET DOMAIN values
        BY DEF OrderFree, TypeOK
      <4>3. doc' = Merged(done \union {key})
        BY <2>1, <3>1, <4>1, <4>2, MergeStep
      <4>4. Merged(done)' = Merged(done \union {key})
        BY <1>1, <2>1, <3>1 DEF Merged, Outermost, Effective
      <4> QED
        BY <4>3, <4>4
    <3> QED
      BY <2>2, <3>2, <3>3
  <2> QED
    BY <2>3, <2>4
<1>7. ASSUME NEW key \in DOMAIN values, MergeFound(key) PROVE IInv'
  <2>1. values' = values /\ phase = "merging" /\ key \notin done /\ Spreads(doc, key)
    BY <1>7 DEF MergeFound
  <2>2. /\ phase' \in {"merging", "crashed"}
        /\ done' \in {done, done \union {key}}
        /\ \/ doc' = doc
           \/ \E place : ~ Collides(doc, place) /\ doc' = SetP(doc, place, values[key])
    BY <2>1, <1>7 DEF MergeFound
  <2>3. Shape'
    BY <1>1, <2>1, <2>2 DEF Shape
  <2>4. doc' \in Document(DOMAIN doc') /\ \A p, q \in DOMAIN doc' : ~ IsStrictPrefix(p, q)
    <3>1. values[key] \in APIModelValue
      BY DEF Shape
    <3> QED
      BY <2>2, <3>1, SetKeepsLeaves DEF TypeOK
  <2>5. TypeOK'
    BY <2>1, <2>2, <2>4 DEF TypeOK
  <2>6. ~ (Direct(DOMAIN values) /\ Unaliased(DOMAIN values))
    <3> SUFFICES ASSUME Direct(DOMAIN values), Unaliased(DOMAIN values) PROVE FALSE
      OBVIOUS
    <3>1. Sane
      BY FilesAreSane DEF Sane, Shape
    <3>2. doc = Merged(done) /\ done \in SUBSET DOMAIN values
      BY DEF OrderFree, TypeOK
    <3>3. Rooted(doc)
      BY <3>1, <3>2, MergedRooted
    <3>4. GoodKey(key) /\ ~ Spreads(file, key)
      BY DEF Shape, Direct
    <3> QED
      BY <2>1, <3>1, <3>3, <3>4, StaysDirect DEF Sane
  <2>7. OrderFree'
    BY <1>1, <2>1, <2>6 DEF OrderFree, Direct, Unaliased
  <2> QED
    BY <2>3, <2>5, <2>7
<1>4. ASSUME UNCHANGED <<values, done, doc>>, phase' \in {"loaded", "refused"} \/ phase' = phase
      PROVE  IInv'
  <2>1. Shape' /\ TypeOK'
    BY <1>1, <1>4 DEF Shape, TypeOK
  <2>2. Merged(done)' = Merged(done)
    BY <1>1, <1>4 DEF Merged, Outermost, Effective
  <2>3. OrderFree'
    BY <1>1, <1>4, <2>2 DEF OrderFree, Direct
  <2> QED
    BY <2>1, <2>3
<1>5. CASE LoadAPIModel
  BY <1>4, <1>5 DEF LoadAPIModel
<1>6. CASE UNCHANGED vars
  BY <1>4, <1>6 DEF vars
<1> QED
  BY <1>2, <1>3, <1>5, <1>6, <1>7 DEF Next

LEMMA Invariant == Spec => []IInv
<1>1. Init => IInv
  <2> SUFFICES ASSUME Init PROVE IInv
    OBVIOUS
  <2>0. /\ file \in Files /\ set \in Commands /\ phase = "mapping"
        /\ values = << >> /\ done = {} /\ doc = file /\ DOMAIN values = {}
    BY DEF Init
  <2>1. Shape
    BY <2>0 DEF Shape
  <2>2. TypeOK
    BY <2>0, FilesAreSane DEF TypeOK
  <2>3. OrderFree
    BY <2>0, FilesAreSane, NothingMerged DEF OrderFree
  <2> QED
    BY <2>1, <2>2, <2>3 DEF IInv
<1> QED
  BY <1>1, Inductive, PTL DEF Spec

\* Every leaf of the document has nothing below it, and every value a type.
THEOREM Typed == Spec => []TypeOK
<1>1. IInv => TypeOK
  BY DEF IInv
<1> QED
  BY <1>1, Invariant, PTL

\* Whatever the order of the map, MergeValuesWithAPIModel makes the same document of a
\* file and a command without two keys for one place.
THEOREM AnyOrder == Spec => []OrderFree
<1>1. IInv => OrderFree
  BY DEF IInv
<1> QED
  BY <1>1, Invariant, PTL

\* A nonempty set of subsets of a finite set has a member from which nothing can be taken.
LEMMA Minimal ==
  ASSUME NEW S, IsFiniteSet(S), NEW B \in SUBSET SUBSET S, B # {}
  PROVE  \E T \in B : \A x \in T : T \ {x} \notin B
<1> DEFINE R == StrictSubsetOrdering(S)
           F == FiniteSubsetsOf(S)
<1>1. IsWellFoundedOn(R, F)
  BY FS_StrictSubsetOrderingWellFounded
<1>2. B \subseteq F
  BY FS_Subset DEF FiniteSubsetsOf
<1>3. \A T, U \in SUBSET S : U \subseteq T /\ U # T => <<U, T>> \in R
  BY DEF StrictSubsetOrdering
<1>4. \E T \in B : \A U \in B : ~ (<<U, T>> \in R)
  <2> HIDE DEF R, F
  <2> QED
    BY <1>1, <1>2, WFMin
<1> HIDE DEF R, F
<1>5. PICK T \in B : \A U \in B : ~ (<<U, T>> \in R)
  BY <1>4
<1>6. ASSUME NEW x \in T, T \ {x} \in B PROVE FALSE
  <2>1. T \ {x} \subseteq T /\ T \ {x} # T
    OBVIOUS
  <2> QED
    BY <2>1, <1>3, <1>5, <1>6
<1> QED
  BY <1>6

(***************************************************************************)
(* The fields of a document.  Two spellings of one field have the same     *)
(* length, and the order of the file is total on them, so that one counts. *)
(***************************************************************************)
LEMMA PathLength ==
  ASSUME NEW p \in Paths
  PROVE  /\ Len(p) \in Nat /\ DOMAIN p = 1 .. Len(p)
         /\ \A i \in 1 .. Len(p) : p[i] \in Keys \union Elements /\ Rank[p[i]] \in Int
<1>1. Len(p) \in Nat /\ DOMAIN p = 1 .. Len(p)
  BY LenProperties DEF Paths
<1>2. \A i \in 1 .. Len(p) : p[i] \in Keys \union Elements
  BY ElementOfSeq DEF Paths
<1> QED
  BY <1>1, <1>2, RankAssumption

LEMMA BeforePoint ==
  ASSUME NEW p \in Paths, NEW q \in Paths, Len(p) = Len(q)
  PROVE  Before(p, q) <=>
           \E i \in 1 .. Len(p) :
             Rank[p[i]] < Rank[q[i]] /\ \A j \in 1 .. i - 1 : p[j] = q[j]
BY PathLength DEF Before

LEMMA BeforeTotal ==
  ASSUME NEW p \in Paths, NEW q \in Paths, Len(p) = Len(q), p # q
  PROVE  Before(p, q) \/ Before(q, p)
<1> DEFINE T == {i \in 1 .. Len(p) : p[i] # q[i]}
<1>1. T # {}
  BY SeqEqual DEF Paths
<1>2. T \in SUBSET Nat
  BY PathLength
<1>3. PICK i \in T : \A j \in T : i <= j
  <2> HIDE DEF T
  <2> QED
    BY <1>1, <1>2, Smallest
<1>4. i \in 1 .. Len(p) /\ p[i] # q[i] /\ Len(p) \in Nat
  BY PathLength
<1>5. ASSUME NEW j \in 1 .. i - 1 PROVE p[j] = q[j]
  <2>1. j \in 1 .. Len(p) /\ ~ (i <= j)
    BY <1>4
  <2> QED
    BY <1>3, <2>1
<1>6. /\ p[i] \in Keys \union Elements /\ q[i] \in Keys \union Elements
      /\ Rank[p[i]] \in Int /\ Rank[q[i]] \in Int
  BY <1>4, PathLength
<1>7. Rank[p[i]] # Rank[q[i]]
  BY <1>4, <1>6, RankAssumption
<1>8. Rank[p[i]] < Rank[q[i]] \/ Rank[q[i]] < Rank[p[i]]
  BY <1>6, <1>7
<1> QED
  BY <1>4, <1>5, <1>8, BeforePoint

LEMMA BeforeOrder ==
  ASSUME NEW p \in Paths, NEW q \in Paths, NEW r \in Paths, Len(p) = Len(q), Len(q) = Len(r)
  PROVE  /\ ~ Before(p, p)
         /\ Before(p, q) /\ Before(q, r) => Before(p, r)
<1>0. Len(p) \in Nat
  BY PathLength
<1>1. ~ Before(p, p)
  BY BeforePoint, PathLength
<1>2. ASSUME Before(p, q), Before(q, r) PROVE Before(p, r)
  <2>1. PICK i \in 1 .. Len(p) : Rank[p[i]] < Rank[q[i]] /\ \A j \in 1 .. i - 1 : p[j] = q[j]
    BY <1>2, BeforePoint
  <2>2. PICK k \in 1 .. Len(p) : Rank[q[k]] < Rank[r[k]] /\ \A j \in 1 .. k - 1 : q[j] = r[j]
    BY <1>2, BeforePoint
  <2>3. \A n \in 1 .. Len(p) : Rank[p[n]] \in Int /\ Rank[q[n]] \in Int /\ Rank[r[n]] \in Int
    BY PathLength
  <2>4. i \in Int /\ k \in Int
    BY <1>0
  <2>5. CASE i < k
    <3>1. i \in 1 .. k - 1
      BY <2>4, <2>5, <1>0
    <3>2. Rank[p[i]] < Rank[r[i]]
      BY <2>1, <2>2, <3>1
    <3>3. \A j \in 1 .. i - 1 : p[j] = r[j]
      BY <2>1, <2>2, <2>4, <2>5
    <3> QED
      BY <3>2, <3>3, BeforePoint
  <2>6. CASE k <= i
    <3>1. Rank[p[k]] < Rank[r[k]]
      <4>1. CASE k = i
        BY <4>1, <2>1, <2>2, <2>3
      <4>2. CASE k # i
        <5>1. k \in 1 .. i - 1
          BY <2>4, <2>6, <4>2, <1>0
        <5> QED
          BY <2>1, <2>2, <5>1
      <4> QED
        BY <4>1, <4>2
    <3>2. \A j \in 1 .. k - 1 : p[j] = r[j]
      BY <2>1, <2>2, <2>4, <2>6
    <3> QED
      BY <3>1, <3>2, BeforePoint
  <2> QED
    BY <2>4, <2>5, <2>6
<1> QED
  BY <1>1, <1>2

\* Paths of one length, as the spellings of a field are.
Level(S) == S \subseteq Paths /\ \A p, q \in S : Len(p) = Len(q)

LEMMA LatestIs ==
  ASSUME NEW S, Level(S), NEW t \in S, \A r \in S : ~ Before(t, r)
  PROVE  Latest(S) = t
<1>1. Latest(S) \in S /\ \A r \in S : ~ Before(Latest(S), r)
  BY DEF Latest
<1>2. Latest(S) \in Paths /\ t \in Paths /\ Len(Latest(S)) = Len(t)
  BY <1>1 DEF Level
<1> QED
  BY <1>1, <1>2, BeforeTotal

LEMMA LatestIn ==
  ASSUME NEW S, Level(S), S # {}, IsFiniteSet(S)
  PROVE  Latest(S) \in S
<1> DEFINE Late(T) == \E q \in T : \A r \in T : ~ Before(q, r)
           Bad == {T \in SUBSET S : T # {} /\ ~ Late(T)}
<1>1. SUFFICES Late(S)
  BY DEF Latest
<1>2. SUFFICES ASSUME Bad # {} PROVE FALSE
  OBVIOUS
<1>3. PICK T \in Bad : \A x \in T : T \ {x} \notin Bad
  BY <1>2, Minimal
<1>4. T \subseteq S /\ ~ Late(T)
  OBVIOUS
<1>5. PICK x \in T : TRUE
  OBVIOUS
<1>6. \A p, q, r \in T : /\ ~ Before(p, p)
                         /\ Before(p, q) /\ Before(q, r) => Before(p, r)
  BY <1>4, BeforeOrder DEF Level
<1>7. CASE T \ {x} = {}
  BY <1>4, <1>6, <1>7
<1>8. CASE T \ {x} # {}
  <2>1. PICK m \in T \ {x} : \A r \in T \ {x} : ~ Before(m, r)
    BY <1>3, <1>4, <1>8
  <2>2. CASE ~ Before(m, x)
    BY <2>1, <2>2, <1>4
  <2>3. CASE Before(m, x)
    <3>1. \A r \in T : ~ Before(x, r)
      BY <2>1, <2>3, <1>6
    <3> QED
      BY <3>1, <1>4
  <2> QED
    BY <2>2, <2>3
<1> QED
  BY <1>7, <1>8

LEMMA SpellingsLevel ==
  ASSUME NEW d, DOMAIN d \subseteq Paths, NEW f
  PROVE  Level(Spellings(d, f))
<1> SUFFICES ASSUME NEW p \in Spellings(d, f), NEW q \in Spellings(d, f) PROVE Len(p) = Len(q)
  BY DEF Level, Spellings
<1>1. p \in Paths /\ q \in Paths /\ Field(p) = Field(q)
  BY DEF Spellings
<1>2. DOMAIN Field(p) = DOMAIN p /\ DOMAIN Field(q) = DOMAIN q
  BY DEF Field
<1>3. 1 .. Len(p) = 1 .. Len(q) /\ Len(p) \in Nat /\ Len(q) \in Nat
  BY <1>1, <1>2, PathLength
<1> QED
  BY <1>3

LEMMA StrictLength ==
  ASSUME NEW p \in Paths, NEW q \in Paths
  PROVE  IsStrictPrefix(p, q) <=> IsPrefix(p, q) /\ Len(p) < Len(q)
<1>1. Len(p) \in Nat /\ Len(q) \in Nat
  BY PathLength
<1>2. ASSUME IsPrefix(p, q), Len(p) = Len(q) PROVE p = q
  <2>1. \A i \in 1 .. Len(p) : p[i] = q[i]
    BY <1>2, PrefixPoint
  <2> QED
    BY <1>2, <2>1, SeqEqual DEF Paths
<1>3. IsPrefix(p, q) => Len(p) <= Len(q)
  BY DEF IsPrefix
<1> QED
  BY <1>1, <1>2, <1>3 DEF IsStrictPrefix

LEMMA FoldPath ==
  ASSUME NEW p \in Paths
  PROVE  /\ Fold(p) \in Paths /\ Len(Fold(p)) = Len(p)
         /\ \A i \in 1 .. Len(p) : Fold(p)[i] = Folded[p[i]]
<1>1. Len(p) \in Nat /\ DOMAIN p = 1 .. Len(p)
  BY PathLength
<1>2. \A i \in 1 .. Len(p) : Folded[p[i]] \in Keys \union Elements
  BY PathLength, FoldedAssumption
<1>3. Fold(p) \in [1 .. Len(p) -> Keys \union Elements]
  BY <1>1, <1>2 DEF Fold
<1>4. Fold(p) \in Paths
  BY <1>1, <1>3, SeqDef DEF Paths
<1>5. DOMAIN Fold(p) = 1 .. Len(p) /\ DOMAIN Fold(p) = 1 .. Len(Fold(p)) /\ Len(Fold(p)) \in Nat
  BY <1>3, <1>4, PathLength
<1>6. \A i \in 1 .. Len(p) : Fold(p)[i] = Folded[p[i]]
  BY <1>1 DEF Fold
<1>7. Len(Fold(p)) = Len(p)
  BY <1>1, <1>5
<1> QED
  BY <1>4, <1>6, <1>7

\* Below Free the members are spelled as they are.
Inner(p, i) == Len(Free) < i /\ IsPrefix(Free, Fold(p))

LEMMA FieldPath ==
  ASSUME NEW p \in Paths
  PROVE  /\ Field(p) \in Paths /\ Len(Field(p)) = Len(p)
         /\ \A i \in 1 .. Len(p) : Field(p)[i] = IF Inner(p, i) THEN p[i] ELSE Folded[p[i]]
<1>1. Len(p) \in Nat /\ DOMAIN p = 1 .. Len(p)
  BY PathLength
<1>2. Len(Free) \in Nat
  BY SchemaAssumption, PathLength DEF Paths
<1>3. \A i \in 1 .. Len(p) : Field(p)[i] = IF Inner(p, i) THEN p[i] ELSE Folded[p[i]]
  BY <1>1, <1>2 DEF Field, Inner
<1>4. \A i \in 1 .. Len(p) : Folded[p[i]] \in Keys \union Elements /\ p[i] \in Keys \union Elements
  BY PathLength, FoldedAssumption
<1>5. Field(p) = [i \in 1 .. Len(p) |-> Field(p)[i]]
  BY <1>1 DEF Field
<1>6. Field(p) \in [1 .. Len(p) -> Keys \union Elements]
  BY <1>3, <1>4, <1>5
<1>7. Field(p) \in Paths
  BY <1>1, <1>6, SeqDef DEF Paths
<1>8. DOMAIN Field(p) = 1 .. Len(p) /\ DOMAIN Field(p) = 1 .. Len(Field(p)) /\ Len(Field(p)) \in Nat
  BY <1>6, <1>7, PathLength
<1>9. Len(Field(p)) = Len(p)
  BY <1>1, <1>8
<1> QED
  BY <1>3, <1>7, <1>9

LEMMA FreePath == Free \in Paths /\ Len(Free) \in Nat
BY SchemaAssumption, PathLength DEF Paths

\* What is below a path is below it as a field.
LEMMA FieldBelow ==
  ASSUME NEW t \in Paths, NEW q \in Paths, IsStrictPrefix(t, q)
  PROVE  IsStrictPrefix(Field(t), Field(q)) /\ IsStrictPrefix(Fold(t), Fold(q))
<1>1. /\ Len(t) \in Nat /\ Len(q) \in Nat /\ Len(t) < Len(q)
      /\ \A i \in 1 .. Len(t) : t[i] = q[i]
  BY PathLength, StrictLength, PrefixPoint
<1>2. \A i \in 1 .. Len(t) : i \in 1 .. Len(q)
  BY <1>1
<1>3. /\ Fold(t) \in Paths /\ Fold(q) \in Paths /\ Len(Fold(t)) = Len(t) /\ Len(Fold(q)) = Len(q)
      /\ \A i \in 1 .. Len(t) : Fold(t)[i] = Fold(q)[i]
  BY <1>1, <1>2, FoldPath
<1>4. IsStrictPrefix(Fold(t), Fold(q))
  BY <1>1, <1>3, StrictLength, PrefixPoint
<1>5. ASSUME NEW i \in 1 .. Len(t) PROVE Inner(t, i) <=> Inner(q, i)
  <2>1. CASE Len(Free) < i
    <3>1. Len(Free) <= Len(t) /\ Len(Free) <= Len(q)
      BY <1>1, <2>1, FreePath
    <3>2. \A j \in 1 .. Len(Free) : j \in 1 .. Len(t)
      BY <1>1, <3>1, FreePath
    <3>3. IsPrefix(Free, Fold(t)) <=> \A j \in 1 .. Len(Free) : Free[j] = Fold(t)[j]
      BY <1>3, <3>1, FreePath, PrefixPoint
    <3>4. IsPrefix(Free, Fold(q)) <=> \A j \in 1 .. Len(Free) : Free[j] = Fold(q)[j]
      BY <1>3, <3>1, FreePath, PrefixPoint
    <3> QED
      BY <1>3, <3>2, <3>3, <3>4 DEF Inner
  <2>2. CASE ~ (Len(Free) < i)
    BY <2>2 DEF Inner
  <2> QED
    BY <2>1, <2>2
<1>6. \A i \in 1 .. Len(t) : Field(t)[i] = Field(q)[i]
  BY <1>1, <1>2, <1>5, FieldPath
<1>7. IsStrictPrefix(Field(t), Field(q))
  BY <1>1, <1>6, FieldPath, StrictLength, PrefixPoint
<1> QED
  BY <1>4, <1>7

\* A field of the schema is not below Free.
LEMMA FieldPlain ==
  ASSUME NEW q \in Paths, Field(q) \in DOMAIN Schema
  PROVE  Field(q) = Fold(q) /\ ~ IsPrefix(Free, Fold(q))
<1>0. Len(q) \in Nat
  BY PathLength
<1>1. ASSUME IsPrefix(Free, Fold(q)) PROVE FALSE
  <2>1. Len(Free) <= Len(q) /\ \A i \in 1 .. Len(Free) : Free[i] = Fold(q)[i]
    BY <1>1, FreePath, FoldPath, PrefixPoint
  <2>2. \A i \in 1 .. Len(Free) : i \in 1 .. Len(q) /\ ~ Inner(q, i)
    BY <1>0, <2>1, FreePath DEF Inner
  <2>3. \A i \in 1 .. Len(Free) : Free[i] = Field(q)[i]
    BY <2>1, <2>2, FieldPath, FoldPath
  <2>4. IsPrefix(Free, Field(q))
    BY <2>1, <2>3, FreePath, FieldPath, PrefixPoint
  <2> QED
    BY <2>4, SchemaAssumption
<1>2. \A i \in 1 .. Len(q) : Field(q)[i] = Fold(q)[i]
  BY <1>1, FieldPath, FoldPath DEF Inner
<1>3. Field(q) = Fold(q)
  BY <1>2, FieldPath, FoldPath, SeqEqual DEF Paths
<1> QED
  BY <1>1, <1>3

\* In a document that is accepted, nothing has taken the place of a field of the schema.
LEMMA NoneAboveField ==
  ASSUME NEW t \in Paths, Fold(t) \in DOMAIN Schema \/ IsStrictPrefix(Free, Fold(t)),
         NEW q \in Paths, IsStrictPrefix(t, q)
  PROVE  Field(q) \notin DOMAIN Schema
<1> SUFFICES ASSUME Field(q) \in DOMAIN Schema PROVE FALSE
  OBVIOUS
<1>1. Field(q) = Fold(q) /\ ~ IsPrefix(Free, Fold(q))
  BY FieldPlain
<1>2. IsStrictPrefix(Fold(t), Fold(q))
  BY FieldBelow
<1>3. CASE Fold(t) \in DOMAIN Schema
  BY <1>1, <1>2, <1>3, SchemaAssumption
<1>4. CASE IsStrictPrefix(Free, Fold(t))
  BY <1>1, <1>2, <1>4, FreePath, FoldPath, PrefixOrder DEF IsStrictPrefix
<1> QED
  BY <1>3, <1>4

(***************************************************************************)
(* What the merged document is made of, whether keys share a place or not: *)
(* leaves of the file and targets of the keys done so far; a leaf of the   *)
(* file is missing only below such a target; and a key whose place nothing *)
(* else reaches has its value.                                             *)
(***************************************************************************)
Clear(key) ==
  /\ Settable(file, key)
  /\ \A other \in DOMAIN values \ {key} : ~ IsPrefix(Target(other), Target(key))

FromKey(q) == \E k \in done : q = Target(k) /\ (IsIndexed(k) => HasElement(file, k))
FromFile(q) == q \in DOMAIN file /\ doc[q] = file[q]
Buried(q) == \E k \in done : Target(k) \in DOMAIN doc /\ IsPrefix(Target(k), q)

Origin ==
  /\ IsFiniteSet(DOMAIN doc)
  /\ \A q \in DOMAIN doc : FromKey(q) \/ FromFile(q)
  /\ \A q \in DOMAIN file : q \in DOMAIN doc \/ Buried(q)
  /\ \A k \in done : Clear(k) => Target(k) \in DOMAIN doc /\ doc[Target(k)] = values[k]

Progress ==
  /\ phase \in {"merging", "loaded"} => values = MapValues(set) /\ ~ PairPanics(set)
  /\ phase = "loaded" => done = DOMAIN values /\ checkJSONKeys(doc)

AskedInv == (Direct(DOMAIN values) => Origin) /\ Progress

LEMMA ShapeFacts ==
  ASSUME Shape, TypeOK
  PROVE  /\ Sane /\ done \subseteq DOMAIN values
         /\ \A k \in DOMAIN values : GoodKey(k) /\ Target(k) \in Paths
         /\ DOMAIN file \subseteq Paths
BY FilesAreSane, TargetPath DEF Sane, Shape, TypeOK

\* The merge makes no elements of arrays.
LEMMA NoNewElements ==
  ASSUME Shape, TypeOK, Origin, NEW key \in DOMAIN values, IsIndexed(key), HasElement(doc, key)
  PROVE  HasElement(file, key)
<1>1. PICK q \in DOMAIN doc : IsPrefix(ElementOf(key), q)
  BY DEF HasElement
<1>2. CASE FromFile(q)
  BY <1>1, <1>2 DEF FromFile, HasElement
<1>3. CASE FromKey(q)
  <2>1. PICK k \in done : q = Target(k) /\ (IsIndexed(k) => HasElement(file, k))
    BY <1>3 DEF FromKey
  <2>2. GoodKey(k) /\ GoodKey(key)
    BY ShapeFacts
  <2>3. IsIndexed(k) /\ ElementOf(k) = ElementOf(key)
    BY <1>1, <2>1, <2>2, ElementShared
  <2> QED
    BY <2>1, <2>3 DEF HasElement
<1> QED
  BY <1>1, <1>2, <1>3 DEF Origin

LEMMA OriginRooted ==
  ASSUME Shape, TypeOK, Origin
  PROVE  Rooted(doc)
BY ShapeFacts DEF Origin, FromKey, FromFile, Rooted

\* A key whose place nothing else reaches finds it when its turn comes.
LEMMA ClearSettable ==
  ASSUME Shape, TypeOK, Origin, NEW key \in DOMAIN values, key \notin done, Clear(key)
  PROVE  Settable(doc, key)
<1> DEFINE p == Target(key)
<1>0. /\ GoodKey(key) /\ p \in Paths /\ Settable(file, key)
      /\ \A k \in done : GoodKey(k) /\ Target(k) \in Paths /\ ~ IsPrefix(Target(k), p)
  BY ShapeFacts DEF Clear
<1>1. /\ IsIndexed(key) => HasElement(file, key)
      /\ \A q \in DOMAIN file : ~ IsStrictPrefix(q, p) /\ ~ Diverts(q, p)
  BY <1>0, SettableAlt
<1>2. ASSUME IsIndexed(key) PROVE HasElement(doc, key)
  <2>1. PICK q \in DOMAIN file : IsPrefix(ElementOf(key), q)
    BY <1>1, <1>2 DEF HasElement
  <2>2. CASE q \in DOMAIN doc
    BY <2>1, <2>2 DEF HasElement
  <2>3. CASE q \notin DOMAIN doc
    <3>1. PICK k \in done : Target(k) \in DOMAIN doc /\ IsPrefix(Target(k), q)
      BY <2>3 DEF Origin, Buried
    <3>2. ElementOf(key) \in Paths /\ q \in Paths /\ Target(k) \in Paths
      BY <1>0, <1>2, ElementPath, ShapeFacts
    <3>3. IsPrefix(ElementOf(key), Target(k)) \/ IsPrefix(Target(k), ElementOf(key))
      BY <2>1, <3>1, <3>2, PrefixOrder
    <3>4. IsPrefix(ElementOf(key), p)
      BY <1>0, <1>2, TargetPath DEF IsStrictPrefix
    <3>5. ~ IsPrefix(Target(k), ElementOf(key))
      BY <1>0, <3>2, <3>4, PrefixOrder
    <3> QED
      BY <3>1, <3>3, <3>5 DEF HasElement
  <2> QED
    BY <2>2, <2>3
<1>3. ASSUME NEW q \in DOMAIN doc PROVE ~ IsStrictPrefix(q, p) /\ ~ Diverts(q, p)
  <2>1. CASE FromFile(q)
    BY <1>1, <2>1 DEF FromFile
  <2>2. CASE FromKey(q)
    <3>1. PICK k \in done : q = Target(k) /\ (IsIndexed(k) => HasElement(file, k))
      BY <2>2 DEF FromKey
    <3>2. ~ IsStrictPrefix(q, p)
      BY <1>0, <3>1 DEF IsStrictPrefix
    <3>3. ASSUME Diverts(q, p) PROVE FALSE
      <4>1. IsIndexed(k) /\ Diverts(ElementOf(k), p)
        BY <1>0, <3>1, <3>3, DivertsElement
      <4>2. PICK r \in DOMAIN file : IsPrefix(ElementOf(k), r)
        BY <3>1, <4>1 DEF HasElement
      <4>3. ElementOf(k) \in Paths /\ r \in Paths
        BY <1>0, <4>1, ElementPath, ShapeFacts
      <4>4. Diverts(r, p)
        BY <1>0, <4>1, <4>2, <4>3, DivertsDown
      <4> QED
        BY <1>1, <4>4
    <3> QED
      BY <3>2, <3>3
  <2> QED
    BY <2>1, <2>2 DEF Origin
<1> QED
  BY <1>0, <1>2, <1>3, SettableAlt

\* A set of keys is reached one by one.
LEMMA StepOrigin ==
  ASSUME Shape, TypeOK, Origin, file' = file, values' = values,
         NEW key \in DOMAIN values, key \notin done, done' = done \union {key},
         doc' = IF Settable(doc, key) THEN SetP(doc, Target(key), values[key]) ELSE doc
  PROVE  Origin'
<1> DEFINE p == Target(key)
<1>0. /\ GoodKey(key) /\ p \in Paths
      /\ \A k \in DOMAIN values : GoodKey(k) /\ Target(k) \in Paths
      /\ DOMAIN file \subseteq Paths /\ done \subseteq DOMAIN values
  BY ShapeFacts
<1>1. CASE ~ Settable(doc, key)
  <2>1. doc' = doc
    BY <1>1
  <2>2. ~ Clear(key)
    BY <1>1, ClearSettable
  <2>3. \A k : Clear(k)' <=> Clear(k)
    BY DEF Clear
  <2>4. \A q \in DOMAIN doc' : FromKey(q)' \/ FromFile(q)'
    BY <2>1 DEF Origin, FromKey, FromFile
  <2>5. \A q \in DOMAIN file' : q \in DOMAIN doc' \/ Buried(q)'
    BY <2>1 DEF Origin, Buried
  <2>6. \A k \in done' : Clear(k)' => Target(k) \in DOMAIN doc' /\ doc'[Target(k)] = values'[k]
    BY <2>1, <2>2, <2>3 DEF Origin
  <2> QED
    BY <2>1, <2>4, <2>5, <2>6 DEF Origin
<1>2. CASE Settable(doc, key)
  <2>1. /\ DOMAIN doc' = (DOMAIN doc \ Under(p, DOMAIN doc)) \union {p}
        /\ \A q \in DOMAIN doc' : doc'[q] = IF q = p THEN values[key] ELSE doc[q]
    BY <1>2 DEF SetP
  <2>2. \A q \in DOMAIN doc : q \in DOMAIN doc' \/ IsPrefix(p, q)
    BY <2>1 DEF Under
  <2>3. DOMAIN doc \subseteq Paths
    <3>1. \A q \in DOMAIN doc : FromKey(q) \/ FromFile(q)
      BY DEF Origin
    <3> QED
      BY <3>1, <1>0 DEF FromKey, FromFile
  <2>4. IsFiniteSet(DOMAIN doc')
    <3> DEFINE rest == DOMAIN doc \ Under(p, DOMAIN doc)
    <3>1. rest \in SUBSET DOMAIN doc
      OBVIOUS
    <3>2. IsFiniteSet(rest)
      BY <3>1, FS_Subset DEF Origin
    <3>3. DOMAIN doc' = rest \union {p}
      BY <2>1
    <3> HIDE DEF rest
    <3>4. IsFiniteSet(rest \union {p})
      BY <3>2, FS_AddElement
    <3> QED
      BY <3>3, <3>4
  <2>5. ASSUME NEW q \in DOMAIN doc' PROVE FromKey(q)' \/ FromFile(q)'
    <3>1. CASE q = p
      <4>1. IsIndexed(key) => HasElement(file, key)
        BY <1>2, NoNewElements DEF Settable
      <4> QED
        BY <3>1, <4>1 DEF FromKey
    <3>2. CASE q # p
      <4>1. q \in DOMAIN doc /\ doc'[q] = doc[q]
        BY <2>1, <3>2
      <4>2. FromKey(q) \/ FromFile(q)
        BY <4>1 DEF Origin
      <4>3. FromKey(q) => FromKey(q)'
        BY DEF FromKey
      <4>4. FromFile(q) => FromFile(q)'
        BY <4>1 DEF FromFile
      <4> QED
        BY <4>2, <4>3, <4>4
    <3> QED
      BY <3>1, <3>2
  <2>6. ASSUME NEW q \in DOMAIN file PROVE q \in DOMAIN doc' \/ Buried(q)'
    <3>1. ASSUME IsPrefix(p, q) PROVE Buried(q)'
      BY <2>1, <3>1 DEF Buried
    <3>2. CASE q \in DOMAIN doc
      BY <2>2, <3>1, <3>2
    <3>3. CASE Buried(q)
      <4>1. PICK k \in done : Target(k) \in DOMAIN doc /\ IsPrefix(Target(k), q)
        BY <3>3 DEF Buried
      <4>2. CASE Target(k) \in DOMAIN doc'
        BY <4>1, <4>2 DEF Buried
      <4>3. CASE Target(k) \notin DOMAIN doc'
        <5>1. IsPrefix(p, Target(k))
          BY <2>2, <4>1, <4>3
        <5>2. IsPrefix(p, q)
          BY <1>0, <4>1, <5>1, PrefixOrder
        <5> QED
          BY <3>1, <5>2
      <4> QED
        BY <4>2, <4>3
    <3> QED
      BY <3>2, <3>3 DEF Origin
  <2>7. ASSUME NEW k \in done', Clear(k)
        PROVE  Target(k) \in DOMAIN doc' /\ doc'[Target(k)] = values[k]
    <3>1. CASE k = key
      BY <2>1, <3>1
    <3>2. CASE k # key
      <4>1. k \in done /\ ~ IsPrefix(p, Target(k))
        BY <2>7, <3>2 DEF Clear
      <4>2. Target(k) \in DOMAIN doc /\ doc[Target(k)] = values[k]
        BY <2>7, <4>1 DEF Origin
      <4>3. Target(k) # p
        BY <1>0, <4>1, PrefixOrder
      <4> QED
        BY <2>1, <2>2, <4>1, <4>2, <4>3
    <3> QED
      BY <3>1, <3>2
  <2>8. \A k : Clear(k)' <=> Clear(k)
    BY DEF Clear
  <2> HIDE DEF p
  <2>9. \A k \in done' : Clear(k)' => Target(k) \in DOMAIN doc' /\ doc'[Target(k)] = values'[k]
    BY <2>7, <2>8
  <2> QED
    BY <2>4, <2>5, <2>6, <2>9 DEF Origin
<1> QED
  BY <1>1, <1>2

LEMMA LastIs ==
  ASSUME NEW pairs \in Commands, NEW i \in Kept(pairs),
         \A j \in DOMAIN pairs : pairs[j].key = pairs[i].key => ~ (j > i)
  PROVE  /\ pairs[i].key \in DOMAIN MapValues(pairs)
         /\ MapValues(pairs)[pairs[i].key] = Value(pairs[i].texts[1])
<1> DEFINE key == pairs[i].key
<1>1. DOMAIN pairs \subseteq Nat /\ Kept(pairs) \subseteq DOMAIN pairs
  <2>1. pairs \in Seq([key : Key, texts : Seq(STRING)])
    BY CommandsAssumption
  <2> QED
    BY <2>1, LenProperties DEF Kept
<1>2. \A j \in Kept(pairs) : pairs[j].key = key => j <= i
  BY <1>1
<1>3. LastOf(pairs, key) = i
  <2>1. \E j \in Kept(pairs) : /\ pairs[j].key = key
                               /\ \A n \in Kept(pairs) : pairs[n].key = key => n <= j
    BY <1>2
  <2>2. /\ LastOf(pairs, key) \in Kept(pairs) /\ pairs[LastOf(pairs, key)].key = key
        /\ \A n \in Kept(pairs) : pairs[n].key = key => n <= LastOf(pairs, key)
    BY <2>1 DEF LastOf
  <2> QED
    BY <1>1, <1>2, <2>2
<1>4. key \in {pairs[j].key : j \in Kept(pairs)}
  OBVIOUS
<1> QED
  BY <1>3, <1>4 DEF MapValues

\* A text that is not cut and not empty is what its value means.
LEMMA ValueMeans ==
  ASSUME NEW texts \in Seq(STRING), texts # << >>, ~ Altered(texts)
  PROVE  Means(Value(texts[1]), texts)
<1>1. Len(texts) = 1 /\ texts[1] # ""
  <2>1. Len(texts) \in Nat /\ Len(texts) # 0
    BY EmptySeq, LenProperties
  <2>2. ~ (Len(texts) > 1)
    BY DEF Altered
  <2>3. texts[1] # ""
    BY DEF Altered
  <2> DEFINE n == Len(texts)
  <2>4. n \in Nat /\ n # 0 /\ ~ (n > 1)
    BY <2>1, <2>2
  <2> HIDE DEF n
  <2>5. n = 1
    BY <2>4
  <2> QED
    BY <2>3, <2>5 DEF n
<1>2. CASE texts[1] \in DOMAIN Number
  BY <1>1, <1>2 DEF Means, Value
<1>3. CASE texts[1] \notin DOMAIN Number
  BY <1>1, <1>3 DEF Means, Value
<1> QED
  BY <1>2, <1>3

\* A pair that is neither Lost nor Altered has its text in the cluster.
LEMMA PairHolds ==
  ASSUME Shape, TypeOK, Origin, Progress, phase = "loaded", NEW i \in DOMAIN set,
         \A j \in DOMAIN set : ~ (j > i /\ set[j].key = set[i].key),
         ~ Lost(set[i].key), ~ Altered(set[i].texts)
  PROVE  Means(Cluster(doc)[Field(Target(set[i].key))], set[i].texts)
<1> DEFINE key == set[i].key
           t == Target(key)
           f == Field(t)
           S == Spellings(doc, f)
<1>1. i \in Kept(set)
  BY DEF Lost, Kept
<1>2. key \in DOMAIN values /\ values[key] = Value(set[i].texts[1])
  BY <1>1, LastIs DEF Progress, Shape
<1>3. key \in done /\ Clear(key)
  BY <1>2 DEF Progress, Lost, Clear
<1>4. t \in DOMAIN doc /\ doc[t] = values[key]
  BY <1>3 DEF Origin
<1>5. t \in S /\ \A r \in S : ~ Before(t, r)
  BY <1>4 DEF Lost, Spellings
<1>6. DOMAIN doc \subseteq Paths
  BY ShapeFacts DEF Origin, FromKey, FromFile
<1>7. Level(S)
  BY <1>6, SpellingsLevel
<1>8. Latest(S) = t
  BY <1>5, <1>7, LatestIs
<1>9. Cluster(doc)[f] = doc[Latest(S)]
  BY <1>4 DEF Cluster
<1>10. set[i].texts \in Seq(STRING) /\ set[i].texts # << >>
  <2>1. set \in Seq([key : Key, texts : Seq(STRING)])
    BY CommandsAssumption DEF Shape
  <2>2. set[i] \in [key : Key, texts : Seq(STRING)]
    BY <2>1, ElementOfSeq, LenProperties
  <2> QED
    BY <2>2 DEF Progress, PairPanics
<1>11. Means(Value(set[i].texts[1]), set[i].texts)
  BY <1>10, ValueMeans
<1> QED
  BY <1>2, <1>4, <1>8, <1>9, <1>11

\* A field that no key touches is what it was.
LEMMA FieldUnchanged ==
  ASSUME Shape, TypeOK, Origin, Progress, phase = "loaded",
         NEW f \in DOMAIN Cluster(doc) \union DOMAIN Cluster(file),
         \A key \in DOMAIN values : ~ Touches(key, f)
  PROVE  /\ f \in DOMAIN Cluster(doc) /\ f \in DOMAIN Cluster(file)
         /\ Cluster(doc)[f] = Cluster(file)[f]
<1> DEFINE S == Spellings(doc, f)
           T == Spellings(file, f)
<1>0. /\ \A k \in done : k \in DOMAIN values /\ Target(k) \in Paths
      /\ DOMAIN file \subseteq Paths /\ DOMAIN doc \subseteq Paths
  <2>1. /\ \A k \in done : k \in DOMAIN values /\ Target(k) \in Paths
        /\ DOMAIN file \subseteq Paths
    BY ShapeFacts
  <2> QED
    BY <2>1 DEF Origin, FromKey, FromFile
<1>1. ASSUME NEW q \in S PROVE q \in T /\ doc[q] = file[q]
  <2>1. q \in DOMAIN doc /\ Field(q) = f
    BY DEF Spellings
  <2>2. ~ FromKey(q)
    BY <2>1, <1>0 DEF FromKey, Touches
  <2> QED
    BY <2>1, <2>2 DEF Origin, FromFile, Spellings
<1>2. ASSUME NEW q \in T PROVE q \in S
  <2>1. q \in DOMAIN file /\ Field(q) = f /\ q \in Paths
    BY <1>0 DEF Spellings
  <2>2. SUFFICES ASSUME Buried(q) PROVE FALSE
    BY <2>1 DEF Origin, Spellings
  <2>3. PICK k \in done : Target(k) \in DOMAIN doc /\ IsPrefix(Target(k), q)
    BY <2>2 DEF Buried
  <2> DEFINE t == Target(k)
  <2>4. t \in Paths /\ ~ Touches(k, f)
    BY <1>0
  <2>5. t # q
    BY <2>1, <2>4 DEF Touches
  <2>6. IsStrictPrefix(t, q)
    BY <2>3, <2>5 DEF IsStrictPrefix
  <2>7. Fold(t) \in DOMAIN Schema \/ IsStrictPrefix(Free, Fold(t))
    BY <2>3 DEF Progress, checkJSONKeys
  <2>8. f \notin DOMAIN Schema
    BY <2>1, <2>4, <2>6, <2>7, NoneAboveField
  <2>9. IsStrictPrefix(Field(t), f)
    BY <2>1, <2>4, <2>6, FieldBelow
  <2> QED
    BY <2>4, <2>8, <2>9 DEF Touches
<1>3. S = T
  BY <1>1, <1>2
<1>4. S # {}
  <2>1. f \in DOMAIN Cluster(doc) => S # {}
    BY DEF Cluster, Spellings
  <2>2. f \in DOMAIN Cluster(file) => T # {}
    BY DEF Cluster, Spellings
  <2> QED
    BY <2>1, <2>2, <1>3
<1>5. /\ f \in DOMAIN Cluster(doc) /\ Cluster(doc)[f] = doc[Latest(S)]
      /\ f \in DOMAIN Cluster(file) /\ Cluster(file)[f] = file[Latest(T)]
  BY <1>3, <1>4 DEF Cluster, Spellings
<1>6. Latest(S) \in S
  <2>1. S \in SUBSET DOMAIN doc
    BY DEF Spellings
  <2>2. IsFiniteSet(S)
    BY <2>1, FS_Subset DEF Origin
  <2>3. Level(S)
    BY <1>0, SpellingsLevel
  <2> QED
    BY <1>4, <2>2, <2>3, LatestIn
<1> QED
  BY <1>1, <1>3, <1>5, <1>6

LEMMA AskedInvGives == Shape /\ TypeOK /\ AskedInv => AcceptedMeansAsked
<1> SUFFICES ASSUME Shape, TypeOK, AskedInv, phase = "loaded", Direct(DOMAIN values)
             PROVE  AcceptedMeansAsked
  BY DEF AcceptedMeansAsked
<1>0. Origin /\ Progress
  BY DEF AskedInv
<1>1. ASSUME NEW i \in DOMAIN set
      PROVE  \/ \E j \in DOMAIN set : j > i /\ set[j].key = set[i].key
             \/ Lost(set[i].key) \/ Altered(set[i].texts)
             \/ Means(Cluster(doc)[Field(Target(set[i].key))], set[i].texts)
  BY <1>0, PairHolds
<1>2. ASSUME NEW f \in DOMAIN Cluster(doc) \union DOMAIN Cluster(file)
      PROVE  \/ \E key \in DOMAIN values : Touches(key, f)
             \/ f \in DOMAIN Cluster(doc) /\ f \in DOMAIN Cluster(file)
                /\ Cluster(doc)[f] = Cluster(file)[f]
  BY <1>0, FieldUnchanged
<1> QED
  BY <1>1, <1>2 DEF AcceptedMeansAsked

LEMMA AskedInductive == Shape /\ TypeOK /\ AskedInv /\ [Next]_vars => AskedInv'
<1> SUFFICES ASSUME Shape, TypeOK, AskedInv, [Next]_vars PROVE AskedInv'
  OBVIOUS
<1>0. file' = file /\ set' = set
  BY DEF Next, Map, Merge, MergeFound, LoadAPIModel, vars
<1>d. values' = values => (Direct(DOMAIN values)' <=> Direct(DOMAIN values))
  BY <1>0 DEF Direct
<1>1. CASE Map
  <2>1. doc = file /\ done = {} /\ doc' = file /\ done' = {}
    BY <1>1 DEF Map, Shape
  <2>2. IsFiniteSet(DOMAIN doc')
    BY <2>1, FiniteAssumption DEF Shape
  <2>3. Origin'
    BY <1>0, <2>1, <2>2 DEF Origin, FromFile
  <2>4. Progress'
    BY <1>0, <1>1 DEF Map, Progress
  <2> QED
    BY <2>3, <2>4 DEF AskedInv
<1>2. ASSUME NEW key \in DOMAIN values, Merge(key) PROVE AskedInv'
  <2>1. values' = values /\ phase = "merging" /\ key \notin done
    BY <1>2 DEF Merge
  <2>2. CASE IndexPanics(doc, key)
    <3>1. doc' = doc /\ done' = done /\ phase' = "crashed"
      BY <1>2, <2>2 DEF Merge
    <3>2. Origin => Origin'
      BY <1>0, <2>1, <3>1 DEF Origin, FromKey, FromFile, Buried, Clear
    <3> QED
      BY <1>d, <2>1, <3>1, <3>2 DEF AskedInv, Progress
  <2>3. CASE ~ IndexPanics(doc, key)
    <3>1. /\ done' = done \union {key} /\ phase' = phase
          /\ doc' = IF Settable(doc, key) THEN SetP(doc, Target(key), values[key]) ELSE doc
      BY <1>2, <2>3 DEF Merge
    <3>2. Origin => Origin'
      BY <1>0, <2>1, <3>1, StepOrigin
    <3>3. Progress'
      BY <1>0, <2>1, <3>1 DEF AskedInv, Progress
    <3> QED
      BY <1>d, <2>1, <3>2, <3>3 DEF AskedInv
  <2> QED
    BY <2>2, <2>3
<1>3. CASE LoadAPIModel
  <2>1. UNCHANGED <<values, done, doc>>
    BY <1>3 DEF LoadAPIModel
  <2>2. Origin => Origin'
    BY <1>0, <2>1 DEF Origin, FromKey, FromFile, Buried, Clear
  <2>3. Progress'
    BY <1>0, <1>3 DEF AskedInv, Progress, LoadAPIModel
  <2> QED
    BY <1>d, <2>1, <2>2, <2>3 DEF AskedInv
<1>4. CASE UNCHANGED vars
  <2>1. Origin => Origin'
    BY <1>0, <1>4 DEF vars, Origin, FromKey, FromFile, Buried, Clear
  <2>2. Progress'
    BY <1>4 DEF vars, AskedInv, Progress
  <2> QED
    BY <1>d, <1>4, <2>1, <2>2 DEF AskedInv, vars
<1>5. ASSUME NEW key \in DOMAIN values, MergeFound(key) PROVE AskedInv'
  <2>1. values' = values /\ phase = "merging" /\ phase' \in {"merging", "crashed"}
    BY <1>5 DEF MergeFound
  <2>2. ~ Direct(DOMAIN values)
    <3> SUFFICES ASSUME Direct(DOMAIN values) PROVE FALSE
      OBVIOUS
    <3>1. Rooted(doc)
      BY OriginRooted DEF AskedInv
    <3>2. \A q \in DOMAIN file : q \in Paths
      BY ShapeFacts
    <3>3. GoodKey(key) /\ ~ Spreads(file, key)
      BY DEF Shape, Direct
    <3>4. ~ Spreads(doc, key)
      BY <3>1, <3>2, <3>3, StaysDirect
    <3> QED
      BY <1>5, <3>4 DEF MergeFound
  <2>3. Progress'
    BY <1>0, <2>1 DEF AskedInv, Progress
  <2> QED
    BY <1>d, <2>1, <2>2, <2>3 DEF AskedInv
<1> QED
  BY <1>1, <1>2, <1>3, <1>4, <1>5 DEF Next

\* A document that is accepted says what the file and the command say: every pair that finds
\* its place has its text there, if the tool does not change the text, whatever the order of
\* the map, and nothing else has changed.
THEOREM AskedIsGiven == Spec => []AcceptedMeansAsked
<1>1. Init => AskedInv
  <2> SUFFICES ASSUME Init PROVE AskedInv
    OBVIOUS
  <2>1. file \in Files /\ doc = file /\ done = {} /\ phase = "mapping"
    BY DEF Init
  <2>2. IsFiniteSet(DOMAIN doc)
    BY <2>1, FiniteAssumption
  <2> QED
    BY <2>1, <2>2 DEF AskedInv, Origin, Progress, FromFile
<1>2. IInv /\ AskedInv /\ [Next]_vars => AskedInv'
  BY AskedInductive DEF IInv
<1>3. IInv /\ AskedInv => AcceptedMeansAsked
  BY AskedInvGives DEF IInv
<1> QED
  BY <1>1, <1>2, <1>3, Invariant, PTL DEF Spec

=============================================================================
