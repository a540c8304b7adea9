-------------------------- MODULE MigrationProofs ---------------------------
(***************************************************************************)
(* Proofs about updates of the governance SCORE: from every storage that a *)
(* release may have left, with every set of step costs, every white list   *)
(* and every sequence of updates and proposals.                            *)
(***************************************************************************)
EXTENDS Migration, FiniteSetTheorems, SequenceTheorems, TLAPS

-----------------------------------------------------------------------------
(* Versions.                                                               *)

Part == Int \cup {Null}

\* A set of numbers that holds zero and the successor of each of its elements
\* holds them all.
LEMMA AllNumbers ==
    ASSUME NEW S, 0 \in S, \A n \in Nat : n \in S => n + 1 \in S
    PROVE  \A n \in Nat : n \in S
<1> DEFINE R == OpToRel(<, Nat)
           T == Nat \ S
<1>1. \A y, n \in Nat : y < n => <<y, n>> \in R
  BY DEF OpToRel
<1>2. IsWellFoundedOn(R, Nat)
  BY NatLessThanWellFounded
<1> HIDE DEF R
<1>3. SUFFICES ASSUME T # {} PROVE FALSE
  OBVIOUS
<1>4. PICK k \in T : \A y \in T : ~(<<y, k>> \in R)
  <2>1. T \subseteq Nat
    OBVIOUS
  <2> HIDE DEF T
  <2> QED
    BY <1>2, <1>3, <2>1, WFMin
<1>5. k \in Nat /\ k \notin S
  OBVIOUS
<1>6. k # 0
  BY <1>5
<1>7. k - 1 \in Nat /\ k - 1 < k /\ (k - 1) + 1 = k
  BY <1>5, <1>6
<1>8. k - 1 \in T
  BY <1>5, <1>7
<1>9. <<k - 1, k>> \in R
  BY <1>1, <1>5, <1>7
<1> QED
  BY <1>4, <1>8, <1>9

\* What _versions has collected after n parts, given what it had before.
Collected(v, f, n) ==
    IF n = 0 THEN <<>>
    ELSE IF v[n] = Null THEN f[n - 1]
    ELSE Append(f[n - 1], v[n])

\* f is what it has collected after each of the first m parts.
Collection(v, f, m) ==
    DOMAIN f = 0..m /\ \A n \in 0..m : f[n] = Collected(v, f, n)

\* One part after the other is collected.
LEMMA CollectionExists ==
    ASSUME NEW v, NEW m \in Nat
    PROVE  \E f : Collection(v, f, m)
<1> DEFINE S == {k \in Nat : \E f : Collection(v, f, k)}
<1>1. 0 \in S
  <2> DEFINE f == [n \in 0..0 |-> <<>>]
  <2>1. DOMAIN f = 0..0 /\ f[0] = <<>> /\ \A n \in 0..0 : n = 0
    OBVIOUS
  <2> HIDE DEF f
  <2>2. Collection(v, f, 0)
    BY <2>1 DEF Collection, Collected
  <2> QED
    BY <2>2
<1>2. ASSUME NEW k \in Nat, k \in S
      PROVE  k + 1 \in S
  <2>1. PICK f : Collection(v, f, k)
    BY <1>2
  <2> DEFINE g == [n \in 0..(k + 1) |->
                      IF n = k + 1 THEN Collected(v, f, k + 1) ELSE f[n]]
  <2>2. ASSUME NEW n \in 0..(k + 1)
        PROVE  g[n] = Collected(v, g, n)
    <3>1. n # 0 => n - 1 \in 0..(k + 1) /\ n - 1 # k + 1
      OBVIOUS
    <3>2. n # 0 => g[n - 1] = f[n - 1]
      BY <3>1
    <3>3. g[n] = IF n = k + 1 THEN Collected(v, f, k + 1) ELSE f[n]
      OBVIOUS
    <3> HIDE DEF g
    <3>4. Collected(v, g, n) = Collected(v, f, n)
      BY <3>2 DEF Collected
    <3>5. n # k + 1 => n \in 0..k
      OBVIOUS
    <3>6. g[n] = Collected(v, f, n)
      BY <2>1, <3>3, <3>5 DEF Collection
    <3> QED
      BY <3>4, <3>6
  <2>3. DOMAIN g = 0..(k + 1)
    OBVIOUS
  <2> HIDE DEF g
  <2>4. Collection(v, g, k + 1)
    BY <2>2, <2>3 DEF Collection
  <2> QED
    BY <2>4
<1> HIDE DEF S
<1>3. m \in S
  BY <1>1, <1>2, AllNumbers
<1> QED
  BY <1>3 DEF S

\* _versions returns the last of such a collection.
LEMMA VersionsCollected ==
    ASSUME NEW v \in Seq(Part)
    PROVE  \E f : Collection(v, f, Len(v)) /\ Versions(v) = f[Len(v)]
<1> DEFINE F(f) == [n \in 0..Len(v) |-> IF n = 0 THEN <<>>
                                        ELSE IF v[n] = Null THEN f[n - 1]
                                        ELSE Append(f[n - 1], v[n])]
           parts == CHOOSE f : f = F(f)
<1>1. Len(v) \in Nat
  BY LenProperties
<1>2. PICK g : g = F(g)
  <2>1. PICK f : Collection(v, f, Len(v))
    BY <1>1, CollectionExists
  <2> DEFINE g == [n \in 0..Len(v) |-> f[n]]
  <2>2. ASSUME NEW n \in 0..Len(v)
        PROVE  g[n] = F(g)[n]
    <3>1. n # 0 => n - 1 \in 0..Len(v)
      BY <1>1
    <3>2. g[n] = f[n] /\ (n # 0 => g[n - 1] = f[n - 1])
      BY <3>1
    <3>3. f[n] = Collected(v, f, n)
      BY <2>1 DEF Collection
    <3> HIDE DEF g
    <3> QED
      BY <3>2, <3>3 DEF Collected
  <2>3. g = F(g)
    BY <2>2
  <2> HIDE DEF F
  <2> QED
    BY <2>3
<1>3. parts = F(parts)
  <2> HIDE DEF F
  <2> QED
    BY <1>2
<1>4. Versions(v) = parts[Len(v)]
  BY DEF Versions
<1> HIDE DEF parts
<1>5. /\ DOMAIN parts = 0..Len(v)
      /\ \A n \in 0..Len(v) : parts[n] = Collected(v, parts, n)
  BY <1>3 DEF Collected
<1> QED
  BY <1>4, <1>5 DEF Collection

\* All that it returns is numbers.
LEMMA VersionsAreNumbers ==
    ASSUME NEW v \in Seq(Part)
    PROVE  Versions(v) \in Seq(Int)
<1>1. PICK f : Collection(v, f, Len(v)) /\ Versions(v) = f[Len(v)]
  BY VersionsCollected
<1>2. Len(v) \in Nat /\ \A i \in 1..Len(v) : v[i] \in Part
  BY LenProperties, ElementOfSeq
<1> DEFINE S == {n \in Nat : n <= Len(v) => f[n] \in Seq(Int)}
<1>3. 0 \in S
  <2>1. 0 \in 0..Len(v)
    BY <1>2
  <2>2. f[0] = <<>>
    BY <1>1, <2>1 DEF Collection, Collected
  <2>3. f[0] \in Seq(Int)
    BY <2>2
  <2> QED
    BY <2>3, Zenon
<1>4. ASSUME NEW n \in Nat, n \in S
      PROVE  n + 1 \in S
  <2>1. SUFFICES ASSUME n + 1 <= Len(v) PROVE f[n + 1] \in Seq(Int)
    OBVIOUS
  <2>2. /\ n + 1 \in 0..Len(v) /\ n + 1 \in 1..Len(v)
        /\ n + 1 # 0 /\ (n + 1) - 1 = n /\ n <= Len(v)
    BY <1>2, <2>1
  <2>3. f[n] \in Seq(Int)
    BY <1>4, <2>2
  <2>4. f[n + 1] = IF v[n + 1] = Null THEN f[n] ELSE Append(f[n], v[n + 1])
    BY <1>1, <2>2 DEF Collection, Collected
  <2>5. v[n + 1] \in Int \/ v[n + 1] = Null
    BY <1>2, <2>2 DEF Part
  <2> QED
    BY <2>3, <2>4, <2>5, AppendProperties
<1> HIDE DEF S
<1>5. Len(v) \in S
  BY <1>2, <1>3, <1>4, AllNumbers
<1> QED
  BY <1>1, <1>2, <1>5 DEF S

\* This release has version 1.2.0, which is not less than 1.1.0.
LEMMA ThisVersion ==
    /\ VERSION \in Seq(Part)
    /\ ~IsLess(Versions(VERSION), <<1, 1, 0>>)
<1> DEFINE v == <<1, 2, 0>>
<1>1. v \in Seq(Part) /\ Len(v) = 3 /\ v[1] = 1 /\ v[2] = 2 /\ v[3] = 0
  BY DEF Part
<1>2. 0 # Null /\ 1 # Null /\ 2 # Null
  BY MigrationAssumption
<1> HIDE DEF v
<1>3. PICK f : Collection(v, f, 3) /\ Versions(v) = f[3]
  BY <1>1, VersionsCollected
<1>4. 0 \in 0..3 /\ 1 \in 0..3 /\ 2 \in 0..3 /\ 3 \in 0..3
  OBVIOUS
<1>5. f[0] = <<>>
  BY <1>3, <1>4 DEF Collection, Collected
<1>6. f[1] = Append(f[0], 1)
  BY <1>1, <1>2, <1>3, <1>4 DEF Collection, Collected
<1>7. f[2] = Append(f[1], 2)
  BY <1>1, <1>2, <1>3, <1>4 DEF Collection, Collected
<1>8. f[3] = Append(f[2], 0)
  BY <1>1, <1>2, <1>3, <1>4 DEF Collection, Collected
<1>9. f[1] \in Seq(Int) /\ Len(f[1]) = 1 /\ f[1][1] = 1
  BY <1>5, <1>6
<1>10. /\ f[2] \in Seq(Int) /\ Len(f[2]) = 2 /\ f[2][1] = 1 /\ f[2][2] = 2
  BY <1>7, <1>9, AppendProperties
<1>11. /\ f[3] \in Seq(Int) /\ Len(f[3]) = 3 /\ f[3][1] = 1 /\ f[3][2] = 2
  BY <1>8, <1>10, AppendProperties
<1> DEFINE s == f[3]
           t == <<1, 1, 0>>
<1>12. t \in Seq(Int) /\ Len(t) = 3 /\ t[1] = 1 /\ t[2] = 1
  OBVIOUS
<1> HIDE DEF s, t
<1>13. ASSUME NEW n \in 0..2,
              SubSeq(s, 1, n) = SubSeq(t, 1, n), s[n + 1] < t[n + 1]
       PROVE  FALSE
  <2>1. CASE n = 0
    BY <1>11, <1>12, <1>13, <2>1 DEF s
  <2>2. CASE n = 1
    BY <1>11, <1>12, <1>13, <2>2 DEF s
  <2>3. CASE n = 2
    <3>1. SubSeq(s, 1, 2)[2] = s[2] /\ SubSeq(t, 1, 2)[2] = t[2]
      BY <1>11, <1>12 DEF s
    <3> QED
      BY <1>11, <1>12, <1>13, <2>3, <3>1 DEF s
  <2> QED
    BY <2>1, <2>2, <2>3
<1>14. ~IsLess(s, t)
  <2>1. Len(s) = 3 /\ Len(t) = 3
    BY <1>11, <1>12 DEF s
  <2> QED
    BY <1>13, <2>1 DEF IsLess
<1> QED
  BY <1>1, <1>3, <1>14 DEF s, t, v, VERSION

\* A version before one of the early releases is before 1.1.0.
LEMMA EarlierStill ==
    ASSUME NEW s \in Seq(Int), NEW k \in Int, IsLess(s, <<0, 0, k>>)
    PROVE  IsLess(s, <<1, 1, 0>>)
<1> DEFINE r == <<0, 0, k>>
           t == <<1, 1, 0>>
<1>1. /\ r \in Seq(Int) /\ Len(r) = 3 /\ r[1] = 0
      /\ t \in Seq(Int) /\ Len(t) = 3 /\ t[1] = 1
  OBVIOUS
<1> HIDE DEF r, t
<1>2. PICK n \in 0..2 :
          /\ n <= Len(s)
          /\ SubSeq(s, 1, n) = SubSeq(r, 1, n)
          /\ n < Len(s) => s[n + 1] < r[n + 1]
  <2>1. IsLess(s, r)
    BY DEF r
  <2>2. \E n \in 0..(Len(r) - 1) :
            /\ n <= Len(s)
            /\ SubSeq(s, 1, n) = SubSeq(r, 1, n)
            /\ n < Len(s) => s[n + 1] < r[n + 1]
    BY <2>1, Zenon DEF IsLess
  <2>3. 0..(Len(r) - 1) = 0..2
    BY <1>1
  <2> QED
    BY <2>2, <2>3, Zenon
<1>3. Len(s) \in Nat
  BY LenProperties
<1>4. ASSUME 0 < Len(s)
      PROVE  s[1] < 1
  <2>1. s[1] \in Int
    BY <1>3, <1>4
  <2>2. CASE n = 0
    BY <1>1, <1>2, <1>4, <2>1, <2>2
  <2>3. CASE n # 0
    <3>1. SubSeq(s, 1, n)[1] = s[1] /\ SubSeq(r, 1, n)[1] = r[1]
      BY <1>1, <1>2, <1>3, <2>3
    <3>2. s[1] = r[1]
      BY <1>2, <3>1, Zenon
    <3> QED
      BY <1>1, <3>2
  <2> QED
    BY <2>2, <2>3
<1>5. SubSeq(s, 1, 0) = SubSeq(t, 1, 0)
  <2>1. SubSeq(s, 1, 0) = <<>> /\ SubSeq(t, 1, 0) = <<>>
    BY <1>1, SubSeqProperties
  <2> QED
    BY <2>1
<1>6. 0 \in 0..(Len(t) - 1) /\ 0 <= Len(s)
  BY <1>1, <1>3
<1>7. 0 < Len(s) => s[0 + 1] < t[0 + 1]
  BY <1>1, <1>4
<1>8. IsLess(s, t)
  BY <1>5, <1>6, <1>7 DEF IsLess
<1> QED
  BY <1>8 DEF t

-----------------------------------------------------------------------------
(* Databases and lists of keys.                                            *)

\* What a container holds after some entries were written.
LEMMA UpdatedParts ==
    ASSUME NEW dict, NEW entries
    PROVE  /\ DOMAIN Updated(dict, entries) = DOMAIN dict \cup DOMAIN entries
           /\ \A k \in DOMAIN entries : Updated(dict, entries)[k] = entries[k]
           /\ \A k \in DOMAIN dict \ DOMAIN entries :
                 Updated(dict, entries)[k] = dict[k]
BY DEF Updated

\* A finite set is listed completely.
LEMMA SetToSeqLists ==
    ASSUME NEW S, IsFiniteSet(S)
    PROVE  SetToSeq(S) \in Seq(S) /\ ToSet(SetToSeq(S)) = S
<1> DEFINE n == Cardinality(S)
           list == SetToSeq(S)
<1>1. n \in Nat /\ ExistsBijection(1..n, S)
  BY FS_NatBijection, FS_CountingElements, FS_CardinalityType
<1>2. PICK f \in [1..n -> S] : f \in Bijection(1..n, S)
  BY <1>1 DEF ExistsBijection, Bijection, Injection
<1>3. \E g \in [1..n -> S] : IsInjective(g)
  BY <1>2 DEF Bijection, Injection, IsInjective
<1>4. list \in [1..n -> S] /\ IsInjective(list)
  BY <1>3, Zenon DEF SetToSeq
<1>5. list \in Seq(S)
  BY <1>1, <1>4
<1> HIDE DEF list
<1>6. list \in Injection(1..n, S)
  BY <1>4 DEF Injection, IsInjective
<1>7. IsFiniteSet(1..n) /\ Cardinality(1..n) = n
  <2>1. Cardinality(1..n) = IF 1 > n THEN 0 ELSE n - 1 + 1
    BY <1>1, FS_Interval
  <2> QED
    BY <1>1, <2>1, FS_Interval
<1>8. list \in Surjection(1..n, S)
  BY <1>6, <1>7, FS_Injection
<1>9. ToSet(list) = S
  BY <1>4, <1>8 DEF Surjection, ToSet
<1> QED
  BY <1>5, <1>9 DEF list

\* The elements of two lists, and of one with one more.
LEMMA ToSetOfTwo ==
    ASSUME NEW S, NEW a \in Seq(S), NEW b \in Seq(S)
    PROVE  a \o b \in Seq(S) /\ ToSet(a \o b) = ToSet(a) \cup ToSet(b)
<1> DEFINE c == a \o b
<1>1. /\ c \in Seq(S) /\ Len(c) = Len(a) + Len(b)
      /\ \A i \in 1..Len(c) :
            c[i] = IF i <= Len(a) THEN a[i] ELSE b[i - Len(a)]
  BY ConcatProperties
<1>2. /\ Len(a) \in Nat /\ Len(b) \in Nat
      /\ DOMAIN a = 1..Len(a) /\ DOMAIN b = 1..Len(b) /\ DOMAIN c = 1..Len(c)
  BY <1>1, LenProperties
<1> HIDE DEF c
<1>3. ToSet(c) \subseteq ToSet(a) \cup ToSet(b)
  <2> SUFFICES ASSUME NEW i \in 1..Len(c)
               PROVE  c[i] \in ToSet(a) \cup ToSet(b)
    BY <1>2 DEF ToSet
  <2>1. CASE i <= Len(a)
    <3>1. i \in DOMAIN a /\ c[i] = a[i]
      BY <1>1, <1>2, <2>1
    <3> QED
      BY <3>1 DEF ToSet
  <2>2. CASE ~(i <= Len(a))
    <3>1. i - Len(a) \in DOMAIN b /\ c[i] = b[i - Len(a)]
      BY <1>1, <1>2, <2>2
    <3> QED
      BY <3>1 DEF ToSet
  <2> QED
    BY <2>1, <2>2
<1>4. ToSet(a) \subseteq ToSet(c)
  <2> SUFFICES ASSUME NEW i \in 1..Len(a)
               PROVE  a[i] \in ToSet(c)
    BY <1>2 DEF ToSet
  <2>1. i \in DOMAIN c /\ c[i] = a[i]
    BY <1>1, <1>2
  <2> QED
    BY <2>1 DEF ToSet
<1>5. ToSet(b) \subseteq ToSet(c)
  <2> SUFFICES ASSUME NEW i \in 1..Len(b)
               PROVE  b[i] \in ToSet(c)
    BY <1>2 DEF ToSet
  <2>1. Len(a) + i \in 1..Len(c) /\ ~(Len(a) + i <= Len(a))
        /\ (Len(a) + i) - Len(a) = i
    BY <1>1, <1>2
  <2>2. Len(a) + i \in DOMAIN c /\ c[Len(a) + i] = b[i]
    BY <1>1, <1>2, <2>1
  <2> QED
    BY <2>2 DEF ToSet
<1> QED
  BY <1>1, <1>3, <1>4, <1>5 DEF c

LEMMA ToSetAppend ==
    ASSUME NEW S, NEW a \in Seq(S), NEW e \in S
    PROVE  Append(a, e) \in Seq(S) /\ ToSet(Append(a, e)) = ToSet(a) \cup {e}
<1>1. Append(a, e) = a \o <<e>> /\ <<e>> \in Seq(S)
  BY AppendIsConcat
<1>2. ToSet(<<e>>) = {e}
  BY DEF ToSet
<1> DEFINE b == <<e>>
<1> HIDE DEF b
<1>3. a \o b \in Seq(S) /\ ToSet(a \o b) = ToSet(a) \cup ToSet(b)
  <2>1. b \in Seq(S)
    BY <1>1 DEF b
  <2> QED
    BY <2>1, ToSetOfTwo
<1> QED
  BY <1>1, <1>2, <1>3, Zenon DEF b

-----------------------------------------------------------------------------
(* The migrations.                                                         *)

\* The kind of what is stored.
Fields ==
    {"version", "stepTypes", "stepCosts", "stepPrice", "maxStepLimits",
     "revision", "importWhiteList", "importWhiteListKeys", "scoreBlackList",
     "deployerList", "serviceConfig"}

LEMMA FieldsOfStorage == DOMAIN NoStorage = Fields
BY DEF NoStorage, Fields

\* Every container but those of the step costs is as it was.
SameButCosts(s, t) ==
    /\ t.version = s.version
    /\ t.stepPrice = s.stepPrice
    /\ t.maxStepLimits = s.maxStepLimits
    /\ t.revision = s.revision
    /\ t.importWhiteList = s.importWhiteList
    /\ t.importWhiteListKeys = s.importWhiteListKeys
    /\ t.scoreBlackList = s.scoreBlackList
    /\ t.serviceConfig = s.serviceConfig

\* 0.0.2 sets the initial costs beside the others and lists the types of all.
LEMMA CostsMigrated ==
    ASSUME NEW s, Legacy(s)
    PROVE  /\ DOMAIN MigrateV002(s) = Fields
           /\ SameButCosts(s, MigrateV002(s))
           /\ MigrateV002(s).stepCosts = Updated(s.stepCosts, INITIAL_COSTS)
           /\ ToSet(MigrateV002(s).stepTypes)
                  = DOMAIN Updated(s.stepCosts, INITIAL_COSTS)
<1> DEFINE known == DOMAIN INITIAL_COSTS \cap DOMAIN s.stepCosts
           missing == {t \in DOMAIN INITIAL_COSTS : t \notin DOMAIN s.stepCosts}
           old == IF s.stepTypes = <<>> THEN SetToSeq(known) ELSE s.stepTypes
           listed == IF s.stepTypes = <<>>
                     THEN [s EXCEPT !.stepTypes = SetToSeq(known)] ELSE s
<1>1. IsFiniteSet(known) /\ IsFiniteSet(missing)
  BY MigrationAssumption, FS_Subset
<1>2. /\ SetToSeq(known) \in Seq(known) /\ ToSet(SetToSeq(known)) = known
      /\ SetToSeq(missing) \in Seq(missing) /\ ToSet(SetToSeq(missing)) = missing
  BY <1>1, SetToSeqLists
<1>3. known \subseteq STRING /\ missing \subseteq STRING
  BY MigrationAssumption
<1>4. SetToSeq(known) \in Seq(STRING) /\ SetToSeq(missing) \in Seq(STRING)
  <2> HIDE DEF known, missing
  <2> QED
    BY <1>2, <1>3, SeqMonotonic
<1>5. s.stepTypes \in Seq(STRING) /\ DOMAIN s = Fields
  BY FieldsOfStorage DEF Legacy
<1>6. old \in Seq(STRING) /\ ToSet(old) = DOMAIN s.stepCosts
  <2>1. CASE s.stepTypes = <<>>
    <3>1. DOMAIN s.stepCosts \subseteq DOMAIN INITIAL_COSTS
      <4>1. ToSet(<<>>) = {}
        BY DEF ToSet
      <4> QED
        BY <2>1, <4>1 DEF Legacy
    <3>2. known = DOMAIN s.stepCosts
      BY <3>1
    <3> QED
      BY <1>2, <1>4, <2>1, <3>2
  <2>2. CASE s.stepTypes # <<>>
    BY <1>5, <2>2 DEF Legacy
  <2> QED
    BY <2>1, <2>2
<1>7. /\ DOMAIN listed = Fields /\ SameButCosts(s, listed)
      /\ listed.stepTypes = old /\ listed.stepCosts = s.stepCosts
  BY <1>5 DEF SameButCosts, Fields
<1>8. MigrateV002(s) = SetInitialStepCosts(listed)
  BY DEF MigrateV002
<1> DEFINE new == [listed EXCEPT !.stepTypes = @ \o SetToSeq(missing),
                                 !.stepCosts = Updated(@, INITIAL_COSTS)]
<1>9. SetInitialStepCosts(listed) = new
  <2> HIDE DEF listed
  <2> QED
    BY <1>7 DEF SetInitialStepCosts
<1> HIDE DEF listed, old
<1>10. /\ DOMAIN new = Fields /\ SameButCosts(s, new)
       /\ new.stepTypes = old \o SetToSeq(missing)
       /\ new.stepCosts = Updated(s.stepCosts, INITIAL_COSTS)
  BY <1>7 DEF SameButCosts, Fields
<1>11. ToSet(new.stepTypes) = DOMAIN s.stepCosts \cup DOMAIN INITIAL_COSTS
  <2> HIDE DEF missing, new
  <2>1. ToSet(old \o SetToSeq(missing))
            = ToSet(old) \cup ToSet(SetToSeq(missing))
    BY <1>4, <1>6, ToSetOfTwo
  <2>2. missing \cup DOMAIN s.stepCosts
            = DOMAIN s.stepCosts \cup DOMAIN INITIAL_COSTS
    BY DEF missing
  <2> QED
    BY <1>2, <1>6, <1>10, <2>1, <2>2
<1> HIDE DEF new
<1> QED
  BY <1>8, <1>9, <1>10, <1>11, UpdatedParts

\* 0.0.3 opens the imports of iconservice if it was not listed, and puts the
\* limits beside the white list.
LEMMA WhiteListMigrated ==
    ASSUME NEW s, DOMAIN s = Fields
    PROVE  /\ DOMAIN MigrateV003(s) = Fields
           /\ MigrateV003(s).stepTypes = s.stepTypes
           /\ MigrateV003(s).stepCosts = s.stepCosts
           /\ MigrateV003(s).stepPrice = s.stepPrice
           /\ MigrateV003(s).maxStepLimits = s.maxStepLimits
           /\ MigrateV003(s).revision = s.revision
           /\ MigrateV003(s).scoreBlackList = s.scoreBlackList
           /\ MigrateV003(s).serviceConfig
                  = ServiceFlags \cup {"SCORE_PACKAGE_VALIDATOR"}
           /\ IF "iconservice" \in DOMAIN s.importWhiteList
              THEN /\ MigrateV003(s).importWhiteListKeys = s.importWhiteListKeys
                   /\ MigrateV003(s).importWhiteList
                          = Updated(s.importWhiteList, INITIAL_LIMITS)
              ELSE /\ MigrateV003(s).importWhiteListKeys
                          = Append(s.importWhiteListKeys, "iconservice")
                   /\ MigrateV003(s).importWhiteList
                          = Updated(Updated(s.importWhiteList, INITIAL_LIMITS),
                                    OPEN_WHITE_LIST)
<1> DEFINE a == [s EXCEPT !.importWhiteList = Updated(@, INITIAL_LIMITS)]
           b == SetInitialImportWhiteList(a)
           c == SetInitialServiceConfig(b)
<1>1. /\ DOMAIN a = Fields
      /\ a.importWhiteList = Updated(s.importWhiteList, INITIAL_LIMITS)
      /\ \A k \in Fields \ {"importWhiteList"} : a[k] = s[k]
  BY DEF Fields
<1>2. "iconservice" \in DOMAIN a.importWhiteList
          <=> "iconservice" \in DOMAIN s.importWhiteList
  <2>1. DOMAIN INITIAL_LIMITS = {"invoke", "query"}
    BY DEF INITIAL_LIMITS
  <2> HIDE DEF a
  <2>2. DOMAIN Updated(s.importWhiteList, INITIAL_LIMITS)
            = DOMAIN s.importWhiteList \cup DOMAIN INITIAL_LIMITS
    BY UpdatedParts, Zenon
  <2>3. DOMAIN a.importWhiteList = DOMAIN s.importWhiteList \cup {"invoke", "query"}
    BY <1>1, <2>1, <2>2, Zenon
  <2> QED
    BY ONLY <2>3
<1> HIDE DEF a
<1> DEFINE opened == [a EXCEPT !.importWhiteList = Updated(@, OPEN_WHITE_LIST),
                               !.importWhiteListKeys = Append(@, "iconservice")]
<1>3. /\ DOMAIN opened = Fields
      /\ opened.importWhiteList = Updated(a.importWhiteList, OPEN_WHITE_LIST)
      /\ opened.importWhiteListKeys = Append(a.importWhiteListKeys, "iconservice")
      /\ \A k \in Fields \ {"importWhiteList", "importWhiteListKeys"} :
            opened[k] = a[k]
  BY <1>1 DEF Fields
<1> HIDE DEF opened
<1>4. b = IF "iconservice" \in DOMAIN s.importWhiteList THEN a ELSE opened
  BY <1>2 DEF SetInitialImportWhiteList, opened
<1>5. /\ DOMAIN b = Fields
      /\ \A k \in Fields \ {"importWhiteList", "importWhiteListKeys"} :
            b[k] = s[k]
      /\ IF "iconservice" \in DOMAIN s.importWhiteList
         THEN /\ b.importWhiteListKeys = s.importWhiteListKeys
              /\ b.importWhiteList = Updated(s.importWhiteList, INITIAL_LIMITS)
         ELSE /\ b.importWhiteListKeys
                     = Append(s.importWhiteListKeys, "iconservice")
              /\ b.importWhiteList
                     = Updated(Updated(s.importWhiteList, INITIAL_LIMITS),
                               OPEN_WHITE_LIST)
  BY <1>1, <1>3, <1>4 DEF Fields
<1> HIDE DEF b
<1>6. /\ DOMAIN c = Fields
      /\ c.serviceConfig = ServiceFlags \cup {"SCORE_PACKAGE_VALIDATOR"}
      /\ \A k \in Fields \ {"serviceConfig"} : c[k] = b[k]
  BY <1>5 DEF SetInitialServiceConfig, Fields
<1> HIDE DEF c
<1>7. MigrateV003(s) = c
  BY DEF MigrateV003, SetInitialMaxStepLimits, a, b, c
<1> QED
  BY <1>5, <1>6, <1>7 DEF Fields

\* The old release opens iconservice when it is updated.
Opens ==
    IsLessThanTargetVersion(<<0, 0, 3>>)
    /\ "iconservice" \notin DOMAIN db.importWhiteList

\* What the containers hold when 1.1.0 reads them.
LEMMA MigratedParts ==
    ASSUME Legacy(db)
    PROVE  /\ DOMAIN Migrated = Fields
           /\ ToSet(Migrated.stepTypes) = DOMAIN Migrated.stepCosts
           /\ Migrated.stepCosts =
                  IF IsLessThanTargetVersion(<<0, 0, 2>>)
                  THEN Updated(db.stepCosts, INITIAL_COSTS)
                  ELSE db.stepCosts
           /\ Migrated.stepPrice = db.stepPrice
           /\ Migrated.maxStepLimits = db.maxStepLimits
           /\ Migrated.revision =
                  IF IsLessThanTargetVersion(<<0, 0, 5>>) THEN 2 ELSE db.revision
           /\ Migrated.scoreBlackList = db.scoreBlackList
           /\ Migrated.serviceConfig =
                  IF IsLessThanTargetVersion(<<0, 0, 3>>)
                  THEN ServiceFlags \cup {"SCORE_PACKAGE_VALIDATOR"}
                  ELSE db.serviceConfig
           /\ ToSet(Migrated.importWhiteListKeys)
                  = ToSet(db.importWhiteListKeys)
                    \cup (IF Opens THEN {"iconservice"} ELSE {})
           /\ DOMAIN Migrated.importWhiteList
                  \subseteq ToSet(Migrated.importWhiteListKeys) \cup CONTEXT_TYPE
           /\ Opens => Migrated.importWhiteList["iconservice"] = <<"*">>
           /\ \A key \in ToSet(db.importWhiteListKeys) \ CONTEXT_TYPE :
                 Migrated.importWhiteList[key] = db.importWhiteList[key]
<1> DEFINE s2 == IF IsLessThanTargetVersion(<<0, 0, 2>>)
                 THEN MigrateV002(db) ELSE db
           s3 == IF IsLessThanTargetVersion(<<0, 0, 3>>)
                 THEN MigrateV003(s2) ELSE s2
           s5 == IF IsLessThanTargetVersion(<<0, 0, 5>>)
                 THEN SetInitialRevision(s3) ELSE s3
<1>1. /\ DOMAIN s2 = Fields /\ SameButCosts(db, s2)
      /\ ToSet(s2.stepTypes) = DOMAIN s2.stepCosts
      /\ s2.stepCosts = IF IsLessThanTargetVersion(<<0, 0, 2>>)
                        THEN Updated(db.stepCosts, INITIAL_COSTS)
                        ELSE db.stepCosts
  <2>1. CASE IsLessThanTargetVersion(<<0, 0, 2>>)
    BY <2>1, CostsMigrated
  <2>2. CASE ~IsLessThanTargetVersion(<<0, 0, 2>>)
    <3>1. DOMAIN db.stepCosts = ToSet(db.stepTypes)
      BY <2>2 DEF Legacy, IsLessThanTargetVersion
    <3>2. DOMAIN db = Fields
      BY FieldsOfStorage DEF Legacy
    <3> QED
      BY <2>2, <3>1, <3>2 DEF SameButCosts
  <2> QED
    BY <2>1, <2>2
<1> HIDE DEF s2
<1>2. /\ DOMAIN s3 = Fields
      /\ s3.stepTypes = s2.stepTypes /\ s3.stepCosts = s2.stepCosts
      /\ s3.stepPrice = db.stepPrice /\ s3.maxStepLimits = db.maxStepLimits
      /\ s3.revision = db.revision /\ s3.scoreBlackList = db.scoreBlackList
      /\ s3.serviceConfig =
             IF IsLessThanTargetVersion(<<0, 0, 3>>)
             THEN ServiceFlags \cup {"SCORE_PACKAGE_VALIDATOR"}
             ELSE db.serviceConfig
  BY <1>1, WhiteListMigrated DEF SameButCosts
<1>3. /\ ToSet(s3.importWhiteListKeys)
             = ToSet(db.importWhiteListKeys)
               \cup (IF Opens THEN {"iconservice"} ELSE {})
      /\ DOMAIN s3.importWhiteList
             \subseteq ToSet(s3.importWhiteListKeys) \cup CONTEXT_TYPE
      /\ Opens => s3.importWhiteList["iconservice"] = <<"*">>
      /\ \A key \in ToSet(db.importWhiteListKeys) \ CONTEXT_TYPE :
            s3.importWhiteList[key] = db.importWhiteList[key]
  <2> DEFINE keys == db.importWhiteListKeys
             white == db.importWhiteList
             beside == Updated(white, INITIAL_LIMITS)
             open == Updated(beside, OPEN_WHITE_LIST)
  <2>1. /\ keys \in Seq(STRING) /\ ToSet(keys) \subseteq DOMAIN white
        /\ DOMAIN white \subseteq ToSet(keys) \cup CONTEXT_TYPE
    BY DEF Legacy
  <2>2. s2.importWhiteList = white /\ s2.importWhiteListKeys = keys
    BY <1>1 DEF SameButCosts
  <2>3. DOMAIN INITIAL_LIMITS = CONTEXT_TYPE
    BY DEF INITIAL_LIMITS, CONTEXT_TYPE
  <2>4. DOMAIN OPEN_WHITE_LIST = {"iconservice"}
        /\ OPEN_WHITE_LIST["iconservice"] = <<"*">>
    BY DEF OPEN_WHITE_LIST
  <2> HIDE DEF keys, white
  <2>5. /\ DOMAIN beside = DOMAIN white \cup CONTEXT_TYPE
        /\ \A key \in DOMAIN white \ CONTEXT_TYPE : beside[key] = white[key]
    BY <2>3, UpdatedParts
  <2> HIDE DEF beside
  <2>6. /\ DOMAIN open = DOMAIN beside \cup {"iconservice"}
        /\ open["iconservice"] = <<"*">>
        /\ \A key \in DOMAIN beside \ {"iconservice"} : open[key] = beside[key]
    <3>1. /\ DOMAIN open = DOMAIN beside \cup DOMAIN OPEN_WHITE_LIST
          /\ \A k \in DOMAIN OPEN_WHITE_LIST : open[k] = OPEN_WHITE_LIST[k]
          /\ \A k \in DOMAIN beside \ DOMAIN OPEN_WHITE_LIST : open[k] = beside[k]
      BY UpdatedParts, Zenon
    <3> HIDE DEF open
    <3> QED
      BY <2>4, <3>1, Zenon
  <2> HIDE DEF open
  <2>7. CASE ~IsLessThanTargetVersion(<<0, 0, 3>>)
    BY <2>1, <2>2, <2>7 DEF Opens, keys, white
  <2>8. CASE IsLessThanTargetVersion(<<0, 0, 3>>)
             /\ "iconservice" \in DOMAIN white
    <3>1. s3.importWhiteListKeys = keys /\ s3.importWhiteList = beside
      BY <1>1, <2>2, <2>8, WhiteListMigrated DEF beside
    <3>2. ~Opens
      BY <2>8 DEF Opens, white
    <3> HIDE DEF s3
    <3> QED
      BY <2>1, <2>5, <3>1, <3>2 DEF keys, white
  <2>9. CASE IsLessThanTargetVersion(<<0, 0, 3>>)
             /\ "iconservice" \notin DOMAIN white
    <3>1. /\ s3.importWhiteListKeys = Append(keys, "iconservice")
          /\ s3.importWhiteList = open
      BY <1>1, <2>2, <2>9, WhiteListMigrated DEF beside, open
    <3>2. Opens
      BY <2>9 DEF Opens, white
    <3>3. ToSet(Append(keys, "iconservice")) = ToSet(keys) \cup {"iconservice"}
      <4> DEFINE S == STRING \cup {"iconservice"}
      <4>1. STRING \subseteq S /\ "iconservice" \in S
        OBVIOUS
      <4> HIDE DEF S
      <4>2. keys \in Seq(S)
        BY <2>1, <4>1, SeqMonotonic
      <4> QED
        BY <4>1, <4>2, ToSetAppend
    <3>4. \A key \in ToSet(keys) \ CONTEXT_TYPE : open[key] = white[key]
      BY <2>1, <2>5, <2>6, <2>9
    <3>5. DOMAIN open \subseteq ToSet(keys) \cup CONTEXT_TYPE \cup {"iconservice"}
      BY <2>1, <2>5, <2>6
    <3> HIDE DEF s3
    <3> QED
      BY <2>6, <3>1, <3>2, <3>3, <3>4, <3>5 DEF keys, white
  <2> QED
    BY <2>7, <2>8, <2>9
<1> HIDE DEF s3
<1>4. /\ DOMAIN s5 = Fields
      /\ \A k \in Fields \ {"revision"} : s5[k] = s3[k]
      /\ s5.revision = IF IsLessThanTargetVersion(<<0, 0, 5>>)
                       THEN 2 ELSE db.revision
  BY <1>2 DEF SetInitialRevision, Fields
<1> HIDE DEF s5
<1>5. Migrated = s5
  BY DEF Migrated, s2, s3, s5
<1> QED
  BY <1>1, <1>2, <1>3, <1>4, <1>5 DEF Fields

\* 1.1.0 then leaves nothing but the version and the misplaced limits.
LEMMA EmptiedIsRetired ==
    ASSUME NEW s, DOMAIN s = Fields,
           ToSet(s.stepTypes) = DOMAIN s.stepCosts,
           DOMAIN s.maxStepLimits \subseteq CONTEXT_TYPE,
           DOMAIN s.importWhiteList
               \subseteq ToSet(s.importWhiteListKeys) \cup CONTEXT_TYPE,
           NEW version
    PROVE  /\ DOMAIN [Emptied(s) EXCEPT !.version = version] = Fields
           /\ [Emptied(s) EXCEPT !.version = version].version = version
           /\ Retired([Emptied(s) EXCEPT !.version = version])
<1> DEFINE e == Emptied(s)
           t == [e EXCEPT !.version = version]
<1>1. /\ DOMAIN e = Fields
      /\ e.stepCosts = Without(s.stepCosts, ToSet(s.stepTypes))
      /\ e.maxStepLimits = Without(s.maxStepLimits, CONTEXT_TYPE)
      /\ e.importWhiteList =
             Without(s.importWhiteList, ToSet(s.importWhiteListKeys))
      /\ e.serviceConfig = {} /\ e.revision = 0 /\ e.stepPrice = 0
      /\ e.stepTypes = <<>> /\ e.importWhiteListKeys = <<>>
      /\ e.scoreBlackList = <<>> /\ e.deployerList = <<>>
  BY DEF Emptied, Fields
<1> HIDE DEF e
<1>2. /\ DOMAIN t = Fields /\ t.version = version
      /\ \A k \in Fields \ {"version"} : t[k] = e[k]
  BY <1>1 DEF Fields
<1> HIDE DEF t
<1>3. ASSUME NEW dict, NEW keys
      PROVE  /\ DOMAIN Without(dict, keys) = DOMAIN dict \ keys
             /\ DOMAIN dict \subseteq keys => Without(dict, keys) = <<>>
  <2>1. DOMAIN Without(dict, keys) = DOMAIN dict \ keys
    BY DEF Without
  <2>2. ASSUME DOMAIN dict \subseteq keys
        PROVE  Without(dict, keys) = <<>>
    <3>1. DOMAIN dict \ keys = {}
      BY <2>2
    <3> QED
      BY <3>1 DEF Without
  <2> QED
    BY <2>1, <2>2
<1>4. e.stepCosts = <<>> /\ e.maxStepLimits = <<>>
  BY <1>1, <1>3
<1>5. DOMAIN e.importWhiteList \subseteq CONTEXT_TYPE
  <2>1. DOMAIN Without(s.importWhiteList, ToSet(s.importWhiteListKeys))
            = DOMAIN s.importWhiteList \ ToSet(s.importWhiteListKeys)
    BY <1>3
  <2>2. e.importWhiteList =
            Without(s.importWhiteList, ToSet(s.importWhiteListKeys))
    BY <1>1
  <2>3. DOMAIN e.importWhiteList
            = DOMAIN s.importWhiteList \ ToSet(s.importWhiteListKeys)
    BY ONLY <2>1, <2>2, Zenon
  <2> QED
    BY <2>3
<1>6. \A k \in Fields \ {"version", "importWhiteList"} : e[k] = NoStorage[k]
  BY <1>1, <1>4 DEF NoStorage, Fields
<1>7. DOMAIN t.importWhiteList \subseteq CONTEXT_TYPE
  BY <1>2, <1>5 DEF Fields
<1>8. Retired(t)
  BY <1>2, <1>6, <1>7, FieldsOfStorage DEF Retired
<1> QED
  BY <1>2, <1>8 DEF t, e

-----------------------------------------------------------------------------
(* The inductive invariant.                                                *)

\* A storage from which nothing remains to be handed over.
Modern(s) ==
    /\ DOMAIN s = Fields
    /\ s.version \in Seq(Part)
    /\ ~IsLess(Versions(s.version), <<1, 1, 0>>)
    /\ Retired(s)

\* Either an old release holds the values, or the platform does and the
\* version says so.
MInv ==
    /\ network # Nothing => DOMAIN network # {}
    /\ db = Nothing => network # Nothing
    /\ db # Nothing /\ network = Nothing =>
          Legacy(db) /\ IsLess(Versions(db.version), <<1, 1, 0>>)
    /\ db # Nothing /\ network # Nothing => Modern(db)

\* An update of what the platform holds migrates nothing.
LEMMA ModernUnmigrated ==
    ASSUME Modern(db)
    PROVE  ~IsLessThanTargetVersion(<<1, 1, 0>>) /\ Migrated = db
<1>1. Versions(db.version) \in Seq(Int)
  BY VersionsAreNumbers DEF Modern
<1>2. ~IsLess(Versions(db.version), <<1, 1, 0>>)
  BY DEF Modern
<1>3. /\ ~IsLess(Versions(db.version), <<0, 0, 2>>)
      /\ ~IsLess(Versions(db.version), <<0, 0, 3>>)
      /\ ~IsLess(Versions(db.version), <<0, 0, 5>>)
  BY <1>1, <1>2, EarlierStill
<1> QED
  BY <1>2, <1>3 DEF IsLessThanTargetVersion, Migrated

\* Records are something.
LEMMA StoredIsSomething ==
    ASSUME NEW s, DOMAIN s # {}
    PROVE  s # Nothing
BY DEF Nothing

LEMMA MInit ==
    ASSUME Init
    PROVE  MInv
<1>0. Fields # {}
  BY DEF Fields
<1>1. CASE db = Nothing /\ network = Genesis
  <2>1. DOMAIN Genesis # {}
    BY MigrationAssumption
  <2> QED
    BY <1>1, <2>1, StoredIsSomething DEF MInv
<1>2. ASSUME NEW d \in Deployments, db = d[1], network = d[2]
      PROVE  MInv
  <2>1. CASE IsLess(Versions(db.version), <<1, 1, 0>>)
    <3>1. Legacy(db) /\ network = Nothing
      BY <1>2, <2>1, MigrationAssumption
    <3>2. DOMAIN db # {}
      BY <1>0, <3>1, FieldsOfStorage DEF Legacy
    <3>3. db # Nothing
      BY <3>2, StoredIsSomething
    <3> QED
      BY <2>1, <3>1, <3>3 DEF MInv
  <2>2. CASE ~IsLess(Versions(db.version), <<1, 1, 0>>)
    <3>1. /\ DOMAIN db = Fields /\ db.version \in Seq(Part) /\ Retired(db)
          /\ DOMAIN network # {}
      BY <1>2, <2>2, MigrationAssumption, FieldsOfStorage DEF Part
    <3>2. db # Nothing /\ network # Nothing
      BY <1>0, <3>1, StoredIsSomething
    <3> QED
      BY <2>2, <3>1, <3>2 DEF MInv, Modern
  <2> QED
    BY <2>1, <2>2
<1> QED
  BY <1>1, <1>2 DEF Init

\* A step after which the platform holds values and the storage none.
LEMMA ModernNext ==
    ASSUME Modern(db'), DOMAIN network' # {}
    PROVE  MInv'
<1>1. DOMAIN db' = Fields
  BY DEF Modern
<1>2. DOMAIN db' # {}
  BY <1>1 DEF Fields
<1>3. db' # Nothing /\ network' # Nothing
  BY <1>2, StoredIsSomething
<1> QED
  BY <1>3 DEF MInv, Nothing

LEMMA MNext ==
    ASSUME MInv, [Next]_vars
    PROVE  MInv'
<1>1. CASE OnInstall
  <2>1. network # Nothing /\ DOMAIN network # {}
    BY <1>1 DEF OnInstall, MInv
  <2>2. DOMAIN network' # {}
    BY <1>1, <2>1 DEF OnInstall, SetStepCostsV1
  <2>3. /\ DOMAIN db' = Fields /\ db'.version = VERSION
        /\ db'.importWhiteList = <<>>
        /\ \A k \in Fields \ {"version"} : db'[k] = NoStorage[k]
    BY <1>1 DEF OnInstall, NoStorage, Fields
  <2>4. DOMAIN <<>> = {}
    OBVIOUS
  <2>5. Retired(db')
    BY <2>3, <2>4, FieldsOfStorage, Zenon DEF Retired
  <2>6. Modern(db')
    BY <2>3, <2>5, ThisVersion DEF Modern
  <2> QED
    BY <2>2, <2>6, ModernNext
<1>2. CASE OnUpdate /\ network = Nothing
  <2>1. Legacy(db) /\ IsLess(Versions(db.version), <<1, 1, 0>>)
    BY <1>2 DEF OnUpdate, MInv
  <2>2. /\ db' = [Emptied(Migrated) EXCEPT !.version = VERSION]
        /\ network' = IconNetworkValues(Migrated)
    BY <1>2, <2>1 DEF OnUpdate, IsLessThanTargetVersion
  <2>3. DOMAIN Migrated.maxStepLimits \subseteq CONTEXT_TYPE
    BY <2>1, MigratedParts DEF Legacy
  <2>4. DOMAIN db' = Fields /\ db'.version = VERSION /\ Retired(db')
    BY <2>1, <2>2, <2>3, MigratedParts, EmptiedIsRetired
  <2>5. Modern(db')
    BY <2>4, ThisVersion DEF Modern
  <2>6. DOMAIN network' # {}
    BY <2>2 DEF IconNetworkValues
  <2> QED
    BY <2>5, <2>6, ModernNext
<1>3. CASE OnUpdate /\ network # Nothing
  <2>1. Modern(db) /\ DOMAIN network # {}
    BY <1>3 DEF OnUpdate, MInv
  <2>2. db' = [db EXCEPT !.version = VERSION] /\ network' = network
    BY <1>3, <2>1, ModernUnmigrated DEF OnUpdate
  <2>3. /\ DOMAIN db' = Fields /\ db'.version = VERSION
        /\ \A k \in Fields \ {"version"} : db'[k] = db[k]
    BY <2>1, <2>2 DEF Modern, Fields
  <2>4. db'.importWhiteList = db.importWhiteList
    BY <2>3 DEF Fields
  <2>5. Retired(db')
    BY <2>1, <2>3, <2>4, FieldsOfStorage DEF Modern, Retired
  <2>6. Modern(db')
    BY <2>3, <2>5, ThisVersion DEF Modern
  <2> QED
    BY <2>1, <2>2, <2>6, ModernNext
<1>4. CASE ChangeNetwork
  <2>1. network # Nothing /\ DOMAIN network # {} /\ db' = db
    BY <1>4 DEF ChangeNetwork, MInv
  <2>2. DOMAIN network' # {}
    <3>1. PICK values \in Proposed : network' = Updated(network, values)
      BY <1>4 DEF ChangeNetwork
    <3>2. DOMAIN network \subseteq DOMAIN Updated(network, values)
      BY DEF Updated
    <3> QED
      BY ONLY <2>1, <3>1, <3>2
  <2>3. network' # Nothing
    BY <2>2, StoredIsSomething
  <2> QED
    BY <2>1, <2>2, <2>3 DEF MInv
<1>5. CASE UNCHANGED vars
  BY <1>5 DEF vars, MInv
<1> QED
  BY <1>1, <1>2, <1>3, <1>4, <1>5 DEF Next

LEMMA MigrationInvariant == Spec => []MInv
<1>1. Init => MInv
  BY MInit
<1>2. MInv /\ [Next]_vars => MInv'
  BY MNext
<1> QED
  BY <1>1, <1>2, PTL DEF Spec

\* The platform receives the values in an update of an old release only.
LEMMA HandOver ==
    ASSUME MInv, Next, HandsOver
    PROVE  Legacy(db) /\ network' = IconNetworkValues(Migrated)
<1>1. network = Nothing /\ network' # Nothing
  BY DEF HandsOver
<1>2. db # Nothing
  BY <1>1 DEF MInv
<1>3. Legacy(db) /\ IsLess(Versions(db.version), <<1, 1, 0>>)
  BY <1>1, <1>2 DEF MInv
<1>4. OnUpdate
  BY <1>1, <1>2 DEF Next, OnInstall, ChangeNetwork
<1> QED
  BY <1>3, <1>4 DEF OnUpdate, IsLessThanTargetVersion

-----------------------------------------------------------------------------
\* Once the platform holds the values, whatever was updated, every container of
\* the SCORE's own is empty but for the misplaced limits.
THEOREM StorageIsRetired == Spec => []OldStorageRemoved
<1>1. MInv => OldStorageRemoved
  BY DEF MInv, Modern, OldStorageRemoved
<1> QED
  BY <1>1, MigrationInvariant, PTL

\* No migration runs twice: an update leaves the values the platform holds.
THEOREM UpdatesAreIdempotent == Spec => UpdatesKeepNetwork
<1>1. MInv /\ [Next]_vars =>
          [OnUpdate /\ network # Nothing => UNCHANGED network]_vars
  <2>1. ASSUME MInv, OnUpdate, network # Nothing
        PROVE  UNCHANGED network
    BY <2>1, ModernUnmigrated DEF OnUpdate, MInv
  <2> QED
    BY <2>1
<1> QED
  BY <1>1, MigrationInvariant, PTL DEF Spec, UpdatesKeepNetwork

\* From every release and every layout of its containers the platform receives
\* what was there and what the migrations in between add, and nothing is lost;
\* the step limits, which 0.0.3 misplaces, from the releases after it.
THEOREM ValuesAreCarriedOver == Spec => CarriedOver
<1> DEFINE Carried ==
        HandsOver =>
            /\ network'.stepCosts =
                   IF Old(<<0, 0, 2>>)
                   THEN Updated(db.stepCosts, INITIAL_COSTS)
                   ELSE db.stepCosts
            /\ ~Old(<<0, 0, 3>>) =>
                   network'.maxStepLimits =
                       [c \in CONTEXT_TYPE |-> Read(db.maxStepLimits, c, 0)]
            /\ network'.stepPrice = db.stepPrice
            /\ network'.revision = IF Old(<<0, 0, 5>>) THEN 2 ELSE db.revision
            /\ network'.scoreBlackList = db.scoreBlackList
            /\ network'.serviceConfig =
                   IF Old(<<0, 0, 3>>)
                   THEN ServiceFlags \cup {"SCORE_PACKAGE_VALIDATOR"}
                   ELSE db.serviceConfig
<1>1. ASSUME MInv, Next, HandsOver
      PROVE  Carried
  <2> DEFINE m == Migrated
  <2>1. Legacy(db) /\ network' = IconNetworkValues(m)
    BY <1>1, HandOver
  <2>2. /\ network'.stepCosts = [t \in ToSet(m.stepTypes) |-> m.stepCosts[t]]
        /\ network'.maxStepLimits
               = [c \in CONTEXT_TYPE |-> Read(m.maxStepLimits, c, 0)]
        /\ network'.stepPrice = m.stepPrice
        /\ network'.revision = m.revision
        /\ network'.scoreBlackList = m.scoreBlackList
        /\ network'.serviceConfig = m.serviceConfig
    BY <2>1 DEF IconNetworkValues
  <2>3. m.stepCosts \in [DOMAIN m.stepCosts -> Int]
    <3>1. db.stepCosts \in [DOMAIN db.stepCosts -> Int]
      BY <2>1 DEF Legacy
    <3>2. Updated(db.stepCosts, INITIAL_COSTS)
              \in [DOMAIN Updated(db.stepCosts, INITIAL_COSTS) -> Int]
      BY <3>1, MigrationAssumption DEF Updated
    <3> QED
      BY <2>1, <3>1, <3>2, MigratedParts
  <2>4. ToSet(m.stepTypes) = DOMAIN m.stepCosts
    BY <2>1, MigratedParts
  <2>5. network'.stepCosts = m.stepCosts
    <3> HIDE DEF m
    <3> QED
      BY <2>2, <2>3, <2>4
  <2>6. m.maxStepLimits = db.maxStepLimits
    BY <2>1, MigratedParts
  <2>7. network'.maxStepLimits
            = [c \in CONTEXT_TYPE |-> Read(db.maxStepLimits, c, 0)]
    <3> HIDE DEF m
    <3> QED
      BY <2>2, <2>6
  <2> QED
    BY <2>1, <2>2, <2>5, <2>7, MigratedParts DEF Old, IsLessThanTargetVersion
<1>2. MInv /\ [Next]_vars => [Carried]_vars
  BY <1>1
<1> QED
  BY <1>2, MigrationInvariant, PTL DEF Spec, CarriedOver

\* One statement, of any packages and names: it is answered after the update
\* as before, iconservice aside.  The misplaced limits, which are no packages,
\* would be taken for entries of the white list.
LEMMA ImportKept ==
    ASSUME MInv, Next, HandsOver, NEW stmt, DOMAIN stmt \cap CONTEXT_TYPE = {}
    PROVE  IsInImportWhiteList(stmt)' <=> WasAllowed(stmt)
<1>1. ASSUME NEW key \in DOMAIN stmt
      PROVE  (/\ key \in DOMAIN network'.importWhiteList
              /\ \/ network'.importWhiteList[key][1] = "*"
                 \/ /\ stmt[key] # {}
                    /\ stmt[key] \subseteq ToSet(network'.importWhiteList[key]))
             <=>
             (\/ /\ Old(<<0, 0, 3>>)
                 /\ key = "iconservice"
                 /\ key \notin DOMAIN db.importWhiteList
              \/ /\ key \in ToSet(db.importWhiteListKeys)
                 /\ \/ "*" \in ToSet(db.importWhiteList[key])
                    \/ /\ stmt[key] # {}
                       /\ \A name \in stmt[key] :
                             name \in ToSet(db.importWhiteList[key]))
  <2> DEFINE white == network'.importWhiteList
             old == db.importWhiteList
             keys == ToSet(db.importWhiteListKeys)
  <2>1. Legacy(db) /\ network' = IconNetworkValues(Migrated)
    BY HandOver
  <2>2. white = [k \in ToSet(Migrated.importWhiteListKeys) |->
                    Migrated.importWhiteList[k]]
    BY <2>1 DEF IconNetworkValues
  <2>4. key \notin CONTEXT_TYPE
    OBVIOUS
  <2>5. /\ DOMAIN white = keys \cup (IF Opens THEN {"iconservice"} ELSE {})
        /\ Opens => white["iconservice"] = <<"*">>
        /\ key \in keys => white[key] = old[key]
    BY <2>1, <2>2, <2>4, MigratedParts
  <2>6. /\ keys \subseteq DOMAIN old
        /\ DOMAIN old \subseteq keys \cup CONTEXT_TYPE
        /\ key \in keys => /\ old[key] \in Seq(STRING) \ {<<>>}
                           /\ "*" \in ToSet(old[key]) => old[key][1] = "*"
    BY <2>1 DEF Legacy
  <2>7. Opens <=> Old(<<0, 0, 3>>) /\ "iconservice" \notin DOMAIN old
    BY DEF Opens, Old, IsLessThanTargetVersion
  <2>8. key \in keys => (old[key][1] = "*" <=> "*" \in ToSet(old[key]))
    <3>1. ASSUME key \in keys PROVE old[key][1] \in ToSet(old[key])
      <4>1. old[key] \in Seq(STRING) /\ old[key] # <<>>
        BY <2>6, <3>1
      <4>2. 1 \in DOMAIN old[key]
        BY <4>1, EmptySeq, LenProperties
      <4> QED
        BY <4>2 DEF ToSet
    <3> QED
      BY <2>6, <3>1
  <2> HIDE DEF white, old, keys
  <2>9. CASE key \in keys
    <3>1. white[key] = old[key] /\ key \in DOMAIN white /\ key \in DOMAIN old
      BY <2>5, <2>6, <2>9
    <3> QED
      BY <2>8, <2>9, <3>1 DEF white, old, keys
  <2>10. CASE key \notin keys
    <3>1. key \in DOMAIN white <=> Opens /\ key = "iconservice"
      BY <2>5, <2>10
    <3>2. Opens /\ key = "iconservice" => white[key][1] = "*"
      BY <2>5
    <3>3. key \in DOMAIN white
              <=> Old(<<0, 0, 3>>) /\ key = "iconservice" /\ key \notin DOMAIN old
      BY <2>7, <3>1
    <3> QED
      BY <2>10, <3>1, <3>2, <3>3 DEF white, old, keys
  <2> QED
    BY <2>9, <2>10
<1> QED
  BY <1>1 DEF IsInImportWhiteList, WasAllowed

\* Whatever can be imported, by any number of packages and names: what the old
\* white list refused stays refused, and what it allowed stays allowed, except
\* that iconservice is opened where it was not listed.
THEOREM EveryImportIsKept ==
    ASSUME NEW AllStatements,
           \A stmt \in AllStatements : DOMAIN stmt \cap CONTEXT_TYPE = {}
    PROVE  Spec => [][HandsOver =>
                        \A stmt \in AllStatements :
                            IsInImportWhiteList(stmt)' <=> WasAllowed(stmt)]_vars
<1>1. MInv /\ [Next]_vars =>
        [HandsOver => \A stmt \in AllStatements :
                         IsInImportWhiteList(stmt)' <=> WasAllowed(stmt)]_vars
  BY ImportKept
<1> QED
  BY <1>1, MigrationInvariant, PTL DEF Spec

\* The statements that a run asks about are among them.
THEOREM ImportsAreKept == Spec => ImportsStayRestricted
<1>1. \A stmt \in Statements : DOMAIN stmt \cap CONTEXT_TYPE = {}
  BY DEF Statements, CONTEXT_TYPE
<1>2. MInv /\ [Next]_vars =>
        [HandsOver => \A stmt \in Statements :
                         IsInImportWhiteList(stmt)' <=> WasAllowed(stmt)]_vars
  BY <1>1, ImportKept
<1> QED
  BY <1>2, MigrationInvariant, PTL DEF Spec, ImportsStayRestricted
=============================================================================
