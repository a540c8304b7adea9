-------------------------- MODULE GovernanceProofs --------------------------
(***************************************************************************)
(* Proofs about network proposals: for every set of P-Reps, every list of  *)
(* them the platform reports between two votes, every delegation and every *)
(* number of proposals open at once.                                       *)
(***************************************************************************)
EXTENDS Governance, FiniteSetTheorems, SequenceTheorems, TLAPS

-----------------------------------------------------------------------------
(* Sequences.                                                              *)

\* The smallest of some natural numbers is one of them.
LEMMA MinIsMember ==
    ASSUME NEW I, I \subseteq Nat, I # {}
    PROVE  Min(I) \in I /\ \A y \in I : Min(I) <= y
<1> DEFINE R == OpToRel(<, Nat)
<1>1. \A y, m \in Nat : y < m => <<y, m>> \in R
  BY DEF OpToRel
<1>2. IsWellFoundedOn(R, Nat)
  BY NatLessThanWellFounded
<1> HIDE DEF R
<1>3. PICK m \in I : \A y \in I : ~(<<y, m>> \in R)
  BY <1>2, WFMin
<1>4. ASSUME NEW y \in I
      PROVE  m <= y
  <2>1. y \in Nat /\ m \in Nat
    OBVIOUS
  <2>2. ~(y < m)
    <3>1. y < m => <<y, m>> \in R
      BY <1>1, <2>1, Zenon
    <3> QED
      BY <1>3, <3>1, Zenon
  <2> QED
    BY <2>1, <2>2
<1> QED
  BY <1>3, <1>4 DEF Min

\* The elements of a sequence and of one with an element more.
LEMMA ToSetAppend ==
    ASSUME NEW S, NEW s \in Seq(S), NEW e \in S
    PROVE  /\ Append(s, e) \in Seq(S)
           /\ Len(Append(s, e)) = Len(s) + 1
           /\ ToSet(Append(s, e)) = ToSet(s) \cup {e}
<1>1. /\ Append(s, e) \in Seq(S)
      /\ Len(Append(s, e)) = Len(s) + 1
      /\ \A i \in 1..Len(s) : Append(s, e)[i] = s[i]
      /\ Append(s, e)[Len(s) + 1] = e
  BY AppendProperties
<1>2. /\ Len(s) \in Nat /\ DOMAIN s = 1..Len(s)
      /\ DOMAIN Append(s, e) = 1..(Len(s) + 1)
  BY <1>1, LenProperties
<1>3. ASSUME NEW x \in ToSet(Append(s, e))
      PROVE  x \in ToSet(s) \cup {e}
  <2>1. PICK i \in 1..(Len(s) + 1) : x = Append(s, e)[i]
    BY <1>2 DEF ToSet
  <2>2. CASE i \in 1..Len(s)
    BY <1>1, <1>2, <2>1, <2>2 DEF ToSet
  <2>3. CASE i \notin 1..Len(s)
    <3>1. i = Len(s) + 1
      BY <1>2, <2>3
    <3> QED
      BY <1>1, <2>1, <3>1
  <2> QED
    BY <2>2, <2>3
<1>4. ASSUME NEW x \in ToSet(s) \cup {e}
      PROVE  x \in ToSet(Append(s, e))
  <2>1. CASE x = e
    <3>1. Len(s) + 1 \in DOMAIN Append(s, e)
      BY <1>2
    <3> QED
      BY <1>1, <2>1, <3>1 DEF ToSet
  <2>2. CASE x \in ToSet(s)
    <3>1. PICK i \in 1..Len(s) : x = s[i]
      BY <1>2, <2>2 DEF ToSet
    <3>2. i \in DOMAIN Append(s, e) /\ Append(s, e)[i] = x
      BY <1>1, <1>2, <3>1
    <3> QED
      BY <3>2 DEF ToSet
  <2> QED
    BY <1>4, <2>1, <2>2
<1> QED
  BY <1>1, <1>3, <1>4

\* The elements of two sequences in a row.
LEMMA ToSetConcat ==
    ASSUME NEW S, NEW s \in Seq(S), NEW t \in Seq(S)
    PROVE  /\ s \o t \in Seq(S)
           /\ Len(s \o t) = Len(s) + Len(t)
           /\ ToSet(s \o t) = ToSet(s) \cup ToSet(t)
<1>1. /\ s \o t \in Seq(S)
      /\ Len(s \o t) = Len(s) + Len(t)
      /\ \A i \in 1..(Len(s) + Len(t)) :
            (s \o t)[i] = IF i <= Len(s) THEN s[i] ELSE t[i - Len(s)]
  BY ConcatProperties
<1>2. /\ Len(s) \in Nat /\ DOMAIN s = 1..Len(s)
      /\ Len(t) \in Nat /\ DOMAIN t = 1..Len(t)
      /\ DOMAIN (s \o t) = 1..(Len(s) + Len(t))
  BY <1>1, LenProperties
<1>3. ASSUME NEW x \in ToSet(s \o t)
      PROVE  x \in ToSet(s) \cup ToSet(t)
  <2>1. PICK i \in 1..(Len(s) + Len(t)) : x = (s \o t)[i]
    BY <1>2 DEF ToSet
  <2>2. CASE i <= Len(s)
    <3>1. i \in DOMAIN s /\ x = s[i]
      BY <1>1, <1>2, <2>1, <2>2
    <3> QED
      BY <3>1 DEF ToSet
  <2>3. CASE ~(i <= Len(s))
    <3>1. i - Len(s) \in DOMAIN t /\ x = t[i - Len(s)]
      BY <1>1, <1>2, <2>1, <2>3
    <3> QED
      BY <3>1 DEF ToSet
  <2> QED
    BY <2>2, <2>3
<1>4. ASSUME NEW x \in ToSet(s)
      PROVE  x \in ToSet(s \o t)
  <2>1. PICK i \in 1..Len(s) : x = s[i]
    BY <1>2 DEF ToSet
  <2>2. i \in DOMAIN (s \o t) /\ (s \o t)[i] = x
    BY <1>1, <1>2, <2>1
  <2> QED
    BY <2>2 DEF ToSet
<1>5. ASSUME NEW x \in ToSet(t)
      PROVE  x \in ToSet(s \o t)
  <2>1. PICK i \in 1..Len(t) : x = t[i]
    BY <1>2 DEF ToSet
  <2>2. /\ Len(s) + i \in 1..(Len(s) + Len(t))
        /\ ~(Len(s) + i <= Len(s))
        /\ (Len(s) + i) - Len(s) = i
    BY <1>2
  <2>3. (s \o t)[Len(s) + i] = x
    BY <1>1, <2>1, <2>2
  <2> QED
    BY <1>2, <2>2, <2>3 DEF ToSet
<1> QED
  BY <1>1, <1>3, <1>4, <1>5

\* Taking the first occurrence of an element out of a list makes it shorter
\* by one and keeps the others.
LEMMA RemoveFirstProperties ==
    ASSUME NEW S, NEW s \in Seq(S), NEW e \in ToSet(s)
    PROVE  /\ RemoveFirst(s, e) \in Seq(S)
           /\ Len(RemoveFirst(s, e)) = Len(s) - 1
           /\ ToSet(RemoveFirst(s, e)) \cup {e} = ToSet(s)
           /\ s # <<>>
<1>1. Len(s) \in Nat /\ DOMAIN s = 1..Len(s)
  BY LenProperties
<1> DEFINE I == {i \in 1..Len(s) : s[i] = e}
           k == Min(I)
           l == SubSeq(s, 1, k - 1)
           r == SubSeq(s, k + 1, Len(s))
<1>2. I # {} /\ I \subseteq Nat
  BY <1>1 DEF ToSet
<1>3. k \in I
  BY <1>2, MinIsMember
<1>4. RemoveFirst(s, e) = l \o r
  BY <1>1, <1>2 DEF RemoveFirst, SelectInSeq, RemoveAt
<1>5. k \in 1..Len(s) /\ s[k] = e /\ k \in Int
  BY <1>1, <1>3
<1> HIDE DEF k
<1>6. /\ l \in Seq(S) /\ Len(l) = k - 1
      /\ \A i \in 1..(k - 1) : l[i] = s[i]
  <2>1. /\ k - 1 \in Int
        /\ \A i \in 1..(k - 1) : s[i] \in S
    BY <1>1, <1>5, ElementOfSeq
  <2>2. /\ l \in Seq(S)
        /\ Len(l) = IF 1 <= k - 1 THEN (k - 1) - 1 + 1 ELSE 0
        /\ \A i \in 1..((k - 1) - 1 + 1) : l[i] = s[1 + i - 1]
    BY <2>1, SubSeqProperties
  <2> HIDE DEF l
  <2> QED
    BY <1>1, <1>5, <2>2
<1>7. /\ r \in Seq(S) /\ Len(r) = Len(s) - k
      /\ \A i \in 1..(Len(s) - k) : r[i] = s[k + i]
  <2>1. /\ k + 1 \in Int /\ Len(s) \in Int
        /\ \A i \in (k + 1)..Len(s) : s[i] \in S
    BY <1>1, <1>5, ElementOfSeq
  <2>2. /\ r \in Seq(S)
        /\ Len(r) = IF k + 1 <= Len(s) THEN Len(s) - (k + 1) + 1 ELSE 0
        /\ \A i \in 1..(Len(s) - (k + 1) + 1) : r[i] = s[(k + 1) + i - 1]
    BY <2>1, SubSeqProperties
  <2> HIDE DEF r
  <2>3. \A i \in 1..(Len(s) - k) : (k + 1) + i - 1 = k + i
    BY <1>1, <1>5
  <2>4. Len(s) - (k + 1) + 1 = Len(s) - k
    BY <1>1, <1>5
  <2>5. \A i \in 1..(Len(s) - k) : r[i] = s[k + i]
    <3> SUFFICES ASSUME NEW i \in 1..(Len(s) - k)
                 PROVE  r[i] = s[k + i]
      OBVIOUS
    <3>1. r[i] = s[(k + 1) + i - 1]
      BY <2>2, <2>4
    <3> QED
      BY <2>3, <3>1
  <2>6. r \in Seq(S)
    BY <2>2
  <2>7. Len(r) = Len(s) - k
    <3>1. Len(r) = IF k + 1 <= Len(s) THEN Len(s) - (k + 1) + 1 ELSE 0
      BY <2>2
    <3>2. k \in 1..Len(s) /\ Len(s) \in Int /\ k \in Int
      BY <1>1, <1>5
    <3>3. CASE k + 1 <= Len(s)
      BY <2>4, <3>1, <3>3
    <3>4. CASE ~(k + 1 <= Len(s))
      <4>1. k = Len(s)
        BY <3>2, <3>4
      <4>2. Len(r) = 0
        BY <3>1, <3>4
      <4> QED
        BY <3>2, <4>1, <4>2
    <3> QED
      BY <3>3, <3>4
  <2> QED
    BY <2>5, <2>6, <2>7
<1> HIDE DEF l, r
<1>8. /\ l \o r \in Seq(S) /\ Len(l \o r) = Len(s) - 1
      /\ ToSet(l \o r) = ToSet(l) \cup ToSet(r)
  <2>1. /\ l \o r \in Seq(S) /\ Len(l \o r) = Len(l) + Len(r)
        /\ ToSet(l \o r) = ToSet(l) \cup ToSet(r)
    <3>1. l \in Seq(S) /\ r \in Seq(S)
      BY <1>6, <1>7
    <3> QED
      BY ONLY <3>1, ToSetConcat
  <2>2. Len(l) = k - 1 /\ Len(r) = Len(s) - k
    BY <1>6, <1>7
  <2> QED
    BY <1>1, <1>5, <2>1, <2>2
<1>9. DOMAIN l = 1..(k - 1) /\ DOMAIN r = 1..(Len(s) - k)
  BY <1>6, <1>7, LenProperties
<1>10. ToSet(l) \cup ToSet(r) \cup {e} \subseteq ToSet(s)
  <2>1. ASSUME NEW x \in ToSet(l)
        PROVE  x \in ToSet(s)
    <3>1. PICK i \in 1..(k - 1) : x = l[i]
      BY <1>9 DEF ToSet
    <3>2. i \in DOMAIN s /\ x = s[i]
      BY <1>1, <1>5, <1>6, <3>1
    <3> QED
      BY <3>2 DEF ToSet
  <2>2. ASSUME NEW x \in ToSet(r)
        PROVE  x \in ToSet(s)
    <3>1. PICK i \in 1..(Len(s) - k) : x = r[i]
      BY <1>9 DEF ToSet
    <3>2. k + i \in DOMAIN s /\ x = s[k + i]
      BY <1>1, <1>5, <1>7, <3>1
    <3> QED
      BY <3>2 DEF ToSet
  <2> QED
    BY <2>1, <2>2
<1>11. ToSet(s) \subseteq ToSet(l) \cup ToSet(r) \cup {e}
  <2> SUFFICES ASSUME NEW x \in ToSet(s)
               PROVE  x \in ToSet(l) \cup ToSet(r) \cup {e}
    OBVIOUS
  <2>1. PICK i \in 1..Len(s) : x = s[i]
    BY <1>1 DEF ToSet
  <2>2. CASE i = k
    BY <1>5, <2>1, <2>2
  <2>3. CASE i < k
    <3>1. i \in DOMAIN l /\ l[i] = x
      BY <1>1, <1>5, <1>6, <1>9, <2>1, <2>3
    <3> QED
      BY <3>1 DEF ToSet
  <2>4. CASE i > k
    <3>1. i - k \in 1..(Len(s) - k) /\ k + (i - k) = i
      BY <1>1, <1>5, <2>1, <2>4
    <3>2. r[i - k] = x
      BY <1>7, <2>1, <3>1
    <3> QED
      BY <1>9, <3>1, <3>2 DEF ToSet
  <2> QED
    BY <1>1, <1>5, <2>2, <2>3, <2>4
<1>12. s # <<>>
  BY <1>1, <1>5
<1> QED
  BY <1>4, <1>8, <1>10, <1>11, <1>12

\* A finite set as a list without repetitions.
LEMMA SetToSeqProperties ==
    ASSUME NEW S, IsFiniteSet(S)
    PROVE  /\ SetToSeq(S) \in Seq(S)
           /\ Len(SetToSeq(S)) = Cardinality(S)
           /\ ToSet(SetToSeq(S)) = S
<1> DEFINE n == Cardinality(S)
           s == SetToSeq(S)
<1>1. n \in Nat /\ ExistsBijection(1..n, S)
  BY FS_CardinalityType
<1>2. \E f \in [1..n -> S] : IsInjective(f)
  BY <1>1 DEF ExistsBijection, Bijection, Injection
<1>3. s \in [1..n -> S] /\ IsInjective(s)
  BY <1>2 DEF SetToSeq
<1> HIDE DEF s
<1>4. s \in Seq(S) /\ Len(s) = n /\ DOMAIN s = 1..n
  BY <1>1, <1>3
<1>5. s \in Injection(1..n, S)
  BY <1>3 DEF Injection
<1>6. IsFiniteSet(1..n) /\ Cardinality(1..n) = n
  BY <1>1, FS_Interval
<1>7. s \in Surjection(1..n, S)
  BY <1>5, <1>6, FS_Injection
<1>8. ToSet(s) = S
  <2>1. \A x \in S : \E i \in 1..n : s[i] = x
    BY <1>7 DEF Surjection
  <2> QED
    BY <1>3, <1>4, <2>1 DEF ToSet
<1> QED
  BY <1>4, <1>8 DEF s

-----------------------------------------------------------------------------
(* One proposal.                                                           *)

\* A list of main P-Reps as the platform reports them, or without those
\* disqualified.
MainPreps(list) ==
    /\ DOMAIN list \subseteq Prep
    /\ IsFiniteSet(DOMAIN list)
    /\ \A p \in DOMAIN list : list[p] \in Nat

\* The delegation adds up to a natural number.
LEMMA TotalDelegatedType ==
    ASSUME NEW list, MainPreps(list)
    PROVE  TotalDelegated(list) \in Nat
<1> DEFINE D == DOMAIN list
           units == [p \in D |-> {p} \X (1..list[p])]
           S == {{p} \X (1..list[p]) : p \in D}
<1>1. \A p \in D : IsFiniteSet({p} \X (1..list[p]))
  <2> SUFFICES ASSUME NEW p \in D
               PROVE  IsFiniteSet({p} \X (1..list[p]))
    OBVIOUS
  <2>1. list[p] \in Int
    BY DEF MainPreps
  <2>2. IsFiniteSet(1..list[p])
    BY <2>1, FS_Interval
  <2>3. IsFiniteSet({p})
    BY FS_Singleton
  <2> QED
    BY <2>2, <2>3, FS_Product
<1>2. units \in Surjection(D, S)
  BY DEF Surjection
<1>3. IsFiniteSet(S)
  BY <1>2, FS_Surjection, Zenon DEF MainPreps
<1>4. IsFiniteSet(UNION S)
  BY <1>1, <1>3, FS_UNION, Zenon
<1> QED
  BY <1>4, FS_CardinalityType DEF TotalDelegated

\* Those counted, on a side or as not having voted.
Electors(info) ==
    ToSet(info.agree.list) \cup ToSet(info.disagree.list)
        \cup ToSet(info.noVote.list)

\* Every P-Rep is on one list once, and the amounts add up.
Balanced(info) ==
    /\ Len(info.agree.list) + Len(info.disagree.list) + Len(info.noVote.list)
           = info.totalVoter
    /\ Cardinality(Electors(info)) = info.totalVoter
    /\ info.agree.amount + info.disagree.amount + info.noVote.amount
           = info.totalDelegated

\* StatusJustified of one proposal.
Justified(info) ==
    /\ info.status = "APPROVED" => CheckVoteResult(info, "AGREE")
    /\ info.status = "DISAPPROVED" =>
          CheckVoteResult(info, "DISAGREE") \/ info.noVote.list = <<>>
    /\ info.status = "VOTING" =>
          /\ info.noVote.list # <<>>
          /\ \A v \in Votes : ~CheckVoteResult(info, v)

\* What validation found when the proposal registered and still holds when
\* it is approved.
Checked(content) ==
    /\ Type(content) = "STEP_COSTS" =>
          DOMAIN Value(content) \subseteq ALL_STEP_TYPES
    /\ Type(content) = "REWARD_FUND_ALLOCATION" => IsAllocation(Value(content))

InOrder(info) ==
    /\ info \in ProposalInfo
    /\ Balanced(info)
    /\ Justified(info)
    /\ Checked(info.content)

\* The parts of a proposal.
LEMMA InfoParts ==
    ASSUME NEW info \in ProposalInfo
    PROVE  /\ info.proposer \in Prep /\ info.end \in Int
           /\ info.content \in Contents /\ info.status \in Statuses
           /\ info.agree \in Tally /\ info.disagree \in Tally
           /\ info.noVote \in Tally
           /\ info.agree.list \in Seq(Prep) /\ info.agree.amount \in Int
           /\ info.disagree.list \in Seq(Prep) /\ info.disagree.amount \in Int
           /\ info.noVote.list \in Seq(Prep) /\ info.noVote.amount \in Int
           /\ info.totalVoter \in Nat /\ info.totalDelegated \in Nat
BY DEF ProposalInfo, Tally

\* A new proposal is in order: it is open, and its proposer at least has
\* not voted.
LEMMA RegisteredInOrder ==
    ASSUME NEW proposer \in Prep, NEW expired \in Int,
           NEW content \in Contents, Checked(content),
           NEW list, MainPreps(list), proposer \in DOMAIN list
    PROVE  /\ InOrder(Registered(proposer, expired, content, list))
           /\ Registered(proposer, expired, content, list).status = "VOTING"
<1> DEFINE info == Registered(proposer, expired, content, list)
           preps == SetToSeq(DOMAIN list)
           total == TotalDelegated(list)
<1>1. /\ preps \in Seq(Prep) /\ preps \in Seq(DOMAIN list)
      /\ Len(preps) = Cardinality(DOMAIN list)
      /\ ToSet(preps) = DOMAIN list
  <2>1. IsFiniteSet(DOMAIN list) /\ DOMAIN list \subseteq Prep
    BY DEF MainPreps
  <2>2. /\ preps \in Seq(DOMAIN list)
        /\ Len(preps) = Cardinality(DOMAIN list)
        /\ ToSet(preps) = DOMAIN list
    BY <2>1, SetToSeqProperties
  <2> QED
    BY <2>1, <2>2, SeqMonotonic
<1>2. total \in Nat
  BY TotalDelegatedType
<1>3. Len(preps) \in Nat \ {0} /\ preps # <<>>
  <2>1. proposer \in ToSet(preps)
    BY <1>1
  <2>2. DOMAIN preps # {}
    BY <2>1 DEF ToSet
  <2>3. DOMAIN preps = 1..Len(preps) /\ Len(preps) \in Nat
    BY <1>1, LenProperties
  <2>4. Len(preps) # 0
    BY <2>2, <2>3
  <2> QED
    BY <1>1, <2>3, <2>4, EmptySeq
<1>4. info = [proposer       |-> proposer,
              end            |-> expired,
              content        |-> content,
              status         |-> "VOTING",
              agree          |-> NoVotes,
              disagree       |-> NoVotes,
              noVote         |-> [list |-> preps, amount |-> total],
              totalVoter     |-> Len(preps),
              totalDelegated |-> total]
  BY DEF Registered
<1> HIDE DEF info, preps, total
<1>5. /\ info.status = "VOTING" /\ info.content = content
      /\ info.agree.list = <<>> /\ info.agree.amount = 0
      /\ info.disagree.list = <<>> /\ info.disagree.amount = 0
      /\ info.noVote.list = preps /\ info.noVote.amount = total
      /\ info.totalVoter = Len(preps) /\ info.totalDelegated = total
  BY <1>4 DEF NoVotes
<1>6. NoVotes \in Tally /\ [list |-> preps, amount |-> total] \in Tally
  BY <1>1, <1>2 DEF NoVotes, Tally
<1>7. info \in ProposalInfo
  BY <1>2, <1>3, <1>4, <1>6 DEF ProposalInfo, Statuses
<1>8. Balanced(info)
  <2>1. Len(<<>>) = 0 /\ ToSet(<<>>) = {}
    BY DEF ToSet
  <2>2. Electors(info) = ToSet(preps)
    BY <1>5, <2>1 DEF Electors
  <2> QED
    BY <1>1, <1>2, <1>3, <1>5, <2>1, <2>2 DEF Balanced
<1>9. Justified(info)
  <2>1. Len(<<>>) = 0
    OBVIOUS
  <2>2. \A v \in Votes : ~CheckVoteResult(info, v)
    BY <1>3, <1>5, <2>1
       DEF CheckVoteResult, Reaches, Votes, APPROVE_RATE, DISAPPROVE_RATE
  <2> QED
    BY <1>3, <1>5, <2>2 DEF Justified
<1> QED
  BY <1>5, <1>7, <1>8, <1>9 DEF InOrder, info

\* A cancelled proposal is in order.
LEMMA CanceledInOrder ==
    ASSUME NEW info, InOrder(info)
    PROVE  /\ InOrder(Canceled(info))
           /\ Canceled(info).status = "CANCELED"
           /\ Canceled(info).end = info.end
           /\ Canceled(info).content = info.content
<1>1. info \in ProposalInfo
  BY DEF InOrder
<1>2. /\ Canceled(info) \in ProposalInfo
      /\ Canceled(info).status = "CANCELED"
      /\ Canceled(info).end = info.end
      /\ Canceled(info).content = info.content
      /\ Canceled(info).agree = info.agree
      /\ Canceled(info).disagree = info.disagree
      /\ Canceled(info).noVote = info.noVote
      /\ Canceled(info).totalVoter = info.totalVoter
      /\ Canceled(info).totalDelegated = info.totalDelegated
  BY <1>1 DEF Canceled, ProposalInfo, Statuses
<1>3. Balanced(Canceled(info))
  BY <1>2 DEF InOrder, Balanced, Electors
<1>4. Justified(Canceled(info))
  BY <1>2 DEF Justified
<1> QED
  BY <1>2, <1>3, <1>4 DEF InOrder

\* What a vote moves.
LEMMA VotedParts ==
    ASSUME NEW info \in ProposalInfo, NEW voter \in Prep, NEW vote \in Votes,
           NEW amount \in Nat, voter \in ToSet(info.noVote.list)
    PROVE  LET new == Voted(info, voter, vote, amount)
           IN  /\ new \in ProposalInfo
               /\ new.end = info.end /\ new.content = info.content
               /\ new.totalVoter = info.totalVoter
               /\ new.totalDelegated = info.totalDelegated
               /\ new.noVote = Removed(info.noVote, voter, amount)
               /\ new.agree = IF vote = "AGREE"
                              THEN Added(info.agree, voter, amount)
                              ELSE info.agree
               /\ new.disagree = IF vote = "AGREE"
                                 THEN info.disagree
                                 ELSE Added(info.disagree, voter, amount)
               /\ new.status =
                     IF info.status # "VOTING" THEN info.status
                     ELSE IF CheckVoteResult(new, vote)
                          THEN IF vote = "AGREE" THEN "APPROVED"
                                                 ELSE "DISAPPROVED"
                          ELSE IF new.noVote.list = <<>> THEN "DISAPPROVED"
                                                         ELSE "VOTING"
<1> DEFINE no == Removed(info.noVote, voter, amount)
           yes == Added(info.agree, voter, amount)
           nay == Added(info.disagree, voter, amount)
           counted == Counted(info, voter, vote, amount)
           st == StatusAfter(counted, vote)
           new == Voted(info, voter, vote, amount)
<1>1. no \in Tally /\ yes \in Tally /\ nay \in Tally
  <2>1. /\ info.noVote.list \in Seq(Prep) /\ info.noVote.amount \in Int
        /\ info.agree.list \in Seq(Prep) /\ info.agree.amount \in Int
        /\ info.disagree.list \in Seq(Prep) /\ info.disagree.amount \in Int
    BY InfoParts
  <2>2. RemoveFirst(info.noVote.list, voter) \in Seq(Prep)
    BY <2>1, RemoveFirstProperties
  <2>3. /\ Append(info.agree.list, voter) \in Seq(Prep)
        /\ Append(info.disagree.list, voter) \in Seq(Prep)
    BY <2>1, ToSetAppend
  <2> QED
    BY <2>1, <2>2, <2>3 DEF Removed, Added, Tally
<1> HIDE DEF no, yes, nay
<1>2. counted = IF vote = "AGREE"
                THEN [info EXCEPT !.noVote = no, !.agree = yes]
                ELSE [info EXCEPT !.noVote = no, !.disagree = nay]
  <2>1. info.agree = [info EXCEPT !.noVote = no].agree
    BY DEF ProposalInfo
  <2>2. info.disagree = [info EXCEPT !.noVote = no].disagree
    BY DEF ProposalInfo
  <2> QED
    BY <2>1, <2>2 DEF Counted, no, yes, nay
<1> HIDE DEF counted
<1>3. /\ counted \in ProposalInfo
      /\ counted.status = info.status
      /\ counted.end = info.end /\ counted.content = info.content
      /\ counted.totalVoter = info.totalVoter
      /\ counted.totalDelegated = info.totalDelegated
      /\ counted.noVote = no
      /\ counted.agree = IF vote = "AGREE" THEN yes ELSE info.agree
      /\ counted.disagree = IF vote = "AGREE" THEN info.disagree ELSE nay
  <2>1. CASE vote = "AGREE"
    <3>1. counted = [info EXCEPT !.noVote = no, !.agree = yes]
      BY <1>2, <2>1
    <3> QED
      BY <1>1, <2>1, <3>1 DEF ProposalInfo
  <2>2. CASE vote # "AGREE"
    <3>1. counted = [info EXCEPT !.noVote = no, !.disagree = nay]
      BY <1>2, <2>2
    <3> QED
      BY <1>1, <2>2, <3>1 DEF ProposalInfo
  <2> QED
    BY <2>1, <2>2
<1>4. st \in Statuses
  <2>1. counted.status \in Statuses
    BY <1>3, InfoParts
  <2> QED
    BY <2>1 DEF StatusAfter, Statuses
<1>5. new = [counted EXCEPT !.status = st]
  BY DEF Voted, counted
<1> HIDE DEF st, new
<1>6. /\ new \in ProposalInfo
      /\ new.status = st
      /\ new.end = counted.end /\ new.content = counted.content
      /\ new.totalVoter = counted.totalVoter
      /\ new.totalDelegated = counted.totalDelegated
      /\ new.noVote = counted.noVote
      /\ new.agree = counted.agree
      /\ new.disagree = counted.disagree
  BY <1>3, <1>4, <1>5 DEF ProposalInfo
<1>7. CheckVoteResult(new, vote) <=> CheckVoteResult(counted, vote)
  BY <1>6 DEF CheckVoteResult
<1>8. st = IF info.status # "VOTING" THEN info.status
           ELSE IF CheckVoteResult(new, vote)
                THEN IF vote = "AGREE" THEN "APPROVED" ELSE "DISAPPROVED"
                ELSE IF new.noVote.list = <<>> THEN "DISAPPROVED"
                                               ELSE "VOTING"
  BY <1>3, <1>6, <1>7 DEF st, StatusAfter
<1> QED
  BY <1>3, <1>6, <1>8 DEF new, no, yes, nay

\* One vote more takes no side's share away, and leaves the other's as it is.
LEMMA VotesOnlyAdd ==
    ASSUME NEW info \in ProposalInfo, NEW voter \in Prep, NEW vote \in Votes,
           NEW amount \in Nat, voter \in ToSet(info.noVote.list), NEW v \in Votes
    PROVE  LET new == Voted(info, voter, vote, amount)
           IN  /\ CheckVoteResult(info, v) => CheckVoteResult(new, v)
               /\ v # vote => (CheckVoteResult(info, v)
                                  <=> CheckVoteResult(new, v))
<1> DEFINE new == Voted(info, voter, vote, amount)
<1>1. /\ new.totalVoter = info.totalVoter
      /\ new.totalDelegated = info.totalDelegated
      /\ new.agree = IF vote = "AGREE"
                     THEN Added(info.agree, voter, amount) ELSE info.agree
      /\ new.disagree = IF vote = "AGREE"
                        THEN info.disagree ELSE Added(info.disagree, voter, amount)
  BY VotedParts
<1> HIDE DEF new
<1>2. /\ info.agree.list \in Seq(Prep) /\ info.agree.amount \in Int
      /\ info.disagree.list \in Seq(Prep) /\ info.disagree.amount \in Int
      /\ info.totalVoter \in Nat /\ info.totalDelegated \in Nat
  BY InfoParts
<1>3. ASSUME NEW tally, tally.list \in Seq(Prep), tally.amount \in Int
      PROVE  /\ Len(tally.list) \in Nat
             /\ Len(Added(tally, voter, amount).list) = Len(tally.list) + 1
             /\ Added(tally, voter, amount).amount = tally.amount + amount
  BY <1>3, ToSetAppend, LenProperties DEF Added
<1>4. ASSUME NEW n \in Int, NEW m \in Int, n <= m, NEW d \in Nat,
             NEW rate \in {66, 33}, Reaches(n, d, rate)
      PROVE  Reaches(m, d, rate)
  BY <1>4 DEF Reaches
<1>5. CASE vote = "AGREE" /\ v = "AGREE"
  <2>1. new.agree = Added(info.agree, voter, amount)
    BY <1>1, <1>5
  <2>2. /\ Len(info.agree.list) \in Nat
        /\ Len(new.agree.list) = Len(info.agree.list) + 1
        /\ new.agree.amount = info.agree.amount + amount
    BY <1>2, <1>3, <2>1
  <2>3. /\ Reaches(Len(info.agree.list), info.totalVoter, 66)
              => Reaches(Len(new.agree.list), new.totalVoter, 66)
        /\ Reaches(info.agree.amount, info.totalDelegated, 66)
              => Reaches(new.agree.amount, new.totalDelegated, 66)
    BY <1>1, <1>2, <1>4, <2>2
  <2> QED
    BY <1>5, <2>3 DEF CheckVoteResult, APPROVE_RATE, new
<1>6. CASE vote # "AGREE" /\ v # "AGREE"
  <2>1. new.disagree = Added(info.disagree, voter, amount)
    BY <1>1, <1>6
  <2>2. /\ Len(info.disagree.list) \in Nat
        /\ Len(new.disagree.list) = Len(info.disagree.list) + 1
        /\ new.disagree.amount = info.disagree.amount + amount
    BY <1>2, <1>3, <2>1
  <2>3. /\ Reaches(Len(info.disagree.list), info.totalVoter, 33)
              => Reaches(Len(new.disagree.list), new.totalVoter, 33)
        /\ Reaches(info.disagree.amount, info.totalDelegated, 33)
              => Reaches(new.disagree.amount, new.totalDelegated, 33)
    BY <1>1, <1>2, <1>4, <2>2
  <2>4. v = vote
    BY <1>6 DEF Votes
  <2> QED
    BY <1>6, <2>3, <2>4 DEF CheckVoteResult, DISAPPROVE_RATE, new
<1>7. CASE (vote = "AGREE") # (v = "AGREE")
  BY <1>1, <1>7 DEF CheckVoteResult, new
<1> QED
  BY <1>5, <1>6, <1>7

\* A name that changes lists changes no total.
LEMMA SumStays ==
    \A a, b, n \in Int : /\ (a + 1) + b + (n - 1) = a + b + n
                        /\ a + (b + 1) + (n - 1) = a + b + n
OBVIOUS

\* A vote that is accepted keeps a proposal in order, also a late one.
LEMMA VotedInOrder ==
    ASSUME NEW info, InOrder(info), NEW voter \in Prep, NEW vote \in Votes,
           NEW amount \in Nat, NEW height, CanVote(info, voter, height)
    PROVE  InOrder(Voted(info, voter, vote, amount))
<1> DEFINE new == Voted(info, voter, vote, amount)
<1>1. info \in ProposalInfo /\ voter \in ToSet(info.noVote.list)
  BY DEF InOrder, CanVote
<1>2. /\ new \in ProposalInfo
      /\ new.content = info.content
      /\ new.totalVoter = info.totalVoter
      /\ new.totalDelegated = info.totalDelegated
      /\ new.noVote = Removed(info.noVote, voter, amount)
      /\ new.agree = IF vote = "AGREE"
                     THEN Added(info.agree, voter, amount) ELSE info.agree
      /\ new.disagree = IF vote = "AGREE"
                        THEN info.disagree ELSE Added(info.disagree, voter, amount)
      /\ new.status =
            IF info.status # "VOTING" THEN info.status
            ELSE IF CheckVoteResult(new, vote)
                 THEN IF vote = "AGREE" THEN "APPROVED" ELSE "DISAPPROVED"
                 ELSE IF new.noVote.list = <<>> THEN "DISAPPROVED"
                                                ELSE "VOTING"
  BY <1>1, VotedParts
<1>3. \A v \in Votes : /\ CheckVoteResult(info, v) => CheckVoteResult(new, v)
                       /\ v # vote => (CheckVoteResult(info, v)
                                          <=> CheckVoteResult(new, v))
  BY <1>1, VotesOnlyAdd
<1> HIDE DEF new
<1>4. /\ info.agree.list \in Seq(Prep) /\ info.agree.amount \in Int
      /\ info.disagree.list \in Seq(Prep) /\ info.disagree.amount \in Int
      /\ info.noVote.list \in Seq(Prep) /\ info.noVote.amount \in Int
      /\ info.totalVoter \in Nat /\ info.totalDelegated \in Nat
  BY <1>1, InfoParts
<1>5. info.noVote.list # <<>>
  BY <1>1, <1>4, RemoveFirstProperties
<1>6. Balanced(new)
  <2>0. /\ new.totalVoter = info.totalVoter
        /\ new.totalDelegated = info.totalDelegated
    BY <1>2
  <2>1. /\ Len(info.agree.list) \in Int /\ Len(info.disagree.list) \in Int
        /\ Len(info.noVote.list) \in Int 
    BY <1>4, LenProperties
  <2>2. /\ Len(new.noVote.list) = Len(info.noVote.list) - 1
        /\ new.noVote.amount = info.noVote.amount - amount
        /\ ToSet(new.noVote.list) \cup {voter} = ToSet(info.noVote.list)
    BY <1>1, <1>2, <1>4, RemoveFirstProperties DEF Removed
  <2>3. /\ Len(info.agree.list) + Len(info.disagree.list)
              + Len(info.noVote.list) = info.totalVoter
        /\ Cardinality(Electors(info)) = info.totalVoter
        /\ info.agree.amount + info.disagree.amount + info.noVote.amount
              = info.totalDelegated
    BY DEF InOrder, Balanced
  <2>4. /\ info.agree.amount \in Int /\ info.disagree.amount \in Int
        /\ info.noVote.amount \in Int /\ amount \in Int
    BY <1>4
  <2>5. CASE vote = "AGREE"
    <3>1. new.agree = Added(info.agree, voter, amount)
          /\ new.disagree = info.disagree
      BY <1>2, <2>5
    <3>0. /\ Len(new.disagree.list) = Len(info.disagree.list)
          /\ new.disagree.amount = info.disagree.amount
      BY <3>1
    <3>2. /\ Len(new.agree.list) = Len(info.agree.list) + 1
          /\ new.agree.amount = info.agree.amount + amount
          /\ ToSet(new.agree.list) = ToSet(info.agree.list) \cup {voter}
      BY <1>4, <3>1, ToSetAppend DEF Added
    <3>3. Electors(new) = Electors(info)
      BY <2>2, <3>1, <3>2 DEF Electors
    <3>4. Cardinality(Electors(new)) = new.totalVoter
      BY ONLY <2>0, <2>3, <3>3
    <3>5. Len(new.agree.list) + Len(new.disagree.list) + Len(new.noVote.list)
             = new.totalVoter
      <4>1. Len(new.agree.list) + Len(new.disagree.list) + Len(new.noVote.list)
               = (Len(info.agree.list) + 1) + Len(info.disagree.list)
                    + (Len(info.noVote.list) - 1)
        BY ONLY <2>2, <3>0, <3>2
      <4>2. (Len(info.agree.list) + 1) + Len(info.disagree.list)
               + (Len(info.noVote.list) - 1)
               = Len(info.agree.list) + Len(info.disagree.list)
                    + Len(info.noVote.list)
        BY ONLY <2>1, SumStays, Zenon
      <4> QED
        BY ONLY <2>0, <2>3, <4>1, <4>2
    <3>6. new.agree.amount + new.disagree.amount + new.noVote.amount
             = new.totalDelegated
      <4>1. new.agree.amount + new.disagree.amount + new.noVote.amount
               = (info.agree.amount + amount) + info.disagree.amount
                    + (info.noVote.amount - amount)
        BY ONLY <2>2, <3>0, <3>2
      <4>2. (info.agree.amount + amount) + info.disagree.amount
               + (info.noVote.amount - amount)
               = info.agree.amount + info.disagree.amount + info.noVote.amount
        BY ONLY <2>4
      <4> QED
        BY ONLY <2>0, <2>3, <4>1, <4>2
    <3> QED
      BY <3>4, <3>5, <3>6 DEF Balanced
  <2>6. CASE vote # "AGREE"
    <3>1. new.disagree = Added(info.disagree, voter, amount)
          /\ new.agree = info.agree
      BY <1>2, <2>6
    <3>0. /\ Len(new.agree.list) = Len(info.agree.list)
          /\ new.agree.amount = info.agree.amount
      BY <3>1
    <3>2. /\ Len(new.disagree.list) = Len(info.disagree.list) + 1
          /\ new.disagree.amount = info.disagree.amount + amount
          /\ ToSet(new.disagree.list) = ToSet(info.disagree.list) \cup {voter}
      BY <1>4, <3>1, ToSetAppend DEF Added
    <3>3. Electors(new) = Electors(info)
      BY <2>2, <3>1, <3>2 DEF Electors
    <3>4. Cardinality(Electors(new)) = new.totalVoter
      BY ONLY <2>0, <2>3, <3>3
    <3>5. Len(new.agree.list) + Len(new.disagree.list) + Len(new.noVote.list)
             = new.totalVoter
      <4>1. Len(new.agree.list) + Len(new.disagree.list) + Len(new.noVote.list)
               = Len(info.agree.list) + (Len(info.disagree.list) + 1)
                    + (Len(info.noVote.list) - 1)
        BY ONLY <2>2, <3>0, <3>2
      <4>2. Len(info.agree.list) + (Len(info.disagree.list) + 1)
               + (Len(info.noVote.list) - 1)
               = Len(info.agree.list) + Len(info.disagree.list)
                    + Len(info.noVote.list)
        BY ONLY <2>1, SumStays, Zenon
      <4> QED
        BY ONLY <2>0, <2>3, <4>1, <4>2
    <3>6. new.agree.amount + new.disagree.amount + new.noVote.amount
             = new.totalDelegated
      <4>1. new.agree.amount + new.disagree.amount + new.noVote.amount
               = info.agree.amount + (info.disagree.amount + amount)
                    + (info.noVote.amount - amount)
        BY ONLY <2>2, <3>0, <3>2
      <4>2. info.agree.amount + (info.disagree.amount + amount)
               + (info.noVote.amount - amount)
               = info.agree.amount + info.disagree.amount + info.noVote.amount
        BY ONLY <2>4
      <4> QED
        BY ONLY <2>0, <2>3, <4>1, <4>2
    <3> QED
      BY <3>4, <3>5, <3>6 DEF Balanced
  <2> QED
    BY <2>5, <2>6
<1>7. Justified(new)
  <2>1. CASE info.status # "VOTING"
    <3>1. new.status = info.status
      BY <1>2, <2>1
    <3>2. "AGREE" \in Votes /\ "DISAGREE" \in Votes
      BY DEF Votes
    <3>3. /\ info.status = "APPROVED" => CheckVoteResult(info, "AGREE")
          /\ info.status = "DISAPPROVED" => CheckVoteResult(info, "DISAGREE")
      BY <1>5 DEF InOrder, Justified
    <3> QED
      BY <1>3, <2>1, <3>1, <3>2, <3>3 DEF Justified
  <2>2. CASE info.status = "VOTING"
    <3>1. \A v \in Votes : ~CheckVoteResult(info, v)
      BY <2>2 DEF InOrder, Justified
    <3>2. \A v \in Votes : v # vote => ~CheckVoteResult(new, v)
      BY <1>3, <3>1
    <3>3. CASE CheckVoteResult(new, vote)
      <4>1. new.status = IF vote = "AGREE" THEN "APPROVED" ELSE "DISAPPROVED"
        BY <1>2, <2>2, <3>3
      <4> QED
        BY <3>3, <4>1 DEF Justified, Votes
    <3>4. CASE ~CheckVoteResult(new, vote)
      <4>1. new.status = IF new.noVote.list = <<>> THEN "DISAPPROVED"
                                                   ELSE "VOTING"
        BY <1>2, <2>2, <3>4
      <4>2. \A v \in Votes : ~CheckVoteResult(new, v)
        BY <3>2, <3>4
      <4> QED
        BY <4>1, <4>2 DEF Justified
    <3> QED
      BY <3>3, <3>4
  <2> QED
    BY <2>1, <2>2
<1> QED
  BY <1>2, <1>6, <1>7 DEF InOrder, new

-----------------------------------------------------------------------------
(* The network.                                                            *)

\* The network values are in order.
NetworkInOrder(net) ==
    /\ DOMAIN net = NetworkValues
    /\ net.revision \in Int
    /\ net.stepPrice \in Nat \ {0}
    /\ net.irep \in Nat \ {0}
    /\ net.iglobal \in Nat \ {0}
    /\ DOMAIN net.stepCosts \subseteq ALL_STEP_TYPES
    /\ IsAllocation(net.allocation)
    /\ Self \notin net.blackList

\* Each kind of proposal changes its own value, and none puts the network
\* out of order.
LEMMA AppliedInOrder ==
    ASSUME NEW content \in Contents, Checked(content), Applicable(content),
           NetworkInOrder(network)
    PROVE  /\ NetworkInOrder(Applied(content))
           /\ Applied(content).revision =
                 IF Type(content) = "REVISION" THEN Value(content)
                 ELSE network.revision
           /\ Applied(content).blackList =
                 IF Type(content) # "MALICIOUS_SCORE" THEN network.blackList
                 ELSE IF Value(content).freeze
                      THEN network.blackList \cup {Value(content).address}
                      ELSE network.blackList \ {Value(content).address}
<1> DEFINE v == Value(content)
           net == Applied(content)
<1>1. ASSUME NEW x \in Int, NEW old \in Nat \ {0}
      PROVE  PositiveOr(x, old) \in Nat \ {0}
  BY DEF PositiveOr
<1>2. CASE Type(content) = "REVISION"
  <2>1. net = [network EXCEPT !.revision = v]
    BY <1>2 DEF Applied
  <2>2. v \in Int
    BY <1>2, ContentsAssumption
  <2> HIDE DEF v, net
  <2>3. /\ DOMAIN net = NetworkValues
        /\ net.revision = v
        /\ net.stepPrice = network.stepPrice
        /\ net.irep = network.irep
        /\ net.iglobal = network.iglobal
        /\ net.stepCosts = network.stepCosts
        /\ net.allocation = network.allocation
        /\ net.blackList = network.blackList
    BY <2>1 DEF NetworkInOrder, NetworkValues
  <2> QED
    BY <1>2, <2>2, <2>3 DEF NetworkInOrder, v, net
<1>3. CASE Type(content) = "MALICIOUS_SCORE"
  <2>1. net = [network EXCEPT !.blackList = IF v.freeze THEN @ \cup {v.address}
                                                       ELSE @ \ {v.address}]
    BY <1>3 DEF Applied
  <2>2. v.freeze => v.address # Self
    BY <1>3 DEF Applicable, MayList
  <2> HIDE DEF v, net
  <2>3. /\ DOMAIN net = NetworkValues
        /\ net.revision = network.revision
        /\ net.stepPrice = network.stepPrice
        /\ net.irep = network.irep
        /\ net.iglobal = network.iglobal
        /\ net.stepCosts = network.stepCosts
        /\ net.allocation = network.allocation
        /\ net.blackList = IF v.freeze THEN network.blackList \cup {v.address}
                           ELSE network.blackList \ {v.address}
    BY <2>1 DEF NetworkInOrder, NetworkValues
  <2> QED
    BY <1>3, <2>2, <2>3 DEF NetworkInOrder, v, net
<1>4. CASE Type(content) = "STEP_PRICE"
  <2>1. net = [network EXCEPT !.stepPrice = PositiveOr(v, @)]
    BY <1>4 DEF Applied
  <2>2. PositiveOr(v, network.stepPrice) \in Nat \ {0}
    BY <1>1, <1>4, ContentsAssumption DEF NetworkInOrder
  <2> HIDE DEF v, net
  <2>3. /\ DOMAIN net = NetworkValues
        /\ net.revision = network.revision
        /\ net.stepPrice = PositiveOr(v, network.stepPrice)
        /\ net.irep = network.irep
        /\ net.iglobal = network.iglobal
        /\ net.stepCosts = network.stepCosts
        /\ net.allocation = network.allocation
        /\ net.blackList = network.blackList
    BY <2>1 DEF NetworkInOrder, NetworkValues
  <2> QED
    BY <1>4, <2>2, <2>3 DEF NetworkInOrder, net
<1>5. CASE Type(content) = "IREP"
  <2>1. net = [network EXCEPT !.irep = PositiveOr(v, @)]
    BY <1>5 DEF Applied
  <2>2. PositiveOr(v, network.irep) \in Nat \ {0}
    BY <1>1, <1>5, ContentsAssumption DEF NetworkInOrder
  <2> HIDE DEF v, net
  <2>3. /\ DOMAIN net = NetworkValues
        /\ net.revision = network.revision
        /\ net.stepPrice = network.stepPrice
        /\ net.irep = PositiveOr(v, network.irep)
        /\ net.iglobal = network.iglobal
        /\ net.stepCosts = network.stepCosts
        /\ net.allocation = network.allocation
        /\ net.blackList = network.blackList
    BY <2>1 DEF NetworkInOrder, NetworkValues
  <2> QED
    BY <1>5, <2>2, <2>3 DEF NetworkInOrder, net
<1>6. CASE Type(content) = "STEP_COSTS"
  <2>1. net = [network EXCEPT !.stepCosts = v]
    BY <1>6 DEF Applied
  <2>2. DOMAIN v \subseteq ALL_STEP_TYPES
    BY <1>6 DEF Checked
  <2> HIDE DEF v, net
  <2>3. /\ DOMAIN net = NetworkValues
        /\ net.revision = network.revision
        /\ net.stepPrice = network.stepPrice
        /\ net.irep = network.irep
        /\ net.iglobal = network.iglobal
        /\ net.stepCosts = v
        /\ net.allocation = network.allocation
        /\ net.blackList = network.blackList
    BY <2>1 DEF NetworkInOrder, NetworkValues
  <2> QED
    BY <1>6, <2>2, <2>3 DEF NetworkInOrder, net
<1>7. CASE Type(content) = "REWARD_FUND_SETTING"
  <2>1. net = [network EXCEPT !.iglobal = PositiveOr(v, @)]
    BY <1>7 DEF Applied
  <2>2. PositiveOr(v, network.iglobal) \in Nat \ {0}
    BY <1>1, <1>7, ContentsAssumption DEF NetworkInOrder
  <2> HIDE DEF v, net
  <2>3. /\ DOMAIN net = NetworkValues
        /\ net.revision = network.revision
        /\ net.stepPrice = network.stepPrice
        /\ net.irep = network.irep
        /\ net.iglobal = PositiveOr(v, network.iglobal)
        /\ net.stepCosts = network.stepCosts
        /\ net.allocation = network.allocation
        /\ net.blackList = network.blackList
    BY <2>1 DEF NetworkInOrder, NetworkValues
  <2> QED
    BY <1>7, <2>2, <2>3 DEF NetworkInOrder, net
<1>8. CASE Type(content) = "REWARD_FUND_ALLOCATION"
  <2>1. net = [network EXCEPT !.allocation = v]
    BY <1>8 DEF Applied
  <2>2. IsAllocation(v)
    BY <1>8 DEF Checked
  <2> HIDE DEF v, net
  <2>3. /\ DOMAIN net = NetworkValues
        /\ net.revision = network.revision
        /\ net.stepPrice = network.stepPrice
        /\ net.irep = network.irep
        /\ net.iglobal = network.iglobal
        /\ net.stepCosts = network.stepCosts
        /\ net.allocation = v
        /\ net.blackList = network.blackList
    BY <2>1 DEF NetworkInOrder, NetworkValues
  <2> QED
    BY <1>8, <2>2, <2>3 DEF NetworkInOrder, net
<1>9. CASE Type(content) \notin {"REVISION", "MALICIOUS_SCORE", "STEP_PRICE",
                                 "IREP", "STEP_COSTS", "REWARD_FUND_SETTING",
                                 "REWARD_FUND_ALLOCATION"}
  <2>1. net = network
    BY <1>9 DEF Applied
  <2> QED
    BY <1>9, <2>1
<1> QED
  BY <1>2, <1>3, <1>4, <1>5, <1>6, <1>7, <1>8, <1>9

\* The lists of main P-Reps after an approval.
LEMMA ListsAfterType ==
    ASSUME MainPreps(mainPreps), NEW content, NEW list \in ListsAfter(content)
    PROVE  MainPreps(list)
<1>1. CASE list = mainPreps
  BY <1>1
<1>2. CASE list # mainPreps
  <2> DEFINE D == DOMAIN mainPreps \ {Value(content)}
  <2>1. list = [p \in D |-> mainPreps[p]]
    BY <1>2 DEF ListsAfter
  <2>2. DOMAIN list = D /\ \A p \in D : list[p] = mainPreps[p]
    BY <2>1
  <2>3. IsFiniteSet(D)
    BY FS_Subset DEF MainPreps
  <2> QED
    BY <2>2, <2>3 DEF MainPreps
<1> QED
  BY <1>1, <1>2

-----------------------------------------------------------------------------
(* The inductive invariant.                                                *)

\* The proposals kept.
ProposalsInOrder ==
    /\ proposals \in [Id -> ProposalInfo \cup {Null}]
    /\ \A id \in Id : IsRegistered(id) => InOrder(proposals[id])
    /\ IsFiniteSet({id \in Id : IsRegistered(id)})

\* What the platform reports.
PlatformInOrder ==
    /\ MainPreps(mainPreps)
    /\ termEnd \in Int
    /\ blockHeight \in Nat

\* The revision is the start's or an approved one, and the highest of them.
RevisionFollows ==
    /\ InitialNetwork.revision <= network.revision
    /\ \A id \in ApprovedContents("REVISION") :
          Value(proposals[id].content) <= network.revision
    /\ \/ network.revision = InitialNetwork.revision
       \/ \E id \in ApprovedContents("REVISION") :
             network.revision = Value(proposals[id].content)

Addresses == {Value(c).address :
                 c \in {d \in Contents : Type(d) = "MALICIOUS_SCORE"}}

\* A SCORE is frozen as often as it is unfrozen, or once more or less.
BlackListFollows ==
    \A a \in Addresses :
        Cardinality(ApprovedFor(a, TRUE)) - Cardinality(ApprovedFor(a, FALSE))
            = Listing(a, network.blackList)
                  - Listing(a, InitialNetwork.blackList)

GInv ==
    /\ ProposalsInOrder
    /\ PlatformInOrder
    /\ NetworkInOrder(network)
    /\ RevisionFollows
    /\ BlackListFollows

\* At the start nothing is registered.
LEMMA GInvInit == Init => GInv
<1> SUFFICES ASSUME Init
             PROVE  GInv
  OBVIOUS
<1>1. \A id \in Id : ~IsRegistered(id)
  BY DEF Init, IsRegistered
<1>2. ProposalsInOrder
  <2>1. {id \in Id : IsRegistered(id)} = {}
    BY <1>1
  <2>2. IsFiniteSet({id \in Id : IsRegistered(id)})
    BY <2>1, FS_EmptySet
  <2> QED
    BY <1>1, <2>2 DEF Init, ProposalsInOrder
<1>3. PlatformInOrder
  BY GovernanceAssumption DEF Init, PlatformInOrder, MainPreps
<1>4. NetworkInOrder(network)
  BY NetworkAssumption DEF Init, NetworkInOrder
<1>5. RevisionFollows
  <2>1. ApprovedContents("REVISION") = {}
    BY <1>1 DEF ApprovedContents
  <2> QED
    BY <2>1, NetworkAssumption DEF Init, RevisionFollows
<1>6. BlackListFollows
  <2> SUFFICES ASSUME NEW a \in Addresses
               PROVE  Cardinality(ApprovedFor(a, TRUE))
                         - Cardinality(ApprovedFor(a, FALSE))
                         = Listing(a, network.blackList)
                              - Listing(a, InitialNetwork.blackList)
    BY DEF BlackListFollows
  <2>1. ApprovedFor(a, TRUE) = {} /\ ApprovedFor(a, FALSE) = {}
    BY <1>1 DEF ApprovedFor, ApprovedContents
  <2>2. Cardinality({}) = 0
    BY FS_EmptySet
  <2>3. network.blackList = InitialNetwork.blackList
    BY DEF Init
  <2>4. Listing(a, network.blackList) \in {0, 1}
    BY DEF Listing
  <2>5. Cardinality(ApprovedFor(a, TRUE)) - Cardinality(ApprovedFor(a, FALSE))
           = 0
    <3>1. /\ Cardinality(ApprovedFor(a, TRUE)) = 0
          /\ Cardinality(ApprovedFor(a, FALSE)) = 0
      BY <2>1, <2>2
    <3>2. 0 - 0 = 0
      OBVIOUS
    <3> QED
      BY ONLY <3>1, <3>2, Zenon
  <2>6. Listing(a, network.blackList) - Listing(a, InitialNetwork.blackList)
           = 0
    BY <2>3, <2>4
  <2> QED
    BY <2>5, <2>6
<1> QED
  BY <1>2, <1>3, <1>4, <1>5, <1>6 DEF GInv

\* A step that writes a proposal, and approves none by it, leaves what is
\* approved.
LEMMA NothingApproved ==
    ASSUME proposals \in [Id -> ProposalInfo \cup {Null}],
           NEW id \in Id, NEW new,
           proposals' = [proposals EXCEPT ![id] = new], new # Null,
           IsRegistered(id) /\ proposals[id].status = "APPROVED"
               <=> new.status = "APPROVED",
           IsRegistered(id) => new.content = proposals[id].content
    PROVE  /\ \A type : /\ ApprovedContents(type)' = ApprovedContents(type)
                        /\ \A i \in ApprovedContents(type) :
                              proposals'[i].content = proposals[i].content
           /\ \A a, f : ApprovedFor(a, f)' = ApprovedFor(a, f)
<1>1. ASSUME NEW type, NEW i \in Id
      PROVE  /\ i \in ApprovedContents(type)' <=> i \in ApprovedContents(type)
             /\ i \in ApprovedContents(type) =>
                   proposals'[i].content = proposals[i].content
  <2>1. CASE i = id
    <3>1. proposals'[i] = new
      BY <2>1
    <3> QED
      BY <2>1, <3>1 DEF ApprovedContents, IsRegistered
  <2>2. CASE i # id
    <3>1. proposals'[i] = proposals[i]
      BY <2>2
    <3> QED
      BY <3>1 DEF ApprovedContents, IsRegistered
  <2> QED
    BY <2>1, <2>2
<1>2. ASSUME NEW type
      PROVE  /\ ApprovedContents(type)' = ApprovedContents(type)
             /\ \A i \in ApprovedContents(type) :
                   proposals'[i].content = proposals[i].content
  <2>1. ApprovedContents(type) \subseteq Id /\ ApprovedContents(type)' \subseteq Id
    BY DEF ApprovedContents
  <2>2. \A i \in Id : /\ i \in ApprovedContents(type)'
                           <=> i \in ApprovedContents(type)
                      /\ i \in ApprovedContents(type) =>
                            proposals'[i].content = proposals[i].content
    BY <1>1
  <2>3. ApprovedContents(type)' = ApprovedContents(type)
    BY ONLY <2>1, <2>2
  <2> QED
    BY ONLY <2>1, <2>2, <2>3
<1>3. ASSUME NEW a, NEW f
      PROVE  ApprovedFor(a, f)' = ApprovedFor(a, f)
  BY <1>2 DEF ApprovedFor
<1> QED
  BY <1>2, <1>3

\* A step that approves a proposal adds just this one.
LEMMA OneApproved ==
    ASSUME proposals \in [Id -> ProposalInfo \cup {Null}],
           NEW id \in Id, NEW new,
           proposals' = [proposals EXCEPT ![id] = new], new # Null,
           proposals[id].status # "APPROVED", new.status = "APPROVED"
    PROVE  \A type : /\ ApprovedContents(type)' =
                           IF Type(new.content) = type
                           THEN ApprovedContents(type) \cup {id}
                           ELSE ApprovedContents(type)
                     /\ id \notin ApprovedContents(type)
                     /\ proposals'[id] = new
                     /\ \A i \in ApprovedContents(type) :
                           proposals'[i] = proposals[i]
<1> SUFFICES ASSUME NEW type
             PROVE  /\ ApprovedContents(type)' =
                           IF Type(new.content) = type
                           THEN ApprovedContents(type) \cup {id}
                           ELSE ApprovedContents(type)
                    /\ id \notin ApprovedContents(type)
                    /\ proposals'[id] = new
                    /\ \A i \in ApprovedContents(type) :
                          proposals'[i] = proposals[i]
  OBVIOUS
<1>1. id \notin ApprovedContents(type) /\ proposals'[id] = new
  BY DEF ApprovedContents
<1>2. \A i \in Id : i # id => proposals'[i] = proposals[i]
  OBVIOUS
<1>3. \A i \in ApprovedContents(type) : proposals'[i] = proposals[i]
  BY <1>1, <1>2 DEF ApprovedContents
<1>4. ASSUME NEW i \in Id
      PROVE  i \in ApprovedContents(type)' <=>
                \/ i \in ApprovedContents(type)
                \/ i = id /\ Type(new.content) = type
  <2>1. CASE i = id
    BY <1>1, <2>1 DEF ApprovedContents, IsRegistered
  <2>2. CASE i # id
    <3>1. proposals'[i] = proposals[i]
      BY <1>2, <2>2
    <3> QED
      BY <2>2, <3>1 DEF ApprovedContents, IsRegistered
  <2> QED
    BY <2>1, <2>2
<1>5. ApprovedContents(type) \subseteq Id /\ ApprovedContents(type)' \subseteq Id
  BY DEF ApprovedContents
<1>6. ApprovedContents(type)' = IF Type(new.content) = type
                                THEN ApprovedContents(type) \cup {id}
                                ELSE ApprovedContents(type)
  BY <1>4, <1>5
<1> QED
  BY <1>1, <1>3, <1>6

\* One proposal more on a side.
LEMMA CountsMove ==
    \A t, f, l \in Int : /\ t - f = 0 - l => (t + 1) - f = 1 - l
                         /\ t - f = 1 - l => t - (f + 1) = 0 - l
OBVIOUS

\* The network and what is approved move together, each once.
LEMMA EffectsApplied ==
    ASSUME GInv, NEW id \in Id, IsRegistered(id), NEW new \in ProposalInfo,
           proposals' = [proposals EXCEPT ![id] = new],
           proposals[id].status # "APPROVED", new.status = "APPROVED",
           new.content = proposals[id].content, Applicable(new.content),
           network' = Applied(new.content)
    PROVE  NetworkInOrder(network)' /\ RevisionFollows' /\ BlackListFollows'
<1> DEFINE content == new.content
           v == Value(content)
           kind == Type(content)
<1>1. content \in Contents /\ Checked(content)
  <2>1. InOrder(proposals[id])
    BY DEF GInv, ProposalsInOrder
  <2> QED
    BY <2>1, InfoParts DEF InOrder
<1>2. /\ NetworkInOrder(network)'
      /\ network'.revision = IF kind = "REVISION" THEN v ELSE network.revision
      /\ network'.blackList =
            IF kind # "MALICIOUS_SCORE" THEN network.blackList
            ELSE IF v.freeze THEN network.blackList \cup {v.address}
                 ELSE network.blackList \ {v.address}
  <2>1. /\ NetworkInOrder(Applied(content))
        /\ Applied(content).revision =
              IF Type(content) = "REVISION" THEN Value(content)
              ELSE network.revision
        /\ Applied(content).blackList =
              IF Type(content) # "MALICIOUS_SCORE" THEN network.blackList
              ELSE IF Value(content).freeze
                   THEN network.blackList \cup {Value(content).address}
                   ELSE network.blackList \ {Value(content).address}
    BY <1>1, AppliedInOrder DEF GInv
  <2>2. NetworkInOrder(network)' <=> NetworkInOrder(network')
    BY DEF NetworkInOrder, IsAllocation
  <2> QED
    BY <2>1, <2>2
<1>3. proposals \in [Id -> ProposalInfo \cup {Null}] /\ new # Null
  BY NullAssumption DEF GInv, ProposalsInOrder
<1>4. \A type : /\ ApprovedContents(type)' =
                      IF kind = type THEN ApprovedContents(type) \cup {id}
                      ELSE ApprovedContents(type)
                /\ id \notin ApprovedContents(type)
                /\ proposals'[id] = new
                /\ \A i \in ApprovedContents(type) :
                      proposals'[i] = proposals[i]
  BY <1>3, OneApproved
<1>5. RevisionFollows'
  <2>1. /\ InitialNetwork.revision <= network.revision
        /\ \A i \in ApprovedContents("REVISION") :
              Value(proposals[i].content) <= network.revision
        /\ \/ network.revision = InitialNetwork.revision
           \/ \E i \in ApprovedContents("REVISION") :
                 network.revision = Value(proposals[i].content)
        /\ network.revision \in Int /\ InitialNetwork.revision \in Int
    BY NetworkAssumption DEF GInv, RevisionFollows, NetworkInOrder
  <2>2. /\ \A i \in ApprovedContents("REVISION") :
              proposals'[i] = proposals[i]
        /\ proposals'[id] = new
    BY <1>4
  <2>3. CASE kind # "REVISION"
    <3>1. /\ ApprovedContents("REVISION")' = ApprovedContents("REVISION")
          /\ network'.revision = network.revision
      BY <1>2, <1>4, <2>3
    <3> QED
      BY <2>1, <2>2, <3>1 DEF RevisionFollows
  <2>4. CASE kind = "REVISION"
    <3>1. /\ ApprovedContents("REVISION")'
                = ApprovedContents("REVISION") \cup {id}
          /\ network'.revision = v
      BY <1>2, <1>4, <2>4
    <3>2. v \in Int /\ v >= network.revision
      BY <1>1, <2>4, ContentsAssumption DEF Applicable
    <3>3. \A i \in ApprovedContents("REVISION") :
             Value(proposals[i].content) \in Int
      <4> SUFFICES ASSUME NEW i \in ApprovedContents("REVISION")
                   PROVE  Value(proposals[i].content) \in Int
        OBVIOUS
      <4>1. proposals[i] \in ProposalInfo
        BY <1>3 DEF ApprovedContents, IsRegistered
      <4>2. proposals[i].content \in Contents
        BY <4>1, InfoParts
      <4> QED
        BY <4>2, ContentsAssumption DEF ApprovedContents
    <3>4. InitialNetwork.revision <= v
      BY <2>1, <3>2
    <3>5. \A i \in ApprovedContents("REVISION") :
             Value(proposals[i].content) <= v
      BY <2>1, <3>2, <3>3
    <3>6. Value(proposals'[id].content) = v /\ v <= v
      BY <2>2, <3>2
    <3>7. \A i \in ApprovedContents("REVISION")' :
             Value(proposals'[i].content) <= v
      BY <2>2, <3>1, <3>5, <3>6
    <3>8. \E i \in ApprovedContents("REVISION")' :
             v = Value(proposals'[i].content)
      BY <3>1, <3>6
    <3> QED
      BY <3>1, <3>4, <3>7, <3>8 DEF RevisionFollows
  <2> QED
    BY <2>3, <2>4
<1>6. BlackListFollows'
  <2> SUFFICES ASSUME NEW a \in Addresses
               PROVE  Cardinality(ApprovedFor(a, TRUE)')
                         - Cardinality(ApprovedFor(a, FALSE)')
                         = Listing(a, network'.blackList)
                              - Listing(a, InitialNetwork.blackList)
    BY DEF BlackListFollows, Addresses
  <2>1. ASSUME NEW f
        PROVE  /\ IsFiniteSet(ApprovedFor(a, f))
               /\ Cardinality(ApprovedFor(a, f)) \in Int
               /\ id \notin ApprovedFor(a, f)
               /\ ApprovedFor(a, f)' =
                     IF kind = "MALICIOUS_SCORE"
                            /\ v = [address |-> a, freeze |-> f]
                     THEN ApprovedFor(a, f) \cup {id} ELSE ApprovedFor(a, f)
    <3>1. ApprovedFor(a, f) \subseteq {i \in Id : IsRegistered(i)}
      BY DEF ApprovedFor, ApprovedContents
    <3>2. IsFiniteSet(ApprovedFor(a, f))
      BY <3>1, FS_Subset DEF GInv, ProposalsInOrder
    <3>3. Cardinality(ApprovedFor(a, f)) \in Int
      BY <3>2, FS_CardinalityType
    <3>4. id \notin ApprovedFor(a, f)
      BY <1>4 DEF ApprovedFor
    <3>5. ApprovedFor(a, f)' =
             {i \in ApprovedContents("MALICIOUS_SCORE")' :
                 Value(proposals'[i].content) = [address |-> a, freeze |-> f]}
      BY DEF ApprovedFor
    <3>6. /\ \A i \in ApprovedContents("MALICIOUS_SCORE") :
                proposals'[i] = proposals[i]
          /\ proposals'[id] = new
          /\ ApprovedContents("MALICIOUS_SCORE")' =
                IF kind = "MALICIOUS_SCORE"
                THEN ApprovedContents("MALICIOUS_SCORE") \cup {id}
                ELSE ApprovedContents("MALICIOUS_SCORE")
      BY <1>4
    <3>7. ApprovedFor(a, f)' =
             IF kind = "MALICIOUS_SCORE" /\ v = [address |-> a, freeze |-> f]
             THEN ApprovedFor(a, f) \cup {id} ELSE ApprovedFor(a, f)
      <4>1. CASE kind = "MALICIOUS_SCORE" /\ v = [address |-> a, freeze |-> f]
        BY <3>5, <3>6, <4>1 DEF ApprovedFor
      <4>2. CASE kind = "MALICIOUS_SCORE" /\ v # [address |-> a, freeze |-> f]
        BY <3>5, <3>6, <4>2 DEF ApprovedFor
      <4>3. CASE kind # "MALICIOUS_SCORE"
        BY <3>5, <3>6, <4>3 DEF ApprovedFor
      <4> QED
        BY <4>1, <4>2, <4>3
    <3> QED
      BY <3>2, <3>3, <3>4, <3>7
  <2>2. /\ Cardinality(ApprovedFor(a, TRUE)) - Cardinality(ApprovedFor(a, FALSE))
              = Listing(a, network.blackList)
                   - Listing(a, InitialNetwork.blackList)
        /\ Listing(a, InitialNetwork.blackList) \in Int
    <3>1. Listing(a, InitialNetwork.blackList) \in Int
      BY DEF Listing
    <3> QED
      BY <3>1, Zenon DEF GInv, BlackListFollows
  <2>3. PICK freeze \in BOOLEAN :
           kind = "MALICIOUS_SCORE" =>
              v = [address |-> v.address, freeze |-> freeze]
    BY <1>1, ContentsAssumption
  <2>4. CASE kind # "MALICIOUS_SCORE" \/ v.address # a
    <3>1. \A f : kind = "MALICIOUS_SCORE" => v # [address |-> a, freeze |-> f]
      BY <2>4
    <3>2. ApprovedFor(a, TRUE)' = ApprovedFor(a, TRUE)
      BY <2>1, <3>1
    <3>3. ApprovedFor(a, FALSE)' = ApprovedFor(a, FALSE)
      BY <2>1, <3>1
    <3>4. a \in network'.blackList <=> a \in network.blackList
      BY <1>2, <2>4
    <3>5. Listing(a, network'.blackList) = Listing(a, network.blackList)
      BY <3>4 DEF Listing
    <3> QED
      BY <2>2, <3>2, <3>3, <3>5, Zenon
  <2>5. CASE kind = "MALICIOUS_SCORE" /\ v.address = a /\ freeze = TRUE
    <3>1. v = [address |-> a, freeze |-> TRUE]
      BY <2>3, <2>5
    <3>2. v # [address |-> a, freeze |-> FALSE] /\ v.freeze = TRUE
      BY <3>1
    <3>3. ApprovedFor(a, TRUE)' = ApprovedFor(a, TRUE) \cup {id}
      BY <2>1, <2>5, <3>1
    <3>4. ApprovedFor(a, FALSE)' = ApprovedFor(a, FALSE)
      BY <2>1, <3>2
    <3>5. Cardinality(ApprovedFor(a, TRUE)')
             = Cardinality(ApprovedFor(a, TRUE)) + 1
      BY <2>1, <3>3, FS_AddElement
    <3>6. a \notin network.blackList
      BY <2>5, <3>2 DEF Applicable, MayList
    <3>7. a \in network'.blackList
      BY <1>2, <2>5, <3>2
    <3>8. /\ Listing(a, network.blackList) = 0
          /\ Listing(a, network'.blackList) = 1
      BY <3>6, <3>7 DEF Listing
    <3>9. Cardinality(ApprovedFor(a, TRUE)) \in Int
             /\ Cardinality(ApprovedFor(a, FALSE)) \in Int
      BY <2>1
    <3>10. Cardinality(ApprovedFor(a, TRUE))
              - Cardinality(ApprovedFor(a, FALSE))
              = 0 - Listing(a, InitialNetwork.blackList)
      BY ONLY <2>2, <3>8, Zenon
    <3>11. (Cardinality(ApprovedFor(a, TRUE)) + 1)
              - Cardinality(ApprovedFor(a, FALSE))
              = 1 - Listing(a, InitialNetwork.blackList)
      BY ONLY <2>2, <3>9, <3>10, CountsMove, Zenon
    <3> QED
      BY ONLY <3>4, <3>5, <3>8, <3>11, Zenon
  <2>6. CASE kind = "MALICIOUS_SCORE" /\ v.address = a /\ freeze = FALSE
    <3>1. v = [address |-> a, freeze |-> FALSE]
      BY <2>3, <2>6
    <3>2. v # [address |-> a, freeze |-> TRUE] /\ v.freeze = FALSE
      BY <3>1
    <3>3. ApprovedFor(a, FALSE)' = ApprovedFor(a, FALSE) \cup {id}
      BY <2>1, <2>6, <3>1
    <3>4. ApprovedFor(a, TRUE)' = ApprovedFor(a, TRUE)
      BY <2>1, <3>2
    <3>5. Cardinality(ApprovedFor(a, FALSE)')
             = Cardinality(ApprovedFor(a, FALSE)) + 1
      BY <2>1, <3>3, FS_AddElement
    <3>6. a \in network.blackList
      BY <2>6, <3>2 DEF Applicable, MayList
    <3>7. a \notin network'.blackList
      BY <1>2, <2>6, <3>2
    <3>8. /\ Listing(a, network.blackList) = 1
          /\ Listing(a, network'.blackList) = 0
      BY <3>6, <3>7 DEF Listing
    <3>9. Cardinality(ApprovedFor(a, TRUE)) \in Int
             /\ Cardinality(ApprovedFor(a, FALSE)) \in Int
      BY <2>1
    <3>10. Cardinality(ApprovedFor(a, TRUE))
              - Cardinality(ApprovedFor(a, FALSE))
              = 1 - Listing(a, InitialNetwork.blackList)
      BY ONLY <2>2, <3>8, Zenon
    <3>11. Cardinality(ApprovedFor(a, TRUE))
              - (Cardinality(ApprovedFor(a, FALSE)) + 1)
              = 0 - Listing(a, InitialNetwork.blackList)
      BY ONLY <2>2, <3>9, <3>10, CountsMove, Zenon
    <3> QED
      BY ONLY <3>4, <3>5, <3>8, <3>11, Zenon
  <2> QED
    BY <2>4, <2>5, <2>6
<1> QED
  BY <1>2, <1>5, <1>6

\* Writing one proposal that is in order keeps the proposals in order.
LEMMA OneWritten ==
    ASSUME ProposalsInOrder, NEW id \in Id, NEW new, InOrder(new),
           proposals' = [proposals EXCEPT ![id] = new]
    PROVE  ProposalsInOrder' /\ new # Null
<1>1. new \in ProposalInfo /\ new # Null
  BY NullAssumption DEF InOrder
<1>2. proposals' \in [Id -> ProposalInfo \cup {Null}]
  BY <1>1 DEF ProposalsInOrder
<1>3. proposals'[id] = new /\ \A i \in Id : i # id => proposals'[i] = proposals[i]
  BY DEF ProposalsInOrder
<1>4. \A i \in Id : proposals'[i] # Null => InOrder(proposals'[i])
  BY <1>3 DEF ProposalsInOrder, IsRegistered
<1>5. IsFiniteSet({i \in Id : proposals'[i] # Null})
  <2>1. {i \in Id : proposals'[i] # Null}
           = {i \in Id : proposals[i] # Null} \cup {id}
    BY <1>1, <1>3
  <2>2. IsFiniteSet({i \in Id : proposals[i] # Null})
    BY DEF ProposalsInOrder, IsRegistered
  <2> QED
    BY <2>1, <2>2, FS_AddElement
<1>6. \A i \in Id : IsRegistered(i)' <=> proposals'[i] # Null
  BY DEF IsRegistered
<1>7. {i \in Id : IsRegistered(i)}' = {i \in Id : proposals'[i] # Null}
  BY DEF IsRegistered
<1>8. ASSUME NEW i \in Id, IsRegistered(i)'
      PROVE  InOrder(proposals[i])'
  <2>1. InOrder(proposals'[i])
    BY <1>4, <1>6, <1>8
  <2>2. InOrder(proposals[i])' <=> InOrder(proposals'[i])
    BY DEF InOrder, Balanced, Electors, Justified, CheckVoteResult, Reaches,
           Checked, IsAllocation, Type, Value
  <2> QED
    BY <2>1, <2>2
<1> QED
  BY <1>1, <1>2, <1>5, <1>7, <1>8 DEF ProposalsInOrder

\* A step that approves nothing leaves the network as approved.
LEMMA EffectsKept ==
    ASSUME GInv, UNCHANGED network,
           \A type : /\ ApprovedContents(type)' = ApprovedContents(type)
                     /\ \A i \in ApprovedContents(type) :
                           proposals'[i].content = proposals[i].content,
           \A a, f : ApprovedFor(a, f)' = ApprovedFor(a, f)
    PROVE  NetworkInOrder(network)' /\ RevisionFollows' /\ BlackListFollows'
<1>1. NetworkInOrder(network)'
  BY DEF GInv, NetworkInOrder, IsAllocation
<1>2. RevisionFollows'
  BY DEF GInv, RevisionFollows
<1>3. BlackListFollows'
  <2> SUFFICES ASSUME NEW a \in Addresses
               PROVE  Cardinality(ApprovedFor(a, TRUE)')
                         - Cardinality(ApprovedFor(a, FALSE)')
                         = Listing(a, network'.blackList)
                              - Listing(a, InitialNetwork.blackList)
    BY DEF BlackListFollows, Addresses
  <2>1. /\ ApprovedFor(a, TRUE)' = ApprovedFor(a, TRUE)
        /\ ApprovedFor(a, FALSE)' = ApprovedFor(a, FALSE)
        /\ network' = network
    OBVIOUS
  <2>2. Cardinality(ApprovedFor(a, TRUE)) - Cardinality(ApprovedFor(a, FALSE))
           = Listing(a, network.blackList) - Listing(a, InitialNetwork.blackList)
    BY Zenon DEF GInv, BlackListFollows
  <2> QED
    BY ONLY <2>1, <2>2, Zenon
<1> QED
  BY <1>1, <1>2, <1>3

LEMMA RegisterKeeps ==
    ASSUME GInv, NEW id \in Id, NEW proposer \in Prep, NEW content \in Contents,
           RegisterProposal(id, proposer, content)
    PROVE  GInv'
<1> DEFINE new == Registered(proposer, termEnd, content, mainPreps)
<1>1. /\ proposals' = [proposals EXCEPT ![id] = new]
      /\ ~IsRegistered(id) /\ proposer \in DOMAIN mainPreps
      /\ Valid(content)
      /\ UNCHANGED <<network, mainPreps, termEnd, blockHeight>>
  BY DEF RegisterProposal, IsMainPrep
<1>2. InOrder(new) /\ new.status = "VOTING"
  <2>1. MainPreps(mainPreps) /\ termEnd \in Int
    BY DEF GInv, PlatformInOrder
  <2>2. Checked(content)
    BY <1>1 DEF Valid, Checked
  <2> QED
    BY <1>1, <2>1, <2>2, RegisteredInOrder
<1> HIDE DEF new
<1>3. ProposalsInOrder' /\ new # Null
  BY <1>1, <1>2, OneWritten DEF GInv
<1>4. PlatformInOrder'
  BY <1>1 DEF GInv, PlatformInOrder, MainPreps
<1>5. /\ \A type : /\ ApprovedContents(type)' = ApprovedContents(type)
                   /\ \A i \in ApprovedContents(type) :
                         proposals'[i].content = proposals[i].content
      /\ \A a, f : ApprovedFor(a, f)' = ApprovedFor(a, f)
  <2>1. proposals \in [Id -> ProposalInfo \cup {Null}]
    BY DEF GInv, ProposalsInOrder
  <2> QED
    BY <1>1, <1>2, <1>3, <2>1, NothingApproved
<1>6. NetworkInOrder(network)' /\ RevisionFollows' /\ BlackListFollows'
  BY <1>1, <1>5, EffectsKept
<1> QED
  BY <1>3, <1>4, <1>6 DEF GInv

LEMMA CancelKeeps ==
    ASSUME GInv, NEW id \in Id, NEW caller \in Prep, CancelProposal(id, caller)
    PROVE  GInv'
<1> DEFINE new == Canceled(proposals[id])
<1>1. /\ proposals' = [proposals EXCEPT ![id] = new]
      /\ IsRegistered(id) /\ proposals[id].status = "VOTING"
      /\ UNCHANGED <<network, mainPreps, termEnd, blockHeight>>
  BY DEF CancelProposal, CanCancel
<1>2. /\ InOrder(new) /\ new.status = "CANCELED"
      /\ new.content = proposals[id].content
  <2>1. InOrder(proposals[id])
    BY <1>1 DEF GInv, ProposalsInOrder
  <2> QED
    BY <2>1, CanceledInOrder
<1> HIDE DEF new
<1>3. ProposalsInOrder' /\ new # Null
  BY <1>1, <1>2, OneWritten DEF GInv
<1>4. PlatformInOrder'
  BY <1>1 DEF GInv, PlatformInOrder, MainPreps
<1>5. /\ \A type : /\ ApprovedContents(type)' = ApprovedContents(type)
                   /\ \A i \in ApprovedContents(type) :
                         proposals'[i].content = proposals[i].content
      /\ \A a, f : ApprovedFor(a, f)' = ApprovedFor(a, f)
  <2>1. proposals \in [Id -> ProposalInfo \cup {Null}]
    BY DEF GInv, ProposalsInOrder
  <2> QED
    BY <1>1, <1>2, <1>3, <2>1, NothingApproved
<1>6. NetworkInOrder(network)' /\ RevisionFollows' /\ BlackListFollows'
  BY <1>1, <1>5, EffectsKept
<1> QED
  BY <1>3, <1>4, <1>6 DEF GInv

LEMMA VoteKeeps ==
    ASSUME GInv, NEW id \in Id, NEW voter \in Prep, NEW vote \in Votes,
           VoteProposal(id, voter, vote)
    PROVE  GInv'
<1> DEFINE info == proposals[id]
           new == Voted(info, voter, vote, mainPreps[voter])
<1>1. /\ proposals' = [proposals EXCEPT ![id] = new]
      /\ IsRegistered(id) /\ voter \in DOMAIN mainPreps
      /\ CanVote(info, voter, blockHeight)
      /\ UNCHANGED <<termEnd, blockHeight>>
      /\ IF Approves(info, new)
         THEN /\ Applicable(info.content)
              /\ network' = Applied(info.content)
              /\ mainPreps' \in ListsAfter(info.content)
         ELSE UNCHANGED <<network, mainPreps>>
  BY DEF VoteProposal, IsMainPrep
<1>2. mainPreps[voter] \in Nat /\ InOrder(info) /\ MainPreps(mainPreps)
  BY <1>1 DEF GInv, ProposalsInOrder, PlatformInOrder, MainPreps
<1>3. /\ InOrder(new)
      /\ new.content = info.content
      /\ info.status # "VOTING" => new.status = info.status
  <2>1. InOrder(new)
    BY <1>1, <1>2, VotedInOrder
  <2>2. info \in ProposalInfo /\ voter \in ToSet(info.noVote.list)
    BY <1>1, <1>2 DEF InOrder, CanVote
  <2>3. /\ new.content = info.content
        /\ info.status # "VOTING" => new.status = info.status
    BY <1>2, <2>2, VotedParts
  <2> QED
    BY <2>1, <2>3
<1> HIDE DEF new
<1>4. ProposalsInOrder' /\ new # Null /\ new \in ProposalInfo
  BY <1>1, <1>3, OneWritten DEF GInv, InOrder
<1>5. MainPreps(mainPreps')
  BY <1>1, <1>2, ListsAfterType
<1>6. PlatformInOrder'
  BY <1>1, <1>5 DEF GInv, PlatformInOrder, MainPreps
<1>7. CASE Approves(info, new)
  <2>1. /\ Applicable(new.content) /\ network' = Applied(new.content)
        /\ info.status # "APPROVED" /\ new.status = "APPROVED"
    BY <1>1, <1>3, <1>7 DEF Approves
  <2>2. NetworkInOrder(network)' /\ RevisionFollows' /\ BlackListFollows'
    BY <1>1, <1>3, <1>4, <2>1, EffectsApplied
  <2> QED
    BY <1>4, <1>6, <2>2 DEF GInv
<1>8. CASE ~Approves(info, new)
  <2>1. UNCHANGED network
    BY <1>1, <1>8
  <2>2. info.status = "APPROVED" <=> new.status = "APPROVED"
    BY <1>3, <1>8 DEF Approves
  <2>3. /\ \A type : /\ ApprovedContents(type)' = ApprovedContents(type)
                     /\ \A i \in ApprovedContents(type) :
                           proposals'[i].content = proposals[i].content
        /\ \A a, f : ApprovedFor(a, f)' = ApprovedFor(a, f)
    <3>1. proposals \in [Id -> ProposalInfo \cup {Null}]
      BY DEF GInv, ProposalsInOrder
    <3> QED
      BY <1>1, <1>3, <1>4, <2>2, <3>1, NothingApproved
  <2>4. NetworkInOrder(network)' /\ RevisionFollows' /\ BlackListFollows'
    BY <2>1, <2>3, EffectsKept
  <2> QED
    BY <1>4, <1>6, <2>4 DEF GInv
<1> QED
  BY <1>7, <1>8

\* Whatever is not a call of a P-Rep leaves proposals and network alone.
LEMMA PlatformKeeps ==
    ASSUME GInv, NewBlock \/ ChangeMainPreps \/ UNCHANGED vars
    PROVE  GInv'
<1>1. UNCHANGED <<proposals, network>>
  BY DEF NewBlock, ChangeMainPreps, vars
<1>2. PlatformInOrder'
  <2>1. CASE NewBlock
    BY <2>1 DEF GInv, PlatformInOrder, MainPreps, NewBlock
  <2>2. CASE ChangeMainPreps
    BY <2>2, GovernanceAssumption
       DEF GInv, PlatformInOrder, MainPreps, ChangeMainPreps
  <2>3. CASE UNCHANGED vars
    BY <2>3 DEF GInv, PlatformInOrder, MainPreps, vars
  <2> QED
    BY <2>1, <2>2, <2>3
<1>3. ProposalsInOrder'
  BY <1>1, ZenonT(60)
     DEF GInv, ProposalsInOrder, IsRegistered, InOrder, Balanced, Electors,
         Justified, CheckVoteResult, Reaches, Checked, IsAllocation, Type,
         Value
<1>4. /\ \A type : /\ ApprovedContents(type)' = ApprovedContents(type)
                   /\ \A i \in ApprovedContents(type) :
                         proposals'[i].content = proposals[i].content
      /\ \A a, f : ApprovedFor(a, f)' = ApprovedFor(a, f)
  BY <1>1 DEF ApprovedContents, ApprovedFor, IsRegistered
<1>5. NetworkInOrder(network)' /\ RevisionFollows' /\ BlackListFollows'
  BY <1>1, <1>4, EffectsKept
<1> QED
  BY <1>2, <1>3, <1>5 DEF GInv

LEMMA GInvNext == GInv /\ [Next]_vars => GInv'
<1> SUFFICES ASSUME GInv, [Next]_vars
             PROVE  GInv'
  OBVIOUS
<1>1. CASE \E id \in Id, p \in Prep, c \in Contents : RegisterProposal(id, p, c)
  BY <1>1, RegisterKeeps
<1>2. CASE \E id \in Id, p \in Prep : CancelProposal(id, p)
  BY <1>2, CancelKeeps
<1>3. CASE \E id \in Id, p \in Prep, v \in Votes : VoteProposal(id, p, v)
  BY <1>3, VoteKeeps
<1>4. CASE NewBlock \/ ChangeMainPreps \/ UNCHANGED vars
  BY <1>4, PlatformKeeps
<1> QED
  BY <1>1, <1>2, <1>3, <1>4 DEF Next

THEOREM GovernanceInvariant == Spec => []GInv
BY GInvInit, GInvNext, PTL DEF Spec

-----------------------------------------------------------------------------
(* The properties.                                                         *)

\* Proposals, network and main P-Reps are of their types in every state.
THEOREM GovernanceTypes == Spec => []TypeOK
<1>1. GInv => TypeOK
  BY DEF GInv, ProposalsInOrder, PlatformInOrder, MainPreps, NetworkInOrder,
         TypeOK
<1> QED
  BY <1>1, GovernanceInvariant, PTL

\* Every P-Rep registered with a proposal is counted exactly once, and the
\* amounts add up, whatever lists the platform reports between two votes.
THEOREM BallotsStayWhole == Spec => []BallotsAddUp
<1>1. ASSUME NEW info, InOrder(info)
      PROVE  LET lists == info.agree.list \o info.disagree.list
                              \o info.noVote.list
             IN  /\ Len(lists) = info.totalVoter
                 /\ Cardinality(ToSet(lists)) = info.totalVoter
                 /\ info.agree.amount + info.disagree.amount
                        + info.noVote.amount = info.totalDelegated
  <2> DEFINE two == info.agree.list \o info.disagree.list
             lists == two \o info.noVote.list
  <2>1. /\ info.agree.list \in Seq(Prep) /\ info.disagree.list \in Seq(Prep)
        /\ info.noVote.list \in Seq(Prep)
    BY <1>1, InfoParts DEF InOrder
  <2>2. /\ two \in Seq(Prep)
        /\ Len(two) = Len(info.agree.list) + Len(info.disagree.list)
        /\ ToSet(two) = ToSet(info.agree.list) \cup ToSet(info.disagree.list)
    BY ONLY <2>1, ToSetConcat
  <2> HIDE DEF two
  <2>3. /\ Len(lists) = Len(two) + Len(info.noVote.list)
        /\ ToSet(lists) = ToSet(two) \cup ToSet(info.noVote.list)
    <3>1. two \in Seq(Prep) /\ info.noVote.list \in Seq(Prep)
      BY <2>1, <2>2
    <3>2. /\ lists \in Seq(Prep)
          /\ Len(lists) = Len(two) + Len(info.noVote.list)
          /\ ToSet(lists) = ToSet(two) \cup ToSet(info.noVote.list)
      BY ONLY <3>1, ToSetConcat
    <3> QED
      BY <3>2
  <2> HIDE DEF lists
  <2>4. ToSet(lists) = Electors(info)
    BY <2>2, <2>3 DEF Electors
  <2>5. Len(lists) = Len(info.agree.list) + Len(info.disagree.list)
                        + Len(info.noVote.list)
    BY <2>2, <2>3, Zenon
  <2> QED
    BY <1>1, <2>4, <2>5, Zenon DEF InOrder, Balanced, lists, two
<1>2. GInv => BallotsAddUp
  <2> SUFFICES ASSUME GInv, NEW info \in Proposals
               PROVE  LET lists == info.agree.list \o info.disagree.list
                                       \o info.noVote.list
                      IN  /\ Len(lists) = info.totalVoter
                          /\ Cardinality(ToSet(lists)) = info.totalVoter
                          /\ info.agree.amount + info.disagree.amount
                                 + info.noVote.amount = info.totalDelegated
    BY DEF BallotsAddUp
  <2>1. InOrder(info)
    BY DEF Proposals, GInv, ProposalsInOrder
  <2> QED
    BY ONLY <1>1, <2>1
<1> QED
  BY <1>2, GovernanceInvariant, PTL

\* No status without the ballots for it, late votes or not.
THEOREM StatusesAreJustified == Spec => []StatusJustified
<1>1. GInv => \A info \in Proposals : Justified(info)
  BY DEF GInv, ProposalsInOrder, InOrder, Proposals
<1>2. GInv => StatusJustified
  BY <1>1 DEF Justified, StatusJustified
<1> QED
  BY <1>2, GovernanceInvariant, PTL

\* The network values are what the approved proposals say, each applied once.
THEOREM EffectsAreApprovals == Spec => []EffectsFollowApprovals
<1>1. GInv => EffectsFollowApprovals
  <2> SUFFICES ASSUME GInv
               PROVE  EffectsFollowApprovals
    OBVIOUS
  <2> DEFINE S == {InitialNetwork.revision}
                     \cup {Value(proposals[id].content) :
                              id \in ApprovedContents("REVISION")}
             r == network.revision
  <2>1. r \in S /\ r \in Int
    BY DEF GInv, RevisionFollows, NetworkInOrder
  <2>2. S \subseteq Int
    <3> SUFFICES ASSUME NEW id \in ApprovedContents("REVISION")
                 PROVE  Value(proposals[id].content) \in Int
      BY NetworkAssumption
    <3>1. proposals[id] \in ProposalInfo
      BY DEF GInv, ProposalsInOrder, ApprovedContents, IsRegistered
    <3> QED
      BY <3>1, InfoParts, ContentsAssumption DEF ApprovedContents
  <2>3. \A x \in S : x <= r
    BY DEF GInv, RevisionFollows
  <2> HIDE DEF S, r
  <2>4. \A x \in S : r >= x
    BY <2>1, <2>2, <2>3
  <2>5. ASSUME NEW m \in S, \A x \in S : m >= x
        PROVE  m = r
    <3>1. m >= r /\ r >= m /\ m \in Int
      BY <2>1, <2>2, <2>4, <2>5
    <3> QED
      BY <2>1, <3>1
  <2>6. Max(S) = r
    BY <2>1, <2>4, <2>5 DEF Max
  <2> QED
    BY <2>6, Zenon DEF GInv, BlackListFollows, Addresses,
                       EffectsFollowApprovals, S, r
<1> QED
  BY <1>1, GovernanceInvariant, PTL

\* No sequence of approvals puts the network out of order.
THEOREM NetworkIsValid == Spec => []NetworkStaysValid
<1>1. GInv => NetworkStaysValid
  BY DEF GInv, NetworkInOrder, IsAllocation, NetworkStaysValid
<1> QED
  BY <1>1, GovernanceInvariant, PTL

-----------------------------------------------------------------------------
(* Step prices.                                                            *)

\* A set of numbers that holds zero and the successor of each of its elements
\* holds them all.
LEMMA AllNumbers ==
    ASSUME NEW S, 0 \in S, \A n \in Nat : n \in S => n + 1 \in S
    PROVE  \A n \in Nat : n \in S
<1> DEFINE T == Nat \ S
<1>1. SUFFICES ASSUME T # {} PROVE FALSE
  OBVIOUS
<1>2. T \subseteq Nat
  OBVIOUS
<1> HIDE DEF T
<1>3. Min(T) \in T /\ \A y \in T : Min(T) <= y
  BY <1>1, <1>2, MinIsMember
<1> DEFINE k == Min(T)
<1> HIDE DEF k
<1>4. k \in Nat /\ k \notin S /\ \A y \in T : k <= y
  BY <1>3 DEF T, k
<1>5. k # 0 /\ k - 1 \in Nat /\ (k - 1) + 1 = k /\ ~(k <= k - 1)
  BY <1>4
<1>6. k - 1 \notin T
  BY <1>4, <1>5
<1>7. k - 1 \in S
  BY <1>5, <1>6 DEF T
<1> QED
  BY <1>4, <1>5, <1>7

\* f is what a step makes of a start, up to m times.
Iterated(f, step, start, m) ==
    /\ f \in [0..m -> Int]
    /\ f[0] = start
    /\ \A n \in 0..m : n # 0 => f[n] = step[f[n - 1]]

\* A step on integers can be taken any number of times.
LEMMA IterationExists ==
    ASSUME NEW step \in [Int -> Int], NEW start \in Int
    PROVE  \E f \in [Nat -> Int] :
              /\ f[0] = start
              /\ \A n \in Nat : n # 0 => f[n] = step[f[n - 1]]
<1> DEFINE S == {m \in Nat : \E f : Iterated(f, step, start, m)}
<1>1. 0 \in S
  <2> DEFINE f == [n \in 0..0 |-> start]
  <2>1. Iterated(f, step, start, 0)
    BY DEF Iterated
  <2> QED
    BY <2>1
<1>2. ASSUME NEW m \in Nat, m \in S
      PROVE  m + 1 \in S
  <2>1. PICK f : Iterated(f, step, start, m)
    BY <1>2
  <2> DEFINE g == [n \in 0..(m + 1) |-> IF n = m + 1 THEN step[f[m]] ELSE f[n]]
  <2>2. /\ f \in [0..m -> Int] /\ f[0] = start
        /\ \A n \in 0..m : n # 0 => f[n] = step[f[n - 1]]
    BY <2>1 DEF Iterated
  <2>3. g \in [0..(m + 1) -> Int]
    <3>1. f[m] \in Int
      BY <2>2
    <3>2. step[f[m]] \in Int
      BY <3>1
    <3>3. ASSUME NEW n \in 0..(m + 1), n # m + 1 PROVE f[n] \in Int
      <4>1. n \in 0..m
        BY <3>3
      <4> QED
        BY <2>2, <4>1
    <3> QED
      BY <3>2, <3>3
  <2>4. g[0] = start
    BY <2>2
  <2>5. ASSUME NEW n \in 0..(m + 1), n # 0
        PROVE  g[n] = step[g[n - 1]]
    <3>1. n - 1 \in 0..(m + 1) /\ n - 1 # m + 1
      BY <2>5
    <3>2. g[n - 1] = f[n - 1]
      BY <3>1
    <3>3. CASE n = m + 1
      <4>1. n - 1 = m
        BY <3>3
      <4> QED
        BY <3>2, <3>3, <4>1
    <3>4. CASE n # m + 1
      <4>1. n \in 0..m
        BY <3>4
      <4> QED
        BY <2>2, <2>5, <3>2, <3>4, <4>1
    <3> QED
      BY <3>3, <3>4
  <2> HIDE DEF g
  <2>6. Iterated(g, step, start, m + 1)
    BY <2>3, <2>4, <2>5 DEF Iterated
  <2> QED
    BY <2>6
<1>3. \A m \in Nat : \E f : Iterated(f, step, start, m)
  <2> HIDE DEF S
  <2>1. \A m \in Nat : m \in S
    BY <1>1, <1>2, AllNumbers
  <2> QED
    BY <2>1 DEF S
<1>4. ASSUME NEW f, NEW g, NEW m \in Nat,
             Iterated(f, step, start, m), Iterated(g, step, start, m + 1)
      PROVE  f[m] = g[m]
  <2> DEFINE U == {n \in Nat : n <= m => f[n] = g[n]}
  <2>1. 0 \in U
    BY <1>4 DEF Iterated
  <2>2. ASSUME NEW n \in Nat, n \in U
        PROVE  n + 1 \in U
    <3>1. CASE n + 1 <= m
      <4>1. n <= m /\ n + 1 \in 0..m /\ n + 1 \in 0..(m + 1)
            /\ n + 1 # 0 /\ (n + 1) - 1 = n
        BY <3>1
      <4>2. f[n + 1] = step[f[n]] /\ g[n + 1] = step[g[n]]
        BY <1>4, <4>1 DEF Iterated
      <4> QED
        BY <2>2, <4>1, <4>2
    <3>2. CASE ~(n + 1 <= m)
      BY <3>2
    <3> QED
      BY <3>1, <3>2
  <2> HIDE DEF U
  <2>3. m \in U
    BY <2>1, <2>2, AllNumbers
  <2> QED
    BY <2>3 DEF U
<1> DEFINE upTo(m) == CHOOSE f : Iterated(f, step, start, m)
           all == [n \in Nat |-> upTo(n)[n]]
<1>5. \A m \in Nat : Iterated(upTo(m), step, start, m)
  BY <1>3
<1> HIDE DEF upTo
<1>6. \A n \in Nat : upTo(n)[n] \in Int
  BY <1>5 DEF Iterated
<1>7. all \in [Nat -> Int] /\ \A n \in Nat : all[n] = upTo(n)[n]
  BY <1>6
<1> HIDE DEF all
<1>8. all[0] = start
  BY <1>5, <1>7 DEF Iterated
<1>9. ASSUME NEW n \in Nat, n # 0
      PROVE  all[n] = step[all[n - 1]]
  <2> DEFINE k == n - 1
  <2>1. k \in Nat /\ n = k + 1 /\ n \in 0..n
    BY <1>9
  <2> HIDE DEF k
  <2>2. upTo(k)[k] = upTo(n)[k]
    BY <1>4, <1>5, <2>1
  <2>3. upTo(n)[n] = step[upTo(n)[n - 1]]
    BY <1>5, <1>9, <2>1 DEF Iterated
  <2>4. n - 1 = k
    BY DEF k
  <2> QED
    BY <1>7, <2>1, <2>2, <2>3, <2>4
<1> QED
  BY <1>7, <1>8, <1>9

\* The bounds of the price are what their equations say.
LEMMA CompoundedUnfolds ==
    ASSUME NEW percent \in Int
    PROVE  /\ Compounded(percent) \in [Nat -> Int]
           /\ Compounded(percent)[0] = InitialNetwork.stepPrice
           /\ \A n \in Nat : Compounded(percent)[n + 1]
                                = (Compounded(percent)[n] * percent) \div 100
<1> DEFINE start == InitialNetwork.stepPrice
           step == [x \in Int |-> (x * percent) \div 100]
           F(f) == [n \in Nat |-> IF n = 0 THEN start
                                  ELSE (f[n - 1] * percent) \div 100]
           price == Compounded(percent)
<1>1. start \in Int
  BY NetworkAssumption
<1>2. step \in [Int -> Int] /\ \A x \in Int : step[x] = (x * percent) \div 100
  <2>1. \A x \in Int : x * percent \in Int
    OBVIOUS
  <2>2. \A y \in Int : y \div 100 \in Int
    OBVIOUS
  <2> QED
    BY <2>1, <2>2, Zenon
<1> HIDE DEF step
<1>3. PICK f \in [Nat -> Int] :
          f[0] = start /\ \A n \in Nat : n # 0 => f[n] = step[f[n - 1]]
  BY <1>1, <1>2, IterationExists
<1>4. \A n \in Nat : n # 0 => n - 1 \in Nat /\ f[n - 1] \in Int
  OBVIOUS
<1>5. \A n \in Nat : n # 0 => f[n] = (f[n - 1] * percent) \div 100
  BY <1>2, <1>3, <1>4
<1>6. f = F(f)
  BY <1>3, <1>5
<1> HIDE DEF F
<1>7. (CHOOSE g : g = F(g)) = F(CHOOSE g : g = F(g))
  BY <1>6
<1>8. price = CHOOSE g : g = F(g)
  BY DEF Compounded, F
<1>9. price = F(price)
  BY <1>7, <1>8
<1> HIDE DEF price
<1>10. /\ DOMAIN price = Nat /\ price[0] = start
       /\ \A n \in Nat : n # 0 => price[n] = (price[n - 1] * percent) \div 100
  BY <1>9 DEF F
<1>11. price = [n \in Nat |-> price[n]]
  BY <1>9, <1>10 DEF F
<1> DEFINE V == {n \in Nat : price[n] = f[n]}
<1>12. 0 \in V
  BY <1>3, <1>10
<1>13. ASSUME NEW n \in Nat, n \in V
       PROVE  n + 1 \in V
  <2>1. n + 1 \in Nat /\ n + 1 # 0 /\ (n + 1) - 1 = n
    OBVIOUS
  <2> QED
    BY <1>5, <1>10, <1>13, <2>1
<1> HIDE DEF V
<1>14. \A n \in Nat : n \in V
  BY <1>12, <1>13, AllNumbers
<1>15. \A n \in Nat : price[n] \in Int
  BY <1>14 DEF V
<1>16. \A n \in Nat : n + 1 \in Nat /\ n + 1 # 0 /\ (n + 1) - 1 = n
  OBVIOUS
<1> QED
  BY <1>10, <1>11, <1>15, <1>16 DEF price

\* The bounds move apart with each approval, and never below nothing.
LEMMA BoundsMoveApart ==
    ASSUME NEW n \in Nat
    PROVE  /\ Compounded(75)[n] \in Nat /\ Compounded(125)[n] \in Nat
           /\ Compounded(75)[n + 1] <= Compounded(75)[n]
           /\ Compounded(125)[n] <= Compounded(125)[n + 1]
<1> DEFINE low == Compounded(75)
           high == Compounded(125)
           S == {k \in Nat : low[k] \in Nat /\ high[k] \in Nat}
<1>1. /\ low[0] \in Nat /\ high[0] \in Nat
      /\ \A k \in Nat : /\ low[k + 1] = (low[k] * 75) \div 100
                        /\ high[k + 1] = (high[k] * 125) \div 100
  <2>1. InitialNetwork.stepPrice \in Nat
    BY NetworkAssumption
  <2>2. 75 \in Int /\ 125 \in Int
    OBVIOUS
  <2> QED
    BY <2>1, <2>2, CompoundedUnfolds
<1> HIDE DEF low, high
<1>2. \A x \in Nat : /\ (x * 75) \div 100 \in Nat /\ (x * 125) \div 100 \in Nat
                     /\ (x * 75) \div 100 <= x /\ x <= (x * 125) \div 100
  OBVIOUS
<1>3. 0 \in S
  BY <1>1
<1>4. ASSUME NEW k \in Nat, k \in S
      PROVE  k + 1 \in S
  <2>1. k + 1 \in Nat
    OBVIOUS
  <2> QED
    BY <1>1, <1>2, <1>4, <2>1
<1> HIDE DEF S
<1>5. n \in S
  BY <1>3, <1>4, AllNumbers
<1>6. low[n] \in Nat /\ high[n] \in Nat
  BY <1>5 DEF S
<1> QED
  BY <1>1, <1>2, <1>6 DEF low, high

\* How many step prices have been approved.
Approvals == Cardinality(ApprovedContents("STEP_PRICE"))

\* The price is within the bounds, and so is every price that may still be
\* approved, within those that its approval will make.
PriceInv ==
    /\ network.stepPrice \in Compounded(75)[Approvals]..Compounded(125)[Approvals]
    /\ \A id \in Id :
          /\ IsRegistered(id)
          /\ proposals[id].status = "VOTING"
          /\ Type(proposals[id].content) = "STEP_PRICE"
          => Value(proposals[id].content)
                \in Compounded(75)[Approvals + 1]..Compounded(125)[Approvals + 1]

\* Only finitely many have been approved.
LEMMA ApprovalsFinite ==
    ASSUME GInv
    PROVE  IsFiniteSet(ApprovedContents("STEP_PRICE")) /\ Approvals \in Nat
<1>1. IsFiniteSet({id \in Id : IsRegistered(id)})
  BY DEF GInv, ProposalsInOrder
<1>2. ApprovedContents("STEP_PRICE") \subseteq {id \in Id : IsRegistered(id)}
  BY DEF ApprovedContents
<1>3. IsFiniteSet(ApprovedContents("STEP_PRICE"))
  BY <1>1, <1>2, FS_Subset
<1> QED
  BY <1>3, FS_CardinalityType DEF Approvals

\* An approved step price takes effect if it is positive, and no other
\* proposal changes the price.
LEMMA AppliedPrice ==
    ASSUME NEW content, DOMAIN network = NetworkValues
    PROVE  Applied(content).stepPrice =
              IF Type(content) = "STEP_PRICE"
              THEN PositiveOr(Value(content), network.stepPrice)
              ELSE network.stepPrice
BY DEF Applied, NetworkValues

\* Validation keeps to the bounds that one approval more would make.
LEMMA ValidatedPrice ==
    ASSUME PriceInv, GInv, NEW content, Valid(content),
           Type(content) = "STEP_PRICE"
    PROVE  Value(content)
              \in Compounded(75)[Approvals + 1]..Compounded(125)[Approvals + 1]
<1> DEFINE price == network.stepPrice
           low == Compounded(75)[Approvals]
           high == Compounded(125)[Approvals]
<1>1. Approvals \in Nat
  BY ApprovalsFinite
<1>2. low \in Nat /\ high \in Nat
  BY <1>1, BoundsMoveApart
<1>3. price \in low..high
  BY DEF PriceInv
<1>4. Value(content) \in ((price * 75) \div 100)..((price * 125) \div 100)
  BY DEF Valid, MinStepPrice, MaxStepPrice
<1>5. /\ Compounded(75)[Approvals + 1] = (low * 75) \div 100
      /\ Compounded(125)[Approvals + 1] = (high * 125) \div 100
  <2>1. 75 \in Int /\ 125 \in Int
    OBVIOUS
  <2> QED
    BY <1>1, <2>1, CompoundedUnfolds
<1> HIDE DEF price, low, high
<1>6. \A x, y \in Nat : x <= y => /\ (x * 75) \div 100 <= (y * 75) \div 100
                                  /\ (x * 125) \div 100 <= (y * 125) \div 100
  OBVIOUS
<1>7. /\ (low * 75) \div 100 \in Int /\ (high * 125) \div 100 \in Int
      /\ price \in Nat /\ low <= price /\ price <= high
  BY <1>2, <1>3
<1>8. /\ (low * 75) \div 100 <= (price * 75) \div 100
      /\ (price * 125) \div 100 <= (high * 125) \div 100
  BY <1>2, <1>6, <1>7
<1> QED
  BY <1>4, <1>5, <1>7, <1>8

LEMMA PriceInit == Init => PriceInv
<1> SUFFICES ASSUME Init
             PROVE  PriceInv
  OBVIOUS
<1>1. \A id \in Id : ~IsRegistered(id)
  BY DEF Init, IsRegistered
<1>2. ApprovedContents("STEP_PRICE") = {}
  BY <1>1 DEF ApprovedContents
<1>3. Approvals = 0
  BY <1>2, FS_EmptySet DEF Approvals
<1>4. network.stepPrice = InitialNetwork.stepPrice
      /\ InitialNetwork.stepPrice \in Nat
  BY NetworkAssumption DEF Init
<1>5. /\ Compounded(75)[0] = InitialNetwork.stepPrice
      /\ Compounded(125)[0] = InitialNetwork.stepPrice
  <2>1. 75 \in Int /\ 125 \in Int
    OBVIOUS
  <2> QED
    BY <2>1, CompoundedUnfolds
<1> QED
  BY <1>1, <1>3, <1>4, <1>5 DEF PriceInv

\* A step that approves nothing keeps the bounds, if what it leaves open was
\* open before or is valid now.
LEMMA PriceKept ==
    ASSUME PriceInv, GInv, UNCHANGED network.stepPrice,
           ApprovedContents("STEP_PRICE")' = ApprovedContents("STEP_PRICE"),
           \A i \in Id : IsRegistered(i)' /\ proposals'[i].status = "VOTING" =>
               \/ /\ IsRegistered(i) /\ proposals[i].status = "VOTING"
                  /\ proposals'[i].content = proposals[i].content
               \/ Valid(proposals'[i].content)
    PROVE  PriceInv'
<1>1. Approvals' = Approvals
  BY DEF Approvals
<1>2. ASSUME NEW i \in Id, IsRegistered(i)', proposals'[i].status = "VOTING",
             Type(proposals'[i].content) = "STEP_PRICE"
      PROVE  Value(proposals'[i].content)
                \in Compounded(75)[Approvals + 1]..Compounded(125)[Approvals + 1]
  <2>1. CASE /\ IsRegistered(i) /\ proposals[i].status = "VOTING"
             /\ proposals'[i].content = proposals[i].content
    BY <1>2, <2>1 DEF PriceInv
  <2>2. CASE Valid(proposals'[i].content)
    BY <1>2, <2>2, ValidatedPrice
  <2> QED
    BY <1>2, <2>1, <2>2
<1>3. network'.stepPrice
          \in Compounded(75)[Approvals]..Compounded(125)[Approvals]
  BY DEF PriceInv
<1> QED
  BY <1>1, <1>2, <1>3 DEF PriceInv, Compounded, Type, Value

\* Nor does an approval break them: the price moves into the next bounds,
\* and those of the open proposals move apart.
LEMMA PriceApproved ==
    ASSUME PriceInv, GInv, NEW id \in Id, IsRegistered(id),
           NEW new \in ProposalInfo,
           proposals' = [proposals EXCEPT ![id] = new], new # Null,
           proposals[id].status = "VOTING", new.status = "APPROVED",
           new.content = proposals[id].content,
           network' = Applied(new.content)
    PROVE  PriceInv'
<1> DEFINE S == ApprovedContents("STEP_PRICE")
           kind == Type(new.content)
           v == Value(new.content)
           low(n) == Compounded(75)[n]
           high(n) == Compounded(125)[n]
           price == network.stepPrice
<1>1. proposals \in [Id -> ProposalInfo \cup {Null}]
      /\ DOMAIN network = NetworkValues
  BY DEF GInv, ProposalsInOrder, NetworkInOrder
<1>2. /\ S' = IF kind = "STEP_PRICE" THEN S \cup {id} ELSE S
      /\ id \notin S
      /\ proposals'[id] = new
  <2>1. proposals[id].status # "APPROVED"
    OBVIOUS
  <2>2. \A type : /\ ApprovedContents(type)' = IF kind = type
                                               THEN ApprovedContents(type) \cup {id}
                                               ELSE ApprovedContents(type)
                  /\ id \notin ApprovedContents(type)
                  /\ proposals'[id] = new
                  /\ \A i \in ApprovedContents(type) :
                        proposals'[i] = proposals[i]
    <3> HIDE DEF v, price, low, high
    <3> QED
      BY <1>1, <2>1, OneApproved
  <2> QED
    BY <2>2, Zenon
<1>3. IsFiniteSet(S) /\ Approvals \in Nat /\ Approvals + 1 \in Nat
  BY ApprovalsFinite
<1>4. network'.stepPrice =
         IF kind = "STEP_PRICE" THEN PositiveOr(v, price) ELSE price
  BY <1>1, AppliedPrice
<1>5. ASSUME NEW i \in Id, IsRegistered(i)', proposals'[i].status = "VOTING",
             Type(proposals'[i].content) = "STEP_PRICE"
      PROVE  Value(proposals'[i].content) \in low(Approvals + 1)..high(Approvals + 1)
  <2>1. i # id
    BY <1>2, <1>5
  <2>2. proposals'[i] = proposals[i]
    BY <1>1, <2>1
  <2>3. IsRegistered(i)
    BY <1>5, <2>2 DEF IsRegistered
  <2> QED
    BY <1>5, <2>2, <2>3 DEF PriceInv
<1>6. price \in low(Approvals)..high(Approvals)
      /\ (kind = "STEP_PRICE" => v \in low(Approvals + 1)..high(Approvals + 1))
  BY DEF PriceInv
<1>7. \A n \in Nat : /\ low(n) \in Nat /\ high(n) \in Nat
                     /\ low(n + 1) <= low(n) /\ high(n) <= high(n + 1)
  BY BoundsMoveApart
<1>8. \A n \in Nat : /\ (low(n)..high(n)) \subseteq (low(n + 1)..high(n + 1))
  <2> HIDE DEF low, high
  <2> QED
    BY <1>7
<1>9. CASE kind = "STEP_PRICE"
  <2>1. Cardinality(S \cup {id}) = Cardinality(S) + 1
    BY <1>2, <1>3, FS_AddElement
  <2>2. Approvals' = Approvals + 1
    BY <1>2, <1>9, <2>1 DEF Approvals
  <2>3. network'.stepPrice \in low(Approvals + 1)..high(Approvals + 1)
    <3> HIDE DEF low, high, v, kind
    <3>1. network'.stepPrice \in {v, price}
      BY <1>4, <1>9 DEF PositiveOr
    <3>2. price \in low(Approvals + 1)..high(Approvals + 1)
      BY <1>3, <1>6, <1>8
    <3> QED
      BY <1>6, <1>9, <3>1, <3>2
  <2>4. \A i \in Id : /\ IsRegistered(i)' /\ proposals'[i].status = "VOTING"
                      /\ Type(proposals'[i].content) = "STEP_PRICE"
           => Value(proposals'[i].content)
                 \in low(Approvals + 1 + 1)..high(Approvals + 1 + 1)
    BY <1>3, <1>5, <1>8
  <2> QED
    BY <2>2, <2>3, <2>4 DEF PriceInv, Compounded, Type, Value
<1>10. CASE kind # "STEP_PRICE"
  <2>1. Approvals' = Approvals /\ network'.stepPrice = price
    BY <1>2, <1>4, <1>10 DEF Approvals
  <2> QED
    BY <1>5, <1>6, <2>1 DEF PriceInv, Compounded, Type, Value
<1> QED
  BY <1>9, <1>10

LEMMA PriceNext ==
    ASSUME PriceInv, GInv, GInv', [Next]_vars
    PROVE  PriceInv'
<1>0. proposals \in [Id -> ProposalInfo \cup {Null}]
  BY DEF GInv, ProposalsInOrder
<1>1. ASSUME NEW id \in Id, NEW p \in Prep, NEW c \in Contents,
             RegisterProposal(id, p, c)
      PROVE  PriceInv'
  <2> DEFINE new == Registered(p, termEnd, c, mainPreps)
  <2>1. /\ proposals' = [proposals EXCEPT ![id] = new]
        /\ ~IsRegistered(id) /\ Valid(c) /\ UNCHANGED network
    BY <1>1 DEF RegisterProposal
  <2>2. new.status = "VOTING" /\ new.content = c
    BY DEF Registered
  <2> HIDE DEF new
  <2>3. proposals'[id] = new /\ \A i \in Id : i # id => proposals'[i] = proposals[i]
    BY <1>0, <2>1
  <2>4. ApprovedContents("STEP_PRICE")' = ApprovedContents("STEP_PRICE")
    <3>1. ASSUME NEW i \in Id
          PROVE  i \in ApprovedContents("STEP_PRICE")'
                     <=> i \in ApprovedContents("STEP_PRICE")
      <4>1. CASE i = id
        BY <2>1, <2>2, <2>3, <4>1 DEF ApprovedContents
      <4>2. CASE i # id
        BY <2>3, <4>2 DEF ApprovedContents, IsRegistered
      <4> QED
        BY <4>1, <4>2
    <3> QED
      BY <3>1 DEF ApprovedContents
  <2>5. ASSUME NEW i \in Id, IsRegistered(i)', proposals'[i].status = "VOTING"
        PROVE  \/ /\ IsRegistered(i) /\ proposals[i].status = "VOTING"
                  /\ proposals'[i].content = proposals[i].content
               \/ Valid(proposals'[i].content)
    <3>1. CASE i = id
      BY <2>1, <2>2, <2>3, <3>1
    <3>2. CASE i # id
      BY <2>3, <2>5, <3>2 DEF IsRegistered
    <3> QED
      BY <3>1, <3>2
  <2> QED
    BY <2>1, <2>4, <2>5, PriceKept
<1>2. ASSUME NEW id \in Id, IsRegistered(id), NEW new \in ProposalInfo,
             proposals' = [proposals EXCEPT ![id] = new],
             new.content = proposals[id].content, UNCHANGED network,
             proposals[id].status # "VOTING" => new.status # "VOTING",
             proposals[id].status = "APPROVED" <=> new.status = "APPROVED"
      PROVE  PriceInv'
  <2>1. new # Null
    BY NullAssumption
  <2>2. ApprovedContents("STEP_PRICE")' = ApprovedContents("STEP_PRICE")
    BY <1>0, <1>2, <2>1, NothingApproved
  <2>3. proposals'[id] = new /\ \A i \in Id : i # id => proposals'[i] = proposals[i]
    BY <1>0, <1>2
  <2>4. ASSUME NEW i \in Id, IsRegistered(i)', proposals'[i].status = "VOTING"
        PROVE  /\ IsRegistered(i) /\ proposals[i].status = "VOTING"
               /\ proposals'[i].content = proposals[i].content
    <3>1. CASE i = id
      BY <1>2, <2>3, <2>4, <3>1
    <3>2. CASE i # id
      BY <2>3, <2>4, <3>2 DEF IsRegistered
    <3> QED
      BY <3>1, <3>2
  <2> QED
    BY <1>2, <2>2, <2>4, PriceKept
<1>3. ASSUME NEW id \in Id, NEW p \in Prep, CancelProposal(id, p)
      PROVE  PriceInv'
  <2> DEFINE new == Canceled(proposals[id])
  <2>1. /\ proposals' = [proposals EXCEPT ![id] = new]
        /\ IsRegistered(id) /\ proposals[id].status = "VOTING"
        /\ UNCHANGED network
    BY <1>3 DEF CancelProposal, CanCancel
  <2>2. InOrder(proposals[id])
    BY <2>1 DEF GInv, ProposalsInOrder
  <2>3. /\ InOrder(new) /\ new.status = "CANCELED"
        /\ new.content = proposals[id].content
    BY <2>1, <2>2, CanceledInOrder
  <2> HIDE DEF new
  <2> QED
    BY <1>2, <2>1, <2>3 DEF InOrder
<1>4. ASSUME NEW id \in Id, NEW p \in Prep, NEW v \in Votes,
             VoteProposal(id, p, v)
      PROVE  PriceInv'
  <2> DEFINE info == proposals[id]
             new == Voted(info, p, v, mainPreps[p])
  <2>1. /\ proposals' = [proposals EXCEPT ![id] = new]
        /\ IsRegistered(id) /\ p \in DOMAIN mainPreps
        /\ CanVote(info, p, blockHeight)
        /\ IF Approves(info, new)
           THEN network' = Applied(info.content)
           ELSE UNCHANGED network
    BY <1>4 DEF VoteProposal, IsMainPrep
  <2>2. mainPreps[p] \in Nat /\ InOrder(info)
    BY <2>1 DEF GInv, ProposalsInOrder, PlatformInOrder, MainPreps
  <2>3. info \in ProposalInfo /\ p \in ToSet(info.noVote.list)
    BY <2>1, <2>2 DEF InOrder, CanVote
  <2>4. /\ new.content = info.content
        /\ info.status # "VOTING" => new.status = info.status
    BY <2>2, <2>3, VotedParts
  <2>5. new \in ProposalInfo
    BY <2>1, <2>2, VotedInOrder DEF InOrder
  <2> HIDE DEF new
  <2>6. CASE Approves(info, new)
    <3>1. new # Null
      BY <2>5, NullAssumption
    <3>2. info.status = "VOTING" /\ new.status = "APPROVED"
      BY <2>6 DEF Approves
    <3>3. network' = Applied(new.content)
      BY <2>1, <2>4, <2>6
    <3> QED
      BY <2>1, <2>4, <2>5, <3>1, <3>2, <3>3, PriceApproved
  <2>7. CASE ~Approves(info, new)
    <3>1. UNCHANGED network
      BY <2>1, <2>7
    <3>2. info.status = "APPROVED" <=> new.status = "APPROVED"
      BY <2>4, <2>7 DEF Approves
    <3> QED
      BY <1>2, <2>1, <2>4, <2>5, <3>1, <3>2
  <2> QED
    BY <2>6, <2>7
<1>5. CASE NewBlock \/ ChangeMainPreps \/ UNCHANGED vars
  <2>1. UNCHANGED <<proposals, network>>
    BY <1>5 DEF NewBlock, ChangeMainPreps, vars
  <2>2. ApprovedContents("STEP_PRICE")' = ApprovedContents("STEP_PRICE")
    BY <2>1 DEF ApprovedContents, IsRegistered
  <2>3. \A i \in Id : IsRegistered(i)' /\ proposals'[i].status = "VOTING" =>
            /\ IsRegistered(i) /\ proposals[i].status = "VOTING"
            /\ proposals'[i].content = proposals[i].content
    BY <2>1 DEF IsRegistered
  <2> QED
    BY <2>1, <2>2, <2>3, PriceKept
<1> QED
  BY <1>1, <1>3, <1>4, <1>5 DEF Next

\* However stale the prices that are approved, and in whatever order, they
\* move the price no further than as many that are not.
THEOREM PricesCompound == Spec => []StepPriceCompounds
<1>1. Init => PriceInv
  BY PriceInit
<1>2. PriceInv /\ GInv /\ GInv' /\ [Next]_vars => PriceInv'
  BY PriceNext
<1>3. PriceInv => StepPriceCompounds
  BY DEF PriceInv, Approvals, StepPriceCompounds
<1> QED
  BY <1>1, <1>2, <1>3, GovernanceInvariant, PTL DEF Spec

-----------------------------------------------------------------------------
\* No vote, cancellation or expiry takes a decision back.
THEOREM DecisionsStand == Spec => DecisionsAreFinal
<1>1. GInv /\ [Next]_vars =>
         [\A id \in Id :
             IsRegistered(id) =>
                 LET shown == ShownStatus(proposals[id], blockHeight)
                 IN  shown # "VOTING" =>
                         ShownStatus(proposals[id], blockHeight)' = shown]_vars
  <2> SUFFICES ASSUME GInv, Next, NEW id \in Id, IsRegistered(id),
                      ShownStatus(proposals[id], blockHeight) # "VOTING"
               PROVE  ShownStatus(proposals[id], blockHeight)'
                         = ShownStatus(proposals[id], blockHeight)
    OBVIOUS
  <2>1. /\ proposals[id] \in ProposalInfo /\ blockHeight \in Nat
        /\ proposals[id].end \in Int
        /\ InOrder(proposals[id])
    BY InfoParts DEF GInv, ProposalsInOrder, PlatformInOrder, InOrder
  <2>2. proposals \in [Id -> ProposalInfo \cup {Null}]
    BY DEF GInv, ProposalsInOrder
  <2>3. ASSUME NEW i \in Id, NEW p \in Prep, NEW c \in Contents,
               RegisterProposal(i, p, c)
        PROVE  ShownStatus(proposals'[id], blockHeight')
                  = ShownStatus(proposals[id], blockHeight)
    <3>1. proposals'[id] = proposals[id] /\ blockHeight' = blockHeight
      BY <2>2, <2>3 DEF RegisterProposal
    <3> QED
      BY <3>1
  <2>4. ASSUME NEW i \in Id, NEW p \in Prep, CancelProposal(i, p)
        PROVE  ShownStatus(proposals'[id], blockHeight')
                  = ShownStatus(proposals[id], blockHeight)
    <3>1. i # id
      BY <2>4 DEF CancelProposal, CanCancel, ShownStatus
    <3>2. proposals'[id] = proposals[id] /\ blockHeight' = blockHeight
      BY <2>2, <2>4, <3>1 DEF CancelProposal
    <3> QED
      BY <3>2
  <2>5. ASSUME NEW i \in Id, NEW p \in Prep, NEW v \in Votes,
               VoteProposal(i, p, v)
        PROVE  ShownStatus(proposals'[id], blockHeight')
                  = ShownStatus(proposals[id], blockHeight)
    <3> DEFINE new == Voted(proposals[i], p, v, mainPreps[p])
    <3>1. /\ proposals' = [proposals EXCEPT ![i] = new]
          /\ blockHeight' = blockHeight
          /\ p \in DOMAIN mainPreps
          /\ CanVote(proposals[i], p, blockHeight)
      BY <2>5 DEF VoteProposal, IsMainPrep
    <3>2. CASE i # id
      <4>1. proposals'[id] = proposals[id]
        BY <2>2, <3>1, <3>2
      <4> QED
        BY <3>1, <4>1
    <3>3. CASE i = id
      <4>1. /\ ~Expired(proposals[id], blockHeight)
            /\ p \in ToSet(proposals[id].noVote.list)
        BY <3>1, <3>3 DEF CanVote
      <4>2. proposals[id].status # "VOTING"
        BY <4>1 DEF ShownStatus
      <4>3. mainPreps[p] \in Nat
        BY <3>1 DEF GInv, PlatformInOrder, MainPreps
      <4>4. /\ new.status = proposals[id].status
            /\ new.end = proposals[id].end
        BY <2>1, <3>3, <4>1, <4>2, <4>3, VotedParts
      <4> HIDE DEF new
      <4>5. proposals'[id] = new
        BY <2>2, <3>1, <3>3
      <4> QED
        BY <3>1, <4>4, <4>5 DEF ShownStatus, Expired
    <3> QED
      BY <3>2, <3>3
  <2>6. ASSUME NewBlock
        PROVE  ShownStatus(proposals'[id], blockHeight')
                  = ShownStatus(proposals[id], blockHeight)
    <3>1. proposals' = proposals /\ blockHeight' = blockHeight + 1
      BY <2>6 DEF NewBlock
    <3>2. Expired(proposals[id], blockHeight)
             => Expired(proposals[id], blockHeight + 1)
      BY <2>1 DEF Expired
    <3> QED
      BY <3>1, <3>2 DEF ShownStatus
  <2>7. ASSUME ChangeMainPreps
        PROVE  ShownStatus(proposals'[id], blockHeight')
                  = ShownStatus(proposals[id], blockHeight)
    BY <2>7 DEF ChangeMainPreps
  <2> QED
    BY <2>3, <2>4, <2>5, <2>6, <2>7 DEF Next
<1> QED
  BY <1>1, GovernanceInvariant, PTL DEF Spec, DecisionsAreFinal
=============================================================================
