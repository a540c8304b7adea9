----------------------------- MODULE AuditProofs ----------------------------
(***************************************************************************)
(* Proofs about auditing: for every set of accounts and contracts, every   *)
(* number of deployments and of auditors.                                  *)
(***************************************************************************)
EXTENDS Audit, SequenceTheorems, TLAPS

-----------------------------------------------------------------------------
(* The list of auditors.                                                   *)

\* One more at the end, who is not on the list.
LEMMA SeatAdded ==
    ASSUME NEW list \in Seq(User), IsInjective(list),
           NEW a \in User, a \notin ToSet(list)
    PROVE  /\ Append(list, a) \in Seq(User)
           /\ IsInjective(Append(list, a))
<1>1. /\ Append(list, a) \in Seq(User)
      /\ Len(Append(list, a)) = Len(list) + 1
      /\ \A i \in 1..Len(list) : Append(list, a)[i] = list[i]
      /\ Append(list, a)[Len(list) + 1] = a
  BY AppendProperties
<1>2. /\ Len(list) \in Nat /\ DOMAIN list = 1..Len(list)
      /\ DOMAIN Append(list, a) = 1..(Len(list) + 1)
  BY <1>1, LenProperties
<1> DEFINE new == Append(list, a)
<1> HIDE DEF new
<1>3. \A i \in 1..Len(list) : new[i] # a
  BY <1>1, <1>2 DEF ToSet, new
<1>4. ASSUME NEW i \in 1..(Len(list) + 1), NEW j \in 1..(Len(list) + 1),
             new[i] = new[j]
      PROVE  i = j
  <2>1. CASE i \in 1..Len(list) /\ j \in 1..Len(list)
    BY <1>1, <1>2, <1>4, <2>1 DEF IsInjective, new
  <2>2. CASE i = Len(list) + 1
    <3>1. new[j] = a
      BY <1>1, <1>4, <2>2 DEF new
    <3>2. j \notin 1..Len(list)
      BY <1>3, <3>1
    <3> QED
      BY <1>2, <2>2, <3>2
  <2>3. CASE j = Len(list) + 1
    <3>1. new[i] = a
      BY <1>1, <1>4, <2>3 DEF new
    <3>2. i \notin 1..Len(list)
      BY <1>3, <3>1
    <3> QED
      BY <1>2, <2>3, <3>2
  <2> QED
    BY <1>2, <2>1, <2>2, <2>3
<1> QED
  BY <1>1, <1>2, <1>4 DEF IsInjective, new

\* One less, and the last in its place: exactly that one is gone, and none
\* has two seats.
LEMMA SeatRemoved ==
    ASSUME NEW list \in Seq(User), IsInjective(list), NEW a \in ToSet(list)
    PROVE  /\ Without(list, a) \in Seq(User)
           /\ IsInjective(Without(list, a))
           /\ ToSet(Without(list, a)) = ToSet(list) \ {a}
<1> DEFINE n == Len(list)
           new == Without(list, a)
<1>1. n \in Nat /\ DOMAIN list = 1..n /\ \A i \in 1..n : list[i] \in User
  BY LenProperties, ElementOfSeq
<1>2. PICK k \in 1..n : list[k] = a
  BY <1>1 DEF ToSet
<1>3. Last(list) = list[n] /\ n \in 1..n
  BY <1>1, <1>2 DEF Last
<1>4. new = [i \in 1..(n - 1) |-> IF list[i] = a THEN list[n] ELSE list[i]]
  BY <1>3 DEF Without
<1>5. \A i \in 1..n : list[i] = a <=> i = k
  BY <1>1, <1>2 DEF IsInjective
<1> HIDE DEF new, n
<1>6. /\ DOMAIN new = 1..(n - 1)
      /\ \A i \in 1..(n - 1) : i \in 1..n
      /\ \A i \in 1..(n - 1) : new[i] = IF i = k THEN list[n] ELSE list[i]
  <2>1. \A i \in 1..(n - 1) : i \in 1..n
    BY <1>1
  <2> QED
    BY <1>4, <1>5, <2>1
<1>7. new \in Seq(User)
  <2>1. n - 1 \in Nat
    BY <1>1, <1>3
  <2>2. \A i \in 1..(n - 1) : (IF list[i] = a THEN list[n] ELSE list[i]) \in User
    BY <1>1, <1>3, <1>6
  <2>3. new \in [1..(n - 1) -> User]
    BY <1>4, <2>2
  <2> QED
    BY <2>1, <2>3
<1>8. ASSUME NEW i \in 1..(n - 1), NEW j \in 1..(n - 1), new[i] = new[j]
      PROVE  i = j
  <2>0. \A x, y \in 1..n : list[x] = list[y] => x = y
    BY <1>1 DEF IsInjective
  <2>1. i # n /\ j # n
    BY <1>1
  <2>2. i \in 1..n /\ j \in 1..n
    BY <1>6
  <2>3. CASE i = k
    <3>1. j = k
      <4>1. CASE j # k
        <5>1. list[n] = list[j]
          BY <1>6, <1>8, <2>3, <4>1
        <5> QED
          BY <1>3, <2>0, <2>1, <2>2, <5>1
      <4> QED
        BY <4>1
    <3> QED
      BY <2>3, <3>1
  <2>4. CASE i # k
    <3>1. CASE j = k
      <4>1. list[i] = list[n]
        BY <1>6, <1>8, <2>4, <3>1
      <4> QED
        BY <1>3, <2>0, <2>1, <2>2, <4>1
    <3>2. CASE j # k
      <4>1. list[i] = list[j]
        BY <1>6, <1>8, <2>4, <3>2
      <4> QED
        BY <2>0, <2>2, <4>1
    <3> QED
      BY <3>1, <3>2
  <2> QED
    BY <2>3, <2>4
<1>9. ASSUME NEW x \in ToSet(new)
      PROVE  x \in ToSet(list) \ {a}
  <2>1. PICK i \in 1..(n - 1) : x = new[i]
    BY <1>6 DEF ToSet
  <2>2. i \in 1..n /\ i # n
    BY <1>1, <1>6
  <2>3. CASE i = k
    <3>1. x = list[n] /\ n # k
      BY <1>6, <2>1, <2>2, <2>3
    <3>2. x # a
      BY <1>3, <1>5, <3>1
    <3> QED
      BY <1>1, <1>3, <3>1, <3>2 DEF ToSet
  <2>4. CASE i # k
    <3>1. x = list[i] /\ x # a
      BY <1>5, <1>6, <2>1, <2>2, <2>4
    <3> QED
      BY <1>1, <2>2, <3>1 DEF ToSet
  <2> QED
    BY <2>3, <2>4
<1>10. ASSUME NEW x \in ToSet(list) \ {a}
       PROVE  x \in ToSet(new)
  <2>1. PICK i \in 1..n : x = list[i]
    BY <1>1, <1>10 DEF ToSet
  <2>2. i # k
    BY <1>2, <1>10, <2>1
  <2>3. CASE i = n
    <3>1. k \in 1..(n - 1)
      BY <1>1, <2>2, <2>3
    <3>2. new[k] = x
      BY <1>6, <2>1, <2>3, <3>1
    <3> QED
      BY <1>6, <3>1, <3>2 DEF ToSet
  <2>4. CASE i # n
    <3>1. i \in 1..(n - 1)
      BY <1>1, <2>4
    <3>2. new[i] = x
      BY <1>6, <2>1, <2>2, <3>1
    <3> QED
      BY <1>6, <3>1, <3>2 DEF ToSet
  <2> QED
    BY <2>3, <2>4
<1> QED
  BY <1>6, <1>7, <1>8, <1>9, <1>10 DEF IsInjective, new

-----------------------------------------------------------------------------
(* The inductive invariant.                                                *)

AuditDb == [auditors : Seq(User), accepted : SUBSET Nat, rejected : SUBSET Nat]

Acceptance == [hash : Nat, before : AuditDb]

Types ==
    /\ db \in AuditDb
    /\ deploying \in Seq(Acceptance)
    /\ requests \in Seq(Score)
    /\ deployInfo \in [Score -> [current : Nat, next : Nat]]

\* Auditors are accounts, each with one seat.
Seats == IsInjective(db.auditors)

\* Verdicts are on deployments that were requested, and of one kind.
Verdicts ==
    /\ db.accepted \cup db.rejected \subseteq Hash
    /\ db.accepted \cap db.rejected = {}

\* Every SCORE runs an accepted version, and what waits is later.
Versions ==
    \A s \in Score :
        /\ deployInfo[s].current \in db.accepted \cup {None}
        /\ deployInfo[s].next \in Hash \cup {None}
        /\ deployInfo[s].next # None =>
              deployInfo[s].next > deployInfo[s].current

\* No contract is an auditor, so none accepts while it is being deployed:
\* there is one acceptance at a time, nothing has changed since it began,
\* and what it deploys still waits.
OneAtATime ==
    deploying # <<>> =>
        /\ Len(deploying) = 1
        /\ deploying[1].before = db
        /\ deploying[1].hash \in Hash
        /\ Undecided(deploying[1].hash)
        /\ deploying[1].hash = deployInfo[requests[deploying[1].hash]].next

AInv == Types /\ Seats /\ Verdicts /\ Versions /\ OneAtATime

LEMMA AInvInit == Init => AInv
<1> SUFFICES ASSUME Init
             PROVE  AInv
  OBVIOUS
<1>1. Types
  BY AuditAssumption DEF Init, Types, AuditDb, None
<1>2. Seats
  BY DEF Init, Seats, IsInjective
<1>3. Verdicts /\ Versions /\ OneAtATime
  BY DEF Init, Verdicts, Versions, OneAtATime, None
<1> QED
  BY <1>1, <1>2, <1>3 DEF AInv

\* While a contract is being deployed it is the only caller, and no auditor.
LEMMA ContractsHaveNoSay ==
    ASSUME AInv, deploying # <<>>, NEW c \in Callers
    PROVE  ~Call(c)
<1>1. c \in Score
  BY ElementOfSeq, LenProperties
     DEF AInv, Types, OneAtATime, Callers, Hash
<1>2. ~IsAuditor(c)
  <2>1. ToSet(db.auditors) \subseteq User
    BY ElementOfSeq, LenProperties DEF AInv, Types, AuditDb, ToSet
  <2> QED
    BY <1>1, <2>1, AuditAssumption DEF IsAuditor
<1>3. c # owner
  BY <1>1, AuditAssumption
<1> QED
  BY <1>1, <1>2, <1>3
     DEF Call, AcceptScore, MayAccept, RejectScore, AddAuditor, RemoveAuditor

LEMMA RequestKeeps ==
    ASSUME AInv, NEW score \in Score, RequestDeploy(score)
    PROVE  AInv'
<1> DEFINE n == Len(requests)
<1>1. /\ deploying = <<>> /\ UNCHANGED <<db, deploying>>
      /\ requests' = Append(requests, score)
      /\ deployInfo' = [deployInfo EXCEPT ![score].next = n + 1]
  BY DEF RequestDeploy
<1>2. /\ requests' \in Seq(Score) /\ Len(requests') = n + 1 /\ n \in Nat
  BY <1>1, AppendProperties, LenProperties DEF AInv, Types
<1>3. Hash \subseteq Hash' /\ n + 1 \in Hash' /\ \A h \in Hash : h < n + 1
  BY <1>2 DEF Hash
<1> HIDE DEF n
<1>4. /\ deployInfo' \in [Score -> [current : Nat, next : Nat]]
      /\ deployInfo'[score].current = deployInfo[score].current
      /\ deployInfo'[score].next = n + 1
      /\ \A s \in Score \ {score} : deployInfo'[s] = deployInfo[s]
  <2>1. /\ deployInfo \in [Score -> [current : Nat, next : Nat]]
        /\ n + 1 \in Nat
    BY <1>2 DEF AInv, Types
  <2>2. deployInfo' = [deployInfo EXCEPT ![score].next = n + 1]
    BY <1>1
  <2> QED
    BY ONLY <2>1, <2>2, score \in Score
<1>5. Types'
  BY <1>1, <1>2, <1>4 DEF AInv, Types
<1>6. Seats'
  BY <1>1 DEF AInv, Seats, IsInjective
<1>7. Verdicts'
  BY <1>1, <1>3 DEF AInv, Verdicts
<1>8. Versions'
  <2> SUFFICES ASSUME NEW s \in Score
               PROVE  /\ deployInfo'[s].current \in db'.accepted \cup {None}
                      /\ deployInfo'[s].next \in Hash' \cup {None}
                      /\ deployInfo'[s].next # None =>
                            deployInfo'[s].next > deployInfo'[s].current
    BY DEF Versions
  <2>1. /\ deployInfo[s].current \in db.accepted \cup {None}
        /\ deployInfo[s].next \in Hash \cup {None}
        /\ deployInfo[s].next # None =>
              deployInfo[s].next > deployInfo[s].current
        /\ db.accepted \subseteq Hash
        /\ db' = db
    BY <1>1 DEF AInv, Versions, Verdicts
  <2>2. CASE s = score
    <3>1. deployInfo'[s].current \in Hash \cup {None}
      BY <1>4, <2>1, <2>2
    <3>2. n + 1 > deployInfo'[s].current
      BY <1>2, <1>3, <3>1 DEF None, Hash, n
    <3> QED
      BY <1>3, <1>4, <2>1, <2>2, <3>2
  <2>3. CASE s # score
    BY <1>3, <1>4, <2>1, <2>3
  <2> QED
    BY <2>2, <2>3
<1>9. OneAtATime'
  BY <1>1 DEF OneAtATime
<1> QED
  BY <1>5, <1>6, <1>7, <1>8, <1>9 DEF AInv

LEMMA AcceptKeeps ==
    ASSUME AInv, NEW c \in Callers, NEW hash \in Hash, AcceptScore(c, hash)
    PROVE  AInv'
<1>1. /\ deploying' = Append(deploying, [hash |-> hash, before |-> db])
      /\ UNCHANGED <<db, requests, deployInfo>>
      /\ hash = deployInfo[requests[hash]].next /\ Undecided(hash)
  BY DEF AcceptScore, MayAccept
<1>2. deploying = <<>>
  BY ContractsHaveNoSay DEF Call
<1>3. [hash |-> hash, before |-> db] \in Acceptance
  BY LenProperties DEF AInv, Types, Acceptance, Hash
<1>4. /\ deploying' \in Seq(Acceptance)
      /\ Len(deploying') = 1
      /\ deploying'[1] = [hash |-> hash, before |-> db]
  BY <1>1, <1>2, <1>3, AppendProperties DEF AInv, Types
<1>5. Types'
  BY <1>1, <1>4 DEF AInv, Types
<1>6. Seats' /\ Verdicts' /\ Versions'
  BY <1>1 DEF AInv, Seats, Verdicts, Versions, Hash, IsInjective
<1>7. OneAtATime'
  BY <1>1, <1>4 DEF OneAtATime, Undecided, Hash
<1> QED
  BY <1>5, <1>6, <1>7 DEF AInv

\* The acceptance that ends is the only one.
LEMMA AcceptanceEnds ==
    ASSUME AInv, deploying # <<>>
    PROVE  /\ Front(deploying) = <<>>
           /\ Last(deploying) = deploying[1] /\ Len(deploying) = 1
<1>1. Len(deploying) = 1
  BY DEF AInv, OneAtATime
<1>2. SubSeq(deploying, 1, 0) = <<>>
  <2>1. /\ SubSeq(deploying, 1, 0) \in Seq(Acceptance)
        /\ Len(SubSeq(deploying, 1, 0)) = IF 1 <= 0 THEN 0 - 1 + 1 ELSE 0
    BY SubSeqProperties
  <2> QED
    BY <2>1, EmptySeq
<1> QED
  BY <1>1, <1>2 DEF Front, Last

LEMMA DeployedKeeps ==
    ASSUME AInv, Deployed
    PROVE  AInv'
<1> DEFINE hash == deploying[1].hash
           score == requests[hash]
<1>1. /\ deploying # <<>> /\ deploying' = <<>> /\ requests' = requests
      /\ deployInfo' = [deployInfo EXCEPT ![score] =
                           [current |-> hash, next |-> None]]
      /\ db' = [db EXCEPT !.accepted = @ \cup {hash}]
  BY AcceptanceEnds DEF Deployed
<1>2. /\ hash \in Hash /\ hash \notin db.accepted \cup db.rejected
      /\ hash \in Nat /\ score \in Score
  BY <1>1, ElementOfSeq, LenProperties
     DEF AInv, Types, OneAtATime, Undecided, Hash
<1> HIDE DEF hash, score
<1>3. /\ db' \in AuditDb
      /\ db'.auditors = db.auditors
      /\ db'.accepted = db.accepted \cup {hash}
      /\ db'.rejected = db.rejected
  BY <1>1, <1>2 DEF AInv, Types, AuditDb
<1>4. /\ deployInfo' \in [Score -> [current : Nat, next : Nat]]
      /\ deployInfo'[score] = [current |-> hash, next |-> None]
      /\ \A s \in Score \ {score} : deployInfo'[s] = deployInfo[s]
  BY <1>1, <1>2 DEF AInv, Types, None
<1>5. Types'
  BY <1>1, <1>3, <1>4 DEF AInv, Types
<1>6. Seats' /\ Verdicts'
  BY <1>1, <1>2, <1>3 DEF AInv, Seats, Verdicts, Hash, IsInjective
<1>7. Versions'
  BY <1>1, <1>3, <1>4 DEF AInv, Versions, Hash, None
<1>8. OneAtATime'
  BY <1>1 DEF OneAtATime
<1> QED
  BY <1>5, <1>6, <1>7, <1>8 DEF AInv

LEMMA DeployFailsKeeps ==
    ASSUME AInv, DeployFails
    PROVE  AInv' /\ db' = db
<1>1. /\ deploying' = <<>> /\ UNCHANGED <<db, requests, deployInfo>>
  BY AcceptanceEnds DEF DeployFails, AInv, OneAtATime
<1> QED
  BY <1>1 DEF AInv, Types, Seats, Verdicts, Versions, OneAtATime, Hash,
              IsInjective

LEMMA RejectKeeps ==
    ASSUME AInv, NEW c \in Callers, NEW hash \in Hash, RejectScore(c, hash)
    PROVE  AInv'
<1>1. /\ db' = [db EXCEPT !.rejected = @ \cup {hash}]
      /\ UNCHANGED <<deploying, requests, deployInfo>>
      /\ hash \notin db.accepted \cup db.rejected
  BY DEF RejectScore, Undecided
<1>2. deploying = <<>>
  BY ContractsHaveNoSay DEF Call
<1>3. hash \in Nat
  BY LenProperties DEF AInv, Types, Hash
<1>4. /\ db' \in AuditDb
      /\ db'.auditors = db.auditors
      /\ db'.accepted = db.accepted
      /\ db'.rejected = db.rejected \cup {hash}
  BY <1>1, <1>3 DEF AInv, Types, AuditDb
<1>5. Types' /\ Seats' /\ Verdicts'
  BY <1>1, <1>4 DEF AInv, Types, Seats, Verdicts, Hash, IsInjective
<1>6. Versions' /\ OneAtATime'
  BY <1>1, <1>2, <1>4 DEF AInv, Versions, OneAtATime, Hash
<1> QED
  BY <1>5, <1>6 DEF AInv

LEMMA AddAuditorKeeps ==
    ASSUME AInv, NEW c \in Callers, NEW a \in User \cup Score, AddAuditor(c, a)
    PROVE  AInv'
<1>1. /\ db' = [db EXCEPT !.auditors = Append(@, a)]
      /\ UNCHANGED <<deploying, requests, deployInfo>>
      /\ a \in User /\ a \notin ToSet(db.auditors)
  BY DEF AddAuditor, IsAuditor
<1>2. deploying = <<>>
  BY ContractsHaveNoSay DEF Call
<1>3. /\ Append(db.auditors, a) \in Seq(User)
      /\ IsInjective(Append(db.auditors, a))
  BY <1>1, SeatAdded DEF AInv, Types, AuditDb, Seats
<1>4. /\ db' \in AuditDb
      /\ db'.auditors = Append(db.auditors, a)
      /\ db'.accepted = db.accepted /\ db'.rejected = db.rejected
  BY <1>1, <1>3 DEF AInv, Types, AuditDb
<1>5. Types' /\ Verdicts' /\ Versions' /\ OneAtATime'
  BY <1>1, <1>2, <1>4 DEF AInv, Types, Verdicts, Versions, OneAtATime, Hash
<1>6. Seats'
  BY <1>3, <1>4 DEF Seats, IsInjective
<1> QED
  BY <1>5, <1>6 DEF AInv

LEMMA RemoveAuditorKeeps ==
    ASSUME AInv, NEW c \in Callers, NEW a \in User \cup Score,
           RemoveAuditor(c, a)
    PROVE  AInv' /\ ToSet(db'.auditors) = ToSet(db.auditors) \ {a}
<1>1. /\ db' = [db EXCEPT !.auditors = Without(@, a)]
      /\ UNCHANGED <<deploying, requests, deployInfo>>
      /\ a \in ToSet(db.auditors)
  BY DEF RemoveAuditor, IsAuditor
<1>2. deploying = <<>>
  BY ContractsHaveNoSay DEF Call
<1>3. /\ Without(db.auditors, a) \in Seq(User)
      /\ IsInjective(Without(db.auditors, a))
      /\ ToSet(Without(db.auditors, a)) = ToSet(db.auditors) \ {a}
  BY <1>1, SeatRemoved DEF AInv, Types, AuditDb, Seats
<1>4. /\ db' \in AuditDb
      /\ db'.auditors = Without(db.auditors, a)
      /\ db'.accepted = db.accepted /\ db'.rejected = db.rejected
  BY <1>1, <1>3 DEF AInv, Types, AuditDb
<1>5. Types' /\ Verdicts' /\ Versions' /\ OneAtATime'
  BY <1>1, <1>2, <1>4 DEF AInv, Types, Verdicts, Versions, OneAtATime, Hash
<1>6. Seats'
  BY <1>3, <1>4 DEF Seats, IsInjective
<1> QED
  BY <1>3, <1>4, <1>5, <1>6 DEF AInv

LEMMA AInvNext == AInv /\ [Next]_vars => AInv'
<1> SUFFICES ASSUME AInv, [Next]_vars
             PROVE  AInv'
  OBVIOUS
<1>1. CASE \E s \in Score : RequestDeploy(s)
  BY <1>1, RequestKeeps
<1>2. CASE \E c \in Callers : Call(c)
  BY <1>2, AcceptKeeps, RejectKeeps, AddAuditorKeeps, RemoveAuditorKeeps
     DEF Call
<1>3. CASE Deployed
  BY <1>3, DeployedKeeps
<1>4. CASE DeployFails
  BY <1>4, DeployFailsKeeps
<1>5. CASE UNCHANGED vars
  BY <1>5 DEF vars, AInv, Types, Seats, Verdicts, Versions, OneAtATime, Hash,
              Undecided, IsInjective
<1> QED
  BY <1>1, <1>2, <1>3, <1>4, <1>5 DEF Next

THEOREM AuditInvariant == Spec => []AInv
BY AInvInit, AInvNext, PTL DEF Spec

-----------------------------------------------------------------------------
(* The properties.                                                         *)

\* No deployment is both accepted and rejected, and a SCORE runs only what
\* was accepted, whatever was superseded and whoever calls in between.
THEOREM VerdictsHold == Spec => []VerdictsStand
<1>1. AInv => VerdictsStand
  <2> SUFFICES ASSUME AInv
               PROVE  VerdictsStand
    OBVIOUS
  <2>1. None \notin db.rejected
    <3>1. 0 \notin Hash
      BY LenProperties DEF AInv, Types, Hash
    <3> QED
      BY <3>1 DEF AInv, Verdicts, None
  <2> QED
    BY <2>1 DEF AInv, Verdicts, Versions, VerdictsStand
<1> QED
  BY <1>1, AuditInvariant, PTL

\* A contract that calls back while it is being deployed gets nowhere: at
\* most one acceptance is in progress.
THEOREM AcceptancesDoNotNest ==
    Spec => [](deploying # <<>> => Len(deploying) = 1)
<1>1. AInv => (deploying # <<>> => Len(deploying) = 1)
  BY DEF AInv, OneAtATime
<1> QED
  BY <1>1, AuditInvariant, PTL

\* A version that was superseded never comes back.
THEOREM VersionsOnlyAdvance == Spec => VersionsAdvance
<1>1. AInv /\ [Next]_vars =>
         [\A s \in Score :
             deployInfo'[s].current >= deployInfo[s].current]_vars
  <2> SUFFICES ASSUME AInv, Next, NEW s \in Score
               PROVE  deployInfo'[s].current >= deployInfo[s].current
    OBVIOUS
  <2>1. /\ deployInfo \in [Score -> [current : Nat, next : Nat]]
        /\ deployInfo[s].current \in Nat /\ deployInfo[s].next \in Nat
    BY DEF AInv, Types
  <2>2. CASE Deployed
    <3> DEFINE hash == deploying[1].hash
               score == requests[hash]
    <3>1. /\ deploying # <<>>
          /\ deployInfo' = [deployInfo EXCEPT ![score] =
                               [current |-> hash, next |-> None]]
      BY <2>2, AcceptanceEnds DEF Deployed
    <3>2. hash \in Hash /\ hash = deployInfo[score].next
      BY <3>1 DEF AInv, OneAtATime
    <3> HIDE DEF hash, score
    <3>3. CASE s = score
      <4>1. deployInfo'[s].current = hash
        BY <2>1, <3>1, <3>3
      <4>2. hash # None
        BY <3>2 DEF Hash, None
      <4>3. hash > deployInfo[s].current
        BY <3>2, <3>3, <4>2 DEF AInv, Versions
      <4> QED
        BY <2>1, <3>2, <3>3, <4>1, <4>3
    <3>4. CASE s # score
      BY <2>1, <3>1, <3>4
    <3> QED
      BY <3>3, <3>4
  <2>3. ASSUME NEW t \in Score, RequestDeploy(t)
        PROVE  deployInfo'[s].current >= deployInfo[s].current
    <3>1. deployInfo' = [deployInfo EXCEPT ![t].next = Len(requests) + 1]
      BY <2>3 DEF RequestDeploy
    <3> DEFINE n == Len(requests) + 1
    <3> HIDE DEF n
    <3>2. deployInfo' = [deployInfo EXCEPT ![t].next = n]
      BY <3>1 DEF n
    <3>3. \A r \in [current : Nat, next : Nat] :
             [r EXCEPT !.next = n].current = r.current
      OBVIOUS
    <3>4. ASSUME s = t
          PROVE  deployInfo'[s].current = deployInfo[s].current
      <4>1. deployInfo'[s] = [deployInfo[s] EXCEPT !.next = n]
        BY <2>1, <3>2, <3>4
      <4> QED
        BY <2>1, <3>3, <4>1
    <3>5. ASSUME s # t
          PROVE  deployInfo'[s].current = deployInfo[s].current
      BY <2>1, <3>2, <3>5
    <3> QED
      BY <2>1, <3>4, <3>5
  <2>4. CASE DeployFails \/ \E c \in Callers : Call(c)
    <3>1. deployInfo' = deployInfo
      BY <2>4 DEF DeployFails, Call, AcceptScore, RejectScore, AddAuditor,
                  RemoveAuditor
    <3> QED
      BY <2>1, <3>1
  <2> QED
    BY <2>1, <2>2, <2>3, <2>4 DEF Next
<1> QED
  BY <1>1, AuditInvariant, PTL DEF Spec, VersionsAdvance

\* Removing an auditor takes that seat only, no seat is doubled, and none
\* changes during a deployment.
THEOREM SeatsStand == Spec => SeatsAreKept
<1>1. AInv /\ [Next]_vars =>
         [/\ \A c \in Callers, a \in User :
                RemoveAuditor(c, a) =>
                    ToSet(db'.auditors) = ToSet(db.auditors) \ {a}
          /\ IsInjective(db'.auditors)
          /\ deploying # <<>> => db'.auditors = db.auditors]_vars
  <2> SUFFICES ASSUME AInv, Next
               PROVE  /\ \A c \in Callers, a \in User :
                            RemoveAuditor(c, a) =>
                                ToSet(db'.auditors) = ToSet(db.auditors) \ {a}
                      /\ IsInjective(db'.auditors)
                      /\ deploying # <<>> => db'.auditors = db.auditors
    OBVIOUS
  <2>1. AInv'
    BY AInvNext
  <2>2. IsInjective(db'.auditors)
    BY <2>1 DEF AInv, Seats, IsInjective
  <2>3. ASSUME NEW c \in Callers, NEW a \in User, RemoveAuditor(c, a)
        PROVE  ToSet(db'.auditors) = ToSet(db.auditors) \ {a}
    BY <2>3, RemoveAuditorKeeps
  <2>4. ASSUME deploying # <<>>
        PROVE  db'.auditors = db.auditors
    <3>1. Deployed \/ DeployFails
      BY <2>4, ContractsHaveNoSay DEF Next, RequestDeploy
    <3>2. CASE Deployed
      BY <3>2 DEF Deployed, AInv, Types, AuditDb
    <3>3. CASE DeployFails
      BY <3>3, DeployFailsKeeps
    <3> QED
      BY <3>1, <3>2, <3>3
  <2> QED
    BY <2>2, <2>3, <2>4
<1> QED
  BY <1>1, AuditInvariant, PTL DEF Spec, SeatsAreKept
=============================================================================
