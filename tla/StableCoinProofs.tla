-------------------------- MODULE StableCoinProofs --------------------------
(***************************************************************************)
(* Proofs about StableCoin, for every set of accounts and contracts, every *)
(* depth of nested calls and every amount.                                 *)
(***************************************************************************)
EXTENDS StableCoin, FiniteSetTheorems, SequenceTheorems, TLAPS

-----------------------------------------------------------------------------
(* Total.                                                                  *)

Pos(n) == IF n > 0 THEN n ELSE 0

\* The tokens of account a, as Total counts them, and of the others.
Held(f, a) == {a} \X (1..f[a])
HeldByOthers(f, a) == UNION {Held(f, b) : b \in Address \ {a}}

\* An account holds as many tokens as its balance says.
LEMMA HeldCardinality ==
    ASSUME NEW f \in [Address -> Int], NEW a \in Address
    PROVE  /\ IsFiniteSet(Held(f, a))
           /\ Cardinality(Held(f, a)) = Pos(f[a])
<1> f[a] \in Int
  OBVIOUS
<1>1. IsFiniteSet(1..f[a]) /\ Cardinality(1..f[a]) = Pos(f[a])
  BY FS_Interval, SMT DEF Pos
<1>2. IsFiniteSet({a}) /\ Cardinality({a}) = 1
  BY FS_Singleton
<1>3. /\ IsFiniteSet({a} \X (1..f[a]))
      /\ Cardinality({a} \X (1..f[a])) = 1 * Pos(f[a])
  BY <1>1, <1>2, FS_Product, ZenonT(60)
<1>4. Pos(f[a]) \in Int
  BY DEF Pos
<1> QED
  BY <1>3, <1>4 DEF Held

\* What the others hold is a finite number of tokens.
LEMMA HeldByOthersFinite ==
    ASSUME NEW f \in [Address -> Int], NEW a \in Address
    PROVE  /\ IsFiniteSet(HeldByOthers(f, a))
           /\ Cardinality(HeldByOthers(f, a)) \in Nat
<1>1. IsFiniteSet(HeldByOthers(f, a))
  <2> DEFINE held == [b \in Address \ {a} |-> Held(f, b)]
  <2>1. IsFiniteSet(Address \ {a})
    BY StableCoinAssumption, FS_Difference
  <2>2. IsFiniteSet({Held(f, b) : b \in Address \ {a}})
    <3> DEFINE S == {Held(f, b) : b \in Address \ {a}}
    <3>1. held \in Surjection(Address \ {a}, S)
      BY DEF Surjection
    <3> QED
      BY <2>1, <3>1, FS_Surjection, Zenon
  <2>3. \A T \in {Held(f, b) : b \in Address \ {a}} : IsFiniteSet(T)
    BY HeldCardinality
  <2> QED
    BY <2>2, <2>3, FS_UNION, Zenon DEF HeldByOthers
<1> QED
  BY <1>1, FS_CardinalityType

\* The total is what one account holds and what the others hold.
LEMMA TotalSplit ==
    ASSUME NEW f \in [Address -> Int], NEW a \in Address
    PROVE  /\ Total(f) = Pos(f[a]) + Cardinality(HeldByOthers(f, a))
           /\ Total(f) \in Nat
<1>1. UNION {{b} \X (1..f[b]) : b \in DOMAIN f}
          = Held(f, a) \cup HeldByOthers(f, a)
  <2>1. DOMAIN f = Address
    OBVIOUS
  <2> QED
    BY <2>1, Zenon DEF Held, HeldByOthers
<1>2. Held(f, a) \cap HeldByOthers(f, a) = {}
  BY DEF Held, HeldByOthers
<1>3. Cardinality(Held(f, a) \cap HeldByOthers(f, a)) = 0
  BY <1>2, FS_EmptySet
<1>4. Total(f) = Cardinality(Held(f, a)) + Cardinality(HeldByOthers(f, a)) - 0
  BY <1>1, <1>3, HeldCardinality, HeldByOthersFinite, FS_Union, Zenon DEF Total
<1>5. Pos(f[a]) \in Nat
  BY DEF Pos
<1> QED
  BY <1>4, <1>5, HeldCardinality, HeldByOthersFinite

\* Writing one entry changes the total by the difference.
LEMMA TotalWrite ==
    ASSUME NEW f \in [Address -> Int], NEW a \in Address, NEW n \in Int
    PROVE  /\ [f EXCEPT ![a] = n] \in [Address -> Int]
           /\ Total([f EXCEPT ![a] = n]) = Total(f) - Pos(f[a]) + Pos(n)
<1> DEFINE g == [f EXCEPT ![a] = n]
<1>1. g \in [Address -> Int] /\ g[a] = n
  OBVIOUS
<1>2. HeldByOthers(g, a) = HeldByOthers(f, a)
  <2>1. \A b \in Address \ {a} : g[b] = f[b]
    OBVIOUS
  <2>2. \A b \in Address \ {a} : Held(g, b) = Held(f, b)
    BY <2>1 DEF Held
  <2> QED
    BY <2>2, Zenon DEF HeldByOthers
<1>3. /\ Total(g) = Pos(n) + Cardinality(HeldByOthers(f, a))
      /\ Total(f) = Pos(f[a]) + Cardinality(HeldByOthers(f, a))
  BY <1>1, <1>2, TotalSplit
<1>4. Pos(n) \in Nat /\ Pos(f[a]) \in Nat
  BY DEF Pos
<1> HIDE DEF g
<1>5. Total(g) = Total(f) - Pos(f[a]) + Pos(n)
  BY <1>3, <1>4, HeldByOthersFinite
<1> QED
  BY <1>1, <1>5 DEF g

\* Moving an amount from one account to another, or to itself, leaves the
\* total as it is.
LEMMA TotalMove ==
    ASSUME NEW f \in [Address -> Nat], NEW a \in Address, NEW b \in Address,
           NEW v \in Nat, v <= f[a]
    PROVE  /\ Move(f, a, b, v) \in [Address -> Nat]
           /\ Total(Move(f, a, b, v)) = Total(f)
<1> DEFINE g == [f EXCEPT ![a] = f[a] - v]
           h == [g EXCEPT ![b] = g[b] + v]
<1>1. g \in [Address -> Nat] /\ f \in [Address -> Int]
  OBVIOUS
<1>2. Total(g) = Total(f) - v
  <2>0. f[a] - v \in Int
    OBVIOUS
  <2>1. Total(g) = Total(f) - Pos(f[a]) + Pos(f[a] - v)
    BY <1>1, <2>0, TotalWrite, ZenonT(90)
  <2>2. Pos(f[a]) = f[a] /\ Pos(f[a] - v) = f[a] - v
    BY DEF Pos
  <2>3. Total(f) \in Nat
    BY <1>1, TotalSplit
  <2> QED
    BY <2>1, <2>2, <2>3
<1>3. Total(h) = Total(g) + v
  <2>0. g[b] \in Nat /\ g[b] + v \in Int /\ g \in [Address -> Int]
    <3> HIDE DEF g
    <3> QED
      BY <1>1
  <2>1. Total(h) = Total(g) - Pos(g[b]) + Pos(g[b] + v)
    BY <2>0, TotalWrite, ZenonT(90)
  <2>2. Pos(g[b]) = g[b] /\ Pos(g[b] + v) = g[b] + v
    BY <2>0 DEF Pos
  <2>3. Total(g) \in Nat
    BY <2>0, TotalSplit
  <2> HIDE DEF g, h
  <2> QED
    BY <2>0, <2>1, <2>2, <2>3
<1>4. Total(f) \in Nat
  BY <1>1, TotalSplit
<1>5. h = Move(f, a, b, v)
  BY DEF Move
<1>6. h \in [Address -> Nat]
  BY <1>1
<1> HIDE DEF g, h
<1> QED
  BY <1>2, <1>3, <1>4, <1>5, <1>6

-----------------------------------------------------------------------------
(* The inductive invariant: what holds of the state holds of every copy    *)
(* saved by a call in progress, since a failing call brings it back.       *)

Backed(s) == s.db.totalSupply = Total(s.db.balances)

Covered(s) == s.db.totalSupply + Total(s.db.allowances) <= s.log.approved

Distinct(issuers) ==
    \A i, j \in DOMAIN issuers : issuers[i] = issuers[j] => i = j

Listed(issuers, a) == \E i \in DOMAIN issuers : issuers[i] = a

Orderly(s) ==
    /\ Distinct(s.db.issuers)
    /\ Len(s.db.issuers) <= s.db.nIssuers
    /\ \A a \in Address : Listed(s.db.issuers, a) \/ s.db.allowances[a] = 0

\* Before the deployment nothing is issued: the constructor, which sets
\* the supply to zero, agrees with the balances it leaves alone.
Fresh(s) ==
    s.db.admin = Null => s.db.totalSupply = 0 /\ s.db.issuers = <<>>

Sound(s) ==
    s \in Snapshot /\ Backed(s) /\ Covered(s) /\ Orderly(s) /\ Fresh(s)

SoundStack(fs) ==
    fs \in Seq(Frame) /\ \A i \in DOMAIN fs : Sound(fs[i].before)

IInv == blockHeight \in Nat /\ Sound(Now) /\ SoundStack(frames)

\* The inductive invariant implies the properties.
LEMMA IInvImplies ==
    ASSUME IInv
    PROVE  TypeOK /\ SupplyBacked /\ MintedWithinApprovals /\ IssuersOK
<1>1. Sound(Now) /\ Now.db = db /\ Now.log = log
  BY DEF IInv, Now
<1>2. TypeOK
  BY <1>1 DEF IInv, Sound, Snapshot, TypeOK, SoundStack
<1>3. SupplyBacked
  BY <1>1 DEF Sound, Backed, SupplyBacked
<1>4. MintedWithinApprovals
  BY <1>1 DEF Sound, Covered, MintedWithinApprovals
<1>5. IssuersOK
  BY <1>1 DEF Sound, Orderly, Distinct, Listed, IssuersOK, IsIssuer
<1> QED
  BY <1>2, <1>3, <1>4, <1>5

-----------------------------------------------------------------------------
(* The call stack.                                                         *)

\* Entering a call saves a sound state.
LEMMA SoundAppend ==
    ASSUME NEW fs, SoundStack(fs), NEW f \in Frame, Sound(f.before)
    PROVE  SoundStack(Append(fs, f))
<1>1. fs \in Seq(Frame)
  BY DEF SoundStack
<1>2. /\ Append(fs, f) \in Seq(Frame)
      /\ Len(Append(fs, f)) = Len(fs) + 1
      /\ \A i \in 1..Len(fs) : Append(fs, f)[i] = fs[i]
      /\ Append(fs, f)[Len(fs) + 1] = f
  BY <1>1, AppendProperties
<1>3. DOMAIN Append(fs, f) = 1..(Len(fs) + 1) /\ DOMAIN fs = 1..Len(fs)
  BY <1>1, <1>2
<1>4. Len(fs) \in Nat
  BY <1>1
<1>5. ASSUME NEW i \in 1..(Len(fs) + 1)
      PROVE  Sound(Append(fs, f)[i].before)
  <2>1. CASE i = Len(fs) + 1
    BY <2>1, <1>2
  <2>2. CASE i # Len(fs) + 1
    <3>1. i \in 1..Len(fs)
      BY <2>2, <1>4
    <3> QED
      BY <3>1, <1>2, <1>3 DEF SoundStack
  <2> QED
    BY <2>1, <2>2
<1> QED
  BY <1>2, <1>3, <1>5 DEF SoundStack

\* Leaving one restores, if it fails, a sound state.
LEMMA SoundPop ==
    ASSUME NEW fs, SoundStack(fs), fs # <<>>
    PROVE  /\ SoundStack(SubSeq(fs, 1, Len(fs) - 1))
           /\ fs[Len(fs)] \in Frame
           /\ Sound(fs[Len(fs)].before)
<1>1. fs \in Seq(Frame) /\ DOMAIN fs = 1..Len(fs) /\ Len(fs) \in Nat \ {0}
  BY EmptySeq DEF SoundStack
<1>2. \A i \in 1..(Len(fs) - 1) : fs[i] \in Frame
  BY <1>1
<1>3. /\ SubSeq(fs, 1, Len(fs) - 1) \in Seq(Frame)
      /\ Len(SubSeq(fs, 1, Len(fs) - 1)) = Len(fs) - 1
      /\ \A i \in 1..(Len(fs) - 1) : SubSeq(fs, 1, Len(fs) - 1)[i] = fs[i]
  BY <1>1, <1>2, SubSeqProperties
<1>4. DOMAIN SubSeq(fs, 1, Len(fs) - 1) = 1..(Len(fs) - 1)
  BY <1>3
<1>5. SoundStack(SubSeq(fs, 1, Len(fs) - 1))
  BY <1>1, <1>3, <1>4 DEF SoundStack
<1>6. Len(fs) \in DOMAIN fs
  BY <1>1
<1> QED
  BY <1>1, <1>5, <1>6 DEF SoundStack

\* Whoever calls is an account.
LEMMA CallersAreAccounts ==
    ASSUME IInv, NEW c \in Callers
    PROVE  c \in Address
<1>1. CASE frames = <<>>
  BY <1>1 DEF Callers, Users
<1>2. CASE frames # <<>>
  <2>1. frames[Len(frames)] \in Frame
    BY <1>2, SoundPop DEF IInv
  <2> QED
    BY <1>2, <2>1, StableCoinAssumption DEF Callers, Frame
<1> QED
  BY <1>1, <1>2

-----------------------------------------------------------------------------
(* The steps.                                                              *)

\* The book-keeping of free transfers keeps its types.
LEMMA EntryType ==
    ASSUME NEW e \in Entry, NEW limit \in Nat, NEW h \in Nat
    PROVE  AfterTransfer(e, limit, h) \in Entry /\ AfterMint(e, h) \in Entry
<1>1. Opened(e, h) \in Entry
  BY DEF Opened, Entry
<1>2. TxnCount(Opened(e, h)) \in Nat
  BY <1>1 DEF TxnCount, Entry
<1>3. AfterTransfer(e, limit, h) \in Entry
  BY <1>1, <1>2 DEF AfterTransfer, Entry
<1>4. AfterMint(e, h) \in Entry
  BY DEF AfterMint, Entry
<1> QED
  BY <1>3, <1>4

\* An event of the digest keeps its type and leaves the approvals alone.
LEMMA TransferEventType ==
    ASSUME NEW l \in EventLog, NEW a \in Address, NEW b \in Address,
           NEW v \in Int
    PROVE  /\ TransferEvent(l, a, b, v) \in EventLog
           /\ TransferEvent(l, a, b, v).approved = l.approved
<1> DEFINE g == [l.net EXCEPT ![a] = @ - v]
<1>1. g \in [Address -> Int]
  BY DEF EventLog
<1>2. [g EXCEPT ![b] = @ + v] \in [Address -> Int]
  BY <1>1
<1>3. Move(l.net, a, b, v) \in [Address -> Int]
  BY <1>2 DEF Move
<1> QED
  BY <1>3 DEF TransferEvent, EventLog

\* A step that leaves the calls in progress alone keeps the invariant if it
\* leaves the contract in a sound state.
LEMMA SameFrames ==
    ASSUME IInv, Sound(Now'), UNCHANGED <<frames, blockHeight>>
    PROVE  IInv'
BY DEF IInv

\* The parts of the current state, for the lemmas below.
LEMMA StateParts ==
    ASSUME Sound(Now)
    PROVE  /\ db \in Storage
           /\ log \in EventLog
           /\ db.balances \in [Address -> Nat]
           /\ db.allowances \in [Address -> Int]
           /\ db.whitelist \in [Address -> Entry]
           /\ db.issuers \in Seq(Address)
           /\ db.admin \in Address \cup {Null}
           /\ db.nIssuers \in Nat
           /\ db.paused \in BOOLEAN
           /\ db.freeDailyTxLimit \in Nat
           /\ db.totalSupply \in Nat
           /\ db.totalSupply = Total(db.balances)
           /\ db.totalSupply + Total(db.allowances) <= log.approved
           /\ log.approved \in Nat
<1>1. db \in Storage /\ log \in EventLog
  BY DEF Sound, Now, Snapshot
<1>2. /\ db.totalSupply = Total(db.balances)
      /\ db.totalSupply + Total(db.allowances) <= log.approved
  BY DEF Sound, Now, Backed, Covered
<1> QED
  BY <1>1, <1>2 DEF Storage, EventLog

\* The other way round.
LEMMA SoundNext ==
    ASSUME db' \in Storage, log' \in EventLog,
           db'.totalSupply = Total(db'.balances),
           db'.totalSupply + Total(db'.allowances) <= log'.approved,
           Orderly(Now'), db'.admin # Null
    PROVE  Sound(Now')
BY DEF Sound, Now, Snapshot, Backed, Covered, Fresh

\* Steps that leave the issuers' list and the allowances' zeros alone.
LEMMA OrderlyNext ==
    ASSUME Sound(Now), db'.issuers = db.issuers, db'.nIssuers = db.nIssuers,
           \A a \in Address : db.allowances[a] = 0 => db'.allowances[a] = 0
    PROVE  Orderly(Now')
BY DEF Sound, Orderly, Now

\* Deployment starts with nothing issued; an update changes nothing.
LEMMA ConstructorSound ==
    ASSUME IInv, NEW n \in IssuerCaps, NEW a \in Admins, Constructor(n, a)
    PROVE  IInv'
<1>1. CASE Installed /\ UNCHANGED db
  BY <1>1 DEF Constructor, IInv, Now
<1>2. CASE ~Installed
  <2> DEFINE cap == IF n = 0 THEN 2 ELSE n
  <2>1. /\ db' = [db EXCEPT !.admin = a,
                            !.nIssuers = cap,
                            !.totalSupply = 0,
                            !.paused = FALSE,
                            !.freeDailyTxLimit = DefaultFreeLimit]
        /\ UNCHANGED <<log, frames, blockHeight>>
        /\ cap \in Nat
        /\ a \in Address
        /\ a # Null
    BY <1>2, StableCoinAssumption DEF Constructor, Installed
  <2>2. Sound(Now)
    BY DEF IInv
  <2>3. db.totalSupply = 0 /\ db.issuers = <<>>
    BY <1>2, <2>2 DEF Sound, Fresh, Now, Installed
  <2> HIDE DEF cap
  <2>4. db' \in Storage
    BY <2>1, <2>2, StateParts, StableCoinAssumption DEF Storage
  <2>5. /\ db'.issuers = <<>> /\ db'.allowances = db.allowances
        /\ db'.balances = db.balances /\ db'.totalSupply = 0
        /\ db'.nIssuers = cap /\ db'.admin = a
    BY <2>1, <2>2, <2>3, StateParts DEF Storage
  <2>6. Orderly(Now')
    <3>1. \A b \in Address : Listed(db.issuers, b) \/ db.allowances[b] = 0
      BY <2>2 DEF Sound, Orderly, Now
    <3>2. Len(<<>>) <= cap
      BY <2>1
    <3> QED
      BY <2>3, <2>5, <3>1, <3>2 DEF Orderly, Now, Distinct, Listed
  <2>7. Sound(Now')
    BY <2>1, <2>2, <2>3, <2>4, <2>5, <2>6, StateParts, SoundNext
  <2> QED
    BY <2>1, <2>7, SameFrames
<1> QED
  BY <1>1, <1>2 DEF Constructor

\* A transfer moves balances that are there; whether it ends at once or in
\* a callback, the state it leaves is sound.
LEMMA TransferSound ==
    ASSUME IInv, NEW from \in Callers, NEW to \in Address, NEW v \in Amounts,
           Transfer(from, to, v)
    PROVE  IInv'
<1>1. /\ from \in Address /\ v \in Nat /\ v > 0 /\ Sound(Now)
      /\ v <= db.balances[from] /\ blockHeight \in Nat /\ db.admin # Null
  BY CallersAreAccounts, StableCoinAssumption DEF IInv, Transfer, Installed
<1> DEFINE e == AfterTransfer(db.whitelist[from], db.freeDailyTxLimit,
                              blockHeight)
           m == Move(db.balances, from, to, v)
<1>2. m \in [Address -> Nat] /\ Total(m) = Total(db.balances)
  BY <1>1, StateParts, TotalMove, ZenonT(60)
<1>3. e \in Entry
  BY <1>1, StateParts, EntryType
<1>4. db' = [db EXCEPT !.whitelist[from] = e, !.balances = m]
  BY DEF Transfer, Transferred
<1> HIDE DEF e, m
<1>5. /\ db' \in Storage
      /\ db'.balances = m
      /\ db'.totalSupply = db.totalSupply
      /\ db'.allowances = db.allowances
      /\ db'.issuers = db.issuers
      /\ db'.nIssuers = db.nIssuers
      /\ db'.admin = db.admin
  BY <1>1, <1>2, <1>3, <1>4, StateParts DEF Storage
<1>6. Orderly(Now')
  BY <1>1, <1>5, OrderlyNext
<1>7. CASE to \notin Contracts
  <2>1. log' \in EventLog /\ log'.approved = log.approved
    <3>1. log' = TransferEvent(log, from, to, v)
      BY <1>7 DEF Transfer
    <3>2. log \in EventLog /\ v \in Int
      BY <1>1, StateParts
    <3> QED
      BY <1>1, <3>1, <3>2, TransferEventType
  <2>2. Sound(Now')
    BY <1>1, <1>2, <1>5, <1>6, <2>1, StateParts, SoundNext
  <2>3. UNCHANGED <<frames, blockHeight>>
    BY <1>7 DEF Transfer
  <2> QED
    BY <2>2, <2>3, SameFrames
<1>8. CASE to \in Contracts
  <2>1. log' = log /\ frames' = Push(to, from, v) /\ blockHeight' = blockHeight
    BY <1>8 DEF Transfer
  <2>2. Sound(Now')
    BY <1>1, <1>2, <1>5, <1>6, <2>1, StateParts, SoundNext
  <2>3. [code |-> to, caller |-> from, value |-> v, before |-> Now] \in Frame
    BY <1>1, <1>8 DEF Frame, Sound
  <2>4. SoundStack(frames')
    BY <1>1, <2>1, <2>3, SoundAppend DEF Push, IInv
  <2> QED
    BY <1>1, <2>1, <2>2, <2>4 DEF IInv
<1> QED
  BY <1>7, <1>8

\* A call of another contract only saves the state.
LEMMA CallContractSound ==
    ASSUME IInv, NEW c \in Callers, NEW code \in Contracts,
           CallContract(c, code)
    PROVE  IInv'
<1>1. c \in Address /\ Sound(Now)
  BY CallersAreAccounts DEF IInv
<1>2. /\ frames' = Append(frames, [code |-> code, caller |-> c,
                                   value |-> 0, before |-> Now])
      /\ UNCHANGED <<db, log, blockHeight>>
  BY DEF CallContract, Push
<1>3. [code |-> code, caller |-> c, value |-> 0, before |-> Now] \in Frame
  BY <1>1 DEF Frame, Sound
<1>4. SoundStack(frames')
  BY <1>1, <1>2, <1>3, SoundAppend DEF IInv
<1> QED
  BY <1>2, <1>4 DEF IInv, Now

\* A return completes a transfer by its event, which is of the right type.
LEMMA ReturnSound ==
    ASSUME IInv, Return
    PROVE  IInv'
<1> DEFINE top == frames[Len(frames)]
<1>1. Sound(Now) /\ SoundStack(frames) /\ frames # <<>>
  BY DEF IInv, Return
<1>2. /\ log' = TransferEvent(log, top.caller, top.code, top.value)
      /\ frames' = SubSeq(frames, 1, Len(frames) - 1)
      /\ UNCHANGED <<db, blockHeight>>
  BY DEF Return, Pop
<1>3. top \in Frame /\ SoundStack(frames')
  BY <1>1, <1>2, SoundPop
<1> HIDE DEF top
<1>4. top.caller \in Address /\ top.code \in Address /\ top.value \in Int
  BY <1>3, StableCoinAssumption DEF Frame
<1>5. log' \in EventLog /\ log'.approved = log.approved
  BY <1>1, <1>2, <1>4, StateParts, TransferEventType
<1>6. Sound(Now')
  BY <1>1, <1>2, <1>5
     DEF Sound, Now, Snapshot, Backed, Covered, Orderly, Fresh
<1> QED
  BY <1>2, <1>3, <1>6 DEF IInv

\* A failure restores a sound state.
LEMMA RevertSound ==
    ASSUME IInv, Revert
    PROVE  IInv'
<1>1. SoundStack(frames) /\ frames # <<>>
  BY DEF IInv, Revert
<1>2. /\ db' = frames[Len(frames)].before.db
      /\ log' = frames[Len(frames)].before.log
      /\ frames' = SubSeq(frames, 1, Len(frames) - 1)
      /\ blockHeight' = blockHeight
  BY DEF Revert, Pop
<1>3. /\ SoundStack(frames')
      /\ frames[Len(frames)].before \in Snapshot
      /\ Sound(frames[Len(frames)].before)
  BY <1>1, <1>2, SoundPop DEF Frame
<1>4. Now' = frames[Len(frames)].before
  BY <1>2, <1>3 DEF Now, Snapshot
<1> QED
  BY <1>2, <1>3, <1>4 DEF IInv

\* A mint takes from an allowance what it adds to the supply and to the
\* receiver's balance.
LEMMA MintSound ==
    ASSUME IInv, NEW c \in Callers, NEW to \in Address, NEW v \in Amounts,
           Mint(c, to, v)
    PROVE  IInv'
<1>1. /\ c \in Address /\ v \in Nat /\ v > 0 /\ Sound(Now)
      /\ v <= db.allowances[c] /\ blockHeight \in Nat /\ db.admin # Null
      /\ IsIssuer(c)
  BY CallersAreAccounts, StableCoinAssumption DEF IInv, Mint, Installed
<1> DEFINE e == AfterMint(db.whitelist[to], blockHeight)
           al == [db.allowances EXCEPT ![c] = db.allowances[c] - v]
           ba == [db.balances EXCEPT ![to] = db.balances[to] + v]
<1>2. e \in Entry
  BY <1>1, StateParts, EntryType
<1>3. /\ db.allowances \in [Address -> Int] /\ db.allowances[c] \in Nat
      /\ db.allowances[c] - v \in Nat
      /\ Pos(db.allowances[c]) = db.allowances[c]
      /\ Pos(db.allowances[c] - v) = db.allowances[c] - v
  BY <1>1, StateParts DEF Pos
<1>4. al \in [Address -> Int] /\ Total(al) = Total(db.allowances) - v
  <2>1. /\ al \in [Address -> Int]
        /\ Total(al) = Total(db.allowances) - Pos(db.allowances[c])
                           + Pos(db.allowances[c] - v)
    <3>1. /\ db.allowances \in [Address -> Int] /\ c \in Address
          /\ db.allowances[c] - v \in Int
      BY <1>1, <1>3
    <3> QED
      BY <3>1, TotalWrite, ZenonT(90)
  <2>2. Total(db.allowances) \in Nat
    BY <1>1, <1>3, TotalSplit
  <2> HIDE DEF al
  <2> QED
    BY <1>1, <1>3, <2>1, <2>2
<1>5. /\ db.balances \in [Address -> Int] /\ db.balances[to] \in Nat
      /\ db.balances[to] + v \in Nat
      /\ Pos(db.balances[to]) = db.balances[to]
      /\ Pos(db.balances[to] + v) = db.balances[to] + v
  <2>1. db.balances \in [Address -> Nat]
    BY <1>1, StateParts
  <2> QED
    BY ONLY <1>1, <2>1, to \in Address DEF Pos
<1>6. ba \in [Address -> Nat] /\ Total(ba) = Total(db.balances) + v
  <2>1. Total(ba) = Total(db.balances) - Pos(db.balances[to])
                        + Pos(db.balances[to] + v)
    <3>1. /\ db.balances \in [Address -> Int]
          /\ db.balances[to] + v \in Int
      BY <1>5
    <3> QED
      BY <3>1, TotalWrite, ZenonT(90)
  <2>2. Total(db.balances) \in Nat
    BY <1>5, TotalSplit
  <2>3. ba \in [Address -> Nat]
    BY <1>1, <1>5, StateParts
  <2> HIDE DEF ba
  <2> QED
    BY <1>1, <1>5, <2>1, <2>2, <2>3
<1>7. /\ db' = [db EXCEPT !.allowances = al, !.whitelist[to] = e,
                          !.totalSupply = db.totalSupply + v, !.balances = ba]
      /\ log' = TransferEvent(log, EOA_ZERO, to, v)
      /\ UNCHANGED <<frames, blockHeight>>
  <2>1. /\ db' = [db EXCEPT !.allowances[c] = @ - v,
                            !.whitelist[to] = AfterMint(@, blockHeight),
                            !.totalSupply = @ + v,
                            !.balances[to] = @ + v]
        /\ log' = TransferEvent(log, EOA_ZERO, to, v)
        /\ UNCHANGED <<frames, blockHeight>>
    BY DEF Mint, Minted
  <2> QED
    BY <2>1
<1> HIDE DEF e, al, ba
<1>8. /\ db' \in Storage
      /\ db'.balances = ba
      /\ db'.totalSupply = db.totalSupply + v
      /\ db'.allowances = al
      /\ db'.issuers = db.issuers
      /\ db'.nIssuers = db.nIssuers
      /\ db'.admin = db.admin
  <2> DEFINE wl == [db.whitelist EXCEPT ![to] = e]
             sup == db.totalSupply + v
  <2>1. db \in Storage /\ wl \in [Address -> Entry] /\ sup \in Nat
    BY <1>1, <1>2, StateParts
  <2>2. db' = [db EXCEPT !.allowances = al, !.whitelist = wl,
                         !.totalSupply = sup, !.balances = ba]
    BY <1>7
  <2> HIDE DEF wl
  <2>3. db' \in Storage
    BY <1>4, <1>6, <2>1, <2>2 DEF Storage
  <2> QED
    BY <2>1, <2>2, <2>3 DEF Storage
<1>9. ASSUME NEW a \in Address, db.allowances[a] = 0
      PROVE  db'.allowances[a] = 0
  <2>1. a # c
    BY <1>1, <1>9
  <2> QED
    BY <1>3, <1>8, <1>9, <2>1 DEF al
<1>10. Orderly(Now')
  BY <1>1, <1>8, <1>9, OrderlyNext
<1>11. log' \in EventLog /\ log'.approved = log.approved
  <2>1. log \in EventLog /\ v \in Int /\ EOA_ZERO \in Address
    BY <1>1, StateParts, StableCoinAssumption
  <2> QED
    BY <1>7, <2>1, TransferEventType
<1>12. Total(db.allowances) \in Nat /\ db.totalSupply \in Nat
  BY <1>1, <1>3, StateParts, TotalSplit
<1>13. db'.totalSupply + Total(db'.allowances) <= log'.approved
  BY <1>1, <1>4, <1>8, <1>11, <1>12, StateParts
<1>14. db'.totalSupply = Total(db'.balances)
  BY <1>1, <1>6, <1>8, StateParts
<1> QED
  BY <1>1, <1>7, <1>8, <1>10, <1>11, <1>13, <1>14, SoundNext, SameFrames

\* A burn takes the same amount from the supply and from a balance that
\* covers it, so that neither becomes negative.
LEMMA BurnSound ==
    ASSUME IInv, NEW from \in Callers, NEW v \in Amounts, Burn(from, v)
    PROVE  IInv'
<1>1. /\ from \in Address /\ v \in Nat /\ v > 0 /\ Sound(Now)
      /\ v <= db.balances[from] /\ db.admin # Null
  BY CallersAreAccounts, StableCoinAssumption DEF IInv, Burn, Installed
<1> DEFINE ba == [db.balances EXCEPT ![from] = db.balances[from] - v]
           sup == db.totalSupply - v
<1>2. /\ db.balances \in [Address -> Int] /\ db.balances[from] \in Nat
      /\ db.balances[from] - v \in Nat
      /\ Pos(db.balances[from]) = db.balances[from]
      /\ Pos(db.balances[from] - v) = db.balances[from] - v
  BY <1>1, StateParts DEF Pos
<1>3. Total(ba) = Total(db.balances) - v
  <2>1. Total(ba) = Total(db.balances) - Pos(db.balances[from])
                        + Pos(db.balances[from] - v)
    <3>1. /\ db.balances \in [Address -> Int] /\ from \in Address
          /\ db.balances[from] - v \in Int
      BY <1>1, <1>2
    <3> QED
      BY <3>1, TotalWrite, ZenonT(90)
  <2>2. Total(db.balances) \in Nat
    BY <1>1, <1>2, TotalSplit
  <2> HIDE DEF ba
  <2> QED
    BY <1>1, <1>2, <2>1, <2>2
<1>4. ba \in [Address -> Nat]
  BY <1>1, <1>2, StateParts
<1>5. Total(ba) \in Nat
  BY <1>1, <1>4, TotalSplit
<1>6. sup = Total(ba) /\ sup \in Nat
  BY <1>1, <1>3, <1>5, StateParts
<1>7. /\ db' = [db EXCEPT !.totalSupply = sup, !.balances = ba]
      /\ log' = TransferEvent(log, from, EOA_ZERO, v)
      /\ UNCHANGED <<frames, blockHeight>>
  <2>1. /\ db' = [db EXCEPT !.totalSupply = @ - v, !.balances[from] = @ - v]
        /\ log' = TransferEvent(log, from, EOA_ZERO, v)
        /\ UNCHANGED <<frames, blockHeight>>
    BY DEF Burn
  <2> QED
    BY <2>1
<1> HIDE DEF ba
<1>8. /\ db' \in Storage
      /\ db'.balances = ba
      /\ db'.totalSupply = sup
      /\ db'.allowances = db.allowances
      /\ db'.issuers = db.issuers
      /\ db'.nIssuers = db.nIssuers
      /\ db'.admin = db.admin
  <2>1. db \in Storage
    BY <1>1, StateParts
  <2> HIDE DEF sup
  <2> QED
    BY <1>4, <1>6, <1>7, <2>1 DEF Storage
<1>9. Orderly(Now')
  BY <1>1, <1>8, OrderlyNext
<1>10. log' \in EventLog /\ log'.approved = log.approved
  <2>1. log \in EventLog /\ v \in Int /\ EOA_ZERO \in Address
    BY <1>1, StateParts, StableCoinAssumption
  <2> QED
    BY <1>1, <1>7, <2>1, TransferEventType
<1>11. Total(db.allowances) \in Nat
  BY <1>1, StateParts, TotalSplit
<1>12. db'.totalSupply + Total(db'.allowances) <= log'.approved
  BY <1>1, <1>8, <1>10, <1>11, StateParts
<1> QED
  BY <1>1, <1>6, <1>7, <1>8, <1>9, <1>10, <1>12, SoundNext, SameFrames

\* An added issuer is a new one, and there is room: the narrowed maximum is
\* never more than the maximum.
LEMMA IntValueBound ==
    ASSUME NEW n \in Nat
    PROVE  IntValue(n) \in Int /\ IntValue(n) <= n
<1> DEFINE m == n + IntRange
           k == 2 * IntRange
<1>1. m \in Nat /\ k \in Nat \ {0}
  BY StableCoinAssumption
<1> HIDE DEF m, k
<1>2. m % k \in 0..(k - 1) /\ m = k * (m \div k) + (m % k)
  BY <1>1
<1>3. m \div k \in Nat
  BY <1>1
<1>4. k * (m \div k) \in Nat
  BY <1>1, <1>3
<1>5. m % k \in Int /\ m % k <= m
  BY <1>1, <1>2, <1>4
<1> USE DEF m, k
<1> QED
  BY <1>5, StableCoinAssumption DEF IntValue

LEMMA AddIssuerSound ==
    ASSUME IInv, NEW c \in Callers, NEW x \in Address, AddIssuer(c, x)
    PROVE  IInv'
<1>1. c \in Address /\ Sound(Now) /\ db.admin # Null
  BY CallersAreAccounts, StableCoinAssumption DEF IInv, AddIssuer
<1> DEFINE old == db.issuers
           new == Append(old, x)
<1>2. /\ old \in Seq(Address) /\ Len(old) \in Nat /\ db.nIssuers \in Nat
      /\ DOMAIN old = 1..Len(old)
  BY <1>1, StateParts
<1>3. Len(old) < IntValue(db.nIssuers) /\ \A i \in DOMAIN old : old[i] # x
  BY DEF AddIssuer, HasRoom, IsIssuer
<1>4. Len(old) + 1 <= db.nIssuers
  BY <1>2, <1>3, IntValueBound
<1>5. /\ new \in Seq(Address) /\ Len(new) = Len(old) + 1
      /\ DOMAIN new = 1..(Len(old) + 1)
      /\ \A i \in 1..Len(old) : new[i] = old[i]
      /\ new[Len(old) + 1] = x
  BY <1>2, AppendProperties
<1>6. /\ db' = [db EXCEPT !.issuers = new]
      /\ UNCHANGED <<log, frames, blockHeight>>
  BY DEF AddIssuer
<1>7. /\ Distinct(old)
      /\ \A a \in Address : Listed(old, a) \/ db.allowances[a] = 0
  BY <1>1 DEF Sound, Orderly, Now
<1> HIDE DEF old, new
<1>8. Distinct(new)
  BY <1>2, <1>3, <1>5, <1>7 DEF Distinct
<1>9. \A a \in Address : Listed(old, a) => Listed(new, a)
  BY <1>2, <1>5 DEF Listed
<1>10. /\ db' \in Storage
       /\ db'.issuers = new
       /\ db'.balances = db.balances
       /\ db'.totalSupply = db.totalSupply
       /\ db'.allowances = db.allowances
       /\ db'.nIssuers = db.nIssuers
       /\ db'.admin = db.admin
  BY <1>1, <1>5, <1>6, StateParts DEF Storage
<1>11. Orderly(Now')
  BY <1>4, <1>5, <1>7, <1>8, <1>9, <1>10 DEF Orderly, Now
<1> QED
  BY <1>1, <1>6, <1>10, <1>11, StateParts, SoundNext, SameFrames

\* Taking an issuer off the list, with the last one in its place, leaves a
\* list of the others.
LEMMA WithoutProperties ==
    ASSUME NEW s \in Seq(Address), NEW x \in Address, Distinct(s), Listed(s, x)
    PROVE  /\ Without(s, x) \in Seq(Address)
           /\ Len(Without(s, x)) = Len(s) - 1
           /\ Distinct(Without(s, x))
           /\ \A a \in Address \ {x} : Listed(s, a) => Listed(Without(s, x), a)
<1> DEFINE n == Len(s)
           w == Without(s, x)
<1>1. n \in Nat \ {0} /\ DOMAIN s = 1..n /\ \A i \in 1..n : s[i] \in Address
  BY DEF Listed
<1>2. w = [i \in 1..(n - 1) |-> IF s[i] = x THEN s[n] ELSE s[i]]
  BY DEF Without
<1>3. w \in [1..(n - 1) -> Address] /\ n - 1 \in Nat
  BY <1>1, <1>2
<1>4. w \in Seq(Address) /\ Len(w) = n - 1 /\ DOMAIN w = 1..(n - 1)
  BY <1>3
<1>5. Distinct(s) /\ Listed(s, x)
  OBVIOUS
<1> HIDE DEF n, w
<1>6. Distinct(w)
  <2> SUFFICES ASSUME NEW i \in 1..(n - 1), NEW j \in 1..(n - 1), w[i] = w[j]
               PROVE  i = j
    BY <1>4, Zenon DEF Distinct
  <2>1. i \in 1..n /\ j \in 1..n /\ n \in 1..n /\ i # n /\ j # n
    BY <1>1
  <2>2. /\ w[i] = IF s[i] = x THEN s[n] ELSE s[i]
        /\ w[j] = IF s[j] = x THEN s[n] ELSE s[j]
    BY <1>2
  <2> QED
    BY <1>1, <1>5, <2>1, <2>2 DEF Distinct
<1>7. ASSUME NEW a \in Address \ {x}, Listed(s, a)
      PROVE  Listed(w, a)
  <2>1. PICK k \in 1..n : s[k] = a
    BY <1>1, <1>7 DEF Listed
  <2>2. CASE k # n
    <3>1. k \in 1..(n - 1) /\ w[k] = a
      BY <1>1, <1>2, <1>7, <2>1, <2>2
    <3> QED
      BY <1>4, <3>1 DEF Listed
  <2>3. CASE k = n
    <3>1. PICK p \in 1..n : s[p] = x
      BY <1>1, <1>5 DEF Listed
    <3>2. p \in 1..(n - 1) /\ w[p] = a
      BY <1>1, <1>2, <1>7, <2>1, <2>3, <3>1
    <3> QED
      BY <1>4, <3>2 DEF Listed
  <2> QED
    BY <2>2, <2>3
<1> QED
  BY <1>4, <1>6, <1>7 DEF n, w

\* A removed issuer loses its allowance with its place.
LEMMA RemoveIssuerSound ==
    ASSUME IInv, NEW c \in Callers, NEW x \in Address, RemoveIssuer(c, x)
    PROVE  IInv'
<1>1. /\ c \in Address /\ Sound(Now) /\ db.admin # Null
      /\ Listed(db.issuers, x)
  BY CallersAreAccounts, StableCoinAssumption
     DEF IInv, RemoveIssuer, IsIssuer, Listed
<1> DEFINE new == Without(db.issuers, x)
           al == [db.allowances EXCEPT ![x] = 0]
<1>2. /\ db.issuers \in Seq(Address) /\ db.nIssuers \in Nat
      /\ db.allowances \in [Address -> Int]
      /\ Distinct(db.issuers) /\ Len(db.issuers) <= db.nIssuers
      /\ \A a \in Address : Listed(db.issuers, a) \/ db.allowances[a] = 0
  BY <1>1, StateParts DEF Sound, Orderly, Now
<1>3. /\ new \in Seq(Address) /\ Len(new) = Len(db.issuers) - 1
      /\ Distinct(new)
      /\ \A a \in Address \ {x} : Listed(db.issuers, a) => Listed(new, a)
  BY <1>1, <1>2, WithoutProperties
<1>4. /\ al \in [Address -> Int] /\ al[x] = 0
      /\ \A a \in Address \ {x} : al[a] = db.allowances[a]
  BY <1>2
<1>5. Total(al) <= Total(db.allowances) /\ Total(al) \in Nat
  <2>1. Total(al) = Total(db.allowances) - Pos(db.allowances[x]) + Pos(0)
    BY <1>2, TotalWrite
  <2>2. Pos(db.allowances[x]) \in Nat /\ Pos(0) = 0
    BY <1>2 DEF Pos
  <2>3. Total(db.allowances) \in Nat /\ Total(al) \in Nat
    BY <1>2, <1>4, TotalSplit
  <2> HIDE DEF al
  <2> QED
    BY <2>1, <2>2, <2>3
<1>6. /\ db' = [db EXCEPT !.issuers = new, !.allowances = al]
      /\ UNCHANGED <<log, frames, blockHeight>>
  <2>1. db' = [db EXCEPT !.issuers = Without(@, x), !.allowances[x] = 0]
    BY DEF RemoveIssuer
  <2> QED
    BY <2>1 DEF RemoveIssuer
<1> HIDE DEF new, al
<1>7. /\ db' \in Storage
      /\ db'.issuers = new
      /\ db'.allowances = al
      /\ db'.balances = db.balances
      /\ db'.totalSupply = db.totalSupply
      /\ db'.nIssuers = db.nIssuers
      /\ db'.admin = db.admin
  BY <1>1, <1>3, <1>4, <1>6, StateParts DEF Storage
<1>8. Orderly(Now')
  <2>1. Len(new) <= db.nIssuers
    BY <1>2, <1>3
  <2>2. \A a \in Address : Listed(new, a) \/ al[a] = 0
    BY <1>2, <1>3, <1>4
  <2> QED
    BY <1>3, <1>7, <2>1, <2>2 DEF Orderly, Now
<1>9. db'.totalSupply + Total(db'.allowances) <= log'.approved
  <2>1. Total(db.allowances) \in Nat
    BY <1>1, <1>2, TotalSplit
  <2> QED
    BY <1>1, <1>5, <1>6, <1>7, <2>1, StateParts
<1> QED
  BY <1>1, <1>6, <1>7, <1>8, <1>9, StateParts, SoundNext, SameFrames

\* An approval replaces an allowance, and at least what it adds is in its
\* event.
LEMMA ApproveSound ==
    ASSUME IInv, NEW c \in Callers, NEW x \in Address, NEW v \in Amounts,
           Approve(c, x, v)
    PROVE  IInv'
<1>1. /\ c \in Address /\ Sound(Now) /\ db.admin # Null /\ v \in Int
      /\ Listed(db.issuers, x)
  BY CallersAreAccounts, StableCoinAssumption
     DEF IInv, Approve, IsIssuer, Listed
<1> DEFINE al == [db.allowances EXCEPT ![x] = v]
<1>2. /\ db.issuers \in Seq(Address)
      /\ db.allowances \in [Address -> Int]
      /\ Distinct(db.issuers) /\ Len(db.issuers) <= db.nIssuers
      /\ \A a \in Address : Listed(db.issuers, a) \/ db.allowances[a] = 0
      /\ log \in EventLog
      /\ db.totalSupply \in Nat
  BY <1>1, StateParts DEF Sound, Orderly, Now
<1>3. /\ al \in [Address -> Int]
      /\ \A a \in Address \ {x} : al[a] = db.allowances[a]
  BY <1>1, <1>2
<1>4. Total(al) <= Total(db.allowances) + Pos(v) /\ Total(al) \in Nat
  <2>1. Total(al) = Total(db.allowances) - Pos(db.allowances[x]) + Pos(v)
    BY <1>1, <1>2, TotalWrite
  <2>2. Pos(db.allowances[x]) \in Nat /\ Pos(v) \in Nat
    BY <1>1, <1>2 DEF Pos
  <2>3. Total(db.allowances) \in Nat /\ Total(al) \in Nat
    BY <1>1, <1>2, <1>3, TotalSplit
  <2> HIDE DEF al
  <2> QED
    BY <2>1, <2>2, <2>3
<1>5. /\ db' = [db EXCEPT !.allowances = al]
      /\ log' = ApprovalEvent(log, v)
      /\ UNCHANGED <<frames, blockHeight>>
  <2>1. /\ db' = [db EXCEPT !.allowances[x] = v]
        /\ log' = ApprovalEvent(log, v)
        /\ UNCHANGED <<frames, blockHeight>>
    BY DEF Approve
  <2> QED
    BY <2>1
<1> HIDE DEF al
<1>6. /\ log' \in EventLog
      /\ log.approved \in Nat
      /\ Pos(v) \in Nat
      /\ log'.approved = log.approved + Pos(v)
  <2>1. log.approved \in Nat /\ Pos(v) \in Nat
    BY <1>1, <1>2 DEF EventLog, Pos
  <2>2. log' = [log EXCEPT !.approved = log.approved + Pos(v)]
    BY <1>5 DEF ApprovalEvent, Pos
  <2> QED
    BY <1>2, <2>1, <2>2 DEF EventLog
<1>7. /\ db' \in Storage
      /\ db'.allowances = al
      /\ db'.issuers = db.issuers
      /\ db'.balances = db.balances
      /\ db'.totalSupply = db.totalSupply
      /\ db'.nIssuers = db.nIssuers
      /\ db'.admin = db.admin
  BY <1>1, <1>3, <1>5, StateParts DEF Storage
<1>8. Orderly(Now')
  <2>1. \A a \in Address : Listed(db.issuers, a) \/ al[a] = 0
    BY <1>1, <1>2, <1>3
  <2> QED
    BY <1>2, <1>7, <2>1 DEF Orderly, Now
<1>9. db'.totalSupply + Total(db'.allowances) <= log'.approved
  <2>1. Total(db.allowances) \in Nat
    BY <1>1, <1>2, TotalSplit
  <2> QED
    BY <1>1, <1>2, <1>4, <1>6, <1>7, <2>1, StateParts
<1> QED
  BY <1>1, <1>5, <1>6, <1>7, <1>8, <1>9, StateParts, SoundNext, SameFrames

\* The administrator's other calls write none of what the invariant is
\* about.
LEMMA SettingsSound ==
    ASSUME IInv, NEW c \in Callers,
           \/ \E a \in Admins : TransferAdminRight(c, a)
           \/ TogglePause(c)
           \/ \E n \in Limits : ChangeFreeDailyTxLimit(c, n)
    PROVE  IInv'
<1>1. c \in Address /\ Sound(Now)
  BY CallersAreAccounts DEF IInv
<1>2. /\ db' \in Storage
      /\ db'.issuers = db.issuers
      /\ db'.balances = db.balances
      /\ db'.allowances = db.allowances
      /\ db'.totalSupply = db.totalSupply
      /\ db'.nIssuers = db.nIssuers
      /\ db'.admin # Null
      /\ UNCHANGED <<log, frames, blockHeight>>
  <2>1. CASE \E a \in Admins : TransferAdminRight(c, a)
    BY <1>1, <2>1, StateParts, StableCoinAssumption
       DEF TransferAdminRight, Storage
  <2>2. CASE TogglePause(c)
    <3> DEFINE b == ~db.paused
    <3>1. /\ db' = [db EXCEPT !.paused = b]
          /\ b \in BOOLEAN
          /\ c = db.admin
          /\ UNCHANGED <<log, frames, blockHeight>>
      BY <2>2, Zenon DEF TogglePause
    <3> HIDE DEF b
    <3> QED
      BY <1>1, <3>1, StateParts, StableCoinAssumption DEF Storage
  <2>3. CASE \E n \in Limits : ChangeFreeDailyTxLimit(c, n)
    <3>1. PICK n \in Limits : ChangeFreeDailyTxLimit(c, n)
      BY <2>3
    <3>2. /\ db' = [db EXCEPT !.freeDailyTxLimit = n]
          /\ n \in Nat
          /\ c = db.admin
          /\ UNCHANGED <<log, frames, blockHeight>>
      BY <3>1, StableCoinAssumption DEF ChangeFreeDailyTxLimit
    <3> QED
      BY <1>1, <3>2, StateParts, StableCoinAssumption DEF Storage
  <2> QED
    BY <2>1, <2>2, <2>3
<1>3. Orderly(Now')
  BY <1>1, <1>2, OrderlyNext
<1> QED
  BY <1>1, <1>2, <1>3, StateParts, SoundNext, SameFrames

-----------------------------------------------------------------------------
\* Initially nothing is deployed and nothing issued.
LEMMA InitSound ==
    ASSUME Init
    PROVE  IInv
<1>1. /\ db.balances = [a \in Address |-> 0]
      /\ db.allowances = [a \in Address |-> 0]
      /\ db.totalSupply = 0 /\ db.issuers = <<>> /\ db.nIssuers = 0
      /\ log.approved = 0
  BY DEF Init
<1>2. Total([a \in Address |-> 0]) = 0
  <2> DEFINE z == [a \in Address |-> 0]
  <2>1. z \in [Address -> Int] /\ \A a \in Address : z[a] = 0
    OBVIOUS
  <2> HIDE DEF z
  <2>2. \A a \in Address : Held(z, a) = {}
    <3>1. 1..0 = {}
      OBVIOUS
    <3> QED
      BY <2>1, <3>1 DEF Held
  <2>3. HeldByOthers(z, EOA_ZERO) = {}
    BY <2>2 DEF HeldByOthers
  <2>4. Total(z) = Pos(z[EOA_ZERO]) + Cardinality(HeldByOthers(z, EOA_ZERO))
    BY <2>1, TotalSplit, StableCoinAssumption
  <2>5. Pos(z[EOA_ZERO]) = 0
    BY <2>1, StableCoinAssumption DEF Pos
  <2> QED
    BY <2>3, <2>4, <2>5, FS_EmptySet DEF z
<1>3. db \in Storage
  BY DEF Init, Storage, NoEntry, Entry
<1>4. log \in EventLog
  BY DEF Init, EventLog
<1>5. Orderly(Now)
  BY <1>1 DEF Orderly, Distinct, Now
<1>6. Sound(Now)
  BY <1>1, <1>2, <1>3, <1>4, <1>5
     DEF Sound, Snapshot, Backed, Covered, Fresh, Now
<1>7. SoundStack(<<>>)
  BY DEF SoundStack
<1> QED
  BY <1>6, <1>7 DEF Init, IInv

\* Every step keeps the invariant.
LEMMA NextSound ==
    ASSUME IInv, [Next]_vars
    PROVE  IInv'
<1>1. CASE Transfers
  BY <1>1, TransferSound DEF Transfers
<1>2. CASE \E n \in IssuerCaps, a \in Admins : Constructor(n, a)
  BY <1>2, ConstructorSound
<1>3. ASSUME NEW c \in Callers, OtherCall(c)
      PROVE  IInv'
  <2>1. CASE \E code \in Contracts : CallContract(c, code)
    BY <2>1, CallContractSound
  <2>2. CASE \E to \in Address, v \in Amounts : Mint(c, to, v)
    BY <2>2, MintSound
  <2>3. CASE \E v \in Amounts : Burn(c, v)
    BY <2>3, BurnSound
  <2>4. CASE \E a \in Address : AddIssuer(c, a)
    BY <2>4, AddIssuerSound
  <2>5. CASE \E a \in Address : RemoveIssuer(c, a)
    BY <2>5, RemoveIssuerSound
  <2>6. CASE \E a \in Address, v \in Amounts : Approve(c, a, v)
    BY <2>6, ApproveSound
  <2>7. CASE \/ \E a \in Admins : TransferAdminRight(c, a)
             \/ TogglePause(c)
             \/ \E n \in Limits : ChangeFreeDailyTxLimit(c, n)
    BY <2>7, SettingsSound
  <2> QED
    BY <1>3, <2>1, <2>2, <2>3, <2>4, <2>5, <2>6, <2>7, Zenon DEF OtherCall
<1>4. CASE Return
  BY <1>4, ReturnSound
<1>5. CASE Revert
  BY <1>5, RevertSound
<1>6. CASE NewBlock
  BY <1>6 DEF NewBlock, IInv, Now
<1>7. CASE UNCHANGED vars
  BY <1>7 DEF vars, IInv, Now
<1> QED
  BY <1>1, <1>2, <1>3, <1>4, <1>5, <1>6, <1>7, Zenon DEF Next, OtherSteps

\* The invariant holds throughout.
LEMMA Invariant == Spec => []IInv
<1>1. Init => IInv
  BY InitSound
<1>2. IInv /\ [Next]_vars => IInv'
  BY NextSound
<1> QED
  BY <1>1, <1>2, PTL DEF Spec

-----------------------------------------------------------------------------
\* No call, in any order and at any depth of callbacks and rollbacks, makes a
\* balance, the supply or a count negative or puts an unknown account where
\* the contract keeps one.
THEOREM TypeCorrect == Spec => []TypeOK
<1>1. IInv => TypeOK
  BY IInvImplies
<1> QED
  BY <1>1, Invariant, PTL

\* The supply always equals what the accounts hold: also while the receiver's
\* tokenFallback runs, after a failed one, and after self-transfers.
THEOREM SupplyIsBacked == Spec => []SupplyBacked
<1>1. IInv => SupplyBacked
  BY IInvImplies
<1> QED
  BY <1>1, Invariant, PTL

\* What was minted and not burnt, with what may still be minted, never exceeds
\* what the administrator's Approval events allow.
THEOREM MintingIsApproved == Spec => []MintedWithinApprovals
<1>1. IInv => MintedWithinApprovals
  BY IInvImplies
<1> QED
  BY <1>1, Invariant, PTL

\* The issuers are distinct, no more than their maximum, and the only ones
\* with an allowance.
THEOREM IssuersInOrder == Spec => []IssuersOK
<1>1. IInv => IssuersOK
  BY IInvImplies
<1> QED
  BY <1>1, Invariant, PTL
=============================================================================
