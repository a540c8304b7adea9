-------------------------- MODULE TransactionsProofs ------------------------
(***************************************************************************)
(* Proof that Transactions implements Ledger: for every set of accounts    *)
(* and contracts and every depth of nested calls, a transaction is one     *)
(* step to those outside.                                                  *)
(***************************************************************************)
EXTENDS Transactions, StableCoinProofs

-----------------------------------------------------------------------------
(* What a transaction of u may have done since o, when it has come to s.   *)

\* What is minted or may be, beyond what was approved.
Excess(s) == s.db.totalSupply + Total(s.db.allowances) - s.log.approved

\* No administrator has acted.
Keeps(o, s) ==
    /\ s.db.admin = o.db.admin
    /\ s.db.paused = o.db.paused
    /\ s.db.issuers = o.db.issuers
    /\ s.log.approved = o.log.approved
    /\ o.db.paused => /\ s.db.totalSupply = o.db.totalSupply
                      /\ s.db.balances = o.db.balances
    /\ \A a \in Address :
          \/ s.db.allowances[a] = o.db.allowances[a]
          \/ /\ Listed(o.db.issuers, a)
             /\ s.db.allowances[a] \in 0..o.db.allowances[a]

Follows(u, o, s) ==
    /\ o.db.admin \in Address \ {EOA_ZERO}
    /\ s.db.admin \in Address \ {EOA_ZERO}
    /\ \A w \in Users \ {u} : s.db.balances[w] >= o.db.balances[w]
    /\ s.db.balances[EOA_ZERO] = o.db.balances[EOA_ZERO]
    /\ Excess(s) <= Excess(o)
    /\ s.log.approved >= o.log.approved
    /\ o.db.admin \notin Contracts \cup {u} => Keeps(o, s)

\* The numbers in a sound state.
LEMMA SoundNumbers ==
    ASSUME NEW s, Sound(s)
    PROVE  /\ s.db.balances \in [Address -> Nat]
           /\ s.db.allowances \in [Address -> Int]
           /\ s.db.totalSupply \in Nat
           /\ Total(s.db.allowances) \in Nat
           /\ s.log.approved \in Nat
           /\ Excess(s) \in Int
<1>1. /\ s.db.balances \in [Address -> Nat]
      /\ s.db.allowances \in [Address -> Int]
      /\ s.db.totalSupply \in Nat
      /\ s.log.approved \in Nat
  BY DEF Sound, Snapshot, Storage, EventLog
<1>2. Total(s.db.allowances) \in Nat
  BY <1>1, TotalSplit, StableCoinAssumption
<1> QED
  BY <1>1, <1>2 DEF Excess

\* A transaction that has done nothing yet.
LEMMA FollowsItself ==
    ASSUME NEW s, Sound(s), s.db.admin \in Address \ {EOA_ZERO}, NEW u
    PROVE  Follows(u, s, s)
<1>1. /\ \A w \in Users \ {u} : s.db.balances[w] \in Nat
      /\ s.log.approved \in Nat /\ Excess(s) \in Int
  BY SoundNumbers, SMT DEF Users
<1> QED
  BY <1>1 DEF Follows, Keeps

\* What is done in two parts is done.
LEMMA FollowsOn ==
    ASSUME NEW o, NEW s, NEW t, Sound(o), Sound(s), Sound(t), NEW u,
           Follows(u, o, s), Follows(u, s, t)
    PROVE  Follows(u, o, t)
<1>1. /\ o.db.balances \in [Address -> Nat]
      /\ s.db.balances \in [Address -> Nat]
      /\ t.db.balances \in [Address -> Nat]
      /\ o.db.allowances \in [Address -> Int]
      /\ s.db.allowances \in [Address -> Int]
      /\ t.db.allowances \in [Address -> Int]
      /\ {o.log.approved, s.log.approved, t.log.approved} \subseteq Nat
      /\ {Excess(o), Excess(s), Excess(t)} \subseteq Int
  BY SoundNumbers
<1>2. \A w \in Users \ {u} : t.db.balances[w] >= o.db.balances[w]
  <2> SUFFICES ASSUME NEW w \in Users \ {u}
               PROVE  t.db.balances[w] >= o.db.balances[w]
    OBVIOUS
  <2>1. /\ s.db.balances[w] >= o.db.balances[w]
        /\ t.db.balances[w] >= s.db.balances[w]
    BY DEF Follows
  <2>2. /\ o.db.balances[w] \in Nat /\ s.db.balances[w] \in Nat
        /\ t.db.balances[w] \in Nat
    BY <1>1 DEF Users
  <2> QED
    BY <2>1, <2>2
<1>3. Excess(t) <= Excess(o) /\ t.log.approved >= o.log.approved
  BY <1>1 DEF Follows
<1>4. ASSUME o.db.admin \notin Contracts \cup {u}
      PROVE  Keeps(o, t)
  <2>1. Keeps(o, s) /\ Keeps(s, t)
    BY <1>4 DEF Follows, Keeps
  <2>2. ASSUME NEW a \in Address
        PROVE  \/ t.db.allowances[a] = o.db.allowances[a]
               \/ /\ Listed(o.db.issuers, a)
                  /\ t.db.allowances[a] \in 0..o.db.allowances[a]
    <3>1. /\ o.db.allowances[a] \in Int /\ s.db.allowances[a] \in Int
          /\ t.db.allowances[a] \in Int
      BY <1>1
    <3> QED
      BY <2>1, <3>1 DEF Keeps
  <2> QED
    BY <2>1, <2>2 DEF Keeps
<1> QED
  BY <1>2, <1>3, <1>4 DEF Follows

\* Only the storage and the approvals count.
LEMMA FollowsStorage ==
    ASSUME NEW u, NEW o, NEW s, NEW t, Follows(u, o, s),
           t.db = s.db, t.log.approved = s.log.approved
    PROVE  Follows(u, o, t)
BY DEF Follows, Keeps, Excess

-----------------------------------------------------------------------------
(* The calls of the coin, each by c, within a transaction of u.            *)

\* A call can be made by c, in a transaction of u.
Calls(u, c) ==
    /\ IInv
    /\ c \in Callers
    /\ u \in Users
    /\ c \in Contracts \cup {u}
    /\ db.admin \in Address \ {EOA_ZERO}

\* The numbers before the call; its caller is neither the zero address nor
\* a wallet of somebody else.
LEMMA CallParts ==
    ASSUME NEW u, NEW c, Calls(u, c)
    PROVE  /\ Sound(Now) /\ Now.db = db /\ Now.log = log
           /\ c \in Address /\ c # EOA_ZERO /\ c \notin Users \ {u}
           /\ EOA_ZERO \notin Users
           /\ db.balances \in [Address -> Nat]
           /\ db.allowances \in [Address -> Int]
           /\ db.totalSupply \in Nat
           /\ Total(db.allowances) \in Nat
           /\ log.approved \in Nat
<1>1. Sound(Now) /\ Now.db = db /\ Now.log = log
  BY DEF Calls, IInv, Now
<1>2. /\ db.balances \in [Address -> Nat]
      /\ db.allowances \in [Address -> Int]
      /\ db.totalSupply \in Nat
      /\ Total(db.allowances) \in Nat
      /\ log.approved \in Nat
  BY <1>1, SoundNumbers
<1>3. /\ c \in Address /\ c # EOA_ZERO /\ c \notin Users \ {u}
      /\ EOA_ZERO \notin Users
  BY StableCoinAssumption, CallersAreAccounts DEF Calls, Users
<1> QED
  BY <1>1, <1>2, <1>3

\* A call of the administrator that leaves the balances alone and creates
\* no more than it approves.
LEMMA AdminFollows ==
    ASSUME NEW u, NEW c, Calls(u, c), c = db.admin,
           db'.admin \in Address \ {EOA_ZERO},
           db'.balances = db.balances, Excess(Now') <= Excess(Now),
           log'.approved >= log.approved
    PROVE  Follows(u, Now, Now')
<1>1. /\ Now.db = db /\ Now.log = log
      /\ Now'.db = db' /\ Now'.log = log'
  BY DEF Now
<1>2. /\ db.admin \in Address \ {EOA_ZERO}
      /\ db.admin \in Contracts \cup {u}
  BY DEF Calls
<1>3. \A w \in Users \ {u} : db.balances[w] \in Nat
  BY CallParts, SMT DEF Users
<1> QED
  BY <1>1, <1>2, <1>3 DEF Follows

\* What a transfer does to one account.
LEMMA MoveAt ==
    ASSUME NEW f \in [Address -> Nat], NEW a \in Address, NEW b \in Address,
           NEW v \in Nat, NEW x \in Address \ {a}
    PROVE  Move(f, a, b, v)[x] = IF x = b THEN f[x] + v ELSE f[x]
<1> DEFINE g == [f EXCEPT ![a] = @ - v]
<1>1. g[x] = f[x] /\ DOMAIN g = Address
  OBVIOUS
<1>2. Move(f, a, b, v) = [g EXCEPT ![b] = @ + v]
  BY DEF Move
<1> HIDE DEF g
<1> QED
  BY <1>1, <1>2

LEMMA TransferFollows ==
    ASSUME NEW u, NEW c, Calls(u, c), NEW to \in Address, NEW v \in Amounts,
           Transfer(c, to, v)
    PROVE  Follows(u, Now, Now')
<1>1. /\ v \in Nat /\ to # EOA_ZERO /\ db.paused = FALSE
      /\ v <= db.balances[c]
  BY CallParts, StateParts, StableCoinAssumption DEF Transfer
<1>2. /\ db'.balances = Move(db.balances, c, to, v)
      /\ db'.admin = db.admin /\ db'.paused = db.paused
      /\ db'.issuers = db.issuers /\ db'.allowances = db.allowances
      /\ db'.totalSupply = db.totalSupply
  <2>1. db \in Storage
    BY CallParts, StateParts
  <2> DEFINE wl == [db.whitelist EXCEPT ![c] =
                       AfterTransfer(@, db.freeDailyTxLimit, blockHeight)]
             m == Move(db.balances, c, to, v)
  <2>2. db' = [db EXCEPT !.whitelist = wl, !.balances = m]
    BY DEF Transfer, Transferred
  <2> HIDE DEF wl, m
  <2>3. db'.balances = m
    BY <2>1, <2>2 DEF Storage
  <2> QED
    BY <2>1, <2>2, <2>3 DEF Storage, m
<1>3. log'.approved = log.approved
  <2>1. log \in EventLog
    BY CallParts, StateParts
  <2> QED
    BY <2>1 DEF Transfer, TransferEvent, EventLog
<1>4. \A w \in Users \ {u} : db'.balances[w] >= db.balances[w]
  <2> SUFFICES ASSUME NEW w \in Users \ {u}
               PROVE  db'.balances[w] >= db.balances[w]
    OBVIOUS
  <2>1. w \in Address \ {c} /\ db.balances[w] \in Nat
    BY CallParts, SMT DEF Users
  <2>2. db'.balances[w] = IF w = to THEN db.balances[w] + v
                                    ELSE db.balances[w]
    BY <1>1, <1>2, <2>1, CallParts, MoveAt
  <2> QED
    BY <1>1, <2>1, <2>2
<1>5. db'.balances[EOA_ZERO] = db.balances[EOA_ZERO]
  BY <1>1, <1>2, CallParts, MoveAt, StableCoinAssumption
<1>6. Excess(Now') = Excess(Now) /\ Excess(Now) \in Int
  BY <1>2, <1>3, CallParts, SoundNumbers DEF Excess, Now
<1>7. /\ Now.db = db /\ Now.log = log
      /\ Now'.db = db' /\ Now'.log = log'
  BY DEF Now
<1>8. db.admin \in Address \ {EOA_ZERO} /\ log.approved \in Nat
  BY CallParts DEF Calls
<1>9. Keeps(Now, Now')
  BY <1>1, <1>2, <1>3, <1>7 DEF Keeps
<1> QED
  BY <1>2, <1>3, <1>4, <1>5, <1>6, <1>7, <1>8, <1>9 DEF Follows

\* A call of another contract changes nothing by itself.
LEMMA CallContractFollows ==
    ASSUME NEW u, NEW c, Calls(u, c), UNCHANGED <<db, log>>
    PROVE  Follows(u, Now, Now')
<1>1. Now' = Now
  BY DEF Now
<1>2. Sound(Now) /\ Now.db.admin \in Address \ {EOA_ZERO}
  BY CallParts DEF Calls
<1> QED
  BY <1>1, <1>2, FollowsItself

\* A mint creates what its issuer's allowance loses.
LEMMA MintFollows ==
    ASSUME NEW u, NEW c, Calls(u, c), NEW to \in Address, NEW v \in Amounts,
           Mint(c, to, v)
    PROVE  Follows(u, Now, Now')
<1>1. /\ v \in Nat /\ to # EOA_ZERO /\ db.paused = FALSE
      /\ v <= db.allowances[c] /\ Listed(db.issuers, c)
      /\ c \in Address /\ c # EOA_ZERO
  <2>1. /\ v > 0 /\ to # EOA_ZERO /\ ~db.paused
        /\ v <= db.allowances[c] /\ Listed(db.issuers, c)
    BY DEF Mint, IsIssuer, Listed
  <2>2. c \in Address /\ c # EOA_ZERO /\ Sound(Now)
    BY CallParts
  <2>3. db.paused \in BOOLEAN
    BY <2>2, StateParts
  <2> QED
    BY <2>1, <2>2, <2>3, StableCoinAssumption
<1> DEFINE al == [db.allowances EXCEPT ![c] = db.allowances[c] - v]
           ba == [db.balances EXCEPT ![to] = db.balances[to] + v]
           wl == [db.whitelist EXCEPT ![to] = AfterMint(@, blockHeight)]
<1>2. db' = [db EXCEPT !.allowances = al, !.whitelist = wl,
                       !.totalSupply = db.totalSupply + v, !.balances = ba]
  BY DEF Mint, Minted
<1>3. \A a \in Address : al[a] = IF a = c THEN db.allowances[a] - v
                                          ELSE db.allowances[a]
  BY CallParts
<1>4. \A a \in Address : ba[a] = IF a = to THEN db.balances[a] + v
                                           ELSE db.balances[a]
  BY CallParts
<1>5. Total(al) = Total(db.allowances) - v
  <2>1. /\ db.allowances \in [Address -> Int] /\ c \in Address
        /\ db.allowances[c] - v \in Int /\ db.allowances[c] \in Nat
    BY <1>1, CallParts
  <2>2. Total(al) = Total(db.allowances) - Pos(db.allowances[c])
                        + Pos(db.allowances[c] - v)
    BY <2>1, TotalWrite, ZenonT(90)
  <2>3. /\ Pos(db.allowances[c]) = db.allowances[c]
        /\ Pos(db.allowances[c] - v) = db.allowances[c] - v
    BY <1>1, <2>1 DEF Pos
  <2>4. Total(db.allowances) \in Nat
    BY CallParts
  <2> HIDE DEF al
  <2> QED
    BY <1>1, <2>1, <2>2, <2>3, <2>4
<1> HIDE DEF al, ba, wl
<1>6. /\ db'.balances = ba /\ db'.allowances = al
      /\ db'.totalSupply = db.totalSupply + v
      /\ db'.admin = db.admin /\ db'.paused = db.paused
      /\ db'.issuers = db.issuers
  <2>1. db \in Storage
    BY CallParts, StateParts
  <2> QED
    BY <1>2, <2>1 DEF Storage
<1>7. log'.approved = log.approved
  <2>1. log \in EventLog
    BY CallParts, StateParts
  <2> QED
    BY <2>1 DEF Mint, TransferEvent, EventLog
<1>8. Excess(Now') = Excess(Now) /\ Excess(Now) \in Int
  <2>1. /\ db.totalSupply \in Nat /\ Total(db.allowances) \in Nat
        /\ log.approved \in Nat
    BY CallParts
  <2> QED
    BY <1>1, <1>5, <1>6, <1>7, <2>1 DEF Excess, Now
<1>9. /\ Now.db = db /\ Now.log = log
      /\ Now'.db = db' /\ Now'.log = log'
      /\ db.admin \in Address \ {EOA_ZERO} /\ log.approved \in Nat
  BY CallParts DEF Now, Calls
<1>10. \A w \in Users \ {u} : db'.balances[w] >= db.balances[w]
  <2>1. \A w \in Users \ {u} : w \in Address /\ db.balances[w] \in Nat
    BY CallParts, SMT DEF Users
  <2> QED
    BY <1>1, <1>4, <1>6, <2>1
<1>11. db'.balances[EOA_ZERO] = db.balances[EOA_ZERO]
  BY <1>1, <1>4, <1>6, StableCoinAssumption
<1>12. \A a \in Address :
          \/ db'.allowances[a] = db.allowances[a]
          \/ /\ Listed(db.issuers, a)
             /\ db'.allowances[a] \in 0..db.allowances[a]
  <2>1. db.allowances[c] \in Int
    BY <1>1, CallParts
  <2> QED
    BY <1>1, <1>3, <1>6, <2>1
<1>13. Keeps(Now, Now')
  BY <1>1, <1>6, <1>7, <1>9, <1>12 DEF Keeps
<1> QED
  BY <1>6, <1>7, <1>8, <1>9, <1>10, <1>11, <1>13 DEF Follows

\* A burn takes from its caller only.
LEMMA BurnFollows ==
    ASSUME NEW u, NEW c, Calls(u, c), NEW v \in Amounts, Burn(c, v)
    PROVE  Follows(u, Now, Now')
<1>1. /\ v \in Nat /\ db.paused = FALSE /\ c \in Address /\ c # EOA_ZERO
  BY CallParts, StateParts, StableCoinAssumption DEF Burn
<1> DEFINE ba == [db.balances EXCEPT ![c] = db.balances[c] - v]
<1>2. db' = [db EXCEPT !.totalSupply = db.totalSupply - v, !.balances = ba]
  BY DEF Burn
<1>3. \A a \in Address \ {c} : ba[a] = db.balances[a]
  BY CallParts
<1> HIDE DEF ba
<1>4. /\ db'.balances = ba /\ db'.allowances = db.allowances
      /\ db'.totalSupply = db.totalSupply - v
      /\ db'.admin = db.admin /\ db'.paused = db.paused
      /\ db'.issuers = db.issuers
  <2>1. db \in Storage
    BY CallParts, StateParts
  <2> QED
    BY <1>2, <2>1 DEF Storage
<1>5. log'.approved = log.approved
  <2>1. log \in EventLog
    BY CallParts, StateParts
  <2> QED
    BY <2>1 DEF Burn, TransferEvent, EventLog
<1>6. Excess(Now') <= Excess(Now)
  <2>1. /\ db.totalSupply \in Nat /\ Total(db.allowances) \in Nat
        /\ log.approved \in Nat
    BY CallParts
  <2> QED
    BY <1>1, <1>4, <1>5, <2>1 DEF Excess, Now
<1>7. /\ Now.db = db /\ Now.log = log
      /\ Now'.db = db' /\ Now'.log = log'
      /\ db.admin \in Address \ {EOA_ZERO} /\ log.approved \in Nat
  BY CallParts DEF Now, Calls
<1>8. \A w \in Users \ {u} : db'.balances[w] >= db.balances[w]
  <2>1. \A w \in Users \ {u} : w \in Address \ {c} /\ db.balances[w] \in Nat
    BY CallParts, SMT DEF Users
  <2> QED
    BY <1>3, <1>4, <2>1
<1>9. db'.balances[EOA_ZERO] = db.balances[EOA_ZERO]
  BY <1>1, <1>3, <1>4, StableCoinAssumption
<1>10. Keeps(Now, Now')
  BY <1>1, <1>4, <1>5, <1>7 DEF Keeps
<1> QED
  BY <1>4, <1>5, <1>6, <1>7, <1>8, <1>9, <1>10 DEF Follows

\* An issuer is added: neither supply nor allowances change.
LEMMA AddIssuerFollows ==
    ASSUME NEW u, NEW c, Calls(u, c), NEW x \in Address, AddIssuer(c, x)
    PROVE  Follows(u, Now, Now')
<1>1. c = db.admin /\ db' = [db EXCEPT !.issuers = Append(@, x)] /\ log' = log
  BY DEF AddIssuer
<1>2. db \in Storage
  BY CallParts, StateParts
<1>3. /\ db'.balances = db.balances /\ db'.allowances = db.allowances
      /\ db'.totalSupply = db.totalSupply /\ db'.admin = db.admin
  BY <1>1, <1>2 DEF Storage
<1>4. Excess(Now') = Excess(Now) /\ Excess(Now) \in Int
  BY <1>1, <1>3, CallParts, SoundNumbers DEF Excess, Now
<1>5. db.admin \in Address \ {EOA_ZERO} /\ log.approved \in Nat
  BY CallParts DEF Calls
<1> QED
  BY <1>1, <1>3, <1>4, <1>5, AdminFollows

\* A removal gives up what is left of an allowance.
LEMMA RemoveIssuerFollows ==
    ASSUME NEW u, NEW c, Calls(u, c), NEW x \in Address, RemoveIssuer(c, x)
    PROVE  Follows(u, Now, Now')
<1> DEFINE al == [db.allowances EXCEPT ![x] = 0]
           is == Without(db.issuers, x)
<1>1. /\ c = db.admin /\ log' = log
      /\ db' = [db EXCEPT !.issuers = is, !.allowances = al]
  BY DEF RemoveIssuer
<1>2. Total(al) <= Total(db.allowances) /\ Total(al) \in Nat
  <2>1. db.allowances \in [Address -> Int] /\ Total(db.allowances) \in Nat
    BY CallParts
  <2>2. /\ al \in [Address -> Int]
        /\ Total(al) = Total(db.allowances) - Pos(db.allowances[x]) + Pos(0)
    BY <2>1, TotalWrite
  <2>3. Pos(db.allowances[x]) \in Nat /\ Pos(0) = 0
    BY <2>1 DEF Pos
  <2>4. Total(al) \in Nat
    BY <2>2, TotalSplit
  <2> HIDE DEF al
  <2> QED
    BY <2>1, <2>2, <2>3, <2>4
<1> HIDE DEF al, is
<1>3. db \in Storage
  BY CallParts, StateParts
<1>4. /\ db'.balances = db.balances /\ db'.allowances = al
      /\ db'.totalSupply = db.totalSupply /\ db'.admin = db.admin
  BY <1>1, <1>3 DEF Storage
<1>5. /\ db.totalSupply \in Nat /\ Total(db.allowances) \in Nat
      /\ log.approved \in Nat
  BY CallParts
<1>6. Excess(Now') <= Excess(Now)
  <2>1. /\ Excess(Now') = db.totalSupply + Total(al) - log.approved
        /\ Excess(Now) = db.totalSupply + Total(db.allowances) - log.approved
    BY <1>1, <1>4, Zenon DEF Excess, Now
  <2> QED
    BY <1>2, <1>5, <2>1
<1>7. db.admin \in Address \ {EOA_ZERO}
  BY DEF Calls
<1> QED
  BY <1>1, <1>4, <1>5, <1>6, <1>7, AdminFollows

\* An approval creates no more than its event says.
LEMMA ApproveFollows ==
    ASSUME NEW u, NEW c, Calls(u, c), NEW x \in Address, NEW v \in Amounts,
           Approve(c, x, v)
    PROVE  Follows(u, Now, Now')
<1> DEFINE al == [db.allowances EXCEPT ![x] = v]
<1>1. c = db.admin /\ db' = [db EXCEPT !.allowances = al] /\ v \in Int
  BY StableCoinAssumption DEF Approve
<1>2. /\ Total(al) <= Total(db.allowances) + Pos(v)
      /\ Total(al) \in Nat /\ Pos(v) \in Nat
  <2>1. db.allowances \in [Address -> Int] /\ Total(db.allowances) \in Nat
    BY CallParts
  <2>2. /\ al \in [Address -> Int]
        /\ Total(al) = Total(db.allowances) - Pos(db.allowances[x]) + Pos(v)
    BY <1>1, <2>1, TotalWrite
  <2>3. Pos(db.allowances[x]) \in Nat /\ Pos(v) \in Nat
    BY <1>1, <2>1 DEF Pos
  <2>4. Total(al) \in Nat
    BY <2>2, TotalSplit
  <2> HIDE DEF al
  <2> QED
    BY <2>1, <2>2, <2>3, <2>4
<1> HIDE DEF al
<1>3. db \in Storage /\ log \in EventLog
  BY CallParts, StateParts
<1>4. /\ db'.balances = db.balances /\ db'.allowances = al
      /\ db'.totalSupply = db.totalSupply /\ db'.admin = db.admin
  BY <1>1, <1>3 DEF Storage
<1>5. log'.approved = log.approved + Pos(v)
  <2>1. log' = [log EXCEPT !.approved = log.approved + Pos(v)]
    BY DEF Approve, ApprovalEvent, Pos
  <2> QED
    BY <1>3, <2>1 DEF EventLog
<1>6. /\ db.totalSupply \in Nat /\ Total(db.allowances) \in Nat
      /\ log.approved \in Nat
  BY CallParts
<1>7. Excess(Now') <= Excess(Now) /\ log'.approved >= log.approved
  BY <1>2, <1>4, <1>5, <1>6 DEF Excess, Now
<1>8. db.admin \in Address \ {EOA_ZERO}
  BY DEF Calls
<1> QED
  BY <1>1, <1>4, <1>7, <1>8, AdminFollows

\* The administrator's other calls; the rights pass to an account.
LEMMA SettingsFollow ==
    ASSUME NEW u, NEW c, Calls(u, c),
           \/ \E a \in Admins : TransferAdminRight(c, a)
           \/ TogglePause(c)
           \/ \E n \in Limits : ChangeFreeDailyTxLimit(c, n)
    PROVE  Follows(u, Now, Now')
<1>1. /\ db \in Storage /\ db.admin \in Address \ {EOA_ZERO}
      /\ log.approved \in Nat
  BY CallParts, StateParts DEF Calls
<1>2. /\ c = db.admin /\ log' = log
      /\ db'.balances = db.balances /\ db'.allowances = db.allowances
      /\ db'.totalSupply = db.totalSupply
      /\ db'.admin \in Address \ {EOA_ZERO}
  <2>1. CASE \E a \in Admins : TransferAdminRight(c, a)
    BY <1>1, <2>1, StableCoinAssumption DEF TransferAdminRight, Storage
  <2>2. CASE TogglePause(c)
    <3> DEFINE b == ~db.paused
    <3>1. c = db.admin /\ db' = [db EXCEPT !.paused = b] /\ log' = log
      BY <2>2, Zenon DEF TogglePause
    <3> HIDE DEF b
    <3> QED
      BY <1>1, <3>1 DEF Storage
  <2>3. CASE \E n \in Limits : ChangeFreeDailyTxLimit(c, n)
    BY <1>1, <2>3 DEF ChangeFreeDailyTxLimit, Storage
  <2> QED
    BY <2>1, <2>2, <2>3
<1>3. Excess(Now') = Excess(Now) /\ Excess(Now) \in Int
  BY <1>2, CallParts, SoundNumbers DEF Excess, Now
<1> QED
  BY <1>1, <1>2, <1>3, AdminFollows

\* Every call.
LEMMA CallFollows ==
    ASSUME NEW u, NEW c, Calls(u, c), Called(c)
    PROVE  Follows(u, Now, Now')
<1>1. CASE \E to \in Address, v \in Amounts : Transfer(c, to, v)
  BY <1>1, TransferFollows
<1>2. CASE \E code \in Contracts : CallContract(c, code)
  BY <1>2, CallContractFollows DEF CallContract
<1>3. CASE \E to \in Address, v \in Amounts : Mint(c, to, v)
  BY <1>3, MintFollows
<1>4. CASE \E v \in Amounts : Burn(c, v)
  BY <1>4, BurnFollows
<1>5. CASE \E a \in Address : AddIssuer(c, a)
  BY <1>5, AddIssuerFollows
<1>6. CASE \E a \in Address : RemoveIssuer(c, a)
  BY <1>6, RemoveIssuerFollows
<1>7. CASE \E a \in Address, v \in Amounts : Approve(c, a, v)
  BY <1>7, ApproveFollows
<1>8. CASE \/ \E a \in Admins : TransferAdminRight(c, a)
           \/ TogglePause(c)
           \/ \E n \in Limits : ChangeFreeDailyTxLimit(c, n)
  BY <1>8, SettingsFollow
<1> QED
  BY <1>1, <1>2, <1>3, <1>4, <1>5, <1>6, <1>7, <1>8, Zenon
     DEF Called, OtherCall

-----------------------------------------------------------------------------
(* The invariant: the current state, and whatever a failure may bring      *)
(* back, is one to which the transaction in progress may have led.         *)

Chain(fs, s) ==
    fs # <<>> =>
        LET u == fs[1].caller
            o == fs[1].before
        IN  /\ u \in Users
            /\ Follows(u, o, s)
            /\ \A i \in DOMAIN fs : Follows(u, o, fs[i].before)

TxInv ==
    /\ IInv
    /\ db.admin # EOA_ZERO
    /\ ~Installed => ~db.paused
    /\ Chain(frames, Now)

\* The sender of the transaction in which c calls.
Sender(c) == IF frames = <<>> THEN c ELSE frames[1].caller

\* Whoever calls is that sender or a contract it has called.
LEMMA SenderCalls ==
    ASSUME TxInv, NEW c \in Callers, Installed
    PROVE  Calls(Sender(c), c)
<1>1. db.admin \in Address \ {EOA_ZERO}
  BY StateParts DEF TxInv, IInv, Installed
<1>2. CASE frames = <<>>
  BY <1>1, <1>2 DEF TxInv, Calls, Sender, Callers
<1>3. CASE frames # <<>>
  <2>1. Sender(c) \in Users
    BY <1>3 DEF TxInv, Chain, Sender
  <2>2. c \in Contracts
    <3>1. frames[Len(frames)] \in Frame
      BY <1>3, SoundPop DEF TxInv, IInv
    <3> QED
      BY <1>3, <3>1 DEF Callers, Frame
  <2> QED
    BY <1>1, <2>1, <2>2 DEF TxInv, Calls
<1> QED
  BY <1>2, <1>3

\* Only an installed coin takes calls.
LEMMA CalledInstalled ==
    ASSUME IInv, NEW c \in Callers, Called(c)
    PROVE  Installed
<1>1. c # Null
  BY CallersAreAccounts, StableCoinAssumption
<1>2. CASE \/ \E to \in Address, v \in Amounts : Transfer(c, to, v)
           \/ \E code \in Contracts : CallContract(c, code)
           \/ \E to \in Address, v \in Amounts : Mint(c, to, v)
           \/ \E v \in Amounts : Burn(c, v)
  BY <1>2 DEF Transfer, CallContract, Mint, Burn
<1>3. CASE c = db.admin
  BY <1>1, <1>3 DEF Installed
<1>4. Called(c) =>
          \/ c = db.admin
          \/ \E to \in Address, v \in Amounts : Transfer(c, to, v)
          \/ \E code \in Contracts : CallContract(c, code)
          \/ \E to \in Address, v \in Amounts : Mint(c, to, v)
          \/ \E v \in Amounts : Burn(c, v)
  BY Zenon DEF Called, OtherCall, AddIssuer, RemoveIssuer, Approve,
               TransferAdminRight, TogglePause, ChangeFreeDailyTxLimit
<1> QED
  BY <1>2, <1>3, <1>4

\* A call leaves the stack alone or puts itself on it.
LEMMA CalledFrames ==
    ASSUME NEW c, Called(c)
    PROVE  \/ frames' = frames
           \/ \E code, v : frames' = Push(code, c, v)
<1>1. ASSUME NEW to, NEW v, Transfer(c, to, v)
      PROVE  frames' = frames \/ frames' = Push(to, c, v)
  BY <1>1 DEF Transfer
<1>2. ASSUME NEW code, CallContract(c, code)
      PROVE  frames' = Push(code, c, 0)
  BY <1>2 DEF CallContract
<1>3. Called(c) =>
          \/ \E to, v : Transfer(c, to, v)
          \/ \E code : CallContract(c, code)
          \/ frames' = frames
  BY Zenon DEF Called, OtherCall, Mint, Burn, AddIssuer, RemoveIssuer, Approve,
               TransferAdminRight, TogglePause, ChangeFreeDailyTxLimit
<1> QED
  BY <1>1, <1>2, <1>3, Zenon

\* Every step is one of the coin.
LEMMA TxNextIsNext ==
    ASSUME TxNext
    PROVE  Next
BY Zenon DEF TxNext, Next, Transfers, OtherSteps, Called, Ended

-----------------------------------------------------------------------------
(* The steps as the ledger sees them.                                      *)

\* The state seen, by whether a transaction is in progress.
LEMMA AtFirst ==
    ASSUME frames \in Seq(Frame)
    PROVE  At(1) = IF frames = <<>> THEN Now ELSE frames[1].before
<1>1. frames = <<>> => 1 \notin DOMAIN frames
  OBVIOUS
<1>2. frames # <<>> => 1 \in DOMAIN frames
  BY EmptySeq
<1> QED
  BY <1>1, <1>2 DEF At

LEMMA AtFirstNext ==
    ASSUME frames' \in Seq(Frame)
    PROVE  At(1)' = IF frames' = <<>> THEN Now' ELSE frames'[1].before
<1>1. frames' = <<>> => 1 \notin DOMAIN frames'
  OBVIOUS
<1>2. frames' # <<>> => 1 \in DOMAIN frames'
  BY EmptySeq
<1> QED
  BY <1>1, <1>2 DEF At

\* Where nothing else is seen, the ledger stands still.
LEMMA Unseen ==
    ASSUME At(1)' = At(1), signer' = signer
    PROVE  UNCHANGED Outside!vars
BY DEF Outside!vars

\* What follows from the state seen is a transaction of the ledger.
LEMMA LedgerStep ==
    ASSUME NEW u \in Users, signer' = u, Sound(At(1)), Sound(At(1)'),
           Follows(u, At(1), At(1)')
    PROVE  Outside!Transaction(u)
<1>1. \A f : Outside!Total(f) = Total(f)
  BY DEF Outside!Total, Total, Outside!Cardinality, Cardinality
<1>2. At(1).db.admin # Null
  BY StableCoinAssumption DEF Follows
<1>3. Outside!Moves(u)
  <2>1. /\ At(1)'.db.balances \in [Address -> Nat]
        /\ At(1)'.db.totalSupply = Total(At(1)'.db.balances)
    BY SoundNumbers, Zenon DEF Sound, Backed
  <2>2. /\ At(1)'.db.totalSupply + Total(At(1)'.db.allowances)
               - At(1)'.log.approved
            <= At(1).db.totalSupply + Total(At(1).db.allowances)
               - At(1).log.approved
    BY DEF Follows, Excess
  <2>3. /\ \A w \in Users \ {u} :
               At(1)'.db.balances[w] >= At(1).db.balances[w]
        /\ At(1)'.db.balances[EOA_ZERO] = At(1).db.balances[EOA_ZERO]
    BY DEF Follows
  <2> QED
    BY <1>1, <2>1, <2>2, <2>3, Zenon DEF Outside!Moves
<1>4. CASE At(1).db.admin \in Contracts \cup {u}
  <2>1. At(1)' \in Snapshot /\ Orderly(At(1)')
    BY DEF Sound
  <2>2. Outside!Administered
    <3>1. /\ At(1)'.db.admin \in Address \ {EOA_ZERO}
          /\ At(1)'.db.paused \in BOOLEAN
          /\ At(1)'.db.issuers \in Seq(Address)
          /\ At(1)'.log.approved >= At(1).log.approved
      BY <2>1 DEF Follows, Snapshot, Storage
    <3>2. {At(1)'.db.issuers[i] : i \in DOMAIN At(1)'.db.issuers}
              \subseteq Address
      BY <3>1
    <3>3. \A a \in Address
               \ {At(1)'.db.issuers[i] : i \in DOMAIN At(1)'.db.issuers} :
              At(1)'.db.allowances[a] = 0
      BY <2>1 DEF Orderly, Listed
    <3> QED
      BY <3>1, <3>2, <3>3 DEF Outside!Administered
  <2> QED
    BY <1>2, <1>3, <1>4, <2>2 DEF Outside!Transaction
<1>5. CASE At(1).db.admin \notin Contracts \cup {u}
  <2>1. Keeps(At(1), At(1)')
    BY <1>5 DEF Follows
  <2>2. Outside!Unadministered
    BY <2>1 DEF Keeps, Listed, Outside!Unadministered
  <2> QED
    BY <1>2, <1>3, <1>5, <2>2 DEF Outside!Transaction
<1> QED
  BY <1>4, <1>5

\* A call ends a transaction that it is the whole of; otherwise it begins
\* one, or is part of one, and is not seen.
LEMMA CalledStep ==
    ASSUME TxInv, TxInv', NEW c \in Callers, Called(c)
    PROVE  Outside!Next \/ UNCHANGED Outside!vars
<1>1. /\ frames \in Seq(Frame) /\ frames' \in Seq(Frame)
      /\ Sound(Now) /\ Sound(Now')
  BY DEF TxInv, IInv, SoundStack
<1>2. Installed /\ Calls(Sender(c), c)
  BY CalledInstalled, SenderCalls DEF TxInv
<1>3. Follows(Sender(c), Now, Now')
  BY <1>2, CallFollows
<1>4. CASE frames = <<>> /\ frames' = <<>>
  <2>1. At(1) = Now /\ At(1)' = Now' /\ Sender(c) = c
    BY <1>1, <1>4, AtFirst, AtFirstNext DEF Sender
  <2>2. signer' = c /\ c \in Users
    BY <1>4 DEF Called, Callers
  <2>3. Outside!Transaction(c)
    BY <1>1, <1>3, <2>1, <2>2, LedgerStep
  <2> QED
    BY <2>2, <2>3 DEF Outside!Next
<1>5. CASE ~(frames = <<>> /\ frames' = <<>>)
  <2>1. signer' = signer
    BY <1>5 DEF Called
  <2>2. CASE frames' = frames
    <3>1. At(1)' = At(1)
      BY <1>1, <1>5, <2>2, AtFirst, AtFirstNext
    <3> QED
      BY <2>1, <3>1, Unseen
  <2>3. ASSUME NEW code, NEW v, frames' = Push(code, c, v)
        PROVE  UNCHANGED Outside!vars
    <3> DEFINE f == [code |-> code, caller |-> c, value |-> v, before |-> Now]
    <3>1. frames' = Append(frames, f) /\ f.before = Now
      BY <2>3 DEF Push
    <3> HIDE DEF f
    <3>2. frames' # <<>>
      BY <1>1, <3>1
    <3>3. CASE frames = <<>>
      <4>1. frames'[1] = f
        BY <3>1, <3>3
      <4>2. At(1)' = At(1)
        BY <1>1, <3>1, <3>2, <3>3, <4>1, AtFirst, AtFirstNext
      <4> QED
        BY <2>1, <4>2, Unseen
    <3>4. CASE frames # <<>>
      <4>1. frames'[1] = frames[1]
        <5>1. 1 \in 1..Len(frames)
          BY <1>1, <3>4, EmptySeq
        <5> QED
          BY <1>1, <3>1, <5>1
      <4>2. At(1)' = At(1)
        BY <1>1, <3>2, <3>4, <4>1, AtFirst, AtFirstNext
      <4> QED
        BY <2>1, <4>2, Unseen
    <3> QED
      BY <3>3, <3>4
  <2> QED
    BY <2>2, <2>3, CalledFrames
<1> QED
  BY <1>4, <1>5

\* The state that a return or a failure leaves follows from the one in
\* which the transaction began.
LEMMA EndedFollows ==
    ASSUME TxInv, IInv', Ended
    PROVE  /\ frames # <<>> /\ frames' = Pop /\ frames[1].caller \in Users
           /\ Follows(frames[1].caller, frames[1].before, Now')
<1>1. frames # <<>> /\ frames' = Pop
  BY DEF Ended, Return, Revert
<1>2. /\ frames[1].caller \in Users
      /\ Follows(frames[1].caller, frames[1].before, Now)
      /\ \A i \in DOMAIN frames :
            Follows(frames[1].caller, frames[1].before, frames[i].before)
  BY <1>1 DEF TxInv, Chain
<1>3. Now.db = db /\ Now.log = log /\ Now'.db = db' /\ Now'.log = log'
  BY DEF Now
<1>4. CASE Return
  <2>1. Now'.db = Now.db /\ Now'.log.approved = Now.log.approved
    <3>1. log \in EventLog
      BY StateParts DEF TxInv, IInv
    <3> QED
      BY <1>3, <1>4, <3>1 DEF Return, TransferEvent, EventLog
  <2> QED
    BY <1>1, <1>2, <2>1, FollowsStorage
<1>5. CASE Revert
  <2> DEFINE b == frames[Len(frames)].before
  <2>1. Now'.db = b.db /\ Now'.log.approved = b.log.approved
    BY <1>3, <1>5 DEF Revert
  <2>2. Len(frames) \in DOMAIN frames
    BY <1>1, EmptySeq DEF TxInv, IInv, SoundStack
  <2>3. Follows(frames[1].caller, frames[1].before, b)
    BY <1>2, <2>2
  <2> HIDE DEF b
  <2> QED
    BY <1>1, <1>2, <2>1, <2>3, FollowsStorage
<1> QED
  BY <1>4, <1>5 DEF Ended

\* The first of several calls stays where it was when the last one ends.
LEMMA PopFirst ==
    ASSUME NEW fs \in Seq(Frame), fs # <<>>
    PROVE  LET p == SubSeq(fs, 1, Len(fs) - 1)
           IN  /\ p \in Seq(Frame)
               /\ p = <<>> <=> Len(fs) = 1
               /\ p # <<>> => p[1] = fs[1]
               /\ DOMAIN p \subseteq DOMAIN fs
               /\ \A i \in DOMAIN p : p[i] = fs[i]
<1> DEFINE p == SubSeq(fs, 1, Len(fs) - 1)
<1>1. Len(fs) \in Nat \ {0} /\ DOMAIN fs = 1..Len(fs)
  BY EmptySeq
<1>2. \A i \in 1..(Len(fs) - 1) : fs[i] \in Frame
  BY <1>1
<1>3. /\ p \in Seq(Frame) /\ Len(p) = Len(fs) - 1
      /\ \A i \in 1..(Len(fs) - 1) : p[i] = fs[i]
  BY <1>1, <1>2, SubSeqProperties
<1> HIDE DEF p
<1>4. DOMAIN p = 1..(Len(fs) - 1) /\ (p = <<>> <=> Len(p) = 0)
  BY <1>3, EmptySeq
<1> QED
  BY <1>1, <1>3, <1>4 DEF p

\* The end of the outermost call is the transaction; that of an inner one is
\* not seen.
LEMMA EndedStep ==
    ASSUME TxInv, TxInv', Ended
    PROVE  Outside!Next \/ UNCHANGED Outside!vars
<1> DEFINE u == frames[1].caller
<1>1. /\ frames \in Seq(Frame) /\ frames' \in Seq(Frame)
      /\ Sound(Now') /\ SoundStack(frames)
  BY DEF TxInv, IInv, SoundStack
<1>2. /\ frames # <<>> /\ frames' = Pop /\ u \in Users
      /\ Follows(u, frames[1].before, Now')
  BY EndedFollows DEF TxInv
<1>3. At(1) = frames[1].before
  BY <1>1, <1>2, AtFirst
<1>4. CASE Len(frames) = 1
  <2>1. frames' = <<>>
    BY <1>1, <1>2, <1>4, PopFirst DEF Pop
  <2>2. At(1)' = Now'
    BY <1>1, <2>1, AtFirstNext
  <2>3. Sound(frames[1].before)
    BY <1>1, <1>4 DEF SoundStack
  <2>4. signer' = u
    BY <1>4 DEF Ended
  <2>5. Outside!Transaction(u)
    <3> HIDE DEF u
    <3> QED
      BY <1>1, <1>2, <1>3, <2>2, <2>3, <2>4, LedgerStep
  <2> QED
    BY <1>2, <2>5 DEF Outside!Next
<1>5. CASE Len(frames) # 1
  <2>1. frames' # <<>> /\ frames'[1] = frames[1]
    BY <1>1, <1>2, <1>5, PopFirst DEF Pop
  <2>2. At(1)' = At(1)
    BY <1>1, <1>3, <2>1, AtFirstNext
  <2>3. signer' = signer
    BY <1>5 DEF Ended
  <2> QED
    BY <2>2, <2>3, Unseen
<1> QED
  BY <1>4, <1>5

-----------------------------------------------------------------------------
(* The invariant is kept.                                                  *)

\* A call takes the transaction in progress on, or begins one.
LEMMA CalledKeeps ==
    ASSUME TxInv, IInv', NEW c \in Callers, Called(c)
    PROVE  TxInv'
<1> DEFINE u == Sender(c)
<1>1. /\ frames \in Seq(Frame) /\ frames' \in Seq(Frame)
      /\ Sound(Now) /\ Sound(Now') /\ SoundStack(frames)
      /\ Now.db = db /\ Now'.db = db'
  BY DEF TxInv, IInv, SoundStack, Now
<1>2. Calls(u, c)
  BY CalledInstalled, SenderCalls DEF TxInv
<1>3. Follows(u, Now, Now') /\ u \in Users
  BY <1>2, CallFollows DEF Calls
<1>4. Follows(u, Now, Now)
  BY <1>1, <1>2, FollowsItself DEF Calls
<1>5. db'.admin \in Address \ {EOA_ZERO}
  BY <1>1, <1>3 DEF Follows
<1>6. ASSUME frames # <<>>
      PROVE  /\ u = frames[1].caller
             /\ Follows(u, frames[1].before, Now)
             /\ Follows(u, frames[1].before, Now')
             /\ \A i \in DOMAIN frames :
                   Follows(u, frames[1].before, frames[i].before)
  <2>1. /\ u = frames[1].caller
        /\ Follows(u, frames[1].before, Now)
        /\ \A i \in DOMAIN frames :
              Follows(u, frames[1].before, frames[i].before)
    BY <1>6 DEF TxInv, Chain, Sender
  <2>2. Sound(frames[1].before)
    <3>1. 1 \in DOMAIN frames
      BY <1>1, <1>6, EmptySeq
    <3> QED
      BY <1>1, <3>1 DEF SoundStack
  <2> HIDE DEF u
  <2>3. Follows(u, frames[1].before, Now')
    BY <1>1, <1>3, <2>1, <2>2, FollowsOn
  <2> QED
    BY <2>1, <2>3
<1>7. Chain(frames', Now')
  <2> HIDE DEF u
  <2>1. CASE frames' = frames
    BY <1>3, <1>6, <2>1, Zenon DEF Chain
  <2>2. ASSUME NEW code, NEW v, frames' = Push(code, c, v)
        PROVE  Chain(frames', Now')
    <3> DEFINE f == [code |-> code, caller |-> c, value |-> v, before |-> Now]
    <3>1. frames' = Append(frames, f) /\ f.before = Now /\ f.caller = c
      BY <2>2 DEF Push
    <3> HIDE DEF f
    <3>2. CASE frames = <<>>
      <4>1. u = c
        BY <3>2 DEF u, Sender
      <4>2. frames' = <<f>>
        BY <3>1, <3>2
      <4>3. /\ frames'[1] = f
            /\ \A i \in DOMAIN frames' : frames'[i] = f
        BY <4>2
      <4> QED
        BY <1>3, <1>4, <3>1, <4>1, <4>3 DEF Chain
    <3>3. CASE frames # <<>>
      <4>1. /\ frames'[1] = frames[1]
            /\ \A i \in DOMAIN frames' :
                  \/ frames'[i] = f
                  \/ i \in DOMAIN frames /\ frames'[i] = frames[i]
        <5>1. Len(frames) \in Nat \ {0} /\ DOMAIN frames = 1..Len(frames)
          BY <1>1, <3>3, EmptySeq
        <5>2. /\ \A i \in 1..Len(frames) : frames'[i] = frames[i]
              /\ frames'[Len(frames) + 1] = f
          BY <1>1, <3>1, <5>1
        <5>3. DOMAIN frames' = 1..(Len(frames) + 1)
          BY <1>1, <3>1, <5>1
        <5> QED
          BY <5>1, <5>2, <5>3
      <4> QED
        BY <1>3, <1>6, <3>1, <3>3, <4>1, Zenon DEF Chain
    <3> QED
      BY <3>2, <3>3
  <2> QED
    BY <2>1, <2>2, CalledFrames
<1> QED
  BY <1>5, <1>7, StableCoinAssumption DEF TxInv, Installed

\* So does the end of one.
LEMMA EndedKeeps ==
    ASSUME TxInv, IInv', Ended
    PROVE  TxInv'
<1> DEFINE u == frames[1].caller
           o == frames[1].before
<1>1. /\ frames # <<>> /\ frames' = Pop /\ u \in Users
      /\ Follows(u, o, Now')
  BY EndedFollows
<1>2. frames \in Seq(Frame) /\ Now'.db = db'
  BY DEF TxInv, IInv, SoundStack, Now
<1>3. \A i \in DOMAIN frames : Follows(u, o, frames[i].before)
  BY <1>1 DEF TxInv, Chain
<1>4. db'.admin \in Address \ {EOA_ZERO}
  BY <1>1, <1>2 DEF Follows
<1>5. Chain(frames', Now')
  <2> SUFFICES ASSUME frames' # <<>>
               PROVE  Chain(frames', Now')
    BY DEF Chain
  <2>1. /\ frames'[1] = frames[1]
        /\ DOMAIN frames' \subseteq DOMAIN frames
        /\ \A i \in DOMAIN frames' : frames'[i] = frames[i]
    BY <1>1, <1>2, PopFirst DEF Pop
  <2>2. \A i \in DOMAIN frames' : Follows(u, o, frames'[i].before)
    BY <1>3, <2>1
  <2>3. frames'[1].caller = u /\ frames'[1].before = o
    BY <2>1
  <2> HIDE DEF u, o
  <2> QED
    BY <1>1, <2>2, <2>3 DEF Chain
<1> QED
  BY <1>4, <1>5, StableCoinAssumption DEF TxInv, Installed

\* A deployment is a step of the ledger; an update is none.
LEMMA ConstructorStep ==
    ASSUME TxInv, IInv', NEW n \in IssuerCaps, NEW a \in Admins,
           Constructor(n, a), signer' = signer
    PROVE  TxInv' /\ (Outside!Next \/ UNCHANGED Outside!vars)
<1>1. /\ frames = <<>> /\ frames' = <<>> /\ log' = log
      /\ frames \in Seq(Frame) /\ frames' \in Seq(Frame)
  BY DEF Constructor
<1>2. At(1) = Now /\ At(1)' = Now'
  BY <1>1, AtFirst, AtFirstNext
<1>3. Chain(frames', Now')
  BY <1>1 DEF Chain
<1>4. CASE Installed /\ UNCHANGED db
  <2>1. Now' = Now
    BY <1>1, <1>4 DEF Now
  <2>2. TxInv'
    BY <1>3, <1>4 DEF TxInv, Installed
  <2> QED
    BY <1>2, <2>1, <2>2, Unseen
<1>5. CASE ~Installed
  <2> DEFINE cap == IF n = 0 THEN 2 ELSE n
  <2>1. /\ db' = [db EXCEPT !.admin = a, !.nIssuers = cap, !.totalSupply = 0,
                            !.paused = FALSE,
                            !.freeDailyTxLimit = DefaultFreeLimit]
        /\ a \in Address \ {EOA_ZERO}
    BY <1>5, StableCoinAssumption DEF Constructor
  <2> HIDE DEF cap
  <2>2. /\ db \in Storage /\ db.admin = Null /\ db.totalSupply = 0
        /\ db.paused = FALSE
    <3>1. Sound(Now) /\ Now.db = db
      BY DEF TxInv, IInv, Now
    <3>2. db \in Storage /\ db.paused \in BOOLEAN
      BY <3>1, StateParts
    <3> QED
      BY <1>5, <3>1, <3>2 DEF Sound, Fresh, Installed, TxInv
  <2>3. /\ db'.admin = a /\ db'.totalSupply = db.totalSupply
        /\ db'.paused = FALSE /\ db'.issuers = db.issuers
        /\ db'.balances = db.balances /\ db'.allowances = db.allowances
    BY <2>1, <2>2 DEF Storage
  <2>4. TxInv'
    BY <1>3, <2>1, <2>3, StableCoinAssumption DEF TxInv, Installed
  <2>5. /\ Now.db = db /\ Now.log = log /\ Now'.db = db' /\ Now'.log = log
    BY <1>1 DEF Now
  <2>6. Outside!Deploy
    <3>1. /\ At(1).db = db /\ At(1)'.db = db'
          /\ At(1)'.log.approved = At(1).log.approved
      BY <1>2, <2>5
    <3>2. /\ At(1).db.admin = Null
          /\ At(1)'.db.admin \in Address \ {EOA_ZERO}
          /\ At(1)'.db.paused = At(1).db.paused
          /\ At(1)'.db.issuers = At(1).db.issuers
          /\ At(1)'.db.totalSupply = At(1).db.totalSupply
          /\ At(1)'.db.balances = At(1).db.balances
          /\ At(1)'.db.allowances = At(1).db.allowances
      BY <2>1, <2>2, <2>3, <3>1
    <3> QED
      BY <3>1, <3>2, Zenon DEF Outside!Deploy
  <2> QED
    BY <2>4, <2>6 DEF Outside!Next
<1> QED
  BY <1>4, <1>5 DEF Constructor

\* Initially nothing is deployed, and the ledger is empty.
LEMMA TxInitStep ==
    ASSUME TxInit
    PROVE  TxInv /\ Outside!Init
<1>1. Init /\ signer = Null
  BY DEF TxInit
<1>2. IInv
  BY <1>1, InitSound
<1>3. frames = <<>> /\ frames \in Seq(Frame)
  BY <1>1 DEF Init
<1>4. At(1) = Now
  BY <1>3, AtFirst
<1>5. TxInv
  BY <1>1, <1>2, <1>3, StableCoinAssumption
     DEF Init, TxInv, Installed, Chain
<1>6. Outside!Init
  <2>1. /\ Now.db.admin = Null /\ Now.db.paused = FALSE
        /\ Now.db.issuers = <<>> /\ Now.db.totalSupply = 0
        /\ Now.db.balances = [a \in Address |-> 0]
        /\ Now.db.allowances = [a \in Address |-> 0]
        /\ Now.log.approved = 0
    BY <1>1 DEF Init, Now
  <2> QED
    BY <1>1, <1>4, <2>1 DEF Outside!Init
<1> QED
  BY <1>5, <1>6

\* Every step keeps the invariant and is a step of the ledger, or not seen.
LEMMA TxNextStep ==
    ASSUME TxInv, [TxNext]_<<vars, signer>>
    PROVE  TxInv' /\ [Outside!Next]_Outside!vars
<1>1. IInv'
  BY TxNextIsNext, NextSound DEF TxInv, vars
<1>2. ASSUME NEW c \in Callers, Called(c)
      PROVE  TxInv' /\ (Outside!Next \/ UNCHANGED Outside!vars)
  BY <1>1, <1>2, CalledKeeps, CalledStep
<1>3. CASE Ended
  BY <1>1, <1>3, EndedKeeps, EndedStep
<1>4. CASE /\ \E n \in IssuerCaps, a \in Admins : Constructor(n, a)
           /\ signer' = signer
  BY <1>1, <1>4, ConstructorStep
<1>5. CASE UNCHANGED <<db, log, frames, signer>>
  <2>1. Now' = Now /\ At(1)' = At(1)
    BY <1>5 DEF Now, At
  <2>2. TxInv'
    BY <1>1, <1>5, <2>1 DEF TxInv, Installed, Chain
  <2> QED
    BY <1>5, <2>1, <2>2, Unseen
<1> QED
  BY <1>2, <1>3, <1>4, <1>5 DEF TxNext, NewBlock, vars

-----------------------------------------------------------------------------
\* Transactions are atomic to those outside, for every set of accounts and
\* contracts, every administrator and every depth of callbacks, completed or
\* rolled back: the coin implements the ledger.
THEOREM Atomicity == TxSpec => TransactionsAreAtomic
<1>1. TxInit => TxInv /\ Outside!Init
  BY TxInitStep
<1>2. TxInv /\ [TxNext]_<<vars, signer>>
          => TxInv' /\ [Outside!Next]_Outside!vars
  BY TxNextStep
<1> QED
  BY <1>1, <1>2, PTL DEF TxSpec, TransactionsAreAtomic, Outside!Spec
=============================================================================
