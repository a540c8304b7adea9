--------------------------- MODULE CallbackProofs ---------------------------
(***************************************************************************)
(* Proofs about what the receivers of a transfer can do while it is in     *)
(* progress: the log owes exactly the transfers still open, no callback    *)
(* administers the coin, and no wallet pays for one.  For every set of     *)
(* accounts and contracts and every depth of nested calls.                 *)
(***************************************************************************)
EXTENDS StableCoinProofs

-----------------------------------------------------------------------------
(* The saved states.                                                       *)

\* Does the call f take v from account a, or give it to it?
Taken(f, a) == IF a = f.caller THEN f.value ELSE 0
Given(f, a) == IF a = f.code THEN f.value ELSE 0

\* The calls in progress are numbered from 1.
LEMMA StackDomain ==
    ASSUME NEW fs \in Seq(Frame)
    PROVE  /\ Len(fs) \in Nat
           /\ DOMAIN fs = 1..Len(fs)
           /\ fs = <<>> <=> Len(fs) = 0
BY EmptySeq

\* The states the contract was in when each call began, and now, are sound.
LEMMA SavedSound ==
    ASSUME IInv, NEW i
    PROVE  Sound(At(i))
BY DEF IInv, At, SoundStack

\* The state after the last call in progress began is the current one.
LEMMA AtLast ==
    ASSUME IInv
    PROVE  At(Len(frames) + 1) = Now
<1>1. frames \in Seq(Frame)
  BY DEF IInv, SoundStack
<1> QED
  BY <1>1, StackDomain DEF At

\* A new call in progress saves the current state; the older ones keep what
\* they are and what they saved.
LEMMA AtPush ==
    ASSUME IInv, NEW f \in Frame, f.before = Now, frames' = Append(frames, f)
    PROVE  /\ frames' \in Seq(Frame)
           /\ Len(frames') = Len(frames) + 1
           /\ frames'[Len(frames) + 1] = f
           /\ \A i \in DOMAIN frames : frames'[i] = frames[i]
           /\ \A i \in DOMAIN frames' : At(i)' = At(i)
           /\ \A i : i \notin DOMAIN frames' => At(i)' = Now'
<1>1. frames \in Seq(Frame)
  BY DEF IInv, SoundStack
<1>2. /\ frames' \in Seq(Frame)
      /\ Len(frames') = Len(frames) + 1
      /\ \A i \in 1..Len(frames) : frames'[i] = frames[i]
      /\ frames'[Len(frames) + 1] = f
  BY <1>1, AppendProperties
<1>3. /\ Len(frames) \in Nat /\ DOMAIN frames = 1..Len(frames)
      /\ DOMAIN frames' = 1..(Len(frames) + 1)
  BY <1>1, <1>2, StackDomain
<1>4. ASSUME NEW i \in DOMAIN frames'
      PROVE  At(i)' = At(i)
  <2>1. CASE i \in DOMAIN frames
    BY <1>2, <1>3, <1>4, <2>1 DEF At
  <2>2. CASE i \notin DOMAIN frames
    <3>1. i = Len(frames) + 1
      BY <1>3, <1>4, <2>2
    <3> QED
      BY <1>2, <1>4, <2>2, <3>1 DEF At
  <2> QED
    BY <2>1, <2>2
<1>5. \A i : i \notin DOMAIN frames' => At(i)' = Now'
  BY DEF At
<1> QED
  BY <1>2, <1>3, <1>4, <1>5

\* Ending the last one leaves the others as they are.
LEMMA AtPop ==
    ASSUME IInv, frames # <<>>, frames' = Pop
    PROVE  /\ frames' \in Seq(Frame)
           /\ Len(frames') = Len(frames) - 1
           /\ frames[Len(frames)] \in Frame
           /\ At(Len(frames)) = frames[Len(frames)].before
           /\ \A i \in DOMAIN frames' : frames'[i] = frames[i]
           /\ \A i \in DOMAIN frames' : At(i)' = At(i)
           /\ \A i : i \notin DOMAIN frames' => At(i)' = Now'
<1>1. frames \in Seq(Frame)
  BY DEF IInv, SoundStack
<1>2. /\ Len(frames) \in Nat \ {0} /\ DOMAIN frames = 1..Len(frames)
      /\ \A i \in 1..(Len(frames) - 1) : frames[i] \in Frame
  BY <1>1, StackDomain
<1>3. /\ frames' \in Seq(Frame) /\ Len(frames') = Len(frames) - 1
      /\ \A i \in 1..(Len(frames) - 1) : frames'[i] = frames[i]
  BY <1>1, <1>2, SubSeqProperties DEF Pop
<1>4. DOMAIN frames' = 1..(Len(frames) - 1)
  BY <1>2, <1>3, StackDomain
<1>5. \A i \in DOMAIN frames' : i \in DOMAIN frames
  BY <1>2, <1>4
<1>6. \A i \in DOMAIN frames' : At(i)' = At(i)
  BY <1>3, <1>4, <1>5 DEF At
<1>7. \A i : i \notin DOMAIN frames' => At(i)' = Now'
  BY DEF At
<1>8. Len(frames) \in DOMAIN frames
  BY <1>2
<1> QED
  BY <1>1, <1>3, <1>4, <1>6, <1>7, <1>8 DEF At

\* A step that begins and ends no call saves and forgets nothing.
LEMMA AtSame ==
    ASSUME IInv, frames' = frames
    PROVE  /\ frames' \in Seq(Frame)
           /\ \A i \in DOMAIN frames' : At(i)' = At(i)
           /\ \A i : i \notin DOMAIN frames' => At(i)' = Now'
BY DEF IInv, SoundStack, At

-----------------------------------------------------------------------------
(* What the calls of the coin do.                                          *)

\* Two writes to one function, entry by entry.
LEMMA MoveEntries ==
    ASSUME NEW f \in [Address -> Int], NEW a \in Address, NEW b \in Address,
           NEW v \in Int
    PROVE  Move(f, a, b, v) =
               [x \in Address |-> f[x] - (IF x = a THEN v ELSE 0)
                                       + (IF x = b THEN v ELSE 0)]
<1> DEFINE g == [f EXCEPT ![a] = f[a] - v]
           h == [g EXCEPT ![b] = g[b] + v]
           m == [x \in Address |-> f[x] - (IF x = a THEN v ELSE 0)
                                       + (IF x = b THEN v ELSE 0)]
<1>1. /\ g \in [Address -> Int]
      /\ \A x \in Address : g[x] = f[x] - (IF x = a THEN v ELSE 0)
  OBVIOUS
<1>2. /\ h \in [Address -> Int]
      /\ \A x \in Address : h[x] = g[x] + (IF x = b THEN v ELSE 0)
  <2> HIDE DEF g
  <2> QED
    BY <1>1
<1>3. m \in [Address -> Int]
  OBVIOUS
<1>4. \A x \in Address : h[x] = m[x]
  BY <1>1, <1>2
<1>5. h = m
  <2> HIDE DEF h, m
  <2> QED
    BY <1>2, <1>3, <1>4
<1> QED
  BY <1>5 DEF Move

\* What a call in progress moves.
LEMMA MoveByCall ==
    ASSUME NEW g \in [Address -> Int], NEW f \in Frame
    PROVE  Move(g, f.caller, f.code, f.value)
               = [a \in Address |-> g[a] - Taken(f, a) + Given(f, a)]
<1> DEFINE from == f.caller
           to == f.code
           v == f.value
<1>1. from \in Address /\ to \in Address /\ v \in Int
  BY StableCoinAssumption DEF Frame
<1>2. \A a \in Address :
         /\ Taken(f, a) = IF a = from THEN v ELSE 0
         /\ Given(f, a) = IF a = to THEN v ELSE 0
  BY DEF Taken, Given
<1> HIDE DEF from, to, v
<1>3. Move(g, from, to, v)
          = [a \in Address |-> g[a] - (IF a = from THEN v ELSE 0)
                                    + (IF a = to THEN v ELSE 0)]
  BY ONLY g \in [Address -> Int], <1>1, MoveEntries
<1>4. Move(g, from, to, v)
          = [a \in Address |-> g[a] - Taken(f, a) + Given(f, a)]
  BY <1>2, <1>3
<1> QED
  BY <1>4 DEF from, to, v

\* The numbers of a sound state.
LEMMA Numbers ==
    ASSUME NEW s, Sound(s)
    PROVE  /\ s.db.balances \in [Address -> Nat]
           /\ s.db.allowances \in [Address -> Int]
           /\ s.db.totalSupply \in Nat
           /\ s.log.net \in [Address -> Int]
           /\ \A a \in Address : Unlogged(s, a) \in Int
<1>1. /\ s.db.balances \in [Address -> Nat]
      /\ s.db.allowances \in [Address -> Int]
      /\ s.db.totalSupply \in Nat
      /\ s.log.net \in [Address -> Int]
  BY DEF Sound, Snapshot, Storage, EventLog
<1> QED
  BY <1>1 DEF Unlogged

\* The parts of the current state, and the caller of the next step.
LEMMA CallerParts ==
    ASSUME IInv, NEW c \in Callers
    PROVE  /\ Sound(Now) /\ Now.db = db /\ Now.log = log
           /\ db.balances \in [Address -> Nat]
           /\ db.allowances \in [Address -> Int]
           /\ db.totalSupply \in Nat
           /\ log.net \in [Address -> Int]
           /\ c \in Address \ {EOA_ZERO}
           /\ frames # <<>> => c \in Contracts
<1>1. Sound(Now) /\ Now.db = db /\ Now.log = log
  BY DEF IInv, Now
<1>2. /\ db.balances \in [Address -> Nat]
      /\ db.allowances \in [Address -> Int]
      /\ db.totalSupply \in Nat
      /\ log.net \in [Address -> Int]
  BY <1>1, Numbers
<1>3. frames # <<>> => c \in Contracts
  <2> SUFFICES ASSUME frames # <<>>
               PROVE  c \in Contracts
    OBVIOUS
  <2>1. frames[Len(frames)] \in Frame
    BY SoundPop DEF IInv
  <2> QED
    BY <2>1 DEF Callers, Frame
<1>4. c # EOA_ZERO
  BY <1>3, StableCoinAssumption DEF Callers, Users
<1> QED
  BY <1>1, <1>2, <1>3, <1>4, CallersAreAccounts

\* No administrative right has been used between the storages o and s, and
\* no allowance raised.
Unruled(o, s) ==
    /\ s.admin = o.admin
    /\ s.issuers = o.issuers
    /\ s.paused = o.paused
    /\ s.freeDailyTxLimit = o.freeDailyTxLimit
    /\ \A a \in Address : s.allowances[a] <= o.allowances[a]

\* A transfer moves its value, is refused while the coin is paused, and
\* leaves the event to the end of the callback if there is one.
LEMMA TransferEffect ==
    ASSUME IInv, NEW from \in Callers, NEW to \in Address, NEW v \in Amounts,
           Transfer(from, to, v)
    PROVE  /\ v \in Nat /\ v > 0 /\ to # EOA_ZERO /\ db.paused = FALSE
           /\ Unruled(db, db')
           /\ db'.totalSupply = db.totalSupply
           /\ \A a \in Address :
                 db'.balances[a] = db.balances[a]
                     - (IF a = from THEN v ELSE 0) + (IF a = to THEN v ELSE 0)
           /\ \/ /\ frames' = frames
                 /\ log' = TransferEvent(log, from, to, v)
              \/ /\ to \in Contracts
                 /\ frames' = Push(to, from, v)
                 /\ log' = log
<1>1. /\ Sound(Now) /\ from \in Address
      /\ db.balances \in [Address -> Int]
      /\ db.allowances \in [Address -> Int]
  BY CallerParts
<1>2. /\ v \in Int /\ v > 0 /\ to # EOA_ZERO /\ ~db.paused
      /\ db' = Transferred(from, to, v)
      /\ \/ /\ frames' = frames
            /\ log' = TransferEvent(log, from, to, v)
         \/ /\ to \in Contracts
            /\ frames' = Push(to, from, v)
            /\ log' = log
  BY StableCoinAssumption DEF Transfer
<1>3. db.paused = FALSE
  BY <1>1, <1>2, StateParts
<1> DEFINE wl == [db.whitelist EXCEPT ![from] =
                     AfterTransfer(@, db.freeDailyTxLimit, blockHeight)]
           m == Move(db.balances, from, to, v)
<1>4. db' = [db EXCEPT !.whitelist = wl, !.balances = m]
  BY <1>2 DEF Transferred
<1>5. m = [a \in Address |-> db.balances[a] - (IF a = from THEN v ELSE 0)
                                            + (IF a = to THEN v ELSE 0)]
  <2>1. /\ db.balances \in [Address -> Int]
        /\ from \in Address /\ to \in Address /\ v \in Int
    BY <1>1, <1>2
  <2> HIDE DEF wl
  <2> QED
    BY ONLY <2>1, MoveEntries, ZenonT(60) DEF m
<1> HIDE DEF wl, m
<1>6. /\ db'.balances = m
      /\ db'.totalSupply = db.totalSupply
      /\ db'.allowances = db.allowances
      /\ db'.admin = db.admin /\ db'.issuers = db.issuers
      /\ db'.paused = db.paused
      /\ db'.freeDailyTxLimit = db.freeDailyTxLimit
  BY <1>1, <1>4, StateParts DEF Storage
<1>7. Unruled(db, db')
  BY <1>1, <1>6 DEF Unruled
<1>8. \A a \in Address :
         db'.balances[a] = db.balances[a]
             - (IF a = from THEN v ELSE 0) + (IF a = to THEN v ELSE 0)
  BY <1>5, <1>6
<1> QED
  BY <1>2, <1>3, <1>6, <1>7, <1>8

\* An event, entry by entry.
LEMMA EventEntries ==
    ASSUME NEW l \in EventLog, NEW a \in Address, NEW b \in Address,
           NEW v \in Int
    PROVE  \A x \in Address :
              TransferEvent(l, a, b, v).net[x] =
                  l.net[x] - (IF x = a THEN v ELSE 0)
                           + (IF x = b THEN v ELSE 0)
<1>1. l.net \in [Address -> Int]
  BY DEF EventLog
<1>2. TransferEvent(l, a, b, v).net = Move(l.net, a, b, v)
  BY DEF TransferEvent, EventLog
<1> QED
  BY <1>1, <1>2, MoveEntries

\* A mint raises one balance and lowers one allowance, and its event comes
\* with it.
LEMMA MintEffect ==
    ASSUME IInv, NEW c \in Callers, NEW to \in Address, NEW v \in Amounts,
           Mint(c, to, v)
    PROVE  /\ v \in Nat /\ v > 0 /\ db.paused = FALSE
           /\ frames' = frames
           /\ Unruled(db, db')
           /\ \A a \in Address :
                 /\ db'.balances[a] = db.balances[a]
                                         + (IF a = to THEN v ELSE 0)
                 /\ Unlogged(Now', a) = Unlogged(Now, a)
<1>1. /\ Sound(Now) /\ c \in Address
      /\ db.balances \in [Address -> Nat]
      /\ db.allowances \in [Address -> Int]
      /\ db.totalSupply \in Nat
      /\ log.net \in [Address -> Int]
      /\ Now.db = db /\ Now.log = log
  BY CallerParts
<1>2. /\ v \in Int /\ v > 0 /\ to # EOA_ZERO /\ ~db.paused
      /\ db' = Minted(c, to, v)
      /\ log' = TransferEvent(log, EOA_ZERO, to, v)
      /\ frames' = frames
  BY StableCoinAssumption DEF Mint
<1>3. db.paused = FALSE
  BY <1>1, <1>2, StateParts
<1> DEFINE al == [db.allowances EXCEPT ![c] = db.allowances[c] - v]
           ba == [db.balances EXCEPT ![to] = db.balances[to] + v]
           wl == [db.whitelist EXCEPT ![to] = AfterMint(@, blockHeight)]
<1>4. db' = [db EXCEPT !.allowances = al, !.whitelist = wl,
                       !.totalSupply = db.totalSupply + v, !.balances = ba]
  BY <1>2 DEF Minted
<1>5. /\ \A a \in Address : al[a] <= db.allowances[a]
      /\ \A a \in Address :
            ba[a] = db.balances[a] + (IF a = to THEN v ELSE 0)
  BY <1>1, <1>2
<1> HIDE DEF al, ba, wl
<1>6. /\ db'.balances = ba /\ db'.allowances = al
      /\ db'.totalSupply = db.totalSupply + v
      /\ db'.admin = db.admin /\ db'.paused = db.paused
      /\ db'.issuers = db.issuers
      /\ db'.freeDailyTxLimit = db.freeDailyTxLimit
  BY <1>1, <1>4, StateParts DEF Storage
<1>7. \A x \in Address :
         log'.net[x] = log.net[x] - (IF x = EOA_ZERO THEN v ELSE 0)
                                  + (IF x = to THEN v ELSE 0)
  <2>1. /\ log \in EventLog /\ v \in Int /\ EOA_ZERO \in Address
        /\ c \in Address /\ to \in Address
    BY <1>1, <1>2, StateParts, StableCoinAssumption
  <2>2. log' = TransferEvent(log, EOA_ZERO, to, v)
    BY <1>2
  <2> QED
    BY ONLY <2>1, <2>2, EventEntries
<1>8. \A a \in Address : Unlogged(Now', a) = Unlogged(Now, a)
  <2> SUFFICES ASSUME NEW a \in Address
               PROVE  Unlogged(Now', a) = Unlogged(Now, a)
    OBVIOUS
  <2>1. db.balances[a] \in Int /\ log.net[a] \in Int
    BY <1>1
  <2>2. Now'.db = db' /\ Now'.log = log'
    BY DEF Now
  <2> QED
    BY <1>1, <1>2, <1>5, <1>6, <1>7, <2>1, <2>2 DEF Unlogged
<1>9. Unruled(db, db')
  BY <1>5, <1>6 DEF Unruled
<1> QED
  BY <1>2, <1>3, <1>5, <1>6, <1>8, <1>9

\* A burn takes from its caller and from the supply, with its event.
LEMMA BurnEffect ==
    ASSUME IInv, NEW c \in Callers, NEW v \in Amounts, Burn(c, v)
    PROVE  /\ v \in Nat /\ v > 0 /\ db.paused = FALSE
           /\ frames' = frames
           /\ Unruled(db, db')
           /\ \A a \in Address :
                 /\ db'.balances[a] = db.balances[a]
                                         - (IF a = c THEN v ELSE 0)
                 /\ Unlogged(Now', a) = Unlogged(Now, a)
<1>1. /\ Sound(Now) /\ c \in Address \ {EOA_ZERO}
      /\ db.balances \in [Address -> Nat]
      /\ db.allowances \in [Address -> Int]
      /\ db.totalSupply \in Nat
      /\ log.net \in [Address -> Int]
      /\ Now.db = db /\ Now.log = log
  BY CallerParts
<1>2. /\ v \in Int /\ v > 0 /\ ~db.paused
      /\ log' = TransferEvent(log, c, EOA_ZERO, v)
      /\ frames' = frames
  BY StableCoinAssumption DEF Burn
<1>3. db.paused = FALSE
  BY <1>1, <1>2, StateParts
<1> DEFINE ba == [db.balances EXCEPT ![c] = db.balances[c] - v]
<1>4. db' = [db EXCEPT !.totalSupply = db.totalSupply - v, !.balances = ba]
  BY DEF Burn
<1>5. \A a \in Address : ba[a] = db.balances[a] - (IF a = c THEN v ELSE 0)
  BY <1>1, <1>2
<1> HIDE DEF ba
<1>6. /\ db'.balances = ba /\ db'.allowances = db.allowances
      /\ db'.totalSupply = db.totalSupply - v
      /\ db'.admin = db.admin /\ db'.paused = db.paused
      /\ db'.issuers = db.issuers
      /\ db'.freeDailyTxLimit = db.freeDailyTxLimit
  BY <1>1, <1>4, StateParts DEF Storage
<1>7. \A x \in Address :
         log'.net[x] = log.net[x] - (IF x = c THEN v ELSE 0)
                                  + (IF x = EOA_ZERO THEN v ELSE 0)
  <2>1. /\ log \in EventLog /\ v \in Int /\ EOA_ZERO \in Address
        /\ c \in Address
    BY <1>1, <1>2, StateParts, StableCoinAssumption
  <2>2. log' = TransferEvent(log, c, EOA_ZERO, v)
    BY <1>2
  <2> QED
    BY ONLY <2>1, <2>2, EventEntries
<1>8. \A a \in Address : Unlogged(Now', a) = Unlogged(Now, a)
  <2> SUFFICES ASSUME NEW a \in Address
               PROVE  Unlogged(Now', a) = Unlogged(Now, a)
    OBVIOUS
  <2>1. db.balances[a] \in Int /\ log.net[a] \in Int
    BY <1>1
  <2>2. Now'.db = db' /\ Now'.log = log'
    BY DEF Now
  <2> QED
    BY <1>1, <1>2, <1>5, <1>6, <1>7, <2>1, <2>2 DEF Unlogged
<1>9. Unruled(db, db')
  BY <1>1, <1>6 DEF Unruled
<1> QED
  BY <1>2, <1>3, <1>5, <1>6, <1>8, <1>9

\* The administrator's calls.
Administers(c) ==
    \/ \E a \in Address : AddIssuer(c, a)
    \/ \E a \in Address : RemoveIssuer(c, a)
    \/ \E a \in Address, v \in Amounts : Approve(c, a, v)
    \/ \E a \in Admins : TransferAdminRight(c, a)
    \/ TogglePause(c)
    \/ \E n \in Limits : ChangeFreeDailyTxLimit(c, n)

\* They move no token, and are the administrator's.
LEMMA AdministersEffect ==
    ASSUME IInv, NEW c \in Callers, Administers(c)
    PROVE  /\ c = db.admin
           /\ frames' = frames
           /\ db'.balances = db.balances
           /\ \A a \in Address : Unlogged(Now', a) = Unlogged(Now, a)
<1>1. Sound(Now) /\ db \in Storage /\ log \in EventLog
  BY StateParts DEF IInv
<1>2. /\ c = db.admin
      /\ frames' = frames
      /\ db'.balances = db.balances
      /\ db'.totalSupply = db.totalSupply
      /\ log'.net = log.net
  <2>1. CASE \E a \in Address : AddIssuer(c, a)
    BY <1>1, <2>1 DEF AddIssuer, Storage
  <2>2. CASE \E a \in Address : RemoveIssuer(c, a)
    <3>1. PICK a \in Address : RemoveIssuer(c, a)
      BY <2>2
    <3> DEFINE al == [db.allowances EXCEPT ![a] = 0]
               is == Without(db.issuers, a)
    <3>2. /\ db' = [db EXCEPT !.issuers = is, !.allowances = al]
          /\ c = db.admin /\ log' = log /\ frames' = frames
      BY <3>1 DEF RemoveIssuer
    <3> HIDE DEF al, is
    <3> QED
      BY <1>1, <3>2 DEF Storage
  <2>3. CASE \E a \in Address, v \in Amounts : Approve(c, a, v)
    <3>1. PICK a \in Address, v \in Amounts : Approve(c, a, v)
      BY <2>3
    <3> DEFINE al == [db.allowances EXCEPT ![a] = v]
    <3>2. /\ db' = [db EXCEPT !.allowances = al]
          /\ c = db.admin /\ log' = ApprovalEvent(log, v) /\ frames' = frames
      BY <3>1 DEF Approve
    <3> HIDE DEF al
    <3>3. log'.net = log.net
      BY <1>1, <3>2 DEF ApprovalEvent, EventLog
    <3> QED
      BY <1>1, <3>2, <3>3 DEF Storage
  <2>4. CASE \E a \in Admins : TransferAdminRight(c, a)
    BY <1>1, <2>4 DEF TransferAdminRight, Storage
  <2>5. CASE TogglePause(c)
    <3> DEFINE b == ~db.paused
    <3>1. /\ db' = [db EXCEPT !.paused = b]
          /\ c = db.admin /\ log' = log /\ frames' = frames
      BY <2>5, Zenon DEF TogglePause
    <3> HIDE DEF b
    <3> QED
      BY <1>1, <3>1 DEF Storage
  <2>6. CASE \E n \in Limits : ChangeFreeDailyTxLimit(c, n)
    BY <1>1, <2>6 DEF ChangeFreeDailyTxLimit, Storage
  <2> QED
    BY <2>1, <2>2, <2>3, <2>4, <2>5, <2>6 DEF Administers
<1> QED
  BY <1>2 DEF Unlogged, Now

-----------------------------------------------------------------------------
(* The steps, as far as the calls in progress can tell them apart.         *)

\* A call that begins and ends none in the coin.
Plain(c) ==
    \/ \E to \in Address, v \in Amounts : Mint(c, to, v)
    \/ \E v \in Amounts : Burn(c, v)
    \/ Administers(c)

\* A call that begins one.
Opens(f) ==
    /\ f \in Frame
    /\ f.before = Now
    /\ f.caller \in Callers
    /\ frames' = Append(frames, f)
    /\ log' = log
    /\ Unruled(db, db')
    /\ \A a \in Address :
          db'.balances[a] = db.balances[a] - Taken(f, a) + Given(f, a)
    /\ db'.totalSupply = db.totalSupply
    /\ db.paused => db'.balances = db.balances

\* A transfer to an account without code.
Pays(c) ==
    \E to \in Address, v \in Amounts :
        Transfer(c, to, v) /\ frames' = frames

\* Steps between transactions.
Between ==
    /\ frames = <<>> /\ frames' = frames
    /\ db'.balances = db.balances
    /\ db'.totalSupply = db.totalSupply
    /\ log' = log

LEMMA CallOpens ==
    ASSUME IInv, NEW c \in Callers,
           \/ \E code \in Contracts : CallContract(c, code)
           \/ \E to \in Address, v \in Amounts :
                 Transfer(c, to, v) /\ frames' # frames
    PROVE  \E f \in Frame : Opens(f)
<1>1. /\ Sound(Now) /\ Now \in Snapshot /\ c \in Address
      /\ db.balances \in [Address -> Nat]
      /\ db.allowances \in [Address -> Int]
  BY CallerParts DEF Sound
<1>2. CASE \E code \in Contracts : CallContract(c, code)
  <2>1. PICK code \in Contracts : CallContract(c, code)
    BY <1>2
  <2> DEFINE f == [code |-> code, caller |-> c, value |-> 0, before |-> Now]
  <2>2. /\ f \in Frame /\ f.before = Now /\ f.caller = c
        /\ \A a \in Address : Taken(f, a) = 0 /\ Given(f, a) = 0
    BY <1>1 DEF Frame, Taken, Given
  <2>3. frames' = Append(frames, f) /\ log' = log /\ db' = db
    BY <2>1 DEF CallContract, Push
  <2> HIDE DEF f
  <2>4. Opens(f)
    BY <1>1, <2>2, <2>3 DEF Opens, Unruled
  <2> QED
    BY <2>2, <2>4
<1>3. CASE \E to \in Address, v \in Amounts :
              Transfer(c, to, v) /\ frames' # frames
  <2>1. PICK to \in Address, v \in Amounts :
            Transfer(c, to, v) /\ frames' # frames
    BY <1>3
  <2>2. /\ v \in Nat /\ db.paused = FALSE
        /\ Unruled(db, db')
        /\ db'.totalSupply = db.totalSupply
        /\ \A a \in Address :
              db'.balances[a] = db.balances[a]
                  - (IF a = c THEN v ELSE 0) + (IF a = to THEN v ELSE 0)
        /\ to \in Contracts
        /\ frames' = Push(to, c, v)
        /\ log' = log
    <3>1. Transfer(c, to, v) /\ frames' # frames
      BY <2>1
    <3>2. /\ v \in Nat /\ v > 0 /\ to # EOA_ZERO /\ db.paused = FALSE
          /\ Unruled(db, db')
          /\ db'.totalSupply = db.totalSupply
          /\ \A a \in Address :
                db'.balances[a] = db.balances[a]
                    - (IF a = c THEN v ELSE 0) + (IF a = to THEN v ELSE 0)
          /\ \/ /\ frames' = frames
                /\ log' = TransferEvent(log, c, to, v)
             \/ /\ to \in Contracts
                /\ frames' = Push(to, c, v)
                /\ log' = log
      BY ONLY <3>1, IInv, c \in Callers, to \in Address, v \in Amounts,
              TransferEffect
    <3> QED
      BY <3>1, <3>2
  <2> DEFINE f == [code |-> to, caller |-> c, value |-> v, before |-> Now]
  <2>3. /\ f \in Frame /\ f.before = Now /\ f.caller = c
        /\ \A a \in Address :
              /\ Taken(f, a) = IF a = c THEN v ELSE 0
              /\ Given(f, a) = IF a = to THEN v ELSE 0
    BY <1>1, <2>2 DEF Frame, Taken, Given
  <2>4. frames' = Append(frames, f)
    BY <2>2 DEF Push
  <2> HIDE DEF f
  <2>5. Opens(f)
    BY <2>2, <2>3, <2>4 DEF Opens
  <2> QED
    BY <2>3, <2>5
<1> QED
  BY <1>2, <1>3

\* Every step is one of these.
LEMMA StepKinds ==
    ASSUME IInv, [Next]_vars
    PROVE  \/ \E c \in Callers : Plain(c) \/ Pays(c)
           \/ \E f \in Frame : Opens(f)
           \/ Return
           \/ Revert
           \/ Between
           \/ UNCHANGED vars
<1>1. CASE Transfers
  <2>1. PICK c \in Callers, to \in Address, v \in Amounts :
            Transfer(c, to, v)
    BY <1>1 DEF Transfers
  <2>2. CASE frames' = frames
    BY <2>1, <2>2, Zenon DEF Pays
  <2>3. CASE frames' # frames
    BY <2>1, <2>3, CallOpens
  <2> QED
    BY <2>2, <2>3
<1>2. CASE \E n \in IssuerCaps, a \in Admins : Constructor(n, a)
  <2>1. PICK n \in IssuerCaps, a \in Admins : Constructor(n, a)
    BY <1>2
  <2>2. db \in Storage /\ (db.admin = Null => db.totalSupply = 0)
    BY StateParts DEF IInv, Sound, Fresh, Now
  <2>3. Between
    BY <2>1, <2>2 DEF Constructor, Installed, Between, Storage
  <2> QED
    BY <2>3
<1>3. ASSUME NEW c \in Callers, OtherCall(c)
      PROVE  \/ Plain(c)
             \/ \E f \in Frame : Opens(f)
  <2>1. CASE \E code \in Contracts : CallContract(c, code)
    BY <2>1, CallOpens
  <2>2. CASE ~ \E code \in Contracts : CallContract(c, code)
    BY <1>3, <2>2, Zenon DEF OtherCall, Plain, Administers
  <2> QED
    BY <2>1, <2>2
<1>4. CASE NewBlock
  BY <1>4 DEF NewBlock, Between
<1> QED
  BY <1>1, <1>2, <1>3, <1>4, Zenon DEF Next, OtherSteps

-----------------------------------------------------------------------------
(* What the events leave open.                                             *)

\* From s to t the accounts have moved what the call f has not logged yet.
Owes(s, t, f) ==
    \A a \in Address :
        Unlogged(t, a) = Unlogged(s, a) - Taken(f, a) + Given(f, a)

SameLog(s, t) == \A a \in Address : Unlogged(t, a) = Unlogged(s, a)

\* The invariant: LogSettles, entry by entry, and that the zero address, for
\* which balances are compared with the supply, calls nobody.
LogInv ==
    /\ \A a \in Address : Unlogged(At(1), a) = 0
    /\ \A i \in DOMAIN frames :
          /\ frames[i].caller # EOA_ZERO
          /\ Owes(At(i), At(i + 1), frames[i])

\* A step after which as much is open as when the last call still in
\* progress was at its point.
LEMMA LogKept ==
    ASSUME IInv, IInv', LogInv, NEW n \in Nat,
           Len(frames') = n, n <= Len(frames),
           \A i \in DOMAIN frames' : frames'[i] = frames[i],
           \A i \in DOMAIN frames' : At(i)' = At(i),
           \A i : i \notin DOMAIN frames' => At(i)' = Now',
           SameLog(At(n + 1), Now')
    PROVE  LogInv'
<1>1. /\ frames \in Seq(Frame) /\ frames' \in Seq(Frame)
  BY DEF IInv, SoundStack
<1>2. /\ DOMAIN frames' = 1..n /\ DOMAIN frames = 1..Len(frames)
      /\ Len(frames) \in Nat
  BY <1>1, StackDomain
<1>3. \A a \in Address : Unlogged(At(1), a)' = 0
  <2> SUFFICES ASSUME NEW a \in Address
               PROVE  Unlogged(At(1)', a) = 0
    BY DEF Unlogged
  <2>1. CASE n = 0
    BY <1>2, <2>1 DEF SameLog, LogInv
  <2>2. CASE n # 0
    BY <1>2, <2>2 DEF LogInv
  <2> QED
    BY <2>1, <2>2
<1>4. ASSUME NEW i \in DOMAIN frames'
      PROVE  /\ frames'[i].caller # EOA_ZERO
             /\ Owes(At(i)', At(i + 1)', frames'[i])
  <2>1. /\ i \in 1..n /\ i \in DOMAIN frames /\ frames'[i] = frames[i]
        /\ At(i)' = At(i)
        /\ frames[i].caller # EOA_ZERO
        /\ Owes(At(i), At(i + 1), frames[i])
    BY <1>2 DEF LogInv
  <2>2. CASE i = n
    <3>1. At(i + 1)' = Now'
      BY <1>2, <2>2
    <3>2. SameLog(At(i + 1), Now')
      BY <2>2
    <3>3. Owes(At(i), Now', frames[i])
      BY <2>1, <3>2 DEF Owes, SameLog
    <3> QED
      BY <2>1, <3>1, <3>3
  <2>3. CASE i # n
    <3>1. i + 1 \in DOMAIN frames'
      BY <1>2, <2>1, <2>3
    <3>2. At(i + 1)' = At(i + 1)
      BY <3>1
    <3> QED
      BY <2>1, <3>2
  <2> QED
    BY <2>2, <2>3
<1>5. LogInv' <=> /\ \A a \in Address : Unlogged(At(1), a)' = 0
                  /\ \A i \in DOMAIN frames' :
                        /\ frames'[i].caller # EOA_ZERO
                        /\ Owes(At(i)', At(i + 1)', frames'[i])
  BY DEF LogInv, Owes, Unlogged
<1> QED
  BY <1>3, <1>4, <1>5

\* A call in progress begins: what it moves stays open.
LEMMA OpensLog ==
    ASSUME IInv, IInv', LogInv, NEW f \in Frame, Opens(f)
    PROVE  LogInv'
<1>1. /\ frames' \in Seq(Frame)
      /\ Len(frames') = Len(frames) + 1
      /\ frames'[Len(frames) + 1] = f
      /\ \A i \in DOMAIN frames : frames'[i] = frames[i]
      /\ \A i \in DOMAIN frames' : At(i)' = At(i)
      /\ \A i : i \notin DOMAIN frames' => At(i)' = Now'
  BY AtPush DEF Opens
<1>2. /\ Len(frames) \in Nat
      /\ DOMAIN frames = 1..Len(frames)
      /\ DOMAIN frames' = 1..(Len(frames) + 1)
  BY <1>1, StackDomain DEF IInv, SoundStack
<1>3. f.caller # EOA_ZERO /\ f.caller \in Address /\ f.code # EOA_ZERO
      /\ f.code \in Address /\ f.value \in Nat
  BY CallerParts, StableCoinAssumption DEF Opens, Frame
<1>4. Owes(Now, Now', f)
  <2> SUFFICES ASSUME NEW a \in Address
               PROVE  Unlogged(Now', a)
                          = Unlogged(Now, a) - Taken(f, a) + Given(f, a)
    BY DEF Owes
  <2>1. /\ db.balances[a] \in Int /\ log.net[a] \in Int
        /\ db.totalSupply \in Int
    BY CallerParts DEF Opens
  <2>2. /\ db'.balances[a] = db.balances[a] - Taken(f, a) + Given(f, a)
        /\ db'.totalSupply = db.totalSupply /\ log' = log
    BY DEF Opens
  <2>3. Taken(f, a) \in Int /\ Given(f, a) \in Int
    BY <1>3 DEF Taken, Given
  <2>4. a = EOA_ZERO => Taken(f, a) = 0 /\ Given(f, a) = 0
    BY <1>3 DEF Taken, Given
  <2> QED
    BY <2>1, <2>2, <2>3, <2>4 DEF Unlogged, Now
<1>5. 1 \in DOMAIN frames'
  BY <1>2
<1>6. \A a \in Address : Unlogged(At(1)', a) = 0
  BY <1>1, <1>5 DEF LogInv
<1>7. ASSUME NEW i \in DOMAIN frames'
      PROVE  /\ frames'[i].caller # EOA_ZERO
             /\ Owes(At(i)', At(i + 1)', frames'[i])
  <2>1. CASE i = Len(frames) + 1
    <3>1. At(i) = Now /\ At(i)' = At(i)
      BY <1>1, <2>1, AtLast
    <3>2. At(i + 1)' = Now'
      BY <1>1, <1>2, <2>1
    <3> QED
      BY <1>1, <1>3, <1>4, <2>1, <3>1, <3>2
  <2>2. CASE i # Len(frames) + 1
    <3>1. i \in DOMAIN frames /\ i + 1 \in DOMAIN frames'
      BY <1>2, <2>2
    <3> QED
      BY <1>1, <3>1 DEF LogInv
  <2> QED
    BY <2>1, <2>2
<1>8. LogInv' <=> /\ \A a \in Address : Unlogged(At(1)', a) = 0
                  /\ \A i \in DOMAIN frames' :
                        /\ frames'[i].caller # EOA_ZERO
                        /\ Owes(At(i)', At(i + 1)', frames'[i])
  BY DEF LogInv, Owes, Unlogged
<1> QED
  BY <1>6, <1>7, <1>8

\* A step that keeps the calls in progress and what the log leaves open.
LEMMA SameKeepsLog ==
    ASSUME IInv, IInv', LogInv, frames' = frames, SameLog(Now, Now')
    PROVE  LogInv'
<1>1. /\ Len(frames) \in Nat /\ Len(frames') = Len(frames)
      /\ At(Len(frames) + 1) = Now
  BY AtLast, StackDomain DEF IInv, SoundStack
<1> QED
  BY <1>1, AtSame, LogKept

\* A payment to an account without code is logged at once.
LEMMA PaysLog ==
    ASSUME IInv, NEW c \in Callers, Pays(c)
    PROVE  SameLog(Now, Now')
<1>1. PICK to \in Address, v \in Amounts :
          Transfer(c, to, v) /\ frames' = frames
  BY DEF Pays
<1>2. /\ v \in Nat /\ to # EOA_ZERO
      /\ db'.totalSupply = db.totalSupply
      /\ \A a \in Address :
            db'.balances[a] = db.balances[a]
                - (IF a = c THEN v ELSE 0) + (IF a = to THEN v ELSE 0)
      /\ \/ log' = TransferEvent(log, c, to, v)
         \/ frames' = Push(to, c, v)
  <2>1. Transfer(c, to, v)
    BY <1>1
  <2>2. /\ v \in Nat /\ v > 0 /\ to # EOA_ZERO /\ db.paused = FALSE
        /\ Unruled(db, db')
        /\ db'.totalSupply = db.totalSupply
        /\ \A a \in Address :
              db'.balances[a] = db.balances[a]
                  - (IF a = c THEN v ELSE 0) + (IF a = to THEN v ELSE 0)
        /\ \/ /\ frames' = frames
              /\ log' = TransferEvent(log, c, to, v)
           \/ /\ to \in Contracts
              /\ frames' = Push(to, c, v)
              /\ log' = log
    BY ONLY <2>1, IInv, c \in Callers, to \in Address, v \in Amounts,
            TransferEffect
  <2> QED
    BY <2>2
<1>3. /\ c \in Address \ {EOA_ZERO}
      /\ db.balances \in [Address -> Int] /\ log.net \in [Address -> Int]
      /\ db.totalSupply \in Int /\ log \in EventLog
  <2>1. Sound(Now) /\ c \in Address \ {EOA_ZERO}
    BY CallerParts
  <2> QED
    BY <2>1, StateParts DEF EventLog
<1>4. log' = TransferEvent(log, c, to, v)
  <2>1. frames \in Seq(Frame)
    BY DEF IInv, SoundStack
  <2>2. Push(to, c, v) # frames
    BY <2>1 DEF Push
  <2> QED
    BY <1>1, <1>2, <2>2
<1>5. \A x \in Address :
         log'.net[x] = log.net[x] - (IF x = c THEN v ELSE 0)
                                  + (IF x = to THEN v ELSE 0)
  <2>1. log \in EventLog /\ c \in Address /\ to \in Address /\ v \in Int
    BY <1>2, <1>3
  <2> QED
    BY ONLY <1>4, <2>1, EventEntries
<1> SUFFICES ASSUME NEW a \in Address
             PROVE  Unlogged(Now', a) = Unlogged(Now, a)
  BY DEF SameLog
<1>6. db.balances[a] \in Int /\ log.net[a] \in Int
  BY <1>3
<1> QED
  BY <1>2, <1>3, <1>5, <1>6 DEF Unlogged, Now

\* The end of a call leaves open what was open when it began: its own event
\* is sent, or what it moved is undone.
LEMMA EndLog ==
    ASSUME IInv, LogInv, Return \/ Revert
    PROVE  frames # <<>> /\ frames' = Pop /\ SameLog(At(Len(frames)), Now')
<1>1. frames # <<>> /\ frames' = Pop
  BY DEF Return, Revert
<1> DEFINE f == frames[Len(frames)]
<1>2. /\ f \in Frame /\ At(Len(frames)) = f.before
      /\ Len(frames) \in DOMAIN frames
  BY <1>1, AtPop, StackDomain DEF IInv, SoundStack
<1>3. CASE Revert
  <2>1. Now' = f.before
    BY <1>2, <1>3 DEF Revert, Now, Frame, Snapshot
  <2> QED
    BY <1>1, <1>2, <2>1 DEF SameLog
<1>4. CASE Return
  <2>1. /\ f.caller \in Address \ {EOA_ZERO}
        /\ f.code \in Address \ {EOA_ZERO}
        /\ f.value \in Int
        /\ Owes(At(Len(frames)), Now, f)
    BY <1>2, AtLast, StableCoinAssumption DEF LogInv, Frame
  <2>2. log' = TransferEvent(log, f.caller, f.code, f.value) /\ db' = db
    BY <1>4 DEF Return
  <2> HIDE DEF f
  <2>3. log \in EventLog /\ Sound(Now) /\ Sound(At(Len(frames)))
    BY StateParts, SavedSound DEF IInv
  <2>4. \A x \in Address :
           log'.net[x] = log.net[x] - Taken(f, x) + Given(f, x)
    <3>1. log \in EventLog /\ f.caller \in Address /\ f.code \in Address
      BY <2>1, <2>3
    <3>2. f.value \in Int
      BY <2>1
    <3> QED
      BY ONLY <2>2, <3>1, <3>2, EventEntries DEF Taken, Given
  <2>5. ASSUME NEW a \in Address
        PROVE  Unlogged(Now', a) = Unlogged(At(Len(frames)), a)
    <3>1. /\ db.balances[a] \in Int /\ log.net[a] \in Int
          /\ db.totalSupply \in Int
          /\ Unlogged(At(Len(frames)), a) \in Int
          /\ Unlogged(Now, a) \in Int
      BY <2>3, Numbers, StateParts DEF EventLog
    <3>2. Taken(f, a) \in Int /\ Given(f, a) \in Int
      BY <2>1 DEF Taken, Given
    <3>3. a = EOA_ZERO => Taken(f, a) = 0 /\ Given(f, a) = 0
      BY <2>1 DEF Taken, Given
    <3>4. Unlogged(Now, a) = Unlogged(At(Len(frames)), a)
                                 - Taken(f, a) + Given(f, a)
      BY <2>1 DEF Owes
    <3>5. /\ Unlogged(Now, a) =
                IF a = EOA_ZERO
                THEN db.balances[a] + log.net[a] + db.totalSupply
                ELSE db.balances[a] - log.net[a]
          /\ Unlogged(Now', a) =
                IF a = EOA_ZERO
                THEN db'.balances[a] + log'.net[a] + db'.totalSupply
                ELSE db'.balances[a] - log'.net[a]
      BY DEF Unlogged, Now
    <3>6. log'.net[a] = log.net[a] - Taken(f, a) + Given(f, a)
      BY <2>4
    <3>7. CASE a = EOA_ZERO
      <4>1. /\ Taken(f, a) = 0 /\ Given(f, a) = 0
            /\ Unlogged(Now', a) = Unlogged(Now, a)
        BY <2>2, <3>1, <3>3, <3>5, <3>6, <3>7
      <4> QED
        BY ONLY <3>1, <3>4, <4>1
    <3>8. CASE a # EOA_ZERO
      <4>1. Unlogged(Now', a) = db.balances[a]
                 - (log.net[a] - Taken(f, a) + Given(f, a))
        BY <2>2, <3>5, <3>6, <3>8
      <4>2. Unlogged(Now, a) = db.balances[a] - log.net[a]
        BY <3>5, <3>8
      <4> QED
        BY ONLY <3>1, <3>2, <3>4, <4>1, <4>2
    <3> QED
      BY <3>7, <3>8
  <2> QED
    BY <1>1, <2>5 DEF SameLog
<1> QED
  BY <1>3, <1>4

\* Every step keeps the balance of the log.
LEMMA NextLog ==
    ASSUME IInv, LogInv, [Next]_vars
    PROVE  LogInv'
<1>0. IInv'
  BY NextSound
<1>1. CASE \E c \in Callers : Plain(c)
  <2>1. PICK c \in Callers : Plain(c)
    BY <1>1
  <2>2. frames' = frames /\ SameLog(Now, Now')
    <3>1. CASE \E to \in Address, v \in Amounts : Mint(c, to, v)
      BY <3>1, MintEffect DEF SameLog
    <3>2. CASE \E v \in Amounts : Burn(c, v)
      BY <3>2, BurnEffect DEF SameLog
    <3>3. CASE Administers(c)
      BY <3>3, AdministersEffect DEF SameLog
    <3> QED
      BY <2>1, <3>1, <3>2, <3>3 DEF Plain
  <2> QED
    BY <1>0, <2>2, SameKeepsLog
<1>2. CASE \E c \in Callers : Pays(c)
  <2>1. PICK c \in Callers : Pays(c)
    BY <1>2
  <2>2. frames' = frames /\ SameLog(Now, Now')
    BY <2>1, PaysLog DEF Pays
  <2> QED
    BY <1>0, <2>2, SameKeepsLog
<1>3. CASE \E f \in Frame : Opens(f)
  BY <1>0, <1>3, OpensLog
<1>4. CASE Return \/ Revert
  <2>1. frames # <<>> /\ frames' = Pop /\ SameLog(At(Len(frames)), Now')
    BY <1>4, EndLog
  <2>2. /\ Len(frames) \in Nat \ {0} /\ Len(frames') = Len(frames) - 1
        /\ Len(frames') + 1 = Len(frames)
    BY <2>1, AtPop, StackDomain DEF IInv, SoundStack
  <2> QED
    BY <1>0, <2>1, <2>2, AtPop, LogKept
<1>5. CASE Between \/ UNCHANGED vars
  <2>1. /\ frames' = frames /\ log' = log
        /\ db'.balances = db.balances /\ db'.totalSupply = db.totalSupply
    BY <1>5 DEF Between, vars
  <2>2. SameLog(Now, Now')
    BY <2>1 DEF SameLog, Unlogged, Now
  <2> QED
    BY <1>0, <2>1, <2>2, SameKeepsLog
<1> QED
  BY <1>1, <1>2, <1>3, <1>4, <1>5, StepKinds

LEMMA InitLog ==
    ASSUME Init
    PROVE  LogInv
<1>1. frames = <<>> /\ DOMAIN frames = {}
  BY DEF Init
<1>2. At(1) = Now
  BY <1>1 DEF At
<1>3. \A a \in Address : Unlogged(Now, a) = 0
  BY DEF Init, Unlogged, Now
<1> QED
  BY <1>1, <1>2, <1>3 DEF LogInv

\* Entry by entry is as a whole.
LEMMA LogInvImplies ==
    ASSUME IInv, LogInv
    PROVE  LogSettles
<1>1. ASSUME NEW i \in DOMAIN frames
      PROVE  [a \in Address |-> Unlogged(At(i + 1), a)]
                 = Move([a \in Address |-> Unlogged(At(i), a)],
                        frames[i].caller, frames[i].code, frames[i].value)
  <2> DEFINE f == frames[i]
             old == [a \in Address |-> Unlogged(At(i), a)]
             new == [a \in Address |-> Unlogged(At(i + 1), a)]
  <2>1. /\ f \in Frame /\ f.caller \in Address /\ f.code \in Address
        /\ f.value \in Int
        /\ Owes(At(i), At(i + 1), f)
    <3>1. f \in Frame
      BY DEF IInv, SoundStack
    <3>2. Owes(At(i), At(i + 1), f)
      BY DEF LogInv
    <3> HIDE DEF f
    <3> QED
      BY <3>1, <3>2, StableCoinAssumption DEF Frame
  <2>2. \A a \in Address : Unlogged(At(i), a) \in Int
    BY SavedSound, Numbers
  <2>3. old \in [Address -> Int]
    BY <2>2
  <2>4. \A a \in Address :
           new[a] = old[a] - Taken(f, a) + Given(f, a)
    BY <2>1 DEF Owes
  <2>5. /\ DOMAIN new = Address
        /\ new = [a \in Address |-> new[a]]
    OBVIOUS
  <2> HIDE DEF f, old, new
  <2>6. f \in Frame
    BY <2>1
  <2>7. Move(old, f.caller, f.code, f.value)
            = [a \in Address |-> old[a] - Taken(f, a) + Given(f, a)]
    BY ONLY <2>3, <2>6, MoveByCall
  <2>8. new = Move(old, f.caller, f.code, f.value)
    BY <2>4, <2>5, <2>7
  <2> QED
    BY <2>8 DEF f, old, new
<1> QED
  BY <1>1 DEF LogInv, LogSettles

\* At every moment of every transaction the events account for the balances
\* and the supply up to the transfers whose callback is still running, and
\* for each of these exactly once.
THEOREM EventsSettle == Spec => []LogSettles
<1>1. Init => LogInv
  BY InitLog
<1>2. IInv /\ LogInv /\ [Next]_vars => LogInv'
  BY NextLog
<1>3. IInv /\ LogInv => LogSettles
  BY LogInvImplies
<1> QED
  BY <1>1, <1>2, <1>3, Invariant, PTL DEF Spec

-----------------------------------------------------------------------------
(* Callbacks and the administrator.                                        *)

\* From o to s nothing happened that only the administrator can do, if that
\* is a wallet, and nothing at all to the balances if the coin was paused.
Since(o, s) ==
    o.db.admin \in Users =>
        /\ Unruled(o.db, s.db)
        /\ o.db.paused => s.db.balances = o.db.balances

\* The invariant compares all pairs of saved states, not only each of them
\* with the current one: a failure makes a saved state the current one.
RuleInv ==
    \A i \in DOMAIN frames : \A j \in Nat : j > i => Since(At(i), At(j))

LEMMA SinceOn ==
    ASSUME NEW o, NEW s, NEW t, Sound(o), Sound(s), Sound(t),
           Since(o, s), Since(s, t)
    PROVE  Since(o, t)
<1>1. /\ o.db.allowances \in [Address -> Int]
      /\ s.db.allowances \in [Address -> Int]
      /\ t.db.allowances \in [Address -> Int]
  BY Numbers
<1> SUFFICES ASSUME o.db.admin \in Users
             PROVE  /\ Unruled(o.db, t.db)
                    /\ o.db.paused => t.db.balances = o.db.balances
  BY DEF Since
<1>2. /\ Unruled(o.db, s.db) /\ (o.db.paused => s.db.balances = o.db.balances)
      /\ Unruled(s.db, t.db) /\ (s.db.paused => t.db.balances = s.db.balances)
      /\ s.db.paused = o.db.paused
  BY DEF Since, Unruled
<1>3. \A a \in Address : t.db.allowances[a] <= o.db.allowances[a]
  <2> SUFFICES ASSUME NEW a \in Address
               PROVE  t.db.allowances[a] <= o.db.allowances[a]
    OBVIOUS
  <2>1. /\ o.db.allowances[a] \in Int /\ s.db.allowances[a] \in Int
        /\ t.db.allowances[a] \in Int
    BY <1>1
  <2> QED
    BY <1>2, <2>1 DEF Unruled
<1>4. Unruled(o.db, t.db)
  BY <1>2, <1>3 DEF Unruled
<1> QED
  BY <1>2, <1>4

\* A call made while others are in progress is a contract's.
LEMMA CallSince ==
    ASSUME IInv, NEW c \in Callers, Plain(c) \/ Pays(c), frames # <<>>
    PROVE  frames' = frames /\ Since(Now, Now')
<1>1. /\ c \notin Users /\ Now.db = db /\ Now'.db = db'
      /\ Sound(Now) /\ db.paused \in BOOLEAN
  BY CallerParts, StateParts DEF Users, Now
<1>2. CASE \E to \in Address, v \in Amounts : Mint(c, to, v)
  <2>1. Unruled(db, db') /\ db.paused = FALSE /\ frames' = frames
    BY <1>2, MintEffect
  <2> QED
    BY <1>1, <2>1 DEF Since
<1>3. CASE \E v \in Amounts : Burn(c, v)
  <2>1. Unruled(db, db') /\ db.paused = FALSE /\ frames' = frames
    BY <1>3, BurnEffect
  <2> QED
    BY <1>1, <2>1 DEF Since
<1>4. CASE Administers(c)
  <2>1. c = db.admin /\ frames' = frames
    BY <1>4, AdministersEffect
  <2> QED
    BY <1>1, <2>1 DEF Since
<1>5. CASE Pays(c)
  <2>1. Unruled(db, db') /\ db.paused = FALSE /\ frames' = frames
    <3>1. PICK to \in Address, v \in Amounts : Transfer(c, to, v)
      BY <1>5 DEF Pays
    <3>2. Unruled(db, db') /\ db.paused = FALSE
      BY <3>1, TransferEffect
    <3> QED
      BY <1>5, <3>2 DEF Pays
  <2> QED
    BY <1>1, <2>1 DEF Since
<1> QED
  BY <1>2, <1>3, <1>4, <1>5 DEF Plain

\* A step after which the current state is compared well with the saved ones.
LEMMA RuleKept ==
    ASSUME IInv, IInv', RuleInv,
           \A i \in DOMAIN frames' : At(i)' = At(i),
           \A i : i \notin DOMAIN frames' => At(i)' = Now',
           \A i \in DOMAIN frames' : i \notin DOMAIN frames =>
               \A j \in DOMAIN frames' : ~(j > i),
           \A i \in DOMAIN frames' : Since(At(i), Now')
    PROVE  RuleInv'
<1> SUFFICES ASSUME NEW i \in DOMAIN frames', NEW j \in Nat, j > i
             PROVE  Since(At(i)', At(j)')
  BY DEF RuleInv, Since, Unruled
<1>1. At(i)' = At(i)
  OBVIOUS
<1>2. CASE j \in DOMAIN frames'
  <2>1. i \in DOMAIN frames /\ At(j)' = At(j)
    BY <1>2
  <2> QED
    BY <1>1, <2>1 DEF RuleInv
<1>3. CASE j \notin DOMAIN frames'
  BY <1>1, <1>3
<1> QED
  BY <1>2, <1>3

LEMMA NextRule ==
    ASSUME IInv, RuleInv, [Next]_vars
    PROVE  RuleInv'
<1>0. IInv' /\ Sound(Now) /\ Sound(Now')
  BY NextSound DEF IInv
<1>1. /\ frames \in Seq(Frame) /\ Len(frames) \in Nat
      /\ DOMAIN frames = 1..Len(frames)
      /\ At(Len(frames) + 1) = Now
  BY AtLast, StackDomain DEF IInv, SoundStack
<1>2. \A i \in DOMAIN frames : Since(At(i), Now)
  <2>1. Len(frames) + 1 \in Nat /\ \A i \in DOMAIN frames : Len(frames) + 1 > i
    BY <1>1
  <2> QED
    BY <1>1, <2>1 DEF RuleInv
<1>3. CASE \E c \in Callers : Plain(c) \/ Pays(c)
  <2>1. PICK c \in Callers : Plain(c) \/ Pays(c)
    BY <1>3
  <2>2. frames' = frames
    <3>1. CASE \E to \in Address, v \in Amounts : Mint(c, to, v)
      BY <3>1, MintEffect
    <3>2. CASE \E v \in Amounts : Burn(c, v)
      BY <3>2, BurnEffect
    <3>3. CASE Administers(c)
      BY <3>3, AdministersEffect
    <3>4. CASE Pays(c)
      BY <3>4 DEF Pays
    <3> QED
      BY <2>1, <3>1, <3>2, <3>3, <3>4 DEF Plain
  <2>3. ASSUME NEW i \in DOMAIN frames'
        PROVE  Since(At(i), Now')
    <3>1. frames # <<>>
      BY <1>1, <2>2, <2>3
    <3>2. Since(Now, Now')
      BY <2>1, <3>1, CallSince
    <3>3. Since(At(i), Now) /\ Sound(At(i))
      BY <1>2, <2>2, SavedSound
    <3> QED
      BY <1>0, <3>2, <3>3, SinceOn
  <2> QED
    BY <1>0, <2>2, <2>3, AtSame, RuleKept
<1>4. CASE \E f \in Frame : Opens(f)
  <2>1. PICK f \in Frame : Opens(f)
    BY <1>4
  <2>2. /\ frames' \in Seq(Frame)
        /\ Len(frames') = Len(frames) + 1
        /\ \A i \in DOMAIN frames' : At(i)' = At(i)
        /\ \A i : i \notin DOMAIN frames' => At(i)' = Now'
    BY <2>1, AtPush DEF Opens
  <2>3. DOMAIN frames' = 1..(Len(frames) + 1)
    BY <2>2, StackDomain
  <2>4. Since(Now, Now')
    BY <2>1 DEF Opens, Since, Now
  <2>5. ASSUME NEW i \in DOMAIN frames'
        PROVE  Since(At(i), Now')
    <3>1. CASE i \in DOMAIN frames
      BY <1>0, <1>2, <2>4, <3>1, SavedSound, SinceOn
    <3>2. CASE i \notin DOMAIN frames
      <4>1. At(i) = Now
        BY <3>2 DEF At
      <4> QED
        BY <2>4, <4>1
    <3> QED
      BY <3>1, <3>2
  <2>6. \A i \in DOMAIN frames' : i \notin DOMAIN frames =>
            \A j \in DOMAIN frames' : ~(j > i)
    BY <1>1, <2>3
  <2> QED
    BY <1>0, <2>2, <2>5, <2>6, RuleKept
<1>5. CASE Return \/ Revert
  <2>1. frames # <<>> /\ frames' = Pop
    BY <1>5 DEF Return, Revert
  <2>2. /\ frames' \in Seq(Frame)
        /\ Len(frames') = Len(frames) - 1
        /\ frames[Len(frames)] \in Frame
        /\ At(Len(frames)) = frames[Len(frames)].before
        /\ \A i \in DOMAIN frames' : At(i)' = At(i)
        /\ \A i : i \notin DOMAIN frames' => At(i)' = Now'
    BY <2>1, AtPop
  <2>3. DOMAIN frames' = 1..(Len(frames) - 1) /\ Len(frames) \in Nat \ {0}
    BY <1>1, <2>1, <2>2, StackDomain
  <2>4. ASSUME NEW i \in DOMAIN frames'
        PROVE  Since(At(i), Now')
    <3>1. i \in DOMAIN frames /\ Len(frames) > i
      BY <1>1, <2>3
    <3>2. CASE Return
      <4>1. Since(At(i), Now) /\ Now'.db = Now.db
        BY <1>2, <3>1, <3>2 DEF Return, Now
      <4> QED
        BY <4>1 DEF Since
    <3>3. CASE Revert
      <4>1. Now' = At(Len(frames))
        BY <2>2, <3>3 DEF Revert, Now, Frame, Snapshot
      <4> QED
        BY <1>1, <3>1, <4>1 DEF RuleInv
    <3> QED
      BY <1>5, <3>2, <3>3
  <2>5. \A i \in DOMAIN frames' : i \in DOMAIN frames
    BY <1>1, <2>3
  <2> QED
    BY <1>0, <2>2, <2>4, <2>5, RuleKept
<1>6. CASE Between
  <2>1. DOMAIN frames' = {}
    BY <1>6 DEF Between
  <2> QED
    BY <2>1 DEF RuleInv
<1>7. CASE UNCHANGED vars
  <2>1. Now' = Now /\ frames' = frames
    BY <1>7 DEF vars, Now
  <2> QED
    BY <1>0, <1>2, <2>1, AtSame, RuleKept
<1> QED
  BY <1>3, <1>4, <1>5, <1>6, <1>7, StepKinds

LEMMA RuleInvImplies ==
    ASSUME IInv, RuleInv
    PROVE  CallbackCannotAdminister
<1>1. /\ frames \in Seq(Frame) /\ Len(frames) \in Nat
      /\ DOMAIN frames = 1..Len(frames)
      /\ At(Len(frames) + 1) = Now
  BY AtLast, StackDomain DEF IInv, SoundStack
<1>2. ASSUME NEW i \in DOMAIN frames
      PROVE  Since(At(i), Now)
  <2>1. Len(frames) + 1 \in Nat /\ Len(frames) + 1 > i
    BY <1>1
  <2> QED
    BY <1>1, <2>1 DEF RuleInv
<1> QED
  BY <1>2 DEF CallbackCannotAdminister, Since, Unruled, Now

\* Whatever calls the contracts that receive tokens make before they return,
\* at whatever depth and with whatever failures, they have no administrative
\* effect on a coin whose administrator is a wallet, and move no token of one
\* that is paused.
THEOREM CallbacksRuleNothing == Spec => []CallbackCannotAdminister
<1>1. Init => RuleInv
  BY DEF Init, RuleInv
<1>2. IInv /\ RuleInv /\ [Next]_vars => RuleInv'
  BY NextRule
<1>3. IInv /\ RuleInv => CallbackCannotAdminister
  BY RuleInvImplies
<1> QED
  BY <1>1, <1>2, <1>3, Invariant, PTL DEF Spec

-----------------------------------------------------------------------------
(* Callbacks and wallets.                                                  *)

\* The wallets hold at s what they held at o, less the amount of the call f.
Spared(o, s, f) ==
    \A u \in Users : s.db.balances[u] >= o.db.balances[u] - Taken(f, u)

SafeInv ==
    frames # <<>> =>
        \A j \in Nat : j > 1 => Spared(At(1), At(j), frames[1])

\* A call made by a contract takes nothing from a wallet.
LEMMA CallSpares ==
    ASSUME IInv, frames # <<>>, NEW c \in Callers, Plain(c) \/ Pays(c)
    PROVE  /\ frames' = frames
           /\ \A u \in Users : db'.balances[u] >= db.balances[u]
<1>1. db.balances \in [Address -> Nat] /\ c \in Contracts
  BY CallerParts
<1>2. frames' = frames
  BY CallSince
<1>3. ASSUME NEW u \in Users
      PROVE  db'.balances[u] >= db.balances[u]
  <2>1. u \in Address /\ u # c /\ db.balances[u] \in Nat
    BY <1>1 DEF Users
  <2>2. CASE \E to \in Address, v \in Amounts : Mint(c, to, v)
    <3>1. PICK to \in Address, v \in Amounts : Mint(c, to, v)
      BY <2>2
    <3>2. v \in Nat /\ db'.balances[u] = db.balances[u]
                                            + (IF u = to THEN v ELSE 0)
      BY <2>1, <3>1, MintEffect
    <3> QED
      BY <2>1, <3>2
  <2>3. CASE \E v \in Amounts : Burn(c, v)
    <3>1. PICK v \in Amounts : Burn(c, v)
      BY <2>3
    <3>2. db'.balances[u] = db.balances[u] - (IF u = c THEN v ELSE 0)
      BY <2>1, <3>1, BurnEffect
    <3> QED
      BY <2>1, <3>2
  <2>4. CASE Administers(c)
    BY <2>1, <2>4, AdministersEffect
  <2>5. CASE Pays(c)
    <3>1. PICK to \in Address, v \in Amounts : Transfer(c, to, v)
      BY <2>5 DEF Pays
    <3>2. v \in Nat /\ db'.balances[u] = db.balances[u]
              - (IF u = c THEN v ELSE 0) + (IF u = to THEN v ELSE 0)
      <4>1. /\ v \in Nat /\ v > 0 /\ to # EOA_ZERO /\ db.paused = FALSE
            /\ Unruled(db, db')
            /\ db'.totalSupply = db.totalSupply
            /\ \A a \in Address :
                  db'.balances[a] = db.balances[a]
                      - (IF a = c THEN v ELSE 0) + (IF a = to THEN v ELSE 0)
            /\ \/ /\ frames' = frames
                  /\ log' = TransferEvent(log, c, to, v)
               \/ /\ to \in Contracts
                  /\ frames' = Push(to, c, v)
                  /\ log' = log
        BY ONLY <3>1, IInv, c \in Callers, to \in Address, v \in Amounts,
                TransferEffect
      <4> QED
        BY <2>1, <4>1
    <3> QED
      BY <2>1, <3>2
  <2> QED
    BY <2>2, <2>3, <2>4, <2>5 DEF Plain
<1> QED
  BY <1>2, <1>3

\* A step in a transaction after which the current state spares the wallets.
LEMMA SafeKept ==
    ASSUME IInv, SafeInv, frames # <<>>, frames' # <<>>,
           frames' \in Seq(Frame), frames'[1] = frames[1],
           \A i \in DOMAIN frames' : At(i)' = At(i),
           \A i : i \notin DOMAIN frames' => At(i)' = Now',
           Spared(At(1), Now', frames[1])
    PROVE  SafeInv'
<1>1. At(1)' = At(1)
  <2>1. 1 \in DOMAIN frames'
    BY StackDomain
  <2> QED
    BY <2>1
<1> SUFFICES ASSUME NEW j \in Nat, j > 1
             PROVE  Spared(At(1)', At(j)', frames'[1])
  BY DEF SafeInv, Spared, Taken
<1>2. CASE j \in DOMAIN frames'
  BY <1>1, <1>2 DEF SafeInv
<1>3. CASE j \notin DOMAIN frames'
  BY <1>1, <1>3
<1> QED
  BY <1>2, <1>3

LEMMA NextSafe ==
    ASSUME IInv, SafeInv, [Next]_vars
    PROVE  SafeInv'
<1>0. Sound(Now) /\ Sound(Now') /\ Now.db = db /\ Now'.db = db'
  BY NextSound DEF IInv, Now
<1>1. /\ frames \in Seq(Frame) /\ Len(frames) \in Nat
      /\ DOMAIN frames = 1..Len(frames)
      /\ At(Len(frames) + 1) = Now
      /\ frames = <<>> <=> Len(frames) = 0
  BY AtLast, StackDomain DEF IInv, SoundStack
<1>2. ASSUME frames # <<>>
      PROVE  Spared(At(1), Now, frames[1])
  <2>1. Len(frames) + 1 \in Nat /\ Len(frames) + 1 > 1
    BY <1>1, <1>2
  <2> QED
    BY <1>1, <1>2, <2>1 DEF SafeInv
\* More in every wallet now than before: still spared.
<1>3. ASSUME frames # <<>>,
             \A u \in Users : db'.balances[u] >= db.balances[u]
      PROVE  Spared(At(1), Now', frames[1])
  <2> SUFFICES ASSUME NEW u \in Users
               PROVE  db'.balances[u]
                          >= At(1).db.balances[u] - Taken(frames[1], u)
    BY <1>0 DEF Spared
  <2>1. db.balances[u] >= At(1).db.balances[u] - Taken(frames[1], u)
    BY <1>0, <1>2, <1>3 DEF Spared
  <2>2. frames[1].value \in Nat
    <3>1. 1 \in DOMAIN frames
      BY <1>1, <1>3
    <3>2. frames[1] \in Frame
      BY <1>1, <3>1
    <3> QED
      BY <3>2 DEF Frame
  <2>3. Taken(frames[1], u) \in Int
    BY <2>2 DEF Taken
  <2>4. /\ At(1).db.balances[u] \in Nat /\ db.balances[u] \in Nat
        /\ db'.balances[u] \in Nat
    <3>1. u \in Address
      BY DEF Users
    <3>2. Sound(At(1))
      BY SavedSound
    <3> QED
      BY <1>0, <3>1, <3>2, Numbers
  <2> QED
    BY <1>3, <2>1, <2>3, <2>4
<1>4. CASE \E c \in Callers : Plain(c) \/ Pays(c)
  <2>1. CASE frames = <<>>
    <3>1. PICK c \in Callers : Plain(c) \/ Pays(c)
      BY <1>4
    <3>2. frames' = frames
      <4>1. CASE \E to \in Address, v \in Amounts : Mint(c, to, v)
        BY <4>1, MintEffect
      <4>2. CASE \E v \in Amounts : Burn(c, v)
        BY <4>2, BurnEffect
      <4>3. CASE Administers(c)
        BY <4>3, AdministersEffect
      <4>4. CASE Pays(c)
        BY <4>4 DEF Pays
      <4> QED
        BY <3>1, <4>1, <4>2, <4>3, <4>4 DEF Plain
    <3> QED
      BY <2>1, <3>2 DEF SafeInv
  <2>2. CASE frames # <<>>
    <3>1. /\ frames' = frames
          /\ \A u \in Users : db'.balances[u] >= db.balances[u]
      BY <1>4, <2>2, CallSpares
    <3> QED
      BY <1>1, <1>3, <2>2, <3>1, AtSame, SafeKept
  <2> QED
    BY <2>1, <2>2
<1>5. CASE \E f \in Frame : Opens(f)
  <2>1. PICK f \in Frame : Opens(f)
    BY <1>5
  <2>2. /\ frames' \in Seq(Frame)
        /\ Len(frames') = Len(frames) + 1
        /\ frames'[Len(frames) + 1] = f
        /\ \A i \in DOMAIN frames : frames'[i] = frames[i]
        /\ \A i \in DOMAIN frames' : At(i)' = At(i)
        /\ \A i : i \notin DOMAIN frames' => At(i)' = Now'
    BY <2>1, AtPush DEF Opens
  <2>3. DOMAIN frames' = 1..(Len(frames) + 1) /\ frames' # <<>>
    BY <1>1, <2>2, StackDomain
  <2>4. /\ f.value \in Nat /\ f.caller \in Callers
        /\ \A a \in Address : db'.balances[a]
                  = db.balances[a] - Taken(f, a) + Given(f, a)
    BY <2>1 DEF Opens, Frame
  <2>5. \A u \in Users : /\ db.balances[u] \in Nat
                         /\ db'.balances[u] \in Nat
                         /\ db'.balances[u] >= db.balances[u] - Taken(f, u)
    <3> SUFFICES ASSUME NEW u \in Users
                 PROVE  /\ db.balances[u] \in Nat
                        /\ db'.balances[u] \in Nat
                        /\ db'.balances[u] >= db.balances[u] - Taken(f, u)
      OBVIOUS
    <3>1. u \in Address
      BY DEF Users
    <3>2. db.balances[u] \in Nat /\ db'.balances[u] \in Nat
      BY <1>0, <3>1, Numbers
    <3>3. Taken(f, u) \in Nat /\ Given(f, u) \in Nat
      BY <2>4 DEF Taken, Given
    <3> QED
      BY <2>4, <3>1, <3>2, <3>3
  <2>6. CASE frames = <<>>
    <3>1. At(1)' = Now /\ frames'[1] = f
      BY <1>1, <2>2, <2>3, <2>6
    <3>2. \A j \in Nat : j > 1 => At(j)' = Now'
      BY <1>1, <2>2, <2>3, <2>6
    <3>3. Spared(Now, Now', f)
      BY <1>0, <2>5 DEF Spared
    <3>4. SafeInv' <=> (frames' # <<>> =>
              \A j \in Nat : j > 1 => Spared(At(1)', At(j)', frames'[1]))
      BY DEF SafeInv, Spared, Taken
    <3> QED
      BY <3>1, <3>2, <3>3, <3>4
  <2>7. CASE frames # <<>>
    <3>1. f.caller \in Contracts
      BY <2>4, <2>7, CallerParts
    <3>2. \A u \in Users : Taken(f, u) = 0
      BY <3>1 DEF Users, Taken
    <3>3. \A u \in Users : db'.balances[u] >= db.balances[u]
      BY <2>5, <3>2
    <3>4. frames'[1] = frames[1]
      BY <1>1, <2>2, <2>7
    <3> QED
      BY <1>3, <2>2, <2>3, <2>7, <3>3, <3>4, SafeKept
  <2> QED
    BY <2>6, <2>7
<1>6. CASE Return \/ Revert
  <2>1. frames # <<>> /\ frames' = Pop
    BY <1>6 DEF Return, Revert
  <2>2. /\ frames' \in Seq(Frame)
        /\ Len(frames') = Len(frames) - 1
        /\ frames[Len(frames)] \in Frame
        /\ At(Len(frames)) = frames[Len(frames)].before
        /\ \A i \in DOMAIN frames' : frames'[i] = frames[i]
        /\ \A i \in DOMAIN frames' : At(i)' = At(i)
        /\ \A i : i \notin DOMAIN frames' => At(i)' = Now'
    BY <2>1, AtPop
  <2>3. DOMAIN frames' = 1..(Len(frames) - 1) /\ Len(frames) \in Nat \ {0}
    BY <1>1, <2>1, <2>2, StackDomain
  <2>4. CASE frames' = <<>>
    BY <2>4 DEF SafeInv
  <2>5. CASE frames' # <<>>
    <3>1. Len(frames) > 1 /\ frames'[1] = frames[1]
      BY <2>2, <2>3, <2>5, StackDomain
    <3>2. Spared(At(1), Now', frames[1])
      <4>1. CASE Return
        BY <1>0, <1>2, <2>1, <4>1 DEF Return, Spared
      <4>2. CASE Revert
        <5>1. Now' = At(Len(frames))
          BY <2>2, <4>2 DEF Revert, Now, Frame, Snapshot
        <5> QED
          BY <1>1, <2>1, <3>1, <5>1 DEF SafeInv
      <4> QED
        BY <1>6, <4>1, <4>2
    <3> QED
      BY <2>1, <2>2, <2>5, <3>1, <3>2, SafeKept
  <2> QED
    BY <2>4, <2>5
<1>7. CASE Between
  BY <1>7 DEF Between, SafeInv
<1>8. CASE UNCHANGED vars
  BY <1>8 DEF vars, SafeInv, Spared, Taken, At, Now
<1> QED
  BY <1>4, <1>5, <1>6, <1>7, <1>8, StepKinds

LEMMA SafeInvImplies ==
    ASSUME IInv, SafeInv
    PROVE  WalletsAreSafe
<1>1. /\ Len(frames) \in Nat
      /\ At(Len(frames) + 1) = Now
      /\ frames = <<>> <=> Len(frames) = 0
  BY AtLast, StackDomain DEF IInv, SoundStack
<1>2. ASSUME frames # <<>>
      PROVE  Spared(At(1), Now, frames[1])
  <2>1. Len(frames) + 1 \in Nat /\ Len(frames) + 1 > 1
    BY <1>1, <1>2
  <2> QED
    BY <1>1, <1>2, <2>1 DEF SafeInv
<1> QED
  BY <1>2 DEF WalletsAreSafe, Spared, Taken, Now

\* While a transaction runs, no wallet but its sender holds less than before,
\* and the sender less by no more than the one transfer it asked for.
THEOREM CallbacksSpareWallets == Spec => []WalletsAreSafe
<1>1. Init => SafeInv
  BY DEF Init, SafeInv
<1>2. IInv /\ SafeInv /\ [Next]_vars => SafeInv'
  BY NextSafe
<1>3. IInv /\ SafeInv => WalletsAreSafe
  BY SafeInvImplies
<1> QED
  BY <1>1, <1>2, <1>3, Invariant, PTL DEF Spec

-----------------------------------------------------------------------------
(* Removing an issuer.                                                     *)

\* The steps that can take an account off the list.
LEMMA IssuerSteps ==
    ASSUME IInv, [Next]_vars
    PROVE  \/ Revert
           \/ \E c \in Callers, x \in Address : RemoveIssuer(c, x)
           \/ \A a \in Address : IsIssuer(a) => IsIssuer(a)'
<1>0. /\ db \in Storage /\ db.issuers \in Seq(Address)
      /\ db.issuers' = db'.issuers
  BY StateParts DEF IInv
<1>1. ASSUME db'.issuers = db.issuers
      PROVE  \A a \in Address : IsIssuer(a) => IsIssuer(a)'
  BY <1>1 DEF IsIssuer
<1>2. CASE Transfers
  <2>1. PICK c \in Callers, to \in Address, v \in Amounts :
            Transfer(c, to, v)
    BY <1>2 DEF Transfers
  <2>2. Unruled(db, db')
    BY <2>1, TransferEffect
  <2> QED
    BY <1>1, <2>2 DEF Unruled
<1>3. CASE \E n \in IssuerCaps, a \in Admins : Constructor(n, a)
  BY <1>0, <1>1, <1>3 DEF Constructor, Storage
<1>4. ASSUME NEW c \in Callers, OtherCall(c)
      PROVE  \/ \E x \in Address : RemoveIssuer(c, x)
             \/ \A a \in Address : IsIssuer(a) => IsIssuer(a)'
  <2>1. CASE \E code \in Contracts : CallContract(c, code)
    BY <1>1, <2>1 DEF CallContract
  <2>2. CASE \E to \in Address, v \in Amounts : Mint(c, to, v)
    BY <1>1, <2>2, MintEffect DEF Unruled
  <2>3. CASE \E v \in Amounts : Burn(c, v)
    BY <1>1, <2>3, BurnEffect DEF Unruled
  <2>4. CASE \E x \in Address : AddIssuer(c, x)
    <3>1. PICK x \in Address : AddIssuer(c, x)
      BY <2>4
    <3>2. db'.issuers = Append(db.issuers, x)
      BY <1>0, <3>1 DEF AddIssuer, Storage
    <3>3. /\ \A i \in 1..Len(db.issuers) : db'.issuers[i] = db.issuers[i]
          /\ Len(db'.issuers) = Len(db.issuers) + 1
          /\ db'.issuers \in Seq(Address)
      BY <1>0, <3>2, AppendProperties
    <3>4. /\ DOMAIN db.issuers = 1..Len(db.issuers)
          /\ DOMAIN db'.issuers = 1..Len(db'.issuers)
          /\ Len(db.issuers) \in Nat
      BY <1>0, <3>3
    <3> QED
      BY <3>3, <3>4 DEF IsIssuer
  <2>5. CASE \E x \in Address : RemoveIssuer(c, x)
    BY <2>5
  <2>6. CASE \E x \in Address, v \in Amounts : Approve(c, x, v)
    <3>1. PICK x \in Address, v \in Amounts : Approve(c, x, v)
      BY <2>6
    <3> DEFINE al == [db.allowances EXCEPT ![x] = v]
    <3>2. db' = [db EXCEPT !.allowances = al]
      BY <3>1 DEF Approve
    <3> HIDE DEF al
    <3> QED
      BY <1>0, <1>1, <3>2 DEF Storage
  <2>7. CASE \E x \in Admins : TransferAdminRight(c, x)
    BY <1>0, <1>1, <2>7 DEF TransferAdminRight, Storage
  <2>8. CASE TogglePause(c)
    <3> DEFINE b == ~db.paused
    <3>1. db' = [db EXCEPT !.paused = b]
      BY <2>8, Zenon DEF TogglePause
    <3> HIDE DEF b
    <3> QED
      BY <1>0, <1>1, <3>1 DEF Storage
  <2>9. CASE \E n \in Limits : ChangeFreeDailyTxLimit(c, n)
    BY <1>0, <1>1, <2>9 DEF ChangeFreeDailyTxLimit, Storage
  <2> QED
    BY <1>4, <2>1, <2>2, <2>3, <2>4, <2>5, <2>6, <2>7, <2>8, <2>9, Zenon
       DEF OtherCall
<1>5. CASE Return
  BY <1>1, <1>5 DEF Return
<1>6. CASE Revert
  BY <1>6
<1>7. CASE NewBlock
  BY <1>1, <1>7 DEF NewBlock
<1>8. CASE UNCHANGED vars
  BY <1>1, <1>8 DEF vars
<1> QED
  BY <1>2, <1>3, <1>4, <1>5, <1>6, <1>7, <1>8, Zenon DEF Next, OtherSteps

LEMMA RemovalKeepsOthers ==
    ASSUME IInv, NEW c \in Callers, NEW x \in Address, RemoveIssuer(c, x),
           NEW b \in Address \ {x}, IsIssuer(b)
    PROVE  IsIssuer(b)' /\ db'.allowances[b] = db.allowances[b]
<1>1. /\ Sound(Now) /\ db \in Storage /\ db.issuers \in Seq(Address)
      /\ db.allowances \in [Address -> Int]
      /\ Listed(db.issuers, x) /\ Listed(db.issuers, b)
  BY StateParts DEF IInv, RemoveIssuer, IsIssuer, Listed
<1>2. Distinct(db.issuers)
  BY <1>1 DEF Sound, Orderly, Now
<1> DEFINE new == Without(db.issuers, x)
           al == [db.allowances EXCEPT ![x] = 0]
<1>3. Listed(new, b)
  BY <1>1, <1>2, WithoutProperties
<1>4. al[b] = db.allowances[b]
  BY <1>1
<1>5. db' = [db EXCEPT !.issuers = new, !.allowances = al]
  BY DEF RemoveIssuer
<1> HIDE DEF new, al
<1>6. db'.issuers = new /\ db'.allowances = al
  BY <1>1, <1>5 DEF Storage
<1> QED
  BY <1>3, <1>4, <1>6 DEF IsIssuer, Listed

\* A removal, which fills the gap with the last issuer, never costs another
\* issuer its place or its allowance: only the failure of the call that
\* added it, or approved it, does.
THEOREM RemovalIsPrecise == Spec => OthersKeepRights
<1>1. IInv /\ [Next]_vars =>
        [\A a, b \in Address :
            IsIssuer(a) /\ ~IsIssuer(a)' /\ a # b /\ IsIssuer(b)
                => \/ Revert
                   \/ IsIssuer(b)' /\ db'.allowances[b] = db.allowances[b]]_vars
  <2> SUFFICES ASSUME IInv, [Next]_vars, NEW a \in Address, NEW b \in Address,
                      IsIssuer(a), ~IsIssuer(a)', a # b, IsIssuer(b), ~Revert
               PROVE  IsIssuer(b)' /\ db'.allowances[b] = db.allowances[b]
    BY Zenon
  <2>1. PICK c \in Callers, x \in Address : RemoveIssuer(c, x)
    BY IssuerSteps
  <2>2. CASE a = x
    BY <2>1, <2>2, RemovalKeepsOthers
  <2>3. CASE a # x
    BY <2>1, <2>3, RemovalKeepsOthers
  <2> QED
    BY <2>2, <2>3
<1> QED
  BY <1>1, Invariant, PTL DEF Spec, OthersKeepRights
=============================================================================
