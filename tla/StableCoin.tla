----------------------------- MODULE StableCoin -----------------------------
(***************************************************************************)
(* The stable coin SCORE: StableCoin.java and AbstractStableCoin.java.     *)
(*                                                                         *)
(* A step is one call the contract accepts; a call that fails a `require`  *)
(* leaves nothing behind and is no step.  The exception is a transfer to   *)
(* another contract: it moves the balances, hands control to the           *)
(* receiver's tokenFallback and emits its event only when that returns.    *)
(* The calls in progress are the stack `frames`, and while it is not empty *)
(* the contract on its top is the only caller: it may call the coin again, *)
(* call another contract, return, or fail and be rolled back.              *)
(***************************************************************************)
EXTENDS FeeSharing, Sequences, FiniteSets

CONSTANTS
    Address,            \* every account
    Contracts,          \* those that hold code, the coin itself aside
    EOA_ZERO,           \* the zero address
    Amounts,            \* `_value` arguments
    Limits,             \* `_new_limit` arguments
    IssuerCaps,         \* `_nIssuers` arguments
    Admins,             \* `_admin` and `_newAdmin` arguments
    IntRange,           \* 2^31: BigInteger.intValue keeps 32 bits
    DefaultFreeLimit,   \* the constructor's freeDailyTxLimit (50)
    MaxDepth,           \* bound: nested calls
    MaxHeight,          \* bound: block height
    MaxApproved         \* bound: sum of the approvals

ASSUME StableCoinAssumption ==
    /\ IsFiniteSet(Address)
    /\ EOA_ZERO \in Address
    /\ Contracts \subseteq Address \ {EOA_ZERO}
    /\ Admins \subseteq Address
    /\ Null \notin Address
    /\ Amounts \subseteq Int
    /\ Limits \subseteq Int
    /\ IssuerCaps \subseteq Int
    /\ IntRange \in Nat \ {0}
    /\ DefaultFreeLimit \in Nat
    /\ {MaxDepth, MaxHeight, MaxApproved} \subseteq Nat

VARIABLES
    db,           \* the contract's storage
    log,          \* what its events add up to
    frames,       \* the calls in progress, outermost first
    blockHeight

vars == <<db, log, frames, blockHeight>>

\* The accounts with a key, which sign transactions.
Users == Address \ (Contracts \cup {EOA_ZERO})

Storage ==
    [admin            : Address \cup {Null},
     nIssuers         : Nat,
     issuers          : Seq(Address),
     totalSupply      : Nat,
     paused           : BOOLEAN,
     freeDailyTxLimit : Nat,
     balances         : [Address -> Nat],
     allowances       : [Address -> Int],
     whitelist        : [Address -> Entry]]

\* `net`: Transfer events received minus sent (a mint is sent by the zero
\* address, a burn received by it); `approved`: the positive amounts of the
\* Approval events.
EventLog == [net : [Address -> Int], approved : Nat]

Snapshot == [db : Storage, log : EventLog]

\* A call from `caller` into the contract `code`; `value` is what the coin
\* transferred with it, or 0 if the call did not come through the coin.
Frame == [code : Contracts, caller : Address, value : Nat, before : Snapshot]

-----------------------------------------------------------------------------
Installed == db.admin # Null

Now == [db |-> db, log |-> log]

\* Who can be the caller of the next step.
Callers == IF frames = <<>> THEN Users ELSE {frames[Len(frames)].code}

IsIssuer(a) == \E i \in DOMAIN db.issuers : db.issuers[i] = a

\* BigInteger.intValue
IntValue(n) == ((n + IntRange) % (2 * IntRange)) - IntRange

\* Mutant: both balances are read before either is written.
MoveStale(f, a, b, v) == [f EXCEPT ![a] = f[a] - v, ![b] = f[b] + v]

\* f with v taken from a and then given to b: two writes, so that a = b
\* leaves f as it is.
Move(f, a, b, v) ==
    LET g == [f EXCEPT ![a] = @ - v]
    IN  [g EXCEPT ![b] = @ + v]

TransferEvent(l, from, to, v) == [l EXCEPT !.net = Move(@, from, to, v)]

ApprovalEvent(l, v) ==
    [l EXCEPT !.approved = @ + (IF v > 0 THEN v ELSE 0)]

Push(code, caller, v) ==
    Append(frames, [code |-> code, caller |-> caller,
                    value |-> v, before |-> Now])

Pop == SubSeq(frames, 1, Len(frames) - 1)

-----------------------------------------------------------------------------
Init ==
    /\ db = [admin            |-> Null,
             nIssuers         |-> 0,
             issuers          |-> <<>>,
             totalSupply      |-> 0,
             paused           |-> FALSE,
             freeDailyTxLimit |-> 0,
             balances         |-> [a \in Address |-> 0],
             allowances       |-> [a \in Address |-> 0],
             whitelist        |-> [a \in Address |-> NoEntry]]
    /\ log = [net |-> [a \in Address |-> 0], approved |-> 0]
    /\ frames = <<>>
    /\ blockHeight = 0

\* Deployment; an update of the installed contract runs it again.
Constructor(nIssuers, admin) ==
    /\ frames = <<>>
    /\ \/ Installed /\ UNCHANGED db
       \/ /\ ~Installed
          /\ nIssuers >= 0
          /\ admin # EOA_ZERO
          /\ db' = [db EXCEPT !.admin = admin,
                              !.nIssuers = IF nIssuers = 0 THEN 2 ELSE nIssuers,
                              !.totalSupply = 0,
                              !.paused = FALSE,
                              !.freeDailyTxLimit = DefaultFreeLimit]
    /\ UNCHANGED <<log, frames, blockHeight>>

\* The storage after `transfer` has charged the caller's free transfers and
\* written the balances.
Transferred(from, to, v) ==
    [db EXCEPT !.whitelist[from] =
                   AfterTransfer(@, db.freeDailyTxLimit, blockHeight),
               !.balances = Move(@, from, to, v)]

Transfer(from, to, v) ==
    /\ Installed
    /\ v > 0
    /\ db.balances[from] >= v
    /\ to # EOA_ZERO
    /\ ~db.paused
    /\ db' = Transferred(from, to, v)
    /\ \/ /\ to \notin Contracts
          /\ log' = TransferEvent(log, from, to, v)
          /\ UNCHANGED frames
       \/ /\ to \in Contracts
          /\ Len(frames) < MaxDepth
          /\ frames' = Push(to, from, v)
          /\ UNCHANGED log
    /\ UNCHANGED blockHeight

\* An account calls a contract otherwise than through the coin.
CallContract(caller, code) ==
    /\ Installed
    /\ Len(frames) < MaxDepth
    /\ frames' = Push(code, caller, 0)
    /\ UNCHANGED <<db, log, blockHeight>>

\* Mutant: no event after a callback.
ReturnSilently ==
    /\ frames # <<>>
    /\ frames' = Pop
    /\ UNCHANGED <<db, log, blockHeight>>

\* The contract on top returns; if the coin called it, the transfer is
\* completed by its event (of value 0, that is none, if it did not).
Return ==
    /\ frames # <<>>
    /\ LET top == frames[Len(frames)]
       IN  log' = TransferEvent(log, top.caller, top.code, top.value)
    /\ frames' = Pop
    /\ UNCHANGED <<db, blockHeight>>

\* The contract on top fails.  The coin lets the failure of tokenFallback
\* through, so the transfer is undone with everything the callback did.
Revert ==
    /\ frames # <<>>
    /\ db' = frames[Len(frames)].before.db
    /\ log' = frames[Len(frames)].before.log
    /\ frames' = Pop
    /\ UNCHANGED blockHeight

\* Mutant: a mint leaves the allowance as it was.
MintedForFree(issuer, to, v) ==
    [db EXCEPT !.whitelist[to] = AfterMint(@, blockHeight),
               !.totalSupply = @ + v,
               !.balances[to] = @ + v]

Minted(issuer, to, v) ==
    [db EXCEPT !.allowances[issuer] = @ - v,
               !.whitelist[to] = AfterMint(@, blockHeight),
               !.totalSupply = @ + v,
               !.balances[to] = @ + v]

\* mint and mintTo
Mint(issuer, to, v) ==
    /\ Installed
    /\ to # EOA_ZERO
    /\ v > 0
    /\ IsIssuer(issuer)
    /\ ~db.paused
    /\ db.allowances[issuer] >= v
    /\ db' = Minted(issuer, to, v)
    /\ log' = TransferEvent(log, EOA_ZERO, to, v)
    /\ UNCHANGED <<frames, blockHeight>>

\* Mutant: the balance is not checked.
BurnUnchecked(from, v) ==
    /\ Installed
    /\ v > 0
    /\ ~db.paused
    /\ db' = [db EXCEPT !.totalSupply = @ - v, !.balances[from] = @ - v]
    /\ log' = TransferEvent(log, from, EOA_ZERO, v)
    /\ UNCHANGED <<frames, blockHeight>>

\* Mutant: the sender of the transaction is taken for the caller.
BurnByOrigin(from, v) ==
    LET origin == IF frames = <<>> THEN from ELSE frames[1].caller
    IN  /\ Installed
        /\ v > 0
        /\ db.balances[origin] >= v
        /\ ~db.paused
        /\ db' = [db EXCEPT !.totalSupply = @ - v, !.balances[origin] = @ - v]
        /\ log' = TransferEvent(log, origin, EOA_ZERO, v)
        /\ UNCHANGED <<frames, blockHeight>>

Burn(from, v) ==
    /\ Installed
    /\ v > 0
    /\ db.balances[from] >= v
    /\ ~db.paused
    /\ db' = [db EXCEPT !.totalSupply = @ - v, !.balances[from] = @ - v]
    /\ log' = TransferEvent(log, from, EOA_ZERO, v)
    /\ UNCHANGED <<frames, blockHeight>>

-----------------------------------------------------------------------------
(* The administrator's calls.                                              *)

HasRoom == Len(db.issuers) < IntValue(db.nIssuers)

AddIssuer(caller, issuer) ==
    /\ caller = db.admin
    /\ ~IsIssuer(issuer)
    /\ HasRoom
    /\ db' = [db EXCEPT !.issuers = Append(@, issuer)]
    /\ UNCHANGED <<log, frames, blockHeight>>

\* Mutant: the last element is lost and the removed one stays.
WithoutLast(issuers, issuer) == SubSeq(issuers, 1, Len(issuers) - 1)

\* The list without its last element, which takes the removed one's place.
Without(issuers, issuer) ==
    LET top == issuers[Len(issuers)]
    IN  [i \in 1..(Len(issuers) - 1) |->
            IF issuers[i] = issuer THEN top ELSE issuers[i]]

\* Mutant: the allowance survives the removal.
RemoveIssuerOnly(caller, issuer) ==
    /\ caller = db.admin
    /\ IsIssuer(issuer)
    /\ db' = [db EXCEPT !.issuers = Without(@, issuer)]
    /\ UNCHANGED <<log, frames, blockHeight>>

RemoveIssuer(caller, issuer) ==
    /\ caller = db.admin
    /\ IsIssuer(issuer)
    /\ db' = [db EXCEPT !.issuers = Without(@, issuer),
                        !.allowances[issuer] = 0]
    /\ UNCHANGED <<log, frames, blockHeight>>

\* Mutant: not only the administrator.
ApproveByAnyone(caller, issuer, v) ==
    /\ IsIssuer(issuer)
    /\ ApprovalEvent(log, v).approved <= MaxApproved
    /\ db' = [db EXCEPT !.allowances[issuer] = v]
    /\ log' = ApprovalEvent(log, v)
    /\ UNCHANGED <<frames, blockHeight>>

Approve(caller, issuer, v) ==
    /\ caller = db.admin
    /\ IsIssuer(issuer)
    /\ ApprovalEvent(log, v).approved <= MaxApproved
    /\ db' = [db EXCEPT !.allowances[issuer] = v]
    /\ log' = ApprovalEvent(log, v)
    /\ UNCHANGED <<frames, blockHeight>>

TransferAdminRight(caller, newAdmin) ==
    /\ caller = db.admin
    /\ newAdmin # EOA_ZERO
    /\ db' = [db EXCEPT !.admin = newAdmin]
    /\ UNCHANGED <<log, frames, blockHeight>>

\* Mutant: not only the administrator.
TogglePauseByAnyone(caller) ==
    /\ Installed
    /\ db' = [db EXCEPT !.paused = ~@]
    /\ UNCHANGED <<log, frames, blockHeight>>

TogglePause(caller) ==
    /\ caller = db.admin
    /\ db' = [db EXCEPT !.paused = ~@]
    /\ UNCHANGED <<log, frames, blockHeight>>

ChangeFreeDailyTxLimit(caller, limit) ==
    /\ caller = db.admin
    /\ limit >= 0
    /\ db' = [db EXCEPT !.freeDailyTxLimit = limit]
    /\ UNCHANGED <<log, frames, blockHeight>>

\* Blocks pass between transactions.
NewBlock ==
    /\ frames = <<>>
    /\ blockHeight < MaxHeight
    /\ blockHeight' = blockHeight + 1
    /\ UNCHANGED <<db, log, frames>>

-----------------------------------------------------------------------------
Transfers ==
    \E c \in Callers, to \in Address, v \in Amounts : Transfer(c, to, v)

OtherCall(c) ==
    \/ \E code \in Contracts : CallContract(c, code)
    \/ \E to \in Address, v \in Amounts : Mint(c, to, v)
    \/ \E v \in Amounts : Burn(c, v)
    \/ \E a \in Address : AddIssuer(c, a)
    \/ \E a \in Address : RemoveIssuer(c, a)
    \/ \E a \in Address, v \in Amounts : Approve(c, a, v)
    \/ \E a \in Admins : TransferAdminRight(c, a)
    \/ TogglePause(c)
    \/ \E n \in Limits : ChangeFreeDailyTxLimit(c, n)

OtherSteps ==
    \/ \E n \in IssuerCaps, a \in Admins : Constructor(n, a)
    \/ \E c \in Callers : OtherCall(c)
    \/ Return
    \/ Revert
    \/ NewBlock

Next == Transfers \/ OtherSteps

Spec == Init /\ [][Next]_vars

-----------------------------------------------------------------------------
(* Properties.                                                             *)

\* Types of the storage, of the log and of every saved copy of them; in
\* particular no balance and no supply is ever negative.
TypeOK ==
    /\ db \in Storage
    /\ log \in EventLog
    /\ frames \in Seq(Frame)
    /\ blockHeight \in Nat

\* The sum of the positive values of f.
Total(f) == Cardinality(UNION {{a} \X (1..f[a]) : a \in DOMAIN f})

\* The supply is what the accounts hold, at every moment: also while a
\* tokenFallback runs, after a transfer to oneself and after an update.
SupplyBacked == db.totalSupply = Total(db.balances)

\* The state in which frame i was entered; past the last frame, the current
\* state.  At(1) is the state the transaction in progress began in.
At(i) == IF i \in DOMAIN frames THEN frames[i].before ELSE Now

\* What an account holds beyond what the events say it received.
Unlogged(s, a) ==
    IF a = EOA_ZERO
    THEN s.db.balances[a] + s.log.net[a] + s.db.totalSupply
    ELSE s.db.balances[a] - s.log.net[a]

\* The Transfer events, mints from and burns to the zero address included,
\* account for every balance and for the supply, except for the transfers
\* whose callback is still running: each of these is missing from the log,
\* once, from the moment its callback starts until it returns.
LogSettles ==
    /\ \A a \in Address : Unlogged(At(1), a) = 0
    /\ \A i \in DOMAIN frames :
          [a \in Address |-> Unlogged(At(i + 1), a)]
              = Move([a \in Address |-> Unlogged(At(i), a)],
                     frames[i].caller, frames[i].code, frames[i].value)

\* No sequence of mints, burns, approvals, removals and rollbacks puts more
\* tokens into existence than the administrator approved: the supply and
\* what issuers may still mint stay within the Approval events.
MintedWithinApprovals ==
    db.totalSupply + Total(db.allowances) <= log.approved

\* The issuers are distinct and fit in their maximum, and an account that
\* is not one of them keeps no right to mint, so that one added again
\* starts from nothing.
IssuersOK ==
    /\ \A i, j \in DOMAIN db.issuers :
          db.issuers[i] = db.issuers[j] => i = j
    /\ Len(db.issuers) <= db.nIssuers
    /\ \A a \in Address : IsIssuer(a) \/ db.allowances[a] = 0

\* Removing an issuer, which moves another one in the list, takes neither
\* the place nor the allowance of any other.
OthersKeepRights ==
    [][\A a, b \in Address :
          IsIssuer(a) /\ ~IsIssuer(a)' /\ a # b /\ IsIssuer(b)
              => \/ Revert
                 \/ IsIssuer(b)' /\ db'.allowances[b] = db.allowances[b]]_vars

\* With a wallet as administrator, nothing a transaction's callbacks do has
\* an administrative effect: they raise no allowance, and they move no
\* token if the coin was paused when they began.
CallbackCannotAdminister ==
    \A i \in DOMAIN frames :
        LET old == At(i).db
        IN  old.admin \in Users =>
                /\ db.admin = old.admin
                /\ db.issuers = old.issuers
                /\ db.paused = old.paused
                /\ db.freeDailyTxLimit = old.freeDailyTxLimit
                /\ \A a \in Address : db.allowances[a] <= old.allowances[a]
                /\ old.paused => db.balances = old.balances

\* A wallet that sends a transaction loses the amount of its own transfer
\* at most, whatever the contracts called by it do; other wallets lose
\* nothing.
WalletsAreSafe ==
    frames # <<>> =>
        \A u \in Users :
            db.balances[u] >= At(1).db.balances[u]
                - (IF u = frames[1].caller THEN frames[1].value ELSE 0)
=============================================================================
