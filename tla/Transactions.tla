----------------------------- MODULE Transactions ---------------------------
(***************************************************************************)
(* The stable coin as it is seen between transactions.  A history variable *)
(* is added to StableCoin, the signer of the last transaction that is      *)
(* complete; what is seen is the state that it left, until the next one    *)
(* is complete too.                                                        *)
(***************************************************************************)
EXTENDS StableCoin

VARIABLE signer

\* A call by c; it is a whole transaction unless other calls surround it.
Called(c) ==
    /\ \/ \E to \in Address, v \in Amounts : Transfer(c, to, v)
       \/ OtherCall(c)
    /\ signer' = IF frames = <<>> /\ frames' = <<>> THEN c ELSE signer

\* A call ends, and with the outermost one the transaction.
Ended ==
    /\ Return \/ Revert
    /\ signer' = IF Len(frames) = 1 THEN frames[1].caller ELSE signer

TxInit == Init /\ signer = Null

TxNext ==
    \/ \E c \in Callers : Called(c)
    \/ Ended
    \/ /\ (\E n \in IssuerCaps, a \in Admins : Constructor(n, a)) \/ NewBlock
       /\ UNCHANGED signer

TxSpec == TxInit /\ [][TxNext]_<<vars, signer>>

-----------------------------------------------------------------------------
\* The state seen: the one the transaction in progress began in.
Outside == INSTANCE Ledger WITH
    admin      <- At(1).db.admin,
    paused     <- At(1).db.paused,
    issuers    <- {At(1).db.issuers[i] : i \in DOMAIN At(1).db.issuers},
    supply     <- At(1).db.totalSupply,
    balances   <- At(1).db.balances,
    allowances <- At(1).db.allowances,
    approved   <- At(1).log.approved

\* Transactions are atomic to those outside: however many calls are nested
\* in one, completed or rolled back, together they do what one step of the
\* ledger may do.
TransactionsAreAtomic == Outside!Spec
=============================================================================
