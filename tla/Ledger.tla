-------------------------------- MODULE Ledger ------------------------------
(***************************************************************************)
(* What the stable coin promises to those who look at it between           *)
(* transactions: each transaction is one step, whoever is called within    *)
(* it, and changes the accounts only in the ways below.  Transactions      *)
(* shows that StableCoin implements it.                                    *)
(***************************************************************************)
EXTENDS Integers, FiniteSets

CONSTANTS
    Address,       \* every account
    Users,         \* those that sign transactions
    Contracts,     \* those that hold code
    EOA_ZERO,      \* the zero address
    Null           \* nobody

VARIABLES
    signer,        \* who signed the last transaction
    admin,         \* the administrator, Null before the deployment
    paused,
    issuers,       \* the accounts that may mint
    supply,
    balances,
    allowances,    \* what each issuer may still mint
    approved       \* the sum of all approvals so far

vars == <<signer, admin, paused, issuers, supply, balances, allowances,
          approved>>

\* The sum of the positive values of f.
Total(f) == Cardinality(UNION {{a} \X (1..f[a]) : a \in DOMAIN f})

Init ==
    /\ signer = Null
    /\ admin = Null
    /\ paused = FALSE
    /\ issuers = {}
    /\ supply = 0
    /\ balances = [a \in Address |-> 0]
    /\ allowances = [a \in Address |-> 0]
    /\ approved = 0

Deploy ==
    /\ admin = Null
    /\ admin' \in Address \ {EOA_ZERO}
    /\ UNCHANGED <<signer, paused, issuers, supply, balances, allowances,
                   approved>>

\* Only its signer and contracts pay, and nobody pays the zero address; the
\* supply is what the accounts then hold, and what is created was approved,
\* before or in the transaction.
Moves(sender) ==
    /\ balances' \in [Address -> Nat]
    /\ \A w \in Users \ {sender} : balances'[w] >= balances[w]
    /\ balances'[EOA_ZERO] = balances[EOA_ZERO]
    /\ supply' = Total(balances')
    /\ supply' + Total(allowances') - approved'
          <= supply + Total(allowances) - approved

\* Nobody who acts in the transaction is the administrator: the rights
\* stay, nothing moves during a pause, and issuers mint.
Unadministered ==
    /\ UNCHANGED <<admin, paused, issuers, approved>>
    /\ paused => UNCHANGED <<supply, balances>>
    /\ \A a \in Address :
          \/ allowances'[a] = allowances[a]
          \/ a \in issuers /\ allowances'[a] \in 0..allowances[a]

\* With the administrator among those who act, the rights may change hands.
Administered ==
    /\ admin' \in Address \ {EOA_ZERO}
    /\ paused' \in BOOLEAN
    /\ issuers' \subseteq Address
    /\ approved' >= approved
    /\ \A a \in Address \ issuers' : allowances'[a] = 0

Transaction(sender) ==
    /\ admin # Null
    /\ signer' = sender
    /\ Moves(sender)
    /\ IF admin \in Contracts \cup {sender} THEN Administered
                                            ELSE Unadministered

Next == Deploy \/ \E sender \in Users : Transaction(sender)

Spec == Init /\ [][Next]_vars
=============================================================================
