----------------------------- MODULE FeeHistory -----------------------------
(***************************************************************************)
(* StableCoin observed by the one who pays for the free transfers: how     *)
(* many the contract has sponsored, for whom and in which block.           *)
(*                                                                         *)
(* The history is kept beside the contract's state and never read by it.   *)
(* It cannot be rolled back, so this module is for wallets only: a         *)
(* transfer between wallets that is accepted is never undone.              *)
(***************************************************************************)
EXTENDS StableCoin, FiniteSetsExt

ASSUME FeeHistoryAssumption == Contracts = {}

VARIABLES
    granted,   \* the blocks of each account's sponsored transfers, in order
    peak       \* the highest freeDailyTxLimit there was

feeVars == <<db, log, frames, blockHeight, granted, peak>>

\* setFeeSharingProportion(100): the contract pays the caller's fee.
IsSponsored(a) == Sponsored(db.whitelist[a], db.freeDailyTxLimit, blockHeight)

FeeTransfer(from, to, v) ==
    /\ Transfer(from, to, v)
    /\ granted' = IF IsSponsored(from)
                  THEN [granted EXCEPT ![from] = Append(@, blockHeight)]
                  ELSE granted

\* remainingFreeTxThisTerm, the query
Remaining(a) ==
    RemainingFreeTxThisTerm(db.whitelist[a], db.freeDailyTxLimit, blockHeight)

FeeInit ==
    /\ Init
    /\ granted = [a \in Address |-> <<>>]
    /\ peak = 0

FeeNext ==
    /\ \/ \E c \in Callers, to \in Address, v \in Amounts :
              FeeTransfer(c, to, v)
       \/ OtherSteps /\ UNCHANGED granted
    /\ peak' = Max({peak, db'.freeDailyTxLimit})

FeeSpec == FeeInit /\ [][FeeNext]_feeVars

-----------------------------------------------------------------------------
\* How many transfers were sponsored from a block on.
Since(heights, block) ==
    Cardinality({i \in DOMAIN heights : heights[i] >= block})

SinceTermBegan(a) == Since(granted[a], db.whitelist[a].start)

\* One term's length of blocks, the last of them the current one.
InLastTerm(a) == Since(granted[a], blockHeight - TERM_LENGTH + 1)

\* The count kept for an account is the number of transfers it was granted
\* since its term began, or one more for an account enrolled by a mint; it
\* survives changes of the limit and stays within the highest limit.
CountIsGrants ==
    \A a \in Address :
        IsWhitelisted(db.whitelist[a]) =>
            /\ TxnCount(db.whitelist[a]) - SinceTermBegan(a) \in {0, 1}
            /\ SinceTermBegan(a) <= Max({1, peak})

\* Terms follow the account's transfers and not the calendar, so one term's
\* length of blocks may straddle two terms, and never three: no account is
\* granted more than twice the highest limit there was, or two transfers if
\* that was 0, in any TERM_LENGTH blocks.
WindowBudget ==
    \A a \in Address : InLastTerm(a) <= 2 * Max({1, peak})

\* A mint costs its receiver one of the free transfers and nothing else
\* does: with a limit of two or more, an account that was granted none for
\* a term's length has its next transfer sponsored.
FreshIsSponsored ==
    \A a \in Users :
        /\ Installed
        /\ db.freeDailyTxLimit >= 2
        /\ InLastTerm(a) = 0
        => IsSponsored(a)

-----------------------------------------------------------------------------
(* What the documentation promises.                                        *)

\* "@return number of free transactions left for `_owner`": the query
\* returns a number, for every account.
RemainingDefined == \A a \in Address : Remaining(a) # Null

\* Under a positive limit, a whitelisted account of which it says that
\* none are left has none left.
RemainingIsExact ==
    \A a \in Address :
        /\ IsWhitelisted(db.whitelist[a])
        /\ db.freeDailyTxLimit > 0
        /\ Remaining(a) = 0
        => ~IsSponsored(a)
=============================================================================
