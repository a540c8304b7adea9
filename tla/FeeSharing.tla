----------------------------- MODULE FeeSharing -----------------------------
(***************************************************************************)
(* The fee-sharing book-keeping of the stable coin: what the contract does *)
(* with one account's entry of `_whitelist`, as operators on that entry.   *)
(*                                                                         *)
(* The contract pays the fee of an account's first `freeDailyTxLimit`      *)
(* transfers of a term.  An entry holds the block at which the account's   *)
(* term began (START_HEIGHT) and the number of transfers it was granted    *)
(* since (TXN_COUNT); either is absent until the code first sets it.       *)
(***************************************************************************)
EXTENDS Integers

CONSTANTS TERM_LENGTH,   \* blocks in a term (43120 in the code)
          Null           \* a key of the database that was never set

ASSUME FeeSharingAssumption ==
    /\ TERM_LENGTH \in Nat \ {0}
    /\ Null \notin Int

Entry == [start : Nat \cup {Null}, count : Nat \cup {Null}]

NoEntry == [start |-> Null, count |-> Null]

IsWhitelisted(e) == e.start # Null

-----------------------------------------------------------------------------
(* setFeeSharingPercentage, run at the start of every transfer.            *)

\* The entry after the first test: an account seen for the first time
\* begins a term, but its count stays absent.
Opened(e, height) ==
    IF IsWhitelisted(e) THEN e ELSE [e EXCEPT !.start = height]

TxnCount(e) == IF e.count = Null THEN 0 ELSE e.count

\* Mutant: the term lasts one block more.
InTermInclusive(e, height) == e.start + TERM_LENGTH >= height

InTerm(e, height) == e.start + TERM_LENGTH > height

\* Mutant: one transfer more than the limit.
HasFreeInclusive(e, limit) == TxnCount(e) <= limit

HasFree(e, limit) == TxnCount(e) < limit

\* Does the contract pay the fee of a transfer made now?
Sponsored(e, limit, height) ==
    LET o == Opened(e, height)
    IN  InTerm(o, height) => HasFree(o, limit)

\* Mutant: a new term goes on with the old count.
AfterTransferNoReset(e, limit, height) ==
    LET o == Opened(e, height)
    IN  IF InTerm(o, height)
        THEN IF HasFree(o, limit)
             THEN [o EXCEPT !.count = TxnCount(o) + 1]
             ELSE o
        ELSE [start |-> height, count |-> TxnCount(o) + 1]

\* What a transfer leaves in its caller's entry.
AfterTransfer(e, limit, height) ==
    LET o == Opened(e, height)
    IN  IF InTerm(o, height)
        THEN IF HasFree(o, limit)
             THEN [o EXCEPT !.count = TxnCount(o) + 1]
             ELSE o
        ELSE [start |-> height, count |-> 1]

-----------------------------------------------------------------------------
\* _whitelistWallet: a mint enrols its receiver, and counts as one grant.
AfterMint(e, height) ==
    IF IsWhitelisted(e) THEN e ELSE [start |-> height, count |-> 1]

\* remainingFreeTxThisTerm.  Null stands for the failure of the query when
\* it subtracts a count that is absent.
RemainingFreeTxThisTerm(e, limit, height) ==
    IF ~IsWhitelisted(e) THEN 0
    ELSE IF e.start + TERM_LENGTH < height THEN limit
    ELSE IF e.count = Null THEN Null
    ELSE limit - e.count
=============================================================================
