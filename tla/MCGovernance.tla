---------------------------- MODULE MCGovernance ----------------------------
(***************************************************************************)
(* Small instances of Governance for TLC.                                  *)
(***************************************************************************)
EXTENDS Governance, TLC

CONSTANTS a, b, c, p, q, score

\* The voters: one of them holds most of the delegation, so that a majority
\* of heads and one of the amounts differ; then the same with delegations
\* changed, and without the one.
MCLists == {a :> 1 @@ b :> 1 @@ c :> 4,
            a :> 1 @@ b :> 3 @@ c :> 2,
            a :> 1 @@ b :> 1}

\* And a list to which nothing is delegated at all.
MCVoters == MCLists \cup {a :> 0 @@ b :> 0}

\* A proposal that takes effect in any case, and one that never can: to
\* lower the revision.
MCVoted == {<<"TEXT", "text">>, <<"REVISION", 0>>}

MCEqual == {a :> 1 @@ b :> 1 @@ c :> 1}

Allocation(iprep, icps) ==
    [k \in AllocationKeys |-> IF k = "iprep" THEN iprep ELSE
                              IF k = "icps" THEN icps ELSE 0]

MCNetwork == [revision   |-> 1,
              stepPrice  |-> 2,
              irep       |-> 1,
              iglobal    |-> 1,
              stepCosts  |-> <<>>,
              allocation |-> Allocation(100, 0),
              blackList  |-> {}]

Freeze(address, freeze) ==
    <<"MALICIOUS_SCORE", [address |-> address, freeze |-> freeze]>>

\* Effects that may fail, or fail to take effect.
MCEffects == {<<"REVISION", 1>>, <<"REVISION", 2>>,
              Freeze(score, TRUE), Freeze(score, FALSE), Freeze(Self, TRUE),
              <<"PREP_DISQUALIFICATION", b>>}

\* The other values, good ones and some the validation must refuse. The step
\* price starts at 2: a quarter less rounds to 1, a quarter more to 2, and a
\* 2 registered before the price falls to 1 doubles it.
MCValues == {<<"PREP_DISQUALIFICATION", Self>>,
             <<"STEP_PRICE", 0>>, <<"STEP_PRICE", 1>>, <<"STEP_PRICE", 2>>,
             <<"STEP_PRICE", 3>>,
             <<"IREP", 0>>, <<"IREP", 2>>,
             <<"STEP_COSTS", "get" :> 25>>, <<"STEP_COSTS", "gas" :> 1>>,
             <<"REWARD_FUND_SETTING", -1>>, <<"REWARD_FUND_SETTING", 5>>,
             <<"REWARD_FUND_ALLOCATION", Allocation(60, 40)>>,
             <<"REWARD_FUND_ALLOCATION", Allocation(60, 60)>>,
             <<"REWARD_FUND_ALLOCATION", Allocation(160, -60)>>}

MCAllEffects == MCEffects \cup MCValues

\* The registrations are interchangeable.
IdSymmetry == Permutations(Id)
=============================================================================
