----------------------------- MODULE Governance -----------------------------
(***************************************************************************)
(* Network proposals as the governance SCORE runs them (governance.py):    *)
(* main P-Reps register, cancel and vote on proposals, and the vote that   *)
(* approves one applies it to the network in the same transaction; if it   *)
(* cannot be applied, the vote is reverted with it.                        *)
(*                                                                         *)
(* The list of main P-Reps and the end of their term come from the         *)
(* platform (get_main_prep_info) and may change at any time.               *)
(***************************************************************************)
EXTENDS NetworkProposal, FiniteSets

CONSTANTS
    Id,               \* transaction hashes of registrations
    Prep,             \* P-Reps, main and sub
    Contents,         \* proposals: pairs <<type, value>>
    Self,             \* the governance SCORE
    MainPrepLists,    \* main P-Rep lists the platform may report
    TermEnds,         \* ends of term it may report
    InitialNetwork,   \* network values at the start
    Null,             \* no proposal
    MaxHeight         \* bound: block height

AllocationKeys == {"iprep", "icps", "irelay", "ivoter"}

ASSUME GovernanceAssumption ==
    /\ \A list \in MainPrepLists :
          /\ DOMAIN list \subseteq Prep
          /\ IsFiniteSet(DOMAIN list)
          /\ \A p \in DOMAIN list : list[p] \in Nat
    /\ TermEnds \subseteq Int
    /\ MaxHeight \in Nat

NetworkValues == {"revision", "stepPrice", "irep", "iglobal", "stepCosts",
                  "allocation", "blackList"}

VARIABLES
    proposals,     \* DictDB proposal_list
    network,       \* the icon network values the proposals may change
    mainPreps,     \* get_main_prep_info, the list
    termEnd,       \* and the end of the term
    blockHeight

vars == <<proposals, network, mainPreps, termEnd, blockHeight>>

-----------------------------------------------------------------------------
IsRegistered(id) == proposals[id] # Null

\* _check_main_prep
IsMainPrep(p) == p \in DOMAIN mainPreps

Type(content) == content[1]
Value(content) == content[2]

\* 75% and 125% of the price at registration, rounded down
MinStepPrice == (network.stepPrice * 75) \div 100

\* Mutant: rounded up.
MaxStepPriceRoundedUp == (network.stepPrice * 125 + 99) \div 100

MaxStepPrice == (network.stepPrice * 125) \div 100

ALL_STEP_TYPES ==
    {"default", "contractCall", "contractCreate", "contractUpdate",
     "contractDestruct", "contractSet", "get", "set", "replace", "delete",
     "input", "eventLog", "apiCall", "schema", "getBase", "setBase",
     "deleteBase", "logBase", "log"}

\* The reward fund is shared out in percent.
IsAllocation(funds) ==
    /\ DOMAIN funds = AllocationKeys
    /\ \A k \in AllocationKeys : funds[k] >= 0
    /\ SumFunction(funds) = 100

\* The network is in order when the first proposal registers.
ASSUME NetworkAssumption ==
    /\ DOMAIN InitialNetwork = NetworkValues
    /\ InitialNetwork.revision \in Int
    /\ InitialNetwork.stepPrice \in Nat \ {0}
    /\ InitialNetwork.irep \in Nat \ {0}
    /\ InitialNetwork.iglobal \in Nat \ {0}
    /\ DOMAIN InitialNetwork.stepCosts \subseteq ALL_STEP_TYPES
    /\ IsAllocation(InitialNetwork.allocation)
    /\ Self \notin InitialNetwork.blackList

\* What parsing ensures: numbers, and for a SCORE its address and whether it
\* is to be frozen.
ASSUME ContentsAssumption ==
    \A content \in Contents :
        /\ Type(content) \in {"REVISION", "STEP_PRICE", "IREP",
                              "REWARD_FUND_SETTING"} => Value(content) \in Int
        /\ Type(content) = "MALICIOUS_SCORE" =>
              \E freeze \in BOOLEAN :
                  Value(content) = [address |-> Value(content).address,
                                    freeze  |-> freeze]

\* _validate_network_proposal, where it depends on the state or is more
\* than parsing.  The platform's validate_irep and validate_reward_fund may
\* refuse any value, which is no step.
Valid(content) ==
    /\ Type(content) = "STEP_PRICE" =>
          Value(content) \in MinStepPrice..MaxStepPrice
    /\ Type(content) = "PREP_DISQUALIFICATION" => Value(content) \in Prep
    /\ Type(content) = "STEP_COSTS" =>
          DOMAIN Value(content) \subseteq ALL_STEP_TYPES
    /\ Type(content) = "REWARD_FUND_ALLOCATION" => IsAllocation(Value(content))

\* Mutant: the governance SCORE itself may be frozen.
MayListSelf(v) == v.freeze <=> v.address \notin network.blackList

\* _addToScoreBlackList and _removeFromScoreBlackList: the black list takes
\* an address once, never the SCORE itself, and gives back one it has.
MayList(v) ==
    IF v.freeze THEN v.address \notin network.blackList \cup {Self}
                ELSE v.address \in network.blackList

\* The effects that revert: of these, and a revision that decreases.
Applicable(content) ==
    /\ Type(content) = "REVISION" => Value(content) >= network.revision
    /\ Type(content) = "MALICIOUS_SCORE" => MayList(Value(content))

\* Mutant: values are not looked at.
PositiveOrNot(v, old) == v

\* Values that are not positive are approved without effect.
PositiveOr(v, old) == IF v > 0 THEN v ELSE old

\* _approve_network_proposal
Applied(content) ==
    LET v == Value(content)
    IN  CASE Type(content) = "REVISION" ->
                 [network EXCEPT !.revision = v]
          [] Type(content) = "MALICIOUS_SCORE" ->
                 [network EXCEPT !.blackList =
                      IF v.freeze THEN @ \cup {v.address}
                                  ELSE @ \ {v.address}]
          [] Type(content) = "STEP_PRICE" ->
                 [network EXCEPT !.stepPrice = PositiveOr(v, @)]
          [] Type(content) = "IREP" ->
                 [network EXCEPT !.irep = PositiveOr(v, @)]
          [] Type(content) = "STEP_COSTS" ->
                 [network EXCEPT !.stepCosts = v]
          [] Type(content) = "REWARD_FUND_SETTING" ->
                 [network EXCEPT !.iglobal = PositiveOr(v, @)]
          [] Type(content) = "REWARD_FUND_ALLOCATION" ->
                 [network EXCEPT !.allocation = v]
          [] OTHER -> network

\* The lists of main P-Reps once content is applied: the platform may
\* refuse to disqualify.
ListsAfter(content) ==
    IF Type(content) = "PREP_DISQUALIFICATION"
    THEN {mainPreps,
          [p \in DOMAIN mainPreps \ {Value(content)} |-> mainPreps[p]]}
    ELSE {mainPreps}

-----------------------------------------------------------------------------
Init ==
    /\ proposals = [id \in Id |-> Null]
    /\ network = InitialNetwork
    /\ mainPreps \in MainPrepLists
    /\ termEnd \in TermEnds
    /\ blockHeight = 0

RegisterProposal(id, proposer, content) ==
    /\ ~IsRegistered(id)
    /\ IsMainPrep(proposer)
    /\ termEnd >= blockHeight
    /\ Valid(content)
    /\ proposals' = [proposals EXCEPT ![id] =
                        Registered(proposer, termEnd, content, mainPreps)]
    /\ UNCHANGED <<network, mainPreps, termEnd, blockHeight>>

CancelProposal(id, caller) ==
    /\ IsMainPrep(caller)
    /\ IsRegistered(id)
    /\ CanCancel(proposals[id], caller, blockHeight)
    /\ proposals' = [proposals EXCEPT ![id] = Canceled(@)]
    /\ UNCHANGED <<network, mainPreps, termEnd, blockHeight>>

VoteProposal(id, voter, vote) ==
    /\ IsMainPrep(voter)
    /\ IsRegistered(id)
    /\ CanVote(proposals[id], voter, blockHeight)
    /\ LET info == proposals[id]
           voted == Voted(info, voter, vote, mainPreps[voter])
       IN  /\ proposals' = [proposals EXCEPT ![id] = voted]
           /\ IF Approves(info, voted)
              THEN /\ Applicable(info.content)
                   /\ network' = Applied(info.content)
                   /\ mainPreps' \in ListsAfter(info.content)
              ELSE UNCHANGED <<network, mainPreps>>
    /\ UNCHANGED <<termEnd, blockHeight>>

NewBlock ==
    /\ blockHeight < MaxHeight
    /\ blockHeight' = blockHeight + 1
    /\ UNCHANGED <<proposals, network, mainPreps, termEnd>>

\* Another term, or another list within it: elections, penalties, changed
\* delegations.
ChangeMainPreps ==
    /\ mainPreps' \in MainPrepLists
    /\ termEnd' \in TermEnds
    /\ UNCHANGED <<proposals, network, blockHeight>>

Next ==
    \/ \E id \in Id, p \in Prep, c \in Contents : RegisterProposal(id, p, c)
    \/ \E id \in Id, p \in Prep : CancelProposal(id, p)
    \/ \E id \in Id, p \in Prep, v \in Votes : VoteProposal(id, p, v)
    \/ NewBlock
    \/ ChangeMainPreps

Spec == Init /\ [][Next]_vars

\* Blocks keep coming.
FairSpec == Spec /\ WF_vars(NewBlock)

-----------------------------------------------------------------------------
(* Properties.                                                             *)

Proposals == {proposals[id] : id \in {i \in Id : IsRegistered(i)}}

Tally == [list : Seq(Prep), amount : Int]

ProposalInfo ==
    [proposer : Prep, end : Int, content : Contents, status : Statuses,
     agree : Tally, disagree : Tally, noVote : Tally,
     totalVoter : Nat, totalDelegated : Nat]

ASSUME NullAssumption == Null \notin ProposalInfo

\* Types of the proposals and of the platform's values.
TypeOK ==
    /\ proposals \in [Id -> ProposalInfo \cup {Null}]
    /\ network.revision \in Int
    /\ network.stepPrice \in Int
    /\ Self \notin network.blackList
    /\ DOMAIN mainPreps \subseteq Prep
    /\ termEnd \in Int
    /\ blockHeight \in Nat

\* Whatever lists of P-Reps the platform reports between two votes, every
\* P-Rep registered with a proposal is counted exactly once, on one side or
\* as not having voted, and the three amounts add up to the delegation the
\* proposal was registered with.
BallotsAddUp ==
    \A info \in Proposals :
        LET lists == info.agree.list \o info.disagree.list \o info.noVote.list
        IN  /\ Len(lists) = info.totalVoter
            /\ Cardinality(ToSet(lists)) = info.totalVoter
            /\ info.agree.amount + info.disagree.amount + info.noVote.amount
                   = info.totalDelegated

\* A status is justified by the ballots, also after the late votes that a
\* decided proposal still takes: approved by 66% of voters and delegation,
\* disapproved by 33% of both or by everyone's having voted, and open only
\* as long as neither side has its share.
StatusJustified ==
    \A info \in Proposals :
        /\ info.status = "APPROVED" => CheckVoteResult(info, "AGREE")
        /\ info.status = "DISAPPROVED" =>
              CheckVoteResult(info, "DISAGREE") \/ info.noVote.list = <<>>
        /\ info.status = "VOTING" =>
              /\ info.noVote.list # <<>>
              /\ \A v \in Votes : ~CheckVoteResult(info, v)

\* No vote, cancellation or expiry takes a decision back: once a proposal
\* is shown as decided or cancelled, that is how it stays shown.
DecisionsAreFinal ==
    [][\A id \in Id :
          IsRegistered(id) =>
              LET shown == ShownStatus(proposals[id], blockHeight)
              IN  shown # "VOTING" =>
                      ShownStatus(proposals[id], blockHeight)' = shown]_vars

ApprovedContents(type) ==
    {id \in Id : /\ IsRegistered(id)
                 /\ proposals[id].status = "APPROVED"
                 /\ Type(proposals[id].content) = type}

ApprovedFor(address, freeze) ==
    {id \in ApprovedContents("MALICIOUS_SCORE") :
        Value(proposals[id].content) =
            [address |-> address, freeze |-> freeze]}

Listing(a, list) == IF a \in list THEN 1 ELSE 0

\* The network values are what the approved proposals say, each applied
\* exactly once: the revision is the highest approved, and a SCORE comes on
\* the black list, or off it, as one more proposal froze it than unfroze it,
\* or the other way round.
EffectsFollowApprovals ==
    /\ network.revision =
          Max({InitialNetwork.revision}
                \cup {Value(proposals[id].content) :
                         id \in ApprovedContents("REVISION")})
    /\ \A a \in {Value(c).address :
                    c \in {d \in Contents : Type(d) = "MALICIOUS_SCORE"}} :
          Cardinality(ApprovedFor(a, TRUE)) - Cardinality(ApprovedFor(a, FALSE))
              = Listing(a, network.blackList)
                    - Listing(a, InitialNetwork.blackList)

\* No sequence of approvals puts the network out of order.  Validation
\* alone does not ensure it (a step price of zero passes when the price is
\* 1, and i-rep and fund are not looked at here), nor does it see the
\* values at the time of the approval.
NetworkStaysValid ==
    /\ network.stepPrice > 0
    /\ network.irep > 0
    /\ network.iglobal > 0
    /\ DOMAIN network.stepCosts \subseteq ALL_STEP_TYPES
    /\ \A k \in DOMAIN network.allocation : network.allocation[k] >= 0
    /\ SumFunction(network.allocation) = 100

\* By n, the price at the start of which so many percent have been taken n
\* times, rounded down each time.
Compounded(percent) ==
    LET price[n \in Nat] == IF n = 0 THEN InitialNetwork.stepPrice
                            ELSE (price[n - 1] * percent) \div 100
    IN  price

\* A step price is approved against another price than it was validated
\* against, and may then raise or lower it by any amount.  However stale
\* the proposals, and in whatever order they are approved, n of them lead
\* no further than n that are not: the quarters do not compound any faster.
StepPriceCompounds ==
    LET n == Cardinality(ApprovedContents("STEP_PRICE"))
    IN  network.stepPrice \in Compounded(75)[n]..Compounded(125)[n]

\* Every proposal ends up shown as decided or cancelled, voted on or not.
EventuallySettled ==
    \A id \in Id :
        <>[](IsRegistered(id) =>
                ShownStatus(proposals[id], blockHeight) # "VOTING")
=============================================================================
