--------------------------- MODULE NetworkProposal --------------------------
(***************************************************************************)
(* One network proposal: what network_proposal.py keeps of it and what     *)
(* registering, cancelling, voting and reading do to that record.  A       *)
(* reverting call is an operator of its own that is false (CanCancel,      *)
(* CanVote); the others give the record the call leaves.                   *)
(***************************************************************************)
EXTENDS Integers, Sequences, FiniteSets, SequencesExt

Statuses == {"VOTING", "APPROVED", "DISAPPROVED", "CANCELED"}

Votes == {"AGREE", "DISAGREE"}

\* Percentages; the code compares floating-point quotients with 0.66 and
\* 0.33, the model exact ones.
APPROVE_RATE == 66
DISAPPROVE_RATE == 33

NoVotes == [list |-> <<>>, amount |-> 0]

\* A list of main P-Reps is a function from their addresses to the amount
\* delegated to each; the total counts the delegated units.
TotalDelegated(mainPreps) ==
    Cardinality(UNION {{p} \X (1..mainPreps[p]) : p \in DOMAIN mainPreps})

-----------------------------------------------------------------------------
\* register_proposal, with the constructor of ProposalInfo
Registered(proposer, expired, content, mainPreps) ==
    LET delegated == TotalDelegated(mainPreps)
        preps == SetToSeq(DOMAIN mainPreps)
    IN  [proposer       |-> proposer,
         end            |-> expired,
         content        |-> content,
         status         |-> "VOTING",
         agree          |-> NoVotes,
         disagree       |-> NoVotes,
         noVote         |-> [list |-> preps, amount |-> delegated],
         totalVoter     |-> Len(preps),
         totalDelegated |-> delegated]

Expired(info, height) == info.end < height

\* cancel_proposal
CanCancel(info, caller, height) ==
    /\ ~Expired(info, height)
    /\ caller = info.proposer
    /\ info.status = "VOTING"

Canceled(info) == [info EXCEPT !.status = "CANCELED"]

\* Mutant: every main P-Rep may vote, not only those registered with the
\* proposal.
CanVoteAnyone(info, voter, height) ==
    /\ ~Expired(info, height)
    /\ info.status # "CANCELED"
    /\ voter \notin ToSet(info.agree.list) \cup ToSet(info.disagree.list)

\* vote_proposal accepts a vote until the proposal expires or is cancelled:
\* also when it is already approved or disapproved.
CanVote(info, voter, height) ==
    /\ ~Expired(info, height)
    /\ info.status # "CANCELED"
    /\ voter \notin ToSet(info.agree.list) \cup ToSet(info.disagree.list)
    /\ voter \in ToSet(info.noVote.list)

Added(tally, voter, amount) ==
    [list |-> Append(tally.list, voter), amount |-> tally.amount + amount]

Removed(tally, voter, amount) ==
    [list |-> RemoveFirst(tally.list, voter), amount |-> tally.amount - amount]

\* The ballots of info with the voter's moved: the amount is what is
\* delegated to the voter now, not what was when the proposal registered.
Counted(info, voter, vote, amount) ==
    LET moved == [info EXCEPT !.noVote = Removed(@, voter, amount)]
    IN  IF vote = "AGREE"
        THEN [moved EXCEPT !.agree = Added(@, voter, amount)]
        ELSE [moved EXCEPT !.disagree = Added(@, voter, amount)]

\* n is at least rate percent of d; false where the code divides by zero.
Reaches(n, d, rate) == d # 0 /\ 100 * n >= rate * d

\* _check_vote_result: the side reaches its rate both of the voters and of
\* the delegation.
CheckVoteResult(info, vote) ==
    LET side == IF vote = "AGREE" THEN info.agree ELSE info.disagree
        rate == IF vote = "AGREE" THEN APPROVE_RATE ELSE DISAPPROVE_RATE
    IN  /\ Reaches(Len(side.list), info.totalVoter, rate)
        /\ Reaches(side.amount, info.totalDelegated, rate)

\* Mutant: the last vote does not close an undecided proposal.
StatusAfterOpenEnd(info, vote) ==
    IF info.status = "VOTING" /\ CheckVoteResult(info, vote)
    THEN IF vote = "AGREE" THEN "APPROVED" ELSE "DISAPPROVED"
    ELSE info.status

\* Mutant: late votes decide again.
StatusAfterLateVotes(info, vote) ==
    IF CheckVoteResult(info, vote)
    THEN IF vote = "AGREE" THEN "APPROVED" ELSE "DISAPPROVED"
    ELSE IF info.noVote.list = <<>> THEN "DISAPPROVED" ELSE info.status

StatusAfter(info, vote) ==
    IF info.status # "VOTING" THEN info.status
    ELSE IF CheckVoteResult(info, vote)
         THEN IF vote = "AGREE" THEN "APPROVED" ELSE "DISAPPROVED"
         ELSE IF info.noVote.list = <<>> THEN "DISAPPROVED" ELSE "VOTING"

Voted(info, voter, vote, amount) ==
    LET counted == Counted(info, voter, vote, amount)
    IN  [counted EXCEPT !.status = StatusAfter(counted, vote)]

\* Mutant: every vote on an approved proposal returns true.
ApprovesAgain(info, voted) == voted.status = "APPROVED"

\* What vote_proposal returns: did this vote approve the proposal?
Approves(info, voted) ==
    info.status = "VOTING" /\ voted.status = "APPROVED"

\* Mutant: expiry is not shown.
ShownStatusStored(info, height) == info.status

\* The status get_proposal and get_proposals show.
ShownStatus(info, height) ==
    IF Expired(info, height) /\ info.status = "VOTING"
    THEN "DISAPPROVED"
    ELSE info.status
=============================================================================
