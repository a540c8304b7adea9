------------------------------- MODULE Audit -------------------------------
(***************************************************************************)
(* Auditing in the governance SCORE (governance.py): auditors accept or    *)
(* reject the deployments that wait for them, and the owner of the SCORE   *)
(* appoints auditors.                                                      *)
(*                                                                         *)
(* A deployment is known by the hash of its transaction, here its number   *)
(* in the order of requests.  acceptScore deploys before it records the    *)
(* verdict, and deploying runs the deployed contract's on_install or       *)
(* on_update, which may call the governance SCORE again or fail.  The      *)
(* acceptances in progress are the stack `deploying`.                      *)
(***************************************************************************)
EXTENDS Integers, Sequences, SequencesExt, FiniteSets

CONSTANTS
    User,           \* externally owned accounts
    Score,          \* contracts that are deployed and updated
    owner,          \* of the governance SCORE
    MaxRequests,    \* bound: deployment transactions
    MaxDepth        \* bound: nested acceptances

\* The genesis of the local chain gives the SCORE to an account with a key.
ASSUME AuditAssumption ==
    /\ owner \in User
    /\ User \cap Score = {}
    /\ {MaxRequests, MaxDepth} \subseteq Nat

VARIABLES
    db,           \* _auditor_list, _audit_status and _reject_status
    deploying,    \* acceptances in progress, with the db before each
    requests,     \* the SCORE of each deployment transaction
    deployInfo    \* the platform's record of each SCORE

vars == <<db, deploying, requests, deployInfo>>

Hash == 1..Len(requests)

\* No deployment: what a new SCORE has for its current one.
None == 0

-----------------------------------------------------------------------------
\* The caller of the next call: while a contract is being deployed, it.
Callers ==
    IF deploying = <<>> THEN User
                        ELSE {requests[deploying[Len(deploying)].hash]}

IsAuditor(a) == a \in ToSet(db.auditors)

\* _audit_status and _reject_status hold no verdict on the hash.
Undecided(hash) == hash \notin db.accepted \cup db.rejected

\* on_install: the owner is the first auditor.
Init ==
    /\ db = [auditors |-> <<owner>>, accepted |-> {}, rejected |-> {}]
    /\ deploying = <<>>
    /\ requests = <<>>
    /\ deployInfo = [s \in Score |-> [current |-> None, next |-> None]]

\* The platform takes a deployment: it waits for its audit, in the place of
\* one of the same SCORE that waited before.
RequestDeploy(score) ==
    /\ deploying = <<>>
    /\ Len(requests) < MaxRequests
    /\ requests' = Append(requests, score)
    /\ deployInfo' = [deployInfo EXCEPT ![score].next = Len(requests) + 1]
    /\ UNCHANGED <<db, deploying>>

\* Mutant: the hash need not be the one that waits.
MayAcceptStale(caller, hash) == IsAuditor(caller) /\ Undecided(hash)

MayAccept(caller, hash) ==
    /\ IsAuditor(caller)
    /\ hash = deployInfo[requests[hash]].next
    /\ Undecided(hash)

\* acceptScore up to the call of the platform's deploy.
AcceptScore(caller, hash) ==
    /\ MayAccept(caller, hash)
    /\ Len(deploying) < MaxDepth
    /\ deploying' = Append(deploying, [hash |-> hash, before |-> db])
    /\ UNCHANGED <<db, requests, deployInfo>>

\* The contract's code has run: it is the current one, and the rest of
\* acceptScore records the verdict.
Deployed ==
    /\ deploying # <<>>
    /\ LET hash == deploying[Len(deploying)].hash
       IN  /\ deployInfo' = [deployInfo EXCEPT ![requests[hash]] =
                                [current |-> hash, next |-> None]]
           /\ db' = [db EXCEPT !.accepted = @ \cup {hash}]
    /\ deploying' = Front(deploying)
    /\ UNCHANGED requests

\* The contract's code fails, and acceptScore with it; what it did in the
\* meantime is undone.
DeployFails ==
    /\ deploying # <<>>
    /\ db' = Last(deploying).before
    /\ deploying' = Front(deploying)
    /\ UNCHANGED <<requests, deployInfo>>

\* rejectScore: unlike acceptScore it takes a hash that no longer waits.
RejectScore(caller, hash) ==
    /\ IsAuditor(caller)
    /\ Undecided(hash)
    /\ db' = [db EXCEPT !.rejected = @ \cup {hash}]
    /\ UNCHANGED <<deploying, requests, deployInfo>>

\* Mutant: contracts may become auditors.
AddAuditorUnchecked(caller, a) ==
    /\ caller = owner
    /\ ~IsAuditor(a)
    /\ db' = [db EXCEPT !.auditors = Append(@, a)]
    /\ UNCHANGED <<deploying, requests, deployInfo>>

AddAuditor(caller, a) ==
    /\ a \notin Score
    /\ caller = owner
    /\ ~IsAuditor(a)
    /\ db' = [db EXCEPT !.auditors = Append(@, a)]
    /\ UNCHANGED <<deploying, requests, deployInfo>>

\* Mutant: the last auditor is dropped whoever is to be removed.
WithoutTop(list, a) == Front(list)

\* The list without its last element, which takes a's place.
Without(list, a) ==
    [i \in 1..(Len(list) - 1) |-> IF list[i] = a THEN Last(list) ELSE list[i]]

RemoveAuditor(caller, a) ==
    /\ a \notin Score
    /\ IsAuditor(a)
    /\ caller \in {owner, a}
    /\ db' = [db EXCEPT !.auditors = Without(@, a)]
    /\ UNCHANGED <<deploying, requests, deployInfo>>

Call(c) ==
    \/ \E h \in Hash : AcceptScore(c, h)
    \/ \E h \in Hash : RejectScore(c, h)
    \/ \E a \in User \cup Score : AddAuditor(c, a)
    \/ \E a \in User \cup Score : RemoveAuditor(c, a)

Next ==
    \/ \E s \in Score : RequestDeploy(s)
    \/ \E c \in Callers : Call(c)
    \/ Deployed
    \/ DeployFails

Spec == Init /\ [][Next]_vars

-----------------------------------------------------------------------------
(* Properties.                                                             *)

\* A verdict stands: whatever a contract under deployment calls, and
\* whichever deployments were superseded, none is both accepted and
\* rejected, and a SCORE runs nothing that was rejected or never accepted.
VerdictsStand ==
    /\ db.accepted \cap db.rejected = {}
    /\ \A s \in Score :
          deployInfo[s].current \in (db.accepted \cup {None}) \ db.rejected

\* A SCORE only advances: a version whose request was superseded by a later
\* one never replaces that one.
VersionsAdvance ==
    [][\A s \in Score :
          deployInfo'[s].current >= deployInfo[s].current]_vars

\* Removing an auditor, which moves another one in the list, takes that
\* seat and no other; no seat is ever doubled, and none changes while a
\* contract is being deployed, which may call with any arguments.
SeatsAreKept ==
    [][/\ \A c \in Callers, a \in User :
             RemoveAuditor(c, a) =>
                 ToSet(db'.auditors) = ToSet(db.auditors) \ {a}
       /\ IsInjective(db'.auditors)
       /\ deploying # <<>> => db'.auditors = db.auditors]_vars
=============================================================================
