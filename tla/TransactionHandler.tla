------------------------- MODULE TransactionHandler -------------------------
(***************************************************************************)
(* How the integration tests send transfers to a node and wait for them:   *)
(* TransactionHandler.java, with its callers in TestBase.java.             *)
(*                                                                         *)
(* A test sends all its transfers, then waits for one after the other,     *)
(* each with a deadline of its own, either for its result (getResult) or   *)
(* for the balance of its receiver (ensureIcxBalance).  Meanwhile the node *)
(* executes the transfers in any order, fails some and loses some, and     *)
(* time passes.  Time is kept relative to the deadline, so it has no       *)
(* bound.                                                                  *)
(***************************************************************************)
EXTENDS Integers, Sequences, FiniteSets, SequencesExt

CONSTANTS
    Transfers,    \* a sequence: the transfers to make, one at least, all
                  \* different
    WAITING,      \* DEFAULT_WAITING_TIME, in seconds
    Latency,      \* bound: seconds for the node's answer to come back
    Null          \* the node has no result yet

ASSUME HandlerAssumption ==
    /\ WAITING \in Nat
    /\ Latency \in Nat
    /\ Transfers \in Seq(ToSet(Transfers)) /\ Transfers # <<>>
    /\ \A i, j \in DOMAIN Transfers : Transfers[i] = Transfers[j] => i = j
    /\ Null \notin {"success", "failure"}

VARIABLES
    pc,         \* where the test is
    mode,       \* what it waits for: "result" or "balance"
    queue,      \* the transfers it has not finished with
    answer,     \* what the node answered to the last poll
    left,       \* seconds until the deadline; -1 when it has passed
    pause,      \* seconds until the answer arrives or the nap ends
    node,       \* what has become of each transfer at the node
    inTime      \* history: the transfers executed before their deadline

vars == <<pc, mode, queue, answer, left, pause, node, inTime>>

client == <<pc, mode, queue, answer, left, pause>>

Tx == ToSet(Transfers)

\* How a wait ends: with every transfer, with one that failed, with a
\* deadline, or with an error of the connection or the node.
Outcomes == {"success", "failed", "timeout", "error"}

-----------------------------------------------------------------------------
Init ==
    /\ pc = "sending"
    /\ mode \in {"result", "balance"}
    /\ queue = Transfers
    /\ answer = Null
    /\ left = WAITING
    /\ pause = 0
    /\ node = [t \in Tx |-> "unsent"]
    /\ inTime = {}

\* Begin waiting for the first of q, if there is one.
WaitFor(q) ==
    /\ queue' = q
    /\ left' = WAITING
    /\ pc' = IF q = <<>> THEN "success" ELSE "polling"

\* transfer: the next one is sent; after the last the waiting begins.
Transfer ==
    /\ pc = "sending"
    /\ node' = [node EXCEPT ![Head(queue)] = "pending"]
    /\ IF Tail(queue) = <<>>
       THEN WaitFor(Transfers)
       ELSE queue' = Tail(queue) /\ UNCHANGED <<pc, left>>
    /\ UNCHANGED <<mode, answer, pause, inTime>>

\* The connection fails: the transfer may have reached the node or not.
TransferFails ==
    /\ pc = "sending"
    /\ pc' = "error"
    /\ \/ node' = [node EXCEPT ![Head(queue)] = "pending"]
       \/ UNCHANGED node
    /\ UNCHANGED <<mode, queue, answer, left, pause, inTime>>

\* What the node tells of t: a balance shows success only.
Status(t) ==
    IF node[t] = "success" \/ (mode = "result" /\ node[t] = "failure")
    THEN node[t] ELSE Null

\* The node answers, and some time later the answer is there.
Poll ==
    /\ pc = "polling"
    /\ answer' = Status(Head(queue))
    /\ pause' \in 0..Latency
    /\ pc' = "answered"
    /\ UNCHANGED <<mode, queue, left, node, inTime>>

\* Any error but pending, executing or not found; or a balance that is
\* neither the old one nor the expected.
PollFails ==
    /\ pc = "polling"
    /\ pc' = "error"
    /\ UNCHANGED <<mode, queue, answer, left, pause, node, inTime>>

\* Mutant: a result ends the wait whatever it says.
SucceedAnyway ==
    /\ pc = "answered" /\ pause = 0
    /\ answer # Null
    /\ WaitFor(Tail(queue))
    /\ UNCHANGED <<mode, answer, pause, node, inTime>>

\* A result is there, and assertSuccess accepts it.
Succeed ==
    /\ pc = "answered" /\ pause = 0
    /\ answer = "success"
    /\ WaitFor(Tail(queue))
    /\ UNCHANGED <<mode, answer, pause, node, inTime>>

AssertionFails ==
    /\ pc = "answered" /\ pause = 0
    /\ answer = "failure"
    /\ pc' = "failed"
    /\ UNCHANGED <<mode, queue, answer, left, pause, node, inTime>>

\* Mutant: gives up when the next poll would come after the deadline.
GiveUpEarly ==
    /\ pc = "answered" /\ pause = 0
    /\ answer = Null
    /\ left < 1
    /\ pc' = "timeout"
    /\ UNCHANGED <<mode, queue, answer, left, pause, node, inTime>>

GiveUp ==
    /\ pc = "answered" /\ pause = 0
    /\ answer = Null
    /\ left < 0
    /\ pc' = "timeout"
    /\ UNCHANGED <<mode, queue, answer, left, pause, node, inTime>>

\* Mutant: retries for ever.
SleepAlways ==
    /\ pc = "answered" /\ pause = 0
    /\ answer = Null
    /\ pc' = "sleeping"
    /\ pause' = 1
    /\ UNCHANGED <<mode, queue, answer, left, node, inTime>>

Sleep ==
    /\ pc = "answered" /\ pause = 0
    /\ answer = Null
    /\ left >= 0
    /\ pc' = "sleeping"
    /\ pause' = 1
    /\ UNCHANGED <<mode, queue, answer, left, node, inTime>>

WakeUp ==
    /\ pc = "sleeping" /\ pause = 0
    /\ pc' = "polling"
    /\ UNCHANGED <<mode, queue, answer, left, pause, node, inTime>>

-----------------------------------------------------------------------------
(* The node and the clock.                                                 *)

\* Could a poll in time still see t, were it executed now?
CanBeSeen(t) == Head(queue) = t /\ pc # "sending" => left >= Latency

\* A block with t is confirmed, once, whether anyone waits for it or not.
Execute(t, status) ==
    /\ node[t] = "pending"
    /\ node' = [node EXCEPT ![t] = status]
    /\ inTime' = IF CanBeSeen(t) THEN inTime \cup {t} ELSE inTime
    /\ UNCHANGED client

\* The node forgets t, as it does when its timestamp is too old.
Lose(t) ==
    /\ node[t] = "pending"
    /\ node' = [node EXCEPT ![t] = "lost"]
    /\ UNCHANGED <<client, inTime>>

\* A second passes while the test sleeps or waits for an answer; its own
\* steps take no time.
Tick ==
    /\ pause > 0
    /\ pause' = pause - 1
    /\ left' = IF left < 0 THEN left ELSE left - 1
    /\ UNCHANGED <<pc, mode, queue, answer, node, inTime>>

Client ==
    \/ Transfer \/ TransferFails
    \/ Poll \/ PollFails
    \/ Succeed \/ AssertionFails \/ GiveUp
    \/ Sleep \/ WakeUp

Node ==
    \E t \in Tx : Lose(t) \/ \E s \in {"success", "failure"} : Execute(t, s)

Next == Client \/ Node \/ Tick

\* The test runs, calls of the node return, and time passes; the node need
\* not execute anything.
Spec == Init /\ [][Next]_vars /\ WF_vars(Client) /\ WF_vars(Tick)

-----------------------------------------------------------------------------
(* Properties.                                                             *)

\* Success is reported only for transfers that are all executed with
\* success, whatever order they were executed in and however late.
SuccessIsConfirmed ==
    pc = "success" => \A t \in Tx : node[t] = "success"

\* A test gives up only on what is late.  A result that comes while an
\* answer without it is on its way, with the deadline nearer than that
\* takes, may be missed; one that comes earlier is always seen.
GivesUpOnLate ==
    pc = "timeout" /\ Head(queue) \in inTime => Status(Head(queue)) = Null

\* Every test ends, though the node lose its transfers or never execute
\* them.
Ends == <>(pc \in Outcomes)
=============================================================================
