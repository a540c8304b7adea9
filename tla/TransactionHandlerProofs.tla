---------------------- MODULE TransactionHandlerProofs ----------------------
(***************************************************************************)
(* Proofs about the transaction handler: for every number of transfers,    *)
(* every waiting time and every delay of the node's answers.               *)
(***************************************************************************)
EXTENDS TransactionHandler, SequenceTheorems, TLAPS

-----------------------------------------------------------------------------
(* Queues.                                                                 *)

\* The first of a queue and the others.
LEMMA HeadAndTail ==
    ASSUME NEW S, NEW q \in Seq(S), q # <<>>
    PROVE  /\ Head(q) \in S /\ Head(q) \in ToSet(q)
           /\ Tail(q) \in Seq(S)
           /\ ToSet(q) = ToSet(Tail(q)) \cup {Head(q)}
           /\ IsInjective(q) => IsInjective(Tail(q))
                                   /\ Head(q) \notin ToSet(Tail(q))
<1> DEFINE n == Len(q)
           t == Tail(q)
<1>1. /\ Head(q) \in S /\ t \in Seq(S) /\ Len(t) = n - 1
      /\ \A i \in 1..Len(t) : t[i] = q[i + 1]
      /\ n \in Nat /\ DOMAIN q = 1..n /\ n # 0
  BY HeadTailProperties, LenProperties, EmptySeq
<1>2. Head(q) = q[1] /\ 1 \in 1..n
  BY <1>1
<1>3. DOMAIN t = 1..(n - 1) /\ \A i \in 1..(n - 1) : t[i] = q[i + 1]
  BY <1>1, LenProperties
<1> HIDE DEF n, t
<1>4. /\ \A i \in 1..(n - 1) : i + 1 \in 1..n /\ i + 1 # 1
      /\ \A j \in 1..n : j # 1 => j - 1 \in 1..(n - 1) /\ (j - 1) + 1 = j
  BY <1>1
<1>5. ToSet(q) = ToSet(t) \cup {q[1]}
  <2>1. ASSUME NEW x \in ToSet(q)
        PROVE  x \in ToSet(t) \cup {q[1]}
    <3>1. PICK j \in 1..n : x = q[j]
      BY <1>1 DEF ToSet
    <3>2. CASE j # 1
      <4>1. t[j - 1] = x /\ j - 1 \in DOMAIN t
        BY <1>3, <1>4, <3>1, <3>2
      <4> QED
        BY <4>1 DEF ToSet
    <3> QED
      BY <3>1, <3>2
  <2>2. ASSUME NEW x \in ToSet(t)
        PROVE  x \in ToSet(q)
    <3>1. PICK i \in 1..(n - 1) : x = q[i + 1]
      BY <1>3 DEF ToSet
    <3> QED
      BY <1>1, <1>4, <3>1 DEF ToSet
  <2>3. q[1] \in ToSet(q)
    BY <1>1, <1>2 DEF ToSet
  <2> QED
    BY <2>1, <2>2, <2>3
<1>6. ASSUME IsInjective(q)
      PROVE  IsInjective(t) /\ q[1] \notin ToSet(t)
  <2>1. \A i, j \in 1..n : q[i] = q[j] => i = j
    BY <1>1, <1>6 DEF IsInjective
  <2>2. ASSUME NEW i \in 1..(n - 1), NEW j \in 1..(n - 1), t[i] = t[j]
        PROVE  i = j
    <3>1. q[i + 1] = q[j + 1]
      BY <1>3, <2>2
    <3>2. i + 1 = j + 1
      BY <1>4, <2>1, <3>1
    <3> QED
      BY <3>2
  <2>3. \A i \in 1..(n - 1) : t[i] # q[1]
    BY <1>2, <1>3, <1>4, <2>1
  <2> QED
    BY <1>3, <2>2, <2>3 DEF IsInjective, ToSet
<1> QED
  BY <1>1, <1>2, <1>5, <1>6 DEF t

-----------------------------------------------------------------------------
(* The inductive invariant.                                                *)

NodeStatuses == {"unsent", "pending", "success", "failure", "lost"}

Waiting == {"polling", "answered", "sleeping"}

Types ==
    /\ pc \in {"sending"} \cup Waiting \cup Outcomes
    /\ queue \in Seq(Tx)
    /\ left \in Int
    /\ pause \in Nat
    /\ node \in [Tx -> NodeStatuses]
    /\ inTime \subseteq Tx

\* What is still to be sent has not been sent, and will be only once.
Unsent ==
    pc = "sending" =>
        /\ queue # <<>> /\ IsInjective(queue)
        /\ \A t \in ToSet(queue) : node[t] = "unsent"

\* What the test has finished with has succeeded.
Finished ==
    /\ pc \in Waiting \cup {"timeout"} => queue # <<>>
    /\ pc = "success" => queue = <<>>
    /\ pc \in Waiting \cup {"success"} =>
          \A t \in Tx \ ToSet(queue) : node[t] = "success"

\* An answer is what the node once said, and on its way no longer than
\* Latency.
Answered ==
    pc = "answered" =>
        /\ pause <= Latency
        /\ answer = "success" => node[Head(queue)] = "success"

\* Once a transfer that can still be seen in time is executed, an answer
\* without it arrives before the deadline, so that the test asks again.
AsksAgain ==
    pc = "answered" /\ answer = Null =>
        \/ Head(queue) \notin inTime
        \/ Status(Head(queue)) = Null
        \/ pause <= left

Executed == \A t \in inTime : node[t] \in {"success", "failure"}

\* A test that has given up sees nothing in time any more.
Late == pc = "timeout" => left < 0

HInv ==
    /\ Types /\ Unsent /\ Finished /\ Answered /\ AsksAgain /\ Executed
    /\ Late /\ GivesUpOnLate

LEMMA HInvInit == Init => HInv
<1> SUFFICES ASSUME Init
             PROVE  HInv
  OBVIOUS
<1>1. Types
  BY HandlerAssumption DEF Init, Types, Tx, NodeStatuses
<1>2. Unsent
  <2>1. IsInjective(Transfers)
    BY HandlerAssumption DEF IsInjective
  <2> QED
    BY <2>1, HandlerAssumption DEF Init, Unsent, Tx
<1>3. Finished /\ Answered /\ AsksAgain /\ Executed /\ Late /\ GivesUpOnLate
  BY DEF Init, Finished, Answered, AsksAgain, Executed, Late, GivesUpOnLate,
         Waiting
<1> QED
  BY <1>1, <1>2, <1>3 DEF HInv

LEMMA TransferKeeps == HInv /\ Transfer => HInv'
<1> SUFFICES ASSUME HInv, Transfer
             PROVE  HInv'
  OBVIOUS
<1> DEFINE t == Head(queue)
<1>1. /\ pc = "sending" /\ queue # <<>> /\ queue \in Seq(Tx)
      /\ IsInjective(queue) /\ \A u \in ToSet(queue) : node[u] = "unsent"
      /\ node' = [node EXCEPT ![t] = "pending"]
      /\ UNCHANGED <<mode, answer, pause, inTime>>
  BY DEF Transfer, HInv, Unsent, Types
<1>2. /\ t \in Tx /\ t \in ToSet(queue)
      /\ Tail(queue) \in Seq(Tx)
      /\ ToSet(queue) = ToSet(Tail(queue)) \cup {t}
      /\ IsInjective(Tail(queue)) /\ t \notin ToSet(Tail(queue))
  BY <1>1, HeadAndTail
<1> HIDE DEF t
<1>3. /\ node' \in [Tx -> NodeStatuses]
      /\ \A u \in Tx \ {t} : node'[u] = node[u]
      /\ t \notin inTime
  BY <1>1, <1>2 DEF HInv, Types, Executed, NodeStatuses
<1>4. Executed'
  BY <1>1, <1>3 DEF HInv, Types, Executed
<1>5. CASE Tail(queue) = <<>>
  <2>1. queue' = Transfers /\ left' = WAITING /\ pc' = "polling"
    BY <1>5, HandlerAssumption DEF Transfer, WaitFor
  <2>2. ToSet(Transfers) = Tx /\ Transfers \in Seq(Tx)
    BY HandlerAssumption DEF Tx
  <2>3. Types'
    BY <1>1, <1>3, <2>1, <2>2, HandlerAssumption DEF HInv, Types, Waiting
  <2>4. Unsent' /\ Finished' /\ Answered' /\ AsksAgain' /\ Late' /\ GivesUpOnLate'
    BY <2>1, <2>2, HandlerAssumption
       DEF Unsent, Finished, Answered, AsksAgain, Late, GivesUpOnLate
  <2> QED
    BY <1>4, <2>3, <2>4 DEF HInv
<1>6. CASE Tail(queue) # <<>>
  <2>1. queue' = Tail(queue) /\ UNCHANGED <<pc, left>>
    BY <1>6 DEF Transfer
  <2>2. Types'
    BY <1>1, <1>2, <1>3, <2>1 DEF HInv, Types
  <2>3. Unsent'
    <3>1. ToSet(Tail(queue)) \subseteq Tx
      BY <1>2, ElementOfSeq, LenProperties DEF ToSet
    <3>2. \A u \in ToSet(Tail(queue)) : node'[u] = "unsent"
      BY <1>1, <1>2, <1>3, <3>1
    <3> QED
      BY <1>2, <1>6, <2>1, <3>2 DEF Unsent, IsInjective
  <2>4. Finished' /\ Answered' /\ AsksAgain' /\ Late' /\ GivesUpOnLate'
    BY <1>1, <2>1 DEF Finished, Answered, AsksAgain, Late, GivesUpOnLate,
                      Waiting
  <2> QED
    BY <1>4, <2>2, <2>3, <2>4 DEF HInv
<1> QED
  BY <1>5, <1>6

\* Errors of the connection end the test.
LEMMA ErrorsKeep == HInv /\ (TransferFails \/ PollFails) => HInv'
<1> SUFFICES ASSUME HInv, TransferFails \/ PollFails
             PROVE  HInv'
  OBVIOUS
<1>1. /\ pc' = "error"
      /\ UNCHANGED <<queue, left, pause, inTime>>
  BY DEF TransferFails, PollFails
<1>2. node' \in [Tx -> NodeStatuses] /\ Executed'
  <2>1. CASE UNCHANGED node
    BY <1>1, <2>1 DEF HInv, Types, Executed
  <2>2. CASE ~UNCHANGED node
    <3>1. /\ pc = "sending" /\ node' = [node EXCEPT ![Head(queue)] = "pending"]
      BY <2>2 DEF TransferFails, PollFails
    <3>2. Head(queue) \in Tx /\ Head(queue) \in ToSet(queue)
      BY <3>1, HeadAndTail DEF HInv, Types, Unsent
    <3>3. node[Head(queue)] = "unsent"
      BY <3>1, <3>2 DEF HInv, Unsent
    <3> QED
      BY <1>1, <3>1, <3>2, <3>3 DEF HInv, Types, Executed, NodeStatuses
  <2> QED
    BY <2>1, <2>2
<1>3. Types'
  BY <1>1, <1>2 DEF HInv, Types, Outcomes
<1>4. Unsent' /\ Finished' /\ Answered' /\ AsksAgain' /\ Late' /\ GivesUpOnLate'
  BY <1>1 DEF Unsent, Finished, Answered, AsksAgain, Late, GivesUpOnLate,
              Waiting
<1> QED
  BY <1>2, <1>3, <1>4 DEF HInv

LEMMA PollKeeps == HInv /\ Poll => HInv'
<1> SUFFICES ASSUME HInv, Poll
             PROVE  HInv'
  OBVIOUS
<1>1. /\ pc = "polling" /\ pc' = "answered"
      /\ answer' = Status(Head(queue))
      /\ pause' \in 0..Latency
      /\ UNCHANGED <<mode, queue, left, node, inTime>>
  BY DEF Poll
<1>2. Types'
  BY <1>1, HandlerAssumption DEF HInv, Types, Waiting
<1>3. Status(Head(queue))' = Status(Head(queue))
  BY <1>1 DEF Status
<1>4. AsksAgain' /\ Answered'
  <2>1. answer' = "success" => node[Head(queue)] = "success"
    BY <1>1, HandlerAssumption DEF Status
  <2> QED
    BY <1>1, <1>3, <2>1, HandlerAssumption DEF AsksAgain, Answered
<1>5. Unsent' /\ Finished' /\ Executed' /\ Late' /\ GivesUpOnLate'
  BY <1>1 DEF HInv, Unsent, Finished, Executed, Late, GivesUpOnLate, Waiting
<1> QED
  BY <1>2, <1>4, <1>5 DEF HInv

LEMMA SucceedKeeps == HInv /\ Succeed => HInv'
<1> SUFFICES ASSUME HInv, Succeed
             PROVE  HInv'
  OBVIOUS
<1>1. /\ pc = "answered" /\ answer = "success"
      /\ queue' = Tail(queue) /\ left' = WAITING
      /\ pc' = IF Tail(queue) = <<>> THEN "success" ELSE "polling"
      /\ UNCHANGED <<mode, answer, pause, node, inTime>>
  BY DEF Succeed, WaitFor
<1>2. queue # <<>> /\ queue \in Seq(Tx) /\ node[Head(queue)] = "success"
  BY <1>1 DEF HInv, Types, Finished, Answered, Waiting
<1>3. /\ Tail(queue) \in Seq(Tx)
      /\ ToSet(queue) = ToSet(Tail(queue)) \cup {Head(queue)}
  BY <1>2, HeadAndTail
<1>4. Types'
  BY <1>1, <1>3, HandlerAssumption DEF HInv, Types, Waiting, Outcomes
<1>5. Finished'
  <2>1. \A t \in Tx \ ToSet(queue) : node[t] = "success"
    BY <1>1 DEF HInv, Finished, Waiting
  <2>2. \A t \in Tx \ ToSet(Tail(queue)) : node[t] = "success"
    BY <1>2, <1>3, <2>1
  <2> QED
    BY <1>1, <2>2 DEF Finished, Waiting
<1>6. Executed'
  BY <1>1 DEF HInv, Executed
<1>7. Unsent' /\ Answered' /\ AsksAgain' /\ Late' /\ GivesUpOnLate'
  BY <1>1 DEF Unsent, Answered, AsksAgain, Late, GivesUpOnLate
<1> QED
  BY <1>4, <1>5, <1>6, <1>7 DEF HInv

LEMMA AssertionFailsKeeps == HInv /\ AssertionFails => HInv'
BY DEF HInv, Types, Unsent, Finished, Answered, AsksAgain, Executed, Late,
       GivesUpOnLate, AssertionFails, Waiting, Outcomes

\* The answer has arrived in time if what it lacks was executed in time.
LEMMA GiveUpKeeps == HInv /\ GiveUp => HInv'
<1> SUFFICES ASSUME HInv, GiveUp
             PROVE  HInv'
  OBVIOUS
<1>1. /\ pc = "answered" /\ pause = 0 /\ answer = Null /\ left < 0
      /\ pc' = "timeout"
      /\ UNCHANGED <<mode, queue, answer, left, pause, node, inTime>>
  BY DEF GiveUp
<1>2. Head(queue) \notin inTime \/ Status(Head(queue)) = Null
  BY <1>1 DEF HInv, Types, AsksAgain
<1>3. Types'
  BY <1>1 DEF HInv, Types, Outcomes
<1>4. GivesUpOnLate' /\ Late'
  BY <1>1, <1>2 DEF GivesUpOnLate, Late, Status
<1>5. Finished' /\ Executed'
  BY <1>1 DEF HInv, Finished, Executed, Waiting
<1>6. Unsent' /\ Answered' /\ AsksAgain'
  BY <1>1 DEF Unsent, Answered, AsksAgain
<1> QED
  BY <1>3, <1>4, <1>5, <1>6 DEF HInv

LEMMA NapKeeps == HInv /\ (Sleep \/ WakeUp) => HInv'
<1> SUFFICES ASSUME HInv, Sleep \/ WakeUp
             PROVE  HInv'
  OBVIOUS
<1>1. /\ pc \in Waiting /\ pc' \in {"sleeping", "polling"}
      /\ pause' \in {pause, 1}
      /\ UNCHANGED <<mode, queue, answer, left, node, inTime>>
  BY DEF Sleep, WakeUp, Waiting
<1>2. Types'
  BY <1>1 DEF HInv, Types, Waiting
<1>3. Finished' /\ Executed'
  BY <1>1 DEF HInv, Finished, Executed, Waiting
<1>4. Unsent' /\ Answered' /\ AsksAgain' /\ Late' /\ GivesUpOnLate'
  BY <1>1 DEF Unsent, Answered, AsksAgain, Late, GivesUpOnLate
<1> QED
  BY <1>2, <1>3, <1>4 DEF HInv

LEMMA ExecuteKeeps ==
    ASSUME HInv, NEW t \in Tx, NEW s \in {"success", "failure"}, Execute(t, s)
    PROVE  HInv'
<1>1. /\ node[t] = "pending" /\ node' = [node EXCEPT ![t] = s]
      /\ inTime' = IF CanBeSeen(t) THEN inTime \cup {t} ELSE inTime
      /\ UNCHANGED <<pc, mode, queue, answer, left, pause>>
  BY DEF Execute, client
<1>2. /\ node' \in [Tx -> NodeStatuses] /\ node'[t] = s
      /\ \A u \in Tx \ {t} : node'[u] = node[u]
  BY <1>1 DEF HInv, Types, NodeStatuses
<1>3. Types'
  BY <1>1, <1>2 DEF HInv, Types
<1>4. Unsent'
  BY <1>1, <1>2, ElementOfSeq, LenProperties
     DEF HInv, Types, Unsent, ToSet, IsInjective
<1>5. Finished'
  BY <1>1, <1>2 DEF HInv, Finished
<1>6. pc \in Waiting \cup {"timeout"} => Head(queue) \in Tx
  BY HeadAndTail DEF HInv, Types, Finished
<1>7. Answered'
  BY <1>1, <1>2, <1>6 DEF HInv, Answered, Waiting
<1>8. Executed' /\ t \notin inTime
  BY <1>1, <1>2 DEF HInv, Types, Executed
<1>9. AsksAgain'
  <2> SUFFICES ASSUME pc = "answered", answer = Null, Head(queue) \in inTime',
                      Status(Head(queue))' # Null
               PROVE  pause <= left
    BY <1>1 DEF AsksAgain
  <2>1. CASE Head(queue) = t
    <3>1. left >= Latency
      BY <1>1, <1>8, <2>1 DEF CanBeSeen
    <3>2. pause <= Latency
      BY DEF HInv, Answered
    <3> QED
      BY <3>1, <3>2, HandlerAssumption DEF HInv, Types
  <2>2. CASE Head(queue) # t
    <3>1. Head(queue) \in inTime /\ node'[Head(queue)] = node[Head(queue)]
      BY <1>1, <1>2, <1>6, <2>2 DEF Waiting
    <3>2. Status(Head(queue)) # Null
      BY <1>1, <3>1 DEF Status
    <3> QED
      BY <3>1, <3>2 DEF HInv, AsksAgain
  <2> QED
    BY <2>1, <2>2
<1>10. Late'
  BY <1>1 DEF HInv, Late
<1>11. GivesUpOnLate'
  <2> SUFFICES ASSUME pc = "timeout", Head(queue) \in inTime'
               PROVE  Status(Head(queue))' = Null
    BY <1>1 DEF GivesUpOnLate
  <2>1. Head(queue) # t
    <3>1. ~(left >= Latency)
      BY HandlerAssumption DEF HInv, Types, Late
    <3> QED
      BY <1>1, <1>8, <3>1 DEF CanBeSeen
  <2>2. Head(queue) \in inTime /\ node'[Head(queue)] = node[Head(queue)]
    BY <1>1, <1>2, <1>6, <2>1
  <2>3. Status(Head(queue)) = Null
    BY <2>2 DEF HInv, GivesUpOnLate
  <2> QED
    BY <1>1, <2>2, <2>3 DEF Status
<1> QED
  BY <1>3, <1>4, <1>5, <1>7, <1>8, <1>9, <1>10, <1>11 DEF HInv

LEMMA LoseKeeps ==
    ASSUME HInv, NEW t \in Tx, Lose(t)
    PROVE  HInv'
<1>1. /\ node[t] = "pending" /\ node' = [node EXCEPT ![t] = "lost"]
      /\ UNCHANGED <<pc, mode, queue, answer, left, pause, inTime>>
  BY DEF Lose, client
<1>2. /\ node' \in [Tx -> NodeStatuses] /\ node'[t] = "lost"
      /\ \A u \in Tx \ {t} : node'[u] = node[u]
  BY <1>1 DEF HInv, Types, NodeStatuses
<1>3. Types'
  BY <1>1, <1>2 DEF HInv, Types
<1>4. Unsent'
  BY <1>1, <1>2, ElementOfSeq, LenProperties
     DEF HInv, Types, Unsent, ToSet, IsInjective
<1>5. Finished'
  BY <1>1, <1>2 DEF HInv, Finished
<1>6. pc \in Waiting \cup {"timeout"} => Head(queue) \in Tx
  BY HeadAndTail DEF HInv, Types, Finished
<1>7. Answered'
  BY <1>1, <1>2, <1>6 DEF HInv, Answered, Waiting
<1>8. Executed' /\ t \notin inTime /\ Late'
  BY <1>1, <1>2 DEF HInv, Types, Executed, Late
<1>9. ASSUME pc \in Waiting \cup {"timeout"}, Head(queue) \in inTime
      PROVE  Status(Head(queue))' = Status(Head(queue))
  <2>1. node'[Head(queue)] = node[Head(queue)]
    BY <1>2, <1>6, <1>8, <1>9
  <2> QED
    BY <1>1, <2>1 DEF Status
<1>10. AsksAgain' /\ GivesUpOnLate'
  BY <1>1, <1>9 DEF HInv, AsksAgain, GivesUpOnLate, Waiting
<1> QED
  BY <1>3, <1>4, <1>5, <1>7, <1>8, <1>10 DEF HInv

LEMMA TickKeeps == HInv /\ Tick => HInv'
<1> SUFFICES ASSUME HInv, Tick
             PROVE  HInv'
  OBVIOUS
<1>1. /\ pause > 0 /\ pause' = pause - 1
      /\ left' = IF left < 0 THEN left ELSE left - 1
      /\ UNCHANGED <<pc, mode, queue, answer, node, inTime>>
  BY DEF Tick
<1>2. pause \in Nat /\ left \in Int /\ pause' \in Nat /\ left' \in Int
  BY <1>1 DEF HInv, Types
<1>3. Types'
  BY <1>1, <1>2 DEF HInv, Types
<1>4. Status(Head(queue))' = Status(Head(queue))
  BY <1>1 DEF Status
<1>5. pause <= left => pause' <= left'
  BY <1>1, <1>2
<1>6. AsksAgain' /\ GivesUpOnLate'
  BY <1>1, <1>4, <1>5 DEF HInv, AsksAgain, GivesUpOnLate
<1>7. Answered' /\ Late'
  BY <1>1, <1>2, HandlerAssumption DEF HInv, Answered, Late
<1>8. Unsent' /\ Finished' /\ Executed'
  BY <1>1 DEF HInv, Unsent, Finished, Executed, IsInjective
<1> QED
  BY <1>3, <1>6, <1>7, <1>8 DEF HInv

LEMMA HInvNext == HInv /\ [Next]_vars => HInv'
<1> SUFFICES ASSUME HInv, [Next]_vars
             PROVE  HInv'
  OBVIOUS
<1>1. CASE Client
  BY <1>1, TransferKeeps, ErrorsKeep, PollKeeps, SucceedKeeps,
     AssertionFailsKeeps, GiveUpKeeps, NapKeeps DEF Client
<1>2. CASE Node
  BY <1>2, ExecuteKeeps, LoseKeeps DEF Node
<1>3. CASE Tick
  BY <1>3, TickKeeps
<1>4. CASE UNCHANGED vars
  BY <1>4 DEF vars, HInv, Types, Unsent, Finished, Answered, AsksAgain,
              Executed, Late, GivesUpOnLate, Status, IsInjective
<1> QED
  BY <1>1, <1>2, <1>3, <1>4 DEF Next

THEOREM HandlerInvariant == Spec => []HInv
BY HInvInit, HInvNext, PTL DEF Spec

-----------------------------------------------------------------------------
(* The properties.                                                         *)

\* Success is reported only when every transfer is executed with success.
THEOREM SuccessIsReal == Spec => []SuccessIsConfirmed
<1>1. HInv => SuccessIsConfirmed
  <2>1. ToSet(<<>>) = {}
    BY DEF ToSet
  <2> QED
    BY <2>1 DEF HInv, Finished, SuccessIsConfirmed
<1> QED
  BY <1>1, HandlerInvariant, PTL

\* A test gives up only on what is late.
THEOREM GivesUpNoSooner == Spec => []GivesUpOnLate
<1>1. HInv => GivesUpOnLate
  BY DEF HInv
<1> QED
  BY <1>1, HandlerInvariant, PTL
=============================================================================
