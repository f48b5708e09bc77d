------------------------ MODULE OrderExecution_proofs ------------------------
(* What the kill switch guarantees about order execution, that the         *)
(* execution log, the orders table and _mode_lock agree, types, and that   *)
(* order execution implements TradingGate, for every set of requests and   *)
(* tickets, every number of attempts and every bound.                      *)
EXTENDS OrderExecution, FiniteSetTheorems, WellFoundedInduction, TLAPS

Where == InFlight \cup {"idle", "to_approve", "to_cancel"}

\* Inductive: while the kill switch is on, the requests past the gate are among
\* those that were past it when it went on.
KillInv ==
  /\ pc \in [Request -> Where]
  /\ kill => \A r \in Request : pc[r] \in InFlight => r \in past

USE DEF Where, InFlight

\* The two other writers of the orders table.
TableWriter ==
  \/ \E n \in DOMAIN orders : ApiCancel(n)
  \/ \E tk \in Ticket, status \in Reloaded \cap Status : OtherProcessSaves(tk, status)

\* The steps that leave both the program counters and the kill switch alone.
LEMMA KillInvFrame ==
  KillInv /\ UNCHANGED <<pc, kill, past>> => KillInv'
BY DEF KillInv

\* A request that returns is no longer past the gate.
LEMMA KillInvLeave ==
  ASSUME KillInv, NEW r \in Request, Leave(r), UNCHANGED kill,
         past' = past \ {r} \/ past' = past
  PROVE  KillInv'
BY DEF KillInv, Leave

LEMMA FinishLeaves ==
  ASSUME KillInv, NEW r \in Request, NEW status, Finish(r, status)
  PROVE  KillInv'
<1>1. Leave(r) /\ UNCHANGED kill /\ past' = past \ {r}
  BY DEF Finish
<1> QED BY <1>1, KillInvLeave

\* A request that goes on inside execute_order stays among the stragglers.
LEMMA ContinueStays ==
  ASSUME KillInv, NEW r \in Request, pc[r] \in InFlight,
         NEW where \in InFlight, Continue(r, where)
  PROVE  KillInv'
BY DEF KillInv, Continue, history

\* Nobody enters while the kill switch is on.
LEMMA GateIsShut ==
  ASSUME KillInv, NEW r \in Request, NEW tk, NEW m, NEW origin,
         PassGate(r, tk, m, origin), UNCHANGED <<kill, past>>
  PROVE  KillInv'
BY DEF KillInv, PassGate

LEMMA EndAtOnceLeaves ==
  ASSUME KillInv, NEW r \in Request, NEW tk, NEW m,
         EndAtOnce(r, tk, m), UNCHANGED <<kill, past>>
  PROVE  KillInv'
<1>1. Leave(r)
  BY DEF EndAtOnce
<1> QED BY <1>1, KillInvLeave

LEMMA KillInvGate ==
  ASSUME KillInv, NEW r \in Request, Gate(r)
  PROVE  KillInv'
<1>1. CASE GateRejects(r)
  BY <1>1, FinishLeaves DEF GateRejects
<1>2. CASE GateRaises(r)
  BY <1>2, KillInvLeave DEF GateRaises
<1>3. CASE AwaitApproval(r)
  BY <1>3, FinishLeaves DEF AwaitApproval
<1>4. CASE Delay(r)
  BY <1>4, ContinueStays DEF Delay
<1> QED BY <1>1, <1>2, <1>3, <1>4 DEF Gate

LEMMA AcceptedLeaves ==
  ASSUME KillInv, NEW r \in Request, NEW status, Accepted(r, status)
  PROVE  KillInv'
BY FinishLeaves DEF Accepted

\* An order that is sent again: the request stays where it is.
LEMMA RetryStays ==
  ASSUME KillInv, NEW r \in Request, LoseReply(r) \/ AttemptFails(r)
  PROVE  KillInv'
BY KillInvFrame DEF LoseReply, AttemptFails, history

LEMMA KillInvBroker ==
  ASSUME KillInv, NEW r \in Request, Broker(r)
  PROVE  KillInv'
<1>1. CASE Connect(r)
  BY <1>1, ContinueStays DEF Connect
<1>2. CASE ReadyToPlace(r)
  BY <1>2, ContinueStays DEF ReadyToPlace
<1>3. CASE FailEarly(r)
  BY <1>3, FinishLeaves DEF FailEarly
<1>4. CASE BreakerFallback(r)
  BY <1>4, FinishLeaves DEF BreakerFallback
<1>5. CASE AcceptedExecuted(r)
  BY <1>5, AcceptedLeaves DEF AcceptedExecuted
<1>6. CASE AcceptedAsFailed(r)
  BY <1>6, AcceptedLeaves DEF AcceptedAsFailed
<1>7. CASE PlaceFails(r)
  BY <1>7, FinishLeaves DEF PlaceFails
<1>8. CASE LoseReply(r) \/ AttemptFails(r)
  BY <1>8, RetryStays
<1> QED BY <1>1, <1>2, <1>3, <1>4, <1>5, <1>6, <1>7, <1>8 DEF Broker

LEMMA KillInvOperator ==
  ASSUME KillInv, NEW r \in Request, Operator(r)
  PROVE  KillInv'
<1>1. CASE Approve(r)
  <2>1. UNCHANGED <<kill, past>>
    BY <1>1 DEF Approve, history
  <2>2. PICK tk, m, origin :
          PassGate(r, tk, m, origin) \/ EndAtOnce(r, tk, m)
    BY <1>1 DEF Approve
  <2> QED BY <2>1, <2>2, GateIsShut, EndAtOnceLeaves
<1>2. CASE NothingFound(r)
  BY <1>2, KillInvLeave DEF NothingFound, history
<1>3. CASE Cancel(r)
  BY <1>3, KillInvLeave DEF Cancel, CancelUnlocked, history
<1> QED BY <1>1, <1>2, <1>3 DEF Operator

LEMMA KillInvCall ==
  ASSUME KillInv, NEW r \in Request, NEW tk \in Ticket,
         Submit(r, tk) \/ AskApprove(r, tk) \/ AskCancel(r, tk)
  PROVE  KillInv'
<1>1. CASE Submit(r, tk)
  <2>1. UNCHANGED <<kill, past>>
    BY <1>1 DEF Submit, history
  <2>2. EndAtOnce(r, tk, mode) \/ PassGate(r, tk, mode, 0)
    BY <1>1 DEF Submit
  <2> QED BY <2>1, <2>2, GateIsShut, EndAtOnceLeaves
<1>2. CASE AskApprove(r, tk) \/ AskCancel(r, tk)
  BY <1>2 DEF KillInv, AskApprove, AskCancel, Ask, history
<1> QED BY <1>1, <1>2

LEMMA KillInvStep ==
  ASSUME KillInv, [Next]_vars
  PROVE  KillInv'
<1>1. CASE \E r \in Request, tk \in Ticket :
             Submit(r, tk) \/ AskApprove(r, tk) \/ AskCancel(r, tk)
  BY <1>1, KillInvCall
<1>2. CASE \E r \in Request : Gate(r) \/ Broker(r) \/ Operator(r)
  BY <1>2, KillInvGate, KillInvBroker, KillInvOperator
<1>3. CASE GetLog \/ SetMode \/ TableWriter
  BY <1>3, KillInvFrame DEF GetLog, SetMode, TableWriter, ApiCancel,
                            OtherProcessSaves, memory, history
<1>4. CASE KillSwitchOn
  BY <1>4 DEF KillInv, KillSwitchOn
<1>5. CASE KillSwitchOff
  BY <1>5 DEF KillInv, KillSwitchOff
<1>6. CASE Crash
  BY <1>6 DEF KillInv, Crash
<1>7. CASE UNCHANGED vars
  BY <1>7, KillInvFrame DEF vars, memory, history
<1> QED BY <1>1, <1>2, <1>3, <1>4, <1>5, <1>6, <1>7 DEF Next, TableWriter

\* The invariant holds in every behaviour of execute_order and its callers.
THEOREM KillInvariant == Spec => []KillInv
<1>1. Init => KillInv
  BY DEF Init, KillInv
<1>2. KillInv /\ [Next]_vars => KillInv'
  BY KillInvStep
<1> QED BY <1>1, <1>2, PTL DEF Spec

\* Only attempts at place_order change what the broker holds.
LEMMA BrokerChanges ==
  ASSUME Next, exchange' # exchange
  PROVE  \E r \in Request : pc[r] = "place"
<1>1. ASSUME NEW r \in Request, NEW tk \in Ticket
      PROVE  Submit(r, tk) \/ AskApprove(r, tk) \/ AskCancel(r, tk)
               => UNCHANGED exchange
  BY DEF Submit, AskApprove, AskCancel, Ask, durable
<1>2. ASSUME NEW r \in Request
      PROVE  Gate(r) \/ Operator(r) => UNCHANGED exchange
  BY DEF Gate, GateRejects, GateRaises, AwaitApproval, Delay, Continue,
         Operator, Approve, NothingFound, Cancel, CancelUnlocked, durable
<1>3. GetLog \/ SetMode \/ KillSwitchOn \/ KillSwitchOff \/ Crash \/ TableWriter
        => UNCHANGED exchange
  BY DEF GetLog, SetMode, KillSwitchOn, KillSwitchOff, Crash, TableWriter,
         ApiCancel, OtherProcessSaves, durable
<1>4. PICK r \in Request : Broker(r)
  BY <1>1, <1>2, <1>3 DEF Next, TableWriter
<1>5. pc[r] = "place"
  BY <1>4 DEF Broker, Connect, ReadyToPlace, Continue, FailEarly, BreakerFallback,
              PlaceFails, AcceptedExecuted, AcceptedAsFailed, Accepted, LoseReply,
              AttemptFails
<1> QED BY <1>5

\* No order reaches the broker after the kill switch went on, except from a
\* request that had passed the gate before: for any number of requests, so in
\* particular for approvals racing the execution loop, and of attempts.
THEOREM KillStopsOrders == Spec => OnlyStragglersAfterKill
<1>1. KillInv /\ [Next]_vars =>
        [kill /\ exchange' # exchange => \E r \in past : pc[r] = "place"]_vars
  <2> SUFFICES ASSUME KillInv, Next, kill, exchange' # exchange
               PROVE  \E r \in past : pc[r] = "place"
    BY DEF vars, durable
  <2>1. PICK r \in Request : pc[r] = "place"
    BY BrokerChanges
  <2> QED BY <2>1 DEF KillInv
<1> QED BY <1>1, KillInvariant, PTL DEF Spec, OnlyStragglersAfterKill
-----------------------------------------------------------------------------
(* The rows that wait.  They are listed by a count, not by recursion, and  *)
(* the list has each of them once.                                         *)

\* Every waiting row has a place in the list, and two rows never the same one.
LEMMA PlacesDiffer ==
  ASSUME NEW n \in Nat, orders \in [1 .. n -> Row]
  PROVE  /\ IsFiniteSet(Waiting) /\ Cardinality(Waiting) \in Nat
         /\ \A i \in Waiting : PlaceOf(i) \in 1 .. Cardinality(Waiting)
         /\ \A i, j \in Waiting : PlaceOf(i) = PlaceOf(j) => i = j
<1> DEFINE From(i) == {k \in Waiting : k >= i}
<1>1. Waiting \subseteq 1 .. n
  BY DEF Waiting
<1>2. IsFiniteSet(Waiting)
  <2>1. IsFiniteSet(1 .. n)
    BY FS_Interval
  <2> QED BY <1>1, <2>1, FS_Subset
<1>3. ASSUME NEW i \in Waiting
      PROVE  /\ IsFiniteSet(From(i)) /\ From(i) \subseteq Waiting
             /\ Cardinality(From(i)) \in Nat /\ Cardinality(From(i)) # 0
  <2>1. i \in From(i) /\ From(i) \subseteq Waiting
    BY <1>1
  <2> HIDE DEF From
  <2>2. IsFiniteSet(From(i))
    BY <1>2, <2>1, FS_Subset
  <2>3. Cardinality(From(i)) \in Nat
    BY <2>2, FS_CardinalityType
  <2>4. Cardinality(From(i)) = 0 <=> From(i) = {}
    BY <2>2, FS_EmptySet
  <2> QED BY <2>1, <2>2, <2>3, <2>4
<1>4. ASSUME NEW i \in Waiting, NEW j \in Waiting, i < j
      PROVE  Cardinality(From(j)) < Cardinality(From(i))
  <2>a. Waiting \subseteq Nat
    BY <1>1
  <2>1. From(j) \subseteq From(i) /\ i \in From(i) /\ i \notin From(j)
    <3>1. i \in Nat /\ j \in Nat /\ i < j
      BY <1>4, <2>a
    <3>2. ASSUME NEW k \in From(j) PROVE k \in From(i)
      <4>1. k \in Waiting /\ k \in Nat /\ k >= j
        BY <2>a
      <4> QED BY <3>1, <4>1
    <3>3. i \in From(i) /\ i \notin From(j)
      BY <3>1
    <3> HIDE DEF From
    <3> QED BY <3>2, <3>3
  <2> HIDE DEF From
  <2>2. From(j) # From(i)
    BY <2>1
  <2>3. IsFiniteSet(From(i)) /\ From(j) \in SUBSET From(i)
    BY <1>3, <2>1
  <2>4. /\ Cardinality(From(j)) <= Cardinality(From(i))
        /\ Cardinality(From(j)) = Cardinality(From(i)) => From(j) = From(i)
    BY <2>3, FS_Subset
  <2>5. Cardinality(From(i)) \in Nat /\ Cardinality(From(j)) \in Nat
    BY <1>3
  <2> QED BY <2>2, <2>4, <2>5
<1>5. ASSUME NEW i \in Waiting
      PROVE  PlaceOf(i) \in 1 .. Cardinality(Waiting)
  <2>1. PlaceOf(i) = Cardinality(From(i))
    BY DEF PlaceOf
  <2> HIDE DEF From
  <2>2. Cardinality(From(i)) <= Cardinality(Waiting)
    BY <1>2, <1>3, FS_Subset
  <2>3. Cardinality(Waiting) \in Nat
    BY <1>2, FS_CardinalityType
  <2> QED BY <1>3, <2>1, <2>2, <2>3
<1>6. ASSUME NEW i \in Waiting, NEW j \in Waiting, PlaceOf(i) = PlaceOf(j)
      PROVE  i = j
  <2>1. Cardinality(From(i)) = Cardinality(From(j))
    BY <1>6 DEF PlaceOf
  <2> HIDE DEF From
  <2>2. ~ (i < j) /\ ~ (j < i)
    BY <1>3, <1>4, <2>1
  <2>3. i \in Nat /\ j \in Nat
    BY <1>1
  <2> QED BY <2>2, <2>3
<1> QED BY <1>2, <1>5, <1>6, FS_CardinalityType

\* The list holds waiting rows and nothing else, and all of them.
LEMMA WaitingRowsListed ==
  ASSUME NEW n \in Nat, orders \in [1 .. n -> Row]
  PROVE  /\ WaitingRows \in Seq(Waiting)
         /\ \A i \in Waiting : \E k \in DOMAIN WaitingRows : WaitingRows[k] = i
<1> DEFINE c == Cardinality(Waiting)
<1>1. /\ IsFiniteSet(Waiting) /\ c \in Nat
      /\ \A i \in Waiting : PlaceOf(i) \in 1 .. c
      /\ \A i, j \in Waiting : PlaceOf(i) = PlaceOf(j) => i = j
  BY PlacesDiffer
<1> DEFINE place == [i \in Waiting |-> PlaceOf(i)]
<1>2. \A k \in 1 .. c : \E i \in Waiting : PlaceOf(i) = k
  <2>1. place \in Injection(Waiting, 1 .. c)
    BY <1>1 DEF Injection, IsInjective
  <2>2. IsFiniteSet(1 .. c) /\ Cardinality(1 .. c) = c
    BY <1>1, FS_Interval
  <2> HIDE DEF place
  <2>3. place \in Surjection(Waiting, 1 .. c)
    BY <2>1, <2>2, FS_Injection
  <2> USE DEF place
  <2> QED BY <2>3 DEF Surjection
<1>3. \A k \in 1 .. c : WaitingRows[k] \in Waiting /\ PlaceOf(WaitingRows[k]) = k
  BY <1>2 DEF WaitingRows
<1>4. WaitingRows \in [1 .. c -> Waiting]
  BY <1>3 DEF WaitingRows
<1>5. ASSUME NEW i \in Waiting
      PROVE  \E k \in DOMAIN WaitingRows : WaitingRows[k] = i
  <2>1. PlaceOf(i) \in 1 .. c
    BY <1>1
  <2>2. WaitingRows[PlaceOf(i)] = i
    BY <1>1, <1>3, <2>1
  <2> QED BY <1>4, <2>1, <2>2
<1> QED BY <1>1, <1>4, <1>5
-----------------------------------------------------------------------------
(* The log and the orders table.                                           *)

LogTyped ==
  /\ log \in Seq(Record) /\ Len(log) <= LogMax
  /\ logLoaded \in BOOLEAN
  /\ orders \in Seq(Row)

\* A step that drops nothing also changes nothing: the records of before are
\* still in the log.
Kept ==
  Len(log') < LogMax =>
    /\ Len(log) < LogMax
    /\ \A i \in DOMAIN log : \E j \in DOMAIN log' : log'[j] = log[i]

\* The end of execute_order adds a record, at the right end, and drops one on
\* the left when the log is full.
LEMMA AppendedLog ==
  ASSUME LogTyped, NEW tk \in Ticket, NEW status \in Status,
         NEW n \in Nat, LogAppend(tk, status, n)
  PROVE  /\ log' \in Seq(Record) /\ Len(log') <= LogMax /\ Kept
         /\ log'[Len(log')] = [ticket |-> tk, status |-> status, row |-> n]
         /\ Len(log') # 0
         /\ \A j \in DOMAIN log' : j # Len(log') =>
              \E i \in DOMAIN log : log'[j] = log[i]
<1> DEFINE rec == [ticket |-> tk, status |-> status, row |-> n]
           full == Append(log, rec)
<1>1. rec \in Record
  BY DEF Record
<1>2. log \in Seq(Record) /\ Len(log) \in Nat /\ Len(log) <= LogMax /\ LogMax \in Nat \ {0}
  BY ExecutionAssumption DEF LogTyped
<1>3. log' = IF Len(full) > LogMax THEN Tail(full) ELSE full
  BY DEF LogAppend
<1> HIDE DEF rec
<1>4. /\ full \in Seq(Record) /\ Len(full) = Len(log) + 1
      /\ \A i \in 1 .. Len(log) : full[i] = log[i]
      /\ full[Len(log) + 1] = rec
  BY <1>1, <1>2
<1>5. CASE Len(full) > LogMax
  <2>1. log' = Tail(full) /\ Len(log) = LogMax
    BY <1>2, <1>3, <1>4, <1>5
  <2> HIDE DEF full
  <2>2. /\ log' \in Seq(Record) /\ Len(log') = LogMax
        /\ \A j \in 1 .. LogMax : log'[j] = full[j + 1]
    BY <1>2, <1>4, <2>1
  <2>3. \A j \in 1 .. LogMax : j # LogMax => log'[j] = log[j + 1]
    BY <1>2, <1>4, <2>1, <2>2
  <2>4. \A j \in DOMAIN log' : j # LogMax => \E i \in DOMAIN log : log'[j] = log[i]
    <3> SUFFICES ASSUME NEW j \in 1 .. LogMax, j # LogMax
                 PROVE  j + 1 \in DOMAIN log /\ log'[j] = log[j + 1]
      BY <2>2
    <3>1. DOMAIN log = 1 .. LogMax
      BY <1>2, <2>1
    <3>2. LogMax \in Nat
      BY <1>2
    <3>3. j + 1 \in 1 .. LogMax
      BY <3>2
    <3> QED BY <2>3, <3>1, <3>3
  <2> QED BY <1>2, <1>4, <2>1, <2>2, <2>4 DEF Kept, rec
<1>6. CASE ~ (Len(full) > LogMax)
  <2>1. log' = full
    BY <1>3, <1>6
  <2> HIDE DEF full
  <2>2. \A i \in DOMAIN log : i \in DOMAIN log' /\ log'[i] = log[i]
    BY <1>2, <1>4, <2>1
  <2>3. \A j \in DOMAIN log' : j # Len(log') => j \in DOMAIN log /\ log'[j] = log[j]
    BY <1>2, <1>4, <2>1
  <2>4. Kept
    BY <1>2, <1>4, <2>1, <2>2 DEF Kept
  <2>5. /\ log' \in Seq(Record) /\ Len(log') = Len(log) + 1
        /\ log'[Len(log')] = rec /\ Len(log') <= LogMax
    BY <1>2, <1>4, <1>6, <2>1
  <2>6. Len(log') # 0
    BY <1>2, <2>5
  <2>7. \A j \in DOMAIN log' : j # Len(log') => \E i \in DOMAIN log : log'[j] = log[i]
    BY <2>3
  <2>8. log'[Len(log')] = [ticket |-> tk, status |-> status, row |-> n]
    BY <2>5 DEF rec
  <2> HIDE DEF Kept
  <2> QED BY <2>4, <2>5, <2>6, <2>7, <2>8
<1> QED BY <1>5, <1>6

\* What execute_order leaves: a record, and its row unless saving failed.
Books == LogTyped /\ LogMatchesOrders /\ WaitingRowsReachable

LEMMA SaveKeepsBooks ==
  ASSUME Books, NEW tk \in Ticket, NEW status \in Status,
         Save(tk, status), UNCHANGED <<logLoaded, foreign>>
  PROVE  Books' /\ Kept
<1> DEFINE row == [ticket |-> tk, status |-> status]
<1>1. row \in Row /\ orders \in Seq(Row) /\ Len(orders) \in Nat
  BY DEF Row, Books, LogTyped
<1>2. PICK n \in Nat :
        /\ LogAppend(tk, status, n)
        /\ \/ n = 0 /\ orders' = orders
           \/ n = Len(orders) + 1 /\ orders' = Append(orders, row)
  <2>1. 0 \in Nat /\ Len(orders) + 1 \in Nat
    BY <1>1
  <2> QED BY <2>1 DEF Save
<1> HIDE DEF row
<1>3. /\ orders' \in Seq(Row)
      /\ \A k \in DOMAIN orders : k \in DOMAIN orders' /\ orders'[k] = orders[k]
      /\ n # 0 => n \in DOMAIN orders' /\ orders'[n] = row
      /\ \A k \in DOMAIN orders' : k \in DOMAIN orders \/ (n # 0 /\ k = n)
  BY <1>1, <1>2
<1>4. /\ log' \in Seq(Record) /\ Len(log') <= LogMax /\ Kept
      /\ log'[Len(log')] = [ticket |-> tk, status |-> status, row |-> n]
      /\ Len(log') \in DOMAIN log'
      /\ \A j \in DOMAIN log' : j # Len(log') =>
           \E i \in DOMAIN log : log'[j] = log[i]
  <2>1. Len(log') # 0 /\ log' \in Seq(Record)
    BY <1>2, AppendedLog DEF Books
  <2>2. Len(log') \in DOMAIN log'
    BY <2>1
  <2> QED BY <1>2, <2>2, AppendedLog DEF Books
<1>5. LogTyped'
  BY <1>3, <1>4 DEF Books, LogTyped
<1>6. LogMatchesOrders'
  <2> SUFFICES ASSUME NEW j \in DOMAIN log', log'[j].row # 0
               PROVE  /\ log'[j].row \in DOMAIN orders'
                      /\ orders'[log'[j].row].ticket = log'[j].ticket
                      /\ \/ orders'[log'[j].row].status = log'[j].status
                         \/ /\ log'[j].status = "cancelled"
                            /\ orders'[log'[j].row].status = "pending_approval"
                         \/ orders'[log'[j].row].status = "cancelled"
    BY DEF LogMatchesOrders
  <2>1. CASE j = Len(log')
    BY <1>3, <1>4, <2>1 DEF row
  <2>2. CASE j # Len(log')
    <3>1. PICK i \in DOMAIN log : log'[j] = log[i]
      BY <1>4, <2>2
    <3>2. /\ log[i].row \in DOMAIN orders
          /\ orders[log[i].row].ticket = log[i].ticket
          /\ \/ orders[log[i].row].status = log[i].status
             \/ /\ log[i].status = "cancelled"
                /\ orders[log[i].row].status = "pending_approval"
             \/ orders[log[i].row].status = "cancelled"
      BY <3>1 DEF Books, LogMatchesOrders
    <3> QED BY <1>3, <3>1, <3>2
  <2> QED BY <2>1, <2>2
<1>7. WaitingRowsReachable'
  <2> SUFFICES ASSUME logLoaded', Len(log') < LogMax, NEW k \in DOMAIN orders' \ foreign,
                      orders'[k].status = "pending_approval"
               PROVE  \E j \in DOMAIN log' : log'[j].row = k
    BY DEF WaitingRowsReachable
  <2>1. CASE k \in DOMAIN orders
    <3>1. PICK i \in DOMAIN log : log[i].row = k
      BY <1>3, <1>4, <2>1 DEF Kept, Books, WaitingRowsReachable
    <3> QED BY <1>4, <3>1 DEF Kept
  <2>2. CASE k = n /\ n # 0
    BY <1>4, <2>2
  <2> QED BY <1>3, <2>1, <2>2
<1> QED BY <1>3, <1>4, <1>5, <1>6, <1>7 DEF Books

\* The records made of the waiting rows.
LEMMA ReloadedRecords ==
  ASSUME Books
  PROVE  /\ RecordsOf(WaitingRows) \in Seq(Record)
         /\ \A k \in DOMAIN RecordsOf(WaitingRows) :
              LET rec == RecordsOf(WaitingRows)[k]
              IN  /\ rec.row \in DOMAIN orders
                  /\ rec.ticket = orders[rec.row].ticket
                  /\ rec.status = orders[rec.row].status
         /\ \A n \in DOMAIN orders : orders[n].status = "pending_approval" =>
              \E k \in DOMAIN RecordsOf(WaitingRows) : RecordsOf(WaitingRows)[k].row = n
<1> DEFINE rows == WaitingRows
           recs == RecordsOf(rows)
<1>1. orders \in [1 .. Len(orders) -> Row] /\ Len(orders) \in Nat
  BY DEF Books, LogTyped
<1>2. rows \in Seq(Waiting) /\ \A n \in Waiting : \E k \in DOMAIN rows : rows[k] = n
  BY <1>1, WaitingRowsListed
<1> HIDE DEF rows
<1>3. \A n \in Waiting : n \in DOMAIN orders /\ n \in Nat
  BY <1>1 DEF Waiting
<1>4. \A n \in DOMAIN orders : orders[n].ticket \in Ticket /\ orders[n].status \in Status
  BY <1>1 DEF Row
<1>5. /\ DOMAIN recs = DOMAIN rows
      /\ \A k \in DOMAIN rows :
           /\ rows[k] \in Waiting
           /\ recs[k] = [ticket |-> orders[rows[k]].ticket,
                         status |-> orders[rows[k]].status, row |-> rows[k]]
  BY <1>2 DEF RecordsOf
<1> HIDE DEF recs
<1>6. recs \in [1 .. Len(rows) -> Record]
  <2>1. \A k \in DOMAIN rows : recs[k] \in Record
    BY <1>3, <1>4, <1>5 DEF Record
  <2>2. recs = [k \in DOMAIN recs |-> recs[k]]
    BY DEF recs, RecordsOf
  <2>3. DOMAIN rows = 1 .. Len(rows)
    BY <1>2
  <2> QED BY <1>5, <2>1, <2>2, <2>3
<1>7. \A n \in DOMAIN orders : orders[n].status = "pending_approval" =>
        \E k \in DOMAIN recs : recs[k].row = n
  BY <1>2, <1>5 DEF Waiting, Reloaded
<1>8. recs \in Seq(Record)
  BY <1>2, <1>6
<1>9. \A k \in DOMAIN recs :
        /\ recs[k].row \in DOMAIN orders
        /\ recs[k].ticket = orders[recs[k].row].ticket
        /\ recs[k].status = orders[recs[k].row].status
  BY <1>3, <1>5
<1> QED BY <1>7, <1>8, <1>9 DEF recs, rows

\* Reloading puts the waiting rows in front; what does not fit is dropped.
LEMMA ReloadKeepsBooks ==
  ASSUME Books, Reload, UNCHANGED <<orders, foreign>>
  PROVE  Books' /\ Kept
<1>1. CASE UNCHANGED <<log, logLoaded>>
  BY <1>1 DEF Books, LogTyped, LogMatchesOrders, WaitingRowsReachable, Kept
<1>2. CASE logLoaded /\ log' = LogAfterReload /\ logLoaded' = TRUE
  <2>1. UNCHANGED <<log, logLoaded>>
    BY <1>2 DEF LogAfterReload, Books, LogTyped
  <2> QED BY <1>1, <2>1
<1>3. CASE ~ logLoaded /\ log' = LogAfterReload /\ logLoaded' = TRUE
  <2> DEFINE recs == RecordsOf(WaitingRows)
             full == recs \o log
  <2>1. /\ recs \in Seq(Record)
        /\ \A k \in DOMAIN recs :
             /\ recs[k].row \in DOMAIN orders
             /\ recs[k].ticket = orders[recs[k].row].ticket
             /\ recs[k].status = orders[recs[k].row].status
        /\ \A n \in DOMAIN orders : orders[n].status = "pending_approval" =>
             \E k \in DOMAIN recs : recs[k].row = n
    BY ReloadedRecords
  <2>2. log' = SubSeq(full, 1, Lesser(LogMax, Len(full))) /\ logLoaded' = TRUE
    BY <1>3 DEF LogAfterReload
  <2> HIDE DEF recs
  <2>3. log \in Seq(Record) /\ Len(log) \in Nat /\ LogMax \in Nat
    BY ExecutionAssumption DEF Books, LogTyped
  <2>4. /\ full \in Seq(Record) /\ Len(full) = Len(recs) + Len(log)
        /\ \A k \in 1 .. Len(recs) : full[k] = recs[k]
        /\ \A k \in 1 .. Len(log) : full[Len(recs) + k] = log[k]
        /\ \A k \in 1 .. Len(full) : k > Len(recs) => full[k] = log[k - Len(recs)]
    BY <2>1, <2>3
  <2> HIDE DEF full
  <2>5. /\ Lesser(LogMax, Len(full)) \in 0 .. Len(full)
        /\ Lesser(LogMax, Len(full)) <= LogMax
        /\ Lesser(LogMax, Len(full)) < LogMax => Lesser(LogMax, Len(full)) = Len(full)
    BY <2>3, <2>4 DEF Lesser
  <2>6. /\ log' \in Seq(Record) /\ Len(log') = Lesser(LogMax, Len(full))
        /\ \A j \in DOMAIN log' : j \in 1 .. Len(full) /\ log'[j] = full[j]
    BY <2>2, <2>4, <2>5
  <2>7. ASSUME Len(log') < LogMax
        PROVE  /\ Len(log') = Len(recs) + Len(log)
               /\ \A k \in 1 .. Len(recs) : k \in DOMAIN log' /\ log'[k] = recs[k]
               /\ \A k \in 1 .. Len(log) :
                    Len(recs) + k \in DOMAIN log' /\ log'[Len(recs) + k] = log[k]
    <3>1. Len(log') = Len(full)
      BY <2>5, <2>6, <2>7
    <3>2. DOMAIN log' = 1 .. Len(full) /\ Len(recs) \in Nat
      BY <2>1, <2>6, <3>1
    <3>3. ASSUME NEW k \in 1 .. Len(recs)
          PROVE  k \in DOMAIN log' /\ log'[k] = recs[k]
      <4>1. k \in 1 .. Len(full)
        BY <2>3, <2>4, <3>2
      <4> QED BY <2>4, <2>6, <3>2, <4>1
    <3>4. ASSUME NEW k \in 1 .. Len(log)
          PROVE  Len(recs) + k \in DOMAIN log' /\ log'[Len(recs) + k] = log[k]
      <4>1. Len(recs) + k \in 1 .. Len(full)
        BY <2>3, <2>4, <3>2
      <4> QED BY <2>4, <2>6, <3>2, <4>1
    <3> QED BY <2>4, <3>1, <3>3, <3>4
  <2>8. LogTyped'
    BY <2>2, <2>5, <2>6 DEF Books, LogTyped
  <2>9. LogMatchesOrders'
    <3> SUFFICES ASSUME NEW j \in DOMAIN log', log'[j].row # 0
                 PROVE  /\ log'[j].row \in DOMAIN orders
                        /\ orders[log'[j].row].ticket = log'[j].ticket
                        /\ \/ orders[log'[j].row].status = log'[j].status
                           \/ /\ log'[j].status = "cancelled"
                              /\ orders[log'[j].row].status = "pending_approval"
                           \/ orders[log'[j].row].status = "cancelled"
      BY DEF LogMatchesOrders
    <3>1. CASE j <= Len(recs)
      <4>1. j \in DOMAIN recs /\ log'[j] = recs[j]
        BY <2>1, <2>4, <2>6, <3>1
      <4> QED BY <2>1, <4>1
    <3>2. CASE j > Len(recs)
      <4>1. j - Len(recs) \in DOMAIN log /\ log'[j] = log[j - Len(recs)]
        BY <2>1, <2>3, <2>4, <2>6, <3>2
      <4> QED BY <4>1 DEF Books, LogMatchesOrders
    <3>3. j \in Nat /\ Len(recs) \in Nat
      BY <2>1, <2>6
    <3> QED BY <3>1, <3>2, <3>3
  <2>10. WaitingRowsReachable'
    <3> SUFFICES ASSUME Len(log') < LogMax, NEW n \in DOMAIN orders \ foreign,
                        orders[n].status = "pending_approval"
                 PROVE  \E j \in DOMAIN log' : log'[j].row = n
      BY DEF WaitingRowsReachable
    <3>1. PICK k \in DOMAIN recs : recs[k].row = n
      BY <2>1
    <3>2. k \in 1 .. Len(recs)
      BY <2>1
    <3> QED BY <2>7, <3>1, <3>2
  <2>11. Kept
    <3> SUFFICES ASSUME Len(log') < LogMax
                 PROVE  /\ Len(log) < LogMax
                        /\ \A i \in DOMAIN log : \E j \in DOMAIN log' : log'[j] = log[i]
      BY DEF Kept
    <3>1. DOMAIN log = 1 .. Len(log) /\ Len(recs) \in Nat
      BY <2>1, <2>3
    <3>2. Len(log) < LogMax
      BY <2>3, <2>7, <3>1
    <3> QED BY <2>7, <3>1, <3>2
  <2> QED BY <2>8, <2>9, <2>10, <2>11 DEF Books
<1> QED BY <1>1, <1>2, <1>3 DEF Reload, Books, LogTyped

\* cancel_pending marks one record; its row and all other records stay.
LEMMA CancelKeepsBooks ==
  ASSUME Books, NEW i \in DOMAIN log, log[i].status = "pending_approval",
         log' = [log EXCEPT ![i].status = "cancelled"],
         UNCHANGED <<orders, foreign, logLoaded>>
  PROVE  Books'
<1>1. log \in Seq(Record) /\ log \in [1 .. Len(log) -> Record] /\ Len(log) \in Nat
  BY DEF Books, LogTyped
<1>2. [log[i] EXCEPT !.status = "cancelled"] \in Record
  BY <1>1 DEF Record, Status
<1>3. /\ log' \in Seq(Record) /\ Len(log') = Len(log) /\ DOMAIN log' = DOMAIN log
      /\ log'[i] = [log[i] EXCEPT !.status = "cancelled"]
      /\ \A j \in DOMAIN log : j # i => log'[j] = log[j]
  BY <1>1, <1>2
<1>4. /\ log'[i].row = log[i].row /\ log'[i].ticket = log[i].ticket
      /\ log'[i].status = "cancelled"
  BY <1>1, <1>3 DEF Record
<1>5. LogTyped'
  BY <1>3 DEF Books, LogTyped
<1>6. LogMatchesOrders'
  BY <1>3, <1>4 DEF Books, LogMatchesOrders
<1>7. WaitingRowsReachable'
  <2>1. \A j \in DOMAIN log : log'[j].row = log[j].row
    BY <1>3, <1>4
  <2> QED BY <1>3, <2>1 DEF Books, WaitingRowsReachable
<1> QED BY <1>5, <1>6, <1>7 DEF Books

\* A new process starts with an empty log.
LEMMA EmptyLogKeepsBooks ==
  ASSUME Books, log' = <<>>, logLoaded' = FALSE, UNCHANGED orders
  PROVE  Books'
<1>1. log' \in Seq(Record) /\ Len(log') = 0 /\ DOMAIN log' = {}
  OBVIOUS
<1>2. LogTyped'
  <2>1. LogMax \in Nat
    BY ExecutionAssumption
  <2>2. 0 <= LogMax
    BY <2>1
  <2>3. orders' \in Seq(Row)
    BY DEF Books, LogTyped
  <2> QED BY <1>1, <2>2, <2>3 DEF LogTyped
<1> QED BY <1>1, <1>2 DEF Books, LogMatchesOrders, WaitingRowsReachable

\* The API cancels a row, whatever its record says.
LEMMA ApiCancelKeepsBooks ==
  ASSUME Books, NEW n \in DOMAIN orders, ApiCancel(n)
  PROVE  Books' /\ Kept
<1>1. /\ orders' = [orders EXCEPT ![n].status = "cancelled"]
      /\ UNCHANGED <<log, logLoaded, foreign>>
  BY DEF ApiCancel, memory, history
<1>2. orders \in Seq(Row) /\ orders \in [1 .. Len(orders) -> Row] /\ Len(orders) \in Nat
  BY DEF Books, LogTyped
<1>3. [orders[n] EXCEPT !.status = "cancelled"] \in Row
  BY <1>2 DEF Row, Status
<1>4. /\ orders' \in Seq(Row) /\ DOMAIN orders' = DOMAIN orders
      /\ orders'[n] = [orders[n] EXCEPT !.status = "cancelled"]
      /\ \A k \in DOMAIN orders : k # n => orders'[k] = orders[k]
  BY <1>1, <1>2, <1>3
<1>5. orders'[n].ticket = orders[n].ticket /\ orders'[n].status = "cancelled"
  BY <1>2, <1>4 DEF Row
<1>6. LogTyped' /\ Kept
  BY <1>1, <1>4 DEF Books, LogTyped, Kept
<1>7. LogMatchesOrders' /\ WaitingRowsReachable'
  BY <1>1, <1>4, <1>5 DEF Books, LogMatchesOrders, WaitingRowsReachable
<1> QED BY <1>6, <1>7 DEF Books

\* Another process saves a row: it is the only one without a record here.
LEMMA OtherProcessKeepsBooks ==
  ASSUME Books, NEW tk \in Ticket, NEW status \in Status, OtherProcessSaves(tk, status)
  PROVE  Books' /\ Kept
<1> DEFINE row == [ticket |-> tk, status |-> status]
<1>1. /\ orders' = Append(orders, row)
      /\ foreign' = IF logLoaded THEN foreign \cup {Len(orders) + 1} ELSE foreign
      /\ UNCHANGED <<log, logLoaded>>
  BY DEF OtherProcessSaves, memory
<1>2. row \in Row /\ orders \in Seq(Row) /\ Len(orders) \in Nat
  BY DEF Books, LogTyped, Row
<1> HIDE DEF row
<1>3. /\ orders' \in Seq(Row)
      /\ \A k \in DOMAIN orders : k \in DOMAIN orders' /\ orders'[k] = orders[k]
      /\ \A k \in DOMAIN orders' : k \in DOMAIN orders \/ k = Len(orders) + 1
  BY <1>1, <1>2
<1>4. LogTyped' /\ Kept
  BY <1>1, <1>3 DEF Books, LogTyped, Kept
<1>5. LogMatchesOrders' /\ WaitingRowsReachable'
  BY <1>1, <1>3 DEF Books, LogMatchesOrders, WaitingRowsReachable
<1> QED BY <1>4, <1>5 DEF Books

-----------------------------------------------------------------------------
(* The requests.  Whoever holds _mode_lock is in the middle of             *)
(* execute_order.                                                          *)

CallsTyped ==
  /\ mode \in Mode
  /\ lock \in Request \cup {Nobody}
  /\ pc \in [Request -> Where]
  /\ job \in [Request -> Job]
  /\ kill \in BOOLEAN
  /\ exchange \in Seq(Nat)
  /\ past \subseteq Request
  /\ foreign \subseteq Nat
  /\ crashes \in 0 .. MaxCrashes

LockHeld == \A r \in Request : lock = r => pc[r] \in InFlight

OrderInv == Books /\ CallsTyped /\ LockHeld /\ ApprovalExcludesCancel

LEMMA CallIsJob ==
  ASSUME NEW tk \in Ticket, NEW m \in Mode, NEW origin \in Nat
  PROVE  Call(tk, m, origin) \in Job /\ Call(tk, m, origin).origin = origin
BY DEF Call, Job

LEMMA NoJobIsJob == NoJob \in Job
<1>1. (CHOOSE tk \in Ticket : TRUE) \in Ticket
  BY ExecutionAssumption
<1> QED BY <1>1, CallIsJob DEF NoJob, Mode

\* A request returns.
LEMMA LeaveKeepsCalls ==
  ASSUME CallsTyped, NEW r \in Request, Leave(r),
         lock' \in {lock, Nobody}, UNCHANGED <<mode, kill, foreign, crashes>>,
         exchange' \in Seq(Nat), past' \subseteq Request
  PROVE  CallsTyped'
BY NoJobIsJob DEF Leave, CallsTyped

\* A request goes on, or enters.
LEMMA MoveKeepsCalls ==
  ASSUME CallsTyped, NEW r \in Request, NEW where \in Where,
         pc' = [pc EXCEPT ![r] = where], job' \in [Request -> Job],
         lock' \in {lock, r}, UNCHANGED <<mode, kill, exchange, past, foreign, crashes>>
  PROVE  CallsTyped'
BY DEF CallsTyped

\* Unless the lock changes hands or a record is changed, the approval that is
\* being executed still has its record.
LEMMA ApprovalStays ==
  ASSUME ApprovalExcludesCancel, Kept,
         \A r \in Request : lock' = r => lock = r /\ job'[r].origin = job[r].origin
  PROVE  ApprovalExcludesCancel'
<1> SUFFICES ASSUME NEW r \in Request, lock' = r, job'[r].origin # 0, Len(log') < LogMax
             PROVE  \E j \in DOMAIN log' :
                      log'[j].row = job'[r].origin /\ log'[j].status = "pending_approval"
  BY DEF ApprovalExcludesCancel
<1>1. lock = r /\ job'[r].origin = job[r].origin /\ Len(log) < LogMax
  BY DEF Kept
<1>2. PICK i \in DOMAIN log :
        log[i].row = job[r].origin /\ log[i].status = "pending_approval"
  BY <1>1 DEF ApprovalExcludesCancel
<1>3. PICK j \in DOMAIN log' : log'[j] = log[i]
  BY DEF Kept
<1> QED BY <1>1, <1>2, <1>3

\* The end of execute_order, however it ends.
LEMMA FinishKeepsInv ==
  ASSUME OrderInv, NEW r \in Request, pc[r] \in InFlight, NEW status \in Status,
         Finish(r, status), exchange' \in Seq(Nat)
  PROVE  OrderInv'
<1>1. /\ Save(job[r].ticket, status) /\ Leave(r) /\ Release(r)
      /\ past' = past \ {r} /\ UNCHANGED <<logLoaded, mode, kill, foreign, crashes>>
  BY DEF Finish
<1>2. CallsTyped /\ LogTyped
  BY DEF OrderInv, Books
<1>3. job[r].ticket \in Ticket
  BY <1>2 DEF CallsTyped, Job
<1>5. Books' /\ Kept
  BY <1>1, <1>3, SaveKeepsBooks DEF OrderInv
<1>6. lock' \in {lock, Nobody} /\ lock' # r
  BY <1>1, ExecutionAssumption DEF Release
<1>7. CallsTyped'
  <2>1. past' \subseteq Request
    BY <1>1, <1>2 DEF CallsTyped
  <2> QED BY <1>1, <1>2, <1>6, <2>1, LeaveKeepsCalls
<1>8. \A q \in Request : lock' = q =>
        lock = q /\ q # r /\ pc'[q] = pc[q] /\ job'[q] = job[q]
  BY <1>1, <1>2, <1>6, ExecutionAssumption DEF Leave, CallsTyped
<1>9. LockHeld'
  BY <1>8 DEF LockHeld, OrderInv
<1>10. ApprovalExcludesCancel'
  BY <1>5, <1>8, ApprovalStays DEF OrderInv
<1> QED BY <1>5, <1>7, <1>9, <1>10 DEF OrderInv

\* A request that goes on inside execute_order.
LEMMA ContinueKeepsInv ==
  ASSUME OrderInv, NEW r \in Request, pc[r] \in InFlight,
         NEW where \in InFlight, Continue(r, where)
  PROVE  OrderInv'
<1>1. /\ pc' = [pc EXCEPT ![r] = where]
      /\ UNCHANGED <<log, logLoaded, orders, mode, lock, job, kill, exchange, past,
                     foreign, crashes>>
  BY DEF Continue, history
<1>2. CallsTyped /\ LogTyped
  BY DEF OrderInv, Books
<1>3. CallsTyped'
  BY <1>1, <1>2, MoveKeepsCalls DEF CallsTyped
<1>4. Books' /\ ApprovalExcludesCancel'
  BY <1>1 DEF OrderInv, Books, LogTyped, LogMatchesOrders, WaitingRowsReachable,
              ApprovalExcludesCancel
<1>5. LockHeld'
  BY <1>1, <1>2 DEF LockHeld, OrderInv, CallsTyped
<1> QED BY <1>3, <1>4, <1>5 DEF OrderInv

\* The steps of a request that has no record to write yet, up to the properties
\* of the lock.
LEMMA EndAtOnceKeepsInv ==
  ASSUME OrderInv, NEW r \in Request, pc[r] \notin InFlight,
         NEW tk \in Ticket, NEW m, EndAtOnce(r, tk, m),
         UNCHANGED <<logLoaded, mode, lock, kill, exchange, past, foreign, crashes>>
  PROVE  OrderInv'
<1>1. PICK status \in Status : Save(tk, status) /\ Leave(r)
  BY DEF EndAtOnce, Status
<1>2. CallsTyped /\ LogTyped
  BY DEF OrderInv, Books
<1>4. Books' /\ Kept
  BY <1>1, SaveKeepsBooks DEF OrderInv
<1>5. CallsTyped'
  BY <1>1, <1>2, LeaveKeepsCalls DEF CallsTyped
<1>6. \A q \in Request : lock' = q =>
        lock = q /\ q # r /\ pc'[q] = pc[q] /\ job'[q] = job[q]
  BY <1>1, <1>2 DEF Leave, CallsTyped, OrderInv, LockHeld
<1>7. LockHeld'
  BY <1>6 DEF LockHeld, OrderInv
<1>8. ApprovalExcludesCancel'
  BY <1>4, <1>6, ApprovalStays DEF OrderInv
<1> QED BY <1>4, <1>5, <1>7, <1>8 DEF OrderInv

\* Through the gate on an order of its own, without the lock.
LEMMA PassGateKeepsCalls ==
  ASSUME OrderInv, NEW r \in Request,
         NEW tk \in Ticket, NEW m \in Mode, NEW origin \in Nat,
         PassGate(r, tk, m, origin), lock' \in {lock, r},
         UNCHANGED <<logLoaded, mode, kill, exchange, past, foreign, crashes>>
  PROVE  /\ Books' /\ Kept /\ CallsTyped'
         /\ pc'[r] = "gate" /\ job'[r].origin = origin
         /\ \A q \in Request : q # r => pc'[q] = pc[q] /\ job'[q] = job[q]
<1>1. CallsTyped /\ LogTyped
  BY DEF OrderInv, Books
<1> DEFINE call == Call(tk, m, origin)
<1>2. /\ pc' = [pc EXCEPT ![r] = "gate"] /\ job' = [job EXCEPT ![r] = call]
      /\ UNCHANGED <<log, orders>>
  BY DEF PassGate
<1>3. call \in Job /\ call.origin = origin
  BY CallIsJob
<1> HIDE DEF call
<1>4. job' \in [Request -> Job] /\ job'[r].origin = origin
  BY <1>1, <1>2, <1>3 DEF CallsTyped
<1>5. CallsTyped'
  BY <1>1, <1>2, <1>4, MoveKeepsCalls DEF OrderInv
<1>6. Books' /\ Kept
  BY <1>2 DEF OrderInv, Books, LogTyped, LogMatchesOrders, WaitingRowsReachable, Kept
<1> QED BY <1>1, <1>2, <1>4, <1>5, <1>6 DEF CallsTyped

\* execute_order, approve_order and cancel_pending are called.
LEMMA SubmitKeepsInv ==
  ASSUME OrderInv, NEW r \in Request, NEW tk \in Ticket, Submit(r, tk)
  PROVE  OrderInv'
<1>1. /\ pc[r] \notin InFlight
      /\ UNCHANGED <<logLoaded, mode, lock, kill, exchange, past, foreign, crashes>>
  BY DEF Submit, history
<1>2. CASE EndAtOnce(r, tk, mode)
  BY <1>1, <1>2, EndAtOnceKeepsInv
<1>3. CASE PassGate(r, tk, mode, 0)
  <2>1. mode \in Mode /\ 0 \in Nat
    BY DEF OrderInv, CallsTyped
  <2>2. /\ Books' /\ Kept /\ CallsTyped'
        /\ \A q \in Request : q # r => pc'[q] = pc[q] /\ job'[q] = job[q]
    BY <1>1, <1>3, <2>1, PassGateKeepsCalls
  <2>3. \A q \in Request : lock' = q => lock = q /\ q # r
    BY <1>1 DEF OrderInv, LockHeld
  <2>4. LockHeld'
    BY <2>2, <2>3 DEF OrderInv, LockHeld
  <2>5. ApprovalExcludesCancel'
    BY <2>2, <2>3, ApprovalStays DEF OrderInv
  <2> QED BY <2>2, <2>4, <2>5 DEF OrderInv
<1> QED BY <1>2, <1>3 DEF Submit

LEMMA AskKeepsInv ==
  ASSUME OrderInv, NEW r \in Request, NEW tk \in Ticket,
         AskApprove(r, tk) \/ AskCancel(r, tk)
  PROVE  OrderInv'
<1> DEFINE call == Call(tk, "auto", 0)
<1>1. PICK what \in {"to_approve", "to_cancel"} :
        /\ pc[r] = "idle" /\ Reload
        /\ pc' = [pc EXCEPT ![r] = what] /\ job' = [job EXCEPT ![r] = call]
        /\ UNCHANGED <<orders, exchange, mode, lock, kill, past, foreign, crashes>>
  BY DEF AskApprove, AskCancel, Ask, durable, history
<1>2. CallsTyped /\ LogTyped
  BY DEF OrderInv, Books
<1>3. Books' /\ Kept
  BY <1>1, ReloadKeepsBooks DEF OrderInv
<1>4. call \in Job
  BY CallIsJob DEF Mode
<1> HIDE DEF call
<1>5. CallsTyped'
  <2>1. job' \in [Request -> Job]
    BY <1>1, <1>2, <1>4 DEF CallsTyped
  <2> QED BY <1>1, <1>2, <2>1, MoveKeepsCalls DEF OrderInv
<1>6. \A q \in Request : lock' = q =>
        lock = q /\ q # r /\ pc'[q] = pc[q] /\ job'[q] = job[q]
  BY <1>1, <1>2 DEF CallsTyped, OrderInv, LockHeld
<1>7. LockHeld'
  BY <1>6 DEF LockHeld, OrderInv
<1>8. ApprovalExcludesCancel'
  BY <1>3, <1>6, ApprovalStays DEF OrderInv
<1> QED BY <1>3, <1>5, <1>7, <1>8 DEF OrderInv

\* A set of natural numbers that is not empty has a least one.
LEMMA LeastNatural ==
  ASSUME NEW S \in SUBSET Nat, S # {}
  PROVE  \E i \in S : \A k \in S : i <= k
<1>1. PICK i \in S : \A k \in S : ~ (<<k, i>> \in OpToRel(<, Nat))
  BY NatLessThanWellFounded, WFMin, Zenon
<1>2. \A k \in S : ~ (k < i)
  <2> SUFFICES ASSUME NEW k \in S, k < i PROVE <<k, i>> \in OpToRel(<, Nat)
    BY <1>1
  <2>1. <<k, i>> \in Nat \X Nat
    OBVIOUS
  <2> QED BY <2>1, Zenon DEF OpToRel
<1> QED BY <1>2

\* The record that is found is there when there is one at all: the newest ...
LEMMA NewestFound ==
  ASSUME NEW n \in Nat, NEW S \in SUBSET (1 .. n), S # {}
  PROVE  Newest(S) \in S
<1> DEFINE T == {n - i : i \in S}
<1>1. ASSUME NEW k \in T PROVE k \in Nat
  <2> PICK i \in S : k = n - i
    OBVIOUS
  <2>1. i \in 1 .. n
    OBVIOUS
  <2> QED BY <2>1
<1>2. PICK k \in T : \A l \in T : k <= l
  <2>1. T \in SUBSET Nat /\ T # {}
    BY <1>1
  <2> HIDE DEF T
  <2> QED BY <2>1, LeastNatural
<1>3. PICK i \in S : k = n - i
  BY <1>2
<1>4. ASSUME NEW j \in S PROVE j <= i
  <2>1. n - j \in T /\ i \in 1 .. n /\ j \in 1 .. n
    OBVIOUS
  <2>2. n - i <= n - j
    BY <1>2, <1>3, <2>1
  <2> QED BY <2>1, <2>2
<1> QED BY <1>4 DEF Newest

\* ... and the oldest.
LEMMA OldestFound ==
  ASSUME NEW n \in Nat, NEW S \in SUBSET (1 .. n), S # {}
  PROVE  Oldest(S) \in S
<1>1. S \in SUBSET Nat
  OBVIOUS
<1> QED BY <1>1, LeastNatural DEF Oldest

\* What approve_order and cancel_pending find is a record that waits.
LEMMA MatchIsWaiting ==
  ASSUME LogTyped, NEW tk, NEW i \in Matches(tk) \cup OfTicker(tk)
  PROVE  /\ i \in DOMAIN log /\ log[i] \in Record /\ log[i].status = "pending_approval"
         /\ Len(log) \in Nat
         /\ Matches(tk) \in SUBSET (1 .. Len(log))
         /\ OfTicker(tk) \in SUBSET (1 .. Len(log))
BY DEF LogTyped, Matches, OfTicker, Pending

\* approve_order takes the lock only together with a record that waits.
LEMMA ApproveKeepsInv ==
  ASSUME OrderInv, NEW r \in Request, Approve(r)
  PROVE  OrderInv'
<1> DEFINE found == Matches(job[r].ticket)
           i == Newest(found)
<1>1. LogTyped /\ found # {} /\ pc[r] \notin InFlight /\ lock = Nobody
  BY DEF Approve, OrderInv, Books
<1>2. i \in found
  <2>1. found \in SUBSET (1 .. Len(log)) /\ Len(log) \in Nat
    BY <1>1, MatchIsWaiting
  <2> HIDE DEF found
  <2> QED BY <1>1, <2>1, NewestFound
<1>3. i \in DOMAIN log /\ log[i] \in Record /\ log[i].status = "pending_approval"
  BY <1>1, <1>2, MatchIsWaiting
<1>4. /\ \/ PassGate(r, log[i].ticket, "auto", log[i].row) /\ lock' = r
         \/ EndAtOnce(r, log[i].ticket, "auto") /\ UNCHANGED lock
      /\ UNCHANGED <<logLoaded, mode, kill, exchange, past, foreign, crashes>>
  BY DEF Approve, history
<1> HIDE DEF i
<1>5. log[i].ticket \in Ticket /\ log[i].row \in Nat
  BY <1>3 DEF Record
<1>6. CASE EndAtOnce(r, log[i].ticket, "auto") /\ UNCHANGED lock
  BY <1>1, <1>4, <1>5, <1>6, EndAtOnceKeepsInv
<1>7. CASE PassGate(r, log[i].ticket, "auto", log[i].row) /\ lock' = r
  <2>1. /\ Books' /\ Kept /\ CallsTyped'
        /\ pc'[r] = "gate" /\ job'[r].origin = log[i].row
    BY <1>1, <1>4, <1>5, <1>7, PassGateKeepsCalls DEF Mode
  <2>2. LockHeld'
    BY <1>7, <2>1 DEF LockHeld
  <2>3. ApprovalExcludesCancel'
    BY <1>3, <1>7, <2>1 DEF ApprovalExcludesCancel, Kept, PassGate
  <2> QED BY <2>1, <2>2, <2>3 DEF OrderInv
<1> QED BY <1>4, <1>6, <1>7

\* cancel_pending runs while nobody holds the lock.
LEMMA CancelKeepsInv ==
  ASSUME OrderInv, NEW r \in Request, Cancel(r)
  PROVE  OrderInv'
<1> DEFINE found == OfTicker(job[r].ticket)
           i == Oldest(found)
<1>1. CallsTyped /\ LogTyped /\ found # {} /\ lock = Nobody
  BY DEF Cancel, CancelUnlocked, OrderInv, Books
<1>2. i \in found
  <2>1. found \in SUBSET (1 .. Len(log)) /\ Len(log) \in Nat
    BY <1>1, MatchIsWaiting
  <2> HIDE DEF found
  <2> QED BY <1>1, <2>1, OldestFound
<1>3. i \in DOMAIN log /\ log[i].status = "pending_approval"
  BY <1>1, <1>2, MatchIsWaiting
<1>4. /\ log' = [log EXCEPT ![i].status = "cancelled"] /\ Leave(r)
      /\ UNCHANGED <<orders, exchange, logLoaded, mode, lock, kill, past, foreign, crashes>>
  BY DEF Cancel, CancelUnlocked, durable, history
<1> HIDE DEF i
<1>5. Books'
  BY <1>3, <1>4, CancelKeepsBooks DEF OrderInv
<1>6. CallsTyped'
  BY <1>1, <1>4, LeaveKeepsCalls DEF OrderInv, CallsTyped
<1>7. \A q \in Request : lock' # q
  BY <1>1, <1>4, ExecutionAssumption
<1>8. LockHeld' /\ ApprovalExcludesCancel'
  BY <1>7 DEF LockHeld, ApprovalExcludesCancel
<1> QED BY <1>5, <1>6, <1>8 DEF OrderInv

LEMMA NothingFoundKeepsInv ==
  ASSUME OrderInv, NEW r \in Request, NothingFound(r)
  PROVE  OrderInv'
<1>1. /\ Leave(r) /\ lock = Nobody
      /\ UNCHANGED <<log, logLoaded, orders, exchange, mode, lock, kill, past, foreign, crashes>>
  BY DEF NothingFound, durable, history
<1>2. CallsTyped /\ LogTyped
  BY DEF OrderInv, Books
<1>3. CallsTyped'
  BY <1>1, <1>2, LeaveKeepsCalls DEF OrderInv, CallsTyped
<1>4. Books'
  BY <1>1 DEF OrderInv, Books, LogTyped, LogMatchesOrders, WaitingRowsReachable
<1>5. \A q \in Request : lock' # q
  BY <1>1, ExecutionAssumption
<1>6. LockHeld' /\ ApprovalExcludesCancel'
  BY <1>5 DEF LockHeld, ApprovalExcludesCancel
<1> QED BY <1>3, <1>4, <1>6 DEF OrderInv

LEMMA GateRaisesKeepsInv ==
  ASSUME OrderInv, NEW r \in Request, GateRaises(r)
  PROVE  OrderInv'
<1>1. /\ Leave(r) /\ Release(r) /\ past' = past \ {r}
      /\ UNCHANGED <<log, logLoaded, orders, mode, kill, exchange, foreign, crashes>>
  BY DEF GateRaises
<1>2. CallsTyped /\ LogTyped
  BY DEF OrderInv, Books
<1>3. lock' \in {lock, Nobody} /\ lock' # r
  BY <1>1, ExecutionAssumption DEF Release
<1>4. CallsTyped'
  BY <1>1, <1>2, <1>3, LeaveKeepsCalls DEF OrderInv, CallsTyped
<1>5. Books' /\ Kept
  BY <1>1 DEF OrderInv, Books, LogTyped, LogMatchesOrders, WaitingRowsReachable, Kept
<1>6. \A q \in Request : lock' = q =>
        lock = q /\ q # r /\ pc'[q] = pc[q] /\ job'[q] = job[q]
  BY <1>1, <1>2, <1>3, ExecutionAssumption DEF Leave, CallsTyped
<1>7. LockHeld'
  BY <1>6 DEF LockHeld, OrderInv
<1>8. ApprovalExcludesCancel'
  BY <1>5, <1>6, ApprovalStays DEF OrderInv
<1> QED BY <1>4, <1>5, <1>7, <1>8 DEF OrderInv

LEMMA GateKeepsInv ==
  ASSUME OrderInv, NEW r \in Request, Gate(r)
  PROVE  OrderInv'
<1>1. exchange \in Seq(Nat)
  BY DEF OrderInv, CallsTyped
<1>2. CASE GateRejects(r)
  BY <1>1, <1>2, FinishKeepsInv DEF GateRejects, Status
<1>3. CASE GateRaises(r)
  BY <1>3, GateRaisesKeepsInv
<1>4. CASE AwaitApproval(r)
  BY <1>1, <1>4, FinishKeepsInv DEF AwaitApproval, Status
<1>5. CASE Delay(r)
  BY <1>5, ContinueKeepsInv DEF Delay
<1> QED BY <1>2, <1>3, <1>4, <1>5 DEF Gate

LEMMA DeliverTyped ==
  ASSUME CallsTyped, NEW r \in Request, Deliver(r)
  PROVE  exchange' \in Seq(Nat)
BY DEF CallsTyped, Job, Deliver

LEMMA AcceptedKeepsInv ==
  ASSUME OrderInv, NEW r \in Request, NEW status \in Status, Accepted(r, status)
  PROVE  OrderInv'
<1>1. exchange' \in Seq(Nat)
  BY DeliverTyped DEF Accepted, OrderInv
<1> QED BY <1>1, FinishKeepsInv DEF Accepted

\* The order is sent again: only the counts of the request change.
LEMMA RetryKeepsInv ==
  ASSUME OrderInv, NEW r \in Request, LoseReply(r) \/ AttemptFails(r)
  PROVE  OrderInv'
<1>1. /\ LoseReply(r) \/ AttemptFails(r)
      /\ CallsTyped /\ job[r] \in Job
      /\ UNCHANGED <<log, logLoaded, orders, mode, lock, pc, kill, past, foreign, crashes>>
  BY DEF LoseReply, AttemptFails, durable, history, OrderInv, CallsTyped
<1>2. exchange' \in Seq(Nat)
  BY <1>1, DeliverTyped DEF LoseReply, AttemptFails, durable, CallsTyped
<1>3. PICK tries \in Nat, sent \in Nat :
        job' = [job EXCEPT ![r] = [job[r] EXCEPT !.tries = tries, !.sent = sent]]
  <2>1. job[r].tries + 1 \in Nat /\ job[r].sent \in Nat /\ job[r].sent + 1 \in Nat
    BY <1>1 DEF Job
  <2>2. CASE LoseReply(r)
    <3>1. job' = [job EXCEPT ![r].tries = @ + 1,
                             ![r].sent = IF Known(r) THEN @ ELSE @ + 1]
      BY <2>2 DEF LoseReply
    <3> DEFINE n == IF Known(r) THEN job[r].sent ELSE job[r].sent + 1
    <3>2. job' = [job EXCEPT ![r] = [job[r] EXCEPT !.tries = job[r].tries + 1, !.sent = n]]
      BY <1>1, <3>1 DEF CallsTyped, Job
    <3>3. n \in Nat
      BY <2>1
    <3> HIDE DEF n
    <3> QED BY <2>1, <3>2, <3>3
  <2>3. CASE AttemptFails(r)
    <3>1. job' = [job EXCEPT ![r].tries = @ + 1]
      BY <2>3 DEF AttemptFails
    <3>2. [job[r] EXCEPT !.tries = job[r].tries + 1] =
            [job[r] EXCEPT !.tries = job[r].tries + 1, !.sent = job[r].sent]
      BY <1>1 DEF Job
    <3>3. job' = [job EXCEPT ![r] = [job[r] EXCEPT !.tries = job[r].tries + 1,
                                                   !.sent = job[r].sent]]
      BY <1>1, <3>1, <3>2 DEF CallsTyped
    <3> QED BY <2>1, <3>3
  <2> QED BY <1>1, <2>2, <2>3
<1>4. [job[r] EXCEPT !.tries = tries, !.sent = sent] \in Job
      /\ [job[r] EXCEPT !.tries = tries, !.sent = sent].origin = job[r].origin
  BY <1>1 DEF Job
<1>5. job' \in [Request -> Job] /\ \A q \in Request : job'[q].origin = job[q].origin
  BY <1>1, <1>3, <1>4 DEF CallsTyped
<1>6. CallsTyped'
  BY <1>1, <1>2, <1>5 DEF CallsTyped
<1>7. Books' /\ Kept
  BY <1>1 DEF OrderInv, Books, LogTyped, LogMatchesOrders, WaitingRowsReachable, Kept
<1>8. LockHeld' /\ ApprovalExcludesCancel'
  BY <1>1, <1>5, <1>7, ApprovalStays DEF LockHeld, OrderInv
<1> QED BY <1>6, <1>7, <1>8 DEF OrderInv

LEMMA BrokerKeepsInv ==
  ASSUME OrderInv, NEW r \in Request, Broker(r)
  PROVE  OrderInv'
<1>1. exchange \in Seq(Nat)
  BY DEF OrderInv, CallsTyped
<1>2. CASE Connect(r) \/ ReadyToPlace(r)
  BY <1>2, ContinueKeepsInv DEF Connect, ReadyToPlace
<1>3. CASE FailEarly(r) \/ BreakerFallback(r) \/ PlaceFails(r)
  <2>1. PICK status \in Status :
          pc[r] \in InFlight /\ Finish(r, status) /\ UNCHANGED exchange
    BY <1>3 DEF FailEarly, BreakerFallback, PlaceFails, Status
  <2> QED BY <1>1, <2>1, FinishKeepsInv
<1>4. CASE AcceptedExecuted(r) \/ AcceptedAsFailed(r)
  BY <1>4, AcceptedKeepsInv DEF AcceptedExecuted, AcceptedAsFailed, Status
<1>5. CASE LoseReply(r) \/ AttemptFails(r)
  BY <1>5, RetryKeepsInv
<1> QED BY <1>2, <1>3, <1>4, <1>5 DEF Broker

\* The steps of nobody's request.
LEMMA OthersKeepInv ==
  ASSUME OrderInv,
         \/ GetLog \/ SetMode \/ KillSwitchOn \/ KillSwitchOff \/ Crash
         \/ TableWriter \/ UNCHANGED vars
  PROVE  OrderInv'
<1>1. Books /\ CallsTyped
  BY DEF OrderInv
<1>2. UNCHANGED <<log, logLoaded, orders, foreign>> => Books' /\ Kept
  BY <1>1 DEF Books, LogTyped, LogMatchesOrders, WaitingRowsReachable, Kept
<1>3. UNCHANGED <<lock, pc, job>> /\ Kept => LockHeld' /\ ApprovalExcludesCancel'
  BY ApprovalStays DEF LockHeld, OrderInv
<1>4. CASE GetLog
  <2>1. /\ Reload
        /\ UNCHANGED <<orders, exchange, mode, lock, pc, job, kill, past, foreign, crashes>>
    BY <1>4 DEF GetLog, durable, history
  <2>2. Books' /\ Kept
    BY <1>1, <2>1, ReloadKeepsBooks
  <2>3. CallsTyped'
    BY <1>1, <2>1 DEF CallsTyped
  <2> QED BY <1>3, <2>1, <2>2, <2>3 DEF OrderInv
<1>5. CASE SetMode \/ KillSwitchOn \/ KillSwitchOff \/ UNCHANGED vars
  <2>1. UNCHANGED <<log, logLoaded, orders, lock, pc, job, foreign>>
    BY <1>5 DEF SetMode, KillSwitchOn, KillSwitchOff, vars, memory, durable, history
  <2>2. CallsTyped'
    BY <1>1, <1>5 DEF SetMode, KillSwitchOn, KillSwitchOff, vars, memory, durable,
                      history, CallsTyped
  <2> QED BY <1>2, <1>3, <2>1, <2>2 DEF OrderInv
<1>6. CASE Crash
  <2>1. /\ log' = <<>> /\ logLoaded' = FALSE /\ UNCHANGED <<orders, exchange>>
        /\ lock' = Nobody /\ pc' = [r \in Request |-> "idle"]
    BY <1>6 DEF Crash, durable
  <2>2. Books'
    BY <1>1, <2>1, EmptyLogKeepsBooks
  <2>3. CallsTyped'
    <3>1. crashes' \in 0 .. MaxCrashes
      BY <1>1, <1>6, ExecutionAssumption DEF Crash, CallsTyped
    <3> QED BY <1>1, <1>6, <3>1, NoJobIsJob DEF Crash, durable, CallsTyped, Mode
  <2>4. LockHeld' /\ ApprovalExcludesCancel'
    BY <2>1, ExecutionAssumption DEF LockHeld, ApprovalExcludesCancel
  <2> QED BY <2>2, <2>3, <2>4 DEF OrderInv
<1>7. CASE \E n \in DOMAIN orders : ApiCancel(n)
  <2>1. PICK n \in DOMAIN orders : ApiCancel(n)
    BY <1>7
  <2>2. Books' /\ Kept
    BY <1>1, <2>1, ApiCancelKeepsBooks
  <2>3. UNCHANGED <<exchange, mode, lock, pc, job, kill, past, foreign, crashes>>
    BY <2>1 DEF ApiCancel, memory, history
  <2>4. CallsTyped'
    BY <1>1, <2>3 DEF CallsTyped
  <2> QED BY <1>3, <2>2, <2>3, <2>4 DEF OrderInv
<1>8. CASE \E tk \in Ticket, status \in Reloaded \cap Status : OtherProcessSaves(tk, status)
  <2>1. PICK tk \in Ticket, status \in Status : OtherProcessSaves(tk, status)
    BY <1>8
  <2>2. Books' /\ Kept
    BY <1>1, <2>1, OtherProcessKeepsBooks
  <2>3. /\ UNCHANGED <<exchange, mode, lock, pc, job, kill, past, crashes>>
        /\ foreign' \in {foreign, foreign \cup {Len(orders) + 1}}
    BY <2>1 DEF OtherProcessSaves, memory
  <2>4. foreign' \subseteq Nat
    BY <1>1, <2>3 DEF CallsTyped, Books, LogTyped
  <2>5. CallsTyped'
    BY <1>1, <2>3, <2>4 DEF CallsTyped
  <2> QED BY <1>3, <2>2, <2>3, <2>5 DEF OrderInv
<1> QED BY <1>4, <1>5, <1>6, <1>7, <1>8 DEF TableWriter

LEMMA OrderInvInit == Init => OrderInv
<1> SUFFICES ASSUME Init PROVE OrderInv
  OBVIOUS
<1>1. log = <<>> /\ orders = <<>> /\ Len(log) = 0 /\ Len(orders) = 0 /\ DOMAIN log = {}
  BY DEF Init
<1>2. 0 <= LogMax
  BY ExecutionAssumption
<1>3. LogTyped
  <2>1. log \in Seq(Record) /\ orders \in Seq(Row)
    BY <1>1
  <2> QED BY <1>1, <1>2, <2>1 DEF Init, LogTyped
<1>4. Books
  BY <1>1, <1>3 DEF Init, Books, LogMatchesOrders, WaitingRowsReachable
<1>5. CallsTyped
  <2>1. 0 \in 0 .. MaxCrashes
    BY ExecutionAssumption
  <2>2. lock \in Request \cup {Nobody} /\ exchange \in Seq(Nat)
    BY DEF Init
  <2>3. pc \in [Request -> Where] /\ job \in [Request -> Job]
    BY NoJobIsJob DEF Init
  <2> QED BY <2>1, <2>2, <2>3 DEF Init, CallsTyped, Mode
<1>6. LockHeld /\ ApprovalExcludesCancel
  BY ExecutionAssumption DEF Init, LockHeld, ApprovalExcludesCancel
<1> QED BY <1>4, <1>5, <1>6 DEF OrderInv

\* Log, table, requests and lock in one inductive invariant: none of its parts
\* is preserved without the others.
THEOREM OrderInvariant == Spec => []OrderInv
<1>1. OrderInv /\ [Next]_vars => OrderInv'
  <2> SUFFICES ASSUME OrderInv, [Next]_vars PROVE OrderInv'
    OBVIOUS
  <2>1. ASSUME NEW r \in Request, NEW tk \in Ticket,
               Submit(r, tk) \/ AskApprove(r, tk) \/ AskCancel(r, tk)
        PROVE  OrderInv'
    BY <2>1, SubmitKeepsInv, AskKeepsInv
  <2>2. ASSUME NEW r \in Request, Gate(r) \/ Broker(r) \/ Operator(r)
        PROVE  OrderInv'
    BY <2>2, GateKeepsInv, BrokerKeepsInv, ApproveKeepsInv, NothingFoundKeepsInv,
       CancelKeepsInv DEF Operator
  <2> QED BY <2>1, <2>2, OthersKeepInv DEF Next, TableWriter
<1> QED BY <1>1, OrderInvInit, PTL DEF Spec

\* Type correctness of order execution: log, lock and table have their shape, and
\* the log never outgrows the deque.
THEOREM ExecutionTypeOK == Spec => []TypeOK
<1>1. OrderInv => TypeOK
  BY DEF OrderInv, Books, LogTyped, CallsTyped, TypeOK
<1> QED BY <1>1, OrderInvariant, PTL

\* The execution log and the orders table agree up to the two cancellations, for
\* every number of requests and every capacity of the log, and through every
\* failed save, reload, restart, cancelled row and row of another process.
THEOREM LogAndOrdersAgree == Spec => []LogMatchesOrders
<1>1. OrderInv => LogMatchesOrders
  BY DEF OrderInv, Books
<1> QED BY <1>1, OrderInvariant, PTL

\* Once the log is loaded every order that waits can be approved or cancelled,
\* unless another process saved it after the load or the log is full.
THEOREM WaitingOrdersReachable == Spec => []WaitingRowsReachable
<1>1. OrderInv => WaitingRowsReachable
  BY DEF OrderInv, Books
<1> QED BY <1>1, OrderInvariant, PTL

\* No cancellation takes away the record of an approval that is being executed.
THEOREM NoCancelUnderApproval == Spec => []ApprovalExcludesCancel
<1>1. OrderInv => ApprovalExcludesCancel
  BY DEF OrderInv
<1> QED BY <1>1, OrderInvariant, PTL
-----------------------------------------------------------------------------
(* Order execution implements TradingGate.                                 *)

\* The gate's two views of the requests.
Cleared == {r \in Request : pc[r] \in InFlight}
Sent == [r \in Request |-> job[r].sent]

\* Attempts are counted from 0 for each order, and only while it is placed.
AttemptsCounted ==
  \A r \in Request :
    /\ job[r].sent <= job[r].tries
    /\ job[r].tries < MaxAttempts
    /\ pc[r] # "place" => job[r].tries = 0

GateInv == CallsTyped /\ AttemptsCounted

USE DEF Gatekeeper!gateVars

LEMMA NothingSentYet ==
  ASSUME GateInv, NEW r \in Request, pc[r] # "place"
  PROVE  job[r].sent = 0
<1>1. job[r].sent \in Nat /\ job[r].sent <= job[r].tries /\ job[r].tries = 0
  BY DEF GateInv, CallsTyped, Job, AttemptsCounted
<1> QED BY <1>1

LEMMA NoJobSentNothing == NoJob.sent = 0 /\ NoJob.tries = 0
BY DEF NoJob, Call

\* A request that returns ends its clearance, if it had one.
LEMMA LeaveEnds ==
  ASSUME GateInv, CallsTyped', NEW r \in Request, Leave(r)
  PROVE  /\ GateInv'
         /\ Cleared' = Cleared \ {r}
         /\ Sent' = [Sent EXCEPT ![r] = 0]
<1>1. /\ pc' = [pc EXCEPT ![r] = "idle"] /\ job' = [job EXCEPT ![r] = NoJob]
      /\ pc \in [Request -> Where] /\ job \in [Request -> Job]
  BY DEF Leave, GateInv, CallsTyped
<1>2. Cleared' = Cleared \ {r}
  BY <1>1 DEF Cleared
<1>3. Sent' = [Sent EXCEPT ![r] = 0]
  BY <1>1, NoJobSentNothing DEF Sent
<1>4. AttemptsCounted'
  BY <1>1, NoJobSentNothing, ExecutionAssumption DEF GateInv, AttemptsCounted
<1> QED BY <1>2, <1>3, <1>4 DEF GateInv

\* A request that returns without an order: dropped, or it was never cleared.
LEMMA LeaveDrops ==
  ASSUME GateInv, CallsTyped', NEW r \in Request, Leave(r),
         UNCHANGED <<kill, exchange>>
  PROVE  GateInv' /\ [Gatekeeper!GateNext]_Gatekeeper!gateVars
<1>1. /\ GateInv' /\ Cleared' = Cleared \ {r}
      /\ Sent' = [Sent EXCEPT ![r] = 0]
  BY LeaveEnds
<1>2. CASE r \in Cleared
  BY <1>1, <1>2 DEF Gatekeeper!Drop, Gatekeeper!End, Gatekeeper!GateNext, Cleared, Sent
<1>3. CASE r \notin Cleared
  <2>1. Sent[r] = 0
    BY <1>3, NothingSentYet DEF Cleared, Sent
  <2>2. Cleared' = Cleared /\ Sent' = Sent
    BY <1>1, <1>3, <2>1 DEF Sent
  <2> QED BY <1>1, <2>2 DEF Cleared, Sent
<1> QED BY <1>2, <1>3

LEMMA FinishDrops ==
  ASSUME GateInv, CallsTyped', NEW r \in Request, NEW status, Finish(r, status),
         UNCHANGED exchange
  PROVE  GateInv' /\ [Gatekeeper!GateNext]_Gatekeeper!gateVars
BY LeaveDrops DEF Finish

\* Moving on inside execute_order is a stutter of the gate.
LEMMA ContinueStutters ==
  ASSUME GateInv, CallsTyped', NEW r \in Request, pc[r] \in InFlight, pc[r] # "place",
         NEW where \in InFlight, Continue(r, where)
  PROVE  GateInv' /\ UNCHANGED Gatekeeper!gateVars
<1>1. pc' = [pc EXCEPT ![r] = where] /\ UNCHANGED <<job, kill, exchange>>
  BY DEF Continue
<1>2. AttemptsCounted'
  BY <1>1 DEF GateInv, CallsTyped, AttemptsCounted
<1>3. Cleared' = Cleared /\ Sent' = Sent
  BY <1>1 DEF GateInv, CallsTyped, Cleared, Sent
<1> QED BY <1>1, <1>2, <1>3 DEF GateInv, Cleared, Sent

LEMMA PassGateClears ==
  ASSUME GateInv, CallsTyped', NEW r \in Request, pc[r] \notin InFlight,
         NEW tk, NEW m, NEW origin, PassGate(r, tk, m, origin),
         UNCHANGED <<kill, exchange>>
  PROVE  GateInv' /\ Gatekeeper!GateNext
<1>1. /\ pc' = [pc EXCEPT ![r] = "gate"]
      /\ job' = [job EXCEPT ![r] = Call(tk, m, origin)] /\ ~ kill
      /\ pc \in [Request -> Where] /\ job \in [Request -> Job]
  BY DEF PassGate, GateInv, CallsTyped
<1>2. Call(tk, m, origin).sent = 0 /\ Call(tk, m, origin).tries = 0
  BY DEF Call
<1>3. AttemptsCounted'
  BY <1>1, <1>2, ExecutionAssumption DEF GateInv, AttemptsCounted
<1>4. Cleared' = Cleared \cup {r} /\ r \notin Cleared
  BY <1>1 DEF Cleared
<1>5. Sent' = Sent
  BY <1>1, <1>2, NothingSentYet DEF Sent
<1>6. Gatekeeper!Clear(r)
  BY <1>1, <1>4, <1>5 DEF Cleared, Sent, Gatekeeper!Clear
<1> QED BY <1>3, <1>6 DEF GateInv, Gatekeeper!GateNext

\* A request that has brought fewer orders than it may.
LEMMA AllowanceLeft ==
  ASSUME GateInv, NEW r \in Request, ~ Known(r)
  PROVE  job[r].sent < IF Deduplicates THEN 1 ELSE MaxAttempts
<1>1. /\ job[r].sent \in Nat /\ job[r].tries \in Nat
      /\ job[r].sent <= job[r].tries /\ job[r].tries < MaxAttempts
  BY DEF GateInv, CallsTyped, Job, AttemptsCounted
<1> QED BY <1>1, ExecutionAssumption DEF Known

\* The order of an attempt, unless the broker knows its key.
LEMMA DeliveredOnce ==
  ASSUME GateInv, NEW r \in Request, Deliver(r)
  PROVE  IF Known(r) THEN exchange' = exchange ELSE Len(exchange') = Len(exchange) + 1
BY DEF Deliver, GateInv, CallsTyped, Job

\* The last attempt: the request ends with an order more, or with none.
LEMMA AcceptedPlaces ==
  ASSUME GateInv, CallsTyped', NEW r \in Request, NEW status, Accepted(r, status)
  PROVE  GateInv' /\ [Gatekeeper!GateNext]_Gatekeeper!gateVars
<1>1. Leave(r) /\ UNCHANGED kill /\ Deliver(r) /\ r \in Cleared
  BY DEF Accepted, Finish, Cleared
<1>2. CASE Known(r)
  BY <1>1, <1>2, DeliveredOnce, LeaveDrops
<1>3. CASE ~ Known(r)
  <2>1. /\ GateInv' /\ Cleared' = Cleared \ {r}
        /\ Sent' = [Sent EXCEPT ![r] = 0]
    BY <1>1, LeaveEnds
  <2>2. Len(exchange') = Len(exchange) + 1
    BY <1>1, <1>3, DeliveredOnce
  <2>3. Gatekeeper!Place(r)
    BY <1>1, <1>3, <2>1, <2>2, AllowanceLeft
       DEF Cleared, Sent, Gatekeeper!Place, Gatekeeper!End
  <2> QED BY <2>1, <2>3 DEF Gatekeeper!GateNext
<1> QED BY <1>2, <1>3

\* An attempt whose reply is lost: an order more, and the request goes on.
LEMMA LostReplyPlaces ==
  ASSUME GateInv, CallsTyped', NEW r \in Request, LoseReply(r)
  PROVE  GateInv' /\ [Gatekeeper!GateNext]_Gatekeeper!gateVars
<1>1. /\ pc[r] = "place" /\ Deliver(r) /\ UNCHANGED <<pc, kill>>
      /\ job[r].tries + 1 < MaxAttempts
      /\ job' = [job EXCEPT ![r].tries = @ + 1,
                           ![r].sent = IF Known(r) THEN @ ELSE @ + 1]
  BY DEF LoseReply, AnotherAttempt
<1>2. /\ job \in [Request -> Job] /\ job[r].tries \in Nat /\ job[r].sent \in Nat
      /\ job[r].sent <= job[r].tries
  BY DEF GateInv, CallsTyped, Job, AttemptsCounted
<1>3. /\ job'[r].tries = job[r].tries + 1
      /\ job'[r].sent = IF Known(r) THEN job[r].sent ELSE job[r].sent + 1
      /\ \A q \in Request : q # r => job'[q] = job[q]
  BY <1>1, <1>2 DEF Job
<1>4. GateInv'
  BY <1>1, <1>2, <1>3 DEF GateInv, AttemptsCounted
<1>5. Cleared' = Cleared /\ r \in Cleared
  BY <1>1 DEF Cleared
<1>6. CASE Known(r)
  <2>1. \A q \in Request : job'[q].sent = job[q].sent
    BY <1>3, <1>6
  <2>2. Sent' = Sent
    BY <2>1 DEF Sent
  <2>3. exchange' = exchange
    BY <1>1, <1>6, DeliveredOnce
  <2> QED BY <1>1, <1>4, <1>5, <2>2, <2>3 DEF Cleared, Sent
<1>7. CASE ~ Known(r)
  <2>1. Sent' = [Sent EXCEPT ![r] = @ + 1]
    BY <1>3, <1>7 DEF Sent
  <2>2. Len(exchange') = Len(exchange) + 1
    BY <1>1, <1>7, DeliveredOnce
  <2>3. Gatekeeper!Place(r)
    BY <1>1, <1>5, <1>7, <2>1, <2>2, AllowanceLeft
       DEF Cleared, Sent, Gatekeeper!Place, Gatekeeper!Stay
  <2> QED BY <1>4, <2>3 DEF Gatekeeper!GateNext
<1> QED BY <1>6, <1>7

\* An attempt that did not reach the broker is none of the gate's business.
LEMMA FailedAttemptStutters ==
  ASSUME GateInv, CallsTyped', NEW r \in Request, AttemptFails(r)
  PROVE  GateInv' /\ UNCHANGED Gatekeeper!gateVars
<1>1. /\ pc[r] = "place" /\ UNCHANGED <<pc, kill, exchange>>
      /\ job[r].tries + 1 < MaxAttempts
      /\ job' = [job EXCEPT ![r].tries = @ + 1]
  BY DEF AttemptFails, AnotherAttempt, durable
<1>2. /\ job \in [Request -> Job] /\ job[r].tries \in Nat /\ job[r].sent \in Nat
      /\ job[r].sent <= job[r].tries
  BY DEF GateInv, CallsTyped, Job, AttemptsCounted
<1>3. /\ job'[r].tries = job[r].tries + 1 /\ job'[r].sent = job[r].sent
      /\ \A q \in Request : q # r => job'[q] = job[q]
  BY <1>1, <1>2 DEF Job
<1>4. GateInv'
  BY <1>1, <1>2, <1>3 DEF GateInv, AttemptsCounted
<1>5. Cleared' = Cleared /\ Sent' = Sent
  BY <1>1, <1>3 DEF Cleared, Sent
<1> QED BY <1>1, <1>4, <1>5 DEF Cleared, Sent

LEMMA CallIsGateStep ==
  ASSUME GateInv, CallsTyped', NEW r \in Request, NEW tk \in Ticket,
         Submit(r, tk) \/ AskApprove(r, tk) \/ AskCancel(r, tk)
  PROVE  GateInv' /\ [Gatekeeper!GateNext]_Gatekeeper!gateVars
<1>1. CASE Submit(r, tk)
  <2>1. pc[r] \notin InFlight /\ UNCHANGED <<kill, exchange>>
    BY <1>1 DEF Submit
  <2>2. CASE EndAtOnce(r, tk, mode)
    <3>1. Leave(r)
      BY <2>2 DEF EndAtOnce
    <3> QED BY <2>1, <3>1, LeaveDrops
  <2>3. CASE PassGate(r, tk, mode, 0)
    BY <2>1, <2>3, PassGateClears
  <2> QED BY <1>1, <2>2, <2>3 DEF Submit
<1>2. CASE AskApprove(r, tk) \/ AskCancel(r, tk)
  <2>1. PICK what \in {"to_approve", "to_cancel"} :
          /\ pc[r] = "idle" /\ pc' = [pc EXCEPT ![r] = what]
          /\ job' = [job EXCEPT ![r] = Call(tk, "auto", 0)]
          /\ UNCHANGED <<kill, exchange>>
    BY <1>2 DEF AskApprove, AskCancel, Ask, durable
  <2>2. Call(tk, "auto", 0).sent = 0 /\ Call(tk, "auto", 0).tries = 0
    BY DEF Call
  <2>3. pc \in [Request -> Where] /\ job \in [Request -> Job]
    BY DEF GateInv, CallsTyped
  <2>4. AttemptsCounted'
    BY <2>1, <2>2, <2>3, ExecutionAssumption DEF GateInv, AttemptsCounted
  <2>5. Cleared' = Cleared
    BY <2>1, <2>3 DEF Cleared
  <2>6. Sent' = Sent
    BY <2>1, <2>2, <2>3, NothingSentYet DEF Sent
  <2> QED BY <2>1, <2>4, <2>5, <2>6 DEF GateInv, Cleared, Sent
<1> QED BY <1>1, <1>2

LEMMA GateIsGateStep ==
  ASSUME GateInv, CallsTyped', NEW r \in Request, Gate(r)
  PROVE  GateInv' /\ [Gatekeeper!GateNext]_Gatekeeper!gateVars
<1>1. CASE GateRejects(r)
  BY <1>1, FinishDrops DEF GateRejects
<1>2. CASE GateRaises(r)
  BY <1>2, LeaveDrops DEF GateRaises
<1>3. CASE AwaitApproval(r)
  BY <1>3, FinishDrops DEF AwaitApproval
<1>4. CASE Delay(r)
  BY <1>4, ContinueStutters DEF Delay
<1> QED BY <1>1, <1>2, <1>3, <1>4 DEF Gate

LEMMA BrokerIsGateStep ==
  ASSUME GateInv, CallsTyped', NEW r \in Request, Broker(r)
  PROVE  GateInv' /\ [Gatekeeper!GateNext]_Gatekeeper!gateVars
<1>1. CASE Connect(r) \/ ReadyToPlace(r)
  BY <1>1, ContinueStutters DEF Connect, ReadyToPlace
<1>2. CASE FailEarly(r) \/ BreakerFallback(r) \/ PlaceFails(r)
  BY <1>2, FinishDrops DEF FailEarly, BreakerFallback, PlaceFails
<1>3. CASE AcceptedExecuted(r) \/ AcceptedAsFailed(r)
  BY <1>3, AcceptedPlaces DEF AcceptedExecuted, AcceptedAsFailed
<1>4. CASE LoseReply(r)
  BY <1>4, LostReplyPlaces
<1>5. CASE AttemptFails(r)
  BY <1>5, FailedAttemptStutters
<1> QED BY <1>1, <1>2, <1>3, <1>4, <1>5 DEF Broker

LEMMA OperatorIsGateStep ==
  ASSUME GateInv, CallsTyped', NEW r \in Request, Operator(r)
  PROVE  GateInv' /\ [Gatekeeper!GateNext]_Gatekeeper!gateVars
<1>1. CASE Approve(r)
  <2>1. pc[r] \notin InFlight /\ UNCHANGED <<kill, exchange>>
    BY <1>1 DEF Approve
  <2>2. PICK tk, m, origin :
          PassGate(r, tk, m, origin) \/ EndAtOnce(r, tk, m)
    BY <1>1 DEF Approve
  <2>3. EndAtOnce(r, tk, m) => Leave(r)
    BY DEF EndAtOnce
  <2> QED BY <2>1, <2>2, <2>3, PassGateClears, LeaveDrops
<1>2. CASE NothingFound(r)
  BY <1>2, LeaveDrops DEF NothingFound, durable
<1>3. CASE Cancel(r)
  BY <1>3, LeaveDrops DEF Cancel, CancelUnlocked, durable
<1> QED BY <1>1, <1>2, <1>3 DEF Operator

LEMMA GateStep ==
  ASSUME GateInv, CallsTyped', [Next]_vars
  PROVE  GateInv' /\ [Gatekeeper!GateNext]_Gatekeeper!gateVars
<1>1. UNCHANGED <<pc, job>> => GateInv' /\ Cleared' = Cleared /\ Sent' = Sent
  BY DEF GateInv, AttemptsCounted, Cleared, Sent
<1>2. CASE \E r \in Request, tk \in Ticket :
             Submit(r, tk) \/ AskApprove(r, tk) \/ AskCancel(r, tk)
  BY <1>2, CallIsGateStep
<1>3. CASE \E r \in Request : Gate(r) \/ Broker(r) \/ Operator(r)
  BY <1>3, GateIsGateStep, BrokerIsGateStep, OperatorIsGateStep
<1>4. CASE GetLog \/ SetMode \/ TableWriter \/ UNCHANGED vars
  <2>1. UNCHANGED <<pc, job, kill, exchange>>
    BY <1>4 DEF GetLog, SetMode, TableWriter, ApiCancel, OtherProcessSaves, vars,
                memory, durable
  <2> QED BY <1>1, <2>1 DEF Cleared, Sent
<1>5. CASE KillSwitchOn \/ KillSwitchOff
  <2>1. /\ UNCHANGED <<pc, job, exchange>>
        /\ \/ ~ kill /\ kill' = TRUE
           \/ kill /\ kill' = FALSE
    BY <1>5 DEF KillSwitchOn, KillSwitchOff, durable
  <2> QED BY <1>1, <2>1 DEF Cleared, Sent, Gatekeeper!GateNext, Gatekeeper!Halt,
                            Gatekeeper!Resume
<1>6. CASE Crash
  <2>1. /\ pc' = [r \in Request |-> "idle"] /\ job' = [r \in Request |-> NoJob]
        /\ UNCHANGED exchange /\ kill' = FALSE
    BY <1>6 DEF Crash, durable
  <2>2. Cleared' = {} /\ Sent' = [r \in Request |-> 0]
    BY <2>1, NoJobSentNothing DEF Cleared, Sent
  <2>3. AttemptsCounted'
    BY <2>1, NoJobSentNothing, ExecutionAssumption DEF AttemptsCounted
  <2> QED BY <2>1, <2>2, <2>3 DEF GateInv, Cleared, Sent, Gatekeeper!GateNext,
                                  Gatekeeper!Restart
<1> QED BY <1>2, <1>3, <1>4, <1>5, <1>6 DEF Next, TableWriter

\* Order execution implements the gate of TradingGate: for any number of
\* concurrent requests, tickets, approvals, restarts, lost replies and attempts,
\* one clearance given while the kill switch is off is worth one order if the
\* broker honours idempotency_key, and otherwise as many as there are attempts.
THEOREM GateImplemented == Spec => ImplementsGate
<1>1. Init => AttemptsCounted /\ Gatekeeper!GateInit
  BY NoJobSentNothing, ExecutionAssumption
     DEF Init, AttemptsCounted, Gatekeeper!GateInit
<1>2. AttemptsCounted /\ OrderInv /\ OrderInv' /\ [Next]_vars =>
        AttemptsCounted' /\ [Gatekeeper!GateNext]_Gatekeeper!gateVars
  BY GateStep DEF GateInv, OrderInv
<1> QED BY <1>1, <1>2, OrderInvariant, PTL DEF Spec, ImplementsGate, Gatekeeper!GateSpec
=============================================================================
