------------------------- MODULE PoolManagerProofs -------------------------
(***************************************************************************)
(* The list of connections and the index of the active one, for any pools, *)
(* any configuration and any number of retries.                            *)
(***************************************************************************)
EXTENDS PoolManager, SequenceTheorems, TLAPS

ListType == m_connections \in Seq(Pools) /\ m_activeConnectionIdx \in Nat

\* A list that has become empty leaves the index at 0, so that it is valid
\* again when addConnection() appends to the list.
EmptyAtZero == m_connections = <<>> => m_activeConnectionIdx = 0

IInv == ListType /\ ActiveInBounds /\ EmptyAtZero

-----------------------------------------------------------------------------

\* erase(i) leaves a list of connections that is shorter by one.
LEMMA EraseType ==
  ASSUME m_connections \in Seq(Pools), NEW i \in Nat, i < Len(m_connections)
  PROVE  erase(i) \in Seq(Pools) /\ Len(erase(i)) = Len(m_connections) - 1
<1> DEFINE n == Len(m_connections) - 1
<1>1. n \in Nat /\ Len(m_connections) = n + 1
  OBVIOUS
<1>2. \A j \in 1 .. n + 1 : m_connections[j] \in Pools
  BY <1>1
<1>3. erase(i) = [j \in 1 .. n |-> IF j <= i THEN m_connections[j]
                                             ELSE m_connections[j + 1]]
  BY DEF erase
<1> HIDE DEF n
<1>4. erase(i) \in [1 .. n -> Pools]
  BY <1>1, <1>2, <1>3
<1>5. erase(i) \in Seq(Pools) /\ Len(erase(i)) = n
  BY <1>1, <1>4
<1> QED
  BY <1>5 DEF n

\* What rotateConnect() settles on is a connection of the list it leaves, or
\* that list is empty and the index 0.
LEMMA RotatedInBounds ==
  ASSUME ListType, m_connections # <<>>
  PROVE  /\ Rotated.conns \in Seq(Pools) /\ Rotated.idx \in Nat
         /\ Rotated.conns # <<>> => Rotated.idx < Len(Rotated.conns)
         /\ Rotated.conns = <<>> => Rotated.idx = 0
<1> DEFINE n == Len(m_connections)
           i == IF m_activeConnectionIdx >= n THEN 0 ELSE m_activeConnectionIdx
<1>1. n \in Nat /\ n > 0 /\ m_connections \in Seq(Pools)
  BY DEF ListType
<1>2. i \in Nat /\ i < n
  BY <1>1 DEF ListType
<1>3. erase(i) \in Seq(Pools) /\ Len(erase(i)) = n - 1
  BY <1>1, <1>2, EraseType
<1>4. erase(i) = <<>> <=> n = 1
  <2> DEFINE left == erase(i)
  <2>1. left \in Seq(Pools) /\ Len(left) = n - 1
    BY <1>3
  <2> HIDE DEF left, n
  <2>2. left = <<>> <=> Len(left) = 0
    BY <2>1, EmptySeq
  <2>3. left = <<>> <=> n = 1
    BY <2>1, <2>2, <1>1
  <2> QED
    BY <2>3 DEF left
<1>5. CASE uri[m_connections[i + 1]].unrecoverable
  <2>1. Rotated = [conns |-> erase(i), idx |-> IF i >= n - 1 THEN 0 ELSE i,
                   attempt |-> 0]
    BY <1>5 DEF Rotated
  <2> QED
    BY <2>1, <1>1, <1>2, <1>3, <1>4
<1>6. CASE ~uri[m_connections[i + 1]].unrecoverable
  <2>1. /\ Rotated.conns = m_connections
        /\ \/ Rotated.idx = i
           \/ n # 1 /\ Rotated.idx = IF i + 1 >= n THEN 0 ELSE i + 1
    BY <1>6, <1>1 DEF Rotated
  <2> QED
    BY <2>1, <1>1, <1>2
<1> QED
  BY <1>5, <1>6

-----------------------------------------------------------------------------

\* The configured list is not empty and its first connection is active.
LEMMA InitIInv == Init => IInv
BY PoolManagerAssumption DEF Init, IInv, ListType, ActiveInBounds, EmptyAtZero

\* setActiveConnectionCommon() only ever stores an index of the list.
LEMMA SelectIInv ==
  ASSUME IInv, NEW i \in Nat, i < Len(m_connections), setActiveConnectionCommon(i)
  PROVE  IInv'
<1>1. CASE Crash
  BY <1>1 DEF IInv, ListType, ActiveInBounds, EmptyAtZero, Crash, list
<1>2. CASE m_activeConnectionIdx' = i /\ UNCHANGED m_connections
  BY <1>2 DEF IInv, ListType, ActiveInBounds, EmptyAtZero
<1> QED
  BY <1>1, <1>2 DEF setActiveConnectionCommon

\* Every step preserves the invariant: most leave the list and the index
\* alone, and the others are the rotation, the failover and the API.
LEMMA IInvStep == IInv /\ [Next]_vars => IInv'
<1> SUFFICES ASSUME IInv, [Next]_vars PROVE IInv'
  OBVIOUS
<1> USE DEF IInv, ListType
<1>1. CASE UNCHANGED list
  BY <1>1 DEF list, ActiveInBounds, EmptyAtZero
<1>2. CASE rotateConnect
  <2>1. CASE isConnected
    BY <1>2, <2>1, <1>1 DEF rotateConnect
  <2>2. CASE ~isConnected
    <3>1. /\ m_connections # <<>>
          /\ m_connections' = Rotated.conns
          /\ m_activeConnectionIdx' = Rotated.idx
      BY <1>2, <2>2 DEF rotateConnect
    <3> QED
      BY <3>1, RotatedInBounds DEF ActiveInBounds, EmptyAtZero
  <2> QED
    BY <2>1, <2>2
<1>3. CASE failovertimer_elapsed
  <2>1. \/ UNCHANGED list
        \/ m_activeConnectionIdx' = 0 /\ UNCHANGED m_connections
    BY <1>3 DEF failovertimer_elapsed, Crash
  <2>2. CASE m_activeConnectionIdx' = 0 /\ UNCHANGED m_connections
    BY <2>2 DEF ActiveInBounds, EmptyAtZero
  <2> QED
    BY <1>1, <2>1, <2>2
<1>4. ASSUME NEW p \in Pools, addConnection(p) PROVE IInv'
  <2>1. m_connections' = Append(m_connections, p) /\ UNCHANGED m_activeConnectionIdx
    BY <1>4 DEF addConnection
  <2> QED
    BY <2>1 DEF ActiveInBounds, EmptyAtZero
<1>5. ASSUME NEW i \in Nat, removeConnection(i) PROVE IInv'
  <2>1. CASE UNCHANGED list
    BY <1>1, <2>1
  <2>2. CASE ~UNCHANGED list
    <3>1. /\ i < Len(m_connections) /\ i # m_activeConnectionIdx
          /\ m_connections' = erase(i)
          /\ m_activeConnectionIdx' = IF m_activeConnectionIdx > i
                                      THEN m_activeConnectionIdx - 1
                                      ELSE m_activeConnectionIdx
      BY <1>5, <2>2 DEF removeConnection, NothingButReply
    <3>2. /\ erase(i) \in Seq(Pools)
          /\ Len(erase(i)) = Len(m_connections) - 1
      BY <3>1, EraseType
    <3>3. m_activeConnectionIdx < Len(m_connections)
      BY <3>1 DEF ActiveInBounds
    <3>4. m_activeConnectionIdx' \in Nat /\ m_activeConnectionIdx' < Len(erase(i))
      BY <3>1, <3>2, <3>3
    <3> QED
      BY <3>1, <3>2, <3>4 DEF ActiveInBounds, EmptyAtZero
  <2> QED
    BY <2>1, <2>2
<1>6. ASSUME NEW i \in Nat, setActiveConnection(i) PROVE IInv'
  BY <1>1, <1>6, SelectIInv DEF setActiveConnection, NothingButReply
<1>7. ASSUME NEW p \in Pools, setActiveConnectionByUri(p) PROVE IInv'
  <2>1. CASE NothingButReply
    BY <1>1, <2>1 DEF NothingButReply
  <2>2. ASSUME NEW i \in 0 .. Len(m_connections) - 1, setActiveConnectionCommon(i)
        PROVE IInv'
    BY <2>2, SelectIInv
  <2> QED
    BY <1>7, <2>1, <2>2 DEF setActiveConnectionByUri
<1>8. CASE clientEvent \/ sessionStarts \/ submithrtimer_elapsed \/ onMinerRestart
  BY <1>1, <1>8 DEF clientEvent, sessionStarts, submithrtimer_elapsed,
                    onMinerRestart
<1>9. CASE timerStep \/ signalStep \/ restart_async
  BY <1>1, <1>9 DEF timerStep, signalStep, restart_async, failovertimer_fires,
                    submithrtimer_fires, signal
<1>10. CASE mainStep
  BY <1>1, <1>10 DEF mainStep, start, doMinerWaits, stop, stopTests,
                     stopWithoutClient, stopDisconnects, stopReturns, exits, Crash
<1>11. CASE UNCHANGED vars
  BY <1>1, <1>11 DEF vars
<1>12. CASE apiStep
  BY <1>12, <1>4, <1>5, <1>6, <1>7, <1>9 DEF apiStep
<1> QED
  BY <1>2, <1>3, <1>8, <1>9, <1>10, <1>11, <1>12 DEF Next, ioStep, Over

\* The index and the list agree in every reachable state.
THEOREM IInvHolds == Spec => []IInv
BY InitIInv, IInvStep, PTL DEF Spec

\* The index of the active connection is always within the list, through
\* rotation, failover and every change the API makes.
THEOREM ActiveInBoundsHolds == Spec => []ActiveInBounds
<1>1. IInv => ActiveInBounds
  BY DEF IInv
<1> QED
  BY <1>1, IInvHolds, PTL

=============================================================================
