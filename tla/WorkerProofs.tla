---------------------------- MODULE WorkerProofs ----------------------------
(***************************************************************************)
(* Proofs about dev::Worker, for any set of calling threads.               *)
(***************************************************************************)
EXTENDS Worker, TLAPS

\* The places at which a caller waits while it holds x_work.
Waiting == {"startWait", "stopWait", "join"}

\* Who waits holds the mutex, needs the thread, and the destructor is alone.
CallersInv ==
    /\ \A c \in Callers : pc[c] \in Waiting <=> x_work = c
    /\ \A c \in Callers : pc[c] \in Waiting => m_work
    /\ \A c \in Callers : pc[c] \in {"~Worker", "join"} => dying
    /\ dying => \A c \in Callers : pc[c] \in {"idle", "~Worker", "join"}
    /\ dying => \A c, d \in Callers :
                    pc[c] # "idle" /\ pc[d] # "idle" => c = d

\* What the thread may find in m_state at each place of its loop.
ThreadInv ==
    /\ thread \in {"top", "begin"} => m_state \in {"Starting", "Killing"}
    /\ thread \in {"workLoop", "exchange"} =>
           m_state \in {"Started", "Stopping", "Killing"}
    /\ thread = "restore" => m_state = "Stopped" /\ ex = "Killing"
    /\ thread = "sleep" => m_state \in {"Stopped", "Starting", "Killing"}
    /\ thread = "exited" => m_state = "Killing"

\* What ties the two sides together: a state that only a waiting caller can
\* have stored is there only while it waits, and a worker whose last order
\* was a completed stop is asleep or on its way out.
HandshakeInv ==
    /\ m_work /\ m_state = "Starting" => \E c \in Callers : pc[c] = "startWait"
    /\ m_work /\ m_state = "Killing" => \E c \in Callers : pc[c] = "join"
    /\ thread = "restore" => \E c \in Callers : pc[c] = "join"
    /\ \A c \in Callers :
           pc[c] = "join" => m_state = "Killing" \/ thread = "restore"
    /\ halted /\ m_work => /\ thread \in {"sleep", "top", "exited"}
                           /\ m_state \in {"Stopped", "Killing"}

IInv == TypeOK /\ CallersInv /\ ThreadInv /\ HandshakeInv

-----------------------------------------------------------------------------

\* The initial state, in which no thread has been spawned, satisfies IInv.
LEMMA InitIInv == Init => IInv
  BY WorkerAssumption
  DEF Init, IInv, TypeOK, CallersInv, ThreadInv, HandshakeInv, Waiting,
      WorkerState, CallerPC, Functions, ThreadPC

\* Every step of a member function, called by any thread, preserves IInv.
LEMMA CallerStepIInv ==
  ASSUME IInv, NEW c \in Callers,
         \/ \E f \in Functions : Call(c, f)
         \/ startWorking(c) \/ startWorkingReturns(c)
         \/ triggerStopWorking(c)
         \/ stopWorking(c) \/ stopWorkingReturns(c)
         \/ Destroy(c) \/ DestroyReturns(c)
  PROVE  IInv'
  <1> USE WorkerAssumption DEF IInv, TypeOK, WorkerState, CallerPC, Functions,
                               ThreadPC, Waiting
  <1>1. CASE \E f \in Functions : Call(c, f)
    <2> PICK f \in Functions : Call(c, f) BY <1>1
    <2>1. TypeOK' BY DEF Call
    <2>2. CallersInv' BY DEF Call, CallersInv
    <2>3. ThreadInv' BY DEF Call, ThreadInv
    <2>4. HandshakeInv' BY DEF Call, CallersInv, HandshakeInv
    <2> QED BY <2>1, <2>2, <2>3, <2>4
  <1>2. CASE startWorking(c)
    <2>1. TypeOK' BY <1>2 DEF startWorking, Enter, Hold, CompareExchangeWeak, CallersInv, ThreadInv
    <2>2. CallersInv' BY <1>2 DEF startWorking, Enter, Hold, CompareExchangeWeak, CallersInv
    <2>3. ThreadInv' BY <1>2 DEF startWorking, Enter, Hold, CompareExchangeWeak, CallersInv, ThreadInv, HandshakeInv
    <2>4. HandshakeInv' BY <1>2 DEF startWorking, Enter, Hold, CompareExchangeWeak, CallersInv, ThreadInv, HandshakeInv
    <2> QED BY <2>1, <2>2, <2>3, <2>4
  <1>3. CASE startWorkingReturns(c)
    <2>1. TypeOK' BY <1>3 DEF startWorkingReturns, Leave, CallersInv, ThreadInv
    <2>2. CallersInv' BY <1>3 DEF startWorkingReturns, Leave, CallersInv
    <2>3. ThreadInv' BY <1>3 DEF startWorkingReturns, Leave, CallersInv, ThreadInv, HandshakeInv
    <2>4. HandshakeInv' BY <1>3 DEF startWorkingReturns, Leave, CallersInv, ThreadInv, HandshakeInv
    <2> QED BY <2>1, <2>2, <2>3, <2>4
  <1>4. CASE triggerStopWorking(c)
    <2>1. TypeOK' BY <1>4 DEF triggerStopWorking, Enter, Leave, CompareExchangeWeak, CallersInv, ThreadInv
    <2>2. CallersInv' BY <1>4 DEF triggerStopWorking, Enter, Leave, CompareExchangeWeak, CallersInv
    <2>3. ThreadInv' BY <1>4 DEF triggerStopWorking, Enter, Leave, CompareExchangeWeak, CallersInv, ThreadInv, HandshakeInv
    <2>4. HandshakeInv' BY <1>4 DEF triggerStopWorking, Enter, Leave, CompareExchangeWeak, CallersInv, ThreadInv, HandshakeInv
    <2> QED BY <2>1, <2>2, <2>3, <2>4
  <1>5. CASE stopWorking(c)
    <2>1. TypeOK' BY <1>5 DEF stopWorking, Enter, Hold, Leave, CompareExchangeWeak, CallersInv, ThreadInv
    <2>2. CallersInv' BY <1>5 DEF stopWorking, Enter, Hold, Leave, CompareExchangeWeak, CallersInv
    <2>3. ThreadInv' BY <1>5 DEF stopWorking, Enter, Hold, Leave, CompareExchangeWeak, CallersInv, ThreadInv, HandshakeInv
    <2>4. HandshakeInv' BY <1>5 DEF stopWorking, Enter, Hold, Leave, CompareExchangeWeak, CallersInv, ThreadInv, HandshakeInv
    <2> QED BY <2>1, <2>2, <2>3, <2>4
  <1>6. CASE stopWorkingReturns(c)
    <2>1. TypeOK' BY <1>6 DEF stopWorkingReturns, Leave, CallersInv, ThreadInv
    <2>2. CallersInv' BY <1>6 DEF stopWorkingReturns, Leave, CallersInv
    <2>3. ThreadInv' BY <1>6 DEF stopWorkingReturns, Leave, CallersInv, ThreadInv, HandshakeInv
    <2>4. HandshakeInv' BY <1>6 DEF stopWorkingReturns, Leave, CallersInv, ThreadInv, HandshakeInv
    <2> QED BY <2>1, <2>2, <2>3, <2>4
  <1>7. CASE Destroy(c)
    <2>1. TypeOK' BY <1>7 DEF Destroy, Enter, Hold, Leave, CallersInv, ThreadInv
    <2>2. CallersInv' BY <1>7 DEF Destroy, Enter, Hold, Leave, CallersInv
    <2>3. ThreadInv' BY <1>7 DEF Destroy, Enter, Hold, Leave, CallersInv, ThreadInv, HandshakeInv
    <2>4. HandshakeInv' BY <1>7 DEF Destroy, Enter, Hold, Leave, CallersInv, ThreadInv, HandshakeInv
    <2> QED BY <2>1, <2>2, <2>3, <2>4
  <1>8. CASE DestroyReturns(c)
    <2>1. TypeOK' BY <1>8 DEF DestroyReturns, Leave, CallersInv, ThreadInv
    <2>2. CallersInv' BY <1>8 DEF DestroyReturns, Leave, CallersInv
    <2>3. ThreadInv' BY <1>8 DEF DestroyReturns, Leave, CallersInv, ThreadInv, HandshakeInv
    <2>4. HandshakeInv' BY <1>8 DEF DestroyReturns, Leave, CallersInv, ThreadInv, HandshakeInv
    <2> QED BY <2>1, <2>2, <2>3, <2>4
  <1> QED BY <1>1, <1>2, <1>3, <1>4, <1>5, <1>6, <1>7, <1>8

\* Every step of the worker thread preserves IInv.
LEMMA ThreadStepIInv ==
  ASSUME IInv, ThreadStep
  PROVE  IInv'
  <1> USE WorkerAssumption DEF IInv, TypeOK, WorkerState, CallerPC, Functions,
                               ThreadPC, Waiting, callerVars
  <1>1. CASE ThreadTest
    <2>1. TypeOK' BY <1>1 DEF ThreadTest, CallersInv, ThreadInv
    <2>2. CallersInv' BY <1>1 DEF ThreadTest, CallersInv
    <2>3. ThreadInv' BY <1>1 DEF ThreadTest, CallersInv, ThreadInv, HandshakeInv
    <2>4. HandshakeInv' BY <1>1 DEF ThreadTest, CallersInv, ThreadInv, HandshakeInv
    <2> QED BY <2>1, <2>2, <2>3, <2>4
  <1>2. CASE ThreadBegins
    <2>1. TypeOK' BY <1>2 DEF ThreadBegins, CompareExchangeWeak, CallersInv, ThreadInv
    <2>2. CallersInv' BY <1>2 DEF ThreadBegins, CompareExchangeWeak, CallersInv
    <2>3. ThreadInv' BY <1>2 DEF ThreadBegins, CompareExchangeWeak, CallersInv, ThreadInv, HandshakeInv
    <2>4. HandshakeInv' BY <1>2 DEF ThreadBegins, CompareExchangeWeak, CallersInv, ThreadInv, HandshakeInv
    <2> QED BY <2>1, <2>2, <2>3, <2>4
  <1>3. CASE WorkLoopStops
    <2>1. TypeOK' BY <1>3 DEF WorkLoopStops, shouldStop, CallersInv, ThreadInv
    <2>2. CallersInv' BY <1>3 DEF WorkLoopStops, shouldStop, CallersInv
    <2>3. ThreadInv' BY <1>3 DEF WorkLoopStops, shouldStop, CallersInv, ThreadInv, HandshakeInv
    <2>4. HandshakeInv' BY <1>3 DEF WorkLoopStops, shouldStop, CallersInv, ThreadInv, HandshakeInv
    <2> QED BY <2>1, <2>2, <2>3, <2>4
  <1>4. CASE WorkLoopFails
    <2>1. TypeOK' BY <1>4 DEF WorkLoopFails, shouldStop, CallersInv, ThreadInv
    <2>2. CallersInv' BY <1>4 DEF WorkLoopFails, shouldStop, CallersInv
    <2>3. ThreadInv' BY <1>4 DEF WorkLoopFails, shouldStop, CallersInv, ThreadInv, HandshakeInv
    <2>4. HandshakeInv' BY <1>4 DEF WorkLoopFails, shouldStop, CallersInv, ThreadInv, HandshakeInv
    <2> QED BY <2>1, <2>2, <2>3, <2>4
  <1>5. CASE ThreadStops
    <2>1. TypeOK' BY <1>5 DEF ThreadStops, CallersInv, ThreadInv
    <2>2. CallersInv' BY <1>5 DEF ThreadStops, CallersInv
    <2>3. ThreadInv' BY <1>5 DEF ThreadStops, CallersInv, ThreadInv, HandshakeInv
    <2>4. HandshakeInv' BY <1>5 DEF ThreadStops, CallersInv, ThreadInv, HandshakeInv
    <2> QED BY <2>1, <2>2, <2>3, <2>4
  <1>6. CASE ThreadRestores
    <2>1. TypeOK' BY <1>6 DEF ThreadRestores, CallersInv, ThreadInv
    <2>2. CallersInv' BY <1>6 DEF ThreadRestores, CallersInv
    <2>3. ThreadInv' BY <1>6 DEF ThreadRestores, CallersInv, ThreadInv, HandshakeInv
    <2>4. HandshakeInv' BY <1>6 DEF ThreadRestores, CallersInv, ThreadInv, HandshakeInv
    <2> QED BY <2>1, <2>2, <2>3, <2>4
  <1>7. CASE ThreadWakes
    <2>1. TypeOK' BY <1>7 DEF ThreadWakes, CallersInv, ThreadInv
    <2>2. CallersInv' BY <1>7 DEF ThreadWakes, CallersInv
    <2>3. ThreadInv' BY <1>7 DEF ThreadWakes, CallersInv, ThreadInv, HandshakeInv
    <2>4. HandshakeInv' BY <1>7 DEF ThreadWakes, CallersInv, ThreadInv, HandshakeInv
    <2> QED BY <2>1, <2>2, <2>3, <2>4
  <1> QED BY <1>1, <1>2, <1>3, <1>4, <1>5, <1>6, <1>7 DEF ThreadStep

\* IInv holds in every state of every behaviour of Worker.
THEOREM Invariance == Spec => []IInv
  <1>1. IInv /\ [Next]_vars => IInv'
    <2> SUFFICES ASSUME IInv, [Next]_vars PROVE IInv'
      OBVIOUS
    <2>1. CASE ThreadStep BY <2>1, ThreadStepIInv
    <2>2. CASE UNCHANGED vars
      BY <2>2 DEF vars, IInv, TypeOK, CallersInv, ThreadInv, HandshakeInv
    <2>3. CASE Gone BY <2>2, <2>3 DEF Gone
    <2>4. ASSUME NEW c \in Callers,
                 \/ \E f \in Functions : Call(c, f)
                 \/ startWorking(c) \/ startWorkingReturns(c)
                 \/ triggerStopWorking(c)
                 \/ stopWorking(c) \/ stopWorkingReturns(c)
                 \/ Destroy(c) \/ DestroyReturns(c)
          PROVE  IInv'
      BY <2>4, CallerStepIInv
    <2> QED BY <2>1, <2>2, <2>3, <2>4 DEF Next
  <1> QED BY <1>1, InitIInv, PTL DEF Spec

\* Whatever threads call the member functions of a Worker and in whatever
\* order, its variables keep their types and m_work is set exactly while the
\* thread exists (Worker.cpp 35, 43, 118).
THEOREM TypeCorrect == Spec => []TypeOK
  BY Invariance, PTL DEF IInv

\* After stopWorking() has returned and until the next startWorking(), the
\* thread is never inside workLoop() (Worker.cpp 98-109).
THEOREM StopIsFinalHolds == Spec => []StopIsFinal
  <1>1. IInv => StopIsFinal
    BY DEF IInv, TypeOK, ThreadPC, HandshakeInv, StopIsFinal
  <1> QED BY <1>1, Invariance, PTL

\* ~Worker's order to terminate survives the thread's unconditional
\* exchange(Stopped): join() never waits for a thread that does not know
\* (Worker.cpp 73-76, 111-119).
THEOREM KillingIsNotLostHolds == Spec => []KillingIsNotLost
  <1>1. IInv => KillingIsNotLost
    BY DEF IInv, ThreadInv, HandshakeInv, KillingIsNotLost
  <1> QED BY <1>1, Invariance, PTL

=============================================================================
