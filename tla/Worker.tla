------------------------------- MODULE Worker -------------------------------
(***************************************************************************)
(* dev::Worker (libdevcore/Worker.h, Worker.cpp): an object that owns one  *)
(* thread running a virtual workLoop() and can be started, asked to stop,  *)
(* stopped and destroyed from other threads.                               *)
(*                                                                         *)
(* The four member functions serialise on the mutex x_work; the thread     *)
(* itself never takes it and talks to them through the atomic m_state      *)
(* alone.  Each access to m_state is one step.  A call first waits for the *)
(* mutex; taking it is one step with the first access that follows.        *)
(*                                                                         *)
(* workLoop() is what a subclass makes of it: it returns when it sees      *)
(* shouldStop(), and may return (or throw) at any other time as well.      *)
(***************************************************************************)
EXTENDS Naturals

CONSTANTS
    Callers,      \* the threads that call the member functions
    None          \* nobody holds x_work

ASSUME WorkerAssumption == None \notin Callers

VARIABLES
    m_state,      \* std::atomic<WorkerState>
    m_work,       \* whether the unique_ptr to the thread is set
    x_work,       \* the holder of the mutex
    pc,           \* where each caller is: "idle" outside the member functions
    thread,       \* where the worker thread is, "none" when there is none
    ex,           \* the thread's local ex between lines 73 and 76
    dying,        \* ~Worker has been entered
    halted        \* history: the last of the start and stop calls was a stop,
                  \* and it has returned

vars == <<m_state, m_work, x_work, pc, thread, ex, dying, halted>>

WorkerState == {"Starting", "Started", "Stopping", "Stopped", "Killing"}

Functions == {"startWorking", "triggerStopWorking", "stopWorking", "~Worker"}

CallerPC == {"idle", "startWait", "stopWait", "join"} \cup Functions

ThreadPC == {"none", "top", "begin", "workLoop", "exchange", "restore",
             "sleep", "exited"}

Init ==
    /\ m_state = "Starting"
    /\ m_work = FALSE
    /\ x_work = None
    /\ pc = [c \in Callers |-> "idle"]
    /\ thread = "none"
    /\ ex = "Starting"
    /\ dying = FALSE
    /\ halted = FALSE

shouldStop == m_state # "Started"

\* compare_exchange_weak(from, to).  On x86-64, which the project builds for,
\* it never fails when the values match.
CompareExchangeWeak(from, to) ==
    m_state' = IF m_state = from THEN to ELSE m_state

-----------------------------------------------------------------------------
(* The member functions, called by the thread c.                           *)

\* c calls the member function f of an object that is not being destroyed;
\* C++ requires that no other call is running when the destructor is called
Call(c, f) ==
    /\ pc[c] = "idle" /\ ~dying
    /\ f = "~Worker" => \A d \in Callers : pc[d] = "idle"
    /\ pc' = [pc EXCEPT ![c] = f]
    /\ dying' = (f = "~Worker")
    /\ UNCHANGED <<m_state, m_work, x_work, thread, ex, halted>>

\* c, which has called f, finds x_work free
Enter(c, f) == pc[c] = f /\ x_work = None

\* c releases x_work and returns
Leave(c) == pc' = [pc EXCEPT ![c] = "idle"] /\ x_work' = None

\* c keeps x_work and waits at the given place
Hold(c, place) == pc' = [pc EXCEPT ![c] = place] /\ x_work' = c

startWorking(c) ==
    /\ Enter(c, "startWorking")
    /\ Hold(c, "startWait")
    /\ halted' = FALSE
    /\ \/ m_work /\ CompareExchangeWeak("Stopped", "Starting")
                 /\ UNCHANGED <<m_work, thread>>
       \/ ~m_work /\ m_state' = "Starting" /\ m_work' = TRUE /\ thread' = "top"
    /\ UNCHANGED <<ex, dying>>

startWorkingReturns(c) ==
    /\ pc[c] = "startWait" /\ m_state # "Starting"
    /\ Leave(c)
    /\ UNCHANGED <<m_state, m_work, thread, ex, dying, halted>>

triggerStopWorking(c) ==
    /\ Enter(c, "triggerStopWorking")
    /\ IF m_work THEN CompareExchangeWeak("Started", "Stopping")
                 ELSE UNCHANGED m_state
    /\ Leave(c)
    /\ UNCHANGED <<m_work, thread, ex, dying, halted>>

\* the mutant of stopWorking that waits without asking the thread to stop
stopWorkingOnlyWaits(c) ==
    /\ Enter(c, "stopWorking")
    /\ IF m_work THEN Hold(c, "stopWait") /\ UNCHANGED halted
                 ELSE Leave(c) /\ halted' = TRUE
    /\ UNCHANGED <<m_state, m_work, thread, ex, dying>>

stopWorking(c) ==
    /\ Enter(c, "stopWorking")
    /\ IF m_work
       THEN /\ CompareExchangeWeak("Started", "Stopping")
            /\ Hold(c, "stopWait")
            /\ UNCHANGED halted
       ELSE /\ halted' = TRUE
            /\ Leave(c)
            /\ UNCHANGED m_state
    /\ UNCHANGED <<m_work, thread, ex, dying>>

\* the mutant of stopWorkingReturns that does not wait for Stopped
stopWorkingReturnsEarly(c) ==
    /\ pc[c] = "stopWait"
    /\ halted' = TRUE
    /\ Leave(c)
    /\ UNCHANGED <<m_state, m_work, thread, ex, dying>>

stopWorkingReturns(c) ==
    /\ pc[c] = "stopWait" /\ m_state = "Stopped"
    /\ halted' = TRUE
    /\ Leave(c)
    /\ UNCHANGED <<m_state, m_work, thread, ex, dying>>

Destroy(c) ==
    /\ Enter(c, "~Worker")
    /\ IF m_work THEN m_state' = "Killing" /\ Hold(c, "join")
                 ELSE UNCHANGED m_state /\ Leave(c)
    /\ UNCHANGED <<m_work, thread, ex, dying, halted>>

\* the destructor's join() returns, and it releases the thread object
DestroyReturns(c) ==
    /\ pc[c] = "join" /\ thread = "exited"
    /\ m_work' = FALSE
    /\ thread' = "none"
    /\ Leave(c)
    /\ UNCHANGED <<m_state, ex, dying, halted>>

-----------------------------------------------------------------------------
(* The worker thread.                                                      *)

callerVars == <<m_work, x_work, pc, dying, halted>>

ThreadTest ==
    /\ thread = "top"
    /\ thread' = IF m_state = "Killing" THEN "exited" ELSE "begin"
    /\ UNCHANGED <<m_state, ex>> /\ UNCHANGED callerVars

ThreadBegins ==
    /\ thread = "begin"
    /\ CompareExchangeWeak("Starting", "Started")
    /\ thread' = "workLoop"
    /\ UNCHANGED ex /\ UNCHANGED callerVars

\* workLoop() sees shouldStop() and returns
WorkLoopStops ==
    /\ thread = "workLoop" /\ shouldStop
    /\ thread' = "exchange"
    /\ UNCHANGED <<m_state, ex>> /\ UNCHANGED callerVars

\* workLoop() gives up by itself: the device cannot be initialised, the DAG
\* does not fit, or an exception reaches the catch clause
WorkLoopFails ==
    /\ thread = "workLoop" /\ ~shouldStop
    /\ thread' = "exchange"
    /\ UNCHANGED <<m_state, ex>> /\ UNCHANGED callerVars

\* the mutant of ThreadStops that puts only Starting back
ThreadForgetsKilling ==
    /\ thread = "exchange"
    /\ m_state' = "Stopped"
    /\ IF m_state = "Starting" THEN thread' = "restore" /\ ex' = m_state
                               ELSE thread' = "sleep" /\ UNCHANGED ex
    /\ UNCHANGED callerVars

\* ex = m_state.exchange(Stopped), and the test of ex
ThreadStops ==
    /\ thread = "exchange"
    /\ m_state' = "Stopped"
    /\ IF m_state \in {"Killing", "Starting"}
       THEN thread' = "restore" /\ ex' = m_state
       ELSE thread' = "sleep" /\ UNCHANGED ex
    /\ UNCHANGED callerVars

\* m_state.exchange(ex)
ThreadRestores ==
    /\ thread = "restore"
    /\ m_state' = ex
    /\ ex' = "Starting"
    /\ thread' = "sleep"
    /\ UNCHANGED callerVars

ThreadWakes ==
    /\ thread = "sleep" /\ m_state # "Stopped"
    /\ thread' = "top"
    /\ UNCHANGED <<m_state, ex>> /\ UNCHANGED callerVars

ThreadStep ==
    \/ ThreadTest \/ ThreadBegins \/ WorkLoopStops \/ WorkLoopFails
    \/ ThreadStops \/ ThreadRestores \/ ThreadWakes

\* The object is gone and so is its thread.
Gone ==
    /\ dying /\ thread = "none" /\ \A c \in Callers : pc[c] = "idle"
    /\ UNCHANGED vars

Next ==
    \/ \E c \in Callers :
        \/ \E f \in Functions : Call(c, f)
        \/ startWorking(c) \/ startWorkingReturns(c)
        \/ triggerStopWorking(c)
        \/ stopWorking(c) \/ stopWorkingReturns(c)
        \/ Destroy(c) \/ DestroyReturns(c)
    \/ ThreadStep
    \/ Gone

Spec == Init /\ [][Next]_vars

(***************************************************************************)
(* The operating system runs the worker thread and the thread that waits   *)
(* in a member function; nobody is obliged to call one, and std::mutex is  *)
(* not obliged to be fair.  workLoop() polls shouldStop() and returns;     *)
(* that it fails is never owed.                                            *)
(***************************************************************************)
Fairness ==
    /\ WF_vars(ThreadTest) /\ WF_vars(ThreadBegins) /\ WF_vars(WorkLoopStops)
    /\ WF_vars(ThreadStops) /\ WF_vars(ThreadRestores) /\ WF_vars(ThreadWakes)
    /\ \A c \in Callers : /\ WF_vars(startWorkingReturns(c))
                          /\ WF_vars(stopWorkingReturns(c))
                          /\ WF_vars(DestroyReturns(c))

FairSpec == Spec /\ Fairness

-----------------------------------------------------------------------------
(* Properties.                                                             *)

\* The types, and that the unique_ptr m_work is set exactly while a thread
\* has been spawned and not yet joined (Worker.cpp 35, 43, 118).
TypeOK ==
    /\ m_state \in WorkerState
    /\ m_work \in BOOLEAN
    /\ x_work \in Callers \cup {None}
    /\ pc \in [Callers -> CallerPC]
    /\ thread \in ThreadPC
    /\ ex \in {"Killing", "Starting"}
    /\ dying \in BOOLEAN
    /\ halted \in BOOLEAN
    /\ m_work <=> thread # "none"

\* Once stopWorking() has returned, and until startWorking() is called again,
\* the thread is not inside workLoop() ("waits till thread has stopped").
StopIsFinal == halted => thread # "workLoop"

\* While ~Worker waits in join(), the order to terminate is never lost: it is
\* in m_state, or the thread is between its two exchanges and will put it back.
KillingIsNotLost ==
    \A c \in Callers :
        pc[c] = "join" => \/ m_state = "Killing"
                          \/ thread = "restore" /\ ex = "Killing"
                          \/ thread = "exited"

\* Every call that waits while it holds x_work returns: startWorking() for a
\* state other than Starting, stopWorking() for Stopped, ~Worker for the join.
CallsReturn == \A c \in Callers : (x_work = c) ~> (x_work # c)

-----------------------------------------------------------------------------
(* Expectations the code does not meet (README, Deviations).               *)

\* startWorking() "starts worker thread": also when the call comes while an
\* earlier stop is still in progress, the state Started is reached afterwards.
StartTakesEffect ==
    \A c \in Callers :
        (pc[c] = "startWait" /\ m_state = "Stopping") ~> (m_state = "Started")

=============================================================================
