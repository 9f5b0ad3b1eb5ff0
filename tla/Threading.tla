------------------------------ MODULE Threading ------------------------------
(***************************************************************************)
(* examples/threading/threading.c: threads that sleep, take a mutex, sleep *)
(* and give it back.  The program that starts and joins them, and may take *)
(* the mutex itself in between, is external.                               *)
(***************************************************************************)
EXTENDS FiniteSetsExt

CONSTANTS
    Thread,     \* threads to be started on one mutex
    Starter,    \* the program that starts them
    Nobody      \* the mutex is free

ASSUME ThreadAssumption == Starter \notin Thread /\ Nobody \notin Thread \cup {Starter}

VARIABLES
    thread,     \* where each thread is
    data,       \* its thread_data
    success,    \* thread_complete_success in it
    mutex,      \* holder of the mutex
    starterHeld \* the starter has had the mutex

threadingVars == <<thread, data, success, mutex, starterHeld>>

ThreadingInit ==
    /\ thread = [t \in Thread |-> "none"]
    /\ data = [t \in Thread |-> "none"]
    /\ success = [t \in Thread |-> FALSE]
    /\ mutex = Nobody /\ starterHeld = FALSE

ThreadGoes(t, from, to) ==
    /\ thread[t] = from
    /\ thread' = [thread EXCEPT ![t] = to]

(* Fault: the parameters are freed on the path where the thread runs too.  *)
StartFreeing(t) ==
    /\ ThreadGoes(t, "none", "sleep")
    /\ data' = [data EXCEPT ![t] = "freed"]
    /\ UNCHANGED <<success, mutex, starterHeld>>

(* start_thread_obtaining_mutex: malloc, then pthread_create.              *)
Start(t) ==
    /\ ThreadGoes(t, "none", "sleep")
    /\ data' = [data EXCEPT ![t] = "allocated"]
    /\ UNCHANGED <<success, mutex, starterHeld>>

(* malloc fails, or pthread_create does and what was allocated is freed.   *)
StartFails(t) ==
    /\ ThreadGoes(t, "none", "not started")
    /\ data' \in {data, [data EXCEPT ![t] = "freed"]}
    /\ UNCHANGED <<success, mutex, starterHeld>>

(* threadfunc: usleep.                                                     *)
Slept(t) ==
    /\ ThreadGoes(t, "sleep", "lock")
    /\ UNCHANGED <<data, success, mutex, starterHeld>>

Obtain(t) ==
    /\ ThreadGoes(t, "lock", "hold")
    /\ mutex = Nobody /\ mutex' = t
    /\ UNCHANGED <<data, success, starterHeld>>

(* Fault: the mutex is not given back.                                     *)
ReleaseMissing(t) ==
    /\ ThreadGoes(t, "hold", "released")
    /\ UNCHANGED <<data, success, mutex, starterHeld>>

(* usleep, pthread_mutex_unlock.                                           *)
ReleaseMutex(t) ==
    /\ ThreadGoes(t, "hold", "released")
    /\ mutex' = Nobody
    /\ UNCHANGED <<data, success, starterHeld>>

Complete(t) ==
    /\ ThreadGoes(t, "released", "returned")
    /\ success' = [success EXCEPT ![t] = TRUE]
    /\ UNCHANGED <<data, mutex, starterHeld>>

(* The starter: takes the mutex once, and gives it back; joins, frees.     *)
StarterTakes ==
    /\ mutex = Nobody /\ mutex' = Starter
    /\ ~starterHeld /\ starterHeld' = TRUE
    /\ UNCHANGED <<thread, data, success>>

StarterReleases ==
    /\ mutex = Starter /\ mutex' = Nobody
    /\ UNCHANGED <<thread, data, success, starterHeld>>

JoinAndFree(t) ==
    /\ ThreadGoes(t, "returned", "joined")
    /\ data' = [data EXCEPT ![t] = "freed"]
    /\ UNCHANGED <<success, mutex, starterHeld>>

RunThread(t) ==
    Slept(t) \/ Obtain(t) \/ ReleaseMutex(t) \/ Complete(t) \/ JoinAndFree(t)

ThreadingNext ==
    \/ StarterTakes \/ StarterReleases
    \/ \E t \in Thread : Start(t) \/ StartFails(t) \/ RunThread(t)

(* Threads keep being scheduled; the starter joins them, and gives the     *)
(* mutex back if it takes it.                                              *)
ThreadingFairness ==
    /\ \A t \in Thread : WF_threadingVars(RunThread(t))
    /\ WF_threadingVars(StarterReleases)

-------------------------------------------------------------------------------
(***************************************************************************)
(* thread_data belongs to the thread from its start until it is joined, on *)
(* no other path to be freed, and reports success only when the mutex is   *)
(* given back.  The flag is set after the unlock (line 37): who gets the   *)
(* mutex next may find it unset, only who joins may rely on it.            *)
(***************************************************************************)
DataOutlivesItsThread ==
    \A t \in Thread :
      /\ thread[t] \in {"sleep", "lock", "hold", "released", "returned"} => data[t] = "allocated"
      /\ success[t] <=> thread[t] \in {"returned", "joined"}
      /\ mutex = t <=> thread[t] = "hold"

(***************************************************************************)
(* Every thread that was started returns and is joined, whatever the order *)
(* in which it and the others get the mutex: none ends holding it.         *)
(***************************************************************************)
StartedThreadsAreJoined ==
    \A t \in Thread : thread[t] = "sleep" ~> thread[t] = "joined"
===============================================================================
