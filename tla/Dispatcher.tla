----------------------------- MODULE Dispatcher -----------------------------
(***************************************************************************)
(* The thread pool of zcc_parallel_dispatcher.c: one client thread that     *)
(* creates a pool, runs batches on it and destroys it, and the pool's       *)
(* workers.  Each worker's context has a mutex, a start condition and a     *)
(* done condition; condition variables may wake spuriously.                 *)
(***************************************************************************)
EXTENDS Naturals, FiniteSets

CONSTANTS NumThreads,  \* pool->num_threads
          MaxItems,    \* bound: items in a batch (total_pools)
          MaxBatches,  \* bound: batches per pool
          MaxPools     \* bound: pools created one after the other

ASSUME DispatcherAssumption == /\ NumThreads \in Nat \ {0} /\ MaxItems \in Nat
                               /\ MaxBatches \in Nat /\ MaxPools \in Nat

Worker == 0 .. NumThreads - 1
Item == 0 .. MaxItems - 1

VARIABLES client,    \* where the client is in the calls below
          i,         \* its loop counter
          total,     \* total_pools of the current batch
          offset,    \* current_offset
          worker,    \* where each worker thread is
          task,      \* g_workers[].current_task: start_idx and count
          has_work, terminate,
          evals,     \* history: evaluations of each item in the current batch
          batches, pools   \* history: to bound the calls

callVars == <<total, offset, evals, batches, pools>>
ctxVars == <<task, has_work, terminate>>
vars == <<client, i, callVars, worker, ctxVars>>

(* worker: none        no thread                                            *)
(*         running     before pthread_mutex_lock, or woken and relocking    *)
(*         waiting     in pthread_cond_wait on start_cond                   *)
(*         computing   in qdex_predict_batch_avx2, holding its mutex        *)
(*         exited      returned from worker_thread_fn, not yet joined       *)
WorkerState == {"none", "running", "waiting", "computing", "exited"}
ClientState == {"no_pool", "create", "idle", "submit", "barrier", "await_done", "destroy", "join"}

Init == /\ client = "no_pool" /\ i = 0 /\ total = 0 /\ offset = 0
        /\ worker = [w \in Worker |-> "none"]
        /\ task = [w \in Worker |-> [start |-> 0, count |-> 0]]
        /\ has_work = [w \in Worker |-> FALSE] /\ terminate = [w \in Worker |-> FALSE]
        /\ evals = [k \in Item |-> 0]
        /\ batches = 0 /\ pools = 0

(* Only a computing worker keeps its mutex between two steps.               *)
Free(w) == worker[w] # "computing"

SignalStart(w) == worker' = [worker EXCEPT ![w] = IF @ = "waiting" THEN "running" ELSE @]

Last == i = NumThreads - 1
-----------------------------------------------------------------------------
(* zcc_parallel_pool_create: the contexts are static, each is cleared and   *)
(* its thread started.                                                      *)
Create == /\ client = "no_pool" /\ pools < MaxPools
          /\ client' = "create" /\ i' = 0
          /\ pools' = pools + 1 /\ batches' = 0
          /\ UNCHANGED <<total, offset, evals, worker, ctxVars>>

Spawn == /\ client = "create"
         /\ task' = [task EXCEPT ![i] = [start |-> 0, count |-> 0]]
         /\ has_work' = [has_work EXCEPT ![i] = FALSE]
         /\ terminate' = [terminate EXCEPT ![i] = FALSE]
         /\ worker' = [worker EXCEPT ![i] = "running"]
         /\ IF Last THEN client' = "idle" /\ i' = 0 ELSE client' = client /\ i' = i + 1
         /\ UNCHANGED callVars

(* zcc_parallel_predict_batch_avx2                                          *)
Predict == /\ client = "idle" /\ batches < MaxBatches
           /\ \E n \in 0 .. MaxItems : total' = n
           /\ client' = "submit" /\ i' = 0 /\ offset' = 0
           /\ evals' = [k \in Item |-> 0] /\ batches' = batches + 1
           /\ UNCHANGED <<pools, worker, ctxVars>>

(* Mutants: the remainder goes to everyone; to nobody.                      *)
Share_RemainderToAll == (total \div NumThreads) + (total % NumThreads)
Share_NoRemainder == total \div NumThreads

(* The last worker takes the remainder.                                     *)
Share == (total \div NumThreads) + (IF Last THEN total % NumThreads ELSE 0)

(* Mutant: nobody is signalled.                                             *)
Submit_NoSignal ==
  /\ client = "submit" /\ Free(i)
  /\ task' = [task EXCEPT ![i] = [start |-> offset, count |-> Share]]
  /\ has_work' = [has_work EXCEPT ![i] = TRUE]
  /\ offset' = offset + Share
  /\ IF Last THEN client' = "barrier" /\ i' = 0 ELSE client' = client /\ i' = i + 1
  /\ UNCHANGED <<total, evals, batches, pools, worker, terminate>>

Submit == /\ client = "submit" /\ Free(i)
          /\ task' = [task EXCEPT ![i] = [start |-> offset, count |-> Share]]
          /\ has_work' = [has_work EXCEPT ![i] = TRUE]
          /\ SignalStart(i)
          /\ offset' = offset + Share
          /\ IF Last THEN client' = "barrier" /\ i' = 0 ELSE client' = client /\ i' = i + 1
          /\ UNCHANGED <<total, evals, batches, pools, terminate>>

(* The barrier locks each mutex and tests has_work, again after a wake-up.  *)
Barrier == /\ client = "barrier" /\ Free(i)
           /\ IF has_work[i] THEN client' = "await_done" /\ i' = i
              ELSE IF Last THEN client' = "idle" /\ i' = 0
              ELSE client' = client /\ i' = i + 1
           /\ UNCHANGED <<callVars, worker, ctxVars>>

(* Mutant: if instead of while around the wait.                             *)
ClientWakes_NoRetest ==
  /\ client = "await_done"
  /\ IF Last THEN client' = "idle" /\ i' = 0 ELSE client' = "barrier" /\ i' = i + 1
  /\ UNCHANGED <<callVars, worker, ctxVars>>

ClientWakes == /\ client = "await_done"     \* spuriously
               /\ client' = "barrier"
               /\ UNCHANGED <<i, callVars, worker, ctxVars>>

(* zcc_parallel_pool_destroy: one worker after the other is told to stop,   *)
(* woken and joined.                                                        *)
Destroy == /\ client = "idle"
           /\ client' = "destroy" /\ i' = 0
           /\ UNCHANGED <<callVars, worker, ctxVars>>

(* Mutant: the worker is not woken.                                         *)
Terminate_NoSignal == /\ client = "destroy" /\ Free(i)
                      /\ terminate' = [terminate EXCEPT ![i] = TRUE]
                      /\ client' = "join"
                      /\ UNCHANGED <<i, callVars, worker, task, has_work>>

Terminate == /\ client = "destroy" /\ Free(i)
             /\ terminate' = [terminate EXCEPT ![i] = TRUE]
             /\ SignalStart(i)
             /\ client' = "join"
             /\ UNCHANGED <<i, callVars, task, has_work>>

Join == /\ client = "join" /\ worker[i] = "exited"
        /\ worker' = [worker EXCEPT ![i] = "none"]
        /\ IF Last THEN client' = "no_pool" /\ i' = 0 ELSE client' = "destroy" /\ i' = i + 1
        /\ UNCHANGED <<callVars, ctxVars>>
-----------------------------------------------------------------------------
(* worker_thread_fn: the loop under the mutex.                              *)
WorkerLocks(w) == /\ worker[w] = "running"
                  /\ worker' = [worker EXCEPT ![w] = IF terminate[w] THEN "exited"
                                                     ELSE IF has_work[w] THEN "computing"
                                                     ELSE "waiting"]
                  /\ UNCHANGED <<client, i, callVars, ctxVars>>

WorkerWakes(w) == /\ worker[w] = "waiting"   \* spuriously
                  /\ worker' = [worker EXCEPT ![w] = "running"]
                  /\ UNCHANGED <<client, i, callVars, ctxVars>>

Range(t) == t.start .. t.start + t.count - 1

(* Writes its predictions, then reports done to a client that waits for it. *)
WorkerDone(w) == /\ worker[w] = "computing"
                 /\ evals' = [k \in Item |-> IF k \in Range(task[w]) THEN evals[k] + 1 ELSE evals[k]]
                 /\ has_work' = [has_work EXCEPT ![w] = FALSE]
                 /\ client' = IF client = "await_done" /\ i = w THEN "barrier" ELSE client
                 /\ worker' = [worker EXCEPT ![w] = "running"]
                 /\ UNCHANGED <<i, total, offset, batches, pools, task, terminate>>

ClientCall == Spawn \/ Submit \/ Barrier \/ Terminate \/ Join
Work(w) == WorkerLocks(w) \/ WorkerDone(w)

Next == \/ Create \/ Predict \/ Destroy \/ ClientCall \/ ClientWakes
        \/ \E w \in Worker : Work(w) \/ WorkerWakes(w)

Spec == Init /\ [][Next]_vars

(* Every thread that can run does; nobody is obliged to make another call,  *)
(* and no spurious wake-up is ever promised.                                *)
Fairness == WF_vars(ClientCall) /\ \A w \in Worker : WF_vars(Work(w))

FairSpec == Spec /\ Fairness
-----------------------------------------------------------------------------
(* Type invariant.                                                          *)
TypeOK == /\ client \in ClientState /\ i \in Worker
          /\ total \in 0 .. MaxItems /\ offset \in 0 .. MaxItems
          /\ worker \in [Worker -> WorkerState]
          /\ task \in [Worker -> [start : 0 .. MaxItems, count : 0 .. MaxItems]]
          /\ has_work \in [Worker -> BOOLEAN] /\ terminate \in [Worker -> BOOLEAN]
          /\ evals \in [Item -> Nat]
          /\ batches \in 0 .. MaxBatches /\ pools \in 0 .. MaxPools

(* When a batch returns, every item of it was evaluated exactly once and    *)
(* nothing beyond it was written, for every division of total by threads.   *)
BatchComplete == client = "idle" /\ batches > 0 =>
                   \A k \in Item : evals[k] = IF k < total THEN 1 ELSE 0

(* The caller may free its matrices after the call (the gauntlet test       *)
(* does): no worker is computing, or about to, once the barrier let it go.  *)
BuffersReleased ==
  client \in {"idle", "destroy", "join", "no_pool"} =>
    \A w \in Worker : worker[w] # "computing" /\ ~has_work[w]

(* Two workers never write the same output at the same time.  BatchComplete *)
(* could not hold otherwise; here it is said of every moment.               *)
DisjointChunks ==
  \A v, w \in Worker : v # w /\ worker[v] = "computing" /\ worker[w] = "computing" =>
    Range(task[v]) \cap Range(task[w]) = {}

(* No wake-up is lost: a batch ends, and a destroyed pool is joined.        *)
BatchReturns == client = "submit" ~> client = "idle"
DestroyReturns == client = "destroy" ~> client = "no_pool"
=============================================================================
