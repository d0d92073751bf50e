-------------------------- MODULE DispatcherProofs --------------------------
(***************************************************************************)
(* Proofs about Dispatcher for any number of workers, items and batches:    *)
(* the chunks partition a batch, each of its items is evaluated once, and   *)
(* nothing of the caller is touched once the call has returned.             *)
(***************************************************************************)
EXTENDS Dispatcher, TLAPS

(* The chunk of worker w in a batch of n items.                             *)
Start(n, w) == w * (n \div NumThreads)
Count(n, w) == (n \div NumThreads) + (IF w = NumThreads - 1 THEN n % NumThreads ELSE 0)
Chunk(n, w) == Start(n, w) .. Start(n, w) + Count(n, w) - 1

(* Division with remainder, and multiplication by a natural number.         *)
LEMMA DivMod ==
  ASSUME NEW n \in Nat, NEW d \in Nat \ {0}
  PROVE  /\ n \div d \in Nat /\ n % d \in 0 .. d - 1
         /\ n = d * (n \div d) + (n % d)
  BY SMT

LEMMA Product ==
  ASSUME NEW a \in Nat, NEW b \in Nat, NEW q \in Nat, a <= b
  PROVE  a * q \in Nat /\ b * q \in Nat /\ a * q <= b * q
  BY SMT

LEMMA ThreadsNat == NumThreads \in Nat \ {0} /\ NumThreads - 1 \in Worker /\ 0 \in Worker
BY DispatcherAssumption DEF Worker

(* The chunks follow each other from 0 to n.                                *)
LEMMA ChunkBounds ==
  ASSUME NEW n \in 0 .. MaxItems
  PROVE  /\ Start(n, 0) = 0
         /\ \A w \in Worker : /\ Start(n, w) \in Nat /\ Count(n, w) \in Nat
                             /\ Start(n, w) + Count(n, w) <= n
         /\ \A w \in Worker : w # NumThreads - 1 => Start(n, w + 1) = Start(n, w) + Count(n, w)
         /\ Start(n, NumThreads - 1) + Count(n, NumThreads - 1) = n
<1> DEFINE q == n \div NumThreads
           r == n % NumThreads
<1>0. n \in Nat /\ NumThreads \in Nat \ {0}
  BY DispatcherAssumption
<1>1. q \in Nat /\ r \in Nat /\ n = NumThreads * q + r
  <2>1. /\ n \div NumThreads \in Nat /\ n % NumThreads \in 0 .. NumThreads - 1
        /\ n = NumThreads * (n \div NumThreads) + (n % NumThreads)
    BY <1>0, DivMod
  <2> HIDE DEF q, r
  <2>2. q \in Nat /\ r \in 0 .. NumThreads - 1 /\ n = NumThreads * q + r
    BY <2>1 DEF q, r
  <2> QED BY <1>0, <2>2
<1>2. /\ \A w : Start(n, w) = w * q
      /\ \A w : Count(n, w) = q + (IF w = NumThreads - 1 THEN r ELSE 0)
  BY DEF Start, Count
<1> HIDE DEF q, r
<1>3. Start(n, 0) = 0
  BY <1>1, <1>2
<1>4. ASSUME NEW w \in Worker
      PROVE  /\ w \in Nat /\ Start(n, w) \in Nat /\ Count(n, w) \in Nat
             /\ w # NumThreads - 1 => Start(n, w + 1) = Start(n, w) + Count(n, w)
             /\ Start(n, w) + q <= NumThreads * q
             /\ Start(n, w) + Count(n, w) <= n
  <2>1. w \in Nat /\ w + 1 \in Nat /\ w + 1 <= NumThreads
    BY <1>0 DEF Worker
  <2>2. w * q \in Nat /\ (w + 1) * q <= NumThreads * q
    BY <1>0, <1>1, <2>1, Product
  <2>3. (w + 1) * q = w * q + q
    BY <1>1, <2>1, SMT
  <2>4. Start(n, w) \in Nat /\ Start(n, w) + q <= NumThreads * q
    BY <1>2, <2>2, <2>3
  <2>5. Count(n, w) \in Nat /\ (w # NumThreads - 1 => Count(n, w) = q) /\ Count(n, w) <= q + r
    BY <1>1, <1>2
  <2>6. w # NumThreads - 1 => Start(n, w + 1) = Start(n, w) + Count(n, w)
    BY <1>2, <2>3, <2>5
  <2>7. Start(n, w) + Count(n, w) <= n
    <3> DEFINE nq == NumThreads * q
    <3>1. nq \in Nat /\ n = nq + r /\ Start(n, w) + q <= nq
      BY <1>0, <1>1, <2>4, Product
    <3> HIDE DEF nq
    <3> QED BY <1>1, <2>4, <2>5, <3>1
  <2> QED BY <2>1, <2>4, <2>5, <2>6, <2>7
<1>5. Start(n, NumThreads - 1) + Count(n, NumThreads - 1) = n
  <2>1. (NumThreads - 1) * q + q = NumThreads * q
    BY <1>0, <1>1, SMT
  <2> QED BY <1>0, <1>1, <1>2, <2>1, Product
<1> QED BY <1>3, <1>4, <1>5

(* Chunks are disjoint, and cover the batch.                                *)
LEMMA ChunksDisjoint ==
  ASSUME NEW n \in 0 .. MaxItems, NEW v \in Worker, NEW w \in Worker,
         NEW k \in Chunk(n, v), k \in Chunk(n, w)
  PROVE  v = w
<1> DEFINE q == n \div NumThreads
<1>1. ASSUME NEW a \in Worker, NEW b \in Worker, a < b, k \in Chunk(n, a), k \in Chunk(n, b)
      PROVE  FALSE
  <2>1. n \in Nat /\ NumThreads \in Nat \ {0} /\ a \in Nat /\ b \in Nat /\ a + 1 <= b
    BY <1>1, DispatcherAssumption DEF Worker
  <2>2. q \in Nat
    BY <2>1, DivMod
  <2>3. a # NumThreads - 1
    BY <1>1, <2>1 DEF Worker
  <2>4. Start(n, a) = a * q /\ Count(n, a) = q /\ Start(n, b) = b * q
    BY <2>2, <2>3 DEF Start, Count
  <2> HIDE DEF q
  <2>5. a * q \in Nat /\ (a + 1) * q <= b * q /\ (a + 1) * q = a * q + q /\ b * q \in Nat
    BY <2>1, <2>2, Product, SMT
  <2> QED BY <1>1, <2>2, <2>4, <2>5, ChunkBounds DEF Chunk
<1>2. v \in Nat /\ w \in Nat
  BY DispatcherAssumption DEF Worker
<1> QED BY <1>1, <1>2

LEMMA ChunksCover ==
  ASSUME NEW n \in 0 .. MaxItems, NEW k \in Item, k < n
  PROVE  \E w \in Worker : k \in Chunk(n, w)
<1> DEFINE q == n \div NumThreads
           last == NumThreads - 1
<1>0. n \in Nat /\ k \in Nat /\ NumThreads \in Nat \ {0} /\ last \in Worker /\ last \in Nat
  BY DispatcherAssumption DEF Item, Worker
<1>1. q \in Nat /\ \A w : Start(n, w) = w * q
  BY <1>0, DivMod DEF Start
<1>2. CASE k >= Start(n, last)
  BY <1>0, <1>2, ChunkBounds DEF Chunk
<1>3. CASE ~(k >= Start(n, last))
  <2>1. q # 0
    BY <1>0, <1>1, <1>3
  <2>2. k \div q \in Nat /\ k % q \in 0 .. q - 1 /\ k = q * (k \div q) + (k % q)
    BY <1>0, <1>1, <2>1, DivMod
  <2> DEFINE w == k \div q
             m == k % q
  <2> HIDE DEF q, last, w, m
  <2>3. w \in Nat /\ m \in 0 .. q - 1 /\ k = q * w + m
    BY <2>2 DEF w, m
  <2>4. q * w = w * q /\ w * q \in Nat
    BY <1>1, <2>3, Product, SMT
  <2>5. w < last
    <3>1. SUFFICES ASSUME last <= w PROVE FALSE
      BY <1>0, <2>3
    <3>2. last * q <= w * q /\ last * q \in Nat
      BY <1>0, <1>1, <2>3, <3>1, Product
    <3> QED BY <1>0, <1>1, <1>3, <2>3, <2>4, <3>2
  <2>6. w \in Worker /\ w # last
    BY <1>0, <2>3, <2>5 DEF Worker, last
  <2>7. Count(n, w) = q
    BY <1>1, <2>6 DEF Count, q, last
  <2>8. k \in Chunk(n, w)
    BY <1>0, <1>1, <2>3, <2>4, <2>7 DEF Chunk
  <2> QED BY <2>6, <2>8
<1> QED BY <1>2, <1>3
-----------------------------------------------------------------------------
InBatch == client \in {"submit", "barrier", "await_done"}

(* The workers that have been given their chunk of the current batch.       *)
Given(w) == client = "submit" => w < i

(* Where work can be: only with a worker that was given its chunk, and not  *)
(* with one the barrier has passed.                                         *)
WorkInv ==
  \A w \in Worker :
    /\ worker[w] = "computing" => has_work[w]
    /\ has_work[w] => InBatch /\ Given(w)
    /\ client \in {"barrier", "await_done"} /\ w < i => ~has_work[w]

(* What each worker was given.                                              *)
TaskInv ==
  /\ client = "submit" => offset = Start(total, i)
  /\ InBatch => \A w \in Worker : Given(w) =>
       task[w] = [start |-> Start(total, w), count |-> Count(total, w)]

(* An item has been evaluated once if its worker was given it and is done.  *)
Finished(w) == Given(w) /\ ~has_work[w]
EvalInv ==
  /\ client = "create" => batches = 0
  /\ InBatch \/ (client = "idle" /\ batches > 0) =>
       \A k \in Item : evals[k] = IF \E w \in Worker : Finished(w) /\ k \in Chunk(total, w)
                                  THEN 1 ELSE 0

DInv == TypeOK /\ WorkInv /\ TaskInv /\ EvalInv

LEMMA NextWorker ==
  ASSUME TypeOK
  PROVE  /\ i \in Worker /\ i \in Nat /\ \A w \in Worker : w \in Nat /\ w < NumThreads
         /\ ~Last => i + 1 \in Worker
         /\ Last => \A w \in Worker : w < i \/ w = i
         /\ Last <=> i = NumThreads - 1
BY DispatcherAssumption DEF TypeOK, Worker, Last

LEMMA ShareIsCount ==
  ASSUME TypeOK
  PROVE  /\ Share = Count(total, i) /\ Share \in 0 .. MaxItems
         /\ Start(total, i) + Share \in 0 .. MaxItems
         /\ ~Last => Start(total, i + 1) = Start(total, i) + Share
<1>1. total \in 0 .. MaxItems /\ i \in Worker /\ MaxItems \in Nat
  BY DispatcherAssumption DEF TypeOK
<1>2. Share = Count(total, i)
  BY DEF Share, Count, Last
<1> QED BY <1>1, <1>2, ChunkBounds DEF Last

(* Type correctness.                                                        *)
LEMMA TypeStep == TypeOK /\ TaskInv /\ [Next]_vars => TypeOK'
<1> SUFFICES ASSUME TypeOK, TaskInv, [Next]_vars PROVE TypeOK'
  OBVIOUS
<1> USE DEF TypeOK, ClientState, WorkerState, callVars, ctxVars
<1>0. i \in Worker /\ 0 \in Worker /\ (~Last => i + 1 \in Worker)
  BY NextWorker, ThreadsNat
<1>1. CASE Create
  BY <1>0, <1>1, DispatcherAssumption DEF Create
<1>2. CASE Spawn
  BY <1>0, <1>2, DispatcherAssumption DEF Spawn
<1>3. CASE Predict
  BY <1>0, <1>3, DispatcherAssumption DEF Predict
<1>4. CASE Submit
  <2>1. Share \in 0 .. MaxItems
    BY ShareIsCount
  <2>2. offset + Share \in 0 .. MaxItems
    BY <1>4, ShareIsCount DEF TaskInv, Submit
  <2> QED BY <1>0, <1>4, <2>1, <2>2 DEF Submit, SignalStart
<1>5. CASE Barrier
  BY <1>0, <1>5 DEF Barrier
<1>6. CASE ClientWakes
  BY <1>0, <1>6 DEF ClientWakes
<1>7. CASE Destroy
  BY <1>0, <1>7 DEF Destroy
<1>8. CASE Terminate
  BY <1>0, <1>8 DEF Terminate, SignalStart
<1>9. CASE Join
  BY <1>0, <1>9 DEF Join
<1>10. ASSUME NEW w \in Worker, WorkerLocks(w) PROVE TypeOK'
  BY <1>10 DEF WorkerLocks
<1>11. ASSUME NEW w \in Worker, WorkerWakes(w) PROVE TypeOK'
  BY <1>11 DEF WorkerWakes
<1>12. ASSUME NEW w \in Worker, WorkerDone(w) PROVE TypeOK'
  BY <1>12 DEF WorkerDone
<1>13. CASE UNCHANGED vars
  BY <1>13 DEF vars
<1> QED BY <1>1, <1>2, <1>3, <1>4, <1>5, <1>6, <1>7, <1>8, <1>9, <1>10, <1>11, <1>12, <1>13
        DEF Next, ClientCall, Work

(* Work is only where it was given and not yet done.                        *)
LEMMA WorkStep == TypeOK /\ WorkInv /\ [Next]_vars => WorkInv'
<1> SUFFICES ASSUME TypeOK, WorkInv, [Next]_vars PROVE WorkInv'
  OBVIOUS
<1> USE DEF WorkInv, InBatch, Given, callVars, ctxVars
<1>a. /\ i \in Worker /\ i \in Nat /\ \A w \in Worker : w \in Nat /\ w < NumThreads
      /\ ~Last => i + 1 \in Worker
      /\ Last => \A w \in Worker : w < i \/ w = i
  BY NextWorker
<1>b. worker \in [Worker -> WorkerState] /\ has_work \in [Worker -> BOOLEAN]
  BY DEF TypeOK
<1>1. CASE Create
  BY <1>1, <1>a DEF Create
<1>2. CASE Spawn
  BY <1>2, <1>a, <1>b DEF Spawn
<1>3. CASE Predict
  BY <1>3, <1>a DEF Predict
<1>4. CASE Submit
  BY <1>4, <1>a, <1>b DEF Submit, SignalStart, Free
<1>5. CASE Barrier
  BY <1>5, <1>a, <1>b DEF Barrier
<1>6. CASE ClientWakes
  BY <1>6 DEF ClientWakes
<1>7. CASE Destroy
  BY <1>7 DEF Destroy
<1>8. CASE Terminate
  BY <1>8, <1>b DEF Terminate, SignalStart
<1>9. CASE Join
  BY <1>9, <1>b DEF Join
<1>10. ASSUME NEW w \in Worker, WorkerLocks(w) PROVE WorkInv'
  BY <1>10, <1>b DEF WorkerLocks
<1>11. ASSUME NEW w \in Worker, WorkerWakes(w) PROVE WorkInv'
  BY <1>11, <1>b DEF WorkerWakes
<1>12. ASSUME NEW w \in Worker, WorkerDone(w) PROVE WorkInv'
  BY <1>12, <1>b DEF WorkerDone
<1>13. CASE UNCHANGED vars
  BY <1>13 DEF vars
<1> QED BY <1>1, <1>2, <1>3, <1>4, <1>5, <1>6, <1>7, <1>8, <1>9, <1>10, <1>11, <1>12, <1>13
        DEF Next, ClientCall, Work

(* Chunks are handed out in order, and kept until the batch is over.        *)
LEMMA TaskStep == TypeOK /\ TaskInv /\ [Next]_vars => TaskInv'
<1> SUFFICES ASSUME TypeOK, TaskInv, [Next]_vars PROVE TaskInv'
  OBVIOUS
<1> USE DEF TaskInv, InBatch, Given, callVars, ctxVars
<1>a. /\ i \in Worker /\ i \in Nat /\ \A w \in Worker : w \in Nat /\ w < NumThreads
      /\ Last => \A w \in Worker : w < i \/ w = i
  BY NextWorker
<1>b. \A w \in Worker : task[w] \in [start : 0 .. MaxItems, count : 0 .. MaxItems]
  BY DEF TypeOK
<1>1. CASE Create
  BY <1>1 DEF Create
<1>2. CASE Spawn
  BY <1>2 DEF Spawn
<1>3. CASE Predict
  <2>1. total' \in 0 .. MaxItems /\ client' = "submit" /\ i' = 0 /\ offset' = 0
    BY <1>3 DEF Predict
  <2>2. Start(total', 0) = 0
    BY <2>1, ChunkBounds
  <2> QED BY <1>a, <2>1, <2>2
<1>4. CASE Submit
  <2>1. /\ Share = Count(total, i)
        /\ ~Last => Start(total, i + 1) = Start(total, i) + Share
    BY ShareIsCount
  <2>2. /\ offset = Start(total, i) /\ total' = total /\ offset' = offset + Share
        /\ client' = (IF Last THEN "barrier" ELSE "submit") /\ (~Last => i' = i + 1)
        /\ task' = [task EXCEPT ![i] = [start |-> Start(total, i), count |-> Count(total, i)]]
    BY <1>4, <2>1 DEF Submit
  <2>3. task \in [Worker -> [start : 0 .. MaxItems, count : 0 .. MaxItems]]
    BY DEF TypeOK
  <2>4. \A w \in Worker : Given(w)' => w < i \/ w = i
    BY <1>a, <2>2
  <2>5. \A w \in Worker : Given(w)' =>
           task'[w] = [start |-> Start(total', w), count |-> Count(total', w)]
    BY <1>4, <1>a, <2>2, <2>3, <2>4 DEF Submit
  <2>6. client' = "submit" => offset' = Start(total', i')
    BY <2>1, <2>2
  <2> QED BY <2>5, <2>6
<1>5. CASE Barrier
  BY <1>5 DEF Barrier
<1>6. CASE ClientWakes
  BY <1>6 DEF ClientWakes
<1>7. CASE Destroy
  BY <1>7 DEF Destroy
<1>8. CASE Terminate
  BY <1>8 DEF Terminate
<1>9. CASE Join
  BY <1>9 DEF Join
<1>10. ASSUME NEW w \in Worker, WorkerLocks(w) PROVE TaskInv'
  BY <1>10 DEF WorkerLocks
<1>11. ASSUME NEW w \in Worker, WorkerWakes(w) PROVE TaskInv'
  BY <1>11 DEF WorkerWakes
<1>12. ASSUME NEW w \in Worker, WorkerDone(w) PROVE TaskInv'
  BY <1>12 DEF WorkerDone
<1>13. CASE UNCHANGED vars
  BY <1>13 DEF vars
<1> QED BY <1>1, <1>2, <1>3, <1>4, <1>5, <1>6, <1>7, <1>8, <1>9, <1>10, <1>11, <1>12, <1>13
        DEF Next, ClientCall, Work

(* A worker that reports done adds its chunk to what has been evaluated.    *)
LEMMA DoneStep ==
  ASSUME DInv, NEW w \in Worker, WorkerDone(w)
  PROVE  EvalInv'
<1> USE DEF DInv, InBatch, Given
<1>1. /\ worker[w] = "computing" /\ has_work[w] /\ InBatch /\ Given(w)
      /\ task[w] = [start |-> Start(total, w), count |-> Count(total, w)]
  BY DEF WorkerDone, WorkInv, TaskInv
<1>2. Range(task[w]) = Chunk(total, w)
  BY <1>1 DEF Range, Chunk
<1>3. /\ total' = total /\ total \in 0 .. MaxItems /\ batches' = batches /\ i' = i
      /\ has_work' = [has_work EXCEPT ![w] = FALSE] /\ has_work \in [Worker -> BOOLEAN]
      /\ client' # "create" /\ (client' = "submit" <=> client = "submit")
  BY <1>1 DEF WorkerDone, TypeOK
<1>4. \A v \in Worker : Finished(v)' <=> (Finished(v) \/ v = w)
  BY <1>1, <1>3 DEF Finished
<1>5. ASSUME NEW k \in Item
      PROVE  evals'[k] = IF \E v \in Worker : Finished(v)' /\ k \in Chunk(total', v) THEN 1 ELSE 0
  <2>1. evals[k] = IF \E v \in Worker : Finished(v) /\ k \in Chunk(total, v) THEN 1 ELSE 0
    BY <1>1 DEF EvalInv
  <2>2. evals'[k] = IF k \in Chunk(total, w) THEN evals[k] + 1 ELSE evals[k]
    BY <1>2 DEF WorkerDone
  <2>3. CASE k \in Chunk(total, w)
    <3>1. ~\E v \in Worker : Finished(v) /\ k \in Chunk(total, v)
      BY <1>1, <1>3, <2>3, ChunksDisjoint DEF Finished
    <3>2. evals[k] = 0
      BY <2>1, <3>1
    <3>3. \E v \in Worker : Finished(v)' /\ k \in Chunk(total', v)
      BY <1>3, <1>4, <2>3
    <3> QED BY <2>2, <2>3, <3>2, <3>3
  <2>4. CASE k \notin Chunk(total, w)
    <3>1. (\E v \in Worker : Finished(v)' /\ k \in Chunk(total', v))
            <=> (\E v \in Worker : Finished(v) /\ k \in Chunk(total, v))
      BY <1>3, <1>4, <2>4
    <3> QED BY <2>1, <2>2, <2>4, <3>1
  <2> QED BY <2>3, <2>4
<1> QED BY <1>3, <1>5 DEF EvalInv

LEMMA EvalStep == DInv /\ [Next]_vars => EvalInv'
<1> SUFFICES ASSUME DInv, [Next]_vars PROVE EvalInv'
  OBVIOUS
<1> USE DEF EvalInv, InBatch, Finished, Given, callVars, ctxVars
<1>a. /\ i \in Worker /\ i \in Nat /\ \A w \in Worker : w \in Nat /\ w < NumThreads
      /\ Last => \A w \in Worker : w < i \/ w = i
  BY NextWorker DEF DInv
<1>b. EvalInv
  BY DEF DInv
<1>1. CASE Create
  BY <1>1 DEF Create
<1>2. CASE Spawn
  BY <1>2, <1>b DEF Spawn
<1>3. CASE Predict
  BY <1>3, <1>a DEF Predict
<1>4. CASE Submit
  <2>1. has_work \in [Worker -> BOOLEAN]
    BY DEF DInv, TypeOK
  <2>2. /\ client = "submit" /\ client' = (IF Last THEN "barrier" ELSE "submit")
        /\ (~Last => i' = i + 1) /\ has_work' = [has_work EXCEPT ![i] = TRUE]
        /\ total' = total /\ evals' = evals
    BY <1>4 DEF Submit
  <2>3. \A w \in Worker : Finished(w)' <=> Finished(w)
    BY <1>a, <2>1, <2>2
  <2> HIDE DEF Finished
  <2> QED BY <1>b, <2>2, <2>3
<1>5. CASE Barrier
  <2>1. /\ client = "barrier" /\ client' \in {"barrier", "await_done", "idle"}
        /\ has_work' = has_work /\ total' = total /\ evals' = evals
    BY <1>5 DEF Barrier
  <2>2. \A w \in Worker : Finished(w)' <=> Finished(w)
    BY <2>1
  <2> HIDE DEF Finished
  <2> QED BY <1>b, <2>1, <2>2
<1>6. CASE ClientWakes
  BY <1>6, <1>b DEF ClientWakes
<1>7. CASE Destroy
  BY <1>7 DEF Destroy
<1>8. CASE Terminate
  BY <1>8 DEF Terminate
<1>9. CASE Join
  BY <1>9 DEF Join
<1>10. ASSUME NEW w \in Worker, WorkerLocks(w) PROVE EvalInv'
  BY <1>10, <1>b DEF WorkerLocks
<1>11. ASSUME NEW w \in Worker, WorkerWakes(w) PROVE EvalInv'
  BY <1>11, <1>b DEF WorkerWakes
<1>12. ASSUME NEW w \in Worker, WorkerDone(w) PROVE EvalInv'
  BY <1>12, DoneStep
<1>13. CASE UNCHANGED vars
  BY <1>13, <1>b DEF vars
<1> QED BY <1>1, <1>2, <1>3, <1>4, <1>5, <1>6, <1>7, <1>8, <1>9, <1>10, <1>11, <1>12, <1>13
        DEF Next, ClientCall, Work

LEMMA DInit == Init => DInv
<1> SUFFICES ASSUME Init PROVE DInv
  OBVIOUS
<1>1. TypeOK
  BY ThreadsNat, DispatcherAssumption DEF Init, TypeOK, ClientState, WorkerState
<1>2. WorkInv /\ TaskInv /\ EvalInv
  BY DEF Init, WorkInv, TaskInv, EvalInv, InBatch, Given
<1> QED BY <1>1, <1>2 DEF DInv

LEMMA DStep == DInv /\ [Next]_vars => DInv'
BY TypeStep, WorkStep, TaskStep, EvalStep DEF DInv

LEMMA Invariance == Spec => []DInv
BY DInit, DStep, PTL DEF Spec
-----------------------------------------------------------------------------
(* The types are as declared.                                               *)
THEOREM PoolTypes == Spec => []TypeOK
<1>1. DInv => TypeOK
  BY DEF DInv
<1> QED BY <1>1, Invariance, PTL

(* zcc_parallel_predict_batch_avx2 returns only when no worker is computing *)
(* or about to: the caller may free its arrays.                             *)
THEOREM BuffersFree == Spec => []BuffersReleased
<1>1. DInv => BuffersReleased
  BY DEF DInv, WorkInv, InBatch, BuffersReleased
<1> QED BY <1>1, Invariance, PTL

(* Whatever the number of workers and items, two workers that compute at    *)
(* the same time write different items.                                     *)
THEOREM ChunksApart == Spec => []DisjointChunks
<1>1. ASSUME DInv PROVE DisjointChunks
  <2>1. ASSUME NEW v \in Worker, NEW w \in Worker, v # w,
               worker[v] = "computing", worker[w] = "computing"
        PROVE  Range(task[v]) \cap Range(task[w]) = {}
    <3>1. total \in 0 .. MaxItems
      BY <1>1 DEF DInv, TypeOK
    <3>2. ASSUME NEW u \in Worker, worker[u] = "computing"
          PROVE  Range(task[u]) = Chunk(total, u)
      <4>1. task[u] = [start |-> Start(total, u), count |-> Count(total, u)]
        BY <1>1, <3>2 DEF DInv, WorkInv, TaskInv
      <4> QED BY <4>1 DEF Range, Chunk
    <3>3. Range(task[v]) = Chunk(total, v) /\ Range(task[w]) = Chunk(total, w)
      BY <2>1, <3>2
    <3> QED BY <2>1, <3>1, <3>3, ChunksDisjoint
  <2> QED BY <2>1 DEF DisjointChunks
<1> QED BY <1>1, Invariance, PTL

(* When the call returns each item of the batch has been evaluated exactly  *)
(* once, and none beyond it, whatever the division leaves over.             *)
THEOREM BatchIsComplete == Spec => []BatchComplete
<1>1. ASSUME DInv PROVE BatchComplete
  <2>1. ASSUME client = "idle", batches > 0, NEW k \in Item
        PROVE  evals[k] = IF k < total THEN 1 ELSE 0
    <3>1. total \in 0 .. MaxItems
      BY <1>1 DEF DInv, TypeOK
    <3>2. \A w \in Worker : Finished(w)
      BY <1>1, <2>1 DEF DInv, WorkInv, InBatch, Finished, Given
    <3>3. evals[k] = IF \E w \in Worker : Finished(w) /\ k \in Chunk(total, w) THEN 1 ELSE 0
      BY <1>1, <2>1 DEF DInv, EvalInv
    <3>4. (\E w \in Worker : k \in Chunk(total, w)) <=> k < total
      <4>1. ASSUME NEW w \in Worker, k \in Chunk(total, w) PROVE k < total
        BY <3>1, <4>1, ChunkBounds DEF Chunk
      <4> QED BY <3>1, <4>1, ChunksCover
    <3> QED BY <3>2, <3>3, <3>4
  <2> QED BY <2>1 DEF BatchComplete
<1> QED BY <1>1, Invariance, PTL
=============================================================================
